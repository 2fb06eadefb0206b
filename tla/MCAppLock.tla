------------------------------ MODULE MCAppLock ------------------------------
(***************************************************************************)
(* Instances of the app lock for TLC: the threads of the user interface and *)
(* the command line, in one or two processes.                               *)
(***************************************************************************)
EXTENDS AppLock, TLC

CONSTANTS ui, worker, cli, gui, shell, n1, n2

OneWorker == [t \in {ui, worker} |-> gui]
GuiAndCli == [t \in {ui, cli} |-> IF t = cli THEN shell ELSE gui]

(* The two processes are alike, and so are the PINs.                        *)
Swap == [v \in {ui, cli, gui, shell} |->
           CASE v = ui -> cli [] v = cli -> ui [] v = gui -> shell [] v = shell -> gui]
Symmetry == Permutations(Pins) \cup {Swap}
=============================================================================
