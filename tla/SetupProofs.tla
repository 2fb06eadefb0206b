----------------------------- MODULE SetupProofs -----------------------------
(***************************************************************************)
(* What a setup can rely on, for any handles, any number of transactions    *)
(* and any number of errors, kills and commands: the funds leave the main   *)
(* account once, and the keys on disk are the ones the pool knows.          *)
(***************************************************************************)
EXTENDS Setup, FiniteSetTheorems, TLAPS

(* Where app::register works on the keys; where it holds a copy of them;     *)
(* where the copy is complete.                                              *)
Complete == {"get_user", "reg_submit", "reg_wait", "record"}
Copying  == {"secret"} \cup Complete
Holding  == {"seed"} \cup Copying

Pcs == {"idle", "step", "mark", "CreateAccount", "Fund", "transfer", "transfer_wait", "Deploy",
        "deploy_wait", "Init", "init_config", "stamp", "Register", "migrate", "mig_config",
        "mig_caches", "mig_tickets"} \cup Holding

Funding    == {"Transfer", "External"}
Run == [pc : Pcs, st : SetupState \cup {NoFile}, keys : Keys \cup {NoKeys},
        handle : Handles \cup {NoOne}, at : Nat, confirmed : BOOLEAN]
WizardState == [open : BOOLEAN, confirm : BOOLEAN, flow : Flow \cup {NoFlow}, rx : BOOLEAN,
           mode : Funding \cup {NoOne}]
EventKinds == {"StepStarted", "TxSubmitted", "StepCompleted", "AwaitingDeposit", "Completed", "Ok", "Err"}
Event == [kind : EventKinds, step : 0..Len(STEPS)]

(* The type invariant, by owner. *)
DiskTyped ==
  /\ file \in SetupState \cup {NoFile, Torn}
  /\ keys \in Keys \cup {NoKeys} /\ config \in Config \cup {NoConfig}
  /\ accounts \in BOOLEAN /\ leftovers \subseteq {"sends", "caches", "tickets"}
  /\ minted \in Secret /\ OldScan <= minted
WindowTyped == wiz \in WizardState /\ events \in Seq(Event)
ChainTyped ==
  /\ nonce \in [AccountsOf -> 0..MaxNonce]
  /\ mempool \in [AccountsOf -> Tx \cup {NoTx}]
  /\ \A a \in AccountsOf : mempool[a] # NoTx => nonce[a] < MaxNonce
  /\ outcome \in [AccountsOf -> Seq({"SUCCEEDED", "REVERTED"})]
  /\ \A a \in AccountsOf : Len(outcome[a]) = nonce[a]
  /\ balance \in Nat /\ deployed \in BOOLEAN
  /\ users \in [Handles -> Ident \cup {NoOne, Other}] /\ account_id \in Ident \cup {NoOne}
Typed ==
  /\ DiskTyped /\ WindowTyped /\ ChainTyped
  /\ th \in [Threads -> Run]
  /\ trouble \in Nat /\ slips \in Nat /\ lost \in BOOLEAN
-----------------------------------------------------------------------------
(* The steps of the plan, by what a run of one passes.                       *)
InStage(i, pc) ==
  \/ i = 1 /\ pc = "CreateAccount"
  \/ i = 2 /\ pc \in {"Fund", "transfer", "transfer_wait"}
  \/ i = 3 /\ pc \in {"Deploy", "deploy_wait"}
  \/ i = 4 /\ pc \in {"Init", "init_config", "stamp"}
  \/ i = 5 /\ pc \in {"Register"} \cup Holding

runner == th["wizard"]
running == runner.pc # "idle"

(* What the runner holds is what it saved, and where it is follows from it. *)
Placed ==
  /\ running =>
       /\ runner.st \in SetupState /\ file \in SetupState
       /\ file.done = runner.st.done /\ file.mode = runner.st.mode
       /\ runner.pc \in {"step", "mark"} \/ InStage(runner.st.done + 1, runner.pc)
       /\ runner.pc = "mark" => runner.st.done < Len(STEPS)
       /\ runner.pc \in {"transfer", "transfer_wait"} => runner.st.mode = "Transfer"
  /\ file = Torn => lost

(* The window knows the funding mode that was saved and shows no step done  *)
(* that is not saved as done.                                               *)
Saved(i) == lost \/ (file \in SetupState /\ i <= file.done)
Claims(es) == \E i \in 1..Len(es) : es[i].kind = "StepCompleted" /\ es[i].step = 2
Shown ==
  /\ wiz.open => wiz.mode \in Funding
  /\ wiz.confirm => wiz.open
  /\ wiz.rx => wiz.open /\ wiz.flow # NoFlow
  /\ wiz.open /\ file \in SetupState => wiz.mode = file.mode
  /\ wiz.flow # NoFlow => file # NoFile /\ (wiz.flow.steps[2] = "Done" => Saved(2))
  /\ Claims(events) => Saved(2)

(* What the node holds is what it can pay for.                               *)
Payable ==
  /\ mempool["source"] \in {NoTx, transfer_tx}
  /\ mempool["new"] # NoTx => mempool["new"].kind # "transfer"
  /\ mempool["new"] # NoTx /\ mempool["new"].kind = "deploy" => 1 <= balance

(* Transfers made or under way are paid for by slips; a runner about to make *)
(* one has room for it, unless the account moved since it read the balance.  *)
Waiting == IF mempool["source"] = NoTx THEN 0 ELSE 1
Spent ==
  ~lost =>
    /\ Transfers + Waiting <= 1 + slips
    /\ runner.pc = "transfer" => runner.at <= nonce["source"]
    /\ runner.pc = "transfer" /\ runner.at = nonce["source"] => Transfers <= slips

(* What was transferred is on the account until it is deployed.             *)
Covered == ~lost /\ ~deployed => 2 * Transfers <= balance

(* No run makes a transfer unasked.                                          *)
Asked == ~lost /\ running /\ runner.st.done < 2 /\ runner.st.mode = "Transfer" => runner.confirmed

(* What comes after the funding is there only when the funding is saved as   *)
(* done, or in a profile the command line set up, which has no wizard.       *)
Elsewhere == file = NoFile /\ keys # NoKeys /\ ~wiz.open
PastFunding == deployed \/ mempool["new"] # NoTx \/ keys # NoKeys \/ config # NoConfig
Ordered == ~lost /\ PastFunding => (file \in SetupState /\ 2 <= file.done) \/ Elsewhere

Funded == Payable /\ Spent /\ Covered /\ Asked /\ Ordered

Full(id) == id.kem_seed # 0 /\ id.member_secret # 0
OnV4     == config # NoConfig /\ config.store = "v4"
OldStore == config # NoConfig /\ config.store = "old"
Registering == mempool["new"] # NoTx /\ mempool["new"].kind = "register"
Held(id) == keys # NoKeys /\ keys.id = id /\ Full(id)

(* Every copy of the keys is that of the file, which no step replaces once   *)
(* the chain may learn it.  Only a profile the command line has to itself   *)
(* holds incomplete keys.                                                   *)
Kept ==
  /\ \A t \in Threads :
       /\ th[t].pc \in Holding => keys # NoKeys /\ OnV4
       /\ th[t].pc \in Copying => th[t].keys # NoKeys /\ th[t].keys.id = keys.id /\ keys.id.kem_seed # 0
       /\ th[t].pc \in Complete => Full(keys.id)
  /\ file # NoFile \/ wiz.open \/ running => keys = NoKeys \/ Full(keys.id)
  /\ OldStore =>
       /\ file = NoFile /\ ~wiz.open /\ ~running
       /\ account_id = NoOne /\ mempool["new"] = NoTx
  /\ th["cli"].pc # "idle" => config # NoConfig
  /\ th["cli"].pc = "mig_config" =>
       OldStore /\ keys # NoKeys /\ keys.handle = NoOne /\ keys.id.scan # OldScan
  /\ runner.pc = "init_config" => keys # NoKeys
  /\ keys # NoKeys /\ ~OldStore => keys.id.scan # OldScan
  /\ keys # NoKeys /\ config = NoConfig => keys.handle = NoOne
  /\ keys # NoKeys /\ keys.handle # NoOne /\ OnV4 => users[keys.handle] = keys.id
  /\ account_id # NoOne => Held(account_id)
  /\ Registering => Held(mempool["new"].id)

Inv == Typed /\ Placed /\ Shown /\ Funded /\ Kept
-----------------------------------------------------------------------------
(* The plan has five steps, and what stands for nothing is nothing else.     *)
LEMMA Plan ==
  /\ Len(STEPS) = 5 /\ Step = 1..5
  /\ \A i \in 1..5 : STEPS[i] \in {"CreateAccount", "Fund", "Deploy", "Init", "Register"}
  /\ \A i \in 1..5 : InStage(i, STEPS[i])
  /\ 0 \in Secret /\ 1 \in Secret /\ 2 \in Secret /\ Secret \subseteq Nat
BY SetupAssumption DEF STEPS, Step, InStage, Secret

(* What stands for the absence of a value is no value.                      *)
LEMMA Nothing ==
  /\ NoFile # Torn /\ NoFile \notin SetupState /\ Torn \notin SetupState
  /\ NoOne # Other /\ NoOne \notin Ident /\ Other \notin Ident /\ NoOne \notin Handles
  /\ NoKeys \notin Keys /\ NoConfig \notin Config /\ NoFlow \notin Flow /\ NoTx \notin Tx
BY AbsenceAssumption

(* The files keep their type.                                               *)
LEMMA DiskStays ==
  ASSUME Typed, Placed, Shown, Kept, Next
  PROVE  DiskTyped'
<1>h. /\ DiskTyped /\ th \in [Threads -> Run] /\ {"wizard", "cli"} = Threads
      /\ running => runner.st \in SetupState /\ (runner.pc = "mark" => runner.st.done < 5)
      /\ \A t \in Threads : th[t].pc \in Copying => th[t].keys \in Keys
      /\ \A t \in Threads : th[t].pc \in Holding => keys \in Keys
      /\ th["cli"].pc = "mig_config" => config \in Config
      /\ wiz.open => wiz.mode \in Funding
      /\ wiz.confirm => wiz.open
      /\ minted \in Nat
  BY Plan, Nothing DEF Typed, Placed, Shown, Kept, Threads, Run, DiskTyped, Holding, Copying, OldStore
<1>u. ASSUME UNCHANGED <<disk>>
      PROVE  DiskTyped'
  BY <1>u, <1>h DEF DiskTyped, disk, ui, chain
<1>1. CASE Wizard /\ ~Register("wizard")
  <2>1. CASE mark_done
    <3>1. file' = [runner.st EXCEPT !.done = runner.st.done + 1] /\ runner.st \in SetupState /\ runner.st.done < 5
      BY <2>1, <1>h DEF mark_done, at, next_pending, runner, running
    <3>2. file' \in SetupState
      BY <3>1, Plan DEF SetupState
    <3> QED
      BY <2>1, <3>2, <1>h DEF mark_done, DiskTyped
  <2>2. CASE step_create
    BY <2>2, <1>h, Plan DEF step_create, at, DiskTyped, runner, running, Run, SetupState, Keys, Ident, Config, Secret, Holding, Copying, Complete, Funding
  <2>3. CASE save_new_keys
    <3>1. minted + 1 \in Secret /\ minted' = minted + 1 /\ OldScan <= minted'
      BY <2>3, <1>h, SetupAssumption DEF save_new_keys, Secret, DiskTyped, OldScan
    <3>2. keys' \in Keys
      BY <2>3, <3>1 DEF save_new_keys, new_identity, Keys, Ident
    <3> QED
      BY <2>3, <3>1, <3>2, <1>h DEF save_new_keys, DiskTyped
  <2>4. CASE save_new_config
    BY <2>4, <1>h, Plan DEF save_new_config, at, goto, DiskTyped, runner, running, Run, SetupState, Keys, Ident, Config, Secret, Holding, Copying, Complete, Funding
  <2>5. CASE step_init
    BY <2>5, <1>h, Plan DEF step_init, at, goto, is_burner, DiskTyped, runner, running, Run, SetupState, Keys, Ident, Config, Secret, Holding, Copying, Complete, Funding
  <2> QED
    BY <1>1, <1>u, <2>1, <2>2, <2>3, <2>4, <2>5 DEF Wizard, run_step, park, already_funded, step_fund, transfer, transfer_receipt, step_deploy, deploy_receipt, already_initialized, submit, disk, ui, chain, counts
<1>2. ASSUME NEW t \in Threads, Register(t)
      PROVE  DiskTyped'
  <2>1. CASE ensure_kem_seed(t)
    <3>1. CASE minted' = minted
      BY <2>1, <3>1, <1>h DEF ensure_kem_seed, DiskTyped
    <3>2. CASE minted' # minted
      <4>1. minted + 1 \in Secret /\ minted' = minted + 1 /\ OldScan <= minted'
        BY <2>1, <3>2, <1>h, SetupAssumption DEF ensure_kem_seed, Secret, DiskTyped, OldScan
      <4>2. keys' \in Keys
        BY <2>1, <3>2, <4>1, <1>h DEF ensure_kem_seed, at, update_keys, Keys, Ident, Holding
      <4> QED
        BY <2>1, <4>1, <4>2, <1>h DEF ensure_kem_seed, DiskTyped
    <3> QED
      BY <3>1, <3>2
  <2>2. CASE ensure_register_keys(t)
    <3>1. CASE minted' = minted
      BY <2>2, <3>1, <1>h DEF ensure_register_keys, DiskTyped
    <3>2. CASE minted' # minted
      <4>1. minted + 1 \in Secret /\ minted' = minted + 1 /\ OldScan <= minted'
        BY <2>2, <3>2, <1>h, SetupAssumption DEF ensure_register_keys, Secret, DiskTyped, OldScan
      <4>2. keys' \in Keys
        BY <2>2, <3>2, <4>1, <1>h DEF ensure_register_keys, at, update_keys, Keys, Ident, Copying
      <4> QED
        BY <2>2, <4>1, <4>2, <1>h DEF ensure_register_keys, DiskTyped
    <3> QED
      BY <3>1, <3>2
  <2>3. CASE record_registration(t)
    BY <2>3, <1>h, Plan DEF record_registration, at, ours, update_keys, Idle, DiskTyped, runner, running, Run, SetupState, Keys, Ident, Config, Secret, Holding, Copying, Complete, Funding
  <2> QED
    BY <1>2, <1>u, <2>1, <2>2, <2>3 DEF Register, register, get_user, submit_register, register_receipt, run_refused, ends, submit, disk, ui, chain, counts
<1>3. CASE Cli /\ ~Register("cli")
  <2>1. CASE migrate_keys
    <3>1. CASE ~may_migrate
      BY <2>1, <3>1, <1>h DEF migrate_keys, DiskTyped
    <3>2. CASE may_migrate
      <4>1. minted + 1 \in Secret /\ minted' = minted + 1 /\ OldScan <= minted'
        BY <2>1, <3>2, <1>h, SetupAssumption DEF migrate_keys, Secret, DiskTyped, OldScan
      <4>2. keys' \in Keys
        BY <2>1, <3>2, <4>1 DEF migrate_keys, migrated_keys, update_keys, new_identity, Keys, Ident
      <4> QED
        BY <2>1, <4>1, <4>2, <1>h DEF migrate_keys, DiskTyped
    <3> QED
      BY <3>1, <3>2
  <2>2. CASE migrate_config
    BY <2>2, <1>h, Plan DEF migrate_config, at, goto, DiskTyped, runner, running, Run, SetupState, Keys, Ident, Config, Secret, Holding, Copying, Complete, Funding
  <2>3. CASE migrate_leftovers
    BY <2>3, <1>h, Plan DEF migrate_leftovers, at, goto, Idle, DiskTyped, runner, running, Run, SetupState, Keys, Ident, Config, Secret, Holding, Copying, Complete, Funding
  <2> QED
    BY <1>3, <1>u, <2>1, <2>2, <2>3 DEF Cli, start_cli, disk, ui, chain, counts
<1>4. CASE Window
  <2>1. CASE confirm
    <3>1. file' = file \/ file' = new_plan(wiz.mode)
      BY <2>1 DEF confirm, spawn
    <3>2. new_plan(wiz.mode) \in SetupState
      BY <2>1, <1>h, Plan DEF confirm, new_plan, SetupState, Funding
    <3> QED
      BY <2>1, <3>1, <3>2, <1>h DEF confirm, spawn, DiskTyped
  <2>2. CASE request_resume
    <3>1. file' = file \/ file' = new_plan(wiz.mode)
      BY <2>2 DEF request_resume, spawn, disk
    <3>2. new_plan(wiz.mode) \in SetupState
      BY <2>2, <1>h, Plan DEF request_resume, new_plan, SetupState, Funding
    <3> QED
      BY <2>2, <3>1, <3>2, <1>h DEF request_resume, spawn, disk, DiskTyped
  <2> QED
    BY <1>4, <1>u, <2>1, <2>2 DEF Window, new_profile, resume, dismiss, close, create, poll, disk, ui, chain, counts
<1>5. CASE Faults
  <2>1. CASE save_fails
    BY <2>1, <1>h, Plan DEF save_fails, at, troubled, emit, Done, Idle, DiskTyped, runner, running, Run, SetupState, Keys, Ident, Config, Secret, Holding, Copying, Complete, Funding
  <2>2. ASSUME NEW torn \in BOOLEAN, kill(torn)
        PROVE  DiskTyped'
    BY <2>2, <1>h, Plan DEF kill, troubled, at, Closed, Idle, DiskTyped, runner, running, Run, SetupState, Keys, Ident, Config, Secret, Holding, Copying, Complete, Funding
  <2> QED
    BY <1>5, <1>u, <2>1, <2>2 DEF Faults, run_fails, step_fund, evict, ends, disk, ui, chain, counts
<1>6. CASE Chain \/ finish_sends
  <2>1. CASE finish_sends
    BY <2>1, <1>h, Plan DEF finish_sends, DiskTyped, runner, running, Run, SetupState, Keys, Ident, Config, Secret, Holding, Copying, Complete, Funding
  <2> QED
    BY <1>6, <1>u, <2>1 DEF Chain, execute, deposit, other_registers, disk, ui, chain, counts
<1> QED
  BY <1>1, <1>2, <1>3, <1>4, <1>5, <1>6 DEF Next, Cli, Wizard, Threads

(* How a step changes a run.                                                *)
LEMMA Runs ==
  ASSUME th \in [Threads -> Run], NEW t \in Threads
  PROVE  /\ Idle \in Run /\ [th EXCEPT ![t] = Idle] \in [Threads -> Run]
         /\ \A r \in Run : [th EXCEPT ![t] = r] \in [Threads -> Run]
         /\ \A pc \in Pcs :
              /\ [th EXCEPT ![t].pc = pc] \in [Threads -> Run]
              /\ \A n \in Nat : [th EXCEPT ![t].pc = pc, ![t].at = n] \in [Threads -> Run]
              /\ \A k \in Keys : [th EXCEPT ![t].pc = pc, ![t].keys = k] \in [Threads -> Run]
              /\ \A h \in Handles \cup {NoOne} : [Idle EXCEPT !.pc = pc, !.handle = h] \in Run
              /\ \A st \in SetupState, c \in BOOLEAN :
                   [Idle EXCEPT !.pc = pc, !.st = st, !.handle = Handle, !.confirmed = c] \in Run
<1>1. Idle \in Run
  BY DEF Run, Idle, Pcs
<1>2. \A r \in Run : [th EXCEPT ![t] = r] \in [Threads -> Run]
  OBVIOUS
<1>3. ASSUME NEW pc \in Pcs
      PROVE  /\ [th[t] EXCEPT !.pc = pc] \in Run
             /\ \A n \in Nat : [th[t] EXCEPT !.pc = pc, !.at = n] \in Run
             /\ \A k \in Keys : [th[t] EXCEPT !.pc = pc, !.keys = k] \in Run
             /\ \A h \in Handles \cup {NoOne} : [Idle EXCEPT !.pc = pc, !.handle = h] \in Run
             /\ \A st \in SetupState, c \in BOOLEAN :
                  [Idle EXCEPT !.pc = pc, !.st = st, !.handle = Handle, !.confirmed = c] \in Run
  BY <1>1 DEF Run, Handles
<1>4. ASSUME NEW pc \in Pcs
      PROVE  /\ [th EXCEPT ![t].pc = pc] \in [Threads -> Run]
             /\ \A n \in Nat : [th EXCEPT ![t].pc = pc, ![t].at = n] \in [Threads -> Run]
             /\ \A k \in Keys : [th EXCEPT ![t].pc = pc, ![t].keys = k] \in [Threads -> Run]
  BY <1>2, <1>3
<1> QED
  BY <1>1, <1>2, <1>3, <1>4

(* What starting a run leaves on disk and in the runner.                    *)
LEMMA Spawned ==
  ASSUME th \in [Threads -> Run], file \in SetupState \cup {NoFile, Torn}, wiz.mode \in Funding,
         NEW c \in BOOLEAN, spawn(c)
  PROVE  /\ th' \in [Threads -> Run]
         /\ file' \in SetupState /\ th'["wizard"].st = file'
         /\ file' = IF file \in SetupState THEN file ELSE new_plan(wiz.mode)
         /\ th'["wizard"].pc = "step" /\ th'["wizard"].confirmed = c
         /\ th'["cli"] = th["cli"]
<1>1. new_plan(wiz.mode) \in SetupState
  BY Plan DEF new_plan, SetupState, Funding
<1>2. "step" \in Pcs /\ "wizard" \in Threads
  BY DEF Pcs, Threads
<1>3. /\ file' \in SetupState
      /\ file' = IF file \in SetupState THEN file ELSE new_plan(wiz.mode)
      /\ th' = [th EXCEPT !["wizard"] = [Idle EXCEPT !.pc = "step", !.st = file', !.handle = Handle,
                                                     !.confirmed = c]]
  BY <1>1, Nothing DEF spawn
<1>4. th'["wizard"] = [Idle EXCEPT !.pc = "step", !.st = file', !.handle = Handle, !.confirmed = c]
  BY <1>2, <1>3
<1>5. [Idle EXCEPT !.pc = "step", !.st = file', !.handle = Handle, !.confirmed = c] \in Run
  BY <1>2, <1>3, Runs
<1>6. th' \in [Threads -> Run] /\ th'["cli"] = th["cli"]
  BY <1>2, <1>3, <1>5
<1>7. th'["wizard"].pc = "step" /\ th'["wizard"].st = file' /\ th'["wizard"].confirmed = c
  BY <1>4 DEF Idle
<1> QED
  BY <1>3, <1>6, <1>7

(* The two runs keep their type.                                            *)
LEMMA RunsStay ==
  ASSUME Typed, Placed, Shown, Kept, Next
  PROVE  (th \in [Threads -> Run])'
<1>h. /\ th \in [Threads -> Run] /\ {"wizard", "cli"} = Threads
      /\ nonce \in [AccountsOf -> Nat]
      /\ running => runner.st \in SetupState /\ (runner.pc = "mark" => runner.st.done < 5)
      /\ \A t \in Threads : th[t].pc \in Copying => th[t].keys \in Keys
      /\ \A t \in Threads : th[t].pc \in Holding => keys \in Keys
      /\ wiz.open => wiz.mode \in Funding
      /\ wiz.confirm => wiz.open
      /\ file \in SetupState \cup {NoFile, Torn} /\ minted \in Secret
  BY Plan, Nothing DEF Typed, Placed, Shown, Kept, Threads, Run, DiskTyped, ChainTyped, Holding, Copying, OldStore
<1>u. ASSUME UNCHANGED <<th>>
      PROVE  (th \in [Threads -> Run])'
  BY <1>u, <1>h DEF disk, ui, chain
<1>1. CASE Wizard /\ ~Register("wizard")
  <2>1. CASE run_step
    <3>1. CASE runner.st.done = Len(STEPS)
      BY <2>1, <3>1, <1>h, Runs DEF run_step, runner
    <3>2. CASE runner.st.done # Len(STEPS)
      <4>1. next_pending(runner.st) \in 1..5
        BY <2>1, <3>2, <1>h, Plan DEF run_step, at, runner, running, next_pending, SetupState
      <4>2. STEPS[next_pending(runner.st)] \in Pcs
        BY <4>1, Plan DEF Pcs
      <4> QED
        <5>1. th' = [th EXCEPT !["wizard"].pc = STEPS[next_pending(runner.st)]]
          BY <2>1, <3>2 DEF run_step, goto, runner
        <5> QED
          BY <5>1, <4>2, <1>h, Runs
    <3> QED
      BY <3>1, <3>2
  <2>2. CASE mark_done
    <3>1. [runner.st EXCEPT !.done = next_pending(runner.st)] \in SetupState
      BY <2>2, <1>h, Plan DEF mark_done, at, next_pending, runner, running, SetupState
    <3>2. "step" \in Pcs /\ runner.confirmed \in BOOLEAN
      BY <1>h DEF Pcs, runner, Run
    <3> QED
      BY <2>2, <3>1, <3>2, <1>h, Runs DEF mark_done, runner
  <2>3. CASE step_create
    <3>0. runner \in Run /\ runner.st \in SetupState
      BY <2>3, <1>h DEF step_create, at, runner, running
    <3>2. [runner.st EXCEPT !.address = TRUE] \in SetupState
      BY <3>0 DEF SetupState
    <3>1. [runner EXCEPT !.pc = "mark", !.st.address = TRUE] \in Run
      BY <3>0, <3>2 DEF Run, Pcs
    <3> QED
      BY <2>3, <3>1, <1>h, Runs DEF step_create, runner
  <2>4. CASE park
    BY <2>4, <1>h, Plan, Runs DEF park, at, fund_needed, troubled, emit, AwaitingDeposit, Done, Idle, Threads, AccountsOf, Pcs, Holding, Copying, Complete, runner, running
  <2>5. CASE already_funded
    BY <2>5, <1>h, Plan, Runs DEF already_funded, at, fund_needed, goto, Threads, AccountsOf, Pcs, Holding, Copying, Complete, runner, running
  <2>6. CASE step_fund(TRUE)
    BY <2>6, <1>h, Plan, Runs DEF step_fund, at, fund_needed, troubled, Threads, AccountsOf, Pcs, Holding, Copying, Complete, runner, running
  <2>7. CASE transfer
    BY <2>7, <1>h, Plan, Runs DEF transfer, at, submit, can_submit, transfer_tx, emit, TxSubmitted, Threads, AccountsOf, Pcs, Holding, Copying, Complete, runner, running
  <2>8. CASE transfer_receipt
    BY <2>8, <1>h, Plan, Runs DEF transfer_receipt, at, goto, Threads, AccountsOf, Pcs, Holding, Copying, Complete, runner, running
  <2>9. CASE step_deploy
    <3>1. CASE deployed
      BY <2>9, <3>1, <1>h DEF step_deploy, goto, Pcs, Run
    <3>2. CASE ~deployed
      BY <2>9, <3>2, <1>h DEF step_deploy, submit, AccountsOf, Pcs, Run
    <3> QED
      BY <3>1, <3>2
  <2>10. CASE deploy_receipt
    BY <2>10, <1>h, Plan, Runs DEF deploy_receipt, at, goto, Threads, AccountsOf, Pcs, Holding, Copying, Complete, runner, running
  <2>11. CASE save_new_keys
    BY <2>11, <1>h, Plan, Runs DEF save_new_keys, at, goto, new_identity, Threads, AccountsOf, Pcs, Holding, Copying, Complete, runner, running
  <2>12. CASE save_new_config
    BY <2>12, <1>h, Plan, Runs DEF save_new_config, at, goto, Threads, AccountsOf, Pcs, Holding, Copying, Complete, runner, running
  <2>13. CASE already_initialized
    BY <2>13, <1>h, Plan, Runs DEF already_initialized, at, goto, Threads, AccountsOf, Pcs, Holding, Copying, Complete, runner, running
  <2>14. CASE step_init
    BY <2>14, <1>h, Plan, Runs DEF step_init, at, goto, is_burner, Threads, AccountsOf, Pcs, Holding, Copying, Complete, runner, running
  <2> QED
    BY <1>1, <1>u, <2>1, <2>2, <2>3, <2>4, <2>5, <2>6, <2>7, <2>8, <2>9, <2>10, <2>11, <2>12, <2>13, <2>14 DEF Wizard, disk, ui, chain, counts
<1>2. ASSUME NEW t \in Threads, Register(t)
      PROVE  (th \in [Threads -> Run])'
  <2>1. CASE register(t)
    BY <2>1, <1>h, Plan, Runs DEF register, at, goto, may_register, Threads, AccountsOf, Pcs, Holding, Copying, Complete, runner, running
  <2>2. CASE ensure_kem_seed(t)
    <3>1. [keys EXCEPT !.id.kem_seed = minted + 1] \in Keys \/ minted' # minted + 1
      BY <2>2, <1>h, SetupAssumption DEF ensure_kem_seed, at, Holding, Keys, Ident, Secret
    <3> QED
      <4>2. PICK k \in Keys : th' = [th EXCEPT ![t].pc = "secret", ![t].keys = k]
        BY <2>2, <3>1, <1>h DEF ensure_kem_seed, at, Holding
      <4>3. "secret" \in Pcs
        BY DEF Pcs, Holding, Copying
      <4> QED
        BY <4>2, <4>3, <1>h, Runs
  <2>3. CASE ensure_register_keys(t)
    <3>1. [th[t].keys EXCEPT !.id.member_secret = minted + 1] \in Keys \/ minted' # minted + 1
      BY <2>3, <1>h, SetupAssumption DEF ensure_register_keys, at, Copying, Keys, Ident, Secret
    <3> QED
      <4>1. \/ th' = [th EXCEPT ![t].pc = "get_user"]
            \/ \E k \in Keys : th' = [th EXCEPT ![t].pc = "get_user", ![t].keys = k]
        BY <2>3, <3>1, <1>h DEF ensure_register_keys, at, goto
      <4>2. "get_user" \in Pcs
        BY DEF Pcs, Holding, Copying, Complete
      <4> QED
        BY <4>1, <4>2, <1>h DEF Run
  <2>4. CASE get_user(t)
    BY <2>4, <1>h, Plan, Runs DEF get_user, at, goto, ours, Threads, AccountsOf, Pcs, Holding, Copying, Complete, runner, running
  <2>5. CASE submit_register(t)
    BY <2>5, <1>h, Plan, Runs DEF submit_register, at, submit, can_submit, register_tx, Threads, AccountsOf, Pcs, Holding, Copying, Complete, runner, running
  <2>6. CASE register_receipt(t)
    BY <2>6, <1>h, Plan, Runs DEF register_receipt, at, goto, Threads, AccountsOf, Pcs, Holding, Copying, Complete, runner, running
  <2>7. CASE record_registration(t)
    BY <2>7, <1>h, Plan, Runs DEF record_registration, at, ours, update_keys, Idle, Threads, AccountsOf, Pcs, Holding, Copying, Complete, runner, running
  <2>8. CASE run_refused(t)
    BY <2>8, <1>h, Plan, Runs DEF run_refused, at, ends, emit, Done, Idle, Threads, AccountsOf, Pcs, Holding, Copying, Complete, runner, running
  <2> QED
    BY <1>2, <1>u, <2>1, <2>2, <2>3, <2>4, <2>5, <2>6, <2>7, <2>8 DEF Register, disk, ui, chain, counts
<1>3. CASE Cli /\ ~Register("cli")
  <2>1. ASSUME NEW pc \in {"Register", "migrate"}, NEW h \in Handles \cup {NoOne}, start_cli(pc, h)
        PROVE  (th \in [Threads -> Run])'
    BY <2>1, <1>h, Plan, Runs DEF start_cli, at, troubled, Idle, Threads, AccountsOf, Pcs, Holding, Copying, Complete, runner, running
  <2>2. CASE migrate_keys
    <3>1. CASE th' = [th EXCEPT !["cli"].pc = "mig_config"]
      BY <3>1, <1>h DEF Run, Pcs
    <3>2. CASE th' = [th EXCEPT !["cli"] = Idle]
      BY <3>2, <1>h, Runs
    <3> QED
      BY <2>2, <3>1, <3>2 DEF migrate_keys, goto
  <2>3. CASE migrate_config
    BY <2>3, <1>h, Plan, Runs DEF migrate_config, at, goto, Threads, AccountsOf, Pcs, Holding, Copying, Complete, runner, running
  <2>4. CASE migrate_leftovers
    <3>1. CASE th' = [th EXCEPT !["cli"].pc = "mig_tickets"]
      BY <3>1, <1>h DEF Run, Pcs
    <3>2. CASE th' = [th EXCEPT !["cli"] = Idle]
      BY <3>2, <1>h, Runs
    <3> QED
      BY <2>4, <3>1, <3>2 DEF migrate_leftovers, goto
  <2> QED
    BY <1>3, <1>u, <2>1, <2>2, <2>3, <2>4 DEF Cli, disk, ui, chain, counts
<1>4. CASE Window
  <2>1. CASE confirm
    BY <2>1, Spawned, <1>h, Runs DEF confirm
  <2>2. CASE request_resume
    BY <2>2, Spawned, <1>h, Runs DEF request_resume
  <2> QED
    BY <1>4, <1>u, <2>1, <2>2 DEF Window, new_profile, resume, dismiss, close, create, poll, disk, ui, chain, counts
<1>5. CASE Faults
  <2>1. ASSUME NEW t \in Threads, run_fails(t)
        PROVE  (th \in [Threads -> Run])'
    BY <2>1, <1>h, Plan, Runs DEF run_fails, at, troubled, ends, emit, Done, Idle, Threads, AccountsOf, Pcs, Holding, Copying, Complete, runner, running
  <2>2. CASE save_fails
    BY <2>2, <1>h, Plan, Runs DEF save_fails, at, troubled, emit, Done, Idle, Threads, AccountsOf, Pcs, Holding, Copying, Complete, runner, running
  <2>3. CASE step_fund(FALSE)
    BY <2>3, <1>h, Plan, Runs DEF step_fund, at, fund_needed, troubled, Threads, AccountsOf, Pcs, Holding, Copying, Complete, runner, running
  <2>4. ASSUME NEW torn \in BOOLEAN, kill(torn)
        PROVE  (th \in [Threads -> Run])'
    BY <2>4, <1>h, Plan, Runs DEF kill, troubled, at, Closed, Idle, Threads, AccountsOf, Pcs, Holding, Copying, Complete, runner, running
  <2> QED
    BY <1>5, <1>u, <2>1, <2>2, <2>3, <2>4 DEF Faults, evict, disk, ui, chain, counts
<1>6. CASE Chain \/ finish_sends
  <2> QED
    BY <1>6, <1>u DEF Chain, execute, deposit, other_registers, finish_sends, disk, ui, chain, counts
<1> QED
  BY <1>1, <1>2, <1>3, <1>4, <1>5, <1>6 DEF Next, Cli, Wizard, Threads

-----------------------------------------------------------------------------
(* The window *)

(* What a run reports, and that only a completed step is reported as one.    *)
LEMMA Reports ==
  /\ \A i \in 1..5 :
       /\ StepStarted(i) \in Seq(Event) /\ ~Claims(StepStarted(i))
       /\ TxSubmitted(i) \in Seq(Event) /\ ~Claims(TxSubmitted(i))
       /\ StepCompleted(i) \in Seq(Event) /\ (Claims(StepCompleted(i)) => i = 2)
  /\ \A ok \in BOOLEAN : Done(ok) \in Seq(Event) /\ ~Claims(Done(ok))
  /\ AwaitingDeposit \o Done(TRUE) \in Seq(Event) /\ ~Claims(AwaitingDeposit \o Done(TRUE))
  /\ Completed \o Done(TRUE) \in Seq(Event) /\ ~Claims(Completed \o Done(TRUE))
<1>1. ASSUME NEW i \in 1..5
      PROVE  /\ StepStarted(i) \in Seq(Event) /\ ~Claims(StepStarted(i))
             /\ TxSubmitted(i) \in Seq(Event) /\ ~Claims(TxSubmitted(i))
             /\ StepCompleted(i) \in Seq(Event) /\ (Claims(StepCompleted(i)) => i = 2)
  BY Plan DEF StepStarted, TxSubmitted, StepCompleted, Claims, Event, EventKinds
<1>2. ASSUME NEW ok \in BOOLEAN
      PROVE  Done(ok) \in Seq(Event) /\ ~Claims(Done(ok))
  BY Plan DEF Done, Claims, Event, EventKinds
<1>3. AwaitingDeposit \o Done(TRUE) \in Seq(Event) /\ ~Claims(AwaitingDeposit \o Done(TRUE))
  BY Plan DEF AwaitingDeposit, Done, Claims, Event, EventKinds
<1>4. Completed \o Done(TRUE) \in Seq(Event) /\ ~Claims(Completed \o Done(TRUE))
  BY Plan DEF Completed, Done, Claims, Event, EventKinds
<1> QED
  BY <1>1, <1>2, <1>3, <1>4

(* A flow built from a checkpoint shows Fund done just when it is saved as done.*)
LEMMA FromState ==
  ASSUME NEW st \in SetupState
  PROVE  from_state(st) \in Flow /\ (from_state(st).steps[2] = "Done" <=> 2 <= st.done)
BY Plan DEF from_state, Flow, StepStatus, SetupState

(* Only the completion of Fund makes a flow show it as done.                *)
LEMMA Applied ==
  ASSUME NEW flow \in Flow, NEW e \in Event
  PROVE  /\ apply(flow, e) \in Flow
         /\ apply(flow, e).steps[2] = "Done" =>
              flow.steps[2] = "Done" \/ (e.kind = "StepCompleted" /\ e.step = 2)
<1>s. ASSUME NEW i \in 0..5, NEW st \in StepStatus
      PROVE  /\ set_status(flow, i, st) \in Flow
             /\ set_status(flow, i, st).steps[2] = "Done" => flow.steps[2] = "Done" \/ (i = 2 /\ st = "Done")
  BY <1>s, Plan DEF set_status, find_pending, Flow
<1>f. fail(flow) \in Flow /\ (fail(flow).steps[2] = "Done" => flow.steps[2] = "Done")
  BY Plan DEF fail, Flow, StepStatus
<1>p. /\ parked(flow) \in Flow
      /\ parked(flow).steps[2] = "Done" => flow.steps[2] = "Done"
  <2>1. /\ set_status(flow, 2, "Pending") \in Flow
        /\ set_status(flow, 2, "Pending").steps[2] = "Done" => flow.steps[2] = "Done"
    BY <1>s DEF StepStatus
  <2> QED
    BY <2>1 DEF parked, Flow
<1>1. e.step \in 0..5
  BY Plan DEF Event
<1>2. CASE e.kind = "StepStarted"
  <2>1. [set_status(flow, e.step, "Running") EXCEPT !.awaiting = FALSE] = apply(flow, e)
    BY <1>2 DEF apply
  <2>2. set_status(flow, e.step, "Running") \in Flow
        /\ (set_status(flow, e.step, "Running").steps[2] = "Done" => flow.steps[2] = "Done")
    BY <1>1, <1>s DEF StepStatus
  <2> QED
    BY <2>1, <2>2 DEF Flow
<1>3. CASE e.kind = "StepCompleted"
  BY <1>1, <1>3, <1>s DEF apply, StepStatus
<1>4. CASE e.kind = "AwaitingDeposit"
  BY <1>4, <1>p DEF apply
<1>5. CASE e.kind = "Err"
  BY <1>5, <1>f DEF apply
<1>6. CASE e.kind \notin {"StepStarted", "StepCompleted", "AwaitingDeposit", "Err"}
  BY <1>6 DEF apply
<1> QED
  BY <1>2, <1>3, <1>4, <1>5, <1>6

(* What a step of the runner adds to the channel.                            *)
LEMMA Emitted ==
  ASSUME events \in Seq(Event), NEW es \in Seq(Event), emit(es)
  PROVE  /\ events' \in Seq(Event)
         /\ Claims(events') => Claims(events) \/ Claims(es)
<1>1. events' = events \o es /\ events' \in Seq(Event)
  BY DEF emit
<1>2. ASSUME NEW i \in 1..Len(events'), events'[i].kind = "StepCompleted", events'[i].step = 2
      PROVE  Claims(events) \/ Claims(es)
  <2>1. CASE i <= Len(events)
    BY <1>1, <1>2, <2>1 DEF Claims
  <2>2. CASE i > Len(events)
    <3>1. i - Len(events) \in 1..Len(es) /\ events'[i] = es[i - Len(events)]
      BY <1>1, <2>2
    <3> QED
      BY <1>2, <3>1 DEF Claims
  <2> QED
    BY <2>1, <2>2
<1> QED
  BY <1>1, <1>2 DEF Claims

(* Starting a run shows its checkpoint and empties the channel.             *)
LEMMA Opened ==
  ASSUME wiz \in WizardState, th \in [Threads -> Run], file \in SetupState \cup {NoFile, Torn},
         wiz.mode \in Funding, NEW c \in BOOLEAN, spawn(c)
  PROVE  /\ wiz' \in WizardState /\ events' = <<>> /\ WindowTyped'
         /\ wiz'.mode = wiz.mode /\ wiz'.open = wiz.open /\ ~wiz'.confirm /\ wiz'.flow = from_state(file')
<1>1. /\ wiz' = [wiz EXCEPT !.confirm = FALSE, !.flow = from_state(file'), !.rx = TRUE]
      /\ events' = <<>>
  BY DEF spawn
<1>2. from_state(file') \in Flow
  BY Spawned, FromState
<1>3. wiz' \in WizardState
  BY <1>1, <1>2 DEF WizardState
<1>4. events' \in Seq(Event)
  BY <1>1
<1> QED
  BY <1>1, <1>3, <1>4 DEF WindowTyped, WizardState

(* The window and its channel keep their type.                              *)
LEMMA WindowTypedStays ==
  ASSUME Typed, Placed, Shown, Next
  PROVE  WindowTyped'
<1>h. /\ wiz \in WizardState /\ th \in [Threads -> Run] /\ events \in Seq(Event)
      /\ file \in SetupState \cup {NoFile, Torn}
      /\ running => runner.st \in SetupState /\ (runner.pc = "mark" => runner.st.done < 5)
      /\ wiz.open => wiz.mode \in Funding
      /\ wiz.confirm => wiz.open
      /\ wiz.rx => wiz.flow \in Flow
  <2>1. wiz.rx => wiz.flow \in Flow
    BY DEF Typed, WindowTyped, WizardState, Shown
  <2>2. /\ running => runner.st \in SetupState /\ (runner.pc = "mark" => runner.st.done < 5)
    BY Plan DEF Placed
  <2> QED
    BY <2>1, <2>2 DEF Typed, WindowTyped, DiskTyped, Shown
<1>u. ASSUME UNCHANGED <<ui>>
      PROVE  WindowTyped'
  BY <1>u, <1>h DEF WindowTyped, disk, ui, chain
<1>1. CASE Wizard /\ ~Register("wizard")
  <2>1. CASE run_step
    <3>1. CASE runner.st.done = Len(STEPS)
      <4>1. emit(Completed \o Done(TRUE))
        BY <2>1, <3>1 DEF run_step, runner
      <4> QED
        BY <2>1, <4>1, <1>h, Reports, Emitted DEF run_step, WindowTyped
    <3>2. CASE runner.st.done # Len(STEPS)
      <4>1. next_pending(runner.st) \in 1..5
        BY <2>1, <3>2, <1>h, Plan DEF run_step, at, runner, running, next_pending, SetupState
      <4>2. emit(StepStarted(next_pending(runner.st)))
        BY <2>1, <3>2 DEF run_step, runner
      <4> QED
        BY <2>1, <4>1, <4>2, <1>h, Reports, Emitted DEF run_step, WindowTyped
    <3> QED
      BY <3>1, <3>2
  <2>2. CASE mark_done
    <3>1. next_pending(runner.st) \in 1..5
      BY <2>2, <1>h, SMTT(20) DEF mark_done, at, runner, running, next_pending, SetupState
    <3>2. emit(StepCompleted(next_pending(runner.st)))
      BY <2>2 DEF mark_done, runner
    <3> QED
      BY <2>2, <3>1, <3>2, <1>h, Reports, Emitted DEF mark_done, WindowTyped
  <2>3. CASE park
    BY <2>3, <1>h, Reports, Plan DEF park, at, fund_needed, troubled, emit, AwaitingDeposit, Done, Idle, WindowTyped, runner, running, WizardState, SetupState, Funding
  <2>4. CASE transfer
    BY <2>4, <1>h, Reports, Plan DEF transfer, at, submit, can_submit, transfer_tx, emit, TxSubmitted, WindowTyped, runner, running, WizardState, SetupState, Funding
  <2>5. CASE step_deploy
    <3>1. UNCHANGED events \/ emit(TxSubmitted(3))
      BY <2>5 DEF step_deploy
    <3> QED
      BY <2>5, <3>1, <1>h, Reports, Emitted DEF step_deploy, WindowTyped
  <2> QED
    BY <1>1, <1>u, <2>1, <2>2, <2>3, <2>4, <2>5 DEF Wizard, step_create, already_funded, step_fund, transfer_receipt, deploy_receipt, save_new_keys, save_new_config, already_initialized, step_init, disk, ui, chain, counts
<1>2. ASSUME NEW t \in Threads, Register(t)
      PROVE  WindowTyped'
  <2>1. CASE run_refused(t)
    <3>1. UNCHANGED events \/ emit(Done(FALSE))
      BY <2>1 DEF run_refused, ends
    <3> QED
      BY <2>1, <3>1, <1>h, Reports, Emitted DEF run_refused, ends, WindowTyped
  <2> QED
    BY <1>2, <1>u, <2>1 DEF Register, register, ensure_kem_seed, ensure_register_keys, get_user, submit_register, register_receipt, record_registration, submit, disk, ui, chain, counts
<1>3. CASE Cli /\ ~Register("cli")
  <2> QED
    BY <1>3, <1>u DEF Cli, start_cli, migrate_keys, migrate_config, migrate_leftovers, disk, ui, chain, counts
<1>4. CASE Window
  <2>1. ASSUME NEW mode \in Modes, new_profile(mode)
        PROVE  WindowTyped'
    BY <2>1, <1>h, SetupAssumption DEF new_profile, Closed, WindowTyped, WizardState, Funding
  <2>2. CASE resume
    <3>1. file \in SetupState /\ file.mode \in Funding
      BY <2>2, <1>h DEF resume, SetupState, Funding
    <3> QED
      BY <2>2, <3>1, <1>h, FromState DEF resume, Closed, WindowTyped, WizardState, Funding
  <2>3. CASE dismiss
    BY <2>3, <1>h, Reports, Plan DEF dismiss, WindowTyped, runner, running, WizardState, SetupState, Funding
  <2>4. CASE close
    BY <2>4, <1>h, Reports, Plan DEF close, Closed, WindowTyped, runner, running, WizardState, SetupState, Funding
  <2>5. CASE confirm
    BY <2>5, Opened, <1>h DEF confirm
  <2>6. CASE request_resume
    BY <2>6, Opened, <1>h DEF request_resume, WindowTyped, WizardState
  <2>7. CASE create
    BY <2>7, <1>h, Reports, Plan DEF create, dir_exists, WindowTyped, runner, running, WizardState, SetupState, Funding
  <2>8. CASE poll
    <3>1. Head(events) \in Event /\ Tail(events) \in Seq(Event)
      BY <2>8, <1>h DEF poll
    <3>2. CASE Head(events).kind = "Completed"
      <4>1. wiz' = Closed /\ events' = <<>>
        BY <2>8, <3>2 DEF poll
      <4>2. Closed \in WizardState
        BY DEF Closed, WizardState
      <4>3. events' \in Seq(Event)
        BY <4>1
      <4> QED
        BY <4>1, <4>2, <4>3 DEF WindowTyped
    <3>3. CASE Head(events).kind # "Completed"
      <4>1. /\ wiz' = [wiz EXCEPT !.flow = apply(wiz.flow, Head(events)), !.rx = ~ended(Head(events))]
            /\ events' = Tail(events) /\ wiz.rx
        BY <2>8, <3>3 DEF poll
      <4> QED
        BY <4>1, <3>1, <1>h, Applied DEF ended, WindowTyped, WizardState
    <3> QED
      BY <3>2, <3>3
  <2> QED
    BY <1>4, <1>u, <2>1, <2>2, <2>3, <2>4, <2>5, <2>6, <2>7, <2>8 DEF Window, disk, ui, chain, counts
<1>5. CASE Faults
  <2>1. ASSUME NEW t \in Threads, run_fails(t)
        PROVE  WindowTyped'
    <3>1. UNCHANGED events \/ emit(Done(FALSE))
      BY <2>1 DEF run_fails, ends
    <3> QED
      BY <2>1, <3>1, <1>h, Reports, Emitted DEF run_fails, ends, WindowTyped
  <2>2. CASE save_fails
    BY <2>2, <1>h, Reports, Emitted DEF save_fails, WindowTyped
  <2>3. ASSUME NEW torn \in BOOLEAN, kill(torn)
        PROVE  WindowTyped'
    BY <2>3, <1>h, Reports, Plan DEF kill, troubled, at, Closed, Idle, WindowTyped, runner, running, WizardState, SetupState, Funding
  <2> QED
    BY <1>5, <1>u, <2>1, <2>2, <2>3 DEF Faults, step_fund, evict, disk, ui, chain, counts
<1>6. CASE Chain \/ finish_sends
  <2> QED
    BY <1>6, <1>u DEF Chain, execute, deposit, other_registers, finish_sends, disk, ui, chain, counts
<1> QED
  BY <1>1, <1>2, <1>3, <1>4, <1>5, <1>6 DEF Next, Cli, Wizard, Threads

(* The checkpoint changes when a step is done, when it is lost, and when a   *)
(* run begins without one.                                                  *)
FileSteps ==
  \/ file' = file /\ lost' = lost
  \/ file' = Torn /\ lost' /\ (running \/ wiz.open)
  \/ /\ {file, file'} \subseteq SetupState /\ lost' = lost
     /\ file'.done = file.done + 1 /\ file'.mode = file.mode
  \/ file \in {NoFile, Torn} /\ wiz.open /\ file' = new_plan(wiz.mode) /\ file' \in SetupState /\ lost' = lost

(* No step but a kill takes back what the checkpoint holds.                 *)
LEMMA FileStepsHold ==
  ASSUME Typed, Placed, Shown, Kept, Next
  PROVE  FileSteps
<1>h. /\ th \in [Threads -> Run] /\ file \in SetupState \cup {NoFile, Torn} /\ lost \in BOOLEAN
      /\ running =>
           /\ {file, runner.st} \subseteq SetupState
           /\ file.done = runner.st.done /\ file.mode = runner.st.mode
           /\ runner.pc = "mark" => runner.st.done < 5
      /\ wiz.open => wiz.mode \in Funding
      /\ wiz.confirm \/ wiz.rx => wiz.open
  BY Plan DEF Typed, DiskTyped, Placed, Shown
<1>u. ASSUME UNCHANGED <<file, lost>>
      PROVE  FileSteps
  BY <1>u, <1>h DEF FileSteps, disk, ui, chain
<1>1. CASE Wizard /\ ~Register("wizard")
  <2>1. CASE mark_done
    <3>1. file' = [runner.st EXCEPT !.done = runner.st.done + 1] /\ running /\ runner.pc = "mark" /\ lost' = lost
      BY <2>1 DEF mark_done, at, next_pending, runner, running, counts
    <3>2. file' \in SetupState /\ file'.done = file.done + 1 /\ file'.mode = file.mode
      BY <3>1, <1>h, Plan DEF SetupState
    <3> QED
      BY <3>1, <3>2, <1>h DEF FileSteps
  <2> QED
    BY <1>1, <1>u, <2>1 DEF Wizard, run_step, step_create, park, already_funded, step_fund, transfer, transfer_receipt, step_deploy, deploy_receipt, save_new_keys, save_new_config, already_initialized, step_init, submit, disk, ui, chain, counts
<1>2. ASSUME NEW t \in Threads, Register(t)
      PROVE  FileSteps
  <2> QED
    BY <1>2, <1>u DEF Register, register, ensure_kem_seed, ensure_register_keys, get_user, submit_register, register_receipt, record_registration, run_refused, ends, submit, disk, ui, chain, counts
<1>3. CASE Cli /\ ~Register("cli")
  <2> QED
    BY <1>3, <1>u DEF Cli, start_cli, migrate_keys, migrate_config, migrate_leftovers, disk, ui, chain, counts
<1>4. CASE Window
  <2>1. CASE confirm
    BY <2>1, <1>h, Spawned, Nothing DEF confirm, spawn, counts, FileSteps
  <2>2. CASE request_resume
    BY <2>2, <1>h, Spawned, Nothing DEF request_resume, spawn, disk, counts, FileSteps
  <2> QED
    BY <1>4, <1>u, <2>1, <2>2 DEF Window, new_profile, resume, dismiss, close, create, poll, disk, ui, chain, counts
<1>5. CASE Faults
  <2>1. CASE save_fails
    BY <2>1 DEF save_fails, at, FileSteps, runner, running
  <2>2. ASSUME NEW torn \in BOOLEAN, kill(torn)
        PROVE  FileSteps
    BY <2>2, <1>h DEF kill, FileSteps
  <2> QED
    BY <1>5, <1>u, <2>1, <2>2 DEF Faults, run_fails, step_fund, evict, ends, disk, ui, chain, counts
<1>6. CASE Chain \/ finish_sends
  <2> QED
    BY <1>6, <1>u DEF Chain, execute, deposit, other_registers, finish_sends, disk, ui, chain, counts
<1> QED
  BY <1>1, <1>2, <1>3, <1>4, <1>5, <1>6 DEF Next, Cli, Wizard, Threads

-----------------------------------------------------------------------------
(* The runner *)

Enters == step_fund(TRUE) \/ step_fund(FALSE)

(* A run stays, ends, goes on within a step or to the next one, has a step   *)
(* done, or begins.                                                         *)
GoesOn ==
  /\ running /\ running' /\ file' = file
  /\ runner'.st \in SetupState /\ runner'.st.done = runner.st.done /\ runner'.st.mode = runner.st.mode
  /\ runner'.confirmed = runner.confirmed
  /\ \/ runner.pc = "step" /\ runner.st.done < 5 /\ InStage(runner.st.done + 1, runner'.pc)
     \/ \E i \in 1..5 : InStage(i, runner.pc) /\ (InStage(i, runner'.pc) \/ runner'.pc = "mark")
  /\ runner'.pc \in {"transfer", "transfer_wait"} =>
       runner.pc \in {"transfer", "transfer_wait"} \/ runner.st.mode = "Transfer"
  /\ runner'.pc = "transfer" => Enters
Marks ==
  /\ running /\ runner'.pc = "step" /\ runner'.st = file' /\ runner'.confirmed = runner.confirmed
  /\ file' \in SetupState /\ file'.done = runner.st.done + 1 /\ file'.mode = runner.st.mode
Begins ==
  /\ wiz.open /\ runner'.pc = "step" /\ runner'.st = file' /\ file' \in SetupState
  /\ file' = IF file \in SetupState THEN file ELSE new_plan(wiz.mode)
  /\ runner'.confirmed \/ (~needs_confirm /\ wiz.flow # NoFlow)
RunnerSteps ==
  \/ UNCHANGED <<runner, file>> \/ runner'.pc = "idle" \/ GoesOn \/ Marks \/ Begins

(* The runner goes from one pc to the next of its stage.                    *)
LEMMA RunnerStepsHold ==
  ASSUME Typed, Placed, Shown, Kept, Next
  PROVE  RunnerSteps
<1>h. /\ th \in [Threads -> Run] /\ {"wizard", "cli"} = Threads
      /\ file \in SetupState \cup {NoFile, Torn}
      /\ running => runner.st \in SetupState /\ (runner.pc = "mark" => runner.st.done < 5)
      /\ wiz.open => wiz.mode \in Funding
      /\ wiz.confirm => wiz.open
  BY Plan DEF Typed, DiskTyped, Shown, Placed, Threads
<1>u. ASSUME UNCHANGED <<runner, file>>
      PROVE  RunnerSteps
  BY <1>u, <1>h DEF RunnerSteps, disk, ui, chain
<1>1. CASE Wizard /\ ~Register("wizard")
  <2>1. CASE run_step
    <3>1. runner.pc = "step" /\ running /\ runner.st \in SetupState /\ file' = file
      BY <2>1, <1>h DEF run_step, at, runner, running, disk
    <3>2. CASE runner.st.done = Len(STEPS)
      BY <2>1, <3>2, <1>h DEF run_step, Idle, RunnerSteps, runner
    <3>3. CASE runner.st.done # Len(STEPS)
      <4>1. next_pending(runner.st) \in 1..5 /\ next_pending(runner.st) = runner.st.done + 1 /\ runner.st.done < 5
        BY <3>1, <3>3, Plan DEF next_pending, SetupState
      <4>2. /\ runner'.pc = STEPS[next_pending(runner.st)]
            /\ runner'.st = runner.st /\ runner'.confirmed = runner.confirmed
        <5>1. th' = [th EXCEPT !["wizard"].pc = STEPS[next_pending(runner.st)]]
          BY <2>1, <3>3 DEF run_step, goto, runner
        <5> QED
          BY <5>1, <1>h DEF runner
      <4>3. /\ runner'.pc \notin {"idle", "transfer", "transfer_wait"}
            /\ InStage(runner.st.done + 1, runner'.pc)
        BY <4>1, <4>2, Plan
      <4> QED
        BY <3>1, <4>1, <4>2, <4>3 DEF RunnerSteps, GoesOn, running
    <3> QED
      BY <3>2, <3>3
  <2>2. CASE mark_done
    <3>1. /\ file' = [runner.st EXCEPT !.done = runner.st.done + 1] /\ running
          /\ runner'.pc = "step" /\ runner'.st = file' /\ runner'.confirmed = runner.confirmed
      BY <2>2, <1>h DEF mark_done, at, next_pending, runner, running
    <3>2. file' \in SetupState /\ file'.done = runner.st.done + 1 /\ file'.mode = runner.st.mode
      BY <2>2, <3>1, <1>h, Plan DEF mark_done, at, runner, SetupState
    <3> QED
      BY <3>1, <3>2 DEF RunnerSteps, Marks
  <2>3. CASE step_create
    <3>1. /\ runner.pc = "CreateAccount" /\ runner'.pc \in {"mark"} /\ file' = file
          /\ runner'.st.done = runner.st.done /\ runner'.st.mode = runner.st.mode /\ runner'.st \in SetupState
          /\ runner'.confirmed = runner.confirmed
      <4>1. /\ runner.pc = "CreateAccount" /\ running /\ file' = file
            /\ runner' = [runner EXCEPT !.pc = "mark", !.st = [runner.st EXCEPT !.address = TRUE]]
        BY <2>3, <1>h DEF step_create, at, runner, running
      <4>2. [runner.st EXCEPT !.address = TRUE] \in SetupState
        BY <4>1, <1>h DEF SetupState
      <4> QED
        BY <4>1, <4>2, <1>h DEF SetupState, runner, Run
    <3> QED
      BY <3>1 DEF RunnerSteps, GoesOn, InStage, running
  <2>4. CASE park
    BY <2>4, <1>h DEF park, at, fund_needed, troubled, emit, AwaitingDeposit, Done, Idle, RunnerSteps, GoesOn, runner, running, InStage
  <2>5. CASE already_funded
    <3>1. /\ runner.pc = "Fund" /\ runner'.pc \in {"mark"} /\ file' = file
          /\ runner'.st.done = runner.st.done /\ runner'.st.mode = runner.st.mode /\ runner'.st \in SetupState
          /\ runner'.confirmed = runner.confirmed
      BY <2>5, <1>h DEF already_funded, at, goto, runner, running, disk
    <3> QED
      BY <3>1 DEF RunnerSteps, GoesOn, InStage, running
  <2>6. CASE step_fund(TRUE)
    <3>1. /\ runner.pc = "Fund" /\ runner'.pc \in {"transfer"} /\ file' = file /\ runner.st.mode = "Transfer"
          /\ runner'.st.done = runner.st.done /\ runner'.st.mode = runner.st.mode /\ runner'.st \in SetupState
          /\ runner'.confirmed = runner.confirmed
      BY <2>6, <1>h DEF step_fund, at, runner, running, disk
    <3>2. Enters
      BY <2>6 DEF Enters
    <3> QED
      BY <3>1, <3>2 DEF RunnerSteps, GoesOn, InStage, running
  <2>7. CASE transfer
    <3>1. /\ runner.pc = "transfer" /\ runner'.pc \in {"transfer_wait"} /\ file' = file
          /\ runner'.st.done = runner.st.done /\ runner'.st.mode = runner.st.mode /\ runner'.st \in SetupState
          /\ runner'.confirmed = runner.confirmed
      BY <2>7, <1>h DEF transfer, at, submit, runner, running, disk
    <3> QED
      BY <3>1 DEF RunnerSteps, GoesOn, InStage, running
  <2>8. CASE transfer_receipt
    <3>1. /\ runner.pc = "transfer_wait" /\ runner'.pc \in {"mark"} /\ file' = file
          /\ runner'.st.done = runner.st.done /\ runner'.st.mode = runner.st.mode /\ runner'.st \in SetupState
          /\ runner'.confirmed = runner.confirmed
      BY <2>8, <1>h DEF transfer_receipt, at, goto, runner, running, disk
    <3> QED
      BY <3>1 DEF RunnerSteps, GoesOn, InStage, running
  <2>9. CASE step_deploy
    <3>1. /\ runner.pc = "Deploy" /\ runner'.pc \in {"mark", "deploy_wait"} /\ file' = file
          /\ runner'.st.done = runner.st.done /\ runner'.st.mode = runner.st.mode /\ runner'.st \in SetupState
          /\ runner'.confirmed = runner.confirmed
      <4>1. CASE deployed
        <5>1. th' = [th EXCEPT !["wizard"].pc = "mark"] /\ file' = file /\ runner.pc = "Deploy"
          BY <2>9, <4>1 DEF step_deploy, at, goto, runner, disk
        <5> QED
          BY <5>1, <1>h DEF runner, running
      <4>2. CASE ~deployed
        <5>1. /\ th' = [th EXCEPT !["wizard"].pc = "deploy_wait", !["wizard"].at = nonce["new"]]
              /\ file' = file /\ runner.pc = "Deploy"
          BY <2>9, <4>2 DEF step_deploy, at, submit, runner, disk
        <5> QED
          BY <5>1, <1>h DEF runner, running
      <4> QED
        BY <4>1, <4>2
    <3> QED
      BY <3>1 DEF RunnerSteps, GoesOn, InStage, running
  <2>10. CASE deploy_receipt
    <3>1. /\ runner.pc = "deploy_wait" /\ runner'.pc \in {"mark"} /\ file' = file
          /\ runner'.st.done = runner.st.done /\ runner'.st.mode = runner.st.mode /\ runner'.st \in SetupState
          /\ runner'.confirmed = runner.confirmed
      BY <2>10, <1>h DEF deploy_receipt, at, goto, runner, running, disk
    <3> QED
      BY <3>1 DEF RunnerSteps, GoesOn, InStage, running
  <2>11. CASE save_new_keys
    <3>1. /\ runner.pc = "Init" /\ runner'.pc \in {"init_config"} /\ file' = file
          /\ runner'.st.done = runner.st.done /\ runner'.st.mode = runner.st.mode /\ runner'.st \in SetupState
          /\ runner'.confirmed = runner.confirmed
      BY <2>11, <1>h DEF save_new_keys, at, goto, runner, running
    <3> QED
      BY <3>1 DEF RunnerSteps, GoesOn, InStage, running
  <2>12. CASE save_new_config
    <3>1. /\ runner.pc = "init_config" /\ runner'.pc \in {"stamp"} /\ file' = file
          /\ runner'.st.done = runner.st.done /\ runner'.st.mode = runner.st.mode /\ runner'.st \in SetupState
          /\ runner'.confirmed = runner.confirmed
      BY <2>12, <1>h DEF save_new_config, at, goto, runner, running
    <3> QED
      BY <3>1 DEF RunnerSteps, GoesOn, InStage, running
  <2>13. CASE already_initialized
    <3>1. /\ runner.pc = "Init" /\ runner'.pc \in {"stamp"} /\ file' = file
          /\ runner'.st.done = runner.st.done /\ runner'.st.mode = runner.st.mode /\ runner'.st \in SetupState
          /\ runner'.confirmed = runner.confirmed
      BY <2>13, <1>h DEF already_initialized, at, goto, runner, running, disk
    <3> QED
      BY <3>1 DEF RunnerSteps, GoesOn, InStage, running
  <2>14. CASE step_init
    <3>1. /\ runner.pc = "stamp" /\ runner'.pc \in {"mark"} /\ file' = file
          /\ runner'.st.done = runner.st.done /\ runner'.st.mode = runner.st.mode /\ runner'.st \in SetupState
          /\ runner'.confirmed = runner.confirmed
      BY <2>14, <1>h DEF step_init, at, goto, runner, running
    <3> QED
      BY <3>1 DEF RunnerSteps, GoesOn, InStage, running
  <2> QED
    BY <1>1, <1>u, <2>1, <2>2, <2>3, <2>4, <2>5, <2>6, <2>7, <2>8, <2>9, <2>10, <2>11, <2>12, <2>13, <2>14 DEF Wizard, disk, ui, chain, counts
<1>2. ASSUME NEW t \in Threads, Register(t)
      PROVE  RunnerSteps
  <2>1. CASE register(t)
    <3>1. CASE t = "wizard"
      <4>1. /\ runner.pc = "Register" /\ runner'.pc \in {"seed"} /\ file' = file
            /\ runner'.st = runner.st /\ runner.st \in SetupState /\ runner'.confirmed = runner.confirmed
        BY <2>1, <1>h, <3>1 DEF register, at, goto, runner, running, disk
      <4> QED
        BY <4>1 DEF RunnerSteps, GoesOn, InStage, running, Holding, Copying, Complete
    <3>2. CASE t = "cli"
      BY <2>1, <1>h, <3>2, <1>u DEF register, at, goto, runner, disk
    <3> QED
      BY <3>1, <3>2 DEF Threads
  <2>2. CASE ensure_kem_seed(t)
    <3>1. CASE t = "wizard"
      <4>1. /\ runner.pc = "seed" /\ runner'.pc \in {"secret"} /\ file' = file
            /\ runner'.st = runner.st /\ runner.st \in SetupState /\ runner'.confirmed = runner.confirmed
        <5>1. \E k : th' = [th EXCEPT !["wizard"].pc = "secret", !["wizard"].keys = k]
          BY <2>2, <3>1 DEF ensure_kem_seed
        <5> QED
          BY <2>2, <5>1, <1>h, <3>1 DEF ensure_kem_seed, at, runner, running
      <4> QED
        BY <4>1 DEF RunnerSteps, GoesOn, InStage, running, Holding, Copying, Complete
    <3>2. CASE t = "cli"
      BY <2>2, <1>h, <3>2, <1>u DEF ensure_kem_seed, at, runner
    <3> QED
      BY <3>1, <3>2 DEF Threads
  <2>3. CASE ensure_register_keys(t)
    <3>1. CASE t = "wizard"
      <4>1. /\ runner.pc = "secret" /\ runner'.pc \in {"get_user"} /\ file' = file
            /\ runner'.st = runner.st /\ runner.st \in SetupState /\ runner'.confirmed = runner.confirmed
        <5>1. \/ th' = [th EXCEPT !["wizard"].pc = "get_user"]
              \/ \E k : th' = [th EXCEPT !["wizard"].pc = "get_user", !["wizard"].keys = k]
          BY <2>3, <3>1 DEF ensure_register_keys, goto
        <5>2. runner.pc = "secret" /\ file' = file
          BY <2>3, <3>1 DEF ensure_register_keys, at, runner
        <5>3. CASE th' = [th EXCEPT !["wizard"].pc = "get_user"]
          BY <5>2, <5>3, <1>h DEF runner, running
        <5>4. CASE \E k : th' = [th EXCEPT !["wizard"].pc = "get_user", !["wizard"].keys = k]
          BY <5>2, <5>4, <1>h DEF runner, running
        <5> QED
          BY <5>1, <5>3, <5>4
      <4> QED
        BY <4>1 DEF RunnerSteps, GoesOn, InStage, running, Holding, Copying, Complete
    <3>2. CASE t = "cli"
      BY <2>3, <1>h, <3>2, <1>u DEF ensure_register_keys, at, goto, runner
    <3> QED
      BY <3>1, <3>2 DEF Threads
  <2>4. CASE get_user(t)
    <3>1. CASE t = "wizard"
      <4>1. /\ runner.pc = "get_user" /\ runner'.pc \in {"record", "reg_submit"} /\ file' = file
            /\ runner'.st = runner.st /\ runner.st \in SetupState /\ runner'.confirmed = runner.confirmed
        BY <2>4, <1>h, <3>1 DEF get_user, at, goto, runner, running, disk
      <4> QED
        BY <4>1 DEF RunnerSteps, GoesOn, InStage, running, Holding, Copying, Complete
    <3>2. CASE t = "cli"
      BY <2>4, <1>h, <3>2, <1>u DEF get_user, at, goto, runner, disk
    <3> QED
      BY <3>1, <3>2 DEF Threads
  <2>5. CASE submit_register(t)
    <3>1. CASE t = "wizard"
      <4>1. /\ runner.pc = "reg_submit" /\ runner'.pc \in {"reg_wait"} /\ file' = file
            /\ runner'.st = runner.st /\ runner.st \in SetupState /\ runner'.confirmed = runner.confirmed
        BY <2>5, <1>h, <3>1 DEF submit_register, at, submit, runner, running, disk
      <4> QED
        BY <4>1 DEF RunnerSteps, GoesOn, InStage, running, Holding, Copying, Complete
    <3>2. CASE t = "cli"
      BY <2>5, <1>h, <3>2, <1>u DEF submit_register, at, submit, runner, disk
    <3> QED
      BY <3>1, <3>2 DEF Threads
  <2>6. CASE register_receipt(t)
    <3>1. CASE t = "wizard"
      <4>1. /\ runner.pc = "reg_wait" /\ runner'.pc \in {"record"} /\ file' = file
            /\ runner'.st = runner.st /\ runner.st \in SetupState /\ runner'.confirmed = runner.confirmed
        BY <2>6, <1>h, <3>1 DEF register_receipt, at, goto, runner, running, disk
      <4> QED
        BY <4>1 DEF RunnerSteps, GoesOn, InStage, running, Holding, Copying, Complete
    <3>2. CASE t = "cli"
      BY <2>6, <1>h, <3>2, <1>u DEF register_receipt, at, goto, runner, disk
    <3> QED
      BY <3>1, <3>2 DEF Threads
  <2>7. CASE record_registration(t)
    <3>1. CASE t = "wizard"
      <4>1. /\ runner.pc = "record" /\ runner'.pc \in {"mark"} /\ file' = file
            /\ runner'.st = runner.st /\ runner.st \in SetupState /\ runner'.confirmed = runner.confirmed
        BY <2>7, <1>h, <3>1 DEF record_registration, at, runner, running
      <4> QED
        BY <4>1 DEF RunnerSteps, GoesOn, InStage, running, Holding, Copying, Complete
    <3>2. CASE t = "cli"
      BY <2>7, <1>h, <3>2, <1>u DEF record_registration, at, runner
    <3> QED
      BY <3>1, <3>2 DEF Threads
  <2>8. CASE run_refused(t)
    <3>1. CASE t = "wizard"
      BY <2>8, <1>h, <3>1 DEF run_refused, ends, Idle, RunnerSteps, runner
    <3>2. CASE t = "cli"
      BY <2>8, <1>h, <3>2, <1>u DEF run_refused, ends, runner, disk
    <3> QED
      BY <3>1, <3>2 DEF Threads
  <2> QED
    BY <1>2, <1>u, <2>1, <2>2, <2>3, <2>4, <2>5, <2>6, <2>7, <2>8 DEF Register, disk, ui, chain, counts
<1>3. CASE Cli /\ ~Register("cli")
  <2>1. ASSUME NEW pc \in {"Register", "migrate"}, NEW h \in Handles \cup {NoOne}, start_cli(pc, h)
        PROVE  RunnerSteps
    BY <2>1, <1>h, <1>u DEF start_cli, runner, disk
  <2>2. CASE migrate_keys
    BY <2>2, <1>h, <1>u DEF migrate_keys, goto, runner
  <2>3. CASE migrate_config
    BY <2>3, <1>h, <1>u DEF migrate_config, goto, runner
  <2>4. CASE migrate_leftovers
    BY <2>4, <1>h, <1>u DEF migrate_leftovers, goto, runner
  <2> QED
    BY <1>3, <2>1, <2>2, <2>3, <2>4 DEF Cli
<1>4. CASE Window
  <2>1. CASE confirm
    BY <2>1, <1>h, Spawned DEF confirm, RunnerSteps, Begins, runner
  <2>2. CASE request_resume
    BY <2>2, <1>h, <1>u, Spawned DEF request_resume, RunnerSteps, Begins, runner, disk
  <2> QED
    BY <1>4, <1>u, <2>1, <2>2 DEF Window, new_profile, resume, dismiss, close, create, poll, runner, disk, ui, chain, counts
<1>5. CASE Faults
  <2>1. ASSUME NEW t \in Threads, run_fails(t)
        PROVE  RunnerSteps
    <3>1. CASE t = "wizard"
      BY <2>1, <1>h, <3>1 DEF run_fails, ends, Idle, RunnerSteps, runner
    <3>2. CASE t = "cli"
      BY <2>1, <1>h, <3>2, <1>u DEF run_fails, ends, runner, disk
    <3> QED
      BY <3>1, <3>2 DEF Threads
  <2>2. CASE save_fails
    BY <2>2, <1>h DEF save_fails, at, troubled, emit, Done, Idle, RunnerSteps, GoesOn, runner, running, InStage
  <2>3. CASE step_fund(FALSE)
    <3>1. /\ runner.pc = "Fund" /\ runner'.pc \in {"transfer"} /\ file' = file /\ runner.st.mode = "Transfer"
          /\ runner'.st.done = runner.st.done /\ runner'.st.mode = runner.st.mode /\ runner'.st \in SetupState
          /\ runner'.confirmed = runner.confirmed
      BY <2>3, <1>h DEF step_fund, at, runner, running, disk
    <3>2. Enters
      BY <2>3 DEF Enters
    <3> QED
      BY <3>1, <3>2 DEF RunnerSteps, GoesOn, InStage, running
  <2>4. ASSUME NEW torn \in BOOLEAN, kill(torn)
        PROVE  RunnerSteps
    BY <2>4, <1>h DEF kill, troubled, at, Closed, Idle, RunnerSteps, GoesOn, runner, running, InStage
  <2> QED
    BY <1>5, <1>u, <2>1, <2>2, <2>3, <2>4 DEF Faults, evict, runner, disk, ui, chain, counts
<1>6. CASE Chain \/ finish_sends
  <2> QED
    BY <1>6, <1>u DEF Chain, execute, deposit, other_registers, finish_sends, runner, disk, ui, chain, counts
<1> QED
  BY <1>1, <1>2, <1>3, <1>4, <1>5, <1>6 DEF Next, Cli, Wizard, Threads

(* So the runner stays where its checkpoint says.                           *)
LEMMA PlacedStays ==
  ASSUME Typed, Placed, Shown, Kept, Next
  PROVE  Placed'
<1>1. FileSteps /\ RunnerSteps /\ lost \in BOOLEAN
  BY FileStepsHold, RunnerStepsHold DEF Typed
<1>2. file' = Torn => lost'
  BY <1>1, Nothing DEF FileSteps, Placed
<1>3. CASE UNCHANGED <<runner, file>> \/ runner'.pc = "idle"
  BY <1>2, <1>3 DEF Placed, running
<1>4. CASE GoesOn
  <2>1. runner'.pc # "step" /\ (runner'.pc = "mark" => runner.st.done < 5)
    <3>1. \A i : ~InStage(i, "step") /\ ~InStage(i, "mark") /\ ~InStage(i, "idle")
      BY DEF InStage, Holding, Copying, Complete
    <3>2. runner.pc # "step" /\ runner.pc # "mark" => runner.st.done + 1 \in 1..5
      BY <1>4 DEF GoesOn, Placed, InStage
    <3> QED
      BY <1>4, <3>1, <3>2 DEF GoesOn, Placed, SetupState
  <2>2. runner'.pc = "mark" \/ InStage(runner'.st.done + 1, runner'.pc)
    BY <1>4 DEF GoesOn, Placed, InStage, Holding, Copying, Complete
  <2>3. runner'.pc \in {"transfer", "transfer_wait"} => runner'.st.mode = "Transfer"
    BY <1>4 DEF GoesOn, Placed
  <2> QED
    BY <1>2, <1>4, <2>1, <2>2, <2>3, Plan DEF GoesOn, Placed
<1>5. CASE Marks
  BY <1>2, <1>5, Plan DEF Marks, Placed
<1>6. CASE Begins
  BY <1>2, <1>6, Plan DEF Begins, Placed
<1> QED
  BY <1>1, <1>3, <1>4, <1>5, <1>6 DEF RunnerSteps

(* What is saved as done stays so, or the checkpoint is lost.               *)
LEMMA SavedStays ==
  ASSUME FileSteps, Saved(2), lost \in BOOLEAN, Placed
  PROVE  Saved(2)'
BY Nothing DEF FileSteps, Saved, SetupState, Placed

(* A step that leaves the window alone keeps what it shows true.            *)
LEMMA ShownKept ==
  ASSUME Typed, Placed, Shown, FileSteps, UNCHANGED wiz, Claims(events') => Claims(events) \/ Saved(2)'
  PROVE  Shown'
<1>1. /\ Saved(2) => Saved(2)'
      /\ wiz.flow # NoFlow => file' # NoFile
  BY SavedStays, Nothing DEF Typed, FileSteps, Shown
<1>2. wiz.open /\ file' \in SetupState => wiz.mode = file'.mode
  BY Nothing DEF FileSteps, Shown, new_plan
<1> QED
  BY <1>1, <1>2 DEF Shown

(* A run just started shows what is saved.                                  *)
LEMMA ShownAtStart ==
  ASSUME Typed, Placed, Shown, FileSteps, wiz.open, NEW c \in BOOLEAN, spawn(c)
  PROVE  Shown'
<1>1. /\ wiz \in WizardState /\ th \in [Threads -> Run] /\ file \in SetupState \cup {NoFile, Torn}
      /\ wiz.mode \in Funding
  BY DEF Typed, WindowTyped, DiskTyped, Shown
<1>2. /\ wiz'.mode = wiz.mode /\ wiz'.open /\ ~wiz'.confirm /\ wiz'.flow = from_state(file')
      /\ events' = <<>> /\ file' \in SetupState /\ wiz' \in WizardState
      /\ file' = IF file \in SetupState THEN file ELSE new_plan(wiz.mode)
  BY <1>1, Opened, Spawned
<1>3. wiz'.mode = file'.mode
  BY <1>2 DEF Shown, new_plan
<1>4. from_state(file') \in Flow /\ (from_state(file').steps[2] = "Done" => Saved(2)')
  BY <1>2, FromState DEF Saved
<1>5. ~Claims(events')
  BY <1>2 DEF Claims
<1> QED
  BY <1>1, <1>2, <1>3, <1>4, <1>5, Nothing DEF Shown

(* The window never runs ahead of the checkpoint.                           *)
LEMMA ShownStays ==
  ASSUME Typed, Placed, Shown, Kept, Next
  PROVE  Shown'
<1>h. /\ Typed /\ Placed /\ Shown /\ FileSteps
      /\ events \in Seq(Event)
  BY FileStepsHold DEF Typed, WindowTyped
<1>u. ASSUME UNCHANGED <<ui>>
      PROVE  Shown'
  BY <1>u, <1>h, ShownKept DEF ui
<1>1. CASE Wizard /\ ~Register("wizard")
  <2>1. CASE run_step
    <3>1. UNCHANGED wiz
      BY <2>1 DEF run_step
    <3>2. CASE runner.st.done = Len(STEPS)
      <4>1. emit(Completed \o Done(TRUE))
        BY <2>1, <3>2 DEF run_step, runner
      <4> QED
        BY <3>1, <4>1, <1>h, Reports, Emitted, ShownKept
    <3>3. CASE runner.st.done # Len(STEPS)
      <4>1. next_pending(runner.st) \in 1..5
        BY <2>1, <3>3, <1>h, Plan DEF run_step, at, Placed, runner, running, next_pending, SetupState
      <4>2. emit(StepStarted(next_pending(runner.st)))
        BY <2>1, <3>3 DEF run_step, runner
      <4> QED
        BY <3>1, <4>1, <4>2, <1>h, Reports, Emitted, ShownKept
    <3> QED
      BY <3>2, <3>3
  <2>2. CASE mark_done
    <3>1. /\ next_pending(runner.st) \in 1..5 /\ next_pending(runner.st) = runner.st.done + 1
          /\ runner.st \in SetupState
      BY <2>2, <1>h, Plan DEF mark_done, at, Placed, runner, running, next_pending, SetupState
    <3>2. /\ emit(StepCompleted(next_pending(runner.st))) /\ UNCHANGED wiz
          /\ file' = [runner.st EXCEPT !.done = next_pending(runner.st)]
      BY <2>2 DEF mark_done, runner
    <3>3. next_pending(runner.st) = 2 => Saved(2)'
      BY <3>1, <3>2, Plan DEF Saved, SetupState
    <3> QED
      BY <3>1, <3>2, <3>3, <1>h, Reports, Emitted, ShownKept
  <2>3. CASE park
    <3>1. UNCHANGED wiz /\ (emit(AwaitingDeposit \o Done(TRUE)))
      BY <2>3 DEF park
    <3> QED
      BY <2>3, <3>1, <1>h, Reports, Emitted, ShownKept
  <2>4. CASE transfer
    <3>1. UNCHANGED wiz /\ (emit(TxSubmitted(2)))
      BY <2>4 DEF transfer
    <3> QED
      BY <2>4, <3>1, <1>h, Reports, Emitted, ShownKept
  <2>5. CASE step_deploy
    <3>1. UNCHANGED wiz /\ (UNCHANGED events \/ emit(TxSubmitted(3)))
      BY <2>5 DEF step_deploy
    <3> QED
      BY <2>5, <3>1, <1>h, Reports, Emitted, ShownKept
  <2> QED
    BY <1>1, <1>u, <2>1, <2>2, <2>3, <2>4, <2>5 DEF Wizard, step_create, already_funded, step_fund, transfer_receipt, deploy_receipt, save_new_keys, save_new_config, already_initialized, step_init, disk, ui, chain, counts
<1>2. ASSUME NEW t \in Threads, Register(t)
      PROVE  Shown'
  <2>1. CASE run_refused(t)
    <3>1. UNCHANGED wiz /\ (UNCHANGED events \/ emit(Done(FALSE)))
      BY <2>1 DEF run_refused, ends
    <3> QED
      BY <2>1, <3>1, <1>h, Reports, Emitted, ShownKept
  <2> QED
    BY <1>2, <1>u, <2>1 DEF Register, register, ensure_kem_seed, ensure_register_keys, get_user, submit_register, register_receipt, record_registration, submit, disk, ui, chain, counts
<1>3. CASE Cli /\ ~Register("cli")
  <2> QED
    BY <1>3, <1>u DEF Cli, start_cli, migrate_keys, migrate_config, migrate_leftovers, disk, ui, chain, counts
<1>4. CASE Window
  <2>1. ASSUME NEW mode \in Modes, new_profile(mode)
        PROVE  Shown'
    <3>1. /\ wiz' = [Closed EXCEPT !.open = TRUE, !.confirm = TRUE, !.mode = mode] /\ UNCHANGED <<file, events, lost>>
          /\ file = NoFile /\ mode \in Funding
      BY <2>1, SetupAssumption DEF new_profile, dir_exists, disk, counts, Funding
    <3> QED
      BY <3>1, <1>h, Nothing DEF Closed, Shown, Saved
  <2>2. CASE resume
    <3>1. /\ wiz'.open /\ ~wiz'.rx /\ wiz'.flow = from_state(file) /\ wiz'.mode = file.mode
          /\ file \in SetupState /\ UNCHANGED <<file, events, lost>>
      BY <2>2, <1>h DEF resume, Closed, Typed, DiskTyped, disk, counts
    <3>2. file.mode \in Funding
      BY <3>1 DEF SetupState, Funding
    <3> QED
      BY <3>1, <3>2, <1>h, FromState, Nothing DEF Shown, Saved
  <2>3. CASE dismiss
    BY <2>3, <1>h DEF dismiss, Typed, WindowTyped, WizardState, Shown, Saved, disk, counts
  <2>4. CASE close
    <3>1. wiz' = Closed /\ events' = <<>>
      BY <2>4 DEF close
    <3> QED
      BY <3>1 DEF Closed, Shown, Claims
  <2>5. CASE confirm
    BY <2>5, <1>h, ShownAtStart DEF confirm, Shown
  <2>6. CASE request_resume
    <3>1. CASE needs_confirm
      BY <2>6, <3>1, <1>h DEF request_resume, Typed, WindowTyped, WizardState, Shown, Saved, disk, counts
    <3>2. CASE ~needs_confirm
      BY <2>6, <3>2, <1>h, ShownAtStart DEF request_resume, Shown
    <3> QED
      BY <3>1, <3>2
  <2>7. CASE create
    BY <2>7, <1>h DEF create, Typed, WindowTyped, WizardState, Shown, Saved, disk, counts
  <2>8. CASE poll
    <3>1. /\ Head(events) \in Event /\ Tail(events) \in Seq(Event)
          /\ UNCHANGED <<file, lost>> /\ wiz \in WizardState /\ wiz.rx /\ wiz.flow \in Flow
      BY <2>8, <1>h DEF poll, Typed, WindowTyped, WizardState, Shown, disk, counts
    <3>2. CASE Head(events).kind = "Completed"
      <4>1. wiz' = Closed /\ events' = <<>>
        BY <2>8, <3>2 DEF poll
      <4> QED
        BY <4>1 DEF Closed, Shown, Claims
    <3>3. CASE Head(events).kind # "Completed"
      <4>1. /\ wiz' = [wiz EXCEPT !.flow = apply(wiz.flow, Head(events)), !.rx = ~ended(Head(events))]
            /\ events' = Tail(events) /\ events # <<>>
        BY <2>8, <3>3 DEF poll
      <4>2. /\ Claims(events') => Claims(events)
            /\ Head(events).kind = "StepCompleted" /\ Head(events).step = 2 => Claims(events)
        <5>1. \A i \in 1..Len(Tail(events)) : i + 1 \in 1..Len(events) /\ Tail(events)[i] = events[i + 1]
          BY <4>1, <1>h DEF Typed, WindowTyped
        <5>2. 1 \in 1..Len(events) /\ Head(events) = events[1]
          BY <4>1, <1>h DEF Typed, WindowTyped
        <5> QED
          BY <4>1, <5>1, <5>2 DEF Claims
      <4>3. apply(wiz.flow, Head(events)).steps[2] = "Done" => Saved(2)
        BY <3>1, <4>2, <1>h, Applied DEF Shown
      <4>4. /\ wiz'.open = wiz.open /\ wiz'.mode = wiz.mode /\ wiz'.confirm = wiz.confirm
            /\ wiz'.flow = apply(wiz.flow, Head(events)) /\ wiz'.flow \in Flow
        BY <3>1, <4>1, Applied DEF WizardState
      <4> QED
        BY <3>1, <4>2, <4>3, <4>4, <1>h, Nothing DEF Shown, Saved
    <3> QED
      BY <3>2, <3>3
  <2> QED
    BY <1>4, <1>u, <2>1, <2>2, <2>3, <2>4, <2>5, <2>6, <2>7, <2>8 DEF Window, disk, ui, chain, counts
<1>5. CASE Faults
  <2>1. ASSUME NEW t \in Threads, run_fails(t)
        PROVE  Shown'
    <3>1. UNCHANGED wiz /\ (UNCHANGED events \/ emit(Done(FALSE)))
      BY <2>1 DEF run_fails, ends
    <3> QED
      BY <2>1, <3>1, <1>h, Reports, Emitted, ShownKept
  <2>2. CASE save_fails
    <3>1. UNCHANGED wiz /\ (emit(Done(FALSE)))
      BY <2>2 DEF save_fails
    <3> QED
      BY <2>2, <3>1, <1>h, Reports, Emitted, ShownKept
  <2>3. ASSUME NEW torn \in BOOLEAN, kill(torn)
        PROVE  Shown'
    <3>1. wiz' = Closed /\ events' = <<>>
      BY <2>3 DEF kill
    <3> QED
      BY <3>1 DEF Closed, Shown, Claims
  <2> QED
    BY <1>5, <1>u, <2>1, <2>2, <2>3 DEF Faults, step_fund, evict, disk, ui, chain, counts
<1>6. CASE Chain \/ finish_sends
  <2> QED
    BY <1>6, <1>u DEF Chain, execute, deposit, other_registers, finish_sends, disk, ui, chain, counts
<1> QED
  BY <1>1, <1>2, <1>3, <1>4, <1>5, <1>6 DEF Next, Cli, Wizard, Threads

-----------------------------------------------------------------------------
(* The chain *)

(* A transaction accepted by the node is one it has room for.               *)
LEMMA Submitted ==
  ASSUME ChainTyped, NEW t \in Threads, NEW a \in AccountsOf, NEW tx \in Tx, NEW pc, submit(t, a, tx, pc)
  PROVE  ChainTyped'
<1>1. /\ mempool[a] = NoTx /\ nonce[a] < MaxNonce /\ mempool' = [mempool EXCEPT ![a] = tx]
      /\ UNCHANGED <<nonce, outcome, balance, deployed, users, account_id>>
  BY DEF submit, can_submit
<1> QED
  BY <1>1 DEF ChainTyped

(* What the chain does with a transaction it executes.                       *)
LEMMA Executed ==
  ASSUME ChainTyped, NEW a \in AccountsOf, NEW ok \in BOOLEAN, execute(a, ok)
  PROVE  /\ mempool[a] \in Tx /\ nonce[a] \in 0..MaxNonce /\ nonce[a] < MaxNonce
         /\ nonce' = [nonce EXCEPT ![a] = nonce[a] + 1]
         /\ mempool' = [mempool EXCEPT ![a] = NoTx]
         /\ \E o \in {"SUCCEEDED", "REVERTED"} :
              /\ outcome' = [outcome EXCEPT ![a] = Append(outcome[a], o)]
              /\ mempool[a].kind = "transfer" =>
                   balance' = (IF o = "SUCCEEDED" THEN balance + 2 ELSE balance)
         /\ mempool[a].kind = "deploy" => balance' = balance - 1
         /\ mempool[a].kind = "register" => balance' = balance
         /\ deployed' = (deployed \/ mempool[a].kind = "deploy")
         /\ \/ UNCHANGED <<users, account_id>>
            \/ /\ mempool[a].kind = "register" /\ account_id = NoOne /\ users[mempool[a].handle] = NoOne
               /\ users' = [users EXCEPT ![mempool[a].handle] = mempool[a].id]
               /\ account_id' = mempool[a].id
<1> DEFINE tx == mempool[a]
           taken == account_id # NoOne \/ (tx.kind = "register" /\ users[tx.handle] # NoOne)
           good == IF tx.kind = "register" THEN ~taken ELSE ok
           o == IF good THEN "SUCCEEDED" ELSE "REVERTED"
<1>1. /\ tx # NoTx
      /\ nonce' = [nonce EXCEPT ![a] = @ + 1] /\ mempool' = [mempool EXCEPT ![a] = NoTx]
      /\ outcome' = [outcome EXCEPT ![a] = Append(@, o)]
      /\ balance' = IF good /\ tx.kind = "transfer" THEN balance + 2
                    ELSE IF tx.kind = "deploy" THEN balance - 1 ELSE balance
      /\ deployed' = (deployed \/ tx.kind = "deploy")
      /\ users' = IF good /\ tx.kind = "register" THEN [users EXCEPT ![tx.handle] = tx.id] ELSE users
      /\ account_id' = IF good /\ tx.kind = "register" THEN tx.id ELSE account_id
  BY DEF execute
<1>2. tx \in Tx /\ nonce[a] \in 0..MaxNonce /\ nonce[a] < MaxNonce
  BY <1>1 DEF ChainTyped
<1>3. o \in {"SUCCEEDED", "REVERTED"} /\ (o = "SUCCEEDED" <=> good)
  OBVIOUS
<1> HIDE DEF good, o
<1>4. /\ outcome' = [outcome EXCEPT ![a] = Append(outcome[a], o)]
      /\ tx.kind = "transfer" => balance' = (IF o = "SUCCEEDED" THEN balance + 2 ELSE balance)
  BY <1>1, <1>3
<1>5. \/ UNCHANGED <<users, account_id>>
      \/ /\ tx.kind = "register" /\ ~taken
         /\ users' = [users EXCEPT ![tx.handle] = tx.id] /\ account_id' = tx.id
  BY <1>1 DEF good
<1> QED
  BY <1>1, <1>2, <1>3, <1>4, <1>5

(* The chain keeps its type.                                                *)
LEMMA ChainTypedStays ==
  ASSUME Typed, Funded, Kept, Next
  PROVE  ChainTyped'
<1>h. /\ ChainTyped /\ th \in [Threads -> Run]
      /\ \A t \in Threads : th[t].pc \in Copying => th[t].keys \in Keys
      /\ \A a \in AccountsOf : mempool[a] # NoTx /\ mempool[a].kind = "deploy" => 1 <= balance
  BY DEF Typed, Kept, Run, Funded, Payable, AccountsOf, transfer_tx
<1>u. ASSUME UNCHANGED <<chain>>
      PROVE  ChainTyped'
  BY <1>u, <1>h DEF ChainTyped, chain
<1>1. CASE Wizard /\ ~Register("wizard")
  <2>1. CASE transfer
    <3>1. transfer_tx \in Tx
      BY DEF transfer_tx, Tx
    <3> QED
      BY <2>1, <3>1, <1>h, Submitted DEF transfer, Threads, AccountsOf
  <2>2. CASE step_deploy
    <3>1. deploy_tx \in Tx
      BY DEF deploy_tx, Tx
    <3>2. CASE deployed
      BY <2>2, <3>2, <1>h, <1>u DEF step_deploy
    <3>3. CASE ~deployed
      BY <2>2, <3>1, <3>3, <1>h, Submitted DEF step_deploy, Threads, AccountsOf
    <3> QED
      BY <3>2, <3>3
  <2> QED
    BY <1>1, <1>u, <2>1, <2>2 DEF Wizard, run_step, mark_done, step_create, park, already_funded, step_fund, transfer_receipt, deploy_receipt, save_new_keys, save_new_config, already_initialized, step_init, disk, ui, chain, counts
<1>2. ASSUME NEW t \in Threads, Register(t)
      PROVE  ChainTyped'
  <2>1. CASE submit_register(t)
    <3>1. th[t].keys.id \in Ident
      BY <2>1, <1>h DEF submit_register, at, Copying, Complete, Keys
    <3>2. register_tx(t) \in Tx
      BY <3>1, <1>h DEF register_tx, Tx, Run
    <3> QED
      BY <2>1, <3>2, <1>h, Submitted DEF submit_register, AccountsOf
  <2> QED
    BY <1>2, <1>u, <2>1 DEF Register, register, ensure_kem_seed, ensure_register_keys, get_user, register_receipt, record_registration, run_refused, ends, disk, ui, chain, counts
<1>3. CASE Cli /\ ~Register("cli")
  <2> QED
    BY <1>3, <1>u DEF Cli, start_cli, migrate_keys, migrate_config, migrate_leftovers, disk, ui, chain, counts
<1>4. CASE Window
  <2> QED
    BY <1>4, <1>u DEF Window, new_profile, resume, dismiss, close, confirm, request_resume, create, poll, spawn, disk, ui, chain, counts
<1>5. CASE Faults
  <2>1. ASSUME NEW a \in AccountsOf, evict(a)
        PROVE  ChainTyped'
    <3>1. mempool' = [mempool EXCEPT ![a] = NoTx] /\ UNCHANGED <<nonce, outcome, balance, deployed, users, account_id>>
      BY <2>1 DEF evict
    <3> QED
      BY <3>1, <1>h DEF ChainTyped
  <2> QED
    BY <1>5, <1>u, <2>1 DEF Faults, run_fails, save_fails, step_fund, kill, ends, disk, ui, chain, counts
<1>6. CASE Chain \/ finish_sends
  <2>1. ASSUME NEW a \in AccountsOf, NEW ok \in BOOLEAN, execute(a, ok)
        PROVE  ChainTyped'
    <3> DEFINE tx == mempool[a]
    <3>1. tx \in Tx /\ nonce[a] \in 0..MaxNonce /\ nonce[a] < MaxNonce
      BY <2>1, <1>h, Executed
    <3>2. /\ nonce' = [nonce EXCEPT ![a] = nonce[a] + 1] /\ mempool' = [mempool EXCEPT ![a] = NoTx]
      BY <2>1, <1>h, Executed
    <3>3. PICK o \in {"SUCCEEDED", "REVERTED"} :
            /\ outcome' = [outcome EXCEPT ![a] = Append(outcome[a], o)]
            /\ tx.kind = "transfer" => balance' = (IF o = "SUCCEEDED" THEN balance + 2 ELSE balance)
      BY <2>1, <1>h, Executed
    <3>4. /\ tx.kind = "deploy" => balance' = balance - 1
          /\ tx.kind = "register" => balance' = balance
          /\ deployed' = (deployed \/ tx.kind = "deploy")
          /\ \/ UNCHANGED <<users, account_id>>
             \/ /\ tx.kind = "register" /\ account_id' = tx.id
                /\ users' = [users EXCEPT ![tx.handle] = tx.id]
      BY <2>1, <1>h, Executed
    <3>5. nonce[a] + 1 \in 0..MaxNonce
      BY <3>1, SetupAssumption
    <3>6. nonce' \in [AccountsOf -> 0..MaxNonce]
      BY <3>2, <3>5, <1>h DEF ChainTyped
    <3>7. mempool' \in [AccountsOf -> Tx \cup {NoTx}]
      BY <3>2, <1>h DEF ChainTyped
    <3>8. \A b \in AccountsOf : mempool'[b] # NoTx => nonce'[b] < MaxNonce
      BY <3>2, <1>h DEF ChainTyped
    <3>9. outcome[a] \in Seq({"SUCCEEDED", "REVERTED"}) /\ Len(outcome[a]) = nonce[a]
      BY <1>h DEF ChainTyped
    <3>10. /\ Append(outcome[a], o) \in Seq({"SUCCEEDED", "REVERTED"})
           /\ Len(Append(outcome[a], o)) = nonce[a] + 1
      BY <3>9
    <3> HIDE DEF tx
    <3>11. outcome' \in [AccountsOf -> Seq({"SUCCEEDED", "REVERTED"})]
      BY <3>3, <3>10, <1>h DEF ChainTyped
    <3>12. \A b \in AccountsOf : Len(outcome'[b]) = nonce'[b]
      BY <3>2, <3>3, <3>10, <1>h DEF ChainTyped
    <3>13. balance' \in Nat /\ deployed' \in BOOLEAN
      <4>1. tx.kind \in {"transfer", "deploy", "register"} /\ balance \in Nat /\ (tx.kind = "deploy" => 1 <= balance)
        BY <3>1, <1>h, Nothing DEF ChainTyped, Tx, tx
      <4> QED
        BY <3>3, <3>4, <4>1, <1>h DEF ChainTyped
    <3>14. tx.kind = "register" => tx.id \in Ident \cup {NoOne}
      BY <3>1 DEF Tx
    <3>15. account_id' \in Ident \cup {NoOne} /\ users' \in [Handles -> Ident \cup {NoOne, Other}]
      BY <3>4, <3>14, <1>h DEF ChainTyped
    <3> QED
      BY <3>6, <3>7, <3>8, <3>11, <3>12, <3>13, <3>15 DEF ChainTyped
  <2>2. CASE deposit
    BY <2>2, <1>h DEF deposit, ChainTyped
  <2>3. ASSUME NEW h \in Contested, other_registers(h)
        PROVE  ChainTyped'
    BY <2>3, <1>h DEF other_registers, ChainTyped
  <2> QED
    BY <1>6, <1>u, <2>1, <2>2, <2>3 DEF Chain, finish_sends, disk, ui, chain, counts
<1> QED
  BY <1>1, <1>2, <1>3, <1>4, <1>5, <1>6 DEF Next, Cli, Wizard, Threads

(* So do the counters.                                                      *)
LEMMA CountsStay ==
  ASSUME Typed, Next
  PROVE  (trouble \in Nat /\ slips \in Nat /\ lost \in BOOLEAN)'
<1>h. trouble \in Nat /\ slips \in Nat /\ lost \in BOOLEAN
  BY DEF Typed
<1>u. ASSUME UNCHANGED <<counts>>
      PROVE  (trouble \in Nat /\ slips \in Nat /\ lost \in BOOLEAN)'
  BY <1>u, <1>h DEF counts
<1>1. CASE Wizard /\ ~Register("wizard")
  <2>1. CASE park
    BY <2>1, <1>h DEF park, troubled
  <2>2. CASE step_fund(TRUE)
    BY <2>2, <1>h DEF step_fund, troubled
  <2>3. CASE transfer
    BY <2>3, <1>h DEF transfer
  <2> QED
    BY <1>1, <1>u, <2>1, <2>2, <2>3 DEF Wizard, run_step, mark_done, step_create, already_funded, transfer_receipt, step_deploy, deploy_receipt, save_new_keys, save_new_config, already_initialized, step_init, submit, disk, ui, chain, counts
<1>2. ASSUME NEW t \in Threads, Register(t)
      PROVE  (trouble \in Nat /\ slips \in Nat /\ lost \in BOOLEAN)'
  <2>1. CASE run_refused(t)
    BY <2>1, <1>h DEF run_refused, ends
  <2> QED
    BY <1>2, <1>u, <2>1 DEF Register, register, ensure_kem_seed, ensure_register_keys, get_user, submit_register, register_receipt, record_registration, submit, disk, ui, chain, counts
<1>3. CASE Cli /\ ~Register("cli")
  <2>1. ASSUME NEW pc \in {"Register", "migrate"}, NEW h \in Handles \cup {NoOne}, start_cli(pc, h)
        PROVE  (trouble \in Nat /\ slips \in Nat /\ lost \in BOOLEAN)'
    BY <2>1, <1>h DEF start_cli, troubled
  <2> QED
    BY <1>3, <1>u, <2>1 DEF Cli, migrate_keys, migrate_config, migrate_leftovers, disk, ui, chain, counts
<1>4. CASE Window
  <2> QED
    BY <1>4, <1>u DEF Window, new_profile, resume, dismiss, close, confirm, request_resume, create, poll, spawn, disk, ui, chain, counts
<1>5. CASE Faults
  <2>1. ASSUME NEW t \in Threads, run_fails(t)
        PROVE  (trouble \in Nat /\ slips \in Nat /\ lost \in BOOLEAN)'
    BY <2>1, <1>h DEF run_fails, ends, troubled
  <2>2. CASE save_fails
    BY <2>2, <1>h DEF save_fails, troubled
  <2>3. CASE step_fund(FALSE)
    BY <2>3, <1>h DEF step_fund, troubled
  <2>4. ASSUME NEW torn \in BOOLEAN, kill(torn)
        PROVE  (trouble \in Nat /\ slips \in Nat /\ lost \in BOOLEAN)'
    BY <2>4, <1>h DEF kill, troubled
  <2>5. ASSUME NEW a \in AccountsOf, evict(a)
        PROVE  (trouble \in Nat /\ slips \in Nat /\ lost \in BOOLEAN)'
    BY <2>5, <1>h DEF evict, troubled
  <2> QED
    BY <1>5, <1>u, <2>1, <2>2, <2>3, <2>4, <2>5 DEF Faults, disk, ui, chain, counts
<1>6. CASE Chain \/ finish_sends
  <2>1. ASSUME NEW a \in AccountsOf, NEW ok \in BOOLEAN, execute(a, ok)
        PROVE  (trouble \in Nat /\ slips \in Nat /\ lost \in BOOLEAN)'
    BY <2>1, <1>h DEF execute, troubled
  <2> QED
    BY <1>6, <1>u, <2>1 DEF Chain, deposit, other_registers, finish_sends, disk, ui, chain, counts
<1> QED
  BY <1>1, <1>2, <1>3, <1>4, <1>5, <1>6 DEF Next, Cli, Wizard, Threads

(* Every variable keeps its type.                                           *)
LEMMA TypedStays ==
  ASSUME Inv, Next
  PROVE  Typed'
BY DiskStays, WindowTypedStays, ChainTypedStays, RunsStay, CountsStay DEF Inv, Typed

-----------------------------------------------------------------------------
(* The funds *)

(* A transaction executed adds at most itself to the transfers made.         *)
LEMMA Counted ==
  ASSUME NEW os \in Seq({"SUCCEEDED", "REVERTED"}), NEW o \in {"SUCCEEDED", "REVERTED"}, NEW n \in Nat, n = Len(os)
  PROVE  /\ Cardinality({i \in 1..n : os[i] = "SUCCEEDED"}) \in Nat
         /\ Cardinality({i \in 1..(n + 1) : Append(os, o)[i] = "SUCCEEDED"}) =
              Cardinality({i \in 1..n : os[i] = "SUCCEEDED"}) + (IF o = "SUCCEEDED" THEN 1 ELSE 0)
<1> DEFINE S == {i \in 1..n : os[i] = "SUCCEEDED"}
           T == {i \in 1..(n + 1) : Append(os, o)[i] = "SUCCEEDED"}
<1>1. IsFiniteSet(S) /\ Cardinality(S) \in Nat
  <2>1. IsFiniteSet(1..n) /\ S \subseteq 1..n
    BY FS_Interval
  <2> QED
    BY <2>1, FS_Subset, FS_CardinalityType
<1>2. /\ \A i \in 1..n : Append(os, o)[i] = os[i]
      /\ Append(os, o)[n + 1] = o
      /\ 1..(n + 1) = (1..n) \cup {n + 1} /\ n + 1 \notin 1..n
  OBVIOUS
<1>3. T = IF o = "SUCCEEDED" THEN S \cup {n + 1} ELSE S
  BY <1>2
<1>4. n + 1 \notin S
  BY <1>2
<1>5. Cardinality(S \cup {n + 1}) = Cardinality(S) + 1
  BY <1>1, <1>4, FS_AddElement
<1>6. Cardinality(T) = Cardinality(S) + (IF o = "SUCCEEDED" THEN 1 ELSE 0)
  <2> HIDE DEF S, T
  <2> QED
    BY <1>1, <1>3, <1>5
<1> QED
  BY <1>1, <1>6

(* Transfers counts what was executed, and reads nothing else.              *)
LEMMA TransfersCount ==
  ASSUME ChainTyped
  PROVE  /\ Transfers \in Nat
         /\ UNCHANGED <<nonce, outcome>> => Transfers' = Transfers
         /\ \A o \in {"SUCCEEDED", "REVERTED"} :
              /\ nonce' = [nonce EXCEPT !["source"] = nonce["source"] + 1]
              /\ outcome' = [outcome EXCEPT !["source"] = Append(outcome["source"], o)]
              => Transfers' = Transfers + (IF o = "SUCCEEDED" THEN 1 ELSE 0)
         /\ \A o \in {"SUCCEEDED", "REVERTED"} :
              /\ nonce' = [nonce EXCEPT !["new"] = nonce["new"] + 1]
              /\ outcome' = [outcome EXCEPT !["new"] = Append(outcome["new"], o)]
              => Transfers' = Transfers
<1> DEFINE os == outcome["source"]
           n == nonce["source"]
<1>1. os \in Seq({"SUCCEEDED", "REVERTED"}) /\ n \in Nat /\ n = Len(os)
  BY SetupAssumption DEF ChainTyped, AccountsOf
<1>2. /\ Transfers \in Nat
      /\ \A o \in {"SUCCEEDED", "REVERTED"} :
           Cardinality({i \in 1..(n + 1) : Append(os, o)[i] = "SUCCEEDED"}) =
             Transfers + (IF o = "SUCCEEDED" THEN 1 ELSE 0)
  BY <1>1, Counted DEF Transfers
<1>3. UNCHANGED <<nonce, outcome>> => Transfers' = Transfers
  BY DEF Transfers
<1>4. ASSUME NEW o \in {"SUCCEEDED", "REVERTED"},
             nonce' = [nonce EXCEPT !["source"] = nonce["source"] + 1],
             outcome' = [outcome EXCEPT !["source"] = Append(outcome["source"], o)]
      PROVE  Transfers' = Transfers + (IF o = "SUCCEEDED" THEN 1 ELSE 0)
  <2>1. nonce'["source"] = n + 1 /\ outcome'["source"] = Append(os, o)
    BY <1>4 DEF ChainTyped, AccountsOf
  <2> QED
    BY <1>2, <2>1 DEF Transfers
<1>5. ASSUME NEW o \in {"SUCCEEDED", "REVERTED"},
             nonce' = [nonce EXCEPT !["new"] = nonce["new"] + 1],
             outcome' = [outcome EXCEPT !["new"] = Append(outcome["new"], o)]
      PROVE  Transfers' = Transfers
  <2>1. nonce'["source"] = n /\ outcome'["source"] = os
    BY <1>5 DEF ChainTyped, AccountsOf
  <2> QED
    BY <2>1 DEF Transfers
<1> QED
  BY <1>2, <1>3, <1>4, <1>5

(* The node holds no transaction of another account, nor one it cannot pay. *)
LEMMA PayableStays ==
  ASSUME Typed, Payable, Next
  PROVE  Payable'
<1>h. ChainTyped /\ Payable
  BY DEF Typed
<1>u. ASSUME UNCHANGED <<mempool, balance>>
      PROVE  Payable'
  BY <1>u, <1>h DEF Payable
<1>1. CASE Wizard /\ ~Register("wizard")
  <2>1. CASE transfer
    <3>1. mempool' = [mempool EXCEPT !["source"] = transfer_tx] /\ UNCHANGED balance
      BY <2>1 DEF transfer, submit
    <3> QED
      BY <3>1, <1>h DEF Payable, ChainTyped, AccountsOf
  <2>2. CASE step_deploy
    <3>1. CASE deployed
      BY <2>2, <3>1, <1>u DEF step_deploy, chain
    <3>2. CASE ~deployed
      <4>1. mempool' = [mempool EXCEPT !["new"] = deploy_tx] /\ UNCHANGED balance /\ balance >= 1
        BY <2>2, <3>2 DEF step_deploy, submit, can_submit, deploy_tx
      <4> QED
        BY <4>1, <1>h DEF Payable, ChainTyped, AccountsOf, deploy_tx
    <3> QED
      BY <3>1, <3>2
  <2> QED
    BY <1>1, <1>u, <2>1, <2>2 DEF Wizard, run_step, mark_done, step_create, park, already_funded, step_fund, transfer_receipt, deploy_receipt, save_new_keys, save_new_config, already_initialized, step_init, disk, ui, chain, counts
<1>2. ASSUME NEW t \in Threads, Register(t)
      PROVE  Payable'
  <2>1. CASE submit_register(t)
    <3>1. mempool' = [mempool EXCEPT !["new"] = register_tx(t)] /\ UNCHANGED balance
      BY <2>1 DEF submit_register, submit
    <3> QED
      BY <3>1, <1>h DEF Payable, ChainTyped, AccountsOf, register_tx
  <2> QED
    BY <1>2, <1>u, <2>1 DEF Register, register, ensure_kem_seed, ensure_register_keys, get_user, register_receipt, record_registration, run_refused, ends, disk, ui, chain, counts
<1>3. CASE Cli /\ ~Register("cli")
  <2> QED
    BY <1>3, <1>u DEF Cli, start_cli, migrate_keys, migrate_config, migrate_leftovers, disk, ui, chain, counts
<1>4. CASE Window
  <2> QED
    BY <1>4, <1>u DEF Window, new_profile, resume, dismiss, close, confirm, request_resume, create, poll, spawn, disk, ui, chain, counts
<1>5. CASE Faults
  <2>1. ASSUME NEW a \in AccountsOf, evict(a)
        PROVE  Payable'
    <3>1. mempool' = [mempool EXCEPT ![a] = NoTx] /\ UNCHANGED balance
      BY <2>1 DEF evict
    <3> QED
      BY <3>1, <1>h DEF Payable, ChainTyped, AccountsOf
  <2> QED
    BY <1>5, <1>u, <2>1 DEF Faults, run_fails, save_fails, step_fund, kill, ends, disk, ui, chain, counts
<1>6. CASE Chain \/ finish_sends
  <2>1. ASSUME NEW a \in AccountsOf, NEW ok \in BOOLEAN, execute(a, ok)
        PROVE  Payable'
    <3>1. mempool' = [mempool EXCEPT ![a] = NoTx] /\ mempool[a] \in Tx
      BY <2>1, <1>h, Executed
    <3>2. PICK o : mempool[a].kind = "transfer" => balance' = (IF o = "SUCCEEDED" THEN balance + 2 ELSE balance)
      BY <2>1, <1>h, Executed
    <3>3. a = "source" => balance' \in Nat /\ balance <= balance'
      BY <3>1, <3>2, <1>h, Nothing DEF Payable, ChainTyped, transfer_tx
    <3>4. CASE a = "source"
      BY <3>1, <3>3, <3>4, <1>h DEF Payable, ChainTyped, AccountsOf
    <3>5. CASE a = "new"
      BY <3>1, <3>5, <1>h DEF Payable, ChainTyped, AccountsOf
    <3> QED
      BY <3>4, <3>5 DEF AccountsOf
  <2>2. CASE deposit
    BY <2>2, <1>h DEF deposit, Payable, ChainTyped
  <2> QED
    BY <1>6, <1>u, <2>1, <2>2 DEF Chain, other_registers, finish_sends, disk, ui, chain, counts
<1> QED
  BY <1>1, <1>2, <1>3, <1>4, <1>5, <1>6 DEF Next, Cli, Wizard, Threads

(* A checkpoint lost stays lost, and only step_fund leads to the transfer.   *)
LEMMA Going ==
  ASSUME Typed, Placed, Shown, Kept, Next
  PROVE  /\ lost => lost'
         /\ runner'.pc = "transfer" => runner' = runner \/ Enters
         /\ runner \in Run /\ nonce["source"] \in Nat /\ slips \in Nat /\ lost \in BOOLEAN
<1>1. FileSteps /\ RunnerSteps
  BY FileStepsHold, RunnerStepsHold
<1>2. runner \in Run /\ nonce["source"] \in Nat /\ slips \in Nat /\ lost \in BOOLEAN
  BY SetupAssumption DEF Typed, ChainTyped, runner, Threads, AccountsOf
<1>3. lost => lost'
  BY <1>1, <1>2 DEF FileSteps
<1>4. runner'.pc = "transfer" => runner' = runner \/ Enters
  BY <1>1 DEF RunnerSteps, GoesOn, Marks, Begins
<1> QED
  BY <1>2, <1>3, <1>4

(* A step away from the transfer keeps the count of transfers.              *)
LEMMA SpentKept ==
  ASSUME Typed, Spent, lost => lost', runner'.pc = "transfer" => runner' = runner,
         UNCHANGED <<nonce, outcome, slips>>, mempool'["source"] \in {mempool["source"], NoTx}
  PROVE  Spent'
<1>1. Transfers \in Nat /\ Transfers' = Transfers /\ slips' = slips /\ slips \in Nat
  BY TransfersCount DEF Typed
<1>2. CASE mempool'["source"] = mempool["source"]
  BY <1>1, <1>2 DEF Spent, Waiting
<1>3. CASE mempool'["source"] = NoTx
  BY <1>1, <1>3 DEF Spent, Waiting
<1> QED
  BY <1>2, <1>3

(* A transfer needs a balance below the funding, which a transfer made rules out.*)
LEMMA SpentStays ==
  ASSUME Inv, Next
  PROVE  Spent'
<1>h. /\ Typed /\ Spent /\ th \in [Threads -> Run] /\ {"wizard", "cli"} = Threads
      /\ runner \in Run /\ nonce["source"] \in Nat /\ slips \in Nat /\ lost \in BOOLEAN
      /\ lost => lost'
      /\ Transfers \in Nat
  BY Going, TransfersCount DEF Inv, Funded, Typed, Threads
<1>a. ASSUME NEW read \in BOOLEAN, step_fund(read)
      PROVE  Spent'
  <2>1. /\ UNCHANGED <<nonce, outcome, mempool, balance, deployed>> /\ slips' \in {slips, slips + 1}
        /\ balance < 2 \/ slips' = slips + 1
        /\ runner.pc = "Fund" /\ runner.st.mode = "Transfer" /\ runner'.at = nonce["source"]
    BY <1>a, <1>h DEF step_fund, at, fund_needed, runner, chain
  <2>2. Transfers' = Transfers /\ Waiting' = Waiting /\ Waiting \in {0, 1}
    BY <2>1, <1>h, TransfersCount DEF Typed, Waiting
  <2>3. ~lost => Transfers + Waiting <= 1 + slips
    BY <1>h DEF Spent
  <2>4. ~lost => (balance < 2 => Transfers = 0)
    <3>1. file.done = 1 /\ file \in SetupState
      BY <2>1, <1>h, Plan DEF Inv, Placed, running, InStage, Holding, Copying, Complete, SetupState
    <3>2. ~lost => ~deployed
      BY <3>1, Nothing DEF Inv, Funded, Ordered, PastFunding, Elsewhere
    <3>3. balance \in Nat /\ Transfers \in Nat /\ (~lost => 2 * Transfers <= balance)
      BY <3>2, <1>h DEF Inv, Funded, Covered, Typed, ChainTyped
    <3> QED
      BY <3>3
  <2>5. ~lost => Transfers + Waiting <= 1 + slips' /\ Transfers <= slips'
    <3>1. CASE slips' = slips + 1
      BY <2>2, <2>3, <3>1, <1>h
    <3>2. CASE slips' = slips
      <4>1. balance < 2
        BY <2>1, <3>2, <1>h
      <4> QED
        BY <2>2, <2>3, <2>4, <3>2, <4>1, <1>h
    <3> QED
      BY <2>1, <3>1, <3>2
  <2>6. ~lost' => Transfers' + Waiting' <= 1 + slips' /\ Transfers' <= slips'
    BY <2>2, <2>5, <1>h
  <2>7. runner'.at <= nonce'["source"]
    BY <2>1, <1>h
  <2> QED
    BY <2>6, <2>7 DEF Spent
<1>e. (runner'.pc = "transfer" => runner' = runner) \/ (\E read \in BOOLEAN : step_fund(read))
  BY Going DEF Inv, Enters
<1>f. CASE \E read \in BOOLEAN : step_fund(read)
  BY <1>a, <1>f
<1>g. CASE runner'.pc = "transfer" => runner' = runner
  <2>u. ASSUME UNCHANGED <<nonce, outcome, mempool, slips>>
        PROVE  Spent'
    BY <2>u, <1>g, <1>h, SpentKept
  <2>1. CASE Wizard /\ ~Register("wizard")
    <3>1. CASE transfer
      <4>1. /\ mempool["source"] = NoTx /\ runner'.pc = "transfer_wait" /\ runner.pc = "transfer"
            /\ mempool' = [mempool EXCEPT !["source"] = transfer_tx]
            /\ slips' = (IF runner.at = nonce["source"] THEN slips ELSE slips + 1)
            /\ UNCHANGED <<nonce, outcome>>
        BY <3>1, <1>h DEF transfer, at, submit, can_submit, runner, Typed
      <4>2. Transfers' = Transfers /\ Waiting = 0 /\ Waiting' \in {0, 1}
        BY <4>1, <1>h, TransfersCount DEF Typed, Waiting
      <4>3. ~lost' => Transfers <= slips \/ (Transfers <= 1 + slips /\ slips' = slips + 1)
        BY <4>1, <4>2, <1>h DEF Spent
      <4>4. Waiting' = 1
        BY <4>1, <1>h, Nothing DEF Waiting, Typed, ChainTyped, AccountsOf, transfer_tx, Tx
      <4>5. ~lost' => Transfers + 1 <= 1 + slips'
        BY <4>1, <4>3, <1>h
      <4>6. ~lost' => Transfers' + Waiting' <= 1 + slips'
        BY <4>2, <4>4, <4>5
      <4> QED
        BY <4>1, <4>6 DEF Spent
    <3>2. CASE step_deploy
      <4>1. /\ mempool' = mempool \/ mempool' = [mempool EXCEPT !["new"] = deploy_tx]
            /\ UNCHANGED <<nonce, outcome, slips>>
        BY <3>2 DEF step_deploy, submit, counts, chain
      <4>2. mempool'["source"] = mempool["source"]
        BY <4>1, <1>h DEF Typed, ChainTyped, AccountsOf
      <4> QED
        BY <4>1, <4>2, <1>h, <1>g, SpentKept
    <3> QED
      BY <2>1, <2>u, <3>1, <3>2 DEF Wizard, run_step, mark_done, step_create, park, already_funded, step_fund, transfer_receipt, deploy_receipt, save_new_keys, save_new_config, already_initialized, step_init, disk, ui, chain, counts
  <2>2. ASSUME NEW t \in Threads, Register(t)
        PROVE  Spent'
    <3>1. CASE submit_register(t)
      <4>1. /\ mempool' = [mempool EXCEPT !["new"] = register_tx(t)]
            /\ UNCHANGED <<nonce, outcome, slips>>
        BY <3>1 DEF submit_register, submit, counts
      <4>2. mempool'["source"] = mempool["source"]
        BY <4>1, <1>h DEF Typed, ChainTyped, AccountsOf
      <4> QED
        BY <4>1, <4>2, <1>h, <1>g, SpentKept
    <3> QED
      BY <2>2, <2>u, <3>1 DEF Register, register, ensure_kem_seed, ensure_register_keys, get_user, register_receipt, record_registration, run_refused, ends, disk, ui, chain, counts
  <2>3. CASE Cli /\ ~Register("cli")
    <3> QED
      BY <2>3, <2>u DEF Cli, start_cli, migrate_keys, migrate_config, migrate_leftovers, disk, ui, chain, counts
  <2>4. CASE Window
    <3> QED
      BY <2>4, <2>u DEF Window, new_profile, resume, dismiss, close, confirm, request_resume, create, poll, spawn, disk, ui, chain, counts
  <2>5. CASE Faults
    <3>1. ASSUME NEW a \in AccountsOf, evict(a)
          PROVE  Spent'
      <4>1. /\ mempool' = [mempool EXCEPT ![a] = NoTx]
            /\ UNCHANGED <<nonce, outcome, slips>>
        BY <3>1 DEF evict
      <4>2. mempool'["source"] \in {mempool["source"], NoTx}
        BY <4>1, <1>h DEF Typed, ChainTyped, AccountsOf
      <4> QED
        BY <4>1, <4>2, <1>h, <1>g, SpentKept
    <3> QED
      BY <2>5, <1>a, <2>u, <3>1 DEF Faults, run_fails, save_fails, kill, ends, disk, ui, chain, counts
  <2>6. CASE Chain \/ finish_sends
    <3>1. ASSUME NEW a \in AccountsOf, NEW ok \in BOOLEAN, execute(a, ok)
          PROVE  Spent'
      <4>1. PICK o \in {"SUCCEEDED", "REVERTED"} : outcome' = [outcome EXCEPT ![a] = Append(outcome[a], o)]
        BY <3>1, <1>h, Executed DEF Typed
      <4>2. /\ nonce' = [nonce EXCEPT ![a] = nonce[a] + 1] /\ mempool' = [mempool EXCEPT ![a] = NoTx]
        BY <3>1, <1>h, Executed DEF Typed
      <4>3. UNCHANGED <<runner, slips>> /\ mempool[a] # NoTx
        BY <3>1 DEF execute, runner
      <4>4. CASE a = "source"
        <5>1. Transfers' = Transfers + (IF o = "SUCCEEDED" THEN 1 ELSE 0)
          BY <4>1, <4>2, <4>4, <1>h, TransfersCount DEF Typed
        <5>2. Waiting = 1 /\ Waiting' = 0
          BY <4>2, <4>3, <4>4, <1>h DEF Waiting, Typed, ChainTyped, AccountsOf
        <5>3. nonce'["source"] = nonce["source"] + 1
          BY <4>2, <4>4, <1>h DEF Typed, ChainTyped, AccountsOf
        <5>4. ~lost' => Transfers' + Waiting' <= 1 + slips'
          BY <4>3, <5>1, <5>2, <1>h DEF Spent
        <5>5. ~lost' /\ runner'.pc = "transfer" => runner'.at < nonce'["source"]
          BY <4>3, <5>3, <1>h DEF Spent, Run
        <5>6. ~lost' /\ runner'.pc = "transfer" => runner'.at <= nonce'["source"] /\ runner'.at # nonce'["source"]
          BY <4>3, <5>3, <5>5, <1>h DEF Run
        <5> QED
          BY <5>4, <5>6 DEF Spent
      <4>5. CASE a = "new"
        <5>1. Transfers' = Transfers
          BY <4>1, <4>2, <4>5, <1>h, TransfersCount DEF Typed
        <5>2. nonce'["source"] = nonce["source"] /\ mempool'["source"] = mempool["source"]
          BY <4>2, <4>5, <1>h DEF Typed, ChainTyped, AccountsOf
        <5> QED
          BY <4>3, <5>1, <5>2, <1>h DEF Spent, Waiting
      <4> QED
        BY <4>4, <4>5 DEF AccountsOf
    <3> QED
      BY <2>6, <2>u, <3>1 DEF Chain, deposit, other_registers, finish_sends, disk, ui, chain, counts
  <2> QED
    BY <2>1, <2>2, <2>3, <2>4, <2>5, <2>6 DEF Next, Cli, Wizard, Threads
<1> QED
  BY <1>e, <1>f, <1>g

(* What was transferred stays covered.                                       *)
LEMMA CoveredStays ==
  ASSUME Inv, Next
  PROVE  Covered'
<1>h. /\ Typed /\ Covered /\ Payable /\ Transfers \in Nat /\ balance \in Nat
      /\ lost => lost'
      /\ UNCHANGED <<nonce, outcome>> => Transfers' = Transfers
  BY Going, TransfersCount DEF Inv, Funded, Typed, ChainTyped
<1>u. ASSUME UNCHANGED <<nonce, outcome, balance, deployed>>
      PROVE  Covered'
  BY <1>u, <1>h DEF Covered
<1>1. CASE Wizard /\ ~Register("wizard")
  <2> QED
    BY <1>1, <1>u DEF Wizard, run_step, mark_done, step_create, park, already_funded, step_fund, transfer, transfer_receipt, step_deploy, deploy_receipt, save_new_keys, save_new_config, already_initialized, step_init, submit, disk, ui, chain, counts
<1>2. ASSUME NEW t \in Threads, Register(t)
      PROVE  Covered'
  <2> QED
    BY <1>2, <1>u DEF Register, register, ensure_kem_seed, ensure_register_keys, get_user, submit_register, register_receipt, record_registration, run_refused, ends, submit, disk, ui, chain, counts
<1>3. CASE Cli /\ ~Register("cli")
  <2> QED
    BY <1>3, <1>u DEF Cli, start_cli, migrate_keys, migrate_config, migrate_leftovers, disk, ui, chain, counts
<1>4. CASE Window
  <2> QED
    BY <1>4, <1>u DEF Window, new_profile, resume, dismiss, close, confirm, request_resume, create, poll, spawn, disk, ui, chain, counts
<1>5. CASE Faults
  <2> QED
    BY <1>5, <1>u DEF Faults, run_fails, save_fails, step_fund, kill, evict, ends, disk, ui, chain, counts
<1>6. CASE Chain \/ finish_sends
  <2>1. ASSUME NEW a \in AccountsOf, NEW ok \in BOOLEAN, execute(a, ok)
        PROVE  Covered'
    <3>1. PICK o \in {"SUCCEEDED", "REVERTED"} :
            /\ outcome' = [outcome EXCEPT ![a] = Append(outcome[a], o)]
            /\ mempool[a].kind = "transfer" => balance' = (IF o = "SUCCEEDED" THEN balance + 2 ELSE balance)
      BY <2>1, <1>h, Executed DEF Typed
    <3>2. /\ mempool[a] \in Tx /\ nonce' = [nonce EXCEPT ![a] = nonce[a] + 1]
          /\ mempool[a].kind = "register" => balance' = balance
          /\ deployed' = (deployed \/ mempool[a].kind = "deploy")
      BY <2>1, <1>h, Executed DEF Typed
    <3>3. CASE a = "source"
      <4>1. Transfers' = Transfers + (IF o = "SUCCEEDED" THEN 1 ELSE 0)
        BY <3>1, <3>2, <3>3, <1>h, TransfersCount DEF Typed
      <4>2. mempool[a].kind = "transfer"
        BY <3>2, <3>3, <1>h, Nothing DEF Payable, transfer_tx
      <4>3. ~lost' /\ ~deployed' => 2 * Transfers <= balance
        BY <3>2, <1>h DEF Covered
      <4>4. CASE o = "SUCCEEDED"
        BY <3>1, <4>1, <4>2, <4>3, <4>4, <1>h DEF Covered
      <4>5. CASE o = "REVERTED"
        BY <3>1, <4>1, <4>2, <4>3, <4>5, <1>h DEF Covered
      <4> QED
        BY <4>4, <4>5
    <3>4. CASE a = "new"
      <4>1. Transfers' = Transfers
        BY <3>1, <3>2, <3>4, <1>h, TransfersCount DEF Typed
      <4>2. mempool[a].kind \in {"deploy", "register"}
        BY <3>2, <3>4, <1>h, Nothing DEF Payable, Tx
      <4> QED
        BY <3>2, <4>1, <4>2, <1>h DEF Covered
    <3> QED
      BY <3>3, <3>4 DEF AccountsOf
  <2>2. CASE deposit
    <3>1. UNCHANGED <<nonce, outcome, deployed>> /\ balance' = balance + 1
      BY <2>2 DEF deposit
    <3> QED
      BY <3>1, <1>h DEF Covered
  <2> QED
    BY <1>6, <1>u, <2>1, <2>2 DEF Chain, other_registers, finish_sends, disk, ui, chain, counts
<1> QED
  BY <1>1, <1>2, <1>3, <1>4, <1>5, <1>6 DEF Next, Cli, Wizard, Threads

(* A transfer stays confirmed until the run ends.                           *)
LEMMA AskedStays ==
  ASSUME Inv, Next
  PROVE  Asked'
<1>1. RunnerSteps /\ (lost => lost') /\ Asked /\ Shown /\ Placed
  BY RunnerStepsHold, Going DEF Inv, Funded
<1>2. CASE UNCHANGED <<runner, file>> \/ runner'.pc = "idle"
  BY <1>1, <1>2 DEF Asked, running
<1>3. CASE GoesOn
  BY <1>1, <1>3 DEF Asked, GoesOn
<1>4. CASE Marks
  <2>1. /\ running /\ runner.st \in SetupState /\ runner'.st.done = runner.st.done + 1
        /\ runner'.st.mode = runner.st.mode /\ runner'.confirmed = runner.confirmed
    BY <1>1, <1>4 DEF Marks, Placed
  <2> QED
    BY <1>1, <2>1 DEF Asked, SetupState
<1>5. CASE Begins
  <2>1. wiz.open /\ runner'.st = file' /\ runner'.st.mode = wiz.mode
    BY <1>1, <1>5 DEF Begins, Shown, new_plan
  <2>2. runner'.confirmed \/ wiz.mode # "Transfer" \/ Saved(2)
    BY <1>1, <1>5 DEF Begins, Shown, needs_confirm
  <2>3. Saved(2) => lost \/ ~(runner'.st.done < 2)
    BY <1>5 DEF Begins, Saved, SetupState
  <2> QED
    BY <1>1, <2>1, <2>2, <2>3 DEF Asked
<1> QED
  BY <1>1, <1>2, <1>3, <1>4, <1>5 DEF RunnerSteps

-----------------------------------------------------------------------------
(* The keys *)

(* The keys change when the identity is drawn, by the wizard or by a        *)
(* migration; when what is missing in them is; and when the handle is       *)
(* recorded.                                                                *)
Drawn(k) == k \in Keys /\ k.handle = NoOne /\ Full(k.id) /\ k.id.scan # OldScan
Filled(k, l) ==
  /\ {k, l} \subseteq Keys /\ k.handle = NoOne /\ l.handle = NoOne
  /\ ~Full(k.id) /\ l.id.scan = k.id.scan
KeysSteps ==
  \/ UNCHANGED keys
  \/ keys = NoKeys /\ runner.pc = "Init" /\ Drawn(keys')
  \/ OldStore /\ th["cli"].pc = "migrate" /\ Drawn(keys')
  \/ \E t \in Threads :
       \/ th[t].pc = "seed" /\ th'[t].pc = "secret" /\ Filled(keys, keys')
       \/ th[t].pc = "secret" /\ th'[t].pc = "get_user" /\ Filled(th[t].keys, keys')
       \/ /\ th[t].pc = "record" /\ users[th[t].handle] = th[t].keys.id
          /\ keys' = [th[t].keys EXCEPT !.handle = th[t].handle]

(* A secret just drawn is not the one of the old store.                     *)
LEMMA DrawnNew ==
  ASSUME minted \in Nat, minted >= OldScan, minted < MaxMint
  PROVE  Drawn([id |-> new_identity(minted + 1), handle |-> NoOne])
<1>1. minted + 1 \in Secret /\ minted + 1 # OldScan /\ minted + 1 # 0
  BY SetupAssumption DEF Secret, OldScan
<1> QED
  BY <1>1 DEF Drawn, Keys, Ident, new_identity, Full

(* Keys are drawn when there are none, completed when they are not, or marked.*)
LEMMA KeysStepsHold ==
  ASSUME Typed, Kept, Next
  PROVE  KeysSteps
<1>h. /\ th \in [Threads -> Run] /\ {"wizard", "cli"} = Threads
      /\ \A t \in Threads : th[t].pc \in Copying => th[t].keys \in Keys
      /\ \A t \in Threads : th[t].pc \in Holding => keys \in Keys
      /\ th["cli"].pc # "idle" => config # NoConfig
      /\ minted \in Nat /\ minted >= OldScan
  BY Plan, Nothing DEF Typed, Kept, Threads, Run, DiskTyped, Holding, Copying
<1>u. ASSUME UNCHANGED <<keys>>
      PROVE  KeysSteps
  BY <1>u DEF KeysSteps
<1>1. CASE Wizard /\ ~Register("wizard")
  <2>1. CASE save_new_keys
    <3>1. /\ keys = NoKeys /\ runner.pc = "Init" /\ minted < MaxMint
          /\ keys' = [id |-> new_identity(minted + 1), handle |-> NoOne]
      BY <2>1 DEF save_new_keys, at, runner
    <3>2. Drawn(keys')
      BY <3>1, <1>h, DrawnNew
    <3> QED
      BY <3>1, <3>2 DEF KeysSteps
  <2> QED
    BY <1>1, <1>u, <2>1 DEF Wizard, run_step, mark_done, step_create, park, already_funded, step_fund, transfer, transfer_receipt, step_deploy, deploy_receipt, save_new_config, already_initialized, step_init, submit, disk, ui, chain, counts
<1>2. ASSUME NEW t \in Threads, Register(t)
      PROVE  KeysSteps
  <2>1. CASE ensure_kem_seed(t)
    <3>1. CASE keys.id.kem_seed # 0
      BY <2>1, <3>1 DEF ensure_kem_seed, KeysSteps
    <3>2. CASE keys.id.kem_seed = 0
      <4>1. /\ th[t].pc = "seed" /\ keys \in Keys /\ keys.handle = NoOne /\ minted + 1 \in Secret
            /\ keys' = [keys EXCEPT !.id.kem_seed = minted + 1]
        BY <2>1, <3>2, <1>h, SetupAssumption DEF ensure_kem_seed, at, Holding, update_keys, Secret
      <4>2. Filled(keys, keys')
        BY <3>2, <4>1 DEF Filled, Keys, Ident, Full
      <4>3. th'[t].pc = "secret"
        <5>1. \E k : th' = [th EXCEPT ![t].pc = "secret", ![t].keys = k]
          BY <2>1 DEF ensure_kem_seed
        <5> QED
          BY <5>1, <1>h
      <4> QED
        BY <4>1, <4>2, <4>3 DEF KeysSteps
    <3> QED
      BY <3>1, <3>2
  <2>2. CASE ensure_register_keys(t)
    <3>1. CASE th[t].keys.id.member_secret # 0
      BY <2>2, <3>1 DEF ensure_register_keys, KeysSteps
    <3>2. CASE th[t].keys.id.member_secret = 0
      <4>1. /\ th[t].pc = "secret" /\ th[t].keys \in Keys /\ th[t].keys.handle = NoOne /\ minted + 1 \in Secret
            /\ keys' = [th[t].keys EXCEPT !.id.member_secret = minted + 1]
        BY <2>2, <3>2, <1>h, SetupAssumption DEF ensure_register_keys, at, Copying, update_keys, Secret
      <4>2. Filled(th[t].keys, keys')
        BY <3>2, <4>1 DEF Filled, Keys, Ident, Full
      <4>3. th'[t].pc = "get_user"
        <5>1. \E k : th' = [th EXCEPT ![t].pc = "get_user", ![t].keys = k]
          BY <2>2, <3>2 DEF ensure_register_keys
        <5> QED
          BY <5>1, <1>h
      <4> QED
        BY <4>1, <4>2, <4>3 DEF KeysSteps
    <3> QED
      BY <3>1, <3>2
  <2>3. CASE record_registration(t)
    BY <2>3 DEF record_registration, at, ours, update_keys, KeysSteps
  <2> QED
    BY <1>2, <1>u, <2>1, <2>2, <2>3 DEF Register, register, get_user, submit_register, register_receipt, run_refused, ends, submit, disk, ui, chain, counts
<1>3. CASE Cli /\ ~Register("cli")
  <2>1. CASE migrate_keys
    <3>1. CASE ~may_migrate
      BY <2>1, <3>1 DEF migrate_keys, KeysSteps
    <3>2. CASE may_migrate
      <4>1. /\ th["cli"].pc = "migrate" /\ OldStore /\ minted < MaxMint
            /\ keys' = [id |-> new_identity(minted + 1), handle |-> NoOne]
        BY <2>1, <3>2, <1>h DEF migrate_keys, at, may_migrate, OldStore, migrated_keys, update_keys
      <4>2. Drawn(keys')
        BY <4>1, <1>h, DrawnNew
      <4> QED
        BY <4>1, <4>2 DEF KeysSteps
    <3> QED
      BY <3>1, <3>2
  <2> QED
    BY <1>3, <1>u, <2>1 DEF Cli, start_cli, migrate_config, migrate_leftovers, disk, ui, chain, counts
<1>4. CASE Window
  <2> QED
    BY <1>4, <1>u DEF Window, new_profile, resume, dismiss, close, confirm, request_resume, create, poll, spawn, disk, ui, chain, counts
<1>5. CASE Faults
  <2> QED
    BY <1>5, <1>u DEF Faults, run_fails, save_fails, step_fund, kill, evict, ends, disk, ui, chain, counts
<1>6. CASE Chain \/ finish_sends
  <2> QED
    BY <1>6, <1>u DEF Chain, execute, deposit, other_registers, finish_sends, disk, ui, chain, counts
<1> QED
  BY <1>1, <1>2, <1>3, <1>4, <1>5, <1>6 DEF Next, Cli, Wizard, Threads

(* The config is written by the wizard, which may stamp it, and moved to the *)
(* v4 pool by a migration.                                                  *)
ConfigSteps ==
  \/ UNCHANGED config
  \/ /\ config' \in Config /\ UNCHANGED <<keys, th["cli"]>>
     /\ \/ runner.pc = "init_config" /\ config'.store = "v4"
        \/ running /\ config # NoConfig /\ config'.store = config.store
  \/ config' \in Config /\ config'.store = "v4" /\ th["cli"].pc = "mig_config" /\ th'["cli"].pc # "mig_config"
     /\ UNCHANGED keys

(* A config is written for keys that exist, or moved to the new store.      *)
LEMMA ConfigStepsHold ==
  ASSUME Typed, Kept, Next
  PROVE  ConfigSteps
<1>h. /\ th \in [Threads -> Run] /\ {"wizard", "cli"} = Threads
      /\ config \in Config \cup {NoConfig}
      /\ th["cli"].pc # "idle" => config \in Config
  BY Nothing DEF Typed, Kept, Threads, DiskTyped
<1>u. ASSUME UNCHANGED <<config>>
      PROVE  ConfigSteps
  BY <1>u DEF ConfigSteps
<1>1. CASE Wizard /\ ~Register("wizard")
  <2>1. CASE save_new_config
    <3>1. /\ config' = [store |-> "v4", burner |-> FALSE] /\ runner.pc = "init_config"
          /\ UNCHANGED <<keys, th["cli"]>>
      BY <2>1, <1>h DEF save_new_config, at, goto, runner
    <3> QED
      BY <3>1 DEF ConfigSteps, Config
  <2>2. CASE step_init
    <3>1. running /\ UNCHANGED <<keys, th["cli"]>>
      BY <2>2, <1>h DEF step_init, at, goto, runner, running
    <3>2. CASE is_burner
      <4>1. config \in Config /\ config # NoConfig /\ config' = [config EXCEPT !.burner = TRUE]
        BY <2>2, <3>2, <1>h DEF step_init
      <4> QED
        BY <3>1, <4>1 DEF ConfigSteps, Config
    <3>3. CASE ~is_burner
      BY <2>2, <3>3 DEF step_init, ConfigSteps
    <3> QED
      BY <3>2, <3>3
  <2> QED
    BY <1>1, <1>u, <2>1, <2>2 DEF Wizard, run_step, mark_done, step_create, park, already_funded, step_fund, transfer, transfer_receipt, step_deploy, deploy_receipt, save_new_keys, already_initialized, submit, disk, ui, chain, counts
<1>2. ASSUME NEW t \in Threads, Register(t)
      PROVE  ConfigSteps
  <2> QED
    BY <1>2, <1>u DEF Register, register, ensure_kem_seed, ensure_register_keys, get_user, submit_register, register_receipt, record_registration, run_refused, ends, submit, disk, ui, chain, counts
<1>3. CASE Cli /\ ~Register("cli")
  <2>1. CASE migrate_config
    <3>1. /\ config \in Config /\ config' = [config EXCEPT !.store = "v4"]
          /\ th["cli"].pc = "mig_config" /\ th'["cli"].pc = "mig_caches" /\ UNCHANGED keys
      BY <2>1, <1>h DEF migrate_config, at, goto
    <3> QED
      BY <3>1 DEF ConfigSteps, Config
  <2> QED
    BY <1>3, <1>u, <2>1 DEF Cli, start_cli, migrate_keys, migrate_leftovers, disk, ui, chain, counts
<1>4. CASE Window
  <2> QED
    BY <1>4, <1>u DEF Window, new_profile, resume, dismiss, close, confirm, request_resume, create, poll, spawn, disk, ui, chain, counts
<1>5. CASE Faults
  <2> QED
    BY <1>5, <1>u DEF Faults, run_fails, save_fails, step_fund, kill, evict, ends, disk, ui, chain, counts
<1>6. CASE Chain \/ finish_sends
  <2> QED
    BY <1>6, <1>u DEF Chain, execute, deposit, other_registers, finish_sends, disk, ui, chain, counts
<1> QED
  BY <1>1, <1>2, <1>3, <1>4, <1>5, <1>6 DEF Next, Cli, Wizard, Threads

(* A thread comes to work on the keys when they are there and the profile is *)
(* on the v4 pool, and its copy is always the one of the file.              *)
Marked == Holding \cup {"init_config", "mig_config"}
CopyStep(t) ==
  \/ UNCHANGED th[t]
  \/ th'[t].pc \notin Marked
  \/ th'[t].pc = "init_config" /\ t = "wizard" /\ keys' # NoKeys
  \/ th'[t].pc = "mig_config" /\ t = "cli" /\ OldStore /\ Drawn(keys') /\ UNCHANGED config
  \/ th'[t].pc = "seed" /\ keys # NoKeys /\ OnV4 /\ UNCHANGED keys
  \/ th[t].pc = "seed" /\ th'[t].pc = "secret" /\ th'[t].keys = keys' /\ keys'.id.kem_seed # 0
  \/ /\ th[t].pc = "secret" /\ th'[t].pc = "get_user" /\ th'[t].keys \in Keys /\ th'[t].keys.id = keys'.id
     /\ keys'.id.kem_seed # 0 /\ keys'.id.member_secret # 0
  \/ th[t].pc \in Complete /\ th'[t].pc \in Complete /\ th'[t].keys = th[t].keys /\ UNCHANGED keys
CopySteps ==
  /\ \A t \in Threads : CopyStep(t)
  /\ UNCHANGED th["cli"] \/ th'["cli"].pc = "idle" \/ th["cli"].pc # "idle" \/ config # NoConfig

(* The steps that are no work on the keys.                                   *)
LEMMA CopiesRest ==
  ASSUME th \in [Threads -> Run], NEW t \in Threads, th' = [th EXCEPT ![t] = Idle]
  PROVE  CopySteps
<1>1. Idle.pc = "idle" /\ Idle.pc \notin Marked
  BY DEF Idle, Marked, Holding, Copying, Complete
<1> QED
  BY <1>1 DEF CopySteps, CopyStep, Threads

(* A run that moves on outside register takes no copy of the keys.          *)
LEMMA CopiesGoTo ==
  ASSUME th \in [Threads -> Run], NEW t \in Threads, NEW pc, goto(t, pc),
         pc \notin Marked, t = "wizard" \/ th[t].pc # "idle"
  PROVE  CopySteps
BY DEF CopySteps, CopyStep, goto, Threads

(* The copies register works on are the keys of the file.                   *)
LEMMA CopyStepsHold ==
  ASSUME Typed, Placed, Shown, Kept, Next
  PROVE  CopySteps
<1>h. /\ th \in [Threads -> Run] /\ {"wizard", "cli"} = Threads
      /\ file \in SetupState \cup {NoFile, Torn}
      /\ wiz.open => wiz.mode \in Funding
      /\ wiz.confirm => wiz.open
      /\ running => runner.st \in SetupState
      /\ \A t \in Threads : th[t].pc \in Copying =>
           th[t].keys \in Keys /\ th[t].keys.id = keys.id /\ keys.id.kem_seed # 0
      /\ \A t \in Threads : th[t].pc \in Holding => keys \in Keys
      /\ minted \in Nat
      /\ \A pc \in {"idle", "step", "mark", "Fund", "transfer", "transfer_wait", "deploy_wait",
                    "stamp", "Register", "migrate", "mig_caches", "mig_tickets"} \cup {STEPS[i] : i \in 1..5} :
           pc \notin Marked
      /\ \A t \in Threads : th[t].pc \in Holding => th[t].pc # "idle"
      /\ minted >= OldScan /\ (th["cli"].pc # "idle" => config # NoConfig)
  BY Plan, Nothing DEF Typed, Placed, Shown, Kept, Threads, Run, DiskTyped, Marked, Holding, Copying, Complete
<1>u. ASSUME UNCHANGED <<th>>
      PROVE  CopySteps
  BY <1>u DEF CopySteps, CopyStep
<1>1. CASE Wizard /\ ~Register("wizard")
  <2>1. CASE run_step
    <3>1. CASE runner.st.done = Len(STEPS)
      BY <2>1, <3>1, <1>h, CopiesRest DEF run_step, runner
    <3>2. CASE runner.st.done # Len(STEPS)
      <4>1. next_pending(runner.st) \in 1..5
        BY <2>1, <3>2, <1>h, Plan DEF run_step, at, runner, running, next_pending, SetupState
      <4>2. STEPS[next_pending(runner.st)] \notin Marked /\ goto("wizard", STEPS[next_pending(runner.st)])
        BY <2>1, <3>2, <4>1, <1>h, Plan DEF run_step, runner
      <4> QED
        BY <4>2, <1>h, CopiesGoTo
    <3> QED
      BY <3>1, <3>2
  <2>2. CASE mark_done
    <3>1. th'["cli"] = th["cli"] /\ th'["wizard"].pc = "step"
      BY <2>2, <1>h DEF mark_done, Idle
    <3> QED
      BY <3>1, <1>h DEF CopySteps, CopyStep
  <2>3. CASE step_create
    <3>1. th' = [th EXCEPT !["wizard"].pc = "mark", !["wizard"].st.address = TRUE]
      BY <2>3 DEF step_create
    <3>2. th'["cli"] = th["cli"] /\ th'["wizard"].pc = "mark"
      BY <3>1, <1>h
    <3> QED
      BY <3>2, <1>h DEF CopySteps, CopyStep
  <2>4. CASE park
    BY <2>4, <1>h, CopiesRest DEF park
  <2>5. CASE already_funded
    BY <2>5, <1>h, CopiesGoTo DEF already_funded
  <2>6. CASE step_fund(TRUE)
    <3>1. th'["cli"] = th["cli"] /\ th'["wizard"].pc = "transfer"
      BY <2>6, <1>h DEF step_fund
    <3> QED
      BY <3>1, <1>h DEF CopySteps, CopyStep
  <2>7. CASE transfer
    <3>1. th'["cli"] = th["cli"] /\ th'["wizard"].pc = "transfer_wait"
      BY <2>7, <1>h DEF transfer, submit
    <3> QED
      BY <3>1, <1>h DEF CopySteps, CopyStep
  <2>8. CASE transfer_receipt
    BY <2>8, <1>h, CopiesGoTo DEF transfer_receipt
  <2>9. CASE step_deploy
    <3>1. CASE deployed
      BY <2>9, <3>1, <1>h, CopiesGoTo DEF step_deploy
    <3>2. CASE ~deployed
      <4>1. th' = [th EXCEPT !["wizard"].pc = "deploy_wait", !["wizard"].at = nonce["new"]]
        BY <2>9, <3>2 DEF step_deploy, submit
      <4>2. th'["cli"] = th["cli"] /\ th'["wizard"].pc = "deploy_wait"
        BY <4>1, <1>h
      <4> QED
        BY <4>2, <1>h DEF CopySteps, CopyStep
    <3> QED
      BY <3>1, <3>2
  <2>10. CASE deploy_receipt
    BY <2>10, <1>h, CopiesGoTo DEF deploy_receipt
  <2>11. CASE save_new_keys
    <3>1. /\ keys' = [id |-> new_identity(minted + 1), handle |-> NoOne] /\ minted < MaxMint
          /\ th' = [th EXCEPT !["wizard"].pc = "init_config"]
      BY <2>11 DEF save_new_keys, goto
    <3>2. keys' # NoKeys
      BY <3>1, <1>h, DrawnNew, Nothing DEF Drawn
    <3> QED
      BY <3>1, <3>2, <1>h DEF CopySteps, CopyStep
  <2>12. CASE save_new_config
    BY <2>12, <1>h, CopiesGoTo DEF save_new_config
  <2>13. CASE already_initialized
    BY <2>13, <1>h, CopiesGoTo DEF already_initialized
  <2>14. CASE step_init
    BY <2>14, <1>h, CopiesGoTo DEF step_init
  <2> QED
    BY <1>1, <1>u, <2>1, <2>2, <2>3, <2>4, <2>5, <2>6, <2>7, <2>8, <2>9, <2>10, <2>11, <2>12, <2>13, <2>14 DEF Wizard, disk, ui, chain, counts
<1>2. ASSUME NEW t \in Threads, Register(t)
      PROVE  CopySteps
  <2>1. CASE register(t)
    <3>1. th' = [th EXCEPT ![t].pc = "seed"] /\ keys # NoKeys /\ OnV4 /\ UNCHANGED keys /\ th[t].pc = "Register"
      BY <2>1 DEF register, at, may_register, goto, OnV4, disk
    <3> QED
      BY <3>1, <1>h DEF CopySteps, CopyStep
  <2>2. CASE ensure_kem_seed(t)
    <3>1. th[t].pc = "seed" /\ keys \in Keys /\ th' = [th EXCEPT ![t].pc = "secret", ![t].keys = keys']
      BY <2>2, <1>h DEF ensure_kem_seed, at, update_keys, Holding
    <3>2. keys'.id.kem_seed # 0
      <4>1. CASE keys.id.kem_seed # 0
        BY <2>2, <4>1 DEF ensure_kem_seed
      <4>2. CASE keys.id.kem_seed = 0
        <5>1. keys' = [keys EXCEPT !.id.kem_seed = minted + 1] /\ minted + 1 # 0
          BY <2>2, <4>2, <1>h DEF ensure_kem_seed, update_keys
        <5> QED
          BY <3>1, <5>1 DEF Keys, Ident
      <4> QED
        BY <4>1, <4>2
    <3> QED
      BY <3>1, <3>2, <1>h DEF CopySteps, CopyStep
  <2>3. CASE ensure_register_keys(t)
    <3>1. /\ th[t].pc = "secret" /\ th[t].keys \in Keys /\ th[t].keys.id = keys.id /\ keys.id.kem_seed # 0
      BY <2>3, <1>h DEF ensure_register_keys, at, Copying
    <3>2. CASE th[t].keys.id.member_secret # 0
      <4>1. th' = [th EXCEPT ![t].pc = "get_user"] /\ UNCHANGED keys
        BY <2>3, <3>2 DEF ensure_register_keys, goto
      <4> QED
        BY <3>1, <3>2, <4>1, <1>h DEF CopySteps, CopyStep
    <3>3. CASE th[t].keys.id.member_secret = 0
      <4>1. /\ keys' = [th[t].keys EXCEPT !.id.member_secret = minted + 1] /\ minted + 1 # 0 /\ minted < MaxMint
            /\ th' = [th EXCEPT ![t].pc = "get_user", ![t].keys = keys']
        BY <2>3, <3>3, <1>h DEF ensure_register_keys, update_keys
      <4>2. keys' \in Keys /\ keys'.id.kem_seed # 0 /\ keys'.id.member_secret # 0
        <5>1. minted + 1 \in Secret
          BY <4>1, <1>h, SetupAssumption DEF Secret
        <5> QED
          BY <3>1, <4>1, <5>1 DEF Keys, Ident
      <4> QED
        BY <3>1, <4>1, <4>2, <1>h DEF CopySteps, CopyStep
    <3> QED
      BY <3>2, <3>3
  <2>4. CASE get_user(t)
    <3>1. PICK pc \in {"record", "reg_submit"} : th' = [th EXCEPT ![t].pc = pc]
      BY <2>4 DEF get_user, goto
    <3>2. th[t].pc \in Complete /\ th[t].pc # "idle" /\ UNCHANGED keys /\ pc \in Complete
      BY <2>4 DEF get_user, at, disk, Complete
    <3> QED
      BY <3>1, <3>2, <1>h DEF CopySteps, CopyStep
  <2>5. CASE submit_register(t)
    <3>1. th' = [th EXCEPT ![t].pc = "reg_wait", ![t].at = nonce["new"]]
      BY <2>5 DEF submit_register, submit
    <3>2. th[t].pc \in Complete /\ th[t].pc # "idle" /\ UNCHANGED keys /\ "reg_wait" \in Complete
      BY <2>5 DEF submit_register, at, disk, Complete
    <3> QED
      BY <3>1, <3>2, <1>h DEF CopySteps, CopyStep
  <2>6. CASE register_receipt(t)
    <3>1. th' = [th EXCEPT ![t].pc = "record"]
      BY <2>6 DEF register_receipt, goto
    <3>2. th[t].pc \in Complete /\ th[t].pc # "idle" /\ UNCHANGED keys /\ "record" \in Complete
      BY <2>6 DEF register_receipt, at, disk, Complete
    <3> QED
      BY <3>1, <3>2, <1>h DEF CopySteps, CopyStep
  <2>7. CASE record_registration(t)
    <3>1. CASE th' = [th EXCEPT ![t].pc = "mark"]
      <4>1. th[t].pc # "idle"
        BY <2>7 DEF record_registration, at
      <4> QED
        BY <3>1, <4>1, <1>h DEF CopySteps, CopyStep
    <3>2. CASE th' = [th EXCEPT ![t] = Idle]
      BY <3>2, <1>h, CopiesRest
    <3> QED
      BY <2>7, <3>1, <3>2 DEF record_registration
  <2>8. CASE run_refused(t)
    BY <2>8, <1>h, CopiesRest DEF run_refused, ends
  <2> QED
    BY <1>2, <1>u, <2>1, <2>2, <2>3, <2>4, <2>5, <2>6, <2>7, <2>8 DEF Register, disk, ui, chain, counts
<1>3. CASE Cli /\ ~Register("cli")
  <2>1. ASSUME NEW pc \in {"Register", "migrate"}, NEW h \in Handles \cup {NoOne}, start_cli(pc, h)
        PROVE  CopySteps
    <3>1. th'["wizard"] = th["wizard"] /\ th'["cli"].pc = pc /\ pc \notin Marked /\ config # NoConfig
      BY <2>1, <1>h DEF start_cli, Idle
    <3> QED
      BY <3>1, <1>h DEF CopySteps, CopyStep
  <2>2. CASE migrate_keys
    <3>1. CASE ~may_migrate
      BY <2>2, <3>1, <1>h, CopiesRest DEF migrate_keys
    <3>2. CASE may_migrate
      <4>1. /\ th["cli"].pc = "migrate" /\ OldStore /\ minted < MaxMint /\ UNCHANGED config
            /\ keys' = [id |-> new_identity(minted + 1), handle |-> NoOne]
            /\ th' = [th EXCEPT !["cli"].pc = "mig_config"]
        BY <2>2, <3>2, <1>h DEF migrate_keys, at, may_migrate, OldStore, migrated_keys, update_keys, goto
      <4>2. Drawn(keys')
        BY <4>1, <1>h, DrawnNew
      <4> QED
        BY <4>1, <4>2, <1>h DEF CopySteps, CopyStep
    <3> QED
      BY <3>1, <3>2
  <2>3. CASE migrate_config
    <3>1. th["cli"].pc = "mig_config" /\ goto("cli", "mig_caches")
      BY <2>3 DEF migrate_config, at
    <3> QED
      BY <3>1, <1>h, CopiesGoTo
  <2>4. CASE migrate_leftovers
    BY <2>4, <1>h, CopiesGoTo, CopiesRest DEF migrate_leftovers
  <2> QED
    BY <1>3, <1>u, <2>1, <2>2, <2>3, <2>4 DEF Cli, disk, ui, chain, counts
<1>4. CASE Window
  <2>1. CASE confirm
    <3>1. spawn(TRUE) /\ wiz.open
      BY <2>1, <1>h DEF confirm
    <3>2. th'["wizard"].pc = "step" /\ th'["cli"] = th["cli"]
      BY <3>1, <1>h, Spawned
    <3> QED
      BY <3>2, <1>h DEF CopySteps, CopyStep
  <2>2. CASE request_resume
    <3>1. CASE needs_confirm
      BY <2>2, <3>1, <1>u DEF request_resume
    <3>2. CASE ~needs_confirm
      <4>1. spawn(FALSE) /\ wiz.open
        BY <2>2, <3>2 DEF request_resume
      <4>2. th'["wizard"].pc = "step" /\ th'["cli"] = th["cli"]
        BY <4>1, <1>h, Spawned
      <4> QED
        BY <4>2, <1>h DEF CopySteps, CopyStep
    <3> QED
      BY <3>1, <3>2
  <2> QED
    BY <1>4, <1>u, <2>1, <2>2 DEF Window, new_profile, resume, dismiss, close, create, poll, disk, ui, chain, counts
<1>5. CASE Faults
  <2>1. ASSUME NEW t \in Threads, run_fails(t)
        PROVE  CopySteps
    BY <2>1, <1>h, CopiesRest DEF run_fails, ends
  <2>2. CASE save_fails
    BY <2>2, <1>h, CopiesRest DEF save_fails
  <2>3. CASE step_fund(FALSE)
    <3>1. th'["cli"] = th["cli"] /\ th'["wizard"].pc = "transfer"
      BY <2>3, <1>h DEF step_fund
    <3> QED
      BY <3>1, <1>h DEF CopySteps, CopyStep
  <2>4. ASSUME NEW torn \in BOOLEAN, kill(torn)
        PROVE  CopySteps
    BY <2>4, <1>h, CopiesRest DEF kill
  <2> QED
    BY <1>5, <1>u, <2>1, <2>2, <2>3, <2>4 DEF Faults, evict, disk, ui, chain, counts
<1>6. CASE Chain \/ finish_sends
  <2> QED
    BY <1>6, <1>u DEF Chain, execute, deposit, other_registers, finish_sends, disk, ui, chain, counts
<1> QED
  BY <1>1, <1>2, <1>3, <1>4, <1>5, <1>6 DEF Next, Cli, Wizard, Threads

(* What the node takes for the new account, and what becomes of it.          *)
MemberSteps ==
  /\ \/ mempool'["new"] \in {mempool["new"], NoTx}
     \/ mempool'["new"] = deploy_tx /\ runner.pc = "Deploy"
     \/ \E t \in Threads : mempool'["new"] = register_tx(t) /\ th[t].pc = "reg_submit" /\ UNCHANGED keys
  /\ deployed' => deployed \/ mempool["new"] # NoTx
  /\ \/ UNCHANGED <<users, account_id>>
     \/ /\ UNCHANGED <<account_id, keys, config>>
        /\ \E h \in Handles : users[h] = NoOne /\ users' = [users EXCEPT ![h] = Other]
     \/ /\ Registering /\ UNCHANGED <<keys, config>>
        /\ account_id' = mempool["new"].id /\ users[mempool["new"].handle] = NoOne
        /\ users' = [users EXCEPT ![mempool["new"].handle] = mempool["new"].id]

(* The pool learns only what a pending registration names.                  *)
LEMMA MemberStepsHold ==
  ASSUME Typed, Payable, Next
  PROVE  MemberSteps
<1>h. ChainTyped /\ Payable /\ mempool \in [{"source", "new"} -> Tx \cup {NoTx}]
  BY DEF Typed, ChainTyped, AccountsOf
<1>u. ASSUME UNCHANGED <<mempool, deployed, users, account_id>>
      PROVE  MemberSteps
  BY <1>u DEF MemberSteps
<1>1. CASE Wizard /\ ~Register("wizard")
  <2>1. CASE transfer
    <3>1. mempool' = [mempool EXCEPT !["source"] = transfer_tx] /\ UNCHANGED <<deployed, users, account_id>>
      BY <2>1 DEF transfer, submit
    <3>2. mempool'["new"] = mempool["new"]
      BY <3>1, <1>h
    <3> QED
      BY <3>1, <3>2 DEF MemberSteps
  <2>2. CASE step_deploy
    <3>1. CASE deployed
      BY <2>2, <3>1, <1>u DEF step_deploy, chain
    <3>2. CASE ~deployed
      <4>1. /\ mempool' = [mempool EXCEPT !["new"] = deploy_tx] /\ UNCHANGED <<deployed, users, account_id>>
            /\ runner.pc = "Deploy"
        BY <2>2, <3>2 DEF step_deploy, submit, at, runner
      <4>2. mempool'["new"] = deploy_tx
        BY <4>1, <1>h
      <4> QED
        BY <4>1, <4>2 DEF MemberSteps
    <3> QED
      BY <3>1, <3>2
  <2> QED
    BY <1>1, <1>u, <2>1, <2>2 DEF Wizard, run_step, mark_done, step_create, park, already_funded, step_fund, transfer_receipt, deploy_receipt, save_new_keys, save_new_config, already_initialized, step_init, disk, ui, chain, counts
<1>2. ASSUME NEW t \in Threads, Register(t)
      PROVE  MemberSteps
  <2>1. CASE submit_register(t)
    <3>1. /\ mempool' = [mempool EXCEPT !["new"] = register_tx(t)] /\ UNCHANGED <<deployed, users, account_id, keys>>
          /\ th[t].pc = "reg_submit"
      BY <2>1 DEF submit_register, submit, at, disk
    <3>2. mempool'["new"] = register_tx(t)
      BY <3>1, <1>h
    <3> QED
      BY <3>1, <3>2 DEF MemberSteps
  <2> QED
    BY <1>2, <1>u, <2>1 DEF Register, register, ensure_kem_seed, ensure_register_keys, get_user, register_receipt, record_registration, run_refused, ends, disk, ui, chain, counts
<1>3. CASE Cli /\ ~Register("cli")
  <2> QED
    BY <1>3, <1>u DEF Cli, start_cli, migrate_keys, migrate_config, migrate_leftovers, disk, ui, chain, counts
<1>4. CASE Window
  <2> QED
    BY <1>4, <1>u DEF Window, new_profile, resume, dismiss, close, confirm, request_resume, create, poll, spawn, disk, ui, chain, counts
<1>5. CASE Faults
  <2>1. ASSUME NEW a \in AccountsOf, evict(a)
        PROVE  MemberSteps
    <3>1. mempool' = [mempool EXCEPT ![a] = NoTx] /\ UNCHANGED <<deployed, users, account_id>>
      BY <2>1 DEF evict
    <3>2. mempool'["new"] \in {mempool["new"], NoTx}
      BY <3>1, <1>h DEF AccountsOf
    <3> QED
      BY <3>1, <3>2 DEF MemberSteps
  <2> QED
    BY <1>5, <1>u, <2>1 DEF Faults, run_fails, save_fails, step_fund, kill, ends, disk, ui, chain, counts
<1>6. CASE Chain \/ finish_sends
  <2>1. ASSUME NEW a \in AccountsOf, NEW ok \in BOOLEAN, execute(a, ok)
        PROVE  MemberSteps
    <3>1. /\ mempool[a] \in Tx /\ mempool' = [mempool EXCEPT ![a] = NoTx]
          /\ deployed' = (deployed \/ mempool[a].kind = "deploy")
          /\ \/ UNCHANGED <<users, account_id>>
             \/ /\ mempool[a].kind = "register" /\ users[mempool[a].handle] = NoOne
                /\ users' = [users EXCEPT ![mempool[a].handle] = mempool[a].id]
                /\ account_id' = mempool[a].id
      BY <2>1, <1>h, Executed
    <3>2. mempool'["new"] \in {mempool["new"], NoTx}
      BY <3>1, <1>h DEF AccountsOf
    <3>3. UNCHANGED <<keys, config>> /\ mempool[a] # NoTx
      BY <2>1 DEF execute, disk
    <3>4. a = "source" => mempool[a].kind = "transfer"
      BY <3>3, <1>h DEF Payable, transfer_tx
    <3>5. deployed' => deployed \/ mempool["new"] # NoTx
      BY <3>1, <3>3, <3>4 DEF AccountsOf
    <3>6. \/ UNCHANGED <<users, account_id>>
          \/ /\ Registering /\ users[mempool["new"].handle] = NoOne
             /\ users' = [users EXCEPT ![mempool["new"].handle] = mempool["new"].id]
             /\ account_id' = mempool["new"].id
      BY <3>1, <3>3, <3>4 DEF AccountsOf, Registering
    <3> QED
      BY <3>2, <3>3, <3>5, <3>6 DEF MemberSteps
  <2>2. CASE deposit
    BY <2>2 DEF deposit, MemberSteps
  <2>3. ASSUME NEW h \in Contested, other_registers(h)
        PROVE  MemberSteps
    <3>1. /\ h \in Handles /\ users[h] = NoOne /\ users' = [users EXCEPT ![h] = Other]
          /\ UNCHANGED <<mempool, deployed, account_id, keys, config>>
      BY <2>3, SetupAssumption DEF other_registers, disk
    <3> QED
      BY <3>1 DEF MemberSteps
  <2> QED
    BY <1>6, <1>u, <2>1, <2>2, <2>3 DEF Chain, finish_sends, disk, ui, chain, counts
<1> QED
  BY <1>1, <1>2, <1>3, <1>4, <1>5, <1>6 DEF Next, Cli, Wizard, Threads

(* The wizard opens on a setup under way, or where there is no profile.      *)
Opening == ~wiz.open /\ wiz'.open => UNCHANGED <<keys, config>> /\ (file # NoFile \/ ~dir_exists)

(* A wizard opens only on a profile with a checkpoint, or with nothing yet.  *)
LEMMA OpeningHolds ==
  ASSUME Typed, Shown, Next
  PROVE  Opening
<1>h. wiz \in WizardState /\ (wiz.confirm \/ wiz.rx => wiz.open)
  BY DEF Typed, WindowTyped, Shown
<1>u. ASSUME UNCHANGED <<wiz>>
      PROVE  Opening
  BY <1>u DEF Opening
<1>1. CASE Wizard /\ ~Register("wizard")
  <2> QED
    BY <1>1, <1>u DEF Wizard, run_step, mark_done, step_create, park, already_funded, step_fund, transfer, transfer_receipt, step_deploy, deploy_receipt, save_new_keys, save_new_config, already_initialized, step_init, submit, disk, ui, chain, counts
<1>2. ASSUME NEW t \in Threads, Register(t)
      PROVE  Opening
  <2> QED
    BY <1>2, <1>u DEF Register, register, ensure_kem_seed, ensure_register_keys, get_user, submit_register, register_receipt, record_registration, run_refused, ends, submit, disk, ui, chain, counts
<1>3. CASE Cli /\ ~Register("cli")
  <2> QED
    BY <1>3, <1>u DEF Cli, start_cli, migrate_keys, migrate_config, migrate_leftovers, disk, ui, chain, counts
<1>4. CASE Window
  <2>1. ASSUME NEW mode \in Modes, new_profile(mode)
        PROVE  Opening
    BY <2>1 DEF new_profile, disk, Opening
  <2>2. CASE resume
    BY <2>2 DEF resume, disk, Opening
  <2>3. CASE dismiss
    BY <2>3, <1>h DEF dismiss, WizardState, Opening
  <2>4. CASE close
    BY <2>4 DEF close, Opening
  <2>5. CASE confirm
    BY <2>5, <1>h DEF confirm, Opening
  <2>6. CASE request_resume
    BY <2>6, <1>h DEF request_resume, Opening
  <2>7. CASE create
    BY <2>7, <1>h DEF create, Opening
  <2>8. CASE poll
    BY <2>8, <1>h DEF poll, Opening
  <2> QED
    BY <1>4, <1>u, <2>1, <2>2, <2>3, <2>4, <2>5, <2>6, <2>7, <2>8 DEF Window, disk, ui, chain, counts
<1>5. CASE Faults
  <2>1. ASSUME NEW torn \in BOOLEAN, kill(torn)
        PROVE  Opening
    BY <2>1 DEF kill, Closed, Opening
  <2> QED
    BY <1>5, <1>u, <2>1 DEF Faults, run_fails, save_fails, step_fund, evict, ends, disk, ui, chain, counts
<1>6. CASE Chain \/ finish_sends
  <2> QED
    BY <1>6, <1>u DEF Chain, execute, deposit, other_registers, finish_sends, disk, ui, chain, counts
<1> QED
  BY <1>1, <1>2, <1>3, <1>4, <1>5, <1>6 DEF Next, Cli, Wizard, Threads

(* What no step undoes: the keys and the config are there, and the profile   *)
(* is on the v4 pool.                                                        *)
LEMMA Lasting ==
  ASSUME Inv, Next
  PROVE  /\ keys # NoKeys => keys' # NoKeys
         /\ config # NoConfig => config' # NoConfig
         /\ OnV4 => OnV4'
         /\ OldStore' => OldStore
<1>1. KeysSteps /\ ConfigSteps /\ Kept /\ DiskTyped'
  BY KeysStepsHold, ConfigStepsHold, TypedStays DEF Inv, Typed
<1>2. keys # NoKeys => keys' # NoKeys
  <2>1. \A k : Drawn(k) => k \in Keys
    BY DEF Drawn
  <2>2. \A k, l : Filled(k, l) => l \in Keys
    BY DEF Filled
  <2>3. ASSUME NEW t \in Threads, th[t].pc = "record",
               keys' = [th[t].keys EXCEPT !.handle = th[t].handle]
        PROVE  keys' # NoKeys
    <3>1. th[t].keys \in Keys /\ th[t].handle \in Handles \cup {NoOne}
      BY <1>1, <2>3, Nothing DEF Kept, Copying, Complete, Inv, Typed, Run
    <3>2. keys' \in Keys
      BY <2>3, <3>1 DEF Keys
    <3> QED
      BY <3>2, Nothing
  <2> QED
    BY <1>1, <2>1, <2>2, <2>3, Nothing DEF KeysSteps
<1>3. /\ config # NoConfig => config' # NoConfig
      /\ OnV4 => OnV4'
      /\ OldStore' => OldStore
  BY <1>1, Nothing DEF ConfigSteps, OnV4, OldStore
<1> QED
  BY <1>2, <1>3

(* Nothing after the funding happens before it is saved.                    *)
LEMMA OrderedStays ==
  ASSUME Inv, Next
  PROVE  Ordered'
<1>1. /\ FileSteps /\ KeysSteps /\ ConfigSteps /\ MemberSteps /\ Opening /\ (lost => lost')
      /\ Ordered /\ Kept /\ Placed /\ Typed
  BY FileStepsHold, KeysStepsHold, ConfigStepsHold, MemberStepsHold, OpeningHolds, Going DEF Inv, Funded
<1> DEFINE Past == file \in SetupState /\ 2 <= file.done
<1>2. running /\ runner.pc \in {"Deploy", "Init", "init_config"} => Past
  BY <1>1 DEF Placed, InStage, Holding, Copying, Complete, SetupState
<1>3. \A t \in Threads : th[t].pc \in Holding => PastFunding
  BY <1>1 DEF Kept, PastFunding
<1>4. keys' # NoKeys => PastFunding \/ Past
  BY <1>1, <1>2, <1>3 DEF KeysSteps, PastFunding, OldStore, running, Holding, Copying, Complete
<1>5. config' # NoConfig => PastFunding \/ Past
  BY <1>1, <1>2 DEF ConfigSteps, PastFunding, OldStore, running, Kept
<1>6. mempool'["new"] # NoTx => PastFunding \/ Past
  BY <1>1, <1>2, <1>3 DEF MemberSteps, PastFunding, running, Holding, Copying, Complete
<1>7. PastFunding' => PastFunding \/ Past
  BY <1>1, <1>4, <1>5, <1>6 DEF MemberSteps, PastFunding
<1>8. Past /\ ~lost' => file' \in SetupState /\ 2 <= file'.done
  BY <1>1, Nothing DEF FileSteps, SetupState
<1>9. Elsewhere /\ ~lost' => Elsewhere'
  <2>1. Elsewhere /\ ~lost' => file' = NoFile
    BY <1>1, Nothing DEF Elsewhere, FileSteps
  <2>2. Elsewhere => keys' # NoKeys /\ ~wiz'.open
    BY <1>1, Lasting DEF Elsewhere, Opening, dir_exists, Typed, WindowTyped, WizardState
  <2> QED
    BY <2>1, <2>2 DEF Elsewhere
<1> QED
  BY <1>1, <1>7, <1>8, <1>9 DEF Ordered

(* The identity on disk is never replaced once it is complete, but by the    *)
(* migration of a profile no pool of this version knows.                    *)
LEMMA HeldStays ==
  ASSUME Inv, Next, keys # NoKeys, Full(keys.id), ~OldStore
  PROVE  keys' # NoKeys /\ keys'.id = keys.id
<1>1. KeysSteps /\ Kept /\ keys' # NoKeys /\ th \in [Threads -> Run]
  BY KeysStepsHold, Lasting DEF Inv, Typed
<1>2. ASSUME NEW t \in Threads, th[t].pc \in Copying
      PROVE  th[t].keys \in Keys /\ th[t].keys.id = keys.id
  BY <1>1, <1>2 DEF Kept, Run
<1>3. ASSUME NEW t \in Threads, th[t].pc = "record", keys' = [th[t].keys EXCEPT !.handle = th[t].handle]
      PROVE  keys'.id = keys.id
  BY <1>2, <1>3 DEF Keys, Copying, Complete
<1>4. \A t \in Threads : th[t].pc = "secret" => ~Filled(th[t].keys, keys')
  BY <1>2 DEF Filled, Copying
<1> QED
  BY <1>1, <1>3, <1>4 DEF KeysSteps, Filled

(* The keys that the pool holds, or may learn, stay on disk.                *)
LEMMA KeptStays ==
  ASSUME Inv, Next
  PROVE  Kept'
<1>1. /\ FileSteps /\ RunnerSteps /\ KeysSteps /\ ConfigSteps /\ CopySteps /\ MemberSteps /\ Opening
      /\ Kept /\ Typed /\ th \in [Threads -> Run] /\ wiz \in WizardState /\ wiz' \in WizardState
      /\ users \in [Handles -> Ident \cup {NoOne, Other}]
      /\ {"wizard", "cli"} = Threads
  BY FileStepsHold, RunnerStepsHold, KeysStepsHold, ConfigStepsHold, CopyStepsHold, MemberStepsHold,
     OpeningHolds, WindowTypedStays DEF Inv, Funded, Typed, WindowTyped, ChainTyped, Threads
<1>2. /\ keys # NoKeys => keys' # NoKeys
      /\ config # NoConfig => config' # NoConfig
      /\ OnV4 => OnV4'
      /\ OldStore' => OldStore
  BY Lasting
<1>3. keys # NoKeys /\ Full(keys.id) /\ ~OldStore => keys' # NoKeys /\ keys'.id = keys.id
  BY HeldStays
<1>4. /\ \A t \in Threads : th[t].pc \in Holding => keys \in Keys /\ OnV4 /\ ~OldStore
      /\ \A t \in Threads : th[t].pc \in Copying =>
           th[t].keys \in Keys /\ th[t].keys.id = keys.id /\ keys.id.kem_seed # 0
      /\ \A t \in Threads : th[t].pc \in Complete => Full(keys.id)
      /\ keys \in Keys \cup {NoKeys}
  BY <1>1 DEF Kept, Typed, DiskTyped, Run, Holding, Copying, OnV4, OldStore
<1>5. running' \/ wiz'.open \/ file' # NoFile =>
        running \/ wiz.open \/ file # NoFile \/ (~dir_exists /\ UNCHANGED <<keys, config>>)
  <2>1. running' => running \/ wiz.open
    BY <1>1 DEF RunnerSteps, GoesOn, Marks, Begins, running
  <2>2. file' # NoFile => file # NoFile \/ running \/ wiz.open
    BY <1>1, Nothing DEF FileSteps
  <2>3. wiz'.open => wiz.open \/ file # NoFile \/ (~dir_exists /\ UNCHANGED <<keys, config>>)
    BY <1>1 DEF Opening, WizardState
  <2> QED
    BY <2>1, <2>2, <2>3
<1>6. \A t \in Threads :
        /\ th'[t].pc \in Holding => keys' # NoKeys /\ OnV4'
        /\ th'[t].pc \in Copying => th'[t].keys # NoKeys /\ th'[t].keys.id = keys'.id /\ keys'.id.kem_seed # 0
        /\ th'[t].pc \in Complete => Full(keys'.id)
  <2> SUFFICES ASSUME NEW t \in Threads
               PROVE  /\ th'[t].pc \in Holding => keys' # NoKeys /\ OnV4'
                      /\ th'[t].pc \in Copying =>
                           th'[t].keys # NoKeys /\ th'[t].keys.id = keys'.id /\ keys'.id.kem_seed # 0
                      /\ th'[t].pc \in Complete => Full(keys'.id)
    OBVIOUS
  <2>0. /\ Complete \subseteq Copying /\ Copying \subseteq Holding /\ "idle" \notin Holding
        /\ "seed" \in Holding \ Copying /\ "secret" \in Copying \ Complete /\ "get_user" \in Complete
        /\ "init_config" \notin Holding /\ "mig_config" \notin Holding
    BY DEF Holding, Copying, Complete
  <2>1. CASE UNCHANGED th[t]
    <3>1. th'[t].pc \in Holding => keys' # NoKeys /\ OnV4'
      BY <2>1, <1>2, <1>4, Nothing
    <3>2. ASSUME th[t].pc \in Copying
          PROVE  keys'.id = keys.id
      <4>1. keys \in Keys /\ ~OldStore /\ th[t].keys.id = keys.id
        BY <3>2, <2>0, <1>4
      <4>2. CASE Full(keys.id)
        BY <4>1, <4>2, <1>3, Nothing
      <4>3. CASE ~Full(keys.id)
        <5>0. ~running
          BY <4>1, <4>3, <1>1, Nothing DEF Kept
        <5>1. th["wizard"].pc = "idle" /\ t # "wizard"
          BY <5>0, <3>2, <2>0 DEF running, runner
        <5>2. \A u \in Threads : th[u].pc \in Holding => u = t
          BY <5>1, <2>0, <1>1
        <5>3. \A u \in Threads : th[u].pc \in {"seed", "secret"} => th'[u].pc = th[u].pc
          BY <5>2, <2>0, <2>1 DEF Copying
        <5>4. \A u \in Threads : th[u].pc # "record"
          BY <4>3, <1>4 DEF Complete
        <5>5. UNCHANGED keys
          BY <4>1, <5>3, <5>4, <1>1, Nothing DEF KeysSteps
        <5> QED
          BY <5>5
      <4> QED
        BY <4>2, <4>3
    <3> QED
      BY <2>1, <3>1, <3>2, <2>0, <1>4, Nothing
  <2>2. CASE th'[t].pc \notin Marked
    BY <2>0, <2>2 DEF Marked
  <2>3. CASE th'[t].pc \in {"init_config", "mig_config"}
    BY <2>0, <2>3
  <2>4. CASE th'[t].pc = "seed" /\ keys # NoKeys /\ OnV4 /\ UNCHANGED keys
    BY <2>0, <2>4, <1>2
  <2>5. CASE th[t].pc = "seed" /\ th'[t].pc = "secret" /\ th'[t].keys = keys' /\ keys'.id.kem_seed # 0
    BY <2>0, <2>5, <1>2, <1>4, Nothing
  <2>6. CASE /\ th[t].pc = "secret" /\ th'[t].pc = "get_user" /\ th'[t].keys \in Keys /\ th'[t].keys.id = keys'.id
             /\ keys'.id.kem_seed # 0 /\ keys'.id.member_secret # 0
    BY <2>0, <2>6, <1>2, <1>4, Nothing DEF Full
  <2>7. CASE th[t].pc \in Complete /\ th'[t].pc \in Complete /\ th'[t].keys = th[t].keys /\ UNCHANGED keys
    BY <2>0, <2>7, <1>2, <1>4, Nothing
  <2> QED
    BY <1>1, <2>1, <2>2, <2>3, <2>4, <2>5, <2>6, <2>7 DEF CopySteps, CopyStep
<1>7. file' # NoFile \/ wiz'.open \/ running' => keys' = NoKeys \/ Full(keys'.id)
  <2> SUFFICES ASSUME file' # NoFile \/ wiz'.open \/ running'
               PROVE  keys' = NoKeys \/ Full(keys'.id)
    OBVIOUS
  <2>1. CASE ~dir_exists /\ UNCHANGED <<keys, config>>
    BY <2>1 DEF dir_exists
  <2>2. CASE running \/ wiz.open \/ file # NoFile
    <3>1. (keys = NoKeys \/ Full(keys.id)) /\ ~OldStore
      BY <2>2, <1>1 DEF Kept
    <3>2. CASE keys = NoKeys
      <4>1. \A u \in Threads : th[u].pc \notin Holding
        BY <3>2, <1>4, Nothing
      <4>2. keys' = NoKeys \/ Drawn(keys')
        BY <3>1, <3>2, <4>1, <1>1 DEF KeysSteps, Holding, Copying, Complete
      <4> QED
        BY <4>2 DEF Drawn
    <3>3. CASE keys # NoKeys
      BY <3>1, <3>3, <1>3
    <3> QED
      BY <3>2, <3>3
  <2> QED
    BY <1>5, <2>1, <2>2
<1>8. OldStore' =>
        /\ file' = NoFile /\ ~wiz'.open /\ ~running'
        /\ account_id' = NoOne /\ mempool'["new"] = NoTx
  <2> SUFFICES ASSUME OldStore
               PROVE  /\ file' = NoFile /\ ~wiz'.open /\ ~running'
                      /\ account_id' = NoOne /\ mempool'["new"] = NoTx
    BY <1>2
  <2>1. /\ file = NoFile /\ ~wiz.open /\ ~running /\ account_id = NoOne /\ mempool["new"] = NoTx
        /\ dir_exists /\ ~Registering
    BY <1>1 DEF Kept, OldStore, dir_exists, Registering
  <2>2. file' = NoFile /\ ~wiz'.open /\ ~running'
    BY <2>1, <1>5
  <2>3. runner.pc # "Deploy" /\ \A t \in Threads : th[t].pc # "reg_submit"
    BY <2>1, <1>4 DEF running, Holding, Copying, Complete
  <2> QED
    BY <2>1, <2>2, <2>3, <1>1 DEF MemberSteps
<1>9. /\ th'["cli"].pc # "idle" => config' # NoConfig
      /\ th'["cli"].pc = "mig_config" =>
           OldStore' /\ keys' # NoKeys /\ keys'.handle = NoOne /\ keys'.id.scan # OldScan
      /\ runner'.pc = "init_config" => keys' # NoKeys
  <2>1. th'["cli"].pc # "idle" => config' # NoConfig
    BY <1>1, <1>2 DEF CopySteps, Kept
  <2>2. runner'.pc = "init_config" => keys' # NoKeys
    <3>1. CopyStep("wizard")
      BY <1>1 DEF CopySteps
    <3> QED
      BY <3>1, <1>1, <1>2 DEF CopyStep, runner, Kept, Marked, Complete
  <2>3. ASSUME th'["cli"].pc = "mig_config"
        PROVE  OldStore' /\ keys' # NoKeys /\ keys'.handle = NoOne /\ keys'.id.scan # OldScan
    <3>1. \/ UNCHANGED th["cli"]
          \/ OldStore /\ Drawn(keys') /\ UNCHANGED config
      BY <2>3, <1>1 DEF CopySteps, CopyStep, Marked, Complete
    <3>2. CASE OldStore /\ Drawn(keys') /\ UNCHANGED config
      BY <3>2, Nothing DEF Drawn, OldStore
    <3>3. CASE UNCHANGED th["cli"]
      <4>1. /\ OldStore /\ keys # NoKeys /\ keys.handle = NoOne /\ keys.id.scan # OldScan /\ ~running
            /\ th["cli"].pc = "mig_config"
        BY <2>3, <3>3, <1>1 DEF Kept
      <4>2. UNCHANGED keys
        BY <4>1, <1>1, <1>4 DEF KeysSteps, running, Holding, Copying, Complete
      <4>3. UNCHANGED config
        BY <2>3, <4>1, <1>1 DEF ConfigSteps, running
      <4> QED
        BY <4>1, <4>2, <4>3 DEF OldStore
    <3> QED
      BY <3>1, <3>2, <3>3
  <2> QED
    BY <2>1, <2>2, <2>3
<1>10. keys' # NoKeys /\ ~OldStore' => keys'.id.scan # OldScan
  <2> SUFFICES ASSUME keys' # NoKeys, ~OldStore'
               PROVE  keys'.id.scan # OldScan
    OBVIOUS
  <2>1. CASE Drawn(keys')
    BY <2>1 DEF Drawn
  <2>2. CASE ~Drawn(keys')
    <3>1. keys \in Keys => keys'.id.scan = keys.id.scan
      BY <2>2, <1>1, <1>4 DEF KeysSteps, Filled, Keys, Ident, Copying, Complete
    <3>2. keys \in Keys
      BY <2>2, <1>1, <1>4 DEF KeysSteps, Holding, Copying, Complete
    <3>3. OldStore => th["cli"].pc = "mig_config"
      BY <1>1 DEF ConfigSteps, OldStore, Kept, running
    <3> QED
      BY <3>1, <3>2, <3>3, <1>1, Nothing DEF Kept
  <2> QED
    BY <2>1, <2>2
<1>11. keys' # NoKeys /\ config' = NoConfig => keys'.handle = NoOne
  <2> SUFFICES ASSUME keys' # NoKeys, config' = NoConfig
               PROVE  keys'.handle = NoOne
    OBVIOUS
  <2>1. config = NoConfig /\ ~OldStore /\ \A t \in Threads : th[t].pc \notin Holding
    BY <1>2, <1>4 DEF OnV4, OldStore
  <2>2. UNCHANGED keys \/ Drawn(keys')
    BY <2>1, <1>1 DEF KeysSteps, Holding, Copying, Complete
  <2> QED
    BY <2>1, <2>2, <1>1 DEF Kept, Drawn
<1>12. keys' # NoKeys /\ keys'.handle # NoOne /\ OnV4' => users'[keys'.handle] = keys'.id
  <2> SUFFICES ASSUME keys' # NoKeys, keys'.handle # NoOne, OnV4'
               PROVE  users'[keys'.handle] = keys'.id
    OBVIOUS
  <2>1. keys' \in Keys /\ keys'.handle \in Handles /\ keys'.id \in Ident
    <3>1. keys' \in Keys
      BY DiskStays DEF Inv, DiskTyped
    <3> QED
      BY <3>1 DEF Keys
  <2>2. users[keys'.handle] = keys'.id
    <3>1. CASE UNCHANGED keys
      <4>1. keys # NoKeys /\ keys.handle # NoOne
        BY <3>1
      <4>2. OnV4
        <5>1. keys # NoKeys /\ config = NoConfig => keys.handle = NoOne
          BY <1>1 DEF Kept
        <5>2. OldStore => ~running /\ runner.pc # "init_config"
          BY <1>1 DEF Kept, running
        <5>3. th["cli"].pc = "mig_config" => keys.handle = NoOne
          BY <1>1 DEF Kept
        <5>4. config \in Config \cup {NoConfig} /\ (OnV4 \/ OldStore \/ config = NoConfig)
          BY <1>1, Nothing DEF Typed, DiskTyped, Config, OnV4, OldStore
        <5> QED
          BY <4>1, <5>1, <5>2, <5>3, <5>4, <1>1 DEF ConfigSteps, OnV4, OldStore
      <4> QED
        BY <3>1, <4>1, <4>2, <1>1 DEF Kept
    <3>2. CASE ~UNCHANGED keys
      <4>1. PICK t \in Threads : /\ th[t].pc = "record" /\ users[th[t].handle] = th[t].keys.id
                                 /\ keys' = [th[t].keys EXCEPT !.handle = th[t].handle]
        BY <3>2, <1>1 DEF KeysSteps, Drawn, Filled
      <4>2. keys'.id = th[t].keys.id /\ keys'.handle = th[t].handle
        BY <4>1, <1>4 DEF Keys, Copying, Complete
      <4> QED
        BY <4>1, <4>2
    <3> QED
      BY <3>1, <3>2
  <2>3. users'[keys'.handle] = users[keys'.handle]
    BY <2>1, <2>2, <1>1, Nothing DEF MemberSteps
  <2> QED
    BY <2>2, <2>3
<1>13. account_id' # NoOne => Held(account_id)'
  <2> SUFFICES ASSUME account_id' # NoOne
               PROVE  Held(account_id)'
    OBVIOUS
  <2>1. PICK id : id = account_id' /\ Held(id) /\ ~OldStore
    BY <1>1 DEF MemberSteps, Kept, Registering
  <2> QED
    BY <2>1, <1>3 DEF Held
<1>14. Registering' => Held(mempool["new"].id)'
  <2> SUFFICES ASSUME Registering'
               PROVE  Held(mempool["new"].id)'
    OBVIOUS
  <2>1. CASE mempool'["new"] = mempool["new"]
    <3>1. Held(mempool["new"].id) /\ ~OldStore
      BY <2>1, <1>1 DEF Kept, Registering
    <3> QED
      BY <2>1, <3>1, <1>3 DEF Held
  <2>2. ASSUME NEW t \in Threads, mempool'["new"] = register_tx(t), th[t].pc = "reg_submit", UNCHANGED keys
        PROVE  Held(mempool["new"].id)'
    <3>1. keys \in Keys /\ th[t].keys.id = keys.id /\ Full(keys.id)
      BY <2>2, <1>4 DEF Holding, Copying, Complete
    <3> QED
      BY <2>2, <3>1, Nothing DEF Held, register_tx
  <2> QED
    BY <2>1, <2>2, <1>1 DEF MemberSteps, Registering, deploy_tx
<1> QED
  BY <1>6, <1>7, <1>8, <1>9, <1>10, <1>11, <1>12, <1>13, <1>14 DEF Kept

-----------------------------------------------------------------------------
(* Inv holds in each profile a setup may start from.                        *)
LEMMA InvAtInit ==
  ASSUME Init
  PROVE  Inv
<1>1. PICK start \in Starts, sends \in SUBSET {"sends"} :
        /\ keys = (IF start = "fresh" THEN NoKeys
                   ELSE IF start = "v4" THEN [id |-> BareIdent(2), handle |-> NoOne]
                   ELSE [id |-> BareIdent(OldScan), handle |-> OtherHandle])
        /\ config = (IF start = "fresh" THEN NoConfig ELSE [store |-> start, burner |-> FALSE])
        /\ leftovers = (IF start = "old" THEN {"caches", "tickets"} \cup sends ELSE {})
        /\ minted = (IF start = "v4" THEN 2 ELSE OldScan)
        /\ deployed = (start # "fresh") /\ accounts = (start # "fresh")
  BY DEF Init
<1>2. start \in {"fresh", "v4", "old"}
  BY SetupAssumption
<1>3. /\ file = NoFile /\ events = <<>> /\ balance = 0 /\ account_id = NoOne
      /\ th = [t \in Threads |-> Idle] /\ wiz = Closed
      /\ nonce = [a \in AccountsOf |-> 0] /\ mempool = [a \in AccountsOf |-> NoTx]
      /\ outcome = [a \in AccountsOf |-> <<>>]
      /\ users = [h \in Handles |-> NoOne] /\ trouble = 0 /\ slips = 0 /\ lost = FALSE
  BY DEF Init
<1>4. BareIdent(2) \in Ident /\ BareIdent(OldScan) \in Ident
      /\ BareIdent(2).scan # OldScan
  BY Plan DEF BareIdent, Ident, OldScan
<1>5. /\ start = "fresh" => keys = NoKeys /\ config = NoConfig
      /\ start # "fresh" => keys \in Keys /\ config \in Config
  BY <1>1, <1>2, <1>4 DEF Keys, Config, Handles
<1>6. DiskTyped
  <2>1. leftovers \subseteq {"sends", "caches", "tickets"} /\ accounts \in BOOLEAN
    BY <1>1
  <2>2. minted \in Secret /\ OldScan <= minted
    BY <1>1, Plan DEF OldScan
  <2> QED
    BY <1>3, <1>5, <2>1, <2>2 DEF DiskTyped
<1>7. WindowTyped
  BY <1>3 DEF WindowTyped, WizardState, Closed
<1>8. ChainTyped
  <2>1. \A a \in AccountsOf : nonce[a] = 0 /\ mempool[a] = NoTx /\ outcome[a] = <<>> /\ Len(outcome[a]) = 0
    BY <1>3
  <2>2. /\ nonce \in [AccountsOf -> 0..MaxNonce] /\ mempool \in [AccountsOf -> Tx \cup {NoTx}]
        /\ outcome \in [AccountsOf -> Seq({"SUCCEEDED", "REVERTED"})]
    BY <1>3, SetupAssumption
  <2>3. deployed \in BOOLEAN /\ users \in [Handles -> Ident \cup {NoOne, Other}]
    BY <1>1, <1>3
  <2> QED
    BY <1>3, <2>1, <2>2, <2>3 DEF ChainTyped
<1>9. th \in [Threads -> Run] /\ \A t \in Threads : th[t].pc = "idle"
  BY <1>3 DEF Run, Idle, Pcs
<1>10. Typed
  BY <1>3, <1>6, <1>7, <1>8, <1>9 DEF Typed
<1>11. ~running /\ ~wiz.open /\ ~wiz.confirm /\ ~wiz.rx /\ wiz.flow = NoFlow /\ runner.pc = "idle"
  BY <1>3, <1>9 DEF running, runner, Threads, Closed
<1>12. Placed /\ Shown
  BY <1>3, <1>11, Nothing DEF Placed, Shown, Claims
<1>13. Funded
  <2>1. mempool["source"] = NoTx /\ mempool["new"] = NoTx /\ nonce["source"] = 0
    BY <1>3 DEF AccountsOf
  <2>2. Transfers = 0
    <3>1. {n \in 1..nonce["source"] : outcome["source"][n] = "SUCCEEDED"} = {}
      BY <2>1
    <3> QED
      BY <3>1, FS_EmptySet DEF Transfers
  <2>3. deployed \/ keys # NoKeys \/ config # NoConfig => keys # NoKeys
    BY <1>1, <1>5, Nothing
  <2> QED
    BY <1>3, <1>11, <2>1, <2>2, <2>3
    DEF Funded, Payable, Spent, Waiting, Covered, Asked, Ordered, PastFunding, Elsewhere
<1>14. Kept
  <2>1. \A t \in Threads : th[t].pc \notin Holding /\ th[t].pc \notin Copying /\ th[t].pc \notin Complete
    BY <1>9 DEF Holding, Copying, Complete
  <2>2. OldStore => start = "old"
    BY <1>1, <1>2, Nothing DEF OldStore
  <2>3. OnV4 => start = "v4"
    BY <1>1, <1>2 DEF OnV4
  <2>4. mempool["new"] = NoTx /\ account_id = NoOne
    BY <1>3 DEF AccountsOf
  <2>5. keys # NoKeys /\ ~OldStore => keys.id.scan # OldScan /\ keys.handle = NoOne
    <3>1. start = "old" => OldStore
      BY <1>1, <1>5, Nothing DEF OldStore
    <3> QED
      BY <3>1, <1>1, <1>2, <1>4
  <2>6. OnV4 => ~OldStore
    BY DEF OnV4, OldStore
  <2>7. config = NoConfig => ~OldStore
    BY DEF OldStore
  <2> QED
    BY <2>1, <2>4, <2>5, <2>6, <2>7, <1>3, <1>9, <1>11 DEF Kept, Registering, Threads
<1> QED
  BY <1>10, <1>12, <1>13, <1>14 DEF Inv

(* Inv reads only the variables.                                            *)
LEMMA InvStutters ==
  ASSUME Inv, UNCHANGED vars
  PROVE  Inv'
<1>1. UNCHANGED <<file, accounts, keys, config, leftovers, minted, th, wiz, events, nonce, mempool, outcome,
                  balance, deployed, users, account_id, trouble, slips, lost>>
  BY DEF vars, disk, ui, chain, counts
<1>2. Typed' /\ Placed'
  BY <1>1 DEF Inv, Typed, DiskTyped, WindowTyped, ChainTyped, Placed, running, runner
<1>3. Shown'
  BY <1>1 DEF Inv, Shown, Saved, Claims
<1>4. Funded'
  BY <1>1 DEF Inv, Funded, Payable, Spent, Waiting, Transfers, Covered, Asked, Ordered, PastFunding, Elsewhere, running, runner
<1>5. Kept'
  BY <1>1 DEF Inv, Kept, OnV4, OldStore, Registering, Held, running, runner
<1> QED
  BY <1>2, <1>3, <1>4, <1>5 DEF Inv

(* Inv is an inductive invariant.                                           *)
LEMMA InvHolds == Spec => []Inv
<1>1. Init => Inv
  BY InvAtInit
<1>2. Inv /\ [Next]_vars => Inv'
  <2> SUFFICES ASSUME Inv, [Next]_vars
               PROVE  Inv'
    OBVIOUS
  <2>1. CASE Next
    <3>1. Typed' /\ Placed' /\ Shown' /\ Kept'
      BY <2>1, TypedStays, PlacedStays, ShownStays, KeptStays DEF Inv
    <3>2. Funded'
      BY <2>1, PayableStays, SpentStays, CoveredStays, AskedStays, OrderedStays DEF Inv, Funded
    <3> QED
      BY <3>1, <3>2 DEF Inv
  <2>2. CASE UNCHANGED vars
    BY <2>2, InvStutters
  <2> QED
    BY <2>1, <2>2
<1> QED
  BY <1>1, <1>2, PTL DEF Spec

(* Every variable keeps its type through any mix of the wizard's runs, the   *)
(* command line's commands, kills, errors and late transactions.             *)
THEOREM TypeCorrect == Spec => []TypeOK
<1>1. Inv => TypeOK
  <2> SUFFICES ASSUME Inv
               PROVE  TypeOK
    OBVIOUS
  <2>1. DiskTyped /\ WindowTyped /\ ChainTyped /\ trouble \in Nat /\ slips \in Nat /\ lost \in BOOLEAN
    BY DEF Inv, Typed
  <2>2. minted \in Nat
    BY <2>1, Plan DEF DiskTyped
  <2>3. /\ wiz.flow \in Flow \cup {NoFlow} /\ wiz.open \in BOOLEAN /\ wiz.confirm \in BOOLEAN /\ wiz.rx \in BOOLEAN
    BY <2>1 DEF WindowTyped, WizardState
  <2> QED
    BY <2>1, <2>2, <2>3 DEF TypeOK, DiskTyped, ChainTyped
<1> QED
  BY <1>1, InvHolds, PTL

(* The funds leave the main account once (step_fund of setup.rs, and the     *)
(* confirmation of the wizard): a second transfer needs a balance that could *)
(* not be read, a transfer that landed between the balance and the nonce, or *)
(* a checkpoint lost; and none is made that was not confirmed.               *)
THEOREM FundsLeaveOnce == Spec => []FundedOnce
<1>1. Inv => FundedOnce
  <2> SUFFICES ASSUME Inv, ~lost
               PROVE  /\ Transfers <= 1 + slips
                      /\ runner.pc \in {"transfer", "transfer_wait"} => runner.confirmed
    BY DEF FundedOnce, runner
  <2>1. Transfers <= 1 + slips
    <3>1. Transfers \in Nat /\ slips \in Nat
      BY TransfersCount DEF Inv, Typed
    <3>2. Transfers + Waiting <= 1 + slips /\ Waiting \in {0, 1}
      BY DEF Inv, Funded, Spent, Waiting
    <3> QED
      BY <3>1, <3>2
  <2>2. runner.pc \in {"transfer", "transfer_wait"} => runner.confirmed
    <3>1. runner.pc \in {"transfer", "transfer_wait"} =>
            running /\ runner.st \in SetupState /\ runner.st.done + 1 = 2 /\ runner.st.mode = "Transfer"
      BY DEF Inv, Placed, running, InStage, Holding, Copying, Complete
    <3> QED
      BY <3>1 DEF Inv, Funded, Asked, SetupState
  <2> QED
    BY <2>1, <2>2
<1> QED
  BY <1>1, InvHolds, PTL

(* What the pool holds for the account opens with the keys on disk, and the  *)
(* handle they record is the profile's there (app::register and              *)
(* migrate_store of app.rs, init_identity of setup.rs).                      *)
THEOREM PoolHoldsOurKeys == Spec => []RegisteredIsHeld
<1>1. Inv => RegisteredIsHeld
  BY DEF Inv, Kept, RegisteredIsHeld, Held, OnV4, OldStore
<1> QED
  BY <1>1, InvHolds, PTL
=============================================================================
