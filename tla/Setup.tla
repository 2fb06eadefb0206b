-------------------------------- MODULE Setup --------------------------------
(***************************************************************************)
(* The setup of a profile: the checkpointed pipeline of core/src/setup.rs   *)
(* (create account, fund, deploy, init, register), the wizard of the GUI    *)
(* that runs it in a worker and shows its events (wizard_view.rs,           *)
(* setup_flow.rs), and register and migrate_store of core/src/app.rs, which *)
(* the command line also runs, against the two accounts' nonces and the     *)
(* members of the pool.                                                     *)
(*                                                                         *)
(* Any step may fail with an error, the GUI may be killed between any two,  *)
(* and the user resumes.  One unit of STRK is half the funding: a transfer  *)
(* brings two, deploying and registering cost one in all.                   *)
(***************************************************************************)
EXTENDS Naturals, Sequences, FiniteSets

CONSTANTS
  Handle, OtherHandle,   \* the wizard's handle, and one the command line may register
  Modes,                 \* the funding modes the user picks from
  Contested,             \* the handles somebody else may register
  Starts,                \* how the profile starts: "fresh", "v4" or "old"
  NoFile, Torn, NoKeys, NoConfig, NoFlow, NoOne, Other, NoTx,
  MaxMint,               \* bound on the secrets ever minted
  MaxNonce,              \* bound on each account's transactions
  MaxTrouble             \* bound on errors, kills and commands typed, together

STEPS == <<"CreateAccount", "Fund", "Deploy", "Init", "Register">>
Step == 1..Len(STEPS)
Threads == {"wizard", "cli"}
AccountsOf == {"source", "new"}
Handles == {Handle, OtherHandle}
Secret == 0..MaxMint             \* 0: none
Ident == [scan : Secret, kem_seed : Secret, member_secret : Secret]
Keys == [id : Ident, handle : Handles \cup {NoOne}]
Config == [store : {"v4", "old"}, burner : BOOLEAN]
SetupState == [done : 0..Len(STEPS), address : BOOLEAN, mode : {"Transfer", "External"}]
StepStatus == {"Pending", "Running", "Done", "Failed"}
Flow == [steps : [Step -> StepStatus], awaiting : BOOLEAN]
Tx == [kind : {"transfer", "deploy", "register"}, handle : Handles \cup {NoOne}, id : Ident \cup {NoOne}]

ASSUME SetupAssumption ==
  /\ Modes \subseteq {"Transfer", "External"} /\ Contested \subseteq Handles /\ Starts \subseteq {"fresh", "v4", "old"}
  /\ {MaxMint, MaxNonce, MaxTrouble} \subseteq Nat /\ 2 <= MaxMint   \* what Init draws

ASSUME AbsenceAssumption ==
  /\ NoFile # Torn /\ {NoFile, Torn} \cap SetupState = {}
  /\ NoOne # Other /\ {NoOne, Other} \cap (Ident \cup Handles) = {}
  /\ NoKeys \notin Keys /\ NoConfig \notin Config /\ NoFlow \notin Flow /\ NoTx \notin Tx

VARIABLES
  file,        \* setup.json
  accounts,    \* whether sncast's accounts file holds the new account
  keys,        \* keys.json
  config,      \* config.json
  leftovers,   \* files of the old store in place: incomplete sends, caches, tickets
  minted,      \* how many secrets were drawn
  th,          \* [Threads -> the state of its run]
  wiz,         \* the wizard window
  events,      \* its channel from the worker
  nonce,       \* [AccountsOf -> transactions the chain has executed]
  mempool,     \* [AccountsOf -> the one transaction waiting, or NoTx]
  outcome,     \* [AccountsOf -> the outcome of each executed transaction]
  balance,     \* half fundings on the new account
  deployed,
  users,       \* [Handles -> the member registered on the v4 pool]
  account_id,  \* the identity the new account registered, or NoOne
  trouble,     \* errors, kills and commands typed so far
  slips,       \* history: transfers sent without knowing the balance
  lost         \* history: whether a checkpoint was lost

disk == <<file, accounts, keys, config, leftovers, minted>>
ui == <<wiz, events>>
chain == <<nonce, mempool, outcome, balance, deployed, users, account_id>>
counts == <<trouble, slips, lost>>
vars == <<disk, th, ui, chain, counts>>

-----------------------------------------------------------------------------
(* The runner's memory: its SetupState, the key file register holds, the    *)
(* nonce of the transaction it waits for or saw before it read a balance.   *)
Idle == [pc |-> "idle", st |-> NoFile, keys |-> NoKeys, handle |-> NoOne,
         at |-> 0, confirmed |-> FALSE]
new_plan(mode) == [done |-> 0, address |-> FALSE, mode |-> mode]
next_pending(st) == st.done + 1
at(t, pc) == th[t].pc = pc
goto(t, pc) == th' = [th EXCEPT ![t].pc = pc]
fund_needed_always == TRUE
fund_needed == balance < 2

emit(es) == events' = events \o es
StepStarted(i) == <<[kind |-> "StepStarted", step |-> i]>>
TxSubmitted(i) == <<[kind |-> "TxSubmitted", step |-> i]>>
StepCompleted(i) == <<[kind |-> "StepCompleted", step |-> i]>>
AwaitingDeposit == <<[kind |-> "AwaitingDeposit", step |-> 2]>>
Completed == <<[kind |-> "Completed", step |-> 0]>>
Done(ok) == <<[kind |-> IF ok THEN "Ok" ELSE "Err", step |-> 0]>>

troubled == trouble < MaxTrouble /\ trouble' = trouble + 1

(* The run of t ends with an error, which the wizard's worker reports.      *)
ends(t) ==
  /\ th' = [th EXCEPT ![t] = Idle]
  /\ IF t = "wizard" THEN emit(Done(FALSE)) ELSE UNCHANGED events
  /\ UNCHANGED <<disk, wiz, chain, slips, lost>>

(* account_tx::submit signs for the nonce of the latest block; the node     *)
(* keeps one waiting transaction for each nonce of an account.              *)
can_submit(account, tx) ==
  /\ mempool[account] = NoTx /\ nonce[account] < MaxNonce
  /\ CASE tx.kind = "transfer" -> TRUE
       [] tx.kind = "deploy" -> balance >= 1
       [] tx.kind = "register" -> deployed
submit(t, account, tx, pc) ==
  /\ can_submit(account, tx)
  /\ mempool' = [mempool EXCEPT ![account] = tx]
  /\ th' = [th EXCEPT ![t].pc = pc, ![t].at = nonce[account]]
  /\ UNCHANGED <<nonce, outcome, balance, deployed, users, account_id>>
transfer_tx == [kind |-> "transfer", handle |-> NoOne, id |-> NoOne]
deploy_tx == [kind |-> "deploy", handle |-> NoOne, id |-> NoOne]
register_tx(t) == [kind |-> "register", handle |-> th[t].handle, id |-> th[t].keys.id]

waits_on(t) ==
  IF at(t, "transfer_wait") THEN "source"
  ELSE IF th[t].pc \in {"deploy_wait", "reg_wait"} THEN "new" ELSE NoOne
executed(t) == th[t].at < nonce[waits_on(t)]
succeeded(t) == executed(t) /\ outcome[waits_on(t)][th[t].at + 1] = "SUCCEEDED"
(* wait_receipt fails on a revert, and on its deadline if nothing comes.    *)
no_receipt(t) ==
  waits_on(t) # NoOne /\ ~succeeded(t) /\ (executed(t) \/ mempool[waits_on(t)] = NoTx)

(* Any call may fail with an error.                                         *)
run_fails(t) == ~at(t, "idle") /\ troubled /\ ends(t)
-----------------------------------------------------------------------------
(* SetupRunner::run *)

run_step ==
  /\ at("wizard", "step")
  /\ LET st == th["wizard"].st IN
     IF st.done = Len(STEPS)
       THEN emit(Completed \o Done(TRUE)) /\ th' = [th EXCEPT !["wizard"] = Idle]
       ELSE emit(StepStarted(next_pending(st))) /\ goto("wizard", STEPS[next_pending(st)])
  /\ UNCHANGED <<disk, wiz, chain, counts>>

(* mark_done, save, then the event.                                         *)
mark_done ==
  /\ at("wizard", "mark")
  /\ LET i == next_pending(th["wizard"].st)
         st == [th["wizard"].st EXCEPT !.done = i] IN
     /\ file' = st
     /\ emit(StepCompleted(i))
     /\ th' = [th EXCEPT !["wizard"] = [Idle EXCEPT !.pc = "step", !.st = st, !.handle = Handle,
                                                    !.confirmed = th["wizard"].confirmed]]
  /\ UNCHANGED <<accounts, keys, config, leftovers, minted, wiz, chain, counts>>

(* fs::write truncates first: a write that fails leaves no checkpoint.      *)
save_fails ==
  /\ at("wizard", "mark") /\ troubled
  /\ file' = Torn /\ lost' = TRUE
  /\ th' = [th EXCEPT !["wizard"] = Idle]
  /\ emit(Done(FALSE))
  /\ UNCHANGED <<accounts, keys, config, leftovers, minted, wiz, chain, slips>>

(* An account that sncast already holds is adopted.                         *)
step_create ==
  /\ at("wizard", "CreateAccount")
  /\ accounts' = TRUE
  /\ th' = [th EXCEPT !["wizard"].pc = "mark", !["wizard"].st.address = TRUE]
  /\ UNCHANGED <<file, keys, config, leftovers, minted, ui, chain, counts>>

(* External funding ends the run with Fund pending, also when the balance   *)
(* cannot be read.                                                          *)
park ==
  /\ at("wizard", "Fund") /\ th["wizard"].st.mode = "External"
  /\ IF fund_needed THEN UNCHANGED trouble ELSE troubled
  /\ emit(AwaitingDeposit \o Done(TRUE))
  /\ th' = [th EXCEPT !["wizard"] = Idle]
  /\ UNCHANGED <<disk, wiz, chain, slips, lost>>

already_funded ==
  /\ at("wizard", "Fund") /\ ~fund_needed
  /\ goto("wizard", "mark")
  /\ UNCHANGED <<disk, ui, chain, counts>>

(* A balance that cannot be read does not stop the transfer.                *)
step_fund(read) ==
  /\ at("wizard", "Fund") /\ th["wizard"].st.mode = "Transfer"
  /\ IF read THEN fund_needed /\ UNCHANGED <<trouble, slips>>
             ELSE troubled /\ slips' = slips + 1
  /\ th' = [th EXCEPT !["wizard"].pc = "transfer", !["wizard"].at = nonce["source"]]
  /\ UNCHANGED <<disk, ui, chain, lost>>

(* A transfer that landed since the balance was read is a slip.             *)
transfer ==
  /\ at("wizard", "transfer")
  /\ submit("wizard", "source", transfer_tx, "transfer_wait")
  /\ slips' = IF th["wizard"].at = nonce["source"] THEN slips ELSE slips + 1
  /\ emit(TxSubmitted(2))
  /\ UNCHANGED <<disk, wiz, trouble, lost>>

transfer_receipt ==
  /\ at("wizard", "transfer_wait") /\ succeeded("wizard")
  /\ goto("wizard", "mark")
  /\ UNCHANGED <<disk, ui, chain, counts>>

(* sncast refuses to deploy what is deployed: the step is done then.        *)
step_deploy ==
  /\ at("wizard", "Deploy") /\ accounts
  /\ IF deployed THEN goto("wizard", "mark") /\ UNCHANGED <<chain, events>>
                 ELSE submit("wizard", "new", deploy_tx, "deploy_wait") /\ emit(TxSubmitted(3))
  /\ UNCHANGED <<disk, wiz, counts>>

deploy_receipt ==
  /\ at("wizard", "deploy_wait") /\ succeeded("wizard")
  /\ goto("wizard", "mark")
  /\ UNCHANGED <<disk, ui, chain, counts>>

(* init_identity writes the keys, then the config.                          *)
new_identity(n) == [scan |-> n, kem_seed |-> n, member_secret |-> n]
save_new_keys ==
  /\ at("wizard", "Init") /\ keys = NoKeys /\ minted < MaxMint
  /\ minted' = minted + 1
  /\ keys' = [id |-> new_identity(minted'), handle |-> NoOne]
  /\ goto("wizard", "init_config")
  /\ UNCHANGED <<file, accounts, config, leftovers, ui, chain, counts>>

save_new_config ==
  /\ at("wizard", "init_config")
  /\ config' = [store |-> "v4", burner |-> FALSE]
  /\ goto("wizard", "stamp")
  /\ UNCHANGED <<file, accounts, keys, leftovers, minted, ui, chain, counts>>

already_initialized ==
  /\ at("wizard", "Init") /\ keys # NoKeys
  /\ goto("wizard", "stamp")
  /\ UNCHANGED <<disk, ui, chain, counts>>

(* A burner's config is stamped; the burner plan is the external one.       *)
is_burner == th["wizard"].st.mode = "External"
step_init ==
  /\ at("wizard", "stamp")
  /\ is_burner => config # NoConfig
  /\ config' = IF is_burner THEN [config EXCEPT !.burner = TRUE] ELSE config
  /\ goto("wizard", "mark")
  /\ UNCHANGED <<file, accounts, keys, leftovers, minted, ui, chain, counts>>
-----------------------------------------------------------------------------
(* app::register, in the wizard's worker or from the command line           *)

ours(h, k) == users[h] = k.id

may_register ==
  /\ config # NoConfig /\ config.store = "v4"
  /\ keys # NoKeys /\ keys.handle = NoOne
register(t) ==
  /\ at(t, "Register") /\ may_register
  /\ goto(t, "seed")
  /\ UNCHANGED <<disk, ui, chain, counts>>

update_keys_late(k) == UNCHANGED keys
update_keys(k) == keys' = k

(* A missing seed is minted and written, unless a handle is held.           *)
ensure_kem_seed(t) ==
  /\ at(t, "seed") /\ keys # NoKeys
  /\ keys.id.kem_seed # 0 \/ keys.handle = NoOne
  /\ IF keys.id.kem_seed # 0
       THEN UNCHANGED <<keys, minted>> /\ th' = [th EXCEPT ![t].pc = "secret", ![t].keys = keys]
       ELSE LET k == [keys EXCEPT !.id.kem_seed = minted + 1] IN
            /\ minted < MaxMint /\ minted' = minted + 1
            /\ update_keys(k) /\ th' = [th EXCEPT ![t].pc = "secret", ![t].keys = k]
  /\ UNCHANGED <<file, accounts, config, leftovers, ui, chain, counts>>

ensure_register_keys(t) ==
  /\ at(t, "secret")
  /\ th[t].keys.id.member_secret # 0 \/ th[t].keys.handle = NoOne
  /\ IF th[t].keys.id.member_secret # 0
       THEN UNCHANGED <<keys, minted>> /\ goto(t, "get_user")
       ELSE LET k == [th[t].keys EXCEPT !.id.member_secret = minted + 1] IN
            /\ minted < MaxMint /\ minted' = minted + 1
            /\ update_keys(k) /\ th' = [th EXCEPT ![t].pc = "get_user", ![t].keys = k]
  /\ UNCHANGED <<file, accounts, config, leftovers, ui, chain, counts>>

(* A handle of somebody else's is tried like a free one.                    *)
get_user(t) ==
  /\ at(t, "get_user")
  /\ goto(t, IF ours(th[t].handle, th[t].keys) THEN "record" ELSE "reg_submit")
  /\ UNCHANGED <<disk, ui, chain, counts>>

submit_register(t) ==
  /\ at(t, "reg_submit") /\ submit(t, "new", register_tx(t), "reg_wait")
  /\ UNCHANGED <<disk, ui, counts>>

register_receipt(t) ==
  /\ at(t, "reg_wait") /\ succeeded(t)
  /\ goto(t, "record")
  /\ UNCHANGED <<disk, ui, chain, counts>>

record_registration(t) ==
  /\ at(t, "record") /\ ours(th[t].handle, th[t].keys)
  /\ update_keys([th[t].keys EXCEPT !.handle = th[t].handle])
  /\ th' = IF t = "wizard" THEN [th EXCEPT ![t].pc = "mark"] ELSE [th EXCEPT ![t] = Idle]
  /\ UNCHANGED <<file, accounts, config, leftovers, minted, ui, chain, counts>>

(* The errors a run meets whatever the network does.                        *)
run_refused(t) ==
  /\ \/ at(t, "Register") /\ ~may_register
     \/ at(t, "seed") /\ keys.id.kem_seed = 0 /\ keys.handle # NoOne
     \/ at(t, "secret") /\ th[t].keys.id.member_secret = 0 /\ th[t].keys.handle # NoOne
     \/ at(t, "record") /\ ~ours(th[t].handle, th[t].keys)
     \/ at(t, "transfer") /\ ~can_submit("source", transfer_tx)
     \/ at(t, "Deploy") /\ ~deployed /\ ~can_submit("new", deploy_tx)
     \/ at(t, "reg_submit") /\ ~can_submit("new", register_tx(t))
     \/ at(t, "stamp") /\ is_burner /\ config = NoConfig
     \/ no_receipt(t)
  /\ UNCHANGED trouble /\ ends(t)
-----------------------------------------------------------------------------
(* migrate_store: the keys, then the config, then what the old store left.  *)
(* Without a config the commands do nothing.                                *)

start_cli(pc, h) ==
  /\ at("cli", "idle") /\ config # NoConfig /\ troubled
  /\ th' = [th EXCEPT !["cli"] = [Idle EXCEPT !.pc = pc, !.handle = h]]
  /\ UNCHANGED <<disk, ui, chain, slips, lost>>

migrated_keys(k, n) == [id |-> new_identity(n), handle |-> NoOne]
may_migrate == config.store = "old" /\ "sends" \notin leftovers
migrate_keys ==
  /\ at("cli", "migrate")
  /\ IF may_migrate
       THEN /\ minted < MaxMint /\ minted' = minted + 1
            /\ update_keys(migrated_keys(keys, minted'))
            /\ goto("cli", "mig_config")
       ELSE th' = [th EXCEPT !["cli"] = Idle] /\ UNCHANGED <<keys, minted>>
  /\ UNCHANGED <<file, accounts, config, leftovers, ui, chain, counts>>

migrate_config ==
  /\ at("cli", "mig_config")
  /\ config' = [config EXCEPT !.store = "v4"]
  /\ goto("cli", "mig_caches")
  /\ UNCHANGED <<file, accounts, keys, leftovers, minted, ui, chain, counts>>

migrate_leftovers ==
  /\ th["cli"].pc \in {"mig_caches", "mig_tickets"}
  /\ IF at("cli", "mig_caches")
       THEN leftovers' = leftovers \ {"caches"} /\ goto("cli", "mig_tickets")
       ELSE leftovers' = leftovers \ {"tickets"} /\ th' = [th EXCEPT !["cli"] = Idle]
  /\ UNCHANGED <<file, accounts, keys, config, minted, ui, chain, counts>>

(* Nothing in the program ends a send of a retired store (its resume always *)
(* fails): the user removes the files of the old sends by hand.             *)
finish_sends ==
  /\ "sends" \in leftovers /\ leftovers' = leftovers \ {"sends"}
  /\ UNCHANGED <<file, accounts, keys, config, minted, th, ui, chain, counts>>
-----------------------------------------------------------------------------
(* The wizard *)

Closed == [open |-> FALSE, confirm |-> FALSE, flow |-> NoFlow, rx |-> FALSE, mode |-> NoOne]
from_state(st) ==
  [steps |-> [i \in Step |-> IF i <= st.done THEN "Done" ELSE "Pending"], awaiting |-> FALSE]
dir_exists == file # NoFile \/ keys # NoKeys \/ config # NoConfig

new_profile(mode) ==
  /\ ~wiz.open /\ ~dir_exists
  /\ wiz' = [Closed EXCEPT !.open = TRUE, !.confirm = TRUE, !.mode = mode]
  /\ UNCHANGED <<disk, th, events, chain, counts>>

(* The confirmation comes up again while a transfer is still to be made.    *)
resume ==
  /\ ~wiz.open /\ file \notin {NoFile, Torn} /\ file.done < Len(STEPS)
  /\ wiz' = [Closed EXCEPT !.open = TRUE, !.flow = from_state(file), !.mode = file.mode,
                           !.confirm = file.done < 2 /\ file.mode = "Transfer"]
  /\ UNCHANGED <<disk, th, events, chain, counts>>

dismiss ==
  /\ wiz.confirm /\ wiz' = [wiz EXCEPT !.confirm = FALSE]
  /\ UNCHANGED <<disk, th, events, chain, counts>>

close ==
  /\ wiz.open /\ ~wiz.rx /\ wiz' = Closed /\ events' = <<>>
  /\ UNCHANGED <<disk, th, chain, counts>>

(* A checkpoint that does not load is replaced by a new plan.               *)
spawn(confirmed) ==
  LET st == IF file \in {NoFile, Torn} THEN new_plan(wiz.mode) ELSE file IN
  /\ file' = st
  /\ wiz' = [wiz EXCEPT !.confirm = FALSE, !.flow = from_state(st), !.rx = TRUE]
  /\ events' = <<>>
  /\ th' = [th EXCEPT !["wizard"] = [Idle EXCEPT !.pc = "step", !.st = st, !.handle = Handle,
                                                 !.confirmed = confirmed]]
  /\ UNCHANGED <<accounts, keys, config, leftovers, minted, chain, counts>>

confirm == wiz.confirm /\ ~wiz.rx /\ spawn(TRUE)

needs_confirm == wiz.mode = "Transfer" /\ wiz.flow.steps[2] # "Done"
request_resume ==
  /\ wiz.open /\ wiz.flow # NoFlow /\ ~wiz.rx /\ ~wiz.confirm
  /\ IF needs_confirm
       THEN wiz' = [wiz EXCEPT !.confirm = TRUE] /\ UNCHANGED <<disk, th, events, chain, counts>>
       ELSE spawn(FALSE)

create ==
  /\ wiz.open /\ wiz.flow = NoFlow /\ ~wiz.confirm /\ ~dir_exists
  /\ wiz' = [wiz EXCEPT !.confirm = TRUE]
  /\ UNCHANGED <<disk, th, events, chain, counts>>

find_pending(flow, i) == flow.steps[i] # "Done"
set_status(flow, i, s) == IF find_pending(flow, i) THEN [flow EXCEPT !.steps[i] = s] ELSE flow
parked(flow) == [set_status(flow, 2, "Pending") EXCEPT !.awaiting = TRUE]
fail(flow) ==
  [flow EXCEPT !.steps = [i \in Step |-> IF flow.steps[i] = "Running" THEN "Failed" ELSE flow.steps[i]]]
(* SetupFlow::apply; a completed wizard closes and its profile is opened.   *)
apply(flow, e) ==
  CASE e.kind = "StepStarted" -> [set_status(flow, e.step, "Running") EXCEPT !.awaiting = FALSE]
    [] e.kind = "StepCompleted" -> set_status(flow, e.step, "Done")
    [] e.kind = "AwaitingDeposit" -> parked(flow)
    [] e.kind = "Err" -> fail(flow)
    [] OTHER -> flow

ended_on_error(e) == e.kind = "Err"
ended(e) == e.kind \in {"Ok", "Err"}
poll ==
  /\ wiz.rx /\ events # <<>>
  /\ LET e == Head(events) IN
     IF e.kind = "Completed"
       THEN wiz' = Closed /\ events' = <<>>
       ELSE /\ wiz' = [wiz EXCEPT !.flow = apply(wiz.flow, e), !.rx = ~ended(e)]
            /\ events' = Tail(events)
  /\ UNCHANGED <<disk, th, chain, counts>>

(* The GUI is killed, perhaps in the middle of the write of setup.json.     *)
kill(torn) ==
  /\ wiz.rx /\ troubled
  /\ torn => at("wizard", "mark")
  /\ lost' = (lost \/ torn)
  /\ file' = IF torn THEN Torn ELSE file
  /\ wiz' = Closed /\ events' = <<>> /\ th' = [th EXCEPT !["wizard"] = Idle]
  /\ UNCHANGED <<accounts, keys, config, leftovers, minted, chain, slips>>
-----------------------------------------------------------------------------
(* The chain *)

execute(a, ok) ==
  /\ mempool[a] # NoTx
  /\ LET tx == mempool[a]
         taken == account_id # NoOne \/ (tx.kind = "register" /\ users[tx.handle] # NoOne)
         good == IF tx.kind = "register" THEN ~taken ELSE ok
     IN
     /\ tx.kind # "transfer" => ok
     /\ nonce' = [nonce EXCEPT ![a] = @ + 1]
     /\ mempool' = [mempool EXCEPT ![a] = NoTx]
     /\ outcome' = [outcome EXCEPT ![a] = Append(@, IF good THEN "SUCCEEDED" ELSE "REVERTED")]
     /\ balance' = IF good /\ tx.kind = "transfer" THEN balance + 2
                   ELSE IF tx.kind = "deploy" THEN balance - 1 ELSE balance
     /\ deployed' = (deployed \/ tx.kind = "deploy")
     /\ users' = IF good /\ tx.kind = "register" THEN [users EXCEPT ![tx.handle] = tx.id] ELSE users
     /\ account_id' = IF good /\ tx.kind = "register" THEN tx.id ELSE account_id
     /\ IF ok THEN UNCHANGED trouble ELSE troubled
  /\ UNCHANGED <<disk, th, ui, slips, lost>>

evict(a) ==
  /\ mempool[a] # NoTx /\ troubled
  /\ mempool' = [mempool EXCEPT ![a] = NoTx]
  /\ UNCHANGED <<disk, th, ui, nonce, outcome, balance, deployed, users, account_id, slips, lost>>

deposit ==
  /\ file \notin {NoFile, Torn} /\ file.address /\ file.mode = "External"
  /\ ~deployed /\ balance < 2
  /\ balance' = balance + 1
  /\ UNCHANGED <<disk, th, ui, nonce, mempool, outcome, deployed, users, account_id, counts>>

other_registers(h) ==
  /\ users[h] = NoOne /\ users' = [users EXCEPT ![h] = Other]
  /\ UNCHANGED <<disk, th, ui, nonce, mempool, outcome, balance, deployed, account_id, counts>>
-----------------------------------------------------------------------------
(* A profile of the wizard to come; one already on the v4 pool whose keys   *)
(* may be older than it; one registered on an older store.                  *)
OldScan == 1
BareIdent(n) == [scan |-> n, kem_seed |-> 0, member_secret |-> 0]
Init ==
  /\ \E start \in Starts, sends \in SUBSET {"sends"} :
       /\ (start = "fresh") => sends = {}
       /\ keys = IF start = "fresh" THEN NoKeys
                 ELSE IF start = "v4" THEN [id |-> BareIdent(2), handle |-> NoOne]
                 ELSE [id |-> BareIdent(OldScan), handle |-> OtherHandle]
       /\ config = IF start = "fresh" THEN NoConfig ELSE [store |-> start, burner |-> FALSE]
       /\ leftovers = IF start = "old" THEN {"caches", "tickets"} \cup sends ELSE {}
       /\ minted = IF start = "v4" THEN 2 ELSE OldScan
       /\ deployed = (start # "fresh") /\ accounts = (start # "fresh")
  /\ file = NoFile
  /\ th = [t \in Threads |-> Idle] /\ wiz = Closed /\ events = <<>>
  /\ nonce = [a \in AccountsOf |-> 0] /\ mempool = [a \in AccountsOf |-> NoTx]
  /\ outcome = [a \in AccountsOf |-> <<>>] /\ balance = 0
  /\ users = [h \in Handles |-> NoOne] /\ account_id = NoOne
  /\ trouble = 0 /\ slips = 0 /\ lost = FALSE

Register(t) ==
  \/ register(t) \/ ensure_kem_seed(t) \/ ensure_register_keys(t) \/ get_user(t)
  \/ submit_register(t) \/ register_receipt(t) \/ record_registration(t)
  \/ run_refused(t)

Wizard ==
  \/ run_step \/ mark_done \/ step_create
  \/ park \/ already_funded \/ step_fund(TRUE) \/ transfer \/ transfer_receipt
  \/ step_deploy \/ deploy_receipt
  \/ save_new_keys \/ save_new_config \/ already_initialized \/ step_init
  \/ Register("wizard")

Cli ==
  \/ \E h \in Handles : start_cli("Register", h)
  \/ start_cli("migrate", NoOne)
  \/ migrate_keys \/ migrate_config \/ migrate_leftovers
  \/ Register("cli")

Window ==
  \/ \E mode \in Modes : new_profile(mode)
  \/ resume \/ dismiss \/ close \/ confirm \/ request_resume \/ create \/ poll

Faults ==
  \/ \E t \in Threads : run_fails(t)
  \/ save_fails \/ step_fund(FALSE)
  \/ \E torn \in BOOLEAN : kill(torn)
  \/ \E a \in AccountsOf : evict(a)

Chain ==
  \/ \E a \in AccountsOf, ok \in BOOLEAN : execute(a, ok)
  \/ deposit \/ \E h \in Contested : other_registers(h)

Next == Wizard \/ Cli \/ Window \/ Faults \/ Chain \/ finish_sends

Spec == Init /\ [][Next]_vars

-----------------------------------------------------------------------------
(* Properties *)

(* Every variable has its type.                                             *)
TypeOK ==
  /\ file \in SetupState \cup {NoFile, Torn}
  /\ keys \in Keys \cup {NoKeys} /\ config \in Config \cup {NoConfig}
  /\ {accounts, deployed, lost} \subseteq BOOLEAN
  /\ leftovers \subseteq {"sends", "caches", "tickets"}
  /\ {minted, balance, trouble, slips} \subseteq Nat /\ minted \in Secret
  /\ wiz.flow \in Flow \cup {NoFlow} /\ {wiz.open, wiz.confirm, wiz.rx} \subseteq BOOLEAN
  /\ nonce \in [AccountsOf -> 0..MaxNonce]
  /\ mempool \in [AccountsOf -> Tx \cup {NoTx}]
  /\ \A a \in AccountsOf : Len(outcome[a]) = nonce[a]
  /\ users \in [Handles -> Ident \cup {NoOne, Other}]
  /\ account_id \in Ident \cup {NoOne}

(* The user pays once: whatever fails, is killed or lands late, a second    *)
(* transfer is made only when the balance could not be read, when the first *)
(* landed between that read and the nonce, or when the checkpoint was lost; *)
(* and no run makes one that was not confirmed for it.                      *)
Transfers == Cardinality({n \in 1..nonce["source"] : outcome["source"][n] = "SUCCEEDED"})
FundedOnce ==
  \/ lost
  \/ /\ Transfers <= 1 + slips
     /\ th["wizard"].pc \in {"transfer", "transfer_wait"} => th["wizard"].confirmed

(* The keys on disk and the pool agree.  What the pool holds for the         *)
(* profile's account opens with them: a key the chain learns was written    *)
(* first, and is never replaced.  It is no key of the old store, which a    *)
(* profile that moved would be linked by.  The handle they record is the    *)
(* profile's own there.                                                     *)
RegisteredIsHeld ==
  /\ account_id # NoOne =>
       keys # NoKeys /\ keys.id = account_id /\ account_id.scan # OldScan
  /\ config # NoConfig /\ config.store = "v4" /\ keys # NoKeys /\ keys.handle # NoOne =>
       users[keys.handle] = keys.id

(* The setup cannot go on: the checkpoint is lost, the keys were written    *)
(* without the config, the handle was recorded without the checkpoint, or   *)
(* somebody else took the handle.                                           *)
InitCut == keys # NoKeys /\ config = NoConfig /\ ~at("wizard", "init_config")
RegisterCut ==
  /\ file \notin {NoFile, Torn} /\ file.done < Len(STEPS)
  /\ keys # NoKeys /\ keys.handle # NoOne /\ ~at("wizard", "mark")
Taken == users[Handle] = Other \/ (account_id # NoOne /\ users[OtherHandle] = account_id)

(* The worker goes on; the user resumes, confirms and deposits; and what    *)
(* the node took is executed or evicted.                                    *)
Fairness ==
  /\ WF_vars(Wizard) /\ WF_vars(poll) /\ WF_vars(resume)
  /\ SF_vars(confirm) /\ SF_vars(request_resume) /\ WF_vars(deposit)
  /\ \A a \in AccountsOf : WF_vars(execute(a, TRUE))
FairSpec == Spec /\ Fairness

(* A setup the user keeps resuming is finished, whatever fails on the way,  *)
(* unless it was cut where no resume helps, somebody has the handle, or the *)
(* bound on transactions is reached.                                        *)
SetupFinishes ==
  file # NoFile ~> \/ file \notin {NoFile, Torn} /\ file.done = Len(STEPS)
                   \/ lost \/ InitCut \/ RegisterCut \/ Taken \/ nonce["new"] = MaxNonce
=============================================================================
