----------------------------- MODULE GuiSession -----------------------------
(***************************************************************************)
(* The desktop program: one window (gui/src/app.rs), the session of the     *)
(* profile it shows (session.rs, compose_view.rs, inbox_view.rs) and the    *)
(* worker threads the session and the setup wizard start (worker.rs), each  *)
(* reporting over a channel of its own that the window drains frame by      *)
(* frame.                                                                   *)
(*                                                                         *)
(* A thread outlives whoever held its channel: what it sends is then lost,  *)
(* what it does is not.  The tabs are left out (one click reaches any), and *)
(* so is the wallet's count that disables Send when it is known to be zero. *)
(***************************************************************************)
EXTENDS Naturals, Sequences, FiniteSets

CONSTANTS
  Profiles, Handles, SendIds,
  MaxThreads,     \* bound on the worker threads alive together
  Starts,         \* how the program starts: see Init
  NoOne           \* no profile, no handle, no session, no flow, no send

Slots == 1..MaxThreads        \* a receiver is a slot; 0 is None
NoRx == 0
Stages == {"empty", "keys", "registered"}
Dir == [place : {"absent", "live", "archived", "gone"}, stage : Stages, store : {"v4", "old"}]
SendFile == [p : Profiles \cup {NoOne}, st : {"none", "pending", "done", "stale"}]
StepStatus == {"Pending", "Running", "Done", "Failed"}
Plan == 1..3                  \* Prepare, Prove, Publish
SendFlow == [steps : [Plan -> StepStatus], error : BOOLEAN, published : BOOLEAN]
Events == {"Started", "StepCompleted", "Checkpointed", "Completed", "Ok", "Err"}
Kinds == {"status", "inbox", "resolve", "init", "register", "buy", "setup", "send", "resume"}
Event == [k : Events, i : Plan \cup SendIds \cup {NoOne}]
Resuming == [id : SendIds \cup {NoOne}, done : BOOLEAN]     \* what a send works on
Thread == [kind : Kinds \cup {"none"}, p : Profiles \cup {NoOne}, arg : Handles \cup {NoOne} \cup Resuming,
           pc : {"free", "begin", "prove", "publish", "ended"}, ch : Seq(Event)]
Rx == Slots \cup {NoRx}
ProfileSession ==
  [p : Profiles, stage : Stages, store : {"v4", "old"}, of : SUBSET Profiles,
   rx : Rx, inbox_rx : Rx, resolve_rx : Rx, send_rx : Rx,
   handle : Handles \cup {NoOne}, resolved : Handles \cup {NoOne, "unknown handle"}, confirm : BOOLEAN,
   flow : SendFlow \cup {NoOne}, send_id : SendIds \cup {NoOne},
   pending : SUBSET SendIds, dismissed : SUBSET SendIds]
App == [locked : BOOLEAN, migration : BOOLEAN, initial : Profiles \cup {NoOne}, reopen : Profiles \cup {NoOne}]
Free == [kind |-> "none", p |-> NoOne, arg |-> NoOne, pc |-> "free", ch |-> <<>>]

ASSUME GuiAssumption == MaxThreads \in Nat
ASSUME AbsenceAssumption ==
  /\ NoOne \notin Profiles \cup Handles \cup SendIds
  /\ NoOne \notin SendFlow /\ NoOne \notin ProfileSession
  /\ "unknown handle" \notin Handles

VARIABLES
  dirs,       \* [Profiles -> the directory on disk]
  sends,      \* [SendIds -> the file of that send]
  threads,    \* [Slots -> a worker thread]
  app,        \* the window: locked, migration, initial, reopen
  wizard,     \* the receiver of the setup wizard
  session     \* the open session, or NoOne

disk == <<dirs, sends>>
vars == <<disk, threads, app, wizard, session>>

-----------------------------------------------------------------------------
(* Receivers and threads *)

receivers(ss) == IF ss = NoOne THEN {} ELSE {ss.rx, ss.inbox_rx, ss.resolve_rx, ss.send_rx}
held(s) == s \in receivers(session) \cup {wizard}
alive(s) == threads[s].pc \notin {"free", "ended"}
runs(s, kinds) == alive(s) /\ threads[s].kind \in kinds

(* The threads once the receivers in `rxs` are dropped.                     *)
dropped(rxs) ==
  [s \in Slots |-> IF s \notin rxs THEN threads[s]
                   ELSE IF threads[s].pc = "ended" THEN Free ELSE [threads[s] EXCEPT !.ch = <<>>]]

(* The lowest free one: which slot a thread has means nothing.              *)
slot(ts) == {s \in Slots : ts[s] = Free /\ \A r \in 1..(s - 1) : ts[r] # Free}
spawned(ts, s, kind, p, arg) ==
  [ts EXCEPT ![s] = [kind |-> kind, p |-> p, arg |-> arg, pc |-> "begin", ch |-> <<>>]]

(* What the thread in s has sent once it is at pc.                          *)
sent(s, pc, es) ==
  threads' = IF held(s) THEN [threads EXCEPT ![s].pc = pc, ![s].ch = @ \o es]
             ELSE IF pc = "ended" THEN [threads EXCEPT ![s] = Free]
             ELSE [threads EXCEPT ![s].pc = pc]
NoFile == [p |-> NoOne, st |-> "none"]
Ev(k, i) == [k |-> k, i |-> i]
Done(ok) == Ev(IF ok THEN "Ok" ELSE "Err", NoOne)

without(ps) == [id \in SendIds |-> IF sends[id].p \in ps THEN NoFile ELSE sends[id]]
incomplete(p) == {id \in SendIds : sends[id] = [p |-> p, st |-> "pending"]}

-----------------------------------------------------------------------------
(* The workers: the one-shot calls, then the send *)

result(kind, d) ==
  CASE kind = "init" -> [d EXCEPT !.stage = "keys"]
    [] kind = "register" -> [d EXCEPT !.stage = "registered"]
    [] kind = "setup" -> [place |-> "live", stage |-> "registered", store |-> "v4"]
    [] OTHER -> d
may_succeed(kind, d) ==
  CASE kind = "setup" -> d.place = "absent"
    [] kind = "init" -> d.place = "live" /\ d.stage = "empty"
    [] kind = "register" -> d.place = "live" /\ d.stage = "keys" /\ d.store = "v4"
    [] kind \in {"buy", "inbox"} -> d.place = "live" /\ d.store = "v4"
    [] OTHER -> d.place = "live"
one_shot(s, ok) ==
  /\ runs(s, Kinds \ {"send", "resume"})
  /\ LET t == threads[s] IN
     /\ ok => may_succeed(t.kind, dirs[t.p])
     /\ dirs' = IF ok THEN [dirs EXCEPT ![t.p] = result(t.kind, @)] ELSE dirs
  /\ sent(s, "ended", <<Done(ok)>>)
  /\ UNCHANGED <<sends, app, wizard, session>>

routes(p) == dirs[p].place = "live" /\ dirs[p].store = "v4"
publish_started_late == <<>>
publish_started == <<Ev("Started", 3)>>

(* A worker without a route ends before any step has started; a fresh send  *)
(* prepares, and may fail there.                                            *)
begin_send(s, ok) ==
  /\ runs(s, {"send", "resume"}) /\ threads[s].pc = "begin"
  /\ LET t == threads[s] IN
     CASE ~routes(t.p) -> ~ok /\ sent(s, "ended", <<Done(FALSE)>>)
       [] routes(t.p) /\ t.kind = "send" ->
            IF ok THEN sent(s, "prove", <<Ev("Started", 1), Ev("StepCompleted", 1), Ev("Started", 2)>>)
                  ELSE sent(s, "ended", <<Ev("Started", 1), Done(FALSE)>>)
       [] routes(t.p) /\ t.kind = "resume" ->
            /\ ok
            /\ IF t.arg.done THEN sent(s, "ended", <<Ev("Completed", NoOne), Done(TRUE)>>)
                             ELSE sent(s, "publish", publish_started)
  /\ UNCHANGED <<disk, app, wizard, session>>

(* The state is first written once the proof exists.                        *)
prove_and_save(s, id) ==
  /\ threads[s].pc = "prove" /\ sends[id].st = "none" /\ dirs[threads[s].p].place = "live"
  /\ sends' = [sends EXCEPT ![id] = [p |-> threads[s].p, st |-> "pending"]]
  /\ threads' = [threads EXCEPT ![s].pc = "publish", ![s].arg.id = id,
                                ![s].ch = IF held(s) THEN @ \o <<Ev("Checkpointed", id), Ev("StepCompleted", 2)>>
                                                             \o publish_started
                                                     ELSE @]
  /\ UNCHANGED <<dirs, app, wizard, session>>
prove_fails(s) ==
  /\ threads[s].pc = "prove" /\ sent(s, "ended", <<Done(FALSE)>>)
  /\ UNCHANGED <<disk, app, wizard, session>>

(* Published; retired, its file renamed; or failed, to be resumed.          *)
publish(s, how) ==
  /\ threads[s].pc = "publish" /\ (how = "failed" \/ dirs[threads[s].p].place = "live")
  /\ sends' = IF how = "failed" THEN sends ELSE [sends EXCEPT ![threads[s].arg.id].st = how]
  /\ sent(s, "ended", IF how = "done" THEN <<Ev("StepCompleted", 3), Ev("Completed", NoOne), Done(TRUE)>>
                                      ELSE <<Done(FALSE)>>)
  /\ UNCHANGED <<dirs, app, wizard, session>>

-----------------------------------------------------------------------------
(* SendFlow: the checklist *)

virtual_plan == [steps |-> [i \in Plan |-> "Pending"], error |-> FALSE, published |-> FALSE]
from_state(id) ==
  LET done == sends[id].st = "done" IN
  [steps |-> [i \in Plan |-> IF i < 3 \/ done THEN "Done" ELSE "Pending"], error |-> FALSE, published |-> done]
set_pending(flow, i, st) == IF flow.steps[i] # "Done" THEN [flow EXCEPT !.steps[i] = st] ELSE flow
fail(flow) ==
  [flow EXCEPT !.steps = [i \in Plan |-> IF @[i] = "Running" THEN "Failed" ELSE @[i]], !.error = TRUE]
apply(flow, e) ==
  CASE e.k = "Started" -> set_pending(flow, e.i, "Running")
    [] e.k = "StepCompleted" -> set_pending(flow, e.i, "Done")
    [] e.k = "Completed" -> [flow EXCEPT !.steps = [i \in Plan |-> IF @[i] = "Failed" THEN @[i] ELSE "Done"],
                                         !.published = TRUE]
    [] e.k = "Err" -> fail(flow)
    [] OTHER -> flow
failed(flow) == flow # NoOne /\ \E i \in Plan : flow.steps[i] = "Failed"
resumable == session.send_id # NoOne /\ sends[session.send_id].st \in {"pending", "done"}
                                     /\ dirs[session.p].place = "live"

-----------------------------------------------------------------------------
(* The window *)

work_in_flight == session # NoOne /\ session.send_rx # NoRx
worker_busy == session # NoOne /\ session.rx # NoRx
locked == wizard # NoRx           \* a wizard is spending
app_busy == work_in_flight \/ locked
may_leave == ~app_busy
framed == ~app.locked /\ ~app.migration /\ app.initial = NoOne
shown == framed /\ session # NoOne
picker == shown /\ may_leave
source_available == session # NoOne /\ session.stage # "empty"

NewSession(p) ==
  [p |-> p, stage |-> dirs[p].stage, store |-> dirs[p].store, of |-> {},
   rx |-> NoRx, inbox_rx |-> NoRx, resolve_rx |-> NoRx, send_rx |-> NoRx,
   handle |-> NoOne, resolved |-> NoOne, confirm |-> FALSE, flow |-> NoOne, send_id |-> NoOne,
   pending |-> incomplete(p), dismissed |-> {}]

(* The one way a session becomes active: the old one's receivers go.        *)
open_session_kept(p) ==
  IF session = NoOne THEN session' = NewSession(p) /\ UNCHANGED threads
  ELSE /\ session' = [NewSession(p) EXCEPT !.rx = session.rx, !.inbox_rx = session.inbox_rx]
       /\ threads' = dropped({session.resolve_rx, session.send_rx})
open_session(p) == session' = NewSession(p) /\ threads' = dropped(receivers(session))
close_session == session' = NoOne /\ threads' = dropped(receivers(session) \cup {wizard})

lock_now ==
  /\ app' = [app EXCEPT !.locked = TRUE, !.initial = NoOne, !.reopen = IF session = NoOne THEN NoOne ELSE session.p]
  /\ wizard' = NoRx /\ close_session /\ UNCHANGED disk
lock_click == framed /\ may_leave /\ lock_now
idle_lock == framed /\ ~app_busy /\ ~worker_busy /\ lock_now

unlock ==
  /\ app.locked
  /\ app' = [app EXCEPT !.locked = FALSE, !.reopen = NoOne,
                        !.initial = IF app.reopen # NoOne THEN app.reopen ELSE @]
  /\ UNCHANGED <<disk, threads, wizard, session>>

open_initial ==
  /\ ~app.locked /\ ~app.migration /\ app.initial # NoOne
  /\ open_session(app.initial)
  /\ app' = [app EXCEPT !.initial = NoOne]
  /\ UNCHANGED <<disk, wizard>>

(* The migration screen: Migrate, or Not now.                               *)
run_migration(p) ==
  /\ app.migration /\ ~app.locked /\ dirs[p].place = "live"
  /\ app' = [app EXCEPT !.migration = FALSE, !.initial = NoOne]
  /\ open_session(p) /\ UNCHANGED <<dirs, sends, wizard>>
not_now ==
  /\ app.migration /\ ~app.locked
  /\ app' = [app EXCEPT !.migration = FALSE]
  /\ UNCHANGED <<disk, threads, wizard, session>>

switch_profile(p) ==
  /\ picker /\ p # session.p
  /\ dirs[p].place = "live"
  /\ open_session(p) /\ UNCHANGED <<dirs, sends, app, wizard>>

(* From the list of a window without a session.                             *)
open_request(p) ==
  /\ framed /\ session = NoOne /\ dirs[p].place = "live"
  /\ open_session(p) /\ UNCHANGED <<disk, app, wizard>>

after_wipe ==
  /\ dirs' = [p \in Profiles |-> [dirs[p] EXCEPT !.place = IF @ = "absent" THEN @ ELSE "gone"]]
  /\ sends' = [id \in SendIds |-> NoFile]
  /\ app' = [app EXCEPT !.locked = TRUE, !.migration = FALSE, !.initial = NoOne, !.reopen = NoOne]
  /\ wizard' = NoRx /\ close_session

(* The program killed and launched again.                                   *)
kill ==
  /\ threads' = [s \in Slots |-> Free] /\ session' = NoOne /\ wizard' = NoRx
  /\ \E dir \in {p \in Profiles : dirs[p].place = "live"} \cup {NoOne} :
       app' = [app EXCEPT !.locked = TRUE, !.reopen = NoOne, !.initial = dir]
  /\ UNCHANGED disk
-----------------------------------------------------------------------------
(* The wizard *)

session_busy_send_only == work_in_flight
session_busy == work_in_flight \/ worker_busy
spawn_setup(s, p) ==
  /\ shown /\ ~locked /\ ~session_busy /\ source_available
  /\ s \in slot(threads) /\ dirs[p].place = "absent"
  /\ wizard' = s
  /\ threads' = spawned(threads, s, "setup", p, NoOne)
  /\ UNCHANGED <<disk, app, session>>

(* A completed wizard closes and its profile is opened.                     *)
poll_setup ==
  /\ shown /\ locked /\ threads[wizard].ch # <<>>
  /\ IF Head(threads[wizard].ch).k = "Ok"
       THEN LET p == threads[wizard].p IN
            /\ wizard' = NoRx /\ session' = NewSession(p)
            /\ threads' = dropped(receivers(session) \cup {wizard})
       ELSE /\ wizard' = NoRx
            /\ threads' = [threads EXCEPT ![wizard] = Free]
            /\ UNCHANGED session
  /\ UNCHANGED <<dirs, sends, app>>

-----------------------------------------------------------------------------
(* Archive and delete: the buttons of their dialogs, open since any time   *)
(* before.                                                                  *)

unarchive(p) ==
  /\ picker /\ dirs[p].place = "archived"
  /\ dirs' = [dirs EXCEPT ![p].place = "live"]
  /\ UNCHANGED <<sends, threads, app, wizard, session>>

dialog_busy == app_busy \/ worker_busy
(* The session of a profile that moves away goes with it.                   *)
leave(p, next) ==
  IF session = NoOne \/ session.p # p \/ dirs[p].place # "live" THEN UNCHANGED <<threads, session, wizard>>
  ELSE IF next = NoOne THEN close_session /\ wizard' = NoRx
  ELSE open_session(next) /\ UNCHANGED wizard
archive(p) ==
  /\ framed /\ ~dialog_busy /\ dirs[p].place = "live"
  /\ dirs' = [dirs EXCEPT ![p].place = "archived"]
  /\ leave(p, NoOne) /\ UNCHANGED <<sends, app>>
(* A deletion may open the profile `current` moved on to.                   *)
delete(p, next) ==
  /\ framed /\ ~dialog_busy /\ dirs[p].place \in {"live", "archived"}
  /\ next # NoOne => next # p /\ dirs[next].place = "live"
  /\ dirs' = [dirs EXCEPT ![p].place = "gone"]
  /\ sends' = without({p})
  /\ leave(p, next) /\ UNCHANGED app

-----------------------------------------------------------------------------
(* The Status and Inbox tabs *)

start(s, kind) ==
  /\ shown /\ s \in slot(threads)
  /\ threads' = spawned(threads, s, kind, session.p, NoOne)
  /\ UNCHANGED <<disk, app, wizard>>
init(s) ==
  /\ start(s, "init") /\ session.stage = "empty" /\ ~worker_busy
  /\ session' = [session EXCEPT !.rx = s]
register(s) ==
  /\ start(s, "register") /\ session.stage = "keys" /\ ~worker_busy /\ ~locked
  /\ session' = [session EXCEPT !.rx = s]
(* Fetched once by itself, then when asked.                                 *)
refresh(s) ==
  /\ start(s, "status") /\ session.stage = "registered" /\ ~worker_busy
  /\ session' = [session EXCEPT !.rx = s]
(* Needs a status on display; whatever is stands for it here.               *)
buy_tickets(s) ==
  /\ start(s, "buy") /\ session.stage = "registered" /\ session.store = "v4"
  /\ session.p \in session.of
  /\ ~worker_busy /\ ~work_in_flight /\ ~locked
  /\ session' = [session EXCEPT !.rx = s]
refresh_inbox(s) ==
  /\ start(s, "inbox") /\ session.inbox_rx = NoRx
  /\ session' = [session EXCEPT !.inbox_rx = s]

reload_local_state(ss) == [ss EXCEPT !.stage = dirs[ss.p].stage, !.store = dirs[ss.p].store]
(* Local; refused by the code while a send is incomplete.                   *)
migrate_store ==
  /\ shown /\ session.stage = "registered" /\ session.store = "old" /\ ~worker_busy /\ ~work_in_flight
  /\ dirs[session.p].place = "live" /\ dirs[session.p].store = "old" /\ incomplete(session.p) = {}
  /\ dirs' = [dirs EXCEPT ![session.p].stage = "keys", ![session.p].store = "v4"]
  /\ session' = [session EXCEPT !.stage = "keys", !.store = "v4", !.of = {}]
  /\ UNCHANGED <<sends, threads, app, wizard>>

rx_cleared(ss) == [ss EXCEPT !.rx = NoRx]
poll_worker ==
  /\ shown /\ worker_busy /\ threads[session.rx].ch # <<>>
  /\ LET t == threads[session.rx]
         ok == Head(t.ch).k = "Ok"
         ss == rx_cleared(session) IN
     /\ session' = CASE ok /\ t.kind = "status" -> [ss EXCEPT !.of = @ \cup {t.p}]
                     [] ok /\ t.kind \in {"init", "register"} -> reload_local_state(ss)
                     [] OTHER -> ss
     /\ threads' = [threads EXCEPT ![session.rx] = Free]
  /\ UNCHANGED <<disk, app, wizard>>
poll_inbox_worker ==
  /\ shown /\ session.inbox_rx # NoRx /\ threads[session.inbox_rx].ch # <<>>
  /\ LET t == threads[session.inbox_rx] IN
     session' = [session EXCEPT !.inbox_rx = NoRx, !.of = IF Head(t.ch).k = "Ok" THEN @ \cup {t.p} ELSE @]
  /\ threads' = [threads EXCEPT ![session.inbox_rx] = Free]
  /\ UNCHANGED <<disk, app, wizard>>

-----------------------------------------------------------------------------
(* The Compose tab *)

form_shown == shown /\ session.flow = NoOne /\ session.stage = "registered"
edit_keeps_rx(h) ==
  session' = [session EXCEPT !.handle = h, !.resolved = NoOne] /\ UNCHANGED threads
edited(h) ==
  /\ session' = [session EXCEPT !.handle = h, !.resolved = NoOne, !.resolve_rx = NoRx]
  /\ threads' = dropped({session.resolve_rx})
edit(h) == form_shown /\ h # session.handle /\ edited(h) /\ UNCHANGED <<disk, app, wizard>>
resolve(s) ==
  /\ form_shown /\ session.handle # NoOne /\ session.resolve_rx = NoRx /\ s \in slot(threads)
  /\ threads' = spawned(threads, s, "resolve", session.p, session.handle)
  /\ session' = [session EXCEPT !.resolved = NoOne, !.resolve_rx = s]
  /\ UNCHANGED <<disk, app, wizard>>
poll_compose_worker ==
  /\ shown /\ session.resolve_rx # NoRx /\ threads[session.resolve_rx].ch # <<>>
  /\ LET t == threads[session.resolve_rx] IN
     session' = [session EXCEPT !.resolve_rx = NoRx,
                                !.resolved = IF Head(t.ch).k = "Ok" THEN t.arg ELSE "unknown handle"]
  /\ threads' = [threads EXCEPT ![session.resolve_rx] = Free]
  /\ UNCHANGED <<disk, app, wizard>>

can_send == session.resolved \in Handles /\ ~work_in_flight /\ session.store = "v4" /\ ~locked
send_click ==
  /\ form_shown /\ can_send /\ ~session.confirm
  /\ session' = [session EXCEPT !.confirm = TRUE]
  /\ UNCHANGED <<disk, threads, app, wizard>>
cancel_send ==
  /\ shown /\ session.confirm
  /\ session' = [session EXCEPT !.confirm = FALSE]
  /\ UNCHANGED <<disk, threads, app, wizard>>

(* Confirm sends to the handle in the field; the recipient is not kept.     *)
start_send(s) ==
  /\ shown /\ session.confirm /\ ~locked
  /\ IF session.stage # "registered" \/ work_in_flight
       THEN s = 1 /\ session' = [session EXCEPT !.confirm = FALSE] /\ UNCHANGED threads
       ELSE /\ s \in slot(threads)
            /\ session' = [session EXCEPT !.confirm = FALSE, !.flow = virtual_plan, !.send_id = NoOne, !.send_rx = s]
            /\ threads' = spawned(threads, s, "send", session.p, [id |-> NoOne, done |-> FALSE])
  /\ UNCHANGED <<disk, app, wizard>>

resume_send(s, id, ss) ==
  /\ ~work_in_flight /\ s \in slot(threads)
  /\ IF sends[id].st \in {"pending", "done"} /\ dirs[ss.p].place = "live"
       THEN /\ session' = [ss EXCEPT !.flow = from_state(id), !.send_id = id, !.send_rx = s]
            /\ threads' = spawned(dropped({session.send_rx}), s, "resume", ss.p, [id |-> id, done |-> sends[id].st = "done"])
       ELSE session' = ss /\ UNCHANGED threads
  /\ UNCHANGED <<disk, app, wizard>>

(* The banner's row goes before the worker starts.                          *)
banner_resume(s, id) ==
  /\ shown /\ ~work_in_flight /\ ~locked /\ id \in session.pending
  /\ resume_send(s, id, [session EXCEPT !.pending = @ \ {id}])
dismiss(id) ==
  /\ shown /\ ~work_in_flight /\ ~locked /\ id \in session.pending
  /\ session' = [session EXCEPT !.pending = @ \ {id}, !.dismissed = @ \cup {id}]
  /\ UNCHANGED <<disk, threads, app, wizard>>

flow_resume(s) ==
  /\ shown /\ failed(session.flow) /\ ~locked /\ resumable
  /\ resume_send(s, session.send_id, session)
back_to_message ==
  /\ shown /\ failed(session.flow) /\ ~resumable
  /\ session' = [session EXCEPT !.flow = NoOne, !.send_id = NoOne]
  /\ UNCHANGED <<disk, threads, app, wizard>>
(* Also before the worker's last message is read.                           *)
compose_another ==
  /\ shown /\ session.flow # NoOne /\ session.flow.published
  /\ session' = [session EXCEPT !.handle = NoOne, !.resolved = NoOne, !.resolve_rx = NoRx, !.confirm = FALSE,
                                !.flow = NoOne, !.send_rx = NoRx, !.send_id = NoOne]
  /\ threads' = dropped({session.resolve_rx, session.send_rx})
  /\ UNCHANGED <<disk, app, wizard>>

refresh_pending(ss, e) == [ss EXCEPT !.pending = incomplete(ss.p)]
poll_send_worker ==
  /\ shown /\ work_in_flight /\ threads[session.send_rx].ch # <<>>
  /\ LET e == Head(threads[session.send_rx].ch)
         ss == [session EXCEPT !.flow = IF @ = NoOne THEN @ ELSE apply(@, e)] IN
     IF e.k \in {"Ok", "Err"}
       THEN /\ session' = refresh_pending([ss EXCEPT !.send_rx = NoRx], e)
            /\ threads' = [threads EXCEPT ![session.send_rx] = Free]
       ELSE /\ session' = IF e.k = "Checkpointed" THEN [ss EXCEPT !.send_id = e.i] ELSE ss
            /\ threads' = [threads EXCEPT ![session.send_rx].ch = Tail(@)]
  /\ UNCHANGED <<disk, app, wizard>>

-----------------------------------------------------------------------------
(* How it starts: "ready", a registered profile with an interrupted send,   *)
(* and room for another; "two", two without one; "bare", an empty home;     *)
(* "legacy", with a migration on offer; "old", a profile on a retired       *)
(* store; "old_send", such a profile with an interrupted send.  In the last *)
(* four the other profile was deleted, and no other is set up.              *)
(*                                                                          *)
(* Without a profile root there is no picker, and so no switch, archive or  *)
(* wizard: such a launch does less than this one and is not told apart.     *)
Init ==
  \E from \in Starts, first \in Profiles :
    /\ dirs = [p \in Profiles |->
         IF p = first THEN [place |-> "live",
                            stage |-> IF from = "bare" THEN "empty" ELSE "registered",
                            store |-> IF from \in {"old", "old_send"} THEN "old" ELSE "v4"]
         ELSE [place |-> CASE from = "ready" -> "absent" [] from = "two" -> "live" [] OTHER -> "gone",
               stage |-> "registered", store |-> "v4"]]
    /\ sends = [id \in SendIds |-> IF from \in {"ready", "old_send"} THEN [p |-> first, st |-> "pending"]
                                                                   ELSE NoFile]
    /\ threads = [s \in Slots |-> Free]
    /\ app = [locked |-> TRUE, migration |-> from = "legacy", initial |-> first, reopen |-> NoOne]
    /\ wizard = NoRx
    /\ session = NoOne

WorkerStep(s) ==
  \/ \E ok \in BOOLEAN : one_shot(s, ok)
  \/ \E ok \in BOOLEAN : begin_send(s, ok)
  \/ prove_fails(s)
  \/ \E id \in SendIds : prove_and_save(s, id)
  \/ \E how \in {"done", "stale", "failed"} : publish(s, how)
Poll == poll_worker \/ poll_inbox_worker \/ poll_compose_worker \/ poll_send_worker \/ poll_setup
User(s) ==
  \/ init(s) \/ register(s) \/ refresh(s) \/ buy_tickets(s) \/ refresh_inbox(s)
  \/ resolve(s) \/ start_send(s) \/ flow_resume(s)
  \/ \E id \in SendIds : banner_resume(s, id)
  \/ \E p \in Profiles : spawn_setup(s, p)
Next ==
  \/ \E s \in Slots : WorkerStep(s) \/ User(s)
  \/ Poll
  \/ lock_click \/ idle_lock \/ unlock \/ open_initial \/ not_now \/ after_wipe \/ kill
  \/ migrate_store \/ send_click \/ cancel_send \/ back_to_message \/ compose_another
  \/ \E p \in Profiles : run_migration(p) \/ switch_profile(p) \/ open_request(p) \/ unarchive(p)
  \/ \E p \in Profiles : archive(p)
  \/ \E p \in Profiles, next \in Profiles \cup {NoOne} : delete(p, next)
  \/ \E h \in Handles : edit(h)
  \/ \E id \in SendIds : dismiss(id)

Spec == Init /\ [][Next]_vars

-----------------------------------------------------------------------------
(* Nothing a worker of another profile found is ever on display: a switch,  *)
(* a deletion or a finished wizard drops the receivers with the session.    *)
ShownIsOwn == session # NoOne => session.of \subseteq {session.p}

(* Of the workers the window still listens to, one at most pays from an     *)
(* account, and none registers or sets up a profile while a send runs.      *)
(* One send at a time in the whole program, whoever listens to it: neither  *)
(* the banner, nor the failed checklist, nor a new session or the form      *)
(* starts a second one beside the first.  (A resume of a published send     *)
(* does nothing and does not count: a row of the banner may be out of date.)*)
listening(kinds) == {s \in Slots : held(s) /\ runs(s, kinds)}
may_publish(s) == runs(s, {"send"}) \/ (runs(s, {"resume"}) /\ ~threads[s].arg.done)
OnePaidFlow ==
  /\ Cardinality(listening({"register", "buy", "setup"})) <= 1
  /\ listening({"register", "setup"}) = {} \/ listening({"send", "resume"}) = {}
  /\ Cardinality({s \in Slots : may_publish(s)}) <= 1

(* A resolution on display is of the handle on display, however late it     *)
(* came and whatever was typed meanwhile.                                   *)
ResolvedIsShown ==
  session # NoOne /\ session.resolved \in Handles => session.resolved = session.handle

(* No send is left without a way on once no worker runs.  One that failed   *)
(* can be resumed from its saved state, or its message edited, or, published *)
(* after all, another be written; one that was interrupted is offered again, *)
(* unless the user dismissed it since.                                      *)
NoSendStranded ==
  session # NoOne /\ ~work_in_flight =>
    /\ session.flow # NoOne /\ session.flow.error =>
         failed(session.flow) \/ session.flow.published
    /\ dirs[session.p].place = "live" =>
         \A id \in incomplete(session.p) :
           \/ id \in session.pending \cup session.dismissed
           \/ failed(session.flow) /\ session.send_id = id

=============================================================================
