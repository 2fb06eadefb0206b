--------------------------- MODULE GuiSessionProofs ---------------------------
(***************************************************************************)
(* What the user of the window can rely on, for any profiles, handles,      *)
(* sends and threads, and any mix of clicks, locks, wipes and kills.        *)
(***************************************************************************)
EXTENDS GuiSession, SequenceTheorems, FiniteSetTheorems, TLAPS

Sending == {"send", "resume"}
OnRx    == {"status", "init", "register", "buy"}

(* The type invariant, by owner. *)
DiskTyped    == dirs \in [Profiles -> Dir] /\ sends \in [SendIds -> SendFile]
ThreadsTyped == threads \in [Slots -> Thread]
WindowTyped  == app \in App /\ wizard \in Rx /\ session \in ProfileSession \cup {NoOne}
Typed == DiskTyped /\ ThreadsTyped /\ WindowTyped

open == session # NoOne
receiver == threads[session.send_rx]    \* the send worker listened to

(* A receiver is a worker of its kind, for the profile of the session.      *)
Own ==
  /\ open =>
       /\ session.rx # NoRx => threads[session.rx].kind \in OnRx /\ threads[session.rx].p = session.p
       /\ session.inbox_rx # NoRx =>
            threads[session.inbox_rx].kind = "inbox" /\ threads[session.inbox_rx].p = session.p
       /\ session.resolve_rx # NoRx =>
            threads[session.resolve_rx].kind = "resolve" /\ threads[session.resolve_rx].arg = session.handle
       /\ session.send_rx # NoRx => receiver.kind \in Sending /\ receiver.p = session.p
       /\ session.of \subseteq {session.p}
       /\ session.resolved \in Handles => session.resolved = session.handle
  /\ wizard # NoRx => threads[wizard].kind = "setup"

(* What a worker says last it says when it ends, and a thread that ended    *)
(* and is not listened to is gone.                                          *)
Said(ch) == {ch[i] : i \in 1..Len(ch)}
Says(s, k) == \E i \in 1..Len(threads[s].ch) : threads[s].ch[i].k = k
Tidy ==
  \A s \in Slots :
    LET t == threads[s] IN
    /\ t.pc = "ended" => held(s)
    /\ t.pc = "free" <=> t.kind = "none"
    /\ t.pc = "free" => t = Free
    /\ t.kind # "none" => t.p \in Profiles
    /\ Says(s, "Ok") \/ Says(s, "Err") \/ Says(s, "Completed") => t.pc = "ended"
    /\ t.kind \in Sending => t.arg \in Resuming
    /\ t.kind = "send" => ~t.arg.done
    /\ t.kind = "resume" => t.arg.id \in SendIds
    /\ t.pc = "prove" => t.kind = "send"
    /\ t.pc = "publish" => t.kind \in Sending /\ ~t.arg.done /\ t.arg.id \in SendIds

(* A session is shown in a window that is neither locked nor starting, and  *)
(* its profile is there; so is one about to be opened.                      *)
Live(p) == p # NoOne => dirs[p].place = "live"
Framed ==
  /\ ~framed => ~open
  /\ ~app.locked => app.reopen = NoOne
  /\ Live(app.initial) /\ Live(app.reopen)
  /\ open => Live(session.p)
  /\ wizard # NoRx /\ Says(wizard, "Ok") => Live(threads[wizard].p)

(* The window lets nothing be paid beside a setup.                          *)
Alone ==
  open /\ wizard # NoRx =>
    session.send_rx = NoRx /\ (session.rx # NoRx => threads[session.rx].kind \in {"status", "init"})

(* A profile that is not registered has no send.  So has the one shown,     *)
(* when it is shown as not registered: what is shown never runs ahead.      *)
NoSends(p) ==
  /\ \A id \in SendIds : sends[id].p # p
  /\ \A s \in Slots : threads[s].kind \in Sending => threads[s].p # p
Fresh ==
  /\ \A p \in Profiles : dirs[p].stage # "registered" => NoSends(p)
  /\ \A p \in Profiles : dirs[p].store = "old" => \A id \in SendIds : sends[id].p = p => sends[id].st = "pending"
  /\ \A s \in Slots :
       threads[s].kind \in Sending /\ (threads[s].kind = "send" \/ threads[s].arg.done \/ threads[s].pc = "publish") =>
         dirs[threads[s].p].store = "v4"
  /\ open =>
       /\ session.stage # "registered" => NoSends(session.p)
       /\ session.rx # NoRx /\ threads[session.rx].kind = "register" => session.stage = "keys"
       /\ session.stage = "registered" => dirs[session.p].stage = "registered"
       /\ session.store = "v4" => dirs[session.p].store = "v4"
       /\ session.confirm => session.store = "v4"

(* The sends that the session and its worker name are the profile's.        *)
Ours(id) == id # NoOne => sends[id].p = session.p
Ids ==
  /\ \A id \in SendIds : sends[id].st = "none" => sends[id] = NoFile
  /\ open =>
       /\ Ours(session.send_id)
       /\ \A id \in session.pending : Ours(id)
       /\ session.send_rx # NoRx =>
            /\ Ours(receiver.arg.id)
            /\ \A e \in Said(receiver.ch) : e.k = "Checkpointed" => e.i \in SendIds /\ Ours(e.i)

(* A thread that pays and is not listened to is what a wipe left running:    *)
(* there is one at most, and nothing it could work on.                       *)
Orphan(s) == alive(s) /\ ~held(s) /\ (threads[s].kind = "setup" \/ may_publish(s))
Dead ==
  /\ ~open /\ wizard = NoRx /\ app.initial = NoOne /\ app.reopen = NoOne /\ ~app.migration
  /\ \A p \in Profiles : dirs[p].place \notin {"live", "archived"}
Orphans == \A s \in Slots : Orphan(s) => Dead /\ \A r \in Slots : Orphan(r) => r = s

(* The checklist of a running send shows no failure, and a send it shows as  *)
(* published is.                                                             *)
Flows ==
  open /\ session.send_rx # NoRx =>
    /\ session.flow # NoOne /\ ~session.flow.error /\ \A i \in Plan : session.flow.steps[i] # "Failed"
    /\ session.flow.published \/ Says(session.send_rx, "Completed") =>
         /\ ~may_publish(session.send_rx)
         /\ receiver.arg.id \in SendIds /\ sends[receiver.arg.id].st = "done"
    /\ receiver.arg.done => sends[receiver.arg.id].st = "done"

(* An interrupted send is offered, or was dismissed, or is under way.       *)
Offered ==
  /\ open => \A id \in incomplete(session.p) :
               \/ id \in session.pending \cup session.dismissed
               \/ session.send_rx # NoRx /\ id = receiver.arg.id
  /\ open /\ session.send_rx # NoRx /\ receiver.kind = "send" /\ receiver.pc \in {"begin", "prove"} => receiver.arg.id = NoOne

(* A step is open for a worker that may still fail: shown as running, or     *)
(* about to be, and not completed.  One that fails leaves a step open, and a *)
(* step that is open when the failure is read is the one shown as failed.    *)
Untouched(flow, ch, i) == flow.steps[i] # "Done" /\ Ev("StepCompleted", i) \notin Said(ch)
Open(flow, ch, i) ==
  Untouched(flow, ch, i) /\ (flow.steps[i] = "Running" \/ Ev("Started", i) \in Said(ch))
Closed(ch) == \A i \in 1..Len(ch) : ch[i].k = "Err" => i = Len(ch)
Way(flow, t) ==
  /\ Closed(t.ch)
  /\ t.pc = "begin" => t.ch = <<>> /\ (t.kind = "send" => flow = virtual_plan)
  /\ t.pc \in {"begin", "prove", "publish"} /\ ~t.arg.done => Untouched(flow, t.ch, 3)
  /\ t.pc = "prove" => Open(flow, t.ch, 2)
  /\ t.pc = "publish" => Open(flow, t.ch, 3)
  /\ (\E e \in Said(t.ch) : e.k = "Err") =>
       /\ \A e \in Said(t.ch) : e.k # "Completed"
       /\ flow.published \/ \E i \in Plan : Open(flow, t.ch, i)
  /\ t.arg.done => flow.published
Recoverable ==
  /\ \A p \in Profiles : dirs[p].store = "old" => \A id \in SendIds : sends[id].p # p
  /\ open /\ session.send_rx # NoRx => Way(session.flow, receiver)
  /\ open /\ session.send_rx = NoRx /\ session.flow # NoOne /\ session.flow.error =>
       failed(session.flow) \/ session.flow.published

Inv == Typed /\ Own /\ Tidy /\ Framed /\ Alone /\ Fresh /\ Ids /\ Orphans /\ Flows /\ Offered
-----------------------------------------------------------------------------
(* Threads *)

(* What a step may do to a thread.                                           *)
Born(r, kind, p, arg) ==
  threads[r] = Free /\ threads'[r] = [kind |-> kind, p |-> p, arg |-> arg, pc |-> "begin", ch |-> <<>>]
Gone(r) == threads'[r] = Free /\ ~held(r)'
Deaf(r) == threads'[r] = [threads[r] EXCEPT !.ch = <<>>] /\ threads[r].pc # "ended" /\ ~held(r)'

LEMMA Receivers ==
  /\ \A r : held(r) <=> (open /\ r \in {session.rx, session.inbox_rx, session.resolve_rx, session.send_rx})
                         \/ r = wizard
  /\ \A r : held(r)' <=> (open' /\ r \in {session'.rx, session'.inbox_rx, session'.resolve_rx, session'.send_rx})
                         \/ r = wizard'
BY DEF held, receivers, open

LEMMA Frees ==
  /\ Free.kind = "none" /\ Free.p = NoOne /\ Free.arg = NoOne /\ Free.pc = "free" /\ Free.ch = <<>>
  /\ Free \in Thread /\ \A t \in Thread : [t EXCEPT !.ch = <<>>] \in Thread
<1>1. <<>> \in Seq(Event)
  OBVIOUS
<1>2. \A t \in Thread : [t EXCEPT !.ch = <<>>] \in Thread
  BY <1>1 DEF Thread
<1> QED
  BY <1>1, <1>2 DEF Free, Thread

LEMMA Shown ==
  ASSUME Typed, open
  PROVE  session \in ProfileSession
BY DEF Typed, WindowTyped, open

(* A receiver dropped is freed, or goes on unheard.                          *)
LEMMA Dropped ==
  ASSUME ThreadsTyped, NEW rxs, threads' = dropped(rxs), \A r \in rxs : ~held(r)'
  PROVE  /\ \A r \in Slots \ rxs : threads'[r] = threads[r]
         /\ \A r \in rxs \cap Slots : Gone(r) \/ Deaf(r)
         /\ ThreadsTyped'
<1>1. \A r \in Slots : threads'[r] = IF r \notin rxs THEN threads[r]
                                   ELSE IF threads[r].pc = "ended" THEN Free ELSE [threads[r] EXCEPT !.ch = <<>>]
  BY DEF dropped
<1>2. \A r \in Slots : threads'[r] \in Thread
  BY <1>1, Frees DEF ThreadsTyped
<1>3. threads' = [r \in Slots |-> threads'[r]]
  BY DEF dropped
<1> QED
  BY <1>1, <1>2, <1>3 DEF Gone, Deaf, ThreadsTyped

LEMMA Spawned ==
  ASSUME ThreadsTyped, NEW s \in Slots, s \in slot(threads), NEW kind \in Kinds, NEW p \in Profiles,
         NEW arg \in Handles \cup {NoOne} \cup Resuming, threads' = spawned(threads, s, kind, p, arg)
  PROVE  /\ \A r \in Slots \ {s} : threads'[r] = threads[r]
         /\ Born(s, kind, p, arg)
         /\ ThreadsTyped'
<1>1. [kind |-> kind, p |-> p, arg |-> arg, pc |-> "begin", ch |-> <<>>] \in Thread
  BY DEF Thread
<1> QED
  BY <1>1 DEF spawned, slot, ThreadsTyped, Born

LEMMA Freed ==
  ASSUME ThreadsTyped, NEW s \in Slots, threads' = [threads EXCEPT ![s] = Free], ~held(s)'
  PROVE  /\ \A r \in Slots \ {s} : threads'[r] = threads[r]
         /\ Gone(s)
         /\ ThreadsTyped'
BY Frees DEF ThreadsTyped, Gone

(* What the window listens to is told apart by its kind.                     *)
LEMMA Distinct ==
  ASSUME Typed, Own
  PROVE  \A r \in Slots :
           /\ open /\ r = session.rx => r \notin {session.inbox_rx, session.resolve_rx, session.send_rx, wizard}
           /\ open /\ r = session.inbox_rx => r \notin {session.rx, session.resolve_rx, session.send_rx, wizard}
           /\ open /\ r = session.resolve_rx => r \notin {session.rx, session.inbox_rx, session.send_rx, wizard}
           /\ open /\ r = session.send_rx => r \notin {session.rx, session.inbox_rx, session.resolve_rx, wizard}
<1>1. \A r \in Slots : r # NoRx
  BY GuiAssumption DEF Slots, NoRx
<1> QED
  BY <1>1 DEF Own, OnRx, Sending, receiver

LEMMA Edited ==
  ASSUME session \in ProfileSession
  PROVE  DOMAIN session = {"p", "stage", "store", "of", "rx", "inbox_rx", "resolve_rx", "send_rx", "handle",
                           "resolved", "confirm", "flow", "send_id", "pending", "dismissed"}
BY DEF ProfileSession

-----------------------------------------------------------------------------
(* Sessions *)

LEMMA ChecklistTyped ==
  ASSUME NEW flow \in SendFlow, NEW e
  PROVE  apply(flow, e) \in SendFlow
<1>1. \A i, st : st \in StepStatus => set_pending(flow, i, st) \in SendFlow
  BY DEF set_pending, SendFlow
<1>2. fail(flow) \in SendFlow
  BY DEF fail, SendFlow, StepStatus
<1>3. [flow EXCEPT !.steps = [i \in Plan |-> IF @[i] = "Failed" THEN @[i] ELSE "Done"], !.published = TRUE]
        \in SendFlow
  BY DEF SendFlow, StepStatus
<1> QED
  BY <1>1, <1>2, <1>3 DEF apply, StepStatus

LEMMA PlansTyped ==
  virtual_plan \in SendFlow /\ \A id \in SendIds : from_state(id) \in SendFlow
BY DEF virtual_plan, from_state, SendFlow, StepStatus

LEMMA NewTyped ==
  ASSUME Typed, NEW p \in Profiles
  PROVE  NewSession(p) \in ProfileSession
BY DEF NewSession, ProfileSession, Typed, DiskTyped, Dir, incomplete, Rx

KeptIn(ss, new) == new \in ProfileSession /\ new.p = ss.p

(* A session is closed, opened, or edited. *)
MovedAway(p) == archive(p) \/ \E next \in Profiles \cup {NoOne} : delete(p, next)
CloseAction == lock_click \/ idle_lock \/ after_wipe \/ kill \/ \E p \in Profiles : MovedAway(p)
OpenAction ==
  \/ open_initial \/ poll_setup
  \/ \E p \in Profiles : run_migration(p) \/ switch_profile(p) \/ open_request(p) \/ MovedAway(p)
SessionStep ==
  \/ session' = session
  \/ session' = NoOne /\ CloseAction
  \/ \E p \in Profiles : session' = NewSession(p) /\ dirs[p].place = "live" /\ OpenAction
  \/ open /\ open' /\ KeptIn(session, session')

(* Typing of the edits, one to a form.                                       *)
LEMMA Edits ==
  ASSUME NEW ss \in ProfileSession
  PROVE  /\ \A h \in Handles \cup {NoOne} :
              KeptIn(ss, [ss EXCEPT !.handle = h, !.resolved = NoOne, !.resolve_rx = NoRx])
         /\ KeptIn(ss, [ss EXCEPT !.handle = NoOne, !.resolved = NoOne, !.resolve_rx = NoRx, !.confirm = FALSE,
                       !.flow = NoOne, !.send_rx = NoRx, !.send_id = NoOne])
         /\ \A s \in Rx : /\ KeptIn(ss, [ss EXCEPT !.rx = s]) /\ KeptIn(ss, [ss EXCEPT !.inbox_rx = s])
                         /\ KeptIn(ss, [ss EXCEPT !.send_rx = s])
         /\ \A s \in Slots : KeptIn(ss, [ss EXCEPT !.resolved = NoOne, !.resolve_rx = s])
         /\ \A b \in BOOLEAN : KeptIn(ss, [ss EXCEPT !.confirm = b])
         /\ KeptIn(ss, [ss EXCEPT !.flow = NoOne, !.send_id = NoOne])
         /\ \A s \in Slots, f \in SendFlow :
              /\ KeptIn(ss, [ss EXCEPT !.confirm = FALSE, !.flow = f, !.send_id = NoOne, !.send_rx = s])
              /\ \A id \in SendIds : KeptIn(ss, [ss EXCEPT !.flow = f, !.send_id = id, !.send_rx = s])
         /\ KeptIn(ss, [ss EXCEPT !.stage = "keys", !.store = "v4", !.of = {}])
         /\ \A id \in SendIds :
              /\ KeptIn(ss, [ss EXCEPT !.pending = @ \ {id}])
              /\ KeptIn(ss, [ss EXCEPT !.pending = @ \ {id}, !.dismissed = @ \cup {id}])
<1>1. ASSUME NEW h \in Handles \cup {NoOne}
      PROVE  KeptIn(ss, [ss EXCEPT !.handle = h, !.resolved = NoOne, !.resolve_rx = NoRx])
  BY DEF KeptIn, ProfileSession, Rx
<1>2. KeptIn(ss, [ss EXCEPT !.handle = NoOne, !.resolved = NoOne, !.resolve_rx = NoRx, !.confirm = FALSE,
                 !.flow = NoOne, !.send_rx = NoRx, !.send_id = NoOne])
  BY DEF KeptIn, ProfileSession, Rx
<1>3. ASSUME NEW s \in Slots
      PROVE  KeptIn(ss, [ss EXCEPT !.resolved = NoOne, !.resolve_rx = s])
  BY DEF KeptIn, ProfileSession, Rx
<1>4. \A b \in BOOLEAN : KeptIn(ss, [ss EXCEPT !.confirm = b])
  BY DEF KeptIn, ProfileSession, Rx
<1>5. KeptIn(ss, [ss EXCEPT !.flow = NoOne, !.send_id = NoOne])
  BY DEF KeptIn, ProfileSession, Rx
<1>6. ASSUME NEW s \in Slots, NEW f \in SendFlow
      PROVE  /\ KeptIn(ss, [ss EXCEPT !.confirm = FALSE, !.flow = f, !.send_id = NoOne, !.send_rx = s])
             /\ \A id \in SendIds : KeptIn(ss, [ss EXCEPT !.flow = f, !.send_id = id, !.send_rx = s])
  <2>1. KeptIn(ss, [ss EXCEPT !.confirm = FALSE, !.flow = f, !.send_id = NoOne, !.send_rx = s])
    BY DEF KeptIn, ProfileSession, Rx
  <2>2. ASSUME NEW id \in SendIds
        PROVE  KeptIn(ss, [ss EXCEPT !.flow = f, !.send_id = id, !.send_rx = s])
    BY DEF KeptIn, ProfileSession, Rx
  <2> QED
    BY <2>1, <2>2
<1>7. KeptIn(ss, [ss EXCEPT !.stage = "keys", !.store = "v4", !.of = {}])
  BY DEF KeptIn, ProfileSession, Stages
<1>8. ASSUME NEW id \in SendIds
      PROVE  /\ KeptIn(ss, [ss EXCEPT !.pending = @ \ {id}])
             /\ KeptIn(ss, [ss EXCEPT !.pending = @ \ {id}, !.dismissed = @ \cup {id}])
  <2>1. ss.pending \ {id} \in SUBSET SendIds /\ ss.dismissed \cup {id} \in SUBSET SendIds
    BY DEF KeptIn, ProfileSession
  <2>2. KeptIn(ss, [ss EXCEPT !.pending = @ \ {id}])
    BY <2>1 DEF KeptIn, ProfileSession
  <2>3. KeptIn(ss, [ss EXCEPT !.pending = @ \ {id}, !.dismissed = @ \cup {id}])
    BY <2>1 DEF KeptIn, ProfileSession
  <2> QED
    BY <2>2, <2>3
<1>9. ASSUME NEW s \in Rx
      PROVE  /\ KeptIn(ss, [ss EXCEPT !.rx = s]) /\ KeptIn(ss, [ss EXCEPT !.inbox_rx = s])
             /\ KeptIn(ss, [ss EXCEPT !.send_rx = s])
  <2>1. KeptIn(ss, [ss EXCEPT !.rx = s])
    BY DEF KeptIn, ProfileSession
  <2>2. KeptIn(ss, [ss EXCEPT !.inbox_rx = s])
    BY DEF KeptIn, ProfileSession
  <2>3. KeptIn(ss, [ss EXCEPT !.send_rx = s])
    BY DEF KeptIn, ProfileSession
  <2> QED
    BY <2>1, <2>2, <2>3
<1> QED
  BY <1>1, <1>2, <1>3, <1>4, <1>5, <1>6, <1>7, <1>8, <1>9

LEMMA Messages ==
  ASSUME Typed, Tidy, NEW s \in Slots, threads[s].ch # <<>>
  PROVE  /\ threads[s].kind # "none" /\ threads[s].p \in Profiles
         /\ Head(threads[s].ch) \in Event /\ Says(s, Head(threads[s].ch).k)
<1>1. threads[s] \in Thread /\ threads[s].ch \in Seq(Event)
  BY DEF Typed, ThreadsTyped, Thread
<1>2. threads[s].kind # "none" /\ threads[s].p \in Profiles
  BY Frees DEF Tidy
<1>3. 1 \in 1..Len(threads[s].ch) /\ Head(threads[s].ch) = threads[s].ch[1]
  BY <1>1
<1> QED
  BY <1>1, <1>2, <1>3 DEF Says

(* What the window reads from a worker it notes in the session.              *)
LEMMA PollsEdit ==
  ASSUME Typed, Own, Tidy, Ids, poll_worker \/ poll_inbox_worker \/ poll_compose_worker \/ poll_send_worker
  PROVE  open /\ open' /\ KeptIn(session, session')
<1>t. /\ open => session \in ProfileSession
      /\ \A s \in Slots : s \in Rx /\ NoRx \in Rx
  BY Shown DEF Rx
<1>ed. ASSUME open, KeptIn(session, session')
       PROVE  open /\ open' /\ KeptIn(session, session')
  BY <1>ed, AbsenceAssumption DEF KeptIn, open
<1>1. CASE poll_worker
  <2>1. open /\ session.rx \in Slots /\ threads[session.rx].ch # <<>>
    BY <1>1, <1>t DEF poll_worker, worker_busy, shown, open, ProfileSession, Rx
  <2>2. dirs[session.p] \in Dir
    BY <1>t, <2>1 DEF ProfileSession, Typed, DiskTyped
  <2>3. PICK ss : ss = [session EXCEPT !.rx = NoRx]
    OBVIOUS
  <2>4. KeptIn(session, ss)
    BY <1>t, <2>1, <2>3, Edits
  <2>5. session' \in {ss, [ss EXCEPT !.of = @ \cup {threads[session.rx].p}],
                     [ss EXCEPT !.stage = dirs[ss.p].stage, !.store = dirs[ss.p].store]}
    BY <1>1, <2>3 DEF poll_worker, rx_cleared, reload_local_state
  <2>6. ss.of \cup {threads[session.rx].p} \in SUBSET Profiles
    BY Messages, <2>1, <2>4 DEF KeptIn, ProfileSession
  <2>7. KeptIn(session, [ss EXCEPT !.of = @ \cup {threads[session.rx].p}])
    BY <2>4, <2>6 DEF KeptIn, ProfileSession
  <2>8. dirs[ss.p].stage \in Stages /\ dirs[ss.p].store \in {"v4", "old"}
    BY <2>2, <2>4 DEF KeptIn, Dir
  <2>9. KeptIn(session, [ss EXCEPT !.stage = dirs[ss.p].stage, !.store = dirs[ss.p].store])
    BY <2>4, <2>8 DEF KeptIn, ProfileSession
  <2> QED
    BY <1>ed, <2>1, <2>4, <2>5, <2>7, <2>9
<1>2. CASE poll_inbox_worker
  <2>1. open /\ session.inbox_rx \in Slots /\ threads[session.inbox_rx].ch # <<>>
    BY <1>2, <1>t DEF poll_inbox_worker, shown, open, ProfileSession, Rx
  <2>2. PICK of \in SUBSET Profiles : session' = [session EXCEPT !.inbox_rx = NoRx, !.of = of]
    <3>1. session.of \in SUBSET Profiles /\ session.of \cup {threads[session.inbox_rx].p} \in SUBSET Profiles
      BY Messages, <1>t, <2>1 DEF ProfileSession
    <3>2. session' = [session EXCEPT !.inbox_rx = NoRx, !.of = session.of]
          \/ session' = [session EXCEPT !.inbox_rx = NoRx, !.of = session.of \cup {threads[session.inbox_rx].p}]
      BY <1>2 DEF poll_inbox_worker
    <3> QED
      BY <3>1, <3>2
  <2>3. KeptIn(session, [session EXCEPT !.inbox_rx = NoRx, !.of = of])
    BY <1>t, <2>1 DEF KeptIn, ProfileSession
  <2> QED
    BY <1>ed, <2>1, <2>2, <2>3
<1>3. CASE poll_compose_worker
  <2>1. open /\ session.resolve_rx \in Slots
    BY <1>3, <1>t DEF poll_compose_worker, shown, open, ProfileSession, Rx
  <2>2. PICK h \in Handles \cup {NoOne, "unknown handle"} :
          session' = [session EXCEPT !.resolve_rx = NoRx, !.resolved = h]
    <3>1. threads[session.resolve_rx].arg = session.handle /\ session.handle \in Handles \cup {NoOne}
      <4>1. session.resolve_rx # NoRx
        BY <2>1, GuiAssumption DEF Slots, NoRx
      <4>2. session.handle \in Handles \cup {NoOne}
        BY <1>t, <2>1 DEF ProfileSession
      <4> QED
        BY <2>1, <4>1, <4>2 DEF Own
    <3>2. \/ session' = [session EXCEPT !.resolve_rx = NoRx, !.resolved = session.handle]
          \/ session' = [session EXCEPT !.resolve_rx = NoRx, !.resolved = "unknown handle"]
      BY <1>3, <3>1 DEF poll_compose_worker
    <3> QED
      BY <3>1, <3>2
  <2>3. KeptIn(session, [session EXCEPT !.resolve_rx = NoRx, !.resolved = h])
    BY <1>t, <2>1 DEF KeptIn, ProfileSession
  <2> QED
    BY <1>ed, <2>1, <2>2, <2>3
<1>4. CASE poll_send_worker
  <2>1. open /\ session.send_rx \in Slots /\ threads[session.send_rx].ch # <<>>
    BY <1>4, <1>t DEF poll_send_worker, work_in_flight, shown, open, ProfileSession, Rx
  <2>2. PICK e \in Event : e = Head(threads[session.send_rx].ch)
    BY <2>1, Messages
  <2>3. PICK f \in SendFlow \cup {NoOne} : f = IF session.flow = NoOne THEN NoOne ELSE apply(session.flow, e)
    BY <1>t, <2>1, ChecklistTyped DEF ProfileSession
  <2>4. PICK ss : ss = [session EXCEPT !.flow = f]
    OBVIOUS
  <2>5. KeptIn(session, ss)
    BY <1>t, <2>1, <2>4 DEF KeptIn, ProfileSession
  <2>6. ss = [session EXCEPT !.flow = IF @ = NoOne THEN @ ELSE apply(@, e)]
    BY <2>3, <2>4
  <2>7. \/ session' = [[ss EXCEPT !.send_rx = NoRx] EXCEPT !.pending = incomplete([ss EXCEPT !.send_rx = NoRx].p)]
        \/ session' = [ss EXCEPT !.send_id = e.i] /\ e.k = "Checkpointed"
        \/ session' = ss
    BY <1>4, <2>2, <2>6 DEF poll_send_worker, refresh_pending
  <2>8. incomplete([ss EXCEPT !.send_rx = NoRx].p) \in SUBSET SendIds
    BY DEF incomplete
  <2>9. KeptIn(session, [ss EXCEPT !.send_rx = NoRx])
    BY <2>5 DEF KeptIn, ProfileSession, Rx
  <2>10. KeptIn(session, [[ss EXCEPT !.send_rx = NoRx] EXCEPT !.pending = incomplete([ss EXCEPT !.send_rx = NoRx].p)])
    BY <2>8, <2>9 DEF KeptIn, ProfileSession
  <2>11. ASSUME e.k = "Checkpointed"
         PROVE  KeptIn(session, [ss EXCEPT !.send_id = e.i])
    <3>1. session.send_rx # NoRx
      BY <2>1, GuiAssumption DEF Slots, NoRx
    <3>2. threads[session.send_rx].ch \in Seq(Event)
      BY <2>1 DEF Typed, ThreadsTyped, Thread
    <3>3. 1 \in 1..Len(threads[session.send_rx].ch) /\ e = threads[session.send_rx].ch[1]
      BY <2>1, <2>2, <3>2
    <3>4. e.i \in SendIds
      BY <2>1, <2>11, <3>1, <3>3 DEF Ids, receiver, Said
    <3> QED
      BY <2>5, <3>4 DEF KeptIn, ProfileSession
  <2> QED
    BY <1>ed, <2>1, <2>5, <2>7, <2>10, <2>11
<1> QED
  BY <1>1, <1>2, <1>3, <1>4

LEMMA SessionSteps ==
  ASSUME Typed, Own, Tidy, Framed, Ids, Next
  PROVE  SessionStep
<1>t. /\ open => session \in ProfileSession
      /\ \A s \in Slots : s \in Rx /\ NoRx \in Rx
  BY Shown DEF Rx
<1>ed. ASSUME open, KeptIn(session, session')
       PROVE  SessionStep
  BY <1>ed, AbsenceAssumption DEF SessionStep, KeptIn, open
<1>1. ASSUME NEW s \in Slots, User(s)
      PROVE  SessionStep
  <2>1. CASE init(s) \/ register(s) \/ refresh(s) \/ buy_tickets(s)
    BY <1>t, <1>ed, <2>1, Edits DEF init, register, refresh, buy_tickets, start, shown, open
  <2>2. CASE refresh_inbox(s)
    BY <1>t, <1>ed, <2>2, Edits DEF refresh_inbox, start, shown, open
  <2>3. CASE resolve(s)
    BY <1>t, <1>ed, <2>3, Edits DEF resolve, form_shown, shown, open
  <2>4. CASE start_send(s)
    <3>1. open /\ session' \in {[session EXCEPT !.confirm = FALSE],
                  [session EXCEPT !.confirm = FALSE, !.flow = virtual_plan, !.send_id = NoOne, !.send_rx = s]}
      BY <2>4 DEF start_send, shown, open
    <3>2. KeptIn(session, [session EXCEPT !.confirm = FALSE])
      BY <1>t, <3>1, Edits
    <3>3. KeptIn(session, [session EXCEPT !.confirm = FALSE, !.flow = virtual_plan, !.send_id = NoOne, !.send_rx = s])
      BY <1>t, <3>1, Edits, PlansTyped
    <3> QED
      BY <3>1, <3>2, <3>3, <1>ed
  <2>a. ASSUME open, NEW id \in SendIds, NEW ss \in ProfileSession, ss.p = session.p, resume_send(s, id, ss)
        PROVE  SessionStep
    <3>1. ss.p = session.p /\ \A f : [ss EXCEPT !.flow = f, !.send_id = id, !.send_rx = s].p = ss.p
      BY <2>a DEF ProfileSession
    <3>2. session' \in {ss, [ss EXCEPT !.flow = from_state(id), !.send_id = id, !.send_rx = s]}
      BY <2>a DEF resume_send
    <3>3. KeptIn(ss, [ss EXCEPT !.flow = from_state(id), !.send_id = id, !.send_rx = s])
      BY PlansTyped, Edits
    <3> QED
      BY <2>a, <1>ed, <3>1, <3>2, <3>3 DEF KeptIn
  <2>5. CASE flow_resume(s)
    <3>1. open /\ session.send_id \in SendIds /\ resume_send(s, session.send_id, session)
      BY <1>t, <2>5 DEF flow_resume, resumable, shown, open, ProfileSession
    <3> QED
      BY <1>t, <2>a, <3>1
  <2>6. ASSUME NEW id \in SendIds, banner_resume(s, id)
        PROVE  SessionStep
    <3>1. open /\ resume_send(s, id, [session EXCEPT !.pending = @ \ {id}])
      BY <2>6 DEF banner_resume, shown, open
    <3>2. KeptIn(session, [session EXCEPT !.pending = @ \ {id}])
      BY <1>t, <3>1, Edits
    <3> QED
      BY <2>a, <3>1, <3>2 DEF KeptIn
  <2>7. ASSUME NEW p \in Profiles, spawn_setup(s, p)
        PROVE  SessionStep
    BY <2>7 DEF spawn_setup, SessionStep
  <2> QED
    BY <1>1, <2>1, <2>2, <2>3, <2>4, <2>5, <2>6, <2>7 DEF User
<1>2. CASE poll_worker \/ poll_inbox_worker \/ poll_compose_worker \/ poll_send_worker
  BY <1>2, PollsEdit DEF SessionStep
<1>4. CASE poll_setup
  <2>1. session' = session \/ (session' = NewSession(threads[wizard].p) /\ Head(threads[wizard].ch).k = "Ok")
    BY <1>4 DEF poll_setup
  <2>2. wizard \in Slots /\ threads[wizard].ch # <<>>
    BY <1>4 DEF poll_setup, locked, Typed, WindowTyped, Rx
  <2>3. threads[wizard].p \in Profiles /\ Says(wizard, Head(threads[wizard].ch).k)
    BY <2>2, Messages
  <2>4. Head(threads[wizard].ch).k = "Ok" => dirs[threads[wizard].p].place = "live"
    BY <1>4, <2>3, AbsenceAssumption DEF Framed, Live, poll_setup, locked
  <2> QED
    BY <1>4, <2>1, <2>3, <2>4 DEF SessionStep, OpenAction
<1>5. CASE lock_click \/ idle_lock \/ after_wipe \/ kill
  <2>1. session' = NoOne
    BY <1>5 DEF lock_click, idle_lock, lock_now, after_wipe, close_session, kill
  <2> QED
    BY <1>5, <2>1 DEF SessionStep, CloseAction
<1>6. CASE unlock \/ not_now
  BY <1>6 DEF unlock, not_now, SessionStep
<1>7. CASE open_initial
  <2>1. app.initial \in Profiles /\ dirs[app.initial].place = "live" /\ session' = NewSession(app.initial)
    BY <1>7 DEF open_initial, open_session, Framed, Live, Typed, WindowTyped, App
  <2> QED
    BY <1>7, <2>1 DEF SessionStep, OpenAction
<1>8. CASE migrate_store \/ send_click \/ cancel_send \/ back_to_message
  <2>1. open /\ session' \in {[session EXCEPT !.stage = "keys", !.store = "v4", !.of = {}],
                              [session EXCEPT !.confirm = TRUE], [session EXCEPT !.confirm = FALSE],
                              [session EXCEPT !.flow = NoOne, !.send_id = NoOne]}
    BY <1>8 DEF migrate_store, send_click, cancel_send, back_to_message, form_shown, shown, open
  <2> QED
    BY <1>t, <2>1, <1>ed, Edits
<1>9. CASE compose_another
  <2>1. open /\ session' = [session EXCEPT !.handle = NoOne, !.resolved = NoOne, !.resolve_rx = NoRx, !.confirm = FALSE,
                                           !.flow = NoOne, !.send_rx = NoRx, !.send_id = NoOne]
    BY <1>9 DEF compose_another, shown, open
  <2> QED
    BY <1>t, <2>1, <1>ed, Edits
<1>10. ASSUME NEW p \in Profiles, run_migration(p) \/ switch_profile(p) \/ open_request(p)
       PROVE  SessionStep
  <2>1. session' = NewSession(p) /\ dirs[p].place = "live"
    BY <1>10 DEF run_migration, switch_profile, open_request, open_session
  <2> QED
    BY <1>10, <2>1 DEF SessionStep, OpenAction
<1>11. ASSUME NEW p \in Profiles, unarchive(p) \/ archive(p)
       PROVE  SessionStep
  <2>1. CASE unarchive(p)
    BY <2>1 DEF unarchive, SessionStep
  <2>2. CASE archive(p)
    <3>1. session' = session \/ session' = NoOne
      BY <2>2 DEF archive, leave, close_session
    <3> QED
      BY <2>2, <3>1 DEF SessionStep, CloseAction, MovedAway
  <2> QED
    BY <1>11, <2>1, <2>2
<1>12. ASSUME NEW p \in Profiles, NEW next \in Profiles \cup {NoOne}, delete(p, next)
       PROVE  SessionStep
  <2>1. \/ session' = session \/ session' = NoOne
        \/ next \in Profiles /\ session' = NewSession(next) /\ dirs[next].place = "live"
    BY <1>12 DEF delete, leave, close_session, open_session
  <2>2. MovedAway(p)
    BY <1>12 DEF MovedAway
  <2> QED
    BY <2>1, <2>2 DEF SessionStep, CloseAction, OpenAction
<1>13. ASSUME NEW h \in Handles, edit(h)
       PROVE  SessionStep
  <2>1. open /\ session' = [session EXCEPT !.handle = h, !.resolved = NoOne, !.resolve_rx = NoRx]
    BY <1>13 DEF edit, edited, form_shown, shown, open
  <2> QED
    BY <1>t, <2>1, <1>ed, Edits
<1>14. ASSUME NEW id \in SendIds, dismiss(id)
       PROVE  SessionStep
  <2>1. open /\ session' = [session EXCEPT !.pending = @ \ {id}, !.dismissed = @ \cup {id}]
    BY <1>14 DEF dismiss, shown, open
  <2> QED
    BY <1>t, <2>1, <1>ed, Edits
<1>15. ASSUME NEW s \in Slots, WorkerStep(s)
       PROVE  SessionStep
  BY <1>15 DEF WorkerStep, one_shot, begin_send, prove_fails, prove_and_save, publish, SessionStep
<1> QED
  BY <1>1, <1>2, <1>4, <1>5, <1>6, <1>7, <1>8, <1>9, <1>10, <1>11, <1>12, <1>13, <1>14, <1>15 DEF Next, Poll

-----------------------------------------------------------------------------

(* What a step of the window does to a thread. *)
Popped(r) == /\ poll_send_worker
             /\ threads'[r] = [threads[r] EXCEPT !.ch = Tail(@)] /\ threads[r].ch # <<>>
             /\ Head(threads[r].ch).k \notin {"Ok", "Err"}
             /\ open /\ r = session.send_rx /\ open' /\ session'.send_rx = r
Same(r)   == threads'[r] = threads[r] /\ (held(r)' <=> held(r))
Begun(r)  == held(r)' /\ \E kind \in Kinds, p \in Profiles, arg \in Handles \cup {NoOne} \cup Resuming :
                            Born(r, kind, p, arg) /\ (kind \in Sending => arg \in Resuming)
                                                 /\ (kind = "send" => ~arg.done) /\ (kind = "resume" => arg.id \in SendIds)
WindowStep(r) == Same(r) \/ Gone(r) \/ (held(r) /\ Deaf(r)) \/ Begun(r) \/ Popped(r)

(* Opening or closing a session drops its receivers.                         *)
LEMMA Leaves ==
  ASSUME Typed, Own, NEW rxs, threads' = dropped(rxs),
         \A r \in Slots : held(r)' <=> held(r) /\ r \notin rxs, rxs \cap Slots \subseteq {r \in Slots : held(r)}
  PROVE  ThreadsTyped' /\ \A r \in Slots : WindowStep(r)
<1>1. /\ \A r \in Slots \ rxs : threads'[r] = threads[r]
      /\ \A r \in rxs \cap Slots : Gone(r) \/ Deaf(r)
      /\ ThreadsTyped'
  <2>1. \A r \in rxs \cap Slots : ~held(r)'
    OBVIOUS
  <2>2. threads' = dropped(rxs \cap Slots)
    BY DEF dropped
  <2>3. ThreadsTyped
    BY DEF Typed
  <2>4. \A r \in Slots \ (rxs \cap Slots) : threads'[r] = threads[r]
    BY <2>1, <2>2, <2>3, Dropped
  <2>5. \A r \in (rxs \cap Slots) \cap Slots : Gone(r) \/ Deaf(r)
    BY <2>1, <2>2, <2>3, Dropped
  <2>6. ThreadsTyped'
    BY <2>1, <2>2, <2>3, Dropped
  <2> QED
    BY <2>4, <2>5, <2>6
<1> QED
  BY <1>1 DEF WindowStep, Same

(* A worker begins where the window had no receiver of its kind.             *)
LEMMA Starting ==
  ASSUME Typed, Own, Tidy, NEW s \in Slots, s \in slot(threads), NEW kind \in Kinds, NEW p \in Profiles,
         NEW arg \in Handles \cup {NoOne} \cup Resuming, threads' = spawned(threads, s, kind, p, arg),
         \A r \in Slots : held(r)' <=> held(r) \/ r = s,
         (kind \in Sending => arg \in Resuming) /\ (kind = "send" => ~arg.done) /\ (kind = "resume" => arg.id \in SendIds)
  PROVE  ThreadsTyped' /\ \A r \in Slots : WindowStep(r)
<1>1. /\ \A r \in Slots \ {s} : threads'[r] = threads[r]
      /\ Born(s, kind, p, arg)
      /\ ThreadsTyped'
  BY Spawned DEF Typed
<1>2. Begun(s)
  BY <1>1 DEF Begun
<1> QED
  BY <1>1, <1>2 DEF WindowStep, Same

(* A worker whose last word is read is gone.                                 *)
LEMMA Heard ==
  ASSUME Typed, NEW s \in Slots, threads' = [threads EXCEPT ![s] = Free],
         \A r \in Slots : held(r)' <=> held(r) /\ r # s
  PROVE  ThreadsTyped' /\ \A r \in Slots : WindowStep(r)
<1>1. /\ \A r \in Slots \ {s} : threads'[r] = threads[r]
      /\ Gone(s) /\ ThreadsTyped'
  BY Freed DEF Typed
<1> QED
  BY <1>1 DEF WindowStep, Same

LEMMA StillHeard ==
  ASSUME Typed, UNCHANGED threads, \A r \in Slots : held(r)' <=> held(r)
  PROVE  ThreadsTyped' /\ \A r \in Slots : WindowStep(r)
BY DEF WindowStep, Same, Typed, ThreadsTyped

Window == Next /\ ~ \E s \in Slots : WorkerStep(s)

(* What the window does to the threads, action by action.                    *)
LEMMA WindowSteps ==
  ASSUME Typed, Own, Tidy, Ids, Window, ~kill
  PROVE  ThreadsTyped' /\ \A r \in Slots : WindowStep(r)
<1> DEFINE G == ThreadsTyped' /\ \A r \in Slots : WindowStep(r)
<1>r. /\ \A r \in Slots : r # NoRx
      /\ wizard \in Rx /\ (open => session \in ProfileSession)
  BY GuiAssumption, Shown DEF Slots, NoRx, Typed, WindowTyped
<1>u. ASSUME UNCHANGED <<threads, wizard, session>>
      PROVE  G
  BY <1>u, StillHeard DEF held, receivers
<1>i. \A x : KeptIn(session, x) => x # NoOne
  BY AbsenceAssumption DEF KeptIn
<1>e. ASSUME open, UNCHANGED <<threads, wizard>>, open',
             session'.rx = session.rx, session'.inbox_rx = session.inbox_rx, session'.resolve_rx = session.resolve_rx,
             session'.send_rx = session.send_rx
      PROVE  G
  BY <1>e, StillHeard, Receivers
<1>n. \A p : LET ss == NewSession(p) IN
        ss.rx = NoRx /\ ss.inbox_rx = NoRx /\ ss.resolve_rx = NoRx /\ ss.send_rx = NoRx
  BY DEF NewSession
<1>m. /\ receivers(session) \cap Slots \subseteq {r \in Slots : held(r)}
      /\ (receivers(session) \cup {wizard}) \cap Slots \subseteq {r \in Slots : held(r)}
  BY DEF held
<1>w. wizard \in Slots => wizard \notin receivers(session)
  BY Distinct DEF receivers, open
<1>o. ASSUME NEW p, open_session(p), UNCHANGED wizard
      PROVE  G
  <2>1. \A r \in Slots : held(r)' <=> held(r) /\ r \notin receivers(session)
    BY <1>o, <1>n, <1>r, <1>w, Receivers DEF open_session, held
  <2> QED
    BY <1>o, <1>m, <2>1, Leaves DEF open_session
<1>c. ASSUME close_session, wizard' = NoRx
      PROVE  G
  <2>1. \A r \in Slots : held(r)' <=> held(r) /\ r \notin receivers(session) \cup {wizard}
    BY <1>c, <1>r, Receivers DEF close_session, held, open
  <2> QED
    BY <1>c, <1>m, <2>1, Leaves DEF close_session
<1>x. ASSUME open, NEW s \in Slots, s \in slot(threads), NEW kind \in Kinds, NEW p \in Profiles,
             NEW arg \in Handles \cup {NoOne} \cup Resuming, threads' = spawned(threads, s, kind, p, arg),
             (kind \in Sending => arg \in Resuming) /\ (kind = "send" => ~arg.done) /\ (kind = "resume" => arg.id \in SendIds),
             \A r \in Slots : held(r)' <=> held(r) \/ r = s
      PROVE  G
  BY <1>x, Starting
<1>1. ASSUME NEW s \in Slots, User(s)
      PROVE  G
  <2>k. {"status", "inbox", "resolve", "init", "register", "buy", "setup", "send", "resume"} \subseteq Kinds
    BY DEF Kinds
  <2>1. CASE init(s) \/ register(s) \/ refresh(s) \/ buy_tickets(s)
    <3>1. PICK kind \in OnRx :
            /\ open /\ threads' = spawned(threads, s, kind, session.p, NoOne) /\ s \in slot(threads)
            /\ session.rx = NoRx /\ session' = [session EXCEPT !.rx = s] /\ UNCHANGED wizard
      BY <2>1 DEF init, register, refresh, buy_tickets, start, shown, open, worker_busy, OnRx
    <3>2. open'
      BY <3>1, <1>r, <1>i, Edits DEF open, Rx
    <3>3. session'.rx = s /\ session'.inbox_rx = session.inbox_rx /\ session'.resolve_rx = session.resolve_rx
          /\ session'.send_rx = session.send_rx
      BY <3>1, <1>r, Edited
    <3>4. \A r \in Slots : held(r)' <=> held(r) \/ r = s
      BY <3>1, <3>2, <3>3, <1>r, Receivers
    <3>5. session.p \in Profiles
      BY <3>1, <1>r DEF ProfileSession
    <3> QED
      BY <3>1, <3>4, <3>5, <2>k, <1>x DEF OnRx, Sending
  <2>2. CASE refresh_inbox(s)
    <3>1. /\ open /\ threads' = spawned(threads, s, "inbox", session.p, NoOne) /\ s \in slot(threads)
          /\ session.inbox_rx = NoRx /\ session' = [session EXCEPT !.inbox_rx = s] /\ UNCHANGED wizard
      BY <2>2 DEF refresh_inbox, start, shown, open
    <3>2. open'
      BY <3>1, <1>r, <1>i, Edits DEF open, Rx
    <3>3. session'.rx = session.rx /\ session'.inbox_rx = s /\ session'.resolve_rx = session.resolve_rx
          /\ session'.send_rx = session.send_rx
      BY <3>1, <1>r, Edited
    <3>4. \A r \in Slots : held(r)' <=> held(r) \/ r = s
      BY <3>1, <3>2, <3>3, <1>r, Receivers
    <3>5. session.p \in Profiles
      BY <3>1, <1>r DEF ProfileSession
    <3> QED
      BY <3>1, <3>4, <3>5, <2>k, <1>x DEF Sending
  <2>3. CASE resolve(s)
    <3>1. /\ open /\ threads' = spawned(threads, s, "resolve", session.p, session.handle) /\ s \in slot(threads)
          /\ session.resolve_rx = NoRx /\ session' = [session EXCEPT !.resolved = NoOne, !.resolve_rx = s]
          /\ UNCHANGED wizard
      BY <2>3 DEF resolve, form_shown, shown, open
    <3>2. open'
      BY <3>1, <1>r, <1>i, Edits DEF open
    <3>3. session'.rx = session.rx /\ session'.inbox_rx = session.inbox_rx /\ session'.resolve_rx = s
          /\ session'.send_rx = session.send_rx
      BY <3>1, <1>r, Edited
    <3>4. \A r \in Slots : held(r)' <=> held(r) \/ r = s
      BY <3>1, <3>2, <3>3, <1>r, Receivers
    <3>5. session.p \in Profiles /\ session.handle \in Handles \cup {NoOne}
      BY <3>1, <1>r DEF ProfileSession
    <3> QED
      BY <3>1, <3>4, <3>5, <2>k, <1>x DEF Sending
  <2>s. ASSUME open, NEW ss \in ProfileSession, NEW kind \in Sending, NEW arg \in Resuming,
               ss.rx = session.rx, ss.inbox_rx = session.inbox_rx, ss.resolve_rx = session.resolve_rx,
               session.send_rx = NoRx, session' = ss, ss.send_rx = s,
               threads' = spawned(threads, s, kind, session.p, arg), s \in slot(threads), UNCHANGED wizard,
               (kind = "send" => ~arg.done) /\ (kind = "resume" => arg.id \in SendIds)
        PROVE  G
    <3>1. open'
      BY <2>s, AbsenceAssumption DEF open
    <3>2. \A r \in Slots : held(r)' <=> held(r) \/ r = s
      BY <2>s, <3>1, <1>r, Receivers
    <3>3. session.p \in Profiles /\ kind \in Kinds
      BY <2>s, <1>r, <2>k DEF ProfileSession, Sending
    <3> QED
      BY <2>s, <3>2, <3>3, <1>x
  <2>4. CASE start_send(s)
    <3>1. open /\ UNCHANGED wizard
      BY <2>4 DEF start_send, shown, open
    <3>2. CASE session' = [session EXCEPT !.confirm = FALSE] /\ UNCHANGED threads
      <4>1. open'
        BY <3>1, <3>2, <1>r, <1>i, Edits DEF open
      <4> QED
        BY <3>1, <3>2, <4>1, <1>r, <1>e, Edited
    <3>3. CASE /\ session' = [session EXCEPT !.confirm = FALSE, !.flow = virtual_plan, !.send_id = NoOne, !.send_rx = s]
               /\ threads' = spawned(threads, s, "send", session.p, [id |-> NoOne, done |-> FALSE])
               /\ s \in slot(threads) /\ session.send_rx = NoRx
      <4>1. session' \in ProfileSession
        BY <3>1, <3>3, <1>r, Edits, PlansTyped DEF KeptIn
      <4>2. /\ session'.rx = session.rx /\ session'.inbox_rx = session.inbox_rx /\ session'.resolve_rx = session.resolve_rx
            /\ session'.send_rx = s
        BY <3>1, <3>3, <1>r, Edited
      <4>3. [id |-> NoOne, done |-> FALSE] \in Resuming
        BY DEF Resuming
      <4> QED
        BY <3>1, <3>3, <4>1, <4>2, <4>3, <2>s DEF Sending
    <3> QED
      BY <2>4, <3>1, <3>2, <3>3 DEF start_send, work_in_flight, open
  <2>r. ASSUME open, NEW id \in SendIds, NEW ss, KeptIn(session, ss), resume_send(s, id, ss),
               ss.rx = session.rx, ss.inbox_rx = session.inbox_rx, ss.resolve_rx = session.resolve_rx,
               ss.send_rx = session.send_rx
        PROVE  G
    <3>1. UNCHANGED wizard /\ session.send_rx = NoRx /\ ss.p = session.p /\ ss \in ProfileSession
      BY <2>r DEF resume_send, work_in_flight, open, KeptIn
    <3>2. CASE session' = ss /\ UNCHANGED threads
      <4>1. open'
        BY <3>1, <3>2, AbsenceAssumption DEF open
      <4> QED
        BY <2>r, <3>1, <3>2, <4>1, <1>e
    <3>3. CASE /\ session' = [ss EXCEPT !.flow = from_state(id), !.send_id = id, !.send_rx = s]
               /\ threads' = spawned(dropped({session.send_rx}), s, "resume", ss.p, [id |-> id, done |-> sends[id].st = "done"])
               /\ s \in slot(threads)
      <4>1. session' \in ProfileSession
        BY <3>1, <3>3, Edits, PlansTyped DEF KeptIn
      <4>2. /\ session'.rx = ss.rx /\ session'.inbox_rx = ss.inbox_rx /\ session'.resolve_rx = ss.resolve_rx
            /\ session'.send_rx = s
        BY <3>1, <3>3 DEF ProfileSession
      <4>3. [id |-> id, done |-> sends[id].st = "done"] \in Resuming
        BY DEF Resuming
      <4>4. dropped({session.send_rx}) = threads
        BY <3>1, <1>r DEF dropped, Typed, ThreadsTyped
      <4> QED
        BY <2>r, <3>1, <3>3, <4>1, <4>2, <4>3, <4>4, <2>s DEF Sending
    <3> QED
      BY <2>r, <3>2, <3>3 DEF resume_send
  <2>5. CASE flow_resume(s)
    <3>1. open /\ session.send_id \in SendIds /\ resume_send(s, session.send_id, session)
      BY <1>r, <2>5 DEF flow_resume, resumable, shown, open, ProfileSession
    <3> QED
      BY <1>r, <2>r, <3>1 DEF KeptIn
  <2>6. ASSUME NEW id \in SendIds, banner_resume(s, id)
        PROVE  G
    <3>1. open /\ resume_send(s, id, [session EXCEPT !.pending = @ \ {id}])
      BY <2>6 DEF banner_resume, shown, open
    <3>2. KeptIn(session, [session EXCEPT !.pending = @ \ {id}])
      BY <1>r, <3>1, Edits
    <3>3. PICK ss : ss = [session EXCEPT !.pending = @ \ {id}]
      OBVIOUS
    <3>4. ss.rx = session.rx /\ ss.inbox_rx = session.inbox_rx /\ ss.resolve_rx = session.resolve_rx
          /\ ss.send_rx = session.send_rx
      BY <1>r, <3>1, <3>3, Edited
    <3> QED
      BY <2>r, <3>1, <3>2, <3>3, <3>4
  <2>7. ASSUME NEW p \in Profiles, spawn_setup(s, p)
        PROVE  G
    <3>1. /\ open /\ threads' = spawned(threads, s, "setup", p, NoOne) /\ s \in slot(threads)
          /\ wizard = NoRx /\ wizard' = s /\ UNCHANGED session
      BY <2>7 DEF spawn_setup, shown, open, locked
    <3>2. \A r \in Slots : held(r)' <=> held(r) \/ r = s
      BY <3>1, <1>r, Receivers DEF open
    <3> QED
      BY <3>1, <3>2, <2>k, <1>x DEF Sending
  <2> QED
    BY <1>1, <2>1, <2>2, <2>3, <2>4, <2>5, <2>6, <2>7 DEF User
<1>2. CASE Poll
  <2>1. CASE poll_worker
    <3>1. open /\ session.rx \in Slots /\ threads' = [threads EXCEPT ![session.rx] = Free] /\ UNCHANGED wizard
      BY <2>1, <1>r DEF poll_worker, worker_busy, shown, open, ProfileSession, Rx
    <3>2. PICK ss : ss = [session EXCEPT !.rx = NoRx]
      OBVIOUS
    <3>3. session' \in {ss, [ss EXCEPT !.of = @ \cup {threads[session.rx].p}],
                       [ss EXCEPT !.stage = dirs[ss.p].stage, !.store = dirs[ss.p].store]}
      BY <2>1, <3>2 DEF poll_worker, rx_cleared, reload_local_state
    <3>4. DOMAIN ss = DOMAIN session
      BY <3>2
    <3>5. session'.rx = NoRx /\ session'.inbox_rx = session.inbox_rx /\ session'.resolve_rx = session.resolve_rx
          /\ session'.send_rx = session.send_rx
      BY <3>1, <3>2, <3>3, <3>4, <1>r, Edited
    <3>7. open'
      BY <2>1, PollsEdit
    <3>6. \A r \in Slots : held(r)' <=> held(r) /\ r # session.rx
      BY <3>1, <3>5, <3>7, <1>r, Receivers, Distinct
    <3> QED
      BY <3>1, <3>6, Heard
  <2>2. CASE poll_inbox_worker
    <3>1. open /\ session.inbox_rx \in Slots /\ threads' = [threads EXCEPT ![session.inbox_rx] = Free] /\ UNCHANGED wizard
      BY <2>2, <1>r DEF poll_inbox_worker, shown, open, ProfileSession, Rx
    <3>2. PICK of : session' = [session EXCEPT !.inbox_rx = NoRx, !.of = of]
      BY <2>2 DEF poll_inbox_worker
    <3>3. session'.rx = session.rx /\ session'.inbox_rx = NoRx /\ session'.resolve_rx = session.resolve_rx
          /\ session'.send_rx = session.send_rx
      BY <3>1, <3>2, <1>r, Edited
    <3>4. open'
      BY <2>2, PollsEdit
    <3>5. \A r \in Slots : held(r)' <=> held(r) /\ r # session.inbox_rx
      BY <3>1, <3>3, <3>4, <1>r, Receivers, Distinct
    <3> QED
      BY <3>1, <3>5, Heard
  <2>3. CASE poll_compose_worker
    <3>1. open /\ session.resolve_rx \in Slots /\ threads' = [threads EXCEPT ![session.resolve_rx] = Free]
          /\ UNCHANGED wizard
      BY <2>3, <1>r DEF poll_compose_worker, shown, open, ProfileSession, Rx
    <3>2. PICK h : session' = [session EXCEPT !.resolve_rx = NoRx, !.resolved = h]
      BY <2>3 DEF poll_compose_worker
    <3>3. session'.rx = session.rx /\ session'.inbox_rx = session.inbox_rx /\ session'.resolve_rx = NoRx
          /\ session'.send_rx = session.send_rx
      BY <3>1, <3>2, <1>r, Edited
    <3>4. open'
      BY <2>3, PollsEdit
    <3>5. \A r \in Slots : held(r)' <=> held(r) /\ r # session.resolve_rx
      BY <3>1, <3>3, <3>4, <1>r, Receivers, Distinct
    <3> QED
      BY <3>1, <3>5, Heard
  <2>4. CASE poll_send_worker
    <3>1. open /\ session.send_rx \in Slots /\ threads[session.send_rx].ch # <<>> /\ UNCHANGED wizard
      BY <2>4, <1>r DEF poll_send_worker, work_in_flight, shown, open, ProfileSession, Rx
    <3>2. PICK f : f = IF session.flow = NoOne THEN session.flow
                       ELSE apply(session.flow, Head(threads[session.send_rx].ch))
      OBVIOUS
    <3>3. PICK ss : ss = [session EXCEPT !.flow = f]
      OBVIOUS
    <3>4. ss = [session EXCEPT !.flow = IF @ = NoOne THEN @ ELSE apply(@, Head(threads[session.send_rx].ch))]
      BY <3>2, <3>3
    <3>5. DOMAIN ss = DOMAIN session /\ open'
      BY <2>4, <3>3, PollsEdit
    <3>6. CASE Head(threads[session.send_rx].ch).k \in {"Ok", "Err"}
      <4>1. /\ session' = [[ss EXCEPT !.send_rx = NoRx] EXCEPT !.pending = incomplete([ss EXCEPT !.send_rx = NoRx].p)]
            /\ threads' = [threads EXCEPT ![session.send_rx] = Free]
        BY <2>4, <3>4, <3>6 DEF poll_send_worker, refresh_pending
      <4>2. session'.rx = session.rx /\ session'.inbox_rx = session.inbox_rx
            /\ session'.resolve_rx = session.resolve_rx /\ session'.send_rx = NoRx
        BY <3>1, <3>3, <3>5, <4>1, <1>r, Edited
      <4>3. \A r \in Slots : held(r)' <=> held(r) /\ r # session.send_rx
        BY <3>1, <3>5, <4>2, <1>r, Receivers, Distinct
      <4> QED
        BY <3>1, <4>1, <4>3, Heard
    <3>7. CASE Head(threads[session.send_rx].ch).k \notin {"Ok", "Err"}
      <4>1. /\ session' \in {ss, [ss EXCEPT !.send_id = Head(threads[session.send_rx].ch).i]}
            /\ threads' = [threads EXCEPT ![session.send_rx].ch = Tail(@)]
        BY <2>4, <3>4, <3>7 DEF poll_send_worker
      <4>2. session'.rx = session.rx /\ session'.inbox_rx = session.inbox_rx
            /\ session'.resolve_rx = session.resolve_rx /\ session'.send_rx = session.send_rx
        BY <3>1, <3>3, <3>5, <4>1, <1>r, Edited
      <4>3. \A r \in Slots : held(r)' <=> held(r)
        BY <3>1, <3>5, <4>2, <1>r, Receivers
      <4>4. Popped(session.send_rx)
        BY <2>4, <3>1, <3>5, <3>7, <4>1, <4>2 DEF Popped, Typed, ThreadsTyped
      <4>5. \A r \in Slots \ {session.send_rx} : Same(r)
        BY <3>1, <4>1, <4>3 DEF Same, Typed, ThreadsTyped
      <4>6. threads[session.send_rx].ch \in Seq(Event) /\ threads[session.send_rx] \in Thread
        BY <3>1 DEF Typed, ThreadsTyped, Thread
      <4>7. Tail(threads[session.send_rx].ch) \in Seq(Event)
        BY <3>1, <4>6
      <4>8. [threads[session.send_rx] EXCEPT !.ch = Tail(@)] \in Thread
        BY <4>6, <4>7 DEF Thread
      <4>9. ThreadsTyped'
        BY <3>1, <4>1, <4>8 DEF Typed, ThreadsTyped
      <4> QED
        BY <4>4, <4>5, <4>9 DEF WindowStep
    <3> QED
      BY <3>6, <3>7
  <2>5. CASE poll_setup
    <3>1. wizard \in Slots /\ wizard' = NoRx
      BY <2>5 DEF poll_setup, locked, Typed, WindowTyped, Rx
    <3>2. CASE session' = NewSession(threads[wizard].p) /\ threads' = dropped(receivers(session) \cup {wizard})
      <4>1. \A r \in Slots : held(r)' <=> held(r) /\ r \notin receivers(session) \cup {wizard}
        BY <3>1, <3>2, <1>n, <1>r, Receivers DEF held
      <4> QED
        BY <3>2, <4>1, <1>m, Leaves
    <3>3. CASE UNCHANGED session /\ threads' = [threads EXCEPT ![wizard] = Free]
      <4>1. \A r \in Slots : held(r)' <=> held(r) /\ r # wizard
        BY <3>1, <3>3, <1>r, Receivers, Distinct DEF open
      <4> QED
        BY <3>1, <3>3, <4>1, Heard
    <3> QED
      BY <2>5, <3>2, <3>3 DEF poll_setup
  <2> QED
    BY <1>2, <2>1, <2>2, <2>3, <2>4, <2>5 DEF Poll
<1>3. CASE lock_click \/ idle_lock \/ after_wipe
  BY <1>3, <1>c DEF lock_click, idle_lock, lock_now, after_wipe
<1>4. CASE unlock \/ not_now
  BY <1>4, <1>u DEF unlock, not_now
<1>5. CASE open_initial
  BY <1>5, <1>o DEF open_initial
<1>6. CASE migrate_store \/ send_click \/ cancel_send \/ back_to_message
  <2>1. open /\ UNCHANGED <<threads, wizard>>
        /\ session' \in {[session EXCEPT !.stage = "keys", !.store = "v4", !.of = {}],
                         [session EXCEPT !.confirm = TRUE], [session EXCEPT !.confirm = FALSE],
                         [session EXCEPT !.flow = NoOne, !.send_id = NoOne]}
    BY <1>6 DEF migrate_store, send_click, cancel_send, back_to_message, form_shown, shown, open
  <2>2. open'
    BY <2>1, <1>r, <1>i, Edits DEF open
  <2>3. session'.rx = session.rx /\ session'.inbox_rx = session.inbox_rx /\ session'.resolve_rx = session.resolve_rx
        /\ session'.send_rx = session.send_rx
    BY <2>1, <1>r, Edited
  <2> QED
    BY <2>1, <2>2, <2>3, <1>e
<1>7. CASE compose_another
  <2>1. session' = [session EXCEPT !.handle = NoOne, !.resolved = NoOne, !.resolve_rx = NoRx, !.confirm = FALSE,
                                   !.flow = NoOne, !.send_rx = NoRx, !.send_id = NoOne]
        /\ open /\ threads' = dropped({session.resolve_rx, session.send_rx}) /\ UNCHANGED wizard
    BY <1>7 DEF compose_another, shown, open
  <2>2. session'.rx = session.rx /\ session'.inbox_rx = session.inbox_rx /\ session'.resolve_rx = NoRx
        /\ session'.send_rx = NoRx /\ open'
    <3>1. open'
      BY <2>1, <1>r, <1>i, Edits DEF open
    <3> QED
      BY <2>1, <3>1, <1>r, Edited
  <2>3. \A r \in Slots : held(r)' <=> held(r) /\ r \notin {session.resolve_rx, session.send_rx}
    BY <2>1, <2>2, <1>r, Receivers, Distinct
  <2>4. {session.resolve_rx, session.send_rx} \cap Slots \subseteq {r \in Slots : held(r)}
    BY <2>1, Receivers
  <2> QED
    BY <2>1, <2>3, <2>4, Leaves
<1>8. ASSUME NEW p \in Profiles, run_migration(p) \/ switch_profile(p) \/ open_request(p)
      PROVE  G
  BY <1>8, <1>o DEF run_migration, switch_profile, open_request
<1>9. ASSUME NEW p \in Profiles, unarchive(p)
      PROVE  G
  BY <1>9, <1>u DEF unarchive
<1>10. ASSUME NEW p \in Profiles, archive(p)
      PROVE  G
  BY <1>10, <1>u, <1>c DEF archive, leave
<1>11. ASSUME NEW p \in Profiles, NEW next \in Profiles \cup {NoOne}, delete(p, next)
      PROVE  G
  BY <1>11, <1>u, <1>c, <1>o DEF delete, leave
<1>12. ASSUME NEW h \in Handles, edit(h)
      PROVE  G
  <2>1. session' = [session EXCEPT !.handle = h, !.resolved = NoOne, !.resolve_rx = NoRx]
        /\ open /\ threads' = dropped({session.resolve_rx}) /\ UNCHANGED wizard
    BY <1>12 DEF edit, edited, form_shown, shown, open
  <2>2. session'.rx = session.rx /\ session'.inbox_rx = session.inbox_rx /\ session'.resolve_rx = NoRx
        /\ session'.send_rx = session.send_rx /\ open'
    <3>1. open'
      BY <2>1, <1>r, <1>i, Edits DEF open
    <3> QED
      BY <2>1, <3>1, <1>r, Edited
  <2>3. \A r \in Slots : held(r)' <=> held(r) /\ r \notin {session.resolve_rx}
    BY <2>1, <2>2, <1>r, Receivers, Distinct
  <2>4. {session.resolve_rx} \cap Slots \subseteq {r \in Slots : held(r)}
    BY <2>1, Receivers
  <2> QED
    BY <2>1, <2>3, <2>4, Leaves
<1>13. ASSUME NEW id \in SendIds, dismiss(id)
      PROVE  G
  <2>1. open /\ UNCHANGED <<threads, wizard>>
        /\ session' = [session EXCEPT !.pending = @ \ {id}, !.dismissed = @ \cup {id}]
    BY <1>13 DEF dismiss, shown, open
  <2>2. open'
    BY <2>1, <1>r, <1>i, Edits DEF open
  <2>3. session'.rx = session.rx /\ session'.inbox_rx = session.inbox_rx /\ session'.resolve_rx = session.resolve_rx
        /\ session'.send_rx = session.send_rx
    BY <2>1, <1>r, Edited
  <2> QED
    BY <2>1, <2>2, <2>3, <1>e
<1> QED
  BY <1>1, <1>2, <1>3, <1>4, <1>5, <1>6, <1>7, <1>8, <1>9, <1>10, <1>11, <1>12, <1>13 DEF Window, Next

-----------------------------------------------------------------------------
(* Workers *)

(* Words that are not the last ones of a worker.                             *)
Midway(es) == \A i \in 1..Len(es) : es[i].k \notin {"Ok", "Err", "Completed"}

LEMMA SentDoes ==
  ASSUME ThreadsTyped, NEW s \in Slots, NEW pc \in {"prove", "publish", "ended"}, NEW es \in Seq(Event), sent(s, pc, es)
  PROVE  /\ ThreadsTyped' /\ \A r \in Slots \ {s} : threads'[r] = threads[r]
         /\ threads'[s] = IF held(s) THEN [threads[s] EXCEPT !.pc = pc, !.ch = @ \o es]
                          ELSE IF pc = "ended" THEN Free ELSE [threads[s] EXCEPT !.pc = pc]
<1>1. threads[s] \in Thread /\ threads[s].ch \in Seq(Event)
  BY DEF ThreadsTyped, Thread
<1>2. [threads[s] EXCEPT !.pc = pc] \in Thread
  BY <1>1 DEF Thread
<1>3. [threads[s] EXCEPT !.pc = pc, !.ch = @ \o es] \in Thread
  <2>1. threads[s].ch \o es \in Seq(Event)
    BY <1>1
  <2> QED
    BY <1>1, <2>1 DEF Thread
<1> QED
  BY <1>1, <1>2, <1>3, Frees DEF sent, ThreadsTyped

LEMMA Appended ==
  ASSUME NEW a \in Seq(Event), NEW b \in Seq(Event)
  PROVE  /\ a \o b \in Seq(Event) /\ Len(a \o b) = Len(a) + Len(b)
         /\ \A i \in 1..Len(a) : i \in 1..Len(a \o b) /\ (a \o b)[i] = a[i]
         /\ \A j \in 1..Len(b) : Len(a) + j \in 1..Len(a \o b) /\ (a \o b)[Len(a) + j] = b[j]
         /\ \A i \in 1..Len(a \o b) : (i \in 1..Len(a) /\ (a \o b)[i] = a[i])
                                       \/ (\E j \in 1..Len(b) : i = Len(a) + j /\ (a \o b)[i] = b[j])
<1>1. a \o b \in Seq(Event) /\ Len(a \o b) = Len(a) + Len(b) /\ Len(a) \in Nat /\ Len(b) \in Nat
  OBVIOUS
<1>2. \A i \in 1..Len(a) : i \in 1..Len(a \o b) /\ (a \o b)[i] = a[i]
  BY <1>1
<1>3. ASSUME NEW j \in 1..Len(b)
      PROVE  Len(a) + j \in 1..Len(a \o b) /\ (a \o b)[Len(a) + j] = b[j]
  BY <1>1
<1>4. ASSUME NEW i \in 1..Len(a \o b)
      PROVE  i \in 1..Len(a) \/ \E j \in 1..Len(b) : i = Len(a) + j
  <2>1. i \notin 1..Len(a) => i - Len(a) \in 1..Len(b) /\ i = Len(a) + (i - Len(a))
    BY <1>1
  <2> QED
    BY <2>1
<1> QED
  BY <1>1, <1>2, <1>3, <1>4

LEMMA Tailed ==
  ASSUME NEW a \in Seq(Event), a # <<>>
  PROVE  /\ Tail(a) \in Seq(Event) /\ 1 \in 1..Len(a) /\ Head(a) = a[1] /\ Head(a) \in Event
         /\ \A i \in 1..Len(Tail(a)) : i + 1 \in 1..Len(a) /\ Tail(a)[i] = a[i + 1]
         /\ \A i \in 1..Len(a) : i = 1 \/ (i - 1 \in 1..Len(Tail(a)) /\ Tail(a)[i - 1] = a[i])
<1>1. Len(a) \in Nat /\ Len(a) # 0 /\ Tail(a) \in Seq(Event) /\ Len(Tail(a)) = Len(a) - 1
  OBVIOUS
<1>2. \A i \in 1..Len(Tail(a)) : i + 1 \in 1..Len(a) /\ Tail(a)[i] = a[i + 1]
  BY <1>1
<1>3. ASSUME NEW i \in 1..Len(a), i # 1
      PROVE  i - 1 \in 1..Len(Tail(a)) /\ Tail(a)[i - 1] = a[i]
  <2>1. i - 1 \in 1..Len(Tail(a)) /\ (i - 1) + 1 = i
    BY <1>1, <1>3
  <2> QED
    BY <1>2, <2>1
<1> QED
  BY <1>1, <1>2, <1>3

LEMMA Words ==
  /\ \A k \in Events, i \in Plan \cup SendIds \cup {NoOne} : Ev(k, i) \in Event /\ Ev(k, i).k = k /\ Ev(k, i).i = i
  /\ \A ok \in BOOLEAN : Done(ok) \in Event /\ Done(ok).k = IF ok THEN "Ok" ELSE "Err"
  /\ {1, 2, 3} \subseteq Plan
<1>1. \A k \in Events, i \in Plan \cup SendIds \cup {NoOne} : Ev(k, i) \in Event /\ Ev(k, i).k = k /\ Ev(k, i).i = i
  BY DEF Ev, Event
<1>2. \A ok \in BOOLEAN : Done(ok) \in Event /\ Done(ok).k = IF ok THEN "Ok" ELSE "Err"
  BY DEF Done, Ev, Event, Events
<1> QED
  BY <1>1, <1>2 DEF Plan

LEMMA Tuples ==
  ASSUME NEW d \in Event, NEW e \in Event, NEW f \in Event
  PROVE  /\ <<d>> \in Seq(Event) /\ <<d, e>> \in Seq(Event) /\ <<d, e, f>> \in Seq(Event)
         /\ <<d, e>> \o <<f>> = <<d, e, f>>
         /\ \A a \in Seq(Event) : (a \o <<d, e>>) \o <<f>> = a \o <<d, e, f>>
<1>1. <<d>> \in Seq(Event) /\ <<d, e>> \in Seq(Event) /\ <<d, e, f>> \in Seq(Event) /\ <<f>> \in Seq(Event)
  OBVIOUS
<1>2. <<d, e>> \o <<f>> = <<d, e, f>>
  <2> DEFINE l == <<d, e>> \o <<f>>
             r == <<d, e, f>>
  <2>1. l \in Seq(Event) /\ r \in Seq(Event)
    BY <1>1
  <2>2. Len(l) = 3 /\ Len(r) = 3
    BY <1>1
  <2>3. l[1] = d /\ l[2] = e /\ l[3] = f
    BY <1>1
  <2>4. r[1] = d /\ r[2] = e /\ r[3] = f
    OBVIOUS
  <2> HIDE DEF l, r
  <2>5. \A i \in 1..Len(l) : l[i] = r[i]
    BY <2>2, <2>3, <2>4
  <2>6. l = r
    BY <2>1, <2>2, <2>5, SeqEqual
  <2> QED
    BY <2>6 DEF l, r
<1>3. \A a \in Seq(Event) : (a \o <<d, e>>) \o <<f>> = a \o (<<d, e>> \o <<f>>)
  BY <1>1
<1> QED
  BY <1>1, <1>2, <1>3

LEMMA SavedDoes ==
  ASSUME ThreadsTyped, NEW s \in Slots, NEW id \in SendIds, threads[s].arg \in Resuming, prove_and_save(s, id)
  PROVE  /\ ThreadsTyped' /\ \A r \in Slots \ {s} : threads'[r] = threads[r]
         /\ threads'[s].kind = threads[s].kind /\ threads'[s].p = threads[s].p /\ threads'[s].pc = "publish"
         /\ threads'[s].arg \in Resuming /\ threads'[s].arg.id = id /\ threads'[s].arg.done = threads[s].arg.done
         /\ threads'[s].ch = IF held(s) THEN threads[s].ch \o <<Ev("Checkpointed", id), Ev("StepCompleted", 2), Ev("Started", 3)>>
                             ELSE threads[s].ch
<1> DEFINE es == <<Ev("Checkpointed", id), Ev("StepCompleted", 2), Ev("Started", 3)>>
           ch == IF held(s) THEN threads[s].ch \o es ELSE threads[s].ch
           arg == [threads[s].arg EXCEPT !.id = id]
           new == [threads[s] EXCEPT !.pc = "publish", !.arg = arg, !.ch = ch]
<1>0. threads[s] \in Thread /\ threads[s].ch \in Seq(Event)
  BY DEF ThreadsTyped, Thread
<1>w. Ev("Checkpointed", id) \in Event /\ Ev("StepCompleted", 2) \in Event /\ Ev("Started", 3) \in Event
  BY Words DEF Events
<1>1. es \in Seq(Event)
      /\ (threads[s].ch \o <<Ev("Checkpointed", id), Ev("StepCompleted", 2)>>) \o <<Ev("Started", 3)>> = threads[s].ch \o es
  <2>1. PICK d, e, f : d = Ev("Checkpointed", id) /\ e = Ev("StepCompleted", 2) /\ f = Ev("Started", 3)
    OBVIOUS
  <2>2. d \in Event /\ e \in Event /\ f \in Event
    BY <1>w, <2>1
  <2>3. <<d, e, f>> \in Seq(Event) /\ (threads[s].ch \o <<d, e>>) \o <<f>> = threads[s].ch \o <<d, e, f>>
    <3>1. \A a \in Seq(Event) : (a \o <<d, e>>) \o <<f>> = a \o <<d, e, f>>
      BY <2>2, Tuples, Zenon
    <3>2. <<d, e, f>> \in Seq(Event)
      BY <2>2, Tuples, Zenon
    <3>3. threads[s].ch \in Seq(Event)
      BY <1>0
    <3> QED
      BY <3>1, <3>2, <3>3, Zenon
  <2> QED
    BY <2>1, <2>3
<1>2. ch \in Seq(Event)
  BY <1>0, <1>1
<1>3. arg \in Resuming /\ arg.id = id /\ arg.done = threads[s].arg.done
  BY DEF Resuming
<1>4. threads' = [threads EXCEPT ![s] = new]
  <2>1. threads' = [threads EXCEPT ![s].pc = "publish", ![s].arg.id = id,
                                   ![s].ch = IF held(s) THEN (@ \o <<Ev("Checkpointed", id), Ev("StepCompleted", 2)>>) \o <<Ev("Started", 3)>>
                                             ELSE @]
    BY DEF prove_and_save, publish_started
  <2> DEFINE long == (threads[s].ch \o <<Ev("Checkpointed", id), Ev("StepCompleted", 2)>>) \o <<Ev("Started", 3)>>
  <2>2. threads' = [threads EXCEPT ![s] = [threads[s] EXCEPT !.pc = "publish", !.arg = arg, !.ch = IF held(s) THEN long ELSE threads[s].ch]]
    BY <1>0, <2>1 DEF ThreadsTyped, Thread
  <2>3. ch = IF held(s) THEN long ELSE threads[s].ch
    BY <1>1
  <2> QED
    BY <2>2, <2>3
<1> HIDE DEF es, ch, arg
<1>5. new \in Thread /\ new.kind = threads[s].kind /\ new.p = threads[s].p /\ new.pc = "publish" /\ new.arg = arg
      /\ new.ch = ch
  BY <1>0, <1>2, <1>3 DEF Thread
<1> HIDE DEF new
<1>6. threads'[s] = new /\ ThreadsTyped' /\ \A r \in Slots \ {s} : threads'[r] = threads[r]
  BY <1>4, <1>5 DEF ThreadsTyped
<1> QED
  BY <1>3, <1>5, <1>6 DEF ch, es

(* What a worker says, and where it then is.                                 *)
LEMMA WorkerSteps ==
  ASSUME Typed, Tidy, NEW s \in Slots, WorkerStep(s)
  PROVE  /\ UNCHANGED <<app, wizard, session>> /\ alive(s)
         /\ \/ \E pc \in {"prove", "publish", "ended"}, es \in Seq(Event) :
                 /\ sent(s, pc, es)
                 /\ pc # "ended" => Midway(es)
                 /\ pc = "prove" => threads[s].kind = "send"
                 /\ pc = "publish" => threads[s].kind = "resume" /\ ~threads[s].arg.done
            \/ \E id \in SendIds : prove_and_save(s, id)
<1> DEFINE G == \E pc \in {"prove", "publish", "ended"}, es \in Seq(Event) :
                  /\ sent(s, pc, es)
                  /\ pc # "ended" => Midway(es)
                  /\ pc = "prove" => threads[s].kind = "send"
                  /\ pc = "publish" => threads[s].kind = "resume" /\ ~threads[s].arg.done
<1>w. /\ \A ok \in BOOLEAN : Done(ok) \in Event
      /\ Ev("Started", 1) \in Event /\ Ev("StepCompleted", 1) \in Event /\ Ev("Started", 2) \in Event /\ Ev("Started", 3) \in Event
      /\ Ev("StepCompleted", 3) \in Event /\ Ev("Completed", NoOne) \in Event
  BY Words DEF Events
<1>e. ASSUME NEW es \in Seq(Event), sent(s, "ended", es)
      PROVE  G
  BY <1>e
<1>1. ASSUME NEW ok \in BOOLEAN, one_shot(s, ok)
      PROVE  G /\ UNCHANGED <<app, wizard, session>> /\ alive(s)
  <2>1. <<Done(ok)>> \in Seq(Event)
    BY <1>w, Tuples
  <2> QED
    BY <1>1, <1>e, <2>1 DEF one_shot, runs
<1>2. ASSUME NEW ok \in BOOLEAN, begin_send(s, ok)
      PROVE  G /\ UNCHANGED <<app, wizard, session>> /\ alive(s)
  <2>1. threads[s].kind \in {"send", "resume"} /\ UNCHANGED <<app, wizard, session>> /\ alive(s)
    BY <1>2 DEF begin_send, runs
  <2>2. /\ <<Done(FALSE)>> \in Seq(Event) /\ <<Ev("Started", 1), Ev("StepCompleted", 1), Ev("Started", 2)>> \in Seq(Event)
        /\ <<Ev("Started", 1), Done(FALSE)>> \in Seq(Event) /\ <<Ev("Completed", NoOne), Done(TRUE)>> \in Seq(Event)
        /\ publish_started \in Seq(Event)
    BY <1>w, Tuples DEF publish_started
  <2>3. CASE sent(s, "ended", <<Done(FALSE)>>) \/ sent(s, "ended", <<Ev("Started", 1), Done(FALSE)>>)
             \/ sent(s, "ended", <<Ev("Completed", NoOne), Done(TRUE)>>)
    BY <1>e, <2>1, <2>2, <2>3
  <2>4. CASE sent(s, "prove", <<Ev("Started", 1), Ev("StepCompleted", 1), Ev("Started", 2)>>) /\ threads[s].kind = "send"
    <3>1. Midway(<<Ev("Started", 1), Ev("StepCompleted", 1), Ev("Started", 2)>>)
      BY DEF Midway, Ev
    <3> QED
      BY <2>1, <2>2, <2>4, <3>1
  <2>5. CASE sent(s, "publish", publish_started) /\ threads[s].kind = "resume" /\ ~threads[s].arg.done
    <3>1. Midway(publish_started)
      BY DEF Midway, Ev, publish_started
    <3> QED
      BY <2>1, <2>2, <2>5, <3>1
  <2>6. \/ sent(s, "ended", <<Done(FALSE)>>)
        \/ sent(s, "ended", <<Ev("Started", 1), Done(FALSE)>>)
        \/ sent(s, "ended", <<Ev("Completed", NoOne), Done(TRUE)>>)
        \/ sent(s, "prove", <<Ev("Started", 1), Ev("StepCompleted", 1), Ev("Started", 2)>>) /\ threads[s].kind = "send"
        \/ sent(s, "publish", publish_started) /\ threads[s].kind = "resume" /\ ~threads[s].arg.done
    <3>1. CASE ~routes(threads[s].p)
      BY <1>2, <3>1 DEF begin_send
    <3>2. CASE routes(threads[s].p) /\ threads[s].kind = "send"
      BY <1>2, <3>2 DEF begin_send
    <3>3. CASE routes(threads[s].p) /\ threads[s].kind = "resume"
      BY <1>2, <3>3 DEF begin_send
    <3> QED
      BY <2>1, <3>1, <3>2, <3>3
  <2> QED
    BY <2>3, <2>4, <2>5, <2>6
<1>3. CASE prove_fails(s)
  <2>1. <<Done(FALSE)>> \in Seq(Event)
    BY <1>w, Tuples
  <2> QED
    BY <1>3, <1>e, <2>1 DEF prove_fails, alive
<1>4. ASSUME NEW id \in SendIds, prove_and_save(s, id)
      PROVE  UNCHANGED <<app, wizard, session>> /\ alive(s)
  BY <1>4 DEF prove_and_save, alive
<1>5. ASSUME NEW how \in {"done", "stale", "failed"}, publish(s, how)
      PROVE  G /\ UNCHANGED <<app, wizard, session>> /\ alive(s)
  <2>1. PICK es \in {<<Ev("StepCompleted", 3), Ev("Completed", NoOne), Done(TRUE)>>, <<Done(FALSE)>>} : sent(s, "ended", es)
    BY <1>5 DEF publish
  <2>2. es \in Seq(Event)
    <3>1. <<Ev("StepCompleted", 3), Ev("Completed", NoOne), Done(TRUE)>> \in Seq(Event) /\ <<Done(FALSE)>> \in Seq(Event)
      BY <1>w, Tuples
    <3> QED
      BY <2>1, <3>1
  <2> QED
    BY <1>5, <1>e, <2>1, <2>2 DEF publish, alive
<1> QED
  BY <1>1, <1>2, <1>3, <1>4, <1>5 DEF WorkerStep

LEMMA TidyStays ==
  ASSUME Typed, Own, Tidy, Ids, Next
  PROVE  Tidy'
<1> DEFINE G(r) ==
    LET t == threads[r] IN
    /\ t.pc = "ended" => held(r)
    /\ t.pc = "free" <=> t.kind = "none"
    /\ t.pc = "free" => t = Free
    /\ t.kind # "none" => t.p \in Profiles
    /\ Says(r, "Ok") \/ Says(r, "Err") \/ Says(r, "Completed") => t.pc = "ended"
    /\ t.kind \in Sending => t.arg \in Resuming
    /\ t.kind = "send" => ~t.arg.done
    /\ t.kind = "resume" => t.arg.id \in SendIds
    /\ t.pc = "prove" => t.kind = "send"
    /\ t.pc = "publish" => t.kind \in Sending /\ ~t.arg.done /\ t.arg.id \in SendIds
<1>g. \A r \in Slots : G(r)
  BY DEF Tidy
<1>f. ASSUME NEW r \in Slots, threads'[r] = Free
      PROVE  G(r)'
  BY <1>f, Frees DEF Says, Sending
<1>s. ASSUME NEW r \in Slots, Same(r)
      PROVE  G(r)'
  BY <1>g, <1>s DEF Same, Says
<1>d. (\A r \in Slots : G(r)') => Tidy'
  BY DEF Tidy
<1> HIDE DEF G
<1>1. ASSUME NEW s \in Slots, WorkerStep(s)
      PROVE  Tidy'
  <2>1. ASSUME NEW id \in SendIds, prove_and_save(s, id), UNCHANGED <<wizard, session>>
        PROVE  Tidy'
    <3>0. ThreadsTyped /\ threads[s].kind = "send" /\ threads[s].arg \in Resuming /\ threads[s].pc = "prove"
      BY <1>g, <2>1 DEF prove_and_save, Typed, Sending, G
    <3>1. /\ \A r \in Slots \ {s} : threads'[r] = threads[r]
          /\ threads'[s].kind = threads[s].kind /\ threads'[s].p = threads[s].p /\ threads'[s].pc = "publish"
          /\ threads'[s].arg \in Resuming /\ threads'[s].arg.id = id /\ threads'[s].arg.done = threads[s].arg.done
          /\ threads'[s].ch = IF held(s) THEN threads[s].ch \o <<Ev("Checkpointed", id), Ev("StepCompleted", 2), Ev("Started", 3)>>
                              ELSE threads[s].ch
      BY <2>1, <3>0, SavedDoes
    <3>2. \A r \in Slots : held(r)' <=> held(r)
      BY <2>1 DEF held, receivers
    <3>3. \A i \in 1..Len(threads[s].ch) : threads[s].ch[i].k \notin {"Ok", "Err", "Completed"}
      BY <1>g, <3>0 DEF Says, G
    <3>4. \A i \in 1..Len(threads'[s].ch) : threads'[s].ch[i].k \notin {"Ok", "Err", "Completed"}
      <4> DEFINE es == <<Ev("Checkpointed", id), Ev("StepCompleted", 2), Ev("Started", 3)>>
      <4>1. es \in Seq(Event)
        BY Words, Tuples DEF Events
      <4>2. \A j \in 1..Len(es) : es[j].k \notin {"Ok", "Err", "Completed"}
        BY DEF Ev
      <4>3. threads[s].ch \in Seq(Event)
        BY <3>0 DEF ThreadsTyped, Thread
      <4> HIDE DEF es
      <4>4. \A i \in 1..Len(threads[s].ch \o es) : (threads[s].ch \o es)[i].k \notin {"Ok", "Err", "Completed"}
        <5>1. \A i \in 1..Len(threads[s].ch \o es) :
                (i \in 1..Len(threads[s].ch) /\ (threads[s].ch \o es)[i] = threads[s].ch[i])
                \/ (\E j \in 1..Len(es) : i = Len(threads[s].ch) + j /\ (threads[s].ch \o es)[i] = es[j])
          BY <4>1, <4>3, Appended
        <5> QED
          BY <3>3, <4>2, <5>1
      <4> QED
        BY <3>1, <3>3, <4>4 DEF es
    <3>5. G(s)'
      BY <1>g, <3>0, <3>1, <3>4 DEF Says, Sending, G
    <3>6. \A r \in Slots \ {s} : G(r)'
      BY <1>s, <3>1, <3>2 DEF Same
    <3> QED
      BY <3>5, <3>6, <1>d
  <2>2. ASSUME NEW pc \in {"prove", "publish", "ended"}, NEW es \in Seq(Event), sent(s, pc, es),
               pc # "ended" => Midway(es), alive(s), UNCHANGED <<wizard, session>>,
               pc = "prove" => threads[s].kind = "send",
               pc = "publish" => threads[s].kind = "resume" /\ ~threads[s].arg.done
        PROVE  Tidy'
    <3>0. ThreadsTyped /\ threads[s].ch \in Seq(Event)
      BY DEF Typed, ThreadsTyped, Thread
    <3>1. /\ \A r \in Slots \ {s} : threads'[r] = threads[r]
          /\ threads'[s] = IF held(s) THEN [threads[s] EXCEPT !.pc = pc, !.ch = @ \o es]
                           ELSE IF pc = "ended" THEN Free ELSE [threads[s] EXCEPT !.pc = pc]
      BY <2>2, <3>0, SentDoes
    <3>2. \A r \in Slots : held(r)' <=> held(r)
      BY <2>2 DEF held, receivers
    <3>3. threads[s] \in Thread /\ threads[s].kind # "none" /\ threads[s].pc # "ended"
      BY <1>g, <2>2 DEF alive, Typed, ThreadsTyped, G
    <3>4. ASSUME ~held(s), pc = "ended"
          PROVE  G(s)'
      BY <1>f, <3>1, <3>4
    <3>5. ASSUME pc = "ended", held(s)
          PROVE  G(s)'
      <4>1. /\ threads'[s].kind = threads[s].kind /\ threads'[s].p = threads[s].p /\ threads'[s].pc = "ended"
            /\ threads'[s].arg = threads[s].arg
        BY <3>1, <3>3, <3>5 DEF Thread
      <4> QED
        BY <1>g, <3>2, <3>3, <3>5, <4>1 DEF Sending, G
    <3>6. ASSUME pc # "ended"
          PROVE  G(s)'
      <4>1. /\ threads'[s].kind = threads[s].kind /\ threads'[s].p = threads[s].p /\ threads'[s].pc = pc
            /\ threads'[s].arg = threads[s].arg /\ threads'[s].ch \in {threads[s].ch, threads[s].ch \o es}
        BY <3>1, <3>3, <3>6 DEF Thread
      <4>2. \A i \in 1..Len(threads[s].ch) : threads[s].ch[i].k \notin {"Ok", "Err", "Completed"}
        BY <1>g, <3>3 DEF Says, G
      <4>3. \A i \in 1..Len(threads[s].ch \o es) : (threads[s].ch \o es)[i].k \notin {"Ok", "Err", "Completed"}
        BY <2>2, <3>0, <3>6, <4>2, Appended DEF Midway
      <4>4. ~(Says(s, "Ok")' \/ Says(s, "Err")' \/ Says(s, "Completed")')
        BY <4>1, <4>2, <4>3 DEF Says
      <4> QED
        BY <1>g, <2>2, <3>3, <3>6, <4>1, <4>4 DEF Sending, G
    <3>7. G(s)'
      BY <3>4, <3>5, <3>6
    <3>8. \A r \in Slots \ {s} : G(r)'
      BY <1>s, <3>1, <3>2 DEF Same
    <3> QED
      BY <3>7, <3>8, <1>d
  <2> QED
    BY <1>1, <2>1, <2>2, WorkerSteps
<1>2. CASE kill
  <2>1. \A r \in Slots : threads'[r] = Free
    BY <1>2 DEF kill
  <2> QED
    BY <2>1, <1>f, <1>d
<1>3. CASE Window /\ ~kill
  <2>1. \A r \in Slots : WindowStep(r)
    BY <1>3, WindowSteps
  <2>2. ASSUME NEW r \in Slots, Gone(r)
        PROVE  G(r)'
    BY <2>2, <1>f DEF Gone
  <2>3. ASSUME NEW r \in Slots, Deaf(r), held(r)
        PROVE  G(r)'
    <3>1. threads[r] \in Thread
      BY DEF Typed, ThreadsTyped
    <3>2. /\ threads'[r].kind = threads[r].kind /\ threads'[r].p = threads[r].p /\ threads'[r].pc = threads[r].pc
          /\ threads'[r].arg = threads[r].arg /\ threads'[r].ch = <<>> /\ threads[r].pc # "ended"
      BY <2>3, <3>1 DEF Deaf, Thread
    <3>3. threads[r].pc = "free" => threads'[r] = Free
      BY <1>g, <2>3 DEF Free, Deaf, G
    <3>4. ~(Says(r, "Ok")' \/ Says(r, "Err")' \/ Says(r, "Completed")')
      BY <3>2 DEF Says
    <3> QED
      BY <1>g, <1>f, <3>2, <3>3, <3>4 DEF Sending, G
  <2>4. ASSUME NEW r \in Slots, Begun(r)
        PROVE  G(r)'
    <3>1. PICK kind \in Kinds, p \in Profiles, arg \in Handles \cup {NoOne} \cup Resuming :
            Born(r, kind, p, arg) /\ (kind \in Sending => arg \in Resuming)
                                 /\ (kind = "send" => ~arg.done) /\ (kind = "resume" => arg.id \in SendIds)
      BY <2>4 DEF Begun
    <3>2. /\ threads'[r].kind = kind /\ threads'[r].p = p /\ threads'[r].pc = "begin" /\ threads'[r].arg = arg
          /\ threads'[r].ch = <<>> /\ kind # "none"
      BY <3>1 DEF Born, Kinds
    <3>4. ~(Says(r, "Ok")' \/ Says(r, "Err")' \/ Says(r, "Completed")')
      BY <3>2 DEF Says
    <3> QED
      BY <3>1, <3>2, <3>4 DEF G
  <2>5. ASSUME NEW r \in Slots, Popped(r)
        PROVE  G(r)'
    <3>1. threads[r] \in Thread /\ threads[r].ch \in Seq(Event)
      BY DEF Typed, ThreadsTyped, Thread
    <3>2. /\ threads'[r].kind = threads[r].kind /\ threads'[r].p = threads[r].p /\ threads'[r].pc = threads[r].pc
          /\ threads'[r].arg = threads[r].arg /\ threads'[r].ch = Tail(threads[r].ch) /\ threads[r].ch # <<>>
      BY <2>5, <3>1 DEF Popped, Thread
    <3>3. held(r)' /\ threads[r].kind # "none"
      <4>1. held(r)'
        BY <2>5, Receivers DEF Popped
      <4> QED
        BY <1>g, <3>2, <4>1, Frees DEF G
    <3>4. \A k : Says(r, k)' => Says(r, k)
      <4>1. \A i \in 1..Len(Tail(threads[r].ch)) : i + 1 \in 1..Len(threads[r].ch) /\ Tail(threads[r].ch)[i] = threads[r].ch[i + 1]
        BY <3>1, <3>2, Tailed
      <4> QED
        BY <3>2, <4>1 DEF Says
    <3> QED
      BY <1>g, <3>2, <3>3, <3>4 DEF G
  <2> QED
    BY <1>s, <2>1, <2>2, <2>3, <2>4, <2>5, <1>d DEF WindowStep
<1> QED
  BY <1>1, <1>2, <1>3 DEF Window

LEMMA DiskTypes ==
  ASSUME Typed, Tidy, Next
  PROVE  DiskTyped'
<1>t. /\ \A p \in Profiles : dirs[p] \in Dir
      /\ \A id \in SendIds : sends[id] \in SendFile
  BY DEF Typed, DiskTyped
<1>1. ASSUME NEW s \in Slots, NEW ok \in BOOLEAN, one_shot(s, ok)
      PROVE  DiskTyped'
  <2>1. threads[s].p \in Profiles
    BY <1>1, Frees DEF Tidy, one_shot, runs, Kinds
  <2>2. \A kind : result(kind, dirs[threads[s].p]) \in Dir
    BY <1>t, <2>1 DEF result, Dir, Stages
  <2>3. dirs' = dirs \/ dirs' = [dirs EXCEPT ![threads[s].p] = result(threads[s].kind, @)]
    BY <1>1 DEF one_shot
  <2>4. sends' = sends
    BY <1>1 DEF one_shot
  <2>5. dirs' \in [Profiles -> Dir]
    BY <2>1, <2>2, <2>3 DEF Typed, DiskTyped
  <2> QED
    BY <2>4, <2>5 DEF Typed, DiskTyped
<1>2. ASSUME NEW s \in Slots, NEW id \in SendIds, prove_and_save(s, id)
      PROVE  DiskTyped'
  <2>1. threads[s].p \in Profiles
    BY <1>2, Frees DEF Tidy, prove_and_save
  <2>2. [p |-> threads[s].p, st |-> "pending"] \in SendFile
    BY <2>1 DEF SendFile
  <2> QED
    BY <1>2, <2>2 DEF Typed, DiskTyped, prove_and_save
<1>3. ASSUME NEW s \in Slots, NEW how \in {"done", "stale", "failed"}, publish(s, how)
      PROVE  DiskTyped'
  <2>1. threads[s].arg.id \in SendIds
    BY <1>3 DEF Tidy, publish
  <2>2. how # "failed" => [sends[threads[s].arg.id] EXCEPT !.st = how] \in SendFile
    BY <1>t, <2>1 DEF SendFile
  <2> QED
    BY <1>3, <2>2 DEF Typed, DiskTyped, publish
<1>4. ASSUME NEW p \in Profiles, NEW place \in {"absent", "live", "archived", "gone"}, dirs' = [dirs EXCEPT ![p].place = place]
      PROVE  dirs' \in [Profiles -> Dir]
  <2>1. [dirs[p] EXCEPT !.place = place] \in Dir
    BY <1>t DEF Dir
  <2> QED
    BY <1>4, <2>1 DEF Typed, DiskTyped
<1>5. CASE migrate_store
  <2>1. session.p \in Profiles
    BY <1>5, Shown DEF migrate_store, shown, open, ProfileSession
  <2>2. [dirs[session.p] EXCEPT !.stage = "keys", !.store = "v4"] \in Dir
    BY <1>t, <2>1 DEF Dir, Stages
  <2>3. dirs' = [dirs EXCEPT ![session.p] = [dirs[session.p] EXCEPT !.stage = "keys", !.store = "v4"]] /\ UNCHANGED sends
    BY <1>5, <2>1 DEF migrate_store, Typed, DiskTyped
  <2> QED
    BY <2>2, <2>3 DEF Typed, DiskTyped
<1>6. CASE after_wipe
  <2>1. \A p \in Profiles : [dirs[p] EXCEPT !.place = IF @ = "absent" THEN @ ELSE "gone"] \in Dir
    BY <1>t DEF Dir
  <2>2. NoFile \in SendFile
    BY DEF NoFile, SendFile
  <2> QED
    BY <1>6, <2>1, <2>2 DEF after_wipe, DiskTyped
<1>7. ASSUME NEW p \in Profiles, unarchive(p) \/ archive(p)
      PROVE  DiskTyped'
  BY <1>4, <1>7 DEF unarchive, archive, Typed, DiskTyped
<1>8. ASSUME NEW p \in Profiles, NEW next \in Profiles \cup {NoOne}, delete(p, next)
      PROVE  DiskTyped'
  <2>1. NoFile \in SendFile
    BY DEF NoFile, SendFile
  <2>2. dirs' \in [Profiles -> Dir]
    BY <1>4, <1>8 DEF delete
  <2>3. sends' = [id \in SendIds |-> IF sends[id].p \in {p} THEN NoFile ELSE sends[id]]
    BY <1>8 DEF delete, without
  <2> QED
    BY <1>t, <2>1, <2>2, <2>3 DEF DiskTyped
<1>9. ASSUME UNCHANGED disk
      PROVE  DiskTyped'
  BY <1>9 DEF disk, Typed, DiskTyped
<1>10. ASSUME NEW s \in Slots, WorkerStep(s)
       PROVE  DiskTyped'
  BY <1>1, <1>2, <1>3, <1>9, <1>10 DEF WorkerStep, begin_send, prove_fails
<1>11. ASSUME NEW s \in Slots, User(s)
       PROVE  UNCHANGED disk
  BY <1>11 DEF User, init, register, refresh, buy_tickets, refresh_inbox, resolve, start_send, flow_resume, banner_resume,
               resume_send, spawn_setup, start
<1>12. CASE Poll
  <2>1. UNCHANGED disk
    BY <1>12 DEF Poll, poll_worker, poll_inbox_worker, poll_compose_worker, poll_send_worker, poll_setup, disk
  <2> QED
    BY <1>9, <2>1
<1>13. CASE lock_click \/ idle_lock \/ unlock \/ open_initial \/ not_now \/ kill \/ send_click \/ cancel_send
             \/ back_to_message \/ compose_another
  BY <1>9, <1>13 DEF lock_click, idle_lock, lock_now, unlock, open_initial, not_now, kill, send_click, cancel_send,
                     back_to_message, compose_another
<1>14. ASSUME NEW p \in Profiles, run_migration(p) \/ switch_profile(p) \/ open_request(p)
       PROVE  DiskTyped'
  BY <1>9, <1>14 DEF run_migration, switch_profile, open_request, disk
<1>15. ASSUME NEW h \in Handles, edit(h)
       PROVE  DiskTyped'
  BY <1>9, <1>15 DEF edit
<1>16. ASSUME NEW id \in SendIds, dismiss(id)
       PROVE  DiskTyped'
  BY <1>9, <1>16 DEF dismiss
<1> QED
  BY <1>5, <1>6, <1>7, <1>8, <1>9, <1>10, <1>11, <1>12, <1>13, <1>14, <1>15, <1>16 DEF Next

LEMMA Wizards ==
  ASSUME Next
  PROVE  \/ wizard' = wizard
         \/ wizard' = NoRx /\ (CloseAction \/ poll_setup)
         \/ \E s \in Slots, p \in Profiles : spawn_setup(s, p) /\ wizard' = s
<1>1. ASSUME NEW s \in Slots, WorkerStep(s)
      PROVE  wizard' = wizard
  BY <1>1 DEF WorkerStep, one_shot, begin_send, prove_fails, prove_and_save, publish
<1>c. (lock_click \/ idle_lock \/ after_wipe \/ kill \/ \E p \in Profiles : MovedAway(p)) => CloseAction
  BY DEF CloseAction
<1>2. ASSUME NEW s \in Slots, User(s)
      PROVE  wizard' = wizard \/ \E p \in Profiles : spawn_setup(s, p) /\ wizard' = s
  BY <1>2 DEF User, init, register, refresh, buy_tickets, refresh_inbox, resolve, start_send, flow_resume, banner_resume,
              resume_send, spawn_setup, start
<1>3. CASE Poll
  <2>1. wizard' = wizard \/ (wizard' = NoRx /\ poll_setup)
    BY <1>3 DEF Poll, poll_worker, poll_inbox_worker, poll_compose_worker, poll_send_worker, poll_setup
  <2> QED
    BY <2>1
<1>4. CASE unlock \/ open_initial \/ not_now
           \/ migrate_store \/ send_click \/ cancel_send \/ back_to_message \/ compose_another
  BY <1>4 DEF unlock, open_initial, not_now, migrate_store, send_click, cancel_send, back_to_message, compose_another
<1>9. CASE lock_click \/ idle_lock \/ after_wipe \/ kill
  <2>1. wizard' = NoRx
    BY <1>9 DEF lock_click, idle_lock, lock_now, after_wipe, kill
  <2> QED
    BY <1>9, <2>1, <1>c
<1>5. ASSUME NEW p \in Profiles, run_migration(p) \/ switch_profile(p) \/ open_request(p) \/ unarchive(p)
      PROVE  wizard' = wizard
  BY <1>5 DEF run_migration, switch_profile, open_request, unarchive
<1>6. ASSUME NEW p \in Profiles, MovedAway(p)
      PROVE  wizard' = wizard \/ (wizard' = NoRx /\ CloseAction)
  <2>1. wizard' = wizard \/ wizard' = NoRx
    BY <1>6 DEF MovedAway, archive, delete, leave
  <2> QED
    BY <1>6, <1>c, <2>1
<1>7. ASSUME NEW h \in Handles, edit(h)
      PROVE  wizard' = wizard
  BY <1>7 DEF edit
<1>8. ASSUME NEW id \in SendIds, dismiss(id)
      PROVE  wizard' = wizard
  BY <1>8 DEF dismiss
<1> QED
  BY <1>1, <1>2, <1>3, <1>4, <1>5, <1>6, <1>7, <1>8, <1>9 DEF Next, MovedAway

(* The steps that change what the window is at.                              *)
LEMMA Apps ==
  ASSUME Next
  PROVE  \/ app' = app
         \/ lock_click \/ idle_lock \/ unlock \/ open_initial \/ not_now \/ after_wipe \/ kill
         \/ \E p \in Profiles : run_migration(p)
<1>1. ASSUME NEW s \in Slots, WorkerStep(s)
      PROVE  app' = app
  BY <1>1 DEF WorkerStep, one_shot, begin_send, prove_fails, prove_and_save, publish
<1>2. ASSUME NEW s \in Slots, User(s)
      PROVE  app' = app
  BY <1>2 DEF User, init, register, refresh, buy_tickets, refresh_inbox, resolve, start_send, flow_resume, banner_resume,
              resume_send, spawn_setup, start
<1>3. CASE Poll
  BY <1>3 DEF Poll, poll_worker, poll_inbox_worker, poll_compose_worker, poll_send_worker, poll_setup
<1>4. CASE migrate_store \/ send_click \/ cancel_send \/ back_to_message \/ compose_another
  BY <1>4 DEF migrate_store, send_click, cancel_send, back_to_message, compose_another
<1>5. ASSUME NEW p \in Profiles, switch_profile(p) \/ open_request(p) \/ unarchive(p) \/ archive(p)
      PROVE  app' = app
  BY <1>5 DEF switch_profile, open_request, unarchive, archive
<1>6. ASSUME NEW p \in Profiles, NEW next \in Profiles \cup {NoOne}, delete(p, next)
      PROVE  app' = app
  BY <1>6 DEF delete
<1>7. ASSUME NEW h \in Handles, edit(h)
      PROVE  app' = app
  BY <1>7 DEF edit
<1>8. ASSUME NEW id \in SendIds, dismiss(id)
      PROVE  app' = app
  BY <1>8 DEF dismiss
<1> QED
  BY <1>1, <1>2, <1>3, <1>4, <1>5, <1>6, <1>7, <1>8 DEF Next

LEMMA TypedStays ==
  ASSUME Typed, Own, Tidy, Framed, Ids, Next
  PROVE  Typed'
<1>1. ThreadsTyped'
  <2>1. ASSUME NEW s \in Slots, WorkerStep(s)
        PROVE  ThreadsTyped'
    <3>1. ASSUME NEW id \in SendIds, prove_and_save(s, id)
          PROVE  ThreadsTyped'
      <4>1. threads[s].arg \in Resuming
        BY <3>1 DEF Tidy, prove_and_save, Sending
      <4> QED
        BY <3>1, <4>1, SavedDoes DEF Typed
    <3>2. ASSUME NEW pc \in {"prove", "publish", "ended"}, NEW es \in Seq(Event), sent(s, pc, es)
          PROVE  ThreadsTyped'
      BY <3>2, SentDoes DEF Typed
    <3> QED
      BY <2>1, <3>1, <3>2, WorkerSteps
  <2>2. CASE kill
    BY <2>2, Frees DEF kill, ThreadsTyped
  <2> QED
    BY <2>1, <2>2, WindowSteps DEF Window
<1>2. session' \in ProfileSession \cup {NoOne}
  <2>1. SessionStep
    BY SessionSteps
  <2> QED
    BY <2>1, NewTyped DEF SessionStep, KeptIn, Typed, WindowTyped
<1>3. wizard' \in Rx
  BY Wizards DEF Typed, WindowTyped, Rx
<1>4. app' \in App
  <2>1. app \in App /\ (open => session.p \in Profiles)
    BY Shown DEF Typed, WindowTyped, ProfileSession
  <2>2. CASE lock_click \/ idle_lock
    <3>1. PICK p \in Profiles \cup {NoOne} : app' = [app EXCEPT !.locked = TRUE, !.initial = NoOne, !.reopen = p]
      BY <2>1, <2>2 DEF lock_click, idle_lock, lock_now, open
    <3> QED
      BY <2>1, <3>1 DEF App
  <2>3. CASE unlock \/ open_initial \/ not_now
    BY <2>1, <2>3 DEF unlock, open_initial, not_now, App
  <2>4. CASE after_wipe \/ kill
    BY <2>1, <2>4 DEF after_wipe, kill, App
  <2>5. ASSUME NEW p \in Profiles, run_migration(p)
        PROVE  app' \in App
    BY <2>1, <2>5 DEF run_migration, App
  <2> QED
    BY <2>1, <2>2, <2>3, <2>4, <2>5, Apps
<1> QED
  BY <1>1, <1>2, <1>3, <1>4, DiskTypes DEF Typed, WindowTyped

-----------------------------------------------------------------------------
(* The fields of a session, by who changes them. *)
Talk(ss) == <<ss.rx, ss.inbox_rx, ss.resolve_rx, ss.handle, ss.of, ss.resolved>>
Show(ss) == <<ss.stage, ss.store, ss.confirm>>
Sent(ss) == <<ss.send_rx, ss.flow, ss.send_id, ss.pending, ss.dismissed>>
SendAction ==
  \/ \E s \in Slots : start_send(s) \/ flow_resume(s) \/ \E id \in SendIds : banner_resume(s, id)
  \/ (\E id \in SendIds : dismiss(id)) \/ back_to_message \/ compose_another \/ poll_send_worker
ShowAction ==
  \/ \E s \in Slots : start_send(s)
  \/ poll_worker \/ migrate_store \/ send_click \/ cancel_send \/ compose_another
TalkAction ==
  \/ \E s \in Slots : init(s) \/ register(s) \/ refresh(s) \/ buy_tickets(s) \/ refresh_inbox(s) \/ resolve(s)
  \/ poll_worker \/ poll_inbox_worker \/ poll_compose_worker \/ migrate_store \/ compose_another
  \/ \E h \in Handles : edit(h)

LEMMA Frames ==
  ASSUME Typed, Tidy, Next, open, open', OpenAction => \A p \in Profiles : session' # NewSession(p)
  PROVE  /\ Talk(session') = Talk(session) \/ TalkAction
         /\ Show(session') = Show(session) \/ ShowAction
         /\ Sent(session') = Sent(session) \/ SendAction
<1> DEFINE G == /\ Talk(session') = Talk(session) \/ TalkAction
                /\ Show(session') = Show(session) \/ ShowAction
                /\ Sent(session') = Sent(session) \/ SendAction
<1>d. session \in ProfileSession
  BY Shown
<1>f. DOMAIN session = {"p", "stage", "store", "of", "rx", "inbox_rx", "resolve_rx", "send_rx", "handle",
                        "resolved", "confirm", "flow", "send_id", "pending", "dismissed"}
  BY <1>d, Edited
<1>u. session' = session => G
  BY DEF Talk, Show, Sent
<1>n. session' # NoOne /\ session # NoOne
  BY DEF open
<1>o. ASSUME poll_setup \/ open_initial \/ \E p \in Profiles : run_migration(p) \/ switch_profile(p) \/ open_request(p) \/ MovedAway(p)
      PROVE  \A p \in Profiles : session' # NewSession(p)
  BY <1>o DEF OpenAction
<1>1. ASSUME NEW s \in Slots, WorkerStep(s)
      PROVE  G
  BY <1>u, <1>1 DEF WorkerStep, one_shot, begin_send, prove_fails, prove_and_save, publish
<1>2. ASSUME NEW s \in Slots, User(s)
      PROVE  G
  <2>1. CASE init(s) \/ register(s) \/ refresh(s) \/ buy_tickets(s)
    <3>1. TalkAction /\ session' = [session EXCEPT !.rx = s]
      BY <2>1 DEF TalkAction, init, register, refresh, buy_tickets
    <3> QED
      BY <1>f, <3>1 DEF Talk, Show, Sent
  <2>2. CASE refresh_inbox(s)
    <3>1. TalkAction /\ session' = [session EXCEPT !.inbox_rx = s]
      BY <2>2 DEF TalkAction, refresh_inbox
    <3> QED
      BY <1>f, <3>1 DEF Talk, Show, Sent
  <2>3. CASE resolve(s)
    <3>1. TalkAction /\ session' = [session EXCEPT !.resolved = NoOne, !.resolve_rx = s]
      BY <2>3 DEF TalkAction, resolve
    <3> QED
      BY <1>f, <3>1 DEF Talk, Show, Sent
  <2>4. CASE start_send(s)
    <3>1. /\ SendAction /\ ShowAction
          /\ session' \in {[session EXCEPT !.confirm = FALSE],
                            [session EXCEPT !.confirm = FALSE, !.flow = virtual_plan, !.send_id = NoOne, !.send_rx = s]}
      BY <2>4 DEF SendAction, ShowAction, start_send
    <3> QED
      BY <1>f, <3>1 DEF Talk
  <2>5. CASE flow_resume(s)
    <3>1. /\ SendAction
          /\ \/ session' = session
             \/ session' = [session EXCEPT !.flow = from_state(session.send_id), !.send_id = session.send_id, !.send_rx = s]
      BY <2>5 DEF SendAction, flow_resume, resume_send
    <3> QED
      BY <1>f, <3>1 DEF Talk, Show
  <2>6. ASSUME NEW id \in SendIds, banner_resume(s, id)
        PROVE  G
    <3>0. SendAction
      BY <2>6 DEF SendAction
    <3>1. PICK ss : ss = [session EXCEPT !.pending = @ \ {id}]
      OBVIOUS
    <3>2. session' = ss \/ session' = [ss EXCEPT !.flow = from_state(id), !.send_id = id, !.send_rx = s]
      BY <2>6, <3>1 DEF banner_resume, resume_send
    <3>3. Talk(ss) = Talk(session) /\ Show(ss) = Show(session) /\ DOMAIN ss = DOMAIN session
      BY <1>f, <3>1 DEF Talk, Show
    <3>4. Talk(session') = Talk(ss) /\ Show(session') = Show(ss)
      BY <1>f, <3>2, <3>3 DEF Talk, Show
    <3> QED
      BY <3>0, <3>3, <3>4
  <2>7. ASSUME NEW p \in Profiles, spawn_setup(s, p)
        PROVE  G
    BY <1>u, <2>7 DEF spawn_setup
  <2> QED
    BY <1>2, <2>1, <2>2, <2>3, <2>4, <2>5, <2>6, <2>7 DEF User
<1>3. CASE poll_worker
  <2>1. PICK ss : ss = [session EXCEPT !.rx = NoRx]
    OBVIOUS
  <2>2. session' \in {ss, [ss EXCEPT !.of = @ \cup {threads[session.rx].p}],
                     [ss EXCEPT !.stage = dirs[ss.p].stage, !.store = dirs[ss.p].store]}
    BY <1>3, <2>1 DEF poll_worker, rx_cleared, reload_local_state
  <2>3. Sent(ss) = Sent(session) /\ DOMAIN ss = DOMAIN session
    BY <1>f, <2>1 DEF Sent
  <2>4. Sent(session') = Sent(ss)
    BY <1>f, <2>2, <2>3 DEF Sent
  <2> QED
    BY <1>3, <2>3, <2>4 DEF TalkAction, ShowAction
<1>4. CASE poll_inbox_worker
  <2>1. TalkAction /\ \E of : session' = [session EXCEPT !.inbox_rx = NoRx, !.of = of]
    BY <1>4 DEF TalkAction, poll_inbox_worker
  <2> QED
    BY <1>f, <2>1 DEF Show, Sent
<1>5. CASE poll_compose_worker
  <2>1. TalkAction /\ \E h : session' = [session EXCEPT !.resolve_rx = NoRx, !.resolved = h]
    BY <1>5 DEF TalkAction, poll_compose_worker
  <2> QED
    BY <1>f, <2>1 DEF Show, Sent
<1>6. CASE poll_send_worker
  <2>0. SendAction
    BY <1>6 DEF SendAction
  <2>1. PICK f : f = IF session.flow = NoOne THEN session.flow ELSE apply(session.flow, Head(threads[session.send_rx].ch))
    OBVIOUS
  <2>2. PICK ss : ss = [session EXCEPT !.flow = f]
    OBVIOUS
  <2>3. PICK s2 : s2 = [ss EXCEPT !.send_rx = NoRx]
    OBVIOUS
  <2>4. ss = [session EXCEPT !.flow = IF @ = NoOne THEN @ ELSE apply(@, Head(threads[session.send_rx].ch))]
    BY <1>f, <2>1, <2>2
  <2>5. \/ session' = [s2 EXCEPT !.pending = incomplete(s2.p)]
        \/ session' = [ss EXCEPT !.send_id = Head(threads[session.send_rx].ch).i]
        \/ session' = ss
    BY <1>6, <2>3, <2>4 DEF poll_send_worker, refresh_pending
  <2>6. Talk(ss) = Talk(session) /\ Show(ss) = Show(session) /\ DOMAIN ss = DOMAIN session
    BY <1>f, <2>2 DEF Talk, Show
  <2>7. Talk(s2) = Talk(session) /\ Show(s2) = Show(session) /\ DOMAIN s2 = DOMAIN session
    BY <1>f, <2>3, <2>6 DEF Talk, Show
  <2>8. Talk(session') = Talk(session) /\ Show(session') = Show(session)
    BY <1>f, <2>5, <2>6, <2>7 DEF Talk, Show
  <2> QED
    BY <2>0, <2>8
<1>7. CASE poll_setup
  <2>1. wizard \in Slots /\ threads[wizard].ch # <<>>
    BY <1>7 DEF poll_setup, locked, Typed, WindowTyped, Rx
  <2>2. threads[wizard].p \in Profiles
    BY <2>1, Messages
  <2> QED
    BY <1>u, <1>7, <2>2, <1>o DEF poll_setup
<1>8. CASE lock_click \/ idle_lock \/ after_wipe \/ kill
  BY <1>n, <1>8 DEF lock_click, idle_lock, lock_now, after_wipe, kill, close_session
<1>9. CASE unlock \/ not_now \/ open_initial
  BY <1>u, <1>o, <1>9 DEF unlock, not_now, open_initial, open_session, Typed, WindowTyped, App
<1>10. CASE migrate_store
  <2>1. session' = [session EXCEPT !.stage = "keys", !.store = "v4", !.of = {}]
    BY <1>10 DEF migrate_store
  <2> QED
    BY <1>f, <1>10, <2>1 DEF Sent, TalkAction, ShowAction
<1>11. CASE send_click \/ cancel_send
  <2>1. ShowAction /\ \E b : session' = [session EXCEPT !.confirm = b]
    BY <1>11 DEF send_click, cancel_send, ShowAction
  <2> QED
    BY <1>f, <2>1 DEF Talk, Sent
<1>12. CASE back_to_message
  <2>1. SendAction /\ session' = [session EXCEPT !.flow = NoOne, !.send_id = NoOne]
    BY <1>12 DEF back_to_message, SendAction
  <2> QED
    BY <1>f, <2>1 DEF Talk, Show
<1>13. CASE compose_another
  BY <1>13 DEF TalkAction, ShowAction, SendAction
<1>14. ASSUME NEW p \in Profiles, run_migration(p) \/ switch_profile(p) \/ open_request(p)
       PROVE  G
  BY <1>o, <1>14 DEF run_migration, switch_profile, open_request, open_session
<1>15. ASSUME NEW p \in Profiles, unarchive(p) \/ archive(p)
       PROVE  G
  BY <1>n, <1>u, <1>15 DEF unarchive, archive, leave, close_session
<1>16. ASSUME NEW p \in Profiles, NEW next \in Profiles \cup {NoOne}, delete(p, next)
       PROVE  G
  <2>1. \A q \in Profiles : session' # NewSession(q)
    BY <1>o, <1>16 DEF MovedAway
  <2> QED
    BY <1>n, <1>u, <1>16, <2>1 DEF delete, leave, close_session, open_session
<1>17. ASSUME NEW h \in Handles, edit(h)
       PROVE  G
  <2>1. TalkAction /\ session' = [session EXCEPT !.handle = h, !.resolved = NoOne, !.resolve_rx = NoRx]
    BY <1>17 DEF TalkAction, edit, edited
  <2> QED
    BY <1>f, <2>1 DEF Show, Sent
<1>18. ASSUME NEW id \in SendIds, dismiss(id)
       PROVE  G
  <2>1. SendAction /\ session' = [session EXCEPT !.pending = @ \ {id}, !.dismissed = @ \cup {id}]
    BY <1>18 DEF SendAction, dismiss
  <2> QED
    BY <1>f, <2>1 DEF Talk, Show
<1> QED
  BY <1>1, <1>2, <1>3, <1>4, <1>5, <1>6, <1>7, <1>8, <1>9, <1>10, <1>11, <1>12, <1>13, <1>14, <1>15, <1>16, <1>17, <1>18
     DEF Next, Poll

(* A receiver still listened to is the worker it was.                        *)
SameWorker(r) ==
  /\ threads'[r].kind = threads[r].kind /\ threads'[r].p = threads[r].p
  /\ threads[r].kind \notin Sending => threads'[r].arg = threads[r].arg

LEMMA HeldLives ==
  ASSUME Typed, Own, NEW r \in Slots, held(r)
  PROVE  threads[r].kind # "none"
<1>1. r # NoRx
  BY GuiAssumption DEF Slots, NoRx
<1> QED
  BY <1>1, Receivers DEF Own, OnRx, Sending, receiver

LEMMA Kept ==
  ASSUME Typed, Own, Tidy, Ids, Next, NEW r \in Slots, held(r), held(r)'
  PROVE  SameWorker(r)
<1>t. threads[r] \in Thread /\ r # NoRx
  BY GuiAssumption DEF Typed, ThreadsTyped, Slots, NoRx
<1>1. ASSUME NEW s \in Slots, WorkerStep(s)
      PROVE  SameWorker(r)
  <2>1. ASSUME NEW id \in SendIds, prove_and_save(s, id)
        PROVE  SameWorker(r)
    <3>1. threads[s].arg \in Resuming /\ threads[s].kind \in Sending
      BY <2>1 DEF Tidy, prove_and_save, Sending
    <3> QED
      BY <2>1, <3>1, SavedDoes DEF Typed, SameWorker
  <2>2. ASSUME NEW pc \in {"prove", "publish", "ended"}, NEW es \in Seq(Event), sent(s, pc, es)
        PROVE  SameWorker(r)
    <3>1. /\ \A q \in Slots \ {s} : threads'[q] = threads[q]
          /\ threads'[s] = IF held(s) THEN [threads[s] EXCEPT !.pc = pc, !.ch = @ \o es]
                           ELSE IF pc = "ended" THEN Free ELSE [threads[s] EXCEPT !.pc = pc]
      BY <2>2, SentDoes DEF Typed
    <3> QED
      BY <1>t, <3>1 DEF SameWorker, Thread
  <2> QED
    BY <1>1, <2>1, <2>2, WorkerSteps
<1>2. CASE kill
  BY <1>t, <1>2, Receivers DEF kill, open
<1>3. CASE Window /\ ~kill
  <2>1. WindowStep(r)
    BY <1>3, WindowSteps
  <2>2. ~Gone(r) /\ ~Deaf(r) /\ ~Begun(r)
    <3>1. threads[r] # Free
      BY HeldLives, Frees
    <3> QED
      BY <3>1 DEF Gone, Deaf, Begun, Born
  <2> QED
    BY <1>t, <2>1, <2>2 DEF WindowStep, Same, Popped, SameWorker, Thread
<1> QED
  BY <1>1, <1>2, <1>3 DEF Window

(* The workers a user starts, by receiver.                                   *)
LEMMA BornAs ==
  ASSUME NEW r, NEW kind, NEW p, NEW arg, Born(r, kind, p, arg)
  PROVE  /\ threads'[r].kind = kind /\ threads'[r].p = p /\ threads'[r].arg = arg /\ threads'[r].pc = "begin"
         /\ threads'[r].ch = <<>>
BY DEF Born

LEMMA Begins ==
  ASSUME Typed, NEW s \in Slots, NEW kind \in Kinds, start(s, kind)
  PROVE  Born(s, kind, session.p, NoOne) /\ open
<1>1. open /\ session \in ProfileSession
  BY Shown DEF start, shown, open
<1>2. session.p \in Profiles
  BY <1>1 DEF ProfileSession
<1>3. threads' = spawned(threads, s, kind, session.p, NoOne) /\ s \in slot(threads)
  BY DEF start
<1> QED
  <2>1. NoOne \in Handles \cup {NoOne} \cup Resuming
    OBVIOUS
  <2> QED
    BY <1>1, <1>2, <1>3, <2>1, Spawned DEF Typed

(* What the session becomes owns its receivers, if each is as it was, or    *)
(* was dropped, or began.                                                   *)
Owned ==
  /\ \/ session'.rx \in {session.rx, NoRx}
     \/ /\ session'.rx \in Slots /\ threads'[session'.rx].kind \in OnRx /\ threads'[session'.rx].p = session.p
        /\ threads'[session'.rx].kind \in {"status", "init"} \/ wizard = NoRx
  /\ \/ session'.inbox_rx \in {session.inbox_rx, NoRx}
     \/ session'.inbox_rx \in Slots /\ threads'[session'.inbox_rx].kind = "inbox" /\ threads'[session'.inbox_rx].p = session.p
  /\ \/ session'.resolve_rx = NoRx
     \/ session'.resolve_rx = session.resolve_rx /\ session'.handle = session.handle
     \/ session'.resolve_rx \in Slots /\ threads'[session'.resolve_rx].kind = "resolve"
                                      /\ threads'[session'.resolve_rx].arg = session'.handle
  /\ session'.of \subseteq {session.p}
  /\ session'.resolved \in Handles => session'.resolved = session'.handle

LEMMA TalkOwned ==
  ASSUME Typed, Own, Tidy, Next, open, TalkAction
  PROVE  Owned
<1>d. session \in ProfileSession /\ session.p \in Profiles
  BY Shown DEF ProfileSession
<1>f. DOMAIN session = {"p", "stage", "store", "of", "rx", "inbox_rx", "resolve_rx", "send_rx", "handle",
                        "resolved", "confirm", "flow", "send_id", "pending", "dismissed"}
  BY <1>d, Edited
<1>o. session.of \subseteq {session.p} /\ (session.resolved \in Handles => session.resolved = session.handle)
  BY DEF Own
<1>n. NoOne \notin Handles /\ "unknown handle" \notin Handles /\ \A s \in Slots : s # NoRx
  <2>1. \A s \in Slots : s # NoRx
    BY GuiAssumption DEF Slots, NoRx
  <2> QED
    BY <2>1, AbsenceAssumption
<1>1. ASSUME NEW s \in Slots, init(s) \/ register(s) \/ refresh(s) \/ buy_tickets(s)
      PROVE  Owned
  <2>1. PICK kind \in OnRx : start(s, kind) /\ (kind \in {"status", "init"} \/ wizard = NoRx)
    BY <1>1 DEF init, register, refresh, buy_tickets, OnRx, locked
  <2>2. session' = [session EXCEPT !.rx = s]
    BY <1>1 DEF init, register, refresh, buy_tickets
  <2>3. threads'[s].kind = kind /\ threads'[s].p = session.p
    <3>1. kind \in Kinds
      BY DEF Kinds, OnRx
    <3> QED
      BY <2>1, <3>1, Begins, BornAs
  <2> QED
    BY <1>f, <1>o, <2>1, <2>2, <2>3 DEF Owned
<1>2. ASSUME NEW s \in Slots, refresh_inbox(s)
      PROVE  Owned
  <2>1. threads'[s].kind = "inbox" /\ threads'[s].p = session.p
    <3>1. "inbox" \in Kinds
      BY DEF Kinds
    <3> QED
      BY <1>2, <3>1, Begins, BornAs DEF refresh_inbox
  <2> QED
    BY <1>f, <1>o, <1>2, <2>1 DEF Owned, refresh_inbox
<1>3. ASSUME NEW s \in Slots, resolve(s)
      PROVE  Owned
  <2>1. threads'[s].kind = "resolve" /\ threads'[s].arg = session.handle
    <3>1. "resolve" \in Kinds /\ session.handle \in Handles \cup {NoOne} \cup Resuming
      BY <1>d DEF Kinds, ProfileSession
    <3>2. threads' = spawned(threads, s, "resolve", session.p, session.handle) /\ s \in slot(threads)
      BY <1>3 DEF resolve
    <3>3. Born(s, "resolve", session.p, session.handle)
      BY <1>d, <3>1, <3>2, Spawned DEF Typed
    <3> QED
      BY <3>3, BornAs
  <2>2. session' = [session EXCEPT !.resolved = NoOne, !.resolve_rx = s]
    BY <1>3 DEF resolve
  <2> QED
    BY <1>f, <1>o, <1>n, <2>1, <2>2 DEF Owned
<1>4. CASE poll_worker
  <2>0. session.rx \in Slots /\ threads[session.rx].p = session.p
    <3>1. session.rx \in Slots
      BY <1>4, <1>d DEF poll_worker, worker_busy, ProfileSession, Rx
    <3> QED
      BY <3>1, <1>n DEF Own
  <2>1. PICK ss : ss = [session EXCEPT !.rx = NoRx]
    OBVIOUS
  <2>2. session' \in {ss, [ss EXCEPT !.of = @ \cup {threads[session.rx].p}],
                     [ss EXCEPT !.stage = dirs[ss.p].stage, !.store = dirs[ss.p].store]}
    BY <1>4, <2>1 DEF poll_worker, rx_cleared, reload_local_state
  <2>3. /\ DOMAIN ss = DOMAIN session /\ ss.rx = NoRx /\ ss.inbox_rx = session.inbox_rx /\ ss.of = session.of
        /\ ss.resolve_rx = session.resolve_rx /\ ss.handle = session.handle /\ ss.resolved = session.resolved
    BY <1>f, <2>1
  <2>4. /\ session'.rx = NoRx /\ session'.inbox_rx = session.inbox_rx
        /\ session'.resolve_rx = session.resolve_rx /\ session'.handle = session.handle /\ session'.resolved = session.resolved
        /\ session'.of \subseteq {session.p}
    BY <1>f, <1>o, <2>0, <2>2, <2>3
  <2> QED
    BY <1>o, <2>4 DEF Owned
<1>5. CASE poll_inbox_worker
  <2>0. session.inbox_rx \in Slots /\ threads[session.inbox_rx].p = session.p
    <3>1. session.inbox_rx \in Slots
      BY <1>5, <1>d DEF poll_inbox_worker, ProfileSession, Rx
    <3> QED
      BY <3>1, <1>n DEF Own
  <2>1. PICK of : session' = [session EXCEPT !.inbox_rx = NoRx, !.of = of] /\ of \subseteq session.of \cup {session.p}
    <3>1. \/ session' = [session EXCEPT !.inbox_rx = NoRx, !.of = session.of]
          \/ session' = [session EXCEPT !.inbox_rx = NoRx, !.of = session.of \cup {threads[session.inbox_rx].p}]
      BY <1>5 DEF poll_inbox_worker
    <3> QED
      BY <2>0, <3>1
  <2> QED
    BY <1>f, <1>o, <2>1 DEF Owned
<1>6. CASE poll_compose_worker
  <2>0. session.resolve_rx \in Slots /\ threads[session.resolve_rx].arg = session.handle
    <3>1. session.resolve_rx \in Slots
      BY <1>6, <1>d DEF poll_compose_worker, ProfileSession, Rx
    <3> QED
      BY <3>1, <1>n DEF Own
  <2>1. PICK h \in {session.handle, "unknown handle"} : session' = [session EXCEPT !.resolve_rx = NoRx, !.resolved = h]
    BY <1>6, <2>0 DEF poll_compose_worker
  <2> QED
    BY <1>f, <1>o, <1>n, <2>1 DEF Owned
<1>7. CASE migrate_store
  BY <1>f, <1>o, <1>7 DEF migrate_store, Owned
<1>8. CASE compose_another
  <2>1. session' = [session EXCEPT !.handle = NoOne, !.resolved = NoOne, !.resolve_rx = NoRx, !.confirm = FALSE,
                                   !.flow = NoOne, !.send_rx = NoRx, !.send_id = NoOne]
    BY <1>8 DEF compose_another
  <2> QED
    BY <1>f, <1>o, <1>n, <2>1 DEF Owned
<1>9. ASSUME NEW h \in Handles, edit(h)
      PROVE  Owned
  <2>1. session' = [session EXCEPT !.handle = h, !.resolved = NoOne, !.resolve_rx = NoRx]
    BY <1>9 DEF edit, edited
  <2> QED
    BY <1>f, <1>o, <1>n, <2>1 DEF Owned
<1> QED
  BY <1>1, <1>2, <1>3, <1>4, <1>5, <1>6, <1>7, <1>8, <1>9 DEF TalkAction

-----------------------------------------------------------------------------
(* The ways a send begins. *)

LEMMA SendStarts ==
  ASSUME Typed, NEW s \in Slots, start_send(s)
  PROVE  /\ open /\ wizard = NoRx /\ session.confirm /\ UNCHANGED <<disk, app, wizard>>
         /\ \/ UNCHANGED threads /\ session' = [session EXCEPT !.confirm = FALSE]
            \/ /\ session.send_rx = NoRx /\ session.stage = "registered"
               /\ Born(s, "send", session.p, [id |-> NoOne, done |-> FALSE])
               /\ \A r \in Slots \ {s} : threads'[r] = threads[r]
               /\ session' = [session EXCEPT !.confirm = FALSE, !.flow = virtual_plan, !.send_id = NoOne, !.send_rx = s]
<1>1. open /\ wizard = NoRx /\ session.confirm /\ UNCHANGED <<disk, app, wizard>> /\ session.p \in Profiles
  <2>1. open /\ wizard = NoRx /\ session.confirm /\ UNCHANGED <<disk, app, wizard>>
    BY DEF start_send, shown, open, locked
  <2> QED
    BY <2>1, Shown DEF ProfileSession
<1>2. CASE session.stage # "registered" \/ work_in_flight
  BY <1>1, <1>2 DEF start_send
<1>3. CASE session.stage = "registered" /\ ~work_in_flight
  <2>1. /\ session' = [session EXCEPT !.confirm = FALSE, !.flow = virtual_plan, !.send_id = NoOne, !.send_rx = s]
        /\ s \in slot(threads) /\ session.send_rx = NoRx
        /\ threads' = spawned(threads, s, "send", session.p, [id |-> NoOne, done |-> FALSE])
    BY <1>1, <1>3 DEF start_send, work_in_flight, open
  <2>2. "send" \in Kinds /\ [id |-> NoOne, done |-> FALSE] \in Handles \cup {NoOne} \cup Resuming
    BY DEF Kinds, Resuming
  <2> QED
    BY <1>1, <1>3, <2>1, <2>2, Spawned DEF Typed
<1> QED
  BY <1>2, <1>3

Resumes(s, id) ==
  /\ sends[id].st \in {"pending", "done"} /\ dirs[session.p].place = "live"
  /\ Born(s, "resume", session.p, [id |-> id, done |-> sends[id].st = "done"])
  /\ \A r \in Slots \ {s} : threads'[r] = threads[r]
  /\ session'.flow = from_state(id) /\ session'.send_id = id /\ session'.send_rx = s

LEMMA SendResumes ==
  ASSUME Typed, Ids, NEW s \in Slots, NEW id, (flow_resume(s) /\ id = session.send_id) \/ banner_resume(s, id)
  PROVE  /\ open /\ wizard = NoRx /\ session.send_rx = NoRx /\ UNCHANGED <<disk, app, wizard>>
         /\ id \in SendIds /\ sends[id].p = session.p /\ session'.p = session.p /\ session'.dismissed = session.dismissed
         /\ \/ Resumes(s, id) /\ session'.pending \in {session.pending, session.pending \ {id}}
            \/ /\ UNCHANGED threads /\ session'.flow = session.flow /\ session'.send_id = session.send_id
               /\ session'.send_rx = NoRx /\ session'.pending = session.pending \ {id}
               /\ ~(sends[id].st \in {"pending", "done"} /\ dirs[session.p].place = "live")
<1>0. open /\ session \in ProfileSession /\ wizard = NoRx
  <2>1. open /\ wizard = NoRx
    BY DEF flow_resume, banner_resume, shown, open, locked
  <2> QED
    BY <2>1, Shown
<1>f. DOMAIN session = {"p", "stage", "store", "of", "rx", "inbox_rx", "resolve_rx", "send_rx", "handle",
                        "resolved", "confirm", "flow", "send_id", "pending", "dismissed"}
  BY <1>0, Edited
<1>1. id \in SendIds /\ sends[id].p = session.p
  <2>1. CASE flow_resume(s) /\ id = session.send_id
    <3>1. id # NoOne /\ Ours(id)
      BY <1>0, <2>1 DEF flow_resume, resumable, Ids
    <3> QED
      BY <1>0, <2>1, <3>1 DEF Ours, ProfileSession
  <2>2. CASE banner_resume(s, id)
    <3>1. id \in session.pending /\ Ours(id)
      BY <1>0, <2>2 DEF banner_resume, Ids
    <3>2. id \in SendIds /\ id # NoOne
      <4>1. id \in SendIds
        BY <1>0, <3>1 DEF ProfileSession
      <4> QED
        BY <4>1, AbsenceAssumption
    <3> QED
      BY <3>1, <3>2 DEF Ours
  <2> QED
    BY <2>1, <2>2
<1>2. PICK ss \in {session, [session EXCEPT !.pending = @ \ {id}]} :
        resume_send(s, id, ss) /\ (ss = session => sends[id].st \in {"pending", "done"} /\ dirs[session.p].place = "live")
  <2> DEFINE may == sends[id].st \in {"pending", "done"} /\ dirs[session.p].place = "live"
  <2>1. CASE flow_resume(s) /\ id = session.send_id
    <3>1. resume_send(s, id, session) /\ may
      BY <2>1 DEF flow_resume, resumable
    <3> QED
      BY <3>1
  <2>2. CASE banner_resume(s, id)
    <3>1. resume_send(s, id, [session EXCEPT !.pending = @ \ {id}]) /\ id \in session.pending
      BY <2>2 DEF banner_resume
    <3>2. [session EXCEPT !.pending = @ \ {id}] # session
      BY <1>0, <1>f, <3>1
    <3> QED
      BY <3>1, <3>2
  <2> QED
    BY <2>1, <2>2
<1>3. /\ DOMAIN ss = DOMAIN session /\ ss.p = session.p /\ ss.dismissed = session.dismissed /\ ss.flow = session.flow
      /\ ss.send_id = session.send_id /\ ss.send_rx = session.send_rx
      /\ ss.pending \in {session.pending, session.pending \ {id}}
      /\ ss # session => ss.pending = session.pending \ {id}
  BY <1>2, <1>f
<1>4. session.send_rx = NoRx /\ UNCHANGED <<disk, app, wizard>> /\ s \in slot(threads)
  BY <1>0, <1>2 DEF resume_send, work_in_flight, open
<1>5. CASE sends[id].st \in {"pending", "done"} /\ dirs[ss.p].place = "live"
  <2>1. /\ session' = [ss EXCEPT !.flow = from_state(id), !.send_id = id, !.send_rx = s]
        /\ threads' = spawned(dropped({session.send_rx}), s, "resume", ss.p, [id |-> id, done |-> sends[id].st = "done"])
    BY <1>2, <1>5 DEF resume_send
  <2>2. dropped({session.send_rx}) = threads
    <3>1. session.send_rx \notin Slots
      BY <1>4, GuiAssumption DEF Slots, NoRx
    <3>2. dropped({session.send_rx}) = [r \in Slots |-> threads[r]]
      BY <3>1 DEF dropped
    <3> QED
      BY <3>2 DEF Typed, ThreadsTyped
  <2>3. /\ "resume" \in Kinds /\ session.p \in Profiles
        /\ [id |-> id, done |-> sends[id].st = "done"] \in Handles \cup {NoOne} \cup Resuming
    BY <1>0, <1>1 DEF Kinds, Resuming, ProfileSession
  <2>4. Born(s, "resume", session.p, [id |-> id, done |-> sends[id].st = "done"])
        /\ \A r \in Slots \ {s} : threads'[r] = threads[r]
    BY <1>3, <1>4, <2>1, <2>2, <2>3, Spawned DEF Typed
  <2>5. /\ session'.flow = from_state(id) /\ session'.send_id = id /\ session'.send_rx = s
        /\ session'.p = session.p /\ session'.dismissed = session.dismissed
        /\ session'.pending \in {session.pending, session.pending \ {id}}
    BY <1>f, <1>3, <2>1
  <2> QED
    BY <1>0, <1>1, <1>3, <1>4, <1>5, <2>4, <2>5 DEF Resumes
<1>6. CASE ~(sends[id].st \in {"pending", "done"} /\ dirs[ss.p].place = "live")
  <2>1. session' = ss /\ UNCHANGED threads
    BY <1>2, <1>6 DEF resume_send
  <2>2. ss # session
    BY <1>2, <1>3, <1>6
  <2> QED
    BY <1>0, <1>1, <1>3, <1>4, <1>6, <2>1, <2>2
<1> QED
  BY <1>5, <1>6

LEMMA SendRx ==
  ASSUME Typed, Tidy, Ids, open, SendAction
  PROVE  \/ session'.send_rx \in {session.send_rx, NoRx}
         \/ /\ session'.send_rx \in Slots /\ session.send_rx = NoRx /\ wizard = NoRx
            /\ threads'[session'.send_rx].kind \in Sending /\ threads'[session'.send_rx].p = session.p
<1> DEFINE G == \/ session'.send_rx \in {session.send_rx, NoRx}
                \/ /\ session'.send_rx \in Slots /\ session.send_rx = NoRx /\ wizard = NoRx
                   /\ threads'[session'.send_rx].kind \in Sending /\ threads'[session'.send_rx].p = session.p
<1>f. DOMAIN session = {"p", "stage", "store", "of", "rx", "inbox_rx", "resolve_rx", "send_rx", "handle",
                        "resolved", "confirm", "flow", "send_id", "pending", "dismissed"}
  BY Shown, Edited
<1>1. ASSUME NEW s \in Slots, start_send(s)
      PROVE  G
  <2>1. \/ session' = [session EXCEPT !.confirm = FALSE]
        \/ /\ session.send_rx = NoRx /\ wizard = NoRx /\ Born(s, "send", session.p, [id |-> NoOne, done |-> FALSE])
           /\ session' = [session EXCEPT !.confirm = FALSE, !.flow = virtual_plan, !.send_id = NoOne, !.send_rx = s]
    BY <1>1, SendStarts
  <2>2. Born(s, "send", session.p, [id |-> NoOne, done |-> FALSE]) =>
          threads'[s].kind = "send" /\ threads'[s].p = session.p
    BY BornAs
  <2> QED
    BY <1>f, <2>1, <2>2 DEF Sending
<1>2. ASSUME NEW s \in Slots, NEW id, (flow_resume(s) /\ id = session.send_id) \/ banner_resume(s, id)
      PROVE  G
  <2>1. session.send_rx = NoRx /\ wizard = NoRx /\ (session'.send_rx = NoRx \/ Resumes(s, id))
    BY <1>2, SendResumes
  <2>2. Resumes(s, id) => threads'[s].kind = "resume" /\ threads'[s].p = session.p /\ session'.send_rx = s
    BY BornAs DEF Resumes
  <2> QED
    BY <2>1, <2>2 DEF Sending
<1>3. CASE (\E id \in SendIds : dismiss(id)) \/ back_to_message \/ compose_another
  BY <1>f, <1>3 DEF dismiss, back_to_message, compose_another
<1>4. CASE poll_send_worker
  <2>1. PICK ss : ss = [session EXCEPT !.flow = IF @ = NoOne THEN @ ELSE apply(@, Head(threads[session.send_rx].ch))]
    OBVIOUS
  <2>2. PICK s2 : s2 = [ss EXCEPT !.send_rx = NoRx]
    OBVIOUS
  <2>5. \/ session' = [s2 EXCEPT !.pending = incomplete(s2.p)]
        \/ session' = [ss EXCEPT !.send_id = Head(threads[session.send_rx].ch).i]
        \/ session' = ss
    BY <1>4, <2>1, <2>2 DEF poll_send_worker, refresh_pending
  <2>6. ss.send_rx = session.send_rx /\ DOMAIN ss = DOMAIN session
    BY <1>f, <2>1
  <2>7. s2.send_rx = NoRx /\ DOMAIN s2 = DOMAIN session
    BY <1>f, <2>2, <2>6
  <2> QED
    BY <1>f, <2>5, <2>6, <2>7
<1> QED
  BY <1>1, <1>2, <1>3, <1>4 DEF SendAction

LEMMA OwnStays ==
  ASSUME Typed, Own, Tidy, Framed, Ids, Next
  PROVE  Own'
<1>n. \A s \in Slots : s # NoRx
  BY GuiAssumption DEF Slots, NoRx
<1>1. wizard' # NoRx => threads'[wizard'].kind = "setup"
  <2>1. CASE wizard' = wizard /\ wizard # NoRx
    <3>1. wizard \in Slots /\ held(wizard) /\ held(wizard)'
      BY <2>1, Receivers DEF Typed, WindowTyped, Rx
    <3> QED
      BY <2>1, <3>1, Kept DEF Own, SameWorker
  <2>2. ASSUME NEW s \in Slots, NEW p \in Profiles, spawn_setup(s, p), wizard' = s
        PROVE  threads'[wizard'].kind = "setup"
    <3>1. "setup" \in Kinds /\ NoOne \in Handles \cup {NoOne} \cup Resuming
      BY DEF Kinds
    <3>2. threads' = spawned(threads, s, "setup", p, NoOne) /\ s \in slot(threads)
      BY <2>2 DEF spawn_setup
    <3> QED
      BY <2>2, <3>1, <3>2, Spawned, BornAs DEF Typed
  <2> QED
    BY <2>1, <2>2, Wizards
<1>2. CASE ~open'
  BY <1>1, <1>2 DEF Own
<1>3. ASSUME NEW p \in Profiles, session' = NewSession(p)
      PROVE  Own'
  <2>1. /\ session'.rx = NoRx /\ session'.inbox_rx = NoRx /\ session'.resolve_rx = NoRx /\ session'.send_rx = NoRx
        /\ session'.of = {} /\ session'.resolved = NoOne
    BY <1>3 DEF NewSession
  <2> QED
    BY <1>1, <2>1, AbsenceAssumption DEF Own
<1>4. CASE open /\ open' /\ KeptIn(session, session') /\ \A p \in Profiles : session' # NewSession(p)
  <2>1. session \in ProfileSession /\ session' \in ProfileSession /\ session'.p = session.p
    BY <1>4, Shown DEF KeptIn
  <2>2. Owned
    <3>1. CASE TalkAction
      BY <1>4, <3>1, TalkOwned
    <3>2. CASE Talk(session') = Talk(session)
      BY <1>4, <3>2 DEF Talk, Owned, Own
    <3> QED
      BY <1>4, <3>1, <3>2, Frames
  <2>3. \/ session'.send_rx \in {session.send_rx, NoRx}
        \/ /\ session'.send_rx \in Slots
           /\ threads'[session'.send_rx].kind \in Sending /\ threads'[session'.send_rx].p = session.p
    <3>1. CASE Sent(session') = Sent(session)
      BY <3>1 DEF Sent
    <3> QED
      BY <1>4, <3>1, Frames, SendRx
  <2>4. ASSUME NEW r \in Slots, held(r), held(r)'
        PROVE  SameWorker(r)
    BY <2>4, Kept
  <2>5. session'.rx # NoRx => threads'[session'.rx].kind \in OnRx /\ threads'[session'.rx].p = session.p
    <3>1. CASE session'.rx = session.rx /\ session.rx # NoRx
      <4>1. session.rx \in Slots /\ held(session.rx) /\ held(session.rx)'
        BY <1>4, <2>1, <3>1, Receivers DEF ProfileSession, Rx
      <4> QED
        BY <1>4, <2>4, <3>1, <4>1 DEF Own, SameWorker
    <3> QED
      BY <2>2, <3>1 DEF Owned
  <2>6. session'.inbox_rx # NoRx => threads'[session'.inbox_rx].kind = "inbox" /\ threads'[session'.inbox_rx].p = session.p
    <3>1. CASE session'.inbox_rx = session.inbox_rx /\ session.inbox_rx # NoRx
      <4>1. session.inbox_rx \in Slots /\ held(session.inbox_rx) /\ held(session.inbox_rx)'
        BY <1>4, <2>1, <3>1, Receivers DEF ProfileSession, Rx
      <4> QED
        BY <1>4, <2>4, <3>1, <4>1 DEF Own, SameWorker
    <3> QED
      BY <2>2, <3>1 DEF Owned
  <2>7. session'.resolve_rx # NoRx =>
          threads'[session'.resolve_rx].kind = "resolve" /\ threads'[session'.resolve_rx].arg = session'.handle
    <3>1. CASE session'.resolve_rx = session.resolve_rx /\ session.resolve_rx # NoRx /\ session'.handle = session.handle
      <4>1. session.resolve_rx \in Slots /\ held(session.resolve_rx) /\ held(session.resolve_rx)'
        BY <1>4, <2>1, <3>1, Receivers DEF ProfileSession, Rx
      <4> QED
        BY <1>4, <2>4, <3>1, <4>1 DEF Own, SameWorker, Sending
    <3> QED
      BY <2>2, <3>1 DEF Owned
  <2>8. session'.send_rx # NoRx => threads'[session'.send_rx].kind \in Sending /\ threads'[session'.send_rx].p = session.p
    <3>1. CASE session'.send_rx = session.send_rx /\ session.send_rx # NoRx
      <4>1. session.send_rx \in Slots /\ held(session.send_rx) /\ held(session.send_rx)'
        BY <1>4, <2>1, <3>1, Receivers DEF ProfileSession, Rx
      <4> QED
        BY <1>4, <2>4, <3>1, <4>1 DEF Own, SameWorker, receiver
    <3> QED
      BY <2>3, <3>1
  <2> QED
    BY <1>1, <2>1, <2>2, <2>5, <2>6, <2>7, <2>8 DEF Own, Owned, receiver
<1>5. CASE session' = session /\ \A p \in Profiles : session' # NewSession(p)
  <2>1. CASE open
    BY <1>4, <1>5, <2>1, Shown DEF KeptIn, open
  <2> QED
    BY <1>2, <1>5, <2>1 DEF open
<1> QED
  BY <1>2, <1>3, <1>4, <1>5, SessionSteps DEF SessionStep, open

-----------------------------------------------------------------------------
(* Where profiles are, and where the window is. *)

LEMMA Places ==
  ASSUME Typed, Tidy, Next, ~after_wipe, NEW p \in Profiles, ~MovedAway(p), dirs[p].place = "live"
  PROVE  dirs'[p].place = "live"
<1>t. \A q \in Profiles : dirs[q] \in Dir
  BY DEF Typed, DiskTyped
<1>e. ASSUME NEW q \in Profiles, NEW place, q # p \/ place = "live", dirs' = [dirs EXCEPT ![q].place = place]
      PROVE  dirs'[p].place = "live"
  BY <1>t, <1>e DEF Typed, DiskTyped, Dir
<1>1. ASSUME NEW s \in Slots, WorkerStep(s)
      PROVE  dirs'[p].place = "live"
  <2>1. CASE dirs' = dirs
    BY <2>1
  <2>2. ASSUME NEW ok \in BOOLEAN, one_shot(s, ok), dirs' # dirs
        PROVE  dirs'[p].place = "live"
    <3>1. threads[s].p \in Profiles
      BY <2>2, Frees DEF Tidy, one_shot, runs, Kinds
    <3>2. dirs' = [dirs EXCEPT ![threads[s].p] = result(threads[s].kind, @)]
      BY <2>2 DEF one_shot
    <3>3. result(threads[s].kind, dirs[p]).place = "live"
      BY <1>t DEF result, Dir
    <3> QED
      BY <3>1, <3>2, <3>3 DEF Typed, DiskTyped
  <2> QED
    BY <1>1, <2>1, <2>2 DEF WorkerStep, begin_send, prove_fails, prove_and_save, publish, disk
<1>2. ASSUME NEW s \in Slots, User(s)
      PROVE  UNCHANGED disk
  BY <1>2 DEF User, init, register, refresh, buy_tickets, refresh_inbox, resolve, start_send, flow_resume, banner_resume,
              resume_send, spawn_setup, start
<1>3. CASE Poll
  BY <1>3 DEF Poll, poll_worker, poll_inbox_worker, poll_compose_worker, poll_send_worker, poll_setup, disk
<1>4. CASE lock_click \/ idle_lock \/ unlock \/ open_initial \/ not_now \/ kill \/ send_click \/ cancel_send
           \/ back_to_message \/ compose_another
  BY <1>4 DEF lock_click, idle_lock, lock_now, unlock, open_initial, not_now, kill, send_click, cancel_send,
              back_to_message, compose_another, disk
<1>5. CASE migrate_store
  <2>1. session.p \in Profiles
    BY <1>5, Shown DEF migrate_store, shown, open, ProfileSession
  <2>2. dirs' = [dirs EXCEPT ![session.p] = [dirs[session.p] EXCEPT !.stage = "keys", !.store = "v4"]]
    BY <1>5, <2>1 DEF migrate_store, Typed, DiskTyped
  <2>3. [dirs[session.p] EXCEPT !.stage = "keys", !.store = "v4"].place = dirs[session.p].place
    BY <1>t, <2>1 DEF Dir
  <2> QED
    BY <2>1, <2>2, <2>3 DEF Typed, DiskTyped
<1>6. ASSUME NEW q \in Profiles, run_migration(q) \/ switch_profile(q) \/ open_request(q)
      PROVE  dirs' = dirs
  BY <1>6 DEF run_migration, switch_profile, open_request, disk
<1>7. ASSUME NEW q \in Profiles, unarchive(q)
      PROVE  dirs'[p].place = "live"
  BY <1>e, <1>7 DEF unarchive
<1>8. ASSUME NEW q \in Profiles, archive(q)
      PROVE  dirs'[p].place = "live"
  <2>1. q # p /\ dirs' = [dirs EXCEPT ![q].place = "archived"]
    BY <1>8 DEF MovedAway, archive
  <2> QED
    BY <1>e, <2>1
<1>9. ASSUME NEW q \in Profiles, NEW next \in Profiles \cup {NoOne}, delete(q, next)
      PROVE  dirs'[p].place = "live"
  <2>1. q # p /\ dirs' = [dirs EXCEPT ![q].place = "gone"]
    BY <1>9 DEF MovedAway, delete
  <2> QED
    BY <1>e, <2>1
<1>10. ASSUME NEW h \in Handles, edit(h)
       PROVE  dirs' = dirs
  BY <1>10 DEF edit, disk
<1>11. ASSUME NEW id \in SendIds, dismiss(id)
       PROVE  dirs' = dirs
  BY <1>11 DEF dismiss, disk
<1> QED
  BY <1>1, <1>2, <1>3, <1>4, <1>5, <1>6, <1>7, <1>8, <1>9, <1>10, <1>11 DEF Next, disk

(* A session comes up in a window that is unlocked and started.              *)
LEMMA Opens ==
  ASSUME Next, ~open, open'
  PROVE  open_initial \/ \E p \in Profiles : run_migration(p) \/ open_request(p)
<1>1. ASSUME NEW s \in Slots, WorkerStep(s)
      PROVE  FALSE
  BY <1>1 DEF WorkerStep, one_shot, begin_send, prove_fails, prove_and_save, publish, open
<1>2. ASSUME NEW s \in Slots, User(s)
      PROVE  FALSE
  BY <1>2 DEF User, init, register, refresh, buy_tickets, refresh_inbox, resolve, start_send, flow_resume, banner_resume,
              resume_send, spawn_setup, start, form_shown, shown, open
<1>3. CASE Poll
  BY <1>3 DEF Poll, poll_worker, poll_inbox_worker, poll_compose_worker, poll_send_worker, poll_setup, shown, open
<1>4. CASE lock_click \/ idle_lock \/ unlock \/ not_now \/ after_wipe \/ kill
           \/ migrate_store \/ send_click \/ cancel_send \/ back_to_message \/ compose_another
  BY <1>4 DEF lock_click, idle_lock, lock_now, unlock, not_now, after_wipe, kill, close_session, migrate_store, send_click,
              cancel_send, back_to_message, compose_another, form_shown, shown, open
<1>5. ASSUME NEW p \in Profiles, switch_profile(p) \/ unarchive(p) \/ archive(p)
      PROVE  FALSE
  BY <1>5 DEF switch_profile, unarchive, archive, leave, close_session, picker, shown, open
<1>6. ASSUME NEW p \in Profiles, NEW next \in Profiles \cup {NoOne}, delete(p, next)
      PROVE  FALSE
  BY <1>6 DEF delete, leave, open
<1>7. ASSUME NEW h \in Handles, edit(h)
      PROVE  FALSE
  BY <1>7 DEF edit, form_shown, shown, open
<1>8. ASSUME NEW id \in SendIds, dismiss(id)
      PROVE  FALSE
  BY <1>8 DEF dismiss, shown, open
<1> QED
  BY <1>1, <1>2, <1>3, <1>4, <1>5, <1>6, <1>7, <1>8 DEF Next

LEMMA Moved ==
  ASSUME Typed, Framed
  PROVE  /\ \A p \in Profiles : MovedAway(p) => wizard = NoRx /\ app' = app /\ framed /\ (open' => session'.p # p)
         /\ after_wipe => /\ session' = NoOne /\ wizard' = NoRx
                          /\ app'.initial = NoOne /\ app'.reopen = NoOne /\ app'.locked
<1>0. Typed /\ NoOne \notin Profiles
  BY AbsenceAssumption
<1>1. \A p \in Profiles : MovedAway(p) => wizard = NoRx /\ app' = app /\ framed /\ (open' => session'.p # p)
  <2>1. ASSUME NEW p \in Profiles, archive(p)
        PROVE  wizard = NoRx /\ app' = app /\ framed /\ (open' => session'.p # p)
    BY <2>1 DEF archive, leave, close_session, dialog_busy, app_busy, locked, open
  <2>2. ASSUME NEW p \in Profiles, NEW next \in Profiles \cup {NoOne}, delete(p, next)
        PROVE  wizard = NoRx /\ app' = app /\ framed /\ (open' => session'.p # p)
    <3>1. wizard = NoRx /\ app' = app /\ framed
      BY <2>2 DEF delete, dialog_busy, app_busy, locked
    <3>2. CASE session' = session
      <4>1. ~open \/ session.p # p \/ dirs[p].place # "live"
        BY <2>2, <3>2 DEF delete, leave, close_session, open_session, NewSession, open
      <4>2. open => dirs[session.p].place = "live"
        BY <1>0, Shown DEF Framed, Live, ProfileSession
      <4> QED
        BY <3>1, <3>2, <4>1, <4>2 DEF open
    <3>3. CASE session' = NoOne
      BY <3>1, <3>3 DEF open
    <3>4. CASE session' = NewSession(next) /\ next # p
      BY <3>1, <3>4 DEF NewSession
    <3> QED
      BY <2>2, <3>2, <3>3, <3>4 DEF delete, leave, close_session, open_session
  <2> QED
    BY <2>1, <2>2 DEF MovedAway
<1>2. after_wipe => session' = NoOne /\ wizard' = NoRx /\ app'.initial = NoOne /\ app'.reopen = NoOne /\ app'.locked
  BY DEF after_wipe, close_session, Typed, WindowTyped, App
<1> QED
  BY <1>1, <1>2

LEMMA FramedStays ==
  ASSUME Typed, Own, Tidy, Framed, Ids, Next
  PROVE  Framed'
<1>0. Typed' /\ NoOne \notin Profiles
  BY TypedStays, AbsenceAssumption
<1>m. \A p \in Profiles : MovedAway(p) => wizard = NoRx /\ app' = app /\ framed /\ (open' => session'.p # p)
  BY Moved
<1>w. after_wipe => session' = NoOne /\ wizard' = NoRx /\ app'.initial = NoOne /\ app'.reopen = NoOne /\ app'.locked
  BY Moved
<1>l. ASSUME NEW p \in Profiles, dirs[p].place = "live", ~after_wipe, ~MovedAway(p)
      PROVE  dirs'[p].place = "live"
  BY <1>l, Places
<1>a. app \in App /\ app' \in App
  BY <1>0 DEF Typed, WindowTyped
<1>1. ~framed' => ~open'
  <2>1. CASE open_initial
    BY <1>a, <2>1 DEF open_initial, framed, App
  <2>2. ASSUME NEW p \in Profiles, run_migration(p)
        PROVE  framed'
    BY <1>a, <2>2 DEF run_migration, framed, App
  <2>3. ASSUME NEW p \in Profiles, open_request(p)
        PROVE  framed'
    BY <2>3 DEF open_request, framed
  <2>4. CASE open /\ app' = app
    BY <2>4 DEF Framed, framed
  <2>5. CASE lock_click \/ idle_lock \/ after_wipe \/ kill
    BY <2>5 DEF lock_click, idle_lock, lock_now, after_wipe, kill, close_session, open
  <2>6. CASE unlock \/ not_now
    BY <2>6 DEF unlock, not_now, Framed, framed, open
  <2> QED
    BY <2>1, <2>2, <2>3, <2>4, <2>5, <2>6, Apps, Opens
<1>2. ~app'.locked => app'.reopen = NoOne
  <2>1. CASE lock_click \/ idle_lock \/ after_wipe \/ kill
    BY <1>a, <2>1 DEF lock_click, idle_lock, lock_now, after_wipe, kill, App
  <2>2. CASE unlock \/ not_now \/ open_initial
    <3>1. ~app.locked => app.reopen = NoOne
      BY DEF Framed
    <3>2. CASE unlock
      BY <1>a, <3>2 DEF unlock, App
    <3>3. CASE not_now \/ open_initial
      BY <1>a, <3>1, <3>3 DEF not_now, open_initial, App
    <3> QED
      BY <2>2, <3>2, <3>3
  <2>3. ASSUME NEW p \in Profiles, run_migration(p)
        PROVE  ~app'.locked => app'.reopen = NoOne
    BY <1>a, <2>3 DEF run_migration, App, Framed
  <2> QED
    BY <2>1, <2>2, <2>3, Apps DEF Framed
<1>3. Live(app.initial)' /\ Live(app.reopen)'
  <2>i. ASSUME NEW p \in Profiles \cup {NoOne}, Live(p), ~after_wipe, p # NoOne => ~MovedAway(p)
        PROVE  p # NoOne => dirs'[p].place = "live"
    BY <1>l, <2>i DEF Live
  <2>k. /\ app.initial \in Profiles \cup {NoOne} /\ app.reopen \in Profiles \cup {NoOne}
        /\ open => session.p \in Profiles /\ Live(session.p)
    BY <1>a, Shown DEF App, ProfileSession, Framed
  <2>1. CASE app' = app
    <3>1. CASE after_wipe
      BY <1>w, <3>1 DEF Live
    <3>2. CASE \E p \in Profiles : MovedAway(p)
      <4>1. app.initial = NoOne /\ ~app.locked
        BY <1>m, <3>2 DEF framed
      <4>2. app.reopen = NoOne
        BY <4>1 DEF Framed
      <4> QED
        BY <2>1, <4>1, <4>2 DEF Live
    <3>3. CASE ~after_wipe /\ ~ \E p \in Profiles : MovedAway(p)
      BY <2>i, <2>k, <2>1, <3>3 DEF Framed, Live
    <3> QED
      BY <3>1, <3>2, <3>3
  <2>2. CASE after_wipe
    BY <1>w, <2>2 DEF Live
  <2>3. CASE UNCHANGED dirs
    <3>1. CASE lock_click \/ idle_lock
      <4>1. app'.initial = NoOne /\ app'.reopen = IF open THEN session.p ELSE NoOne
        BY <1>a, <3>1 DEF lock_click, idle_lock, lock_now, App, open
      <4> QED
        BY <2>k, <2>3, <4>1 DEF Live
    <3>2. CASE unlock \/ not_now \/ open_initial
      <4>1. app'.initial \in {NoOne, app.initial, app.reopen} /\ app'.reopen \in {NoOne, app.reopen}
        BY <1>a, <3>2 DEF unlock, not_now, open_initial, App
      <4> QED
        BY <2>3, <4>1 DEF Live, Framed
    <3>3. CASE kill
      <4>1. PICK d \in {q \in Profiles : dirs[q].place = "live"} \cup {NoOne} :
              app' = [app EXCEPT !.locked = TRUE, !.reopen = NoOne, !.initial = d]
        BY <3>3 DEF kill
      <4> QED
        BY <1>a, <2>3, <4>1 DEF Live, App
    <3>4. ASSUME NEW p \in Profiles, run_migration(p)
          PROVE  Live(app.initial)' /\ Live(app.reopen)'
      <4>1. app'.initial = NoOne /\ app'.reopen = app.reopen
        BY <1>a, <3>4 DEF run_migration, App
      <4> QED
        BY <2>3, <4>1 DEF Live, Framed
    <3> QED
      BY <2>1, <2>2, <3>1, <3>2, <3>3, <3>4, Apps
  <2>4. app' # app /\ ~after_wipe => UNCHANGED dirs
    BY Apps DEF lock_click, idle_lock, lock_now, unlock, open_initial, not_now, kill, run_migration, disk
  <2> QED
    BY <2>1, <2>2, <2>3, <2>4
<1>4. open' => Live(session.p)'
  <2>0. ASSUME open', NEW p \in Profiles, session'.p = p, dirs[p].place = "live"
        PROVE  Live(session.p)'
    <3>1. ~after_wipe /\ ~MovedAway(p)
      <4>1. ~after_wipe
        BY <1>w, <2>0 DEF open
      <4>2. ~MovedAway(p)
        BY <1>m, <2>0
      <4> QED
        BY <4>1, <4>2
    <3> QED
      BY <1>l, <2>0, <3>1 DEF Live
  <2>1. ASSUME NEW p \in Profiles, session' = NewSession(p), dirs[p].place = "live"
        PROVE  open' => Live(session.p)'
    BY <2>0, <2>1 DEF NewSession
  <2>2. CASE open /\ open' /\ session'.p = session.p
    <3>1. session.p \in Profiles /\ dirs[session.p].place = "live"
      BY <1>0, <2>2, Shown DEF ProfileSession, Framed, Live
    <3> QED
      BY <2>0, <2>2, <3>1
  <2> QED
    BY <2>1, <2>2, SessionSteps DEF SessionStep, KeptIn, open
<1>5. ASSUME wizard' # NoRx, Says(wizard, "Ok")'
      PROVE  Live(threads[wizard].p)'
  <2>1. ASSUME NEW s \in Slots, NEW p \in Profiles, spawn_setup(s, p), wizard' = s
        PROVE  FALSE
    <3>1. "setup" \in Kinds /\ NoOne \in Handles \cup {NoOne} \cup Resuming
      BY DEF Kinds
    <3>2. threads' = spawned(threads, s, "setup", p, NoOne) /\ s \in slot(threads)
      BY <2>1 DEF spawn_setup
    <3>3. threads'[s].ch = <<>>
      BY <3>1, <3>2, Spawned, BornAs DEF Typed
    <3> QED
      BY <1>5, <2>1, <3>3 DEF Says
  <2>2. wizard' = wizard /\ wizard \in Slots
    BY <1>5, <2>1, Wizards DEF Typed, WindowTyped, Rx
  <2>3. held(wizard) /\ held(wizard)' /\ threads[wizard].kind = "setup" /\ threads'[wizard].p = threads[wizard].p
    <3>1. held(wizard) /\ held(wizard)' /\ threads[wizard].kind = "setup"
      BY <1>5, <2>2, Receivers DEF Own
    <3> QED
      BY <2>2, <3>1, Kept DEF SameWorker
  <2>4. threads[wizard].p \in Profiles
    BY <2>2, <2>3 DEF Tidy
  <2>5. ~after_wipe /\ ~MovedAway(threads[wizard].p)
    BY <1>5, <1>w, <1>m, <2>2, <2>4
  <2>6. CASE Says(wizard, "Ok")
    <3>1. dirs[threads[wizard].p].place = "live"
      BY <1>5, <2>2, <2>4, <2>6, <1>0 DEF Framed, Live
    <3> QED
      BY <1>l, <2>2, <2>3, <2>4, <2>5, <3>1 DEF Live
  <2>7. CASE ~Says(wizard, "Ok")
    <3>t. threads[wizard] \in Thread /\ threads[wizard].ch \in Seq(Event)
      BY <2>2 DEF Typed, ThreadsTyped, Thread
    <3>1. ASSUME threads'[wizard] = threads[wizard]
          PROVE  FALSE
      BY <1>5, <2>2, <2>7, <3>1 DEF Says
    <3>2. ASSUME Window
          PROVE  FALSE
      <4>1. ~kill
        BY <1>5 DEF kill
      <4>2. WindowStep(wizard)
        BY <2>2, <3>2, <4>1, WindowSteps
      <4>3. ~Gone(wizard) /\ ~Deaf(wizard) /\ ~Begun(wizard)
        <5>1. threads[wizard] # Free
          BY <2>3, Frees
        <5> QED
          BY <2>3, <5>1 DEF Gone, Deaf, Begun, Born
      <4>4. ~Popped(wizard)
        BY <1>5, <2>2, <2>3 DEF Popped, Own, receiver, Sending
      <4> QED
        BY <3>1, <4>2, <4>3, <4>4 DEF WindowStep, Same
    <3>3. ASSUME NEW s \in Slots, WorkerStep(s), s # wizard
          PROVE  FALSE
      <4>1. threads'[wizard] = threads[wizard]
        <5>1. ASSUME NEW id \in SendIds, prove_and_save(s, id)
              PROVE  threads'[wizard] = threads[wizard]
          BY <2>2, <3>3, <5>1 DEF prove_and_save, Typed, ThreadsTyped
        <5>2. ASSUME NEW pc \in {"prove", "publish", "ended"}, NEW es \in Seq(Event), sent(s, pc, es)
              PROVE  threads'[wizard] = threads[wizard]
          BY <2>2, <3>3, <5>2 DEF sent, Typed, ThreadsTyped
        <5> QED
          BY <3>3, <5>1, <5>2, WorkerSteps
      <4> QED
        BY <3>1, <4>1
    <3>4. ASSUME WorkerStep(wizard)
          PROVE  Live(threads[wizard].p)'
      <4>1. PICK ok \in BOOLEAN : one_shot(wizard, ok)
        <5>1. threads[wizard].pc # "prove" /\ threads[wizard].pc # "publish"
          BY <2>2, <2>3 DEF Tidy, Sending
        <5> QED
          BY <2>3, <3>4, <5>1 DEF WorkerStep, begin_send, runs, prove_fails, prove_and_save, publish
      <4>2. ok
        <5>1. SUFFICES ASSUME ~ok
                       PROVE  FALSE
          OBVIOUS
        <5>2. threads'[wizard].ch = threads[wizard].ch \o <<Done(FALSE)>> /\ <<Done(FALSE)>> \in Seq(Event)
          <6>1. <<Done(FALSE)>> \in Seq(Event)
            BY Words, Tuples
          <6>2. sent(wizard, "ended", <<Done(FALSE)>>)
            BY <4>1, <5>1 DEF one_shot
          <6> QED
            <7>1. threads'[wizard] = IF held(wizard) THEN [threads[wizard] EXCEPT !.pc = "ended", !.ch = @ \o <<Done(FALSE)>>]
                                     ELSE Free
              BY <2>2, <6>1, <6>2, SentDoes DEF Typed
            <7> QED
              BY <2>3, <3>t, <6>1, <7>1 DEF Thread
        <5>3. \A i \in 1..Len(threads[wizard].ch \o <<Done(FALSE)>>) :
                 (i \in 1..Len(threads[wizard].ch) /\ (threads[wizard].ch \o <<Done(FALSE)>>)[i] = threads[wizard].ch[i])
                 \/ (\E j \in 1..Len(<<Done(FALSE)>>) :
                       i = Len(threads[wizard].ch) + j /\ (threads[wizard].ch \o <<Done(FALSE)>>)[i] = <<Done(FALSE)>>[j])
          BY <3>t, <5>2, Appended
        <5>4. \A j \in 1..Len(<<Done(FALSE)>>) : <<Done(FALSE)>>[j].k = "Err"
          BY DEF Done, Ev
        <5> QED
          BY <1>5, <2>2, <2>7, <5>2, <5>3, <5>4 DEF Says
      <4>3. dirs' = [dirs EXCEPT ![threads[wizard].p] = result("setup", @)]
        BY <2>3, <4>1, <4>2 DEF one_shot
      <4>4. dirs'[threads[wizard].p].place = "live"
        BY <2>4, <4>3 DEF result, Typed, DiskTyped
      <4> QED
        BY <2>2, <2>3, <4>4 DEF Live
    <3> QED
      BY <3>2, <3>3, <3>4 DEF Window
  <2> QED
    BY <2>6, <2>7
<1> QED
  BY <1>1, <1>2, <1>3, <1>4, <1>5 DEF Framed

-----------------------------------------------------------------------------
(* What workers say, and the files they leave. *)

LEMMA SaidBy ==
  /\ Said(<<>>) = {}
  /\ \A d, e, f \in Event : Said(<<d>>) = {d} /\ Said(<<d, e>>) = {d, e} /\ Said(<<d, e, f>>) = {d, e, f}
  /\ \A a, b \in Seq(Event) : Said(a \o b) = Said(a) \cup Said(b)
  /\ \A a \in Seq(Event) : a # <<>> => /\ Tail(a) \in Seq(Event) /\ Head(a) \in Event
                                       /\ Said(a) = {Head(a)} \cup Said(Tail(a))
  /\ \A a \in Seq(Event) : Said(a) \subseteq Event
  /\ \A s, k : Says(s, k) <=> \E e \in Said(threads[s].ch) : e.k = k
<1>1. Said(<<>>) = {}
  BY DEF Said
<1>2. ASSUME NEW d \in Event, NEW e \in Event, NEW f \in Event
      PROVE  Said(<<d>>) = {d} /\ Said(<<d, e>>) = {d, e} /\ Said(<<d, e, f>>) = {d, e, f}
  <2>1. Said(<<d>>) = {d}
    BY DEF Said
  <2>2. Said(<<d, e>>) = {d, e}
    <3>1. 1..Len(<<d, e>>) = {1, 2}
      OBVIOUS
    <3> QED
      BY <3>1 DEF Said
  <2>3. Said(<<d, e, f>>) = {d, e, f}
    <3>1. 1..Len(<<d, e, f>>) = {1, 2, 3}
      OBVIOUS
    <3> QED
      BY <3>1 DEF Said
  <2> QED
    BY <2>1, <2>2, <2>3
<1>3. ASSUME NEW a \in Seq(Event), NEW b \in Seq(Event)
      PROVE  Said(a \o b) = Said(a) \cup Said(b)
  <2>1. Said(a \o b) \subseteq Said(a) \cup Said(b)
    <3>1. \A i \in 1..Len(a \o b) : (i \in 1..Len(a) /\ (a \o b)[i] = a[i])
                                    \/ (\E j \in 1..Len(b) : i = Len(a) + j /\ (a \o b)[i] = b[j])
      BY Appended
    <3> QED
      BY <3>1 DEF Said
  <2>2. Said(a) \cup Said(b) \subseteq Said(a \o b)
    <3>1. \A i \in 1..Len(a) : i \in 1..Len(a \o b) /\ (a \o b)[i] = a[i]
      BY Appended
    <3>2. \A j \in 1..Len(b) : Len(a) + j \in 1..Len(a \o b) /\ (a \o b)[Len(a) + j] = b[j]
      BY Appended
    <3> QED
      BY <3>1, <3>2 DEF Said
  <2> QED
    BY <2>1, <2>2
<1>4. ASSUME NEW a \in Seq(Event), a # <<>>
      PROVE  Tail(a) \in Seq(Event) /\ Head(a) \in Event /\ Said(a) = {Head(a)} \cup Said(Tail(a))
  <2>1. /\ Tail(a) \in Seq(Event) /\ 1 \in 1..Len(a) /\ Head(a) = a[1] /\ Head(a) \in Event
        /\ \A i \in 1..Len(Tail(a)) : i + 1 \in 1..Len(a) /\ Tail(a)[i] = a[i + 1]
        /\ \A i \in 1..Len(a) : i = 1 \/ (i - 1 \in 1..Len(Tail(a)) /\ Tail(a)[i - 1] = a[i])
    BY <1>4, Tailed
  <2>2. Said(a) \subseteq {Head(a)} \cup Said(Tail(a))
    BY <2>1 DEF Said
  <2>3. {Head(a)} \cup Said(Tail(a)) \subseteq Said(a)
    BY <2>1 DEF Said
  <2> QED
    BY <2>1, <2>2, <2>3
<1>5. \A a \in Seq(Event) : Said(a) \subseteq Event
  BY DEF Said
<1>6. \A s, k : Says(s, k) <=> \E e \in Said(threads[s].ch) : e.k = k
  BY DEF Says, Said
<1> QED
  BY <1>1, <1>2, <1>3, <1>4, <1>5, <1>6

(* What may happen to the file of a send.                                    *)
Saved(id)     == \E s \in Slots : prove_and_save(s, id) /\ sends[id] = NoFile
                                /\ sends'[id] = [p |-> threads[s].p, st |-> "pending"]
Published(id) == \E s \in Slots, how \in {"done", "stale"} :
                   publish(s, how) /\ threads[s].arg.id = id /\ sends'[id] = [sends[id] EXCEPT !.st = how]
Erased(id)    == sends'[id] = NoFile /\ (after_wipe \/ \E p \in Profiles, next \in Profiles \cup {NoOne} :
                                                         delete(p, next) /\ sends[id].p = p)

LEMMA Files ==
  ASSUME Typed, Tidy, Ids, Next, NEW id \in SendIds
  PROVE  sends'[id] = sends[id] \/ Saved(id) \/ Published(id) \/ Erased(id)
<1> DEFINE G == sends'[id] = sends[id] \/ Saved(id) \/ Published(id) \/ Erased(id)
<1>t. sends \in [SendIds -> SendFile]
  BY DEF Typed, DiskTyped
<1>1. ASSUME NEW s \in Slots, WorkerStep(s)
      PROVE  G
  <2>1. ASSUME NEW i \in SendIds, prove_and_save(s, i)
        PROVE  G
    BY <1>t, <2>1 DEF prove_and_save, Ids, Saved
  <2>2. ASSUME NEW how \in {"done", "stale", "failed"}, publish(s, how)
        PROVE  G
    <3>1. CASE how = "failed"
      BY <2>2, <3>1 DEF publish
    <3>2. CASE how # "failed"
      <4>1. sends' = [sends EXCEPT ![threads[s].arg.id].st = how] /\ how \in {"done", "stale"}
        BY <2>2, <3>2 DEF publish
      <4>2. CASE threads[s].arg.id = id
        BY <1>t, <2>2, <4>1, <4>2 DEF Published
      <4>3. CASE threads[s].arg.id # id
        BY <1>t, <4>1, <4>3
      <4> QED
        BY <4>2, <4>3
    <3> QED
      BY <3>1, <3>2
  <2>3. (\E ok \in BOOLEAN : one_shot(s, ok) \/ begin_send(s, ok)) \/ prove_fails(s) => sends' = sends
    BY DEF one_shot, begin_send, prove_fails, disk
  <2> QED
    BY <1>1, <2>1, <2>2, <2>3 DEF WorkerStep
<1>2. ASSUME NEW s \in Slots, User(s)
      PROVE  sends' = sends
  BY <1>2 DEF User, init, register, refresh, buy_tickets, refresh_inbox, resolve, start_send, flow_resume, banner_resume,
              resume_send, spawn_setup, start, disk
<1>3. CASE Poll
  BY <1>3 DEF Poll, poll_worker, poll_inbox_worker, poll_compose_worker, poll_send_worker, poll_setup, disk
<1>4. CASE lock_click \/ idle_lock \/ unlock \/ open_initial \/ not_now \/ kill \/ migrate_store \/ send_click
           \/ cancel_send \/ back_to_message \/ compose_another
  BY <1>4 DEF lock_click, idle_lock, lock_now, unlock, open_initial, not_now, kill, migrate_store, send_click,
              cancel_send, back_to_message, compose_another, disk
<1>5. CASE after_wipe
  BY <1>5 DEF after_wipe, Erased
<1>6. ASSUME NEW p \in Profiles, run_migration(p) \/ switch_profile(p) \/ open_request(p) \/ unarchive(p) \/ archive(p)
      PROVE  sends' = sends
  BY <1>6 DEF run_migration, switch_profile, open_request, unarchive, archive, disk
<1>7. ASSUME NEW p \in Profiles, NEW next \in Profiles \cup {NoOne}, delete(p, next)
      PROVE  G
  <2>1. sends' = [i \in SendIds |-> IF sends[i].p \in {p} THEN NoFile ELSE sends[i]]
    BY <1>7 DEF delete, without
  <2> QED
    BY <1>7, <2>1 DEF Erased
<1>8. ASSUME NEW h \in Handles, edit(h)
      PROVE  sends' = sends
  BY <1>8 DEF edit, disk
<1>9. ASSUME NEW i \in SendIds, dismiss(i)
      PROVE  sends' = sends
  BY <1>9 DEF dismiss, disk
<1> QED
  BY <1>1, <1>2, <1>3, <1>4, <1>5, <1>6, <1>7, <1>8, <1>9 DEF Next

(* A send of the profile shown stays its.                                    *)
LEMMA StillOurs ==
  ASSUME Typed, Own, Tidy, Framed, Ids, Next, open', NEW id \in SendIds, sends[id].p = session'.p
  PROVE  sends'[id].p = session'.p /\ (sends'[id] = sends[id] \/ Published(id))
<1>1. session' \in ProfileSession /\ session'.p \in Profiles /\ NoOne \notin Profiles
  BY TypedStays, AbsenceAssumption DEF Typed, WindowTyped, open, ProfileSession
<1>2. ~Saved(id)
  <2>1. Saved(id) => sends[id] = NoFile
    BY DEF Saved
  <2>2. NoFile.p = NoOne
    BY DEF NoFile
  <2> QED
    BY <1>1, <2>1, <2>2
<1>3. ~Erased(id)
  <2>1. ~after_wipe
    BY Moved DEF open
  <2>2. ASSUME NEW p \in Profiles, NEW next \in Profiles \cup {NoOne}, delete(p, next)
        PROVE  sends[id].p # p
    BY <2>2, Moved DEF MovedAway
  <2> QED
    BY <2>1, <2>2 DEF Erased
<1>4. Published(id) => sends'[id].p = sends[id].p
  BY DEF Published, Typed, DiskTyped, SendFile
<1> QED
  BY <1>2, <1>3, <1>4, Files

(* The last words of a send, and those on the way.                           *)
Failing  == <<Done(FALSE)>>
Stopping == <<Ev("Started", 1), Done(FALSE)>>
Proving  == <<Ev("Started", 1), Ev("StepCompleted", 1), Ev("Started", 2)>>
Already  == <<Ev("Completed", NoOne), Done(TRUE)>>
Landing  == <<Ev("StepCompleted", 3), Ev("Completed", NoOne), Done(TRUE)>>
Saving(id) == <<Ev("Checkpointed", id), Ev("StepCompleted", 2), Ev("Started", 3)>>

(* What a send worker does, and what it says as it does.                     *)
Ends(s, es) == sent(s, "ended", es)
SendStep(s) ==
  \/ UNCHANGED sends /\ threads[s].pc = "begin" /\ ~routes(threads[s].p) /\ Ends(s, Failing)
  \/ UNCHANGED sends /\ threads[s].pc = "begin" /\ threads[s].kind = "send" /\ Ends(s, Stopping)
  \/ UNCHANGED sends /\ threads[s].pc = "begin" /\ threads[s].kind = "send" /\ routes(threads[s].p) /\ sent(s, "prove", Proving)
  \/ UNCHANGED sends /\ threads[s].pc = "begin" /\ threads[s].kind = "resume" /\ threads[s].arg.done /\ Ends(s, Already)
  \/ /\ UNCHANGED sends /\ threads[s].pc = "begin" /\ threads[s].kind = "resume" /\ routes(threads[s].p)
     /\ ~threads[s].arg.done /\ sent(s, "publish", publish_started)
  \/ \E id \in SendIds : prove_and_save(s, id)
  \/ UNCHANGED sends /\ threads[s].pc = "prove" /\ Ends(s, Failing)
  \/ publish(s, "done") /\ Ends(s, Landing)
  \/ publish(s, "stale") /\ Ends(s, Failing)
  \/ UNCHANGED sends /\ threads[s].pc = "publish" /\ Ends(s, Failing)

LEMMA SendSteps ==
  ASSUME NEW s \in Slots, threads[s].kind \in Sending, WorkerStep(s)
  PROVE  SendStep(s) /\ UNCHANGED <<dirs, app, wizard, session>> /\ alive(s)
<1>1. ASSUME NEW ok \in BOOLEAN, one_shot(s, ok)
      PROVE  FALSE
  BY <1>1 DEF one_shot, runs, Sending
<1>2. ASSUME NEW ok \in BOOLEAN, begin_send(s, ok)
      PROVE  SendStep(s) /\ UNCHANGED <<dirs, app, wizard, session>> /\ alive(s)
  <2>1. threads[s].pc = "begin" /\ UNCHANGED <<disk, app, wizard, session>> /\ alive(s)
    BY <1>2 DEF begin_send, runs
  <2>2. CASE ~routes(threads[s].p)
    <3>1. Ends(s, Failing)
      BY <1>2, <2>2 DEF begin_send, Ends, Failing
    <3> QED
      BY <2>1, <2>2, <3>1 DEF SendStep, disk
  <2>3. CASE routes(threads[s].p) /\ threads[s].kind = "send"
    <3>1. sent(s, "prove", Proving) \/ Ends(s, Stopping)
      BY <1>2, <2>3 DEF begin_send, Ends, Proving, Stopping
    <3> QED
      BY <2>1, <2>3, <3>1 DEF SendStep, disk
  <2>4. CASE routes(threads[s].p) /\ threads[s].kind = "resume"
    <3>1. (threads[s].arg.done /\ Ends(s, Already)) \/ (~threads[s].arg.done /\ sent(s, "publish", publish_started))
      BY <1>2, <2>4 DEF begin_send, Ends, Already
    <3> QED
      BY <2>1, <2>4, <3>1 DEF SendStep, disk
  <2> QED
    BY <2>2, <2>3, <2>4 DEF Sending
<1>3. CASE prove_fails(s)
  BY <1>3 DEF prove_fails, SendStep, Ends, Failing, disk, alive
<1>4. ASSUME NEW id \in SendIds, prove_and_save(s, id)
      PROVE  SendStep(s) /\ UNCHANGED <<dirs, app, wizard, session>> /\ alive(s)
  BY <1>4 DEF SendStep, prove_and_save, alive
<1>5. ASSUME NEW how \in {"done", "stale", "failed"}, publish(s, how)
      PROVE  SendStep(s) /\ UNCHANGED <<dirs, app, wizard, session>> /\ alive(s)
  <2>1. threads[s].pc = "publish" /\ UNCHANGED <<dirs, app, wizard, session>> /\ alive(s)
    BY <1>5 DEF publish, alive
  <2>2. CASE how = "done"
    <3>1. Ends(s, Landing)
      BY <1>5, <2>2 DEF publish, Ends, Landing
    <3> QED
      BY <1>5, <2>1, <2>2, <3>1 DEF SendStep
  <2>3. CASE how # "done"
    <3>1. Ends(s, Failing)
      BY <1>5, <2>3 DEF publish, Ends, Failing
    <3>2. how = "failed" => UNCHANGED sends
      BY <1>5 DEF publish
    <3> QED
      BY <1>5, <2>1, <2>3, <3>1, <3>2 DEF SendStep
  <2> QED
    BY <2>2, <2>3
<1> QED
  BY <1>1, <1>2, <1>3, <1>4, <1>5 DEF WorkerStep

LEMMA Spoken ==
  ASSUME NEW d \in Event, NEW e \in Event, NEW f \in Event
  PROVE  /\ <<d>> \in Seq(Event) /\ <<d, e>> \in Seq(Event) /\ <<d, e, f>> \in Seq(Event)
         /\ Said(<<d>>) = {d} /\ Said(<<d, e>>) = {d, e} /\ Said(<<d, e, f>>) = {d, e, f}
BY Tuples, SaidBy

LEMMA SpokenThree ==
  ASSUME NEW d \in Event, NEW e \in Event, NEW f \in Event
  PROVE  <<d, e, f>> \in Seq(Event) /\ Said(<<d, e, f>>) = {d, e, f}
<1>1. <<d, e, f>> \in Seq(Event)
  BY Tuples
<1>2. Said(<<d, e, f>>) = {d, e, f}
  <2>1. 1..Len(<<d, e, f>>) = {1, 2, 3}
    OBVIOUS
  <2> QED
    BY <2>1 DEF Said
<1> QED
  BY <1>1, <1>2

LEMMA SendWords ==
  /\ Failing \in Seq(Event) /\ Said(Failing) = {Ev("Err", NoOne)}
  /\ Stopping \in Seq(Event) /\ Said(Stopping) = {Ev("Started", 1), Ev("Err", NoOne)}
  /\ Proving \in Seq(Event) /\ Said(Proving) = {Ev("Started", 1), Ev("StepCompleted", 1), Ev("Started", 2)}
  /\ Already \in Seq(Event) /\ Said(Already) = {Ev("Completed", NoOne), Ev("Ok", NoOne)}
  /\ Landing \in Seq(Event) /\ Said(Landing) = {Ev("StepCompleted", 3), Ev("Completed", NoOne), Ev("Ok", NoOne)}
  /\ publish_started \in Seq(Event) /\ Said(publish_started) = {Ev("Started", 3)}
  /\ \A id \in SendIds : /\ Saving(id) \in Seq(Event)
                         /\ Said(Saving(id)) = {Ev("Checkpointed", id), Ev("StepCompleted", 2), Ev("Started", 3)}
<1>d. Done(FALSE) = Ev("Err", NoOne) /\ Done(TRUE) = Ev("Ok", NoOne)
  BY DEF Done
<1>e. /\ Ev("Err", NoOne) \in Event /\ Ev("Ok", NoOne) \in Event /\ Ev("Completed", NoOne) \in Event
      /\ Ev("Started", 1) \in Event /\ Ev("Started", 2) \in Event /\ Ev("Started", 3) \in Event
      /\ Ev("StepCompleted", 1) \in Event /\ Ev("StepCompleted", 2) \in Event /\ Ev("StepCompleted", 3) \in Event
      /\ \A id \in SendIds : Ev("Checkpointed", id) \in Event
  BY Words DEF Events
<1>2. Failing \in Seq(Event) /\ Said(Failing) = {Ev("Err", NoOne)}
  BY <1>d, <1>e, Spoken DEF Failing
<1>3. Stopping \in Seq(Event) /\ Said(Stopping) = {Ev("Started", 1), Ev("Err", NoOne)}
  <2>1. PICK d \in Event, e \in Event, f \in Event : d = Ev("Started", 1) /\ e = Ev("Err", NoOne)
    BY <1>e
  <2>2. <<d, e>> \in Seq(Event) /\ Said(<<d, e>>) = {d, e}
    BY Spoken
  <2> QED
    BY <1>d, <2>1, <2>2 DEF Stopping
<1>4. Proving \in Seq(Event) /\ Said(Proving) = {Ev("Started", 1), Ev("StepCompleted", 1), Ev("Started", 2)}
  <2>1. PICK d \in Event, e \in Event, f \in Event : d = Ev("Started", 1) /\ e = Ev("StepCompleted", 1) /\ f = Ev("Started", 2)
    BY <1>e
  <2>2. <<d, e, f>> \in Seq(Event) /\ Said(<<d, e, f>>) = {d, e, f}
    BY SpokenThree, Zenon
  <2> QED
    BY <1>d, <2>1, <2>2 DEF Proving
<1>5. Already \in Seq(Event) /\ Said(Already) = {Ev("Completed", NoOne), Ev("Ok", NoOne)}
  <2>1. PICK d \in Event, e \in Event, f \in Event : d = Ev("Completed", NoOne) /\ e = Ev("Ok", NoOne)
    BY <1>e
  <2>2. <<d, e>> \in Seq(Event) /\ Said(<<d, e>>) = {d, e}
    BY Spoken
  <2> QED
    BY <1>d, <2>1, <2>2 DEF Already
<1>6. Landing \in Seq(Event) /\ Said(Landing) = {Ev("StepCompleted", 3), Ev("Completed", NoOne), Ev("Ok", NoOne)}
  <2>1. PICK d \in Event, e \in Event, f \in Event : d = Ev("StepCompleted", 3) /\ e = Ev("Completed", NoOne) /\ f = Ev("Ok", NoOne)
    BY <1>e
  <2>2. <<d, e, f>> \in Seq(Event) /\ Said(<<d, e, f>>) = {d, e, f}
    BY SpokenThree, Zenon
  <2> QED
    BY <1>d, <2>1, <2>2 DEF Landing
<1>7. publish_started \in Seq(Event) /\ Said(publish_started) = {Ev("Started", 3)}
  BY <1>d, <1>e, Spoken DEF publish_started
<1>8. ASSUME NEW id \in SendIds
      PROVE  /\ Saving(id) \in Seq(Event)
             /\ Said(Saving(id)) = {Ev("Checkpointed", id), Ev("StepCompleted", 2), Ev("Started", 3)}
  <2>1. Ev("Checkpointed", id) \in Event
    BY <1>e
  <2> QED
    <3>1. PICK d \in Event, e \in Event, f \in Event : d = Ev("Checkpointed", id) /\ e = Ev("StepCompleted", 2) /\ f = Ev("Started", 3)
      BY <1>e, <2>1
    <3>2. <<d, e, f>> \in Seq(Event) /\ Said(<<d, e, f>>) = {d, e, f}
      BY SpokenThree, Zenon
    <3> QED
      BY <1>d, <3>1, <3>2 DEF Saving
<1> QED
  BY <1>2, <1>3, <1>4, <1>5, <1>6, <1>7, <1>8

(* What the session hears from its worker, once it took a step.              *)
LEMMA SendSays ==
  ASSUME Typed, Tidy, NEW s \in Slots, threads[s].kind \in Sending, held(s),
         NEW pc \in {"prove", "publish", "ended"}, NEW es \in Seq(Event), sent(s, pc, es)
  PROVE  /\ threads'[s].kind = threads[s].kind /\ threads'[s].p = threads[s].p /\ threads'[s].arg = threads[s].arg
         /\ threads'[s].pc = pc /\ Said(threads'[s].ch) = Said(threads[s].ch) \cup Said(es)
<1>1. threads[s] \in Thread /\ threads[s].ch \in Seq(Event)
  BY DEF Typed, ThreadsTyped, Thread
<1>2. threads'[s] = [threads[s] EXCEPT !.pc = pc, !.ch = @ \o es]
  BY SentDoes DEF Typed
<1>3. threads'[s].ch = threads[s].ch \o es
  BY <1>1, <1>2 DEF Thread
<1> QED
  BY <1>1, <1>2, <1>3, SaidBy DEF Thread

LEMMA SaveSays ==
  ASSUME Typed, Tidy, NEW s \in Slots, NEW id \in SendIds, prove_and_save(s, id), held(s)
  PROVE  /\ threads'[s].kind = threads[s].kind /\ threads'[s].p = threads[s].p
         /\ threads'[s].arg.id = id /\ threads'[s].arg.done = threads[s].arg.done
         /\ threads'[s].pc = "publish" /\ Said(threads'[s].ch) = Said(threads[s].ch) \cup Said(Saving(id))
<1>1. threads[s].ch \in Seq(Event) /\ threads[s].arg \in Resuming
  BY DEF Typed, ThreadsTyped, Thread, Tidy, prove_and_save, Sending
<1>2. /\ threads'[s].kind = threads[s].kind /\ threads'[s].p = threads[s].p /\ threads'[s].pc = "publish"
      /\ threads'[s].arg.id = id /\ threads'[s].arg.done = threads[s].arg.done
      /\ threads'[s].ch = threads[s].ch \o Saving(id)
  BY <1>1, SavedDoes DEF Typed, Saving
<1> QED
  BY <1>1, <1>2, SaidBy, SendWords

(* Every other worker.                                                       *)
LEMMA Bystander ==
  ASSUME Typed, Tidy, NEW s \in Slots, WorkerStep(s), NEW r \in Slots, r # s
  PROVE  threads'[r] = threads[r]
<1>1. ASSUME NEW id \in SendIds, prove_and_save(s, id)
      PROVE  threads'[r] = threads[r]
  BY <1>1 DEF prove_and_save, Typed, ThreadsTyped
<1>2. ASSUME NEW pc \in {"prove", "publish", "ended"}, NEW es \in Seq(Event), sent(s, pc, es)
      PROVE  threads'[r] = threads[r]
  BY <1>2, SentDoes DEF Typed
<1> QED
  BY <1>1, <1>2, WorkerSteps

(* What a step means to the send a session listens to, before and after.     *)
LEMMA Listening ==
  ASSUME Typed, Own, Tidy, Framed, Ids, Next, open, open', session.send_rx # NoRx, session'.send_rx = session.send_rx
  PROVE  LET r == session.send_rx IN
         /\ r \in Slots /\ held(r) /\ held(r)' /\ threads[r].kind \in Sending /\ threads[r].p = session.p
         /\ \/ threads'[r] = threads[r]
            \/ Popped(r)
            \/ WorkerStep(r)
<1> DEFINE r == session.send_rx
<1>1. r \in Slots /\ held(r) /\ held(r)' /\ threads[r].kind \in Sending /\ threads[r].p = session.p
  <2>1. r \in Slots
    BY Shown DEF ProfileSession, Rx
  <2> QED
    BY <2>1, Receivers DEF Own, receiver
<1>2. CASE Window
  <2>1. ~kill
    BY DEF kill, open
  <2>2. WindowStep(r)
    BY <1>1, <1>2, <2>1, WindowSteps
  <2>3. threads[r] # Free
    BY <1>1, HeldLives, Frees
  <2> QED
    BY <1>1, <2>2, <2>3 DEF WindowStep, Same, Gone, Deaf, Begun, Born
<1>3. ASSUME NEW s \in Slots, WorkerStep(s)
      PROVE  threads'[r] = threads[r] \/ WorkerStep(r)
  BY <1>1, <1>3, Bystander
<1> QED
  BY <1>1, <1>2, <1>3 DEF Window

LEMMA PopSays ==
  ASSUME Typed, NEW r \in Slots, Popped(r)
  PROVE  /\ threads'[r].kind = threads[r].kind /\ threads'[r].p = threads[r].p /\ threads'[r].arg = threads[r].arg
         /\ threads'[r].pc = threads[r].pc /\ Head(threads[r].ch) \in Event
         /\ Said(threads[r].ch) = {Head(threads[r].ch)} \cup Said(threads'[r].ch)
<1>1. threads[r] \in Thread /\ threads[r].ch \in Seq(Event)
  BY DEF Typed, ThreadsTyped, Thread
<1>2. threads'[r].ch = Tail(threads[r].ch) /\ threads[r].ch # <<>>
  BY <1>1 DEF Popped, Thread
<1> QED
  BY <1>1, <1>2, SaidBy DEF Popped, Thread

(* What the window reads from a send.                                        *)
LEMMA SendPolls ==
  ASSUME Typed, Own, Tidy, Framed, Ids, poll_send_worker
  PROVE  LET r == session.send_rx
             e == Head(threads[r].ch) IN
         /\ open /\ open' /\ UNCHANGED <<disk, app, wizard>> /\ r \in Slots /\ r # NoRx
         /\ e \in Event /\ e \in Said(threads[r].ch)
         /\ session'.p = session.p /\ session'.dismissed = session.dismissed
         /\ session'.flow = IF session.flow = NoOne THEN NoOne ELSE apply(session.flow, e)
         /\ \/ /\ e.k \in {"Ok", "Err"} /\ session'.send_rx = NoRx /\ session'.send_id = session.send_id
               /\ session'.pending = incomplete(session.p) /\ threads'[r] = Free
            \/ /\ e.k \notin {"Ok", "Err"} /\ session'.send_rx = r /\ session'.pending = session.pending /\ Popped(r)
               /\ session'.send_id = IF e.k = "Checkpointed" THEN e.i ELSE session.send_id
<1> DEFINE r == session.send_rx
           e == Head(threads[r].ch)
<1>1. open /\ UNCHANGED <<disk, app, wizard>> /\ r # NoRx /\ threads[r].ch # <<>>
  BY DEF poll_send_worker, shown, work_in_flight, open
<1>2. r \in Slots /\ session \in ProfileSession /\ threads \in [Slots -> Thread] /\ threads[r].ch \in Seq(Event)
  <2>1. r \in Slots /\ session \in ProfileSession
    BY <1>1, Shown DEF ProfileSession, Rx
  <2> QED
    BY <2>1 DEF Typed, ThreadsTyped, Thread
<1>3. e \in Event /\ e \in Said(threads[r].ch)
  BY <1>1, <1>2, SaidBy
<1>4. open'
  BY PollsEdit
<1>f. DOMAIN session = {"p", "stage", "store", "of", "rx", "inbox_rx", "resolve_rx", "send_rx", "handle",
                        "resolved", "confirm", "flow", "send_id", "pending", "dismissed"}
  BY <1>2, Edited
<1>5. PICK f : f = IF session.flow = NoOne THEN NoOne ELSE apply(session.flow, e)
  OBVIOUS
<1>6. PICK ss : ss = [session EXCEPT !.flow = f]
  OBVIOUS
<1>7. ss = [session EXCEPT !.flow = IF @ = NoOne THEN @ ELSE apply(@, e)]
  BY <1>f, <1>5, <1>6
<1>8. PICK s2 : s2 = [ss EXCEPT !.send_rx = NoRx]
  OBVIOUS
<1>9. /\ DOMAIN ss = DOMAIN session /\ ss.p = session.p /\ ss.dismissed = session.dismissed /\ ss.flow = f
      /\ ss.send_rx = r /\ ss.pending = session.pending /\ ss.send_id = session.send_id
  BY <1>f, <1>6
<1>10. /\ DOMAIN s2 = DOMAIN session /\ s2.p = session.p /\ s2.dismissed = session.dismissed /\ s2.flow = f
       /\ s2.send_rx = NoRx /\ s2.send_id = session.send_id
  BY <1>f, <1>8, <1>9
<1>11. CASE e.k \in {"Ok", "Err"}
  <2>1. session' = [s2 EXCEPT !.pending = incomplete(s2.p)] /\ threads' = [threads EXCEPT ![r] = Free]
    BY <1>7, <1>8, <1>11 DEF poll_send_worker, refresh_pending
  <2>2. /\ session'.p = session.p /\ session'.dismissed = session.dismissed /\ session'.flow = f
        /\ session'.send_rx = NoRx /\ session'.send_id = session.send_id /\ session'.pending = incomplete(session.p)
    BY <1>f, <1>10, <2>1
  <2>3. threads'[r] = Free
    BY <1>2, <2>1
  <2> QED
    BY <1>1, <1>2, <1>3, <1>4, <1>5, <1>11, <2>2, <2>3
<1>12. CASE e.k \notin {"Ok", "Err"}
  <2>1. /\ session' = IF e.k = "Checkpointed" THEN [ss EXCEPT !.send_id = e.i] ELSE ss
        /\ threads' = [threads EXCEPT ![r].ch = Tail(@)]
    BY <1>7, <1>12 DEF poll_send_worker
  <2>2. /\ session'.p = session.p /\ session'.dismissed = session.dismissed /\ session'.flow = f
        /\ session'.send_rx = r /\ session'.pending = session.pending
        /\ session'.send_id = IF e.k = "Checkpointed" THEN e.i ELSE session.send_id
    BY <1>f, <1>9, <2>1
  <2>3. Popped(r)
    BY <1>1, <1>2, <1>4, <1>12, <2>1, <2>2 DEF Popped
  <2> QED
    BY <1>1, <1>2, <1>3, <1>4, <1>5, <1>12, <2>2, <2>3
<1> QED
  BY <1>11, <1>12

LEMMA IdsStays ==
  ASSUME Typed, Own, Tidy, Framed, Ids, Next
  PROVE  Ids'
<1>n. NoOne \notin SendIds /\ \A s \in Slots : s # NoRx
  <2>1. \A s \in Slots : s # NoRx
    BY GuiAssumption DEF Slots, NoRx
  <2> QED
    BY <2>1, AbsenceAssumption
<1>1. ASSUME NEW id \in SendIds, sends'[id].st = "none"
      PROVE  sends'[id] = NoFile
  <2>1. Saved(id) => sends'[id].st = "pending"
    BY DEF Saved
  <2>2. ~Published(id)
    BY <1>1 DEF Published, Typed, DiskTyped, SendFile
  <2> QED
    BY <1>1, <2>1, <2>2, Files DEF Ids, Erased
<1>2. CASE ~open'
  BY <1>1, <1>2 DEF Ids
<1>o. ASSUME open', NEW id \in SendIds, sends[id].p = session'.p
      PROVE  sends'[id].p = session'.p
  BY <1>o, StillOurs
<1>3. ASSUME NEW p \in Profiles, session' = NewSession(p), open'
      PROVE  Ids'
  <2>1. session'.send_id = NoOne /\ session'.pending = incomplete(p) /\ session'.p = p /\ session'.send_rx = NoRx
    BY <1>3 DEF NewSession
  <2>2. \A id \in incomplete(p) : id \in SendIds /\ sends[id].p = p
    BY DEF incomplete
  <2> QED
    BY <1>1, <1>3, <1>o, <2>1, <2>2 DEF Ids, Ours
<1>4. CASE open /\ open' /\ KeptIn(session, session') /\ \A p \in Profiles : session' # NewSession(p)
  <2>1. /\ session \in ProfileSession /\ session' \in ProfileSession /\ session'.p = session.p
        /\ session'.pending \subseteq SendIds /\ session.pending \subseteq SendIds
        /\ session'.send_id \in SendIds \cup {NoOne} /\ session.send_id \in SendIds \cup {NoOne}
    BY <1>4, Shown DEF KeptIn, ProfileSession
  <2>o. \A id \in SendIds \cup {NoOne} : Ours(id) => (id # NoOne => sends'[id].p = session'.p)
    BY <1>4, <1>o, <2>1 DEF Ours
  <2>i. Ours(session.send_id) /\ \A id \in session.pending : Ours(id)
    BY <1>4 DEF Ids
  <2> DEFINE Fine(r) == /\ threads'[r].arg.id # NoOne => sends'[threads'[r].arg.id].p = session'.p
                        /\ \A e \in Said(threads'[r].ch) :
                              e.k = "Checkpointed" => e.i \in SendIds /\ sends'[e.i].p = session'.p
  <2>g. Fine(session'.send_rx) /\ (session'.send_id # NoOne => sends'[session'.send_id].p = session'.p)
          /\ (\A id \in session'.pending : sends'[id].p = session'.p) => Ids'
    BY <1>1, <1>n, <2>1 DEF Ids, Ours, receiver
  <2>r. ASSUME session.send_rx # NoRx, session'.send_rx = session.send_rx
        PROVE  Fine(session.send_rx)
    <3> DEFINE r == session.send_rx
    <3>1. /\ r \in Slots /\ held(r) /\ threads[r].kind \in Sending /\ threads[r].p = session.p
          /\ threads'[r] = threads[r] \/ Popped(r) \/ WorkerStep(r)
      BY <1>4, <2>r, Listening
    <3>2. /\ threads[r].arg.id \in SendIds \cup {NoOne} /\ Ours(threads[r].arg.id)
          /\ \A e \in Said(threads[r].ch) : e.k = "Checkpointed" => e.i \in SendIds /\ Ours(e.i)
      <4>1. threads[r].arg \in Resuming
        BY <3>1 DEF Tidy
      <4> QED
        BY <1>4, <2>r, <4>1 DEF Ids, receiver, Resuming
    <3>3. /\ threads[r].arg.id # NoOne => sends'[threads[r].arg.id].p = session'.p
          /\ \A e \in Said(threads[r].ch) : e.k = "Checkpointed" => e.i \in SendIds /\ sends'[e.i].p = session'.p
      BY <1>n, <2>o, <3>2
    <3>4. CASE threads'[r] = threads[r]
      BY <3>3, <3>4
    <3>5. CASE Popped(r)
      <4>1. threads'[r].arg = threads[r].arg /\ Said(threads'[r].ch) \subseteq Said(threads[r].ch)
        BY <3>1, <3>5, PopSays
      <4> QED
        BY <3>3, <4>1
    <3>6. ASSUME NEW id \in SendIds, prove_and_save(r, id)
          PROVE  Fine(r)
      <4>1. threads'[r].arg.id = id /\ Said(threads'[r].ch) = Said(threads[r].ch) \cup Said(Saving(id))
        BY <3>1, <3>6, SaveSays
      <4>2. \A e \in Said(Saving(id)) : e.k = "Checkpointed" => e.i = id
        BY SendWords DEF Ev
      <4>3. sends'[id].p = session'.p
        BY <2>1, <3>1, <3>6 DEF prove_and_save, Typed, DiskTyped
      <4> QED
        BY <3>3, <4>1, <4>2, <4>3
    <3>7. ASSUME NEW pc \in {"prove", "publish", "ended"}, NEW es \in Seq(Event), sent(r, pc, es),
                 \A e \in Said(es) : e.k # "Checkpointed"
          PROVE  Fine(r)
      <4>1. threads'[r].arg = threads[r].arg /\ Said(threads'[r].ch) = Said(threads[r].ch) \cup Said(es)
        BY <3>1, <3>7, SendSays
      <4> QED
        BY <3>3, <3>7, <4>1
    <3>8. CASE WorkerStep(r)
      <4>1. SendStep(r)
        BY <3>1, <3>8, SendSteps
      <4>2. \A es \in {Failing, Stopping, Proving, Already, Landing, publish_started} :
              es \in Seq(Event) /\ \A e \in Said(es) : e.k # "Checkpointed"
        BY SendWords DEF Ev
      <4> QED
        BY <3>6, <3>7, <4>1, <4>2 DEF SendStep, Ends
    <3> QED
      BY <3>1, <3>4, <3>5, <3>8
  <2> HIDE DEF Fine
  <2>x. ASSUME session'.send_rx = NoRx, session'.send_id # NoOne => sends'[session'.send_id].p = session'.p,
               \A id \in session'.pending : sends'[id].p = session'.p
        PROVE  Ids'
    BY <1>1, <2>1, <2>x DEF Ids, Ours
  <2>s. /\ session.send_id # NoOne => sends'[session.send_id].p = session'.p
        /\ \A id \in session.pending : sends'[id].p = session'.p
    BY <1>n, <2>1, <2>i, <2>o
  <2>y. CASE session.send_rx = NoRx /\ session'.send_rx = NoRx /\ session'.send_id \in {session.send_id, NoOne}
             /\ session'.pending \subseteq session.pending
    BY <2>x, <2>s, <2>y
  <2>2. CASE Sent(session') = Sent(session)
    <3>1. session'.send_rx = session.send_rx /\ session'.send_id = session.send_id /\ session'.pending = session.pending
      BY <2>2 DEF Sent
    <3>2. CASE session.send_rx = NoRx
      BY <2>y, <3>1, <3>2
    <3>3. CASE session.send_rx # NoRx
      BY <2>g, <2>r, <2>s, <3>1, <3>3
    <3> QED
      BY <3>2, <3>3
  <2>f. DOMAIN session = {"p", "stage", "store", "of", "rx", "inbox_rx", "resolve_rx", "send_rx", "handle",
                          "resolved", "confirm", "flow", "send_id", "pending", "dismissed"}
    BY <2>1, Edited
  <2>e. Said(<<>>) = {}
    BY SaidBy
  <2>3. ASSUME NEW s \in Slots, start_send(s)
        PROVE  Ids'
    <3>1. CASE session' = [session EXCEPT !.confirm = FALSE]
      <4>1. Sent(session') = Sent(session)
        BY <2>f, <3>1 DEF Sent
      <4> QED
        BY <2>2, <4>1
    <3>2. CASE Born(s, "send", session.p, [id |-> NoOne, done |-> FALSE])
               /\ session' = [session EXCEPT !.confirm = FALSE, !.flow = virtual_plan, !.send_id = NoOne, !.send_rx = s]
      <4>1. session'.send_rx = s /\ session'.send_id = NoOne /\ session'.pending = session.pending
        BY <2>f, <3>2
      <4>2. threads'[s].arg.id = NoOne /\ threads'[s].ch = <<>>
        BY <3>2, BornAs
      <4>3. Fine(s)
        BY <2>e, <4>2 DEF Fine
      <4> QED
        BY <2>g, <2>s, <4>1, <4>3
    <3> QED
      BY <2>3, <3>1, <3>2, SendStarts
  <2>4. ASSUME NEW s \in Slots, NEW id, (flow_resume(s) /\ id = session.send_id) \/ banner_resume(s, id)
        PROVE  Ids'
    <3>1. id \in SendIds /\ sends[id].p = session.p /\ session.send_rx = NoRx
      BY <2>4, SendResumes
    <3>2. CASE Resumes(s, id) /\ session'.pending \in {session.pending, session.pending \ {id}}
      <4>1. session'.send_rx = s /\ session'.send_id = id /\ \A i \in session'.pending : sends'[i].p = session'.p
        BY <2>s, <3>2 DEF Resumes
      <4>2. sends'[id].p = session'.p
        BY <1>4, <1>o, <2>1, <3>1
      <4>3. threads'[s].arg.id = id /\ threads'[s].ch = <<>>
        BY <3>2, BornAs DEF Resumes
      <4>4. Fine(s)
        BY <2>e, <4>2, <4>3 DEF Fine
      <4> QED
        BY <2>g, <4>1, <4>2, <4>4
    <3>3. CASE session'.send_rx = NoRx /\ session'.send_id = session.send_id /\ session'.pending = session.pending \ {id}
      BY <2>y, <3>1, <3>3
    <3> QED
      BY <2>4, <3>2, <3>3, SendResumes
  <2>5. CASE (\E id \in SendIds : dismiss(id)) \/ back_to_message \/ compose_another
    <3>1. CASE compose_another
      <4>1. session' = [session EXCEPT !.handle = NoOne, !.resolved = NoOne, !.resolve_rx = NoRx, !.confirm = FALSE,
                                       !.flow = NoOne, !.send_rx = NoRx, !.send_id = NoOne]
        BY <3>1 DEF compose_another
      <4>2. session'.send_rx = NoRx /\ session'.send_id = NoOne /\ session'.pending = session.pending
        BY <2>f, <4>1
      <4> QED
        BY <2>x, <2>s, <4>2
    <3>2. ASSUME (\E id \in SendIds : dismiss(id)) \/ back_to_message
          PROVE  /\ session'.send_rx = session.send_rx /\ session'.send_id \in {session.send_id, NoOne}
                 /\ session'.pending \subseteq session.pending
      <4>1. \/ session' = [session EXCEPT !.flow = NoOne, !.send_id = NoOne]
            \/ \E id : session' = [session EXCEPT !.pending = @ \ {id}, !.dismissed = @ \cup {id}]
        BY <3>2 DEF dismiss, back_to_message
      <4> QED
        BY <2>f, <4>1
    <3>3. CASE (\E id \in SendIds : dismiss(id)) \/ back_to_message
      <4>1. CASE session.send_rx = NoRx
        BY <2>y, <3>2, <3>3, <4>1
      <4>2. CASE session.send_rx # NoRx
        BY <2>g, <2>r, <2>s, <3>2, <3>3, <4>2
      <4> QED
        BY <4>1, <4>2
    <3> QED
      BY <2>5, <3>1, <3>3
  <2>6. CASE poll_send_worker
    <3> DEFINE r == session.send_rx
               e == Head(threads[r].ch)
    <3>1. /\ r \in Slots /\ r # NoRx /\ e \in Said(threads[r].ch) /\ UNCHANGED <<disk, app, wizard>>
          /\ \/ /\ session'.send_rx = NoRx /\ session'.send_id = session.send_id /\ session'.pending = incomplete(session.p)
             \/ /\ session'.send_rx = r /\ session'.pending = session.pending
                /\ session'.send_id = IF e.k = "Checkpointed" THEN e.i ELSE session.send_id
      BY <2>6, SendPolls
    <3>2. CASE session'.send_rx = NoRx /\ session'.send_id = session.send_id /\ session'.pending = incomplete(session.p)
      <4>1. \A id \in incomplete(session.p) : id \in SendIds /\ sends[id].p = session.p
        BY DEF incomplete
      <4> QED
        BY <1>4, <1>o, <2>1, <2>x, <2>s, <3>2, <4>1
    <3>3. CASE session'.send_rx = r /\ session'.pending = session.pending
               /\ session'.send_id = IF e.k = "Checkpointed" THEN e.i ELSE session.send_id
      <4>1. e.k = "Checkpointed" => e.i \in SendIds /\ Ours(e.i)
        BY <1>4, <3>1 DEF Ids, receiver
      <4>2. e.k = "Checkpointed" => sends'[e.i].p = session'.p
        BY <1>n, <2>o, <4>1
      <4> QED
        BY <2>g, <2>r, <2>s, <3>1, <3>3, <4>2
    <3> QED
      BY <3>1, <3>2, <3>3
  <2> QED
    BY <1>4, <2>2, <2>3, <2>4, <2>5, <2>6, Frames DEF SendAction
<1>5. CASE session' = session /\ open' /\ \A p \in Profiles : session' # NewSession(p)
  BY <1>4, <1>5, Shown DEF KeptIn, open
<1> QED
  BY <1>2, <1>3, <1>4, <1>5, SessionSteps DEF SessionStep, open

-----------------------------------------------------------------------------
(* A setup and a spending worker exclude each other.                         *)

LEMMA News ==
  ASSUME NEW p
  PROVE  /\ NewSession(p).p = p /\ NewSession(p).rx = NoRx /\ NewSession(p).inbox_rx = NoRx
         /\ NewSession(p).resolve_rx = NoRx /\ NewSession(p).send_rx = NoRx /\ NewSession(p).flow = NoOne
         /\ NewSession(p).send_id = NoOne /\ NewSession(p).pending = incomplete(p) /\ NewSession(p).confirm = FALSE
         /\ NewSession(p).stage = dirs[p].stage /\ NewSession(p).store = dirs[p].store
         /\ NewSession(p).dismissed = {}
BY DEF NewSession

LEMMA RxKept ==
  ASSUME Typed, Own, Tidy, Ids, Next, open, open', session.rx # NoRx, session'.rx = session.rx
  PROVE  threads'[session.rx].kind = threads[session.rx].kind /\ session.rx \in Slots
<1>1. session.rx \in Slots
  BY Shown DEF ProfileSession, Rx
<1>2. held(session.rx) /\ held(session.rx)'
  BY Receivers
<1> QED
  BY <1>1, <1>2, Kept DEF SameWorker

LEMMA AloneStays ==
  ASSUME Typed, Own, Tidy, Framed, Ids, Alone, Next
  PROVE  Alone'
<1> SUFFICES ASSUME open', wizard' # NoRx
             PROVE  /\ session'.send_rx = NoRx
                    /\ session'.rx # NoRx => threads'[session'.rx].kind \in {"status", "init"}
  BY DEF Alone
<1>1. CASE wizard' # wizard
  <2>1. PICK s \in Slots, p \in Profiles : spawn_setup(s, p)
    BY <1>1, Wizards
  <2>2. session' = session /\ ~work_in_flight /\ ~worker_busy /\ open
    BY <2>1 DEF spawn_setup, session_busy, shown, open
  <2> QED
    BY <2>2 DEF work_in_flight, worker_busy, open
<1>2. CASE \E p \in Profiles : session' = NewSession(p)
  <2>1. PICK p \in Profiles : session' = NewSession(p)
    BY <1>2
  <2> QED
    BY <2>1, News
<1>3. CASE wizard' = wizard /\ ~ \E p \in Profiles : session' = NewSession(p)
  <2>1. open /\ \A p \in Profiles : session' # NewSession(p)
    BY <1>3, SessionSteps DEF SessionStep, open
  <2>2. session.send_rx = NoRx /\ (session.rx # NoRx => threads[session.rx].kind \in {"status", "init"})
    BY <1>3, <2>1 DEF Alone
  <2>3. session'.send_rx = NoRx
    <3>1. CASE Sent(session') = Sent(session)
      BY <2>2, <3>1 DEF Sent
    <3>2. CASE SendAction
      BY <1>3, <2>1, <2>2, <3>2, SendRx
    <3> QED
      BY <2>1, <3>1, <3>2, Frames
  <2>4. ASSUME session'.rx = session.rx, session.rx # NoRx
        PROVE  threads'[session'.rx].kind \in {"status", "init"}
    BY <2>1, <2>2, <2>4, RxKept
  <2>5. session'.rx # NoRx => threads'[session'.rx].kind \in {"status", "init"}
    <3>1. CASE Talk(session') = Talk(session)
      BY <2>4, <3>1 DEF Talk
    <3>2. CASE TalkAction
      BY <1>3, <2>1, <2>4, <3>2, TalkOwned DEF Owned
    <3> QED
      BY <2>1, <3>1, <3>2, Frames
  <2> QED
    BY <2>3, <2>5
<1> QED
  BY <1>1, <1>2, <1>3

-----------------------------------------------------------------------------
(* What a wipe left running has nothing left to work on. *)

(* The busy flags are what a receiver says.                                  *)
LEMMA NotBusy ==
  ASSUME Framed, open, CloseAction \/ OpenAction, ~after_wipe, ~kill
  PROVE  (poll_setup /\ wizard # NoRx) \/ (session.send_rx = NoRx /\ (wizard = NoRx \/ OpenAction))
<1>1. lock_click \/ idle_lock => session.send_rx = NoRx /\ wizard = NoRx
  BY DEF lock_click, idle_lock, may_leave, app_busy, work_in_flight, locked, open
<1>2. (\E p \in Profiles : MovedAway(p)) => session.send_rx = NoRx /\ wizard = NoRx
  BY DEF MovedAway, archive, delete, dialog_busy, app_busy, work_in_flight, locked, open
<1>3. (\E p \in Profiles : switch_profile(p)) => session.send_rx = NoRx
  BY DEF switch_profile, picker, may_leave, app_busy, work_in_flight, open
<1>4. ~open_initial /\ ~ \E p \in Profiles : run_migration(p) \/ open_request(p)
  BY DEF open_initial, run_migration, open_request, Framed, framed, open
<1>5. poll_setup => wizard # NoRx
  BY DEF poll_setup, locked
<1> QED
  BY <1>1, <1>2, <1>3, <1>4, <1>5 DEF CloseAction, OpenAction

(* The window lets go of no worker that pays, unless it wipes.               *)
Paying(s) == threads[s].kind = "setup" \/ may_publish(s)

LEMMA PayersHeld ==
  ASSUME Typed, Own, NEW s \in Slots, held(s), alive(s), Paying(s)
  PROVE  s = wizard \/ (open /\ s = session.send_rx)
<1>1. threads[s].kind \in {"setup", "send", "resume"}
  BY DEF Paying, may_publish, runs
<1>2. s # NoRx
  BY GuiAssumption DEF Slots, NoRx
<1> QED
  BY <1>1, <1>2, Receivers DEF Own, OnRx

LEMMA WizardStays ==
  ASSUME Typed, Own, Tidy, Framed, Alone, Next, ~after_wipe, ~kill,
         NEW s \in Slots, s = wizard, Deaf(s), alive(s), ~held(s)'
  PROVE  FALSE
<1>1. wizard # NoRx /\ wizard' # wizard
  BY Receivers, GuiAssumption DEF Slots, NoRx
<1>2. ~ \E r \in Slots, p \in Profiles : spawn_setup(r, p)
  BY <1>1 DEF spawn_setup, locked
<1>3. CASE CloseAction
  <2>1. lock_click \/ idle_lock => wizard = NoRx
    BY DEF lock_click, idle_lock, may_leave, app_busy, locked
  <2>2. (\E p \in Profiles : MovedAway(p)) => wizard = NoRx
    BY DEF MovedAway, archive, delete, dialog_busy, app_busy, locked
  <2> QED
    BY <1>1, <1>3, <2>1, <2>2 DEF CloseAction
<1>4. CASE poll_setup
  <2>1. threads[s].ch # <<>>
    BY <1>4 DEF poll_setup
  <2>2. Head(threads[s].ch).k # "Ok"
    BY <1>1, <2>1, Messages DEF Tidy, alive
  <2>3. threads'[s] = Free
    BY <1>1, <1>4, <2>2 DEF poll_setup, Typed, ThreadsTyped
  <2>4. threads'[s].kind = "setup"
    BY <1>1 DEF Deaf, Own, Typed, ThreadsTyped, Thread
  <2> QED
    BY <2>3, <2>4, Frees
<1> QED
  BY <1>1, <1>2, <1>3, <1>4, Wizards

LEMMA SenderStays ==
  ASSUME Typed, Own, Tidy, Framed, Ids, Alone, Flows, Next, ~after_wipe, ~kill, open,
         NEW r \in Slots, r = session.send_rx, Deaf(r), may_publish(r), ~held(r)'
  PROVE  FALSE
<1>1. session.send_rx # NoRx /\ session \in ProfileSession
  BY Shown, GuiAssumption DEF Slots, NoRx
<1>f. DOMAIN session = {"p", "stage", "store", "of", "rx", "inbox_rx", "resolve_rx", "send_rx", "handle",
                        "resolved", "confirm", "flow", "send_id", "pending", "dismissed"}
  BY <1>1, Edited
<1>2. ~CloseAction /\ ~OpenAction
  BY <1>1, NotBusy DEF Alone
<1>3. open' /\ session' # session
  BY <1>2, SessionSteps, Receivers DEF SessionStep, open
<1>4. session'.send_rx # r
  BY <1>3, Receivers
<1>5. SendAction /\ session'.send_rx = NoRx
  <2>1. Sent(session') # Sent(session)
    BY <1>4 DEF Sent
  <2>2. SendAction
    BY <1>2, <1>3, <2>1, Frames
  <2> QED
    BY <1>1, <1>4, <2>2, SendRx
<1>6. threads'[r].kind \in Sending
  BY <1>1 DEF Deaf, Own, receiver, Typed, ThreadsTyped, Thread
<1>7. ASSUME NEW s \in Slots, start_send(s)
      PROVE  FALSE
  <2>1. session' = [session EXCEPT !.confirm = FALSE]
    BY <1>1, <1>7, SendStarts
  <2> QED
    BY <1>f, <1>4, <2>1
<1>8. ASSUME NEW s \in Slots, flow_resume(s) \/ \E id \in SendIds : banner_resume(s, id)
      PROVE  FALSE
  BY <1>1, <1>8, SendResumes
<1>9. CASE back_to_message
  <2>1. session' = [session EXCEPT !.flow = NoOne, !.send_id = NoOne]
    BY <1>9 DEF back_to_message
  <2> QED
    BY <1>f, <1>4, <2>1
<1>10. ASSUME NEW id \in SendIds, dismiss(id)
       PROVE  FALSE
  BY <1>1, <1>10 DEF dismiss, work_in_flight, open
<1>11. CASE compose_another
  BY <1>1, <1>11 DEF compose_another, Flows
<1>12. CASE poll_send_worker
  <2>1. threads'[r] = Free
    BY <1>4, <1>12, SendPolls
  <2> QED
    BY <1>6, <2>1, Frees DEF Sending
<1> QED
  BY <1>5, <1>7, <1>8, <1>9, <1>10, <1>11, <1>12 DEF SendAction

(* A wipe leaves no profile, and no profile comes back but by a setup.       *)
LEMMA DeadStays ==
  ASSUME Typed, Tidy, Dead, Next
  PROVE  Dead' \/ \E s \in Slots : one_shot(s, TRUE) /\ threads[s].kind = "setup"
<1> DEFINE G == Dead' \/ \E s \in Slots : one_shot(s, TRUE) /\ threads[s].kind = "setup"
<1>n. ~shown /\ session = NoOne /\ wizard = NoRx /\ \A p \in Profiles : dirs[p].place \notin {"live", "archived"}
  BY DEF Dead, shown, open
<1>d. NoOne \notin Profiles
  BY AbsenceAssumption
<1>1. ASSUME UNCHANGED <<dirs, app, wizard, session>>
      PROVE  G
  BY <1>1 DEF Dead, open
<1>2. ASSUME NEW s \in Slots, WorkerStep(s)
      PROVE  G
  <2>1. CASE \E ok \in BOOLEAN : one_shot(s, ok)
    <3>1. PICK ok \in BOOLEAN : one_shot(s, ok)
      BY <2>1
    <3>2. CASE ok /\ threads[s].kind = "setup"
      BY <3>1, <3>2
    <3>3. CASE ok /\ threads[s].kind # "setup"
      <4>1. threads[s].p \in Profiles
        BY <3>1, Frees DEF one_shot, runs, alive, Tidy
      <4>2. may_succeed(threads[s].kind, dirs[threads[s].p])
        BY <3>1, <3>3 DEF one_shot
      <4>3. dirs[threads[s].p].place = "live"
        BY <3>3, <4>2 DEF may_succeed
      <4> QED
        BY <1>n, <4>1, <4>3
    <3>4. CASE ~ok
      BY <1>1, <3>1, <3>4 DEF one_shot
    <3> QED
      BY <3>2, <3>3, <3>4
  <2>2. CASE ~ \E ok \in BOOLEAN : one_shot(s, ok)
    BY <1>1, <1>2, <2>2 DEF WorkerStep, begin_send, prove_fails, prove_and_save, publish, disk
  <2> QED
    BY <2>1, <2>2
<1>3. ASSUME NEW s \in Slots, User(s)
      PROVE  FALSE
  BY <1>3, <1>n DEF User, init, register, refresh, buy_tickets, refresh_inbox, resolve, start_send, flow_resume, banner_resume,
                    spawn_setup, start, form_shown
<1>4. ~Poll
  BY <1>n DEF Poll, poll_worker, poll_inbox_worker, poll_compose_worker, poll_send_worker, poll_setup
<1>5. ~(migrate_store \/ send_click \/ cancel_send \/ back_to_message \/ compose_another \/ open_initial \/ not_now)
  BY <1>n DEF migrate_store, send_click, cancel_send, back_to_message, compose_another, form_shown, open_initial, not_now, Dead
<1>6. CASE lock_click \/ idle_lock
  BY <1>6, <1>n DEF lock_click, idle_lock, lock_now, close_session, Dead, open, disk, Typed, WindowTyped, App
<1>7. CASE unlock
  BY <1>7, <1>n DEF unlock, Dead, open, disk, Typed, WindowTyped, App
<1>8. CASE after_wipe
  <2>1. \A p \in Profiles : dirs'[p].place \notin {"live", "archived"}
    BY <1>8 DEF after_wipe, Typed, DiskTyped, Dir
  <2> QED
    BY <1>8, <2>1 DEF after_wipe, close_session, Dead, open, Typed, WindowTyped, App
<1>9. CASE kill
  BY <1>9, <1>n DEF kill, Dead, open, disk, Typed, WindowTyped, App
<1>10. ASSUME NEW p \in Profiles, run_migration(p) \/ switch_profile(p) \/ open_request(p) \/ unarchive(p) \/ archive(p)
       PROVE  FALSE
  BY <1>10, <1>n DEF run_migration, switch_profile, open_request, unarchive, archive, picker
<1>11. ASSUME NEW p \in Profiles, NEW next \in Profiles \cup {NoOne}, delete(p, next)
       PROVE  FALSE
  BY <1>11, <1>n DEF delete
<1>12. ASSUME NEW h \in Handles, edit(h)
       PROVE  FALSE
  BY <1>12, <1>n DEF edit, form_shown
<1>13. ASSUME NEW id \in SendIds, dismiss(id)
       PROVE  FALSE
  BY <1>13, <1>n DEF dismiss
<1> QED
  BY <1>2, <1>3, <1>4, <1>5, <1>6, <1>7, <1>8, <1>9, <1>10, <1>11, <1>12, <1>13 DEF Next

(* A worker that goes on unheard goes on, or is gone.                        *)
LEMMA Unheard ==
  ASSUME Typed, Tidy, NEW s \in Slots, WorkerStep(s), ~held(s)
  PROVE  /\ \A r \in Slots : held(r)' <=> held(r)
         /\ alive(s) /\ ~held(s)'
         /\ threads'[s] = Free \/ (threads'[s].kind = threads[s].kind /\ (may_publish(s)' => may_publish(s)))
<1>1. /\ UNCHANGED <<app, wizard, session>> /\ alive(s)
      /\ \/ \E pc \in {"prove", "publish", "ended"}, es \in Seq(Event) : sent(s, pc, es)
         \/ \E id \in SendIds : prove_and_save(s, id)
  BY WorkerSteps
<1>2. \A r : held(r)' <=> held(r)
  BY <1>1 DEF held, receivers
<1>3. ASSUME NEW pc \in {"prove", "publish", "ended"}, NEW es \in Seq(Event), sent(s, pc, es)
      PROVE  threads'[s] = Free \/ (threads'[s].kind = threads[s].kind /\ threads'[s].arg = threads[s].arg)
  <2>1. threads'[s] = Free \/ threads'[s] = [threads[s] EXCEPT !.pc = pc]
    BY <1>3, SentDoes DEF Typed
  <2> QED
    BY <2>1 DEF Typed, ThreadsTyped, Thread
<1>4. ASSUME NEW id \in SendIds, prove_and_save(s, id)
      PROVE  threads'[s].kind = threads[s].kind /\ threads'[s].arg.done = threads[s].arg.done
  <2>1. threads[s].arg \in Resuming
    BY <1>4 DEF prove_and_save, Tidy, Sending
  <2> QED
    BY <1>4, <2>1, SavedDoes DEF Typed
<1> QED
  BY <1>1, <1>2, <1>3, <1>4 DEF may_publish, runs

LEMMA OrphansStay ==
  ASSUME Typed, Own, Tidy, Framed, Ids, Alone, Flows, Orphans, Next
  PROVE  Orphans'
<1> SUFFICES ASSUME NEW s \in Slots, Orphan(s)'
             PROVE  Dead' /\ \A r \in Slots : Orphan(r)' => r = s
  BY DEF Orphans
<1>a. \A r \in Slots : Orphan(r) <=> alive(r) /\ ~held(r) /\ Paying(r)
  BY DEF Orphan, Paying
<1>b. \A r \in Slots : Orphan(r)' <=> alive(r)' /\ ~held(r)' /\ Paying(r)'
  BY DEF Orphan, Paying
<1>c. \A r \in Slots : threads'[r] = Free => ~alive(r)'
  BY Frees DEF alive
<1>k. CASE kill
  BY <1>b, <1>c, <1>k DEF kill
<1>w. CASE \E w \in Slots : WorkerStep(w)
  <2>1. PICK w \in Slots : WorkerStep(w)
    BY <1>w
  <2>2. UNCHANGED <<app, wizard, session>> /\ \A r \in Slots : held(r)' <=> held(r)
    BY <2>1, WorkerSteps DEF held, receivers
  <2>3. ASSUME NEW r \in Slots, Orphan(r)'
        PROVE  Orphan(r)
    <3>1. CASE r # w
      <4>1. threads'[r] = threads[r]
        BY <2>1, <3>1, Bystander
      <4> QED
        BY <1>a, <1>b, <2>2, <2>3, <4>1 DEF alive, Paying, may_publish, runs
    <3>2. CASE r = w
      <4>1. ~held(w) /\ threads'[w] # Free
        BY <1>b, <1>c, <2>2, <2>3, <3>2
      <4>2. alive(w) /\ threads'[w].kind = threads[w].kind /\ (may_publish(w)' => may_publish(w))
        BY <2>1, <4>1, Unheard
      <4> QED
        BY <1>a, <1>b, <2>3, <3>2, <4>1, <4>2 DEF Paying
    <3> QED
      BY <3>1, <3>2
  <2>4. Dead /\ \A r \in Slots : Orphan(r) => r = s
    BY <2>3 DEF Orphans
  <2>5. ASSUME NEW v \in Slots, one_shot(v, TRUE), threads[v].kind = "setup"
        PROVE  FALSE
    <3>1. Orphan(v)
      <4>1. ~held(v)
        BY <2>4, GuiAssumption, Receivers DEF Dead, Slots, NoRx
      <4> QED
        BY <1>a, <2>5, <4>1 DEF one_shot, runs, Paying
    <3>2. v = s
      BY <2>4, <3>1
    <3>3. threads'[s] = Free
      BY <1>a, <2>5, <3>1, <3>2 DEF one_shot, sent, Typed, ThreadsTyped
    <3> QED
      BY <1>b, <1>c, <3>3
  <2>6. Dead'
    BY <2>4, <2>5, DeadStays
  <2> QED
    BY <2>3, <2>4, <2>6
<1>o. CASE Window /\ ~kill
  <2>1. \A r \in Slots : WindowStep(r)
    BY <1>o, WindowSteps
  <2>2. ASSUME NEW r \in Slots, Orphan(r)'
        PROVE  Orphan(r) \/ (held(r) /\ alive(r) /\ Paying(r) /\ Deaf(r))
    <3>1. ~held(r)' /\ threads'[r] # Free
      BY <1>b, <1>c, <2>2
    <3>2. CASE Same(r)
      BY <1>a, <1>b, <2>2, <3>2 DEF Same, alive, Paying, may_publish, runs
    <3>3. CASE held(r) /\ Deaf(r)
      <4>1. threads'[r].kind = threads[r].kind /\ threads'[r].arg = threads[r].arg /\ threads'[r].pc = threads[r].pc
        BY <3>3 DEF Deaf, Typed, ThreadsTyped, Thread
      <4> QED
        BY <1>b, <2>2, <3>3, <4>1 DEF alive, Paying, may_publish, runs
    <3>4. ~Popped(r)
      BY <3>1, Receivers DEF Popped
    <3> QED
      BY <2>1, <3>1, <3>2, <3>3, <3>4 DEF WindowStep, Gone, Begun
  <2>3. ASSUME NEW r \in Slots, held(r), alive(r), Paying(r), Deaf(r)
        PROVE  after_wipe
    <3>0. ~held(r)'
      BY <2>3 DEF Deaf
    <3>1. CASE r = wizard
      BY <1>o, <2>3, <3>0, <3>1, WizardStays DEF Window
    <3>2. CASE r # wizard
      <4>1. open /\ r = session.send_rx
        BY <2>3, <3>2, PayersHeld
      <4>2. may_publish(r)
        BY <4>1, <2>3 DEF Paying, Own, receiver, Sending, NoRx, Slots
      <4> QED
        BY <1>o, <2>3, <3>0, <4>1, <4>2, SenderStays DEF Window
    <3> QED
      BY <3>1, <3>2
  <2>4. CASE Orphan(s)
    <3>1. Dead /\ \A r \in Slots : Orphan(r) => r = s
      BY <2>4 DEF Orphans
    <3>2. \A r \in Slots : ~held(r)
      BY <3>1, GuiAssumption, Receivers DEF Dead, Slots, NoRx
    <3>3. Dead'
      <4>1. ~ \E v \in Slots : one_shot(v, TRUE)
        BY <1>o DEF Window, WorkerStep
      <4> QED
        BY <3>1, <4>1, DeadStays
    <3> QED
      BY <2>2, <3>1, <3>2, <3>3
  <2>5. CASE ~Orphan(s)
    <3>1. after_wipe /\ held(s) /\ alive(s) /\ Paying(s)
      BY <2>2, <2>3, <2>5
    <3>2. Dead'
      <4>1. \A p \in Profiles : dirs'[p].place \notin {"live", "archived"}
        BY <3>1 DEF after_wipe, Typed, DiskTyped, Dir
      <4> QED
        BY <3>1, <4>1 DEF after_wipe, close_session, Dead, open, Typed, WindowTyped, App
    <3>3. ASSUME NEW r \in Slots, Orphan(r)'
          PROVE  r = s
      <4>1. ~Orphan(r)
        BY <3>1, GuiAssumption, Receivers DEF Orphans, Dead, Slots, NoRx
      <4>2. held(r) /\ alive(r) /\ Paying(r)
        BY <2>2, <3>3, <4>1
      <4>3. ~(open /\ wizard # NoRx /\ session.send_rx # NoRx)
        BY DEF Alone
      <4>4. r # NoRx /\ s # NoRx
        BY GuiAssumption DEF Slots, NoRx
      <4>5. (s = wizard \/ (open /\ s = session.send_rx)) /\ (r = wizard \/ (open /\ r = session.send_rx))
        BY <3>1, <4>2, PayersHeld
      <4> QED
        BY <4>3, <4>4, <4>5
    <3> QED
      BY <3>2, <3>3
  <2> QED
    BY <2>4, <2>5
<1> QED
  BY <1>k, <1>w, <1>o DEF Window

-----------------------------------------------------------------------------
(* What a profile goes through. *)

SameDir(p) == dirs'[p].stage = dirs[p].stage /\ dirs'[p].store = dirs[p].store
Advances(p) ==
  \/ dirs'[p].stage = "registered" /\ dirs'[p].store \in {"v4", dirs[p].store}
  \/ dirs[p].stage = "empty" /\ dirs'[p].stage = "keys" /\ dirs'[p].store = dirs[p].store

LEMMA DirKept ==
  ASSUME Typed, OpenAction \/ CloseAction \/ (\E p \in Profiles : unarchive(p)), NEW q \in Profiles
  PROVE  SameDir(q)
<1>1. dirs[q] \in Dir /\ DOMAIN dirs = Profiles
  BY DEF Typed, DiskTyped
<1>2. ASSUME NEW p \in Profiles, NEW x, dirs' = [dirs EXCEPT ![p].place = x]
      PROVE  SameDir(q)
  BY <1>1, <1>2 DEF SameDir, Typed, DiskTyped, Dir
<1>3. dirs' = dirs => SameDir(q)
  BY DEF SameDir
<1>4. CASE after_wipe
  BY <1>1, <1>4 DEF after_wipe, SameDir, Dir
<1>5. CASE lock_click \/ idle_lock \/ kill \/ open_initial \/ poll_setup
  BY <1>3, <1>5 DEF lock_click, idle_lock, lock_now, kill, open_initial, poll_setup, disk
<1>6. ASSUME NEW p \in Profiles, MovedAway(p) \/ unarchive(p)
      PROVE  SameDir(q)
  BY <1>2, <1>6 DEF MovedAway, archive, delete, unarchive
<1>7. ASSUME NEW p \in Profiles, run_migration(p) \/ switch_profile(p) \/ open_request(p)
      PROVE  SameDir(q)
  BY <1>3, <1>7 DEF run_migration, switch_profile, open_request, disk
<1> QED
  BY <1>4, <1>5, <1>6, <1>7 DEF OpenAction, CloseAction

LEMMA DirSteps ==
  ASSUME Typed, Tidy, Next, NEW p \in Profiles
  PROVE  SameDir(p) \/ Advances(p) \/ (migrate_store /\ open /\ p = session.p /\ session.store = "old" /\ dirs'[p].store = "v4")
<1> DEFINE G == SameDir(p) \/ Advances(p) \/ (migrate_store /\ open /\ p = session.p /\ session.store = "old" /\ dirs'[p].store = "v4")
<1>1. dirs \in [Profiles -> Dir]
  BY DEF Typed, DiskTyped
<1>2. dirs' = dirs => G
  BY DEF SameDir
<1>3. ASSUME NEW s \in Slots, WorkerStep(s)
      PROVE  G
  <2>1. CASE \E ok \in BOOLEAN : one_shot(s, ok)
    <3>1. PICK ok \in BOOLEAN : one_shot(s, ok)
      BY <2>1
    <3>2. CASE ok /\ threads[s].p = p
      <4>1. dirs'[p] = result(threads[s].kind, dirs[p]) /\ may_succeed(threads[s].kind, dirs[p])
        BY <1>1, <3>1, <3>2 DEF one_shot
      <4>2. CASE threads[s].kind = "init"
        BY <1>1, <4>1, <4>2 DEF result, may_succeed, Advances, Dir
      <4>3. CASE threads[s].kind = "register"
        BY <1>1, <4>1, <4>3 DEF result, Advances, Dir
      <4>4. CASE threads[s].kind = "setup"
        BY <1>1, <4>1, <4>4 DEF result, Advances
      <4>5. CASE threads[s].kind \notin {"init", "register", "setup"}
        BY <4>1, <4>5 DEF result, SameDir
      <4> QED
        BY <4>2, <4>3, <4>4, <4>5
    <3>3. CASE ~(ok /\ threads[s].p = p)
      BY <1>1, <1>2, <3>1, <3>3 DEF one_shot, SameDir
    <3> QED
      BY <3>2, <3>3
  <2>2. CASE ~ \E ok \in BOOLEAN : one_shot(s, ok)
    BY <1>2, <1>3, <2>2 DEF WorkerStep, begin_send, prove_fails, prove_and_save, publish, disk
  <2> QED
    BY <2>1, <2>2
<1>4. ASSUME NEW s \in Slots, User(s)
      PROVE  G
  BY <1>2, <1>4 DEF User, init, register, refresh, buy_tickets, refresh_inbox, resolve, start_send, flow_resume, banner_resume,
                    resume_send, spawn_setup, start, disk
<1>5. CASE Poll
  BY <1>2, <1>5 DEF Poll, poll_worker, poll_inbox_worker, poll_compose_worker, poll_send_worker, poll_setup, disk
<1>6. CASE unlock \/ not_now \/ send_click \/ cancel_send \/ back_to_message \/ compose_another
  BY <1>2, <1>6 DEF unlock, not_now, send_click, cancel_send, back_to_message, compose_another, disk
<1>7. CASE OpenAction \/ CloseAction \/ \E q \in Profiles : unarchive(q)
  BY <1>7, DirKept
<1>8. CASE migrate_store
  <2>1. open /\ session.p \in Profiles /\ session.store = "old"
    BY <1>8, Shown DEF migrate_store, shown, open, ProfileSession
  <2>2. dirs' = [dirs EXCEPT ![session.p].stage = "keys", ![session.p].store = "v4"]
    BY <1>8 DEF migrate_store
  <2>3. CASE p = session.p
    BY <1>1, <1>8, <2>1, <2>2, <2>3 DEF Dir
  <2>4. CASE p # session.p
    BY <1>1, <2>1, <2>2, <2>4 DEF SameDir
  <2> QED
    BY <2>3, <2>4
<1>9. ASSUME NEW h \in Handles, edit(h)
      PROVE  G
  BY <1>2, <1>9 DEF edit, disk
<1>10. ASSUME NEW id \in SendIds, dismiss(id)
       PROVE  G
  BY <1>2, <1>10 DEF dismiss, disk
<1>12. ASSUME NEW q \in Profiles, run_migration(q) \/ switch_profile(q) \/ open_request(q) \/ unarchive(q) \/ MovedAway(q)
       PROVE  G
  BY <1>7, <1>12 DEF OpenAction
<1>13. CASE lock_click \/ idle_lock \/ open_initial \/ after_wipe \/ kill
  BY <1>7, <1>13 DEF OpenAction, CloseAction
<1> QED
  BY <1>3, <1>4, <1>5, <1>6, <1>8, <1>9, <1>10, <1>12, <1>13 DEF Next, MovedAway

-----------------------------------------------------------------------------
(* What the window does to the send it shows. *)

Offers == session'.pending = session.pending /\ session'.dismissed = session.dismissed
Fires(s) ==
  /\ session.send_rx = NoRx /\ session.stage = "registered" /\ session.confirm
  /\ Born(s, "send", session.p, [id |-> NoOne, done |-> FALSE])
  /\ session'.flow = virtual_plan /\ session'.send_id = NoOne /\ session'.send_rx = s /\ Offers
Retries(s, id) ==
  /\ session.send_rx = NoRx /\ sends[id].p = session.p /\ Resumes(s, id)
  /\ session'.pending \in {session.pending, session.pending \ {id}} /\ session'.dismissed = session.dismissed
GivesUp(id) ==
  /\ sends[id].p = session.p /\ ~(sends[id].st \in {"pending", "done"} /\ dirs[session.p].place = "live")
  /\ session'.flow = session.flow /\ session'.send_id = session.send_id
  /\ session.send_rx = NoRx /\ session'.send_rx = NoRx
  /\ session'.pending = session.pending \ {id} /\ session'.dismissed = session.dismissed
Dismisses ==
  /\ session'.flow = session.flow /\ session'.send_id = session.send_id
  /\ session.send_rx = NoRx /\ session'.send_rx = NoRx
  /\ session'.pending \cup session'.dismissed = session.pending \cup session.dismissed
EditsAgain ==
  /\ failed(session.flow) /\ ~resumable
  /\ session'.flow = NoOne /\ session'.send_id = NoOne /\ session'.send_rx = session.send_rx /\ Offers
WritesAnother ==
  /\ session.flow # NoOne /\ session.flow.published
  /\ session'.flow = NoOne /\ session'.send_id = NoOne /\ session'.send_rx = NoRx /\ Offers
SendEffect ==
  \/ \E s \in Slots : Fires(s)
  \/ Sent(session') = Sent(session)
  \/ \E s \in Slots, id \in SendIds : Retries(s, id)
  \/ \E id \in SendIds : GivesUp(id)
  \/ Dismisses \/ EditsAgain \/ WritesAnother
  \/ poll_send_worker

LEMMA SendEffects ==
  ASSUME Typed, Ids, open, SendAction
  PROVE  SendEffect /\ UNCHANGED <<disk, app, wizard>>
<1>d. session \in ProfileSession
  BY Shown
<1>f. DOMAIN session = {"p", "stage", "store", "of", "rx", "inbox_rx", "resolve_rx", "send_rx", "handle",
                        "resolved", "confirm", "flow", "send_id", "pending", "dismissed"}
  BY <1>d, Edited
<1>1. ASSUME NEW s \in Slots, start_send(s)
      PROVE  SendEffect /\ UNCHANGED <<disk, app, wizard>>
  <2>1. CASE session' = [session EXCEPT !.confirm = FALSE]
    <3>1. Sent(session') = Sent(session)
      BY <1>f, <2>1 DEF Sent
    <3> QED
      BY <1>1, <3>1 DEF start_send, SendEffect
  <2>2. CASE /\ session.send_rx = NoRx /\ session.stage = "registered"
             /\ Born(s, "send", session.p, [id |-> NoOne, done |-> FALSE])
             /\ session' = [session EXCEPT !.confirm = FALSE, !.flow = virtual_plan, !.send_id = NoOne, !.send_rx = s]
    <3>1. session'.flow = virtual_plan /\ session'.send_id = NoOne /\ session'.send_rx = s /\ Offers
      BY <1>f, <2>2 DEF Offers
    <3>2. session.confirm /\ UNCHANGED <<disk, app, wizard>>
      BY <1>1 DEF start_send
    <3>3. Fires(s)
      BY <2>2, <3>1, <3>2 DEF Fires
    <3> QED
      BY <3>2, <3>3 DEF SendEffect
  <2> QED
    BY <1>1, <2>1, <2>2, SendStarts
<1>2. ASSUME NEW s \in Slots, NEW id, (flow_resume(s) /\ id = session.send_id) \/ banner_resume(s, id)
      PROVE  SendEffect /\ UNCHANGED <<disk, app, wizard>>
  <2>1. /\ session.send_rx = NoRx /\ UNCHANGED <<disk, app, wizard>> /\ id \in SendIds /\ sends[id].p = session.p
        /\ session'.dismissed = session.dismissed
        /\ \/ Resumes(s, id) /\ session'.pending \in {session.pending, session.pending \ {id}}
           \/ /\ session'.flow = session.flow /\ session'.send_id = session.send_id
              /\ session'.send_rx = NoRx /\ session'.pending = session.pending \ {id}
              /\ ~(sends[id].st \in {"pending", "done"} /\ dirs[session.p].place = "live")
    BY <1>2, SendResumes
  <2>2. Retries(s, id) \/ GivesUp(id)
    BY <2>1 DEF Retries, GivesUp
  <2> QED
    BY <2>1, <2>2 DEF SendEffect
<1>3. ASSUME NEW id \in SendIds, dismiss(id)
      PROVE  SendEffect /\ UNCHANGED <<disk, app, wizard>>
  <2>1. session' = [session EXCEPT !.pending = @ \ {id}, !.dismissed = @ \cup {id}] /\ id \in session.pending
    BY <1>3 DEF dismiss
  <2>2. session.send_rx = NoRx
    BY <1>3 DEF dismiss, work_in_flight, open
  <2>3. Dismisses
    BY <1>f, <2>1, <2>2 DEF Dismisses
  <2> QED
    BY <1>3, <2>3 DEF dismiss, SendEffect
<1>4. CASE back_to_message
  <2>1. session' = [session EXCEPT !.flow = NoOne, !.send_id = NoOne] /\ failed(session.flow) /\ ~resumable
    BY <1>4 DEF back_to_message
  <2>2. EditsAgain
    BY <1>f, <2>1 DEF EditsAgain, Offers
  <2> QED
    BY <1>4, <2>2 DEF back_to_message, SendEffect
<1>5. CASE compose_another
  <2>1. /\ session' = [session EXCEPT !.handle = NoOne, !.resolved = NoOne, !.resolve_rx = NoRx, !.confirm = FALSE,
                                      !.flow = NoOne, !.send_rx = NoRx, !.send_id = NoOne]
        /\ session.flow # NoOne /\ session.flow.published
    BY <1>5 DEF compose_another
  <2>2. WritesAnother
    BY <1>f, <2>1 DEF WritesAnother, Offers
  <2> QED
    BY <1>5, <2>2 DEF compose_another, SendEffect
<1>6. CASE poll_send_worker
  BY <1>6 DEF poll_send_worker, SendEffect
<1> QED
  BY <1>1, <1>2, <1>3, <1>4, <1>5, <1>6 DEF SendAction

(* The send a session listens to began with this step, or it is the one it    *)
(* listened to before.                                                       *)
LEMMA SendBorn ==
  ASSUME Typed, Own, Tidy, Framed, Ids, Next, NEW r \in Slots, threads[r] = Free, threads'[r].kind \in Sending, held(r)'
  PROVE  /\ open /\ wizard = NoRx /\ UNCHANGED <<disk, app, wizard>> /\ r = session'.send_rx
         /\ Fires(r) \/ \E id \in SendIds : Retries(r, id)
<1>1. r # NoRx
  BY GuiAssumption DEF Slots, NoRx
<1>2. Typed' /\ Own'
  BY TypedStays, OwnStays
<1>3. open' /\ r = session'.send_rx
  <2>1. \/ open' /\ r \in {session'.rx, session'.inbox_rx, session'.resolve_rx, session'.send_rx}
        \/ r = wizard'
    BY Receivers
  <2> QED
    BY <1>1, <1>2, <2>1 DEF Own, OnRx, Sending
<1>4. ~(open /\ session.send_rx = r)
  BY <1>1, Frees DEF Own, receiver, Sending
<1>5. ASSUME NEW p \in Profiles, session' = NewSession(p)
      PROVE  FALSE
  BY <1>1, <1>3, <1>5, News
<1>6. open /\ session' # session
  BY <1>3, <1>4, <1>5, SessionSteps DEF SessionStep, open
<1>7. SendAction
  <2>1. Sent(session') # Sent(session)
    BY <1>3, <1>4, <1>6 DEF Sent
  <2> QED
    BY <1>3, <1>5, <1>6, <2>1, Frames
<1>8. SendEffect /\ UNCHANGED <<disk, app, wizard>>
  BY <1>6, <1>7, SendEffects
<1>9. wizard = NoRx
  BY <1>1, <1>3, <1>4, <1>6, <1>7, SendRx
<1>10. ~poll_send_worker
  BY <1>1, <1>3, <1>4, <1>6, SendPolls
<1>11. Fires(r) \/ \E id \in SendIds : Retries(r, id)
  BY <1>1, <1>3, <1>4, <1>6, <1>8, <1>10
     DEF SendEffect, Fires, Retries, Resumes, GivesUp, Dismisses, EditsAgain, WritesAnother, Sent
<1> QED
  BY <1>3, <1>6, <1>8, <1>9, <1>11

-----------------------------------------------------------------------------
(* A profile that is not registered, or not on the v4 store, sends nothing.  *)

(* Whoever may publish while a profile is there is listened to.              *)
LEMMA SendersHeld ==
  ASSUME Typed, Own, Orphans, NEW s \in Slots, may_publish(s), NEW p \in Profiles, dirs[p].place = "live"
  PROVE  open /\ s = session.send_rx /\ s # NoRx
<1>1. ~Orphan(s)
  BY DEF Orphans, Dead
<1>2. alive(s) /\ Paying(s) /\ threads[s].kind \in Sending
  BY DEF may_publish, runs, Paying, Sending
<1>3. held(s)
  BY <1>1, <1>2 DEF Orphan, Paying
<1>4. s # NoRx
  BY GuiAssumption DEF Slots, NoRx
<1>5. s # wizard
  BY <1>2, <1>4 DEF Own, Sending
<1> QED
  BY <1>2, <1>3, <1>4, <1>5, PayersHeld

LEMMA Publisher ==
  ASSUME Typed, Own, Tidy, Ids, Orphans, NEW s \in Slots, NEW how \in {"done", "stale"}, publish(s, how)
  PROVE  /\ open /\ s = session.send_rx /\ threads[s].p = session.p
         /\ threads[s].arg.id \in SendIds /\ sends[threads[s].arg.id].p = session.p
<1>1. /\ threads[s].pc = "publish" /\ dirs[threads[s].p].place = "live" /\ threads[s].kind \in Sending
      /\ threads[s].p \in Profiles /\ ~threads[s].arg.done /\ threads[s].arg.id \in SendIds
  BY DEF publish, Tidy, Sending
<1>2. may_publish(s)
  BY <1>1 DEF may_publish, runs, alive, Sending
<1>3. open /\ s = session.send_rx /\ s # NoRx
  BY <1>1, <1>2, SendersHeld
<1>4. threads[s].arg.id # NoOne
  BY <1>1, AbsenceAssumption
<1> QED
  BY <1>1, <1>3, <1>4 DEF Own, Ids, Ours, receiver

LEMMA Saver ==
  ASSUME Typed, Own, Tidy, Orphans, NEW s \in Slots, NEW id \in SendIds, prove_and_save(s, id)
  PROVE  open /\ s = session.send_rx /\ threads[s].p = session.p /\ threads[s].kind = "send" /\ threads[s].pc = "prove"
<1>1. /\ threads[s].pc = "prove" /\ dirs[threads[s].p].place = "live" /\ threads[s].kind = "send" /\ threads[s].p \in Profiles
  BY DEF prove_and_save, Tidy
<1>2. may_publish(s)
  BY <1>1 DEF may_publish, runs, alive
<1>3. open /\ s = session.send_rx /\ s # NoRx
  BY <1>1, <1>2, SendersHeld
<1> QED
  BY <1>1, <1>3 DEF Own, receiver

(* What a thread turns into, but for the words it says.                      *)
LEMMA ThreadSteps ==
  ASSUME Typed, Own, Tidy, Framed, Ids, Next, NEW r \in Slots, threads'[r].kind \in Sending
  PROVE  \/ /\ threads'[r].kind = threads[r].kind /\ threads'[r].p = threads[r].p
            /\ threads'[r].arg.done = threads[r].arg.done
            /\ threads'[r].pc = threads[r].pc \/ WorkerStep(r)
         \/ threads[r] = Free /\ held(r)'
<1>0. threads'[r] # Free /\ ~kill
  BY Frees DEF kill, Sending
<1>1. CASE Window
  <2>1. WindowStep(r)
    BY <1>0, <1>1, WindowSteps
  <2>2. CASE Same(r)
    BY <2>2 DEF Same
  <2>3. CASE Deaf(r)
    BY <2>3 DEF Deaf, Typed, ThreadsTyped, Thread
  <2>4. CASE Begun(r)
    BY <2>4 DEF Begun, Born
  <2>5. CASE Popped(r)
    BY <2>5, PopSays
  <2> QED
    BY <1>0, <2>1, <2>2, <2>3, <2>4, <2>5 DEF WindowStep, Gone
<1>2. ASSUME NEW w \in Slots, WorkerStep(w)
      PROVE  /\ threads'[r].kind = threads[r].kind /\ threads'[r].p = threads[r].p
             /\ threads'[r].arg.done = threads[r].arg.done
             /\ threads'[r].pc = threads[r].pc \/ WorkerStep(r)
  <2>1. CASE r # w
    BY <1>2, <2>1, Bystander
  <2>2. CASE r = w
    <3>1. ASSUME NEW pc \in {"prove", "publish", "ended"}, NEW es \in Seq(Event), sent(r, pc, es)
          PROVE  threads'[r].kind = threads[r].kind /\ threads'[r].p = threads[r].p /\ threads'[r].arg = threads[r].arg
      <4>1. threads'[r] = [threads[r] EXCEPT !.pc = pc, !.ch = @ \o es] \/ threads'[r] = [threads[r] EXCEPT !.pc = pc]
        BY <1>0, <3>1, SentDoes DEF Typed
      <4> QED
        BY <4>1 DEF Typed, ThreadsTyped, Thread
    <3>2. ASSUME NEW id \in SendIds, prove_and_save(r, id)
          PROVE  /\ threads'[r].kind = threads[r].kind /\ threads'[r].p = threads[r].p
                 /\ threads'[r].arg.done = threads[r].arg.done
      <4>1. threads[r].arg \in Resuming
        BY <3>2 DEF prove_and_save, Tidy, Sending
      <4> QED
        BY <3>2, <4>1, SavedDoes DEF Typed
    <3> QED
      BY <1>2, <2>2, <3>1, <3>2, WorkerSteps
  <2> QED
    BY <2>1, <2>2
<1> QED
  BY <1>1, <1>2 DEF Window

LEMMA NoSendsStays ==
  ASSUME Typed, Own, Tidy, Framed, Ids, Next, NEW p \in Profiles, NoSends(p), open /\ session.p = p => session.stage # "registered"
  PROVE  NoSends(p)'
<1>1. ASSUME NEW id \in SendIds, sends'[id].p = p
      PROVE  FALSE
  <2>1. sends[id].p # p
    BY DEF NoSends
  <2>2. CASE Saved(id)
    <3>1. PICK s \in Slots : prove_and_save(s, id) /\ sends'[id] = [p |-> threads[s].p, st |-> "pending"]
      BY <2>2 DEF Saved
    <3>2. threads[s].kind \in Sending /\ threads[s].p = p
      BY <1>1, <3>1 DEF prove_and_save, Tidy, Sending
    <3> QED
      BY <3>2 DEF NoSends
  <2>3. CASE Published(id)
    BY <1>1, <2>1, <2>3 DEF Published, Typed, DiskTyped, SendFile
  <2>4. CASE Erased(id)
    <3>1. NoOne \notin Profiles
      BY AbsenceAssumption
    <3>2. sends'[id].p = NoOne
      BY <2>4 DEF Erased, NoFile
    <3> QED
      BY <1>1, <3>1, <3>2
  <2> QED
    BY <1>1, <2>1, <2>2, <2>3, <2>4, Files
<1>2. ASSUME NEW r \in Slots, threads'[r].kind \in Sending, threads'[r].p = p
      PROVE  FALSE
  <2>1. CASE threads'[r].kind = threads[r].kind /\ threads'[r].p = threads[r].p
    BY <1>2, <2>1 DEF NoSends
  <2>2. CASE threads[r] = Free /\ held(r)'
    <3>1. open /\ (Fires(r) \/ \E id \in SendIds : Retries(r, id))
      BY <1>2, <2>2, SendBorn
    <3>2. ASSUME Fires(r)
          PROVE  FALSE
      <4>1. threads'[r].p = session.p /\ session.stage = "registered"
        BY <3>2, BornAs DEF Fires
      <4> QED
        BY <1>2, <3>1, <4>1
    <3>3. ASSUME NEW id \in SendIds, Retries(r, id)
          PROVE  FALSE
      <4>1. threads'[r].p = session.p /\ sends[id].p = session.p
        BY <3>3, BornAs DEF Retries, Resumes
      <4> QED
        BY <1>2, <4>1 DEF NoSends
    <3> QED
      BY <3>1, <3>2, <3>3
  <2> QED
    BY <1>2, <2>1, <2>2, ThreadSteps
<1> QED
  BY <1>1, <1>2 DEF NoSends

(* A store is only replaced when nothing of it is left to send.              *)
LEMMA Retired ==
  ASSUME Typed, Own, Tidy, Framed, Ids, Orphans, Fresh, migrate_store
  PROVE  NoSends(session.p)
<1>1. /\ open /\ session.send_rx = NoRx /\ dirs[session.p].store = "old" /\ dirs[session.p].place = "live"
      /\ incomplete(session.p) = {} /\ session.p \in Profiles
  BY Shown DEF migrate_store, shown, work_in_flight, open, ProfileSession
<1>2. ASSUME NEW id \in SendIds, sends[id].p = session.p
      PROVE  FALSE
  <2>1. sends[id].st = "pending"
    BY <1>1, <1>2 DEF Fresh
  <2>2. sends[id] = [p |-> session.p, st |-> "pending"]
    BY <1>2, <2>1 DEF Typed, DiskTyped, SendFile
  <2> QED
    BY <1>1, <2>2 DEF incomplete
<1>3. ASSUME NEW s \in Slots, threads[s].kind \in Sending, threads[s].p = session.p
      PROVE  FALSE
  <2>1. threads[s].kind # "send" /\ ~threads[s].arg.done /\ threads[s].pc # "publish"
    BY <1>1, <1>3 DEF Fresh
  <2>2. s # NoRx
    BY GuiAssumption DEF Slots, NoRx
  <2>3. ~held(s)
    BY <1>1, <1>3, <2>2, Receivers DEF Own, OnRx, Sending
  <2>4. alive(s)
    BY <1>3, <2>3 DEF alive, Tidy, Sending
  <2>5. may_publish(s)
    BY <1>3, <2>1, <2>4 DEF may_publish, runs, Sending
  <2> QED
    BY <1>1, <2>2, <2>5, SendersHeld
<1> QED
  BY <1>2, <1>3 DEF NoSends

-----------------------------------------------------------------------------
(* What the session shows of its profile. *)

Anew == OpenAction /\ \E p \in Profiles : session' = NewSession(p)

LEMMA Stays ==
  ASSUME Typed, Own, Tidy, Framed, Ids, Next, open', ~Anew
  PROVE  /\ open /\ session'.p = session.p
         /\ Talk(session') = Talk(session) \/ TalkAction
         /\ Show(session') = Show(session) \/ ShowAction
         /\ Sent(session') = Sent(session) \/ SendAction
<1>1. session' = session \/ (open /\ KeptIn(session, session'))
  BY SessionSteps DEF SessionStep, Anew, open
<1>2. open /\ session'.p = session.p
  BY <1>1 DEF KeptIn, open
<1> QED
  BY <1>2, Frames DEF Anew

Reloads ==
  /\ poll_worker /\ session'.rx = NoRx /\ dirs' = dirs /\ session'.confirm = session.confirm
  /\ session'.stage = dirs[session.p].stage /\ session'.store = dirs[session.p].store
Migrates ==
  /\ migrate_store /\ session.rx = NoRx /\ session'.rx = NoRx
  /\ session'.stage = "keys" /\ session'.store = "v4" /\ dirs'[session.p].store = "v4"
LooksSame ==
  /\ session'.stage = session.stage /\ session'.store = session.store
  /\ session'.confirm => session.confirm \/ session.store = "v4"
  /\ ~migrate_store
LEMMA ShowSteps ==
  ASSUME Typed, open, Show(session') = Show(session) \/ ShowAction
  PROVE  Reloads \/ Migrates \/ LooksSame
<1>d. session \in ProfileSession
  BY Shown
<1>f. DOMAIN session = {"p", "stage", "store", "of", "rx", "inbox_rx", "resolve_rx", "send_rx", "handle",
                        "resolved", "confirm", "flow", "send_id", "pending", "dismissed"}
  BY <1>d, Edited
<1>m. CASE migrate_store
  <2>1. session' = [session EXCEPT !.stage = "keys", !.store = "v4", !.of = {}]
    BY <1>m DEF migrate_store
  <2>2. session.rx = NoRx
    BY <1>m DEF migrate_store, worker_busy, open
  <2>3. dirs'[session.p].store = "v4"
    BY <1>d, <1>m DEF migrate_store, Typed, DiskTyped, Dir, ProfileSession
  <2> QED
    BY <1>f, <1>m, <2>1, <2>2, <2>3 DEF Migrates
<1>s. ASSUME Show(session') = Show(session), ~migrate_store
      PROVE  LooksSame
  BY <1>s DEF Show, LooksSame
<1>1. ASSUME NEW s \in Slots, start_send(s), ~migrate_store
      PROVE  LooksSame
  <2>1. \/ session' = [session EXCEPT !.confirm = FALSE]
        \/ session' = [session EXCEPT !.confirm = FALSE, !.flow = virtual_plan, !.send_id = NoOne, !.send_rx = s]
    BY <1>1 DEF start_send
  <2> QED
    BY <1>f, <1>1, <2>1 DEF LooksSame
<1>2. CASE poll_worker /\ ~migrate_store
  <2>1. PICK ss : ss = [session EXCEPT !.rx = NoRx]
    OBVIOUS
  <2>2. /\ session' \in {ss, [ss EXCEPT !.of = @ \cup {threads[session.rx].p}],
                         [ss EXCEPT !.stage = dirs[ss.p].stage, !.store = dirs[ss.p].store]}
        /\ dirs' = dirs
    BY <1>2, <2>1 DEF poll_worker, rx_cleared, reload_local_state, disk
  <2>3. DOMAIN ss = DOMAIN session /\ ss.rx = NoRx /\ ss.p = session.p /\ Show(ss) = Show(session)
    BY <1>f, <2>1 DEF Show
  <2>4. CASE session' = [ss EXCEPT !.stage = dirs[ss.p].stage, !.store = dirs[ss.p].store]
    BY <1>2, <1>f, <2>2, <2>3, <2>4 DEF Reloads, Show
  <2>5. CASE session' \in {ss, [ss EXCEPT !.of = @ \cup {threads[session.rx].p}]}
    <3>1. Show(session') = Show(ss)
      BY <1>f, <2>3, <2>5 DEF Show
    <3> QED
      BY <1>2, <1>s, <2>3, <3>1
  <2> QED
    BY <2>2, <2>4, <2>5
<1>3. CASE send_click /\ ~migrate_store
  <2>1. session' = [session EXCEPT !.confirm = TRUE] /\ session.store = "v4"
    BY <1>3 DEF send_click, can_send
  <2> QED
    BY <1>3, <1>f, <2>1 DEF LooksSame
<1>4. CASE cancel_send /\ ~migrate_store
  <2>1. session' = [session EXCEPT !.confirm = FALSE]
    BY <1>4 DEF cancel_send
  <2> QED
    BY <1>4, <1>f, <2>1 DEF LooksSame
<1>5. CASE compose_another /\ ~migrate_store
  <2>1. session' = [session EXCEPT !.handle = NoOne, !.resolved = NoOne, !.resolve_rx = NoRx, !.confirm = FALSE,
                                      !.flow = NoOne, !.send_rx = NoRx, !.send_id = NoOne]
    BY <1>5 DEF compose_another
  <2> QED
    BY <1>5, <1>f, <2>1 DEF LooksSame
<1> QED
  BY <1>m, <1>s, <1>1, <1>2, <1>3, <1>4, <1>5 DEF ShowAction

(* A registration is asked for where the profile shown has its keys only.    *)
LEMMA RxSteps ==
  ASSUME Typed, Own, Tidy, open, Talk(session') = Talk(session) \/ TalkAction
  PROVE  \/ session'.rx \in {session.rx, NoRx}
         \/ threads'[session'.rx].kind # "register"
         \/ session.stage = "keys" /\ session'.stage = "keys"
<1>d. session \in ProfileSession
  BY Shown
<1>f. DOMAIN session = {"p", "stage", "store", "of", "rx", "inbox_rx", "resolve_rx", "send_rx", "handle",
                        "resolved", "confirm", "flow", "send_id", "pending", "dismissed"}
  BY <1>d, Edited
<1>1. ASSUME NEW s \in Slots, register(s)
      PROVE  session.stage = "keys" /\ session'.stage = "keys"
  BY <1>1, <1>f DEF register
<1>2. ASSUME NEW s \in Slots, init(s) \/ refresh(s) \/ buy_tickets(s)
      PROVE  threads'[session'.rx].kind # "register"
  <2>1. PICK kind \in {"init", "status", "buy"} : start(s, kind) /\ session' = [session EXCEPT !.rx = s]
    BY <1>2 DEF init, refresh, buy_tickets
  <2>2. kind \in Kinds
    BY DEF Kinds
  <2>3. threads'[s].kind = kind
    BY <2>1, <2>2, Begins, BornAs
  <2> QED
    BY <1>f, <2>1, <2>3
<1>3. ASSUME NEW s \in Slots, refresh_inbox(s) \/ resolve(s)
      PROVE  session'.rx = session.rx
  BY <1>3, <1>f DEF refresh_inbox, resolve
<1>4. CASE poll_worker
  <2>1. PICK ss : ss = [session EXCEPT !.rx = NoRx]
    OBVIOUS
  <2>2. session' \in {ss, [ss EXCEPT !.of = @ \cup {threads[session.rx].p}],
                         [ss EXCEPT !.stage = dirs[ss.p].stage, !.store = dirs[ss.p].store]}
    BY <1>4, <2>1 DEF poll_worker, rx_cleared, reload_local_state
  <2>3. DOMAIN ss = DOMAIN session /\ ss.rx = NoRx
    BY <1>f, <2>1
  <2> QED
    BY <1>f, <2>2, <2>3
<1>5. CASE poll_inbox_worker
  <2>1. \E of : session' = [session EXCEPT !.inbox_rx = NoRx, !.of = of]
    BY <1>5 DEF poll_inbox_worker
  <2> QED
    BY <1>f, <2>1
<1>6. CASE poll_compose_worker
  <2>1. \E h : session' = [session EXCEPT !.resolve_rx = NoRx, !.resolved = h]
    BY <1>6 DEF poll_compose_worker
  <2> QED
    BY <1>f, <2>1
<1>7. CASE migrate_store
  BY <1>f, <1>7 DEF migrate_store
<1>8. CASE compose_another
  BY <1>f, <1>8 DEF compose_another
<1>9. ASSUME NEW h \in Handles, edit(h)
      PROVE  session'.rx = session.rx
  BY <1>f, <1>9 DEF edit, edited
<1>10. Talk(session') = Talk(session) => session'.rx = session.rx
  BY DEF Talk
<1> QED
  BY <1>1, <1>2, <1>3, <1>4, <1>5, <1>6, <1>7, <1>8, <1>9, <1>10 DEF TalkAction

LEMMA FreshStays ==
  ASSUME Typed, Own, Tidy, Framed, Ids, Orphans, Fresh, Next
  PROVE  Fresh'
<1>0. \A p \in Profiles : dirs[p].stage \in Stages /\ dirs[p].store \in {"v4", "old"}
  BY DEF Typed, DiskTyped, Dir
<1>s. open => session.p \in Profiles
  BY Shown DEF ProfileSession
<1>v. \A p \in Profiles : dirs[p].store = "v4" => dirs'[p].store = "v4"
  BY DirSteps DEF SameDir, Advances
<1>r. ASSUME NEW p \in Profiles, dirs[p].stage # "registered"
      PROVE  NoSends(p)'
  BY <1>r, NoSendsStays DEF Fresh
<1>1. ASSUME NEW p \in Profiles, dirs'[p].stage # "registered"
      PROVE  NoSends(p)'
  <2>1. CASE migrate_store /\ open /\ p = session.p
    <3>1. NoSends(p)
      BY <2>1, Retired
    <3>2. UNCHANGED <<sends, threads>>
      BY <2>1 DEF migrate_store
    <3> QED
      BY <3>1, <3>2 DEF NoSends
  <2>2. CASE ~(migrate_store /\ open /\ p = session.p)
    <3>1. dirs[p].stage # "registered"
      BY <1>1, <2>2, DirSteps DEF SameDir, Advances
    <3> QED
      BY <1>r, <3>1
  <2> QED
    BY <2>1, <2>2
<1>2. ASSUME NEW p \in Profiles, dirs'[p].store = "old", NEW id \in SendIds, sends'[id].p = p
      PROVE  sends'[id].st = "pending"
  <2>1. dirs[p].store = "old"
    BY <1>0, <1>2, <1>v
  <2>2. CASE Saved(id)
    BY <2>2 DEF Saved
  <2>3. ASSUME Published(id)
        PROVE  FALSE
    <3>1. PICK s \in Slots, how \in {"done", "stale"} :
            publish(s, how) /\ threads[s].arg.id = id /\ sends'[id] = [sends[id] EXCEPT !.st = how]
      BY <2>3 DEF Published
    <3>2. threads[s].p = p
      <4>1. sends'[id].p = sends[id].p
        BY <3>1 DEF Typed, DiskTyped, SendFile
      <4> QED
        BY <1>2, <3>1, <4>1, Publisher
    <3>3. threads[s].pc = "publish" /\ threads[s].kind \in Sending
      BY <3>1 DEF publish, Tidy
    <3> QED
      BY <2>1, <3>2, <3>3 DEF Fresh
  <2>4. ASSUME Erased(id)
        PROVE  FALSE
    <3>1. NoOne \notin Profiles
      BY AbsenceAssumption
    <3>2. sends'[id].p = NoOne
      BY <2>4 DEF Erased, NoFile
    <3> QED
      BY <1>2, <3>1, <3>2
  <2>5. sends'[id] = sends[id] => sends'[id].st = "pending"
    BY <1>2, <2>1 DEF Fresh
  <2> QED
    BY <2>2, <2>3, <2>4, <2>5, Files
<1>3. ASSUME NEW r \in Slots, threads'[r].kind \in Sending,
             threads'[r].kind = "send" \/ threads'[r].arg.done \/ threads'[r].pc = "publish"
      PROVE  dirs'[threads'[r].p].store = "v4"
  <2>1. CASE /\ threads'[r].kind = threads[r].kind /\ threads'[r].p = threads[r].p
             /\ threads'[r].arg.done = threads[r].arg.done
             /\ threads'[r].pc = threads[r].pc \/ WorkerStep(r)
    <3>0. threads[r].p \in Profiles
      BY <1>3, <2>1 DEF Tidy, Sending
    <3>1. CASE threads[r].kind = "send" \/ threads[r].arg.done \/ threads[r].pc = "publish"
      BY <1>v, <1>3, <2>1, <3>0, <3>1 DEF Fresh
    <3>2. CASE ~(threads[r].kind = "send" \/ threads[r].arg.done \/ threads[r].pc = "publish")
      <4>1. WorkerStep(r) /\ threads[r].kind = "resume" /\ threads'[r].pc = "publish"
        BY <1>3, <2>1, <3>2 DEF Sending
      <4>2. SendStep(r)
        BY <1>3, <2>1, <4>1, SendSteps
      <4>3. ASSUME Ends(r, Failing) \/ Ends(r, Already)
            PROVE  FALSE
        <5>1. threads'[r] = Free \/ threads'[r].pc = "ended"
          <6>1. Failing \in Seq(Event) /\ Already \in Seq(Event)
            BY SendWords
          <6>2. threads'[r] = Free \/ \E es : threads'[r] = [threads[r] EXCEPT !.pc = "ended", !.ch = @ \o es]
            BY <4>3, <6>1, SentDoes DEF Ends, Typed
          <6> QED
            BY <6>2 DEF Typed, ThreadsTyped, Thread
        <5> QED
          BY <4>1, <5>1, Frees
      <4>4. \A id \in SendIds : ~prove_and_save(r, id)
        BY <3>2, <4>1 DEF prove_and_save, Tidy
      <4>5. routes(threads[r].p)
        BY <3>2, <4>1, <4>2, <4>3, <4>4 DEF SendStep, publish
      <4> QED
        BY <1>v, <2>1, <3>0, <4>5 DEF routes
    <3> QED
      BY <3>1, <3>2
  <2>2. CASE threads[r] = Free /\ held(r)'
    <3>1. open /\ (Fires(r) \/ \E id \in SendIds : Retries(r, id)) /\ dirs' = dirs
      BY <1>3, <2>2, SendBorn DEF disk
    <3>2. ASSUME Fires(r)
          PROVE  dirs'[threads'[r].p].store = "v4"
      <4>1. threads'[r].p = session.p /\ session.confirm
        BY <3>2, BornAs DEF Fires
      <4> QED
        BY <3>1, <4>1 DEF Fresh
    <3>3. ASSUME NEW id \in SendIds, Retries(r, id)
          PROVE  dirs'[threads'[r].p].store = "v4"
      <4>1. /\ threads'[r].p = session.p /\ sends[id].p = session.p /\ threads'[r].kind = "resume"
            /\ threads'[r].arg = [id |-> id, done |-> sends[id].st = "done"] /\ threads'[r].pc = "begin"
        BY <3>3, BornAs DEF Retries, Resumes
      <4>0. [id |-> id, done |-> sends[id].st = "done"].done = (sends[id].st = "done")
        OBVIOUS
      <4>3. threads'[r].kind # "send" /\ threads'[r].pc # "publish"
        BY <4>1
      <4>4. threads'[r].arg.done
        BY <1>3, <4>3
      <4>2. sends[id].st = "done"
        BY <4>0, <4>1, <4>4
      <4> QED
        BY <1>0, <1>s, <3>1, <4>1, <4>2 DEF Fresh
    <3> QED
      BY <3>1, <3>2, <3>3
  <2> QED
    BY <1>3, <2>1, <2>2, ThreadSteps
<1>4. ASSUME open', Anew
      PROVE  /\ session'.stage # "registered" => NoSends(session.p)'
             /\ session'.rx = NoRx
             /\ session'.stage = "registered" => dirs'[session'.p].stage = "registered"
             /\ session'.store = "v4" => dirs'[session'.p].store = "v4"
             /\ ~session'.confirm
  <2>1. PICK p \in Profiles : session' = NewSession(p)
    BY <1>4 DEF Anew
  <2>2. SameDir(p)
    BY <1>4, DirKept DEF Anew
  <2>3. session'.p = p /\ session'.stage = dirs[p].stage /\ session'.store = dirs[p].store /\ session'.rx = NoRx /\ ~session'.confirm
    BY <2>1, News
  <2>4. dirs[p].stage # "registered" => NoSends(session.p)'
    <3>1. ASSUME NoSends(p)'
          PROVE  NoSends(session.p)'
      BY <2>3, <3>1 DEF NoSends
    <3> QED
      BY <1>r, <3>1
  <2> QED
    BY <2>2, <2>3, <2>4 DEF SameDir
<1>5. ASSUME open', ~Anew
      PROVE  /\ session'.stage # "registered" => NoSends(session.p)'
             /\ session'.rx # NoRx /\ threads'[session'.rx].kind = "register" => session'.stage = "keys"
             /\ session'.stage = "registered" => dirs'[session'.p].stage = "registered"
             /\ session'.store = "v4" => dirs'[session'.p].store = "v4"
             /\ session'.confirm => session'.store = "v4"
  <2>1. /\ open /\ session'.p = session.p
        /\ Talk(session') = Talk(session) \/ TalkAction
        /\ Reloads \/ Migrates \/ LooksSame
    BY <1>5, Stays, ShowSteps
  <2>p. session.p \in Profiles
    BY <1>s, <2>1
  <2>2. session.stage # "registered" => NoSends(session.p)'
    <3>1. ASSUME session.stage # "registered"
          PROVE  NoSends(session.p)'
      <4>1. PICK p \in Profiles : p = session.p
        BY <2>p
      <4>2. NoSends(p)'
        BY <2>1, <3>1, <4>1, NoSendsStays DEF Fresh, NoSends
      <4> QED
        BY <2>1, <4>1, <4>2 DEF NoSends
    <3> QED
      BY <3>1
  <2>3. session'.rx # NoRx /\ session'.rx = session.rx /\ threads'[session'.rx].kind = "register" => session.stage = "keys"
    BY <1>5, <2>1, RxKept DEF Fresh
  <2>4. CASE Reloads
    <3>1. dirs[session.p].stage # "registered" => NoSends(session.p)'
      <4>1. PICK p \in Profiles : p = session.p
        BY <2>p
      <4>2. dirs[p].stage # "registered" => NoSends(p)'
        BY <1>r
      <4> QED
        BY <2>1, <4>1, <4>2 DEF NoSends
    <3>2. session'.confirm => dirs[session.p].store = "v4"
      BY <2>1, <2>4 DEF Reloads, Fresh
    <3> QED
      BY <2>1, <2>4, <3>1, <3>2 DEF Reloads
  <2>5. CASE Migrates
    <3>1. NoSends(session.p)'
      <4>1. NoSends(session.p) /\ UNCHANGED <<sends, threads>>
        BY <2>5, Retired DEF Migrates, migrate_store
      <4> QED
        BY <2>1, <4>1 DEF NoSends
    <3> QED
      BY <2>1, <2>5, <3>1 DEF Migrates
  <2>6. CASE LooksSame
    <3>1. SameDir(session.p) \/ Advances(session.p)
      BY <2>p, <2>6, DirSteps DEF LooksSame
    <3>2. session'.stage = "registered" => dirs'[session'.p].stage = "registered"
      BY <2>1, <2>6, <3>1 DEF LooksSame, SameDir, Advances, Fresh
    <3>3. session'.store = "v4" => dirs'[session'.p].store = "v4"
      BY <1>v, <2>p, <2>1, <2>6 DEF LooksSame, Fresh
    <3>4. session'.rx # NoRx /\ threads'[session'.rx].kind = "register" => session'.stage = "keys"
      BY <2>1, <2>3, <2>6, RxSteps DEF LooksSame
    <3>5. session'.confirm => session'.store = "v4"
      BY <2>1, <2>6 DEF LooksSame, Fresh
    <3> QED
      BY <2>1, <2>2, <2>6, <3>2, <3>3, <3>4, <3>5 DEF LooksSame
  <2> QED
    BY <2>1, <2>4, <2>5, <2>6
<1>6. open' => /\ session'.stage # "registered" => NoSends(session.p)'
               /\ session'.rx # NoRx /\ threads'[session'.rx].kind = "register" => session'.stage = "keys"
               /\ session'.stage = "registered" => dirs'[session'.p].stage = "registered"
               /\ session'.store = "v4" => dirs'[session'.p].store = "v4"
               /\ session'.confirm => session'.store = "v4"
  BY <1>4, <1>5
<1> QED
  BY <1>1, <1>2, <1>3, <1>6 DEF Fresh

-----------------------------------------------------------------------------
(* The checklist of a running send. *)

(* The send a session listens to after a step.                               *)
LEMMA SendKept ==
  ASSUME Typed, Own, Tidy, Framed, Ids, Flows, Next, open', session'.send_rx # NoRx
  PROVE  /\ open /\ session'.p = session.p /\ session'.send_rx \in Slots
         /\ \/ Fires(session'.send_rx) /\ sends' = sends
            \/ (\E id \in SendIds : Retries(session'.send_rx, id)) /\ sends' = sends
            \/ session'.send_rx = session.send_rx /\ (poll_send_worker \/ Sent(session') = Sent(session))
<1>1. ASSUME Anew
      PROVE  FALSE
  <2>1. PICK p \in Profiles : session' = NewSession(p)
    BY <1>1 DEF Anew
  <2> QED
    BY <2>1, News
<1>2. open /\ session'.p = session.p /\ (Sent(session') = Sent(session) \/ SendAction)
  BY <1>1, Stays
<1>3. session'.send_rx \in Slots
  BY TypedStays DEF Typed, WindowTyped, open, ProfileSession, Rx
<1>4. Sent(session') = Sent(session) => session'.send_rx = session.send_rx
  BY DEF Sent
<1>5. CASE SendAction
  <2>1. SendEffect /\ sends' = sends
    BY <1>2, <1>5, SendEffects DEF disk
  <2>2. ASSUME NEW s \in Slots, Fires(s)
        PROVE  Fires(session'.send_rx)
    BY <2>2 DEF Fires
  <2>3. ASSUME NEW s \in Slots, NEW id \in SendIds, Retries(s, id)
        PROVE  Retries(session'.send_rx, id)
    BY <2>3 DEF Retries, Resumes
  <2>4. ~ \E id \in SendIds : GivesUp(id)
    BY DEF GivesUp
  <2>5. ~Dismisses /\ ~WritesAnother
    BY DEF Dismisses, WritesAnother
  <2>6. ~EditsAgain
    BY <1>2 DEF EditsAgain, Flows, failed
  <2>7. poll_send_worker => session'.send_rx = session.send_rx
    BY SendPolls
  <2> QED
    BY <1>2, <1>3, <1>4, <2>1, <2>2, <2>3, <2>4, <2>5, <2>6, <2>7 DEF SendEffect
<1> QED
  BY <1>2, <1>3, <1>4, <1>5

LEMMA Applies ==
  ASSUME NEW flow \in SendFlow, NEW e \in Event, e.k \notin {"Ok", "Err"},
         ~flow.error, \A i \in Plan : flow.steps[i] # "Failed"
  PROVE  /\ ~apply(flow, e).error /\ \A i \in Plan : apply(flow, e).steps[i] # "Failed"
         /\ apply(flow, e) \in SendFlow
         /\ apply(flow, e).published <=> flow.published \/ e.k = "Completed"
<1>1. apply(flow, e) \in SendFlow /\ flow.steps \in [Plan -> StepStatus]
  BY ChecklistTyped DEF SendFlow
<1>2. ASSUME NEW st \in {"Running", "Done"}
      PROVE  /\ ~set_pending(flow, e.i, st).error /\ (set_pending(flow, e.i, st).published <=> flow.published)
             /\ \A i \in Plan : set_pending(flow, e.i, st).steps[i] # "Failed"
  BY DEF set_pending, SendFlow
<1>3. CASE e.k = "Started"
  BY <1>1, <1>2, <1>3 DEF apply
<1>4. CASE e.k = "StepCompleted"
  BY <1>1, <1>2, <1>4 DEF apply
<1>5. CASE e.k = "Completed"
  BY <1>1, <1>5 DEF apply, SendFlow
<1>6. CASE e.k \notin {"Started", "StepCompleted", "Completed"}
  <2>1. apply(flow, e) = flow
    BY <1>6 DEF apply
  <2> QED
    BY <1>6, <2>1
<1> QED
  BY <1>3, <1>4, <1>5, <1>6

(* A send that is done stays done, when its session may not publish it.      *)
LEMMA DoneStays ==
  ASSUME Typed, Own, Tidy, Framed, Ids, Orphans, Next, open', open, session'.p = session.p,
         NEW id \in SendIds, sends[id].p = session.p, sends[id].st = "done", ~may_publish(session.send_rx)
  PROVE  sends'[id].st = "done"
<1>1. sends'[id] = sends[id] \/ Published(id)
  BY StillOurs
<1>2. ASSUME NEW s \in Slots, NEW how \in {"done", "stale"}, publish(s, how)
      PROVE  FALSE
  <2>1. s = session.send_rx
    BY <1>2, Publisher
  <2>2. may_publish(s)
    BY <1>2 DEF publish, Tidy, may_publish, runs, alive, Sending
  <2> QED
    BY <2>1, <2>2
<1> QED
  BY <1>1, <1>2 DEF Published

(* What a worker that is heard says as it moves on.                          *)
Tells(r, es, pc) ==
  /\ threads'[r].kind = threads[r].kind /\ threads'[r].p = threads[r].p /\ threads'[r].pc = pc
  /\ threads'[r].arg.done = threads[r].arg.done
  /\ threads'[r].ch = threads[r].ch \o es /\ Said(threads'[r].ch) = Said(threads[r].ch) \cup Said(es)
SameSend(r) == threads'[r].arg.id = threads[r].arg.id
SendTold(r) ==
  \/ /\ Tells(r, Failing, "ended") /\ SameSend(r) /\ (sends' = sends \/ publish(r, "stale"))
     /\ threads[r].pc \in {"prove", "publish"} \/ (threads[r].pc = "begin" /\ ~routes(threads[r].p))
  \/ Tells(r, Stopping, "ended") /\ SameSend(r) /\ threads[r].pc = "begin" /\ threads[r].kind = "send"
  \/ Tells(r, Proving, "prove") /\ SameSend(r) /\ threads[r].pc = "begin" /\ threads[r].kind = "send"
  \/ Tells(r, Already, "ended") /\ SameSend(r) /\ threads[r].pc = "begin" /\ threads[r].kind = "resume" /\ threads[r].arg.done
  \/ Tells(r, publish_started, "publish") /\ SameSend(r) /\ threads[r].pc = "begin" /\ threads[r].kind = "resume" /\ ~threads[r].arg.done
  \/ \E id \in SendIds :
       /\ prove_and_save(r, id) /\ Tells(r, Saving(id), "publish") /\ threads'[r].arg.id = id
       /\ threads[r].pc = "prove" /\ threads[r].kind = "send"
  \/ publish(r, "done") /\ Tells(r, Landing, "ended") /\ SameSend(r) /\ threads[r].pc = "publish"

LEMMA Telling ==
  ASSUME Typed, Tidy, NEW r \in Slots, threads[r].kind \in Sending, held(r), WorkerStep(r)
  PROVE  SendTold(r) /\ alive(r)
<1>1. SendStep(r) /\ alive(r)
  BY SendSteps
<1>2. ASSUME NEW pc \in {"prove", "publish", "ended"}, NEW es \in Seq(Event), sent(r, pc, es)
      PROVE  Tells(r, es, pc) /\ SameSend(r)
  <2>1. /\ threads'[r].kind = threads[r].kind /\ threads'[r].p = threads[r].p /\ threads'[r].arg = threads[r].arg
        /\ threads'[r].pc = pc /\ Said(threads'[r].ch) = Said(threads[r].ch) \cup Said(es)
    BY <1>2, SendSays
  <2>2. threads'[r] = [threads[r] EXCEPT !.pc = pc, !.ch = @ \o es]
    BY <1>2, SentDoes DEF Typed
  <2>3. threads'[r].ch = threads[r].ch \o es
    BY <2>2 DEF Typed, ThreadsTyped, Thread
  <2> QED
    BY <2>1, <2>3 DEF Tells, SameSend
<1>3. ASSUME NEW id \in SendIds, prove_and_save(r, id)
      PROVE  Tells(r, Saving(id), "publish") /\ threads'[r].arg.id = id /\ threads[r].pc = "prove" /\ threads[r].kind = "send"
  <2>1. /\ threads'[r].kind = threads[r].kind /\ threads'[r].p = threads[r].p
        /\ threads'[r].arg.id = id /\ threads'[r].arg.done = threads[r].arg.done
        /\ threads'[r].pc = "publish" /\ Said(threads'[r].ch) = Said(threads[r].ch) \cup Said(Saving(id))
    BY <1>3, SaveSays
  <2>2. threads[r].arg \in Resuming /\ threads[r].pc = "prove" /\ threads[r].kind = "send"
    BY <1>3 DEF prove_and_save, Tidy, Sending
  <2>3. threads'[r].ch = threads[r].ch \o Saving(id)
    BY <1>3, <2>2, SavedDoes DEF Typed, Saving
  <2> QED
    BY <2>1, <2>2, <2>3 DEF Tells
<1>4. ASSUME NEW es \in Seq(Event), Ends(r, es)
      PROVE  Tells(r, es, "ended") /\ SameSend(r)
  BY <1>2, <1>4 DEF Ends
<1>5. ASSUME NEW how, publish(r, how)
      PROVE  threads[r].pc = "publish"
  BY <1>5 DEF publish
<1>6. Ends(r, Failing) => Tells(r, Failing, "ended") /\ SameSend(r)
  BY <1>4, SendWords
<1>7. Ends(r, Stopping) => Tells(r, Stopping, "ended") /\ SameSend(r)
  BY <1>4, SendWords
<1>8. Ends(r, Already) => Tells(r, Already, "ended") /\ SameSend(r)
  BY <1>4, SendWords
<1>9. Ends(r, Landing) => Tells(r, Landing, "ended") /\ SameSend(r)
  BY <1>4, SendWords
<1>10. sent(r, "prove", Proving) => Tells(r, Proving, "prove") /\ SameSend(r)
  BY <1>2, SendWords
<1>11. sent(r, "publish", publish_started) => Tells(r, publish_started, "publish") /\ SameSend(r)
  BY <1>2, SendWords
<1> QED
  BY <1>1, <1>3, <1>5, <1>6, <1>7, <1>8, <1>9, <1>10, <1>11 DEF SendStep, SendTold

(* What Flows asks of the send in a slot.                                    *)
FlowOk(r) ==
  /\ session.flow # NoOne /\ ~session.flow.error /\ \A i \in Plan : session.flow.steps[i] # "Failed"
  /\ session.flow.published \/ Says(r, "Completed") =>
       ~may_publish(r) /\ threads[r].arg.id \in SendIds /\ sends[threads[r].arg.id].st = "done"
  /\ threads[r].arg.done => sends[threads[r].arg.id].st = "done"

LEMMA FlowsStays ==
  ASSUME Typed, Own, Tidy, Framed, Ids, Orphans, Flows, Next
  PROVE  Flows'
<1>1. ASSUME open', NEW r \in Slots, r = session'.send_rx
      PROVE  FlowOk(r)'
  <2>0. r # NoRx
    BY GuiAssumption DEF Slots, NoRx
  <2>1. CASE Fires(r) /\ sends' = sends
    <3>1. threads'[r].arg = [id |-> NoOne, done |-> FALSE] /\ threads'[r].ch = <<>>
      BY <2>1, BornAs DEF Fires
    <3>2. session'.flow = virtual_plan /\ virtual_plan \in SendFlow /\ virtual_plan # NoOne
      BY <2>1, PlansTyped, AbsenceAssumption DEF Fires
    <3>3. ~Says(r, "Completed")'
      BY <3>1 DEF Says
    <3> QED
      BY <3>1, <3>2, <3>3 DEF FlowOk, virtual_plan
  <2>2. ASSUME NEW id \in SendIds, Retries(r, id), sends' = sends
        PROVE  FlowOk(r)'
    <3>1. /\ threads'[r].arg = [id |-> id, done |-> sends[id].st = "done"] /\ threads'[r].ch = <<>>
          /\ threads'[r].kind = "resume"
      BY <2>2, BornAs DEF Retries, Resumes
    <3>2. session'.flow = from_state(id) /\ from_state(id) \in SendFlow /\ from_state(id) # NoOne
      BY <2>2, PlansTyped, AbsenceAssumption DEF Retries, Resumes
    <3>3. ~Says(r, "Completed")'
      BY <3>1 DEF Says
    <3>4. /\ from_state(id).error = FALSE /\ from_state(id).published = (sends[id].st = "done")
          /\ \A i \in Plan : from_state(id).steps[i] # "Failed"
      BY DEF from_state
    <3>5. threads'[r].arg.id = id /\ threads'[r].arg.done = (sends[id].st = "done")
      BY <3>1
    <3>6. threads'[r].arg.done => ~may_publish(r)'
      BY <3>1 DEF may_publish, runs
    <3>7. session'.flow.published => sends[id].st = "done"
      BY <3>2, <3>4
    <3>8. threads'[r].arg.done => sends[id].st = "done"
      BY <3>5
    <3>9. sends[id].st = "done" => threads'[r].arg.done
      BY <3>5
    <3> QED
      BY <2>2, <3>2, <3>3, <3>4, <3>5, <3>6, <3>7, <3>8, <3>9 DEF FlowOk
  <2>3. CASE open /\ session'.p = session.p /\ session'.send_rx = session.send_rx /\ (poll_send_worker \/ Sent(session') = Sent(session))
    <3>1. /\ r = session.send_rx /\ FlowOk(r) /\ session \in ProfileSession
      BY <1>1, <2>0, <2>3, Shown DEF FlowOk, Flows, receiver, Says
    <3>2. /\ held(r) /\ threads[r].kind \in Sending /\ threads[r].p = session.p
          /\ threads'[r] = threads[r] \/ Popped(r) \/ WorkerStep(r)
      BY <1>1, <2>0, <2>3, <3>1, Listening
    <3>f. session.flow \in SendFlow
      BY <3>1 DEF FlowOk, ProfileSession
    <3>3. CASE poll_send_worker
      <4>1. PICK e \in Event : /\ e = Head(threads[r].ch) /\ e \in Said(threads[r].ch) /\ sends' = sends
                               /\ session'.flow = apply(session.flow, e) /\ e.k \notin {"Ok", "Err"} /\ Popped(r)
        BY <2>0, <2>3, <3>1, <3>3, SendPolls DEF disk, FlowOk
      <4>2. /\ ~session'.flow.error /\ \A i \in Plan : session'.flow.steps[i] # "Failed"
            /\ session'.flow \in SendFlow
            /\ session'.flow.published <=> session.flow.published \/ e.k = "Completed"
        BY <3>1, <3>f, <4>1, Applies DEF FlowOk
      <4>3. /\ threads'[r].kind = threads[r].kind /\ threads'[r].arg = threads[r].arg /\ threads'[r].pc = threads[r].pc
            /\ Said(threads'[r].ch) \subseteq Said(threads[r].ch)
        BY <4>1, PopSays
      <4>4. may_publish(r)' <=> may_publish(r)
        BY <4>3 DEF may_publish, runs, alive
      <4>5. Says(r, "Completed") <=> \E x \in Said(threads[r].ch) : x.k = "Completed"
        BY DEF Says, Said
      <4>6. Says(r, "Completed")' <=> \E x \in Said(threads'[r].ch) : x.k = "Completed"
        BY DEF Says, Said
      <4>7. session'.flow.published \/ Says(r, "Completed")' => session.flow.published \/ Says(r, "Completed")
        BY <4>1, <4>2, <4>3, <4>5, <4>6
      <4>8. session'.flow # NoOne
        BY <4>2, AbsenceAssumption
      <4> QED
        BY <3>1, <4>1, <4>2, <4>3, <4>4, <4>7, <4>8 DEF FlowOk
    <3>4. CASE Sent(session') = Sent(session)
      <4>0. session'.flow = session.flow
        BY <3>4 DEF Sent
      <4>d. ASSUME threads[r].arg.id \in SendIds, sends[threads[r].arg.id].st = "done", ~may_publish(r)
            PROVE  sends'[threads[r].arg.id].st = "done"
        <5>1. sends[threads[r].arg.id].p = session.p
          <6>1. threads[r].arg.id # NoOne
            BY <4>d, AbsenceAssumption
          <6> QED
            BY <2>0, <2>3, <3>1, <6>1 DEF Ids, Ours, receiver
        <5> QED
          BY <1>1, <2>3, <3>1, <4>d, <5>1, DoneStays
      <4>c. threads[r].arg.done => ~may_publish(r) /\ threads[r].arg.id \in SendIds
        BY <3>2 DEF may_publish, runs, Tidy, Sending
      <4>1. CASE threads'[r] = threads[r] \/ Popped(r)
        <5>1. /\ threads'[r].kind = threads[r].kind /\ threads'[r].arg = threads[r].arg /\ threads'[r].pc = threads[r].pc
              /\ Said(threads'[r].ch) \subseteq Said(threads[r].ch)
          BY <4>1, PopSays
        <5>2. may_publish(r)' <=> may_publish(r)
          BY <5>1 DEF may_publish, runs, alive
        <5>3. Says(r, "Completed") <=> \E x \in Said(threads[r].ch) : x.k = "Completed"
          BY DEF Says, Said
        <5>4. Says(r, "Completed")' <=> \E x \in Said(threads'[r].ch) : x.k = "Completed"
          BY DEF Says, Said
        <5> QED
          BY <3>1, <4>0, <4>c, <4>d, <5>1, <5>2, <5>3, <5>4 DEF FlowOk
      <4>2. CASE WorkerStep(r)
        <5>1. SendTold(r) /\ alive(r)
          BY <3>2, <4>2, Telling
        <5>2. PICK es, pc : Tells(r, es, pc)
          BY <5>1 DEF SendTold
        <5>3. may_publish(r)' => may_publish(r)
          BY <5>1, <5>2 DEF Tells, may_publish, runs
        <5>4. Says(r, "Completed") <=> \E x \in Said(threads[r].ch) : x.k = "Completed"
          BY DEF Says, Said
        <5>5. Says(r, "Completed")' <=> \E x \in Said(threads'[r].ch) : x.k = "Completed"
          BY DEF Says, Said
        <5>6. ~may_publish(r) => SameSend(r)
          BY <5>1 DEF SendTold, may_publish, runs
        <5>7. ASSUME Says(r, "Completed")', ~Says(r, "Completed")
              PROVE  ~may_publish(r)' /\ threads'[r].arg.id \in SendIds /\ sends'[threads'[r].arg.id].st = "done"
          <6>1. \/ Tells(r, Already, "ended") /\ SameSend(r) /\ threads[r].arg.done
                \/ publish(r, "done") /\ Tells(r, Landing, "ended") /\ SameSend(r)
            <7>1. ASSUME NEW es1, NEW pc1, Tells(r, es1, pc1), \A x \in Said(es1) : x.k # "Completed"
                  PROVE  FALSE
              BY <5>4, <5>5, <5>7, <7>1 DEF Tells
            <7>2. \A k \in Events, i \in Plan \cup SendIds \cup {NoOne} : Ev(k, i).k = k
              BY Words
            <7>3. /\ \A x \in Said(Failing) : x.k # "Completed"
                  /\ \A x \in Said(Stopping) : x.k # "Completed"
                  /\ \A x \in Said(Proving) : x.k # "Completed"
                  /\ \A x \in Said(publish_started) : x.k # "Completed"
              BY SendWords DEF Ev
            <7>4. \A id \in SendIds : \A x \in Said(Saving(id)) : x.k # "Completed"
              BY SendWords DEF Ev
            <7> QED
              BY <5>1, <7>1, <7>3, <7>4 DEF SendTold
          <6>2. threads'[r].pc = "ended" /\ SameSend(r)
            BY <6>1 DEF Tells
          <6>3. CASE threads[r].arg.done
            BY <3>1, <4>c, <4>d, <6>2, <6>3 DEF FlowOk, SameSend, may_publish, runs, alive
          <6>4. CASE publish(r, "done")
            <7>1. threads[r].arg.id \in SendIds
              BY <6>4 DEF publish, Tidy
            <7>2. sends' = [sends EXCEPT ![threads[r].arg.id].st = "done"]
              BY <6>4 DEF publish
            <7>3. sends'[threads[r].arg.id].st = "done"
              BY <7>1, <7>2 DEF Typed, DiskTyped, SendFile
            <7> QED
              BY <6>2, <7>1, <7>3 DEF SameSend, may_publish, runs, alive
          <6> QED
            BY <6>1, <6>3, <6>4
        <5>8. threads'[r].arg.done => threads[r].arg.done
          BY <5>2 DEF Tells
        <5>9. session'.flow.published \/ Says(r, "Completed") =>
                ~may_publish(r)' /\ threads'[r].arg.id \in SendIds /\ sends'[threads'[r].arg.id].st = "done"
          BY <3>1, <4>0, <4>d, <5>3, <5>6 DEF FlowOk, SameSend
        <5>10. threads'[r].arg.done => sends'[threads'[r].arg.id].st = "done"
          BY <3>1, <4>c, <4>d, <5>6, <5>8 DEF FlowOk, SameSend
        <5> QED
          BY <3>1, <4>0, <5>7, <5>9, <5>10 DEF FlowOk
      <4> QED
        BY <3>2, <4>1, <4>2
    <3> QED
      BY <2>3, <3>3, <3>4
  <2> QED
    BY <1>1, <2>0, <2>1, <2>2, <2>3, SendKept
<1>2. ASSUME open', session'.send_rx # NoRx
      PROVE  session'.send_rx \in Slots
  BY <1>2, SendKept
<1>3. ASSUME open', session'.send_rx # NoRx
      PROVE  /\ session'.flow # NoOne /\ ~session'.flow.error /\ \A i \in Plan : session'.flow.steps[i] # "Failed"
             /\ session'.flow.published \/ Says(session.send_rx, "Completed")' =>
                  /\ ~may_publish(session.send_rx)'
                  /\ receiver'.arg.id \in SendIds /\ sends'[receiver'.arg.id].st = "done"
             /\ receiver'.arg.done => sends'[receiver'.arg.id].st = "done"
  <2>1. PICK r \in Slots : r = session'.send_rx
    BY <1>2, <1>3
  <2>2. FlowOk(r)'
    BY <1>1, <1>3, <2>1
  <2> QED
    BY <2>1, <2>2 DEF FlowOk, Says, may_publish, runs, alive, receiver
<1> QED
  BY <1>3 DEF Flows

-----------------------------------------------------------------------------
(* No interrupted send is forgotten. *)

(* The send a worker listened to works on is the same, before and after.     *)
LEMMA SameId ==
  ASSUME Typed, Own, Tidy, Framed, Ids, Offered, Next, open, open', NEW r \in Slots, r = session.send_rx,
         session'.send_rx = session.send_rx
  PROVE  /\ threads[r].arg.id \in SendIds => threads'[r].arg.id = threads[r].arg.id
         /\ threads'[r].kind = "send" /\ threads'[r].pc \in {"begin", "prove"} => threads'[r].arg.id = NoOne
<1>1. /\ r # NoRx /\ held(r) /\ threads[r].kind \in Sending
      /\ threads'[r] = threads[r] \/ Popped(r) \/ WorkerStep(r)
  <2>1. r # NoRx
    BY GuiAssumption DEF Slots, NoRx
  <2> QED
    BY <2>1, Listening
<1>2. threads[r].kind = "send" /\ threads[r].pc \in {"begin", "prove"} => threads[r].arg.id = NoOne
  BY <1>1 DEF Offered, receiver
<1>3. CASE threads'[r] = threads[r]
  BY <1>2, <1>3
<1>4. CASE Popped(r)
  BY <1>2, <1>4, PopSays
<1>5. CASE WorkerStep(r)
  <2>1. SendTold(r)
    BY <1>1, <1>5, Telling
  <2>2. ASSUME NEW id \in SendIds, threads[r].pc = "prove", threads[r].kind = "send"
        PROVE  threads[r].arg.id \notin SendIds
    BY <1>2, <2>2, AbsenceAssumption
  <2> QED
    BY <1>2, <2>1, <2>2 DEF SendTold, Tells, SameSend
<1> QED
  BY <1>1, <1>3, <1>4, <1>5

LEMMA OfferedStays ==
  ASSUME Typed, Own, Tidy, Framed, Ids, Orphans, Flows, Offered, Next
  PROVE  Offered'
<1>i. \A p, id : id \in incomplete(p) <=> id \in SendIds /\ sends[id] = [p |-> p, st |-> "pending"]
  BY DEF incomplete
<1>j. \A p, id : id \in incomplete(p)' <=> id \in SendIds /\ sends'[id] = [p |-> p, st |-> "pending"]
  BY DEF incomplete
<1>a. ASSUME NEW p, NEW id, id \in incomplete(p)', ~Saved(id)
      PROVE  id \in incomplete(p) /\ id \in SendIds
  <2>1. id \in SendIds /\ sends'[id] = [p |-> p, st |-> "pending"]
    BY <1>a, <1>j
  <2>2. ~Published(id)
    BY <2>1 DEF Published, Typed, DiskTyped, SendFile
  <2>3. ~Erased(id)
    BY <2>1 DEF Erased, NoFile
  <2> QED
    BY <1>a, <1>i, <2>1, <2>2, <2>3, Files
<1>b. ASSUME NEW id \in SendIds, Saved(id)
      PROVE  /\ open /\ session' = session /\ session.send_rx \in Slots /\ session.send_rx # NoRx
             /\ threads'[session.send_rx].arg.id = id
  <2>1. PICK s \in Slots : prove_and_save(s, id)
    BY <1>b DEF Saved
  <2>2. open /\ s = session.send_rx /\ threads[s].kind = "send" /\ session' = session
    BY <2>1, Saver DEF prove_and_save
  <2>3. threads[s].arg \in Resuming
    BY <2>2 DEF Tidy, Sending
  <2>4. threads'[s].arg.id = id
    BY <2>1, <2>3, SavedDoes DEF Typed
  <2>5. s # NoRx
    BY GuiAssumption DEF Slots, NoRx
  <2> QED
    BY <2>2, <2>4, <2>5
<1>n. \A s \in Slots : s # NoRx
  BY GuiAssumption DEF Slots, NoRx
<1>1. ASSUME open', NEW p \in Profiles, p = session'.p, NEW id, id \in incomplete(p)'
      PROVE  \/ id \in session'.pending \cup session'.dismissed
             \/ session'.send_rx # NoRx /\ id = threads'[session'.send_rx].arg.id
  <2>0. id \in SendIds
    BY <1>1, <1>j
  <2>1. CASE Saved(id)
    BY <1>b, <2>0, <2>1
  <2>2. CASE ~Saved(id) /\ Anew
    <3>1. PICK q \in Profiles : session' = NewSession(q)
      BY <2>2 DEF Anew
    <3>2. session'.p = q /\ session'.pending = incomplete(q)
      BY <3>1, News
    <3> QED
      BY <1>1, <1>a, <2>2, <3>2
  <2>3. CASE ~Saved(id) /\ ~Anew
    <3>1. open /\ session'.p = session.p /\ (Sent(session') = Sent(session) \/ SendAction)
      BY <1>1, <2>3, Stays
    <3>2. id \in incomplete(session.p) /\ sends[id].st = "pending"
      <4>1. id \in incomplete(p) /\ p = session.p
        BY <1>1, <1>a, <2>3, <3>1
      <4>2. sends[id] = [p |-> p, st |-> "pending"]
        BY <1>i, <4>1
      <4> QED
        BY <4>1, <4>2
    <3>3. id \in session.pending \cup session.dismissed \/ (session.send_rx # NoRx /\ id = receiver.arg.id)
      BY <3>1, <3>2 DEF Offered
    <3>4. session.send_rx # NoRx => session.send_rx \in Slots
      BY <3>1, Shown DEF ProfileSession, Rx
    <3>5. ASSUME session'.send_rx = session.send_rx, session.send_rx # NoRx, id = receiver.arg.id
          PROVE  id = threads'[session'.send_rx].arg.id
      <4>1. PICK r \in Slots : r = session.send_rx
        BY <3>4, <3>5
      <4>2. threads[r].arg.id = id
        BY <3>5, <4>1 DEF receiver
      <4>3. threads'[r].arg.id = threads[r].arg.id
        BY <1>1, <2>0, <3>1, <3>5, <4>1, <4>2, SameId
      <4> QED
        BY <3>5, <4>1, <4>2, <4>3
    <3>6. ASSUME session'.send_rx = session.send_rx, Offers
          PROVE  \/ id \in session'.pending \cup session'.dismissed
                 \/ session'.send_rx # NoRx /\ id = threads'[session'.send_rx].arg.id
      BY <3>3, <3>5, <3>6 DEF Offers
    <3>7. CASE Sent(session') = Sent(session)
      BY <3>6, <3>7 DEF Sent, Offers
    <3>8. CASE SendAction
      <4>1. SendEffect
        BY <3>1, <3>8, SendEffects
      <4>2. ASSUME NEW s \in Slots, Fires(s)
            PROVE  id \in session'.pending \cup session'.dismissed
        BY <3>3, <4>2 DEF Fires, Offers
      <4>3. ASSUME NEW s \in Slots, NEW id2 \in SendIds, Retries(s, id2)
            PROVE  \/ id \in session'.pending \cup session'.dismissed
                   \/ session'.send_rx # NoRx /\ id = threads'[session'.send_rx].arg.id
        <5>1. session.send_rx = NoRx /\ session'.send_rx = s /\ threads'[s].arg.id = id2
          BY <4>3, BornAs DEF Retries, Resumes
        <5>2. id \in session'.pending \cup session'.dismissed \/ id = id2
          BY <3>3, <4>3, <5>1 DEF Retries
        <5> QED
          BY <1>n, <5>1, <5>2
      <4>4. ASSUME NEW id2 \in SendIds, GivesUp(id2)
            PROVE  id \in session'.pending \cup session'.dismissed
        <5>1. dirs[session.p].place = "live"
          BY <1>1, <3>1, AbsenceAssumption DEF Framed, Live
        <5>2. id # id2
          BY <3>2, <4>4, <5>1 DEF GivesUp
        <5> QED
          BY <3>3, <4>4, <5>2 DEF GivesUp
      <4>5. CASE Dismisses
        BY <3>3, <4>5 DEF Dismisses
      <4>6. CASE EditsAgain
        <5>1. session.send_rx = NoRx
          BY <3>1, <4>6 DEF EditsAgain, Flows, failed
        <5> QED
          BY <3>3, <4>6, <5>1 DEF EditsAgain, Offers
      <4>7. CASE WritesAnother
        <5>1. session.send_rx # NoRx => id # receiver.arg.id
          BY <3>1, <3>2, <4>7 DEF WritesAnother, Flows
        <5> QED
          BY <3>3, <4>7, <5>1 DEF WritesAnother, Offers
      <4>8. CASE poll_send_worker
        <5>1. /\ session'.dismissed = session.dismissed
              /\ session'.pending = incomplete(session.p)
                 \/ (session'.send_rx = session.send_rx /\ session'.pending = session.pending)
          BY <4>8, SendPolls
        <5> QED
          BY <3>2, <3>6, <5>1 DEF Offers
      <4> QED
        BY <3>6, <4>1, <4>2, <4>3, <4>4, <4>5, <4>6, <4>7, <4>8 DEF SendEffect, Sent, Offers
    <3> QED
      BY <3>1, <3>7, <3>8
  <2> QED
    BY <2>1, <2>2, <2>3
<1>2. ASSUME open', session'.send_rx # NoRx, NEW r \in Slots, r = session'.send_rx,
             threads'[r].kind = "send", threads'[r].pc \in {"begin", "prove"}
      PROVE  threads'[r].arg.id = NoOne
  <2>1. CASE Fires(r)
    BY <2>1, BornAs DEF Fires
  <2>2. ASSUME NEW id \in SendIds, Retries(r, id)
        PROVE  FALSE
    BY <1>2, <2>2, BornAs DEF Retries, Resumes
  <2>3. CASE open /\ session'.send_rx = session.send_rx
    BY <1>2, <2>3, SameId
  <2> QED
    BY <1>2, <2>1, <2>2, <2>3, SendKept
<1>3. open' => session'.p \in Profiles
  BY TypedStays DEF Typed, WindowTyped, open, ProfileSession
<1>4. ASSUME open'
      PROVE  /\ \A id \in incomplete(session.p)' :
                  \/ id \in session'.pending \cup session'.dismissed
                  \/ session'.send_rx # NoRx /\ id = threads'[session'.send_rx].arg.id
             /\ session'.send_rx # NoRx /\ threads'[session'.send_rx].kind = "send"
                  /\ threads'[session'.send_rx].pc \in {"begin", "prove"} => threads'[session'.send_rx].arg.id = NoOne
  <2>1. PICK p \in Profiles : p = session'.p
    BY <1>3, <1>4
  <2>2. incomplete(session.p)' = incomplete(p)'
    BY <2>1 DEF incomplete
  <2>3. session'.send_rx # NoRx => session'.send_rx \in Slots
    BY <1>4, SendKept
  <2> QED
    BY <1>1, <1>2, <1>4, <2>1, <2>2, <2>3
<1> QED
  BY <1>4 DEF Offered, receiver

-----------------------------------------------------------------------------
(* A send that failed leaves a way on. *)

(* A failure is what a worker says last.                                     *)
LEMMA Closings ==
  /\ Closed(<<>>)
  /\ \A a \in Seq(Event) : a # <<>> /\ Closed(a) => Closed(Tail(a))
  /\ \A a, b \in Seq(Event) : (\A e \in Said(a) : e.k # "Err") /\ Closed(b) => Closed(a \o b)
  /\ \A a \in Seq(Event) : (\A e \in Said(a) : e.k # "Err") => Closed(a)
  /\ \A d, e \in Event : Closed(<<d>>) /\ (d.k # "Err" => Closed(<<d, e>>))
  /\ \A a \in Seq(Event) : a # <<>> /\ Closed(a) /\ Head(a).k = "Err" => Said(a) = {Head(a)}
<1>1. Closed(<<>>)
  BY DEF Closed
<1>2. ASSUME NEW a \in Seq(Event), a # <<>>, Closed(a)
      PROVE  Closed(Tail(a))
  <2>1. Len(Tail(a)) = Len(a) - 1 /\ Len(a) \in Nat
    BY <1>2, HeadTailProperties
  <2>2. \A i \in 1..Len(Tail(a)) : i + 1 \in 1..Len(a) /\ Tail(a)[i] = a[i + 1]
    BY <1>2, Tailed
  <2>3. ASSUME NEW i \in 1..Len(Tail(a)), Tail(a)[i].k = "Err"
        PROVE  i = Len(Tail(a))
    <3>1. i + 1 = Len(a)
      BY <1>2, <2>2, <2>3 DEF Closed
    <3> QED
      BY <2>1, <3>1
  <2> QED
    BY <2>3 DEF Closed
<1>3. ASSUME NEW a \in Seq(Event), NEW b \in Seq(Event), \A e \in Said(a) : e.k # "Err", Closed(b)
      PROVE  Closed(a \o b)
  <2>1. /\ Len(a \o b) = Len(a) + Len(b) /\ Len(a) \in Nat /\ Len(b) \in Nat
        /\ \A i \in 1..Len(a \o b) : (i \in 1..Len(a) /\ (a \o b)[i] = a[i])
                                      \/ (\E j \in 1..Len(b) : i = Len(a) + j /\ (a \o b)[i] = b[j])
    BY Appended, LenProperties
  <2>2. ASSUME NEW i \in 1..Len(a \o b), (a \o b)[i].k = "Err"
        PROVE  i = Len(a \o b)
    <3>1. ~(i \in 1..Len(a) /\ (a \o b)[i] = a[i])
      BY <1>3, <2>2 DEF Said
    <3>2. PICK j \in 1..Len(b) : i = Len(a) + j /\ (a \o b)[i] = b[j]
      BY <2>1, <3>1
    <3>3. j = Len(b)
      BY <1>3, <2>2, <3>2 DEF Closed
    <3> QED
      BY <2>1, <3>2, <3>3
  <2> QED
    BY <2>2 DEF Closed
<1>4. ASSUME NEW a \in Seq(Event), \A e \in Said(a) : e.k # "Err"
      PROVE  Closed(a)
  BY <1>4 DEF Closed, Said
<1>5. ASSUME NEW d \in Event, NEW e \in Event
      PROVE  Closed(<<d>>) /\ (d.k # "Err" => Closed(<<d, e>>))
  <2>1. Len(<<d>>) = 1 /\ Len(<<d, e>>) = 2 /\ <<d, e>>[1] = d
    OBVIOUS
  <2>2. 1..1 = {1} /\ 1..2 = {1, 2}
    OBVIOUS
  <2> QED
    BY <2>1, <2>2 DEF Closed
<1>6. ASSUME NEW a \in Seq(Event), a # <<>>, Closed(a), Head(a).k = "Err"
      PROVE  Said(a) = {Head(a)}
  <2>1. 1 \in 1..Len(a) /\ Head(a) = a[1]
    BY <1>6, Tailed
  <2>2. Len(a) = 1
    BY <1>6, <2>1 DEF Closed
  <2>3. \A i \in 1..Len(a) : i = 1
    BY <2>2
  <2> QED
    BY <2>1, <2>3 DEF Said
<1> QED
  BY <1>1, <1>2, <1>3, <1>4, <1>5, <1>6

LEMMA LastWords ==
  /\ Closed(Failing) /\ Closed(Stopping) /\ Closed(Proving) /\ Closed(Already) /\ Closed(Landing) /\ Closed(publish_started)
  /\ \A id \in SendIds : Closed(Saving(id))
<1>1. \A k \in Events, i \in Plan \cup SendIds \cup {NoOne} : Ev(k, i) \in Event /\ Ev(k, i).k = k
  BY Words
<1>2. Ev("Started", 1) \in Event /\ Ev("Started", 1).k # "Err"
  BY <1>1 DEF Events, Plan
<1>3. Done(FALSE) \in Event
  BY Words
<1>4. Closed(Failing)
  BY <1>3, Closings DEF Failing
<1>5. Closed(Stopping)
  BY <1>2, <1>3, Closings DEF Stopping
<1>6. ASSUME NEW a \in Seq(Event), \A e \in Said(a) : e.k # "Err"
      PROVE  Closed(a)
  BY <1>6, Closings
<1>7. Closed(Proving) /\ Closed(Already) /\ Closed(Landing) /\ Closed(publish_started)
  <2>1. Closed(Proving)
    BY <1>6, SendWords DEF Ev
  <2>2. Closed(Already)
    BY <1>6, SendWords DEF Ev
  <2>3. Closed(Landing)
    BY <1>6, SendWords DEF Ev
  <2>4. Closed(publish_started)
    BY <1>6, SendWords DEF Ev
  <2> QED
    BY <2>1, <2>2, <2>3, <2>4
<1>8. \A id \in SendIds : Closed(Saving(id))
  BY <1>6, SendWords DEF Ev
<1> QED
  BY <1>4, <1>5, <1>7, <1>8

(* Reading a word that is not the last leaves the same steps open.           *)
LEMMA WayPops ==
  ASSUME NEW flow \in SendFlow, NEW e \in Event, e.k \notin {"Ok", "Err"}, NEW t, NEW u,
         Way(flow, t), t.ch \in Seq(Event), t.ch # <<>>, e = Head(t.ch), u.ch = Tail(t.ch),
         u.kind = t.kind, u.pc = t.pc, u.arg = t.arg, t.arg.done => flow.published,
         t.pc \in {"begin", "prove", "publish"} => e.k # "Completed"
  PROVE  Way(apply(flow, e), u)
<1>s. Said(t.ch) = {e} \cup Said(u.ch)
  BY SaidBy
<1>f. flow.steps \in [Plan -> StepStatus] /\ apply(flow, e) \in SendFlow
  BY ChecklistTyped DEF SendFlow
<1>p. {1, 2, 3} \subseteq Plan
  BY Words
<1>e. ASSUME NEW k, e.k = k
      PROVE  e = Ev(k, e.i)
  BY <1>e DEF Event, Ev
<1>1. ASSUME NEW i \in Plan, Untouched(flow, t.ch, i), e.k # "Completed"
      PROVE  /\ Untouched(apply(flow, e), u.ch, i)
             /\ flow.steps[i] = "Running" \/ e = Ev("Started", i) => apply(flow, e).steps[i] = "Running"
  <2>0. flow.steps[i] # "Done" /\ Ev("StepCompleted", i) \notin Said(t.ch)
    BY <1>1 DEF Untouched
  <2>1. CASE e.k = "Started"
    <3>1. apply(flow, e) = set_pending(flow, e.i, "Running")
      BY <2>1 DEF apply
    <3>2. apply(flow, e).steps[i] = flow.steps[i] \/ apply(flow, e).steps[i] = "Running"
      BY <3>1 DEF set_pending, SendFlow
    <3>3. e = Ev("Started", i) => apply(flow, e).steps[i] = "Running"
      BY <2>0, <3>1 DEF set_pending, SendFlow, Ev
    <3> QED
      BY <1>s, <2>0, <3>2, <3>3 DEF Untouched
  <2>2. CASE e.k = "StepCompleted"
    <3>1. apply(flow, e) = set_pending(flow, e.i, "Done")
      BY <2>2 DEF apply
    <3>2. e.i # i
      BY <1>e, <1>s, <2>0, <2>2
    <3>3. apply(flow, e).steps[i] = flow.steps[i]
      BY <3>1, <3>2 DEF set_pending, SendFlow
    <3> QED
      BY <1>s, <2>0, <2>2, <3>3 DEF Untouched, Ev
  <2>3. CASE e.k \notin {"Started", "StepCompleted"}
    <3>1. apply(flow, e) = flow
      BY <1>1, <2>3 DEF apply
    <3> QED
      BY <1>s, <2>0, <2>3, <3>1 DEF Untouched, Ev
  <2> QED
    BY <2>1, <2>2, <2>3
<1>2. ASSUME NEW i \in Plan, Open(flow, t.ch, i), e.k # "Completed"
      PROVE  Open(apply(flow, e), u.ch, i)
  BY <1>1, <1>2, <1>s DEF Open
<1>3. flow.published => apply(flow, e).published
  <2>1. \A i, st : set_pending(flow, i, st).published = flow.published
    BY DEF set_pending, SendFlow
  <2>2. e.k = "Completed" => apply(flow, e).published
    BY DEF apply, SendFlow
  <2>3. CASE e.k \notin {"Started", "StepCompleted", "Completed"}
    BY <2>3 DEF apply
  <2>4. CASE e.k \in {"Started", "StepCompleted"}
    BY <2>1, <2>4 DEF apply
  <2> QED
    BY <2>2, <2>3, <2>4
<1>4. Closed(u.ch) /\ t.pc # "begin"
  BY Closings DEF Way
<1>5. t.pc \in {"begin", "prove", "publish"} /\ ~t.arg.done => Untouched(apply(flow, e), u.ch, 3)
  BY <1>1, <1>p DEF Way
<1>6. t.pc = "prove" => Open(apply(flow, e), u.ch, 2)
  BY <1>2, <1>p DEF Way
<1>7. t.pc = "publish" => Open(apply(flow, e), u.ch, 3)
  BY <1>2, <1>p DEF Way
<1>8. ASSUME \E x \in Said(u.ch) : x.k = "Err"
      PROVE  /\ \A x \in Said(u.ch) : x.k # "Completed"
             /\ apply(flow, e).published \/ \E i \in Plan : Open(apply(flow, e), u.ch, i)
  <2>1. /\ \A x \in Said(t.ch) : x.k # "Completed"
        /\ flow.published \/ \E i \in Plan : Open(flow, t.ch, i)
    BY <1>8, <1>s DEF Way
  <2>2. e.k # "Completed"
    BY <1>s, <2>1
  <2> QED
    BY <1>2, <1>3, <1>s, <2>1, <2>2
<1> QED
  BY <1>3, <1>4, <1>5, <1>6, <1>7, <1>8 DEF Way

(* Whatever a worker does next.                                              *)
LEMMA WayTold ==
  ASSUME Typed, Own, Tidy, Framed, Fresh, Ids, Flows, Recoverable, open, NEW r \in Slots, r = session.send_rx, SendTold(r), alive(r)
  PROVE  Way(session.flow, threads'[r])
<1> DEFINE flow == session.flow
           t    == threads[r]
           u    == threads'[r]
<1>0. /\ Way(flow, t) /\ t.kind \in Sending /\ t.p = session.p /\ t.p \in Profiles /\ t.ch \in Seq(Event)
      /\ t.pc \in {"begin", "prove", "publish"}
  <2>1. r # NoRx
    BY GuiAssumption DEF Slots, NoRx
  <2>2. Way(flow, t) /\ t.kind \in Sending /\ t.p = session.p
    BY <2>1 DEF Recoverable, receiver, Own
  <2>3. t \in Thread
    BY DEF Typed, ThreadsTyped
  <2> QED
    BY <2>2, <2>3, Shown DEF Thread, alive, ProfileSession
<1>1. \A e \in Said(t.ch) : e.k \notin {"Ok", "Err", "Completed"}
  <2>1. ~Says(r, "Ok") /\ ~Says(r, "Err") /\ ~Says(r, "Completed")
    BY <1>0 DEF Tidy
  <2> QED
    BY <2>1, SaidBy
<1>2. ASSUME NEW es \in Seq(Event), NEW pc, Tells(r, es, pc), Closed(es)
      PROVE  /\ Closed(u.ch) /\ u.pc = pc /\ u.kind = t.kind /\ u.arg.done = t.arg.done
             /\ Said(u.ch) = Said(t.ch) \cup Said(es)
  BY <1>0, <1>1, <1>2, Closings DEF Tells
<1>p. {1, 2, 3} \subseteq Plan
  BY Words
<1>d. t.arg.done => flow.published
  BY <1>0 DEF Way
<1>k. \A k, i : Ev(k, i).k = k
  BY DEF Ev
<1>v. t.pc = "begin" /\ t.kind = "send" => /\ Said(t.ch) = {} /\ ~t.arg.done
                                           /\ \A i \in Plan : flow.steps[i] = "Pending"
  BY <1>0, SaidBy DEF Way, virtual_plan, Tidy
<1>3. CASE Tells(r, Failing, "ended") /\ (t.pc \in {"prove", "publish"} \/ (t.pc = "begin" /\ ~routes(t.p)))
  <2>1. Closed(u.ch) /\ u.pc = "ended" /\ u.arg.done = t.arg.done /\ Said(u.ch) = Said(t.ch) \cup {Ev("Err", NoOne)}
    BY <1>2, <1>3, SendWords, LastWords
  <2>2. ASSUME NEW i \in Plan, Open(flow, t.ch, i)
        PROVE  Open(flow, u.ch, i)
    BY <2>1, <2>2 DEF Open, Untouched, Ev
  <2>5. ASSUME t.pc = "begin", ~routes(t.p)
        PROVE  FALSE
    <3>1. dirs[t.p].place = "live"
      BY <1>0, AbsenceAssumption DEF Framed, Live
    <3>2. dirs[t.p].store = "old"
      BY <1>0, <2>5, <3>1 DEF routes, Typed, DiskTyped, Dir
    <3>3. t.kind = "resume"
      BY <1>0, <3>2 DEF Fresh, Sending
    <3>4. t.arg.id \in SendIds
      BY <3>3 DEF Tidy
    <3>5. t.arg.id # NoOne
      BY <3>4, AbsenceAssumption
    <3>7. r # NoRx
      BY GuiAssumption DEF Slots, NoRx
    <3>6. sends[t.arg.id].p = session.p
      BY <3>5, <3>7 DEF Ids, Ours, receiver
    <3> QED
      BY <1>0, <3>2, <3>4, <3>6 DEF Recoverable
  <2>6. \E i \in Plan : Open(flow, u.ch, i)
    <3>1. CASE t.pc = "prove"
      BY <1>0, <1>p, <2>2, <3>1 DEF Way
    <3>2. CASE t.pc = "publish"
      BY <1>0, <1>p, <2>2, <3>2 DEF Way
    <3> QED
      BY <1>3, <2>5, <3>1, <3>2
  <2>7. \A e \in Said(u.ch) : e.k # "Completed"
    BY <1>1, <1>k, <2>1
  <2> QED
    BY <1>d, <2>1, <2>6, <2>7 DEF Way
<1>4. CASE Tells(r, Stopping, "ended") /\ t.pc = "begin" /\ t.kind = "send"
  <2>1. Closed(u.ch) /\ u.pc = "ended" /\ u.arg.done = t.arg.done /\ Said(u.ch) = Said(t.ch) \cup {Ev("Started", 1), Ev("Err", NoOne)}
    BY <1>2, <1>4, SendWords, LastWords
  <2>2. Open(flow, u.ch, 1)
    BY <1>4, <1>p, <1>v, <2>1 DEF Open, Untouched, Ev
  <2>3. \A e \in Said(u.ch) : e.k # "Completed"
    BY <1>1, <1>k, <2>1
  <2> QED
    BY <1>d, <1>p, <2>1, <2>2, <2>3 DEF Way
<1>5. CASE Tells(r, Proving, "prove") /\ t.pc = "begin" /\ t.kind = "send"
  <2>1. /\ Closed(u.ch) /\ u.pc = "prove" /\ u.arg.done = t.arg.done
        /\ Said(u.ch) = Said(t.ch) \cup {Ev("Started", 1), Ev("StepCompleted", 1), Ev("Started", 2)}
    BY <1>2, <1>5, SendWords, LastWords
  <2>2. Open(flow, u.ch, 2) /\ Untouched(flow, u.ch, 3)
    BY <1>5, <1>p, <1>v, <2>1 DEF Open, Untouched, Ev
  <2>3. \A e \in Said(u.ch) : e.k # "Err"
    BY <1>1, <1>k, <2>1
  <2> QED
    BY <1>d, <2>1, <2>2, <2>3 DEF Way
<1>6. CASE Tells(r, Already, "ended")
  <2>1. /\ Closed(u.ch) /\ u.pc = "ended" /\ u.arg.done = t.arg.done
        /\ Said(u.ch) = Said(t.ch) \cup {Ev("Completed", NoOne), Ev("Ok", NoOne)}
    BY <1>2, <1>6, SendWords, LastWords
  <2>3. \A e \in Said(u.ch) : e.k # "Err"
    BY <1>1, <1>k, <2>1
  <2> QED
    BY <1>d, <2>1, <2>3 DEF Way
<1>7. CASE Tells(r, publish_started, "publish") /\ ~t.arg.done
  <2>1. /\ Closed(u.ch) /\ u.pc = "publish" /\ u.arg.done = t.arg.done
        /\ Said(u.ch) = Said(t.ch) \cup {Ev("Started", 3)}
    BY <1>2, <1>7, SendWords, LastWords
  <2>2. Open(flow, u.ch, 3) /\ Untouched(flow, u.ch, 3)
    BY <1>0, <1>7, <2>1 DEF Way, Open, Untouched, Ev
  <2>3. \A e \in Said(u.ch) : e.k # "Err"
    BY <1>1, <1>k, <2>1
  <2> QED
    BY <1>d, <2>1, <2>2, <2>3 DEF Way
<1>8. ASSUME NEW id \in SendIds, Tells(r, Saving(id), "publish"), t.kind = "send"
      PROVE  Way(flow, u)
  <2>0. ~t.arg.done
    BY <1>8 DEF Tidy
  <2>1. /\ Closed(u.ch) /\ u.pc = "publish" /\ u.arg.done = t.arg.done
        /\ Said(u.ch) = Said(t.ch) \cup {Ev("Checkpointed", id), Ev("StepCompleted", 2), Ev("Started", 3)}
    BY <1>2, <1>8, SendWords, LastWords
  <2>2. Open(flow, u.ch, 3) /\ Untouched(flow, u.ch, 3)
    BY <1>0, <2>0, <2>1 DEF Way, Open, Untouched, Ev
  <2>3. \A e \in Said(u.ch) : e.k # "Err"
    BY <1>1, <1>k, <2>1
  <2> QED
    BY <1>d, <2>1, <2>2, <2>3 DEF Way
<1>9. CASE Tells(r, Landing, "ended")
  <2>1. /\ Closed(u.ch) /\ u.pc = "ended" /\ u.arg.done = t.arg.done
        /\ Said(u.ch) = Said(t.ch) \cup {Ev("StepCompleted", 3), Ev("Completed", NoOne), Ev("Ok", NoOne)}
    BY <1>2, <1>9, SendWords, LastWords
  <2>3. \A e \in Said(u.ch) : e.k # "Err"
    BY <1>1, <1>k, <2>1
  <2> QED
    BY <1>d, <2>1, <2>3 DEF Way
<1> QED
  BY <1>3, <1>4, <1>5, <1>6, <1>7, <1>8, <1>9 DEF SendTold

LEMMA RecoverableStays ==
  ASSUME Typed, Own, Tidy, Framed, Fresh, Ids, Orphans, Flows, Recoverable, Next
  PROVE  Recoverable'
<1>n. \A s \in Slots : s # NoRx
  BY GuiAssumption DEF Slots, NoRx
<1>1. ASSUME NEW p \in Profiles, dirs'[p].store = "old", NEW id \in SendIds, sends'[id].p = p
      PROVE  FALSE
  <2>1. dirs[p].store = "old"
    BY <1>1, DirSteps DEF SameDir, Advances
  <2>2. sends[id].p # p
    BY <2>1 DEF Recoverable
  <2>3. ~Saved(id)
    <3>1. ASSUME NEW s \in Slots, prove_and_save(s, id), sends'[id] = [p |-> threads[s].p, st |-> "pending"]
          PROVE  FALSE
      <4>1. threads[s].kind = "send" /\ threads[s].p = p
        BY <1>1, <3>1 DEF prove_and_save, Tidy
      <4> QED
        BY <2>1, <4>1 DEF Fresh, Sending
    <3> QED
      BY <3>1 DEF Saved
  <2>4. ~Published(id)
    BY <1>1, <2>2 DEF Published, Typed, DiskTyped, SendFile
  <2>5. ~Erased(id)
    <3>1. NoOne \notin Profiles /\ NoFile.p = NoOne
      BY AbsenceAssumption DEF NoFile
    <3> QED
      BY <1>1, <3>1 DEF Erased
  <2> QED
    BY <1>1, <2>2, <2>3, <2>4, <2>5, Files
<1>2. ASSUME open', session'.send_rx # NoRx, NEW r \in Slots, r = session'.send_rx
      PROVE  Way(session'.flow, threads'[r])
  <2>1. CASE Fires(r)
    <3>1. /\ threads'[r].kind = "send" /\ threads'[r].arg = [id |-> NoOne, done |-> FALSE] /\ threads'[r].pc = "begin"
          /\ threads'[r].ch = <<>> /\ session'.flow = virtual_plan
      BY <2>1, BornAs DEF Fires
    <3>2. Untouched(virtual_plan, <<>>, 3)
      BY SaidBy, Words DEF Untouched, virtual_plan
    <3>3. Closed(<<>>) /\ Said(<<>>) = {}
      BY Closings, SaidBy
    <3> QED
      BY <3>1, <3>2, <3>3 DEF Way
  <2>2. ASSUME NEW id \in SendIds, Retries(r, id)
        PROVE  Way(session'.flow, threads'[r])
    <3>1. /\ threads'[r].kind = "resume" /\ threads'[r].arg = [id |-> id, done |-> sends[id].st = "done"]
          /\ threads'[r].pc = "begin" /\ threads'[r].ch = <<>> /\ session'.flow = from_state(id)
      BY <2>2, BornAs DEF Retries, Resumes
    <3>2. threads'[r].arg.done = (sends[id].st = "done")
      BY <3>1
    <3>3. from_state(id).published = (sends[id].st = "done")
      BY DEF from_state
    <3>4. sends[id].st # "done" => Untouched(from_state(id), <<>>, 3)
      BY SaidBy, Words DEF Untouched, from_state
    <3>5. Closed(<<>>) /\ Said(<<>>) = {}
      BY Closings, SaidBy
    <3>6. threads'[r].arg.done => session'.flow.published
      BY <3>1, <3>2, <3>3
    <3>7. ~threads'[r].arg.done => Untouched(session'.flow, <<>>, 3)
      BY <3>1, <3>2, <3>4
    <3> QED
      BY <3>1, <3>5, <3>6, <3>7 DEF Way
  <2>3. CASE open /\ session'.p = session.p /\ session'.send_rx = session.send_rx /\ (poll_send_worker \/ Sent(session') = Sent(session))
    <3>1. /\ r = session.send_rx /\ Way(session.flow, threads[r]) /\ session.flow \in SendFlow /\ threads[r] \in Thread
      <4>1. session.flow # NoOne /\ session \in ProfileSession
        BY <1>2, <2>3, Shown DEF Flows
      <4> QED
        BY <1>2, <2>3, <4>1 DEF Recoverable, receiver, ProfileSession, Typed, ThreadsTyped
    <3>2. /\ held(r) /\ threads[r].kind \in Sending
          /\ threads'[r] = threads[r] \/ Popped(r) \/ WorkerStep(r)
      BY <1>2, <2>3, <3>1, Listening
    <3>3. CASE poll_send_worker
      <4>1. PICK e \in Event : /\ e = Head(threads[r].ch) /\ e \in Said(threads[r].ch)
                               /\ session'.flow = IF session.flow = NoOne THEN NoOne ELSE apply(session.flow, e)
                               /\ e.k \notin {"Ok", "Err"} /\ Popped(r)
        BY <1>n, <2>3, <3>1, <3>3, SendPolls
      <4>2. session'.flow = apply(session.flow, e)
        BY <2>3, <1>2, <4>1 DEF Flows
      <4>3. /\ threads'[r].kind = threads[r].kind /\ threads'[r].arg = threads[r].arg /\ threads'[r].pc = threads[r].pc
            /\ threads'[r].ch = Tail(threads[r].ch) /\ threads[r].ch # <<>> /\ threads[r].ch \in Seq(Event)
        BY <3>1, <4>1 DEF Popped, Thread
      <4>4. threads[r].pc \in {"begin", "prove", "publish"} => e.k # "Completed"
        <5>1. e.k = "Completed" => Says(r, "Completed")
          BY <4>1, <4>3, SaidBy
        <5> QED
          BY <5>1 DEF Tidy
      <4>5. threads[r].arg.done => session.flow.published
        BY <3>1 DEF Way
      <4>6. ASSUME NEW t, NEW u, t = threads[r], u = threads'[r]
            PROVE  Way(apply(session.flow, e), u)
        BY <3>1, <4>1, <4>3, <4>4, <4>5, <4>6, WayPops
      <4> QED
        BY <4>2, <4>6
    <3>4. CASE Sent(session') = Sent(session) /\ ~poll_send_worker
      <4>1. session'.flow = session.flow
        BY <3>4 DEF Sent
      <4>2. CASE WorkerStep(r)
        BY <2>3, <3>1, <3>2, <4>1, <4>2, Telling, WayTold
      <4> QED
        BY <3>1, <3>2, <3>4, <4>1, <4>2 DEF Popped
    <3> QED
      BY <2>3, <3>3, <3>4
  <2> QED
    BY <1>2, <2>1, <2>2, <2>3, SendKept
<1>3. ASSUME open', session'.send_rx = NoRx, session'.flow # NoOne, session'.flow.error
      PROVE  failed(session'.flow) \/ session'.flow.published
  <2>1. CASE Anew
    <3>1. PICK p \in Profiles : session' = NewSession(p)
      BY <2>1 DEF Anew
    <3> QED
      BY <1>3, <3>1, News
  <2>2. CASE ~Anew
    <3>1. open /\ (Sent(session') = Sent(session) \/ SendAction)
      BY <1>3, <2>2, Stays
    <3>2. CASE session'.send_rx = session.send_rx /\ session'.flow = session.flow
      BY <1>3, <3>1, <3>2 DEF Recoverable
    <3>3. CASE Sent(session') = Sent(session)
      BY <3>2, <3>3 DEF Sent
    <3>4. CASE SendAction
      <4>1. SendEffect
        BY <3>1, <3>4, SendEffects
      <4>2. CASE poll_send_worker
        <5>1. PICK r \in Slots, e \in Event :
                /\ r = session.send_rx /\ r # NoRx /\ e = Head(threads[r].ch) /\ e \in Said(threads[r].ch)
                /\ session'.flow = (IF session.flow = NoOne THEN NoOne ELSE apply(session.flow, e))
                /\ e.k \in {"Ok", "Err"}
          BY <1>3, <4>2, SendPolls
        <5>2. session.flow # NoOne /\ ~session.flow.error /\ Way(session.flow, threads[r])
          BY <3>1, <5>1 DEF Flows, Recoverable, receiver
        <5>3. session'.flow = apply(session.flow, e) /\ session.flow \in SendFlow /\ threads[r].ch \in Seq(Event)
          BY <3>1, <5>1, <5>2, Shown DEF ProfileSession, Typed, ThreadsTyped, Thread
        <5>4. CASE e.k = "Ok"
          BY <1>3, <5>2, <5>3, <5>4 DEF apply
        <5>5. CASE e.k = "Err"
          <6>1. threads[r].ch # <<>>
            BY <4>2, <5>1 DEF poll_send_worker
          <6>2. Said(threads[r].ch) = {e}
            BY <5>1, <5>2, <5>3, <5>5, <6>1, Closings DEF Way
          <6>3. session.flow.published \/ \E i \in Plan : Open(session.flow, threads[r].ch, i)
            BY <5>1, <5>2, <5>5 DEF Way
          <6>4. session'.flow = fail(session.flow)
            BY <5>3, <5>5 DEF apply
          <6>5. session.flow.published => session'.flow.published
            BY <5>3, <6>4 DEF fail, SendFlow
          <6>6. ASSUME NEW i \in Plan, Open(session.flow, threads[r].ch, i)
                PROVE  failed(session'.flow)
            <7>1. session.flow.steps[i] = "Running"
              BY <5>5, <6>2, <6>6 DEF Open, Ev
            <7>2. session'.flow.steps[i] = "Failed"
              BY <5>3, <6>4, <7>1 DEF fail, SendFlow
            <7> QED
              BY <1>3, <7>2 DEF failed
          <6> QED
            BY <6>3, <6>5, <6>6
        <5> QED
          BY <5>1, <5>4, <5>5
      <4> QED
        BY <1>3, <1>n, <3>2, <3>3, <4>1, <4>2
           DEF SendEffect, Fires, Retries, Resumes, GivesUp, Dismisses, EditsAgain, WritesAnother
    <3> QED
      BY <3>1, <3>3, <3>4
  <2> QED
    BY <2>1, <2>2
<1>4. ASSUME open', session'.send_rx # NoRx
      PROVE  Way(session'.flow, threads'[session'.send_rx])
  <2>1. session'.send_rx \in Slots
    BY <1>4, SendKept
  <2> QED
    BY <1>2, <1>4, <2>1
<1>5. \A p \in Profiles : dirs'[p].store = "old" => \A id \in SendIds : sends'[id].p # p
  BY <1>1
<1>6. open' /\ session'.send_rx = NoRx /\ session'.flow # NoOne /\ session'.flow.error =>
        failed(session'.flow) \/ session'.flow.published
  BY <1>3
<1>7. failed(session.flow)' <=> failed(session'.flow)
  BY DEF failed
<1> QED
  BY <1>4, <1>5, <1>6, <1>7 DEF Recoverable, receiver

-----------------------------------------------------------------------------
(* The invariant holds where the program starts, and stays *)

LEMMA StartTyped ==
  ASSUME Init
  PROVE  Typed
<1>1. PICK from \in Starts, first \in Profiles :
        /\ dirs = [p \in Profiles |->
             IF p = first THEN [place |-> "live",
                                stage |-> IF from = "bare" THEN "empty" ELSE "registered",
                                store |-> IF from \in {"old", "old_send"} THEN "old" ELSE "v4"]
             ELSE [place |-> CASE from = "ready" -> "absent" [] from = "two" -> "live" [] OTHER -> "gone",
                   stage |-> "registered", store |-> "v4"]]
        /\ sends = [id \in SendIds |-> IF from \in {"ready", "old_send"} THEN [p |-> first, st |-> "pending"]
                                                                       ELSE NoFile]
        /\ app = [locked |-> TRUE, migration |-> from = "legacy", initial |-> first, reopen |-> NoOne]
  BY DEF Init
<1>2. threads = [s \in Slots |-> Free] /\ wizard = NoRx /\ session = NoOne
  BY DEF Init
<1>3. DiskTyped
  <2>1. dirs \in [Profiles -> Dir]
    BY <1>1 DEF Dir, Stages
  <2>2. sends \in [SendIds -> SendFile]
    BY <1>1 DEF SendFile, NoFile
  <2> QED
    BY <2>1, <2>2 DEF DiskTyped
<1>4. ThreadsTyped
  BY <1>2, Frees DEF ThreadsTyped
<1>5. app \in App
  BY <1>1 DEF App
<1> QED
  BY <1>2, <1>3, <1>4, <1>5 DEF Typed, WindowTyped, Rx

LEMMA InvStart ==
  ASSUME Init
  PROVE  Inv /\ ("old_send" \notin Starts => Recoverable)
<1>1. PICK from \in Starts, first \in Profiles :
        /\ dirs = [p \in Profiles |->
             IF p = first THEN [place |-> "live",
                                stage |-> IF from = "bare" THEN "empty" ELSE "registered",
                                store |-> IF from \in {"old", "old_send"} THEN "old" ELSE "v4"]
             ELSE [place |-> CASE from = "ready" -> "absent" [] from = "two" -> "live" [] OTHER -> "gone",
                   stage |-> "registered", store |-> "v4"]]
        /\ sends = [id \in SendIds |-> IF from \in {"ready", "old_send"} THEN [p |-> first, st |-> "pending"]
                                                                       ELSE NoFile]
        /\ app = [locked |-> TRUE, migration |-> from = "legacy", initial |-> first, reopen |-> NoOne]
  BY DEF Init
<1>2. threads = [s \in Slots |-> Free] /\ wizard = NoRx /\ session = NoOne /\ ~open
  BY DEF Init, open
<1>3. \A s \in Slots : threads[s] = Free /\ threads[s].kind = "none" /\ threads[s].pc = "free" /\ threads[s].ch = <<>>
  BY <1>2, Frees
<1>4. \A s \in Slots : ~alive(s)
  BY <1>3 DEF alive
<1>5. Typed
  BY StartTyped
<1>6. Own /\ Alone /\ Flows /\ Offered
  BY <1>2 DEF Own, Alone, Flows, Offered
<1>7. Tidy
  BY <1>3 DEF Tidy, Says, Sending
<1>8. Framed
  <2>1. app.locked /\ app.reopen = NoOne /\ app.initial = first
    BY <1>1
  <2>2. dirs[first].place = "live"
    BY <1>1
  <2> QED
    BY <1>2, <2>1, <2>2 DEF Framed, Live
<1>9. \A id \in SendIds :
        \/ sends[id] = NoFile /\ from \notin {"ready", "old_send"}
        \/ sends[id] = [p |-> first, st |-> "pending"] /\ from \in {"ready", "old_send"}
  BY <1>1
<1>10. NoOne \notin Profiles
  BY AbsenceAssumption
<1>11. Ids
  BY <1>2, <1>9 DEF Ids, NoFile
<1>12. Orphans
  BY <1>4 DEF Orphans, Orphan
<1>13. Fresh
  <2>1. ASSUME NEW p \in Profiles, dirs[p].stage # "registered"
        PROVE  NoSends(p)
    <3>1. from = "bare"
      BY <1>1, <2>1
    <3>2. \A id \in SendIds : sends[id].p = NoOne
      BY <1>9, <3>1 DEF NoFile
    <3> QED
      BY <1>3, <1>10, <3>2 DEF NoSends, Sending
  <2>2. \A id \in SendIds : sends[id].p \in Profiles => sends[id].st = "pending"
    BY <1>9, <1>10 DEF NoFile
  <2> QED
    BY <1>2, <1>3, <2>1, <2>2 DEF Fresh, Sending
<1>14. ASSUME "old_send" \notin Starts
       PROVE  Recoverable
  <2>1. ASSUME NEW p \in Profiles, dirs[p].store = "old", NEW id \in SendIds
        PROVE  sends[id].p # p
    <3>1. from = "old"
      BY <1>1, <1>14, <2>1
    <3> QED
      BY <1>9, <1>10, <3>1 DEF NoFile
  <2> QED
    BY <1>2, <2>1 DEF Recoverable
<1> QED
  BY <1>5, <1>6, <1>7, <1>8, <1>11, <1>12, <1>13, <1>14 DEF Inv

(* A step that changes nothing keeps everything.                             *)
LEMMA InvIdle ==
  ASSUME Inv, UNCHANGED vars
  PROVE  Inv' /\ (Recoverable => Recoverable')
<1>1. dirs' = dirs /\ sends' = sends /\ threads' = threads /\ app' = app /\ wizard' = wizard /\ session' = session
  BY DEF vars, disk
<1>2. (\A s : held(s)' <=> held(s)) /\ (\A s : alive(s)' <=> alive(s)) /\ (\A s : may_publish(s)' <=> may_publish(s))
  BY <1>1 DEF held, receivers, alive, may_publish, runs
<1>3. Typed' /\ Own' /\ Tidy' /\ Framed' /\ Alone'
  BY <1>1, <1>2 DEF Inv, Typed, DiskTyped, ThreadsTyped, WindowTyped, Own, open, receiver, Tidy, Says, Framed, framed,
                    Live, Alone
<1>4. Fresh' /\ Ids'
  BY <1>1 DEF Inv, Fresh, NoSends, open, Ids, Ours, receiver
<1>5. Orphans'
  BY <1>1, <1>2 DEF Inv, Orphans, Orphan, Dead, open
<1>6. Flows' /\ Offered'
  BY <1>1, <1>2 DEF Inv, Flows, Offered, open, receiver, Says, incomplete
<1>7. Recoverable => Recoverable'
  BY <1>1 DEF Recoverable, open, receiver, failed
<1> QED
  BY <1>3, <1>4, <1>5, <1>6, <1>7 DEF Inv

LEMMA InvStays ==
  ASSUME Inv, [Next]_vars
  PROVE  Inv' /\ (Recoverable => Recoverable')
<1>1. CASE Next
  <2>1. Typed' /\ Own' /\ Tidy' /\ Framed' /\ Alone'
    BY <1>1, TypedStays, OwnStays, TidyStays, FramedStays, AloneStays DEF Inv
  <2>2. Fresh' /\ Ids' /\ Orphans' /\ Flows' /\ Offered'
    BY <1>1, FreshStays, IdsStays, OrphansStay, FlowsStays, OfferedStays DEF Inv
  <2>3. Recoverable => Recoverable'
    BY <1>1, RecoverableStays DEF Inv
  <2> QED
    BY <2>1, <2>2, <2>3 DEF Inv
<1> QED
  BY <1>1, InvIdle

(* The invariant of every run.                                               *)
LEMMA Always == Spec => []Inv
<1>1. Init => Inv
  BY InvStart
<1>2. Inv /\ [Next]_vars => Inv'
  BY InvStays
<1> QED
  BY <1>1, <1>2, PTL DEF Spec

(* A send that waits on a retired store cannot be resumed: without one at    *)
(* the start, there is none later.                                           *)
LEMMA AlwaysRecoverable ==
  ASSUME "old_send" \notin Starts
  PROVE  Spec => []Recoverable
<1>1. Init => Inv /\ Recoverable
  BY InvStart
<1>2. Inv /\ Recoverable /\ [Next]_vars => (Inv /\ Recoverable)'
  BY InvStays
<1> QED
  BY <1>1, <1>2, PTL DEF Spec

-----------------------------------------------------------------------------
(* What the user relies on *)

(* Every reachable state has its type: a session names profiles, receivers    *)
(* and sends there are, and a worker says what its channel can carry.         *)
THEOREM TypeCorrect == Spec => []Typed
<1>1. Inv => Typed
  BY DEF Inv
<1> QED
  BY <1>1, Always, PTL

(* No status, balance or inbox on display was fetched for another profile,   *)
(* whatever was clicked while the worker ran.                                *)
THEOREM NeverAnothersData == Spec => []ShownIsOwn
<1>1. Inv => ShownIsOwn
  BY DEF Inv, Own, ShownIsOwn, open
<1> QED
  BY <1>1, Always, PTL

(* A handle shown as resolved is the one in the field, at every moment: a    *)
(* late answer is never shown for a handle that was typed meanwhile.         *)
THEOREM ResolutionIsCurrent == Spec => []ResolvedIsShown
<1>1. Inv => ResolvedIsShown
  BY DEF Inv, Own, ResolvedIsShown, open
<1> QED
  BY <1>1, Always, PTL

LEMMA AtMostOne ==
  ASSUME NEW S, \A a, b \in S : a = b
  PROVE  Cardinality(S) <= 1
<1>1. CASE S = {}
  BY <1>1, FS_EmptySet
<1>2. CASE S # {}
  <2>1. PICK a \in S : S = {a}
    BY <1>2
  <2> QED
    BY <2>1, FS_Singleton
<1> QED
  BY <1>1, <1>2

(* Who is listened to, by what it does. *)
LEMMA Listened ==
  ASSUME Typed, Own, NEW s \in Slots, held(s)
  PROVE  /\ threads[s].kind = "setup" => s = wizard /\ wizard # NoRx
         /\ threads[s].kind \in {"register", "buy"} => open /\ s = session.rx /\ session.rx # NoRx
         /\ threads[s].kind \in {"send", "resume"} => open /\ s = session.send_rx /\ session.send_rx # NoRx
<1>1. s # NoRx
  BY GuiAssumption DEF Slots, NoRx
<1> QED
  BY <1>1, Receivers DEF Own, OnRx, Sending, receiver

(* A session never shows a registration or a setup beside a send: a setup    *)
(* blocks what pays, and a profile that still registers never sent.          *)
LEMMA OneFlow ==
  ASSUME Inv
  PROVE  OnePaidFlow
<1>0. Typed /\ Own /\ Alone /\ Fresh /\ Orphans
  BY DEF Inv
<1>1. \A kinds, s : s \in listening(kinds) <=> s \in Slots /\ held(s) /\ alive(s) /\ threads[s].kind \in kinds
  BY DEF listening, runs
<1>2. Cardinality(listening({"register", "buy", "setup"})) <= 1
  <2>1. ASSUME NEW c \in listening({"register", "buy", "setup"})
        PROVE  \/ c = wizard /\ wizard # NoRx
               \/ open /\ c = session.rx /\ session.rx # NoRx /\ threads[c].kind \in {"register", "buy"}
    <3>1. c \in Slots /\ held(c)
      BY <1>1
    <3>2. CASE threads[c].kind = "setup"
      BY <1>0, <3>1, <3>2, Listened
    <3>3. CASE threads[c].kind \in {"register", "buy"}
      BY <1>0, <3>1, <3>3, Listened
    <3>4. threads[c].kind \in {"register", "buy", "setup"}
      BY <1>1
    <3> QED
      BY <3>2, <3>3, <3>4
  <2>2. \A a, b \in listening({"register", "buy", "setup"}) : a = b
    BY <1>0, <2>1 DEF Alone
  <2> QED
    BY <2>2, AtMostOne
<1>3. listening({"register", "setup"}) = {} \/ listening({"send", "resume"}) = {}
  <2> SUFFICES ASSUME NEW a \in listening({"register", "setup"}), NEW b \in listening({"send", "resume"})
               PROVE  FALSE
    OBVIOUS
  <2>1. a \in Slots /\ held(a) /\ b \in Slots /\ held(b)
    BY <1>1
  <2>2. threads[a].kind \in {"register", "setup"} /\ threads[b].kind \in {"send", "resume"}
    BY <1>1
  <2>3. open /\ b = session.send_rx /\ session.send_rx # NoRx
    BY <1>0, <2>1, <2>2, Listened
  <2>4. threads[b].p = session.p
    BY <1>0, <2>3 DEF Own, receiver
  <2>5. CASE threads[a].kind = "setup"
    BY <1>0, <2>1, <2>3, <2>5, Listened DEF Alone
  <2>6. CASE threads[a].kind = "register"
    <3>1. a = session.rx /\ session.rx # NoRx
      BY <1>0, <2>1, <2>6, Listened
    <3>2. session.stage = "keys"
      BY <1>0, <2>3, <2>6, <3>1 DEF Fresh
    <3>3. NoSends(session.p)
      BY <1>0, <2>3, <3>2 DEF Fresh
    <3> QED
      BY <2>1, <2>2, <2>4, <3>3 DEF NoSends, Sending
  <2> QED
    BY <2>2, <2>5, <2>6
<1>4. Cardinality({s \in Slots : may_publish(s)}) <= 1
  <2>1. ASSUME NEW a \in Slots, NEW b \in Slots, may_publish(a), may_publish(b)
        PROVE  a = b
    <3>1. alive(a) /\ threads[a].kind \in {"send", "resume"} /\ alive(b) /\ threads[b].kind \in {"send", "resume"}
      BY <2>1 DEF may_publish, runs
    <3>2. CASE held(a) /\ held(b)
      BY <1>0, <3>1, <3>2, Listened
    <3>3. CASE ~held(a)
      <4>1. Orphan(a)
        BY <2>1, <3>1, <3>3 DEF Orphan
      <4>2. Dead
        BY <1>0, <4>1 DEF Orphans
      <4>3. ~held(b)
        BY <1>0, <3>1, <4>2, Listened DEF Dead
      <4>4. Orphan(b)
        BY <2>1, <3>1, <4>3 DEF Orphan
      <4> QED
        BY <1>0, <4>1, <4>4 DEF Orphans
    <3>4. CASE ~held(b)
      <4>1. Orphan(b)
        BY <2>1, <3>1, <3>4 DEF Orphan
      <4>2. Dead
        BY <1>0, <4>1 DEF Orphans
      <4>3. ~held(a)
        BY <1>0, <3>1, <4>2, Listened DEF Dead
      <4>4. Orphan(a)
        BY <2>1, <3>1, <4>3 DEF Orphan
      <4> QED
        BY <1>0, <4>1, <4>4 DEF Orphans
    <3> QED
      BY <3>2, <3>3, <3>4
  <2>2. \A a, b \in {s \in Slots : may_publish(s)} : a = b
    BY <2>1
  <2> QED
    BY <2>2, AtMostOne
<1> QED
  BY <1>2, <1>3, <1>4 DEF OnePaidFlow

(* However the user clicks, the window pays in one way at a time, and one    *)
(* send publishes in the whole program: sessions that close, open and lock,  *)
(* and workers that outlive them, never add a second.                        *)
THEOREM NeverPaysTwice == Spec => []OnePaidFlow
<1>1. Inv => OnePaidFlow
  BY OneFlow
<1> QED
  BY <1>1, Always, PTL

(* When the program did not start with a send that waits on a retired store, *)
(* a send that failed can be resumed, or was published after all, and one    *)
(* that was interrupted is offered to the user.                              *)
THEOREM AlwaysAWayOn ==
  ASSUME "old_send" \notin Starts
  PROVE  Spec => []NoSendStranded
<1>1. Inv /\ Recoverable => NoSendStranded
  BY DEF Inv, Recoverable, Offered, NoSendStranded, work_in_flight, open
<1> QED
  BY <1>1, Always, AlwaysRecoverable, PTL

(* From any start, a send that was interrupted is offered to the user, was   *)
(* dismissed, or is what the running worker works on.                        *)
SendsAreOffered ==
  open => \A id \in incomplete(session.p) :
            \/ id \in session.pending \cup session.dismissed
            \/ work_in_flight /\ id = receiver.arg.id
THEOREM NeverForgotten == Spec => []SendsAreOffered
<1>1. Inv => SendsAreOffered
  BY DEF Inv, Offered, SendsAreOffered, work_in_flight, open
<1> QED
  BY <1>1, Always, PTL

=============================================================================
