----------------------------- MODULE AppLockProofs -----------------------------
(***************************************************************************)
(* What a stored PIN withstands, for any number of threads, processes and   *)
(* PINs, whatever the limits of attempts and of the model: every guess is   *)
(* counted, and the last one wipes.  And what the keys are good for until   *)
(* then: a profile's file is sealed under the key its vault names, which    *)
(* the stored PIN opens.                                                    *)
(***************************************************************************)
EXTENDS AppLock, TLAPS

Blob == [wrap : Wraps, pin : Pins, mk : Masters, fails : Nat, not_before : Nat]
Attempts == {"unlock", "change", "panic"}

(* The thread between the load of the lock and its last save of it. *)
Trying(t) == pc[t] \in {"raise", "check", "reset"}

Typed ==
  /\ clock \in Nat
  /\ lock # NoLock => lock \in Blob
  /\ master \in [Procs -> Masters \cup {Nothing}]
  /\ minted \in [mk : Nat, wrap : Nat, id : Nat, kills : Nat]
  /\ pc = [t \in Threads |-> pc[t]]
  /\ job = [t \in Threads |-> job[t]]
  /\ tried \in [Wraps -> Nat]
  /\ \A t \in Threads :
       /\ pc[t] \in {"pin_save", "pin_check"} =>
            job[t] \in [op : {"set"}, pin : Pins, mk : Masters, wrap : Wraps]
       /\ pc[t] = "attempt" => job[t] \in [op : Attempts, pin : Pins, new : Pins]
       /\ Trying(t) => job[t] \in [op : Attempts, pin : Pins, new : Pins, blob : Blob]
       /\ pc[t] = "change_save" => job[t].new \in Pins

(* One thread of all processes works on what it loaded. *)
OneTries == \A t \in Threads : Trying(t) => attempt = t

(* A wrap that is minted and not saved yet is nowhere, and untried. *)
Absent(w) ==
  /\ lock # NoLock => lock.wrap # w
  /\ \A t \in Threads : Trying(t) => job[t].blob.wrap # w
Unused(w) == tried[w] = 0 /\ Absent(w)
WrapsAreFresh ==
  /\ \A w \in Wraps : w > minted.wrap => Unused(w)
  /\ \A t \in Threads : pc[t] = "pin_save" =>
       /\ job[t].wrap <= minted.wrap
       /\ Unused(job[t].wrap)
       /\ \A u \in Threads \ {t} : pc[u] = "pin_save" => job[u].wrap # job[t].wrap

(* The counter is ahead of the guesses, in the Keychain and in what a       *)
(* thread will save; after "raise" it is ahead of the guess under way.      *)
Counted ==
  /\ GuessesCounted
  /\ \A t \in Threads :
       LET blob == job[t].blob IN
       /\ pc[t] = "raise" => tried[blob.wrap] <= blob.fails
       /\ pc[t] = "check" =>
            /\ tried[blob.wrap] < blob.fails
            /\ lock # NoLock /\ lock.wrap = blob.wrap => blob.fails <= lock.fails

(* A wrap that took MAX_ATTEMPTS is being wiped by the thread that checked  *)
(* the last one, which keeps the attempt lock, or it is gone for good.      *)
Wipes(t, w) ==
  /\ attempt = t /\ wiping(t)
  /\ pc[t] = "remove" /\ lock # NoLock => lock.wrap # w
LastGuess ==
  \A w \in Wraps : tried[w] >= MAX_ATTEMPTS /\ "interrupted" \notin events =>
    Absent(w) \/ \E t \in Threads : Wipes(t, w)

Inv == Typed /\ OneTries /\ WrapsAreFresh /\ Counted /\ LastGuess

-----------------------------------------------------------------------------
(* Steps that touch neither the lock nor the guesses *)

Elsewhere == {"idle", "wrap", "wrap_put", "shred", "destroy", "change_check",
              "changed", "key", "winner", "mint", "link", "write"}

(* A thread goes elsewhere, or stays where it is. *)
Moves(t) ==
  \/ pc' = pc /\ job' = job
  \/ /\ \E l \in Elsewhere : Goto(t, l)
     /\ job' = job \/ \E j : Keep(t, j)
     /\ wiping(t) => pc[t] = "shred" /\ Goto(t, "destroy")
Aside(t) ==
  /\ UNCHANGED <<clock, lock, attempt, tried>>
  /\ events \subseteq events'
  /\ minted'.wrap = minted.wrap
  /\ minted' \in [mk : Nat, wrap : Nat, id : Nat, kills : Nat]
  /\ master' \in [Procs -> Masters \cup {Nothing}]
  /\ Moves(t)

KeepsRest(t) ==
  /\ pc' = [u \in Threads |-> pc'[u]] /\ job' = [u \in Threads |-> job'[u]]
  /\ \A u \in Threads \ {t} : pc'[u] = pc[u] /\ job'[u] = job[u]
  /\ (pc' = pc /\ job' = job) \/ pc'[t] \in Elsewhere
  /\ \A u \in Threads : wiping(u) => wiping(u)' /\ (pc'[u] = "remove" => pc[u] = "remove")

LEMMA AsideKeepsInv ==
  ASSUME Inv, NEW t \in Threads, Aside(t)
  PROVE  Inv'
<1> USE DEF Goto, Keep
<1>a. /\ pc = [u \in Threads |-> pc[u]] /\ job = [u \in Threads |-> job[u]]
  BY DEF Inv, Typed
<1>b. ASSUME pc' = pc, job' = job
      PROVE  KeepsRest(t)
  BY <1>a, <1>b DEF KeepsRest, wiping
<1>c. ASSUME NEW l \in Elsewhere, Goto(t, l), job' = job \/ (\E k : Keep(t, k)),
             wiping(t) => pc[t] = "shred" /\ Goto(t, "destroy")
      PROVE  KeepsRest(t)
  <2>1. /\ pc' = [u \in Threads |-> pc'[u]] /\ pc'[t] = l
        /\ \A u \in Threads \ {t} : pc'[u] = pc[u]
    BY <1>a, <1>c
  <2>2. /\ job' = [u \in Threads |-> job'[u]]
        /\ \A u \in Threads \ {t} : job'[u] = job[u]
    <3>1. CASE job' = job
      BY <3>1, <1>a
    <3>2. ASSUME NEW j, Keep(t, j)
          PROVE  /\ job' = [u \in Threads |-> job'[u]]
                 /\ \A u \in Threads \ {t} : job'[u] = job[u]
      <4>1. job' = [u \in Threads |-> IF u = t THEN j ELSE job[u]]
        BY <3>2, <1>a
      <4> QED
        BY <4>1
    <3> QED
      BY <3>1, <3>2, <1>c
  <2>3. \A u \in Threads : wiping(u) => wiping(u)' /\ (pc'[u] = "remove" => pc[u] = "remove")
    BY <1>a, <1>c, <2>1 DEF wiping
  <2>4. l # "remove"
    BY DEF Elsewhere
  <2> QED
    BY <2>1, <2>2, <2>3 DEF KeepsRest
<1>1. KeepsRest(t)
  BY <1>b, <1>c DEF Aside, Moves, KeepsRest
<1>2. \A u \in Threads : Trying(u)' => Trying(u) /\ job'[u] = job[u]
  BY <1>1 DEF KeepsRest, Trying, Elsewhere
<1>3. Typed'
  BY <1>1, <1>2 DEF Inv, Typed, Aside, Elsewhere, Trying, KeepsRest
<1>4. OneTries'
  BY <1>2 DEF Inv, OneTries, Aside
<1>5. \A w \in Wraps : Absent(w) => Absent(w)'
  BY <1>2 DEF Absent, Aside
<1>6. WrapsAreFresh'
  BY <1>1, <1>5 DEF Inv, Typed, WrapsAreFresh, Aside, Unused, Elsewhere, KeepsRest
<1>7. Counted'
  BY <1>1 DEF Inv, Counted, Aside, Elsewhere, GuessesCounted, KeepsRest
<1>8. LastGuess'
  BY <1>1, <1>5 DEF Inv, LastGuess, Aside, Wipes, KeepsRest
<1> QED
  BY <1>3, <1>4, <1>6, <1>7, <1>8 DEF Inv

-----------------------------------------------------------------------------
(* The steps of the first PIN and of a change *)

LEMMA Goes ==
  ASSUME Typed, NEW t \in Threads, NEW l, Goto(t, l)
  PROVE  /\ pc' = [u \in Threads |-> pc'[u]] /\ pc'[t] = l
         /\ \A u \in Threads \ {t} : pc'[u] = pc[u]
  BY DEF Typed, Goto

LEMMA Keeps ==
  ASSUME Typed, NEW t \in Threads, NEW j, Keep(t, j)
  PROVE  /\ job' = [u \in Threads |-> job'[u]] /\ job'[t] = j
         /\ \A u \in Threads \ {t} : job'[u] = job[u]
<1>1. job' = [u \in Threads |-> IF u = t THEN j ELSE job[u]]
  BY DEF Typed, Keep
<1> QED
  BY <1>1

LEMMA SetKeepsInv ==
  ASSUME Inv, NEW t \in Threads, NEW pin \in Pins, set_pin(t, pin)
  PROVE  Inv'
<1> USE DEF memory, history, keychain, disk
<1>1. /\ pc[t] = "idle" /\ Goto(t, "pin_save")
      /\ Keep(t, [op |-> "set", pin |-> pin, mk |-> minted.mk + 1, wrap |-> minted.wrap + 1])
      /\ UNCHANGED <<clock, lock, master, attempt, tried, events>>
      /\ minted.mk < MaxMasters /\ minted.wrap < MaxWraps
      /\ minted' = [minted EXCEPT !.mk = @ + 1, !.wrap = @ + 1]
  BY DEF set_pin, may_begin
<1>2. /\ minted' \in [mk : Nat, wrap : Nat, id : Nat, kills : Nat]
      /\ minted'.wrap = minted.wrap + 1 /\ minted.wrap \in Nat /\ minted.mk \in Nat
  <2>1. minted \in [mk : Nat, wrap : Nat, id : Nat, kills : Nat]
    BY DEF Inv, Typed
  <2>2. PICK m, w, i, k \in Nat : minted = [mk |-> m, wrap |-> w, id |-> i, kills |-> k]
    BY <2>1
  <2>3. minted' = [mk |-> m + 1, wrap |-> w + 1, id |-> i, kills |-> k]
    BY <2>2, <1>1
  <2> QED
    BY <2>2, <2>3
<1>m. minted.mk + 1 \in Masters /\ minted.wrap + 1 \in Wraps
  BY <1>1, <1>2, BoundsAssumption DEF Masters, Wraps
<1>w. PICK w0 \in Wraps, mk0 \in Masters : w0 = minted.wrap + 1 /\ mk0 = minted.mk + 1
  BY <1>m
<1> DEFINE j == [op |-> "set", pin |-> pin, mk |-> mk0, wrap |-> w0]
<1>j. j \in [op : {"set"}, pin : Pins, mk : Masters, wrap : Wraps] /\ j.wrap = w0
  OBVIOUS
<1>3. /\ pc' = [u \in Threads |-> pc'[u]] /\ pc'[t] = "pin_save"
      /\ \A u \in Threads \ {t} : pc'[u] = pc[u]
      /\ job' = [u \in Threads |-> job'[u]] /\ job'[t] = j
      /\ \A u \in Threads \ {t} : job'[u] = job[u]
  <2>1. Keep(t, j)
    BY <1>1, <1>w
  <2> QED
    BY <2>1, <1>1, Goes, Keeps DEF Inv
<1> HIDE DEF j
<1>4. \A u \in Threads : Trying(u)' => u # t /\ Trying(u) /\ job'[u] = job[u]
  BY <1>3 DEF Trying
<1>5. Typed'
  BY <1>1, <1>2, <1>3, <1>4, <1>j DEF Inv, Typed, Trying
<1>6. OneTries'
  BY <1>1, <1>4 DEF Inv, OneTries
<1>7. \A w \in Wraps : Absent(w) => Absent(w)'
  BY <1>1, <1>4 DEF Absent
<1>8. \A w \in Wraps : Unused(w) => Unused(w)'
  BY <1>1, <1>7 DEF Unused
<1>w0. Unused(w0) /\ w0 = minted'.wrap
  BY <1>2, <1>w DEF Inv, WrapsAreFresh, Wraps
<1>9. WrapsAreFresh'
  <2>1. \A w \in Wraps : w > minted'.wrap => Unused(w)'
    BY <1>2, <1>8 DEF Inv, WrapsAreFresh, Wraps
  <2>2. ASSUME NEW u \in Threads, pc'[u] = "pin_save"
        PROVE  /\ job'[u].wrap <= minted'.wrap
               /\ Unused(job[u].wrap)'
               /\ \A v \in Threads \ {u} : pc'[v] = "pin_save" => job'[v].wrap # job'[u].wrap
    <3>1. \A v \in Threads \ {t} : pc'[v] = "pin_save" =>
            /\ pc[v] = "pin_save" /\ job'[v] = job[v]
            /\ job[v].wrap \in Wraps /\ job[v].wrap <= minted.wrap
            /\ Unused(job[v].wrap)
      BY <1>3 DEF Inv, Typed, WrapsAreFresh
    <3>2. \A v \in Threads \ {t} : pc'[v] = "pin_save" => job'[v].wrap # w0
      BY <3>1, <1>2, <1>w DEF Wraps
    <3>3. PICK w \in Wraps : w = job'[u].wrap /\ w <= minted'.wrap /\ Unused(w)
      <4>1. CASE u = t
        BY <4>1, <1>3, <1>j, <1>w0 DEF Wraps
      <4>2. CASE u # t
        BY <4>2, <3>1, <2>2, <1>2 DEF Wraps
      <4> QED
        BY <4>1, <4>2
    <3>4. Unused(job[u].wrap)'
      BY <3>3, <1>8 DEF Unused, Absent
    <3>5. \A v \in Threads \ {u} : pc'[v] = "pin_save" => job'[v].wrap # job'[u].wrap
      <4>1. CASE u = t
        BY <4>1, <3>2, <1>3, <1>j
      <4>2. CASE u # t
        BY <4>2, <3>1, <3>2, <2>2, <1>3, <1>j DEF Inv, WrapsAreFresh
      <4> QED
        BY <4>1, <4>2
    <3> QED
      BY <3>3, <3>4, <3>5
  <2> QED
    BY <2>1, <2>2 DEF WrapsAreFresh
<1>10. Counted'
  BY <1>1, <1>3 DEF Inv, Counted, GuessesCounted
<1>11. LastGuess'
  <2>1. \A u \in Threads, w \in Wraps : Wipes(u, w) => Wipes(u, w)'
    BY <1>1, <1>3 DEF Wipes, wiping
  <2> QED
    BY <2>1, <1>1, <1>7 DEF Inv, LastGuess
<1> QED
  BY <1>5, <1>6, <1>9, <1>10, <1>11 DEF Inv

(* A fresh wrap is saved over whatever is there. *)
LEMMA SaveKeepsInv ==
  ASSUME Inv, NEW t \in Threads, NEW l, NEW w0 \in Wraps, Goto(t, l),
         UNCHANGED <<clock, master, attempt, tried, events>>,
         lock' \in Blob, lock'.wrap = w0, lock'.fails = 0,
         Unused(w0), w0 <= minted'.wrap, minted.wrap <= minted'.wrap,
         minted' \in [mk : Nat, wrap : Nat, id : Nat, kills : Nat],
         \/ pc[t] = "pin_save" /\ l = "pin_check" /\ job' = job
         \/ pc[t] = "change_save" /\ l = "change_check" /\ \E j : Keep(t, j),
         \A u \in Threads \ {t} : pc[u] = "pin_save" => job[u].wrap # w0
  PROVE  Inv'
<1>1. /\ pc' = [u \in Threads |-> pc'[u]] /\ pc'[t] = l
      /\ \A u \in Threads \ {t} : pc'[u] = pc[u]
  BY Goes DEF Inv
<1>2. /\ job' = [u \in Threads |-> job'[u]]
      /\ \A u \in Threads \ {t} : job'[u] = job[u]
  <2>1. CASE job' = job
    BY <2>1 DEF Inv, Typed
  <2>2. CASE \E j : Keep(t, j)
    BY <2>2, Keeps DEF Inv
  <2> QED
    BY <2>1, <2>2
<1>3. \A u \in Threads : Trying(u)' => u # t /\ Trying(u) /\ job'[u] = job[u]
  BY <1>1, <1>2 DEF Trying
<1>4. Typed'
  BY <1>1, <1>2, <1>3 DEF Inv, Typed, Trying
<1>5. OneTries'
  BY <1>3 DEF Inv, OneTries
<1>6. \A w \in Wraps : w # w0 /\ Absent(w) => Absent(w)'
  BY <1>3 DEF Absent
<1>7. WrapsAreFresh'
  <2>1. \A w \in Wraps : w # w0 /\ Unused(w) => Unused(w)'
    BY <1>6 DEF Unused
  <2>2. \A w \in Wraps : w > minted'.wrap => Unused(w)'
    BY <2>1 DEF Inv, WrapsAreFresh, Wraps, Typed
  <2>3. ASSUME NEW u \in Threads, pc'[u] = "pin_save"
        PROVE  /\ job'[u].wrap <= minted'.wrap
               /\ Unused(job[u].wrap)'
               /\ \A v \in Threads \ {u} : pc'[v] = "pin_save" => job'[v].wrap # job'[u].wrap
    <3>1. u # t /\ \A v \in Threads : pc'[v] = "pin_save" => v # t
      BY <2>3, <1>1
    <3>2. /\ pc[u] = "pin_save" /\ job'[u] = job[u]
          /\ job[u].wrap \in Wraps /\ job[u].wrap <= minted.wrap
          /\ Unused(job[u].wrap) /\ job[u].wrap # w0
      BY <3>1, <2>3, <1>1, <1>2 DEF Inv, Typed, WrapsAreFresh
    <3>3. PICK w \in Wraps : w = job'[u].wrap /\ Unused(w) /\ w # w0
      BY <3>2
    <3>4. Unused(job[u].wrap)'
      BY <3>3, <2>1 DEF Unused, Absent
    <3>5. \A v \in Threads \ {u} : pc'[v] = "pin_save" => job'[v].wrap # job'[u].wrap
      BY <3>1, <3>2, <1>1, <1>2 DEF Inv, WrapsAreFresh
    <3> QED
      BY <3>2, <3>4, <3>5 DEF Inv, Typed, Wraps
  <2> QED
    BY <2>2, <2>3 DEF WrapsAreFresh
<1>8. Counted'
  <2>1. GuessesCounted'
    BY DEF GuessesCounted, Unused
  <2>2. ASSUME NEW u \in Threads, pc'[u] = "check" \/ pc'[u] = "raise"
        PROVE  u # t /\ pc'[u] = pc[u] /\ job'[u] = job[u] /\ job[u].blob.wrap # w0
    BY <2>2, <1>1, <1>2, <1>3 DEF Unused, Absent, Trying
  <2> QED
    BY <2>1, <2>2 DEF Inv, Counted
<1>9. LastGuess'
  <2>1. tried[w0] = 0 /\ MAX_ATTEMPTS \in Nat \ {0}
    BY AttemptsAssumption DEF Unused
  <2>2. ASSUME NEW w \in Wraps, w # w0, NEW u \in Threads, Wipes(u, w)
        PROVE  Wipes(u, w)'
    BY <2>2, <1>1 DEF Wipes, wiping
  <2>3. \A w \in Wraps : tried[w] >= MAX_ATTEMPTS => w # w0
    BY <2>1
  <2> QED
    BY <2>2, <2>3, <1>6 DEF Inv, LastGuess
<1> QED
  BY <1>4, <1>5, <1>7, <1>8, <1>9 DEF Inv

LEMMA PinSaveKeepsInv ==
  ASSUME Inv, NEW t \in Threads, pin_save(t)
  PROVE  Inv'
<1> USE DEF memory, history, keychain, disk
<1>1. /\ pc[t] = "pin_save" /\ Goto(t, "pin_check")
      /\ UNCHANGED <<clock, master, attempt, tried, events, job, minted>>
      /\ lock' = [wrap |-> job[t].wrap, pin |-> job[t].pin, mk |-> job[t].mk,
                  fails |-> 0, not_before |-> 0]
  BY DEF pin_save
<1>2. job[t] \in [op : {"set"}, pin : Pins, mk : Masters, wrap : Wraps]
  BY <1>1 DEF Inv, Typed
<1>3. /\ lock' \in Blob /\ lock'.wrap = job[t].wrap /\ lock'.fails = 0
      /\ job[t].wrap \in Wraps
  BY <1>1, <1>2 DEF Blob
<1>4. /\ Unused(job[t].wrap) /\ job[t].wrap <= minted.wrap
      /\ \A u \in Threads \ {t} : pc[u] = "pin_save" => job[u].wrap # job[t].wrap
  BY <1>1 DEF Inv, WrapsAreFresh
<1>5. PICK w0 \in Wraps : w0 = job[t].wrap
  BY <1>3
<1>6. minted' \in [mk : Nat, wrap : Nat, id : Nat, kills : Nat] /\ minted.wrap <= minted'.wrap
  BY <1>1 DEF Inv, Typed
<1> QED
  BY <1>1, <1>3, <1>4, <1>5, <1>6, SaveKeepsInv

LEMMA ChangeSaveKeepsInv ==
  ASSUME Inv, NEW t \in Threads, change_save(t)
  PROVE  Inv'
<1> USE DEF memory, history, keychain, disk
<1> DEFINE mk == master[proc[t]]
<1>1. /\ pc[t] = "change_save"
      /\ UNCHANGED <<clock, master, attempt, tried, events>>
  BY DEF change_save
<1>2. CASE mk = Nothing
  <2>1. Goto(t, "idle") /\ Keep(t, NoJob) /\ UNCHANGED <<lock, minted>>
    BY <1>2 DEF change_save, Done
  <2>2. Aside(t)
    BY <1>1, <2>1 DEF Aside, Moves, Elsewhere, wiping, Inv, Typed
  <2> QED
    BY <2>2, AsideKeepsInv
<1>3. CASE mk # Nothing
  <2>1. /\ minted.wrap < MaxWraps
        /\ minted' = [minted EXCEPT !.wrap = @ + 1]
        /\ lock' = [wrap |-> minted.wrap + 1, pin |-> job[t].new, mk |-> mk,
                    fails |-> 0, not_before |-> 0]
        /\ Goto(t, "change_check") /\ \E j : Keep(t, j)
    BY <1>3 DEF change_save
  <2>2. mk \in Masters /\ job[t].new \in Pins
    BY <1>1, <1>3, AttemptsAssumption DEF Inv, Typed
  <2>3. /\ minted' \in [mk : Nat, wrap : Nat, id : Nat, kills : Nat]
        /\ minted'.wrap = minted.wrap + 1 /\ minted.wrap \in Nat
    BY <2>1 DEF Inv, Typed
  <2>4. PICK w0 \in Wraps : w0 = minted.wrap + 1
    BY <2>1, <2>3, BoundsAssumption DEF Wraps
  <2>5. lock' \in Blob /\ lock'.wrap = w0 /\ lock'.fails = 0
    BY <2>1, <2>2, <2>4 DEF Blob
  <2>6. /\ Unused(w0) /\ w0 <= minted'.wrap /\ minted.wrap <= minted'.wrap
        /\ \A u \in Threads \ {t} : pc[u] = "pin_save" => job[u].wrap # w0
    BY <2>3, <2>4 DEF Inv, Typed, WrapsAreFresh, Wraps
  <2> QED
    BY <1>1, <2>1, <2>3, <2>5, <2>6, SaveKeepsInv
<1> QED
  BY <1>2, <1>3

-----------------------------------------------------------------------------
(* The steps of an attempt *)

LEMMA BeginKeepsInv ==
  ASSUME Inv, NEW t \in Threads, NEW op \in Attempts, NEW pin \in Pins, NEW new \in Pins,
         begin_attempt(t, op, pin, new)
  PROVE  Inv'
<1> USE DEF memory, history, keychain, disk
<1>1. /\ pc[t] = "idle"
      /\ UNCHANGED <<clock, lock, master, attempt, minted, tried, events>>
  BY DEF begin_attempt, may_begin
<1>2. CASE Goto(t, "shred") /\ Keep(t, [op |-> op])
  <2>1. Moves(t)
    BY <1>1, <1>2 DEF Moves, Elsewhere, wiping
  <2>2. Aside(t)
    BY <1>1, <2>1 DEF Aside, Inv, Typed
  <2> QED
    BY <2>2, AsideKeepsInv
<1>3. CASE Goto(t, "attempt") /\ Keep(t, [op |-> op, pin |-> pin, new |-> new])
  <2>1. /\ pc' = [u \in Threads |-> pc'[u]] /\ pc'[t] = "attempt"
        /\ \A u \in Threads \ {t} : pc'[u] = pc[u]
        /\ job' = [u \in Threads |-> job'[u]] /\ job'[t] = [op |-> op, pin |-> pin, new |-> new]
        /\ \A u \in Threads \ {t} : job'[u] = job[u]
    BY <1>3, Goes, Keeps DEF Inv
  <2>2. \A u \in Threads : Trying(u)' => u # t /\ Trying(u) /\ job'[u] = job[u]
    BY <2>1 DEF Trying
  <2>3. Typed'
    BY <1>1, <2>1, <2>2 DEF Inv, Typed, Trying
  <2>4. OneTries'
    BY <1>1, <2>2 DEF Inv, OneTries
  <2>5. \A w \in Wraps : (Absent(w) => Absent(w)') /\ (Unused(w) => Unused(w)')
    BY <1>1, <2>2 DEF Absent, Unused
  <2>6. WrapsAreFresh'
    BY <1>1, <2>1, <2>5 DEF Inv, Typed, WrapsAreFresh, Unused
  <2>7. Counted'
    BY <1>1, <2>1 DEF Inv, Counted, GuessesCounted
  <2>8. \A u \in Threads, w \in Wraps : Wipes(u, w) => Wipes(u, w)'
    BY <1>1, <2>1 DEF Wipes, wiping
  <2>9. LastGuess'
    BY <1>1, <2>5, <2>8 DEF Inv, LastGuess
  <2> QED
    BY <2>3, <2>4, <2>6, <2>7, <2>9 DEF Inv
<1> QED
  BY <1>2, <1>3 DEF begin_attempt

LEMMA LoadKeepsInv ==
  ASSUME Inv, NEW t \in Threads, load_attempt(t)
  PROVE  Inv'
<1> USE DEF memory, history, keychain, disk
<1>1. /\ pc[t] = "attempt" /\ attempt = NoThread
      /\ UNCHANGED <<clock, lock, master, minted, tried, events>>
  BY DEF load_attempt, attempt_free
<1>2. CASE lock = NoLock \/ lock.not_before > clock
  <2>1. Goto(t, "idle") /\ Keep(t, NoJob) /\ UNCHANGED attempt
    BY <1>2 DEF load_attempt, Done
  <2>2. Aside(t)
    BY <1>1, <2>1 DEF Aside, Moves, Elsewhere, wiping, Inv, Typed
  <2> QED
    BY <2>2, AsideKeepsInv
<1>3. CASE ~(lock = NoLock \/ lock.not_before > clock)
  <2> DEFINE j == [op |-> job[t].op, pin |-> job[t].pin, new |-> job[t].new, blob |-> lock]
  <2>1. lock # NoLock /\ attempt' = t /\ Goto(t, "raise") /\ Keep(t, j)
    BY <1>3 DEF load_attempt
  <2>2. job[t] \in [op : Attempts, pin : Pins, new : Pins] /\ lock \in Blob
    BY <1>1, <2>1 DEF Inv, Typed
  <2>3. j \in [op : Attempts, pin : Pins, new : Pins, blob : Blob] /\ j.blob = lock
    BY <2>2
  <2>4. /\ pc' = [u \in Threads |-> pc'[u]] /\ pc'[t] = "raise"
        /\ \A u \in Threads \ {t} : pc'[u] = pc[u]
        /\ job' = [u \in Threads |-> job'[u]]
        /\ job'[t] \in [op : Attempts, pin : Pins, new : Pins, blob : Blob]
        /\ job'[t].blob = lock
        /\ \A u \in Threads \ {t} : job'[u] = job[u]
    BY <2>1, <2>3, Goes, Keeps DEF Inv
  <2> HIDE DEF j
  <2>5. \A u \in Threads : ~Trying(u)
    BY <1>1, BoundsAssumption DEF Inv, OneTries
  <2>6. \A u \in Threads : Trying(u)' => u = t
    BY <2>4, <2>5 DEF Trying
  <2>7. Typed'
    BY <1>1, <2>4, <2>6 DEF Inv, Typed
  <2>8. OneTries'
    BY <2>1, <2>6 DEF OneTries
  <2>9. \A w \in Wraps : (Absent(w) => Absent(w)') /\ (Unused(w) => Unused(w)')
    BY <1>1, <2>1, <2>4, <2>6 DEF Absent, Unused
  <2>10. WrapsAreFresh'
    BY <1>1, <2>4, <2>9 DEF Inv, Typed, WrapsAreFresh, Unused
  <2>11. \A u \in Threads : pc'[u] # "check" /\ (pc'[u] = "raise" => u = t)
    BY <2>4, <2>5, <2>6 DEF Trying
  <2>12. Counted'
    BY <1>1, <2>1, <2>4, <2>11 DEF Inv, Counted, GuessesCounted
  <2>13. \A u \in Threads, w \in Wraps : ~Wipes(u, w)
    BY <1>1, BoundsAssumption DEF Wipes
  <2>14. LastGuess'
    BY <1>1, <2>9, <2>13 DEF Inv, LastGuess
  <2> QED
    BY <2>7, <2>8, <2>10, <2>12, <2>14 DEF Inv
<1> QED
  BY <1>2, <1>3

(* While a thread tries, it is the only one, and no last guess is open.     *)
LEMMA OneAtATime ==
  ASSUME Inv, NEW t \in Threads, Trying(t)
  PROVE  /\ attempt = t
         /\ \A u \in Threads \ {t} : ~Trying(u)
         /\ \A w \in Wraps : tried[w] >= MAX_ATTEMPTS /\ "interrupted" \notin events => Absent(w)
         /\ job[t] \in [op : Attempts, pin : Pins, new : Pins, blob : Blob]
         /\ job[t].blob \in Blob /\ job[t].blob.wrap \in Wraps
         /\ \A w \in Wraps : Unused(w) => job[t].blob.wrap # w
<1>1. attempt = t /\ \A u \in Threads \ {t} : ~Trying(u)
  BY DEF Inv, OneTries
<1>2. \A u \in Threads, w \in Wraps : ~Wipes(u, w)
  BY <1>1 DEF Wipes, wiping, Trying
<1>3. job[t] \in [op : Attempts, pin : Pins, new : Pins, blob : Blob]
  BY DEF Inv, Typed
<1>4. job[t].blob \in Blob /\ job[t].blob.wrap \in Wraps
  BY <1>3 DEF Blob
<1> QED
  BY <1>1, <1>2, <1>3, <1>4 DEF Inv, LastGuess, Unused, Absent

(* What t leaves behind: wraps that were untried, but for its own.          *)
LEMMA TriedKeepsFresh ==
  ASSUME Inv, NEW t \in Threads, Trying(t), pc'[t] # "pin_save",
         \A u \in Threads \ {t} : pc'[u] = pc[u] /\ job'[u] = job[u],
         minted' = minted,
         \A w \in Wraps : Unused(w) => Unused(w)'
  PROVE  WrapsAreFresh'
<1>1. ASSUME NEW u \in Threads, pc'[u] = "pin_save"
      PROVE  /\ pc[u] = "pin_save" /\ job'[u] = job[u]
             /\ job[u].wrap \in Wraps /\ Unused(job[u].wrap)
  BY <1>1 DEF Inv, Typed, WrapsAreFresh
<1>2. ASSUME NEW u \in Threads, pc'[u] = "pin_save"
      PROVE  Unused(job[u].wrap)'
  <2>1. PICK w \in Wraps : w = job'[u].wrap /\ Unused(w)
    BY <1>1, <1>2
  <2> QED
    BY <2>1 DEF Unused, Absent
<1> QED
  BY <1>1, <1>2 DEF Inv, WrapsAreFresh

LEMMA Raised ==
  ASSUME clock \in Nat, NEW blob \in Blob
  PROVE  /\ raised(blob) \in Blob /\ raised(blob).fails = blob.fails + 1
         /\ raised(blob).wrap = blob.wrap /\ raised(blob).mk = blob.mk
<1>1. wait_after(blob.fails + 1) \in Nat
  BY DEF wait_after
<1>2. PICK f \in Nat : f = blob.fails + 1
  BY DEF Blob
<1>3. PICK d \in Nat : d = clock + wait_after(blob.fails + 1)
  BY <1>1
<1>4. raised(blob) = [blob EXCEPT !.fails = f, !.not_before = d]
  BY <1>2, <1>3 DEF raised
<1> QED
  BY <1>2, <1>4 DEF Blob

LEMMA RaiseKeepsInv ==
  ASSUME Inv, NEW t \in Threads, raise(t)
  PROVE  Inv'
<1> USE DEF memory, history, keychain, disk
<1> DEFINE blob == job[t].blob
<1>1. /\ pc[t] = "raise" /\ Goto(t, "check")
      /\ lock' = raised(blob) /\ Keep(t, [job[t] EXCEPT !.blob = lock'])
      /\ UNCHANGED <<clock, master, attempt, minted, tried, events>>
  BY DEF raise
<1>2. Trying(t)
  BY <1>1 DEF Trying
<1>3. /\ attempt = t /\ \A u \in Threads \ {t} : ~Trying(u)
      /\ job[t] \in [op : Attempts, pin : Pins, new : Pins, blob : Blob]
      /\ blob \in Blob /\ blob.wrap \in Wraps
  BY <1>2, OneAtATime
<1>4. lock' \in Blob /\ lock'.wrap = blob.wrap /\ lock'.fails = blob.fails + 1
  BY <1>1, <1>3, Raised DEF Inv, Typed
<1>5. /\ pc' = [u \in Threads |-> pc'[u]] /\ pc'[t] = "check"
      /\ \A u \in Threads \ {t} : pc'[u] = pc[u]
      /\ job' = [u \in Threads |-> job'[u]]
      /\ job'[t] = [job[t] EXCEPT !.blob = lock']
      /\ \A u \in Threads \ {t} : job'[u] = job[u]
  BY <1>1, Goes, Keeps DEF Inv
<1>6. /\ job'[t] \in [op : Attempts, pin : Pins, new : Pins, blob : Blob]
      /\ job'[t].blob = lock'
  BY <1>3, <1>4, <1>5
<1>7. \A u \in Threads : Trying(u)' => u = t
  BY <1>3, <1>5 DEF Trying
<1>8. Typed'
  BY <1>1, <1>4, <1>5, <1>6, <1>7 DEF Inv, Typed
<1>9. OneTries'
  BY <1>1, <1>3, <1>7 DEF OneTries
<1>10. \A w \in Wraps : (Absent(w) => Absent(w)') /\ (Unused(w) => Unused(w)')
  BY <1>1, <1>2, <1>4, <1>6, <1>7 DEF Absent, Unused
<1>11. WrapsAreFresh'
  BY <1>1, <1>2, <1>5, <1>10, TriedKeepsFresh
<1>12. Counted'
  <2>1. tried[blob.wrap] <= blob.fails /\ tried[blob.wrap] \in Nat /\ blob.fails \in Nat
    BY <1>1, <1>3 DEF Inv, Typed, Counted, Blob
  <2>2. tried'[lock'.wrap] < lock'.fails /\ tried'[lock'.wrap] <= lock'.fails /\ lock'.fails <= lock'.fails
    BY <2>1, <1>1, <1>3, <1>4
  <2>3. \A u \in Threads : pc'[u] # "raise" /\ (pc'[u] = "check" => u = t)
    BY <1>5, <1>7 DEF Trying
  <2> QED
    BY <2>2, <2>3, <1>6 DEF Counted, GuessesCounted
<1>13. LastGuess'
  BY <1>1, <1>2, <1>10, OneAtATime DEF LastGuess
<1> QED
  BY <1>8, <1>9, <1>11, <1>12, <1>13 DEF Inv

LEMMA CheckKeepsInv ==
  ASSUME Inv, NEW t \in Threads, check_pin(t)
  PROVE  Inv'
<1> USE DEF memory, history, keychain, disk
<1> DEFINE blob == job[t].blob
<1>1. /\ pc[t] = "check"
      /\ UNCHANGED <<clock, lock, master, minted, events>>
  BY DEF check_pin
<1>2. Trying(t)
  BY <1>1 DEF Trying
<1>3. /\ attempt = t /\ \A u \in Threads \ {t} : ~Trying(u)
      /\ job[t] \in [op : Attempts, pin : Pins, new : Pins, blob : Blob]
      /\ blob \in Blob /\ blob.wrap \in Wraps
      /\ \A w \in Wraps : tried[w] >= MAX_ATTEMPTS /\ "interrupted" \notin events => Absent(w)
      /\ \A w \in Wraps : Unused(w) => blob.wrap # w
  BY <1>2, OneAtATime
<1>4. CASE Goto(t, "reset") /\ UNCHANGED <<job, attempt, tried>>
  <2>1. /\ pc' = [u \in Threads |-> pc'[u]] /\ pc'[t] = "reset"
        /\ \A u \in Threads \ {t} : pc'[u] = pc[u]
    BY <1>4, Goes DEF Inv
  <2>2. \A u \in Threads : Trying(u)' => u = t
    BY <1>3, <2>1 DEF Trying
  <2>3. Typed'
    BY <1>1, <1>3, <1>4, <2>1, <2>2 DEF Inv, Typed
  <2>4. OneTries'
    BY <1>3, <1>4, <2>2 DEF OneTries
  <2>5. \A w \in Wraps : (Absent(w) => Absent(w)') /\ (Unused(w) => Unused(w)')
    BY <1>1, <1>2, <1>4, <2>2 DEF Absent, Unused
  <2>6. WrapsAreFresh'
    BY <1>1, <1>2, <1>4, <2>1, <2>5, TriedKeepsFresh
  <2>7. Counted'
    BY <1>1, <1>4, <2>1, <2>2 DEF Inv, Counted, GuessesCounted, Trying
  <2>8. LastGuess'
    BY <1>1, <1>3, <1>4, <2>5 DEF LastGuess
  <2> QED
    BY <2>3, <2>4, <2>6, <2>7, <2>8 DEF Inv
<1>5. ASSUME tried' = [tried EXCEPT ![blob.wrap] = @ + 1],
             \/ last_attempt(blob) /\ Goto(t, "shred") /\ UNCHANGED <<job, attempt>>
             \/ ~last_attempt(blob) /\ Goto(t, "idle") /\ Keep(t, NoJob) /\ Release(t)
      PROVE  Inv'
  <2>1. /\ pc' = [u \in Threads |-> pc'[u]]
        /\ \/ pc'[t] = "shred" /\ last_attempt(blob) /\ attempt' = t
           \/ pc'[t] = "idle" /\ ~last_attempt(blob)
        /\ \A u \in Threads \ {t} : pc'[u] = pc[u]
    BY <1>3, <1>5, Goes DEF Inv
  <2>2. /\ job' = [u \in Threads |-> job'[u]]
        /\ \A u \in Threads \ {t} : job'[u] = job[u]
    <3>1. CASE job' = job
      BY <3>1 DEF Inv, Typed
    <3>2. CASE Keep(t, NoJob)
      BY <3>2, Keeps DEF Inv
    <3> QED
      BY <3>1, <3>2, <1>5
  <2>3. \A u \in Threads : ~Trying(u)'
    BY <1>3, <2>1 DEF Trying
  <2>4. /\ tried[blob.wrap] < blob.fails /\ blob.fails \in Nat
        /\ lock # NoLock /\ lock.wrap = blob.wrap => blob.fails <= lock.fails
        /\ tried[blob.wrap] \in Nat
    BY <1>1, <1>3 DEF Inv, Typed, Counted, Blob
  <2>5. /\ tried' \in [Wraps -> Nat] /\ tried'[blob.wrap] = tried[blob.wrap] + 1
        /\ \A w \in Wraps \ {blob.wrap} : tried'[w] = tried[w]
    BY <1>3, <1>5, <2>4 DEF Inv, Typed
  <2>6. Typed'
    BY <1>1, <2>1, <2>2, <2>3, <2>5 DEF Inv, Typed
  <2>7. OneTries'
    BY <2>3 DEF OneTries
  <2>8. \A w \in Wraps : (Absent(w) => Absent(w)') /\ (Unused(w) => Unused(w)')
    BY <1>1, <1>3, <2>3, <2>5 DEF Absent, Unused
  <2>9. WrapsAreFresh'
    BY <1>1, <1>2, <2>1, <2>2, <2>8, TriedKeepsFresh
  <2>10. Counted'
    <3>1. lock # NoLock => lock.wrap \in Wraps /\ lock.fails \in Nat /\ tried[lock.wrap] <= lock.fails
      BY DEF Inv, Typed, Counted, GuessesCounted, Blob
    <3>2. GuessesCounted'
      BY <3>1, <1>1, <2>4, <2>5 DEF GuessesCounted
    <3> QED
      BY <3>2, <2>3 DEF Counted, Trying
  <2>11. LastGuess'
    <3> SUFFICES ASSUME NEW w \in Wraps, tried'[w] >= MAX_ATTEMPTS, "interrupted" \notin events
                 PROVE  Absent(w)' \/ Wipes(t, w)'
      BY <1>1 DEF LastGuess
    <3>1. CASE w # blob.wrap
      BY <3>1, <1>3, <2>5, <2>8
    <3>2. CASE w = blob.wrap
      <4>1. blob.fails >= MAX_ATTEMPTS
        BY <3>2, <2>4, <2>5, AttemptsAssumption
      <4>2. pc'[t] = "shred" /\ attempt' = t
        BY <4>1, <2>1 DEF last_attempt
      <4> QED
        BY <4>2 DEF Wipes, wiping
    <3> QED
      BY <3>1, <3>2
  <2> QED
    BY <2>6, <2>7, <2>9, <2>10, <2>11 DEF Inv
<1> QED
  BY <1>4, <1>5 DEF check_pin, Done

LEMMA ResetKeepsInv ==
  ASSUME Inv, NEW t \in Threads, reset(t)
  PROVE  Inv'
<1> USE DEF memory, history, keychain, disk
<1> DEFINE blob == job[t].blob
<1>1. /\ pc[t] = "reset"
      /\ lock' = [blob EXCEPT !.fails = 0, !.not_before = 0]
      /\ master' = [master EXCEPT ![proc[t]] = blob.mk]
      /\ tried' = [tried EXCEPT ![blob.wrap] = 0]
      /\ UNCHANGED <<clock, minted, events>>
  BY DEF reset
<1>2. Trying(t)
  BY <1>1 DEF Trying
<1>3. /\ \A u \in Threads \ {t} : ~Trying(u)
      /\ job[t] \in [op : Attempts, pin : Pins, new : Pins, blob : Blob]
      /\ blob \in Blob /\ blob.wrap \in Wraps
      /\ \A w \in Wraps : tried[w] >= MAX_ATTEMPTS /\ "interrupted" \notin events => Absent(w)
      /\ \A w \in Wraps : Unused(w) => blob.wrap # w
  BY <1>2, OneAtATime
<1>4. \E l \in {"idle", "change_save", "shred"} : Goto(t, l) /\ \E j :
           /\ Keep(t, j)
           /\ l = "change_save" => j = [op |-> "change", new |-> job[t].new]
  <2>1. job[t].op \in Attempts
    BY <1>3
  <2>2. CASE job[t].op = "unlock"
    <3>1. Goto(t, "idle") /\ Keep(t, NoJob)
      BY <2>2 DEF reset, Done
    <3> QED
      BY <3>1
  <2>3. CASE job[t].op = "change"
    <3>1. Goto(t, "change_save") /\ Keep(t, [op |-> "change", new |-> job[t].new])
      BY <2>3 DEF reset
    <3> QED
      BY <3>1
  <2>4. CASE job[t].op = "panic"
    <3>1. Goto(t, "shred") /\ Keep(t, [op |-> "panic"])
      BY <2>4 DEF reset
    <3> QED
      BY <3>1
  <2> QED
    BY <2>1, <2>2, <2>3, <2>4 DEF Attempts
<1>l. PICK l \in {"idle", "change_save", "shred"} : Goto(t, l) /\ \E j :
        /\ Keep(t, j)
        /\ l = "change_save" => j = [op |-> "change", new |-> job[t].new]
  BY <1>4
<1>5. PICK j : Keep(t, j) /\ (l = "change_save" => j = [op |-> "change", new |-> job[t].new])
  BY <1>l
<1>6. /\ pc' = [u \in Threads |-> pc'[u]] /\ pc'[t] = l
      /\ \A u \in Threads \ {t} : pc'[u] = pc[u]
      /\ job' = [u \in Threads |-> job'[u]] /\ job'[t] = j
      /\ \A u \in Threads \ {t} : job'[u] = job[u]
  BY <1>l, <1>5, Goes, Keeps DEF Inv
<1>7. \A u \in Threads : ~Trying(u)'
  BY <1>3, <1>6 DEF Trying
<1>8. lock' \in Blob /\ lock'.wrap = blob.wrap /\ lock'.fails = 0 /\ blob.mk \in Masters
  BY <1>1, <1>3 DEF Blob
<1>9. /\ tried' \in [Wraps -> Nat] /\ tried'[blob.wrap] = 0
      /\ \A w \in Wraps \ {blob.wrap} : tried'[w] = tried[w]
  BY <1>1, <1>3 DEF Inv, Typed
<1>10. master' \in [Procs -> Masters \cup {Nothing}]
  BY <1>1, <1>8, AttemptsAssumption DEF Inv, Typed
<1>11. Typed'
  <2>1. ASSUME NEW u \in Threads
        PROVE  /\ pc'[u] \in {"pin_save", "pin_check"} =>
                    job'[u] \in [op : {"set"}, pin : Pins, mk : Masters, wrap : Wraps]
               /\ pc'[u] = "attempt" => job'[u] \in [op : Attempts, pin : Pins, new : Pins]
               /\ pc'[u] = "change_save" => job'[u].new \in Pins
    <3>1. CASE u = t
      <4>1. l = "change_save" => j.new \in Pins
        BY <1>3, <1>5
      <4> QED
        BY <3>1, <4>1, <1>6
    <3>2. CASE u # t
      BY <3>2, <1>6 DEF Inv, Typed
    <3> QED
      BY <3>1, <3>2
  <2> QED
    BY <2>1, <1>1, <1>6, <1>7, <1>8, <1>9, <1>10 DEF Inv, Typed
<1>12. OneTries'
  BY <1>7 DEF OneTries
<1>13. \A w \in Wraps : w # blob.wrap => Absent(w)'
  BY <1>7, <1>8 DEF Absent
<1>14. \A w \in Wraps : Unused(w) => Unused(w)'
  BY <1>3, <1>9, <1>13 DEF Unused
<1>15. WrapsAreFresh'
  BY <1>1, <1>2, <1>6, <1>14, TriedKeepsFresh
<1>16. Counted'
  BY <1>7, <1>8, <1>9 DEF Counted, GuessesCounted, Trying
<1>17. LastGuess'
  BY <1>9, <1>13, AttemptsAssumption DEF LastGuess
<1> QED
  BY <1>11, <1>12, <1>15, <1>16, <1>17 DEF Inv

-----------------------------------------------------------------------------
(* The last steps of a wipe, a kill and the clock *)

(* What no step here adds: threads at work on the lock. *)
LEMMA FewerKeepFresh ==
  ASSUME Inv, minted'.wrap = minted.wrap,
         \A u \in Threads : pc'[u] = "pin_save" => pc[u] = "pin_save" /\ job'[u] = job[u],
         tried' = tried, \A w \in Wraps : Absent(w) => Absent(w)'
  PROVE  WrapsAreFresh'
<1>1. \A w \in Wraps : Unused(w) => Unused(w)'
  BY DEF Unused
<1>2. ASSUME NEW u \in Threads, pc'[u] = "pin_save"
      PROVE  Unused(job[u].wrap)'
  <2>1. PICK w \in Wraps : w = job'[u].wrap /\ Unused(w)
    BY <1>2 DEF Inv, Typed, WrapsAreFresh
  <2> QED
    BY <2>1, <1>1 DEF Unused, Absent
<1> QED
  BY <1>1, <1>2 DEF Inv, WrapsAreFresh

LEMMA DestroyKeepsInv ==
  ASSUME Inv, NEW t \in Threads, destroy(t)
  PROVE  Inv'
<1> USE DEF memory, history, keychain, disk
<1>1. /\ pc[t] = "destroy" /\ Goto(t, "remove") /\ lock' = NoLock
      /\ UNCHANGED <<clock, attempt, job, minted, tried, events>>
      /\ master' = [master EXCEPT ![proc[t]] = Nothing]
  BY DEF destroy
<1>2. /\ pc' = [u \in Threads |-> pc'[u]] /\ pc'[t] = "remove"
      /\ \A u \in Threads \ {t} : pc'[u] = pc[u]
  BY <1>1, Goes DEF Inv
<1>3. \A u \in Threads : Trying(u)' => u # t /\ Trying(u)
  BY <1>2 DEF Trying
<1>4. master' \in [Procs -> Masters \cup {Nothing}]
  BY <1>1, AttemptsAssumption DEF Inv, Typed
<1>5. Typed'
  BY <1>1, <1>2, <1>3, <1>4 DEF Inv, Typed
<1>6. OneTries'
  BY <1>1, <1>3 DEF Inv, OneTries
<1>7. \A w \in Wraps : Absent(w) => Absent(w)'
  BY <1>1, <1>3 DEF Absent
<1>8. WrapsAreFresh'
  BY <1>1, <1>2, <1>7, FewerKeepFresh
<1>9. Counted'
  BY <1>1, <1>2 DEF Inv, Counted, GuessesCounted
<1>10. \A u \in Threads, w \in Wraps : Wipes(u, w) => Wipes(u, w)'
  BY <1>1, <1>2 DEF Wipes, wiping
<1>11. LastGuess'
  BY <1>1, <1>7, <1>10 DEF Inv, LastGuess
<1> QED
  BY <1>5, <1>6, <1>8, <1>9, <1>11 DEF Inv

LEMMA RemoveKeepsInv ==
  ASSUME Inv, NEW t \in Threads, remove_dirs(t)
  PROVE  Inv'
<1> USE DEF memory, history, keychain, disk
<1>1. /\ pc[t] = "remove" /\ Goto(t, "idle") /\ Keep(t, NoJob)
      /\ attempt' = IF attempt = t THEN NoThread ELSE attempt
      /\ UNCHANGED <<clock, lock, master, minted, tried, events>>
  BY DEF remove_dirs, Done, Release
<1>2. /\ pc' = [u \in Threads |-> pc'[u]] /\ pc'[t] = "idle"
      /\ \A u \in Threads \ {t} : pc'[u] = pc[u]
      /\ job' = [u \in Threads |-> job'[u]]
      /\ \A u \in Threads \ {t} : job'[u] = job[u]
  BY <1>1, Goes, Keeps DEF Inv
<1>3. \A u \in Threads : Trying(u)' => u # t /\ Trying(u) /\ job'[u] = job[u]
  BY <1>2 DEF Trying
<1>4. Typed'
  BY <1>1, <1>2, <1>3 DEF Inv, Typed
<1>5. OneTries'
  BY <1>1, <1>3 DEF Inv, OneTries
<1>6. \A w \in Wraps : Absent(w) => Absent(w)'
  BY <1>1, <1>3 DEF Absent
<1>7. WrapsAreFresh'
  BY <1>1, <1>2, <1>6, FewerKeepFresh
<1>8. Counted'
  BY <1>1, <1>2 DEF Inv, Counted, GuessesCounted
<1>9. ASSUME NEW w \in Wraps, NEW u \in Threads, Wipes(u, w)
      PROVE  Absent(w)' \/ Wipes(u, w)'
  <2>1. CASE u = t
    <3>1. \A v \in Threads : ~Trying(v)
      BY <1>1, <1>9, <2>1 DEF Inv, OneTries, Wipes, Trying
    <3>2. lock # NoLock => lock.wrap # w
      BY <1>1, <1>9, <2>1 DEF Wipes
    <3> QED
      BY <3>1, <3>2, <1>1, <1>3 DEF Absent
  <2>2. CASE u # t
    BY <2>2, <1>1, <1>2, <1>9 DEF Wipes, wiping
  <2> QED
    BY <2>1, <2>2
<1>10. LastGuess'
  BY <1>1, <1>6, <1>9 DEF Inv, LastGuess
<1> QED
  BY <1>4, <1>5, <1>7, <1>8, <1>10 DEF Inv

LEMMA KillKeepsInv ==
  ASSUME Inv, NEW p \in Procs, kill(p)
  PROVE  Inv'
<1> USE DEF memory, history, keychain, disk
<1> DEFINE own == {t \in Threads : proc[t] = p}
<1>1. /\ pc' = [t \in Threads |-> IF t \in own THEN "idle" ELSE pc[t]]
      /\ job' = [t \in Threads |-> IF t \in own THEN NoJob ELSE job[t]]
      /\ master' = [master EXCEPT ![p] = Nothing]
      /\ attempt' = IF attempt \in own THEN NoThread ELSE attempt
      /\ events' = IF \E t \in own : at_the_wipe(t) THEN events \cup {"interrupted"} ELSE events
      /\ minted' = [minted EXCEPT !.kills = @ + 1]
      /\ UNCHANGED <<clock, lock, tried>>
  BY DEF kill
<1>2. /\ minted' \in [mk : Nat, wrap : Nat, id : Nat, kills : Nat]
      /\ minted'.wrap = minted.wrap
      /\ master' \in [Procs -> Masters \cup {Nothing}]
  BY <1>1 DEF Inv, Typed
<1>3. \A u \in Threads :
        pc'[u] # "idle" => u \notin own /\ pc'[u] = pc[u] /\ job'[u] = job[u]
  BY <1>1
<1>4. \A u \in Threads : Trying(u)' => u \notin own /\ Trying(u) /\ job'[u] = job[u]
  BY <1>3 DEF Trying
<1>5. Typed'
  <2>1. pc' = [u \in Threads |-> pc'[u]] /\ job' = [u \in Threads |-> job'[u]]
    BY <1>1
  <2> QED
    BY <2>1, <1>1, <1>2, <1>3, <1>4 DEF Inv, Typed
<1>6. OneTries'
  BY <1>1, <1>4 DEF Inv, OneTries
<1>7. \A w \in Wraps : Absent(w) => Absent(w)'
  BY <1>1, <1>4 DEF Absent
<1>8. WrapsAreFresh'
  BY <1>1, <1>2, <1>3, <1>7, FewerKeepFresh
<1>9. Counted'
  BY <1>1, <1>3 DEF Inv, Counted, GuessesCounted
<1>10. ASSUME NEW w \in Wraps, NEW u \in Threads, Wipes(u, w), "interrupted" \notin events'
       PROVE  Wipes(u, w)'
  <2>1. u \notin own
    BY <1>1, <1>10 DEF Wipes, at_the_wipe
  <2> QED
    BY <2>1, <1>1, <1>10 DEF Wipes, wiping
<1>11. LastGuess'
  <2>1. "interrupted" \notin events' => "interrupted" \notin events
    BY <1>1
  <2> QED
    BY <2>1, <1>1, <1>7, <1>10 DEF Inv, LastGuess
<1> QED
  BY <1>5, <1>6, <1>8, <1>9, <1>11 DEF Inv

LEMMA TickKeepsInv ==
  ASSUME Inv, clock' \in Nat, UNCHANGED <<lock, master, minted, pc, job, attempt, tried, events>>
  PROVE  Inv'
<1>1. \A u \in Threads : Trying(u)' <=> Trying(u)
  BY DEF Trying
<1>2. \A w \in Wraps : Absent(w) => Absent(w)'
  BY <1>1 DEF Absent
<1>3. Typed'
  BY <1>1 DEF Inv, Typed
<1>4. OneTries'
  BY <1>1 DEF Inv, OneTries
<1>5. WrapsAreFresh'
  BY <1>2, FewerKeepFresh
<1>6. Counted'
  BY DEF Inv, Counted, GuessesCounted
<1>7. LastGuess'
  BY <1>2 DEF Inv, LastGuess, Wipes, wiping
<1> QED
  BY <1>3, <1>4, <1>5, <1>6, <1>7 DEF Inv

-----------------------------------------------------------------------------
(* All steps *)

LEMMA OtherStepsAreAside ==
  ASSUME Inv, NEW t \in Threads,
         \/ pin_check(t) \/ wrap_get(t) \/ wrap_put(t) \/ wrap_done(t)
         \/ change_check(t) \/ change_done(t) \/ lock_app(t) \/ shred_all(t)
         \/ \E f \in Profiles : begin_write(t, f)
         \/ use_key(t) \/ new_key(t) \/ key_put(t) \/ link(t) \/ write_file(t)
  PROVE  Aside(t)
<1> USE DEF memory, history, keychain, disk, Done
<1>1. /\ minted \in [mk : Nat, wrap : Nat, id : Nat, kills : Nat]
      /\ master \in [Procs -> Masters \cup {Nothing}]
      /\ proc[t] \in Procs
  BY AttemptsAssumption DEF Inv, Typed
<1>2. CASE pin_check(t)
  <2>1. pc[t] = "pin_check" /\ job[t].mk \in Masters
    BY <1>2 DEF pin_check, Inv, Typed
  <2>2. master' \in [Procs -> Masters \cup {Nothing}]
    BY <1>1, <1>2, <2>1 DEF pin_check
  <2>3. Moves(t)
    BY <1>2, <2>1 DEF pin_check, Moves, Elsewhere, wiping
  <2> QED
    BY <1>1, <1>2, <2>2, <2>3 DEF pin_check, Aside
<1>3. CASE wrap_get(t)
  <2>1. pc[t] = "wrap" /\ pc = [u \in Threads |-> pc[u]]
    BY <1>3 DEF wrap_get, Inv, Typed
  <2>2. PICK f \in job[t].todo :
          LET id == vaultfile[f]
              rest == job[t].todo \ {f}
          IN  \/ Keep(t, [job[t] EXCEPT !.todo = rest]) /\ pc' = pc
              \/ Goto(t, "wrap_put") /\ Keep(t, [op |-> "set", todo |-> rest, id |-> id])
              \/ Goto(t, "idle") /\ Keep(t, NoJob)
    BY <1>3 DEF wrap_get
  <2>3. pc' = pc => Goto(t, "wrap")
    BY <2>1 DEF Goto
  <2>4. Moves(t)
    BY <2>1, <2>2, <2>3 DEF Moves, Elsewhere, wiping
  <2> QED
    BY <1>1, <1>3, <2>4 DEF wrap_get, Aside
<1>4. CASE wrap_put(t) \/ wrap_done(t)
  <2>1. Moves(t)
    BY <1>4 DEF wrap_put, wrap_done, Moves, Elsewhere, wiping
  <2> QED
    BY <1>1, <1>4, <2>1 DEF wrap_put, wrap_done, Aside
<1>5. CASE change_check(t) \/ change_done(t)
  <2>1. Moves(t)
    BY <1>5 DEF change_check, change_done, Moves, Elsewhere, wiping
  <2> QED
    BY <1>1, <1>5, <2>1 DEF change_check, change_done, Aside
<1>6. CASE lock_app(t)
  BY <1>1, <1>6 DEF lock_app, Aside, Moves
<1>7. CASE shred_all(t)
  BY <1>1, <1>7 DEF shred_all, Aside, Moves, Elsewhere
<1>8. ASSUME NEW f \in Profiles, begin_write(t, f)
      PROVE  Aside(t)
  <2>1. Moves(t)
    BY <1>8 DEF begin_write, may_begin, Moves, Elsewhere, wiping
  <2> QED
    BY <1>1, <1>8, <2>1 DEF begin_write, Aside
<1>9. CASE use_key(t)
  <2>1. Moves(t)
    BY <1>9 DEF use_key, Moves, Elsewhere, wiping
  <2> QED
    BY <1>1, <1>9, <2>1 DEF use_key, Aside
<1>10. CASE new_key(t)
  <2>1. Moves(t)
    BY <1>10 DEF new_key, Moves, Elsewhere, wiping
  <2>2. minted' \in [mk : Nat, wrap : Nat, id : Nat, kills : Nat] /\ minted'.wrap = minted.wrap
    BY <1>1, <1>10 DEF new_key
  <2> QED
    BY <1>1, <1>10, <2>1, <2>2 DEF new_key, Aside
<1>11. CASE key_put(t)
  <2>1. Moves(t)
    BY <1>11 DEF key_put, Moves, Elsewhere, wiping
  <2> QED
    BY <1>1, <1>11, <2>1 DEF key_put, Aside
<1>12. CASE link(t) \/ write_file(t)
  <2>1. CASE link(t)
    <3>1. \/ Goto(t, "winner") /\ Keep(t, [op |-> "write", f |-> job[t].f])
          \/ Goto(t, "write") /\ job' = job
      BY <2>1 DEF link
    <3>2. Moves(t)
      BY <3>1, <2>1 DEF link, Moves, Elsewhere, wiping
    <3> QED
      BY <1>1, <2>1, <3>2 DEF link, Aside
  <2>2. CASE write_file(t)
    <3>1. Moves(t)
      BY <2>2 DEF write_file, Moves, Elsewhere, wiping
    <3> QED
      BY <1>1, <2>2, <3>1 DEF write_file, Aside
  <2> QED
    BY <1>12, <2>1, <2>2
<1> QED
  BY <1>2, <1>3, <1>4, <1>5, <1>6, <1>7, <1>8, <1>9, <1>10, <1>11, <1>12

LEMMA NextKeepsInv == Inv /\ [Next]_vars => Inv'
<1> SUFFICES ASSUME Inv, [Next]_vars PROVE Inv'
  OBVIOUS
<1>1. CASE UNCHANGED vars
  BY <1>1, TickKeepsInv DEF vars, keychain, memory, history, Inv, Typed
<1>2. CASE tick
  BY <1>2, TickKeepsInv DEF tick, keychain, memory, history, Inv, Typed
<1>3. ASSUME NEW p \in Procs, kill(p) PROVE Inv'
  BY <1>3, KillKeepsInv
<1>4. ASSUME NEW t \in Threads, NEW pin \in Pins, set_pin(t, pin) PROVE Inv'
  BY <1>4, SetKeepsInv
<1>5. ASSUME NEW t \in Threads, NEW pin \in Pins, NEW new \in Pins,
             NEW op \in {"unlock", "change", "panic"}, begin_attempt(t, op, pin, new)
      PROVE  Inv'
  BY <1>5, BeginKeepsInv DEF Attempts
<1>6. ASSUME NEW t \in Threads,
             \/ pin_save(t) \/ load_attempt(t) \/ raise(t) \/ check_pin(t) \/ reset(t)
             \/ change_save(t) \/ destroy(t) \/ remove_dirs(t)
      PROVE  Inv'
  BY <1>6, PinSaveKeepsInv, LoadKeepsInv, RaiseKeepsInv, CheckKeepsInv, ResetKeepsInv,
     ChangeSaveKeepsInv, DestroyKeepsInv, RemoveKeepsInv
<1>7. ASSUME NEW t \in Threads,
             \/ pin_check(t) \/ wrap_get(t) \/ wrap_put(t) \/ wrap_done(t)
             \/ change_check(t) \/ change_done(t) \/ lock_app(t) \/ shred_all(t)
             \/ \E f \in Profiles : begin_write(t, f)
             \/ use_key(t) \/ new_key(t) \/ key_put(t) \/ link(t) \/ write_file(t)
      PROVE  Inv'
  BY <1>7, OtherStepsAreAside, AsideKeepsInv
<1> QED
  BY <1>1, <1>2, <1>3, <1>4, <1>5, <1>6, <1>7 DEF Next

LEMMA InitHasInv == Init => Inv
<1> SUFFICES ASSUME Init PROVE Inv
  OBVIOUS
<1> USE DEF Init
<1>1. /\ \A t \in Threads : pc[t] = "idle" /\ ~Trying(t)
      /\ lock = NoLock /\ \A w \in Wraps : tried[w] = 0
  BY DEF Trying
<1>2. Typed
  BY <1>1 DEF Typed, Wraps
<1>3. OneTries /\ WrapsAreFresh
  BY <1>1 DEF OneTries, WrapsAreFresh, Unused, Absent
<1>4. Counted
  BY <1>1 DEF Counted, GuessesCounted
<1>5. LastGuess
  BY <1>1, AttemptsAssumption DEF LastGuess
<1> QED
  BY <1>2, <1>3, <1>4, <1>5 DEF Inv

LEMMA InvHolds == Spec => []Inv
  BY InitHasInv, NextKeepsInv, PTL DEF Spec

(* N guesses spend N attempts: the wrong PINs checked against the stored    *)
(* wrap never exceed its saved counter, however many threads and processes  *)
(* guess at once, wherever they are killed, and whatever change_pin and a   *)
(* wipe write in between.                                                   *)
THEOREM EveryGuessCounts == Spec => []GuessesCounted
<1>1. Inv => GuessesCounted
  BY DEF Inv, Counted
<1> QED
  BY <1>1, InvHolds, PTL

(* A wrap that took MAX_ATTEMPTS wrong PINs is stored only while the wipe   *)
(* that the last one began is under way, unless its process was killed:     *)
(* nothing another process does keeps it or brings it back.                 *)
THEOREM LastGuessWipes == Spec => []TenthWrongWipes
<1>1. ASSUME Inv PROVE TenthWrongWipes
  <2> SUFFICES ASSUME lock # NoLock, tried[lock.wrap] >= MAX_ATTEMPTS, "interrupted" \notin events
               PROVE  \E t \in Threads : wiping(t)
    BY DEF TenthWrongWipes
  <2>1. PICK w \in Wraps : w = lock.wrap
    BY <1>1 DEF Inv, Typed, Blob
  <2> QED
    BY <1>1, <2>1 DEF Inv, LastGuess, Absent, Wipes
<1> QED
  BY <1>1, InvHolds, PTL

-----------------------------------------------------------------------------
(* Keys and the files sealed under them, until a panic wipe *)

Calm == "wipe" \notin events

Writing == {"key", "winner", "mint", "link", "write"}
Creating(t) == pc[t] \in {"mint", "link"}
Created(id) == id \in 1..minted.id

(* A key in the making is one thread's alone and no profile's; once named   *)
(* by a profile it stays, and is the only key its file is sealed under.     *)
Named ==
  Calm =>
    /\ \A f \in Profiles : vaultfile[f] # Nothing => Created(vaultfile[f]) /\ vaultfile[f] \in DOMAIN keys
    /\ \A f \in Profiles : file[f] \in {Nothing, vaultfile[f]}
    /\ \A t \in Threads :
         /\ pc[t] \notin {"destroy", "remove"}
         /\ pc[t] \in Writing => job[t].f \in Profiles
         /\ pc[t] = "write" => job[t].id = vaultfile[job[t].f] /\ job[t].id # Nothing
         /\ pc[t] = "link" => job[t].id \in DOMAIN keys
         /\ Creating(t) =>
              /\ Created(job[t].id)
              /\ \A f \in Profiles : vaultfile[f] # Nothing => vaultfile[f] # job[t].id
              /\ \A u \in Threads \ {t} : Creating(u) => job[u].id # job[t].id

(* Every master key in a process or under way is the one the stored PIN     *)
(* opens, and a key is bare or wrapped under it: the first PIN to be saved   *)
(* brings the only master key there will be.                                *)
IsMaster(mk) == lock # NoLock /\ mk = lock.mk
OneMaster ==
  SerialFirstUse /\ Calm =>
    /\ \A p \in Procs : master[p] # Nothing => IsMaster(master[p])
    /\ \A id \in DOMAIN keys : keys[id] = Bare \/ IsMaster(keys[id])
    /\ \A t \in Threads :
         /\ Trying(t) => IsMaster(job[t].blob.mk)
         /\ pc[t] = "pin_save" => lock = NoLock
         /\ \A u \in Threads : setting(t) /\ setting(u) => t = u

Files == /\ Inv /\ Named /\ OneMaster
         /\ vaultfile = [f \in Profiles |-> vaultfile[f]]
         /\ file = [f \in Profiles |-> file[f]]

LEMMA KeyTables ==
  \A id, form :
    /\ DOMAIN with_key(id, form) = DOMAIN keys \cup {id}
    /\ \A i \in DOMAIN with_key(id, form) :
         with_key(id, form)[i] = IF i = id THEN form ELSE keys[i]
    /\ DOMAIN without_key(id) = DOMAIN keys \ {id}
    /\ \A i \in DOMAIN without_key(id) : without_key(id)[i] = keys[i]
BY DEF with_key, without_key

(* What a process may store is bare or under the one master key.             *)
LEMMA Storable ==
  ASSUME Inv, OneMaster, SerialFirstUse, Calm, NEW t \in Threads
  PROVE  /\ can_store(proc[t]) =>
              stored_form(proc[t]) = Bare \/ IsMaster(stored_form(proc[t]))
         /\ \A id \in DOMAIN keys : opens(proc[t], id) =>
              \A i \in DOMAIN key_get_keys(proc[t], id) :
                key_get_keys(proc[t], id)[i] = Bare \/ IsMaster(key_get_keys(proc[t], id)[i])
<1>1. proc[t] \in Procs
  BY AttemptsAssumption
<1>2. can_store(proc[t]) => stored_form(proc[t]) = Bare \/ IsMaster(stored_form(proc[t]))
  BY <1>1 DEF OneMaster, can_store, stored_form
<1>3. ASSUME NEW id \in DOMAIN keys, opens(proc[t], id), NEW i \in DOMAIN key_get_keys(proc[t], id)
      PROVE  key_get_keys(proc[t], id)[i] = Bare \/ IsMaster(key_get_keys(proc[t], id)[i])
  <2>1. keys[id] = Bare => can_store(proc[t])
    BY <1>3 DEF opens, can_store
  <2>2. /\ i \in DOMAIN keys
        /\ key_get_keys(proc[t], id)[i] =
             IF i = id /\ keys[id] = Bare THEN stored_form(proc[t]) ELSE keys[i]
    <3> DEFINE form == IF keys[id] = Bare THEN stored_form(proc[t]) ELSE keys[id]
    <3>1. key_get_keys(proc[t], id) = with_key(id, form)
      BY DEF key_get_keys
    <3> HIDE DEF form
    <3>2. i \in DOMAIN keys /\ with_key(id, form)[i] = IF i = id THEN form ELSE keys[i]
      BY <1>3, <3>1 DEF with_key
    <3> QED
      BY <3>1, <3>2 DEF form
  <2> QED
    BY <1>2, <2>1, <2>2 DEF OneMaster
<1> QED
  BY <1>2, <1>3

(* A step of one thread leaves the others where they are.                    *)
LEMMA OthersRest ==
  ASSUME Inv, NEW t \in Threads,
         \/ \E pin \in Pins : set_pin(t, pin)
         \/ pin_save(t) \/ pin_check(t) \/ wrap_get(t) \/ wrap_put(t) \/ wrap_done(t)
         \/ \E pin, new \in Pins, op \in Attempts : begin_attempt(t, op, pin, new)
         \/ load_attempt(t) \/ raise(t) \/ check_pin(t) \/ reset(t)
         \/ change_save(t) \/ change_check(t) \/ change_done(t) \/ lock_app(t)
         \/ shred_all(t) \/ destroy(t) \/ remove_dirs(t)
         \/ \E f \in Profiles : begin_write(t, f)
         \/ use_key(t) \/ new_key(t) \/ key_put(t) \/ link(t) \/ write_file(t)
  PROVE  \A u \in Threads \ {t} : pc'[u] = pc[u] /\ job'[u] = job[u]
<1> USE DEF Done
<1> DEFINE Rests == (pc' = pc \/ \E l : Goto(t, l)) /\ (job' = job \/ \E j : Keep(t, j))
<1>1. ASSUME (\E pin \in Pins : set_pin(t, pin)) \/ pin_save(t) \/ pin_check(t)
           \/ wrap_put(t) \/ wrap_done(t) \/ wrap_get(t)
      PROVE  Rests
  BY <1>1 DEF set_pin, pin_save, pin_check, wrap_put, wrap_done, wrap_get
<1>2. ASSUME \E pin, new \in Pins, op \in Attempts : begin_attempt(t, op, pin, new)
      PROVE  Rests
  BY <1>2 DEF begin_attempt
<1>3. ASSUME load_attempt(t) \/ raise(t) \/ check_pin(t)
      PROVE  Rests
  BY <1>3 DEF load_attempt, raise, check_pin
<1>4. ASSUME reset(t)
      PROVE  Rests
  <2>1. job[t].op \in Attempts
    BY <1>4 DEF reset, Trying, Inv, Typed
  <2> QED
    BY <1>4, <2>1 DEF reset, Attempts
<1>5. ASSUME change_save(t) \/ change_check(t) \/ change_done(t) \/ lock_app(t) \/ shred_all(t)
           \/ destroy(t) \/ remove_dirs(t) \/ \E f \in Profiles : begin_write(t, f)
      PROVE  Rests
  BY <1>5 DEF change_save, change_check, change_done, lock_app, shred_all, destroy, remove_dirs,
     begin_write
<1>6. ASSUME use_key(t) \/ new_key(t) \/ key_put(t) \/ link(t) \/ write_file(t)
      PROVE  Rests
  BY <1>6 DEF use_key, new_key, key_put, link, write_file
<1>7. Rests
  BY <1>1, <1>2, <1>3, <1>4, <1>5, <1>6
<1> QED
  BY <1>7, Goes, Keeps DEF Inv


(* A step away from the files keeps them named.                              *)
Quiet(t) ==
  /\ UNCHANGED <<vaultfile, file>> /\ minted'.id = minted.id
  /\ DOMAIN keys \subseteq DOMAIN keys' /\ events \subseteq events'
  /\ \A u \in Threads \ {t} : pc'[u] = pc[u] /\ job'[u] = job[u]
  /\ pc'[t] \notin Writing \cup {"destroy", "remove"}
LEMMA QuietKeepsNamed ==
  ASSUME Named, NEW t \in Threads, Quiet(t)
  PROVE  Named'
<1>1. \A u \in Threads : pc'[u] \in Writing \cup {"destroy", "remove"} =>
        u # t /\ pc'[u] = pc[u] /\ job'[u] = job[u]
  BY DEF Quiet
<1> QED
  BY <1>1 DEF Named, Calm, Quiet, Creating, Created, Writing

LEMMA QuietSteps ==
  ASSUME Files, NEW t \in Threads,
         \/ \E pin \in Pins : set_pin(t, pin)
         \/ pin_save(t) \/ pin_check(t) \/ wrap_get(t) \/ wrap_put(t) \/ wrap_done(t)
         \/ \E pin, new \in Pins, op \in Attempts : begin_attempt(t, op, pin, new)
         \/ load_attempt(t) \/ raise(t) \/ check_pin(t) \/ reset(t)
         \/ change_save(t) \/ change_check(t) \/ change_done(t) \/ lock_app(t)
  PROVE  Named'
<1>o. /\ \A u \in Threads \ {t} : pc'[u] = pc[u] /\ job'[u] = job[u]
      /\ pc = [u \in Threads |-> pc[u]]
      /\ minted \in [mk : Nat, wrap : Nat, id : Nat, kills : Nat]
  BY OthersRest DEF Files, Inv, Typed
<1> USE DEF Quiet, Writing, keychain, disk, memory, history, Done, Goto
<1>1. ASSUME (\E pin \in Pins : set_pin(t, pin)) \/ pin_save(t) \/ pin_check(t)
      PROVE  Quiet(t)
  BY <1>o, <1>1 DEF set_pin, pin_save, pin_check
<1>2. ASSUME wrap_get(t)
      PROVE  Quiet(t)
  <2>1. /\ pc'[t] \in {"wrap", "wrap_put", "idle"}
        /\ UNCHANGED <<vaultfile, file, minted, events>>
    BY <1>o, <1>2 DEF wrap_get
  <2>2. keys' = keys \/ \E id, form : keys' = with_key(id, form)
    BY <1>2 DEF wrap_get, key_get_keys
  <2>3. DOMAIN keys \subseteq DOMAIN keys'
    BY <2>2 DEF with_key
  <2> QED
    BY <1>o, <2>1, <2>3
<1>3. ASSUME wrap_put(t)
      PROVE  Quiet(t)
  <2>1. DOMAIN keys \subseteq DOMAIN keys'
    BY <1>3 DEF wrap_put, with_key
  <2> QED
    BY <1>o, <1>3, <2>1 DEF wrap_put
<1>4. ASSUME wrap_done(t) \/ (\E pin, new \in Pins, op \in Attempts : begin_attempt(t, op, pin, new))
      PROVE  Quiet(t)
  BY <1>o, <1>4 DEF wrap_done, begin_attempt
<1>5. ASSUME load_attempt(t) \/ raise(t) \/ check_pin(t)
      PROVE  Quiet(t)
  BY <1>o, <1>5 DEF load_attempt, raise, check_pin
<1>6. ASSUME reset(t)
      PROVE  Quiet(t)
  <2>1. job[t].op \in Attempts
    BY <1>6 DEF reset, Trying, Files, Inv, Typed
  <2> QED
    BY <1>o, <1>6, <2>1 DEF reset, Attempts
<1>7. ASSUME change_save(t) \/ change_check(t) \/ change_done(t)
      PROVE  Quiet(t)
  BY <1>o, <1>7 DEF change_save, change_check, change_done
<1>8. ASSUME lock_app(t)
      PROVE  Quiet(t)
  BY <1>o, <1>8 DEF lock_app, may_begin
<1> QED
  BY <1>1, <1>2, <1>3, <1>4, <1>5, <1>6, <1>7, <1>8, QuietKeepsNamed DEF Files

LEMMA FileSteps ==
  ASSUME Files, NEW t \in Threads,
         \/ shred_all(t) \/ destroy(t) \/ remove_dirs(t)
         \/ \E f \in Profiles : begin_write(t, f)
         \/ use_key(t) \/ new_key(t) \/ key_put(t) \/ link(t) \/ write_file(t)
  PROVE  Named'
<1>o. /\ \A u \in Threads \ {t} : pc'[u] = pc[u] /\ job'[u] = job[u]
      /\ pc = [u \in Threads |-> pc[u]] /\ job = [u \in Threads |-> job[u]]
      /\ vaultfile = [f \in Profiles |-> vaultfile[f]] /\ file = [f \in Profiles |-> file[f]]
      /\ minted \in [mk : Nat, wrap : Nat, id : Nat, kills : Nat]
  BY OthersRest DEF Files, Inv, Typed
<1> USE DEF keychain, disk, memory, history, Done, Goto, Keep
<1> SUFFICES ASSUME Calm' PROVE Named'
  BY DEF Named
<1>1. Calm /\ ~shred_all(t)
  BY DEF Calm, shred_all, destroy, remove_dirs, begin_write, use_key, new_key, key_put, link, write_file
<1>2. ~destroy(t) /\ ~remove_dirs(t)
  BY <1>1 DEF Files, Named, destroy, remove_dirs
<1> USE <1>1 DEF Named, Calm, Created, Creating, Writing
<1>3. ASSUME NEW f \in Profiles, begin_write(t, f)
      PROVE  Named'
  <2>1. /\ pc'[t] = "key" /\ job'[t].f = f
        /\ UNCHANGED <<keys, vaultfile, file, minted, events>>
    BY <1>o, <1>3 DEF begin_write
  <2> QED
    BY <1>o, <2>1 DEF Files
<1>4. CASE use_key(t)
  <2>1. /\ UNCHANGED <<vaultfile, file, minted, events>>
        /\ \/ pc'[t] = "idle" /\ UNCHANGED keys
           \/ /\ pc'[t] = "write" /\ job'[t].f = job[t].f /\ job'[t].id = vaultfile[job[t].f]
              /\ job'[t].id # Nothing /\ pc[t] \in {"key", "winner"}
    BY <1>o, <1>4 DEF use_key
  <2>2. DOMAIN keys \subseteq DOMAIN keys'
    <3>1. keys' = keys \/ \E id, form : keys' = with_key(id, form)
      BY <1>4 DEF use_key, key_get_keys
    <3> QED
      BY <3>1 DEF with_key
  <2> QED
    BY <1>o, <2>1, <2>2 DEF Files
<1>5. CASE new_key(t)
  <2>1. /\ UNCHANGED <<keys, vaultfile, file, events>> /\ pc[t] = "key"
        /\ \/ pc'[t] = "idle" /\ minted'.id = minted.id
           \/ /\ pc'[t] = "mint" /\ job'[t].f = job[t].f /\ job'[t].id = minted.id + 1
              /\ minted'.id = minted.id + 1
    BY <1>o, <1>5 DEF new_key
  <2>2. minted.id \in Nat
    BY <1>o
  <2>3. \A id : Created(id) => Created(id)' /\ id # minted.id + 1
    <3> DEFINE n == minted.id
               m == minted'.id
    <3>1. n \in Nat /\ m \in {n, n + 1}
      BY <2>1, <2>2
    <3> HIDE DEF n, m
    <3>2. \A id \in 1..n : id \in 1..m /\ id # n + 1
      BY <3>1
    <3> QED
      BY <3>2 DEF n, m
  <2>4. pc'[t] = "mint" => Created(job[t].id)'
    BY <2>1, <2>2
  <2> HIDE DEF Created
  <2> QED
    BY <1>o, <2>1, <2>3, <2>4 DEF Files
<1>6. CASE key_put(t)
  <2>1. /\ UNCHANGED <<vaultfile, file, minted, events>> /\ pc[t] = "mint"
        /\ \/ pc'[t] = "idle" /\ UNCHANGED keys
           \/ /\ pc'[t] = "link" /\ job' = job
              /\ DOMAIN keys' = DOMAIN keys \cup {job[t].id}
    BY <1>o, <1>6, KeyTables DEF key_put, put_new
  <2> QED
    BY <1>o, <2>1 DEF Files
<1>7. CASE link(t)
  <2> DEFINE f == job[t].f
             id == job[t].id
  <2>1. /\ pc[t] = "link" /\ f \in Profiles /\ UNCHANGED <<file, minted, events>>
    BY <1>7 DEF Files, link
  <2>2. CASE link_fails(f)
    <3>1. /\ UNCHANGED vaultfile /\ DOMAIN keys' = DOMAIN keys \ {id}
          /\ pc'[t] = "winner" /\ job'[t].f = f
      BY <1>o, <1>7, <2>2 DEF link, without_key
    <3> QED
      BY <1>o, <2>1, <3>1 DEF Files
  <2>3. CASE ~link_fails(f)
    <3>1. /\ vaultfile[f] = Nothing /\ vaultfile'[f] = id /\ UNCHANGED <<keys, job>>
          /\ \A g \in Profiles \ {f} : vaultfile'[g] = vaultfile[g]
          /\ pc'[t] = "write"
      BY <1>o, <1>7, <2>1, <2>3 DEF link, link_fails
    <3>2. Created(id) /\ id # Nothing /\ id \in DOMAIN keys
      BY <1>o, <2>1, AbsenceAssumption DEF Files
    <3>3. \A u \in Threads : pc[u] = "write" => job[u].f # f
      BY <3>1 DEF Files
    <3> QED
      BY <1>o, <2>1, <3>1, <3>2, <3>3 DEF Files
  <2> QED
    BY <2>2, <2>3
<1>8. CASE write_file(t)
  <2>1. /\ UNCHANGED <<keys, vaultfile, minted, events>> /\ pc[t] = "write" /\ pc'[t] = "idle"
        /\ job[t].f \in Profiles /\ file'[job[t].f] = job[t].id
        /\ \A g \in Profiles \ {job[t].f} : file'[g] = file[g]
    BY <1>o, <1>8 DEF write_file, Files
  <2> QED
    BY <1>o, <2>1 DEF Files
<1> QED
  BY <1>1, <1>2, <1>3, <1>4, <1>5, <1>6, <1>7, <1>8


(* A step that brings no other master key.                                   *)
SameMaster ==
  /\ lock' = lock \/ (lock # NoLock /\ lock' # NoLock /\ lock'.mk = lock.mk)
  /\ events \subseteq events'
  /\ \A p \in Procs : master'[p] \in {Nothing, master[p]} \/ IsMaster(master'[p])
  /\ \A id \in DOMAIN keys' :
       (id \in DOMAIN keys /\ keys'[id] = keys[id]) \/ keys'[id] = Bare \/ IsMaster(keys'[id])
  /\ \A t \in Threads : Trying(t)' =>
       (Trying(t) /\ job'[t].blob.mk = job[t].blob.mk) \/ IsMaster(job'[t].blob.mk)
  /\ \A t \in Threads : (pc'[t] = "pin_save" => pc[t] = "pin_save") /\ (setting(t)' => setting(t))
LEMMA SameMasterStays ==
  ASSUME OneMaster, SameMaster, lock' # lock => \A t \in Threads : pc'[t] # "pin_save"
  PROVE  OneMaster'
BY DEF OneMaster, SameMaster, IsMaster, Calm

LEMMA LockSteps ==
  ASSUME Files, SerialFirstUse, Calm, NEW t \in Threads,
         \/ load_attempt(t) \/ raise(t) \/ check_pin(t) \/ reset(t) \/ change_save(t)
  PROVE  OneMaster'
<1>o. /\ \A u \in Threads \ {t} : pc'[u] = pc[u] /\ job'[u] = job[u]
      /\ pc = [u \in Threads |-> pc[u]] /\ job = [u \in Threads |-> job[u]]
      /\ proc[t] \in Procs /\ master \in [Procs -> Masters \cup {Nothing}]
      /\ Trying(t) => job[t].blob \in Blob /\ job[t].op \in Attempts
      /\ OneMaster
  BY OthersRest, AttemptsAssumption DEF Files, Inv, Typed
<1>s. /\ Trying(t) => IsMaster(job[t].blob.mk) /\ \A u \in Threads : pc[u] # "pin_save"
      /\ master[proc[t]] # Nothing =>
           IsMaster(master[proc[t]]) /\ \A u \in Threads : pc[u] # "pin_save"
  BY <1>o DEF OneMaster, IsMaster
<1>b. NoLock \notin Blob
  BY AbsenceAssumption DEF Blob, Wraps, Masters
<1> USE DEF SameMaster, keychain, disk, memory, history, Done, Goto, Keep
<1>1. CASE load_attempt(t)
  <2>1. /\ UNCHANGED <<lock, keys, events, master>>
        /\ \/ pc'[t] = "idle"
           \/ pc'[t] = "raise" /\ lock # NoLock /\ job'[t].blob = lock
    BY <1>o, <1>1 DEF load_attempt
  <2> QED
    BY <1>o, <2>1, SameMasterStays DEF Trying, setting, IsMaster
<1>2. CASE raise(t)
  <2>1. /\ pc[t] = "raise" /\ pc'[t] = "check" /\ UNCHANGED <<keys, events, master>>
        /\ lock' = raised(job[t].blob) /\ job'[t].blob = lock'
    <3>1. job[t] \in [op : Attempts, pin : Pins, new : Pins, blob : Blob]
      BY <1>2 DEF raise, Trying, Files, Inv, Typed
    <3> QED
      BY <1>o, <1>2, <3>1 DEF raise
  <2>2. lock' # NoLock /\ lock'.mk = job[t].blob.mk
    <3>1. job[t].blob \in Blob /\ clock \in Nat
      BY <1>o, <2>1 DEF Trying, Files, Inv, Typed
    <3>2. lock' \in Blob /\ lock'.mk = job[t].blob.mk
      BY <2>1, <3>1, Raised
    <3> QED
      BY <1>b, <3>2
  <2> QED
    BY <1>o, <1>s, <2>1, <2>2, SameMasterStays DEF Trying, setting, IsMaster
<1>3. CASE check_pin(t)
  <2>1. /\ pc[t] = "check" /\ pc'[t] \in {"reset", "shred", "idle"}
        /\ UNCHANGED <<lock, keys, master>> /\ events' = events
        /\ pc'[t] = "reset" => job' = job
    BY <1>o, <1>3 DEF check_pin
  <2> QED
    BY <1>o, <2>1, SameMasterStays DEF Trying, setting
<1>4. CASE reset(t)
  <2>1. /\ pc[t] = "reset" /\ pc'[t] \in {"idle", "change_save", "shred"} /\ UNCHANGED <<keys, events>>
        /\ lock' = [job[t].blob EXCEPT !.fails = 0, !.not_before = 0]
        /\ master' = [master EXCEPT ![proc[t]] = job[t].blob.mk]
    BY <1>o, <1>4 DEF reset, Trying, Attempts
  <2>2. lock' # NoLock /\ lock'.mk = job[t].blob.mk
    <3>1. job[t].blob \in Blob
      BY <1>o, <2>1 DEF Trying
    <3>2. lock' \in Blob /\ lock'.mk = job[t].blob.mk
      BY <2>1, <3>1 DEF Blob
    <3> QED
      BY <1>b, <3>2
  <2> QED
    BY <1>o, <1>s, <2>1, <2>2, SameMasterStays DEF Trying, setting, IsMaster
<1>5. CASE change_save(t)
  <2>1. /\ pc[t] = "change_save" /\ pc'[t] \in {"idle", "change_check"}
        /\ UNCHANGED <<keys, events, master>>
        /\ \/ UNCHANGED lock
           \/ /\ master[proc[t]] # Nothing
              /\ \E w, pin : lock' = [wrap |-> w, pin |-> pin, mk |-> master[proc[t]],
                                     fails |-> 0, not_before |-> 0]
    BY <1>o, <1>5 DEF change_save
  <2>2. UNCHANGED lock \/ lock' # NoLock
    <3>1. CASE master[proc[t]] # Nothing
      <4>1. minted.wrap + 1 \in Wraps /\ job[t].new \in Pins /\ master[proc[t]] \in Masters
            /\ lock' = [wrap |-> minted.wrap + 1, pin |-> job[t].new, mk |-> master[proc[t]],
                        fails |-> 0, not_before |-> 0]
        BY <1>o, <1>5, <3>1, BoundsAssumption DEF change_save, Wraps, Files, Inv, Typed
      <4>2. lock' \in Blob
        BY <4>1 DEF Blob
      <4> QED
        BY <1>b, <4>2
    <3> QED
      BY <2>1, <3>1
  <2>3. UNCHANGED lock \/ (lock' # NoLock /\ lock'.mk = master[proc[t]] /\ master[proc[t]] # Nothing)
    BY <2>1, <2>2
  <2> QED
    BY <1>o, <1>s, <2>1, <2>3, SameMasterStays DEF Trying, setting, IsMaster
<1> QED
  BY <1>1, <1>2, <1>3, <1>4, <1>5

LEMMA FirstPinSteps ==
  ASSUME Files, SerialFirstUse, Calm, NEW t \in Threads,
         (\E pin \in Pins : set_pin(t, pin)) \/ pin_save(t) \/ pin_check(t)
  PROVE  OneMaster'
<1>o. /\ \A u \in Threads \ {t} : pc'[u] = pc[u] /\ job'[u] = job[u]
      /\ pc = [u \in Threads |-> pc[u]] /\ job = [u \in Threads |-> job[u]]
      /\ proc[t] \in Procs /\ master \in [Procs -> Masters \cup {Nothing}]
      /\ OneMaster
  BY OthersRest, AttemptsAssumption DEF Files, Inv, Typed
<1> USE DEF keychain, disk, memory, history, Done, Goto, Keep
<1>1. ASSUME NEW pin \in Pins, set_pin(t, pin) PROVE OneMaster'
  <2>1. /\ UNCHANGED <<lock, keys, events, master>> /\ pc[t] = "idle" /\ pc'[t] = "pin_save"
        /\ lock = NoLock /\ \A u \in Threads : ~setting(u)
    BY <1>o, <1>1 DEF set_pin, may_begin
  <2> QED
    BY <1>o, <2>1 DEF OneMaster, Trying, setting, IsMaster, Calm
<1>2. CASE pin_save(t)
  <2>1. /\ UNCHANGED <<keys, events, master, job>> /\ pc[t] = "pin_save" /\ pc'[t] = "pin_check"
        /\ lock = NoLock
    BY <1>o, <1>2 DEF pin_save, OneMaster
  <2>2. /\ \A p \in Procs : master[p] = Nothing
        /\ \A id \in DOMAIN keys : keys[id] = Bare
        /\ \A u \in Threads : ~Trying(u) /\ (u # t => ~setting(u))
    BY <1>o, <2>1 DEF OneMaster, IsMaster, setting
  <2> QED
    BY <1>o, <2>1, <2>2 DEF OneMaster, Trying, setting, IsMaster, Calm
<1>3. CASE pin_check(t)
  <2>1. /\ UNCHANGED <<lock, keys, events>> /\ pc[t] = "pin_check" /\ pc'[t] \in {"wrap", "idle"}
        /\ \/ UNCHANGED master
           \/ lock # NoLock /\ master' = [master EXCEPT ![proc[t]] = lock.mk]
    BY <1>o, <1>3 DEF pin_check, reads_back
  <2>2. SameMaster
    BY <1>o, <2>1 DEF SameMaster, IsMaster, Trying, setting
  <2> QED
    BY <1>o, <2>1, <2>2, SameMasterStays
<1> QED
  BY <1>1, <1>2, <1>3

LEMMA KeySteps ==
  ASSUME Files, SerialFirstUse, Calm, NEW t \in Threads,
         \/ wrap_get(t) \/ wrap_put(t) \/ wrap_done(t)
         \/ \E pin, new \in Pins, op \in Attempts : begin_attempt(t, op, pin, new)
         \/ change_check(t) \/ change_done(t) \/ lock_app(t)
         \/ shred_all(t) \/ destroy(t) \/ remove_dirs(t)
         \/ \E f \in Profiles : begin_write(t, f)
         \/ use_key(t) \/ new_key(t) \/ key_put(t) \/ link(t) \/ write_file(t)
  PROVE  OneMaster'
<1>o. /\ \A u \in Threads \ {t} : pc'[u] = pc[u] /\ job'[u] = job[u]
      /\ pc = [u \in Threads |-> pc[u]] /\ job = [u \in Threads |-> job[u]]
      /\ proc[t] \in Procs /\ master \in [Procs -> Masters \cup {Nothing}]
      /\ OneMaster
  BY OthersRest, AttemptsAssumption DEF Files, Inv, Typed
<1> USE DEF keychain, disk, memory, history, Done, Goto, Keep
<1>a. ASSUME UNCHANGED lock, events \subseteq events',
             master' = master \/ master' = [master EXCEPT ![proc[t]] = Nothing],
             \A id \in DOMAIN keys' :
               (id \in DOMAIN keys /\ keys'[id] = keys[id]) \/ keys'[id] = Bare \/ IsMaster(keys'[id]),
             (pc' = pc /\ job' = job) \/ pc'[t] \in Elsewhere \cup {"attempt"}
      PROVE  OneMaster'
  <2>1. SameMaster
    BY <1>o, <1>a DEF SameMaster, Trying, setting, Elsewhere
  <2> QED
    BY <1>o, <1>a, <2>1, SameMasterStays
<1>1. CASE destroy(t) \/ remove_dirs(t)
  BY <1>1 DEF Files, Named, destroy, remove_dirs
<1>2. CASE shred_all(t)
  BY <1>2 DEF shred_all, OneMaster, Calm
<1>3. CASE wrap_done(t) \/ change_check(t) \/ change_done(t) \/ lock_app(t)
           \/ (\E f \in Profiles : begin_write(t, f)) \/ new_key(t) \/ write_file(t)
           \/ (\E pin, new \in Pins, op \in Attempts : begin_attempt(t, op, pin, new))
  BY <1>a, <1>o, <1>3 DEF wrap_done, change_check, change_done, lock_app, begin_write, new_key,
     write_file, begin_attempt, Elsewhere
<1>4. CASE link(t)
  <2>1. /\ UNCHANGED <<lock, master, events>> /\ pc'[t] \in {"winner", "write"}
        /\ keys' = keys \/ \E id : keys' = without_key(id)
    BY <1>o, <1>4 DEF link
  <2> QED
    BY <1>a, <2>1 DEF without_key, Elsewhere
<1>k. /\ can_store(proc[t]) => stored_form(proc[t]) = Bare \/ IsMaster(stored_form(proc[t]))
      /\ \A id \in DOMAIN keys : opens(proc[t], id) =>
           \A i \in DOMAIN key_get_keys(proc[t], id) :
             key_get_keys(proc[t], id)[i] = Bare \/ IsMaster(key_get_keys(proc[t], id)[i])
  BY <1>o, Storable DEF Files
<1>5. CASE wrap_get(t)
  <2>1. /\ UNCHANGED <<lock, master, events>> /\ pc'[t] \in {"wrap", "wrap_put", "idle"}
        /\ \/ keys' = keys
           \/ \E id \in DOMAIN keys : opens(proc[t], id) /\ keys' = key_get_keys(proc[t], id)
    BY <1>o, <1>5 DEF wrap_get, opens
  <2> QED
    BY <1>a, <1>k, <2>1 DEF Elsewhere
<1>6. CASE use_key(t)
  <2>1. /\ UNCHANGED <<lock, master, events>> /\ pc'[t] \in {"write", "idle"}
        /\ \/ keys' = keys
           \/ \E id \in DOMAIN keys : opens(proc[t], id) /\ keys' = key_get_keys(proc[t], id)
    BY <1>o, <1>6 DEF use_key, opens
  <2> QED
    BY <1>a, <1>k, <2>1 DEF Elsewhere
<1>7. CASE wrap_put(t) \/ key_put(t)
  <2>1. /\ UNCHANGED <<lock, master, events>> /\ pc'[t] \in {"wrap", "link", "idle"}
        /\ \/ keys' = keys
           \/ can_store(proc[t]) /\ \E id : keys' = with_key(id, stored_form(proc[t]))
    BY <1>o, <1>7 DEF wrap_put, key_put, put_new
  <2> QED
    BY <1>a, <1>k, <2>1 DEF with_key, Elsewhere
<1> QED
  BY <1>1, <1>2, <1>3, <1>4, <1>5, <1>6, <1>7


LEMMA KillKeepsFiles ==
  ASSUME Files, NEW p \in Procs, kill(p)
  PROVE  Named' /\ OneMaster'
<1> USE DEF keychain, disk
<1>1. /\ UNCHANGED <<lock, keys, vaultfile, file>> /\ events \subseteq events'
      /\ \A u \in Threads : pc'[u] = "idle" \/ (pc'[u] = pc[u] /\ job'[u] = job[u])
      /\ \A q \in Procs : master'[q] \in {Nothing, master[q]}
      /\ minted'.id = minted.id
  BY DEF kill, Files, Inv, Typed
<1>2. Named'
  BY <1>1 DEF Files, Named, Calm, Creating, Created, Writing
<1>3. SameMaster
  BY <1>1 DEF SameMaster, Trying, setting
<1> QED
  BY <1>1, <1>2, <1>3, SameMasterStays DEF Files

(* The files are written by link, write_file and remove_dirs. *)
LEMMA Tables ==
  ASSUME Files, Next
  PROVE  /\ vaultfile' = [f \in Profiles |-> vaultfile'[f]]
         /\ file' = [f \in Profiles |-> file'[f]]
<1>t. vaultfile = [f \in Profiles |-> vaultfile[f]] /\ file = [f \in Profiles |-> file[f]]
  BY DEF Files
<1> USE DEF keychain, disk
<1>1. CASE UNCHANGED disk
  BY <1>1, <1>t
<1>2. ASSUME NEW t \in Threads, link(t) \/ write_file(t) \/ remove_dirs(t)
      PROVE  /\ vaultfile' = [f \in Profiles |-> vaultfile'[f]]
             /\ file' = [f \in Profiles |-> file'[f]]
  BY <1>2, <1>t DEF link, write_file, remove_dirs
<1>3. tick \/ (\E p \in Procs : kill(p)) => UNCHANGED disk
  BY DEF tick, kill
<1>4. ASSUME NEW t \in Threads
      PROVE  /\ (\E pin \in Pins : set_pin(t, pin)) => UNCHANGED disk
             /\ (\E pin, new \in Pins, op \in {"unlock", "change", "panic"} :
                   begin_attempt(t, op, pin, new)) => UNCHANGED disk
             /\ (\E f \in Profiles : begin_write(t, f)) => UNCHANGED disk
             /\ pin_save(t) \/ pin_check(t) \/ wrap_get(t) \/ wrap_put(t) \/ wrap_done(t)
                \/ load_attempt(t) \/ raise(t) \/ check_pin(t) \/ reset(t) \/ change_save(t)
                \/ change_check(t) \/ change_done(t) \/ lock_app(t) \/ shred_all(t) \/ destroy(t)
                \/ use_key(t) \/ new_key(t) \/ key_put(t) => UNCHANGED disk
  BY DEF set_pin, begin_attempt, begin_write, pin_save, pin_check, wrap_get, wrap_put, wrap_done,
     load_attempt, raise, check_pin, reset, change_save, change_check, change_done, lock_app,
     shred_all, destroy, use_key, new_key, key_put
<1> QED
  BY <1>1, <1>2, <1>3, <1>4 DEF Next

(* A wipe is not forgotten. *)
LEMMA NextKeepsEvents ==
  ASSUME Next
  PROVE  events \subseteq events'
<1> USE DEF history
<1>1. tick \/ (\E p \in Procs : kill(p)) => events \subseteq events'
  BY DEF tick, kill
<1>2. ASSUME NEW t \in Threads
      PROVE  /\ (\E pin \in Pins : set_pin(t, pin)) => UNCHANGED events
             /\ (\E pin, new \in Pins, op \in {"unlock", "change", "panic"} :
                   begin_attempt(t, op, pin, new)) => UNCHANGED events
             /\ (\E f \in Profiles : begin_write(t, f)) => UNCHANGED events
             /\ pin_save(t) \/ pin_check(t) \/ wrap_get(t) \/ wrap_put(t) \/ wrap_done(t)
                \/ load_attempt(t) \/ raise(t) \/ check_pin(t) \/ reset(t) \/ change_save(t)
                \/ change_check(t) \/ change_done(t) \/ lock_app(t) \/ destroy(t) \/ remove_dirs(t)
                \/ use_key(t) \/ new_key(t) \/ key_put(t) \/ link(t) \/ write_file(t)
                => UNCHANGED events
             /\ shred_all(t) => events \subseteq events'
  BY DEF set_pin, begin_attempt, begin_write, pin_save, pin_check, wrap_get, wrap_put, wrap_done,
     load_attempt, raise, check_pin, reset, change_save, change_check, change_done, lock_app,
     shred_all, destroy, remove_dirs, use_key, new_key, key_put, link, write_file
<1> QED
  BY <1>1, <1>2 DEF Next

LEMMA FilesStay == Files /\ [Next]_vars => Files'
<1> SUFFICES ASSUME Files, [Next]_vars PROVE Files'
  OBVIOUS
<1>i. Inv'
  BY NextKeepsInv DEF Files
<1>1. CASE UNCHANGED vars
  BY <1>1, <1>i DEF vars, keychain, disk, memory, history, Files, Named, Creating, Created, Calm,
     OneMaster, IsMaster, Trying, setting
<1>2. CASE Next
  <2>1. CASE tick
    BY <2>1, <1>i DEF tick, keychain, disk, memory, history, Files, Named, Creating, Created, Calm,
       OneMaster, IsMaster, Trying, setting
  <2>2. ASSUME NEW p \in Procs, kill(p) PROVE Named' /\ OneMaster'
    BY <2>2, KillKeepsFiles
  <2>3. Attempts = {"unlock", "change", "panic"}
    BY DEF Attempts
  <2>4. ~(SerialFirstUse /\ Calm) => OneMaster'
    BY <1>2, NextKeepsEvents DEF OneMaster, Calm
  <2>5. ASSUME NEW t \in Threads,
               \/ \E pin \in Pins : set_pin(t, pin)
               \/ pin_save(t) \/ pin_check(t) \/ wrap_get(t) \/ wrap_put(t) \/ wrap_done(t)
               \/ \E pin, new \in Pins, op \in Attempts : begin_attempt(t, op, pin, new)
               \/ load_attempt(t) \/ raise(t) \/ check_pin(t) \/ reset(t)
               \/ change_save(t) \/ change_check(t) \/ change_done(t) \/ lock_app(t)
               \/ shred_all(t) \/ destroy(t) \/ remove_dirs(t)
               \/ \E f \in Profiles : begin_write(t, f)
               \/ use_key(t) \/ new_key(t) \/ key_put(t) \/ link(t) \/ write_file(t)
        PROVE  Named' /\ (SerialFirstUse /\ Calm => OneMaster')
    BY <2>5, QuietSteps, FileSteps, LockSteps, FirstPinSteps, KeySteps
  <2>6. CASE tick \/ \E p \in Procs : kill(p)
    BY <1>i, <1>2, <2>1, <2>2, <2>6, Tables DEF Files
  <2>7. CASE ~(tick \/ \E p \in Procs : kill(p))
    <3>1. Named' /\ (SerialFirstUse /\ Calm => OneMaster')
      BY <1>2, <2>3, <2>5, <2>7 DEF Next
    <3> QED
      BY <1>i, <1>2, <2>4, <2>7, <3>1, Tables DEF Files
  <2> QED
    BY <2>6, <2>7
<1> QED
  BY <1>1, <1>2

LEMMA FilesHold == Spec => []Files
<1>1. Init => Files
  <2> SUFFICES ASSUME Init PROVE Files
    OBVIOUS
  <2>1. Named /\ OneMaster
    BY DEF Init, Named, Creating, Writing, OneMaster, Trying, setting, no_keys
  <2> QED
    BY <2>1, InitHasInv DEF Files, Init
<1> QED
  BY <1>1, FilesStay, PTL DEF Spec

(* Whichever of the threads and processes that create a vault at once wins,  *)
(* and wherever they are killed, no file is sealed under a key vault.json   *)
(* does not name, until a panic wipe.                                       *)
THEOREM SealedUnderItsKey == Spec => []SealedUnderNamedKey
<1>1. Files => SealedUnderNamedKey
  BY AbsenceAssumption DEF Files, Named, Calm, SealedUnderNamedKey, Ids
<1> QED
  BY <1>1, FilesHold, PTL

(* When the first PIN is set by one thread at a time, the stored PIN opens   *)
(* every profile until a panic wipe: each file's key is in the Keychain,     *)
(* bare or under the one master key, whatever is killed while keys are      *)
(* minted, wrapped and the PIN is changed.                                  *)
THEOREM StoredPinOpens ==
  ASSUME SerialFirstUse
  PROVE  Spec => []PinOpensProfiles
<1>1. Files => PinOpensProfiles
  BY AbsenceAssumption DEF Files, Named, OneMaster, IsMaster, Calm, PinOpensProfiles, Ids
<1> QED
  BY <1>1, FilesHold, PTL
=============================================================================
