------------------------------- MODULE AppLock -------------------------------
(***************************************************************************)
(* The app PIN and the vault of the zkmsg client: core/src/applock.rs,      *)
(* vault.rs, keychain.rs and the Keychain part of wipe.rs.                  *)
(*                                                                         *)
(* The login Keychain, shared by every process, holds the app lock (the     *)
(* master key wrapped under the PIN, with its counter of failures) and the  *)
(* profile keys, bare or wrapped under the master key.  A profile has a     *)
(* vault.json that names its key and one secret file.  A process holds the  *)
(* master key while unlocked and a cache of open profile keys; its threads  *)
(* (the user interface and the workers) share both.  Each Keychain call and *)
(* each file operation is a step, and a process may be killed at any step.  *)
(***************************************************************************)
EXTENDS Naturals

CONSTANTS
  Threads,          \* the threads of all processes
  Procs,            \* processes
  proc,             \* [Threads -> Procs]
  Profiles,         \* profile directories, live and archived
  Pins,
  MAX_ATTEMPTS,
  FREE_ATTEMPTS,    \* failures before the first wait
  NoLock, NoThread, Nothing, Bare,
  MaxClock, MaxMasters, MaxWraps, MaxKeys,  \* bounds
  SerialFirstUse,   \* no two threads set the first PIN at the same time
  Changes,          \* the PIN may be changed
  AfterWipe,        \* operations may begin after a panic wipe began
  MaxKills          \* bound on the processes killed

ASSUME AttemptsAssumption ==
  /\ MAX_ATTEMPTS \in Nat \ {0} /\ FREE_ATTEMPTS \in Nat
  /\ proc \in [Threads -> Procs]
  /\ {SerialFirstUse, Changes, AfterWipe} \subseteq BOOLEAN

ASSUME BoundsAssumption ==
  /\ NoThread \notin Threads
  /\ {MaxClock, MaxMasters, MaxWraps, MaxKeys, MaxKills} \subseteq Nat

ASSUME AbsenceAssumption ==
  /\ Nothing \notin Nat
  /\ NoLock \notin [wrap : Nat, pin : Pins, mk : Nat, fails : Nat, not_before : Nat]

Masters == 1..MaxMasters
Wraps == 1..MaxWraps
Ids == 1..MaxKeys

(* LockBlob: "wrap" stands for the salt, which every wrapping draws anew.   *)
LockBlob == [wrap : Wraps, pin : Pins, mk : Masters,
             fails : 0..(MAX_ATTEMPTS + MaxClock + 1), not_before : 0..(MaxClock + 1)]

VARIABLES
  clock,
  lock,       \* Keychain: the app lock, or NoLock
  keys,       \* Keychain: key id -> Bare, or the master key it is wrapped under
  vaultfile,  \* vault.json of a profile: a key id, or Nothing
  file,       \* the key id the secret file is sealed under, or Nothing (none, or plaintext)
  master,     \* MASTER of a process, or Nothing
  cache,      \* open profile keys in a process
  wiped,      \* WIPED of a process
  attempt,    \* the thread that holds the attempt lock
  pc, job,    \* where a thread is, and its local variables
  minted,     \* how many of each were drawn, and processes killed
  tried,      \* history: wrong PINs checked against a wrap since it was last opened
  events      \* history: "wipe" once a panic wipe began, "interrupted" once one was killed

keychain == <<lock, keys>>
disk == <<vaultfile, file>>
memory == <<master, cache, wiped>>
history == <<tried, events>>
vars == <<clock, keychain, disk, memory, attempt, pc, job, minted, history>>

NoJob == [op |-> "none"]
Goto(t, label) == pc' = [pc EXCEPT ![t] = label]
Keep(t, j) == job' = [job EXCEPT ![t] = j]
Done(t) == Goto(t, "idle") /\ Keep(t, NoJob)
Release(t) == attempt' = IF attempt = t THEN NoThread ELSE attempt

wait_after(fails) == IF fails <= FREE_ATTEMPTS THEN 0 ELSE 1

(* Keys.  stored_form wraps under the master key in memory, and is bare     *)
(* only before there is a PIN; a locked process can do neither.             *)
can_store(p) == master[p] # Nothing \/ lock = NoLock
stored_form(p) == IF master[p] # Nothing THEN master[p] ELSE Bare

(* key_get opens a wrapped key under the master key in memory, and a bare   *)
(* one when the process is unlocked or there is no PIN.                     *)
opens(p, id) ==
  /\ id \in DOMAIN keys
  /\ \/ keys[id] = Bare /\ can_store(p)
     \/ master[p] # Nothing /\ keys[id] = master[p]
with_key(id, form) == [i \in DOMAIN keys \cup {id} |-> IF i = id THEN form ELSE keys[i]]
without_key(id) == [i \in DOMAIN keys \ {id} |-> keys[i]]
no_keys == [i \in {} |-> Bare]
(* A bare key read under a PIN is wrapped.                                  *)
key_get_keys(p, id) == with_key(id, IF keys[id] = Bare THEN stored_form(p) ELSE keys[id])

-----------------------------------------------------------------------------
(* set_pin: first use.                                                      *)
may_begin(t) == pc[t] = "idle" /\ (AfterWipe \/ "wipe" \notin events)
setting(t) == pc[t] \in {"pin_save", "pin_check"}
set_pin(t, pin) ==
  /\ may_begin(t) /\ lock = NoLock
  /\ SerialFirstUse => \A u \in Threads : ~setting(u)
  /\ minted.mk < MaxMasters /\ minted.wrap < MaxWraps
  /\ Goto(t, "pin_save")
  /\ Keep(t, [op |-> "set", pin |-> pin, mk |-> minted.mk + 1, wrap |-> minted.wrap + 1])
  /\ minted' = [minted EXCEPT !.mk = @ + 1, !.wrap = @ + 1]
  /\ UNCHANGED <<clock, keychain, disk, memory, attempt, history>>

pin_save(t) ==
  /\ pc[t] = "pin_save"
  /\ lock' = [wrap |-> job[t].wrap, pin |-> job[t].pin, mk |-> job[t].mk,
              fails |-> 0, not_before |-> 0]
  /\ Goto(t, "pin_check")
  /\ UNCHANGED <<clock, keys, disk, memory, attempt, job, minted, history>>

reads_back(pin, mk) == lock # NoLock /\ lock.pin = pin /\ lock.mk = mk

pin_check(t) ==
  /\ pc[t] = "pin_check"
  /\ LET p == proc[t] IN
     IF reads_back(job[t].pin, job[t].mk)
       THEN /\ master' = [master EXCEPT ![p] = job[t].mk]
            /\ wiped' = [wiped EXCEPT ![p] = FALSE]
            /\ Goto(t, "wrap") /\ Keep(t, [op |-> "set", todo |-> Profiles])
       ELSE Done(t) /\ UNCHANGED <<master, wiped>>
  /\ UNCHANGED <<clock, keychain, disk, cache, attempt, minted, history>>

(* wrap_profile_keys, one profile: rewrap forgets the cached key, reads it  *)
(* from the Keychain and puts it back wrapped.  The first key that does not *)
(* open ends the loop.                                                      *)
wrap_get(t) ==
  /\ pc[t] = "wrap" /\ job[t].todo # {}
  /\ \E f \in job[t].todo :
       LET p == proc[t]
           id == vaultfile[f]
           rest == job[t].todo \ {f}
       IN  \/ /\ id \notin DOMAIN keys
              /\ Keep(t, [job[t] EXCEPT !.todo = rest])
              /\ cache' = [cache EXCEPT ![p] = @ \ {id}]
              /\ UNCHANGED <<pc, keys>>
           \/ /\ opens(p, id)
              /\ Goto(t, "wrap_put") /\ Keep(t, [op |-> "set", todo |-> rest, id |-> id])
              /\ cache' = [cache EXCEPT ![p] = @ \cup {id}]
              /\ keys' = key_get_keys(p, id)
           \/ /\ id \in DOMAIN keys /\ ~opens(p, id)
              /\ Done(t)
              /\ cache' = [cache EXCEPT ![p] = @ \ {id}]
              /\ UNCHANGED keys
  /\ UNCHANGED <<clock, lock, disk, master, wiped, attempt, minted, history>>

wrap_put(t) ==
  /\ pc[t] = "wrap_put"
  /\ LET p == proc[t] IN
     IF can_store(p)
       THEN /\ keys' = with_key(job[t].id, stored_form(p))
            /\ cache' = [cache EXCEPT ![p] = @ \cup {job[t].id}]
            /\ Goto(t, "wrap") /\ Keep(t, [op |-> "set", todo |-> job[t].todo])
       ELSE Done(t) /\ UNCHANGED <<keys, cache>>
  /\ UNCHANGED <<clock, lock, disk, master, wiped, attempt, minted, history>>

wrap_done(t) ==
  /\ pc[t] = "wrap" /\ job[t].todo = {}
  /\ Done(t)
  /\ UNCHANGED <<clock, keychain, disk, memory, attempt, minted, history>>

-----------------------------------------------------------------------------
(* unlock, and change_pin and panic_wipe_with_pin, which begin with it.     *)
begin_attempt(t, op, pin, new) ==
  /\ may_begin(t)
  /\ IF op = "change" THEN Changes ELSE new = pin
  /\ IF op = "panic" /\ lock = NoLock
       THEN Goto(t, "shred") /\ Keep(t, [op |-> op])
       ELSE Goto(t, "attempt") /\ Keep(t, [op |-> op, pin |-> pin, new |-> new])
  /\ UNCHANGED <<clock, keychain, disk, memory, attempt, minted, history>>

attempt_free_any == TRUE
attempt_free == attempt = NoThread
load_attempt(t) ==
  /\ pc[t] = "attempt" /\ attempt_free
  /\ IF lock = NoLock \/ lock.not_before > clock
       THEN Done(t) /\ UNCHANGED attempt
       ELSE /\ attempt' = t
            /\ Goto(t, "raise")
            /\ Keep(t, [op |-> job[t].op, pin |-> job[t].pin, new |-> job[t].new, blob |-> lock])
  /\ UNCHANGED <<clock, keychain, disk, memory, minted, history>>

raised(blob) == [blob EXCEPT !.fails = @ + 1, !.not_before = clock + wait_after(blob.fails + 1)]
raise(t) ==
  /\ pc[t] = "raise"
  /\ lock' = raised(job[t].blob)
  /\ Keep(t, [job[t] EXCEPT !.blob = lock'])
  /\ Goto(t, "check")
  /\ UNCHANGED <<clock, keys, disk, memory, attempt, minted, history>>

right_pin(t) == job[t].pin = job[t].blob.pin
last_attempt_above(blob) == blob.fails > MAX_ATTEMPTS
last_attempt(blob) == blob.fails >= MAX_ATTEMPTS

check_pin(t) ==
  /\ pc[t] = "check"
  /\ \/ right_pin(t) /\ Goto(t, "reset") /\ UNCHANGED <<job, attempt, tried>>
     \/ /\ ~right_pin(t)
        /\ tried' = [tried EXCEPT ![job[t].blob.wrap] = @ + 1]
        /\ IF last_attempt(job[t].blob)
             THEN Goto(t, "shred") /\ UNCHANGED <<job, attempt>>
             ELSE Done(t) /\ Release(t)
  /\ UNCHANGED <<clock, keychain, disk, memory, minted, events>>

reset(t) ==
  /\ pc[t] = "reset"
  /\ lock' = [job[t].blob EXCEPT !.fails = 0, !.not_before = 0]
  /\ master' = [master EXCEPT ![proc[t]] = job[t].blob.mk]
  /\ tried' = [tried EXCEPT ![job[t].blob.wrap] = 0]
  /\ Release(t)
  /\ CASE job[t].op = "unlock" -> Done(t)
       [] job[t].op = "change" -> Goto(t, "change_save") /\ Keep(t, [op |-> "change", new |-> job[t].new])
       [] job[t].op = "panic" -> Goto(t, "shred") /\ Keep(t, [op |-> "panic"])
  /\ UNCHANGED <<clock, keys, disk, cache, wiped, minted, events>>

(* The new wrap is saved after the attempt lock was released.               *)
change_save(t) ==
  /\ pc[t] = "change_save"
  /\ LET mk == master[proc[t]] IN
     IF mk = Nothing
       THEN Done(t) /\ UNCHANGED <<lock, minted>>
       ELSE /\ minted.wrap < MaxWraps
            /\ minted' = [minted EXCEPT !.wrap = @ + 1]
            /\ lock' = [wrap |-> minted.wrap + 1, pin |-> job[t].new, mk |-> mk,
                        fails |-> 0, not_before |-> 0]
            /\ Goto(t, "change_check")
            /\ Keep(t, [op |-> "change", new |-> job[t].new, mk |-> mk, wrap |-> minted.wrap + 1])
  /\ UNCHANGED <<clock, keys, disk, memory, attempt, history>>

(* Whether or not it reads back, the call ends; "changed" is its success.   *)
change_check(t) ==
  /\ pc[t] = "change_check"
  /\ IF reads_back(job[t].new, job[t].mk)
       THEN Goto(t, "changed") /\ UNCHANGED job
       ELSE Done(t)
  /\ UNCHANGED <<clock, keychain, disk, memory, attempt, minted, history>>

change_done(t) ==
  /\ pc[t] = "changed" /\ Done(t)
  /\ UNCHANGED <<clock, keychain, disk, memory, attempt, minted, history>>

(* lock(): MASTER and the cached keys, whatever the other threads do.       *)
lock_app(t) ==
  /\ may_begin(t) /\ master[proc[t]] # Nothing
  /\ master' = [master EXCEPT ![proc[t]] = Nothing]
  /\ cache' = [cache EXCEPT ![proc[t]] = {}]
  /\ UNCHANGED <<clock, keychain, disk, wiped, attempt, pc, job, minted, history>>

-----------------------------------------------------------------------------
(* panic_wipe: every profile key, then the app lock, then the files.        *)
wiping(t) == pc[t] \in {"shred", "destroy", "remove"}
shred_all(t) ==
  /\ pc[t] = "shred"
  /\ wiped' = [wiped EXCEPT ![proc[t]] = TRUE]
  /\ cache' = [cache EXCEPT ![proc[t]] = {}]
  /\ keys' = no_keys
  /\ events' = events \cup {"wipe"}
  /\ Goto(t, "destroy")
  /\ UNCHANGED <<clock, lock, disk, master, attempt, job, minted, tried>>

destroy(t) ==
  /\ pc[t] = "destroy"
  /\ master' = [master EXCEPT ![proc[t]] = Nothing]
  /\ cache' = [cache EXCEPT ![proc[t]] = {}]
  /\ lock' = NoLock
  /\ Goto(t, "remove")
  /\ UNCHANGED <<clock, keys, disk, wiped, attempt, job, minted, history>>

remove_dirs(t) ==
  /\ pc[t] = "remove"
  /\ vaultfile' = [f \in Profiles |-> Nothing]
  /\ file' = [f \in Profiles |-> Nothing]
  /\ Done(t) /\ Release(t)
  /\ UNCHANGED <<clock, keychain, memory, minted, history>>

-----------------------------------------------------------------------------
(* vault::write of the secret file: save_new_keys, wallet saves and         *)
(* seal_profile all go through it.                                          *)
begin_write(t, f) ==
  /\ may_begin(t)
  /\ Goto(t, "key") /\ Keep(t, [op |-> "write", f |-> f])
  /\ UNCHANGED <<clock, keychain, disk, memory, attempt, minted, history>>

(* profile_key of a profile with a vault; "winner" is the second call, of   *)
(* the thread that lost the race to create it.                              *)
use_key(t) ==
  /\ pc[t] \in {"key", "winner"}
  /\ LET p == proc[t]
         id == vaultfile[job[t].f]
     IN  /\ id # Nothing \/ pc[t] = "winner"
         /\ IF id # Nothing /\ (id \in cache[p] \/ opens(p, id))
              THEN /\ Goto(t, "write") /\ Keep(t, [op |-> "write", f |-> job[t].f, id |-> id])
                   /\ cache' = [cache EXCEPT ![p] = @ \cup {id}]
                   /\ keys' = IF id \in cache[p] THEN keys ELSE key_get_keys(p, id)
              ELSE Done(t) /\ UNCHANGED <<cache, keys>>
  /\ UNCHANGED <<clock, lock, disk, master, wiped, attempt, minted, history>>

(* profile_key_or_create without a vault: refused after a wipe here.        *)
may_create(p) == ~wiped[p]
new_key(t) ==
  /\ pc[t] = "key" /\ vaultfile[job[t].f] = Nothing
  /\ IF may_create(proc[t])
       THEN /\ minted.id < MaxKeys
            /\ minted' = [minted EXCEPT !.id = @ + 1]
            /\ Goto(t, "mint")
            /\ Keep(t, [op |-> "write", f |-> job[t].f, id |-> minted.id + 1])
       ELSE Done(t) /\ UNCHANGED minted
  /\ UNCHANGED <<clock, keychain, disk, memory, attempt, history>>

put_new_cached(id, form) == keys
put_new(id, form) == with_key(id, form)
key_put(t) ==
  /\ pc[t] = "mint"
  /\ LET p == proc[t] IN
     IF can_store(p)
       THEN /\ keys' = put_new(job[t].id, stored_form(p))
            /\ cache' = [cache EXCEPT ![p] = @ \cup {job[t].id}]
            /\ Goto(t, "link") /\ UNCHANGED job
       ELSE Done(t) /\ UNCHANGED <<keys, cache>>
  /\ UNCHANGED <<clock, lock, disk, master, wiped, attempt, minted, history>>

(* hard_link publishes vault.json only if there is none.                    *)
link_replaces(f) == FALSE
link_fails(f) == vaultfile[f] # Nothing
link(t) ==
  /\ pc[t] = "link"
  /\ LET p == proc[t]
         f == job[t].f
     IN  IF link_fails(f)
           THEN /\ keys' = without_key(job[t].id)
                /\ cache' = [cache EXCEPT ![p] = @ \ {job[t].id}]
                /\ Goto(t, "winner") /\ Keep(t, [op |-> "write", f |-> f])
                /\ UNCHANGED vaultfile
           ELSE /\ vaultfile' = [vaultfile EXCEPT ![f] = job[t].id]
                /\ Goto(t, "write")
                /\ UNCHANGED <<keys, cache, job>>
  /\ UNCHANGED <<clock, lock, file, master, wiped, attempt, minted, history>>

write_file(t) ==
  /\ pc[t] = "write"
  /\ file' = [file EXCEPT ![job[t].f] = job[t].id]
  /\ Done(t)
  /\ UNCHANGED <<clock, keychain, vaultfile, memory, attempt, minted, history>>

-----------------------------------------------------------------------------
tick ==
  /\ clock < MaxClock /\ clock' = clock + 1
  /\ UNCHANGED <<keychain, disk, memory, attempt, pc, job, minted, history>>

(* A killed process leaves the Keychain and the disk as they are; the       *)
(* system drops its attempt lock.                                           *)
at_the_wipe(t) == wiping(t) \/ (pc[t] = "check" /\ last_attempt(job[t].blob))
kill(p) ==
  LET own == {t \in Threads : proc[t] = p} IN
  /\ minted.kills < MaxKills /\ minted' = [minted EXCEPT !.kills = @ + 1]
  /\ \E t \in own : pc[t] # "idle"
  /\ pc' = [t \in Threads |-> IF t \in own THEN "idle" ELSE pc[t]]
  /\ job' = [t \in Threads |-> IF t \in own THEN NoJob ELSE job[t]]
  /\ master' = [master EXCEPT ![p] = Nothing]
  /\ cache' = [cache EXCEPT ![p] = {}]
  /\ wiped' = [wiped EXCEPT ![p] = FALSE]
  /\ attempt' = IF attempt \in own THEN NoThread ELSE attempt
  /\ events' = IF \E t \in own : at_the_wipe(t) THEN events \cup {"interrupted"} ELSE events
  /\ UNCHANGED <<clock, keychain, disk, tried>>

Init ==
  /\ clock = 0 /\ lock = NoLock /\ keys = no_keys
  /\ vaultfile = [f \in Profiles |-> Nothing]
  /\ file = [f \in Profiles |-> Nothing]
  /\ master = [p \in Procs |-> Nothing] /\ cache = [p \in Procs |-> {}]
  /\ wiped = [p \in Procs |-> FALSE]
  /\ attempt = NoThread
  /\ pc = [t \in Threads |-> "idle"] /\ job = [t \in Threads |-> NoJob]
  /\ minted = [mk |-> 0, wrap |-> 0, id |-> 0, kills |-> 0]
  /\ tried = [w \in Wraps |-> 0] /\ events = {}

Next ==
  \/ tick
  \/ \E p \in Procs : kill(p)
  \/ \E t \in Threads :
       \/ \E pin \in Pins : set_pin(t, pin)
       \/ pin_save(t) \/ pin_check(t) \/ wrap_get(t) \/ wrap_put(t) \/ wrap_done(t)
       \/ \E pin, new \in Pins, op \in {"unlock", "change", "panic"} :
            begin_attempt(t, op, pin, new)
       \/ load_attempt(t) \/ raise(t) \/ check_pin(t) \/ reset(t)
       \/ change_save(t) \/ change_check(t) \/ change_done(t) \/ lock_app(t)
       \/ shred_all(t) \/ destroy(t) \/ remove_dirs(t)
       \/ \E f \in Profiles : begin_write(t, f)
       \/ use_key(t) \/ new_key(t) \/ key_put(t) \/ link(t) \/ write_file(t)

Spec == Init /\ [][Next]_vars

-----------------------------------------------------------------------------
(* Type correctness of the Keychain, the disk and the memory of processes.  *)
TypeOK ==
  /\ clock \in 0..MaxClock
  /\ lock \in LockBlob \cup {NoLock}
  /\ DOMAIN keys \subseteq Ids /\ \A id \in DOMAIN keys : keys[id] \in Masters \cup {Bare}
  /\ vaultfile \in [Profiles -> Ids \cup {Nothing}]
  /\ file \in [Profiles -> Ids \cup {Nothing}]
  /\ master \in [Procs -> Masters \cup {Nothing}]
  /\ cache \in [Procs -> SUBSET Ids]
  /\ wiped \in [Procs -> BOOLEAN]
  /\ attempt \in Threads \cup {NoThread}

(* applock.rs:240: N guesses spend N attempts.  The wrong PINs checked      *)
(* against the stored wrap never exceed its saved counter, whatever threads *)
(* and processes guess at once and wherever they are killed, and whatever   *)
(* change_pin writes in between.                                            *)
GuessesCounted == lock # NoLock => tried[lock.wrap] <= lock.fails

(* applock.rs:25: the tenth consecutive failure wipes.  A stored wrap has   *)
(* taken that many wrong PINs only while a wipe is under way, unless the    *)
(* process that would have wiped was killed.                                *)
TenthWrongWipes ==
  lock # NoLock /\ tried[lock.wrap] >= MAX_ATTEMPTS =>
    "interrupted" \in events \/ \E t \in Threads : wiping(t)

(* vault.rs:211: no file is ever sealed under a key vault.json does not     *)
(* name, whichever of the threads and processes that create a vault at once *)
(* wins, until a panic wipe takes the vault from under a writer.            *)
SealedUnderNamedKey ==
  "wipe" \notin events =>
    \A f \in Profiles : file[f] \in Ids => vaultfile[f] = file[f]

(* applock.rs:13: the PIN opens every profile.  Until a panic wipe, the key *)
(* of every sealed file is in the Keychain, bare or wrapped under the       *)
(* master key that the stored PIN opens.                                    *)
PinOpensProfiles ==
  (lock # NoLock /\ "wipe" \notin events) =>
    \A f \in Profiles : file[f] \in Ids =>
      file[f] \in DOMAIN keys /\ keys[file[f]] \in {Bare, lock.mk}

=============================================================================
