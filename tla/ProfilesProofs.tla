---------------------------- MODULE ProfilesProofs ----------------------------
(***************************************************************************)
(* What deleting, archiving, migrating and wiping profiles keeps and takes, *)
(* for any profiles, accounts and tickets, any directories to start with    *)
(* and any number of kills.                                                 *)
(***************************************************************************)
EXTENDS Profiles, TLAPS

Owed == bought \ (burnt \cup abandoned)
Safe(t, s) == has(s, "config") /\ has(s, "tickets") /\ opens(s) /\ state_of(s, t) # "none"
Elsewhere(t, s) == \E r \in ProfileSlots \ {s} : Safe(t, r)

(* What a wallet has was bought, and what it knows as spent is.             *)
Known ==
  \A s \in Slots, t \in Tickets :
    /\ state_of(s, t) # "none" => t \in bought
    /\ state_of(s, t) = "spent" => t \in burnt
Kept ==
  /\ \A t \in Owed : \E s \in ProfileSlots : Safe(t, s)
  /\ op # NoOp /\ op.kind = "panic" => abandoned = Tickets

(* A deletion: the plan shows what would be lost; what it does not show is   *)
(* elsewhere, and once the files go everything is.                           *)
Deleting ==
  /\ plan # NoOp => plan.slot \notin plan.targets
  /\ op # NoOp /\ op.kind = "delete" => plan # NoOp /\ op.slot = plan.slot /\ op.to \subseteq plan.targets
  /\ plan # NoOp /\ (op = NoOp \/ op.kind = "migrate" \/ deleting("move")) =>
       \A t \in Owed : t \in plan.movable \/ in_flight(plan.slot, t) \/ Elsewhere(t, plan.slot)
  /\ deleting("shred") => \A t \in Owed : t \in op.given \/ in_flight(op.slot, t) \/ Elsewhere(t, op.slot)
  /\ deleting("account") \/ deleting("remove") => \A t \in Owed : Elsewhere(t, op.slot)

(* A migration fills a directory that has no wallet.                         *)
Migrating ==
  op # NoOp /\ op.kind = "migrate" =>
    /\ ~has(op.slot, "tickets")
    /\ \A f \in op.moves : has(Root, f)

(* What a panic wipe has done when it is at a step.                          *)
Panicking ==
  /\ panicking("accounts") \/ panicking("remove") \/ panicking("done") => kc = {}
  /\ panicking("remove") => all_profile_dirs \subseteq op.owned
  /\ panicking("done") => all_profile_dirs = {} /\ current = NoName
-----------------------------------------------------------------------------
(* Directories *)

LEMMA Places ==
  /\ Root \in Slots /\ Root \notin ProfileSlots /\ ProfileSlots \subseteq Slots
  /\ \A n \in Names : Live(n) \in ProfileSlots /\ Archived(n) \in ProfileSlots /\ Live(n) # Archived(n)
BY DEF Slots, ProfileSlots, Root, Live, Archived

LEMMA DirIs ==
  ASSUME TypeOK, NEW s \in Slots, dir[s] # NoDir
  PROVE  /\ dir[s] \in Dir /\ dir[s].files \subseteq Files /\ dir[s].files # {} /\ dir[s].id \in Ids
         /\ dir[s].sealed \in BOOLEAN /\ dir[s].account \in Accounts /\ dir[s].wallet \in [Tickets -> TicketState]
BY DEF TypeOK, Dir

LEMMA StateIs ==
  ASSUME TypeOK, NEW s \in Slots
  PROVE  \A t \in Tickets : state_of(s, t) \in TicketState
BY DirIs DEF state_of, has, TicketState

(* A directory changed in its files only is one, if some file is left.      *)
LEMMA FilesChanged ==
  ASSUME NEW d \in Dir, NEW fs \in SUBSET Files
  PROVE  [d EXCEPT !.files = fs] \in Dir /\ [d EXCEPT !.files = fs].files = fs
         /\ [d EXCEPT !.files = fs].wallet = d.wallet /\ [d EXCEPT !.files = fs].sealed = d.sealed
         /\ [d EXCEPT !.files = fs].id = d.id /\ [d EXCEPT !.files = fs].account = d.account
BY DEF Dir

LEMMA WithoutIs ==
  ASSUME TypeOK, NEW s \in Slots, NEW f, has(s, f)
  PROVE  /\ without(s, f) \in Dir \cup {NoDir}
         /\ without(s, f) # NoDir =>
              /\ without(s, f).files = dir[s].files \ {f} /\ without(s, f).files # {}
              /\ without(s, f).wallet = dir[s].wallet
         /\ without(s, f) = NoDir => dir[s].files = {f}
<1>1. dir[s] \in Dir /\ dir[s].files \subseteq Files /\ f \in dir[s].files
  BY DirIs DEF has
<1>2. [dir[s] EXCEPT !.files = dir[s].files \ {f}] \in Dir
      /\ [dir[s] EXCEPT !.files = dir[s].files \ {f}].files = dir[s].files \ {f}
      /\ [dir[s] EXCEPT !.files = dir[s].files \ {f}].wallet = dir[s].wallet
  BY <1>1, FilesChanged
<1> QED
  BY <1>1, <1>2, AbsenceAssumption DEF without

(* Saving a wallet makes a vault if there is none, and breaks no other.      *)
LEMMA Saved ==
  ASSUME TypeOK, NEW s \in Slots, dir[s] # NoDir, NEW w \in [Tickets -> TicketState], save_wallet(s, w)
  PROVE  /\ dir' \in [Slots -> Dir \cup {NoDir}] /\ \A r \in Slots \ {s} : dir'[r] = dir[r]
         /\ dir'[s] # NoDir /\ dir'[s].files = dir[s].files \cup {"tickets", "vault"}
         /\ dir'[s].wallet = w /\ dir'[s].id = dir[s].id /\ dir'[s].sealed /\ dir'[s].account = dir[s].account
         /\ kc \subseteq kc' /\ kc' \subseteq Ids
         /\ \A r \in Slots : opens(r) => opens(r)'
<1>1. dir[s] \in Dir /\ dir[s].id \in Ids
  BY DirIs
<1>2. {"tickets", "vault"} \subseteq Files
  BY FilesAssumption
<1> DEFINE new == [dir[s] EXCEPT !.files = @ \cup {"tickets", "vault"}, !.sealed = TRUE, !.wallet = w]
<1>3. new \in Dir /\ new.files = dir[s].files \cup {"tickets", "vault"} /\ new.wallet = w
      /\ new.id = dir[s].id /\ new.sealed /\ new.account = dir[s].account
  BY <1>1, <1>2 DEF Dir
<1>4. dir' = [dir EXCEPT ![s] = new] /\ dir \in [Slots -> Dir \cup {NoDir}]
  BY DEF save_wallet, TypeOK
<1> HIDE DEF new
<1>5. /\ dir' \in [Slots -> Dir \cup {NoDir}] /\ dir'[s] = new /\ \A r \in Slots \ {s} : dir'[r] = dir[r]
  BY <1>3, <1>4
<1>6. kc \subseteq kc' /\ kc' \subseteq Ids /\ (~dir[s].sealed => dir[s].id \in kc')
  BY <1>1 DEF save_wallet, TypeOK
<1>7. ASSUME NEW r \in Slots, opens(r)
      PROVE  opens(r)'
  <2>1. CASE r # s
    BY <1>5, <1>6, <1>7, <2>1 DEF opens, profile_key_id, has
  <2>2. CASE r = s
    <3>1. dir[s].sealed => dir[s].id \in kc
      BY <1>7, <2>2, AbsenceAssumption DEF opens, profile_key_id, TypeOK
    <3> QED
      BY <1>1, <1>3, <1>5, <1>6, <2>2, <3>1, AbsenceAssumption DEF opens, profile_key_id, has
  <2> QED
    BY <2>1, <2>2
<1> QED
  BY <1>3, <1>5, <1>6, <1>7, AbsenceAssumption

-----------------------------------------------------------------------------
(* Types *)

DirsTyped ==
  /\ dir \in [Slots -> Dir \cup {NoDir}]
  /\ \A s \in Slots : dir[s] # NoDir => dir[s].files # {}

(* What each kind of step does to the directories.                          *)
LEMMA FileRemoved ==
  ASSUME TypeOK, deleting("remove"), remove_dir_all
  PROVE  /\ op.slot \in ProfileSlots /\ \A r \in Slots \ {op.slot} : dir'[r] = dir[r]
         /\ dir'[op.slot] # NoDir =>
              dir'[op.slot].files \subseteq dir[op.slot].files /\ dir'[op.slot].wallet = dir[op.slot].wallet
         /\ DirsTyped'
<1>1. op.slot \in ProfileSlots /\ op.slot \in Slots
  BY Places DEF TypeOK, deleting, Deletion, Migration, Panic
<1>2. PICK f \in dir[op.slot].files : dir' = [dir EXCEPT ![op.slot] = without(op.slot, f)] /\ dir[op.slot] # NoDir
  BY DEF remove_dir_all
<1>3. has(op.slot, f)
  BY <1>2 DEF has
<1> QED
  BY <1>1, <1>2, <1>3, WithoutIs DEF TypeOK, DirsTyped

LEMMA EntryMoved ==
  ASSUME TypeOK, Migrating, execute_migration
  PROVE  /\ op.slot \in ProfileSlots /\ \A r \in ProfileSlots \ {op.slot} : dir'[r] = dir[r]
         /\ dir'[Root] # NoDir => dir[Root] # NoDir /\ dir'[Root].files \subseteq dir[Root].files
                                  /\ dir'[Root].wallet = dir[Root].wallet
         /\ dir'[op.slot] # NoDir /\ "tickets" \notin dir'[op.slot].files
         /\ op'.slot = op.slot /\ op'.kind = "migrate" /\ op' \in Migration
         /\ \A f \in op'.moves : has(Root, f)'
         /\ DirsTyped'
<1>1. op \in Migration /\ op.slot \in ProfileSlots /\ op.moves \subseteq ROOT_ENTRIES
  BY DEF TypeOK, execute_migration, Deletion, Migration, Panic
<1>2. PICK f \in op.moves :
        /\ dir' = [dir EXCEPT ![Root] = without(Root, f),
                     ![op.slot] = [dir[Root] EXCEPT
                        !.files = {f} \cup IF dir[op.slot] = NoDir THEN {} ELSE dir[op.slot].files]]
        /\ op' = [op EXCEPT !.moves = @ \ {f}]
  BY DEF execute_migration
<1>3. /\ f \in Files \ {"tickets"} /\ has(Root, f) /\ ~has(op.slot, "tickets") /\ \A g \in op.moves : has(Root, g)
  BY <1>1, FilesAssumption DEF Migrating, execute_migration
<1>4. Root \in Slots /\ op.slot \in Slots /\ Root # op.slot /\ ProfileSlots \subseteq Slots /\ Root \notin ProfileSlots
  BY <1>1, Places
<1>5. dir[Root] \in Dir
  BY <1>3, <1>4, DirIs DEF has
<1> DEFINE fs == {f} \cup IF dir[op.slot] = NoDir THEN {} ELSE dir[op.slot].files
           new == [dir[Root] EXCEPT !.files = fs]
<1>6. fs \in SUBSET Files /\ "tickets" \notin fs /\ fs # {}
  <2>1. dir[op.slot] # NoDir => dir[op.slot].files \subseteq Files /\ "tickets" \notin dir[op.slot].files
    BY <1>3, <1>4, DirIs DEF has
  <2> QED
    BY <1>3, <2>1
<1> HIDE DEF fs
<1>7. new \in Dir /\ new.files = fs
  BY <1>5, <1>6, FilesChanged
<1>8. /\ dir'[Root] = without(Root, f) /\ dir'[op.slot] = new
      /\ \A r \in ProfileSlots \ {op.slot} : dir'[r] = dir[r]
      /\ \A r \in Slots \ {Root, op.slot} : dir'[r] = dir[r]
      /\ dir' = [r \in Slots |-> dir'[r]]
  <2>1. dir' = [dir EXCEPT ![Root] = without(Root, f), ![op.slot] = new]
    BY <1>2 DEF fs
  <2> HIDE DEF new
  <2> QED
    BY <1>4, <2>1 DEF TypeOK
<1> HIDE DEF new
<1>9. op' \in Migration /\ op'.slot = op.slot /\ op'.kind = "migrate" /\ op'.moves = op.moves \ {f}
  BY <1>1, <1>2 DEF Migration
<1>10. /\ without(Root, f) \in Dir \cup {NoDir}
       /\ without(Root, f) # NoDir =>
            /\ without(Root, f).files = dir[Root].files \ {f} /\ without(Root, f).files # {}
            /\ without(Root, f).wallet = dir[Root].wallet
       /\ without(Root, f) = NoDir => dir[Root].files = {f}
  BY <1>3, <1>4, WithoutIs
<1>11. \A g \in op'.moves : has(Root, g)'
  BY <1>3, <1>8, <1>9, <1>10 DEF has
<1>12. DirsTyped'
  <2>1. \A r \in Slots : dir'[r] \in Dir \cup {NoDir} /\ (dir'[r] # NoDir => dir'[r].files # {})
    BY <1>6, <1>7, <1>8, <1>10 DEF TypeOK
  <2> QED
    BY <1>8, <2>1 DEF DirsTyped
<1> QED
  BY <1>1, <1>3, <1>6, <1>7, <1>8, <1>9, <1>10, <1>11, <1>12, AbsenceAssumption DEF has

LEMMA WorkerSaves ==
  ASSUME TypeOK, NEW s \in Slots, NEW t \in Tickets, worker(s, t)
  PROVE  /\ s \in resolve_home /\ has(s, "config") /\ opens(s) /\ op = NoOp
         /\ \E w \in [Tickets -> TicketState] :
              /\ save_wallet(s, w) /\ \A u \in Tickets \ {t} : w[u] = state_of(s, u)
              /\ \/ w[t] = "unspent" /\ t \notin bought /\ (FreshPlans => plan = NoOp) /\ UNCHANGED burnt
                 \/ w[t] \in {"unspent", "reserved", "submitted"} /\ state_of(s, t) \in {"unspent", "reserved"}
                      /\ UNCHANGED burnt
                 \/ w[t] = "spent" /\ burnt' = burnt \cup {t} /\ state_of(s, t) = "submitted"
         /\ bought' = bought \cup {t} /\ UNCHANGED <<sncast, current, plan, op, abandoned, crashed>>
<1>1. s \in resolve_home /\ opens(s) /\ op = NoOp /\ bought' = bought \cup {t}
      /\ UNCHANGED <<sncast, current, plan, op, abandoned, crashed>>
  BY DEF worker
<1>2. has(s, "config")
  BY <1>1 DEF resolve_home, detect_legacy, complete
<1> DEFINE W(st) == [u \in Tickets |-> IF u = t THEN st ELSE state_of(s, u)]
<1>3. ASSUME NEW st \in TicketState
      PROVE  W(st) \in [Tickets -> TicketState] /\ W(st)[t] = st /\ \A u \in Tickets \ {t} : W(st)[u] = state_of(s, u)
  BY StateIs
<1>4. \/ t \notin bought /\ (FreshPlans => plan = NoOp) /\ save_wallet(s, W("unspent")) /\ UNCHANGED burnt
      \/ state_of(s, t) = "unspent" /\ save_wallet(s, W("reserved")) /\ UNCHANGED burnt
      \/ state_of(s, t) = "reserved" /\ save_wallet(s, W("submitted")) /\ UNCHANGED burnt
      \/ state_of(s, t) = "reserved" /\ save_wallet(s, W("unspent")) /\ UNCHANGED burnt
      \/ state_of(s, t) = "submitted" /\ burnt' = burnt \cup {t} /\ save_wallet(s, W("spent"))
  BY DEF worker, set_ticket
<1>5. {"unspent", "reserved", "submitted", "spent"} \subseteq TicketState
  BY DEF TicketState
<1> HIDE DEF W
<1> QED
  BY <1>1, <1>2, <1>3, <1>4, <1>5

LEMMA TicketsMoved ==
  ASSUME TypeOK, move_tickets
  PROVE  /\ deleting("move") /\ UNCHANGED <<sncast, current, plan, burnt, bought, abandoned, crashed>>
         /\ \/ UNCHANGED <<dir, kc>> /\ op' = NoOp
            \/ /\ UNCHANGED <<dir, kc>> /\ step("shred")
               /\ \E to \in op.to : /\ wallet_opens(to) /\ opens(to) /\ wallet_opens(op.slot)
                                   /\ \A t \in movable(op.slot) : ~new_to(to, t)
            \/ \E to \in op.to, w \in [Tickets -> TicketState] :
                 /\ save_wallet(to, w) /\ wallet_opens(to) /\ opens(to) /\ wallet_opens(op.slot)
                 /\ w = [t \in Tickets |-> IF t \in movable(op.slot) /\ new_to(to, t)
                                             THEN moved_state(state_of(op.slot, t)) ELSE state_of(to, t)]
                 /\ step("shred")
<1>1. /\ deleting("move") /\ UNCHANGED <<sncast, current, plan, burnt, bought, abandoned, crashed>>
  BY DEF move_tickets
<1>2. op.slot \in Slots /\ op.to \subseteq Slots
  BY <1>1, Places DEF TypeOK, deleting, Deletion, Migration, Panic
<1> DEFINE W(to) == [t \in Tickets |-> IF t \in movable(op.slot) /\ new_to(to, t)
                                       THEN moved_state(state_of(op.slot, t)) ELSE state_of(to, t)]
<1>3. ASSUME NEW to \in op.to
      PROVE  W(to) \in [Tickets -> TicketState]
  <2>1. \A t \in Tickets : state_of(op.slot, t) \in TicketState /\ state_of(to, t) \in TicketState
    BY <1>2, StateIs
  <2> QED
    BY <2>1 DEF moved_state, TicketState
<1>4. \/ UNCHANGED <<dir, kc>> /\ op' = NoOp
      \/ /\ UNCHANGED <<dir, kc>> /\ step("shred")
         /\ \E to \in op.to : /\ wallet_opens(to) /\ opens(to) /\ wallet_opens(op.slot)
                             /\ \A t \in movable(op.slot) : ~new_to(to, t)
      \/ \E to \in op.to : save_wallet(to, W(to)) /\ wallet_opens(to) /\ opens(to) /\ wallet_opens(op.slot) /\ step("shred")
  BY DEF move_tickets
<1> QED
  BY <1>1, <1>3, <1>4

LEMMA TypeStays == TypeOK /\ Migrating /\ [Next]_vars => TypeOK'
<1> SUFFICES ASSUME TypeOK, Migrating, [Next]_vars
             PROVE  TypeOK'
  OBVIOUS
<1>p. ProfileSlots \subseteq Slots
  BY Places
<1>d. DirsTyped
  BY DEF TypeOK, DirsTyped
<1>a. \A s \in ProfileSlots : profile_account(s) \in Accounts \cup {NoAccount}
  BY <1>p, DirIs DEF profile_account, has
<1>1. ASSUME NEW s \in ProfileSlots, open_delete(s)
      PROVE  TypeOK'
  <2>1. movable(s) \subseteq Tickets /\ {d \in all_profile_dirs \ {s} : complete(d)} \subseteq ProfileSlots
    BY DEF movable, all_profile_dirs
  <2>2. plan' \in DeletePlan
    BY <1>1, <2>1 DEF open_delete, DeletePlan
  <2> QED
    BY <1>1, <2>2 DEF open_delete, TypeOK, disk
<1>2. CASE cancel_delete
  BY <1>2 DEF cancel_delete, TypeOK, disk
<1>3. ASSUME NEW targets \in SUBSET ProfileSlots, NEW drop \in BOOLEAN, delete_profile(targets, drop)
      PROVE  TypeOK'
  <2>1. plan \in DeletePlan /\ UNCHANGED <<disk, plan, burnt, bought, abandoned, crashed>>
    BY <1>3 DEF delete_profile, TypeOK
  <2>2. op' \in Deletion
    BY <1>3, <2>1 DEF delete_profile, DeletePlan, Deletion
  <2> QED
    BY <2>1, <2>2 DEF TypeOK, disk
<1>s. ASSUME NEW at \in {"shred", "account", "remove"}, op \in Deletion, step(at)
      PROVE  op' \in Deletion
  BY <1>s DEF step, Deletion
<1>o. \A at : deleting(at) => op \in Deletion
  BY DEF deleting, TypeOK, Migration, Panic
<1>q. \A at : panicking(at) => op \in Panic
  BY DEF panicking, TypeOK, Migration, Deletion
<1>4. CASE move_tickets
  <2>1. CASE UNCHANGED <<dir, kc>> /\ op' = NoOp
    BY <1>4, <2>1, TicketsMoved DEF TypeOK
  <2>2. ASSUME NEW to \in op.to, NEW w \in [Tickets -> TicketState], save_wallet(to, w), wallet_opens(to), step("shred")
        PROVE  TypeOK'
    <3>1. op \in Deletion /\ UNCHANGED <<sncast, current, plan, burnt, bought, abandoned, crashed>>
      BY <1>4, <1>o, TicketsMoved
    <3>2. to \in Slots /\ dir[to] # NoDir
      BY <1>p, <2>2, <3>1 DEF Deletion, wallet_opens, has
    <3>3. op' \in Deletion
      BY <1>s, <2>2, <3>1
    <3>4. DirsTyped' /\ kc' \subseteq Ids
      BY <2>2, <3>2, Saved DEF TypeOK, DirsTyped
    <3> QED
      BY <3>1, <3>3, <3>4 DEF TypeOK, DirsTyped
  <2>3. CASE UNCHANGED <<dir, kc>> /\ step("shred")
    <3>1. op' \in Deletion
      BY <1>4, <1>o, <1>s, <2>3, TicketsMoved
    <3> QED
      BY <1>4, <2>3, <3>1, TicketsMoved DEF TypeOK
  <2> QED
    BY <1>4, <2>1, <2>2, <2>3, TicketsMoved
<1>5. CASE shred
  <2>1. op \in Deletion
    BY <1>5, <1>o DEF shred
  <2>2. op' \in Deletion /\ kc' \subseteq Ids
    BY <1>5, <1>s, <2>1 DEF shred, TypeOK
  <2>3. abandoned' \subseteq Tickets
    BY <1>5, <2>1 DEF shred, TypeOK, Deletion
  <2> QED
    BY <1>5, <2>2, <2>3 DEF shred, TypeOK
<1>6. CASE remove_sncast_account
  <2>1. op' \in Deletion /\ sncast' \subseteq Accounts
    BY <1>6, <1>s, <1>o DEF remove_sncast_account, TypeOK
  <2> QED
    BY <1>6, <2>1 DEF remove_sncast_account, TypeOK
<1>7. CASE remove_dir_all
  <2>1. DirsTyped' /\ UNCHANGED <<kc, sncast, current, plan, op, burnt, bought, abandoned, crashed>>
    BY <1>7, FileRemoved DEF remove_dir_all
  <2> QED
    BY <2>1 DEF TypeOK, DirsTyped
<1>8. CASE fix_current
  <2>1. current' \in Names \cup {NoName}
    BY <1>8 DEF fix_current, TypeOK
  <2> QED
    BY <1>8, <2>1 DEF fix_current, TypeOK
<1>9. ASSUME NEW n \in Names, archive_profile(n) \/ unarchive_profile(n) \/ write_current(n) \/ plan_migration(n)
      PROVE  TypeOK'
  <2>1. ASSUME NEW from \in ProfileSlots, NEW to \in ProfileSlots, rename(from, to)
        PROVE  TypeOK'
    <3>1. DirsTyped' /\ UNCHANGED <<kc, sncast, current, plan, op, burnt, bought, abandoned, crashed>>
      BY <1>p, <2>1 DEF rename, TypeOK, DirsTyped
    <3> QED
      BY <3>1 DEF TypeOK, DirsTyped
  <2>2. CASE write_current(n)
    BY <2>2 DEF write_current, TypeOK
  <2>3. CASE plan_migration(n)
    <3>1. op' \in Migration
      BY <2>3, Places DEF plan_migration, planned_moves, Migration
    <3> QED
      BY <2>3, <3>1 DEF plan_migration, TypeOK, disk
  <2> QED
    BY <1>9, <2>1, <2>2, <2>3, Places DEF archive_profile, unarchive_profile
<1>10. CASE execute_migration
  <2>1. DirsTyped' /\ op' \in Migration /\ UNCHANGED <<kc, sncast, current, plan, burnt, bought, abandoned, crashed>>
    BY <1>10, EntryMoved DEF execute_migration
  <2> QED
    BY <2>1 DEF TypeOK, DirsTyped
<1>11. CASE migration_done \/ panic_done \/ crash
  BY <1>11, FilesAssumption DEF migration_done, panic_done, crash, TypeOK, disk
<1>12. CASE panic_wipe
  <2>1. op' \in Panic
    BY <1>12, <1>a DEF panic_wipe, Panic, all_profile_dirs
  <2> QED
    BY <1>12, <2>1 DEF panic_wipe, TypeOK, disk
<1>13. CASE panic_shred
  <2>1. op \in Panic /\ op.at = "shred" /\ op' = [op EXCEPT !.at = "accounts"] /\ kc' = {}
    BY <1>13, <1>q DEF panic_shred, panicking, step
  <2>2. op' \in Panic
    BY <2>1 DEF Panic
  <2> QED
    BY <1>13, <2>1, <2>2 DEF panic_shred, TypeOK
<1>14. CASE panic_accounts
  <2>1. op \in Panic /\ op.at = "accounts"
    BY <1>14, <1>q DEF panic_accounts, panicking
  <2>2. owned_entries \subseteq Slots
    BY Places DEF owned_entries, all_profile_dirs
  <2>3. op' \in Panic /\ sncast' \subseteq Accounts
    BY <1>14, <2>1, <2>2 DEF panic_accounts, Panic, TypeOK
  <2> QED
    BY <1>14, <2>3 DEF panic_accounts, TypeOK
<1>15. CASE panic_remove
  <2>1. op \in Panic /\ op.at = "remove" /\ op.owned \subseteq Slots
    BY <1>15, <1>q DEF panic_remove, panicking, Panic
  <2>2. ASSUME NEW s \in op.owned, dir[s] # NoDir, UNCHANGED <<op, current>>,
               dir' = [dir EXCEPT ![s] = IF s = Root /\ has(s, "config") THEN without(s, "config") ELSE NoDir]
        PROVE  TypeOK'
    <3>1. s \in Slots
      BY <2>1
    <3>2. DirsTyped'
      BY <2>2, <3>1, WithoutIs DEF TypeOK, DirsTyped
    <3> QED
      BY <1>15, <2>2, <3>2 DEF panic_remove, TypeOK, DirsTyped
  <2>3. CASE current' = NoName /\ step("done") /\ UNCHANGED dir
    <3>1. op' \in Panic
      BY <2>1, <2>3 DEF step, Panic
    <3> QED
      BY <1>15, <2>3, <3>1 DEF panic_remove, TypeOK
  <2> QED
    BY <1>15, <2>2, <2>3 DEF panic_remove
<1>16. ASSUME NEW s \in Slots, NEW t \in Tickets, worker(s, t)
       PROVE  TypeOK'
  <2>1. PICK w \in [Tickets -> TicketState] :
          save_wallet(s, w) /\ burnt' \in {burnt, burnt \cup {t}} /\ bought' = bought \cup {t}
          /\ UNCHANGED <<sncast, current, plan, op, abandoned, crashed>>
    BY <1>16, WorkerSaves
  <2>2. DirsTyped' /\ kc' \subseteq Ids
    <3>1. dir[s] # NoDir
      BY <1>16, WorkerSaves DEF has
    <3> QED
      BY <2>1, <3>1, Saved DEF TypeOK, DirsTyped
  <2> QED
    BY <2>1, <2>2 DEF TypeOK, DirsTyped
<1>17. CASE UNCHANGED vars
  BY <1>17 DEF vars, disk, TypeOK
<1> QED
  BY <1>1, <1>2, <1>3, <1>4, <1>5, <1>6, <1>7, <1>8, <1>9, <1>10, <1>11, <1>12, <1>13, <1>14, <1>15, <1>16, <1>17 DEF Next

-----------------------------------------------------------------------------
(* Wallets *)

(* What a step may do to a ticket in a wallet.                               *)
WalletStep(s, t) ==
  /\ state_of(s, t)' # "none" => t \in bought'
  /\ state_of(s, t)' = "spent" => t \in burnt'
  /\ state_of(s, t) = "spent" /\ has(s, "tickets")' => state_of(s, t)' = "spent"

LEMMA WalletSteps ==
  ASSUME TypeOK, Known, Migrating, Next
  PROVE  \A s \in Slots, t \in Tickets : WalletStep(s, t)
<1> DEFINE G == \A s \in Slots, t \in Tickets : WalletStep(s, t)
<1>p. ProfileSlots \subseteq Slots /\ Root \in Slots
  BY Places
<1>u. ASSUME UNCHANGED <<dir, burnt, bought>>
      PROVE  G
  BY <1>u DEF WalletStep, Known, state_of, has
<1>l. ASSUME NEW s \in Slots, UNCHANGED <<burnt, bought>>,
             \A r \in Slots \ {s} : dir'[r] = dir[r],
             dir'[s] # NoDir /\ "tickets" \in dir'[s].files =>
               dir[s] # NoDir /\ dir'[s].files \subseteq dir[s].files /\ dir'[s].wallet = dir[s].wallet
      PROVE  G
  <2>1. \A r \in Slots \ {s}, t \in Tickets : WalletStep(r, t)
    BY <1>l DEF WalletStep, Known, state_of, has
  <2>2. \A t \in Tickets : WalletStep(s, t)
    BY <1>l DEF WalletStep, Known, state_of, has
  <2> QED
    BY <2>1, <2>2
<1>s. ASSUME NEW s \in Slots, dir[s] # NoDir, NEW w \in [Tickets -> TicketState], save_wallet(s, w),
             bought \subseteq bought', burnt \subseteq burnt',
             \A t \in Tickets : /\ w[t] # "none" => t \in bought'
                                /\ w[t] = "spent" => t \in burnt'
                                /\ state_of(s, t) = "spent" => w[t] = "spent"
      PROVE  G
  <2>1. \A r \in Slots \ {s}, t \in Tickets : state_of(r, t)' = state_of(r, t) /\ has(r, "tickets")' = has(r, "tickets")
    BY <1>s, Saved DEF state_of, has
  <2>2. \A r \in Slots \ {s}, t \in Tickets : WalletStep(r, t)
    BY <1>s, <2>1 DEF WalletStep, Known
  <2>3. \A t \in Tickets : state_of(s, t)' = w[t]
    BY <1>s, Saved DEF state_of, has
  <2>4. \A t \in Tickets : WalletStep(s, t)
    BY <1>s, <2>3 DEF WalletStep
  <2> QED
    BY <2>2, <2>4
<1>1. ASSUME NEW s \in ProfileSlots, open_delete(s)
      PROVE  G
  BY <1>1, <1>u DEF open_delete, disk
<1>2. CASE cancel_delete \/ shred \/ remove_sncast_account \/ fix_current \/ migration_done \/ panic_wipe \/ panic_shred
           \/ panic_accounts \/ panic_done \/ crash
  BY <1>2, <1>u DEF cancel_delete, shred, remove_sncast_account, fix_current, migration_done, panic_wipe, panic_shred,
                    panic_accounts, panic_done, crash, disk
<1>3. ASSUME NEW targets \in SUBSET ProfileSlots, NEW drop \in BOOLEAN, delete_profile(targets, drop)
      PROVE  G
  BY <1>3, <1>u DEF delete_profile, disk
<1>4. CASE move_tickets
  <2>0. UNCHANGED <<burnt, bought>>
    BY <1>4, TicketsMoved
  <2>1. CASE UNCHANGED <<dir, kc>>
    BY <2>0, <2>1, <1>u
  <2>2. ASSUME NEW to \in op.to, NEW w \in [Tickets -> TicketState], save_wallet(to, w), wallet_opens(to),
               w = [t \in Tickets |-> IF t \in movable(op.slot) /\ new_to(to, t)
                                        THEN moved_state(state_of(op.slot, t)) ELSE state_of(to, t)]
        PROVE  G
    <3>1. deleting("move")
      BY <1>4, TicketsMoved
    <3>2. to \in Slots /\ dir[to] # NoDir /\ op.slot \in Slots
      BY <1>p, <2>2, <3>1 DEF TypeOK, deleting, Deletion, Migration, Panic, wallet_opens, has
    <3>3. ASSUME NEW t \in Tickets
          PROVE  /\ w[t] # "none" => t \in bought'
                 /\ w[t] = "spent" => t \in burnt'
                 /\ state_of(to, t) = "spent" => w[t] = "spent"
      <4>1. CASE t \in movable(op.slot) /\ new_to(to, t)
        <5>1. state_of(op.slot, t) \notin {"none", "spent"} /\ state_of(to, t) = "none"
          BY <4>1 DEF movable, new_to
        <5>2. w[t] = moved_state(state_of(op.slot, t)) /\ w[t] # "spent"
          BY <2>2, <4>1, <5>1 DEF moved_state
        <5> QED
          BY <2>0, <3>2, <5>1, <5>2 DEF Known
      <4>2. CASE ~(t \in movable(op.slot) /\ new_to(to, t))
        BY <2>0, <2>2, <3>2, <4>2 DEF Known
      <4> QED
        BY <4>1, <4>2
    <3> QED
      BY <2>0, <2>2, <3>2, <3>3, <1>s
  <2> QED
    BY <1>4, <2>1, <2>2, TicketsMoved
<1>5. CASE remove_dir_all
  <2>1. deleting("remove") /\ UNCHANGED <<burnt, bought>> /\ dir[op.slot] # NoDir
    BY <1>5 DEF remove_dir_all
  <2>2. op.slot \in Slots /\ \A r \in Slots \ {op.slot} : dir'[r] = dir[r]
    BY <1>5, <1>p, <2>1, FileRemoved
  <2>3. dir'[op.slot] # NoDir => dir'[op.slot].files \subseteq dir[op.slot].files /\ dir'[op.slot].wallet = dir[op.slot].wallet
    BY <1>5, <2>1, FileRemoved
  <2> QED
    BY <2>1, <2>2, <2>3, <1>l
<1>6. ASSUME NEW n \in Names, archive_profile(n) \/ unarchive_profile(n) \/ write_current(n) \/ plan_migration(n)
      PROVE  G
  <2>1. ASSUME NEW from \in ProfileSlots, NEW to \in ProfileSlots, rename(from, to)
        PROVE  G
    <3>1. /\ UNCHANGED <<burnt, bought>> /\ dir[to] = NoDir /\ from # to /\ from \in Slots /\ to \in Slots
          /\ dir'[to] = dir[from] /\ dir'[from] = NoDir /\ \A r \in Slots \ {from, to} : dir'[r] = dir[r]
      BY <1>p, <2>1 DEF rename, TypeOK
    <3>2. \A t \in Tickets : /\ state_of(from, t)' = "none" /\ ~has(from, "tickets")'
                             /\ state_of(to, t) = "none" /\ state_of(to, t)' = state_of(from, t)
      BY <3>1 DEF state_of, has
    <3>3. \A r \in Slots \ {from, to}, t \in Tickets : WalletStep(r, t)
      BY <3>1 DEF WalletStep, Known, state_of, has
    <3>4. \A t \in Tickets : WalletStep(from, t) /\ WalletStep(to, t)
      BY <3>1, <3>2 DEF WalletStep, Known
    <3> QED
      BY <3>3, <3>4
  <2> QED
    BY <1>6, <1>u, <2>1, Places DEF archive_profile, unarchive_profile, write_current, plan_migration, disk
<1>7. CASE execute_migration
  <2>1. /\ op.slot \in ProfileSlots /\ op.slot # Root /\ \A r \in ProfileSlots \ {op.slot} : dir'[r] = dir[r]
        /\ dir'[Root] # NoDir => dir[Root] # NoDir /\ dir'[Root].files \subseteq dir[Root].files
                                 /\ dir'[Root].wallet = dir[Root].wallet
        /\ "tickets" \notin dir'[op.slot].files /\ UNCHANGED <<burnt, bought>>
    BY <1>7, EntryMoved, Places DEF execute_migration
  <2>2. \A r \in ProfileSlots \ {op.slot}, t \in Tickets : WalletStep(r, t)
    BY <1>p, <2>1 DEF WalletStep, Known, state_of, has
  <2>3. ASSUME NEW t \in Tickets
        PROVE  WalletStep(op.slot, t)
    <3>1. op'.slot = op.slot /\ ~has(op.slot, "tickets")
      BY <1>7, EntryMoved DEF Migrating, execute_migration
    <3>2. state_of(op.slot, t) = "none" 
      BY <3>1 DEF state_of
    <3>3. state_of(op.slot, t)' = "none"
      BY <2>1, <3>1 DEF state_of, has
    <3> QED
      BY <3>2, <3>3 DEF WalletStep
  <2>4. \A t \in Tickets : WalletStep(Root, t)
    BY <1>p, <2>1 DEF WalletStep, Known, state_of, has
  <2> QED
    BY <2>2, <2>3, <2>4 DEF Slots
<1>8. CASE panic_remove
  <2>1. ASSUME NEW s \in op.owned, dir[s] # NoDir,
               dir' = [dir EXCEPT ![s] = IF s = Root /\ has(s, "config") THEN without(s, "config") ELSE NoDir]
        PROVE  G
    <3>1. s \in Slots
      BY <1>8, <2>1 DEF panic_remove, panicking, TypeOK, Panic, Deletion, Migration
    <3> DEFINE new == IF s = Root /\ has(s, "config") THEN without(s, "config") ELSE NoDir
    <3>2. new # NoDir => new.files \subseteq dir[s].files /\ new.wallet = dir[s].wallet
      BY <3>1, WithoutIs
    <3> HIDE DEF new
    <3>3. dir' = [dir EXCEPT ![s] = new] /\ dir \in [Slots -> Dir \cup {NoDir}]
      BY <2>1 DEF new, TypeOK
    <3>4. dir'[s] = new /\ \A r \in Slots \ {s} : dir'[r] = dir[r]
      BY <3>1, <3>3
    <3>5. UNCHANGED <<burnt, bought>>
      BY <1>8 DEF panic_remove
    <3> QED
      BY <2>1, <3>1, <3>2, <3>4, <3>5, <1>l
  <2>2. CASE UNCHANGED dir
    BY <1>8, <2>2, <1>u DEF panic_remove
  <2> QED
    BY <1>8, <2>1, <2>2 DEF panic_remove
<1>9. ASSUME NEW s \in Slots, NEW t \in Tickets, worker(s, t)
      PROVE  G
  <2>1. has(s, "config") /\ bought' = bought \cup {t}
    BY <1>9, WorkerSaves
  <2>2. PICK w \in [Tickets -> TicketState] :
          /\ save_wallet(s, w) /\ \A u \in Tickets \ {t} : w[u] = state_of(s, u)
          /\ \/ w[t] = "unspent" /\ t \notin bought /\ UNCHANGED burnt
             \/ w[t] \in {"unspent", "reserved", "submitted"} /\ state_of(s, t) \in {"unspent", "reserved"}
                  /\ UNCHANGED burnt
             \/ w[t] = "spent" /\ burnt' = burnt \cup {t} /\ state_of(s, t) = "submitted"
    BY <1>9, WorkerSaves
  <2>3. burnt \subseteq burnt' /\ bought \subseteq bought' /\ dir[s] # NoDir
    BY <2>1, <2>2 DEF has
  <2>4. \A u \in Tickets \ {t} : /\ w[u] # "none" => u \in bought'
                                 /\ w[u] = "spent" => u \in burnt'
                                 /\ state_of(s, u) = "spent" => w[u] = "spent"
    BY <2>1, <2>2, <2>3 DEF Known
  <2>5. /\ w[t] # "none" => t \in bought'
        /\ w[t] = "spent" => t \in burnt'
        /\ state_of(s, t) = "spent" => w[t] = "spent"
    <3>1. state_of(s, t) = "spent" => t \in bought
      BY DEF Known
    <3> QED
      BY <2>1, <2>2, <3>1
  <2> QED
    BY <2>2, <2>3, <2>4, <2>5, <1>s
<1> QED
  BY <1>1, <1>2, <1>3, <1>4, <1>5, <1>6, <1>7, <1>8, <1>9 DEF Next

LEMMA MigratingStays == TypeOK /\ Migrating /\ [Next]_vars => Migrating'
<1> SUFFICES ASSUME TypeOK, Migrating, [Next]_vars, op' # NoOp, op'.kind = "migrate"
             PROVE  ~has(op.slot, "tickets")' /\ \A f \in op'.moves : has(Root, f)'
  BY DEF Migrating
<1>k. \A at : /\ deleting(at) => op.kind = "delete" /\ [op EXCEPT !.at = "shred"].kind = "delete"
                  /\ [op EXCEPT !.at = "account"].kind = "delete" /\ [op EXCEPT !.at = "remove"].kind = "delete"
              /\ panicking(at) => op.kind = "panic" /\ [op EXCEPT !.at = "accounts"].kind = "panic"
                  /\ [op EXCEPT !.at = "done"].kind = "panic"
  BY DEF deleting, panicking, TypeOK, Deletion, Migration, Panic
<1>1. CASE UNCHANGED <<dir, op>>
  BY <1>1 DEF Migrating, has
<1>2. ASSUME NEW n \in Names, plan_migration(n)
      PROVE  ~has(op.slot, "tickets")' /\ \A f \in op'.moves : has(Root, f)'
  <2>1. dir[Live(n)] = NoDir /\ dir[Root] # NoDir /\ UNCHANGED dir /\ op'.slot = Live(n) /\ op'.moves \subseteq dir[Root].files
    BY <1>2 DEF plan_migration, disk, detect_legacy, has, planned_moves
  <2> QED
    BY <2>1 DEF has
<1>3. CASE execute_migration
  BY <1>3, EntryMoved DEF has
<1>4. CASE shred \/ remove_sncast_account \/ remove_dir_all \/ move_tickets
  BY <1>4, <1>k DEF shred, remove_sncast_account, remove_dir_all, move_tickets, step
<1>5. CASE panic_shred \/ panic_remove
  BY <1>5, <1>k DEF panic_shred, panic_remove, step
<1>6. CASE panic_accounts
  <2>1. op \in [kind : {"panic"}, at : {"shred", "accounts"}, accounts : SUBSET Accounts]
    BY <1>6 DEF panic_accounts, panicking, TypeOK, Deletion, Migration, Panic
  <2> QED
    BY <1>6, <2>1 DEF panic_accounts
<1> QED
  BY <1>1, <1>2, <1>3, <1>4, <1>5, <1>6 DEF Next, vars, disk, open_delete, cancel_delete, delete_profile, fix_current,
       archive_profile, unarchive_profile, rename, write_current, migration_done, panic_wipe, panic_done, worker, crash

LEMMA PanickingStays == TypeOK /\ Panicking /\ [Next]_vars => Panicking'
<1> SUFFICES ASSUME TypeOK, Panicking, [Next]_vars
             PROVE  Panicking'
  OBVIOUS
<1>k. ASSUME op' # NoOp => op'.kind # "panic"
      PROVE  Panicking'
  BY <1>k DEF Panicking, panicking
<1>d. \A at : deleting(at) => [op EXCEPT !.at = "shred"].kind = "delete"
                  /\ [op EXCEPT !.at = "account"].kind = "delete" /\ [op EXCEPT !.at = "remove"].kind = "delete"
                  /\ op.kind = "delete"
  BY DEF deleting, TypeOK, Deletion, Migration, Panic
<1>p. \A at : panicking(at) => op \in Panic
  BY DEF panicking, TypeOK, Deletion, Migration
<1>1. CASE panic_wipe
  BY <1>1 DEF panic_wipe, Panicking, panicking
<1>2. CASE panic_shred
  <2>1. op' # NoOp => op'.at = "accounts"
    BY <1>2, <1>p DEF panic_shred, panicking, step, Panic
  <2> QED
    BY <1>2, <2>1 DEF panic_shred, Panicking, panicking
<1>3. CASE panic_accounts
  <2>1. op \in [kind : {"panic"}, at : {"shred", "accounts"}, accounts : SUBSET Accounts] /\ op.at = "accounts" /\ kc = {}
    BY <1>3 DEF panic_accounts, panicking, TypeOK, Deletion, Migration, Panic, Panicking
  <2>2. CASE op.accounts = {}
    <3>1. op' = [kind |-> "panic", at |-> "remove", owned |-> owned_entries] /\ UNCHANGED <<dir, kc>>
      BY <1>3, <2>2 DEF panic_accounts
    <3> QED
      BY <2>1, <3>1 DEF Panicking, panicking, owned_entries, all_profile_dirs
  <2>3. CASE op.accounts # {}
    <3>1. op'.at = "accounts" /\ UNCHANGED kc
      BY <1>3, <2>1, <2>3 DEF panic_accounts
    <3> QED
      BY <2>1, <3>1 DEF Panicking, panicking
  <2> QED
    BY <2>2, <2>3
<1>4. CASE panic_remove
  <2>1. op \in [kind : {"panic"}, at : {"remove", "done"}, owned : SUBSET Slots] /\ op.at = "remove" /\ kc = {}
        /\ all_profile_dirs \subseteq op.owned /\ UNCHANGED kc
    BY <1>4 DEF panic_remove, panicking, TypeOK, Deletion, Migration, Panic, Panicking
  <2>2. ASSUME NEW s \in op.owned, dir[s] # NoDir, UNCHANGED <<op, current>>,
               dir' = [dir EXCEPT ![s] = IF s = Root /\ has(s, "config") THEN without(s, "config") ELSE NoDir]
        PROVE  Panicking'
    <3>1. \A r \in ProfileSlots : dir'[r] # NoDir => dir[r] # NoDir
      BY <2>1, <2>2, Places DEF TypeOK
    <3> QED
      BY <2>1, <2>2, <3>1 DEF Panicking, panicking, all_profile_dirs
  <2>3. CASE (\A s \in op.owned : dir[s] = NoDir) /\ current' = NoName /\ step("done") /\ UNCHANGED dir
    <3>1. all_profile_dirs = {}
      BY <2>1, <2>3 DEF all_profile_dirs
    <3>2. op'.at = "done"
      BY <2>1, <2>3 DEF step
    <3> QED
      BY <2>1, <2>3, <3>1, <3>2 DEF Panicking, panicking, all_profile_dirs
  <2> QED
    BY <1>4, <2>2, <2>3 DEF panic_remove
<1>5. CASE shred \/ remove_sncast_account \/ remove_dir_all \/ move_tickets \/ fix_current
  BY <1>5, <1>d, <1>k DEF shred, remove_sncast_account, remove_dir_all, move_tickets, step, fix_current
<1>6. ASSUME NEW targets \in SUBSET ProfileSlots, NEW drop \in BOOLEAN, delete_profile(targets, drop)
      PROVE  Panicking'
  BY <1>6, <1>k DEF delete_profile
<1>7. CASE execute_migration
  <2>1. op \in Migration
    BY <1>7 DEF execute_migration, TypeOK, Deletion, Panic
  <2>2. op'.kind = "migrate"
    BY <1>7, <2>1 DEF execute_migration, Migration
  <2> QED
    BY <2>2, <1>k
<1>8. ASSUME NEW n \in Names, archive_profile(n) \/ unarchive_profile(n) \/ write_current(n) \/ plan_migration(n)
      PROVE  Panicking'
  BY <1>8, <1>k DEF archive_profile, unarchive_profile, rename, write_current, plan_migration
<1>9. CASE migration_done \/ panic_done \/ crash \/ cancel_delete
  BY <1>9, <1>k DEF migration_done, panic_done, crash, cancel_delete
<1>10. ASSUME NEW s \in Slots, open_delete(s) \/ (\E t \in Tickets : worker(s, t))
       PROVE  Panicking'
  BY <1>10, <1>k DEF open_delete, worker
<1>11. CASE UNCHANGED vars
  BY <1>11 DEF vars, disk, Panicking, panicking, all_profile_dirs
<1> QED
  BY <1>1, <1>2, <1>3, <1>4, <1>5, <1>6, <1>7, <1>8, <1>9, <1>10, <1>11, Places DEF Next

LEMMA KnownStays == TypeOK /\ Known /\ Migrating /\ [Next]_vars => Known'
<1> SUFFICES ASSUME TypeOK, Known, Migrating, [Next]_vars
             PROVE  Known'
  OBVIOUS
<1>1. CASE Next
  BY <1>1, WalletSteps DEF Known, WalletStep
<1>2. CASE UNCHANGED vars
  BY <1>2 DEF vars, disk, Known, state_of, has
<1> QED
  BY <1>1, <1>2

-----------------------------------------------------------------------------
(* Tickets *)

(* A step that keeps the directories keeps what is safe in them.            *)
LEMMA SafeSame ==
  ASSUME UNCHANGED <<dir, kc>>
  PROVE  /\ \A t, s : Safe(t, s) => Safe(t, s)'
         /\ \A t, s : in_flight(s, t) => in_flight(s, t)'
BY DEF Safe, in_flight, opens, profile_key_id, state_of, has

(* Where a ticket owed is found.                                            *)
LEMMA InWallet ==
  ASSUME TypeOK, Known, NEW t \in Owed, NEW s \in ProfileSlots, Safe(t, s)
  PROVE  t \in movable(s) \/ in_flight(s, t)
<1>1. t \in Tickets /\ t \notin burnt /\ s \in Slots
  BY Places DEF Owed, TypeOK
<1>2. state_of(s, t) \notin {"none", "spent"}
  BY <1>1 DEF Known, Safe
<1> QED
  BY <1>1, <1>2 DEF movable, wallet_opens, Safe

LEMMA SavedSafe ==
  ASSUME TypeOK, NEW s \in ProfileSlots, has(s, "config"), opens(s),
         NEW w \in [Tickets -> TicketState], save_wallet(s, w)
  PROVE  \A t \in Tickets :
           /\ w[t] # "none" => Safe(t, s)'
           /\ \A r \in ProfileSlots : Safe(t, r) /\ (state_of(s, t) # "none" => w[t] # "none") => Safe(t, r)'
           /\ \A r \in ProfileSlots : (in_flight(r, t) /\ (state_of(s, t) = "submitted" => w[t] = "submitted")) => in_flight(r, t)'
           /\ \A r \in ProfileSlots \ {s} : in_flight(r, t) => in_flight(r, t)'
<1>1. dir[s] # NoDir /\ ProfileSlots \subseteq Slots
  BY Places DEF has
<1>2. /\ \A r \in Slots \ {s} : dir'[r] = dir[r]
      /\ dir'[s] # NoDir /\ dir'[s].files = dir[s].files \cup {"tickets", "vault"} /\ dir'[s].wallet = w
      /\ \A r \in Slots : opens(r) => opens(r)'
  BY <1>1, Saved
<1>3. /\ \A f : \A r \in Slots : has(r, f) => has(r, f)'
      /\ has(s, "tickets")' /\ \A t \in Tickets : state_of(s, t)' = w[t]
      /\ \A r \in ProfileSlots \ {s}, t \in Tickets : state_of(r, t)' = state_of(r, t)
  <2>1. \A f : \A r \in Slots : has(r, f) => has(r, f)'
    BY <1>2 DEF has
  <2>2. has(s, "tickets")' /\ \A t \in Tickets : state_of(s, t)' = w[t]
    BY <1>2 DEF has, state_of
  <2>3. \A r \in ProfileSlots \ {s}, t \in Tickets : state_of(r, t)' = state_of(r, t)
    BY <1>1, <1>2 DEF has, state_of
  <2> QED
    BY <2>1, <2>2, <2>3
<1> QED
  BY <1>1, <1>2, <1>3 DEF Safe, in_flight

(* What is safe but in one directory stays so, if no other changes.         *)
LEMMA OthersSafe ==
  ASSUME NEW s, \A r \in ProfileSlots \ {s} : dir'[r] = dir[r], UNCHANGED kc
  PROVE  /\ \A t : Elsewhere(t, s) => Elsewhere(t, s)'
         /\ \A t : \A r \in ProfileSlots \ {s} : Safe(t, r) => Safe(t, r)'
<1>1. \A t : \A r \in ProfileSlots \ {s} : Safe(t, r) => Safe(t, r)'
  BY DEF Safe, opens, profile_key_id, state_of, has
<1> QED
  BY <1>1 DEF Elsewhere

LEMMA ShredKeeps ==
  ASSUME TypeOK, shred, NEW s \in all_profile_dirs \ {op.slot}, opens(s)
  PROVE  opens(s)'
<1>1. UNCHANGED dir /\ kc' = IF key_sharers(op.slot) = {} THEN kc \ {profile_key_id(op.slot)} ELSE kc
  BY DEF shred
<1>2. CASE dir[s].sealed
  <2>1. profile_key_id(s) \in kc /\ profile_key_id(s) # NoId
    BY <1>2, AbsenceAssumption DEF opens, TypeOK
  <2>2. key_sharers(op.slot) = {} => profile_key_id(s) # profile_key_id(op.slot)
    BY <2>1 DEF key_sharers
  <2>3. profile_key_id(s) \in kc' /\ profile_key_id(s)' = profile_key_id(s)
    BY <1>1, <2>1, <2>2 DEF profile_key_id, has
  <2> QED
    BY <1>1, <1>2, <2>3 DEF opens
<1>3. CASE ~dir[s].sealed
  BY <1>1, <1>3 DEF opens
<1> QED
  BY <1>2, <1>3

LEMMA TicketsStay ==
  ASSUME FreshPlans, ~FlatInUse
  PROVE  TypeOK /\ Known /\ Migrating /\ Kept /\ Deleting /\ [Next]_vars => Kept' /\ Deleting'
<1> SUFFICES ASSUME TypeOK, Known, Migrating, Kept, Deleting, [Next]_vars
             PROVE  Kept' /\ Deleting'
  OBVIOUS
<1> DEFINE G == Kept' /\ Deleting'
<1>t. Owed \subseteq Tickets /\ ProfileSlots \subseteq Slots
  BY Places DEF Owed, TypeOK
<1>k. /\ \A at : deleting(at) => op \in Deletion /\ op # NoOp
      /\ \A at : panicking(at) => op \in Panic /\ op # NoOp
      /\ op # NoOp => op \in Deletion \/ op \in Migration \/ op \in Panic
  BY DEF deleting, panicking, TypeOK, Deletion, Migration, Panic
<1>p. ASSUME abandoned' = Tickets, bought' \subseteq Tickets,
             op' # NoOp => op'.kind # "delete", plan' = NoOp
      PROVE  G
  BY <1>p DEF Kept, Deleting, Owed, deleting
<1>h. ASSUME UNCHANGED <<dir, kc, burnt, bought, abandoned>>
      PROVE  /\ \A t \in Owed' : \E s \in ProfileSlots : Safe(t, s)'
             /\ Owed' = Owed
             /\ \A t, s : Elsewhere(t, s) => Elsewhere(t, s)'
             /\ \A t, s : in_flight(s, t) => in_flight(s, t)'
  <2>1. /\ \A t, s : Safe(t, s) => Safe(t, s)'
        /\ \A t, s : in_flight(s, t) => in_flight(s, t)'
    BY <1>h, SafeSame
  <2>2. Owed' = Owed
    BY <1>h DEF Owed
  <2>3. \A t, s : Elsewhere(t, s) => Elsewhere(t, s)'
    BY <2>1 DEF Elsewhere
  <2> QED
    BY <2>1, <2>2, <2>3 DEF Kept
<1>1. ASSUME NEW s \in ProfileSlots, open_delete(s)
      PROVE  G
  <2>1. /\ UNCHANGED <<dir, kc, burnt, bought, abandoned, op>> /\ op = NoOp
        /\ plan' = [slot |-> s, movable |-> movable(s), targets |-> {d \in all_profile_dirs \ {s} : complete(d)}]
    BY <1>1 DEF open_delete, disk
  <2>2. plan'.slot = s /\ plan'.slot \notin plan'.targets /\ plan'.movable = movable(s)
    BY <2>1
  <2>3. \A t \in Owed : t \in movable(s) \/ in_flight(s, t) \/ Elsewhere(t, s)
    BY InWallet DEF Kept, Elsewhere
  <2> QED
    BY <1>h, <2>1, <2>2, <2>3 DEF Kept, Deleting, deleting
<1>2. CASE cancel_delete
  <2>1. UNCHANGED <<dir, kc, burnt, bought, abandoned>> /\ op' = NoOp /\ plan' = NoOp
    BY <1>2 DEF cancel_delete, disk
  <2> QED
    BY <1>h, <2>1 DEF Kept, Deleting, deleting
<1>3. ASSUME NEW targets \in SUBSET ProfileSlots, NEW drop \in BOOLEAN, delete_profile(targets, drop)
      PROVE  G
  <2>1. /\ UNCHANGED <<dir, kc, burnt, bought, abandoned, plan>> /\ op = NoOp /\ plan # NoOp /\ targets \subseteq plan.targets
        /\ op'.kind = "delete" /\ op'.slot = plan.slot /\ op'.to = targets
        /\ op'.at = "move" \/ (op'.at = "shred" /\ op'.given = plan.movable)
    BY <1>3 DEF delete_profile, disk
  <2> QED
    BY <1>h, <2>1 DEF Kept, Deleting, deleting
<1>4. CASE move_tickets
  <2>0. /\ deleting("move") /\ UNCHANGED <<plan, burnt, bought, abandoned>> /\ plan # NoOp
        /\ op.slot = plan.slot /\ op.to \subseteq plan.targets /\ plan.slot \notin plan.targets
        /\ op \in Deletion /\ op.slot \in ProfileSlots /\ op.to \subseteq ProfileSlots
    <3>1. deleting("move") /\ UNCHANGED <<plan, burnt, bought, abandoned>>
      BY <1>4, TicketsMoved
    <3>2. op \in Deletion /\ op # NoOp /\ op.kind = "delete"
      BY <1>k, <3>1 DEF deleting
    <3> QED
      BY <3>1, <3>2 DEF Deleting, Deletion
  <2>1. CASE UNCHANGED <<dir, kc>> /\ op' = NoOp
    BY <1>h, <2>0, <2>1 DEF Kept, Deleting, deleting
  <2>2. ASSUME NEW to \in op.to, NEW w \in [Tickets -> TicketState], save_wallet(to, w), wallet_opens(to), opens(to),
               w = [t \in Tickets |-> IF t \in movable(op.slot) /\ new_to(to, t)
                                        THEN moved_state(state_of(op.slot, t)) ELSE state_of(to, t)],
               step("shred")
        PROVE  G
    <3>1. to \in ProfileSlots /\ to # op.slot /\ has(to, "config")
      BY <2>0, <2>2 DEF wallet_opens
    <3>2. \A t \in Tickets : state_of(to, t) # "none" => w[t] # "none"
      BY <2>2 DEF new_to
    <3>3. \A t \in movable(op.slot) : t \in Tickets /\ w[t] # "none"
      BY <2>2 DEF new_to, moved_state, movable
    <3>4. Owed' = Owed
      BY <2>0 DEF Owed
    <3>5. \A t \in Owed, r \in ProfileSlots : Safe(t, r) => Safe(t, r)'
      BY <1>t, <2>2, <3>1, <3>2, SavedSafe
    <3>6. \A t \in movable(op.slot) : Safe(t, to)'
      BY <2>2, <3>1, <3>3, SavedSafe
    <3>7. \A t \in Owed, r \in ProfileSlots \ {to} : in_flight(r, t) => in_flight(r, t)'
      BY <1>t, <2>2, <3>1, SavedSafe
    <3>8. op'.kind = "delete" /\ op'.slot = op.slot /\ op'.to = op.to /\ op'.at = "shred"
      BY <2>0, <2>2 DEF step, Deletion
    <3>9. \A t \in Owed : in_flight(op.slot, t)' \/ Elsewhere(t, op.slot)'
      <4> SUFFICES ASSUME NEW t \in Owed
                   PROVE  (\E r \in {op.slot} : in_flight(r, t)') \/ \E r \in ProfileSlots \ {op.slot} : Safe(t, r)'
        BY <3>8 DEF Elsewhere
      <4>1. PICK r \in ProfileSlots : Safe(t, r)
        BY DEF Kept
      <4>2. CASE r # op.slot
        BY <3>5, <4>1, <4>2
      <4>3. CASE r = op.slot
        BY <2>0, <3>1, <3>6, <3>7, <4>1, <4>3, InWallet
      <4> QED
        BY <4>2, <4>3
    <3> QED
      BY <2>0, <3>4, <3>5, <3>8, <3>9 DEF Kept, Deleting, deleting
  <2>3. ASSUME UNCHANGED <<dir, kc>>, step("shred"), NEW to \in op.to, wallet_opens(to), opens(to),
               \A t \in movable(op.slot) : ~new_to(to, t)
        PROVE  G
    <3>1. to \in ProfileSlots \ {op.slot}
      BY <2>0
    <3>2. \A t \in movable(op.slot) : Safe(t, to)
      BY <2>3, <3>1 DEF new_to, state_of, wallet_opens, Safe
    <3>3. op'.kind = "delete" /\ op'.slot = op.slot /\ op'.to = op.to /\ op'.at = "shred"
      BY <2>0, <2>3 DEF step, Deletion
    <3>4. \A t \in Owed : in_flight(op.slot, t) \/ \E r \in ProfileSlots \ {op.slot} : Safe(t, r)
      BY <2>0, <3>1, <3>2, InWallet DEF Kept
    <3>5. Owed' = Owed /\ \A t \in Owed : in_flight(op.slot, t)' \/ Elsewhere(t, op.slot)'
      BY <2>0, <2>3, <3>3, <3>4 DEF Owed, Elsewhere, in_flight, state_of, has, Safe, opens, profile_key_id
    <3> QED
      BY <1>h, <2>0, <2>3, <3>3, <3>5 DEF Kept, Deleting, deleting
  <2> QED
    BY <1>4, <2>1, <2>2, <2>3, TicketsMoved
<1>5. CASE shred
  <2>1. /\ deleting("shred") /\ UNCHANGED <<dir, plan, burnt, bought>> /\ step("account")
        /\ abandoned' = abandoned \cup op.given \cup {t \in Tickets : in_flight(op.slot, t)}
    BY <1>5 DEF shred
  <2>2. op \in Deletion /\ plan # NoOp /\ op.slot = plan.slot /\ op.to \subseteq plan.targets /\ plan.slot \notin plan.targets
        /\ op.kind = "delete"
    BY <1>k, <2>1 DEF deleting, Deleting
  <2>3. op'.kind = "delete" /\ op'.slot = op.slot /\ op'.to = op.to /\ op'.at = "account"
    BY <2>1, <2>2 DEF step, Deletion
  <2>4. \A t \in Owed' : Elsewhere(t, op.slot)'
    <3> SUFFICES ASSUME NEW t \in Owed'
                 PROVE  \E r \in ProfileSlots \ {op.slot} : Safe(t, r)'
      BY <2>3 DEF Elsewhere
    <3>1. t \in Owed /\ t \in Tickets /\ t \notin op.given /\ ~in_flight(op.slot, t)
      BY <1>t, <2>1 DEF Owed
    <3>2. PICK r \in ProfileSlots \ {op.slot} : Safe(t, r)
      BY <2>1, <3>1 DEF Deleting, Elsewhere
    <3>3. opens(r)'
      BY <1>5, <3>2, ShredKeeps DEF Safe, has, all_profile_dirs
    <3> QED
      BY <2>1, <3>2, <3>3 DEF Safe, has, state_of
  <2> QED
    BY <2>1, <2>2, <2>3, <2>4 DEF Kept, Deleting, deleting, Elsewhere
<1>6. CASE remove_sncast_account
  <2>1. deleting("account") /\ UNCHANGED <<dir, kc, plan, burnt, bought, abandoned>> /\ step("remove")
    BY <1>6 DEF remove_sncast_account
  <2>2. op \in Deletion /\ plan # NoOp /\ op.slot = plan.slot /\ op.to \subseteq plan.targets /\ plan.slot \notin plan.targets
        /\ op.kind = "delete"
    BY <1>k, <2>1 DEF deleting, Deleting
  <2>3. op'.kind = "delete" /\ op'.slot = op.slot /\ op'.to = op.to /\ op'.at = "remove"
    BY <2>1, <2>2 DEF step, Deletion
  <2>4. \A t \in Owed : Elsewhere(t, op.slot)'
    BY <1>h, <2>1, <2>3 DEF Deleting, Elsewhere
  <2> QED
    BY <1>h, <2>1, <2>2, <2>3, <2>4 DEF Kept, Deleting, deleting
<1>7. CASE remove_dir_all
  <2>1. deleting("remove") /\ UNCHANGED <<kc, op, plan, burnt, bought, abandoned>> /\ op # NoOp /\ op.kind = "delete"
    BY <1>7 DEF remove_dir_all, deleting
  <2>2. \A r \in ProfileSlots \ {op.slot} : dir'[r] = dir[r]
    BY <1>7, <1>t, <2>1, FileRemoved
  <2>3. Owed' = Owed /\ \A t \in Owed : Elsewhere(t, op.slot)'
    <3>1. \A t \in Owed : \E r \in ProfileSlots \ {op.slot} : Safe(t, r)'
      BY <2>1, <2>2, OthersSafe DEF Deleting, Elsewhere
    <3> QED
      BY <2>1, <3>1 DEF Owed, Elsewhere
  <2>4. \A t \in Owed : \E r \in ProfileSlots : Safe(t, r)'
    BY <2>3 DEF Elsewhere
  <2> QED
    BY <2>1, <2>3, <2>4 DEF Kept, Deleting, deleting
<1>8. CASE fix_current
  <2>1. UNCHANGED <<dir, kc, burnt, bought, abandoned>> /\ op' = NoOp /\ plan' = NoOp
    BY <1>8 DEF fix_current
  <2> QED
    BY <1>h, <2>1 DEF Kept, Deleting, deleting
<1>9. ASSUME NEW n \in Names, archive_profile(n) \/ unarchive_profile(n)
      PROVE  G
  <2>1. PICK from \in ProfileSlots, to \in ProfileSlots : rename(from, to) /\ from # to
    BY <1>9, Places DEF archive_profile, unarchive_profile
  <2>2. /\ UNCHANGED <<kc, plan, op, burnt, bought, abandoned>> /\ op = NoOp /\ plan = NoOp /\ dir[to] = NoDir
        /\ dir'[to] = dir[from] /\ \A r \in ProfileSlots \ {from, to} : dir'[r] = dir[r]
    BY <1>t, <2>1 DEF rename, TypeOK
  <2>3. \A t : \A r \in ProfileSlots \ {from, to} : Safe(t, r) => Safe(t, r)'
    BY <2>2 DEF Safe, opens, profile_key_id, state_of, has
  <2>4. \A t : Safe(t, from) => Safe(t, to)'
    BY <2>2 DEF Safe, opens, profile_key_id, state_of, has
  <2>5. \A t : ~Safe(t, to)
    BY <2>2 DEF Safe, has
  <2>6. \A t \in Owed : \E r \in ProfileSlots : Safe(t, r)'
    BY <2>1, <2>3, <2>4, <2>5 DEF Kept
  <2>7. Owed' = Owed
    BY <2>2 DEF Owed
  <2> QED
    BY <2>2, <2>6, <2>7 DEF Kept, Deleting, deleting
<1>10. ASSUME NEW n \in Names, write_current(n)
       PROVE  G
  <2>1. UNCHANGED <<dir, kc, burnt, bought, abandoned, op, plan>> /\ op = NoOp
    BY <1>10 DEF write_current
  <2> QED
    BY <1>h, <2>1 DEF Kept, Deleting, deleting
<1>11. ASSUME NEW n \in Names, plan_migration(n)
       PROVE  G
  <2>1. UNCHANGED <<dir, kc, burnt, bought, abandoned, plan>> /\ op = NoOp /\ op'.kind = "migrate"
    BY <1>11 DEF plan_migration, disk
  <2> QED
    BY <1>h, <2>1 DEF Kept, Deleting, deleting
<1>12. CASE execute_migration
  <2>1. /\ UNCHANGED <<kc, plan, burnt, bought, abandoned>> /\ op # NoOp /\ op.kind = "migrate" /\ op'.kind = "migrate"
        /\ op.slot \in ProfileSlots /\ \A r \in ProfileSlots \ {op.slot} : dir'[r] = dir[r]
    BY <1>12, EntryMoved DEF execute_migration
  <2>2. ~has(op.slot, "tickets") /\ \A t : ~Safe(t, op.slot) /\ ~in_flight(op.slot, t)
    BY <2>1 DEF Migrating, Safe, in_flight, state_of
  <2>3. \A t : \A r \in ProfileSlots : /\ Safe(t, r) => Safe(t, r)'
                                       /\ in_flight(r, t) => in_flight(r, t)'
    BY <2>1, <2>2 DEF Safe, in_flight, opens, profile_key_id, state_of, has
  <2>4. Owed' = Owed /\ (plan # NoOp => plan.slot \in ProfileSlots)
    BY <2>1 DEF Owed, TypeOK, DeletePlan
  <2>5. \A t, s : Elsewhere(t, s) => Elsewhere(t, s)'
    BY <2>3 DEF Elsewhere
  <2>6. plan # NoOp => \A t \in Owed' : t \in plan'.movable \/ in_flight(plan.slot, t)' \/ Elsewhere(t, plan.slot)'
    <3> SUFFICES ASSUME plan # NoOp, NEW t \in Owed
                 PROVE  t \in plan.movable \/ in_flight(plan.slot, t)' \/ Elsewhere(t, plan.slot)'
      BY <2>1, <2>4
    <3>1. t \in plan.movable \/ in_flight(plan.slot, t) \/ Elsewhere(t, plan.slot)
      BY <2>1 DEF Deleting
    <3>2. plan'.slot = plan.slot
      BY <2>1
    <3>3. CASE in_flight(plan.slot, t)
      BY <2>3, <2>4, <3>2, <3>3
    <3>4. CASE Elsewhere(t, plan.slot)
      BY <2>5, <3>2, <3>4
    <3> QED
      BY <3>1, <3>3, <3>4
  <2> QED
    BY <2>1, <2>3, <2>4, <2>6 DEF Kept, Deleting, deleting
<1>13. CASE migration_done
  <2>1. UNCHANGED <<dir, kc, burnt, bought, abandoned, plan>> /\ op' = NoOp /\ op # NoOp /\ op.kind = "migrate"
    BY <1>13 DEF migration_done, disk
  <2> QED
    BY <1>h, <2>1 DEF Kept, Deleting, deleting
<1>14. CASE panic_wipe
  BY <1>14, <1>p DEF panic_wipe, TypeOK
<1>15. CASE panic_shred \/ panic_accounts \/ panic_remove \/ panic_done
  <2>1. op \in Panic /\ op # NoOp /\ op.kind = "panic" /\ UNCHANGED <<plan, bought, abandoned>>
    BY <1>15, <1>k DEF panic_shred, panic_accounts, panic_remove, panic_done, panicking
  <2>2. op' # NoOp => op'.kind = "panic"
    BY <1>15, <2>1 DEF panic_shred, panic_accounts, panic_remove, panic_done, step, Panic
  <2>3. abandoned' = Tickets /\ bought' \subseteq Tickets
    BY <2>1 DEF Kept, TypeOK
  <2> QED
    BY <2>1, <2>2, <2>3 DEF Kept, Deleting, Owed, deleting
<1>16. CASE crash
  <2>1. UNCHANGED <<dir, kc, burnt, bought, abandoned>> /\ op' = NoOp /\ plan' = NoOp
    BY <1>16 DEF crash, disk
  <2> QED
    BY <1>h, <2>1 DEF Kept, Deleting, deleting
<1>17. CASE UNCHANGED vars
  <2>1. UNCHANGED <<dir, kc, burnt, bought, abandoned, op, plan>>
    BY <1>17 DEF vars, disk
  <2> QED
    BY <1>h, <2>1 DEF Kept, Deleting, deleting
<1>18. ASSUME NEW s \in Slots, NEW t \in Tickets, worker(s, t)
       PROVE  G
  <2>1. /\ s \in ProfileSlots /\ has(s, "config") /\ opens(s) /\ op = NoOp
        /\ bought' = bought \cup {t} /\ UNCHANGED <<plan, op, abandoned>>
    BY <1>18, WorkerSaves DEF resolve_home
  <2>2. PICK w \in [Tickets -> TicketState] :
          /\ save_wallet(s, w) /\ \A u \in Tickets \ {t} : w[u] = state_of(s, u)
          /\ \/ w[t] = "unspent" /\ t \notin bought /\ plan = NoOp /\ UNCHANGED burnt
             \/ w[t] \in {"unspent", "reserved", "submitted"} /\ state_of(s, t) \in {"unspent", "reserved"}
                  /\ UNCHANGED burnt
             \/ w[t] = "spent" /\ burnt' = burnt \cup {t} /\ state_of(s, t) = "submitted"
    BY <1>18, WorkerSaves
  <2>3. \A u \in Tickets : state_of(s, u) # "none" => w[u] # "none"
    BY <2>2
  <2>4. \A u \in Tickets : u \notin burnt' => (state_of(s, u) = "submitted" => w[u] = "submitted")
    <3>1. t \notin bought => state_of(s, t) # "submitted"
      BY <1>18 DEF Known
    <3> QED
      BY <2>2, <3>1
  <2>5. /\ \A u \in Owed, r \in ProfileSlots : Safe(u, r) => Safe(u, r)'
        /\ \A u \in Owed' \cap Owed, r \in ProfileSlots : in_flight(r, u) => in_flight(r, u)'
        /\ w[t] # "none" => Safe(t, s)'
    <3>1. Owed \subseteq Tickets /\ Owed' \cap Owed \subseteq Tickets \ burnt'
      BY <1>t DEF Owed
    <3> QED
      BY <2>1, <2>2, <2>3, <2>4, <3>1, SavedSafe
  <2>6. Owed' \subseteq Owed \cup {t} /\ (plan # NoOp => Owed' \subseteq Owed) /\ (t \in Owed' => t \in Owed \/ w[t] # "none")
    <3>1. burnt \subseteq burnt'
      BY <2>2
    <3>2. t \notin bought => w[t] = "unspent" /\ plan = NoOp
      BY <2>2 DEF Known
    <3> QED
      BY <2>1, <3>1, <3>2 DEF Owed
  <2>7. Kept'
    BY <2>1, <2>5, <2>6 DEF Kept
  <2>8. ASSUME plan # NoOp
        PROVE  \A u \in Owed' : u \in plan'.movable \/ in_flight(plan.slot, u)' \/ Elsewhere(u, plan.slot)'
    <3> SUFFICES ASSUME NEW u \in Owed'
                 PROVE  u \in plan.movable \/ in_flight(plan.slot, u)' \/ Elsewhere(u, plan.slot)'
      BY <2>1
    <3>1. u \in Owed' \cap Owed /\ plan'.slot = plan.slot /\ plan.slot \in ProfileSlots
      BY <2>1, <2>6, <2>8 DEF TypeOK, DeletePlan
    <3>2. u \in plan.movable \/ in_flight(plan.slot, u) \/ Elsewhere(u, plan.slot)
      BY <2>1, <2>8, <3>1 DEF Deleting
    <3>3. CASE in_flight(plan.slot, u)
      BY <2>5, <3>1, <3>3
    <3>4. CASE Elsewhere(u, plan.slot)
      <4>1. \E r \in ProfileSlots \ {plan.slot} : Safe(u, r)'
        BY <2>5, <3>1, <3>4 DEF Elsewhere
      <4> QED
        BY <3>1, <4>1 DEF Elsewhere
    <3> QED
      BY <3>2, <3>3, <3>4
  <2> QED
    BY <2>1, <2>7, <2>8 DEF Deleting, deleting
<1> QED
  BY <1>1, <1>2, <1>3, <1>4, <1>5, <1>6, <1>7, <1>8, <1>9, <1>10, <1>11, <1>12, <1>13, <1>14, <1>15, <1>16, <1>17, <1>18
     DEF Next

-----------------------------------------------------------------------------
(* Theorems *)

Inv == TypeOK /\ Known /\ Migrating /\ Panicking

LEMMA InitInv == Init => Inv
<1> SUFFICES ASSUME Init
             PROVE  Inv
  OBVIOUS
<1>1. DirsTyped
  BY InitialAssumption DEF Init, DirsTyped
<1>2. \A s \in Slots : dir[s] # NoDir => dir[s].id \in Ids
  BY <1>1 DEF DirsTyped, Dir
<1>3. kc \subseteq Ids
  BY <1>2 DEF Init, has
<1>4. current \in Names \cup {NoName} /\ MaxCrashes \in Nat
  BY FilesAssumption DEF Init
<1>5. TypeOK
  BY <1>1, <1>3, <1>4 DEF Init, DirsTyped, TypeOK
<1> QED
  BY <1>5 DEF Init, Inv, Known, Migrating, Panicking, panicking

LEMMA InvStays == Inv /\ [Next]_vars => Inv'
BY TypeStays, KnownStays, MigratingStays, PanickingStays DEF Inv

LEMMA InvAlways == Spec => []Inv
BY InitInv, InvStays, PTL DEF Spec

(* The directories, the Keychain, the accounts and the state of the dialogs *)
(* are always what profiles.rs and wipe.rs can read.                        *)
THEOREM TypeCorrect == Spec => []TypeOK
<1>1. Inv => TypeOK
  BY DEF Inv
<1> QED
  BY <1>1, InvAlways, PTL

(* wipe.rs panic_wipe: when it is over nothing of a profile is left, in the *)
(* directories or the Keychain, after any operations and kills before it.   *)
THEOREM PanicLeavesNothing == Spec => []PanicTakesAll
<1>1. Inv => PanicTakesAll
  BY DEF Inv, Panicking, PanicTakesAll
<1> QED
  BY <1>1, InvAlways, PTL

(* wipe.rs move_tickets and tickets.rs: no wallet forgets that it has spent *)
(* a ticket while it exists.                                                *)
THEOREM SpentIsFinal == Spec => SpentStays
<1> DEFINE A == \A s \in Slots, t \in Tickets :
                  (state_of(s, t) = "spent" /\ dir'[s] # NoDir /\ "tickets" \in dir'[s].files)
                    => dir'[s].wallet[t] = "spent"
<1>1. Inv /\ Next => A
  BY WalletSteps DEF Inv, WalletStep, has, state_of
<1>2. Inv /\ [Next]_vars => [A]_vars
  BY <1>1
<1> QED
  BY <1>2, InvAlways, PTL DEF Spec, SpentStays

(* A deletion takes from no other profile a key its files are sealed under  *)
(* or the account it is set up with, nor the directory itself.              *)
LEMMA OthersKept ==
  ASSUME Inv, Next, op # NoOp, op.kind = "delete", NEW s \in all_profile_dirs \ {op.slot}
  PROVE  /\ dir'[s] # NoDir
         /\ (dir[s].sealed /\ opens(s)) => dir'[s].id \in kc'
         /\ profile_account(s) \in sncast => profile_account(s) \in sncast'
<1> DEFINE G == /\ dir'[s] # NoDir
                /\ (dir[s].sealed /\ opens(s)) => dir'[s].id \in kc'
                /\ profile_account(s) \in sncast => profile_account(s) \in sncast'
<1>0. TypeOK /\ s \in ProfileSlots /\ s \in Slots /\ dir[s] # NoDir /\ s # op.slot /\ op.slot \in ProfileSlots
  BY Places DEF Inv, all_profile_dirs, TypeOK, Deletion, Migration, Panic
<1>k. \A r \in Slots : r = s /\ dir[r].sealed /\ opens(r) => profile_key_id(r) = dir[s].id /\ dir[s].id \in kc
  BY AbsenceAssumption, <1>0 DEF opens, profile_key_id, TypeOK
<1>1. CASE move_tickets
  <2>0. UNCHANGED sncast /\ op.to \subseteq Slots
    BY <1>0, <1>1, TicketsMoved DEF TypeOK, deleting, Deletion, Migration, Panic, Slots
  <2>1. CASE UNCHANGED <<dir, kc>>
    BY <1>0, <1>k, <2>0, <2>1
  <2>2. ASSUME NEW to \in op.to, NEW w \in [Tickets -> TicketState], save_wallet(to, w), wallet_opens(to)
        PROVE  G
    <3>1. dir[to] # NoDir /\ to \in Slots
      BY <2>0, <2>2 DEF wallet_opens, has
    <3>2. /\ \A r \in Slots \ {to} : dir'[r] = dir[r]
          /\ dir'[to] # NoDir /\ dir'[to].id = dir[to].id /\ kc \subseteq kc'
      BY <1>0, <2>2, <3>1, Saved
    <3> QED
      BY <1>0, <1>k, <2>0, <3>2
  <2> QED
    BY <1>0, <1>1, <2>1, <2>2, TicketsMoved
<1>2. CASE shred
  <2>1. UNCHANGED <<dir, sncast>>
    BY <1>2 DEF shred
  <2>2. dir[s].sealed /\ opens(s) => dir'[s].id \in kc'
    <3> SUFFICES ASSUME dir[s].sealed, opens(s)
                 PROVE  dir'[s].id \in kc'
      OBVIOUS
    <3>1. profile_key_id(s)' \in kc' /\ profile_key_id(s)' = profile_key_id(s)
      BY <1>0, <1>2, <2>1, ShredKeeps DEF opens, profile_key_id, has
    <3> QED
      BY <1>0, <1>k, <2>1, <3>1
  <2> QED
    BY <1>0, <2>1, <2>2
<1>3. CASE remove_sncast_account
  <2>1. UNCHANGED <<dir, kc>> /\ sncast' = IF op.drop /\ ~account_shared(op.slot) THEN sncast \ {profile_account(op.slot)} ELSE sncast
    BY <1>3 DEF remove_sncast_account
  <2>2. ~account_shared(op.slot) => profile_account(s) # profile_account(op.slot)
    BY DEF account_shared
  <2> QED
    BY <1>0, <1>k, <2>1, <2>2
<1>4. CASE remove_dir_all
  <2>1. deleting("remove") /\ UNCHANGED <<kc, sncast>>
    BY <1>4 DEF remove_dir_all
  <2>2. dir'[s] = dir[s]
    BY <1>0, <1>4, <2>1, FileRemoved
  <2> QED
    BY <1>0, <1>k, <2>1, <2>2
<1>5. CASE fix_current \/ crash
  BY <1>0, <1>5, <1>k DEF fix_current, crash, disk
<1> QED
  BY <1>1, <1>2, <1>3, <1>4, <1>5
     DEF Next, open_delete, cancel_delete, delete_profile, archive_profile, unarchive_profile, rename, write_current,
         plan_migration, execute_migration, migration_done, panic_wipe, panic_shred, panic_accounts, panic_remove,
         panic_done, panicking, worker

(* wipe.rs delete_profile, key_sharers and account_shared: deleting one     *)
(* profile harms no other, copies of the deleted one included.              *)
THEOREM DeletionHarmsNoOther == Spec => OthersKeep
<1> DEFINE A == op # NoOp /\ op.kind = "delete" =>
                  \A s \in all_profile_dirs \ {op.slot} :
                    /\ dir'[s] # NoDir
                    /\ (dir[s].sealed /\ opens(s)) => dir'[s].id \in kc'
                    /\ profile_account(s) \in sncast => profile_account(s) \in sncast'
<1>1. Inv /\ Next => A
  BY OthersKept
<1>2. Inv /\ [Next]_vars => [A]_vars
  BY <1>1
<1> QED
  BY <1>2, InvAlways, PTL DEF Spec, OthersKeep

LEMMA InitKept ==
  ASSUME ~FlatInUse, Init
  PROVE  Kept /\ Deleting
<1>1. dir \in [Slots -> Dir \cup {NoDir}] /\ dir \in InitialDirs
  BY InitialAssumption DEF Init
<1>2. ASSUME NEW t \in Owed
      PROVE  \E s \in ProfileSlots : Safe(t, s)
  <2>1. PICK s \in Slots : state_of(s, t) # "none"
    BY <1>2 DEF Init, Owed
  <2>2. has(s, "tickets") /\ dir[s] # NoDir
    BY <2>1 DEF state_of, has
  <2>3. has(s, "config") /\ (dir[s].sealed => has(s, "vault")) /\ s # Root
    BY <1>1, <2>2, InitialAssumption DEF has
  <2>4. opens(s)
    BY <2>2, <2>3 DEF opens, profile_key_id, Init
  <2> QED
    BY <2>1, <2>2, <2>3, <2>4 DEF Safe, Slots
<1> QED
  BY <1>2 DEF Kept, Deleting, Init, deleting

(* wipe.rs:246, migrate and archive: wherever a delete, an archiving or a   *)
(* migration is killed, and however it is done again, a ticket that was not *)
(* spent and not given up is in a wallet that opens.  It takes that nothing *)
(* is bought while a delete dialog is open and no flat profile is in use.   *)
THEOREM TicketsSurvive ==
  ASSUME FreshPlans, ~FlatInUse
  PROVE  Spec => []TicketsKept
<1> DEFINE K == Inv /\ Kept /\ Deleting
<1>1. Init => K
  BY InitInv, InitKept
<1>2. K /\ [Next]_vars => K'
  BY InvStays, TicketsStay DEF Inv
<1>3. K => TicketsKept
  BY Places DEF Kept, Owed, Safe, TicketsKept
<1> HIDE DEF K
<1> QED
  BY <1>1, <1>2, <1>3, PTL DEF Spec
=============================================================================
