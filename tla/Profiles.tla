------------------------------- MODULE Profiles -------------------------------
(***************************************************************************)
(* The profile directories of the zkmsg client and what moves, hides and    *)
(* deletes them: core/src/profiles.rs, wipe.rs, tickets on disk, and the    *)
(* dialogs of the GUI that call them (delete_view.rs, retire_view.rs,       *)
(* migrate_view.rs).                                                        *)
(*                                                                         *)
(* A root holds profiles, live or under archive/, and perhaps the files of  *)
(* a legacy flat profile.  The operations run in the thread of the user     *)
(* interface, one file operation after the other; the program may be killed *)
(* between any two and started again, and the user then does what they      *)
(* like.  Workers touch a wallet only while no operation runs, which the    *)
(* dialogs' busy gate provides.                                             *)
(***************************************************************************)
EXTENDS Naturals, FiniteSets

CONSTANTS
  Names, Ids, Accounts, Tickets,
  NoDir, NoName, NoOp, NoId, NoAccount,
  InitialDirs,   \* the directories the program starts with
  Files,         \* the entries of a profile directory (keys.json goes where sends go)
  ROOT_ENTRIES,  \* the entries a migration moves
  MaxCrashes,    \* bound on the times the program is killed
  FreshPlans,    \* no ticket is bought while a delete dialog is open
  FlatInUse      \* the command line still uses a legacy flat profile

Live(n) == [place |-> "live", name |-> n]
Archived(n) == [place |-> "archive", name |-> n]
ProfileSlots == [place : {"live", "archive"}, name : Names]
Root == [place |-> "root", name |-> NoName]
Slots == ProfileSlots \cup {Root}

TicketState == {"none", "unspent", "reserved", "submitted", "spent"}
DeletePlan == [slot : ProfileSlots, movable : SUBSET Tickets, targets : SUBSET ProfileSlots]
Deletion == [kind : {"delete"}, slot : ProfileSlots, to : SUBSET ProfileSlots, drop : BOOLEAN,
             given : SUBSET Tickets, at : {"move", "shred", "account", "remove"}]
Migration == [kind : {"migrate"}, slot : ProfileSlots, moves : SUBSET ROOT_ENTRIES]
Panic == [kind : {"panic"}, at : {"shred", "accounts"}, accounts : SUBSET Accounts]
         \cup [kind : {"panic"}, at : {"remove", "done"}, owned : SUBSET Slots]
(* "id" is the key vault.json names, or would name once the first write     *)
(* creates it; "sealed" says whether the secret files were sealed yet.      *)
Dir == [files : SUBSET Files, id : Ids, sealed : BOOLEAN, account : Accounts,
        wallet : [Tickets -> TicketState]]

ASSUME FilesAssumption ==
  /\ {"config", "vault", "tickets", "sends"} = Files
  /\ ROOT_ENTRIES \subseteq Files \ {"tickets"} /\ MaxCrashes \in Nat /\ {FreshPlans, FlatInUse} \subseteq BOOLEAN
ASSUME AbsenceAssumption == NoDir \notin Dir /\ NoId \notin Ids /\ NoAccount \notin Accounts
(* A wallet is one of a profile that is set up, sealed under its vault's    *)
(* key; a flat profile has one only if the command line goes on with it.    *)
ASSUME InitialAssumption ==
  /\ InitialDirs \subseteq [Slots -> Dir \cup {NoDir}]
  /\ \A d \in InitialDirs, s \in Slots :
       /\ d[s] # NoDir => d[s].files # {}
       /\ d[s] # NoDir /\ "tickets" \in d[s].files =>
            "config" \in d[s].files /\ (d[s].sealed => "vault" \in d[s].files) /\ (s = Root => FlatInUse)

VARIABLES
  dir,       \* [Slots -> Dir \cup {NoDir}]
  kc,        \* the profile keys in the Keychain
  sncast,    \* the accounts in sncast's accounts file
  current,   \* the root's "current" file
  plan,      \* the open delete dialog: its DeletePlan, or NoOp
  op,        \* the operation under way, or NoOp
  burnt,     \* tickets spent on chain
  bought,    \* history: tickets some wallet ever held
  abandoned, \* history: tickets the user chose to lose
  crashed    \* history: how often the program was killed during an operation

disk == <<dir, kc, sncast, current>>
vars == <<disk, plan, op, burnt, bought, abandoned, crashed>>

has(s, f) == dir[s] # NoDir /\ f \in dir[s].files
all_profile_dirs == {s \in ProfileSlots : dir[s] # NoDir}
complete(s) == s \in ProfileSlots /\ s.place = "live" /\ has(s, "config")
profile_key_id(s) == IF has(s, "vault") THEN dir[s].id ELSE NoId
(* Sealed files open if vault.json names a key that the Keychain holds.     *)
opens(s) == dir[s] # NoDir /\ (dir[s].sealed => profile_key_id(s) \in kc)
(* vault::write of a wallet, which creates the vault of a plaintext profile.*)
save_wallet(s, w) ==
  /\ dir' = [dir EXCEPT ![s].files = @ \cup {"tickets", "vault"}, ![s].sealed = TRUE, ![s].wallet = w]
  /\ kc' = kc \cup IF dir[s].sealed THEN {} ELSE {dir[s].id}
key_sharers_none(s) == {}
key_sharers(s) ==
  {d \in all_profile_dirs \ {s} : profile_key_id(s) # NoId /\ profile_key_id(d) = profile_key_id(s)}
profile_account(s) == IF has(s, "config") THEN dir[s].account ELSE NoAccount
account_shared(s) ==
  \E d \in all_profile_dirs \ {s} : profile_account(d) = profile_account(s)

(* Wallet::load: empty without a tickets file, an error if it does not open.*)
wallet_opens(s) == has(s, "config") /\ (has(s, "tickets") => opens(s))
state_of(s, t) == IF has(s, "tickets") THEN dir[s].wallet[t] ELSE "none"
(* classify_tickets: a reserved ticket is in flight if its send's file says *)
(* that a publish was submitted.                                            *)
in_flight(s, t) == state_of(s, t) = "submitted" /\ has(s, "sends")
movable_unspent(s) ==
  IF wallet_opens(s) THEN {t \in Tickets : state_of(s, t) = "unspent"} ELSE {}
movable(s) ==
  IF wallet_opens(s)
    THEN {t \in Tickets : state_of(s, t) \notin {"none", "spent"} /\ ~in_flight(s, t)}
    ELSE {}

-----------------------------------------------------------------------------
(* The delete dialog.  plan_delete reads local files only.                  *)
open_delete(s) ==
  /\ op = NoOp /\ plan = NoOp /\ s \in all_profile_dirs
  /\ plan' = [slot |-> s, movable |-> movable(s),
              targets |-> {d \in all_profile_dirs \ {s} : complete(d)}]
  /\ UNCHANGED <<disk, op, burnt, bought, abandoned, crashed>>

cancel_delete ==
  /\ op = NoOp /\ plan # NoOp /\ plan' = NoOp
  /\ UNCHANGED <<disk, op, burnt, bought, abandoned, crashed>>

(* The confirmed delete_profile: tickets move first, if the plan has any.   *)
(* Without a target the user gives up what the plan showed, and always what *)
(* a submitted send has reserved.                                           *)
delete_profile(targets, drop) ==
  /\ op = NoOp /\ plan # NoOp
  /\ targets \subseteq plan.targets /\ Cardinality(targets) <= 1
  /\ LET moves == targets # {} /\ plan.movable # {} IN
     op' = [kind |-> "delete", slot |-> plan.slot, to |-> targets, drop |-> drop,
            given |-> IF moves THEN {} ELSE plan.movable,
            at |-> IF moves THEN "move" ELSE "shred"]
  /\ UNCHANGED <<disk, plan, burnt, bought, abandoned, crashed>>

step(at) == op' = [op EXCEPT !.at = at]
deleting(at) == op # NoOp /\ op.kind = "delete" /\ op.at = at

(* move_tickets writes the target, if it gets anything, and leaves the      *)
(* source.                                                                  *)
new_to_by_state(to, t) == state_of(to, t) # "unspent"
new_to(to, t) == state_of(to, t) = "none"
moved_state(st) == IF st \in {"reserved", "submitted"} THEN "unspent" ELSE st
move_tickets ==
  /\ deleting("move")
  /\ \E to \in op.to :
       IF wallet_opens(to) /\ opens(to) /\ wallet_opens(op.slot)
         THEN /\ IF \E t \in movable(op.slot) : new_to(to, t)
                   THEN save_wallet(to, [t \in Tickets |->
                          IF t \in movable(op.slot) /\ new_to(to, t)
                            THEN moved_state(state_of(op.slot, t)) ELSE state_of(to, t)])
                   ELSE UNCHANGED <<dir, kc>>
              /\ step("shred")
         ELSE UNCHANGED <<dir, kc>> /\ op' = NoOp
  /\ UNCHANGED <<sncast, current, plan, burnt, bought, abandoned, crashed>>

(* wipe_profile: the key, the account, the directory, current.              *)
shred ==
  /\ deleting("shred")
  /\ kc' = IF key_sharers(op.slot) = {} THEN kc \ {profile_key_id(op.slot)} ELSE kc
  /\ abandoned' = abandoned \cup op.given \cup {t \in Tickets : in_flight(op.slot, t)}
  /\ step("account")
  /\ UNCHANGED <<dir, sncast, current, plan, burnt, bought, crashed>>

remove_sncast_account ==
  /\ deleting("account")
  /\ sncast' = IF op.drop /\ ~account_shared(op.slot) THEN sncast \ {profile_account(op.slot)} ELSE sncast
  /\ step("remove")
  /\ UNCHANGED <<dir, kc, current, plan, burnt, bought, abandoned, crashed>>

without(s, f) == IF dir[s].files = {f} THEN NoDir ELSE [dir[s] EXCEPT !.files = @ \ {f}]
remove_dir_all ==
  /\ deleting("remove") /\ dir[op.slot] # NoDir
  /\ \E f \in dir[op.slot].files : dir' = [dir EXCEPT ![op.slot] = without(op.slot, f)]
  /\ UNCHANGED <<kc, sncast, current, plan, op, burnt, bought, abandoned, crashed>>

names_current(s) == s.place = "live" /\ s.name = current
fix_current ==
  /\ deleting("remove") /\ dir[op.slot] = NoDir
  /\ LET next == {n \in Names : complete(Live(n))} IN
     IF names_current(op.slot)
       THEN current' \in IF next = {} THEN {NoName} ELSE next
       ELSE UNCHANGED current
  /\ op' = NoOp /\ plan' = NoOp
  /\ UNCHANGED <<dir, kc, sncast, burnt, bought, abandoned, crashed>>

-----------------------------------------------------------------------------
(* Archiving and unarchiving, each one rename that refuses a collision.     *)
rename(from, to) ==
  /\ op = NoOp /\ plan = NoOp
  /\ dir[from] # NoDir /\ dir[to] = NoDir
  /\ dir' = [dir EXCEPT ![to] = dir[from], ![from] = NoDir]
  /\ UNCHANGED <<kc, sncast, current, plan, op, burnt, bought, abandoned, crashed>>
archive_profile(n) == rename(Live(n), Archived(n))
unarchive_profile(n) == rename(Archived(n), Live(n))
write_current(n) ==
  /\ op = NoOp /\ complete(Live(n)) /\ current' = n /\ current # n
  /\ UNCHANGED <<dir, kc, sncast, plan, op, burnt, bought, abandoned, crashed>>

(* Migration of a legacy flat profile: one rename per entry, config.json    *)
(* first; the screen is shown while the root has a config.json.             *)
detect_legacy == has(Root, "config")
planned_moves == ROOT_ENTRIES \cap dir[Root].files
plan_migration(n) ==
  /\ op = NoOp /\ detect_legacy /\ dir[Live(n)] = NoDir
  /\ op' = [kind |-> "migrate", slot |-> Live(n), moves |-> planned_moves]
  /\ UNCHANGED <<disk, plan, burnt, bought, abandoned, crashed>>
execute_migration ==
  /\ op # NoOp /\ op.kind = "migrate" /\ op.moves # {}
  /\ \E f \in op.moves :
       /\ "config" \in op.moves => f = "config"
       /\ dir' = [dir EXCEPT ![Root] = without(Root, f),
                    ![op.slot] = [dir[Root] EXCEPT
                       !.files = {f} \cup IF dir[op.slot] = NoDir THEN {} ELSE dir[op.slot].files]]
       /\ op' = [op EXCEPT !.moves = @ \ {f}]
  /\ UNCHANGED <<kc, sncast, current, plan, burnt, bought, abandoned, crashed>>
migration_done ==
  /\ op # NoOp /\ op.kind = "migrate" /\ op.moves = {} /\ op' = NoOp
  /\ UNCHANGED <<disk, plan, burnt, bought, abandoned, crashed>>

-----------------------------------------------------------------------------
(* The panic wipe asks nothing of the dialogs: the accounts it will remove  *)
(* are read first, then the keys go, the accounts, and the files it owns.   *)
panic_wipe ==
  /\ op = NoOp
  /\ op' = [kind |-> "panic", at |-> "shred",
            accounts |-> {profile_account(s) : s \in all_profile_dirs} \ {NoAccount}]
  /\ plan' = NoOp /\ abandoned' = Tickets
  /\ UNCHANGED <<disk, burnt, bought, crashed>>
panicking(at) == op # NoOp /\ op.kind = "panic" /\ op.at = at
panic_shred ==
  /\ panicking("shred") /\ kc' = {} /\ step("accounts")
  /\ UNCHANGED <<dir, sncast, current, plan, burnt, bought, abandoned, crashed>>
owned_live == {s \in all_profile_dirs : s.place = "live"}
owned_entries ==
  all_profile_dirs \cup IF has(Root, "config") THEN {Root} ELSE {}
panic_accounts ==
  /\ panicking("accounts")
  /\ IF op.accounts = {}
       THEN op' = [kind |-> "panic", at |-> "remove", owned |-> owned_entries] /\ UNCHANGED sncast
       ELSE \E a \in op.accounts : sncast' = sncast \ {a} /\ op' = [op EXCEPT !.accounts = @ \ {a}]
  /\ UNCHANGED <<dir, kc, current, plan, burnt, bought, abandoned, crashed>>
panic_remove ==
  /\ panicking("remove")
  /\ \/ \E s \in op.owned :
          /\ dir[s] # NoDir
          /\ dir' = [dir EXCEPT ![s] = IF s = Root /\ has(s, "config") THEN without(s, "config") ELSE NoDir]
          /\ UNCHANGED <<op, current>>
     \/ /\ \A s \in op.owned : dir[s] = NoDir
        /\ current' = NoName /\ step("done") /\ UNCHANGED dir
  /\ UNCHANGED <<kc, sncast, plan, burnt, bought, abandoned, crashed>>

panic_done ==
  /\ panicking("done") /\ op' = NoOp
  /\ UNCHANGED <<disk, plan, burnt, bought, abandoned, crashed>>

-----------------------------------------------------------------------------
(* What the workers of the current profile do to its wallet between         *)
(* operations: buy, reserve, submit, give back, burn.                       *)
(* A flat root is a home of its own for the command line; otherwise the     *)
(* current profile, if it is complete.                                      *)
resolve_home ==
  (IF FlatInUse /\ detect_legacy THEN {Root} ELSE {})
  \cup {s \in ProfileSlots : complete(s) /\ names_current(s)}
set_ticket(s, t, st) == save_wallet(s, [u \in Tickets |-> IF u = t THEN st ELSE state_of(s, u)])
worker(s, t) ==
  /\ op = NoOp /\ s \in resolve_home /\ opens(s)
  /\ \/ /\ t \notin bought /\ (FreshPlans => plan = NoOp) /\ set_ticket(s, t, "unspent") /\ UNCHANGED burnt
     \/ state_of(s, t) = "unspent" /\ t \notin burnt /\ has(s, "sends")
          /\ set_ticket(s, t, "reserved") /\ UNCHANGED burnt
     \/ state_of(s, t) = "reserved" /\ set_ticket(s, t, "submitted") /\ UNCHANGED burnt
     \/ state_of(s, t) = "reserved" /\ set_ticket(s, t, "unspent") /\ UNCHANGED burnt
     \/ state_of(s, t) = "submitted" /\ burnt' = burnt \cup {t} /\ set_ticket(s, t, "spent")
  /\ bought' = bought \cup {t}
  /\ UNCHANGED <<sncast, current, plan, op, abandoned, crashed>>

crash ==
  /\ crashed < MaxCrashes /\ op # NoOp
  /\ op' = NoOp /\ plan' = NoOp /\ crashed' = crashed + 1
  /\ UNCHANGED <<disk, burnt, bought, abandoned>>

Init ==
  /\ dir \in InitialDirs
  /\ kc = {dir[s].id : s \in {d \in Slots : has(d, "vault")}}
  /\ sncast = Accounts
  /\ current \in {NoName} \cup {n \in Names : complete(Live(n))}
  /\ plan = NoOp /\ op = NoOp /\ abandoned = {} /\ crashed = 0
  /\ burnt = {t \in Tickets : \E s \in Slots : state_of(s, t) = "spent"}
  /\ bought = {t \in Tickets : \E s \in Slots : state_of(s, t) # "none"}

Next ==
  \/ \E s \in ProfileSlots : open_delete(s)
  \/ cancel_delete
  \/ \E targets \in SUBSET ProfileSlots, drop \in BOOLEAN : delete_profile(targets, drop)
  \/ move_tickets \/ shred \/ remove_sncast_account \/ remove_dir_all \/ fix_current
  \/ \E n \in Names : archive_profile(n) \/ unarchive_profile(n) \/ write_current(n) \/ plan_migration(n)
  \/ execute_migration \/ migration_done
  \/ panic_wipe \/ panic_shred \/ panic_accounts \/ panic_remove \/ panic_done
  \/ \E s \in Slots, t \in Tickets : worker(s, t)
  \/ crash

Spec == Init /\ [][Next]_vars

-----------------------------------------------------------------------------
(* Type correctness: directories, Keychain, accounts, current and history.  *)
TypeOK ==
  /\ dir \in [Slots -> Dir \cup {NoDir}]
  /\ \A s \in Slots : dir[s] # NoDir => dir[s].files # {}
  /\ kc \subseteq Ids /\ sncast \subseteq Accounts /\ current \in Names \cup {NoName}
  /\ burnt \cup abandoned \subseteq Tickets /\ bought \subseteq Tickets
  /\ crashed \in 0..MaxCrashes
  /\ plan \in DeletePlan \cup {NoOp} /\ op \in Deletion \cup Migration \cup Panic \cup {NoOp}

(* wipe.rs:246: a crash leaves the tickets in both places rather than in    *)
(* neither.  Every ticket that was not spent and that the user did not give *)
(* up is in a wallet that opens, at every step of a delete, an archiving or *)
(* a migration, wherever it is interrupted and however it is retried.       *)
TicketsKept ==
  \A t \in bought \ (burnt \cup abandoned) :
    \E s \in Slots : has(s, "tickets") /\ opens(s) /\ state_of(s, t) # "none"
                     /\ (s = Root => detect_legacy)

(* A wallet that recorded a ticket as spent never offers it again: moving   *)
(* tickets a second time, or from a copied directory, revives none.         *)
SpentStays ==
  [][\A s \in Slots, t \in Tickets :
       (state_of(s, t) = "spent" /\ dir'[s] # NoDir /\ "tickets" \in dir'[s].files)
         => dir'[s].wallet[t] = "spent"]_vars

(* wipe.rs:54, 45: deleting one profile takes nothing from another.  The    *)
(* sealed files of every other directory still open, copies of the deleted  *)
(* one included, and the account it is configured with stays.               *)
OthersKeep ==
  [][op # NoOp /\ op.kind = "delete" =>
       \A s \in all_profile_dirs \ {op.slot} :
         /\ dir'[s] # NoDir
         /\ (dir[s].sealed /\ opens(s)) => dir'[s].id \in kc'
         /\ profile_account(s) \in sncast => profile_account(s) \in sncast']_vars

(* wipe.rs:363: a panic wipe that runs to its end leaves no profile, no key *)
(* and no account of a profile, whatever deletes were interrupted before it.*)
(* (Not the account of a legacy flat profile: panic_wipe never reads it.)   *)
PanicTakesAll ==
  panicking("done") => kc = {} /\ all_profile_dirs = {} /\ current = NoName

(* profiles.rs:14: a migration moves what a legacy profile carries.  When   *)
(* it is over, the profile's sealed keys open in the new directory.         *)
MigratedOpens ==
  (op # NoOp /\ op.kind = "migrate" /\ op.moves = {}) =>
    (has(op.slot, "config") => opens(op.slot))
=============================================================================
