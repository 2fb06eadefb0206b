--------------------------- MODULE SendClientProofs ---------------------------
(***************************************************************************)
(* What a send and a purchase can rely on, for any number of tickets and    *)
(* sends, any quota and any number of kills.  The model's switches stand in  *)
(* the statements: what needs a prompt network or a closed Send button says *)
(* so.                                                                      *)
(***************************************************************************)
EXTENDS SendClient, TLAPS

Choosing   == {"picked", "slotted"}
Publishing == {"publish", "build", "post", "await", "retire", "finish"}

Transactions == mempool \cup wire \cup accepted \cup reverted
Taken == mempool \cup accepted \cup reverted
Executed == accepted \cup reverted

(* The type invariant, by owner. *)
DiskTyped ==
  /\ wallet \in Wallet /\ quota_log \in [epoch : Epoch, used : Nat]
  /\ sends \in [Sends -> SendState] /\ proofs \in [Sends -> Proof]
WorkersTyped ==
  /\ copy \in Wallet /\ buy_copy \in Wallet /\ job \in Job /\ buying \in Tickets \cup {NoTicket}
  /\ pc \in {"idle", "latest", "picked", "slotted", "proving"} \cup Publishing
  /\ buy_pc \in {"idle", "priced", "minted", "submitted", "bought", "syncing"}
ChainTyped ==
  /\ ordered \subseteq Tickets /\ tree \subseteq Tickets /\ burnt \subseteq Tickets
  /\ epoch \in Epoch /\ pool_nonce \in Nonce /\ aged \subseteq Sends /\ foreign \subseteq Nonce
  /\ mempool \subseteq Tx /\ wire \subseteq Tx /\ accepted \subseteq Tx /\ reverted \subseteq Tx
  /\ hit \subseteq Tickets
Typed == DiskTyped /\ WorkersTyped /\ ChainTyped

(* What every place of the two workers has in hand. *)
InHand ==
  /\ pc \in Choosing \cup {"proving"} => job.ticket \in tree
  /\ pc = "proving" => job.id \in Sends /\ sends[job.id].status = "none"
  /\ pc \in Publishing => job.id \in Sends /\ sends[job.id].status = "pending"
  /\ job.id \in Sends => pc \in Publishing \cup {"proving"}
  /\ pc \in {"post", "await"} => sends[job.id].nonce # NoNonce
  /\ buy_pc \in {"minted", "submitted", "bought"} => buying \in Tickets

(* A send with a state has a proof, and only such a send has transactions.  *)
Backed ==
  /\ \A id \in Sends : sends[id].status # "none" => proofs[id].ticket \in tree
  /\ \A tx \in Transactions : sends[tx.id].status # "none"
  /\ \A n \in foreign : n < MaxNonce
  /\ tree \subseteq ordered
  /\ GuiGates \/ pc = "idle" \/ buy_pc = "idle"

(* A slot is recorded before it is used, and given to one proof.            *)
Recorded(e, s) ==
  e < quota_log.epoch \/ (e = quota_log.epoch /\ s < quota_log.used)
Has(id, e, s) == Proved(id) /\ proofs[id].epoch = e /\ proofs[id].slot = s
SlotsRecorded ==
  /\ \A id \in Sends : Proved(id) => Recorded(proofs[id].epoch, proofs[id].slot)
  /\ pc \in {"slotted", "proving"} =>
       /\ Recorded(job.epoch, job.slot)
       /\ \A id \in Sends : ~Has(id, job.epoch, job.slot)
  /\ SlotNeverReused

(* What a worker will write over the wallet holds the secrets too.          *)
SecretsCopied ==
  GuiGates \/
  /\ SecretsOnDisk
  /\ \A t \in ordered :
       /\ pc \in Choosing \cup {"latest"} => copy[t] # Absent
       /\ buy_pc \in {"minted", "submitted", "bought", "syncing"} => buy_copy[t] # Absent
  /\ buy_pc \in {"minted", "submitted", "bought"} =>
       wallet[buying] # Absent /\ buy_copy[buying] # Absent

(* What was executed burnt its ticket, and what is shown as done landed.    *)
BurntOnce ==
  /\ \A tx \in Executed : proofs[tx.id].ticket \in burnt
  /\ accepted \cap reverted = {}
  /\ pc = "finish" => job.id \in landed
  /\ LandsOnce

(* Where no POST was taken late, the only transaction taken of a send is the *)
(* one on record, and there is none while another may be built.             *)
Prompt(id) == ~LatePosts \/ proofs[id].ticket \notin hit
OneOnRecord ==
  /\ LatePosts \/ wire = {}
  /\ \A tx \in Taken : Prompt(tx.id) => tx.nonce = sends[tx.id].nonce
  /\ pc \in {"build", "post"} /\ Prompt(job.id) => \A tx \in Taken : tx.id # job.id
  /\ \A id \in Sends :
       Prompt(id) /\ (sends[id].status = "stale" \/ (pc = "retire" /\ job.id = id)) =>
         id \notin landed /\ ~validates(id)

(* What every wallet says, those that a worker has kept included.            *)
Backs(w) ==
  \A t \in Tickets : /\ w[t] = Spent => t \in burnt
                     /\ w[t].st \in {"Unspent", "Reserved"} => t \in tree
WalletsBacked ==
  /\ Backs(wallet) /\ Backs(copy) /\ Backs(buy_copy)
  /\ pc \in Choosing => copy[job.ticket] = Unspent

(* The wallet tells the truth of a ticket no fault fell on: one send at most *)
(* claims it and has it reserved until it lets go, nothing else is reserved, *)
(* and a burnt ticket is spent or still held by the send that burnt it.     *)
Truthful(t) ==
  /\ \A i, j \in Sends : Claims(i, t) /\ Claims(j, t) => i = j
  /\ \A id \in Sends : Claims(id, t) =>
       wallet[t] \in {Reserved(id), Spent} \/ (wallet[t] = Unspent /\ Leaving(id))
  /\ \A id \in Sends : wallet[t] = Reserved(id) => Claims(id, t) /\ ~Leaving(id)
  /\ t \in burnt => wallet[t] = Spent \/ \E tx \in Executed : wallet[t] = Reserved(tx.id)

Held == \A t \in Tickets \ hit : Truthful(t)

Inv == /\ Typed /\ InHand /\ Backed /\ SlotsRecorded /\ SecretsCopied
       /\ BurntOnce /\ OneOnRecord /\ WalletsBacked /\ Held

-----------------------------------------------------------------------------
(* Wallets *)

LEMMA Entries ==
  /\ {Absent, Pending, Unspent, Spent} \subseteq Entry
  /\ \A id \in Sends : Reserved(id) \in Entry /\ Reserved(id).st = "Reserved"
  /\ \A id \in Sends : Reserved(id) \notin {Absent, Pending, Unspent, Spent}
  /\ Absent # Pending /\ Absent # Unspent /\ Absent # Spent
  /\ Pending # Unspent /\ Pending # Spent /\ Unspent # Spent
  /\ \A i, j \in Sends : Reserved(i) = Reserved(j) => i = j
  /\ \A e \in Entry : e.st = "Reserved" => e.by \in Sends /\ e = Reserved(e.by)
<1>1. \A e \in Entry : e.st = "Reserved" => e.by \in Sends /\ e = Reserved(e.by)
  BY DEF Entry, Reserved
<1> QED
  BY <1>1, ClientAssumption DEF Entry, Absent, Pending, Unspent, Spent, Reserved

LEMMA Settling ==
  ASSUME NEW w \in Wallet, NEW seen
  PROVE  /\ settle(w, seen) \in Wallet
         /\ \A t \in Tickets :
              /\ settle(w, seen)[t] = IF w[t] = Pending /\ t \in seen THEN Unspent ELSE w[t]
              /\ w[t] # Absent => settle(w, seen)[t] # Absent
BY Entries DEF Wallet, settle

LEMMA WalletOperators ==
  ASSUME NEW w \in Wallet, NEW t \in Tickets
  PROVE  /\ release(w, t) \in Wallet /\ mark_spent(w, t) \in Wallet
         /\ \A u \in Tickets \ {t} : release(w, t)[u] = w[u] /\ mark_spent(w, t)[u] = w[u]
         /\ release(w, t)[t] = IF w[t].st = "Reserved" THEN Unspent ELSE w[t]
         /\ mark_spent(w, t)[t] = IF w[t] = Absent THEN Absent ELSE Spent
BY Entries DEF Wallet, release, mark_spent

LEMMA Written ==
  ASSUME NEW w \in Wallet, NEW t \in Tickets, NEW e \in Entry
  PROVE  /\ [w EXCEPT ![t] = e] \in Wallet /\ [w EXCEPT ![t] = e][t] = e
         /\ \A u \in Tickets \ {t} : [w EXCEPT ![t] = e][u] = w[u]
BY DEF Wallet

LEMMA NoCopy == [t \in Tickets |-> Absent] \in Wallet
BY Entries DEF Wallet

-----------------------------------------------------------------------------
(* Records *)

LEMMA Jobs ==
  /\ NoJob \in Job /\ NoJob.id = NoSend
  /\ \A id \in Sends : [NoJob EXCEPT !.id = id] \in Job /\ [NoJob EXCEPT !.id = id].id = id
  /\ \A t \in Tickets, e \in Epoch :
       LET j == [NoJob EXCEPT !.ticket = t, !.epoch = e] IN
       j \in Job /\ j.id = NoSend /\ j.ticket = t /\ j.epoch = e
<1>1. 0 \in Epoch
  BY ClientAssumption DEF Epoch
<1> QED
  BY <1>1 DEF NoJob, Job

LEMMA JobsEdited ==
  ASSUME NEW j \in Job
  PROVE  /\ \A s \in Nat :
              LET k == [j EXCEPT !.slot = s] IN
              k \in Job /\ k.id = j.id /\ k.ticket = j.ticket /\ k.epoch = j.epoch /\ k.slot = s
         /\ \A id \in Sends :
              LET k == [j EXCEPT !.id = id] IN
              k \in Job /\ k.id = id /\ k.ticket = j.ticket /\ k.epoch = j.epoch /\ k.slot = j.slot
BY DEF Job

(* One send's status or nonce is written, the rest of the states are kept.   *)
KeepsOthers(id) == \A i \in Sends \ {id} : sends'[i] = sends[i]
LEMMA StatusWritten ==
  ASSUME sends \in [Sends -> SendState], NEW id \in Sends, NEW s \in {"done", "stale"},
         sends' = [sends EXCEPT ![id].status = s]
  PROVE  /\ sends' \in [Sends -> SendState] /\ KeepsOthers(id)
         /\ sends'[id].status = s /\ sends'[id].nonce = sends[id].nonce
BY DEF SendState, KeepsOthers

LEMMA NonceWritten ==
  ASSUME sends \in [Sends -> SendState], NEW id \in Sends, NEW n \in Nonce,
         sends' = [sends EXCEPT ![id].nonce = n]
  PROVE  /\ sends' \in [Sends -> SendState] /\ KeepsOthers(id)
         /\ sends'[id].status = sends[id].status /\ sends'[id].nonce = n
BY DEF SendState, KeepsOthers

LEMMA PlanWritten ==
  ASSUME sends \in [Sends -> SendState], NEW id \in Sends,
         sends' = [sends EXCEPT ![id] = new_plan]
  PROVE  /\ sends' \in [Sends -> SendState] /\ KeepsOthers(id)
         /\ sends'[id].status = "pending" /\ sends'[id].nonce = NoNonce
BY DEF SendState, KeepsOthers, new_plan

(* The ticket the send worker has in hand. *)
LEMMA InHandTyped ==
  ASSUME Typed, InHand, Backed
  PROVE  /\ pc \in Choosing \cup {"proving"} => job.ticket \in Tickets
         /\ pc \in Publishing =>
              job.id \in Sends /\ proofs[job.id].ticket \in Tickets
BY DEF Typed, ChainTyped, InHand, Backed

-----------------------------------------------------------------------------
(* Who writes what *)

LEMMA DiskWriters ==
  ASSUME Next
  PROVE  \/ UNCHANGED <<quota_log, sends, proofs>>
         \/ take_slot \/ prove_and_save \/ record_submission \/ nonce_rejected \/ retire \/ finish
<1> DEFINE Kept == UNCHANGED <<quota_log, sends, proofs>>
<1>1. Chain \/ BuyWorker \/ User \/ crash => Kept
  BY DEF Chain, BuyWorker, User, diskVars, purchase_lands, late_post, include, drop,
     foreign_post, foreign_gone, next_epoch, root_ages, mint, submit_purchase, purchase_receipt,
     buy_fails, purchase_settled, sync_settled, prepare, resume, buy_tickets, sync_tickets, crash
<1>2. ASSUME \/ prepare_latest \/ prepare_fails \/ (\E id \in Sends : reserve(id)) \/ prove_fails
             \/ settle_hash \/ root_gone \/ post_taken \/ post_unanswered \/ post_refused
             \/ await_acceptance \/ publish_fails
      PROVE  Kept
  BY <1>2 DEF diskVars, prepare_latest, prepare_fails, reserve, prove_fails, settle_hash,
     root_gone, post_taken, post_unanswered, post_refused, await_acceptance, publish_fails
<1> QED
  BY <1>1, <1>2 DEF Next, SendWorker

LEMMA ChainWriters ==
  ASSUME Next
  PROVE  UNCHANGED chainVars \/ Chain \/ submit_purchase \/ post_taken \/ post_unanswered
<1>1. User \/ crash => UNCHANGED chainVars
  BY DEF User, prepare, resume, buy_tickets, sync_tickets, crash
<1>2. BuyWorker => submit_purchase \/ UNCHANGED chainVars
  BY DEF BuyWorker, mint, purchase_receipt, buy_fails, purchase_settled, sync_settled
<1>3. SendWorker => post_taken \/ post_unanswered \/ UNCHANGED chainVars
  BY DEF SendWorker, prepare_latest, take_slot, prepare_fails, reserve, prove_and_save,
     prove_fails, settle_hash, root_gone, record_submission, nonce_rejected, post_refused,
     retire, await_acceptance, publish_fails, finish
<1> QED
  BY <1>1, <1>2, <1>3 DEF Next

(* The status of a send changes in three places. *)
LEMMA StatusWriters ==
  ASSUME Next, sends \in [Sends -> SendState]
  PROVE  \/ prove_and_save \/ retire \/ finish
         \/ UNCHANGED proofs /\ \A id \in Sends : sends'[id].status = sends[id].status
BY DiskWriters DEF take_slot, record_submission, nonce_rejected, SendState

-----------------------------------------------------------------------------
(* Types *)

WalletsTyped == wallet \in Wallet /\ copy \in Wallet /\ buy_copy \in Wallet

LEMMA WalletsStay ==
  ASSUME Inv, Next
  PROVE  WalletsTyped'
<1>t. /\ WalletsTyped
      /\ pc \in Choosing \cup {"proving"} => job.ticket \in Tickets
      /\ pc \in Publishing => proofs[job.id].ticket \in Tickets
  BY InHandTyped DEF Inv, Typed, DiskTyped, WorkersTyped, WalletsTyped
<1> USE DEF WalletsTyped
<1>1. CASE UNCHANGED <<wallet, buy_copy>> /\ (idle \/ UNCHANGED copy)
  BY <1>1, <1>t, NoCopy DEF idle
<1>2. ASSUME NEW base \in fetches, NEW e \in Epoch, prepare(base, e) PROVE WalletsTyped'
  BY <1>2, <1>t, Settling DEF prepare, buyVars
<1>3. CASE prepare_latest
  BY <1>3, <1>t, Settling, NoCopy DEF prepare_latest, idle, buyVars
<1>4. ASSUME NEW id \in Sends, reserve(id) PROVE WalletsTyped'
  BY <1>4, <1>t, Written, Entries DEF reserve, buyVars, Choosing
<1>5. CASE prove_fails
  BY <1>5, <1>t, WalletOperators, NoCopy DEF prove_fails, release_ticket, idle, buyVars
<1>6. CASE settle_hash \/ root_gone \/ post_refused \/ await_acceptance
  BY <1>6, <1>t, WalletOperators DEF settle_hash, root_gone, post_refused, await_acceptance,
     spends, releases, release_ticket, spend_ticket, buyVars, Publishing
<1>7. ASSUME NEW t \in Tickets, mint(t) PROVE WalletsTyped'
  BY <1>7, <1>t, Written, Entries DEF mint, mint_save, sendVars
<1>8. CASE purchase_receipt \/ submit_purchase \/ buy_fails
  BY <1>8, <1>t, NoCopy DEF purchase_receipt, submit_purchase, buy_fails, buy_idle, diskVars, sendVars
<1>9. ASSUME NEW seen \in fetches, purchase_settled(seen) \/ sync_settled(seen) PROVE WalletsTyped'
  BY <1>9, <1>t, Settling, NoCopy DEF purchase_settled, sync_settled, buy_idle, sendVars
<1>10. CASE sync_tickets \/ crash
  BY <1>10, <1>t, NoCopy DEF sync_tickets, crash, idle, buy_idle, diskVars, sendVars
<1>11. CASE Chain \/ buy_tickets \/ \E id \in Sends : resume(id)
  BY <1>1, <1>11 DEF Chain, purchase_lands, late_post, include, drop, foreign_post, foreign_gone,
     next_epoch, root_ages, buy_tickets, resume, diskVars, sendVars, buyVars
<1>12. CASE \/ take_slot \/ prepare_fails \/ prove_and_save \/ record_submission \/ post_taken
            \/ post_unanswered \/ nonce_rejected \/ retire \/ publish_fails \/ finish
  BY <1>1, <1>12 DEF take_slot, prepare_fails, prove_and_save, record_submission, post_taken,
     post_unanswered, nonce_rejected, retire, publish_fails, finish, diskVars, buyVars
<1> QED
  BY <1>2, <1>3, <1>4, <1>5, <1>6, <1>7, <1>8, <1>9, <1>10, <1>11, <1>12
     DEF Next, SendWorker, BuyWorker, User
LEMMA DiskStays ==
  ASSUME Inv, Next
  PROVE  /\ quota_log' \in [epoch : Epoch, used : Nat]
         /\ sends' \in [Sends -> SendState] /\ proofs' \in [Sends -> Proof]
<1>t. /\ quota_log \in [epoch : Epoch, used : Nat] /\ sends \in [Sends -> SendState]
      /\ proofs \in [Sends -> Proof] /\ job \in Job /\ pool_nonce \in Nonce
      /\ pc = "proving" => job.ticket \in Tickets /\ job.id \in Sends
      /\ pc \in Publishing => job.id \in Sends
  BY InHandTyped DEF Inv, Typed, DiskTyped, WorkersTyped, ChainTyped, InHand
<1>1. CASE UNCHANGED <<quota_log, sends, proofs>>
  BY <1>1, <1>t
<1>2. CASE take_slot
  BY <1>2, <1>t DEF take_slot, log_slot, used_in, Job
<1>3. CASE prove_and_save
  BY <1>3, <1>t, PlanWritten DEF prove_and_save, Proof, Job
<1>4. CASE record_submission
  BY <1>4, <1>t, NonceWritten DEF record_submission, Publishing
<1>5. CASE nonce_rejected
  <2>1. CASE sends' = sends
    BY <2>1, <1>5, <1>t DEF nonce_rejected
  <2>2. CASE sends' # sends
    <3>1. sends[job.id].nonce \in Nonce \cup {NoNonce}
      BY <1>5, <1>t DEF nonce_rejected, Publishing, SendState
    <3>2. next_nonce(sends[job.id].nonce) \in Nonce
      BY <1>5, <2>2, <1>t, <3>1 DEF nonce_rejected, next_nonce, Nonce, NoNonce
    <3> QED
      BY <1>5, <2>2, <1>t, <3>2, NonceWritten DEF nonce_rejected, Publishing
  <2> QED
    BY <2>1, <2>2
<1>6. CASE retire \/ finish
  BY <1>6, <1>t, StatusWritten DEF retire, finish, Publishing
<1> QED
  BY <1>1, <1>2, <1>3, <1>4, <1>5, <1>6, DiskWriters

LEMMA WorkersStay ==
  ASSUME Inv, Next
  PROVE  WorkersTyped'
<1> DEFINE Workers ==
      /\ job \in Job /\ buying \in Tickets \cup {NoTicket}
      /\ pc \in {"idle", "latest", "picked", "slotted", "proving"} \cup Publishing
      /\ buy_pc \in {"idle", "priced", "minted", "submitted", "bought", "syncing"}
<1>t. /\ Workers /\ quota_log \in [epoch : Epoch, used : Nat] /\ tree \subseteq Tickets
      /\ job \in Job
  BY DEF Inv, Typed, DiskTyped, WorkersTyped, ChainTyped
<1> SUFFICES Workers'
  BY WalletsStay DEF WorkersTyped, WalletsTyped
<1> USE DEF Publishing
<1>1. CASE UNCHANGED <<buy_pc, buying>> /\ idle
  BY <1>1, <1>t, Jobs DEF idle
<1>2. ASSUME NEW base \in fetches, NEW e \in Epoch, prepare(base, e) PROVE Workers'
  <2>1. CASE pc' = "latest"
    BY <1>2, <2>1, <1>t, Jobs DEF prepare, buyVars
  <2>2. CASE pc' # "latest"
    <3>1. PICK t \in base : wallet'[t] = Unspent /\ job' = [NoJob EXCEPT !.ticket = t, !.epoch = e]
      BY <1>2, <2>2 DEF prepare, pickable
    <3>2. t \in Tickets
      BY <1>t DEF fetches
    <3> QED
      BY <1>2, <2>2, <1>t, <3>1, <3>2, Jobs DEF prepare, buyVars
  <2> QED
    BY <2>1, <2>2
<1>3. CASE take_slot
  BY <1>3, <1>t, JobsEdited DEF take_slot, used_in, buyVars
<1>4. ASSUME NEW id \in Sends, reserve(id) \/ resume(id) PROVE Workers'
  <2>1. CASE reserve(id)
    BY <2>1, <1>t, JobsEdited DEF reserve, buyVars
  <2>2. CASE resume(id)
    <3>1. job' \in Job
      BY <2>2, Jobs DEF resume
    <3> QED
      BY <2>2, <3>1, <1>t DEF resume, buyVars
  <2> QED
    BY <1>4, <2>1, <2>2
<1>5. CASE \/ prove_and_save \/ settle_hash \/ root_gone \/ record_submission \/ post_taken
           \/ nonce_rejected \/ post_refused \/ await_acceptance
  BY <1>5, <1>t DEF prove_and_save, settle_hash, root_gone, record_submission, post_taken,
     nonce_rejected, post_refused, await_acceptance, releases, spends, buyVars
<1>6. CASE prepare_latest \/ prepare_fails \/ prove_fails \/ post_unanswered \/ retire \/ publish_fails \/ finish
  BY <1>1, <1>6 DEF prepare_latest, prepare_fails, prove_fails, post_unanswered, retire,
     publish_fails, finish, buyVars
<1>7. CASE Chain
  BY <1>7, <1>t DEF Chain, sendVars, buyVars, purchase_lands, late_post, include, drop,
     foreign_post, foreign_gone, next_epoch, root_ages
<1>8. CASE BuyWorker \/ buy_tickets \/ sync_tickets
  BY <1>8, <1>t DEF BuyWorker, sendVars, mint, submit_purchase, purchase_receipt, buy_fails,
     purchase_settled, sync_settled, buy_idle, buy_tickets, sync_tickets
<1>9. CASE crash
  BY <1>9, <1>t, Jobs DEF crash, idle, buy_idle
<1> QED
  BY <1>2, <1>3, <1>4, <1>5, <1>6, <1>7, <1>8, <1>9 DEF Next, SendWorker, User
(* The transaction the worker may post is one. *)
LEMMA TxTyped ==
  ASSUME Typed, InHand, pc \in {"post", "await"}
  PROVE  job.id \in Sends /\ tx_of(job.id) \in Tx
BY DEF Typed, DiskTyped, InHand, Publishing, SendState, tx_of, Tx

LEMMA ChainStays ==
  ASSUME Inv, Next
  PROVE  ChainTyped' /\ (\A n \in foreign' : n < MaxNonce)
<1>t. ChainTyped /\ \A n \in foreign : n < MaxNonce
  BY DEF Inv, Typed, Backed
<1>p. /\ pc = "post" => tx_of(job.id) \in Tx
      /\ buy_pc = "minted" => buying \in Tickets
  BY TxTyped DEF Inv, InHand
<1> USE DEF ChainTyped
<1>h. hit' \subseteq Tickets
  BY <1>t DEF Next, harmed
<1> USE <1>h
<1>1. CASE UNCHANGED chainVars
  BY <1>1, <1>t DEF chainVars
<1>2. CASE post_taken \/ post_unanswered
  BY <1>2, <1>t, <1>p DEF post_taken, post_unanswered
<1>3. CASE submit_purchase
  BY <1>3, <1>t, <1>p DEF submit_purchase
<1>4. CASE Chain
  <2>1. ASSUME NEW t \in Tickets, purchase_lands(t) PROVE tree' \subseteq Tickets
    BY <2>1, <1>t DEF purchase_lands
  <2>2. CASE next_epoch
    BY <2>2, <1>t, <1>4, ClientAssumption DEF next_epoch, Epoch
  <2>3. CASE foreign_post
    BY <2>3, <1>t, <1>4 DEF foreign_post, Nonce
  <2>4. ASSUME NEW i \in BOOLEAN, foreign_gone(i)
        PROVE  pool_nonce' \in Nonce /\ foreign' \subseteq foreign
    BY <2>4, <1>t, ClientAssumption DEF foreign_gone, Nonce
  <2>5. ASSUME NEW tx \in Tx, include(tx)
        PROVE  /\ pool_nonce' \in Nonce /\ UNCHANGED foreign
               /\ mempool' \subseteq Tx /\ accepted' \subseteq Tx /\ reverted' \subseteq Tx
    BY <2>5, <1>t, ClientAssumption DEF include, Nonce
  <2>6. ASSUME NEW tx \in Tx, include(tx)
        PROVE  burnt' \subseteq Tickets
    <3>1. tx \in mempool /\ burnt' = burnt \cup {proofs[tx.id].ticket}
      BY <2>6 DEF include
    <3>2. tx.id \in Sends /\ sends[tx.id].status # "none"
      BY <3>1 DEF Inv, Backed, Transactions, Tx
    <3> QED
      BY <3>1, <3>2, <1>t DEF Inv, Backed
  <2>7. ASSUME NEW tx \in Tx, late_post(tx) \/ drop(tx)
        PROVE  mempool' \subseteq Tx /\ wire' \subseteq Tx
    BY <2>7, <1>t DEF late_post, drop
  <2>8. ASSUME NEW t \in Tickets, purchase_lands(t) PROVE ChainTyped' /\ UNCHANGED foreign
    BY <2>1, <2>8, <1>4, <1>t DEF purchase_lands
  <2>9. ASSUME NEW tx \in Tx, late_post(tx) \/ include(tx) \/ drop(tx)
        PROVE  ChainTyped' /\ UNCHANGED foreign
    BY <2>5, <2>6, <2>7, <2>9, <1>4, <1>t DEF late_post, include, drop
  <2>10. ASSUME NEW i \in BOOLEAN, foreign_gone(i)
         PROVE  ChainTyped' /\ foreign' \subseteq foreign
    BY <2>4, <2>10, <1>4, <1>t DEF foreign_gone
  <2>11. ASSUME NEW id \in Sends, root_ages(id) PROVE ChainTyped' /\ UNCHANGED foreign
    BY <2>11, <1>4, <1>t DEF root_ages
  <2> QED
    BY <1>t, <1>4, <2>2, <2>3, <2>8, <2>9, <2>10, <2>11 DEF Chain
<1> QED
  BY <1>1, <1>2, <1>3, <1>4, <1>t, ChainWriters

LEMMA InHandStays ==
  ASSUME Inv, Next
  PROVE  InHand'
<1>t. /\ Typed /\ InHand /\ Backed /\ NoSend \notin Sends
  BY ClientAssumption DEF Inv
<1> USE DEF InHand, Choosing, Publishing
<1> DEFINE Buying == UNCHANGED buyVars
<1>1. CASE idle /\ (Buying \/ buy_idle)
  BY <1>1, <1>t, Jobs DEF idle, buy_idle, buyVars
<1>2. ASSUME NEW base \in fetches, NEW e \in Epoch, prepare(base, e) PROVE InHand'
  <2>1. CASE pc' = "latest"
    BY <1>2, <2>1, <1>t, Jobs DEF prepare, buyVars
  <2>2. CASE pc' # "latest"
    <3>1. PICK t \in base : pc' = "picked" /\ job' = [NoJob EXCEPT !.ticket = t, !.epoch = e]
      BY <1>2, <2>2 DEF prepare, pickable
    <3>2. t \in Tickets /\ t \in tree
      BY <1>t DEF fetches, Typed, ChainTyped
    <3>3. job'.ticket = t /\ job'.id = NoSend
      BY <3>1, <3>2, Jobs
    <3>4. UNCHANGED <<tree, buy_pc, buying>>
      BY <1>2 DEF prepare, buyVars, chainVars
    <3> QED
      BY <1>t, <3>1, <3>2, <3>3, <3>4
  <2> QED
    BY <2>1, <2>2
<1>3. CASE take_slot
  <2>1. used_in(job.epoch) \in Nat /\ job \in Job
    BY <1>t DEF Typed, DiskTyped, WorkersTyped, used_in
  <2> QED
    BY <1>3, <1>t, <2>1, JobsEdited DEF take_slot, buyVars, chainVars
<1>4. ASSUME NEW id \in Sends, reserve(id) PROVE InHand'
  BY <1>4, <1>t, JobsEdited DEF reserve, buyVars, chainVars, Typed, WorkersTyped
<1>5. ASSUME NEW id \in Sends, resume(id) PROVE InHand'
  <2>1. job'.id = id
    BY <1>5, Jobs DEF resume
  <2> QED
    BY <1>5, <2>1, <1>t DEF resume, pending_sends, diskVars, buyVars
<1>6. CASE prove_and_save
  BY <1>6, <1>t, PlanWritten DEF prove_and_save, buyVars, Typed, DiskTyped
<1>7. CASE settle_hash \/ root_gone \/ post_refused \/ await_acceptance
  BY <1>7, <1>t DEF settle_hash, root_gone, post_refused, await_acceptance, releases, spends, buyVars
<1>8. CASE record_submission
  <2>1. pool_nonce \in Nonce /\ NoNonce \notin Nonce
    BY <1>t DEF Typed, ChainTyped, Nonce, NoNonce
  <2> QED
    BY <1>8, <1>t, <2>1, NonceWritten DEF record_submission, buyVars, Typed, DiskTyped
<1>9. CASE post_taken
  BY <1>9, <1>t DEF post_taken, diskVars, buyVars
<1>10. CASE nonce_rejected
  <2>1. CASE sends' = sends
    BY <2>1, <1>10, <1>t DEF nonce_rejected, buyVars
  <2>2. CASE sends' # sends
    <3>1. sends[job.id].nonce \in Nonce \cup {NoNonce}
      BY <1>10, <1>t DEF nonce_rejected, SendState, Typed, DiskTyped
    <3>2. next_nonce(sends[job.id].nonce) \in Nonce /\ NoNonce \notin Nonce
      BY <1>10, <2>2, <1>t, <3>1 DEF nonce_rejected, next_nonce, Nonce, NoNonce, Typed, ChainTyped
    <3> QED
      BY <1>10, <2>2, <1>t, <3>2, NonceWritten DEF nonce_rejected, buyVars, Typed, DiskTyped
  <2> QED
    BY <2>1, <2>2
<1>11. CASE \/ prepare_latest \/ prepare_fails \/ prove_fails \/ post_unanswered \/ retire
            \/ publish_fails \/ finish \/ crash
  BY <1>1, <1>11 DEF prepare_latest, prepare_fails, prove_fails, post_unanswered, retire,
     publish_fails, finish, crash
<1>12. CASE Chain
  BY <1>12, <1>t DEF Chain, diskVars, sendVars, buyVars, purchase_lands, late_post, include, drop,
     foreign_post, foreign_gone, next_epoch, root_ages
<1>13. CASE BuyWorker \/ buy_tickets \/ sync_tickets
  BY <1>13, <1>t DEF BuyWorker, diskVars, sendVars, chainVars, mint, submit_purchase,
     purchase_receipt, buy_fails, purchase_settled, sync_settled, buy_idle, buy_tickets, sync_tickets
<1> QED
  BY <1>2, <1>3, <1>4, <1>5, <1>6, <1>7, <1>8, <1>9, <1>10, <1>11, <1>12, <1>13
     DEF Next, SendWorker, User

(* What was done to a send, to its proof and to the tree is not undone.      *)
Grows ==
  /\ \A id \in Sends : sends[id].status # "none" =>
       sends'[id].status # "none" /\ proofs'[id] = proofs[id]
  /\ tree \subseteq tree' /\ burnt \subseteq burnt' /\ aged \subseteq aged'
  /\ accepted \subseteq accepted' /\ reverted \subseteq reverted' /\ epoch <= epoch'
  /\ hit \subseteq hit'
LEMMA NextGrows ==
  ASSUME Inv, Next
  PROVE  Grows
<1>t. /\ Typed /\ InHand /\ epoch \in Nat /\ sends \in [Sends -> SendState] /\ proofs \in [Sends -> Proof]
      /\ hit \subseteq hit'
  BY DEF Inv, Typed, DiskTyped, ChainTyped, Epoch, Next
<1> USE DEF Grows
<1> DEFINE Sent == \A id \in Sends : sends[id].status # "none" =>
                     sends'[id].status # "none" /\ proofs'[id] = proofs[id]
<1>1. Sent
  <2>1. CASE UNCHANGED proofs /\ \A id \in Sends : sends'[id].status = sends[id].status
    BY <2>1
  <2>2. CASE prove_and_save
    BY <2>2, <1>t, PlanWritten DEF prove_and_save, InHand, KeepsOthers
  <2>3. CASE retire \/ finish
    BY <2>3, <1>t, StatusWritten DEF retire, finish, KeepsOthers, InHand, Publishing
  <2> QED
    BY <1>t, <2>1, <2>2, <2>3, StatusWriters
<1>2. CASE UNCHANGED <<tree, burnt, aged, accepted, reverted, epoch>>
  BY <1>1, <1>2, <1>t
<1>3. CASE Chain
  BY <1>1, <1>3, <1>t DEF Chain, purchase_lands, late_post, include, drop, foreign_post,
     foreign_gone, next_epoch, root_ages
<1> QED
  BY <1>2, <1>3, ChainWriters DEF chainVars, submit_purchase, post_taken, post_unanswered

LEMMA BackedStays ==
  ASSUME Inv, Next
  PROVE  Backed'
<1>t. /\ Typed /\ InHand /\ Backed /\ Grows /\ Typed' /\ InHand'
  BY NextGrows, InHandStays, DiskStays, WalletsStay, WorkersStay, ChainStays
     DEF Inv, Typed, DiskTyped, WalletsTyped
<1>1. \A id \in Sends : sends'[id].status # "none" => proofs'[id].ticket \in tree'
  <2>1. CASE prove_and_save
    <3>1. /\ job.id \in Sends /\ proofs'[job.id].ticket = job.ticket /\ job.ticket \in tree
          /\ KeepsOthers(job.id)
      BY <1>t, <2>1, PlanWritten DEF prove_and_save, InHand, Typed, DiskTyped
    <3> QED
      BY <1>t, <3>1 DEF Backed, Grows, KeepsOthers
  <2>2. CASE \A id \in Sends : sends'[id].status # "none" => sends[id].status # "none"
    BY <1>t, <2>2 DEF Backed, Grows
  <2>3. CASE retire \/ finish
    BY <2>3, <1>t, <2>2, StatusWritten DEF retire, finish, KeepsOthers, InHand, Publishing, Typed, DiskTyped
  <2> QED
    BY <1>t, <2>1, <2>2, <2>3, StatusWriters DEF Typed, DiskTyped
<1>2. \A tx \in Transactions' : sends'[tx.id].status # "none"
  <2>1. \A tx \in Transactions : tx \in Tx /\ tx.id \in Sends
    BY <1>t DEF Typed, ChainTyped, Transactions, Tx
  <2>2. CASE Transactions' \subseteq Transactions
    BY <1>t, <2>1, <2>2 DEF Backed, Grows
  <2>3. CASE post_taken \/ post_unanswered
    <3>1. /\ Transactions' \subseteq Transactions \cup {tx_of(job.id)}
          /\ job.id \in Sends /\ sends[job.id].status # "none"
      BY <1>t, <2>3 DEF Transactions, post_taken, post_unanswered, InHand, Publishing
    <3> QED
      BY <1>t, <2>1, <3>1 DEF Backed, Grows, tx_of
  <2>4. CASE Chain
    BY <2>2, <2>4 DEF Chain, Transactions, purchase_lands, late_post, include, drop, foreign_post,
       foreign_gone, next_epoch, root_ages
  <2> QED
    BY <2>2, <2>3, <2>4, ChainWriters DEF Transactions, chainVars, submit_purchase
<1>3. tree' \subseteq ordered'
  <2>1. CASE UNCHANGED tree /\ ordered \subseteq ordered'
    BY <2>1, <1>t DEF Backed
  <2>2. CASE Chain
    BY <2>2, <1>t DEF Backed, Chain, purchase_lands, late_post, include, drop, foreign_post,
       foreign_gone, next_epoch, root_ages
  <2> QED
    BY <2>1, <2>2, ChainWriters DEF chainVars, submit_purchase, post_taken, post_unanswered
<1>4. (GuiGates \/ pc = "idle" \/ buy_pc = "idle")'
  <2>1. CASE Chain
    BY <1>t, <2>1 DEF Backed, Chain, sendVars, buyVars, purchase_lands, late_post, include, drop,
       foreign_post, foreign_gone, next_epoch, root_ages
  <2>2. CASE BuyWorker
    BY <1>t, <2>2 DEF Backed, BuyWorker, sendVars, mint, submit_purchase, purchase_receipt,
       buy_fails, purchase_settled, sync_settled, buy_idle
  <2>3. CASE User \/ crash
    BY <1>t, <2>3 DEF Backed, User, sendVars, buyVars, prepare, resume, may_send, buy_tickets,
       sync_tickets, crash, idle
  <2>4. CASE SendWorker
    BY <1>t, <2>4 DEF Backed, SendWorker, buyVars, prepare_latest, take_slot, prepare_fails, reserve,
       prove_and_save, prove_fails, settle_hash, root_gone, record_submission, post_taken,
       post_unanswered, nonce_rejected, post_refused, retire, await_acceptance, publish_fails, finish
  <2> QED
    BY <2>1, <2>2, <2>3, <2>4 DEF Next
<1> QED
  BY <1>1, <1>2, <1>3, <1>4, ChainStays DEF Backed

-----------------------------------------------------------------------------
(* Slots *)

LEMMA SlotsStay ==
  ASSUME Inv, Next
  PROVE  SlotsRecorded'
<1> USE DEF SlotsRecorded, SlotNeverReused, Recorded, Has, Proved
<1>t. /\ quota_log \in [epoch : Epoch, used : Nat] /\ job \in Job /\ proofs \in [Sends -> Proof]
      /\ pc = "proving" => job.id \in Sends /\ job.ticket # NoTicket
  BY InHandTyped, ClientAssumption DEF Inv, Typed, DiskTyped, WorkersTyped, InHand
<1>1. CASE take_slot
  <2>1. /\ proofs' = proofs /\ pc' = "slotted" /\ quota_log.epoch <= job.epoch
        /\ quota_log' = [epoch |-> job.epoch, used |-> used_in(job.epoch) + 1]
        /\ job'.epoch = job.epoch /\ job'.slot = used_in(job.epoch)
        /\ used_in(job.epoch) = IF quota_log.epoch = job.epoch THEN quota_log.used ELSE 0
    <3>1. used_in(job.epoch) \in Nat
      BY <1>t DEF used_in
    <3> QED
      BY <1>1, <1>t, <3>1, JobsEdited DEF take_slot, log_slot, used_in
  <2>2. \A e, s \in Nat : Recorded(e, s) => Recorded(e, s)'
    BY <1>t, <2>1 DEF Epoch, Job
  <2>3. \A e, s \in Nat : Recorded(e, s) => e # job'.epoch \/ s # job'.slot
    BY <1>t, <2>1 DEF Epoch, Job
  <2>4. Recorded(job.epoch, job.slot)'
    BY <1>t, <2>1 DEF Epoch, Job
  <2>5. \A id \in Sends : proofs[id].epoch \in Nat /\ proofs[id].slot \in Nat
    BY <1>t DEF Proof, Epoch
  <2> HIDE DEF Recorded
  <2> QED
    BY <2>1, <2>2, <2>3, <2>4, <2>5 DEF Inv
<1>2. ASSUME NEW id \in Sends, reserve(id) PROVE SlotsRecorded'
  <2>1. UNCHANGED <<quota_log, proofs>> /\ pc = "slotted"
        /\ job'.epoch = job.epoch /\ job'.slot = job.slot
    BY <1>2, <1>t, JobsEdited DEF reserve
  <2> QED
    BY <2>1 DEF Inv
<1>3. CASE prove_and_save
  <2>1. /\ UNCHANGED quota_log /\ pc' = "publish" /\ pc = "proving" /\ job.id \in Sends
        /\ \A i \in Sends \ {job.id} : proofs'[i] = proofs[i]
        /\ proofs'[job.id].epoch = job.epoch /\ proofs'[job.id].slot = job.slot
    BY <1>3, <1>t DEF prove_and_save
  <2> QED
    BY <2>1 DEF Inv
<1>4. CASE /\ UNCHANGED <<quota_log, proofs>>
           /\ pc' \notin {"slotted", "proving"} \/ UNCHANGED <<pc, job>>
  BY <1>4 DEF Inv
<1>5. \/ take_slot \/ (\E id \in Sends : reserve(id)) \/ prove_and_save
      \/ /\ UNCHANGED <<quota_log, proofs>>
         /\ pc' \notin {"slotted", "proving"} \/ UNCHANGED <<pc, job>>
  <2>1. CASE Chain \/ BuyWorker
    BY <2>1 DEF Chain, BuyWorker, diskVars, sendVars, buyVars, purchase_lands, late_post, include,
       drop, foreign_post, foreign_gone, next_epoch, root_ages, mint, submit_purchase,
       purchase_receipt, buy_fails, purchase_settled, sync_settled
  <2>2. CASE User \/ crash
    BY <2>2 DEF User, diskVars, sendVars, prepare, resume, buy_tickets, sync_tickets, crash, idle
  <2>3. CASE SendWorker
    BY <2>3 DEF SendWorker, diskVars, prepare_latest, prepare_fails, prove_fails, settle_hash,
       root_gone, record_submission, post_taken, post_unanswered, nonce_rejected, post_refused,
       retire, await_acceptance, publish_fails, finish, idle, spends, releases
  <2> QED
    BY <2>1, <2>2, <2>3 DEF Next
<1> QED
  BY <1>1, <1>2, <1>3, <1>4, <1>5

-----------------------------------------------------------------------------
(* Secrets *)

KeepsSecrets(w, v) == \A t \in Tickets : w[t] # Absent => v[t] # Absent

LEMMA OperatorsKeepSecrets ==
  ASSUME NEW w \in Wallet
  PROVE  /\ \A seen : KeepsSecrets(w, settle(w, seen))
         /\ \A t \in Tickets : KeepsSecrets(w, release(w, t)) /\ KeepsSecrets(w, mark_spent(w, t))
         /\ \A t \in Tickets, e \in Entry : e # Absent =>
              KeepsSecrets(w, [w EXCEPT ![t] = e]) /\ [w EXCEPT ![t] = e][t] = e
<1> USE DEF KeepsSecrets
<1>1. ASSUME NEW seen PROVE KeepsSecrets(w, settle(w, seen))
  BY Settling
<1>2. ASSUME NEW t \in Tickets PROVE KeepsSecrets(w, release(w, t)) /\ KeepsSecrets(w, mark_spent(w, t))
  <2>1. Unspent # Absent /\ Spent # Absent
    BY Entries
  <2>2. ASSUME NEW u \in Tickets, w[u] # Absent
        PROVE  release(w, t)[u] # Absent /\ mark_spent(w, t)[u] # Absent
    <3>1. CASE u = t
      <4>1. release(w, t)[t] = IF w[t].st = "Reserved" THEN Unspent ELSE w[t]
        BY WalletOperators
      <4>2. mark_spent(w, t)[t] = IF w[t] = Absent THEN Absent ELSE Spent
        BY WalletOperators
      <4> QED
        BY <2>1, <2>2, <3>1, <4>1, <4>2
    <3>2. CASE u # t
      BY <2>2, <3>2, WalletOperators, SMTT(30)
    <3> QED
      BY <3>1, <3>2
  <2> QED
    BY <2>2
<1>3. ASSUME NEW t \in Tickets, NEW e \in Entry, e # Absent
      PROVE  KeepsSecrets(w, [w EXCEPT ![t] = e]) /\ [w EXCEPT ![t] = e][t] = e
  BY <1>3 DEF Wallet
<1> QED
  BY <1>1, <1>2, <1>3

LEMMA SecretsStay ==
  ASSUME Inv, Next
  PROVE  SecretsCopied'
<1> SUFFICES ASSUME ~GuiGates
             PROVE  SecretsCopied'
  BY DEF SecretsCopied
<1>t. /\ wallet \in Wallet /\ copy \in Wallet /\ buy_copy \in Wallet /\ ordered \subseteq Tickets
      /\ SecretsCopied /\ (pc = "idle" \/ buy_pc = "idle")
      /\ pc \in Choosing \cup {"proving"} => job.ticket \in Tickets
      /\ pc \in Publishing => job.id \in Sends /\ proofs[job.id].ticket \in Tickets
      /\ buy_pc \in {"minted", "submitted", "bought"} => buying \in Tickets
  BY InHandTyped DEF Inv, Typed, DiskTyped, WorkersTyped, ChainTyped, Backed, InHand
<1>h. \A t \in ordered :
        /\ wallet[t] # Absent
        /\ pc \in Choosing \cup {"latest"} => copy[t] # Absent
        /\ buy_pc \in {"minted", "submitted", "bought", "syncing"} => buy_copy[t] # Absent
  BY <1>t DEF SecretsCopied, SecretsOnDisk
<1> USE DEF SecretsCopied, SecretsOnDisk, Choosing
<1>1. CASE submit_purchase
  BY <1>1, <1>t, <1>h DEF submit_purchase, diskVars, sendVars
<1>2. CASE UNCHANGED ordered /\ ~submit_purchase
  <2>1. CASE KeepsSecrets(wallet, wallet') /\ UNCHANGED <<pc, copy>> /\ UNCHANGED buyVars
    BY <2>1, <1>2, <1>t, <1>h DEF KeepsSecrets, buyVars
  <2>2. CASE KeepsSecrets(wallet, wallet') /\ pc' \notin Choosing \cup {"latest"} /\ UNCHANGED buyVars
    BY <2>2, <1>2, <1>t, <1>h DEF KeepsSecrets, buyVars
  <2>3. ASSUME NEW base \in fetches, NEW e \in Epoch, prepare(base, e) PROVE SecretsCopied'
    <3>1. wallet' = settle(wallet, base) /\ copy' = wallet' /\ UNCHANGED buyVars /\ buy_pc = "idle"
      BY <2>3 DEF prepare, may_send
    <3>2. KeepsSecrets(wallet, wallet')
      BY <1>t, <3>1, OperatorsKeepSecrets
    <3> QED
      BY <1>2, <1>t, <1>h, <3>1, <3>2 DEF KeepsSecrets, buyVars
  <2>4. CASE prepare_latest
    <3>1. /\ wallet' = wallet \/ wallet' = settle(copy, tree)
          /\ pc = "latest" /\ pc' = "idle" /\ UNCHANGED buyVars /\ buy_pc = "idle"
      BY <2>4, <1>t DEF prepare_latest, idle
    <3>2. KeepsSecrets(copy, settle(copy, tree))
      BY <1>t, OperatorsKeepSecrets
    <3> QED
      BY <1>2, <1>t, <1>h, <3>1, <3>2 DEF KeepsSecrets, buyVars
  <2>5. ASSUME NEW id \in Sends, reserve(id) PROVE SecretsCopied'
    <3>1. /\ wallet' = [copy EXCEPT ![job.ticket] = Reserved(id)] /\ pc = "slotted" /\ pc' = "proving"
          /\ UNCHANGED buyVars /\ buy_pc = "idle"
      BY <2>5, <1>t DEF reserve
    <3>2. KeepsSecrets(copy, wallet')
      BY <1>t, <3>1, OperatorsKeepSecrets, Entries
    <3> QED
      BY <1>2, <1>t, <1>h, <3>1, <3>2 DEF KeepsSecrets, buyVars
  <2>6. CASE prove_fails \/ root_gone \/ settle_hash \/ post_refused \/ await_acceptance
    <3>1. ASSUME prove_fails PROVE KeepsSecrets(wallet, wallet')
      <4>1. pc = "proving" /\ (wallet' = wallet \/ wallet' = release(wallet, job.ticket))
        BY <3>1 DEF prove_fails, release_ticket
      <4> QED
        BY <1>t, <4>1, OperatorsKeepSecrets DEF KeepsSecrets
    <3>2. ASSUME root_gone \/ settle_hash \/ post_refused \/ await_acceptance
          PROVE  KeepsSecrets(wallet, wallet')
      <4>1. /\ pc \in Publishing
            /\ \/ wallet' = wallet \/ wallet' = release(wallet, proofs[job.id].ticket)
               \/ wallet' = mark_spent(wallet, proofs[job.id].ticket)
        BY <3>2 DEF root_gone, settle_hash, post_refused, await_acceptance, releases, spends,
           release_ticket, spend_ticket, Publishing
      <4> QED
        BY <1>t, <4>1, OperatorsKeepSecrets DEF KeepsSecrets
    <3>3. pc' \notin Choosing \cup {"latest"} /\ UNCHANGED buyVars
      BY <2>6 DEF prove_fails, root_gone, settle_hash, post_refused, await_acceptance, releases,
         spends, idle
    <3>4. KeepsSecrets(wallet, wallet')
      BY <2>6, <3>1, <3>2
    <3> QED
      BY <2>2, <3>3, <3>4
  <2>7. ASSUME NEW t \in Tickets, mint(t) PROVE SecretsCopied'
    <3>1. /\ buy_copy' = [wallet EXCEPT ![t] = Pending] /\ wallet' = buy_copy' /\ buying' = t
          /\ buy_pc' = "minted" /\ pc = "idle" /\ pc' = "idle"
      BY <2>7, <1>t DEF mint, mint_save, sendVars
    <3>2. KeepsSecrets(wallet, buy_copy') /\ buy_copy'[t] # Absent
      <4>1. Pending \in Entry /\ Pending # Absent
        BY Entries
      <4>2. KeepsSecrets(wallet, [wallet EXCEPT ![t] = Pending]) /\ [wallet EXCEPT ![t] = Pending][t] = Pending
        BY <1>t, <4>1, OperatorsKeepSecrets
      <4> QED
        BY <3>1, <4>1, <4>2
    <3> QED
      BY <1>2, <1>t, <1>h, <3>1, <3>2 DEF KeepsSecrets
  <2>8. CASE purchase_receipt
    BY <2>8, <1>2, <1>t, <1>h DEF purchase_receipt, sendVars
  <2>9. ASSUME NEW seen \in fetches, purchase_settled(seen) \/ sync_settled(seen)
        PROVE  SecretsCopied'
    <3>1. /\ wallet' = wallet \/ wallet' = settle(buy_copy, seen)
          /\ buy_pc' = "idle" /\ pc = "idle" /\ pc' = "idle"
          /\ buy_pc \in {"bought", "syncing"}
      BY <2>9, <1>t DEF purchase_settled, sync_settled, buy_idle, sendVars
    <3>2. KeepsSecrets(buy_copy, settle(buy_copy, seen))
      BY <1>t, OperatorsKeepSecrets
    <3> QED
      BY <1>2, <1>t, <1>h, <3>1, <3>2 DEF KeepsSecrets
  <2>10. CASE buy_fails \/ buy_tickets \/ sync_tickets \/ crash
    BY <2>10, <1>2, <1>t, <1>h DEF buy_fails, buy_tickets, sync_tickets, crash, idle, buy_idle,
       diskVars, sendVars
  <2>11. CASE Chain
    BY <2>1, <2>11 DEF Chain, diskVars, sendVars, KeepsSecrets, purchase_lands, late_post, include,
       drop, foreign_post, foreign_gone, next_epoch, root_ages
  <2>12. CASE take_slot
    BY <2>12, <1>2, <1>t, <1>h DEF take_slot, buyVars
  <2>13. CASE \/ prepare_fails \/ prove_and_save \/ record_submission \/ post_taken \/ post_unanswered
              \/ nonce_rejected \/ retire \/ publish_fails \/ finish \/ (\E id \in Sends : resume(id))
    BY <2>2, <2>13 DEF KeepsSecrets, diskVars, idle, prepare_fails, prove_and_save, record_submission,
       post_taken, post_unanswered, nonce_rejected, retire, publish_fails, finish, resume
  <2> QED
    BY <1>2, <2>3, <2>4, <2>5, <2>6, <2>7, <2>8, <2>9, <2>10, <2>11, <2>12, <2>13
       DEF Next, SendWorker, BuyWorker, User
<1>3. submit_purchase \/ (UNCHANGED ordered /\ ~submit_purchase)
  <2>1. Chain => UNCHANGED ordered
    BY DEF Chain, purchase_lands, late_post, include, drop, foreign_post, foreign_gone, next_epoch, root_ages
  <2> QED
    BY <2>1, ChainWriters DEF chainVars, post_taken, post_unanswered
<1> QED
  BY <1>1, <1>2, <1>3

-----------------------------------------------------------------------------
(* Transactions *)

LEMMA Executes ==
  ASSUME Next
  PROVE  UNCHANGED <<accepted, reverted>> \/ \E tx \in Tx : include(tx)
<1>1. Chain => UNCHANGED <<accepted, reverted>> \/ \E tx \in Tx : include(tx)
  BY DEF Chain, purchase_lands, late_post, drop, foreign_post, foreign_gone, next_epoch, root_ages
<1> QED
  BY <1>1, ChainWriters DEF chainVars, submit_purchase, post_taken, post_unanswered

LEMMA TransactionsOfSends ==
  ASSUME Inv
  PROVE  \A tx \in Transactions : tx \in Tx /\ tx.id \in Sends /\ sends[tx.id].status # "none"
BY DEF Inv, Typed, ChainTyped, Backed, Transactions, Tx

LEMMA BurntOnceStays ==
  ASSUME Inv, Next
  PROVE  BurntOnce'
<1>t. /\ BurntOnce /\ Grows /\ sends \in [Sends -> SendState]
      /\ \A tx \in Executed : tx \in Tx /\ tx.id \in Sends /\ sends[tx.id].status # "none"
      /\ pc \in Publishing => job.id \in Sends
  BY NextGrows, TransactionsOfSends DEF Inv, Typed, DiskTyped, InHand, Executed, Transactions
<1> USE DEF BurntOnce, LandsOnce, Executed
<1>1. /\ \A tx \in Executed' : proofs'[tx.id].ticket \in burnt'
      /\ accepted' \cap reverted' = {}
      /\ \A tx, ty \in Executed' : tx.id = ty.id => tx = ty
  <2>1. CASE UNCHANGED <<accepted, reverted>>
    BY <1>t, <2>1 DEF Grows
  <2>2. ASSUME NEW tx \in Tx, include(tx)
        PROVE  <1>1!1 /\ <1>1!2 /\ <1>1!3
    <3>1. /\ Executed' = Executed \cup {tx} /\ tx \in Transactions
          /\ burnt' = burnt \cup {proofs[tx.id].ticket} /\ proofs' = proofs
          /\ proofs[tx.id].ticket \notin burnt
          /\ \/ accepted' = accepted \cup {tx} /\ reverted' = reverted
             \/ reverted' = reverted \cup {tx} /\ accepted' = accepted
      BY <2>2 DEF include, validates, ticket_spent, Transactions, diskVars
    <3> QED
      BY <1>t, <3>1
  <2> QED
    BY <2>1, <2>2, Executes
<1>2. landed \subseteq landed'
  BY <1>t DEF Grows, landed
<1>3. pc' = "finish" => job'.id \in landed'
  <2>1. CASE UNCHANGED <<pc, job>>
    BY <1>t, <1>2, <2>1
  <2>2. CASE await_acceptance
    <3>1. CASE tx_status(tx_of(job.id)) = "accepted"
      BY <2>2, <3>1, <1>2 DEF await_acceptance, tx_status, tx_of, landed
    <3>2. CASE pc' # "finish"
      BY <3>2
    <3> QED
      BY <2>2, <3>1, <3>2 DEF await_acceptance, spends
  <2>3. CASE SendWorker /\ ~await_acceptance
    BY <2>3 DEF SendWorker, prepare_latest, take_slot, prepare_fails, reserve, prove_and_save,
       prove_fails, settle_hash, root_gone, record_submission, post_taken, post_unanswered,
       nonce_rejected, post_refused, retire, publish_fails, finish, idle, spends, releases
  <2>4. CASE Chain \/ BuyWorker \/ buy_tickets \/ sync_tickets
    BY <2>1, <2>4 DEF Chain, BuyWorker, sendVars, purchase_lands, late_post, include, drop,
       foreign_post, foreign_gone, next_epoch, root_ages, mint, submit_purchase, purchase_receipt,
       buy_fails, purchase_settled, sync_settled, buy_tickets, sync_tickets
  <2>5. CASE (\E base \in fetches, e \in Epoch : prepare(base, e)) \/ (\E id \in Sends : resume(id)) \/ crash
    BY <2>5 DEF prepare, resume, crash, idle
  <2> QED
    BY <2>2, <2>3, <2>4, <2>5 DEF Next, User
<1>4. \A id \in Sends : sends'[id].status = "done" => id \in landed'
  <2>1. CASE \A id \in Sends : sends'[id].status = "done" => sends[id].status = "done"
    BY <1>t, <1>2, <2>1
  <2>2. CASE finish
    BY <1>t, <1>2, <2>2, StatusWritten DEF finish, Publishing, KeepsOthers
  <2>3. CASE retire
    BY <1>t, <2>1, <2>3, StatusWritten DEF retire, Publishing, KeepsOthers
  <2>4. CASE prove_and_save
    BY <1>t, <2>1, <2>4, PlanWritten DEF prove_and_save, Inv, InHand, KeepsOthers
  <2> QED
    BY <1>t, <2>1, <2>2, <2>3, <2>4, StatusWriters
<1> QED
  BY <1>1, <1>3, <1>4

(* What the pool refuses it refuses for ever. *)
LEMMA StaysRefused ==
  ASSUME Inv, Grows, NEW id \in Sends, sends[id].status # "none", ~validates(id), epoch' \in Nat
  PROVE  ~validates(id)'
<1>t. /\ proofs'[id] = proofs[id] /\ epoch \in Nat /\ epoch' >= epoch
      /\ proofs[id].epoch \in Nat /\ max_epoch_lag \in Nat
      /\ \A i \in landed : i \in Sends /\ proofs'[i] = proofs[i] /\ i \in landed'
  <2>1. \A i \in landed : i \in Sends /\ sends[i].status # "none" /\ i \in landed'
    BY TransactionsOfSends DEF landed, Transactions, Grows
  <2> QED
    BY <2>1, ClientAssumption DEF Inv, Typed, DiskTyped, ChainTyped, Proof, Epoch, Grows
<1>1. CASE ticket_spent(id)
  BY <1>1, <1>t DEF ticket_spent, validates, Grows
<1>2. CASE id \in landed \/ id \in aged \/ epoch > proofs[id].epoch + max_epoch_lag
  BY <1>2, <1>t DEF validates, refused_finally, Grows
<1>3. CASE <<proofs[id].epoch, proofs[id].slot>> \in nullifiers
  <2>1. <<proofs[id].epoch, proofs[id].slot>>' \in nullifiers'
    BY <1>3, <1>t DEF nullifiers
  <2> QED
    BY <2>1 DEF validates, refused_finally
<1> QED
  BY <1>1, <1>2, <1>3 DEF validates, refused_finally

(* Where the worker turns to building a transaction, or to retiring a send.  *)
LEMMA Turns ==
  ASSUME Next
  PROVE  \/ pc' \notin {"build", "post", "retire"}
         \/ UNCHANGED <<pc, job>>
         \/ settle_hash \/ root_gone \/ record_submission \/ post_refused \/ await_acceptance
<1>1. Chain \/ BuyWorker \/ buy_tickets \/ sync_tickets => UNCHANGED <<pc, job>>
  BY DEF Chain, BuyWorker, sendVars, purchase_lands, late_post, include, drop, foreign_post,
     foreign_gone, next_epoch, root_ages, mint, submit_purchase, purchase_receipt, buy_fails,
     purchase_settled, sync_settled, buy_tickets, sync_tickets
<1>2. (\E base \in fetches, e \in Epoch : prepare(base, e)) \/ (\E id \in Sends : resume(id)) \/ crash
      => pc' \notin {"build", "post", "retire"}
  BY DEF prepare, resume, crash, idle
<1>3. ASSUME SendWorker
      PROVE  \/ pc' \notin {"build", "post", "retire"}
             \/ UNCHANGED <<pc, job>>
             \/ settle_hash \/ root_gone \/ record_submission \/ post_refused \/ await_acceptance
  BY <1>3 DEF SendWorker, prepare_latest, take_slot, prepare_fails, reserve, prove_and_save,
     prove_fails, post_taken, post_unanswered, nonce_rejected, retire, publish_fails, finish, idle
<1> QED
  BY <1>1, <1>2, <1>3 DEF Next, User

(* A saved nonce is replaced only where a transaction is built.              *)
LEMMA NonceWriters ==
  ASSUME Next, sends \in [Sends -> SendState], InHand, NEW id \in Sends
  PROVE  \/ sends'[id].nonce = sends[id].nonce
         \/ job.id = id /\ (pc \in {"build", "post"} \/ sends[id].status = "none")
<1> USE DEF InHand, Publishing
<1>1. CASE UNCHANGED sends
  BY <1>1
<1>2. CASE retire \/ finish
  BY <1>2, StatusWritten DEF retire, finish, KeepsOthers
<1>3. CASE prove_and_save
  BY <1>3, PlanWritten DEF prove_and_save, KeepsOthers
<1>4. CASE record_submission \/ nonce_rejected
  <2>1. CASE id = job.id
    BY <1>4, <2>1 DEF record_submission, nonce_rejected
  <2>2. CASE id # job.id
    BY <1>4, <2>2 DEF record_submission, nonce_rejected
  <2> QED
    BY <2>1, <2>2
<1> QED
  BY <1>1, <1>2, <1>3, <1>4, DiskWriters DEF take_slot

(* What the gateway takes is a transaction the worker posts, or a POST its   *)
(* worker gave up; the latter's ticket is one a fault fell on.              *)
LEMMA TransactionWriters ==
  ASSUME Inv, Next
  PROVE  \/ Taken' \subseteq Taken
         \/ /\ post_taken \/ post_unanswered
            /\ Taken' \subseteq Taken \cup {tx_of(job.id)}
         \/ /\ LatePosts
            /\ \E tx \in Transactions : /\ Taken' \subseteq Taken \cup {tx}
                                        /\ proofs[tx.id].ticket \in hit' /\ UNCHANGED <<pc, proofs>>
<1>1. CASE UNCHANGED chainVars \/ submit_purchase
  BY <1>1 DEF Taken, chainVars, submit_purchase
<1>2. CASE post_taken \/ post_unanswered
  BY <1>2 DEF Taken, post_taken, post_unanswered
<1>3. CASE Chain
  <2>1. CASE \E tx \in Tx : late_post(tx)
    <3>1. PICK tx \in Tx : late_post(tx)
      BY <2>1
    <3>2. CASE tx \in mempool
      BY <3>1, <3>2 DEF late_post, Taken
    <3>3. CASE tx \notin mempool /\ mempool' # mempool
      <4>1. /\ tx \in (mempool' \ mempool) \cap (wire \ wire') /\ tx \in Transactions
            /\ Taken' \subseteq Taken \cup {tx} /\ UNCHANGED <<pc, proofs>>
        BY <3>1, <3>3 DEF late_post, Taken, Transactions, diskVars, sendVars
      <4>2. proofs[tx.id].ticket \in Tickets
        BY <4>1, TransactionsOfSends DEF Inv, Backed, Typed, ChainTyped
      <4>3. proofs[tx.id].ticket \in hit'
        BY <4>1, <4>2 DEF Next, harmed, taken_late
      <4>4. LatePosts
        BY <4>1 DEF Inv, OneOnRecord
      <4> QED
        BY <4>1, <4>3, <4>4
    <3>4. CASE mempool' = mempool
      BY <3>1, <3>4 DEF late_post, Taken
    <3> QED
      BY <3>2, <3>3, <3>4
  <2>2. CASE ~\E tx \in Tx : late_post(tx)
    BY <1>3, <2>2 DEF Chain, Taken, purchase_lands, include, drop, foreign_post, foreign_gone,
       next_epoch, root_ages
  <2> QED
    BY <2>1, <2>2
<1> QED
  BY <1>1, <1>2, <1>3, ChainWriters

LEMMA WireWriters ==
  ASSUME Next, ~LatePosts, wire = {}
  PROVE  wire' = {}
<1>1. Chain => wire' = {}
  BY DEF Chain, purchase_lands, late_post, include, drop, foreign_post, foreign_gone, next_epoch, root_ages
<1> QED
  BY <1>1, ChainWriters DEF chainVars, submit_purchase, post_taken, post_unanswered

(* With one transaction of a send at a time, the worker knows which.         *)
LEMMA ItsTransaction ==
  ASSUME Inv, NEW tx \in Taken, job.id \in Sends, Prompt(job.id), tx.id = job.id
  PROVE  tx = tx_of(job.id)
<1>1. tx \in Transactions
  BY DEF Taken, Transactions
<1> QED
  BY <1>1, TransactionsOfSends DEF Inv, OneOnRecord, tx_of, Tx

LEMMA RevertedIsRefused ==
  ASSUME Inv, job.id \in Sends, tx_status(tx_of(job.id)) = "reverted"
  PROVE  job.id \notin landed /\ ~validates(job.id)
<1>1. tx_of(job.id) \in reverted /\ tx_of(job.id) \notin accepted
  BY DEF tx_status, Inv, BurntOnce
<1>2. tx_of(job.id).id = job.id
  BY DEF tx_of
<1> QED
  BY <1>1, <1>2 DEF Inv, BurntOnce, LandsOnce, Executed, landed, validates, ticket_spent

LEMMA OneOnRecordStays ==
  ASSUME Inv, Next
  PROVE  OneOnRecord'
<1>t. /\ InHand /\ OneOnRecord /\ Grows /\ sends \in [Sends -> SendState]
      /\ \A tx \in Taken : tx \in Tx /\ tx.id \in Sends /\ sends[tx.id].status # "none"
      /\ epoch' \in Nat
  BY NextGrows, ChainStays, TransactionsOfSends
     DEF Inv, Typed, DiskTyped, ChainTyped, Epoch, Taken, Transactions
<1>p. \A id \in Sends : sends[id].status # "none" /\ Prompt(id)' => Prompt(id)
  BY <1>t DEF Prompt, Grows
<1>1. LatePosts \/ wire' = {}
  BY <1>t, WireWriters DEF OneOnRecord
<1>2. ASSUME NEW tx \in Taken', Prompt(tx.id)' PROVE tx.nonce = sends'[tx.id].nonce
  <2>1. CASE tx \in Taken
    BY <1>2, <1>t, <1>p, <2>1, NonceWriters DEF OneOnRecord
  <2>2. CASE (post_taken \/ post_unanswered) /\ tx = tx_of(job.id)
    BY <2>2 DEF post_taken, post_unanswered, diskVars, tx_of
  <2>3. CASE LatePosts /\ proofs[tx.id].ticket \in hit' /\ UNCHANGED proofs
    BY <1>2, <2>3 DEF Prompt
  <2> QED
    BY <1>2, <2>1, <2>2, <2>3, TransactionWriters
<1>3. ASSUME pc' \in {"build", "post"}, Prompt(job.id)'
      PROVE  \A tx \in Taken' : tx.id # job'.id
  <2>1. CASE settle_hash
    <3>1. job.id \in Sends /\ Taken' = Taken /\ job' = job /\ sends[job.id].status # "none"
      BY <1>t, <2>1 DEF settle_hash, chainVars, Taken, InHand, Publishing
    <3>2. Prompt(job.id)
      BY <1>3, <1>p, <3>1
    <3>3. CASE sends[job.id].nonce = NoNonce
      BY <1>t, <3>1, <3>2, <3>3 DEF OneOnRecord, Tx, Nonce, NoNonce
    <3>4. CASE rpc_agrees_dropped(tx_of(job.id))
      <4>1. tx_of(job.id) \notin Taken
        BY <3>4 DEF rpc_agrees_dropped, tx_status, Taken
      <4> QED
        BY <3>1, <3>2, <4>1, ItsTransaction
    <3> QED
      BY <1>3, <2>1, <3>3, <3>4 DEF settle_hash, spends
  <2>2. CASE record_submission
    <3>1. /\ job.id \in Sends /\ sends[job.id].status # "none" /\ job' = job
          /\ Taken' = Taken /\ pc = "build"
      BY <1>t, <2>2 DEF record_submission, chainVars, Taken, InHand, Publishing
    <3> QED
      BY <1>3, <1>t, <1>p, <3>1 DEF OneOnRecord
  <2>3. CASE UNCHANGED <<pc, job>>
    <3>1. job.id \in Sends /\ sends[job.id].status # "none" /\ Prompt(job.id)
      BY <1>3, <1>t, <1>p, <2>3 DEF InHand, Publishing
    <3>2. CASE Taken' \subseteq Taken
      BY <1>3, <1>t, <2>3, <3>1, <3>2 DEF OneOnRecord
    <3>3. ASSUME NEW tx \in Transactions, LatePosts, Taken' \subseteq Taken \cup {tx},
                 proofs[tx.id].ticket \in hit', UNCHANGED proofs
          PROVE  \A ty \in Taken' : ty.id # job'.id
      BY <1>3, <1>t, <2>3, <3>1, <3>3 DEF OneOnRecord, Prompt
    <3>4. ~(post_taken \/ post_unanswered)
      BY <1>3, <2>3 DEF post_taken, post_unanswered, idle
    <3> QED
      BY <3>2, <3>3, <3>4, TransactionWriters
  <2>4. root_gone \/ post_refused \/ await_acceptance => pc' \notin {"build", "post"}
    BY DEF root_gone, post_refused, await_acceptance, spends, releases
  <2> QED
    BY <1>3, <2>1, <2>2, <2>3, <2>4, Turns
<1>4. ASSUME NEW id \in Sends, Prompt(id)',
             sends'[id].status = "stale" \/ (pc' = "retire" /\ job'.id = id)
      PROVE  id \notin landed' /\ ~validates(id)'
  <2>1. CASE sends[id].status = "stale" \/ (pc = "retire" /\ job.id = id)
    <3>1. sends[id].status # "none" /\ id \notin landed /\ ~validates(id)
      BY <1>4, <1>t, <1>p, <2>1 DEF OneOnRecord, InHand, Publishing
    <3>2. id \notin landed'
      BY <3>1, Executes DEF landed, include
    <3> QED
      BY <1>t, <3>1, <3>2, StaysRefused
  <2>2. ASSUME UNCHANGED chainVars, UNCHANGED proofs, id \notin landed, ~validates(id)
        PROVE  id \notin landed' /\ ~validates(id)'
    BY <2>2 DEF chainVars, landed, validates, ticket_spent, refused_finally, nullifiers
  <2>3. CASE sends[id].status # "stale" /\ pc' = "retire" /\ job'.id = id /\ ~UNCHANGED <<pc, job>>
    <3>1. CASE settle_hash \/ await_acceptance
      <4>1. tx_status(tx_of(job.id)) = "reverted" /\ job.id = id /\ UNCHANGED chainVars /\ UNCHANGED proofs
        BY <2>3, <3>1 DEF settle_hash, await_acceptance, spends
      <4> QED
        BY <2>2, <4>1, RevertedIsRefused
    <3>2. CASE root_gone \/ post_refused
      <4>1. /\ job.id = id /\ pc \in {"build", "post"} /\ ~validates(id)
            /\ UNCHANGED chainVars /\ UNCHANGED proofs
        BY <2>3, <3>2 DEF root_gone, post_refused, releases, spends, validates, refused_finally
      <4>2. sends[id].status # "none"
        BY <1>t, <4>1 DEF InHand, Publishing
      <4>3. id \notin landed
        BY <1>4, <1>t, <1>p, <4>1, <4>2 DEF OneOnRecord, landed, Taken
      <4> QED
        BY <2>2, <4>1, <4>3
    <3>3. record_submission => pc' # "retire"
      BY DEF record_submission
    <3> QED
      BY <2>3, <3>1, <3>2, <3>3, Turns
  <2>4. CASE sends[id].status # "stale" /\ sends'[id].status = "stale"
    <3>1. pc = "retire" /\ job.id = id
      <4>1. CASE prove_and_save
        BY <1>t, <2>4, <4>1, PlanWritten DEF prove_and_save, KeepsOthers, InHand
      <4>2. CASE retire \/ finish
        BY <1>t, <2>4, <4>2, StatusWritten DEF retire, finish, KeepsOthers, InHand, Publishing
      <4> QED
        BY <1>t, <2>4, <4>1, <4>2, StatusWriters
    <3> QED
      BY <2>1, <3>1
  <2> QED
    BY <1>4, <2>1, <2>3, <2>4
<1> QED
  BY <1>1, <1>2, <1>3, <1>4 DEF OneOnRecord

-----------------------------------------------------------------------------
(* The wallet *)

(* A publish's end of the reservation: its ticket is spent or released, or   *)
(* the wallet could not be saved.                                           *)
LetsGo == settle_hash \/ root_gone \/ post_refused \/ await_acceptance
LEMMA LettingGo ==
  ASSUME Inv, LetsGo
  PROVE  /\ job.id \in Sends /\ sends[job.id].status = "pending"
         /\ pc \in {"publish", "build", "post", "await"}
         /\ UNCHANGED <<job, sends, proofs, tree, burnt, accepted, reverted, copy, buy_copy>>
         /\ \/ pc' \in {"build", "await"} /\ wallet' = wallet
            \/ pc' \in {"retire", "finish"} /\ wallet' = wallet
            \/ /\ pc' \in {"retire", "finish"} /\ proofs[job.id].ticket \in burnt
               /\ wallet' = mark_spent(wallet, proofs[job.id].ticket)
            \/ /\ pc' = "retire" /\ pc \in {"build", "post"}
               /\ wallet' = release(wallet, proofs[job.id].ticket)
<1> DEFINE t == proofs[job.id].ticket
           Left == \/ pc' \in {"build", "await"} /\ wallet' = wallet
                   \/ pc' \in {"retire", "finish"} /\ wallet' = wallet
                   \/ pc' \in {"retire", "finish"} /\ t \in burnt /\ wallet' = mark_spent(wallet, t)
                   \/ pc' = "retire" /\ pc \in {"build", "post"} /\ wallet' = release(wallet, t)
<1>1. tx_status(tx_of(job.id)) \in {"accepted", "reverted"} => t \in burnt
  BY DEF tx_status, tx_of, Inv, BurntOnce, Executed
<1>2. /\ pc \in {"publish", "build", "post", "await"}
      /\ UNCHANGED <<job, sends, proofs, tree, burnt, accepted, reverted, copy, buy_copy>>
  BY DEF LetsGo, settle_hash, root_gone, post_refused, await_acceptance, chainVars, buyVars
<1>3. settle_hash => Left
  BY <1>1 DEF settle_hash, spends, spend_ticket
<1>4. root_gone => Left
  BY DEF root_gone, releases, release_ticket
<1>5. post_refused => Left
  BY DEF post_refused, ticket_spent, spends, releases, release_ticket, spend_ticket
<1>6. await_acceptance => Left
  BY <1>1 DEF await_acceptance, spends, spend_ticket
<1>7. Left
  BY <1>3, <1>4, <1>5, <1>6 DEF LetsGo
<1> QED
  BY <1>2, <1>7 DEF Inv, InHand, Publishing

LEMMA OperatorsBack ==
  ASSUME Inv, NEW w \in Wallet, Backs(w)
  PROVE  /\ \A seen \in SUBSET tree : Backs(settle(w, seen))
         /\ \A t \in Tickets : Backs(release(w, t))
         /\ \A t \in Tickets \cap burnt : Backs(mark_spent(w, t))
         /\ \A t \in Tickets \cap tree, id \in Sends : Backs([w EXCEPT ![t] = Reserved(id)])
         /\ \A t \in Tickets : Backs([w EXCEPT ![t] = Pending])
<1> USE DEF Backs
<1>e. /\ Unspent.st = "Unspent" /\ Spent.st = "Spent" /\ Pending.st = "Pending" /\ Absent.st = "absent"
      /\ \A id \in Sends : Reserved(id).st = "Reserved"
  BY DEF Unspent, Spent, Pending, Absent, Reserved
<1>1. \A seen \in SUBSET tree : Backs(settle(w, seen))
  BY Settling, Entries, <1>e
<1>o. ASSUME NEW t \in Tickets
      PROVE  /\ \A u \in Tickets \ {t} : release(w, t)[u] = w[u] /\ mark_spent(w, t)[u] = w[u]
             /\ release(w, t)[t] = IF w[t].st = "Reserved" THEN Unspent ELSE w[t]
             /\ mark_spent(w, t)[t] = IF w[t] = Absent THEN Absent ELSE Spent
  BY WalletOperators
<1>2. ASSUME NEW t \in Tickets PROVE Backs(release(w, t))
  BY <1>o, <1>e, <1>2
<1>3. ASSUME NEW t \in Tickets \cap burnt PROVE Backs(mark_spent(w, t))
  BY <1>o, <1>e, <1>3
<1>4. ASSUME NEW t \in Tickets \cap tree, NEW id \in Sends PROVE Backs([w EXCEPT ![t] = Reserved(id)])
  BY Written, Entries, <1>e
<1>5. ASSUME NEW t \in Tickets PROVE Backs([w EXCEPT ![t] = Pending])
  BY Written, Entries, <1>e
<1> QED
  BY <1>1, <1>2, <1>3, <1>4, <1>5

LEMMA WalletsBackedStay ==
  ASSUME Inv, Next
  PROVE  WalletsBacked'
<1>t. /\ wallet \in Wallet /\ copy \in Wallet /\ buy_copy \in Wallet /\ tree \subseteq Tickets
      /\ burnt \subseteq Tickets /\ job \in Job
      /\ Backs(wallet) /\ Backs(copy) /\ Backs(buy_copy) /\ Grows
      /\ pc \in Choosing => copy[job.ticket] = Unspent
      /\ pc \in Choosing \cup {"proving"} => job.ticket \in Tickets \cap tree
      /\ pc \in Publishing => proofs[job.id].ticket \in Tickets
  BY NextGrows, InHandTyped
     DEF Inv, Typed, DiskTyped, WorkersTyped, ChainTyped, InHand, WalletsBacked
<1>g. ASSUME NEW w, Backs(w) PROVE \A v : v = w => Backs(v)'
  BY <1>g, <1>t DEF Backs, Grows
<1>n. Backs([t \in Tickets |-> Absent])
  BY Entries DEF Backs, Absent
<1> DEFINE NothingChosen == pc' \notin Choosing
<1> USE DEF WalletsBacked
<1>c. ASSUME Backs(wallet'), Backs(copy'), Backs(buy_copy'),
             NothingChosen \/ copy'[job'.ticket] = Unspent
      PROVE  WalletsBacked'
  BY <1>c, <1>g
<1>1. ASSUME Backs(wallet'), UNCHANGED buy_copy, UNCHANGED copy \/ copy' = [t \in Tickets |-> Absent],
             NothingChosen \/ UNCHANGED <<pc, job, copy>>
      PROVE  WalletsBacked'
  BY <1>1, <1>c, <1>n, <1>t DEF Choosing
<1>2. ASSUME NEW base \in fetches, NEW e \in Epoch, prepare(base, e) PROVE WalletsBacked'
  <2>1. Backs(wallet') /\ copy' = wallet' /\ UNCHANGED buy_copy
    BY <1>2, <1>t, OperatorsBack DEF prepare, fetches, buyVars
  <2>2. pc' \in Choosing => copy'[job'.ticket] = Unspent
    <3>1. CASE pc' = "latest"
      BY <3>1 DEF Choosing
    <3>2. CASE pc' # "latest"
      <4>1. PICK t \in pickable(wallet', base) : job' = [NoJob EXCEPT !.ticket = t, !.epoch = e]
        BY <1>2, <3>2 DEF prepare
      <4>2. t \in Tickets /\ wallet'[t] = Unspent
        BY <4>1, <1>t DEF pickable, fetches
      <4>3. job'.ticket = t
        BY <4>1, <4>2, Jobs
      <4> QED
        BY <2>1, <4>2, <4>3
    <3> QED
      BY <3>1, <3>2
  <2> QED
    BY <1>c, <1>t, <2>1, <2>2
<1>3. CASE prepare_latest
  <2>1. Backs(settle(copy, tree))
    BY <1>t, OperatorsBack
  <2> QED
    BY <1>1, <1>3, <1>t, <2>1 DEF prepare_latest, idle, buyVars, Choosing
<1>4. CASE take_slot
  <2>1. job'.ticket = job.ticket
    BY <1>4, <1>t DEF take_slot, Job
  <2> QED
    BY <1>4, <1>c, <1>t, <2>1 DEF take_slot, buyVars, Choosing
<1>5. ASSUME NEW id \in Sends, reserve(id) PROVE WalletsBacked'
  <2>1. Backs([copy EXCEPT ![job.ticket] = Reserved(id)])
    BY <1>5, <1>t, OperatorsBack DEF reserve, Choosing
  <2> QED
    BY <1>5, <1>1, <2>1 DEF reserve, buyVars, Choosing
<1>6. CASE prove_fails
  <2>1. Backs(release(wallet, job.ticket))
    BY <1>6, <1>t, OperatorsBack DEF prove_fails
  <2> QED
    BY <1>6, <1>1, <1>t, <2>1 DEF prove_fails, release_ticket, idle, buyVars, Choosing
<1>7. CASE LetsGo
  <2>1. Backs(wallet')
    BY <1>7, <1>t, LettingGo, OperatorsBack DEF Publishing
  <2> QED
    BY <1>7, <1>1, <2>1, LettingGo DEF Choosing
<1>8. ASSUME NEW t \in Tickets, mint(t) PROVE WalletsBacked'
  <2>1. Backs([wallet EXCEPT ![t] = Pending])
    BY <1>t, OperatorsBack
  <2> QED
    BY <1>8, <1>c, <1>t, <2>1 DEF mint, mint_save, sendVars
<1>9. ASSUME NEW seen \in fetches, purchase_settled(seen) \/ sync_settled(seen) PROVE WalletsBacked'
  <2>1. Backs(settle(buy_copy, seen))
    BY <1>t, OperatorsBack DEF fetches
  <2> QED
    BY <1>9, <1>c, <1>n, <1>t, <2>1 DEF purchase_settled, sync_settled, buy_idle, sendVars
<1>10. CASE submit_purchase \/ purchase_receipt \/ buy_fails \/ buy_tickets \/ sync_tickets
  BY <1>10, <1>c, <1>n, <1>t DEF submit_purchase, purchase_receipt, buy_fails, buy_tickets,
     sync_tickets, buy_idle, diskVars, sendVars
<1>11. CASE crash
  BY <1>11, <1>c, <1>n, <1>t DEF crash, idle, buy_idle, diskVars, Choosing
<1>12. CASE Chain
  BY <1>12, <1>1, <1>t DEF Chain, diskVars, sendVars, buyVars, purchase_lands, late_post, include, drop,
     foreign_post, foreign_gone, next_epoch, root_ages
<1>13. CASE \/ prepare_fails \/ prove_and_save \/ record_submission \/ post_taken \/ post_unanswered
            \/ nonce_rejected \/ retire \/ publish_fails \/ finish \/ (\E id \in Sends : resume(id))
  BY <1>13, <1>1, <1>t DEF prepare_fails, prove_and_save, record_submission, post_taken,
     post_unanswered, nonce_rejected, retire, publish_fails, finish, resume, idle, diskVars,
     buyVars, Choosing
<1> QED
  BY <1>2, <1>3, <1>4, <1>5, <1>6, <1>7, <1>8, <1>9, <1>10, <1>11, <1>12, <1>13
     DEF Next, SendWorker, BuyWorker, User, LetsGo

-----------------------------------------------------------------------------
(* One ticket, of which the step harms nothing *)

(* The claims to it are the same, and so is its entry or its purchase goes   *)
(* on.                                                                      *)
ClaimsKept(t) ==
  \A id \in Sends : /\ Claims(id, t)' <=> Claims(id, t)
                    /\ Claims(id, t) => (Leaving(id)' <=> Leaving(id))
EntryKept(t) ==
  wallet'[t] = wallet[t] \/ (wallet[t] \in {Absent, Pending} /\ wallet'[t] \in {Pending, Unspent})

LEMMA KeptTruthful ==
  ASSUME Inv, Grows, NEW t \in Tickets, Truthful(t), ClaimsKept(t), EntryKept(t),
         t \in burnt' => t \in burnt
  PROVE  Truthful(t)'
<1>t. /\ \A tx \in Executed : tx.id \in Sends /\ tx \in Executed'
  BY TransactionsOfSends DEF Executed, Transactions, Grows
<1>1. CASE wallet'[t] = wallet[t]
  BY <1>1, <1>t DEF Truthful, ClaimsKept
<1>2. CASE wallet[t] \in {Absent, Pending} /\ wallet'[t] \in {Pending, Unspent}
  <2>1. /\ wallet[t] \notin {Unspent, Spent} /\ \A id \in Sends : wallet[t] # Reserved(id)
        /\ \A id \in Sends : wallet'[t] # Reserved(id)
    BY <1>2, Entries
  <2>2. t \notin burnt /\ \A id \in Sends : ~Claims(id, t)
    BY <1>t, <2>1 DEF Truthful
  <2> QED
    BY <2>1, <2>2 DEF Truthful, ClaimsKept
<1> QED
  BY <1>1, <1>2 DEF EntryKept

(* No send claims it any more. *)
LEMMA FreedTruthful ==
  ASSUME NEW t \in Tickets, \A id \in Sends : ~Claims(id, t)', wallet'[t] \in {Unspent, Spent},
         t \in burnt' => wallet'[t] = Spent
  PROVE  Truthful(t)'
BY Entries DEF Truthful

LEMMA IncludeTruthful ==
  ASSUME Inv, NEW t \in Tickets \ hit, Truthful(t), NEW tx \in Tx, include(tx),
         t = proofs[tx.id].ticket
  PROVE  Truthful(t)'
<1>t. /\ tx.id \in Sends /\ sends[tx.id].status # "none" /\ sends \in [Sends -> SendState]
      /\ WalletsBacked /\ Prompt(tx.id) /\ OneOnRecord /\ BurntOnce
  BY TransactionsOfSends DEF include, Transactions, Inv, Typed, DiskTyped, Prompt
<1>1. validates(tx.id) /\ t \notin burnt /\ tx.id \notin landed
  BY DEF include, validates, ticket_spent, refused_finally
<1>2. sends[tx.id].status = "pending" /\ ~Leaving(tx.id)
  BY <1>t, <1>1 DEF OneOnRecord, BurntOnce, LandsOnce, Leaving, SendState
<1>3. wallet[t] = Reserved(tx.id)
  BY <1>t, <1>1, <1>2 DEF Truthful, Claims, WalletsBacked, Backs
<1>4. UNCHANGED <<wallet, sends, proofs, pc, job>> /\ Executed' = Executed \cup {tx}
  BY DEF include, diskVars, sendVars, Executed
<1>5. \A id \in Sends : (Leaving(id)' <=> Leaving(id)) /\ (Claims(id, t)' <=> Claims(id, t))
  BY <1>4 DEF Leaving, Claims
<1> QED
  BY <1>3, <1>4, <1>5 DEF Truthful

LEMMA ReserveTruthful ==
  ASSUME Inv, Grows, NEW t \in Tickets, Truthful(t), ~overwritten(t), NEW id \in Sends, reserve(id)
  PROVE  Truthful(t)'
<1>t. /\ copy \in Wallet /\ job \in Job /\ job.ticket \in Tickets /\ copy[job.ticket] = Unspent
      /\ \A tx \in Executed : tx.id \in Sends
  BY InHandTyped, TransactionsOfSends DEF Inv, WalletsBacked, Typed, WorkersTyped, reserve, Choosing,
     Executed, Transactions
<1>1. /\ wallet'[job.ticket] = Reserved(id) /\ \A u \in Tickets \ {job.ticket} : wallet'[u] = copy[u]
      /\ UNCHANGED <<sends, proofs, burnt, accepted, reverted>>
      /\ pc = "slotted" /\ pc' = "proving" /\ job'.id = id /\ job'.ticket = job.ticket
      /\ sends[id].status = "none" /\ wallet[t].by # id
  BY <1>t, Written, Entries, JobsEdited DEF reserve, chainVars
<1>2. \A i \in Sends : Claims(i, t)' <=> Claims(i, t) \/ (i = id /\ t = job.ticket)
  BY <1>1 DEF Claims
<1>3. \A i \in Sends : ~Leaving(i) /\ ~Leaving(i)'
  BY <1>1 DEF Leaving
<1>4. wallet'[t] = wallet[t] \/ copy[t] = wallet[t]
  BY <1>1 DEF overwritten
<1>5. CASE t = job.ticket
  <2>1. wallet[t] # Reserved(id)
    BY <1>1 DEF Reserved
  <2>2. wallet[t] = Unspent
    BY <1>1, <1>4, <1>5, <1>t, <2>1
  <2>3. t \notin burnt /\ \A i \in Sends : ~Claims(i, t)
    BY <1>3, <1>t, <2>2, Entries DEF Truthful
  <2>4. wallet'[t] = Reserved(id) /\ \A i \in Sends : Claims(i, t)' <=> i = id
    BY <1>1, <1>2, <1>5, <2>3
  <2> QED
    BY <1>1, <1>3, <2>3, <2>4, Entries DEF Truthful
<1>6. CASE t # job.ticket
  <2>1. wallet'[t] = wallet[t]
    BY <1>1, <1>4, <1>6
  <2> QED
    BY <1>1, <1>2, <1>3, <1>6, <2>1, KeptTruthful DEF ClaimsKept, EntryKept
<1> QED
  BY <1>5, <1>6

(* No proof after all, or killed while proving. *)
LEMMA AbandonTruthful ==
  ASSUME Inv, Grows, NEW t \in Tickets, Truthful(t), ~half_ended(t), pc = "proving",
         prove_fails \/ crash
  PROVE  Truthful(t)'
<1>t. /\ wallet \in Wallet /\ job.ticket \in Tickets /\ job.id \in Sends
      /\ sends[job.id].status = "none"
      /\ \A tx \in Executed : tx.id \in Sends /\ sends[tx.id].status # "none"
  BY InHandTyped, TransactionsOfSends DEF Inv, Typed, DiskTyped, InHand, Executed, Transactions
<1>1. /\ UNCHANGED <<sends, proofs, burnt, accepted, reverted>> /\ pc' = "idle"
      /\ wallet' = wallet \/ wallet' = release(wallet, job.ticket)
  BY DEF prove_fails, crash, release_ticket, idle, diskVars, chainVars
<1>2. \A i \in Sends : Claims(i, t)' <=> sends[i].status = "pending" /\ proofs[i].ticket = t
  BY <1>1 DEF Claims
<1>3. \A i \in Sends : ~Leaving(i) /\ ~Leaving(i)'
  BY <1>1 DEF Leaving
<1>4. CASE t = job.ticket
  <2>1. Claims(job.id, t) /\ wallet[t] \in {Reserved(job.id), Spent}
    BY <1>3, <1>4, <1>t DEF Claims, Truthful
  <2>2. \A i \in Sends : ~Claims(i, t)'
    BY <1>2, <1>t, <2>1 DEF Truthful, Claims
  <2>3. wallet'[t] = wallet[t] \/ (wallet'[t] = Unspent /\ wallet[t] # Spent)
    <3>1. release(wallet, t)[t] = IF wallet[t].st = "Reserved" THEN Unspent ELSE wallet[t]
      BY <1>t, WalletOperators
    <3> QED
      BY <1>1, <1>4, <3>1 DEF Spent
  <2>4. wallet'[t] \in {Unspent, Spent}
    BY <1>1, <1>4, <1>t, <2>1, <2>3, Entries DEF half_ended
  <2>5. t \in burnt => wallet[t] = Spent
    BY <1>t, <2>1, Entries DEF Truthful
  <2> QED
    BY <1>1, <2>2, <2>3, <2>4, <2>5, FreedTruthful, Entries
<1>5. CASE t # job.ticket
  <2>1. wallet'[t] = wallet[t]
    BY <1>1, <1>5, <1>t, WalletOperators
  <2>2. ClaimsKept(t)
    BY <1>2, <1>3, <1>5 DEF ClaimsKept, Claims
  <2> QED
    BY <1>1, <2>1, <2>2, KeptTruthful DEF EntryKept
<1> QED
  BY <1>4, <1>5

LEMMA LetsGoTruthful ==
  ASSUME Inv, Grows, NEW t \in Tickets \ hit, Truthful(t), ~half_ended(t), LetsGo
  PROVE  Truthful(t)'
<1> DEFINE j == job.id
<1>t. /\ wallet \in Wallet /\ j \in Sends /\ sends[j].status = "pending" /\ proofs[j].ticket \in Tickets
      /\ pc \in {"publish", "build", "post", "await"} /\ job' = job
      /\ UNCHANGED <<sends, proofs, burnt, accepted, reverted>>
      /\ \A tx \in Executed : tx.id \in Sends
  BY LettingGo, InHandTyped, TransactionsOfSends
     DEF Inv, Typed, DiskTyped, Publishing, Executed, Transactions
<1>1. \A i \in Sends : (Claims(i, t)' <=> Claims(i, t)) /\ ~Leaving(i) /\ (Leaving(i)' => i = j)
  <2>1. pc' # "proving"
    BY LettingGo
  <2> QED
    BY <1>t, <2>1 DEF Claims, Leaving
<1>2. CASE pc' \in {"build", "await"} /\ wallet' = wallet
  BY <1>t, <1>1, <1>2, KeptTruthful DEF ClaimsKept, EntryKept, Leaving
<1>3. CASE pc' \in {"retire", "finish"} /\ t # proofs[j].ticket
  <2>1. wallet'[t] = wallet[t]
    <3>1. ASSUME NEW u \in Tickets, t # u
          PROVE  release(wallet, u)[t] = wallet[t] /\ mark_spent(wallet, u)[t] = wallet[t]
      <4>1. t \in Tickets \ {u} /\ wallet \in Wallet
        BY <1>t, <3>1
      <4> QED
        BY <4>1, WalletOperators
    <3> QED
      BY <1>3, <1>t, <3>1, LettingGo
  <2>2. ~Claims(j, t)
    BY <1>3, <1>t DEF Claims
  <2> QED
    BY <1>t, <1>1, <2>1, <2>2, KeptTruthful DEF ClaimsKept, EntryKept
<1>4. CASE pc' \in {"retire", "finish"} /\ t = proofs[j].ticket
  <2>1. Claims(j, t) /\ wallet[t] \in {Reserved(j), Spent} /\ Leaving(j)'
    BY <1>1, <1>4, <1>t DEF Claims, Truthful, Leaving
  <2>2. wallet'[t].st # "Reserved"
    BY <1>4, <1>t DEF half_ended
  <2>3. ASSUME wallet' = release(wallet, t), pc \in {"build", "post"}
        PROVE  t \notin burnt \/ wallet[t] = Spent
    <3>1. \A tx \in Executed : tx.id # j
      BY <1>4, <2>3 DEF Inv, OneOnRecord, Prompt, Executed, Taken
    <3> QED
      BY <1>t, <2>1, <3>1, Entries DEF Truthful
  <2>4. wallet'[t] \in {Unspent, Spent} /\ (t \in burnt' => wallet'[t] = Spent)
    <3>o. /\ release(wallet, t)[t] = IF wallet[t].st = "Reserved" THEN Unspent ELSE wallet[t]
          /\ mark_spent(wallet, t)[t] = IF wallet[t] = Absent THEN Absent ELSE Spent
      BY <1>t, WalletOperators
    <3>e. /\ Reserved(j).st = "Reserved" /\ Spent.st = "Spent" /\ wallet[t] # Absent
      BY <1>t, <2>1, Entries DEF Reserved, Spent
    <3>1. CASE wallet' = wallet
      BY <2>1, <2>2, <3>1, <3>e
    <3>2. CASE wallet' = mark_spent(wallet, t)
      BY <3>2, <3>o, <3>e
    <3>3. CASE wallet' = release(wallet, t) /\ pc \in {"build", "post"}
      BY <1>t, <2>1, <2>3, <3>3, <3>o, <3>e
    <3> QED
      BY <1>4, <3>1, <3>2, <3>3, LettingGo
  <2>5. \A i \in Sends : Claims(i, t)' => i = j
    BY <1>1, <1>t, <2>1 DEF Truthful
  <2> QED
    BY <1>t, <2>1, <2>4, <2>5, Entries DEF Truthful
<1> QED
  BY <1>2, <1>3, <1>4, LettingGo

LEMMA LeaveTruthful ==
  ASSUME Inv, Grows, NEW t \in Tickets, Truthful(t), retire \/ finish
  PROVE  Truthful(t)'
<1> DEFINE j == job.id
<1>t. /\ j \in Sends /\ sends \in [Sends -> SendState] /\ sends[j].status = "pending"
      /\ \A tx \in Executed : tx.id \in Sends
  BY TransactionsOfSends
     DEF Inv, Typed, DiskTyped, InHand, Publishing, retire, finish, Executed, Transactions
<1>1. /\ UNCHANGED <<wallet, proofs, burnt, accepted, reverted>> /\ pc' = "idle"
      /\ KeepsOthers(j) /\ sends'[j].status \in {"done", "stale"}
      /\ Leaving(j) /\ pc # "proving"
  BY <1>t, StatusWritten DEF retire, finish, idle, chainVars, Leaving
<1>2. \A i \in Sends : (Claims(i, t)' <=> Claims(i, t) /\ i # j) /\ ~Leaving(i)' /\ (Leaving(i) => i = j)
  BY <1>t, <1>1 DEF Claims, Leaving, KeepsOthers
<1>3. CASE Claims(j, t)
  <2>1. wallet[t] \in {Unspent, Spent}
    BY <1>1, <1>3, <1>t DEF Truthful
  <2>2. \A i \in Sends : ~Claims(i, t)'
    BY <1>2, <1>3, <1>t DEF Truthful
  <2>3. t \in burnt => wallet[t] = Spent
    BY <1>t, <2>1, Entries DEF Truthful
  <2> QED
    BY <1>1, <2>1, <2>2, <2>3, FreedTruthful
<1>4. CASE ~Claims(j, t)
  BY <1>1, <1>2, <1>4, KeptTruthful DEF ClaimsKept, EntryKept
<1> QED
  BY <1>3, <1>4

(* Killed, or unable to save, between the two writes. *)
LEMMA StopsTruthful ==
  ASSUME Inv, Grows, NEW t \in Tickets, Truthful(t), ~half_ended(t), pc \in {"retire", "finish"},
         publish_fails \/ crash
  PROVE  Truthful(t)'
<1> DEFINE j == job.id
<1>t. /\ j \in Sends /\ sends[j].status = "pending" /\ BurntOnce
      /\ \A tx \in Executed : tx.id \in Sends
  BY TransactionsOfSends DEF Inv, InHand, Publishing, Executed, Transactions
<1>1. UNCHANGED <<wallet, sends, proofs, burnt, accepted, reverted>> /\ pc' = "idle"
  BY DEF publish_fails, crash, idle, diskVars, chainVars
<1>2. \A i \in Sends : (Claims(i, t)' <=> Claims(i, t)) /\ ~Leaving(i)' /\ (Leaving(i) <=> i = j)
  BY <1>1 DEF Claims, Leaving
<1>3. CASE Claims(j, t)
  <2>1. t = proofs[j].ticket /\ wallet[t] \in {Unspent, Spent}
    BY <1>2, <1>3, <1>t DEF Claims, Truthful
  <2>2. wallet[t] = Spent
    <3>1. pc = "retire" => wallet[t] # Unspent
      BY <1>1, <2>1 DEF half_ended
    <3>2. pc = "finish" => wallet[t] # Unspent
      <4>1. pc = "finish" => t \in burnt
        BY <1>t, <2>1 DEF BurntOnce, landed, Executed
      <4> QED
        BY <1>t, <4>1, Entries DEF Truthful
    <3> QED
      BY <2>1, <3>1, <3>2
  <2> QED
    BY <1>1, <1>2, <2>2, Entries DEF Truthful
<1>4. CASE ~Claims(j, t)
  BY <1>1, <1>2, <1>4, KeptTruthful DEF ClaimsKept, EntryKept
<1> QED
  BY <1>3, <1>4

(* The other steps leave the claims alone, *)
Others == ~LetsGo /\ ~prove_fails /\ ~retire /\ ~finish /\ \A id \in Sends : ~reserve(id)
LEMMA OthersKeepClaims ==
  ASSUME Inv, Next, Others, NEW t \in Tickets,
         publish_fails \/ crash => pc \notin {"proving", "retire", "finish"}
  PROVE  ClaimsKept(t)
<1> USE DEF ClaimsKept, Claims, Leaving
<1>t. sends \in [Sends -> SendState]
  BY DEF Inv, Typed, DiskTyped
<1>1. CASE prove_and_save
  <2>1. /\ job.id \in Sends /\ sends[job.id].status = "none" /\ proofs \in [Sends -> Proof]
        /\ KeepsOthers(job.id) /\ sends'[job.id].status = "pending"
    BY <1>1, PlanWritten DEF prove_and_save, Inv, Typed, DiskTyped, InHand
  <2>2. /\ \A i \in Sends \ {job.id} : proofs'[i] = proofs[i]
        /\ proofs'[job.id].ticket = job.ticket /\ UNCHANGED job
        /\ pc = "proving" /\ pc' = "publish"
    BY <1>1, <2>1 DEF prove_and_save
  <2> QED
    BY <2>1, <2>2 DEF KeepsOthers
<1>2. CASE ~prove_and_save
  <2>1. UNCHANGED proofs /\ \A id \in Sends : sends'[id].status = sends[id].status
    BY <1>2, <1>t, StatusWriters DEF Others
  <2>2. CASE UNCHANGED <<pc, job>>
    BY <2>1, <2>2
  <2>3. CASE pc \notin {"proving", "retire", "finish"} /\ pc' \notin {"proving", "retire", "finish"}
    BY <2>1, <2>3
  <2>4. Chain \/ BuyWorker \/ buy_tickets \/ sync_tickets => UNCHANGED <<pc, job>>
    BY DEF Chain, BuyWorker, sendVars, purchase_lands, late_post, include, drop, foreign_post,
       foreign_gone, next_epoch, root_ages, mint, submit_purchase, purchase_receipt, buy_fails,
       purchase_settled, sync_settled, buy_tickets, sync_tickets
  <2>5. (\E base \in fetches, e \in Epoch : prepare(base, e)) \/ (\E id \in Sends : resume(id)) => <2>3!1
    BY DEF prepare, resume, may_send
  <2>6. crash \/ publish_fails => <2>3!1
    BY DEF crash, publish_fails, idle
  <2>7. \/ prepare_latest \/ take_slot \/ prepare_fails \/ record_submission \/ post_taken
        \/ post_unanswered \/ nonce_rejected
        => <2>3!1
    BY DEF prepare_latest, take_slot, prepare_fails, record_submission, post_taken, post_unanswered,
       nonce_rejected, idle
  <2> QED
    BY <1>2, <2>2, <2>3, <2>4, <2>5, <2>6, <2>7 DEF Next, SendWorker, User, Others, LetsGo
<1> QED
  BY <1>1, <1>2

(* and write what a ticket's entry is already, or that it was bought.        *)
LEMMA OthersKeepEntry ==
  ASSUME Inv, Next, Others, NEW t \in Tickets, ~overwritten(t)
  PROVE  EntryKept(t)
<1> USE DEF EntryKept
<1>t. /\ wallet \in Wallet /\ copy \in Wallet /\ buy_copy \in Wallet
  BY DEF Inv, Typed, DiskTyped, WorkersTyped
<1>s. ASSUME NEW w \in Wallet, NEW seen, wallet' = settle(w, seen), wallet'[t] = wallet[t] \/ w[t] = wallet[t]
      PROVE  EntryKept(t)
  BY <1>s, Settling
<1>1. ASSUME NEW base \in fetches, NEW e \in Epoch, prepare(base, e) PROVE EntryKept(t)
  BY <1>1, <1>s, <1>t DEF prepare
<1>2. CASE prepare_latest
  <2>1. wallet'[t] = wallet[t] \/ copy[t] = wallet[t]
    BY <1>2 DEF prepare_latest, overwritten, idle
  <2> QED
    BY <1>2, <1>s, <1>t, <2>1 DEF prepare_latest
<1>3. ASSUME NEW u \in Tickets, mint(u) PROVE EntryKept(t)
  <2>1. wallet' = [wallet EXCEPT ![u] = Pending] /\ wallet[u] = Absent
    BY <1>3 DEF mint, mint_save
  <2> QED
    BY <1>t, <2>1 DEF Wallet
<1>4. CASE purchase_receipt
  BY <1>4 DEF purchase_receipt, overwritten
<1>5. ASSUME NEW seen \in fetches, purchase_settled(seen) \/ sync_settled(seen) PROVE EntryKept(t)
  <2>1. wallet'[t] = wallet[t] \/ buy_copy[t] = wallet[t]
    BY <1>5 DEF purchase_settled, sync_settled, overwritten, buy_idle
  <2>2. wallet' = wallet \/ wallet' = settle(buy_copy, seen)
    BY <1>5 DEF purchase_settled, sync_settled
  <2> QED
    BY <1>s, <1>t, <2>1, <2>2
<1>6. CASE Chain \/ submit_purchase \/ buy_fails \/ buy_tickets \/ sync_tickets \/ crash
  BY <1>6 DEF Chain, submit_purchase, buy_fails, buy_tickets, sync_tickets, crash, diskVars,
     purchase_lands, late_post, include, drop, foreign_post, foreign_gone, next_epoch, root_ages
<1>7. CASE \/ take_slot \/ prepare_fails \/ prove_and_save \/ record_submission \/ post_taken
           \/ post_unanswered \/ nonce_rejected \/ publish_fails \/ (\E id \in Sends : resume(id))
  BY <1>7 DEF take_slot, prepare_fails, prove_and_save, record_submission, post_taken,
     post_unanswered, nonce_rejected, publish_fails, resume, diskVars
<1> QED
  BY <1>1, <1>2, <1>3, <1>4, <1>5, <1>6, <1>7 DEF Next, SendWorker, BuyWorker, User, Others, LetsGo

LEMMA HeldStays ==
  ASSUME Inv, Next
  PROVE  Held'
<1> SUFFICES ASSUME NEW t \in Tickets \ hit'
             PROVE  Truthful(t)'
  BY DEF Held
<1>t. /\ t \in Tickets \ hit /\ Truthful(t) /\ Grows /\ ~overwritten(t) /\ ~half_ended(t)
  BY NextGrows DEF Next, harmed, Inv, Held, Grows
<1>1. CASE \E tx \in Tx : include(tx) /\ t = proofs[tx.id].ticket
  BY <1>t, <1>1, IncludeTruthful
<1>2. CASE \E id \in Sends : reserve(id)
  BY <1>t, <1>2, ReserveTruthful
<1>3. CASE LetsGo
  BY <1>t, <1>3, LetsGoTruthful
<1>4. CASE retire \/ finish
  BY <1>t, <1>4, LeaveTruthful
<1>5. CASE prove_fails \/ (crash /\ pc = "proving")
  BY <1>t, <1>5, AbandonTruthful DEF prove_fails
<1>6. CASE (publish_fails \/ crash) /\ pc \in {"retire", "finish"}
  BY <1>t, <1>6, StopsTruthful
<1>7. CASE /\ Others /\ ~\E tx \in Tx : include(tx) /\ t = proofs[tx.id].ticket
           /\ publish_fails \/ crash => pc \notin {"proving", "retire", "finish"}
  <2>1. t \in burnt' => t \in burnt
    <3>1. CASE Chain
      BY <1>7, <3>1 DEF Chain, purchase_lands, late_post, include, drop, foreign_post, foreign_gone,
         next_epoch, root_ages
    <3> QED
      BY <3>1, ChainWriters DEF chainVars, submit_purchase, post_taken, post_unanswered
  <2> QED
    BY <1>t, <1>7, <2>1, KeptTruthful, OthersKeepClaims, OthersKeepEntry
<1> QED
  BY <1>1, <1>2, <1>3, <1>4, <1>5, <1>6, <1>7 DEF Others, publish_fails

-----------------------------------------------------------------------------
(* The invariant *)

LEMMA Starts ==
  ASSUME Init
  PROVE  Inv
<1>t. 0 \in Epoch /\ 0 \in Nonce /\ NoSend \notin Sends /\ NoJob \in Job /\ NoJob.id = NoSend
  <2>1. 0 \in Epoch /\ 0 \in Nonce /\ NoSend \notin Sends
    BY ClientAssumption DEF Epoch, Nonce
  <2> QED
    BY <2>1, Jobs
<1>n. \A id \in Sends : sends[id].status = "none" /\ proofs[id] = NoProof
  BY DEF Init
<1> USE DEF Init
<1>1. Typed
  <2>1. wallet \in Wallet /\ quota_log \in [epoch : Epoch, used : Nat]
    BY <1>t, NoCopy
  <2>2. sends \in [Sends -> SendState]
    BY DEF SendState
  <2>3. proofs \in [Sends -> Proof]
    BY <1>t DEF Proof, NoProof
  <2> QED
    BY <1>t, <2>1, <2>2, <2>3, NoCopy DEF Typed, DiskTyped, WorkersTyped, ChainTyped
<1>2. InHand /\ Backed
  BY <1>t, <1>n DEF InHand, Backed, Choosing, Publishing, Transactions
<1>3. SlotsRecorded
  BY <1>n DEF SlotsRecorded, SlotNeverReused, Proved
<1>4. SecretsCopied /\ BurntOnce /\ OneOnRecord
  BY <1>n DEF SecretsCopied, SecretsOnDisk, BurntOnce, LandsOnce, Executed, landed, OneOnRecord, Taken
<1>5. WalletsBacked /\ Held
  <2>1. \A t \in Tickets : wallet[t] = Absent /\ copy[t] = Absent /\ buy_copy[t] = Absent
    OBVIOUS
  <2> QED
    BY <1>n, <2>1, Entries DEF Held, Truthful, WalletsBacked, Backs, Claims, Choosing, Absent
<1> QED
  BY <1>1, <1>2, <1>3, <1>4, <1>5 DEF Inv

(* The state functions of the invariant, with nothing changed.               *)
LEMMA Stutters ==
  ASSUME Inv, UNCHANGED <<vars, hit>>
  PROVE  Inv'
<1> USE DEF vars, diskVars, sendVars, buyVars, chainVars
<1>1. Typed' /\ InHand' /\ Backed'
  BY DEF Inv, Typed, DiskTyped, WorkersTyped, ChainTyped, InHand, Backed, Transactions
<1>2. SlotsRecorded' /\ SecretsCopied' /\ BurntOnce'
  BY DEF Inv, SlotsRecorded, SlotNeverReused, Recorded, Has, Proved, SecretsCopied, SecretsOnDisk,
     BurntOnce, LandsOnce, Executed, landed
<1>3. OneOnRecord'
  <2>1. \A id \in Sends : ~validates(id) => ~validates(id)'
    BY DEF validates, ticket_spent, refused_finally, nullifiers, landed
  <2> QED
    BY <2>1 DEF Inv, OneOnRecord, Prompt, Taken, landed
<1>4. WalletsBacked' /\ Held'
  BY DEF Inv, WalletsBacked, Backs, Held, Truthful, Claims, Leaving, Executed
<1> QED
  BY <1>1, <1>2, <1>3, <1>4 DEF Inv

LEMMA Stays ==
  ASSUME Inv, [Next]_<<vars, hit>>
  PROVE  Inv'
<1>1. CASE Next
  BY <1>1, WalletsStay, DiskStays, WorkersStay, ChainStays, InHandStays, BackedStays, SlotsStay,
     SecretsStay, BurntOnceStays, OneOnRecordStays, WalletsBackedStay, HeldStays
     DEF Inv, Typed, DiskTyped, WalletsTyped
<1> QED
  BY <1>1, Stutters

LEMMA InvHolds == Spec => []Inv
BY Starts, Stays, PTL DEF Spec

LEMMA WhatItSays ==
  ASSUME Inv
  PROVE  /\ TypeOK /\ SlotNeverReused /\ LandsOnce
         /\ GuiGates \/ SecretsOnDisk
         /\ LatePosts \/ RetiredNeverLands
         /\ HarmContained
<1>1. TypeOK
  BY DEF Inv, Typed, DiskTyped, WorkersTyped, ChainTyped, Publishing, TypeOK
<1>2. SlotNeverReused /\ LandsOnce /\ (GuiGates \/ SecretsOnDisk) /\ (LatePosts \/ RetiredNeverLands)
  BY DEF Inv, SlotsRecorded, BurntOnce, SecretsCopied, OneOnRecord, Prompt, RetiredNeverLands
<1>3. ASSUME NEW t \in Tickets \ hit
      PROVE  /\ \A i, j \in Sends : Claims(i, t) /\ Claims(j, t) => i = j
             /\ \A id \in Sends : Claims(id, t) => wallet[t] \in {Reserved(id), Spent} \/ Leaving(id)
             /\ wallet[t].st = "Reserved" => Claims(wallet[t].by, t)
             /\ wallet[t] = Unspent => t \notin burnt
  <2>t. /\ Truthful(t) /\ wallet[t] \in Entry /\ \A tx \in Executed : tx.id \in Sends
    BY TransactionsOfSends DEF Inv, Held, Typed, DiskTyped, Wallet, Executed, Transactions
  <2>1. wallet[t].st = "Reserved" => wallet[t].by \in Sends /\ wallet[t] = Reserved(wallet[t].by)
    BY <2>t, Entries
  <2>2. wallet[t] = Unspent => t \notin burnt
    BY <2>t, Entries DEF Truthful
  <2> QED
    BY <2>t, <2>1, <2>2 DEF Truthful
<1>4. HarmContained
  BY <1>3 DEF HarmContained, Inv, WalletsBacked, Backs
<1> QED
  BY <1>1, <1>2, <1>4

-----------------------------------------------------------------------------
(* Every variable has its type. *)
THEOREM TypeCorrect == Spec => []TypeOK
BY InvHolds, WhatItSays, PTL

(* Kill the program between any two writes, restart it, resume: no two       *)
(* proofs ever hold the same slot of an epoch, for take_slot records a slot *)
(* before it is used.                                                       *)
THEOREM SlotsUsedOnce == Spec => []SlotNeverReused
BY InvHolds, WhatItSays, PTL

(* A send executes at most once, however often it is resubmitted and under   *)
(* whatever nonce, with late POSTs as without: its ticket burns the first   *)
(* time.  And what is shown as done was published.                          *)
THEOREM SendsLandOnce == Spec => []LandsOnce
BY InvHolds, WhatItSays, PTL

(* With the workers kept apart, no kill between minting, saving and buying   *)
(* loses the secret of a purchase that may land.                            *)
THEOREM SecretsSurvive ==
  ASSUME ~GuiGates
  PROVE  Spec => []SecretsOnDisk
<1>1. Inv => SecretsOnDisk
  BY WhatItSays
<1> QED
  BY InvHolds, <1>1, PTL

(* With a prompt network a send is retired only when the pool would refuse   *)
(* it for ever, so a retired send is never published, crashes or not.       *)
THEOREM RetiredIsFinal ==
  ASSUME ~LatePosts
  PROVE  Spec => []RetiredNeverLands
<1>1. Inv => RetiredNeverLands
  BY WhatItSays
<1> QED
  BY InvHolds, <1>1, PTL

(* Of the wallet, without any condition: kills, failed saves, late POSTs and *)
(* overlapping workers each harm the ticket they fall on and no other, and  *)
(* never make the wallet give up a ticket that is not burnt.                *)
THEOREM HarmStaysContained == Spec => []HarmContained
BY InvHolds, WhatItSays, PTL
=============================================================================
