----------------------------- MODULE SendClient -----------------------------
(***************************************************************************)
(* One profile of the zkmsg client (tools/zkmsg/core): the ticket wallet,   *)
(* the quota log and the send states on disk, the worker that prepares,     *)
(* proves and publishes a send, the worker that buys tickets, and the pool  *)
(* and gateway as the client meets them.  The program can be killed at any  *)
(* moment; a request can be lost, or arrive after its sender gave up.       *)
(*                                                                          *)
(* Abstractions.                                                            *)
(*   - A send's proof is [ticket, epoch, slot]: what it spends.  A publish  *)
(*     transaction is [id, nonce]; its hash is the transaction.             *)
(*   - A step here is what runs between two network calls or two writes to  *)
(*     disk; a file is written atomically (config::write_atomic).           *)
(*   - Waiting (for the head, for a base block that is old enough, between  *)
(*     polls) is time passing; retries of a lagging read are further steps. *)
(*   - The feeder may lag and call any transaction dropped; the RPC the     *)
(*     client asks for a second opinion is right or fails.                  *)
(***************************************************************************)
EXTENDS Integers, FiniteSets

CONSTANTS
  Tickets,      \* ticket secrets
  Sends,        \* send ids
  NoSend, NoTicket,
  quota, max_epoch_lag,
  MaxEpoch,     \* bound: the last epoch explored; every proof is stale in it
  MaxNonce,     \* bound: the last pool nonce explored
  Crashes,      \* whether the program may be killed
  LatePosts,    \* whether an unanswered POST may reach the gateway later
  SaveFails,    \* whether the bookkeeping after a proof or a POST may fail
  GuiGates      \* whether a send may start while the buy worker is busy

ASSUME ClientAssumption ==
  /\ NoSend \notin Sends /\ NoTicket \notin Tickets
  /\ quota \in Nat /\ max_epoch_lag \in Nat
  /\ MaxEpoch \in Nat /\ MaxNonce \in Nat
  /\ {Crashes, LatePosts, SaveFails, GuiGates} \subseteq BOOLEAN

VARIABLES
  \* on disk
  wallet,      \* tickets.json: the state of every ticket it holds
  quota_log,   \* quota.json: the slots taken in one epoch
  sends,       \* sends/<id>.json, renamed .stale when retired
  proofs,      \* the proof of every send that has one
  \* the send worker
  pc, job,     \* where it is, and the send it works on
  copy,        \* the wallet it loaded in prepare
  \* the buy worker
  buy_pc, buying,
  buy_copy,    \* the wallet it loaded, kept until the purchase is settled
  \* the chain
  ordered,     \* purchases submitted
  tree,        \* tickets in the pool's ticket tree
  epoch, pool_nonce,
  aged,        \* sends whose member root the pool has forgotten
  burnt,       \* tickets spent at the pool
  mempool,     \* this client's transactions the gateway holds
  foreign,     \* nonces taken by other clients' transactions it holds
  wire,        \* POSTs nobody waits for any more
  accepted, reverted,
  \* history
  hit          \* tickets that a fault fell on: see harmed

diskVars  == <<wallet, quota_log, sends, proofs>>
sendVars  == <<pc, job, copy>>
buyVars   == <<buy_pc, buying, buy_copy>>
chainVars == <<ordered, tree, epoch, pool_nonce, aged, burnt, mempool, foreign,
               wire, accepted, reverted>>
vars == <<diskVars, sendVars, buyVars, chainVars>>

NoNonce == -1

Epoch == 0..MaxEpoch
Nonce == 0..MaxNonce
Tx == [id : Sends, nonce : Nonce]

(* A ticket's entry; by is the send of a Reserved one.                      *)
Entry == [st : {"absent", "Pending", "Unspent", "Spent"}, by : {NoSend}]
         \cup [st : {"Reserved"}, by : Sends]
Wallet == [Tickets -> Entry]

Absent   == [st |-> "absent", by |-> NoSend]
Pending  == [st |-> "Pending", by |-> NoSend]
Unspent  == [st |-> "Unspent", by |-> NoSend]
Spent    == [st |-> "Spent", by |-> NoSend]
Reserved(id) == [st |-> "Reserved", by |-> id]

(* nonce stands for the recorded hash, nonce and bounds, saved together.    *)
SendState == [status : {"none", "pending", "done", "stale"},
              nonce : Nonce \cup {NoNonce}]

(* A send's state when it is first saved: prepared, proved, not submitted.   *)
new_plan == [status |-> "pending", nonce |-> NoNonce]

Proof == [ticket : Tickets \cup {NoTicket}, epoch : Epoch, slot : Nat]
NoProof == [ticket |-> NoTicket, epoch |-> 0, slot |-> 0]

Job == [id : Sends \cup {NoSend}, ticket : Tickets \cup {NoTicket},
        epoch : Epoch, slot : Nat]
NoJob == [id |-> NoSend, ticket |-> NoTicket, epoch |-> 0, slot |-> 0]

-----------------------------------------------------------------------------
(* The wallet *)

(* Mutant: whatever is found in the tree is settled, not only the Pending.   *)
settle_all(w, seen) == [t \in Tickets |-> IF t \in seen THEN Unspent ELSE w[t]]

(* settle: a Pending ticket found in the tree as read is bought.            *)
settle(w, seen) ==
  [t \in Tickets |-> IF w[t] = Pending /\ t \in seen THEN Unspent ELSE w[t]]

(* pick takes the first of these. *)
pickable(w, base) == {t \in base : w[t] = Unspent}

release(w, t) == IF w[t].st = "Reserved" THEN [w EXCEPT ![t] = Unspent] ELSE w

mark_spent(w, t) == IF w[t] = Absent THEN w ELSE [w EXCEPT ![t] = Spent]

-----------------------------------------------------------------------------
(* The pool and its gateway *)

tx_of(id) == [id |-> id, nonce |-> sends[id].nonce]

landed == {tx.id : tx \in accepted}

nullifiers == {<<proofs[i].epoch, proofs[i].slot>> : i \in landed}

(* __validate__ asks for the ticket first.                                  *)
ticket_spent(id) == proofs[id].ticket \in burnt

(* The reasons of FINAL_REFUSALS, in the order admit checks them.           *)
refused_finally(id) ==
  /\ ~ticket_spent(id)
  /\ \/ id \in landed
     \/ <<proofs[id].epoch, proofs[id].slot>> \in nullifiers
     \/ id \in aged
     \/ epoch > proofs[id].epoch + max_epoch_lag

validates(id) == ~ticket_spent(id) /\ ~refused_finally(id)

nonce_used(n) == n < pool_nonce
nonce_held(n) == n \in foreign \/ \E tx \in mempool : tx.nonce = n

(* The gateway checks the account's nonce, then __validate__, then that no   *)
(* transaction it holds has the same nonce.                                 *)
gateway_takes(tx) ==
  ~nonce_used(tx.nonce) /\ validates(tx.id) /\ ~nonce_held(tx.nonce)

(* What has become of a transaction. *)
tx_status(tx) ==
  CASE tx \in accepted -> "accepted"
    [] tx \in reverted -> "reverted"
    [] tx \in mempool  -> "received"
    [] OTHER           -> "not_received"

(* Mutant: only what is in a block is known. *)
rpc_agrees_dropped_early(tx) == tx_status(tx) \in {"received", "not_received"}

(* The RPC does not know it either. *)
rpc_agrees_dropped(tx) == tx_status(tx) = "not_received"

-----------------------------------------------------------------------------
(* Preparing and proving a send *)

idle == pc' = "idle" /\ job' = NoJob /\ copy' = [t \in Tickets |-> Absent]

(* send: one at a time; the Send button does not look at the buy worker.    *)
may_send == pc = "idle" /\ (GuiGates \/ buy_pc = "idle")

(* The purchases an event query may return: those the RPC has indexed.      *)
fetches == SUBSET tree

(* A base block behind the head: its tree, and its epoch or the one before. *)
pinned_state(base, e) ==
  /\ base \in fetches
  /\ epoch - 1 <= e /\ e <= epoch

(* prepare, as far as picking a ticket: the trees are read at a base block, *)
(* which may lie before the last purchases and in the epoch before this.    *)
prepare(base, e) ==
  /\ may_send
  /\ pinned_state(base, e)
  /\ e + max_epoch_lag < MaxEpoch
  /\ \E id \in Sends : sends[id].status = "none"
  /\ wallet' = settle(wallet, base)
  /\ copy' = wallet'
  /\ \/ \E t \in pickable(wallet', base) :
          pc' = "picked" /\ job' = [NoJob EXCEPT !.ticket = t, !.epoch = e]
     \/ /\ pickable(wallet', base) = {}
        /\ \E t \in Tickets : wallet'[t] = Pending
        /\ pc' = "latest" /\ job' = NoJob
  /\ UNCHANGED <<quota_log, sends, proofs, buyVars, chainVars>>

(* Nothing to pick but purchases pending: they are settled against the      *)
(* latest tree.  What that finds is not in the base's tree, so pick fails   *)
(* again and send starts over.                                              *)
prepare_latest ==
  /\ pc = "latest"
  /\ wallet' = IF settle(copy, tree) # copy THEN settle(copy, tree) ELSE wallet
  /\ idle
  /\ UNCHANGED <<quota_log, sends, proofs, buyVars, chainVars>>

(* Mutant: the slot is returned without being recorded. *)
log_slot_unsaved(e, used) == quota_log

log_slot(e, used) == [epoch |-> e, used |-> used + 1]

used_in(e) == IF quota_log.epoch = e THEN quota_log.used ELSE 0

take_slot ==
  /\ pc = "picked"
  /\ quota_log.epoch <= job.epoch
  /\ used_in(job.epoch) < quota
  /\ quota_log' = log_slot(job.epoch, used_in(job.epoch))
  /\ job' = [job EXCEPT !.slot = used_in(job.epoch)]
  /\ pc' = "slotted"
  /\ UNCHANGED <<wallet, sends, proofs, copy, buyVars, chainVars>>

(* No slot left, the log ahead of the base's epoch, or any error on the way. *)
prepare_fails ==
  /\ pc \in {"picked", "latest", "slotted"}
  /\ idle
  /\ UNCHANGED <<diskVars, buyVars, chainVars>>

(* The end of prepare: the wallet it loaded is saved with the reservation.  *)
reserve(id) ==
  /\ pc = "slotted"
  /\ sends[id].status = "none" /\ \A t \in Tickets : copy[t].by # id /\ wallet[t].by # id
  /\ wallet' = [copy EXCEPT ![job.ticket] = Reserved(id)]
  /\ job' = [job EXCEPT !.id = id]
  /\ pc' = "proving"
  /\ UNCHANGED <<quota_log, sends, proofs, copy, buyVars, chainVars>>

(* The wallet's bookkeeping is best effort: it may fail to load or save.    *)
release_ticket(t) == wallet' = release(wallet, t) \/ (SaveFails /\ wallet' = wallet)
spend_ticket(t) == wallet' = mark_spent(wallet, t) \/ (SaveFails /\ wallet' = wallet)

(* The proof exists and with it, for the first time, the send's state.      *)
prove_and_save ==
  /\ pc = "proving"
  /\ proofs' = [proofs EXCEPT ![job.id] =
                  [ticket |-> job.ticket, epoch |-> job.epoch, slot |-> job.slot]]
  /\ sends' = [sends EXCEPT ![job.id] = new_plan]
  /\ pc' = "publish"
  /\ UNCHANGED <<wallet, quota_log, job, copy, buyVars, chainVars>>

prove_fails ==
  /\ pc = "proving"
  /\ release_ticket(job.ticket)
  /\ idle
  /\ UNCHANGED <<quota_log, sends, proofs, buyVars, chainVars>>

-----------------------------------------------------------------------------
(* Publishing it *)

(* The saved states whose publish is not done. *)
pending_sends == {id \in Sends : sends[id].status = "pending"}

resume(id) ==
  /\ may_send
  /\ id \in pending_sends
  /\ pc' = "publish" /\ job' = [NoJob EXCEPT !.id = id]
  /\ UNCHANGED <<diskVars, copy, buyVars, chainVars>>

(* Releasing or spending the ticket, and then retire or finish: two writes. *)
releases(then) == release_ticket(proofs[job.id].ticket) /\ pc' = then
spends(then) == spend_ticket(proofs[job.id].ticket) /\ pc' = then

(* A hash recorded by an earlier attempt is settled first.                  *)
settle_hash ==
  /\ pc = "publish"
  /\ \/ sends[job.id].nonce = NoNonce /\ pc' = "build" /\ wallet' = wallet
     \/ /\ sends[job.id].nonce # NoNonce
        /\ LET tx == tx_of(job.id)
           IN  \/ tx_status(tx) = "reverted" /\ spends("retire")
               \/ pc' = "await" /\ wallet' = wallet
               \/ rpc_agrees_dropped(tx) /\ pc' = "build" /\ wallet' = wallet
  /\ UNCHANGED <<quota_log, sends, proofs, job, copy, buyVars, chainVars>>

root_gone ==
  /\ pc = "build"
  /\ job.id \in aged
  /\ releases("retire")
  /\ UNCHANGED <<quota_log, sends, proofs, job, copy, buyVars, chainVars>>

(* The transaction is built at the saved nonce, else the pool's, and        *)
(* recorded before it is sent.                                              *)
record_submission ==
  /\ pc = "build"
  /\ job.id \notin aged
  /\ IF sends[job.id].nonce = NoNonce
     THEN sends' = [sends EXCEPT ![job.id].nonce = pool_nonce]
     ELSE sends' = sends
  /\ pc' = "post"
  /\ UNCHANGED <<wallet, quota_log, proofs, job, copy, buyVars, chainVars>>

post_taken ==
  /\ pc = "post"
  /\ gateway_takes(tx_of(job.id))
  /\ mempool' = mempool \cup {tx_of(job.id)}
  /\ pc' = "await"
  /\ UNCHANGED <<diskVars, job, copy, buyVars, ordered, tree, epoch, pool_nonce,
                 aged, burnt, foreign, wire, accepted, reverted>>

(* A timeout, a 5xx, a connection cut: the gateway may have it, or get it.  *)
post_unanswered ==
  /\ pc = "post"
  /\ \/ /\ gateway_takes(tx_of(job.id))
        /\ mempool' = mempool \cup {tx_of(job.id)} /\ wire' = wire
     \/ LatePosts /\ wire' = wire \cup {tx_of(job.id)} /\ mempool' = mempool
     \/ UNCHANGED <<mempool, wire>>
  /\ idle
  /\ UNCHANGED <<diskVars, buyVars, ordered, tree, epoch, pool_nonce, aged, burnt,
                 foreign, accepted, reverted>>

(* The pool's, and always past the one just refused. *)
next_nonce(refused) == IF pool_nonce > refused THEN pool_nonce ELSE refused + 1

(* The refusal is about the nonce: used, or taken in the mempool.           *)
is_nonce_rejection(id) ==
  LET n == sends[id].nonce
  IN  nonce_used(n) \/ (validates(id) /\ nonce_held(n))

(* Mutant: a taken nonce is never replaced. *)
nonce_rejected_kept ==
  /\ pc = "post"
  /\ is_nonce_rejection(job.id)
  /\ pc' = "await"
  /\ UNCHANGED <<diskVars, job, copy, buyVars, chainVars>>

(* The nonce is taken.  If this transaction is not known after all, the     *)
(* same proof goes out again at the next nonce.                             *)
nonce_rejected ==
  /\ pc = "post"
  /\ is_nonce_rejection(job.id)
  /\ \/ pc' = "await" /\ sends' = sends
     \/ /\ rpc_agrees_dropped(tx_of(job.id))
        /\ next_nonce(sends[job.id].nonce) <= MaxNonce
        /\ sends' = [sends EXCEPT ![job.id].nonce = next_nonce(sends[job.id].nonce)]
        /\ pc' = "post"
  /\ UNCHANGED <<wallet, quota_log, proofs, job, copy, buyVars, chainVars>>

(* The pool refuses the proof. *)
post_refused ==
  /\ pc = "post"
  /\ ~nonce_used(sends[job.id].nonce)
  /\ \/ ticket_spent(job.id) /\ spends("retire")
     \/ refused_finally(job.id) /\ releases("retire")
  /\ UNCHANGED <<quota_log, sends, proofs, job, copy, buyVars, chainVars>>

retire ==
  /\ pc = "retire"
  /\ sends' = [sends EXCEPT ![job.id].status = "stale"]
  /\ idle
  /\ UNCHANGED <<wallet, quota_log, proofs, buyVars, chainVars>>

(* Mutant: a reverted transaction counts as accepted. *)
await_inclusion ==
  /\ pc = "await"
  /\ tx_status(tx_of(job.id)) \in {"accepted", "reverted"} /\ spends("finish")
  /\ UNCHANGED <<quota_log, sends, proofs, job, copy, buyVars, chainVars>>

await_acceptance ==
  /\ pc = "await"
  /\ \/ tx_status(tx_of(job.id)) = "accepted" /\ spends("finish")
     \/ tx_status(tx_of(job.id)) = "reverted" /\ spends("retire")
  /\ UNCHANGED <<quota_log, sends, proofs, job, copy, buyVars, chainVars>>

(* Dropped beyond the grace period, or not accepted in time; any other      *)
(* refusal of the gateway; attempts exhausted; its file cannot be renamed   *)
(* or saved: the send stays pending.                                        *)
publish_fails ==
  /\ \/ pc \in {"publish", "build", "post", "await"}
     \/ SaveFails /\ pc \in {"retire", "finish"}
  /\ idle
  /\ UNCHANGED <<diskVars, buyVars, chainVars>>

finish ==
  /\ pc = "finish"
  /\ sends' = [sends EXCEPT ![job.id].status = "done"]
  /\ idle
  /\ UNCHANGED <<wallet, quota_log, proofs, buyVars, chainVars>>

-----------------------------------------------------------------------------
(* Buying tickets *)

(* The Buy button waits for both workers; the price is read over the net.   *)
buy_tickets ==
  /\ buy_pc = "idle" /\ pc = "idle"
  /\ buy_pc' = "priced"
  /\ UNCHANGED <<diskVars, sendVars, buying, buy_copy, chainVars>>

(* Mutant: the secret is kept in memory until the receipt is in. *)
mint_save_late(w) == wallet

mint_save(w) == w

(* The wallet is loaded, a fresh secret minted, and saved.                  *)
mint(t) ==
  /\ buy_pc = "priced"
  /\ wallet[t] = Absent /\ t \notin ordered
  /\ buying' = t
  /\ buy_copy' = [wallet EXCEPT ![t] = Pending]
  /\ wallet' = mint_save(buy_copy')
  /\ buy_pc' = "minted"
  /\ UNCHANGED <<quota_log, sends, proofs, sendVars, chainVars>>

submit_purchase ==
  /\ buy_pc = "minted"
  /\ ordered' = ordered \cup {buying}
  /\ buy_pc' = "submitted"
  /\ UNCHANGED <<diskVars, sendVars, buying, buy_copy, tree, epoch, pool_nonce,
                 aged, burnt, mempool, foreign, wire, accepted, reverted>>

buy_idle ==
  buy_pc' = "idle" /\ buying' = NoTicket /\ buy_copy' = [t \in Tickets |-> Absent]

(* An error before the purchase, at it, or while waiting for it.            *)
buy_fails ==
  /\ buy_pc # "idle"
  /\ buy_idle
  /\ UNCHANGED <<diskVars, sendVars, chainVars>>

(* The receipt is in: buy_tx goes into the copy, and that is saved.         *)
purchase_receipt ==
  /\ buy_pc = "submitted"
  /\ buying \in tree
  /\ wallet' = buy_copy
  /\ buy_pc' = "bought"
  /\ UNCHANGED <<quota_log, sends, proofs, sendVars, buying, buy_copy, chainVars>>

(* Settled against the purchases as the RPC has indexed them, saved again.  *)
purchase_settled(seen) ==
  /\ buy_pc = "bought"
  /\ wallet' = settle(buy_copy, seen)
  /\ buy_idle
  /\ UNCHANGED <<quota_log, sends, proofs, sendVars, chainVars>>

(* sync_tickets: load, read the purchases, and save what was settled.       *)
sync_tickets ==
  /\ buy_pc = "idle" /\ pc = "idle"
  /\ \E t \in Tickets : wallet[t] = Pending
  /\ buy_copy' = wallet
  /\ buy_pc' = "syncing" /\ buying' = NoTicket
  /\ UNCHANGED <<diskVars, sendVars, chainVars>>

sync_settled(seen) ==
  /\ buy_pc = "syncing"
  /\ wallet' = IF settle(buy_copy, seen) # buy_copy THEN settle(buy_copy, seen) ELSE wallet
  /\ buy_idle
  /\ UNCHANGED <<quota_log, sends, proofs, sendVars, chainVars>>

-----------------------------------------------------------------------------
(* The chain *)

purchase_lands(t) ==
  /\ t \in ordered
  /\ tree' = tree \cup {t}
  /\ UNCHANGED <<diskVars, sendVars, buyVars, ordered, epoch, pool_nonce, aged,
                 burnt, mempool, foreign, wire, accepted, reverted>>

(* A POST nobody waits for arrives, or is lost.                             *)
late_post(tx) ==
  /\ tx \in wire
  /\ wire' = wire \ {tx}
  /\ \/ gateway_takes(tx) /\ mempool' = mempool \cup {tx}
     \/ mempool' = mempool
  /\ UNCHANGED <<diskVars, sendVars, buyVars, ordered, tree, epoch, pool_nonce,
                 aged, burnt, foreign, accepted, reverted>>

(* A block takes the transaction: validate burns the ticket, and execute    *)
(* publishes the message or reverts.                                        *)
include(tx) ==
  /\ tx \in mempool
  /\ tx.nonce = pool_nonce /\ pool_nonce < MaxNonce
  /\ validates(tx.id)
  /\ mempool' = mempool \ {tx}
  /\ pool_nonce' = pool_nonce + 1
  /\ burnt' = burnt \cup {proofs[tx.id].ticket}
  /\ \/ accepted' = accepted \cup {tx} /\ reverted' = reverted
     \/ reverted' = reverted \cup {tx} /\ accepted' = accepted
  /\ UNCHANGED <<diskVars, sendVars, buyVars, ordered, tree, epoch, aged, foreign, wire>>

(* The gateway drops one: evicted, or refused when its turn came.           *)
drop(tx) ==
  /\ tx \in mempool
  /\ mempool' = mempool \ {tx}
  /\ UNCHANGED <<diskVars, sendVars, buyVars, ordered, tree, epoch, pool_nonce,
                 aged, burnt, foreign, wire, accepted, reverted>>

(* Other clients publish from the same account.                             *)
foreign_post ==
  /\ ~nonce_held(pool_nonce) /\ pool_nonce < MaxNonce
  /\ foreign' = foreign \cup {pool_nonce}
  /\ UNCHANGED <<diskVars, sendVars, buyVars, ordered, tree, epoch, pool_nonce,
                 aged, burnt, mempool, wire, accepted, reverted>>

foreign_gone(included) ==
  /\ pool_nonce \in foreign
  /\ foreign' = foreign \ {pool_nonce}
  /\ pool_nonce' = IF included THEN pool_nonce + 1 ELSE pool_nonce
  /\ UNCHANGED <<diskVars, sendVars, buyVars, ordered, tree, epoch, aged, burnt,
                 mempool, wire, accepted, reverted>>

next_epoch ==
  /\ epoch < MaxEpoch
  /\ epoch' = epoch + 1
  /\ UNCHANGED <<diskVars, sendVars, buyVars, ordered, tree, pool_nonce, aged,
                 burnt, mempool, foreign, wire, accepted, reverted>>

(* Enough registrations have gone by for the pool to forget a root.         *)
root_ages(id) ==
  /\ proofs[id] # NoProof
  /\ aged' = aged \cup {id}
  /\ UNCHANGED <<diskVars, sendVars, buyVars, ordered, tree, epoch, pool_nonce,
                 burnt, mempool, foreign, wire, accepted, reverted>>

(* The program is killed. *)
crash ==
  /\ Crashes
  /\ pc # "idle" \/ buy_pc # "idle"
  /\ idle /\ buy_idle
  /\ UNCHANGED <<diskVars, chainVars>>

-----------------------------------------------------------------------------
Init ==
  /\ wallet = [t \in Tickets |-> Absent]
  /\ quota_log = [epoch |-> 0, used |-> 0]
  /\ sends = [id \in Sends |-> [status |-> "none", nonce |-> NoNonce]]
  /\ proofs = [id \in Sends |-> NoProof]
  /\ pc = "idle" /\ job = NoJob /\ copy = wallet
  /\ buy_pc = "idle" /\ buying = NoTicket /\ buy_copy = wallet
  /\ ordered = {} /\ tree = {} /\ burnt = {} /\ aged = {}
  /\ epoch = 0 /\ pool_nonce = 0
  /\ mempool = {} /\ foreign = {} /\ wire = {} /\ accepted = {} /\ reverted = {}
  /\ hit = {}

SendWorker ==
  \/ prepare_latest \/ take_slot \/ prepare_fails
  \/ \E id \in Sends : reserve(id)
  \/ prove_and_save \/ prove_fails
  \/ settle_hash \/ root_gone \/ record_submission
  \/ post_taken \/ post_unanswered \/ nonce_rejected \/ post_refused
  \/ retire \/ await_acceptance \/ publish_fails \/ finish

BuyWorker ==
  \/ \E t \in Tickets : mint(t)
  \/ submit_purchase \/ purchase_receipt \/ buy_fails
  \/ \E seen \in fetches : purchase_settled(seen) \/ sync_settled(seen)

User ==
  \/ \E base \in fetches, e \in Epoch : prepare(base, e)
  \/ \E id \in Sends : resume(id)
  \/ buy_tickets \/ sync_tickets

Chain ==
  \/ \E t \in Tickets : purchase_lands(t)
  \/ \E tx \in Tx : late_post(tx) \/ include(tx) \/ drop(tx)
  \/ foreign_post \/ \E included \in BOOLEAN : foreign_gone(included)
  \/ next_epoch
  \/ \E id \in Sends : root_ages(id)

(* What the history variable hit records of a step, per ticket.              *)

(* A worker wrote the older wallet it had kept over a change of the other's. *)
overwritten(t) ==
  /\ wallet'[t] # wallet[t]
  /\ \/ pc \in {"latest", "slotted"} /\ pc' # pc /\ copy[t] # wallet[t]
     \/ buy_pc \in {"submitted", "bought", "syncing"} /\ buy_pc' # buy_pc
        /\ buy_copy[t] # wallet[t]

(* Of the two writes that end a reservation, or a send, only one was made:  *)
(* the program was killed between them, or the other one failed.            *)
half_ended(t) ==
  \/ pc = "proving" /\ pc' = "idle" /\ t = job.ticket /\ wallet'[t].st = "Reserved"
  \/ pc' \in {"retire", "finish"} /\ pc' # pc
     /\ t = proofs[job.id].ticket /\ wallet'[t].st = "Reserved"
  \/ pc = "retire" /\ pc' = "idle" /\ sends' = sends
     /\ t = proofs[job.id].ticket /\ wallet[t] = Unspent

(* The gateway took a POST of a send that had given up waiting for it.       *)
taken_late(t) ==
  \E tx \in (mempool' \ mempool) \cap (wire \ wire') : proofs[tx.id].ticket = t

harmed == {t \in Tickets : overwritten(t) \/ half_ended(t) \/ taken_late(t)}

Next ==
  /\ SendWorker \/ BuyWorker \/ User \/ Chain \/ crash
  /\ hit' = hit \cup harmed

Spec == Init /\ [][Next]_<<vars, hit>>

-----------------------------------------------------------------------------
(* Properties *)

(* Every variable has its type. *)
TypeOK ==
  /\ {wallet, copy, buy_copy} \subseteq Wallet
  /\ quota_log \in [epoch : Epoch, used : Nat]
  /\ sends \in [Sends -> SendState]
  /\ proofs \in [Sends -> Proof]
  /\ pc \in {"idle", "latest", "picked", "slotted", "proving", "publish", "build",
             "post", "await", "retire", "finish"}
  /\ job \in Job
  /\ buy_pc \in {"idle", "priced", "minted", "submitted", "bought", "syncing"}
  /\ buying \in Tickets \cup {NoTicket}
  /\ {ordered, tree, burnt} \subseteq SUBSET Tickets
  /\ epoch \in Epoch /\ pool_nonce \in Nonce
  /\ aged \in SUBSET Sends /\ foreign \in SUBSET Nonce
  /\ {mempool, wire, accepted, reverted} \subseteq SUBSET Tx
  /\ hit \in SUBSET Tickets

Proved(id) == proofs[id] # NoProof

(* A send that has the ticket in hand, or can be resumed with it.            *)
Claims(id, t) ==
  \/ sends[id].status = "pending" /\ proofs[id].ticket = t
  \/ pc = "proving" /\ job.id = id /\ job.ticket = t

(* It has let go of its ticket and is about to say so in its state.          *)
Leaving(id) == pc \in {"retire", "finish"} /\ job.id = id

(* A quota slot that may have reached the chain is never used twice,        *)
(* whatever crashes: no two proofs hold the same slot of an epoch.          *)
SlotNeverReused ==
  \A i, j \in Sends : i # j /\ Proved(i) /\ Proved(j) =>
    <<proofs[i].epoch, proofs[i].slot>> # <<proofs[j].epoch, proofs[j].slot>>

(* A secret whose purchase may land is in the wallet on disk.               *)
SecretsOnDisk == \A t \in ordered : wallet[t] # Absent

(* A fault harms no ticket but the one it falls on.  Whatever happened, the  *)
(* wallet gives no ticket up that is not burnt, and offers or keeps none    *)
(* that was not bought.  And a ticket no fault of harmed fell on belongs to *)
(* one send at a time: it stays reserved for that send, or spent, until the *)
(* send lets go of it; a reservation has its send, which runs or can be     *)
(* resumed; and what the wallet would pick for another send is not burnt.   *)
HarmContained ==
  /\ \A t \in Tickets :
       /\ wallet[t] = Spent => t \in burnt
       /\ wallet[t].st \in {"Unspent", "Reserved"} => t \in tree
  /\ \A t \in Tickets \ hit :
       /\ \A i, j \in Sends : Claims(i, t) /\ Claims(j, t) => i = j
       /\ \A id \in Sends : Claims(id, t) =>
            wallet[t] \in {Reserved(id), Spent} \/ Leaving(id)
       /\ wallet[t].st = "Reserved" => Claims(wallet[t].by, t)
       /\ wallet[t] = Unspent => t \notin burnt

(* A send taken out of the pending list can never be published.             *)
RetiredNeverLands == \A id \in Sends : sends[id].status = "stale" => id \notin landed

(* However often a send is resubmitted, and under whatever nonce, it lands  *)
(* once, and a send shown as done has landed.                               *)
LandsOnce ==
  /\ \A tx, ty \in accepted \cup reverted : tx.id = ty.id => tx = ty
  /\ \A id \in Sends : sends[id].status = "done" => id \in landed

-----------------------------------------------------------------------------
(* Liveness *)

(* The user resumes what is pending and re-checks the purchases, the worker *)
(* goes on, the gateway answers some of the POSTs, the readers are not      *)
(* wrong for ever, transactions are included or expire, and time passes.    *)
Fairness ==
  /\ \A id \in Sends : SF_vars(resume(id))
  /\ WF_vars(SendWorker)
  /\ SF_vars(settle_hash /\ pc' = "await") /\ SF_vars(settle_hash /\ pc' # "await")
  /\ SF_vars(root_gone \/ record_submission)
  /\ SF_vars(nonce_rejected /\ pc' = "post")
  /\ SF_vars(post_taken \/ post_refused) /\ SF_vars(await_acceptance)
  /\ SF_vars(retire \/ finish)
  /\ WF_vars(BuyWorker)
  /\ WF_vars(sync_tickets) /\ SF_vars(sync_settled(tree))
  /\ \A tx \in Tx : WF_vars(include(tx) \/ drop(tx))
  /\ WF_vars(next_epoch)

FairSpec == Spec /\ Fairness

(* A send with a proof does not stay pending for ever: it is published or   *)
(* retired, whatever is lost, taken by other senders or reverted.           *)
PendingSendsEnd ==
  \A id \in Sends : sends[id].status = "pending" ~> sends[id].status \in {"done", "stale"}
=============================================================================
