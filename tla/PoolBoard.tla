------------------------------ MODULE PoolBoard ------------------------------
(***************************************************************************)
(* The pool implements the board: its refinement mapping.                   *)
(***************************************************************************)
EXTENDS ZkmsgPoolV4

(* The epochs the chain can be in and those the transactions' facts fall in. *)
PoolEpochs == {epoch_of(b) : b \in Blocks}
              \cup {epoch_of(tx.facts.base_block_number) : tx \in Txs}

PostOf(call) ==
  [m |-> call.nullifier.m, epoch |-> call.nullifier.epoch,
   envelope |-> envelope_key(call), ticket |-> call.ticket_nullifier]

(* No transaction being processed is nobody's turn on the board, which is   *)
(* no post either.                                                          *)
ASSUME BoardAssumption ==
  None \notin [m : MemberSecrets, epoch : Nat, envelope : Commitments \X Contents,
               ticket : TicketSecrets]

Board == INSTANCE SendBoard WITH
  Secrets <- MemberSecrets, Tickets <- TicketSecrets,
  Envelopes <- Commitments \X Contents, Quota <- quota, Lag <- max_epoch_lag,
  Nobody <- None, Epochs <- PoolEpochs,
  now    <- epoch_of(block_number),
  joined <- {leaf.m : leaf \in Elements(members)},
  sold   <- Elements(tickets),
  burnt  <- spent_tickets,
  turn   <- IF pending = None THEN None ELSE PostOf(pending.call),
  posts  <- {PostOf(e.call) : e \in Elements(messages)}

(* Every step of the pool is a step of the board or changes nothing on it:  *)
(* a transaction burns its ticket only for a post its member is allowed, it *)
(* is still allowed when it lands, and a revert loses only the ticket.      *)
ImplementsBoard == Board!BoardSpec
=============================================================================
