------------------------------- MODULE MCPool -------------------------------
(***************************************************************************)
(* Instances of the zkmsg v4 pool for TLC.  The transactions submitted are  *)
(* built from honest ones, whose facts prove exactly the call made, by      *)
(* changing one thing: what the proof claims, who emitted its message, a    *)
(* field of the call after it was proved, or the fee fields.                *)
(***************************************************************************)
EXTENDS ZkmsgPoolV4, TLC

CONSTANTS
  Slots,        \* slots that proofs use
  MemberRoots,  \* member roots that proofs use, ForeignRoot included
  TicketRoots   \* ticket roots that proofs use

(* One unit of L2 gas at one fri: a worst-case fee of one. *)
UnitFee ==
  [bounds |-> [r \in Resource |-> [max_amount |-> IF r = "L2_GAS" THEN 1 ELSE 0,
                                   max_price |-> 1]],
   tip |-> 0, plain |-> TRUE]

Send(content, root, m, epoch, slot, troot, t, base, claimed) ==
  LET call == [commitment |-> CHOOSE c \in Commitments : TRUE,
               content |-> content, merkle_root |-> root,
               nullifier |-> [m |-> m, epoch |-> epoch, slot |-> slot],
               ticket_root |-> troot, ticket_nullifier |-> t]
  IN  [fee |-> UnitFee, decodes |-> TRUE, call |-> call,
       facts |-> [base_block_number |-> base,
                  message_hash |-> [expected_message(call, epoch)
                                      EXCEPT !.payload.quota = claimed]]]

(* An honest sender claims the true quota and the epoch of its base block.  *)
Straight(contents) ==
  {Send(x, root, m, epoch_of(b), s, troot, t, b, quota) :
     x \in contents, root \in MemberRoots, m \in MemberSecrets, s \in Slots,
     troot \in TicketRoots, t \in TicketSecrets, b \in Blocks}

(* Proofs that exist and claim one epoch or one slot too many.              *)
FalseClaims ==
  {Send(x, root, m, epoch_of(b) + 1, s, troot, t, b, quota) :
     x \in Contents, root \in MemberRoots, m \in MemberSecrets, s \in Slots,
     troot \in TicketRoots, t \in TicketSecrets, b \in Blocks}
  \cup
  {Send(x, root, m, epoch_of(b), s, troot, t, b, quota + 1) :
     x \in Contents, root \in MemberRoots, m \in MemberSecrets, s \in Slots,
     troot \in TicketRoots, t \in TicketSecrets, b \in Blocks}

RateTxs == Straight(Contents) \cup FalseClaims

(* Facts that another contract emitted, and calls altered after proving.    *)
TamperedTxs ==
  LET honest == Straight(Contents)
  IN  honest
      \cup {[tx EXCEPT !.facts.message_hash.from = "other"] : tx \in honest}
      \cup {[tx EXCEPT !.call.content = x] : tx \in honest, x \in Contents}
      \cup {[tx EXCEPT !.call.nullifier.slot = s] : tx \in honest, s \in Slots}
      \cup {[tx EXCEPT !.call.ticket_nullifier = t] : tx \in honest, t \in TicketSecrets}

BoardTxs == RateTxs \cup TamperedTxs

(* Calls of a member in good standing, with every combination of fee fields *)
(* of a grid.                                                               *)
FeeGrid ==
  [bounds : {[r \in Resource |-> [max_amount |-> IF r = "L1_DATA" THEN 0 ELSE a,
                                  max_price |-> p]] : a \in 0..2, p \in 0..1},
   tip : 0..2, plain : BOOLEAN]

FeeTxs ==
  LET own == {tx \in Straight(PaddedContents) :
                /\ tx.call.nullifier.slot = 0
                /\ tx.facts.base_block_number = 0
                /\ ForeignRoot \notin {tx.call.merkle_root, tx.call.ticket_root}}
  IN  {[tx EXCEPT !.fee = f, !.decodes = d] : tx \in own, f \in FeeGrid, d \in BOOLEAN}

AllTxs == BoardTxs \cup FeeTxs

(* All of them.  (TLC evaluates a definition once, and what replaces a       *)
(* constant each time.)                                                     *)
PoolTxs == AllTxs

PoolSymmetry == Permutations(MemberSecrets) \cup Permutations(TicketSecrets)
                \cup Permutations(Handles) \cup Permutations(PaddedContents)
                \cup Permutations(Accounts \ {Pool})
=============================================================================
