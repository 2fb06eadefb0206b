------------------------------ MODULE PoolRules ------------------------------
(***************************************************************************)
(* The pure rules of the zkmsg v4 pool: the epoch arithmetic of facts.cairo *)
(* and the fee policy of policy.cairo.  Nothing here has state; the pool    *)
(* (ZkmsgPoolV4) applies these rules in its validate and execute steps.     *)
(***************************************************************************)
EXTENDS Integers

CONSTANTS
  epoch_blocks,    \* blocks per epoch
  max_epoch_lag,   \* how many epochs a proof may be behind
  quota,           \* sends per member per epoch
  ticket_price,    \* STRK per ticket
  max_fee,         \* fee policy: ceiling on one send's worst-case fee
  max_tip,         \* fee policy: ceiling on the tip
  min_l2_gas,      \* fee policy: floor on the L2 gas amount
  MaxU64           \* the largest value of a u64 (2^64 - 1 in Cairo)

(* Blockifier rounds the block number a validate sees down to a multiple of *)
(* this (a versioned constant of the protocol, fixed in facts.cairo).       *)
VALIDATE_BLOCK_ROUNDING == 100

(* What the pool's constructor asserts of its arguments, and their types.   *)
ASSUME ConstructorAssumption ==
  /\ epoch_blocks \in Nat \ {0}
  /\ epoch_blocks % VALIDATE_BLOCK_ROUNDING = 0
  /\ max_epoch_lag \in Nat
  /\ quota \in Nat \ {0}
  /\ max_fee \in Nat \ {0}
  /\ max_tip \in Nat
  /\ min_l2_gas \in Nat \ {0}
  /\ ticket_price \in Nat
  /\ max_fee <= ticket_price
  /\ MaxU64 \in Nat

-----------------------------------------------------------------------------
(* Epochs *)

epoch_of(block) == block \div epoch_blocks

round_block(block) ==
  (block \div VALIDATE_BLOCK_ROUNDING) * VALIDATE_BLOCK_ROUNDING

(* Mutant: epochs of any age are fresh. *)
epoch_is_fresh_any_age(proof_epoch, now_block) ==
  proof_epoch <= epoch_of(round_block(now_block))

(* The u64 sum panics on overflow, so an epoch whose sum with the lag does  *)
(* not fit is refused like any stale one.                                   *)
epoch_is_fresh(proof_epoch, now_block) ==
  LET now_epoch == epoch_of(round_block(now_block))
  IN  /\ proof_epoch <= now_epoch
      /\ proof_epoch + max_epoch_lag <= MaxU64
      /\ proof_epoch + max_epoch_lag >= now_epoch

-----------------------------------------------------------------------------
(* Fees.  A transaction's fee fields are                                    *)
(*   [bounds, tip, plain]                                                   *)
(* where bounds gives each resource its max_amount and max_price_per_unit,  *)
(* and plain stands for the flat conditions on the fields the pool wants    *)
(* absent: version 3, no signature, no paymaster or deployment data, L1     *)
(* data availability.                                                       *)

Resource == {"L1_GAS", "L2_GAS", "L1_DATA"}

Bound == [max_amount : Nat, max_price : Nat]

FeeFields == [bounds : [Resource -> Bound], tip : Nat, plain : BOOLEAN]

(* Mutant: the tip is left out of the sum. *)
max_possible_fee_no_tip(fee) ==
    fee.bounds["L1_GAS"].max_amount  * fee.bounds["L1_GAS"].max_price
  + fee.bounds["L2_GAS"].max_amount  * fee.bounds["L2_GAS"].max_price
  + fee.bounds["L1_DATA"].max_amount * fee.bounds["L1_DATA"].max_price

(* The policy's own sum: it adds the tip to the price of the L2 gas.        *)
max_possible_fee(fee) ==
    fee.bounds["L1_GAS"].max_amount  * fee.bounds["L1_GAS"].max_price
  + fee.bounds["L2_GAS"].max_amount  * (fee.bounds["L2_GAS"].max_price + fee.tip)
  + fee.bounds["L1_DATA"].max_amount * fee.bounds["L1_DATA"].max_price

(* The most the sequencer charges, as the protocol has it (the formula the  *)
(* policy quotes): what every bound allows, and the tip on the L2 gas.      *)
sequencer_charge(fee) ==
  LET cost(r) == fee.bounds[r].max_amount * fee.bounds[r].max_price
  IN  cost("L1_GAS") + cost("L2_GAS") + cost("L1_DATA")
      + fee.tip * fee.bounds["L2_GAS"].max_amount

check_fee_fields(fee) ==
  /\ fee.plain
  /\ fee.tip <= max_tip
  /\ fee.bounds["L2_GAS"].max_amount >= min_l2_gas
  /\ max_possible_fee(fee) <= max_fee
=============================================================================
