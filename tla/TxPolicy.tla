------------------------------- MODULE TxPolicy -------------------------------
(***************************************************************************)
(* The client's transaction policy (txpolicy.rs) against the gas market    *)
(* and the pool's fee policy.  A client reads the prices of the latest     *)
(* block, computes the bounds of its transaction, and the transaction is   *)
(* included some blocks later, at other prices; a publish has to satisfy   *)
(* the pool's check_fee_fields (PoolRules) as well, on bounds that are     *)
(* saved and sent again unchanged however often it is retried.             *)
(*                                                                         *)
(* Amounts and prices are small naturals; u128 saturation, which no price  *)
(* near the real ones reaches, is left out.  A client reads the pool's     *)
(* policy from the pool.                                                   *)
(***************************************************************************)
EXTENDS PoolRules

CONSTANTS
    Kinds,          \* transaction kinds, "publish" among them
    l2_gas,         \* the L2 gas amount of each kind
    L1_DATA_GAS,    \* the L1 data gas amount of every kind
    TIP,            \* the tip of every transaction
    Scales,         \* the powers of ten, as far as prices and the ticket go
    Prices          \* the prices a block may have, [l1, l2, l1_data]

PriceTriple == [l1 : Nat, l2 : Nat, l1_data : Nat]

ASSUME TxPolicyAssumption ==
    /\ "publish" \in Kinds /\ Kinds \cap {"none", "refused"} = {}
    /\ l2_gas \in [Kinds -> Nat \ {0}]
    /\ {L1_DATA_GAS, TIP} \subseteq Nat
    /\ Prices \subseteq PriceTriple

ASSUME ScalesAssumption ==
    /\ Scales \subseteq Nat \ {0} /\ 1 \in Scales
    /\ \A s \in Scales \ {1} : \E t \in Scales : s = 10 * t
    /\ \A s, t \in Scales : s < t => 10 * s <= t
    /\ \E s \in Scales :
         /\ max_fee < 100 * s
         /\ \A p \in Prices : 3 * p.l1 < 100 * s /\ 3 * p.l2 < 100 * s /\ 3 * p.l1_data < 100 * s

VARIABLES
    prices,     \* the latest block's gas prices
    plan        \* the transaction a client computed, and from which prices

vars == <<prices, plan>>

NoPlan == [kind |-> "none"]

-----------------------------------------------------------------------------
(* Rounding *)

\* The power of ten that leaves two figures of x.
scale(x) == CHOOSE s \in Scales :
                /\ x \div s < 100
                /\ \A t \in Scales : 10 * t = s => x \div t >= 100

\* Division rounded up.
div_ceil(x, d) == (x + d - 1) \div d

round_up_2sf(x) == div_ceil(x, scale(x)) * scale(x)

round_down_2sf(x) == (x \div scale(x)) * scale(x)

\* (mutant) A bound is the price itself, rounded.
price_bound_bare(price) == round_up_2sf(price)

price_bound(price) == round_up_2sf(div_ceil(price * 3, 2))

-----------------------------------------------------------------------------
(* Bounds, in the form PoolRules reads them *)

bounds(kind, p) ==
    [r \in Resource |->
        CASE r = "L1_GAS"  -> [max_amount |-> 0, max_price |-> price_bound(p.l1)]
          [] r = "L2_GAS"  -> [max_amount |-> l2_gas[kind], max_price |-> price_bound(p.l2)]
          [] r = "L1_DATA" -> [max_amount |-> L1_DATA_GAS, max_price |-> price_bound(p.l1_data)]]

\* The most a transaction with these bounds and this tip can be charged.
max_charge(b, tip) ==
    b["L1_GAS"].max_amount * b["L1_GAS"].max_price
    + b["L2_GAS"].max_amount * b["L2_GAS"].max_price
    + b["L1_DATA"].max_amount * b["L1_DATA"].max_price
    + b["L2_GAS"].max_amount * tip

minus(x, y) == IF x > y THEN x - y ELSE 0

\* (mutant) The L1 data part of the fee is forgotten in the cap.
cap_without_data(b) == minus(max_fee \div b["L2_GAS"].max_amount, TIP)

\* The highest L2 price a ticket covers, beside the L1 data and the tip.
cap(b) ==
    minus(minus(max_fee, L1_DATA_GAS * b["L1_DATA"].max_price)
              \div b["L2_GAS"].max_amount, TIP)

\* The shared rule, or less where a ticket covers less.
capped(b) ==
    IF b["L2_GAS"].max_price > cap(b)
    THEN [b EXCEPT !["L2_GAS"].max_price = round_down_2sf(cap(b))]
    ELSE b

covers_price(b, p) == b["L2_GAS"].max_price >= div_ceil(p.l2 * 11, 10)

\* (mutant) The last check is left to the pool.
fits_ticket_anyhow(b) == TRUE

fits_ticket(b) == max_charge(b, TIP) <= max_fee

\* What publish_bounds refuses over.
publish_ok(p) ==
    /\ TIP <= max_tip
    /\ l2_gas["publish"] >= min_l2_gas
    /\ covers_price(capped(bounds("publish", p)), p)
    /\ fits_ticket(capped(bounds("publish", p)))

publish_bounds(p) == capped(bounds("publish", p))

\* The fee fields of a transaction of the client.
fee_fields(b) == [bounds |-> b, tip |-> TIP, plain |-> TRUE]

-----------------------------------------------------------------------------
(* A client plans at the latest prices. *)

publish ==
    /\ plan = NoPlan
    /\ plan' = IF publish_ok(prices)
               THEN [kind |-> "publish", bounds |-> publish_bounds(prices), at |-> prices]
               ELSE [kind |-> "refused", at |-> prices]
    /\ UNCHANGED prices

submit(kind) ==
    /\ plan = NoPlan /\ kind # "publish"
    /\ plan' = [kind |-> kind, bounds |-> bounds(kind, prices), at |-> prices]
    /\ UNCHANGED prices

\* A block has other prices.
move(p) ==
    /\ prices' = p
    /\ UNCHANGED plan

\* The sequencer takes a transaction whose bounds cover the block's prices.
includable(b) ==
    /\ prices.l1 <= b["L1_GAS"].max_price
    /\ prices.l2 <= b["L2_GAS"].max_price
    /\ prices.l1_data <= b["L1_DATA"].max_price

include ==
    /\ plan.kind \in Kinds
    /\ includable(plan.bounds)
    /\ plan' = NoPlan
    /\ UNCHANGED prices

\* The user is told to wait for cheaper gas.
refused ==
    /\ plan.kind = "refused"
    /\ plan' = NoPlan
    /\ UNCHANGED prices

Init == prices \in Prices /\ plan = NoPlan

Next ==
    \/ publish
    \/ \E kind \in Kinds : submit(kind)
    \/ \E p \in Prices : move(p)
    \/ include \/ refused

Spec == Init /\ [][Next]_vars

-----------------------------------------------------------------------------
(* Properties *)

\* Whatever the prices and the pool's policy: the pool's __validate__ takes
\* the fee fields of every publish the client sends (it would otherwise be
\* refused only after minutes of proving).
PoolTakesPublish ==
    plan.kind = "publish" => check_fee_fields(fee_fields(plan.bounds))

\* A publish is not refused while some price of two figures, a tenth above
\* the current one, fits the ticket: rounding and capping cost no send.
Admissible(p, price) ==
    /\ price = round_down_2sf(price)
    /\ price >= div_ceil(p.l2 * 11, 10)
    /\ l2_gas["publish"] * (price + TIP)
         + L1_DATA_GAS * price_bound(p.l1_data) <= max_fee

RefusedOnlyWhenShort ==
    plan.kind = "refused" =>
        ~ \E price \in 0..max_fee : Admissible(plan.at, price)

\* A planned transaction outlives a rise of the prices by a tenth, also when
\* the ticket capped its bound: it does not sit in the mempool unincludable
\* for an ordinary fluctuation.
SurvivesRise ==
    plan.kind \in Kinds =>
        (/\ 10 * prices.l1 <= 11 * plan.at.l1
         /\ 10 * prices.l2 <= 11 * plan.at.l2
         /\ 10 * prices.l1_data <= 11 * plan.at.l1_data
         => includable(plan.bounds))

=============================================================================
