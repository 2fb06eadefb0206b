---------------------------- MODULE TxPolicyProofs ----------------------------
(***************************************************************************)
(* The client's transaction policy, for every gas market, every policy of   *)
(* the pool and every gas amount: what rounding to two figures and capping  *)
(* by the ticket keep, and what a planned transaction can rely on.          *)
(***************************************************************************)
EXTENDS TxPolicy, WellFoundedInduction, TLAPS

(* A scale reaches x: dividing by it leaves two figures of x at most.       *)
Reached(x) == \E s \in Scales : x < 100 * s

Roundable == \A p \in Prices : Reached(3 * p.l1) /\ Reached(3 * p.l2) /\ Reached(3 * p.l1_data)

LEMMA PricesReached == Roundable /\ Reached(max_fee)
BY ScalesAssumption DEF Roundable, Reached

-----------------------------------------------------------------------------
(* Rounding *)

LEMMA Least ==
  ASSUME NEW T \in SUBSET Nat, T # {}
  PROVE  \E x \in T : \A y \in T : x <= y
<1>1. PICK x \in T : \A y \in T : ~ (<<y, x>> \in OpToRel(<, Nat))
  BY NatLessThanWellFounded, WFMin
<1>2. ASSUME NEW y \in T, y < x
      PROVE  <<y, x>> \in OpToRel(<, Nat)
  BY <1>2 DEF OpToRel
<1>3. \A y \in T : ~(y < x)
  BY <1>1, <1>2
<1> HIDE <1>1
<1>4. \A y \in T : y \in Nat /\ x \in Nat
  OBVIOUS
<1> QED
  BY <1>3, <1>4

LEMMA Quotient ==
  ASSUME NEW x \in Nat, NEW s \in Nat \ {0}
  PROVE  /\ x \div s \in Nat /\ (x \div s) * s \in Nat
         /\ (x \div s) * s <= x /\ x < (x \div s) * s + s
<1> DEFINE q == x \div s
<1>1. q \in Nat /\ x = s * q + (x % s) /\ x % s \in 0..(s - 1)
  BY Z3
<1> HIDE DEF q
<1>2. s * q = q * s /\ q * s \in Nat
  BY <1>1, Z3
<1> QED
  BY <1>1, <1>2 DEF q

(* A quotient is below a hundred exactly if a hundred times the divisor is  *)
(* above the number.                                                        *)
LEMMA BelowHundred ==
  ASSUME NEW x \in Nat, NEW s \in Nat \ {0}
  PROVE  x \div s < 100 <=> x < 100 * s
<1> DEFINE q == x \div s
<1>1. q \in Nat /\ q * s <= x /\ x < q * s + s
  BY Quotient
<1> HIDE DEF q
<1>2. q < 100 => x < 100 * s
  BY <1>1, Z3
<1>3. x < 100 * s => q < 100
  BY <1>1, Z3
<1> QED
  BY <1>2, <1>3 DEF q

(* The loop that looks for the scale finds one: the first at which two      *)
(* figures are left.                                                        *)
LEMMA ScaleFound ==
  ASSUME NEW x \in Nat, Reached(x)
  PROVE  /\ scale(x) \in Scales /\ x < 100 * scale(x)
         /\ \A t \in Scales : t < scale(x) => 100 * t <= x
<1>0. \A s \in Scales : s \in Nat \ {0}
  BY ScalesAssumption
<1> DEFINE T == {s \in Scales : x < 100 * s}
<1>1. PICK s \in T : \A t \in T : s <= t
  <2>1. T \in SUBSET Nat /\ T # {}
    BY <1>0 DEF Reached
  <2> QED
    BY <2>1, Least
<1>2. x \div s < 100 /\ \A t \in Scales : 10 * t = s => x \div t >= 100
  <2>1. x \div s < 100
    BY <1>0, <1>1, BelowHundred
  <2>2. ASSUME NEW t \in Scales, 10 * t = s
        PROVE  x \div t >= 100
    <3>1. t < s
      BY <1>0, <2>2
    <3>2. ~(x < 100 * t) /\ x \div t \in Nat
      BY <1>0, <1>1, <3>1, Quotient
    <3> QED
      BY <1>0, <3>2, BelowHundred
  <2> QED
    BY <2>1, <2>2
<1>3. /\ scale(x) \in Scales /\ x \div scale(x) < 100
      /\ \A t \in Scales : 10 * t = scale(x) => x \div t >= 100
  BY <1>1, <1>2 DEF scale
<1>4. ASSUME NEW t \in Scales, t < scale(x)
      PROVE  100 * t <= x
  <2>0. scale(x) \in Scales \ {1}
    BY <1>0, <1>3, <1>4
  <2>1. PICK u \in Scales : scale(x) = 10 * u
    BY <2>0, ScalesAssumption
  <2>2. ~(x < 100 * u)
    BY <1>0, <1>3, <2>1, BelowHundred
  <2>3. t <= u
    BY <1>0, <1>4, <2>1, ScalesAssumption
  <2> QED
    BY <1>0, <2>2, <2>3
<1> QED
  BY <1>0, <1>3, <1>4, BelowHundred

LEMMA RoundedUp ==
  ASSUME NEW x \in Nat, Reached(x)
  PROVE  round_up_2sf(x) \in Nat /\ x <= round_up_2sf(x)
<1> DEFINE s == scale(x)
<1>1. s \in Nat \ {0}
  BY ScaleFound, ScalesAssumption
<1>2. x + s - 1 \in Nat
  BY <1>1
<1>3. /\ ((x + s - 1) \div s) * s \in Nat
      /\ x + s - 1 < ((x + s - 1) \div s) * s + s
  BY <1>1, <1>2, Quotient
<1>4. round_up_2sf(x) = ((x + s - 1) \div s) * s
  BY DEF round_up_2sf, div_ceil
<1> HIDE DEF s
<1> QED
  BY <1>1, <1>3, <1>4

LEMMA RoundedDown ==
  ASSUME NEW x \in Nat, Reached(x)
  PROVE  round_down_2sf(x) \in Nat /\ round_down_2sf(x) <= x
<1>1. scale(x) \in Nat \ {0}
  BY ScaleFound, ScalesAssumption
<1> QED
  BY <1>1, Quotient DEF round_down_2sf

(* Rounding down loses no number of two figures.                            *)
LEMMA RoundedDownKeeps ==
  ASSUME NEW x \in Nat, NEW y \in Nat, Reached(y), x <= y, round_down_2sf(x) = x
  PROVE  x <= round_down_2sf(y)
<1> DEFINE s == scale(x)  t == scale(y)  a == x \div s  b == y \div t
<1>0. \A r \in Scales : r \in Nat \ {0}
  BY ScalesAssumption
<1>1. Reached(x)
  BY <1>0 DEF Reached
<1>2. /\ s \in Scales /\ x < 100 * s /\ \A r \in Scales : r < s => 100 * r <= x
      /\ t \in Scales /\ y < 100 * t /\ \A r \in Scales : r < t => 100 * r <= y
  BY <1>1, ScaleFound
<1>3. s <= t
  BY <1>0, <1>2
<1>4. a \in Nat /\ b \in Nat /\ b * t \in Nat /\ b * t <= y /\ y < b * t + t
  BY <1>0, <1>2, Quotient
<1>5. x = a * s
  BY DEF round_down_2sf
<1>6. round_down_2sf(y) = b * t
  BY DEF round_down_2sf
<1> HIDE DEF s, t, a, b
<1>7. CASE s = t
  <2>1. a * t < b * t + t
    BY <1>0, <1>2, <1>4, <1>5, <1>7
  <2>2. a < b + 1
    BY <1>0, <1>2, <1>4, <2>1, Z3
  <2>3. a * t <= b * t
    BY <1>0, <1>2, <1>4, <2>2, Z3
  <2> QED
    BY <1>5, <1>6, <1>7, <2>3
<1>8. CASE s # t
  <2>1. 10 * s <= t
    BY <1>0, <1>2, <1>3, <1>8, ScalesAssumption
  <2>2. PICK u \in Scales : t = 10 * u
    BY <1>0, <1>2, <2>1, ScalesAssumption
  <2>3. 10 * t <= y
    BY <1>0, <1>2, <2>2
  <2>4. b >= 10
    BY <1>0, <1>2, <1>4, <2>3, Z3
  <2>5. 10 * t <= b * t
    BY <1>0, <1>2, <1>4, <2>4, Z3
  <2> QED
    BY <1>0, <1>2, <1>4, <1>6, <2>1, <2>5
<1> QED
  BY <1>7, <1>8

(* A price bound is at least half as much again.                            *)
LEMMA PriceBound ==
  ASSUME NEW p \in Nat, Reached(3 * p)
  PROVE  price_bound(p) \in Nat /\ 3 * p <= 2 * price_bound(p)
<1> DEFINE x == div_ceil(3 * p, 2)
<1>1. x \in Nat /\ 3 * p <= 2 * x /\ x <= 3 * p
  BY DEF div_ceil
<1>2. x = div_ceil(p * 3, 2)
  OBVIOUS
<1> HIDE DEF x
<1>3. Reached(x)
  BY <1>1, ScalesAssumption DEF Reached
<1> QED
  BY <1>1, <1>2, <1>3, RoundedUp DEF price_bound
-----------------------------------------------------------------------------
(* Bounds *)

IsBounds(b) == b \in [Resource -> Bound]

LEMMA BoundsTyped ==
  ASSUME NEW kind \in Kinds, NEW p \in Prices
  PROVE  /\ IsBounds(bounds(kind, p))
         /\ bounds(kind, p)["L1_GAS"].max_amount = 0
         /\ bounds(kind, p)["L2_GAS"].max_amount = l2_gas[kind]
         /\ bounds(kind, p)["L1_DATA"].max_amount = L1_DATA_GAS
         /\ bounds(kind, p)["L1_DATA"].max_price = price_bound(p.l1_data)
         /\ 3 * p.l1 <= 2 * bounds(kind, p)["L1_GAS"].max_price
         /\ 3 * p.l2 <= 2 * bounds(kind, p)["L2_GAS"].max_price
         /\ 3 * p.l1_data <= 2 * bounds(kind, p)["L1_DATA"].max_price
<1>1. p.l1 \in Nat /\ p.l2 \in Nat /\ p.l1_data \in Nat
  BY TxPolicyAssumption DEF PriceTriple
<1>2. /\ price_bound(p.l1) \in Nat /\ 3 * p.l1 <= 2 * price_bound(p.l1)
      /\ price_bound(p.l2) \in Nat /\ 3 * p.l2 <= 2 * price_bound(p.l2)
      /\ price_bound(p.l1_data) \in Nat /\ 3 * p.l1_data <= 2 * price_bound(p.l1_data)
  BY <1>1, PricesReached, PriceBound DEF Roundable
<1>3. l2_gas[kind] \in Nat /\ L1_DATA_GAS \in Nat
  BY TxPolicyAssumption
<1> QED
  BY <1>2, <1>3 DEF bounds, IsBounds, Resource, Bound

(* The ticket's cap, in one inequality.                                     *)
LEMMA CapIs ==
  ASSUME NEW b, IsBounds(b), b["L2_GAS"].max_amount # 0
  PROVE  /\ cap(b) \in Nat /\ cap(b) <= max_fee
         /\ \A price \in Nat :
              b["L2_GAS"].max_amount * (price + TIP) + L1_DATA_GAS * b["L1_DATA"].max_price <= max_fee
                => price <= cap(b)
         /\ cap(b) # 0 =>
              b["L2_GAS"].max_amount * (cap(b) + TIP) + L1_DATA_GAS * b["L1_DATA"].max_price <= max_fee
<1> DEFINE g == b["L2_GAS"].max_amount
           data == L1_DATA_GAS * b["L1_DATA"].max_price
           rest == minus(max_fee, data)
           q == rest \div g
<1>1. g \in Nat \ {0} /\ b["L1_DATA"].max_price \in Nat
  BY DEF IsBounds, Resource, Bound
<1>2. data \in Nat
  BY <1>1, TxPolicyAssumption, Z3
<1>3. max_fee \in Nat /\ TIP \in Nat
  BY ConstructorAssumption, TxPolicyAssumption
<1>4. cap(b) = minus(q, TIP)
  BY DEF cap
<1> HIDE DEF g, data
<1>5. rest \in Nat /\ rest <= max_fee /\ rest = IF max_fee > data THEN max_fee - data ELSE 0
  BY <1>2, <1>3 DEF minus
<1> HIDE DEF rest
<1>6. q \in Nat /\ q * g \in Nat /\ q * g <= rest /\ rest < q * g + g
  BY <1>1, <1>5, Quotient
<1> HIDE DEF q
<1>7. q <= rest
  BY <1>1, <1>5, <1>6, Z3
<1>8. cap(b) = IF q > TIP THEN q - TIP ELSE 0
  BY <1>4 DEF minus
<1>9. ASSUME NEW price \in Nat, g * (price + TIP) + data <= max_fee
      PROVE  price <= cap(b)
  <2>1. g * (price + TIP) \in Nat
    BY <1>1, <1>3, Z3
  <2>2. g * (price + TIP) <= rest
    BY <1>2, <1>3, <1>5, <1>9, <2>1
  <2>3. price + TIP <= q
    BY <1>1, <1>3, <1>5, <1>6, <2>2, Z3
  <2> QED
    BY <1>3, <1>6, <1>8, <2>3
<1>10. ASSUME cap(b) # 0
       PROVE  g * (cap(b) + TIP) + data <= max_fee
  <2>1. cap(b) + TIP = q /\ q # 0
    BY <1>3, <1>6, <1>8, <1>10
  <2>2. g * q = q * g
    BY <1>1, <1>6, Z3
  <2>3. rest # 0
    BY <1>1, <1>6, <2>1, Z3
  <2> QED
    BY <1>2, <1>3, <1>5, <1>6, <2>1, <2>2, <2>3
<1> QED
  BY <1>3, <1>5, <1>6, <1>7, <1>8, <1>9, <1>10 DEF g, data

(* Capping lowers the L2 price, and nothing else.                           *)
LEMMA CappedIs ==
  ASSUME NEW b, IsBounds(b), b["L2_GAS"].max_amount # 0
  PROVE  /\ IsBounds(capped(b))
         /\ capped(b)["L1_GAS"] = b["L1_GAS"] /\ capped(b)["L1_DATA"] = b["L1_DATA"]
         /\ capped(b)["L2_GAS"].max_amount = b["L2_GAS"].max_amount
         /\ capped(b)["L2_GAS"].max_price <= cap(b)
         /\ capped(b)["L2_GAS"].max_price =
              IF b["L2_GAS"].max_price > cap(b) THEN round_down_2sf(cap(b)) ELSE b["L2_GAS"].max_price
<1>1. cap(b) \in Nat /\ Reached(cap(b))
  <2>1. cap(b) \in Nat /\ cap(b) <= max_fee
    BY CapIs
  <2>2. max_fee \in Nat /\ \A s \in Scales : s \in Nat
    BY ConstructorAssumption, ScalesAssumption
  <2> QED
    BY <2>1, <2>2, PricesReached DEF Reached
<1>2. round_down_2sf(cap(b)) \in Nat /\ round_down_2sf(cap(b)) <= cap(b)
  BY <1>1, RoundedDown
<1>3. b["L2_GAS"] \in Bound
  BY DEF IsBounds, Resource
<1> QED
  BY <1>1, <1>2, <1>3 DEF capped, IsBounds, Resource, Bound

-----------------------------------------------------------------------------
(* Plans *)

(* A plan was computed from the prices it names.                            *)
Planned ==
  \/ plan = NoPlan
  \/ \E p \in Prices :
       \/ plan = [kind |-> "publish", bounds |-> publish_bounds(p), at |-> p] /\ publish_ok(p)
       \/ plan = [kind |-> "refused", at |-> p] /\ ~publish_ok(p)
       \/ \E kind \in Kinds \ {"publish"} : plan = [kind |-> kind, bounds |-> bounds(kind, p), at |-> p]
Inv == prices \in Prices /\ Planned

LEMMA InvHolds == Spec => []Inv
<1>1. Init => Inv
  BY DEF Init, Inv, Planned
<1>2. Inv /\ [Next]_vars => Inv'
  <2> SUFFICES ASSUME Inv, [Next]_vars
               PROVE  Inv'
    OBVIOUS
  <2>1. CASE publish
    BY <2>1 DEF Inv, Planned, publish
  <2>2. ASSUME NEW kind \in Kinds, submit(kind)
        PROVE  Inv'
    BY <2>2 DEF Inv, Planned, submit
  <2>3. ASSUME NEW p \in Prices, move(p)
        PROVE  Inv'
    BY <2>3 DEF Inv, Planned, move
  <2>4. CASE include \/ refused
    BY <2>4 DEF Inv, Planned, include, refused
  <2>5. CASE UNCHANGED vars
    BY <2>5 DEF Inv, Planned, vars
  <2> QED
    BY <2>1, <2>2, <2>3, <2>4, <2>5 DEF Next
<1> QED
  BY <1>1, <1>2, PTL DEF Spec

LEMMA PlanIs ==
  ASSUME Inv
  PROVE  /\ plan.kind = "publish" =>
              plan.at \in Prices /\ plan.bounds = publish_bounds(plan.at) /\ publish_ok(plan.at)
         /\ plan.kind = "refused" => plan.at \in Prices /\ ~publish_ok(plan.at)
         /\ plan.kind \in Kinds \ {"publish"} => plan.at \in Prices /\ plan.bounds = bounds(plan.kind, plan.at)
<1>1. "none" \notin Kinds /\ "refused" \notin Kinds
  BY TxPolicyAssumption
<1>2. CASE plan = NoPlan
  BY <1>1, <1>2 DEF NoPlan
<1>3. ASSUME NEW p \in Prices, plan = [kind |-> "publish", bounds |-> publish_bounds(p), at |-> p], publish_ok(p)
      PROVE  plan.kind = "publish" /\ plan.at \in Prices /\ plan.bounds = publish_bounds(plan.at) /\ publish_ok(plan.at)
  BY <1>3
<1>4. ASSUME NEW p \in Prices, plan = [kind |-> "refused", at |-> p], ~publish_ok(p)
      PROVE  plan.kind = "refused" /\ plan.at \in Prices /\ ~publish_ok(plan.at)
  BY <1>4
<1>5. ASSUME NEW p \in Prices, NEW kind \in Kinds \ {"publish"}, plan = [kind |-> kind, bounds |-> bounds(kind, p), at |-> p]
      PROVE  plan.kind = kind /\ plan.at \in Prices /\ plan.bounds = bounds(plan.kind, plan.at)
  BY <1>5
<1> QED
  BY <1>1, <1>2, <1>3, <1>4, <1>5 DEF Inv, Planned

LEMMA PublishGas == l2_gas["publish"] \in Nat \ {0} /\ "publish" \in Kinds /\ TIP \in Nat
BY TxPolicyAssumption

(* The client's sum is the pool's.                                          *)
LEMMA ChargeIs ==
  ASSUME NEW b, IsBounds(b)
  PROVE  max_possible_fee(fee_fields(b)) = max_charge(b, TIP)
<1> DEFINE g == b["L2_GAS"].max_amount
           q == b["L2_GAS"].max_price
           x == b["L1_GAS"].max_amount * b["L1_GAS"].max_price
           y == b["L1_DATA"].max_amount * b["L1_DATA"].max_price
<1>1. g \in Nat /\ q \in Nat /\ b["L1_GAS"] \in Bound /\ b["L1_DATA"] \in Bound
  BY DEF IsBounds, Resource, Bound
<1>2. x \in Nat /\ y \in Nat
  <2>1. /\ b["L1_GAS"].max_amount \in Nat /\ b["L1_GAS"].max_price \in Nat
        /\ b["L1_DATA"].max_amount \in Nat /\ b["L1_DATA"].max_price \in Nat
    BY <1>1 DEF Bound
  <2> QED
    BY <2>1, Z3
<1>3. max_possible_fee(fee_fields(b)) = x + g * (q + TIP) + y
  BY DEF max_possible_fee, fee_fields
<1>4. max_charge(b, TIP) = x + g * q + y + g * TIP
  BY DEF max_charge
<1> HIDE DEF g, q, x, y
<1>5. g * (q + TIP) = g * q + g * TIP /\ g * q \in Nat /\ g * TIP \in Nat
  BY <1>1, PublishGas, Z3
<1> QED
  BY <1>2, <1>3, <1>4, <1>5

-----------------------------------------------------------------------------
(* Whatever the pool's fee policy, its check takes the fee fields of every  *)
(* publish the client sends, also of one that is sent again later: what     *)
(* publish_bounds refuses is all that the pool would.                       *)
THEOREM PublishIsTaken == Spec => []PoolTakesPublish
<1>1. ASSUME Inv
      PROVE  PoolTakesPublish
  <2> SUFFICES ASSUME plan.kind = "publish"
               PROVE  check_fee_fields(fee_fields(plan.bounds))
    BY DEF PoolTakesPublish
  <2> DEFINE b == bounds("publish", plan.at)
  <2>1. plan.at \in Prices /\ plan.bounds = capped(b) /\ publish_ok(plan.at)
    BY <1>1, PlanIs DEF publish_bounds
  <2>2. /\ IsBounds(capped(b)) /\ capped(b)["L2_GAS"].max_amount = l2_gas["publish"]
    <3>1. IsBounds(b) /\ b["L2_GAS"].max_amount = l2_gas["publish"] /\ l2_gas["publish"] # 0
      BY <2>1, PublishGas, BoundsTyped
    <3> HIDE DEF b
    <3> QED
      BY <3>1, CappedIs
  <2>3. /\ TIP <= max_tip /\ l2_gas["publish"] >= min_l2_gas /\ max_charge(capped(b), TIP) <= max_fee
    BY <2>1 DEF publish_ok, fits_ticket
  <2> HIDE DEF b
  <2>4. max_possible_fee(fee_fields(capped(b))) <= max_fee
    BY <2>2, <2>3, ChargeIs
  <2> QED
    BY <2>1, <2>2, <2>3, <2>4 DEF check_fee_fields, fee_fields
<1> QED
  BY <1>1, InvHolds, PTL

(* Whatever a transaction is for and whether a ticket capped it: it is      *)
(* still includable after every price rose by a tenth.                      *)
THEOREM PlanOutlivesRise == Spec => []SurvivesRise
<1>1. ASSUME Inv
      PROVE  SurvivesRise
  <2> SUFFICES ASSUME plan.kind \in Kinds,
                      10 * prices.l1 <= 11 * plan.at.l1, 10 * prices.l2 <= 11 * plan.at.l2,
                      10 * prices.l1_data <= 11 * plan.at.l1_data
               PROVE  includable(plan.bounds)
    BY DEF SurvivesRise
  <2>1. plan.at \in Prices /\ prices \in Prices
    BY <1>1, PlanIs DEF Inv
  <2>2. /\ plan.at.l1 \in Nat /\ plan.at.l2 \in Nat /\ plan.at.l1_data \in Nat
        /\ prices.l1 \in Nat /\ prices.l2 \in Nat /\ prices.l1_data \in Nat
    BY <2>1, TxPolicyAssumption DEF PriceTriple
  <2> DEFINE b == bounds(plan.kind, plan.at)
  <2>3. /\ 3 * plan.at.l1 <= 2 * b["L1_GAS"].max_price
        /\ 3 * plan.at.l2 <= 2 * b["L2_GAS"].max_price
        /\ 3 * plan.at.l1_data <= 2 * b["L1_DATA"].max_price
        /\ IsBounds(b) /\ b["L2_GAS"].max_amount = l2_gas[plan.kind]
    BY <2>1, BoundsTyped
  <2>4. /\ b["L1_GAS"].max_price \in Nat /\ b["L2_GAS"].max_price \in Nat /\ b["L1_DATA"].max_price \in Nat
    BY <2>3 DEF IsBounds, Resource, Bound
  <2>5. CASE plan.kind # "publish"
    <3>1. plan.bounds = b
      BY <1>1, <2>5, PlanIs
    <3> HIDE DEF b
    <3> QED
      BY <2>2, <2>3, <2>4, <3>1 DEF includable
  <2>6. CASE plan.kind = "publish"
    <3>1. plan.bounds = capped(b) /\ covers_price(capped(b), plan.at)
      BY <1>1, <2>6, PlanIs DEF publish_bounds, publish_ok
    <3> HIDE DEF b
    <3>2. /\ capped(b)["L1_GAS"] = b["L1_GAS"] /\ capped(b)["L1_DATA"] = b["L1_DATA"]
          /\ capped(b)["L2_GAS"].max_price \in Nat
      BY <2>3, <2>6, PublishGas, CappedIs DEF IsBounds, Resource, Bound
    <3>3. plan.at.l2 * 11 <= 10 * capped(b)["L2_GAS"].max_price
      BY <2>2, <3>1, <3>2 DEF covers_price, div_ceil
    <3> QED
      BY <2>2, <2>3, <2>4, <3>1, <3>2, <3>3 DEF includable
  <2> QED
    BY <2>5, <2>6
<1> QED
  BY <1>1, InvHolds, PTL

(* If the pool's policy admits the client's tip and gas amount at all, a     *)
(* publish is refused only when no price of two figures a tenth above the   *)
(* market's fits the ticket.                                                *)
THEOREM RefusalIsNeeded ==
  ASSUME TIP <= max_tip, min_l2_gas <= l2_gas["publish"]
  PROVE  Spec => []RefusedOnlyWhenShort
<1>1. ASSUME Inv
      PROVE  RefusedOnlyWhenShort
  <2> SUFFICES ASSUME plan.kind = "refused", NEW price \in 0..max_fee, Admissible(plan.at, price)
               PROVE  FALSE
    BY DEF RefusedOnlyWhenShort
  <2> DEFINE p == plan.at
             b == bounds("publish", p)
             c == capped(b)
             g == l2_gas["publish"]
             data == L1_DATA_GAS * price_bound(p.l1_data)
  <2>1. p \in Prices /\ ~publish_ok(p)
    BY <1>1, PlanIs
  <2>2. price \in Nat /\ p.l2 \in Nat /\ g \in Nat \ {0} /\ TIP \in Nat
    BY <2>1, PublishGas, ConstructorAssumption, TxPolicyAssumption DEF PriceTriple
  <2>3. /\ price = round_down_2sf(price) /\ price >= div_ceil(p.l2 * 11, 10)
        /\ g * (price + TIP) + data <= max_fee
    BY DEF Admissible
  <2>4. /\ IsBounds(b) /\ b["L1_GAS"].max_amount = 0 /\ b["L2_GAS"].max_amount = g
        /\ b["L1_DATA"].max_amount = L1_DATA_GAS /\ b["L1_DATA"].max_price = price_bound(p.l1_data)
        /\ 3 * p.l2 <= 2 * b["L2_GAS"].max_price
    BY <2>1, PublishGas, BoundsTyped
  <2> HIDE DEF p, b, g
  <2>5. /\ cap(b) \in Nat /\ cap(b) <= max_fee /\ price <= cap(b)
        /\ cap(b) # 0 => g * (cap(b) + TIP) + data <= max_fee
    BY <2>2, <2>3, <2>4, CapIs
  <2>6. /\ IsBounds(c) /\ c["L1_GAS"] = b["L1_GAS"] /\ c["L1_DATA"] = b["L1_DATA"]
        /\ c["L2_GAS"].max_amount = g /\ c["L2_GAS"].max_price <= cap(b)
        /\ c["L2_GAS"].max_price =
             IF b["L2_GAS"].max_price > cap(b) THEN round_down_2sf(cap(b)) ELSE b["L2_GAS"].max_price
    BY <2>2, <2>4, CappedIs
  <2> HIDE DEF c
  <2>7. /\ c["L2_GAS"].max_price \in Nat /\ b["L2_GAS"].max_price \in Nat
        /\ b["L1_DATA"].max_price \in Nat /\ b["L1_GAS"].max_price \in Nat
    BY <2>4, <2>6 DEF IsBounds, Resource, Bound
  <2>8. covers_price(c, p)
    <3>1. CASE b["L2_GAS"].max_price > cap(b)
      <4>1. Reached(cap(b))
        <5>1. max_fee \in Nat /\ \A s \in Scales : s \in Nat
          BY ConstructorAssumption, ScalesAssumption
        <5> QED
          BY <2>5, <5>1, PricesReached DEF Reached
      <4>2. price <= c["L2_GAS"].max_price
        BY <2>2, <2>3, <2>5, <2>6, <3>1, <4>1, RoundedDownKeeps
      <4>3. div_ceil(p.l2 * 11, 10) \in Nat
        BY <2>2 DEF div_ceil
      <4> QED
        BY <2>2, <2>3, <2>7, <4>2, <4>3 DEF covers_price
    <3>2. CASE ~(b["L2_GAS"].max_price > cap(b))
      <4>1. c["L2_GAS"].max_price = b["L2_GAS"].max_price
        BY <2>6, <3>2
      <4> QED
        BY <2>2, <2>4, <2>7, <4>1 DEF covers_price, div_ceil
    <3> QED
      BY <3>1, <3>2
  <2>9. fits_ticket(c)
    <3> DEFINE x == c["L2_GAS"].max_price
    <3>1. max_charge(c, TIP) = 0 * b["L1_GAS"].max_price + g * x + data + g * TIP
      BY <2>4, <2>6 DEF max_charge
    <3>2. data \in Nat
      <4>1. price_bound(p.l1_data) \in Nat /\ L1_DATA_GAS \in Nat
        BY <2>4, <2>7, TxPolicyAssumption
      <4> QED
        BY <4>1, Z3
    <3>3. g * (cap(b) + TIP) + data <= max_fee
      <4>1. CASE cap(b) = 0
        BY <2>2, <2>3, <2>5, <4>1
      <4> QED
        BY <2>5, <4>1
    <3> HIDE DEF x, data
    <3>4. x \in Nat /\ x <= cap(b)
      BY <2>6, <2>7 DEF x
    <3>5. g * x + g * TIP <= g * (cap(b) + TIP) /\ g * x \in Nat /\ g * TIP \in Nat /\ g * (cap(b) + TIP) \in Nat
      BY <2>2, <2>5, <3>4, Z3
    <3>6. 0 * b["L1_GAS"].max_price = 0
      BY <2>7, Z3
    <3> QED
      BY <3>1, <3>2, <3>3, <3>5, <3>6, ConstructorAssumption DEF fits_ticket
  <2> QED
    BY <2>1, <2>8, <2>9 DEF publish_ok, b, c, g
<1> QED
  BY <1>1, InvHolds, PTL
=============================================================================
