-------------------------- MODULE ZkmsgPoolV4Proofs --------------------------
(***************************************************************************)
(* Theorems about the zkmsg v4 pool, for every set of accounts, members,    *)
(* tickets, contents and transactions, every ring size and every policy the *)
(* constructor accepts.                                                     *)
(***************************************************************************)
EXTENDS PoolBoard, SequenceTheorems, FiniteSetTheorems, TLAPS

-----------------------------------------------------------------------------
(* The pool's pure rules, for every policy and every epoch the constructor  *)
(* accepts                                                                  *)

(* Division with remainder, as the provers need it. *)
LEMMA DivMod ==
  ASSUME NEW n \in Nat, NEW d \in Nat \ {0}
  PROVE  /\ n \div d \in Nat
         /\ n = d * (n \div d) + (n % d)
         /\ n % d \in 0..(d - 1)
  BY Z3

(* The quotient is the only number whose interval holds n. *)
LEMMA DivUnique ==
  ASSUME NEW n \in Nat, NEW d \in Nat \ {0}, NEW q \in Nat, NEW r \in Nat,
         n = d * q + r, r < d
  PROVE  n \div d = q
  BY Z3

LEMMA EpochType ==
  ASSUME NEW n \in Nat
  PROVE  epoch_of(n) \in Nat /\ round_block(n) \in Nat
  BY ConstructorAssumption, DivMod, Z3 DEF epoch_of, round_block, VALIDATE_BLOCK_ROUNDING

(* Rounding a block number down never moves it to another epoch, because an *)
(* epoch is a whole number of roundings: facts.cairo's reason why a check   *)
(* that passes in validate, on the rounded number, passes in execute.       *)
THEOREM RoundingKeepsEpoch ==
  ASSUME NEW n \in Nat
  PROVE  epoch_of(round_block(n)) = epoch_of(n)
<1> DEFINE k == epoch_blocks \div 100
           q == n \div epoch_blocks
           r == n % epoch_blocks
           s == r \div 100
<1>1. /\ epoch_blocks = 100 * k /\ k \in Nat \ {0}
  BY ConstructorAssumption, DivMod, Z3 DEF VALIDATE_BLOCK_ROUNDING
<1>2. /\ q \in Nat /\ r \in Nat /\ n = epoch_blocks * q + r /\ r < epoch_blocks
  <2>1. epoch_blocks \in Nat \ {0}
    BY ConstructorAssumption
  <2>2. q \in Nat /\ n = epoch_blocks * q + r /\ r \in 0..(epoch_blocks - 1)
    BY <2>1, DivMod
  <2> QED
    BY <2>1, <2>2
<1>3. /\ s \in Nat /\ 100 * s <= r /\ r < 100 * s + 100
  BY <1>2, Z3
<1> HIDE DEF k, q, r, s
<1>4. n \div 100 = k * q + s
  <2>1. k * q \in Nat
    BY <1>1, <1>2, Z3
  <2>2. n = 100 * (k * q) + r
    BY <1>1, <1>2, Z3
  <2>3. n = 100 * (k * q + s) + (r - 100 * s) /\ r - 100 * s \in Nat /\ r - 100 * s < 100
    BY <2>1, <2>2, <1>2, <1>3, Z3
  <2>4. k * q + s \in Nat
    BY <2>1, <1>3
  <2> QED
    BY <2>3, <2>4, DivUnique
<1>5. round_block(n) = epoch_blocks * q + 100 * s
  <2>1. k * q \in Nat /\ epoch_blocks * q = 100 * (k * q)
    BY <1>1, <1>2, Z3
  <2>2. round_block(n) = (k * q + s) * 100
    BY <1>4 DEF round_block, VALIDATE_BLOCK_ROUNDING
  <2>3. (k * q + s) * 100 = 100 * (k * q) + 100 * s
    BY <2>1, <1>3
  <2> QED
    BY <2>1, <2>2, <2>3
<1>6. /\ 100 * s \in Nat /\ 100 * s < epoch_blocks
      /\ epoch_blocks * q \in Nat
  BY <1>1, <1>2, <1>3, Z3
<1>7. round_block(n) \in Nat
  BY <1>5, <1>6
<1>8. epoch_of(round_block(n)) = q
  BY <1>2, <1>5, <1>6, <1>7, ConstructorAssumption, DivUnique DEF epoch_of
<1> QED
  BY <1>8 DEF epoch_of, q

(* So freshness does not depend on whether the caller sees the block number *)
(* rounded (validate) or not (execute).                                     *)
THEOREM FreshnessIgnoresRounding ==
  ASSUME NEW e \in Nat, NEW n \in Nat
  PROVE  epoch_is_fresh(e, round_block(n)) <=> epoch_is_fresh(e, n)
  BY EpochType, RoundingKeepsEpoch DEF epoch_is_fresh

(* A fresh epoch is the current one or at most max_epoch_lag older.         *)
LEMMA FreshWindow ==
  ASSUME NEW e \in Nat, NEW n \in Nat, epoch_is_fresh(e, n)
  PROVE  e <= epoch_of(n) /\ epoch_of(n) <= e + max_epoch_lag
  BY RoundingKeepsEpoch, EpochType, ConstructorAssumption DEF epoch_is_fresh

(* The policy's sum is what the sequencer may charge, tip included.         *)
LEMMA PolicySum ==
  ASSUME NEW fee \in FeeFields
  PROVE  /\ sequencer_charge(fee) \in Nat
         /\ max_possible_fee(fee) = sequencer_charge(fee)
<1> DEFINE a == fee.bounds["L1_GAS"]
           b == fee.bounds["L2_GAS"]
           c == fee.bounds["L1_DATA"]
<1>1. a \in Bound /\ b \in Bound /\ c \in Bound /\ fee.tip \in Nat
  BY DEF FeeFields, Resource
<1>2. /\ a.max_amount \in Nat /\ a.max_price \in Nat
      /\ b.max_amount \in Nat /\ b.max_price \in Nat
      /\ c.max_amount \in Nat /\ c.max_price \in Nat
  BY <1>1 DEF Bound
<1> HIDE DEF a, b, c
<1>3. /\ a.max_amount * a.max_price \in Nat /\ b.max_amount * b.max_price \in Nat
      /\ c.max_amount * c.max_price \in Nat /\ fee.tip * b.max_amount \in Nat
  BY <1>1, <1>2, Z3
<1>4. b.max_amount * (b.max_price + fee.tip)
        = b.max_amount * b.max_price + fee.tip * b.max_amount
  BY <1>1, <1>2, Z3
<1>5. sequencer_charge(fee) = a.max_amount * a.max_price + b.max_amount * b.max_price
                              + c.max_amount * c.max_price + fee.tip * b.max_amount
  BY DEF sequencer_charge, a, b, c
<1>6. max_possible_fee(fee) = a.max_amount * a.max_price
                              + b.max_amount * (b.max_price + fee.tip)
                              + c.max_amount * c.max_price
  BY DEF max_possible_fee, a, b, c
<1> QED
  BY <1>3, <1>4, <1>5, <1>6

(* Fee fields the policy accepts cannot cost more than one ticket: the      *)
(* constructor's 'max fee over ticket price' assertion at work.             *)
THEOREM AcceptedFeeFitsTicket ==
  ASSUME NEW fee \in FeeFields, check_fee_fields(fee)
  PROVE  sequencer_charge(fee) \in 0..ticket_price
  BY PolicySum, ConstructorAssumption DEF check_fee_fields

-----------------------------------------------------------------------------
(* Types of what is sent                                                    *)

(* Every transaction that can be pending is a well-formed one.              *)
LEMMA TxType ==
  ASSUME NEW tx \in Txs
  PROVE  /\ tx \in Tx /\ tx # None
         /\ tx.fee \in FeeFields
         /\ tx.call \in SendCall
         /\ tx.call.nullifier \in Nullifier
         /\ tx.call.ticket_nullifier \in TicketSecrets
         /\ envelope_key(tx.call) \in Commitments \X Contents
         /\ tx.facts.base_block_number \in Nat
  BY DomainAssumption DEF Tx, SendCall, Facts, envelope_key

LEMMA BatchType ==
  ASSUME NEW leaves \in TicketBatches
  PROVE  leaves \in Seq(TicketSecrets) /\ Len(leaves) \in Nat \ {0}
<1> PICK n \in 1..MAX_TICKETS_PER_BUY : leaves \in [1..n -> TicketSecrets]
  BY DEF TicketBatches
<1> QED
  BY DomainAssumption

-----------------------------------------------------------------------------
(* Type correctness *)

LEMMA InitTypeOK == Init => TypeOK
  BY DomainAssumption DEF Init, TypeOK, MemberRecord, NoUser

LEMMA NextTypeOK == TypeOK /\ [Next]_vars => TypeOK'
<1> SUFFICES ASSUME TypeOK, [Next]_vars PROVE TypeOK'
  OBVIOUS
<1> USE DEF TypeOK, memberVars, ticketVars, messageVars
<1>1. ASSUME NEW a \in Accounts, NEW h \in Handles, NEW scan \in ScanKeys,
             NEW m \in MemberSecrets, register(a, h, scan, m)
      PROVE  TypeOK'
  <2>1. users' \in [Accounts -> MemberRecord]
    BY <1>1 DEF register, MemberRecord
  <2>2. handles' \in [Handles -> Accounts \cup {Zero}]
    BY <1>1 DEF register
  <2>3. members' \in Seq(Leaf)
    BY <1>1 DEF register, Leaf
  <2>4. root_history' \in [0..(ROOT_HISTORY_SIZE - 1) -> Nat \cup {Zero}]
    BY <1>1 DEF register
  <2>5. root_history_index' \in 0..(ROOT_HISTORY_SIZE - 1)
    BY <1>1, DomainAssumption DEF register, next_index
  <2> QED
    BY <1>1, <2>1, <2>2, <2>3, <2>4, <2>5 DEF register
<1>2. ASSUME NEW a \in Accounts, NEW leaves \in TicketBatches, buy_tickets(a, leaves)
      PROVE  TypeOK'
  <2>1. leaves \in Seq(TicketSecrets) /\ Len(leaves) \in Nat
    BY BatchType
  <2>2. tickets' \in Seq(TicketSecrets)
    BY <1>2, <2>1 DEF buy_tickets
  <2>3. known_ticket_roots' \in SUBSET Nat
    <3>1. Len(tickets) \in Nat
      OBVIOUS
    <3>2. roots_taken(Len(leaves)) \subseteq Nat
      BY <2>1, <3>1 DEF roots_taken
    <3> QED
      BY <1>2, <3>2 DEF buy_tickets
  <2>4. balance' \in Int
    <3>1. \A n \in Nat : ticket_price * n \in Int
      BY ConstructorAssumption
    <3> QED
      BY <1>2, <2>1, <3>1 DEF buy_tickets, price_of
  <2> QED
    BY <1>2, <2>2, <2>3, <2>4 DEF buy_tickets
<1>3. ASSUME NEW tx \in Txs, validate(tx)
      PROVE  TypeOK'
  BY <1>3, TxType DEF validate
<1>4. ASSUME pending # None, ChargeFee
      PROVE  balance' \in Int /\ fees' \in Nat /\ pending' \in Txs \cup {None}
  BY <1>4, TxType, PolicySum DEF ChargeFee
<1>5. ASSUME execute
      PROVE  TypeOK'
  <2>1. /\ balance' \in Int /\ fees' \in Nat /\ pending' \in Txs \cup {None}
        /\ pending \in Txs
    BY <1>4, <1>5 DEF execute
  <2>2. consumed_envelopes' \in SUBSET (Commitments \X Contents)
    BY <1>5, <2>1, TxType DEF execute
  <2>3. spent_nullifiers' \in SUBSET Nullifier
    BY <1>5, <2>1, TxType DEF execute
  <2>4. messages' \in Seq([call : SendCall, block : Nat])
    BY <1>5, <2>1, TxType DEF execute
  <2> QED
    BY <1>5, <2>1, <2>2, <2>3, <2>4 DEF execute
<1>6. ASSUME execute_revert
      PROVE  TypeOK'
  BY <1>4, <1>6 DEF execute_revert
<1>7. ASSUME NEW b \in Blocks, next_block(b)
      PROVE  TypeOK'
  BY <1>7, DomainAssumption DEF next_block
<1>8. CASE UNCHANGED vars
  BY <1>8 DEF vars
<1> QED
  BY <1>1, <1>2, <1>3, <1>5, <1>6, <1>7, <1>8 DEF Next

(* Every variable keeps its type in every reachable state.                  *)
THEOREM TypeCorrect == Spec => []TypeOK
  BY InitTypeOK, NextTypeOK, PTL DEF Spec

-----------------------------------------------------------------------------
(* Sequences and products *)

(* A sequence has no more elements than places. *)
LEMMA ElementsFinite ==
  ASSUME NEW S, NEW s \in Seq(S)
  PROVE  /\ IsFiniteSet(Elements(s))
         /\ Cardinality(Elements(s)) \in Nat
         /\ Cardinality(Elements(s)) <= Len(s)
<1> DEFINE f == [i \in 1..Len(s) |-> s[i]]
<1>1. f \in Surjection(1..Len(s), Elements(s))
  BY DEF Surjection, Elements
<1>2. /\ IsFiniteSet(1..Len(s)) /\ Cardinality(1..Len(s)) = Len(s)
  <2>1. Len(s) \in Nat /\ 1 \in Int
    OBVIOUS
  <2> QED
    BY <2>1, FS_Interval
<1>3. /\ IsFiniteSet(Elements(s))
      /\ Cardinality(Elements(s)) <= Cardinality(1..Len(s))
  BY <1>1, <1>2, FS_Surjection
<1> QED
  BY <1>2, <1>3, FS_CardinalityType

LEMMA ElementsConcat ==
  ASSUME NEW S, NEW s \in Seq(S), NEW t \in Seq(S)
  PROVE  Elements(s) \subseteq Elements(s \o t)
<1> SUFFICES ASSUME NEW i \in 1..Len(s)
             PROVE  \E j \in 1..Len(s \o t) : (s \o t)[j] = s[i]
  BY DEF Elements
<1>1. i \in 1..Len(s \o t) /\ (s \o t)[i] = s[i]
  BY ConcatProperties
<1> QED
  BY <1>1

(* Multiplication by a natural number, as the proofs of solvency use it.    *)
LEMMA Product ==
  ASSUME NEW p \in Nat, NEW a \in Nat, NEW b \in Nat
  PROVE  /\ p * a \in Nat
         /\ p * (a + b) = p * a + p * b
         /\ p * (a + 1) = p * a + p
         /\ a <= b => p * a <= p * b
  BY Z3

-----------------------------------------------------------------------------
(* What an admitted transaction stands on *)

(* A leaf proved under a root of the pool's own tree is in the tree.        *)
LEMMA OwnRoot ==
  ASSUME NEW leaves, NEW leaf, NEW root \in Nat, verify_proof(root, leaf, leaves)
  PROVE  \E i \in 1..Len(leaves) : leaves[i] = leaf
  BY DomainAssumption DEF verify_proof

LEMMA KnownRootIsOwn ==
  ASSUME TypeOK, NEW root, is_known_root(root)
  PROVE  root \in Nat
<1>1. CASE root = Len(members)
  BY <1>1 DEF TypeOK
<1>2. ASSUME NEW i \in 0..(ROOT_HISTORY_SIZE - 1), root_history[i] = root, root # Zero
      PROVE  root \in Nat
  <2>1. root_history[i] \in Nat \cup {Zero}
    BY DEF TypeOK
  <2> QED
    BY <1>2, <2>1
<1> QED
  BY <1>1, <1>2 DEF is_known_root

(* A transaction that passes validate uses a registered secret and a ticket *)
(* that was bought, and its fee fits the ticket.                            *)
LEMMA ValidatedIsEarned ==
  ASSUME TypeOK, NEW tx \in Txs, validate(tx)
  PROVE  /\ \E j \in 1..Len(members) : members[j].m = tx.call.nullifier.m
         /\ tx.call.ticket_nullifier \in Elements(tickets)
         /\ tx.call.nullifier.slot < quota
         /\ tx.call.nullifier.epoch = epoch_of(tx.facts.base_block_number)
         /\ sequencer_charge(tx.fee) \in 0..ticket_price
<1> DEFINE p == tx.facts.message_hash.payload
           e == epoch_of(tx.facts.base_block_number)
<1>1. admit(tx.call, tx.facts, round_block(block_number))
  BY DEF validate
<1>2. tx.facts.message_hash = expected_message(tx.call, e)
  BY <1>1 DEF admit, proves
<1>3. prove_send(p)
  BY <1>2 DEF validate, Attested, expected_message
<1>4. /\ p.nullifier = tx.call.nullifier /\ p.merkle_root = tx.call.merkle_root
      /\ p.ticket_root = tx.call.ticket_root
      /\ p.ticket_nullifier = tx.call.ticket_nullifier
      /\ p.epoch = e /\ p.quota = quota
  BY <1>2 DEF expected_message
<1>5. tx.call.merkle_root \in Nat
  BY <1>1, KnownRootIsOwn DEF admit
<1>6. \E j \in 1..Len(members) : members[j].m = tx.call.nullifier.m
  <2>1. PICK scan \in ScanKeys :
          verify_proof(tx.call.merkle_root, [scan |-> scan, m |-> tx.call.nullifier.m], members)
    BY <1>3, <1>4 DEF prove_send
  <2>2. \E j \in 1..Len(members) : members[j] = [scan |-> scan, m |-> tx.call.nullifier.m]
    BY <2>1, <1>5, OwnRoot
  <2> QED
    BY <2>2
<1>7. tx.call.ticket_root \in Nat
  BY <1>1 DEF admit, TypeOK
<1>8. tx.call.ticket_nullifier \in Elements(tickets)
  <2>1. verify_proof(tx.call.ticket_root, tx.call.ticket_nullifier, tickets)
    BY <1>3, <1>4 DEF prove_send
  <2> QED
    BY <2>1, <1>7, OwnRoot DEF Elements
<1>9. tx.call.nullifier.slot < quota /\ tx.call.nullifier.epoch = e
  BY <1>3, <1>4 DEF prove_send
<1>10. sequencer_charge(tx.fee) \in 0..ticket_price
  BY TxType, AcceptedFeeFitsTicket DEF validate
<1> QED
  BY <1>6, <1>8, <1>9, <1>10

-----------------------------------------------------------------------------
(* Solvency *)

(* The pool's books: what came in is what tickets cost, what went out is    *)
(* covered by burnt tickets, and a transaction being processed has a whole  *)
(* ticket of its own still unused.  Burnt tickets were bought.              *)
Reserved == IF pending = None THEN 0 ELSE ticket_price

Books ==
  /\ balance + fees = ticket_price * Len(tickets)
  /\ fees + Reserved <= ticket_price * Cardinality(spent_tickets)
  /\ spent_tickets \subseteq Elements(tickets)
  /\ pending # None => sequencer_charge(pending.fee) \in 0..ticket_price

LEMMA InitBooks == Init => Books
<1> SUFFICES ASSUME Init PROVE Books
  OBVIOUS
<1>1. ticket_price * 0 = 0
  BY ConstructorAssumption
<1>2. Len(tickets) = 0 /\ Cardinality(spent_tickets) = 0
  BY FS_EmptySet DEF Init
<1> QED
  BY <1>1, <1>2 DEF Init, Books, Reserved

(* Burnt tickets form a finite set, no larger than the number bought.       *)
LEMMA SpentFinite ==
  ASSUME TypeOK, Books
  PROVE  /\ IsFiniteSet(spent_tickets)
         /\ Cardinality(spent_tickets) \in Nat
         /\ Cardinality(spent_tickets) <= Len(tickets)
<1>1. /\ IsFiniteSet(Elements(tickets)) /\ Cardinality(Elements(tickets)) \in Nat
      /\ Cardinality(Elements(tickets)) <= Len(tickets) /\ Len(tickets) \in Nat
  BY ElementsFinite DEF TypeOK
<1>2. /\ IsFiniteSet(spent_tickets)
      /\ Cardinality(spent_tickets) <= Cardinality(Elements(tickets))
  BY <1>1, FS_Subset DEF Books
<1>3. Cardinality(spent_tickets) \in Nat
  BY <1>2, FS_CardinalityType
<1> QED
  BY <1>1, <1>2, <1>3

LEMMA NextBooks == TypeOK /\ Books /\ [Next]_vars => Books'
<1> SUFFICES ASSUME TypeOK, Books, [Next]_vars PROVE Books'
  OBVIOUS
<1> DEFINE S == Cardinality(spent_tickets)
<1>s. IsFiniteSet(spent_tickets) /\ S \in Nat /\ Len(tickets) \in Nat /\ ticket_price \in Nat
  BY SpentFinite, ConstructorAssumption DEF TypeOK
<1> USE DEF memberVars, ticketVars, messageVars
<1>1. ASSUME NEW a \in Accounts, NEW h \in Handles, NEW scan \in ScanKeys,
             NEW m \in MemberSecrets, register(a, h, scan, m)
      PROVE  Books'
  BY <1>1 DEF register, Books, Reserved
<1>2. ASSUME NEW a \in Accounts, NEW leaves \in TicketBatches, buy_tickets(a, leaves)
      PROVE  Books'
  <2>1. leaves \in Seq(TicketSecrets) /\ Len(leaves) \in Nat
    BY BatchType
  <2>2. Len(tickets') = Len(tickets) + Len(leaves) /\ Elements(tickets) \subseteq Elements(tickets')
    BY <1>2, <2>1, ConcatProperties, ElementsConcat DEF buy_tickets, TypeOK
  <2>3. ticket_price * Len(tickets') = ticket_price * Len(tickets) + ticket_price * Len(leaves)
    BY <1>s, <2>1, <2>2, Product
  <2>4. balance' + fees' = ticket_price * Len(tickets')
    <3>1. balance' = balance + ticket_price * Len(leaves) /\ fees' = fees
      BY <1>2 DEF buy_tickets, price_of
    <3>2. balance \in Int /\ fees \in Int /\ ticket_price * Len(leaves) \in Int
      BY <1>s, <2>1, Product DEF TypeOK
    <3> QED
      BY <3>1, <3>2, <2>3 DEF Books
  <2>5. pending' = pending /\ spent_tickets' = spent_tickets /\ fees' = fees
    BY <1>2 DEF buy_tickets
  <2> QED
    BY <2>2, <2>4, <2>5 DEF Books, Reserved
<1>3. ASSUME NEW tx \in Txs, validate(tx)
      PROVE  Books'
  <2>1. /\ tx.call.ticket_nullifier \in Elements(tickets)
        /\ sequencer_charge(tx.fee) \in 0..ticket_price
    BY <1>3, ValidatedIsEarned
  <2>2. /\ pending = None /\ tx.call.ticket_nullifier \notin spent_tickets
        /\ spent_tickets' = spent_tickets \cup {tx.call.ticket_nullifier}
        /\ pending' = tx /\ tx # None
        /\ UNCHANGED <<balance, fees, tickets>>
    BY <1>3, TxType DEF validate
  <2>3. Cardinality(spent_tickets') = S + 1
    BY <1>s, <2>2, FS_AddElement
  <2>4. ticket_price * (S + 1) = ticket_price * S + ticket_price
    BY <1>s, Product
  <2>5. fees + ticket_price <= ticket_price * (S + 1)
    <3>1. fees <= ticket_price * S /\ fees \in Int /\ ticket_price * S \in Int
      BY <1>s, <2>2, Product DEF Books, Reserved, TypeOK
    <3> QED
      BY <3>1, <2>4, <1>s
  <2> QED
    BY <2>1, <2>2, <2>3, <2>5 DEF Books, Reserved
<1>4. ASSUME pending # None, ChargeFee,
             UNCHANGED <<tickets, spent_tickets>>
      PROVE  Books'
  <2>1. PICK fee \in 0..sequencer_charge(pending.fee) :
          balance' = balance - fee /\ fees' = fees + fee
    BY <1>4 DEF ChargeFee
  <2>2. fee \in 0..ticket_price /\ pending' = None
    BY <1>4, <2>1, <1>s DEF Books, ChargeFee
  <2>3. balance \in Int /\ fees \in Nat /\ ticket_price * S \in Nat /\ ticket_price * Len(tickets) \in Nat
    BY <1>s, Product DEF TypeOK
  <2>4. fees + ticket_price <= ticket_price * S
    BY <1>4 DEF Books, Reserved
  <2>5. balance' + fees' = ticket_price * Len(tickets) /\ fees' <= ticket_price * S
    BY <2>1, <2>2, <2>3, <2>4, <1>s DEF Books
  <2> QED
    BY <1>4, <2>1, <2>2, <2>3, <2>5 DEF Books, Reserved
<1>5. ASSUME execute
      PROVE  Books'
  BY <1>4, <1>5 DEF execute
<1>6. ASSUME execute_revert
      PROVE  Books'
  BY <1>4, <1>6 DEF execute_revert
<1>7. ASSUME NEW b \in Blocks, next_block(b)
      PROVE  Books'
  BY <1>7 DEF next_block, Books, Reserved
<1>8. CASE UNCHANGED vars
  BY <1>8 DEF vars, Books, Reserved
<1> QED
  BY <1>1, <1>2, <1>3, <1>5, <1>6, <1>7, <1>8 DEF Next

LEMMA BooksHold == Spec => [](TypeOK /\ Books)
  BY InitTypeOK, InitBooks, NextTypeOK, NextBooks, PTL DEF Spec

(* Fees charged never exceed what the burnt tickets paid in, and no more    *)
(* tickets are burnt than were bought, whatever fees senders bid and        *)
(* whichever executes revert.                                               *)
THEOREM FeesAreCovered == Spec => []FeesCoveredByTickets
<1>1. ASSUME TypeOK, Books PROVE FeesCoveredByTickets
  <2>1. /\ Cardinality(spent_tickets) \in Nat
        /\ Cardinality(spent_tickets) <= Len(tickets)
    BY <1>1, SpentFinite
  <2>2. ticket_price * Cardinality(spent_tickets) \in Nat
    BY <2>1, ConstructorAssumption, Product
  <2>3. fees \in Nat /\ Reserved \in Nat
    BY <1>1, ConstructorAssumption DEF TypeOK, Reserved
  <2> QED
    BY <1>1, <2>1, <2>2, <2>3 DEF Books, FeesCoveredByTickets
<1> QED
  BY <1>1, BooksHold, PTL

(* The pool can always pay: its balance holds the full price of every       *)
(* unspent ticket and the worst fee of the transaction being processed.     *)
THEOREM PoolIsSolvent == Spec => []UnspentTicketsBacked
<1>1. ASSUME TypeOK, Books PROVE UnspentTicketsBacked
  <2> DEFINE E == Elements(tickets)
             S == Cardinality(spent_tickets)
             U == Cardinality(E \ spent_tickets)
             owed == IF pending = None THEN 0 ELSE sequencer_charge(pending.fee)
  <2>1. /\ IsFiniteSet(spent_tickets) /\ S \in Nat
        /\ IsFiniteSet(E) /\ Cardinality(E) <= Len(tickets) /\ Cardinality(E) \in Nat
        /\ Len(tickets) \in Nat /\ ticket_price \in Nat
    BY <1>1, SpentFinite, ElementsFinite, ConstructorAssumption DEF TypeOK
  <2>2. IsFiniteSet(E \ spent_tickets) /\ U \in Nat
    BY <2>1, FS_Subset, FS_CardinalityType
  <2>3. S + U <= Len(tickets)
    <3>1. /\ (E \ spent_tickets) \cup spent_tickets = E
          /\ (E \ spent_tickets) \cap spent_tickets = {}
      BY <1>1 DEF Books
    <3>2. Cardinality((E \ spent_tickets) \cup spent_tickets)
            = U + S - Cardinality((E \ spent_tickets) \cap spent_tickets)
      BY <2>1, <2>2, FS_Union
    <3>3. Cardinality(E) = U + S - Cardinality({})
      BY <3>1, <3>2
    <3> QED
      BY <2>1, <2>2, <3>3, FS_EmptySet
  <2>4. /\ ticket_price * S + ticket_price * U <= ticket_price * Len(tickets)
        /\ ticket_price * S \in Nat /\ ticket_price * U \in Nat
        /\ ticket_price * Len(tickets) \in Nat
    <3>1. S + U \in Nat
      BY <2>1, <2>2
    <3>2. ticket_price * (S + U) <= ticket_price * Len(tickets)
      BY <2>1, <2>3, <3>1, Product
    <3> QED
      BY <2>1, <2>2, <3>2, Product
  <2>5. owed \in Nat /\ owed <= Reserved /\ Reserved \in Nat
    BY <1>1, <2>1 DEF Books, Reserved
  <2>6. balance >= ticket_price * U + owed
    <3>1. balance \in Int /\ fees \in Nat
      BY <1>1 DEF TypeOK
    <3>2. balance = ticket_price * Len(tickets) - fees
      BY <1>1, <2>4, <3>1 DEF Books
    <3>3. fees + Reserved <= ticket_price * S
      BY <1>1 DEF Books
    <3> HIDE DEF owed, S, U, E
    <3> QED
      BY <2>4, <2>5, <3>1, <3>2, <3>3
  <2> QED
    BY <2>6 DEF UnspentTicketsBacked
<1> QED
  BY <1>1, BooksHold, PTL

-----------------------------------------------------------------------------
(* A validated transaction does not revert *)

(* Checks made before the ticket is burnt and on the rounded block number   *)
(* are the checks execute makes afterwards on the exact one.                *)
LEMMA NextValidated == TypeOK /\ ValidatedNeverReverts /\ [Next]_vars => ValidatedNeverReverts'
<1> SUFFICES ASSUME TypeOK, ValidatedNeverReverts, [Next]_vars
             PROVE  ValidatedNeverReverts'
  OBVIOUS
<1>1. ASSUME NEW a \in Accounts, NEW h \in Handles, NEW scan \in ScanKeys,
             NEW m \in MemberSecrets, register(a, h, scan, m)
      PROVE  ValidatedNeverReverts'
  BY <1>1 DEF register, ValidatedNeverReverts
<1>2. ASSUME NEW a \in Accounts, NEW leaves \in TicketBatches, buy_tickets(a, leaves)
      PROVE  ValidatedNeverReverts'
  BY <1>2 DEF buy_tickets, ValidatedNeverReverts
<1>3. ASSUME NEW tx \in Txs, validate(tx)
      PROVE  ValidatedNeverReverts'
  <2> DEFINE e == epoch_of(tx.facts.base_block_number)
  <2>1. e \in Nat
    BY TxType, EpochType
  <2>2. admit(tx.call, tx.facts, block_number)
    BY <1>3, <2>1, FreshnessIgnoresRounding DEF validate, admit, TypeOK
  <2>3. admit(tx.call, tx.facts, block_number)'
    BY <1>3, <2>2 DEF validate, memberVars, ticketVars, messageVars, admit,
       not_replayed, is_known_root, proves
  <2>4. SendMessageOK(tx)'
    BY <1>3, <2>3 DEF validate, SendMessageOK, is_bucket_len
  <2>5. pending' = tx
    BY <1>3 DEF validate
  <2> QED
    BY <2>4, <2>5 DEF ValidatedNeverReverts
<1>4. CASE execute \/ execute_revert
  BY <1>4 DEF execute, execute_revert, ChargeFee, ValidatedNeverReverts
<1>5. ASSUME NEW b \in Blocks, next_block(b)
      PROVE  ValidatedNeverReverts'
  BY <1>5 DEF next_block, ValidatedNeverReverts
<1>6. CASE UNCHANGED vars
  BY <1>6 DEF vars, memberVars, ticketVars, messageVars, ValidatedNeverReverts,
     SendMessageOK, admit, not_replayed, is_known_root, proves
<1> QED
  BY <1>1, <1>2, <1>3, <1>4, <1>5, <1>6 DEF Next

(* pool.cairo's claim "whatever passes __validate__ does not revert in      *)
(* __execute__", for every transaction anyone can construct.                *)
THEOREM ValidatedSendsLand == Spec => []ValidatedNeverReverts
<1>1. Init => ValidatedNeverReverts
  BY DEF Init, ValidatedNeverReverts
<1> QED
  BY <1>1, InitTypeOK, NextTypeOK, NextValidated, PTL DEF Spec

-----------------------------------------------------------------------------
(* Nothing is published twice, and only by members *)

(* Each published message left its marks: its envelope and nullifier are    *)
(* consumed and its ticket is burnt; the pending transaction's ticket is    *)
(* nobody else's.  The secrets behind both are registered.                  *)
IsMember(call) == \E j \in 1..Len(members) : members[j].m = call.nullifier.m

Recorded ==
  /\ \A i \in 1..Len(messages) :
       /\ envelope_key(messages[i].call) \in consumed_envelopes
       /\ messages[i].call.nullifier \in spent_nullifiers
       /\ messages[i].call.ticket_nullifier \in spent_tickets
       /\ IsMember(messages[i].call)
  /\ pending # None =>
       /\ IsMember(pending.call)
       /\ pending.call.ticket_nullifier \in spent_tickets
       /\ \A i \in 1..Len(messages) :
            messages[i].call.ticket_nullifier # pending.call.ticket_nullifier

LEMMA MemberStays ==
  ASSUME TypeOK, NEW leaf, members' = Append(members, leaf), NEW call, IsMember(call)
  PROVE  IsMember(call)'
<1>1. PICK j \in 1..Len(members) : members[j].m = call.nullifier.m
  BY DEF IsMember
<1>2. j \in 1..Len(members') /\ members'[j] = members[j]
  BY <1>1 DEF TypeOK
<1> QED
  BY <1>1, <1>2 DEF IsMember

LEMMA NextRecorded ==
  TypeOK /\ Recorded /\ NoReplay /\ [Next]_vars => Recorded' /\ NoReplay'
<1> SUFFICES ASSUME TypeOK, Recorded, NoReplay, [Next]_vars
             PROVE  Recorded' /\ NoReplay'
  OBVIOUS
<1> USE DEF memberVars, ticketVars, messageVars, envelope_key
<1>1. ASSUME NEW a \in Accounts, NEW h \in Handles, NEW scan \in ScanKeys,
             NEW m \in MemberSecrets, register(a, h, scan, m)
      PROVE  Recorded' /\ NoReplay'
  <2>1. members' = Append(members, [scan |-> scan, m |-> m])
        /\ UNCHANGED <<messageVars, spent_tickets, pending>>
    BY <1>1 DEF register
  <2>2. \A call : IsMember(call) => IsMember(call)'
    BY <2>1, MemberStays
  <2>3. \A i \in 1..Len(messages) : IsMember(messages[i].call) => IsMember(messages[i].call)'
    BY <2>1, <2>2 DEF IsMember
  <2>4. pending # None => (IsMember(pending.call) => IsMember(pending.call)')
    BY <2>1, <2>2 DEF IsMember
  <2> QED
    BY <2>1, <2>3, <2>4 DEF Recorded, NoReplay
<1>2. ASSUME NEW a \in Accounts, NEW leaves \in TicketBatches, buy_tickets(a, leaves)
      PROVE  Recorded' /\ NoReplay'
  BY ZenonT(60), <1>2 DEF buy_tickets, Recorded, NoReplay, IsMember
<1>3. ASSUME NEW tx \in Txs, validate(tx)
      PROVE  Recorded' /\ NoReplay'
  <2>1. /\ tx.call.ticket_nullifier \notin spent_tickets
        /\ spent_tickets' = spent_tickets \cup {tx.call.ticket_nullifier}
        /\ pending' = tx
        /\ UNCHANGED <<memberVars, messageVars>>
    BY <1>3 DEF validate
  <2>2. IsMember(tx.call)
    BY <1>3, ValidatedIsEarned DEF IsMember
  <2> QED
    BY ZenonT(60), <2>1, <2>2 DEF Recorded, NoReplay, IsMember
<1>4. ASSUME execute
      PROVE  Recorded' /\ NoReplay'
  <2> DEFINE new == [call |-> pending.call, block |-> block_number]
             n == Len(messages)
  <2>1. /\ pending # None /\ not_replayed(pending.call)
        /\ consumed_envelopes' = consumed_envelopes \cup {envelope_key(pending.call)}
        /\ spent_nullifiers' = spent_nullifiers \cup {pending.call.nullifier}
        /\ messages' = Append(messages, new)
        /\ pending' = None
        /\ UNCHANGED <<members, spent_tickets>>
    BY <1>4 DEF execute, SendMessageOK, admit, ChargeFee
  <2>2. /\ n \in Nat /\ Len(messages') = n + 1
        /\ \A i \in 1..n : messages'[i] = messages[i]
        /\ messages'[n + 1] = new
    BY <2>1 DEF TypeOK
  <2>3. Recorded'
    <3> SUFFICES ASSUME NEW i \in 1..(n + 1)
                 PROVE  /\ envelope_key(messages'[i].call) \in consumed_envelopes'
                        /\ messages'[i].call.nullifier \in spent_nullifiers'
                        /\ messages'[i].call.ticket_nullifier \in spent_tickets'
                        /\ IsMember(messages[i].call)'
      BY <2>1, <2>2 DEF Recorded
    <3>1. CASE i = n + 1
      BY <3>1, <2>1, <2>2 DEF Recorded, IsMember
    <3>2. CASE i \in 1..n
      BY <3>2, <2>1, <2>2 DEF Recorded, IsMember
    <3> QED
      BY <3>1, <3>2, <2>2
  <2>4. ASSUME NEW i \in 1..n
        PROVE  /\ envelope_key(messages[i].call) # envelope_key(pending.call)
               /\ messages[i].call.nullifier # pending.call.nullifier
               /\ messages[i].call.ticket_nullifier # pending.call.ticket_nullifier
    BY <2>1 DEF Recorded, not_replayed
  <2>5. NoReplay'
    <3> SUFFICES ASSUME NEW i \in 1..(n + 1), NEW j \in 1..(n + 1), i # j
                 PROVE  /\ envelope_key(messages'[i].call) # envelope_key(messages'[j].call)
                        /\ messages'[i].call.nullifier # messages'[j].call.nullifier
                        /\ messages'[i].call.ticket_nullifier # messages'[j].call.ticket_nullifier
      BY <2>2 DEF NoReplay
    <3>1. CASE i \in 1..n /\ j \in 1..n
      BY <3>1, <2>2 DEF NoReplay
    <3>2. CASE i = n + 1 /\ j \in 1..n
      BY <3>2, <2>2, <2>4
    <3>3. CASE i \in 1..n /\ j = n + 1
      BY <3>3, <2>2, <2>4
    <3> QED
      BY <3>1, <3>2, <3>3, <2>2
  <2> QED
    BY <2>3, <2>5
<1>5. ASSUME execute_revert
      PROVE  Recorded' /\ NoReplay'
  BY <1>5 DEF execute_revert, ChargeFee, Recorded, NoReplay, IsMember
<1>6. ASSUME NEW b \in Blocks, next_block(b)
      PROVE  Recorded' /\ NoReplay'
  BY <1>6 DEF next_block, Recorded, NoReplay, IsMember
<1>7. CASE UNCHANGED vars
  BY <1>7 DEF vars, Recorded, NoReplay, IsMember
<1> QED
  BY <1>1, <1>2, <1>3, <1>4, <1>5, <1>6, <1>7 DEF Next

LEMMA RecordedHolds == Spec => [](TypeOK /\ Recorded /\ NoReplay)
<1>1. Init => Recorded /\ NoReplay
  BY DEF Init, Recorded, NoReplay
<1> QED
  BY <1>1, InitTypeOK, NextTypeOK, NextRecorded, PTL DEF Spec

(* No two published messages share an envelope, a member nullifier or a     *)
(* ticket, whatever is replayed, altered or resubmitted.                    *)
THEOREM NothingPublishedTwice == Spec => []NoReplay
  BY RecordedHolds, PTL

(* Every published message comes from a registered secret and burnt a       *)
(* ticket that somebody bought.                                             *)
THEOREM OnlyMembersPublish == Spec => []PublishedByMembers
<1>1. Recorded /\ Books => PublishedByMembers
  BY DEF Recorded, Books, PublishedByMembers, IsMember
<1> QED
  BY <1>1, RecordedHolds, BooksHold, PTL

-----------------------------------------------------------------------------
(* The rate limit *)

(* Of every published message, and of the one being processed: its slot is  *)
(* within the pool's quota, and its epoch is the proof's own, which was     *)
(* fresh when it was published.                                             *)
InWindow(epoch, block) ==
  epoch <= epoch_of(block) /\ epoch_of(block) <= epoch + max_epoch_lag

Slotted ==
  /\ \A i \in 1..Len(messages) :
       /\ messages[i].call.nullifier.slot < quota
       /\ InWindow(messages[i].call.nullifier.epoch, messages[i].block)
  /\ pending # None =>
       /\ pending.call.nullifier.slot < quota
       /\ pending.call.nullifier.epoch = epoch_of(pending.facts.base_block_number)

LEMMA NextSlotted == TypeOK /\ Slotted /\ [Next]_vars => Slotted'
<1> SUFFICES ASSUME TypeOK, Slotted, [Next]_vars PROVE Slotted'
  OBVIOUS
<1> USE DEF memberVars, ticketVars, messageVars
<1>1. ASSUME NEW tx \in Txs, validate(tx)
      PROVE  Slotted'
  <2>1. pending' = tx /\ messages' = messages
    BY <1>1 DEF validate
  <2> QED
    BY <1>1, <2>1, ValidatedIsEarned DEF Slotted
<1>2. ASSUME execute
      PROVE  Slotted'
  <2> DEFINE new == [call |-> pending.call, block |-> block_number]
             n == Len(messages)
  <2>1. /\ pending # None /\ pending' = None
        /\ epoch_is_fresh(epoch_of(pending.facts.base_block_number), block_number)
        /\ messages' = Append(messages, new)
    BY <1>2 DEF execute, SendMessageOK, admit, ChargeFee
  <2>2. /\ pending \in Txs /\ block_number \in Nat
        /\ epoch_of(pending.facts.base_block_number) \in Nat
    BY <2>1, TxType, EpochType DEF TypeOK
  <2>3. /\ pending.call.nullifier.slot < quota
        /\ InWindow(pending.call.nullifier.epoch, block_number)
    BY <2>1, <2>2, FreshWindow DEF Slotted, InWindow
  <2>4. /\ n \in Nat /\ Len(messages') = n + 1
        /\ \A i \in 1..n : messages'[i] = messages[i]
        /\ messages'[n + 1] = new
    BY <2>1 DEF TypeOK
  <2>5. ASSUME NEW i \in 1..(n + 1)
        PROVE  /\ messages'[i].call.nullifier.slot < quota
               /\ InWindow(messages'[i].call.nullifier.epoch, messages'[i].block)
    <3>1. CASE i = n + 1
      BY <3>1, <2>3, <2>4
    <3>2. CASE i \in 1..n
      BY <3>2, <2>4 DEF Slotted
    <3> QED
      BY <3>1, <3>2, <2>4
  <2> QED
    BY <2>1, <2>4, <2>5 DEF Slotted, InWindow
<1>3. ASSUME execute_revert
      PROVE  Slotted'
  BY <1>3 DEF execute_revert, ChargeFee, Slotted
<1>4. ASSUME UNCHANGED <<messages, pending>>
      PROVE  Slotted'
  BY <1>4 DEF Slotted
<1> QED
  BY <1>1, <1>2, <1>3, <1>4 DEF Next, vars, register, buy_tickets, next_block

LEMMA MessageType ==
  ASSUME TypeOK, NEW i \in 1..Len(messages)
  PROVE  messages[i].block \in Nat /\ messages[i].call.nullifier \in Nullifier
<1> DEFINE M == [call : SendCall, block : Nat]
<1>1. messages \in Seq(M)
  BY DEF TypeOK
<1> HIDE DEF M
<1>2. messages[i] \in M
  BY <1>1
<1> QED
  BY <1>2 DEF M, SendCall

(* A product of two intervals has as many elements as the numbers say.      *)
LEMMA GridSize ==
  ASSUME NEW lo \in Nat, NEW w \in Nat, NEW q \in Nat \ {0}
  PROVE  LET grid == (lo..(lo + w)) \X (0..(q - 1))
         IN  IsFiniteSet(grid) /\ Cardinality(grid) = (w + 1) * q
<1>1. /\ IsFiniteSet(lo..(lo + w)) /\ Cardinality(lo..(lo + w)) = w + 1
  BY FS_Interval
<1>2. /\ IsFiniteSet(0..(q - 1)) /\ Cardinality(0..(q - 1)) = q
  BY FS_Interval
<1> QED
  BY ZenonT(60), <1>1, <1>2, FS_Product

(* A set that is mapped one to one into a finite one is no larger.          *)
LEMMA NoMore ==
  ASSUME NEW S, NEW T, NEW f \in [S -> T], IsFiniteSet(T),
         \A i, j \in S : f[i] = f[j] => i = j
  PROVE  IsFiniteSet(S) /\ Cardinality(S) <= Cardinality(T)
<1>1. f \in Injection(S, T)
  BY DEF Injection, IsInjective
<1> QED
  BY <1>1, FS_Injection

(* Whatever a member claims for its proofs: while the chain is in one       *)
(* epoch, at most quota messages per admissible epoch are published of it.  *)
(* Each message has a nullifier of its own, and a member's nullifiers of    *)
(* one window of epochs are a grid of epochs and slots.                     *)
THEOREM MembersAreLimited == Spec => []RateLimited
<1>1. ASSUME TypeOK, NoReplay, Slotted
      PROVE  RateLimited
  <2> SUFFICES ASSUME NEW m \in MemberSecrets, NEW k \in 1..Len(messages)
               PROVE  Cardinality(SentInEpoch(m, epoch_of(messages[k].block)))
                        <= quota * (max_epoch_lag + 1)
    BY DEF RateLimited
  <2> DEFINE e == epoch_of(messages[k].block)
             lo == IF e > max_epoch_lag THEN e - max_epoch_lag ELSE 0
             w == e - lo
             grid == (lo..(lo + w)) \X (0..(quota - 1))
             S == SentInEpoch(m, e)
             f == [i \in S |-> <<messages[i].call.nullifier.epoch, messages[i].call.nullifier.slot>>]
  <2>1. /\ quota \in Nat \ {0} /\ max_epoch_lag \in Nat
    BY ConstructorAssumption
  <2>2. /\ e \in Nat /\ lo \in Nat /\ w \in Nat /\ w <= max_epoch_lag
        /\ \A x \in Nat : x <= e /\ e <= x + max_epoch_lag => x \in lo..(lo + w)
    <3> HIDE DEF S, grid, f
    <3>1. messages[k].block \in Nat
      BY <1>1, MessageType
    <3>2. e \in Nat
      BY <3>1, EpochType
    <3> HIDE DEF e
    <3> QED
      BY <2>1, <3>2
  <2>3. ASSUME NEW i \in S
        PROVE  /\ i \in 1..Len(messages)
               /\ messages[i].call.nullifier \in Nullifier
               /\ messages[i].call.nullifier.m = m
               /\ messages[i].call.nullifier.epoch \in lo..(lo + w)
               /\ messages[i].call.nullifier.slot \in 0..(quota - 1)
    <3>1. i \in 1..Len(messages) /\ messages[i].call.nullifier.m = m
          /\ epoch_of(messages[i].block) = e
      BY DEF SentInEpoch
    <3>2. messages[i].call.nullifier \in Nullifier
      BY <1>1, <3>1, MessageType
    <3>3. /\ messages[i].call.nullifier.epoch \in Nat
          /\ messages[i].call.nullifier.slot \in Nat
      BY <3>2 DEF Nullifier
    <3>4. /\ messages[i].call.nullifier.slot < quota
          /\ InWindow(messages[i].call.nullifier.epoch, messages[i].block)
      BY <1>1, <3>1 DEF Slotted
    <3> HIDE DEF e, lo, w
    <3>5. messages[i].call.nullifier.epoch \in lo..(lo + w)
      BY <3>1, <3>3, <3>4, <2>2 DEF InWindow
    <3>6. messages[i].call.nullifier.slot \in 0..(quota - 1)
      BY <3>3, <3>4, <2>1
    <3> QED
      BY <3>1, <3>2, <3>5, <3>6
  <2>4. f \in [S -> grid]
    BY <2>3
  <2>5. ASSUME NEW i \in S, NEW j \in S, f[i] = f[j]
        PROVE  i = j
    <3>1. /\ messages[i].call.nullifier \in Nullifier
          /\ messages[j].call.nullifier \in Nullifier
          /\ messages[i].call.nullifier.m = messages[j].call.nullifier.m
          /\ messages[i].call.nullifier.epoch = messages[j].call.nullifier.epoch
          /\ messages[i].call.nullifier.slot = messages[j].call.nullifier.slot
      BY <2>3, <2>5
    <3>2. messages[i].call.nullifier = messages[j].call.nullifier
      BY SMTT(30), <3>1 DEF Nullifier
    <3> QED
      BY <1>1, <2>3, <3>2 DEF NoReplay
  <2>6. IsFiniteSet(grid) /\ Cardinality(grid) = (w + 1) * quota
    <3> HIDE DEF lo, w
    <3> QED
      BY <2>1, <2>2, GridSize
  <2>7. IsFiniteSet(S) /\ Cardinality(S) <= Cardinality(grid)
    <3> HIDE DEF S, grid, f
    <3> QED
      BY <2>4, <2>5, <2>6, NoMore
  <2>8. (w + 1) * quota <= quota * (max_epoch_lag + 1) /\ (w + 1) * quota \in Nat
        /\ quota * (max_epoch_lag + 1) \in Nat
    <3>1. /\ (w + 1) * quota = quota * (w + 1)
          /\ quota * (w + 1) <= quota * (max_epoch_lag + 1)
          /\ quota * (w + 1) \in Nat /\ quota * (max_epoch_lag + 1) \in Nat
      <4> HIDE DEF w
      <4>1. w + 1 \in Nat /\ max_epoch_lag + 1 \in Nat /\ w + 1 <= max_epoch_lag + 1
        BY <2>1, <2>2
      <4>2. (w + 1) * quota = quota * (w + 1)
        BY <2>1, <4>1, Z3
      <4> QED
        BY <2>1, <4>1, <4>2, Product
    <3> QED
      BY <3>1
  <2>9. Cardinality(S) \in Nat
    BY <2>7, FS_CardinalityType
  <2> QED
    <3> HIDE DEF S, grid, w, e
    <3>1. Cardinality(S) <= quota * (max_epoch_lag + 1)
      BY <2>6, <2>7, <2>8, <2>9
    <3> QED
      BY <3>1 DEF S, e
<1>2. Init => Slotted
  BY DEF Init, Slotted
<1> QED
  BY <1>1, <1>2, InitTypeOK, NextTypeOK, NextSlotted, RecordedHolds, PTL DEF Spec

-----------------------------------------------------------------------------
(* The directory *)

(* The owner of a leaf is registered, and a registered caller's leaf index  *)
(* is inside the tree, so that the next one is nobody's.                    *)
Directory ==
  /\ DirectoryConsistent
  /\ \A a \in Accounts : IsRegistered(a) => users[a].leaf_index < Len(members)

LEMMA RegisterKeepsDirectory ==
  ASSUME TypeOK, Directory, NEW a \in Accounts, NEW h \in Handles,
         NEW scan \in ScanKeys, NEW m \in MemberSecrets, register(a, h, scan, m)
  PROVE  Directory'
<1> DEFINE n == Len(members)
           new == [scan |-> scan, m |-> m, leaf_index |-> n]
<1>1. /\ ~IsRegistered(a) /\ handles[h] = Zero /\ new # NoUser
      /\ users' = [users EXCEPT ![a] = new]
      /\ handles' = [handles EXCEPT ![h] = a]
      /\ members' = Append(members, [scan |-> scan, m |-> m])
  BY DEF register, IsFree, NoUser
<1>2. /\ users'[a] = new /\ \A b \in Accounts \ {a} : users'[b] = users[b]
      /\ handles'[h] = a /\ \A g \in Handles \ {h} : handles'[g] = handles[g]
  BY <1>1 DEF TypeOK
<1>3. /\ n \in Nat /\ Len(members') = n + 1
      /\ \A i \in 1..n : members'[i] = members[i]
      /\ members'[n + 1] = [scan |-> scan, m |-> m]
  BY <1>1 DEF TypeOK
<1>4. \A b \in Accounts : users[b].leaf_index \in Nat
  BY DEF TypeOK, MemberRecord
<1>5. a # Zero /\ \A g \in Handles : handles[g] \in Accounts \cup {Zero}
  BY DomainAssumption DEF TypeOK
(* Whoever owns a handle was registered before, so is not the caller.       *)
<1>6. ASSUME NEW g \in Handles, handles[g] # Zero
      PROVE  /\ g # h /\ handles[g] \in Accounts /\ handles[g] # a
             /\ handles'[g] = handles[g]
             /\ users'[handles[g]] = users[handles[g]]
             /\ users[handles[g]].leaf_index < n
             /\ users[handles[g]] # NoUser
  <2>1. handles[g] \in Accounts
    BY <1>5, <1>6
  <2>2. IsRegistered(handles[g]) /\ users[handles[g]].leaf_index < n
    BY <1>6 DEF Directory, DirectoryConsistent, get_user
  <2>3. g # h /\ handles[g] # a
    BY <1>1, <1>6, <2>2
  <2>4. handles'[g] = handles[g] /\ users'[handles[g]] = users[handles[g]]
    BY <1>2, <2>1, <2>3
  <2> QED
    BY <2>1, <2>2, <2>3, <2>4 DEF IsRegistered
<1>7. ASSUME NEW g \in Handles, handles'[g] # Zero
      PROVE  /\ users'[handles'[g]] # NoUser
             /\ users'[handles'[g]].leaf_index < n + 1
             /\ members'[users'[handles'[g]].leaf_index + 1]
                  = [scan |-> users'[handles'[g]].scan, m |-> users'[handles'[g]].m]
  <2>1. CASE g = h
    <3>1. users'[handles'[g]] = new
      BY <2>1, <1>2
    <3> QED
      BY <3>1, <1>1, <1>3
  <2>2. CASE g # h
    <3>1. handles[g] # Zero /\ handles'[g] = handles[g]
      BY <2>2, <1>2, <1>7
    <3> DEFINE u == users[handles[g]]
    <3>2. /\ u # NoUser /\ u.leaf_index < n /\ u.leaf_index \in Nat
          /\ users'[handles'[g]] = u
      BY <3>1, <1>4, <1>6
    <3>3. members[u.leaf_index + 1] = [scan |-> u.scan, m |-> u.m]
      BY <3>1 DEF Directory, DirectoryConsistent, get_user
    <3> HIDE DEF u
    <3>4. u.leaf_index + 1 \in 1..n /\ u.leaf_index < n + 1
      BY <3>2, <1>3
    <3> QED
      BY <3>2, <3>3, <3>4, <1>3
  <2> QED
    BY <2>1, <2>2
<1>8. ASSUME NEW g \in Handles, NEW f \in Handles, g # f, handles'[g] # Zero
      PROVE  handles'[g] # handles'[f]
  <2>1. CASE g = h
    <3>1. handles'[g] = a /\ handles'[f] = handles[f]
      BY <2>1, <1>2, <1>8
    <3> QED
      BY <3>1, <1>5, <1>6
  <2>2. CASE f = h
    <3>1. handles'[f] = a /\ handles'[g] = handles[g]
      BY <2>2, <1>2, <1>8
    <3> QED
      BY <3>1, <1>6, <1>8
  <2>3. CASE g # h /\ f # h
    BY <2>3, <1>2, <1>8 DEF Directory, DirectoryConsistent
  <2> QED
    BY <2>1, <2>2, <2>3
<1>9. ASSUME NEW b \in Accounts, users'[b] # NoUser
      PROVE  /\ b = a => users'[b].leaf_index = n
             /\ b # a => users'[b] = users[b] /\ users[b].leaf_index < n
  BY <1>2, <1>9 DEF Directory, IsRegistered
<1>10. ASSUME NEW b \in Accounts, NEW c \in Accounts, b # c,
              users'[b] # NoUser, users'[c] # NoUser
       PROVE  users'[b].leaf_index # users'[c].leaf_index
  <2>1. CASE b # a /\ c # a
    BY <2>1, <1>9, <1>10 DEF Directory, DirectoryConsistent, IsRegistered
  <2>2. CASE b = a \/ c = a
    BY <2>2, <1>3, <1>4, <1>9, <1>10
  <2> QED
    BY <2>1, <2>2
<1>11. ASSUME NEW j \in 1..(n + 1)
       PROVE  \E g \in Handles : handles'[g] # Zero /\ users'[handles'[g]].leaf_index = j - 1
  <2>1. CASE j = n + 1
    BY <2>1, <1>2, <1>3, <1>5
  <2>2. CASE j \in 1..n
    <3>1. PICK g \in Handles : handles[g] # Zero /\ users[handles[g]].leaf_index = j - 1
      BY <2>2 DEF Directory, DirectoryConsistent, get_user
    <3> QED
      BY <3>1, <1>6
  <2> QED
    BY <2>1, <2>2, <1>3
<1>12. \A b \in Accounts : users'[b] # NoUser => users'[b].leaf_index < n + 1
  BY <1>3, <1>4, <1>9
<1>13. DirectoryConsistent'
  BY <1>3, <1>7, <1>8, <1>10, <1>11 DEF DirectoryConsistent, get_user, IsRegistered
<1> QED
  BY <1>3, <1>12, <1>13 DEF Directory, IsRegistered

LEMMA NextDirectory == TypeOK /\ Directory /\ [Next]_vars => Directory'
<1> SUFFICES ASSUME TypeOK, Directory, [Next]_vars PROVE Directory'
  OBVIOUS
<1>1. ASSUME NEW a \in Accounts, NEW h \in Handles, NEW scan \in ScanKeys,
             NEW m \in MemberSecrets, register(a, h, scan, m)
      PROVE  Directory'
  BY <1>1, RegisterKeepsDirectory
<1>2. ASSUME UNCHANGED <<users, handles, members>>
      PROVE  Directory'
  BY <1>2 DEF Directory, DirectoryConsistent, get_user, IsRegistered
<1> QED
  BY <1>1, <1>2 DEF Next, vars, memberVars, buy_tickets, validate, execute,
     execute_revert, next_block

(* For every handle get_user finds its one owner and the place of exactly   *)
(* that owner's keys in the tree, and every leaf has an owner: the five     *)
(* maps that register writes never come apart.                              *)
THEOREM DirectoryAgrees == Spec => []DirectoryConsistent
<1>1. Init => Directory
  BY DEF Init, Directory, DirectoryConsistent, IsRegistered, get_user
<1>2. Directory => DirectoryConsistent
  BY DEF Directory
<1> QED
  BY <1>1, <1>2, InitTypeOK, NextTypeOK, NextDirectory, PTL DEF Spec

-----------------------------------------------------------------------------
(* The window of roots *)

LEMMA ModUnique ==
  ASSUME NEW n \in Nat, NEW d \in Nat \ {0}, NEW q \in Nat, NEW r \in Nat,
         n = d * q + r, r < d
  PROVE  n % d = r
<1>1. n \div d = q
  BY DivUnique
<1>2. n = d * (n \div d) + (n % d) /\ n % d \in Nat
  BY DivMod
<1>3. d * q \in Nat
  BY Product
<1> QED
  BY <1>1, <1>2, <1>3

(* Numbers less than d apart have different remainders.                     *)
LEMMA ModApart ==
  ASSUME NEW a \in Nat, NEW d \in Nat \ {0}, NEW k \in 1..(d - 1)
  PROVE  (a + k) % d # a % d
<1> DEFINE q == a \div d
           r == a % d
<1>1. q \in Nat /\ r \in Nat /\ a = d * q + r /\ r < d /\ d * q \in Nat
  BY DivMod, Product
<1>2. d * (q + 1) = d * q + d
  BY <1>1, Product
<1> HIDE DEF q, r
<1>3. CASE r + k < d
  <2>1. a + k = d * q + (r + k) /\ r + k \in Nat /\ a + k \in Nat
    BY <1>1
  <2>2. (a + k) % d = r + k
    BY <1>1, <1>3, <2>1, ModUnique
  <2> QED
    BY <1>1, <2>2 DEF r
<1>4. CASE r + k >= d
  <2>1. /\ a + k = d * (q + 1) + (r + k - d) /\ r + k - d \in Nat /\ r + k - d < d
        /\ a + k \in Nat /\ q + 1 \in Nat
    BY <1>1, <1>2, <1>4
  <2>2. (a + k) % d = r + k - d
    BY <2>1, ModUnique
  <2> QED
    BY <1>1, <2>2 DEF r
<1> QED
  BY <1>1, <1>3, <1>4

(* Numbers d apart have the same remainder.                                 *)
LEMMA ModPeriod ==
  ASSUME NEW a \in Nat, NEW d \in Nat \ {0}
  PROVE  (a + d) % d = a % d
<1> DEFINE q == a \div d
           r == a % d
<1>1. q \in Nat /\ r \in Nat /\ a = d * q + r /\ r < d /\ d * q \in Nat
  BY DivMod, Product
<1>2. d * (q + 1) = d * q + d /\ q + 1 \in Nat
  BY <1>1, Product
<1> HIDE DEF q, r
<1>3. a + d = d * (q + 1) + r /\ a + d \in Nat
  BY <1>1, <1>2
<1>4. (a + d) % d = r
  BY <1>1, <1>2, <1>3, ModUnique
<1> QED
  BY <1>4 DEF r

(* Remainders of a number and of its successor.                             *)
LEMMA NextMod ==
  ASSUME NEW n \in Nat, NEW d \in Nat \ {0}
  PROVE  (n + 1) % d = ((n % d) + 1) % d
<1> DEFINE q == n \div d
           r == n % d
<1>1. q \in Nat /\ r \in Nat /\ n = d * q + r /\ r < d
  BY DivMod
<1> HIDE DEF q, r
<1>2. CASE r + 1 < d
  <2>1. n + 1 = d * q + (r + 1) /\ r + 1 \in Nat /\ d * q \in Nat
    BY <1>1, Z3
  <2>2. (n + 1) % d = r + 1
    BY <1>1, <1>2, <2>1, ModUnique
  <2>3. r + 1 = d * 0 + (r + 1)
    BY <1>1, Z3
  <2>4. (r + 1) % d = r + 1
    BY <1>1, <1>2, <2>3, ModUnique
  <2> QED
    BY <2>2, <2>4 DEF r
<1>3. CASE r + 1 = d
  <2>1. n + 1 = d * (q + 1) + 0 /\ d = d * 1 + 0
    BY <1>1, <1>3, Z3
  <2>2. (n + 1) % d = 0
    BY <1>1, <2>1, ModUnique
  <2>3. d % d = 0
    BY <2>1, ModUnique
  <2> QED
    BY <1>3, <2>2, <2>3 DEF r
<1> QED
  BY <1>1, <1>2, <1>3

(* Every slot of the ring holds the root of its own turn, and every root    *)
(* young enough is in the slot of its turn.                                 *)
Turn(r) == (r - 1) % ROOT_HISTORY_SIZE

Ring ==
  /\ root_history_index = Len(members) % ROOT_HISTORY_SIZE
  /\ \A i \in 0..(ROOT_HISTORY_SIZE - 1) : root_history[i] # Zero =>
       /\ root_history[i] \in 1..Len(members)
       /\ root_history[i] + ROOT_HISTORY_SIZE > Len(members)
       /\ i = Turn(root_history[i])
  /\ \A r \in 1..Len(members) :
       r + ROOT_HISTORY_SIZE > Len(members) => root_history[Turn(r)] = r
  /\ known_ticket_roots = 1..Len(tickets)

LEMMA RegisterKeepsRing ==
  ASSUME TypeOK, Ring, NEW a \in Accounts, NEW h \in Handles,
         NEW scan \in ScanKeys, NEW m \in MemberSecrets, register(a, h, scan, m)
  PROVE  Ring'
<1> DEFINE n == Len(members)
           R == ROOT_HISTORY_SIZE
           x == root_history_index
<1>1. /\ R \in Nat \ {0} /\ n \in Nat /\ Zero \notin Nat
  BY DomainAssumption DEF TypeOK
<1>2. /\ Len(members') = n + 1
      /\ root_history' = [root_history EXCEPT ![x] = n + 1]
      /\ root_history_index' = (x + 1) % R
      /\ UNCHANGED <<tickets, known_ticket_roots>>
  BY DEF register, next_index, ticketVars, TypeOK
<1>3. /\ x = n % R /\ x \in 0..(R - 1)
      /\ root_history'[x] = n + 1
      /\ \A i \in 0..(R - 1) : i # x => root_history'[i] = root_history[i]
  BY <1>2 DEF Ring, TypeOK
<1>4. Turn(n + 1) = x
  <2>1. (n + 1) - 1 = n
    BY <1>1
  <2> QED
    BY <1>3, <2>1 DEF Turn
<1>5. root_history_index' = (n + 1) % R
  BY <1>1, <1>2, <1>3, NextMod
(* The slot that is overwritten held the one root that is now too old.      *)
<1>6. ASSUME NEW r \in 1..n, r + R > n
      PROVE  Turn(r) = x <=> r + R = n + 1
  <2>1. CASE r + R = n + 1
    <3>1. (r - 1) + R = n /\ r - 1 \in Nat
      BY <1>1, <2>1
    <3>2. (r - 1) % R = n % R
      BY <1>1, <3>1, ModPeriod
    <3> QED
      BY <1>3, <2>1, <3>2 DEF Turn
  <2>2. CASE r + R # n + 1
    <3> DEFINE k == n - (r - 1)
    <3>1. k \in 1..(R - 1) /\ r - 1 \in Nat /\ (r - 1) + k = n
      BY <1>1, <1>6, <2>2
    <3> HIDE DEF k
    <3>2. n % R # (r - 1) % R
      BY <1>1, <3>1, ModApart
    <3> QED
      BY <1>3, <2>2, <3>2 DEF Turn
  <2> QED
    BY <2>1, <2>2
<1>7. ASSUME NEW i \in 0..(R - 1), root_history'[i] # Zero
      PROVE  /\ root_history'[i] \in 1..(n + 1)
             /\ root_history'[i] + R > n + 1
             /\ i = Turn(root_history'[i])
  <2>1. CASE i = x
    BY <1>1, <1>3, <1>4, <2>1
  <2>2. CASE i # x
    <3> DEFINE v == root_history[i]
    <3>1. v \in 1..n /\ v + R > n /\ i = Turn(v) /\ root_history'[i] = v
      BY <1>3, <1>7, <2>2 DEF Ring
    <3> HIDE DEF v
    <3>2. v + R # n + 1
      BY <1>6, <2>2, <3>1
    <3> QED
      BY <1>1, <3>1, <3>2
  <2> QED
    BY <2>1, <2>2
<1>8. ASSUME NEW r \in 1..(n + 1), r + R > n + 1
      PROVE  root_history'[Turn(r)] = r
  <2>1. CASE r = n + 1
    BY <1>3, <1>4, <2>1
  <2>2. CASE r \in 1..n
    <3>1. r + R > n /\ r + R # n + 1
      BY <1>1, <1>8, <2>2
    <3>2. Turn(r) # x /\ root_history[Turn(r)] = r
      BY <1>6, <2>2, <3>1 DEF Ring
    <3>3. r - 1 \in Nat
      BY <2>2
    <3>4. Turn(r) \in 0..(R - 1)
      BY <1>1, <3>3, DivMod DEF Turn
    <3> QED
      BY <1>3, <3>2, <3>4
  <2> QED
    BY <1>1, <2>1, <2>2
<1>9. known_ticket_roots' = 1..Len(tickets')
  BY <1>2 DEF Ring
<1> QED
  BY <1>2, <1>5, <1>7, <1>8, <1>9 DEF Ring, Turn

LEMMA NextRing == TypeOK /\ Ring /\ [Next]_vars => Ring'
<1> SUFFICES ASSUME TypeOK, Ring, [Next]_vars PROVE Ring'
  OBVIOUS
<1>1. ASSUME NEW a \in Accounts, NEW h \in Handles, NEW scan \in ScanKeys,
             NEW m \in MemberSecrets, register(a, h, scan, m)
      PROVE  Ring'
  BY <1>1, RegisterKeepsRing
<1>2. ASSUME NEW a \in Accounts, NEW leaves \in TicketBatches, buy_tickets(a, leaves)
      PROVE  Ring'
  <2>1. /\ Len(leaves) \in Nat /\ Len(tickets) \in Nat /\ leaves \in Seq(TicketSecrets)
    BY BatchType DEF TypeOK
  <2>2. Len(tickets') = Len(tickets) + Len(leaves)
    BY <1>2, <2>1, ConcatProperties DEF buy_tickets, TypeOK
  <2>3. known_ticket_roots' = 1..Len(tickets')
    BY <1>2, <2>1, <2>2 DEF buy_tickets, roots_taken, Ring
  <2> QED
    BY <1>2, <2>3 DEF buy_tickets, memberVars, Ring, Turn
<1>3. ASSUME UNCHANGED <<memberVars, ticketVars>>
      PROVE  Ring'
  BY <1>3 DEF memberVars, ticketVars, Ring, Turn
<1> QED
  BY <1>1, <1>2, <1>3 DEF Next, vars, validate, execute, execute_revert, next_block

(* The pool knows exactly the current member root and those of the last     *)
(* ROOT_HISTORY_SIZE registrations, however long it has run, and every root *)
(* the ticket tree ever had.                                                *)
THEOREM RootsAreKnown == Spec => []RootWindow
<1>1. Init => Ring
  <2>1. 0 % ROOT_HISTORY_SIZE = 0
    <3>1. ROOT_HISTORY_SIZE \in Nat \ {0} /\ 0 = ROOT_HISTORY_SIZE * 0 + 0
      BY DomainAssumption, Z3
    <3> QED
      BY <3>1, ModUnique
  <2> QED
    BY <2>1, DomainAssumption DEF Init, Ring
<1>2. ASSUME TypeOK, Ring
      PROVE  RootWindow
  <2>1. ASSUME NEW r \in 0..Len(members)
        PROVE  is_known_root(r) <=> \/ r = Len(members)
                                    \/ r > 0 /\ r > Len(members) - ROOT_HISTORY_SIZE
    <3> DEFINE R == ROOT_HISTORY_SIZE
               n == Len(members)
    <3>1. R \in Nat \ {0} /\ n \in Nat /\ r \in Nat /\ r # Zero
      BY <1>2, DomainAssumption DEF TypeOK
    <3>2. ASSUME NEW i \in 0..(R - 1), root_history[i] = r
          PROVE  r > 0 /\ r > n - R
      BY <1>2, <3>1, <3>2 DEF Ring
    <3>3. ASSUME r > 0, r > n - R
          PROVE  \E i \in 0..(R - 1) : root_history[i] = r
      <4>1. r - 1 \in Nat /\ r + R > n /\ r \in 1..n
        BY <3>1, <3>3
      <4>2. Turn(r) \in 0..(R - 1)
        BY <3>1, <4>1, DivMod DEF Turn
      <4> QED
        BY <1>2, <4>1, <4>2 DEF Ring
    <3> QED
      BY <3>1, <3>2, <3>3 DEF is_known_root
  <2>2. known_ticket_roots = 1..Len(tickets)
    BY <1>2 DEF Ring
  <2> QED
    BY <2>1, <2>2 DEF RootWindow
<1> QED
  BY <1>1, <1>2, InitTypeOK, NextTypeOK, NextRing, PTL DEF Spec

-----------------------------------------------------------------------------
(* The pool implements the board: every step of the pool is a step of the   *)
(* board, or changes nothing on it                                          *)

Inv == TypeOK /\ Books /\ Recorded /\ NoReplay /\ Slotted

LEMMA InvHolds == Spec => []Inv
<1>1. Init => Slotted
  BY DEF Init, Slotted
<1>2. Spec => []Slotted
  BY <1>1, InitTypeOK, NextTypeOK, NextSlotted, PTL DEF Spec
<1> QED
  BY <1>2, BooksHold, RecordedHolds, PTL DEF Inv

-----------------------------------------------------------------------------
(* What a call the pool admits is on the board *)

LEMMA PostType ==
  ASSUME NEW tx \in Txs,
         tx.call.nullifier.epoch = epoch_of(tx.facts.base_block_number)
  PROVE  PostOf(tx.call) \in Board!Post /\ PostOf(tx.call) # None
<1>1. /\ tx.call.nullifier.m \in MemberSecrets
      /\ tx.call.nullifier.epoch \in Nat
      /\ tx.call.nullifier.epoch \in PoolEpochs
      /\ envelope_key(tx.call) \in Commitments \X Contents
      /\ tx.call.ticket_nullifier \in TicketSecrets
  BY TxType DEF Nullifier, PoolEpochs
<1>2. PostOf(tx.call) \in Board!Post
  BY <1>1 DEF PostOf, Board!Post
<1>3. PostOf(tx.call) # None
  BY <1>1, BoardAssumption DEF PostOf
<1> QED
  BY <1>2, <1>3

(* The messages of a member for an epoch hold different slots below the     *)
(* quota; if one slot is free there are fewer messages than the quota.      *)
LEMMA QuotaLeft ==
  ASSUME Inv, NEW call \in SendCall, call.nullifier.slot < quota,
         call.nullifier \notin spent_nullifiers
  PROVE  Cardinality(Board!PostsFor(call.nullifier.m, call.nullifier.epoch)) < quota
<1> DEFINE m == call.nullifier.m
           e == call.nullifier.epoch
           I == {i \in 1..Len(messages) : /\ messages[i].call.nullifier.m = m
                                          /\ messages[i].call.nullifier.epoch = e}
           slots == (0..(quota - 1)) \ {call.nullifier.slot}
           P == Board!PostsFor(m, e)
           f == [i \in I |-> messages[i].call.nullifier.slot]
           g == [i \in I |-> PostOf(messages[i].call)]
<1>1. quota \in Nat \ {0} /\ call.nullifier \in Nullifier
      /\ call.nullifier.slot \in 0..(quota - 1)
  BY ConstructorAssumption DEF SendCall, Nullifier
<1>2. IsFiniteSet(slots) /\ Cardinality(slots) = quota - 1
  <2> DEFINE all == 0..(quota - 1)
  <2>1. IsFiniteSet(all) /\ Cardinality(all) = quota /\ call.nullifier.slot \in all
    BY <1>1, FS_Interval
  <2> HIDE DEF all
  <2>2. /\ IsFiniteSet(all \ {call.nullifier.slot})
        /\ Cardinality(all \ {call.nullifier.slot}) = Cardinality(all) - 1
    BY <2>1, FS_RemoveElement
  <2> QED
    BY <2>1, <2>2 DEF all
<1>3. ASSUME NEW i \in I
      PROVE  /\ messages[i].call.nullifier \in Nullifier
             /\ messages[i].call.nullifier # call.nullifier
             /\ messages[i].call.nullifier.slot \in slots
  <2>1. messages[i].call.nullifier \in Nullifier
    BY MessageType DEF Inv
  <2>2. /\ messages[i].call.nullifier # call.nullifier
        /\ messages[i].call.nullifier.slot < quota
    BY DEF Inv, Recorded, Slotted
  <2>3. messages[i].call.nullifier.slot # call.nullifier.slot
    BY <1>1, <2>1, <2>2 DEF Nullifier
  <2>4. messages[i].call.nullifier.slot \in Nat
    BY <2>1 DEF Nullifier
  <2> QED
    BY <1>1, <2>1, <2>2, <2>3, <2>4
<1>4. IsFiniteSet(I) /\ Cardinality(I) <= Cardinality(slots)
  <2>1. f \in [I -> slots]
    BY <1>3
  <2>2. ASSUME NEW i \in I, NEW j \in I, f[i] = f[j]
        PROVE  i = j
    <3>1. messages[i].call.nullifier = messages[j].call.nullifier
      BY <1>3, <2>2 DEF Nullifier
    <3> QED
      BY <3>1 DEF Inv, NoReplay
  <2> HIDE DEF I, slots, f
  <2> QED
    BY <1>2, <2>1, <2>2, NoMore
<1>5. g \in Surjection(I, P)
  <2>1. \A i \in I : PostOf(messages[i].call) \in P
    BY DEF Board!PostsFor, PostOf, Elements
  <2>2. ASSUME NEW p \in P
        PROVE  \E i \in I : PostOf(messages[i].call) = p
    <3>1. PICK i \in 1..Len(messages) : p = PostOf(messages[i].call)
      BY DEF Board!PostsFor, Elements
    <3>2. p.m = m /\ p.epoch = e
      BY DEF Board!PostsFor
    <3> QED
      BY <3>1, <3>2 DEF PostOf
  <2> HIDE DEF I, P
  <2> QED
    BY <2>1, <2>2 DEF Surjection
<1>6. Cardinality(P) <= Cardinality(I) /\ IsFiniteSet(P)
  <2> HIDE DEF I, P, g
  <2> QED
    BY <1>4, <1>5, FS_Surjection
<1>7. Cardinality(P) \in Nat /\ Cardinality(I) \in Nat
  BY <1>4, <1>6, FS_CardinalityType
<1> HIDE DEF P, I, slots
<1>8. Cardinality(P) < quota
  BY <1>1, <1>2, <1>4, <1>6, <1>7
<1> QED
  BY <1>8 DEF P, m, e

(* The board counts as the pool does. *)
LEMMA SameCount ==
  ASSUME NEW S
  PROVE  Board!Cardinality(S) = Cardinality(S)
  BY DEF Board!Cardinality, Cardinality

(* What the pool admits in its current block, the board allows.             *)
LEMMA AdmittedIsAllowed ==
  ASSUME Inv, NEW tx \in Txs, admit(tx.call, tx.facts, block_number),
         IsMember(tx.call),
         tx.call.nullifier.slot < quota,
         tx.call.nullifier.epoch = epoch_of(tx.facts.base_block_number)
  PROVE  Board!Allowed(PostOf(tx.call))
<1> DEFINE p == PostOf(tx.call)
<1>1. /\ p.m = tx.call.nullifier.m /\ p.epoch = tx.call.nullifier.epoch
      /\ p.envelope = envelope_key(tx.call)
  BY DEF PostOf
<1>2. p.m \in {leaf.m : leaf \in Elements(members)}
  BY <1>1 DEF IsMember, Elements
<1>3. p.epoch <= epoch_of(block_number) /\ epoch_of(block_number) <= p.epoch + max_epoch_lag
  BY <1>1, TxType, EpochType, FreshWindow DEF admit, Inv, TypeOK
<1>4. Cardinality(Board!PostsFor(p.m, p.epoch)) < quota
  BY <1>1, TxType, QuotaLeft DEF admit, not_replayed
<1>5. \A q \in {PostOf(e.call) : e \in Elements(messages)} : q.envelope # p.envelope
  BY <1>1 DEF admit, not_replayed, Inv, Recorded, Elements, PostOf
<1> HIDE DEF p
<1>6. Board!Allowed(p)
  BY <1>2, <1>3, <1>4, <1>5, SameCount DEF Board!Allowed
<1> QED
  BY <1>6 DEF p

-----------------------------------------------------------------------------
(* Sequences as sets *)

LEMMA ElementsAppend ==
  ASSUME NEW S, NEW s \in Seq(S), NEW x \in S
  PROVE  Elements(Append(s, x)) = Elements(s) \cup {x}
<1>1. /\ Len(Append(s, x)) = Len(s) + 1 /\ Len(s) \in Nat
      /\ Append(s, x)[Len(s) + 1] = x
      /\ \A i \in 1..Len(s) : Append(s, x)[i] = s[i]
  OBVIOUS
<1>2. 1..(Len(s) + 1) = 1..Len(s) \cup {Len(s) + 1}
  BY <1>1
<1> QED
  BY <1>1, <1>2, Zenon DEF Elements

LEMMA ElementsJoin ==
  ASSUME NEW S, NEW s \in Seq(S), NEW t \in Seq(S)
  PROVE  Elements(s \o t) = Elements(s) \cup Elements(t)
<1>1. Elements(s) \subseteq Elements(s \o t)
  BY ElementsConcat
<1>2. ASSUME NEW i \in 1..Len(t) PROVE t[i] \in Elements(s \o t)
  <2>1. Len(s) + i \in 1..Len(s \o t) /\ (s \o t)[Len(s) + i] = t[i]
    BY ConcatProperties
  <2> QED
    BY <2>1 DEF Elements
<1>3. ASSUME NEW k \in 1..Len(s \o t) PROVE (s \o t)[k] \in Elements(s) \cup Elements(t)
  <2>1. Len(s \o t) = Len(s) + Len(t) /\ Len(s) \in Nat /\ Len(t) \in Nat
    BY ConcatProperties
  <2>2. CASE k <= Len(s)
    <3>1. k \in 1..Len(s) /\ (s \o t)[k] = s[k]
      BY <2>1, <2>2, ConcatProperties
    <3> QED
      BY <3>1 DEF Elements
  <2>3. CASE k > Len(s)
    <3>1. k - Len(s) \in 1..Len(t) /\ (s \o t)[k] = t[k - Len(s)]
      BY <2>1, <2>3, ConcatProperties
    <3> QED
      BY <3>1 DEF Elements
  <2> QED
    BY <2>1, <2>2, <2>3
<1> QED
  BY <1>1, <1>2, <1>3, Zenon DEF Elements

(* A later block is in the same epoch or in a later one.                    *)
LEMMA EpochGrows ==
  ASSUME NEW a \in Nat, NEW b \in Nat, a < b
  PROVE  epoch_of(a) <= epoch_of(b) /\ epoch_of(a) \in Nat /\ epoch_of(b) \in Nat
<1> DEFINE d == epoch_blocks
           q == a \div d
           r == b \div d
<1>1. d \in Nat \ {0}
  BY ConstructorAssumption
<1>2. /\ q \in Nat /\ a = d * q + (a % d) /\ a % d \in 0..(d - 1) /\ d * q \in Nat
      /\ r \in Nat /\ b = d * r + (b % d) /\ b % d \in 0..(d - 1) /\ d * r \in Nat
  BY <1>1, DivMod, Product
<1>3. CASE q <= r
  BY <1>2, <1>3 DEF epoch_of
<1>4. CASE r + 1 <= q
  <2>1. d * (r + 1) = d * r + d /\ d * (r + 1) <= d * q /\ d * (r + 1) \in Nat
    <3> HIDE DEF q, r, d
    <3>1. r + 1 \in Nat
      BY <1>2
    <3> QED
      BY <1>1, <1>2, <1>4, <3>1, Product
  <2> HIDE DEF q, r, d
  <2>2. b < d * r + d
    BY <1>1, <1>2
  <2>3. FALSE
    BY <1>1, <1>2, <2>1, <2>2
  <2> QED
    BY <2>3
<1> HIDE DEF q, r
<1>5. q <= r \/ r + 1 <= q
  BY <1>2
<1> QED
  BY <1>3, <1>4, <1>5

-----------------------------------------------------------------------------
(* Steps *)

LEMMA BoardStep ==
  ASSUME Inv, Inv', [Next]_vars
  PROVE  [Board!BoardNext]_(Board!boardVars)
<1> USE DEF memberVars, ticketVars, messageVars
<1>1. ASSUME NEW a \in Accounts, NEW h \in Handles, NEW scan \in ScanKeys,
             NEW m \in MemberSecrets, register(a, h, scan, m)
      PROVE  Board!Join(m)
  <2>1. /\ members \in Seq(Leaf) /\ [scan |-> scan, m |-> m] \in Leaf
    BY DEF Inv, TypeOK, Leaf
  <2>2. Elements(members') = Elements(members) \cup {[scan |-> scan, m |-> m]}
    BY <1>1, <2>1, ElementsAppend DEF register
  <2>3. {leaf.m : leaf \in Elements(members')} = {leaf.m : leaf \in Elements(members)} \cup {m}
    <3> DEFINE new == [scan |-> scan, m |-> m]
    <3>1. new.m = m /\ Elements(members') = Elements(members) \cup {new}
      BY <2>2
    <3> HIDE DEF new
    <3> QED
      BY <3>1
  <2>4. UNCHANGED <<block_number, tickets, spent_tickets, messages, pending>> /\ pending = None
    BY <1>1 DEF register
  <2> QED
    BY <2>3, <2>4 DEF Board!Join
<1>2. ASSUME NEW a \in Accounts, NEW leaves \in TicketBatches, buy_tickets(a, leaves)
      PROVE  \E ts \in SUBSET TicketSecrets : Board!Sell(ts)
  <2>1. leaves \in Seq(TicketSecrets) /\ tickets \in Seq(TicketSecrets)
    BY BatchType DEF Inv, TypeOK
  <2>2. Elements(tickets') = Elements(tickets) \cup Elements(leaves)
    BY <1>2, <2>1, ElementsJoin DEF buy_tickets
  <2>3. Elements(leaves) \subseteq TicketSecrets
    BY <2>1 DEF Elements
  <2>4. UNCHANGED <<block_number, members, spent_tickets, messages, pending>> /\ pending = None
    BY <1>2 DEF buy_tickets
  <2>5. Board!Sell(Elements(leaves))
    BY <2>2, <2>4 DEF Board!Sell
  <2> QED
    BY <2>3, <2>5
<1>3. ASSUME NEW tx \in Txs, validate(tx)
      PROVE  \E p \in Board!Post : Board!Burn(p)
  <2>1. /\ pending = None /\ pending' = tx /\ tx # None
        /\ tx.call.ticket_nullifier \notin spent_tickets
        /\ spent_tickets' = spent_tickets \cup {tx.call.ticket_nullifier}
        /\ UNCHANGED <<block_number, members, tickets, messages>>
    BY <1>3, TxType DEF validate
  <2>2. /\ IsMember(tx.call) /\ tx.call.ticket_nullifier \in Elements(tickets)
        /\ tx.call.nullifier.slot < quota
        /\ tx.call.nullifier.epoch = epoch_of(tx.facts.base_block_number)
    BY <1>3, ValidatedIsEarned DEF Inv, IsMember
  <2>3. admit(tx.call, tx.facts, block_number)
    BY <1>3, TxType, EpochType, FreshnessIgnoresRounding DEF validate, admit, Inv, TypeOK
  <2>4. Board!Allowed(PostOf(tx.call))
    BY <2>2, <2>3, AdmittedIsAllowed
  <2>5. PostOf(tx.call) \in Board!Post /\ PostOf(tx.call).ticket = tx.call.ticket_nullifier
    BY <2>2, PostType DEF PostOf
  <2>6. Board!Burn(PostOf(tx.call))
    BY <2>1, <2>2, <2>4, <2>5 DEF Board!Burn
  <2> QED
    BY <2>5, <2>6
<1>4. ASSUME execute
      PROVE  Board!Land
  <2>1. /\ pending \in Txs /\ pending # None /\ pending' = None
        /\ admit(pending.call, pending.facts, block_number)
        /\ messages' = Append(messages, [call |-> pending.call, block |-> block_number])
        /\ UNCHANGED <<block_number, members, tickets, spent_tickets>>
    BY <1>4 DEF execute, SendMessageOK, ChargeFee, Inv, TypeOK
  <2>2. /\ IsMember(pending.call) /\ pending.call.nullifier.slot < quota
        /\ pending.call.nullifier.epoch = epoch_of(pending.facts.base_block_number)
    BY <2>1 DEF Inv, Recorded, Slotted
  <2>3. Board!Allowed(PostOf(pending.call))
    BY <2>1, <2>2, AdmittedIsAllowed
  <2>4. PostOf(pending.call) # None
    BY <2>1, <2>2, PostType
  <2>5. {PostOf(e.call) : e \in Elements(messages')}
          = {PostOf(e.call) : e \in Elements(messages)} \cup {PostOf(pending.call)}
    <3> DEFINE M == [call : SendCall, block : Nat]
               new == [call |-> pending.call, block |-> block_number]
    <3>1. messages \in Seq(M) /\ new \in M
      BY <2>1, TxType DEF Inv, TypeOK
    <3>2. new.call = pending.call /\ messages' = Append(messages, new)
      BY <2>1
    <3> HIDE DEF new, M
    <3>3. Elements(messages') = Elements(messages) \cup {new}
      BY <3>1, <3>2, ElementsAppend
    <3> QED
      BY <3>2, <3>3
  <2> QED
    BY <2>1, <2>3, <2>4, <2>5 DEF Board!Land
<1>5. ASSUME execute_revert
      PROVE  Board!Lose
  <2>1. /\ pending \in Txs /\ pending # None /\ pending' = None
        /\ UNCHANGED <<block_number, members, tickets, spent_tickets, messages>>
    BY <1>5 DEF execute_revert, ChargeFee, Inv, TypeOK
  <2>2. PostOf(pending.call) # None
    BY <2>1, PostType DEF Inv, Slotted
  <2> QED
    BY <2>1, <2>2 DEF Board!Lose
<1>6. ASSUME NEW b \in Blocks, next_block(b)
      PROVE  (\E e \in PoolEpochs : Board!Tick(e)) \/ UNCHANGED Board!boardVars
  <2>1. /\ pending = None /\ b > block_number /\ block_number' = b
        /\ b \in Nat /\ block_number \in Nat
        /\ UNCHANGED <<members, tickets, spent_tickets, messages, pending>>
    BY <1>6, DomainAssumption DEF next_block, Inv, TypeOK
  <2>2. /\ epoch_of(block_number) <= epoch_of(b)
        /\ epoch_of(block_number) \in Nat /\ epoch_of(b) \in Nat
    BY <2>1, EpochGrows
  <2>3. CASE epoch_of(b) = epoch_of(block_number)
    BY <2>1, <2>3 DEF Board!boardVars, epoch_of
  <2>4. CASE epoch_of(b) > epoch_of(block_number)
    <3>1. epoch_of(b) \in PoolEpochs
      BY DEF PoolEpochs
    <3>2. Board!Tick(epoch_of(b))
      BY <2>1, <2>4 DEF Board!Tick, epoch_of
    <3> QED
      BY <3>1, <3>2
  <2> QED
    BY <2>2, <2>3, <2>4
<1>7. CASE UNCHANGED vars
  BY <1>7 DEF vars, Board!boardVars, epoch_of
<1> QED
  BY <1>1, <1>2, <1>3, <1>4, <1>5, <1>6, <1>7 DEF Next, Board!BoardNext

(* The pool implements the board, in which there are no trees, proofs or    *)
(* fees: for every policy and every set of transactions, what happens to it *)
(* is members posting within their quota, each post with a ticket.          *)
THEOREM PoolImplementsBoard == Spec => ImplementsBoard
<1>1. Init => Board!BoardInit
  BY DEF Init, Board!BoardInit, PoolEpochs, Elements
<1> QED
  BY <1>1, InvHolds, BoardStep, PTL DEF Spec, ImplementsBoard, Board!BoardSpec
=============================================================================
