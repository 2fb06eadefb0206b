----------------------------- MODULE ZkmsgPoolV4 -----------------------------
(***************************************************************************)
(* The zkmsg v4 store, which is also the account every send is paid from    *)
(* (contracts/zkmsg_pool_v4), together with the two things around it that   *)
(* its safety argument is about: the statement a send proves (prover.cairo) *)
(* and the way the protocol runs a transaction of the account - validate,   *)
(* then execute, then the fee, all in one block, the validate's writes kept *)
(* when the execute reverts.                                                *)
(*                                                                          *)
(* Abstractions.                                                            *)
(*   - A hash is the tuple of what it hashes: two preimages collide only    *)
(*     when equal.  A nullifier is [m, epoch, slot], a ticket's leaf and    *)
(*     its nullifier are the ticket secret, a member leaf is [scan, m].     *)
(*   - Both trees are append-only with nonzero leaves, so a root is         *)
(*     determined by how many leaves it covers and is written as that       *)
(*     number.  A tree somebody builds off chain has the root ForeignRoot   *)
(*     and may hold any leaf.                                               *)
(*   - The ephemeral key, the key-encapsulation key and the content's bytes *)
(*     are not represented: no rule reads them.  A content is a member of   *)
(*     Contents; those of an accepted length are PaddedContents.            *)
(*   - The account's transaction nonce is left to the protocol: it can only *)
(*     remove behaviours.                                                   *)
(***************************************************************************)
EXTENDS PoolRules, Sequences, FiniteSets

CONSTANTS
  Accounts,        \* contracts that may call the store
  Pool,            \* the store's own address, one of them
  Handles, ScanKeys, MemberSecrets, TicketSecrets, Commitments, Contents,
  PaddedContents,  \* the contents whose length is one of the three buckets
  Zero,            \* the felt 0
  None,            \* no transaction is being processed
  ForeignRoot,     \* the root of a tree that is not the pool's
  ROOT_HISTORY_SIZE, MAX_LEAVES, MAX_TICKETS_PER_BUY,
  Blocks,          \* the block numbers at which the chain is observed
  Txs              \* the account transactions that anyone may submit

Root == Nat \cup {ForeignRoot}

Nullifier == [m : MemberSecrets, epoch : Nat, slot : Nat]

(* A decoded send_message call. *)
SendCall == [commitment : Commitments, content : Contents, merkle_root : Root,
             nullifier : Nullifier, ticket_root : Root,
             ticket_nullifier : TicketSecrets]

(* The message hash in the proof facts: who emitted the L2->L1 message and  *)
(* the payload that was hashed.                                             *)
Payload == [commitment : Commitments, content : Contents, merkle_root : Root,
            nullifier : Nullifier, epoch : Nat, quota : Nat,
            ticket_root : Root, ticket_nullifier : TicketSecrets]

MessageHash == [from : {"prover", "other"}, payload : Payload]

Facts == [base_block_number : Nat, message_hash : MessageHash]

(* An account transaction: its fee fields, whether its calldata decodes to  *)
(* exactly one send_message to the pool, that call, and its proof facts.    *)
Tx == [fee : FeeFields, decodes : BOOLEAN, call : SendCall, facts : Facts]

Leaf == [scan : ScanKeys, m : MemberSecrets]

ASSUME DomainAssumption ==
  /\ Pool \in Accounts
  /\ Zero \notin Accounts \cup Nat
  /\ None \notin Tx
  /\ ForeignRoot \notin Nat
  /\ PaddedContents \subseteq Contents
  /\ ROOT_HISTORY_SIZE \in Nat \ {0}
  /\ MAX_LEAVES \in Nat
  /\ MAX_TICKETS_PER_BUY \in Nat
  /\ Blocks \subseteq Nat
  /\ Txs \subseteq Tx

VARIABLES
  block_number,        \* the chain's current block
  \* members
  users,               \* registered callers: keys and leaf index
  handles,             \* handle -> owner, Zero if free
  members,             \* the leaves of the MEMBERS tree, in order
  root_history, root_history_index,
  \* tickets
  tickets,             \* the leaves of the TICKETS tree, in order
  known_ticket_roots, spent_tickets,
  \* messages
  consumed_envelopes, spent_nullifiers,
  messages,            \* MessageSent events; message_nonce is their number
  \* the protocol
  pending,             \* the transaction between its validate and execute
  balance,             \* STRK the pool holds
  fees                 \* STRK charged to the pool so far

memberVars  == <<users, handles, members, root_history, root_history_index>>
ticketVars  == <<tickets, known_ticket_roots>>
messageVars == <<consumed_envelopes, spent_nullifiers, messages>>
vars == <<block_number, memberVars, ticketVars, spent_tickets, messageVars,
          pending, balance, fees>>

-----------------------------------------------------------------------------
(* The statement prove_send proves *)

(* verify_proof: the leaf is under the root of some tree; a foreign tree    *)
(* holds whatever its builder put there.                                    *)
verify_proof(root, leaf, leaves) ==
  \/ root = ForeignRoot
  \/ root \in 1..Len(leaves) /\ \E i \in 1..root : leaves[i] = leaf

(* Mutant: the slot may also be equal to the quota. *)
prove_send_off_by_one(p) ==
  /\ p.nullifier.slot <= p.quota
  /\ p.nullifier.epoch = p.epoch
  /\ \E scan \in ScanKeys :
       verify_proof(p.merkle_root, [scan |-> scan, m |-> p.nullifier.m], members)
  /\ verify_proof(p.ticket_root, p.ticket_nullifier, tickets)

(* The payloads for which a witness exists now.  The epoch, the quota and   *)
(* the roots are public inputs of the statement and may be anything.        *)
prove_send(p) ==
  /\ p.nullifier.slot < p.quota
  /\ p.nullifier.epoch = p.epoch
  /\ \E scan \in ScanKeys :
       verify_proof(p.merkle_root, [scan |-> scan, m |-> p.nullifier.m], members)
  /\ verify_proof(p.ticket_root, p.ticket_nullifier, tickets)

(* Facts the OS attests: a real past block, and a message its emitter's     *)
(* code can emit.  Other contracts emit whatever they like.                 *)
Attested(facts) ==
  /\ facts.base_block_number <= block_number
  /\ facts.message_hash.from = "prover" => prove_send(facts.message_hash.payload)

-----------------------------------------------------------------------------
(* Admission *)

(* Mutant: the scan of the ring leaves out its last slot. *)
is_known_root_short(root) ==
  \/ root = Len(members)
  \/ \E i \in 0..(ROOT_HISTORY_SIZE - 2) : root_history[i] = root /\ root # Zero

(* root 0 is the empty tree's root here and not an empty slot of the ring,  *)
(* whose slots start as Zero.                                               *)
is_known_root(root) ==
  \/ root = Len(members)
  \/ \E i \in 0..(ROOT_HISTORY_SIZE - 1) : root_history[i] = root /\ root # Zero

is_bucket_len(content) == content \in PaddedContents

envelope_key(call) == <<call.commitment, call.content>>

(* What the pool expects the proven message to be, for the epoch it derives *)
(* and the quota it was built with.                                         *)
expected_message(call, epoch) ==
  [from |-> "prover",
   payload |-> [commitment |-> call.commitment, content |-> call.content,
                merkle_root |-> call.merkle_root, nullifier |-> call.nullifier,
                epoch |-> epoch, quota |-> quota,
                ticket_root |-> call.ticket_root,
                ticket_nullifier |-> call.ticket_nullifier]]

(* Mutants: only one half of the replay check. *)
not_replayed_envelope(call) == envelope_key(call) \notin consumed_envelopes
not_replayed_nullifier(call) == call.nullifier \notin spent_nullifiers

not_replayed(call) ==
  /\ envelope_key(call) \notin consumed_envelopes
  /\ call.nullifier \notin spent_nullifiers

(* Mutant: the payload is compared, not who emitted it. *)
proves_any_emitter(facts, call, epoch) ==
  facts.message_hash.payload = expected_message(call, epoch).payload

proves(facts, call, epoch) == facts.message_hash = expected_message(call, epoch)

admit(call, facts, now_block) ==
  LET epoch == epoch_of(facts.base_block_number)
  IN  /\ not_replayed(call)
      /\ is_known_root(call.merkle_root)
      /\ call.ticket_root \in known_ticket_roots
      /\ epoch_is_fresh(epoch, now_block)
      /\ proves(facts, call, epoch)

-----------------------------------------------------------------------------
(* Transactions from members' own accounts *)

(* What the pool tells of a handle that is taken. *)
get_user(handle) == users[handles[handle]]

NoUser == [scan |-> Zero, m |-> Zero, leaf_index |-> 0]

IsRegistered(a) == users[a] # NoUser

(* Mutant: a handle can be taken over. *)
IsFree_any(handle) == TRUE

IsFree(handle) == handles[handle] = Zero

(* Mutant: the ring's index is never wrapped. *)
next_index_unwrapped == root_history_index + 1

next_index == (root_history_index + 1) % ROOT_HISTORY_SIZE

register(caller, handle, scan, m) ==
  /\ pending = None
  /\ caller # Pool
  /\ ~IsRegistered(caller)
  /\ handle # Zero /\ scan # Zero /\ m # Zero
  /\ IsFree(handle)
  /\ Len(members) < MAX_LEAVES
  /\ users' = [users EXCEPT ![caller] =
                 [scan |-> scan, m |-> m, leaf_index |-> Len(members)]]
  /\ handles' = [handles EXCEPT ![handle] = caller]
  /\ members' = Append(members, [scan |-> scan, m |-> m])
  /\ root_history' = [root_history EXCEPT ![root_history_index] = Len(members) + 1]
  /\ root_history_index' = next_index
  /\ UNCHANGED <<block_number, ticketVars, spent_tickets, messageVars, pending,
                 balance, fees>>

(* The roots the ticket tree takes while n leaves are inserted one by one.  *)
roots_taken(n) == (Len(tickets) + 1)..(Len(tickets) + n)

(* Mutant: one price for the whole batch. *)
price_of_batch(n) == ticket_price

price_of(n) == ticket_price * n

(* The caller's transfer_from has succeeded; when it does not, or a leaf is *)
(* zero, or the tree fills up, the whole call reverts.                      *)
buy_tickets(caller, leaves) ==
  /\ pending = None
  /\ caller # Pool
  /\ Len(leaves) \in 1..MAX_TICKETS_PER_BUY
  /\ Len(tickets) + Len(leaves) <= MAX_LEAVES
  /\ \A i \in 1..Len(leaves) : leaves[i] # Zero
  /\ balance' = balance + price_of(Len(leaves))
  /\ tickets' = tickets \o leaves
  /\ known_ticket_roots' = known_ticket_roots \cup roots_taken(Len(leaves))
  /\ UNCHANGED <<block_number, memberVars, spent_tickets, messageVars, pending,
                 fees>>

-----------------------------------------------------------------------------
(* An account transaction *)

(* __validate__, on the rounded block number.  A transaction that fails it  *)
(* is not included and costs nothing.                                       *)
validate(tx) ==
  /\ pending = None
  /\ Attested(tx.facts)
  /\ check_fee_fields(tx.fee)
  /\ tx.decodes
  /\ is_bucket_len(tx.call.content)
  /\ tx.call.ticket_nullifier \notin spent_tickets
  /\ admit(tx.call, tx.facts, round_block(block_number))
  /\ spent_tickets' = spent_tickets \cup {tx.call.ticket_nullifier}
  /\ pending' = tx
  /\ UNCHANGED <<block_number, memberVars, ticketVars, messageVars, balance, fees>>

(* Mutant: execute, like validate, wants the ticket unspent. *)
SendMessageOK_unspent(tx) ==
  /\ is_bucket_len(tx.call.content)
  /\ tx.call.ticket_nullifier \notin spent_tickets
  /\ admit(tx.call, tx.facts, block_number)

(* send_message's own checks: what __execute__ needs so as not to revert.   *)
SendMessageOK(tx) ==
  /\ is_bucket_len(tx.call.content)
  /\ tx.call.ticket_nullifier \in spent_tickets
  /\ admit(tx.call, tx.facts, block_number)

(* The fee is for whatever was used, within the bounds the sender chose.    *)
ChargeFee ==
  /\ \E fee \in 0..sequencer_charge(pending.fee) :
       /\ balance' = balance - fee
       /\ fees' = fees + fee
  /\ pending' = None

(* __execute__ reaches send_message and its checks pass. *)
execute ==
  /\ pending # None
  /\ SendMessageOK(pending)
  /\ consumed_envelopes' = consumed_envelopes \cup {envelope_key(pending.call)}
  /\ spent_nullifiers' = spent_nullifiers \cup {pending.call.nullifier}
  /\ messages' = Append(messages, [call |-> pending.call, block |-> block_number])
  /\ ChargeFee
  /\ UNCHANGED <<block_number, memberVars, ticketVars, spent_tickets>>

(* __execute__ reverts: one of its checks failed, or it ran into a limit of *)
(* the protocol.  Only validate's writes stay, and the fee is charged.      *)
execute_revert ==
  /\ pending # None
  /\ ChargeFee
  /\ UNCHANGED <<block_number, memberVars, ticketVars, spent_tickets, messageVars>>

next_block(b) ==
  /\ pending = None
  /\ b > block_number
  /\ block_number' = b
  /\ UNCHANGED <<memberVars, ticketVars, spent_tickets, messageVars, pending,
                 balance, fees>>

-----------------------------------------------------------------------------
Init ==
  /\ block_number \in Blocks
  /\ users = [a \in Accounts |-> NoUser]
  /\ handles = [h \in Handles |-> Zero]
  /\ members = <<>>
  /\ root_history = [i \in 0..(ROOT_HISTORY_SIZE - 1) |-> Zero]
  /\ root_history_index = 0
  /\ tickets = <<>>
  /\ known_ticket_roots = {}
  /\ spent_tickets = {}
  /\ consumed_envelopes = {}
  /\ spent_nullifiers = {}
  /\ messages = <<>>
  /\ pending = None
  /\ balance = 0
  /\ fees = 0

(* TicketBatches: what one buy_tickets call may carry. *)
TicketBatches == UNION {[1..n -> TicketSecrets] : n \in 1..MAX_TICKETS_PER_BUY}

Next ==
  \/ \E a \in Accounts, h \in Handles, scan \in ScanKeys, m \in MemberSecrets :
       register(a, h, scan, m)
  \/ \E a \in Accounts, leaves \in TicketBatches : buy_tickets(a, leaves)
  \/ \E tx \in Txs : validate(tx)
  \/ execute
  \/ execute_revert
  \/ \E b \in Blocks : next_block(b)

Spec == Init /\ [][Next]_vars

-----------------------------------------------------------------------------
(* Properties *)

Elements(s) == {s[i] : i \in 1..Len(s)}

MemberRecord == [scan : ScanKeys \cup {Zero}, m : MemberSecrets \cup {Zero},
                 leaf_index : Nat]

(* Every variable has its type; the ring index stays inside the ring.       *)
TypeOK ==
  /\ block_number \in Nat
  /\ users \in [Accounts -> MemberRecord]
  /\ handles \in [Handles -> Accounts \cup {Zero}]
  /\ members \in Seq(Leaf)
  /\ root_history \in [0..(ROOT_HISTORY_SIZE - 1) -> Nat \cup {Zero}]
  /\ root_history_index \in 0..(ROOT_HISTORY_SIZE - 1)
  /\ tickets \in Seq(TicketSecrets)
  /\ known_ticket_roots \in SUBSET Nat
  /\ spent_tickets \in SUBSET TicketSecrets
  /\ consumed_envelopes \in SUBSET (Commitments \X Contents)
  /\ spent_nullifiers \in SUBSET Nullifier
  /\ messages \in Seq([call : SendCall, block : Nat])
  /\ pending \in Txs \cup {None}
  /\ balance \in Int
  /\ fees \in Nat

(* The chain of inequalities in pool.cairo's header: all fees charged so    *)
(* far are covered by tickets burnt, and no more tickets are burnt than     *)
(* were bought - also when executes revert and when a ticket leaf is bought *)
(* twice.                                                                   *)
FeesCoveredByTickets ==
  /\ fees <= ticket_price * Cardinality(spent_tickets)
  /\ Cardinality(spent_tickets) <= Len(tickets)

(* Every ticket still unspent is backed by its full price in the pool's     *)
(* balance, and a validated transaction can pay the worst fee its bounds    *)
(* allow on top of that: the pool never spends more than users paid in.     *)
UnspentTicketsBacked ==
  balance >= ticket_price * Cardinality(Elements(tickets) \ spent_tickets)
             + IF pending = None THEN 0 ELSE sequencer_charge(pending.fee)

(* Whatever passes __validate__ does not revert in send_message: validate   *)
(* has checked, on its rounded block number and before the ticket was       *)
(* burnt, everything execute checks again afterwards.                       *)
ValidatedNeverReverts == pending # None => SendMessageOK(pending)

(* Nothing is published twice: two messages never share an envelope, a      *)
(* member nullifier or a ticket.                                            *)
NoReplay ==
  \A i, j \in 1..Len(messages) : i # j =>
    /\ envelope_key(messages[i].call) # envelope_key(messages[j].call)
    /\ messages[i].call.nullifier # messages[j].call.nullifier
    /\ messages[i].call.ticket_nullifier # messages[j].call.ticket_nullifier

(* Every message was sent with a registered member's secret and paid with a *)
(* ticket that was bought, whatever roots, facts and claims came with it.   *)
PublishedByMembers ==
  \A i \in 1..Len(messages) :
    /\ \E j \in 1..Len(members) : members[j].m = messages[i].call.nullifier.m
    /\ messages[i].call.ticket_nullifier \in Elements(tickets) \cap spent_tickets

SentInEpoch(m, e) ==
  {i \in 1..Len(messages) : /\ messages[i].call.nullifier.m = m
                            /\ epoch_of(messages[i].block) = e}

(* The rate limit as a member of the public sees it: however a secret's     *)
(* owner picks epochs, slots and claimed quotas for its proofs, at most     *)
(* quota messages per admissible epoch of it are published while the chain  *)
(* is in one epoch.                                                         *)
RateLimited ==
  \A m \in MemberSecrets :
    \A e \in {epoch_of(messages[i].block) : i \in 1..Len(messages)} :
      Cardinality(SentInEpoch(m, e)) <= quota * (max_epoch_lag + 1)

(* The known member roots are exactly the current one and those of the last *)
(* ROOT_HISTORY_SIZE registrations: a proof is good for that many           *)
(* registrations and not for one more.  Every root the ticket tree ever had *)
(* stays acceptable, those in the middle of a batch included: a ticket      *)
(* never has to be proved again.                                            *)
RootWindow ==
  /\ \A r \in 0..Len(members) :
       is_known_root(r) <=> \/ r = Len(members)
                            \/ r > 0 /\ r > Len(members) - ROOT_HISTORY_SIZE
  /\ known_ticket_roots = 1..Len(tickets)

(* get_user finds for every handle its one owner, with the leaf index of    *)
(* exactly that owner's keys; no two owners share a leaf or a handle, and   *)
(* every leaf of the tree is some registered owner's.                       *)
DirectoryConsistent ==
  /\ \A h \in Handles : handles[h] # Zero =>
       LET u == get_user(h)
       IN  /\ IsRegistered(handles[h])
           /\ u.leaf_index < Len(members)
           /\ members[u.leaf_index + 1] = [scan |-> u.scan, m |-> u.m]
  /\ \A g, h \in Handles : g # h /\ handles[g] # Zero => handles[g] # handles[h]
  /\ \A a, b \in Accounts :
       a # b /\ IsRegistered(a) /\ IsRegistered(b) =>
         users[a].leaf_index # users[b].leaf_index
  /\ \A j \in 1..Len(members) :
       \E h \in Handles : handles[h] # Zero /\ get_user(h).leaf_index = j - 1
=============================================================================
