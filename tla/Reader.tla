-------------------------------- MODULE Reader --------------------------------
(***************************************************************************)
(* How the client reads the pool: every read is the same for every client, *)
(* so nothing asks the node about a handle, a leaf or a ticket.  All       *)
(* events of a kind are paged, the Merkle trees are rebuilt locally        *)
(* (registry.rs, tickets.rs, tree.rs), compared with the roots the pool    *)
(* had at the same block, and the witness of a send comes from the rebuilt *)
(* trees (virtual_send.rs prepare, pinned_state).  Resolving a recipient   *)
(* and scanning the inbox page the same way, up to the latest block.       *)
(*                                                                         *)
(* The node is external: its event index may trail its state, the chain    *)
(* grows between two pages, a page's events come in any order, a request   *)
(* may fail, and the newest block may be replaced.  A block holds at most  *)
(* one event of the pool.  Felts are free terms: <<>> is the zero leaf,    *)
(* <<k>> the leaf of the keys or of the ticket k, <<l, r>> a Poseidon      *)
(* pair, so two roots are equal only if their trees are.                   *)
(***************************************************************************)
EXTENDS Naturals, Sequences, FiniteSets, SequencesExt, TLC

CONSTANTS
    TREE_DEPTH,     \* levels of both trees (20 in the code)
    CHUNK,          \* events in a page (100)
    BASE_MIN_AGE,   \* the least distance of a send's base block to the head (10)
    BASE_ROUND,     \* and what the base block is a multiple of (32)
    Me,             \* this profile's handle
    Handles,        \* every handle
    Starts,         \* the chains the exploration begins with
    MaxHead,        \* the longest chain explored
    Reorgs          \* how often the newest block is replaced

ASSUME ReaderAssumption ==
    /\ {TREE_DEPTH, CHUNK, BASE_MIN_AGE, BASE_ROUND} \subseteq Nat \ {0}
    /\ Me \in Handles /\ MaxHead \in Nat /\ Reorgs \in Nat

VARIABLES
    chain,      \* the pool's event of each block, [kind, who, what, n]
    index,      \* the same as the node's event index has it
    wallet,     \* this profile's one ticket: [state, index]
    task,       \* the read in progress
    out,        \* what the last one ended with
    reorgs      \* blocks replaced so far

vars == <<chain, index, wallet, task, out, reorgs>>

-----------------------------------------------------------------------------
(* The Merkle tree, tree.rs *)

hash_pair(l, r) == <<l, r>>

zeros == LET z[l \in 0..TREE_DEPTH] ==
                IF l = 0 THEN <<>> ELSE hash_pair(z[l - 1], z[l - 1])
         IN  z

new_tree == [nodes |-> <<>>, next_leaf |-> 0]

node(t, level, i) ==
    IF <<level, i>> \in DOMAIN t.nodes THEN t.nodes[<<level, i>>] ELSE zeros[level]

sibling(i) == IF i % 2 = 0 THEN i + 1 ELSE i - 1

\* One level up from the node at index i.
parent(i, current, sib) ==
    IF i % 2 = 0 THEN hash_pair(current, sib) ELSE hash_pair(sib, current)

insert(t, leaf) ==
    LET at(l) == t.next_leaf \div 2^l
        up[l \in 0..TREE_DEPTH] ==
            IF l = 0 THEN leaf
            ELSE parent(at(l - 1), up[l - 1], node(t, l - 1, sibling(at(l - 1))))
        walked == {<<l, at(l)>> : l \in 0..TREE_DEPTH}
    IN  [nodes |-> [p \in walked |-> up[p[1]]] @@ t.nodes,
         next_leaf |-> t.next_leaf + 1]

tree_root(t) == node(t, TREE_DEPTH, 0)

path(t, leaf_index) ==
    [l \in 1..TREE_DEPTH |-> node(t, l - 1, sibling(leaf_index \div 2^(l - 1)))]

fold_path(leaf, leaf_index, siblings) ==
    LET up[l \in 0..TREE_DEPTH] ==
            IF l = 0 THEN leaf
            ELSE parent(leaf_index \div 2^(l - 1), up[l - 1], siblings[l])
    IN  up[TREE_DEPTH]

tree_of(leaves) ==
    LET t[n \in 0..Len(leaves)] ==
            IF n = 0 THEN new_tree ELSE insert(t[n - 1], leaves[n])
    IN  t[Len(leaves)]

-----------------------------------------------------------------------------
(* The pool and the node *)

leaf_of(e) == <<e.what>>

\* The events of a kind in the first `block' blocks, in chain order.
events_in(blocks, kind, block) ==
    SelectSeq(SubSeq(blocks, 1, block), LAMBDA e : e.kind = kind)

\* The root of the pool's tree after a block: a full binary tree over the
\* leaves, not the walk `insert' makes.
store_root(kind, block) ==
    LET es == events_in(chain, kind, block)
        full[l \in 0..TREE_DEPTH, i \in 0..(2^TREE_DEPTH - 1)] ==
            IF l = 0 THEN IF i < Len(es) THEN leaf_of(es[i + 1]) ELSE <<>>
            ELSE <<full[l - 1, 2 * i], full[l - 1, 2 * i + 1]>>
    IN  full[TREE_DEPTH, 0]

\* What a block adds: a handle's registration under its owner's keys, a
\* ticket of this profile or of another, a message to this profile or a copy
\* of a message's commitment over other content; or nothing.
Ticks == {"mine", "theirs"}
Texts == {"first", "second"}
Events == {[kind |-> "reg", who |-> h, what |-> h] : h \in Handles}
          \cup [kind : {"ticket"}, who : {"-"}, what : Ticks]
          \cup [kind : {"msg"}, who : {Me}, what : Texts \cup {"copy"}]
Empty == [kind |-> "none", who |-> "-", what |-> "-"]

\* The pool takes a handle, a ticket leaf and an envelope once.
same(a, e) == /\ a.kind = e.kind
              /\ IF e.kind = "reg" THEN a.who = e.who ELSE a.what = e.what

Allowed(blocks, e) == e = Empty \/ \A b \in DOMAIN blocks : ~same(blocks[b], e)

\* The pool numbers each kind of event 0, 1, 2, ... (leaf index, ticket
\* index, message nonce).
numbered(blocks, e) ==
    [kind |-> e.kind, who |-> e.who, what |-> e.what,
     n |-> Len(events_in(blocks, e.kind, Len(blocks)))]

AppendBlock(blocks, e) == Append(blocks, numbered(blocks, e))

-----------------------------------------------------------------------------
(* The client's views of the events *)

base_block(head) ==
    ((IF head > BASE_MIN_AGE THEN head - BASE_MIN_AGE ELSE 0) \div BASE_ROUND) * BASE_ROUND

sorted(es) == SortSeq(es, LAMBDA a, b : a.n < b.n)

\* The rebuilds refuse a gap or a duplicate index, the registry a handle
\* registered twice.
contiguous(es) == \A i \in DOMAIN es : es[i].n = i - 1
handles_once(es) == \A i, j \in DOMAIN es : es[i].who = es[j].who => i = j

from_registrations(es) ==
    LET regs == sorted(es)
    IN  [ok |-> contiguous(regs) /\ handles_once(regs), es |-> regs]

tickets_from_events(es) ==
    LET bought == sorted(es) IN [ok |-> contiguous(bought), es |-> bought]

local_tree(es) == tree_of([i \in DOMAIN es |-> leaf_of(es[i])])

registered(regs, h) == \E i \in DOMAIN regs : regs[i].who = h
get(regs, h) == CHOOSE e \in Range(regs) : e.who = h

\* (mutant) What carries our tag is shown, as the v2 scan did.
tagged(e) == TRUE

\* The inbox: a copy of a commitment over other content carries our tag and
\* does not open (nor does a message to another member, which has not even
\* the tag and is left out of the model).
opens(e) == e.what \in Texts

open_all(es) == sorted(SelectSeq(es, opens))

\* The wallet's one ticket against a rebuilt tree.
holds(ts, i, leaf) == i < Len(ts) /\ leaf_of(ts[i + 1]) = leaf
index_of(ts) == {i \in 0..(Len(ts) - 1) : leaf_of(ts[i + 1]) = <<"mine">>}

settle(w, ts) ==
    IF w.state = "pending" /\ index_of(ts) # {}
    THEN [state |-> "unspent", index |-> CHOOSE i \in index_of(ts) : TRUE]
    ELSE w

picks(w, ts) == w.state = "unspent" /\ holds(ts, w.index, <<"mine">>)

-----------------------------------------------------------------------------
(* The reads *)

Idle == [do |-> "none"]
None == [kind |-> "none"]
\* A read begins with an empty page and, for a send, pins its base block.
begin(do, at, h) ==
    [do |-> do, at |-> at, who |-> h, base |-> base_block(Len(chain)), token |-> 1,
     got |-> <<>>, tries |-> 2, regs |-> <<>>, root |-> <<>>, tickets |-> <<>>,
     since |-> index]

\* How far the read in progress goes: a send's to its base block, except for
\* the purchases it is still waiting for; the others to the latest block.
through(t) == IF t.do = "prepare" /\ t.at # "late" THEN t.base ELSE MaxHead

finish(o) == task' = Idle /\ out' = o

start(t) ==
    /\ task = Idle
    /\ task' = t
    /\ out' = None
    /\ UNCHANGED <<chain, index, wallet, reorgs>>

prepare(h) == start(begin("prepare", "reg", h))
resolve_recipient(h) == start(begin("resolve", "reg", h))
scan_v4 == start(begin("scan", "msg", Me))

\* One answer to starknet_getEvents: at most CHUNK events from the token on,
\* and the token of the rest (0: none).
page(t) ==
    LET kind == IF t.at = "late" THEN "ticket" ELSE t.at
        all  == SelectSeq([b \in 1..Len(index) |-> b],
                          LAMBDA b : b \in t.token..through(t) /\ index[b].kind = kind)
    IN  [events |-> [i \in 1..Min({CHUNK, Len(all)}) |-> index[all[i]]],
         token  |-> IF Len(all) > CHUNK THEN all[CHUNK + 1] ELSE 0]

\* All pages but the last: the next request carries the token.
next_page ==
    /\ task # Idle /\ task.at \in {"reg", "msg", "ticket", "late"}
    /\ page(task).token # 0
    /\ \E order \in {page(task).events, Reverse(page(task).events)} :
          task' = [task EXCEPT !.got = @ \o order, !.token = page(task).token]
    /\ UNCHANGED <<chain, index, wallet, out, reorgs>>

\* The events a read collected once its last page is in, in either order.
Collected == IF page(task).token # 0 THEN {}
             ELSE {task.got \o order :
                      order \in {page(task).events, Reverse(page(task).events)}}

reading(do, at) == task.do = do /\ task.at = at

\* The inbox shows what opens, oldest first.
scanned ==
    /\ reading("scan", "msg")
    /\ \E es \in Collected :
          finish([kind |-> "inbox", shown |-> open_all(es), since |-> task.since])
    /\ UNCHANGED <<chain, index, wallet, reorgs>>

resolved ==
    /\ reading("resolve", "reg")
    /\ \E es \in Collected :
          LET r == from_registrations(es)
          IN  finish(IF ~r.ok THEN [kind |-> "refused"]
                     ELSE IF ~registered(r.es, task.who) THEN [kind |-> "not_found"]
                     ELSE [kind |-> "resolved", keys |-> get(r.es, task.who).what])
    /\ UNCHANGED <<chain, index, wallet, reorgs>>

\* pinned_state: the registrations up to the base block, ...
pinned_registry ==
    /\ reading("prepare", "reg")
    /\ \E es \in Collected :
          LET r == from_registrations(es)
          IN  IF r.ok
              THEN /\ task' = [task EXCEPT !.at = "root", !.regs = r.es, !.got = <<>>, !.token = 1]
                   /\ UNCHANGED out
              ELSE finish([kind |-> "refused"])
    /\ UNCHANGED <<chain, index, wallet, reorgs>>

\* ... the pool's root at that block, ...
get_merkle_root ==
    /\ reading("prepare", "root")
    /\ task' = [task EXCEPT !.at = "ticket", !.root = store_root("reg", task.base)]
    /\ UNCHANGED <<chain, index, wallet, out, reorgs>>

\* ... the ticket purchases up to it, ...
pinned_tickets ==
    /\ reading("prepare", "ticket")
    /\ \E es \in Collected :
          LET t == tickets_from_events(es)
          IN  IF t.ok
              THEN /\ task' = [task EXCEPT !.at = "ticket_root", !.tickets = t.es, !.got = <<>>, !.token = 1]
                   /\ UNCHANGED out
              ELSE finish([kind |-> "refused"])
    /\ UNCHANGED <<chain, index, wallet, reorgs>>

\* (mutants) Only one of the two trees is compared.
members_agree(root, ticket_root) == tree_root(local_tree(task.regs)) = root
tickets_agree(root, ticket_root) == tree_root(local_tree(task.tickets)) = ticket_root

\* The rebuilt trees against the pool's two roots.
roots_agree(root, ticket_root) ==
    /\ tree_root(local_tree(task.regs)) = root
    /\ tree_root(local_tree(task.tickets)) = ticket_root

\* What `prepare' refuses over, before it looks at a ticket.
own_registered(regs) == registered(regs, Me) /\ get(regs, Me).what = Me

sender_folds(regs, root) ==
    LET me == get(regs, Me)
    IN  fold_path(<<Me>>, me.n, path(local_tree(regs), me.n)) = root

\* The witness over the picked ticket; the ticket is reserved for the send.
witness(w) ==
    LET me == get(task.regs, Me)
        ticket_path == path(local_tree(task.tickets), w.index)
    IN  [kind |-> "prepared", block |-> task.base, to |-> get(task.regs, task.who),
         root |-> task.root, leaf_index |-> me.n, path |-> path(local_tree(task.regs), me.n),
         ticket_root |-> tree_root(local_tree(task.tickets)),
         ticket_index |-> w.index, ticket_path |-> ticket_path]

reserve(w) ==
    /\ wallet' = [w EXCEPT !.state = "reserved"]
    /\ finish(witness(w))

pick(w) ==
    IF picks(w, task.tickets) THEN reserve(w)
    ELSE /\ wallet' = w
         /\ finish([kind |-> IF w.state = "unspent" THEN "not_yet" ELSE "no_ticket",
                    block |-> task.base])

\* ... and its root at it: a mismatch is retried once at a fresh base block.
get_ticket_root ==
    /\ reading("prepare", "ticket_root")
    /\ ~roots_agree(task.root, store_root("ticket", task.base))
    /\ IF task.tries > 1
       THEN task' = [begin("prepare", "reg", task.who) EXCEPT !.tries = task.tries - 1] /\ UNCHANGED out
       ELSE finish([kind |-> "refused"])
    /\ UNCHANGED <<chain, index, wallet, reorgs>>

\* Both trees are the pool's: the recipient, the own registration and its
\* path, then the ticket.  While a purchase is pending that the base block's
\* tree lacks, the latest one is asked for too.
prepare_witness ==
    /\ reading("prepare", "ticket_root")
    /\ roots_agree(task.root, store_root("ticket", task.base))
    /\ LET w == settle(wallet, task.tickets)
       IN  IF ~registered(task.regs, task.who)
           THEN finish([kind |-> "unknown", who |-> task.who, block |-> task.base]) /\ UNCHANGED wallet
           ELSE IF ~own_registered(task.regs) \/ ~sender_folds(task.regs, task.root)
           THEN finish([kind |-> "refused"]) /\ UNCHANGED wallet
           ELSE IF w.state = "pending"
           THEN task' = [task EXCEPT !.at = "late", !.got = <<>>, !.token = 1] /\ UNCHANGED <<wallet, out>>
           ELSE pick(w)
    /\ UNCHANGED <<chain, index, reorgs>>

\* A pending purchase is settled against the latest tree, so that a ticket
\* bought after the base block is waited for.
settle_latest ==
    /\ reading("prepare", "late")
    /\ \E es \in Collected :
          LET t == tickets_from_events(es)
          IN  IF t.ok THEN pick(settle(wallet, t.es))
              ELSE finish([kind |-> "refused"]) /\ UNCHANGED wallet
    /\ UNCHANGED <<chain, index, reorgs>>

\* Any request may fail; the read ends.
rpc_fails ==
    /\ task # Idle
    /\ finish([kind |-> "failed"])
    /\ UNCHANGED <<chain, index, wallet, reorgs>>

-----------------------------------------------------------------------------
(* Around the client *)

\* The send a ticket was reserved for ended without publishing.
release ==
    /\ wallet.state = "reserved" /\ task = Idle
    /\ wallet' = [wallet EXCEPT !.state = "unspent"]
    /\ out' = None
    /\ UNCHANGED <<chain, index, task, reorgs>>

\* A block.
grow ==
    /\ Len(chain) < MaxHead
    /\ \E e \in Events \cup {Empty} :
          /\ Allowed(chain, e)
          /\ chain' = AppendBlock(chain, e)
    /\ UNCHANGED <<index, wallet, task, out, reorgs>>

\* The newest block is replaced.
reorg ==
    /\ reorgs < Reorgs
    /\ reorgs' = reorgs + 1
    /\ \E e \in Events \cup {Empty} :
          /\ Allowed(Front(chain), e)
          /\ chain' = AppendBlock(Front(chain), e)
          /\ chain' # chain
    /\ UNCHANGED <<index, wallet, task, out>>

\* The event index follows the chain, never back.
catch_up ==
    /\ \E n \in Len(index)..Len(chain) : index' = SubSeq(chain, 1, n)
    /\ index' # index
    /\ UNCHANGED <<chain, wallet, task, out, reorgs>>

-----------------------------------------------------------------------------
Init ==
    /\ \E s \in Starts :
          chain = FoldLeft(AppendBlock, <<>>, s)
    /\ index = chain
    /\ wallet = [state |-> "pending", index |-> 0]
    /\ task = Idle /\ out = None
    /\ reorgs = 0

Next ==
    \/ \E h \in Handles \ {Me} : prepare(h) \/ resolve_recipient(h)
    \/ scan_v4 \/ next_page \/ scanned \/ resolved
    \/ pinned_registry \/ get_merkle_root \/ pinned_tickets \/ get_ticket_root
    \/ prepare_witness \/ settle_latest \/ rpc_fails
    \/ release \/ grow \/ reorg \/ catch_up

Spec == Init /\ [][Next]_vars

-----------------------------------------------------------------------------
(* Properties *)

\* A prepared send proves: this profile's leaf and its ticket's leaf fold, at
\* the indices and along the paths of the witness, to the roots the pool had
\* at the base block, and the message is sealed to the keys the recipient
\* had registered by then.  Proving takes minutes and only the pool would
\* notice a witness over another tree.
PreparedProves ==
    out.kind = "prepared" =>
        /\ fold_path(<<Me>>, out.leaf_index, out.path) = store_root("reg", out.block)
        /\ fold_path(<<"mine">>, out.ticket_index, out.ticket_path) = store_root("ticket", out.block)
        /\ out.root = store_root("reg", out.block)
        /\ out.ticket_root = store_root("ticket", out.block)
        /\ out.to \in Range(events_in(chain, "reg", out.block))

\* A refusal that blames the recipient is true although the index the client
\* read may have been behind: no one had registered that handle at the base
\* block.
RefusalIsTrue ==
    out.kind = "unknown" =>
        ~registered(events_in(chain, "reg", out.block), out.who)

\* The inbox is exact whatever the paging did: nothing but messages that
\* open, each once and in the order the pool took them, and every one the
\* index held when the scan began (and still holds), however the chain grew
\* or a copy of its commitment got in front of it.
InboxExact ==
    out.kind = "inbox" =>
        /\ \A i \in DOMAIN out.shown : out.shown[i].what \in Texts
        /\ \A i, j \in DOMAIN out.shown : i < j => out.shown[i].n < out.shown[j].n
        /\ \A b \in DOMAIN out.since :
              /\ out.since[b].kind = "msg" /\ out.since[b].what \in Texts
              /\ b \in DOMAIN index /\ index[b] = out.since[b]
              => out.since[b] \in Range(out.shown)


=============================================================================
