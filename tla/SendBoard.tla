------------------------------ MODULE SendBoard ------------------------------
(***************************************************************************)
(* What the pool promises, without trees, roots, proofs, nullifiers or      *)
(* fees: a public board on which members post, each post paid with a ticket *)
(* that is burnt before the post lands, and no member posting more than     *)
(* quota times for any one epoch.  ZkmsgPoolV4 implements it (PoolBoard).   *)
(***************************************************************************)
EXTENDS Integers, FiniteSets

CONSTANTS
  Secrets,    \* who may post
  Tickets,
  Envelopes,  \* what may be posted
  Epochs,     \* the epochs there are
  Quota, Lag,
  Nobody      \* nobody's turn

VARIABLES
  now,     \* the current epoch
  joined,  \* members
  sold, burnt,
  turn,    \* the post whose ticket was just burnt, or Nobody
  posts

boardVars == <<now, joined, sold, burnt, turn, posts>>

Post == [m : Secrets, epoch : Epochs, envelope : Envelopes, ticket : Tickets]

PostsFor(m, e) == {p \in posts : p.m = m /\ p.epoch = e}

(* A member's post for an epoch that is current, or at most Lag behind, with *)
(* something not posted before and quota left.                               *)
Allowed(p) ==
  /\ p.m \in joined
  /\ p.epoch <= now /\ now <= p.epoch + Lag
  /\ Cardinality(PostsFor(p.m, p.epoch)) < Quota
  /\ \A q \in posts : q.envelope # p.envelope

Join(m) ==
  /\ turn = Nobody
  /\ joined' = joined \cup {m}
  /\ UNCHANGED <<now, sold, burnt, turn, posts>>

Sell(ts) ==
  /\ turn = Nobody
  /\ sold' = sold \cup ts
  /\ UNCHANGED <<now, joined, burnt, turn, posts>>

(* The ticket is burnt only for a post that is allowed. *)
Burn(p) ==
  /\ turn = Nobody
  /\ Allowed(p)
  /\ p.ticket \in sold \ burnt
  /\ burnt' = burnt \cup {p.ticket}
  /\ turn' = p
  /\ UNCHANGED <<now, joined, sold, posts>>

(* The post lands while it is still allowed ... *)
Land ==
  /\ turn # Nobody
  /\ Allowed(turn)
  /\ posts' = posts \cup {turn}
  /\ turn' = Nobody
  /\ UNCHANGED <<now, joined, sold, burnt>>

(* ... or is lost together with its ticket. *)
Lose ==
  /\ turn # Nobody
  /\ turn' = Nobody
  /\ UNCHANGED <<now, joined, sold, burnt, posts>>

Tick(e) ==
  /\ turn = Nobody
  /\ e > now
  /\ now' = e
  /\ UNCHANGED <<joined, sold, burnt, turn, posts>>

BoardInit ==
  /\ now \in Epochs
  /\ joined = {} /\ sold = {} /\ burnt = {} /\ posts = {}
  /\ turn = Nobody

BoardNext ==
  \/ \E m \in Secrets : Join(m)
  \/ \E ts \in SUBSET Tickets : Sell(ts)
  \/ \E p \in Post : Burn(p)
  \/ Land
  \/ Lose
  \/ \E e \in Epochs : Tick(e)

BoardSpec == BoardInit /\ [][BoardNext]_boardVars
=============================================================================
