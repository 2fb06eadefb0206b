--------------------------- MODULE VerifiedFacts ---------------------------
(***************************************************************************)
(* What consumers of the shared fact registry rely on: its facts are those *)
(* of proofs that a verifier accepts, registered by a listed route; after  *)
(* the freeze no route is added.                                           *)
(***************************************************************************)
CONSTANTS
  Router,        \* the route
  AcceptedFacts  \* the facts of the proofs it accepts

VARIABLES routes, frozen, facts

vars == <<routes, frozen, facts>>

Init == routes = {} /\ frozen = FALSE /\ facts = {}

AddRoute ==
  /\ ~frozen
  /\ routes' = routes \cup {Router}
  /\ UNCHANGED <<frozen, facts>>

Freeze ==
  /\ frozen' = TRUE
  /\ UNCHANGED <<routes, facts>>

Verify(f) ==
  /\ Router \in routes
  /\ facts' = facts \cup {f}
  /\ UNCHANGED <<routes, frozen>>

Next == AddRoute \/ Freeze \/ \E f \in AcceptedFacts : Verify(f)

Spec == Init /\ [][Next]_vars
=============================================================================
