---------------------------- MODULE MCSendClient ----------------------------
(***************************************************************************)
(* Instances of the client for TLC: tickets and sends are interchangeable.  *)
(***************************************************************************)
EXTENDS SendClient, TLC

Symmetry == Permutations(Tickets) \cup Permutations(Sends)
=============================================================================
