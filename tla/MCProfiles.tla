----------------------------- MODULE MCProfiles -----------------------------
(***************************************************************************)
(* Instances of the profile directories for TLC.                            *)
(***************************************************************************)
EXTENDS Profiles, TLC

Wallet(ts) == [t \in Tickets |-> IF t \in ts THEN "unspent" ELSE "none"]
Whole(id, account, ts) ==
  [files |-> Files, id |-> id, sealed |-> TRUE, account |-> account, wallet |-> Wallet(ts)]
(* A flat profile of the builds before the vault.                           *)
Flat == [Whole(3, 1, {}) EXCEPT !.files = ROOT_ENTRIES, !.sealed = FALSE]
Place(f) == [s \in Slots |-> IF s \in DOMAIN f THEN f[s] ELSE NoDir]

(* Two live profiles, one a copy of the other or with its account; or one   *)
(* live and another archived under its name, with a flat profile beside.    *)
Pairs ==
  {Place(Live("a") :> Whole(1, 1, {1}) @@ Live("b") :> Whole(id, account, {})) :
     id \in {1, 2}, account \in {1, 2}}
  \cup
  {Place(Live("a") :> Whole(1, 1, {1}) @@ Archived("a") :> Whole(2, account, {})
           @@ Root :> Flat) : account \in {1, 2}}

(* A flat profile of an older build, alone.                                 *)
FlatRoot == {Place(Root :> Flat)}
=============================================================================
