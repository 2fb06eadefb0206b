-------------------------- MODULE MCVerifierRouter --------------------------
(***************************************************************************)
(* Two heads.  One states a true claim: its trace holds the program <<e1,  *)
(* e2>> and the sampled section True is its own.  The other's claim is     *)
(* false: only sections that are not its trace's match at the OODS point,  *)
(* and those do not fold to a low degree.  Proof of work can be ground for *)
(* anything.                                                               *)
(***************************************************************************)
EXTENDS VerifierRouter

CONSTANTS driver, other, i1, h1, h2, e1, e2, p1, zero, f1, f2, l1, o1, o2

MCOutput == [h \in Heads |-> IF h = h1 THEN o1 ELSE o2]

True == [i \in Slots |-> p1]
Untrue == [i \in Slots |-> IF i = 0 THEN zero ELSE p1]
MCSampled == {True, Untrue}

TraceProgram(h) == IF h = h1 THEN <<e1, e2>> ELSE <<e1>>
MatchAtOods(h) == IF h = h1 THEN {True, Untrue} ELSE {Untrue}

(* Everything that can be committed to, whether or not it fits together.    *)
Commitments ==
  {p \in Proof : p.layers = [i \in 1..(N_INNER + 1) |-> l1]}

ValidChecks ==
  {<<"claim", h>> : h \in Heads}
  \cup {<<"interaction pow", PreDraw(p)>> : p \in Commitments}
  \cup {<<"logup", PreDraw(p), TraceProgram(p.head), p.head>> : p \in Commitments}
  \cup {<<"supported", h, s>> : h \in Heads, s \in SampledFelts}
  \cup {<<"oods", PostComposition(p), Composition(p), p.head, p.sampled>> :
          p \in {p \in Commitments : p.sampled \in MatchAtOods(p.head)}}
  \cup {<<"queries pow", Positions(p)>> : p \in Commitments}
  \cup {<<"rows", p.head, Positions(p)>> : p \in Commitments}
  \cup {<<"layer", PreFri(p), p.fri, EvalsAfter([p EXCEPT !.sampled = True], n), l1>> :
          p \in Commitments, n \in 0..N_INNER}
  \cup {<<"last", PreFri(p), f1, EvalsAfter(p, N_INNER + 1)>> :
          p \in {p \in Commitments : p.fri = f1}}

(* TLC evaluates a definition once, and what replaces a constant each time. *)
MCValid == ValidChecks

MCClasses == <<[first |-> 0, n |-> 1], [first |-> 1, n |-> 2]>>

(* The calls of devnet_drive.py for the true claim under proof id i. *)
MCScript(i) ==
  << [fn |-> "add_route", route |-> Router], [fn |-> "freeze_routes"],
     [fn |-> "stage", id |-> i, offset |-> 0, slots |-> <<p1>>],
     [fn |-> "stage", id |-> i, offset |-> 1, slots |-> <<p1>>],
     [fn |-> "begin", id |-> i, head |-> h1, program_len |-> 2],
     [fn |-> "claim_chunk", id |-> i, entries |-> <<e1>>],
     [fn |-> "claim_chunk", id |-> i, entries |-> <<e2>>],
     [fn |-> "claim_finalize", id |-> i, head |-> h1],
     [fn |-> "lookup_chunk", id |-> i, entries |-> <<e1>>],
     [fn |-> "lookup_chunk", id |-> i, entries |-> <<e2>>],
     [fn |-> "lookup_finalize", id |-> i, head |-> h1],
     [fn |-> "oods_begin", id |-> i, head |-> h1, sampled |-> True] >>
  \o [g \in 1..Len(OodsClasses) |->
        [fn |-> "oods_group", id |-> i, group_index |-> g, head |-> h1, sampled |-> True]]
  \o << [fn |-> "oods_finalize", id |-> i, head |-> h1, sampled |-> True],
        [fn |-> "fri_commit", id |-> i, head |-> h1, fri |-> f1] >>
  \o [q \in 1..N_QUERIES |-> [fn |-> "group", id |-> i, head |-> h1, n |-> 1]]
  \o [n \in 1..(N_INNER + 1) |->
        [fn |-> "fri_layers", id |-> i, head |-> h1, fri |-> f1, layers |-> <<l1>>]]
  \o << [fn |-> "finalize", id |-> i, head |-> h1, fri |-> f1] >>

TheScript == MCScript(CHOOSE i \in ProofIds : TRUE)
=============================================================================
