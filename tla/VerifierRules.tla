--------------------------- MODULE VerifierRules ---------------------------
(***************************************************************************)
(* What a proof for the full verifier consists of, and what accepting it   *)
(* means (contracts/stwo_full_verifier_phases).  The arithmetic of the     *)
(* verifier is abstracted to the set Valid of the checks that pass; which  *)
(* data every check is made on is not.                                     *)
(*                                                                         *)
(* Abstractions.                                                           *)
(*   - A hash is what it hashes.  A channel digest is the sequence of what *)
(*     was mixed into it; whatever is drawn from the channel is a function *)
(*     of its digest and is not represented.                               *)
(*   - The head section is one value.  Where the code mixes one field of   *)
(*     it, the digest gets the head.                                       *)
(*   - A program is a sequence of memory entries.                          *)
(*   - The queried rows are Merkle-verified on arrival, so there is one    *)
(*     choice of them that passes: only whether they do is represented.    *)
(*   - A family whose evaluation panics is one whose value never matches   *)
(*     at the OODS point.                                                  *)
(* The first entries of the program are part of the head as well; as in    *)
(* the code, nothing compares them with the program that arrives.          *)
(***************************************************************************)
EXTENDS Naturals, Sequences

CONSTANTS
  Heads,        \* head sections
  Memory,       \* memory entries, of which programs consist
  SampledFelts, \* sampled sections
  FriHeads,     \* the commitment slices of FRI sections
  LayerProofs,  \* the proofs of single FRI layers
  Output,       \* the hash of the output section of each head
  Valid,        \* the checks that pass, as tuples of what they are made on
  N_FAMILIES,   \* component families of the composition polynomial
  N_QUERIES,    \* queries drawn
  N_INNER,      \* inner FRI layers
  MAX_PROGRAM   \* what a u32 program length can be

ASSUME CountsAssumption ==
  /\ MAX_PROGRAM \in Nat
  /\ N_FAMILIES \in Nat
  /\ N_QUERIES \in Nat
  /\ N_INNER \in Nat

ASSUME SectionsAssumption ==
  Heads # {} /\ SampledFelts # {} /\ FriHeads # {} /\ LayerProofs # {}

Programs == UNION {[1..n -> Memory] : n \in 0..MAX_PROGRAM}

(* The sections of one proof. *)
Proof == [head : Heads, program : Programs, sampled : SampledFelts,
          fri : FriHeads, layers : [1..(N_INNER + 1) -> LayerProofs]]

(* The channel after the claim was mixed, the trace committed and the       *)
(* interaction nonce mixed; after the interaction claim and trace; and      *)
(* after the composition commitment, where the OODS point is drawn.         *)
digest_pre_draw(head, program_len, program) == <<head, program_len, program, head>>
digest_post_prologue(digest, head) == Append(digest, head)
digest_post_comp_commit(digest, head) == Append(digest, head)

(* After mix_sampled_values; after the FRI commitments and queries nonce,   *)
(* where the query positions are drawn.                                     *)
mix_sampled_values(digest, sampled) == Append(digest, sampled)
queries_digest(digest, fri, head) == digest \o <<fri, head>>

(* One family's part of the composition polynomial's value. *)
family_value(family, head, sampled) ==
  [family |-> family, head |-> head, sampled |-> sampled]

(* The checks. *)
ClaimHolds(head) == <<"claim", head>> \in Valid
InteractionPow(digest) == <<"interaction pow", digest>> \in Valid
LogupZero(digest, program, head) == <<"logup", digest, program, head>> \in Valid
Supported(head, sampled) == <<"supported", head, sampled>> \in Valid
OodsMatches(digest, sum, head, sampled) == <<"oods", digest, sum, head, sampled>> \in Valid
QueriesPow(positions) == <<"queries pow", positions>> \in Valid
RowsOpen(head, positions) == <<"rows", head, positions>> \in Valid
LayerVerifies(digest, fri, evals, proof) ==
  <<"layer", digest, fri, evals, proof>> \in Valid
LastLayer(digest, fri, evals) == <<"last", digest, fri, evals>> \in Valid

-----------------------------------------------------------------------------
(* Verifying one proof in one go *)

PreDraw(p) == digest_pre_draw(p.head, Len(p.program), p.program)
PostPrologue(p) == digest_post_prologue(PreDraw(p), p.head)
PostComposition(p) == digest_post_comp_commit(PostPrologue(p), p.head)
PreFri(p) == mix_sampled_values(PostComposition(p), p.sampled)
Positions(p) == queries_digest(PreFri(p), p.fri, p.head)

Composition(p) == [f \in 1..N_FAMILIES |-> family_value(f, p.head, p.sampled)]
Answers(p) == [q \in 1..N_QUERIES |-> p.sampled]

(* The evaluations left after the first n layers: the answers, folded. *)
EvalsAfter(p, n) ==
  <<Answers(p)>> \o [i \in 1..n |-> <<p.fri, p.layers[i]>>]

Begun(p) == ClaimHolds(p.head)
Claimed(p) == Begun(p) /\ InteractionPow(PreDraw(p))
LookedUp(p) == Claimed(p) /\ LogupZero(PreDraw(p), p.program, p.head)
Started(p) == LookedUp(p) /\ Supported(p.head, p.sampled)
Evaluated(p) ==
  Started(p) /\ OodsMatches(PostComposition(p), Composition(p), p.head, p.sampled)
Committed(p) == Evaluated(p) /\ QueriesPow(Positions(p))
Queried(p) == Committed(p) /\ (N_QUERIES > 0 => RowsOpen(p.head, Positions(p)))
LayerPasses(p, n) == LayerVerifies(PreFri(p), p.fri, EvalsAfter(p, n - 1), p.layers[n])
Folded(p) == Queried(p) /\ \A n \in 1..(N_INNER + 1) : LayerPasses(p, n)

Accepts(p) == Folded(p) /\ LastLayer(PreFri(p), p.fri, EvalsAfter(p, N_INNER + 1))

(* The fact: poseidon(program_hash, output_hash). *)
fact(program, head) == <<program, Output[head]>>

AcceptedFacts == {fact(p.program, p.head) : p \in {p \in Proof : Accepts(p)}}
=============================================================================
