------------------------ MODULE VerifierRouterProofs ------------------------
(***************************************************************************)
(* Every checkpoint of the router stands for one proof that passed the     *)
(* phases before, and the registry implements a verifier of whole proofs:  *)
(* for every set of callers, proof ids, sections and checks, and for every *)
(* split of the program, the families, the queries and the layers.         *)
(***************************************************************************)
EXTENDS VerifierRouter, TLAPS

Keys == Callers \X ProofIds

(* The checkpoints are a map, of which every call replaces one entry.       *)
Shape == checkpoints = [k \in Keys |-> checkpoints[k]]

IInv == Shape /\ PhasesPassed

-----------------------------------------------------------------------------
(* Sequences *)

LEMMA ProgramsAreSeqs ==
  ASSUME NEW e \in Programs
  PROVE  e \in Seq(Memory) /\ Len(e) \in 0..MAX_PROGRAM
<1>1. PICK n \in 0..MAX_PROGRAM : e \in [1..n -> Memory]
  BY DEF Programs
<1>. QED BY <1>1, CountsAssumption

LEMMA SeqsArePrograms ==
  ASSUME NEW e \in Seq(Memory), Len(e) <= MAX_PROGRAM
  PROVE  e \in Programs
<1>1. Len(e) \in 0..MAX_PROGRAM /\ e \in [1..Len(e) -> Memory]
  BY CountsAssumption
<1>. QED BY <1>1 DEF Programs

(* A sequence continued by the rest of it is all of it. *)
LEMMA Continued ==
  ASSUME NEW S, NEW a \in Nat, NEW n \in Nat, NEW g \in [1..(a + n) -> S]
  PROVE  [i \in 1..a |-> g[i]] \o [i \in 1..n |-> g[a + i]] = g
<1> DEFINE x == [i \in 1..a |-> g[i]]
           y == [i \in 1..n |-> g[a + i]]
<1>1. x \in Seq(S) /\ Len(x) = a
  OBVIOUS
<1>2. y \in Seq(S) /\ Len(y) = n
  OBVIOUS
<1>3. x \o y \in Seq(S) /\ Len(x \o y) = a + n
  BY <1>1, <1>2
<1>4. ASSUME NEW i \in 1..(a + n) PROVE (x \o y)[i] = g[i]
  <2>1. CASE i <= a BY <2>1, <1>1, <1>2
  <2>2. CASE i > a
    <3>1. (x \o y)[i] = y[i - a] /\ i - a \in 1..n
      BY <2>2, <1>1, <1>2
    <3>. QED BY <3>1
  <2>. QED BY <2>1, <2>2
<1>. QED BY <1>3, <1>4

LEMMA SumContinued ==
  ASSUME NEW a \in Nat, NEW n \in Nat, NEW h, NEW s
  PROVE  [f \in 1..a |-> family_value(f, h, s)]
           \o [f \in 1..n |-> family_value(a + f, h, s)]
         = [f \in 1..(a + n) |-> family_value(f, h, s)]
<1> DEFINE g == [f \in 1..(a + n) |-> family_value(f, h, s)]
           S == {family_value(f, h, s) : f \in 1..(a + n)}
<1>1. g \in [1..(a + n) -> S]
  OBVIOUS
<1>2. [i \in 1..a |-> g[i]] \o [i \in 1..n |-> g[a + i]] = g
  <2> HIDE DEF g, S
  <2>. QED BY <1>1, Continued
<1>3. [i \in 1..a |-> g[i]] = [f \in 1..a |-> family_value(f, h, s)]
  OBVIOUS
<1>4. [i \in 1..n |-> g[a + i]] = [f \in 1..n |-> family_value(a + f, h, s)]
  OBVIOUS
<1>. QED BY <1>2, <1>3, <1>4

LEMMA AnswersContinued ==
  ASSUME NEW a \in Nat, NEW n \in Nat, NEW s
  PROVE  [q \in 1..a |-> s] \o [q \in 1..n |-> s] = [q \in 1..(a + n) |-> s]
<1> DEFINE g == [q \in 1..(a + n) |-> s]
<1>1. g \in [1..(a + n) -> {s}]
  OBVIOUS
<1>2. [i \in 1..a |-> g[i]] \o [i \in 1..n |-> g[a + i]] = g
  <2> HIDE DEF g
  <2>. QED BY <1>1, Continued
<1>3. /\ [i \in 1..a |-> g[i]] = [q \in 1..a |-> s]
      /\ [i \in 1..n |-> g[a + i]] = [q \in 1..n |-> s]
  OBVIOUS
<1>. QED BY <1>2, <1>3

-----------------------------------------------------------------------------
(* One call *)

(* A call is a step of one checkpoint: where it is to be of the given tag,  *)
(* it belongs to a proof that passed the phases before.                     *)
LEMMA Consumed ==
  ASSUME IInv, NEW c \in Callers, NEW id \in ProofIds
  PROVE  /\ slot(c, id) \in Keys
         /\ \E p \in Proof : Passed(checkpoint(c, id), p)
BY DEF IInv, PhasesPassed, Keys, slot, checkpoint

LEMMA AdvanceKeeps ==
  ASSUME IInv, NEW c \in Callers, NEW id \in ProofIds, NEW st,
         advance(c, id, st), NEW p \in Proof, Passed(st, p)
  PROVE  IInv'
<1>1. checkpoints' = [k \in Keys |-> IF k = <<c, id>> THEN st ELSE checkpoints[k]]
  BY DEF IInv, Shape, advance, slot
<1>2. Shape'
  BY <1>1 DEF Shape
<1>3. ASSUME NEW k \in Keys PROVE \E q \in Proof : Passed(checkpoints'[k], q)
  <2>1. CASE k = <<c, id>> BY <1>1, <2>1
  <2>2. CASE k # <<c, id>> BY <1>1, <2>2 DEF IInv, PhasesPassed, Keys
  <2>. QED BY <2>1, <2>2
<1>. QED BY <1>2, <1>3 DEF IInv, PhasesPassed, Keys

LEMMA BeginKeeps ==
  ASSUME IInv, NEW c \in Callers, NEW id \in ProofIds, NEW head \in Heads,
         NEW n \in 0..MAX_PROGRAM, begin(c, id, head, n)
  PROVE  IInv'
<1> DEFINE st == [tag |-> "claim", d_head |-> head, program_len |-> n, chunks |-> NoChunks]
<1>1. PICK sampled \in SampledFelts, fri \in FriHeads, l \in LayerProofs : TRUE
  BY SectionsAssumption
<1> DEFINE p == [head |-> head, program |-> <<>>, sampled |-> sampled, fri |-> fri,
                 layers |-> [i \in 1..(N_INNER + 1) |-> l]]
<1>2. <<>> \in Programs
  <2>1. <<>> \in [1..0 -> Memory] /\ 0 \in 0..MAX_PROGRAM
    BY CountsAssumption
  <2>. QED BY <2>1 DEF Programs
<1>3. p \in Proof
  BY <1>2 DEF Proof
<1>4. Passed(st, p)
  <2>1. ClaimHolds(head)
    BY DEF begin
  <2>2. ClaimPassed(st, p)
    BY <1>2, <2>1 DEF ClaimPassed, NoChunks, Begun
  <2>. QED BY <2>2 DEF Passed
<1>5. advance(c, id, st)
  BY DEF begin
<1>. QED
  <2> HIDE DEF st, p
  <2>. QED BY <1>3, <1>4, <1>5, AdvanceKeeps

LEMMA ClaimChunkKeeps ==
  ASSUME IInv, NEW c \in Callers, NEW id \in ProofIds, NEW entries \in Programs,
         claim_chunk(c, id, entries)
  PROVE  IInv'
<1> DEFINE s == checkpoint(c, id)
           st == [tag |-> "claim", d_head |-> s.d_head, program_len |-> s.program_len,
                  chunks |-> roll_chunk(s.chunks, entries)]
<1>1. PICK p \in Proof : Passed(s, p)
  BY Consumed
<1>2. ClaimPassed(s, p)
  BY <1>1 DEF Passed, claim_chunk, consume, NoState
<1>3. Passed(st, p)
  <2> DEFINE e == s.chunks.entries \o entries
  <2>1. /\ s.chunks.entries \in Seq(Memory)
        /\ entries \in Seq(Memory)
        /\ s.program_len \in 0..MAX_PROGRAM
    BY <1>2, ProgramsAreSeqs DEF ClaimPassed
  <2>2. Len(s.chunks.entries) + Len(entries) <= s.program_len
    BY DEF claim_chunk
  <2>3. e \in Seq(Memory) /\ Len(e) <= s.program_len
    BY <2>1, <2>2
  <2>4. e \in Programs
    <3>1. Len(e) <= MAX_PROGRAM
      BY <2>1, <2>3, CountsAssumption
    <3>. HIDE DEF e
    <3>. QED BY <2>3, <3>1, SeqsArePrograms
  <2>5. roll_chunk(s.chunks, entries).entries = e
    BY DEF roll_chunk
  <2>6. ClaimPassed(st, p)
    <3> HIDE DEF s, e
    <3>. QED BY <2>1, <2>3, <2>4, <2>5, <1>2 DEF ClaimPassed
  <2>. QED BY <2>6 DEF Passed
<1>4. advance(c, id, st)
  BY DEF claim_chunk
<1>. QED
  <2> HIDE DEF st
  <2>. QED BY <1>3, <1>4, AdvanceKeeps

LEMMA ClaimFinalizeKeeps ==
  ASSUME IInv, NEW c \in Callers, NEW id \in ProofIds, NEW head \in Heads,
         claim_finalize(c, id, head)
  PROVE  IInv'
<1> DEFINE s == checkpoint(c, id)
           digest == digest_pre_draw(head, s.program_len, s.chunks.entries)
           st == [tag |-> "lookup", d_head |-> s.d_head, program_len |-> s.program_len,
                  chunks |-> s.chunks, roll_check |-> NoChunks, pre_draw |-> digest,
                  program |-> s.chunks.entries]
<1>1. PICK p \in Proof : Passed(s, p)
  BY Consumed
<1>2. ClaimPassed(s, p)
  BY <1>1 DEF Passed, claim_finalize, consume, NoState
<1>3. /\ head = p.head /\ s.d_head = p.head
      /\ Len(s.chunks.entries) = s.program_len
      /\ InteractionPow(digest)
  BY <1>2 DEF claim_finalize, check_head, ClaimPassed
<1> DEFINE q == [head |-> p.head, program |-> s.chunks.entries, sampled |-> p.sampled,
                 fri |-> p.fri, layers |-> p.layers]
<1>4. q \in Proof /\ q.head = p.head /\ q.program = s.chunks.entries
  BY <1>2 DEF ClaimPassed, Proof
<1>5. Passed(st, q)
  <2>1. digest = PreDraw(q)
    <3> HIDE DEF s, q
    <3>. QED BY <1>3, <1>4 DEF PreDraw
  <2>2. Claimed(q)
    BY <1>2, <1>3, <1>4, <2>1 DEF Claimed, Begun, ClaimPassed
  <2>3. LookupPassed(st, q)
    <3> HIDE DEF s, q, digest
    <3>. QED BY <1>3, <1>4, <2>1, <2>2 DEF LookupPassed
  <2>. QED BY <2>3 DEF Passed
<1>6. advance(c, id, st)
  BY DEF claim_finalize
<1>. QED
  <2> HIDE DEF st, q
  <2>. QED BY <1>4, <1>5, <1>6, AdvanceKeeps

LEMMA LookupChunkKeeps ==
  ASSUME IInv, NEW c \in Callers, NEW id \in ProofIds, NEW entries \in Programs,
         lookup_chunk(c, id, entries)
  PROVE  IInv'
<1> DEFINE s == checkpoint(c, id)
           st == [tag |-> "lookup", d_head |-> s.d_head, program_len |-> s.program_len,
                  chunks |-> s.chunks, roll_check |-> roll_chunk(s.roll_check, entries),
                  pre_draw |-> s.pre_draw, program |-> s.program]
<1>1. PICK p \in Proof : Passed(s, p)
  BY Consumed
<1>2. LookupPassed(s, p)
  BY <1>1 DEF Passed, lookup_chunk, consume, NoState
<1>3. Passed(st, p)
  <2>1. LookupPassed(st, p)
    <3> HIDE DEF s
    <3>. QED BY <1>2 DEF LookupPassed
  <2>. QED BY <2>1 DEF Passed
<1>4. advance(c, id, st)
  BY DEF lookup_chunk
<1>. QED
  <2> HIDE DEF st
  <2>. QED BY <1>3, <1>4, AdvanceKeeps

LEMMA LookupFinalizeKeeps ==
  ASSUME IInv, NEW c \in Callers, NEW id \in ProofIds, NEW head \in Heads,
         lookup_finalize(c, id, head)
  PROVE  IInv'
<1> DEFINE s == checkpoint(c, id)
           st == [tag |-> "oods", d_head |-> s.d_head, pre_draw |-> s.pre_draw,
                  post_prologue |-> digest_post_prologue(s.pre_draw, head),
                  program |-> s.program]
<1>1. PICK p \in Proof : Passed(s, p)
  BY Consumed
<1>2. LookupPassed(s, p)
  BY <1>1 DEF Passed, lookup_finalize, consume, NoState
<1>3. /\ s.d_head = p.head /\ s.program = p.program /\ s.pre_draw = PreDraw(p)
      /\ s.chunks.entries = p.program
      /\ Claimed(p)
  <2> HIDE DEF s
  <2>. QED BY <1>2 DEF LookupPassed
<1>4. head = p.head /\ LogupZero(PreDraw(p), p.program, p.head)
  <2>1. head = s.d_head /\ s.roll_check = s.chunks
        /\ LogupZero(s.pre_draw, s.roll_check.entries, head)
    BY DEF lookup_finalize, check_head, chunks_bound
  <2> HIDE DEF s
  <2>. QED BY <1>3, <2>1
<1>5. Passed(st, p)
  <2>1. LookedUp(p)
    BY <1>3, <1>4 DEF LookedUp
  <2>2. OodsPassed(st, p)
    <3> HIDE DEF s
    <3>. QED BY <1>3, <1>4, <2>1 DEF OodsPassed, PostPrologue
  <2>. QED BY <2>2 DEF Passed
<1>6. advance(c, id, st)
  BY DEF lookup_finalize
<1>. QED
  <2> HIDE DEF st
  <2>. QED BY <1>5, <1>6, AdvanceKeeps

LEMMA OodsBeginKeeps ==
  ASSUME IInv, NEW c \in Callers, NEW id \in ProofIds, NEW head \in Heads,
         NEW sampled \in SampledFelts, oods_begin(c, id, head, sampled)
  PROVE  IInv'
<1> DEFINE s == checkpoint(c, id)
           st == [tag |-> "oods_eval", d_head |-> s.d_head, d_sampled |-> sampled,
                  pre_draw |-> s.pre_draw,
                  post_comp |-> digest_post_comp_commit(s.post_prologue, head),
                  families_done |-> 0, sum |-> <<>>, program |-> s.program]
<1>1. PICK p \in Proof : Passed(s, p)
  BY Consumed
<1>2. OodsPassed(s, p)
  BY <1>1 DEF Passed, oods_begin, consume, NoState
<1>3. /\ s.d_head = p.head /\ s.program = p.program
      /\ s.pre_draw = PreDraw(p) /\ s.post_prologue = PostPrologue(p)
      /\ LookedUp(p)
  <2> HIDE DEF s
  <2>. QED BY <1>2 DEF OodsPassed
<1>4. head = p.head /\ Supported(head, sampled)
  BY <1>3 DEF oods_begin, check_head
<1> DEFINE q == [head |-> p.head, program |-> p.program, sampled |-> sampled,
                 fri |-> p.fri, layers |-> p.layers]
<1>5. q \in Proof
  BY DEF Proof
<1>6. /\ PreDraw(q) = PreDraw(p) /\ PostPrologue(q) = PostPrologue(p)
      /\ PostComposition(q) = PostComposition(p)
  BY DEF PreDraw, PostPrologue, PostComposition
<1>7. Started(q)
  BY <1>3, <1>4, <1>6 DEF Started, LookedUp, Claimed, Begun
<1>8. Passed(st, q)
  <2>1. [f \in 1..0 |-> family_value(f, q.head, q.sampled)] = <<>>
    OBVIOUS
  <2>2. digest_post_comp_commit(s.post_prologue, head) = PostComposition(q)
    <3> HIDE DEF s, q
    <3>. QED BY <1>3, <1>4, <1>6 DEF PostComposition
  <2>3. EvalPassed(st, q)
    <3>1. q.head = p.head /\ q.sampled = sampled /\ q.program = p.program
      OBVIOUS
    <3> HIDE DEF s, q
    <3>. QED BY <1>3, <1>6, <1>7, <2>1, <2>2, <3>1 DEF EvalPassed
  <2>. QED BY <2>3 DEF Passed
<1>9. advance(c, id, st)
  BY DEF oods_begin
<1>. QED
  <2> HIDE DEF st, q
  <2>. QED BY <1>5, <1>8, <1>9, AdvanceKeeps

LEMMA OodsGroupKeeps ==
  ASSUME IInv, NEW c \in Callers, NEW id \in ProofIds, NEW head \in Heads,
         NEW sampled \in SampledFelts, NEW g \in 1..Len(OodsClasses),
         oods_group(c, id, g, head, sampled)
  PROVE  IInv'
<1> DEFINE s == checkpoint(c, id)
           class == OodsClasses[g]
           more == [f \in 1..class.n |-> family_value(class.first + f, head, sampled)]
           st == [tag |-> "oods_eval", d_head |-> s.d_head, d_sampled |-> s.d_sampled,
                  pre_draw |-> s.pre_draw, post_comp |-> s.post_comp,
                  families_done |-> s.families_done + class.n,
                  sum |-> s.sum \o more, program |-> s.program]
<1>1. PICK p \in Proof : Passed(s, p)
  BY Consumed
<1>2. EvalPassed(s, p)
  BY <1>1 DEF Passed, oods_group, consume, NoState
<1>3. /\ s.d_head = p.head /\ s.program = p.program /\ s.d_sampled = p.sampled
      /\ s.pre_draw = PreDraw(p) /\ s.post_comp = PostComposition(p)
      /\ s.sum = [f \in 1..s.families_done |-> family_value(f, p.head, p.sampled)]
      /\ s.families_done \in Nat
      /\ Started(p)
  <2> HIDE DEF s
  <2>. QED BY <1>2 DEF EvalPassed
<1>4. head = p.head /\ sampled = p.sampled /\ s.families_done = class.first
  BY <1>3 DEF oods_group, check_head, check_sampled
<1>5. class.n \in Nat
  <2> DEFINE R == [first : Nat, n : Nat]
  <2>1. OodsClasses \in Seq(R)
    BY RouterAssumption
  <2>2. class \in R
    <3> HIDE DEF R
    <3>. QED BY <2>1
  <2> HIDE DEF class
  <2>. QED BY <2>2
<1>6. s.sum \o more
      = [f \in 1..(s.families_done + class.n) |-> family_value(f, p.head, p.sampled)]
  <2>1. more = [f \in 1..class.n |-> family_value(s.families_done + f, p.head, p.sampled)]
    BY <1>4
  <2> HIDE DEF s, class, more
  <2>. QED BY <1>3, <1>5, <2>1, SumContinued
<1>7. Passed(st, p)
  <2>1. EvalPassed(st, p)
    <3> HIDE DEF s, class, more
    <3>1. st.families_done = s.families_done + class.n /\ st.families_done \in Nat
      BY <1>3, <1>5
    <3>2. st = [tag |-> "oods_eval", d_head |-> p.head, d_sampled |-> p.sampled,
                pre_draw |-> PreDraw(p), post_comp |-> PostComposition(p),
                families_done |-> st.families_done,
                sum |-> [f \in 1..st.families_done |->
                           family_value(f, p.head, p.sampled)],
                program |-> p.program]
      BY <1>3, <1>6, <3>1
    <3> HIDE DEF st
    <3>. QED BY <1>3, <3>1, <3>2 DEF EvalPassed
  <2>. QED BY <2>1 DEF Passed
<1>8. advance(c, id, st)
  BY DEF oods_group
<1>. QED
  <2> HIDE DEF st
  <2>. QED BY <1>7, <1>8, AdvanceKeeps

LEMMA OodsFinalizeKeeps ==
  ASSUME IInv, NEW c \in Callers, NEW id \in ProofIds, NEW head \in Heads,
         NEW sampled \in SampledFelts, oods_finalize(c, id, head, sampled)
  PROVE  IInv'
<1> DEFINE s == checkpoint(c, id)
           st == [tag |-> "fri_commit", d_head |-> s.d_head, d_sampled |-> s.d_sampled,
                  pre_fri |-> mix_sampled_values(s.post_comp, sampled),
                  program |-> s.program]
<1>1. PICK p \in Proof : Passed(s, p)
  BY Consumed
<1>2. EvalPassed(s, p)
  BY <1>1 DEF Passed, oods_finalize, consume, NoState
<1>3. /\ s.d_head = p.head /\ s.program = p.program /\ s.d_sampled = p.sampled
      /\ s.post_comp = PostComposition(p)
      /\ s.sum = [f \in 1..s.families_done |-> family_value(f, p.head, p.sampled)]
      /\ Started(p)
  <2> HIDE DEF s
  <2>. QED BY <1>2 DEF EvalPassed
<1>4. /\ head = p.head /\ sampled = p.sampled /\ s.families_done = N_FAMILIES
      /\ OodsMatches(s.post_comp, s.sum, head, sampled)
  BY <1>3 DEF oods_finalize, check_head, check_sampled
<1>5. Passed(st, p)
  <2>1. s.sum = Composition(p)
    BY <1>3, <1>4 DEF Composition
  <2>2. Evaluated(p)
    <3> HIDE DEF s
    <3>. QED BY <1>3, <1>4, <2>1 DEF Evaluated
  <2>3. CommitPassed(st, p)
    <3> HIDE DEF s
    <3>. QED BY <1>3, <1>4, <2>2 DEF CommitPassed, PreFri
  <2>. QED BY <2>3 DEF Passed
<1>6. advance(c, id, st)
  BY DEF oods_finalize
<1>. QED
  <2> HIDE DEF st
  <2>. QED BY <1>5, <1>6, AdvanceKeeps

(* Up to the FRI section, only what precedes it matters. *)
LEMMA BeforeFri ==
  ASSUME NEW p \in Proof, NEW q \in Proof,
         q.head = p.head, q.program = p.program, q.sampled = p.sampled
  PROVE  PreFri(q) = PreFri(p) /\ Evaluated(q) = Evaluated(p)
BY DEF PreFri, PostComposition, PostPrologue, PreDraw, Composition, Evaluated, Started,
       LookedUp, Claimed, Begun

LEMMA FriCommitKeeps ==
  ASSUME IInv, NEW c \in Callers, NEW id \in ProofIds, NEW head \in Heads,
         NEW fri \in FriHeads, fri_commit(c, id, head, fri)
  PROVE  IInv'
<1> DEFINE s == checkpoint(c, id)
           positions == queries_digest(s.pre_fri, fri, head)
           st == [tag |-> "group", d_head |-> s.d_head, d_sampled |-> s.d_sampled,
                  d_fri |-> fri, pre_fri |-> s.pre_fri, positions |-> positions,
                  queries_done |-> 0, answers |-> <<>>, program |-> s.program]
<1>1. PICK p \in Proof : Passed(s, p)
  BY Consumed
<1>2. CommitPassed(s, p)
  BY <1>1 DEF Passed, fri_commit, consume, NoState
<1>3. /\ s.d_head = p.head /\ s.program = p.program /\ s.d_sampled = p.sampled
      /\ s.pre_fri = PreFri(p)
      /\ Evaluated(p)
  <2> HIDE DEF s
  <2>. QED BY <1>2 DEF CommitPassed
<1>4. head = p.head /\ QueriesPow(positions)
  BY <1>3 DEF fri_commit, check_head
<1> DEFINE q == [head |-> p.head, program |-> p.program, sampled |-> p.sampled,
                 fri |-> fri, layers |-> p.layers]
<1>5. q \in Proof
  BY DEF Proof
<1>6. PreFri(q) = PreFri(p) /\ Evaluated(q)
  BY <1>3, <1>5, BeforeFri
<1>7. /\ q.head = p.head /\ q.program = p.program /\ q.sampled = p.sampled
      /\ q.fri = fri
  OBVIOUS
<1>8. positions = Positions(q)
  <2> HIDE DEF s, q
  <2>. QED BY <1>3, <1>4, <1>6, <1>7 DEF Positions
<1>9. Passed(st, q)
  <2>1. [i \in 1..0 |-> q.sampled] = <<>> /\ 0 \in 0..N_QUERIES
    BY CountsAssumption
  <2>2. Committed(q)
    BY <1>4, <1>6, <1>8 DEF Committed
  <2>3. GroupPassed(st, q)
    <3> HIDE DEF s, q, positions
    <3>. QED BY <1>3, <1>6, <1>7, <1>8, <2>1, <2>2 DEF GroupPassed
  <2>. QED BY <2>3 DEF Passed
<1>10. advance(c, id, st)
  BY DEF fri_commit
<1>. QED
  <2> HIDE DEF st, q
  <2>. QED BY <1>5, <1>9, <1>10, AdvanceKeeps

LEMMA GroupKeeps ==
  ASSUME IInv, NEW c \in Callers, NEW id \in ProofIds, NEW head \in Heads,
         NEW n \in 1..N_QUERIES, group(c, id, head, n)
  PROVE  IInv'
<1> DEFINE s == checkpoint(c, id)
           sampled == staged[slot(c, id)]
           st == [tag |-> "group", d_head |-> s.d_head, d_sampled |-> s.d_sampled,
                  d_fri |-> s.d_fri, pre_fri |-> s.pre_fri, positions |-> s.positions,
                  queries_done |-> s.queries_done + n,
                  answers |-> s.answers \o [q \in 1..n |-> sampled],
                  program |-> s.program]
<1>1. PICK p \in Proof : Passed(s, p)
  BY Consumed
<1>2. GroupPassed(s, p)
  BY <1>1 DEF Passed, group, consume, NoState
<1>3. /\ s.d_head = p.head /\ s.program = p.program /\ s.d_sampled = p.sampled
      /\ s.d_fri = p.fri /\ s.pre_fri = PreFri(p) /\ s.positions = Positions(p)
      /\ s.answers = [q \in 1..s.queries_done |-> p.sampled]
      /\ s.queries_done \in 0..N_QUERIES
      /\ Committed(p)
  <2> HIDE DEF s
  <2>. QED BY <1>2 DEF GroupPassed
<1>4. /\ head = p.head /\ sampled = p.sampled
      /\ n <= N_QUERIES - s.queries_done
      /\ RowsOpen(head, s.positions)
  BY <1>3 DEF group, check_head, check_sampled
<1>5. s.answers \o [q \in 1..n |-> sampled]
      = [q \in 1..(s.queries_done + n) |-> p.sampled]
  <2>1. s.queries_done \in Nat /\ n \in Nat
    BY <1>3, CountsAssumption
  <2>2. [q \in 1..n |-> sampled] = [q \in 1..n |-> p.sampled]
    BY <1>4
  <2> HIDE DEF s, sampled, st
  <2>3. s.answers = [q \in 1..s.queries_done |-> p.sampled]
    BY <1>3
  <2>. QED BY <2>1, <2>2, <2>3, AnswersContinued
<1>6. Passed(st, p)
  <2>1. s.queries_done + n \in 0..N_QUERIES
    <3> HIDE DEF s
    <3>. QED BY <1>3, <1>4, CountsAssumption
  <2>2. GroupPassed(st, p)
    <3> HIDE DEF s, sampled
    <3>. QED BY <1>3, <1>4, <1>5, <2>1 DEF GroupPassed
  <2>. QED BY <2>2 DEF Passed
<1>7. advance(c, id, st)
  BY DEF group
<1>. QED
  <2> HIDE DEF st
  <2>. QED BY <1>6, <1>7, AdvanceKeeps

-----------------------------------------------------------------------------
(* Folding *)

(* The evaluations after a layers of p and the first m of the supplied ones. *)
FoldedOn(p, a, layers, m) == EvalsAfter(p, a) \o [i \in 1..m |-> <<p.fri, layers[i]>>]

(* The layers of q are those of p up to a, then the ones supplied.          *)
Continues(q, p, a, layers, m) ==
  /\ q.sampled = p.sampled /\ q.fri = p.fri
  /\ \A i \in 1..a : q.layers[i] = p.layers[i]
  /\ \A i \in 1..m : q.layers[a + i] = layers[i]

LEMMA EvalsContinued ==
  ASSUME NEW p \in Proof, NEW q \in Proof, NEW a \in Nat, NEW m \in Nat, NEW layers,
         Continues(q, p, a, layers, m)
  PROVE  FoldedOn(p, a, layers, m) = EvalsAfter(q, a + m)
<1> DEFINE g == [i \in 1..(a + m) |-> <<p.fri, q.layers[i]>>]
           x == [i \in 1..a |-> <<p.fri, p.layers[i]>>]
           y == [i \in 1..m |-> <<p.fri, layers[i]>>]
           A == <<Answers(p)>>
           G == {<<p.fri, q.layers[i]>> : i \in 1..(a + m)}
           S == G \cup {Answers(p)}
<1>1. g \in [1..(a + m) -> G]
  OBVIOUS
<1>2. x = [i \in 1..a |-> g[i]] /\ y = [i \in 1..m |-> g[a + i]]
  BY DEF Continues
<1>3. x \o y = g
  <2> HIDE DEF g, x, y, G
  <2>. QED BY <1>1, <1>2, Continued
<1>4. x \in Seq(S) /\ y \in Seq(S) /\ A \in Seq(S)
  <2>1. x \in [1..a -> S] /\ y \in [1..m -> S]
    <3>1. \A i \in 1..a : g[i] \in S
      OBVIOUS
    <3>2. \A i \in 1..m : g[a + i] \in S
      OBVIOUS
    <3> HIDE DEF g, S, x, y
    <3>. QED BY <1>2, <3>1, <3>2
  <2> HIDE DEF x, y, S
  <2>2. x \in Seq(S) /\ y \in Seq(S)
    BY <2>1
  <2>3. A \in Seq(S)
    BY DEF S
  <2>. QED BY <2>2, <2>3
<1>5. (A \o x) \o y = A \o (x \o y)
  <2> HIDE DEF A, x, y, S
  <2>. QED BY <1>4
<1>6. FoldedOn(p, a, layers, m) = (A \o x) \o y /\ EvalsAfter(q, a + m) = A \o g
  BY DEF FoldedOn, EvalsAfter, Answers, Continues
<1>. QED
  <2> HIDE DEF A, x, g
  <2>. QED BY <1>3, <1>5, <1>6

LEMMA Folding ==
  ASSUME NEW p \in Proof, NEW a \in Nat, NEW layers \in LayerChunks,
         a + Len(layers) <= N_INNER + 1,
         \A n \in 1..a : LayerPasses(p, n),
         layers_verify(PreFri(p), p.fri, EvalsAfter(p, a), layers)
  PROVE  \E q \in Proof :
           /\ q.head = p.head /\ q.program = p.program
           /\ q.sampled = p.sampled /\ q.fri = p.fri
           /\ \A n \in 1..(a + Len(layers)) : LayerPasses(q, n)
           /\ fold_layers(p.fri, EvalsAfter(p, a), layers)
                = EvalsAfter(q, a + Len(layers))
<1>1. PICK m \in 1..(N_INNER + 1) : layers \in [1..m -> LayerProofs]
  BY DEF LayerChunks
<1>2. Len(layers) = m
  BY <1>1, CountsAssumption
<1> DEFINE ql == [i \in 1..(N_INNER + 1) |->
                    IF i \in (a + 1)..(a + m) THEN layers[i - a] ELSE p.layers[i]]
           q == [head |-> p.head, program |-> p.program, sampled |-> p.sampled,
                 fri |-> p.fri, layers |-> ql]
<1>3. ql \in [1..(N_INNER + 1) -> LayerProofs]
  <2>1. p.layers \in [1..(N_INNER + 1) -> LayerProofs]
    BY DEF Proof
  <2>. QED BY <1>1, <2>1, CountsAssumption
<1>4. q \in Proof
  <2> HIDE DEF ql
  <2>. QED BY <1>3 DEF Proof
<1>5. /\ q.head = p.head /\ q.program = p.program /\ q.sampled = p.sampled
      /\ q.fri = p.fri /\ q.layers = ql
  OBVIOUS
<1>6. /\ \A i \in 1..a : ql[i] = p.layers[i]
      /\ \A i \in 1..m : ql[a + i] = layers[i]
  BY <1>1, <1>2, CountsAssumption
<1>7. ASSUME NEW k \in 0..m
      PROVE  FoldedOn(p, a, layers, k) = EvalsAfter(q, a + k)
  <2> HIDE DEF q, ql
  <2>1. \A i \in 1..k : q.layers[a + i] = layers[i]
    BY <1>5, <1>6
  <2>2. \A i \in 1..a : q.layers[i] = p.layers[i]
    BY <1>5, <1>6
  <2>3. k \in Nat
    BY CountsAssumption
  <2>4. q.sampled = p.sampled /\ q.fri = p.fri
    BY <1>5
  <2>5. Continues(q, p, a, layers, k)
    BY <2>1, <2>2, <2>4 DEF Continues
  <2>. QED BY <1>4, <2>3, <2>5, EvalsContinued
<1>8. PreFri(q) = PreFri(p)
  BY <1>4, <1>5, BeforeFri
<1>9. ASSUME NEW n \in 1..(a + m) PROVE LayerPasses(q, n)
  <2>1. CASE n <= a
    <3>1. EvalsAfter(q, n - 1) = EvalsAfter(p, n - 1)
      <4>1. \A i \in 1..(n - 1) : q.layers[i] = p.layers[i]
        BY <1>6, <2>1
      <4> HIDE DEF q, ql
      <4>. QED BY <4>1, <1>5 DEF EvalsAfter, Answers
    <3>2. q.layers[n] = p.layers[n]
      BY <1>6, <2>1
    <3> HIDE DEF q, ql
    <3>. QED BY <2>1, <3>1, <3>2, <1>5, <1>8 DEF LayerPasses
  <2>2. CASE n > a
    <3> DEFINE k == n - a
    <3>1. k \in 1..m /\ k - 1 \in 0..m /\ a + k = n /\ a + (k - 1) = n - 1
      BY <2>2
    <3>2. LayerVerifies(PreFri(p), p.fri,
                        FoldedOn(p, a, layers, k - 1), layers[k])
      BY <1>2, <3>1 DEF layers_verify, FoldedOn
    <3>3. q.layers[n] = layers[k]
      BY <1>6, <3>1
    <3> HIDE DEF k, q, ql
    <3>4. LayerVerifies(PreFri(q), q.fri, EvalsAfter(q, n - 1), q.layers[n])
      BY <1>5, <1>7, <1>8, <3>1, <3>2, <3>3
    <3>. QED BY <3>4 DEF LayerPasses
  <2>. QED BY <2>1, <2>2
<1>10. fold_layers(p.fri, EvalsAfter(p, a), layers) = EvalsAfter(q, a + m)
  <2> HIDE DEF q, ql
  <2>. QED BY <1>2, <1>7 DEF fold_layers, FoldedOn
<1>. QED
  <2> HIDE DEF q, ql
  <2>. QED BY <1>2, <1>4, <1>5, <1>9, <1>10

LEMMA FriLayersBeginKeeps ==
  ASSUME IInv, NEW c \in Callers, NEW id \in ProofIds, NEW head \in Heads,
         NEW fri \in FriHeads, NEW layers \in LayerChunks,
         fri_layers_begin(c, id, head, fri, layers)
  PROVE  IInv'
<1> DEFINE s == checkpoint(c, id)
           st == [tag |-> "fri_layers", d_head |-> s.d_head, d_fri |-> s.d_fri,
                  pre_fri |-> s.pre_fri, positions |-> s.positions,
                  layers_done |-> Len(layers) - 1,
                  evals |-> fold_layers(fri, <<s.answers>>, layers),
                  program |-> s.program]
<1>1. PICK p \in Proof : Passed(s, p)
  BY Consumed
<1>2. GroupPassed(s, p)
  BY <1>1 DEF Passed, fri_layers_begin, consume, NoState
<1>3. /\ s.d_head = p.head /\ s.program = p.program /\ s.d_sampled = p.sampled
      /\ s.d_fri = p.fri /\ s.pre_fri = PreFri(p) /\ s.positions = Positions(p)
      /\ s.answers = [q \in 1..s.queries_done |-> p.sampled]
      /\ s.queries_done \in 0..N_QUERIES
      /\ Committed(p)
      /\ s.queries_done > 0 => RowsOpen(p.head, Positions(p))
  <2> HIDE DEF s
  <2>. QED BY <1>2 DEF GroupPassed
<1>4. /\ head = p.head /\ fri = p.fri /\ s.queries_done = N_QUERIES
      /\ Len(layers) \in 1..(N_INNER + 1)
      /\ layers_verify(s.pre_fri, fri, <<s.answers>>, layers)
  BY <1>3 DEF fri_layers_begin, check_head, check_fri
<1>5. <<s.answers>> = EvalsAfter(p, 0)
  <2>1. s.answers = Answers(p)
    BY <1>3, <1>4 DEF Answers
  <2>2. [i \in 1..0 |-> <<p.fri, p.layers[i]>>] = <<>>
    OBVIOUS
  <2>3. <<Answers(p)>> \o <<>> = <<Answers(p)>>
    <3>1. <<Answers(p)>> \in Seq({Answers(p)})
      OBVIOUS
    <3>. QED BY <3>1
  <2> HIDE DEF s
  <2>. QED BY <2>1, <2>2, <2>3 DEF EvalsAfter
<1>6. layers_verify(PreFri(p), p.fri, EvalsAfter(p, 0), layers)
  BY <1>3, <1>4, <1>5
<1>7. PICK q \in Proof :
        /\ q.head = p.head /\ q.program = p.program
        /\ q.sampled = p.sampled /\ q.fri = p.fri
        /\ \A n \in 1..(0 + Len(layers)) : LayerPasses(q, n)
        /\ fold_layers(p.fri, EvalsAfter(p, 0), layers) = EvalsAfter(q, 0 + Len(layers))
  <2>1. 0 + Len(layers) <= N_INNER + 1 /\ \A n \in 1..0 : LayerPasses(p, n)
    BY <1>4, CountsAssumption
  <2>. QED BY <1>6, <2>1, Folding
<1>8. Queried(q) /\ Positions(q) = Positions(p) /\ PreFri(q) = PreFri(p)
  <2>1. PreFri(q) = PreFri(p) /\ Evaluated(q) = Evaluated(p)
    BY <1>7, BeforeFri
  <2>2. Positions(q) = Positions(p)
    BY <1>7, <2>1 DEF Positions
  <2>3. N_QUERIES > 0 => RowsOpen(p.head, Positions(p))
    BY <1>3, <1>4
  <2>. QED BY <1>3, <1>7, <2>1, <2>2, <2>3 DEF Queried, Committed
<1>9. Passed(st, q)
  <2>1. st.layers_done = Len(layers) - 1 /\ st.layers_done \in 0..N_INNER
        /\ st.layers_done + 1 = Len(layers) /\ 0 + Len(layers) = Len(layers)
    BY <1>4, CountsAssumption
  <2>2. st.evals = EvalsAfter(q, st.layers_done + 1)
    BY <1>4, <1>5, <1>7, <2>1
  <2>3. st = [tag |-> "fri_layers", d_head |-> q.head, d_fri |-> q.fri,
              pre_fri |-> PreFri(q), positions |-> Positions(q),
              layers_done |-> st.layers_done, evals |-> EvalsAfter(q, st.layers_done + 1),
              program |-> q.program]
    <3>1. st = [tag |-> "fri_layers", d_head |-> s.d_head, d_fri |-> s.d_fri,
                pre_fri |-> s.pre_fri, positions |-> s.positions,
                layers_done |-> st.layers_done, evals |-> st.evals,
                program |-> s.program]
      OBVIOUS
    <3> HIDE DEF s, st
    <3>. QED BY <1>3, <1>7, <1>8, <2>2, <3>1
  <2>4. \A n \in 1..(st.layers_done + 1) : LayerPasses(q, n)
    BY <1>7, <2>1
  <2>5. st.tag = "fri_layers"
    OBVIOUS
  <2> HIDE DEF st
  <2>. QED BY <1>8, <2>1, <2>3, <2>4, <2>5 DEF LayersPassed, Passed
<1>10. advance(c, id, st)
  BY DEF fri_layers_begin
<1>. QED
  <2> HIDE DEF st
  <2>. QED BY <1>9, <1>10, AdvanceKeeps

LEMMA FriLayersKeeps ==
  ASSUME IInv, NEW c \in Callers, NEW id \in ProofIds, NEW head \in Heads,
         NEW fri \in FriHeads, NEW layers \in LayerChunks,
         fri_layers(c, id, head, fri, layers)
  PROVE  IInv'
<1> DEFINE s == checkpoint(c, id)
           st == [tag |-> "fri_layers", d_head |-> s.d_head, d_fri |-> s.d_fri,
                  pre_fri |-> s.pre_fri, positions |-> s.positions,
                  layers_done |-> s.layers_done + Len(layers),
                  evals |-> fold_layers(fri, s.evals, layers), program |-> s.program]
           a == s.layers_done + 1
<1>1. PICK p \in Proof : Passed(s, p)
  BY Consumed
<1>2. LayersPassed(s, p)
  BY <1>1 DEF Passed, fri_layers, consume, NoState
<1>3. /\ s.d_head = p.head /\ s.program = p.program
      /\ s.d_fri = p.fri /\ s.pre_fri = PreFri(p) /\ s.positions = Positions(p)
      /\ s.evals = EvalsAfter(p, a)
      /\ s.layers_done \in 0..N_INNER
      /\ Queried(p)
      /\ \A n \in 1..a : LayerPasses(p, n)
  <2> HIDE DEF s
  <2>. QED BY <1>2 DEF LayersPassed
<1>4. /\ head = p.head /\ fri = p.fri
      /\ s.layers_done + Len(layers) <= N_INNER
      /\ layers_verify(s.pre_fri, fri, s.evals, layers)
  BY <1>3 DEF fri_layers, check_head, check_fri
<1>5. Len(layers) \in Nat
  <2>1. PICK m \in 1..(N_INNER + 1) : layers \in [1..m -> LayerProofs]
    BY DEF LayerChunks
  <2>. QED BY <2>1, CountsAssumption
<1>6. layers_verify(PreFri(p), p.fri, EvalsAfter(p, a), layers)
  <2> HIDE DEF s, a
  <2>. QED BY <1>3, <1>4
<1>7. PICK q \in Proof :
        /\ q.head = p.head /\ q.program = p.program
        /\ q.sampled = p.sampled /\ q.fri = p.fri
        /\ \A n \in 1..(a + Len(layers)) : LayerPasses(q, n)
        /\ fold_layers(p.fri, EvalsAfter(p, a), layers) = EvalsAfter(q, a + Len(layers))
  <2>1. a \in Nat /\ a + Len(layers) <= N_INNER + 1
    <3> HIDE DEF s
    <3>. QED BY <1>3, <1>4, <1>5, CountsAssumption
  <2> HIDE DEF a
  <2>. QED BY <1>3, <1>6, <2>1, Folding
<1>8. Queried(q) /\ Positions(q) = Positions(p) /\ PreFri(q) = PreFri(p)
  <2>1. PreFri(q) = PreFri(p) /\ Evaluated(q) = Evaluated(p)
    BY <1>7, BeforeFri
  <2>2. Positions(q) = Positions(p)
    BY <1>7, <2>1 DEF Positions
  <2>. QED BY <1>3, <1>7, <2>1, <2>2 DEF Queried, Committed
<1>9. Passed(st, q)
  <2>1. st.layers_done = s.layers_done + Len(layers) /\ st.layers_done \in 0..N_INNER
        /\ st.layers_done + 1 = a + Len(layers)
    <3> HIDE DEF s
    <3>. QED BY <1>3, <1>4, <1>5, CountsAssumption
  <2>2. st.evals = EvalsAfter(q, st.layers_done + 1)
    <3>1. st.evals = fold_layers(fri, s.evals, layers)
      OBVIOUS
    <3> HIDE DEF s, st, a
    <3>. QED BY <1>3, <1>4, <1>7, <2>1, <3>1
  <2>3. st = [tag |-> "fri_layers", d_head |-> q.head, d_fri |-> q.fri,
              pre_fri |-> PreFri(q), positions |-> Positions(q),
              layers_done |-> st.layers_done, evals |-> EvalsAfter(q, st.layers_done + 1),
              program |-> q.program]
    <3>1. st = [tag |-> "fri_layers", d_head |-> s.d_head, d_fri |-> s.d_fri,
                pre_fri |-> s.pre_fri, positions |-> s.positions,
                layers_done |-> st.layers_done, evals |-> st.evals,
                program |-> s.program]
      OBVIOUS
    <3> HIDE DEF s, st, a
    <3>. QED BY <1>3, <1>7, <1>8, <2>2, <3>1
  <2>4. \A n \in 1..(st.layers_done + 1) : LayerPasses(q, n)
    <3> HIDE DEF st, a
    <3>. QED BY <1>7, <2>1
  <2>5. st.tag = "fri_layers"
    OBVIOUS
  <2> HIDE DEF st
  <2>. QED BY <1>8, <2>1, <2>3, <2>4, <2>5 DEF LayersPassed, Passed
<1>10. advance(c, id, st)
  BY DEF fri_layers
<1>. QED
  <2> HIDE DEF st
  <2>. QED BY <1>9, <1>10, AdvanceKeeps

LEMMA FinalizeKeeps ==
  ASSUME IInv, NEW c \in Callers, NEW id \in ProofIds, NEW head \in Heads,
         NEW fri \in FriHeads, finalize(c, id, head, fri)
  PROVE  /\ IInv'
         /\ \E f \in AcceptedFacts : VF!Verify(f)
<1> DEFINE s == checkpoint(c, id)
           f == fact(s.program, head)
           st == [tag |-> "done", fact |-> f]
<1>1. PICK p \in Proof : Passed(s, p)
  BY Consumed
<1>2. LayersPassed(s, p)
  BY <1>1 DEF Passed, finalize, consume, NoState
<1>3. /\ s.d_head = p.head /\ s.program = p.program /\ s.d_fri = p.fri
      /\ s.pre_fri = PreFri(p) /\ s.evals = EvalsAfter(p, s.layers_done + 1)
      /\ Queried(p)
      /\ \A n \in 1..(s.layers_done + 1) : LayerPasses(p, n)
  <2> HIDE DEF s
  <2>. QED BY <1>2 DEF LayersPassed
<1>4. /\ head = p.head /\ fri = p.fri /\ s.layers_done = N_INNER
      /\ LastLayer(s.pre_fri, fri, s.evals)
  BY <1>3 DEF finalize, check_head, check_fri
<1>5. f = fact(p.program, p.head)
  BY <1>3, <1>4
<1>6. Accepts(p)
  <2> HIDE DEF s
  <2>1. Folded(p)
    BY <1>3, <1>4 DEF Folded
  <2>. QED BY <1>3, <1>4, <2>1 DEF Accepts
<1>7. Passed(st, p)
  BY <1>5, <1>6 DEF Passed, DonePassed
<1>8. advance(c, id, st) /\ register_fact(Router, f)
  BY DEF finalize
<1>9. IInv'
  <2> HIDE DEF st
  <2>. QED BY <1>7, <1>8, AdvanceKeeps
<1>10. f \in AcceptedFacts
  BY <1>5, <1>6 DEF AcceptedFacts
<1>11. VF!Verify(f)
  <2> HIDE DEF f
  <2>. QED BY <1>8 DEF register_fact, VF!Verify
<1>. QED BY <1>9, <1>10, <1>11

LEMMA OthersKeep ==
  ASSUME IInv, UNCHANGED checkpoints
  PROVE  IInv'
BY DEF IInv, Shape, PhasesPassed

-----------------------------------------------------------------------------
(* All calls *)

LEMMA InitKeeps ==
  ASSUME Init
  PROVE  IInv
<1>1. PICK head \in Heads, sampled \in SampledFelts, fri \in FriHeads,
           l \in LayerProofs : TRUE
  BY SectionsAssumption
<1> DEFINE p == [head |-> head, program |-> <<>>, sampled |-> sampled, fri |-> fri,
                 layers |-> [i \in 1..(N_INNER + 1) |-> l]]
<1>2. <<>> \in Programs
  <2>1. <<>> \in [1..0 -> Memory] /\ 0 \in 0..MAX_PROGRAM
    BY CountsAssumption
  <2>. QED BY <2>1 DEF Programs
<1>3. p \in Proof
  BY <1>2 DEF Proof
<1>4. ASSUME NEW k \in Keys PROVE checkpoints[k] = NoState
  BY DEF Init, Keys
<1>5. Shape
  BY DEF Init, Shape, Keys
<1> HIDE DEF p
<1>6. PhasesPassed
  BY <1>3, <1>4 DEF PhasesPassed, Keys, Passed
<1>. QED BY <1>5, <1>6 DEF IInv

(* Every step keeps the invariant and is one of the abstract registry, most *)
(* of them one that changes nothing there.                                  *)
LEMMA StepKeeps ==
  ASSUME IInv, [Next]_vars
  PROVE  IInv' /\ [VF!Next]_(VF!vars)
<1>1. CASE UNCHANGED vars
  BY <1>1, OthersKeep DEF vars, registryVars, VF!vars
<1>2. ASSUME NEW c \in Callers, Staging(c) PROVE IInv' /\ [VF!Next]_(VF!vars)
  <2>1. PICK id \in ProofIds, offset \in Slots, slots \in SlotRuns :
          stage(c, id, offset, slots)
    BY <1>2 DEF Staging
  <2>. QED BY <2>1, OthersKeep DEF stage, registryVars, VF!vars
<1>3. ASSUME NEW c \in Callers, Claiming(c) PROVE IInv' /\ [VF!Next]_(VF!vars)
  <2>1. PICK id \in ProofIds :
          \/ \E head \in Heads, n \in 0..MAX_PROGRAM : begin(c, id, head, n)
          \/ \E entries \in Programs : claim_chunk(c, id, entries)
          \/ \E head \in Heads : claim_finalize(c, id, head)
    BY <1>3 DEF Claiming
  <2>2. ASSUME NEW head \in Heads, NEW n \in 0..MAX_PROGRAM, begin(c, id, head, n)
        PROVE  IInv' /\ [VF!Next]_(VF!vars)
    BY <2>2, BeginKeeps DEF begin, registryVars, VF!vars
  <2>3. ASSUME NEW entries \in Programs, claim_chunk(c, id, entries)
        PROVE  IInv' /\ [VF!Next]_(VF!vars)
    BY <2>3, ClaimChunkKeeps DEF claim_chunk, registryVars, VF!vars
  <2>4. ASSUME NEW head \in Heads, claim_finalize(c, id, head)
        PROVE  IInv' /\ [VF!Next]_(VF!vars)
    BY <2>4, ClaimFinalizeKeeps DEF claim_finalize, registryVars, VF!vars
  <2>. QED BY <2>1, <2>2, <2>3, <2>4
<1>4. ASSUME NEW c \in Callers, LookingUp(c) PROVE IInv' /\ [VF!Next]_(VF!vars)
  <2>1. PICK id \in ProofIds :
          \/ \E entries \in Programs : lookup_chunk(c, id, entries)
          \/ \E head \in Heads : lookup_finalize(c, id, head)
    BY <1>4 DEF LookingUp
  <2>2. ASSUME NEW entries \in Programs, lookup_chunk(c, id, entries)
        PROVE  IInv' /\ [VF!Next]_(VF!vars)
    BY <2>2, LookupChunkKeeps DEF lookup_chunk, registryVars, VF!vars
  <2>3. ASSUME NEW head \in Heads, lookup_finalize(c, id, head)
        PROVE  IInv' /\ [VF!Next]_(VF!vars)
    BY <2>3, LookupFinalizeKeeps DEF lookup_finalize, registryVars, VF!vars
  <2>. QED BY <2>1, <2>2, <2>3
<1>5. ASSUME NEW c \in Callers, Evaluating(c) PROVE IInv' /\ [VF!Next]_(VF!vars)
  <2>1. PICK id \in ProofIds, head \in Heads, sampled \in SampledFelts :
          \/ oods_begin(c, id, head, sampled)
          \/ \E g \in 1..Len(OodsClasses) : oods_group(c, id, g, head, sampled)
          \/ oods_finalize(c, id, head, sampled)
    BY <1>5 DEF Evaluating
  <2>2. CASE oods_begin(c, id, head, sampled)
    BY <2>2, OodsBeginKeeps DEF oods_begin, registryVars, VF!vars
  <2>3. ASSUME NEW g \in 1..Len(OodsClasses), oods_group(c, id, g, head, sampled)
        PROVE  IInv' /\ [VF!Next]_(VF!vars)
    BY <2>3, OodsGroupKeeps DEF oods_group, registryVars, VF!vars
  <2>4. CASE oods_finalize(c, id, head, sampled)
    BY <2>4, OodsFinalizeKeeps DEF oods_finalize, registryVars, VF!vars
  <2>. QED BY <2>1, <2>2, <2>3, <2>4
<1>6. ASSUME NEW c \in Callers, Decommitting(c) PROVE IInv' /\ [VF!Next]_(VF!vars)
  <2>1. PICK id \in ProofIds, head \in Heads :
          \/ \E n \in 1..N_QUERIES : group(c, id, head, n)
          \/ \E fri \in FriHeads :
               \/ fri_commit(c, id, head, fri)
               \/ \E layers \in LayerChunks :
                    \/ fri_layers_begin(c, id, head, fri, layers)
                    \/ fri_layers(c, id, head, fri, layers)
               \/ finalize(c, id, head, fri)
    BY <1>6 DEF Decommitting
  <2>2. ASSUME NEW n \in 1..N_QUERIES, group(c, id, head, n)
        PROVE  IInv' /\ [VF!Next]_(VF!vars)
    BY <2>2, GroupKeeps DEF group, registryVars, VF!vars
  <2>3. ASSUME NEW fri \in FriHeads, fri_commit(c, id, head, fri)
        PROVE  IInv' /\ [VF!Next]_(VF!vars)
    BY <2>3, FriCommitKeeps DEF fri_commit, registryVars, VF!vars
  <2>4. ASSUME NEW fri \in FriHeads, NEW layers \in LayerChunks,
               fri_layers_begin(c, id, head, fri, layers)
        PROVE  IInv' /\ [VF!Next]_(VF!vars)
    BY <2>4, FriLayersBeginKeeps DEF fri_layers_begin, registryVars, VF!vars
  <2>5. ASSUME NEW fri \in FriHeads, NEW layers \in LayerChunks,
               fri_layers(c, id, head, fri, layers)
        PROVE  IInv' /\ [VF!Next]_(VF!vars)
    BY <2>5, FriLayersKeeps DEF fri_layers, registryVars, VF!vars
  <2>6. ASSUME NEW fri \in FriHeads, finalize(c, id, head, fri)
        PROVE  IInv' /\ [VF!Next]_(VF!vars)
    BY <2>6, FinalizeKeeps DEF VF!Next
  <2>. QED BY <2>1, <2>2, <2>3, <2>4, <2>5, <2>6
<1>7. ASSUME NEW c \in Callers, Governing(c) PROVE IInv' /\ [VF!Next]_(VF!vars)
  <2>1. CASE add_route(c, Router)
    BY <2>1, OthersKeep DEF add_route, VF!Next, VF!AddRoute
  <2>2. CASE freeze_routes(c)
    BY <2>2, OthersKeep DEF freeze_routes, VF!Next, VF!Freeze
  <2>. QED BY <1>7, <2>1, <2>2 DEF Governing
<1>. QED BY <1>1, <1>2, <1>3, <1>4, <1>5, <1>6, <1>7 DEF Next, Calling

LEMMA Invariance == Spec => []IInv
<1>1. Init => IInv
  BY InitKeeps
<1>2. IInv /\ [Next]_vars => IInv'
  BY StepKeeps
<1>. QED BY <1>1, <1>2, PTL DEF Spec

(* Every checkpoint stands for one proof, the sections of which are the     *)
(* same in all phases (the echoed states, d_head, d_sampled, d_fri and the  *)
(* two chunk digests of machine.cairo), and passed all checks so far.       *)
THEOREM CheckpointsPassedTheirPhases == Spec => []PhasesPassed
<1>1. IInv => PhasesPassed
  BY DEF IInv
<1>. QED BY <1>1, Invariance, PTL

(* The router and the registry implement the abstract registry: a fact is   *)
(* registered only if one proof with this fact passes all checks of the     *)
(* verifier, and only by a listed route (router.cairo, finalize).           *)
THEOREM RouterImplementsVerifier == Spec => ImplementsVerifier
<1>1. Init => VF!Init
  BY DEF Init, VF!Init
<1>2. IInv /\ [Next]_vars => [VF!Next]_(VF!vars)
  BY StepKeeps
<1>. QED BY <1>1, <1>2, Invariance, PTL DEF Spec, ImplementsVerifier, VF!Spec
=============================================================================
