--------------------------- MODULE VerifierRouter ---------------------------
(***************************************************************************)
(* The verification router and the shared fact registry: one verification  *)
(* spread over many transactions.  The router keeps one checkpoint for     *)
(* every caller and proof id, and the sampled section that a caller        *)
(* staged; every call brings everything else again.                        *)
(*                                                                         *)
(* Two kinds of callers: the Driver, which deploys the registry and sends  *)
(* the calls of one proof in order (scripts/devnet_drive.py), and any      *)
(* number of others, which call what they like with what they like.        *)
(*                                                                         *)
(* Abstractions.                                                           *)
(*   - The state a call echoes must hash to the checkpoint, so the echo is *)
(*     the state stored: it is no parameter.  A call that would revert     *)
(*     changes nothing and is no step.                                     *)
(*   - The rolling digest over the chunks of the program is all entries so *)
(*     far with the lengths at which a chunk ended; the claim mix and the  *)
(*     fact sponge absorb the same entries.                                *)
(*   - A group of no queries, an empty chunk of the program and the        *)
(*     packing of calldata are left out; all N_SLOTS slots of a staged     *)
(*     section are read, so none is written beyond them.                   *)
(*   - The router is the only route that is ever added: register_fact of   *)
(*     anybody else reverts.                                               *)
(***************************************************************************)
EXTENDS VerifierRules

CONSTANTS
  Callers, Driver,  \* who calls; the driver is one of them
  ProofIds,
  Parts,            \* what one slot of a staged section may hold
  N_SLOTS,          \* slots of a packed sampled section
  Zero,             \* the felt of an unwritten slot
  OodsClasses,      \* the group classes: first family and number of families
  Router,           \* the router, a route of the registry once it is listed
  MAX_CHUNKS,       \* bound: chunks per phase
  Script            \* the driver's calls, in order

Slots == 0..(N_SLOTS - 1)

ASSUME RouterAssumption ==
  /\ Driver \in Callers
  /\ SampledFelts \subseteq [Slots -> Parts]
  /\ Zero \in Parts
  /\ N_SLOTS \in Nat
  /\ MAX_CHUNKS \in Nat
  /\ OodsClasses \in Seq([first : Nat, n : Nat])

VARIABLES
  checkpoints,  \* (caller, proof id) -> the tag and the state
  staged,       \* (caller, proof id) -> the slots of the sampled section
  routes, frozen, facts,  \* the registry
  pc            \* the driver's next call

registryVars == <<routes, frozen, facts>>
vars == <<checkpoints, staged, registryVars, pc>>

(* Mutant: callers share what a proof id holds. *)
slot_shared(caller, id) == <<Driver, id>>

slot(caller, id) == <<caller, id>>

(* A call is sent.  The driver sends its next one only.                     *)
by(caller, call) ==
  IF caller # Driver
  THEN pc' = pc
  ELSE /\ pc <= Len(Script)
       /\ Script[pc] = call
       /\ pc' = pc + 1

checkpoint(caller, id) == checkpoints[slot(caller, id)]

consume(caller, id, tag) == checkpoint(caller, id).tag = tag

advance(caller, id, state) ==
  /\ checkpoints' = [checkpoints EXCEPT ![slot(caller, id)] = state]
  /\ UNCHANGED staged

NoChunks == [entries |-> <<>>, cuts |-> <<>>]

roll_chunk(roll, entries) ==
  [entries |-> roll.entries \o entries,
   cuts |-> Append(roll.cuts, Len(roll.entries) + Len(entries))]

check_head(head, state) == head = state.d_head

(* Mutant: the sampled section brought again is not compared. *)
check_sampled_any(sampled, state) == TRUE

check_sampled(sampled, state) == sampled = state.d_sampled

check_fri(fri, state) == fri = state.d_fri

(* Mutant: the lookup phase only counts the entries. *)
chunks_counted(state) == TRUE

(* The lookup phase saw what the claim phase absorbed, in the same chunks.  *)
chunks_bound(state) == state.roll_check = state.chunks

-----------------------------------------------------------------------------
(* Staging *)

stage(caller, id, offset, slots) ==
  /\ by(caller, [fn |-> "stage", id |-> id, offset |-> offset, slots |-> slots])
  /\ offset + Len(slots) <= N_SLOTS
  /\ staged' = [staged EXCEPT ![slot(caller, id)] =
                  [i \in Slots |-> IF i \in offset..(offset + Len(slots) - 1)
                                   THEN slots[i - offset + 1] ELSE @[i]]]
  /\ UNCHANGED <<checkpoints, registryVars>>

(* Claim: the program arrives in chunks *)

begin(caller, id, head, program_len) ==
  /\ consume(caller, id, "none")
  /\ by(caller, [fn |-> "begin", id |-> id, head |-> head, program_len |-> program_len])
  /\ ClaimHolds(head)
  /\ advance(caller, id, [tag |-> "claim", d_head |-> head,
                          program_len |-> program_len, chunks |-> NoChunks])
  /\ UNCHANGED registryVars

claim_chunk(caller, id, entries) ==
  /\ consume(caller, id, "claim")
  /\ by(caller, [fn |-> "claim_chunk", id |-> id, entries |-> entries])
  /\ LET s == checkpoint(caller, id)
     IN  /\ Len(s.chunks.entries) + Len(entries) <= s.program_len
         /\ Len(s.chunks.cuts) < MAX_CHUNKS
         /\ advance(caller, id,
              [tag |-> "claim", d_head |-> s.d_head, program_len |-> s.program_len,
               chunks |-> roll_chunk(s.chunks, entries)])
  /\ UNCHANGED registryVars

claim_finalize(caller, id, head) ==
  /\ consume(caller, id, "claim")
  /\ by(caller, [fn |-> "claim_finalize", id |-> id, head |-> head])
  /\ LET s == checkpoint(caller, id)
         digest == digest_pre_draw(head, s.program_len, s.chunks.entries)
     IN  /\ Len(s.chunks.entries) = s.program_len
         /\ check_head(head, s)
         /\ InteractionPow(digest)
         /\ advance(caller, id,
              [tag |-> "lookup", d_head |-> s.d_head, program_len |-> s.program_len,
               chunks |-> s.chunks, roll_check |-> NoChunks, pre_draw |-> digest,
               program |-> s.chunks.entries])
  /\ UNCHANGED registryVars

(* Lookup: the same chunks arrive again *)

lookup_chunk(caller, id, entries) ==
  /\ consume(caller, id, "lookup")
  /\ by(caller, [fn |-> "lookup_chunk", id |-> id, entries |-> entries])
  /\ LET s == checkpoint(caller, id)
     IN  /\ Len(s.roll_check.entries) + Len(entries) <= s.program_len
         /\ Len(s.roll_check.cuts) < MAX_CHUNKS
         /\ advance(caller, id,
              [tag |-> "lookup", d_head |-> s.d_head, program_len |-> s.program_len,
               chunks |-> s.chunks, roll_check |-> roll_chunk(s.roll_check, entries),
               pre_draw |-> s.pre_draw, program |-> s.program])
  /\ UNCHANGED registryVars

lookup_finalize(caller, id, head) ==
  /\ consume(caller, id, "lookup")
  /\ by(caller, [fn |-> "lookup_finalize", id |-> id, head |-> head])
  /\ LET s == checkpoint(caller, id)
     IN  /\ Len(s.roll_check.entries) = s.program_len
         /\ chunks_bound(s)
         /\ check_head(head, s)
         /\ LogupZero(s.pre_draw, s.roll_check.entries, head)
         /\ advance(caller, id,
              [tag |-> "oods", d_head |-> s.d_head, pre_draw |-> s.pre_draw,
               post_prologue |-> digest_post_prologue(s.pre_draw, head),
               program |-> s.program])
  /\ UNCHANGED registryVars

(* OODS: the composition polynomial, a class of families at a time *)

oods_begin(caller, id, head, sampled) ==
  /\ consume(caller, id, "oods")
  /\ by(caller, [fn |-> "oods_begin", id |-> id, head |-> head, sampled |-> sampled])
  /\ LET s == checkpoint(caller, id)
     IN  /\ check_head(head, s)
         /\ Supported(head, sampled)
         /\ advance(caller, id,
              [tag |-> "oods_eval", d_head |-> s.d_head, d_sampled |-> sampled,
               pre_draw |-> s.pre_draw,
               post_comp |-> digest_post_comp_commit(s.post_prologue, head),
               families_done |-> 0, sum |-> <<>>, program |-> s.program])
  /\ UNCHANGED registryVars

oods_group(caller, id, group_index, head, sampled) ==
  /\ consume(caller, id, "oods_eval")
  /\ by(caller, [fn |-> "oods_group", id |-> id, group_index |-> group_index,
                 head |-> head, sampled |-> sampled])
  /\ LET s == checkpoint(caller, id)
         class == OodsClasses[group_index]
     IN  /\ s.families_done = class.first
         /\ check_head(head, s)
         /\ check_sampled(sampled, s)
         /\ advance(caller, id,
              [tag |-> "oods_eval", d_head |-> s.d_head, d_sampled |-> s.d_sampled,
               pre_draw |-> s.pre_draw, post_comp |-> s.post_comp,
               families_done |-> s.families_done + class.n,
               sum |-> s.sum \o [f \in 1..class.n |->
                                  family_value(class.first + f, head, sampled)],
               program |-> s.program])
  /\ UNCHANGED registryVars

oods_finalize(caller, id, head, sampled) ==
  /\ consume(caller, id, "oods_eval")
  /\ by(caller, [fn |-> "oods_finalize", id |-> id, head |-> head, sampled |-> sampled])
  /\ LET s == checkpoint(caller, id)
     IN  /\ s.families_done = N_FAMILIES
         /\ check_head(head, s)
         /\ check_sampled(sampled, s)
         /\ OodsMatches(s.post_comp, s.sum, head, sampled)
         /\ advance(caller, id,
              [tag |-> "fri_commit", d_head |-> s.d_head, d_sampled |-> s.d_sampled,
               pre_fri |-> mix_sampled_values(s.post_comp, sampled),
               program |-> s.program])
  /\ UNCHANGED registryVars

(* FRI: commitments, query groups, layers *)

fri_commit(caller, id, head, fri) ==
  /\ consume(caller, id, "fri_commit")
  /\ by(caller, [fn |-> "fri_commit", id |-> id, head |-> head, fri |-> fri])
  /\ LET s == checkpoint(caller, id)
         positions == queries_digest(s.pre_fri, fri, head)
     IN  /\ check_head(head, s)
         /\ QueriesPow(positions)
         /\ advance(caller, id,
              [tag |-> "group", d_head |-> s.d_head, d_sampled |-> s.d_sampled,
               d_fri |-> fri, pre_fri |-> s.pre_fri, positions |-> positions,
               queries_done |-> 0, answers |-> <<>>, program |-> s.program])
  /\ UNCHANGED registryVars

(* The sampled section is the staged one, whatever it is by now.            *)
group(caller, id, head, n) ==
  /\ consume(caller, id, "group")
  /\ by(caller, [fn |-> "group", id |-> id, head |-> head, n |-> n])
  /\ LET s == checkpoint(caller, id)
         sampled == staged[slot(caller, id)]
     IN  /\ check_head(head, s)
         /\ check_sampled(sampled, s)
         /\ n <= N_QUERIES - s.queries_done
         /\ RowsOpen(head, s.positions)
         /\ advance(caller, id,
              [tag |-> "group", d_head |-> s.d_head, d_sampled |-> s.d_sampled,
               d_fri |-> s.d_fri, pre_fri |-> s.pre_fri, positions |-> s.positions,
               queries_done |-> s.queries_done + n,
               answers |-> s.answers \o [q \in 1..n |-> sampled],
               program |-> s.program])
  /\ UNCHANGED registryVars

(* Every proof of the chunk verifies against what is left of the one before. *)
layers_verify(pre_fri, fri, evals, layers) ==
  \A n \in 1..Len(layers) :
    LayerVerifies(pre_fri, fri,
                  evals \o [i \in 1..(n - 1) |-> <<fri, layers[i]>>], layers[n])

fold_layers(fri, evals, layers) ==
  evals \o [i \in 1..Len(layers) |-> <<fri, layers[i]>>]

fri_layers_begin(caller, id, head, fri, layers) ==
  /\ consume(caller, id, "group")
  /\ by(caller, [fn |-> "fri_layers", id |-> id, head |-> head, fri |-> fri,
                 layers |-> layers])
  /\ LET s == checkpoint(caller, id)
     IN  /\ s.queries_done = N_QUERIES
         /\ check_head(head, s)
         /\ check_fri(fri, s)
         /\ Len(layers) \in 1..(N_INNER + 1)
         /\ layers_verify(s.pre_fri, fri, <<s.answers>>, layers)
         /\ advance(caller, id,
              [tag |-> "fri_layers", d_head |-> s.d_head, d_fri |-> s.d_fri,
               pre_fri |-> s.pre_fri, positions |-> s.positions,
               layers_done |-> Len(layers) - 1,
               evals |-> fold_layers(fri, <<s.answers>>, layers),
               program |-> s.program])
  /\ UNCHANGED registryVars

fri_layers(caller, id, head, fri, layers) ==
  /\ consume(caller, id, "fri_layers")
  /\ by(caller, [fn |-> "fri_layers", id |-> id, head |-> head, fri |-> fri,
                 layers |-> layers])
  /\ LET s == checkpoint(caller, id)
     IN  /\ check_head(head, s)
         /\ check_fri(fri, s)
         /\ layers # <<>>
         /\ s.layers_done + Len(layers) <= N_INNER
         /\ layers_verify(s.pre_fri, fri, s.evals, layers)
         /\ advance(caller, id,
              [tag |-> "fri_layers", d_head |-> s.d_head, d_fri |-> s.d_fri,
               pre_fri |-> s.pre_fri, positions |-> s.positions,
               layers_done |-> s.layers_done + Len(layers),
               evals |-> fold_layers(fri, s.evals, layers), program |-> s.program])
  /\ UNCHANGED registryVars

(* The registry takes the fact from a route only; if it does not, the whole *)
(* transaction reverts.                                                     *)
register_fact(route, f) ==
  /\ route \in routes
  /\ facts' = facts \cup {f}
  /\ UNCHANGED <<routes, frozen>>

finalize(caller, id, head, fri) ==
  /\ consume(caller, id, "fri_layers")
  /\ by(caller, [fn |-> "finalize", id |-> id, head |-> head, fri |-> fri])
  /\ LET s == checkpoint(caller, id)
         positions == queries_digest(s.pre_fri, fri, head)
     IN  /\ check_head(head, s)
         /\ check_fri(fri, s)
         /\ QueriesPow(positions)
         /\ positions = s.positions
         /\ s.layers_done = N_INNER
         /\ LastLayer(s.pre_fri, fri, s.evals)
         /\ advance(caller, id, [tag |-> "done", fact |-> fact(s.program, head)])
         /\ register_fact(Router, fact(s.program, head))

-----------------------------------------------------------------------------
(* The registry *)

(* The owner's calls: the driver deployed the registry. *)
add_route(caller, route) ==
  /\ by(caller, [fn |-> "add_route", route |-> route])
  /\ caller = Driver
  /\ ~frozen
  /\ routes' = routes \cup {route}
  /\ UNCHANGED <<frozen, facts, checkpoints, staged>>

freeze_routes(caller) ==
  /\ by(caller, [fn |-> "freeze_routes"])
  /\ caller = Driver
  /\ frozen' = TRUE
  /\ UNCHANGED <<routes, facts, checkpoints, staged>>

-----------------------------------------------------------------------------
NoState == [tag |-> "none"]

Init ==
  /\ checkpoints = [k \in Callers \X ProofIds |-> NoState]
  /\ staged = [k \in Callers \X ProofIds |-> [i \in Slots |-> Zero]]
  /\ routes = {} /\ frozen = FALSE /\ facts = {}
  /\ pc = 1

SlotRuns == UNION {[1..n -> Parts] : n \in 1..N_SLOTS}
LayerChunks == UNION {[1..n -> LayerProofs] : n \in 1..(N_INNER + 1)}

Staging(c) ==
  \E id \in ProofIds, offset \in Slots, slots \in SlotRuns :
    stage(c, id, offset, slots)

Claiming(c) ==
  \E id \in ProofIds :
    \/ \E head \in Heads, n \in 0..MAX_PROGRAM : begin(c, id, head, n)
    \/ \E entries \in Programs \ {<<>>} : claim_chunk(c, id, entries)
    \/ \E head \in Heads : claim_finalize(c, id, head)

LookingUp(c) ==
  \E id \in ProofIds :
    \/ \E entries \in Programs \ {<<>>} : lookup_chunk(c, id, entries)
    \/ \E head \in Heads : lookup_finalize(c, id, head)

Evaluating(c) ==
  \E id \in ProofIds, head \in Heads, sampled \in SampledFelts :
    \/ oods_begin(c, id, head, sampled)
    \/ \E g \in 1..Len(OodsClasses) : oods_group(c, id, g, head, sampled)
    \/ oods_finalize(c, id, head, sampled)

Decommitting(c) ==
  \E id \in ProofIds, head \in Heads :
    \/ \E n \in 1..N_QUERIES : group(c, id, head, n)
    \/ \E fri \in FriHeads :
         \/ fri_commit(c, id, head, fri)
         \/ \E layers \in LayerChunks :
              \/ fri_layers_begin(c, id, head, fri, layers)
              \/ fri_layers(c, id, head, fri, layers)
         \/ finalize(c, id, head, fri)

Governing(c) ==
  \/ add_route(c, Router)
  \/ freeze_routes(c)

Calling(c) == \/ Staging(c) \/ Claiming(c) \/ LookingUp(c) \/ Evaluating(c)
              \/ Decommitting(c) \/ Governing(c)

Next == \E c \in Callers : Calling(c)

Spec == Init /\ [][Next]_vars

(* The driver sends its next call when the receipt of the last is there.    *)
DriverCalls == pc' = pc + 1 /\ Calling(Driver)
FairSpec == Spec /\ WF_vars(DriverCalls)

-----------------------------------------------------------------------------
(* Properties *)

(* Checkpoint s is where proof p is after all checks of the phases before.  *)
ClaimPassed(s, p) ==
  /\ s = [tag |-> "claim", d_head |-> p.head, program_len |-> s.program_len,
          chunks |-> s.chunks]
  /\ s.program_len \in 0..MAX_PROGRAM
  /\ s.chunks.entries \in Programs
  /\ Len(s.chunks.entries) <= s.program_len
  /\ Begun(p)

LookupPassed(s, p) ==
  /\ s = [tag |-> "lookup", d_head |-> p.head, program_len |-> Len(p.program),
          chunks |-> s.chunks, roll_check |-> s.roll_check, pre_draw |-> PreDraw(p),
          program |-> p.program]
  /\ s.chunks.entries = p.program
  /\ Claimed(p)

OodsPassed(s, p) ==
  /\ s = [tag |-> "oods", d_head |-> p.head, pre_draw |-> PreDraw(p),
          post_prologue |-> PostPrologue(p), program |-> p.program]
  /\ LookedUp(p)

EvalPassed(s, p) ==
  /\ s = [tag |-> "oods_eval", d_head |-> p.head, d_sampled |-> p.sampled,
          pre_draw |-> PreDraw(p), post_comp |-> PostComposition(p),
          families_done |-> s.families_done,
          sum |-> [f \in 1..s.families_done |-> family_value(f, p.head, p.sampled)],
          program |-> p.program]
  /\ s.families_done \in Nat
  /\ Started(p)

CommitPassed(s, p) ==
  /\ s = [tag |-> "fri_commit", d_head |-> p.head, d_sampled |-> p.sampled,
          pre_fri |-> PreFri(p), program |-> p.program]
  /\ Evaluated(p)

GroupPassed(s, p) ==
  /\ s = [tag |-> "group", d_head |-> p.head, d_sampled |-> p.sampled, d_fri |-> p.fri,
          pre_fri |-> PreFri(p), positions |-> Positions(p),
          queries_done |-> s.queries_done,
          answers |-> [q \in 1..s.queries_done |-> p.sampled], program |-> p.program]
  /\ s.queries_done \in 0..N_QUERIES
  /\ Committed(p)
  /\ s.queries_done > 0 => RowsOpen(p.head, Positions(p))

LayersPassed(s, p) ==
  /\ s = [tag |-> "fri_layers", d_head |-> p.head, d_fri |-> p.fri,
          pre_fri |-> PreFri(p), positions |-> Positions(p),
          layers_done |-> s.layers_done, evals |-> EvalsAfter(p, s.layers_done + 1),
          program |-> p.program]
  /\ s.layers_done \in 0..N_INNER
  /\ Queried(p)
  /\ \A n \in 1..(s.layers_done + 1) : LayerPasses(p, n)

DonePassed(s, p) ==
  /\ s = [tag |-> "done", fact |-> fact(p.program, p.head)]
  /\ Accepts(p)

Passed(s, p) ==
  \/ s = NoState
  \/ s.tag = "claim" /\ ClaimPassed(s, p)
  \/ s.tag = "lookup" /\ LookupPassed(s, p)
  \/ s.tag = "oods" /\ OodsPassed(s, p)
  \/ s.tag = "oods_eval" /\ EvalPassed(s, p)
  \/ s.tag = "fri_commit" /\ CommitPassed(s, p)
  \/ s.tag = "group" /\ GroupPassed(s, p)
  \/ s.tag = "fri_layers" /\ LayersPassed(s, p)
  \/ s.tag = "done" /\ DonePassed(s, p)

(* Every checkpoint stands for one proof that passed all checks of the      *)
(* phases before: the sections brought again in each call are those brought *)
(* before, whatever was staged in between and in whatever order the phases  *)
(* were tried.                                                              *)
PhasesPassed ==
  \A k \in Callers \X ProofIds : \E p \in Proof : Passed(checkpoints[k], p)

(* Spreading a verification over transactions loses nothing: the router     *)
(* registers no fact but that of one proof whose sections - the same in     *)
(* every phase - pass all checks, and only while it is a listed route.      *)
VF == INSTANCE VerifiedFacts
ImplementsVerifier == VF!Spec

(* The driver's proof, which the verifier accepts, goes through: none of    *)
(* its calls is refused, whatever others call, stage and begin meanwhile.   *)
DriveFinishes == <>(pc = Len(Script) + 1)
=============================================================================
