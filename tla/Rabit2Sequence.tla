---------------------------- MODULE Rabit2Sequence ----------------------------
(***************************************************************************)
(* One request on one attention layer, driven the way the scheduler drives *)
(* TritonAttentionImpl._forward_rabit_kv2: a prompt cut into chunks of any *)
(* size the token budget allows, then one token per decode step, with      *)
(* preemption and same-ID resubmission in between.                         *)
(*                                                                         *)
(* Each new computation of the request is an epoch: a recomputed token has *)
(* other K/V than before, so its token carries the epoch.                  *)
(***************************************************************************)
EXTENDS Rabit2CausalChunkPlan

CONSTANTS
  BlockIds,        \* BlockIds[e][p]: the physical block the scheduler gives
                   \* logical page p of epoch e
  NullBlock,       \* the entry of a row that is not assigned yet
  OneTokenChunks,  \* TRUE: the budget may leave a prefill one token of room
  MaxTokens,       \* bound: max_model_len
  MaxChunk,        \* bound: max_num_batched_tokens
  MaxEpochs        \* bound: computations of the request

ASSUME SequenceAssumption ==
  /\ OneTokenChunks \in BOOLEAN
  /\ MaxTokens \in Nat \ {0}
  /\ MaxChunk \in Nat
  /\ MaxEpochs \in Nat \ {0}
  /\ BlockIds \in [1..MaxEpochs -> Seq(Nat)]
  /\ NullBlock \in Nat
  /\ \A e \in 1..MaxEpochs :
       /\ MaxTokens <= PageTokens(Len(BlockIds[e]))
       /\ \A p, q \in 1..Len(BlockIds[e]) :
            /\ BlockIds[e][p] # NullBlock
            /\ p # q => BlockIds[e][p] # BlockIds[e][q]

VARIABLES
  rt,                   \* impl._rabit2_runtimes[req_id]
  cache,                \* the layer's physical pages
  plan,                 \* the chunk plan being applied, or NoPlan
  phase,                \* "idle", "chunk" (inside a forward) or "raised"
  num_computed_tokens,  \* the scheduler's context length for the request
  num_tokens,           \* prompt and sampled tokens known so far
  epoch

vars == <<rt, cache, plan, phase, num_computed_tokens, num_tokens, epoch>>

Blocks ==
  {NullBlock} \cup
  UNION {{BlockIds[e][p] : p \in 1..Len(BlockIds[e])} : e \in 1..MaxEpochs}

\* The row the worker publishes once the scheduler has allocated blocks for
\* the first n tokens: the tail of the row is not assigned.
block_table_row(n) ==
  [p \in 1..Len(BlockIds[epoch]) |->
     IF p <= Cdiv(n, GroupSize) THEN BlockIds[epoch][p] ELSE NullBlock]

Init ==
  /\ rt = NewRuntime
  /\ cache = [b \in Blocks |-> <<>>]
  /\ plan = NoPlan
  /\ phase = "idle"
  /\ num_computed_tokens = 0
  /\ num_tokens \in 1..MaxTokens
  /\ epoch = 1

\* Mutant: one token more than the request has.
SchedulableOver(q) ==
  LET left == num_tokens - num_computed_tokens
  IN  /\ q \in 1..(left + 1)
      /\ q <= MaxChunk
      /\ q = 1 => left = 1 \/ OneTokenChunks

\* Mutant: the last token is never scheduled.
SchedulableUnder(q) ==
  LET left == num_tokens - num_computed_tokens
  IN  /\ q \in 1..(left - 1)
      /\ q <= MaxChunk

\* How many tokens the scheduler may give the request in one step.
Schedulable(q) ==
  LET left == num_tokens - num_computed_tokens
  IN  /\ q \in 1..left
      /\ q <= MaxChunk
      /\ q = 1 => left = 1 \/ OneTokenChunks

\* What the step scheduled for a request finds: a new runtime at context 0,
\* otherwise the one in the dictionary.
RuntimeFor == IF num_computed_tokens = 0 THEN NewRuntime ELSE rt

\* The check of the dictionary's sidecar against the scheduler's context.
LengthMismatch ==
  num_computed_tokens > 0 /\ total_tokens(rt) # num_computed_tokens

\* The next q tokens of the stream.
NextToks(q) ==
  Run(epoch, num_computed_tokens, num_computed_tokens + q)

\* The scheduler's bookkeeping after a forward of q tokens: a request whose
\* known tokens are all computed samples its next one, up to max_model_len.
Advance(q) ==
  /\ num_computed_tokens' = num_computed_tokens + q
  /\ num_tokens' =
       IF num_computed_tokens + q = num_tokens /\ num_tokens < MaxTokens
       THEN num_tokens + 1 ELSE num_tokens

\* A forward that ends with operation result `res' after q tokens.
Finish(res, q) ==
  /\ rt' = res.rt
  /\ cache' = res.cache
  /\ IF res.raised
     THEN phase' = "raised" /\ UNCHANGED <<num_computed_tokens, num_tokens>>
     ELSE phase' = "idle" /\ Advance(q)
  /\ UNCHANGED epoch

\* The first chunk: one bulk append, attention is dense over the chunk.
ForwardInitialChunk(q) ==
  /\ phase = "idle"
  /\ Schedulable(q)
  /\ num_computed_tokens = 0 /\ q > 1
  /\ Finish(rabit2_bulk_append_exact(NewRuntime, NextToks(q), cache,
                                     block_table_row(q)), q)
  /\ UNCHANGED plan

\* One token: decode, or a chunk the budget cut to one token.
ForwardToken ==
  /\ phase = "idle"
  /\ Schedulable(1)
  /\ Finish(IF LengthMismatch
            THEN Raise(rt, cache)
            ELSE append(RuntimeFor, NextToks(1)[1], cache,
                        block_table_row(num_computed_tokens + 1)), 1)
  /\ UNCHANGED plan

\* A later chunk of several tokens: build the plan.
ForwardChunkBegin(q) ==
  /\ phase = "idle"
  /\ Schedulable(q)
  /\ num_computed_tokens > 0 /\ q > 1
  /\ LET new == NewPlan(rt, NextToks(q))
         row == block_table_row(num_computed_tokens + q)
     IN  IF LengthMismatch \/ PlanRaises(new, row)
         THEN phase' = "raised" /\ UNCHANGED <<cache, plan>>
         ELSE /\ phase' = "chunk"
              /\ plan' = new
              /\ cache' = PlanWrites(new, cache, row)
  /\ UNCHANGED <<rt, num_computed_tokens, num_tokens, epoch>>

\* One iteration of the loop over the chunk: expose the state after the next
\* token, then attend.  The last iteration ends the forward.
ForwardChunkStep ==
  /\ phase = "chunk"
  /\ LET step == plan.last_step + 1
     IN  /\ rt' = apply_step(rt, plan, step)
         /\ IF step + 1 = plan.num_tokens
            THEN phase' = "idle" /\ plan' = NoPlan /\ Advance(plan.num_tokens)
            ELSE /\ plan' = [plan EXCEPT !.last_step = step]
                 /\ UNCHANGED <<phase, num_computed_tokens, num_tokens>>
  /\ UNCHANGED <<cache, epoch>>

\* The scheduler preempts the request: its blocks are freed and it will be
\* computed again from position 0.  The sidecar object may stay behind.
Preempt ==
  /\ phase = "idle"
  /\ num_computed_tokens \in 1..(num_tokens - 1)
  /\ epoch < MaxEpochs
  /\ epoch' = epoch + 1
  /\ num_computed_tokens' = 0
  /\ UNCHANGED <<rt, cache, plan, phase, num_tokens>>

\* The request is aborted and its ID submitted again with another prompt.
Resubmit(prompt) ==
  /\ phase = "idle"
  /\ num_computed_tokens > 0
  /\ epoch < MaxEpochs
  /\ epoch' = epoch + 1
  /\ num_computed_tokens' = 0
  /\ num_tokens' = prompt
  /\ UNCHANGED <<rt, cache, plan, phase>>

Forward ==
  \/ \E q \in 1..MaxChunk : ForwardInitialChunk(q) \/ ForwardChunkBegin(q)
  \/ ForwardToken
  \/ ForwardChunkStep

Next ==
  \/ Forward
  \/ Preempt
  \/ \E prompt \in 1..MaxTokens : Resubmit(prompt)

Spec == Init /\ [][Next]_vars

\* The engine loop keeps scheduling a request that has tokens to compute, and
\* the loop inside a forward runs to its end.
FairSpec == Spec /\ WF_vars(Forward)
-----------------------------------------------------------------------------
\* Tokens in the sidecar state: the ones earlier steps computed and, inside a
\* chunk, the ones the loop has exposed so far.
Seen ==
  num_computed_tokens + (IF phase = "chunk" THEN plan.last_step + 1 ELSE 0)

\* The sidecar is the one this epoch built.
Live == phase # "raised" /\ Seen > 0

\* Types, and the ranges that are not plain: the fast path's open slot stays
\* inside its buffer and the scheduler never computes past the known tokens.
TypeOK ==
  /\ rt \in RuntimeType
  /\ cache \in [Blocks -> Seq(Token)]
  /\ plan \in PlanType
  /\ phase \in {"idle", "chunk", "raised"}
  /\ num_computed_tokens \in 0..num_tokens
  /\ num_tokens \in 1..MaxTokens
  /\ epoch \in 1..MaxEpochs

\* No forward raises: the sidecar length the layer finds always equals the
\* scheduler's context (triton_attn.py "sidecar length mismatch"), and every
\* page a step closes has a row entry.
NeverRaises == phase # "raised"

\* The residual window and the open group have the sizes docs/METHOD.md gives
\* for n tokens, after every token of every path.
StateLaw ==
  Live =>
    /\ rt.closed_pages = Aged(Seen) \div GroupSize
    /\ Len(rt.open) = Aged(Seen) % GroupSize
    /\ Len(rt.recent) = IF Seen < ResidualTokens THEN Seen ELSE ResidualTokens

\* Attention at position n reads tokens 1..n of this computation, in order,
\* each in the representation the policy gives it: nothing of a later chunk
\* token, of an earlier epoch or of an unassigned block.
AttentionView ==
  Live => materialize(rt, cache, block_table_row(Seen)) = LawView(epoch, Seen)

\* A page attention can already see is never rewritten, pages never reopen,
\* and a step writes only to blocks assigned to its own future pages.
ClosedPagesImmutable ==
  [][ epoch' = epoch /\ Live /\ phase' # "raised" =>
        /\ rt'.closed_pages >= rt.closed_pages
        /\ \A b \in Blocks : cache'[b] # cache[b] =>
             \E p \in (rt.closed_pages + 1)..Cdiv(num_tokens, GroupSize) :
               b = BlockIds[epoch][p] ]_vars

\* Inside a chunk: the plan continues the computed tokens, its steps are not
\* used up, and every page it closes is already in its block.
ChunkInvariant ==
  phase = "chunk" =>
    /\ num_computed_tokens > 0
    /\ plan.last_step + 1 < plan.num_tokens
    /\ num_computed_tokens + plan.num_tokens <= num_tokens
    /\ PlanExtends(plan, epoch, num_computed_tokens)
    /\ PagesHold(cache, BlockIds[epoch], epoch,
                 plan.init_closed + PlanFullPages(plan))

\* The inductive invariant: what the sidecar, the fast buffers, the physical
\* pages and the chunk plan have to agree on for the next forward to be right,
\* whichever path it takes.
IndInv ==
  /\ TypeOK
  /\ phase # "raised"
  /\ Seen > 0 => /\ Represents(rt, epoch, Seen)
                 /\ PagesHold(cache, BlockIds[epoch], epoch, rt.closed_pages)
                 /\ FastInSync(rt)
                 /\ rt.fast_ready => /\ phase = "idle"
                                     /\ num_tokens - num_computed_tokens <= 1
  /\ ChunkInvariant

\* Every request is computed to its end: no step of any path leaves it with a
\* sidecar that later forwards refuse.
Completes == <>[](phase = "idle" /\ num_computed_tokens = MaxTokens)

\* The serving paths together implement the reference state.
Ref == INSTANCE Rabit2OnlineStateRef
         WITH MaxAppend <- MaxChunk,
              pages <- IF Seen = 0 THEN <<>>
                       ELSE [p \in 1..rt.closed_pages |->
                               cache[block_table_row(Seen)[p]]],
              open <- IF Seen = 0 THEN <<>> ELSE rt.open,
              recent <- IF Seen = 0 THEN <<>> ELSE rt.recent

\* Bulk prefill, the chunk plan and both append paths produce exactly the
\* pages, open group and residual that Rabit2OnlineStateRef.append produces
\* token by token, and restart it when the request restarts.
ImplementsReference == Ref!Spec
=============================================================================
