------------------------ MODULE Rabit2SequenceProofs ------------------------
(***************************************************************************)
(* The serving paths of one request on one layer keep the sidecar, the     *)
(* physical pages and the persistent buffers in step, for every group      *)
(* size, residual width, block assignment and chunk schedule, as long as   *)
(* the scheduler never cuts a prefill chunk to one token on the shape the  *)
(* persistent buffers are written for.                                     *)
(***************************************************************************)
EXTENDS Rabit2Sequence, Rabit2RuntimeProofs

\* The schedules the theorems are about.
NoOneTokenChunk == ~ (FastShape /\ OneTokenChunks)

\* The published row serves the tokens the blocks were allocated for.
LEMMA RowFacts ==
  ASSUME epoch \in 1..MaxEpochs, NEW n \in Nat, n <= MaxTokens
  PROVE  GoodRow(block_table_row(n), BlockIds[epoch], n)
  <1> DEFINE ids == BlockIds[epoch]
             row == block_table_row(n)
  <1>1. /\ ids \in Seq(Nat) /\ Len(ids) \in Nat /\ NullBlock \in Nat
        /\ MaxTokens \in Nat /\ MaxTokens <= PageTokens(Len(ids))
        /\ \A p, q \in 1..Len(ids) : p # q => ids[p] # ids[q]
    BY SequenceAssumption, SMTT(30)
  <1> HIDE DEF ids
  <1>2. row = [p \in 1..Len(ids) |->
                 IF p <= Cdiv(n, GroupSize) THEN ids[p] ELSE NullBlock]
    BY DEF block_table_row, ids
  <1>3. row \in Seq(Nat) /\ Len(row) = Len(ids)
    <2>1. \A p \in 1..Len(ids) :
            (IF p <= Cdiv(n, GroupSize) THEN ids[p] ELSE NullBlock) \in Nat
      BY <1>1, SMTT(30)
    <2> QED
      BY <1>1, <1>2, <2>1, SMTT(30)
  <1>4. n <= PageTokens(Len(ids))
    <2>1. PageTokens(Len(ids)) \in Nat
      BY <1>1, PageTokensFacts
    <2> QED
      BY <1>1, <2>1
  <1>5. ASSUME NEW p \in 1..Len(ids), PageTokens(p) <= n
        PROVE  row[p] = ids[p]
    <2>1. p \in Nat
      BY <1>1
    <2>2. p <= Cdiv(n, GroupSize)
      BY <1>5, <2>1, CdivCovers, SMTT(30)
    <2> HIDE DEF row
    <2> QED
      BY <1>2, <2>2
  <1> QED
    BY <1>1, <1>3, <1>4, <1>5, SMTT(30) DEF GoodRow, ids

\* Every block of the running computation is a page of the layer.
LEMMA CacheFacts ==
  ASSUME epoch \in 1..MaxEpochs, cache \in [Blocks -> Seq(Token)]
  PROVE  GoodCache(cache, BlockIds[epoch], Blocks)
  BY SMTT(30) DEF GoodCache, Blocks

\* A forward that grows the sidecar by q tokens and returns keeps the
\* invariant.
LEMMA FinishKeeps ==
  ASSUME TypeOK, phase = "idle", NEW res, NEW r, NEW q \in Nat, q > 0,
         num_computed_tokens + q <= num_tokens,
         Grown(res, r, cache, BlockIds[epoch], Blocks, epoch,
               num_computed_tokens + q),
         FastInSync(res.rt),
         res.rt.fast_ready => num_computed_tokens + q = num_tokens,
         Finish(res, q), UNCHANGED plan
  PROVE  IndInv'
  <1> DEFINE n == num_computed_tokens + q
  <1>1. /\ res.raised = FALSE /\ res.rt \in RuntimeType
        /\ Represents(res.rt, epoch, n)
        /\ res.cache \in [Blocks -> Seq(Token)]
        /\ PagesHold(res.cache, BlockIds[epoch], epoch, res.rt.closed_pages)
    BY DEF Grown
  <1>2. /\ rt' = res.rt /\ cache' = res.cache /\ phase' = "idle"
        /\ num_computed_tokens' = n /\ epoch' = epoch /\ plan' = plan
        /\ num_tokens' = IF n = num_tokens /\ num_tokens < MaxTokens
                         THEN num_tokens + 1 ELSE num_tokens
    BY <1>1 DEF Finish, Advance
  <1>3. /\ num_computed_tokens \in Nat /\ num_tokens \in 1..MaxTokens
        /\ MaxTokens \in Nat /\ n \in Nat /\ n > 0 /\ n <= num_tokens
    BY SequenceAssumption, SMTT(30) DEF TypeOK
  <1>4. /\ num_tokens' \in 1..MaxTokens /\ num_computed_tokens' \in 0..num_tokens'
        /\ n = num_tokens => num_tokens' - num_computed_tokens' <= 1
    <2> HIDE DEF n
    <2> QED
      BY <1>2, <1>3, SMTT(30)
  <1>5. TypeOK'
    BY <1>1, <1>2, <1>4, SMTT(30) DEF TypeOK
  <1>6. Seen' = n
    BY <1>2, <1>3, SMTT(30) DEF Seen
  <1>7. /\ Represents(rt', epoch', Seen')
        /\ PagesHold(cache', BlockIds[epoch'], epoch', rt'.closed_pages)
        /\ FastInSync(rt')
        /\ rt'.fast_ready => /\ phase' = "idle"
                             /\ num_tokens' - num_computed_tokens' <= 1
    BY <1>1, <1>2, <1>4, <1>6, SMTT(30)
  <1>8. ChunkInvariant'
    BY <1>2, SMTT(30) DEF ChunkInvariant
  <1> QED
    BY <1>2, <1>5, <1>7, <1>8 DEF IndInv

\* The sidecar of a request with computed tokens is ready to grow.
LEMMA LiveReady ==
  ASSUME IndInv, phase = "idle", num_computed_tokens > 0,
         NEW m \in Nat, num_computed_tokens <= m, m <= MaxTokens
  PROVE  /\ Ready(rt, cache, BlockIds[epoch], Blocks, block_table_row(m),
                  epoch, num_computed_tokens, m)
         /\ rt \in RuntimeType /\ epoch \in Nat /\ num_computed_tokens \in Nat
         /\ FastInSync(rt)
         /\ rt.fast_ready => num_tokens - num_computed_tokens <= 1
         /\ ~ LengthMismatch
  <1>1. /\ rt \in RuntimeType /\ cache \in [Blocks -> Seq(Token)]
        /\ epoch \in 1..MaxEpochs /\ epoch \in Nat
        /\ num_computed_tokens \in Nat
    BY SequenceAssumption, SMTT(30) DEF IndInv, TypeOK
  <1>2. Seen = num_computed_tokens
    BY <1>1, SMTT(30) DEF Seen
  <1>3. /\ Represents(rt, epoch, num_computed_tokens)
        /\ PagesHold(cache, BlockIds[epoch], epoch, rt.closed_pages)
        /\ FastInSync(rt)
        /\ rt.fast_ready => num_tokens - num_computed_tokens <= 1
    BY <1>2, SMTT(30) DEF IndInv
  <1>4. GoodRow(block_table_row(m), BlockIds[epoch], m)
    BY <1>1, RowFacts, SMTT(30)
  <1>5. GoodCache(cache, BlockIds[epoch], Blocks)
    BY <1>1, CacheFacts, SMTT(30)
  <1>6. total_tokens(rt) = num_computed_tokens
    BY <1>1, <1>3, RepresentsFacts, SMTT(30)
  <1> QED
    BY <1>1, <1>3, <1>4, <1>5, <1>6, SMTT(30) DEF Ready, LengthMismatch

\* So is a new sidecar at context 0.
LEMMA NewReady ==
  ASSUME IndInv, num_computed_tokens = 0, NEW m \in Nat, m <= MaxTokens
  PROVE  /\ Ready(NewRuntime, cache, BlockIds[epoch], Blocks,
                  block_table_row(m), epoch, num_computed_tokens, m)
         /\ NewRuntime \in RuntimeType /\ epoch \in Nat
         /\ FastInSync(NewRuntime) /\ NewRuntime.fast_ready = FALSE
  <1>1. /\ cache \in [Blocks -> Seq(Token)]
        /\ epoch \in 1..MaxEpochs /\ epoch \in Nat
    BY SequenceAssumption DEF IndInv, TypeOK
  <1>2. GoodRow(block_table_row(m), BlockIds[epoch], m)
    BY <1>1, RowFacts
  <1>3. GoodCache(cache, BlockIds[epoch], Blocks)
    BY <1>1, CacheFacts
  <1>4. /\ NewRuntime \in RuntimeType /\ Represents(NewRuntime, epoch, 0)
        /\ FastInSync(NewRuntime) /\ NewRuntime.fast_ready = FALSE
        /\ NewRuntime.closed_pages = 0
    BY <1>1, NewRuntimeFacts, ZenonT(60)
  <1>5. PagesHold(cache, BlockIds[epoch], epoch, NewRuntime.closed_pages)
    BY <1>4 DEF PagesHold
  <1> QED
    BY <1>1, <1>2, <1>3, <1>4, <1>5, SMTT(30) DEF Ready

\* The bounds a scheduled step works within.
LEMMA ScheduledFacts ==
  ASSUME IndInv, NEW q \in Nat, Schedulable(q)
  PROVE  /\ num_computed_tokens \in Nat /\ num_tokens \in Nat
         /\ q > 0 /\ num_computed_tokens + q \in Nat
         /\ num_computed_tokens + q <= num_tokens
         /\ num_computed_tokens + q <= MaxTokens
         /\ num_computed_tokens <= num_computed_tokens + q
         /\ num_computed_tokens < num_computed_tokens + q
         /\ q = 1 /\ FastShape /\ NoOneTokenChunk =>
              num_computed_tokens + q = num_tokens
  <1>1. /\ num_computed_tokens \in Nat /\ num_tokens \in Nat
        /\ num_tokens <= MaxTokens /\ MaxTokens \in Nat
    BY SequenceAssumption DEF IndInv, TypeOK
  <1>2. q \in 1..(num_tokens - num_computed_tokens)
        /\ (q = 1 => \/ num_tokens - num_computed_tokens = 1
                     \/ OneTokenChunks)
    BY DEF Schedulable
  <1> QED
    BY <1>1, <1>2, SMTT(30) DEF NoOneTokenChunk
-----------------------------------------------------------------------------
\* The first chunk.
LEMMA InitialChunkKeeps ==
  ASSUME IndInv, NEW q \in Nat, ForwardInitialChunk(q)
  PROVE  IndInv'
  <1> DEFINE n == num_computed_tokens
             m == n + q
             toks == Run(epoch, n, m)
             res == rabit2_bulk_append_exact(NewRuntime, toks, cache,
                                             block_table_row(m))
  <1>1. phase = "idle" /\ Schedulable(q) /\ n = 0 /\ plan' = plan
    BY DEF ForwardInitialChunk
  <1>2. /\ n \in Nat /\ q > 0 /\ m \in Nat /\ m <= num_tokens
        /\ m <= MaxTokens /\ n < m
    BY <1>1, ScheduledFacts
  <1>3. m = q
    BY <1>1
  <1>4. Finish(res, q)
    BY <1>3 DEF ForwardInitialChunk, NextToks
  <1> HIDE DEF m
  <1>5. /\ Ready(NewRuntime, cache, BlockIds[epoch], Blocks,
                 block_table_row(m), epoch, n, m)
        /\ NewRuntime \in RuntimeType /\ epoch \in Nat
        /\ NewRuntime.fast_ready = FALSE
    BY <1>1, <1>2, NewReady, ZenonT(60)
  <1>6. /\ Grown(res, NewRuntime, cache, BlockIds[epoch], Blocks, epoch, m)
        /\ Cold(res.rt)
    <2> DEFINE row == block_table_row(m)
               ids == BlockIds[epoch]
    <2> HIDE DEF row, ids, n
    <2>1. /\ Ready(NewRuntime, cache, ids, Blocks, row, epoch, n, m)
          /\ NewRuntime \in RuntimeType /\ epoch \in Nat
          /\ NewRuntime.fast_ready = FALSE
      BY <1>5 DEF row, ids
    <2>2. n \in Nat /\ m \in Nat /\ n < m
      BY <1>2
    <2>3. Grown(rabit2_bulk_append_exact(NewRuntime, Run(epoch, n, m),
                                         cache, row),
                NewRuntime, cache, ids, Blocks, epoch, m)
      BY <2>1, <2>2, BulkGrows, ZenonT(60)
    <2>4. Cold(rabit2_bulk_append_exact(NewRuntime, Run(epoch, n, m), cache,
                                        row).rt)
      BY <2>1, <2>2, BulkGrows, ZenonT(60)
    <2> QED
      BY <2>3, <2>4, ZenonT(60) DEF row, ids
  <1> HIDE DEF res
  <1>7. FastInSync(res.rt) /\ ~ res.rt.fast_ready
    BY <1>6 DEF FastInSync, Cold
  <1>8. TypeOK
    BY DEF IndInv
  <1> QED
    BY <1>1, <1>2, <1>4, <1>6, <1>7, <1>8, FinishKeeps, SMTT(30) DEF m

\* What the one-token forward computes.
TokenResult ==
  append(RuntimeFor, Tok(epoch, num_computed_tokens + 1), cache,
         block_table_row(num_computed_tokens + 1))

\* One token: decode, or a chunk of one token.
LEMMA TokenGrows ==
  ASSUME IndInv, NoOneTokenChunk, ForwardToken
  PROVE  /\ Finish(TokenResult, 1) /\ plan' = plan /\ phase = "idle"
         /\ num_computed_tokens + 1 \in Nat
         /\ num_computed_tokens + 1 <= num_tokens
         /\ Grown(TokenResult, RuntimeFor, cache, BlockIds[epoch], Blocks,
                  epoch, num_computed_tokens + 1)
         /\ FastInSync(TokenResult.rt)
         /\ TokenResult.rt.fast_ready => num_computed_tokens + 1 = num_tokens
  <1> DEFINE n == num_computed_tokens
             m == n + 1
             row == block_table_row(m)
             ids == BlockIds[epoch]
             res == append(RuntimeFor, Tok(epoch, m), cache, row)
  <1>1. phase = "idle" /\ Schedulable(1) /\ plan' = plan
    BY DEF ForwardToken
  <1>2. /\ n \in Nat /\ m \in Nat /\ m <= num_tokens
        /\ m <= MaxTokens /\ n <= m
        /\ FastShape => m = num_tokens
    BY <1>1, ScheduledFacts, SMTT(30)
  <1>3. /\ Ready(RuntimeFor, cache, ids, Blocks, row, epoch, n, m)
        /\ RuntimeFor \in RuntimeType /\ epoch \in Nat
        /\ FastInSync(RuntimeFor) /\ ~ LengthMismatch
    <2>1. CASE n = 0
      <3>1. RuntimeFor = NewRuntime /\ ~ LengthMismatch
        BY <2>1 DEF RuntimeFor, LengthMismatch
      <3> QED
        BY <1>2, <2>1, <3>1, NewReady, ZenonT(60)
    <2>2. CASE n # 0
      <3>1. RuntimeFor = rt /\ n > 0
        BY <1>2, <2>2, SMTT(30) DEF RuntimeFor
      <3> QED
        BY <1>1, <1>2, <3>1, LiveReady, SMTT(30)
    <2> QED
      BY <2>1, <2>2
  <1>4. NextToks(1)[1] = Tok(epoch, m)
    BY <1>2, <1>3, RunTail, SMTT(30) DEF NextToks
  <1>5. Finish(res, 1)
    BY <1>3, <1>4, SMTT(30) DEF ForwardToken
  <1>6. Grown(res, RuntimeFor, cache, ids, Blocks, epoch, m)
        /\ FastInSync(res.rt)
    <2> HIDE DEF row, ids
    <2>1. /\ Grown(append(RuntimeFor, Tok(epoch, m), cache, row),
                   RuntimeFor, cache, ids, Blocks, epoch, m)
          /\ FastInSync(append(RuntimeFor, Tok(epoch, m), cache, row).rt)
      BY <1>2, <1>3, AppendGrows, ZenonT(60)
    <2> QED
      BY <2>1
  <1> HIDE DEF res
  <1>7. res.rt.fast_ready => m = num_tokens
    BY <1>2, <1>6, SMTT(30) DEF FastInSync
  <1> QED
    BY <1>1, <1>2, <1>5, <1>6, <1>7, SMTT(30) DEF TokenResult, res

\* It keeps the invariant.
LEMMA TokenKeeps ==
  ASSUME IndInv, NoOneTokenChunk, ForwardToken
  PROVE  IndInv'
  <1>1. TypeOK /\ 1 \in Nat /\ 1 > 0
    BY DEF IndInv
  <1> QED
    BY <1>1, TokenGrows, FinishKeeps, SMTT(30)

\* The plan a later chunk of q tokens builds.
ChunkPlan(q) ==
  NewPlan(rt, Run(epoch, num_computed_tokens, num_computed_tokens + q))

\* A later chunk: the plan continues the sidecar, and the pages it writes are
\* beyond the ones attention can see.
LEMMA ChunkPlanned ==
  ASSUME IndInv, NEW q \in Nat, ForwardChunkBegin(q)
  PROVE  /\ Ready(rt, cache, BlockIds[epoch], Blocks,
                  block_table_row(num_computed_tokens + q), epoch,
                  num_computed_tokens, num_computed_tokens + q)
         /\ rt.fast_ready = FALSE /\ ~ LengthMismatch
         /\ Planned(ChunkPlan(q), rt, cache, BlockIds[epoch], Blocks,
                    block_table_row(num_computed_tokens + q), epoch,
                    num_computed_tokens, num_computed_tokens + q)
  <1> DEFINE n == num_computed_tokens
             m == n + q
             row == block_table_row(m)
             ids == BlockIds[epoch]
             new == NewPlan(rt, Run(epoch, n, m))
  <1>1. phase = "idle" /\ Schedulable(q) /\ n > 0 /\ q > 1
        /\ rt' = rt /\ n' = n /\ num_tokens' = num_tokens /\ epoch' = epoch
    BY DEF ForwardChunkBegin
  <1>2. /\ n \in Nat /\ m \in Nat /\ m <= num_tokens
        /\ m <= MaxTokens /\ n <= m /\ n < m
    BY <1>1, ScheduledFacts, SMTT(30)
  <1>3. /\ Ready(rt, cache, ids, Blocks, row, epoch, n, m)
        /\ rt \in RuntimeType /\ epoch \in Nat
        /\ rt.fast_ready => num_tokens - n <= 1
        /\ ~ LengthMismatch
    BY <1>1, <1>2, LiveReady, SMTT(30)
  <1>4. rt.fast_ready = FALSE
    <2>1. ~ rt.fast_ready
      BY <1>1, <1>2, <1>3, SMTT(30) DEF IndInv, TypeOK
    <2> QED
      BY <1>3, <2>1, ZenonT(60) DEF RuntimeType
  <1>5. Planned(new, rt, cache, ids, Blocks, row, epoch, n, m)
    <2> HIDE DEF row, ids, m
    <2> QED
      BY <1>2, <1>3, NewPlanFacts, ZenonT(60)
  <1> QED
    BY <1>3, <1>4, <1>5, SMTT(30) DEF ChunkPlan

\* It keeps the invariant.
LEMMA ChunkBeginKeeps ==
  ASSUME IndInv, NEW q \in Nat, ForwardChunkBegin(q)
  PROVE  IndInv'
  <1> DEFINE n == num_computed_tokens
             m == n + q
             row == block_table_row(m)
             ids == BlockIds[epoch]
             new == ChunkPlan(q)
  <1>1. phase = "idle" /\ Schedulable(q) /\ n > 0 /\ q > 1
        /\ rt' = rt /\ n' = n /\ num_tokens' = num_tokens /\ epoch' = epoch
    BY DEF ForwardChunkBegin
  <1>2. /\ n \in Nat /\ m \in Nat /\ m <= num_tokens
        /\ m <= MaxTokens /\ n <= m /\ n < m
    BY <1>1, ScheduledFacts
  <1>3. /\ Ready(rt, cache, ids, Blocks, row, epoch, n, m)
        /\ ~ LengthMismatch /\ rt \in RuntimeType
    BY ChunkPlanned, ZenonT(60) DEF IndInv, TypeOK
  <1>4. rt.fast_ready = FALSE
    BY ChunkPlanned, Zenon
  <1>5. Planned(new, rt, cache, ids, Blocks, row, epoch, n, m)
    BY ChunkPlanned, ZenonT(60)
  <1>6. /\ new \in PlanType /\ new.init_closed = rt.closed_pages
        /\ new.num_tokens = q /\ new.last_step = -1
        /\ PlanExtends(new, epoch, n) /\ ~ PlanRaises(new, row)
    BY <1>1, <1>2, <1>5, SMTT(30) DEF Planned
  <1>7. /\ PlanWrites(new, cache, row) \in [Blocks -> Seq(Token)]
        /\ PagesHold(PlanWrites(new, cache, row), ids, epoch,
                     new.init_closed + PlanFullPages(new))
    BY <1>5, SMTT(30) DEF Planned, Written
  <1>8. /\ phase' = "chunk" /\ plan' = new
        /\ cache' = PlanWrites(new, cache, row)
    BY <1>3, <1>6, SMTT(30) DEF ForwardChunkBegin, NextToks, ChunkPlan
  <1> HIDE DEF new
  <1>9. TypeOK'
    BY <1>1, <1>6, <1>7, <1>8, SMTT(30) DEF IndInv, TypeOK
  <1>10. Seen' = n /\ Seen = n
    BY <1>1, <1>2, <1>6, <1>8, SMTT(30) DEF Seen
  <1>11. Represents(rt', epoch', Seen') /\ FastInSync(rt')
    BY <1>1, <1>3, <1>4, <1>10, SMTT(30) DEF Ready, FastInSync
  <1>12. PlanFullPages(new) \in Nat
    <2>1. new.all \in Seq(Token)
      BY <1>6 DEF PlanType
    <2>2. Len(new.all) \in Nat
      BY <2>1, SMTT(30)
    <2> QED
      BY <2>2, PageDivMod, ZenonT(60) DEF PlanFullPages
  <1>13. PagesHold(cache', BlockIds[epoch'], epoch', rt'.closed_pages)
    <2>1. /\ rt.closed_pages \in Nat
          /\ rt.closed_pages <= rt.closed_pages + PlanFullPages(new)
      BY <1>3, <1>12, SMTT(30) DEF RuntimeType
    <2>2. 1..rt.closed_pages
            \subseteq 1..(rt.closed_pages + PlanFullPages(new))
      BY <1>12, <2>1, SMTT(30)
    <2> QED
      BY <1>1, <1>6, <1>7, <1>8, <2>2, SMTT(30) DEF PagesHold
  <1>14. ChunkInvariant'
    <2>1. plan'.last_step + 1 < plan'.num_tokens
      BY <1>1, <1>6, <1>8, SMTT(30)
    <2> QED
      BY <1>1, <1>2, <1>6, <1>7, <1>8, <2>1, SMTT(30) DEF ChunkInvariant
  <1> QED
    BY <1>1, <1>4, <1>8, <1>9, <1>11, <1>13, <1>14, SMTT(30) DEF IndInv

\* One exposed token of a chunk.
LEMMA ChunkStepKeeps ==
  ASSUME IndInv, ForwardChunkStep
  PROVE  IndInv'
  <1> DEFINE n == num_computed_tokens
             step == plan.last_step + 1
             y == n + (step + 1)
             q == apply_step(rt, plan, step)
             full == plan.init_closed + PlanFullPages(plan)
  <1>1. phase = "chunk" /\ rt' = q /\ cache' = cache /\ epoch' = epoch
    BY SMTT(30) DEF ForwardChunkStep
  <1>2. /\ n > 0 /\ step < plan.num_tokens
        /\ n + plan.num_tokens <= num_tokens
        /\ PlanExtends(plan, epoch, n)
        /\ PagesHold(cache, BlockIds[epoch], epoch, full)
    BY <1>1, SMTT(30) DEF IndInv, ChunkInvariant
  <1>3. /\ rt \in RuntimeType /\ plan \in PlanType
        /\ epoch \in 1..MaxEpochs /\ epoch \in Nat
        /\ n \in Nat /\ num_tokens \in 1..MaxTokens /\ MaxTokens \in Nat
        /\ cache \in [Blocks -> Seq(Token)]
    BY SequenceAssumption, SMTT(30) DEF IndInv, TypeOK
  <1>4. /\ plan.last_step \in Nat \cup {-1} /\ plan.num_tokens \in Nat
        /\ plan.init_closed \in Nat /\ plan.all \in Seq(Token)
    BY <1>3, SMTT(30) DEF PlanType
  <1>5. step \in Nat /\ y \in Nat /\ step + 1 <= plan.num_tokens
    BY <1>2, <1>3, <1>4, SMTT(30)
  <1>6. Seen = n + step /\ Seen > 0
    BY <1>1, <1>2, <1>3, <1>4, SMTT(30) DEF Seen
  <1>7. rt.fast_ready = FALSE
    <2>1. ~ rt.fast_ready
      BY <1>1, <1>6, SMTT(30) DEF IndInv
    <2> QED
      BY <1>3, <2>1, ZenonT(60) DEF RuntimeType
  <1>8. Applied(q, rt, plan, epoch, y)
    <2>1. y = n + (step + 1)
      BY SMTT(30)
    <2> HIDE DEF y, step
    <2> QED
      BY <1>2, <1>3, <1>5, <2>1, ApplyStepFacts, SMTT(30)
  <1>9. /\ q \in RuntimeType /\ Represents(q, epoch, y)
        /\ q.closed_pages <= full /\ q.fast_ready = FALSE
    BY <1>7, <1>8, SMTT(30) DEF Applied
  <1> HIDE DEF q
  <1>10. full \in Nat /\ q.closed_pages \in Nat
    <2>1. Len(plan.all) \in Nat
      BY <1>4
    <2>2. PlanFullPages(plan) \in Nat
      BY <2>1, PageDivMod, Zenon DEF PlanFullPages
    <2> QED
      BY <1>4, <1>9, <2>2, SMTT(30) DEF RuntimeType
  <1> HIDE DEF full
  <1>11. PagesHold(cache', BlockIds[epoch'], epoch', rt'.closed_pages)
    <2>1. 1..q.closed_pages \subseteq 1..full
      BY <1>9, <1>10, SMTT(30)
    <2> QED
      BY <1>1, <1>2, <2>1, SMTT(30) DEF PagesHold
  <1>12. FastInSync(rt') /\ ~ rt'.fast_ready
    BY <1>1, <1>9, SMTT(30) DEF FastInSync
  <1>13. CASE step + 1 = plan.num_tokens
    <2>1. /\ phase' = "idle" /\ plan' = NoPlan
          /\ n' = n + plan.num_tokens
          /\ num_tokens' = IF n + plan.num_tokens = num_tokens
                              /\ num_tokens < MaxTokens
                           THEN num_tokens + 1 ELSE num_tokens
      BY <1>13, SMTT(30) DEF ForwardChunkStep, Advance
    <2>2. Seen' = y
      BY <1>3, <1>4, <1>13, <2>1, SMTT(30) DEF Seen
    <2>3. num_tokens' \in 1..MaxTokens /\ n' \in 0..num_tokens'
      BY <1>2, <1>3, <1>4, <2>1, SMTT(30)
    <2>4. NoPlan \in PlanType
      BY SMTT(30) DEF NoPlan, PlanType
    <2>5. TypeOK'
      BY <1>1, <1>3, <1>9, <2>1, <2>3, <2>4, SMTT(30) DEF TypeOK
    <2>6. ChunkInvariant'
      BY <2>1, SMTT(30) DEF ChunkInvariant
    <2>7. Represents(rt', epoch', Seen')
      BY <1>1, <1>9, <2>2, SMTT(30)
    <2> QED
      BY <1>11, <1>12, <2>1, <2>5, <2>6, <2>7, SMTT(30) DEF IndInv
  <1>14. CASE step + 1 # plan.num_tokens
    <2>1. /\ phase' = "chunk" /\ plan' = [plan EXCEPT !.last_step = step]
          /\ n' = n /\ num_tokens' = num_tokens
      BY <1>1, <1>14, SMTT(30) DEF ForwardChunkStep
    <2>2. plan' \in PlanType
      BY <1>3, <1>5, <2>1, ZenonT(60) DEF PlanType
    <2>3. /\ plan'.last_step = step /\ plan'.num_tokens = plan.num_tokens
          /\ plan'.init_closed = plan.init_closed /\ plan'.all = plan.all
          /\ plan'.init_open_len = plan.init_open_len
          /\ plan'.init_recent_len = plan.init_recent_len
          /\ plan'.combined_recent = plan.combined_recent
      BY <1>3, <2>1, ZenonT(60) DEF PlanType
    <2>4. Seen' = y
      BY <1>3, <1>5, <2>1, <2>3, SMTT(30) DEF Seen
    <2>5. TypeOK'
      BY <1>1, <1>3, <1>9, <2>1, <2>2, SMTT(30) DEF IndInv, TypeOK
    <2>6. PlanExtends(plan', epoch, n)
      BY <1>2, <2>3, SMTT(30) DEF PlanExtends
    <2>7. PlanFullPages(plan') = PlanFullPages(plan)
      BY <2>3, SMTT(30) DEF PlanFullPages
    <2>8. step + 1 < plan.num_tokens
      BY <1>4, <1>5, <1>14, SMTT(30)
    <2>9. ChunkInvariant'
      BY <1>1, <1>2, <2>1, <2>3, <2>6, <2>7, <2>8, SMTT(30)
         DEF ChunkInvariant, full
    <2>10. Represents(rt', epoch', Seen')
      BY <1>1, <1>9, <2>4
    <2> QED
      BY <1>11, <1>12, <2>1, <2>5, <2>9, <2>10, SMTT(30) DEF IndInv
  <1> QED
    BY <1>13, <1>14, SMTT(30)

\* A request that starts again has no computed tokens, so nothing of the old
\* sidecar is claimed.
LEMMA RestartKeeps ==
  ASSUME IndInv, Preempt \/ \E prompt \in 1..MaxTokens : Resubmit(prompt)
  PROVE  IndInv'
  <1>1. /\ phase = "idle" /\ phase' = "idle" /\ num_computed_tokens' = 0
        /\ rt' = rt /\ cache' = cache /\ plan' = plan /\ epoch < MaxEpochs
        /\ epoch' = epoch + 1 /\ num_tokens' \in 1..MaxTokens
    BY SMTT(30) DEF Preempt, Resubmit, IndInv, TypeOK
  <1>2. TypeOK'
    BY <1>1, SequenceAssumption, SMTT(30) DEF IndInv, TypeOK
  <1>3. Seen' = 0
    BY <1>1, SMTT(30) DEF Seen
  <1>4. ChunkInvariant'
    BY <1>1, SMTT(30) DEF ChunkInvariant
  <1> QED
    BY <1>1, <1>2, <1>3, <1>4, SMTT(30) DEF IndInv

\* Steps that change nothing keep everything.
LEMMA StutterKeeps ==
  ASSUME IndInv, UNCHANGED vars
  PROVE  IndInv'
  BY DEF vars, IndInv, TypeOK, Seen, ChunkInvariant

\* Every step of the serving paths keeps the invariant.
LEMMA StepKeeps ==
  ASSUME NoOneTokenChunk, IndInv, [Next]_vars
  PROVE  IndInv'
  <1>1. ASSUME NEW q \in 1..MaxChunk, ForwardInitialChunk(q)
        PROVE  IndInv'
    <2>1. q \in Nat
      BY SequenceAssumption, SMTT(30)
    <2> QED
      BY <1>1, <2>1, InitialChunkKeeps, SMTT(30)
  <1>2. ASSUME NEW q \in 1..MaxChunk, ForwardChunkBegin(q)
        PROVE  IndInv'
    <2>1. q \in Nat
      BY SequenceAssumption
    <2> QED
      BY <1>2, <2>1, ChunkBeginKeeps
  <1>3. CASE ForwardToken
    BY <1>3, TokenKeeps
  <1>4. CASE ForwardChunkStep
    BY <1>4, ChunkStepKeeps, SMTT(30)
  <1>5. CASE Preempt \/ \E prompt \in 1..MaxTokens : Resubmit(prompt)
    BY <1>5, RestartKeeps, SMTT(30)
  <1>6. CASE UNCHANGED vars
    BY <1>6, StutterKeeps, SMTT(30)
  <1> QED
    BY <1>1, <1>2, <1>3, <1>4, <1>5, <1>6, SMTT(30) DEF Next, Forward

\* A request nobody has computed satisfies the invariant.
LEMMA InitKeeps ==
  ASSUME Init
  PROVE  IndInv
  <1>1. NewRuntime \in RuntimeType
    <2>1. 0 \in Nat
      OBVIOUS
    <2> QED
      BY <2>1, NewRuntimeFacts, ZenonT(60)
  <1>2. NoPlan \in PlanType
    BY DEF NoPlan, PlanType
  <1>3. cache \in [Blocks -> Seq(Token)]
    BY DEF Init
  <1>4. TypeOK
    BY <1>1, <1>2, <1>3, SequenceAssumption, SMTT(30) DEF Init, TypeOK
  <1>5. Seen = 0 /\ phase = "idle"
    BY DEF Init, Seen
  <1> QED
    BY <1>4, <1>5, SMTT(30) DEF IndInv, ChunkInvariant

\* The inductive invariant holds in every reachable state.
THEOREM Inductive ==
  ASSUME NoOneTokenChunk
  PROVE  Spec => []IndInv
  <1>1. Init => IndInv
    BY InitKeeps
  <1>2. IndInv /\ [Next]_vars => IndInv'
    BY StepKeeps, SMTT(30)
  <1> QED
    BY <1>1, <1>2, PTL DEF Spec
-----------------------------------------------------------------------------
\* The sizes docs/METHOD.md gives follow from what the sidecar represents.
LEMMA LawFollows ==
  ASSUME IndInv
  PROVE  StateLaw
  <1>1. SUFFICES ASSUME Live
        PROVE  /\ rt.closed_pages = Aged(Seen) \div GroupSize
               /\ Len(rt.open) = Aged(Seen) % GroupSize
               /\ Len(rt.recent) = IF Seen < ResidualTokens THEN Seen
                                   ELSE ResidualTokens
    BY SMTT(30) DEF StateLaw
  <1>2. /\ rt \in RuntimeType /\ epoch \in Nat /\ Seen \in Nat
        /\ Represents(rt, epoch, Seen)
    BY <1>1, SMTT(30) DEF Live, IndInv, TypeOK, Seen, PlanType
  <1> DEFINE c == rt.closed_pages
             o == Len(rt.open)
  <1>3. /\ c \in Nat /\ PageTokens(c) \in Nat
        /\ o = Aged(Seen) - PageTokens(c)
        /\ PageTokens(c) <= Aged(Seen)
        /\ Aged(Seen) < PageTokens(c) + GroupSize
        /\ Len(rt.recent) = Seen - Aged(Seen)
    BY <1>2, RepresentsFacts
  <1>4. /\ Aged(Seen) \in Nat
        /\ Seen < ResidualTokens => Aged(Seen) = 0
        /\ Seen >= ResidualTokens => Aged(Seen) = Seen - ResidualTokens
    BY <1>2, AgedFacts, SMTT(30)
  <1>5. Len(rt.recent) = IF Seen < ResidualTokens THEN Seen
                         ELSE ResidualTokens
    BY <1>2, <1>3, <1>4, ShapeAssumption, SMTT(30)
  <1> HIDE DEF c, o
  <1>6. o \in Nat /\ o < GroupSize /\ Aged(Seen) = PageTokens(c) + o
    BY <1>3, <1>4, ShapeAssumption, SMTT(30)
  <1>7. /\ (PageTokens(c) + o) \div GroupSize = c
        /\ (PageTokens(c) + o) % GroupSize = o
    BY <1>3, <1>6, PageDivUnique, SMTT(30)
  <1> QED
    BY <1>5, <1>6, <1>7, SMTT(30) DEF c, o

\* Types hold in every reachable state, the fast path's slot range included.
THEOREM TypeCorrect ==
  ASSUME NoOneTokenChunk
  PROVE  Spec => []TypeOK
  <1>1. IndInv => TypeOK
    BY SMTT(30) DEF IndInv
  <1> QED
    BY <1>1, Inductive, PTL

\* No forward raises: the length check and the row-width checks of
\* _forward_rabit_kv2, _flush_open_page, the bulk append and the chunk plan
\* never fail.
THEOREM ForwardsSucceed ==
  ASSUME NoOneTokenChunk
  PROVE  Spec => []NeverRaises
  <1>1. IndInv => NeverRaises
    BY SMTT(30) DEF IndInv, NeverRaises
  <1> QED
    BY <1>1, Inductive, PTL

\* After every token of every path the state has the sizes docs/METHOD.md
\* gives for the number of tokens seen.
THEOREM StateLawHolds ==
  ASSUME NoOneTokenChunk
  PROVE  Spec => []StateLaw
  <1>1. IndInv => StateLaw
    BY LawFollows, SMTT(30)
  <1> QED
    BY <1>1, Inductive, PTL
-----------------------------------------------------------------------------
\* What a step may do to the pages of the running computation.
PagesStep ==
  epoch' = epoch /\ Live /\ phase' # "raised" =>
    /\ rt'.closed_pages >= rt.closed_pages
    /\ \A b \in Blocks : cache'[b] # cache[b] =>
         \E p \in (rt.closed_pages + 1)..Cdiv(num_tokens, GroupSize) :
           b = BlockIds[epoch][p]

\* Block b is the block of a page after the first c that n tokens fill, or
\* that n tokens have been allocated a block for.
FilledPage(b, c, ids, n) ==
  \E p \in (c + 1)..Len(ids) : PageTokens(p) <= n /\ b = ids[p]
AllocatedPage(b, c, ids, n) ==
  \E p \in (c + 1)..Cdiv(n, GroupSize) : b = ids[p]

\* A page that n tokens fill has a block once N >= n tokens are allocated.
LEMMA BlockReached ==
  ASSUME NEW c \in Nat, NEW n \in Nat, NEW N \in Nat, n <= N,
         NEW ids, Len(ids) \in Nat, NEW b, FilledPage(b, c, ids, n)
  PROVE  AllocatedPage(b, c, ids, N)
  <1>1. PICK p \in (c + 1)..Len(ids) : PageTokens(p) <= n /\ b = ids[p]
    BY SMTT(30) DEF FilledPage
  <1>2. p \in Nat /\ PageTokens(p) \in Nat /\ c + 1 <= p
    BY <1>1, PageTokensFacts, SMTT(30)
  <1>3. PageTokens(p) <= N
    BY <1>1, <1>2, SMTT(30)
  <1>4. p <= Cdiv(N, GroupSize)
    BY <1>2, <1>3, CdivCovers, SMTT(30)
  <1>5. Cdiv(N, GroupSize) \in Int
    BY ShapeAssumption, SMTT(30) DEF Cdiv
  <1>6. p \in (c + 1)..Cdiv(N, GroupSize)
    BY <1>2, <1>4, <1>5, SMTT(30)
  <1> QED
    BY <1>1, <1>6, SMTT(30) DEF AllocatedPage

\* Decode closes at most the next page.
LEMMA TokenPages ==
  ASSUME IndInv, NoOneTokenChunk, ForwardToken, Live
  PROVE  PagesStep
  <1> DEFINE n == num_computed_tokens
             ids == BlockIds[epoch]
  <1>1. /\ Finish(TokenResult, 1) /\ phase = "idle" /\ n + 1 \in Nat
        /\ n + 1 <= num_tokens
        /\ Grown(TokenResult, RuntimeFor, cache, ids, Blocks, epoch, n + 1)
    BY TokenGrows, SMTT(30)
  <1>2. RuntimeFor = rt
    BY <1>1, SMTT(30) DEF Live, Seen, RuntimeFor
  <1>3. rt' = TokenResult.rt /\ cache' = TokenResult.cache
    BY <1>1, SMTT(30) DEF Finish
  <1>4. /\ rt.closed_pages \in Nat /\ TokenResult.rt.closed_pages \in Nat
        /\ num_tokens \in Nat /\ Len(ids) \in Nat
    <2>1. rt \in RuntimeType /\ TokenResult.rt \in RuntimeType
      BY <1>1, SMTT(30) DEF IndInv, TypeOK, Grown
    <2>2. num_tokens \in Nat /\ Len(ids) \in Nat
      BY SequenceAssumption, SMTT(30) DEF IndInv, TypeOK
    <2> QED
      BY <2>1, <2>2, SMTT(30) DEF RuntimeType
  <1>5. rt.closed_pages <= TokenResult.rt.closed_pages
    BY <1>1, <1>2, SMTT(30) DEF Grown
  <1>6. ASSUME NEW b \in Blocks, cache'[b] # cache[b]
        PROVE  \E p \in (rt.closed_pages + 1)..Cdiv(num_tokens, GroupSize) :
                 b = ids[p]
    <2>1. \E p \in (rt.closed_pages + 1)..Len(ids) :
            PageTokens(p) <= n + 1 /\ b = ids[p]
      BY <1>1, <1>2, <1>3, <1>6, SMTT(30) DEF Grown
    <2> DEFINE m == n + 1
    <2> HIDE DEF m, ids
    <2>2. m \in Nat /\ m <= num_tokens
          /\ FilledPage(b, rt.closed_pages, ids, m)
      BY <1>1, <2>1, SMTT(30) DEF m, FilledPage
    <2>3. AllocatedPage(b, rt.closed_pages, ids, num_tokens)
      BY <1>4, <2>2, BlockReached, SMTT(30)
    <2> QED
      BY <2>3, SMTT(30) DEF AllocatedPage
  <1> QED
    BY <1>3, <1>4, <1>5, <1>6, SMTT(30) DEF PagesStep

\* A chunk plan writes only pages that are not closed yet.
LEMMA ChunkBeginPages ==
  ASSUME IndInv, NEW q \in Nat, ForwardChunkBegin(q)
  PROVE  PagesStep
  <1> DEFINE n == num_computed_tokens
             m == n + q
             ids == BlockIds[epoch]
             row == block_table_row(m)
             new == ChunkPlan(q)
             cw == PlanWrites(new, cache, row)
  <1>1. phase = "idle" /\ Schedulable(q) /\ rt' = rt
    BY SMTT(30) DEF ForwardChunkBegin
  <1>2. m \in Nat /\ m <= num_tokens
    BY <1>1, ScheduledFacts, SMTT(30)
  <1>3. /\ Planned(new, rt, cache, ids, Blocks, row, epoch, n, m)
        /\ ~ LengthMismatch
    BY ChunkPlanned, ZenonT(60)
  <1>4. /\ new.init_closed = rt.closed_pages /\ ~ PlanRaises(new, row)
        /\ Written(cw, PlanFullPages(new), rt.closed_pages, cache, ids,
                   Blocks, epoch, m)
    BY <1>3, SMTT(30) DEF Planned
  <1>5. cache' = cw
    BY <1>3, <1>4, SMTT(30) DEF ForwardChunkBegin, NextToks, ChunkPlan
  <1> HIDE DEF new, cw
  <1>6. /\ rt.closed_pages \in Nat /\ num_tokens \in Nat /\ Len(ids) \in Nat
    BY SequenceAssumption, SMTT(30) DEF IndInv, TypeOK, RuntimeType
  <1>7. ASSUME NEW b \in Blocks, cache'[b] # cache[b]
        PROVE  \E p \in (rt.closed_pages + 1)..Cdiv(num_tokens, GroupSize) :
                 b = ids[p]
    <2>1. \E p \in (rt.closed_pages + 1)..Len(ids) :
            PageTokens(p) <= m /\ b = ids[p]
      BY <1>4, <1>5, <1>7, SMTT(30) DEF Written
    <2> HIDE DEF m, ids
    <2>2. FilledPage(b, rt.closed_pages, ids, m)
      BY <2>1, SMTT(30) DEF FilledPage
    <2>3. AllocatedPage(b, rt.closed_pages, ids, num_tokens)
      BY <1>2, <1>6, <2>2, BlockReached, SMTT(30)
    <2> QED
      BY <2>3, SMTT(30) DEF AllocatedPage
  <1> QED
    BY <1>1, <1>6, <1>7 DEF PagesStep

\* Exposing the next token of a chunk writes nothing and closes pages in order.
LEMMA ChunkStepPages ==
  ASSUME IndInv, ForwardChunkStep
  PROVE  PagesStep
  <1>1. IndInv'
    BY ChunkStepKeeps, SMTT(30)
  <1>2. phase = "chunk" /\ cache' = cache /\ epoch' = epoch
    BY SMTT(30) DEF ForwardChunkStep
  <1>3. /\ num_computed_tokens > 0 /\ num_computed_tokens \in Nat
        /\ plan.last_step \in Nat \cup {-1} /\ plan.num_tokens \in Nat
        /\ rt \in RuntimeType /\ rt' \in RuntimeType /\ epoch \in Nat
    BY <1>1, <1>2, SequenceAssumption, SMTT(30)
       DEF IndInv, ChunkInvariant, TypeOK, PlanType
  <1>4. Seen = num_computed_tokens + (plan.last_step + 1)
    BY <1>2, SMTT(30) DEF Seen
  <1>5. Seen' = num_computed_tokens + (plan.last_step + 2)
    <2>1. CASE plan.last_step + 1 + 1 = plan.num_tokens
      BY <1>3, <2>1, SMTT(30) DEF ForwardChunkStep, Advance, Seen
    <2>2. CASE plan.last_step + 1 + 1 # plan.num_tokens
      <3>1. /\ num_computed_tokens' = num_computed_tokens /\ phase' = "chunk"
            /\ plan' = [plan EXCEPT !.last_step = plan.last_step + 1]
        BY <1>2, <2>2, SMTT(30) DEF ForwardChunkStep
      <3>2. plan'.last_step = plan.last_step + 1
        BY <3>1, SMTT(30) DEF IndInv, TypeOK, PlanType
      <3> QED
        BY <1>3, <3>1, <3>2, SMTT(30) DEF Seen
    <2> QED
      BY <2>1, <2>2, SMTT(30)
  <1>6. Seen \in Nat /\ Seen' \in Nat /\ Seen <= Seen' /\ Seen > 0 /\ Seen' > 0
    BY <1>3, <1>4, <1>5, SMTT(30)
  <1>7. Represents(rt, epoch, Seen) /\ Represents(rt', epoch, Seen')
    BY <1>1, <1>2, <1>6, SMTT(30) DEF IndInv
  <1>8. /\ rt.closed_pages \in Nat /\ rt'.closed_pages \in Nat
        /\ PageTokens(rt.closed_pages) <= Aged(Seen)
        /\ Aged(Seen') < PageTokens(rt'.closed_pages) + GroupSize
    BY <1>3, <1>6, <1>7, RepresentsFacts, SMTT(30)
  <1>9. Aged(Seen) \in Nat /\ Aged(Seen') \in Nat /\ Aged(Seen) <= Aged(Seen')
    BY <1>6, AgedShift, ZenonT(60)
  <1>10. rt.closed_pages <= rt'.closed_pages
    BY <1>8, <1>9, PageOrder, SMTT(30)
  <1> QED
    BY <1>2, <1>8, <1>10, SMTT(30) DEF PagesStep

\* Every step respects the pages attention can see.
LEMMA StepPages ==
  ASSUME NoOneTokenChunk, IndInv, [Next]_vars
  PROVE  PagesStep
  <1>1. ASSUME NEW q \in 1..MaxChunk, ForwardInitialChunk(q)
        PROVE  PagesStep
    <2>1. ~ Live
      BY <1>1, SMTT(30) DEF ForwardInitialChunk, Live, Seen
    <2> QED
      BY <2>1, SMTT(30) DEF PagesStep
  <1>2. ASSUME NEW q \in 1..MaxChunk, ForwardChunkBegin(q)
        PROVE  PagesStep
    <2>1. q \in Nat
      BY SequenceAssumption
    <2> QED
      BY <1>2, <2>1, ChunkBeginPages, SMTT(30)
  <1>3. CASE ForwardToken
    BY <1>3, TokenPages, SMTT(30) DEF PagesStep
  <1>4. CASE ForwardChunkStep
    BY <1>4, ChunkStepPages, SMTT(30)
  <1>5. CASE Preempt \/ \E prompt \in 1..MaxTokens : Resubmit(prompt)
    <2>1. epoch' = epoch + 1 /\ epoch \in Nat
      BY <1>5, SequenceAssumption, SMTT(30)
         DEF Preempt, Resubmit, IndInv, TypeOK
    <2> QED
      BY <2>1, SMTT(30) DEF PagesStep
  <1>6. CASE UNCHANGED vars
    <2>1. rt.closed_pages \in Nat
      BY DEF IndInv, TypeOK, RuntimeType
    <2> QED
      BY <1>6, <2>1, SMTT(30) DEF vars, PagesStep
  <1> QED
    BY <1>1, <1>2, <1>3, <1>4, <1>5, <1>6, SMTT(30) DEF Next, Forward

\* Pages attention can see are immutable: pages never reopen and writes land
\* only in blocks of pages not yet closed (docs/METHOD.md: "Once it reaches 32
\* tokens it closes into an immutable physical page").
THEOREM PagesAreImmutable ==
  ASSUME NoOneTokenChunk
  PROVE  Spec => ClosedPagesImmutable
  <1>1. IndInv /\ [Next]_vars => [PagesStep]_vars
    BY StepPages, SMTT(30)
  <1>2. Spec => []IndInv
    BY Inductive
  <1> QED
    BY <1>1, <1>2, PTL DEF Spec, ClosedPagesImmutable, PagesStep
-----------------------------------------------------------------------------
\* The sidecar, the rows and the pages, as attention needs them.
Readable(r, cb, ids, row, e, n) ==
  /\ r \in RuntimeType /\ e \in Nat /\ n \in Nat
  /\ Represents(r, e, n)
  /\ PagesHold(cb, ids, e, r.closed_pages)
  /\ GoodRow(row, ids, n)

\* A cached token as attention reads it, and the value the policy gives it.
Cell == [tok : Token, group : Seq(Token)]
LawGroup(e, n, k) ==
  Run(e, PageTokens(k), IF PageTokens(k) + GroupSize < Aged(n)
                        THEN PageTokens(k) + GroupSize ELSE Aged(n))

\* Position i of the view the policy gives.
LEMMA ViewCell ==
  ASSUME NEW e \in Nat, NEW n \in Nat, NEW i \in 1..n
  PROVE  LawView(e, n)[i] =
           [tok |-> Tok(e, i),
            group |-> IF i <= Aged(n)
                      THEN LawGroup(e, n, (i - 1) \div GroupSize) ELSE <<>>]
  BY ZenonT(60) DEF LawView, LawGroup

\* The page a closed position lies in, and its place in the page.
LEMMA ClosedPosition ==
  ASSUME NEW c \in Nat, NEW i \in 1..PageTokens(c)
  PROVE  LET k == (i - 1) \div GroupSize
             o == (i - 1) % GroupSize
         IN  /\ k \in Nat /\ o \in Nat /\ k + 1 \in 1..c
             /\ PageTokens(k) \in Nat
             /\ PageTokens(k + 1) = PageTokens(k) + GroupSize
             /\ PageTokens(k + 1) <= PageTokens(c)
             /\ o + 1 \in 1..GroupSize
             /\ PageTokens(k) + (o + 1) = i
  <1> DEFINE j == i - 1
             k == j \div GroupSize
             o == j % GroupSize
             d == k + 1
  <1>1. PageTokens(c) \in Nat /\ j \in Nat /\ j < PageTokens(c) /\ i = j + 1
    BY PageTokensFacts, SMTT(30)
  <1> HIDE DEF j
  <1>2. /\ k \in Nat /\ o \in Nat /\ PageTokens(k) <= j
        /\ j < PageTokens(k) + GroupSize /\ j = PageTokens(k) + o
    BY <1>1, PageDivMod, SMTT(30)
  <1> HIDE DEF k, o
  <1>3. PageTokens(k) \in Nat /\ PageTokens(k + 1) = PageTokens(k) + GroupSize
    BY <1>2, PageTokensFacts, SMTT(30)
  <1>4. o + 1 \in 1..GroupSize /\ PageTokens(k) + (o + 1) = i
    BY <1>1, <1>2, <1>3, ShapeAssumption, SMTT(30)
  <1>5. k + 1 <= c
    BY <1>1, <1>2, ShapeAssumption, SMTT(30) DEF PageTokens
  <1>6. PageTokens(k + 1) <= PageTokens(c)
    <2>1. d \in Nat /\ d <= c
      BY <1>2, <1>5, SMTT(30)
    <2> HIDE DEF d
    <2>2. PageTokens(d) <= PageTokens(c)
      BY <2>1, PageTokensMono, SMTT(30)
    <2> QED
      BY <2>2, SMTT(30) DEF d
  <1> QED
    BY <1>2, <1>3, <1>4, <1>5, <1>6, SMTT(30) DEF k, o, j

\* What attention materialises from a readable sidecar is what the policy
\* gives for its tokens.
LEMMA ViewFacts ==
  ASSUME NEW r, NEW cb, NEW ids, NEW row, NEW e, NEW n,
         Readable(r, cb, ids, row, e, n)
  PROVE  materialize(r, cb, row) = LawView(e, n)
  <1> DEFINE c == r.closed_pages
             base == PageTokens(c)
             a == Aged(n)
             v == LawView(e, n)
             page(i) == cb[row[((i - 1) \div GroupSize) + 1]]
             x == [i \in 1..base |->
                     [tok |-> page(i)[((i - 1) % GroupSize) + 1],
                      group |-> page(i)]]
             y == Quantized(r.open)
             z == Exact(r.recent)
  <1>1. r \in RuntimeType /\ e \in Nat /\ n \in Nat
        /\ PagesHold(cb, ids, e, c) /\ Represents(r, e, n)
    BY SMTT(30) DEF Readable
  <1>2. /\ c \in Nat /\ base \in Nat /\ base <= a /\ a < base + GroupSize
        /\ a \in Nat /\ a <= n /\ n \in Nat
    BY <1>1, RepresentsFacts, AgedFacts, SMTT(30)
  <1>3. /\ r.open = Run(e, base, a) /\ r.recent = Run(e, a, n)
        /\ Len(r.open) = a - base /\ Len(r.recent) = n - a
    BY <1>1, RepresentsFacts, SMTT(30)
  <1>4. ASSUME NEW i \in 1..base
        PROVE  /\ page(i)[((i - 1) % GroupSize) + 1] = Tok(e, i)
               /\ page(i) = LawGroup(e, n, (i - 1) \div GroupSize)
               /\ page(i) \in Seq(Token)
    <2> DEFINE k == (i - 1) \div GroupSize
               o == (i - 1) % GroupSize
               lo == PageTokens(k)
               hi == PageTokens(k + 1)
    <2>1. /\ k \in Nat /\ o \in Nat /\ k + 1 \in 1..c
          /\ lo \in Nat /\ hi = lo + GroupSize /\ hi <= base
          /\ o + 1 \in 1..GroupSize /\ lo + (o + 1) = i
      BY <1>2, ClosedPosition, SMTT(30)
    <2> HIDE DEF k, o
    <2>2. hi \in Nat /\ lo <= hi /\ hi <= a /\ hi <= n /\ hi - lo = GroupSize
      BY <1>2, <2>1, ShapeAssumption, SMTT(30)
    <2>3. k + 1 \in 1..Len(ids)
      <3> DEFINE d == k + 1
      <3>1. /\ Len(ids) \in Nat /\ n <= PageTokens(Len(ids))
        BY SMTT(30) DEF Readable, GoodRow
      <3>2. d \in Nat /\ d >= 1 /\ PageTokens(d) <= n
        BY <2>1, <2>2, SMTT(30)
      <3> HIDE DEF d
      <3>3. d <= Len(ids)
        BY <1>1, <3>1, <3>2, PageBound, SMTT(30)
      <3>4. d \in 1..Len(ids)
        BY <3>1, <3>2, <3>3, SMTT(30)
      <3> QED
        BY <3>4, SMTT(30) DEF d
    <2>4. row[k + 1] = ids[k + 1]
      BY <2>2, <2>3, SMTT(30) DEF Readable, GoodRow
    <2>5. page(i) = Run(e, lo, hi)
      <3>1. cb[ids[k + 1]] = Run(e, PageTokens((k + 1) - 1), PageTokens(k + 1))
        BY <1>1, <2>1, SMTT(30) DEF PagesHold
      <3>2. (k + 1) - 1 = k
        BY <2>1, SMTT(30)
      <3> QED
        BY <2>4, <3>1, <3>2, SMTT(30) DEF k
    <2>6. /\ Run(e, lo, hi) \in Seq(Token)
          /\ Spells(Run(e, lo, hi), e, lo, hi)
      BY <1>1, <2>1, <2>2, RunLen, RunSpells, ZenonT(60)
    <2>7. Run(e, lo, hi)[o + 1] = Tok(e, lo + (o + 1))
      BY <2>1, <2>2, <2>6, SMTT(30) DEF Spells
    <2>8. LawGroup(e, n, k) = Run(e, lo, hi)
      <3>1. hi = IF lo + GroupSize < a THEN lo + GroupSize ELSE a
        BY <1>2, <2>1, <2>2, ShapeAssumption, SMTT(30)
      <3> QED
        BY <3>1, SMTT(30) DEF LawGroup
    <2> QED
      BY <2>1, <2>5, <2>6, <2>7, <2>8, SMTT(30) DEF k, o
  <1>5. ASSUME NEW i \in 1..n
        PROVE  v[i] = [tok |-> Tok(e, i),
                       group |-> IF i <= a
                                 THEN LawGroup(e, n, (i - 1) \div GroupSize)
                                 ELSE <<>>]
    BY <1>1, ViewCell, ZenonT(60)
  <1>6. x \in Seq(Cell) /\ Len(x) = base /\ Matches(x, v, 0, base)
    <2>1. ASSUME NEW i \in 1..base
          PROVE  x[i] = [tok |-> Tok(e, i),
                         group |-> LawGroup(e, n, (i - 1) \div GroupSize)]
                 /\ LawGroup(e, n, (i - 1) \div GroupSize) \in Seq(Token)
      BY <1>4, SMTT(30)
    <2>2. ASSUME NEW i \in 1..base
          PROVE  x[i] = v[i] /\ x[i] \in Cell
      <3>1. i \in 1..n /\ i <= a
        BY <1>2, SMTT(30)
      <3>2. v[i] = [tok |-> Tok(e, i),
                    group |-> LawGroup(e, n, (i - 1) \div GroupSize)]
        BY <1>5, <3>1, ZenonT(60)
      <3>3. Tok(e, i) \in Token
        BY <1>1, <1>2, SMTT(30) DEF Tok, Token
      <3>4. /\ x[i] = [tok |-> Tok(e, i),
                       group |-> LawGroup(e, n, (i - 1) \div GroupSize)]
            /\ LawGroup(e, n, (i - 1) \div GroupSize) \in Seq(Token)
        BY <2>1, SMTT(30)
      <3> DEFINE g == LawGroup(e, n, (i - 1) \div GroupSize)
      <3> HIDE DEF x, v, g
      <3>5. /\ x[i] = [tok |-> Tok(e, i), group |-> g] /\ g \in Seq(Token)
            /\ v[i] = [tok |-> Tok(e, i), group |-> g]
        BY <3>2, <3>4, SMTT(30) DEF g
      <3> QED
        BY <3>3, <3>5, SMTT(30) DEF Cell
    <2>3. x \in Seq(Cell) /\ Len(x) = base
      <3>1. x \in [1..base -> Cell]
        <4>1. x = [i \in 1..base |-> x[i]]
          BY SMTT(30)
        <4> HIDE DEF x
        <4> QED
          BY <2>2, <4>1, SMTT(30)
      <3> HIDE DEF x
      <3> QED
        BY <1>2, <3>1, SMTT(30)
    <2> HIDE DEF x, v
    <2> QED
      BY <1>2, <2>2, <2>3, SMTT(30) DEF Matches
  <1>7. y \in Seq(Cell) /\ Len(y) = a - base /\ Matches(y, v, base, a)
    <2> DEFINE l == a - base
    <2>1. l \in Nat /\ Len(r.open) = l
      BY <1>2, <1>3, SMTT(30)
    <2>2. Spells(r.open, e, base, a) /\ r.open \in Seq(Token)
      BY <1>1, <1>2, <1>3, RunSpells, RunLen, ZenonT(60)
    <2>3. y = [i \in 1..l |-> [tok |-> r.open[i], group |-> r.open]]
      BY <2>1, SMTT(30) DEF Quantized
    <2>4. ASSUME NEW i \in 1..l
          PROVE  y[i] = v[base + i] /\ y[i] \in Cell
      <3> DEFINE o == i - 1
      <3>1. /\ base + i \in 1..n /\ base + i <= a /\ o \in Nat
            /\ o < GroupSize /\ (base + i) - 1 = base + o
        BY <1>2, <2>1, ShapeAssumption, SMTT(30)
      <3> HIDE DEF o
      <3>2. ((base + i) - 1) \div GroupSize = c
        <4>1. (PageTokens(c) + o) \div GroupSize = c
          BY <1>2, <3>1, PageDivUnique, SMTT(30)
        <4> QED
          BY <3>1, <4>1
      <3>3. LawGroup(e, n, c) = r.open
        BY <1>2, <1>3, ShapeAssumption, SMTT(30) DEF LawGroup
      <3>4. v[base + i] = [tok |-> Tok(e, base + i), group |-> r.open]
        BY <1>5, <3>1, <3>2, <3>3, ZenonT(60)
      <3>5. r.open[i] = Tok(e, base + i) /\ Tok(e, base + i) \in Token
        <4>1. r.open[i] = Tok(e, base + i)
          BY <2>2, SMTT(30) DEF Spells
        <4>2. r.open[i] \in Token
          BY <2>1, <2>2, SMTT(30)
        <4> QED
          BY <4>1, <4>2, SMTT(30)
      <3>6. y[i] = [tok |-> r.open[i], group |-> r.open]
        BY <2>3, SMTT(30)
      <3> HIDE DEF y, v
      <3> QED
        BY <2>2, <3>4, <3>5, <3>6, SMTT(30) DEF Cell
    <2>5. y \in Seq(Cell) /\ Len(y) = l
      <3>1. y \in [1..l -> Cell]
        <4>1. y = [i \in 1..l |-> y[i]]
          BY <2>3, SMTT(30)
        <4> HIDE DEF y, l
        <4> QED
          BY <2>4, <4>1, SMTT(30)
      <3> HIDE DEF y, l
      <3> QED
        BY <2>1, <3>1, SMTT(30)
    <2> HIDE DEF y, v
    <2> QED
      BY <2>4, <2>5, SMTT(30) DEF Matches
  <1>8. z \in Seq(Cell) /\ Len(z) = n - a /\ Matches(z, v, a, n)
    <2> DEFINE l == n - a
    <2>1. l \in Nat /\ Len(r.recent) = l
      BY <1>2, <1>3, SMTT(30)
    <2>2. Spells(r.recent, e, a, n) /\ r.recent \in Seq(Token)
      BY <1>1, <1>2, <1>3, RunSpells, RunLen, ZenonT(60)
    <2>3. z = [i \in 1..l |-> [tok |-> r.recent[i], group |-> <<>>]]
      BY <2>1, SMTT(30) DEF Exact
    <2>4. ASSUME NEW i \in 1..l
          PROVE  z[i] = v[a + i] /\ z[i] \in Cell
      <3>1. a + i \in 1..n /\ ~ (a + i <= a)
        BY <1>2, <2>1, SMTT(30)
      <3>2. v[a + i] = [tok |-> Tok(e, a + i), group |-> <<>>]
        BY <1>5, <3>1, ZenonT(60)
      <3>3. r.recent[i] = Tok(e, a + i)
        BY <2>2, SMTT(30) DEF Spells
      <3>4. r.recent[i] \in Token /\ <<>> \in Seq(Token)
        BY <2>1, <2>2, SMTT(30)
      <3>5. z[i] = [tok |-> r.recent[i], group |-> <<>>]
        BY <2>3, SMTT(30)
      <3> HIDE DEF z, v
      <3> QED
        BY <3>2, <3>3, <3>4, <3>5, SMTT(30) DEF Cell
    <2>5. z \in Seq(Cell) /\ Len(z) = l
      <3>1. z \in [1..l -> Cell]
        <4>1. z = [i \in 1..l |-> z[i]]
          BY <2>3, SMTT(30)
        <4> HIDE DEF z, l
        <4> QED
          BY <2>4, <4>1, SMTT(30)
      <3> HIDE DEF z, l
      <3> QED
        BY <2>1, <3>1, SMTT(30)
    <2> HIDE DEF z, v
    <2> QED
      BY <2>4, <2>5, SMTT(30) DEF Matches
  <1>9. v \in Seq(Cell) /\ Len(v) = n
    <2>1. ASSUME NEW i \in 1..n
          PROVE  v[i] \in Cell
      <3> HIDE DEF v
      <3>1. CASE i <= base
        <4>1. i \in 1..base
          BY <1>2, <3>1, SMTT(30)
        <4>2. x[i] = v[0 + i] /\ x[i] \in Cell
          <5> HIDE DEF x
          <5> QED
            BY <1>2, <1>6, <4>1, SMTT(30) DEF Matches
        <4> HIDE DEF x
        <4> QED
          BY <4>1, <4>2, SMTT(30)
      <3>2. CASE base < i /\ i <= a
        <4>1. i - base \in 1..(a - base) /\ base + (i - base) = i
          BY <1>2, <3>2, SMTT(30)
        <4> HIDE DEF y
        <4>2. y[i - base] = v[base + (i - base)] /\ y[i - base] \in Cell
          BY <1>7, <4>1, SMTT(30) DEF Matches
        <4> QED
          BY <4>1, <4>2, SMTT(30)
      <3>3. CASE a < i
        <4>1. i - a \in 1..(n - a) /\ a + (i - a) = i
          BY <1>2, <3>3, SMTT(30)
        <4> HIDE DEF z
        <4>2. z[i - a] = v[a + (i - a)] /\ z[i - a] \in Cell
          BY <1>8, <4>1, SMTT(30) DEF Matches
        <4> QED
          BY <4>1, <4>2, SMTT(30)
      <3> QED
        BY <1>2, <3>1, <3>2, <3>3, SMTT(30)
    <2>2. v = [i \in 1..n |-> v[i]]
      BY ZenonT(60) DEF LawView
    <2> HIDE DEF v
    <2>3. v \in [1..n -> Cell]
      BY <2>1, <2>2, SMTT(30)
    <2> QED
      BY <1>2, <2>3, SMTT(30)
  <1>10. materialize(r, cb, row) = x \o y \o z
    BY SMTT(30) DEF materialize
  <1> HIDE DEF x, y, z, v
  <1>11. x \o y \o z = v
    BY <1>2, <1>6, <1>7, <1>8, <1>9, ThreeParts, ZenonT(60)
  <1> QED
    BY <1>10, <1>11, SMTT(30) DEF v

\* Attention reads what the policy gives in every state the invariant allows.
LEMMA ViewFollows ==
  ASSUME IndInv
  PROVE  AttentionView
  <1>1. SUFFICES ASSUME Live
        PROVE  materialize(rt, cache, block_table_row(Seen))
                 = LawView(epoch, Seen)
    BY DEF AttentionView
  <1>2. /\ rt \in RuntimeType /\ epoch \in Nat /\ epoch \in 1..MaxEpochs
        /\ Seen \in Nat /\ Represents(rt, epoch, Seen)
        /\ PagesHold(cache, BlockIds[epoch], epoch, rt.closed_pages)
    <2>1. /\ rt \in RuntimeType /\ epoch \in 1..MaxEpochs
          /\ MaxEpochs \in Nat
      BY SequenceAssumption, SMTT(30) DEF IndInv, TypeOK
    <2>2. Represents(rt, epoch, Seen)
          /\ PagesHold(cache, BlockIds[epoch], epoch, rt.closed_pages)
      BY <1>1, SMTT(30) DEF Live, IndInv
    <2>3. Seen \in Nat
      BY SMTT(30) DEF IndInv, TypeOK, Seen, PlanType
    <2> QED
      BY <2>1, <2>2, <2>3, SMTT(30)
  <1>3. Seen <= MaxTokens
    <2>1. /\ num_computed_tokens \in Nat /\ num_tokens \in Nat
          /\ num_tokens <= MaxTokens /\ MaxTokens \in Nat
          /\ num_computed_tokens <= num_tokens
          /\ plan.num_tokens \in Nat /\ plan.last_step \in Nat \cup {-1}
      BY SequenceAssumption, SMTT(30) DEF IndInv, TypeOK, PlanType
    <2>2. phase = "chunk" =>
            /\ plan.last_step + 1 < plan.num_tokens
            /\ num_computed_tokens + plan.num_tokens <= num_tokens
      BY DEF IndInv, ChunkInvariant
    <2> QED
      BY <2>1, <2>2 DEF Seen
  <1>4. GoodRow(block_table_row(Seen), BlockIds[epoch], Seen)
    BY <1>2, <1>3, RowFacts, SMTT(30)
  <1>5. Readable(rt, cache, BlockIds[epoch], block_table_row(Seen), epoch,
                 Seen)
    BY <1>2, <1>4, SMTT(30) DEF Readable
  <1> QED
    BY <1>5, ViewFacts, SMTT(30)

\* Attention at every position of every path reads tokens 1..n of the running
\* computation in the representation docs/METHOD.md gives them: no token of a
\* later position, of an earlier computation or of an unassigned block.
THEOREM AttentionReadsTheLaw ==
  ASSUME NoOneTokenChunk
  PROVE  Spec => []AttentionView
  <1>1. IndInv => AttentionView
    BY ViewFollows
  <1> QED
    BY <1>1, Inductive, PTL
=============================================================================
