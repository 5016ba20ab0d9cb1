------------------------- MODULE Rabit2ChunkAttention -------------------------
(***************************************************************************)
(* Attention over one chunk that is not the first of its request, under    *)
(* each Stage3C implementation: the reference loop, tile32 (one launch for *)
(* the queries that see the same closed pages) and shared_decode (one      *)
(* page decode for a block of those queries).                              *)
(*                                                                         *)
(* A partial is the softmax of one query head over one segment: a closed   *)
(* page or the tail.  It is modelled by what went into it: which query,    *)
(* which KV head and which cells.  The programs of a launch run in no      *)
(* order, so a slot several of them store to may hold any of their values: *)
(* a slot is the set of values a later launch may load, and the empty set  *)
(* is what torch.empty left.                                               *)
(***************************************************************************)
EXTENDS Rabit2CausalChunkPlan

CONSTANTS
  HeadShapes,     \* <<q_heads, kv_heads>> of the models served
  QPerProgram,    \* Q_PER_PROGRAM (4 in the code)
  TileMaxQueries, \* TILE_MAX_QUERIES (32 in the code)
  QueryBlock,     \* VLLM_RABIT2_SHARED_DECODE_QUERY_BLOCK
  MaxContext,     \* bound: tokens cached before the chunk
  MaxChunk        \* bound: tokens of the chunk

ASSUME AttentionAssumption ==
  /\ \A s \in HeadShapes : s \in (Nat \ {0}) \X (Nat \ {0}) /\ s[1] % s[2] = 0
  /\ {QPerProgram, TileMaxQueries, QueryBlock} \subseteq Nat \ {0}
  /\ MaxContext \in Nat \ {0} /\ MaxChunk \in Nat \ {0, 1}

VARIABLES
  impl,     \* VLLM_RABIT2_STAGE3C_IMPL
  shape,    \* the layer's heads
  context,  \* tokens cached before the chunk
  rt, cache, plan,
  pc,       \* "begin", "launch", "tail", "reduce", "done", "raised" or "fault"
  tiles,    \* the tiles not launched yet
  tile,     \* the tile in work: queries start..end - 1 over `closed' pages
  next,     \* the chunk's next token to apply
  partial,  \* the tile's partial_m / partial_l / partial_acc, by flat index
  out       \* out_rows: per query the partials each head was reduced from

vars == <<impl, shape, context, rt, cache, plan, pc, tiles, tile, next,
          partial, out>>

QHeads == shape[1]
KVHeads == shape[2]
Ratio == QHeads \div KVHeads

MaxPages == Cdiv(MaxContext + MaxChunk, GroupSize)
Row == [p \in 1..MaxPages |-> MaxPages + 1 - p]

rabit2_tile32_supported == QHeads % KVHeads = 0 /\ Ratio % QPerProgram = 0

\* Whether a tiled implementation takes the chunk or leaves it to the loop.
Tiled == impl \in {"tile32", "shared_decode"} /\ rabit2_tile32_supported

\* Mutant: tokens are counted instead of pages.
chunk_closed_tokens(p, step) ==
  p.init_closed + p.init_open_len + Aged(p.init_recent_len + step + 1)

\* runtime.closed_pages after plan.apply_step(step).
rabit2_chunk_closed_pages_after(p, step) ==
  LET aged_now == Aged(p.init_recent_len + step + 1)
  IN  p.init_closed + ((p.init_open_len + aged_now) \div GroupSize)

\* Mutant: the run that the end of the chunk cuts is not emitted.
EndsTile_but_the_last(closed_after, start, i) ==
  /\ i < Len(closed_after)
  /\ \/ closed_after[i + 1] # closed_after[start + 1]
     \/ i - start = TileMaxQueries

\* The run of queries from `start' ends before query i.
EndsTile(closed_after, start, i) ==
  \/ i = Len(closed_after)
  \/ closed_after[i + 1] # closed_after[start + 1]
  \/ i - start = TileMaxQueries

rabit2_tile32_tiles(closed_after) ==
  LET Tile(start, i) ==
        [start |-> start, end |-> i, closed |-> closed_after[start + 1]]
      loop[i \in 0..Len(closed_after)] ==
        IF i = 0 THEN [tiles |-> <<>>, start |-> 0]
        ELSE LET s == loop[i - 1]
             IN  IF EndsTile(closed_after, s.start, i)
                 THEN [tiles |-> Append(s.tiles, Tile(s.start, i)), start |-> i]
                 ELSE s
  IN  loop[Len(closed_after)].tiles

NoTile == [start |-> 0, end |-> 0, closed |-> 0]
-----------------------------------------------------------------------------
\* One launch.  Sizes are those of the tile t.

Queries(t) == t.end - t.start
Segments(t) == t.closed + 1
partial_tile_stride(t) == Segments(t) * QHeads
Slots(t) == 0..(Queries(t) * partial_tile_stride(t) - 1)

\* The query head a kernel loads at flat index i of q_tile.
QTile(t, i) == <<t.start + (i \div QHeads), i % QHeads>>

\* The second grid dimension: groups of heads that share a KV head, or single
\* heads where the ratio does not divide.
qgroups ==
  IF rabit2_tile32_supported
  THEN KVHeads * (Ratio \div QPerProgram) ELSE QHeads

\* The query heads of program column `qgroup' and the KV head they decode.
HeadsOf(qgroup) ==
  LET groups_per_kv == Ratio \div QPerProgram
      kvh == qgroup \div groups_per_kv
      subgroup == qgroup - kvh * groups_per_kv
  IN  IF rabit2_tile32_supported
      THEN {[qh |-> kvh * Ratio + subgroup * QPerProgram + qi, kvh |-> kvh] :
              qi \in 0..(QPerProgram - 1)}
      ELSE {[qh |-> qgroup, kvh |-> qgroup \div Ratio]}

\* The third grid dimension: a query of the tile, or a block of them.
QueryColumns(t) ==
  IF Tiled /\ impl = "shared_decode"
  THEN 0..(Cdiv(Queries(t), QueryBlock) - 1) ELSE 0..(Queries(t) - 1)

\* Mutant: the last block is not masked.
QueriesOf_unmasked(t, column) ==
  IF Tiled /\ impl = "shared_decode"
  THEN {column * QueryBlock + j : j \in 0..(QueryBlock - 1)}
  ELSE {column}

\* The queries of a column; the lanes past the tile are masked.
QueriesOf(t, column) ==
  IF Tiled /\ impl = "shared_decode"
  THEN {q \in {column * QueryBlock + j : j \in 0..(QueryBlock - 1)} :
          q < Queries(t)}
  ELSE {column}

\* What program (page, qgroup, column) of the closed-page kernel stores.
closed_page_partial_kernel(t, pages, page, qgroup, column) ==
  {[slot |-> q * partial_tile_stride(t) + page * QHeads + h.qh,
    val |-> [query |-> QTile(t, q * QHeads + h.qh),
             kvh |-> h.kvh,
             cells |-> Quantized(pages[Row[page + 1]])]] :
     q \in QueriesOf(t, column), h \in HeadsOf(qgroup)}

ClosedPageStores(t, pages) ==
  UNION {closed_page_partial_kernel(t, pages, p, g, c) :
           p \in 0..(t.closed - 1), g \in 0..(qgroups - 1),
           c \in QueryColumns(t)}

\* The buffers after the launch for tile t.
AfterPages(t, pages) ==
  LET stores == ClosedPageStores(t, pages)
  IN  [i \in Slots(t) |-> {s.val : s \in {x \in stores : x.slot = i}}]

InBounds(t, pages) ==
  \A s \in ClosedPageStores(t, pages) : s.slot \in Slots(t)

\* Mutant: the tail is stored over the last page.
emit_tail_partial_early(t, buf, j, sidecar) ==
  LET base == j * partial_tile_stride(t) + (t.closed - 1) * QHeads
  IN  [i \in DOMAIN buf |->
         IF i \in base..(base + QHeads - 1)
         THEN {[query |-> QTile(t, j * QHeads + (i - base)),
                kvh |-> (i - base) \div Ratio,
                cells |-> Quantized(sidecar.open) \o Exact(sidecar.recent)]}
         ELSE buf[i]]

\* The tail of query j as segment `closed': the open group prepared in the
\* stream's workspace, then the residual.  One program per query head.
emit_tail_partial(t, buf, j, sidecar) ==
  LET base == j * partial_tile_stride(t) + t.closed * QHeads
  IN  [i \in DOMAIN buf |->
         IF i \in base..(base + QHeads - 1)
         THEN {[query |-> QTile(t, j * QHeads + (i - base)),
                kvh |-> (i - base) \div Ratio,
                cells |-> Quantized(sidecar.open) \o Exact(sidecar.recent)]}
         ELSE buf[i]]

\* What the reduction of query j, head qh loads: one slot per segment.
reduce_partials_kernel(t, buf, j, qh) ==
  [s \in 1..Segments(t) |->
     buf[j * partial_tile_stride(t) + (s - 1) * QHeads + qh]]
-----------------------------------------------------------------------------
\* The sidecar and the pages after the first `context' tokens of the request.
Before(n) ==
  LET empty == [b \in 1..MaxPages |-> <<>>]
  IN  IF n = 1 THEN append(NewRuntime, Tok(1, 1), empty, Row)
      ELSE rabit2_bulk_append_exact(NewRuntime, Run(1, 0, n), empty, Row)

Init ==
  /\ impl \in {"reference", "tile32", "shared_decode"}
  /\ shape \in HeadShapes
  /\ context \in 1..MaxContext
  /\ rt = Before(context).rt
  /\ cache = Before(context).cache
  /\ plan = NoPlan
  /\ pc = "begin"
  /\ tiles = <<>> /\ tile = NoTile /\ next = 0
  /\ partial = <<>> /\ out = <<>>

\* Build the plan (which writes the pages the chunk closes) and, where tiled,
\* the schedule.
Begin(q) ==
  /\ pc = "begin"
  /\ LET new == NewPlan(rt, Run(1, context, context + q))
     IN  /\ plan' = new
         /\ cache' = PlanWrites(new, cache, Row)
         /\ tiles' = IF Tiled
                     THEN rabit2_tile32_tiles(
                            [i \in 1..q |->
                               rabit2_chunk_closed_pages_after(new, i - 1)])
                     ELSE <<>>
  /\ pc' = "launch"
  /\ out' = [i \in 0..(q - 1) |-> <<>>]
  /\ UNCHANGED <<impl, shape, context, rt, tile, next, partial>>

Launch(t) ==
  /\ tile' = t
  /\ partial' = AfterPages(t, cache)
  /\ pc' = IF InBounds(t, cache) THEN "tail" ELSE "fault"

\* The reference loop exposes the next token's state, then attends.
LaunchQuery ==
  /\ pc = "launch" /\ ~ Tiled
  /\ rt' = apply_step(rt, plan, next)
  /\ Launch([start |-> next, end |-> next + 1, closed |-> rt'.closed_pages])
  /\ UNCHANGED <<impl, shape, context, cache, plan, tiles, next, out>>

\* A tile attends to its closed pages before its tokens are applied.
LaunchTile ==
  /\ pc = "launch" /\ Tiled /\ tiles # <<>>
  /\ Launch(Head(tiles))
  /\ tiles' = Tail(tiles)
  /\ UNCHANGED <<impl, shape, context, rt, cache, plan, next, out>>

\* The tail of the tile's next query; a tiled forward applies its token first
\* and refuses a sidecar that does not have the tile's pages.
EmitTail ==
  /\ pc = "tail"
  /\ LET now == IF Tiled THEN apply_step(rt, plan, next) ELSE rt
     IN  /\ rt' = now
         /\ IF now.closed_pages # tile.closed
            THEN pc' = "raised" /\ UNCHANGED <<next, partial>>
            ELSE /\ partial' = emit_tail_partial(tile, partial,
                                                 next - tile.start, now)
                 /\ next' = next + 1
                 /\ pc' = IF next + 1 = tile.end THEN "reduce" ELSE "tail"
  /\ UNCHANGED <<impl, shape, context, cache, plan, tiles, tile, out>>

\* Reduce every query of the tile and copy the rows out.
Reduce ==
  /\ pc = "reduce"
  /\ out' = [i \in DOMAIN out |->
               IF i \in tile.start..(tile.end - 1)
               THEN [qh \in 0..(QHeads - 1) |->
                       reduce_partials_kernel(tile, partial, i - tile.start, qh)]
               ELSE out[i]]
  /\ partial' = <<>>
  /\ pc' = IF Tiled
           THEN IF tiles = <<>> THEN "done" ELSE "launch"
           ELSE IF next = plan.num_tokens THEN "done" ELSE "launch"
  /\ UNCHANGED <<impl, shape, context, rt, cache, plan, tiles, tile, next>>

Next ==
  \/ \E q \in 2..MaxChunk : Begin(q)
  \/ LaunchQuery
  \/ LaunchTile
  \/ EmitTail
  \/ Reduce

\* The host loop of a forward runs to its end.
Spec == Init /\ [][Next]_vars /\ WF_vars(Next)
-----------------------------------------------------------------------------
Partial == [query : Nat \X Nat, kvh : Nat,
            cells : Seq([tok : Token, group : Seq(Token)])]

TileType == [start : 0..MaxChunk, end : 0..MaxChunk, closed : 0..MaxPages]

\* Types and ranges of a chunk forward (_forward_rabit_kv2, rabit2_tile32_tiles).
TypeOK ==
  /\ impl \in {"reference", "tile32", "shared_decode"}
  /\ shape \in HeadShapes
  /\ context \in 1..MaxContext
  /\ rt \in RuntimeType
  /\ plan \in PlanType
  /\ pc \in {"begin", "launch", "tail", "reduce", "done", "raised", "fault"}
  /\ tile \in TileType /\ tiles \in Seq(TileType)
  /\ next \in 0..plan.num_tokens
  /\ \A i \in DOMAIN partial : \A v \in partial[i] : v \in Partial

\* The schedule computed up front never diverges from the plan that is applied
\* later, and no program stores outside the tile's buffers.
ScheduleAgrees == pc \notin {"raised", "fault"}

\* What the reduction of query i, head qh must load: for each closed page the
\* query may see, in order, and for its tail, one value, computed from that
\* query head and its own KV head over exactly those cells.
Expected(i, qh) ==
  LET n == context + i + 1
      closed == Aged(n) \div GroupSize
      view == LawView(1, n)
      cells(s) == IF s <= closed
                  THEN SubSeq(view, PageTokens(s - 1) + 1, PageTokens(s))
                  ELSE SubSeq(view, PageTokens(closed) + 1, n)
  IN  [s \in 1..(closed + 1) |->
         {[query |-> <<i, qh>>, kvh |-> qh \div Ratio, cells |-> cells(s)]}]

\* Every implementation reduces each query from the same partials, segment by
\* segment: nothing uninitialised, nothing two programs disagree on, nothing of
\* another query, head or position.  This is what makes tile32 and
\* shared_decode bit-identical to the reference loop.
OutputsMatchReference ==
  \A i \in DOMAIN out : out[i] # <<>> =>
    out[i] = [qh \in 0..(QHeads - 1) |-> Expected(i, qh)]

\* The forward returns with every row of the chunk written and the sidecar
\* after the whole chunk.
ForwardCompletes ==
  <>(/\ pc = "done"
     /\ \A i \in 0..(plan.num_tokens - 1) : out[i] # <<>>
     /\ Represents(rt, 1, context + plan.num_tokens))
=============================================================================
