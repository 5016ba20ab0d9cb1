---------------------------- MODULE Rabit2Runtime ----------------------------
(***************************************************************************)
(* Rabit2SingleSequenceRuntime: the sidecar one attention layer keeps for  *)
(* one request, and the operations that grow it.  An operation maps the    *)
(* sidecar and the layer's physical pages to new ones, or raises; what it  *)
(* had already changed when it raised stays changed.                       *)
(*                                                                         *)
(* A sidecar tensor that is None is the empty sequence: both read as       *)
(* length 0 everywhere in the code.  K and V of a token always move        *)
(* together, so one token stands for the pair.  A physical page is the     *)
(* group of tokens that was encoded into it.                               *)
(***************************************************************************)
EXTENDS Rabit2Representation

CONSTANTS
  GroupSize,       \* RABIT2_GROUP_SIZE = block_size (32 in the code)
  ResidualTokens,  \* RABIT2_RESIDUAL_TOKENS (4 in the code)
  FastShape        \* TRUE: CUDA BF16 with 8 KV heads of 128, the shape the
                   \* persistent decode buffers are written for

ASSUME ShapeAssumption ==
  /\ GroupSize \in Nat \ {0}
  /\ ResidualTokens \in Nat \ {0}
  /\ FastShape \in BOOLEAN

\* What torch.empty leaves in a buffer row nobody has written.
Uninit == Tok(0, 0)

Cdiv(n, d) == (n + d - 1) \div d

\* Tokens in k full pages.
PageTokens(k) == k * GroupSize

\* How many of n tokens have left the residual window.
Aged(n) == PosPart(n - ResidualTokens)

\* Rabit2SingleSequenceRuntime.__init__; the _rabit2_final_* attributes do not
\* exist yet, which getattr(..., False) reads as "not ready".
NewRuntime ==
  [closed_pages |-> 0, open |-> <<>>, recent |-> <<>>,
   fast_ready |-> FALSE, fast_open_len |-> 0,
   fast_open |-> [i \in 1..GroupSize |-> Uninit],
   fast_recent |-> [i \in 1..ResidualTokens |-> Uninit]]

\* Mutant: the residual window is forgotten.
total_tokens_no_recent(rt) == PageTokens(rt.closed_pages) + Len(rt.open)

total_tokens(rt) ==
  PageTokens(rt.closed_pages) + Len(rt.open) + Len(rt.recent)

Done(rt, cache) == [rt |-> rt, cache |-> cache, raised |-> FALSE]
Raise(rt, cache) == [rt |-> rt, cache |-> cache, raised |-> TRUE]

\* Encode the full open group into the next block of the row.
_flush_open_page(rt, cache, row) ==
  IF rt.closed_pages >= Len(row)
  THEN Raise(rt, cache)
  ELSE Done([rt EXCEPT !.closed_pages = @ + 1, !.open = <<>>],
            [cache EXCEPT ![row[rt.closed_pages + 1]] = rt.open])

_append_aged(rt, old, cache, row) ==
  LET grown == [rt EXCEPT !.open = Append(@, old)]
  IN  IF Len(grown.open) = GroupSize
      THEN _flush_open_page(grown, cache, row)
      ELSE Done(grown, cache)

\* _rabit2_final_old_append: the frozen append, for one token.
old_append(rt, tok, cache, row) ==
  LET recent1 == Append(rt.recent, tok)
  IN  IF Len(recent1) > ResidualTokens
      THEN _append_aged([rt EXCEPT !.recent = Tail(recent1)],
                        Head(recent1), cache, row)
      ELSE Done([rt EXCEPT !.recent = recent1], cache)

drop_fast_buffers(rt) == [rt EXCEPT !.fast_ready = FALSE]

\* The shape checks of _rabit2_final_prepare_fast_buffers, skipped when ready.
can_prepare_fast_buffers(rt) ==
  rt.fast_ready \/ Len(rt.recent) = ResidualTokens

\* Mutant: the copy into the open buffer leaves out its last token.
prepare_fast_buffers_short(rt) ==
  IF rt.fast_ready
  THEN rt
  ELSE [rt EXCEPT
          !.fast_ready = TRUE,
          !.fast_open_len = Len(rt.open),
          !.fast_open = [i \in 1..GroupSize |->
                           IF i < Len(rt.open) THEN rt.open[i] ELSE Uninit],
          !.fast_recent = rt.recent]

\* Copy the sidecar into persistent buffers, once.
prepare_fast_buffers(rt) ==
  IF rt.fast_ready
  THEN rt
  ELSE [rt EXCEPT
          !.fast_ready = TRUE,
          !.fast_open_len = Len(rt.open),
          !.fast_open = [i \in 1..GroupSize |->
                           IF i <= Len(rt.open) THEN rt.open[i] ELSE Uninit],
          !.fast_recent = rt.recent]

\* Mutant: the slot counter survives the flush.
fast_append_no_reset(rt, tok, cache, row) ==
  LET slot == rt.fast_open_len
      opened == [rt.fast_open EXCEPT ![slot + 1] = rt.fast_recent[1]]
      rotated == Append(Tail(rt.fast_recent), tok)
      shifted == [rt EXCEPT !.fast_open = opened,
                            !.fast_recent = rotated,
                            !.open = Slice(opened, 0, slot + 1),
                            !.recent = rotated]
  IN  IF ~ (slot < GroupSize)
      THEN Raise(rt, cache)
      ELSE IF slot + 1 # GroupSize
      THEN Done([shifted EXCEPT !.fast_open_len = slot + 1], cache)
      ELSE _flush_open_page(shifted, cache, row)

\* Age recent slot 0 into the open buffer, rotate the residual buffer, and
\* re-point the sidecar at the buffers.
fast_append(rt, tok, cache, row) ==
  LET slot == rt.fast_open_len
      opened == [rt.fast_open EXCEPT ![slot + 1] = rt.fast_recent[1]]
      rotated == Append(Tail(rt.fast_recent), tok)
      shifted == [rt EXCEPT !.fast_open = opened,
                            !.fast_recent = rotated,
                            !.open = Slice(opened, 0, slot + 1),
                            !.recent = rotated]
      flushed == _flush_open_page(shifted, cache, row)
  IN  IF ~ (slot < GroupSize)
      THEN Raise(rt, cache)
      ELSE IF slot + 1 # GroupSize
      THEN Done([shifted EXCEPT !.fast_open_len = slot + 1], cache)
      ELSE IF flushed.raised
      THEN flushed
      ELSE Done([flushed.rt EXCEPT !.fast_open_len = 0], flushed.cache)

\* Rabit2SingleSequenceRuntime.append as finally bound.
append(rt, tok, cache, row) ==
  IF /\ FastShape
     /\ Len(rt.recent) >= ResidualTokens
     /\ can_prepare_fast_buffers(rt)
  THEN fast_append(prepare_fast_buffers(rt), tok, cache, row)
  ELSE old_append(drop_fast_buffers(rt), tok, cache, row)

\* Page p (1-based) of a run of tokens.
PageOf(all, p) == Slice(all, PageTokens(p - 1), PageTokens(p))

\* Scatter the full pages of `all' to the blocks after the first `start'.
write_full_pages(all, full_pages, start, cache, row) ==
  [b \in DOMAIN cache |->
     IF \E p \in 1..full_pages : row[start + p] = b
     THEN PageOf(all, CHOOSE p \in 1..full_pages : row[start + p] = b)
     ELSE cache[b]]

rabit2_bulk_append_exact(rt, toks, cache, row) ==
  LET combined == rt.recent \o toks
      aged_n == Aged(Len(combined))
      all == rt.open \o Slice(combined, 0, aged_n)
      full_pages == Len(all) \div GroupSize
      end == rt.closed_pages + full_pages
  IN  IF toks = <<>>
      THEN Done(rt, cache)
      ELSE IF aged_n = 0
      THEN Done([rt EXCEPT !.recent = combined], cache)
      ELSE IF end > Len(row)
      THEN Raise(rt, cache)
      ELSE Done([rt EXCEPT
                   !.closed_pages = end,
                   !.open = Slice(all, PageTokens(full_pages), Len(all)),
                   !.recent = Slice(combined, aged_n, Len(combined))],
                write_full_pages(all, full_pages, rt.closed_pages, cache, row))

\* Decode what attention at this state reads: the closed pages through the
\* row, the open group under its current statistics, the residual.
materialize(rt, cache, row) ==
  [i \in 1..PageTokens(rt.closed_pages) |->
     LET page == cache[row[((i - 1) \div GroupSize) + 1]]
     IN  [tok |-> page[((i - 1) % GroupSize) + 1], group |-> page]]
  \o Quantized(rt.open) \o Exact(rt.recent)
-----------------------------------------------------------------------------
RuntimeType ==
  [closed_pages : Nat, open : Seq(Token), recent : Seq(Token),
   fast_ready : BOOLEAN, fast_open_len : 0..(GroupSize - 1),
   fast_open : [1..GroupSize -> Token], fast_recent : Seq(Token)]

\* Sidecar r is the state after tokens 1..n of computation e.
Represents(r, e, n) ==
  LET base == PageTokens(r.closed_pages)
  IN  /\ base <= Aged(n) /\ Aged(n) < base + GroupSize
      /\ r.open = Run(e, base, Aged(n))
      /\ r.recent = Run(e, Aged(n), n)

\* The blocks of the first k logical pages hold their tokens of computation e.
PagesHold(cache, ids, e, k) ==
  \A p \in 1..k :
    cache[ids[p]] = Run(e, PageTokens(p - 1), PageTokens(p))

\* Ready buffers are the storage of the sidecar, not a copy of an older one.
FastInSync(r) ==
  r.fast_ready =>
    /\ FastShape
    /\ Len(r.recent) = ResidualTokens
    /\ r.fast_recent = r.recent
    /\ r.fast_open_len = Len(r.open)
    /\ \A i \in 1..Len(r.open) : r.fast_open[i] = r.open[i]

\* What attention at position n must read: an aged token under the statistics
\* of its own group as far as that group has aged, a residual token exactly.
LawView(e, n) ==
  LET first(i) == PageTokens((i - 1) \div GroupSize)
      last(i) == IF first(i) + GroupSize < Aged(n)
                 THEN first(i) + GroupSize ELSE Aged(n)
  IN  [i \in 1..n |->
         [tok |-> Tok(e, i),
          group |-> IF i <= Aged(n) THEN Run(e, first(i), last(i)) ELSE <<>>]]
=============================================================================
