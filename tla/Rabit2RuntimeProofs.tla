------------------------- MODULE Rabit2RuntimeProofs -------------------------
(***************************************************************************)
(* What each way of growing the sidecar preserves: if it represents the    *)
(* first n tokens before, it represents the first n + q after, the pages   *)
(* it closed hold their tokens, and it did not raise.                      *)
(***************************************************************************)
EXTENDS Rabit2CausalChunkPlan, Rabit2Lemmas

\* A row that serves the first n tokens of a request whose blocks are ids: its
\* entries are assigned as far as n tokens reach, and no block appears twice.
GoodRow(row, ids, n) ==
  /\ ids \in Seq(Nat)
  /\ row \in Seq(Nat)
  /\ Len(row) = Len(ids)
  /\ n <= PageTokens(Len(ids))
  /\ \A p \in 1..Len(ids) : PageTokens(p) <= n => row[p] = ids[p]
  /\ \A p, q \in 1..Len(ids) : ids[p] = ids[q] => p = q

\* The physical pages of a layer.
GoodCache(cache, ids, B) ==
  /\ cache \in [B -> Seq(Token)]
  /\ \A p \in 1..Len(ids) : ids[p] \in B

\* What growing sidecar r to n tokens must achieve: no exception, the right
\* state, every closed page in its block, and no write outside the pages that
\* were not closed before.
Grown(res, r, cache, ids, B, e, n) ==
  /\ ~ res.raised
  /\ res.rt \in RuntimeType
  /\ Represents(res.rt, e, n)
  /\ res.cache \in [B -> Seq(Token)]
  /\ PagesHold(res.cache, ids, e, res.rt.closed_pages)
  /\ r.closed_pages <= res.rt.closed_pages
  /\ \A b \in B : res.cache[b] # cache[b] =>
       \E p \in (r.closed_pages + 1)..Len(ids) :
         PageTokens(p) <= n /\ b = ids[p]

\* A sidecar that represents n tokens has the lengths its fields are read with.
LEMMA RepresentsFacts ==
  ASSUME NEW r \in RuntimeType, NEW e \in Nat, NEW n \in Nat,
         Represents(r, e, n)
  PROVE  /\ r.closed_pages \in Nat
         /\ PageTokens(r.closed_pages) \in Nat
         /\ PageTokens(r.closed_pages) <= Aged(n)
         /\ Aged(n) < PageTokens(r.closed_pages) + GroupSize
         /\ r.open = Run(e, PageTokens(r.closed_pages), Aged(n))
         /\ r.recent = Run(e, Aged(n), n)
         /\ Len(r.open) = Aged(n) - PageTokens(r.closed_pages)
         /\ Len(r.recent) = n - Aged(n)
         /\ total_tokens(r) = n
  <1>1. Aged(n) \in Nat /\ Aged(n) <= n
    BY AgedFacts
  <1>2. r.closed_pages \in Nat /\ PageTokens(r.closed_pages) \in Nat
    BY PageTokensFacts, Zenon DEF RuntimeType
  <1>3. /\ PageTokens(r.closed_pages) <= Aged(n)
        /\ Aged(n) < PageTokens(r.closed_pages) + GroupSize
        /\ r.open = Run(e, PageTokens(r.closed_pages), Aged(n))
        /\ r.recent = Run(e, Aged(n), n)
    BY DEF Represents
  <1>4. /\ Len(r.open) = Aged(n) - PageTokens(r.closed_pages)
        /\ Len(r.recent) = n - Aged(n)
    <2>1. Len(Run(e, PageTokens(r.closed_pages), Aged(n)))
            = Aged(n) - PageTokens(r.closed_pages)
      BY <1>1, <1>2, <1>3, RunLen, Zenon
    <2>2. Len(Run(e, Aged(n), n)) = n - Aged(n)
      BY <1>1, RunLen, Zenon
    <2> QED
      BY <1>3, <2>1, <2>2
  <1>5. total_tokens(r) = n
    BY <1>1, <1>2, <1>4 DEF total_tokens
  <1> QED
    BY <1>2, <1>3, <1>4, <1>5

\* A new sidecar represents no tokens, with no buffers.
LEMMA NewRuntimeFacts ==
  ASSUME NEW e \in Nat
  PROVE  /\ NewRuntime \in RuntimeType
         /\ Represents(NewRuntime, e, 0)
         /\ FastInSync(NewRuntime)
         /\ NewRuntime.fast_ready = FALSE
         /\ NewRuntime.closed_pages = 0
  <1>1. Uninit \in Token
    BY DEF Uninit, Tok, Token
  <1>2. NewRuntime \in RuntimeType
    BY <1>1, ShapeAssumption DEF NewRuntime, RuntimeType
  <1>3. Run(e, 0, 0) = <<>>
    BY RunEmpty
  <1>4. PageTokens(0) = 0 /\ Aged(0) = 0 /\ 0 + GroupSize > 0
    BY ShapeAssumption, PageTokensFacts, AgedFacts
  <1>5. NewRuntime.closed_pages = 0 /\ NewRuntime.open = <<>>
        /\ NewRuntime.recent = <<>> /\ NewRuntime.fast_ready = FALSE
    BY DEF NewRuntime
  <1>6. Represents(NewRuntime, e, 0)
    BY <1>3, <1>4, <1>5 DEF Represents
  <1> QED
    BY <1>2, <1>5, <1>6 DEF FastInSync

\* A sidecar whose group was closed is a sidecar.
LEMMA CloseType ==
  ASSUME NEW r \in RuntimeType, NEW d \in Nat, NEW o \in Seq(Token)
  PROVE  [r EXCEPT !.closed_pages = d, !.open = o] \in RuntimeType
  BY Zenon DEF RuntimeType

\* An open group that is full and ready to become the next page.
FlushReady(r, cache, ids, B, row, e, n) ==
  /\ GoodRow(row, ids, n) /\ GoodCache(cache, ids, B)
  /\ PagesHold(cache, ids, e, r.closed_pages)
  /\ PageTokens(r.closed_pages + 1) <= n
  /\ r.open = Run(e, PageTokens(r.closed_pages),
                  PageTokens(r.closed_pages + 1))

\* The open group of r is now the next page; nothing else moved.
Flushed(res, r, cache, ids, B, e) ==
  /\ res.raised = FALSE
  /\ res.rt \in RuntimeType
  /\ res.rt.closed_pages = r.closed_pages + 1
  /\ res.rt.open = <<>>
  /\ res.rt.recent = r.recent
  /\ res.rt.fast_ready = r.fast_ready
  /\ res.rt.fast_recent = r.fast_recent
  /\ r.closed_pages + 1 \in 1..Len(ids)
  /\ res.cache = [cache EXCEPT ![ids[r.closed_pages + 1]] = r.open]
  /\ res.cache \in [B -> Seq(Token)]
  /\ PagesHold(res.cache, ids, e, r.closed_pages + 1)

\* Closing a full group: the page lands in the block of the next logical page
\* and the pages already closed stay as they were.
LEMMA FlushFacts ==
  ASSUME NEW r \in RuntimeType, NEW e \in Nat, NEW n \in Nat,
         NEW B, NEW cache, NEW ids, NEW row,
         FlushReady(r, cache, ids, B, row, e, n)
  PROVE  Flushed(_flush_open_page(r, cache, row), r, cache, ids, B, e)
  <1> DEFINE c == r.closed_pages
             d == c + 1
             r1 == [r EXCEPT !.closed_pages = d, !.open = <<>>]
             cache1 == [cache EXCEPT ![ids[d]] = r.open]
             res == _flush_open_page(r, cache, row)
  <1>1. r.open \in Seq(Token) /\ c \in Nat /\ d \in Nat
    BY DEF RuntimeType
  <1>2. ids \in Seq(Nat) /\ row \in Seq(Nat) /\ Len(row) = Len(ids)
        /\ Len(ids) \in Nat /\ n <= PageTokens(Len(ids))
    BY DEF GoodRow, FlushReady
  <1>3. PageTokens(d) <= n /\ r.open = Run(e, PageTokens(c), PageTokens(d))
        /\ PagesHold(cache, ids, e, c)
    BY DEF FlushReady
  <1>4. d <= Len(ids)
    <2> HIDE DEF d
    <2> QED
      BY <1>1, <1>2, <1>3, PageBound
  <1>5. d \in 1..Len(ids) /\ row[d] = ids[d]
    BY <1>1, <1>2, <1>3, <1>4, SMTT(30) DEF GoodRow, FlushReady
  <1>6. res = Done(r1, cache1)
    BY <1>1, <1>2, <1>4, <1>5 DEF _flush_open_page
  <1>7. res.raised = FALSE /\ res.rt = r1 /\ res.cache = cache1
    <2> HIDE DEF res, r1, cache1
    <2> QED
      BY <1>6 DEF Done
  <1>8. /\ r1 \in RuntimeType
        /\ r1.closed_pages = d /\ r1.open = <<>> /\ r1.recent = r.recent
        /\ r1.fast_ready = r.fast_ready /\ r1.fast_recent = r.fast_recent
    <2>1. <<>> \in Seq(Token)
      BY SMTT(30)
    <2> HIDE DEF d
    <2>2. r1 \in RuntimeType
      BY <1>1, <2>1, CloseType, Zenon
    <2>3. /\ r1.closed_pages = d /\ r1.open = <<>> /\ r1.recent = r.recent
          /\ r1.fast_ready = r.fast_ready /\ r1.fast_recent = r.fast_recent
      BY Zenon DEF RuntimeType
    <2> QED
      BY <2>2, <2>3
  <1>9. /\ cache \in [B -> Seq(Token)] /\ ids[d] \in B
        /\ cache1 \in [B -> Seq(Token)]
    BY <1>1, <1>5, SMTT(30) DEF GoodCache, FlushReady
  <1>10. ASSUME NEW p \in 1..d
         PROVE  cache1[ids[p]] = Run(e, PageTokens(p - 1), PageTokens(p))
    <2>1. p \in 1..Len(ids)
      BY <1>1, <1>2, <1>4, SMTT(30)
    <2>2. ids[p] \in B
      BY <2>1 DEF GoodCache, FlushReady
    <2>3. CASE p = d
      <3>1. cache1[ids[p]] = r.open
        BY <2>3, <1>9
      <3>2. p - 1 = c
        BY <2>3, <1>1, SMTT(30)
      <3> QED
        BY <3>1, <3>2, <2>3, <1>3
    <2>4. CASE p # d
      <3>1. ids[p] # ids[d]
        BY <2>1, <2>4, <1>5, SMTT(30) DEF GoodRow, FlushReady
      <3>2. p \in 1..c
        BY <2>4, <1>1
      <3>3. cache1[ids[p]] = cache[ids[p]]
        BY <3>1, <2>2, <1>9
      <3> QED
        BY <3>2, <3>3, <1>3 DEF PagesHold
    <2> QED
      BY <2>3, <2>4
  <1>11. PagesHold(cache1, ids, e, d)
    BY <1>10 DEF PagesHold
  <1> HIDE DEF r1, res
  <1> QED
    BY <1>5, <1>7, <1>8, <1>9, <1>11 DEF Flushed, res
-----------------------------------------------------------------------------
\* Sidecar r holds n tokens and is about to grow to m of them.
Ready(r, cache, ids, B, row, e, n, m) ==
  /\ r \in RuntimeType /\ e \in Nat /\ n \in Nat /\ m \in Nat /\ n <= m
  /\ Represents(r, e, n)
  /\ PagesHold(cache, ids, e, r.closed_pages)
  /\ GoodRow(row, ids, m)
  /\ GoodCache(cache, ids, B)

\* One token has aged into the open group of r, giving r2.
AgedOne(r2, r, e, n) ==
  /\ r2 \in RuntimeType
  /\ r2.closed_pages = r.closed_pages
  /\ r2.open = Run(e, PageTokens(r.closed_pages), Aged(n))
  /\ r2.recent = Run(e, Aged(n), n)

\* Ageing that leaves the open group short of a page needs nothing more.
LEMMA GrownInOpen ==
  ASSUME NEW r, NEW r2, NEW e, NEW n, NEW m, NEW B, NEW cache, NEW ids, NEW row,
         Ready(r, cache, ids, B, row, e, n, m), AgedOne(r2, r, e, m),
         Len(r2.open) < GroupSize,
         PageTokens(r.closed_pages) <= Aged(m)
  PROVE  Grown(Done(r2, cache), r, cache, ids, B, e, m)
  <1> DEFINE res == Done(r2, cache)
             c == r.closed_pages
  <1>1. res.raised = FALSE /\ res.rt = r2 /\ res.cache = cache
    BY DEF Done
  <1>2. /\ cache \in [B -> Seq(Token)] /\ r2 \in RuntimeType
        /\ c \in Nat /\ PageTokens(c) \in Nat /\ e \in Nat /\ m \in Nat
        /\ r2.closed_pages = c /\ PagesHold(cache, ids, e, c)
    BY PageTokensFacts, Zenon DEF GoodCache, Ready, AgedOne, RuntimeType
  <1>3. Aged(m) \in Nat
    BY <1>2, AgedFacts
  <1>4. Len(r2.open) = Aged(m) - PageTokens(c)
    <2>1. Len(Run(e, PageTokens(c), Aged(m))) = Aged(m) - PageTokens(c)
      BY <1>2, <1>3, RunLen, Zenon
    <2> QED
      BY <2>1 DEF AgedOne
  <1>5. Aged(m) < PageTokens(c) + GroupSize
    BY <1>2, <1>3, <1>4, ShapeAssumption
  <1>6. Represents(r2, e, m)
    BY <1>2, <1>5 DEF Represents, AgedOne
  <1>7. c <= r2.closed_pages
    BY <1>2
  <1> HIDE DEF res
  <1> QED
    BY <1>1, <1>2, <1>6, <1>7 DEF Grown, res

\* Ageing that completes the open group is right once the group is flushed.
LEMMA GrownByFlush ==
  ASSUME NEW r, NEW r2, NEW e, NEW n, NEW m, NEW B, NEW cache, NEW ids, NEW row,
         Ready(r, cache, ids, B, row, e, n, m), AgedOne(r2, r, e, m),
         Len(r2.open) = GroupSize,
         PageTokens(r.closed_pages) <= Aged(m)
  PROVE  /\ Grown(_flush_open_page(r2, cache, row), r, cache, ids, B, e, m)
         /\ Flushed(_flush_open_page(r2, cache, row), r2, cache, ids, B, e)
  <1> DEFINE c == r.closed_pages
             d == c + 1
             res == _flush_open_page(r2, cache, row)
  <1>1. /\ r2 \in RuntimeType /\ e \in Nat /\ m \in Nat
        /\ c \in Nat /\ d \in Nat /\ r2.closed_pages = c
        /\ r2.recent = Run(e, Aged(m), m)
        /\ r2.open = Run(e, PageTokens(c), Aged(m))
        /\ PagesHold(cache, ids, e, c)
        /\ GoodRow(row, ids, m) /\ GoodCache(cache, ids, B)
    BY SMTT(30) DEF Ready, AgedOne, RuntimeType
  <1>2. Aged(m) \in Nat /\ Aged(m) <= m
    BY <1>1, AgedFacts
  <1>3. PageTokens(c) \in Nat /\ PageTokens(d) = PageTokens(c) + GroupSize
    BY <1>1, PageTokensFacts, Zenon
  <1>4. Aged(m) = PageTokens(d)
    <2>0. PageTokens(c) <= Aged(m) /\ Len(r2.open) = GroupSize
      OBVIOUS
    <2>1. Len(Run(e, PageTokens(c), Aged(m))) = Aged(m) - PageTokens(c)
      <3> DEFINE x == PageTokens(c)
                 y == Aged(m)
      <3>1. e \in Nat /\ x \in Nat /\ y \in Nat /\ x <= y
        BY <1>1, <1>2, <1>3, <2>0
      <3> HIDE DEF x, y
      <3>2. Len(Run(e, x, y)) = y - x
        BY <3>1, RunLen, Zenon
      <3> QED
        BY <3>2 DEF x, y
    <2>2. Aged(m) - PageTokens(c) = GroupSize
      BY <1>1, <2>0, <2>1
    <2> QED
      BY <1>2, <1>3, <2>2, ShapeAssumption
  <1>5. FlushReady(r2, cache, ids, B, row, e, m)
    BY <1>1, <1>2, <1>4 DEF FlushReady
  <1>6. Flushed(res, r2, cache, ids, B, e)
    BY <1>1, <1>5, FlushFacts, SMTT(30)
  <1> HIDE DEF res, d
  <1>7. /\ res.raised = FALSE /\ res.rt \in RuntimeType
        /\ res.rt.closed_pages = d /\ res.rt.open = <<>>
        /\ res.rt.recent = r2.recent
        /\ d \in 1..Len(ids)
        /\ res.cache = [cache EXCEPT ![ids[d]] = r2.open]
        /\ res.cache \in [B -> Seq(Token)]
        /\ PagesHold(res.cache, ids, e, d)
    BY <1>1, <1>6 DEF Flushed, d
  <1>8. Represents(res.rt, e, m)
    <2>1. Run(e, PageTokens(d), Aged(m)) = <<>>
      BY <1>1, <1>2, <1>4, RunEmpty
    <2>2. PageTokens(d) <= Aged(m) /\ Aged(m) < PageTokens(d) + GroupSize
      BY <1>2, <1>4, ShapeAssumption
    <2> QED
      BY <1>1, <1>7, <2>1, <2>2 DEF Represents
  <1>9. ASSUME NEW b \in B, res.cache[b] # cache[b]
        PROVE  \E p \in (c + 1)..Len(ids) : PageTokens(p) <= m /\ b = ids[p]
    <2>1. b = ids[d]
      BY <1>1, <1>7, <1>9 DEF GoodCache
    <2>2. d \in (c + 1)..Len(ids)
      BY <1>7 DEF d
    <2>3. PageTokens(d) <= m
      BY <1>2, <1>4
    <2> QED
      BY <2>1, <2>2, <2>3
  <1>10. c <= res.rt.closed_pages
    BY <1>1, <1>7 DEF d
  <1>11. Grown(res, r, cache, ids, B, e, m)
    BY <1>7, <1>8, <1>9, <1>10 DEF Grown
  <1> QED
    BY <1>6, <1>11 DEF res

\* The residual window before and after one more token.
LEMMA WindowFacts ==
  ASSUME NEW r, NEW e, NEW n, NEW m, NEW B, NEW cache, NEW ids, NEW row,
         Ready(r, cache, ids, B, row, e, n, m), m = n + 1
  PROVE  /\ r \in RuntimeType /\ e \in Nat /\ n \in Nat /\ m \in Nat
         /\ Aged(n) \in Nat /\ Aged(n) <= n /\ Aged(m) \in Nat
         /\ r.closed_pages \in Nat
         /\ PageTokens(r.closed_pages) \in Nat
         /\ PageTokens(r.closed_pages) <= Aged(n)
         /\ Aged(n) < PageTokens(r.closed_pages) + GroupSize
         /\ r.open = Run(e, PageTokens(r.closed_pages), Aged(n))
         /\ r.recent = Run(e, Aged(n), n)
         /\ Len(r.open) = Aged(n) - PageTokens(r.closed_pages)
         /\ Len(r.recent) = n - Aged(n)
         /\ n < ResidualTokens => /\ Len(r.recent) = n
                                  /\ Aged(n) = 0 /\ Aged(m) = 0
         /\ n >= ResidualTokens => /\ Len(r.recent) = ResidualTokens
                                   /\ Aged(n) = n - ResidualTokens
                                   /\ Aged(m) = Aged(n) + 1
                                   /\ Aged(n) < n
  <1>1. /\ r \in RuntimeType /\ e \in Nat /\ n \in Nat /\ m \in Nat
        /\ Represents(r, e, n)
    BY DEF Ready
  <1>2. /\ r.closed_pages \in Nat
        /\ PageTokens(r.closed_pages) \in Nat
        /\ PageTokens(r.closed_pages) <= Aged(n)
        /\ Aged(n) < PageTokens(r.closed_pages) + GroupSize
        /\ r.open = Run(e, PageTokens(r.closed_pages), Aged(n))
        /\ r.recent = Run(e, Aged(n), n)
        /\ Len(r.open) = Aged(n) - PageTokens(r.closed_pages)
        /\ Len(r.recent) = n - Aged(n)
    BY <1>1, RepresentsFacts
  <1>3. /\ Aged(n) \in Nat /\ Aged(n) <= n /\ Aged(m) \in Nat
        /\ n < ResidualTokens => Aged(n) = 0 /\ Aged(m) = 0
        /\ n >= ResidualTokens => /\ Aged(n) = n - ResidualTokens
                                  /\ Aged(m) = Aged(n) + 1
    BY <1>1, AgedFacts
  <1>4. n < ResidualTokens => Len(r.recent) = n
    BY <1>1, <1>2, <1>3
  <1>5. n >= ResidualTokens => /\ Len(r.recent) = ResidualTokens
                               /\ Aged(n) < n
    BY <1>1, <1>2, <1>3, ShapeAssumption
  <1> QED
    BY <1>1, <1>2, <1>3, <1>4, <1>5, SMTT(30)

\* Changing the residual, and the open group, keeps a sidecar a sidecar.
LEMMA WindowType ==
  ASSUME NEW r \in RuntimeType, NEW w \in Seq(Token), NEW o \in Seq(Token)
  PROVE  /\ [r EXCEPT !.recent = w] \in RuntimeType
         /\ [[r EXCEPT !.recent = w] EXCEPT !.open = o] \in RuntimeType
  BY Zenon DEF RuntimeType

\* The frozen one-token append: _rabit2_final_old_append.
LEMMA OldAppendGrows ==
  ASSUME NEW r \in RuntimeType, NEW e \in Nat, NEW n \in Nat, NEW m \in Nat,
         NEW B, NEW cache, NEW ids, NEW row,
         Ready(r, cache, ids, B, row, e, n, m), m = n + 1
  PROVE  /\ Grown(old_append(r, Tok(e, m), cache, row), r, cache, ids, B, e, m)
         /\ old_append(r, Tok(e, m), cache, row).rt.fast_ready = r.fast_ready
  <1> DEFINE c == r.closed_pages
             recent1 == Append(r.recent, Tok(e, m))
  <1>1. /\ Aged(n) \in Nat /\ Aged(n) <= n /\ Aged(m) \in Nat
        /\ c \in Nat /\ PageTokens(c) \in Nat /\ PageTokens(c) <= Aged(n)
        /\ Aged(n) < PageTokens(c) + GroupSize
    BY WindowFacts, ZenonT(60)
  <1>a. /\ r.open = Run(e, PageTokens(c), Aged(n))
        /\ r.recent = Run(e, Aged(n), n)
    BY Zenon DEF Ready, Represents
  <1>b. /\ n < ResidualTokens => Aged(n) = 0 /\ Aged(m) = 0
        /\ n >= ResidualTokens => /\ Aged(n) = n - ResidualTokens
                                  /\ Aged(m) = Aged(n) + 1
                                  /\ Aged(n) < n
    BY AgedFacts, ShapeAssumption
  <1>2. recent1 = Run(e, Aged(n), m) /\ recent1 \in Seq(Token)
        /\ Len(recent1) = m - Aged(n)
    <2>1. Push(Run(e, Aged(n), n), Tok(e, m)) = Run(e, Aged(n), m)
      BY <1>1, RunAppend
    <2>2. Aged(n) <= m
      BY <1>1
    <2>3. Run(e, Aged(n), m) \in Seq(Token)
          /\ Len(Run(e, Aged(n), m)) = m - Aged(n)
      BY <1>1, <2>2, RunLen, ZenonT(60)
    <2> QED
      BY <1>a, <2>1, <2>3, Zenon DEF Push
  <1> HIDE DEF recent1
  <1>3. CASE n < ResidualTokens
    <2> DEFINE r2 == [r EXCEPT !.recent = recent1]
    <2>1. ~ (Len(recent1) > ResidualTokens)
      BY <1>1, <1>b, <1>2, <1>3, ShapeAssumption
    <2>2. old_append(r, Tok(e, m), cache, row) = Done(r2, cache)
      BY <2>1 DEF old_append, recent1
    <2>3. r2 \in RuntimeType
      BY <1>1, <1>2, WindowType, Zenon DEF RuntimeType
    <2>4. /\ r2.closed_pages = c /\ r2.open = r.open /\ r2.recent = recent1
          /\ r2.fast_ready = r.fast_ready
      BY <1>1, Zenon DEF RuntimeType
    <2> HIDE DEF r2
    <2>5. AgedOne(r2, r, e, m)
      BY <1>a, <1>b, <1>2, <1>3, <2>3, <2>4, SMTT(30) DEF AgedOne
    <2>6. Len(r2.open) < GroupSize /\ PageTokens(c) <= Aged(m)
      <3>1. Len(r.open) = Aged(n) - PageTokens(c)
        BY WindowFacts, ZenonT(60)
      <3> QED
        BY <1>1, <1>b, <1>3, <2>4, <3>1, ShapeAssumption
    <2>7. Grown(Done(r2, cache), r, cache, ids, B, e, m)
      BY <2>5, <2>6, GrownInOpen
    <2>8. Done(r2, cache).rt = r2
      BY DEF Done
    <2> QED
      BY <2>2, <2>4, <2>7, <2>8
  <1>4. CASE n >= ResidualTokens
    <2> DEFINE w == Tail(recent1)
               o == Append(r.open, Head(recent1))
               r1 == [r EXCEPT !.recent = w]
               r2 == [r1 EXCEPT !.open = o]
    <2>1. Len(recent1) > ResidualTokens
      BY <1>1, <1>b, <1>2, <1>4, ShapeAssumption, SMTT(30)
    <2>2. Head(recent1) = Tok(e, Aged(m)) /\ w = Run(e, Aged(m), m)
      <3>1. Aged(n) < m /\ Aged(m) = Aged(n) + 1
        BY <1>1, <1>b, <1>4
      <3>2. /\ Head(Run(e, Aged(n), m)) = Tok(e, Aged(m))
            /\ Tail(Run(e, Aged(n), m)) = Run(e, Aged(m), m)
        BY <1>1, <3>1, RunTail, SMTT(30)
      <3> QED
        BY <1>2, <3>2
    <2>3. o = Run(e, PageTokens(c), Aged(m))
      <3>1. Aged(m) = Aged(n) + 1
        BY <1>1, <1>b, <1>4
      <3>2. Push(Run(e, PageTokens(c), Aged(n)), Tok(e, Aged(m)))
              = Run(e, PageTokens(c), Aged(m))
        BY <1>1, <3>1, RunAppend
      <3> QED
        BY <1>a, <2>2, <3>2 DEF Push
    <2>4. w \in Seq(Token) /\ o \in Seq(Token)
          /\ Len(o) = Aged(m) - PageTokens(c)
          /\ PageTokens(c) <= Aged(m) /\ Len(o) <= GroupSize
      <3>1. PageTokens(c) <= Aged(m) /\ Aged(m) <= m
            /\ Aged(m) - PageTokens(c) <= GroupSize
        BY <1>1, <1>b, <1>4, ShapeAssumption
      <3>2. w \in Seq(Token)
        <4>1. Run(e, Aged(m), m) \in Seq(Token)
          BY <1>1, <3>1, RunLen, Zenon
        <4> QED
          BY <2>2, <4>1, Zenon
      <3>3. o \in Seq(Token) /\ Len(o) = Aged(m) - PageTokens(c)
        <4>1. /\ Run(e, PageTokens(c), Aged(m)) \in Seq(Token)
              /\ Len(Run(e, PageTokens(c), Aged(m))) = Aged(m) - PageTokens(c)
          BY <1>1, <3>1, RunLen, ZenonT(60)
        <4> QED
          BY <2>3, <4>1, Zenon
      <3> QED
        BY <3>1, <3>2, <3>3
    <2> HIDE DEF w, o
    <2>5. r2 \in RuntimeType
      BY <1>1, <2>4, WindowType, Zenon
    <2>6. /\ r2.closed_pages = c /\ r2.open = o /\ r2.recent = w
          /\ r2.fast_ready = r.fast_ready /\ r1.open = r.open
      BY <1>1, Zenon DEF RuntimeType
    <2>7. old_append(r, Tok(e, m), cache, row)
            = IF Len(r2.open) = GroupSize
              THEN _flush_open_page(r2, cache, row) ELSE Done(r2, cache)
      <3>1. old_append(r, Tok(e, m), cache, row)
              = _append_aged(r1, Head(recent1), cache, row)
        BY <2>1 DEF old_append, recent1, w
      <3>2. [r1 EXCEPT !.open = Append(@, Head(recent1))] = r2
        BY <2>6 DEF o
      <3> QED
        BY <3>1, <3>2, Zenon DEF _append_aged
    <2> HIDE DEF r1, r2
    <2>8. AgedOne(r2, r, e, m)
      BY <2>2, <2>3, <2>5, <2>6 DEF AgedOne
    <2>9. CASE Len(r2.open) = GroupSize
      <3>1. /\ Grown(_flush_open_page(r2, cache, row), r, cache, ids, B, e, m)
            /\ Flushed(_flush_open_page(r2, cache, row), r2, cache, ids, B, e)
        BY <2>4, <2>8, <2>9, GrownByFlush, SMTT(30)
      <3>2. _flush_open_page(r2, cache, row).rt.fast_ready = r.fast_ready
        BY <2>6, <3>1 DEF Flushed
      <3> QED
        BY <2>7, <2>9, <3>1, <3>2
    <2>10. CASE Len(r2.open) # GroupSize
      <3>1. Len(r2.open) < GroupSize
        BY <1>1, <2>4, <2>6, <2>10, ShapeAssumption, SMTT(30)
      <3>2. Grown(Done(r2, cache), r, cache, ids, B, e, m)
        BY <2>4, <2>8, <3>1, GrownInOpen
      <3>3. Done(r2, cache).rt = r2
        BY DEF Done
      <3> QED
        BY <2>6, <2>7, <2>10, <3>2, <3>3, SMTT(30)
    <2> QED
      BY <2>9, <2>10
  <1> QED
    BY <1>3, <1>4, ShapeAssumption
-----------------------------------------------------------------------------
\* Moving the buffers, or the slot counter, keeps a sidecar a sidecar.
LEMMA BufferType ==
  ASSUME NEW r \in RuntimeType, NEW k \in 0..(GroupSize - 1),
         NEW o \in [1..GroupSize -> Token], NEW w \in Seq(Token),
         NEW v \in Seq(Token)
  PROVE  /\ [r EXCEPT !.fast_open_len = k] \in RuntimeType
         /\ [r EXCEPT !.fast_ready = TRUE, !.fast_open_len = k,
                      !.fast_open = o, !.fast_recent = w] \in RuntimeType
         /\ [r EXCEPT !.fast_open = o, !.fast_recent = w,
                      !.open = v, !.recent = w] \in RuntimeType
         /\ [r EXCEPT !.fast_ready = FALSE] \in RuntimeType
  BY Zenon DEF RuntimeType

\* Sidecar p is r with the persistent buffers holding its open group and
\* its residual.
Buffered(p, r) ==
  /\ p \in RuntimeType
  /\ p.closed_pages = r.closed_pages /\ p.open = r.open /\ p.recent = r.recent
  /\ p.fast_ready = TRUE
  /\ p.fast_recent = r.recent
  /\ p.fast_open_len = Len(r.open)
  /\ \A i \in 1..Len(r.open) : p.fast_open[i] = r.open[i]

\* Preparing the buffers copies the sidecar, or finds them already in step.
LEMMA PrepareFacts ==
  ASSUME NEW r \in RuntimeType, FastInSync(r), Len(r.open) < GroupSize
  PROVE  Buffered(prepare_fast_buffers(r), r)
  <1>1. CASE r.fast_ready
    <2>1. prepare_fast_buffers(r) = r
      BY <1>1 DEF prepare_fast_buffers
    <2>2. r.fast_ready = TRUE
      BY <1>1, Zenon DEF RuntimeType
    <2> QED
      BY <1>1, <2>1, <2>2 DEF FastInSync, Buffered
  <1>2. CASE ~ r.fast_ready
    <2> DEFINE k == Len(r.open)
               o == [i \in 1..GroupSize |-> IF i <= k THEN r.open[i]
                                            ELSE Uninit]
               p == [r EXCEPT !.fast_ready = TRUE, !.fast_open_len = k,
                              !.fast_open = o, !.fast_recent = r.recent]
    <2>1. prepare_fast_buffers(r) = p
      BY <1>2 DEF prepare_fast_buffers
    <2>2. r.open \in Seq(Token) /\ r.recent \in Seq(Token)
      BY DEF RuntimeType
    <2>3. k \in 0..(GroupSize - 1)
      BY <2>2, ShapeAssumption
    <2>4. Uninit \in Token
      BY DEF Uninit, Tok, Token
    <2>5. o \in [1..GroupSize -> Token]
      BY <2>2, <2>3, <2>4, ShapeAssumption
    <2>6. \A i \in 1..k : o[i] = r.open[i]
      BY <2>3, ShapeAssumption
    <2> HIDE DEF o
    <2>7. p \in RuntimeType
      BY <2>2, <2>3, <2>5, BufferType, Zenon
    <2>8. /\ p.closed_pages = r.closed_pages /\ p.open = r.open
          /\ p.recent = r.recent /\ p.fast_ready = TRUE
          /\ p.fast_recent = r.recent /\ p.fast_open_len = k /\ p.fast_open = o
      BY Zenon DEF RuntimeType
    <2> HIDE DEF p
    <2> QED
      BY <2>1, <2>6, <2>7, <2>8 DEF Buffered
  <1> QED
    BY <1>1, <1>2

\* Setting the slot counter does not disturb a result.
LEMMA GrownReset ==
  ASSUME NEW res, NEW r, NEW cache, NEW ids, NEW B, NEW e, NEW n,
         NEW k \in 0..(GroupSize - 1),
         Grown(res, r, cache, ids, B, e, n)
  PROVE  LET q == [res.rt EXCEPT !.fast_open_len = k]
         IN  /\ Grown(Done(q, res.cache), r, cache, ids, B, e, n)
             /\ q.open = res.rt.open /\ q.recent = res.rt.recent
             /\ q.fast_ready = res.rt.fast_ready
             /\ q.fast_recent = res.rt.fast_recent
             /\ q.fast_open = res.rt.fast_open /\ q.fast_open_len = k
  <1> DEFINE a == res.rt
             q == [a EXCEPT !.fast_open_len = k]
  <1>1. a \in RuntimeType
    BY SMTT(30) DEF Grown
  <1>3. q \in RuntimeType
    BY <1>1, BufferType, ShapeAssumption, Zenon DEF RuntimeType
  <1>4. /\ q.closed_pages = a.closed_pages /\ q.open = a.open
        /\ q.recent = a.recent /\ q.fast_ready = a.fast_ready
        /\ q.fast_recent = a.fast_recent /\ q.fast_open = a.fast_open
        /\ q.fast_open_len = k
    BY <1>1, Zenon DEF RuntimeType
  <1> HIDE DEF q
  <1>5. Represents(q, e, n)
    BY <1>4, SMTT(30) DEF Grown, Represents
  <1>6. Grown(Done(q, res.cache), r, cache, ids, B, e, n)
    BY <1>3, <1>4, <1>5, SMTT(30) DEF Grown, Done
  <1> QED
    BY <1>4, <1>6 DEF q

\* The persistent-buffer append, once the buffers are prepared.
LEMMA FastAppendGrows ==
  ASSUME NEW r \in RuntimeType, NEW e \in Nat, NEW n \in Nat, NEW m \in Nat,
         NEW B, NEW cache, NEW ids, NEW row, NEW p,
         Ready(r, cache, ids, B, row, e, n, m), m = n + 1,
         n >= ResidualTokens, FastShape, Buffered(p, r)
  PROVE  LET res == fast_append(p, Tok(e, m), cache, row)
         IN  Grown(res, r, cache, ids, B, e, m) /\ FastInSync(res.rt)
  <1> DEFINE c == r.closed_pages
             slot == p.fast_open_len
             opened == [p.fast_open EXCEPT ![slot + 1] = p.fast_recent[1]]
             w == Append(Tail(p.fast_recent), Tok(e, m))
             o == Slice(opened, 0, slot + 1)
             s == [p EXCEPT !.fast_open = opened, !.fast_recent = w,
                            !.open = o, !.recent = w]
  <1>1. /\ Aged(n) \in Nat /\ Aged(n) < n /\ Aged(m) \in Nat
        /\ Aged(m) = Aged(n) + 1 /\ m - Aged(m) = ResidualTokens
        /\ Aged(m) <= n
    BY AgedFacts, ShapeAssumption, SMTT(30)
  <1>2. /\ c \in Nat /\ PageTokens(c) \in Nat /\ PageTokens(c) <= Aged(n)
        /\ Aged(n) < PageTokens(c) + GroupSize
        /\ Len(r.open) = Aged(n) - PageTokens(c)
    BY WindowFacts, SMTT(30)
  <1>3. /\ r.open = Run(e, PageTokens(c), Aged(n))
        /\ r.recent = Run(e, Aged(n), n)
    BY WindowFacts, SMTT(30)
  <1>4. /\ p \in RuntimeType /\ p.closed_pages = c /\ p.fast_ready = TRUE
        /\ p.fast_recent = r.recent /\ slot = Len(r.open)
        /\ \A i \in 1..Len(r.open) : p.fast_open[i] = r.open[i]
        /\ p.fast_open \in [1..GroupSize -> Token]
    BY DEF Buffered, RuntimeType
  <1>5. slot \in Nat /\ slot < GroupSize /\ slot = Aged(n) - PageTokens(c)
    BY <1>1, <1>2, <1>4, ShapeAssumption, SMTT(30)
  <1>6. p.fast_recent[1] = Tok(e, Aged(m)) /\ Tok(e, Aged(m)) \in Token
    <2>1. Run(e, Aged(n), n)[1] = Tok(e, Aged(m))
      BY <1>1, RunTail, SMTT(30)
    <2>2. Tok(e, Aged(m)) \in Token
      BY <1>1 DEF Tok, Token
    <2> QED
      BY <1>3, <1>4, <2>1, <2>2
  <1>7. w = Run(e, Aged(m), m) /\ w \in Seq(Token) /\ Len(w) = ResidualTokens
    <2>1. Tail(Run(e, Aged(n), n)) = Run(e, Aged(m), n)
      BY <1>1, RunTail, SMTT(30)
    <2>2. Push(Run(e, Aged(m), n), Tok(e, m)) = Run(e, Aged(m), m)
      BY <1>1, RunAppend
    <2>3. Aged(m) <= m
      BY <1>1
    <2>4. /\ Run(e, Aged(m), m) \in Seq(Token)
          /\ Len(Run(e, Aged(m), m)) = m - Aged(m)
      BY <1>1, <2>3, RunLen, ZenonT(60)
    <2> QED
      BY <1>1, <1>3, <1>4, <2>1, <2>2, <2>4, ZenonT(60) DEF Push
  <1>8. opened \in [1..GroupSize -> Token]
    BY <1>4, <1>5, <1>6, ShapeAssumption
  <1>9. \A i \in 1..(slot + 1) : opened[i] = Tok(e, PageTokens(c) + i)
    <2>1. opened[slot + 1] = Tok(e, Aged(m))
      BY <1>4, <1>5, <1>6, ShapeAssumption, SMTT(30)
    <2>2. PageTokens(c) + (slot + 1) = Aged(m)
      BY <1>1, <1>2, <1>5, SMTT(30)
    <2>3. \A i \in 1..slot : opened[i] = r.open[i]
      BY <1>4, <1>5, ShapeAssumption
    <2>4. \A i \in 1..slot : r.open[i] = Tok(e, PageTokens(c) + i)
      <3>1. Spells(Run(e, PageTokens(c), Aged(n)), e, PageTokens(c), Aged(n))
        BY <1>1, <1>2, RunSpells, SMTT(30)
      <3> QED
        BY <1>3, <1>5, <3>1 DEF Spells
    <2> HIDE DEF opened, slot
    <2>5. ASSUME NEW i \in 1..(slot + 1)
          PROVE  opened[i] = Tok(e, PageTokens(c) + i)
      <3>1. CASE i = slot + 1
        BY <3>1, <2>1, <2>2, SMTT(30)
      <3>2. CASE i # slot + 1
        <4>1. i \in 1..slot
          BY <1>5, <3>2
        <4> QED
          BY <4>1, <2>3, <2>4
      <3> QED
        BY <3>1, <3>2
    <2> QED
      BY <2>5
  <1> HIDE DEF opened, slot, w
  <1>10. /\ o \in Seq(Token) /\ Len(o) = slot + 1
         /\ \A i \in 1..(slot + 1) : o[i] = opened[i]
    <2>1. opened \in Seq(Token) /\ Len(opened) = GroupSize
      BY <1>8, ShapeAssumption
    <2> QED
      BY <2>1, <1>5, ShapeAssumption, SMTT(30) DEF Slice
  <1> HIDE DEF o
  <1>11. o = Run(e, PageTokens(c), Aged(m))
    <2>1. slot + 1 = Aged(m) - PageTokens(c) /\ PageTokens(c) <= Aged(m)
      BY <1>1, <1>2, <1>5, SMTT(30)
    <2>2. Spells(o, e, PageTokens(c), Aged(m))
      BY <1>9, <1>10, <2>1 DEF Spells
    <2>3. Len(o) = Aged(m) - PageTokens(c)
      BY <1>10, <2>1, SMTT(30)
    <2> QED
      BY <1>1, <1>2, <1>10, <2>1, <2>2, <2>3, SpellsRun, ZenonT(60)
  <1>12. s \in RuntimeType
    <2>1. 0 \in 0..(GroupSize - 1)
      BY ShapeAssumption
    <2> QED
      BY <2>1, <1>4, <1>7, <1>8, <1>10, BufferType, ZenonT(60)
  <1>13. /\ s.closed_pages = c /\ s.open = o /\ s.recent = w
         /\ s.fast_ready = TRUE /\ s.fast_recent = w /\ s.fast_open = opened
    BY <1>4, Zenon DEF RuntimeType
  <1>14. fast_append(p, Tok(e, m), cache, row) =
           LET flushed == _flush_open_page(s, cache, row)
           IN  IF ~ (slot < GroupSize)
               THEN Raise(p, cache)
               ELSE IF slot + 1 # GroupSize
               THEN Done([s EXCEPT !.fast_open_len = slot + 1], cache)
               ELSE IF flushed.raised
               THEN flushed
               ELSE Done([flushed.rt EXCEPT !.fast_open_len = 0],
                         flushed.cache)
    BY DEF fast_append, slot, opened, w, o
  <1> HIDE DEF s
  <1>15. AgedOne(s, r, e, m) /\ PageTokens(c) <= Aged(m)
    BY <1>1, <1>2, <1>7, <1>11, <1>12, <1>13, SMTT(30) DEF AgedOne
  <1>16. CASE slot + 1 # GroupSize
    <2>1. Len(s.open) < GroupSize /\ slot + 1 \in 0..(GroupSize - 1)
      BY <1>5, <1>10, <1>13, <1>16, ShapeAssumption, SMTT(30)
    <2> DEFINE k == slot + 1
               q == [s EXCEPT !.fast_open_len = k]
    <2>2. Grown(Done(s, cache), r, cache, ids, B, e, m)
      BY <1>15, <2>1, GrownInOpen, SMTT(30)
    <2>3. Done(s, cache).rt = s /\ Done(s, cache).cache = cache
          /\ Done(q, cache).rt = q
      BY DEF Done
    <2>4. /\ Grown(Done(q, cache), r, cache, ids, B, e, m)
          /\ q.open = s.open /\ q.recent = s.recent
          /\ q.fast_ready = s.fast_ready /\ q.fast_recent = s.fast_recent
          /\ q.fast_open = s.fast_open /\ q.fast_open_len = k
      <3> HIDE DEF k
      <3> QED
        BY <2>1, <2>2, <2>3, GrownReset, SMTT(30) DEF k
    <2>5. fast_append(p, Tok(e, m), cache, row) = Done(q, cache)
      BY <1>5, <1>14, <1>16, SMTT(30)
    <2> HIDE DEF q
    <2>6. FastInSync(q)
      BY <1>7, <1>10, <1>13, <2>4, SMTT(30) DEF FastInSync
    <2> QED
      BY <2>3, <2>4, <2>5, <2>6, SMTT(30)
  <1>17. CASE slot + 1 = GroupSize
    <2> DEFINE f == _flush_open_page(s, cache, row)
               z == 0
               q == [f.rt EXCEPT !.fast_open_len = z]
    <2>1. Len(s.open) = GroupSize
      BY <1>10, <1>13, <1>17, SMTT(30)
    <2>2. /\ Grown(f, r, cache, ids, B, e, m)
          /\ Flushed(f, s, cache, ids, B, e)
      BY <1>15, <2>1, GrownByFlush, SMTT(30)
    <2> HIDE DEF f
    <2>3. z \in 0..(GroupSize - 1)
      BY ShapeAssumption, SMTT(30)
    <2> HIDE DEF z
    <2>4. /\ Grown(Done(q, f.cache), r, cache, ids, B, e, m)
          /\ q.open = f.rt.open /\ q.recent = f.rt.recent
          /\ q.fast_ready = f.rt.fast_ready
          /\ q.fast_recent = f.rt.fast_recent /\ q.fast_open_len = z
      BY <2>2, <2>3, GrownReset, SMTT(30)
    <2>5. /\ f.raised = FALSE /\ f.rt.open = <<>> /\ f.rt.recent = w
          /\ f.rt.fast_ready = TRUE /\ f.rt.fast_recent = w
      BY <1>13, <2>2 DEF Flushed
    <2>6. fast_append(p, Tok(e, m), cache, row) = Done(q, f.cache)
      BY <1>5, <1>14, <1>17, <2>5, SMTT(30) DEF f, z
    <2> HIDE DEF q
    <2>7. FastInSync(q)
      BY <1>7, <2>4, <2>5, SMTT(30) DEF FastInSync, z
    <2>8. Done(q, f.cache).rt = q
      BY DEF Done
    <2> QED
      BY <2>4, <2>6, <2>7, <2>8, SMTT(30)
  <1> QED
    BY <1>16, <1>17

\* Rabit2SingleSequenceRuntime.append, whichever path it takes.
LEMMA AppendGrows ==
  ASSUME NEW r \in RuntimeType, NEW e \in Nat, NEW n \in Nat, NEW m \in Nat,
         NEW B, NEW cache, NEW ids, NEW row,
         Ready(r, cache, ids, B, row, e, n, m), m = n + 1, FastInSync(r)
  PROVE  LET res == append(r, Tok(e, m), cache, row)
         IN  Grown(res, r, cache, ids, B, e, m) /\ FastInSync(res.rt)
  <1> DEFINE fast == /\ FastShape
                     /\ Len(r.recent) >= ResidualTokens
                     /\ can_prepare_fast_buffers(r)
  <1>1. CASE fast
    <2> DEFINE p == prepare_fast_buffers(r)
    <2>1. append(r, Tok(e, m), cache, row)
            = fast_append(p, Tok(e, m), cache, row)
      BY <1>1 DEF append
    <2>2. n >= ResidualTokens
      <3>1. n < ResidualTokens => Len(r.recent) = n
        BY WindowFacts, ZenonT(60)
      <3> QED
        BY <1>1, <3>1, ShapeAssumption
    <2>3. Len(r.open) < GroupSize
      <3>1. /\ Len(r.open) = Aged(n) - PageTokens(r.closed_pages)
            /\ Aged(n) < PageTokens(r.closed_pages) + GroupSize
            /\ Aged(n) \in Nat /\ PageTokens(r.closed_pages) \in Nat
        BY WindowFacts, ZenonT(60)
      <3> QED
        BY <3>1, ShapeAssumption, SMTT(30)
    <2>4. Buffered(p, r)
      BY <2>3, PrepareFacts
    <2> HIDE DEF p
    <2> QED
      BY <1>1, <2>1, <2>2, <2>4, FastAppendGrows, SMTT(30)
  <1>2. CASE ~ fast
    <2> DEFINE d == drop_fast_buffers(r)
               res == old_append(d, Tok(e, m), cache, row)
    <2>1. append(r, Tok(e, m), cache, row) = res
      BY <1>2 DEF append
    <2>2. d \in RuntimeType
      <3>1. /\ 0 \in 0..(GroupSize - 1) /\ r.open \in Seq(Token)
            /\ r.fast_open \in [1..GroupSize -> Token]
        BY ShapeAssumption DEF RuntimeType
      <3> QED
        BY <3>1, BufferType, ZenonT(60) DEF drop_fast_buffers
    <2>3. /\ d.closed_pages = r.closed_pages /\ d.open = r.open
          /\ d.recent = r.recent /\ d.fast_ready = FALSE
      BY ZenonT(60) DEF RuntimeType, drop_fast_buffers
    <2> HIDE DEF d
    <2>4. Ready(d, cache, ids, B, row, e, n, m)
      BY <2>2, <2>3, SMTT(30) DEF Ready, Represents
    <2>5. Grown(res, d, cache, ids, B, e, m) /\ res.rt.fast_ready = FALSE
      BY <2>2, <2>3, <2>4, OldAppendGrows, SMTT(30)
    <2> HIDE DEF res
    <2>6. Grown(res, r, cache, ids, B, e, m)
      BY <2>3, <2>5, SMTT(30) DEF Grown
    <2>7. FastInSync(res.rt)
      BY <2>5 DEF FastInSync
    <2> QED
      BY <2>1, <2>6, <2>7
  <1> QED
    BY <1>1, <1>2, SMTT(30)
-----------------------------------------------------------------------------
\* The residual and the new tokens, cut where the residual window ends: what
\* the bulk append and the chunk plan both start from.
Combined(r, e, n, m) ==
  /\ r.recent \o Run(e, n, m) = Run(e, Aged(n), m)
  /\ Len(Run(e, Aged(n), m)) = m - Aged(n)
  /\ Aged(m - Aged(n)) = Aged(m) - Aged(n)
  /\ r.open \o Slice(Run(e, Aged(n), m), 0, Aged(m) - Aged(n))
       = Run(e, PageTokens(r.closed_pages), Aged(m))
  /\ Slice(Run(e, Aged(n), m), Aged(m) - Aged(n), m - Aged(n))
       = Run(e, Aged(m), m)

\* Growing a sidecar from n to m tokens cuts them that way.
LEMMA CombineFacts ==
  ASSUME NEW r \in RuntimeType, NEW e \in Nat, NEW n \in Nat, NEW m \in Nat,
         NEW B, NEW cache, NEW ids, NEW row,
         Ready(r, cache, ids, B, row, e, n, m)
  PROVE  /\ Combined(r, e, n, m)
         /\ Aged(n) \in Nat /\ Aged(m) \in Nat
         /\ Aged(n) <= Aged(m) /\ Aged(n) <= n /\ Aged(m) <= m
  <1> DEFINE base == PageTokens(r.closed_pages)
             a == Aged(n)
             z == Aged(m)
             k == z - a
             l == m - a
             zero == 0
  <1>1. a \in Nat /\ z \in Nat /\ a <= n /\ z <= m /\ n <= m
    BY AgedFacts DEF Ready
  <1>2. a <= z /\ Aged(m - a) = z - a
    BY <1>1, ShapeAssumption, SMTT(30) DEF Aged, PosPart
  <1>3. /\ base \in Nat /\ base <= a
        /\ r.open = Run(e, base, a) /\ r.recent = Run(e, a, n)
    BY RepresentsFacts DEF Ready
  <1> HIDE DEF base, a, z
  <1>4. r.recent \o Run(e, n, m) = Run(e, a, m)
    <2>1. Cat(Run(e, a, n), Run(e, n, m)) = Run(e, a, m)
      BY <1>1, RunConcat, SMTT(30)
    <2> QED
      BY <1>3, <2>1 DEF Cat
  <1>5. Len(Run(e, a, m)) = m - a
    <2>1. a <= m
      BY <1>1
    <2> QED
      BY <1>1, <2>1, RunLen
  <1>6. /\ k \in Nat /\ l \in Nat /\ zero \in Nat /\ zero <= k /\ k <= l
        /\ a + k = z /\ a + l = m /\ a + zero = a
        /\ a + k <= m /\ a + l <= m
    BY <1>1, <1>2
  <1> HIDE DEF k, l, zero
  <1>7. Slice(Run(e, a, m), zero, k) = Run(e, a, z)
    <2>1. Slice(Run(e, a, m), zero, k) = Run(e, a + zero, a + k)
      BY <1>1, <1>6, RunSub, SMTT(30)
    <2> QED
      BY <1>6, <2>1
  <1>8. Slice(Run(e, a, m), k, l) = Run(e, z, m)
    <2>1. Slice(Run(e, a, m), k, l) = Run(e, a + k, a + l)
      BY <1>1, <1>6, RunSub, SMTT(30)
    <2> QED
      BY <1>6, <2>1, SMTT(30)
  <1>9. r.open \o Run(e, a, z) = Run(e, base, z)
    <2>1. Cat(Run(e, base, a), Run(e, a, z)) = Run(e, base, z)
      BY <1>1, <1>2, <1>3, RunConcat, SMTT(30)
    <2> QED
      BY <1>3, <2>1, SMTT(30) DEF Cat
  <1>10. r.open \o Slice(Run(e, a, m), zero, k) = Run(e, base, z)
    BY <1>7, <1>9, SMTT(30)
  <1> QED
    BY <1>1, <1>2, <1>4, <1>5, <1>8, <1>10, ZenonT(60)
       DEF Combined, base, a, z, k, l, zero

\* k full pages of tokens, at the head of run `all', continue c closed pages.
WriteReady(all, k, c, cache, ids, B, row, e, x, n) ==
  /\ k \in Nat /\ c \in Nat /\ e \in Nat /\ x \in Nat /\ n \in Nat
  /\ all = Run(e, PageTokens(c), x)
  /\ PageTokens(c + k) <= x /\ x <= n
  /\ GoodRow(row, ids, n) /\ GoodCache(cache, ids, B)
  /\ PagesHold(cache, ids, e, c)

\* The k pages after the first c are in their blocks, and no other block of
\* the layer changed.
Written(cw, k, c, cache, ids, B, e, n) ==
  /\ cw \in [B -> Seq(Token)]
  /\ PagesHold(cw, ids, e, c + k)
  /\ \A b \in B : cw[b] # cache[b] =>
       \E p \in (c + 1)..Len(ids) : PageTokens(p) <= n /\ b = ids[p]

\* The page scatter puts every full page in the block of its logical page.
LEMMA WriteFacts ==
  ASSUME NEW all, NEW k, NEW c, NEW cache, NEW ids, NEW B, NEW row, NEW e,
         NEW x, NEW n, WriteReady(all, k, c, cache, ids, B, row, e, x, n)
  PROVE  Written(write_full_pages(all, k, c, cache, row),
                 k, c, cache, ids, B, e, n)
  <1> DEFINE cw == write_full_pages(all, k, c, cache, row)
             Hits(b) == \E p \in 1..k : row[c + p] = b
             Hit(b) == CHOOSE p \in 1..k : row[c + p] = b
  <1>1. /\ k \in Nat /\ c \in Nat /\ e \in Nat /\ x \in Nat /\ n \in Nat
        /\ PageTokens(c + k) <= x /\ x <= n
        /\ all = Run(e, PageTokens(c), x)
    BY DEF WriteReady
  <1>2. /\ ids \in Seq(Nat) /\ Len(ids) \in Nat /\ n <= PageTokens(Len(ids))
        /\ \A p \in 1..Len(ids) : PageTokens(p) <= n => row[p] = ids[p]
        /\ \A p, q \in 1..Len(ids) : ids[p] = ids[q] => p = q
    BY DEF WriteReady, GoodRow
  <1>3. /\ cache \in [B -> Seq(Token)]
        /\ \A p \in 1..Len(ids) : ids[p] \in B
        /\ PagesHold(cache, ids, e, c)
    BY SMTT(30) DEF WriteReady, GoodCache
  <1>4. ASSUME NEW p \in 1..(c + k)
        PROVE  p \in 1..Len(ids) /\ PageTokens(p) <= n /\ row[p] = ids[p]
               /\ PageTokens(p) <= x
    <2>1. p \in Nat /\ c + k \in Nat /\ p <= c + k
      BY <1>1
    <2>2. PageTokens(p) <= PageTokens(c + k) /\ PageTokens(p) \in Nat
          /\ PageTokens(c + k) \in Nat
      <3> DEFINE ck == c + k
      <3> HIDE DEF ck
      <3>1. ck \in Nat /\ p <= ck
        BY <2>1 DEF ck
      <3>2. PageTokens(p) <= PageTokens(ck) /\ PageTokens(p) \in Nat
            /\ PageTokens(ck) \in Nat
        BY <2>1, <3>1, PageTokensMono, PageTokensFacts, SMTT(30)
      <3> QED
        BY <3>2 DEF ck
    <2>3. PageTokens(p) <= n /\ PageTokens(p) <= x
      BY <1>1, <2>2
    <2>4. p <= Len(ids)
      BY <1>1, <1>2, <2>1, <2>3, PageBound
    <2>5. p \in 1..Len(ids)
      BY <1>2, <2>4
    <2> QED
      BY <1>2, <2>3, <2>5, SMTT(30)
  <1>5. ASSUME NEW p \in 1..k
        PROVE  /\ PageOf(all, p)
                    = Run(e, PageTokens((c + p) - 1), PageTokens(c + p))
               /\ PageOf(all, p) \in Seq(Token)
    <2> DEFINE q == p - 1
               i == PageTokens(q)
               j == PageTokens(p)
               base == PageTokens(c)
               lo == PageTokens((c + p) - 1)
               hi == PageTokens(c + p)
    <2>1. q \in Nat /\ p \in Nat /\ c + p \in 1..(c + k)
          /\ (c + p) - 1 = c + q
      BY <1>1
    <2>2. hi <= x
      BY <2>1, <1>4
    <2> HIDE DEF q
    <2>3. lo = base + i /\ hi = base + j
      BY <1>1, <2>1, PageTokensSum, ZenonT(60)
    <2>4. q <= p
      BY <2>1 DEF q
    <2>5. i \in Nat /\ j \in Nat /\ base \in Nat /\ i <= j
      BY <1>1, <2>1, <2>4, PageTokensFacts, PageTokensMono, Zenon
    <2> HIDE DEF i, j, base, lo, hi
    <2>6. base + j <= x /\ lo \in Nat /\ hi \in Nat /\ lo <= hi
      BY <2>2, <2>3, <2>5
    <2>7. Slice(Run(e, base, x), i, j) = Run(e, lo, hi)
      <3>1. Slice(Run(e, base, x), i, j) = Run(e, base + i, base + j)
        BY <1>1, <2>5, <2>6, RunSub, SMTT(30)
      <3> QED
        BY <2>3, <3>1, SMTT(30)
    <2>8. PageOf(all, p) = Slice(Run(e, base, x), i, j)
      BY <1>1 DEF PageOf, i, j, base, q
    <2>9. Run(e, lo, hi) \in Seq(Token)
      BY <1>1, <2>6, RunLen, SMTT(30)
    <2> QED
      BY <2>7, <2>8, <2>9 DEF lo, hi
  <1>6. cw = [b \in B |-> IF Hits(b) THEN PageOf(all, Hit(b)) ELSE cache[b]]
    BY <1>3, SMTT(30) DEF write_full_pages
  <1>7. ASSUME NEW b \in B, Hits(b)
        PROVE  Hit(b) \in 1..k /\ row[c + Hit(b)] = b
               /\ b = ids[c + Hit(b)]
               /\ c + Hit(b) \in 1..Len(ids) /\ PageTokens(c + Hit(b)) <= n
    <2>1. Hit(b) \in 1..k /\ row[c + Hit(b)] = b
      BY <1>7
    <2> HIDE DEF Hit
    <2>2. c + Hit(b) \in 1..(c + k)
      BY <1>1, <2>1
    <2> QED
      BY <1>4, <2>1, <2>2, SMTT(30)
  <1> HIDE DEF cw, Hit, Hits
  <1>8. cw \in [B -> Seq(Token)]
    <2>1. \A b \in B : (IF Hits(b) THEN PageOf(all, Hit(b)) ELSE cache[b])
                         \in Seq(Token)
      BY <1>3, <1>5, <1>7, SMTT(30)
    <2> QED
      BY <1>6, <2>1, SMTT(30)
  <1>9. ASSUME NEW p \in 1..(c + k)
        PROVE  cw[ids[p]] = Run(e, PageTokens(p - 1), PageTokens(p))
    <2>1. p \in 1..Len(ids) /\ ids[p] \in B /\ row[p] = ids[p]
      BY <1>3, <1>4, SMTT(30)
    <2>2. CASE p <= c
      <3>1. ~ Hits(ids[p])
        <4>1. SUFFICES ASSUME Hits(ids[p]) PROVE FALSE
          BY SMTT(30)
        <4>2. /\ ids[p] = ids[c + Hit(ids[p])] /\ Hit(ids[p]) \in 1..k
              /\ c + Hit(ids[p]) \in 1..Len(ids)
          BY <1>7, <2>1, <4>1, SMTT(30)
        <4>3. p = c + Hit(ids[p])
          BY <1>2, <2>1, <4>2, SMTT(30)
        <4> QED
          BY <1>1, <2>2, <4>2, <4>3, SMTT(30)
      <3>2. cw[ids[p]] = cache[ids[p]]
        BY <1>6, <2>1, <3>1
      <3>3. p \in 1..c
        BY <1>1, <2>2, SMTT(30)
      <3> QED
        BY <1>3, <3>2, <3>3, SMTT(30) DEF PagesHold
    <2>3. CASE p > c
      <3>1. p - c \in 1..k /\ c + (p - c) = p
        BY <1>1, <2>3, SMTT(30)
      <3>2. Hits(ids[p])
        BY <2>1, <3>1, SMTT(30) DEF Hits
      <3>3. /\ ids[p] = ids[c + Hit(ids[p])] /\ Hit(ids[p]) \in 1..k
            /\ c + Hit(ids[p]) \in 1..Len(ids)
        BY <1>7, <2>1, <3>2, SMTT(30)
      <3>4. p = c + Hit(ids[p])
        BY <1>2, <2>1, <3>3, SMTT(30)
      <3>5. cw[ids[p]] = PageOf(all, Hit(ids[p]))
        BY <1>6, <2>1, <3>2, SMTT(30)
      <3> QED
        BY <1>5, <3>3, <3>4, <3>5, SMTT(30)
    <2> QED
      BY <1>1, <2>2, <2>3, SMTT(30)
  <1>10. ASSUME NEW b \in B, cw[b] # cache[b]
         PROVE  \E p \in (c + 1)..Len(ids) : PageTokens(p) <= n /\ b = ids[p]
    <2>1. Hits(b)
      BY <1>6, <1>10, SMTT(30)
    <2>2. /\ b = ids[c + Hit(b)] /\ Hit(b) \in 1..k
          /\ c + Hit(b) \in 1..Len(ids) /\ PageTokens(c + Hit(b)) <= n
      BY <1>7, <2>1, SMTT(30)
    <2>3. c + Hit(b) \in (c + 1)..Len(ids)
      BY <1>1, <1>2, <2>2, SMTT(30)
    <2> QED
      BY <2>2, <2>3, SMTT(30)
  <1>11. PagesHold(cw, ids, e, c + k)
    BY <1>9, SMTT(30) DEF PagesHold
  <1> QED
    BY <1>8, <1>10, <1>11, SMTT(30) DEF Written, cw

\* The full pages of the tokens that have aged, and what they leave open.
LEMMA PageSplit ==
  ASSUME NEW c \in Nat, NEW x \in Nat, PageTokens(c) <= x, NEW d \in Nat,
         d = c + ((x - PageTokens(c)) \div GroupSize)
  PROVE  /\ (x - PageTokens(c)) \div GroupSize \in Nat
         /\ PageTokens(d) = PageTokens(c)
                              + PageTokens((x - PageTokens(c)) \div GroupSize)
         /\ PageTokens(d) <= x /\ x < PageTokens(d) + GroupSize
  <1> DEFINE y == x - PageTokens(c)
             k == y \div GroupSize
  <1>1. PageTokens(c) \in Nat
    BY PageTokensFacts
  <1>2. y \in Nat
    BY <1>1
  <1> HIDE DEF y
  <1>3. k \in Nat /\ PageTokens(k) <= y /\ y < PageTokens(k) + GroupSize
    BY <1>2, PageDivMod
  <1>4. d = c + k
    BY DEF y
  <1> HIDE DEF k
  <1>5. PageTokens(d) = PageTokens(c) + PageTokens(k) /\ PageTokens(k) \in Nat
    BY <1>3, <1>4, PageTokensSum, PageTokensFacts, SMTT(30)
  <1>6. x = PageTokens(c) + y
    BY <1>1 DEF y
  <1>7. PageTokens(d) <= x /\ x < PageTokens(d) + GroupSize
    BY <1>1, <1>2, <1>3, <1>5, <1>6, ShapeAssumption, SMTT(30)
  <1> QED
    BY <1>3, <1>5, <1>7, SMTT(30) DEF k, y

\* What follows k full pages, as a slice of the tokens that have aged.
OpenSliced(e, c, k, d, x, y) ==
  Slice(Run(e, PageTokens(c), x), PageTokens(k), y - PageTokens(c))
    = Run(e, PageTokens(d), y)

\* The slice after the last full page is the open group.
LEMMA OpenSlice ==
  ASSUME NEW e \in Nat, NEW c \in Nat, NEW k \in Nat, NEW d \in Nat,
         d = c + k, NEW x \in Nat, NEW y \in Nat, PageTokens(d) <= y, y <= x
  PROVE  OpenSliced(e, c, k, d, x, y)
  <1> DEFINE base == PageTokens(c)
             i == PageTokens(k)
             j == y - base
             lo == PageTokens(d)
  <1>1. base \in Nat /\ i \in Nat /\ lo \in Nat /\ lo = base + i
    BY PageTokensFacts, PageTokensSum, ZenonT(60)
  <1>2. lo <= y
    OBVIOUS
  <1> HIDE DEF base, i, lo
  <1>3. j \in Nat /\ i <= j /\ base + j = y /\ base + j <= x
    BY <1>1, <1>2
  <1> HIDE DEF j
  <1>4. Slice(Run(e, base, x), i, j) = Run(e, base + i, base + j)
    BY <1>1, <1>3, RunSub, SMTT(30)
  <1>5. Slice(Run(e, base, x), i, j) = Run(e, lo, y)
    BY <1>1, <1>3, <1>4
  <1> QED
    BY <1>5 DEF OpenSliced, base, i, j, lo

\* Three fields at once.
LEMMA GrowType ==
  ASSUME NEW r \in RuntimeType, NEW d \in Nat, NEW o \in Seq(Token),
         NEW w \in Seq(Token)
  PROVE  [r EXCEPT !.closed_pages = d, !.open = o, !.recent = w]
           \in RuntimeType
  BY ZenonT(60) DEF RuntimeType

\* A sidecar without persistent buffers.
Cold(r) == r.fast_ready = FALSE

\* The bulk append of a run of tokens.
LEMMA BulkGrows ==
  ASSUME NEW r \in RuntimeType, NEW e \in Nat, NEW n \in Nat, NEW m \in Nat,
         NEW B, NEW cache, NEW ids, NEW row,
         Ready(r, cache, ids, B, row, e, n, m), n < m, r.fast_ready = FALSE
  PROVE  LET res == rabit2_bulk_append_exact(r, Run(e, n, m), cache, row)
         IN  Grown(res, r, cache, ids, B, e, m) /\ Cold(res.rt)
  <1> DEFINE c == r.closed_pages
             base == PageTokens(c)
             combined == Run(e, Aged(n), m)
             aged == Aged(m) - Aged(n)
             all == Run(e, base, Aged(m))
             k == (Aged(m) - base) \div GroupSize
             d == c + k
             o == Slice(all, PageTokens(k), Aged(m) - base)
             w == Slice(combined, aged, m - Aged(n))
             cw == write_full_pages(all, k, c, cache, row)
             res == rabit2_bulk_append_exact(r, Run(e, n, m), cache, row)
  <1>1. /\ r.recent \o Run(e, n, m) = combined
        /\ Len(combined) = m - Aged(n)
        /\ Aged(m - Aged(n)) = aged
        /\ r.open \o Slice(combined, 0, aged) = all
        /\ w = Run(e, Aged(m), m)
    <2>1. Combined(r, e, n, m)
      BY CombineFacts, SMTT(30)
    <2> QED
      BY <2>1, ZenonT(60) DEF Combined
  <1>2. /\ Aged(n) \in Nat /\ Aged(m) \in Nat
        /\ Aged(n) <= Aged(m) /\ Aged(n) <= n /\ Aged(m) <= m
    BY CombineFacts, SMTT(30)
  <1>3. /\ c \in Nat /\ base \in Nat /\ base <= Aged(n) /\ base <= Aged(m)
        /\ Aged(n) < base + GroupSize /\ r.open = Run(e, base, Aged(n))
    <2>1. /\ c \in Nat /\ base \in Nat /\ base <= Aged(n)
          /\ Aged(n) < base + GroupSize /\ r.open = Run(e, base, Aged(n))
      BY RepresentsFacts DEF Ready
    <2> QED
      BY <1>2, <2>1, SMTT(30)
  <1>4. Len(all) = Aged(m) - base
    BY <1>2, <1>3, RunLen, ZenonT(60)
  <1>5. Run(e, n, m) # <<>>
    <2>1. Len(Run(e, n, m)) = m - n
      BY RunLen DEF Ready
    <2> QED
      BY <2>1
  <1>6. res = IF aged = 0
              THEN Done([r EXCEPT !.recent = combined], cache)
              ELSE IF d > Len(row)
              THEN Raise(r, cache)
              ELSE Done([r EXCEPT !.closed_pages = d, !.open = o,
                                  !.recent = w], cw)
    <2> HIDE DEF combined, aged, all
    <2> QED
      BY <1>1, <1>4, <1>5, ZenonT(60) DEF rabit2_bulk_append_exact
  <1>7. combined \in Seq(Token)
    <2>1. Aged(n) <= m
      BY <1>2, SMTT(30)
    <2> QED
      BY <1>2, <2>1, RunLen, ZenonT(60)
  <1>8. CASE aged = 0
    <2> DEFINE r2 == [r EXCEPT !.recent = combined]
    <2>1. res = Done(r2, cache)
      BY <1>6, <1>8, SMTT(30)
    <2>2. Aged(m) = Aged(n)
      BY <1>2, <1>8
    <2> HIDE DEF combined
    <2>3. r2 \in RuntimeType
      BY <1>7, WindowType, ZenonT(60) DEF RuntimeType
    <2>4. /\ r2.closed_pages = c /\ r2.open = r.open /\ r2.recent = combined
          /\ r2.fast_ready = FALSE
      BY ZenonT(60) DEF RuntimeType
    <2> HIDE DEF r2
    <2>5. AgedOne(r2, r, e, m)
      BY <1>3, <2>2, <2>3, <2>4, SMTT(30) DEF AgedOne, combined
    <2>6. Len(r2.open) < GroupSize
      <3>1. Len(Run(e, base, Aged(n))) = Aged(n) - base
        BY <1>2, <1>3, RunLen, Zenon
      <3> QED
        BY <1>2, <1>3, <2>4, <3>1, ShapeAssumption, SMTT(30)
    <2>7. Grown(Done(r2, cache), r, cache, ids, B, e, m)
      BY <1>3, <2>5, <2>6, GrownInOpen, SMTT(30)
    <2>8. Done(r2, cache).rt = r2
      BY SMTT(30) DEF Done
    <2> QED
      BY <2>1, <2>4, <2>7, <2>8, SMTT(30) DEF Cold
  <1>9. CASE aged # 0
    <2>1. /\ k \in Nat /\ d \in Nat
          /\ PageTokens(d) <= Aged(m) /\ Aged(m) < PageTokens(d) + GroupSize
      <3>1. k \in Nat
        <4> DEFINE y == Aged(m) - base
        <4>1. y \in Nat
          BY <1>2, <1>3, SMTT(30)
        <4> HIDE DEF y
        <4>2. y \div GroupSize \in Nat
          BY <4>1, PageDivMod, SMTT(30)
        <4> QED
          BY <4>2, SMTT(30) DEF y
      <3>2. d \in Nat
        BY <1>3, <3>1
      <3> QED
        BY <1>2, <1>3, <3>1, <3>2, PageSplit, SMTT(30)
    <2> HIDE DEF k, d, aged, combined
    <2>2. d = c + k
      BY DEF d
    <2>3. GoodRow(row, ids, m) /\ GoodCache(cache, ids, B)
          /\ PagesHold(cache, ids, e, c)
      BY DEF Ready
    <2>4. d <= Len(ids) /\ Len(row) = Len(ids) /\ Len(ids) \in Nat
      <3>1. /\ Len(ids) \in Nat /\ m <= PageTokens(Len(ids))
            /\ Len(row) = Len(ids)
        BY <2>3 DEF GoodRow
      <3>2. PageTokens(d) \in Nat
        BY <2>1, PageTokensFacts, SMTT(30)
      <3>3. PageTokens(d) <= m
        BY <1>2, <2>1, <3>2, SMTT(30)
      <3> QED
        BY <2>1, <3>1, <3>3, PageBound, SMTT(30)
    <2> DEFINE r2 == [r EXCEPT !.closed_pages = d, !.open = o, !.recent = w]
    <2>5. res = Done(r2, cw)
      BY <1>6, <1>9, <2>1, <2>4, SMTT(30)
    <2>6. WriteReady(all, k, c, cache, ids, B, row, e, Aged(m), m)
      BY <1>2, <1>3, <2>1, <2>2, <2>3, SMTT(30) DEF WriteReady
    <2>7. Written(cw, k, c, cache, ids, B, e, m)
      BY <2>6, WriteFacts, SMTT(30)
    <2>8. o = Run(e, PageTokens(d), Aged(m))
      <3>1. c \in Nat /\ Aged(m) \in Nat /\ Aged(m) <= Aged(m)
        BY <1>2, <1>3
      <3>2. OpenSliced(e, c, k, d, Aged(m), Aged(m))
        <4> HIDE DEF c
        <4> QED
          BY <2>1, <2>2, <3>1, OpenSlice, ZenonT(60)
      <3> QED
        BY <3>2, SMTT(30) DEF OpenSliced
    <2>9. o \in Seq(Token) /\ w \in Seq(Token)
      <3>1. PageTokens(d) \in Nat
        BY <2>1, PageTokensFacts
      <3>2. Run(e, PageTokens(d), Aged(m)) \in Seq(Token)
        BY <1>2, <2>1, <3>1, RunLen, ZenonT(60)
      <3>3. Run(e, Aged(m), m) \in Seq(Token)
        BY <1>2, RunLen, Zenon
      <3> QED
        BY <1>1, <2>8, <3>2, <3>3, SMTT(30)
    <2> HIDE DEF o, w, cw
    <2>10. r2 \in RuntimeType
      BY <2>1, <2>9, GrowType, ZenonT(60)
    <2>11. /\ r2.closed_pages = d /\ r2.open = o /\ r2.recent = w
           /\ r2.fast_ready = FALSE
      BY ZenonT(60) DEF RuntimeType
    <2> HIDE DEF r2
    <2>12. Represents(r2, e, m)
      BY <1>1, <2>1, <2>8, <2>11, SMTT(30) DEF Represents
    <2>13. c <= d
      BY <1>3, <2>1, <2>2, SMTT(30)
    <2>14. Grown(Done(r2, cw), r, cache, ids, B, e, m)
      BY <2>2, <2>7, <2>10, <2>11, <2>12, <2>13, SMTT(30)
         DEF Grown, Done, Written
    <2>15. Done(r2, cw).rt = r2
      BY DEF Done
    <2> QED
      BY <2>5, <2>11, <2>14, <2>15, SMTT(30) DEF Cold
  <1> QED
    BY <1>8, <1>9
-----------------------------------------------------------------------------
\* Pages never reopen: a longer prefix has at least as many closed pages.
LEMMA PageOrder ==
  ASSUME NEW j \in Nat, NEW k \in Nat, NEW x \in Nat, NEW y \in Nat, x <= y,
         PageTokens(j) <= x, y < PageTokens(k) + GroupSize
  PROVE  j <= k
  <1>1. PageTokens(k + 1) = PageTokens(k) + GroupSize
    BY PageTokensFacts
  <1>2. k + 1 \in Nat /\ PageTokens(j) \in Nat /\ PageTokens(k) \in Nat
    BY PageTokensFacts, SMTT(30)
  <1> QED
    BY ShapeAssumption, <1>2, SMTT(30) DEF PageTokens

\* Ageing counts from any earlier prefix.
LEMMA AgedShift ==
  ASSUME NEW n \in Nat, NEW y \in Nat, n <= y
  PROVE  /\ Aged(n) \in Nat /\ Aged(y) \in Nat /\ Aged(n) <= Aged(y)
         /\ Aged(n) <= n /\ Aged(y) <= y
         /\ y - Aged(n) \in Nat /\ Aged(y - Aged(n)) = Aged(y) - Aged(n)
  <1>1. /\ Aged(n) \in Nat /\ Aged(y) \in Nat /\ Aged(n) <= n /\ Aged(y) <= y
    BY AgedFacts, SMTT(30)
  <1>2. Aged(n) <= Aged(y) /\ Aged(y - Aged(n)) = Aged(y) - Aged(n)
    BY <1>1, ShapeAssumption, SMTT(30) DEF Aged, PosPart
  <1> QED
    BY <1>1, <1>2, SMTT(30)

\* What building a plan for tokens n + 1 .. m must achieve.
Planned(p, r, cache, ids, B, row, e, n, m) ==
  /\ p \in PlanType
  /\ p.init_closed = r.closed_pages /\ p.num_tokens = m - n
  /\ p.last_step = -1
  /\ PlanExtends(p, e, n)
  /\ ~ PlanRaises(p, row)
  /\ Written(PlanWrites(p, cache, row), PlanFullPages(p), p.init_closed,
             cache, ids, B, e, m)

\* Rabit2CausalChunkPlan.__init__ builds such a plan.
LEMMA NewPlanFacts ==
  ASSUME NEW r \in RuntimeType, NEW e \in Nat, NEW n \in Nat, NEW m \in Nat,
         NEW B, NEW cache, NEW ids, NEW row,
         Ready(r, cache, ids, B, row, e, n, m), n < m
  PROVE  Planned(NewPlan(r, Run(e, n, m)), r, cache, ids, B, row, e, n, m)
  <1> DEFINE c == r.closed_pages
             base == PageTokens(c)
             combined == Run(e, Aged(n), m)
             aged == Aged(m) - Aged(n)
             all == Run(e, base, Aged(m))
             p == NewPlan(r, Run(e, n, m))
             k == (Aged(m) - base) \div GroupSize
             d == c + k
  <1>1. Combined(r, e, n, m)
    BY CombineFacts, SMTT(30)
  <1>2. /\ Aged(n) \in Nat /\ Aged(m) \in Nat
        /\ Aged(n) <= Aged(m) /\ Aged(n) <= n /\ Aged(m) <= m
    BY CombineFacts, SMTT(30)
  <1>3. /\ c \in Nat /\ base \in Nat /\ base <= Aged(n)
        /\ Aged(n) < base + GroupSize
        /\ Len(r.open) = Aged(n) - base /\ Len(r.recent) = n - Aged(n)
    BY RepresentsFacts, SMTT(30) DEF Ready
  <1>4. base <= Aged(m)
    BY <1>2, <1>3
  <1>5. all \in Seq(Token) /\ Len(all) = Aged(m) - base
    BY <1>2, <1>3, <1>4, RunLen, ZenonT(60)
  <1>6. combined \in Seq(Token) /\ Len(Run(e, n, m)) = m - n
    <2>1. Aged(n) <= m
      BY <1>2
    <2> QED
      BY <1>2, <2>1, RunLen, Zenon DEF Ready
  <1>7. p = [init_closed |-> c, init_open_len |-> Aged(n) - base,
             init_recent_len |-> n - Aged(n), combined_recent |-> combined,
             all |-> all, num_tokens |-> m - n, last_step |-> -1]
    BY <1>1, <1>3, <1>6, Zenon DEF NewPlan, Combined
  <1> HIDE DEF p, combined, all
  <1>8. /\ p.init_closed = c /\ p.init_open_len = Aged(n) - base
        /\ p.init_recent_len = n - Aged(n) /\ p.combined_recent = combined
        /\ p.all = all /\ p.num_tokens = m - n /\ p.last_step = -1
    BY <1>7, SMTT(30)
  <1>9. p \in PlanType
    <2>1. Aged(n) - base \in Nat /\ n - Aged(n) \in Nat /\ m - n \in Nat
      BY <1>2, <1>3, SMTT(30)
    <2> QED
      BY <1>3, <1>5, <1>6, <1>7, <2>1, SMTT(30) DEF PlanType
  <1>10. PlanExtends(p, e, n)
    <2>1. n + p.num_tokens = m
      BY <1>8, SMTT(30)
    <2>2. /\ p.init_open_len < GroupSize
          /\ PageTokens(p.init_closed) + p.init_open_len = Aged(n)
      <3>1. /\ Aged(n) - base < GroupSize
            /\ base + (Aged(n) - base) = Aged(n)
        <4>1. Aged(n) \in Nat /\ base \in Nat /\ Aged(n) < base + GroupSize
          BY <1>2, <1>3, SMTT(30)
        <4> HIDE DEF base
        <4> QED
          BY <4>1, ShapeAssumption, SMTT(30)
      <3> QED
        BY <1>8, <3>1
    <2> QED
      BY <1>8, <2>1, <2>2, SMTT(30) DEF PlanExtends, combined, all
  <1>11. PlanFullPages(p) = k
    BY <1>5, <1>8, SMTT(30) DEF PlanFullPages
  <1>12. /\ k \in Nat /\ d \in Nat /\ PageTokens(d) <= Aged(m)
    <2>1. k \in Nat
      <3> DEFINE y == Aged(m) - base
      <3>1. y \in Nat
        BY <1>2, <1>3, <1>4, SMTT(30)
      <3> HIDE DEF y
      <3>2. y \div GroupSize \in Nat
        BY <3>1, PageDivMod, SMTT(30)
      <3> QED
        BY <3>2 DEF y
    <2>2. d \in Nat
      BY <1>3, <2>1
    <2> QED
      BY <1>2, <1>3, <1>4, <2>1, <2>2, PageSplit, SMTT(30)
  <1> HIDE DEF k
  <1>13. d <= Len(row)
    <2>1. /\ Len(ids) \in Nat /\ m <= PageTokens(Len(ids))
          /\ Len(row) = Len(ids)
      BY DEF Ready, GoodRow
    <2> HIDE DEF d
    <2>2. PageTokens(d) \in Nat
      BY <1>12, PageTokensFacts, SMTT(30)
    <2>3. PageTokens(d) <= m
      BY <1>2, <1>12, <2>2, SMTT(30)
    <2> QED
      BY <1>12, <2>1, <2>3, PageBound, SMTT(30)
  <1>14. ~ PlanRaises(p, row)
    <2>1. Len(row) \in Nat
      BY SMTT(30) DEF Ready, GoodRow
    <2> QED
      BY <1>8, <1>11, <1>12, <1>13, <2>1, SMTT(30) DEF PlanRaises
  <1>15. WriteReady(all, k, c, cache, ids, B, row, e, Aged(m), m)
    BY <1>2, <1>3, <1>12, SMTT(30) DEF WriteReady, Ready, all
  <1>16. Written(write_full_pages(all, k, c, cache, row),
                 k, c, cache, ids, B, e, m)
    BY <1>15, WriteFacts, SMTT(30)
  <1>17. Written(PlanWrites(p, cache, row), k, c, cache, ids, B, e, m)
    <2>1. CASE k = 0
      <3>1. PlanWrites(p, cache, row) = cache
        BY <1>11, <2>1, SMTT(30) DEF PlanWrites
      <3>2. c + k = c
        BY <1>3, <2>1, SMTT(30)
      <3> QED
        BY <3>1, <3>2, SMTT(30) DEF Written, Ready, GoodCache
    <2>2. CASE k # 0
      BY <1>8, <1>11, <1>16, <2>2, SMTT(30) DEF PlanWrites
    <2> QED
      BY <2>1, <2>2, SMTT(30)
  <1> QED
    BY <1>8, <1>9, <1>10, <1>11, <1>14, <1>17, ZenonT(60) DEF Planned, p

\* What exposing the state after token n + step + 1 must achieve.
Applied(q, r, p, e, y) ==
  /\ q \in RuntimeType
  /\ Represents(q, e, y)
  /\ q.closed_pages <= p.init_closed + PlanFullPages(p)
  /\ q.fast_ready = r.fast_ready

\* Rabit2CausalChunkPlan.apply_step exposes exactly the state after its token.
LEMMA ApplyStepFacts ==
  ASSUME NEW r \in RuntimeType, NEW p \in PlanType, NEW e \in Nat,
         NEW n \in Nat, NEW step \in Nat, PlanExtends(p, e, n),
         step + 1 <= p.num_tokens, NEW y \in Nat, y = n + (step + 1)
  PROVE  Applied(apply_step(r, p, step), r, p, e, y)
  <1> DEFINE c == p.init_closed
             base == PageTokens(c)
             end == n + p.num_tokens
             k == (Aged(y) - base) \div GroupSize
             d == c + k
             f == (Aged(end) - base) \div GroupSize
             o == Slice(p.all, PageTokens(k), Aged(y) - base)
             w == Slice(p.combined_recent, Aged(y) - Aged(n), y - Aged(n))
             q == [r EXCEPT !.closed_pages = d, !.open = o, !.recent = w]
  <1>1. /\ p.init_closed \in Nat /\ p.init_open_len \in Nat
        /\ p.init_recent_len \in Nat /\ p.num_tokens \in Nat
    BY SMTT(30) DEF PlanType
  <1>2. /\ base + p.init_open_len = Aged(n)
        /\ p.init_recent_len = n - Aged(n)
        /\ p.combined_recent = Run(e, Aged(n), end)
        /\ p.all = Run(e, base, Aged(end))
    BY DEF PlanExtends
  <1>3. n <= y /\ y <= end /\ end \in Nat
    BY <1>1
  <1> HIDE DEF end
  <1>4. /\ Aged(n) \in Nat /\ Aged(y) \in Nat /\ Aged(n) <= Aged(y)
        /\ Aged(n) <= n /\ Aged(y) <= y
        /\ y - Aged(n) \in Nat /\ Aged(y - Aged(n)) = Aged(y) - Aged(n)
    BY <1>3, AgedShift, ZenonT(60)
  <1>5. Aged(end) \in Nat /\ Aged(y) <= Aged(end)
    BY <1>3, AgedShift, ZenonT(60)
  <1>6. base \in Nat /\ base <= Aged(n) /\ base <= Aged(y)
        /\ base <= Aged(end) /\ p.init_open_len = Aged(n) - base
    <2>1. base \in Nat
      BY <1>1, PageTokensFacts, SMTT(30)
    <2> QED
      BY <1>1, <1>2, <1>4, <1>5, <2>1, SMTT(30)
  <1>7. p.init_recent_len + (step + 1) = y - Aged(n)
    BY <1>2, <1>4, SMTT(30)
  <1>8. p.init_open_len + (Aged(y) - Aged(n)) = Aged(y) - base
    BY <1>4, <1>6
  <1>9. apply_step(r, p, step) = q
    <2>1. Aged(p.init_recent_len + (step + 1)) = Aged(y) - Aged(n)
      BY <1>4, <1>7, SMTT(30)
    <2> QED
      BY <1>7, <1>8, <2>1, ZenonT(60) DEF apply_step
  <1>10. /\ k \in Nat /\ d \in Nat /\ f \in Nat /\ c + f \in Nat
    <2> DEFINE u == Aged(y) - base
               v == Aged(end) - base
    <2>1. u \in Nat /\ v \in Nat
      BY <1>4, <1>5, <1>6, SMTT(30)
    <2> HIDE DEF u, v
    <2>2. u \div GroupSize \in Nat /\ v \div GroupSize \in Nat
      BY <2>1, PageDivMod, SMTT(30)
    <2> QED
      BY <1>1, <2>2, SMTT(30) DEF u, v
  <1>11. PageTokens(d) <= Aged(y) /\ Aged(y) < PageTokens(d) + GroupSize
    BY <1>1, <1>4, <1>6, <1>10, PageSplit, SMTT(30)
  <1>12. Aged(end) < PageTokens(c + f) + GroupSize
    <2> DEFINE g == c + f
    <2>1. g \in Nat /\ g = c + ((Aged(end) - base) \div GroupSize)
      BY <1>10, SMTT(30)
    <2> HIDE DEF g
    <2>2. Aged(end) < PageTokens(g) + GroupSize
      BY <1>1, <1>5, <1>6, <2>1, PageSplit, SMTT(30)
    <2> QED
      BY <2>2, SMTT(30) DEF g
  <1>13. PlanFullPages(p) = f
    <2>1. Len(Run(e, base, Aged(end))) = Aged(end) - base
      BY <1>5, <1>6, RunLen, ZenonT(60)
    <2> QED
      BY <1>2, <2>1 DEF PlanFullPages
  <1>14. d <= c + f
    <2> DEFINE g == c + f
    <2> HIDE DEF k, d, f
    <2> HIDE DEF g
    <2>1. g \in Nat /\ Aged(end) < PageTokens(g) + GroupSize
      BY <1>10, <1>12 DEF g
    <2>2. d <= g
      BY <1>4, <1>5, <1>10, <1>11, <2>1, PageOrder
    <2> QED
      BY <2>2 DEF g
  <1> HIDE DEF k, f
  <1>15. o = Run(e, PageTokens(d), Aged(y))
    <2>1. d = c + k
      OBVIOUS
    <2> HIDE DEF d
    <2>2. OpenSliced(e, c, k, d, Aged(end), Aged(y))
      BY <1>1, <1>4, <1>5, <1>10, <1>11, <2>1, OpenSlice, ZenonT(60)
    <2> QED
      BY <1>2, <2>2 DEF OpenSliced
  <1>16. w = Run(e, Aged(y), y)
    <2> DEFINE a == Aged(n)
               i == Aged(y) - a
               j == y - a
    <2>1. /\ a \in Nat /\ i \in Nat /\ j \in Nat /\ i <= j /\ a + j <= end
          /\ a + i = Aged(y) /\ a + j = y
      BY <1>3, <1>4, SMTT(30)
    <2> HIDE DEF a, i, j
    <2>2. Slice(Run(e, a, end), i, j) = Run(e, a + i, a + j)
      BY <1>3, <2>1, RunSub, SMTT(30)
    <2>3. Slice(Run(e, a, end), i, j) = Run(e, Aged(y), y)
      BY <2>1, <2>2
    <2> QED
      BY <1>2, <2>3, SMTT(30) DEF a, i, j
  <1>17. o \in Seq(Token) /\ w \in Seq(Token)
    <2> HIDE DEF d
    <2>1. PageTokens(d) \in Nat
      BY <1>10, PageTokensFacts
    <2>2. Run(e, PageTokens(d), Aged(y)) \in Seq(Token)
      BY <1>4, <1>11, <2>1, RunLen, Zenon
    <2>3. Run(e, Aged(y), y) \in Seq(Token)
      BY <1>4, RunLen, Zenon
    <2> QED
      BY <1>15, <1>16, <2>2, <2>3, SMTT(30)
  <1> HIDE DEF o, w, d
  <1>18. q \in RuntimeType
    BY <1>10, <1>17, GrowType, ZenonT(60)
  <1>19. /\ q.closed_pages = d /\ q.open = o /\ q.recent = w
         /\ q.fast_ready = r.fast_ready
    BY ZenonT(60) DEF RuntimeType
  <1> HIDE DEF q
  <1>20. Represents(q, e, y)
    BY <1>11, <1>15, <1>16, <1>19, SMTT(30) DEF Represents
  <1> QED
    BY <1>9, <1>13, <1>14, <1>18, <1>19, <1>20, SMTT(30) DEF Applied
=============================================================================
