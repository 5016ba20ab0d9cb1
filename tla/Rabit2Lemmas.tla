----------------------------- MODULE Rabit2Lemmas -----------------------------
(***************************************************************************)
(* Facts the proofs about the runtime rest on: division by the group size, *)
(* and runs of consecutive tokens.  Every sidecar tensor and every page is *)
(* such a run, so the proofs reason about its two ends only.               *)
(***************************************************************************)
EXTENDS Rabit2Runtime, SequenceTheorems, TLAPS

\* The token count of whole pages, without the multiplication.
LEMMA PageTokensFacts ==
  ASSUME NEW k \in Nat
  PROVE  /\ PageTokens(k) \in Nat
         /\ PageTokens(0) = 0
         /\ PageTokens(k + 1) = PageTokens(k) + GroupSize
         /\ k > 0 => /\ PageTokens(k - 1) \in Nat
                     /\ PageTokens(k) = PageTokens(k - 1) + GroupSize
  BY ShapeAssumption, SMT DEF PageTokens

\* Page counts add up.
LEMMA PageTokensSum ==
  ASSUME NEW j \in Nat, NEW k \in Nat
  PROVE  PageTokens(j + k) = PageTokens(j) + PageTokens(k)
  BY ShapeAssumption, SMT DEF PageTokens

\* More pages hold more tokens.
LEMMA PageTokensMono ==
  ASSUME NEW j \in Nat, NEW k \in Nat, j <= k
  PROVE  PageTokens(j) <= PageTokens(k)
  BY ShapeAssumption, SMT DEF PageTokens

\* If n tokens fill j pages and fit in k pages, then j <= k.
LEMMA PageBound ==
  ASSUME NEW j \in Nat, NEW k \in Nat, NEW n \in Nat,
         PageTokens(j) <= n, n <= PageTokens(k)
  PROVE  j <= k
  BY ShapeAssumption, SMT DEF PageTokens

\* Full pages and left-over tokens of a count: the code's // and %.
LEMMA PageDivMod ==
  ASSUME NEW n \in Nat
  PROVE  /\ n \div GroupSize \in Nat
         /\ n % GroupSize \in Nat
         /\ PageTokens(n \div GroupSize) <= n
         /\ n < PageTokens(n \div GroupSize) + GroupSize
         /\ n = PageTokens(n \div GroupSize) + (n % GroupSize)
  BY ShapeAssumption, SMT DEF PageTokens

\* Whole pages plus a part of one determine the quotient and the remainder.
LEMMA PageDivUnique ==
  ASSUME NEW k \in Nat, NEW o \in Nat, o < GroupSize
  PROVE  /\ (PageTokens(k) + o) \div GroupSize = k
         /\ (PageTokens(k) + o) % GroupSize = o
  BY ShapeAssumption, SMT DEF PageTokens

\* The scheduler's ceil(n / block_size) blocks cover every page closed by n.
LEMMA CdivCovers ==
  ASSUME NEW p \in Nat, NEW n \in Nat, PageTokens(p) <= n
  PROVE  p <= Cdiv(n, GroupSize)
  BY ShapeAssumption, SMT DEF Cdiv, PageTokens

\* The residual window keeps at most ResidualTokens of n tokens.
LEMMA AgedFacts ==
  ASSUME NEW n \in Nat
  PROVE  /\ Aged(n) \in Nat
         /\ Aged(n) <= n
         /\ n < ResidualTokens => Aged(n) = 0 /\ Aged(n + 1) = 0
         /\ n >= ResidualTokens => /\ Aged(n) = n - ResidualTokens
                                   /\ Aged(n + 1) = Aged(n) + 1
  BY ShapeAssumption DEF Aged, PosPart
-----------------------------------------------------------------------------
\* A run is a sequence of tokens, one for each position between its ends.
LEMMA RunFacts ==
  ASSUME NEW e \in Nat, NEW a \in Nat, NEW b \in Nat, a <= b
  PROVE  /\ Run(e, a, b) \in Seq(Token)
         /\ Len(Run(e, a, b)) = b - a
         /\ \A i \in 1..(b - a) : Run(e, a, b)[i] = Tok(e, a + i)
  <1> DEFINE n == PosPart(b - a)
  <1>1. n \in Nat /\ n = b - a
    BY DEF PosPart
  <1>2. \A i \in 1..n : Tok(e, a + i) \in Token
    BY <1>1 DEF Tok, Token
  <1>3. Run(e, a, b) = [i \in 1..n |-> Tok(e, a + i)]
    BY DEF Run
  <1> HIDE DEF n
  <1>4. Run(e, a, b) \in Seq(Token)
    BY <1>1, <1>2, <1>3
  <1> QED
    BY <1>1, <1>2, <1>3, <1>4

\* The length of a run.
LEMMA RunLen ==
  ASSUME NEW e \in Nat, NEW a \in Nat, NEW b \in Nat, a <= b
  PROVE  Run(e, a, b) \in Seq(Token) /\ Len(Run(e, a, b)) = b - a
  BY RunFacts

\* A run is determined by its length and its tokens.
LEMMA RunEqual ==
  ASSUME NEW e \in Nat, NEW a \in Nat, NEW b \in Nat, a <= b,
         NEW s \in Seq(Token), Len(s) = b - a,
         \A i \in 1..(b - a) : s[i] = Tok(e, a + i)
  PROVE  s = Run(e, a, b)
  <1> DEFINE t == Run(e, a, b)
  <1>1. /\ t \in Seq(Token) /\ Len(t) = b - a
        /\ \A i \in 1..(b - a) : t[i] = Tok(e, a + i)
    BY RunFacts, ZenonT(60)
  <1> HIDE DEF t
  <1>2. Len(s) = Len(t) /\ \A i \in 1..Len(s) : s[i] = t[i]
    BY <1>1, Zenon
  <1>3. s = t
    BY <1>1, <1>2, SeqEqual
  <1> QED
    BY <1>3 DEF t

\* Sequence s has, position by position, the tokens of a run.
Spells(s, e, a, b) == \A i \in 1..(b - a) : s[i] = Tok(e, a + i)

\* A run spells itself.
LEMMA RunSpells ==
  ASSUME NEW e \in Nat, NEW a \in Nat, NEW b \in Nat, a <= b
  PROVE  Spells(Run(e, a, b), e, a, b)
  BY RunFacts, ZenonT(60) DEF Spells

\* A sequence of the right length that spells a run is that run.
LEMMA SpellsRun ==
  ASSUME NEW e \in Nat, NEW a \in Nat, NEW b \in Nat, a <= b,
         NEW s \in Seq(Token), Len(s) = b - a, Spells(s, e, a, b)
  PROVE  s = Run(e, a, b)
  BY RunEqual DEF Spells

\* The run that ends where it starts is empty.
LEMMA RunEmpty ==
  ASSUME NEW e \in Nat, NEW a \in Nat
  PROVE  Run(e, a, a) = <<>>
  <1>1. Run(e, a, a) \in Seq(Token) /\ Len(Run(e, a, a)) = a - a
    BY RunFacts
  <1> QED
    BY <1>1

\* Append under a name the provers keep as one symbol.
Push(s, x) == Append(s, x)

\* Pushing the next token extends a run.
LEMMA RunAppend ==
  ASSUME NEW e \in Nat, NEW a \in Nat, NEW b \in Nat, a <= b,
         NEW c \in Nat, c = b + 1
  PROVE  Push(Run(e, a, b), Tok(e, c)) = Run(e, a, c)
  <1> DEFINE s == Run(e, a, b)
             u == Append(s, Tok(e, b + 1))
  <1>1. /\ s \in Seq(Token) /\ Len(s) = b - a
        /\ \A i \in 1..(b - a) : s[i] = Tok(e, a + i)
    BY RunFacts, ZenonT(60)
  <1>2. Tok(e, b + 1) \in Token
    BY DEF Tok, Token
  <1> HIDE DEF s
  <1>3. u \in Seq(Token) /\ Len(u) = (b + 1) - a
    <2>1. u \in Seq(Token) /\ Len(u) = Len(s) + 1
      BY <1>1, <1>2, AppendProperties
    <2> QED
      BY <1>1, <2>1
  <1>4. ASSUME NEW i \in 1..((b + 1) - a)
        PROVE  u[i] = Tok(e, a + i)
    <2>1. CASE i <= b - a
      BY <2>1, <1>1, <1>2
    <2>2. CASE i = (b + 1) - a
      <3>1. a + i = b + 1
        BY <2>2
      <3>2. u[i] = Tok(e, b + 1)
        BY <2>2, <1>1, <1>2
      <3> QED
        BY <3>1, <3>2, Zenon
    <2>3. i <= b - a \/ i = (b + 1) - a
      OBVIOUS
    <2> HIDE DEF u
    <2> QED
      BY <2>1, <2>2, <2>3
  <1> HIDE DEF u
  <1>5. b + 1 \in Nat /\ a <= b + 1
    OBVIOUS
  <1>6. u = Run(e, a, b + 1)
    BY <1>3, <1>4, <1>5, RunEqual
  <1> QED
    BY <1>6 DEF s, u, Push

\* Popping the oldest token of a run.
LEMMA RunTail ==
  ASSUME NEW e \in Nat, NEW a \in Nat, NEW b \in Nat, a < b,
         NEW c \in Nat, c = a + 1
  PROVE  /\ Run(e, a, b)[1] = Tok(e, c)
         /\ Head(Run(e, a, b)) = Tok(e, c)
         /\ Tail(Run(e, a, b)) = Run(e, c, b)
  <1> DEFINE s == Run(e, a, b)
             u == Tail(s)
  <1>0. a <= b
    OBVIOUS
  <1>1. /\ s \in Seq(Token) /\ Len(s) = b - a
        /\ \A i \in 1..(b - a) : s[i] = Tok(e, a + i)
    BY <1>0, RunFacts, ZenonT(60)
  <1> HIDE DEF s
  <1>2. Head(s) = s[1] /\ s[1] = Tok(e, a + 1)
    BY <1>1
  <1>3. u \in Seq(Token) /\ Len(u) = b - (a + 1)
    BY <1>1
  <1>4. ASSUME NEW i \in 1..(b - (a + 1))
        PROVE  u[i] = Tok(e, (a + 1) + i)
    <2>1. u[i] = s[i + 1] /\ i + 1 \in 1..(b - a)
      BY <1>1
    <2>2. a + (i + 1) = (a + 1) + i
      OBVIOUS
    <2> QED
      BY <1>1, <2>1, <2>2
  <1> HIDE DEF u
  <1>5. a + 1 \in Nat /\ a + 1 <= b
    OBVIOUS
  <1>6. u = Run(e, a + 1, b)
    BY <1>3, <1>4, <1>5, RunEqual
  <1> QED
    BY <1>2, <1>6 DEF s, u

\* Concatenation under a name the provers keep as one symbol.
Cat(s, t) == s \o t

\* Two adjacent runs join into one.
LEMMA RunConcat ==
  ASSUME NEW e \in Nat, NEW a \in Nat, NEW b \in Nat, NEW c \in Nat,
         a <= b, b <= c
  PROVE  Cat(Run(e, a, b), Run(e, b, c)) = Run(e, a, c)
  <1> DEFINE s == Run(e, a, b)
             t == Run(e, b, c)
             u == s \o t
  <1>1. /\ s \in Seq(Token) /\ Len(s) = b - a
        /\ \A i \in 1..(b - a) : s[i] = Tok(e, a + i)
    BY RunFacts, ZenonT(60)
  <1>2. /\ t \in Seq(Token) /\ Len(t) = c - b
        /\ \A i \in 1..(c - b) : t[i] = Tok(e, b + i)
    BY RunFacts, ZenonT(60)
  <1> HIDE DEF s, t
  <1>a. s \in Seq(Token) /\ t \in Seq(Token)
    BY <1>1, <1>2, Zenon
  <1>b. Len(s) = b - a /\ Len(t) = c - b
    BY <1>1, <1>2, Zenon
  <1>c. u \in Seq(Token) /\ Len(u) = Len(s) + Len(t)
    BY <1>a, SMTT(30)
  <1>3. u \in Seq(Token) /\ Len(u) = c - a
    BY <1>b, <1>c, SMTT(30)
  <1>4. ASSUME NEW i \in 1..(c - a)
        PROVE  u[i] = Tok(e, a + i)
    <2>1. CASE i <= Len(s)
      <3>1. u[i] = s[i]
        BY <2>1, <1>1, <1>2
      <3> QED
        BY <3>1, <2>1, <1>1
    <2>2. CASE i > Len(s)
      <3>1. u[i] = t[i - Len(s)]
        BY <2>2, <1>1, <1>2, SMTT(30)
      <3>2. i - Len(s) \in 1..(c - b) /\ b + (i - Len(s)) = a + i
        BY <2>2, <1>1
      <3> QED
        BY <3>1, <3>2, <1>2, Zenon
    <2>3. i <= Len(s) \/ i > Len(s)
      BY <1>1
    <2> HIDE DEF u
    <2> QED
      BY <2>1, <2>2, <2>3
  <1> HIDE DEF u
  <1>5. a <= c
    OBVIOUS
  <1>6. u = Run(e, a, c)
    BY <1>3, <1>4, <1>5, RunEqual
  <1> QED
    BY <1>6 DEF s, t, u, Cat

\* A slice of a run is the run between the slice's ends.
LEMMA RunSub ==
  ASSUME NEW e \in Nat, NEW a \in Nat, NEW b \in Nat,
         NEW i \in Nat, NEW j \in Nat, i <= j, a + j <= b
  PROVE  Slice(Run(e, a, b), i, j) = Run(e, a + i, a + j)
  <1> DEFINE s == Run(e, a, b)
             u == SubSeq(s, i + 1, j)
  <1>0. a <= b
    OBVIOUS
  <1>1. /\ s \in Seq(Token) /\ Len(s) = b - a
        /\ \A k \in 1..(b - a) : s[k] = Tok(e, a + k)
    BY <1>0, RunFacts, ZenonT(60)
  <1> HIDE DEF s
  <1>2. u \in Seq(Token) /\ Len(u) = (a + j) - (a + i)
    BY <1>1
  <1>3. ASSUME NEW k \in 1..((a + j) - (a + i))
        PROVE  u[k] = Tok(e, (a + i) + k)
    <2>1. u[k] = s[i + k] /\ i + k \in 1..(b - a)
      BY <1>1
    <2>2. a + (i + k) = (a + i) + k
      OBVIOUS
    <2> QED
      BY <1>1, <2>1, <2>2
  <1> HIDE DEF u
  <1>4. a + i \in Nat /\ a + j \in Nat /\ a + i <= a + j
    OBVIOUS
  <1>5. u = Run(e, a + i, a + j)
    BY <1>2, <1>3, <1>4, RunEqual, Zenon
  <1> QED
    BY <1>5 DEF s, u, Slice
-----------------------------------------------------------------------------
\* Sequence s is the slice [a:b] of v.
Matches(s, v, a, b) == \A i \in 1..(b - a) : s[i] = v[a + i]

\* Joining two adjacent slices.
LEMMA CatMatches ==
  ASSUME NEW S, NEW x \in Seq(S), NEW y \in Seq(S), NEW v,
         NEW a \in Nat, NEW b \in Nat, a <= b, Len(x) = a, Len(y) = b - a,
         Matches(x, v, 0, a), Matches(y, v, a, b)
  PROVE  /\ Cat(x, y) \in Seq(S) /\ Len(Cat(x, y)) = b
         /\ Matches(Cat(x, y), v, 0, b)
  <1> DEFINE w == x \o y
  <1>1. w \in Seq(S) /\ Len(w) = b
    OBVIOUS
  <1>2. ASSUME NEW i \in 1..b
        PROVE  w[i] = v[i]
    <2>1. CASE i <= a
      <3>1. w[i] = x[i]
        BY <2>1
      <3>2. x[i] = v[0 + i]
        BY <2>1 DEF Matches
      <3> QED
        BY <3>1, <3>2
    <2>2. CASE a < i
      <3>1. w[i] = y[i - a]
        BY <2>2
      <3>2. i - a \in 1..(b - a) /\ a + (i - a) = i
        BY <2>2
      <3>3. y[i - a] = v[a + (i - a)]
        BY <3>2 DEF Matches
      <3> QED
        BY <3>1, <3>2, <3>3
    <2> HIDE DEF w
    <2> QED
      BY <2>1, <2>2
  <1> HIDE DEF w
  <1>3. Matches(w, v, 0, b)
    BY <1>2 DEF Matches
  <1> QED
    BY <1>1, <1>3 DEF w, Cat

\* Three adjacent slices that cover a sequence are the sequence.
LEMMA ThreeParts ==
  ASSUME NEW S, NEW x \in Seq(S), NEW y \in Seq(S), NEW z \in Seq(S),
         NEW a \in Nat, NEW b \in Nat, NEW n \in Nat, a <= b, b <= n,
         Len(x) = a, Len(y) = b - a, Len(z) = n - b,
         NEW v \in Seq(S), Len(v) = n,
         Matches(x, v, 0, a), Matches(y, v, a, b), Matches(z, v, b, n)
  PROVE  x \o y \o z = v
  <1> DEFINE w == Cat(x, y)
             u == Cat(w, z)
  <1>1. w \in Seq(S) /\ Len(w) = b /\ Matches(w, v, 0, b)
    BY CatMatches
  <1> HIDE DEF w
  <1>2. u \in Seq(S) /\ Len(u) = n /\ Matches(u, v, 0, n)
    BY <1>1, CatMatches
  <1> HIDE DEF u
  <1>3. \A i \in 1..Len(u) : u[i] = v[i]
    BY <1>2 DEF Matches
  <1>4. u = v
    BY <1>2, <1>3, SeqEqual
  <1> QED
    BY <1>4 DEF u, w, Cat
=============================================================================
