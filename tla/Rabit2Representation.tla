------------------------- MODULE Rabit2Representation -------------------------
(***************************************************************************)
(* How a cached token reads back.  A key in a group was quantized with     *)
(* statistics taken over the whole group, so its reconstruction depends on *)
(* the token and on every other token of the group: re-encoding the same   *)
(* token in another group yields another value.  A residual token is BF16  *)
(* and reads back as itself.                                               *)
(***************************************************************************)
EXTENDS Integers, Sequences

\* Token i of request incarnation e; K and V of one position move together.
Tok(e, i) == <<e, i>>
Token == Nat \X Nat

\* Decoding a group encoded by quantize_k3_sequence_affine_ref / V2 / META8g64.
Quantized(group) ==
  [i \in 1..Len(group) |-> [tok |-> group[i], group |-> group]]

\* The newest tokens: exact BF16, no group statistics.
Exact(toks) == [i \in 1..Len(toks) |-> [tok |-> toks[i], group |-> <<>>]]

PosPart(n) == IF n > 0 THEN n ELSE 0

\* The slice s[i:j].
Slice(s, i, j) == SubSeq(s, i + 1, j)

\* Tokens a + 1 .. b of computation e, in order: the slice [a:b] of its stream.
Run(e, a, b) == [i \in 1..PosPart(b - a) |-> Tok(e, a + i)]
=============================================================================
