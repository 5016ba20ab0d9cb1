----------------------------- MODULE MCRabit2Page -----------------------------
(* Layers and tensors for Rabit2Page: affine patterns modulo a small number, with
   a drift that sets the metadata groups apart. *)
EXTENDS Rabit2Page

\* Accepted by the kernels: one metadata group for K and V, from two heads or from
\* a longer row, and two of each.  Encoded by the reference writer only: two token
\* groups, rows that are not whole groups of eight codes (both with padded V rows).
\* Refused: less than one metadata group.
MCShapes == {<<8, 2, 8>>, <<8, 1, 16>>, <<8, 2, 16>>, <<16, 2, 4>>, <<8, 4, 4>>, <<8, 1, 8>>}

\* <<token step, head step, dim step, modulus, stretch, drift>>: a constant tensor,
\* one whose coordinates fall on ties, two whose metadata groups differ.
MCSeeds == {<<0, 0, 0, 1, 1, 0>>, <<3, 1, 5, 7, 1, 0>>, <<1, 3, 2, 5, 1, 1>>, <<2, 7, 3, 11, 3, 2>>}

MCElement(s, t, h, d) ==
  ((s[1] * t * t + s[2] * h + s[3] * d) % s[4]) * s[5] + s[6] * (t + 2 * h + d)
===============================================================================
