------------------------- MODULE Rabit2OnlineStateRef -------------------------
(***************************************************************************)
(* The reference state of one layer of one sequence: what every serving    *)
(* path promises.  Tokens enter the residual window one at a time; the     *)
(* oldest residual token ages into the open group; a full open group       *)
(* becomes the next closed page.                                           *)
(***************************************************************************)
EXTENDS Rabit2Representation

CONSTANTS
  GroupSize,       \* RABIT2_GROUP_SIZE, also the block size (32 in the code)
  ResidualTokens,  \* RABIT2_RESIDUAL_TOKENS (4 in the code)
  MaxAppend        \* bound: most tokens one append call brings

VARIABLES epoch, pages, open, recent

refVars == <<epoch, pages, open, recent>>

State == [pages |-> pages, open |-> open, recent |-> recent]

total_tokens(s) ==
  Len(s.pages) * GroupSize + Len(s.open) + Len(s.recent)

_append_open_old(s, old) ==
  LET grown == Append(s.open, old)
  IN  IF Len(grown) = GroupSize
      THEN [s EXCEPT !.pages = Append(@, grown), !.open = <<>>]
      ELSE [s EXCEPT !.open = grown]

\* One iteration of the loop in Rabit2OnlineStateRef.append.
AppendOne(s, tok) ==
  LET recent1 == Append(s.recent, tok)
  IN  IF Len(recent1) > ResidualTokens
      THEN _append_open_old([s EXCEPT !.recent = Tail(recent1)], Head(recent1))
      ELSE [s EXCEPT !.recent = recent1]

\* The loop: the next k tokens of the stream, one after another.
AppendMany(s, k) ==
  LET base == total_tokens(s)
      after[i \in 0..k] == IF i = 0 THEN s
                           ELSE AppendOne(after[i - 1], Tok(epoch, base + i))
  IN  after[k]

\* A fresh state object, for a new or restarted sequence.
Init == epoch = 1 /\ pages = <<>> /\ open = <<>> /\ recent = <<>>

append(k) ==
  LET s == AppendMany(State, k)
  IN  /\ pages' = s.pages
      /\ open' = s.open
      /\ recent' = s.recent
      /\ UNCHANGED epoch

Restart ==
  /\ epoch' = epoch + 1
  /\ pages' = <<>> /\ open' = <<>> /\ recent' = <<>>

Next == (\E k \in 1..MaxAppend : append(k)) \/ Restart

Spec == Init /\ [][Next]_refVars
=============================================================================
