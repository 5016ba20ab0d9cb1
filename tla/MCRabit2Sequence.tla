--------------------------- MODULE MCRabit2Sequence ---------------------------
(* Instance of Rabit2Sequence for TLC: blocks are handed out in another      *)
(* order at each computation, and a later one reuses blocks of an earlier.   *)
EXTENDS Rabit2Sequence

MCPages == Cdiv(MaxTokens, GroupSize)
MCBlockIds ==
  [e \in 1..MaxEpochs |->
     [p \in 1..MCPages |-> IF e % 2 = 1 THEN p ELSE MCPages + 2 - p]]
=============================================================================
