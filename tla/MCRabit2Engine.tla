---------------------------- MODULE MCRabit2Engine ----------------------------
(* Instance of Rabit2Engine for TLC: two requests compete for three blocks,  *)
(* and each of them comes to need all three.                                 *)
EXTENDS Rabit2Engine

MCPrompts == {1, 3}
=============================================================================
