--------------------------- MODULE MCCardReplace ----------------------------
(***************************************************************************)
(* Two requests at a time, two links, a good sheet, one that is found      *)
(* unfit, and a broken file.                                               *)
(***************************************************************************)
EXTENDS CardReplace, TLC

Symmetry == Permutations(Requests) \cup Permutations(Links)
=============================================================================
