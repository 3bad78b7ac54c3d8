-------------------------- MODULE MCHistoryBudget --------------------------
(* Small instances of HistoryBudget for TLC.                               *)
EXTENDS HistoryBudget

(* Every refresh asks for the same group.                                  *)
SameGroup == [r \in Refreshers |-> "g1"]

(* Requests made before the budget existed, some of them inside the first  *)
(* window and more of them than the limit.                                 *)
MCLegacy == {-3, -2, -1}
=============================================================================
