--------------------------- MODULE RollingWindow ---------------------------
(***************************************************************************)
(* What the shared budget promises, whatever tables, processes and clocks  *)
(* it is built from: requests are granted one at a time, each with a time  *)
(* of its own, no sooner than Interval after every earlier one, and never  *)
(* more than Limit in a rolling Window.                                    *)
(***************************************************************************)
EXTENDS Integers, FiniteSets

CONSTANTS Interval, Window, Limit

VARIABLE granted   (* the times of the requests granted so far             *)

(* Requests made before the budget existed may be any.                     *)
Init == granted \subseteq Int /\ IsFiniteSet(granted)

Grant(t) ==
  /\ \A u \in granted : u + Interval <= t
  /\ Cardinality({u \in granted : u >= t - Window}) < Limit
  /\ granted' = granted \cup {t}

Next == \E t \in granted' \ granted : Grant(t)

Spec == Init /\ [][Next]_granted
=============================================================================
