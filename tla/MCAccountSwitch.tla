-------------------------- MODULE MCAccountSwitch --------------------------
(***************************************************************************)
(* Two accounts, two switches and two completions at a time, on a clock    *)
(* that lets the cooldown and the day of a failure pass.                   *)
(***************************************************************************)
EXTENDS AccountSwitch, TLC

Symmetry == Permutations(Switches) \cup Permutations(Calls)
=============================================================================
