---------------------------- MODULE MCGapRepair ----------------------------
(***************************************************************************)
(* Small instances of GapRepair: the bounds are numbers in the .cfg files. *)
(* Messages = 4 with pages of two lets a walk of several pages pass a gap. *)
(***************************************************************************)
EXTENDS GapRepair
=============================================================================
