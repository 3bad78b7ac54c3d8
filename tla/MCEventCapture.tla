--------------------------- MODULE MCEventCapture ---------------------------
(***************************************************************************)
(* Small instances of EventCapture: the bounds are numbers in the .cfg.    *)
(***************************************************************************)
EXTENDS EventCapture
=============================================================================
