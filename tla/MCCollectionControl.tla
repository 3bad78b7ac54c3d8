------------------------ MODULE MCCollectionControl ------------------------
(***************************************************************************)
(* Small instances: the collector alone, and the collector with one        *)
(* administrator, whose requests follow each other without end.            *)
(***************************************************************************)
EXTENDS CollectionControl

NoAdmin == {}
OneAdmin == {"admin"}
=============================================================================
