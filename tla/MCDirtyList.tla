------------------------------ MODULE MCDirtyList ------------------------------
(* DirtyList.tla with three transactions and up to three segments.          *)
EXTENDS DirtyList
==============================================================================
