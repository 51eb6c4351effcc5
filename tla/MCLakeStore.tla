---------------------------- MODULE MCLakeStore ----------------------------
(* LakeStore on small instances: the values come from the cfg files.       *)
EXTENDS LakeStore
=============================================================================
