----------------------------- MODULE MCUboGraph -----------------------------
(***************************************************************************)
(* UboGraph for TLC.  Persons are treated alike, and so are companies; the *)
(* runs check safety only, so a graph stands for its renamings.            *)
(***************************************************************************)
EXTENDS UboGraph, TLC

Alike == Permutations(Persons) \cup Permutations(Companies)
=============================================================================
