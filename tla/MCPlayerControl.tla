---------------------------- MODULE MCPlayerControl ----------------------------
(***************************************************************************)
(* PlayerControl with two interchangeable videos.                          *)
(***************************************************************************)
EXTENDS PlayerControl, TLC

Symmetry == Permutations(Videos)
=============================================================================
