------------------------------- MODULE MCVfsl -------------------------------
(***************************************************************************)
(* Process above Vfsl: two paths that share a bucket and one that has its  *)
(* own, every mode string of up to two characters.                         *)
(***************************************************************************)
EXTENDS Process, SequencesExt, TLC

CONSTANTS p1, p2, p3

AllModes == SeqOf({"r", "w", "a", "b"}, 2)

Collide  == (p1 :> 1) @@ (p2 :> 1) @@ (p3 :> 2)
=============================================================================
