---------------------------- MODULE MCKHeapPage ----------------------------
(***************************************************************************)
(* KHeapPage on small heaps.  WORD is 2^30: a size within a page of WORD   *)
(* rounds up to WORD and wraps to 0, as it does at 2^64.                   *)
(***************************************************************************)
EXTENDS KHeapPage, TLC

(* A byte, exactly two pages, a byte more than that, and more than a heap  *)
(* of four pages has.                                                      *)
MCSizes == {1, 8192, 8193, 20480}

MCWord == 1073741824

MCSymmetry == Permutations(Callers)
=============================================================================
