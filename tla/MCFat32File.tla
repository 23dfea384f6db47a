---------------------------- MODULE MCFat32File ----------------------------
(***************************************************************************)
(* Instances of Fat32File with clusters of one or two bytes.               *)
(***************************************************************************)
EXTENDS Fat32File

(* Every length up to three clusters.  The table does not depend on the    *)
(* bytes, so they are all alike.                                           *)
EveryLength == {[i \in 1 .. n |-> 0] : n \in 1 .. 6}

(* For clusters of one byte: a write may have to grow the chain twice, the *)
(* second time from where a full disk led the first.                       *)
Three == {<<0, 0, 0>>}

(* Less than a cluster, one cluster, two: the lengths that writeFatFile    *)
(* stores right from every position.                                       *)
WholeOrShort == {<<1>>, <<1, 2>>, <<2, 1, 1, 2>>}
=============================================================================
