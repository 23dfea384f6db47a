-------------------------- MODULE MCPartitionStream ------------------------
(***************************************************************************)
(* PartitionStream on a disk of five sectors of two bytes.  The first      *)
(* holds the partition table, the partition A lies behind it and before B, *)
(* and B ends where the disk ends.                                         *)
(***************************************************************************)
EXTENDS PartitionStream

MCPartition ==
    [l \in {"A", "B"} |-> IF l = "A" THEN [offsetBytes |-> 2, sizeBytes |-> 2]
                          ELSE [offsetBytes |-> 4, sizeBytes |-> 6]]

(* Ones, so that a byte that a write clears shows; writes lead to all      *)
(* other contents of the partitions.                                       *)
MCContents == {[a \in Address |-> 1]}
=============================================================================
