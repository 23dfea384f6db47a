---------------------------- MODULE MCBuddyHeap ----------------------------
(***************************************************************************)
(* Two biggest blocks, four levels.  The smallest blocks are two units, so *)
(* that a request may also round to less than a block.                     *)
(***************************************************************************)
EXTENDS BuddyHeap

MCBlockSize  == [l \in 0 .. 3 |-> 2^(4 - l)]
MCMaxEntries == [l \in 0 .. 3 |-> 2^(l + 1)]
=============================================================================
