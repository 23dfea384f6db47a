--------------------------- MODULE PartitionStream -------------------------
(***************************************************************************)
(* disk/partitionStream.c over disk/stream.c: streams whose positions are  *)
(* relative to a partition.  Each keeps a position of its own beside that  *)
(* of the disk stream underneath, and the two have to agree for reads and  *)
(* writes to reach the bytes the caller means.                             *)
(***************************************************************************)
EXTENDS DiskStream

CONSTANTS
    Partition,      \* Partition[l]: offsetBytes and sizeBytes of the one
                    \* with label l, as disk.c found it.
    Contents,       \* What the disk may hold at first.
    Lengths         \* Lengths of reads and writes; length 0 is left out.

Labels == DOMAIN Partition

(* The addresses of a partition on the disk.                               *)
PartitionBytes(l) ==
    Partition[l].offsetBytes ..
        (Partition[l].offsetBytes + Partition[l].sizeBytes - 1)

ASSUME PartitionAssumption ==
    /\ Labels # {}
    /\ \A l \in Labels : /\ Partition[l].offsetBytes \in Nat
                         /\ Partition[l].sizeBytes \in Nat \ {0}
                         /\ PartitionBytes(l) \subseteq Address
    /\ \A l, m \in Labels :
          l # m => PartitionBytes(l) \cap PartitionBytes(m) = {}
    /\ Contents \subseteq [Address -> Byte]
    /\ Lengths \subseteq Nat \ {0}

VARIABLES
    volume,         \* volume[st]: the label whose offset and size st keeps.
    partPosition,   \* partPosition[st]: the partition stream's own position.
    reply           \* The last call: its kind, return value, bytes read.

vars == <<disk, position, volume, partPosition, reply>>

volumeOffset(st) == Partition[volume[st]].offsetBytes
volumeSize(st)   == Partition[volume[st]].sizeBytes

Said(op, ret, data) == reply' = [op |-> op, ret |-> ret, data |-> data]

Init ==
    /\ disk \in Contents
    /\ position = [st \in Streams |-> Closed]
    /\ \E l \in Labels : volume = [st \in Streams |-> l]
    /\ partPosition = [st \in Streams |-> Closed]
    /\ reply = [op |-> "none", ret |-> 0, data |-> <<>>]

(* All callers pass position 0.  kzalloc may have no room for the          *)
(* partition stream; the disk stream made before it is then lost.  (No     *)
(* room for the disk stream itself is not handled by diskStreamCreate.)    *)
partitionStreamCreate(st, l) ==
    /\ partPosition[st] = Closed
    /\ \/ /\ position' = [position EXCEPT ![st] = Partition[l].offsetBytes + 0]
          /\ volume' = [volume EXCEPT ![st] = l]
          /\ partPosition' = [partPosition EXCEPT ![st] = 0]
          /\ Said("create", 0, <<>>)
       \/ /\ Said("create", -ENMEM, <<>>)
          /\ UNCHANGED <<position, volume, partPosition>>
    /\ UNCHANGED disk

(* Mutant of partitionStreamSeek: the partition's offset is forgotten.     *)
partitionStreamSeek_NoOffset(st, pos) ==
    /\ partPosition[st] # Closed
    /\ IF pos < volumeSize(st)
       THEN /\ \E ret \in Results : diskStreamSeek(st, pos, ret)
            /\ partPosition' = [partPosition EXCEPT ![st] = pos]
            /\ Said("seek", 0, <<>>)
       ELSE /\ Said("seek", -EDISKSPACE, <<>>)
            /\ UNCHANGED <<position, partPosition>>
    /\ UNCHANGED <<disk, volume>>

(* The result of diskStreamSeek is not looked at.                          *)
partitionStreamSeek(st, pos) ==
    /\ partPosition[st] # Closed
    /\ IF pos < volumeSize(st)
       THEN /\ \E ret \in Results :
                  diskStreamSeek(st, volumeOffset(st) + pos, ret)
            /\ partPosition' = [partPosition EXCEPT ![st] = pos]
            /\ Said("seek", 0, <<>>)
       ELSE /\ Said("seek", -EDISKSPACE, <<>>)
            /\ UNCHANGED <<position, partPosition>>
    /\ UNCHANGED <<disk, volume>>

TooLong(st, length) == partPosition[st] + length > volumeSize(st)

(* Mutant of Advance: the position moves on although the transfer failed.  *)
Advance_Always(st, length, ret) ==
    partPosition' = [partPosition EXCEPT ![st] = @ + length]

Advance(st, length, ret) ==
    partPosition' = IF ret = 0 THEN [partPosition EXCEPT ![st] = @ + length]
                               ELSE partPosition

partitionStreamRead(st, length) ==
    /\ partPosition[st] # Closed
    /\ IF TooLong(st, length)
       THEN /\ Said("read", -EDISKSPACE, <<>>)
            /\ UNCHANGED <<disk, position, partPosition>>
       ELSE \E ret \in Results :
               /\ diskStreamRead(st, length, ret)
               /\ Advance(st, length, ret)
               /\ Said("read", ret, IF ret = 0 THEN ReadBytes(st, length)
                                               ELSE <<>>)
    /\ UNCHANGED volume

partitionStreamWrite(st, in, length) ==
    /\ partPosition[st] # Closed
    /\ IF TooLong(st, length)
       THEN /\ Said("write", -EDISKSPACE, <<>>)
            /\ UNCHANGED <<disk, position, partPosition>>
       ELSE \E ret \in Results :
               /\ diskStreamWrite(st, in, length, ret)
               /\ Advance(st, length, ret)
               /\ Said("write", ret, <<>>)
    /\ UNCHANGED volume

partitionStreamDestroy(st) ==
    /\ partPosition[st] # Closed
    /\ position' = [position EXCEPT ![st] = Closed]
    /\ partPosition' = [partPosition EXCEPT ![st] = Closed]
    /\ Said("destroy", 0, <<>>)
    /\ UNCHANGED <<disk, volume>>

Next ==
    \E st \in Streams :
       \/ \E l \in Labels : partitionStreamCreate(st, l)
       \/ \E pos \in 0 .. volumeSize(st) : partitionStreamSeek(st, pos)
       \/ \E length \in Lengths :
             \/ partitionStreamRead(st, length)
             \/ \E in \in [1 .. length -> Byte] :
                   partitionStreamWrite(st, in, length)
       \/ partitionStreamDestroy(st)

Spec == Init /\ [][Next]_vars
-----------------------------------------------------------------------------
(* Types; a stream's disk position never leaves the disk.                  *)
TypeOK ==
    /\ disk \in [Address -> Byte]
    /\ position \in [Streams -> {Closed} \cup 0 .. sizeBytes]
    /\ volume \in [Streams -> Labels]
    /\ partPosition \in [Streams -> {Closed} \cup Nat]
    /\ \A st \in Streams : partPosition[st] <= volumeSize(st)
    /\ reply.ret \in Results
    /\ DOMAIN reply.data \in {1 .. n : n \in Lengths \cup {0}}

(* The two positions of a stream agree, except once the disk stream stands *)
(* at the very end of the disk: there diskStreamSeek refuses to move and   *)
(* partitionStreamSeek does not notice.                                    *)
InSyncOrAtEnd ==
    \A st \in Streams :
        IF partPosition[st] = Closed THEN position[st] = Closed
        ELSE \/ position[st] = volumeOffset(st) + partPosition[st]
             \/ position[st] = sizeBytes

(* Positions are inside their partition and drift apart in no other case   *)
(* (partitionStream.c, stream.c).                                          *)
StreamInv == TypeOK /\ InSyncOrAtEnd

(* No call changes bytes of two partitions, or outside of all of them,     *)
(* though sectors are read and written whole.                              *)
NeighboursUntouched ==
    [][\E l \in Labels : \A a \in Address \ PartitionBytes(l) :
          disk'[a] = disk[a]]_vars

TheVolume == INSTANCE Volume WITH
    Size  <- [l \in Labels |-> Partition[l].sizeBytes],
    vol   <- [l \in Labels |-> [i \in 0 .. (Partition[l].sizeBytes - 1) |->
                                  disk[Partition[l].offsetBytes + i]]],
    on    <- volume,
    cur   <- partPosition,
    reply <- [op |-> reply.op, ok |-> reply.ret = 0, data |-> reply.data]

(* Through their streams the partitions behave as arrays of bytes: a call  *)
(* that reports success acted on exactly the bytes at the partition        *)
(* position, even when the positions disagree.                             *)
ImplementsVolume == TheVolume!VolumeSpec
=============================================================================
