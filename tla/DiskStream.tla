----------------------------- MODULE DiskStream ----------------------------
(***************************************************************************)
(* disk/stream.c: byte-addressed streams over a disk that only transfers   *)
(* whole sectors.  A write that does not fill its first or last sector     *)
(* reads that sector first and writes it back with the new bytes in place. *)
(*                                                                         *)
(* The operations are written as relations between the state before, the   *)
(* state after and the return value, for PartitionStream to call.          *)
(***************************************************************************)
EXTENDS Integers

CONSTANTS
    SECTOR,         \* Bytes in a sector, 512 in the code.
    DiskSectors,    \* Sectors on the disk.
    Byte,           \* The values of a byte; 0 is one of them.
    Streams         \* The streams the kernel may have open.

ASSUME DiskAssumption ==
    /\ SECTOR \in Nat \ {0}
    /\ DiskSectors \in Nat \ {0}
    /\ 0 \in Byte

VARIABLES
    disk,           \* disk[a]: the byte at address a of the disk.
    position        \* position[st]: stream->position; Closed if st is not open.

ENMEM      == 1     \* Error codes of status.h
EIO        == 2
EDISKSPACE == 12
Results    == {0, -ENMEM, -EIO, -EDISKSPACE}

Closed    == -1
sizeBytes == SECTOR * DiskSectors
Address   == 0 .. (sizeBytes - 1)

(* checkDiskStream, but for the NULL test: streams here are not NULL.      *)
checkDiskStream(st) == IF position[st] >= sizeBytes THEN -ENMEM ELSE 0

(* The driver's transfer of total sectors from lba on (external: disk->    *)
(* driver->read and ->write).  A read fills the buffer or fails; a write   *)
(* that fails may have reached the disk with its first sectors, as ATA PIO *)
(* does sector by sector.                                                  *)
SectorBytes(lba, total) == (lba * SECTOR) .. ((lba + total) * SECTOR - 1)

driverRead(ret) == ret \in {0, -EIO}

driverWrite(lba, total, buffer, ret) ==
    \E done \in 0 .. total :
        /\ ret = IF done = total THEN 0 ELSE -EIO
        /\ disk' = [a \in Address |->
                      IF a \in SectorBytes(lba, done) THEN buffer[a] ELSE disk[a]]
-----------------------------------------------------------------------------
(* The sectors a transfer of length bytes at the stream's position covers. *)
currLba(st)    == position[st] \div SECTOR
currLbaPos(st) == position[st] % SECTOR

totalLba(st, length) ==
    ((currLbaPos(st) + length) \div SECTOR) +
        (IF (currLbaPos(st) + length) % SECTOR > 0 THEN 1 ELSE 0)

diskStreamSeek(st, pos, ret) ==
    \/ /\ checkDiskStream(st) # 0
       /\ ret = checkDiskStream(st)
       /\ UNCHANGED position
    \/ /\ checkDiskStream(st) = 0
       /\ pos > sizeBytes * 512
       /\ ret = -EDISKSPACE
       /\ UNCHANGED position
    \/ /\ checkDiskStream(st) = 0
       /\ pos <= sizeBytes * 512
       /\ ret = 0
       /\ position' = [position EXCEPT ![st] = pos]

(* The transfer ends on the disk.                                          *)
Fits(st, length) ==
    checkDiskStream(st) = 0 /\ position[st] + length <= sizeBytes

(* -ENMEM has three causes: the stream is at the end of the disk, the      *)
(* transfer does not fit, or kzalloc has no room for the sector buffer,    *)
(* which may be so at any call.                                            *)
NoMemory(ret) ==
    /\ ret = -ENMEM
    /\ UNCHANGED <<disk, position>>

(* What a successful diskStreamRead copies to its caller out of the        *)
(* sectors it read.                                                        *)
ReadBytes(st, length) ==
    LET buffer == [a \in SectorBytes(currLba(st), totalLba(st, length))
                     |-> disk[a]]
    IN  [k \in 1 .. length |->
            buffer[currLba(st) * SECTOR + currLbaPos(st) + k - 1]]

diskStreamRead(st, length, ret) ==
    \/ NoMemory(ret)
    \/ /\ Fits(st, length)
       /\ driverRead(ret)
       /\ position' = IF ret = 0 THEN [position EXCEPT ![st] = @ + length]
                                 ELSE position
       /\ UNCHANGED disk

(* Mutant of WriteBuffer: the rest of the last sector is not kept.         *)
WriteBuffer_NoTail(st, in, length) ==
    LET start == currLba(st) * SECTOR
    IN  [a \in SectorBytes(currLba(st), totalLba(st, length)) |->
            IF a - start \in currLbaPos(st) .. (currLbaPos(st) + length - 1)
            THEN in[a - start - currLbaPos(st) + 1]
            ELSE IF currLbaPos(st) > 0 /\ a < start + currLbaPos(st) THEN disk[a]
            ELSE 0]

(* The buffer diskStreamWrite hands to the driver.  It starts zeroed; the  *)
(* first sector is read into it if the write starts inside that sector,    *)
(* then the caller's bytes are copied in, then what the last sector held   *)
(* behind them is copied back.                                             *)
WriteBuffer(st, in, length) ==
    LET start   == currLba(st) * SECTOR
        end     == currLbaPos(st) + length
        last    == currLba(st) + totalLba(st, length) - 1
        Head(a) == currLbaPos(st) > 0 /\ a \in SectorBytes(currLba(st), 1)
        Data(a) == a - start \in currLbaPos(st) .. (end - 1)
        Tail(a) == /\ end % SECTOR # 0
                   /\ a \in SectorBytes(last, 1)
                   /\ a % SECTOR >= end % SECTOR
    IN  [a \in SectorBytes(currLba(st), totalLba(st, length)) |->
            IF Tail(a) THEN disk[a]
            ELSE IF Data(a) THEN in[a - start - currLbaPos(st) + 1]
            ELSE IF Head(a) THEN disk[a]
            ELSE 0]

(* Both partly overwritten sectors are read before anything is written.    *)
diskStreamWrite(st, in, length, ret) ==
    \/ NoMemory(ret)
    \/ /\ Fits(st, length)
       /\ currLbaPos(st) > 0 \/ (currLbaPos(st) + length) % SECTOR # 0
       /\ driverRead(ret) /\ ret # 0
       /\ UNCHANGED <<disk, position>>
    \/ /\ Fits(st, length)
       /\ driverWrite(currLba(st), totalLba(st, length),
                      WriteBuffer(st, in, length), ret)
       /\ position' = IF ret = 0 THEN [position EXCEPT ![st] = @ + length]
                                 ELSE position
=============================================================================
