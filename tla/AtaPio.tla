------------------------------- MODULE AtaPio -------------------------------
(***************************************************************************)
(* The driver of disk/driver/ataPio.c and a drive as its environment.      *)
(*                                                                         *)
(* A call writes the registers of a command, then polls the status for     *)
(* every sector and moves the sector's words itself.  The drive works on   *)
(* its own: it may fail any sector, and then shows ERR with or without     *)
(* DRQ.  A command that is written while the drive is busy is ignored; one *)
(* that is written while it is not ends whatever was left of the last.     *)
(*                                                                         *)
(* Sector s holds s at first and s + ATA_SECTORS once a caller has written *)
(* it, so that a sector in the wrong place can be told from the right one. *)
(***************************************************************************)
EXTENDS Integers, Sequences

CONSTANTS
    ATA_SECTORS,    \* Sectors of the drive.
    ATA_COUNT,      \* One more than the sector count register can hold.
    ATA_LBA,        \* Sectors the four address registers can tell apart.
    ATA_REQUESTS    \* The transfers callers ask for, as <<lba, total>>.

ASSUME AtaAssumption ==
    /\ ATA_SECTORS \in Nat \ {0} /\ ATA_COUNT \in Nat \ {0} /\ ATA_LBA \in Nat \ {0}
    /\ \A r \in ATA_REQUESTS : r[1] \in Nat /\ r[2] \in Nat \ {0} /\ r[1] + r[2] <= ATA_SECTORS

VARIABLES
    ataPc,      \* Where the call stands; "idle" between calls.
    ataReq,     \* Its operation, lba and total.
    ataB,       \* Sectors it has moved (b).
    ataBuf,     \* What it has put into the caller's buffer.
    ataAnswer,  \* "none" while it runs, then "ok" or "EHARDWARE".
    status,     \* The drive's status register, a subset of BSY, DRQ, ERR.
    ataCmd,     \* The command the drive works on: operation, sector, sectors left.
    ataLatch,   \* The sector the drive has taken from the host, or -1.
    ataDisk     \* The contents of the sectors.

ataHost   == <<ataPc, ataReq, ataB, ataBuf, ataAnswer>>
ataDevice == <<status, ataCmd, ataLatch, ataDisk>>
ataVars   == <<ataPc, ataReq, ataB, ataBuf, ataAnswer, status, ataCmd, ataLatch, ataDisk>>

ATA_NO_REQ == [op |-> "none", lba |-> 0, total |-> 0]
ATA_NO_CMD == [op |-> "none", lba |-> 0, left |-> 0]

AtaInit ==
    /\ ataPc = "idle" /\ ataReq = ATA_NO_REQ /\ ataB = 0 /\ ataBuf = << >>
    /\ ataAnswer = "none"
    /\ status = {} /\ ataCmd = ATA_NO_CMD /\ ataLatch = -1
    /\ ataDisk = [s \in 0 .. (ATA_SECTORS - 1) |-> s]

(* What the caller of a write wants in sector s.                           *)
AtaNew(s) == s + ATA_SECTORS
-----------------------------------------------------------------------------
(* A command reaches the drive.                                            *)
AtaCommand(op, lba, left) ==
    IF "BSY" \in status THEN UNCHANGED ataDevice
    ELSE /\ status' = {"BSY"}
         /\ ataCmd' = [op |-> op, lba |-> lba, left |-> left]
         /\ ataLatch' = -1
         /\ UNCHANGED ataDisk

AtaRequest(op, r) ==
    /\ ataPc = "idle"
    /\ ataPc' = "bsy"
    /\ ataReq' = [op |-> op, lba |-> r[1], total |-> r[2]]
    /\ UNCHANGED <<ataB, ataBuf, ataAnswer, ataDevice>>

(* ataPioIdentify does not wait before it writes its command.              *)
ataPioIdentify ==
    /\ ataPc = "idle"
    /\ ataPc' = "idBsy"
    /\ ataReq' = [op |-> "identify", lba |-> 0, total |-> 1]
    /\ AtaCommand("identify", 0, 1)
    /\ UNCHANGED <<ataB, ataBuf, ataAnswer>>

ataPioWaitBsy ==
    /\ ataPc = "idBsy" /\ "BSY" \notin status
    /\ ataPc' = "drq"
    /\ UNCHANGED <<ataReq, ataB, ataBuf, ataAnswer, ataDevice>>

(* Mutant: the count register is written with one sector too few.          *)
MutCountRegister(total) == total - 1

(* What the drive makes of the sector count register: 0 means all of them. *)
CountRegister(total) == IF total % ATA_COUNT = 0 THEN ATA_COUNT ELSE total % ATA_COUNT

(* ataPioWaitBsy, then the registers and the command.                      *)
AtaIssue ==
    /\ ataPc = "bsy" /\ "BSY" \notin status
    /\ AtaCommand(ataReq.op, ataReq.lba % ATA_LBA, CountRegister(ataReq.total))
    /\ ataPc' = "drq"
    /\ UNCHANGED <<ataReq, ataB, ataBuf, ataAnswer>>

AtaAnswer(a) == ataPc' = "done" /\ ataAnswer' = a

(* Mutant: nobody looks at ERR.                                            *)
MutCheckStatusError == FALSE

CheckStatusError == "ERR" \in status

AtaFail ==
    /\ ataPc = "drq" /\ "DRQ" \in status /\ ataReq.op # "identify"
    /\ CheckStatusError
    /\ AtaAnswer("EHARDWARE")
    /\ UNCHANGED <<ataReq, ataB, ataBuf, ataDevice>>

AtaMoved ==
    /\ ataB' = ataB + 1
    /\ IF ataB + 1 < ataReq.total THEN ataPc' = "drq" /\ UNCHANGED ataAnswer
       ELSE IF ataReq.op = "write" THEN ataPc' = "flush" /\ UNCHANGED ataAnswer
       ELSE AtaAnswer("ok")

(* 256 words from the drive; the drive goes on to the next sector.         *)
AtaRead ==
    /\ ataPc = "drq" /\ "DRQ" \in status /\ ataReq.op \in {"read", "identify"}
    /\ ataReq.op = "read" => ~ CheckStatusError
    /\ ataBuf' = Append(ataBuf, IF ataCmd.left = 0 THEN -1 ELSE ataDisk[ataCmd.lba])
    /\ ataCmd' = [ataCmd EXCEPT !.lba = @ + 1, !.left = @ - 1]
    /\ status' = IF ataCmd.left > 1 THEN {"BSY"} ELSE {}
    /\ AtaMoved
    /\ UNCHANGED <<ataReq, ataLatch, ataDisk>>

(* 256 words to the drive, which begins to write them.                     *)
AtaWrite ==
    /\ ataPc = "drq" /\ "DRQ" \in status /\ ataReq.op = "write"
    /\ ~ CheckStatusError
    /\ ataLatch' = AtaNew(ataReq.lba + ataB)
    /\ status' = {"BSY"}
    /\ AtaMoved
    /\ UNCHANGED <<ataReq, ataBuf, ataCmd, ataDisk>>

cacheFlush ==
    /\ ataPc = "flush"
    /\ AtaCommand("flush", 0, 0)
    /\ ataPc' = "flushed"
    /\ UNCHANGED <<ataReq, ataB, ataBuf, ataAnswer>>

(* Mutant: the call does not wait for the end of the flush.                *)
MutAtaFlushed ==
    /\ ataPc = "flushed"
    /\ AtaAnswer("ok")
    /\ UNCHANGED <<ataReq, ataB, ataBuf, ataDevice>>

(* The drive's last state is not looked at.                                *)
AtaFlushed ==
    /\ ataPc = "flushed" /\ "BSY" \notin status
    /\ AtaAnswer("ok")
    /\ UNCHANGED <<ataReq, ataB, ataBuf, ataDevice>>

AtaReturn ==
    /\ ataPc = "done"
    /\ ataPc' = "idle" /\ ataReq' = ATA_NO_REQ /\ ataB' = 0 /\ ataBuf' = << >>
    /\ ataAnswer' = "none"
    /\ UNCHANGED ataDevice
-----------------------------------------------------------------------------
(* The drive.  It stores a sector it was given before it asks for another. *)
DriveWorks ==
    LET stored == ataLatch # -1
        left   == ataCmd.left - (IF stored THEN 1 ELSE 0)
    IN  /\ "BSY" \in status
        /\ status' = IF ataCmd.op = "flush" \/ left = 0 THEN {} ELSE {"DRQ"}
        /\ ataDisk' = IF stored THEN [ataDisk EXCEPT ![ataCmd.lba] = ataLatch] ELSE ataDisk
        /\ ataCmd' = IF stored THEN [ataCmd EXCEPT !.lba = @ + 1, !.left = left] ELSE ataCmd
        /\ ataLatch' = -1

DriveFails(drq) ==
    /\ "BSY" \in status
    /\ status' = {"ERR"} \cup drq
    /\ ataCmd' = [ataCmd EXCEPT !.left = 0]
    /\ ataLatch' = -1
    /\ UNCHANGED ataDisk

AtaDrive ==
    /\ \/ DriveWorks
       \/ DriveFails({})
       \/ DriveFails({"DRQ"})
    /\ UNCHANGED ataHost

AtaHostStep ==
    \/ ataPioWaitBsy \/ AtaIssue \/ AtaFail \/ AtaRead \/ AtaWrite
    \/ cacheFlush \/ AtaFlushed \/ AtaReturn
-----------------------------------------------------------------------------
AtaTypeOK ==
    /\ ataPc \in {"idle", "bsy", "idBsy", "drq", "flush", "flushed", "done"}
    /\ ataReq \in [op : {"none", "read", "write", "identify"}, lba : Nat, total : Nat]
    /\ ataReq.lba + ataReq.total <= ATA_SECTORS
    /\ ataB \in 0 .. ataReq.total
    /\ ataBuf \in Seq(Int) /\ Len(ataBuf) <= ataB
    /\ ataAnswer \in {"none", "ok", "EHARDWARE"}
    /\ status \in {{}, {"BSY"}, {"DRQ"}, {"ERR"}, {"ERR", "DRQ"}}
    /\ ataCmd \in [op : {"none", "read", "write", "identify", "flush"}, lba : Nat, left : Int]
    /\ ataDisk \in [0 .. (ATA_SECTORS - 1) -> 0 .. (2 * ATA_SECTORS - 1)]

(* Sectors of the call that have left the drive, or arrived on it: what it *)
(* has taken and not stored does not count.                                *)
AtaStored == ataB - (IF ataLatch = -1 THEN 0 ELSE 1)

(* The sector the drive is told to begin with.                             *)
AtaFirst == ataReq.lba % ATA_LBA

(* What is known of a call at each point of it; between calls the drive is *)
(* quiet.                                                                  *)
AtaCallOK ==
    /\ ataPc \in {"idle", "bsy", "done"} => "BSY" \notin status
    /\ ataPc # "done" => ataAnswer = "none"
    /\ ataPc \in {"idle", "bsy", "idBsy"} => ataB = 0
    /\ ataPc = "idle" => ataReq = ATA_NO_REQ
    /\ ataPc = "bsy" => ataReq.op \in {"read", "write"} /\ ataReq.total > 0
    /\ ataPc = "idBsy" => ataReq.op = "identify"
    /\ ataPc = "drq" => ataB < ataReq.total /\ ataReq.op # "none"
    /\ ataPc \in {"flush", "flushed"} => ataB = ataReq.total /\ ataB > 0 /\ ataReq.op = "write"
    /\ ataReq.op = "identify" => ataReq.total = 1 /\ ataCmd.left <= 1
    /\ ataReq.op = "identify" /\ ataPc # "done" => ataCmd.lba = 0

(* A sector the drive has taken is the last one it was given, and goes to  *)
(* its place.                                                              *)
AtaLatchOK ==
    ataLatch # -1 =>
        /\ status = {"BSY"} /\ ataReq.op = "write" /\ ataB > 0
        /\ ataPc \in {"drq", "flush", "flushed"}
        /\ ataLatch = AtaNew(ataReq.lba + ataB - 1)
        /\ ataCmd.lba = AtaFirst + AtaStored

(* Without an error the drive has got as far as the call.                  *)
AtaDriveOK ==
    ataPc = "drq" /\ "ERR" \notin status /\ ataReq.op # "identify" =>
        /\ ataCmd.lba = AtaFirst + AtaStored
        /\ ataCmd.left = CountRegister(ataReq.total) - AtaStored
        /\ status # {} => ataCmd.left > 0

(* What has been read so far is what the drive holds,                      *)
AtaReadRight ==
    ataReq.op = "read" =>
        /\ Len(ataBuf) = ataB
        /\ \A b \in 0 .. (ataB - 1) : ataBuf[b + 1] = ataDisk[AtaFirst + b]
        /\ ataAnswer = "ok" => ataB = ataReq.total

(* and what has been written is on it, but for the last sector.            *)
AtaWriteRight ==
    ataReq.op = "write" =>
        /\ ataPc = "drq" /\ "ERR" \notin status =>
              \A b \in 0 .. (AtaStored - 1) : ataDisk[AtaFirst + b] = AtaNew(ataReq.lba + b)
        /\ ataPc \in {"flush", "flushed"} \/ ataAnswer = "ok" =>
              \A b \in 0 .. (ataReq.total - 2) : ataDisk[AtaFirst + b] = AtaNew(ataReq.lba + b)

(* Call and drive are at the same place.                                   *)
AtaInStep ==
    AtaCallOK /\ AtaLatchOK /\ AtaDriveOK /\ AtaReadRight /\ AtaWriteRight

(* A read that answers 0 has put the sectors it was asked for into the     *)
(* buffer, in order; a write that answers 0 has them on the drive, but     *)
(* for the last one: its error is reported after the last look at ERR.     *)
(* Sectors beyond the address registers are somebody else's.               *)
AtaOkMeansDone ==
    ataAnswer = "ok" /\ ataReq.lba < ATA_LBA =>
        \A b \in 0 .. (ataReq.total - 1) :
            /\ ataReq.op = "read" => ataBuf[b + 1] = ataDisk[ataReq.lba + b]
            /\ ataReq.op = "write" /\ b < ataReq.total - 1 =>
                  ataDisk[ataReq.lba + b] = AtaNew(ataReq.lba + b)

(* What ataPioRead and ataPioWrite answer is what the drive has done.      *)
AtaInv == AtaTypeOK /\ AtaInStep /\ AtaOkMeansDone

(* When a write answers, the drive has finished with it: the sectors do    *)
(* not change behind the next caller's back, after an error either.        *)
AtaQuietAfterAnswer ==
    [][(ataPc \in {"idle", "bsy", "done"}) => ataDisk' = ataDisk]_ataVars

(* The drive waits for a host that no longer comes, or has gone quiet.     *)
AtaStuck ==
    /\ ataPc = "drq" /\ status \cap {"BSY", "DRQ"} = {}

(* Every call answers, unless the drive shows an error without DRQ, which  *)
(* ataPioWaitDrq does not see, or is asked for more sectors than its count *)
(* register holds.                                                         *)
AtaCallsAnswer ==
    ataPc # "idle" ~> \/ ataPc = "idle"
                      \/ AtaStuck /\ ("ERR" \in status \/ ataReq.total > ATA_COUNT)
=============================================================================
