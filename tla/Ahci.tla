-------------------------------- MODULE Ahci --------------------------------
(***************************************************************************)
(* The driver of disk/driver/ahci.c and one port of an HBA with its drive. *)
(*                                                                         *)
(* A call builds a command in a free slot, sets the slot's bit in          *)
(* commandIssue and polls: the HBA clears the bit when the command is      *)
(* done; on a task file error it sets bit 30 of interruptStatus, leaves    *)
(* the slot's bit and stops.  interruptStatus is cleared by writing ones,  *)
(* so the driver's store of 0 changes nothing, and nothing restarts the    *)
(* port.  Interface errors that set other bits are not modelled.           *)
(*                                                                         *)
(* Sector s holds s at first and s + AHCI_SECTORS once it was written.     *)
(***************************************************************************)
EXTENDS Integers, Sequences, FiniteSets

CONSTANTS
    AHCI_SECTORS,   \* Sectors of the drive.
    AHCI_MAX,       \* The most sectors one region descriptor can hold.
    BYTE,           \* Values of one byte of an address.
    SLOTS,          \* Command slots of the port.
    SLOT_BITS,      \* Slots that fit into the variable of getFreeSlot.
    AHCI_REQUESTS   \* The transfers callers ask for, as <<lba, total>>.

ASSUME AhciAssumption ==
    /\ AHCI_SECTORS \in Nat \ {0} /\ AHCI_MAX \in Nat \ {0} /\ BYTE \in Nat \ {0, 1}
    /\ SLOT_BITS \in Nat /\ SLOTS \in Nat /\ SLOT_BITS < SLOTS
    /\ \A r \in AHCI_REQUESTS :
          r[1] \in Nat /\ r[2] \in Nat \ {0} /\ r[1] + r[2] <= AHCI_SECTORS

VARIABLES
    ahciPc,         \* Where the call, or the setup of the port, stands.
    ahciReq,        \* Operation, lba, total and slot of the call.
    ahciBuf,        \* The caller's buffer.
    ahciAnswer,     \* "none" while the call runs, then what it returns.
    running,        \* The engines of the port: CR and FR, the list and FIS bits.
    started,        \* START_PORT and FIS_RECEIVE_ENABLE, as the driver set them.
    listBase,       \* The command list is "firmware"'s or "driver"'s.
    commandIssue,   \* The slots whose bit is set.
    tfes,           \* Bit 30 of interruptStatus.
    ahciDisk        \* The contents of the sectors.

ahciHost == <<ahciPc, ahciReq, ahciBuf, ahciAnswer>>
ahciPort == <<running, started, listBase, commandIssue, tfes, ahciDisk>>
ahciVars == <<ahciPc, ahciReq, ahciBuf, ahciAnswer,
              running, started, listBase, commandIssue, tfes, ahciDisk>>

AHCI_NO_REQ == [op |-> "none", lba |-> 0, total |-> 0, slot |-> 0]
AhciNew(s)  == s + AHCI_SECTORS

(* The firmware may have left the port running.                            *)
AhciInit ==
    /\ ahciPc = "stop" /\ ahciReq = AHCI_NO_REQ /\ ahciBuf = << >> /\ ahciAnswer = "none"
    /\ started \in BOOLEAN
    /\ running = IF started THEN {"CR", "FR"} ELSE {}
    /\ listBase = "firmware" /\ commandIssue = {} /\ tfes = FALSE
    /\ ahciDisk = [s \in 0 .. (AHCI_SECTORS - 1) |-> s]
-----------------------------------------------------------------------------
(* remapPort: stopCommandSending clears both bits and then waits.          *)
stopCommandSending ==
    /\ ahciPc = "stop"
    /\ started' = FALSE
    /\ ahciPc' = "stopping"
    /\ UNCHANGED <<ahciReq, ahciBuf, ahciAnswer, running, listBase, commandIssue, tfes, ahciDisk>>

EnginesStopped == running \cap {"CR", "FR"} = {}

(* The tables are allocated and their addresses written; without memory    *)
(* the scan ends with -ENMEM and there is no disk at this port.            *)
remapPort ==
    /\ ahciPc = "stopping" /\ EnginesStopped
    /\ \/ ahciPc' = "start" /\ listBase' = "driver"
       \/ ahciPc' = "ENMEM" /\ UNCHANGED listBase
    /\ UNCHANGED <<ahciReq, ahciBuf, ahciAnswer, running, started, commandIssue, tfes, ahciDisk>>

startCommandSending ==
    /\ ahciPc = "start" /\ "CR" \notin running
    /\ started' = TRUE
    /\ ahciPc' = "idle"
    /\ UNCHANGED <<ahciReq, ahciBuf, ahciAnswer, running, listBase, commandIssue, tfes, ahciDisk>>
-----------------------------------------------------------------------------
(* getFreeSlot: the bits are cut to a byte, so that slot SLOT_BITS always  *)
(* looks free and -ENFOUND is never returned.                              *)
getFreeSlot ==
    LET cut == {i \in commandIssue : i < SLOT_BITS}
    IN  CHOOSE i \in 0 .. SLOT_BITS : i \notin cut /\ \A j \in 0 .. (i - 1) : j \in cut

(* Mutant: the limit of one region descriptor is not looked at.            *)
MutTooLong(total) == FALSE

TooLong(total) == total > AHCI_MAX

(* The bytes of the address as the FIS carries them: byte 3 is taken from  *)
(* the place of byte 2, byte 5 from the place of byte 6.  The drive puts   *)
(* them together again.                                                    *)
FisLba(lba) ==
    LET byte(place) == (lba \div place) % BYTE
        BYTE2       == BYTE * BYTE
    IN  byte(1) + (byte(BYTE) * BYTE) + (byte(BYTE2) * BYTE2)
          + (byte(BYTE2) * (BYTE2 * BYTE)) + (byte(BYTE2 * BYTE2) * (BYTE2 * BYTE2))
          + (byte(BYTE2 * BYTE2 * BYTE2) * (BYTE2 * BYTE2 * BYTE))

(* ahciRead and ahciWrite up to the command in its slot.                   *)
AhciRequest(op, r) ==
    /\ ahciPc = "idle"
    /\ ahciReq' = [op |-> op, lba |-> r[1], total |-> r[2], slot |-> getFreeSlot]
    /\ IF TooLong(r[2])
       THEN ahciPc' = "done" /\ ahciAnswer' = "ELONG"
       ELSE ahciPc' = "issue" /\ UNCHANGED ahciAnswer
    /\ UNCHANGED <<ahciBuf, ahciPort>>

(* ahciIdentifyCommand; its buffer may be refused.                         *)
ahciIdentifyCommand ==
    /\ ahciPc = "idle"
    /\ ahciReq' = [op |-> "identify", lba |-> 0, total |-> 1, slot |-> getFreeSlot]
    /\ \/ ahciPc' = "issue" /\ UNCHANGED ahciAnswer
       \/ ahciPc' = "done" /\ ahciAnswer' = "ENMEM"
    /\ UNCHANGED <<ahciBuf, ahciPort>>

AhciIssue ==
    /\ ahciPc = "issue"
    /\ commandIssue' = commandIssue \cup {ahciReq.slot}
    /\ ahciPc' = "poll"
    /\ UNCHANGED <<ahciReq, ahciBuf, ahciAnswer, running, started, listBase, tfes, ahciDisk>>

AhciAnswer(a) ==
    /\ ahciPc' = "done" /\ ahciAnswer' = a
    /\ UNCHANGED <<ahciReq, ahciBuf, ahciPort>>

AhciDone == ahciPc = "poll" /\ ahciReq.slot \notin commandIssue /\ AhciAnswer("ok")

(* Mutant: the poll looks at other bits than bit 30.                       *)
MutAhciErrorMask == ahciPc = "poll" /\ tfes /\ FALSE /\ AhciAnswer("EHARDWARE")

(* Only reads and writes look at the error bit.                            *)
AhciError ==
    /\ ahciPc = "poll" /\ ahciReq.slot \in commandIssue
    /\ tfes /\ ahciReq.op # "identify"
    /\ AhciAnswer("EHARDWARE")

AhciReturn ==
    /\ ahciPc = "done"
    /\ ahciPc' = "idle" /\ ahciReq' = AHCI_NO_REQ /\ ahciBuf' = << >> /\ ahciAnswer' = "none"
    /\ UNCHANGED ahciPort
-----------------------------------------------------------------------------
(* The engines follow the bits of the driver, each in its own time.        *)
PortEngine(bit) ==
    /\ (bit \in running) # started
    /\ running' = IF started THEN running \cup {bit} ELSE running \ {bit}
    /\ UNCHANGED <<ahciHost, started, listBase, commandIssue, tfes, ahciDisk>>

Asked == FisLba(ahciReq.lba)

(* The first n sectors of the command reach memory or the drive.           *)
Transfer(n) ==
    /\ ahciBuf' = IF ahciReq.op = "write" THEN ahciBuf
                  ELSE [i \in 1 .. n |-> ahciDisk[(Asked + i - 1) % AHCI_SECTORS]]
    /\ ahciDisk' = IF ahciReq.op # "write" THEN ahciDisk
                   ELSE [s \in DOMAIN ahciDisk |->
                            IF s \in {(Asked + i - 1) % AHCI_SECTORS : i \in 1 .. n}
                            THEN AhciNew((s - Asked + ahciReq.lba) % AHCI_SECTORS)
                            ELSE ahciDisk[s]]

HbaExecutes ==
    /\ running = {"CR", "FR"} /\ ~ tfes /\ ahciReq.slot \in commandIssue
    /\ Transfer(IF ahciReq.total > AHCI_MAX THEN AHCI_MAX ELSE ahciReq.total)
    /\ commandIssue' = commandIssue \ {ahciReq.slot}
    /\ UNCHANGED <<ahciPc, ahciReq, ahciAnswer, running, started, listBase, tfes>>

HbaFails ==
    /\ running = {"CR", "FR"} /\ ~ tfes /\ ahciReq.slot \in commandIssue
    /\ \E n \in 0 .. (ahciReq.total - 1) : Transfer(n)
    /\ tfes' = TRUE
    /\ UNCHANGED <<ahciPc, ahciReq, ahciAnswer, running, started, listBase, commandIssue>>

AhciPortStep == HbaExecutes \/ HbaFails \/ \E bit \in {"CR", "FR"} : PortEngine(bit)

AhciHostStep ==
    \/ stopCommandSending \/ remapPort \/ startCommandSending
    \/ AhciIssue \/ AhciDone \/ AhciError \/ AhciReturn
-----------------------------------------------------------------------------
AhciTypeOK ==
    /\ ahciPc \in {"stop", "stopping", "start", "ENMEM", "idle", "issue", "poll", "done"}
    /\ ahciAnswer \in {"none", "ok", "EHARDWARE", "ELONG", "ENMEM"}
    /\ running \subseteq {"CR", "FR"} /\ started \in BOOLEAN /\ tfes \in BOOLEAN
    /\ commandIssue \subseteq 0 .. SLOT_BITS
    /\ ahciReq.lba \in Nat /\ ahciReq.total \in Nat /\ ahciReq.slot \in 0 .. SLOT_BITS
    /\ ahciDisk \in [0 .. (AHCI_SECTORS - 1) -> 0 .. (2 * AHCI_SECTORS - 1)]

(* The sectors that were asked for have been moved, those and no others.   *)
(* This needs an lba below BYTE * BYTE, 65536 on the real disk: above, the *)
(* FIS carries the address of another sector.                              *)
AhciMoved ==
    ahciReq.lba < BYTE * BYTE =>
        \A b \in 0 .. (ahciReq.total - 1) :
            /\ ahciReq.op = "read" => b + 1 \in DOMAIN ahciBuf
                                      /\ ahciBuf[b + 1] = ahciDisk[ahciReq.lba + b]
            /\ ahciReq.op = "write" => ahciDisk[ahciReq.lba + b] = AhciNew(ahciReq.lba + b)

(* A read or write that answers SUCCESS has moved its sectors; so has one  *)
(* whose bit the HBA has cleared.                                          *)
AhciOkMeansDone ==
    \/ ahciAnswer = "ok"
    \/ ahciPc = "poll" /\ ahciReq.slot \notin commandIssue
    => AhciMoved

(* At most one command is with the HBA, the one that is being polled: its  *)
(* bit is the only one, until a command fails and its bit stays.           *)
OneCommand ==
    /\ ahciPc # "done" => ahciAnswer = "none"
    /\ ahciPc \in {"issue", "poll"} =>
          ahciReq.total <= AHCI_MAX /\ ahciReq.lba + ahciReq.total <= AHCI_SECTORS
    /\ ~ tfes => /\ commandIssue \subseteq {ahciReq.slot}
                 /\ commandIssue # {} => ahciPc = "poll"

(* The list and FIS addresses of a port change only while neither engine   *)
(* runs (remapPort behind stopCommandSending): the HBA never uses half of  *)
(* the old and half of the new.                                            *)
TablesMoveWhenStopped ==
    [][listBase' # listBase => running = {}]_ahciVars

(* After a task file error the port is dead and says so: every later read  *)
(* or write answers -EHARDWARE or -ELONG: none reports success, and none   *)
(* is polled with its bit clear, although the slots run out (getFreeSlot). *)
DeadPortAnswersError ==
    tfes => /\ ahciAnswer # "ok"
            /\ ahciPc = "poll" => ahciReq.slot \in commandIssue

(* What ahciRead and ahciWrite answer is what the port has done, before    *)
(* and after an error.                                                     *)
AhciInv == AhciTypeOK /\ OneCommand /\ AhciOkMeansDone /\ DeadPortAnswersError

(* Every call answers, unless it is an identify on a port that has had an  *)
(* error: that one polls commandIssue alone.                               *)
AhciCallsAnswer ==
    ahciPc \notin {"idle", "ENMEM"} ~> \/ ahciPc \in {"idle", "ENMEM"}
                                       \/ ahciReq.op = "identify" /\ tfes
=============================================================================
