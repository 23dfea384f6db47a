---------------------------- MODULE DiskDrivers ----------------------------
(***************************************************************************)
(* A machine with one ATA drive and one SATA drive.  The kernel is one     *)
(* thread: a call to one driver (disk->driver->read and so on, chosen by   *)
(* the disk) begins only when no call to the other is running, but the     *)
(* drives work on their own at all times.                                  *)
(***************************************************************************)
EXTENDS AtaPio, Ahci

driverVars == <<ataVars, ahciVars>>

NoCall == ataPc = "idle" /\ ahciPc \in {"idle", "ENMEM"}

DriversInit == AtaInit /\ AhciInit

AtaCall ==
    /\ NoCall
    /\ \/ ataPioIdentify
       \/ \E op \in {"read", "write"}, r \in ATA_REQUESTS : AtaRequest(op, r)
    /\ UNCHANGED ahciVars

AhciCall ==
    /\ NoCall
    /\ \/ ahciIdentifyCommand
       \/ \E op \in {"read", "write"}, r \in AHCI_REQUESTS : AhciRequest(op, r)
    /\ UNCHANGED ataVars

AtaRuns    == AtaHostStep /\ UNCHANGED ahciVars
AtaWorks   == AtaDrive /\ UNCHANGED ahciVars
AhciRuns   == AhciHostStep /\ UNCHANGED ataVars
AhciWorks  == AhciPortStep /\ UNCHANGED ataVars

DriversNext == AtaCall \/ AhciCall \/ AtaRuns \/ AtaWorks \/ AhciRuns \/ AhciWorks

(* The thread that polls goes on; a drive ends what it has begun, and an   *)
(* engine follows its bit.  Nothing makes callers call.                    *)
DriversSpec ==
    /\ DriversInit /\ [][DriversNext]_driverVars
    /\ WF_driverVars(AtaRuns) /\ WF_driverVars(AtaWorks)
    /\ WF_driverVars(AhciRuns) /\ WF_driverVars(AhciWorks)

(* Drivers and devices keep out of each other's way: no sector changes     *)
(* after its write has answered (ataPio.c), and no address of a port       *)
(* changes while one of its engines uses it (ahci.c, remapPort).           *)
NoOverlap == AtaQuietAfterAnswer /\ TablesMoveWhenStopped
=============================================================================
