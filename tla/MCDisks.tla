------------------------------ MODULE MCDisks ------------------------------
(***************************************************************************)
(* Machines with the system on a legacy drive, on a SATA drive behind      *)
(* others, in the third MBR entry, and in an entry that is not looked at;  *)
(* a second legacy drive with and without a first; PCI devices that fill   *)
(* the list, bridges, multi-function devices and one that repeats the bit. *)
(***************************************************************************)
EXTENDS Disks

Drive(boot, e0, e1, e2) == [boot |-> boot, mbr |-> <<e0, e1, e2, "none">>]
Sys    == Drive(TRUE, "os", "none", "none")
Late   == Drive(TRUE, "data", "none", "os")
Hidden == Drive(TRUE, "data", "os", "none")
Data   == Drive(FALSE, "data", "data", "data")

F(hdr)          == [hdr |-> hdr, kind |-> "other", mode |-> "none", drives |-> << >>]
Sata(hdr, mode, drives) == [hdr |-> hdr, kind |-> "sata", mode |-> mode, drives |-> drives]
M(p, s, pci)    == [primary |-> p, secondary |-> s, pci |-> pci]

MCMachines ==
    { M(Sys, NoDrive, << <<F("device")>>, <<F("bridge")>> >>),
      M(Data, Late, << <<F("multi"), F("absent"), Sata("device", "ahci", <<Late, Data>>)>> >>),
      M(NoDrive, NoDrive, << <<F("device"), F("device")>>,
                             <<Sata("device", "ahci", <<Data, Sys>>)>>,
                             <<Sata("multi", "io", <<Sys>>), F("bridge"), F("device")>> >>),
      M(Hidden, NoDrive, << <<Sata("device", "ide", <<Sys>>)>>, <<Sata("device", "ahci", <<Sys>>)>> >>),
      M(NoDrive, Sys, << >>),
      M(Sys, NoDrive, << <<F("multi"), F("device"), F("multi")>> >>),
      M(Data, NoDrive, << <<F("device")>>, <<F("multi"), F("device"), F("device")>>,
                          <<Sata("device", "ahci", <<Sys>>)>> >>) }

ASSUME MCRoomAssumption == RoomForPartitions
=============================================================================
