------------------------------- MODULE Disks -------------------------------
(***************************************************************************)
(* disk/disk.c with the scans of both drivers (ataPio.c, ahci.c): diskInit *)
(* finds the disks and their MBR partitions, gives labels to partitions,   *)
(* and moves the disk and the partition the kernel came from to the front. *)
(*                                                                         *)
(* A drive is [boot, mbr]: whether its first sector has the signature of   *)
(* the boot loader, and what its four partition entries are, "none" for an *)
(* inactive one, "os" for one with the volume id BOBAOS BOOT, or "data".   *)
(* Pointers are positions in disks, and pairs of such a position and a     *)
(* partition index.  Drivers may fail to read, the heap to allocate.       *)
(***************************************************************************)
EXTENDS Pci

CONSTANTS
    MAX_DISKS,      \* BOBAOS_MAX_DISKS
    MAX_PARTITIONS, \* Partitions of all disks together.
    NoDrive         \* Nothing at a port.

ASSUME DisksAssumption == MAX_DISKS \in Nat \ {0} /\ MAX_PARTITIONS \in Nat

VARIABLES
    disks,          \* The disk objects: id, drive they read, partitions.
    diskList, partitionList,
    label,          \* currentPartitionLabel, counted from C.
    scanned,        \* The disks of a scan that are still to be looked at.
    k,              \* The index of the loops of findKernelDisk and -Partition.
    result,         \* What diskInit returned.
    faulty          \* History: a read has failed, or an allocation.

diskVars == <<pciVars, bootPc, disks, diskList, partitionList,
              label, scanned, k, result, faulty>>
tables   == <<disks, diskList, partitionList, label>>

Init ==
    /\ PciInit
    /\ disks = << >> /\ diskList = << >> /\ partitionList = << >> /\ label = 0
    /\ scanned = << >> /\ k = 1 /\ result = "none" /\ faulty = FALSE

ScanBus ==
    /\ pciScanBus
    /\ UNCHANGED <<tables, scanned, k, result, faulty>>

ScanBusEnds ==
    /\ bootPc = "pci" /\ pciNext > Len(machine.pci)
    /\ bootPc' = "legacy"
    /\ UNCHANGED <<pciVars, tables, scanned, k, result, faulty>>
-----------------------------------------------------------------------------
(* A scan creates disk objects until one cannot be allocated.              *)
Scan(drives, next) ==
    /\ \E n \in 0 .. Len(drives) :
          /\ scanned' = SubSeq(drives, 1, n)
          /\ faulty' = (faulty \/ n < Len(drives))
    /\ bootPc' = next
    /\ UNCHANGED <<pciVars, tables, k, result>>

(* The second legacy disk is probed at its own port, but the object gets   *)
(* the port of the first.                                                  *)
LegacyDrives ==
    (IF machine.primary # NoDrive THEN <<machine.primary>> ELSE << >>)
      \o (IF machine.secondary # NoDrive THEN <<machine.primary>> ELSE << >>)

(* Drives behind the SATA controllers that are in AHCI mode and have a     *)
(* memory BAR.                                                             *)
SataDrives ==
    FlattenSeq([i \in 1 .. Len(pciDevices) |->
        LET f == Function(pciDevices[i])
        IN  IF IsSata(pciDevices[i]) /\ f.mode = "ahci" THEN f.drives ELSE << >>])

scanLegacyPorts == bootPc = "legacy" /\ Scan(LegacyDrives, "legacyDisk")
scanSata        == bootPc = "sata" /\ Scan(SataDrives, "sataDisk")
ScanEnds        ==
    /\ bootPc \in {"legacyDisk", "sataDisk"} /\ scanned = << >>
    /\ bootPc' = IF bootPc = "legacyDisk" THEN "sata" ELSE "kernelDisk"
    /\ UNCHANGED <<pciVars, tables, scanned, k, result, faulty>>

(* A loop looks at an entry of the partition table.                        *)
Active(entry) == IF entry = "none" THEN << >> ELSE <<entry>>

(* Mutant: every partition of a disk gets the label of the first.          *)
MutCheckMbrPartition(drive, junk) ==
    LET active == Active(drive.mbr[1]) \o Active(drive.mbr[3]) \o Active(junk)
    IN  [i \in 1 .. Len(active) |-> [kind |-> active[i], label |-> label]]

(* Mutant: the loop begins one entry too late.                             *)
MutCheckMbrShifted(drive, junk) ==
    LET active == Active(drive.mbr[2]) \o Active(drive.mbr[4]) \o Active(junk)
    IN  [i \in 1 .. Len(active) |-> [kind |-> active[i], label |-> label + i - 1]]

(* checkMbrPartition: buffer and index advance together, so that the loop  *)
(* looks at entries 0 and 2, at 4, where the signature 0x55AA is and so no *)
(* active partition, and at 6 behind the buffer: junk is what is there.    *)
CheckMbrPartition(drive, junk) ==
    LET active == Active(drive.mbr[1]) \o Active(drive.mbr[3]) \o Active(junk)
        room   == MAX_PARTITIONS - Len(partitionList)
        n      == IF Len(active) > room THEN room ELSE Len(active)
    IN  [i \in 1 .. n |-> [kind |-> active[i], label |-> label + i - 1]]

NextId == Len(diskList)

InsertDisk(d) == IF Len(diskList) = MAX_DISKS THEN diskList ELSE Append(diskList, d)

(* One round of the loop of a scan: getInfo, checkDiskPartition,           *)
(* insertDisk.  The drive of an object at an empty port shows BSY for ever.*)
AddDisk ==
    /\ bootPc \in {"legacyDisk", "sataDisk"} /\ scanned # << >>
    /\ IF Head(scanned) = NoDrive
       THEN bootPc' = "stuck" /\ UNCHANGED <<tables, scanned, faulty>>
       ELSE \E readable \in BOOLEAN, junk \in {"none", "data", "os"} :
              LET parts == IF readable THEN CheckMbrPartition(Head(scanned), junk) ELSE << >>
                  new   == Len(disks) + 1
              IN  /\ disks' = Append(disks, [id |-> NextId, drive |-> Head(scanned),
                                             parts |-> parts])
                  /\ partitionList' = partitionList \o [i \in 1 .. Len(parts) |-> <<new, 1>>]
                  /\ label' = label + Len(parts)
                  /\ diskList' = InsertDisk(new)
                  /\ scanned' = IF Len(diskList) = MAX_DISKS THEN << >> ELSE Tail(scanned)
                  /\ faulty' = (faulty \/ ~ readable)
                  /\ UNCHANGED bootPc
    /\ UNCHANGED <<pciVars, k, result>>
-----------------------------------------------------------------------------
Finish(r) == bootPc' = "done" /\ result' = r

Swap(list, i) == [list EXCEPT ![1] = list[i], ![i] = list[1]]

(* findKernelDisk: the buffer is not initialised and the result of the     *)
(* read not looked at, so after a failure anything may be compared.        *)
findKernelDisk ==
    LET d == disks[diskList[k]]
    IN  /\ bootPc = "kernelDisk" /\ k <= Len(diskList)
        /\ \E readable, stale \in BOOLEAN :
              /\ faulty' = (faulty \/ ~ readable)
              /\ IF IF readable THEN d.drive.boot ELSE stale
                 THEN /\ diskList' = Swap(diskList, k)
                      /\ disks' = [disks EXCEPT ![diskList[1]].id = k - 1, ![diskList[k]].id = 0]
                      /\ bootPc' = "kernelPart" /\ k' = 1
                 ELSE /\ k' = k + 1
                      /\ UNCHANGED <<diskList, disks, bootPc>>
        /\ UNCHANGED <<pciVars, partitionList, label, scanned, result>>

(* Mutant: the loop goes on to the end of the array.                       *)
MutNoKernelDisk ==
    /\ bootPc = "kernelDisk" /\ k > MAX_DISKS
    /\ Finish("ENFOUND")
    /\ UNCHANGED <<pciVars, tables, scanned, k, faulty>>

NoKernelDisk ==
    /\ bootPc = "kernelDisk" /\ k > Len(diskList)
    /\ Finish("ENFOUND")
    /\ UNCHANGED <<pciVars, tables, scanned, k, faulty>>

SetLabel(ds, p, l) == [ds EXCEPT ![p[1]].parts[p[2]].label = l]

(* Mutant: the list is not reordered, only the labels are exchanged.       *)
MutPutFirst(p, l) == UNCHANGED partitionList /\ disks' = SetLabel(SetLabel(disks, partitionList[1], l), p, 0)

(* The kernel's partition goes to the front of the list and gets label C;  *)
(* what was there gets its label and its place.                            *)
PutFirst(p, l) ==
    LET old == partitionList[1]
    IN  /\ partitionList' = [partitionList EXCEPT ![1] = p, ![l + 1] = old]
        /\ disks' = SetLabel(SetLabel(disks, old, l), p, 0)

(* findKernelPartition: after a failed read the buffer still holds the     *)
(* volume id of the last partition, which was not the right one.           *)
findKernelPartition ==
    LET p  == <<diskList[1], k>>
        pt == disks[p[1]].parts[k]
    IN  /\ bootPc = "kernelPart" /\ k <= Len(disks[diskList[1]].parts)
        /\ \E readable \in BOOLEAN :
              /\ faulty' = (faulty \/ ~ readable)
              /\ IF readable /\ pt.kind = "os"
                 THEN /\ Finish("SUCCESS")
                      /\ IF pt.label = 0 THEN UNCHANGED <<partitionList, disks>>
                         ELSE PutFirst(p, pt.label)
                      /\ UNCHANGED k
                 ELSE k' = k + 1 /\ UNCHANGED <<partitionList, disks, bootPc, result>>
        /\ UNCHANGED <<pciVars, diskList, label, scanned>>

NoKernelPartition ==
    /\ bootPc = "kernelPart" /\ k > Len(disks[diskList[1]].parts)
    /\ Finish("ENFOUND")
    /\ UNCHANGED <<pciVars, tables, scanned, k, faulty>>

(* partitionGetByVolumeLabel, the label counted from C: the difference is  *)
(* taken the other way round for the index.                                *)
partitionGetByVolumeLabel(l) ==
    IF l >= Len(partitionList) THEN "NULL"
    ELSE IF 0 - l \in 0 .. (Len(partitionList) - 1) THEN partitionList[(0 - l) + 1]
    ELSE "outside"

diskInit ==
    \/ ScanBus \/ ScanBusEnds \/ scanLegacyPorts \/ scanSata \/ ScanEnds \/ AddDisk
    \/ findKernelDisk \/ NoKernelDisk \/ findKernelPartition \/ NoKernelPartition

Next == diskInit

Spec == Init /\ [][Next]_diskVars /\ WF_diskVars(Next)
-----------------------------------------------------------------------------
AllParts == UNION {{<<d, i>> : i \in DOMAIN disks[d].parts} : d \in DOMAIN disks}
LabelOf(p) == disks[p[1]].parts[p[2]].label

(* Lists and objects refer to each other within their bounds.              *)
TypeOK ==
    /\ Range(diskList) \subseteq DOMAIN disks /\ Len(diskList) <= MAX_DISKS
    /\ Range(partitionList) \subseteq AllParts /\ Len(partitionList) <= MAX_PARTITIONS
    /\ k \in Nat \ {0}
    /\ result \in {"none", "SUCCESS", "ENFOUND"}

(* When diskInit succeeds, label C leads to a partition with the volume id *)
(* of the system, on disk 0, whatever disks and partitions were found      *)
(* before it, and whichever reads failed or ran into stale data.           *)
KernelIsC ==
    result = "SUCCESS" =>
        LET p == partitionGetByVolumeLabel(0)
        IN  /\ p \in AllParts /\ p[1] = diskList[1]
            /\ disks[p[1]].parts[p[2]].kind = "os" /\ LabelOf(p) = 0

(* The id of a disk is its place in diskList, after findKernelDisk has     *)
(* exchanged two of them as well: diskGet and the streams go by it.        *)
IdsArePlaces == \A i \in DOMAIN diskList : disks[diskList[i]].id = i - 1

(* No two partitions, of any disks, share a volume label.                  *)
LabelsUnique == \A p, q \in AllParts : LabelOf(p) = LabelOf(q) => p = q

(* The labels are indexes of partitionList, which findKernelPartition      *)
(* takes them for, and C is at its front.                                  *)
LabelsArePlaces ==
    /\ label = Len(partitionList)
    /\ \A p \in AllParts : LabelOf(p) \in 0 .. (label - 1)
    /\ partitionList # << >> => LabelOf(partitionList[1]) = 0

(* The lists of functions, disks and partitions stay exact through both    *)
(* scans and the exchange of the kernel's disk (pci.c, disk.c).            *)
ListsInv == TypeOK /\ EveryFunctionOnce /\ IdsArePlaces /\ LabelsUnique /\ LabelsArePlaces

(* The drives in the order of the scan; the first that can boot counts.    *)
Drives == LegacyDrives \o SataDrives

FirstBootable(i) ==
    /\ i \in 1 .. Len(Drives) /\ Drives[i].boot
    /\ \A j \in 1 .. (i - 1) : ~ Drives[j].boot

(* checkMbrPartition looks at the first and the third entry only.          *)
HasSystem(drive) == "os" \in {drive.mbr[1], drive.mbr[3]}

(* A machine without faults whose first bootable drive has the system in   *)
(* an entry that is looked at is found (disk.c, diskInit).                 *)
KernelFound ==
    bootPc = "done" /\ ~ faulty /\ Len(Drives) <= MAX_DISKS
    /\ (\E i \in 1 .. Len(Drives) : FirstBootable(i) /\ HasSystem(Drives[i]))
        => result = "SUCCESS"

(* There is room for the partitions of every disk: partitionList has four  *)
(* entries for each (BOBAOS_MAX_PARTITIONS_PER_DISK), of which three are   *)
(* used at most.                                                           *)
RoomForPartitions == MAX_PARTITIONS >= 3 * MAX_DISKS

(* The boot comes to an end, except on a machine with a legacy drive at    *)
(* the second port only (scanForDisk gives its object the first port) or a *)
(* sub function that has the multi-function bit (readPciDevice).           *)
BootEnds ==
    <>(\/ bootPc = "done"
       \/ bootPc = "stuck" /\ \/ machine.primary = NoDrive /\ machine.secondary # NoDrive
                              \/ \E d \in Range(machine.pci) : EndlessRecursion(d))
=============================================================================
