-------------------------------- MODULE Pci --------------------------------
(***************************************************************************)
(* hardware/pci/pci.c: the scan of configuration space that fills          *)
(* pciDevices, and the search by class.                                    *)
(*                                                                         *)
(* A machine has a sequence of PCI devices in the order of their bus and   *)
(* device numbers, each a sequence of functions from function 0 on.  hdr   *)
(* is the header type: "device", "bridge" for what readPciDevice refuses,  *)
(* "multi" for 0x80, "absent" for a vendor of 0xFFFF.  kind, mode and      *)
(* drives tell what the disk driver finds behind a function.               *)
(***************************************************************************)
EXTENDS Integers, SequencesExt

CONSTANTS
    Machines,   \* The machines the kernel may be started on.
    MAX_PCI     \* BOBAOS_MAX_PCI_DEVICES

ASSUME PciAssumption ==
    /\ MAX_PCI \in Nat \ {0}
    /\ \A m \in Machines :
          /\ m.pci \in Seq(Range(m.pci))
          /\ \A d \in Range(m.pci) :
                /\ d \in Seq(Range(d)) /\ Len(d) > 0
                /\ \A f \in Range(d) : /\ f.hdr \in {"device", "bridge", "multi", "absent"}
                                       /\ f.drives \in Seq(Range(f.drives))

VARIABLES
    machine,    \* The machine, which never changes.
    bootPc,     \* The step of the boot.
    pciNext,    \* The device pciScanBus looks at.
    pciSub,     \* The sub function of it that readPciDevice looks at.
    pciDevices  \* The functions found, as <<device, function>> indexes.

pciVars == <<machine, pciNext, pciSub, pciDevices>>

Function(f) == machine.pci[f[1]][f[2]]

(* readPciDevice on a sub function that has the multi-function bit itself  *)
(* goes through all sub functions again, itself among them, without end.   *)
EndlessRecursion(d) ==
    d[1].hdr = "multi" /\ \E i \in 2 .. Len(d) : d[i].hdr = "multi"

(* readPciDevice refuses bridges; pushDevice refuses what does not fit,    *)
(* and nobody looks at the result.                                         *)
PushDevice(list, f) ==
    IF Function(f).hdr \in {"device", "multi"} /\ Len(list) < MAX_PCI THEN Append(list, f) ELSE list

PciInit ==
    /\ machine \in Machines
    /\ bootPc = "pci" /\ pciNext = 1 /\ pciSub = 2 /\ pciDevices = << >>

(* The loop of readPciDevice over the sub functions of a device with the   *)
(* multi-function bit, which come before the device itself.                *)
ReadSubDevice ==
    /\ bootPc = "pci" /\ pciNext <= Len(machine.pci)
    /\ machine.pci[pciNext][1].hdr = "multi" /\ pciSub <= Len(machine.pci[pciNext])
    /\ IF machine.pci[pciNext][pciSub].hdr = "multi"
       THEN bootPc' = "stuck" /\ UNCHANGED <<pciSub, pciDevices>>
       ELSE /\ pciDevices' = PushDevice(pciDevices, <<pciNext, pciSub>>)
            /\ pciSub' = pciSub + 1
            /\ UNCHANGED bootPc
    /\ UNCHANGED <<machine, pciNext>>

ReadDevice ==
    /\ bootPc = "pci" /\ pciNext <= Len(machine.pci)
    /\ machine.pci[pciNext][1].hdr = "multi" => pciSub > Len(machine.pci[pciNext])
    /\ pciDevices' = PushDevice(pciDevices, <<pciNext, 1>>)
    /\ pciNext' = pciNext + 1 /\ pciSub' = 2
    /\ UNCHANGED <<machine, bootPc>>

pciScanBus == ReadSubDevice \/ ReadDevice

(* getAllPciDevicesByClass, asked for SATA controllers, returns the        *)
(* functions of the list for which this holds, in the order of the list.   *)
IsSata(f) == Function(f).kind = "sata"
-----------------------------------------------------------------------------
(* The functions of the machine that the scan has passed and supports.     *)
Supported(n, i) ==
    /\ machine.pci[n][i].hdr \in {"device", "multi"}
    /\ i > 1 => machine.pci[n][1].hdr = "multi"

Passed ==
    (UNION {{<<n, i>> : i \in {j \in 1 .. Len(machine.pci[n]) : Supported(n, j)}} :
                n \in 1 .. (pciNext - 1)})
    \cup {<<pciNext, i>> : i \in {j \in 2 .. (pciSub - 1) : Supported(pciNext, j)}}

(* Every function that is there, of single devices and of multi-function   *)
(* ones, is in the list exactly once; if there are more than the list can  *)
(* hold, it is full (pushDevice) and what came last is missing.            *)
EveryFunctionOnce ==
    /\ IsInjective(pciDevices) /\ Range(pciDevices) \subseteq Passed
    /\ Range(pciDevices) # Passed => Len(pciDevices) = MAX_PCI
=============================================================================
