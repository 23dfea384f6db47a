-------------------------------- MODULE Mmio --------------------------------
(***************************************************************************)
(* memory/mmioEngine.c, the addresses device registers get, and            *)
(* saveAcpiTables of powerManagement/acpi.c, on top of the page tables.    *)
(***************************************************************************)
EXTENDS Paging

CONSTANTS
    MMIO_VIRTUAL,   \* BOBAOS_MMIO_VIRTUAL
    MMIO_MAX_ALLOC, \* BOBAOS_MMIO_MAX_ALLOC
    ACPI_ADDRESS,   \* BOBAOS_ACPI_ADDRESS
    Bars,           \* The registers of devices, as <<physical, size>>.
    Sdts            \* Where the firmware may have put its table of tables.

VSIZE == VSPACE * PAGE     \* Virtual addresses, and physical ones.

(* What there is for each of the mappings that fit between the two areas.  *)
BarRoom == (ACPI_ADDRESS - MMIO_VIRTUAL) \div (MMIO_MAX_ALLOC + 2)

(* The areas of registers and of the ACPI tables lie apart, behind all     *)
(* memory; memory map entries with ACPI tables are below twice the range   *)
(* of an int, since the tables are.                                        *)
ASSUME MmioAssumption ==
    /\ MMIO_VIRTUAL \in Nat /\ MMIO_VIRTUAL % PAGE = 0
    /\ ACPI_ADDRESS \in Nat /\ ACPI_ADDRESS % PAGE = 0
    /\ MMIO_MAX_ALLOC \in Nat
    /\ LOW + INT_RANGE <= MMIO_VIRTUAL /\ LOW <= INT_RANGE
    /\ MMIO_VIRTUAL <= ACPI_ADDRESS - INT_RANGE /\ ACPI_ADDRESS <= VSIZE - INT_RANGE
    /\ \A b \in Bars :
          /\ b[1] \in Nat /\ b[2] \in Nat \ {0} /\ b[1] + b[2] <= VSIZE
          /\ b[2] <= INT_RANGE /\ b[2] <= BarRoom
    /\ Sdts \subseteq Nat
    /\ \A m \in FirmwareMaps : \A i \in DOMAIN m :
          /\ m[i].address + m[i].length <= MMIO_VIRTUAL
          /\ \A s \in Sdts : m[i].address <= s /\ s < m[i].address + m[i].length
                            => m[i].length <= 2 * INT_RANGE

VARIABLES
    allocated,      \* allocatedDataStructList: physical, virtual, size.
    currVirtualAddress,
    bar,            \* The arguments of the running mmioMap.
    sdt,            \* systemDescriptorTableAddress
    acpi            \* What saveAcpiTables does or has answered.

mmioVars == <<pagingVars, allocated, currVirtualAddress, bar, sdt, acpi>>
NoBar    == <<0, 0>>

MmioInit ==
    /\ PagingInit
    /\ allocated = << >> /\ currVirtualAddress = MMIO_VIRTUAL /\ bar = NoBar
    /\ sdt \in Sdts /\ acpi = "none"

Boot ==
    /\ \/ readMemoryMap \/ createKernelTable \/ MapEntry \/ EntryMapped
       \/ KernelTableFails \/ loadNewPageTable
    /\ UNCHANGED <<allocated, currVirtualAddress, bar, sdt, acpi>>

MapPage == mapOrCreatePage /\ UNCHANGED <<allocated, currVirtualAddress, bar, sdt, acpi>>

OnlyRangeChanges ==
    UNCHANGED <<pagingPc, firmware, memoryMap, pageTables, leaf, heapPages, room, mapIndex, sizeMapped>>

(* Mutant: the table is looked for at its distance from the entry.         *)
MutAcpiOffset(e) == sdt - e.address

(* The distance of the table from the first page that is mapped.           *)
AcpiOffset(e) == (sdt - e.address) + (e.address % PAGE)

(* saveAcpiTables, which kmain calls when the tables are loaded.           *)
saveAcpiTables ==
    LET i == GetMemoryMapForAddress(sdt)
        e == memoryMap[i]
    IN  /\ pagingPc = "tables" /\ acpi = "none"
        /\ IF i = 0 THEN acpi' = "ENFOUND" /\ UNCHANGED range
           ELSE /\ acpi' = "mapping"
                /\ range' = Mapping(downToPage(e.address), ACPI_ADDRESS, downToPage(e.length))
        /\ OnlyRangeChanges
        /\ UNCHANGED <<allocated, currVirtualAddress, bar, sdt>>

AcpiMapped ==
    /\ acpi = "mapping" /\ range.ret \in {"SUCCESS", "ENMEM"}
    /\ acpi' = range.ret /\ range' = NoRange
    /\ OnlyRangeChanges
    /\ UNCHANGED <<allocated, currVirtualAddress, bar, sdt>>

(* The limit is tested with > and so lets in one too many.                 *)
MmioRoom == Len(allocated) <= MMIO_MAX_ALLOC

(* remapPhysicalToVirtualRange rounds the size up.                         *)
mmioMap(b) ==
    /\ pagingPc = "tables" /\ acpi \notin {"none", "mapping"} /\ bar = NoBar
    /\ MmioRoom
    /\ bar' = b /\ range' = Mapping(b[1], currVirtualAddress, upToPage(b[2]))
    /\ OnlyRangeChanges
    /\ UNCHANGED <<allocated, currVirtualAddress, sdt, acpi>>

(* Mutant: the next mapping begins in the last page of this one.           *)
MutNextVirtual == currVirtualAddress + bar[2] - PAGE

NextVirtual == currVirtualAddress + bar[2]

MmioMapped ==
    /\ bar # NoBar /\ range.ret = "SUCCESS"
    /\ allocated' = Append(allocated, [physical |-> bar[1], virtual |-> currVirtualAddress,
                                       size |-> bar[2]])
    /\ currVirtualAddress' = NextVirtual
    /\ bar' = NoBar /\ range' = NoRange
    /\ OnlyRangeChanges /\ UNCHANGED <<sdt, acpi>>

(* Its pages are left for the next mapping to replace.                     *)
MmioFails ==
    /\ bar # NoBar /\ range.ret = "ENMEM"
    /\ bar' = NoBar /\ range' = NoRange
    /\ OnlyRangeChanges /\ UNCHANGED <<allocated, currVirtualAddress, sdt, acpi>>

MmioNext ==
    \/ Boot \/ MapPage
    \/ saveAcpiTables \/ AcpiMapped
    \/ (\E b \in Bars : mmioMap(b)) \/ MmioMapped \/ MmioFails

MmioSpec == MmioInit /\ [][MmioNext]_mmioVars
-----------------------------------------------------------------------------
(* Tables and entries are within their spaces, the list has its limit.     *)
MapTypeOK ==
    /\ pagingPc \in {"boot", "mapped", "kernel", "tables", "panic"}
    /\ DOMAIN leaf \subseteq 0 .. (VSPACE - 1)
    /\ \A v \in DOMAIN leaf : leaf[v] \in Nat /\ TablesOf(v) \subseteq pageTables
    /\ room \in Nat
    /\ Len(allocated) <= MMIO_MAX_ALLOC + 1

PageAligned(m) == m.physical % PAGE = 0 /\ m.size % PAGE = 0

(* A driver's pointer keeps leading to the registers of its device: every  *)
(* mapping of mmioMap is intact from end to end, through later mappings    *)
(* and ones that failed half way, if its base and the sizes up to its own  *)
(* are whole pages.  (currVirtualAddress advances by the size as it is:    *)
(* behind an odd size the next mapping takes over the last page.)          *)
MappingsIntact ==
    \A i \in DOMAIN allocated :
        (\A j \in 1 .. i : PageAligned(allocated[j])) =>
            \A n \in 0 .. (allocated[i].size - 1) :
                virtualToPhysical(allocated[i].virtual + n) = allocated[i].physical + n

(* saveAcpiTables finds the table where it says: the address it reads      *)
(* leads to the table's physical address, also for an entry of the memory  *)
(* map that does not begin with a page, and through all later mappings, if *)
(* the table begins in the pages that were mapped (the length is rounded   *)
(* down) and within an int from the first.                                 *)
AcpiTableFound ==
    LET e == memoryMap[GetMemoryMapForAddress(sdt)]
    IN  acpi = "SUCCESS" /\ AcpiOffset(e) < downToPage(e.length) /\ AcpiOffset(e) < INT_RANGE
          => virtualToPhysical(ACPI_ADDRESS + AcpiOffset(e)) = sdt

(* Every page taken from the heap is a table in use, also while a range is *)
(* being mapped: a mapping that fails half way and is tried again does not *)
(* make its tables twice.                                                  *)
NoTableLost ==
    pagingPc \in {"kernel", "tables"} => heapPages = room + Cardinality(pageTables) + 1

(* The page tables account for every page that was taken for them, through *)
(* mappings that fail half way (paging.c, mapOrCreateRange).               *)
MapInv == MapTypeOK /\ NoTableLost

(* What keeps the kernel at its addresses supposes two things of the maps  *)
(* of the firmware, neither of which the code tests: the entries follow    *)
(* one another ...                                                         *)
MapsInOrder ==
    \A m \in FirmwareMaps : \A i, j \in DOMAIN m :
        i < j => m[i].address + m[i].length <= m[j].address

(* ... and the offset of each page of a range is within an int, or wraps   *)
(* to above all memory.                                                    *)
RangesFitInt ==
    \A m \in FirmwareMaps : \A i \in DOMAIN m :
        \/ m[i].address + m[i].length <= 2 * INT_RANGE
        \/ m[i].length <= INT_RANGE
=============================================================================
