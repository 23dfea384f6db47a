------------------------------- MODULE Paging -------------------------------
(***************************************************************************)
(* memory/paging/paging.c: the memory map of the firmware, and the page    *)
(* tables of the kernel.                                                   *)
(*                                                                         *)
(* Addresses and sizes are numbers of units, PAGE of them to a page.  The  *)
(* tables below the top one are named by their level and the part of the   *)
(* address they serve; leaf is what the tables of the last level hold.     *)
(* Every table is one page of the kernel heap, which may run out.          *)
(***************************************************************************)
EXTENDS Integers, SequencesExt, FiniteSets

CONSTANTS
    PAGE,           \* SIZE_4KB
    FAN,            \* Entries of a table (512).
    LEVELS,         \* Levels of tables (4).
    INT_RANGE,      \* An int overflows here; offsets are computed in one.
    LOW,            \* SIZE_1MB
    MIN_MEMORY,     \* BOBAOS_MIN_MEMORY
    FirmwareMaps,   \* The maps the boot loader may leave at 0xF000.
    Rooms           \* How many pages the kernel heap may have left.

VSPACE == FAN^LEVELS     \* Virtual pages.

(* The loader's maps begin with conventional memory at address 0.          *)
ASSUME PagingAssumption ==
    /\ PAGE \in Nat \ {0} /\ FAN \in Nat \ {0, 1} /\ LEVELS \in Nat \ {0}
    /\ VSPACE \in Nat \ {0}
    /\ LOW \in Nat \ {0} /\ LOW % PAGE = 0 /\ Rooms \subseteq Nat
    /\ INT_RANGE \in Nat \ {0} /\ INT_RANGE % PAGE = 0
    /\ \A m \in FirmwareMaps :
          /\ m \in Seq([address : Nat, length : Nat, type : {"free", "reserved", "acpi"}])
          /\ m # << >> /\ m[1].address = 0

VARIABLES
    pagingPc,   \* "boot", "mapped", "kernel", "tables" or "panic".
    firmware,   \* The map of the firmware.
    memoryMap,  \* The kernel's copy of it.
    pageTables, \* The tables that exist below the top one.
    leaf,       \* The physical page of each virtual page that has an entry.
    heapPages,  \* Pages the kernel heap had at boot, which do not change.
    room,       \* Pages left in it.
    mapIndex,   \* i and sizeMapped of createKernelTable.
    sizeMapped,
    range       \* The running call of mapOrCreateRange, its loop counter and
                \* what it returned.

pagingVars == <<pagingPc, firmware, memoryMap, pageTables, leaf, heapPages, room,
                mapIndex, sizeMapped, range>>

NoRange == [ret |-> "idle", phys |-> 0, virt |-> 0, size |-> 0, page |-> 0]

downToPage(a) == a - (a % PAGE)
upToPage(a)   == IF a % PAGE = 0 THEN a ELSE a + PAGE - (a % PAGE)

(* i * SIZE_4KB as an int, which wraps on this build.                      *)
IntOffset(i) == ((i * PAGE + INT_RANGE) % (2 * INT_RANGE)) - INT_RANGE

(* The page of an address; bits above the top index, or above what an      *)
(* entry can hold (the same 48 bits), are dropped.                         *)
PageOf(a) == (a \div PAGE) % VSPACE

TablesOf(v) == {<<l, v \div FAN^l>> : l \in 1 .. (LEVELS - 1)}

(* Mutant: a table that exists is made again.                              *)
MutMissing(v) == TablesOf(v)

(* The tables getOrCreateEntry does not find on its way to v.              *)
Missing(v) == TablesOf(v) \ pageTables

(* It makes them from the top, until the heap has no more pages.           *)
Made(v) == {x \in Missing(v) : Cardinality({y \in Missing(v) : y[1] > x[1]}) < room}

(* A call of mapOrCreateRange, at its first page.                          *)
Mapping(phys, virt, size) ==
    [ret |-> "none", phys |-> phys, virt |-> virt, size |-> size, page |-> 0]

VirtualPage(c, i)  == PageOf(c.virt + IntOffset(i))
PhysicalPage(c, i) == PageOf(c.phys + IntOffset(i))

(* One round of the loop of mapOrCreateRange, of which there is at least   *)
(* one: the tables that could be made stay, and so do the pages before.    *)
mapOrCreatePage ==
    LET v == VirtualPage(range, range.page)
        p == PhysicalPage(range, range.page)
    IN  /\ range.ret = "none"
        /\ pageTables' = pageTables \cup Made(v)
        /\ room' = room - Cardinality(Made(v))
        /\ IF Made(v) # Missing(v)
           THEN range' = [range EXCEPT !.ret = "ENMEM"] /\ UNCHANGED leaf
           ELSE /\ leaf' = [x \in DOMAIN leaf \cup {v} |-> IF x = v THEN p ELSE leaf[x]]
                /\ range' = [range EXCEPT !.page = @ + 1,
                               !.ret = IF (range.page + 1) * PAGE < range.size
                                       THEN "none" ELSE "SUCCESS"]
        /\ UNCHANGED <<pagingPc, firmware, memoryMap, heapPages, mapIndex, sizeMapped>>

(* virtualToPhysical: an entry that is 0 in a table that exists gives the  *)
(* offset alone; -1 stands for NULL.                                       *)
virtualToPhysical(a) ==
    LET v == PageOf(a)
    IN  IF ~ (TablesOf(v) \subseteq pageTables) THEN -1
        ELSE IF v \in DOMAIN leaf THEN leaf[v] * PAGE + (a % PAGE)
        ELSE a % PAGE
-----------------------------------------------------------------------------
LowEntries(map) ==
    CHOOSE n \in 0 .. Len(map) :
        /\ \A i \in 1 .. n : map[i].address < LOW
        /\ n < Len(map) => map[n + 1].address >= LOW

(* reworkMemoryMap: all that begins below 1 MiB becomes one free entry.    *)
ReworkMemoryMap(map) ==
    <<[address |-> 0, length |-> LOW, type |-> "free"]>>
      \o SubSeq(map, LowEntries(map) + 1, Len(map))

TotalMemorySize == FoldLeft(LAMBDA n, e : n + e.length, 0, firmware)

PagingInit ==
    /\ pagingPc = "boot"
    /\ firmware \in FirmwareMaps
    /\ memoryMap = << >> /\ pageTables = {} /\ leaf = << >>
    /\ heapPages \in Rooms /\ room = heapPages
    /\ mapIndex = 1 /\ sizeMapped = 0 /\ range = NoRange

readMemoryMap ==
    /\ pagingPc = "boot"
    /\ memoryMap' = ReworkMemoryMap(firmware)
    /\ pagingPc' = IF TotalMemorySize < MIN_MEMORY THEN "panic" ELSE "mapped"
    /\ UNCHANGED <<firmware, pageTables, leaf, heapPages, room, mapIndex, sizeMapped, range>>

(* The top table is one more page.                                         *)
createKernelTable ==
    /\ pagingPc = "mapped"
    /\ IF room = 0 THEN pagingPc' = "panic" /\ UNCHANGED room
                   ELSE pagingPc' = "kernel" /\ room' = room - 1
    /\ mapIndex' = 1 /\ sizeMapped' = 0
    /\ UNCHANGED <<firmware, memoryMap, pageTables, leaf, heapPages, range>>

(* Free entries are mapped one behind the other, from address 0 on.        *)
MapEntry ==
    LET e == memoryMap[mapIndex]
    IN  /\ pagingPc = "kernel" /\ range = NoRange /\ mapIndex <= Len(memoryMap)
        /\ IF e.type = "free"
           THEN /\ range' = Mapping(downToPage(e.address), sizeMapped, downToPage(e.length))
                /\ UNCHANGED mapIndex
           ELSE mapIndex' = mapIndex + 1 /\ UNCHANGED range
        /\ UNCHANGED <<pagingPc, firmware, memoryMap, pageTables, leaf, heapPages, room, sizeMapped>>

(* Mutant: the size that was mapped counts from the unrounded length.      *)
MutNextStart == sizeMapped + memoryMap[mapIndex].length + PAGE

NextStart == sizeMapped + downToPage(memoryMap[mapIndex].length)

EntryMapped ==
    /\ pagingPc = "kernel" /\ range.ret = "SUCCESS"
    /\ sizeMapped' = NextStart
    /\ mapIndex' = mapIndex + 1 /\ range' = NoRange
    /\ UNCHANGED <<pagingPc, firmware, memoryMap, pageTables, leaf, heapPages, room>>

(* The top table is given back, the tables below it are not, and the       *)
(* kernel panics.                                                          *)
KernelTableFails ==
    /\ pagingPc = "kernel" /\ range.ret = "ENMEM"
    /\ pagingPc' = "panic" /\ room' = room + 1 /\ range' = NoRange
    /\ UNCHANGED <<firmware, memoryMap, pageTables, leaf, heapPages, mapIndex, sizeMapped>>

loadNewPageTable ==
    /\ pagingPc = "kernel" /\ range = NoRange /\ mapIndex > Len(memoryMap)
    /\ pagingPc' = "tables"
    /\ UNCHANGED <<firmware, memoryMap, pageTables, leaf, heapPages, room, mapIndex, sizeMapped, range>>

(* getMemoryMapForAddress: the first entry around an address, as its index.*)
GetMemoryMapForAddress(a) ==
    LET around == {i \in DOMAIN memoryMap : /\ memoryMap[i].address <= a
                                            /\ a < memoryMap[i].address + memoryMap[i].length}
    IN  IF around = {} THEN 0 ELSE CHOOSE i \in around : \A j \in around : i <= j
-----------------------------------------------------------------------------
(* The end of the memory that is free without a hole from address 0 on,    *)
(* up to where an int no longer holds the offset within a range.           *)
IsFree(u) ==
    \E i \in DOMAIN memoryMap :
        LET e == memoryMap[i]
        IN  /\ e.type = "free"
            /\ downToPage(e.address) <= u /\ u < downToPage(e.address) + downToPage(e.length)

NoHoleBelow(a) == a < LOW + INT_RANGE /\ \A u \in 0 .. a : IsFree(u)

(* The kernel goes on at the addresses it was loaded to, its heap and      *)
(* stack too, when createKernelTable has replaced the loader's tables: as  *)
(* far as memory has no hole, virtual addresses are physical ones, at all  *)
(* later times (no later mapping disturbs them).                           *)
KernelStaysMapped ==
    pagingPc = "tables" =>
        \A a \in 0 .. (VSPACE * PAGE - 1) : NoHoleBelow(a) => virtualToPhysical(a) = a
=============================================================================
