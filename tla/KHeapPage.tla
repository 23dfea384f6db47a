----------------------------- MODULE KHeapPage -----------------------------
(***************************************************************************)
(* The kernel heap as it is built (memory/kheap/kheap.c over               *)
(* memory/kheap/kheap_page.c): a table with one byte of flags per 4 KiB    *)
(* page at BOBAOS_KERNEL_HEAP_TABLE_ADDRESS, first-fit search for a run of *)
(* unlocked pages, blocks delimited by the START and NEXT flags.           *)
(*                                                                         *)
(* Callers are the parts of the kernel that allocate.  Each keeps one      *)
(* pointer; it may fill its block, free it, or call kzfree with something  *)
(* that is not a block.  Pointers are the machine's addresses.             *)
(***************************************************************************)
EXTENDS Integers

CONSTANTS
    table_size,     \* Pages in the heap: BOBAOS_KERNEL_HEAP_SIZE / 4096.
    WORD,           \* 2^64, the range of uint64_t; a smaller power in runs.
    Callers,
    Sizes,          \* The sizes callers pass to kzalloc.
    LowMemory       \* Possible values of getMaxMemorySize - getUpperMemorySize.

KHEAP_BLOCK_SIZE == 4096
HEAP_ADDRESS     == 5242880     \* BOBAOS_KERNEL_HEAP_ADDRESS, 0x500000
TABLE_ADDRESS    == 0           \* BOBAOS_KERNEL_HEAP_TABLE_ADDRESS

NULL  == 0
ENMEM == 1                      \* Error codes, by status.h
EIARG == 3

ASSUME TableSizeAssumption == table_size \in Nat \ {0}
ASSUME WordAssumption == WORD \in Nat /\ WORD % KHEAP_BLOCK_SIZE = 0
ASSUME SizesAssumption == Sizes \subseteq 0 .. (WORD - 1)
ASSUME LowMemoryAssumption == LowMemory \subseteq Nat
ASSUME CallersAssumption == "zeroed" \notin Callers /\ "unknown" \notin Callers

VARIABLES
    heap,       \* "uninit", "ready", or "panic" when kheapInit failed.
    table,      \* table[i]: the flags set in the i-th byte of the table.
    mem,        \* mem[i]: what the i-th heap page holds: a caller's data, ...
    ptr,        \* ptr[c]: the address caller c was given, or NULL.
    size,       \* size[c]: the size c asked for when it was given ptr[c].
    last        \* The last call of the heap: its name, argument and result.

vars == <<heap, table, mem, ptr, size, last>>

LOCKED == "LOCKED"
START  == "START"
NEXT   == "NEXT"
FLAGS  == {LOCKED, START, NEXT}     \* KHEAP_FLAG_FREE is the empty set.

Zeroed  == "zeroed"
Unknown == "unknown"

Index == 0 .. (table_size - 1)
-----------------------------------------------------------------------------
(* Sizes and addresses.                                                    *)

Aligned(x) == x % KHEAP_BLOCK_SIZE = 0

(* Addition of uint64_t values.                                            *)
Wrap(x) == IF x >= WORD THEN x - WORD ELSE x

sizeUpToPage(s) ==
    IF Aligned(s) THEN s
    ELSE Wrap(s + (KHEAP_BLOCK_SIZE - (s % KHEAP_BLOCK_SIZE)))

(* What getPageCount stores: the rounded size is always aligned, so its    *)
(* -EIO path is never taken.                                               *)
PageCount(s) == sizeUpToPage(s) \div KHEAP_BLOCK_SIZE

PageAddress(i) == HEAP_ADDRESS + i * KHEAP_BLOCK_SIZE

(* For addresses of the heap, the only ones passed here: the test of the   *)
(* code (below the heap AND above the table) is false for every address.   *)
addressToTableIndex(a) == (a - HEAP_ADDRESS) \div KHEAP_BLOCK_SIZE
-----------------------------------------------------------------------------
(* The table.                                                              *)

Locked(i) == LOCKED \in table[i]

(* foundCount equals n after the loop body has looked at entry i: exactly  *)
(* the n entries up to i are unlocked since the last locked one.  For      *)
(* n = 0 that is: entry i is locked.                                       *)
FoundCount(i, n) ==
    /\ n <= i + 1
    /\ \A j \in (i + 1 - n) .. i : ~ Locked(j)
    /\ n <= i => Locked(i - n)

(* Mutant of Hits: the loop leaves out the last page.                      *)
Hits_ShortLoop(n) == {i \in 0 .. (table_size - 2) : FoundCount(i, n)}

(* The entries at which the search could stop; it stops at the first.      *)
Hits(n) == {i \in Index : FoundCount(i, n)}

First(S) == CHOOSE i \in S : \A j \in S : i <= j

markEntryTaken(startIndex, n) ==
    [i \in Index |->
        IF i \in startIndex .. (startIndex + n - 1)
        THEN table[i] \cup {LOCKED}
                      \cup (IF i = startIndex THEN {START} ELSE {})
                      \cup (IF i + 1 # startIndex + n THEN {NEXT} ELSE {})
        ELSE table[i]]

(* The entry where the do-while of freeAllocatedMemory ends: the first     *)
(* from index on without NEXT.  (Past the last entry of the table the code *)
(* would go on into the memory behind it; TableDescribesBlocks shows that  *)
(* the last page of the heap never has NEXT.)                              *)
BlockEnd(index) ==
    First({i \in index .. (table_size - 1) : NEXT \notin table[i]})

(* Mutant of freeAllocatedMemory: the entry without NEXT is not cleared.   *)
freeAllocatedMemory_KeepsLast(index) ==
    [i \in Index |-> IF i \in index .. (BlockEnd(index) - 1) THEN {} ELSE table[i]]

freeAllocatedMemory(index) ==
    [i \in Index |-> IF i \in index .. BlockEnd(index) THEN {} ELSE table[i]]
-----------------------------------------------------------------------------
Init ==
    /\ heap = "uninit"
    /\ table \in [Index -> SUBSET FLAGS]
    /\ mem = [i \in Index |-> Unknown]
    /\ ptr = [c \in Callers |-> NULL]
    /\ size = [c \in Callers |-> 0]
    /\ last = [call |-> "none", arg |-> 0, val |-> 0]

(* kernel.c panics when kheapInit fails.                                   *)
kheapInit ==
    /\ heap = "uninit"
    /\ \E tableMaxSize \in LowMemory :
          IF table_size + TABLE_ADDRESS > tableMaxSize
          THEN heap' = "panic" /\ UNCHANGED table
          ELSE heap' = "ready" /\ table' = [i \in Index |-> {}]
    /\ UNCHANGED <<mem, ptr, size, last>>

(* Mutant of kzallocFound: without the memset.                             *)
kzallocFound_NotZeroed(c, s) ==
    LET n     == PageCount(s)
        start == First(Hits(n)) + 1 - n
    IN  /\ Hits(n) # {}
        /\ table' = markEntryTaken(start, n)
        /\ ptr' = [ptr EXCEPT ![c] = PageAddress(start)]
        /\ size' = [size EXCEPT ![c] = s]
        /\ last' = [call |-> "kzalloc", arg |-> s, val |-> PageAddress(start)]
        /\ UNCHANGED <<heap, mem>>

kzallocFound(c, s) ==
    LET n     == PageCount(s)
        start == First(Hits(n)) + 1 - n
    IN  /\ Hits(n) # {}
        /\ table' = markEntryTaken(start, n)
        /\ mem' = [i \in Index |->
                     IF i \in start .. (start + n - 1) THEN Zeroed ELSE mem[i]]
        /\ ptr' = [ptr EXCEPT ![c] = PageAddress(start)]
        /\ size' = [size EXCEPT ![c] = s]
        /\ last' = [call |-> "kzalloc", arg |-> s, val |-> PageAddress(start)]
        /\ UNCHANGED heap

kzallocNoMemory(c, s) ==
    /\ Hits(PageCount(s)) = {}
    /\ last' = [call |-> "kzalloc", arg |-> s, val |-> NULL]
    /\ UNCHANGED <<heap, table, mem, ptr, size>>

kzalloc(c, s) ==
    /\ heap = "ready"
    /\ ptr[c] = NULL
    /\ kzallocFound(c, s) \/ kzallocNoMemory(c, s)

(* The pages of the block that c holds, as c knows them: where it was told *)
(* the block begins and how much it asked for.                             *)
Held(c) ==
    IF ptr[c] = NULL THEN {}
    ELSE addressToTableIndex(ptr[c]) ..
            (addressToTableIndex(ptr[c]) + PageCount(size[c]) - 1)

(* c writes its data all over its block.                                   *)
Store(c) ==
    /\ ptr[c] # NULL
    /\ mem' = [i \in Index |-> IF i \in Held(c) THEN c ELSE mem[i]]
    /\ UNCHANGED <<heap, table, ptr, size, last>>

(* Mutant of kzfreePage: any aligned address of a locked page is freed.    *)
kzfreePage_AnyPage(a) ==
    IF a = NULL \/ ~ Aligned(a) \/ LOCKED \notin table[addressToTableIndex(a)]
    THEN /\ UNCHANGED table
         /\ last' = [call |-> "kzfree", arg |-> 0, val |-> -EIARG]
    ELSE /\ table' = freeAllocatedMemory(addressToTableIndex(a))
         /\ last' = [call |-> "kzfree", arg |-> 0, val |-> 0]

(* What kzfree(a) does to the table, and its result.                       *)
kzfreePage(a) ==
    IF a = NULL \/ ~ Aligned(a) \/ START \notin table[addressToTableIndex(a)]
    THEN /\ UNCHANGED table
         /\ last' = [call |-> "kzfree", arg |-> 0, val |-> -EIARG]
    ELSE /\ table' = freeAllocatedMemory(addressToTableIndex(a))
         /\ last' = [call |-> "kzfree", arg |-> 0, val |-> 0]

(* c frees its block and forgets the pointer.                              *)
kzfree(c) ==
    /\ ptr[c] # NULL
    /\ kzfreePage(ptr[c])
    /\ ptr' = [ptr EXCEPT ![c] = NULL]
    /\ size' = [size EXCEPT ![c] = 0]
    /\ UNCHANGED <<heap, mem>>

(* Addresses that are no block's: NULL, pages in the middle of a block,    *)
(* pages that are free (a block freed before), and the middle of a page.   *)
Strays ==
    {NULL} \cup {PageAddress(i) : i \in Index}
           \cup {PageAddress(i) + 8 : i \in Index}

kzfreeStray(a) ==
    /\ heap = "ready"
    /\ \A c \in Callers : ptr[c] # NULL => ptr[c] # a
    /\ kzfreePage(a)
    /\ UNCHANGED <<heap, mem, ptr, size>>

Next ==
    \/ kheapInit
    \/ \E c \in Callers :
          \/ \E s \in Sizes : kzalloc(c, s)
          \/ Store(c)
          \/ kzfree(c)
    \/ \E a \in Strays : kzfreeStray(a)

Spec == Init /\ [][Next]_vars
-----------------------------------------------------------------------------
(* The heap's state has the types of the code's variables; a caller's      *)
(* pointer is NULL or the address of a page of the heap.                   *)
TypeOK ==
    /\ heap \in {"uninit", "ready", "panic"}
    /\ table \in [Index -> SUBSET FLAGS]
    /\ mem \in [Index -> {Zeroed, Unknown} \cup Callers]
    /\ ptr \in [Callers -> {NULL} \cup {PageAddress(i) : i \in Index}]
    /\ size \in [Callers -> Sizes \cup {0}]
    /\ last \in [call : {"none", "kzalloc", "kzfree"},
                 arg : Sizes \cup {0}, val : Int]

(* No size asked for rounds to zero pages, as kzalloc(0) and sizes within  *)
(* a page of 2^64 do.                                                      *)
PositiveSizes == \A s \in Sizes : PageCount(s) > 0

(* Two callers never hold the same page: no sequence of kzalloc and kzfree *)
(* makes findFreePages hand out a page of a live block.                    *)
BlocksDisjoint ==
    \A c, d \in Callers : c # d => Held(c) \cap Held(d) = {}

(* The flags the search of kzalloc and the loop of kzfree rely on: every   *)
(* live block is in the heap, is marked START on its first page, NEXT on   *)
(* every page but its last, LOCKED on all ...                              *)
BlockFlags(c, i) ==
    {LOCKED} \cup (IF PageAddress(i) = ptr[c] THEN {START} ELSE {})
             \cup (IF i + 1 \in Held(c) THEN {NEXT} ELSE {})

(* ... and no flag is set anywhere else, so freed pages are not lost and   *)
(* freeing a block never runs into its neighbour or past the table.        *)
TableDescribesBlocks ==
    /\ \A c \in Callers :
          /\ Held(c) \subseteq Index
          /\ ptr[c] # NULL => heap = "ready" /\ Held(c) # {}
          /\ \A i \in Held(c) : table[i] = BlockFlags(c, i)
    /\ heap = "ready" =>
          \A i \in Index : (\A c \in Callers : i \notin Held(c)) => table[i] = {}

(* The inductive invariant.  Disjointness alone is not inductive: that     *)
(* findFreePages avoids live blocks, and that freeAllocatedMemory stops at *)
(* the end of a block, is what the flags in the table say.                 *)
IInv == TypeOK /\ BlocksDisjoint /\ TableDescribesBlocks

(* A caller finds its block either as kzalloc zeroed it or as the caller   *)
(* itself filled it, all of it, whatever the others did in between.        *)
DataIntact ==
    \A c \in Callers : \A i, j \in Held(c) :
        mem[i] \in {Zeroed, c} /\ mem[i] = mem[j]

(* "If returned address == 0x0, then there is a -ENMEM error"              *)
(* (kheap_page.c): kzalloc answers NULL only when no run of pages as long  *)
(* as the request is free of live blocks.                                  *)
RefusedOnlyWhenFull ==
    last.call = "kzalloc" /\ last.val = NULL =>
        \A a \in Index : \E i \in a .. (a + PageCount(last.arg) - 1) :
            i \notin Index \/ \E c \in Callers : i \in Held(c)

Heap == INSTANCE KHeap WITH
    Pages    <- Index,
    Requests <- {PageCount(s) : s \in Sizes},
    owned    <- [c \in Callers |-> Held(c)],
    contents <- mem,
    answer   <- [call  |-> last.call,
                 pages |-> PageCount(last.arg),
                 ok    |-> IF last.call = "kzalloc" THEN last.val # NULL
                                                    ELSE last.val = 0]

(* The page allocator keeps every promise of kheap.h, as KHeap states them. *)
ImplementsKHeap == Heap!HeapSpec
=============================================================================
