---------------------------- MODULE MemoryProofs ----------------------------
(***************************************************************************)
(* The kernel's memory: the page allocator behind kzalloc, and the page    *)
(* tables with what is mapped at them.                                     *)
(*                                                                         *)
(* The page allocator is correct for every heap size, every set of callers *)
(* and every set of sizes none of which rounds to zero pages: its table    *)
(* always describes the live blocks, so live blocks never overlap, callers *)
(* find their data unchanged, NULL means that the heap has no room, and    *)
(* the allocator implements KHeap.                                         *)
(*                                                                         *)
(* The page tables are for every size of page, table and heap and for all  *)
(* maps of the firmware: no table is lost, registers and ACPI tables stay  *)
(* where they were mapped, and the kernel stays at its addresses.  The     *)
(* invariant says what the running call of mapOrCreateRange has written so *)
(* far, for whom, and that each caller's pages are apart from the others'. *)
(***************************************************************************)
EXTENDS KHeapPage, Mmio, FiniteSetTheorems, SequenceTheorems, WellFoundedInduction, TLAPS

-----------------------------------------------------------------------------
(* Arithmetic of sizes and addresses.                                      *)

(* The table index of a page's address is the page.                        *)
LEMMA PageAddressIndex ==
    ASSUME NEW i \in Nat
    PROVE  /\ addressToTableIndex(PageAddress(i)) = i
           /\ PageAddress(i) \in Nat
           /\ PageAddress(i) # NULL
           /\ Aligned(PageAddress(i))
           /\ ~ Aligned(PageAddress(i) + 8)
BY DEF addressToTableIndex, PageAddress, Aligned, NULL, HEAP_ADDRESS,
       KHEAP_BLOCK_SIZE

LEMMA PageAddressInjective ==
    ASSUME NEW i \in Nat, NEW j \in Nat, PageAddress(i) = PageAddress(j)
    PROVE  i = j
BY PageAddressIndex

(* Rounding a size up to pages yields a number of pages.                   *)
LEMMA PageCountNat ==
    ASSUME NEW s \in Sizes \cup {0}
    PROVE  PageCount(s) \in Nat
<1>1. (s \in Nat /\ s < WORD) \/ s = 0
  BY SizesAssumption, WordAssumption
<1>2. sizeUpToPage(s) \in Nat
  BY <1>1, WordAssumption
     DEF sizeUpToPage, Wrap, Aligned, KHEAP_BLOCK_SIZE
<1> QED  BY <1>2 DEF PageCount, KHEAP_BLOCK_SIZE

LEMMA PageCountZero == PageCount(0) = 0
BY DEF PageCount, sizeUpToPage, Aligned, KHEAP_BLOCK_SIZE

(* A set of natural numbers that is not empty has a first element.         *)
LEMMA FirstOfSet ==
    ASSUME NEW S \in SUBSET Nat, S # {}
    PROVE  First(S) \in S /\ \A j \in S : First(S) <= j
<1>1. PICK x \in S : \A y \in S : ~ (<<y, x>> \in OpToRel(<, Nat))
  BY NatLessThanWellFounded, WFMin
<1>2. \A y \in S : ~ (y < x)
  BY <1>1, Zenon DEF OpToRel
<1>3. \A y \in S : x <= y
  BY <1>2
<1> QED  BY <1>3 DEF First
-----------------------------------------------------------------------------
(* The search of findFreePages.                                            *)

(* Where the search stops, the pages it takes are in the table, unlocked.  *)
LEMMA HitIsFreeRun ==
    ASSUME NEW n \in Nat \ {0}, Hits(n) # {}
    PROVE  LET start == First(Hits(n)) + 1 - n
           IN  /\ start \in Index
               /\ start + n - 1 \in Index
               /\ \A i \in start .. (start + n - 1) : i \in Index /\ ~ Locked(i)
<1> DEFINE i == First(Hits(n))
<1>1. Hits(n) \in SUBSET Nat
  BY TableSizeAssumption DEF Hits, Index
<1>2. i \in Hits(n)
  BY <1>1, FirstOfSet
<1>3. i \in Index /\ FoundCount(i, n)
  BY <1>2 DEF Hits
<1> HIDE DEF i
<1>4. /\ i + 1 - n \in Index
      /\ (i + 1 - n) + n - 1 = i
      /\ \A j \in (i + 1 - n) .. i : j \in Index /\ ~ Locked(j)
  BY <1>3, TableSizeAssumption DEF FoundCount, Index
<1> QED  BY <1>3, <1>4 DEF i

(* A search that stops nowhere means there is no run of n unlocked pages:  *)
(* the unlocked pages before a run extend it to the left up to a locked    *)
(* page or the start of the table, and there foundCount reaches n.         *)
LEMMA NoHitNoRun ==
    ASSUME NEW n \in Nat \ {0}, Hits(n) = {}, NEW a \in Index
    PROVE  \E i \in a .. (a + n - 1) : i \notin Index \/ Locked(i)
<1> SUFFICES ASSUME \A i \in a .. (a + n - 1) : i \in Index /\ ~ Locked(i)
             PROVE  FALSE
  OBVIOUS
<1> DEFINE S == {b \in Index : \A i \in b .. (a + n - 1) : ~ Locked(i)}
           b == First(S)
<1>1. a \in S /\ S \in SUBSET Nat
  BY TableSizeAssumption DEF Index
<1>2. b \in S /\ \A x \in S : b <= x
  BY <1>1, FirstOfSet
<1> HIDE DEF b
<1>3. b \in Nat /\ b <= a
  BY <1>1, <1>2
<1>4. a + n - 1 \in Index
  BY TableSizeAssumption DEF Index
<1>5. b + n - 1 \in Index
  BY <1>3, <1>4, TableSizeAssumption DEF Index
<1>6. \A j \in ((b + n - 1) + 1 - n) .. (b + n - 1) : ~ Locked(j)
  BY <1>2, <1>3, TableSizeAssumption DEF Index
<1>7. n <= b + n - 1 => Locked((b + n - 1) - n)
  <2> SUFFICES ASSUME n <= b + n - 1, ~ Locked((b + n - 1) - n)
               PROVE  FALSE
    OBVIOUS
  <2>1. (b + n - 1) - n = b - 1 /\ b - 1 \in Index
    BY <1>2, <1>3, TableSizeAssumption DEF Index
  <2>2. \A i \in (b - 1) .. (a + n - 1) : ~ Locked(i)
    <3> SUFFICES ASSUME NEW i \in (b - 1) .. (a + n - 1) PROVE ~ Locked(i)
      OBVIOUS
    <3>1. CASE i = b - 1  BY <3>1, <2>1
    <3>2. CASE i # b - 1
      <4>1. i \in b .. (a + n - 1)
        BY <3>2, <1>3, TableSizeAssumption DEF Index
      <4> QED  BY <4>1, <1>2
    <3> QED  BY <3>1, <3>2
  <2>3. b - 1 \in S
    BY <2>1, <2>2
  <2> QED  BY <2>3, <1>2, <1>3
<1>8. FoundCount(b + n - 1, n)
  BY <1>3, <1>6, <1>7 DEF FoundCount
<1> QED  BY <1>5, <1>8 DEF Hits
-----------------------------------------------------------------------------
(* Blocks as the callers know them.                                        *)

(* What a live block is: an address that is the first of its pages.        *)
LEMMA LiveBlock ==
    ASSUME TypeOK, TableDescribesBlocks, NEW c \in Callers, ptr[c] # NULL
    PROVE  LET b == addressToTableIndex(ptr[c])
               n == PageCount(size[c])
           IN  /\ b \in Index
               /\ ptr[c] = PageAddress(b)
               /\ n \in Nat \ {0}
               /\ b + n - 1 \in Index
               /\ Held(c) = b .. (b + n - 1)
<1> DEFINE b == addressToTableIndex(ptr[c])
           n == PageCount(size[c])
<1>1. PICK i \in Index : ptr[c] = PageAddress(i)
  BY DEF TypeOK
<1>2. i \in Nat
  BY TableSizeAssumption DEF Index
<1>3. b = i
  BY <1>1, <1>2, PageAddressIndex
<1>4. n \in Nat
  BY PageCountNat DEF TypeOK
<1>5. Held(c) = b .. (b + n - 1)
  BY DEF Held
<1>6. Held(c) # {} /\ Held(c) \subseteq Index
  BY DEF TableDescribesBlocks
<1> HIDE DEF b, n
<1>7. n # 0
  BY <1>2, <1>3, <1>5, <1>6
<1>8. b + n - 1 \in Held(c)
  BY <1>2, <1>3, <1>4, <1>5, <1>7
<1> QED  BY <1>1, <1>3, <1>4, <1>5, <1>6, <1>7, <1>8 DEF b, n

(* Freeing a live block clears the entries of its pages and no others.     *)
LEMMA FreeClearsBlock ==
    ASSUME TypeOK, TableDescribesBlocks, NEW c \in Callers, ptr[c] # NULL
    PROVE  /\ START \in table[addressToTableIndex(ptr[c])]
           /\ freeAllocatedMemory(addressToTableIndex(ptr[c])) =
                [i \in Index |-> IF i \in Held(c) THEN {} ELSE table[i]]
<1> DEFINE b == addressToTableIndex(ptr[c])
           e == b + PageCount(size[c]) - 1
           S == {i \in b .. (table_size - 1) : NEXT \notin table[i]}
<1>1. /\ b \in Index /\ e \in Index /\ b <= e
      /\ Held(c) = b .. e
      /\ ptr[c] = PageAddress(b)
  BY LiveBlock, TableSizeAssumption DEF Index
<1> HIDE DEF b, e
<1>2. \A i \in Held(c) : table[i] = BlockFlags(c, i)
  BY DEF TableDescribesBlocks
<1>3. START \in table[b]
  BY <1>1, <1>2, TableSizeAssumption DEF BlockFlags, Index
<1>4. e \in S
  <2>1. e \in Held(c) /\ e + 1 \notin Held(c)
    BY <1>1, TableSizeAssumption DEF Index
  <2>2. NEXT \notin table[e]
    BY <2>1, <1>2 DEF BlockFlags, NEXT, START, LOCKED
  <2> QED  BY <2>2, <1>1, TableSizeAssumption DEF Index
<1>5. \A i \in S : e <= i
  <2> SUFFICES ASSUME NEW i \in S, i < e PROVE FALSE
    BY <1>1, TableSizeAssumption DEF Index
  <2>1. i \in Held(c) /\ i + 1 \in Held(c)
    BY <1>1, TableSizeAssumption DEF Index
  <2>2. NEXT \in table[i]
    BY <2>1, <1>2 DEF BlockFlags
  <2> QED  BY <2>2
<1>6. S \in SUBSET Nat
  BY <1>1, TableSizeAssumption DEF Index
<1>7. First(S) = e
  <2>1. First(S) \in S /\ First(S) <= e
    BY <1>4, <1>6, FirstOfSet
  <2> QED  BY <2>1, <1>1, <1>5, <1>6, TableSizeAssumption DEF Index
<1>8. BlockEnd(b) = e
  BY <1>7 DEF BlockEnd
<1> QED  BY <1>1, <1>3, <1>8 DEF freeAllocatedMemory, b

(* A page outside every block, or inside one, never carries START.         *)
LEMMA StrayHasNoStart ==
    ASSUME TypeOK, TableDescribesBlocks, heap = "ready", NEW i \in Index,
           \A c \in Callers : ptr[c] # PageAddress(i)
    PROVE  START \notin table[i]
<1>1. CASE \E c \in Callers : i \in Held(c)
  <2>1. PICK c \in Callers : i \in Held(c)
    BY <1>1
  <2>2. table[i] = BlockFlags(c, i)
    BY <2>1 DEF TableDescribesBlocks
  <2> QED  BY <2>2 DEF BlockFlags, START, NEXT, LOCKED
<1>2. CASE \A c \in Callers : i \notin Held(c)
  BY <1>2 DEF TableDescribesBlocks
<1> QED  BY <1>1, <1>2
-----------------------------------------------------------------------------
(* The steps, one lemma for each way a block comes and goes.               *)

(* A successful kzalloc takes a run of pages of no live block.             *)
LEMMA AllocTakesFreeRun ==
    ASSUME PositiveSizes, IInv, NEW c \in Callers, NEW s \in Sizes,
           heap = "ready", ptr[c] = NULL, kzallocFound(c, s)
    PROVE  LET n     == PageCount(s)
               start == First(Hits(n)) + 1 - n
               run   == start .. (start + n - 1)
           IN  /\ n \in Nat \ {0}
               /\ start \in Index
               /\ run \subseteq Index
               /\ \A i \in run : table[i] = {}
               /\ \A d \in Callers : Held(d) \cap run = {}
               /\ Held(c) = {}
               /\ Held(c)' = run
               /\ \A d \in Callers \ {c} : Held(d)' = Held(d) /\ ptr'[d] = ptr[d]
<1> DEFINE n     == PageCount(s)
           start == First(Hits(n)) + 1 - n
           run   == start .. (start + n - 1)
<1>1. n \in Nat \ {0}
  BY PageCountNat DEF PositiveSizes
<1>2. Hits(n) # {}
  BY DEF kzallocFound
<1>3. start \in Index /\ \A i \in run : i \in Index /\ ~ Locked(i)
  BY <1>1, <1>2, HitIsFreeRun
<1>4. ptr' = [ptr EXCEPT ![c] = PageAddress(start)] /\ size' = [size EXCEPT ![c] = s]
  BY DEF kzallocFound
<1> HIDE DEF n, start
<1>5. \A d \in Callers : Held(d) \cap run = {}
  <2> SUFFICES ASSUME NEW d \in Callers, NEW i \in run, i \in Held(d) PROVE FALSE
    OBVIOUS
  <2>1. table[i] = BlockFlags(d, i)
    BY DEF IInv, TableDescribesBlocks
  <2> QED  BY <2>1, <1>3 DEF BlockFlags, Locked
<1>6. \A i \in run : table[i] = {}
  BY <1>3, <1>5 DEF IInv, TableDescribesBlocks
<1>7. Held(c) = {}
  BY DEF Held
<1>8. start \in Nat
  BY <1>3, TableSizeAssumption DEF Index
<1>9. ptr'[c] = PageAddress(start) /\ size'[c] = s
  BY <1>4 DEF IInv, TypeOK
<1>10. Held(c)' = run
  <2>1. ptr'[c] # NULL /\ addressToTableIndex(ptr'[c]) = start
    BY <1>8, <1>9, PageAddressIndex
  <2> QED  BY <2>1, <1>9 DEF Held, n
<1>11. \A d \in Callers \ {c} : /\ ptr'[d] = ptr[d]
                               /\ size'[d] = size[d]
  BY <1>4 DEF IInv, TypeOK
<1>12. \A d \in Callers \ {c} : Held(d)' = Held(d)
  BY <1>11 DEF Held
<1> QED  BY <1>1, <1>3, <1>5, <1>6, <1>7, <1>10, <1>11, <1>12 DEF n, start

LEMMA AllocStep ==
    ASSUME PositiveSizes, IInv, NEW c \in Callers, NEW s \in Sizes,
           heap = "ready", ptr[c] = NULL, kzallocFound(c, s)
    PROVE  IInv'
<1> DEFINE n     == PageCount(s)
           start == First(Hits(n)) + 1 - n
           run   == start .. (start + n - 1)
<1>1. /\ n \in Nat \ {0}
      /\ start \in Index
      /\ run \subseteq Index
      /\ \A i \in run : table[i] = {}
      /\ \A d \in Callers : Held(d) \cap run = {}
      /\ Held(c)' = run
      /\ \A d \in Callers \ {c} : Held(d)' = Held(d) /\ ptr'[d] = ptr[d]
  BY AllocTakesFreeRun
<1>2. /\ table' = markEntryTaken(start, n)
      /\ ptr' = [ptr EXCEPT ![c] = PageAddress(start)]
      /\ size' = [size EXCEPT ![c] = s]
      /\ mem' = [i \in Index |-> IF i \in run THEN Zeroed ELSE mem[i]]
      /\ last' = [call |-> "kzalloc", arg |-> s, val |-> PageAddress(start)]
      /\ heap' = "ready"
  BY DEF kzallocFound
<1> HIDE DEF n, start
<1>3. start \in Nat
  BY <1>1, TableSizeAssumption DEF Index
<1>4. \A i \in Index \ run : table'[i] = table[i]
  BY <1>1, <1>2 DEF markEntryTaken
<1>5. \A i \in run : table'[i] = BlockFlags(c, i)'
  <2> SUFFICES ASSUME NEW i \in run PROVE table'[i] = BlockFlags(c, i)'
    OBVIOUS
  <2>1. i \in Index /\ table[i] = {} /\ i \in Nat
    BY <1>1, TableSizeAssumption DEF Index
  <2>2. table'[i] = {LOCKED} \cup (IF i = start THEN {START} ELSE {})
                             \cup (IF i + 1 # start + n THEN {NEXT} ELSE {})
    BY <2>1, <1>2 DEF markEntryTaken
  <2>3. ptr'[c] = PageAddress(start)
    BY <1>2 DEF IInv, TypeOK
  <2>4. i = start <=> PageAddress(i) = ptr'[c]
    BY <2>1, <2>3, <1>3, PageAddressInjective
  <2>5. i + 1 # start + n <=> i + 1 \in Held(c)'
    BY <1>1, <1>3, <2>1
  <2> QED  BY <2>2, <2>4, <2>5 DEF BlockFlags
<1>6. TypeOK'
  <2>1. table' \in [Index -> SUBSET FLAGS]
    BY <1>2 DEF markEntryTaken, IInv, TypeOK, FLAGS
  <2>2. mem' \in [Index -> {Zeroed, Unknown} \cup Callers]
    BY <1>2 DEF IInv, TypeOK
  <2>3. ptr' \in [Callers -> {NULL} \cup {PageAddress(i) : i \in Index}]
    BY <1>1, <1>2 DEF IInv, TypeOK
  <2>4. PageAddress(start) \in Int
    BY <1>3, PageAddressIndex
  <2>5. /\ size' \in [Callers -> Sizes \cup {0}]
        /\ last' \in [call : {"none", "kzalloc", "kzfree"},
                      arg : Sizes \cup {0}, val : Int]
    BY <1>2, <2>4 DEF IInv, TypeOK
  <2> QED  BY <1>2, <2>1, <2>2, <2>3, <2>5 DEF TypeOK
<1>7. BlocksDisjoint'
  BY <1>1, ZenonT(40) DEF IInv, BlocksDisjoint
<1>8. TableDescribesBlocks'
  <2>1. ASSUME NEW d \in Callers
        PROVE  /\ Held(d)' \subseteq Index
               /\ ptr'[d] # NULL => heap' = "ready" /\ Held(d)' # {}
               /\ \A i \in Held(d)' : table'[i] = BlockFlags(d, i)'
    <3>1. CASE d = c
      <4>1. start \in run
        BY <1>1, <1>3
      <4> QED  BY <3>1, <4>1, <1>1, <1>2, <1>5
    <3>2. CASE d # c
      <4>1. Held(d)' = Held(d) /\ ptr'[d] = ptr[d]
        BY <3>2, <1>1
      <4>2. \A i \in Held(d) : BlockFlags(d, i)' = BlockFlags(d, i)
        BY <4>1 DEF BlockFlags
      <4>3. \A i \in Held(d) : i \in Index \ run
        BY <1>1 DEF IInv, TableDescribesBlocks
      <4> QED  BY <4>1, <4>2, <4>3, <1>2, <1>4 DEF IInv, TableDescribesBlocks
    <3> QED  BY <3>1, <3>2
  <2>2. ASSUME NEW i \in Index, \A d \in Callers : i \notin Held(d)'
        PROVE  table'[i] = {}
    <3>1. i \notin run /\ \A d \in Callers \ {c} : i \notin Held(d)
      BY <1>1, <2>2
    <3>2. i \notin Held(c)
      BY DEF Held
    <3> QED  BY <3>1, <3>2, <1>4 DEF IInv, TableDescribesBlocks
  <2> QED  BY <2>1, <2>2 DEF TableDescribesBlocks
<1> QED  BY <1>6, <1>7, <1>8 DEF IInv

(* kzfree of a live block empties its holder's hands and nobody else's.    *)
LEMMA FreeReleasesBlock ==
    ASSUME IInv, NEW c \in Callers, kzfree(c)
    PROVE  /\ table' = [i \in Index |-> IF i \in Held(c) THEN {} ELSE table[i]]
           /\ last' = [call |-> "kzfree", arg |-> 0, val |-> 0]
           /\ Held(c)' = {}
           /\ \A d \in Callers \ {c} : Held(d)' = Held(d) /\ ptr'[d] = ptr[d]
<1>1. ptr[c] # NULL
  BY DEF kzfree
<1>2. PICK i \in Nat : ptr[c] = PageAddress(i)
  BY <1>1, TableSizeAssumption DEF IInv, TypeOK, Index
<1>3. Aligned(ptr[c])
  BY <1>2, PageAddressIndex
<1>4. START \in table[addressToTableIndex(ptr[c])]
  BY <1>1, FreeClearsBlock DEF IInv
<1>5. /\ table' = freeAllocatedMemory(addressToTableIndex(ptr[c]))
      /\ last' = [call |-> "kzfree", arg |-> 0, val |-> 0]
  BY <1>1, <1>3, <1>4 DEF kzfree, kzfreePage
<1>6. table' = [j \in Index |-> IF j \in Held(c) THEN {} ELSE table[j]]
  BY <1>1, <1>5, FreeClearsBlock DEF IInv
<1>7. /\ ptr' = [ptr EXCEPT ![c] = NULL]
      /\ size' = [size EXCEPT ![c] = 0]
  BY DEF kzfree
<1>8. Held(c)' = {}
  BY <1>7 DEF Held, IInv, TypeOK
<1>9. \A d \in Callers \ {c} : ptr'[d] = ptr[d] /\ size'[d] = size[d]
  BY <1>7 DEF IInv, TypeOK
<1>10. \A d \in Callers \ {c} : Held(d)' = Held(d)
  BY <1>9 DEF Held
<1> QED  BY <1>5, <1>6, <1>8, <1>9, <1>10

LEMMA FreeStep ==
    ASSUME IInv, NEW c \in Callers, kzfree(c)
    PROVE  IInv'
<1>1. /\ table' = [i \in Index |-> IF i \in Held(c) THEN {} ELSE table[i]]
      /\ last' = [call |-> "kzfree", arg |-> 0, val |-> 0]
      /\ Held(c)' = {}
      /\ \A d \in Callers \ {c} : Held(d)' = Held(d) /\ ptr'[d] = ptr[d]
  BY FreeReleasesBlock
<1>2. /\ ptr' = [ptr EXCEPT ![c] = NULL]
      /\ size' = [size EXCEPT ![c] = 0]
      /\ UNCHANGED <<heap, mem>>
  BY DEF kzfree
<1>3. TypeOK'
  BY <1>1, <1>2 DEF IInv, TypeOK
<1>4. BlocksDisjoint'
  BY <1>1 DEF IInv, BlocksDisjoint
<1>5. TableDescribesBlocks'
  <2>1. ASSUME NEW d \in Callers
        PROVE  /\ Held(d)' \subseteq Index
               /\ ptr'[d] # NULL => heap' = "ready" /\ Held(d)' # {}
               /\ \A i \in Held(d)' : table'[i] = BlockFlags(d, i)'
    <3>1. CASE d = c
      BY <3>1, <1>1, <1>2 DEF IInv, TypeOK
    <3>2. CASE d # c
      <4>1. Held(d)' = Held(d) /\ ptr'[d] = ptr[d]
        BY <3>2, <1>1
      <4>2. \A i \in Held(d) : BlockFlags(d, i)' = BlockFlags(d, i)
        BY <4>1 DEF BlockFlags
      <4>3. \A i \in Held(d) : i \in Index /\ i \notin Held(c)
        BY <3>2 DEF IInv, TableDescribesBlocks, BlocksDisjoint
      <4> QED  BY <4>1, <4>2, <4>3, <1>1, <1>2 DEF IInv, TableDescribesBlocks
    <3> QED  BY <3>1, <3>2
  <2>2. ASSUME heap' = "ready",
               NEW i \in Index, \A d \in Callers : i \notin Held(d)'
        PROVE  table'[i] = {}
    <3>1. CASE i \in Held(c)
      BY <3>1, <1>1
    <3>2. CASE i \notin Held(c)
      <4>1. \A d \in Callers : i \notin Held(d)
        BY <3>2, <2>2, <1>1
      <4> QED  BY <4>1, <2>2, <1>1, <1>2 DEF IInv, TableDescribesBlocks
    <3> QED  BY <3>1, <3>2
  <2> QED  BY <2>1, <2>2 DEF TableDescribesBlocks
<1> QED  BY <1>3, <1>4, <1>5 DEF IInv

(* kzfree of anything else is refused, and changes nothing but the answer. *)
LEMMA StrayIsRejected ==
    ASSUME IInv, NEW a \in Strays, kzfreeStray(a)
    PROVE  /\ UNCHANGED <<heap, table, mem, ptr, size>>
           /\ last' = [call |-> "kzfree", arg |-> 0, val |-> -EIARG]
<1>1. UNCHANGED <<heap, mem, ptr, size>> /\ kzfreePage(a) /\ heap = "ready"
  BY DEF kzfreeStray
<1>2. a = NULL \/ ~ Aligned(a) \/ START \notin table[addressToTableIndex(a)]
  <2>1. CASE a = NULL
    BY <2>1
  <2>2. CASE \E i \in Index : a = PageAddress(i)
    <3>1. PICK i \in Index : a = PageAddress(i)
      BY <2>2
    <3>2. i \in Nat
      BY TableSizeAssumption DEF Index
    <3>3. addressToTableIndex(a) = i /\ a # NULL
      BY <3>1, <3>2, PageAddressIndex
    <3>4. \A c \in Callers : ptr[c] # PageAddress(i)
      BY <3>1, <3>3 DEF kzfreeStray
    <3> QED  BY <3>3, <3>4, <1>1, StrayHasNoStart DEF IInv
  <2>3. CASE \E i \in Index : a = PageAddress(i) + 8
    <3>1. PICK i \in Nat : a = PageAddress(i) + 8
      BY <2>3, TableSizeAssumption DEF Index
    <3> QED  BY <3>1, PageAddressIndex
  <2> QED  BY <2>1, <2>2, <2>3 DEF Strays
<1> QED  BY <1>1, <1>2 DEF kzfreePage

(* A step that leaves the table, the pointers and the sizes alone.         *)
LEMMA SameBlocks ==
    ASSUME UNCHANGED <<heap, table, ptr, size>>
    PROVE  /\ \A c \in Callers : Held(c)' = Held(c)
           /\ BlocksDisjoint' = BlocksDisjoint
           /\ TableDescribesBlocks' = TableDescribesBlocks
BY DEF Held, BlocksDisjoint, TableDescribesBlocks, BlockFlags
-----------------------------------------------------------------------------
LEMMA InvInit == Init => IInv
<1> SUFFICES ASSUME Init PROVE IInv
  OBVIOUS
<1>1. \A c \in Callers : Held(c) = {}
  BY DEF Init, Held
<1>2. TypeOK
  BY DEF Init, TypeOK
<1> QED  BY <1>1, <1>2 DEF Init, IInv, BlocksDisjoint, TableDescribesBlocks

LEMMA InvNext ==
    ASSUME PositiveSizes, IInv, [Next]_vars
    PROVE  IInv'
<1>1. CASE kheapInit
  <2>1. UNCHANGED <<mem, ptr, size, last>> /\ heap = "uninit"
    BY <1>1 DEF kheapInit
  <2>2. \A c \in Callers : ptr[c] = NULL /\ ptr'[c] = NULL
    BY <2>1 DEF IInv, TableDescribesBlocks
  <2>3. \A c \in Callers : Held(c)' = {}
    BY <2>2 DEF Held
  <2>4. \/ heap' = "panic" /\ table' = table
        \/ heap' = "ready" /\ table' = [i \in Index |-> {}]
    BY <1>1 DEF kheapInit
  <2>5. TypeOK'
    BY <2>1, <2>4 DEF IInv, TypeOK
  <2>6. BlocksDisjoint'
    BY <2>3 DEF BlocksDisjoint
  <2>7. TableDescribesBlocks'
    BY <2>2, <2>3, <2>4 DEF TableDescribesBlocks
  <2> QED  BY <2>5, <2>6, <2>7 DEF IInv
<1>2. ASSUME NEW c \in Callers, NEW s \in Sizes, kzalloc(c, s)
      PROVE  IInv'
  <2>1. CASE kzallocFound(c, s)
    BY <1>2, <2>1, AllocStep DEF kzalloc
  <2>2. CASE kzallocNoMemory(c, s)
    <3>1. /\ UNCHANGED <<heap, table, mem, ptr, size>>
          /\ last' = [call |-> "kzalloc", arg |-> s, val |-> NULL]
      BY <2>2 DEF kzallocNoMemory
    <3>2. TypeOK'
      BY <3>1 DEF IInv, TypeOK, NULL
    <3> QED  BY <3>1, <3>2, SameBlocks DEF IInv
  <2> QED  BY <1>2, <2>1, <2>2 DEF kzalloc
<1>3. ASSUME NEW c \in Callers, Store(c)
      PROVE  IInv'
  <2>1. /\ UNCHANGED <<heap, table, ptr, size, last>>
        /\ mem' = [i \in Index |-> IF i \in Held(c) THEN c ELSE mem[i]]
    BY <1>3 DEF Store
  <2>2. TypeOK'
    BY <2>1 DEF IInv, TypeOK
  <2> QED  BY <2>1, <2>2, SameBlocks DEF IInv
<1>4. ASSUME NEW c \in Callers, kzfree(c)
      PROVE  IInv'
  BY <1>4, FreeStep
<1>5. ASSUME NEW a \in Strays, kzfreeStray(a)
      PROVE  IInv'
  <2>1. /\ UNCHANGED <<heap, table, mem, ptr, size>>
        /\ last' = [call |-> "kzfree", arg |-> 0, val |-> -EIARG]
    BY <1>5, StrayIsRejected
  <2>2. TypeOK'
    BY <2>1 DEF IInv, TypeOK, EIARG
  <2> QED  BY <2>1, <2>2, SameBlocks DEF IInv
<1>6. CASE UNCHANGED vars
  <2>1. TypeOK'
    BY <1>6 DEF vars, IInv, TypeOK
  <2> QED  BY <1>6, <2>1, SameBlocks DEF vars, IInv
<1> QED  BY <1>1, <1>2, <1>3, <1>4, <1>5, <1>6 DEF Next

(* The table describes the live blocks, whatever calls are made.           *)
THEOREM HeapInvariant ==
    ASSUME PositiveSizes
    PROVE  Spec => []IInv
<1>1. IInv /\ [Next]_vars => IInv'
  BY InvNext
<1> QED  BY <1>1, InvInit, PTL DEF Spec

(* Live blocks never share a page, and every flag in the table is accounted *)
(* for by a live block.                                                    *)
THEOREM HeapSafety ==
    ASSUME PositiveSizes
    PROVE  Spec => [](TypeOK /\ BlocksDisjoint /\ TableDescribesBlocks)
BY HeapInvariant, PTL DEF IInv
-----------------------------------------------------------------------------
(* What callers see: their data, and what NULL means.                      *)

LEMMA DataNext ==
    ASSUME PositiveSizes, IInv, DataIntact, [Next]_vars
    PROVE  DataIntact'
<1>1. CASE kheapInit
  <2>1. \A c \in Callers : Held(c)' = {}
    BY <1>1 DEF kheapInit, IInv, TableDescribesBlocks, Held
  <2> QED  BY <2>1 DEF DataIntact
<1>2. ASSUME NEW c \in Callers, NEW s \in Sizes, kzalloc(c, s)
      PROVE  DataIntact'
  <2>1. CASE kzallocFound(c, s)
    <3> DEFINE n     == PageCount(s)
               start == First(Hits(n)) + 1 - n
               run   == start .. (start + n - 1)
    <3>1. /\ run \subseteq Index
          /\ \A d \in Callers : Held(d) \cap run = {}
          /\ Held(c)' = run
          /\ \A d \in Callers \ {c} : Held(d)' = Held(d)
      BY <1>2, <2>1, AllocTakesFreeRun DEF kzalloc
    <3>2. mem' = [i \in Index |-> IF i \in run THEN Zeroed ELSE mem[i]]
      BY <2>1 DEF kzallocFound
    <3> HIDE DEF run
    <3>3. ASSUME NEW d \in Callers, NEW i \in Held(d)', NEW j \in Held(d)'
          PROVE  mem'[i] \in {Zeroed, d} /\ mem'[i] = mem'[j]
      <4>1. CASE d = c
        BY <4>1, <3>1, <3>2, <3>3
      <4>2. CASE d # c
        <5>1. i \in Held(d) /\ j \in Held(d) /\ i \notin run /\ j \notin run
          BY <4>2, <3>1, <3>3
        <5>2. i \in Index /\ j \in Index
          BY <5>1 DEF IInv, TableDescribesBlocks
        <5>3. mem'[i] = mem[i] /\ mem'[j] = mem[j]
          BY <5>1, <5>2, <3>2
        <5> QED  BY <5>1, <5>3 DEF DataIntact
      <4> QED  BY <4>1, <4>2
    <3> QED  BY <3>3 DEF DataIntact
  <2>2. CASE kzallocNoMemory(c, s)
    <3>1. UNCHANGED <<heap, table, mem, ptr, size>>
      BY <2>2 DEF kzallocNoMemory
    <3> QED  BY <3>1, SameBlocks DEF DataIntact
  <2> QED  BY <1>2, <2>1, <2>2 DEF kzalloc
<1>3. ASSUME NEW c \in Callers, Store(c)
      PROVE  DataIntact'
  <2>1. /\ \A d \in Callers : Held(d)' = Held(d)
        /\ mem' = [i \in Index |-> IF i \in Held(c) THEN c ELSE mem[i]]
    BY <1>3, SameBlocks DEF Store
  <2>2. ASSUME NEW d \in Callers, NEW i \in Held(d), NEW j \in Held(d)
        PROVE  mem'[i] \in {Zeroed, d} /\ mem'[i] = mem'[j]
    <3>1. i \in Index /\ j \in Index
      BY DEF IInv, TableDescribesBlocks
    <3>2. CASE d = c
      BY <3>1, <3>2, <2>1
    <3>3. CASE d # c
      <4>1. i \notin Held(c) /\ j \notin Held(c)
        BY <3>3, <2>2 DEF IInv, BlocksDisjoint
      <4> QED  BY <4>1, <3>1, <2>1 DEF DataIntact
    <3> QED  BY <3>2, <3>3
  <2> QED  BY <2>1, <2>2 DEF DataIntact
<1>4. ASSUME NEW c \in Callers, kzfree(c)
      PROVE  DataIntact'
  <2>1. \A d \in Callers : Held(d)' = {} \/ Held(d)' = Held(d)
    BY <1>4, FreeReleasesBlock
  <2>2. mem' = mem
    BY <1>4 DEF kzfree
  <2> QED  BY <2>1, <2>2 DEF DataIntact
<1>5. ASSUME NEW a \in Strays, kzfreeStray(a)
      PROVE  DataIntact'
  <2>1. UNCHANGED <<heap, table, mem, ptr, size>>
    BY <1>5, StrayIsRejected
  <2> QED  BY <2>1, SameBlocks DEF DataIntact
<1>6. CASE UNCHANGED vars
  BY <1>6, SameBlocks DEF vars, DataIntact
<1> QED  BY <1>1, <1>2, <1>3, <1>4, <1>5, <1>6 DEF Next

(* What a caller stored stays until it stores again or frees its block.    *)
THEOREM HeapData ==
    ASSUME PositiveSizes
    PROVE  Spec => []DataIntact
<1>1. Init => DataIntact
  BY DEF Init, DataIntact, Held
<1>2. IInv /\ DataIntact /\ [Next]_vars => DataIntact'
  BY DataNext
<1> QED  BY <1>1, <1>2, HeapInvariant, PTL DEF Spec

LEMMA RefusedNext ==
    ASSUME PositiveSizes, IInv, RefusedOnlyWhenFull, [Next]_vars
    PROVE  RefusedOnlyWhenFull'
<1>1. CASE kheapInit
  <2>1. \A c \in Callers : Held(c)' = Held(c)
    BY <1>1 DEF kheapInit, Held
  <2> QED  BY <1>1, <2>1 DEF kheapInit, RefusedOnlyWhenFull
<1>2. ASSUME NEW c \in Callers, NEW s \in Sizes, kzalloc(c, s)
      PROVE  RefusedOnlyWhenFull'
  <2>1. CASE kzallocFound(c, s)
    <3> DEFINE start == First(Hits(PageCount(s))) + 1 - PageCount(s)
    <3>1. start \in Nat
      BY <1>2, <2>1, AllocTakesFreeRun, TableSizeAssumption DEF kzalloc, Index
    <3>2. last'.val = PageAddress(start)
      BY <2>1 DEF kzallocFound
    <3> HIDE DEF start
    <3>3. last'.val # NULL
      BY <3>1, <3>2, PageAddressIndex
    <3> QED  BY <3>3 DEF RefusedOnlyWhenFull
  <2>2. CASE kzallocNoMemory(c, s)
    <3>1. /\ UNCHANGED <<heap, table, mem, ptr, size>>
          /\ last'.arg = s
          /\ Hits(PageCount(s)) = {}
      BY <2>2 DEF kzallocNoMemory
    <3>2. PageCount(s) \in Nat \ {0}
      BY PageCountNat DEF PositiveSizes
    <3>3. ASSUME NEW a \in Index
          PROVE  \E i \in a .. (a + PageCount(s) - 1) :
                    i \notin Index \/ \E d \in Callers : i \in Held(d)
      <4>1. PICK i \in a .. (a + PageCount(s) - 1) : i \notin Index \/ Locked(i)
        BY <3>1, <3>2, NoHitNoRun
      <4>2. i \in Index => \E d \in Callers : i \in Held(d)
        BY <4>1, <1>2 DEF kzalloc, Locked, IInv, TableDescribesBlocks
      <4> QED  BY <4>1, <4>2
    <3>4. \A d \in Callers : Held(d)' = Held(d)
      BY <3>1, SameBlocks
    <3> QED  BY <3>1, <3>3, <3>4 DEF RefusedOnlyWhenFull
  <2> QED  BY <1>2, <2>1, <2>2 DEF kzalloc
<1>3. ASSUME NEW c \in Callers, Store(c)
      PROVE  RefusedOnlyWhenFull'
  BY <1>3, SameBlocks DEF Store, RefusedOnlyWhenFull
<1>4. ASSUME NEW c \in Callers, kzfree(c)
      PROVE  RefusedOnlyWhenFull'
  BY <1>4, FreeReleasesBlock DEF RefusedOnlyWhenFull
<1>5. ASSUME NEW a \in Strays, kzfreeStray(a)
      PROVE  RefusedOnlyWhenFull'
  BY <1>5, StrayIsRejected DEF RefusedOnlyWhenFull
<1>6. CASE UNCHANGED vars
  BY <1>6, SameBlocks DEF vars, RefusedOnlyWhenFull
<1> QED  BY <1>1, <1>2, <1>3, <1>4, <1>5, <1>6 DEF Next

(* kzalloc answers NULL only when no free run of the length asked exists.  *)
THEOREM HeapNullMeansFull ==
    ASSUME PositiveSizes
    PROVE  Spec => []RefusedOnlyWhenFull
<1>1. Init => RefusedOnlyWhenFull
  BY DEF Init, RefusedOnlyWhenFull
<1>2. IInv /\ RefusedOnlyWhenFull /\ [Next]_vars => RefusedOnlyWhenFull'
  BY RefusedNext
<1> QED  BY <1>1, <1>2, HeapInvariant, PTL DEF Spec
-----------------------------------------------------------------------------
(* Refinement.                                                             *)

LEMMA RefineInit == Init => Heap!HeapInit
<1> SUFFICES ASSUME Init PROVE Heap!HeapInit
  OBVIOUS
<1>1. \A c \in Callers : Held(c) = {}
  BY DEF Init, Held
<1>2. /\ PageCount(last.arg) = 0
      /\ last.call = "none" /\ last.val = 0
  BY PageCountZero DEF Init
<1> QED  BY <1>1, <1>2 DEF Init, Heap!HeapInit, Unknown, Heap!Unknown

(* The pages that KHeap calls taken are those of the live blocks.          *)
LEMMA TakenIsHeld ==
    \A i : i \in Heap!Taken <=> \E c \in Callers : i \in Held(c)
BY DEF Heap!Taken

LEMMA RefineGrant ==
    ASSUME PositiveSizes, IInv, NEW c \in Callers, NEW s \in Sizes,
           heap = "ready", ptr[c] = NULL, kzallocFound(c, s)
    PROVE  Heap!Grant(c, PageCount(s))
<1> DEFINE n     == PageCount(s)
           start == First(Hits(n)) + 1 - n
           run   == start .. (start + n - 1)
<1>1. /\ start \in Index
      /\ run \subseteq Index
      /\ \A d \in Callers : Held(d) \cap run = {}
      /\ Held(c) = {}
      /\ Held(c)' = run
      /\ \A d \in Callers \ {c} : Held(d)' = Held(d)
  BY AllocTakesFreeRun
<1>2. /\ mem' = [i \in Index |-> IF i \in run THEN Zeroed ELSE mem[i]]
      /\ last' = [call |-> "kzalloc", arg |-> s, val |-> PageAddress(start)]
  BY DEF kzallocFound
<1> HIDE DEF n, start
<1>3. PageAddress(start) # NULL
  BY <1>1, PageAddressIndex, TableSizeAssumption DEF Index
<1>4. Heap!FreeRun(start, n)
  BY <1>1, TakenIsHeld DEF Heap!FreeRun
<1>5. [d \in Callers |-> Held(d)]' = [[d \in Callers |-> Held(d)] EXCEPT ![c] = run]
  BY <1>1
<1>6. [call  |-> last.call, pages |-> PageCount(last.arg),
       ok    |-> IF last.call = "kzalloc" THEN last.val # NULL
                                          ELSE last.val = 0]'
        = [call |-> "kzalloc", pages |-> n, ok |-> TRUE]
  BY <1>2, <1>3 DEF n
<1> QED  BY <1>1, <1>2, <1>4, <1>5, <1>6
         DEF Heap!Grant, Zeroed, Heap!Zeroed, n

LEMMA RefineRefuse ==
    ASSUME PositiveSizes, IInv, RefusedOnlyWhenFull', NEW c \in Callers,
           NEW s \in Sizes, ptr[c] = NULL, kzallocNoMemory(c, s)
    PROVE  Heap!Refuse(c, PageCount(s))
<1>1. /\ UNCHANGED <<heap, table, mem, ptr, size>>
      /\ last' = [call |-> "kzalloc", arg |-> s, val |-> NULL]
  BY DEF kzallocNoMemory
<1>2. \A d \in Callers : Held(d)' = Held(d)
  BY <1>1, SameBlocks
<1>3. ASSUME NEW a \in Index PROVE ~ Heap!FreeRun(a, PageCount(s))
  <2>1. PICK i \in a .. (a + PageCount(s) - 1) :
            i \notin Index \/ \E d \in Callers : i \in Held(d)
    BY <1>1, <1>2 DEF RefusedOnlyWhenFull
  <2> QED  BY <2>1, TakenIsHeld DEF Heap!FreeRun
<1>4. Held(c) = {}
  BY DEF Held
<1> QED  BY <1>1, <1>2, <1>3, <1>4 DEF Heap!Refuse

LEMMA RefineNext ==
    ASSUME PositiveSizes, IInv, RefusedOnlyWhenFull', [Next]_vars
    PROVE  [Heap!HeapNext]_(Heap!heapVars)
<1>1. CASE kheapInit
  <2>1. \A c \in Callers : Held(c)' = Held(c)
    BY <1>1 DEF kheapInit, Held
  <2> QED  BY <1>1, <2>1 DEF kheapInit, Heap!heapVars
<1>2. ASSUME NEW c \in Callers, NEW s \in Sizes, kzalloc(c, s)
      PROVE  Heap!HeapNext
  <2>1. Heap!Grant(c, PageCount(s)) \/ Heap!Refuse(c, PageCount(s))
    BY <1>2, RefineGrant, RefineRefuse DEF kzalloc
  <2> QED  BY <2>1 DEF Heap!HeapNext
<1>3. ASSUME NEW c \in Callers, Store(c)
      PROVE  Heap!HeapNext
  <2>1. Held(c) # {}
    BY <1>3 DEF Store, IInv, TableDescribesBlocks
  <2>2. \A d \in Callers : Held(d)' = Held(d)
    BY <1>3, SameBlocks DEF Store
  <2>3. Heap!Fill(c)
    BY <1>3, <2>1, <2>2 DEF Store, Heap!Fill
  <2> QED  BY <2>3 DEF Heap!HeapNext
<1>4. ASSUME NEW c \in Callers, kzfree(c)
      PROVE  Heap!HeapNext
  <2>1. /\ last' = [call |-> "kzfree", arg |-> 0, val |-> 0]
        /\ Held(c)' = {}
        /\ \A d \in Callers \ {c} : Held(d)' = Held(d)
    BY <1>4, FreeReleasesBlock
  <2>2. Held(c) # {} /\ mem' = mem
    BY <1>4 DEF kzfree, IInv, TableDescribesBlocks
  <2>3. Heap!Release(c)
    BY <2>1, <2>2, PageCountZero DEF Heap!Release
  <2> QED  BY <2>3 DEF Heap!HeapNext
<1>5. ASSUME NEW a \in Strays, kzfreeStray(a)
      PROVE  Heap!HeapNext
  <2>1. /\ UNCHANGED <<heap, table, mem, ptr, size>>
        /\ last' = [call |-> "kzfree", arg |-> 0, val |-> -EIARG]
    BY <1>5, StrayIsRejected
  <2>2. \A d \in Callers : Held(d)' = Held(d)
    BY <2>1, SameBlocks
  <2>3. -EIARG # 0
    BY DEF EIARG
  <2>4. /\ last'.call = "kzfree" /\ last'.arg = 0
        /\ (last'.val = 0) = FALSE
    BY <2>1, <2>3
  <2>5. Heap!Reject
    BY <2>1, <2>2, <2>4, PageCountZero DEF Heap!Reject
  <2> QED  BY <2>5 DEF Heap!HeapNext
<1>6. CASE UNCHANGED vars
  <2>1. \A c \in Callers : Held(c)' = Held(c)
    BY <1>6, SameBlocks DEF vars
  <2> QED  BY <1>6, <2>1 DEF vars, Heap!heapVars
<1> QED  BY <1>1, <1>2, <1>3, <1>4, <1>5, <1>6 DEF Next

(* The page allocator implements the heap its callers rely on.             *)
THEOREM HeapRefinement ==
    ASSUME PositiveSizes
    PROVE  Spec => ImplementsKHeap
<1>1. IInv /\ RefusedOnlyWhenFull' /\ [Next]_vars
        => [Heap!HeapNext]_(Heap!heapVars)
  BY RefineNext
<1> QED  BY <1>1, RefineInit, HeapInvariant, HeapNullMeansFull, PTL
         DEF Spec, ImplementsKHeap, Heap!HeapSpec
-----------------------------------------------------------------------------
(* Paging and Mmio.                                                        *)

(* Pages and addresses.                                                    *)
LEMMA Paged ==
    ASSUME NEW a \in Int
    PROVE  /\ a \div PAGE \in Int /\ a % PAGE \in 0 .. (PAGE - 1)
           /\ a = ((a \div PAGE) * PAGE) + (a % PAGE)
           /\ a \in Nat => a \div PAGE \in Nat
<1>1. PAGE \in Nat \ {0}
  BY PagingAssumption
<1> QED  BY <1>1

LEMMA PagedUnique ==
    ASSUME NEW q \in Int, NEW k \in 0 .. (PAGE - 1)
    PROVE  (q * PAGE + k) \div PAGE = q /\ (q * PAGE + k) % PAGE = k
<1>1. PAGE \in Nat \ {0}
  BY PagingAssumption
<1> QED  BY <1>1

LEMMA PagesOrder ==
    ASSUME NEW p \in Int, NEW q \in Int
    PROVE  /\ p * PAGE \in Int
           /\ p <= q <=> p * PAGE <= q * PAGE
           /\ p < q <=> p * PAGE < q * PAGE
           /\ p < q => p * PAGE + PAGE <= q * PAGE
           /\ (p + q) * PAGE = p * PAGE + q * PAGE
           /\ (p - q) * PAGE = p * PAGE - q * PAGE
<1>1. PAGE \in Nat \ {0}
  BY PagingAssumption
<1>2. ASSUME NEW x \in Int, NEW y \in Int, x < y PROVE x * PAGE + PAGE <= y * PAGE
  <2>1. (y - x) * PAGE >= PAGE
    BY <1>1, <1>2
  <2> QED  BY <1>1, <2>1
<1>3. p < q => p * PAGE + PAGE <= q * PAGE
  BY <1>2
<1>4. q < p => q * PAGE + PAGE <= p * PAGE
  BY <1>2
<1>5. p * PAGE \in Int /\ q * PAGE \in Int
  BY <1>1
<1>6. (p + q) * PAGE = p * PAGE + q * PAGE /\ (p - q) * PAGE = p * PAGE - q * PAGE
  BY <1>1
<1> QED  BY <1>1, <1>3, <1>4, <1>5, <1>6

(* Whole pages, as a number of them.                                       *)
LEMMA WholePages ==
    ASSUME NEW a \in Int, a % PAGE = 0
    PROVE  a \div PAGE \in Int /\ a = (a \div PAGE) * PAGE
<1>1. PAGE \in Nat \ {0} /\ a \div PAGE \in Int
  BY PagingAssumption, Paged
<1>2. (a \div PAGE) * PAGE \in Int
  BY <1>1
<1> QED  BY <1>1, <1>2, Paged

LEMMA Rounded ==
    ASSUME NEW a \in Nat
    PROVE  /\ downToPage(a) \in Nat /\ downToPage(a) % PAGE = 0
           /\ downToPage(a) <= a /\ a < downToPage(a) + PAGE
           /\ downToPage(a) = (a \div PAGE) * PAGE
           /\ upToPage(a) \in Nat /\ upToPage(a) % PAGE = 0
           /\ a <= upToPage(a) /\ upToPage(a) < a + PAGE
<1>1. PAGE \in Nat \ {0}
  BY PagingAssumption
<1>2. /\ a \div PAGE \in Int /\ a % PAGE \in 0 .. (PAGE - 1)
      /\ a = ((a \div PAGE) * PAGE) + (a % PAGE) /\ a \div PAGE \in Nat
  BY Paged
<1> DEFINE q == a \div PAGE
<1>3. downToPage(a) = q * PAGE
  BY <1>1, <1>2 DEF downToPage
<1>4. downToPage(a) \in Nat /\ downToPage(a) <= a /\ a < downToPage(a) + PAGE
  BY <1>1, <1>2 DEF downToPage
<1>5. /\ q \in Nat /\ q + 1 \in Int /\ 0 \in 0 .. (PAGE - 1)
      /\ q * PAGE \in Int /\ (q + 1) * PAGE = q * PAGE + PAGE
  BY <1>1, <1>2
<1> HIDE DEF q
<1>6. (q * PAGE + 0) % PAGE = 0 /\ ((q + 1) * PAGE + 0) % PAGE = 0
  BY <1>5, PagedUnique
<1>7. (q * PAGE) % PAGE = 0 /\ (q * PAGE + PAGE) % PAGE = 0
  <2>1. q * PAGE + 0 = q * PAGE /\ (q + 1) * PAGE + 0 = q * PAGE + PAGE
    BY <1>1, <1>5
  <2> QED  BY <1>6, <2>1
<1>8. /\ upToPage(a) \in Nat /\ upToPage(a) % PAGE = 0
      /\ a <= upToPage(a) /\ upToPage(a) < a + PAGE
  <2>1. CASE a % PAGE = 0
    BY <1>1, <2>1 DEF upToPage
  <2>2. CASE a % PAGE # 0
    <3>1. upToPage(a) = a + PAGE - (a % PAGE)
      BY <2>2 DEF upToPage
    <3>2. upToPage(a) = q * PAGE + PAGE
      BY <1>1, <1>2, <1>5, <3>1 DEF q
    <3> QED  BY <1>1, <1>2, <1>7, <2>2, <3>1, <3>2
  <2> QED  BY <2>1, <2>2
<1>9. downToPage(a) % PAGE = 0
  BY <1>3, <1>7
<1> QED  BY <1>3, <1>4, <1>8, <1>9 DEF q

(* Rounding keeps entries that follow one another apart.                   *)
LEMMA RoundedApart ==
    ASSUME NEW a \in Nat, NEW l \in Nat, NEW b \in Nat, a + l <= b
    PROVE  downToPage(a) + downToPage(l) <= downToPage(b)
<1>1. PAGE \in Nat \ {0}
  BY PagingAssumption
<1> DEFINE p == a \div PAGE
           q == l \div PAGE
           r == b \div PAGE
<1>2. /\ downToPage(a) = p * PAGE /\ downToPage(l) = q * PAGE /\ downToPage(b) = r * PAGE
      /\ p * PAGE <= a /\ q * PAGE <= l /\ b < r * PAGE + PAGE
  BY Rounded
<1>3. p \in Int /\ q \in Int /\ r \in Int
  BY Paged
<1> HIDE DEF p, q, r
<1>4. (p + q) * PAGE = p * PAGE + q * PAGE /\ p * PAGE \in Int /\ q * PAGE \in Int /\ r * PAGE \in Int
  BY <1>3, PagesOrder
<1>5. (r + 1) * PAGE = r * PAGE + PAGE
  BY <1>1, <1>3
<1>6. (p + q) * PAGE < (r + 1) * PAGE
  BY <1>1, <1>2, <1>4, <1>5
<1>7. p + q < r + 1
  BY <1>3, <1>6, PagesOrder
<1>8. (p + q) * PAGE <= r * PAGE
  BY <1>3, <1>7, PagesOrder
<1> QED  BY <1>2, <1>4, <1>8
-----------------------------------------------------------------------------
LEMMA SeqElement ==
    ASSUME NEW S, NEW s \in Seq(S)
    PROVE  Len(s) \in Nat /\ DOMAIN s = 1 .. Len(s) /\ \A i \in 1 .. Len(s) : s[i] \in S
OBVIOUS

LEMMA ModIs ==
    ASSUME NEW m \in Int, NEW s \in Nat \ {0}, NEW k \in 0 .. (s - 1)
    PROVE  (m * s + k) % s = k
OBVIOUS

(* The pages an int counts.                                                *)
IntPages == INT_RANGE \div PAGE

LEMMA Spaces ==
    /\ PAGE \in Nat \ {0} /\ VSPACE \in Nat \ {0} /\ IntPages \in Nat \ {0}
    /\ INT_RANGE \in Nat \ {0} /\ INT_RANGE = IntPages * PAGE /\ 2 * INT_RANGE = (2 * IntPages) * PAGE
    /\ VSIZE \in Nat /\ VSIZE = VSPACE * PAGE /\ 2 * IntPages <= VSPACE
<1>1. /\ PAGE \in Nat \ {0} /\ VSPACE \in Nat \ {0}
      /\ INT_RANGE \in Nat \ {0} /\ INT_RANGE % PAGE = 0
  BY PagingAssumption
<1>2. IntPages \in Nat /\ INT_RANGE = IntPages * PAGE
  BY <1>1, WholePages, Paged DEF IntPages
<1>3. IntPages # 0
  BY <1>1, <1>2
<1>4. VSIZE \in Nat /\ VSIZE = VSPACE * PAGE
  BY <1>1 DEF VSIZE
<1>5. 2 * INT_RANGE = (2 * IntPages) * PAGE
  BY <1>1, <1>2
<1>6. 2 * INT_RANGE <= VSIZE
  BY <1>1, <1>4, MmioAssumption, PagingAssumption
<1>7. 2 * IntPages <= VSPACE
  BY <1>1, <1>2, <1>4, <1>5, <1>6, PagesOrder
<1> QED  BY <1>1, <1>2, <1>3, <1>4, <1>5, <1>7

(* The offset of a page, in an int.                                        *)
LEMMA OffsetIs ==
    ASSUME NEW i \in Nat
    PROVE  /\ IntOffset(i) \in Int
           /\ i < IntPages => IntOffset(i) = i * PAGE
           /\ IntPages <= i /\ i < 2 * IntPages => IntOffset(i) = (i - (2 * IntPages)) * PAGE
<1> DEFINE x == i * PAGE
           m == 2 * INT_RANGE
<1>1. /\ x \in Nat /\ m \in Nat \ {0} /\ INT_RANGE \in Nat \ {0}
      /\ i < IntPages => x < INT_RANGE
      /\ IntPages <= i => INT_RANGE <= x
      /\ i < 2 * IntPages => x < m
      /\ (i - (2 * IntPages)) * PAGE = x - m
  <2>1. x \in Nat /\ m \in Nat \ {0}
    BY Spaces
  <2>2. i \in Int /\ IntPages \in Int /\ 2 * IntPages \in Int
    BY Spaces
  <2> QED  BY <2>1, <2>2, Spaces, PagesOrder
<1>2. IntOffset(i) = ((x + INT_RANGE) % m) - INT_RANGE
  BY DEF IntOffset
<1> HIDE DEF x
<1>3. (x + INT_RANGE) % m \in Int
  BY <1>1
<1>4. ASSUME x < INT_RANGE PROVE (x + INT_RANGE) % m = x + INT_RANGE
  <2>1. 0 * m + (x + INT_RANGE) = x + INT_RANGE /\ x + INT_RANGE \in 0 .. (m - 1)
    BY <1>1, <1>4
  <2> HIDE DEF m
  <2> QED  BY <1>1, <2>1, ModIs
<1>5. ASSUME INT_RANGE <= x, x < m PROVE (x + INT_RANGE) % m = x - INT_RANGE
  <2>1. 1 * m + (x - INT_RANGE) = x + INT_RANGE /\ x - INT_RANGE \in 0 .. (m - 1)
    BY <1>1, <1>5
  <2> HIDE DEF m
  <2> QED  BY <1>1, <2>1, ModIs
<1> QED  BY <1>1, <1>2, <1>3, <1>4, <1>5 DEF x

LEMMA PageOfIs ==
    ASSUME NEW q \in Int, NEW k \in 0 .. (PAGE - 1)
    PROVE  /\ PageOf(q * PAGE + k) \in 0 .. (VSPACE - 1)
           /\ 0 <= q /\ q < VSPACE => PageOf(q * PAGE + k) = q
           /\ q < 0 /\ 0 <= q + VSPACE => PageOf(q * PAGE + k) = q + VSPACE
<1>1. PageOf(q * PAGE + k) = q % VSPACE
  BY PagedUnique DEF PageOf
<1>2. VSPACE \in Nat \ {0}
  BY Spaces
<1>3. ASSUME 0 <= q, q < VSPACE PROVE q % VSPACE = q
  <2>1. 0 * VSPACE + q = q /\ q \in 0 .. (VSPACE - 1)
    BY <1>2, <1>3
  <2> QED  BY <1>2, <2>1, ModIs
<1>4. ASSUME q < 0, 0 <= q + VSPACE PROVE q % VSPACE = q + VSPACE
  <2>1. (0 - 1) * VSPACE + (q + VSPACE) = q /\ q + VSPACE \in 0 .. (VSPACE - 1)
    BY <1>2, <1>4
  <2> QED  BY <1>2, <2>1, ModIs
<1>5. q % VSPACE \in 0 .. (VSPACE - 1)
  BY <1>2
<1> QED  BY <1>1, <1>3, <1>4, <1>5

LEMMA PageOfAddress ==
    ASSUME NEW a \in Int
    PROVE  /\ PageOf(a) \in 0 .. (VSPACE - 1)
           /\ 0 <= a /\ a < VSIZE => PageOf(a) = a \div PAGE
<1> DEFINE q == a \div PAGE
<1>1. q \in Int /\ a % PAGE \in 0 .. (PAGE - 1) /\ a = (q * PAGE) + (a % PAGE)
  BY Paged
<1>2. ASSUME 0 <= a, a < VSIZE PROVE 0 <= q /\ q < VSPACE
  <2>1. q \in Nat
    BY <1>2, Paged
  <2>2. q * PAGE <= a
    BY <1>1, Spaces
  <2>3. q * PAGE < VSPACE * PAGE
    BY <1>1, <1>2, <2>2, Spaces
  <2> HIDE DEF q
  <2> QED  BY <1>1, <2>1, <2>3, Spaces, PagesOrder
<1> HIDE DEF q
<1> QED  BY <1>1, <1>2, PageOfIs DEF q

(* The page of round i of a range that begins with a page.                 *)
LEMMA VirtualPageIs ==
    ASSUME NEW c, NEW w \in Nat, c.virt = w * PAGE, w + IntPages <= VSPACE,
           NEW i \in Nat, i < 2 * IntPages
    PROVE  /\ i < IntPages => VirtualPage(c, i) = w + i
           /\ IntPages <= i /\ 2 * IntPages <= w + i => VirtualPage(c, i) = w + i - (2 * IntPages)
           /\ IntPages <= i /\ w + i < 2 * IntPages => VirtualPage(c, i) = w + i - (2 * IntPages) + VSPACE
<1>1. /\ 0 \in 0 .. (PAGE - 1) /\ IntPages \in Nat \ {0} /\ VSPACE \in Nat \ {0}
      /\ 2 * IntPages <= VSPACE /\ w * PAGE \in Int /\ i * PAGE \in Int
  BY Spaces
<1>2. CASE i < IntPages
  <2>1. c.virt + IntOffset(i) = (w + i) * PAGE + 0
    BY <1>1, <1>2, OffsetIs, PagesOrder
  <2> QED  BY <1>1, <1>2, <2>1, PageOfIs DEF VirtualPage
<1>3. CASE IntPages <= i
  <2>1. w + (i - (2 * IntPages)) = w + i - (2 * IntPages) /\ i - (2 * IntPages) \in Int
    BY <1>1
  <2>2. c.virt + IntOffset(i) = (w + i - (2 * IntPages)) * PAGE
    BY <1>1, <1>3, <2>1, OffsetIs, PagesOrder
  <2>3. (w + i - (2 * IntPages)) * PAGE = (w + i - (2 * IntPages)) * PAGE + 0
    BY <1>1, Spaces
  <2> QED  BY <1>1, <1>3, <2>2, <2>3, PageOfIs DEF VirtualPage
<1> QED  BY <1>1, <1>2, <1>3
-----------------------------------------------------------------------------
(* The loop of mapOrCreateRange, whoever calls it.                         *)

LEMMA Least ==
    ASSUME NEW S, S \subseteq Nat, S # {}
    PROVE  \E x \in S : \A y \in S : x <= y
<1>1. PICK x \in S : \A y \in S : ~ (<<y, x>> \in OpToRel(<, Nat))
  BY NatLessThanWellFounded, WFMin
<1>2. \A y \in S : ~ (y < x)
  BY <1>1, Zenon DEF OpToRel
<1> QED  BY <1>2

LEMMA TablesFinite == \A v : IsFiniteSet(TablesOf(v))
<1> SUFFICES ASSUME NEW v PROVE IsFiniteSet(TablesOf(v))
  OBVIOUS
<1> DEFINE L == 1 .. (LEVELS - 1)
           f == [l \in L |-> <<l, v \div FAN^l>>]
<1>1. IsFiniteSet(L)
  BY FS_Interval, PagingAssumption
<1>2. f \in Surjection(L, TablesOf(v))
  BY DEF Surjection, TablesOf
<1> QED  BY <1>1, <1>2, FS_Surjection

LEMMA LevelsDiffer ==
    ASSUME NEW v, NEW x \in TablesOf(v), NEW y \in TablesOf(v)
    PROVE  x[1] \in Nat /\ (x[1] = y[1] => x = y)
<1>1. PICK l \in 1 .. (LEVELS - 1) : x = <<l, v \div FAN^l>>
  BY DEF TablesOf
<1>2. PICK m \in 1 .. (LEVELS - 1) : y = <<m, v \div FAN^m>>
  BY DEF TablesOf
<1> QED  BY <1>1, <1>2

(* The heap has the pages that are taken from it.                          *)
LEMMA MadeFits ==
    ASSUME NEW v, room \in Nat
    PROVE  /\ Made(v) \subseteq Missing(v) /\ Missing(v) \subseteq TablesOf(v)
           /\ IsFiniteSet(Made(v)) /\ Cardinality(Made(v)) \in Nat
           /\ Cardinality(Made(v)) <= room
<1> DEFINE M == Made(v)
           Above(x) == {y \in Missing(v) : y[1] > x[1]}
<1>1. M \subseteq Missing(v) /\ Missing(v) \subseteq TablesOf(v)
  BY DEF Made, Missing
<1>2. IsFiniteSet(M) /\ Cardinality(M) \in Nat /\ IsFiniteSet(Missing(v))
  BY <1>1, TablesFinite, FS_Subset, FS_CardinalityType
<1>3. ASSUME room < Cardinality(M) PROVE FALSE
  <2> DEFINE S == {x[1] : x \in M}
  <2>1. M # {}
    BY <1>2, <1>3, FS_EmptySet
  <2>2. S \subseteq Nat /\ S # {}
    BY <1>1, <2>1, LevelsDiffer
  <2>3. PICK n \in S : \A m \in S : n <= m
    BY <2>2, Least
  <2>4. PICK x \in M : x[1] = n
    BY <2>3
  <2>5. \A y \in M : y # x => y[1] > x[1]
    <3> SUFFICES ASSUME NEW y \in M, y # x PROVE y[1] > x[1]
      OBVIOUS
    <3>1. y[1] \in S /\ x[1] \in Nat /\ y[1] \in Nat /\ y[1] # x[1]
      BY <1>1, LevelsDiffer
    <3>2. x[1] <= y[1]
      BY <2>3, <2>4, <3>1
    <3> HIDE DEF M, S
    <3> QED  BY <3>1, <3>2
  <2>6. M \ {x} \subseteq Above(x)
    BY <1>1, <2>5
  <2>7. Cardinality(Above(x)) < room
    BY DEF Made
  <2>8. IsFiniteSet(Above(x)) /\ Cardinality(Above(x)) \in Nat
    BY <1>2, FS_Subset, FS_CardinalityType
  <2>9. Cardinality(M \ {x}) = Cardinality(M) - 1
    BY <1>2, FS_RemoveElement
  <2>10. Cardinality(M \ {x}) <= Cardinality(Above(x))
    BY <2>6, <2>8, FS_Subset
  <2> QED  BY <1>2, <1>3, <2>7, <2>8, <2>9, <2>10
<1> QED  BY <1>1, <1>2, <1>3

(* The entry of an address.                                                *)
MapsTo(a, x) == PageOf(a) \in DOMAIN leaf /\ (leaf[PageOf(a)] * PAGE) + (a % PAGE) = x

Leaves ==
    /\ leaf = [v \in DOMAIN leaf |-> leaf[v]]
    /\ DOMAIN leaf \subseteq 0 .. (VSPACE - 1)
    /\ \A v \in DOMAIN leaf : leaf[v] \in Nat /\ TablesOf(v) \subseteq pageTables

TablesCounted ==
    /\ room \in Nat /\ heapPages \in Nat /\ IsFiniteSet(pageTables)
    /\ NoTableLost

(* A range has as many rounds as it needs, and at least one.               *)
Rounds ==
    /\ range \in [ret : {"idle", "none", "SUCCESS", "ENMEM"}, phys : Nat, virt : Nat,
                   size : Nat, page : Nat]
    /\ range.ret \in {"none", "ENMEM"} => range.page = 0 \/ range.page * PAGE < range.size
    /\ range.ret = "SUCCESS" =>
          /\ range.page > 0 /\ range.size <= range.page * PAGE
          /\ range.page = 1 \/ (range.page - 1) * PAGE < range.size

(* What a round has written stays until a later one writes the same page.  *)
Written ==
    \A i \in 0 .. (range.page - 1) :
        (\A j \in (i + 1) .. (range.page - 1) : VirtualPage(range, j) # VirtualPage(range, i)) =>
            /\ VirtualPage(range, i) \in DOMAIN leaf
            /\ leaf[VirtualPage(range, i)] = PhysicalPage(range, i)

LoopInv == Leaves /\ TablesCounted /\ Rounds /\ Written

LEMMA PageNumbers ==
    ASSUME NEW c, c.virt \in Nat, c.phys \in Nat, NEW i \in Nat
    PROVE  VirtualPage(c, i) \in 0 .. (VSPACE - 1) /\ PhysicalPage(c, i) \in 0 .. (VSPACE - 1)
<1>1. c.virt + IntOffset(i) \in Int /\ c.phys + IntOffset(i) \in Int
  BY OffsetIs
<1> QED  BY <1>1, PageOfAddress DEF VirtualPage, PhysicalPage

LEMMA LoopStep ==
    ASSUME LoopInv, mapOrCreatePage, pagingPc \in {"kernel", "tables"}
    PROVE  /\ LoopInv'
           /\ \A a, x : MapsTo(a, x) /\ PageOf(a) # VirtualPage(range, range.page) => MapsTo(a, x)'
           /\ range'.ret # "idle" /\ range'.phys = range.phys /\ range'.virt = range.virt
           /\ range'.size = range.size
<1> DEFINE v == VirtualPage(range, range.page)
           p == PhysicalPage(range, range.page)
<1>1. /\ range \in [ret : {"idle", "none", "SUCCESS", "ENMEM"}, phys : Nat, virt : Nat,
                   size : Nat, page : Nat]
      /\ range.ret = "none" /\ range.page \in Nat
  BY DEF LoopInv, Rounds, mapOrCreatePage
<1>2. v \in 0 .. (VSPACE - 1) /\ p \in 0 .. (VSPACE - 1)
  BY <1>1, PageNumbers
<1>3. /\ pageTables' = pageTables \cup Made(v) /\ room' = room - Cardinality(Made(v))
      /\ UNCHANGED <<pagingPc, firmware, memoryMap, heapPages, mapIndex, sizeMapped>>
      /\ IF Made(v) # Missing(v)
         THEN range' = [range EXCEPT !.ret = "ENMEM"] /\ UNCHANGED leaf
         ELSE /\ leaf' = [x \in DOMAIN leaf \cup {v} |-> IF x = v THEN p ELSE leaf[x]]
              /\ range' = [range EXCEPT !.page = range.page + 1,
                               !.ret = IF (range.page + 1) * PAGE < range.size
                                       THEN "none" ELSE "SUCCESS"]
  BY DEF mapOrCreatePage
<1> HIDE DEF v, p
<1>4. TablesCounted'
  <2>1. /\ room \in Nat /\ heapPages \in Nat /\ IsFiniteSet(pageTables)
        /\ heapPages = room + Cardinality(pageTables) + 1
    BY DEF LoopInv, TablesCounted, NoTableLost
  <2>2. /\ Made(v) \subseteq Missing(v) /\ IsFiniteSet(Made(v)) /\ Cardinality(Made(v)) \in Nat
        /\ Cardinality(Made(v)) <= room
    BY <2>1, MadeFits
  <2>3. pageTables \cap Made(v) = {}
    BY <2>2 DEF Missing
  <2>4. Cardinality(pageTables) \in Nat
    BY <2>1, FS_CardinalityType
  <2>5. Cardinality(pageTables \cap Made(v)) = 0
    BY <2>3, FS_EmptySet
  <2>6. /\ IsFiniteSet(pageTables')
        /\ Cardinality(pageTables') = Cardinality(pageTables) + Cardinality(Made(v))
    <3>1. IsFiniteSet(pageTables \cup Made(v))
      BY <2>1, <2>2, FS_Union
    <3>2. Cardinality(pageTables \cup Made(v))
             = Cardinality(pageTables) + Cardinality(Made(v)) - Cardinality(pageTables \cap Made(v))
      BY <2>1, <2>2, FS_Union, Zenon
    <3> QED  BY <1>3, <2>2, <2>4, <2>5, <3>1, <3>2
  <2>7. room' \in Nat /\ heapPages' \in Nat
    BY <1>3, <2>1, <2>2
  <2>8. heapPages' = room' + Cardinality(pageTables') + 1
    BY <1>3, <2>1, <2>2, <2>4, <2>6
  <2> QED  BY <2>6, <2>7, <2>8 DEF TablesCounted, NoTableLost
<1>5. CASE Made(v) # Missing(v)
  <2>1. range' = [range EXCEPT !.ret = "ENMEM"] /\ leaf' = leaf
    BY <1>3, <1>5
  <2>2. range'.ret = "ENMEM" /\ range'.page = range.page
        /\ range'.phys = range.phys /\ range'.virt = range.virt /\ range'.size = range.size
    BY <1>1, <2>1
  <2>3. Rounds'
    <3>1. range' \in [ret : {"idle", "none", "SUCCESS", "ENMEM"}, phys : Nat, virt : Nat,
                      size : Nat, page : Nat]
      BY <1>1, <2>1
    <3>2. range.page = 0 \/ range.page * PAGE < range.size
      BY <1>1 DEF LoopInv, Rounds
    <3> QED  BY <2>2, <3>1, <3>2 DEF Rounds
  <2>4. Leaves'
    BY <1>3, <2>1 DEF LoopInv, Leaves
  <2>5. Written'
    <3>1. \A i : VirtualPage(range', i) = VirtualPage(range, i) /\ PhysicalPage(range', i) = PhysicalPage(range, i)
      BY <2>2 DEF VirtualPage, PhysicalPage
    <3>2. Written
      BY DEF LoopInv
    <3> QED  BY <2>1, <2>2, <3>1, <3>2 DEF Written
  <2>6. \A a, x : MapsTo(a, x) => MapsTo(a, x)'
    BY <2>1 DEF MapsTo
  <2> QED  BY <1>4, <2>2, <2>3, <2>4, <2>5, <2>6 DEF LoopInv
<1>6. CASE Made(v) = Missing(v)
  <2>1. /\ leaf' = [x \in DOMAIN leaf \cup {v} |-> IF x = v THEN p ELSE leaf[x]]
        /\ range' = [range EXCEPT !.page = range.page + 1,
                         !.ret = IF (range.page + 1) * PAGE < range.size
                                 THEN "none" ELSE "SUCCESS"]
    BY <1>3, <1>6
  <2>2. /\ range'.page = range.page + 1
        /\ range'.ret = IF (range.page + 1) * PAGE < range.size THEN "none" ELSE "SUCCESS"
        /\ range'.phys = range.phys /\ range'.virt = range.virt /\ range'.size = range.size
    BY <1>1, <2>1
  <2>3. Rounds'
    <3> DEFINE next == IF (range.page + 1) * PAGE < range.size THEN "none" ELSE "SUCCESS"
    <3>1. range' = [ret |-> next, phys |-> range.phys, virt |-> range.virt,
                    size |-> range.size, page |-> range.page + 1]
      BY <1>1, <2>1
    <3>2. /\ range.page + 1 \in Nat /\ range.page + 1 > 0 /\ range.page + 1 - 1 = range.page
          /\ range.size \in Nat /\ (range.page = 0 => range.page + 1 = 1)
          /\ (range.page + 1) * PAGE \in Nat
      BY <1>1, Spaces
    <3>3. next \in {"idle", "none", "SUCCESS", "ENMEM"}
      OBVIOUS
    <3>4. range' \in [ret : {"idle", "none", "SUCCESS", "ENMEM"}, phys : Nat, virt : Nat,
                      size : Nat, page : Nat]
      BY <1>1, <3>1, <3>2, <3>3
    <3>5. range.page = 0 \/ range.page * PAGE < range.size
      BY <1>1 DEF LoopInv, Rounds
    <3>6. CASE (range.page + 1) * PAGE < range.size
      <4>1. range'.ret = "none"
        BY <2>2, <3>6
      <4> QED  BY <2>2, <3>4, <3>6, <4>1 DEF Rounds
    <3>7. CASE ~ ((range.page + 1) * PAGE < range.size)
      <4>1. range'.ret = "SUCCESS" /\ range.size <= (range.page + 1) * PAGE
        BY <2>2, <3>2, <3>7
      <4>2. range'.page - 1 = range.page /\ range'.page > 0 /\ (range.page = 0 => range'.page = 1)
        <5>1. range'.page = range.page + 1
          BY <2>2
        <5>2. range.page \in Nat
          BY <1>1
        <5> HIDE DEF next
        <5> QED  BY <5>1, <5>2
      <4>3. range'.page = 1 \/ (range'.page - 1) * PAGE < range'.size
        BY <2>2, <3>5, <4>2
      <4>4. range'.size <= range'.page * PAGE
        BY <2>2, <4>1
      <4> QED  BY <3>4, <4>1, <4>2, <4>3, <4>4 DEF Rounds
    <3> QED  BY <3>6, <3>7
  <2>4. \A x \in DOMAIN leaf : x # v => leaf'[x] = leaf[x]
    BY <2>1
  <2>5. DOMAIN leaf' = DOMAIN leaf \cup {v} /\ leaf'[v] = p
    BY <2>1
  <2>6. Leaves'
    <3>1. TablesOf(v) \subseteq pageTables'
      BY <1>3, <1>6 DEF Missing
    <3>2. \A x \in DOMAIN leaf : leaf[x] \in Nat /\ TablesOf(x) \subseteq pageTables
      BY DEF LoopInv, Leaves
    <3>3. leaf' = [x \in DOMAIN leaf' |-> leaf'[x]]
      BY <2>1
    <3>4. DOMAIN leaf \subseteq 0 .. (VSPACE - 1)
      BY DEF LoopInv, Leaves
    <3>5. \A x \in DOMAIN leaf' : leaf'[x] \in Nat /\ TablesOf(x) \subseteq pageTables'
      BY <1>2, <1>3, <2>4, <2>5, <3>1, <3>2
    <3> QED  BY <1>2, <2>5, <3>3, <3>4, <3>5 DEF Leaves
  <2>7. Written'
    <3>1. \A i : VirtualPage(range', i) = VirtualPage(range, i) /\ PhysicalPage(range', i) = PhysicalPage(range, i)
      BY <2>2 DEF VirtualPage, PhysicalPage
    <3> SUFFICES ASSUME NEW i \in 0 .. (range'.page - 1),
                        \A j \in (i + 1) .. (range'.page - 1) : VirtualPage(range, j) # VirtualPage(range, i)
                 PROVE  VirtualPage(range, i) \in DOMAIN leaf' /\ leaf'[VirtualPage(range, i)] = PhysicalPage(range, i)
      BY <3>1 DEF Written
    <3>2. range'.page - 1 = range.page
      BY <1>1, <2>2
    <3>3. CASE i = range.page
      BY <2>5, <3>3 DEF v, p
    <3>4. CASE i # range.page
      <4>1. i \in 0 .. (range.page - 1) /\ range.page \in (i + 1) .. (range'.page - 1)
        BY <1>1, <3>2, <3>4
      <4>2. \A j \in (i + 1) .. (range.page - 1) : j \in (i + 1) .. (range'.page - 1)
        BY <1>1, <3>2
      <4>3. VirtualPage(range, i) \in DOMAIN leaf /\ leaf[VirtualPage(range, i)] = PhysicalPage(range, i)
        BY <4>1, <4>2 DEF LoopInv, Written
      <4>4. VirtualPage(range, i) # v
        BY <4>1 DEF v
      <4> QED  BY <2>4, <2>5, <4>3, <4>4
    <3> QED  BY <3>3, <3>4
  <2>8. \A a, x : MapsTo(a, x) /\ PageOf(a) # v => MapsTo(a, x)'
    BY <2>4, <2>5 DEF MapsTo
  <2> QED  BY <1>4, <2>2, <2>3, <2>6, <2>7, <2>8 DEF LoopInv, v
<1> QED  BY <1>5, <1>6

(* A call begins, or nothing runs.                                         *)
LEMMA LoopBegins ==
    ASSUME LoopInv, UNCHANGED <<leaf, pageTables>>, TablesCounted',
           \/ range' = NoRange
           \/ \E p, v, n \in Nat : range' = Mapping(p, v, n)
    PROVE  LoopInv' /\ \A a, x : MapsTo(a, x) => MapsTo(a, x)'
<1>1. /\ range' \in [ret : {"idle", "none", "SUCCESS", "ENMEM"}, phys : Nat, virt : Nat,
                     size : Nat, page : Nat]
      /\ range'.page = 0 /\ range'.ret # "SUCCESS"
  BY DEF NoRange, Mapping
<1>2. Rounds'
  BY <1>1 DEF Rounds
<1>3. Written'
  BY <1>1 DEF Written
<1>4. Leaves'
  BY DEF LoopInv, Leaves
<1>5. \A a, x : MapsTo(a, x) => MapsTo(a, x)'
  BY DEF MapsTo
<1> QED  BY <1>2, <1>3, <1>4, <1>5 DEF LoopInv

(* What a range that begins with a page maps within the reach of an int.   *)
LEMMA RangeMaps ==
    ASSUME LoopInv, range.virt % PAGE = 0, range.phys % PAGE = 0,
           range.virt + INT_RANGE <= VSIZE, range.page <= 2 * IntPages,
           NEW n \in Nat, n < INT_RANGE, n < range.page * PAGE, range.phys + n < VSIZE
    PROVE  MapsTo(range.virt + n, range.phys + n)
<1> DEFINE w == range.virt \div PAGE
           f == range.phys \div PAGE
           i == n \div PAGE
           k == n % PAGE
<1>1. range.page \in Nat /\ range.virt \in Nat /\ range.phys \in Nat
  BY DEF LoopInv, Rounds
<1>2. /\ w \in Nat /\ range.virt = w * PAGE /\ f \in Nat /\ range.phys = f * PAGE
      /\ i \in Nat /\ k \in 0 .. (PAGE - 1) /\ n = (i * PAGE) + k
  BY <1>1, Paged, WholePages
<1> HIDE DEF w, f, i, k
<1>3. i < IntPages /\ i < range.page
  <2>1. i * PAGE \in Int /\ i * PAGE <= n
    BY <1>2, Spaces
  <2>2. i * PAGE < IntPages * PAGE /\ i * PAGE < range.page * PAGE
    BY <1>1, <1>2, <2>1, Spaces
  <2> QED  BY <1>1, <1>2, <2>2, Spaces, PagesOrder
<1>4. w + IntPages <= VSPACE /\ f + i < VSPACE
  <2>1. (w + IntPages) * PAGE = w * PAGE + IntPages * PAGE /\ (f + i) * PAGE = f * PAGE + i * PAGE
    BY <1>2, Spaces, PagesOrder
  <2>2. (w + IntPages) * PAGE <= VSPACE * PAGE
    BY <1>2, <2>1, Spaces
  <2>3. f * PAGE \in Int /\ i * PAGE \in Int
    BY <1>2, Spaces
  <2>4. (f + i) * PAGE < VSPACE * PAGE
    BY <1>2, <2>1, <2>3, Spaces
  <2> QED  BY <1>2, <2>2, <2>4, Spaces, PagesOrder
<1>5. VirtualPage(range, i) = w + i
  BY <1>2, <1>3, <1>4, VirtualPageIs, Spaces
<1>6. PhysicalPage(range, i) = f + i
  <2>1. range.phys + IntOffset(i) = (f + i) * PAGE + 0
    BY <1>2, <1>3, OffsetIs, PagesOrder, Spaces
  <2>2. 0 \in 0 .. (PAGE - 1) /\ f + i \in Int
    BY <1>2, Spaces
  <2>3. PageOf((f + i) * PAGE + 0) = f + i
    BY <1>2, <1>4, <2>2, PageOfIs
  <2> QED  BY <2>1, <2>3 DEF PhysicalPage
<1>7. ASSUME NEW j \in (i + 1) .. (range.page - 1) PROVE VirtualPage(range, j) # VirtualPage(range, i)
  <2>1. j \in Nat /\ j < 2 * IntPages /\ i < j
    BY <1>1, <1>2, Spaces
  <2> QED  BY <1>2, <1>3, <1>4, <1>5, <2>1, VirtualPageIs, Spaces
<1>8. VirtualPage(range, i) \in DOMAIN leaf /\ leaf[VirtualPage(range, i)] = PhysicalPage(range, i)
  <2>1. i \in 0 .. (range.page - 1)
    BY <1>1, <1>2, <1>3
  <2> QED  BY <1>7, <2>1 DEF LoopInv, Written
<1>9. range.virt + n = (w + i) * PAGE + k /\ range.phys + n = (f + i) * PAGE + k
  <2>1. (w + i) * PAGE = w * PAGE + i * PAGE /\ (f + i) * PAGE = f * PAGE + i * PAGE
    BY <1>2, PagesOrder
  <2>2. w * PAGE \in Int /\ i * PAGE \in Int /\ f * PAGE \in Int
    BY <1>2, Spaces
  <2> QED  BY <1>2, <2>1, <2>2
<1>10. PageOf(range.virt + n) = w + i /\ (range.virt + n) % PAGE = k
  <2>1. w + i \in Int /\ 0 <= w + i /\ w + i < VSPACE
    BY <1>2, <1>3, <1>4, Spaces
  <2> QED  BY <1>2, <1>9, <2>1, PageOfIs, PagedUnique
<1> QED  BY <1>5, <1>6, <1>8, <1>9, <1>10 DEF MapsTo

(* A range of so many units takes no more pages than that.                 *)
LEMMA RoundsBound ==
    ASSUME LoopInv, range.ret \in {"none", "SUCCESS"}, NEW m \in Nat \ {0}, range.size <= m * PAGE
    PROVE  /\ range.ret = "none" => range.page < m
           /\ range.ret = "SUCCESS" => range.page <= m
<1>1. range.page \in Nat /\ range.size \in Nat
  BY DEF LoopInv, Rounds
<1>2. CASE range.ret = "none"
  <2>1. range.page = 0 \/ range.page * PAGE < range.size
    BY <1>2 DEF LoopInv, Rounds
  <2>2. range.page = 0 \/ range.page * PAGE < m * PAGE
    BY <1>1, <2>1, Spaces
  <2>3. m \in Int /\ m > 0 /\ range.page \in Int
    BY <1>1
  <2>4. range.page * PAGE < m * PAGE => range.page < m
    BY <2>3, PagesOrder
  <2> QED  BY <1>2, <2>2, <2>3, <2>4
<1>3. CASE range.ret = "SUCCESS"
  <2>1. range.page = 1 \/ (range.page - 1) * PAGE < range.size
    BY <1>3 DEF LoopInv, Rounds
  <2>2. range.page = 1 \/ (range.page - 1) * PAGE < m * PAGE
    BY <1>1, <2>1, Spaces
  <2>3. range.page - 1 \in Int /\ m \in Int /\ m > 0
    BY <1>1
  <2>4. (range.page - 1) * PAGE < m * PAGE => range.page - 1 < m
    BY <2>3, PagesOrder
  <2> QED  BY <1>1, <1>3, <2>2, <2>3, <2>4
<1> QED  BY <1>2, <1>3
-----------------------------------------------------------------------------
(* The memory map.                                                         *)
MapEntries == [address : Nat, length : Nat, type : {"free", "reserved", "acpi"}]

LEMMA LowEntriesIs ==
    ASSUME NEW m \in FirmwareMaps
    PROVE  /\ m \in Seq(MapEntries) /\ Len(m) \in Nat
           /\ LowEntries(m) \in 0 .. Len(m)
           /\ LowEntries(m) < Len(m) => m[LowEntries(m) + 1].address >= LOW
<1>1. m \in Seq(MapEntries) /\ Len(m) \in Nat /\ \A i \in 1 .. Len(m) : m[i].address \in Nat
  <2>1. m \in Seq(MapEntries)
    BY PagingAssumption DEF MapEntries
  <2>2. Len(m) \in Nat /\ \A i \in 1 .. Len(m) : m[i] \in MapEntries
    BY <2>1
  <2> QED  BY <2>1, <2>2 DEF MapEntries
<1>0. LOW \in Nat
  BY PagingAssumption
<1> DEFINE Fits(n) == /\ \A i \in 1 .. n : m[i].address < LOW
                      /\ n < Len(m) => m[n + 1].address >= LOW
           S == {i \in 1 .. Len(m) : m[i].address >= LOW}
<1>2. \E n \in 0 .. Len(m) : Fits(n)
  <2>1. CASE S = {}
    <3>1. Fits(Len(m)) /\ Len(m) \in 0 .. Len(m)
      BY <1>0, <1>1, <2>1
    <3> QED  BY <3>1
  <2>2. CASE S # {}
    <3>1. S \subseteq Nat
      OBVIOUS
    <3>2. PICK x \in S : \A y \in S : x <= y
      BY <2>2, <3>1, Least
    <3>3. x - 1 \in 0 .. Len(m) /\ x - 1 + 1 = x /\ x \in 1 .. Len(m)
      BY <1>1
    <3>4. ASSUME NEW i \in 1 .. (x - 1) PROVE m[i].address < LOW
      <4>1. i \in 1 .. Len(m) /\ ~ (x <= i)
        BY <1>1, <3>3
      <4>2. i \notin S
        BY <3>2, <4>1
      <4> QED  BY <1>0, <1>1, <4>1, <4>2
    <3>5. Fits(x - 1)
      BY <3>3, <3>4
    <3> QED  BY <3>3, <3>5
  <2> QED  BY <2>1, <2>2
<1>3. LowEntries(m) = CHOOSE n \in 0 .. Len(m) : Fits(n)
  BY DEF LowEntries
<1> HIDE DEF Fits
<1>4. LowEntries(m) \in 0 .. Len(m) /\ Fits(LowEntries(m))
  BY <1>2, <1>3, Zenon
<1> QED  BY <1>1, <1>4 DEF Fits

LEMMA ReworkedMap ==
    ASSUME NEW m \in FirmwareMaps
    PROVE  LET r == ReworkMemoryMap(m) n == LowEntries(m) IN
           /\ r \in Seq(MapEntries) /\ Len(r) = 1 + (Len(m) - n) /\ n \in 0 .. Len(m) /\ Len(m) \in Nat
           /\ r[1] = [address |-> 0, length |-> LOW, type |-> "free"]
           /\ \A i \in 2 .. Len(r) : n + i - 1 \in (n + 1) .. Len(m) /\ r[i] = m[n + i - 1]
           /\ Len(r) > 1 => r[2].address >= LOW
<1> DEFINE r == ReworkMemoryMap(m)
           n == LowEntries(m)
           t == SubSeq(m, n + 1, Len(m))
           e == [address |-> 0, length |-> LOW, type |-> "free"]
<1>1. /\ m \in Seq(MapEntries) /\ Len(m) \in Nat /\ n \in 0 .. Len(m)
      /\ n < Len(m) => m[n + 1].address >= LOW
  BY LowEntriesIs
<1>2. e \in MapEntries
  <2>1. LOW \in Nat /\ 0 \in Nat
    BY PagingAssumption
  <2>2. "free" \in {"free", "reserved", "acpi"}
    OBVIOUS
  <2> QED  BY <2>1, <2>2 DEF MapEntries
<1> HIDE DEF n, e
<1>3. t \in Seq(MapEntries) /\ Len(t) = Len(m) - n /\ \A i \in 1 .. Len(t) : t[i] = m[n + i]
  <2>1. n + 1 \in 1 .. (Len(m) + 1) /\ Len(m) \in (n + 1) - 1 .. Len(m)
    BY <1>1
  <2> QED  BY <1>1, <2>1, SubSeqProperties
<1> HIDE DEF t
<1>4. r = <<e>> \o t
  BY DEF ReworkMemoryMap, n, t, e
<1>5. <<e>> \in Seq(MapEntries) /\ Len(<<e>>) = 1 /\ <<e>>[1] = e
  BY <1>2
<1>6. /\ r \in Seq(MapEntries) /\ Len(r) = 1 + Len(t)
      /\ \A i \in 1 .. Len(r) : r[i] = IF i <= 1 THEN <<e>>[i] ELSE t[i - 1]
  BY <1>3, <1>4, <1>5, ConcatProperties
<1> HIDE DEF r
<1>7. ASSUME NEW i \in 2 .. Len(r) PROVE n + i - 1 \in (n + 1) .. Len(m) /\ r[i] = m[n + i - 1]
  <2>1. i - 1 \in 1 .. Len(t) /\ i \in 1 .. Len(r) /\ ~ (i <= 1) /\ n + (i - 1) = n + i - 1
    BY <1>1, <1>3, <1>6
  <2>2. r[i] = t[i - 1] /\ t[i - 1] = m[n + (i - 1)]
    BY <1>3, <1>6, <2>1
  <2>3. r[i] = m[n + i - 1]
    BY <2>1, <2>2
  <2>4. i - 1 >= 1 /\ i - 1 <= Len(m) - n /\ i \in Nat /\ n \in Nat /\ Len(m) \in Nat
    BY <1>1, <1>3, <2>1
  <2>5. n + i - 1 \in (n + 1) .. Len(m)
    <3> HIDE DEF n
    <3> QED  BY <2>4
  <2> QED  BY <2>3, <2>5
<1>8. r[1] = e
  BY <1>3, <1>5, <1>6
<1>9. Len(r) > 1 => r[2].address >= LOW
  <2> SUFFICES ASSUME Len(r) > 1 PROVE r[2].address >= LOW
    OBVIOUS
  <2>1. 2 \in 2 .. Len(r) /\ n + 2 - 1 = n + 1 /\ n < Len(m)
    BY <1>1, <1>3, <1>6
  <2> QED  BY <1>1, <1>7, <2>1
<1> QED  BY <1>1, <1>3, <1>6, <1>7, <1>8, <1>9 DEF r, n, e

(* Each entry of the kernel's map is one of the firmware's, or the first.  *)
LEMMA MapBounds ==
    ASSUME NEW m \in FirmwareMaps, NEW i \in DOMAIN ReworkMemoryMap(m)
    PROVE  LET e == ReworkMemoryMap(m)[i] IN
           /\ e \in MapEntries /\ e.address + e.length <= MMIO_VIRTUAL
           /\ \A s \in Sdts : e.address <= s /\ s < e.address + e.length => e.length <= 2 * INT_RANGE
<1> DEFINE r == ReworkMemoryMap(m)
<1>1. r \in Seq(MapEntries) /\ i \in 1 .. Len(r) /\ Len(r) \in Nat
  BY ReworkedMap
<1>2. r[i] \in MapEntries
  BY <1>1
<1>3. CASE i = 1
  <2>1. r[1] = [address |-> 0, length |-> LOW, type |-> "free"]
    BY ReworkedMap
  <2>2. r[i].address = 0 /\ r[i].length = LOW
    BY <1>3, <2>1
  <2> QED  BY <1>2, <2>2, PagingAssumption, MmioAssumption
<1>4. CASE i # 1
  <2>1. i \in 2 .. Len(r)
    BY <1>1, <1>4
  <2>2. PICK j \in (LowEntries(m) + 1) .. Len(m) : r[i] = m[j]
    BY <2>1, ReworkedMap
  <2>3. j \in DOMAIN m
    BY LowEntriesIs
  <2> QED  BY <1>2, <2>2, <2>3, MmioAssumption
<1> QED  BY <1>3, <1>4

LEMMA EntryFound ==
    ASSUME NEW a, memoryMap \in Seq(MapEntries), GetMemoryMapForAddress(a) # 0
    PROVE  LET i == GetMemoryMapForAddress(a) IN
           /\ i \in DOMAIN memoryMap
           /\ memoryMap[i].address <= a /\ a < memoryMap[i].address + memoryMap[i].length
<1> DEFINE S == {i \in DOMAIN memoryMap : /\ memoryMap[i].address <= a
                                          /\ a < memoryMap[i].address + memoryMap[i].length}
<1>1. GetMemoryMapForAddress(a) = IF S = {} THEN 0 ELSE CHOOSE i \in S : \A j \in S : i <= j
  BY DEF GetMemoryMapForAddress
<1>2. S # {} /\ S \subseteq Nat
  BY <1>1
<1>3. \E i \in S : \A j \in S : i <= j
  BY <1>2, Least
<1>4. GetMemoryMapForAddress(a) \in S
  <2> HIDE DEF S
  <2> QED  BY <1>1, <1>2, <1>3
<1> QED  BY <1>4
-----------------------------------------------------------------------------
(* The boot, the ACPI tables and the registers, one after the other.       *)
Order ==
    /\ pagingPc \in {"boot", "mapped", "kernel", "tables", "panic"}
    /\ acpi \in {"none", "mapping", "SUCCESS", "ENMEM", "ENFOUND"}
    /\ firmware \in FirmwareMaps /\ sdt \in Sdts
    /\ memoryMap = IF pagingPc = "boot" THEN << >> ELSE ReworkMemoryMap(firmware)
    /\ mapIndex \in Nat \ {0} /\ sizeMapped \in Nat /\ sizeMapped % PAGE = 0
    /\ bar \in Bars \cup {NoBar}
    /\ pagingPc \in {"boot", "mapped"} =>
          pageTables = {} /\ room = heapPages /\ leaf = << >> /\ range = NoRange
    /\ acpi # "none" => pagingPc = "tables"
    /\ acpi \in {"mapping", "SUCCESS", "ENMEM"} => GetMemoryMapForAddress(sdt) # 0
    /\ acpi \in {"none", "mapping"} =>
          bar = NoBar /\ allocated = << >> /\ currVirtualAddress = MMIO_VIRTUAL

AcpiEntry == memoryMap[GetMemoryMapForAddress(sdt)]

ForKernel ==
    /\ pagingPc = "kernel"
    /\ mapIndex \in DOMAIN memoryMap /\ memoryMap[mapIndex].type = "free"
    /\ range.phys = downToPage(memoryMap[mapIndex].address) /\ range.virt = sizeMapped
    /\ range.size = downToPage(memoryMap[mapIndex].length)

ForAcpi ==
    /\ acpi = "mapping"
    /\ range.phys = downToPage(AcpiEntry.address) /\ range.virt = ACPI_ADDRESS
    /\ range.size = downToPage(AcpiEntry.length)

ForBar ==
    /\ bar \in Bars /\ pagingPc = "tables"
    /\ range.phys = bar[1] /\ range.virt = currVirtualAddress /\ range.size = upToPage(bar[2])

(* Who has called mapOrCreateRange.                                        *)
Caller ==
    /\ range.ret = "idle" => range = NoRange
    /\ range.ret # "idle" => ForKernel \/ ForAcpi \/ ForBar
    /\ acpi = "mapping" => ForAcpi /\ range.ret # "idle"
    /\ bar # NoBar => ForBar /\ range.ret # "idle"

AlignedTo(i) == \A j \in 1 .. i : PageAligned(allocated[j])

Registers ==
    /\ allocated \in Seq([physical : Nat, virtual : Nat, size : Nat])
    /\ Len(allocated) <= MMIO_MAX_ALLOC + 1
    /\ bar # NoBar => Len(allocated) <= MMIO_MAX_ALLOC
    /\ currVirtualAddress \in Nat /\ MMIO_VIRTUAL <= currVirtualAddress
    /\ currVirtualAddress <= MMIO_VIRTUAL + (Len(allocated) * BarRoom)
    /\ AlignedTo(Len(allocated)) => currVirtualAddress % PAGE = 0
    /\ \A i \in 1 .. Len(allocated) :
          /\ MMIO_VIRTUAL <= allocated[i].virtual
          /\ allocated[i].virtual + allocated[i].size <= currVirtualAddress
          /\ AlignedTo(i) =>
                /\ (allocated[i].virtual + allocated[i].size) % PAGE = 0
                /\ \A n \in 0 .. (allocated[i].size - 1) :
                      MapsTo(allocated[i].virtual + n, allocated[i].physical + n)

AcpiPlaced ==
    acpi = "SUCCESS" /\ AcpiOffset(AcpiEntry) < downToPage(AcpiEntry.length)
                     /\ AcpiOffset(AcpiEntry) < INT_RANGE
      => MapsTo(ACPI_ADDRESS + AcpiOffset(AcpiEntry), sdt)

MappingsInv == LoopInv /\ Order /\ Caller /\ Registers /\ AcpiPlaced

MmioPage == MMIO_VIRTUAL \div PAGE
AcpiPage == ACPI_ADDRESS \div PAGE

LEMMA Areas ==
    /\ MmioPage \in Nat /\ MMIO_VIRTUAL = MmioPage * PAGE /\ MMIO_VIRTUAL \in Nat
    /\ AcpiPage \in Nat /\ ACPI_ADDRESS = AcpiPage * PAGE /\ ACPI_ADDRESS \in Nat
    /\ MmioPage + IntPages <= AcpiPage /\ AcpiPage + IntPages <= VSPACE
    /\ IntPages <= MmioPage
    /\ MMIO_MAX_ALLOC \in Nat /\ BarRoom \in Nat
    /\ (MMIO_MAX_ALLOC * BarRoom) + (2 * BarRoom) <= ACPI_ADDRESS - MMIO_VIRTUAL
    /\ MMIO_MAX_ALLOC * BarRoom \in Nat
<1>1. /\ MMIO_VIRTUAL \in Nat /\ MMIO_VIRTUAL % PAGE = 0
      /\ ACPI_ADDRESS \in Nat /\ ACPI_ADDRESS % PAGE = 0 /\ MMIO_MAX_ALLOC \in Nat
      /\ LOW + INT_RANGE <= MMIO_VIRTUAL /\ LOW \in Nat
      /\ MMIO_VIRTUAL <= ACPI_ADDRESS - INT_RANGE /\ ACPI_ADDRESS <= VSIZE - INT_RANGE
  BY MmioAssumption, PagingAssumption
<1>2. /\ MmioPage \in Nat /\ MMIO_VIRTUAL = MmioPage * PAGE
      /\ AcpiPage \in Nat /\ ACPI_ADDRESS = AcpiPage * PAGE
  BY <1>1, Paged, WholePages DEF MmioPage, AcpiPage
<1>3. /\ (MmioPage + IntPages) * PAGE = MMIO_VIRTUAL + INT_RANGE
      /\ (AcpiPage + IntPages) * PAGE = ACPI_ADDRESS + INT_RANGE
  BY <1>2, Spaces, PagesOrder
<1>4. /\ (MmioPage + IntPages) * PAGE <= AcpiPage * PAGE /\ (AcpiPage + IntPages) * PAGE <= VSPACE * PAGE
      /\ IntPages * PAGE <= MmioPage * PAGE
  BY <1>1, <1>2, <1>3, Spaces
<1>5. MmioPage + IntPages <= AcpiPage /\ AcpiPage + IntPages <= VSPACE /\ IntPages <= MmioPage
  <2>1. /\ MmioPage + IntPages \in Int /\ AcpiPage + IntPages \in Int /\ AcpiPage \in Int
        /\ VSPACE \in Int /\ IntPages \in Int /\ MmioPage \in Int
    BY <1>2, Spaces
  <2> QED  BY <1>4, <2>1, PagesOrder
<1>6. BarRoom \in Nat /\ (MMIO_MAX_ALLOC + 2) * BarRoom <= ACPI_ADDRESS - MMIO_VIRTUAL
  <2> DEFINE d == ACPI_ADDRESS - MMIO_VIRTUAL
             n == MMIO_MAX_ALLOC + 2
  <2>1. d \in Nat /\ n \in Nat \ {0}
    BY <1>1, Spaces
  <2>2. BarRoom = d \div n
    BY DEF BarRoom
  <2> HIDE DEF d, n
  <2>3. d \div n \in Nat /\ n * (d \div n) <= d
    BY <2>1
  <2> QED  BY <2>2, <2>3 DEF d, n
<1>7. (MMIO_MAX_ALLOC + 2) * BarRoom = (MMIO_MAX_ALLOC * BarRoom) + (2 * BarRoom) /\ MMIO_MAX_ALLOC * BarRoom \in Nat
  BY <1>1, <1>6
<1> QED  BY <1>1, <1>2, <1>5, <1>6, <1>7

LEMMA BarIs ==
    ASSUME NEW b \in Bars
    PROVE  /\ b[1] \in Nat /\ b[2] \in Nat \ {0} /\ b # NoBar
           /\ b[1] + b[2] <= VSIZE /\ b[2] <= INT_RANGE /\ b[2] <= BarRoom
           /\ upToPage(b[2]) \in Nat /\ b[2] <= upToPage(b[2])
           /\ \A i \in Nat : i * PAGE < upToPage(b[2]) \/ i = 0 => i * PAGE < b[2] /\ i < IntPages
<1>1. /\ b[1] \in Nat /\ b[2] \in Nat \ {0} /\ b[1] + b[2] <= VSIZE
      /\ b[2] <= INT_RANGE /\ b[2] <= BarRoom
  BY MmioAssumption
<1>2. b # NoBar
  BY <1>1 DEF NoBar
<1> DEFINE u == upToPage(b[2])
           U == u \div PAGE
<1>3. u \in Nat /\ u % PAGE = 0 /\ b[2] <= u /\ u < b[2] + PAGE
  BY <1>1, Rounded
<1>4. U \in Int /\ u = U * PAGE
  BY <1>3, WholePages
<1> HIDE DEF u, U
<1>5. ASSUME NEW i \in Nat, i * PAGE < u \/ i = 0 PROVE i * PAGE < b[2] /\ i < IntPages
  <2>1. CASE i = 0
    BY <1>1, <2>1, Spaces
  <2>2. CASE i * PAGE < u
    <3>1. i < U
      BY <1>4, <2>2, PagesOrder
    <3>2. i * PAGE + PAGE <= u
      BY <1>4, <3>1, PagesOrder
    <3>3. i * PAGE < b[2] /\ i * PAGE \in Int
      BY <1>1, <1>3, <3>2, Spaces
    <3>4. i * PAGE < IntPages * PAGE
      BY <1>1, <3>3, Spaces
    <3> QED  BY <3>3, <3>4, Spaces, PagesOrder
  <2> QED  BY <1>5, <2>1, <2>2
<1> QED  BY <1>1, <1>2, <1>3, <1>5 DEF u

LEMMA Times ==
    ASSUME NEW x \in Nat, NEW y \in Nat, x <= y, NEW s \in Nat
    PROVE  x * s \in Nat /\ y * s \in Nat /\ x * s <= y * s
OBVIOUS

(* Where the registers go.                                                 *)
LEMMA BarPage ==
    ASSUME MappingsInv, ForBar, NEW i \in Nat, i * PAGE < range.size \/ i = 0
    PROVE  /\ VirtualPage(range, i) = (currVirtualAddress \div PAGE) + i
           /\ VirtualPage(range, i) < AcpiPage /\ MmioPage <= VirtualPage(range, i)
<1> DEFINE c == currVirtualAddress
           q == c \div PAGE
           k == c % PAGE
<1>1. /\ c \in Nat /\ MMIO_VIRTUAL <= c /\ c <= MMIO_VIRTUAL + (Len(allocated) * BarRoom)
      /\ Len(allocated) <= MMIO_MAX_ALLOC /\ Len(allocated) \in Nat
  BY BarIs DEF MappingsInv, Registers, ForBar
<1>2. i * PAGE < bar[2] /\ i < IntPages /\ bar[2] <= BarRoom /\ bar[2] \in Nat
  BY BarIs DEF ForBar
<1>3. q \in Nat /\ k \in 0 .. (PAGE - 1) /\ c = (q * PAGE) + k
  BY <1>1, Paged
<1>4. range.virt = c
  BY DEF ForBar
<1> HIDE DEF c, q, k
<1>5. /\ (q + i) * PAGE = q * PAGE + i * PAGE /\ q * PAGE \in Int /\ i * PAGE \in Int
      /\ (q + 1) * PAGE = q * PAGE + PAGE
  BY <1>3, PagesOrder, Spaces
<1>6. range.virt + IntOffset(i) = (q + i) * PAGE + k
  BY <1>2, <1>3, <1>4, <1>5, OffsetIs
<1>7. c + i * PAGE < ACPI_ADDRESS
  <2>1. Len(allocated) * BarRoom <= MMIO_MAX_ALLOC * BarRoom /\ Len(allocated) * BarRoom \in Nat
    BY <1>1, Areas, Times
  <2> DEFINE L == Len(allocated) * BarRoom
             X == MMIO_MAX_ALLOC * BarRoom
             y == i * PAGE
  <2>2. L \in Nat /\ X \in Nat /\ L <= X /\ c \in Nat /\ c <= MMIO_VIRTUAL + L
    BY <1>1, <2>1, Areas
  <2>3. y \in Int /\ y < BarRoom
    BY <1>2, <1>5, Areas
  <2>4. X + (2 * BarRoom) <= ACPI_ADDRESS - MMIO_VIRTUAL
    BY Areas
  <2> HIDE DEF L, X, y
  <2>5. c + y < ACPI_ADDRESS
    BY <2>2, <2>3, <2>4, Areas
  <2> QED  BY <2>5 DEF y
<1>8. (q + i) * PAGE < AcpiPage * PAGE /\ MmioPage * PAGE < (q + 1) * PAGE
  BY <1>1, <1>3, <1>5, <1>7, Areas, Spaces
<1>9. q + i < AcpiPage /\ MmioPage < q + 1
  <2>1. q + i \in Int /\ q + 1 \in Int /\ AcpiPage \in Int /\ MmioPage \in Int
    BY <1>3, Areas
  <2> QED  BY <1>8, <2>1, PagesOrder
<1>10. VirtualPage(range, i) = q + i
  <2>1. q + i \in Int /\ 0 <= q + i /\ q + i < VSPACE
    BY <1>3, <1>9, Areas, Spaces
  <2> QED  BY <1>3, <1>6, <2>1, PageOfIs DEF VirtualPage
<1> QED  BY <1>3, <1>9, <1>10, Areas DEF q, c

(* The entry of the memory map around the ACPI tables.                     *)
LEMMA AcpiEntryIs ==
    ASSUME Order, GetMemoryMapForAddress(sdt) # 0, acpi # "none" \/ pagingPc = "tables"
    PROVE  /\ memoryMap \in Seq(MapEntries) /\ GetMemoryMapForAddress(sdt) \in DOMAIN memoryMap
           /\ AcpiEntry.address \in Nat /\ AcpiEntry.length \in Nat /\ sdt \in Nat
           /\ AcpiEntry.length <= 2 * INT_RANGE /\ sdt < MMIO_VIRTUAL
           /\ AcpiOffset(AcpiEntry) = sdt - downToPage(AcpiEntry.address)
           /\ AcpiOffset(AcpiEntry) \in Nat
<1> DEFINE i == GetMemoryMapForAddress(sdt)
           e == AcpiEntry
<1>1. /\ firmware \in FirmwareMaps /\ memoryMap = ReworkMemoryMap(firmware) /\ sdt \in Sdts
  BY DEF Order
<1>2. memoryMap \in Seq(MapEntries)
  BY <1>1, ReworkedMap
<1>3. /\ i \in DOMAIN memoryMap /\ e.address <= sdt /\ sdt < e.address + e.length
  BY <1>2, EntryFound DEF AcpiEntry
<1>4. e \in MapEntries /\ e.address + e.length <= MMIO_VIRTUAL /\ e.length <= 2 * INT_RANGE
  BY <1>1, <1>3, MapBounds DEF AcpiEntry
<1>5. e.address \in Nat /\ e.length \in Nat /\ sdt \in Nat
  BY <1>1, <1>4, MmioAssumption DEF MapEntries
<1>6. e.address % PAGE \in Nat
  BY <1>5, Paged
<1>7. AcpiOffset(e) = sdt - downToPage(e.address) /\ AcpiOffset(e) \in Nat
  BY <1>3, <1>5, <1>6 DEF AcpiOffset, downToPage
<1>8. sdt < MMIO_VIRTUAL
  BY <1>3, <1>4, <1>5, Areas
<1> QED  BY <1>2, <1>3, <1>4, <1>5, <1>7, <1>8

(* Where the ACPI tables go; a range longer than an int turns back, but    *)
(* not as far as the registers.                                            *)
LEMMA AcpiPages ==
    ASSUME MappingsInv, ForAcpi, NEW i \in Nat, i * PAGE < range.size \/ i = 0
    PROVE  /\ i < 2 * IntPages
           /\ VirtualPage(range, i) \in Nat /\ AcpiPage - IntPages <= VirtualPage(range, i)
           /\ MmioPage <= VirtualPage(range, i)
<1>1. /\ range.size = downToPage(AcpiEntry.length) /\ AcpiEntry.length \in Nat
      /\ AcpiEntry.length <= 2 * INT_RANGE /\ range.virt = ACPI_ADDRESS
  BY AcpiEntryIs DEF MappingsInv, Order, ForAcpi
<1>2. range.size <= (2 * IntPages) * PAGE /\ range.size \in Nat
  <2>1. downToPage(AcpiEntry.length) \in Nat /\ downToPage(AcpiEntry.length) <= AcpiEntry.length
    BY <1>1, Rounded
  <2>2. 2 * INT_RANGE = (2 * IntPages) * PAGE /\ 2 * INT_RANGE \in Nat
    BY Spaces
  <2>3. range.size \in Nat /\ range.size <= 2 * INT_RANGE
    BY <1>1, <2>1, <2>2
  <2> QED  BY <2>2, <2>3
<1>3. i < 2 * IntPages
  <2>1. CASE i = 0
    BY <2>1, Spaces
  <2>2. CASE i * PAGE < range.size
    <3>1. i * PAGE < (2 * IntPages) * PAGE /\ 2 * IntPages \in Int
      BY <1>2, <2>2, Spaces
    <3> QED  BY <3>1, PagesOrder
  <2> QED  BY <2>1, <2>2
<1>4. /\ AcpiPage \in Nat /\ range.virt = AcpiPage * PAGE /\ AcpiPage + IntPages <= VSPACE
      /\ MmioPage \in Nat /\ MmioPage + IntPages <= AcpiPage /\ IntPages <= MmioPage
      /\ IntPages \in Nat
  BY <1>1, Areas, Spaces
<1>5. CASE i < IntPages
  BY <1>3, <1>4, <1>5, VirtualPageIs
<1>6. CASE IntPages <= i
  <2>1. 2 * IntPages <= AcpiPage + i
    BY <1>4, <1>6
  <2>2. VirtualPage(range, i) = AcpiPage + i - (2 * IntPages)
    BY <1>3, <1>4, <1>6, <2>1, VirtualPageIs
  <2> QED  BY <1>3, <1>4, <1>6, <2>1, <2>2
<1> QED  BY <1>4, <1>5, <1>6

(* What is mapped stays mapped.                                            *)
LEMMA RegistersStay ==
    ASSUME Registers, UNCHANGED <<allocated, currVirtualAddress>>,
           bar' \in {bar, NoBar} \/ Len(allocated) <= MMIO_MAX_ALLOC,
           \A i \in 1 .. Len(allocated) : \A n, x :
               AlignedTo(i) /\ n \in 0 .. (allocated[i].size - 1)
                 /\ MapsTo(allocated[i].virtual + n, x) => MapsTo(allocated[i].virtual + n, x)'
    PROVE  Registers'
<1>1. \A i : AlignedTo(i)' <=> AlignedTo(i)
  BY DEF AlignedTo, PageAligned
<1>2. bar' # NoBar => Len(allocated) <= MMIO_MAX_ALLOC
  BY DEF Registers
<1>3. ASSUME NEW i \in 1 .. Len(allocated), AlignedTo(i), NEW n \in 0 .. (allocated[i].size - 1)
      PROVE  MapsTo(allocated[i].virtual + n, allocated[i].physical + n)'
  <2>1. MapsTo(allocated[i].virtual + n, allocated[i].physical + n)
    BY <1>3 DEF Registers
  <2>2. MapsTo(allocated[i].virtual + n, allocated[i].physical + n)
          => MapsTo(allocated[i].virtual + n, allocated[i].physical + n)'
    BY <1>3
  <2> QED  BY <2>1, <2>2
<1>4. /\ allocated' = allocated /\ currVirtualAddress' = currVirtualAddress
  OBVIOUS
<1>5. ASSUME NEW i \in 1 .. Len(allocated'), AlignedTo(i)',
             NEW n \in 0 .. (allocated'[i].size - 1)
      PROVE  MapsTo(allocated[i].virtual + n, allocated[i].physical + n)'
  BY <1>1, <1>3, <1>4, <1>5
<1> QED  BY <1>1, <1>2, <1>4, <1>5 DEF Registers

LEMMA BootKeeps ==
    ASSUME MappingsInv, acpi = "none", UNCHANGED <<allocated, currVirtualAddress, bar, sdt, acpi>>
    PROVE  Registers' /\ AcpiPlaced'
<1>1. allocated = << >> /\ Registers
  BY DEF MappingsInv, Order
<1>2. Len(allocated) = 0
  BY <1>1
<1>3. Registers'
  BY <1>1, <1>2, RegistersStay
<1>4. AcpiPlaced'
  BY DEF AcpiPlaced
<1> QED  BY <1>3, <1>4

(* No range runs, and none begins.                                         *)
LEMMA Resting ==
    ASSUME LoopInv, Order, Caller, range' = NoRange, acpi' # "mapping", bar' = NoBar
    PROVE  Caller'
BY DEF Caller, NoRange

-----------------------------------------------------------------------------
(* The steps of the boot.                                                  *)
LEMMA FirstStep == ASSUME MmioInit PROVE MappingsInv
<1> USE DEF MmioInit, PagingInit
<1>1. heapPages \in Nat /\ room \in Nat
  BY PagingAssumption
<1>2. LoopInv
  <2>1. leaf = [v \in DOMAIN leaf |-> leaf[v]] /\ DOMAIN leaf = {}
    OBVIOUS
  <2>2. Leaves
    BY <2>1 DEF Leaves
  <2>3. TablesCounted
    BY <1>1, FS_EmptySet DEF TablesCounted, NoTableLost
  <2>4. Rounds /\ Written
    BY DEF Rounds, Written, NoRange
  <2> QED  BY <2>2, <2>3, <2>4 DEF LoopInv
<1>3. 0 % PAGE = 0
  BY Spaces
<1>4. Order
  BY <1>3 DEF Order
<1>5. Caller
  BY DEF Caller, NoRange
<1>6. Registers
  <2>1. Len(allocated) = 0 /\ allocated \in Seq([physical : Nat, virtual : Nat, size : Nat])
    OBVIOUS
  <2>2. MMIO_VIRTUAL \in Nat /\ BarRoom \in Nat /\ MMIO_MAX_ALLOC \in Nat
    BY Areas
  <2>3. MMIO_VIRTUAL % PAGE = 0
    BY MmioAssumption
  <2>4. MMIO_VIRTUAL <= MMIO_VIRTUAL + (0 * BarRoom)
    BY <2>2
  <2> QED  BY <2>1, <2>2, <2>3, <2>4 DEF Registers
<1>7. AcpiPlaced
  BY DEF AcpiPlaced
<1> QED  BY <1>2, <1>4, <1>5, <1>6, <1>7 DEF MappingsInv

MmioSame == UNCHANGED <<allocated, currVirtualAddress, bar, sdt, acpi>>

LEMMA ReadStep == ASSUME MappingsInv, readMemoryMap, MmioSame PROVE MappingsInv'
<1> USE DEF readMemoryMap, MmioSame
<1>1. LoopInv /\ Order /\ Caller /\ acpi = "none" /\ range = NoRange /\ bar = NoBar
  BY DEF MappingsInv, Order
<1>2. pagingPc' \in {"panic", "mapped"}
  OBVIOUS
<1>3. TablesCounted'
  BY <1>1, <1>2 DEF LoopInv, TablesCounted, NoTableLost
<1>4. LoopInv'
  BY <1>1, <1>3, LoopBegins
<1>5. Order'
  BY <1>1, <1>2 DEF Order
<1>6. Caller'
  BY <1>1, <1>5, Resting
<1>7. Registers' /\ AcpiPlaced'
  BY <1>1, BootKeeps
<1> QED  BY <1>4, <1>5, <1>6, <1>7 DEF MappingsInv

LEMMA CreateStep == ASSUME MappingsInv, createKernelTable, MmioSame PROVE MappingsInv'
<1> USE DEF createKernelTable, MmioSame
<1>1. /\ LoopInv /\ Order /\ Caller /\ acpi = "none" /\ range = NoRange /\ bar = NoBar
      /\ pageTables = {} /\ room = heapPages /\ room \in Nat
  BY DEF MappingsInv, Order, LoopInv, TablesCounted
<1>2. TablesCounted'
  <2>1. CASE room = 0
    BY <1>1, <2>1 DEF LoopInv, TablesCounted, NoTableLost
  <2>2. CASE room # 0
    <3>1. room' = room - 1 /\ room' \in Nat /\ heapPages' = room' + 0 + 1 /\ pageTables' = {}
      BY <1>1, <2>2
    <3> QED  BY <1>1, <3>1, FS_EmptySet DEF LoopInv, TablesCounted, NoTableLost
  <2> QED  BY <2>1, <2>2
<1>3. LoopInv'
  BY <1>1, <1>2, LoopBegins
<1>4. Order'
  <2>1. mapIndex' = 1 /\ sizeMapped' = 0 /\ 0 % PAGE = 0 /\ pagingPc' \in {"panic", "kernel"}
    BY Spaces
  <2> QED  BY <1>1, <2>1 DEF Order
<1>5. Caller'
  BY <1>1, Resting
<1>6. Registers' /\ AcpiPlaced'
  BY <1>1, BootKeeps
<1> QED  BY <1>3, <1>4, <1>5, <1>6 DEF MappingsInv

LEMMA CountedStays ==
    ASSUME LoopInv, pagingPc \in {"kernel", "tables"}, UNCHANGED <<pageTables, room, heapPages>>
    PROVE  TablesCounted'
BY DEF LoopInv, TablesCounted, NoTableLost

LEMMA EntryStep == ASSUME MappingsInv, MapEntry, MmioSame PROVE MappingsInv'
<1> USE DEF MapEntry, MmioSame
<1> DEFINE e == memoryMap[mapIndex]
<1>1. /\ LoopInv /\ Order /\ Caller /\ acpi = "none" /\ range = NoRange /\ bar = NoBar
      /\ pagingPc = "kernel" /\ mapIndex \in Nat \ {0} /\ mapIndex <= Len(memoryMap)
      /\ firmware \in FirmwareMaps /\ memoryMap = ReworkMemoryMap(firmware)
      /\ sizeMapped \in Nat
  BY DEF MappingsInv, Order
<1>2. /\ memoryMap \in Seq(MapEntries) /\ mapIndex \in DOMAIN memoryMap /\ e \in MapEntries
      /\ e.address \in Nat /\ e.length \in Nat
  <2>1. memoryMap \in Seq(MapEntries)
    BY <1>1, ReworkedMap
  <2>2. mapIndex \in DOMAIN memoryMap
    BY <1>1, <2>1
  <2>3. e \in MapEntries
    BY <2>1, <2>2
  <2> QED  BY <2>1, <2>2, <2>3 DEF MapEntries
<1>3. TablesCounted'
  BY <1>1, CountedStays
<1>4. downToPage(e.address) \in Nat /\ downToPage(e.length) \in Nat
  BY <1>2, Rounded
<1>5. \/ e.type = "free" /\ range' = Mapping(downToPage(e.address), sizeMapped, downToPage(e.length))
                         /\ mapIndex' = mapIndex
      \/ e.type # "free" /\ mapIndex' = mapIndex + 1 /\ range' = NoRange
  BY <1>1
<1>6. LoopInv'
  BY <1>1, <1>3, <1>4, <1>5, LoopBegins
<1>7. Order'
  <2>1. mapIndex' \in Nat \ {0} /\ pagingPc' = "kernel"
    BY <1>1, <1>5
  <2> QED  BY <1>1, <2>1 DEF Order
<1>8. Caller'
  <2>1. CASE e.type = "free"
    <3>1. ForKernel' /\ range'.ret = "none"
      BY <1>1, <1>2, <1>5, <2>1 DEF ForKernel, Mapping
    <3> QED  BY <1>1, <3>1 DEF Caller
  <2>2. CASE e.type # "free"
    BY <1>1, <1>5, <2>2, Resting
  <2> QED  BY <2>1, <2>2
<1>9. Registers' /\ AcpiPlaced'
  BY <1>1, BootKeeps
<1> QED  BY <1>6, <1>7, <1>8, <1>9 DEF MappingsInv

LEMMA SumAligned ==
    ASSUME NEW a \in Nat, NEW b \in Nat, a % PAGE = 0, b % PAGE = 0
    PROVE  a + b \in Nat /\ (a + b) % PAGE = 0
<1>1. a = (a \div PAGE) * PAGE /\ b = (b \div PAGE) * PAGE /\ a \div PAGE \in Int /\ b \div PAGE \in Int
  BY WholePages
<1>2. a + b = (a \div PAGE + b \div PAGE) * PAGE
  BY <1>1, PagesOrder
<1>3. (a \div PAGE + b \div PAGE) * PAGE + 0 = (a \div PAGE + b \div PAGE) * PAGE /\ 0 \in 0 .. (PAGE - 1)
  BY <1>1, Spaces
<1>4. a \div PAGE + b \div PAGE \in Int
  BY <1>1
<1> QED  BY <1>2, <1>3, <1>4, PagedUnique

LEMMA MappedStep == ASSUME MappingsInv, EntryMapped, MmioSame PROVE MappingsInv'
<1> USE DEF EntryMapped, MmioSame
<1>1. /\ LoopInv /\ Order /\ Caller /\ acpi = "none" /\ range.ret = "SUCCESS" /\ bar = NoBar
      /\ pagingPc = "kernel" /\ mapIndex \in Nat \ {0}
      /\ firmware \in FirmwareMaps /\ memoryMap = ReworkMemoryMap(firmware)
      /\ sizeMapped \in Nat /\ sizeMapped % PAGE = 0
  BY DEF MappingsInv, Order
<1>2. mapIndex \in DOMAIN memoryMap
  BY <1>1, BarIs DEF Caller, ForKernel, ForAcpi, ForBar
<1>3. memoryMap[mapIndex].length \in Nat
  <2>1. memoryMap[mapIndex] \in MapEntries
    BY <1>1, <1>2, MapBounds
  <2> QED  BY <2>1 DEF MapEntries
<1>4. sizeMapped' \in Nat /\ sizeMapped' % PAGE = 0
  BY <1>1, <1>3, Rounded, SumAligned DEF NextStart
<1>5. TablesCounted'
  BY <1>1, CountedStays
<1>6. LoopInv'
  BY <1>1, <1>5, LoopBegins
<1>7. Order'
  <2>1. mapIndex' \in Nat \ {0} /\ pagingPc' = "kernel"
    BY <1>1
  <2> QED  BY <1>1, <1>4, <2>1 DEF Order
<1>8. Caller'
  BY <1>1, Resting
<1>9. Registers' /\ AcpiPlaced'
  BY <1>1, BootKeeps
<1> QED  BY <1>6, <1>7, <1>8, <1>9 DEF MappingsInv

LEMMA FailsStep == ASSUME MappingsInv, KernelTableFails, MmioSame PROVE MappingsInv'
<1> USE DEF KernelTableFails, MmioSame
<1>1. /\ LoopInv /\ Order /\ Caller /\ acpi = "none" /\ bar = NoBar /\ pagingPc = "kernel"
  BY DEF MappingsInv, Order
<1>2. TablesCounted'
  BY <1>1 DEF LoopInv, TablesCounted, NoTableLost
<1>3. LoopInv'
  BY <1>1, <1>2, LoopBegins
<1>4. Order'
  BY <1>1 DEF Order
<1>5. Caller'
  BY <1>1, Resting
<1>6. Registers' /\ AcpiPlaced'
  BY <1>1, BootKeeps
<1> QED  BY <1>3, <1>4, <1>5, <1>6 DEF MappingsInv

LEMMA LoadStep == ASSUME MappingsInv, loadNewPageTable, MmioSame PROVE MappingsInv'
<1> USE DEF loadNewPageTable, MmioSame
<1>1. /\ LoopInv /\ Order /\ Caller /\ acpi = "none" /\ bar = NoBar /\ pagingPc = "kernel"
  BY DEF MappingsInv, Order
<1>2. TablesCounted'
  BY <1>1, CountedStays DEF LoopInv, TablesCounted, NoTableLost
<1>3. LoopInv'
  BY <1>1, <1>2, LoopBegins
<1>4. Order'
  BY <1>1 DEF Order
<1>5. Caller'
  BY <1>1, Resting
<1>6. Registers' /\ AcpiPlaced'
  BY <1>1, BootKeeps
<1> QED  BY <1>3, <1>4, <1>5, <1>6 DEF MappingsInv
-----------------------------------------------------------------------------
(* The address of whatever is mapped below a page.                         *)
LEMMA BelowPage ==
    ASSUME NEW a \in Nat, NEW q \in Nat, a < q * PAGE, q <= VSPACE
    PROVE  PageOf(a) \in Nat /\ PageOf(a) < q /\ PageOf(a) = a \div PAGE
<1>1. a \div PAGE \in Nat /\ (a \div PAGE) * PAGE <= a /\ (a \div PAGE) * PAGE \in Int
  BY Paged, Spaces
<1>2. (a \div PAGE) * PAGE < q * PAGE /\ q * PAGE <= VSPACE * PAGE /\ q * PAGE \in Int
  BY <1>1, Spaces, PagesOrder
<1>3. a \div PAGE < q /\ a < VSIZE
  BY <1>1, <1>2, Spaces, PagesOrder
<1> QED  BY <1>1, <1>3, PageOfAddress

LEMMA FromPage ==
    ASSUME NEW a \in Nat, NEW q \in Nat, q * PAGE <= a, a < VSIZE
    PROVE  PageOf(a) \in Nat /\ q <= PageOf(a)
<1>1. /\ a \div PAGE \in Nat /\ a < ((a \div PAGE) * PAGE) + PAGE
      /\ (a \div PAGE + 1) * PAGE = ((a \div PAGE) * PAGE) + PAGE
  BY Paged, Spaces
<1>2. q * PAGE < (a \div PAGE + 1) * PAGE
  BY <1>1, Spaces
<1>3. q < a \div PAGE + 1
  <2> DEFINE p == a \div PAGE + 1
  <2>1. p \in Int /\ q * PAGE < p * PAGE
    BY <1>1, <1>2
  <2> HIDE DEF p
  <2>2. q < p
    BY <2>1, PagesOrder
  <2> QED  BY <2>2 DEF p
<1> QED  BY <1>1, <1>3, PageOfAddress

(* Registers that are being mapped leave those of others alone, and the    *)
(* ACPI tables.                                                            *)
LEMMA BarApart ==
    ASSUME MappingsInv, ForBar, range.ret = "none"
    PROVE  /\ \A i \in 1 .. Len(allocated) : \A n : AlignedTo(i) /\ n \in 0 .. (allocated[i].size - 1)
                 => PageOf(allocated[i].virtual + n) # VirtualPage(range, range.page)
           /\ \A n \in Nat : n < INT_RANGE => PageOf(ACPI_ADDRESS + n) # VirtualPage(range, range.page)
<1> DEFINE v == VirtualPage(range, range.page)
           q == currVirtualAddress \div PAGE
<1>1. range.page \in Nat /\ (range.page = 0 \/ range.page * PAGE < range.size)
  BY DEF MappingsInv, LoopInv, Rounds
<1>2. v = q + range.page /\ v < AcpiPage /\ MmioPage <= v
  BY <1>1, BarPage
<1>3. Registers /\ currVirtualAddress \in Nat
  BY DEF MappingsInv, Registers
<1>4. q \in Nat /\ currVirtualAddress < q * PAGE + PAGE /\ (q + 1) * PAGE = q * PAGE + PAGE
  BY <1>3, Paged, Spaces
<1> HIDE DEF q, v
<1>5. ASSUME NEW i \in 1 .. Len(allocated), NEW n \in 0 .. (allocated[i].size - 1), AlignedTo(i)
      PROVE  PageOf(allocated[i].virtual + n) # v
  <2> DEFINE e == allocated[i].virtual + allocated[i].size
             E == e \div PAGE
             a == allocated[i].virtual + n
  <2>1. /\ allocated[i].virtual \in Nat /\ allocated[i].size \in Nat
        /\ e <= currVirtualAddress /\ e % PAGE = 0
    <3>1. allocated[i] \in [physical : Nat, virtual : Nat, size : Nat]
      <4>1. allocated \in Seq([physical : Nat, virtual : Nat, size : Nat])
        BY <1>3 DEF Registers
      <4> HIDE DEF e, E, a
      <4> QED  BY <4>1, SeqElement
    <3>2. e <= currVirtualAddress /\ e % PAGE = 0
      BY <1>3, <1>5, Zenon DEF Registers
    <3> QED  BY <3>1, <3>2
  <2>2. e \in Nat /\ a \in Nat /\ a < e
    <3>1. allocated[i].virtual \in Nat /\ allocated[i].size \in Nat
      BY <2>1
    <3> QED  BY <3>1
  <2> HIDE DEF e, a
  <2>3. E \in Nat /\ e = E * PAGE
    BY <2>1, <2>2, Paged, WholePages
  <2> HIDE DEF E
  <2>4. E * PAGE < (q + 1) * PAGE
    BY <1>3, <1>4, <2>1, <2>2, <2>3, Spaces
  <2>5. E < q + 1
    <3>1. q + 1 \in Int
      BY <1>4
    <3>2. E \in Int
      BY <2>3
    <3> QED  BY <2>4, <3>1, <3>2, PagesOrder
  <2>6. E <= v /\ E <= VSPACE
    <3>1. v = q + range.page /\ v < AcpiPage /\ range.page \in Nat /\ q \in Nat
      BY <1>1, <1>2, <1>4
    <3>2. AcpiPage <= VSPACE /\ AcpiPage \in Nat /\ VSPACE \in Nat
      BY Areas, Spaces
    <3> QED  BY <2>3, <2>5, <3>1, <3>2
  <2>7. PageOf(a) < E /\ PageOf(a) \in Nat
    BY <2>2, <2>3, <2>6, BelowPage
  <2> QED  BY <1>1, <1>2, <1>4, <2>3, <2>6, <2>7 DEF a
<1>6. ASSUME NEW n \in Nat, n < INT_RANGE PROVE PageOf(ACPI_ADDRESS + n) # v
  <2>1. (AcpiPage + IntPages) * PAGE = AcpiPage * PAGE + IntPages * PAGE
    BY Areas, Spaces, PagesOrder
  <2>2. (AcpiPage + IntPages) * PAGE <= VSPACE * PAGE
    <3>1. AcpiPage + IntPages \in Int /\ VSPACE \in Int /\ AcpiPage + IntPages <= VSPACE
      BY Areas, Spaces
    <3> QED  BY <3>1, PagesOrder
  <2>3. ACPI_ADDRESS + n \in Nat /\ ACPI_ADDRESS + n < VSIZE /\ AcpiPage * PAGE <= ACPI_ADDRESS + n
    BY <1>6, <2>1, <2>2, Areas, Spaces
  <2>4. AcpiPage <= PageOf(ACPI_ADDRESS + n) /\ PageOf(ACPI_ADDRESS + n) \in Nat
    BY <2>3, Areas, FromPage
  <2> QED  BY <1>1, <1>2, <1>4, <2>4, Areas
<1> QED  BY <1>5, <1>6 DEF v

(* One page, for whoever asked for the range.                              *)
LEMMA PageStep == ASSUME MappingsInv, mapOrCreatePage, MmioSame PROVE MappingsInv'
<1> USE DEF MmioSame
<1>1. /\ LoopInv /\ Order /\ Caller /\ Registers /\ range.ret = "none"
      /\ ForKernel \/ ForAcpi \/ ForBar
      /\ UNCHANGED <<pagingPc, firmware, memoryMap, heapPages, mapIndex, sizeMapped>>
  BY DEF MappingsInv, mapOrCreatePage, Caller
<1>2. pagingPc \in {"kernel", "tables"}
  BY <1>1 DEF ForKernel, ForAcpi, ForBar, Order
<1>3. /\ LoopInv'
      /\ \A a, x : MapsTo(a, x) /\ PageOf(a) # VirtualPage(range, range.page) => MapsTo(a, x)'
      /\ range'.ret # "idle" /\ range'.phys = range.phys /\ range'.virt = range.virt
      /\ range'.size = range.size
  BY <1>1, <1>2, LoopStep
<1>4. Order'
  BY <1>1, <1>2 DEF Order, GetMemoryMapForAddress
<1>5. AcpiEntry' = AcpiEntry
  BY <1>1 DEF AcpiEntry, GetMemoryMapForAddress
<1>6. (ForKernel => ForKernel') /\ (ForAcpi => ForAcpi') /\ (ForBar => ForBar')
  BY <1>1, <1>3, <1>5 DEF ForKernel, ForAcpi, ForBar
<1>7. Caller'
  BY <1>1, <1>3, <1>6 DEF Caller
<1>8. CASE acpi = "none"
  <2>1. Registers' /\ AcpiPlaced'
    BY <1>8, BootKeeps
  <2> QED  BY <1>3, <1>4, <1>7, <2>1 DEF MappingsInv
<1>9. CASE acpi = "mapping"
  <2>1. allocated = << >> /\ Len(allocated) = 0
    BY <1>1, <1>9 DEF Order
  <2>2. Registers'
    BY <1>1, <2>1, RegistersStay
  <2>3. AcpiPlaced'
    BY <1>9 DEF AcpiPlaced
  <2> QED  BY <1>3, <1>4, <1>7, <2>2, <2>3 DEF MappingsInv
<1>10. CASE acpi \notin {"none", "mapping"}
  <2>1. ForBar
    BY <1>1, <1>10 DEF Order, ForKernel, ForAcpi
  <2>2. Registers'
    BY <1>1, <1>3, <2>1, BarApart, RegistersStay
  <2>3. AcpiPlaced'
    <3> SUFFICES ASSUME acpi = "SUCCESS", AcpiOffset(AcpiEntry)' < downToPage(AcpiEntry.length)',
                        AcpiOffset(AcpiEntry)' < INT_RANGE
                 PROVE  MapsTo(ACPI_ADDRESS + AcpiOffset(AcpiEntry), sdt)'
      BY DEF AcpiPlaced
    <3>1. AcpiOffset(AcpiEntry)' = AcpiOffset(AcpiEntry) /\ downToPage(AcpiEntry.length)' = downToPage(AcpiEntry.length)
      BY <1>5 DEF AcpiOffset, downToPage
    <3>2. AcpiOffset(AcpiEntry) \in Nat /\ AcpiOffset(AcpiEntry) < INT_RANGE
      BY <1>1, <3>1, AcpiEntryIs DEF Order
    <3>3. MapsTo(ACPI_ADDRESS + AcpiOffset(AcpiEntry), sdt)
      BY <3>1, <3>2 DEF MappingsInv, AcpiPlaced
    <3>4. PageOf(ACPI_ADDRESS + AcpiOffset(AcpiEntry)) # VirtualPage(range, range.page)
      BY <1>1, <2>1, <3>2, BarApart
    <3> DEFINE o == AcpiOffset(AcpiEntry)
    <3>5. o' = o /\ sdt' = sdt
      BY <3>1
    <3> HIDE DEF o
    <3>6. MapsTo(ACPI_ADDRESS + o, sdt)'
      <4>1. leaf' = leaf' /\ \A a, x : MapsTo(a, x) /\ PageOf(a) # VirtualPage(range, range.page) => MapsTo(a, x)'
        BY <1>3
      <4>2. MapsTo(ACPI_ADDRESS + o, sdt) /\ PageOf(ACPI_ADDRESS + o) # VirtualPage(range, range.page)
        BY <3>3, <3>4 DEF o
      <4> QED  BY <3>5, <4>1, <4>2 DEF MapsTo
    <3> QED  BY <3>6 DEF o
  <2> QED  BY <1>3, <1>4, <1>7, <2>2, <2>3 DEF MappingsInv
<1> QED  BY <1>8, <1>9, <1>10

(* The range of the ACPI tables is asked for ...                           *)
LEMMA AcpiStep == ASSUME MappingsInv, saveAcpiTables PROVE MappingsInv'
<1> USE DEF saveAcpiTables, OnlyRangeChanges
<1> DEFINE g == GetMemoryMapForAddress(sdt)
           e == AcpiEntry
<1>1. /\ LoopInv /\ Order /\ Caller /\ Registers /\ acpi = "none" /\ bar = NoBar
      /\ pagingPc = "tables" /\ allocated = << >>
  BY DEF MappingsInv, Order
<1>2. range = NoRange
  BY <1>1, BarIs DEF Caller, ForKernel, ForAcpi, ForBar
<1>3. TablesCounted'
  BY <1>1, CountedStays
<1>4. \/ g = 0 /\ acpi' = "ENFOUND" /\ range' = NoRange
      \/ g # 0 /\ acpi' = "mapping"
               /\ range' = Mapping(downToPage(e.address), ACPI_ADDRESS, downToPage(e.length))
  BY <1>2 DEF AcpiEntry
<1>5. g # 0 => downToPage(e.address) \in Nat /\ downToPage(e.length) \in Nat /\ ACPI_ADDRESS \in Nat
  BY <1>1, AcpiEntryIs, Rounded, Areas
<1>6. LoopInv'
  BY <1>1, <1>3, <1>4, <1>5, LoopBegins
<1>7. GetMemoryMapForAddress(sdt)' = GetMemoryMapForAddress(sdt)
  BY DEF GetMemoryMapForAddress
<1>8. AcpiEntry' = AcpiEntry
  BY <1>7 DEF AcpiEntry
<1>9. Order'
  BY <1>1, <1>4, <1>7 DEF Order
<1>10. Caller'
  <2>1. CASE g = 0
    BY <1>1, <1>4, <2>1, Resting
  <2>2. CASE g # 0
    <3>1. ForAcpi' /\ range'.ret = "none" /\ acpi' = "mapping"
      BY <1>4, <1>8, <2>2 DEF ForAcpi, Mapping
    <3> QED  BY <1>1, <3>1 DEF Caller
  <2> QED  BY <2>1, <2>2
<1>11. Registers'
  <2>1. Len(allocated) = 0
    BY <1>1
  <2> QED  BY <1>1, <2>1, RegistersStay
<1>12. AcpiPlaced'
  BY <1>4 DEF AcpiPlaced
<1> QED  BY <1>6, <1>9, <1>10, <1>11, <1>12 DEF MappingsInv

(* ... and mapped, or not.                                                 *)
LEMMA AcpiMappedStep == ASSUME MappingsInv, AcpiMapped PROVE MappingsInv'
<1> USE DEF AcpiMapped, OnlyRangeChanges
<1> DEFINE e == AcpiEntry
           n == AcpiOffset(AcpiEntry)
<1>1. /\ LoopInv /\ Order /\ Caller /\ Registers /\ acpi = "mapping" /\ bar = NoBar
      /\ pagingPc = "tables" /\ allocated = << >> /\ ForAcpi /\ GetMemoryMapForAddress(sdt) # 0
  BY DEF MappingsInv, Order, Caller
<1>2. TablesCounted'
  BY <1>1, CountedStays
<1>3. LoopInv' /\ \A a, x : MapsTo(a, x) => MapsTo(a, x)'
  BY <1>1, <1>2, LoopBegins
<1>4. GetMemoryMapForAddress(sdt)' = GetMemoryMapForAddress(sdt)
  BY DEF GetMemoryMapForAddress
<1>5. AcpiEntry' = AcpiEntry
  BY <1>4 DEF AcpiEntry
<1>6. Order'
  <2>1. acpi' \in {"SUCCESS", "ENMEM"}
    OBVIOUS
  <2> QED  BY <1>1, <1>4, <2>1 DEF Order
<1>7. Caller'
  BY <1>1, Resting
<1>8. Registers'
  <2>1. Len(allocated) = 0
    BY <1>1
  <2> QED  BY <1>1, <2>1, RegistersStay
<1>9. AcpiPlaced'
  <2>1. /\ n \in Nat /\ n = sdt - downToPage(e.address) /\ sdt \in Nat /\ sdt < MMIO_VIRTUAL
        /\ e.address \in Nat /\ e.length \in Nat /\ e.length <= 2 * INT_RANGE
    BY <1>1, AcpiEntryIs
  <2>2. /\ downToPage(e.address) \in Nat /\ downToPage(e.address) % PAGE = 0
        /\ downToPage(e.length) \in Nat /\ downToPage(e.length) <= e.length
    BY <2>1, Rounded
  <2>3. n' = n /\ downToPage(e.length)' = downToPage(e.length) /\ sdt' = sdt
    BY <1>5 DEF AcpiOffset, downToPage
  <2> SUFFICES ASSUME range.ret = "SUCCESS", n < downToPage(e.length), n < INT_RANGE
               PROVE  MapsTo(ACPI_ADDRESS + n, sdt)
    BY <1>3, <2>3 DEF AcpiPlaced, MapsTo
  <2>4. /\ range.phys = downToPage(e.address) /\ range.virt = ACPI_ADDRESS
        /\ range.size = downToPage(e.length)
    BY <1>1 DEF ForAcpi
  <2>5. range.size <= range.page * PAGE /\ range.page \in Nat
    BY <1>1 DEF LoopInv, Rounds
  <2>6. range.page <= 2 * IntPages
    <3>1. range.size <= (2 * IntPages) * PAGE /\ 2 * IntPages \in Nat \ {0}
      BY <2>1, <2>2, <2>4, Spaces
    <3> QED  BY <1>1, <3>1, RoundsBound
  <2>7. /\ range.virt % PAGE = 0 /\ range.phys % PAGE = 0 /\ range.virt + INT_RANGE <= VSIZE
    BY <2>2, <2>4, MmioAssumption, Spaces
  <2>8. range.phys + n = sdt
    BY <2>1, <2>2, <2>4
  <2>9. n < range.page * PAGE /\ sdt < VSIZE
    <3>1. range.page * PAGE \in Nat
      BY <2>5, Spaces
    <3>2. n < range.page * PAGE
      BY <2>1, <2>2, <2>4, <2>5, <3>1
    <3>3. MMIO_VIRTUAL <= VSIZE
      BY Areas, Spaces, MmioAssumption
    <3> QED  BY <2>1, <3>2, <3>3, Areas, Spaces
  <2> HIDE DEF n, e
  <2>10. MapsTo(range.virt + n, range.phys + n)
    BY <1>1, <2>1, <2>6, <2>7, <2>8, <2>9, RangeMaps
  <2> QED  BY <2>4, <2>8, <2>10
<1> QED  BY <1>3, <1>6, <1>7, <1>8, <1>9 DEF MappingsInv

(* A driver's registers are about to be mapped ...                         *)
LEMMA BarStep == ASSUME MappingsInv, NEW b \in Bars, mmioMap(b) PROVE MappingsInv'
<1> USE DEF mmioMap, OnlyRangeChanges
<1>1. /\ LoopInv /\ Order /\ Caller /\ Registers /\ AcpiPlaced /\ acpi \notin {"none", "mapping"}
      /\ bar = NoBar /\ pagingPc = "tables" /\ bar' = b
  BY DEF MappingsInv
<1>2. TablesCounted'
  BY <1>1, CountedStays
<1>3. b[1] \in Nat /\ upToPage(b[2]) \in Nat /\ b # NoBar
  BY BarIs
<1>4. currVirtualAddress \in Nat
  BY <1>1 DEF Registers
<1>5. LoopInv' /\ \A a, x : MapsTo(a, x) => MapsTo(a, x)'
  BY <1>1, <1>2, <1>3, <1>4, LoopBegins
<1>6. GetMemoryMapForAddress(sdt)' = GetMemoryMapForAddress(sdt)
  BY DEF GetMemoryMapForAddress
<1>7. Order'
  BY <1>1, <1>6 DEF Order
<1>8. Caller'
  <2>1. ForBar' /\ range'.ret = "none"
    BY <1>1 DEF ForBar, Mapping
  <2> QED  BY <1>1, <2>1 DEF Caller
<1>9. Registers'
  <2>1. Len(allocated) <= MMIO_MAX_ALLOC
    BY DEF MmioRoom
  <2> QED  BY <1>1, <1>5, <2>1, RegistersStay
<1>10. AcpiPlaced'
  BY <1>1, <1>6, <1>5 DEF AcpiPlaced, AcpiEntry, AcpiOffset, MapsTo
<1> QED  BY <1>5, <1>7, <1>8, <1>9, <1>10 DEF MappingsInv

(* ... and cannot be ...                                                   *)
LEMMA BarFailsStep == ASSUME MappingsInv, MmioFails PROVE MappingsInv'
<1> USE DEF MmioFails, OnlyRangeChanges
<1>1. /\ LoopInv /\ Order /\ Caller /\ Registers /\ AcpiPlaced /\ acpi \notin {"none", "mapping"}
      /\ pagingPc = "tables" /\ bar' = NoBar
  BY DEF MappingsInv, Order, Caller, ForBar
<1>2. TablesCounted'
  BY <1>1, CountedStays
<1>3. LoopInv' /\ \A a, x : MapsTo(a, x) => MapsTo(a, x)'
  BY <1>1, <1>2, LoopBegins
<1>4. GetMemoryMapForAddress(sdt)' = GetMemoryMapForAddress(sdt)
  BY DEF GetMemoryMapForAddress
<1>5. Order'
  BY <1>1, <1>4 DEF Order
<1>6. Caller'
  BY <1>1, Resting
<1>7. Registers'
  BY <1>1, <1>3, RegistersStay
<1>8. AcpiPlaced'
  BY <1>1, <1>3, <1>4 DEF AcpiPlaced, AcpiEntry, AcpiOffset, MapsTo
<1> QED  BY <1>3, <1>5, <1>6, <1>7, <1>8 DEF MappingsInv

(* ... or are: behind those before, and from end to end.                   *)
LEMMA BarMappedStep == ASSUME MappingsInv, MmioMapped PROVE MappingsInv'
<1> USE DEF MmioMapped, OnlyRangeChanges
<1>20. PICK L : L = Len(allocated)
  OBVIOUS
<1> DEFINE e == [physical |-> bar[1], virtual |-> currVirtualAddress, size |-> bar[2]]
           RegisterRecs == [physical : Nat, virtual : Nat, size : Nat]
<1>1. /\ LoopInv /\ Order /\ Caller /\ Registers /\ AcpiPlaced /\ acpi \notin {"none", "mapping"}
      /\ pagingPc = "tables" /\ bar' = NoBar /\ ForBar /\ range.ret = "SUCCESS"
  BY DEF MappingsInv, Order, Caller, ForBar
<1>2. TablesCounted'
  BY <1>1, CountedStays
<1>3. LoopInv' /\ \A a, x : MapsTo(a, x) => MapsTo(a, x)'
  BY <1>1, <1>2, LoopBegins
<1>4. GetMemoryMapForAddress(sdt)' = GetMemoryMapForAddress(sdt)
  BY DEF GetMemoryMapForAddress
<1>5. Order'
  BY <1>1, <1>4 DEF Order
<1>6. Caller'
  BY <1>1, Resting
<1>7. AcpiPlaced'
  BY <1>1, <1>3, <1>4 DEF AcpiPlaced, AcpiEntry, AcpiOffset, MapsTo
<1>8. /\ bar[1] \in Nat /\ bar[2] \in Nat \ {0} /\ bar[1] + bar[2] <= VSIZE
      /\ bar[2] <= INT_RANGE /\ bar[2] <= BarRoom
      /\ allocated \in Seq(RegisterRecs) /\ L \in Nat /\ L <= MMIO_MAX_ALLOC
      /\ currVirtualAddress \in Nat /\ MMIO_VIRTUAL <= currVirtualAddress
      /\ currVirtualAddress <= MMIO_VIRTUAL + (L * BarRoom)
  BY <1>1, <1>20, BarIs DEF ForBar, Registers
<1>9. /\ allocated' = Append(allocated, e) /\ currVirtualAddress' = currVirtualAddress + bar[2]
      /\ e \in RegisterRecs
  BY <1>8 DEF NextVirtual
<1>19. currVirtualAddress' = currVirtualAddress + bar[2]
  BY <1>9
<1>10. /\ allocated' \in Seq(RegisterRecs) /\ Len(allocated') = L + 1
       /\ \A i \in 1 .. L : allocated'[i] = allocated[i]
       /\ allocated'[L + 1] = e
  BY <1>8, <1>9, <1>20, AppendProperties
<1>11. ASSUME NEW i \in 1 .. L PROVE AlignedTo(i)' <=> AlignedTo(i)
  <2>1. \A j \in 1 .. i : allocated'[j] = allocated[j]
    BY <1>8, <1>10
  <2> QED  BY <2>1 DEF AlignedTo, PageAligned
<1>12. AlignedTo(L + 1)' =>
          /\ AlignedTo(L) /\ bar[1] % PAGE = 0 /\ bar[2] % PAGE = 0
          /\ currVirtualAddress % PAGE = 0
  <2> SUFFICES ASSUME AlignedTo(L + 1)'
               PROVE  /\ AlignedTo(L) /\ bar[1] % PAGE = 0 /\ bar[2] % PAGE = 0
                      /\ currVirtualAddress % PAGE = 0
    OBVIOUS
  <2>1. \A j \in 1 .. (L + 1) : allocated'[j].physical % PAGE = 0 /\ allocated'[j].size % PAGE = 0
    BY DEF AlignedTo, PageAligned
  <2>2. L + 1 \in 1 .. (L + 1) /\ \A j \in 1 .. L : j \in 1 .. (L + 1)
    BY <1>8
  <2>3. bar[1] % PAGE = 0 /\ bar[2] % PAGE = 0
    <3>1. e.physical % PAGE = 0 /\ e.size % PAGE = 0
      BY <1>10, <2>1, <2>2
    <3> QED  BY <3>1
  <2>4. AlignedTo(L)
    BY <1>10, <2>1, <2>2 DEF AlignedTo, PageAligned
  <2> QED  BY <1>1, <1>20, <2>3, <2>4 DEF Registers
<1>13. AlignedTo(L + 1)' => (currVirtualAddress + bar[2]) % PAGE = 0
  BY <1>8, <1>12, SumAligned
<1>14. /\ L * BarRoom \in Nat /\ (L + 1) * BarRoom = (L * BarRoom) + BarRoom /\ BarRoom \in Nat
       /\ L * BarRoom <= MMIO_MAX_ALLOC * BarRoom
  <2>1. L \in Nat /\ MMIO_MAX_ALLOC \in Nat /\ L <= MMIO_MAX_ALLOC /\ BarRoom \in Nat
    BY <1>8, Areas
  <2>2. (L + 1) * BarRoom = (L * BarRoom) + BarRoom
    BY <2>1
  <2> QED  BY <2>1, <2>2, Times
<1>0. /\ currVirtualAddress \in Nat /\ MMIO_VIRTUAL <= currVirtualAddress
      /\ bar[1] \in Nat /\ bar[2] \in Nat \ {0} /\ bar[1] + bar[2] <= VSIZE
      /\ bar[2] <= INT_RANGE /\ bar[2] <= BarRoom
  BY <1>8
<1>15. ASSUME AlignedTo(L + 1)', NEW n \in 0 .. (bar[2] - 1)
       PROVE  MapsTo(currVirtualAddress + n, bar[1] + n)
  <2>1. bar[1] % PAGE = 0 /\ bar[2] % PAGE = 0 /\ currVirtualAddress % PAGE = 0
    BY <1>12, <1>15
  <2>2. range.phys = bar[1] /\ range.virt = currVirtualAddress /\ range.size = bar[2]
    BY <1>1, <2>1 DEF ForBar, upToPage
  <2>3. range.size <= IntPages * PAGE /\ IntPages \in Nat \ {0}
    BY <1>8, <2>2, Spaces
  <2>4. range.page <= IntPages /\ range.page \in Nat /\ range.size <= range.page * PAGE
    BY <1>1, <2>3, RoundsBound DEF LoopInv, Rounds
  <2>5. range.page <= 2 * IntPages /\ range.page * PAGE \in Nat
    BY <2>3, <2>4, Spaces
  <2>6. n \in Nat /\ n < range.page * PAGE /\ n < INT_RANGE /\ range.phys + n < VSIZE
    <3> DEFINE P == range.page * PAGE
    <3>1. P \in Nat /\ bar[2] <= P
      BY <2>2, <2>4, <2>5
    <3> HIDE DEF P
    <3>2. n \in Nat /\ n < P /\ n < INT_RANGE /\ bar[1] + n < VSIZE
      BY <1>0, <3>1, Spaces
    <3> QED  BY <2>2, <3>2 DEF P
  <2>7. range.virt + INT_RANGE <= VSIZE
    <3> DEFINE x == L * BarRoom
               X == MMIO_MAX_ALLOC * BarRoom
    <3>1. x \in Nat /\ X \in Nat /\ x <= X /\ currVirtualAddress <= MMIO_VIRTUAL + x
      BY <1>8, <1>14, Areas
    <3>2. X + (2 * BarRoom) <= ACPI_ADDRESS - MMIO_VIRTUAL
      BY Areas
    <3>3. ACPI_ADDRESS <= VSIZE - INT_RANGE /\ VSIZE \in Nat /\ INT_RANGE \in Nat
      BY MmioAssumption, Spaces
    <3> HIDE DEF x, X
    <3>4. currVirtualAddress <= ACPI_ADDRESS
      <4>1. currVirtualAddress \in Nat /\ BarRoom \in Nat /\ MMIO_VIRTUAL \in Nat /\ ACPI_ADDRESS \in Nat
        BY <1>0, <1>14, Areas
      <4> QED  BY <3>1, <3>2, <4>1
    <3> QED  BY <1>0, <2>2, <3>3, <3>4, Areas
  <2>8. MapsTo(range.virt + n, range.phys + n)
    BY <1>1, <2>1, <2>2, <2>5, <2>6, <2>7, RangeMaps
  <2> QED  BY <2>2, <2>8
<1>16. ASSUME NEW i \in 1 .. (L + 1)
       PROVE  /\ MMIO_VIRTUAL <= allocated'[i].virtual
              /\ allocated'[i].virtual + allocated'[i].size <= currVirtualAddress'
              /\ AlignedTo(i)' =>
                    /\ (allocated'[i].virtual + allocated'[i].size) % PAGE = 0
                    /\ \A n \in 0 .. (allocated'[i].size - 1) :
                          MapsTo(allocated[i].virtual + n, allocated[i].physical + n)'
  <2>1. CASE i \in 1 .. L
    <3>1. allocated'[i] = allocated[i] /\ (AlignedTo(i)' <=> AlignedTo(i))
      BY <1>10, <1>11, <2>1
    <3>2. allocated[i] \in RegisterRecs
      BY <1>8, <1>20, <2>1, SeqElement
    <3>3. /\ MMIO_VIRTUAL <= allocated[i].virtual
          /\ allocated[i].virtual + allocated[i].size <= currVirtualAddress
          /\ AlignedTo(i) =>
                /\ (allocated[i].virtual + allocated[i].size) % PAGE = 0
                /\ \A n \in 0 .. (allocated[i].size - 1) :
                      MapsTo(allocated[i].virtual + n, allocated[i].physical + n)
      BY <1>1, <1>20, <2>1 DEF Registers
    <3>4. allocated[i].virtual + allocated[i].size <= currVirtualAddress'
      BY <1>0, <1>9, <3>2, <3>3
    <3>5. ASSUME AlignedTo(i)', NEW n \in 0 .. (allocated'[i].size - 1)
          PROVE  MapsTo(allocated[i].virtual + n, allocated[i].physical + n)'
      <4>1. MapsTo(allocated[i].virtual + n, allocated[i].physical + n)
        BY <3>1, <3>3, <3>5
      <4> QED  BY <1>3, <3>1, <4>1 DEF MapsTo
    <3>6. MMIO_VIRTUAL <= allocated'[i].virtual /\ allocated'[i].virtual + allocated'[i].size <= currVirtualAddress'
      BY <3>1, <3>3, <3>4
    <3>7. AlignedTo(i)' => (allocated'[i].virtual + allocated'[i].size) % PAGE = 0
      BY <3>1, <3>3
    <3> QED  BY <3>5, <3>6, <3>7
  <2>2. CASE i = L + 1
    <3>1. /\ allocated'[i].physical = bar[1] /\ allocated'[i].virtual = currVirtualAddress
          /\ allocated'[i].size = bar[2]
      BY <1>10, <2>2
    <3>2. currVirtualAddress + bar[2] <= currVirtualAddress'
      BY <1>8, <1>9
    <3>3. AlignedTo(i)' => AlignedTo(L + 1)'
      BY <2>2 DEF AlignedTo
    <3>4. ASSUME AlignedTo(i)', NEW n \in 0 .. (allocated'[i].size - 1)
          PROVE  MapsTo(allocated[i].virtual + n, allocated[i].physical + n)'
      <4>1. MapsTo(currVirtualAddress + n, bar[1] + n)
        BY <1>15, <3>1, <3>3, <3>4
      <4> QED  BY <1>3, <3>1, <4>1 DEF MapsTo
    <3>5. MMIO_VIRTUAL <= allocated'[i].virtual /\ allocated'[i].virtual + allocated'[i].size <= currVirtualAddress'
      BY <1>0, <3>1, <3>2
    <3>6. AlignedTo(i)' => (allocated'[i].virtual + allocated'[i].size) % PAGE = 0
      BY <1>13, <3>1, <3>3
    <3> QED  BY <3>4, <3>5, <3>6
  <2>3. i \in 1 .. L \/ i = L + 1
    BY <1>8
  <2> QED  BY <2>1, <2>2, <2>3
<1>17. Registers'
  <2>1. /\ currVirtualAddress' \in Nat /\ MMIO_VIRTUAL <= currVirtualAddress'
        /\ currVirtualAddress' <= MMIO_VIRTUAL + ((L + 1) * BarRoom)
    <3> DEFINE x == L * BarRoom
               y == (L + 1) * BarRoom
    <3>1. x \in Nat /\ y = x + BarRoom /\ BarRoom \in Nat /\ currVirtualAddress <= MMIO_VIRTUAL + x
      BY <1>8, <1>14
    <3> HIDE DEF x, y
    <3>3. bar[2] <= BarRoom /\ bar[2] \in Nat /\ MMIO_VIRTUAL <= currVirtualAddress /\ currVirtualAddress \in Nat
      BY <1>0
    <3>4. MMIO_VIRTUAL \in Nat
      BY Areas
    <3>2. currVirtualAddress' <= MMIO_VIRTUAL + y /\ currVirtualAddress' \in Nat /\ MMIO_VIRTUAL <= currVirtualAddress'
      BY <1>19, <3>1, <3>3, <3>4
    <3> QED  BY <3>2 DEF y
  <2>2. AlignedTo(Len(allocated))' => currVirtualAddress' % PAGE = 0
    <3>1. AlignedTo(Len(allocated))' => AlignedTo(L + 1)'
      BY <1>10 DEF AlignedTo
    <3> QED  BY <1>13, <1>19, <3>1
  <2>3. Len(allocated') <= MMIO_MAX_ALLOC + 1
    BY <1>8, <1>10, Areas
  <2> HIDE DEF e
  <2>4. bar' = NoBar /\ Len(allocated') = L + 1 /\ allocated' \in Seq(RegisterRecs)
    BY <1>1, <1>10
  <2> QED  BY <1>16, <2>1, <2>2, <2>3, <2>4 DEF Registers
<1> QED  BY <1>3, <1>5, <1>6, <1>7, <1>17 DEF MappingsInv

(* A step that changes nothing.                                            *)
LEMMA StillStep == ASSUME MappingsInv, UNCHANGED mmioVars PROVE MappingsInv'
<1> USE DEF mmioVars, pagingVars
<1>1. LoopInv' <=> LoopInv
  BY DEF LoopInv, Leaves, TablesCounted, NoTableLost, Rounds, Written, VirtualPage, PhysicalPage
<1>2. Order' <=> Order
  BY DEF Order, GetMemoryMapForAddress
<1>3. AcpiEntry' = AcpiEntry
  BY DEF AcpiEntry, GetMemoryMapForAddress
<1>4. Caller' <=> Caller
  BY <1>3 DEF Caller, ForKernel, ForAcpi, ForBar
<1>5. Registers' <=> Registers
  BY DEF Registers, AlignedTo, PageAligned, MapsTo
<1>6. AcpiPlaced' <=> AcpiPlaced
  BY <1>3 DEF AcpiPlaced, AcpiOffset, MapsTo
<1> QED  BY <1>1, <1>2, <1>4, <1>5, <1>6 DEF MappingsInv

LEMMA MmioStep == ASSUME MappingsInv, [MmioNext]_mmioVars PROVE MappingsInv'
<1>1. ASSUME Boot PROVE MappingsInv'
  BY <1>1, ReadStep, CreateStep, EntryStep, MappedStep, FailsStep, LoadStep DEF Boot, MmioSame
<1>2. ASSUME MapPage PROVE MappingsInv'
  BY <1>2, PageStep DEF MapPage, MmioSame
<1> QED  BY <1>1, <1>2, AcpiStep, AcpiMappedStep, BarStep, BarMappedStep, BarFailsStep, StillStep DEF MmioNext

LEMMA MappingsHold == MmioSpec => []MappingsInv
<1>1. MappingsInv /\ [MmioNext]_mmioVars => MappingsInv'
  BY MmioStep
<1> QED  BY <1>1, FirstStep, PTL DEF MmioSpec

(* What is mapped leads where it should.                                   *)
LEMMA Leads ==
    ASSUME Leaves, NEW a, NEW x, MapsTo(a, x)
    PROVE  virtualToPhysical(a) = x
<1>1. PageOf(a) \in DOMAIN leaf /\ TablesOf(PageOf(a)) \subseteq pageTables
  BY DEF MapsTo, Leaves
<1> QED  BY <1>1 DEF MapsTo, virtualToPhysical

(* Every page taken from the kernel heap for a page table is in use, also  *)
(* while a range is being mapped and when that fails half way              *)
(* (getOrCreateEntry and mapOrCreateRange of paging.c).                    *)
THEOREM TablesAccounted == MmioSpec => []MapInv
<1>1. MappingsInv => MapInv
  <2> SUFFICES ASSUME MappingsInv PROVE MapInv
    OBVIOUS
  <2>1. pagingPc \in {"boot", "mapped", "kernel", "tables", "panic"}
    BY DEF MappingsInv, Order
  <2>2. /\ DOMAIN leaf \subseteq 0 .. (VSPACE - 1) /\ room \in Nat /\ NoTableLost
        /\ \A v \in DOMAIN leaf : leaf[v] \in Nat /\ TablesOf(v) \subseteq pageTables
    BY DEF MappingsInv, LoopInv, Leaves, TablesCounted
  <2>3. Len(allocated) <= MMIO_MAX_ALLOC + 1
    BY DEF MappingsInv, Registers
  <2> QED  BY <2>1, <2>2, <2>3 DEF MapInv, MapTypeOK
<1> QED  BY <1>1, MappingsHold, PTL

(* A driver's pointer keeps leading to the registers of its device, through *)
(* all later mappings and the ones that fail half way (mmioMap and         *)
(* remapPhysicalToVirtualRange).                                           *)
THEOREM RegistersIntact == MmioSpec => []MappingsIntact
<1>1. MappingsInv => MappingsIntact
  <2> SUFFICES ASSUME MappingsInv, NEW i \in DOMAIN allocated,
                      \A j \in 1 .. i : PageAligned(allocated[j]),
                      NEW n \in 0 .. (allocated[i].size - 1)
               PROVE  virtualToPhysical(allocated[i].virtual + n) = allocated[i].physical + n
    BY DEF MappingsIntact
  <2>1. Registers /\ Leaves
    BY DEF MappingsInv, LoopInv
  <2>2. i \in 1 .. Len(allocated)
    <3>1. allocated \in Seq([physical : Nat, virtual : Nat, size : Nat])
      BY <2>1 DEF Registers
    <3> QED  BY <3>1, SeqElement
  <2>3. MapsTo(allocated[i].virtual + n, allocated[i].physical + n)
    BY <2>1, <2>2 DEF Registers, AlignedTo
  <2> QED  BY <2>1, <2>3, Leads
<1> QED  BY <1>1, MappingsHold, PTL

(* saveAcpiTables reads the table that the firmware named, also off a page *)
(* boundary, and through all later mappings.                               *)
THEOREM AcpiTableIsRead == MmioSpec => []AcpiTableFound
<1>1. MappingsInv => AcpiTableFound
  <2> SUFFICES ASSUME MappingsInv, acpi = "SUCCESS",
                      AcpiOffset(AcpiEntry) < downToPage(AcpiEntry.length),
                      AcpiOffset(AcpiEntry) < INT_RANGE
               PROVE  virtualToPhysical(ACPI_ADDRESS + AcpiOffset(AcpiEntry)) = sdt
    BY DEF AcpiTableFound, AcpiEntry
  <2>1. Leaves /\ MapsTo(ACPI_ADDRESS + AcpiOffset(AcpiEntry), sdt)
    BY DEF MappingsInv, LoopInv, AcpiPlaced
  <2> QED  BY <2>1, Leads
<1> QED  BY <1>1, MappingsHold, PTL
-----------------------------------------------------------------------------
(* The kernel's own addresses.                                             *)
Start(i)   == downToPage(memoryMap[i].address)
Size(i)    == downToPage(memoryMap[i].length)
Free(i)    == i \in DOMAIN memoryMap /\ memoryMap[i].type = "free"

(* What is mapped so far follows the memory as far as it has no hole, and  *)
(* the entries that are left begin behind it.                              *)
KernelLoop ==
    /\ \A i : Free(i) /\ mapIndex <= i => sizeMapped <= Start(i)
    /\ \A a \in Nat : NoHoleBelow(a) /\ sizeMapped <= a =>
          \A i : Free(i) /\ i < mapIndex => Start(i) + Size(i) <= sizeMapped
    /\ \A a \in Nat : NoHoleBelow(a) /\ a < sizeMapped => MapsTo(a, a)
    /\ (mapIndex = 1 /\ sizeMapped = 0) \/ LOW <= sizeMapped

KernelInv ==
    /\ pagingPc = "kernel" => KernelLoop
    /\ pagingPc = "tables" => \A a \in Nat : NoHoleBelow(a) => MapsTo(a, a)

(* The kernel's map is in order if the firmware's is.                      *)
LEMMA ReworkedApart ==
    ASSUME MapsInOrder, NEW m \in FirmwareMaps
    PROVE  LET r == ReworkMemoryMap(m) IN
           \A i, j \in DOMAIN r : i < j => r[i].address + r[i].length <= r[j].address
<1> DEFINE r == ReworkMemoryMap(m)
           n == LowEntries(m)
<1>1. /\ r \in Seq(MapEntries) /\ Len(r) = 1 + (Len(m) - n) /\ n \in 0 .. Len(m) /\ Len(m) \in Nat
      /\ r[1] = [address |-> 0, length |-> LOW, type |-> "free"]
      /\ \A i \in 2 .. Len(r) : n + i - 1 \in (n + 1) .. Len(m) /\ r[i] = m[n + i - 1]
      /\ Len(r) > 1 => r[2].address >= LOW
  BY ReworkedMap
<1>2. /\ \A i \in 1 .. Len(r) : r[i].address \in Nat /\ r[i].length \in Nat
      /\ DOMAIN r = 1 .. Len(r) /\ LOW \in Nat
  <2>1. DOMAIN r = 1 .. Len(r) /\ \A i \in 1 .. Len(r) : r[i] \in MapEntries
    BY <1>1, SeqElement
  <2> HIDE DEF r
  <2>2. \A i \in 1 .. Len(r) : r[i].address \in Nat /\ r[i].length \in Nat
    BY <2>1 DEF MapEntries
  <2> QED  BY <2>1, <2>2, PagingAssumption
<1>3. \A i, j \in DOMAIN m : i < j => m[i].address + m[i].length <= m[j].address
  BY DEF MapsInOrder
<1>4. DOMAIN m = 1 .. Len(m)
  BY LowEntriesIs
<1> HIDE DEF r, n
<1>5. \A i, j \in 2 .. Len(r) : i < j => r[i].address + r[i].length <= r[j].address
  <2> SUFFICES ASSUME NEW i \in 2 .. Len(r), NEW j \in 2 .. Len(r), i < j
               PROVE  r[i].address + r[i].length <= r[j].address
    OBVIOUS
  <2>1. n + i - 1 \in DOMAIN m /\ n + j - 1 \in DOMAIN m /\ n + i - 1 < n + j - 1
    <3>1. n + i - 1 \in (n + 1) .. Len(m) /\ n + j - 1 \in (n + 1) .. Len(m)
      BY <1>1
    <3>2. n \in Nat /\ i \in Nat /\ j \in Nat /\ Len(m) \in Nat
      BY <1>1
    <3> HIDE DEF n
    <3> QED  BY <1>4, <3>1, <3>2
  <2> QED  BY <1>1, <1>3, <2>1
<1>6. ASSUME NEW j \in 2 .. Len(r) PROVE LOW <= r[j].address
  <2>1. Len(r) \in Nat /\ LOW <= r[2].address
    BY <1>1
  <2>2. CASE j = 2
    BY <2>1, <2>2
  <2>3. CASE j # 2
    <3>1. 2 \in 2 .. Len(r) /\ 2 < j /\ 2 \in 1 .. Len(r) /\ j \in 1 .. Len(r)
      BY <2>1, <2>3
    <3>2. r[2].address + r[2].length <= r[j].address
      BY <1>5, <3>1
    <3> QED  BY <1>2, <2>1, <3>1, <3>2
  <2> QED  BY <2>2, <2>3
<1> SUFFICES ASSUME NEW i \in DOMAIN r, NEW j \in DOMAIN r, i < j
             PROVE  r[i].address + r[i].length <= r[j].address
  BY DEF r
<1>7. j \in 2 .. Len(r) /\ Len(r) \in Nat
  BY <1>1, <1>2
<1>8. CASE i = 1
  <2>1. r[i].address + r[i].length = LOW
    BY <1>1, <1>2, <1>8
  <2> QED  BY <1>6, <1>7, <2>1
<1>9. CASE i # 1
  <2>1. i \in 2 .. Len(r)
    BY <1>2, <1>9
  <2> QED  BY <1>5, <1>7, <2>1
<1> QED  BY <1>8, <1>9

LEMMA KernelMap ==
    ASSUME MapsInOrder, RangesFitInt, MappingsInv, pagingPc # "boot"
    PROVE  /\ DOMAIN memoryMap = 1 .. Len(memoryMap) /\ Len(memoryMap) \in Nat \ {0}
           /\ \A i \in DOMAIN memoryMap :
                 /\ memoryMap[i].address \in Nat /\ memoryMap[i].length \in Nat
                 /\ Start(i) \in Nat /\ Start(i) % PAGE = 0 /\ Start(i) <= memoryMap[i].address
                 /\ Size(i) \in Nat /\ Size(i) % PAGE = 0 /\ Size(i) <= memoryMap[i].length
                 /\ memoryMap[i].address <= MMIO_VIRTUAL
                 /\ \/ memoryMap[i].address + memoryMap[i].length <= 2 * INT_RANGE
                    \/ memoryMap[i].length <= INT_RANGE
           /\ \A i, j \in DOMAIN memoryMap : i < j => Start(i) + Size(i) <= Start(j)
           /\ Free(1) /\ Start(1) = 0 /\ Size(1) = LOW
<1>1. firmware \in FirmwareMaps /\ memoryMap = ReworkMemoryMap(firmware)
  BY DEF MappingsInv, Order
<1>2. /\ memoryMap \in Seq(MapEntries) /\ Len(memoryMap) \in Nat \ {0}
      /\ memoryMap[1] = [address |-> 0, length |-> LOW, type |-> "free"]
  BY <1>1, ReworkedMap
<1>3. DOMAIN memoryMap = 1 .. Len(memoryMap)
  BY <1>2
<1>4. ASSUME NEW i \in DOMAIN memoryMap
      PROVE  /\ memoryMap[i].address \in Nat /\ memoryMap[i].length \in Nat
             /\ memoryMap[i].address <= MMIO_VIRTUAL
             /\ \/ memoryMap[i].address + memoryMap[i].length <= 2 * INT_RANGE
                \/ memoryMap[i].length <= INT_RANGE
  <2>1. memoryMap[i] \in MapEntries /\ memoryMap[i].address + memoryMap[i].length <= MMIO_VIRTUAL
    BY <1>1, MapBounds
  <2>2. memoryMap[i].address \in Nat /\ memoryMap[i].length \in Nat
    BY <2>1 DEF MapEntries
  <2>5. memoryMap[i].address <= MMIO_VIRTUAL
    BY <2>1, <2>2, Areas
  <2>3. CASE i = 1
    <3>1. memoryMap[i].length = LOW /\ LOW <= INT_RANGE
      BY <1>2, <2>3, MmioAssumption
    <3> QED  BY <2>2, <2>5, <3>1
  <2>4. CASE i # 1
    <3>1. i \in 2 .. Len(memoryMap)
      BY <1>2, <1>3, <2>4
    <3>2. PICK j \in (LowEntries(firmware) + 1) .. Len(firmware) : memoryMap[i] = firmware[j]
      BY <1>1, <3>1, ReworkedMap
    <3>3. j \in DOMAIN firmware
      BY <1>1, LowEntriesIs
    <3>4. \/ firmware[j].address + firmware[j].length <= 2 * INT_RANGE
          \/ firmware[j].length <= INT_RANGE
      BY <1>1, <3>3 DEF RangesFitInt
    <3> QED  BY <2>2, <2>5, <3>2, <3>4
  <2> QED  BY <2>3, <2>4
<1>5. ASSUME NEW i \in DOMAIN memoryMap
      PROVE  /\ Start(i) \in Nat /\ Start(i) % PAGE = 0 /\ Start(i) <= memoryMap[i].address
             /\ Size(i) \in Nat /\ Size(i) % PAGE = 0 /\ Size(i) <= memoryMap[i].length
  BY <1>4, Rounded DEF Start, Size
<1>6. ASSUME NEW i \in DOMAIN memoryMap, NEW j \in DOMAIN memoryMap, i < j
      PROVE  Start(i) + Size(i) <= Start(j)
  <2>1. memoryMap[i].address + memoryMap[i].length <= memoryMap[j].address
    BY <1>1, <1>6, ReworkedApart
  <2> QED  BY <1>4, <2>1, RoundedApart DEF Start, Size
<1>7. Free(1) /\ Start(1) = 0 /\ Size(1) = LOW
  <2>1. 1 \in DOMAIN memoryMap
    BY <1>2, <1>3
  <2>2. LOW \in Nat /\ LOW % PAGE = 0 /\ 0 % PAGE = 0
    BY PagingAssumption
  <2> QED  BY <1>2, <2>1, <2>2 DEF Free, Start, Size, downToPage
<1> QED  BY <1>2, <1>3, <1>4, <1>5, <1>6, <1>7

(* As far as there is no hole, an address is free, and so are those below. *)
LEMMA NoHole ==
    ASSUME NEW a \in Nat, NoHoleBelow(a)
    PROVE  /\ a < LOW + INT_RANGE
           /\ \A u \in 0 .. a : \E i : Free(i) /\ Start(i) <= u /\ u < Start(i) + Size(i)
BY DEF NoHoleBelow, IsFree, Free, Start, Size

(* The kernel's addresses are below the registers.                         *)
LEMMA KernelPage ==
    ASSUME NEW a \in Nat, NoHoleBelow(a)
    PROVE  PageOf(a) \in Nat /\ PageOf(a) < MmioPage
<1>1. a < MmioPage * PAGE
  BY NoHole, Areas, MmioAssumption, PagingAssumption
<1>2. MmioPage <= VSPACE
  BY Areas, Spaces
<1> QED  BY <1>1, <1>2, Areas, BelowPage

(* A page of the running range is not one that the kernel has: it comes    *)
(* behind them, or wraps to the end of the space.                          *)
LEMMA KernelRangeApart ==
    ASSUME MapsInOrder, RangesFitInt, MappingsInv, KernelLoop, ForKernel, range.ret = "none",
           NEW a \in Nat, NoHoleBelow(a), a < sizeMapped
    PROVE  PageOf(a) # VirtualPage(range, range.page)
<1> DEFINE w == sizeMapped \div PAGE
           i == range.page
<1>1. /\ mapIndex \in DOMAIN memoryMap /\ Free(mapIndex) /\ pagingPc = "kernel"
      /\ range.virt = sizeMapped /\ range.size = Size(mapIndex)
      /\ sizeMapped \in Nat /\ sizeMapped % PAGE = 0 /\ mapIndex \in Nat
  BY DEF ForKernel, Free, Size, MappingsInv, Order
<1>2. i \in Nat /\ (i = 0 \/ i * PAGE < range.size) /\ i * PAGE \in Nat
  <2>1. range.page \in Nat /\ (range.page = 0 \/ range.page * PAGE < range.size)
    BY DEF MappingsInv, LoopInv, Rounds
  <2> QED  BY <2>1, Spaces
<1>3. sizeMapped <= Start(mapIndex)
  BY <1>1 DEF KernelLoop
<1>4. /\ memoryMap[mapIndex].address \in Nat /\ memoryMap[mapIndex].length \in Nat
      /\ Start(mapIndex) \in Nat /\ Start(mapIndex) <= memoryMap[mapIndex].address
      /\ Size(mapIndex) \in Nat /\ Size(mapIndex) <= memoryMap[mapIndex].length
      /\ memoryMap[mapIndex].address <= MMIO_VIRTUAL
      /\ \/ memoryMap[mapIndex].address + memoryMap[mapIndex].length <= 2 * INT_RANGE
         \/ memoryMap[mapIndex].length <= INT_RANGE
  BY <1>1, KernelMap
<1>5. w \in Nat /\ sizeMapped = w * PAGE
  BY <1>1, Paged, WholePages
<1>6. PageOf(a) \in Nat /\ PageOf(a) < MmioPage
  BY KernelPage
<1> HIDE DEF w, i
<1>7. w <= MmioPage
  <2>1. w * PAGE <= MmioPage * PAGE
    BY <1>3, <1>4, <1>5, Areas
  <2> QED  BY <1>5, <2>1, Areas, PagesOrder
<1>8. w + IntPages <= VSPACE /\ w <= VSPACE
  BY <1>5, <1>7, Areas, Spaces
<1>9. PageOf(a) < w
  BY <1>5, <1>8, BelowPage
<1>10. i < 2 * IntPages /\ (IntPages <= i => w + i < 2 * IntPages)
  <2>1. CASE i = 0
    BY <2>1, Spaces
  <2>2. CASE i # 0
    <3>1. i * PAGE < Size(mapIndex)
      BY <1>1, <1>2, <2>2
    <3>2. (w + i) * PAGE = w * PAGE + i * PAGE /\ w + i \in Nat
      BY <1>2, <1>5, PagesOrder
    <3>3. CASE memoryMap[mapIndex].address + memoryMap[mapIndex].length <= 2 * INT_RANGE
      <4>1. (w + i) * PAGE < (2 * IntPages) * PAGE
        BY <1>1, <1>2, <1>3, <1>4, <1>5, <3>1, <3>2, <3>3, Spaces
      <4>2. w + i < 2 * IntPages
        <5>1. 2 * IntPages \in Int /\ w + i \in Int
          BY <3>2, Spaces
        <5> QED  BY <4>1, <5>1, PagesOrder
      <4> QED  BY <1>2, <1>5, <4>2, Spaces
    <3>4. CASE memoryMap[mapIndex].length <= INT_RANGE
      <4>1. i * PAGE < IntPages * PAGE
        BY <1>2, <1>4, <3>1, <3>4, Spaces
      <4>2. i < IntPages
        BY <1>2, <4>1, Spaces, PagesOrder
      <4> QED  BY <1>2, <4>2, Spaces
    <3> QED  BY <1>4, <3>3, <3>4
  <2> QED  BY <2>1, <2>2
<1>11. range.virt = w * PAGE
  BY <1>1, <1>5
<1>12. CASE i < IntPages
  <2>1. VirtualPage(range, i) = w + i
    BY <1>2, <1>5, <1>8, <1>10, <1>11, <1>12, VirtualPageIs
  <2> QED  BY <1>2, <1>5, <1>6, <1>9, <2>1 DEF i
<1>13. CASE IntPages <= i
  <2>1. VirtualPage(range, i) = w + i - (2 * IntPages) + VSPACE
    BY <1>2, <1>5, <1>8, <1>10, <1>11, <1>13, VirtualPageIs
  <2>2. MmioPage <= VirtualPage(range, i)
    BY <1>2, <1>5, <1>13, <2>1, Areas, Spaces
  <2> QED  BY <1>6, <2>1, <2>2, <1>2, <1>5, Areas, Spaces DEF i
<1> QED  BY <1>2, <1>12, <1>13, Spaces

(* The entry that has been mapped continues what was mapped before.        *)
LEMMA KernelRangeMaps ==
    ASSUME MapsInOrder, RangesFitInt, MappingsInv, KernelLoop, ForKernel, range.ret = "SUCCESS",
           NEW a \in Nat, NoHoleBelow(a), sizeMapped <= a
    PROVE  /\ Start(mapIndex) <= sizeMapped
           /\ a < sizeMapped + Size(mapIndex) => MapsTo(a, a)
<1>1. /\ mapIndex \in DOMAIN memoryMap /\ Free(mapIndex) /\ pagingPc = "kernel" /\ mapIndex \in Nat
      /\ range.virt = sizeMapped /\ range.size = Size(mapIndex) /\ range.phys = Start(mapIndex)
      /\ sizeMapped \in Nat /\ sizeMapped % PAGE = 0 /\ LoopInv
  BY DEF ForKernel, Free, Size, Start, MappingsInv, Order
<1>2. /\ Start(mapIndex) \in Nat /\ Size(mapIndex) \in Nat
      /\ memoryMap[mapIndex].address \in Nat /\ memoryMap[mapIndex].length \in Nat
      /\ Start(mapIndex) <= memoryMap[mapIndex].address
      /\ Size(mapIndex) <= memoryMap[mapIndex].length
      /\ memoryMap[mapIndex].address <= MMIO_VIRTUAL
      /\ \/ memoryMap[mapIndex].address + memoryMap[mapIndex].length <= 2 * INT_RANGE
         \/ memoryMap[mapIndex].length <= INT_RANGE
  BY <1>1, KernelMap
<1>3. PICK i : Free(i) /\ Start(i) <= sizeMapped /\ sizeMapped < Start(i) + Size(i)
  <2>1. sizeMapped \in 0 .. a
    BY <1>1
  <2> QED  BY <2>1, NoHole
<1>4. i \in DOMAIN memoryMap /\ i \in Nat /\ Start(i) \in Nat /\ Size(i) \in Nat
  <2>1. i \in DOMAIN memoryMap
    BY <1>3 DEF Free
  <2> QED  BY <1>1, <2>1, KernelMap
<1>5. ~ (i < mapIndex)
  <2>1. i < mapIndex => Start(i) + Size(i) <= sizeMapped
    BY <1>3 DEF KernelLoop
  <2> QED  BY <1>1, <1>3, <1>4, <2>1
<1>6. Start(mapIndex) <= sizeMapped
  <2>1. CASE i = mapIndex
    BY <1>3, <2>1
  <2>2. CASE mapIndex < i
    <3>1. Start(mapIndex) + Size(mapIndex) <= Start(i)
      BY <1>1, <1>4, <2>2, KernelMap
    <3> QED  BY <1>1, <1>2, <1>3, <1>4, <3>1
  <2> QED  BY <1>1, <1>4, <1>5, <2>1, <2>2
<1>7. ASSUME a < sizeMapped + Size(mapIndex) PROVE MapsTo(a, a)
  <2>1. sizeMapped <= Start(mapIndex)
    BY <1>1 DEF KernelLoop
  <2>2. range.phys = sizeMapped
    BY <1>1, <1>2, <1>6, <2>1
  <2> DEFINE n == a - sizeMapped
             P == range.page * PAGE
  <2>3. n \in Nat /\ range.virt + n = a /\ range.phys + n = a
    BY <1>1, <2>2
  <2>4. n < INT_RANGE
    <3>1. a < LOW + INT_RANGE /\ LOW \in Nat /\ LOW <= INT_RANGE /\ INT_RANGE \in Nat
      BY NoHole, PagingAssumption, MmioAssumption
    <3>2. CASE LOW <= sizeMapped
      BY <1>1, <3>1, <3>2
    <3>3. CASE mapIndex = 1 /\ sizeMapped = 0
      <4>1. Size(mapIndex) = LOW
        BY <1>1, <3>3, KernelMap
      <4> QED  BY <1>1, <1>7, <3>1, <3>3, <4>1
    <3> QED  BY <3>2, <3>3 DEF KernelLoop
  <2>5. range.page \in Nat /\ range.size <= P /\ P \in Nat
    <3>1. range.page \in Nat /\ range.size <= range.page * PAGE
      BY <1>1 DEF LoopInv, Rounds
    <3> QED  BY <3>1, Spaces
  <2>6. n < P
    <3> HIDE DEF P
    <3> QED  BY <1>1, <1>2, <1>7, <2>5
  <2>7. range.page <= 2 * IntPages
    <3>1. range.size <= 2 * INT_RANGE
      BY <1>1, <1>2, Spaces
    <3>2. range.size <= (2 * IntPages) * PAGE /\ 2 * IntPages \in Nat \ {0}
      BY <3>1, Spaces
    <3> QED  BY <1>1, <3>2, RoundsBound
  <2>8. range.virt + INT_RANGE <= VSIZE /\ a < VSIZE
    <3>1. /\ MMIO_VIRTUAL <= ACPI_ADDRESS - INT_RANGE /\ ACPI_ADDRESS <= VSIZE - INT_RANGE
          /\ LOW + INT_RANGE <= MMIO_VIRTUAL /\ LOW \in Nat /\ a < LOW + INT_RANGE
      BY MmioAssumption, PagingAssumption, NoHole
    <3> QED  BY <1>1, <1>2, <2>1, <3>1, Areas, Spaces
  <2>9. range.virt % PAGE = 0 /\ range.phys % PAGE = 0
    BY <1>1, <2>2
  <2> HIDE DEF n
  <2>10. MapsTo(range.virt + n, range.phys + n)
    BY <1>1, <2>3, <2>4, <2>6, <2>7, <2>8, <2>9, RangeMaps
  <2> QED  BY <2>3, <2>10
<1> QED  BY <1>6, <1>7

(* The steps.                                                              *)
LEMMA SameHoles ==
    ASSUME UNCHANGED memoryMap
    PROVE  /\ \A a : NoHoleBelow(a)' <=> NoHoleBelow(a)
           /\ \A i : /\ Free(i)' <=> Free(i)
                     /\ Start(i)' = Start(i) /\ Size(i)' = Size(i)
<1>1. \A u : IsFree(u)' <=> IsFree(u)
  BY DEF IsFree
<1>2. \A a : NoHoleBelow(a)' <=> NoHoleBelow(a)
  BY <1>1 DEF NoHoleBelow
<1> QED  BY <1>2 DEF Free, Start, Size

LEMMA KernelKept ==
    ASSUME KernelInv, UNCHANGED <<pagingPc, memoryMap, mapIndex, sizeMapped>>,
           \A a \in Nat :
               NoHoleBelow(a) /\ (pagingPc = "kernel" => a < sizeMapped) /\ MapsTo(a, a)
                 => MapsTo(a, a)'
    PROVE  KernelInv'
<1>1. \A a : NoHoleBelow(a)' <=> NoHoleBelow(a)
  BY SameHoles
<1>2. \A i : (Free(i)' <=> Free(i)) /\ Start(i)' = Start(i) /\ Size(i)' = Size(i)
  BY SameHoles
<1>3. ASSUME pagingPc = "kernel" PROVE KernelLoop'
  <2>1. KernelLoop
    BY <1>3 DEF KernelInv
  <2>2. \A i : Free(i)' /\ mapIndex' <= i => sizeMapped' <= Start(i)'
    BY <1>2, <2>1 DEF KernelLoop
  <2>3. \A a \in Nat : NoHoleBelow(a)' /\ sizeMapped' <= a =>
          \A i : Free(i)' /\ i < mapIndex' => Start(i)' + Size(i)' <= sizeMapped'
    BY <1>1, <1>2, <2>1 DEF KernelLoop
  <2>4. \A a \in Nat : NoHoleBelow(a)' /\ a < sizeMapped' => MapsTo(a, a)'
    BY <1>1, <1>3, <2>1 DEF KernelLoop
  <2>5. (mapIndex' = 1 /\ sizeMapped' = 0) \/ LOW <= sizeMapped'
    BY <2>1 DEF KernelLoop
  <2> QED  BY <2>2, <2>3, <2>4, <2>5 DEF KernelLoop
<1>4. ASSUME pagingPc = "tables", NEW a \in Nat, NoHoleBelow(a)' PROVE MapsTo(a, a)'
  <2>1. NoHoleBelow(a)
    BY <1>1, <1>4
  <2> QED  BY <1>4, <2>1 DEF KernelInv
<1> QED  BY <1>3, <1>4 DEF KernelInv

LEMMA KernelSame ==
    ASSUME KernelInv, UNCHANGED <<pagingPc, memoryMap, mapIndex, sizeMapped, leaf>>
    PROVE  KernelInv'
<1>1. \A a \in Nat : MapsTo(a, a) => MapsTo(a, a)'
  BY DEF MapsTo
<1>2. UNCHANGED <<pagingPc, memoryMap, mapIndex, sizeMapped>>
  OBVIOUS
<1> QED  BY <1>1, <1>2, KernelKept

LEMMA KernelBegins ==
    ASSUME MapsInOrder, RangesFitInt, MappingsInv, createKernelTable PROVE KernelInv'
<1> USE DEF createKernelTable
<1>1. /\ \A i : Free(i) => i \in Nat \ {0} /\ Start(i) \in Nat
      /\ \A i : (Free(i)' <=> Free(i)) /\ Start(i)' = Start(i)
  <2>1. \A i \in DOMAIN memoryMap : i \in Nat \ {0} /\ Start(i) \in Nat
    BY KernelMap
  <2> QED  BY <2>1, SameHoles DEF Free
<1>2. mapIndex' = 1 /\ sizeMapped' = 0 /\ pagingPc' \in {"kernel", "panic"}
  OBVIOUS
<1>3. KernelLoop'
  <2>1. \A i : Free(i)' /\ mapIndex' <= i => sizeMapped' <= Start(i)'
    BY <1>1, <1>2
  <2>2. \A i : Free(i)' => ~ (i < mapIndex')
    BY <1>1, <1>2
  <2>3. \A a \in Nat : ~ (a < sizeMapped')
    BY <1>2
  <2> QED  BY <1>2, <2>1, <2>2, <2>3 DEF KernelLoop
<1> QED  BY <1>2, <1>3 DEF KernelInv

LEMMA KernelSkips ==
    ASSUME MapsInOrder, RangesFitInt, MappingsInv, KernelInv, MapEntry PROVE KernelInv'
<1> USE DEF MapEntry
<1>1. /\ KernelLoop /\ pagingPc' = "kernel" /\ sizeMapped' = sizeMapped /\ mapIndex \in Nat
      /\ \/ mapIndex' = mapIndex
         \/ mapIndex' = mapIndex + 1 /\ ~ Free(mapIndex)
  BY DEF KernelInv, MappingsInv, Order, Free
<1>2. CASE mapIndex' = mapIndex
  <2>1. UNCHANGED <<pagingPc, memoryMap, mapIndex, sizeMapped, leaf>>
    BY <1>2
  <2> QED  BY <2>1, KernelSame
<1>3. CASE mapIndex' = mapIndex + 1 /\ ~ Free(mapIndex)
  <2>1. \A i : Free(i) => i \in Nat
    <3>1. \A i \in DOMAIN memoryMap : i \in Nat
      BY KernelMap
    <3> QED  BY <3>1 DEF Free
  <2>2. \A i : (Free(i)' <=> Free(i)) /\ Start(i)' = Start(i) /\ Size(i)' = Size(i)
    BY SameHoles
  <2>3. \A i : Free(i)' /\ mapIndex' <= i => sizeMapped' <= Start(i)'
    <3>1. \A i : Free(i) /\ mapIndex + 1 <= i => mapIndex <= i
      BY <1>1, <2>1
    <3> QED  BY <1>1, <1>3, <2>2, <3>1 DEF KernelLoop
  <2>4. \A a \in Nat : NoHoleBelow(a)' /\ sizeMapped' <= a =>
          \A i : Free(i)' /\ i < mapIndex' => Start(i)' + Size(i)' <= sizeMapped'
    <3>1. \A i : Free(i) /\ i < mapIndex + 1 => i < mapIndex
      BY <1>1, <1>3, <2>1
    <3> QED  BY <1>1, <1>3, <2>2, <3>1, SameHoles DEF KernelLoop
  <2>5. \A a \in Nat : NoHoleBelow(a)' /\ a < sizeMapped' => MapsTo(a, a)'
    BY <1>1, SameHoles DEF KernelLoop, MapsTo
  <2>6. LOW <= sizeMapped'
    <3>1. mapIndex # 1
      BY <1>3, KernelMap
    <3> QED  BY <1>1, <3>1 DEF KernelLoop
  <2> QED  BY <1>1, <2>3, <2>4, <2>5, <2>6 DEF KernelLoop, KernelInv
<1> QED  BY <1>1, <1>2, <1>3

LEMMA KernelAdvances ==
    ASSUME MapsInOrder, RangesFitInt, MappingsInv, KernelInv, EntryMapped PROVE KernelInv'
<1> USE DEF EntryMapped
<1>1. /\ KernelLoop /\ pagingPc' = "kernel" /\ mapIndex \in Nat /\ sizeMapped \in Nat
      /\ mapIndex' = mapIndex + 1 /\ sizeMapped' = sizeMapped + Size(mapIndex)
  BY DEF KernelInv, MappingsInv, Order, Size, NextStart
<1>2. ForKernel /\ Free(mapIndex) /\ range.ret = "SUCCESS"
  <2>1. acpi = "none" /\ bar = NoBar
    BY DEF MappingsInv, Order
  <2>2. ForKernel
    BY <2>1, BarIs DEF MappingsInv, Caller, ForAcpi, ForBar
  <2> QED  BY <2>2 DEF ForKernel, Free
<1>3. /\ \A i : Free(i) => i \in Nat /\ Start(i) \in Nat /\ Size(i) \in Nat
      /\ \A i, j : Free(i) /\ Free(j) /\ i < j => Start(i) + Size(i) <= Start(j)
      /\ LOW \in Nat /\ Size(1) = LOW
  <2>1. \A i \in DOMAIN memoryMap : i \in Nat /\ Start(i) \in Nat /\ Size(i) \in Nat
    BY KernelMap
  <2>2. \A i, j \in DOMAIN memoryMap : i < j => Start(i) + Size(i) <= Start(j)
    BY KernelMap
  <2> QED  BY <2>1, <2>2, KernelMap, PagingAssumption DEF Free
<1>4. /\ \A i : (Free(i)' <=> Free(i)) /\ Start(i)' = Start(i) /\ Size(i)' = Size(i)
      /\ \A a : NoHoleBelow(a)' <=> NoHoleBelow(a)
      /\ \A a : MapsTo(a, a)' <=> MapsTo(a, a)
  BY SameHoles DEF MapsTo
<1>5. ASSUME NEW i, Free(i), mapIndex + 1 <= i PROVE sizeMapped + Size(mapIndex) <= Start(i)
  <2>1. mapIndex < i /\ sizeMapped <= Start(mapIndex)
    BY <1>1, <1>2, <1>3, <1>5 DEF KernelLoop
  <2>2. Start(mapIndex) + Size(mapIndex) <= Start(i)
    BY <1>2, <1>3, <1>5, <2>1
  <2> QED  BY <1>1, <1>2, <1>3, <1>5, <2>1, <2>2
<1>6. ASSUME NEW a \in Nat, NoHoleBelow(a), sizeMapped + Size(mapIndex) <= a,
             NEW i, Free(i), i < mapIndex + 1
      PROVE  Start(i) + Size(i) <= sizeMapped + Size(mapIndex)
  <2>1. Size(mapIndex) \in Nat /\ sizeMapped <= a /\ Start(i) \in Nat /\ Size(i) \in Nat /\ i \in Nat
    BY <1>1, <1>2, <1>3, <1>6
  <2>2. CASE i = mapIndex
    <3>1. Start(mapIndex) <= sizeMapped
      BY <1>1, <1>2, <1>6, <2>1, KernelRangeMaps
    <3> QED  BY <1>1, <2>1, <2>2, <3>1
  <2>3. CASE i # mapIndex
    <3>1. i < mapIndex
      BY <1>1, <1>6, <2>1, <2>3
    <3>2. Start(i) + Size(i) <= sizeMapped
      BY <1>1, <1>6, <2>1, <3>1 DEF KernelLoop
    <3> QED  BY <1>1, <2>1, <3>2
  <2> QED  BY <2>2, <2>3
<1>7. ASSUME NEW a \in Nat, NoHoleBelow(a), a < sizeMapped + Size(mapIndex) PROVE MapsTo(a, a)
  <2>1. CASE a < sizeMapped
    BY <1>1, <1>7, <2>1 DEF KernelLoop
  <2>2. CASE sizeMapped <= a
    BY <1>1, <1>2, <1>7, <2>2, KernelRangeMaps
  <2> QED  BY <1>1, <2>1, <2>2
<1>8. LOW <= sizeMapped + Size(mapIndex)
  <2>1. Size(mapIndex) \in Nat
    BY <1>2, <1>3
  <2>2. CASE LOW <= sizeMapped
    BY <1>1, <1>3, <2>1, <2>2
  <2>3. CASE mapIndex = 1 /\ sizeMapped = 0
    BY <1>3, <2>3
  <2> QED  BY <1>1, <2>2, <2>3 DEF KernelLoop
<1>9. KernelLoop'
  <2>1. \A i : Free(i)' /\ mapIndex' <= i => sizeMapped' <= Start(i)'
    BY <1>1, <1>4, <1>5
  <2>2. \A a \in Nat : NoHoleBelow(a)' /\ sizeMapped' <= a =>
          \A i : Free(i)' /\ i < mapIndex' => Start(i)' + Size(i)' <= sizeMapped'
    BY <1>1, <1>4, <1>6
  <2>3. \A a \in Nat : NoHoleBelow(a)' /\ a < sizeMapped' => MapsTo(a, a)'
    BY <1>1, <1>4, <1>7
  <2> QED  BY <1>1, <1>8, <2>1, <2>2, <2>3 DEF KernelLoop
<1> QED  BY <1>1, <1>9 DEF KernelInv

LEMMA KernelLoaded ==
    ASSUME MapsInOrder, RangesFitInt, MappingsInv, KernelInv, loadNewPageTable PROVE KernelInv'
<1> USE DEF loadNewPageTable
<1>1. /\ KernelLoop /\ pagingPc = "kernel" /\ pagingPc' = "tables" /\ sizeMapped \in Nat
      /\ mapIndex \in Nat /\ mapIndex > Len(memoryMap)
  BY DEF KernelInv, MappingsInv, Order
<1>2. /\ \A a : NoHoleBelow(a)' <=> NoHoleBelow(a)
      /\ \A a : MapsTo(a, a)' <=> MapsTo(a, a)
  BY SameHoles DEF MapsTo
<1>3. ASSUME NEW a \in Nat, NoHoleBelow(a) PROVE MapsTo(a, a)
  <2>1. CASE a < sizeMapped
    BY <1>1, <1>3, <2>1 DEF KernelLoop
  <2>2. CASE sizeMapped <= a
    <3>1. PICK i : Free(i) /\ Start(i) <= sizeMapped /\ sizeMapped < Start(i) + Size(i)
      <4>1. sizeMapped \in 0 .. a
        BY <1>1, <2>2
      <4> QED  BY <1>3, <4>1, NoHole
    <3>2. i \in DOMAIN memoryMap
      BY <3>1 DEF Free
    <3>3. i \in Nat /\ i <= Len(memoryMap) /\ Start(i) \in Nat /\ Size(i) \in Nat /\ Len(memoryMap) \in Nat
      BY <1>1, <3>2, KernelMap
    <3>4. Start(i) + Size(i) <= sizeMapped
      <4>1. i < mapIndex
        BY <1>1, <3>3
      <4> QED  BY <1>1, <1>3, <2>2, <3>1, <4>1 DEF KernelLoop
    <3> QED  BY <1>1, <3>1, <3>3, <3>4
  <2> QED  BY <1>1, <2>1, <2>2
<1> QED  BY <1>1, <1>2, <1>3 DEF KernelInv

LEMMA KernelWhilePaging ==
    ASSUME MapsInOrder, RangesFitInt, MappingsInv, KernelInv, mapOrCreatePage PROVE KernelInv'
<1>1. /\ range.ret = "none" /\ UNCHANGED <<pagingPc, memoryMap, mapIndex, sizeMapped>>
      /\ LoopInv /\ (ForKernel \/ ForAcpi \/ ForBar)
  BY DEF mapOrCreatePage, MappingsInv, Caller
<1>2. pagingPc \in {"kernel", "tables"}
  BY <1>1 DEF ForKernel, ForAcpi, ForBar, MappingsInv, Order
<1>3. \A a, x : MapsTo(a, x) /\ PageOf(a) # VirtualPage(range, range.page) => MapsTo(a, x)'
  BY <1>1, <1>2, LoopStep
<1>4. range.page \in Nat /\ (range.page * PAGE < range.size \/ range.page = 0)
  BY <1>1 DEF LoopInv, Rounds
<1>5. ASSUME NEW a \in Nat, NoHoleBelow(a), pagingPc = "kernel" => a < sizeMapped
      PROVE  PageOf(a) # VirtualPage(range, range.page)
  <2>1. PageOf(a) \in Nat /\ PageOf(a) < MmioPage
    BY <1>5, KernelPage
  <2>2. CASE ForKernel
    <3>1. pagingPc = "kernel" /\ KernelLoop
      BY <2>2 DEF ForKernel, KernelInv
    <3> QED  BY <1>1, <1>5, <2>2, <3>1, KernelRangeApart
  <2>3. CASE ForAcpi
    BY <1>4, <2>1, <2>3, AcpiPages, Areas
  <2>4. CASE ForBar
    <3>1. MmioPage <= VirtualPage(range, range.page)
      BY <1>4, <2>4, BarPage
    <3> QED  BY <2>1, <3>1, Areas
  <2> QED  BY <1>1, <2>2, <2>3, <2>4
<1> QED  BY <1>1, <1>3, <1>5, KernelKept

LEMMA KernelStep ==
    ASSUME MapsInOrder, RangesFitInt, MappingsInv, KernelInv, [MmioNext]_mmioVars PROVE KernelInv'
<1>1. ASSUME UNCHANGED <<pagingPc, memoryMap, mapIndex, sizeMapped, leaf>> PROVE KernelInv'
  BY <1>1, KernelSame
<1>2. ASSUME Boot PROVE KernelInv'
  <2>1. readMemoryMap \/ KernelTableFails => KernelInv'
    BY DEF readMemoryMap, KernelTableFails, KernelInv
  <2> QED  BY <1>2, <2>1, KernelBegins, KernelSkips, KernelAdvances, KernelLoaded DEF Boot
<1>3. ASSUME MapPage PROVE KernelInv'
  BY <1>3, KernelWhilePaging DEF MapPage
<1>4. ASSUME OnlyRangeChanges \/ UNCHANGED mmioVars PROVE KernelInv'
  <2>1. UNCHANGED <<pagingPc, memoryMap, mapIndex, sizeMapped, leaf>>
    BY <1>4 DEF OnlyRangeChanges, mmioVars, pagingVars
  <2> QED  BY <1>1, <2>1
<1>5. ASSUME saveAcpiTables \/ AcpiMapped \/ (\E b \in Bars : mmioMap(b)) \/ MmioMapped \/ MmioFails
      PROVE  KernelInv'
  BY <1>4, <1>5 DEF saveAcpiTables, AcpiMapped, mmioMap, MmioMapped, MmioFails
<1> QED  BY <1>2, <1>3, <1>4, <1>5 DEF MmioNext

(* createKernelTable leaves the kernel, its heap and its stack at the      *)
(* addresses they were loaded to, and no later mapping disturbs that, if   *)
(* the firmware's map is in order and its ranges are within the offsets    *)
(* that mapOrCreateRange computes in an int.                               *)
THEOREM KernelKeepsItsAddresses ==
    ASSUME MapsInOrder, RangesFitInt
    PROVE  MmioSpec => []KernelStaysMapped
<1>1. MmioInit => KernelInv
  BY DEF MmioInit, PagingInit, KernelInv
<1>2. MappingsInv /\ KernelInv /\ [MmioNext]_mmioVars => KernelInv'
  BY KernelStep
<1>3. MappingsInv /\ KernelInv => KernelStaysMapped
  <2> SUFFICES ASSUME MappingsInv, KernelInv, pagingPc = "tables",
                      NEW a \in 0 .. (VSPACE * PAGE - 1), NoHoleBelow(a)
               PROVE  virtualToPhysical(a) = a
    BY DEF KernelStaysMapped
  <2>1. a \in Nat
    BY Spaces
  <2>2. Leaves /\ MapsTo(a, a)
    BY <2>1 DEF KernelInv, MappingsInv, LoopInv
  <2> QED  BY <2>2, Leads
<1> QED  BY <1>1, <1>2, <1>3, MappingsHold, PTL DEF MmioSpec
=============================================================================
