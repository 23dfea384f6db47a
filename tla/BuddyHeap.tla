----------------------------- MODULE BuddyHeap -----------------------------
(***************************************************************************)
(* The buddy allocator of memory/kheap/kheap_buddy.c, the heap that        *)
(* kheapInit selects when BOBAOS_USE_BUDDY_FOR_KERNEL_HEAP is set.         *)
(*                                                                         *)
(* There is one table of entries per level; level 0 has the biggest blocks *)
(* and every next level halves them.  Entry i of a level describes the     *)
(* i-th block of that size.  The free entries of a level are chained; the  *)
(* first entry of the level, lvlTable[l], is an entry like any other and   *)
(* also the head of that chain, so it carries HAS_ENTRIES and its next     *)
(* pointer is kept while its own block is in use.                          *)
(*                                                                         *)
(* NULL is the address of an entry that kheapInitBuddy skips and nothing   *)
(* reads on purpose: stores through a NULL next pointer land there and are *)
(* lost.  A call that goes on to USE the entry at NULL computes an address *)
(* outside the heap from it and clears memory there: the model stops.      *)
(***************************************************************************)
EXTENDS Integers, FiniteSets

CONSTANTS
    MaxLvl,     \* The number of levels (maxLvl, found by detectMaxLvl).
    blockSize,  \* The size of the blocks of each level (tableMetaData).
    maxEntries, \* How many there are of them (tableMetaData).
    Requests,   \* The sizes callers ask for.
    MaxHeld,    \* Bound on the blocks callers hold at a time.
    Strays,     \* Addresses that are freed although nobody was given them.
    NULL

Levels == 0 .. (MaxLvl - 1)

(* readMetaData halves the blocks from level to level; the heap and the    *)
(* biggest block are powers of two, and the heap is the bigger one.        *)
ASSUME BuddyAssumption ==
    /\ MaxLvl \in Nat /\ MaxLvl >= 2
    /\ blockSize \in [Levels -> Nat \ {0}] /\ maxEntries \in [Levels -> Nat \ {0}]
    /\ \A l \in 0 .. (MaxLvl - 2) : /\ blockSize[l] = 2 * blockSize[l + 1]
                                    /\ maxEntries[l + 1] = 2 * maxEntries[l]
    /\ maxEntries[0] % 2 = 0 /\ \E k \in 0 .. blockSize[0] : blockSize[0] = 2^k
    /\ Requests \subseteq Nat /\ MaxHeld \in Nat
    /\ Strays \subseteq Nat

VARIABLES
    table,      \* All entries of all levels: flags, next and prev of each.
    op,         \* The call that is running, and its locals.
    held,       \* The blocks callers hold, as <<address, size asked for>>.
    answer,     \* The last call, its argument and whether it was served.
    freed,      \* History: some call of kzfreeBuddy has returned a block.
    astray,     \* History: a stray free may have hit a block of a caller.
    crashed     \* A call has used the entry at NULL.

vars == <<table, op, held, answer, freed, astray, crashed>>

HeapSize      == maxEntries[0] * blockSize[0]
Entries       == UNION {{<<l, i>> : i \in 0 .. (maxEntries[l] - 1)} : l \in Levels}
LvlTable(l)   == <<l, 0>>
Idle          == [pc |-> "idle"]

ASSUME NullAssumption == NULL \notin Entries

(* entryToHeapAddress, relative to BOBAOS_KERNEL_HEAP_ADDRESS.             *)
HeapAddress(e) == e[2] * blockSize[e[1]]
Units(e)       == HeapAddress(e) .. (HeapAddress(e) + blockSize[e[1]] - 1)

(* toNextLvl: the smallest power of two that is not below n.               *)
ToNextLvl(n) == 2^(CHOOSE k \in 0 .. n : 2^k >= n /\ \A j \in 0 .. (k - 1) : 2^j < n)

(* findLvlForBlock: the level with blocks of exactly this size, or -1.     *)
FindLvlForBlock(block) ==
    IF \E l \in Levels : blockSize[l] = block
    THEN CHOOSE l \in Levels : blockSize[l] = block ELSE -1

GetBuddy(e) == <<e[1], IF e[2] % 2 = 0 THEN e[2] + 1 ELSE e[2] - 1>>
Child(e, i) == <<e[1] + 1, 2 * e[2] + i>>
Parent(e)   == <<e[1] - 1, e[2] \div 2>>

Has(t, e, flag) == flag \in t[e].flags

(* Stores through a pointer; through NULL they reach the skipped entry.    *)
SetPrev(t, e, p) == IF e = NULL THEN t ELSE [t EXCEPT ![e].prev = p]
SetNext(t, e, n) == IF e = NULL THEN t ELSE [t EXCEPT ![e].next = n]
-----------------------------------------------------------------------------
(* heapAddressToEntry: the first entry around the address, from the        *)
(* biggest blocks down, that is marked as allocated.                       *)
EntryAround(l, a) ==
    IF a \div blockSize[l] < maxEntries[l] THEN <<l, a \div blockSize[l]>> ELSE <<l + 1, 0>>
HeapAddressToEntry(t, a) ==
    LET at(l)  == EntryAround(l, a)
        found  == {l \in Levels : at(l) \in Entries /\ Has(t, at(l), "allocated")}
    IN  IF found = {} THEN NULL
        ELSE at(CHOOSE l \in found : \A k \in found : l <= k)

(* removeEntry of an entry that is not the head of its level's chain.      *)
Unlink(t, e) ==
    LET h     == LvlTable(e[1])
        next  == t[e].next
        prev  == t[e].prev
        t1    == SetPrev(SetNext(t, prev, next), next, IF next = NULL THEN NULL ELSE prev)
        first == prev = NULL /\ next # NULL /\ t[h].next = e
        last  == prev = NULL /\ next = NULL
        t2    == IF first THEN [t1 EXCEPT ![h].next = next]
                 ELSE IF last THEN [t1 EXCEPT ![h].next = NULL,
                                              ![h].flags = @ \ {"has"}]
                 ELSE t1
    IN  [t2 EXCEPT ![e].next = NULL, ![e].prev = NULL]

(* removeEntry of the head: its next pointer keeps the chain.              *)
UnlinkHead(t, e) ==
    IF t[e].next = NULL THEN t
    ELSE SetPrev([t EXCEPT ![e].flags = @ \cup {"has"}], t[e].next, NULL)

(* Mutant: the case of a split falls through into the next one.            *)
MutRemoveEntry(t, e, mark) ==
    IF ~ Has(t, e, "free") THEN t
    ELSE LET t1 == [t EXCEPT ![e].flags = @ \ {"free"}]
             t2 == IF e = LvlTable(e[1]) THEN UnlinkHead(t1, e) ELSE Unlink(t1, e)
             on == IF "splitup" \in mark THEN {"splitup", "allocated"} ELSE mark
         IN  [t2 EXCEPT ![e].flags = @ \cup on]

RemoveEntry(t, e, mark) ==
    IF ~ Has(t, e, "free") THEN t
    ELSE LET t1 == [t EXCEPT ![e].flags = @ \ {"free"}]
             t2 == IF e = LvlTable(e[1]) THEN UnlinkHead(t1, e) ELSE Unlink(t1, e)
         IN  [t2 EXCEPT ![e].flags = @ \cup mark]

(* addEntry puts the entry behind the head of its level's chain.           *)
Link(t, e) ==
    LET h == LvlTable(e[1])
    IN  IF ~ Has(t, h, "has") THEN IF e # h THEN [t EXCEPT ![h].next = e] ELSE t
        ELSE IF e # h
        THEN SetPrev([t EXCEPT ![e].prev = IF Has(t, h, "free") THEN h ELSE NULL,
                               ![e].next = t[h].next,
                               ![h].next = e], t[h].next, e)
        ELSE SetPrev(t, t[h].next, h)

AddEntry(t, e) ==
    LET t1 == Link(t, e)
        t2 == [t1 EXCEPT ![LvlTable(e[1])].flags = @ \cup {"has"}]
    IN  [t2 EXCEPT ![e].flags = (@ \cup {"free"}) \ {"splitup", "allocated"}]

GetFreeEntry(t, l) ==
    LET h == LvlTable(l)
    IN  IF ~ Has(t, h, "has") THEN NULL
        ELSE IF Has(t, h, "free") THEN h ELSE t[h].next
-----------------------------------------------------------------------------
(* kheapInitBuddy, initLvlTable: the blocks of level 0 are chained; the    *)
(* head is marked free, but not as having entries.                         *)
Init ==
    /\ table = [e \in Entries |->
                  [flags |-> IF e[1] = 0 THEN {"free"} ELSE {},
                   next  |-> IF e[1] = 0 /\ e[2] + 1 < maxEntries[0] THEN <<0, e[2] + 1>> ELSE NULL,
                   prev  |-> IF e[1] = 0 /\ e[2] > 0 THEN <<0, e[2] - 1>> ELSE NULL]]
    /\ op = Idle
    /\ held = {}
    /\ answer = [call |-> "none", size |-> 0, ok |-> TRUE]
    /\ freed = FALSE /\ astray = FALSE /\ crashed = FALSE

(* Mutant: only the head of a level is looked at.                          *)
MutFreeLvl(t, searchLvl) ==
    LET usable == {l \in 0 .. searchLvl : Has(t, LvlTable(l), "free")}
    IN  IF usable = {} THEN -1
        ELSE CHOOSE l \in usable : \A k \in usable : k <= l

(* The level kzallocBuddy takes or splits a block from, or -1.             *)
FreeLvl(t, searchLvl) ==
    LET usable == {l \in 0 .. searchLvl :
                      Has(t, LvlTable(l), "free") \/ Has(t, LvlTable(l), "has")}
    IN  IF usable = {} THEN -1
        ELSE CHOOSE l \in usable : \A k \in usable : k <= l

Answer(call, n, ok) == answer' = [call |-> call, size |-> n, ok |-> ok]

(* kzallocBuddy up to the block it takes: from the list of its level, or   *)
(* by splits from the level of the next bigger block there is.             *)
KzallocBuddy(n) ==
    LET searchLvl == FindLvlForBlock(ToNextLvl(n))
        freeLvl   == FreeLvl(table, searchLvl)
    IN  /\ ~ crashed /\ op = Idle /\ Cardinality(held) < MaxHeld
        /\ IF n = 0 \/ n > blockSize[0] \/ searchLvl < 0 \/ freeLvl < 0
           THEN Answer("kzalloc", n, FALSE) /\ UNCHANGED op
           ELSE /\ op' = [pc |-> "alloc", size |-> n, lvl |-> freeLvl, endLvl |-> searchLvl,
                          entry |-> IF freeLvl = searchLvl THEN GetFreeEntry(table, searchLvl)
                                    ELSE NULL]
                /\ UNCHANGED answer
        /\ UNCHANGED <<table, held, freed, astray, crashed>>

Crash ==
    /\ crashed' = TRUE /\ op' = Idle
    /\ Answer("kzalloc", op.size, FALSE)
    /\ UNCHANGED <<table, held, freed, astray>>

(* A round of splitAndReturn: splitEntryUp replaces the chosen entry of    *)
(* the level by its halves.  Its test against lvlTable[lvl + 2], meant for *)
(* the end of the tables, compares with a NULL pointer on the last but one *)
(* level and refuses.                                                      *)
SplitEntryUp ==
    LET l  == op.lvl
        h  == LvlTable(l)
        e  == IF Has(table, h, "free") THEN h ELSE table[h].next
        t1 == RemoveEntry(table, e, {"splitup"})
        Return(x) == /\ op' = [op EXCEPT !.lvl = l + 1, !.entry = x]
                     /\ UNCHANGED <<held, answer, freed, astray, crashed>>
    IN  /\ op.pc = "alloc" /\ l < op.endLvl
        /\ IF ~ Has(table, h, "free") /\ ~ Has(table, h, "has")
           THEN Return(NULL) /\ UNCHANGED table
           ELSE IF e = NULL THEN Crash
           ELSE IF l + 2 = MaxLvl THEN Return(NULL) /\ UNCHANGED table
           ELSE /\ table' = AddEntry(AddEntry(t1, Child(e, 0)), Child(e, 1))
                /\ Return(Child(e, 0))

(* The end of kzallocBuddy: the entry leaves its list.                     *)
TakeEntry ==
    /\ op.pc = "alloc" /\ op.lvl = op.endLvl
    /\ IF op.entry = NULL THEN Crash
       ELSE /\ table' = RemoveEntry(table, op.entry, {"allocated"})
            /\ held' = held \cup {<<HeapAddress(op.entry), op.size>>}
            /\ Answer("kzalloc", op.size, TRUE)
            /\ op' = Idle
            /\ UNCHANGED <<freed, astray, crashed>>

(* kzfreeBuddy(a) for any address; nothing checks that a block begins      *)
(* there (addressIsABlock).                                                *)
KzfreeBuddy(a) ==
    LET e     == HeapAddressToEntry(table, a)
        buddy == GetBuddy(e)
    IN  /\ ~ crashed /\ op = Idle
        /\ IF a > HeapSize \/ e = NULL
           THEN Answer("kzfree", 0, FALSE) /\ UNCHANGED <<table, op, freed>>
           ELSE /\ IF buddy[1] > 0 /\ Has(table, buddy, "free")
                   THEN op' = [pc |-> "merge", block1 |-> e, block2 |-> buddy] /\ UNCHANGED table
                   ELSE table' = AddEntry(table, e) /\ UNCHANGED op
                /\ Answer("kzfree", 0, TRUE)
                /\ freed' = TRUE
        /\ UNCHANGED crashed

(* Mutant: only one level is merged.                                       *)
MutMerge ==
    LET e1 == op.block1
        t1 == RemoveEntry(RemoveEntry(table, e1, {}), op.block2, {})
        t2 == [t1 EXCEPT ![e1].flags = {}, ![op.block2].flags = {}]
    IN  /\ op.pc = "merge"
        /\ table' = IF e1[1] = 0 THEN table ELSE AddEntry(t2, Parent(e1))
        /\ op' = Idle
        /\ UNCHANGED <<held, answer, freed, astray, crashed>>

(* merge: both halves leave their level, flags and all (the head's         *)
(* HAS_ENTRIES too), and the block they make up is added one level below;  *)
(* then it is the turn of that block and its buddy.                        *)
Merge ==
    LET e1 == op.block1
        e2 == op.block2
        p  == Parent(e1)
        t1 == RemoveEntry(RemoveEntry(table, e1, {}), e2, {})
        t2 == [t1 EXCEPT ![e1].flags = {}, ![e2].flags = {}]
    IN  /\ op.pc = "merge"
        /\ IF e1[1] = 0 THEN op' = Idle /\ UNCHANGED table
           ELSE /\ table' = AddEntry(t2, p)
                /\ op' = IF Has(table', GetBuddy(p), "free")
                         THEN [pc |-> "merge", block1 |-> p, block2 |-> GetBuddy(p)] ELSE Idle
        /\ UNCHANGED <<held, answer, freed, astray, crashed>>

FreeHeld(b) ==
    /\ KzfreeBuddy(b[1])
    /\ held' = held \ {b}
    /\ UNCHANGED astray

(* A second free, or a free of an address that was never handed out: it    *)
(* may lie in the block of another caller, or directly behind the heap,    *)
(* which the test of the range lets in.                                    *)
FreeStray(a) ==
    /\ KzfreeBuddy(a)
    /\ astray' = (astray \/ a = HeapSize \/ \E b \in held : a \in b[1] .. (b[1] + ToNextLvl(b[2]) - 1))
    /\ UNCHANGED held

Next ==
    \/ \E n \in Requests : KzallocBuddy(n)
    \/ SplitEntryUp \/ TakeEntry \/ Merge
    \/ \E b \in held : FreeHeld(b)
    \/ \E a \in Strays : FreeStray(a)

Spec == Init /\ [][Next]_vars
-----------------------------------------------------------------------------
Flags  == {"free", "splitup", "allocated", "has"}
Tables == [Entries -> [flags : SUBSET Flags, next : Entries \cup {NULL}, prev : Entries \cup {NULL}]]
Calls  == {Idle}
     \cup [pc : {"alloc"}, size : Requests, lvl : Levels, endLvl : Levels, entry : Entries \cup {NULL}]
     \cup [pc : {"merge"}, block1 : Entries, block2 : Entries]

(* Entries, calls and history are what their declarations say.             *)
TypeOK ==
    /\ table \in Tables /\ op \in Calls
    /\ held \subseteq (0 .. (HeapSize - 1)) \X Requests
    /\ freed \in BOOLEAN /\ astray \in BOOLEAN /\ crashed \in BOOLEAN

Marked    == {e \in Entries : Has(table, e, "free") \/ Has(table, e, "allocated")}
Allocated == {e \in Entries : Has(table, e, "allocated")}

(* However blocks are split (splitEntryUp) and merged (merge), every unit  *)
(* of the heap belongs to exactly one entry that is free or allocated: no  *)
(* call ever hands out memory twice, counts it twice or loses it.          *)
BlocksPartitionHeap ==
    LET marked == Marked
    IN  \A u \in 0 .. (HeapSize - 1) : Cardinality({e \in marked : u \in Units(e)}) = 1

(* The block kzfreeBuddy is about to merge is nobody's any more.           *)
Owned == Allocated \ (IF op.pc = "merge" THEN {op.block1} ELSE {})

(* What is marked as allocated is what callers hold, so the search of      *)
(* kzfreeBuddy from the biggest level down (heapAddressToEntry) finds the  *)
(* block that begins at the address and never one around it.               *)
FreeFindsOwnBlock ==
    /\ {<<HeapAddress(e), blockSize[e[1]]>> : e \in Owned} = {<<b[1], ToNextLvl(b[2])>> : b \in held}
    /\ \A b \in held : LET e == HeapAddressToEntry(table, b[1])
                       IN  e \in Owned /\ HeapAddress(e) = b[1]

(* A freed block is merged with its buddy at once, whatever the order of   *)
(* the frees: two free buddies never remain side by side above level 0.    *)
BuddiesMerged ==
    op = Idle /\ ~ crashed =>
        \A e \in Entries : e[1] > 0 /\ Has(table, e, "free") => ~ Has(table, GetBuddy(e), "free")

(* As long as nothing has been freed the chains are in order: kzallocBuddy *)
(* answers NULL only if no free block is big enough, or to less than the   *)
(* smallest block, and uses the entry at NULL only for a smallest block,   *)
(* which splitEntryUp never makes, or for a biggest one in the first call. *)
(* After a first kzfreeBuddy none of this holds any more: a head that is   *)
(* taken while it is alone in its chain leaves HAS_ENTRIES set.            *)
RightUntilFirstFree ==
    LET block == ToNextLvl(answer.size) IN
    ~ freed /\ answer.call = "kzalloc" /\ ~ answer.ok =>
        IF crashed THEN block = blockSize[MaxLvl - 1] \/ (block = blockSize[0] /\ held = {})
        ELSE \/ answer.size = 0 \/ block < blockSize[MaxLvl - 1]
             \/ \A e \in Entries : Has(table, e, "free") => blockSize[e[1]] < block

(* What keeps the pointers harmless although chains get lost.  The head of *)
(* a level and the free entries lead to free entries, a free entry is led  *)
(* back to from where it leads, and an entry that is in use has forgotten  *)
(* its neighbours.  Only a head may be pointed at by an entry it does not  *)
(* lead to: the chain behind it got out of its reach when merge cleared    *)
(* its flags, and whatever is stored in it then is a free entry again.     *)
Chained(t) ==
    \A e \in Entries :
        LET h == LvlTable(e[1])
            n == t[e].next
            p == t[e].prev
            free == Has(t, e, "free")
        IN  /\ (free \/ e = h) /\ n # NULL =>
                  n # h /\ n[1] = e[1] /\ Has(t, n, "free") /\ t[n].prev \in {e, IF e = h THEN NULL ELSE e}
            /\ free /\ e # h /\ p \notin {NULL, h} => p[1] = e[1] /\ Has(t, p, "free") /\ t[p].next = e
            /\ ~ free /\ e # h => n = NULL /\ p = NULL
            /\ ~ (free /\ Has(t, e, "allocated"))

(* The pair of buddies that the running call is about to part or to join.  *)
InHand ==
    IF op.pc = "alloc" THEN {op.entry, IF op.entry = NULL THEN NULL ELSE GetBuddy(op.entry)}
    ELSE IF op.pc = "merge" THEN {op.block1, op.block2}
    ELSE {}

Doomed == crashed \/ (op.pc = "alloc" /\ op.lvl = op.endLvl /\ op.entry = NULL)

(* No other pair of buddies is free, at any step of a call.                *)
OnePair ==
    Doomed \/ \A e \in Entries :
        e[1] > 0 /\ Has(table, e, "free") /\ Has(table, GetBuddy(e), "free") => e \in InHand

(* What the steps of a call find: the levels that are still to be split to *)
(* are empty, the pair that was split off last is the one that the next    *)
(* round takes its entry from, and what is taken or merged is there.       *)
CallFinds ==
    /\ op.pc = "alloc" =>
          /\ op.lvl <= op.endLvl /\ blockSize[op.endLvl] = ToNextLvl(op.size)
          /\ \A l \in (op.lvl + 1) .. op.endLvl :
                ~ Has(table, LvlTable(l), "free") /\ ~ Has(table, LvlTable(l), "has")
          /\ op.entry # NULL => op.entry[1] = op.lvl /\ Has(table, op.entry, "free")
          /\ op.entry # NULL /\ op.lvl < op.endLvl =>
                LET h == LvlTable(op.lvl)
                IN  /\ Has(table, h, "has")
                    /\ (IF Has(table, h, "free") THEN h ELSE table[h].next) \in InHand
    /\ op.pc = "merge" =>
          /\ op.block2 = GetBuddy(op.block1) /\ Has(table, op.block2, "free")
          /\ op.block1 \in Marked /\ (op.block1[1] = 0 => Has(table, op.block1, "free"))

(* No address is handed out twice.                                         *)
HeldOnce == \A b, c \in held : b[1] = c[1] => b = c

(* The table describes the heap, through every sequence of splits and      *)
(* merges: each unit is in one block, and the blocks marked as allocated   *)
(* are those that kzallocBuddy gave out and that kzfreeBuddy finds again,  *)
(* unless a stray free has hit one.                                        *)
HeapInv == TypeOK /\ BlocksPartitionHeap /\ (~ astray => FreeFindsOwnBlock)

(* The inductive invariant.                                                *)
BuddyInv == HeapInv /\ Chained(table) /\ CallFinds /\ OnePair /\ (~ astray => HeldOnce)
=============================================================================
