-------------------------- MODULE BuddyHeapProofs --------------------------
(***************************************************************************)
(* For every number of levels, every size of blocks and every sequence of  *)
(* calls, the entries of BuddyHeap that are free or allocated partition    *)
(* the heap, no two buddies stay free side by side, and until the first    *)
(* kzfreeBuddy kzallocBuddy fails only where it may.                       *)
(*                                                                         *)
(* The argument has four layers: what the levels and indexes mean as       *)
(* addresses; what removeEntry and addEntry do to the chains; the steps of *)
(* the calls, which use only the statements of these two; and the shape    *)
(* that each level has as long as nothing is freed.                        *)
(***************************************************************************)
EXTENDS BuddyHeap, FiniteSetTheorems, WellFoundedInduction, TLAPS

(* Every set of numbers has a least one, which is what takes the place of  *)
(* induction over levels.                                                  *)
LEMMA Least ==
    ASSUME NEW S, S \subseteq Nat, S # {}
    PROVE  \E x \in S : \A y \in S : x <= y
<1> DEFINE R == {ss \in Nat \X Nat : ss[1] < ss[2]}
<1>1. IsWellFoundedOn(R, Nat)
  BY NatLessThanWellFounded, Zenon DEF OpToRel
<1>2. \A x, y \in Nat : x < y => <<x, y>> \in R
  OBVIOUS
<1> HIDE DEF R
<1>3. PICK x \in S : \A y \in S : ~ (<<y, x>> \in R)
  BY <1>1, WFMin
<1>4. ASSUME NEW y \in S PROVE x <= y
  <2>1. x \in Nat /\ y \in Nat /\ ~ (y < x)
    BY <1>2, <1>3
  <2> QED  BY <2>1
<1> QED  BY <1>4
-----------------------------------------------------------------------------
(* Levels, indexes and addresses.                                          *)
LEMMA Sizes ==
    /\ MaxLvl \in Nat /\ MaxLvl >= 2
    /\ \A l \in Levels : /\ l \in Nat /\ l < MaxLvl
                         /\ blockSize[l] \in Nat /\ blockSize[l] > 0
                         /\ maxEntries[l] \in Nat /\ maxEntries[l] > 0
    /\ \A l \in Levels : l + 1 \in Levels => /\ blockSize[l] = 2 * blockSize[l + 1]
                                             /\ maxEntries[l + 1] = 2 * maxEntries[l]
    /\ maxEntries[0] % 2 = 0 /\ 0 \in Levels
BY BuddyAssumption DEF Levels

LEMMA EntryIs ==
    \A e : e \in Entries <=> /\ e = <<e[1], e[2]>> /\ e[1] \in Levels
                             /\ e[2] \in 0 .. (maxEntries[e[1]] - 1)
BY DEF Entries

(* The blocks of every level make up the heap.                             *)
LEMMA LevelFills == \A l \in Levels : maxEntries[l] * blockSize[l] = HeapSize
<1> DEFINE S == {l \in Levels : maxEntries[l] * blockSize[l] # HeapSize}
<1> SUFFICES ASSUME S # {} PROVE FALSE
  OBVIOUS
<1>1. S \subseteq Nat
  BY Sizes
<1>2. PICK l \in S : \A k \in S : l <= k
  BY <1>1, Least
<1>3. l # 0 /\ l \in Levels /\ l \in Nat
  BY Sizes DEF HeapSize
<1>4. l - 1 \in Levels /\ (l - 1) + 1 = l
  BY <1>3, Sizes DEF Levels
<1>5. maxEntries[l - 1] * blockSize[l - 1] = HeapSize
  BY <1>2, <1>3, <1>4
<1> DEFINE m == maxEntries[l - 1]
           b == blockSize[l]
<1>6. blockSize[l - 1] = 2 * b /\ maxEntries[l] = 2 * m /\ m \in Nat /\ b \in Nat
  BY <1>3, <1>4, Sizes
<1> HIDE DEF m, b
<1>7. (2 * m) * b = m * (2 * b)
  BY <1>6
<1> QED  BY <1>5, <1>6, <1>7 DEF m, b

(* The buddy of an entry is another entry of its level.                    *)
LEMMA Even == \A l \in Levels : maxEntries[l] % 2 = 0
<1> TAKE l \in Levels
<1>1. CASE l = 0
  BY <1>1, Sizes
<1>2. CASE l # 0
  <2>1. l - 1 \in Levels /\ (l - 1) + 1 = l
    BY <1>2, Sizes DEF Levels
  <2>2. maxEntries[l] = 2 * maxEntries[l - 1] /\ maxEntries[l - 1] \in Nat
    BY <2>1, Sizes
  <2> QED  BY <2>2
<1> QED  BY <1>1, <1>2

LEMMA Buddies ==
    \A e \in Entries :
        LET b == GetBuddy(e)
        IN  b \in Entries /\ b[1] = e[1] /\ b # e /\ GetBuddy(b) = e /\ b[2] \div 2 = e[2] \div 2
<1> SUFFICES ASSUME NEW e \in Entries
             PROVE  LET b == GetBuddy(e)
                    IN  b \in Entries /\ b[1] = e[1] /\ b # e /\ GetBuddy(b) = e /\ b[2] \div 2 = e[2] \div 2
  OBVIOUS
<1> DEFINE l == e[1]
           i == e[2]
           m == maxEntries[l]
           j == IF i % 2 = 0 THEN i + 1 ELSE i - 1
<1>1. e = <<l, i>> /\ l \in Levels /\ i \in Nat /\ i < m /\ m \in Nat /\ m % 2 = 0
  BY EntryIs, Sizes, Even
<1>2. GetBuddy(e) = <<l, j>>
  BY DEF GetBuddy
<1> HIDE DEF l, i, m
<1>3. j \in Nat /\ j < m /\ j # i /\ j \div 2 = i \div 2 /\ (IF j % 2 = 0 THEN j + 1 ELSE j - 1) = i
  BY <1>1
<1> HIDE DEF j
<1>4. GetBuddy(<<l, j>>) = <<l, IF j % 2 = 0 THEN j + 1 ELSE j - 1>>
  BY DEF GetBuddy
<1>5. <<l, j>> \in Entries
  BY <1>1, <1>3, EntryIs DEF m
<1> QED  BY <1>1, <1>2, <1>3, <1>4, <1>5 DEF i

LEMMA Children ==
    ASSUME NEW e \in Entries, e[1] + 1 \in Levels
    PROVE  /\ Child(e, 0) \in Entries /\ Child(e, 1) \in Entries
           /\ Child(e, 0)[1] = e[1] + 1 /\ Child(e, 1)[1] = e[1] + 1
           /\ GetBuddy(Child(e, 0)) = Child(e, 1) /\ Child(e, 0) # Child(e, 1)
           /\ Child(e, 1) # LvlTable(e[1] + 1)
<1> DEFINE l == e[1]
           i == e[2]
           m == maxEntries[l]
<1>1. l \in Levels /\ i \in Nat /\ i < m /\ m \in Nat /\ maxEntries[l + 1] = 2 * m /\ l \in Nat
  BY EntryIs, Sizes
<1>2. Child(e, 0) = <<l + 1, 2 * i>> /\ Child(e, 1) = <<l + 1, 2 * i + 1>>
  BY <1>1 DEF Child
<1> HIDE DEF i, m, l
<1>3. 2 * i \in 0 .. (2 * m - 1) /\ 2 * i + 1 \in 0 .. (2 * m - 1) /\ (2 * i) % 2 = 0 /\ 2 * i + 1 # 0
  BY <1>1
<1>4. Child(e, 0) \in Entries /\ Child(e, 1) \in Entries
  BY <1>1, <1>2, <1>3, EntryIs DEF l
<1>5. GetBuddy(<<l + 1, 2 * i>>) = <<l + 1, 2 * i + 1>>
  BY <1>3 DEF GetBuddy
<1> QED  BY <1>1, <1>2, <1>3, <1>4, <1>5 DEF LvlTable, l

LEMMA Parents ==
    ASSUME NEW e \in Entries, e[1] # 0
    PROVE  /\ Parent(e) \in Entries /\ Parent(e)[1] = e[1] - 1 /\ Parent(e)[1] + 1 = e[1]
           /\ Parent(GetBuddy(e)) = Parent(e)
           /\ \/ e = Child(Parent(e), 0) /\ GetBuddy(e) = Child(Parent(e), 1)
              \/ e = Child(Parent(e), 1) /\ GetBuddy(e) = Child(Parent(e), 0)
<1> DEFINE l == e[1] - 1
           i == e[2]
           m == maxEntries[l]
           p == i \div 2
<1>1. l \in Levels /\ l + 1 = e[1] /\ l \in Nat
  BY EntryIs, Sizes DEF Levels
<1>2. e = <<l + 1, i>> /\ i \in Nat /\ i < 2 * m /\ m \in Nat
  BY <1>1, EntryIs, Sizes
<1>3. Parent(e) = <<l, p>>
  BY DEF Parent
<1> HIDE DEF i, m, l
<1>4. p \in 0 .. (m - 1) /\ (i % 2 = 0 => i = 2 * p) /\ (i % 2 # 0 => i = 2 * p + 1)
  BY <1>2
<1> HIDE DEF p
<1>5. <<l, p>> \in Entries
  BY <1>1, <1>4, EntryIs DEF m
<1>6. Parent(GetBuddy(e)) = Parent(e)
  BY Buddies DEF Parent
<1>7. GetBuddy(e) = <<l + 1, IF i % 2 = 0 THEN i + 1 ELSE i - 1>>
  BY <1>1, <1>2 DEF GetBuddy, i
<1>8. Child(<<l, p>>, 0) = <<l + 1, 2 * p>> /\ Child(<<l, p>>, 1) = <<l + 1, 2 * p + 1>>
  BY <1>4, <1>1 DEF Child
<1>9. i % 2 = 0 => e = Child(<<l, p>>, 0) /\ GetBuddy(e) = Child(<<l, p>>, 1)
  BY <1>2, <1>4, <1>7, <1>8
<1>10. i % 2 # 0 => e = Child(<<l, p>>, 1) /\ GetBuddy(e) = Child(<<l, p>>, 0)
  <2>1. i % 2 # 0 => i - 1 = 2 * p
    BY <1>2, <1>4
  <2> QED  BY <1>2, <1>4, <1>7, <1>8, <2>1
<1> QED  BY <1>1, <1>3, <1>5, <1>6, <1>9, <1>10 DEF l

(* What a block covers.                                                    *)
LEMMA UnitsAre ==
    \A e \in Entries :
        /\ HeapAddress(e) \in Nat /\ HeapAddress(e) + blockSize[e[1]] <= HeapSize
        /\ blockSize[e[1]] \in Nat /\ blockSize[e[1]] > 0 /\ HeapSize \in Nat
        /\ \A u : u \in Units(e) <=>
                      u \in Nat /\ HeapAddress(e) <= u /\ u < HeapAddress(e) + blockSize[e[1]]
<1> TAKE e \in Entries
<1> DEFINE b == blockSize[e[1]]
           m == maxEntries[e[1]]
           i == e[2]
<1>1. b \in Nat /\ b > 0 /\ m \in Nat /\ i \in Nat /\ i < m /\ HeapSize = m * b
  BY EntryIs, Sizes, LevelFills
<1>2. HeapAddress(e) = i * b
  BY DEF HeapAddress
<1> HIDE DEF b, m, i
<1>3. i * b \in Nat /\ (m - i - 1) * b >= 0 /\ m * b = i * b + b + (m - i - 1) * b
  BY <1>1
<1>4. HeapAddress(e) \in Nat /\ HeapAddress(e) + b <= HeapSize /\ HeapSize \in Nat
  BY <1>1, <1>2, <1>3
<1> QED  BY <1>1, <1>4 DEF Units, b

LEMMA UnitsHalve ==
    ASSUME NEW e \in Entries, e[1] + 1 \in Levels
    PROVE  /\ \A u : u \in Units(e) <=> u \in Units(Child(e, 0)) \/ u \in Units(Child(e, 1))
           /\ \A u : ~ (u \in Units(Child(e, 0)) /\ u \in Units(Child(e, 1)))
<1> DEFINE b == blockSize[e[1] + 1]
           i == e[2]
           c0 == Child(e, 0)
           c1 == Child(e, 1)
<1>1. b \in Nat /\ b > 0 /\ i \in Nat /\ blockSize[e[1]] = 2 * b
  BY EntryIs, Sizes
<1>2. c0 = <<e[1] + 1, 2 * i>> /\ c1 = <<e[1] + 1, 2 * i + 1>>
  BY <1>1 DEF Child
<1>3. HeapAddress(e) = i * (2 * b) /\ HeapAddress(c0) = (2 * i) * b /\ HeapAddress(c1) = (2 * i + 1) * b
  BY <1>1, <1>2 DEF HeapAddress
<1>4. c0 \in Entries /\ c1 \in Entries /\ blockSize[c0[1]] = b /\ blockSize[c1[1]] = b
  BY Children
<1> HIDE DEF b, i, c0, c1
<1>5. i * (2 * b) = (2 * i) * b /\ (2 * i + 1) * b = (2 * i) * b + b
  BY <1>1
<1>6. \A u : /\ u \in Units(e) <=> u \in Nat /\ HeapAddress(e) <= u /\ u < HeapAddress(e) + 2 * b
             /\ u \in Units(c0) <=> u \in Nat /\ HeapAddress(c0) <= u /\ u < HeapAddress(c0) + b
             /\ u \in Units(c1) <=> u \in Nat /\ HeapAddress(c1) <= u /\ u < HeapAddress(c1) + b
  BY <1>1, <1>4, UnitsAre
<1>7. HeapAddress(c0) = HeapAddress(e) /\ HeapAddress(c1) = HeapAddress(e) + b /\ HeapAddress(e) \in Nat
  BY <1>3, <1>5, UnitsAre
<1> QED  BY <1>1, <1>6, <1>7 DEF c0, c1

(* The only entry of a level around a unit, which heapAddressToEntry asks. *)
LEMMA Around ==
    ASSUME NEW l \in Levels, NEW u \in 0 .. (HeapSize - 1)
    PROVE  /\ EntryAround(l, u) \in Entries /\ EntryAround(l, u)[1] = l /\ u \in Units(EntryAround(l, u))
           /\ \A e \in Entries : e[1] = l /\ u \in Units(e) => e = EntryAround(l, u)
<1> DEFINE b == blockSize[l]
           m == maxEntries[l]
           q == u \div b
<1>1. b \in Nat /\ b > 0 /\ m \in Nat /\ HeapSize = m * b /\ u \in Nat /\ u < m * b
  BY Sizes, LevelFills
<1>2. EntryAround(l, u) = IF q < m THEN <<l, q>> ELSE <<l + 1, 0>>
  BY DEF EntryAround
<1> HIDE DEF b, m
<1>3. q \in Nat /\ q * b <= u /\ u < q * b + b
  BY <1>1
<1> HIDE DEF q
<1>4. ASSUME NEW i \in Nat, NEW j \in Nat, i < j PROVE i * b + b <= j * b
  <2>1. (j - i - 1) * b >= 0 /\ j * b = i * b + b + (j - i - 1) * b
    BY <1>1, <1>4
  <2> QED  BY <2>1, <1>1
<1>5. q < m
  <2> SUFFICES ASSUME m <= q PROVE FALSE
    BY <1>1, <1>3
  <2>1. m * b <= q * b
    <3>1. CASE m = q
      BY <3>1, <1>1, <1>3
    <3>2. CASE m < q
      <4>1. m * b + b <= q * b
        BY <3>2, <1>4, <1>1, <1>3
      <4> QED  BY <4>1, <1>1, <1>3
    <3> QED  BY <3>1, <3>2, <1>1, <1>3
  <2> QED  BY <2>1, <1>1, <1>3
<1>6. EntryAround(l, u) = <<l, q>> /\ <<l, q>> \in Entries
  BY <1>1, <1>2, <1>3, <1>5, EntryIs DEF m
<1>7. u \in Units(<<l, q>>)
  BY <1>1, <1>3, <1>6, UnitsAre DEF HeapAddress, b
<1>8. ASSUME NEW e \in Entries, e[1] = l, u \in Units(e) PROVE e = <<l, q>>
  <2> DEFINE i == e[2]
  <2>1. i \in Nat /\ e = <<l, i>>
    BY <1>8, EntryIs
  <2>2. HeapAddress(e) = i * b
    BY <1>8 DEF HeapAddress, b
  <2>3. i * b <= u /\ u < i * b + b
    BY <1>8, <2>2, UnitsAre DEF b
  <2> HIDE DEF i
  <2>4. ~ (i < q)
    <3>1. i < q => i * b + b <= q * b
      BY <1>3, <1>4, <2>1
    <3> QED  BY <3>1, <1>1, <1>3, <2>1, <2>3
  <2>5. ~ (q < i)
    <3>1. q < i => q * b + b <= i * b
      BY <1>3, <1>4, <2>1
    <3> QED  BY <3>1, <1>1, <1>3, <2>1, <2>3
  <2> QED  BY <2>1, <2>4, <2>5, <1>3
<1> QED  BY <1>6, <1>7, <1>8

(* A set of entries that covers every unit once.                           *)
Parts(S) ==
    \A u \in 0 .. (HeapSize - 1) :
        /\ \E e \in S : u \in Units(e)
        /\ \A e, f \in S : u \in Units(e) /\ u \in Units(f) => e = f

LEMMA EntriesFinite == IsFiniteSet(Entries)
<1> DEFINE B == Levels \X (0 .. (HeapSize - 1))
<1>1. HeapSize \in Nat
  BY Sizes, LevelFills
<1>2. IsFiniteSet(0 .. (HeapSize - 1)) /\ IsFiniteSet(Levels)
  <2>1. 0 \in Int /\ HeapSize - 1 \in Int /\ MaxLvl - 1 \in Int
    BY <1>1, Sizes
  <2> QED  BY <2>1, FS_Interval DEF Levels
<1>3. IsFiniteSet(B)
  BY <1>2, FS_Product
<1>4. Entries \subseteq B
  <2> SUFFICES ASSUME NEW e \in Entries PROVE e \in B
    OBVIOUS
  <2> DEFINE b == blockSize[e[1]]
             m == maxEntries[e[1]]
  <2>1. e = <<e[1], e[2]>> /\ e[1] \in Levels /\ e[2] \in Nat /\ e[2] < m
    BY EntryIs, Sizes
  <2>2. b \in Nat /\ b > 0 /\ m \in Nat /\ HeapSize = m * b
    BY <2>1, Sizes, LevelFills
  <2> HIDE DEF b, m
  <2>3. m * b = m + m * (b - 1) /\ m * (b - 1) >= 0
    BY <2>2
  <2> QED  BY <2>1, <2>2, <2>3
<1> QED  BY <1>3, <1>4, FS_Subset

LEMMA PartsCount ==
    ASSUME NEW S, S \subseteq Entries
    PROVE  Parts(S) <=> \A u \in 0 .. (HeapSize - 1) : Cardinality({e \in S : u \in Units(e)}) = 1
<1> SUFFICES ASSUME NEW u \in 0 .. (HeapSize - 1)
             PROVE  /\ \E e \in S : u \in Units(e)
                    /\ \A e, f \in S : u \in Units(e) /\ u \in Units(f) => e = f
                    <=> Cardinality({e \in S : u \in Units(e)}) = 1
  BY DEF Parts
<1> DEFINE X == {e \in S : u \in Units(e)}
<1>1. IsFiniteSet(X)
  BY EntriesFinite, FS_Subset
<1>2. Cardinality(X) = 1 <=> \E x : X = {x}
  BY <1>1, FS_Singleton
<1> QED  BY <1>2

LEMMA PartsMeet ==
    ASSUME NEW S, S \subseteq Entries, Parts(S), NEW e \in S, NEW f \in S, NEW u \in Units(e), u \in Units(f)
    PROVE  e = f
<1>1. u \in 0 .. (HeapSize - 1)
  BY UnitsAre
<1> QED  BY <1>1 DEF Parts

LEMMA PartsSplit ==
    ASSUME NEW S, S \subseteq Entries, Parts(S), NEW e \in S, e[1] + 1 \in Levels
    PROVE  /\ Child(e, 0) \notin S /\ Child(e, 1) \notin S
           /\ Parts((S \ {e}) \cup {Child(e, 0), Child(e, 1)})
<1> DEFINE c0 == Child(e, 0)
           c1 == Child(e, 1)
<1>1. /\ e \in Entries /\ c0 \in Entries /\ c1 \in Entries
      /\ c0 # e /\ c1 # e /\ c0 # c1
  <2>1. e[1] \in Nat
    BY EntryIs, Sizes
  <2> QED  BY <2>1, Children
<1>2. /\ \A u : u \in Units(e) <=> u \in Units(c0) \/ u \in Units(c1)
      /\ \A u : ~ (u \in Units(c0) /\ u \in Units(c1))
  BY <1>1, UnitsHalve
<1>3. HeapAddress(c0) \in Units(c0) /\ HeapAddress(c1) \in Units(c1)
  BY <1>1, UnitsAre
<1> HIDE DEF c0, c1
<1>4. c0 \notin S /\ c1 \notin S
  BY <1>1, <1>2, <1>3, PartsMeet
<1>5. Parts((S \ {e}) \cup {c0, c1})
  BY <1>1, <1>2, <1>4 DEF Parts
<1> QED  BY <1>4, <1>5 DEF c0, c1

LEMMA PartsJoin ==
    ASSUME NEW S, S \subseteq Entries, Parts(S), NEW e \in S, e[1] # 0, GetBuddy(e) \in S
    PROVE  Parent(e) \notin S /\ Parts((S \ {e, GetBuddy(e)}) \cup {Parent(e)})
<1> DEFINE b == GetBuddy(e)
           p == Parent(e)
<1>1. e \in Entries /\ b \in Entries /\ p \in Entries /\ p # e /\ p # b /\ b # e /\ p[1] + 1 \in Levels
  <2>1. e[1] \in Levels /\ e[1] \in Nat
    BY EntryIs, Sizes
  <2> QED  BY <2>1, Buddies, Parents
<1>2. \A u : u \in Units(p) <=> u \in Units(e) \/ u \in Units(b)
  BY <1>1, UnitsHalve, Parents
<1>3. HeapAddress(p) \in Units(p)
  BY <1>1, UnitsAre
<1> HIDE DEF b, p
<1>4. p \notin S
  <2>1. CASE HeapAddress(p) \in Units(e)
    BY <1>1, <1>3, <2>1, PartsMeet
  <2>2. CASE HeapAddress(p) \in Units(b)
    BY <1>1, <1>3, <2>2, PartsMeet DEF b
  <2> QED  BY <1>2, <1>3, <2>1, <2>2
<1>5. b \in S
  BY DEF b
<1>6. Parts((S \ {e, b}) \cup {p})
  BY <1>1, <1>2, <1>4, <1>5 DEF Parts
<1> QED  BY <1>4, <1>6 DEF b, p

-----------------------------------------------------------------------------
(* The stores of removeEntry and addEntry, field by field.                 *)
Pointers == Entries \cup {NULL}

LEMMA EntryFields ==
    ASSUME NEW t \in Tables, NEW x \in Entries
    PROVE  /\ t[x].flags \in SUBSET Flags /\ t[x].next \in Pointers /\ t[x].prev \in Pointers
           /\ t[x] = [flags |-> t[x].flags, next |-> t[x].next, prev |-> t[x].prev]
BY DEF Tables, Pointers

LEMMA StoreNext ==
    ASSUME NEW t \in Tables, NEW e \in Pointers, NEW n \in Pointers
    PROVE  /\ SetNext(t, e, n) \in Tables
           /\ \A x \in Entries : /\ SetNext(t, e, n)[x].flags = t[x].flags
                                 /\ SetNext(t, e, n)[x].prev = t[x].prev
                                 /\ SetNext(t, e, n)[x].next = IF x = e THEN n ELSE t[x].next
BY NullAssumption DEF Tables, Pointers, SetNext

LEMMA StorePrev ==
    ASSUME NEW t \in Tables, NEW e \in Pointers, NEW p \in Pointers
    PROVE  /\ SetPrev(t, e, p) \in Tables
           /\ \A x \in Entries : /\ SetPrev(t, e, p)[x].flags = t[x].flags
                                 /\ SetPrev(t, e, p)[x].next = t[x].next
                                 /\ SetPrev(t, e, p)[x].prev = IF x = e THEN p ELSE t[x].prev
BY NullAssumption DEF Tables, Pointers, SetPrev

SetFlags(t, e, F) == [t EXCEPT ![e].flags = F]

LEMMA StoreFlags ==
    ASSUME NEW t \in Tables, NEW e \in Entries, NEW F \in SUBSET Flags
    PROVE  /\ SetFlags(t, e, F) \in Tables
           /\ \A x \in Entries : /\ SetFlags(t, e, F)[x].flags = IF x = e THEN F ELSE t[x].flags
                                 /\ SetFlags(t, e, F)[x].next = t[x].next
                                 /\ SetFlags(t, e, F)[x].prev = t[x].prev
BY DEF Tables, SetFlags

LEMMA HeadIs ==
    \A e \in Entries : LvlTable(e[1]) \in Entries /\ LvlTable(e[1])[1] = e[1]
BY EntryIs, Sizes DEF LvlTable

(* r is t without the entry e in its chain.                                *)
Unlinked(t, e, r) ==
    LET h == LvlTable(e[1])
        n == t[e].next
        p == t[e].prev
    IN  /\ r \in Tables
        /\ \A x \in Entries :
             /\ r[x].next = IF x = e THEN NULL
                            ELSE IF x = p THEN n
                            ELSE IF x = h /\ p = NULL /\ (n = NULL \/ t[h].next = e) THEN n
                            ELSE t[x].next
             /\ r[x].prev = IF x = e THEN NULL ELSE IF x = n THEN p ELSE t[x].prev
             /\ r[x].flags = IF x = h /\ p = NULL /\ n = NULL
                             THEN t[x].flags \ {"has"} ELSE t[x].flags

LEMMA UnlinkIs ==
    ASSUME NEW t \in Tables, NEW e \in Entries, e # LvlTable(e[1])
    PROVE  Unlinked(t, e, Unlink(t, e))
<1> DEFINE h == LvlTable(e[1])
           n == t[e].next
           p == t[e].prev
           ta == SetNext(t, p, n)
           q == IF n = NULL THEN NULL ELSE p
           t1 == SetPrev(ta, n, q)
           first == p = NULL /\ n # NULL /\ t[h].next = e
           last == p = NULL /\ n = NULL
           tf == [t1 EXCEPT ![h].next = n]
           tl == [t1 EXCEPT ![h].next = NULL, ![h].flags = @ \ {"has"}]
           t2 == IF first THEN tf ELSE IF last THEN tl ELSE t1
           r == [t2 EXCEPT ![e].next = NULL, ![e].prev = NULL]
<1>1. Unlink(t, e) = r
  BY DEF Unlink
<1>2. h \in Entries /\ h # e /\ n \in Pointers /\ p \in Pointers /\ NULL \in Pointers /\ q \in Pointers
  BY HeadIs, EntryFields DEF Pointers
<1> HIDE DEF h, n, p
<1>3. /\ t1 \in Tables
      /\ \A x \in Entries : /\ t1[x].flags = t[x].flags
                            /\ t1[x].next = IF x = p THEN n ELSE t[x].next
                            /\ t1[x].prev = IF x = n THEN q ELSE t[x].prev
  <2>1. /\ ta \in Tables
        /\ \A x \in Entries : /\ ta[x].flags = t[x].flags /\ ta[x].prev = t[x].prev
                              /\ ta[x].next = IF x = p THEN n ELSE t[x].next
    BY <1>2, StoreNext
  <2> HIDE DEF ta, q
  <2>2. ta \in Tables /\ n \in Pointers /\ q \in Pointers
    BY <1>2, <2>1
  <2>3. /\ SetPrev(ta, n, q) \in Tables
        /\ \A x \in Entries : /\ SetPrev(ta, n, q)[x].flags = ta[x].flags
                              /\ SetPrev(ta, n, q)[x].next = ta[x].next
                              /\ SetPrev(ta, n, q)[x].prev = IF x = n THEN q ELSE ta[x].prev
    BY <2>2, StorePrev
  <2> QED  BY <2>1, <2>3
<1> HIDE DEF t1
<1>4. /\ tf \in Tables
      /\ \A x \in Entries : /\ tf[x].flags = t1[x].flags /\ tf[x].prev = t1[x].prev
                            /\ tf[x].next = IF x = h THEN n ELSE t1[x].next
  BY <1>2, <1>3 DEF Tables, Pointers
<1>5. /\ tl \in Tables
      /\ \A x \in Entries : /\ tl[x].flags = IF x = h THEN t1[x].flags \ {"has"} ELSE t1[x].flags
                            /\ tl[x].prev = t1[x].prev
                            /\ tl[x].next = IF x = h THEN NULL ELSE t1[x].next
  <2> DEFINE tn == [t1 EXCEPT ![h].next = NULL]
             F == t1[h].flags \ {"has"}
  <2>1. /\ tn \in Tables
        /\ \A x \in Entries : /\ tn[x].flags = t1[x].flags /\ tn[x].prev = t1[x].prev
                              /\ tn[x].next = IF x = h THEN NULL ELSE t1[x].next
    BY <1>2, <1>3 DEF Tables, Pointers
  <2>2. F \in SUBSET Flags
    BY <1>2, <1>3, EntryFields
  <2>3. tl = SetFlags(tn, h, F)
    BY DEF SetFlags
  <2> HIDE DEF tn, F, tl
  <2>4. /\ tl \in Tables
        /\ \A x \in Entries : /\ tl[x].flags = IF x = h THEN F ELSE tn[x].flags
                              /\ tl[x].next = tn[x].next /\ tl[x].prev = tn[x].prev
    BY <1>2, <2>1, <2>2, <2>3, StoreFlags
  <2> QED  BY <2>1, <2>4 DEF F
<1>6. t2 \in Tables
  BY <1>3, <1>4, <1>5
<1>7. /\ r \in Tables
      /\ \A x \in Entries : /\ r[x].flags = t2[x].flags
                            /\ r[x].next = IF x = e THEN NULL ELSE t2[x].next
                            /\ r[x].prev = IF x = e THEN NULL ELSE t2[x].prev
  <2> HIDE DEF t2
  <2> QED  BY <1>2, <1>6 DEF Tables, Pointers
<1> HIDE DEF r, tf, tl
<1>8. ASSUME NEW x \in Entries
      PROVE  /\ r[x].next = IF x = e THEN NULL
                            ELSE IF x = p THEN n
                            ELSE IF x = h /\ p = NULL /\ (n = NULL \/ t[h].next = e) THEN n
                            ELSE t[x].next
             /\ r[x].prev = IF x = e THEN NULL ELSE IF x = n THEN p ELSE t[x].prev
             /\ r[x].flags = IF x = h /\ p = NULL /\ n = NULL
                             THEN t[x].flags \ {"has"} ELSE t[x].flags
  <2>1. x # NULL
    BY NullAssumption
  <2>2. CASE first
    BY <1>2, <1>3, <1>4, <1>7, <2>1, <2>2
  <2>3. CASE last
    BY <1>2, <1>3, <1>5, <1>7, <2>1, <2>3, ZenonT(40)
  <2>4. CASE ~ first /\ ~ last
    BY <1>2, <1>3, <1>7, <2>1, <2>4
  <2> QED  BY <2>2, <2>3, <2>4
<1> QED  BY <1>1, <1>7, <1>8 DEF Unlinked, h, n, p

(* Chained, one sentence at a time.                                        *)
IsFree(t, e) == Has(t, e, "free")
IsHead(e)    == e = LvlTable(e[1])

LEMMA ChainedIs ==
    ASSUME NEW t \in Tables
    PROVE  Chained(t) <=>
               /\ \A e \in Entries : (IsFree(t, e) \/ IsHead(e)) /\ t[e].next # NULL =>
                      /\ t[e].next \in Entries /\ ~ IsHead(t[e].next) /\ t[e].next[1] = e[1]
                      /\ IsFree(t, t[e].next)
                      /\ t[t[e].next].prev = e \/ (IsHead(e) /\ t[t[e].next].prev = NULL)
               /\ \A e \in Entries : IsFree(t, e) /\ ~ IsHead(e) /\ t[e].prev # NULL /\ t[e].prev # LvlTable(e[1]) =>
                      /\ t[e].prev \in Entries /\ t[e].prev[1] = e[1]
                      /\ IsFree(t, t[e].prev) /\ t[t[e].prev].next = e
               /\ \A e \in Entries : ~ IsFree(t, e) /\ ~ IsHead(e) => t[e].next = NULL /\ t[e].prev = NULL
               /\ \A e \in Entries : ~ (IsFree(t, e) /\ Has(t, e, "allocated"))
<1>1. \A e \in Entries : /\ t[e].next = NULL \/ t[e].next \in Entries
                         /\ t[e].prev = NULL \/ t[e].prev \in Entries
  BY EntryFields DEF Pointers
<1>2. \A e \in Entries : LvlTable(e[1]) \in Entries /\ LvlTable(e[1])[1] = e[1]
  BY HeadIs
<1>3. ASSUME NEW e \in Entries, t[e].next # NULL, t[e].next[1] = e[1]
      PROVE  t[e].next # LvlTable(e[1]) <=> ~ IsHead(t[e].next)
  BY <1>3, <1>1 DEF IsHead
<1> QED  BY <1>1, <1>2, <1>3 DEF Chained, IsFree, IsHead

(* removeEntry of a free entry: flags and pointers afterwards.             *)
TakenOut(t, e, mark, r) ==
    LET h == LvlTable(e[1])
        n == t[e].next
        p == t[e].prev
    IN  /\ r \in Tables
        /\ \A x \in Entries :
             /\ r[x].next = IF x = e THEN NULL
                            ELSE IF x = p THEN n
                            ELSE IF x = h /\ p = NULL /\ (n = NULL \/ t[h].next = e) THEN n
                            ELSE t[x].next
             /\ r[x].prev = IF x = e THEN NULL ELSE IF x = n THEN p ELSE t[x].prev
             /\ r[x].flags = IF x = e THEN (t[x].flags \ {"free"}) \cup mark
                             ELSE IF x = h /\ p = NULL /\ n = NULL
                             THEN t[x].flags \ {"has"} ELSE t[x].flags

LEMMA RemoveInside ==
    ASSUME NEW t \in Tables, NEW e \in Entries, ~ IsHead(e), IsFree(t, e), NEW mark \in SUBSET Flags
    PROVE  TakenOut(t, e, mark, RemoveEntry(t, e, mark))
<1> DEFINE h == LvlTable(e[1])
           n == t[e].next
           p == t[e].prev
           r == RemoveEntry(t, e, mark)
           F1 == t[e].flags \ {"free"}
           t1 == SetFlags(t, e, F1)
           t2 == Unlink(t1, e)
           F2 == t2[e].flags \cup mark
<1>1. r = SetFlags(t2, e, F2)
  BY DEF RemoveEntry, IsHead, IsFree, SetFlags
<1>2. h \in Entries /\ h # e
  BY HeadIs DEF IsHead
<1>3. F1 \in SUBSET Flags
  BY EntryFields
<1> HIDE DEF F1
<1>4. /\ t1 \in Tables
      /\ \A x \in Entries : /\ t1[x].flags = IF x = e THEN F1 ELSE t[x].flags
                            /\ t1[x].next = t[x].next
                            /\ t1[x].prev = t[x].prev
  BY <1>3, StoreFlags
<1> HIDE DEF t1
<1>5. /\ t1[e].next = n /\ t1[e].prev = p /\ t1[h].next = t[h].next
  BY <1>2, <1>4
<1> HIDE DEF n, p
<1>6. /\ t2 \in Tables
      /\ \A x \in Entries :
            /\ t2[x].next = IF x = e THEN NULL
                            ELSE IF x = p THEN n
                            ELSE IF x = h /\ p = NULL /\ (n = NULL \/ t[h].next = e) THEN n
                            ELSE t1[x].next
            /\ t2[x].prev = IF x = e THEN NULL ELSE IF x = n THEN p ELSE t1[x].prev
            /\ t2[x].flags = IF x = h /\ p = NULL /\ n = NULL
                             THEN t1[x].flags \ {"has"} ELSE t1[x].flags
  <2>1. Unlinked(t1, e, t2)
    <3>1. t1 \in Tables /\ e # LvlTable(e[1])
      BY <1>4 DEF IsHead
    <3> QED  BY <3>1, UnlinkIs
  <2> HIDE DEF t2
  <2> QED  BY <2>1, <1>5 DEF Unlinked
<1> HIDE DEF t2, h
<1>7. F2 \in SUBSET Flags
  BY <1>6, EntryFields
<1>8. F2 = F1 \cup mark
  BY <1>2, <1>4, <1>6
<1> HIDE DEF F2, r
<1>9. /\ r \in Tables
      /\ \A x \in Entries : /\ r[x].flags = IF x = e THEN F2 ELSE t2[x].flags
                            /\ r[x].next = t2[x].next
                            /\ r[x].prev = t2[x].prev
  <2>1. t2 \in Tables
    BY <1>6
  <2> QED  BY <1>1, <1>7, <2>1, StoreFlags
<1>10. ASSUME NEW x \in Entries
       PROVE  /\ r[x].next = IF x = e THEN NULL
                                   ELSE IF x = p THEN n
                                   ELSE IF x = h /\ p = NULL /\ (n = NULL \/ t[h].next = e) THEN n
                                   ELSE t[x].next
              /\ r[x].prev = IF x = e THEN NULL ELSE IF x = n THEN p ELSE t[x].prev
              /\ r[x].flags = IF x = e THEN F1 \cup mark
                                    ELSE IF x = h /\ p = NULL /\ n = NULL
                                    THEN t[x].flags \ {"has"} ELSE t[x].flags
  BY <1>4, <1>6, <1>8, <1>9, ZenonT(40)
<1> QED  BY <1>9, <1>10 DEF TakenOut, r, n, p, h, F1

LEMMA RemoveHead ==
    ASSUME NEW t \in Tables, NEW e \in Entries, IsHead(e), IsFree(t, e), NEW mark \in SUBSET Flags
    PROVE  LET n == t[e].next
               r == RemoveEntry(t, e, mark)
           IN  /\ r \in Tables
               /\ \A x \in Entries :
                    /\ r[x].next = t[x].next
                    /\ r[x].prev = IF x = n THEN NULL ELSE t[x].prev
                    /\ r[x].flags = IF x = e THEN ((t[x].flags \ {"free"}) \cup mark)
                                                  \cup (IF n = NULL THEN {} ELSE {"has"})
                                    ELSE t[x].flags
<1> DEFINE n == t[e].next
           r == RemoveEntry(t, e, mark)
           F1 == t[e].flags \ {"free"}
           t1 == SetFlags(t, e, F1)
           F2 == F1 \cup {"has"}
           th == SetFlags(t1, e, F2)
           ts == SetPrev(th, n, NULL)
           t2 == IF n = NULL THEN t1 ELSE ts
           F3 == t2[e].flags \cup mark
<1>1. F1 \in SUBSET Flags /\ F2 \in SUBSET Flags /\ n \in Pointers /\ NULL \in Pointers
  BY EntryFields DEF Pointers, Flags
<1> HIDE DEF F1
<1>2. /\ t1 \in Tables
      /\ \A x \in Entries : /\ t1[x].flags = IF x = e THEN F1 ELSE t[x].flags
                            /\ t1[x].next = t[x].next
                            /\ t1[x].prev = t[x].prev
  BY <1>1, StoreFlags
<1>3. r = SetFlags(t2, e, F3)
  <2>1. t1[e].next = n /\ t1[e].flags = F1
    BY <1>2
  <2>2. r = SetFlags(UnlinkHead(t1, e), e, UnlinkHead(t1, e)[e].flags \cup mark)
    BY DEF RemoveEntry, IsHead, IsFree, SetFlags, F1
  <2>3. UnlinkHead(t1, e) = IF n = NULL THEN t1 ELSE SetPrev(SetFlags(t1, e, t1[e].flags \cup {"has"}), n, NULL)
    <3> HIDE DEF t1, n
    <3> QED  BY <2>1 DEF UnlinkHead, SetFlags
  <2>4. UnlinkHead(t1, e) = t2
    <3> HIDE DEF t1
    <3> QED  BY <2>1, <2>3
  <2> QED  BY <2>2, <2>4
<1> HIDE DEF t1, F2, n
<1>4. /\ th \in Tables
      /\ \A x \in Entries : /\ th[x].flags = IF x = e THEN F2 ELSE t1[x].flags
                            /\ th[x].next = t1[x].next
                            /\ th[x].prev = t1[x].prev
  <2>1. t1 \in Tables
    BY <1>2
  <2> QED  BY <1>1, <2>1, StoreFlags
<1> HIDE DEF th
<1>5. /\ ts \in Tables
      /\ \A x \in Entries : /\ ts[x].flags = th[x].flags
                            /\ ts[x].next = th[x].next
                            /\ ts[x].prev = IF x = n THEN NULL ELSE th[x].prev
  <2>1. th \in Tables /\ n \in Pointers /\ NULL \in Pointers
    BY <1>1, <1>4
  <2> QED  BY <2>1, StorePrev
<1> HIDE DEF ts
<1>6. /\ t2 \in Tables
      /\ \A x \in Entries : /\ t2[x].next = t[x].next
                            /\ t2[x].prev = IF x = n THEN NULL ELSE t[x].prev
                            /\ t2[x].flags = IF x = e THEN (IF n = NULL THEN F1 ELSE F2) ELSE t[x].flags
  <2>1. CASE n = NULL
    BY <1>2, <2>1, NullAssumption
  <2>2. CASE n # NULL
    BY <1>2, <1>4, <1>5, <2>2
  <2> QED  BY <2>1, <2>2
<1> HIDE DEF t2
<1>7. F3 \in SUBSET Flags /\ F3 = (F1 \cup mark) \cup (IF n = NULL THEN {} ELSE {"has"})
  <2>1. F3 \in SUBSET Flags
    BY <1>6, EntryFields
  <2>2. CASE n = NULL
    BY <2>1, <2>2, <1>6
  <2>3. CASE n # NULL
    BY <2>1, <2>3, <1>6 DEF F2
  <2> QED  BY <2>2, <2>3
<1> HIDE DEF F3, r
<1>8. /\ r \in Tables
      /\ \A x \in Entries : /\ r[x].flags = IF x = e THEN F3 ELSE t2[x].flags
                            /\ r[x].next = t2[x].next
                            /\ r[x].prev = t2[x].prev
  <2>1. t2 \in Tables
    BY <1>6
  <2> QED  BY <1>3, <1>7, <2>1, StoreFlags
<1>9. ASSUME NEW x \in Entries
      PROVE  /\ r[x].next = t[x].next
             /\ r[x].prev = IF x = n THEN NULL ELSE t[x].prev
             /\ r[x].flags = IF x = e THEN (F1 \cup mark) \cup (IF n = NULL THEN {} ELSE {"has"})
                                    ELSE t[x].flags
  BY <1>6, <1>7, <1>8
<1> QED  BY <1>8, <1>9 DEF r, n, F1

(* r is t with the entry e taken out and marked: what the steps of the     *)
(* calls need of removeEntry.                                              *)
Removed(t, e, mark, r) ==
    /\ r \in Tables /\ Chained(r)
    /\ \A x \in Entries : /\ IsFree(r, x) <=> IsFree(t, x) /\ x # e
                          /\ Has(r, x, "allocated") <=>
                                Has(t, x, "allocated") \/ (x = e /\ "allocated" \in mark)
                          /\ x[1] # e[1] => r[x].flags = t[x].flags

LEMMA RemovesInside ==
    ASSUME NEW t \in Tables, Chained(t), NEW e \in Entries, IsFree(t, e), ~ IsHead(e),
           NEW mark \in SUBSET {"splitup", "allocated"}
    PROVE  Removed(t, e, mark, RemoveEntry(t, e, mark))
<1> DEFINE h == LvlTable(e[1])
           n == t[e].next
           p == t[e].prev
           r == RemoveEntry(t, e, mark)
<1>1. mark \in SUBSET Flags
  BY DEF Flags
<1>2. /\ r \in Tables
      /\ \A x \in Entries :
           /\ r[x].next = IF x = e THEN NULL
                          ELSE IF x = p THEN n
                          ELSE IF x = h /\ p = NULL /\ (n = NULL \/ t[h].next = e) THEN n
                          ELSE t[x].next
           /\ r[x].prev = IF x = e THEN NULL ELSE IF x = n THEN p ELSE t[x].prev
           /\ r[x].flags = IF x = e THEN (t[x].flags \ {"free"}) \cup mark
                           ELSE IF x = h /\ p = NULL /\ n = NULL
                           THEN t[x].flags \ {"has"} ELSE t[x].flags
  <2>1. TakenOut(t, e, mark, r)
    BY <1>1, RemoveInside
  <2> HIDE DEF r
  <2> QED  BY <2>1 DEF TakenOut
<1> HIDE DEF r
<1>3. /\ \A x \in Entries : (IsFree(t, x) \/ IsHead(x)) /\ t[x].next # NULL =>
             /\ t[x].next \in Entries /\ ~ IsHead(t[x].next) /\ t[x].next[1] = x[1]
             /\ IsFree(t, t[x].next)
             /\ t[t[x].next].prev = x \/ (IsHead(x) /\ t[t[x].next].prev = NULL)
      /\ \A x \in Entries : IsFree(t, x) /\ ~ IsHead(x) /\ t[x].prev # NULL /\ t[x].prev # LvlTable(x[1]) =>
             /\ t[x].prev \in Entries /\ t[x].prev[1] = x[1]
             /\ IsFree(t, t[x].prev) /\ t[t[x].prev].next = x
      /\ \A x \in Entries : ~ IsFree(t, x) /\ ~ IsHead(x) => t[x].next = NULL /\ t[x].prev = NULL
      /\ \A x \in Entries : ~ (IsFree(t, x) /\ Has(t, x, "allocated"))
  BY ChainedIs
<1>4. h \in Entries /\ h # e /\ h[1] = e[1] /\ IsHead(h) /\ NULL \notin Entries
  BY HeadIs, NullAssumption DEF IsHead
<1>5. \A x \in Entries : /\ IsFree(r, x) <=> IsFree(t, x) /\ x # e
                         /\ Has(r, x, "allocated") <=>
                               Has(t, x, "allocated") \/ (x = e /\ "allocated" \in mark)
                         /\ x[1] # e[1] => r[x].flags = t[x].flags
  <2> SUFFICES ASSUME NEW x \in Entries
               PROVE  /\ IsFree(r, x) <=> IsFree(t, x) /\ x # e
                      /\ Has(r, x, "allocated") <=>
                            Has(t, x, "allocated") \/ (x = e /\ "allocated" \in mark)
                      /\ x[1] # e[1] => r[x].flags = t[x].flags
    OBVIOUS
  <2>1. CASE x = e
    <3>1. r[x].flags = (t[x].flags \ {"free"}) \cup mark /\ "free" \notin mark
      BY <2>1, <1>2
    <3> QED  BY <3>1, <2>1 DEF IsFree, Has
  <2>2. CASE x # e
    <3>1. r[x].flags = t[x].flags \/ (x = h /\ r[x].flags = t[x].flags \ {"has"})
      BY <2>2, <1>2
    <3> QED  BY <3>1, <2>2, <1>4 DEF IsFree, Has
  <2> QED  BY <2>1, <2>2
<1>6. \A x \in Entries : IsHead(x) /\ x[1] = e[1] => x = h
  BY DEF IsHead
<1>7. /\ n = NULL \/ (n \in Entries /\ ~ IsHead(n) /\ n[1] = e[1] /\ IsFree(t, n) /\ t[n].prev = e)
      /\ p = NULL \/ p = h \/ (p \in Entries /\ p[1] = e[1] /\ IsFree(t, p) /\ t[p].next = e)
  BY <1>3
<1> HIDE DEF n, p, h
<1>8. \A x \in Entries : /\ r[x].next = IF x = e THEN NULL
                                        ELSE IF x = p THEN n
                                        ELSE IF x = h /\ p = NULL /\ (n = NULL \/ t[h].next = e) THEN n
                                        ELSE t[x].next
                         /\ r[x].prev = IF x = e THEN NULL ELSE IF x = n THEN p ELSE t[x].prev
  BY <1>2
<1>9. t[e].next = n /\ t[e].prev = p
  BY DEF n, p
<1>10. ASSUME NEW x \in Entries, IsFree(r, x) \/ IsHead(x), r[x].next # NULL
       PROVE  /\ r[x].next \in Entries /\ ~ IsHead(r[x].next) /\ r[x].next[1] = x[1]
              /\ IsFree(r, r[x].next)
              /\ r[r[x].next].prev = x \/ (IsHead(x) /\ r[r[x].next].prev = NULL)
  <2>1. x # e
    BY <1>10, <1>8
  <2>2. CASE x = p
    BY <1>4, <1>5, <1>7, <1>8, <1>9, <1>10, <2>1, <2>2
  <2>3. CASE x # p /\ x = h /\ p = NULL /\ (n = NULL \/ t[h].next = e)
    BY <1>4, <1>5, <1>7, <1>8, <1>9, <1>10, <2>1, <2>3
  <2>4. CASE x # p /\ ~ (x = h /\ p = NULL /\ (n = NULL \/ t[h].next = e))
    <3> DEFINE m == t[x].next
    <3>1. r[x].next = m /\ m # NULL
      BY <1>8, <1>10, <2>1, <2>4
    <3>2. /\ m \in Entries /\ ~ IsHead(m) /\ m[1] = x[1] /\ IsFree(t, m)
          /\ t[m].prev = x \/ (IsHead(x) /\ t[m].prev = NULL)
      BY <3>1, <1>3, <1>5, <1>10
    <3>3. m # e
      <4> SUFFICES ASSUME m = e PROVE FALSE
        OBVIOUS
      <4>1. p = NULL /\ IsHead(x)
        BY <3>2, <1>9, <2>4
      <4>2. x = h
        BY <4>1, <3>2, <1>6
      <4> QED  BY <4>1, <4>2, <2>4
    <3>4. m # n
      BY <3>1, <3>2, <1>4, <1>7, <2>1
    <3> HIDE DEF m
    <3>5. r[m].prev = t[m].prev /\ IsFree(r, m)
      BY <1>5, <1>8, <3>2, <3>3, <3>4
    <3> QED  BY <3>1, <3>2, <3>5
  <2> QED  BY <2>2, <2>3, <2>4
<1>11. ASSUME NEW x \in Entries, IsFree(r, x), ~ IsHead(x), r[x].prev # NULL, r[x].prev # LvlTable(x[1])
       PROVE  /\ r[x].prev \in Entries /\ r[x].prev[1] = x[1]
              /\ IsFree(r, r[x].prev) /\ r[r[x].prev].next = x
  <2>1. x # e /\ IsFree(t, x)
    BY <1>5, <1>11
  <2>2. CASE x = n
    <3>1. r[x].prev = p /\ x[1] = e[1] /\ p # NULL /\ p # h
      BY <2>1, <2>2, <1>4, <1>7, <1>8, <1>11 DEF h
    <3>2. p \in Entries /\ p[1] = e[1] /\ IsFree(t, p) /\ t[p].next = e /\ p # e
      BY <3>1, <1>7, <1>9, <2>1, <2>2
    <3> QED  BY <3>1, <3>2, <2>2, <1>5, <1>8
  <2>3. CASE x # n
    <3> DEFINE q == t[x].prev
    <3>1. r[x].prev = q
      BY <1>8, <2>1, <2>3
    <3>2. q \in Entries /\ q[1] = x[1] /\ IsFree(t, q) /\ t[q].next = x
      BY <3>1, <2>1, <1>3, <1>11
    <3>3. q # e /\ q # h
      BY <3>1, <3>2, <2>3, <1>9, <1>4, <1>11 DEF h
    <3>4. q # p
      BY <3>2, <3>3, <1>7, <1>4, <2>1
    <3> HIDE DEF q
    <3> QED  BY <3>1, <3>2, <3>3, <3>4, <1>5, <1>8
  <2> QED  BY <2>2, <2>3
<1>12. ASSUME NEW x \in Entries, ~ IsFree(r, x), ~ IsHead(x)
       PROVE  r[x].next = NULL /\ r[x].prev = NULL
  <2>1. CASE x = e
    BY <2>1, <1>8
  <2>2. CASE x # e
    <3>1. ~ IsFree(t, x) /\ t[x].next = NULL /\ t[x].prev = NULL
      BY <2>2, <1>3, <1>5, <1>12
    <3>2. x # n /\ x # p /\ x # h
      BY <3>1, <1>4, <1>7, <1>12
    <3> QED  BY <3>1, <3>2, <2>2, <1>8
  <2> QED  BY <2>1, <2>2
<1>13. \A x \in Entries : ~ (IsFree(r, x) /\ Has(r, x, "allocated"))
  BY <1>3, <1>5
<1>14. Chained(r)
  BY <1>2, <1>10, <1>11, <1>12, <1>13, ChainedIs
<1> QED  BY <1>2, <1>5, <1>14 DEF Removed, r

LEMMA RemovesHead ==
    ASSUME NEW t \in Tables, Chained(t), NEW e \in Entries, IsFree(t, e), IsHead(e),
           NEW mark \in SUBSET {"splitup", "allocated"}
    PROVE  Removed(t, e, mark, RemoveEntry(t, e, mark))
<1> DEFINE n == t[e].next
           r == RemoveEntry(t, e, mark)
<1>1. mark \in SUBSET Flags
  BY DEF Flags
<1>2. /\ r \in Tables
      /\ \A x \in Entries :
           /\ r[x].next = t[x].next
           /\ r[x].prev = IF x = n THEN NULL ELSE t[x].prev
           /\ r[x].flags = IF x = e THEN ((t[x].flags \ {"free"}) \cup mark)
                                         \cup (IF n = NULL THEN {} ELSE {"has"})
                           ELSE t[x].flags
  BY <1>1, RemoveHead
<1> HIDE DEF r
<1>3. /\ \A x \in Entries : (IsFree(t, x) \/ IsHead(x)) /\ t[x].next # NULL =>
             /\ t[x].next \in Entries /\ ~ IsHead(t[x].next) /\ t[x].next[1] = x[1]
             /\ IsFree(t, t[x].next)
             /\ t[t[x].next].prev = x \/ (IsHead(x) /\ t[t[x].next].prev = NULL)
      /\ \A x \in Entries : IsFree(t, x) /\ ~ IsHead(x) /\ t[x].prev # NULL /\ t[x].prev # LvlTable(x[1]) =>
             /\ t[x].prev \in Entries /\ t[x].prev[1] = x[1]
             /\ IsFree(t, t[x].prev) /\ t[t[x].prev].next = x
      /\ \A x \in Entries : ~ IsFree(t, x) /\ ~ IsHead(x) => t[x].next = NULL /\ t[x].prev = NULL
      /\ \A x \in Entries : ~ (IsFree(t, x) /\ Has(t, x, "allocated"))
  BY ChainedIs
<1>4. \A x \in Entries : /\ IsFree(r, x) <=> IsFree(t, x) /\ x # e
                         /\ Has(r, x, "allocated") <=>
                               Has(t, x, "allocated") \/ (x = e /\ "allocated" \in mark)
                         /\ x[1] # e[1] => r[x].flags = t[x].flags
  <2> SUFFICES ASSUME NEW x \in Entries
               PROVE  /\ IsFree(r, x) <=> IsFree(t, x) /\ x # e
                      /\ Has(r, x, "allocated") <=>
                            Has(t, x, "allocated") \/ (x = e /\ "allocated" \in mark)
                      /\ x[1] # e[1] => r[x].flags = t[x].flags
    OBVIOUS
  <2>1. CASE x = e
    <3>1. /\ r[x].flags = ((t[x].flags \ {"free"}) \cup mark) \cup (IF n = NULL THEN {} ELSE {"has"})
          /\ "free" \notin mark
      BY <2>1, <1>2
    <3>2. "free" \notin r[x].flags /\ ("allocated" \in r[x].flags <=> "allocated" \in t[x].flags \/ "allocated" \in mark)
      BY <3>1
    <3> QED  BY <3>2, <2>1 DEF IsFree, Has
  <2>2. CASE x # e
    BY <2>2, <1>2 DEF IsFree, Has
  <2> QED  BY <2>1, <2>2
<1>5. e # NULL /\ NULL \notin Entries
  BY NullAssumption
<1>6. n = NULL \/ (n \in Entries /\ ~ IsHead(n) /\ n[1] = e[1] /\ IsFree(t, n) /\ t[n].prev \in {e, NULL})
  BY <1>3
<1>7. \A x \in Entries : r[x].next = t[x].next /\ r[x].prev = IF x = n THEN NULL ELSE t[x].prev
  BY <1>2
<1>8. t[e].next = n /\ \A x \in Entries : x[1] = e[1] => LvlTable(x[1]) = e
  BY DEF IsHead
<1> HIDE DEF n
<1>9. ASSUME NEW x \in Entries, IsFree(r, x) \/ IsHead(x), r[x].next # NULL
      PROVE  /\ r[x].next \in Entries /\ ~ IsHead(r[x].next) /\ r[x].next[1] = x[1]
             /\ IsFree(r, r[x].next)
             /\ r[r[x].next].prev = x \/ (IsHead(x) /\ r[r[x].next].prev = NULL)
  <2> DEFINE m == t[x].next
  <2>1. r[x].next = m
    BY <1>7
  <2>2. /\ m \in Entries /\ ~ IsHead(m) /\ m[1] = x[1] /\ IsFree(t, m)
        /\ t[m].prev = x \/ (IsHead(x) /\ t[m].prev = NULL)
    BY <2>1, <1>3, <1>4, <1>9
  <2>3. m # e
    BY <2>2
  <2> HIDE DEF m
  <2>4. CASE m = n
    <3>1. x = e \/ IsHead(x)
      BY <2>2, <2>4, <1>5, <1>6
    <3> QED  BY <3>1, <2>1, <2>2, <2>3, <2>4, <1>4, <1>7
  <2>5. CASE m # n
    BY <2>1, <2>2, <2>3, <2>5, <1>4, <1>7
  <2> QED  BY <2>4, <2>5
<1>10. ASSUME NEW x \in Entries, IsFree(r, x), ~ IsHead(x), r[x].prev # NULL, r[x].prev # LvlTable(x[1])
       PROVE  /\ r[x].prev \in Entries /\ r[x].prev[1] = x[1]
              /\ IsFree(r, r[x].prev) /\ r[r[x].prev].next = x
  <2>1. x # n /\ r[x].prev = t[x].prev /\ IsFree(t, x)
    BY <1>4, <1>7, <1>10
  <2>2. /\ t[x].prev \in Entries /\ t[x].prev[1] = x[1]
        /\ IsFree(t, t[x].prev) /\ t[t[x].prev].next = x
    BY <2>1, <1>3, <1>10
  <2>3. t[x].prev # e
    BY <2>1, <2>2, <1>8
  <2> QED  BY <2>1, <2>2, <2>3, <1>4, <1>7
<1>11. ASSUME NEW x \in Entries, ~ IsFree(r, x), ~ IsHead(x)
       PROVE  r[x].next = NULL /\ r[x].prev = NULL
  BY <1>3, <1>4, <1>7, <1>11
<1>12. \A x \in Entries : ~ (IsFree(r, x) /\ Has(r, x, "allocated"))
  BY <1>3, <1>4
<1>13. Chained(r)
  BY <1>2, <1>9, <1>10, <1>11, <1>12, ChainedIs
<1> QED  BY <1>2, <1>4, <1>13 DEF Removed, r

LEMMA Removes ==
    ASSUME NEW t \in Tables, Chained(t), NEW e \in Entries, IsFree(t, e),
           NEW mark \in SUBSET {"splitup", "allocated"}
    PROVE  Removed(t, e, mark, RemoveEntry(t, e, mark))
BY RemovesInside, RemovesHead

LEMMA RemovesNothing ==
    ASSUME NEW t, NEW e, ~ IsFree(t, e), NEW mark
    PROVE  RemoveEntry(t, e, mark) = t
BY DEF RemoveEntry, IsFree

(* addEntry: flags and pointers afterwards.                                *)
PutIn(t, e, r) ==
    LET h   == LvlTable(e[1])
        n   == t[h].next
        has == Has(t, h, "has")
    IN  /\ r \in Tables
        /\ \A x \in Entries :
             /\ r[x].next = IF e # h /\ x = h THEN e
                            ELSE IF e # h /\ has /\ x = e THEN n
                            ELSE t[x].next
             /\ r[x].prev = IF has /\ x = n THEN e
                            ELSE IF e # h /\ has /\ x = e
                            THEN (IF Has(t, h, "free") THEN h ELSE NULL)
                            ELSE t[x].prev
             /\ r[x].flags = IF x = e
                             THEN ((IF x = h THEN t[x].flags \cup {"has"} ELSE t[x].flags) \cup {"free"})
                                     \ {"splitup", "allocated"}
                             ELSE IF x = h THEN t[x].flags \cup {"has"} ELSE t[x].flags

LEMMA AddPuts ==
    ASSUME NEW t \in Tables, NEW e \in Entries
    PROVE  PutIn(t, e, AddEntry(t, e))
<1> DEFINE h == LvlTable(e[1])
           n == t[h].next
           has == Has(t, h, "has")
           hp == IF Has(t, h, "free") THEN h ELSE NULL
           tn == [t EXCEPT ![e].prev = hp, ![e].next = n, ![h].next = e]
           t1 == IF ~ has THEN IF e # h THEN SetNext(t, h, e) ELSE t
                 ELSE IF e # h THEN SetPrev(tn, n, e) ELSE SetPrev(t, n, h)
           F2 == t1[h].flags \cup {"has"}
           t2 == SetFlags(t1, h, F2)
           F3 == (t2[e].flags \cup {"free"}) \ {"splitup", "allocated"}
           r == AddEntry(t, e)
<1>1. h \in Entries /\ n \in Pointers /\ hp \in Pointers /\ e \in Pointers /\ h \in Pointers /\ h # NULL
  BY HeadIs, EntryFields, NullAssumption DEF Pointers
<1>2. r = SetFlags(t2, e, F3)
  <2>1. SetNext(t, h, e) = [t EXCEPT ![h].next = e]
    BY <1>1 DEF SetNext
  <2>2. Link(t, e) = IF ~ has THEN IF e # h THEN [t EXCEPT ![h].next = e] ELSE t
                     ELSE IF e # h THEN SetPrev(tn, n, e) ELSE SetPrev(t, n, h)
    BY DEF Link
  <2>3. Link(t, e) = t1
    <3> HIDE DEF h, n, has, tn
    <3> QED  BY <2>1, <2>2
  <2> DEFINE l1 == Link(t, e)
             l2 == SetFlags(l1, h, l1[h].flags \cup {"has"})
  <2>4. r = SetFlags(l2, e, (l2[e].flags \cup {"free"}) \ {"splitup", "allocated"})
    BY DEF AddEntry, SetFlags
  <2> HIDE DEF t1, l1, r, h
  <2> QED  BY <2>3, <2>4 DEF l1
<1> HIDE DEF h, n, has, hp
<1>3. /\ t1 \in Tables
      /\ \A x \in Entries :
           /\ t1[x].flags = t[x].flags
           /\ t1[x].next = IF e # h /\ x = h THEN e ELSE IF e # h /\ has /\ x = e THEN n ELSE t[x].next
           /\ t1[x].prev = IF has /\ x = n THEN e ELSE IF e # h /\ has /\ x = e THEN hp ELSE t[x].prev
  <2>1. CASE ~ has /\ e # h
    <3>1. /\ SetNext(t, h, e) \in Tables
          /\ \A x \in Entries : /\ SetNext(t, h, e)[x].flags = t[x].flags
                                /\ SetNext(t, h, e)[x].prev = t[x].prev
                                /\ SetNext(t, h, e)[x].next = IF x = h THEN e ELSE t[x].next
      BY <1>1, StoreNext
    <3> QED  BY <2>1, <3>1
  <2>2. CASE ~ has /\ e = h
    BY <2>2
  <2>3. CASE has /\ e # h
    <3> DEFINE tp == SetPrev(t, e, hp)
               tq == SetNext(tp, e, n)
               ts == SetNext(tq, h, e)
    <3>1. /\ tp \in Tables
          /\ \A x \in Entries : /\ tp[x].flags = t[x].flags
                                /\ tp[x].next = t[x].next
                                /\ tp[x].prev = IF x = e THEN hp ELSE t[x].prev
      BY <1>1, StorePrev
    <3> HIDE DEF tp
    <3>2. /\ tq \in Tables
          /\ \A x \in Entries : /\ tq[x].flags = tp[x].flags
                                /\ tq[x].prev = tp[x].prev
                                /\ tq[x].next = IF x = e THEN n ELSE tp[x].next
      BY <1>1, <3>1, StoreNext
    <3> HIDE DEF tq
    <3>3. /\ ts \in Tables
          /\ \A x \in Entries : /\ ts[x].flags = tq[x].flags
                                /\ ts[x].prev = tq[x].prev
                                /\ ts[x].next = IF x = h THEN e ELSE tq[x].next
      BY <1>1, <3>2, StoreNext
    <3>4. tn = ts
      BY <1>1, NullAssumption DEF ts, tq, tp, SetNext, SetPrev
    <3> HIDE DEF ts, tn
    <3>5. /\ SetPrev(tn, n, e) \in Tables
          /\ \A x \in Entries : /\ SetPrev(tn, n, e)[x].flags = tn[x].flags
                                /\ SetPrev(tn, n, e)[x].next = tn[x].next
                                /\ SetPrev(tn, n, e)[x].prev = IF x = n THEN e ELSE tn[x].prev
      <4>1. tn \in Tables /\ n \in Pointers /\ e \in Pointers
        BY <1>1, <3>3, <3>4
      <4> QED  BY <4>1, StorePrev
    <3>6. t1 = SetPrev(tn, n, e)
      BY <2>3
    <3> HIDE DEF t1
    <3> QED  BY <2>3, <3>1, <3>2, <3>3, <3>4, <3>5, <3>6
  <2>4. CASE has /\ e = h
    <3>1. /\ SetPrev(t, n, h) \in Tables
          /\ \A x \in Entries : /\ SetPrev(t, n, h)[x].flags = t[x].flags
                                /\ SetPrev(t, n, h)[x].next = t[x].next
                                /\ SetPrev(t, n, h)[x].prev = IF x = n THEN h ELSE t[x].prev
      BY <1>1, StorePrev
    <3> QED  BY <2>4, <3>1
  <2> QED  BY <2>1, <2>2, <2>3, <2>4
<1> HIDE DEF t1
<1>4. F2 \in SUBSET Flags /\ F2 = t[h].flags \cup {"has"}
  BY <1>1, <1>3, EntryFields DEF Flags
<1> HIDE DEF F2
<1>5. /\ t2 \in Tables
      /\ \A x \in Entries : /\ t2[x].flags = IF x = h THEN F2 ELSE t1[x].flags
                            /\ t2[x].next = t1[x].next
                            /\ t2[x].prev = t1[x].prev
  <2>1. t1 \in Tables
    BY <1>3
  <2> QED  BY <2>1, <1>1, <1>4, StoreFlags
<1> HIDE DEF t2
<1>6. /\ F3 \in SUBSET Flags
      /\ F3 = ((IF e = h THEN t[e].flags \cup {"has"} ELSE t[e].flags) \cup {"free"}) \ {"splitup", "allocated"}
  <2>1. t2[e].flags \in SUBSET Flags
    BY <1>5, EntryFields
  <2>2. t2[e].flags = IF e = h THEN t[e].flags \cup {"has"} ELSE t[e].flags
    BY <1>3, <1>4, <1>5
  <2> QED  BY <2>1, <2>2 DEF Flags
<1> HIDE DEF F3, r
<1>7. /\ r \in Tables
      /\ \A x \in Entries : /\ r[x].flags = IF x = e THEN F3 ELSE t2[x].flags
                            /\ r[x].next = t2[x].next
                            /\ r[x].prev = t2[x].prev
  <2>1. t2 \in Tables
    BY <1>5
  <2> QED  BY <2>1, <1>2, <1>6, StoreFlags
<1>8. ASSUME NEW x \in Entries
      PROVE  /\ r[x].next = IF e # h /\ x = h THEN e ELSE IF e # h /\ has /\ x = e THEN n ELSE t[x].next
             /\ r[x].prev = IF has /\ x = n THEN e ELSE IF e # h /\ has /\ x = e THEN hp ELSE t[x].prev
             /\ r[x].flags = IF x = e
                             THEN ((IF x = h THEN t[x].flags \cup {"has"} ELSE t[x].flags) \cup {"free"})
                                     \ {"splitup", "allocated"}
                             ELSE IF x = h THEN t[x].flags \cup {"has"} ELSE t[x].flags
  <2>1. r[x].flags = IF x = e THEN F3 ELSE IF x = h THEN F2 ELSE t[x].flags
    BY <1>3, <1>5, <1>7
  <2>2. r[x].next = t1[x].next /\ r[x].prev = t1[x].prev
    BY <1>5, <1>7
  <2> QED  BY <2>1, <2>2, <1>3, <1>4, <1>6
<1> QED  BY <1>7, <1>8 DEF PutIn, r, h, n, has, hp

(* What the steps of the calls need of addEntry.                           *)
Added(t, e, r) ==
    /\ r \in Tables /\ Chained(r)
    /\ \A x \in Entries : /\ IsFree(r, x) <=> IsFree(t, x) \/ x = e
                          /\ Has(r, x, "allocated") <=> Has(t, x, "allocated") /\ x # e
                          /\ x[1] # e[1] => r[x].flags = t[x].flags
    /\ Has(r, LvlTable(e[1]), "has") /\ (~ IsHead(e) => r[LvlTable(e[1])].next = e)

LEMMA Adds ==
    ASSUME NEW t \in Tables, Chained(t), NEW e \in Entries, ~ IsFree(t, e)
    PROVE  Added(t, e, AddEntry(t, e))
<1> DEFINE h == LvlTable(e[1])
           n == t[h].next
           has == Has(t, h, "has")
           r == AddEntry(t, e)
           hp == IF Has(t, h, "free") THEN h ELSE NULL
<1>1. /\ r \in Tables
      /\ \A x \in Entries :
           /\ r[x].next = IF e # h /\ x = h THEN e ELSE IF e # h /\ has /\ x = e THEN n ELSE t[x].next
           /\ r[x].prev = IF has /\ x = n THEN e ELSE IF e # h /\ has /\ x = e THEN hp ELSE t[x].prev
           /\ r[x].flags = IF x = e
                           THEN ((IF x = h THEN t[x].flags \cup {"has"} ELSE t[x].flags) \cup {"free"})
                                   \ {"splitup", "allocated"}
                           ELSE IF x = h THEN t[x].flags \cup {"has"} ELSE t[x].flags
  <2>1. PutIn(t, e, r)
    BY AddPuts
  <2> HIDE DEF r
  <2> QED  BY <2>1 DEF PutIn
<1> HIDE DEF r
<1>2. /\ \A x \in Entries : (IsFree(t, x) \/ IsHead(x)) /\ t[x].next # NULL =>
             /\ t[x].next \in Entries /\ ~ IsHead(t[x].next) /\ t[x].next[1] = x[1]
             /\ IsFree(t, t[x].next)
             /\ t[t[x].next].prev = x \/ (IsHead(x) /\ t[t[x].next].prev = NULL)
      /\ \A x \in Entries : IsFree(t, x) /\ ~ IsHead(x) /\ t[x].prev # NULL /\ t[x].prev # LvlTable(x[1]) =>
             /\ t[x].prev \in Entries /\ t[x].prev[1] = x[1]
             /\ IsFree(t, t[x].prev) /\ t[t[x].prev].next = x
      /\ \A x \in Entries : ~ IsFree(t, x) /\ ~ IsHead(x) => t[x].next = NULL /\ t[x].prev = NULL
      /\ \A x \in Entries : ~ (IsFree(t, x) /\ Has(t, x, "allocated"))
  BY ChainedIs
<1>3. h \in Entries /\ h[1] = e[1] /\ IsHead(h) /\ NULL \notin Entries /\ (IsHead(e) <=> e = h)
  BY HeadIs, NullAssumption DEF IsHead
<1>4. \A x \in Entries : /\ IsFree(r, x) <=> IsFree(t, x) \/ x = e
                         /\ Has(r, x, "allocated") <=> Has(t, x, "allocated") /\ x # e
                         /\ x[1] # e[1] => r[x].flags = t[x].flags
  <2> SUFFICES ASSUME NEW x \in Entries
               PROVE  /\ IsFree(r, x) <=> IsFree(t, x) \/ x = e
                      /\ Has(r, x, "allocated") <=> Has(t, x, "allocated") /\ x # e
                      /\ x[1] # e[1] => r[x].flags = t[x].flags
    OBVIOUS
  <2>1. CASE x = e
    <3>1. "free" \in r[x].flags /\ "allocated" \notin r[x].flags
      BY <2>1, <1>1
    <3> QED  BY <3>1, <2>1 DEF IsFree, Has
  <2>2. CASE x # e
    <3>1. r[x].flags = t[x].flags \/ (x = h /\ r[x].flags = t[x].flags \cup {"has"})
      BY <2>2, <1>1
    <3> QED  BY <3>1, <2>2, <1>3 DEF IsFree, Has
  <2> QED  BY <2>1, <2>2
<1>5. Has(r, h, "has") /\ (~ IsHead(e) => r[h].next = e)
  <2>1. "has" \in r[h].flags
    BY <1>1, <1>3
  <2> QED  BY <2>1, <1>1, <1>3 DEF Has
<1>6. \A x \in Entries : IsHead(x) /\ x[1] = e[1] => x = h
  BY DEF IsHead
<1>7. n = NULL \/ (n \in Entries /\ ~ IsHead(n) /\ n[1] = e[1] /\ IsFree(t, n) /\ t[n].prev \in {h, NULL} /\ n # e)
  BY <1>2, <1>3
<1>8. \A x \in Entries :
        /\ r[x].next = IF e # h /\ x = h THEN e ELSE IF e # h /\ has /\ x = e THEN n ELSE t[x].next
        /\ r[x].prev = IF has /\ x = n THEN e ELSE IF e # h /\ has /\ x = e THEN hp ELSE t[x].prev
  BY <1>1
<1>9. t[h].next = n /\ (e # h => t[e].next = NULL /\ t[e].prev = NULL) /\ hp \in {h, NULL}
  BY <1>2, <1>3
<1>10. \A x \in Entries : x[1] = e[1] => LvlTable(x[1]) = h
  OBVIOUS
<1> HIDE DEF n, h, has, hp
<1>11. ASSUME NEW x \in Entries, IsFree(r, x) \/ IsHead(x), r[x].next # NULL
       PROVE  /\ r[x].next \in Entries /\ ~ IsHead(r[x].next) /\ r[x].next[1] = x[1]
              /\ IsFree(r, r[x].next)
              /\ r[r[x].next].prev = x \/ (IsHead(x) /\ r[r[x].next].prev = NULL)
  <2>1. CASE x = h /\ e # h
    <3>1. r[x].next = e
      BY <2>1, <1>8
    <3>2. r[e].prev = h \/ r[e].prev = NULL
      BY <2>1, <1>3, <1>7, <1>8, <1>9
    <3> QED  BY <3>1, <3>2, <2>1, <1>3, <1>4
  <2>2. CASE x = e /\ e # h
    <3>1. has /\ r[x].next = n /\ n # NULL
      BY <2>2, <1>8, <1>9, <1>11
    <3>2. r[n].prev = e
      BY <3>1, <1>7, <1>8
    <3> QED  BY <3>1, <3>2, <2>2, <1>4, <1>7
  <2>3. CASE x = e /\ e = h
    <3>1. r[x].next = n /\ n # NULL
      BY <2>3, <1>8, <1>9, <1>11
    <3>2. r[n].prev = h \/ r[n].prev = NULL
      BY <3>1, <1>7, <1>8, <2>3
    <3> QED  BY <3>1, <3>2, <2>3, <1>3, <1>4, <1>7
  <2>4. CASE x # e /\ x # h
    <3> DEFINE m == t[x].next
    <3>1. r[x].next = m /\ m # NULL
      BY <2>4, <1>8, <1>11
    <3>2. /\ m \in Entries /\ ~ IsHead(m) /\ m[1] = x[1] /\ IsFree(t, m) /\ m # e
          /\ t[m].prev = x \/ (IsHead(x) /\ t[m].prev = NULL)
      BY <3>1, <1>2, <1>4, <1>11, <2>4
    <3> HIDE DEF m
    <3>3. m # n
      <4> SUFFICES ASSUME m = n PROVE FALSE
        OBVIOUS
      <4>1. x[1] = e[1] /\ t[m].prev \in {h, NULL}
        BY <1>7, <3>1, <3>2
      <4>2. ~ IsHead(x)
        BY <4>1, <1>6, <2>4
      <4> QED  BY <4>1, <4>2, <3>2, <1>3, <2>4
    <3>4. r[m].prev = t[m].prev
      BY <3>2, <3>3, <1>8
    <3> QED  BY <3>1, <3>2, <3>4, <1>4
  <2> QED  BY <2>1, <2>2, <2>3, <2>4
<1>12. ASSUME NEW x \in Entries, IsFree(r, x), ~ IsHead(x), r[x].prev # NULL, r[x].prev # LvlTable(x[1])
       PROVE  /\ r[x].prev \in Entries /\ r[x].prev[1] = x[1]
              /\ IsFree(r, r[x].prev) /\ r[r[x].prev].next = x
  <2>1. CASE has /\ x = n
    <3>1. r[x].prev = e /\ x[1] = e[1]
      BY <2>1, <1>3, <1>7, <1>8
    <3>2. e # h
      BY <3>1, <1>10, <1>12
    <3>3. r[e].next = x
      BY <3>2, <2>1, <1>8
    <3> QED  BY <3>1, <3>3, <1>4
  <2>2. CASE ~ (has /\ x = n) /\ x = e
    <3>1. r[x].prev = NULL \/ r[x].prev = h
      BY <2>2, <1>3, <1>8, <1>9, <1>12
    <3> QED  BY <3>1, <2>2, <1>10, <1>12
  <2>3. CASE ~ (has /\ x = n) /\ x # e
    <3>1. r[x].prev = t[x].prev /\ IsFree(t, x)
      BY <2>3, <1>4, <1>8, <1>12
    <3>2. /\ t[x].prev \in Entries /\ t[x].prev[1] = x[1]
          /\ IsFree(t, t[x].prev) /\ t[t[x].prev].next = x
      BY <3>1, <1>2, <1>12
    <3>3. t[x].prev # e /\ t[x].prev # h
      BY <3>1, <3>2, <1>3, <1>10, <1>12
    <3> QED  BY <3>1, <3>2, <3>3, <1>4, <1>8
  <2> QED  BY <2>1, <2>2, <2>3
<1>13. ASSUME NEW x \in Entries, ~ IsFree(r, x), ~ IsHead(x)
       PROVE  r[x].next = NULL /\ r[x].prev = NULL
  <2>1. ~ IsFree(t, x) /\ x # e /\ x # h /\ x # n /\ t[x].next = NULL /\ t[x].prev = NULL
    BY <1>2, <1>3, <1>4, <1>7, <1>13
  <2> QED  BY <2>1, <1>8
<1>14. \A x \in Entries : ~ (IsFree(r, x) /\ Has(r, x, "allocated"))
  BY <1>2, <1>4
<1>15. Chained(r)
  BY <1>1, <1>11, <1>12, <1>13, <1>14, ChainedIs
<1> QED  BY <1>1, <1>4, <1>5, <1>15 DEF Added, r, h

(* merge clears the flags of both halves.                                  *)
LEMMA Clears ==
    ASSUME NEW t \in Tables, Chained(t), NEW e1 \in Entries, NEW e2 \in Entries,
           ~ IsFree(t, e1), ~ IsFree(t, e2)
    PROVE  LET r == [t EXCEPT ![e1].flags = {}, ![e2].flags = {}]
           IN  /\ r \in Tables /\ Chained(r)
               /\ \A x \in Entries : /\ IsFree(r, x) <=> IsFree(t, x)
                                     /\ Has(r, x, "allocated") <=>
                                           Has(t, x, "allocated") /\ x # e1 /\ x # e2
<1> DEFINE t1 == SetFlags(t, e1, {})
           r == SetFlags(t1, e2, {})
<1>1. r = [t EXCEPT ![e1].flags = {}, ![e2].flags = {}]
  BY DEF SetFlags
<1>2. /\ t1 \in Tables
      /\ \A x \in Entries : /\ t1[x].flags = IF x = e1 THEN {} ELSE t[x].flags
                            /\ t1[x].next = t[x].next /\ t1[x].prev = t[x].prev
  BY StoreFlags
<1> HIDE DEF t1
<1>3. /\ r \in Tables
      /\ \A x \in Entries : /\ r[x].flags = IF x = e2 THEN {} ELSE t1[x].flags
                            /\ r[x].next = t1[x].next /\ r[x].prev = t1[x].prev
  <2>1. t1 \in Tables /\ {} \in SUBSET Flags
    BY <1>2
  <2> QED  BY <2>1, StoreFlags
<1> HIDE DEF r
<1>4. \A x \in Entries : /\ IsFree(r, x) <=> IsFree(t, x)
                         /\ Has(r, x, "allocated") <=> Has(t, x, "allocated") /\ x # e1 /\ x # e2
                         /\ r[x].next = t[x].next /\ r[x].prev = t[x].prev
  BY <1>2, <1>3 DEF IsFree, Has
<1>5. /\ \A x \in Entries : (IsFree(t, x) \/ IsHead(x)) /\ t[x].next # NULL =>
             /\ t[x].next \in Entries /\ ~ IsHead(t[x].next) /\ t[x].next[1] = x[1]
             /\ IsFree(t, t[x].next)
             /\ t[t[x].next].prev = x \/ (IsHead(x) /\ t[t[x].next].prev = NULL)
      /\ \A x \in Entries : IsFree(t, x) /\ ~ IsHead(x) /\ t[x].prev # NULL /\ t[x].prev # LvlTable(x[1]) =>
             /\ t[x].prev \in Entries /\ t[x].prev[1] = x[1]
             /\ IsFree(t, t[x].prev) /\ t[t[x].prev].next = x
      /\ \A x \in Entries : ~ IsFree(t, x) /\ ~ IsHead(x) => t[x].next = NULL /\ t[x].prev = NULL
      /\ \A x \in Entries : ~ (IsFree(t, x) /\ Has(t, x, "allocated"))
  BY ChainedIs
<1>6. ASSUME NEW x \in Entries, IsFree(r, x) \/ IsHead(x), r[x].next # NULL
      PROVE  /\ r[x].next \in Entries /\ ~ IsHead(r[x].next) /\ r[x].next[1] = x[1]
             /\ IsFree(r, r[x].next)
             /\ r[r[x].next].prev = x \/ (IsHead(x) /\ r[r[x].next].prev = NULL)
  BY <1>4, <1>5, <1>6
<1>7. ASSUME NEW x \in Entries, IsFree(r, x), ~ IsHead(x), r[x].prev # NULL, r[x].prev # LvlTable(x[1])
      PROVE  /\ r[x].prev \in Entries /\ r[x].prev[1] = x[1]
             /\ IsFree(r, r[x].prev) /\ r[r[x].prev].next = x
  BY <1>4, <1>5, <1>7
<1>8. \A x \in Entries : ~ IsFree(r, x) /\ ~ IsHead(x) => r[x].next = NULL /\ r[x].prev = NULL
  BY <1>4, <1>5
<1>9. \A x \in Entries : ~ (IsFree(r, x) /\ Has(r, x, "allocated"))
  BY <1>4, <1>5
<1>10. Chained(r)
  BY <1>3, <1>6, <1>7, <1>8, <1>9, ChainedIs
<1> QED  BY <1>1, <1>3, <1>4, <1>10
-----------------------------------------------------------------------------
(* The tables before and after a step.                                     *)
MarkedIn(t) == {e \in Entries : Has(t, e, "free") \/ Has(t, e, "allocated")}

(* A table whose chains are in order and whose blocks make up the heap.    *)
Sound(t) == t \in Tables /\ Chained(t) /\ Parts(MarkedIn(t))

LEMMA FreeOrAllocated ==
    ASSUME NEW t \in Tables, Chained(t)
    PROVE  \A x \in Entries : ~ (Has(t, x, "free") /\ Has(t, x, "allocated"))
BY ChainedIs DEF IsFree

LEMMA SplitTable ==
    ASSUME NEW t, Sound(t), NEW e \in Entries, Has(t, e, "free"), e[1] + 1 \in Levels,
           NEW r, r = AddEntry(AddEntry(RemoveEntry(t, e, {"splitup"}), Child(e, 0)), Child(e, 1))
    PROVE  /\ Sound(r)
           /\ \A x \in Entries :
                /\ Has(r, x, "free") <=> (Has(t, x, "free") /\ x # e) \/ x = Child(e, 0) \/ x = Child(e, 1)
                /\ Has(r, x, "allocated") <=> Has(t, x, "allocated")
                /\ x[1] # e[1] /\ x[1] # e[1] + 1 => r[x].flags = t[x].flags
           /\ Has(r, LvlTable(e[1] + 1), "has") /\ r[LvlTable(e[1] + 1)].next = Child(e, 1)
<1> DEFINE c0 == Child(e, 0)
           c1 == Child(e, 1)
           t1 == RemoveEntry(t, e, {"splitup"})
           t2 == AddEntry(t1, c0)
           h == LvlTable(e[1] + 1)
<1>1. /\ c0 \in Entries /\ c1 \in Entries /\ c0 # c1 /\ c0 # e /\ c1 # e
      /\ c0[1] = e[1] + 1 /\ c1[1] = e[1] + 1 /\ c1 # h
  <2>1. e[1] \in Nat
    BY EntryIs, Sizes
  <2> QED  BY <2>1, Children
<1>2. c0 \notin MarkedIn(t) /\ c1 \notin MarkedIn(t) /\ Parts((MarkedIn(t) \ {e}) \cup {c0, c1})
  <2>1. MarkedIn(t) \subseteq Entries /\ e \in MarkedIn(t)
    BY DEF MarkedIn
  <2> QED  BY <2>1, PartsSplit DEF Sound
<1> HIDE DEF c0, c1, h
<1>3. Removed(t, e, {"splitup"}, t1)
  BY Removes DEF Sound, IsFree
<1> HIDE DEF t1
<1>4. Added(t1, c0, t2)
  <2>1. t1 \in Tables /\ Chained(t1) /\ ~ IsFree(t1, c0)
    BY <1>1, <1>2, <1>3 DEF Removed, MarkedIn, IsFree
  <2> QED  BY <2>1, <1>1, Adds
<1> HIDE DEF t2
<1>5. Added(t2, c1, r)
  <2>1. t2 \in Tables /\ Chained(t2) /\ ~ IsFree(t2, c1)
    BY <1>1, <1>2, <1>3, <1>4 DEF Removed, Added, MarkedIn, IsFree
  <2>2. r = AddEntry(t2, c1)
    BY DEF t2, t1, c0, c1
  <2> QED  BY <2>1, <2>2, <1>1, Adds
<1>6. \A x \in Entries :
        /\ Has(r, x, "free") <=> (Has(t, x, "free") /\ x # e) \/ x = c0 \/ x = c1
        /\ Has(r, x, "allocated") <=> Has(t, x, "allocated")
        /\ x[1] # e[1] /\ x[1] # e[1] + 1 => r[x].flags = t[x].flags
  <2> SUFFICES ASSUME NEW x \in Entries
               PROVE  /\ Has(r, x, "free") <=> (Has(t, x, "free") /\ x # e) \/ x = c0 \/ x = c1
                      /\ Has(r, x, "allocated") <=> Has(t, x, "allocated")
                      /\ x[1] # e[1] /\ x[1] # e[1] + 1 => r[x].flags = t[x].flags
    OBVIOUS
  <2>1. /\ IsFree(t1, x) <=> IsFree(t, x) /\ x # e
        /\ Has(t1, x, "allocated") <=> Has(t, x, "allocated")
        /\ x[1] # e[1] => t1[x].flags = t[x].flags
    BY <1>3 DEF Removed
  <2>2. /\ IsFree(t2, x) <=> IsFree(t1, x) \/ x = c0
        /\ Has(t2, x, "allocated") <=> Has(t1, x, "allocated") /\ x # c0
        /\ x[1] # e[1] + 1 => t2[x].flags = t1[x].flags
    BY <1>1, <1>4 DEF Added
  <2>3. /\ IsFree(r, x) <=> IsFree(t2, x) \/ x = c1
        /\ Has(r, x, "allocated") <=> Has(t2, x, "allocated") /\ x # c1
        /\ x[1] # e[1] + 1 => r[x].flags = t2[x].flags
    BY <1>1, <1>5 DEF Added
  <2>4. x = c0 \/ x = c1 => ~ Has(t, x, "allocated")
    BY <1>2 DEF MarkedIn
  <2> QED  BY <2>1, <2>2, <2>3, <2>4 DEF IsFree
<1>7. MarkedIn(r) = (MarkedIn(t) \ {e}) \cup {c0, c1}
  <2>1. ~ Has(t, e, "allocated")
    BY FreeOrAllocated DEF Sound
  <2> QED  BY <1>1, <1>6, <2>1 DEF MarkedIn
<1>8. Sound(r)
  BY <1>2, <1>5, <1>7 DEF Sound, Added
<1>9. Has(r, h, "has") /\ r[h].next = c1
  <2>1. LvlTable(c1[1]) = h /\ ~ IsHead(c1)
    BY <1>1 DEF IsHead, h
  <2> QED  BY <2>1, <1>5 DEF Added
<1> QED  BY <1>6, <1>8, <1>9 DEF c0, c1, h

LEMMA MergeTable ==
    ASSUME NEW t, Sound(t), NEW e1 \in MarkedIn(t), e1[1] # 0, NEW e2, e2 = GetBuddy(e1), Has(t, e2, "free"),
           NEW r, r = AddEntry([RemoveEntry(RemoveEntry(t, e1, {}), e2, {})
                                   EXCEPT ![e1].flags = {}, ![e2].flags = {}], Parent(e1))
    PROVE  /\ Sound(r)
           /\ \A x \in Entries :
                /\ Has(r, x, "free") <=> (Has(t, x, "free") /\ x # e1 /\ x # e2) \/ x = Parent(e1)
                /\ Has(r, x, "allocated") <=> Has(t, x, "allocated") /\ x # e1
<1> DEFINE p == Parent(e1)
           t1 == RemoveEntry(t, e1, {})
           t2 == RemoveEntry(t1, e2, {})
           t3 == [t2 EXCEPT ![e1].flags = {}, ![e2].flags = {}]
<1>1. e1 \in Entries /\ e2 \in Entries /\ p \in Entries /\ e1 # e2 /\ p # e1 /\ p # e2 /\ e2 \in MarkedIn(t)
  <2>1. e1 \in Entries
    BY DEF MarkedIn
  <2>2. e1[1] \in Nat
    BY <2>1, EntryIs, Sizes
  <2>3. e2 \in Entries /\ e2[1] = e1[1] /\ e1 # e2
    BY <2>1, Buddies
  <2>4. p \in Entries /\ p[1] = e1[1] - 1
    BY <2>1, Parents
  <2> QED  BY <2>1, <2>2, <2>3, <2>4 DEF MarkedIn
<1>2. p \notin MarkedIn(t) /\ Parts((MarkedIn(t) \ {e1, e2}) \cup {p})
  <2>1. MarkedIn(t) \subseteq Entries /\ Parts(MarkedIn(t)) /\ GetBuddy(e1) \in MarkedIn(t)
    BY <1>1 DEF MarkedIn, Sound
  <2> QED  BY <2>1, PartsJoin
<1>3. ~ Has(t, e2, "allocated")
  BY <1>1, FreeOrAllocated DEF Sound
<1> HIDE DEF p
<1>4. /\ t1 \in Tables /\ Chained(t1)
      /\ \A x \in Entries : /\ IsFree(t1, x) <=> IsFree(t, x) /\ x # e1
                            /\ Has(t1, x, "allocated") <=> Has(t, x, "allocated")
  <2>1. CASE IsFree(t, e1)
    <3>1. Removed(t, e1, {}, t1)
      BY <2>1, <1>1, Removes DEF Sound
    <3> QED  BY <3>1 DEF Removed
  <2>2. CASE ~ IsFree(t, e1)
    <3>1. t1 = t
      BY <2>2, RemovesNothing
    <3> QED  BY <3>1, <2>2 DEF Sound
  <2> QED  BY <2>1, <2>2
<1> HIDE DEF t1
<1>5. /\ t2 \in Tables /\ Chained(t2)
      /\ \A x \in Entries : /\ IsFree(t2, x) <=> IsFree(t1, x) /\ x # e2
                            /\ Has(t2, x, "allocated") <=> Has(t1, x, "allocated")
  <2>1. t1 \in Tables /\ Chained(t1) /\ IsFree(t1, e2)
    BY <1>1, <1>4 DEF IsFree
  <2>2. Removed(t1, e2, {}, t2)
    BY <2>1, <1>1, Removes
  <2> HIDE DEF t2
  <2> QED  BY <2>2 DEF Removed
<1> HIDE DEF t2
<1>6. /\ t3 \in Tables /\ Chained(t3)
      /\ \A x \in Entries : /\ IsFree(t3, x) <=> IsFree(t2, x)
                            /\ Has(t3, x, "allocated") <=> Has(t2, x, "allocated") /\ x # e1 /\ x # e2
  <2>1. t2 \in Tables /\ Chained(t2) /\ ~ IsFree(t2, e1) /\ ~ IsFree(t2, e2)
    BY <1>1, <1>4, <1>5
  <2> QED  BY <2>1, <1>1, Clears
<1> HIDE DEF t3
<1>7. Added(t3, p, r)
  <2>1. t3 \in Tables /\ Chained(t3) /\ ~ IsFree(t3, p)
    BY <1>1, <1>2, <1>4, <1>5, <1>6 DEF MarkedIn, IsFree
  <2>2. r = AddEntry(t3, p)
    BY DEF t3, t2, t1, p
  <2> QED  BY <2>1, <2>2, <1>1, Adds
<1>8. \A x \in Entries :
        /\ Has(r, x, "free") <=> (Has(t, x, "free") /\ x # e1 /\ x # e2) \/ x = p
        /\ Has(r, x, "allocated") <=> Has(t, x, "allocated") /\ x # e1
  <2> SUFFICES ASSUME NEW x \in Entries
               PROVE  /\ Has(r, x, "free") <=> (Has(t, x, "free") /\ x # e1 /\ x # e2) \/ x = p
                      /\ Has(r, x, "allocated") <=> Has(t, x, "allocated") /\ x # e1
    OBVIOUS
  <2>1. /\ IsFree(r, x) <=> IsFree(t3, x) \/ x = p
        /\ Has(r, x, "allocated") <=> Has(t3, x, "allocated") /\ x # p
    BY <1>7 DEF Added
  <2>2. x = p \/ x = e2 => ~ Has(t, x, "allocated")
    BY <1>1, <1>2, <1>3 DEF MarkedIn
  <2> QED  BY <2>1, <2>2, <1>4, <1>5, <1>6 DEF IsFree
<1>9. MarkedIn(r) = (MarkedIn(t) \ {e1, e2}) \cup {p}
  BY <1>1, <1>3, <1>8 DEF MarkedIn
<1>10. Sound(r)
  BY <1>2, <1>7, <1>9 DEF Sound, Added
<1> QED  BY <1>8, <1>10 DEF p

LEMMA TakeTable ==
    ASSUME NEW t, Sound(t), NEW e \in Entries, Has(t, e, "free"), NEW r, r = RemoveEntry(t, e, {"allocated"})
    PROVE  /\ Sound(r)
           /\ \A x \in Entries : /\ Has(r, x, "free") <=> Has(t, x, "free") /\ x # e
                                 /\ Has(r, x, "allocated") <=> Has(t, x, "allocated") \/ x = e
<1>1. Removed(t, e, {"allocated"}, r)
  BY Removes DEF Sound, IsFree
<1>2. \A x \in Entries : /\ Has(r, x, "free") <=> Has(t, x, "free") /\ x # e
                         /\ Has(r, x, "allocated") <=> Has(t, x, "allocated") \/ x = e
  BY <1>1 DEF Removed, IsFree
<1>3. MarkedIn(r) = MarkedIn(t)
  BY <1>2 DEF MarkedIn
<1> QED  BY <1>1, <1>2, <1>3 DEF Sound, Removed

LEMMA FreeTable ==
    ASSUME NEW t, Sound(t), NEW e \in Entries, Has(t, e, "allocated"), NEW r, r = AddEntry(t, e)
    PROVE  /\ Sound(r)
           /\ \A x \in Entries : /\ Has(r, x, "free") <=> Has(t, x, "free") \/ x = e
                                 /\ Has(r, x, "allocated") <=> Has(t, x, "allocated") /\ x # e
<1>1. Added(t, e, r)
  <2>1. ~ IsFree(t, e)
    BY FreeOrAllocated DEF Sound, IsFree
  <2> QED  BY <2>1, Adds DEF Sound
<1>2. \A x \in Entries : /\ Has(r, x, "free") <=> Has(t, x, "free") \/ x = e
                         /\ Has(r, x, "allocated") <=> Has(t, x, "allocated") /\ x # e
  BY <1>1 DEF Added, IsFree
<1>3. MarkedIn(r) = MarkedIn(t)
  BY <1>2 DEF MarkedIn
<1> QED  BY <1>1, <1>2, <1>3 DEF Sound, Added

(* What heapAddressToEntry finds is allocated; inside the heap it is the   *)
(* block around the address.                                               *)
LEMMA FoundIsAllocated ==
    ASSUME NEW t, NEW a, HeapAddressToEntry(t, a) # NULL
    PROVE  /\ HeapAddressToEntry(t, a) \in Entries /\ Has(t, HeapAddressToEntry(t, a), "allocated")
           /\ \E l \in Levels : HeapAddressToEntry(t, a) = EntryAround(l, a)
<1> DEFINE found == {l \in Levels : EntryAround(l, a) \in Entries /\ Has(t, EntryAround(l, a), "allocated")}
           m == CHOOSE l \in found : \A k \in found : l <= k
<1>1. found # {} /\ HeapAddressToEntry(t, a) = EntryAround(m, a)
  BY DEF HeapAddressToEntry
<1>2. found \subseteq Nat
  BY Sizes
<1>3. \E l \in found : \A k \in found : l <= k
  <2> HIDE DEF found
  <2> QED  BY <1>1, <1>2, Least
<1>4. m \in found
  BY <1>3
<1> HIDE DEF m
<1> QED  BY <1>1, <1>4

LEMMA FoundAround ==
    ASSUME NEW t, Sound(t), NEW a \in 0 .. (HeapSize - 1)
    PROVE  /\ HeapAddressToEntry(t, a) # NULL => a \in Units(HeapAddressToEntry(t, a))
           /\ \A f \in Entries : Has(t, f, "allocated") /\ a \in Units(f) => HeapAddressToEntry(t, a) = f
<1> DEFINE e == HeapAddressToEntry(t, a)
<1>1. e # NULL => e \in Entries /\ Has(t, e, "allocated") /\ a \in Units(e)
  BY FoundIsAllocated, Around
<1>2. ASSUME NEW f \in Entries, Has(t, f, "allocated"), a \in Units(f)
      PROVE  e = f
  <2>1. e # NULL
    <3> DEFINE found == {l \in Levels : EntryAround(l, a) \in Entries /\ Has(t, EntryAround(l, a), "allocated")}
    <3>1. f[1] \in Levels
      BY EntryIs
    <3>2. f = EntryAround(f[1], a)
      BY <3>1, <1>2, Around
    <3>3. f[1] \in found
      BY <3>1, <3>2, <1>2
    <3>4. found \subseteq Nat
      BY Sizes
    <3>5. \E l \in found : \A k \in found : l <= k
      <4> HIDE DEF found
      <4> QED  BY <3>3, <3>4, Least
    <3>6. (CHOOSE l \in found : \A k \in found : l <= k) \in found
      BY <3>5
    <3>7. e = EntryAround(CHOOSE l \in found : \A k \in found : l <= k, a)
      BY <3>3 DEF HeapAddressToEntry
    <3>8. e \in Entries
      BY <3>6, <3>7
    <3> QED  BY <3>8, NullAssumption
  <2> HIDE DEF e
  <2>2. e \in MarkedIn(t) /\ f \in MarkedIn(t) /\ MarkedIn(t) \subseteq Entries
    BY <1>1, <1>2, <2>1 DEF MarkedIn
  <2> QED  BY <2>1, <2>2, <1>1, <1>2, PartsMeet DEF Sound
<1> QED  BY <1>1, <1>2

(* What is allocated, and whose free is not under way, is what is held.    *)
Pairs(O, H) == {<<HeapAddress(e), blockSize[e[1]]>> : e \in O} = {<<b[1], ToNextLvl(b[2])>> : b \in H}

LEMMA FindsOwn ==
    ASSUME NEW t, Sound(t), NEW O, O \subseteq {e \in Entries : Has(t, e, "allocated")},
           NEW H, Pairs(O, H), NEW b \in H
    PROVE  /\ HeapAddressToEntry(t, b[1]) \in O
           /\ HeapAddress(HeapAddressToEntry(t, b[1])) = b[1]
           /\ blockSize[HeapAddressToEntry(t, b[1])[1]] = ToNextLvl(b[2])
<1>1. PICK e \in O : <<b[1], ToNextLvl(b[2])>> = <<HeapAddress(e), blockSize[e[1]]>>
  BY DEF Pairs
<1>2. e \in Entries /\ Has(t, e, "allocated") /\ HeapAddress(e) = b[1]
  BY <1>1
<1>3. b[1] \in 0 .. (HeapSize - 1) /\ b[1] \in Units(e)
  BY <1>2, UnitsAre
<1>4. HeapAddressToEntry(t, b[1]) = e
  BY <1>2, <1>3, FoundAround
<1> QED  BY <1>1, <1>4

(* The inductive invariant in the terms of the lemmas.                     *)
OwnedBy(t, o) == {e \in Entries : Has(t, e, "allocated")} \ (IF o.pc = "merge" THEN {o.block1} ELSE {})

LEMMA TakeApart ==
    ASSUME BuddyInv
    PROVE  /\ TypeOK /\ Sound(table) /\ CallFinds /\ OnePair
           /\ ~ astray => Pairs(OwnedBy(table, op), held) /\ HeldOnce
<1>1. TypeOK /\ BlocksPartitionHeap /\ Chained(table) /\ CallFinds /\ OnePair
  BY DEF BuddyInv, HeapInv
<1>2. Parts(MarkedIn(table))
  <2>1. MarkedIn(table) \subseteq Entries
    BY DEF MarkedIn
  <2>2. \A u \in 0 .. (HeapSize - 1) : Cardinality({e \in MarkedIn(table) : u \in Units(e)}) = 1
    BY <1>1 DEF BlocksPartitionHeap, Marked, MarkedIn
  <2> QED  BY <2>1, <2>2, PartsCount
<1>3. Sound(table)
  BY <1>1, <1>2 DEF Sound, TypeOK
<1>4. ~ astray => Pairs(OwnedBy(table, op), held) /\ HeldOnce
  <2>1. Owned = OwnedBy(table, op)
    BY DEF Owned, OwnedBy, Allocated
  <2> QED  BY <2>1 DEF BuddyInv, HeapInv, FreeFindsOwnBlock, Pairs
<1> QED  BY <1>1, <1>3, <1>4

LEMMA PutTogether ==
    ASSUME TypeOK', Sound(table'), CallFinds', OnePair',
           ~ astray' => Pairs(OwnedBy(table', op'), held') /\ HeldOnce'
    PROVE  BuddyInv'
<1>1. BlocksPartitionHeap'
  <2>1. MarkedIn(table') \subseteq Entries
    BY DEF MarkedIn
  <2>2. \A u \in 0 .. (HeapSize - 1) : Cardinality({e \in MarkedIn(table') : u \in Units(e)}) = 1
    BY <2>1, PartsCount DEF Sound
  <2>3. Marked' = MarkedIn(table')
    BY DEF Marked, MarkedIn, Has
  <2> QED  BY <2>2, <2>3 DEF BlocksPartitionHeap
<1>2. ~ astray' => FreeFindsOwnBlock'
  <2> SUFFICES ASSUME ~ astray' PROVE FreeFindsOwnBlock'
    OBVIOUS
  <2>1. Owned' = OwnedBy(table', op')
    BY DEF Owned, OwnedBy, Allocated, Has
  <2>2. OwnedBy(table', op') \subseteq {e \in Entries : Has(table', e, "allocated")}
    BY DEF OwnedBy
  <2>3. \A b \in held' : /\ HeapAddressToEntry(table', b[1]) \in OwnedBy(table', op')
                         /\ HeapAddress(HeapAddressToEntry(table', b[1])) = b[1]
    BY <2>2, FindsOwn
  <2>4. Pairs(OwnedBy(table', op'), held')
    OBVIOUS
  <2>5. {<<HeapAddress(e), blockSize[e[1]]>> : e \in Owned'} = {<<b[1], ToNextLvl(b[2])>> : b \in held'}
    BY <2>1, <2>4 DEF Pairs
  <2>6. \A b \in held' : HeapAddressToEntry(table', b[1]) \in Owned' /\ HeapAddress(HeapAddressToEntry(table', b[1])) = b[1]
    BY <2>1, <2>3
  <2> QED  BY <2>5, <2>6 DEF FreeFindsOwnBlock
<1> QED  BY <1>1, <1>2 DEF BuddyInv, HeapInv, Sound

-----------------------------------------------------------------------------
(* The steps.                                                              *)
Usable(t, l) == Has(t, LvlTable(l), "free") \/ Has(t, LvlTable(l), "has")

LEMMA FreeLvlTops ==
    ASSUME NEW t, NEW s \in Levels, \E l \in 0 .. s : Usable(t, l)
    PROVE  /\ FreeLvl(t, s) \in 0 .. s /\ Usable(t, FreeLvl(t, s))
           /\ \A k \in 0 .. s : Usable(t, k) => k <= FreeLvl(t, s)
<1> DEFINE usable == {l \in 0 .. s : Has(t, LvlTable(l), "free") \/ Has(t, LvlTable(l), "has")}
           D == {s - l : l \in usable}
           f == CHOOSE l \in usable : \A k \in usable : k <= l
<1>1. s \in Nat /\ s < MaxLvl /\ MaxLvl \in Nat
  BY Sizes
<1>2. usable # {} /\ FreeLvl(t, s) = f
  BY DEF FreeLvl, Usable
<1>3. D # {} /\ D \subseteq Nat
  BY <1>1, <1>2
<1>4. PICK d \in D : \A c \in D : d <= c
  <2> HIDE DEF D
  <2> QED  BY <1>3, Least
<1>5. PICK l \in usable : d = s - l
  OBVIOUS
<1>6. \A k \in usable : k <= l
  <2> SUFFICES ASSUME NEW k \in usable PROVE k <= l
    OBVIOUS
  <2>1. s - k \in D /\ k \in Int /\ l \in Int
    OBVIOUS
  <2>2. s - l <= s - k
    BY <2>1, <1>4, <1>5
  <2> QED  BY <2>1, <2>2, <1>1
<1>7. f \in usable /\ \A k \in usable : k <= f
  BY <1>6
<1> HIDE DEF f
<1> QED  BY <1>2, <1>7 DEF Usable

LEMMA FreeLvlIs ==
    ASSUME NEW t, NEW s \in Levels, ~ (FreeLvl(t, s) < 0)
    PROVE  /\ FreeLvl(t, s) \in Levels /\ FreeLvl(t, s) <= s /\ Usable(t, FreeLvl(t, s))
           /\ \A k \in (FreeLvl(t, s) + 1) .. s : ~ Has(t, LvlTable(k), "free") /\ ~ Has(t, LvlTable(k), "has")
<1> DEFINE f == FreeLvl(t, s)
<1>1. s \in Nat /\ s < MaxLvl /\ MaxLvl \in Nat
  BY Sizes
<1>2. \E l \in 0 .. s : Usable(t, l)
  BY DEF FreeLvl, Usable
<1>3. f \in 0 .. s /\ Usable(t, f) /\ \A k \in 0 .. s : Usable(t, k) => k <= f
  BY <1>2, FreeLvlTops
<1> HIDE DEF f
<1>4. f \in Levels /\ f <= s /\ f \in Nat
  BY <1>1, <1>3 DEF Levels
<1>5. ASSUME NEW k \in (f + 1) .. s PROVE ~ Has(t, LvlTable(k), "free") /\ ~ Has(t, LvlTable(k), "has")
  <2>1. k \in 0 .. s /\ ~ (k <= f)
    BY <1>1, <1>4
  <2> QED  BY <2>1, <1>3 DEF Usable
<1> QED  BY <1>3, <1>4, <1>5 DEF f

LEMMA FindLvlIs ==
    ASSUME NEW n, ~ (FindLvlForBlock(n) < 0)
    PROVE  FindLvlForBlock(n) \in Levels /\ blockSize[FindLvlForBlock(n)] = n
BY DEF FindLvlForBlock

(* The entry at the front of a level, which getFreeEntry and splitEntryUp  *)
(* take, is free.                                                          *)
Front(t, l) == IF Has(t, LvlTable(l), "free") THEN LvlTable(l) ELSE t[LvlTable(l)].next

LEMMA FrontIsFree ==
    ASSUME NEW t, Sound(t), NEW l \in Levels
    PROVE  Front(t, l) = NULL \/ (Front(t, l) \in Entries /\ Front(t, l)[1] = l /\ Has(t, Front(t, l), "free"))
<1> DEFINE h == LvlTable(l)
<1>1. h \in Entries /\ h[1] = l /\ IsHead(h)
  BY EntryIs, Sizes DEF LvlTable, IsHead
<1>2. t \in Tables /\ Chained(t)
  BY DEF Sound
<1>3. t[h].next = NULL \/ (t[h].next \in Entries /\ t[h].next[1] = h[1] /\ IsFree(t, t[h].next))
  BY <1>1, <1>2, ChainedIs
<1> HIDE DEF h
<1> QED  BY <1>1, <1>3 DEF Front, IsFree, h

LEMMA AllocStep == ASSUME BuddyInv, NEW n \in Requests, KzallocBuddy(n) PROVE BuddyInv'
<1> DEFINE s == FindLvlForBlock(ToNextLvl(n))
           f == FreeLvl(table, s)
           x == IF f = s THEN GetFreeEntry(table, s) ELSE NULL
<1>1. /\ TypeOK /\ Sound(table) /\ CallFinds /\ OnePair
      /\ ~ astray => Pairs(OwnedBy(table, op), held) /\ HeldOnce
  BY TakeApart
<1>2. /\ ~ crashed /\ op = Idle
      /\ table' = table /\ held' = held /\ freed' = freed /\ astray' = astray /\ crashed' = crashed
  BY DEF KzallocBuddy
<1>3. Idle.pc = "idle"
  BY DEF Idle
<1>4. CASE op' = op
  <2>1. TypeOK'
    BY <1>1, <1>2, <1>4 DEF TypeOK
  <2>2. CallFinds'
    BY <1>2, <1>3, <1>4 DEF CallFinds
  <2>3. OnePair'
    BY <1>1, <1>2, <1>3, <1>4 DEF OnePair, Doomed, InHand, Has
  <2>4. Sound(table') /\ (~ astray' => Pairs(OwnedBy(table', op'), held') /\ HeldOnce')
    BY <1>1, <1>2, <1>4 DEF HeldOnce
  <2> QED  BY <2>1, <2>2, <2>3, <2>4, PutTogether
<1>5. CASE ~ (s < 0) /\ ~ (f < 0)
           /\ op' = [pc |-> "alloc", size |-> n, lvl |-> f, endLvl |-> s, entry |-> x]
  <2>1. s \in Levels /\ blockSize[s] = ToNextLvl(n)
    BY <1>5, FindLvlIs
  <2> HIDE DEF s
  <2>2. /\ f \in Levels /\ f <= s
        /\ \A k \in (f + 1) .. s : ~ Has(table, LvlTable(k), "free") /\ ~ Has(table, LvlTable(k), "has")
    BY <1>5, <2>1, FreeLvlIs
  <2> HIDE DEF f
  <2>3. x = NULL \/ (f = s /\ x \in Entries /\ x[1] = s /\ Has(table, x, "free"))
    <3>1. GetFreeEntry(table, s) \in {NULL, Front(table, s)}
      BY DEF GetFreeEntry, Front
    <3> QED  BY <3>1, <1>1, <2>1, FrontIsFree
  <2> HIDE DEF x
  <2>4. /\ op'.pc = "alloc" /\ op'.size = n /\ op'.lvl = f /\ op'.endLvl = s /\ op'.entry = x
    BY <1>5
  <2>5. TypeOK'
    <3>1. op' \in [pc : {"alloc"}, size : Requests, lvl : Levels, endLvl : Levels, entry : Entries \cup {NULL}]
      BY <1>5, <2>1, <2>2, <2>3
    <3> QED  BY <1>1, <1>2, <3>1 DEF TypeOK, Calls
  <2>6. CallFinds'
    <3>1. x # NULL => ~ (f < s)
      BY <2>1, <2>2, <2>3, Sizes
    <3> QED  BY <1>2, <2>1, <2>2, <2>3, <2>4, <3>1 DEF CallFinds, Has
  <2>7. OnePair'
    <3>1. \A e \in Entries : ~ (e[1] > 0 /\ Has(table, e, "free") /\ Has(table, GetBuddy(e), "free"))
      BY <1>1, <1>2, <1>3 DEF OnePair, Doomed, InHand
    <3> QED  BY <3>1, <1>2 DEF OnePair, Has
  <2>8. OwnedBy(table', op') = OwnedBy(table, op)
    BY <1>2, <1>3, <2>4 DEF OwnedBy
  <2>9. Sound(table') /\ (~ astray' => Pairs(OwnedBy(table', op'), held') /\ HeldOnce')
    BY <1>1, <1>2, <2>8 DEF HeldOnce
  <2> QED  BY <2>5, <2>6, <2>7, <2>9, PutTogether
<1> QED  BY <1>4, <1>5 DEF KzallocBuddy

LEMMA CallIs ==
    ASSUME TypeOK
    PROVE  /\ op.pc = "alloc" => /\ op \in [pc : {"alloc"}, size : Requests, lvl : Levels, endLvl : Levels,
                                            entry : Entries \cup {NULL}]
                                 /\ op.size \in Requests /\ op.lvl \in Levels /\ op.endLvl \in Levels
                                 /\ op.entry \in Entries \cup {NULL}
           /\ op.pc = "merge" => op.block1 \in Entries /\ op.block2 \in Entries
BY DEF TypeOK, Calls, Idle

(* A call that stops short has changed nothing.                            *)
LEMMA CrashStep == ASSUME BuddyInv, op.pc = "alloc", Crash PROVE BuddyInv'
<1>1. /\ TypeOK /\ Sound(table) /\ CallFinds /\ OnePair
      /\ ~ astray => Pairs(OwnedBy(table, op), held) /\ HeldOnce
  BY TakeApart
<1>2. /\ op' = Idle /\ crashed' = TRUE
      /\ table' = table /\ held' = held /\ freed' = freed /\ astray' = astray
  BY DEF Crash
<1>3. Idle.pc = "idle"
  BY DEF Idle
<1>4. TypeOK'
  BY <1>1, <1>2 DEF TypeOK, Calls
<1>5. CallFinds'
  BY <1>2, <1>3 DEF CallFinds
<1>6. OnePair'
  BY <1>2 DEF OnePair, Doomed
<1>7. OwnedBy(table', op') = OwnedBy(table, op)
  BY <1>2, <1>3 DEF OwnedBy
<1>8. Sound(table') /\ (~ astray' => Pairs(OwnedBy(table', op'), held') /\ HeldOnce')
  BY <1>1, <1>2, <1>7 DEF HeldOnce
<1> QED  BY <1>4, <1>5, <1>6, <1>8, PutTogether

LEMMA SplitStep == ASSUME BuddyInv, SplitEntryUp PROVE BuddyInv'
<1> DEFINE l == op.lvl
           h == LvlTable(l)
           e == Front(table, l)
<1>1. /\ TypeOK /\ Sound(table) /\ CallFinds /\ OnePair
      /\ ~ astray => Pairs(OwnedBy(table, op), held) /\ HeldOnce
  BY TakeApart
<1>2. op.pc = "alloc" /\ l < op.endLvl
  BY DEF SplitEntryUp
<1>3. /\ op \in [pc : {"alloc"}, size : Requests, lvl : Levels, endLvl : Levels, entry : Entries \cup {NULL}]
      /\ l \in Levels /\ op.endLvl \in Levels /\ op.entry \in Entries \cup {NULL} /\ op.size \in Requests
  BY <1>1, <1>2, CallIs
<1>4. l \in Nat /\ op.endLvl \in Nat /\ op.endLvl < MaxLvl /\ MaxLvl \in Nat /\ l + 1 \in Levels
  BY <1>2, <1>3, Sizes DEF Levels
<1>5. ASSUME NEW x, op' = [op EXCEPT !.lvl = l + 1, !.entry = x]
      PROVE  op'.pc = "alloc" /\ op'.size = op.size /\ op'.lvl = l + 1 /\ op'.endLvl = op.endLvl /\ op'.entry = x
  BY <1>3, <1>5
<1>6. e = NULL \/ (e \in Entries /\ e[1] = l /\ Has(table, e, "free"))
  BY <1>1, <1>3, FrontIsFree
<1>7. \/ Crash
      \/ /\ op' = [op EXCEPT !.lvl = l + 1, !.entry = NULL]
         /\ UNCHANGED <<table, held, answer, freed, astray, crashed>>
         /\ l + 2 = MaxLvl \/ (~ Has(table, h, "free") /\ ~ Has(table, h, "has"))
      \/ /\ e # NULL
         /\ table' = AddEntry(AddEntry(RemoveEntry(table, e, {"splitup"}), Child(e, 0)), Child(e, 1))
         /\ op' = [op EXCEPT !.lvl = l + 1, !.entry = Child(e, 0)]
         /\ UNCHANGED <<held, answer, freed, astray, crashed>>
  BY DEF SplitEntryUp, Front
<1> HIDE DEF l, e
<1>8. CASE Crash
  BY <1>2, <1>8, CrashStep
<1>9. CASE /\ op' = [op EXCEPT !.lvl = l + 1, !.entry = NULL]
           /\ UNCHANGED <<table, held, answer, freed, astray, crashed>>
           /\ l + 2 = MaxLvl \/ (~ Has(table, h, "free") /\ ~ Has(table, h, "has"))
  <2>1. op'.pc = "alloc" /\ op'.size = op.size /\ op'.lvl = l + 1 /\ op'.endLvl = op.endLvl /\ op'.entry = NULL
    BY <1>5, <1>9
  <2>2. TypeOK'
    <3>1. op' \in [pc : {"alloc"}, size : Requests, lvl : Levels, endLvl : Levels, entry : Entries \cup {NULL}]
      BY <1>3, <1>4, <1>9
    <3> QED  BY <3>1, <1>1, <1>9 DEF TypeOK, Calls
  <2>3. CallFinds'
    <3>1. l + 1 <= op.endLvl /\ \A k \in (l + 2) .. op.endLvl : k \in (l + 1) .. op.endLvl
      BY <1>2, <1>4 DEF l
    <3>2. \A k \in (l + 1) .. op.endLvl : ~ Has(table, LvlTable(k), "free") /\ ~ Has(table, LvlTable(k), "has")
      BY <1>1, <1>2 DEF CallFinds, l
    <3>3. blockSize[op.endLvl] = ToNextLvl(op.size) /\ (l + 1) + 1 = l + 2
      BY <1>1, <1>2, <1>4 DEF CallFinds
    <3> QED  BY <2>1, <3>1, <3>2, <3>3, <1>9 DEF CallFinds, Has
  <2>4. OnePair'
    <3>1. CASE l + 2 = MaxLvl
      <4>1. l + 1 = op.endLvl
        BY <3>1, <1>2, <1>4 DEF l
      <4> QED  BY <4>1, <2>1 DEF OnePair, Doomed
    <3>2. CASE ~ Has(table, h, "free") /\ ~ Has(table, h, "has")
      <4>1. op.entry = NULL
        BY <3>2, <1>1, <1>2 DEF CallFinds, h, l
      <4>2. CASE crashed
        BY <4>2, <1>9 DEF OnePair, Doomed
      <4>3. CASE ~ crashed
        <5>1. ~ Doomed /\ InHand = {NULL}
          BY <4>1, <4>3, <1>2, <1>3, <1>4 DEF Doomed, InHand, l
        <5>2. \A x \in Entries : ~ (x[1] > 0 /\ Has(table, x, "free") /\ Has(table, GetBuddy(x), "free"))
          BY <5>1, <1>1, NullAssumption DEF OnePair
        <5> QED  BY <5>2, <1>9 DEF OnePair, Has
      <4> QED  BY <4>2, <4>3
    <3> QED  BY <3>1, <3>2, <1>9
  <2>5. OwnedBy(table', op') = OwnedBy(table, op)
    BY <1>2, <1>9, <2>1 DEF OwnedBy
  <2>6. Sound(table') /\ (~ astray' => Pairs(OwnedBy(table', op'), held') /\ HeldOnce')
    BY <1>1, <1>9, <2>5 DEF HeldOnce
  <2> QED  BY <2>2, <2>3, <2>4, <2>6, PutTogether
<1>10. CASE /\ e # NULL
            /\ table' = AddEntry(AddEntry(RemoveEntry(table, e, {"splitup"}), Child(e, 0)), Child(e, 1))
            /\ op' = [op EXCEPT !.lvl = l + 1, !.entry = Child(e, 0)]
            /\ UNCHANGED <<held, answer, freed, astray, crashed>>
  <2> DEFINE c0 == Child(e, 0)
             c1 == Child(e, 1)
             k == LvlTable(l + 1)
  <2>1. e \in Entries /\ e[1] = l /\ Has(table, e, "free")
    BY <1>6, <1>10
  <2>2. /\ c0 \in Entries /\ c1 \in Entries /\ c0[1] = l + 1 /\ c1[1] = l + 1
        /\ GetBuddy(c0) = c1 /\ GetBuddy(c1) = c0
    <3>1. e[1] + 1 \in Levels
      BY <2>1, <1>4
    <3> QED  BY <2>1, <3>1, Children, Buddies
  <2>3. /\ Sound(table')
        /\ \A x \in Entries :
             /\ Has(table', x, "free") <=> (Has(table, x, "free") /\ x # e) \/ x = c0 \/ x = c1
             /\ Has(table', x, "allocated") <=> Has(table, x, "allocated")
             /\ x[1] # l /\ x[1] # l + 1 => table'[x].flags = table[x].flags
        /\ Has(table', k, "has") /\ table'[k].next = c1
    <3>1. e[1] + 1 \in Levels
      BY <2>1, <1>4
    <3> QED  BY <2>1, <3>1, <1>1, <1>10, SplitTable
  <2> HIDE DEF c0, c1
  <2>4. op'.pc = "alloc" /\ op'.size = op.size /\ op'.lvl = l + 1 /\ op'.endLvl = op.endLvl /\ op'.entry = c0
    BY <1>5, <1>10 DEF c0
  <2>5. TypeOK'
    <3>1. op' \in [pc : {"alloc"}, size : Requests, lvl : Levels, endLvl : Levels, entry : Entries \cup {NULL}]
      BY <1>3, <1>4, <1>10, <2>2 DEF c0
    <3>2. table' \in Tables
      BY <2>3 DEF Sound
    <3> QED  BY <3>1, <3>2, <1>1, <1>10 DEF TypeOK, Calls
  <2>6. c0 # NULL
    BY <2>2, NullAssumption
  <2>7. InHand' = {c0, c1}
    BY <2>2, <2>4, <2>6 DEF InHand
  <2>8. \A m \in (l + 1) .. op.endLvl : ~ Has(table, LvlTable(m), "free") /\ ~ Has(table, LvlTable(m), "has")
    BY <1>1, <1>2 DEF CallFinds, l
  <2>9. CallFinds'
    <3>1. l + 1 <= op.endLvl
      BY <1>2, <1>4 DEF l
    <3>2. ASSUME NEW m \in (l + 2) .. op.endLvl
          PROVE  ~ Has(table', LvlTable(m), "free") /\ ~ Has(table', LvlTable(m), "has")
      <4>1. m \in (l + 1) .. op.endLvl /\ m # l /\ m # l + 1 /\ m \in Levels
        BY <1>4 DEF Levels
      <4>2. LvlTable(m) \in Entries /\ LvlTable(m)[1] = m
        BY <4>1, EntryIs, Sizes DEF LvlTable
      <4>3. table'[LvlTable(m)].flags = table[LvlTable(m)].flags
        BY <4>1, <4>2, <2>3
      <4> QED  BY <4>1, <4>3, <2>8 DEF Has
    <3>3. blockSize[op.endLvl] = ToNextLvl(op.size) /\ (l + 1) + 1 = l + 2
      BY <1>1, <1>2, <1>4 DEF CallFinds
    <3>4. Has(table', c0, "free")
      BY <2>2, <2>3
    <3>5. (IF Has(table', k, "free") THEN k ELSE table'[k].next) \in {c0, c1}
      <4>1. k \in Entries /\ ~ Has(table, k, "free")
        <5>1. l + 1 \in (l + 1) .. op.endLvl
          BY <1>4, <3>1
        <5>2. k \in Entries
          BY <1>4, EntryIs, Sizes DEF LvlTable
        <5> QED  BY <5>1, <5>2, <2>8
      <4>2. CASE Has(table', k, "free")
        BY <4>1, <4>2, <2>3
      <4>3. CASE ~ Has(table', k, "free")
        BY <4>3, <2>3
      <4> QED  BY <4>2, <4>3
    <3>6. op'.entry[1] = op'.lvl
      BY <2>2, <2>4
    <3> QED  BY <2>3, <2>4, <2>7, <3>1, <3>2, <3>3, <3>4, <3>5, <3>6 DEF CallFinds, Has
  <2>10. OnePair'
    <3>1. CASE crashed
      BY <3>1, <1>10 DEF OnePair, Doomed
    <3>2. CASE ~ crashed
      <4>1. ~ Doomed
        BY <3>2, <1>2, <1>4 DEF Doomed, l
      <4>2. op.entry = NULL \/ (op.entry \in Entries /\ InHand = {op.entry, GetBuddy(op.entry)} /\ e \in InHand)
        <5>1. CASE op.entry # NULL
          <6>1. op.entry \in Entries /\ InHand = {op.entry, GetBuddy(op.entry)}
            BY <5>1, <1>2, <1>3 DEF InHand
          <6>2. e \in InHand
            BY <5>1, <1>1, <1>2 DEF CallFinds, e, l, Front
          <6> QED  BY <6>1, <6>2
        <5> QED  BY <5>1
      <4>3. ASSUME NEW x \in Entries, x[1] > 0, Has(table', x, "free"), Has(table', GetBuddy(x), "free")
            PROVE  x \in {c0, c1}
        <5> SUFFICES ASSUME x # c0, x # c1 PROVE FALSE
          OBVIOUS
        <5> DEFINE y == GetBuddy(x)
        <5>1. y \in Entries /\ GetBuddy(y) = x /\ y # x
          BY Buddies
        <5>2. y # c0 /\ y # c1
          BY <5>1, <2>2
        <5>3. x # e /\ y # e /\ Has(table, x, "free") /\ Has(table, y, "free")
          BY <5>1, <5>2, <4>3, <2>3
        <5>4. x \in InHand /\ y \in InHand
          <6>1. y[1] > 0
            BY <4>3, Buddies
          <6> QED  BY <5>1, <5>3, <6>1, <4>1, <4>3, <1>1 DEF OnePair
        <5>5. CASE op.entry = NULL
          <6>1. InHand = {NULL}
            BY <5>5, <1>2 DEF InHand
          <6> QED  BY <6>1, <5>4, NullAssumption
        <5>6. CASE op.entry # NULL
          <6>1. x \in {op.entry, GetBuddy(op.entry)} /\ y \in {op.entry, GetBuddy(op.entry)} /\ e \in {op.entry, GetBuddy(op.entry)}
            BY <5>4, <5>6, <4>2
          <6> HIDE DEF y
          <6> QED  BY <6>1, <5>1, <5>3
        <5> QED  BY <5>5, <5>6
      <4> QED  BY <4>3, <2>7 DEF OnePair, Has
    <3> QED  BY <3>1, <3>2
  <2>11. OwnedBy(table', op') = OwnedBy(table, op)
    BY <1>2, <2>3, <2>4 DEF OwnedBy
  <2>12. ~ astray' => Pairs(OwnedBy(table', op'), held') /\ HeldOnce'
    BY <1>1, <1>10, <2>11 DEF HeldOnce
  <2> QED  BY <2>3, <2>5, <2>9, <2>10, <2>12, PutTogether
<1> QED  BY <1>7, <1>8, <1>9, <1>10

LEMMA TakeStep == ASSUME BuddyInv, TakeEntry PROVE BuddyInv'
<1> DEFINE e == op.entry
           n == op.size
           b == <<HeapAddress(e), n>>
<1>1. /\ TypeOK /\ Sound(table) /\ CallFinds /\ OnePair
      /\ ~ astray => Pairs(OwnedBy(table, op), held) /\ HeldOnce
  BY TakeApart
<1>2. op.pc = "alloc" /\ op.lvl = op.endLvl
  BY DEF TakeEntry
<1>3. /\ op.lvl \in Levels /\ op.endLvl \in Levels /\ e \in Entries \cup {NULL} /\ n \in Requests
  BY <1>1, <1>2, CallIs
<1>4. CASE e = NULL
  BY <1>2, <1>4, CrashStep DEF TakeEntry
<1>5. CASE e # NULL
  <2>1. /\ table' = RemoveEntry(table, e, {"allocated"}) /\ held' = held \cup {b} /\ op' = Idle
        /\ freed' = freed /\ astray' = astray /\ crashed' = crashed
    BY <1>5 DEF TakeEntry
  <2>2. e \in Entries /\ Has(table, e, "free") /\ blockSize[e[1]] = ToNextLvl(n)
    BY <1>1, <1>2, <1>3, <1>5 DEF CallFinds
  <2>3. InHand = {e, GetBuddy(e)}
    BY <1>2, <1>5 DEF InHand
  <2> HIDE DEF e, n
  <2>4. /\ Sound(table')
        /\ \A x \in Entries : /\ Has(table', x, "free") <=> Has(table, x, "free") /\ x # e
                              /\ Has(table', x, "allocated") <=> Has(table, x, "allocated") \/ x = e
    BY <2>1, <2>2, <1>1, TakeTable
  <2>5. HeapAddress(e) \in 0 .. (HeapSize - 1) /\ HeapAddress(e) \in Units(e)
    BY <2>2, UnitsAre
  <2>6. TypeOK'
    <3>1. table' \in Tables /\ op' \in Calls
      BY <2>1, <2>4 DEF Sound, Calls
    <3>2. held' \subseteq (0 .. (HeapSize - 1)) \X Requests
      BY <1>1, <1>3, <2>1, <2>5 DEF TypeOK
    <3> QED  BY <3>1, <3>2, <1>1, <2>1 DEF TypeOK
  <2>7. Idle.pc = "idle"
    BY DEF Idle
  <2>8. CallFinds'
    BY <2>1, <2>7 DEF CallFinds
  <2>9. OnePair'
    <3>1. CASE crashed
      BY <3>1, <2>1 DEF OnePair, Doomed
    <3>2. CASE ~ crashed
      <4>1. ~ Doomed
        BY <3>2, <1>5 DEF Doomed, e
      <4>2. ASSUME NEW x \in Entries, x[1] > 0, Has(table', x, "free"), Has(table', GetBuddy(x), "free")
            PROVE  FALSE
        <5> DEFINE y == GetBuddy(x)
        <5>1. y \in Entries /\ GetBuddy(y) = x /\ y # x
          BY Buddies
        <5>2. x # e /\ y # e /\ Has(table, x, "free") /\ Has(table, y, "free")
          BY <5>1, <4>2, <2>4
        <5>3. x \in {e, GetBuddy(e)}
          BY <5>2, <4>1, <4>2, <1>1, <2>3 DEF OnePair
        <5>4. GetBuddy(GetBuddy(e)) = e
          BY <2>2, Buddies
        <5> QED  BY <5>2, <5>3, <5>4
      <4> QED  BY <4>2 DEF OnePair, Has
    <3> QED  BY <3>1, <3>2
  <2>10. ASSUME ~ astray'
         PROVE  Pairs(OwnedBy(table', op'), held') /\ HeldOnce'
    <3> DEFINE O == OwnedBy(table, op)
    <3>1. Pairs(O, held) /\ HeldOnce
      BY <1>1, <2>1, <2>10
    <3>2. OwnedBy(table', op') = O \cup {e}
      BY <1>2, <2>1, <2>2, <2>4, <2>7 DEF OwnedBy
    <3>3. \A c \in held : c[1] # HeapAddress(e)
      <4> SUFFICES ASSUME NEW c \in held, c[1] = HeapAddress(e) PROVE FALSE
        OBVIOUS
      <4>1. PICK f \in O : <<c[1], ToNextLvl(c[2])>> = <<HeapAddress(f), blockSize[f[1]]>>
        BY <3>1 DEF Pairs
      <4>2. f \in Entries /\ Has(table, f, "allocated") /\ HeapAddress(f) = HeapAddress(e)
        BY <4>1 DEF OwnedBy
      <4>3. HeapAddress(e) \in Units(f)
        BY <4>2, UnitsAre
      <4>4. e \in MarkedIn(table) /\ f \in MarkedIn(table) /\ MarkedIn(table) \subseteq Entries
        BY <4>2, <2>2 DEF MarkedIn
      <4>5. e = f
        BY <4>3, <4>4, <2>5, <1>1, PartsMeet DEF Sound
      <4> QED  BY <4>2, <4>5, <2>2, <1>1, FreeOrAllocated DEF Sound
    <3>4. HeldOnce'
      BY <3>1, <3>3, <2>1 DEF HeldOnce
    <3> HIDE DEF O
    <3>5. Pairs(O \cup {e}, held \cup {b})
      <4>1. <<b[1], ToNextLvl(b[2])>> = <<HeapAddress(e), blockSize[e[1]]>>
        BY <2>2
      <4> HIDE DEF b
      <4> QED  BY <3>1, <4>1 DEF Pairs
    <3> QED  BY <3>2, <3>4, <3>5, <2>1
  <2> QED  BY <2>4, <2>6, <2>8, <2>9, <2>10, PutTogether
<1> QED  BY <1>4, <1>5

(* kzfreeBuddy of any address, as far as the tables go.                    *)
LEMMA FreeEffect ==
    ASSUME BuddyInv, NEW a \in Nat, KzfreeBuddy(a), held' \subseteq held, astray' \in BOOLEAN
    PROVE  /\ TypeOK' /\ Sound(table') /\ CallFinds' /\ OnePair' /\ op = Idle
           /\ \/ table' = table /\ op' = op /\ (a > HeapSize \/ HeapAddressToEntry(table, a) = NULL)
              \/ /\ HeapAddressToEntry(table, a) \in Entries /\ ~ (a > HeapSize)
                 /\ OwnedBy(table', op') = OwnedBy(table, op) \ {HeapAddressToEntry(table, a)}
<1> DEFINE e == HeapAddressToEntry(table, a)
           y == GetBuddy(e)
<1>1. TypeOK /\ Sound(table) /\ CallFinds /\ OnePair
  BY TakeApart
<1>2. /\ ~ crashed /\ op = Idle /\ crashed' = crashed /\ freed' \in BOOLEAN
  BY <1>1 DEF KzfreeBuddy, TypeOK
<1>3. Idle.pc = "idle"
  BY DEF Idle
<1>4. held' \subseteq (0 .. (HeapSize - 1)) \X Requests
  BY <1>1 DEF TypeOK
<1>5. \A x \in Entries : ~ (x[1] > 0 /\ Has(table, x, "free") /\ Has(table, GetBuddy(x), "free"))
  BY <1>1, <1>2, <1>3 DEF OnePair, Doomed, InHand
<1>6. CASE a > HeapSize \/ e = NULL
  <2>1. table' = table /\ op' = op
    BY <1>6 DEF KzfreeBuddy
  <2>2. TypeOK'
    BY <2>1, <1>1, <1>2, <1>4 DEF TypeOK
  <2>3. CallFinds'
    BY <2>1, <1>2, <1>3 DEF CallFinds
  <2>4. OnePair'
    BY <2>1, <1>5 DEF OnePair, Has
  <2> QED  BY <2>1, <2>2, <2>3, <2>4, <1>1, <1>2, <1>6
<1>7. CASE ~ (a > HeapSize \/ e = NULL)
  <2>1. e \in Entries /\ Has(table, e, "allocated")
    BY <1>7, FoundIsAllocated
  <2>2. \/ y[1] > 0 /\ Has(table, y, "free") /\ table' = table
             /\ op' = [pc |-> "merge", block1 |-> e, block2 |-> y]
        \/ ~ (y[1] > 0 /\ Has(table, y, "free")) /\ table' = AddEntry(table, e) /\ op' = op
    BY <1>7 DEF KzfreeBuddy
  <2> HIDE DEF e
  <2>3. y \in Entries /\ y[1] = e[1] /\ GetBuddy(y) = e /\ y # e
    BY <2>1, Buddies
  <2>4. CASE y[1] > 0 /\ Has(table, y, "free") /\ table' = table
             /\ op' = [pc |-> "merge", block1 |-> e, block2 |-> y]
    <3>1. op' \in [pc : {"merge"}, block1 : Entries, block2 : Entries]
      BY <2>1, <2>3, <2>4
    <3>2. op'.pc = "merge" /\ op'.block1 = e /\ op'.block2 = y
      BY <2>4
    <3>3. TypeOK'
      BY <3>1, <2>4, <1>1, <1>2, <1>4 DEF TypeOK, Calls
    <3>4. CallFinds'
      <4>1. e \in Marked' /\ e[1] # 0
        BY <2>1, <2>3, <2>4 DEF Marked, Has
      <4> QED  BY <3>2, <4>1, <2>4 DEF CallFinds, Has
    <3>5. OnePair'
      BY <2>4, <1>5 DEF OnePair, Has
    <3>6. OwnedBy(table', op') = OwnedBy(table, op) \ {e}
      BY <3>2, <2>4, <1>2, <1>3 DEF OwnedBy
    <3> QED  BY <3>3, <3>4, <3>5, <3>6, <2>1, <2>4, <1>1, <1>2, <1>7 DEF e
  <2>5. CASE ~ (y[1] > 0 /\ Has(table, y, "free")) /\ table' = AddEntry(table, e) /\ op' = op
    <3>1. /\ Sound(table')
          /\ \A x \in Entries : /\ Has(table', x, "free") <=> Has(table, x, "free") \/ x = e
                                /\ Has(table', x, "allocated") <=> Has(table, x, "allocated") /\ x # e
      BY <2>1, <2>5, <1>1, FreeTable
    <3>2. TypeOK'
      BY <3>1, <2>5, <1>1, <1>2, <1>4 DEF TypeOK, Sound
    <3>3. CallFinds'
      BY <2>5, <1>2, <1>3 DEF CallFinds
    <3>4. OnePair'
      <4>1. ASSUME NEW x \in Entries, x[1] > 0, Has(table', x, "free"), Has(table', GetBuddy(x), "free")
            PROVE  FALSE
        <5> DEFINE z == GetBuddy(x)
        <5>1. z \in Entries /\ GetBuddy(z) = x /\ z[1] = x[1] /\ z # x
          BY Buddies
        <5>2. x # e
          BY <5>1, <4>1, <3>1, <2>3, <2>5
        <5>3. z # e
          BY <5>1, <4>1, <3>1, <2>3, <2>5
        <5> QED  BY <5>1, <5>2, <5>3, <4>1, <3>1, <1>5
      <4> QED  BY <4>1 DEF OnePair, Has
    <3>5. OwnedBy(table', op') = OwnedBy(table, op) \ {e}
      BY <3>1, <2>5, <1>2, <1>3 DEF OwnedBy
    <3> QED  BY <3>1, <3>2, <3>3, <3>4, <3>5, <2>1, <1>2, <1>7 DEF e
  <2> QED  BY <2>2, <2>4, <2>5
<1> QED  BY <1>6, <1>7

LEMMA FreeHeldStep == ASSUME BuddyInv, NEW b \in held, FreeHeld(b) PROVE BuddyInv'
<1> DEFINE a == b[1]
           e == HeapAddressToEntry(table, a)
           O == OwnedBy(table, op)
<1>1. /\ TypeOK /\ Sound(table)
      /\ ~ astray => Pairs(O, held) /\ HeldOnce
  BY TakeApart
<1>2. KzfreeBuddy(a) /\ held' = held \ {b} /\ astray' = astray
  BY DEF FreeHeld
<1>3. a \in 0 .. (HeapSize - 1) /\ a \in Nat /\ HeapSize \in Nat
  <2>1. HeapSize \in Nat
    BY Sizes, LevelFills
  <2> QED  BY <2>1, <1>1 DEF TypeOK
<1>4. /\ TypeOK' /\ Sound(table') /\ CallFinds' /\ OnePair' /\ op = Idle
      /\ \/ table' = table /\ op' = op /\ (a > HeapSize \/ e = NULL)
         \/ /\ e \in Entries /\ ~ (a > HeapSize)
            /\ OwnedBy(table', op') = O \ {e}
  <2>1. astray' \in BOOLEAN /\ held' \subseteq held
    BY <1>1, <1>2 DEF TypeOK
  <2> HIDE DEF a
  <2> QED  BY <2>1, <1>2, <1>3, FreeEffect
<1>5. ASSUME ~ astray'
      PROVE  Pairs(OwnedBy(table', op'), held') /\ HeldOnce'
  <2>1. Pairs(O, held) /\ HeldOnce
    BY <1>1, <1>2, <1>5
  <2>2. O \subseteq {x \in Entries : Has(table, x, "allocated")}
    BY DEF OwnedBy
  <2>3. /\ e \in O /\ HeapAddress(e) = b[1] /\ blockSize[e[1]] = ToNextLvl(b[2])
    <3> HIDE DEF O
    <3> QED  BY <2>1, <2>2, <1>1, FindsOwn
  <2>4. e \in Entries /\ e # NULL
    BY <2>2, <2>3, NullAssumption
  <2>5. OwnedBy(table', op') = O \ {e}
    BY <2>4, <1>3, <1>4
  <2>6. HeldOnce'
    BY <2>1, <1>2 DEF HeldOnce
  <2>7. \A f \in O : HeapAddress(f) = HeapAddress(e) => f = e
    <3> SUFFICES ASSUME NEW f \in O, HeapAddress(f) = HeapAddress(e) PROVE f = e
      OBVIOUS
    <3>1. f \in Entries /\ f \in MarkedIn(table) /\ e \in MarkedIn(table) /\ MarkedIn(table) \subseteq Entries
      BY <2>2, <2>3 DEF MarkedIn
    <3>2. HeapAddress(e) \in Units(e) /\ HeapAddress(e) \in Units(f)
      BY <3>1, <2>4, UnitsAre
    <3> HIDE DEF e
    <3> QED  BY <3>1, <3>2, <1>1, PartsMeet DEF Sound
  <2> HIDE DEF O, e, a
  <2>8. Pairs(O \ {e}, held \ {b})
    <3>1. ASSUME NEW f \in O, f # e
          PROVE  \E c \in held \ {b} : <<HeapAddress(f), blockSize[f[1]]>> = <<c[1], ToNextLvl(c[2])>>
      <4>1. PICK c \in held : <<HeapAddress(f), blockSize[f[1]]>> = <<c[1], ToNextLvl(c[2])>>
        BY <2>1 DEF Pairs
      <4>2. c # b
        BY <4>1, <3>1, <2>3, <2>7
      <4> QED  BY <4>1, <4>2
    <3>2. ASSUME NEW c \in held, c # b
          PROVE  \E f \in O \ {e} : <<HeapAddress(f), blockSize[f[1]]>> = <<c[1], ToNextLvl(c[2])>>
      <4>1. PICK f \in O : <<HeapAddress(f), blockSize[f[1]]>> = <<c[1], ToNextLvl(c[2])>>
        BY <2>1 DEF Pairs
      <4>2. f # e
        BY <4>1, <3>2, <2>1, <2>3 DEF HeldOnce
      <4> QED  BY <4>1, <4>2
    <3> QED  BY <3>1, <3>2 DEF Pairs
  <2> QED  BY <2>5, <2>6, <2>8, <1>2
<1> QED  BY <1>4, <1>5, PutTogether

LEMMA FreeStrayStep == ASSUME BuddyInv, NEW a \in Strays, FreeStray(a) PROVE BuddyInv'
<1> DEFINE e == HeapAddressToEntry(table, a)
           O == OwnedBy(table, op)
<1>1. /\ TypeOK /\ Sound(table)
      /\ ~ astray => Pairs(O, held) /\ HeldOnce
  BY TakeApart
<1>2. /\ KzfreeBuddy(a) /\ held' = held /\ astray' \in BOOLEAN
      /\ ~ astray' => /\ ~ astray /\ a # HeapSize
                      /\ \A b \in held : a \notin b[1] .. (b[1] + ToNextLvl(b[2]) - 1)
  BY <1>1 DEF FreeStray, TypeOK
<1>3. a \in Nat /\ HeapSize \in Nat
  <2>1. HeapSize \in Nat
    BY Sizes, LevelFills
  <2> QED  BY <2>1, BuddyAssumption
<1>4. /\ TypeOK' /\ Sound(table') /\ CallFinds' /\ OnePair' /\ op = Idle
      /\ \/ table' = table /\ op' = op
         \/ e \in Entries /\ ~ (a > HeapSize)
  BY <1>2, <1>3, FreeEffect
<1>5. ASSUME ~ astray'
      PROVE  Pairs(OwnedBy(table', op'), held') /\ HeldOnce'
  <2>1. Pairs(O, held) /\ HeldOnce /\ a # HeapSize
    BY <1>1, <1>2, <1>5
  <2>2. ~ (e \in Entries /\ ~ (a > HeapSize))
    <3> SUFFICES ASSUME e \in Entries, ~ (a > HeapSize) PROVE FALSE
      OBVIOUS
    <3>1. a \in 0 .. (HeapSize - 1)
      BY <2>1, <1>3
    <3>2. e # NULL /\ Has(table, e, "allocated") /\ a \in Units(e)
      BY <3>1, <1>1, NullAssumption, FoundIsAllocated, FoundAround
    <3>3. e \in O
      BY <3>2, <1>4 DEF OwnedBy, Idle
    <3> HIDE DEF e
    <3>4. PICK b \in held : <<HeapAddress(e), blockSize[e[1]]>> = <<b[1], ToNextLvl(b[2])>>
      BY <3>3, <2>1 DEF Pairs
    <3>5. a \in b[1] .. (b[1] + ToNextLvl(b[2]) - 1)
      BY <3>2, <3>4, UnitsAre
    <3> QED  BY <3>5, <1>2, <1>5
  <2> QED  BY <2>1, <2>2, <1>2, <1>4 DEF HeldOnce
<1> QED  BY <1>4, <1>5, PutTogether

LEMMA MergeStep == ASSUME BuddyInv, Merge PROVE BuddyInv'
<1> DEFINE e1 == op.block1
           e2 == op.block2
           p == Parent(e1)
           y == GetBuddy(p)
<1>1. /\ TypeOK /\ Sound(table) /\ CallFinds /\ OnePair
      /\ ~ astray => Pairs(OwnedBy(table, op), held) /\ HeldOnce
  BY TakeApart
<1>2. /\ op.pc = "merge" /\ held' = held /\ freed' = freed /\ astray' = astray /\ crashed' = crashed
  BY DEF Merge
<1>3. /\ e1 \in Entries /\ e2 \in Entries /\ e2 = GetBuddy(e1) /\ Has(table, e2, "free")
      /\ e1 \in MarkedIn(table) /\ (e1[1] = 0 => Has(table, e1, "free"))
  BY <1>1, <1>2, CallIs DEF CallFinds, Marked, MarkedIn
<1>4. Idle.pc = "idle" /\ InHand = {e1, e2} /\ e1[1] \in Nat /\ e2[1] = e1[1]
  <2>1. e1[1] \in Nat /\ e2[1] = e1[1]
    BY <1>3, EntryIs, Sizes, Buddies
  <2>2. InHand = {e1, e2}
    BY <1>2 DEF InHand
  <2> QED  BY <2>1, <2>2 DEF Idle
<1>5. crashed \/ \A x \in Entries : x[1] > 0 /\ Has(table, x, "free") /\ Has(table, GetBuddy(x), "free") => x \in {e1, e2}
  BY <1>1, <1>2, <1>4 DEF OnePair, Doomed
<1>6. CASE e1[1] = 0
  <2>1. op' = Idle /\ table' = table
    BY <1>6 DEF Merge
  <2> HIDE DEF e1, e2
  <2>2. TypeOK'
    BY <2>1, <1>1, <1>2 DEF TypeOK, Calls
  <2>3. CallFinds'
    BY <2>1, <1>4 DEF CallFinds
  <2>4. OnePair'
    <3>1. CASE crashed
      BY <3>1, <1>2 DEF OnePair, Doomed
    <3>2. CASE ~ crashed
      <4>1. \A x \in Entries : ~ (x[1] > 0 /\ Has(table, x, "free") /\ Has(table, GetBuddy(x), "free"))
        BY <3>2, <1>4, <1>5, <1>6
      <4> QED  BY <4>1, <2>1 DEF OnePair, Has
    <3> QED  BY <3>1, <3>2
  <2>5. OwnedBy(table', op') = OwnedBy(table, op)
    <3>1. ~ Has(table, e1, "allocated")
      BY <1>1, <1>3, <1>6, FreeOrAllocated DEF Sound
    <3> QED  BY <3>1, <2>1, <1>2, <1>4 DEF OwnedBy, e1
  <2>6. Sound(table') /\ (~ astray' => Pairs(OwnedBy(table', op'), held') /\ HeldOnce')
    BY <1>1, <1>2, <2>1, <2>5 DEF HeldOnce
  <2> QED  BY <2>2, <2>3, <2>4, <2>6, PutTogether
<1>7. CASE e1[1] # 0
  <2>1. /\ table' = AddEntry([RemoveEntry(RemoveEntry(table, e1, {}), e2, {})
                                 EXCEPT ![e1].flags = {}, ![e2].flags = {}], p)
        /\ op' = IF Has(table', y, "free") THEN [pc |-> "merge", block1 |-> p, block2 |-> y] ELSE Idle
    BY <1>7 DEF Merge
  <2> HIDE DEF e1, e2
  <2>2. /\ Sound(table')
        /\ \A x \in Entries :
             /\ Has(table', x, "free") <=> (Has(table, x, "free") /\ x # e1 /\ x # e2) \/ x = p
             /\ Has(table', x, "allocated") <=> Has(table, x, "allocated") /\ x # e1
    BY <2>1, <1>1, <1>3, <1>7, MergeTable
  <2>3. p \in Entries /\ y \in Entries /\ GetBuddy(y) = p /\ y # p
    BY <1>3, <1>7, Parents, Buddies
  <2> HIDE DEF p, y
  <2>4. \/ ~ Has(table', y, "free") /\ op' = Idle
        \/ /\ Has(table', y, "free") /\ op' = [pc |-> "merge", block1 |-> p, block2 |-> y]
           /\ op'.pc = "merge" /\ op'.block1 = p /\ op'.block2 = y
    BY <2>1
  <2>5. TypeOK'
    <3>1. op' \in Calls
      <4>1. [pc |-> "merge", block1 |-> p, block2 |-> y] \in [pc : {"merge"}, block1 : Entries, block2 : Entries]
        BY <2>3
      <4> QED  BY <4>1, <2>4 DEF Calls
    <3>2. table' \in Tables
      BY <2>2 DEF Sound
    <3> QED  BY <3>1, <3>2, <1>1, <1>2 DEF TypeOK
  <2>6. Has(table', p, "free") /\ p \in Marked'
    <3>1. Has(table', p, "free")
      BY <2>2, <2>3
    <3> QED  BY <3>1, <2>3 DEF Marked, Has
  <2>7. CallFinds'
    <3>1. CASE op' = Idle
      BY <3>1, <1>4 DEF CallFinds
    <3>2. CASE Has(table', y, "free") /\ op'.pc = "merge" /\ op'.block1 = p /\ op'.block2 = y
      <4>1. y = GetBuddy(p)
        BY DEF y
      <4> QED  BY <3>2, <4>1, <2>6 DEF CallFinds, Has
    <3> QED  BY <3>1, <3>2, <2>4
  <2>8. OnePair'
    <3>1. CASE crashed
      BY <3>1, <1>2 DEF OnePair, Doomed
    <3>2. CASE ~ crashed
      <4>1. ASSUME NEW x \in Entries, x[1] > 0, Has(table', x, "free"), Has(table', GetBuddy(x), "free")
            PROVE  x \in {p, y} /\ Has(table', y, "free")
        <5> DEFINE z == GetBuddy(x)
        <5>1. z \in Entries /\ GetBuddy(z) = x
          BY Buddies
        <5>2. CASE x = p
          BY <5>2, <4>1 DEF y
        <5>3. CASE z = p
          <6>1. x = y
            BY <5>1, <5>3 DEF y
          <6> QED  BY <6>1, <4>1
        <5>4. CASE x # p /\ z # p
          <6>1. Has(table, x, "free") /\ Has(table, z, "free") /\ x # e1 /\ x # e2
            BY <5>1, <5>4, <4>1, <2>2
          <6> QED  BY <6>1, <3>2, <4>1, <1>5
        <5> QED  BY <5>2, <5>3, <5>4
      <4>2. CASE ~ Has(table', y, "free")
        BY <4>1, <4>2 DEF OnePair, Has
      <4>3. CASE Has(table', y, "free")
        <5>1. InHand' = {p, y}
          BY <4>3, <2>4 DEF InHand
        <5> QED  BY <5>1, <4>1 DEF OnePair, Has
      <4> QED  BY <4>2, <4>3
    <3> QED  BY <3>1, <3>2
  <2>9. OwnedBy(table', op') = OwnedBy(table, op)
    <3>1. OwnedBy(table, op) = {x \in Entries : Has(table, x, "allocated")} \ {e1}
      BY <1>2 DEF OwnedBy, e1
    <3>2. {x \in Entries : Has(table', x, "allocated")} = {x \in Entries : Has(table, x, "allocated")} \ {e1}
      BY <2>2
    <3>3. ~ Has(table', p, "allocated")
      BY <2>2, <2>3, <2>6, FreeOrAllocated DEF Sound
    <3>4. CASE op' = Idle
      BY <3>1, <3>2, <3>4, <1>4 DEF OwnedBy
    <3>5. CASE op'.pc = "merge" /\ op'.block1 = p
      BY <3>1, <3>2, <3>3, <3>5 DEF OwnedBy
    <3> QED  BY <3>4, <3>5, <2>4
  <2>10. ~ astray' => Pairs(OwnedBy(table', op'), held') /\ HeldOnce'
    BY <1>1, <1>2, <2>9 DEF HeldOnce
  <2> QED  BY <2>2, <2>5, <2>7, <2>8, <2>10, PutTogether
<1> QED  BY <1>6, <1>7

(* kheapInitBuddy chains the blocks of level 0, which make up the heap.    *)
LEMMA FirstStep == ASSUME Init PROVE BuddyInv
<1>1. /\ \A e \in Entries : /\ e = <<e[1], e[2]>> /\ e[1] \in Levels /\ e[1] \in Nat /\ e[2] \in Nat
                            /\ e[2] < maxEntries[e[1]]
      /\ \A i \in Nat : i < maxEntries[0] => <<0, i>> \in Entries
      /\ maxEntries[0] \in Nat /\ maxEntries[0] > 0
  BY EntryIs, Sizes
<1>2. \A e \in Entries :
        /\ table[e].flags = IF e[1] = 0 THEN {"free"} ELSE {}
        /\ table[e].next = IF e[1] = 0 /\ e[2] + 1 < maxEntries[0] THEN <<0, e[2] + 1>> ELSE NULL
        /\ table[e].prev = IF e[1] = 0 /\ e[2] > 0 THEN <<0, e[2] - 1>> ELSE NULL
  BY DEF Init
<1>3. table \in Tables
  <2>1. ASSUME NEW e \in Entries
        PROVE  [flags |-> IF e[1] = 0 THEN {"free"} ELSE {},
                next  |-> IF e[1] = 0 /\ e[2] + 1 < maxEntries[0] THEN <<0, e[2] + 1>> ELSE NULL,
                prev  |-> IF e[1] = 0 /\ e[2] > 0 THEN <<0, e[2] - 1>> ELSE NULL]
               \in [flags : SUBSET Flags, next : Entries \cup {NULL}, prev : Entries \cup {NULL}]
    <3>1. e[1] = 0 /\ e[2] + 1 < maxEntries[0] => <<0, e[2] + 1>> \in Entries
      BY <1>1
    <3>2. e[1] = 0 /\ e[2] > 0 => <<0, e[2] - 1>> \in Entries
      BY <1>1
    <3> QED  BY <3>1, <3>2 DEF Flags
  <2> QED  BY <2>1 DEF Init, Tables
<1>4. \A e \in Entries : /\ Has(table, e, "free") <=> e[1] = 0
                         /\ ~ Has(table, e, "allocated")
  <2> SUFFICES ASSUME NEW e \in Entries
               PROVE  (Has(table, e, "free") <=> e[1] = 0) /\ ~ Has(table, e, "allocated")
    OBVIOUS
  <2>1. CASE e[1] = 0
    <3>1. table[e].flags = {"free"}
      BY <2>1, <1>2
    <3> QED  BY <2>1, <3>1 DEF Has
  <2>2. CASE e[1] # 0
    <3>1. table[e].flags = {}
      BY <2>2, <1>2
    <3> QED  BY <2>2, <3>1 DEF Has
  <2> QED  BY <2>1, <2>2
<1>5. Chained(table)
  <2>1. ASSUME NEW e \in Entries, IsFree(table, e) \/ IsHead(e), table[e].next # NULL
        PROVE  /\ table[e].next \in Entries /\ ~ IsHead(table[e].next) /\ table[e].next[1] = e[1]
               /\ IsFree(table, table[e].next)
               /\ table[table[e].next].prev = e \/ (IsHead(e) /\ table[table[e].next].prev = NULL)
    <3> DEFINE n == <<0, e[2] + 1>>
    <3>1. table[e].next = n /\ e[1] = 0 /\ e[2] + 1 < maxEntries[0]
      BY <2>1, <1>2
    <3>2. n \in Entries /\ n[1] = 0 /\ n[2] = e[2] + 1 /\ e[2] \in Nat /\ e = <<0, e[2]>>
      BY <3>1, <1>1
    <3>3. ~ IsHead(n)
      BY <3>2 DEF IsHead, LvlTable
    <3> HIDE DEF n
    <3>4. table[n].prev = <<0, n[2] - 1>>
      <4>1. n[2] > 0
        BY <3>2
      <4> QED  BY <3>2, <4>1, <1>2
    <3>5. table[n].prev = e
      <4>1. n[2] - 1 = e[2]
        BY <3>2
      <4> QED  BY <3>2, <3>4, <4>1
    <3> QED  BY <3>1, <3>2, <3>3, <3>5, <1>4 DEF IsFree
  <2>2. ASSUME NEW e \in Entries, IsFree(table, e), ~ IsHead(e), table[e].prev # NULL, table[e].prev # LvlTable(e[1])
        PROVE  /\ table[e].prev \in Entries /\ table[e].prev[1] = e[1]
               /\ IsFree(table, table[e].prev) /\ table[table[e].prev].next = e
    <3> DEFINE p == <<0, e[2] - 1>>
    <3>1. table[e].prev = p /\ e[1] = 0 /\ e[2] > 0
      BY <2>2, <1>2
    <3>2. p \in Entries /\ p[1] = 0 /\ p[2] = e[2] - 1 /\ e[2] \in Nat /\ e = <<0, e[2]>> /\ e[2] < maxEntries[0]
      BY <3>1, <1>1
    <3>3. (e[2] - 1) + 1 = e[2]
      BY <3>2
    <3>4. table[p].next = <<0, (e[2] - 1) + 1>>
      BY <3>2, <3>3, <1>2
    <3>5. table[p].next = e
      BY <3>2, <3>3, <3>4
    <3> QED  BY <3>1, <3>2, <3>5, <1>4 DEF IsFree
  <2>3. \A e \in Entries : ~ IsFree(table, e) /\ ~ IsHead(e) => table[e].next = NULL /\ table[e].prev = NULL
    BY <1>2, <1>4 DEF IsFree
  <2>4. \A e \in Entries : ~ (IsFree(table, e) /\ Has(table, e, "allocated"))
    BY <1>4
  <2> QED  BY <1>3, <2>1, <2>2, <2>3, <2>4, ChainedIs
<1>6. BlocksPartitionHeap
  <2>1. Marked = {e \in Entries : e[1] = 0}
    BY <1>4 DEF Marked
  <2>2. Parts(Marked)
    <3> SUFFICES ASSUME NEW u \in 0 .. (HeapSize - 1)
                 PROVE  /\ \E e \in Marked : u \in Units(e)
                        /\ \A e, f \in Marked : u \in Units(e) /\ u \in Units(f) => e = f
      BY DEF Parts
    <3>1. 0 \in Levels
      BY Sizes
    <3> QED  BY <2>1, <3>1, Around
  <2>3. Marked \subseteq Entries
    BY DEF Marked
  <2> QED  BY <2>2, <2>3, PartsCount DEF BlocksPartitionHeap
<1>7. op = Idle /\ held = {} /\ freed = FALSE /\ astray = FALSE /\ crashed = FALSE /\ Idle.pc = "idle"
  BY DEF Init, Idle
<1>8. TypeOK
  BY <1>3, <1>7 DEF TypeOK, Calls
<1>9. FreeFindsOwnBlock
  <2>1. Owned = {}
    BY <1>4 DEF Owned, Allocated
  <2> QED  BY <2>1, <1>7 DEF FreeFindsOwnBlock
<1>10. CallFinds /\ HeldOnce
  BY <1>7 DEF CallFinds, HeldOnce
<1>11. OnePair
  BY <1>1, <1>4 DEF OnePair
<1> QED  BY <1>5, <1>6, <1>8, <1>9, <1>10, <1>11 DEF BuddyInv, HeapInv

LEMMA EveryStep == ASSUME BuddyInv, [Next]_vars PROVE BuddyInv'
<1>1. CASE \E n \in Requests : KzallocBuddy(n)
  BY <1>1, AllocStep
<1>2. CASE SplitEntryUp
  BY <1>2, SplitStep
<1>3. CASE TakeEntry
  BY <1>3, TakeStep
<1>4. CASE Merge
  BY <1>4, MergeStep
<1>5. CASE \E b \in held : FreeHeld(b)
  BY <1>5, FreeHeldStep
<1>6. CASE \E a \in Strays : FreeStray(a)
  BY <1>6, FreeStrayStep
<1>7. CASE UNCHANGED vars
  <2>1. /\ TypeOK /\ Sound(table) /\ CallFinds /\ OnePair
        /\ ~ astray => Pairs(OwnedBy(table, op), held) /\ HeldOnce
    BY TakeApart
  <2>2. /\ table' = table /\ op' = op /\ held' = held
        /\ freed' = freed /\ astray' = astray /\ crashed' = crashed
    BY <1>7 DEF vars
  <2>3. TypeOK'
    BY <2>1, <2>2 DEF TypeOK
  <2>4. CallFinds'
    BY <2>1, <2>2 DEF CallFinds, InHand, Marked, Has
  <2>5. OnePair'
    BY <2>1, <2>2 DEF OnePair, InHand, Doomed, Has
  <2>6. Sound(table') /\ (~ astray' => Pairs(OwnedBy(table', op'), held') /\ HeldOnce')
    BY <2>1, <2>2 DEF HeldOnce
  <2> QED  BY <2>3, <2>4, <2>5, <2>6, PutTogether
<1> QED  BY <1>1, <1>2, <1>3, <1>4, <1>5, <1>6, <1>7 DEF Next

(* However kzallocBuddy, splitEntryUp, kzfreeBuddy and merge follow each   *)
(* other, for every shape of the heap: each unit of it is in exactly one   *)
(* block that is free or allocated, the chains lead to free entries only,  *)
(* and, until a stray free hits a block, what is marked as allocated is    *)
(* what callers hold, found again by heapAddressToEntry.                   *)
THEOREM HeapIsDescribed == Spec => []BuddyInv
<1>1. Init => BuddyInv
  BY FirstStep
<1>2. BuddyInv /\ [Next]_vars => BuddyInv'
  BY EveryStep
<1> QED  BY <1>1, <1>2, PTL DEF Spec

(* Between two calls no two free buddies lie side by side above level 0:   *)
(* kzfreeBuddy and merge join them whatever the order of the frees, stray  *)
(* ones included.                                                          *)
THEOREM FreeBuddiesAreJoined == Spec => []BuddiesMerged
<1>1. BuddyInv => BuddiesMerged
  BY DEF BuddyInv, OnePair, Doomed, InHand, BuddiesMerged, Idle
<1> QED  BY <1>1, HeapIsDescribed, PTL
-----------------------------------------------------------------------------
(* Powers of two, which the provers know nothing of: 2^k counts the        *)
(* subsets of a set of k elements.                                         *)
LEMMA PowerNat == \A k \in Nat : 2^k \in Nat /\ 2^k = Cardinality(SUBSET (1 .. k)) /\ IsFiniteSet(SUBSET (1 .. k))
<1> SUFFICES ASSUME NEW k \in Nat PROVE 2^k \in Nat /\ 2^k = Cardinality(SUBSET (1 .. k)) /\ IsFiniteSet(SUBSET (1 .. k))
  OBVIOUS
<1>1. IsFiniteSet(1 .. k) /\ Cardinality(1 .. k) = k
  <2>1. 1 \in Int /\ k \in Int
    OBVIOUS
  <2>2. IsFiniteSet(1 .. k) /\ Cardinality(1 .. k) = IF 1 > k THEN 0 ELSE k - 1 + 1
    BY <2>1, FS_Interval
  <2> QED  BY <2>2
<1>2. IsFiniteSet(SUBSET (1 .. k)) /\ Cardinality(SUBSET (1 .. k)) = 2^k
  BY <1>1, FS_SUBSET
<1>3. Cardinality(SUBSET (1 .. k)) \in Nat
  BY <1>2, FS_CardinalityType
<1> QED  BY <1>2, <1>3

LEMMA PowerDoubles == \A k \in Nat : 2^(k + 1) = 2 * 2^k
<1> SUFFICES ASSUME NEW k \in Nat PROVE 2^(k + 1) = 2 * 2^k
  OBVIOUS
<1> DEFINE A == SUBSET (1 .. k)
           B == {X \cup {k + 1} : X \in A}
           f == [X \in A |-> X \cup {k + 1}]
<1>1. SUBSET (1 .. (k + 1)) = A \cup B
  <2>1. ASSUME NEW X \in SUBSET (1 .. (k + 1)) PROVE X \in A \cup B
    <3>1. CASE k + 1 \in X
      <4>1. X \ {k + 1} \in A /\ X = (X \ {k + 1}) \cup {k + 1}
        BY <3>1
      <4> QED  BY <4>1
    <3>2. CASE k + 1 \notin X
      BY <3>2
    <3> QED  BY <3>1, <3>2
  <2>2. ASSUME NEW X \in A \cup B PROVE X \in SUBSET (1 .. (k + 1))
    <3>1. CASE X \in A
      BY <3>1
    <3>2. CASE X \in B
      <4>1. PICK Y \in A : X = Y \cup {k + 1}
        BY <3>2
      <4> QED  BY <4>1
    <3> QED  BY <3>1, <3>2
  <2> HIDE DEF A, B
  <2>3. \A X : X \in SUBSET (1 .. (k + 1)) <=> X \in A \cup B
    BY <2>1, <2>2
  <2> QED  BY <2>3, Zenon
<1>2. A \cap B = {}
  <2> SUFFICES ASSUME NEW X \in A PROVE X \notin B
    OBVIOUS
  <2>1. k + 1 \notin X
    OBVIOUS
  <2> QED  BY <2>1
<1>3. f \in Bijection(A, B)
  <2>1. f \in Surjection(A, B)
    BY DEF Surjection
  <2>2. ASSUME NEW X \in A, NEW Y \in A, X \cup {k + 1} = Y \cup {k + 1} PROVE X = Y
    <3>1. k + 1 \notin X /\ k + 1 \notin Y
      OBVIOUS
    <3> QED  BY <3>1, <2>2
  <2>3. f \in [A -> B] /\ DOMAIN f = A /\ \A X, Y \in A : f[X] = f[Y] => X = Y
    <3>1. f \in [A -> B] /\ DOMAIN f = A
      BY <2>1 DEF Surjection
    <3>2. \A X \in A : f[X] = X \cup {k + 1}
      OBVIOUS
    <3> HIDE DEF f, A
    <3>3. \A X, Y \in A : f[X] = f[Y] => X = Y
      BY <3>2, <2>2, Zenon
    <3> QED  BY <3>1, <3>3
  <2> HIDE DEF f, A, B
  <2>4. f \in Injection(A, B)
    BY <2>3 DEF Injection, IsInjective
  <2> QED  BY <2>1, <2>4 DEF Bijection
<1>4. IsFiniteSet(A) /\ Cardinality(A) = 2^k /\ 2^k \in Nat
  BY PowerNat
<1>5. ExistsBijection(A, B)
  BY <1>3 DEF ExistsBijection
<1> HIDE DEF A, B, f
<1>6. IsFiniteSet(B) /\ Cardinality(B) = 2^k
  BY <1>4, <1>5, FS_Bijection
<1>7. Cardinality(A \cup B) = 2^k + 2^k - Cardinality({})
  BY <1>2, <1>4, <1>6, FS_Union
<1>8. 2^(k + 1) = Cardinality(SUBSET (1 .. (k + 1)))
  <2>1. k + 1 \in Nat
    OBVIOUS
  <2> QED  BY <2>1, PowerNat
<1>9. 2^(k + 1) = 2^k + 2^k - 0
  BY <1>1, <1>7, <1>8, FS_EmptySet
<1> QED  BY <1>4, <1>9

LEMMA PowerGrows ==
    /\ \A k \in Nat : 2^k >= k + 1
    /\ \A j, k \in Nat : j < k => 2^j < 2^k
<1>1. \A k \in Nat : 2^k >= k + 1
  <2> DEFINE S == {k \in Nat : ~ (2^k >= k + 1)}
  <2> SUFFICES ASSUME S # {} PROVE FALSE
    OBVIOUS
  <2>1. PICK k \in S : \A j \in S : k <= j
    <3>1. S \subseteq Nat
      OBVIOUS
    <3> HIDE DEF S
    <3> QED  BY <3>1, Least
  <2>2. 2^0 >= 0 + 1
    OBVIOUS
  <2>3. k # 0
    BY <2>2, Zenon
  <2>4. k - 1 \in Nat /\ (k - 1) + 1 = k /\ ~ (k <= k - 1)
    BY <2>3
  <2>5. k - 1 \notin S
    BY <2>1, <2>4
  <2>6. 2^(k - 1) >= k
    BY <2>4, <2>5
  <2>7. 2^k = 2 * 2^(k - 1) /\ 2^(k - 1) \in Nat /\ 2^k \in Nat
    BY <2>4, PowerDoubles, PowerNat
  <2> QED  BY <2>3, <2>6, <2>7
<1>2. ASSUME NEW j \in Nat, NEW k \in Nat, j < k PROVE 2^j < 2^k
  <2> DEFINE S == {i \in Nat : j < i /\ ~ (2^j < 2^i)}
  <2> SUFFICES ASSUME S # {} PROVE FALSE
    BY <1>2
  <2>1. PICK i \in S : \A m \in S : i <= m
    <3>1. S \subseteq Nat
      OBVIOUS
    <3> HIDE DEF S
    <3> QED  BY <3>1, Least
  <2>2. i - 1 \in Nat /\ (i - 1) + 1 = i /\ ~ (i <= i - 1) /\ j <= i - 1
    OBVIOUS
  <2>3. 2^i = 2 * 2^(i - 1) /\ 2^(i - 1) \in Nat /\ 2^i \in Nat /\ 2^j \in Nat
    BY <2>2, PowerDoubles, PowerNat
  <2>4. 2^(i - 1) > 0
    BY <2>2, <2>3, <1>1
  <2>5. j = i - 1 \/ 2^j < 2^(i - 1)
    BY <2>1, <2>2
  <2> QED  BY <2>3, <2>4, <2>5
<1> QED  BY <1>1, <1>2

(* The blocks of the levels are consecutive powers of two.                 *)
LEMMA BlocksArePowers ==
    \E K \in Nat : \A l \in Levels : K - l \in Nat /\ blockSize[l] = 2^(K - l)
<1>1. PICK K \in Nat : blockSize[0] = 2^K
  BY BuddyAssumption, Sizes
<1> DEFINE S == {l \in Levels : ~ (K - l \in Nat /\ blockSize[l] = 2^(K - l))}
<1> SUFFICES ASSUME S # {} PROVE FALSE
  OBVIOUS
<1>2. PICK l \in S : \A m \in S : l <= m
  <2>1. S \subseteq Nat
    BY Sizes
  <2> HIDE DEF S
  <2> QED  BY <2>1, Least
<1>3. l # 0
  BY <1>1
<1>4. l - 1 \in Levels /\ l \in Levels /\ (l - 1) + 1 = l /\ l \in Nat /\ ~ (l <= l - 1)
  BY <1>3, Sizes DEF Levels
<1>5. K - (l - 1) \in Nat /\ blockSize[l - 1] = 2^(K - (l - 1))
  BY <1>2, <1>4
<1>6. blockSize[l - 1] = 2 * blockSize[l] /\ blockSize[l] \in Nat
  BY <1>4, Sizes
<1>7. K - (l - 1) # 0
  <2>1. 2^0 = 1 /\ 2 * blockSize[l] # 1
    BY <1>6
  <2>2. 2 * blockSize[l] = 2^(K - (l - 1))
    BY <1>5, <1>6
  <2> QED  BY <2>1, <2>2, Zenon
<1>8. K - l \in Nat /\ (K - l) + 1 = K - (l - 1)
  BY <1>4, <1>5, <1>7
<1>9. 2^(K - (l - 1)) = 2 * 2^(K - l) /\ 2^(K - l) \in Nat
  BY <1>8, PowerDoubles, PowerNat
<1> QED  BY <1>5, <1>6, <1>8, <1>9

LEMMA BlocksShrink == \A l, k \in Levels : l < k => blockSize[k] < blockSize[l]
<1>1. PICK K \in Nat : \A l \in Levels : K - l \in Nat /\ blockSize[l] = 2^(K - l)
  BY BlocksArePowers
<1> TAKE l, k \in Levels
<1> HAVE l < k
<1>2. K - k < K - l
  BY Sizes
<1> QED  BY <1>1, <1>2, PowerGrows

(* toNextLvl: no less than n, and the block of a level unless that is too  *)
(* big or too small for the heap.                                          *)
LEMMA NextLvlIs ==
    ASSUME NEW n \in Nat
    PROVE  /\ ToNextLvl(n) \in Nat /\ ToNextLvl(n) >= n
           /\ n <= blockSize[0] /\ (\A l \in Levels : blockSize[l] # ToNextLvl(n)) =>
                  ToNextLvl(n) < blockSize[MaxLvl - 1]
<1> DEFINE S == {k \in Nat : 2^k >= n}
<1>1. n \in S
  <2>1. 2^n >= n + 1 /\ 2^n \in Nat
    BY PowerGrows, PowerNat
  <2> QED  BY <2>1
<1>2. PICK i \in S : \A m \in S : i <= m
  <2>1. S \subseteq Nat
    OBVIOUS
  <2> HIDE DEF S
  <2> QED  BY <1>1, <2>1, Least
<1>3. \A j \in 0 .. (i - 1) : 2^j < n
  <2> SUFFICES ASSUME NEW j \in 0 .. (i - 1) PROVE 2^j < n
    OBVIOUS
  <2>1. j \in Nat /\ ~ (i <= j)
    OBVIOUS
  <2>2. j \notin S /\ 2^j \in Nat
    BY <2>1, <1>2, PowerNat
  <2> QED  BY <2>1, <2>2
<1> DEFINE k == CHOOSE m \in 0 .. n : 2^m >= n /\ \A j \in 0 .. (m - 1) : 2^j < n
<1>4. k \in 0 .. n /\ 2^k >= n /\ \A j \in 0 .. (k - 1) : 2^j < n
  <2>1. i \in 0 .. n
    BY <1>1, <1>2
  <2> QED  BY <2>1, <1>2, <1>3
<1>5. ToNextLvl(n) = 2^k
  BY DEF ToNextLvl
<1> HIDE DEF k
<1>6. 2^k \in Nat /\ k \in Nat
  BY <1>4, PowerNat
<1>7. ASSUME n <= blockSize[0], \A l \in Levels : blockSize[l] # 2^k PROVE 2^k < blockSize[MaxLvl - 1]
  <2>1. PICK K \in Nat : \A l \in Levels : K - l \in Nat /\ blockSize[l] = 2^(K - l)
    BY BlocksArePowers
  <2>2. 0 \in Levels /\ MaxLvl - 1 \in Levels /\ MaxLvl \in Nat
    BY Sizes DEF Levels
  <2>3. blockSize[0] = 2^K
    <3>1. K - 0 = K
      OBVIOUS
    <3> QED  BY <2>1, <2>2, <3>1
  <2>4. k <= K
    <3> SUFFICES ASSUME K < k PROVE FALSE
      BY <1>6
    <3>1. K \in 0 .. (k - 1)
      BY <1>6
    <3>2. 2^K < n /\ 2^K \in Nat
      BY <3>1, <1>4, PowerNat
    <3> QED  BY <3>2, <2>3, <1>7
  <2>5. K - k \notin Levels
    <3> SUFFICES ASSUME K - k \in Levels PROVE FALSE
      OBVIOUS
    <3>1. K - (K - k) = k
      BY <1>6
    <3> QED  BY <3>1, <2>1, <1>7
  <2>6. k < K - (MaxLvl - 1)
    BY <2>2, <2>4, <2>5, <1>6 DEF Levels
  <2> QED  BY <2>1, <2>2, <2>6, <1>6, PowerGrows
<1> QED  BY <1>4, <1>5, <1>6, <1>7

-----------------------------------------------------------------------------
(* Before the first free.  A level above 0 is empty, or holds the two      *)
(* halves of a block that was split, or the half that is left of them;     *)
(* level 0 holds the blocks from some index on.                            *)
Empty(t, l) ==
    LET h == LvlTable(l)
    IN  /\ \A y \in Entries : y[1] = l => ~ Has(t, y, "free")
        /\ ~ Has(t, h, "has") /\ t[h].next = NULL

Lone(t, l, x) ==
    LET h == LvlTable(l)
    IN  /\ x \in Entries /\ x[1] = l /\ x # h
        /\ \A y \in Entries : y[1] = l => (Has(t, y, "free") <=> y = x)
        /\ Has(t, h, "has") /\ t[h].next = x
        /\ t[x].next = NULL /\ t[x].prev = NULL

Pair(t, l, c) ==
    LET h == LvlTable(l)
        d == GetBuddy(c)
    IN  /\ c \in Entries /\ c[1] = l /\ d # h
        /\ \A y \in Entries : y[1] = l => (Has(t, y, "free") <=> y = c \/ y = d)
        /\ Has(t, h, "has") /\ t[h].next = d
        /\ c = h => t[d].next = NULL
        /\ c # h => t[d].prev = NULL /\ t[d].next = c /\ t[c].prev = d /\ t[c].next = NULL

Tidy(t, l) == Empty(t, l) \/ \E x \in Entries : Lone(t, l, x) \/ Pair(t, l, x)

Suffix(t, k) ==
    LET h == LvlTable(0)
        m == maxEntries[0]
    IN  /\ k \in 0 .. m
        /\ \A i \in 0 .. (m - 1) : Has(t, <<0, i>>, "free") <=> k <= i
        /\ \A i \in k .. (m - 1) : t[<<0, i>>].next = IF i + 1 < m THEN <<0, i + 1>> ELSE NULL
        /\ k > 0 /\ k < m => Has(t, h, "has") /\ t[h].next = <<0, k>> /\ t[<<0, k>>].prev = NULL
        /\ k = m => ~ Has(t, h, "has")

InOrder(t) ==
    /\ \E k \in 0 .. maxEntries[0] : Suffix(t, k)
    /\ \A l \in Levels : l > 0 => Tidy(t, l)
    /\ Has(t, LvlTable(0), "free") => \A e \in Entries : e[1] > 0 => ~ Has(t, e, "free")

(* The levels are in order, and a call that has no entry to take asks for  *)
(* a smallest block, or for a biggest one before any was taken.            *)
Orderly ==
    /\ InOrder(table)
    /\ Has(table, LvlTable(0), "free") => held = {}
    /\ op.pc = "alloc" =>
          /\ op.lvl < op.endLvl => Usable(table, op.lvl)
          /\ op.entry # NULL =>
                op.entry = Front(table, op.lvl) \/ (op.lvl > 0 /\ Pair(table, op.lvl, op.entry))
          /\ op.entry = NULL /\ op.lvl = op.endLvl =>
                op.endLvl = MaxLvl - 1 \/ (op.endLvl = 0 /\ held = {})

RightInv ==
    /\ RightUntilFirstFree /\ answer.size \in Nat
    /\ (crashed => op = Idle) /\ (op.pc = "merge" => freed)
    /\ ~ freed => Orderly

(* removeEntry and addEntry stay within the level of their entry.          *)
SameLevel(t, r, l) == \A x \in Entries : x[1] = l => r[x] = t[x]

LEMMA SameFields ==
    ASSUME NEW t \in Tables, NEW r \in Tables, NEW x \in Entries,
           r[x].flags = t[x].flags, r[x].next = t[x].next, r[x].prev = t[x].prev
    PROVE  r[x] = t[x]
BY EntryFields

LEMMA RemovesWithin ==
    ASSUME NEW t \in Tables, Chained(t), NEW e \in Entries, IsFree(t, e),
           NEW mark \in SUBSET {"splitup", "allocated"}, NEW l, l # e[1]
    PROVE  SameLevel(t, RemoveEntry(t, e, mark), l)
<1> DEFINE h == LvlTable(e[1])
           n == t[e].next
           p == t[e].prev
           r == RemoveEntry(t, e, mark)
<1>1. mark \in SUBSET Flags
  BY DEF Flags
<1>2. h \in Entries /\ h[1] = e[1]
  BY HeadIs
<1>3. n # NULL => n[1] = e[1]
  BY ChainedIs
<1>4. ASSUME ~ IsHead(e), p # NULL PROVE p[1] = e[1]
  BY <1>2, <1>4, ChainedIs
<1> SUFFICES ASSUME NEW x \in Entries, x[1] = l PROVE r[x] = t[x]
  BY DEF SameLevel
<1>5. x # e /\ x # h /\ x # NULL /\ x # n /\ (~ IsHead(e) => x # p)
  BY <1>2, <1>3, <1>4, NullAssumption
<1>6. CASE IsHead(e)
  <2>1. /\ r \in Tables
        /\ \A y \in Entries :
             /\ r[y].next = t[y].next
             /\ r[y].prev = IF y = n THEN NULL ELSE t[y].prev
             /\ r[y].flags = IF y = e THEN ((t[y].flags \ {"free"}) \cup mark)
                                           \cup (IF n = NULL THEN {} ELSE {"has"})
                             ELSE t[y].flags
    BY <1>1, <1>6, RemoveHead
  <2> HIDE DEF r, n
  <2>2. r \in Tables /\ r[x].next = t[x].next /\ r[x].prev = t[x].prev /\ r[x].flags = t[x].flags
    BY <1>5, <2>1
  <2> QED  BY <2>2, SameFields
<1>7. CASE ~ IsHead(e)
  <2>1. TakenOut(t, e, mark, r)
    BY <1>1, <1>7, RemoveInside
  <2> HIDE DEF r
  <2>2. r \in Tables /\ r[x].next = t[x].next /\ r[x].prev = t[x].prev /\ r[x].flags = t[x].flags
    BY <1>5, <1>7, <2>1 DEF TakenOut
  <2> QED  BY <2>2, SameFields
<1> QED  BY <1>6, <1>7

LEMMA AddsWithin ==
    ASSUME NEW t \in Tables, Chained(t), NEW e \in Entries, NEW l, l # e[1]
    PROVE  SameLevel(t, AddEntry(t, e), l)
<1> DEFINE h == LvlTable(e[1])
           n == t[h].next
           r == AddEntry(t, e)
<1>1. PutIn(t, e, r)
  BY AddPuts
<1>2. h \in Entries /\ h[1] = e[1] /\ IsHead(h)
  BY HeadIs DEF IsHead
<1>3. n # NULL => n[1] = e[1]
  BY <1>2, ChainedIs
<1> HIDE DEF r
<1> SUFFICES ASSUME NEW x \in Entries, x[1] = l PROVE r[x] = t[x]
  BY DEF SameLevel, r
<1>4. x # e /\ x # h /\ x # NULL /\ x # n
  BY <1>2, <1>3, NullAssumption
<1>5. r \in Tables /\ r[x].next = t[x].next /\ r[x].prev = t[x].prev /\ r[x].flags = t[x].flags
  BY <1>1, <1>4 DEF PutIn
<1> QED  BY <1>5, SameFields

LEMMA HeadOf == \A l \in Levels : LvlTable(l) \in Entries /\ LvlTable(l)[1] = l /\ IsHead(LvlTable(l))
BY EntryIs, Sizes DEF LvlTable, IsHead

LEMMA SameEmpty ==
    ASSUME NEW t, NEW r, NEW l \in Levels, SameLevel(t, r, l), Empty(t, l) PROVE Empty(r, l)
BY HeadOf DEF SameLevel, Empty, Has

LEMMA SameLone ==
    ASSUME NEW t, NEW r, NEW l \in Levels, SameLevel(t, r, l), NEW x, Lone(t, l, x) PROVE Lone(r, l, x)
BY HeadOf DEF SameLevel, Lone, Has

LEMMA SamePair ==
    ASSUME NEW t, NEW r, NEW l \in Levels, SameLevel(t, r, l), NEW c, Pair(t, l, c) PROVE Pair(r, l, c)
<1>1. c \in Entries /\ c[1] = l /\ GetBuddy(c) \in Entries /\ GetBuddy(c)[1] = l
  BY Buddies DEF Pair
<1>2. r[c] = t[c] /\ r[GetBuddy(c)] = t[GetBuddy(c)] /\ r[LvlTable(l)] = t[LvlTable(l)]
  BY <1>1, HeadOf DEF SameLevel
<1>3. \A y \in Entries : y[1] = l => r[y] = t[y]
  BY DEF SameLevel
<1> QED  BY <1>2, <1>3 DEF Pair, Has

LEMMA SameTidy ==
    ASSUME NEW t, NEW r, NEW l \in Levels, SameLevel(t, r, l), Tidy(t, l) PROVE Tidy(r, l)
BY SameEmpty, SameLone, SamePair DEF Tidy

LEMMA SameUsable ==
    ASSUME NEW t, NEW r, NEW l \in Levels, SameLevel(t, r, l)
    PROVE  (Usable(r, l) <=> Usable(t, l)) /\ Front(r, l) = Front(t, l)
BY HeadOf DEF SameLevel, Usable, Has, Front

LEMMA SameSuffix ==
    ASSUME NEW t, NEW r, SameLevel(t, r, 0), NEW k, Suffix(t, k) PROVE Suffix(r, k)
<1> DEFINE m == maxEntries[0]
<1>1. 0 \in Levels /\ m \in Nat
  BY Sizes
<1>2. \A i \in 0 .. (m - 1) : <<0, i>> \in Entries /\ <<0, i>>[1] = 0
  BY <1>1, EntryIs
<1>3. \A i \in 0 .. (m - 1) : r[<<0, i>>] = t[<<0, i>>]
  BY <1>2 DEF SameLevel
<1>4. k \in 0 .. m
  BY DEF Suffix
<1>5. LvlTable(0) = <<0, 0>> /\ r[LvlTable(0)] = t[LvlTable(0)]
  BY <1>1, HeadOf DEF SameLevel, LvlTable
<1>6. \A i \in k .. (m - 1) : i \in 0 .. (m - 1)
  BY <1>1, <1>4
<1>7. k < m => k \in k .. (m - 1)
  BY <1>1, <1>4
<1> QED  BY <1>3, <1>4, <1>5, <1>6, <1>7 DEF Suffix, Has

(* Two halves are added to an empty level.                                 *)
LEMMA EmptyAdd ==
    ASSUME NEW t \in Tables, Chained(t), NEW l \in Levels, Empty(t, l),
           NEW c \in Entries, c[1] = l, GetBuddy(c) # LvlTable(l)
    PROVE  Pair(AddEntry(AddEntry(t, c), GetBuddy(c)), l, c)
<1> DEFINE h == LvlTable(l)
           d == GetBuddy(c)
           t1 == AddEntry(t, c)
           r == AddEntry(t1, d)
<1>1. d \in Entries /\ d[1] = l /\ d # c /\ d # h /\ h \in Entries /\ h[1] = l /\ IsHead(h) /\ LvlTable(c[1]) = h
  BY Buddies, HeadOf
<1>2. /\ \A y \in Entries : y[1] = l => "free" \notin t[y].flags
      /\ "has" \notin t[h].flags /\ t[h].next = NULL
  BY DEF Empty, Has
<1>3. PutIn(t, c, t1)
  BY AddPuts
<1>4. t1 \in Tables
  BY <1>3 DEF PutIn
<1>5. PutIn(t1, d, r)
  <2> HIDE DEF t1, d
  <2> QED  BY <1>1, <1>4, AddPuts
<1>6. ~ IsHead(d) /\ (c # h => ~ IsHead(c)) /\ LvlTable(d[1]) = h
  BY <1>1 DEF IsHead
<1>7. t[d].next = NULL /\ t[d].prev = NULL /\ (c # h => t[c].next = NULL /\ t[c].prev = NULL)
  BY <1>1, <1>2, <1>6, ChainedIs DEF IsFree, Has
<1>8. NULL \notin Entries
  BY NullAssumption
<1> HIDE DEF h, d, t1, r
<1>9. /\ \A x \in Entries :
           /\ t1[x].next = IF c # h /\ x = h THEN c ELSE t[x].next
           /\ t1[x].prev = t[x].prev
           /\ "free" \in t1[x].flags <=> ("free" \in t[x].flags \/ x = c)
      /\ "has" \in t1[h].flags
  BY <1>1, <1>2, <1>3, ZenonT(40) DEF PutIn, Has
<1>10. /\ \A x \in Entries :
           /\ r[x].next = IF x = h THEN d ELSE IF x = d THEN t1[h].next ELSE t1[x].next
           /\ r[x].prev = IF x = t1[h].next THEN d
                          ELSE IF x = d THEN (IF "free" \in t1[h].flags THEN h ELSE NULL) ELSE t1[x].prev
           /\ "free" \in r[x].flags <=> ("free" \in t1[x].flags \/ x = d)
      /\ "has" \in r[h].flags
  <2>1. \A x \in Entries :
           /\ r[x].next = IF d # h /\ x = h THEN d
                          ELSE IF d # h /\ Has(t1, h, "has") /\ x = d THEN t1[h].next ELSE t1[x].next
           /\ r[x].prev = IF Has(t1, h, "has") /\ x = t1[h].next THEN d
                          ELSE IF d # h /\ Has(t1, h, "has") /\ x = d
                          THEN (IF Has(t1, h, "free") THEN h ELSE NULL) ELSE t1[x].prev
           /\ r[x].flags = IF x = d
                           THEN ((IF x = h THEN t1[x].flags \cup {"has"} ELSE t1[x].flags) \cup {"free"})
                                   \ {"splitup", "allocated"}
                           ELSE IF x = h THEN t1[x].flags \cup {"has"} ELSE t1[x].flags
    BY <1>5, <1>6 DEF PutIn
  <2>2. Has(t1, h, "has") /\ (Has(t1, h, "free") <=> "free" \in t1[h].flags)
    BY <1>9 DEF Has
  <2>3. ASSUME NEW x \in Entries
        PROVE  /\ r[x].next = IF x = h THEN d ELSE IF x = d THEN t1[h].next ELSE t1[x].next
               /\ r[x].prev = IF x = t1[h].next THEN d
                              ELSE IF x = d THEN (IF "free" \in t1[h].flags THEN h ELSE NULL) ELSE t1[x].prev
    BY <1>1, <2>1, <2>2
  <2>4. ASSUME NEW x \in Entries
        PROVE  "free" \in r[x].flags <=> ("free" \in t1[x].flags \/ x = d)
    <3>1. CASE x = d
      <4>1. r[x].flags = (t1[x].flags \cup {"free"}) \ {"splitup", "allocated"}
        BY <3>1, <1>1, <2>1
      <4> QED  BY <3>1, <4>1
    <3>2. CASE x # d
      <4>1. r[x].flags = IF x = h THEN t1[x].flags \cup {"has"} ELSE t1[x].flags
        BY <3>2, <2>1
      <4> QED  BY <3>2, <4>1
    <3> QED  BY <3>1, <3>2
  <2>5. "has" \in r[h].flags
    BY <1>1, <2>1
  <2> QED  BY <2>3, <2>4, <2>5
<1>11. \A y \in Entries : y[1] = l => ("free" \in r[y].flags <=> y = c \/ y = d)
  BY <1>2, <1>9, <1>10
<1>12. "has" \in r[h].flags /\ r[h].next = d
  BY <1>1, <1>10
<1>13. CASE c = h
  <2>1. r[d].next = NULL
    BY <1>1, <1>2, <1>9, <1>10, <1>13
  <2> QED  BY <2>1, <1>1, <1>11, <1>12, <1>13 DEF Pair, Has, h, d, r, t1
<1>14. CASE c # h
  <2>1. t1[h].next = c /\ "free" \notin t1[h].flags
    BY <1>1, <1>2, <1>9, <1>14
  <2>2. r[d].prev = NULL /\ r[d].next = c /\ r[c].prev = d /\ r[c].next = NULL
    BY <2>1, <1>1, <1>7, <1>9, <1>10, <1>14
  <2> QED  BY <2>2, <1>1, <1>11, <1>12, <1>14 DEF Pair, Has, h, d, r, t1
<1> QED  BY <1>13, <1>14

(* removeEntry in terms of single flags.                                   *)
LEMMA RemoveInsideIs ==
    ASSUME NEW t \in Tables, NEW e \in Entries, ~ IsHead(e), "free" \in t[e].flags,
           NEW mark \in SUBSET {"splitup", "allocated"}
    PROVE  LET h == LvlTable(e[1])
               n == t[e].next
               p == t[e].prev
               r == RemoveEntry(t, e, mark)
           IN  \A x \in Entries :
                 /\ r[x].next = IF x = e THEN NULL
                                ELSE IF x = p THEN n
                                ELSE IF x = h /\ p = NULL /\ (n = NULL \/ t[h].next = e) THEN n
                                ELSE t[x].next
                 /\ r[x].prev = IF x = e THEN NULL ELSE IF x = n THEN p ELSE t[x].prev
                 /\ "free" \in r[x].flags <=> "free" \in t[x].flags /\ x # e
                 /\ x # e => ("has" \in r[x].flags <=>
                                 "has" \in t[x].flags /\ ~ (x = h /\ p = NULL /\ n = NULL))
<1> DEFINE r == RemoveEntry(t, e, mark)
<1>1. mark \in SUBSET Flags /\ IsFree(t, e) /\ "free" \notin mark
  BY DEF Flags, IsFree, Has
<1>2. TakenOut(t, e, mark, r)
  BY <1>1, RemoveInside
<1> HIDE DEF r
<1> QED  BY <1>1, <1>2 DEF TakenOut, r

LEMMA RemoveHeadIs ==
    ASSUME NEW t \in Tables, NEW e \in Entries, IsHead(e), "free" \in t[e].flags,
           NEW mark \in SUBSET {"splitup", "allocated"}
    PROVE  LET n == t[e].next
               r == RemoveEntry(t, e, mark)
           IN  \A x \in Entries :
                 /\ r[x].next = t[x].next
                 /\ r[x].prev = IF x = n THEN NULL ELSE t[x].prev
                 /\ "free" \in r[x].flags <=> "free" \in t[x].flags /\ x # e
                 /\ "has" \in r[x].flags <=> "has" \in t[x].flags \/ (x = e /\ n # NULL)
<1> DEFINE n == t[e].next
           r == RemoveEntry(t, e, mark)
<1>1. mark \in SUBSET Flags /\ IsFree(t, e) /\ "free" \notin mark /\ "has" \notin mark
  BY DEF Flags, IsFree, Has
<1>2. \A x \in Entries :
        /\ r[x].next = t[x].next
        /\ r[x].prev = IF x = n THEN NULL ELSE t[x].prev
        /\ r[x].flags = IF x = e THEN ((t[x].flags \ {"free"}) \cup mark)
                                      \cup (IF n = NULL THEN {} ELSE {"has"})
                        ELSE t[x].flags
  BY <1>1, RemoveHead
<1> HIDE DEF r, n
<1>3. ASSUME NEW x \in Entries
      PROVE  /\ "free" \in r[x].flags <=> "free" \in t[x].flags /\ x # e
             /\ "has" \in r[x].flags <=> "has" \in t[x].flags \/ (x = e /\ n # NULL)
  <2>1. CASE x = e /\ n = NULL
    <3>1. r[x].flags = ((t[x].flags \ {"free"}) \cup mark) \cup {}
      BY <1>2, <2>1
    <3> QED  BY <1>1, <2>1, <3>1
  <2>2. CASE x = e /\ n # NULL
    <3>1. r[x].flags = ((t[x].flags \ {"free"}) \cup mark) \cup {"has"}
      BY <1>2, <2>2
    <3> QED  BY <1>1, <2>2, <3>1
  <2>3. CASE x # e
    BY <1>2, <2>3
  <2> QED  BY <2>1, <2>2, <2>3
<1> QED  BY <1>2, <1>3 DEF r, n

(* The first of two halves is taken.                                       *)
LEMMA PairTakeFirst ==
    ASSUME NEW t \in Tables, NEW l \in Levels, NEW c, Pair(t, l, c),
           NEW mark \in SUBSET {"splitup", "allocated"}
    PROVE  Lone(RemoveEntry(t, c, mark), l, GetBuddy(c))
<1> DEFINE h == LvlTable(l)
           d == GetBuddy(c)
           r == RemoveEntry(t, c, mark)
<1>1. /\ c \in Entries /\ c[1] = l /\ d \in Entries /\ d[1] = l /\ d # c /\ d # h
      /\ h \in Entries /\ LvlTable(c[1]) = h
  BY Buddies, HeadOf DEF Pair
<1>2. /\ \A y \in Entries : y[1] = l => ("free" \in t[y].flags <=> y = c \/ y = d)
      /\ "has" \in t[h].flags /\ t[h].next = d
      /\ c = h => t[d].next = NULL
      /\ c # h => t[d].prev = NULL /\ t[d].next = c /\ t[c].prev = d /\ t[c].next = NULL
  BY DEF Pair, Has
<1>3. "free" \in t[c].flags /\ (IsHead(c) <=> c = h) /\ NULL \notin Entries
  BY <1>1, <1>2, NullAssumption DEF IsHead
<1>4. CASE c = h
  <2>1. \A x \in Entries :
                 /\ r[x].next = t[x].next
                 /\ r[x].prev = IF x = t[c].next THEN NULL ELSE t[x].prev
                 /\ "free" \in r[x].flags <=> "free" \in t[x].flags /\ x # c
                 /\ "has" \in r[x].flags <=> "has" \in t[x].flags \/ (x = c /\ t[c].next # NULL)
    BY <1>1, <1>3, <1>4, RemoveHeadIs
  <2> HIDE DEF r, h, d
  <2>2. \A y \in Entries : y[1] = l => ("free" \in r[y].flags <=> y = d)
    BY <2>1, <1>1, <1>2
  <2>3. "has" \in r[h].flags /\ r[h].next = d /\ r[d].next = NULL /\ r[d].prev = NULL
    BY <2>1, <1>1, <1>2, <1>4
  <2> QED  BY <1>1, <2>2, <2>3 DEF Lone, Has, r, h, d
<1>5. CASE c # h
  <2>1. \A x \in Entries :
                 /\ r[x].next = IF x = c THEN NULL
                                ELSE IF x = t[c].prev THEN t[c].next
                                ELSE IF x = h /\ t[c].prev = NULL /\ (t[c].next = NULL \/ t[h].next = c)
                                THEN t[c].next ELSE t[x].next
                 /\ r[x].prev = IF x = c THEN NULL ELSE IF x = t[c].next THEN t[c].prev ELSE t[x].prev
                 /\ "free" \in r[x].flags <=> "free" \in t[x].flags /\ x # c
                 /\ x # c => ("has" \in r[x].flags <=>
                                 "has" \in t[x].flags /\ ~ (x = h /\ t[c].prev = NULL /\ t[c].next = NULL))
    BY <1>1, <1>3, <1>5, RemoveInsideIs
  <2> HIDE DEF r, h, d
  <2>2. \A y \in Entries : y[1] = l => ("free" \in r[y].flags <=> y = d)
    BY <2>1, <1>1, <1>2
  <2>3. "has" \in r[h].flags /\ r[h].next = d /\ r[d].next = NULL /\ r[d].prev = NULL
    BY <2>1, <1>1, <1>2, <1>3, <1>5
  <2> QED  BY <1>1, <2>2, <2>3 DEF Lone, Has, r, h, d
<1> QED  BY <1>4, <1>5

(* The second of two halves is taken, which is at the front of the chain.  *)
LEMMA PairTakeSecond ==
    ASSUME NEW t \in Tables, NEW l \in Levels, NEW c, Pair(t, l, c), c # LvlTable(l),
           NEW mark \in SUBSET {"splitup", "allocated"}
    PROVE  Lone(RemoveEntry(t, GetBuddy(c), mark), l, c)
<1> DEFINE h == LvlTable(l)
           d == GetBuddy(c)
           r == RemoveEntry(t, d, mark)
<1>1. /\ c \in Entries /\ c[1] = l /\ d \in Entries /\ d[1] = l /\ d # c /\ d # h /\ c # h
      /\ h \in Entries /\ LvlTable(d[1]) = h
  BY Buddies, HeadOf DEF Pair
<1>2. /\ \A y \in Entries : y[1] = l => ("free" \in t[y].flags <=> y = c \/ y = d)
      /\ "has" \in t[h].flags /\ t[h].next = d
      /\ t[d].prev = NULL /\ t[d].next = c /\ t[c].prev = d /\ t[c].next = NULL
  BY DEF Pair, Has
<1>3. "free" \in t[d].flags /\ ~ IsHead(d) /\ NULL \notin Entries
  BY <1>1, <1>2, NullAssumption DEF IsHead
<1> HIDE DEF h, d
<1>4. \A x \in Entries :
                 /\ r[x].next = IF x = d THEN NULL
                                ELSE IF x = t[d].prev THEN t[d].next
                                ELSE IF x = h /\ t[d].prev = NULL /\ (t[d].next = NULL \/ t[h].next = d)
                                THEN t[d].next ELSE t[x].next
                 /\ r[x].prev = IF x = d THEN NULL ELSE IF x = t[d].next THEN t[d].prev ELSE t[x].prev
                 /\ "free" \in r[x].flags <=> "free" \in t[x].flags /\ x # d
                 /\ x # d => ("has" \in r[x].flags <=>
                                 "has" \in t[x].flags /\ ~ (x = h /\ t[d].prev = NULL /\ t[d].next = NULL))
  BY <1>1, <1>3, RemoveInsideIs
<1> HIDE DEF r
<1>5. \A y \in Entries : y[1] = l => ("free" \in r[y].flags <=> y = c)
  BY <1>1, <1>2, <1>4
<1>6. "has" \in r[h].flags /\ r[h].next = c /\ r[c].next = NULL /\ r[c].prev = NULL
  BY <1>1, <1>2, <1>3, <1>4
<1> QED  BY <1>1, <1>5, <1>6 DEF Lone, Has, r, h, d

(* The half that is left is taken.                                         *)
LEMMA LoneTake ==
    ASSUME NEW t \in Tables, NEW l \in Levels, NEW c, Lone(t, l, c),
           NEW mark \in SUBSET {"splitup", "allocated"}
    PROVE  Empty(RemoveEntry(t, c, mark), l)
<1> DEFINE h == LvlTable(l)
           r == RemoveEntry(t, c, mark)
<1>1. c \in Entries /\ c[1] = l /\ c # h /\ h \in Entries /\ LvlTable(c[1]) = h
  BY HeadOf DEF Lone
<1>2. /\ \A y \in Entries : y[1] = l => ("free" \in t[y].flags <=> y = c)
      /\ "has" \in t[h].flags /\ t[h].next = c /\ t[c].prev = NULL /\ t[c].next = NULL
  BY DEF Lone, Has
<1>3. "free" \in t[c].flags /\ ~ IsHead(c) /\ NULL \notin Entries
  BY <1>1, <1>2, NullAssumption DEF IsHead
<1> HIDE DEF h
<1>4. \A x \in Entries :
                 /\ r[x].next = IF x = c THEN NULL
                                ELSE IF x = t[c].prev THEN t[c].next
                                ELSE IF x = h /\ t[c].prev = NULL /\ (t[c].next = NULL \/ t[h].next = c)
                                THEN t[c].next ELSE t[x].next
                 /\ r[x].prev = IF x = c THEN NULL ELSE IF x = t[c].next THEN t[c].prev ELSE t[x].prev
                 /\ "free" \in r[x].flags <=> "free" \in t[x].flags /\ x # c
                 /\ x # c => ("has" \in r[x].flags <=>
                                 "has" \in t[x].flags /\ ~ (x = h /\ t[c].prev = NULL /\ t[c].next = NULL))
  BY <1>1, <1>3, RemoveInsideIs
<1> HIDE DEF r
<1>5. \A y \in Entries : y[1] = l => ~ ("free" \in r[y].flags)
  BY <1>1, <1>2, <1>4
<1>6. ~ ("has" \in r[h].flags) /\ r[h].next = NULL
  BY <1>1, <1>2, <1>3, <1>4
<1> QED  BY <1>5, <1>6 DEF Empty, Has, r, h

(* What splitEntryUp or the end of kzallocBuddy takes leaves its level in  *)
(* order.                                                                  *)
LEMMA TidyTake ==
    ASSUME NEW t \in Tables, NEW l \in Levels, Tidy(t, l), NEW e \in Entries, e[1] = l, Has(t, e, "free"),
           e = Front(t, l) \/ Pair(t, l, e), NEW mark \in SUBSET {"splitup", "allocated"}
    PROVE  Tidy(RemoveEntry(t, e, mark), l)
<1> DEFINE h == LvlTable(l)
           r == RemoveEntry(t, e, mark)
<1>1. h \in Entries /\ h[1] = l
  BY HeadOf
<1>2. ~ Empty(t, l)
  BY DEF Empty
<1>3. CASE Pair(t, l, e)
  <2>1. Lone(r, l, GetBuddy(e)) /\ GetBuddy(e) \in Entries
    BY <1>3, PairTakeFirst, Buddies
  <2> HIDE DEF r
  <2> QED  BY <2>1 DEF Tidy, r
<1>4. ASSUME NEW x \in Entries, Lone(t, l, x) PROVE Tidy(r, l)
  <2>1. e = x
    BY <1>4 DEF Lone
  <2>2. Empty(r, l)
    BY <1>4, <2>1, LoneTake
  <2> HIDE DEF r
  <2> QED  BY <2>2 DEF Tidy, r
<1>5. ASSUME NEW c \in Entries, Pair(t, l, c), e = Front(t, l) PROVE Tidy(r, l)
  <2>1. CASE c = h
    <3>1. e = c
      BY <1>1, <1>5, <2>1 DEF Pair, Front
    <3> QED  BY <3>1, <1>3, <1>5
  <2>2. CASE c # h
    <3>1. e = GetBuddy(c)
      BY <1>1, <1>5, <2>2 DEF Pair, Front
    <3>2. Lone(r, l, c)
      BY <3>1, <2>2, <1>5, PairTakeSecond
    <3> HIDE DEF r
    <3> QED  BY <3>2 DEF Tidy, r
  <2> QED  BY <2>1, <2>2
<1> QED  BY <1>2, <1>3, <1>4, <1>5 DEF Tidy

LEMMA TidyUsable ==
    ASSUME NEW t \in Tables, NEW l \in Levels, Tidy(t, l)
    PROVE  /\ Usable(t, l) => Front(t, l) # NULL
           /\ ~ Usable(t, l) => Empty(t, l)
           /\ Has(t, LvlTable(l), "free") => Has(t, LvlTable(l), "has")
<1>1. LvlTable(l) \in Entries /\ LvlTable(l)[1] = l /\ NULL \notin Entries
  BY HeadOf, NullAssumption
<1>2. CASE Empty(t, l)
  BY <1>1, <1>2 DEF Empty, Usable, Front
<1>3. ASSUME NEW x \in Entries, Lone(t, l, x) PROVE Usable(t, l) /\ Front(t, l) # NULL /\ Has(t, LvlTable(l), "has")
  BY <1>1, <1>3 DEF Lone, Usable, Front
<1>4. ASSUME NEW x \in Entries, Pair(t, l, x) PROVE Usable(t, l) /\ Front(t, l) # NULL /\ Has(t, LvlTable(l), "has")
  <2>1. GetBuddy(x) \in Entries
    BY Buddies
  <2> QED  BY <1>1, <1>4, <2>1 DEF Pair, Usable, Front
<1> QED  BY <1>2, <1>3, <1>4 DEF Tidy

(* Level 0 loses its blocks from the first one on.                         *)
LEMMA SuffixFront ==
    ASSUME NEW t, NEW k, Suffix(t, k)
    PROVE  /\ k < maxEntries[0] => Front(t, 0) = <<0, k>> /\ <<0, k>> \in Entries /\ Usable(t, 0)
           /\ k = maxEntries[0] => ~ Usable(t, 0)
           /\ k > 0 /\ k < maxEntries[0] => Has(t, LvlTable(0), "has")
           /\ Has(t, LvlTable(0), "free") <=> k = 0
           /\ \A e \in Entries : e[1] = 0 /\ Has(t, e, "free") => Usable(t, 0)
<1> DEFINE m == maxEntries[0]
<1>1. m \in Nat /\ m > 0 /\ k \in 0 .. m /\ LvlTable(0) = <<0, 0>> /\ 0 \in Levels
  BY Sizes DEF Suffix, LvlTable
<1>2. /\ \A i \in 0 .. (m - 1) : Has(t, <<0, i>>, "free") <=> k <= i
      /\ k > 0 /\ k < m => Has(t, <<0, 0>>, "has") /\ t[<<0, 0>>].next = <<0, k>>
      /\ k = m => ~ Has(t, <<0, 0>>, "has")
  BY <1>1 DEF Suffix
<1>3. 0 \in 0 .. (m - 1) /\ (Has(t, <<0, 0>>, "free") <=> k = 0)
  BY <1>1, <1>2
<1>4. \A e \in Entries : e[1] = 0 => e = <<0, e[2]>> /\ e[2] \in 0 .. (m - 1)
  BY <1>1, EntryIs
<1>5. k < m => <<0, k>> \in Entries
  BY <1>1, EntryIs
<1>6. ASSUME NEW e \in Entries, e[1] = 0, Has(t, e, "free") PROVE k < m
  BY <1>1, <1>2, <1>4, <1>6
<1>7. k < m => Front(t, 0) = <<0, k>> /\ Usable(t, 0)
  BY <1>1, <1>2, <1>3 DEF Front, Usable
<1>8. k = m => ~ Usable(t, 0)
  BY <1>1, <1>2, <1>3 DEF Usable
<1> QED  BY <1>1, <1>2, <1>3, <1>5, <1>6, <1>7, <1>8

LEMMA SuffixHead ==
    ASSUME NEW t, NEW k, Suffix(t, k), k # 0
    PROVE  ~ Has(t, LvlTable(0), "free")
<1>1. maxEntries[0] \in Nat \ {0} /\ k \in 0 .. maxEntries[0] /\ LvlTable(0) = <<0, 0>>
  BY Sizes DEF Suffix, LvlTable
<1>2. \A i \in 0 .. (maxEntries[0] - 1) : Has(t, <<0, i>>, "free") <=> k <= i
  BY DEF Suffix
<1>3. 0 \in 0 .. (maxEntries[0] - 1) /\ ~ (k <= 0)
  BY <1>1
<1> QED  BY <1>1, <1>2, <1>3

LEMMA SuffixTake ==
    ASSUME NEW t \in Tables, NEW k, Suffix(t, k), k < maxEntries[0],
           NEW mark \in SUBSET {"splitup", "allocated"}
    PROVE  Suffix(RemoveEntry(t, <<0, k>>, mark), k + 1)
<1> DEFINE m == maxEntries[0]
           h == <<0, 0>>
           e == <<0, k>>
           r == RemoveEntry(t, e, mark)
           next(i) == IF i + 1 < m THEN <<0, i + 1>> ELSE NULL
<1>1. m \in Nat /\ m > 1 /\ k \in 0 .. m /\ LvlTable(0) = h /\ 0 \in Levels /\ k \in 0 .. (m - 1) /\ k \in k .. (m - 1)
  <2>1. m \in Nat /\ m > 0 /\ m % 2 = 0 /\ 0 \in Levels
    BY Sizes, Even
  <2>2. m > 1
    BY <2>1
  <2> QED  BY <2>1, <2>2 DEF Suffix, LvlTable
<1>2. /\ \A i \in 0 .. (m - 1) : "free" \in t[<<0, i>>].flags <=> k <= i
      /\ \A i \in k .. (m - 1) : t[<<0, i>>].next = next(i)
      /\ k > 0 /\ k < m => "has" \in t[h].flags /\ t[h].next = e /\ t[e].prev = NULL
  BY <1>1 DEF Suffix, Has
<1>3. \A i \in 0 .. (m - 1) : <<0, i>> \in Entries /\ <<0, i>> # NULL /\ <<0, i>>[1] = 0
  BY <1>1, EntryIs, NullAssumption
<1>4. e \in Entries /\ h \in Entries /\ "free" \in t[e].flags /\ t[e].next = next(k) /\ LvlTable(e[1]) = h
  BY <1>1, <1>2, <1>3
<1>5. \A i, j \in 0 .. (m - 1) : <<0, i>> = <<0, j>> => i = j
  OBVIOUS
<1> SUFFICES /\ \A i \in 0 .. (m - 1) : "free" \in r[<<0, i>>].flags <=> k + 1 <= i
             /\ \A i \in (k + 1) .. (m - 1) : r[<<0, i>>].next = next(i)
             /\ k + 1 < m => "has" \in r[h].flags /\ r[h].next = <<0, k + 1>> /\ r[<<0, k + 1>>].prev = NULL
             /\ k + 1 = m => ~ ("has" \in r[h].flags)
  BY <1>1 DEF Suffix, Has
<1>6. k + 1 < m => next(k) = <<0, k + 1>> /\ next(k) # NULL /\ <<0, k + 1>> \in Entries /\ <<0, k + 1>> # e
  <2>1. k + 1 < m => k + 1 \in 0 .. (m - 1)
    BY <1>1
  <2> QED  BY <2>1, <1>1, <1>3
<1>7. k + 1 = m => next(k) = NULL
  BY <1>1
<1>8. CASE k = 0
  <2>1. e = h /\ IsHead(e)
    BY <1>8, <1>1 DEF IsHead
  <2>2. \A x \in Entries :
                 /\ r[x].next = t[x].next
                 /\ r[x].prev = IF x = t[e].next THEN NULL ELSE t[x].prev
                 /\ "free" \in r[x].flags <=> "free" \in t[x].flags /\ x # e
                 /\ "has" \in r[x].flags <=> "has" \in t[x].flags \/ (x = e /\ t[e].next # NULL)
    <3> HIDE DEF e
    <3> QED  BY <1>4, <2>1, RemoveHeadIs
  <2> HIDE DEF r
  <2>3. ASSUME NEW i \in 0 .. (m - 1) PROVE "free" \in r[<<0, i>>].flags <=> k + 1 <= i
    <3> DEFINE x == <<0, i>>
    <3>1. x \in Entries /\ (x = e <=> i = k) /\ ("free" \in t[x].flags <=> k <= i)
      BY <1>1, <1>2, <1>3
    <3> HIDE DEF x, e
    <3>2. "free" \in r[x].flags <=> k <= i /\ i # k
      BY <2>2, <3>1
    <3> QED  BY <3>2, <1>1 DEF x
  <2>4. ASSUME NEW i \in (k + 1) .. (m - 1) PROVE r[<<0, i>>].next = next(i)
    <3>1. <<0, i>> \in Entries /\ t[<<0, i>>].next = next(i)
      BY <1>1, <1>2, <1>3
    <3> QED  BY <3>1, <2>2
  <2>5. k + 1 < m => "has" \in r[h].flags /\ r[h].next = <<0, k + 1>> /\ r[<<0, k + 1>>].prev = NULL
    <3> HIDE DEF e, h, next
    <3> QED  BY <2>1, <2>2, <1>4, <1>6
  <2>6. k + 1 # m
    BY <1>8, <1>1
  <2> QED  BY <2>3, <2>4, <2>5, <2>6
<1>9. CASE k > 0
  <2>1. e # h /\ ~ IsHead(e)
    BY <1>9, <1>1 DEF IsHead
  <2>2. \A x \in Entries :
                 /\ r[x].next = IF x = e THEN NULL
                                ELSE IF x = t[e].prev THEN t[e].next
                                ELSE IF x = h /\ t[e].prev = NULL /\ (t[e].next = NULL \/ t[h].next = e)
                                THEN t[e].next ELSE t[x].next
                 /\ r[x].prev = IF x = e THEN NULL ELSE IF x = t[e].next THEN t[e].prev ELSE t[x].prev
                 /\ "free" \in r[x].flags <=> "free" \in t[x].flags /\ x # e
                 /\ x # e => ("has" \in r[x].flags <=>
                                 "has" \in t[x].flags /\ ~ (x = h /\ t[e].prev = NULL /\ t[e].next = NULL))
    <3> HIDE DEF e
    <3>1. \A x \in Entries :
                 /\ r[x].next = IF x = e THEN NULL
                                ELSE IF x = t[e].prev THEN t[e].next
                                ELSE IF x = LvlTable(e[1]) /\ t[e].prev = NULL
                                        /\ (t[e].next = NULL \/ t[LvlTable(e[1])].next = e)
                                THEN t[e].next ELSE t[x].next
                 /\ r[x].prev = IF x = e THEN NULL ELSE IF x = t[e].next THEN t[e].prev ELSE t[x].prev
                 /\ "free" \in r[x].flags <=> "free" \in t[x].flags /\ x # e
                 /\ x # e => ("has" \in r[x].flags <=>
                                 "has" \in t[x].flags /\ ~ (x = LvlTable(e[1]) /\ t[e].prev = NULL /\ t[e].next = NULL))
      BY <1>4, <2>1, RemoveInsideIs
    <3>2. LvlTable(e[1]) = h
      BY <1>4
    <3> HIDE DEF h, r
    <3> QED  BY <3>1, <3>2
  <2> HIDE DEF r
  <2>3. ASSUME NEW i \in 0 .. (m - 1) PROVE "free" \in r[<<0, i>>].flags <=> k + 1 <= i
    <3> DEFINE x == <<0, i>>
    <3>1. x \in Entries /\ (x = e <=> i = k) /\ ("free" \in t[x].flags <=> k <= i)
      BY <1>1, <1>2, <1>3
    <3> HIDE DEF x, e
    <3>2. "free" \in r[x].flags <=> k <= i /\ i # k
      BY <2>2, <3>1
    <3> QED  BY <3>2, <1>1 DEF x
  <2>4. t[e].prev = NULL /\ t[h].next = e /\ "has" \in t[h].flags /\ NULL \notin Entries
    BY <1>1, <1>2, <1>9, NullAssumption
  <2>5. ASSUME NEW i \in (k + 1) .. (m - 1) PROVE r[<<0, i>>].next = next(i)
    <3>1. <<0, i>> \in Entries /\ <<0, i>> # e /\ <<0, i>> # h /\ t[<<0, i>>].next = next(i)
      BY <1>1, <1>2, <1>3
    <3> HIDE DEF e, h, next
    <3> QED  BY <3>1, <2>2, <2>4
  <2>6. k + 1 < m => "has" \in r[h].flags /\ r[h].next = <<0, k + 1>> /\ r[<<0, k + 1>>].prev = NULL
    <3> HIDE DEF e, h, next
    <3> QED  BY <2>1, <2>2, <2>4, <1>4, <1>6
  <2>7. k + 1 = m => ~ ("has" \in r[h].flags)
    <3> HIDE DEF e, h, next
    <3> QED  BY <2>1, <2>2, <2>4, <1>4, <1>7
  <2> QED  BY <2>3, <2>5, <2>6, <2>7
<1> QED  BY <1>1, <1>8, <1>9

(* A usable level has an entry at its front, and a level with a free entry *)
(* is usable.                                                              *)
LEMMA OrderUsable ==
    ASSUME NEW t \in Tables, InOrder(t), NEW l \in Levels
    PROVE  /\ Usable(t, l) => Front(t, l) # NULL
           /\ l > 0 /\ ~ Usable(t, l) => Empty(t, l)
           /\ \A e \in Entries : e[1] = l /\ Has(t, e, "free") => Usable(t, l)
           /\ Usable(t, l) => Has(t, LvlTable(l), "has") \/ (l = 0 /\ Has(t, LvlTable(0), "free"))
<1>1. CASE l = 0
  <2>1. PICK k \in 0 .. maxEntries[0] : Suffix(t, k)
    BY DEF InOrder
  <2>2. NULL \notin Entries /\ k \in Nat /\ k <= maxEntries[0] /\ maxEntries[0] \in Nat
    BY NullAssumption, Sizes
  <2>3. /\ k < maxEntries[0] => Front(t, 0) = <<0, k>> /\ <<0, k>> \in Entries /\ Usable(t, 0)
        /\ k = maxEntries[0] => ~ Usable(t, 0)
        /\ \A e \in Entries : e[1] = 0 /\ Has(t, e, "free") => Usable(t, 0)
    BY <2>1, SuffixFront
  <2>4. Usable(t, l) => Front(t, l) # NULL
    BY <1>1, <2>2, <2>3
  <2>5. Usable(t, l) => Has(t, LvlTable(l), "has") \/ (l = 0 /\ Has(t, LvlTable(0), "free"))
    BY <1>1 DEF Usable
  <2> QED  BY <1>1, <2>3, <2>4, <2>5
<1>2. CASE l # 0
  <2>1. l > 0
    BY <1>2, Sizes DEF Levels
  <2>2. Tidy(t, l)
    BY <2>1 DEF InOrder
  <2>3. /\ Usable(t, l) => Front(t, l) # NULL
        /\ ~ Usable(t, l) => Empty(t, l)
        /\ Has(t, LvlTable(l), "free") => Has(t, LvlTable(l), "has")
    BY <2>2, TidyUsable
  <2> QED  BY <2>3 DEF Empty, Usable
<1> QED  BY <1>1, <1>2

LEMMA OrderTake ==
    ASSUME NEW t \in Tables, Chained(t), InOrder(t), NEW e \in Entries, Has(t, e, "free"),
           e = Front(t, e[1]) \/ (e[1] > 0 /\ Pair(t, e[1], e)), NEW mark \in SUBSET {"splitup", "allocated"}
    PROVE  InOrder(RemoveEntry(t, e, mark)) /\ ~ Has(RemoveEntry(t, e, mark), LvlTable(0), "free")
<1> DEFINE r == RemoveEntry(t, e, mark)
<1>1. /\ e[1] \in Levels /\ e[1] \in Nat /\ 0 \in Levels /\ maxEntries[0] \in Nat
      /\ \A l \in Levels : l \in Nat
  BY EntryIs, Sizes DEF Levels
<1>2. \A l : l # e[1] => SameLevel(t, r, l)
  BY RemovesWithin DEF IsFree
<1>3. PICK k \in 0 .. maxEntries[0] : Suffix(t, k)
  BY DEF InOrder
<1>4. CASE e[1] = 0
  <2>1. e = Front(t, 0)
    BY <1>1, <1>4
  <2>2. k < maxEntries[0] /\ e = <<0, k>>
    <3>1. Usable(t, 0)
      BY <1>3, <1>4, SuffixFront
    <3>2. k # maxEntries[0]
      BY <1>3, <3>1, SuffixFront
    <3>3. k < maxEntries[0]
      BY <1>1, <3>2
    <3> QED  BY <1>3, <2>1, <3>3, SuffixFront
  <2>3. Suffix(r, k + 1) /\ k + 1 \in 0 .. maxEntries[0] /\ k + 1 # 0
    <3>1. Suffix(r, k + 1)
      BY <1>3, <2>2, SuffixTake
    <3> QED  BY <3>1, <2>2, <1>1
  <2>4. ASSUME NEW l \in Levels, l > 0 PROVE Tidy(r, l)
    <3>1. l # e[1]
      BY <2>4, <1>4
    <3>2. SameLevel(t, r, l) /\ Tidy(t, l)
      BY <3>1, <1>2, <2>4 DEF InOrder
    <3> HIDE DEF r
    <3> QED  BY <3>2, SameTidy
  <2> HIDE DEF r
  <2>5. ~ Has(r, LvlTable(0), "free")
    <3> DEFINE j == k + 1
    <3>1. Suffix(r, j) /\ j # 0
      BY <2>3
    <3> HIDE DEF j
    <3> QED  BY <3>1, SuffixHead
  <2> QED  BY <2>3, <2>4, <2>5 DEF InOrder, r
<1>5. CASE e[1] # 0
  <2>1. e[1] > 0 /\ 0 # e[1]
    BY <1>1, <1>5
  <2>2. SameLevel(t, r, 0)
    BY <2>1, <1>2
  <2>3. Suffix(r, k)
    <3> HIDE DEF r
    <3> QED  BY <1>3, <2>2, SameSuffix
  <2>4. ASSUME NEW l \in Levels, l > 0 PROVE Tidy(r, l)
    <3>1. Tidy(t, l)
      BY <2>4 DEF InOrder
    <3>2. CASE l = e[1]
      BY <3>1, <3>2, TidyTake
    <3>3. CASE l # e[1]
      <4>1. SameLevel(t, r, l)
        BY <3>3, <1>2
      <4> HIDE DEF r
      <4> QED  BY <3>1, <4>1, SameTidy
    <3> QED  BY <3>2, <3>3
  <2> HIDE DEF r
  <2>5. ~ Has(t, LvlTable(0), "free")
    BY <2>1 DEF InOrder
  <2>6. ~ Has(r, LvlTable(0), "free")
    BY <2>5, <2>2, <1>1, HeadOf DEF SameLevel, Has
  <2> QED  BY <2>3, <2>4, <2>6 DEF InOrder, r
<1> QED  BY <1>4, <1>5

(* splitEntryUp: the halves go to an empty level.                          *)
LEMMA OrderSplit ==
    ASSUME NEW t \in Tables, Chained(t), InOrder(t), NEW l \in Levels, l + 1 \in Levels,
           NEW e \in Entries, e[1] = l, Has(t, e, "free"), e = Front(t, l), ~ Usable(t, l + 1)
    PROVE  LET r == AddEntry(AddEntry(RemoveEntry(t, e, {"splitup"}), Child(e, 0)), Child(e, 1))
           IN  InOrder(r) /\ ~ Has(r, LvlTable(0), "free") /\ Pair(r, l + 1, Child(e, 0))
<1> DEFINE t1 == RemoveEntry(t, e, {"splitup"})
           c == Child(e, 0)
           d == Child(e, 1)
           t2 == AddEntry(t1, c)
           r == AddEntry(t2, d)
<1>1. /\ c \in Entries /\ d \in Entries /\ c[1] = l + 1 /\ d[1] = l + 1
      /\ GetBuddy(c) = d /\ d # LvlTable(l + 1) /\ c # d
  BY Children
<1>2. l \in Nat /\ l + 1 > 0 /\ l + 1 # l /\ 0 # l + 1 /\ 0 \in Levels /\ \A k \in Levels : k \in Nat
  BY Sizes DEF Levels
<1>3. {"splitup"} \in SUBSET {"splitup", "allocated"}
  OBVIOUS
<1>4. InOrder(t1) /\ ~ Has(t1, LvlTable(0), "free")
  BY <1>3, OrderTake
<1>5. t1 \in Tables /\ Chained(t1)
  <2>1. IsFree(t, e)
    BY DEF IsFree
  <2>2. Removed(t, e, {"splitup"}, t1)
    BY <1>3, <2>1, Removes
  <2> HIDE DEF t1
  <2> QED  BY <2>2 DEF Removed
<1>6. Empty(t1, l + 1)
  <2>1. Empty(t, l + 1)
    BY <1>2, OrderUsable
  <2>2. SameLevel(t, t1, l + 1)
    BY <1>2, <1>3, RemovesWithin DEF IsFree
  <2> HIDE DEF t1
  <2> QED  BY <2>1, <2>2, SameEmpty
<1> HIDE DEF t1, c, d
<1>7. Pair(r, l + 1, c)
  BY <1>1, <1>5, <1>6, EmptyAdd
<1>8. t2 \in Tables /\ Chained(t2)
  <2>1. ~ IsFree(t1, c)
    BY <1>1, <1>6 DEF Empty, IsFree
  <2>2. Added(t1, c, t2)
    BY <1>1, <1>5, <2>1, Adds
  <2> HIDE DEF t2
  <2> QED  BY <2>2 DEF Added
<1>9. ASSUME NEW k, k # l + 1 PROVE SameLevel(t1, r, k)
  <2>1. SameLevel(t1, t2, k)
    BY <1>1, <1>5, <1>9, AddsWithin
  <2>2. SameLevel(t2, r, k)
    <3> HIDE DEF t2
    <3> QED  BY <1>1, <1>8, <1>9, AddsWithin
  <2> HIDE DEF t2, r
  <2> QED  BY <2>1, <2>2 DEF SameLevel
<1> HIDE DEF r
<1>10. PICK k \in 0 .. maxEntries[0] : Suffix(t1, k)
  BY <1>4 DEF InOrder
<1>11. Suffix(r, k)
  <2>1. SameLevel(t1, r, 0)
    BY <1>2, <1>9
  <2> QED  BY <2>1, <1>10, SameSuffix
<1>12. ASSUME NEW j \in Levels, j > 0 PROVE Tidy(r, j)
  <2>1. CASE j = l + 1
    BY <2>1, <1>1, <1>7 DEF Tidy
  <2>2. CASE j # l + 1
    <3>1. Tidy(t1, j) /\ SameLevel(t1, r, j)
      BY <2>2, <1>4, <1>9, <1>12 DEF InOrder
    <3> QED  BY <3>1, SameTidy
  <2> QED  BY <2>1, <2>2
<1>13. ~ Has(r, LvlTable(0), "free")
  <2>1. SameLevel(t1, r, 0)
    BY <1>2, <1>9
  <2> QED  BY <2>1, <1>2, <1>4, HeadOf DEF SameLevel, Has
<1> QED  BY <1>7, <1>11, <1>12, <1>13 DEF InOrder, r, t2, t1, c, d

(* kzallocBuddy refuses only what it cannot serve.                         *)
LEMMA RefusedRightly ==
    ASSUME NEW t \in Tables, InOrder(t), NEW n \in Nat, n # 0,
           \/ n > blockSize[0]
           \/ FindLvlForBlock(ToNextLvl(n)) < 0
           \/ FreeLvl(t, FindLvlForBlock(ToNextLvl(n))) < 0
    PROVE  \/ ToNextLvl(n) < blockSize[MaxLvl - 1]
           \/ \A e \in Entries : Has(t, e, "free") => blockSize[e[1]] < ToNextLvl(n)
<1> DEFINE b == ToNextLvl(n)
           s == FindLvlForBlock(b)
<1>1. /\ b \in Nat /\ b >= n
      /\ n <= blockSize[0] /\ (\A l \in Levels : blockSize[l] # b) => b < blockSize[MaxLvl - 1]
  BY NextLvlIs
<1>2. \A e \in Entries : e[1] \in Levels /\ e[1] \in Nat /\ blockSize[e[1]] \in Nat
  BY EntryIs, Sizes DEF Levels
<1>3. 0 \in Levels /\ blockSize[0] \in Nat
  BY Sizes
<1> HIDE DEF b
<1>4. CASE n > blockSize[0]
  <2>1. ASSUME NEW e \in Entries PROVE blockSize[e[1]] < b
    <3>1. blockSize[e[1]] <= blockSize[0]
      <4>1. CASE e[1] = 0
        BY <4>1, <1>3
      <4>2. CASE e[1] # 0
        <5>1. 0 < e[1]
          BY <4>2, <1>2
        <5>2. blockSize[e[1]] < blockSize[0]
          BY <5>1, <1>2, <1>3, BlocksShrink
        <5> QED  BY <5>2, <1>2, <1>3
      <4> QED  BY <4>1, <4>2
    <3> QED  BY <3>1, <1>1, <1>2, <1>3, <1>4
  <2> QED  BY <2>1 DEF b
<1>5. CASE ~ (n > blockSize[0]) /\ s < 0
  <2>1. \A l \in Levels : blockSize[l] # b
    <3> SUFFICES ASSUME NEW k \in Levels, blockSize[k] = b PROVE FALSE
      OBVIOUS
    <3>1. s \in Levels
      BY DEF FindLvlForBlock
    <3> QED  BY <3>1, <1>5, Sizes DEF Levels
  <2> QED  BY <2>1, <1>1, <1>3, <1>5 DEF b
<1>6. CASE ~ (s < 0) /\ FreeLvl(t, s) < 0
  <2>1. s \in Levels /\ blockSize[s] = b /\ s \in Nat
    <3>1. s \in Levels /\ blockSize[s] = b
      BY <1>6, FindLvlIs
    <3> QED  BY <3>1, Sizes DEF Levels
  <2> HIDE DEF s
  <2>2. \A l \in 0 .. s : ~ Usable(t, l)
    <3> SUFFICES ASSUME NEW l \in 0 .. s, Usable(t, l) PROVE FALSE
      OBVIOUS
    <3>1. FreeLvl(t, s) \in 0 .. s
      BY <2>1, FreeLvlTops
    <3> QED  BY <3>1, <1>6
  <2>3. ASSUME NEW e \in Entries, Has(t, e, "free") PROVE blockSize[e[1]] < b
    <3>1. Usable(t, e[1])
      BY <1>2, <2>3, OrderUsable
    <3>2. s < e[1]
      BY <3>1, <2>1, <2>2, <1>2
    <3> QED  BY <3>2, <2>1, <1>2, BlocksShrink
  <2> QED  BY <2>3 DEF b
<1> QED  BY <1>4, <1>5, <1>6 DEF b, s

LEMMA RightAlloc ==
    ASSUME BuddyInv, RightInv, NEW n \in Requests, KzallocBuddy(n)
    PROVE  RightInv'
<1> DEFINE s == FindLvlForBlock(ToNextLvl(n))
           f == FreeLvl(table, s)
           x == IF f = s THEN GetFreeEntry(table, s) ELSE NULL
<1>1. table \in Tables /\ n \in Nat
  BY BuddyAssumption DEF BuddyInv, HeapInv, TypeOK
<1>2. /\ ~ crashed /\ op = Idle /\ Idle.pc = "idle"
      /\ table' = table /\ held' = held /\ freed' = freed /\ astray' = astray /\ crashed' = crashed
  BY DEF KzallocBuddy, Idle
<1>3. RightUntilFirstFree /\ answer.size \in Nat /\ (~ freed => Orderly)
  BY DEF RightInv
<1>4. CASE /\ n = 0 \/ n > blockSize[0] \/ s < 0 \/ f < 0
           /\ answer' = [call |-> "kzalloc", size |-> n, ok |-> FALSE] /\ op' = op
  <2>1. RightUntilFirstFree'
    <3> SUFFICES ASSUME ~ freed, n # 0
                 PROVE  \/ ToNextLvl(n) < blockSize[MaxLvl - 1]
                        \/ \A e \in Entries : Has(table, e, "free") => blockSize[e[1]] < ToNextLvl(n)
      BY <1>2, <1>4 DEF RightUntilFirstFree, Has
    <3>1. InOrder(table)
      BY <1>3 DEF Orderly
    <3> QED  BY <3>1, <1>1, <1>4, RefusedRightly
  <2>2. ~ freed' => Orderly'
    BY <1>2, <1>3, <1>4 DEF Orderly
  <2>3. answer'.size \in Nat
    BY <1>1, <1>4
  <2> QED  BY <2>1, <2>2, <2>3, <1>2, <1>4 DEF RightInv
<1>5. CASE /\ ~ (s < 0) /\ ~ (f < 0)
           /\ op' = [pc |-> "alloc", size |-> n, lvl |-> f, endLvl |-> s, entry |-> x] /\ answer' = answer
  <2>1. s \in Levels
    BY <1>5, FindLvlIs
  <2> HIDE DEF s
  <2>2. f \in Levels /\ Usable(table, f)
    BY <1>5, <2>1, FreeLvlIs
  <2> HIDE DEF f
  <2>3. /\ op'.pc = "alloc" /\ op'.lvl = f /\ op'.endLvl = s /\ op'.entry = x
    BY <1>5
  <2>4. ASSUME ~ freed PROVE Orderly'
    <3>1. InOrder(table) /\ (Has(table, LvlTable(0), "free") => held = {})
      BY <2>4, <1>3 DEF Orderly
    <3>2. ASSUME x # NULL PROVE x = Front(table, f)
      BY <3>2 DEF GetFreeEntry, Front
    <3>3. ASSUME x = NULL, f = s PROVE s = 0 /\ held = {}
      <4>1. Front(table, s) # NULL /\ (Has(table, LvlTable(s), "has") \/ (s = 0 /\ Has(table, LvlTable(0), "free")))
        BY <3>1, <3>3, <2>1, <2>2, <1>1, OrderUsable
      <4>2. ~ Has(table, LvlTable(s), "has")
        BY <4>1, <3>3 DEF GetFreeEntry, Front
      <4> QED  BY <4>1, <4>2, <3>1
    <3> HIDE DEF x
    <3> QED  BY <3>1, <3>2, <3>3, <2>2, <2>3, <1>2 DEF Orderly
  <2>5. RightUntilFirstFree'
    BY <1>2, <1>3, <1>5 DEF RightUntilFirstFree
  <2> QED  BY <2>3, <2>4, <2>5, <1>2, <1>3, <1>5 DEF RightInv
<1> QED  BY <1>4, <1>5 DEF KzallocBuddy, Answer

LEMMA RightSplit ==
    ASSUME BuddyInv, RightInv, SplitEntryUp
    PROVE  RightInv'
<1> DEFINE l == op.lvl
           h == LvlTable(l)
           e == Front(table, l)
<1>1. TypeOK /\ Sound(table) /\ CallFinds
  BY TakeApart
<1>2. op.pc = "alloc" /\ l < op.endLvl
  BY DEF SplitEntryUp
<1>3. /\ op \in [pc : {"alloc"}, size : Requests, lvl : Levels, endLvl : Levels, entry : Entries \cup {NULL}]
      /\ l \in Levels /\ op.endLvl \in Levels
  BY <1>1, <1>2, CallIs
<1>4. l \in Nat /\ op.endLvl \in Nat /\ op.endLvl < MaxLvl /\ MaxLvl \in Nat /\ l + 1 \in Levels /\ l + 1 > 0
  BY <1>2, <1>3, Sizes DEF Levels
<1>5. ASSUME NEW x, op' = [op EXCEPT !.lvl = l + 1, !.entry = x]
      PROVE  op'.pc = "alloc" /\ op'.lvl = l + 1 /\ op'.endLvl = op.endLvl /\ op'.entry = x
  BY <1>3, <1>5
<1>6. e = NULL \/ (e \in Entries /\ e[1] = l /\ Has(table, e, "free"))
  BY <1>1, <1>3, FrontIsFree
<1>7. /\ freed' = freed
      /\ \/ e = NULL /\ Crash
         \/ /\ op' = [op EXCEPT !.lvl = l + 1, !.entry = NULL]
            /\ UNCHANGED <<table, held, answer, freed, astray, crashed>>
            /\ l + 2 = MaxLvl \/ ~ Usable(table, l)
         \/ /\ e # NULL
            /\ table' = AddEntry(AddEntry(RemoveEntry(table, e, {"splitup"}), Child(e, 0)), Child(e, 1))
            /\ op' = [op EXCEPT !.lvl = l + 1, !.entry = Child(e, 0)]
            /\ UNCHANGED <<held, answer, freed, astray, crashed>>
  BY DEF SplitEntryUp, Front, Crash, Usable
<1>8. /\ RightUntilFirstFree /\ answer.size \in Nat /\ (~ freed => Orderly) /\ ~ crashed
  BY <1>2 DEF RightInv, Idle
<1>9. table \in Tables /\ Chained(table) /\ ~ Usable(table, l + 1)
  <2>1. l + 1 \in (l + 1) .. op.endLvl
    BY <1>2, <1>4 DEF l
  <2> QED  BY <2>1, <1>1, <1>2 DEF Sound, CallFinds, Usable
<1> HIDE DEF l, e
<1>10. CASE freed
  <2>1. freed' /\ (crashed' => op' = Idle) /\ op'.pc # "merge" /\ answer'.size \in Nat
    <3>1. CASE Crash
      <4>1. op.size \in Nat
        BY <1>1, <1>2, CallIs, BuddyAssumption
      <4>2. op' = Idle /\ answer' = [call |-> "kzalloc", size |-> op.size, ok |-> FALSE] /\ Idle.pc = "idle"
        BY <3>1 DEF Crash, Answer, Idle
      <4>3. freed'
        BY <1>7, <1>10, Zenon
      <4>4. (crashed' => op' = Idle) /\ op'.pc # "merge" /\ answer'.size \in Nat
        BY <4>1, <4>2
      <4> QED  BY <4>3, <4>4
    <3>2. CASE ~ Crash
      <4>1. freed'
        BY <1>7, <1>10, Zenon
      <4>2. \E x : op' = [op EXCEPT !.lvl = l + 1, !.entry = x]
        BY <3>2, <1>7
      <4>3. op'.pc = "alloc"
        BY <4>2, <1>5
      <4>4. answer' = answer /\ crashed' = crashed
        BY <3>2, <1>7
      <4> QED  BY <4>1, <4>3, <4>4, <1>8
    <3> QED  BY <3>1, <3>2
  <2> QED  BY <2>1 DEF RightInv, RightUntilFirstFree
<1>11. CASE ~ freed
  <2>1. Orderly /\ InOrder(table)
    BY <1>8, <1>11 DEF Orderly
  <2>2. Usable(table, l)
    BY <2>1, <1>2 DEF Orderly, l
  <2>3. e # NULL
    BY <2>1, <2>2, <1>3, <1>9, OrderUsable DEF e, l
  <2>4. e \in Entries /\ e[1] = l /\ Has(table, e, "free")
    BY <2>3, <1>6
  <2>5. CASE op' = [op EXCEPT !.lvl = l + 1, !.entry = NULL] /\ UNCHANGED <<table, held, answer, freed, astray, crashed>>
             /\ l + 2 = MaxLvl
    <3>1. op'.pc = "alloc" /\ op'.lvl = l + 1 /\ op'.endLvl = op.endLvl /\ op'.entry = NULL
      BY <1>5, <2>5
    <3>2. op.endLvl = MaxLvl - 1 /\ ~ (l + 1 < op.endLvl)
      BY <2>5, <1>2, <1>4 DEF l
    <3>3. Orderly'
      BY <3>1, <3>2, <2>1, <2>5 DEF Orderly
    <3>4. RightUntilFirstFree'
      BY <2>5, <1>8 DEF RightUntilFirstFree
    <3> QED  BY <3>1, <3>3, <3>4, <2>5, <1>8 DEF RightInv
  <2>6. CASE /\ table' = AddEntry(AddEntry(RemoveEntry(table, e, {"splitup"}), Child(e, 0)), Child(e, 1))
             /\ op' = [op EXCEPT !.lvl = l + 1, !.entry = Child(e, 0)]
             /\ UNCHANGED <<held, answer, freed, astray, crashed>>
    <3>1. op'.pc = "alloc" /\ op'.lvl = l + 1 /\ op'.endLvl = op.endLvl /\ op'.entry = Child(e, 0)
      BY <1>5, <2>6
    <3>2. InOrder(table') /\ ~ Has(table', LvlTable(0), "free") /\ Pair(table', l + 1, Child(e, 0))
      BY <2>1, <2>4, <2>6, <1>3, <1>4, <1>9, OrderSplit DEF e
    <3>3. Usable(table', l + 1) /\ Child(e, 0) # NULL
      BY <3>2, NullAssumption DEF Pair, Usable
    <3>4. Orderly'
      BY <3>1, <3>2, <3>3, <1>4 DEF Orderly
    <3>5. \A y \in Entries : Has(table', y, "free") => Has(table, y, "free") \/ y = Child(e, 0) \/ y = Child(e, 1)
      <4>1. e[1] + 1 \in Levels
        BY <2>4, <1>4
      <4> QED  BY <4>1, <2>4, <2>6, <1>1, SplitTable
    <3>6. Child(e, 0)[1] = l + 1 /\ Child(e, 1)[1] = l + 1 /\ blockSize[l + 1] < blockSize[l]
      <4>1. l < l + 1 /\ e[1] + 1 \in Levels
        BY <2>4, <1>4
      <4> QED  BY <4>1, <2>4, <1>3, <1>4, Children, BlocksShrink
    <3>7. RightUntilFirstFree'
      <4> DEFINE b == ToNextLvl(answer.size)
      <4> SUFFICES ASSUME answer.call = "kzalloc", ~ answer.ok, answer.size # 0,
                          ~ (b < blockSize[MaxLvl - 1]), NEW y \in Entries, Has(table', y, "free")
                   PROVE  blockSize[y[1]] < b
        BY <2>6, <1>8 DEF RightUntilFirstFree
      <4>1. \A x \in Entries : Has(table, x, "free") => blockSize[x[1]] < b
        BY <1>8, <1>11 DEF RightUntilFirstFree
      <4>2. b \in Nat /\ blockSize[l] \in Nat /\ blockSize[l + 1] \in Nat
        BY <1>3, <1>4, <1>8, NextLvlIs, Sizes
      <4>3. blockSize[l] < b
        BY <4>1, <2>4
      <4> HIDE DEF b
      <4>4. blockSize[l + 1] < b
        BY <4>2, <4>3, <3>6
      <4> QED  BY <4>1, <4>4, <3>5, <3>6
    <3> QED  BY <3>1, <3>4, <3>7, <2>6, <1>8 DEF RightInv
  <2> QED  BY <2>2, <2>3, <2>5, <2>6, <1>7
<1> QED  BY <1>10, <1>11

LEMMA RightTake ==
    ASSUME BuddyInv, RightInv, TakeEntry
    PROVE  RightInv'
<1> DEFINE x == op.entry
<1>1. TypeOK /\ Sound(table) /\ CallFinds
  BY TakeApart
<1>2. op.pc = "alloc" /\ op.lvl = op.endLvl /\ freed' = freed
  BY DEF TakeEntry, Crash
<1>3. op.size \in Requests /\ op.size \in Nat /\ op.lvl \in Levels /\ x \in Entries \cup {NULL} /\ Idle.pc = "idle"
  BY <1>1, <1>2, CallIs, BuddyAssumption DEF Idle
<1>4. (~ freed => Orderly) /\ ~ crashed
  BY <1>2 DEF RightInv, Idle
<1>5. CASE x = NULL
  <2>1. /\ crashed' = TRUE /\ op' = Idle /\ table' = table /\ held' = held
        /\ answer' = [call |-> "kzalloc", size |-> op.size, ok |-> FALSE]
    BY <1>5 DEF TakeEntry, Crash, Answer
  <2>2. ASSUME ~ freed PROVE RightUntilFirstFree'
    <3>1. op.endLvl = MaxLvl - 1 \/ (op.endLvl = 0 /\ held = {})
      BY <2>2, <1>2, <1>4, <1>5 DEF Orderly
    <3>2. blockSize[op.endLvl] = ToNextLvl(op.size)
      BY <1>1, <1>2 DEF CallFinds
    <3> QED  BY <3>1, <3>2, <2>1 DEF RightUntilFirstFree
  <2>3. ASSUME ~ freed PROVE Orderly'
    BY <2>1, <2>3, <1>3, <1>4 DEF Orderly
  <2>4. answer'.size \in Nat /\ (freed => RightUntilFirstFree')
    BY <2>1, <1>2, <1>3 DEF RightUntilFirstFree
  <2> QED  BY <2>1, <2>2, <2>3, <2>4, <1>2, <1>3 DEF RightInv
<1>6. CASE x # NULL
  <2>1. /\ crashed' = FALSE /\ op' = Idle /\ table' = RemoveEntry(table, x, {"allocated"})
        /\ answer' = [call |-> "kzalloc", size |-> op.size, ok |-> TRUE]
    BY <1>4, <1>6, <1>1 DEF TakeEntry, Answer, TypeOK
  <2>2. x \in Entries /\ x[1] = op.lvl /\ Has(table, x, "free") /\ table \in Tables /\ Chained(table)
    BY <1>1, <1>2, <1>3, <1>6 DEF CallFinds, Sound
  <2>3. ASSUME ~ freed PROVE Orderly'
    <3>1. InOrder(table) /\ (x = Front(table, x[1]) \/ (x[1] > 0 /\ Pair(table, x[1], x)))
      BY <2>2, <2>3, <1>2, <1>4, <1>6 DEF Orderly
    <3>2. {"allocated"} \in SUBSET {"splitup", "allocated"}
      OBVIOUS
    <3> HIDE DEF x
    <3>3. InOrder(table') /\ ~ Has(table', LvlTable(0), "free")
      BY <3>1, <3>2, <2>1, <2>2, OrderTake
    <3> QED  BY <3>3, <2>1, <1>3 DEF Orderly
  <2>4. answer'.size \in Nat /\ RightUntilFirstFree'
    BY <2>1, <1>3 DEF RightUntilFirstFree
  <2> QED  BY <2>1, <2>3, <2>4, <1>2, <1>3 DEF RightInv
<1> QED  BY <1>5, <1>6

LEMMA RightFree ==
    ASSUME RightInv, NEW a, KzfreeBuddy(a), held' \subseteq held
    PROVE  RightInv'
<1>1. /\ op = Idle /\ ~ crashed /\ crashed' = crashed /\ Idle.pc = "idle"
      /\ answer'.call = "kzfree" /\ answer'.size = 0
      /\ (freed' = freed /\ table' = table /\ op' = op) \/ freed' = TRUE
  BY DEF KzfreeBuddy, Answer, Idle
<1>2. RightUntilFirstFree'
  BY <1>1 DEF RightUntilFirstFree
<1>3. ASSUME ~ freed' PROVE Orderly'
  <2>1. freed' = freed /\ table' = table /\ op' = op
    BY <1>1, <1>3
  <2>2. Orderly
    BY <2>1, <1>3 DEF RightInv
  <2> QED  BY <2>1, <2>2, <1>1 DEF Orderly
<1>4. op'.pc = "merge" => freed'
  BY <1>1
<1> QED  BY <1>1, <1>2, <1>3, <1>4 DEF RightInv

LEMMA RightMerge ==
    ASSUME RightInv, Merge
    PROVE  RightInv'
<1>1. freed /\ freed' = freed /\ answer' = answer /\ crashed' = crashed /\ ~ crashed
  BY DEF Merge, RightInv, Idle
<1> QED  BY <1>1 DEF RightInv, RightUntilFirstFree

LEMMA RightFirst ==
    ASSUME Init
    PROVE  RightInv
<1> DEFINE m == maxEntries[0]
           T == [e \in Entries |->
                  [flags |-> IF e[1] = 0 THEN {"free"} ELSE {},
                   next  |-> IF e[1] = 0 /\ e[2] + 1 < m THEN <<0, e[2] + 1>> ELSE NULL,
                   prev  |-> IF e[1] = 0 /\ e[2] > 0 THEN <<0, e[2] - 1>> ELSE NULL]]
<1>1. /\ table = T /\ op = Idle /\ held = {} /\ ~ freed /\ ~ crashed /\ Idle.pc = "idle"
      /\ answer.call = "none" /\ answer.size = 0
  BY DEF Init, Idle
<1>2. m \in Nat /\ m > 0 /\ 0 \in Levels /\ \A l \in Levels : l \in Nat
  BY Sizes DEF Levels
<1>3. \A e \in Entries : e[1] # 0 => table[e].flags = {} /\ table[e].next = NULL
  BY <1>1
<1>4. Suffix(table, 0)
  <2>1. ASSUME NEW i \in 0 .. (m - 1)
        PROVE  /\ table[<<0, i>>].flags = {"free"}
               /\ table[<<0, i>>].next = IF i + 1 < m THEN <<0, i + 1>> ELSE NULL
    <3>1. <<0, i>> \in Entries
      BY <1>2, EntryIs
    <3> QED  BY <3>1, <1>1
  <2>2. ASSUME NEW i \in 0 .. (m - 1) PROVE Has(table, <<0, i>>, "free") <=> 0 <= i
    <3>1. table[<<0, i>>].flags = {"free"}
      BY <2>1
    <3>2. 0 <= i
      BY <1>2
    <3> QED  BY <3>1, <3>2 DEF Has
  <2>3. ~ (0 > 0) /\ 0 # m /\ 0 \in 0 .. m
    BY <1>2
  <2> QED  BY <2>1, <2>2, <2>3 DEF Suffix
<1>5. ASSUME NEW l \in Levels, l > 0 PROVE Empty(table, l)
  BY <1>2, <1>3, <1>5, HeadOf DEF Empty, Has
<1>6. InOrder(table)
  <2>1. \A e \in Entries : e[1] > 0 => ~ Has(table, e, "free")
    BY <1>3 DEF Has
  <2> QED  BY <2>1, <1>2, <1>4, <1>5 DEF InOrder, Tidy
<1> QED  BY <1>1, <1>6 DEF RightInv, RightUntilFirstFree, Orderly

(* Until the first kzfreeBuddy, kzallocBuddy refuses only what no free     *)
(* block is big enough for, or less than a smallest block, and fails only  *)
(* for a smallest block or, in the first call, for a biggest one: for any  *)
(* number of levels and any sequence of requests.                          *)
THEOREM ServedUntilFirstFree == Spec => []RightUntilFirstFree
<1>1. Init => RightInv
  BY RightFirst
<1>2. BuddyInv /\ RightInv /\ [Next]_vars => RightInv'
  <2> SUFFICES ASSUME BuddyInv, RightInv, [Next]_vars PROVE RightInv'
    OBVIOUS
  <2>1. ASSUME NEW n \in Requests, KzallocBuddy(n) PROVE RightInv'
    BY <2>1, RightAlloc
  <2>2. CASE SplitEntryUp
    BY <2>2, RightSplit
  <2>3. CASE TakeEntry
    BY <2>3, RightTake
  <2>4. CASE Merge
    BY <2>4, RightMerge
  <2>5. ASSUME NEW b \in held, FreeHeld(b) PROVE RightInv'
    <3>1. KzfreeBuddy(b[1]) /\ held' \subseteq held
      BY <2>5 DEF FreeHeld
    <3> QED  BY <3>1, RightFree
  <2>6. ASSUME NEW a \in Strays, FreeStray(a) PROVE RightInv'
    <3>1. KzfreeBuddy(a) /\ held' \subseteq held
      BY <2>6 DEF FreeStray
    <3> QED  BY <3>1, RightFree
  <2>7. CASE UNCHANGED vars
    BY <2>7 DEF vars, RightInv, RightUntilFirstFree, Orderly
  <2> QED  BY <2>1, <2>2, <2>3, <2>4, <2>5, <2>6, <2>7 DEF Next
<1>3. RightInv => RightUntilFirstFree
  BY DEF RightInv
<1> QED  BY <1>1, <1>2, <1>3, HeapIsDescribed, PTL DEF Spec
=============================================================================
