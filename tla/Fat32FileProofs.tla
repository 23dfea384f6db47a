-------------------------- MODULE Fat32FileProofs --------------------------
(***************************************************************************)
(* The table of a FAT32 volume under writeFile, for every number and size  *)
(* of clusters, every set of files and every input.  With any write        *)
(* failing and the disk running full, the root directory is safe; without  *)
(* faults and while there is room, the table has no cross links, cycles or *)
(* loose ends, data goes into the clusters of its own file only, and       *)
(* between calls each file has as many clusters as its size needs.         *)
(***************************************************************************)
EXTENDS Fat32File, FiniteSetTheorems, WellFoundedInduction, TLAPS

LEMMA Numbers ==
    /\ FAT_ENTRY_FREE = 0 /\ FAT_ENTRY_USED > RESERVED /\ RESERVED > LastCluster
    /\ FAT_ENTRY_USED \in Nat /\ RESERVED \in Nat /\ RootDir = 2
    /\ LastCluster \in Nat /\ LastCluster >= 3
    /\ RootDir \in Clusters /\ RootDir \in Entries /\ 0 \in Entries /\ 1 \in Entries
    /\ Clusters \subseteq Entries /\ Entries \ {0, 1} = Clusters
    /\ Links \subseteq Entries /\ Links \subseteq Values /\ Clusters \subseteq Values
    /\ FAT_ENTRY_USED \in Values /\ RESERVED \in Values /\ FAT_ENTRY_FREE \in Values
    /\ FAT_ENTRY_USED \notin Entries /\ RESERVED \notin Entries
<1>0. /\ FAT_ENTRY_USED > RESERVED /\ FAT_ENTRY_USED \in Nat /\ RESERVED \in Nat
  BY SMT DEF FAT_ENTRY_USED, RESERVED
<1>1. /\ FAT_ENTRY_FREE = 0 /\ FAT_ENTRY_USED > RESERVED /\ RESERVED > LastCluster
      /\ FAT_ENTRY_USED \in Nat /\ RESERVED \in Nat /\ RootDir = 2
      /\ LastCluster \in Nat /\ LastCluster >= 3
  BY <1>0, ClusterAssumption DEF FAT_ENTRY_FREE, RootDir
<1>2. /\ RootDir \in Clusters /\ RootDir \in Entries /\ 0 \in Entries /\ 1 \in Entries
      /\ Clusters \subseteq Entries
      /\ FAT_ENTRY_USED \notin Entries /\ RESERVED \notin Entries
  BY <1>1 DEF Clusters, Entries
<1>3. Entries \ {0, 1} = Clusters
  BY <1>1 DEF Clusters, Entries
<1>4. /\ Links \subseteq Entries /\ Links \subseteq Values /\ Clusters \subseteq Values
      /\ FAT_ENTRY_USED \in Values /\ RESERVED \in Values /\ FAT_ENTRY_FREE \in Values
  BY <1>1, <1>2 DEF Links, Values
<1> QED  BY <1>1, <1>2, <1>3, <1>4

(* The search answers an entry that is free, or 0.                         *)
LEMMA FreeEntry ==
    ASSUME FreeEntries # {}
    PROVE  getFreeFatEntryCluster \in FreeEntries
<1>1. FreeEntries \in SUBSET Nat
  BY Numbers DEF FreeEntries, Entries
<1>2. PICK x \in FreeEntries :
          \A y \in FreeEntries : ~ (<<y, x>> \in OpToRel(<, Nat))
  BY <1>1, NatLessThanWellFounded, WFMin
<1>3. \A y \in FreeEntries : ~ (y < x)
  BY <1>1, <1>2, Zenon DEF OpToRel
<1>4. \A y \in FreeEntries : x <= y
  BY <1>1, <1>3
<1> QED  BY <1>4 DEF getFreeFatEntryCluster

LEMMA SearchAnswer ==
    ASSUME fat \in [Entries -> Values], fat[1] = RESERVED,
           fat[RootDir] = FAT_ENTRY_USED
    PROVE  /\ getFreeFatEntryCluster \in Links
           /\ getFreeFatEntryCluster # 0 =>
                 fat[getFreeFatEntryCluster] = FAT_ENTRY_FREE
<1>1. \A c \in FreeEntries : c \in Links /\ fat[c] = FAT_ENTRY_FREE
  BY Numbers DEF FreeEntries, Links
<1>2. CASE FreeEntries = {}
  BY <1>2 DEF getFreeFatEntryCluster, Links
<1>3. CASE FreeEntries # {}
  BY <1>1, <1>3, FreeEntry
<1> QED  BY <1>2, <1>3
-----------------------------------------------------------------------------
(* The locals of a write.                                                  *)

WriteCalls ==
    [pc : WritePcs, file : Files, startPos : Nat, in : Inputs,
     fresh : Links, skip : Nat, cur : Values, old : Links,
     next : Links \cup {FAT_ENTRY_USED}, i : Nat, written : Nat]

IsLocal(x, p, c, o, n, sk, j, w) ==
    /\ x \in WriteCalls
    /\ x.pc = p /\ x.cur = c /\ x.old = o /\ x.next = n
    /\ x.skip = sk /\ x.i = j /\ x.written = w
    /\ x.file = op.file /\ x.startPos = op.startPos /\ x.in = op.in
    /\ x.fresh = op.fresh

LEMMA WriteCall ==
    ASSUME op \in Calls
    PROVE  /\ op.pc \in WritePcs => op \in WriteCalls
           /\ op.pc = "entry" =>
                 op \in [pc : {"entry"}, file : Files, start : Clusters]
           /\ op.pc = "idle" => op = Idle
           /\ op.pc \in WritePcs \cup {"entry", "idle"}
BY DEF Calls, WriteCalls, WritePcs, Idle

LEMMA WriteCallFields ==
    ASSUME op \in WriteCalls
    PROVE  /\ op.pc \in WritePcs /\ op.file \in Files /\ op.startPos \in Nat
           /\ op.in \in Inputs /\ op.fresh \in Links /\ op.skip \in Nat
           /\ op.cur \in Values /\ op.old \in Links
           /\ op.next \in Links \cup {FAT_ENTRY_USED} /\ op.i \in Nat
           /\ op.written \in Nat
BY DEF WriteCalls

LEMMA Updates ==
    ASSUME op \in WriteCalls,
           NEW p \in WritePcs, NEW c \in Values, NEW o \in Links,
           NEW n \in Links \cup {FAT_ENTRY_USED}, NEW sk \in Nat, NEW j \in Nat,
           NEW w \in Nat
    PROVE  /\ IsLocal([op EXCEPT !.pc = p],
                      p, op.cur, op.old, op.next, op.skip, op.i, op.written)
           /\ IsLocal([op EXCEPT !.next = n],
                      op.pc, op.cur, op.old, n, op.skip, op.i, op.written)
           /\ IsLocal([op EXCEPT !.pc = p, !.next = n],
                      p, op.cur, op.old, n, op.skip, op.i, op.written)
           /\ IsLocal([op EXCEPT !.pc = p, !.old = o, !.next = n],
                      p, op.cur, o, n, op.skip, op.i, op.written)
           /\ IsLocal([op EXCEPT !.pc = p, !.cur = c, !.old = o],
                      p, c, o, op.next, op.skip, op.i, op.written)
           /\ IsLocal([op EXCEPT !.pc = p, !.cur = c, !.old = o, !.next = n],
                      p, c, o, n, op.skip, op.i, op.written)
           /\ IsLocal([op EXCEPT !.cur = c, !.skip = sk],
                      op.pc, c, op.old, op.next, sk, op.i, op.written)
           /\ IsLocal([[op EXCEPT !.i = j, !.written = w] EXCEPT !.pc = p],
                      p, op.cur, op.old, op.next, op.skip, j, w)
           /\ IsLocal([[op EXCEPT !.i = j, !.written = w] EXCEPT !.cur = c],
                      op.pc, c, op.old, op.next, op.skip, j, w)
<1>1. IsLocal([op EXCEPT !.pc = p],
               p, op.cur, op.old, op.next, op.skip, op.i, op.written)
  BY DEF IsLocal, WriteCalls
<1>2. IsLocal([op EXCEPT !.next = n],
               op.pc, op.cur, op.old, n, op.skip, op.i, op.written)
  BY DEF IsLocal, WriteCalls
<1>3. IsLocal([op EXCEPT !.pc = p, !.next = n],
               p, op.cur, op.old, n, op.skip, op.i, op.written)
  BY DEF IsLocal, WriteCalls
<1>4. IsLocal([op EXCEPT !.pc = p, !.old = o, !.next = n],
               p, op.cur, o, n, op.skip, op.i, op.written)
  BY DEF IsLocal, WriteCalls
<1>5. IsLocal([op EXCEPT !.pc = p, !.cur = c, !.old = o],
               p, c, o, op.next, op.skip, op.i, op.written)
  BY DEF IsLocal, WriteCalls
<1>6. IsLocal([op EXCEPT !.pc = p, !.cur = c, !.old = o, !.next = n],
               p, c, o, n, op.skip, op.i, op.written)
  BY DEF IsLocal, WriteCalls
<1>7. IsLocal([op EXCEPT !.cur = c, !.skip = sk],
               op.pc, c, op.old, op.next, sk, op.i, op.written)
  BY DEF IsLocal, WriteCalls
<1>8. IsLocal([[op EXCEPT !.i = j, !.written = w] EXCEPT !.pc = p],
               p, op.cur, op.old, op.next, op.skip, j, w)
  BY DEF IsLocal, WriteCalls
<1>9. IsLocal([[op EXCEPT !.i = j, !.written = w] EXCEPT !.cur = c],
               op.pc, c, op.old, op.next, op.skip, j, w)
  BY DEF IsLocal, WriteCalls
<1> QED  BY <1>1, <1>2, <1>3, <1>4, <1>5, <1>6, <1>7, <1>8, <1>9, Zenon
-----------------------------------------------------------------------------
(* How writeFatFile divides its input among clusters.                      *)

LEMMA DivMod ==
    ASSUME NEW a \in Nat, NEW s \in Nat \ {0}
    PROVE  /\ a \div s \in Nat /\ a % s \in 0 .. (s - 1)
           /\ a = ((a \div s) * s) + (a % s)
OBVIOUS

LEMMA DivModIs ==
    ASSUME NEW a \in Nat, NEW s \in Nat \ {0}, NEW q \in Nat, NEW r \in 0 .. (s - 1),
           a = (q * s) + r
    PROVE  a \div s = q /\ a % s = r
OBVIOUS

LEMMA TimesSum ==
    ASSUME NEW a \in Nat, NEW b \in Nat, NEW s \in Nat
    PROVE  (a + b) * s = (a * s) + (b * s) /\ a * s \in Nat /\ b * s \in Nat
OBVIOUS

FirstOf(s, P, L) ==
    LET n == IF L % s = 0 THEN s ELSE L % s
    IN  IF n + P > s THEN n - ((n + P) % s) ELSE n

RoundsOf(s, P, L) ==
    ((P + L) \div s) + (IF (P + L) % s # 0 THEN 1 ELSE 0)

(* The first round takes FirstOf bytes, the last one between 1 and s, and  *)
(* each of those between takes s.                                          *)
LEMMA Layout ==
    ASSUME NEW s \in Nat \ {0}, NEW P \in 0 .. (s - 1), NEW L \in Nat \ {0}
    PROVE  LET first == FirstOf(s, P, L)
               N     == RoundsOf(s, P, L)
           IN  /\ first \in 1 .. L /\ P + first <= s /\ N \in Nat \ {0}
               /\ N = 1 => first = L
               /\ N > 1 => \E last \in 1 .. s : L = first + ((N - 2) * s) + last
<1> DEFINE q     == L \div s
           rest  == L % s
           n     == IF rest = 0 THEN s ELSE rest
           first == IF n + P > s THEN n - ((n + P) % s) ELSE n
           N     == ((P + L) \div s) + (IF (P + L) % s # 0 THEN 1 ELSE 0)
<1>1. q \in Nat /\ rest \in 0 .. (s - 1) /\ L = (q * s) + rest
  BY DivMod
<1> HIDE DEF q, rest
<1>2. q * s \in Nat /\ (q + 1) * s = (q * s) + s /\ (q > 0 => (q - 1) * s = (q * s) - s)
  BY <1>1
<1>3. P + L \in Nat
  OBVIOUS
<1>4. CASE rest = 0 /\ P = 0
  <2>1. n = s /\ first = s
    BY <1>4
  <2>2. (P + L) \div s = q /\ (P + L) % s = 0
    BY <1>1, <1>3, <1>4, DivModIs
  <2>3. N = q /\ q > 0
    BY <1>1, <1>2, <1>4, <2>2
  <2> HIDE DEF N, first, n
  <2>4. q = 1 => L = s
    BY <1>1, <1>4, <2>3
  <2>5. q > 1 => /\ (q - 2) * s = (q * s) - s - s /\ (q - 2) * s \in Nat
                 /\ L = s + ((q - 2) * s) + s
    BY <1>1, <1>2, <1>4
  <2>6. L >= s
    BY <1>1, <1>2, <1>4, <2>3, <2>4, <2>5
  <2>7. /\ first \in 1 .. L /\ P + first <= s /\ N \in Nat \ {0}
        /\ N = 1 => first = L
        /\ N > 1 => \E last \in 1 .. s : L = first + ((N - 2) * s) + last
    BY <1>1, <1>4, <2>1, <2>3, <2>4, <2>5, <2>6
  <2> QED  BY <2>7 DEF N, first, n, rest, FirstOf, RoundsOf
<1>5. CASE rest = 0 /\ P > 0
  <2>1. (n + P) % s = P
    <3>1. n + P = (1 * s) + P /\ n + P \in Nat
      BY <1>5
    <3> HIDE DEF n
    <3> QED  BY <3>1, DivModIs
  <2>2. first = s - P
    BY <1>5, <2>1
  <2>3. (P + L) \div s = q /\ (P + L) % s = P
    BY <1>1, <1>3, <1>5, DivModIs
  <2>4. N = q + 1 /\ q > 0
    BY <1>1, <1>2, <1>5, <2>3
  <2> HIDE DEF N, first, n
  <2>5. (q - 1) * s \in Nat /\ L = (s - P) + ((q - 1) * s) + P
    BY <1>1, <1>2, <1>5, <2>4
  <2>6. /\ first \in 1 .. L /\ P + first <= s /\ N \in Nat \ {0}
        /\ N = 1 => first = L
        /\ N > 1 => \E last \in 1 .. s : L = first + ((N - 2) * s) + last
    BY <1>1, <1>5, <2>2, <2>4, <2>5
  <2> QED  BY <2>6 DEF N, first, n, rest, FirstOf, RoundsOf
<1>6. CASE rest > 0 /\ rest + P <= s
  <2>1. n = rest /\ first = rest
    BY <1>1, <1>6
  <2>2. N = q + 1
    <3>1. CASE rest + P = s
      <4>1. P + L = ((q + 1) * s) + 0 /\ q + 1 \in Nat
        BY <1>1, <1>2, <3>1
      <4>2. (P + L) \div s = q + 1 /\ (P + L) % s = 0
        BY <1>3, <4>1, DivModIs
      <4> QED  BY <4>2
    <3>2. CASE rest + P < s
      <4>1. P + L = (q * s) + (rest + P) /\ rest + P \in 0 .. (s - 1)
        BY <1>1, <1>2, <3>2
      <4>2. (P + L) \div s = q /\ (P + L) % s = rest + P
        BY <1>1, <1>3, <4>1, DivModIs
      <4> QED  BY <1>1, <1>6, <4>2
    <3> HIDE DEF N
    <3>3. rest + P = s \/ rest + P < s
      BY <1>1, <1>6
    <3> QED  BY <3>1, <3>2, <3>3
  <2> HIDE DEF N, first, n
  <2>3. q = 0 => L = rest
    BY <1>1
  <2>4. q > 0 => (q - 1) * s \in Nat /\ L = rest + ((q - 1) * s) + s
    BY <1>1, <1>2
  <2>5. /\ first \in 1 .. L /\ P + first <= s /\ N \in Nat \ {0}
        /\ N = 1 => first = L
        /\ N > 1 => \E last \in 1 .. s : L = first + ((N - 2) * s) + last
    BY <1>1, <1>2, <1>6, <2>1, <2>2, <2>3, <2>4
  <2> QED  BY <2>5 DEF N, first, n, rest, FirstOf, RoundsOf
<1>7. CASE rest > 0 /\ rest + P > s
  <2>1. (rest + P) % s = rest + P - s
    <3>1. rest + P = (1 * s) + (rest + P - s) /\ rest + P - s \in 0 .. (s - 1) /\ rest + P \in Nat
      BY <1>1, <1>7
    <3> QED  BY <3>1, DivModIs
  <2>2. first = s - P
    BY <1>1, <1>7, <2>1
  <2>3. N = q + 2
    <3>1. P + L = ((q + 1) * s) + (rest + P - s) /\ rest + P - s \in 0 .. (s - 1) /\ q + 1 \in Nat
      BY <1>1, <1>2, <1>7
    <3>2. (P + L) \div s = q + 1 /\ (P + L) % s = rest + P - s
      BY <1>3, <3>1, DivModIs
    <3> QED  BY <1>1, <1>7, <3>2
  <2> HIDE DEF N, first, n
  <2>4. L = (s - P) + (q * s) + (rest + P - s) /\ rest + P - s \in 1 .. s
    BY <1>1, <1>2, <1>7
  <2>5. /\ first \in 1 .. L /\ P + first <= s /\ N \in Nat \ {0}
        /\ N = 1 => first = L
        /\ N > 1 => \E last \in 1 .. s : L = first + ((N - 2) * s) + last
    BY <1>1, <1>2, <1>7, <2>2, <2>3, <2>4
  <2> QED  BY <2>5 DEF N, first, n, rest, FirstOf, RoundsOf
<1> QED  BY <1>1, <1>4, <1>5, <1>6, <1>7

(* The rounds of a call: i is below clustersToWrite, and the rounds so far *)
(* have written as much as they should.                                    *)
Rounds ==
    /\ op \in WriteCalls
    /\ op.i < clustersToWrite
    /\ op.i = 0 => op.written = 0
    /\ op.i > 0 => op.written = firstChunk + ((op.i - 1) * clusterSize)

LEMMA OpLayout ==
    ASSUME op \in WriteCalls
    PROVE  LET P == op.startPos % clusterSize
               L == Len(op.in)
               N == clustersToWrite
           IN  /\ L \in Nat \ {0} /\ P \in 0 .. (clusterSize - 1)
               /\ firstChunk \in 1 .. L /\ P + firstChunk <= clusterSize
               /\ N \in Nat \ {0}
               /\ N = 1 => firstChunk = L
               /\ N > 1 => \E last \in 1 .. clusterSize :
                              L = firstChunk + ((N - 2) * clusterSize) + last
<1>1. op.startPos \in Nat /\ op.in \in Seq(Int) /\ op.in # << >>
  BY WriteCallFields, ClusterAssumption
<1>2. Len(op.in) \in Nat \ {0}
  BY <1>1
<1>3. clusterSize \in Nat \ {0}
  BY ClusterAssumption
<1>4. op.startPos % clusterSize \in 0 .. (clusterSize - 1)
  BY <1>1, <1>3, DivMod
<1> DEFINE P     == op.startPos % clusterSize
           L     == Len(op.in)
           first == FirstOf(clusterSize, P, L)
           N     == RoundsOf(clusterSize, P, L)
<1>5. firstChunk = first /\ clustersToWrite = N
  BY Zenon DEF firstChunk, clustersToWrite, FirstOf, RoundsOf
<1>6. L \in Nat \ {0} /\ P \in 0 .. (clusterSize - 1)
  BY <1>2, <1>4
<1> HIDE DEF P, L
<1>7. /\ first \in 1 .. L /\ P + first <= clusterSize /\ N \in Nat \ {0}
      /\ N = 1 => first = L
      /\ N > 1 => \E last \in 1 .. clusterSize :
                    L = first + ((N - 2) * clusterSize) + last
  BY <1>3, <1>6, Layout
<1> QED  BY <1>5, <1>6, <1>7, Zenon DEF P, L

LEMMA RoundFits ==
    ASSUME Rounds
    PROVE  /\ startClusterPos + chunk \in 1 .. clusterSize
           /\ chunk \in Nat /\ op.written + chunk \in Nat
           /\ op.written + chunk <= Len(op.in)
           /\ op.written + chunk = firstChunk + (op.i * clusterSize) \/ op.i + 1 = clustersToWrite
<1> DEFINE P == op.startPos % clusterSize
           L == Len(op.in)
           N == clustersToWrite
           F == firstChunk
           s == clusterSize
<1>1. /\ L \in Nat \ {0} /\ P \in 0 .. (s - 1)
      /\ F \in 1 .. L /\ P + F <= s
      /\ N \in Nat \ {0}
      /\ N = 1 => F = L
      /\ N > 1 => \E last \in 1 .. s : L = F + ((N - 2) * s) + last
  BY OpLayout DEF Rounds
<1>2. s \in Nat \ {0} /\ op.i \in Nat /\ op.written \in Nat /\ op.i < N
  BY ClusterAssumption, WriteCallFields DEF Rounds
<1>3. CASE op.i = 0
  <2>1. startClusterPos = P /\ chunk = F /\ op.written = 0 /\ op.i * clusterSize = 0
    BY <1>2, <1>3 DEF startClusterPos, chunk, Rounds
  <2> HIDE DEF P, L, N, F, s
  <2> QED  BY <1>1, <2>1 DEF L, F, s
<1>4. CASE op.i > 0 /\ op.i + 1 = N
  <2>1. startClusterPos = 0 /\ chunk = L - op.written /\ op.written = F + ((op.i - 1) * s)
    BY <1>2, <1>4 DEF startClusterPos, chunk, Rounds
  <2> HIDE DEF P, L, N, F, s
  <2>2. PICK last \in 1 .. s : L = F + ((N - 2) * s) + last
    BY <1>1, <1>2, <1>4
  <2>3. N - 2 = op.i - 1
    BY <1>1, <1>2, <1>4
  <2>4. L = op.written + last
    BY <2>1, <2>2, <2>3
  <2>5. chunk = last
    BY <1>1, <1>2, <2>1, <2>2, <2>4
  <2>6. /\ startClusterPos + chunk \in 1 .. s /\ chunk \in Nat /\ op.written + chunk \in Nat
        /\ op.written + chunk <= L
    BY <1>1, <1>2, <2>1, <2>2, <2>4, <2>5
  <2> QED  BY <1>4, <2>6 DEF L, s, N
<1>5. CASE op.i > 0 /\ op.i + 1 # N
  <2>1. startClusterPos = 0 /\ chunk = s /\ op.written = F + ((op.i - 1) * s)
    BY <1>2, <1>5 DEF startClusterPos, chunk, Rounds
  <2> HIDE DEF P, L, N, F, s
  <2>2. PICK last \in 1 .. s : L = F + ((N - 2) * s) + last
    BY <1>1, <1>2, <1>5
  <2>3. N - 2 - op.i \in Nat /\ op.i - 1 \in Nat
    BY <1>1, <1>2, <1>5
  <2>4. (N - 2) * s = (op.i * s) + ((N - 2 - op.i) * s) /\ (N - 2 - op.i) * s \in Nat
        /\ op.i * s = ((op.i - 1) * s) + s /\ (op.i - 1) * s \in Nat /\ op.i * s \in Nat
    <3>1. N - 2 = op.i + (N - 2 - op.i) /\ op.i = (op.i - 1) + 1 /\ 1 * s = s
      BY <1>1, <1>2
    <3>2. (op.i + (N - 2 - op.i)) * s = (op.i * s) + ((N - 2 - op.i) * s)
          /\ (N - 2 - op.i) * s \in Nat /\ op.i * s \in Nat
      BY <1>2, <2>3, TimesSum
    <3>3. ((op.i - 1) + 1) * s = ((op.i - 1) * s) + (1 * s) /\ (op.i - 1) * s \in Nat
      BY <1>2, <2>3, TimesSum
    <3> QED  BY <3>1, <3>2, <3>3
  <2>5. op.written + chunk = F + (op.i * s)
    BY <1>1, <1>2, <2>1, <2>4
  <2>6. F + (op.i * s) <= L
    BY <1>1, <1>2, <2>2, <2>4
  <2>7. /\ startClusterPos + chunk \in 1 .. s /\ chunk \in Nat /\ op.written + chunk \in Nat
        /\ op.written + chunk <= L
    BY <1>1, <1>2, <2>1, <2>4, <2>5, <2>6
  <2> QED  BY <2>5, <2>7 DEF L, s, F
<1> QED  BY <1>2, <1>3, <1>4, <1>5

LEMMA WrittenCounts ==
    ASSUME op \in WriteCalls
    PROVE  op.written + chunk \in Nat /\ op.i + 1 \in Nat
<1>1. op.written \in Nat /\ op.i \in Nat
  BY WriteCallFields
<1>2. firstChunk \in Nat /\ Len(op.in) \in Nat /\ clusterSize \in Nat
  BY OpLayout, ClusterAssumption
<1>3. op.written + (Len(op.in) - op.written) = Len(op.in)
  BY <1>1, <1>2
<1> QED  BY <1>1, <1>2, <1>3 DEF chunk
-----------------------------------------------------------------------------
(* The root directory.                                                     *)

(* What a write of an entry of the table leaves of SurvivesInv.            *)
TableSafe ==
    /\ fat \in [Entries -> Values] /\ fat[1] = RESERVED
    /\ fat[RootDir] = FAT_ENTRY_USED
    /\ \A c \in Entries : fat[c] # RootDir
    /\ \A c \in Clusters : fat[c] # RESERVED

LEMMA EntryWritten ==
    ASSUME TableSafe, NEW c \in Links, NEW v \in Links \cup {FAT_ENTRY_USED},
           NEW ok \in BOOLEAN, writeFATEntry(c, v, ok)
    PROVE  TableSafe'
<1>1. fat' = fat \/ fat' = [fat EXCEPT ![c] = v]
  BY DEF writeFATEntry
<1>2. CASE fat' = fat
  BY <1>2 DEF TableSafe
<1>3. CASE fat' = [fat EXCEPT ![c] = v]
  <2>1. v \in Values /\ v # RootDir /\ v # RESERVED /\ c # RootDir /\ c # 1 /\ c \in Entries
    BY Numbers DEF Links, Clusters
  <2> QED  BY <1>3, <2>1, Numbers DEF TableSafe
<1> QED  BY <1>1, <1>2, <1>3

LEMMA SurvivesParts ==
    SurvivesInv =>
        /\ TableSafe
        /\ getFreeFatEntryCluster \in Links
        /\ op \in Calls
        /\ \A f \in Files : entry[f] \in [start : Links, size : Int]
<1> SUFFICES ASSUME SurvivesInv
             PROVE  /\ TableSafe
                    /\ getFreeFatEntryCluster \in Links
                    /\ op \in Calls
                    /\ \A f \in Files : entry[f] \in [start : Links, size : Int]
  OBVIOUS
<1>1. TableSafe
  BY DEF SurvivesInv, TableSafe, RootDirSafe
<1>2. getFreeFatEntryCluster \in Links
  BY <1>1, SearchAnswer DEF TableSafe
<1> QED  BY <1>1, <1>2 DEF SurvivesInv
LEMMA SurvivesIdle ==
    ASSUME SurvivesInv, TableSafe', op' = Idle,
           entry' \in [Files -> [start : Links, size : Int]]
    PROVE  SurvivesInv'
<1>1. RootDir \notin Starts'
  <2>1. \A f \in Files : entry'[f] \in [start : Links, size : Int]
    OBVIOUS
  <2>2. \A f \in Files : entry'[f].start \in Links
    BY <2>1
  <2>3. \A f \in Files : entry'[f].start # RootDir
    BY <2>2, Numbers DEF Links
  <2> QED  BY <2>3 DEF Starts
<1>2. op' \in Calls' /\ op'.pc = "idle"
  BY DEF Calls, Idle
<1> QED  BY <1>1, <1>2 DEF SurvivesInv, TableSafe, RootDirSafe, WritePcs

LEMMA SurvivesWrite ==
    ASSUME SurvivesInv, TableSafe', UNCHANGED entry, op' \in WriteCalls,
           op'.cur \in Links \cup {RESERVED},
           op'.pc \in {"skip", "append"} => op'.cur \in Clusters,
           op'.pc \in {"appended", "grown"} => op'.next \in Links,
           op'.pc \in {"appended", "unlink"} => op'.cur # RESERVED
    PROVE  SurvivesInv'
<1>1. Starts' = Starts
  BY DEF Starts
<1>2. op' \in Calls' /\ op'.pc \in WritePcs
  BY DEF WriteCalls, Calls
<1>3. op'.cur # RootDir
  BY Numbers DEF Links
<1>4. op'.pc # "entry"
  BY <1>2 DEF WritePcs
<1> QED  BY <1>1, <1>2, <1>3, <1>4 DEF SurvivesInv, TableSafe, RootDirSafe

LEMMA SurvivesStep == SurvivesInv /\ [Next]_vars => SurvivesInv'
<1> SUFFICES ASSUME SurvivesInv, [Next]_vars
             PROVE  SurvivesInv'
  OBVIOUS
<1>1. /\ TableSafe /\ getFreeFatEntryCluster \in Links /\ op \in Calls
      /\ entry \in [Files -> [start : Links, size : Int]]
  BY SurvivesParts DEF SurvivesInv
<1>2. UNCHANGED <<fat, fatCopy>> => TableSafe'
  BY <1>1 DEF TableSafe
<1>3. op.pc \in WritePcs => op \in WriteCalls
  BY <1>1, WriteCall
<1>4. op \in WriteCalls =>
         /\ op.pc \in WritePcs /\ op.old \in Links
         /\ op.next \in Links \cup {FAT_ENTRY_USED}
         /\ op.cur \in Links \cup {RESERVED} /\ op.skip \in Nat
         /\ op.i \in Nat /\ op.written \in Nat /\ op.fresh \in Links /\ op.file \in Files
  BY WriteCallFields DEF SurvivesInv
<1>5. 0 \in Links /\ 0 # RESERVED /\ RESERVED \notin Links /\ FAT_ENTRY_USED # RESERVED
  BY Numbers DEF Links
<1>6. FAT_ENTRY_USED \in Links \cup {FAT_ENTRY_USED} /\ FAT_ENTRY_FREE \in Links
  BY Numbers DEF Links
<1> DEFINE free == getFreeFatEntryCluster
<1>7. free \in Values /\ Links \subseteq Values /\ Links \subseteq Entries
  BY <1>1, Numbers
<1> HIDE DEF free
<1>10. ASSUME NEW f \in Files, createFile(f) PROVE SurvivesInv'
  <2>1. PICK ok \in BOOLEAN :
          /\ writeFATEntry(free, FAT_ENTRY_USED, ok)
          /\ Continue(ok, [pc |-> "entry", file |-> f, start |-> free])
    BY <1>10 DEF createFile, free
  <2>2. TableSafe' /\ UNCHANGED entry /\ free \in Clusters \ {RootDir}
    BY <1>1, <1>6, <1>10, <2>1, EntryWritten DEF createFile, free, Links
  <2>3. CASE ok
    <3>1. op' = [pc |-> "entry", file |-> f, start |-> free]
      BY <2>1, <2>3 DEF Continue
    <3>2. op' \in Calls' /\ op'.pc = "entry" /\ op'.start # RootDir
      BY <2>2, <3>1 DEF Calls
    <3>3. Starts' = Starts
      BY <2>2 DEF Starts
    <3> QED  BY <2>2, <3>2, <3>3 DEF SurvivesInv, TableSafe, RootDirSafe, WritePcs
  <2>4. CASE ~ ok
    <3>1. op' = Idle
      BY <2>1, <2>4 DEF Continue
    <3> QED  BY <1>1, <2>2, <3>1, SurvivesIdle
  <2> QED  BY <2>3, <2>4
<1>11. ASSUME NEW f \in Files, NEW startPos \in 0 .. MaxSize, NEW in \in Inputs,
              writeFile(f, startPos, in)
       PROVE  SurvivesInv'
  <2>1. startPos \in Nat /\ startPos \div clusterSize \in Nat
    BY ClusterAssumption
  <2>2. \A start \in Clusters \ {RootDir}, fresh \in Links :
           LET o == StartWrite(f, startPos, in, start, fresh)
           IN  o \in WriteCalls /\ o.pc = "skip" /\ o.cur = start
    BY <2>1, Numbers DEF StartWrite, WriteCalls, WritePcs, Links
  <2>3. CASE entry[f].start # 0
    <3>1. entry[f].start \in Clusters \ {RootDir}
      BY <1>1, <2>3 DEF Links
    <3>2. op' = StartWrite(f, startPos, in, entry[f].start, 0)
          /\ UNCHANGED <<fat, fatCopy, entry>>
      BY <1>11, <2>3 DEF writeFile
    <3>3. op' \in WriteCalls /\ op'.pc = "skip" /\ op'.cur = entry[f].start
      BY <1>5, <2>2, <3>1, <3>2
    <3> QED  BY <1>2, <1>5, <3>1, <3>2, <3>3, SurvivesWrite DEF Links
  <2>4. CASE entry[f].start = 0
    <3>1. PICK ok \in BOOLEAN :
            /\ writeFATEntry(free, FAT_ENTRY_USED, ok)
            /\ Continue(ok, StartWrite(f, startPos, in, free, free))
      BY <1>11, <2>4 DEF writeFile, free
    <3>2. TableSafe' /\ UNCHANGED entry /\ free \in Clusters \ {RootDir}
      BY <1>1, <1>6, <1>11, <2>4, <3>1, EntryWritten DEF writeFile, free, Links
    <3>3. CASE ok
      <4>1. op' = StartWrite(f, startPos, in, free, free)
        BY <3>1, <3>3 DEF Continue
      <4>2. op' \in WriteCalls /\ op'.pc = "skip" /\ op'.cur = free
        BY <2>2, <3>2, <4>1 DEF Links
      <4> QED  BY <3>2, <4>2, SurvivesWrite DEF Links
    <3>4. CASE ~ ok
      <4>1. op' = Idle
        BY <3>1, <3>4 DEF Continue
      <4> QED  BY <1>1, <3>2, <4>1, SurvivesIdle
    <3> QED  BY <3>3, <3>4
  <2> QED  BY <2>3, <2>4
<1>12. ASSUME createEntry PROVE SurvivesInv'
  <2>1. op.pc = "entry" /\ op' = Idle /\ UNCHANGED <<fat, fatCopy>>
    BY <1>12 DEF createEntry
  <2>2. op.file \in Files /\ op.start \in Links
    BY <1>1, <2>1, WriteCall DEF SurvivesInv, Links
  <2>3. entry' \in [Files -> [start : Links, size : Int]]
    BY <1>1, <1>12, <2>2 DEF createEntry
  <2> QED  BY <1>2, <2>1, <2>3, SurvivesIdle
<1>13. ASSUME skipCluster PROVE SurvivesInv'
  <2> DEFINE v == fat[op.cur]
  <2>0. op.pc = "skip" /\ UNCHANGED <<fat, fatCopy, entry>>
    BY <1>13 DEF skipCluster
  <2>1. op.pc = "skip" /\ op \in WriteCalls /\ op.cur \in Clusters \ {RootDir}
        /\ UNCHANGED <<fat, fatCopy, entry>> /\ op.cur \in Links
    BY <1>3, <1>4, <1>5, <2>0, Numbers DEF SurvivesInv, WritePcs, Links
  <2>2. v \in Links \cup {FAT_ENTRY_USED}
    BY <1>1, <2>1, Numbers DEF TableSafe, Links, Values
  <2>3. ~ EndOfChain(v) => v \in Clusters \ {RootDir}
    BY <2>2, Numbers DEF EndOfChain, Links
  <2> HIDE DEF v
  <2>4. CASE op.skip = 0
    <3>1. op' = [op EXCEPT !.pc = "unlink", !.old = op.cur, !.next = v]
      BY <1>13, <2>4 DEF skipCluster, v
    <3>2. IsLocal(op', "unlink", op.cur, op.cur, v, op.skip, op.i, op.written)
      BY <1>4, <1>7, <2>1, <2>2, <3>1, Updates, ZenonT(40) DEF WritePcs
    <3> QED  BY <1>2, <1>5, <2>1, <3>2, SurvivesWrite DEF IsLocal
  <2>5. CASE op.skip # 0 /\ ~ EndOfChain(v)
    <3>1. op' = [op EXCEPT !.cur = v, !.skip = op.skip - 1]
      BY <1>13, <2>5 DEF skipCluster, v
    <3>a. op.skip \in Nat /\ op.skip # 0
      BY <1>4, <2>1, <2>5
    <3>b. op.skip - 1 \in Nat
      BY <3>a
    <3>2. op.skip - 1 \in Nat /\ v \in Clusters \ {RootDir} /\ v \in Values
      BY <2>3, <2>5, <3>b, Numbers
    <3>3. IsLocal(op', op.pc, v, op.old, op.next, op.skip - 1, op.i, op.written)
      BY <1>4, <2>1, <3>1, <3>2, Updates, ZenonT(40)
    <3> QED  BY <1>2, <1>5, <2>1, <3>2, <3>3, SurvivesWrite DEF IsLocal, Links
  <2>6. CASE op.skip # 0 /\ EndOfChain(v) /\ op.skip = 1
    <3>1. op' = [op EXCEPT !.pc = "append"]
      BY <1>13, <2>6 DEF skipCluster, v
    <3>2. IsLocal(op', "append", op.cur, op.old, op.next, op.skip, op.i, op.written)
      BY <1>4, <1>7, <2>1, <3>1, Updates, ZenonT(40) DEF WritePcs
    <3> QED  BY <1>2, <1>5, <2>1, <3>2, SurvivesWrite DEF IsLocal
  <2>7. CASE op.skip # 0 /\ EndOfChain(v) /\ op.skip # 1
    <3>1. op' = Idle
      BY <1>13, <2>7 DEF skipCluster, v
    <3> QED  BY <1>1, <1>2, <2>1, <3>1, SurvivesIdle
  <2> QED  BY <2>4, <2>5, <2>6, <2>7
<1>14. ASSUME appendCluster PROVE SurvivesInv'
  <2>1. op.pc = "append" /\ op \in WriteCalls /\ op.cur \in Links /\ UNCHANGED entry
    BY <1>3, <1>4, <1>5, <1>14, Numbers DEF appendCluster, SurvivesInv, WritePcs
  <2>2. PICK ok \in BOOLEAN :
          /\ writeFATEntry(op.cur, free, ok)
          /\ Continue(ok, [op EXCEPT !.pc = "appended", !.next = free])
    BY <1>14 DEF appendCluster, free
  <2>3. TableSafe'
    BY <1>1, <2>1, <2>2, EntryWritten DEF free
  <2>4. CASE ok
    <3>1. op' = [op EXCEPT !.pc = "appended", !.next = free]
      BY <2>2, <2>4 DEF Continue
    <3>2. IsLocal(op', "appended", op.cur, op.old, free, op.skip, op.i, op.written)
      BY <1>1, <1>4, <1>7, <2>1, <3>1, Updates, ZenonT(40) DEF WritePcs, free
    <3> QED  BY <1>1, <1>5, <2>1, <2>3, <3>2, SurvivesWrite DEF IsLocal, free
  <2>5. CASE ~ ok
    <3>1. op' = Idle
      BY <2>2, <2>5 DEF Continue
    <3> QED  BY <1>1, <2>1, <2>3, <3>1, SurvivesIdle
  <2> QED  BY <2>4, <2>5
<1>15. ASSUME markAppended PROVE SurvivesInv'
  <2>1. op.pc = "appended" /\ op \in WriteCalls /\ op.next \in Links /\ UNCHANGED entry
    BY <1>3, <1>15 DEF markAppended, SurvivesInv, WritePcs
  <2>2. PICK ok \in BOOLEAN :
          /\ writeFATEntry(op.next, FAT_ENTRY_USED, ok)
          /\ Continue(ok, [op EXCEPT !.pc = "unlink", !.cur = op.next,
                                     !.old = op.next, !.next = FAT_ENTRY_USED])
    BY <1>15 DEF markAppended
  <2>3. TableSafe'
    BY <1>1, <1>6, <2>1, <2>2, EntryWritten
  <2>4. CASE ok
    <3>1. op' = [op EXCEPT !.pc = "unlink", !.cur = op.next, !.old = op.next,
                           !.next = FAT_ENTRY_USED]
      BY <2>2, <2>4 DEF Continue
    <3>2. IsLocal(op', "unlink", op.next, op.next, FAT_ENTRY_USED, op.skip, op.i, op.written)
      BY <1>4, <1>6, <1>7, <2>1, <3>1, Updates, ZenonT(40) DEF WritePcs
    <3> QED  BY <1>5, <2>1, <2>3, <3>2, SurvivesWrite DEF IsLocal
  <2>5. CASE ~ ok
    <3>1. op' = Idle
      BY <2>2, <2>5 DEF Continue
    <3> QED  BY <1>1, <2>1, <2>3, <3>1, SurvivesIdle
  <2> QED  BY <2>4, <2>5
<1>16. ASSUME unlinkNext PROVE SurvivesInv'
  <2> DEFINE v == fat[op.next]
  <2>1. op.pc = "unlink" /\ op \in WriteCalls /\ op.next \in Clusters \ {RootDir}
        /\ UNCHANGED entry /\ op.next \in Links
    BY <1>3, <1>4, <1>16, Numbers DEF unlinkNext, WritePcs, Links, EndOfChain
  <2>2. v \in Links \cup {FAT_ENTRY_USED} /\ op.cur \in Links
    BY <1>1, <1>4, <1>5, <2>1, Numbers DEF TableSafe, Links, Values, SurvivesInv
  <2> HIDE DEF v
  <2>3. PICK ok \in BOOLEAN : /\ writeFATEntry(op.next, FAT_ENTRY_FREE, ok)
                              /\ Continue(ok, [op EXCEPT !.next = v])
    BY <1>16 DEF unlinkNext, v
  <2>4. TableSafe'
    BY <1>1, <1>6, <2>1, <2>3, EntryWritten
  <2>5. CASE ok
    <3>1. op' = [op EXCEPT !.next = v]
      BY <2>3, <2>5 DEF Continue
    <3>2. IsLocal(op', op.pc, op.cur, op.old, v, op.skip, op.i, op.written)
      BY <1>4, <1>7, <2>1, <2>2, <3>1, Updates, ZenonT(40) DEF WritePcs
    <3> QED  BY <1>5, <2>1, <2>2, <2>4, <3>2, SurvivesWrite DEF IsLocal
  <2>6. CASE ~ ok
    <3>1. op' = Idle
      BY <2>3, <2>6 DEF Continue
    <3> QED  BY <1>1, <2>1, <2>4, <3>1, SurvivesIdle
  <2> QED  BY <2>5, <2>6
<1>17. ASSUME unlinkEnd PROVE SurvivesInv'
  <2>1. op.pc = "unlink" /\ op \in WriteCalls /\ op.cur \in Links /\ UNCHANGED entry
    BY <1>3, <1>4, <1>5, <1>17 DEF unlinkEnd, SurvivesInv, WritePcs
  <2>2. PICK ok \in BOOLEAN : /\ writeFATEntry(op.cur, FAT_ENTRY_USED, ok)
                              /\ Continue(ok, [op EXCEPT !.pc = "write"])
    BY <1>17 DEF unlinkEnd
  <2>3. TableSafe'
    BY <1>1, <1>6, <2>1, <2>2, EntryWritten
  <2>4. CASE ok
    <3>1. op' = [op EXCEPT !.pc = "write"]
      BY <2>2, <2>4 DEF Continue
    <3>2. IsLocal(op', "write", op.cur, op.old, op.next, op.skip, op.i, op.written)
      BY <1>4, <1>7, <2>1, <3>1, Updates, ZenonT(40) DEF WritePcs
    <3> QED  BY <2>1, <2>3, <3>2, SurvivesWrite DEF IsLocal
  <2>5. CASE ~ ok
    <3>1. op' = Idle
      BY <2>2, <2>5 DEF Continue
    <3> QED  BY <1>1, <2>1, <2>3, <3>1, SurvivesIdle
  <2> QED  BY <2>4, <2>5
<1>18. ASSUME writeCluster PROVE SurvivesInv'
  <2> DEFINE v == fat[op.cur]
             w == op.written + chunk
             j == op.i + 1
             o == [op EXCEPT !.i = j, !.written = w]
  <2>1. op.pc = "write" /\ op \in WriteCalls /\ UNCHANGED <<fat, fatCopy, entry>>
    BY <1>3, <1>18 DEF writeCluster, WritePcs
  <2>2. w \in Nat /\ j \in Nat
    BY <2>1, WrittenCounts
  <2>3. op.cur \in Entries => v \in Links \cup {RESERVED, FAT_ENTRY_USED}
    BY <1>1, Numbers DEF TableSafe, Links, Values
  <2>4. PICK ok \in BOOLEAN :
          Continue(ok /\ op.cur \in Entries,
                   IF j = clustersToWrite THEN [o EXCEPT !.pc = "directory"]
                   ELSE IF v = FAT_ENTRY_USED THEN [o EXCEPT !.pc = "grow"]
                   ELSE [o EXCEPT !.cur = v])
    BY <1>18 DEF writeCluster
  <2>5. \A p \in WritePcs, c \in Values :
          /\ IsLocal([o EXCEPT !.pc = p], p, op.cur, op.old, op.next, op.skip, j, w)
          /\ IsLocal([o EXCEPT !.cur = c], op.pc, c, op.old, op.next, op.skip, j, w)
    <3> HIDE DEF w, j
    <3>1. SUFFICES ASSUME NEW p \in WritePcs, NEW c \in Values
                   PROVE
          /\ IsLocal([o EXCEPT !.pc = p], p, op.cur, op.old, op.next, op.skip, j, w)
          /\ IsLocal([o EXCEPT !.cur = c], op.pc, c, op.old, op.next, op.skip, j, w)
      OBVIOUS
    <3> QED  BY <1>4, <2>1, <2>2, Updates, Numbers, ZenonT(40)
  <2> HIDE DEF v, w, j, o
  <2>6. CASE ~ (ok /\ op.cur \in Entries)
    <3>1. op' = Idle
      BY <2>4, <2>6 DEF Continue
    <3> QED  BY <1>1, <1>2, <2>1, <3>1, SurvivesIdle
  <2>7. CASE ok /\ op.cur \in Entries /\ j = clustersToWrite
    <3>1. op' = [o EXCEPT !.pc = "directory"]
      BY <2>4, <2>7 DEF Continue
    <3>2. IsLocal(op', "directory", op.cur, op.old, op.next, op.skip, j, w)
      BY <2>5, <3>1, Numbers DEF WritePcs
    <3> QED  BY <1>2, <1>4, <2>1, <3>2, SurvivesWrite DEF IsLocal
  <2>8. CASE ok /\ op.cur \in Entries /\ j # clustersToWrite /\ v = FAT_ENTRY_USED
    <3>1. op' = [o EXCEPT !.pc = "grow"]
      BY <2>4, <2>8 DEF Continue
    <3>2. IsLocal(op', "grow", op.cur, op.old, op.next, op.skip, j, w)
      BY <2>5, <3>1, Numbers DEF WritePcs
    <3> QED  BY <1>2, <1>4, <2>1, <3>2, SurvivesWrite DEF IsLocal
  <2>9. CASE ok /\ op.cur \in Entries /\ j # clustersToWrite /\ v # FAT_ENTRY_USED
    <3>1. op' = [o EXCEPT !.cur = v]
      BY <2>4, <2>9 DEF Continue
    <3>2. v \in Links \cup {RESERVED} /\ v \in Values
      BY <1>7, <2>3, <2>9, Numbers
    <3>a. IsLocal([o EXCEPT !.cur = v], op.pc, v, op.old, op.next, op.skip, j, w)
      BY <2>1, <2>5, <3>2, Zenon DEF WritePcs
    <3>3. IsLocal(op', op.pc, v, op.old, op.next, op.skip, j, w)
      BY <3>1, <3>a, Zenon
    <3> QED  BY <1>2, <2>1, <3>2, <3>3, SurvivesWrite DEF IsLocal
  <2> QED  BY <2>6, <2>7, <2>8, <2>9
<1>19. ASSUME growChain PROVE SurvivesInv'
  <2>1. op.pc = "grow" /\ op \in WriteCalls /\ UNCHANGED entry
        /\ op' = [op EXCEPT !.pc = "grown", !.next = free]
    BY <1>3, <1>19 DEF growChain, WritePcs, free
  <2>2. PICK ok \in BOOLEAN : writeFATEntry(op.old, free, ok)
    BY <1>19 DEF growChain, free
  <2>3. TableSafe'
    BY <1>1, <1>4, <2>1, <2>2, EntryWritten DEF free
  <2>4. IsLocal(op', "grown", op.cur, op.old, free, op.skip, op.i, op.written)
    BY <1>1, <1>4, <1>7, <2>1, Updates, Numbers, ZenonT(40) DEF WritePcs, free
  <2> QED  BY <1>1, <1>4, <2>1, <2>3, <2>4, SurvivesWrite DEF IsLocal, free
<1>20. ASSUME markGrown PROVE SurvivesInv'
  <2>1. op.pc = "grown" /\ op \in WriteCalls /\ UNCHANGED entry /\ op.next \in Links
        /\ op' = [op EXCEPT !.pc = "write", !.cur = op.next, !.old = op.next]
    BY <1>3, <1>20 DEF markGrown, WritePcs, SurvivesInv
  <2>2. PICK ok \in BOOLEAN : writeFATEntry(op.next, FAT_ENTRY_USED, ok)
    BY <1>20 DEF markGrown
  <2>3. TableSafe'
    BY <1>1, <1>6, <2>1, <2>2, EntryWritten
  <2>4. IsLocal(op', "write", op.next, op.next, op.next, op.skip, op.i, op.written)
    BY <1>4, <1>7, <2>1, Updates, ZenonT(40) DEF WritePcs
  <2> QED  BY <2>1, <2>3, <2>4, SurvivesWrite DEF IsLocal
<1>21. ASSUME updateEntry PROVE SurvivesInv'
  <2>1. op.pc = "directory" /\ op \in WriteCalls /\ UNCHANGED <<fat, fatCopy>> /\ op' = Idle
    BY <1>3, <1>21 DEF updateEntry, WritePcs
  <2>2. op.file \in Files /\ op.fresh \in Links /\ op.startPos + Len(op.in) \in Int
    <3>1. op.in \in Seq(Int) /\ op.startPos \in Nat
      BY <2>1, WriteCallFields, ClusterAssumption
    <3>2. Len(op.in) \in Nat
      BY <3>1
    <3> QED  BY <1>4, <2>1, <3>1, <3>2
  <2>3. entry[op.file].start \in Links
    BY <1>1, <2>2
  <2>4. entry' \in [Files -> [start : Links, size : Int]]
    <3>1. \/ UNCHANGED entry
          \/ entry' = [entry EXCEPT ![op.file] =
                         [start |-> IF op.fresh > 0 THEN op.fresh ELSE entry[op.file].start,
                          size  |-> op.startPos + Len(op.in)]]
      BY <1>21 DEF updateEntry
    <3> QED  BY <1>1, <2>2, <2>3, <3>1
  <2> QED  BY <1>2, <2>1, <2>4, SurvivesIdle
<1>22. CASE UNCHANGED vars
  BY <1>22 DEF vars, SurvivesInv, RootDirSafe, Starts, Calls, Links, Values
<1> QED  BY <1>10, <1>11, <1>12, <1>13, <1>14, <1>15, <1>16, <1>17, <1>18, <1>19, <1>20,
            <1>21, <1>22 DEF Next, Step

LEMMA SurvivesInit == Init => SurvivesInv
<1> SUFFICES ASSUME Init PROVE SurvivesInv
  OBVIOUS
<1>1. /\ fat \in [Entries -> Values] /\ fat[1] = RESERVED /\ fat[RootDir] = FAT_ENTRY_USED
      /\ \A c \in Entries : fat[c] \in {RESERVED, FAT_ENTRY_USED, FAT_ENTRY_FREE}
      /\ \A c \in Clusters : fat[c] \in {FAT_ENTRY_USED, FAT_ENTRY_FREE}
  BY Numbers DEF Init, Entries, Clusters
<1>2. entry \in [Files -> [start : Links, size : Int]]
  BY DEF Init, NoFile, Links
<1>3. \A f \in Files : entry[f].start = 0
  BY DEF Init, NoFile
<1>4. RootDir \notin Starts
  BY <1>3, Numbers DEF Starts
<1>5. op \in Calls /\ op.pc = "idle"
  BY DEF Init, Calls, Idle
<1>6. \A c \in Entries : fat[c] # RootDir
  BY <1>1, Numbers
<1>7. \A c \in Clusters : fat[c] # RESERVED
  BY <1>1, Numbers
<1> QED  BY <1>1, <1>2, <1>4, <1>5, <1>6, <1>7 DEF SurvivesInv, RootDirSafe, WritePcs

(* Whatever writes fail, and when the disk runs full too, nothing of what  *)
(* writeFile and createFile do leads to the cluster of the root directory. *)
THEOREM RootDirSurvives == Spec => []SurvivesInv
BY SurvivesInit, SurvivesStep, PTL DEF Spec
-----------------------------------------------------------------------------
(* Chains.  In these lemmas one entry of the table changes.                *)

LEMMA ChainBegins ==
    ASSUME NEW a
    PROVE  InChain(a, a)
BY DEF InChain

LEMMA ChainNext ==
    ASSUME NEW a, NEW c \in Clusters, InChain(a, c), fat[c] \in Clusters
    PROVE  InChain(a, fat[c])
<1> SUFFICES ASSUME NEW S \in SUBSET (Clusters \ {fat[c]}), a \in S, Closed(S)
             PROVE  FALSE
  BY DEF InChain
<1>1. c \notin S
  BY DEF Closed
<1>2. S \in SUBSET (Clusters \ {c})
  BY <1>1
<1> QED  BY <1>2 DEF InChain

(* What happens to the entry of c does not matter for the way to c.        *)
LEMMA ChainEnd ==
    ASSUME NEW a, NEW c \in Clusters, InChain(a, c), fat \in [Entries -> Values],
           NEW v, fat' = [fat EXCEPT ![c] = v]
    PROVE  InChain(a, c)'
<1> SUFFICES ASSUME NEW S \in SUBSET (Clusters \ {c}), a \in S, Closed(S)'
             PROVE  FALSE
  BY DEF InChain
<1>1. \A d \in S : fat'[d] = fat[d]
  BY Numbers
<1>2. Closed(S)
  BY <1>1 DEF Closed
<1> QED  BY <1>2 DEF InChain

LEMMA ChainSame ==
    ASSUME NEW a, NEW c, UNCHANGED fat
    PROVE  InChain(a, c)' <=> InChain(a, c)
BY DEF InChain, Closed

(* A cluster that does not lead to c may be freed.                         *)
LEMMA ChainFree ==
    ASSUME NEW a, NEW c \in Clusters, InChain(a, c), fat \in [Entries -> Values],
           NEW x \in Clusters, ~ InChain(x, c), NEW v, v \notin Clusters,
           fat' = [fat EXCEPT ![x] = v], NEW n, n = fat[x]
    PROVE  /\ x # c /\ InChain(a, c)'
           /\ n \in Clusters => ~ InChain(n, c)'
<1>1. PICK T \in SUBSET (Clusters \ {c}) : x \in T /\ Closed(T)
  BY DEF InChain
<1>2. \A d \in Clusters : d # x => fat'[d] = fat[d]
  BY Numbers
<1>3. fat'[x] = v
  BY Numbers
<1>4. Closed(T)'
  BY <1>1, <1>2, <1>3 DEF Closed
<1>5. n \in Clusters => n \in T
  BY <1>1 DEF Closed
<1>6. n \in Clusters => ~ InChain(n, c)'
  BY <1>1, <1>4, <1>5 DEF InChain
<1>7. InChain(a, c)'
  <2> SUFFICES ASSUME NEW S \in SUBSET (Clusters \ {c}), a \in S, Closed(S)'
               PROVE  FALSE
    BY DEF InChain
  <2>1. Closed(S \cup T)
    <3> SUFFICES ASSUME NEW d \in S \cup T, fat[d] \in Clusters
                 PROVE  fat[d] \in S \cup T
      BY DEF Closed
    <3>1. CASE d \in T
      BY <1>1, <3>1 DEF Closed
    <3>2. CASE d \notin T
      <4>1. d # x /\ d \in S /\ d \in Clusters
        BY <1>1, <3>2
      <4> QED  BY <1>2, <4>1 DEF Closed
    <3> QED  BY <3>1, <3>2
  <2>2. S \cup T \in SUBSET (Clusters \ {c})
    BY <1>1
  <2> QED  BY <2>1, <2>2 DEF InChain
<1> QED  BY <1>1, <1>6, <1>7

(* In a table without cycles no link leads back to where it comes from.    *)
LEMMA NoWayBack ==
    ASSUME NoCycles, NEW c \in Clusters, fat[c] \in Clusters
    PROVE  ~ InChain(fat[c], c)
<1> SUFFICES ASSUME InChain(fat[c], c) PROVE FALSE
  OBVIOUS
<1> DEFINE W == {d \in Clusters : InChain(d, c)}
<1>1. c \in W
  BY ChainBegins
<1>2. ASSUME NEW d \in W PROVE fat[d] \in Clusters /\ fat[d] \in W
  <2>1. CASE d = c
    BY <2>1
  <2>2. CASE d # c
    <3>1. fat[d] \in Clusters
      <4> SUFFICES ASSUME fat[d] \notin Clusters PROVE FALSE
        OBVIOUS
      <4>1. Closed({d}) /\ {d} \in SUBSET (Clusters \ {c})
        BY <2>2 DEF Closed
      <4> QED  BY <4>1 DEF InChain
    <3>2. InChain(fat[d], c)
      <4> SUFFICES ASSUME NEW S \in SUBSET (Clusters \ {c}), fat[d] \in S, Closed(S)
                   PROVE  FALSE
        BY DEF InChain
      <4>1. Closed(S \cup {d}) /\ S \cup {d} \in SUBSET (Clusters \ {c})
        BY <2>2 DEF Closed
      <4> QED  BY <4>1 DEF InChain
    <3> QED  BY <3>1, <3>2
  <2> QED  BY <2>1, <2>2
<1>3. W \in SUBSET {d \in Clusters : fat[d] \in Clusters}
  BY <1>2
<1> HIDE DEF W
<1>4. \E d \in W : fat[d] \notin W
  BY <1>1, <1>3 DEF NoCycles
<1> QED  BY <1>2, <1>4

LEMMA CyclesCut ==
    ASSUME NoCycles, fat \in [Entries -> Values], NEW x \in Clusters, NEW v,
           v \notin Clusters, fat' = [fat EXCEPT ![x] = v]
    PROVE  NoCycles'
<1> SUFFICES ASSUME NEW S \in SUBSET {c \in Clusters : fat'[c] \in Clusters}, S # {}
             PROVE  \E c \in S : fat'[c] \notin S
  BY DEF NoCycles
<1>1. fat'[x] = v /\ \A c \in Clusters : c # x => fat'[c] = fat[c]
  BY Numbers
<1>2. S \in SUBSET {c \in Clusters : fat[c] \in Clusters}
  BY <1>1
<1>3. PICK c \in S : fat[c] \notin S
  BY <1>2 DEF NoCycles
<1> QED  BY <1>1, <1>3

LEMMA CyclesLink ==
    ASSUME NoCycles, fat \in [Entries -> Values], NEW x \in Clusters, NEW v \in Clusters,
           v # x, fat[v] \notin Clusters, fat' = [fat EXCEPT ![x] = v]
    PROVE  NoCycles'
<1> SUFFICES ASSUME NEW S \in SUBSET {c \in Clusters : fat'[c] \in Clusters}, S # {}
             PROVE  \E c \in S : fat'[c] \notin S
  BY DEF NoCycles
<1>1. fat'[x] = v /\ \A c \in Clusters : c # x => fat'[c] = fat[c]
  BY Numbers
<1>2. v \notin S
  BY <1>1
<1>3. CASE x \in S
  BY <1>1, <1>2, <1>3
<1>4. CASE x \notin S
  <2>1. S \in SUBSET {c \in Clusters : fat[c] \in Clusters}
    BY <1>1, <1>4
  <2>2. PICK c \in S : fat[c] \notin S
    BY <2>1 DEF NoCycles
  <2> QED  BY <1>1, <1>4, <2>2
<1> QED  BY <1>3, <1>4
-----------------------------------------------------------------------------
(* The table, without faults and while there is room.                      *)

Structure == NoCrossLinks /\ NoCycles /\ NoLooseEnds

(* The entry of x has become v, in the table and in its copy.              *)
Written(x, v) ==
    fat' = [fat EXCEPT ![x] = v] /\ fatCopy' = [fatCopy EXCEPT ![x] = v]

LEMMA NoFault ==
    ASSUME IoFaults = FALSE, NEW x, NEW v, NEW ok, writeFATEntry(x, v, ok)
    PROVE  ok /\ Written(x, v)
BY DEF writeFATEntry, Written

TableType ==
    /\ fat \in [Entries -> Values]
    /\ fatCopy \in [Entries -> Values]
    /\ \A c \in Entries : fat[c] = RESERVED <=> c < 2

LEMMA WrittenType ==
    ASSUME TableType, NEW x \in Clusters, NEW v \in Values, v # RESERVED, Written(x, v)
    PROVE  /\ TableType'
           /\ fat'[x] = v /\ \A c \in Entries : c # x => fat'[c] = fat[c]
<1>1. x \in Entries /\ ~ (x < 2)
  BY Numbers DEF Clusters
<1> QED  BY <1>1 DEF TableType, Written

(* While there is room the search answers a cluster that nothing leads to. *)
LEMMA FreeCluster ==
    ASSUME TableType, NoLooseEnds, FreeEntries # {}
    PROVE  /\ getFreeFatEntryCluster \in Clusters \ {RootDir}
           /\ fat[getFreeFatEntryCluster] = FAT_ENTRY_FREE
<1>1. getFreeFatEntryCluster \in Entries /\ fat[getFreeFatEntryCluster] = FAT_ENTRY_FREE
  BY FreeEntry DEF FreeEntries
<1>2. fat[RootDir] # FAT_ENTRY_FREE
  BY DEF NoLooseEnds, Heads
<1>3. fat[0] = RESERVED /\ fat[1] = RESERVED /\ RESERVED # FAT_ENTRY_FREE
  BY Numbers DEF TableType
<1> QED  BY <1>1, <1>2, <1>3, Numbers

LEMMA FreeUnlinked ==
    ASSUME NoLooseEnds, NEW x \in Clusters, fat[x] = FAT_ENTRY_FREE,
           \A c \in Clusters : ~ Loose(c)
    PROVE  x \notin Heads /\ \A c \in Clusters : fat[c] # x
BY DEF NoLooseEnds

LEMMA HeadsAreClusters ==
    ASSUME op \in Calls
    PROVE  Heads \subseteq Clusters
<1>1. Pending \subseteq Clusters
  BY WriteCall DEF Pending
<1> QED  BY <1>1, Numbers DEF Heads, Starts

(* A call that goes on keeps the heads of all chains.                      *)
LEMMA SameHeads ==
    ASSUME op \in WriteCalls, op' \in WriteCalls, UNCHANGED entry,
           op'.fresh = op.fresh, op'.file = op.file
    PROVE  /\ Starts' = Starts /\ Pending' = Pending /\ Heads' = Heads
           /\ OpStart' = OpStart
<1>1. op.pc \in WritePcs /\ op'.pc \in WritePcs
  BY DEF WriteCalls
<1>2. op.pc # "entry" /\ op'.pc # "entry"
  BY <1>1 DEF WritePcs
<1>3. Starts' = Starts /\ Pending' = Pending /\ OpStart' = OpStart
  BY <1>1, <1>2 DEF Starts, Pending, OpStart
<1> QED  BY <1>3 DEF Heads

KeptHeads == Starts' = Starts /\ Pending' = Pending /\ Heads' = Heads /\ entry' = entry

(* Nothing of the table changes.                                           *)
LEMMA StructureSame ==
    ASSUME Structure, UNCHANGED fat, KeptHeads,
           \A c \in Clusters : ~ Loose(c), op.pc # "unlink"
    PROVE  Structure'
<1>1. NoCrossLinks'
  BY DEF Structure, NoCrossLinks, KeptHeads
<1>2. NoCycles'
  BY DEF Structure, NoCycles
<1>3. NoLooseEnds'
  BY DEF Structure, NoLooseEnds, KeptHeads
<1> QED  BY <1>1, <1>2, <1>3 DEF Structure

(* A free cluster v is linked behind the end x of a chain.                 *)
LEMMA StructureLink ==
    ASSUME Structure, TableType, op \in Calls, KeptHeads,
           \A c \in Clusters : ~ Loose(c), op.pc # "unlink",
           NEW x \in Clusters, fat[x] = FAT_ENTRY_USED,
           NEW v \in Clusters, fat[v] = FAT_ENTRY_FREE, Written(x, v), Loose(x)'
    PROVE  Structure'
<1>1. v \notin Heads /\ \A c \in Clusters : fat[c] # v
  BY FreeUnlinked DEF Structure
<1>2. v \in Values /\ v # RESERVED /\ v # FAT_ENTRY_FREE
  BY Numbers DEF Clusters
<1>3. fat'[x] = v /\ \A c \in Entries : c # x => fat'[c] = fat[c]
  BY <1>2, WrittenType
<1>4. v # x /\ fat[v] \notin Clusters /\ fat[x] \notin Clusters /\ Clusters \subseteq Entries
  BY Numbers DEF Clusters
<1>5. NoCrossLinks'
  BY <1>1, <1>3, <1>4 DEF Structure, NoCrossLinks, KeptHeads
<1>6. NoCycles'
  BY <1>4, CyclesLink DEF Structure, TableType, Written
<1>7. NoLooseEnds'
  <2>1. ASSUME NEW c \in Clusters, fat'[c] \in Clusters, ~ Loose(c)'
        PROVE  fat'[fat'[c]] # FAT_ENTRY_FREE
    <3>1. c # x /\ fat'[c] = fat[c] /\ fat[fat[c]] # FAT_ENTRY_FREE
      BY <1>3, <1>4, <2>1 DEF Structure, NoLooseEnds
    <3> QED  BY <1>2, <1>3, <1>4, <2>1, <3>1
  <2>2. \A c \in Heads' : fat'[c] # FAT_ENTRY_FREE
    <3>1. Heads \subseteq Clusters
      BY HeadsAreClusters
    <3> QED  BY <1>2, <1>3, <1>4, <3>1 DEF Structure, NoLooseEnds, KeptHeads
  <2>3. ASSUME NEW c \in Clusters \ Heads'
        PROVE  \/ fat'[c] = FAT_ENTRY_FREE
               \/ \E d \in Clusters : fat'[d] = c
    <3>1. fat[c] = FAT_ENTRY_FREE \/ \E d \in Clusters : fat[d] = c
      BY <2>3 DEF Structure, NoLooseEnds, KeptHeads
    <3>2. CASE fat[c] = FAT_ENTRY_FREE
      <4>1. c # x
        BY <3>2, Numbers
      <4> QED  BY <1>3, <1>4, <3>2, <4>1
    <3>3. ASSUME NEW d \in Clusters, fat[d] = c
          PROVE  \E e \in Clusters : fat'[e] = c
      <4>1. d # x
        BY <1>4, <3>3
      <4> QED  BY <1>3, <1>4, <3>3, <4>1
    <3> QED  BY <3>1, <3>2, <3>3
  <2> QED  BY <2>1, <2>2, <2>3 DEF NoLooseEnds
<1> QED  BY <1>5, <1>6, <1>7 DEF Structure

(* An entry that is no longer a link crosses no other.                     *)
LEMMA CrossCut ==
    ASSUME NoCrossLinks, op \in Calls, KeptHeads, NEW x \in Clusters, NEW v, v \notin Clusters,
           fat'[x] = v, \A c \in Entries : c # x => fat'[c] = fat[c]
    PROVE  NoCrossLinks'
<1>1. Clusters \subseteq Entries /\ Heads \subseteq Clusters
  BY Numbers, HeadsAreClusters
<1>2. ASSUME NEW c \in Clusters, NEW d \in Clusters, c # d, fat'[c] = fat'[d]
      PROVE  fat'[c] \notin Clusters
  <2>1. CASE c = x \/ d = x
    BY <1>2, <2>1
  <2>2. CASE c # x /\ d # x
    BY <1>1, <1>2, <2>2 DEF NoCrossLinks
  <2> QED  BY <2>1, <2>2
<1>3. ASSUME NEW c \in Clusters PROVE fat'[c] \notin Heads'
  <2>1. CASE c = x
    BY <1>1, <2>1 DEF KeptHeads
  <2>2. CASE c # x
    BY <1>1, <2>2 DEF NoCrossLinks, KeptHeads
  <2> QED  BY <2>1, <2>2
<1> QED  BY <1>2, <1>3 DEF NoCrossLinks, KeptHeads

(* A cluster that has been linked behind x is marked.                      *)
LEMMA StructureMark ==
    ASSUME Structure, TableType, op \in Calls, KeptHeads,
           NEW x \in Clusters, \A c \in Clusters : Loose(c) => c = x, op.pc # "unlink",
           NEW v \in Clusters, fat[x] = v, fat[v] = FAT_ENTRY_FREE,
           Written(v, FAT_ENTRY_USED)
    PROVE  Structure'
<1>1. /\ fat'[v] = FAT_ENTRY_USED /\ \A c \in Entries : c # v => fat'[c] = fat[c]
      /\ FAT_ENTRY_USED \notin Clusters /\ FAT_ENTRY_FREE \notin Clusters
      /\ FAT_ENTRY_USED # FAT_ENTRY_FREE /\ Clusters \subseteq Entries
  BY WrittenType, Numbers DEF Clusters
<1>2. v # x
  BY <1>1
<1>3. NoCrossLinks'
  BY <1>1, CrossCut DEF Structure
<1>4. NoCycles'
  BY <1>1, CyclesCut DEF Structure, TableType, Written
<1>5. NoLooseEnds'
  <2>1. ASSUME NEW c \in Clusters, fat'[c] \in Clusters
        PROVE  fat'[fat'[c]] # FAT_ENTRY_FREE
    <3>1. c # v /\ fat'[c] = fat[c]
      BY <1>1, <2>1
    <3>2. CASE fat[c] = v
      BY <1>1, <3>1, <3>2
    <3>3. CASE fat[c] # v
      <4>1. c # x /\ ~ Loose(c)
        BY <3>3
      <4>2. fat[fat[c]] # FAT_ENTRY_FREE
        BY <2>1, <3>1, <4>1 DEF Structure, NoLooseEnds
      <4> QED  BY <1>1, <2>1, <3>1, <3>3, <4>2
    <3> QED  BY <3>2, <3>3
  <2>2. \A c \in Heads' : fat'[c] # FAT_ENTRY_FREE
    <3>1. Heads \subseteq Clusters
      BY HeadsAreClusters
    <3> QED  BY <1>1, <3>1 DEF Structure, NoLooseEnds, KeptHeads
  <2>3. ASSUME NEW c \in Clusters \ Heads'
        PROVE  \/ fat'[c] = FAT_ENTRY_FREE
               \/ \E d \in Clusters : fat'[d] = c
    <3>1. fat[c] = FAT_ENTRY_FREE \/ \E d \in Clusters : fat[d] = c
      BY <2>3 DEF Structure, NoLooseEnds, KeptHeads
    <3>2. CASE c = v
      BY <1>1, <1>2, <3>2
    <3>3. CASE c # v /\ fat[c] = FAT_ENTRY_FREE
      BY <1>1, <3>3
    <3>4. ASSUME NEW d \in Clusters, fat[d] = c
          PROVE  \E e \in Clusters : fat'[e] = c
      <4>1. d # v
        BY <1>1, <3>4
      <4> QED  BY <1>1, <3>4, <4>1
    <3> QED  BY <3>1, <3>2, <3>3, <3>4
  <2> QED  BY <2>1, <2>2, <2>3 DEF NoLooseEnds
<1> QED  BY <1>3, <1>4, <1>5 DEF Structure

(* unlinkFatChain frees v, which only the entry of x may lead to; v was    *)
(* linked to n.                                                            *)
LEMMA StructureFree ==
    ASSUME Structure, TableType, op \in Calls, KeptHeads,
           NEW x \in Clusters, \A c \in Clusters : Loose(c) => c = x, Loose(x)',
           NEW v \in Clusters, v # x, v \notin Heads, op.next = v,
           \A c \in Clusters : fat[c] = v => c = x,
           Written(v, FAT_ENTRY_FREE), op'.pc = "unlink", op'.next = fat[v]
    PROVE  Structure'
<1>1. /\ fat'[v] = FAT_ENTRY_FREE /\ \A c \in Entries : c # v => fat'[c] = fat[c]
      /\ FAT_ENTRY_FREE \notin Clusters /\ Clusters \subseteq Entries
  BY WrittenType, Numbers DEF Clusters
<1>2. NoCrossLinks'
  BY <1>1, CrossCut DEF Structure
<1>3. NoCycles'
  BY <1>1, CyclesCut DEF Structure, TableType, Written
<1>4. NoLooseEnds'
  <2>1. ASSUME NEW c \in Clusters, fat'[c] \in Clusters, ~ Loose(c)'
        PROVE  fat'[fat'[c]] # FAT_ENTRY_FREE
    <3>1. c # v /\ c # x /\ fat'[c] = fat[c]
      BY <1>1, <2>1
    <3>2. fat[c] # v /\ ~ Loose(c)
      BY <3>1
    <3>3. fat[fat[c]] # FAT_ENTRY_FREE
      BY <2>1, <3>1, <3>2 DEF Structure, NoLooseEnds
    <3> QED  BY <1>1, <2>1, <3>1, <3>2, <3>3
  <2>2. \A c \in Heads' : fat'[c] # FAT_ENTRY_FREE
    <3>1. Heads \subseteq Clusters
      BY HeadsAreClusters
    <3> QED  BY <1>1, <3>1 DEF Structure, NoLooseEnds, KeptHeads
  <2>3. ASSUME NEW c \in Clusters \ Heads'
        PROVE  \/ fat'[c] = FAT_ENTRY_FREE
               \/ op'.pc = "unlink" /\ c = op'.next
               \/ \E d \in Clusters : fat'[d] = c
    <3>1. fat[c] = FAT_ENTRY_FREE \/ c = v \/ \E d \in Clusters : fat[d] = c
      BY <2>3 DEF Structure, NoLooseEnds, KeptHeads
    <3>2. CASE c = v
      BY <1>1, <3>2
    <3>3. CASE c # v /\ fat[c] = FAT_ENTRY_FREE
      BY <1>1, <3>3
    <3>4. ASSUME NEW d \in Clusters, fat[d] = c
          PROVE  op'.next = c \/ \E e \in Clusters : fat'[e] = c
      BY <1>1, <3>4
    <3> QED  BY <3>1, <3>2, <3>3, <3>4
  <2> QED  BY <2>1, <2>2, <2>3 DEF NoLooseEnds
<1> QED  BY <1>2, <1>3, <1>4 DEF Structure

(* unlinkFatChain ends the chain at x.                                     *)
LEMMA StructureEnd ==
    ASSUME Structure, TableType, op \in Calls, KeptHeads,
           NEW x \in Clusters, \A c \in Clusters : Loose(c) => c = x,
           op.next \notin Clusters,
           fat[x] \in Clusters => fat[fat[x]] = FAT_ENTRY_FREE,
           fat[x] # FAT_ENTRY_FREE,
           Written(x, FAT_ENTRY_USED)
    PROVE  Structure'
<1>1. /\ fat'[x] = FAT_ENTRY_USED /\ \A c \in Entries : c # x => fat'[c] = fat[c]
      /\ FAT_ENTRY_USED \notin Clusters /\ FAT_ENTRY_USED # FAT_ENTRY_FREE
      /\ Clusters \subseteq Entries
  BY WrittenType, Numbers DEF Clusters
<1>2. NoCrossLinks'
  BY <1>1, CrossCut DEF Structure
<1>3. NoCycles'
  BY <1>1, CyclesCut DEF Structure, TableType, Written
<1>4. NoLooseEnds'
  <2>1. ASSUME NEW c \in Clusters, fat'[c] \in Clusters
        PROVE  fat'[fat'[c]] # FAT_ENTRY_FREE
    <3>1. c # x /\ fat'[c] = fat[c] /\ ~ Loose(c)
      BY <1>1, <2>1
    <3>2. fat[fat[c]] # FAT_ENTRY_FREE
      BY <2>1, <3>1 DEF Structure, NoLooseEnds
    <3> QED  BY <1>1, <2>1, <3>1, <3>2
  <2>2. \A c \in Heads' : fat'[c] # FAT_ENTRY_FREE
    <3>1. Heads \subseteq Clusters
      BY HeadsAreClusters
    <3> QED  BY <1>1, <3>1 DEF Structure, NoLooseEnds, KeptHeads
  <2>3. ASSUME NEW c \in Clusters \ Heads'
        PROVE  \/ fat'[c] = FAT_ENTRY_FREE
               \/ \E d \in Clusters : fat'[d] = c
    <3>1. fat[c] = FAT_ENTRY_FREE \/ \E d \in Clusters : fat[d] = c
      BY <2>3 DEF Structure, NoLooseEnds, KeptHeads
    <3>2. CASE fat[c] = FAT_ENTRY_FREE
      <4>1. c # x
        BY <3>2
      <4> QED  BY <1>1, <3>2, <4>1
    <3>3. ASSUME NEW d \in Clusters, fat[d] = c
          PROVE  fat'[c] = FAT_ENTRY_FREE \/ \E e \in Clusters : fat'[e] = c
      <4>1. CASE d # x
        BY <1>1, <3>3, <4>1
      <4>2. CASE d = x
        <5>1. fat[c] = FAT_ENTRY_FREE
          BY <2>3, <3>3, <4>2
        <5>2. c # x
          BY <5>1
        <5> QED  BY <1>1, <5>1, <5>2
      <4> QED  BY <4>1, <4>2
    <3> QED  BY <3>1, <3>2, <3>3
  <2> QED  BY <2>1, <2>2, <2>3 DEF NoLooseEnds
<1> QED  BY <1>2, <1>3, <1>4 DEF Structure

(* Between calls a free cluster is marked and becomes a head.              *)
LEMMA StructureNew ==
    ASSUME Structure, TableType, op \in Calls, \A c \in Clusters : ~ Loose(c),
           op.pc # "unlink", Pending = {}, UNCHANGED entry,
           NEW x \in Clusters \ {RootDir}, fat[x] = FAT_ENTRY_FREE,
           Written(x, FAT_ENTRY_USED), Pending' = {x}
    PROVE  Structure'
<1>1. /\ fat'[x] = FAT_ENTRY_USED /\ \A c \in Entries : c # x => fat'[c] = fat[c]
      /\ FAT_ENTRY_USED \notin Clusters /\ FAT_ENTRY_USED # FAT_ENTRY_FREE
      /\ FAT_ENTRY_FREE \notin Clusters /\ Clusters \subseteq Entries
  BY WrittenType, Numbers DEF Clusters
<1>2. x \notin Heads /\ \A c \in Clusters : fat[c] # x
  BY FreeUnlinked DEF Structure
<1>3. Starts' = Starts /\ Heads' = Heads \cup {x} /\ x \notin Starts
  BY <1>2 DEF Starts, Heads
<1>4. NoCrossLinks'
  <2>1. ASSUME NEW c \in Clusters, NEW d \in Clusters, c # d, fat'[c] = fat'[d]
        PROVE  fat'[c] \notin Clusters
    <3>1. CASE c = x \/ d = x
      BY <1>1, <2>1, <3>1
    <3>2. CASE c # x /\ d # x
      BY <1>1, <2>1, <3>2 DEF Structure, NoCrossLinks
    <3> QED  BY <3>1, <3>2
  <2>2. ASSUME NEW c \in Clusters PROVE fat'[c] \notin Heads'
    <3>1. CASE c = x
      <4>1. Heads \subseteq Clusters
        BY HeadsAreClusters
      <4> QED  BY <1>1, <1>3, <3>1, <4>1
    <3>2. CASE c # x
      BY <1>1, <1>2, <1>3, <3>2 DEF Structure, NoCrossLinks
    <3> QED  BY <3>1, <3>2
  <2>3. /\ \A f, g \in Files :
              f # g /\ entry'[f].start = entry'[g].start => entry'[f].start = 0
        /\ RootDir \notin Starts' \cup Pending' /\ Pending' \cap Starts' = {}
    BY <1>3 DEF Structure, NoCrossLinks
  <2> QED  BY <2>1, <2>2, <2>3 DEF NoCrossLinks
<1>5. NoCycles'
  BY <1>1, CyclesCut DEF Structure, TableType, Written
<1>6. NoLooseEnds'
  <2>1. ASSUME NEW c \in Clusters, fat'[c] \in Clusters
        PROVE  fat'[fat'[c]] # FAT_ENTRY_FREE
    <3>1. c # x /\ fat'[c] = fat[c] /\ ~ Loose(c)
      BY <1>1, <2>1
    <3>2. fat[fat[c]] # FAT_ENTRY_FREE
      BY <2>1, <3>1 DEF Structure, NoLooseEnds
    <3> QED  BY <1>1, <2>1, <3>1, <3>2
  <2>2. \A c \in Heads' : fat'[c] # FAT_ENTRY_FREE
    <3>1. Heads \subseteq Clusters
      BY HeadsAreClusters
    <3> QED  BY <1>1, <1>3, <3>1 DEF Structure, NoLooseEnds
  <2>3. ASSUME NEW c \in Clusters \ Heads'
        PROVE  \/ fat'[c] = FAT_ENTRY_FREE
               \/ \E d \in Clusters : fat'[d] = c
    <3>1. fat[c] = FAT_ENTRY_FREE \/ \E d \in Clusters : fat[d] = c
      BY <1>3, <2>3 DEF Structure, NoLooseEnds
    <3>2. CASE fat[c] = FAT_ENTRY_FREE
      BY <1>1, <1>3, <2>3, <3>2
    <3>3. ASSUME NEW d \in Clusters, fat[d] = c
          PROVE  \E e \in Clusters : fat'[e] = c
      <4>1. d # x
        BY <1>1, <3>3
      <4> QED  BY <1>1, <3>3, <4>1
    <3> QED  BY <3>1, <3>2, <3>3
  <2> QED  BY <2>1, <2>2, <2>3 DEF NoLooseEnds
<1> QED  BY <1>4, <1>5, <1>6 DEF Structure

(* Nothing of the table changes; what was pending is in a directory entry. *)
LEMMA StructureMoved ==
    ASSUME Structure, UNCHANGED fat, \A c \in Clusters : ~ Loose(c), op.pc # "unlink",
           Starts' = Starts \cup Pending, Pending' = {},
           \A f, g \in Files :
               f # g /\ entry'[f].start = entry'[g].start => entry'[f].start = 0
    PROVE  Structure'
<1>1. Heads' = Heads
  BY DEF Heads
<1>2. NoCrossLinks'
  BY <1>1 DEF Structure, NoCrossLinks
<1>3. NoCycles'
  BY DEF Structure, NoCycles
<1>4. NoLooseEnds'
  BY <1>1 DEF Structure, NoLooseEnds
<1> QED  BY <1>2, <1>3, <1>4 DEF Structure
-----------------------------------------------------------------------------
(* What the steps of a write have in common.                               *)

(* The call goes on with the same file, position and input.                *)
GoesOn ==
    /\ op' \in WriteCalls /\ entry' = entry /\ DOMAIN data' = Bytes
    /\ op'.file = op.file /\ op'.startPos = op.startPos /\ op'.in = op.in
    /\ op'.fresh = op.fresh

LEMMA InvParts ==
    ASSUME TableInv
    PROVE  /\ TypeOK /\ TableType /\ Structure /\ op \in Calls
           /\ op.pc \in WritePcs => op \in WriteCalls
BY WriteCall DEF TableInv, TypeOK, TableType, Structure

LEMMA Running ==
    ASSUME TableInv, op.pc \in WritePcs \ {"directory"}
    PROVE  /\ op \in WriteCalls /\ Rounds
           /\ op.cur \in Clusters /\ fat[op.cur] # FAT_ENTRY_FREE
           /\ InChain(OpStart, op.cur)
<1>1. op \in WriteCalls
  BY InvParts
<1> QED  BY <1>1 DEF TableInv, OwnChain, ChunksFit, Rounds

LEMMA WriteType ==
    ASSUME TypeOK, op \in WriteCalls, GoesOn, TableType', op.fresh # 0 => op'.skip = 0
    PROVE  TypeOK'
<1>1. op' \in Calls /\ op.pc \in WritePcs /\ op'.pc \in WritePcs /\ op'.pc # "entry"
  BY DEF GoesOn, WriteCalls, Calls, WritePcs
<1> QED  BY <1>1 DEF TypeOK, TableType, GoesOn, Calls

LEMMA IdleType ==
    ASSUME TypeOK, op' = Idle, TableType', DOMAIN data' = Bytes,
           entry' \in [Files -> [start : Links, size : -1 .. MaxSize]],
           \A f \in Files : entry'[f].start = 0 => entry'[f].size <= 0
    PROVE  TypeOK'
<1>1. op' \in Calls /\ op'.pc = "idle"
  BY DEF Calls, Idle
<1> QED  BY <1>1 DEF TypeOK, TableType, WritePcs, Calls

LEMMA IdleRest ==
    ASSUME op' = Idle
    PROVE  OwnChain' /\ ChunksFit'
BY DEF Idle, OwnChain, ChunksFit, WritePcs

LEMMA RoundsFit ==
    Rounds => /\ startClusterPos + chunk \in 1 .. clusterSize
              /\ op.written + chunk <= Len(op.in)
BY RoundFits

LEMMA RoundsPositive == op \in WriteCalls => clustersToWrite \in Nat \ {0}
BY OpLayout

LEMMA RoundsChunks ==
    ASSUME Rounds', op'.pc \in {"grow", "grown"} => op'.i > 0,
           op'.pc \in {"skip", "append", "appended", "unlink"} => op'.i = 0
    PROVE  ChunksFit'
<1>1. /\ (startClusterPos + chunk \in 1 .. clusterSize)'
      /\ (op.written + chunk <= Len(op.in))'
  BY RoundsFit, PTL
<1> QED  BY <1>1 DEF ChunksFit, Rounds

LEMMA SameRounds ==
    ASSUME Rounds, GoesOn, op'.i = op.i, op'.written = op.written
    PROVE  Rounds'
<1>1. clustersToWrite' = clustersToWrite /\ firstChunk' = firstChunk
  BY DEF GoesOn, clustersToWrite, firstChunk
<1> QED  BY <1>1 DEF Rounds, GoesOn

(* What OwnChain says at the places of writeFatFile.                       *)
LEMMA OwnPlain ==
    ASSUME NEW a, NEW c \in Clusters, OpStart' = a, op'.cur = c, InChain(a, c)',
           op'.pc \in {"skip", "append", "write", "grow"},
           fat'[c] # FAT_ENTRY_FREE,
           op'.pc \in {"write", "grow"} => op'.old = c,
           op'.pc # "skip" => fat'[c] = FAT_ENTRY_USED
    PROVE  OwnChain'
<1>1. InChain(OpStart, op.cur)'
  BY DEF InChain
<1> QED  BY <1>1 DEF OwnChain

LEMMA OwnLinked ==
    ASSUME NEW a, NEW c \in Clusters, NEW n \in Clusters,
           OpStart' = a, op'.cur = c, InChain(a, c)', op'.next = n,
           op'.pc \in {"appended", "grown"}, op'.pc = "grown" => op'.old = c,
           fat'[c] = n, fat'[n] = FAT_ENTRY_FREE
    PROVE  OwnChain'
<1>1. InChain(OpStart, op.cur)'
  BY DEF InChain
<1>2. n # FAT_ENTRY_FREE
  BY Numbers DEF Clusters
<1> QED  BY <1>1, <1>2 DEF OwnChain

LEMMA OwnUnlink ==
    ASSUME NEW a, NEW c \in Clusters, NEW n,
           OpStart' = a, op'.cur = c, InChain(a, c)', op'.next = n, op'.old = c,
           op'.pc = "unlink", fat'[c] # FAT_ENTRY_FREE,
           n \in Clusters =>
              /\ fat'[n] # FAT_ENTRY_FREE /\ n \notin Heads'
              /\ \A d \in Clusters : fat'[d] = n => d = c
              /\ ~ InChain(n, c)',
           fat'[c] \in Clusters => fat'[c] = n \/ fat'[fat'[c]] = FAT_ENTRY_FREE
    PROVE  OwnChain'
<1>1. InChain(OpStart, op.cur)' /\ (n \in Clusters => ~ InChain(op.next, op.cur)')
  BY DEF InChain
<1> QED  BY <1>1 DEF OwnChain

(* The disk does not run full in the middle of a write: growing a chain    *)
(* finds a free entry.  Between calls it may be full.                      *)
RoomToGrow == op.pc \in {"append", "grow"} => FreeEntries # {}

Room == IoFaults = FALSE /\ RoomToGrow

(* What the entry of the call's cluster may hold.                          *)
LEMMA LinkValue ==
    ASSUME TableType, Structure, NEW c \in Clusters
    PROVE  fat[c] \in Links \cup {FAT_ENTRY_USED}
<1>1. c \in Entries /\ ~ (c < 2)
  BY Numbers DEF Clusters
<1>2. fat[c] \in Values /\ fat[c] # RESERVED
  BY <1>1 DEF TableType
<1>3. fat[c] # RootDir
  BY DEF Structure, NoCrossLinks, Heads
<1> QED  BY <1>2, <1>3, Numbers DEF Values, Links

(* No chain of a file leads to the root directory.                         *)
LEMMA NotRootDir ==
    ASSUME TableInv, op.pc \in WritePcs \ {"directory"}
    PROVE  op.cur \in Links
<1>1. op \in WriteCalls /\ op.cur \in Clusters /\ InChain(OpStart, op.cur)
  BY Running
<1>2. TypeOK /\ TableType /\ Structure
  BY InvParts
<1>3. op.fresh \in Links /\ entry[op.file].start \in Links
      /\ (op.fresh = 0 => entry[op.file].start # 0)
  BY <1>1, <1>2, WriteCallFields DEF TypeOK
<1>4. OpStart \in Clusters \ {RootDir}
  BY <1>3 DEF OpStart, Links, Clusters
<1>5. Closed(Clusters \ {RootDir})
  BY <1>2 DEF Closed, Structure, NoCrossLinks, Heads
<1>6. op.cur # RootDir
  BY <1>1, <1>4, <1>5 DEF InChain
<1> QED  BY <1>1, <1>6 DEF Links

(* What a step of a call that goes on within its round keeps.              *)
LEMMA WriteKeeps ==
    ASSUME TableInv, op.pc \in WritePcs \ {"directory"}, GoesOn, TableType',
           op'.skip = op.skip \/ op.fresh = 0, op'.i = op.i, op'.written = op.written,
           op'.pc \in {"grow", "grown"} => op.i > 0,
           op'.pc \in {"skip", "append", "appended", "unlink"} => op.i = 0
    PROVE  TypeOK' /\ ChunksFit' /\ KeptHeads /\ OpStart' = OpStart
<1>1. op \in WriteCalls /\ Rounds /\ TypeOK
  BY Running, InvParts
<1>2. op.fresh # 0 => op'.skip = 0
  BY <1>1 DEF TypeOK
<1>3. TypeOK'
  BY <1>1, <1>2, WriteType
<1>4. Rounds'
  BY <1>1, SameRounds
<1>5. ChunksFit'
  BY <1>4, RoundsChunks
<1>6. KeptHeads /\ OpStart' = OpStart
  BY <1>1, SameHeads DEF GoesOn, KeptHeads
<1> QED  BY <1>3, <1>5, <1>6
-----------------------------------------------------------------------------
(* What the actions of a write do to the table and to the locals of the    *)
(* call, with the values that the invariant gives these.                   *)

GoesTo(p, c, o, n) ==
    /\ GoesOn /\ op'.pc = p /\ op'.cur = c /\ op'.old = o /\ op'.next = n
    /\ op'.skip = op.skip /\ op'.i = op.i /\ op'.written = op.written

(* The entry of x, and no other, has become v.                             *)
Becomes(x, v) ==
    /\ Written(x, v) /\ TableType'
    /\ fat'[x] = v /\ \A c \in Entries : c # x => fat'[c] = fat[c]

LEMMA SkipDoes ==
    ASSUME TableInv, skipCluster
    PROVE  /\ op.pc = "skip" /\ op \in WriteCalls /\ op.i = 0 /\ op.skip \in Nat
           /\ UNCHANGED <<fat, fatCopy, data, entry>>
           /\ op.cur \in Clusters /\ fat[op.cur] # FAT_ENTRY_FREE
           /\ fat[op.cur] \in Links \cup {FAT_ENTRY_USED}
           /\ op.skip # 0 => op.fresh = 0
           /\ \/ op.skip = 0 /\ GoesTo("unlink", op.cur, op.cur, fat[op.cur])
              \/ /\ op.skip # 0 /\ fat[op.cur] \in Clusters
                 /\ GoesOn /\ op'.pc = "skip" /\ op'.cur = fat[op.cur] /\ op'.skip = op.skip - 1
                 /\ op'.i = op.i /\ op'.written = op.written
              \/ /\ op.skip = 1 /\ fat[op.cur] = FAT_ENTRY_USED
                 /\ GoesTo("append", op.cur, op.old, op.next)
              \/ op.skip # 0 /\ op' = Idle
<1>1. op.pc = "skip" /\ UNCHANGED <<fat, fatCopy, data, entry, content>>
  BY DEF skipCluster
<1>2. /\ op \in WriteCalls /\ op.cur \in Clusters /\ fat[op.cur] # FAT_ENTRY_FREE
  BY <1>1, Running DEF WritePcs
<1>3. TypeOK /\ TableType /\ Structure /\ DOMAIN data' = Bytes
  BY <1>1, InvParts DEF TypeOK
<1>4. PICK v : v = fat[op.cur]
  OBVIOUS
<1>5. op.i = 0
  BY <1>1 DEF TableInv, ChunksFit, WritePcs
<1>6. v \in Links \cup {FAT_ENTRY_USED} /\ op.skip \in Nat /\ op.old \in Links
      /\ op.i \in Nat /\ op.written \in Nat /\ op.cur \in Values
      /\ op.next \in Links \cup {FAT_ENTRY_USED}
  BY <1>2, <1>3, <1>4, LinkValue, WriteCallFields
<1>7. (~ EndOfChain(v) <=> v \in Clusters) /\ (EndOfChain(v) <=> v = FAT_ENTRY_USED)
  BY <1>2, <1>4, <1>6, Numbers DEF EndOfChain, Links, Clusters
<1>8. op.skip # 0 => op.fresh = 0
  BY <1>1, <1>3 DEF TypeOK, WritePcs
<1>9. {"skip", "append", "unlink"} \subseteq WritePcs /\ op.pc \in WritePcs
  BY <1>1 DEF WritePcs
<1>10. ASSUME op.skip = 0
       PROVE  GoesTo("unlink", op.cur, op.cur, v)
  <2>1. op' = [op EXCEPT !.pc = "unlink", !.old = op.cur, !.next = v]
    BY <1>4, <1>10 DEF skipCluster
  <2>2. op.cur \in Links
    BY <1>1, NotRootDir DEF WritePcs
  <2>3. IsLocal(op', "unlink", op.cur, op.cur, v, op.skip, op.i, op.written)
    BY <1>2, <1>6, <1>9, <2>1, <2>2, Updates, ZenonT(40)
  <2> QED  BY <1>1, <1>3, <2>3 DEF IsLocal, GoesOn, GoesTo
<1>11. ASSUME op.skip # 0, v \in Clusters
       PROVE  /\ GoesOn /\ op'.pc = "skip" /\ op'.cur = v /\ op'.skip = op.skip - 1
              /\ op'.i = op.i /\ op'.written = op.written
  <2>1. op' = [op EXCEPT !.cur = v, !.skip = op.skip - 1]
    BY <1>4, <1>7, <1>11 DEF skipCluster
  <2>2. op.skip - 1 \in Nat /\ v \in Values
    BY <1>6, <1>11, Numbers
  <2>3. IsLocal(op', op.pc, v, op.old, op.next, op.skip - 1, op.i, op.written)
    BY <1>2, <1>6, <1>9, <2>1, <2>2, Updates, ZenonT(40)
  <2> QED  BY <1>1, <1>3, <2>3 DEF IsLocal, GoesOn
<1>12. ASSUME op.skip = 1, EndOfChain(v)
       PROVE  GoesTo("append", op.cur, op.old, op.next)
  <2>1. op' = [op EXCEPT !.pc = "append"]
    BY <1>4, <1>12 DEF skipCluster
  <2>2. IsLocal(op', "append", op.cur, op.old, op.next, op.skip, op.i, op.written)
    <3>1. "append" \in WritePcs /\ FAT_ENTRY_USED \in Links \cup {FAT_ENTRY_USED}
      BY DEF WritePcs
    <3>2. IsLocal([op EXCEPT !.pc = "append"], "append", op.cur, op.old, op.next, op.skip,
                  op.i, op.written)
      BY <1>2, <1>6, <3>1, Updates, ZenonT(40)
    <3> QED  BY <2>1, <3>2, Zenon
  <2> QED  BY <1>1, <1>3, <2>2 DEF IsLocal, GoesOn, GoesTo
<1>13. ASSUME op.skip # 0, op.skip # 1, EndOfChain(v)
       PROVE  op' = Idle
  BY <1>4, <1>13 DEF skipCluster
<1> QED  BY <1>1, <1>2, <1>4, <1>5, <1>6, <1>7, <1>8, <1>10, <1>11, <1>12, <1>13

LEMMA LinkDoes ==
    ASSUME Room, TableInv, appendCluster \/ growChain
    PROVE  \E x \in Clusters, v \in Clusters \ {RootDir} :
             /\ x = op.cur /\ op.pc \in {"append", "grow"} /\ op \in WriteCalls
             /\ fat[x] = FAT_ENTRY_USED /\ fat[v] = FAT_ENTRY_FREE /\ Becomes(x, v)
             /\ \/ op.pc = "append" /\ op.i = 0 /\ GoesTo("appended", x, op.old, v)
                \/ op.pc = "grow" /\ op.i > 0 /\ GoesTo("grown", x, x, v)
<1>1. op.pc \in {"append", "grow"} /\ UNCHANGED <<data, entry, content>>
  BY DEF appendCluster, growChain
<1>2. /\ op \in WriteCalls /\ op.cur \in Clusters /\ fat[op.cur] = FAT_ENTRY_USED
      /\ op.pc = "grow" => op.old = op.cur
  BY <1>1, Running DEF WritePcs, TableInv, OwnChain
<1>3. TypeOK /\ TableType /\ Structure
      /\ (op.pc = "append" => op.i = 0) /\ (op.pc = "grow" => op.i > 0)
  BY <1>1, InvParts DEF TableInv, ChunksFit, WritePcs
<1>4. PICK v \in Clusters \ {RootDir} : v = getFreeFatEntryCluster /\ fat[v] = FAT_ENTRY_FREE
  BY <1>1, <1>3, FreeCluster DEF Room, RoomToGrow, Structure
<1>5. PICK p \in {"appended", "grown"} :
        /\ (op.pc = "append" /\ p = "appended") \/ (op.pc = "grow" /\ p = "grown")
        /\ Written(op.cur, v) /\ op' = [op EXCEPT !.pc = p, !.next = v]
  <2>1. CASE appendCluster
    <3>1. PICK ok \in BOOLEAN :
            /\ writeFATEntry(op.cur, v, ok)
            /\ Continue(ok, [op EXCEPT !.pc = "appended", !.next = v])
      BY <1>4, <2>1 DEF appendCluster
    <3>2. ok /\ Written(op.cur, v)
      BY <3>1, NoFault DEF Room
    <3> QED  BY <2>1, <3>1, <3>2 DEF Continue, appendCluster
  <2>2. CASE growChain
    BY <1>2, <1>4, <2>2, NoFault DEF growChain, Room
  <2> QED  BY <2>1, <2>2
<1>6. v \in Values /\ v # RESERVED /\ v \in Links
  BY Numbers DEF Clusters, Links
<1>7. Becomes(op.cur, v)
  BY <1>2, <1>3, <1>5, <1>6, WrittenType DEF Becomes
<1>8. IsLocal(op', p, op.cur, op.old, v, op.skip, op.i, op.written)
  <2>1. p \in WritePcs
    BY DEF WritePcs
  <2> QED  BY <1>2, <1>5, <1>6, <2>1, Updates, WriteCallFields, ZenonT(40)
<1>9. GoesTo(p, op.cur, op.old, v)
  BY <1>1, <1>3, <1>8 DEF IsLocal, GoesOn, GoesTo, TypeOK
<1> QED  BY <1>1, <1>2, <1>3, <1>4, <1>5, <1>7, <1>9

LEMMA MarkDoes ==
    ASSUME Room, TableInv, markAppended \/ markGrown
    PROVE  /\ op.pc \in {"appended", "grown"} /\ op \in WriteCalls
           /\ (op.pc = "appended" => op.i = 0) /\ (op.pc = "grown" => op.old = op.cur)
           /\ op.cur \in Clusters /\ fat[op.cur] = op.next /\ op.next \in Clusters
           /\ fat[op.next] = FAT_ENTRY_FREE /\ Becomes(op.next, FAT_ENTRY_USED)
           /\ op.pc = "appended" => GoesTo("unlink", op.next, op.next, FAT_ENTRY_USED)
           /\ op.pc = "grown" => GoesTo("write", op.next, op.next, op.next)
<1>1. op.pc \in {"appended", "grown"} /\ UNCHANGED <<data, entry, content>>
  BY DEF markAppended, markGrown
<1>2. /\ op \in WriteCalls /\ op.cur \in Clusters
      /\ fat[op.cur] = op.next /\ op.next \in Clusters /\ fat[op.next] = FAT_ENTRY_FREE
      /\ op.pc = "grown" => op.old = op.cur
  BY <1>1, Running DEF WritePcs, TableInv, OwnChain
<1>3. TypeOK /\ TableType /\ (op.pc = "appended" => op.i = 0)
  BY <1>1, InvParts DEF TableInv, ChunksFit, WritePcs
<1>4. PICK v \in Clusters : v = op.next /\ v \in Links
  BY <1>2, WriteCallFields, Numbers
<1>5. Written(v, FAT_ENTRY_USED)
  BY <1>4, NoFault DEF markAppended, markGrown, Room
<1>6. FAT_ENTRY_USED \in Values /\ FAT_ENTRY_USED # RESERVED
      /\ FAT_ENTRY_USED \in Links \cup {FAT_ENTRY_USED} /\ v \in Values
  BY Numbers
<1>7. Becomes(v, FAT_ENTRY_USED)
  BY <1>3, <1>5, <1>6, WrittenType DEF Becomes
<1>8. ASSUME op.pc = "appended"
      PROVE  GoesTo("unlink", v, v, FAT_ENTRY_USED)
  <2>1. op' = [op EXCEPT !.pc = "unlink", !.cur = v, !.old = v, !.next = FAT_ENTRY_USED]
    BY <1>4, <1>8, NoFault DEF markAppended, markGrown, Room, Continue
  <2>2. IsLocal(op', "unlink", v, v, FAT_ENTRY_USED, op.skip, op.i, op.written)
    <3>1. "unlink" \in WritePcs
      BY DEF WritePcs
    <3> QED  BY <1>2, <1>4, <1>6, <2>1, <3>1, Updates, WriteCallFields, ZenonT(40)
  <2> QED  BY <1>1, <1>3, <2>2 DEF IsLocal, GoesOn, GoesTo, TypeOK
<1>9. ASSUME op.pc = "grown"
      PROVE  GoesTo("write", v, v, v)
  <2>1. op' = [op EXCEPT !.pc = "write", !.cur = v, !.old = v]
    BY <1>4, <1>9 DEF markAppended, markGrown
  <2>2. IsLocal(op', "write", v, v, op.next, op.skip, op.i, op.written)
    <3>1. "write" \in WritePcs
      BY DEF WritePcs
    <3> QED  BY <1>2, <1>4, <1>6, <2>1, <3>1, Updates, WriteCallFields, ZenonT(40)
  <2> QED  BY <1>1, <1>3, <1>4, <2>2 DEF IsLocal, GoesOn, GoesTo, TypeOK
<1> QED  BY <1>1, <1>2, <1>3, <1>4, <1>7, <1>8, <1>9

LEMMA UnlinkNextDoes ==
    ASSUME Room, TableInv, unlinkNext
    PROVE  /\ op.pc = "unlink" /\ op \in WriteCalls /\ op.i = 0
           /\ op.cur \in Clusters /\ fat[op.cur] # FAT_ENTRY_FREE /\ op.old = op.cur
           /\ op.next \in Clusters /\ Becomes(op.next, FAT_ENTRY_FREE)
           /\ fat[op.next] \in Links \cup {FAT_ENTRY_USED}
           /\ GoesTo("unlink", op.cur, op.cur, fat[op.next])
<1>1. op.pc = "unlink" /\ ~ EndOfChain(op.next) /\ UNCHANGED <<data, entry, content>>
  BY DEF unlinkNext
<1>2. /\ op \in WriteCalls /\ op.cur \in Clusters
      /\ fat[op.cur] # FAT_ENTRY_FREE /\ op.old = op.cur
  BY <1>1, Running DEF WritePcs, TableInv, OwnChain
<1>3. TypeOK /\ TableType /\ Structure /\ op.i = 0
  BY <1>1, InvParts DEF TableInv, ChunksFit, WritePcs
<1>4. PICK v \in Clusters : v = op.next
  BY <1>1, <1>2, WriteCallFields, Numbers DEF EndOfChain, Links
<1>5. PICK n : n = fat[v]
  OBVIOUS
<1>6. n \in Links \cup {FAT_ENTRY_USED}
  BY <1>3, <1>5, LinkValue
<1>7. Written(v, FAT_ENTRY_FREE) /\ op' = [op EXCEPT !.next = n]
  BY <1>4, <1>5, NoFault DEF unlinkNext, Room, Continue
<1>8. FAT_ENTRY_FREE \in Values /\ FAT_ENTRY_FREE # RESERVED
  BY Numbers
<1>9. Becomes(v, FAT_ENTRY_FREE)
  BY <1>3, <1>7, <1>8, WrittenType DEF Becomes
<1>10. IsLocal(op', "unlink", op.cur, op.old, n, op.skip, op.i, op.written)
  BY <1>1, <1>2, <1>6, <1>7, Updates, WriteCallFields, ZenonT(40)
<1>11. GoesTo("unlink", op.cur, op.cur, n)
  BY <1>1, <1>2, <1>3, <1>10 DEF IsLocal, GoesOn, GoesTo, TypeOK
<1> QED  BY <1>1, <1>2, <1>3, <1>4, <1>5, <1>6, <1>9, <1>11

LEMMA UnlinkEndDoes ==
    ASSUME Room, TableInv, unlinkEnd
    PROVE  /\ op.pc = "unlink" /\ op \in WriteCalls /\ op.i = 0
           /\ op.cur \in Clusters /\ fat[op.cur] # FAT_ENTRY_FREE /\ op.old = op.cur
           /\ op.next \notin Clusters /\ Becomes(op.cur, FAT_ENTRY_USED)
           /\ GoesTo("write", op.cur, op.cur, op.next)
<1>1. op.pc = "unlink" /\ EndOfChain(op.next) /\ UNCHANGED <<data, entry, content>>
  BY DEF unlinkEnd
<1>2. /\ op \in WriteCalls /\ op.cur \in Clusters
      /\ fat[op.cur] # FAT_ENTRY_FREE /\ op.old = op.cur
  BY <1>1, Running DEF WritePcs, TableInv, OwnChain
<1>3. TypeOK /\ TableType /\ op.i = 0
  BY <1>1, InvParts DEF TableInv, ChunksFit, WritePcs
<1>4. op.next \notin Clusters
  BY <1>1, Numbers DEF EndOfChain, Clusters
<1>5. Written(op.cur, FAT_ENTRY_USED) /\ op' = [op EXCEPT !.pc = "write"]
  BY NoFault DEF unlinkEnd, Room, Continue
<1>6. FAT_ENTRY_USED \in Values /\ FAT_ENTRY_USED # RESERVED
  BY Numbers
<1>7. Becomes(op.cur, FAT_ENTRY_USED)
  BY <1>2, <1>3, <1>5, <1>6, WrittenType DEF Becomes
<1>8. IsLocal(op', "write", op.cur, op.old, op.next, op.skip, op.i, op.written)
  <2>1. "write" \in WritePcs
    BY DEF WritePcs
  <2>2. IsLocal([op EXCEPT !.pc = "write"], "write", op.cur, op.old, op.next, op.skip,
                op.i, op.written)
    <3>1. op.cur \in Values /\ op.old \in Links /\ op.next \in Links \cup {FAT_ENTRY_USED}
          /\ op.skip \in Nat /\ op.i \in Nat /\ op.written \in Nat
      BY <1>2, WriteCallFields
    <3> QED  BY <1>2, <2>1, <3>1, Updates, ZenonT(40)
  <2> QED  BY <1>5, <2>2, Zenon
<1>9. GoesTo("write", op.cur, op.cur, op.next)
  BY <1>1, <1>2, <1>3, <1>8 DEF IsLocal, GoesOn, GoesTo, TypeOK
<1> QED  BY <1>1, <1>2, <1>3, <1>4, <1>7, <1>9

LEMMA WriteDoes ==
    ASSUME Room, TableInv, writeCluster
    PROVE  /\ op.pc = "write" /\ op \in WriteCalls /\ UNCHANGED <<fat, fatCopy, entry>>
           /\ op.cur \in Clusters /\ fat[op.cur] = FAT_ENTRY_USED /\ op.old = op.cur
           /\ GoesOn /\ op'.cur = op.cur /\ op'.old = op.cur /\ op'.skip = op.skip
           /\ op'.i = op.i + 1 /\ op'.written = op.written + chunk
           /\ \/ op'.pc = "directory" /\ op.i + 1 = clustersToWrite
              \/ op'.pc = "grow" /\ op.i + 1 # clustersToWrite
<1> DEFINE j == op.i + 1
           w == op.written + chunk
           o == [op EXCEPT !.i = j, !.written = w]
<1>1. op.pc = "write" /\ UNCHANGED <<fat, fatCopy, entry, content>>
  BY DEF writeCluster
<1>2. /\ op \in WriteCalls /\ op.cur \in Clusters
      /\ fat[op.cur] = FAT_ENTRY_USED /\ op.old = op.cur
  BY <1>1, Running DEF WritePcs, TableInv, OwnChain
<1>3. /\ DOMAIN data' = Bytes
      /\ op' = IF j = clustersToWrite THEN [o EXCEPT !.pc = "directory"]
               ELSE [o EXCEPT !.pc = "grow"]
  <2>1. op.cur \in Entries
    BY <1>2, Numbers
  <2>2. DOMAIN data = Bytes
    BY InvParts DEF TypeOK
  <2> QED  BY <1>2, <2>1, <2>2 DEF writeCluster, Room, Continue
<1>4. w \in Nat /\ j \in Nat
  BY <1>2, WrittenCounts
<1>5. \A p \in WritePcs :
          IsLocal([o EXCEPT !.pc = p], p, op.cur, op.old, op.next, op.skip, j, w)
  <2> HIDE DEF w, j
  <2> SUFFICES ASSUME NEW p \in WritePcs
               PROVE  IsLocal([o EXCEPT !.pc = p], p, op.cur, op.old, op.next, op.skip, j, w)
    OBVIOUS
  <2> QED  BY <1>2, <1>4, Updates, WriteCallFields, ZenonT(40)
<1> HIDE DEF o
<1>6. PICK p \in {"directory", "grow"} :
          /\ IsLocal(op', p, op.cur, op.old, op.next, op.skip, j, w)
          /\ p = "grow" <=> j # clustersToWrite
  BY <1>3, <1>5 DEF WritePcs
<1> QED  BY <1>1, <1>2, <1>3, <1>6 DEF IsLocal, GoesOn

LEMMA CreateFileDoes ==
    ASSUME Room, TableInv, NEW f \in Files, createFile(f)
    PROVE  /\ op = Idle /\ entry[f] = NoFile /\ UNCHANGED <<data, entry>>
           /\ \E v \in Clusters \ {RootDir} :
                /\ fat[v] = FAT_ENTRY_FREE /\ Becomes(v, FAT_ENTRY_USED)
                /\ op' = [pc |-> "entry", file |-> f, start |-> v]
<1>1. op = Idle /\ entry[f] = NoFile /\ UNCHANGED <<data, entry>> /\ getFreeFatEntryCluster # 0
  BY DEF createFile
<1>2. PICK v \in Clusters \ {RootDir} : v = getFreeFatEntryCluster /\ fat[v] = FAT_ENTRY_FREE
  <2>1. FreeEntries # {} /\ TableType /\ Structure
    BY <1>1, InvParts DEF getFreeFatEntryCluster
  <2> QED  BY <2>1, FreeCluster DEF Structure
<1>3. PICK ok \in BOOLEAN :
        /\ writeFATEntry(v, FAT_ENTRY_USED, ok)
        /\ Continue(ok, [pc |-> "entry", file |-> f, start |-> v])
  BY <1>2 DEF createFile
<1>4. Written(v, FAT_ENTRY_USED) /\ op' = [pc |-> "entry", file |-> f, start |-> v]
  BY <1>3, NoFault DEF Room, Continue
<1>5. Becomes(v, FAT_ENTRY_USED)
  BY <1>4, InvParts, WrittenType, Numbers DEF Becomes
<1> QED  BY <1>1, <1>2, <1>4, <1>5

LEMMA WriteFileDoes ==
    ASSUME Room, TableInv, NEW f \in Files, NEW startPos \in 0 .. MaxSize,
           NEW in \in Inputs, writeFile(f, startPos, in)
    PROVE  /\ op = Idle /\ UNCHANGED <<data, entry>>
           /\ startPos <= entry[f].size /\ startPos + Len(in) <= MaxSize
           /\ \E start \in Clusters \ {RootDir}, fresh \in Links :
                /\ op' = StartWrite(f, startPos, in, start, fresh)
                /\ \/ /\ fresh = 0 /\ start = entry[f].start
                      /\ UNCHANGED <<fat, fatCopy>>
                   \/ /\ fresh = start /\ entry[f].start = 0
                      /\ fat[start] = FAT_ENTRY_FREE /\ Becomes(start, FAT_ENTRY_USED)
<1>1. /\ op = Idle /\ UNCHANGED <<data, entry>>
      /\ startPos <= entry[f].size /\ startPos + Len(in) <= MaxSize
  BY DEF writeFile
<1>2. TypeOK /\ TableType /\ Structure
  BY InvParts
<1>3. CASE entry[f].start # 0
  <2>1. PICK start \in Clusters \ {RootDir} : start = entry[f].start
    BY <1>2, <1>3 DEF TypeOK, Links
  <2>2. op' = StartWrite(f, startPos, in, start, 0) /\ UNCHANGED <<fat, fatCopy>>
    BY <1>3, <2>1 DEF writeFile
  <2>3. 0 \in Links
    BY DEF Links
  <2> QED  BY <1>1, <2>1, <2>2, <2>3
<1>4. CASE entry[f].start = 0
  <2>1. getFreeFatEntryCluster # 0
    BY <1>4 DEF writeFile
  <2>2. PICK v \in Clusters \ {RootDir} : v = getFreeFatEntryCluster /\ fat[v] = FAT_ENTRY_FREE
    <3>1. FreeEntries # {}
      BY <2>1 DEF getFreeFatEntryCluster
    <3> QED  BY <1>2, <3>1, FreeCluster DEF Structure
  <2>3. PICK ok \in BOOLEAN :
          /\ writeFATEntry(v, FAT_ENTRY_USED, ok)
          /\ Continue(ok, StartWrite(f, startPos, in, v, v))
    BY <1>4, <2>2 DEF writeFile
  <2>4. Written(v, FAT_ENTRY_USED) /\ op' = StartWrite(f, startPos, in, v, v)
    BY <2>3, NoFault DEF Room, Continue
  <2>5. Becomes(v, FAT_ENTRY_USED) /\ v \in Links
    BY <1>2, <2>4, WrittenType, Numbers DEF Becomes, Links
  <2> QED  BY <1>1, <1>4, <2>2, <2>4, <2>5
<1> QED  BY <1>3, <1>4
-----------------------------------------------------------------------------
(* One lemma for every action: it keeps the table sound.                   *)

LEMMA SkipStep ==
    ASSUME TableInv, skipCluster
    PROVE  TableInv'
<1>1. /\ op.pc = "skip" /\ op \in WriteCalls /\ op.i = 0
      /\ UNCHANGED <<fat, fatCopy, data, entry>>
      /\ op.skip # 0 => op.fresh = 0
  BY SkipDoes
<1>2. /\ op.cur \in Clusters /\ fat[op.cur] # FAT_ENTRY_FREE /\ InChain(OpStart, op.cur)
  BY <1>1, Running DEF WritePcs
<1>3. TypeOK /\ TableType /\ Structure
  BY InvParts
<1>4. PICK a : a = OpStart
  OBVIOUS
<1>5. PICK c \in Clusters : c = op.cur
  BY <1>2
<1>6. PICK v : v = fat[c]
  OBVIOUS
<1>7. TableType' /\ DOMAIN data' = Bytes
  BY <1>1, <1>3 DEF TableType, TypeOK
<1>8. (\A d \in Clusters : ~ Loose(d)) /\ op.pc # "unlink"
  BY <1>1 DEF Loose
<1>9. v \in Clusters => /\ fat[v] # FAT_ENTRY_FREE /\ v \notin Heads
                         /\ \A d \in Clusters : fat[d] = v => d = c
                         /\ ~ InChain(v, c)
  BY <1>3, <1>6, <1>8, NoWayBack DEF Structure, NoLooseEnds, NoCrossLinks
<1>10. InChain(a, c)' /\ (InChain(v, c)' <=> InChain(v, c))
  BY <1>1, <1>2, <1>4, <1>5, ChainSame
<1>11. ASSUME GoesOn, op'.skip = op.skip \/ op.fresh = 0, op'.i = op.i,
              op'.written = op.written, op'.pc \in {"skip", "append", "unlink"}
       PROVE  /\ TypeOK' /\ Structure' /\ ChunksFit'
              /\ Heads' = Heads /\ OpStart' = a
  <2>1. TypeOK' /\ ChunksFit' /\ KeptHeads /\ OpStart' = a
    BY <1>1, <1>4, <1>7, <1>11, WriteKeeps DEF WritePcs
  <2>2. Structure'
    BY <1>1, <1>3, <1>8, <2>1, StructureSame
  <2> QED  BY <2>1, <2>2 DEF KeptHeads
<1>12. CASE GoesTo("unlink", c, c, v)
  <2>1. GoesOn /\ op'.pc = "unlink" /\ op'.cur = c /\ op'.old = c /\ op'.next = v
        /\ op'.skip = op.skip /\ op'.i = op.i /\ op'.written = op.written
    BY <1>12 DEF GoesTo
  <2>2. /\ TypeOK' /\ Structure' /\ ChunksFit' /\ Heads' = Heads /\ OpStart' = a
    BY <1>11, <2>1
  <2>3. OwnChain'
    BY <1>1, <1>2, <1>5, <1>6, <1>9, <1>10, <2>1, <2>2, OwnUnlink
  <2> QED  BY <2>2, <2>3 DEF TableInv, Structure
<1>13. CASE /\ op.skip # 0 /\ v \in Clusters /\ GoesOn /\ op'.pc = "skip" /\ op'.cur = v
            /\ op'.i = op.i /\ op'.written = op.written
  <2>1. /\ TypeOK' /\ Structure' /\ ChunksFit' /\ OpStart' = a
    BY <1>1, <1>11, <1>13
  <2>2. InChain(a, v)'
    <3>1. InChain(a, v)
      BY <1>2, <1>4, <1>5, <1>6, <1>13, ChainNext
    <3> QED  BY <1>1, <3>1, ChainSame
  <2>3. OwnChain'
    BY <1>1, <1>9, <1>13, <2>1, <2>2, OwnPlain
  <2> QED  BY <2>1, <2>3 DEF TableInv, Structure
<1>14. CASE op.skip = 1 /\ v = FAT_ENTRY_USED /\ GoesTo("append", c, op.old, op.next)
  <2>1. GoesOn /\ op'.pc = "append" /\ op'.cur = c
        /\ op'.skip = op.skip /\ op'.i = op.i /\ op'.written = op.written
    BY <1>14 DEF GoesTo
  <2>2. /\ TypeOK' /\ Structure' /\ ChunksFit' /\ OpStart' = a
    BY <1>11, <2>1
  <2>3. OwnChain'
    BY <1>1, <1>2, <1>5, <1>6, <1>10, <1>14, <2>1, <2>2, OwnPlain
  <2> QED  BY <2>2, <2>3 DEF TableInv, Structure
<1>15. CASE op.skip # 0 /\ op' = Idle
  <2>1. Pending = {} /\ Pending' = {}
    BY <1>1, <1>15, Numbers DEF Pending, WritePcs, Idle, Clusters
  <2>2. KeptHeads
    BY <1>1, <2>1 DEF KeptHeads, Heads, Starts
  <2>3. Structure'
    BY <1>1, <1>3, <1>8, <2>2, StructureSame
  <2>4. TypeOK'
    BY <1>1, <1>3, <1>7, <1>15, IdleType DEF TypeOK
  <2> QED  BY <1>15, <2>3, <2>4, IdleRest DEF TableInv, Structure
<1> QED  BY <1>5, <1>6, <1>12, <1>13, <1>14, <1>15, SkipDoes

LEMMA LinkStep ==
    ASSUME Room, TableInv, appendCluster \/ growChain
    PROVE  TableInv'
<1>1. PICK x \in Clusters, v \in Clusters \ {RootDir} :
        /\ x = op.cur /\ op.pc \in {"append", "grow"}
        /\ fat[x] = FAT_ENTRY_USED /\ fat[v] = FAT_ENTRY_FREE /\ Becomes(x, v)
        /\ \/ op.i = 0 /\ GoesTo("appended", x, op.old, v)
           \/ op.i > 0 /\ GoesTo("grown", x, x, v)
  BY LinkDoes
<1>2. InChain(OpStart, x) /\ TypeOK /\ TableType /\ Structure /\ op \in Calls
  BY <1>1, Running, InvParts DEF WritePcs
<1>3. PICK a : a = OpStart
  OBVIOUS
<1>4. /\ Written(x, v) /\ TableType' /\ fat'[x] = v
      /\ \A c \in Entries : c # x => fat'[c] = fat[c]
  BY <1>1 DEF Becomes
<1>5. /\ GoesOn /\ op'.pc \in {"appended", "grown"} /\ op'.cur = x /\ op'.next = v
      /\ op'.pc = "grown" => op'.old = x /\ op.i > 0
      /\ op'.pc = "appended" => op.i = 0
      /\ op'.skip = op.skip /\ op'.i = op.i /\ op'.written = op.written
  BY <1>1 DEF GoesTo
<1>6. TypeOK' /\ ChunksFit' /\ KeptHeads /\ OpStart' = a
  BY <1>1, <1>2, <1>3, <1>4, <1>5, WriteKeeps DEF WritePcs
<1>7. (\A c \in Clusters : ~ Loose(c)) /\ Loose(x)'
  BY <1>1, <1>2, <1>5 DEF Loose
<1>8. Structure'
  BY <1>1, <1>2, <1>4, <1>6, <1>7, StructureLink
<1>9. InChain(a, x)'
  BY <1>2, <1>3, <1>4, ChainEnd DEF TableType, Written
<1>10. v # x /\ fat'[v] = FAT_ENTRY_FREE
  BY <1>1, <1>4, Numbers
<1>11. OwnChain'
  BY <1>1, <1>4, <1>5, <1>6, <1>9, <1>10, OwnLinked
<1> QED  BY <1>6, <1>8, <1>11 DEF TableInv, Structure

LEMMA MarkStep ==
    ASSUME Room, TableInv, markAppended \/ markGrown
    PROVE  TableInv'
<1>1. PICK x \in Clusters, v \in Clusters :
        /\ x = op.cur /\ v = op.next /\ op.pc \in {"appended", "grown"}
        /\ fat[x] = v /\ fat[v] = FAT_ENTRY_FREE /\ Becomes(v, FAT_ENTRY_USED)
        /\ op.pc = "appended" => op.i = 0 /\ GoesTo("unlink", v, v, FAT_ENTRY_USED)
        /\ op.pc = "grown" => op.old = x /\ GoesTo("write", v, v, v)
  BY MarkDoes
<1>2. InChain(OpStart, x) /\ TypeOK /\ TableType /\ Structure /\ op \in Calls
  BY <1>1, Running, InvParts DEF WritePcs
<1>3. PICK a : a = OpStart
  OBVIOUS
<1>4. FAT_ENTRY_USED \notin Clusters /\ FAT_ENTRY_USED # FAT_ENTRY_FREE
  BY Numbers DEF Clusters
<1>5. Written(v, FAT_ENTRY_USED) /\ TableType' /\ fat'[v] = FAT_ENTRY_USED
  BY <1>1 DEF Becomes
<1>6. /\ GoesOn /\ op'.cur = v /\ op'.old = v
      /\ op.pc = "appended" => op'.pc = "unlink" /\ op'.next = FAT_ENTRY_USED /\ op.i = 0
      /\ op.pc = "grown" => op'.pc = "write"
      /\ op'.skip = op.skip /\ op'.i = op.i /\ op'.written = op.written
  BY <1>1 DEF GoesTo
<1>7. TypeOK' /\ ChunksFit' /\ KeptHeads /\ OpStart' = a
  BY <1>1, <1>3, <1>5, <1>6, WriteKeeps DEF WritePcs
<1>8. InChain(a, v)'
  <2>1. InChain(a, v)
    BY <1>1, <1>2, <1>3, ChainNext
  <2> QED  BY <1>2, <1>5, <2>1, ChainEnd DEF TableType, Written
<1>9. \A c \in Clusters : Loose(c) => c = x
  BY <1>1 DEF Loose
<1>10. Structure'
  BY <1>1, <1>2, <1>5, <1>7, <1>9, StructureMark
<1>11. OwnChain'
  <2>1. CASE op.pc = "appended"
    BY <1>4, <1>5, <1>6, <1>7, <1>8, <2>1, OwnUnlink
  <2>2. CASE op.pc = "grown"
    BY <1>4, <1>5, <1>6, <1>7, <1>8, <2>2, OwnPlain
  <2> QED  BY <1>1, <2>1, <2>2
<1> QED  BY <1>7, <1>10, <1>11 DEF TableInv, Structure

LEMMA UnlinkNextStep ==
    ASSUME Room, TableInv, unlinkNext
    PROVE  TableInv'
<1>1. PICK x \in Clusters, v \in Clusters, n \in Links \cup {FAT_ENTRY_USED} :
        /\ x = op.cur /\ v = op.next /\ n = fat[v] /\ op.pc = "unlink" /\ op.i = 0
        /\ fat[x] # FAT_ENTRY_FREE /\ Becomes(v, FAT_ENTRY_FREE)
        /\ GoesTo("unlink", x, x, n)
  BY UnlinkNextDoes
<1>2. InChain(OpStart, x) /\ TypeOK /\ TableType /\ Structure /\ op \in Calls
  BY <1>1, Running, InvParts DEF WritePcs
<1>3. PICK a : a = OpStart
  OBVIOUS
<1>4. /\ fat[v] # FAT_ENTRY_FREE /\ v \notin Heads /\ ~ InChain(v, x)
      /\ \A c \in Clusters : fat[c] = v => c = x
      /\ fat[x] \in Clusters => fat[x] = v \/ fat[fat[x]] = FAT_ENTRY_FREE
  BY <1>1 DEF TableInv, OwnChain, WritePcs
<1>5. FAT_ENTRY_FREE \notin Clusters /\ Clusters \subseteq Entries
  BY Numbers DEF Clusters
<1>6. /\ Written(v, FAT_ENTRY_FREE) /\ TableType' /\ fat'[v] = FAT_ENTRY_FREE
      /\ \A c \in Entries : c # v => fat'[c] = fat[c]
  BY <1>1 DEF Becomes
<1>7. /\ GoesOn /\ op'.pc = "unlink" /\ op'.cur = x /\ op'.old = x /\ op'.next = n
      /\ op'.skip = op.skip /\ op'.i = op.i /\ op'.written = op.written
  BY <1>1 DEF GoesTo
<1>8. TypeOK' /\ ChunksFit' /\ KeptHeads /\ OpStart' = a
  BY <1>1, <1>3, <1>6, <1>7, WriteKeeps DEF WritePcs
<1>9. v # x /\ InChain(a, x)' /\ (n \in Clusters => ~ InChain(n, x)')
  <2>1. /\ InChain(a, x) /\ fat \in [Entries -> Values] /\ ~ InChain(v, x)
        /\ fat' = [fat EXCEPT ![v] = FAT_ENTRY_FREE] /\ n = fat[v]
    BY <1>1, <1>2, <1>3, <1>4, <1>6 DEF TableType, Written
  <2> QED  BY <1>5, <2>1, ChainFree, ZenonT(40)
<1>10. (\A c \in Clusters : Loose(c) => c = x) /\ Loose(x)'
  BY <1>1, <1>7 DEF Loose
<1>11. Structure'
  BY <1>1, <1>2, <1>4, <1>6, <1>7, <1>8, <1>9, <1>10, StructureFree
<1>12. ASSUME n \in Clusters
       PROVE  /\ fat'[n] # FAT_ENTRY_FREE /\ n \notin Heads'
              /\ \A d \in Clusters : fat'[d] = n => d = x
  <2>1. n # v
    <3>1. {v} \in SUBSET {c \in Clusters : fat[c] \in Clusters} /\ {v} # {}
      BY <1>1, <1>12
    <3>2. \E c \in {v} : fat[c] \notin {v}
      BY <1>2, <3>1 DEF Structure, NoCycles
    <3> QED  BY <1>1, <3>2
  <2>2. ~ Loose(v)
    BY <1>9, <1>10
  <2>3. fat[n] # FAT_ENTRY_FREE /\ n \notin Heads
    BY <1>1, <1>2, <1>12, <2>2 DEF Structure, NoLooseEnds, NoCrossLinks
  <2>4. ASSUME NEW d \in Clusters, fat'[d] = n PROVE d = x
    <3>1. d # v
      BY <1>5, <1>6, <1>12, <2>4
    <3>2. fat[d] = fat[v] /\ fat[v] \in Clusters
      BY <1>1, <1>5, <1>6, <1>12, <2>4, <3>1
    <3> QED  BY <1>2, <3>1, <3>2 DEF Structure, NoCrossLinks
  <2> QED  BY <1>5, <1>6, <1>8, <1>12, <2>1, <2>3, <2>4 DEF KeptHeads
<1>13. fat'[x] # FAT_ENTRY_FREE
       /\ (fat'[x] \in Clusters => fat'[fat'[x]] = FAT_ENTRY_FREE)
  <2>1. fat'[x] = fat[x]
    BY <1>5, <1>6, <1>9
  <2> QED  BY <1>1, <1>4, <1>5, <1>6, <2>1
<1>14. OwnChain'
  BY <1>7, <1>8, <1>9, <1>12, <1>13, OwnUnlink
<1> QED  BY <1>8, <1>11, <1>14 DEF TableInv, Structure

LEMMA UnlinkEndStep ==
    ASSUME Room, TableInv, unlinkEnd
    PROVE  TableInv'
<1>1. PICK x \in Clusters :
        /\ x = op.cur /\ op.pc = "unlink" /\ fat[x] # FAT_ENTRY_FREE
        /\ op.next \notin Clusters /\ Becomes(x, FAT_ENTRY_USED)
        /\ GoesTo("write", x, x, op.next)
  BY UnlinkEndDoes
<1>2. InChain(OpStart, x) /\ TypeOK /\ TableType /\ Structure /\ op \in Calls
  BY <1>1, Running, InvParts DEF WritePcs
<1>3. PICK a : a = OpStart
  OBVIOUS
<1>4. fat[x] \in Clusters => fat[fat[x]] = FAT_ENTRY_FREE
  BY <1>1 DEF TableInv, OwnChain, WritePcs
<1>5. FAT_ENTRY_USED # FAT_ENTRY_FREE
  BY Numbers
<1>6. Written(x, FAT_ENTRY_USED) /\ TableType' /\ fat'[x] = FAT_ENTRY_USED
  BY <1>1 DEF Becomes
<1>7. /\ GoesOn /\ op'.pc = "write" /\ op'.cur = x /\ op'.old = x
      /\ op'.skip = op.skip /\ op'.i = op.i /\ op'.written = op.written
  BY <1>1 DEF GoesTo
<1>8. TypeOK' /\ ChunksFit' /\ KeptHeads /\ OpStart' = a
  BY <1>1, <1>3, <1>6, <1>7, WriteKeeps DEF WritePcs
<1>9. \A c \in Clusters : Loose(c) => c = x
  BY <1>1 DEF Loose
<1>10. Structure'
  BY <1>1, <1>2, <1>4, <1>6, <1>8, <1>9, StructureEnd
<1>11. InChain(a, x)'
  BY <1>2, <1>3, <1>6, ChainEnd DEF TableType, Written
<1>12. OwnChain'
  BY <1>5, <1>6, <1>7, <1>8, <1>11, OwnPlain
<1> QED  BY <1>8, <1>10, <1>12 DEF TableInv, Structure

LEMMA WriteStep ==
    ASSUME Room, TableInv, writeCluster
    PROVE  TableInv'
<1> DEFINE j == op.i + 1
           w == op.written + chunk
<1>1. PICK x \in Clusters :
        /\ x = op.cur /\ op.pc = "write" /\ op \in WriteCalls
        /\ UNCHANGED <<fat, fatCopy, entry>>
        /\ fat[x] = FAT_ENTRY_USED /\ GoesOn /\ op'.cur = x /\ op'.old = x
        /\ op'.skip = op.skip /\ op'.i = j /\ op'.written = w
        /\ \/ op'.pc = "directory"
           \/ op'.pc = "grow" /\ j # clustersToWrite
  BY WriteDoes
<1>2. Rounds /\ InChain(OpStart, x) /\ TypeOK /\ TableType /\ Structure
  BY <1>1, Running, InvParts DEF WritePcs
<1>3. PICK a : a = OpStart
  OBVIOUS
<1>4. TableType'
  BY <1>1, <1>2 DEF TableType
<1>5. w \in Nat /\ j \in Nat /\ w <= Len(op.in) /\ op.i \in Nat
      /\ (w = firstChunk + (op.i * clusterSize) \/ j = clustersToWrite)
  BY <1>1, <1>2, RoundFits, WriteCallFields
<1>6. TypeOK'
  <2>1. op.fresh # 0 => op'.skip = 0
    BY <1>1, <1>2 DEF TypeOK, WritePcs
  <2> QED  BY <1>1, <1>2, <1>4, <2>1, WriteType
<1>7. KeptHeads /\ OpStart' = a
  BY <1>1, <1>3, SameHeads DEF GoesOn, KeptHeads
<1>8. Structure'
  <2>1. (\A c \in Clusters : ~ Loose(c)) /\ op.pc # "unlink"
    BY <1>1 DEF Loose
  <2> QED  BY <1>1, <1>2, <1>7, <2>1, StructureSame
<1>9. CASE op'.pc = "directory"
  <2>1. OwnChain' /\ ChunksFit'
    BY <1>9 DEF OwnChain, ChunksFit
  <2> QED  BY <1>6, <1>8, <2>1 DEF TableInv, Structure
<1>10. CASE op'.pc = "grow" /\ j # clustersToWrite
  <2>1. InChain(a, x)'
    BY <1>1, <1>2, <1>3, ChainSame
  <2>2. fat'[x] = FAT_ENTRY_USED /\ FAT_ENTRY_USED # FAT_ENTRY_FREE
    BY <1>1, Numbers
  <2>3. OwnChain'
    BY <1>1, <1>7, <1>10, <2>1, <2>2, OwnPlain
  <2>4. Rounds'
    <3>1. clustersToWrite' = clustersToWrite /\ firstChunk' = firstChunk
      BY <1>1 DEF GoesOn, clustersToWrite, firstChunk
    <3>2. clustersToWrite \in Nat
      BY <1>1, OpLayout
    <3>3. j < clustersToWrite /\ j > 0 /\ j - 1 = op.i
      BY <1>2, <1>5, <1>10, <3>2 DEF Rounds
    <3>4. w = firstChunk + ((j - 1) * clusterSize)
      BY <1>5, <1>10, <3>3
    <3>5. op' \in WriteCalls /\ op'.i = j /\ op'.written = w /\ op'.in = op.in
      BY <1>1 DEF GoesOn
    <3> HIDE DEF j, w
    <3> QED  BY <1>5, <3>1, <3>3, <3>4, <3>5 DEF Rounds
  <2>5. ChunksFit'
    <3>1. op'.i > 0
      BY <1>1, <1>5
    <3> QED  BY <1>10, <2>4, <3>1, RoundsChunks
  <2> QED  BY <1>6, <1>8, <2>3, <2>5 DEF TableInv, Structure
<1> QED  BY <1>1, <1>9, <1>10

LEMMA CreateEntryStep ==
    ASSUME Room, TableInv, createEntry
    PROVE  TableInv'
<1>1. op.pc = "entry" /\ op' = Idle /\ UNCHANGED <<fat, fatCopy, data, content>>
  BY DEF createEntry
<1>2. TypeOK /\ TableType /\ Structure /\ op \in Calls
  BY InvParts
<1>3. op.file \in Files /\ op.start \in Clusters /\ op.start # RootDir
      /\ entry[op.file].start = 0
  BY <1>1, <1>2, WriteCall DEF TypeOK
<1>4. entry' = [entry EXCEPT ![op.file] = [start |-> op.start, size |-> 0]]
  BY DEF createEntry, Room
<1>5. entry \in [Files -> [start : Links, size : -1 .. MaxSize]]
      /\ \A f \in Files : entry[f].start = 0 => entry[f].size <= 0
  BY <1>2 DEF TypeOK
<1>6. entry'[op.file].start = op.start /\ entry'[op.file].size = 0
      /\ \A f \in Files : f # op.file => entry'[f] = entry[f]
  BY <1>3, <1>4, <1>5
<1>7. entry' \in [Files -> [start : Links, size : -1 .. MaxSize]]
  <2>1. [start |-> op.start, size |-> 0] \in [start : Links, size : -1 .. MaxSize]
    BY <1>3, ClusterAssumption DEF Links
  <2> QED  BY <1>4, <1>5, <2>1
<1>8. TypeOK'
  <2>1. \A f \in Files : entry'[f].start = 0 => entry'[f].size <= 0
    BY <1>5, <1>6
  <2>2. TableType' /\ DOMAIN data' = Bytes
    BY <1>1, <1>2 DEF TableType, TypeOK
  <2> QED  BY <1>1, <1>2, <1>7, <2>1, <2>2, IdleType
<1>9. Pending = {op.start} /\ Pending' = {}
  BY <1>1 DEF Pending, Idle, WritePcs
<1>10. 0 \notin Clusters
  BY DEF Clusters
<1>11. Starts' = Starts \cup Pending
  BY <1>3, <1>6, <1>9, <1>10 DEF Starts
<1>12. \A f, g \in Files :
           f # g /\ entry'[f].start = entry'[g].start => entry'[f].start = 0
  <2>1. \A f \in Files : entry[f].start # op.start
    BY <1>2, <1>3, <1>9 DEF Structure, NoCrossLinks, Starts
  <2> QED  BY <1>2, <1>6, <2>1 DEF Structure, NoCrossLinks
<1>13. Structure'
  <2>1. (\A c \in Clusters : ~ Loose(c)) /\ op.pc # "unlink"
    BY <1>1 DEF Loose
  <2> QED  BY <1>1, <1>2, <1>9, <1>11, <1>12, <2>1, StructureMoved
<1> QED  BY <1>1, <1>8, <1>13, IdleRest DEF TableInv, Structure

LEMMA UpdateEntryStep ==
    ASSUME Room, TableInv, updateEntry
    PROVE  TableInv'
<1>1. op.pc = "directory" /\ op' = Idle /\ UNCHANGED <<fat, fatCopy, data>>
  BY DEF updateEntry
<1>2. TypeOK /\ TableType /\ Structure /\ op \in WriteCalls
  BY <1>1, InvParts DEF WritePcs
<1>3. /\ op.file \in Files /\ op.fresh \in Links
      /\ op.fresh = 0 <=> entry[op.file].start # 0
      /\ entry \in [Files -> [start : Links, size : -1 .. MaxSize]]
      /\ \A f \in Files : entry[f].start = 0 => entry[f].size <= 0
  BY <1>1, <1>2, WriteCallFields DEF TypeOK, WritePcs
<1>4. PICK z : z = op.startPos + Len(op.in)
  OBVIOUS
<1>5. z \in -1 .. MaxSize
  <2>1. op.in \in Seq(Int) /\ op.startPos \in Nat
    BY <1>2, WriteCallFields, ClusterAssumption
  <2>2. Len(op.in) \in Nat
    BY <2>1
  <2>3. op.startPos + Len(op.in) <= MaxSize
    BY <1>1, <1>2 DEF TypeOK, WritePcs
  <2> QED  BY <1>4, <2>1, <2>2, <2>3, ClusterAssumption
<1>6. PICK s \in Links : s = IF op.fresh > 0 THEN op.fresh ELSE entry[op.file].start
  BY <1>3
<1>7. entry' = [entry EXCEPT ![op.file] = [start |-> s, size |-> z]]
  BY <1>4, <1>6 DEF updateEntry, Room
<1>8. entry'[op.file].start = s /\ \A f \in Files : f # op.file => entry'[f] = entry[f]
  BY <1>3, <1>7
<1>9. entry' \in [Files -> [start : Links, size : -1 .. MaxSize]]
  <2>1. [start |-> s, size |-> z] \in [start : Links, size : -1 .. MaxSize]
    BY <1>5
  <2> QED  BY <1>3, <1>7, <2>1
<1>10. /\ op.fresh = 0 => s = entry[op.file].start
       /\ op.fresh # 0 => s = op.fresh /\ entry[op.file].start = 0
       /\ s # 0 /\ 0 \notin Clusters /\ s \in Clusters
  <2>1. 0 \notin Clusters
    BY DEF Clusters
  <2>2. op.fresh # 0 => op.fresh > 0
    BY <1>3 DEF Links, Clusters
  <2> QED  BY <1>3, <1>6, <2>1, <2>2 DEF Links
<1>11. TypeOK'
  <2>1. \A f \in Files : entry'[f].start = 0 => entry'[f].size <= 0
    BY <1>3, <1>8, <1>10
  <2>2. TableType' /\ DOMAIN data' = Bytes
    BY <1>1, <1>2 DEF TableType, TypeOK
  <2> QED  BY <1>1, <1>2, <1>9, <2>1, <2>2, IdleType
<1>12. Pending = {op.fresh} \cap Clusters /\ Pending' = {}
  BY <1>1 DEF Pending, Idle, WritePcs
<1>13. Starts' = Starts \cup Pending
  BY <1>3, <1>8, <1>10, <1>12 DEF Starts
<1>14. \A f, g \in Files :
           f # g /\ entry'[f].start = entry'[g].start => entry'[f].start = 0
  <2>1. CASE op.fresh = 0
    BY <1>2, <1>3, <1>8, <1>10, <2>1 DEF Structure, NoCrossLinks
  <2>2. CASE op.fresh # 0
    <3>1. \A f \in Files : entry[f].start # s
      BY <1>2, <1>10, <1>12, <2>2 DEF Structure, NoCrossLinks, Starts
    <3> QED  BY <1>2, <1>8, <3>1 DEF Structure, NoCrossLinks
  <2> QED  BY <2>1, <2>2
<1>15. Structure'
  <2>1. (\A c \in Clusters : ~ Loose(c)) /\ op.pc # "unlink"
    BY <1>1 DEF Loose
  <2> QED  BY <1>1, <1>2, <1>12, <1>13, <1>14, <2>1, StructureMoved
<1> QED  BY <1>1, <1>11, <1>15, IdleRest DEF TableInv, Structure

(* A call begins with a new cluster.                                       *)
LEMMA NewCluster ==
    ASSUME TableInv, op = Idle, UNCHANGED entry,
           NEW v \in Clusters \ {RootDir}, fat[v] = FAT_ENTRY_FREE,
           Becomes(v, FAT_ENTRY_USED), Pending' = {v}
    PROVE  TableType' /\ Structure' /\ fat'[v] = FAT_ENTRY_USED
<1>1. TableType /\ Structure /\ op \in Calls
  BY InvParts
<1>2. Written(v, FAT_ENTRY_USED) /\ TableType' /\ fat'[v] = FAT_ENTRY_USED
  BY DEF Becomes
<1>3. (\A c \in Clusters : ~ Loose(c)) /\ op.pc # "unlink" /\ Pending = {}
  BY DEF Idle, Loose, Pending, WritePcs
<1>4. Structure'
  BY <1>1, <1>2, <1>3, StructureNew
<1> QED  BY <1>2, <1>4

LEMMA CreateFileStep ==
    ASSUME Room, TableInv, NEW f \in Files, createFile(f)
    PROVE  TableInv'
<1>1. op = Idle /\ entry[f] = NoFile /\ UNCHANGED <<data, entry>>
  BY CreateFileDoes
<1>2. PICK v \in Clusters \ {RootDir} :
        /\ fat[v] = FAT_ENTRY_FREE /\ Becomes(v, FAT_ENTRY_USED)
        /\ op' = [pc |-> "entry", file |-> f, start |-> v]
  BY CreateFileDoes
<1>3. op'.pc = "entry" /\ op'.file = f /\ op'.start = v
  BY <1>2
<1>4. Pending' = {v}
  BY <1>3 DEF Pending
<1>5. TableType' /\ Structure'
  BY <1>1, <1>2, <1>4, NewCluster
<1>6. TypeOK'
  <2>1. op' \in Calls
    BY <1>2 DEF Calls
  <2>2. entry'[f].start = 0
    BY <1>1 DEF NoFile
  <2>3. TypeOK
    BY InvParts
  <2> QED  BY <1>1, <1>3, <1>5, <2>1, <2>2, <2>3 DEF TypeOK, TableType, WritePcs, Calls
<1>7. OwnChain' /\ ChunksFit'
  BY <1>3 DEF OwnChain, ChunksFit, WritePcs
<1> QED  BY <1>5, <1>6, <1>7 DEF TableInv, Structure

LEMMA WriteFileStep ==
    ASSUME Room, TableInv, NEW f \in Files, NEW startPos \in 0 .. MaxSize,
           NEW in \in Inputs, writeFile(f, startPos, in)
    PROVE  TableInv'
<1>1. /\ op = Idle /\ UNCHANGED <<data, entry>>
      /\ startPos <= entry[f].size /\ startPos + Len(in) <= MaxSize
  BY WriteFileDoes
<1>2. PICK start \in Clusters \ {RootDir}, fresh \in Links :
        /\ op' = StartWrite(f, startPos, in, start, fresh)
        /\ \/ /\ fresh = 0 /\ start = entry[f].start /\ UNCHANGED <<fat, fatCopy>>
           \/ /\ fresh = start /\ entry[f].start = 0
              /\ fat[start] = FAT_ENTRY_FREE /\ Becomes(start, FAT_ENTRY_USED)
  BY WriteFileDoes
<1>3. TypeOK /\ TableType /\ Structure /\ op \in Calls
  BY InvParts
<1>4. startPos \in Nat /\ startPos \div clusterSize \in Nat /\ (startPos = 0 => startPos \div clusterSize = 0)
  BY ClusterAssumption
<1>5. 0 \in Links /\ start \in Links /\ start \in Values /\ 0 \notin Clusters /\ start > 0
      /\ start # 0
  BY Numbers DEF Links, Clusters
<1>6. op' \in WriteCalls /\ op'.pc = "skip" /\ op'.cur = start /\ op'.fresh = fresh
      /\ op'.i = 0 /\ op'.written = 0 /\ op'.file = f /\ op'.startPos = startPos
      /\ op'.in = in /\ op'.skip = startPos \div clusterSize
  BY <1>2, <1>4, <1>5 DEF StartWrite, WriteCalls, WritePcs
<1>7. /\ fresh = 0 <=> entry[f].start # 0
      /\ fresh # 0 => startPos = 0
      /\ fresh = 0 => start = entry[f].start
  <2>1. entry[f].start = 0 => entry[f].size <= 0 /\ entry[f].size \in Int
    BY <1>3 DEF TypeOK
  <2> QED  BY <1>1, <1>2, <1>4, <1>5, <2>1
<1>8. TableType' /\ Structure' /\ fat'[start] # FAT_ENTRY_FREE
  <2>1. CASE fresh = 0 /\ start = entry[f].start /\ UNCHANGED <<fat, fatCopy>>
    <3>1. fat'[start] # FAT_ENTRY_FREE /\ TableType'
      BY <1>3, <2>1 DEF Structure, NoLooseEnds, Heads, Starts, TableType
    <3>2. Pending = {} /\ Pending' = {}
      BY <1>1, <1>6, <2>1 DEF Pending, Idle, WritePcs, Clusters
    <3>3. KeptHeads
      BY <1>1, <3>2 DEF KeptHeads, Heads, Starts
    <3>4. (\A c \in Clusters : ~ Loose(c)) /\ op.pc # "unlink"
      BY <1>1 DEF Idle, Loose
    <3> QED  BY <1>3, <2>1, <3>1, <3>3, <3>4, StructureSame
  <2>2. CASE fresh = start /\ fat[start] = FAT_ENTRY_FREE /\ Becomes(start, FAT_ENTRY_USED)
    <3>1. Pending' = {start}
      BY <1>6, <2>2 DEF Pending, WritePcs
    <3>2. TableType' /\ Structure' /\ fat'[start] = FAT_ENTRY_USED
      BY <1>1, <2>2, <3>1, NewCluster
    <3> QED  BY <3>2, Numbers
  <2> QED  BY <1>2, <2>1, <2>2
<1>9. TypeOK'
  <2>1. op' \in Calls
    BY <1>6 DEF WriteCalls, Calls
  <2>2. op'.pc # "entry" /\ (op'.fresh # 0 => op'.skip = 0)
    BY <1>4, <1>6, <1>7
  <2> QED  BY <1>1, <1>3, <1>6, <1>7, <1>8, <2>1, <2>2 DEF TypeOK, TableType, Calls
<1>10. OwnChain'
  <2>1. OpStart' = start
    BY <1>1, <1>5, <1>6, <1>7, <1>2 DEF OpStart
  <2>2. InChain(start, start)'
    BY DEF InChain
  <2> QED  BY <1>6, <1>8, <2>1, <2>2, OwnPlain
<1>11. ChunksFit'
  <2>1. Rounds'
    <3>1. (op \in WriteCalls => clustersToWrite \in Nat \ {0})'
      BY RoundsPositive, PTL
    <3> QED  BY <1>6, <3>1 DEF Rounds
  <2> QED  BY <1>6, <2>1, RoundsChunks
<1> QED  BY <1>8, <1>9, <1>10, <1>11 DEF TableInv, Structure
-----------------------------------------------------------------------------
LEMMA TableStep ==
    ASSUME Room, TableInv, [Next]_vars
    PROVE  TableInv'
<1>1. CASE UNCHANGED vars
  <2>1. UNCHANGED <<fat, fatCopy, data, entry, op>>
    BY <1>1 DEF vars
  <2>2. Heads' = Heads /\ Pending' = Pending /\ OpStart' = OpStart /\ Starts' = Starts
    BY <2>1 DEF Heads, Starts, Pending, OpStart
  <2>3. TypeOK'
    BY <2>1 DEF TableInv, TypeOK
  <2>4. NoCrossLinks' /\ NoCycles' /\ NoLooseEnds'
    BY <2>1, <2>2 DEF TableInv, NoCrossLinks, NoCycles, NoLooseEnds, Loose
  <2>5. OwnChain'
    BY <2>1, <2>2 DEF TableInv, OwnChain, InChain, Closed
  <2>6. ChunksFit'
    BY <2>1 DEF TableInv, ChunksFit, chunk, firstChunk, clustersToWrite, startClusterPos
  <2> QED  BY <2>3, <2>4, <2>5, <2>6 DEF TableInv
<1> QED  BY <1>1, SkipStep, LinkStep, MarkStep, UnlinkNextStep, UnlinkEndStep,
            WriteStep, CreateEntryStep, UpdateEntryStep, CreateFileStep, WriteFileStep
         DEF Next, Step

LEMMA TableInit == Init => TableInv
<1> SUFFICES ASSUME Init PROVE TableInv
  OBVIOUS
<1>1. /\ fat \in [Entries -> Values] /\ fatCopy \in [Entries -> Values]
      /\ \A c \in Entries : fat[c] = RESERVED <=> c < 2
      /\ fat[RootDir] = FAT_ENTRY_USED
      /\ \A c \in Clusters : fat[c] \in {FAT_ENTRY_USED, FAT_ENTRY_FREE}
      /\ \A c \in Clusters : c # RootDir => fat[c] = FAT_ENTRY_FREE
  BY Numbers DEF Init, Entries, Clusters
<1>2. FAT_ENTRY_USED \notin Clusters /\ FAT_ENTRY_FREE \notin Clusters
      /\ FAT_ENTRY_USED # FAT_ENTRY_FREE
  BY Numbers DEF Clusters
<1>3. entry \in [Files -> [start : Links, size : -1 .. MaxSize]]
      /\ \A f \in Files : entry[f].start = 0 /\ entry[f].size <= 0
  BY ClusterAssumption DEF Init, NoFile, Links
<1>4. op \in Calls /\ op.pc = "idle" /\ op = Idle
  BY DEF Init, Calls, Idle
<1>5. Starts = {} /\ Pending = {} /\ Heads = {RootDir}
  BY <1>2, <1>3, <1>4 DEF Starts, Pending, Heads, WritePcs, FAT_ENTRY_FREE
<1>6. TypeOK
  BY <1>1, <1>3, <1>4 DEF TypeOK, WritePcs, Init
<1>7. NoCrossLinks
  BY <1>1, <1>2, <1>3, <1>5, Numbers DEF NoCrossLinks
<1>8. NoCycles
  BY <1>1, <1>2 DEF NoCycles
<1>9. NoLooseEnds
  BY <1>1, <1>2, <1>5 DEF NoLooseEnds
<1>10. OwnChain /\ ChunksFit
  BY <1>4 DEF OwnChain, ChunksFit, WritePcs
<1> QED  BY <1>6, <1>7, <1>8, <1>9, <1>10 DEF TableInv

(* Without faults, and if the disk does not run full in the middle of a    *)
(* write, createFile, writeFile, writeFatFile and unlinkFatChain keep the  *)
(* table free of cross links, cycles and loose ends at every step, and     *)
(* write data only into clusters of their own file, each round within its  *)
(* cluster.                                                                *)
THEOREM TableSound ==
    ASSUME IoFaults = FALSE
    PROVE  Spec /\ []RoomToGrow => []TableInv
<1>1. TableInv /\ RoomToGrow /\ [Next]_vars => TableInv'
  BY TableStep DEF Room
<1> QED  BY <1>1, TableInit, PTL DEF Spec
-----------------------------------------------------------------------------
(* Allocation.  AllocationExact counts the clusters of a chain, which      *)
(* Walk follows by recursion.  What is inductive is that every cluster in  *)
(* use has an owner, a file or the root directory, and a place in the      *)
(* chain of that owner: own and pos below.  That there are such functions  *)
(* is what the invariant says; every step extends them by the cluster it   *)
(* marks.                                                                  *)

Root   == CHOOSE r : r \notin Files
Owners == Files \cup {Root}

(* Where the chain of an owner begins, 0 if it has none: for the running   *)
(* call what it will put into the entry.                                   *)
HeadOf ==
    [o \in Owners |->
        IF o = Root THEN RootDir
        ELSE IF op.pc = "entry" /\ op.file = o THEN op.start
        ELSE IF op.pc \in WritePcs /\ op.file = o THEN OpStart
        ELSE entry[o].start]

Used == {c \in Clusters : fat[c] # FAT_ENTRY_FREE}

(* Heads are at place 0, links lead from a place to the next one, no two   *)
(* clusters of an owner have one place, and where a chain ends is the last *)
(* place of all, also while it is cut in two.                              *)
Ranked(own, pos) ==
    /\ own \in [Clusters -> Owners] /\ pos \in [Clusters -> Nat]
    /\ \A o \in Owners : HeadOf[o] # 0 => own[HeadOf[o]] = o /\ pos[HeadOf[o]] = 0
    /\ \A c \in Used : HeadOf[own[c]] # 0
    /\ \A c \in Used : fat[c] \in Used => own[fat[c]] = own[c] /\ pos[fat[c]] = pos[c] + 1
    /\ \A c, d \in Used : own[c] = own[d] /\ pos[c] = pos[d] => c = d
    /\ \A c, d \in Used : own[c] = own[d] /\ fat[c] = FAT_ENTRY_USED => pos[d] <= pos[c]

(* The chain of f ends where its size says.                                *)
EndsAt(own, pos, f, size) ==
    \A c \in Used : own[c] = f /\ fat[c] = FAT_ENTRY_USED => pos[c] + 1 = ClustersFor(size)

(* No call has begun to change f.                                          *)
Steady(f) ==
    \/ op.pc \notin WritePcs \cup {"entry"}
    \/ op.file # f
    \/ op.pc = "skip" /\ op.fresh = 0

LastOf(own, pos, x) == \A d \in Used : own[d] = own[x] => pos[d] <= pos[x]

(* The cluster that the start position of the running write lies in.       *)
Wanted == op.startPos \div clusterSize

(* At which place the running call is with its cluster, and what lies      *)
(* behind it.                                                              *)
CallAt(own, pos) ==
    /\ op.pc = "entry" => \A c \in Used : own[c] = op.file => c = op.start
    /\ op.pc \in WritePcs \ {"directory"} => own[op.cur] = op.file
    /\ op.pc = "skip" => pos[op.cur] + op.skip = Wanted
    /\ op.pc \in {"append", "appended"} => pos[op.cur] + 1 = Wanted
    /\ op.pc \in {"appended", "grown"} => LastOf(own, pos, op.cur)
    /\ op.pc = "unlink" => pos[op.cur] = Wanted
    /\ op.pc = "unlink" /\ op.next \in Clusters => own[op.next] = op.file
    /\ op.pc = "unlink" =>
          \A d \in Used : own[d] = op.file /\ pos[d] > pos[op.cur] =>
              op.next \in Clusters /\ pos[d] >= pos[op.next]
    /\ op.pc = "write" => pos[op.cur] = Wanted + op.i
    /\ op.pc \in {"grow", "grown"} => pos[op.cur] + 1 = Wanted + op.i
    /\ op.pc = "directory" => EndsAt(own, pos, op.file, op.startPos + Len(op.in))

Placed(own, pos) ==
    /\ Ranked(own, pos) /\ CallAt(own, pos)
    /\ \A f \in Files : Steady(f) => EndsAt(own, pos, f, entry[f].size)

AllocInv == TableInv /\ \E own, pos : Placed(own, pos)

(* Every set of numbers has a least one.                                   *)
LEMMA Least ==
    ASSUME NEW S, S \subseteq Nat, S # {}
    PROVE  \E x \in S : \A y \in S : x <= y
<1>1. PICK x \in S : \A y \in S : ~ (<<y, x>> \in OpToRel(<, Nat))
  BY NatLessThanWellFounded, WFMin
<1>2. \A y \in S : ~ (y < x)
  BY <1>1, Zenon DEF OpToRel
<1> QED  BY <1>2

LEMMA RootIs == Root \in Owners /\ Root \notin Files /\ Files \subseteq Owners
BY NoSetContainsEverything DEF Root, Owners

(* What the head of an owner is, in the terms of NoLooseEnds.              *)
LEMMA HeadIs ==
    ASSUME op \in Calls
    PROVE  /\ HeadOf[Root] = RootDir
           /\ \A f \in Files :
                /\ op.pc = "entry" /\ op.file = f => HeadOf[f] = op.start
                /\ op.pc \in WritePcs /\ op.file = f => HeadOf[f] = OpStart
                /\ op.pc \notin WritePcs \cup {"entry"} \/ op.file # f => HeadOf[f] = entry[f].start
<1>1. op.pc = "entry" => op.pc \notin WritePcs
  BY DEF WritePcs
<1> QED  BY <1>1, RootIs DEF HeadOf

LEMMA HeadsUsed ==
    ASSUME TableInv, NEW o \in Owners, HeadOf[o] # 0
    PROVE  HeadOf[o] \in Heads /\ HeadOf[o] \in Used
<1>1. TypeOK /\ Structure /\ op \in Calls
  BY InvParts
<1>2. HeadOf[o] \in Heads
  <2>1. CASE o = Root
    BY <1>1, <2>1, HeadIs DEF Heads
  <2>2. CASE o \in Files /\ op.pc = "entry" /\ op.file = o
    BY <1>1, <2>2, HeadIs DEF Heads, Pending
  <2>3. CASE o \in Files /\ op.pc \in WritePcs /\ op.file = o
    <3>1. op \in WriteCalls /\ op.pc # "entry"
      BY <2>3, InvParts DEF WritePcs
    <3>2. op.fresh \in Links /\ entry[o].start \in Links
      BY <1>1, <2>3, <3>1, WriteCallFields DEF TypeOK
    <3>3. HeadOf[o] = IF op.fresh > 0 THEN op.fresh ELSE entry[o].start
      BY <1>1, <2>3, HeadIs DEF OpStart
    <3>4. CASE op.fresh > 0
      BY <2>3, <3>1, <3>2, <3>3, <3>4 DEF Heads, Pending, Links
    <3>5. CASE ~ (op.fresh > 0)
      BY <2>3, <3>2, <3>3, <3>5 DEF Heads, Starts, Links
    <3> QED  BY <3>4, <3>5
  <2>4. CASE o \in Files /\ ((op.pc # "entry" /\ op.pc \notin WritePcs) \/ op.file # o)
    <3>1. HeadOf[o] = entry[o].start
      BY <1>1, <2>4, HeadIs
    <3>2. entry[o].start \in Links
      BY <1>1, <2>4 DEF TypeOK
    <3> QED  BY <2>4, <3>1, <3>2 DEF Heads, Starts, Links
  <2> QED  BY <2>1, <2>2, <2>3, <2>4 DEF Owners
<1>3. Heads \subseteq Clusters
  BY <1>1, HeadsAreClusters
<1> QED  BY <1>1, <1>2, <1>3 DEF Structure, NoLooseEnds, Used

(* The head that a cluster in use goes back to, and what it leads to.      *)
LEMMA UsedLink ==
    ASSUME TableInv, NEW c \in Used, ~ Loose(c)
    PROVE  fat[c] = FAT_ENTRY_USED \/ fat[c] \in Used
<1>1. TableType /\ Structure /\ c \in Clusters /\ fat[c] # FAT_ENTRY_FREE
  BY InvParts DEF Used
<1>2. fat[c] \in Links \cup {FAT_ENTRY_USED}
  BY <1>1, LinkValue
<1>3. fat[c] \in Clusters \/ fat[c] = FAT_ENTRY_USED
  BY <1>1, <1>2, Numbers DEF Links
<1> QED  BY <1>1, <1>3 DEF Structure, NoLooseEnds, Used

-----------------------------------------------------------------------------
(* The ways in which the table changes.                                    *)

LEMMA RankSame ==
    ASSUME NEW own, NEW pos, Ranked(own, pos), UNCHANGED <<fat, HeadOf>>
    PROVE  Ranked(own, pos)'
<1>1. Used' = Used
  BY DEF Used
<1> QED  BY <1>1 DEF Ranked

(* x gets a link to a free cluster.                                        *)
LEMMA RankLink ==
    ASSUME NEW own, NEW pos, Ranked(own, pos), HeadOf' = HeadOf,
           NEW x \in Clusters, fat[x] = FAT_ENTRY_USED,
           NEW v \in Clusters, fat[v] = FAT_ENTRY_FREE,
           fat'[x] = v, \A c \in Entries : c # x => fat'[c] = fat[c]
    PROVE  Ranked(own, pos)' /\ Used' = Used
<1>1. Used' = Used /\ v \notin Used /\ v # FAT_ENTRY_FREE
  BY Numbers DEF Used, Clusters
<1>2. \A c \in Used : c # x => fat'[c] = fat[c]
  BY Numbers DEF Used
<1>3. v # FAT_ENTRY_USED
  BY Numbers DEF Clusters
<1> QED  BY <1>1, <1>2, <1>3 DEF Ranked
Changed(f, x, y, g) == g = [f EXCEPT ![x] = y]

(* v, linked behind x, is marked: it comes to the place behind x.          *)
LEMMA RankMark ==
    ASSUME NEW own, NEW pos, Ranked(own, pos), HeadOf' = HeadOf,
           \A o \in Owners : HeadOf[o] # 0 => HeadOf[o] \in Used,
           NEW x \in Used, NEW v \in Clusters, fat[x] = v, fat[v] = FAT_ENTRY_FREE,
           \A c \in Clusters : fat[c] = v => c = x, LastOf(own, pos, x),
           fat'[v] = FAT_ENTRY_USED, \A c \in Entries : c # v => fat'[c] = fat[c],
           NEW own2, Changed(own, v, own[x], own2),
           NEW pos2, Changed(pos, v, pos[x] + 1, pos2)
    PROVE  /\ Ranked(own2, pos2)' /\ Used' = Used \cup {v} /\ v \notin Used
           /\ own2[v] = own[x] /\ pos2[v] = pos[x] + 1
           /\ \A c \in Used : own2[c] = own[c] /\ pos2[c] = pos[c] /\ fat'[c] = fat[c]
<1>1. v \notin Used /\ v # FAT_ENTRY_USED /\ FAT_ENTRY_USED # FAT_ENTRY_FREE
      /\ FAT_ENTRY_USED \notin Clusters /\ x \in Clusters
  BY Numbers DEF Used, Clusters
<1>2. /\ own \in [Clusters -> Owners] /\ pos \in [Clusters -> Nat]
      /\ \A o \in Owners : HeadOf[o] # 0 => own[HeadOf[o]] = o /\ pos[HeadOf[o]] = 0
      /\ \A c \in Used : HeadOf[own[c]] # 0
      /\ \A c \in Used : fat[c] \in Used => own[fat[c]] = own[c] /\ pos[fat[c]] = pos[c] + 1
      /\ \A c, d \in Used : own[c] = own[d] /\ pos[c] = pos[d] => c = d
      /\ \A c, d \in Used : own[c] = own[d] /\ fat[c] = FAT_ENTRY_USED => pos[d] <= pos[c]
  BY DEF Ranked
<1>3. \A c \in Used : c \in Clusters /\ c \in Entries /\ c # v
  BY <1>1, Numbers DEF Used
<1>4. Used' = Used \cup {v} /\ \A c \in Used : fat'[c] = fat[c]
  <2>1. \A c \in Clusters : c # v => fat'[c] = fat[c]
    BY Numbers
  <2> QED  BY <1>1, <2>1 DEF Used
<1>5. own[x] \in Owners /\ pos[x] \in Nat /\ pos[x] + 1 \in Nat
  BY <1>1, <1>2
<1>6. /\ own2 \in [Clusters -> Owners] /\ pos2 \in [Clusters -> Nat]
      /\ own2[v] = own[x] /\ pos2[v] = pos[x] + 1
      /\ \A c \in Used : own2[c] = own[c] /\ pos2[c] = pos[c]
  BY <1>2, <1>3, <1>5 DEF Changed
<1> HIDE DEF Ranked
<1>7. \A o \in Owners : HeadOf[o] # 0 => own2[HeadOf[o]] = o /\ pos2[HeadOf[o]] = 0
  BY <1>2, <1>6
<1>8. \A c \in Used' : HeadOf[own2[c]] # 0
  BY <1>2, <1>4, <1>6
<1>9. ASSUME NEW c \in Used', fat'[c] \in Used'
      PROVE  own2[fat'[c]] = own2[c] /\ pos2[fat'[c]] = pos2[c] + 1
  <2>1. c \in Used /\ fat'[c] = fat[c]
    BY <1>1, <1>4, <1>9, Numbers DEF Used
  <2>2. CASE fat[c] = v
    <3>1. c = x
      BY <1>3, <2>1, <2>2
    <3> QED  BY <1>6, <2>1, <2>2, <3>1
  <2>3. CASE fat[c] # v
    <3>1. fat[c] \in Used
      BY <1>4, <1>9, <2>1, <2>3
    <3> QED  BY <1>2, <1>6, <2>1, <3>1
  <2> QED  BY <2>2, <2>3
<1>10. \A d \in Used : own[d] = own[x] => pos[d] <= pos[x] /\ pos[d] \in Nat
  BY <1>2, <1>3 DEF LastOf
<1>11. ASSUME NEW c \in Used', NEW d \in Used', own2[c] = own2[d], pos2[c] = pos2[d]
       PROVE  c = d
  <2>1. CASE c \in Used /\ d \in Used
    BY <1>2, <1>6, <1>11, <2>1
  <2>2. CASE c = v /\ d \in Used
    BY <1>5, <1>6, <1>10, <1>11, <2>2
  <2>3. CASE d = v /\ c \in Used
    BY <1>5, <1>6, <1>10, <1>11, <2>3
  <2> QED  BY <1>4, <2>1, <2>2, <2>3
<1>12. ASSUME NEW c \in Used', NEW d \in Used', own2[c] = own2[d], fat'[c] = FAT_ENTRY_USED
       PROVE  pos2[d] <= pos2[c]
  <2>1. CASE c \in Used /\ d \in Used
    BY <1>2, <1>4, <1>6, <1>12, <2>1
  <2>2. CASE c = v
    BY <1>4, <1>5, <1>6, <1>10, <1>12, <2>2
  <2>3. CASE d = v /\ c \in Used
    <3>1. own[c] = own[x] /\ fat[c] = FAT_ENTRY_USED
      BY <1>4, <1>6, <1>12, <2>3
    <3>2. pos[x] <= pos[c] /\ pos[c] <= pos[x] /\ pos[c] \in Nat /\ pos[x] \in Nat
      BY <1>2, <1>5, <1>10, <2>3, <3>1
    <3>3. c = x
      BY <1>2, <2>3, <3>1, <3>2
    <3> QED  BY <1>1, <3>1, <3>3
  <2> QED  BY <1>4, <2>1, <2>2, <2>3
<1>13. Ranked(own2, pos2)'
  BY <1>6, <1>7, <1>8, <1>9, <1>11, <1>12 DEF Ranked
<1> QED  BY <1>1, <1>4, <1>6, <1>13

(* v is freed; it is no head.                                              *)
LEMMA RankFree ==
    ASSUME NEW own, NEW pos, Ranked(own, pos), HeadOf' = HeadOf,
           NEW v \in Clusters,
           fat'[v] = FAT_ENTRY_FREE, \A c \in Entries : c # v => fat'[c] = fat[c]
    PROVE  /\ Ranked(own, pos)' /\ Used' = Used \ {v}
           /\ \A c \in Used' : fat'[c] = fat[c]
<1>1. Used' = Used \ {v} /\ \A c \in Used' : c \in Used /\ fat'[c] = fat[c]
  BY Numbers DEF Used
<1> QED  BY <1>1 DEF Ranked

(* The chain is ended at x, behind which there is nothing any more.        *)
LEMMA RankEnd ==
    ASSUME NEW own, NEW pos, Ranked(own, pos), HeadOf' = HeadOf,
           NEW x \in Used, LastOf(own, pos, x),
           fat'[x] = FAT_ENTRY_USED, \A c \in Entries : c # x => fat'[c] = fat[c]
    PROVE  /\ Ranked(own, pos)' /\ Used' = Used
           /\ \A c \in Used : c # x => fat'[c] = fat[c]
<1>1. FAT_ENTRY_USED # FAT_ENTRY_FREE /\ FAT_ENTRY_USED \notin Clusters
  BY Numbers DEF Clusters
<1>2. Used' = Used /\ \A c \in Used : c # x => fat'[c] = fat[c]
  BY <1>1, Numbers DEF Used
<1>3. \A c \in Used : fat'[c] \in Used => fat'[c] = fat[c]
  BY <1>1, <1>2 DEF Used
<1> QED  BY <1>2, <1>3 DEF Ranked, LastOf

(* f, which has no cluster, gets v as its first.                           *)
LEMMA RankNew ==
    ASSUME NEW own, NEW pos, Ranked(own, pos),
           \A o \in Owners : HeadOf[o] # 0 => HeadOf[o] \in Used,
           NEW f \in Owners, HeadOf[f] = 0, NEW v \in Clusters,
           HeadOf'[f] = v, \A o \in Owners : o # f => HeadOf'[o] = HeadOf[o],
           fat[v] = FAT_ENTRY_FREE, \A c \in Clusters : fat[c] # v,
           fat'[v] = FAT_ENTRY_USED, \A c \in Entries : c # v => fat'[c] = fat[c],
           NEW own2, Changed(own, v, f, own2),
           NEW pos2, Changed(pos, v, 0, pos2)
    PROVE  /\ Ranked(own2, pos2)' /\ Used' = Used \cup {v} /\ v \notin Used
           /\ own2[v] = f /\ pos2[v] = 0
           /\ \A c \in Used : /\ own2[c] = own[c] /\ pos2[c] = pos[c] /\ fat'[c] = fat[c]
                              /\ own[c] # f
<1>1. v \notin Used /\ v # 0 /\ FAT_ENTRY_USED # FAT_ENTRY_FREE
      /\ FAT_ENTRY_USED \notin Clusters
  BY Numbers DEF Used, Clusters
<1>2. /\ own \in [Clusters -> Owners] /\ pos \in [Clusters -> Nat]
      /\ \A o \in Owners : HeadOf[o] # 0 => own[HeadOf[o]] = o /\ pos[HeadOf[o]] = 0
      /\ \A c \in Used : HeadOf[own[c]] # 0
      /\ \A c \in Used : fat[c] \in Used => own[fat[c]] = own[c] /\ pos[fat[c]] = pos[c] + 1
      /\ \A c, d \in Used : own[c] = own[d] /\ pos[c] = pos[d] => c = d
      /\ \A c, d \in Used : own[c] = own[d] /\ fat[c] = FAT_ENTRY_USED => pos[d] <= pos[c]
  BY DEF Ranked
<1>3. \A c \in Used : c \in Clusters /\ c \in Entries /\ c # v /\ fat[c] # v /\ own[c] # f
  BY <1>1, <1>2, Numbers DEF Used
<1>4. Used' = Used \cup {v} /\ \A c \in Used : fat'[c] = fat[c]
  <2>1. \A c \in Clusters : c # v => fat'[c] = fat[c]
    BY Numbers
  <2> QED  BY <1>1, <2>1 DEF Used
<1>5. /\ own2 \in [Clusters -> Owners] /\ pos2 \in [Clusters -> Nat]
      /\ own2[v] = f /\ pos2[v] = 0
      /\ \A c \in Used : own2[c] = own[c] /\ pos2[c] = pos[c]
  BY <1>2, <1>3 DEF Changed
<1>6. \A o \in Owners : HeadOf'[o] # 0 => own2[HeadOf'[o]] = o /\ pos2[HeadOf'[o]] = 0
  BY <1>2, <1>5
<1>7. \A c \in Used' : HeadOf'[own2[c]] # 0
  BY <1>1, <1>2, <1>3, <1>4, <1>5
<1>8. \A c \in Used' : fat'[c] \in Used' =>
          own2[fat'[c]] = own2[c] /\ pos2[fat'[c]] = pos2[c] + 1
  BY <1>1, <1>2, <1>3, <1>4, <1>5 DEF Used
<1>9. \A c, d \in Used' : own2[c] = own2[d] /\ pos2[c] = pos2[d] => c = d
  BY <1>2, <1>3, <1>4, <1>5
<1>10. \A c, d \in Used' : own2[c] = own2[d] /\ fat'[c] = FAT_ENTRY_USED => pos2[d] <= pos2[c]
  BY <1>2, <1>3, <1>4, <1>5
<1>11. Ranked(own2, pos2)'
  BY <1>5, <1>6, <1>7, <1>8, <1>9, <1>10 DEF Ranked
<1> QED  BY <1>1, <1>3, <1>4, <1>5, <1>11
-----------------------------------------------------------------------------
LEMMA HeadsEqual ==
    ASSUME \A o \in Owners : HeadOf'[o] = HeadOf[o]
    PROVE  HeadOf' = HeadOf
BY DEF HeadOf

LEMMA HeadsGoOn ==
    ASSUME op \in WriteCalls, GoesOn
    PROVE  HeadOf' = HeadOf
<1>1. op.pc \in WritePcs /\ op'.pc \in WritePcs /\ op.pc # "entry" /\ op'.pc # "entry"
  BY DEF GoesOn, WriteCalls, WritePcs
<1>2. OpStart' = OpStart
  BY SameHeads DEF GoesOn
<1>3. \A o \in Owners : HeadOf'[o] = HeadOf[o]
  BY <1>1, <1>2 DEF HeadOf, GoesOn
<1> QED  BY <1>3, HeadsEqual

(* A call ends: the entry of its file has what the call worked on.         *)
LEMMA HeadsEnd ==
    ASSUME op' = Idle, op.file \in Files, HeadOf[op.file] = entry'[op.file].start,
           \A f \in Files : f # op.file => entry'[f].start = entry[f].start,
           op \in Calls
    PROVE  HeadOf' = HeadOf
<1>1. op'.pc = "idle" /\ op'.pc # "entry" /\ op'.pc \notin WritePcs
  BY DEF Idle, WritePcs
<1>2. HeadOf'[Root] = HeadOf[Root]
  BY RootIs DEF HeadOf
<1>3. ASSUME NEW f \in Files PROVE HeadOf'[f] = HeadOf[f]
  <2>1. HeadOf'[f] = entry'[f].start
    BY <1>1, RootIs DEF HeadOf
  <2>2. CASE f = op.file
    BY <2>1, <2>2
  <2>3. CASE f # op.file
    BY <2>1, <2>3, HeadIs
  <2> QED  BY <2>2, <2>3
<1>4. \A o \in Owners : HeadOf'[o] = HeadOf[o]
  BY <1>2, <1>3 DEF Owners
<1> QED  BY <1>4, HeadsEqual

LEMMA EndsKept ==
    ASSUME NEW own, NEW pos, NEW own2, NEW pos2, NEW f,
           \A c \in Used' : own2[c] = f =>
               c \in Used /\ own[c] = f /\ pos2[c] = pos[c] /\ fat'[c] = fat[c],
           EndsAt(own, pos, f, entry[f].size), entry'[f].size = entry[f].size
    PROVE  EndsAt(own2, pos2, f, entry[f].size)'
BY DEF EndsAt, ClustersFor

(* A call that goes on leaves the other files alone.                       *)
LEMMA PlacedOn ==
    ASSUME NEW own, NEW pos, Placed(own, pos), NEW own2, NEW pos2,
           op \in WriteCalls, GoesOn, op'.pc # "skip",
           Ranked(own2, pos2)', CallAt(own2, pos2)',
           \A c \in Used' : own2[c] # op.file =>
               c \in Used /\ own2[c] = own[c] /\ pos2[c] = pos[c] /\ fat'[c] = fat[c]
    PROVE  Placed(own2, pos2)'
<1>1. ASSUME NEW f \in Files, Steady(f)'
      PROVE  EndsAt(own2, pos2, f, entry[f].size)'
  <2>1. f # op.file
    BY <1>1 DEF GoesOn, WriteCalls, Steady
  <2>2. EndsAt(own, pos, f, entry[f].size)
    BY <2>1 DEF Placed, Steady
  <2>3. \A c \in Used' : own2[c] = f =>
            c \in Used /\ own[c] = f /\ pos2[c] = pos[c] /\ fat'[c] = fat[c]
    BY <2>1
  <2>4. entry'[f].size = entry[f].size
    BY DEF GoesOn
  <2> QED  BY <2>2, <2>3, <2>4, Zenon DEF EndsAt, ClustersFor
<1> QED  BY <1>1 DEF Placed
-----------------------------------------------------------------------------
(* Skipping Wanted clusters and writing clustersToWrite ends in the last   *)
(* cluster of the size that the file then has.                             *)
LEMMA WantedClusters ==
    ASSUME op \in WriteCalls
    PROVE  /\ Wanted \in Nat
           /\ Wanted + clustersToWrite = ClustersFor(op.startPos + Len(op.in))
<1> DEFINE s == clusterSize
           q == op.startPos \div s
           P == op.startPos % s
           L == Len(op.in)
           e == (P + L) \div s
           r == (P + L) % s
<1>1. s \in Nat \ {0} /\ op.startPos \in Nat /\ L \in Nat \ {0}
  <2>1. op.startPos \in Nat /\ op.in \in Inputs
    BY WriteCallFields
  <2>2. op.in \in Seq(Int) /\ op.in # << >>
    BY <2>1, ClusterAssumption
  <2> QED  BY <2>1, <2>2, ClusterAssumption
<1> HIDE DEF s, L
<1>2. q \in Nat /\ P \in 0 .. (s - 1) /\ op.startPos = (q * s) + P
  BY <1>1, DivMod
<1> HIDE DEF q, P
<1>3. e \in Nat /\ r \in 0 .. (s - 1) /\ P + L = (e * s) + r
  <2>1. P + L \in Nat
    BY <1>1, <1>2
  <2> QED  BY <1>1, <2>1, DivMod
<1>4. clustersToWrite = e + (IF r # 0 THEN 1 ELSE 0)
  BY DEF clustersToWrite, s, P, L
<1> HIDE DEF e, r
<1>5. op.startPos + L = ((q + e) * s) + r /\ op.startPos + L # 0 /\ op.startPos + L \in Nat
  <2>1. (q + e) * s = (q * s) + (e * s) /\ q * s \in Nat /\ e * s \in Nat
    BY <1>1, <1>2, <1>3, TimesSum
  <2> QED  BY <1>1, <1>2, <1>3, <2>1
<1>6. ClustersFor(op.startPos + L) = (op.startPos + L + s - 1) \div s
  BY <1>5 DEF ClustersFor, s
<1>7. CASE r = 0
  <2> PICK m : m = (q + e) * s
    OBVIOUS
  <2>1. op.startPos + L + s - 1 = m + (s - 1) /\ op.startPos + L + s - 1 \in Nat
    BY <1>1, <1>5, <1>7
  <2>2. q + e \in Nat /\ s - 1 \in 0 .. (s - 1)
    BY <1>1, <1>2, <1>3
  <2>3. (op.startPos + L + s - 1) \div s = q + e
    BY <1>1, <2>1, <2>2, DivModIs
  <2> QED  BY <1>2, <1>3, <1>4, <1>6, <1>7, <2>3 DEF Wanted, q, s, L
<1>8. CASE r # 0
  <2>1. (q + e + 1) * s = ((q + e) * s) + (1 * s) /\ (q + e) * s \in Nat
    BY <1>1, <1>2, <1>3, TimesSum
  <2>2. op.startPos + L + s - 1 = ((q + e + 1) * s) + (r - 1) /\ op.startPos + L + s - 1 \in Nat
    BY <1>1, <1>3, <1>5, <1>8, <2>1
  <2>3. q + e + 1 \in Nat /\ r - 1 \in 0 .. (s - 1)
    BY <1>1, <1>2, <1>3, <1>8
  <2>4. (op.startPos + L + s - 1) \div s = q + e + 1
    BY <1>1, <2>2, <2>3, DivModIs
  <2> QED  BY <1>2, <1>3, <1>4, <1>6, <1>8, <2>4 DEF Wanted, q, s, L
<1> QED  BY <1>7, <1>8
-----------------------------------------------------------------------------
(* Every step keeps the clusters placed.                                   *)

(* What CallAt says at each place, to be shown or to be used.              *)
LEMMA CallAtIs ==
    ASSUME NEW own, NEW pos, CallAt(own, pos), op.pc \in WritePcs \ {"directory"}
    PROVE  /\ own[op.cur] = op.file
           /\ op.pc = "skip" => pos[op.cur] + op.skip = Wanted
           /\ op.pc \in {"append", "appended"} => pos[op.cur] + 1 = Wanted
           /\ op.pc \in {"grow", "grown"} => pos[op.cur] + 1 = Wanted + op.i
           /\ op.pc = "unlink" => pos[op.cur] = Wanted
           /\ op.pc = "write" => pos[op.cur] = Wanted + op.i
           /\ op.pc \in {"appended", "grown"} => LastOf(own, pos, op.cur)
BY DEF CallAt

LEMMA LinkPlaced ==
    ASSUME Room, TableInv, appendCluster \/ growChain,
           NEW own, NEW pos, Placed(own, pos)
    PROVE  Placed(own, pos)'
<1>1. PICK v \in Clusters :
        /\ op.pc \in {"append", "grow"} /\ op \in WriteCalls
        /\ op.cur \in Clusters /\ fat[op.cur] = FAT_ENTRY_USED /\ fat[v] = FAT_ENTRY_FREE
        /\ fat'[op.cur] = v /\ \A c \in Entries : c # op.cur => fat'[c] = fat[c]
        /\ GoesOn /\ op'.cur = op.cur /\ op'.i = op.i
        /\ \/ op.pc = "append" /\ op'.pc = "appended"
           \/ op.pc = "grow" /\ op'.pc = "grown"
  BY LinkDoes DEF Becomes, GoesTo
<1>2. Ranked(own, pos) /\ CallAt(own, pos) /\ op.cur \in Used
  BY <1>1, Numbers DEF Placed, Used
<1>3. HeadOf' = HeadOf
  BY <1>1, HeadsGoOn
<1>4. Ranked(own, pos)' /\ Used' = Used
  BY <1>1, <1>2, <1>3, RankLink
<1>5. LastOf(own, pos, op.cur)'
  BY <1>1, <1>2, <1>4 DEF Ranked, LastOf
<1>6. /\ own[op.cur] = op.file
      /\ op.pc = "append" => pos[op.cur] + 1 = Wanted
      /\ op.pc = "grow" => pos[op.cur] + 1 = Wanted + op.i
  BY <1>1, <1>2, CallAtIs DEF WritePcs
<1>7. Wanted' = Wanted
  BY <1>1 DEF Wanted, GoesOn
<1>8. CallAt(own, pos)'
  BY <1>1, <1>5, <1>6, <1>7 DEF CallAt, GoesOn
<1>9. \A c \in Used' : own[c] # op.file => c \in Used /\ fat'[c] = fat[c]
  BY <1>1, <1>4, <1>6, Numbers DEF Used
<1> QED  BY <1>1, <1>4, <1>8, <1>9, PlacedOn

LEMMA MarkPlaced ==
    ASSUME Room, TableInv, markAppended \/ markGrown,
           NEW own, NEW pos, Placed(own, pos)
    PROVE  (\E own2, pos2 : Placed(own2, pos2))'
<1> DEFINE v == op.next
<1>1. /\ op.pc \in {"appended", "grown"} /\ op \in WriteCalls
      /\ op.cur \in Clusters /\ fat[op.cur] = v /\ v \in Clusters
      /\ fat[v] = FAT_ENTRY_FREE /\ fat'[v] = FAT_ENTRY_USED
      /\ \A c \in Entries : c # v => fat'[c] = fat[c]
      /\ GoesOn /\ op'.cur = v /\ op'.i = op.i
      /\ \/ op.pc = "appended" /\ op.i = 0 /\ op'.pc = "unlink" /\ op'.next = FAT_ENTRY_USED
         \/ op.pc = "grown" /\ op'.pc = "write"
  BY MarkDoes DEF Becomes, GoesTo
<1>2. Ranked(own, pos) /\ CallAt(own, pos) /\ op.cur \in Used
  BY <1>1, Numbers DEF Placed, Used, Clusters
<1>3. HeadOf' = HeadOf
  BY <1>1, HeadsGoOn
<1>4. /\ own[op.cur] = op.file /\ LastOf(own, pos, op.cur)
      /\ op.pc = "appended" => pos[op.cur] + 1 = Wanted
      /\ op.pc = "grown" => pos[op.cur] + 1 = Wanted + op.i
  BY <1>1, <1>2, CallAtIs DEF WritePcs
<1>5. \A c \in Clusters : fat[c] = v => c = op.cur
  BY <1>1, InvParts DEF Structure, NoCrossLinks
<1>6. \A o \in Owners : HeadOf[o] # 0 => HeadOf[o] \in Used
  BY HeadsUsed
<1> HIDE DEF v
<1>16. PICK o2, p2 : Changed(own, v, own[op.cur], o2) /\ Changed(pos, v, pos[op.cur] + 1, p2)
  BY DEF Changed
<1>7. /\ Ranked(o2, p2)' /\ Used' = Used \cup {v}
      /\ o2[v] = op.file /\ p2[v] = pos[op.cur] + 1
      /\ \A c \in Used : o2[c] = own[c] /\ p2[c] = pos[c] /\ fat'[c] = fat[c]
  <2>1. /\ fat[op.cur] = v /\ v \in Clusters /\ fat[v] = FAT_ENTRY_FREE
        /\ fat'[v] = FAT_ENTRY_USED /\ \A c \in Entries : c # v => fat'[c] = fat[c]
    BY <1>1
  <2>2. PICK x \in Used : x = op.cur
    BY <1>2
  <2>3. /\ Ranked(o2, p2)' /\ Used' = Used \cup {v}
        /\ o2[v] = own[x] /\ p2[v] = pos[x] + 1
        /\ \A c \in Used : o2[c] = own[c] /\ p2[c] = pos[c] /\ fat'[c] = fat[c]
    <3>1. LastOf(own, pos, x) /\ fat[x] = v /\ \A c \in Clusters : fat[c] = v => c = x
      BY <1>4, <1>5, <2>1, <2>2
    <3>2. Changed(own, v, own[x], o2) /\ Changed(pos, v, pos[x] + 1, p2)
      BY <1>16, <2>2
    <3>3. Ranked(own, pos)
      BY <1>2
    <3> QED  BY <1>3, <1>6, <2>1, <3>1, <3>2, <3>3, RankMark
  <2> QED  BY <1>4, <2>2, <2>3
<1>8. Wanted' = Wanted
  BY <1>1 DEF Wanted, GoesOn
<1>9. \A d \in Used' : o2[d] = op.file => p2[d] <= p2[v]
  <2>1. pos[op.cur] \in Nat /\ \A d \in Used : pos[d] \in Nat
    BY <1>1, <1>2 DEF Ranked, Used
  <2>2. ASSUME NEW d \in Used, o2[d] = op.file
        PROVE  p2[d] <= p2[v]
    BY <1>4, <1>7, <2>1, <2>2 DEF LastOf
  <2> QED  BY <1>7, <2>1, <2>2
<1>10. FAT_ENTRY_USED \notin Clusters
  BY Numbers
<1>11. \A d \in Used' : p2[d] \in Nat
  BY <1>7 DEF Ranked, Used
<1>12. CallAt(o2, p2)'
  BY <1>1, <1>4, <1>7, <1>8, <1>9, <1>10, <1>11 DEF CallAt, GoesOn
<1>13. \A c \in Used' : o2[c] # op.file =>
           c \in Used /\ o2[c] = own[c] /\ p2[c] = pos[c] /\ fat'[c] = fat[c]
  BY <1>7
<1>14. op'.pc # "skip"
  BY <1>1
<1>15. Placed(o2, p2)'
  <2>1. op \in WriteCalls /\ GoesOn /\ Ranked(o2, p2)'
    BY <1>1, <1>7
  <2> QED  BY <1>12, <1>13, <1>14, <2>1, PlacedOn
<1> QED  BY <1>15

LEMMA UnlinkNextPlaced ==
    ASSUME Room, TableInv, unlinkNext, NEW own, NEW pos, Placed(own, pos)
    PROVE  Placed(own, pos)'
<1>1. PICK v \in Clusters, n \in Links \cup {FAT_ENTRY_USED} :
        /\ v = op.next /\ n = fat[v] /\ op.pc = "unlink" /\ op \in WriteCalls
        /\ fat'[v] = FAT_ENTRY_FREE /\ \A c \in Entries : c # v => fat'[c] = fat[c]
        /\ GoesOn /\ op'.pc = "unlink" /\ op'.cur = op.cur /\ op'.next = n
  BY UnlinkNextDoes DEF Becomes, GoesTo
<1>2. Ranked(own, pos) /\ CallAt(own, pos)
  BY DEF Placed
<1>3. HeadOf' = HeadOf
  BY <1>1, HeadsGoOn
<1>4. /\ Ranked(own, pos)' /\ Used' = Used \ {v}
      /\ \A c \in Used' : fat'[c] = fat[c]
  BY <1>1, <1>2, <1>3, RankFree
<1>5. v \in Used /\ v # op.cur
  <2>1. fat[v] # FAT_ENTRY_FREE /\ ~ InChain(v, op.cur)
    BY <1>1 DEF TableInv, OwnChain, WritePcs
  <2>2. InChain(op.cur, op.cur)
    BY ChainBegins
  <2> QED  BY <2>1, <2>2 DEF Used
<1>6. /\ own[op.cur] = op.file /\ pos[op.cur] = Wanted /\ own[v] = op.file
      /\ \A d \in Used : own[d] = op.file /\ pos[d] > pos[op.cur] => pos[d] >= pos[v]
  BY <1>1, <1>2 DEF CallAt, WritePcs
<1>7. n = FAT_ENTRY_USED \/ n \in Used
  <2>1. ~ Loose(v)
    BY <1>1, <1>5 DEF Loose
  <2> QED  BY <1>1, <1>5, <2>1, UsedLink
<1>8. n \in Used => own[n] = op.file /\ pos[n] = pos[v] + 1
  BY <1>1, <1>2, <1>5, <1>6 DEF Ranked
<1>9. \A d \in Used : pos[d] \in Nat
  BY <1>2 DEF Ranked, Used
<1>10. ASSUME NEW d \in Used', own[d] = op.file, pos[d] > pos[op.cur]
       PROVE  n \in Clusters /\ pos[d] >= pos[n]
  <2>1. d \in Used /\ d # v /\ pos[d] >= pos[v] /\ pos[d] \in Nat /\ pos[v] \in Nat
    BY <1>4, <1>5, <1>6, <1>9, <1>10
  <2>2. pos[d] # pos[v]
    BY <1>2, <1>5, <1>6, <1>10, <2>1 DEF Ranked
  <2>3. n # FAT_ENTRY_USED
    <3>1. fat[v] = FAT_ENTRY_USED => pos[d] <= pos[v]
      BY <1>2, <1>5, <1>6, <1>10, <2>1 DEF Ranked
    <3> QED  BY <1>1, <2>1, <2>2, <3>1
  <2> QED  BY <1>7, <1>8, <2>1, <2>2, <2>3 DEF Used
<1>11. n \in Clusters => own[n] = op.file
  BY <1>7, <1>8, Numbers
<1>12. Wanted' = Wanted
  BY <1>1 DEF Wanted, GoesOn
<1>13. CallAt(own, pos)'
  BY <1>1, <1>6, <1>10, <1>11, <1>12 DEF CallAt, GoesOn
<1>14. op \in WriteCalls /\ GoesOn /\ op'.pc # "skip" /\ Ranked(own, pos)'
  BY <1>1, <1>4
<1>15. \A c \in Used' : own[c] # op.file => c \in Used /\ fat'[c] = fat[c]
  BY <1>4
<1> QED  BY <1>13, <1>14, <1>15, PlacedOn

LEMMA UnlinkEndPlaced ==
    ASSUME Room, TableInv, unlinkEnd, NEW own, NEW pos, Placed(own, pos)
    PROVE  Placed(own, pos)'
<1>1. /\ op.pc = "unlink" /\ op \in WriteCalls /\ op.i = 0
      /\ op.cur \in Used /\ op.next \notin Clusters
      /\ fat'[op.cur] = FAT_ENTRY_USED /\ \A c \in Entries : c # op.cur => fat'[c] = fat[c]
      /\ GoesOn /\ op'.pc = "write" /\ op'.cur = op.cur /\ op'.i = op.i
  BY UnlinkEndDoes DEF Becomes, GoesTo, Used
<1>2. Ranked(own, pos) /\ CallAt(own, pos)
  BY DEF Placed
<1>3. HeadOf' = HeadOf
  BY <1>1, HeadsGoOn
<1>4. /\ own[op.cur] = op.file /\ pos[op.cur] = Wanted
      /\ \A d \in Used : ~ (own[d] = op.file /\ pos[d] > pos[op.cur])
  BY <1>1, <1>2 DEF CallAt, WritePcs
<1>5. LastOf(own, pos, op.cur)
  <2>1. \A d \in Used : pos[d] \in Nat
    BY <1>2 DEF Ranked, Used
  <2> QED  BY <1>1, <1>4, <2>1 DEF LastOf
<1>6. /\ Ranked(own, pos)' /\ Used' = Used
      /\ \A c \in Used : c # op.cur => fat'[c] = fat[c]
  BY <1>1, <1>2, <1>3, <1>5, RankEnd
<1>7. Wanted' = Wanted /\ pos[op.cur] = Wanted + op.i
  <2>1. Wanted \in Nat
    BY <1>1, WantedClusters
  <2> QED  BY <1>1, <1>4, <2>1 DEF Wanted, GoesOn
<1>8. CallAt(own, pos)'
  BY <1>1, <1>4, <1>7 DEF CallAt, GoesOn
<1>9. op \in WriteCalls /\ GoesOn /\ op'.pc # "skip"
  BY <1>1
<1>10. \A c \in Used' : own[c] # op.file => c \in Used /\ fat'[c] = fat[c]
  BY <1>4, <1>6
<1> QED  BY <1>6, <1>8, <1>9, <1>10, PlacedOn

LEMMA WritePlaced ==
    ASSUME Room, TableInv, writeCluster, NEW own, NEW pos, Placed(own, pos)
    PROVE  Placed(own, pos)'
<1>1. /\ op.pc = "write" /\ op \in WriteCalls /\ fat' = fat
      /\ op.cur \in Used /\ fat[op.cur] = FAT_ENTRY_USED
      /\ GoesOn /\ op'.cur = op.cur /\ op'.i = op.i + 1
      /\ \/ op'.pc = "directory" /\ op.i + 1 = clustersToWrite
         \/ op'.pc = "grow"
  BY WriteDoes, Numbers DEF Used
<1>2. Ranked(own, pos) /\ CallAt(own, pos)
  BY DEF Placed
<1>3. HeadOf' = HeadOf
  BY <1>1, HeadsGoOn
<1>4. Ranked(own, pos)' /\ Used' = Used
  BY <1>1, <1>2, <1>3, RankSame DEF Used
<1>5. own[op.cur] = op.file /\ pos[op.cur] = Wanted + op.i
  BY <1>1, <1>2, CallAtIs DEF WritePcs
<1>6. /\ Wanted' = Wanted /\ Wanted \in Nat /\ op.i \in Nat
      /\ Wanted + clustersToWrite = ClustersFor(op.startPos + Len(op.in))
  BY <1>1, WantedClusters, WriteCallFields DEF Wanted, GoesOn
<1>7. pos[op.cur] + 1 = Wanted + op'.i
  BY <1>1, <1>5, <1>6
<1>8. ASSUME op'.pc = "directory"
      PROVE  EndsAt(own, pos, op.file, op.startPos + Len(op.in))
  <2>1. pos[op.cur] + 1 = ClustersFor(op.startPos + Len(op.in))
    BY <1>1, <1>6, <1>7, <1>8
  <2>2. ASSUME NEW c \in Used, own[c] = op.file, fat[c] = FAT_ENTRY_USED
        PROVE  pos[c] = pos[op.cur]
    <3>1. pos[c] \in Nat /\ pos[op.cur] \in Nat
      BY <1>1, <1>2 DEF Ranked, Used
    <3>2. pos[c] <= pos[op.cur] /\ pos[op.cur] <= pos[c]
      BY <1>1, <1>2, <1>5, <2>2 DEF Ranked
    <3> QED  BY <3>1, <3>2
  <2> QED  BY <2>1, <2>2 DEF EndsAt
<1>9. op'.pc = "directory" => EndsAt(own, pos, op.file, op.startPos + Len(op.in))'
  BY <1>1, <1>4, <1>8 DEF EndsAt, ClustersFor, GoesOn
<1>10. CallAt(own, pos)'
  BY <1>1, <1>5, <1>6, <1>7, <1>9 DEF CallAt, GoesOn
<1>11. op \in WriteCalls /\ GoesOn /\ op'.pc # "skip"
  BY <1>1
<1>12. \A c \in Used' : c \in Used /\ fat'[c] = fat[c]
  BY <1>1, <1>4
<1> QED  BY <1>4, <1>10, <1>11, <1>12, PlacedOn

(* A call that only walks on, or ends having changed nothing.              *)
LEMMA SkipPlaced ==
    ASSUME TableInv, skipCluster, NEW own, NEW pos, Placed(own, pos)
    PROVE  Placed(own, pos)'
<1>1. /\ op.pc = "skip" /\ op \in WriteCalls /\ op.skip \in Nat
      /\ fat' = fat /\ entry' = entry /\ op.cur \in Used
      /\ op.skip # 0 => op.fresh = 0
  BY SkipDoes DEF Used
<1>2. Ranked(own, pos) /\ CallAt(own, pos)
  BY DEF Placed
<1>3. own[op.cur] = op.file /\ pos[op.cur] + op.skip = Wanted /\ pos[op.cur] \in Nat
  BY <1>1, <1>2, CallAtIs DEF WritePcs, Ranked, Used
<1>4. ~ Loose(op.cur) /\ (fat[op.cur] = FAT_ENTRY_USED \/ fat[op.cur] \in Used)
  <2>1. ~ Loose(op.cur)
    BY <1>1 DEF Loose
  <2> QED  BY <1>1, <2>1, UsedLink
<1>5. fat[op.cur] \in Used => own[fat[op.cur]] = op.file /\ pos[fat[op.cur]] = pos[op.cur] + 1
  BY <1>1, <1>2, <1>3 DEF Ranked
<1>6. FAT_ENTRY_USED \notin Clusters
  BY Numbers
<1>7. Used' = Used /\ \A f \in Files : entry'[f] = entry[f]
  BY <1>1 DEF Used
<1>8. CASE GoesOn
  <2>1. HeadOf' = HeadOf
    BY <1>1, <1>8, HeadsGoOn
  <2>2. Ranked(own, pos)'
    BY <1>1, <1>2, <2>1, RankSame
  <2>3. Wanted' = Wanted
    BY <1>8 DEF Wanted, GoesOn
  <2>4. CASE op.skip = 0 /\ op'.pc = "unlink" /\ op'.cur = op.cur /\ op'.next = fat[op.cur]
    <3>1. ASSUME NEW d \in Used, own[d] = op.file, pos[d] > pos[op.cur]
          PROVE  fat[op.cur] \in Used /\ pos[d] >= pos[fat[op.cur]]
      <4>1. pos[d] \in Nat
        BY <1>2 DEF Ranked, Used
      <4>2. fat[op.cur] # FAT_ENTRY_USED
        BY <1>1, <1>2, <1>3, <3>1, <4>1 DEF Ranked
      <4> QED  BY <1>3, <1>4, <1>5, <3>1, <4>1, <4>2
    <3>2. fat[op.cur] \in Clusters => fat[op.cur] \in Used
      BY <1>4, <1>6
    <3>3. CallAt(own, pos)'
      BY <1>3, <1>5, <1>7, <1>8, <2>3, <2>4, <3>1, <3>2 DEF CallAt, GoesOn, Used
    <3>4. op'.pc # "skip" /\ \A c \in Used' : c \in Used /\ fat'[c] = fat[c]
      BY <1>1, <1>7, <2>4
    <3> QED  BY <1>1, <1>8, <2>2, <3>3, <3>4, PlacedOn
  <2>5. CASE /\ op.skip # 0 /\ fat[op.cur] \in Clusters
             /\ op'.pc = "skip" /\ op'.cur = fat[op.cur] /\ op'.skip = op.skip - 1
    <3>1. own[fat[op.cur]] = op.file /\ pos[fat[op.cur]] = pos[op.cur] + 1
      BY <1>4, <1>5, <1>6, <2>5
    <3>2. pos[fat[op.cur]] + (op.skip - 1) = Wanted
      BY <1>1, <1>3, <3>1
    <3>3. CallAt(own, pos)'
      BY <1>8, <2>3, <2>5, <3>1, <3>2 DEF CallAt, GoesOn
    <3>4. ASSUME NEW f \in Files
          PROVE  EndsAt(own, pos, f, entry[f].size)'
      <4>1. Steady(f)
        BY <1>1, <2>5 DEF Steady
      <4>2. EndsAt(own, pos, f, entry[f].size)
        BY <4>1 DEF Placed
      <4> QED  BY <1>1, <1>7, <4>2, Zenon DEF EndsAt, ClustersFor
    <3> QED  BY <2>2, <3>3, <3>4 DEF Placed
  <2>6. CASE op.skip = 1 /\ op'.pc = "append" /\ op'.cur = op.cur
    <3>1. CallAt(own, pos)'
      BY <1>3, <1>8, <2>3, <2>6 DEF CallAt, GoesOn
    <3>2. op'.pc # "skip" /\ \A c \in Used' : c \in Used /\ fat'[c] = fat[c]
      BY <1>1, <1>7, <2>6
    <3> QED  BY <1>1, <1>8, <2>2, <3>1, <3>2, PlacedOn
  <2>7. op' # Idle
    BY <1>8 DEF GoesOn, WriteCalls, WritePcs, Idle
  <2> QED  BY <2>4, <2>5, <2>6, <2>7, SkipDoes DEF GoesTo
<1>9. CASE op.skip # 0 /\ op' = Idle
  <2>1. /\ op.file \in Files /\ HeadOf[op.file] = entry[op.file].start /\ op \in Calls
    BY <1>1, <1>9, HeadIs, InvParts, WriteCallFields DEF OpStart
  <2>2. HeadOf' = HeadOf
    BY <1>7, <1>9, <2>1, HeadsEnd
  <2>3. Ranked(own, pos)'
    BY <1>1, <1>2, <2>2, RankSame
  <2>4. CallAt(own, pos)'
    BY <1>9 DEF CallAt, Idle, WritePcs
  <2>5. ASSUME NEW f \in Files
        PROVE  EndsAt(own, pos, f, entry[f].size)'
    <3>1. Steady(f)
      BY <1>1, <1>9 DEF Steady
    <3>2. EndsAt(own, pos, f, entry[f].size)
      BY <3>1 DEF Placed
    <3> QED  BY <1>1, <1>7, <3>2, Zenon DEF EndsAt, ClustersFor
  <2> QED  BY <2>3, <2>4, <2>5 DEF Placed
<1> QED  BY <1>8, <1>9, SkipDoes DEF GoesTo

(* A call ends with the entry of its file written: what it left is what    *)
(* the new size needs.                                                     *)
LEMMA EndPlaced ==
    ASSUME NEW own, NEW pos, Placed(own, pos), op \in Calls, op.file \in Files,
           op' = Idle, fat' = fat, HeadOf' = HeadOf,
           EndsAt(own, pos, op.file, entry'[op.file].size),
           \A f \in Files : f # op.file => entry'[f] = entry[f]
    PROVE  Placed(own, pos)'
<1>1. Ranked(own, pos)' /\ Used' = Used
  BY RankSame DEF Placed, Used
<1>2. CallAt(own, pos)'
  BY DEF CallAt, Idle, WritePcs
<1>3. ASSUME NEW f \in Files
      PROVE  EndsAt(own, pos, f, entry[f].size)'
  <2>1. CASE f = op.file
    BY <1>1, <2>1, Zenon DEF EndsAt, ClustersFor
  <2>2. CASE f # op.file
    <3>1. EndsAt(own, pos, f, entry[f].size)
      BY <2>2 DEF Placed, Steady
    <3> QED  BY <1>1, <2>2, <3>1, Zenon DEF EndsAt, ClustersFor
  <2> QED  BY <2>1, <2>2
<1> QED  BY <1>1, <1>2, <1>3 DEF Placed

LEMMA CreateEntryPlaced ==
    ASSUME Room, TableInv, createEntry, NEW own, NEW pos, Placed(own, pos)
    PROVE  Placed(own, pos)'
<1>1. op.pc = "entry" /\ op' = Idle /\ fat' = fat
  BY DEF createEntry
<1>2. op \in Calls /\ op.file \in Files /\ op.start \in Clusters
      /\ entry \in [Files -> [start : Links, size : -1 .. MaxSize]]
  BY <1>1, InvParts, WriteCall DEF TypeOK
<1>3. /\ entry'[op.file] = [start |-> op.start, size |-> 0]
      /\ \A f \in Files : f # op.file => entry'[f] = entry[f]
  BY <1>2 DEF createEntry, Room
<1>4. HeadOf[op.file] = op.start
  BY <1>1, <1>2, HeadIs
<1>5. HeadOf' = HeadOf
  BY <1>1, <1>2, <1>3, <1>4, HeadsEnd
<1>6. ASSUME NEW c \in Used, own[c] = op.file
      PROVE  pos[c] = 0
  <2>1. c = op.start
    BY <1>1, <1>6 DEF Placed, CallAt
  <2>2. op.file \in Owners /\ op.start # 0
    BY <1>2, RootIs, Numbers
  <2>3. pos[HeadOf[op.file]] = 0
    BY <1>4, <2>2 DEF Placed, Ranked
  <2> QED  BY <1>4, <2>1, <2>3
<1>7. EndsAt(own, pos, op.file, entry'[op.file].size)
  BY <1>3, <1>6 DEF EndsAt, ClustersFor
<1> QED  BY <1>1, <1>2, <1>3, <1>5, <1>7, EndPlaced

LEMMA UpdateEntryPlaced ==
    ASSUME Room, TableInv, updateEntry, NEW own, NEW pos, Placed(own, pos)
    PROVE  Placed(own, pos)'
<1>1. op.pc = "directory" /\ op' = Idle /\ fat' = fat
  BY DEF updateEntry
<1>2. op \in Calls /\ op \in WriteCalls /\ op.file \in Files /\ op.fresh \in Links
      /\ entry \in [Files -> [start : Links, size : -1 .. MaxSize]]
  BY <1>1, InvParts, WriteCallFields DEF TypeOK, WritePcs
<1>3. /\ entry'[op.file].start = OpStart
      /\ entry'[op.file].size = op.startPos + Len(op.in)
      /\ \A f \in Files : f # op.file => entry'[f] = entry[f]
  BY <1>2 DEF updateEntry, Room, OpStart
<1>4. HeadOf[op.file] = OpStart
  BY <1>1, <1>2, HeadIs DEF WritePcs
<1>5. HeadOf' = HeadOf
  BY <1>1, <1>2, <1>3, <1>4, HeadsEnd
<1>6. EndsAt(own, pos, op.file, entry'[op.file].size)
  BY <1>1, <1>3 DEF Placed, CallAt
<1> QED  BY <1>1, <1>2, <1>3, <1>5, <1>6, EndPlaced

(* A call begins with a new cluster for its file.                          *)
LEMMA NewPlaced ==
    ASSUME TableInv, op = Idle, NEW own, NEW pos, Placed(own, pos),
           NEW f \in Files, entry[f].start = 0, entry' = entry,
           NEW v \in Clusters, fat[v] = FAT_ENTRY_FREE, Becomes(v, FAT_ENTRY_USED),
           op'.pc \in {"entry", "skip"}, op'.file = f, HeadOf'[f] = v,
           op'.pc = "skip" => op'.fresh # 0 /\ op'.cur = v /\ 0 + op'.skip = Wanted'
    PROVE  (\E own2, pos2 : Placed(own2, pos2))'
<1>1. op.pc = "idle" /\ TypeOK /\ TableType /\ Structure /\ op \in Calls
  BY InvParts DEF Idle
<1>2. HeadOf[f] = 0 /\ f \in Owners
  BY <1>1, HeadIs, RootIs DEF WritePcs
<1>3. \A o \in Owners : o # f => HeadOf'[o] = HeadOf[o]
  BY <1>1 DEF HeadOf, WritePcs
<1>4. \A c \in Clusters : fat[c] # v
  BY <1>1, FreeUnlinked DEF Structure, Loose
<1>5. fat'[v] = FAT_ENTRY_USED /\ \A c \in Entries : c # v => fat'[c] = fat[c]
  BY DEF Becomes
<1>6. \A o \in Owners : HeadOf[o] # 0 => HeadOf[o] \in Used
  BY HeadsUsed
<1>7. Ranked(own, pos)
  BY DEF Placed
<1>8. PICK o2, p2 : Changed(own, v, f, o2) /\ Changed(pos, v, 0, p2)
  BY DEF Changed
<1>9. /\ Ranked(o2, p2)' /\ Used' = Used \cup {v} /\ o2[v] = f /\ p2[v] = 0
      /\ \A c \in Used : /\ o2[c] = own[c] /\ p2[c] = pos[c] /\ fat'[c] = fat[c]
                         /\ own[c] # f
  BY <1>2, <1>3, <1>4, <1>5, <1>6, <1>7, <1>8, RankNew
<1>10. CallAt(o2, p2)'
  <2>1. CASE op'.pc = "entry"
    <3>1. HeadOf'[f] = op'.start
      BY <2>1, RootIs DEF HeadOf
    <3>2. \A c \in Used' : o2[c] = f => c = v
      BY <1>9
    <3> QED  BY <2>1, <3>1, <3>2 DEF CallAt, WritePcs
  <2>2. CASE op'.pc = "skip"
    <3>1. 0 + op'.skip = Wanted'
      BY <2>2
    <3> QED  BY <1>9, <2>2, <3>1 DEF CallAt
  <2> QED  BY <2>1, <2>2
<1>11. ASSUME NEW g \in Files, Steady(g)'
       PROVE  EndsAt(o2, p2, g, entry[g].size)'
  <2>1. g # f
    BY <1>11 DEF Steady, WritePcs
  <2>2. EndsAt(own, pos, g, entry[g].size)
    BY <1>1 DEF Placed, Steady, WritePcs
  <2>3. \A c \in Used' : o2[c] = g =>
            c \in Used /\ own[c] = g /\ p2[c] = pos[c] /\ fat'[c] = fat[c]
    BY <1>9, <2>1
  <2> QED  BY <2>2, <2>3, Zenon DEF EndsAt, ClustersFor
<1>12. Placed(o2, p2)'
  BY <1>9, <1>10, <1>11 DEF Placed
<1> QED  BY <1>12

LEMMA CreateFilePlaced ==
    ASSUME Room, TableInv, NEW f \in Files, createFile(f),
           NEW own, NEW pos, Placed(own, pos)
    PROVE  (\E own2, pos2 : Placed(own2, pos2))'
<1>1. op = Idle /\ entry[f].start = 0 /\ entry' = entry
  BY CreateFileDoes DEF NoFile
<1>2. PICK v \in Clusters :
        /\ fat[v] = FAT_ENTRY_FREE /\ Becomes(v, FAT_ENTRY_USED)
        /\ op' = [pc |-> "entry", file |-> f, start |-> v]
  BY CreateFileDoes
<1>3. op'.pc = "entry" /\ op'.file = f /\ op'.start = v
  BY <1>2
<1>4. HeadOf'[f] = v
  BY <1>3, RootIs DEF HeadOf
<1> QED  BY <1>1, <1>2, <1>3, <1>4, NewPlaced

LEMMA WriteFilePlaced ==
    ASSUME Room, TableInv, NEW f \in Files, NEW startPos \in 0 .. MaxSize,
           NEW in \in Inputs, writeFile(f, startPos, in),
           NEW own, NEW pos, Placed(own, pos)
    PROVE  (\E own2, pos2 : Placed(own2, pos2))'
<1>1. op = Idle /\ op.pc = "idle" /\ entry' = entry /\ op \in Calls
  BY WriteFileDoes, InvParts DEF Idle
<1>2. PICK start \in Clusters, fresh \in Links :
        /\ op' = StartWrite(f, startPos, in, start, fresh)
        /\ \/ fresh = 0 /\ start = entry[f].start /\ fat' = fat
           \/ /\ fresh = start /\ entry[f].start = 0
              /\ fat[start] = FAT_ENTRY_FREE /\ Becomes(start, FAT_ENTRY_USED)
  BY WriteFileDoes
<1>3. /\ op'.pc = "skip" /\ op'.file = f /\ op'.fresh = fresh /\ op'.cur = start
      /\ op'.skip = startPos \div clusterSize /\ op'.startPos = startPos
  BY <1>2 DEF StartWrite
<1>4. 0 + op'.skip = Wanted' /\ start # 0 /\ start > 0
  <2>1. startPos \in Nat /\ clusterSize \in Nat \ {0}
    BY ClusterAssumption
  <2>2. startPos \div clusterSize \in Nat
    BY <2>1, DivMod
  <2> QED  BY <1>3, <2>2, Numbers DEF Wanted, Clusters
<1>5. HeadOf'[f] = OpStart'
  BY <1>3, RootIs DEF HeadOf, WritePcs
<1>6. CASE fresh = 0 /\ start = entry[f].start /\ fat' = fat
  <2>1. OpStart' = start
    BY <1>1, <1>3, <1>6 DEF OpStart
  <2>2. \A o \in Owners : HeadOf'[o] = HeadOf[o]
    BY <1>1, <1>3, <1>5, <1>6, <2>1 DEF HeadOf, WritePcs
  <2>3. Ranked(own, pos)' /\ Used' = Used
    BY <1>6, <2>2, HeadsEqual, RankSame DEF Placed, Used
  <2>4. own[start] = f /\ pos[start] = 0
    BY <1>1, <1>4, <1>5, <2>1, <2>2, RootIs DEF Placed, Ranked
  <2>6. pos[start] + op'.skip = Wanted'
    BY <1>4, <2>4
  <2>7. CallAt(own, pos)'
    BY <1>3, <2>4, <2>6 DEF CallAt
  <2>8. ASSUME NEW g \in Files
        PROVE  EndsAt(own, pos, g, entry[g].size)'
    <3>1. EndsAt(own, pos, g, entry[g].size)
      BY <1>1 DEF Placed, Steady, WritePcs
    <3> QED  BY <1>1, <1>6, <2>3, <3>1, Zenon DEF EndsAt, ClustersFor
  <2>9. Placed(own, pos)'
    BY <2>3, <2>7, <2>8 DEF Placed
  <2> QED  BY <2>9
<1>7. CASE /\ fresh = start /\ entry[f].start = 0
           /\ fat[start] = FAT_ENTRY_FREE /\ Becomes(start, FAT_ENTRY_USED)
  <2>1. HeadOf'[f] = start
    BY <1>3, <1>4, <1>5, <1>7 DEF OpStart
  <2> QED  BY <1>1, <1>3, <1>4, <1>7, <2>1, NewPlaced
<1> QED  BY <1>2, <1>6, <1>7

LEMMA AllocStep ==
    ASSUME Room, AllocInv, [Next]_vars
    PROVE  AllocInv'
<1>1. TableInv /\ TableInv'
  BY TableStep DEF AllocInv
<1>2. PICK own, pos : Placed(own, pos)
  BY DEF AllocInv
<1>3. (\E own2, pos2 : Placed(own2, pos2))'
  <2>1. ASSUME NEW f \in Files, createFile(f)
        PROVE  (\E own2, pos2 : Placed(own2, pos2))'
    BY <1>1, <1>2, <2>1, CreateFilePlaced
  <2>2. ASSUME NEW f \in Files, NEW startPos \in 0 .. MaxSize, NEW in \in Inputs,
               writeFile(f, startPos, in)
        PROVE  (\E own2, pos2 : Placed(own2, pos2))'
    BY <1>1, <1>2, <2>2, WriteFilePlaced
  <2>3. CASE createEntry
    BY <1>1, <1>2, <2>3, CreateEntryPlaced
  <2>4. CASE skipCluster
    BY <1>1, <1>2, <2>4, SkipPlaced
  <2>5. CASE appendCluster \/ growChain
    BY <1>1, <1>2, <2>5, LinkPlaced
  <2>6. CASE markAppended \/ markGrown
    BY <1>1, <1>2, <2>6, MarkPlaced
  <2>7. CASE unlinkNext
    BY <1>1, <1>2, <2>7, UnlinkNextPlaced
  <2>8. CASE unlinkEnd
    BY <1>1, <1>2, <2>8, UnlinkEndPlaced
  <2>9. CASE writeCluster
    BY <1>1, <1>2, <2>9, WritePlaced
  <2>10. CASE updateEntry
    BY <1>1, <1>2, <2>10, UpdateEntryPlaced
  <2>11. CASE UNCHANGED vars
    <3>1. fat' = fat /\ op' = op /\ entry' = entry
      BY <2>11 DEF vars
    <3>2. HeadOf' = HeadOf /\ Used' = Used
      BY <3>1 DEF HeadOf, OpStart, Used
    <3>3. Ranked(own, pos)'
      BY <1>2, <3>1, <3>2, RankSame DEF Placed
    <3>4. CallAt(own, pos)'
      BY <1>2, <3>1, <3>2 DEF Placed, CallAt, LastOf, Wanted, EndsAt, ClustersFor
    <3>5. \A f \in Files : Steady(f)' => EndsAt(own, pos, f, entry[f].size)'
      BY <1>2, <3>1, <3>2 DEF Placed, Steady, EndsAt, ClustersFor
    <3>6. Placed(own, pos)'
      BY <3>3, <3>4, <3>5 DEF Placed
    <3> QED  BY <3>6
  <2> QED  BY <2>1, <2>2, <2>3, <2>4, <2>5, <2>6, <2>7, <2>8, <2>9, <2>10, <2>11
           DEF Next, Step
<1> QED  BY <1>1, <1>3 DEF AllocInv

LEMMA AllocInit == Init => AllocInv
<1> SUFFICES ASSUME Init PROVE AllocInv
  OBVIOUS
<1>1. TableInv
  BY TableInit
<1> DEFINE own == [c \in Clusters |-> Root]
           pos == [c \in Clusters |-> 0]
<1>2. op.pc = "idle" /\ op.pc # "entry" /\ op.pc \notin WritePcs
  BY DEF Init, Idle, WritePcs
<1>3. \A f \in Files : entry[f].start = 0
  BY DEF Init, NoFile
<1>4. HeadOf[Root] = RootDir /\ \A f \in Files : HeadOf[f] = 0
  BY <1>2, <1>3, RootIs DEF HeadOf
<1>5. Used = {RootDir} /\ RootDir \in Clusters /\ fat[RootDir] = FAT_ENTRY_USED
      /\ FAT_ENTRY_USED \notin Clusters /\ RootDir # 0
  BY Numbers DEF Init, Used, Clusters
<1>6. \A c \in Clusters : own[c] = Root /\ pos[c] = 0
  OBVIOUS
<1>7. own \in [Clusters -> Owners] /\ pos \in [Clusters -> Nat]
  BY RootIs
<1> HIDE DEF own, pos
<1>8. Ranked(own, pos)
  BY <1>4, <1>5, <1>6, <1>7, RootIs DEF Ranked, Owners
<1>9. CallAt(own, pos)
  BY <1>2 DEF CallAt, WritePcs
<1>10. \A f \in Files : EndsAt(own, pos, f, entry[f].size)
  BY <1>5, <1>6, RootIs DEF EndsAt
<1> QED  BY <1>1, <1>8, <1>9, <1>10 DEF AllocInv, Placed
-----------------------------------------------------------------------------
(* Counting a chain between calls.                                         *)

(* Places are counted down from e to 0, so every number of them is one.    *)
LEMMA PlacesFilled ==
    ASSUME NEW S, NEW pos, NEW e \in S, pos[e] \in Nat,
           \A c \in S : pos[c] \in Nat,
           \A c \in S : pos[c] # 0 => \E d \in S : pos[c] = pos[d] + 1,
           NEW k \in 0 .. pos[e]
    PROVE  \E c \in S : pos[c] = k
<1> DEFINE Gap == {j \in 0 .. pos[e] : \A c \in S : pos[c] # pos[e] - j}
<1>1. SUFFICES ASSUME \A c \in S : pos[c] # k PROVE FALSE
  OBVIOUS
<1>2. pos[e] - k \in Gap /\ Gap \subseteq Nat
  <2>1. pos[e] - (pos[e] - k) = k /\ pos[e] - k \in 0 .. pos[e]
    OBVIOUS
  <2> QED  BY <1>1, <2>1
<1> HIDE DEF Gap
<1>3. PICK j \in Gap : \A i \in Gap : j <= i
  BY <1>2, Least
<1> USE DEF Gap
<1>4. j \in 0 .. pos[e] /\ \A c \in S : pos[c] # pos[e] - j
  OBVIOUS
<1>5. j # 0
  BY <1>4
<1>6. j - 1 \in 0 .. pos[e] /\ j - 1 \notin Gap
  <2>1. j - 1 \in 0 .. pos[e] /\ ~ (j <= j - 1)
    BY <1>4, <1>5
  <2> QED  BY <1>3, <2>1
<1>7. PICK c \in S : pos[c] = pos[e] - (j - 1)
  BY <1>6
<1>8. pos[c] # 0 /\ pos[c] = (pos[e] - j) + 1
  BY <1>4, <1>7
<1>9. PICK d \in S : pos[c] = pos[d] + 1
  BY <1>8
<1>10. pos[d] = pos[e] - j
  BY <1>4, <1>8, <1>9
<1> QED  BY <1>4, <1>10

LEMMA PlacesCounted ==
    ASSUME NEW S, NEW pos, NEW n \in Nat,
           \A c \in S : pos[c] \in 0 .. (n - 1),
           \A c, d \in S : pos[c] = pos[d] => c = d,
           \A k \in 0 .. (n - 1) : \E c \in S : pos[c] = k
    PROVE  IsFiniteSet(S) /\ Cardinality(S) = n
<1> DEFINE f == [k \in 1 .. n |-> CHOOSE c \in S : pos[c] = k - 1]
<1>1. \A k \in 1 .. n : f[k] \in S /\ pos[f[k]] = k - 1
  <2> SUFFICES ASSUME NEW k \in 1 .. n PROVE f[k] \in S /\ pos[f[k]] = k - 1
    OBVIOUS
  <2>1. k - 1 \in 0 .. (n - 1)
    OBVIOUS
  <2>2. \E c \in S : pos[c] = k - 1
    BY <2>1
  <2> QED  BY <2>2
<1> HIDE DEF f
<1>2. f \in [1 .. n -> S]
  BY <1>1 DEF f
<1>3. \A k, l \in 1 .. n : f[k] = f[l] => k = l
  <2> SUFFICES ASSUME NEW k \in 1 .. n, NEW l \in 1 .. n, f[k] = f[l] PROVE k = l
    OBVIOUS
  <2>1. k - 1 = l - 1
    BY <1>1
  <2> QED  BY <2>1
<1>4. ASSUME NEW c \in S PROVE \E k \in 1 .. n : f[k] = c
  <2>1. pos[c] \in Nat /\ pos[c] + 1 \in 1 .. n /\ (pos[c] + 1) - 1 = pos[c]
    OBVIOUS
  <2>2. f[pos[c] + 1] \in S /\ pos[f[pos[c] + 1]] = pos[c]
    BY <1>1, <2>1
  <2>3. f[pos[c] + 1] = c
    BY <2>2
  <2> QED  BY <2>1, <2>3
<1>5. f \in Bijection(1 .. n, S)
  BY <1>2, <1>3, <1>4 DEF Bijection, Injection, Surjection, IsInjective
<1>6. ExistsBijection(1 .. n, S)
  BY <1>5 DEF ExistsBijection
<1> QED  BY <1>6, FS_CountingElements, FS_NatBijection

LEMMA ClustersCounted ==
    IsFiniteSet(Clusters) /\ Cardinality(Clusters) = LastCluster - 1
<1>1. LastCluster \in Int /\ ~ (2 > LastCluster) /\ LastCluster - 2 + 1 = LastCluster - 1
  BY Numbers
<1> QED  BY <1>1, FS_Interval DEF Clusters

(* A function that follows the links as Walk does is Walk.                 *)
LEMMA WalkIs ==
    ASSUME NEW start, NEW n \in Nat, NEW w,
           w = [k \in 0 .. n |-> IF k = 0 THEN start
                                 ELSE IF w[k - 1] \in Clusters THEN fat[w[k - 1]]
                                 ELSE w[k - 1]]
    PROVE  \A k \in 0 .. n : Walk(start, n)[k] = w[k]
<1> DEFINE W == Walk(start, n)
<1>1. W = [k \in 0 .. n |-> IF k = 0 THEN start
                            ELSE IF W[k - 1] \in Clusters THEN fat[W[k - 1]]
                            ELSE W[k - 1]]
  BY DEF Walk
<1>2. /\ W[0] = start /\ w[0] = start
      /\ \A k \in 0 .. n : k # 0 =>
            /\ W[k] = IF W[k - 1] \in Clusters THEN fat[W[k - 1]] ELSE W[k - 1]
            /\ w[k] = IF w[k - 1] \in Clusters THEN fat[w[k - 1]] ELSE w[k - 1]
  BY <1>1
<1> DEFINE Wrong == {k \in 0 .. n : W[k] # w[k]}
<1> HIDE DEF W
<1>3. SUFFICES ASSUME Wrong # {} PROVE FALSE
  BY DEF W
<1>4. Wrong \subseteq Nat
  OBVIOUS
<1> HIDE DEF Wrong
<1>5. PICK k \in Wrong : \A i \in Wrong : k <= i
  BY <1>3, <1>4, Least
<1>6. k \in 0 .. n /\ W[k] # w[k]
  BY DEF Wrong
<1>7. k # 0
  BY <1>2, <1>6
<1>8. k - 1 \in 0 .. n /\ ~ (k <= k - 1)
  BY <1>6, <1>7
<1>9. W[k - 1] = w[k - 1]
  BY <1>5, <1>8 DEF Wrong
<1> QED  BY <1>2, <1>6, <1>7, <1>9

(* Between calls, the head of an owner is one of Heads, and each of these  *)
(* is the head of an owner.                                                *)
LEMMA IdleHeads ==
    ASSUME TableInv, op = Idle
    PROVE  /\ HeadOf[Root] = RootDir /\ \A f \in Files : HeadOf[f] = entry[f].start
           /\ Heads = Starts \cup {RootDir}
           /\ \A o \in Owners : HeadOf[o] # 0 => HeadOf[o] \in Starts \cup {RootDir}
           /\ \A h \in Starts \cup {RootDir} : h # 0 /\ \E o \in Owners : HeadOf[o] = h
<1>1. op.pc = "idle" /\ op.pc # "entry" /\ op.pc \notin WritePcs /\ TypeOK /\ op \in Calls
  BY InvParts DEF Idle, WritePcs
<1>2. HeadOf[Root] = RootDir /\ \A f \in Files : HeadOf[f] = entry[f].start
  BY <1>1, HeadIs
<1>3. Heads = Starts \cup {RootDir}
  BY <1>1 DEF Heads, Pending
<1>4. ASSUME NEW o \in Owners, HeadOf[o] # 0
      PROVE  HeadOf[o] \in Starts \cup {RootDir}
  BY <1>3, <1>4, HeadsUsed
<1>5. ASSUME NEW h \in Starts \cup {RootDir}
      PROVE  h # 0 /\ \E o \in Owners : HeadOf[o] = h
  BY <1>2, RootIs, Numbers DEF Starts, Clusters
<1> QED  BY <1>2, <1>3, <1>4, <1>5

OwnedBy(own, o) == {c \in Used : own[c] = o}

(* The clusters an owner has, and how they follow each other.              *)
LEMMA OwnedLinks ==
    ASSUME TableInv, op = Idle, NEW own, NEW pos, Ranked(own, pos),
           NEW o \in Owners, NEW h, h = HeadOf[o], h # 0,
           NEW S, S = OwnedBy(own, o)
    PROVE  /\ h \in S /\ pos[h] = 0 /\ S \subseteq Clusters
           /\ \A c \in S : pos[c] \in Nat
           /\ \A c, d \in S : pos[c] = pos[d] => c = d
           /\ \A c \in S : fat[c] = FAT_ENTRY_USED \/ (fat[c] \in S /\ pos[fat[c]] = pos[c] + 1)
           /\ \A c \in S : pos[c] # 0 => \E d \in S : pos[c] = pos[d] + 1
           /\ \E e \in S : fat[e] = FAT_ENTRY_USED /\ \A d \in S : pos[d] <= pos[e]
<1>0. S = {c \in Used : own[c] = o}
  BY DEF OwnedBy
<1>1. TypeOK /\ TableType /\ Structure /\ \A c \in Clusters : ~ Loose(c)
  BY InvParts DEF Idle, Loose
<1>2. h \in S /\ pos[h] = 0
  BY <1>0, HeadsUsed DEF Ranked
<1>3. S \subseteq Clusters /\ \A c \in S : pos[c] \in Nat
  BY <1>0 DEF Ranked, Used
<1>4. \A c, d \in S : pos[c] = pos[d] => c = d
  BY <1>0 DEF Ranked
<1>5. \A c \in S : fat[c] = FAT_ENTRY_USED \/ (fat[c] \in S /\ pos[fat[c]] = pos[c] + 1)
  <2> SUFFICES ASSUME NEW c \in S, fat[c] # FAT_ENTRY_USED
               PROVE  fat[c] \in S /\ pos[fat[c]] = pos[c] + 1
    OBVIOUS
  <2>1. c \in Used /\ own[c] = o /\ ~ Loose(c)
    BY <1>0, <1>1, <1>3
  <2>2. fat[c] \in Used
    BY <2>1, UsedLink
  <2> QED  BY <1>0, <2>1, <2>2 DEF Ranked
<1>6. ASSUME NEW c \in S, pos[c] # 0
      PROVE  \E d \in S : pos[c] = pos[d] + 1
  <2>1. c \in Used /\ own[c] = o /\ c \in Clusters /\ fat[c] # FAT_ENTRY_FREE
    BY <1>0, <1>3 DEF Used
  <2>2. c \notin Heads
    <3> SUFFICES ASSUME c \in Heads PROVE FALSE
      OBVIOUS
    <3>1. PICK p \in Owners : HeadOf[p] = c /\ c # 0
      BY IdleHeads
    <3>2. own[c] = p /\ pos[c] = 0
      BY <3>1 DEF Ranked
    <3> QED  BY <1>6, <3>2
  <2>3. PICK d \in Clusters : fat[d] = c
    <3>1. op.pc # "unlink"
      BY DEF Idle
    <3> QED  BY <1>1, <2>1, <2>2, <3>1 DEF Structure, NoLooseEnds
  <2>4. d \in Used
    BY <2>1, <2>3, Numbers DEF Used, Clusters
  <2>5. own[c] = own[d] /\ pos[c] = pos[d] + 1
    BY <2>1, <2>3, <2>4 DEF Ranked
  <2> QED  BY <1>0, <2>1, <2>4, <2>5
<1>7. PICK e \in S : fat[e] = FAT_ENTRY_USED
  <2> SUFFICES ASSUME \A c \in S : fat[c] # FAT_ENTRY_USED PROVE FALSE
    OBVIOUS
  <2>1. \A c \in S : fat[c] \in S
    BY <1>5
  <2>2. S \in SUBSET {c \in Clusters : fat[c] \in Clusters} /\ S # {}
    BY <1>2, <1>3, <2>1
  <2>3. \E c \in S : fat[c] \notin S
    BY <1>1, <2>2 DEF Structure, NoCycles
  <2> QED  BY <2>1, <2>3
<1>8. \A d \in S : pos[d] <= pos[e]
  BY <1>0, <1>7 DEF Ranked
<1> QED  BY <1>2, <1>3, <1>4, <1>5, <1>6, <1>7, <1>8

(* The chain that begins with the head of an owner is what it owns.        *)
LEMMA ChainOwned ==
    ASSUME TableInv, op = Idle, NEW own, NEW pos, Ranked(own, pos),
           NEW o \in Owners, NEW h, h = HeadOf[o], h # 0,
           NEW S, S = OwnedBy(own, o)
    PROVE  /\ Chain(h) = S
           /\ \E e \in S : fat[e] = FAT_ENTRY_USED /\ Cardinality(S) = pos[e] + 1
<1>1. /\ h \in S /\ pos[h] = 0 /\ S \subseteq Clusters
      /\ \A c \in S : pos[c] \in Nat
      /\ \A c, d \in S : pos[c] = pos[d] => c = d
      /\ \A c \in S : fat[c] = FAT_ENTRY_USED \/ (fat[c] \in S /\ pos[fat[c]] = pos[c] + 1)
      /\ \A c \in S : pos[c] # 0 => \E d \in S : pos[c] = pos[d] + 1
  BY OwnedLinks
<1>2. PICK e \in S : fat[e] = FAT_ENTRY_USED /\ \A d \in S : pos[d] <= pos[e]
  BY OwnedLinks
<1>3. PICK N : N = pos[e] + 1
  OBVIOUS
<1>4. N \in Nat \ {0} /\ pos[e] = N - 1 /\ \A c \in S : pos[c] \in 0 .. (N - 1)
  BY <1>1, <1>2, <1>3
<1>5. \A k \in 0 .. (N - 1) : \E c \in S : pos[c] = k
  <2> SUFFICES ASSUME NEW k \in 0 .. (N - 1) PROVE \E c \in S : pos[c] = k
    OBVIOUS
  <2>1. k \in 0 .. pos[e] /\ pos[e] \in Nat
    BY <1>4
  <2>2. \A c \in S : pos[c] \in Nat
    BY <1>1
  <2>3. \A c \in S : pos[c] # 0 => \E d \in S : pos[c] = pos[d] + 1
    BY <1>1
  <2> QED  BY <2>1, <2>2, <2>3, PlacesFilled
<1>6. IsFiniteSet(S) /\ Cardinality(S) = N
  <2>1. \A c, d \in S : pos[c] = pos[d] => c = d
    BY <1>1
  <2>2. N \in Nat /\ \A c \in S : pos[c] \in 0 .. (N - 1)
    BY <1>4
  <2> QED  BY <1>5, <2>1, <2>2, PlacesCounted, SMTT(40)
<1>7. N <= LastCluster /\ LastCluster \in Nat
  <2>1. Cardinality(S) <= Cardinality(Clusters)
    BY <1>1, ClustersCounted, FS_Subset
  <2> QED  BY <1>4, <1>6, <2>1, ClustersCounted, Numbers
<1> DEFINE at(k) == CHOOSE c \in S : pos[c] = k
           w     == [k \in 0 .. LastCluster |-> IF k < N THEN at(k) ELSE FAT_ENTRY_USED]
<1>8. \A k \in 0 .. LastCluster : k < N => w[k] \in S /\ pos[w[k]] = k
  <2> SUFFICES ASSUME NEW k \in 0 .. LastCluster, k < N
               PROVE  at(k) \in S /\ pos[at(k)] = k
    OBVIOUS
  <2>1. k \in 0 .. (N - 1)
    BY <1>4
  <2> QED  BY <1>5, <2>1
<1>9. \A k \in 0 .. LastCluster : ~ (k < N) => w[k] = FAT_ENTRY_USED
  OBVIOUS
<1>10. w = [k \in 0 .. LastCluster |-> w[k]]
  OBVIOUS
<1> HIDE DEF w
<1>11. FAT_ENTRY_USED \notin Clusters
  BY Numbers
<1>12. ASSUME NEW k \in 0 .. LastCluster
       PROVE  w[k] = IF k = 0 THEN h
                     ELSE IF w[k - 1] \in Clusters THEN fat[w[k - 1]]
                     ELSE w[k - 1]
  <2>1. CASE k = 0
    <3>1. w[k] \in S /\ pos[w[k]] = 0
      BY <1>4, <1>8, <2>1
    <3> QED  BY <1>1, <2>1, <3>1
  <2>2. CASE k # 0 /\ k < N
    <3>1. k - 1 \in 0 .. LastCluster /\ k - 1 < N /\ k \in Nat /\ (k - 1) + 1 = k
      BY <1>4, <1>7, <2>2
    <3>2. PICK c \in S : c = w[k - 1] /\ pos[c] = k - 1
      BY <1>8, <3>1
    <3>3. w[k] \in S /\ pos[w[k]] = k
      BY <1>8, <2>2
    <3>4. c # e
      BY <1>4, <2>2, <3>1, <3>2
    <3>5. fat[c] # FAT_ENTRY_USED
      <4> SUFFICES ASSUME fat[c] = FAT_ENTRY_USED PROVE FALSE
        OBVIOUS
      <4>1. pos[w[k]] <= pos[c]
        BY <3>2, <3>3 DEF Ranked, OwnedBy
      <4> QED  BY <3>1, <3>2, <3>3, <4>1
    <3>6. fat[c] \in S /\ pos[fat[c]] = k
      BY <1>1, <3>1, <3>2, <3>5
    <3>7. fat[c] = w[k]
      BY <1>1, <3>3, <3>6
    <3> QED  BY <1>1, <2>2, <3>2, <3>7
  <2>3. CASE k = N
    <3>1. k - 1 \in 0 .. LastCluster /\ k - 1 < N /\ k - 1 = pos[e] /\ k # 0
      BY <1>4, <1>7, <2>3
    <3>2. w[k - 1] = e
      BY <1>1, <1>8, <3>1
    <3>3. w[k] = FAT_ENTRY_USED
      BY <1>4, <1>9, <2>3
    <3> QED  BY <1>1, <1>2, <3>1, <3>2, <3>3
  <2>4. CASE k > N
    <3>1. k - 1 \in 0 .. LastCluster /\ ~ (k - 1 < N) /\ ~ (k < N) /\ k # 0
      BY <1>4, <1>7, <2>4
    <3> QED  BY <1>9, <1>11, <3>1
  <2>5. k \in Nat /\ N \in Nat
    BY <1>4
  <2> QED  BY <2>1, <2>2, <2>3, <2>4, <2>5
<1>13. w = [k \in 0 .. LastCluster |-> IF k = 0 THEN h
                                       ELSE IF w[k - 1] \in Clusters THEN fat[w[k - 1]]
                                       ELSE w[k - 1]]
  BY <1>10, <1>12
<1>14. \A k \in 0 .. LastCluster : Walk(h, LastCluster)[k] = w[k]
  BY <1>7, <1>13, WalkIs
<1>15. Chain(h) \subseteq S
  <2> SUFFICES ASSUME NEW k \in 0 .. LastCluster, w[k] \in Clusters
               PROVE  w[k] \in S
    BY <1>14 DEF Chain
  <2> QED  BY <1>8, <1>9, <1>11
<1>16. S \subseteq Chain(h)
  <2> SUFFICES ASSUME NEW c \in S PROVE c \in Chain(h)
    OBVIOUS
  <2>1. pos[c] \in 0 .. LastCluster /\ pos[c] < N
    BY <1>4, <1>7
  <2>2. w[pos[c]] = c
    BY <1>1, <1>8, <2>1
  <2> QED  BY <1>1, <1>14, <2>1, <2>2 DEF Chain
<1> QED  BY <1>2, <1>3, <1>6, <1>15, <1>16

LEMMA AllocCounted == AllocInv => AllocationExact
<1> SUFFICES ASSUME AllocInv, op = Idle
             PROVE  /\ \A f \in Files : entry[f].start # 0 =>
                          Cardinality(Chain(entry[f].start)) = ClustersFor(entry[f].size)
                    /\ Used = UNION {Chain(s) : s \in Starts \cup {RootDir}}
  BY DEF AllocationExact, Used
<1>1. TableInv
  BY DEF AllocInv
<1>2. PICK own, pos : Ranked(own, pos) /\ Placed(own, pos)
  BY DEF AllocInv, Placed
<1>3. ASSUME NEW o \in Owners, HeadOf[o] # 0
      PROVE  /\ Chain(HeadOf[o]) = OwnedBy(own, o)
             /\ \E e \in OwnedBy(own, o) : fat[e] = FAT_ENTRY_USED /\ Cardinality(OwnedBy(own, o)) = pos[e] + 1
  BY <1>1, <1>2, <1>3, ChainOwned
<1>4. /\ \A f \in Files : HeadOf[f] = entry[f].start
      /\ \A o \in Owners : HeadOf[o] # 0 => HeadOf[o] \in Starts \cup {RootDir}
      /\ \A h \in Starts \cup {RootDir} : h # 0 /\ \E o \in Owners : HeadOf[o] = h
  BY <1>1, IdleHeads
<1>5. ASSUME NEW f \in Files, entry[f].start # 0
      PROVE  Cardinality(Chain(entry[f].start)) = ClustersFor(entry[f].size)
  <2>1. f \in Owners /\ HeadOf[f] = entry[f].start
    BY <1>4, RootIs
  <2>2. Steady(f)
    BY DEF Steady, Idle, WritePcs
  <2>3. EndsAt(own, pos, f, entry[f].size)
    BY <1>2, <2>2 DEF Placed
  <2>4. PICK e \in OwnedBy(own, f) : fat[e] = FAT_ENTRY_USED /\ Cardinality(OwnedBy(own, f)) = pos[e] + 1
    BY <1>3, <1>5, <2>1
  <2>5. pos[e] + 1 = ClustersFor(entry[f].size)
    BY <2>3, <2>4 DEF EndsAt, OwnedBy
  <2> QED  BY <1>3, <1>5, <2>1, <2>4, <2>5
<1>6. ASSUME NEW s \in Starts \cup {RootDir}
      PROVE  Chain(s) \subseteq Used
  <2>1. PICK o \in Owners : HeadOf[o] = s /\ s # 0
    BY <1>4
  <2> QED  BY <1>3, <2>1 DEF OwnedBy
<1>7. ASSUME NEW c \in Used
      PROVE  \E s \in Starts \cup {RootDir} : c \in Chain(s)
  <2>1. own[c] \in Owners /\ HeadOf[own[c]] # 0
    BY <1>2 DEF Ranked, Used
  <2>2. HeadOf[own[c]] \in Starts \cup {RootDir}
    BY <1>4, <2>1
  <2>3. c \in Chain(HeadOf[own[c]])
    BY <1>3, <2>1 DEF OwnedBy
  <2> QED  BY <2>2, <2>3
<1>8. Used = UNION {Chain(s) : s \in Starts \cup {RootDir}}
  BY <1>6, <1>7
<1> QED  BY <1>5, <1>8

(* Without faults, and if the disk does not run full in the middle of a    *)
(* write: between calls each file has as many clusters as its size needs,  *)
(* and every other cluster but the root directory's is free.  So whatever  *)
(* was written, at whatever positions and in whatever pieces, writeFatFile *)
(* appended no cluster too many, and unlinkFatChain freed all it cut off.  *)
THEOREM AllocationSound ==
    ASSUME IoFaults = FALSE
    PROVE  Spec /\ []RoomToGrow => []AllocationExact
<1>1. AllocInv /\ RoomToGrow /\ [Next]_vars => AllocInv'
  BY AllocStep DEF Room
<1> QED  BY <1>1, AllocInit, AllocCounted, PTL DEF Spec
=============================================================================
