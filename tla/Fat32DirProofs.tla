--------------------------- MODULE Fat32DirProofs --------------------------
(***************************************************************************)
(* The directories of FAT32 and the path tracer, for every set of paths    *)
(* and names, clusters of every size, and every disk that is in order at   *)
(* first: directories stay readable whatever fails, names stay unique,     *)
(* calls work on the file that was created with their path, other entries  *)
(* stay as they are, and path tracers are taken apart completely.          *)
(*                                                                         *)
(* The parts: least and greatest numbers; the pieces before an entry and   *)
(* what a creation does to a directory; the path tracer; the invariant Inv *)
(* and its preservation; names; entries that stay; files of one's own.     *)
(***************************************************************************)
EXTENDS Fat32Dir, FiniteSetTheorems, SequenceTheorems, WellFoundedInduction, TLAPS

LEMMA Least ==
    ASSUME NEW S, S \subseteq Nat, S # {}
    PROVE  \E x \in S : \A y \in S : x <= y
<1>1. PICK x \in S : \A y \in S : ~ (<<y, x>> \in OpToRel(<, Nat))
  BY NatLessThanWellFounded, WFMin
<1>2. \A y \in S : ~ (y < x)
  BY <1>1, Zenon DEF OpToRel
<1> QED  BY <1>2

LEMMA MinIs ==
    ASSUME NEW S, S \subseteq Nat, S # {}
    PROVE  Min(S) \in S /\ \A y \in S : Min(S) <= y
<1>1. \E x \in S : \A y \in S : x =< y
  BY Least
<1> QED  BY <1>1 DEF Min

LEMMA MaxIs ==
    ASSUME NEW n \in Nat, NEW S, S \subseteq 0 .. n, S # {}
    PROVE  Max(S) \in S /\ \A y \in S : y <= Max(S)
<1> DEFINE T == {n - x : x \in S}
<1>1. T \subseteq Nat /\ T # {}
  <2>1. \A x \in S : x \in Nat /\ n - x \in Nat
    OBVIOUS
  <2> QED  BY <2>1
<1> HIDE DEF T
<1>2. PICK t \in T : \A u \in T : t <= u
  BY <1>1, Least
<1>3. PICK x \in S : t = n - x
  BY DEF T
<1>4. ASSUME NEW y \in S PROVE x >= y
  <2>1. n - y \in T
    BY DEF T
  <2>2. t <= n - y
    BY <1>2, <2>1
  <2> QED  BY <1>3, <2>2
<1>5. \E z \in S : \A y \in S : z >= y
  BY <1>4
<1>6. Max(S) \in S /\ \A y \in S : Max(S) >= y
  BY <1>5 DEF Max
<1> QED  BY <1>6
-----------------------------------------------------------------------------
(* Pieces before an entry.                                                 *)
IsSeq(s) == s \in Seq({s[k] : k \in DOMAIN s})

(* What the search has collected are the pieces directly before i.         *)
LEMMA ChainIs ==
    ASSUME NEW s, IsSeq(s), NEW i \in 1 .. Len(s)
    PROVE  \E f \in 0 .. (i - 1) :
              /\ f = Max({0} \cup {j \in 1 .. i - 1 : s[j].attr # "lfn"})
              /\ f = 0 \/ s[f].attr # "lfn"
              /\ \A j \in (f + 1) .. (i - 1) : s[j].attr = "lfn"
              /\ Chain(s, i) = SubSeq(s, f + 1, i - 1)
              /\ Chain(s, i) \in Seq({s[k] : k \in DOMAIN s})
              /\ Len(Chain(s, i)) = i - 1 - f
              /\ \A k \in 1 .. (i - 1 - f) : Chain(s, i)[k] = s[f + k]
<1> DEFINE S == {0} \cup {j \in 1 .. i - 1 : s[j].attr # "lfn"}
           f == Max(S)
<1>0. Len(s) \in Nat /\ i \in Nat
  BY DEF IsSeq
<1>1. S \subseteq 0 .. (i - 1) /\ S # {} /\ i - 1 \in Nat
  BY <1>0
<1>2. f \in S /\ \A y \in S : y <= f
  <2> HIDE DEF S
  <2> QED  BY <1>1, MaxIs
<1> HIDE DEF f
<1>3. f \in 0 .. (i - 1)
  BY <1>1, <1>2
<1>4. f = 0 \/ s[f].attr # "lfn"
  BY <1>2
<1>5. \A j \in (f + 1) .. (i - 1) : s[j].attr = "lfn"
  BY <1>0, <1>2, <1>3
<1>6. Chain(s, i) = SubSeq(s, f + 1, i - 1)
  BY DEF Chain, f
<1>7. /\ SubSeq(s, f + 1, i - 1) \in Seq({s[k] : k \in DOMAIN s})
      /\ Len(SubSeq(s, f + 1, i - 1)) = i - 1 - f
      /\ \A k \in 1 .. (i - 1 - f) : SubSeq(s, f + 1, i - 1)[k] = s[f + k]
  BY <1>0, <1>3 DEF IsSeq
<1> QED  BY <1>3, <1>4, <1>5, <1>6, <1>7 DEF f

(* It depends on what lies before i only, and of that on pieces only.      *)
LEMMA ChainSame ==
    ASSUME NEW s, IsSeq(s), NEW t, IsSeq(t), NEW i \in 1 .. Len(s), i <= Len(t),
           \A j \in 1 .. (i - 1) : /\ s[j].attr = "lfn" <=> t[j].attr = "lfn"
                                   /\ s[j].attr = "lfn" => s[j] = t[j]
    PROVE  Chain(s, i) = Chain(t, i)
<1>0. Len(s) \in Nat /\ Len(t) \in Nat /\ i \in Nat /\ i \in 1 .. Len(t)
  BY DEF IsSeq
<1>1. {0} \cup {j \in 1 .. i - 1 : s[j].attr # "lfn"} = {0} \cup {j \in 1 .. i - 1 : t[j].attr # "lfn"}
  OBVIOUS
<1>3. PICK f \in 0 .. (i - 1) :
              /\ f = Max({0} \cup {j \in 1 .. i - 1 : s[j].attr # "lfn"})
              /\ \A j \in (f + 1) .. (i - 1) : s[j].attr = "lfn"
              /\ Chain(s, i) \in Seq({s[k] : k \in DOMAIN s})
              /\ Len(Chain(s, i)) = i - 1 - f
              /\ \A k \in 1 .. (i - 1 - f) : Chain(s, i)[k] = s[f + k]
  BY ChainIs
<1>4. PICK g \in 0 .. (i - 1) :
              /\ g = Max({0} \cup {j \in 1 .. i - 1 : t[j].attr # "lfn"})
              /\ Chain(t, i) \in Seq({t[k] : k \in DOMAIN t})
              /\ Len(Chain(t, i)) = i - 1 - g
              /\ \A k \in 1 .. (i - 1 - g) : Chain(t, i)[k] = t[g + k]
  BY <1>0, ChainIs
<1>2. g = f
  BY <1>1, <1>3, <1>4
<1>5. \A k \in 1 .. (i - 1 - f) : Chain(s, i)[k] = Chain(t, i)[k]
  <2> SUFFICES ASSUME NEW k \in 1 .. (i - 1 - f) PROVE Chain(s, i)[k] = Chain(t, i)[k]
    OBVIOUS
  <2>1. f + k \in (f + 1) .. (i - 1) /\ f + k \in 1 .. (i - 1)
    BY <1>0, <1>3
  <2> QED  BY <1>2, <1>3, <1>4, <2>1
<1> DEFINE A == {s[k] : k \in DOMAIN s} \cup {t[k] : k \in DOMAIN t}
<1>6. Chain(s, i) \in Seq(A) /\ Chain(t, i) \in Seq(A)
  BY <1>3, <1>4, SeqMonotonic
<1> HIDE DEF A
<1> QED  BY <1>2, <1>3, <1>4, <1>5, <1>6, SeqEqual

LEMMA ChainEnd ==
    ASSUME NEW s, IsSeq(s), NEW i \in 1 .. Len(s)
    PROVE  /\ Chain(s, i) = << >> <=> i = 1 \/ s[i - 1].attr # "lfn"
           /\ Chain(s, i) # << >> => Last(Chain(s, i)) = s[i - 1]
<1>0. Len(s) \in Nat /\ i \in Nat
  BY DEF IsSeq
<1>1. PICK f \in 0 .. (i - 1) :
              /\ f = 0 \/ s[f].attr # "lfn"
              /\ \A j \in (f + 1) .. (i - 1) : s[j].attr = "lfn"
              /\ Chain(s, i) \in Seq({s[k] : k \in DOMAIN s})
              /\ Len(Chain(s, i)) = i - 1 - f
              /\ \A k \in 1 .. (i - 1 - f) : Chain(s, i)[k] = s[f + k]
  BY ChainIs, Zenon
<1>2. Chain(s, i) = << >> <=> f = i - 1
  BY <1>0, <1>1
<1>3. f = i - 1 <=> i = 1 \/ s[i - 1].attr # "lfn"
  BY <1>0, <1>1
<1>4. ASSUME Chain(s, i) # << >> PROVE Last(Chain(s, i)) = s[i - 1]
  <2>1. i - 1 - f \in 1 .. (i - 1 - f) /\ f + (i - 1 - f) = i - 1
    BY <1>0, <1>1, <1>2, <1>4
  <2> QED  BY <1>1, <2>1 DEF Last
<1> QED  BY <1>2, <1>3, <1>4

LEMMA FunIsSeq ==
    ASSUME NEW n \in Nat, NEW t, t = [i \in 1 .. n |-> t[i]]
    PROVE  IsSeq(t) /\ Len(t) = n /\ DOMAIN t = 1 .. n
<1> DEFINE A == {t[k] : k \in DOMAIN t}
<1>1. DOMAIN t = 1 .. n
  OBVIOUS
<1>2. t \in [1 .. n -> A]
  BY <1>1
<1> HIDE DEF A
<1>3. t \in Seq(A)
  BY <1>2, SeqDef
<1>4. Len(t) = n
  BY <1>1, <1>3
<1> QED  BY <1>1, <1>3, <1>4 DEF IsSeq, A

LEMMA SeqIsFun ==
    ASSUME NEW s, IsSeq(s)
    PROVE  Len(s) \in Nat /\ DOMAIN s = 1 .. Len(s) /\ s = [i \in 1 .. Len(s) |-> s[i]]
BY DEF IsSeq

LEMMA SeqFun ==
    ASSUME NEW A, NEW w \in Seq(A), NEW n \in Nat, Len(w) = n
    PROVE  w = [k \in 1 .. n |-> w[k]] /\ DOMAIN w = 1 .. n
OBVIOUS

LEMMA Kinds ==
    /\ Free.attr = "free"
    /\ \A e : e.attr \in {"lfn", "file", "dir"} => e # Free
    /\ \A n, i, short : IsPiece(Piece(n, i, short)) /\ Piece(n, i, short).attr = "lfn"
                         /\ Piece(n, i, short).name = n /\ Piece(n, i, short).idx = i
                         /\ Piece(n, i, short).sum = short
    /\ \A short, start, size :
          LET e == FileEntry(short, start, size) IN
          /\ IsEntry(e) /\ e.attr = "file" /\ e.short = short /\ e.start = start /\ e.size = size
BY DEF Free, IsPiece, Piece, IsEntry, FileEntry

(* An entry with another size is still an entry, of the same file.         *)
LEMMA Resized ==
    ASSUME NEW e, IsEntry(e), NEW size
    PROVE  LET f == [e EXCEPT !.size = size] IN
           /\ IsEntry(f) /\ f.attr = e.attr /\ f.short = e.short /\ f.start = e.start
           /\ f.size = size
BY DEF IsEntry

DirectoryOk(s) == IsDirectory(s) /\ WellFormed(s)

LEMMA DirectoryIs ==
    ASSUME NEW s, DirectoryOk(s)
    PROVE  /\ IsSeq(s) /\ Len(s) \in Nat /\ Len(s) > 0 /\ DOMAIN s = 1 .. Len(s)
           /\ \A i \in 1 .. Len(s) : s[i] = Free \/ IsPiece(s[i]) \/ IsEntry(s[i])
           /\ \A i \in 1 .. Len(s) : s[i].attr = "free" <=> s[i] = Free
           /\ \A i \in 1 .. Len(s) : i \in EntriesOf(s) <=> IsEntry(s[i])
           /\ EntriesOf(s) \subseteq 1 .. Len(s)
           /\ \A i \in 2 .. Len(s) : s[i] # Free => s[i - 1] # Free
<1>1. IsSeq(s)
  BY DEF DirectoryOk, IsDirectory, IsSeq
<1>2. Len(s) \in Nat /\ Len(s) > 0 /\ DOMAIN s = 1 .. Len(s)
  BY <1>1, SeqIsFun DEF DirectoryOk, IsDirectory
<1>3. \A i \in 1 .. Len(s) : s[i] = Free \/ IsPiece(s[i]) \/ IsEntry(s[i])
  BY <1>2 DEF DirectoryOk, IsDirectory
<1>4. \A i \in 1 .. Len(s) : s[i].attr = "free" <=> s[i] = Free
  BY <1>3, Kinds DEF IsPiece, IsEntry
<1>5. \A i \in 1 .. Len(s) : i \in EntriesOf(s) <=> IsEntry(s[i])
  BY <1>2, <1>3, Kinds DEF IsPiece, IsEntry, EntriesOf
<1>6. EntriesOf(s) \subseteq 1 .. Len(s)
  BY <1>2 DEF EntriesOf
<1> QED  BY <1>1, <1>2, <1>3, <1>4, <1>5, <1>6 DEF DirectoryOk, WellFormed

(* Behind a free entry there are only free ones.                           *)
LEMMA FreeStays ==
    ASSUME NEW s, DirectoryOk(s), NEW j \in 1 .. Len(s), s[j] = Free,
           NEW i \in j .. Len(s)
    PROVE  s[i] = Free
<1> DEFINE W == {k \in j .. Len(s) : s[k] # Free}
<1>1. Len(s) \in Nat /\ \A k \in 2 .. Len(s) : s[k] # Free => s[k - 1] # Free
  BY DirectoryIs
<1> SUFFICES ASSUME W # {} PROVE FALSE
  OBVIOUS
<1>2. W \subseteq Nat
  BY <1>1
<1> HIDE DEF W
<1>3. PICK k \in W : \A l \in W : k <= l
  BY <1>2, Least
<1>4. k \in j .. Len(s) /\ s[k] # Free /\ k # j
  BY <1>3 DEF W
<1>5. k - 1 \in j .. Len(s) /\ k \in 2 .. Len(s) /\ ~ (k <= k - 1)
  BY <1>1, <1>4
<1>6. s[k - 1] # Free
  BY <1>1, <1>4, <1>5
<1>7. k - 1 \in W
  BY <1>5, <1>6 DEF W
<1> QED  BY <1>3, <1>5, <1>7

(* The free run that is found begins where the used entries end.           *)
LEMMA FreeRunIs ==
    ASSUME NEW s, DirectoryOk(s), NEW count \in Nat \ {0}
    PROVE  /\ FreeRun(s, count) \in 1 .. (Len(s) + 1)
           /\ \A j \in 1 .. Len(s) : s[j] = Free <=> FreeRun(s, count) <= j
<1> DEFINE S == {i \in 1 .. Len(s) + 1 : \A j \in i .. Len(s) : j < i + count => s[j] = Free}
           at == FreeRun(s, count)
<1>1. Len(s) \in Nat
  BY DirectoryIs
<1>2. Len(s) + 1 \in S /\ S \subseteq Nat
  BY <1>1
<1>3. at \in S /\ \A i \in S : at <= i
  <2>1. at = Min(S)
    BY DEF FreeRun
  <2> HIDE DEF S
  <2> QED  BY <1>2, <2>1, MinIs
<1> HIDE DEF at
<1>4. at \in 1 .. (Len(s) + 1)
  BY <1>3
<1>5. ASSUME NEW j \in 1 .. Len(s), s[j] = Free PROVE at <= j
  <2>1. \A k \in j .. Len(s) : s[k] = Free
    BY <1>5, FreeStays
  <2>2. j \in S
    BY <1>1, <2>1
  <2> QED  BY <1>3, <2>2
<1>6. ASSUME NEW j \in 1 .. Len(s), at <= j PROVE s[j] = Free
  <2>1. at \in 1 .. Len(s) /\ j \in at .. Len(s)
    BY <1>1, <1>4, <1>6
  <2>2. s[at] = Free
    BY <1>1, <1>3, <2>1
  <2> QED  BY <2>1, <2>2, FreeStays
<1> QED  BY <1>4, <1>5, <1>6 DEF at
-----------------------------------------------------------------------------
(* What createFatFileInDir makes of the directory s: k pieces of the name  *)
(* behind the used entries and, if whole, the entry behind all of them.    *)
Extends(t, s, at, n, short, k, whole, start) ==
    /\ t = [i \in 1 .. Len(t) |-> t[i]]
    /\ Len(t) \in Nat /\ Len(s) <= Len(t) /\ Len(t) % PerCluster = 0
    /\ at \in 1 .. (Len(s) + 1)
    /\ \A j \in 1 .. Len(s) : s[j] = Free <=> at <= j
    /\ k \in 0 .. Names[n].pieces /\ Names[n].pieces \in Nat \ {0}
    /\ whole => k = Names[n].pieces /\ at + k <= Len(t)
    /\ \A i \in 1 .. Len(t) :
          t[i] = IF i < at THEN s[i]
                 ELSE IF i < at + k THEN Piece(n, Names[n].pieces - (i - at), short)
                 ELSE IF whole /\ i = at + k THEN FileEntry(short, start, 0)
                 ELSE Free

LEMMA ExtendedKeeps ==
    ASSUME NEW s, DirectoryOk(s), NEW t, NEW at, NEW n, NEW short, NEW k, NEW whole \in BOOLEAN,
           NEW start, Extends(t, s, at, n, short, k, whole, start)
    PROVE  /\ IsDirectory(t)
           /\ EntriesOf(t) = EntriesOf(s) \cup (IF whole THEN {at + k} ELSE {})
           /\ \A i \in EntriesOf(s) : i < at /\ t[i] = s[i] /\ Chain(t, i) = Chain(s, i)
           /\ \A i \in 1 .. Len(s) : s[i] # Free => t[i] = s[i]
           /\ \A i \in 2 .. Len(t) : t[i] # Free => t[i - 1] # Free
           /\ whole => at + k \in 2 .. Len(t) /\ t[at + k] = FileEntry(short, start, 0)
<1>1. /\ IsSeq(s) /\ Len(s) \in Nat /\ Len(s) > 0 /\ DOMAIN s = 1 .. Len(s)
      /\ \A i \in 1 .. Len(s) : s[i] = Free \/ IsPiece(s[i]) \/ IsEntry(s[i])
      /\ \A i \in 1 .. Len(s) : i \in EntriesOf(s) <=> IsEntry(s[i])
      /\ EntriesOf(s) \subseteq 1 .. Len(s)
  BY DirectoryIs
<1>2. /\ Len(t) \in Nat /\ Len(s) <= Len(t) /\ Len(t) % PerCluster = 0
      /\ at \in 1 .. (Len(s) + 1)
      /\ \A j \in 1 .. Len(s) : s[j] = Free <=> at <= j
      /\ k \in Nat /\ (whole => k > 0 /\ at + k <= Len(t))
  BY DEF Extends
<1>3. \A i \in 1 .. Len(t) :
          t[i] = IF i < at THEN s[i]
                 ELSE IF i < at + k THEN Piece(n, Names[n].pieces - (i - at), short)
                 ELSE IF whole /\ i = at + k THEN FileEntry(short, start, 0)
                 ELSE Free
  BY DEF Extends
<1>4. IsSeq(t) /\ DOMAIN t = 1 .. Len(t)
  BY FunIsSeq DEF Extends
<1>5. \A i \in 1 .. Len(t) : i < at => i \in 1 .. Len(s) /\ t[i] = s[i] /\ s[i] # Free
  BY <1>1, <1>2, <1>3
<1>6. \A i \in 1 .. Len(t) : t[i] = Free \/ IsPiece(t[i]) \/ IsEntry(t[i])
  BY <1>1, <1>3, <1>5, Kinds
<1>7. IsDirectory(t)
  BY <1>1, <1>2, <1>4, <1>6 DEF IsDirectory, IsSeq
<1>8. \A i \in EntriesOf(s) : i \in 1 .. Len(s) /\ i < at
  <2> SUFFICES ASSUME NEW i \in EntriesOf(s) PROVE i \in 1 .. Len(s) /\ i < at
    OBVIOUS
  <2>1. i \in 1 .. Len(s) /\ s[i] # Free
    BY <1>1, Kinds DEF IsEntry
  <2> QED  BY <1>1, <1>2, <2>1
<1>9. ASSUME NEW i \in EntriesOf(s) PROVE t[i] = s[i] /\ Chain(t, i) = Chain(s, i)
  <2>1. i \in 1 .. Len(s) /\ i < at /\ i \in 1 .. Len(t) /\ i <= Len(t)
    BY <1>1, <1>2, <1>8
  <2>2. \A j \in 1 .. (i - 1) : s[j] = t[j]
    BY <1>1, <1>2, <1>5, <2>1
  <2> QED  BY <1>1, <1>4, <1>5, <2>1, <2>2, ChainSame
<1>10. whole => /\ at + k \in 2 .. Len(t) /\ t[at + k] = FileEntry(short, start, 0)
                /\ IsEntry(t[at + k])
  <2> SUFFICES ASSUME whole PROVE /\ at + k \in 2 .. Len(t) /\ t[at + k] = FileEntry(short, start, 0)
                                  /\ IsEntry(t[at + k])
    OBVIOUS
  <2>1. at + k \in 2 .. Len(t) /\ at + k \in 1 .. Len(t) /\ ~ (at + k < at) /\ ~ (at + k < at + k)
    BY <1>1, <1>2
  <2>2. t[at + k] = FileEntry(short, start, 0)
    BY <1>3, <2>1
  <2> QED  BY <2>1, <2>2, Kinds
<1>11. \A i \in 1 .. Len(t) : i \in EntriesOf(t) <=> IsEntry(t[i])
  BY <1>4, <1>6, Kinds DEF EntriesOf, IsPiece, IsEntry
<1>12. ASSUME NEW i \in 1 .. Len(t), IsEntry(t[i]), ~ (i < at)
       PROVE  whole /\ i = at + k
  BY <1>3, <1>12, Kinds DEF IsEntry
<1>13. EntriesOf(t) = EntriesOf(s) \cup (IF whole THEN {at + k} ELSE {})
  <2>1. ASSUME NEW i \in EntriesOf(t)
        PROVE  i \in EntriesOf(s) \cup (IF whole THEN {at + k} ELSE {})
    <3>1. i \in 1 .. Len(t) /\ IsEntry(t[i])
      BY <1>4, <1>11, <2>1 DEF EntriesOf
    <3>2. CASE i < at
      BY <1>1, <1>5, <3>1, <3>2
    <3>3. CASE ~ (i < at)
      BY <1>12, <3>1, <3>3
    <3> QED  BY <3>2, <3>3
  <2>2. ASSUME NEW i \in EntriesOf(s) PROVE i \in EntriesOf(t)
    <3>1. i \in 1 .. Len(t) /\ IsEntry(s[i]) /\ t[i] = s[i]
      BY <1>1, <1>2, <1>8, <1>9
    <3> QED  BY <1>11, <3>1
  <2>3. whole => at + k \in EntriesOf(t)
    BY <1>2, <1>10, <1>11
  <2> QED  BY <2>1, <2>2, <2>3
<1>14. ASSUME NEW i \in 1 .. Len(s), s[i] # Free PROVE t[i] = s[i]
  BY <1>1, <1>2, <1>5, <1>14
<1>15. ASSUME NEW i \in 2 .. Len(t), t[i] # Free PROVE t[i - 1] # Free
  <2>1. i \in 1 .. Len(t) /\ i - 1 \in 1 .. Len(t)
    BY <1>2
  <2>2. i <= at + k
    BY <1>2, <1>3, <1>15, <2>1
  <2>3. CASE i - 1 < at
    BY <1>5, <2>1, <2>3
  <2>4. CASE ~ (i - 1 < at)
    <3>1. i - 1 < at + k
      BY <1>2, <2>1, <2>2
    <3>2. t[i - 1] = Piece(n, Names[n].pieces - (i - 1 - at), short)
      BY <1>3, <2>1, <2>4, <3>1
    <3> QED  BY <3>2, Kinds
  <2> QED  BY <2>3, <2>4
<1> QED  BY <1>7, <1>8, <1>9, <1>10, <1>13, <1>14, <1>15

(* The new entry has the pieces of its name before it.                     *)
LEMMA NewIsWhole ==
    ASSUME NEW s, DirectoryOk(s), NEW t, NEW at, NEW n, NEW short, NEW k, NEW start,
           Extends(t, s, at, n, short, k, TRUE, start)
    PROVE  LET chain == Chain(t, at + k) IN
           chain # << >> /\ Last(chain).name = n /\ IsWhole(chain, short)
<1>0. PICK p : p = at + k
  OBVIOUS
<1> DEFINE chain == Chain(t, p)
           P == Names[n].pieces
<1>1. IsSeq(t) /\ p \in 2 .. Len(t) /\ p \in 1 .. Len(t) /\ Len(t) \in Nat
  <2>1. p \in 2 .. Len(t) /\ IsDirectory(t)
    BY <1>0, ExtendedKeeps
  <2>2. IsSeq(t)
    BY <2>1 DEF IsDirectory, IsSeq
  <2> QED  BY <2>1, <2>2, SeqIsFun
<1>2. at \in Nat \ {0} /\ k = P /\ P \in Nat \ {0} /\ p = at + P
  BY <1>0 DEF Extends
<1>3. ASSUME NEW i \in at .. (p - 1)
      PROVE  t[i] = Piece(n, P - (i - at), short)
  <2>1. i \in 1 .. Len(t) /\ ~ (i < at) /\ i < at + k
    BY <1>0, <1>1, <1>2
  <2> QED  BY <2>1 DEF Extends
<1>4. PICK f \in 0 .. (p - 1) :
              /\ f = 0 \/ t[f].attr # "lfn"
              /\ Len(chain) = p - 1 - f
              /\ \A j \in 1 .. (p - 1 - f) : chain[j] = t[f + j]
  BY <1>1, ChainIs, Zenon
<1>5. f < at
  <2> SUFFICES ASSUME ~ (f < at) PROVE FALSE
    BY <1>2
  <2>1. f \in at .. (p - 1) /\ f # 0
    BY <1>2, <1>4
  <2> QED  BY <1>3, <1>4, <2>1, Kinds
<1>6. Len(chain) >= P
  BY <1>2, <1>4, <1>5
<1>7. ASSUME NEW i \in 1 .. P
      PROVE  chain[Len(chain) + 1 - i] = Piece(n, i, short)
  <2>1. /\ Len(chain) + 1 - i \in 1 .. (p - 1 - f)
        /\ f + (Len(chain) + 1 - i) = p - i
        /\ p - i \in at .. (p - 1)
        /\ P - (p - i - at) = i
    <3> HIDE DEF P, chain
    <3> QED  BY <1>2, <1>4, <1>5
  <2>2. chain[Len(chain) + 1 - i] = t[p - i]
    BY <1>4, <2>1
  <2> QED  BY <1>3, <2>1, <2>2
<1>8. Len(chain) \in Nat /\ Len(chain) > 0 /\ 1 \in 1 .. P /\ Len(chain) + 1 - 1 = Len(chain)
  BY <1>2, <1>4, <1>5, <1>6
<1>9. chain # << >>
  <2>1. Len(<< >>) = 0
    OBVIOUS
  <2> HIDE DEF chain
  <2> QED  BY <1>8, <2>1
<1> HIDE DEF chain
<1>10. Last(chain) = Piece(n, 1, short)
  BY <1>7, <1>8 DEF Last
<1>11. Last(chain).name = n
  BY <1>10, Kinds
<1>12. Spells(chain, n)
  BY <1>6, <1>7, Kinds DEF Spells
<1>13. IsWhole(chain, short)
  BY <1>7, <1>11, <1>12, Kinds DEF IsWhole
<1> QED  BY <1>0, <1>9, <1>11, <1>13 DEF chain

LEMMA ExtendedOk ==
    ASSUME NEW s, DirectoryOk(s), NEW t, NEW at, NEW n, NEW short, NEW k, NEW whole \in BOOLEAN,
           NEW start, Extends(t, s, at, n, short, k, whole, start)
    PROVE  DirectoryOk(t)
<1>1. /\ IsDirectory(t)
      /\ EntriesOf(t) = EntriesOf(s) \cup (IF whole THEN {at + k} ELSE {})
      /\ \A i \in EntriesOf(s) : i < at /\ t[i] = s[i] /\ Chain(t, i) = Chain(s, i)
      /\ \A i \in 2 .. Len(t) : t[i] # Free => t[i - 1] # Free
      /\ whole => t[at + k] = FileEntry(short, start, 0)
  <2>1. /\ IsDirectory(t)
        /\ EntriesOf(t) = EntriesOf(s) \cup (IF whole THEN {at + k} ELSE {})
        /\ \A i \in EntriesOf(s) : i < at /\ t[i] = s[i] /\ Chain(t, i) = Chain(s, i)
        /\ \A i \in 1 .. Len(s) : s[i] # Free => t[i] = s[i]
        /\ \A i \in 2 .. Len(t) : t[i] # Free => t[i - 1] # Free
        /\ whole => at + k \in 2 .. Len(t) /\ t[at + k] = FileEntry(short, start, 0)
    BY ExtendedKeeps, Zenon
  <2> QED  BY <2>1, Zenon
<1>2. ASSUME NEW i \in EntriesOf(s), Chain(t, i) # << >> PROVE IsWhole(Chain(t, i), t[i].short)
  BY <1>1, <1>2 DEF DirectoryOk, WellFormed
<1>3. ASSUME whole PROVE IsWhole(Chain(t, at + k), t[at + k].short)
  <2>1. Extends(t, s, at, n, short, k, TRUE, start)
    BY <1>3
  <2>2. IsWhole(Chain(t, at + k), short)
    BY <2>1, NewIsWhole
  <2> QED  BY <1>1, <1>3, <2>2, Kinds
<1> QED  BY <1>1, <1>2, <1>3 DEF DirectoryOk, WellFormed
-----------------------------------------------------------------------------
(* How many clusters a directory grows by.                                 *)
LEMMA DivUp ==
    ASSUME NEW z \in Int, NEW p \in Nat \ {0}
    PROVE  /\ (z + p - 1) \div p \in Int /\ z <= ((z + p - 1) \div p) * p
           /\ (z + p - 1) \div p <= 0 => z <= 0
OBVIOUS

LEMMA Product ==
    ASSUME NEW a \in Nat, NEW p \in Nat
    PROVE  a * p \in Nat
OBVIOUS

LEMMA ModSum ==
    ASSUME NEW a \in Nat, NEW c \in Nat, NEW p \in Nat \ {0}, a % p = 0
    PROVE  (a + c * p) % p = 0
<1>1. a \div p \in Nat /\ a = (a \div p) * p
  OBVIOUS
<1>2. PICK q \in Nat : a = q * p
  BY <1>1
<1>3. a + c * p = (q + c) * p /\ q + c \in Nat
  BY <1>2
<1>4. \A m \in Nat : (m * p) % p = 0
  OBVIOUS
<1> QED  BY <1>3, <1>4

LEMMA MaxOfTwo ==
    ASSUME NEW y \in Int
    PROVE  Max({0, y}) = IF y > 0 THEN y ELSE 0
<1>1. \E x \in {0, y} : \A u \in {0, y} : x >= u
  OBVIOUS
<1>2. Max({0, y}) \in {0, y} /\ \A u \in {0, y} : Max({0, y}) >= u
  BY <1>1 DEF Max
<1> QED  BY <1>2

LEMMA MinOfTwo ==
    ASSUME NEW x \in Int, NEW y \in Int
    PROVE  Min({x, y}) = IF x <= y THEN x ELSE y
<1>1. \E z \in {x, y} : \A u \in {x, y} : z =< u
  OBVIOUS
<1>2. Min({x, y}) \in {x, y} /\ \A u \in {x, y} : Min({x, y}) =< u
  BY <1>1 DEF Min
<1> QED  BY <1>2

LEMMA GrownIs ==
    ASSUME NEW s, IsSeq(s), NEW c \in Nat
    PROVE  /\ Len(Grown(s, c)) = Len(s) + (c * PerCluster) /\ c * PerCluster \in Nat
           /\ DOMAIN Grown(s, c) = 1 .. (Len(s) + (c * PerCluster))
           /\ Grown(s, c) = [i \in 1 .. (Len(s) + (c * PerCluster)) |-> Grown(s, c)[i]]
           /\ \A i \in 1 .. (Len(s) + (c * PerCluster)) :
                 Grown(s, c)[i] = IF i <= Len(s) THEN s[i] ELSE Free
<1>1. PICK m : m = c * PerCluster
  OBVIOUS
<1>2. m \in Nat /\ Len(s) \in Nat
  BY <1>1, Product, DirAssumption, SeqIsFun
<1> DEFINE A == {s[k] : k \in DOMAIN s} \cup {Free}
           z == [i \in 1 .. m |-> Free]
<1>3. s \in Seq(A)
  BY SeqMonotonic DEF IsSeq
<1>4. z \in Seq(A) /\ Len(z) = m /\ \A i \in 1 .. m : z[i] = Free
  <2>1. z \in [1 .. m -> A]
    OBVIOUS
  <2>2. z \in Seq(A)
    BY <1>2, <2>1, SeqDef
  <2> QED  BY <1>2, <2>2
<1>5. Grown(s, c) = s \o z
  BY <1>1 DEF Grown
<1> HIDE DEF z, A
<1>6. /\ s \o z \in Seq(A) /\ Len(s \o z) = Len(s) + m
      /\ \A i \in 1 .. (Len(s) + m) : (s \o z)[i] = IF i <= Len(s) THEN s[i] ELSE z[i - Len(s)]
  BY <1>3, <1>4, ConcatProperties
<1>7. ASSUME NEW i \in 1 .. (Len(s) + m)
      PROVE  (s \o z)[i] = IF i <= Len(s) THEN s[i] ELSE Free
  BY <1>2, <1>4, <1>6
<1>8. DOMAIN (s \o z) = 1 .. (Len(s) + m)
      /\ (s \o z) = [i \in 1 .. (Len(s) + m) |-> (s \o z)[i]]
  <2>1. Len(s) + m \in Nat
    BY <1>2
  <2> QED  BY <1>6, <2>1, SeqFun
<1>9. /\ Len(Grown(s, c)) = Len(s) + m /\ DOMAIN Grown(s, c) = 1 .. (Len(s) + m)
      /\ Grown(s, c) = [i \in 1 .. (Len(s) + m) |-> Grown(s, c)[i]]
  BY <1>5, <1>6, <1>8, Zenon
<1>10. \A i \in 1 .. (Len(s) + m) : Grown(s, c)[i] = IF i <= Len(s) THEN s[i] ELSE Free
  BY <1>5, <1>7, Zenon
<1> QED  BY <1>1, <1>2, <1>9, <1>10, Zenon

(* The directory that comes out of a creation, with k of its writes done.  *)
LEMMA Written ==
    ASSUME NEW s, DirectoryOk(s), NEW n \in DOMAIN Names, NEW c \in Nat, NEW short, NEW start,
           NEW k \in 0 .. Names[n].pieces, NEW whole \in BOOLEAN,
           LET at == FreeRun(s, Names[n].pieces + 1)
           IN  whole => k = Names[n].pieces /\ at + k <= Len(s) + (c * PerCluster),
           NEW t,
           LET at == FreeRun(s, Names[n].pieces + 1)
               w  == LongFileNameEntries(Grown(s, c), at, n, short, k)
           IN  t = IF whole THEN [w EXCEPT ![at + k] = FileEntry(short, start, 0)] ELSE w
    PROVE  Extends(t, s, FreeRun(s, Names[n].pieces + 1), n, short, k, whole, start)
<1>1. PICK at : at = FreeRun(s, Names[n].pieces + 1)
  OBVIOUS
<1>2. PICK g : g = Grown(s, c)
  OBVIOUS
<1>3. PICK m : m = Len(s) + (c * PerCluster)
  OBVIOUS
<1>3a. PICK q : q = c * PerCluster
  OBVIOUS
<1>4. PICK P : P = Names[n].pieces
  OBVIOUS
<1>5. IsSeq(s) /\ Len(s) \in Nat /\ Len(s) % PerCluster = 0 /\ PerCluster \in Nat \ {0}
      /\ P \in Nat \ {0} /\ P + 1 \in Nat \ {0}
  <2>1. P \in Nat \ {0} /\ PerCluster \in Nat \ {0}
    BY <1>4, DirAssumption
  <2>2. IsSeq(s) /\ Len(s) \in Nat
    BY DirectoryIs
  <2>3. Len(s) % PerCluster = 0
    BY DEF DirectoryOk, IsDirectory
  <2> QED  BY <2>1, <2>2, <2>3
<1>6. /\ DOMAIN g = 1 .. m /\ m \in Nat /\ Len(s) <= m /\ m % PerCluster = 0
      /\ \A i \in 1 .. m : g[i] = IF i <= Len(s) THEN s[i] ELSE Free
  <2>1. q \in Nat /\ m = Len(s) + q /\ DOMAIN g = 1 .. m
        /\ \A i \in 1 .. m : g[i] = IF i <= Len(s) THEN s[i] ELSE Free
    BY <1>2, <1>3, <1>3a, <1>5, GrownIs
  <2>2. m % PerCluster = 0
    BY <1>3, <1>5, ModSum
  <2> QED  BY <1>5, <2>1, <2>2
<1>7. at \in 1 .. (Len(s) + 1) /\ \A j \in 1 .. Len(s) : s[j] = Free <=> at <= j
  BY <1>1, <1>4, <1>5, FreeRunIs
<1>8. (whole => k = P /\ at + k <= m) /\ k \in 0 .. P
  BY <1>1, <1>3, <1>4
<1> DEFINE w == LongFileNameEntries(g, at, n, short, k)
<1>9. w = [i \in 1 .. m |-> IF i \in at .. at + k - 1 THEN Piece(n, P - (i - at), short) ELSE g[i]]
  BY <1>4, <1>6 DEF LongFileNameEntries
<1>10. t = IF whole THEN [w EXCEPT ![at + k] = FileEntry(short, start, 0)] ELSE w
  BY <1>1, <1>2
<1> HIDE DEF w
<1>11. DOMAIN t = 1 .. m /\ t = [i \in 1 .. m |-> t[i]]
  BY <1>9, <1>10
<1>12. Len(t) = m
  BY <1>6, <1>11, FunIsSeq
<1>13. \A i \in 1 .. m : t[i] = IF whole /\ i = at + k THEN FileEntry(short, start, 0) ELSE w[i]
  BY <1>9, <1>10
<1>14. ASSUME NEW i \in 1 .. m
       PROVE  t[i] = IF i < at THEN s[i]
                     ELSE IF i < at + k THEN Piece(n, P - (i - at), short)
                     ELSE IF whole /\ i = at + k THEN FileEntry(short, start, 0)
                     ELSE Free
  <2>1. CASE i < at
    <3>1. i <= Len(s) /\ ~ (i = at + k) /\ i \notin at .. at + k - 1
      BY <1>7, <1>8, <1>5, <2>1
    <3> QED  BY <1>6, <1>9, <1>13, <2>1, <3>1
  <2>2. CASE ~ (i < at) /\ i < at + k
    <3>1. ~ (i = at + k) /\ i \in at .. at + k - 1
      BY <1>7, <1>8, <1>5, <2>2
    <3> QED  BY <1>9, <1>13, <2>2, <3>1
  <2>3. CASE ~ (i < at + k)
    <3>1. i \notin at .. at + k - 1 /\ ~ (i < at) /\ at <= i
      BY <1>7, <1>8, <1>5, <2>3
    <3>2. g[i] = Free
      BY <1>5, <1>6, <1>7, <3>1
    <3> QED  BY <1>9, <1>13, <2>3, <3>1, <3>2
  <2> QED  BY <1>5, <1>7, <1>8, <2>1, <2>2, <2>3
<1> QED  BY <1>1, <1>4, <1>5, <1>6, <1>7, <1>8, <1>11, <1>12, <1>14 DEF Extends
-----------------------------------------------------------------------------
(* The path tracer.                                                        *)
Parts == [name : STRING, type : {"dir"}]
Read0 == [parts |-> << >>, name |-> Nothing, bad |-> FALSE]
Reads == [parts : Seq(Parts), name : STRING \cup {Nothing}, bad : BOOLEAN]

(* There is a function as Scan defines one.                                *)
LEMMA ScanExists ==
    ASSUME NEW path, NEW n \in Nat
    PROVE  \E f : f = [i \in 0 .. n |-> IF i = 0 THEN Read0 ELSE ReadNext(f[i - 1], path[i])]
<1> DEFINE Is(f, m) == f = [i \in 0 .. m |-> IF i = 0 THEN Read0 ELSE ReadNext(f[i - 1], path[i])]
           W == {m \in Nat : ~ \E f : Is(f, m)}
<1> SUFFICES ASSUME W # {} PROVE FALSE
  OBVIOUS
<1>1. PICK m \in W : \A k \in W : m <= k
  <2> W \subseteq Nat
    OBVIOUS
  <2> HIDE DEF W
  <2> QED  BY Least
<1>2. m \in Nat /\ ~ \E f : Is(f, m)
  OBVIOUS
<1>3. m # 0
  <2> SUFFICES ASSUME m = 0 PROVE FALSE
    OBVIOUS
  <2> DEFINE f == [i \in 0 .. 0 |-> Read0]
  <2>1. Is(f, 0)
    OBVIOUS
  <2> QED  BY <1>2, <2>1
<1>4. PICK f : Is(f, m - 1)
  <2>1. m - 1 \in Nat /\ ~ (m <= m - 1)
    BY <1>2, <1>3
  <2> QED  BY <1>1, <2>1
<1> DEFINE g == [i \in 0 .. m |-> IF i = m THEN ReadNext(f[m - 1], path[m]) ELSE f[i]]
<1>5. ASSUME NEW i \in 0 .. m
      PROVE  g[i] = IF i = 0 THEN Read0 ELSE ReadNext(g[i - 1], path[i])
  <2>1. CASE i = m
    <3>1. m - 1 \in 0 .. m /\ m - 1 # m
      BY <1>2, <1>3
    <3> QED  BY <1>3, <2>1, <3>1
  <2>2. CASE i # m /\ i # 0
    <3>1. i \in 0 .. (m - 1) /\ i - 1 \in 0 .. m /\ i - 1 # m
      BY <1>2, <2>2
    <3> QED  BY <1>4, <2>2, <3>1
  <2>3. CASE i = 0
    <3>1. 0 \in 0 .. (m - 1) /\ 0 # m
      BY <1>2, <1>3
    <3> QED  BY <1>4, <2>3, <3>1
  <2> QED  BY <2>1, <2>2, <2>3
<1>6. g = [i \in 0 .. m |-> g[i]]
  OBVIOUS
<1> HIDE DEF g
<1>7. Is(g, m)
  BY <1>5, <1>6
<1> QED  BY <1>2, <1>7

LEMMA ScanIs ==
    ASSUME NEW path, Len(path) \in Nat
    PROVE  /\ Scan(path)[0] = Read0
           /\ \A i \in 1 .. Len(path) : Scan(path)[i] = ReadNext(Scan(path)[i - 1], path[i])
<1> DEFINE at == Scan(path)
           n == Len(path)
<1>1. \E f : f = [i \in 0 .. n |-> IF i = 0 THEN Read0 ELSE ReadNext(f[i - 1], path[i])]
  BY ScanExists
<1>2. at = [i \in 0 .. n |-> IF i = 0 THEN Read0 ELSE ReadNext(at[i - 1], path[i])]
  BY <1>1 DEF Scan, Read0
<1> HIDE DEF at
<1>3. 0 \in 0 .. n /\ \A i \in 1 .. n : i \in 0 .. n /\ i # 0
  OBVIOUS
<1>4. \A i \in 0 .. n : at[i] = IF i = 0 THEN Read0 ELSE ReadNext(at[i - 1], path[i])
  BY <1>2
<1> QED  BY <1>3, <1>4 DEF at

LEMMA ReadTyped ==
    ASSUME NEW s \in Reads, NEW x \in STRING
    PROVE  ReadNext(s, x) \in Reads /\ (s.bad => ReadNext(s, x).bad)
<1>1. CASE x # Slash
  BY <1>1 DEF Reads, ReadNext
<1>2. CASE x = Slash /\ (s.bad \/ s.name = Nothing)
  BY <1>2 DEF Reads, ReadNext
<1>3. CASE x = Slash /\ ~ (s.bad \/ s.name = Nothing)
  <2>1. s.parts \in Seq(Parts) /\ [name |-> s.name, type |-> "dir"] \in Parts
    <3>1. s.name \in STRING /\ s.parts \in Seq(Parts)
      BY <1>3 DEF Reads
    <3> QED  BY <3>1 DEF Parts
  <2>2. Append(s.parts, [name |-> s.name, type |-> "dir"]) \in Seq(Parts)
    BY <2>1
  <2>3. ~ s.bad /\ s.bad \in BOOLEAN
    BY <1>3, Zenon DEF Reads
  <2> DEFINE p == Append(s.parts, [name |-> s.name, type |-> "dir"])
             u == [s EXCEPT !.parts = p]
  <2>4. ReadNext(s, x) = [u EXCEPT !.name = Nothing]
    BY <1>3, Zenon DEF ReadNext
  <2> HIDE DEF p
  <2>5. u \in Reads
    BY <2>2 DEF Reads, p
  <2> HIDE DEF u
  <2>6. [u EXCEPT !.name = Nothing] \in Reads
    BY <2>5 DEF Reads
  <2> QED  BY <2>3, <2>4, <2>6
<1>4. x # Slash \/ (x = Slash /\ (s.bad \/ s.name = Nothing))
      \/ (x = Slash /\ ~ (s.bad \/ s.name = Nothing))
  BY Zenon
<1> QED  BY <1>1, <1>2, <1>3, <1>4, Zenon

(* What has been read of a good path: slashes are its even tokens.         *)
Alternates(path, i) == \A j \in 1 .. i : path[j] = Slash <=> j % 2 = 0

DirsOf(path, i) == [k \in 1 .. (i \div 2) |-> [name |-> path[2 * k - 1], type |-> "dir"]]

ReadSo(s, path, i) ==
    /\ Alternates(path, i)
    /\ s.parts = DirsOf(path, i)
    /\ s.name = IF i % 2 = 1 THEN path[i] ELSE Nothing

LEMMA AlternatesOn ==
    ASSUME NEW path, NEW i \in Nat \ {0}, Alternates(path, i - 1), path[i] = Slash <=> i % 2 = 0
    PROVE  Alternates(path, i)
<1> SUFFICES ASSUME NEW j \in 1 .. i PROVE path[j] = Slash <=> j % 2 = 0
  BY DEF Alternates
<1>1. CASE j = i
  BY <1>1
<1>2. CASE j # i
  <2>1. j \in 1 .. (i - 1)
    BY <1>2
  <2> QED  BY <2>1 DEF Alternates
<1> QED  BY <1>1, <1>2

LEMMA UpTo ==
    ASSUME NEW n \in Nat, NEW S, 0 \in S, \A i \in 1 .. n : i - 1 \in S => i \in S
    PROVE  \A i \in 0 .. n : i \in S
<1> DEFINE W == {i \in 0 .. n : i \notin S}
<1> SUFFICES ASSUME W # {} PROVE FALSE
  OBVIOUS
<1>1. W \subseteq Nat
  OBVIOUS
<1> HIDE DEF W
<1>2. PICK i \in W : \A j \in W : i <= j
  BY <1>1, Least
<1>3. i \in 1 .. n /\ i \notin S /\ i - 1 \in 0 .. n /\ ~ (i <= i - 1)
  BY <1>2 DEF W
<1>4. i - 1 \in S
  BY <1>2, <1>3 DEF W
<1> QED  BY <1>3, <1>4

(* One round of the loop over a good path.                                 *)
LEMMA ReadNextSo ==
    ASSUME NEW path \in Paths, NEW i \in 1 .. Len(path), NEW s \in Reads, ~ s.bad,
           ReadSo(s, path, i - 1), NEW u, u = ReadNext(s, path[i]), ~ u.bad
    PROVE  ReadSo(u, path, i)
<1>1. /\ path \in Seq(STRING) /\ Len(path) \in Nat /\ i \in Nat /\ i \in DOMAIN path
      /\ \A j \in 1 .. Len(path) : path[j] # Nothing
      /\ \A j \in 2 .. Len(path) : path[j - 1] = Slash \/ path[j] = Slash
  BY PathAssumption
<1>2. /\ Alternates(path, i - 1)
      /\ s.name = IF (i - 1) % 2 = 1 THEN path[i - 1] ELSE Nothing
      /\ s.parts = DirsOf(path, i - 1)
  BY DEF ReadSo
<1>3. CASE i % 2 = 1
  <2>1. (i - 1) % 2 = 0 /\ (i - 1) \div 2 = i \div 2
    BY <1>1, <1>3
  <2>2. path[i] # Slash
    <3> SUFFICES ASSUME path[i] = Slash PROVE FALSE
      OBVIOUS
    <3>1. s.name = Nothing
      BY <1>2, <2>1
    <3>2. u = [s EXCEPT !.bad = TRUE]
      BY <3>1, Zenon DEF ReadNext
    <3> QED  BY <3>2 DEF Reads
  <2>3. Alternates(path, i)
    <3>1. ~ (i % 2 = 0)
      BY <1>3
    <3> QED  BY <1>1, <1>2, <2>2, <3>1, AlternatesOn
  <2>4. u = [s EXCEPT !.name = path[i]]
    BY <2>2, Zenon DEF ReadNext
  <2>5. u.parts = s.parts /\ u.name = path[i]
    BY <2>4 DEF Reads
  <2>6. DirsOf(path, i - 1) = DirsOf(path, i)
    BY <2>1 DEF DirsOf
  <2> QED  BY <1>2, <1>3, <2>3, <2>5, <2>6 DEF ReadSo
<1>4. CASE i % 2 = 0
  <2>1. (i - 1) % 2 = 1 /\ i \in 2 .. Len(path) /\ i - 1 \in 1 .. (i - 1)
        /\ (i - 1) \div 2 + 1 = i \div 2 /\ 2 * (i \div 2) - 1 = i - 1 /\ (i - 1) \div 2 \in Nat
    BY <1>1, <1>4
  <2>2. path[i - 1] # Slash
    <3>1. \A j \in 1 .. (i - 1) : path[j] = Slash <=> j % 2 = 0
      BY <1>2 DEF Alternates
    <3>2. ~ ((i - 1) % 2 = 0)
      BY <2>1
    <3> QED  BY <2>1, <3>1, <3>2
  <2>3. path[i] = Slash
    BY <1>1, <2>1, <2>2
  <2>4. Alternates(path, i)
    BY <1>1, <1>2, <1>4, <2>3, AlternatesOn
  <2>5. s.name = path[i - 1] /\ s.name # Nothing
    <3>1. i - 1 \in 1 .. Len(path)
      BY <1>1, <2>1
    <3> QED  BY <1>1, <1>2, <2>1, <3>1
  <2> DEFINE e == [name |-> path[i - 1], type |-> "dir"]
             m == (i - 1) \div 2
             v == [s EXCEPT !.parts = Append(s.parts, e)]
  <2>6. u = [v EXCEPT !.name = Nothing]
    BY <2>3, <2>5, Zenon DEF ReadNext
  <2>7. u.parts = Append(s.parts, e) /\ u.name = Nothing
    <3>1. v.parts = Append(s.parts, e) /\ DOMAIN v = {"parts", "name", "bad"}
      BY DEF Reads
    <3> HIDE DEF v
    <3> QED  BY <2>6, <3>1
  <2>8. Append(s.parts, e) = DirsOf(path, i)
    <3> DEFINE q == DirsOf(path, i - 1)
               A == {q[k] : k \in 1 .. m} \cup {e}
    <3>1. m \in Nat /\ i \div 2 = m + 1
      BY <2>1
    <3>2. q \in Seq(A) /\ Len(q) = m
      <4>1. q \in [1 .. m -> A]
        BY DEF DirsOf
      <4> HIDE DEF A, m, q
      <4>2. q \in Seq(A)
        BY <3>1, <4>1, SeqDef
      <4> QED  BY <3>1, <4>1, <4>2
    <3>3. e \in A
      OBVIOUS
    <3>4. \A k \in 1 .. m : q[k] = [name |-> path[2 * k - 1], type |-> "dir"]
      BY DEF DirsOf
    <3>5. e = [name |-> path[2 * (m + 1) - 1], type |-> "dir"]
      BY <2>1
    <3>6. s.parts = q
      BY <1>2
    <3> HIDE DEF A, m, q, e
    <3>7. /\ Append(q, e) = [k \in 1 .. (m + 1) |-> Append(q, e)[k]]
          /\ \A k \in 1 .. m : Append(q, e)[k] = q[k]
          /\ Append(q, e)[m + 1] = e
      <4>1. /\ Append(q, e) \in Seq(A) /\ Len(Append(q, e)) = m + 1
            /\ \A k \in 1 .. m : Append(q, e)[k] = q[k]
            /\ Append(q, e)[m + 1] = e
        BY <3>2, <3>3, AppendProperties
      <4>2. m + 1 \in Nat
        BY <3>1
      <4> QED  BY <4>1, <4>2, SeqFun
    <3>8. \A k \in 1 .. (m + 1) : Append(q, e)[k] = [name |-> path[2 * k - 1], type |-> "dir"]
      <4> SUFFICES ASSUME NEW k \in 1 .. (m + 1)
                   PROVE  Append(q, e)[k] = [name |-> path[2 * k - 1], type |-> "dir"]
        OBVIOUS
      <4>1. k \in 1 .. m \/ k = m + 1
        BY <3>1
      <4> QED  BY <3>4, <3>5, <3>7, <4>1
    <3> QED  BY <3>1, <3>6, <3>7, <3>8 DEF DirsOf
  <2>9. ~ (i % 2 = 1)
    BY <1>4
  <2> QED  BY <2>4, <2>7, <2>8, <2>9 DEF ReadSo
<1> QED  BY <1>1, <1>3, <1>4

LEMMA ScanSo ==
    ASSUME NEW path \in Paths
    PROVE  \A i \in 0 .. Len(path) :
              Scan(path)[i] \in Reads /\ (~ Scan(path)[i].bad => ReadSo(Scan(path)[i], path, i))
<1> DEFINE at == Scan(path)
           S == {i \in 0 .. Len(path) : at[i] \in Reads /\ (~ at[i].bad => ReadSo(at[i], path, i))}
<1>1. path \in Seq(STRING) /\ Len(path) \in Nat /\ \A i \in 1 .. Len(path) : path[i] \in STRING
  BY PathAssumption
<1>2. at[0] = Read0 /\ \A i \in 1 .. Len(path) : at[i] = ReadNext(at[i - 1], path[i])
  BY <1>1, ScanIs
<1> HIDE DEF at
<1>3. 0 \in S
  <2>1. Read0 \in Reads
    BY DEF Read0, Reads
  <2>2. Read0.parts = << >> /\ Read0.name = Nothing
    BY DEF Read0
  <2>3. Alternates(path, 0)
    BY DEF Alternates
  <2>4. DirsOf(path, 0) = << >>
    <3>1. 0 \div 2 = 0
      OBVIOUS
    <3> QED  BY <3>1 DEF DirsOf
  <2>5. 0 \in 0 .. Len(path) /\ 0 % 2 # 1
    BY <1>1
  <2> QED  BY <1>2, <2>1, <2>2, <2>3, <2>4, <2>5 DEF ReadSo
<1>4. ASSUME NEW i \in 1 .. Len(path), i - 1 \in S PROVE i \in S
  <2>1. at[i - 1] \in Reads /\ (~ at[i - 1].bad => ReadSo(at[i - 1], path, i - 1))
    BY <1>4
  <2>2. at[i] = ReadNext(at[i - 1], path[i]) /\ path[i] \in STRING
    BY <1>1, <1>2
  <2>3. at[i] \in Reads /\ (at[i - 1].bad => at[i].bad)
    BY <2>1, <2>2, ReadTyped
  <2>4. ~ at[i].bad => ReadSo(at[i], path, i)
    BY <2>1, <2>2, <2>3, ReadNextSo
  <2> QED  BY <1>1, <2>3, <2>4
<1> HIDE DEF S
<1>5. \A i \in 0 .. Len(path) : i \in S
  BY <1>1, <1>3, <1>4, UpTo
<1> QED  BY <1>5 DEF S, at

(* A good path: tokens that are names and slashes by turns.                *)
LEMMA ParseIs ==
    ASSUME NEW path \in Paths, ~ Parse(path).bad
    PROVE  /\ Len(path) \in Nat /\ Alternates(path, Len(path))
           /\ Parse(path).parts = DirsOf(path, Len(path))
           /\ Parse(path).name = IF Len(path) % 2 = 1 THEN path[Len(path)] ELSE Nothing
           /\ path \in Seq(STRING) /\ \A i \in 1 .. Len(path) : path[i] # Nothing
           /\ \A i \in 1 .. Len(path) : path[i] \in DOMAIN Names \cup {Slash}
<1>1. path \in Seq(STRING) /\ Len(path) \in Nat /\ \A i \in 1 .. Len(path) : path[i] # Nothing
  BY PathAssumption
<1>2. Len(path) \in 0 .. Len(path)
  BY <1>1
<1>3. ReadSo(Parse(path), path, Len(path))
  BY <1>2, ScanSo DEF Parse
<1>4. \A i \in 1 .. Len(path) : path[i] \in DOMAIN Names \cup {Slash}
  BY <1>1, DirAssumption
<1> QED  BY <1>1, <1>3, <1>4 DEF ReadSo

-----------------------------------------------------------------------------
(* The parts of a path of m tokens, and what they are turned back into.    *)
PartsOf(path) ==
    [k \in 1 .. ((Len(path) + 1) \div 2) |->
        [name |-> path[2 * k - 1], type |-> IF 2 * k <= Len(path) THEN "dir" ELSE "file"]]

Words(parts) ==
    [i \in DOMAIN parts |->
        IF parts[i].type = "dir" THEN <<parts[i].name, Slash>> ELSE <<parts[i].name>>]

Cut(path, i) == [j \in 1 .. i |-> path[j]]

LEMMA CutIs ==
    ASSUME NEW path, NEW i \in Nat
    PROVE  /\ Cut(path, i) \in Seq({path[j] : j \in 1 .. i}) /\ Len(Cut(path, i)) = i
           /\ \A j \in 1 .. i : Cut(path, i)[j] = path[j]
<1> DEFINE A == {path[j] : j \in 1 .. i}
           c == Cut(path, i)
<1>1. c \in [1 .. i -> A] /\ \A j \in 1 .. i : c[j] = path[j]
  BY DEF Cut
<1> HIDE DEF A, c
<1>2. c \in Seq(A)
  BY <1>1, SeqDef
<1>3. Len(c) = i
  BY <1>1, <1>2
<1> QED  BY <1>1, <1>2, <1>3 DEF A, c

(* Another part is another one or two tokens.                              *)
LEMMA CutGrows ==
    ASSUME NEW path, NEW i \in Nat, NEW w, NEW l \in {1, 2},
           w = Cut([j \in 1 .. l |-> path[i + j]], l)
    PROVE  Cut(path, i) \o w = Cut(path, i + l)
<1> DEFINE A == {path[j] : j \in 1 .. (i + l)}
           c == Cut(path, i)
           d == Cut(path, i + l)
           p == [j \in 1 .. l |-> path[i + j]]
<1>0. i + l \in Nat /\ l \in Nat /\ 1 .. i \subseteq 1 .. (i + l)
      /\ \A j \in 1 .. l : i + j \in 1 .. (i + l)
  OBVIOUS
<1>1. c \in Seq({path[j] : j \in 1 .. i}) /\ Len(c) = i /\ \A j \in 1 .. i : c[j] = path[j]
  BY CutIs
<1>2. d \in Seq(A) /\ Len(d) = i + l /\ \A j \in 1 .. (i + l) : d[j] = path[j]
  BY <1>0, CutIs
<1>3. w \in Seq({p[j] : j \in 1 .. l}) /\ Len(w) = l /\ \A j \in 1 .. l : w[j] = p[j]
  BY <1>0, CutIs
<1>4. {path[j] : j \in 1 .. i} \subseteq A
  BY <1>0
<1>5. {p[j] : j \in 1 .. l} \subseteq A
  BY <1>0
<1>6. \A j \in 1 .. l : w[j] = path[i + j]
  BY <1>3
<1> HIDE DEF A, c, d, p
<1>7. c \in Seq(A) /\ w \in Seq(A)
  BY <1>1, <1>3, <1>4, <1>5, SeqMonotonic
<1>8. /\ c \o w \in Seq(A) /\ Len(c \o w) = i + l
      /\ \A j \in 1 .. (i + l) : (c \o w)[j] = IF j <= i THEN c[j] ELSE w[j - i]
  <2>1. Len(c) = i /\ Len(w) = l
    BY <1>1, <1>3
  <2>2. /\ c \o w \in Seq(A) /\ Len(c \o w) = Len(c) + Len(w)
        /\ \A j \in 1 .. (Len(c) + Len(w)) :
              (c \o w)[j] = IF j <= Len(c) THEN c[j] ELSE w[j - Len(c)]
    BY <1>7, ConcatProperties
  <2> QED  BY <2>1, <2>2
<1>9. ASSUME NEW j \in 1 .. (i + l) PROVE (c \o w)[j] = path[j]
  <2>1. CASE j <= i
    <3>1. j \in 1 .. i
      BY <2>1
    <3> QED  BY <1>1, <1>8, <2>1, <3>1
  <2>2. CASE ~ (j <= i)
    <3>1. j - i \in 1 .. l /\ i + (j - i) = j
      BY <2>2
    <3> QED  BY <1>6, <1>8, <2>2, <3>1
  <2> QED  BY <2>1, <2>2
<1>10. c \o w = d
  BY <1>2, <1>8, <1>9, SeqEqual
<1> QED  BY <1>10 DEF c, d

Flattens(F, q, n) ==
    /\ F = [i \in 1 .. n |-> F[i]] /\ F[1] = q[1]
    /\ \A i \in 2 .. n : F[i] = F[i - 1] \o q[i]

LEMMA FlattenExists ==
    ASSUME NEW q, NEW n \in Nat, NEW F, Flattens(F, q, n)
    PROVE  F = [i \in 1 .. n |-> IF i = 1 THEN q[i] ELSE F[i - 1] \o q[i]]
<1>1. ASSUME NEW i \in 1 .. n
      PROVE  F[i] = IF i = 1 THEN q[i] ELSE F[i - 1] \o q[i]
  <2>1. CASE i = 1
    BY <2>1 DEF Flattens
  <2>2. CASE i # 1
    <3>1. i \in 2 .. n
      BY <2>2
    <3> QED  BY <2>2, <3>1 DEF Flattens
  <2> QED  BY <2>1, <2>2
<1>2. [i \in 1 .. n |-> F[i]] = [i \in 1 .. n |-> IF i = 1 THEN q[i] ELSE F[i - 1] \o q[i]]
  BY <1>1
<1>3. F = [i \in 1 .. n |-> F[i]]
  BY DEF Flattens
<1> QED  BY <1>2, <1>3, Zenon

LEMMA FlattenIs ==
    ASSUME NEW q, NEW n \in Nat \ {0}, Len(q) = n, NEW F, Flattens(F, q, n)
    PROVE  FlattenSeq(q) = F[n]
<1> DEFINE Is(f) == f = [i \in 1 .. n |-> IF i = 1 THEN q[i] ELSE f[i - 1] \o q[i]]
           g == CHOOSE f : Is(f)
           S == {i \in 0 .. (n - 1) : g[i + 1] = F[i + 1]}
<1>1. Is(F)
  BY FlattenExists
<1>2. Is(g)
  BY <1>1
<1>3. FlattenSeq(q) = g[n]
  BY DEF FlattenSeq
<1> HIDE DEF g
<1>4. \A i \in 1 .. n : g[i] = IF i = 1 THEN q[i] ELSE g[i - 1] \o q[i]
  BY <1>2
<1> HIDE DEF Is
<1>5. 0 \in S
  <2>1. 0 \in 0 .. (n - 1) /\ 1 \in 1 .. n /\ 0 + 1 = 1
    OBVIOUS
  <2> QED  BY <1>4, <2>1 DEF Flattens
<1>6. ASSUME NEW i \in 1 .. (n - 1), i - 1 \in S PROVE i \in S
  <2>1. i + 1 \in 1 .. n /\ i + 1 \in 2 .. n /\ i + 1 # 1 /\ i + 1 - 1 = i /\ i - 1 + 1 = i
        /\ i \in 0 .. (n - 1)
    OBVIOUS
  <2>2. g[i] = F[i]
    BY <1>6, <2>1
  <2>3. PICK j : j = i + 1
    OBVIOUS
  <2>4. j \in 1 .. n /\ j \in 2 .. n /\ j # 1 /\ j - 1 = i
    BY <2>1, <2>3
  <2>5. g[j] = g[i] \o q[j]
    <3>1. g[j] = IF j = 1 THEN q[j] ELSE g[j - 1] \o q[j]
      BY <1>4, <2>4, Zenon
    <3> QED  BY <2>4, <3>1
  <2>6. F[j] = F[i] \o q[j]
    <3>1. F[j] = F[j - 1] \o q[j]
      BY <2>4, Zenon DEF Flattens
    <3> QED  BY <2>4, <3>1
  <2>7. g[j] = F[j]
    BY <2>2, <2>5, <2>6
  <2> QED  BY <2>1, <2>3, <2>7
<1> HIDE DEF S
<1>7. \A i \in 0 .. (n - 1) : i \in S
  <2>1. n - 1 \in Nat
    OBVIOUS
  <2> QED  BY <1>5, <1>6, <2>1, UpTo
<1>8. g[n] = F[n]
  <2>1. n - 1 \in 0 .. (n - 1) /\ n - 1 + 1 = n
    OBVIOUS
  <2> QED  BY <1>7, <2>1 DEF S
<1> QED  BY <1>3, <1>8

(* The parts of a good path are turned back into the path.                 *)
LEMMA RoundTrip ==
    ASSUME NEW path, NEW A, path \in Seq(A), Alternates(path, Len(path))
    PROVE  FlattenSeq(Words(PartsOf(path))) = path
<1> DEFINE m == Len(path)
           n == (m + 1) \div 2
           parts == PartsOf(path)
           q == Words(parts)
           to(i) == IF 2 * i <= m THEN 2 * i ELSE m
           F == [i \in 1 .. n |-> Cut(path, to(i))]
<1>1. m \in Nat /\ n \in Nat /\ 2 * n <= m + 1 /\ m <= 2 * n
  OBVIOUS
<1>2. /\ DOMAIN parts = 1 .. n
      /\ \A i \in 1 .. n : /\ parts[i].name = path[2 * i - 1]
                           /\ parts[i].type = IF 2 * i <= m THEN "dir" ELSE "file"
  BY DEF PartsOf
<1>3. Len(q) = n /\ DOMAIN q = 1 .. n
  <2>1. q = [i \in 1 .. n |-> q[i]]
    BY <1>2 DEF Words
  <2> HIDE DEF q
  <2> QED  BY <1>1, <2>1, FunIsSeq
<1>4. ASSUME NEW i \in 1 .. n
      PROVE  q[i] = IF 2 * i <= m THEN <<path[2 * i - 1], Slash>> ELSE <<path[2 * i - 1]>>
  BY <1>2, <1>4 DEF Words
<1>5. Cut(path, m) = path
  BY <1>1, SeqFun DEF Cut
<1>6. CASE n = 0
  <2>1. m = 0
    BY <1>1, <1>6
  <2>2. FlattenSeq(q) = q
    BY <1>3, <1>6 DEF FlattenSeq
  <2>3. q = << >>
    BY <1>2, <1>6 DEF Words
  <2> QED  BY <2>1, <2>2, <2>3
<1>7. CASE n # 0
  <2>1. ASSUME NEW i \in 1 .. n
        PROVE  \E l \in {1, 2} : /\ to(i) = 2 * (i - 1) + l /\ 2 * (i - 1) \in Nat
                                 /\ q[i] = Cut([j \in 1 .. l |-> path[2 * (i - 1) + j]], l)
    <3>1. CASE 2 * i <= m
      <4>1. to(i) = 2 * (i - 1) + 2 /\ 2 * i \in 1 .. m /\ (2 * i) % 2 = 0 /\ 2 * (i - 1) \in Nat
            /\ 2 * (i - 1) + 1 = 2 * i - 1 /\ 2 * (i - 1) + 2 = 2 * i
        BY <1>1, <3>1
      <4>2. path[2 * i] = Slash
        BY <4>1 DEF Alternates
      <4>3. q[i] = <<path[2 * i - 1], path[2 * i]>>
        BY <1>4, <3>1, <4>2
      <4>4. Cut([j \in 1 .. 2 |-> path[2 * (i - 1) + j]], 2) = <<path[2 * i - 1], path[2 * i]>>
        BY <4>1 DEF Cut
      <4> QED  BY <4>1, <4>3, <4>4
    <3>2. CASE ~ (2 * i <= m)
      <4>1. to(i) = 2 * (i - 1) + 1 /\ 2 * (i - 1) \in Nat /\ 2 * (i - 1) + 1 = 2 * i - 1
        BY <1>1, <3>2
      <4>2. q[i] = <<path[2 * i - 1]>>
        BY <1>4, <3>2
      <4>3. Cut([j \in 1 .. 1 |-> path[2 * (i - 1) + j]], 1) = <<path[2 * i - 1]>>
        BY <4>1 DEF Cut
      <4> QED  BY <4>1, <4>2, <4>3
    <3> QED  BY <3>1, <3>2
  <2>2. \A i \in 1 .. n : F[i] = Cut(path, to(i))
    OBVIOUS
  <2>3. \A i \in 2 .. n : i - 1 \in 1 .. n /\ i \in 1 .. n /\ to(i - 1) = 2 * (i - 1)
    BY <1>1
  <2>4. to(n) = m /\ n \in 1 .. n /\ 1 \in 1 .. n
    BY <1>1, <1>7
  <2>5. F = [i \in 1 .. n |-> F[i]]
    OBVIOUS
  <2> HIDE DEF F, to, q, n, m
  <2>6. F[1] = q[1]
    <3>1. PICK l \in {1, 2} : /\ to(1) = 2 * (1 - 1) + l
                              /\ q[1] = Cut([j \in 1 .. l |-> path[2 * (1 - 1) + j]], l)
      BY <2>1, <2>4
    <3>2. to(1) = l /\ q[1] = Cut([j \in 1 .. l |-> path[j]], l)
      <4>1. \A j \in Int : 2 * (1 - 1) + j = j
        OBVIOUS
      <4> QED  BY <3>1, <4>1
    <3>3. Cut([j \in 1 .. l |-> path[j]], l) = Cut(path, l)
      BY DEF Cut
    <3> QED  BY <2>2, <2>4, <3>2, <3>3
  <2>7. ASSUME NEW i \in 2 .. n PROVE F[i] = F[i - 1] \o q[i]
    <3>1. PICK l \in {1, 2} : /\ to(i) = 2 * (i - 1) + l /\ 2 * (i - 1) \in Nat
                              /\ q[i] = Cut([j \in 1 .. l |-> path[2 * (i - 1) + j]], l)
      BY <2>1, <2>3
    <3>2. Cut(path, 2 * (i - 1)) \o q[i] = Cut(path, 2 * (i - 1) + l)
      BY <3>1, CutGrows
    <3> QED  BY <2>2, <2>3, <3>1, <3>2
  <2>8. FlattenSeq(q) = F[n]
    <3>1. n \in Nat \ {0} /\ Len(q) = n
      BY <1>1, <1>3, <1>7
    <3>2. \A i \in 2 .. n : F[i] = F[i - 1] \o q[i]
      BY <2>7
    <3>3. Flattens(F, q, n)
      BY <2>5, <2>6, <3>2, Zenon DEF Flattens
    <3> QED  BY <3>1, <3>3, FlattenIs
  <2>9. FlattenSeq(q) = path
    BY <1>5, <2>2, <2>4, <2>8
  <2> QED  BY <2>9 DEF q
<1> QED  BY <1>6, <1>7

(* The tracer t of a path, with the parts l in the heap.                   *)
IsTracer(t, l, path) ==
    /\ path \in Paths /\ ~ Parse(path).bad
    /\ t.path = path /\ t.parts = PartsOf(path)
    /\ t.linked = (IF path = << >> THEN 1 .. 1 ELSE 1 .. ((Len(path) + 1) \div 2))
    /\ l = 1 .. ((Len(path) + 1) \div 2)

LEMMA DirsThenFile ==
    ASSUME NEW path, Len(path) \in Nat, Len(path) % 2 = 1
    PROVE  Append(DirsOf(path, Len(path)), [name |-> path[Len(path)], type |-> "file"]) = PartsOf(path)
<1> DEFINE m == Len(path)
           q == DirsOf(path, m)
           e == [name |-> path[m], type |-> "file"]
           h == m \div 2
           A == {q[k] : k \in 1 .. h} \cup {e}
           p == PartsOf(path)
<1>1. h \in Nat /\ m = 2 * h + 1 /\ (m + 1) \div 2 = h + 1 /\ 2 * (h + 1) - 1 = m
      /\ ~ (2 * (h + 1) <= m) /\ \A k \in 1 .. h : 2 * k <= m
  OBVIOUS
<1>2. q \in Seq(A) /\ Len(q) = h
  <2>1. q \in [1 .. h -> A]
    BY DEF DirsOf
  <2> HIDE DEF A, h, q
  <2>2. q \in Seq(A)
    BY <1>1, <2>1, SeqDef
  <2> QED  BY <1>1, <2>1, <2>2
<1>3. e \in A
  OBVIOUS
<1>4. \A k \in 1 .. h : q[k] = [name |-> path[2 * k - 1], type |-> "dir"]
  BY DEF DirsOf
<1>5. p = [k \in 1 .. (h + 1) |-> p[k]]
      /\ \A k \in 1 .. (h + 1) : p[k] = [name |-> path[2 * k - 1],
                                         type |-> IF 2 * k <= m THEN "dir" ELSE "file"]
  BY <1>1 DEF PartsOf
<1>6. p[h + 1] = e /\ \A k \in 1 .. h : p[k] = q[k]
  <2>1. h + 1 \in 1 .. (h + 1) /\ \A k \in 1 .. h : k \in 1 .. (h + 1)
    BY <1>1
  <2>2. p[h + 1] = e
    BY <1>1, <1>5, <2>1
  <2>3. ASSUME NEW k \in 1 .. h PROVE p[k] = q[k]
    BY <1>1, <1>4, <1>5, <2>1
  <2> QED  BY <2>2, <2>3
<1> HIDE DEF A, h, q, e, p
<1>7. /\ Append(q, e) \in Seq(A) /\ Len(Append(q, e)) = h + 1
      /\ \A k \in 1 .. h : Append(q, e)[k] = q[k]
      /\ Append(q, e)[h + 1] = e
  <2>1. /\ Append(q, e) \in Seq(A) /\ Len(Append(q, e)) = Len(q) + 1
        /\ \A k \in 1 .. Len(q) : Append(q, e)[k] = q[k]
        /\ Append(q, e)[Len(q) + 1] = e
    BY <1>2, <1>3, AppendProperties
  <2> QED  BY <1>2, <2>1
<1>8. h + 1 \in Nat
  BY <1>1
<1>9. Append(q, e) = [k \in 1 .. (h + 1) |-> Append(q, e)[k]]
  BY <1>7, <1>8, SeqFun
<1>10. \A k \in 1 .. (h + 1) : Append(q, e)[k] = p[k]
  <2> SUFFICES ASSUME NEW k \in 1 .. (h + 1) PROVE Append(q, e)[k] = p[k]
    OBVIOUS
  <2>1. k \in 1 .. h \/ k = h + 1
    BY <1>1
  <2> QED  BY <1>6, <1>7, <2>1
<1>11. [k \in 1 .. (h + 1) |-> Append(q, e)[k]] = [k \in 1 .. (h + 1) |-> p[k]]
  BY <1>10
<1>12. Append(q, e) = p
  BY <1>5, <1>9, <1>11, Zenon
<1> QED  BY <1>12 DEF q, e, p

LEMMA DirsOnly ==
    ASSUME NEW path, Len(path) \in Nat, Len(path) % 2 # 1
    PROVE  DirsOf(path, Len(path)) = PartsOf(path)
<1> DEFINE m == Len(path)
<1>1. (m + 1) \div 2 = m \div 2 /\ \A k \in 1 .. (m \div 2) : 2 * k <= m
  OBVIOUS
<1> QED  BY <1>1 DEF DirsOf, PartsOf

LEMMA Created ==
    ASSUME NEW path \in Paths, createPathTracer(path)
    PROVE  IsTracer(tracer', live', path)
<1>1. PICK s : s = Parse(path)
  OBVIOUS
<1>2. PICK m : m = Len(path)
  OBVIOUS
<1>3. PICK parts : parts = IF s.name = Nothing THEN s.parts
                           ELSE Append(s.parts, [name |-> s.name, type |-> "file"])
  OBVIOUS
<1>4. /\ ~ s.bad
      /\ tracer' = [path |-> path, linked |-> Linked(s), parts |-> parts]
      /\ live' = 1 .. Len(s.parts) + (IF s.name = Nothing THEN 0 ELSE 1)
  BY <1>1, <1>3 DEF createPathTracer
<1>5. /\ m \in Nat /\ s.parts = DirsOf(path, m)
      /\ s.name = IF m % 2 = 1 THEN path[m] ELSE Nothing
      /\ \A i \in 1 .. m : path[i] # Nothing
      /\ path \in Seq(STRING)
  BY <1>1, <1>2, <1>4, ParseIs
<1>6. s.name = Nothing <=> m % 2 # 1
  <2>1. m % 2 = 1 => m \in 1 .. m
    BY <1>5
  <2> QED  BY <1>5, <2>1
<1>7. parts = PartsOf(path)
  <2>1. CASE m % 2 = 1
    BY <1>2, <1>3, <1>5, <1>6, <2>1, DirsThenFile
  <2>2. CASE m % 2 # 1
    BY <1>2, <1>3, <1>5, <1>6, <2>2, DirsOnly
  <2> QED  BY <2>1, <2>2
<1>8. Len(s.parts) = m \div 2 /\ m \div 2 \in Nat
  <2>1. m \div 2 \in Nat
    BY <1>5
  <2>2. s.parts = [k \in 1 .. (m \div 2) |-> s.parts[k]]
    BY <1>5 DEF DirsOf
  <2> QED  BY <2>1, <2>2, FunIsSeq
<1>9. (m \div 2) + (IF s.name = Nothing THEN 0 ELSE 1) = (m + 1) \div 2
  BY <1>5, <1>6
<1>10. Linked(s) = IF path = << >> THEN 1 .. 1 ELSE 1 .. ((m + 1) \div 2)
  <2>1. path = << >> <=> m = 0
    BY <1>2, <1>5
  <2>2. s.parts = << >> <=> m \div 2 = 0
    <3>1. s.parts = << >> => m \div 2 = 0
      BY <1>8
    <3>2. m \div 2 = 0 => s.parts = << >>
      BY <1>5 DEF DirsOf
    <3> QED  BY <3>1, <3>2
  <2>3. CASE m = 0
    <3>1. m \div 2 = 0
      BY <2>3
    <3> QED  BY <1>8, <2>1, <2>2, <2>3, <3>1 DEF Linked
  <2>4. CASE m # 0
    <3>1. s.name = Nothing => m \div 2 # 0
      BY <1>5, <1>6, <2>4
    <3> QED  BY <1>8, <1>9, <2>1, <2>2, <2>4, <3>1 DEF Linked
  <2> QED  BY <2>3, <2>4
<1>11. live' = 1 .. ((m + 1) \div 2)
  BY <1>4, <1>8, <1>9
<1> QED  BY <1>1, <1>2, <1>4, <1>7, <1>10, <1>11 DEF IsTracer

(* The invariant of the tracer: it is made of a path or there is none.     *)
Tracing ==
    IF pc = "idle" THEN tracer = NoTracer /\ live = {}
    ELSE \E path \in Paths : IsTracer(tracer, live, path)

LEMMA TracingOk ==
    ASSUME Tracing
    PROVE  TracerInv
<1> USE DEF TracerInv, PathRoundTrip, PartsFreedOnce
<1>1. CASE pc = "idle"
  <2>1. tracer = NoTracer /\ live = {}
    BY <1>1 DEF Tracing
  <2>2. tracer.path = << >> /\ tracer.parts = << >>
    BY <2>1 DEF NoTracer
  <2>3. pathTracerGetPathString = << >>
    <3>1. [i \in DOMAIN << >> |->
              IF << >>[i].type = "dir" THEN << << >>[i].name, Slash>> ELSE << << >>[i].name>>] = << >>
      OBVIOUS
    <3>2. FlattenSeq(<< >>) = << >>
      BY DEF FlattenSeq
    <3> QED  BY <2>2, <3>1, <3>2 DEF pathTracerGetPathString
  <2> QED  BY <2>1, <2>2, <2>3
<1>2. CASE pc # "idle"
  <2>1. PICK path \in Paths : IsTracer(tracer, live, path)
    BY <1>2 DEF Tracing
  <2>2. tracer.path = path /\ tracer.parts = PartsOf(path)
    BY <2>1 DEF IsTracer
  <2>3. path \in Seq(STRING) /\ Alternates(path, Len(path)) /\ Len(path) \in Nat
    BY <2>1, ParseIs DEF IsTracer
  <2>4. pathTracerGetPathString = FlattenSeq(Words(PartsOf(path)))
    BY <2>2 DEF pathTracerGetPathString, Words
  <2>5. PathRoundTrip
    BY <2>2, <2>3, <2>4, RoundTrip
  <2>6. path = << >> => live = {}
    BY <2>1, <2>3 DEF IsTracer
  <2>7. path # << >> => live = tracer.linked
    BY <2>1 DEF IsTracer
  <2> QED  BY <2>2, <2>5, <2>6, <2>7
<1> QED  BY <1>1, <1>2

LEMMA Destroyed ==
    ASSUME Tracing, pc # "idle", destroyPathTracer
    PROVE  tracer' = NoTracer /\ live' = {}
<1>1. PICK path \in Paths : IsTracer(tracer, live, path)
  BY DEF Tracing
<1>2. tracer' = NoTracer /\ live' = live \ tracer.linked
  BY DEF destroyPathTracer
<1>3. Len(path) \in Nat /\ (path = << >> => Len(path) = 0)
  BY <1>1, ParseIs DEF IsTracer
<1>4. live \subseteq tracer.linked
  BY <1>1, <1>3 DEF IsTracer
<1> QED  BY <1>2, <1>4

(* The names of a good path: the directories on the way, and the file.     *)
LEMMA TracedIs ==
    ASSUME NEW path \in Paths, IsTracer(tracer, live, path)
    PROVE  LET m == Len(path) n == (m + 1) \div 2 IN
           /\ m \in Nat /\ n \in Nat /\ Len(tracer.parts) = n /\ DOMAIN tracer.parts = 1 .. n
           /\ \A k \in 1 .. n :
                 /\ tracer.parts[k].name \in DOMAIN Names
                 /\ tracer.parts[k].type = IF 2 * k <= m THEN "dir" ELSE "file"
           /\ FileNames = IF m % 2 = 1 THEN {tracer.parts[n].name} ELSE {}
<1> DEFINE m == Len(path)
           n == (m + 1) \div 2
           parts == tracer.parts
<1>1. parts = PartsOf(path) /\ m \in Nat /\ n \in Nat /\ Alternates(path, m)
      /\ \A i \in 1 .. m : path[i] \in DOMAIN Names \cup {Slash}
  BY ParseIs DEF IsTracer
<1>2. DOMAIN parts = 1 .. n /\ \A k \in 1 .. n :
         parts[k].name = path[2 * k - 1] /\ parts[k].type = IF 2 * k <= m THEN "dir" ELSE "file"
  BY <1>1 DEF PartsOf
<1>3. Len(parts) = n
  <2>1. parts = [k \in 1 .. n |-> parts[k]]
    BY <1>1 DEF PartsOf
  <2> HIDE DEF parts, n
  <2> QED  BY <1>1, <2>1, FunIsSeq
<1>4. ASSUME NEW k \in 1 .. n PROVE parts[k].name \in DOMAIN Names
  <2>1. 2 * k - 1 \in 1 .. m /\ ~ ((2 * k - 1) % 2 = 0)
    BY <1>1
  <2>2. path[2 * k - 1] # Slash
    BY <1>1, <2>1 DEF Alternates
  <2> QED  BY <1>1, <1>2, <2>1, <2>2
<1>5. FileNames = IF m % 2 = 1 THEN {parts[n].name} ELSE {}
  <2>1. CASE m % 2 = 1
    <3>1. n \in 1 .. n /\ ~ (2 * n <= m) /\ \A k \in 1 .. n : ~ (2 * k <= m) => k = n
      BY <1>1, <2>1
    <3>2. \A k \in 1 .. n : parts[k].type = "file" <=> k = n
      BY <1>2, <3>1
    <3>3. {j \in DOMAIN parts : parts[j].type = "file"} = {n}
      BY <1>2, <3>1, <3>2
    <3> QED  BY <2>1, <3>3 DEF FileNames
  <2>2. CASE m % 2 # 1
    <3>1. \A k \in 1 .. n : 2 * k <= m
      BY <1>1, <2>2
    <3>2. {j \in DOMAIN parts : parts[j].type = "file"} = {}
      BY <1>2, <3>1
    <3> QED  BY <2>2, <3>2 DEF FileNames
  <2> QED  BY <2>1, <2>2
<1> QED  BY <1>1, <1>2, <1>3, <1>4, <1>5

-----------------------------------------------------------------------------
(* The way to the directory of a path.                                     *)
NameAt(k) == tracer.parts[k].name

LEMMA FollowedExists ==
    ASSUME NEW n \in Nat
    PROVE  \E f : f = [k \in 0 .. n |-> IF k = 0 THEN {RootDir}
                                        ELSE Below(f[k - 1], tracer.parts[k].name)]
<1> DEFINE Is(f, m) == f = [k \in 0 .. m |-> IF k = 0 THEN {RootDir}
                                             ELSE Below(f[k - 1], tracer.parts[k].name)]
           W == {m \in Nat : ~ \E f : Is(f, m)}
<1> SUFFICES ASSUME W # {} PROVE FALSE
  OBVIOUS
<1>1. PICK m \in W : \A k \in W : m <= k
  <2> W \subseteq Nat
    OBVIOUS
  <2> HIDE DEF W
  <2> QED  BY Least
<1>2. m \in Nat /\ ~ \E f : Is(f, m)
  OBVIOUS
<1>3. m # 0
  <2> SUFFICES ASSUME m = 0 PROVE FALSE
    OBVIOUS
  <2> DEFINE f == [k \in 0 .. 0 |-> {RootDir}]
  <2>1. Is(f, 0)
    OBVIOUS
  <2> QED  BY <1>2, <2>1
<1>4. PICK f : Is(f, m - 1)
  <2>1. m - 1 \in Nat /\ ~ (m <= m - 1)
    BY <1>2, <1>3
  <2> QED  BY <1>1, <2>1
<1> DEFINE g == [k \in 0 .. m |-> IF k = m THEN Below(f[m - 1], tracer.parts[m].name) ELSE f[k]]
<1>5. ASSUME NEW k \in 0 .. m
      PROVE  g[k] = IF k = 0 THEN {RootDir} ELSE Below(g[k - 1], tracer.parts[k].name)
  <2>1. CASE k = m
    <3>1. m - 1 \in 0 .. m /\ m - 1 # m
      BY <1>2, <1>3
    <3> QED  BY <1>3, <2>1, <3>1
  <2>2. CASE k # m /\ k # 0
    <3>1. k \in 0 .. (m - 1) /\ k - 1 \in 0 .. m /\ k - 1 # m
      BY <1>2, <2>2
    <3> QED  BY <1>4, <2>2, <3>1
  <2>3. CASE k = 0
    <3>1. 0 \in 0 .. (m - 1) /\ 0 # m
      BY <1>2, <1>3
    <3> QED  BY <1>4, <2>3, <3>1
  <2> QED  BY <2>1, <2>2, <2>3
<1>6. g = [k \in 0 .. m |-> g[k]]
  OBVIOUS
<1> HIDE DEF g
<1>7. Is(g, m)
  BY <1>5, <1>6
<1> QED  BY <1>2, <1>7

LEMMA FollowedIs ==
    ASSUME Levels \in Nat
    PROVE  /\ Followed[0] = {RootDir}
           /\ \A k \in 1 .. Levels : Followed[k] = Below(Followed[k - 1], NameAt(k))
<1> DEFINE at == Followed
           n == Levels
<1> HIDE DEF n
<1>1. \E f : f = [k \in 0 .. n |-> IF k = 0 THEN {RootDir} ELSE Below(f[k - 1], tracer.parts[k].name)]
  BY FollowedExists DEF n
<1>2. at = [k \in 0 .. n |-> IF k = 0 THEN {RootDir} ELSE Below(at[k - 1], tracer.parts[k].name)]
  BY <1>1 DEF Followed, n
<1> HIDE DEF at
<1>3. n \in Nat /\ 0 \in 0 .. n /\ \A k \in 1 .. n : k \in 0 .. n /\ k # 0
  BY DEF n
<1>4. \A k \in 0 .. n : at[k] = IF k = 0 THEN {RootDir} ELSE Below(at[k - 1], tracer.parts[k].name)
  BY <1>2
<1> QED  BY <1>3, <1>4 DEF at, n, NameAt

(* The directories of a path are its parts but the last, or all of them.   *)
LEMMA LevelsIs ==
    ASSUME NEW path \in Paths, IsTracer(tracer, live, path)
    PROVE  LET m == Len(path) n == (m + 1) \div 2 IN
           /\ Levels \in 0 .. n
           /\ m % 2 = 1 => Levels = IF n <= 2 THEN n - 1 ELSE n - 2
<1> DEFINE m == Len(path)
           n == (m + 1) \div 2
           D == {i \in DOMAIN tracer.parts : tracer.parts[i].type = "dir"}
           depth == Cardinality(D)
<1>1. /\ m \in Nat /\ n \in Nat /\ DOMAIN tracer.parts = 1 .. n
      /\ \A k \in 1 .. n : tracer.parts[k].type = IF 2 * k <= m THEN "dir" ELSE "file"
  BY TracedIs
<1>2. D \in SUBSET (1 .. n) /\ 1 \in Int /\ n \in Int
  BY <1>1
<1>3. IsFiniteSet(1 .. n) /\ Cardinality(1 .. n) = n
  BY <1>1, <1>2, FS_Interval
<1>4. IsFiniteSet(D) /\ depth \in Nat /\ depth <= n
  <2> HIDE DEF D, n
  <2>1. IsFiniteSet(D) /\ Cardinality(D) <= Cardinality(1 .. n)
    BY <1>2, <1>3, FS_Subset
  <2> QED  BY <1>3, <2>1, FS_CardinalityType
<1>5. Levels = IF depth < 2 THEN depth ELSE depth - 1
  BY DEF Levels
<1>6. m % 2 = 1 => depth = n - 1
  <2> SUFFICES ASSUME m % 2 = 1 PROVE depth = n - 1
    OBVIOUS
  <2>1. n >= 1 /\ \A k \in 1 .. n : 2 * k <= m <=> k <= n - 1
    BY <1>1, SMTT(30)
  <2>2. D = 1 .. (n - 1)
    BY <1>1, <2>1, SMTT(30)
  <2>3. Cardinality(1 .. (n - 1)) = IF 1 > n - 1 THEN 0 ELSE (n - 1) - 1 + 1
    <3>1. n - 1 \in Int
      BY <1>1
    <3> HIDE DEF n
    <3> QED  BY <1>2, <3>1, FS_Interval
  <2>4. depth = Cardinality(1 .. (n - 1))
    BY <2>2
  <2> HIDE DEF depth, D
  <2> QED  BY <1>1, <2>1, <2>3, <2>4
<1> HIDE DEF depth, D
<1>7. Levels \in 0 .. n
  BY <1>1, <1>4, <1>5
<1>8. m % 2 = 1 => Levels = IF n <= 2 THEN n - 1 ELSE n - 2
  BY <1>1, <1>4, <1>5, <1>6
<1> QED  BY <1>7, <1>8

-----------------------------------------------------------------------------
(* The inductive invariant.  Every directory is in order and remains where *)
(* it was, entries begin in clusters that were handed out, those of        *)
(* directories in a directory, and a call that is not done has no result.  *)
Disk ==
    /\ DOMAIN dirs = DOMAIN Dirs0 /\ dirs = [d \in DOMAIN Dirs0 |-> dirs[d]]
    /\ \A d \in DOMAIN Dirs0 : DirectoryOk(dirs[d])

Clusters ==
    /\ nextFree \in FirstFree .. LastCluster + 1
    /\ DOMAIN born \subseteq FirstFree .. nextFree - 1
    /\ \A d \in DOMAIN Dirs0 : \A i \in EntriesOf(dirs[d]) :
          /\ dirs[d][i].start \in 1 .. nextFree - 1
          /\ dirs[d][i].attr = "dir" => dirs[d][i].start \in DOMAIN Dirs0

Calls ==
    /\ pc \in {"idle", "traced", "done"} /\ (pc # "done" => last = None)
    /\ faults \in 0 .. MaxFaults /\ missed \in BOOLEAN /\ smashed \in BOOLEAN

Inv == Disk /\ Clusters /\ Calls /\ Tracing

LEMMA InvIsDirInv ==
    ASSUME Inv
    PROVE  DirInv
<1>1. \A d \in DOMAIN dirs : DirectoryOk(dirs[d])
  BY DEF Inv, Disk
<1>2. \A d \in DOMAIN dirs : Len(dirs[d]) % PerCluster = 0 /\ Len(dirs[d]) > 0 /\ WellFormed(dirs[d])
  BY <1>1 DEF DirectoryOk, IsDirectory
<1>3. TypeOK
  BY <1>2 DEF Inv, Calls, Clusters, TypeOK
<1> QED  BY <1>2, <1>3 DEF DirInv, DirWellFormed

LEMMA FirstCluster ==
    ASSUME Inv, NEW d \in DOMAIN Dirs0
    PROVE  /\ DirectoryOk(dirs[d]) /\ IsSeq(dirs[d]) /\ Len(dirs[d]) \in Nat
           /\ PerCluster \in Nat \ {0} /\ PerCluster <= Len(dirs[d])
           /\ Named(dirs[d]) = EntriesOf(dirs[d]) \cap (1 .. PerCluster)
<1> DEFINE s == dirs[d]
<1>1. DirectoryOk(s)
  BY DEF Inv, Disk
<1>2. IsSeq(s) /\ Len(s) \in Nat /\ Len(s) > 0 /\ DOMAIN s = 1 .. Len(s)
  BY <1>1, DirectoryIs
<1>3. Len(s) % PerCluster = 0 /\ PerCluster \in Nat \ {0}
  BY <1>1, DirAssumption DEF DirectoryOk, IsDirectory
<1> HIDE DEF s
<1>4. PerCluster <= Len(s)
  BY <1>2, <1>3
<1>5. Named(s) = EntriesOf(s) \cap (1 .. PerCluster)
  BY <1>2, <1>3, <1>4 DEF Named, EntriesOf
<1> QED  BY <1>1, <1>2, <1>3, <1>4, <1>5 DEF s

(* What a search stops at is an entry.                                     *)
LEMMA Found ==
    ASSUME Inv, NEW d \in DOMAIN Dirs0, NEW n, NEW attr, NEW i \in findDirEntry(d, n, attr), i # 0
    PROVE  /\ i \in EntriesOf(dirs[d]) /\ i \in 1 .. PerCluster /\ i \in 1 .. Len(dirs[d])
           /\ MayStop(dirs[d], i, n, attr)
<1>1. i \in Named(dirs[d]) /\ MayStop(dirs[d], i, n, attr)
  BY DEF findDirEntry
<1>2. Named(dirs[d]) = EntriesOf(dirs[d]) \cap (1 .. PerCluster) /\ DirectoryOk(dirs[d])
  BY FirstCluster
<1>3. EntriesOf(dirs[d]) \subseteq 1 .. Len(dirs[d])
  BY <1>2, DirectoryIs
<1> QED  BY <1>1, <1>2, <1>3

(* Directories are found on the way only.                                  *)
LEMMA BelowIs ==
    ASSUME Inv, NEW ds, ds \subseteq DOMAIN Dirs0 \cup {0}, NEW n
    PROVE  /\ Below(ds, n) \subseteq DOMAIN Dirs0 \cup {0}
           /\ \A b \in Below(ds, n) \ {0} : \E d \in ds \ {0} : \E i \in EntriesOf(dirs[d]) :
                 /\ MayStop(dirs[d], i, n, "dir") /\ dirs[d][i].attr = "dir"
                 /\ dirs[d][i].start = b
<1>1. ASSUME NEW b \in Below(ds, n) \ {0}
      PROVE  /\ b \in DOMAIN Dirs0
             /\ \E d \in ds \ {0} : \E i \in EntriesOf(dirs[d]) :
                 /\ MayStop(dirs[d], i, n, "dir") /\ dirs[d][i].attr = "dir"
                 /\ dirs[d][i].start = b
  <2>1. PICK q \in (ds \ {0}) \X (1 .. PerCluster) :
           /\ q[2] \in findDirEntry(q[1], n, "dir") /\ dirs[q[1]][q[2]].attr = "dir"
           /\ b = dirs[q[1]][q[2]].start
    BY DEF Below
  <2>2. PICK d, i : d = q[1] /\ i = q[2]
    OBVIOUS
  <2>3. d \in ds \ {0} /\ d \in DOMAIN Dirs0 /\ i \in 1 .. PerCluster /\ i # 0
    BY <2>1, <2>2, DirAssumption
  <2>4. i \in EntriesOf(dirs[d]) /\ MayStop(dirs[d], i, n, "dir")
    BY <2>1, <2>2, <2>3, Found
  <2>5. dirs[d][i].attr = "dir" /\ b = dirs[d][i].start
    BY <2>1, <2>2
  <2>6. b \in DOMAIN Dirs0
    BY <2>3, <2>4, <2>5 DEF Inv, Clusters
  <2> QED  BY <2>3, <2>4, <2>5, <2>6
<1> QED  BY <1>1

LEMMA DirectoryFound ==
    ASSUME Inv, pc # "idle"
    PROVE  findDirectory \subseteq DOMAIN Dirs0 \cup {0}
<1>1. PICK path \in Paths : IsTracer(tracer, live, path)
  BY DEF Inv, Tracing
<1>2. Levels \in Nat
  <2>1. Len(path) \in Nat
    BY <1>1, TracedIs
  <2> QED  BY <1>1, <2>1, LevelsIs
<1> DEFINE S == {k \in 0 .. Levels : Followed[k] \subseteq DOMAIN Dirs0 \cup {0}}
<1>3. 0 \in S
  <2>1. Followed[0] = {RootDir} /\ RootDir \in DOMAIN Dirs0
    BY <1>2, FollowedIs, DirAssumption
  <2> QED  BY <1>2, <2>1
<1>4. ASSUME NEW k \in 1 .. Levels, k - 1 \in S PROVE k \in S
  <2>1. Followed[k] = Below(Followed[k - 1], NameAt(k))
    BY <1>2, FollowedIs
  <2>2. Below(Followed[k - 1], NameAt(k)) \subseteq DOMAIN Dirs0 \cup {0}
    BY <1>4, BelowIs
  <2> QED  BY <2>1, <2>2
<1> HIDE DEF S
<1>5. \A k \in 0 .. Levels : k \in S
  BY <1>2, <1>3, <1>4, UpTo
<1>6. Levels \in 0 .. Levels
  BY <1>2
<1> QED  BY <1>5, <1>6 DEF S, findDirectory

-----------------------------------------------------------------------------
(* What createFatFileInDir does with a directory s, and whether the file   *)
(* is whole.                                                               *)
Creates(d, n, at, short, k, whole, start) ==
    /\ \E t : Extends(t, dirs[d], at, n, short, k, whole, start) /\ dirs' = [dirs EXCEPT ![d] = t]
    /\ start \in nextFree .. LastCluster + 1 /\ nextFree' \in start .. LastCluster + 1
    /\ whole => /\ start <= LastCluster /\ nextFree' = start + 1
                /\ last' = [dir |-> d, start |-> start, ok |-> TRUE]
                /\ born' = AlsoBorn(start, <<d, n>>)
    /\ ~ whole => /\ born' = born
                  /\ \/ last' = None
                     \/ last' = [dir |-> d, start |-> 0, ok |-> TRUE] /\ nextFree' = LastCluster + 1
    /\ smashed' \in BOOLEAN /\ (Smashes(Searched) => smashed')

LEMMA CreateStep ==
    ASSUME Inv, NEW d \in DOMAIN Dirs0, NEW n \in DOMAIN Names, createFatFileInDir(d, n)
    PROVE  \E at, short, k, start : \E whole \in BOOLEAN : Creates(d, n, at, short, k, whole, start)
<1> DEFINE P == Names[n].pieces
           s == dirs[d]
           at == FreeRun(s, P + 1)
           more == Max({0, (at + (P + 1) - 1 - Len(s) + PerCluster - 1) \div PerCluster})
           room == LastCluster + 1 - nextFree
           c == Min({more, room})
           g == Grown(s, c)
           short == generateShortFileName(g, n)
           start == nextFree + more
<1>8. IF more > room
      THEN /\ dirs' = [dirs EXCEPT ![d] = g] /\ nextFree' = LastCluster + 1 /\ last' = None
           /\ UNCHANGED born /\ smashed' = Smashes(Searched)
      ELSE \E k \in 0 .. (P + 1) :
             /\ smashed' = (Smashes(Searched) \/ (Names[n].long /\ Len(g) > PerCluster))
             /\ dirs' = [dirs EXCEPT ![d] =
                           IF k = (P + 1) /\ start <= LastCluster
                           THEN [LongFileNameEntries(g, at, n, short, Min({k, (P + 1) - 1}))
                                    EXCEPT ![at + k - 1] = FileEntry(short, start, 0)]
                           ELSE LongFileNameEntries(g, at, n, short, Min({k, (P + 1) - 1}))]
             /\ IF k < (P + 1) - 1
                THEN nextFree' = start /\ last' = None /\ UNCHANGED born
                ELSE IF start > LastCluster
                THEN /\ nextFree' = start /\ last' = [dir |-> d, start |-> 0, ok |-> TRUE]
                     /\ UNCHANGED born
                ELSE /\ nextFree' = start + 1
                     /\ last' = IF k = (P + 1) THEN [dir |-> d, start |-> start, ok |-> TRUE] ELSE None
                     /\ born' = IF k = (P + 1) THEN AlsoBorn(start, <<d, n>>) ELSE born
  BY Zenon DEF createFatFileInDir
<1>1. P = Names[n].pieces
  OBVIOUS
<1>2. s = dirs[d]
  OBVIOUS
<1>3. at = FreeRun(s, P + 1)
  OBVIOUS
<1>4. more = Max({0, (at + (P + 1) - 1 - Len(s) + PerCluster - 1) \div PerCluster})
  OBVIOUS
<1>5. room = LastCluster + 1 - nextFree
  OBVIOUS
<1>6. c = Min({more, room})
  OBVIOUS
<1>7. g = Grown(s, c)
  OBVIOUS
<1>9. start = nextFree + more
  OBVIOUS
<1> HIDE DEF P, s, at, more, room, c, g, short, start
<1>11. DirectoryOk(s) /\ Len(s) \in Nat /\ PerCluster \in Nat \ {0} /\ P \in Nat \ {0}
  BY <1>1, <1>2, FirstCluster, DirAssumption
<1>12. at \in 1 .. (Len(s) + 1)
  <2>1. P + 1 \in Nat \ {0}
    BY <1>11
  <2> QED  BY <1>3, <1>11, <2>1, FreeRunIs
<1>13. more \in Nat /\ at + P - Len(s) <= more * PerCluster
  <2>1. PICK z : z = at + (P + 1) - 1 - Len(s)
    OBVIOUS
  <2>2. z \in Int /\ z = at + P - Len(s)
    BY <1>11, <1>12, <2>1
  <2>3. PICK y : y = (z + PerCluster - 1) \div PerCluster
    OBVIOUS
  <2>4. y \in Int /\ z <= y * PerCluster /\ (y <= 0 => z <= 0)
    BY <1>11, <2>2, <2>3, DivUp
  <2>5. more = IF y > 0 THEN y ELSE 0
    BY <1>4, <2>1, <2>3, <2>4, MaxOfTwo
  <2>6. 0 * PerCluster = 0
    BY <1>11
  <2> QED  BY <2>2, <2>4, <2>5, <2>6
<1>14. /\ LastCluster \in Nat /\ nextFree \in Nat /\ nextFree <= LastCluster + 1
       /\ room \in Nat /\ nextFree + room = LastCluster + 1 /\ LastCluster + 1 \in Nat
  BY <1>5, DirAssumption DEF Inv, Clusters
<1>15. c = IF more <= room THEN more ELSE room
  BY <1>6, <1>13, <1>14, MinOfTwo
<1>16. c \in Nat
  BY <1>13, <1>14, <1>15
<1>17. smashed' \in BOOLEAN /\ (Smashes(Searched) => smashed')
  <2>1. Smashes(Searched) \in BOOLEAN
    BY DEF Smashes
  <2>2. smashed' = Smashes(Searched)
        \/ smashed' = (Smashes(Searched) \/ (Names[n].long /\ Len(g) > PerCluster))
    BY <1>8, Zenon
  <2> QED  BY <2>1, <2>2
<1>18. CASE more > room
  <2>1. LongFileNameEntries(g, at, n, short, 0) = g
    <3>1. at .. at + 0 - 1 = {}
      BY <1>12
    <3>2. g = [i \in DOMAIN g |-> g[i]]
      <4>1. IsSeq(s)
        BY <1>11, DirectoryIs
      <4> QED  BY <1>7, <1>16, <4>1, GrownIs, Zenon
    <3>3. [i \in DOMAIN g |-> g[i]] = LongFileNameEntries(g, at, n, short, 0)
      BY <3>1 DEF LongFileNameEntries
    <3> QED  BY <3>2, <3>3, Zenon
  <2>2. 0 \in 0 .. P
    BY <1>11
  <2>3. Extends(g, s, at, n, short, 0, FALSE, LastCluster + 1)
    <3>1. g = LongFileNameEntries(Grown(s, c), at, n, short, 0)
      BY <1>7, <2>1
    <3> QED  BY <1>1, <1>3, <1>11, <1>16, <2>2, <3>1, Written
  <2>4. /\ dirs' = [dirs EXCEPT ![d] = g] /\ nextFree' = LastCluster + 1 /\ last' = None
        /\ born' = born
    BY <1>8, <1>18, Zenon
  <2>5. Creates(d, n, at, short, 0, FALSE, LastCluster + 1)
    <3>1. LastCluster + 1 \in nextFree .. LastCluster + 1
          /\ nextFree' \in LastCluster + 1 .. LastCluster + 1
      BY <1>14, <2>4
    <3> QED  BY <1>2, <1>17, <2>3, <2>4, <3>1, Zenon DEF Creates
  <2> QED  BY <2>5
<1>19. CASE ~ (more > room)
  <2>1. PICK k \in 0 .. (P + 1) :
           /\ dirs' = [dirs EXCEPT ![d] =
                         IF k = (P + 1) /\ start <= LastCluster
                         THEN [LongFileNameEntries(g, at, n, short, Min({k, (P + 1) - 1}))
                                  EXCEPT ![at + k - 1] = FileEntry(short, start, 0)]
                         ELSE LongFileNameEntries(g, at, n, short, Min({k, (P + 1) - 1}))]
           /\ IF k < (P + 1) - 1
              THEN nextFree' = start /\ last' = None /\ UNCHANGED born
              ELSE IF start > LastCluster
              THEN /\ nextFree' = start /\ last' = [dir |-> d, start |-> 0, ok |-> TRUE]
                   /\ UNCHANGED born
              ELSE /\ nextFree' = start + 1
                   /\ last' = IF k = (P + 1) THEN [dir |-> d, start |-> start, ok |-> TRUE] ELSE None
                   /\ born' = IF k = (P + 1) THEN AlsoBorn(start, <<d, n>>) ELSE born
    BY <1>8, <1>19, Zenon
  <2>2. PICK h : h = IF k <= P THEN k ELSE P
    OBVIOUS
  <2>3. Min({k, (P + 1) - 1}) = h /\ h \in 0 .. P
    <3>1. (P + 1) - 1 = P /\ k \in Int /\ P \in Int
      BY <1>11
    <3>2. Min({k, P}) = IF k <= P THEN k ELSE P
      BY <3>1, MinOfTwo
    <3> QED  BY <1>11, <2>2, <3>1, <3>2
  <2>4. PICK whole \in BOOLEAN : whole <=> k = P + 1 /\ start <= LastCluster
    OBVIOUS
  <2>5. PICK w : w = LongFileNameEntries(g, at, n, short, h)
    OBVIOUS
  <2>6. PICK t : t = IF whole THEN [w EXCEPT ![at + h] = FileEntry(short, start, 0)] ELSE w
    OBVIOUS
  <2>7. whole \in BOOLEAN /\ (whole => h = P /\ at + k - 1 = at + h)
    BY <1>11, <1>12, <2>2, <2>4
  <2>8. dirs' = [dirs EXCEPT ![d] = t]
    <3>1. dirs' = [dirs EXCEPT ![d] = IF whole THEN [w EXCEPT ![at + k - 1] = FileEntry(short, start, 0)]
                                      ELSE w]
      <4>1. dirs' = [dirs EXCEPT ![d] = IF k = P + 1 /\ start <= LastCluster
                                        THEN [w EXCEPT ![at + k - 1] = FileEntry(short, start, 0)]
                                        ELSE w]
        <5>1. w = LongFileNameEntries(g, at, n, short, Min({k, (P + 1) - 1}))
          BY <2>3, <2>5, Zenon
        <5> QED  BY <2>1, <5>1, Zenon
      <4>2. CASE whole
        BY <2>4, <4>1, <4>2
      <4>3. CASE ~ whole
        BY <2>4, <4>1, <4>3
      <4> QED  BY <4>2, <4>3
    <3>2. CASE whole
      BY <2>6, <2>7, <3>1, <3>2
    <3>3. CASE ~ whole
      BY <2>6, <3>1, <3>3
    <3> QED  BY <3>2, <3>3
  <2>9. c = more
    BY <1>13, <1>14, <1>15, <1>19
  <2>10. whole => at + h <= Len(s) + (c * PerCluster)
    <3>1. PICK q : q = more * PerCluster
      OBVIOUS
    <3>2. q \in Nat /\ at + P - Len(s) <= q
      BY <1>11, <1>13, <3>1, Product
    <3>3. whole => at + h <= Len(s) + q
      BY <1>11, <1>12, <2>7, <3>2
    <3> QED  BY <2>9, <3>1, <3>3
  <2>11. Extends(t, s, at, n, short, h, whole, start)
    BY <1>1, <1>3, <1>7, <1>11, <1>16, <2>3, <2>5, <2>6, <2>7, <2>10, Written
  <2>12. start \in nextFree .. LastCluster + 1
    BY <1>9, <1>13, <1>14, <1>19
  <2>13. P + 1 - 1 = P /\ k \in Nat /\ (~ (k < P) /\ k # P + 1 => k = P)
    BY <1>11
  <2>14. whole => /\ start <= LastCluster /\ nextFree' = start + 1
                  /\ last' = [dir |-> d, start |-> start, ok |-> TRUE]
                  /\ born' = AlsoBorn(start, <<d, n>>)
    BY <1>11, <1>14, <2>1, <2>4, <2>12
  <2>15. ~ whole => /\ born' = born
                    /\ \/ last' = None
                       \/ last' = [dir |-> d, start |-> 0, ok |-> TRUE] /\ nextFree' = LastCluster + 1
    BY <1>14, <2>1, <2>4, <2>12
  <2>16. nextFree' \in start .. LastCluster + 1
    BY <1>14, <2>1, <2>12
  <2>17. Creates(d, n, at, short, h, whole, start)
    BY <1>2, <1>17, <2>8, <2>11, <2>12, <2>14, <2>15, <2>16 DEF Creates
  <2> QED  BY <2>7, <2>17
<1> QED  BY <1>18, <1>19

(* An entry is replaced by another one with the same short name.           *)
IsReplaced(t, s, m, f) == t = [s EXCEPT ![m] = f]

LEMMA Replaced ==
    ASSUME NEW s, DirectoryOk(s), NEW m \in EntriesOf(s), NEW f, IsEntry(f), f.short = s[m].short,
           NEW t, IsReplaced(t, s, m, f)
    PROVE  /\ DirectoryOk(t) /\ Len(t) = Len(s) /\ DOMAIN t = DOMAIN s
           /\ EntriesOf(t) = EntriesOf(s)
           /\ \A i \in 1 .. Len(s) : Chain(t, i) = Chain(s, i)
           /\ \A i \in 1 .. Len(s) : i # m => t[i] = s[i]
           /\ t[m] = f
<1>1. /\ IsSeq(s) /\ Len(s) \in Nat /\ Len(s) > 0 /\ DOMAIN s = 1 .. Len(s)
      /\ \A i \in 1 .. Len(s) : s[i] = Free \/ IsPiece(s[i]) \/ IsEntry(s[i])
      /\ \A i \in 1 .. Len(s) : i \in EntriesOf(s) <=> IsEntry(s[i])
      /\ EntriesOf(s) \subseteq 1 .. Len(s)
      /\ \A i \in 2 .. Len(s) : s[i] # Free => s[i - 1] # Free
  BY DirectoryIs
<1>2. m \in 1 .. Len(s) /\ IsEntry(s[m])
  BY <1>1
<1>3. t = [i \in 1 .. Len(s) |-> t[i]] /\ DOMAIN t = 1 .. Len(s)
  BY <1>1 DEF IsReplaced
<1>4. IsSeq(t) /\ Len(t) = Len(s)
  BY <1>1, <1>3, FunIsSeq
<1>5. t[m] = f /\ \A i \in 1 .. Len(s) : i # m => t[i] = s[i]
  BY <1>1, <1>2 DEF IsReplaced
<1>6. ASSUME NEW e, IsEntry(e) PROVE e.attr \in {"file", "dir"} /\ e.attr # "lfn" /\ e # Free
  BY <1>6, Kinds DEF IsEntry
<1>7. ASSUME NEW i \in 1 .. Len(s)
      PROVE  /\ t[i] = Free \/ IsPiece(t[i]) \/ IsEntry(t[i])
             /\ t[i] = Free <=> s[i] = Free
             /\ t[i].attr = "lfn" <=> s[i].attr = "lfn"
             /\ t[i].attr = "lfn" => t[i] = s[i]
             /\ t[i].attr \in {"file", "dir"} <=> s[i].attr \in {"file", "dir"}
  <2>1. CASE i = m
    BY <1>2, <1>5, <1>6, <2>1
  <2>2. CASE i # m
    BY <1>1, <1>5, <2>2
  <2> QED  BY <2>1, <2>2
<1>8. EntriesOf(t) = EntriesOf(s)
  BY <1>1, <1>3, <1>7 DEF EntriesOf
<1>9. ASSUME NEW i \in 1 .. Len(s) PROVE Chain(t, i) = Chain(s, i)
  <2>1. \A j \in 1 .. (i - 1) : j \in 1 .. Len(s)
    BY <1>1
  <2>2. i <= Len(t)
    BY <1>1, <1>4
  <2>3. \A j \in 1 .. (i - 1) : /\ s[j].attr = "lfn" <=> t[j].attr = "lfn"
                                /\ s[j].attr = "lfn" => s[j] = t[j]
    BY <1>7, <2>1
  <2>4. Chain(s, i) = Chain(t, i)
    <3>1. IsSeq(s) /\ IsSeq(t)
      BY <1>1, <1>4
    <3> QED  BY <2>2, <2>3, <3>1, ChainSame, Zenon
  <2> QED  BY <2>4
<1>10. IsDirectory(t)
  <2>1. Len(s) % PerCluster = 0
    BY DEF DirectoryOk, IsDirectory
  <2> QED  BY <1>1, <1>3, <1>4, <1>7, <2>1 DEF IsDirectory, IsSeq
<1>11. WellFormed(t)
  <2>1. \A i \in 2 .. Len(t) : t[i] # Free => t[i - 1] # Free
    <3>1. \A i \in 2 .. Len(t) : i \in 1 .. Len(s) /\ i - 1 \in 1 .. Len(s) /\ i \in 2 .. Len(s)
      BY <1>1, <1>4
    <3> QED  BY <1>1, <1>7, <3>1
  <2>2. ASSUME NEW i \in EntriesOf(t), Chain(t, i) # << >> PROVE IsWhole(Chain(t, i), t[i].short)
    <3>1. i \in EntriesOf(s) /\ i \in 1 .. Len(s) /\ Chain(t, i) = Chain(s, i)
      BY <1>1, <1>8, <1>9
    <3>2. t[i].short = s[i].short
      BY <1>5, <3>1
    <3>3. IsWhole(Chain(s, i), s[i].short)
      BY <2>2, <3>1 DEF DirectoryOk, WellFormed
    <3> QED  BY <3>1, <3>2, <3>3
  <2> QED  BY <2>1, <2>2 DEF WellFormed
<1> QED  BY <1>1, <1>3, <1>4, <1>5, <1>8, <1>9, <1>10, <1>11 DEF DirectoryOk

(* What writeFile does with the entry r of a directory and the first entry *)
(* m that has its short name.                                              *)
Updates(d, n, r, m, size) ==
    /\ d \in findDirectory \ {0} /\ n \in FileNames /\ r \in findDirEntry(d, n, "file")
    /\ d \in DOMAIN Dirs0
    /\ r \in EntriesOf(dirs[d]) /\ m \in EntriesOf(dirs[d]) /\ dirs[d][m].short = dirs[d][r].short
    /\ dirs' = [dirs EXCEPT ![d] = [dirs[d] EXCEPT ![m] = [dirs[d][r] EXCEPT !.size = size]]]
    /\ last' = [dir |-> d, start |-> dirs[d][r].start, ok |-> TRUE]

LEMMA WriteStep ==
    ASSUME Inv, NEW size, writeFile(size)
    PROVE  \E d, n, r, m : Updates(d, n, r, m, size)
<1>1. PICK q \in findFile :
         /\ q.pos # 0
         /\ last' = [dir |-> q.dir, start |-> dirs[q.dir][q.pos].start, ok |-> TRUE]
         /\ updateDirectoryEntry(q.dir, dirs[q.dir][q.pos], [dirs[q.dir][q.pos] EXCEPT !.size = size])
  BY DEF writeFile
<1>2. PICK d \in findDirectory \ {0}, n \in FileNames : \E i \in findDirEntry(d, n, "file") :
         q = [dir |-> d, pos |-> i]
  BY <1>1 DEF findFile
<1>3. PICK r \in findDirEntry(d, n, "file") : q = [dir |-> d, pos |-> r]
  BY <1>2
<1>4. r # 0 /\ q.dir = d /\ q.pos = r
  BY <1>1, <1>3
<1>5. d \in DOMAIN Dirs0
  <2>1. pc # "idle"
    BY DEF writeFile
  <2> QED  BY <1>2, <2>1, DirectoryFound
<1>6. r \in EntriesOf(dirs[d]) /\ r \in 1 .. PerCluster
  BY <1>4, <1>5, Found
<1>7. Named(dirs[d]) = EntriesOf(dirs[d]) \cap (1 .. PerCluster) /\ PerCluster \in Nat
  BY <1>5, FirstCluster
<1> DEFINE S == {i \in Named(dirs[d]) : dirs[d][i].short = dirs[d][r].short}
           m == Min(S)
<1>8. m \in S
  <2>1. S \subseteq Nat /\ S # {}
    BY <1>6, <1>7
  <2> HIDE DEF S
  <2> QED  BY <2>1, MinIs
<1>9. dirs' = [dirs EXCEPT ![d][m] = [dirs[d][r] EXCEPT !.size = size]]
  BY <1>1, <1>4 DEF updateDirectoryEntry
<1> HIDE DEF m
<1>10. m \in EntriesOf(dirs[d]) /\ dirs[d][m].short = dirs[d][r].short
  BY <1>7, <1>8
<1>11. dirs' = [dirs EXCEPT ![d] = [dirs[d] EXCEPT ![m] = [dirs[d][r] EXCEPT !.size = size]]]
  BY <1>9, Zenon
<1> QED  BY <1>1, <1>2, <1>4, <1>5, <1>6, <1>10, <1>11 DEF Updates

LEMMA InvInit ==
    ASSUME Init
    PROVE  Inv
<1>1. Disk
  <2>1. \A d \in DOMAIN Dirs0 : DirectoryOk(Dirs0[d])
    BY DirAssumption DEF DirectoryOk
  <2>2. Dirs0 = [d \in DOMAIN Dirs0 |-> Dirs0[d]]
    BY DirAssumption
  <2>3. dirs = Dirs0
    BY DEF Init
  <2> QED  BY <2>1, <2>2, <2>3, Zenon DEF Disk
<1>2. Clusters
  <2>1. nextFree = FirstFree /\ born = << >> /\ dirs = Dirs0
    BY DEF Init
  <2>2. FirstFree \in FirstFree .. LastCluster + 1
    BY DirAssumption
  <2>3. DOMAIN << >> = {}
    OBVIOUS
  <2>4. \A d \in DOMAIN Dirs0 : \A i \in EntriesOf(Dirs0[d]) :
           /\ Dirs0[d][i].start \in 1 .. FirstFree - 1
           /\ Dirs0[d][i].attr = "dir" => Dirs0[d][i].start \in DOMAIN Dirs0
    BY DirAssumption
  <2> QED  BY <2>1, <2>2, <2>3, <2>4 DEF Clusters
<1>3. Calls
  <2>1. 0 \in 0 .. MaxFaults
    BY DirAssumption
  <2>2. pc = "idle" /\ last = None /\ faults = 0
    BY DEF Init
  <2>3. missed \in BOOLEAN /\ smashed \in BOOLEAN
    BY DEF Init
  <2> QED  BY <2>1, <2>2, <2>3 DEF Calls
<1>4. Tracing
  BY DEF Init, TracerInit, Tracing
<1> QED  BY <1>1, <1>2, <1>3, <1>4 DEF Inv

LEMMA CreateKeeps ==
    ASSUME Inv, NEW d \in DOMAIN Dirs0, NEW n, NEW at, NEW short, NEW k, NEW whole \in BOOLEAN,
           NEW start, Creates(d, n, at, short, k, whole, start)
    PROVE  Disk' /\ Clusters'
<1>1. PICK t : Extends(t, dirs[d], at, n, short, k, whole, start) /\ dirs' = [dirs EXCEPT ![d] = t]
  BY DEF Creates
<1>2. DirectoryOk(dirs[d])
  BY FirstCluster
<1>3. DirectoryOk(t)
  BY <1>1, <1>2, ExtendedOk
<1>4. DOMAIN dirs = DOMAIN Dirs0 /\ dirs'[d] = t /\ \A e \in DOMAIN Dirs0 : e # d => dirs'[e] = dirs[e]
  BY <1>1 DEF Inv, Disk
<1>5. Disk'
  <2>1. DOMAIN dirs' = DOMAIN Dirs0 /\ dirs' = [e \in DOMAIN Dirs0 |-> dirs'[e]]
    BY <1>1, <1>4
  <2>2. \A e \in DOMAIN Dirs0 : DirectoryOk(dirs'[e])
    BY <1>3, <1>4 DEF Inv, Disk
  <2> QED  BY <2>1, <2>2 DEF Disk
<1>6. /\ EntriesOf(t) = EntriesOf(dirs[d]) \cup (IF whole THEN {at + k} ELSE {})
      /\ \A i \in EntriesOf(dirs[d]) : t[i] = dirs[d][i]
      /\ whole => t[at + k] = FileEntry(short, start, 0)
  <2>1. /\ IsDirectory(t)
        /\ EntriesOf(t) = EntriesOf(dirs[d]) \cup (IF whole THEN {at + k} ELSE {})
        /\ \A i \in EntriesOf(dirs[d]) : i < at /\ t[i] = dirs[d][i] /\ Chain(t, i) = Chain(dirs[d], i)
        /\ \A i \in 1 .. Len(dirs[d]) : dirs[d][i] # Free => t[i] = dirs[d][i]
        /\ \A i \in 2 .. Len(t) : t[i] # Free => t[i - 1] # Free
        /\ whole => at + k \in 2 .. Len(t) /\ t[at + k] = FileEntry(short, start, 0)
    BY <1>1, <1>2, ExtendedKeeps, ZenonT(40)
  <2> QED  BY <2>1, Zenon
<1>7. /\ nextFree \in FirstFree .. LastCluster + 1
      /\ FirstFree \in Nat \ {0} /\ LastCluster \in Nat
      /\ start \in nextFree .. LastCluster + 1 /\ nextFree' \in start .. LastCluster + 1
      /\ whole => start <= LastCluster /\ nextFree' = start + 1
  BY DirAssumption DEF Creates, Inv, Clusters
<1>8. DOMAIN born' \subseteq FirstFree .. nextFree' - 1
  <2>1. DOMAIN born \subseteq FirstFree .. nextFree - 1
    BY DEF Inv, Clusters
  <2>2. CASE whole
    <3>1. born' = AlsoBorn(start, <<d, n>>)
      BY <2>2 DEF Creates
    <3>2. DOMAIN born' = DOMAIN born \cup {start}
      BY <3>1 DEF AlsoBorn
    <3> QED  BY <1>7, <2>1, <2>2, <3>2
  <2>3. CASE ~ whole
    <3>1. born' = born
      BY <2>3 DEF Creates
    <3> QED  BY <1>7, <2>1, <3>1
  <2> QED  BY <2>2, <2>3
<1>9. ASSUME NEW e \in DOMAIN Dirs0, NEW i \in EntriesOf(dirs'[e])
      PROVE  /\ dirs'[e][i].start \in 1 .. nextFree' - 1
             /\ dirs'[e][i].attr = "dir" => dirs'[e][i].start \in DOMAIN Dirs0
  <2>1. ASSUME NEW c \in DOMAIN Dirs0, NEW j \in EntriesOf(dirs[c])
        PROVE  /\ dirs[c][j].start \in 1 .. nextFree' - 1
               /\ dirs[c][j].attr = "dir" => dirs[c][j].start \in DOMAIN Dirs0
    <3>1. /\ dirs[c][j].start \in 1 .. nextFree - 1
          /\ dirs[c][j].attr = "dir" => dirs[c][j].start \in DOMAIN Dirs0
      BY DEF Inv, Clusters
    <3> QED  BY <1>7, <3>1
  <2>2. CASE e # d
    BY <1>4, <1>9, <2>1, <2>2
  <2>3. CASE e = d /\ i \in EntriesOf(dirs[d])
    BY <1>4, <1>6, <2>1, <2>3
  <2>4. CASE e = d /\ i \notin EntriesOf(dirs[d])
    <3>1. whole /\ i = at + k
      BY <1>4, <1>6, <1>9, <2>4
    <3>2. dirs'[e][i].start = start /\ dirs'[e][i].attr = "file"
      BY <1>4, <1>6, <2>4, <3>1, Kinds
    <3> QED  BY <1>7, <3>1, <3>2
  <2> QED  BY <2>2, <2>3, <2>4
<1>10. nextFree' \in FirstFree .. LastCluster + 1
  BY <1>7
<1>11. Clusters'
  BY <1>8, <1>9, <1>10 DEF Clusters
<1> QED  BY <1>5, <1>11

(* What is new in the directory then.                                      *)
Updated(d, r, m, size) ==
    /\ DOMAIN dirs' = DOMAIN dirs /\ \A e \in DOMAIN Dirs0 : e # d => dirs'[e] = dirs[e]
    /\ Len(dirs'[d]) = Len(dirs[d]) /\ EntriesOf(dirs'[d]) = EntriesOf(dirs[d])
    /\ \A i \in 1 .. Len(dirs[d]) : Chain(dirs'[d], i) = Chain(dirs[d], i)
    /\ \A i \in 1 .. Len(dirs[d]) : i # m => dirs'[d][i] = dirs[d][i]
    /\ dirs'[d][m] = [dirs[d][r] EXCEPT !.size = size]
    /\ dirs'[d][m].short = dirs[d][m].short /\ dirs'[d][m].attr = dirs[d][r].attr
    /\ dirs'[d][m].start = dirs[d][r].start

LEMMA UpdateKeeps ==
    ASSUME Inv, NEW d, NEW n, NEW r, NEW m, NEW size, Updates(d, n, r, m, size),
           UNCHANGED <<nextFree, born>>
    PROVE  Disk' /\ Clusters' /\ Updated(d, r, m, size)
<1>1. PICK t : t = [dirs[d] EXCEPT ![m] = [dirs[d][r] EXCEPT !.size = size]]
  OBVIOUS
<1>2. PICK f : f = [dirs[d][r] EXCEPT !.size = size]
  OBVIOUS
<1>3. /\ d \in DOMAIN Dirs0 /\ r \in EntriesOf(dirs[d]) /\ m \in EntriesOf(dirs[d])
      /\ dirs[d][m].short = dirs[d][r].short /\ dirs' = [dirs EXCEPT ![d] = t]
  BY <1>1 DEF Updates
<1>4. DirectoryOk(dirs[d])
  BY <1>3, FirstCluster
<1>5. IsEntry(dirs[d][r])
  BY <1>3, <1>4, DirectoryIs
<1>6. IsEntry(f) /\ f.attr = dirs[d][r].attr /\ f.short = dirs[d][m].short /\ f.start = dirs[d][r].start
  BY <1>2, <1>3, <1>5, Resized
<1>7. /\ DirectoryOk(t) /\ Len(t) = Len(dirs[d]) /\ EntriesOf(t) = EntriesOf(dirs[d])
      /\ \A i \in 1 .. Len(dirs[d]) : Chain(t, i) = Chain(dirs[d], i)
      /\ \A i \in 1 .. Len(dirs[d]) : i # m => t[i] = dirs[d][i]
      /\ t[m] = f
  <2>1. IsReplaced(t, dirs[d], m, f)
    BY <1>1, <1>2 DEF IsReplaced
  <2>2. PICK s : s = dirs[d]
    OBVIOUS
  <2>3. DirectoryOk(s) /\ m \in EntriesOf(s) /\ IsEntry(f) /\ f.short = s[m].short
    BY <1>3, <1>4, <1>6, <2>2
  <2>4. IsReplaced(t, s, m, f)
    BY <2>1, <2>2
  <2>5. /\ DirectoryOk(t) /\ Len(t) = Len(s) /\ EntriesOf(t) = EntriesOf(s)
        /\ \A i \in 1 .. Len(s) : Chain(t, i) = Chain(s, i)
        /\ \A i \in 1 .. Len(s) : i # m => t[i] = s[i]
        /\ t[m] = f
    BY <2>3, <2>4, Replaced
  <2> QED  BY <2>2, <2>5
<1>8. DOMAIN dirs = DOMAIN Dirs0 /\ dirs'[d] = t /\ \A e \in DOMAIN Dirs0 : e # d => dirs'[e] = dirs[e]
  BY <1>3 DEF Inv, Disk
<1>9. DOMAIN dirs' = DOMAIN Dirs0 /\ dirs' = [e \in DOMAIN Dirs0 |-> dirs'[e]]
  BY <1>3, <1>8
<1>10. Disk'
  <2>1. \A e \in DOMAIN Dirs0 : DirectoryOk(dirs'[e])
    BY <1>7, <1>8 DEF Inv, Disk
  <2> QED  BY <1>9, <2>1 DEF Disk
<1>11. Clusters'
  <2>1. ASSUME NEW e \in DOMAIN Dirs0, NEW i \in EntriesOf(dirs'[e])
        PROVE  /\ dirs'[e][i].start \in 1 .. nextFree - 1
               /\ dirs'[e][i].attr = "dir" => dirs'[e][i].start \in DOMAIN Dirs0
    <3>1. ASSUME NEW c \in DOMAIN Dirs0, NEW j \in EntriesOf(dirs[c])
          PROVE  /\ dirs[c][j].start \in 1 .. nextFree - 1
                 /\ dirs[c][j].attr = "dir" => dirs[c][j].start \in DOMAIN Dirs0
      BY DEF Inv, Clusters
    <3>2. CASE e # d
      BY <1>8, <2>1, <3>1, <3>2
    <3>3. CASE e = d /\ i # m
      <4>1. EntriesOf(dirs[d]) \subseteq 1 .. Len(dirs[d])
        BY <1>4, DirectoryIs
      <4>2. i \in EntriesOf(dirs[d]) /\ dirs'[e][i] = dirs[d][i]
        BY <1>7, <1>8, <2>1, <3>3, <4>1
      <4> QED  BY <1>3, <3>1, <4>2
    <3>4. CASE e = d /\ i = m
      BY <1>3, <1>6, <1>7, <1>8, <3>1, <3>4
    <3> QED  BY <3>2, <3>3, <3>4
  <2> QED  BY <2>1 DEF Inv, Clusters
<1>12. dirs'[d][m].short = dirs[d][m].short /\ dirs'[d][m].attr = dirs[d][r].attr
       /\ dirs'[d][m].start = dirs[d][r].start /\ dirs'[d][m] = f
  BY <1>6, <1>7, <1>8
<1>13. Updated(d, r, m, size)
  BY <1>2, <1>7, <1>8, <1>9, <1>12 DEF Updated
<1> QED  BY <1>10, <1>11, <1>13

LEMMA OpenCreateStep ==
    ASSUME Inv, openCreate
    PROVE  \E d \in findDirectory \ {0}, n \in FileNames : \E whole \in BOOLEAN :
              \E at, short, k, start :
                 /\ d \in DOMAIN Dirs0 /\ n \in DOMAIN Names
                 /\ Creates(d, n, at, short, k, whole, start)
                 /\ missed' = (missed \/ Names[n].full \/ findDirEntry(d, n, "file") # {0}
                                                       \/ findDirEntry(d, n, "dir") # {0})
<1>1. PICK d \in findDirectory \ {0}, n \in FileNames :
         /\ createFatFileInDir(d, n)
         /\ missed' = (missed \/ Names[n].full \/ findDirEntry(d, n, "file") # {0}
                                               \/ findDirEntry(d, n, "dir") # {0})
  BY DEF openCreate
<1>2. pc # "idle"
  BY DEF openCreate
<1>3. d \in DOMAIN Dirs0
  BY <1>1, <1>2, DirectoryFound
<1>4. PICK path \in Paths : IsTracer(tracer, live, path)
  BY <1>2 DEF Inv, Tracing
<1>5. n \in DOMAIN Names
  <2> DEFINE m == Len(path)
             l == (m + 1) \div 2
  <2>1. /\ m \in Nat /\ \A k \in 1 .. l : tracer.parts[k].name \in DOMAIN Names
        /\ FileNames = IF m % 2 = 1 THEN {tracer.parts[l].name} ELSE {}
    BY <1>4, TracedIs
  <2>2. m % 2 = 1 /\ n = tracer.parts[l].name
    BY <2>1
  <2>3. l \in 1 .. l
    BY <2>1, <2>2
  <2> QED  BY <2>1, <2>2, <2>3
<1>6. PICK at, short, k, start : \E whole \in BOOLEAN : Creates(d, n, at, short, k, whole, start)
  BY <1>1, <1>3, <1>5, CreateStep
<1>7. PICK whole \in BOOLEAN : Creates(d, n, at, short, k, whole, start)
  BY <1>6
<1> QED  BY <1>1, <1>3, <1>5, <1>7

LEMMA SameTracing ==
    ASSUME Tracing, pc # "idle", pc' # "idle", UNCHANGED <<tracer, live>>
    PROVE  Tracing'
BY DEF Tracing

LEMMA InvNext ==
    ASSUME Inv, [Next]_vars
    PROVE  Inv'
<1>1. ASSUME UNCHANGED vars PROVE Inv'
  BY <1>1 DEF vars, Inv, Disk, Clusters, Calls, Tracing
<1>2. ASSUME NEW path \in Paths, Trace(path) PROVE Inv'
  <2>1. UNCHANGED <<dirs, nextFree, last, born, faults, missed, smashed>> /\ pc' = "traced"
        /\ pc = "idle" /\ createPathTracer(path)
    BY <1>2 DEF Trace
  <2>2. IsTracer(tracer', live', path)
    BY <2>1, Created
  <2>3. Tracing'
    BY <2>1, <2>2 DEF Tracing
  <2>4. Disk' /\ Clusters'
    BY <2>1 DEF Inv, Disk, Clusters
  <2>5. Calls'
    BY <2>1 DEF Inv, Calls
  <2> QED  BY <2>3, <2>4, <2>5 DEF Inv
<1>3. ASSUME Release PROVE Inv'
  <2>1. /\ UNCHANGED <<dirs, nextFree, born, faults, missed, smashed>>
        /\ pc' = "idle" /\ last' = None /\ pc # "idle" /\ destroyPathTracer
    BY <1>3 DEF Release
  <2>2. tracer' = NoTracer /\ live' = {}
    BY <2>1, Destroyed DEF Inv
  <2>3. Tracing'
    BY <2>1, <2>2 DEF Tracing
  <2>4. Disk' /\ Clusters'
    BY <2>1 DEF Inv, Disk, Clusters
  <2>5. Calls'
    BY <2>1 DEF Inv, Calls
  <2> QED  BY <2>3, <2>4, <2>5 DEF Inv
<1>4. ASSUME openFound \/ openRefused PROVE Inv'
  <2>1. /\ UNCHANGED <<tracer, live, dirs, nextFree, born, faults, missed>>
        /\ pc = "traced" /\ pc' = "done" /\ smashed' = Smashes(Searched)
    BY <1>4 DEF openFound, openRefused
  <2>2. smashed' \in BOOLEAN
    BY <2>1 DEF Smashes
  <2>3. Tracing'
    BY <2>1, SameTracing DEF Inv
  <2>4. Disk' /\ Clusters'
    BY <2>1 DEF Inv, Disk, Clusters
  <2>5. Calls'
    BY <2>1, <2>2 DEF Inv, Calls
  <2> QED  BY <2>3, <2>4, <2>5 DEF Inv
<1>5. ASSUME openCreate PROVE Inv'
  <2>1. PICK d \in findDirectory \ {0}, n \in FileNames, whole \in BOOLEAN :
              \E at, short, k, start :
                 /\ d \in DOMAIN Dirs0 /\ n \in DOMAIN Names
                 /\ Creates(d, n, at, short, k, whole, start)
                 /\ missed' = (missed \/ Names[n].full \/ findDirEntry(d, n, "file") # {0}
                                                       \/ findDirEntry(d, n, "dir") # {0})
    BY <1>5, OpenCreateStep
  <2>2. Disk' /\ Clusters'
    BY <2>1, CreateKeeps
  <2>3. smashed' \in BOOLEAN
    BY <2>1 DEF Creates
  <2>4. missed' \in BOOLEAN
    <3>1. missed' = (missed \/ Names[n].full \/ findDirEntry(d, n, "file") # {0}
                                             \/ findDirEntry(d, n, "dir") # {0})
      BY <2>1
    <3> QED  BY <3>1
  <2>5. pc = "traced" /\ pc' = "done" /\ UNCHANGED <<tracer, live>>
        /\ faults' = faults + (IF last'.ok THEN 0 ELSE 1) /\ faults' <= MaxFaults
    BY <1>5 DEF openCreate
  <2>6. faults' \in 0 .. MaxFaults
    BY <2>5, DirAssumption DEF Inv, Calls
  <2>7. Tracing'
    BY <2>5, SameTracing DEF Inv
  <2>8. Calls'
    BY <2>3, <2>4, <2>5, <2>6 DEF Calls
  <2> QED  BY <2>2, <2>7, <2>8 DEF Inv
<1>6. ASSUME NEW size \in 1 .. MaxSize, writeFile(size) PROVE Inv'
  <2>1. /\ UNCHANGED <<tracer, live, nextFree, born, faults, missed>>
        /\ pc = "traced" /\ pc' = "done" /\ smashed' = Smashes(Searched)
    BY <1>6 DEF writeFile
  <2>2. PICK d, n, r, m : Updates(d, n, r, m, size)
    BY <1>6, WriteStep
  <2>3. Disk' /\ Clusters'
    <3>1. UNCHANGED <<nextFree, born>>
      BY <2>1
    <3> QED  BY <2>2, <3>1, UpdateKeeps
  <2>4. smashed' \in BOOLEAN
    BY <2>1 DEF Smashes
  <2>5. Tracing'
    BY <2>1, SameTracing DEF Inv
  <2>6. Calls'
    BY <2>1, <2>4 DEF Inv, Calls
  <2> QED  BY <2>3, <2>5, <2>6 DEF Inv
<1> QED  BY <1>1, <1>2, <1>3, <1>4, <1>5, <1>6 DEF Next

LEMMA InvAlways == Spec => []Inv
<1>1. Init => Inv
  BY InvInit
<1>2. Inv /\ [Next]_vars => Inv'
  BY InvNext
<1> QED  BY <1>1, <1>2, PTL DEF Spec

(* Directories stay readable after every call, the failed ones too: used   *)
(* entries are a prefix and every entry behind pieces has all the pieces   *)
(* of its name before it (fat32.c, createFatFileInDir,                     *)
(* getFreeDirEntriesAddresses, updateDirectoryEntry).                      *)
THEOREM DirectoriesStayReadable == Spec => []DirInv
<1>1. Inv => DirInv
  BY InvIsDirInv
<1> QED  BY <1>1, InvAlways, PTL

(* A tracer is the path it was made of, and ends with all of its parts     *)
(* freed once (pathTracer.c, createPathTracer, destroyPathTracer).         *)
THEOREM TracersComeApart == Spec => []TracerInv
<1>1. Inv => TracerInv
  BY TracingOk DEF Inv
<1> QED  BY <1>1, InvAlways, PTL

-----------------------------------------------------------------------------
(* A search finds a name that is in the first cluster, unless the name     *)
(* fills its last piece.                                                   *)
LEMMA FoundIfThere ==
    ASSUME Inv, NEW d \in DOMAIN Dirs0, Len(dirs[d]) <= PerCluster, NEW n \in DOMAIN Names,
           ~ Names[n].full, NEW j \in EntriesOf(dirs[d]), Chain(dirs[d], j) # << >>,
           Last(Chain(dirs[d], j)).name = n
    PROVE  dirs[d][j].attr \in {"file", "dir"} /\ findDirEntry(d, n, dirs[d][j].attr) # {0}
<1>1. PICK s : s = dirs[d]
  OBVIOUS
<1>2. PICK attr : attr = s[j].attr
  OBVIOUS
<1>3. DirectoryOk(s) /\ Named(s) = EntriesOf(s) \cap (1 .. PerCluster) /\ PerCluster \in Nat
  BY <1>1, FirstCluster
<1>4. /\ IsSeq(s) /\ Len(s) \in Nat /\ DOMAIN s = 1 .. Len(s)
      /\ EntriesOf(s) \subseteq 1 .. Len(s)
      /\ \A i \in 1 .. Len(s) : i \in EntriesOf(s) <=> IsEntry(s[i])
  BY <1>3, DirectoryIs
<1>5. j \in EntriesOf(s) /\ j \in 1 .. Len(s) /\ j \in 1 .. PerCluster /\ Len(s) <= PerCluster
  BY <1>1, <1>3, <1>4
<1>6. attr \in {"file", "dir"} /\ s[j] # Free
  BY <1>2, <1>5, Kinds DEF EntriesOf
<1>7. \A i \in 1 .. j : s[i] # Free
  <2> SUFFICES ASSUME NEW i \in 1 .. j, s[i] = Free PROVE FALSE
    OBVIOUS
  <2>1. i \in 1 .. Len(s) /\ j \in i .. Len(s)
    BY <1>4, <1>5
  <2> QED  BY <1>3, <1>6, <2>1, FreeStays
<1> DEFINE seen == {i \in Named(s) : \A l \in 1 .. i : s[l] # Free}
           W == {i \in seen : MayStop(s, i, n, attr)}
<1>8. j \in W
  <2>1. IsWhole(Chain(s, j), s[j].short)
    BY <1>1, <1>3, <1>5 DEF DirectoryOk, WellFormed
  <2>2. /\ Spells(Chain(s, j), n)
        /\ \A k \in 1 .. Names[n].pieces : Chain(s, j)[Len(Chain(s, j)) + 1 - k].sum = s[j].short
    BY <1>1, <2>1 DEF IsWhole
  <2>3. Last(Chain(s, j)).sum = s[j].short
    <3>1. 1 \in 1 .. Names[n].pieces
      BY DirAssumption
    <3>2. Len(Chain(s, j)) \in Nat
      BY <1>4, <1>5, ChainIs
    <3>3. Len(Chain(s, j)) + 1 - 1 = Len(Chain(s, j))
      BY <3>2
    <3> QED  BY <2>2, <3>1, <3>3 DEF Last
  <2>4. MayStop(s, j, n, attr)
    BY <1>1, <1>2, <2>2, <2>3 DEF MayStop
  <2> QED  BY <1>3, <1>5, <1>7, <2>4
<1>9. W \subseteq Nat
  BY <1>3
<1>10. PICK x \in W : \A y \in W : x <= y
  <2> HIDE DEF W
  <2> QED  BY <1>8, <1>9, Least
<1>11. \A y \in seen : y < x => MayPass(s, y, n, attr)
  <2> SUFFICES ASSUME NEW y \in seen, y < x, MayStop(s, y, n, attr) PROVE FALSE
    BY DEF MayPass
  <2>1. y \in W /\ y \in Nat /\ x \in Nat
    BY <1>3, <1>9
  <2> QED  BY <1>10, <2>1
<1>12. x \in findDirEntry(d, n, attr) /\ x # 0
  <2>1. x \in 1 .. PerCluster
    BY <1>3
  <2>2. findDirEntry(d, n, attr) = {0} \cup {i \in seen : /\ MayStop(s, i, n, attr)
                                                          /\ \A y \in seen : y < i => MayPass(s, y, n, attr)}
    BY <1>1 DEF findDirEntry
  <2>3. x \in seen /\ MayStop(s, x, n, attr)
    OBVIOUS
  <2> HIDE DEF seen, W
  <2>4. x \in findDirEntry(d, n, attr)
    BY <1>11, <2>2, <2>3
  <2> QED  BY <2>1, <2>4
<1> QED  BY <1>1, <1>2, <1>6, <1>12

(* A name that no entry has can be added.                                  *)
LEMMA NameAdded ==
    ASSUME NEW s, DirectoryOk(s), NamesDiffer(s), NEW t, NEW at, NEW n, NEW short, NEW k,
           NEW whole \in BOOLEAN, NEW start, Extends(t, s, at, n, short, k, whole, start),
           whole => \A j \in EntriesOf(s) : Chain(s, j) # << >> => Last(Chain(s, j)).name # n
    PROVE  NamesDiffer(t)
<1>1. /\ EntriesOf(t) = EntriesOf(s) \cup (IF whole THEN {at + k} ELSE {})
      /\ \A i \in EntriesOf(s) : Chain(t, i) = Chain(s, i)
  <2>1. /\ IsDirectory(t)
        /\ EntriesOf(t) = EntriesOf(s) \cup (IF whole THEN {at + k} ELSE {})
        /\ \A i \in EntriesOf(s) : i < at /\ t[i] = s[i] /\ Chain(t, i) = Chain(s, i)
        /\ \A i \in 1 .. Len(s) : s[i] # Free => t[i] = s[i]
        /\ \A i \in 2 .. Len(t) : t[i] # Free => t[i - 1] # Free
        /\ whole => at + k \in 2 .. Len(t) /\ t[at + k] = FileEntry(short, start, 0)
    BY ExtendedKeeps, Zenon
  <2> QED  BY <2>1, Zenon
<1>2. whole => Last(Chain(t, at + k)).name = n
  <2> SUFFICES ASSUME whole PROVE Last(Chain(t, at + k)).name = n
    OBVIOUS
  <2>1. Extends(t, s, at, n, short, k, TRUE, start)
    OBVIOUS
  <2>2. LET chain == Chain(t, at + k) IN
        chain # << >> /\ Last(chain).name = n /\ IsWhole(chain, short)
    BY <2>1, NewIsWhole
  <2> QED  BY <2>2, Zenon
<1>3. ASSUME NEW i \in EntriesOf(t), NEW j \in EntriesOf(t),
             Chain(t, i) # << >>, Chain(t, j) # << >>,
             Last(Chain(t, i)).name = Last(Chain(t, j)).name
      PROVE  i = j
  <2>1. CASE i \in EntriesOf(s) /\ j \in EntriesOf(s)
    BY <1>1, <1>3, <2>1 DEF NamesDiffer
  <2>2. CASE i \in EntriesOf(s) /\ j \notin EntriesOf(s)
    <3>1. whole /\ j = at + k
      BY <1>1, <2>2
    <3> QED  BY <1>1, <1>2, <1>3, <2>2, <3>1
  <2>3. CASE i \notin EntriesOf(s) /\ j \in EntriesOf(s)
    <3>1. whole /\ i = at + k
      BY <1>1, <2>3
    <3> QED  BY <1>1, <1>2, <1>3, <2>3, <3>1
  <2>4. CASE i \notin EntriesOf(s) /\ j \notin EntriesOf(s)
    BY <1>1, <2>4
  <2> QED  BY <2>1, <2>2, <2>3, <2>4
<1> QED  BY <1>3 DEF NamesDiffer

(* A path that is open was not opened behind an overrun of the buffer, and *)
(* then no two entries have one name.                                      *)
NamesInv == Inv /\ (pc = "traced" => ~ smashed) /\ OneEntryPerName

LEMMA NamesInit ==
    ASSUME Init
    PROVE  NamesInv
<1>1. Inv /\ pc = "idle" /\ dirs = Dirs0
  BY InvInit DEF Init
<1>2. \A d \in DOMAIN Dirs0 : NamesDiffer(Dirs0[d])
  BY DirAssumption
<1> QED  BY <1>1, <1>2 DEF NamesInv, OneEntryPerName

LEMMA NamesNext ==
    ASSUME NamesInv, [Next]_vars
    PROVE  NamesInv'
<1>1. Inv /\ Inv'
  BY InvNext DEF NamesInv
<1>2. ASSUME UNCHANGED vars PROVE NamesInv'
  BY <1>1, <1>2 DEF NamesInv, vars, OneEntryPerName
<1>3. ASSUME NEW path \in Paths, Trace(path) PROVE NamesInv'
  BY <1>1, <1>3 DEF NamesInv, Trace, OneEntryPerName
<1>4. ASSUME Release PROVE NamesInv'
  BY <1>1, <1>4 DEF NamesInv, Release, OneEntryPerName
<1>5. ASSUME openFound \/ openRefused PROVE NamesInv'
  <2>1. pc = "traced" /\ pc' = "done" /\ dirs' = dirs /\ missed' = missed
    BY <1>5 DEF openFound, openRefused
  <2> QED  BY <1>1, <2>1 DEF NamesInv, OneEntryPerName
<1>6. ASSUME openCreate PROVE NamesInv'
  <2>1. PICK d \in findDirectory \ {0}, n \in FileNames, whole \in BOOLEAN :
              \E at, short, k, start :
                 /\ d \in DOMAIN Dirs0 /\ n \in DOMAIN Names
                 /\ Creates(d, n, at, short, k, whole, start)
                 /\ missed' = (missed \/ Names[n].full \/ findDirEntry(d, n, "file") # {0}
                                                       \/ findDirEntry(d, n, "dir") # {0})
    BY <1>1, <1>6, OpenCreateStep
  <2>2. pc = "traced" /\ pc' = "done"
    BY <1>6 DEF openCreate
  <2>3. ASSUME ~ missed', ~ smashed' PROVE \A e \in DOMAIN dirs' : NamesDiffer(dirs'[e])
    <3>1. /\ ~ missed /\ ~ Names[n].full
          /\ findDirEntry(d, n, "file") = {0} /\ findDirEntry(d, n, "dir") = {0}
      BY <2>1, <2>3
    <3>2. \A e \in DOMAIN dirs : NamesDiffer(dirs[e])
      BY <2>2, <3>1 DEF NamesInv, OneEntryPerName
    <3>3. ~ Smashes(Searched)
      BY <2>1, <2>3 DEF Creates
    <3>4. Len(dirs[d]) <= PerCluster
      <4>1. d \in Searched \ {0}
        BY DEF Searched
      <4>2. ~ (Len(dirs[d]) > PerCluster)
        BY <3>3, <4>1 DEF Smashes
      <4>3. Len(dirs[d]) \in Nat /\ PerCluster \in Nat
        BY <1>1, <2>1, FirstCluster
      <4> QED  BY <4>2, <4>3
    <3>5. ASSUME NEW j \in EntriesOf(dirs[d]), Chain(dirs[d], j) # << >>
          PROVE  Last(Chain(dirs[d], j)).name # n
      <4> SUFFICES ASSUME Last(Chain(dirs[d], j)).name = n PROVE FALSE
        OBVIOUS
      <4>1. dirs[d][j].attr \in {"file", "dir"} /\ findDirEntry(d, n, dirs[d][j].attr) # {0}
        BY <1>1, <2>1, <3>1, <3>4, <3>5, FoundIfThere
      <4> QED  BY <3>1, <4>1
    <3>6. PICK at, short, k, start, t :
             Extends(t, dirs[d], at, n, short, k, whole, start) /\ dirs' = [dirs EXCEPT ![d] = t]
      BY <2>1 DEF Creates
    <3>7. DOMAIN dirs = DOMAIN Dirs0 /\ d \in DOMAIN dirs
      BY <1>1, <2>1 DEF Inv, Disk
    <3>8. NamesDiffer(t)
      <4>1. DirectoryOk(dirs[d]) /\ NamesDiffer(dirs[d])
        BY <1>1, <2>1, <3>2, <3>7, FirstCluster
      <4>2. Extends(t, dirs[d], at, n, short, k, whole, start)
        BY <3>6
      <4> QED  BY <3>5, <4>1, <4>2, NameAdded
    <3> QED  BY <3>2, <3>6, <3>7, <3>8
  <2> QED  BY <1>1, <2>2, <2>3 DEF NamesInv, OneEntryPerName
<1>7. ASSUME NEW size \in 1 .. MaxSize, writeFile(size) PROVE NamesInv'
  <2>1. pc = "traced" /\ pc' = "done" /\ missed' = missed /\ UNCHANGED <<nextFree, born>>
    BY <1>7 DEF writeFile
  <2>2. PICK d, n, r, m : Updates(d, n, r, m, size)
    BY <1>1, <1>7, WriteStep
  <2>3. /\ DOMAIN dirs' = DOMAIN dirs
        /\ \A e \in DOMAIN Dirs0 : e # d => dirs'[e] = dirs[e]
        /\ EntriesOf(dirs'[d]) = EntriesOf(dirs[d])
        /\ \A i \in 1 .. Len(dirs[d]) : Chain(dirs'[d], i) = Chain(dirs[d], i)
    <3>1. UNCHANGED <<nextFree, born>>
      BY <2>1
    <3>2. Updated(d, r, m, size)
      BY <1>1, <2>2, <3>1, UpdateKeeps
    <3> QED  BY <3>2, Zenon DEF Updated
  <2>4. d \in DOMAIN Dirs0 /\ DOMAIN dirs = DOMAIN Dirs0
    BY <1>1, <2>2 DEF Updates, Inv, Disk
  <2>5. ASSUME ~ missed' PROVE \A e \in DOMAIN dirs' : NamesDiffer(dirs'[e])
    <3>1. \A e \in DOMAIN dirs : NamesDiffer(dirs[e])
      BY <2>1, <2>5 DEF NamesInv, OneEntryPerName
    <3>2. EntriesOf(dirs[d]) \subseteq 1 .. Len(dirs[d])
      <4>1. DirectoryOk(dirs[d])
        BY <1>1, <2>4, FirstCluster
      <4> QED  BY <4>1, DirectoryIs
    <3>3. NamesDiffer(dirs'[d])
      BY <2>3, <2>4, <3>1, <3>2 DEF NamesDiffer
    <3> QED  BY <2>3, <2>4, <3>1, <3>3
  <2> QED  BY <1>1, <2>1, <2>5 DEF NamesInv, OneEntryPerName
<1> QED  BY <1>2, <1>3, <1>4, <1>5, <1>6, <1>7 DEF Next

(* No directory gets two entries of one long name, unless a search has     *)
(* overlooked the first (fat32.c, openFile, findDirEntry).                 *)
THEOREM NamesStayUnique == Spec => []OneEntryPerName
<1>1. Init => NamesInv
  BY NamesInit
<1>2. NamesInv /\ [Next]_vars => NamesInv'
  BY NamesNext
<1>3. NamesInv => OneEntryPerName
  BY DEF NamesInv
<1> QED  BY <1>1, <1>2, <1>3, PTL DEF Spec

-----------------------------------------------------------------------------
(* What is new in a directory a file is created in.                        *)
Added(d, n, p, short, whole, start) ==
    /\ DOMAIN dirs' = DOMAIN Dirs0 /\ DOMAIN dirs = DOMAIN Dirs0
    /\ \A e \in DOMAIN Dirs0 : e # d => dirs'[e] = dirs[e]
    /\ EntriesOf(dirs'[d]) = EntriesOf(dirs[d]) \cup (IF whole THEN {p} ELSE {})
    /\ \A i \in EntriesOf(dirs[d]) :
          dirs'[d][i] = dirs[d][i] /\ Chain(dirs'[d], i) = Chain(dirs[d], i)
    /\ \A i \in 1 .. Len(dirs[d]) : dirs[d][i] # Free => dirs'[d][i] = dirs[d][i]
    /\ whole => /\ dirs'[d][p] = FileEntry(short, start, 0)
                /\ Chain(dirs'[d], p) # << >> /\ Last(Chain(dirs'[d], p)).name = n

LEMMA CreateIs ==
    ASSUME Inv, NEW d \in DOMAIN Dirs0, NEW n, NEW at, NEW short, NEW k, NEW whole \in BOOLEAN,
           NEW start, Creates(d, n, at, short, k, whole, start)
    PROVE  Added(d, n, at + k, short, whole, start)
<1>1. PICK t : Extends(t, dirs[d], at, n, short, k, whole, start) /\ dirs' = [dirs EXCEPT ![d] = t]
  BY DEF Creates
<1>2. DirectoryOk(dirs[d])
  BY FirstCluster
<1>3. DOMAIN dirs = DOMAIN Dirs0 /\ dirs'[d] = t /\ DOMAIN dirs' = DOMAIN Dirs0
      /\ \A e \in DOMAIN Dirs0 : e # d => dirs'[e] = dirs[e]
  BY <1>1 DEF Inv, Disk
<1>4. /\ IsDirectory(t)
      /\ EntriesOf(t) = EntriesOf(dirs[d]) \cup (IF whole THEN {at + k} ELSE {})
      /\ \A i \in EntriesOf(dirs[d]) : i < at /\ t[i] = dirs[d][i] /\ Chain(t, i) = Chain(dirs[d], i)
      /\ \A i \in 1 .. Len(dirs[d]) : dirs[d][i] # Free => t[i] = dirs[d][i]
      /\ \A i \in 2 .. Len(t) : t[i] # Free => t[i - 1] # Free
      /\ whole => at + k \in 2 .. Len(t) /\ t[at + k] = FileEntry(short, start, 0)
  BY <1>1, <1>2, ExtendedKeeps, ZenonT(40)
<1>5. whole => Chain(t, at + k) # << >> /\ Last(Chain(t, at + k)).name = n
  <2> SUFFICES ASSUME whole PROVE Chain(t, at + k) # << >> /\ Last(Chain(t, at + k)).name = n
    OBVIOUS
  <2>1. PICK s : s = dirs[d]
    OBVIOUS
  <2>2. Extends(t, s, at, n, short, k, TRUE, start)
    BY <1>1, <2>1
  <2>3. LET chain == Chain(t, at + k) IN
        chain # << >> /\ Last(chain).name = n /\ IsWhole(chain, short)
    BY <1>2, <2>1, <2>2, NewIsWhole
  <2> QED  BY <2>3, Zenon
<1> QED  BY <1>3, <1>4, <1>5 DEF Added

(* Short names do not change, so that they differed before if they differ. *)
LEMMA StaysDistinct ==
    ASSUME Inv, NEW d \in DOMAIN Dirs0, EntriesOf(dirs[d]) \subseteq EntriesOf(dirs'[d]),
           \A i \in EntriesOf(dirs[d]) : dirs'[d][i].short = dirs[d][i].short, DistinctShort(d)'
    PROVE  DistinctShort(d)
BY DEF DistinctShort, Entries

(* No directory has the short name of a file that is asked for.            *)
FilesOf == {path[Len(path)] : path \in Paths \ {<< >>}} \cap DOMAIN Names

DirsApart ==
    \A d \in DOMAIN Dirs0 : \A i \in EntriesOf(dirs[d]) : \A n \in FilesOf :
        dirs[d][i].attr = "dir" /\ Names[n].plain => dirs[d][i].short # <<Names[n].stem, 0>>

LEMMA FileNamesIn ==
    ASSUME Inv, pc # "idle"
    PROVE  FileNames \subseteq FilesOf
<1>1. PICK path \in Paths : IsTracer(tracer, live, path)
  BY DEF Inv, Tracing
<1> DEFINE m == Len(path)
           l == (m + 1) \div 2
<1>2. /\ m \in Nat /\ \A k \in 1 .. l : tracer.parts[k].name \in DOMAIN Names
      /\ FileNames = IF m % 2 = 1 THEN {tracer.parts[l].name} ELSE {}
  BY <1>1, TracedIs
<1>3. CASE m % 2 = 1
  <2>1. l \in 1 .. l /\ 2 * l - 1 = m /\ path # << >>
    BY <1>2, <1>3
  <2>2. tracer.parts[l].name = path[m]
    BY <1>1, <2>1 DEF IsTracer, PartsOf
  <2> QED  BY <1>2, <1>3, <2>1, <2>2 DEF FilesOf
<1>4. CASE m % 2 # 1
  BY <1>2, <1>4
<1> QED  BY <1>3, <1>4

(* What a search for a file stops at is a file.                            *)
LEMMA FoundIsFile ==
    ASSUME Inv, DirsApart, pc # "idle", NEW d \in DOMAIN Dirs0, NEW n \in FileNames,
           NEW r \in EntriesOf(dirs[d]), MayStop(dirs[d], r, n, "file")
    PROVE  dirs[d][r].attr = "file"
<1>1. n \in FilesOf
  BY FileNamesIn
<1>2. dirs[d][r].attr \in {"file", "dir"}
  BY DEF EntriesOf
<1>3. CASE Chain(dirs[d], r) = << >>
  BY <1>1, <1>2, <1>3 DEF MayStop, IsShort, DirsApart
<1>4. CASE Chain(dirs[d], r) # << >>
  BY <1>4 DEF MayStop
<1> QED  BY <1>3, <1>4

LEMMA ApartInit ==
    ASSUME Init, FilesHaveOtherNames
    PROVE  DirsApart
<1>1. dirs = Dirs0
  BY DEF Init
<1> QED  BY <1>1 DEF FilesHaveOtherNames, DirsApart, FilesOf, IsShort

LEMMA ApartNext ==
    ASSUME Inv, DirsApart, [Next]_vars
    PROVE  DirsApart'
<1>1. ASSUME UNCHANGED dirs PROVE DirsApart'
  BY <1>1 DEF DirsApart
<1>2. ASSUME openCreate PROVE DirsApart'
  <2>1. PICK d \in findDirectory \ {0}, n \in FileNames, whole \in BOOLEAN :
              \E at, short, k, start :
                 /\ d \in DOMAIN Dirs0 /\ n \in DOMAIN Names
                 /\ Creates(d, n, at, short, k, whole, start)
                 /\ missed' = (missed \/ Names[n].full \/ findDirEntry(d, n, "file") # {0}
                                                       \/ findDirEntry(d, n, "dir") # {0})
    BY <1>2, OpenCreateStep
  <2>2. PICK p, short, start : Added(d, n, p, short, whole, start)
    BY <2>1, CreateIs
  <2>3. /\ \A e \in DOMAIN Dirs0 : e # d => dirs'[e] = dirs[e]
        /\ EntriesOf(dirs'[d]) = EntriesOf(dirs[d]) \cup (IF whole THEN {p} ELSE {})
        /\ \A i \in EntriesOf(dirs[d]) : dirs'[d][i] = dirs[d][i]
        /\ whole => dirs'[d][p] = FileEntry(short, start, 0)
    BY <2>2 DEF Added
  <2>4. ASSUME NEW e \in DOMAIN Dirs0, NEW i \in EntriesOf(dirs'[e]), dirs'[e][i].attr = "dir"
        PROVE  i \in EntriesOf(dirs[e]) /\ dirs'[e][i] = dirs[e][i]
    <3>1. CASE e # d
      BY <2>3, <2>4, <3>1
    <3>2. CASE e = d /\ i \in EntriesOf(dirs[d])
      BY <2>3, <3>2
    <3>3. CASE e = d /\ i \notin EntriesOf(dirs[d])
      <4>1. whole /\ i = p
        BY <2>3, <2>4, <3>3
      <4>2. dirs'[d][i].attr = "file"
        BY <2>3, <4>1, Kinds
      <4> QED  BY <2>4, <3>3, <4>2
    <3> QED  BY <3>1, <3>2, <3>3
  <2> QED  BY <2>4 DEF DirsApart
<1>3. ASSUME NEW size, writeFile(size) PROVE DirsApart'
  <2>1. PICK d, n, r, m : Updates(d, n, r, m, size)
    BY <1>3, WriteStep
  <2>2. Updated(d, r, m, size)
    <3>1. UNCHANGED <<nextFree, born>>
      BY <1>3 DEF writeFile
    <3> QED  BY <2>1, <3>1, UpdateKeeps
  <2>3. /\ d \in DOMAIN Dirs0 /\ r \in EntriesOf(dirs[d]) /\ m \in EntriesOf(dirs[d])
        /\ dirs[d][m].short = dirs[d][r].short
    BY <2>1 DEF Updates
  <2>4. EntriesOf(dirs[d]) \subseteq 1 .. Len(dirs[d])
    <3>1. DirectoryOk(dirs[d])
      BY <2>3, FirstCluster
    <3> QED  BY <3>1, DirectoryIs
  <2>5. ASSUME NEW e \in DOMAIN Dirs0, NEW i \in EntriesOf(dirs'[e])
        PROVE  \E j \in EntriesOf(dirs[e]) : /\ dirs'[e][i].attr = dirs[e][j].attr
                                             /\ dirs'[e][i].short = dirs[e][j].short
    <3>1. CASE e # d
      BY <2>2, <2>5, <3>1 DEF Updated
    <3>2. CASE e = d /\ i # m
      BY <2>2, <2>4, <2>5, <3>2 DEF Updated
    <3>3. CASE e = d /\ i = m
      BY <2>2, <2>3, <3>3 DEF Updated
    <3> QED  BY <3>1, <3>2, <3>3
  <2> QED  BY <2>5 DEF DirsApart
<1>4. [Next]_vars => \/ UNCHANGED dirs \/ openCreate \/ \E size : writeFile(size)
  BY DEF Next, vars, Trace, Release, openFound, openRefused
<1> QED  BY <1>1, <1>2, <1>3, <1>4

(* What a step may do to the entry i of a directory.                       *)
Kept(d, i) ==
    \/ dirs'[d][i] = dirs[d][i] \/ dirs[d][i] = Free
    \/ /\ dirs[d][i].attr = "file" /\ dirs[d][i].start = last'.start
       /\ dirs'[d][i] = [dirs[d][i] EXCEPT !.size = dirs'[d][i].size]

LEMMA EntriesKept ==
    ASSUME Inv, DirsApart, [Next]_vars
    PROVE  \A d \in DOMAIN dirs : DistinctShort(d) => \A i \in DOMAIN dirs[d] : Kept(d, i)
<1>1. ASSUME UNCHANGED dirs
      PROVE  \A d \in DOMAIN dirs : \A i \in DOMAIN dirs[d] : Kept(d, i)
  BY <1>1 DEF Kept
<1>2. ASSUME openCreate
      PROVE  \A d \in DOMAIN dirs : \A i \in DOMAIN dirs[d] : Kept(d, i)
  <2>1. PICK d \in findDirectory \ {0}, n \in FileNames, whole \in BOOLEAN :
              \E at, short, k, start :
                 /\ d \in DOMAIN Dirs0 /\ n \in DOMAIN Names
                 /\ Creates(d, n, at, short, k, whole, start)
                 /\ missed' = (missed \/ Names[n].full \/ findDirEntry(d, n, "file") # {0}
                                                       \/ findDirEntry(d, n, "dir") # {0})
    BY <1>2, OpenCreateStep
  <2>2. PICK p, short, start : Added(d, n, p, short, whole, start)
    BY <2>1, CreateIs
  <2>3. DOMAIN dirs[d] = 1 .. Len(dirs[d])
    <3>1. DirectoryOk(dirs[d])
      BY <2>1, FirstCluster
    <3> QED  BY <3>1, DirectoryIs
  <2> QED  BY <2>2, <2>3 DEF Added, Kept
<1>3. ASSUME NEW size, writeFile(size), NEW e \in DOMAIN dirs, DistinctShort(e),
             NEW i \in DOMAIN dirs[e]
      PROVE  Kept(e, i)
  <2>1. PICK d, n, r, m : Updates(d, n, r, m, size)
    BY <1>3, WriteStep
  <2>2. Updated(d, r, m, size)
    <3>1. UNCHANGED <<nextFree, born>>
      BY <1>3 DEF writeFile
    <3> QED  BY <2>1, <3>1, UpdateKeeps
  <2>3. /\ d \in DOMAIN Dirs0 /\ n \in FileNames /\ r \in findDirEntry(d, n, "file")
        /\ r \in EntriesOf(dirs[d]) /\ m \in EntriesOf(dirs[d])
        /\ dirs[d][m].short = dirs[d][r].short
        /\ last' = [dir |-> d, start |-> dirs[d][r].start, ok |-> TRUE]
    BY <2>1 DEF Updates
  <2>4. DirectoryOk(dirs[d])
    BY <2>3, FirstCluster
  <2>5. DOMAIN dirs[d] = 1 .. Len(dirs[d]) /\ r \in 1 .. Len(dirs[d]) /\ IsEntry(dirs[d][r])
    BY <2>3, <2>4, DirectoryIs
  <2>6. CASE e # d
    BY <1>3, <2>2, <2>6 DEF Updated, Kept, Inv, Disk
  <2>7. CASE e = d
    <3>1. m = r
      BY <1>3, <2>3, <2>7 DEF DistinctShort, Entries
    <3>2. CASE i # r
      BY <1>3, <2>2, <2>5, <2>7, <3>1, <3>2 DEF Updated, Kept
    <3>3. CASE i = r
      <4>1. r # 0 /\ pc # "idle"
        BY <1>3, <2>5 DEF writeFile
      <4>2. MayStop(dirs[d], r, n, "file")
        BY <2>3, <4>1, Found
      <4>3. dirs[d][r].attr = "file"
        BY <2>3, <4>1, <4>2, FoundIsFile
      <4>4. dirs'[d][r] = [dirs[d][r] EXCEPT !.size = size]
        BY <2>2, <3>1 DEF Updated
      <4>5. dirs'[d][r].size = size
        BY <2>5, <4>4, Resized
      <4>6. dirs'[d][r] = [dirs[d][r] EXCEPT !.size = dirs'[d][r].size]
        BY <4>4, <4>5
      <4>7. last'.start = dirs[d][r].start
        BY <2>3
      <4> QED  BY <2>7, <3>3, <4>3, <4>6, <4>7 DEF Kept
    <3> QED  BY <3>2, <3>3
  <2> QED  BY <2>6, <2>7
<1>4. [Next]_vars => \/ UNCHANGED dirs \/ openCreate \/ \E size : writeFile(size)
  BY DEF Next, vars, Trace, Release, openFound, openRefused
<1> QED  BY <1>1, <1>2, <1>3, <1>4

(* Entries on the disk stay: where no path ends in the short name of a     *)
(* directory, nothing but the size of the file that is written changes in  *)
(* a directory without equal short names (fat32.c, createFatFileInDir,     *)
(* getFreeDirEntriesAddresses, updateDirectoryEntry).                      *)
THEOREM OthersStay ==
    ASSUME FilesHaveOtherNames
    PROVE  Spec => OnlyOwnEntryChanges
<1>1. Init => Inv /\ DirsApart
  BY InvInit, ApartInit
<1>2. Inv /\ DirsApart /\ [Next]_vars => (Inv /\ DirsApart)'
  BY InvNext, ApartNext
<1>3. Inv /\ DirsApart /\ [Next]_vars =>
      \A d \in DOMAIN dirs : DistinctShort(d) =>
          \A i \in DOMAIN dirs[d] :
              \/ dirs'[d][i] = dirs[d][i] \/ dirs[d][i] = Free
              \/ /\ dirs[d][i].attr = "file" /\ dirs[d][i].start = last'.start
                 /\ dirs'[d][i] = [dirs[d][i] EXCEPT !.size = dirs'[d][i].size]
  BY EntriesKept DEF Kept
<1> QED  BY <1>1, <1>2, <1>3, PTL DEF Spec, OnlyOwnEntryChanges

-----------------------------------------------------------------------------
(* Files that were created here and their names.                           *)
OwnNames ==
    \A d \in DOMAIN Dirs0 : DistinctShort(d) => \A i \in EntriesOf(dirs[d]) :
        dirs[d][i].start \in DOMAIN born =>
            /\ Chain(dirs[d], i) # << >>
            /\ born[dirs[d][i].start] = <<d, Last(Chain(dirs[d], i)).name>>

(* The answer of the call, given the directory d and the name n.           *)
RightAnswer(d, n, start) == start # 0 /\ (start \in DOMAIN born => born[start] = <<d, n>>)

(* The entry that leads to the directory of a path with two parts.         *)
LeadsTo(i, dir, d) ==
    /\ i \in EntriesOf(dirs[RootDir])
    /\ Spells(Chain(dirs[RootDir], i), dir) \/ IsShort(dirs[RootDir], i, dir)
    /\ dirs[RootDir][i].start = d

(* The directory that a short path leads to.                               *)
LEMMA RightDirectory ==
    ASSUME Inv, pc # "idle", NEW d \in findDirectory \ {0}, NEW n \in FileNames
    PROVE  /\ Len(tracer.parts) \in {1, 2} => n = tracer.parts[Len(tracer.parts)].name
           /\ Len(tracer.parts) = 1 => d = RootDir
           /\ Len(tracer.parts) = 2 => \E i : LeadsTo(i, tracer.parts[1].name, d)
<1>1. PICK path \in Paths : IsTracer(tracer, live, path)
  BY DEF Inv, Tracing
<1> DEFINE m == Len(path)
           l == (m + 1) \div 2
<1>2. /\ m \in Nat /\ l \in Nat /\ Len(tracer.parts) = l
      /\ FileNames = IF m % 2 = 1 THEN {tracer.parts[l].name} ELSE {}
  BY <1>1, TracedIs
<1>3. m % 2 = 1 /\ n = tracer.parts[Len(tracer.parts)].name
  BY <1>2
<1>4. Levels \in 0 .. l /\ Levels = IF l <= 2 THEN l - 1 ELSE l - 2
  BY <1>1, <1>3, LevelsIs
<1> HIDE DEF l, m
<1>5. Levels \in Nat
  BY <1>2, <1>4
<1>6. Followed[0] = {RootDir} /\ \A k \in 1 .. Levels : Followed[k] = Below(Followed[k - 1], NameAt(k))
  BY <1>5, FollowedIs
<1>7. ASSUME l = 1 PROVE d = RootDir
  <2>1. Levels = 0
    BY <1>4, <1>7
  <2> QED  BY <1>6, <2>1 DEF findDirectory
<1>8. ASSUME l = 2 PROVE \E i : LeadsTo(i, tracer.parts[1].name, d)
  <2>1. Levels = 1
    BY <1>4, <1>8
  <2>2. findDirectory = Below({RootDir}, tracer.parts[1].name)
    <3>1. Followed[1] = Below(Followed[1 - 1], NameAt(1))
      BY <1>6, <2>1
    <3>2. 1 - 1 = 0
      OBVIOUS
    <3> QED  BY <1>6, <2>1, <3>1, <3>2 DEF findDirectory, NameAt
  <2>3. {RootDir} \subseteq DOMAIN Dirs0 \cup {0}
    BY DirAssumption
  <2>4. PICK e \in {RootDir} \ {0} : \E i \in EntriesOf(dirs[e]) :
           /\ MayStop(dirs[e], i, tracer.parts[1].name, "dir") /\ dirs[e][i].start = d
    BY <2>2, <2>3, BelowIs
  <2>5. PICK i \in EntriesOf(dirs[RootDir]) :
           /\ MayStop(dirs[RootDir], i, tracer.parts[1].name, "dir") /\ dirs[RootDir][i].start = d
    BY <2>4
  <2>6. \/ Spells(Chain(dirs[RootDir], i), tracer.parts[1].name)
        \/ IsShort(dirs[RootDir], i, tracer.parts[1].name)
    BY <2>5 DEF MayStop
  <2> QED  BY <2>5, <2>6 DEF LeadsTo
<1> QED  BY <1>2, <1>3, <1>7, <1>8

(* What is found is what was created with that name in that directory.     *)
LEMMA RightEntry ==
    ASSUME Inv, OwnNames, NEW d \in DOMAIN Dirs0, DistinctShort(d), NEW n \in DOMAIN Names,
           NEW r \in EntriesOf(dirs[d]), MayStop(dirs[d], r, n, "file")
    PROVE  RightAnswer(d, n, dirs[d][r].start)
<1> DEFINE start == dirs[d][r].start
           chain == Chain(dirs[d], r)
<1>1. start # 0
  <2>1. start \in 1 .. nextFree - 1
    BY DEF Inv, Clusters
  <2> QED  BY <2>1
<1>2. ASSUME start \in DOMAIN born PROVE born[start] = <<d, n>>
  <2>1. chain # << >> /\ born[start] = <<d, Last(chain).name>>
    BY <1>2 DEF OwnNames
  <2>2. Spells(chain, n)
    BY <2>1 DEF MayStop
  <2>3. Last(chain).name = n
    <3>1. 1 \in 1 .. Names[n].pieces
      BY DirAssumption
    <3>2. Len(chain) \in Nat
      <4>1. DirectoryOk(dirs[d])
        BY FirstCluster
      <4>2. IsSeq(dirs[d]) /\ r \in 1 .. Len(dirs[d])
        BY <4>1, DirectoryIs
      <4> QED  BY <4>2, ChainIs
    <3>3. Len(chain) + 1 - 1 = Len(chain)
      BY <3>2
    <3> QED  BY <2>2, <3>1, <3>3 DEF Last, Spells
  <2> QED  BY <2>1, <2>3
<1> QED  BY <1>1, <1>2 DEF RightAnswer


LEMMA OwnInit ==
    ASSUME Init
    PROVE  OwnNames
<1>1. born = << >>
  BY DEF Init
<1>2. DOMAIN born = {}
  BY <1>1
<1> QED  BY <1>2 DEF OwnNames

LEMMA OwnCreated ==
    ASSUME Inv, OwnNames, NEW d \in DOMAIN Dirs0, NEW n, NEW p, NEW short, NEW whole \in BOOLEAN,
           NEW start \in nextFree .. LastCluster + 1, Added(d, n, p, short, whole, start),
           born' = IF whole THEN AlsoBorn(start, <<d, n>>) ELSE born
    PROVE  OwnNames'
<1> SUFFICES ASSUME NEW e \in DOMAIN Dirs0, DistinctShort(e)', NEW i \in EntriesOf(dirs'[e]),
                    dirs'[e][i].start \in DOMAIN born'
             PROVE  /\ Chain(dirs'[e], i) # << >>
                    /\ born'[dirs'[e][i].start] = <<e, Last(Chain(dirs'[e], i)).name>>
  BY DEF OwnNames
<1>1. /\ \A c \in DOMAIN Dirs0 : c # d => dirs'[c] = dirs[c]
      /\ EntriesOf(dirs'[d]) = EntriesOf(dirs[d]) \cup (IF whole THEN {p} ELSE {})
      /\ \A j \in EntriesOf(dirs[d]) : dirs'[d][j] = dirs[d][j] /\ Chain(dirs'[d], j) = Chain(dirs[d], j)
      /\ whole => /\ dirs'[d][p] = FileEntry(short, start, 0)
                  /\ Chain(dirs'[d], p) # << >> /\ Last(Chain(dirs'[d], p)).name = n
  BY DEF Added
<1>2. CASE i \in EntriesOf(dirs[e])
  <2>1. dirs'[e][i] = dirs[e][i] /\ Chain(dirs'[e], i) = Chain(dirs[e], i)
    BY <1>1, <1>2
  <2>2. DistinctShort(e)
    <3>1. \A j \in EntriesOf(dirs[e]) : j \in EntriesOf(dirs'[e]) /\ dirs'[e][j].short = dirs[e][j].short
      BY <1>1
    <3> QED  BY <3>1, StaysDistinct
  <2>3. dirs[e][i].start \in 1 .. nextFree - 1 /\ nextFree \in Nat
    <3>1. FirstFree \in Nat
      BY DirAssumption
    <3> QED  BY <1>2, <3>1, DirAssumption DEF Inv, Clusters
  <2>4. dirs[e][i].start # start
    BY <2>3
  <2>5. dirs[e][i].start \in DOMAIN born /\ born'[dirs[e][i].start] = born[dirs[e][i].start]
    BY <2>1, <2>4 DEF AlsoBorn
  <2> QED  BY <1>2, <2>1, <2>2, <2>5 DEF OwnNames
<1>3. CASE i \notin EntriesOf(dirs[e])
  <2>1. e = d /\ whole /\ i = p
    BY <1>1, <1>3
  <2>2. dirs'[e][i].start = start
    BY <1>1, <2>1 DEF FileEntry
  <2>3. born'[start] = <<d, n>>
    BY <2>1 DEF AlsoBorn
  <2> QED  BY <1>1, <2>1, <2>2, <2>3
<1> QED  BY <1>2, <1>3

LEMMA OwnUpdated ==
    ASSUME Inv, OwnNames, NEW d, NEW n, NEW r, NEW m, NEW size, Updates(d, n, r, m, size),
           UNCHANGED <<nextFree, born>>
    PROVE  /\ OwnNames' /\ (DistinctShort(d)' => DistinctShort(d))
           /\ DistinctShort(d)' => \A i \in EntriesOf(dirs[d]) : dirs'[d][i].start = dirs[d][i].start
<1>1. Updated(d, r, m, size)
  BY UpdateKeeps
<1>2. /\ d \in DOMAIN Dirs0 /\ r \in EntriesOf(dirs[d]) /\ m \in EntriesOf(dirs[d])
      /\ dirs[d][m].short = dirs[d][r].short
  BY DEF Updates
<1>3. EntriesOf(dirs[d]) \subseteq 1 .. Len(dirs[d])
  <2>1. DirectoryOk(dirs[d])
    BY <1>2, FirstCluster
  <2> QED  BY <2>1, DirectoryIs
<1>4. /\ \A e \in DOMAIN Dirs0 : e # d => dirs'[e] = dirs[e]
      /\ EntriesOf(dirs'[d]) = EntriesOf(dirs[d])
      /\ \A i \in EntriesOf(dirs[d]) : Chain(dirs'[d], i) = Chain(dirs[d], i)
      /\ \A i \in EntriesOf(dirs[d]) : i # m => dirs'[d][i] = dirs[d][i]
      /\ dirs'[d][m].short = dirs[d][m].short /\ dirs'[d][m].start = dirs[d][r].start
  BY <1>1, <1>3 DEF Updated
<1>5. DistinctShort(d)' => DistinctShort(d)
  <2>1. \A i \in EntriesOf(dirs[d]) : i \in EntriesOf(dirs'[d]) /\ dirs'[d][i].short = dirs[d][i].short
    BY <1>4
  <2> QED  BY <1>2, <2>1, StaysDistinct
<1>6. DistinctShort(d)' => \A i \in EntriesOf(dirs[d]) : dirs'[d][i].start = dirs[d][i].start
  <2>1. DistinctShort(d) => m = r
    BY <1>2 DEF DistinctShort, Entries
  <2> QED  BY <1>4, <1>5, <2>1
<1>7. OwnNames'
  <2> SUFFICES ASSUME NEW e \in DOMAIN Dirs0, DistinctShort(e)', NEW i \in EntriesOf(dirs'[e]),
                      dirs'[e][i].start \in DOMAIN born'
               PROVE  /\ Chain(dirs'[e], i) # << >>
                      /\ born'[dirs'[e][i].start] = <<e, Last(Chain(dirs'[e], i)).name>>
    BY DEF OwnNames
  <2>1. born' = born
    OBVIOUS
  <2>2. CASE e # d
    <3>1. dirs'[e] = dirs[e]
      BY <1>4, <2>2
    <3>2. DistinctShort(e)
      BY <3>1 DEF DistinctShort, Entries
    <3> QED  BY <2>1, <3>1, <3>2 DEF OwnNames
  <2>3. CASE e = d
    <3>1. /\ i \in EntriesOf(dirs[d]) /\ Chain(dirs'[d], i) = Chain(dirs[d], i)
          /\ dirs'[d][i].start = dirs[d][i].start /\ DistinctShort(d)
      BY <1>4, <1>5, <1>6, <2>3
    <3> QED  BY <1>2, <2>1, <2>3, <3>1 DEF OwnNames
  <2> QED  BY <2>2, <2>3
<1> QED  BY <1>5, <1>6, <1>7


(* The answer of a call is right if the directory that was found stays     *)
(* where it was.                                                           *)
LEMMA Answered ==
    ASSUME Inv, pc # "idle", NEW d \in findDirectory \ {0}, NEW n \in FileNames, NEW s,
           last' = [dir |-> d, start |-> s, ok |-> TRUE], tracer' = tracer,
           DistinctShort(d)' /\ nextFree' <= LastCluster => RightAnswer(d, n, s)',
           DistinctShort(d)' => \A i, x : LeadsTo(i, x, d) => LeadsTo(i, x, d)'
    PROVE  OpensOwnFile'
<1>1. last'.dir = d /\ last'.start = s
  OBVIOUS
<1> DEFINE l == Len(tracer.parts)
<1>2. /\ l \in {1, 2} => n = tracer.parts[l].name
      /\ l = 1 => d = RootDir
      /\ l = 2 => \E i : LeadsTo(i, tracer.parts[1].name, d)
  BY RightDirectory
<1> SUFFICES ASSUME l \in {1, 2}, DistinctShort(d)', nextFree' <= LastCluster
             PROVE  /\ s # 0
                    /\ s \in DOMAIN born' => born'[s] = <<d, tracer.parts[l].name>>
                    /\ l = 1 => d = RootDir
                    /\ l = 2 => \E i \in Entries(RootDir)' :
                         /\ \/ Spells(Chain(dirs'[RootDir], i), tracer.parts[1].name)
                            \/ IsShort(dirs'[RootDir], i, tracer.parts[1].name)
                         /\ dirs'[RootDir][i].start = d
  BY <1>1 DEF OpensOwnFile, DistinctShort, Entries
<1>3. RightAnswer(d, n, s)'
  OBVIOUS
<1>4. s # 0 /\ (s \in DOMAIN born' => born'[s] = <<d, tracer.parts[l].name>>)
  BY <1>2, <1>3 DEF RightAnswer
<1>5. ASSUME l = 2
      PROVE  \E i \in Entries(RootDir)' :
                         /\ \/ Spells(Chain(dirs'[RootDir], i), tracer.parts[1].name)
                            \/ IsShort(dirs'[RootDir], i, tracer.parts[1].name)
                         /\ dirs'[RootDir][i].start = d
  <2>1. PICK i : LeadsTo(i, tracer.parts[1].name, d)
    BY <1>2, <1>5
  <2>2. PICK x : x = tracer.parts[1].name
    OBVIOUS
  <2>3. LeadsTo(i, x, d)'
    BY <2>1, <2>2
  <2> QED  BY <2>2, <2>3 DEF LeadsTo, Entries
<1> QED  BY <1>2, <1>4, <1>5


OpensInv == Inv /\ OwnNames /\ OpensOwnFile

LEMMA OpensInit ==
    ASSUME Init
    PROVE  OpensInv
<1>1. ~ last.ok
  BY DEF Init, None
<1> QED  BY <1>1, InvInit, OwnInit DEF OpensInv, OpensOwnFile

LEMMA SameNames ==
    ASSUME OwnNames, UNCHANGED <<dirs, born>>
    PROVE  OwnNames'
BY DEF OwnNames, DistinctShort, Entries

LEMMA FoundOpens ==
    ASSUME OpensInv, openFound
    PROVE  OpensOwnFile'
<1>1. PICK q \in findFile :
         q.pos # 0 /\ last' = [dir |-> q.dir, start |-> dirs[q.dir][q.pos].start, ok |-> TRUE]
  BY DEF openFound
<1>2. PICK d \in findDirectory \ {0}, n \in FileNames : \E i \in findDirEntry(d, n, "file") :
         q = [dir |-> d, pos |-> i]
  BY <1>1 DEF findFile
<1>3. PICK r \in findDirEntry(d, n, "file") : q = [dir |-> d, pos |-> r]
  BY <1>2
<1>4. r # 0 /\ last' = [dir |-> d, start |-> dirs[d][r].start, ok |-> TRUE]
  BY <1>1, <1>3
<1>5. Inv /\ OwnNames /\ pc # "idle" /\ UNCHANGED <<tracer, dirs, nextFree, born>>
  BY DEF openFound, OpensInv
<1>6. d \in DOMAIN Dirs0
  BY <1>5, DirectoryFound
<1>7. r \in EntriesOf(dirs[d]) /\ MayStop(dirs[d], r, n, "file")
  BY <1>4, <1>5, <1>6, Found
<1>8. n \in DOMAIN Names
  BY <1>5, FileNamesIn DEF FilesOf
<1>9. DistinctShort(d)' => RightAnswer(d, n, dirs[d][r].start)'
  <2>1. DistinctShort(d)' => DistinctShort(d)
    BY <1>5 DEF DistinctShort, Entries
  <2>2. DistinctShort(d)' => RightAnswer(d, n, dirs[d][r].start)
    BY <1>5, <1>6, <1>7, <1>8, <2>1, RightEntry
  <2> QED  BY <1>5, <2>2 DEF RightAnswer
<1>10. \A i, x : LeadsTo(i, x, d) => LeadsTo(i, x, d)'
  BY <1>5 DEF LeadsTo
<1>11. PICK s : s = dirs[d][r].start
  OBVIOUS
<1>12. DistinctShort(d)' => RightAnswer(d, n, s)'
  BY <1>5, <1>9, <1>11 DEF RightAnswer
<1> QED  BY <1>4, <1>5, <1>10, <1>11, <1>12, Answered

LEMMA CreateOpens ==
    ASSUME OpensInv, openCreate
    PROVE  OwnNames' /\ OpensOwnFile'
<1>1. Inv /\ OwnNames /\ pc # "idle" /\ tracer' = tracer
  BY DEF openCreate, OpensInv
<1>2. PICK d \in findDirectory \ {0}, n \in FileNames, whole \in BOOLEAN :
              \E at, short, k, start :
                 /\ d \in DOMAIN Dirs0 /\ n \in DOMAIN Names
                 /\ Creates(d, n, at, short, k, whole, start)
                 /\ missed' = (missed \/ Names[n].full \/ findDirEntry(d, n, "file") # {0}
                                                       \/ findDirEntry(d, n, "dir") # {0})
  BY <1>1, OpenCreateStep
<1>3. PICK at, short, k, start : Creates(d, n, at, short, k, whole, start)
  BY <1>2
<1>4. PICK p : p = at + k
  OBVIOUS
<1>5. Added(d, n, p, short, whole, start)
  BY <1>1, <1>2, <1>3, <1>4, CreateIs
<1>6. /\ start \in nextFree .. LastCluster + 1
      /\ whole => last' = [dir |-> d, start |-> start, ok |-> TRUE] /\ born' = AlsoBorn(start, <<d, n>>)
      /\ ~ whole => /\ born' = born
                    /\ \/ last' = None
                       \/ last' = [dir |-> d, start |-> 0, ok |-> TRUE] /\ nextFree' = LastCluster + 1
  BY <1>3 DEF Creates
<1>7. OwnNames'
  <2>1. born' = IF whole THEN AlsoBorn(start, <<d, n>>) ELSE born
    BY <1>6
  <2> QED  BY <1>1, <1>2, <1>5, <1>6, <2>1, OwnCreated
<1>8. \A i, x : LeadsTo(i, x, d) => LeadsTo(i, x, d)'
  <2>1. \A i \in EntriesOf(dirs[RootDir]) :
           /\ i \in EntriesOf(dirs'[RootDir]) /\ dirs'[RootDir][i] = dirs[RootDir][i]
           /\ Chain(dirs'[RootDir], i) = Chain(dirs[RootDir], i)
    BY <1>5, DirAssumption DEF Added
  <2> QED  BY <2>1 DEF LeadsTo, IsShort
<1>9. ASSUME whole PROVE OpensOwnFile'
  <2>1. RightAnswer(d, n, start)'
    <3>1. start # 0
      BY <1>1, <1>6, DirAssumption DEF Inv, Clusters
    <3>2. born'[start] = <<d, n>>
      BY <1>6, <1>9 DEF AlsoBorn
    <3> QED  BY <3>1, <3>2 DEF RightAnswer
  <2> QED  BY <1>1, <1>6, <1>8, <1>9, <2>1, Answered
<1>10. ASSUME ~ whole PROVE OpensOwnFile'
  <2>1. CASE last' = None
    BY <2>1 DEF None, OpensOwnFile
  <2>2. CASE nextFree' = LastCluster + 1
    <3>1. ~ (nextFree' <= LastCluster)
      BY <2>2, DirAssumption
    <3> QED  BY <3>1 DEF OpensOwnFile
  <2> QED  BY <1>6, <1>10, <2>1, <2>2
<1> QED  BY <1>7, <1>9, <1>10


LEMMA WriteOpens ==
    ASSUME OpensInv, NEW size, writeFile(size)
    PROVE  OwnNames' /\ OpensOwnFile'
<1>1. /\ Inv /\ OwnNames /\ pc # "idle" /\ tracer' = tracer /\ born' = born
      /\ UNCHANGED <<nextFree, born>>
  BY DEF writeFile, OpensInv
<1>2. PICK d, n, r, m : Updates(d, n, r, m, size)
  BY <1>1, WriteStep
<1>3. /\ d \in findDirectory \ {0} /\ n \in FileNames /\ r \in findDirEntry(d, n, "file")
      /\ d \in DOMAIN Dirs0 /\ r \in EntriesOf(dirs[d])
      /\ last' = [dir |-> d, start |-> dirs[d][r].start, ok |-> TRUE]
  BY <1>2 DEF Updates
<1>4. Updated(d, r, m, size)
  BY <1>1, <1>2, UpdateKeeps
<1>5. /\ OwnNames' /\ (DistinctShort(d)' => DistinctShort(d))
      /\ DistinctShort(d)' => \A i \in EntriesOf(dirs[d]) : dirs'[d][i].start = dirs[d][i].start
  BY <1>1, <1>2, OwnUpdated
<1>6. EntriesOf(dirs[d]) \subseteq 1 .. Len(dirs[d])
  <2>1. DirectoryOk(dirs[d])
    BY <1>1, <1>3, FirstCluster
  <2> QED  BY <2>1, DirectoryIs
<1>7. MayStop(dirs[d], r, n, "file")
  <2>1. r # 0
    <3>1. DirectoryOk(dirs[d])
      BY <1>1, <1>3, FirstCluster
    <3>2. r \in 1 .. Len(dirs[d]) /\ Len(dirs[d]) \in Nat
      BY <1>3, <1>6, <3>1, DirectoryIs
    <3> QED  BY <3>2
  <2> QED  BY <1>1, <1>3, <2>1, Found
<1>8. PICK s : s = dirs[d][r].start
  OBVIOUS
<1>9. DistinctShort(d)' => RightAnswer(d, n, s)'
  <2>1. n \in DOMAIN Names
    BY <1>1, <1>3, FileNamesIn DEF FilesOf
  <2>2. DistinctShort(d)' => RightAnswer(d, n, dirs[d][r].start)
    BY <1>1, <1>3, <1>5, <1>7, <2>1, RightEntry
  <2> QED  BY <1>1, <1>8, <2>2 DEF RightAnswer
<1>10. DistinctShort(d)' => \A i, x : LeadsTo(i, x, d) => LeadsTo(i, x, d)'
  <2>1. CASE d # RootDir
    <3>1. dirs'[RootDir] = dirs[RootDir]
      BY <1>4, <2>1, DirAssumption DEF Updated
    <3> QED  BY <3>1 DEF LeadsTo
  <2>2. CASE d = RootDir
    <3>1. \A i \in EntriesOf(dirs[d]) :
             /\ Chain(dirs'[d], i) = Chain(dirs[d], i) /\ dirs'[d][i].short = dirs[d][i].short
      BY <1>2, <1>4, <1>6 DEF Updated
    <3>2. EntriesOf(dirs'[d]) = EntriesOf(dirs[d])
      BY <1>4 DEF Updated
    <3> QED  BY <1>5, <2>2, <3>1, <3>2 DEF LeadsTo, IsShort
  <2> QED  BY <2>1, <2>2
<1>11. OpensOwnFile'
  BY <1>1, <1>3, <1>8, <1>9, <1>10, Answered
<1> QED  BY <1>5, <1>11

LEMMA OpensNext ==
    ASSUME OpensInv, [Next]_vars
    PROVE  OpensInv'
<1>1. Inv /\ Inv' /\ OwnNames /\ OpensOwnFile
  BY InvNext DEF OpensInv
<1>2. ASSUME UNCHANGED vars PROVE OwnNames' /\ OpensOwnFile'
  <2>1. OwnNames'
    BY <1>1, <1>2, SameNames DEF vars
  <2>2. OpensOwnFile'
    BY <1>1, <1>2 DEF vars, OpensOwnFile, DistinctShort, Entries
  <2> QED  BY <2>1, <2>2
<1>3. ASSUME NEW path \in Paths, Trace(path) PROVE OwnNames' /\ OpensOwnFile'
  <2>1. OwnNames'
    BY <1>1, <1>3, SameNames DEF Trace
  <2>2. last' = None
    BY <1>1, <1>3 DEF Trace, Inv, Calls
  <2> QED  BY <2>1, <2>2 DEF None, OpensOwnFile
<1>4. ASSUME Release PROVE OwnNames' /\ OpensOwnFile'
  <2>1. OwnNames'
    BY <1>1, <1>4, SameNames DEF Release
  <2>2. last' = None
    BY <1>4 DEF Release
  <2> QED  BY <2>1, <2>2 DEF None, OpensOwnFile
<1>5. ASSUME openFound PROVE OwnNames' /\ OpensOwnFile'
  <2>1. OwnNames'
    BY <1>1, <1>5, SameNames DEF openFound
  <2> QED  BY <1>5, <2>1, FoundOpens
<1>6. ASSUME openRefused PROVE OwnNames' /\ OpensOwnFile'
  <2>1. OwnNames'
    BY <1>1, <1>6, SameNames DEF openRefused
  <2>2. last' = None
    BY <1>1, <1>6 DEF openRefused, Inv, Calls
  <2> QED  BY <2>1, <2>2 DEF None, OpensOwnFile
<1>7. ASSUME openCreate PROVE OwnNames' /\ OpensOwnFile'
  BY <1>7, CreateOpens
<1>8. ASSUME NEW size \in 1 .. MaxSize, writeFile(size) PROVE OwnNames' /\ OpensOwnFile'
  BY <1>8, WriteOpens
<1>9. OwnNames' /\ OpensOwnFile'
  BY <1>2, <1>3, <1>4, <1>5, <1>6, <1>7, <1>8 DEF Next
<1> QED  BY <1>1, <1>9 DEF OpensInv

(* A path with at most one directory leads to the file that was created    *)
(* with that name in that directory, as long as short names are not used   *)
(* twice there and the disk is not full (fat32.c, findFile, openFile,      *)
(* writeFile).                                                             *)
THEOREM CallsOpenTheirFile == Spec => []OpensOwnFile
<1>1. Init => OpensInv
  BY OpensInit
<1>2. OpensInv /\ [Next]_vars => OpensInv'
  BY OpensNext
<1>3. OpensInv => OpensOwnFile
  BY DEF OpensInv
<1> QED  BY <1>1, <1>2, <1>3, PTL DEF Spec
=============================================================================
