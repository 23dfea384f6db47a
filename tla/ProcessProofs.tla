--------------------------- MODULE ProcessProofs ---------------------------
(***************************************************************************)
(* The file layer and the processes above it, for every set of paths,      *)
(* every hash, every set of handles and modes and every size: as long as   *)
(* no pointer that is NULL has been used, the table of open files, the     *)
(* handles and the directory entries agree and a program is not written    *)
(* under its process; and none is used while no two paths share a bucket.  *)
(***************************************************************************)
EXTENDS Process, WellFoundedInduction, TLAPS

-----------------------------------------------------------------------------
(* The operators of the layer.                                             *)

LEMMA ModeBits ==
    ASSUME NEW mode, checkMode(mode) # {}
    PROVE  checkMode(mode) \in {{"r"}, {"w"}, {"a"}, {"w", "a"}}
BY DEF checkMode

LEMMA ReadMode == checkMode(<<"r">>) = {"r"}
BY DEF checkMode

(* An entry that closeFile can take out: the first of those of the path.   *)
LEMMA FirstListed ==
    ASSUME TypeOK, NEW p \in Paths, Listed(p) # {}
    PROVE  LET i == CHOOSE k \in Listed(p) : \A j \in Listed(p) : k <= j
           IN  i \in Listed(p) /\ \A j \in Listed(p) : i <= j
<1>1. Hash[p] \in Buckets
  BY DEF Buckets
<1>2. Listed(p) \in SUBSET Nat
  BY <1>1 DEF Listed, TypeOK
<1>3. PICK x \in Listed(p) : \A y \in Listed(p) : ~ (<<y, x>> \in OpToRel(<, Nat))
  BY <1>2, NatLessThanWellFounded, WFMin
<1>4. \A y \in Listed(p) : ~ (y < x)
  BY <1>2, <1>3, Zenon DEF OpToRel
<1>5. \A y \in Listed(p) : x <= y
  BY <1>2, <1>4
<1> QED  BY <1>5

(* addOpenFile of a path that is not listed goes behind the first entry.   *)
LEMMA AddedList ==
    ASSUME TypeOK, NEW p \in Paths, NEW h \in Handles, Listed(p) = {}, addOpenFile(p, h)
    PROVE  /\ openFiles' \in [Buckets -> Seq(Handles)]
           /\ openFiles[Hash[p]] = << >> => openFiles' = [openFiles EXCEPT ![Hash[p]] = <<h>>]
<1> DEFINE list == openFiles[Hash[p]]
           Same(i) == handle[list[i]].path = p
           at == CHOOSE i \in DOMAIN list : /\ ~ Same(i) \/ i = Len(list)
                                            /\ \A j \in 1 .. (i - 1) : Same(j)
<1>1. Hash[p] \in Buckets /\ list \in Seq(Handles)
  BY DEF Buckets, TypeOK
<1>2. CASE list = << >>
  <2>1. openFiles' = [openFiles EXCEPT ![Hash[p]] = <<h>>]
    BY <1>2 DEF addOpenFile
  <2>2. <<h>> \in Seq(Handles)
    OBVIOUS
  <2> QED  BY <1>1, <2>1, <2>2 DEF TypeOK
<1>3. CASE list # << >>
  <2>1. 1 \in DOMAIN list
    BY <1>1, <1>3
  <2>2. at \in DOMAIN list
    <3>1. ~ Same(1)
      BY <2>1 DEF Listed
    <3>2. \A j \in 1 .. (1 - 1) : Same(j)
      OBVIOUS
    <3> QED  BY <2>1, <3>1, <3>2
  <2>3. openFiles' = [openFiles EXCEPT ![Hash[p]] = Append(SubSeq(list, 1, at), h)]
    BY <1>3 DEF addOpenFile
  <2> HIDE DEF at
  <2>4. SubSeq(list, 1, at) \in Seq(Handles)
    BY <1>1, <2>2
  <2>5. Append(SubSeq(list, 1, at), h) \in Seq(Handles)
    BY <2>4
  <2> QED  BY <1>1, <1>3, <2>3, <2>5 DEF TypeOK
<1> QED  BY <1>2, <1>3

(* closeFile leaves a list of handles, and nothing if it held one.         *)
LEMMA ClosedList ==
    ASSUME TypeOK, NEW p \in Paths, Listed(p) # {}, closeFile(p)
    PROVE  /\ openFiles' \in [Buckets -> Seq(Handles)]
           /\ Len(openFiles[Hash[p]]) = 1 =>
                 openFiles' = [openFiles EXCEPT ![Hash[p]] = << >>]
<1> DEFINE list == openFiles[Hash[p]]
           i == CHOOSE k \in Listed(p) : \A j \in Listed(p) : k <= j
<1>1. Hash[p] \in Buckets /\ list \in Seq(Handles)
  BY DEF Buckets, TypeOK
<1>2. i \in DOMAIN list
  BY FirstListed DEF Listed
<1>3. openFiles' = [openFiles EXCEPT ![Hash[p]] =
                      SubSeq(list, 1, i - 1) \o SubSeq(list, i + 1, Len(list))]
  BY DEF closeFile
<1> HIDE DEF i
<1>4. i \in 1 .. Len(list)
  BY <1>1, <1>2
<1>5. SubSeq(list, 1, i - 1) \in Seq(Handles) /\ SubSeq(list, i + 1, Len(list)) \in Seq(Handles)
  BY <1>1, <1>4
<1>6. SubSeq(list, 1, i - 1) \o SubSeq(list, i + 1, Len(list)) \in Seq(Handles)
  BY <1>5
<1>7. ASSUME Len(list) = 1
      PROVE  SubSeq(list, 1, i - 1) \o SubSeq(list, i + 1, Len(list)) = << >>
  <2>1. i = 1
    BY <1>4, <1>7
  <2>2. SubSeq(list, 1, 0) = << >> /\ SubSeq(list, 2, 1) = << >>
    BY <1>1, <1>7
  <2> QED  BY <1>7, <2>1, <2>2
<1> QED  BY <1>1, <1>3, <1>6, <1>7 DEF TypeOK
-----------------------------------------------------------------------------
(* The table until the first access through NULL.                          *)

(* A path that is not listed in a bucket that is not empty: there is a     *)
(* collision.                                                              *)
LEMMA SearchReadsCollision ==
    ASSUME HandlesInv, null = {}, NEW p \in Paths, SearchReads(p) # {}
    PROVE  \E q \in Paths : p # q /\ Hash[p] = Hash[q]
<1>1. Hash[p] \in Buckets /\ openFiles[Hash[p]] \in Seq(Handles)
  BY DEF Buckets, TypeOK, HandlesInv
<1>2. Listed(p) = {} /\ openFiles[Hash[p]] # << >>
  BY DEF SearchReads
<1>3. 1 \in DOMAIN openFiles[Hash[p]]
  BY <1>1, <1>2
<1>4. openFiles[Hash[p]][1] \in Open /\ Hash[handle[openFiles[Hash[p]][1]].path] = Hash[p]
  BY <1>1, <1>3 DEF HandlesInv, ListedIffOpen
<1>5. handle[openFiles[Hash[p]][1]].path # p
  BY <1>2, <1>3 DEF Listed
<1>6. handle[openFiles[Hash[p]][1]].path \in Paths
  BY <1>4 DEF HandlesInv, TypeOK, File
<1> QED  BY <1>4, <1>5, <1>6

(* The bucket of an open handle holds that handle and nothing else.        *)
LEMMA OwnBucket ==
    ASSUME HandlesInv, null = {}, NEW h \in Open
    PROVE  /\ handle[h].path \in Paths
           /\ Hash[handle[h].path] \in Buckets
           /\ Len(openFiles[Hash[handle[h].path]]) = 1
           /\ openFiles[Hash[handle[h].path]][1] = h
           /\ Listed(handle[h].path) = {1}
<1> DEFINE p == handle[h].path
<1>1. p \in Paths
  BY DEF HandlesInv, TypeOK, File
<1>2. Hash[p] \in Buckets /\ openFiles[Hash[p]] \in Seq(Handles)
  BY <1>1 DEF Buckets, HandlesInv, TypeOK
<1>3. PICK i \in DOMAIN openFiles[Hash[p]] : openFiles[Hash[p]][i] = h
  BY DEF HandlesInv, ListedIffOpen
<1>4. Len(openFiles[Hash[p]]) <= 1
  BY <1>2 DEF HandlesInv, OneHandlePerBucket
<1>5. i = 1 /\ Len(openFiles[Hash[p]]) = 1 /\ DOMAIN openFiles[Hash[p]] = {1}
  <2>1. DOMAIN openFiles[Hash[p]] = 1 .. Len(openFiles[Hash[p]]) /\ Len(openFiles[Hash[p]]) \in Nat
    BY <1>2
  <2>2. i \in 1 .. Len(openFiles[Hash[p]])
    BY <1>3, <2>1
  <2>3. ASSUME NEW n \in Nat, NEW k \in 1 .. n, n <= 1  PROVE n = 1 /\ k = 1
    BY <2>3
  <2>4. 1 .. 1 = {1}
    OBVIOUS
  <2> QED  BY <1>4, <2>1, <2>2, <2>3, <2>4, Zenon
<1>6. Listed(p) = {1}
  BY <1>3, <1>5 DEF Listed
<1> QED  BY <1>1, <1>2, <1>3, <1>5, <1>6

(* What remains of HandlesInv and SizeInSync to be shown of a step.        *)
Agree ==
    /\ OneHandlePerPath /\ ListedIffOpen /\ OneHandlePerBucket /\ WritersInFile
    /\ \A h \in Open : handle[h].size = disk[handle[h].path]

LEMMA FopenKeeps ==
    ASSUME HandlesInv, SizeInSync,
           NEW p \in Paths, NEW mode, NEW h \in Handles, fopen(p, mode, h)
    PROVE  HandlesInv' /\ SizeInSync'
<1>1. Listed(p) = {} /\ h \notin Open /\ addOpenFile(p, h)
  BY DEF fopen, checkIfFileIsOpenString
<1>2. checkMode(mode) \in {{"r"}, {"w"}, {"a"}, {"w", "a"}}
  BY ModeBits DEF fopen
<1>3. /\ disk' \in [Paths -> {Absent} \cup 0 .. MaxSize]
      /\ disk'[p] \in 0 .. MaxSize
      /\ \A q \in Paths : q # p => disk'[q] = disk[q]
  BY VfslAssumption DEF fopen, HandlesInv, TypeOK, Absent
<1> DEFINE new == [path |-> p, mode |-> checkMode(mode), position |-> 0, size |-> disk'[p]]
<1>4. new \in File
  BY <1>2, <1>3 DEF File
<1>5. handle' = [g \in Open \cup {h} |-> IF g = h THEN new ELSE handle[g]]
  BY DEF fopen
<1>6. /\ DOMAIN handle' = Open \cup {h}
      /\ handle'[h] = new
      /\ \A g \in Open : handle'[g] = handle[g]
  BY <1>1, <1>5
<1>7. TypeOK'
  <2>1. openFiles' \in [Buckets -> Seq(Handles)]
    BY <1>1, AddedList DEF HandlesInv
  <2>2. handle' \in [DOMAIN handle' -> File]
    BY <1>4, <1>5, <1>6 DEF HandlesInv, TypeOK, Open
  <2>3. null' \subseteq {"read", "write"}
    BY DEF fopen, SearchReads, HandlesInv, TypeOK
  <2> QED  BY <1>3, <1>6, <2>1, <2>2, <2>3 DEF TypeOK, Open, HandlesInv
<1>8. NullMeansCollision'
  <2>1. CASE null # {}
    BY <2>1 DEF HandlesInv, NullMeansCollision
  <2>2. CASE null = {}
    <3>1. null' = SearchReads(p)
      BY <2>2 DEF fopen
    <3>2. SearchReads(p) # {} => \E q \in Paths : p # q /\ Hash[p] = Hash[q]
      BY <2>2, SearchReadsCollision
    <3> QED  BY <3>1, <3>2 DEF NullMeansCollision
  <2> QED  BY <2>1, <2>2
<1>9. ASSUME null' = {}  PROVE Agree'
  <2>1. null = {} /\ SearchReads(p) = {}
    BY <1>9 DEF fopen
  <2>2. openFiles[Hash[p]] = << >> /\ Hash[p] \in Buckets
    BY <1>1, <2>1 DEF SearchReads, Buckets
  <2>3. openFiles' = [openFiles EXCEPT ![Hash[p]] = <<h>>]
    BY <1>1, <2>2, AddedList DEF HandlesInv
  <2>4. \A g \in Open : handle[g].path # p /\ Hash[handle[g].path] # Hash[p]
    BY <2>1, <2>2, OwnBucket
  <2>5. OneHandlePerPath'
    BY <1>6, <2>1, <2>4 DEF OneHandlePerPath, HandlesInv, Open
  <2>6. ListedIffOpen'
    <3>1. ASSUME NEW b \in Buckets, NEW i \in DOMAIN openFiles'[b]
          PROVE  openFiles'[b][i] \in DOMAIN handle' /\ Hash[handle'[openFiles'[b][i]].path] = b
      <4>1. CASE b = Hash[p]
        <5>1. openFiles'[b] = <<h>>
          BY <2>2, <2>3, <4>1 DEF HandlesInv, TypeOK
        <5>2. openFiles'[b][i] = h
          BY <3>1, <5>1
        <5> QED  BY <1>6, <4>1, <5>2
      <4>2. CASE b # Hash[p]
        <5>1. openFiles'[b] = openFiles[b]
          BY <2>3, <4>2 DEF HandlesInv, TypeOK
        <5>2. openFiles[b][i] \in Open /\ Hash[handle[openFiles[b][i]].path] = b
          BY <2>1, <3>1, <5>1 DEF HandlesInv, ListedIffOpen
        <5> QED  BY <1>6, <5>1, <5>2
      <4> QED  BY <4>1, <4>2
    <3>2. ASSUME NEW g \in DOMAIN handle'
          PROVE  \E i \in DOMAIN openFiles'[Hash[handle'[g].path]] :
                    openFiles'[Hash[handle'[g].path]][i] = g
      <4>1. CASE g = h
        <5>1. openFiles'[Hash[handle'[g].path]] = <<h>>
          BY <1>6, <2>2, <2>3, <4>1 DEF HandlesInv, TypeOK
        <5> QED  BY <4>1, <5>1
      <4>2. CASE g # h
        <5>1. g \in Open /\ handle'[g] = handle[g]
          BY <1>6, <4>2
        <5>2. openFiles'[Hash[handle[g].path]] = openFiles[Hash[handle[g].path]]
          BY <2>3, <2>4, <5>1, <2>1, OwnBucket DEF HandlesInv, TypeOK
        <5> QED  BY <2>1, <5>1, <5>2 DEF HandlesInv, ListedIffOpen
      <4> QED  BY <4>1, <4>2
    <3> QED  BY <3>1, <3>2 DEF ListedIffOpen, Open, Buckets
  <2>7. OneHandlePerBucket'
    BY <2>1, <2>2, <2>3 DEF OneHandlePerBucket, HandlesInv, TypeOK, Buckets
  <2>8. WritersInFile'
    BY <1>3, <1>6, <2>1 DEF WritersInFile, HandlesInv, Open
  <2>9. \A g \in DOMAIN handle' : handle'[g].size = disk'[handle'[g].path]
    BY <1>3, <1>6, <2>1, <2>4, OwnBucket DEF SizeInSync
  <2> QED  BY <2>5, <2>6, <2>7, <2>8, <2>9 DEF Agree, Open
<1> QED  BY <1>7, <1>8, <1>9 DEF HandlesInv, SizeInSync, Agree

LEMMA RefusedKeeps ==
    ASSUME HandlesInv, SizeInSync, NEW p \in Paths, fopenRefused(p)
    PROVE  HandlesInv' /\ SizeInSync'
<1>1. UNCHANGED <<openFiles, handle, disk>> /\ null' = null \cup SearchReads(p)
  BY DEF fopenRefused
<1>2. null' \subseteq {"read", "write"}
  BY <1>1 DEF SearchReads, HandlesInv, TypeOK
<1>3. TypeOK'
  BY <1>1, <1>2 DEF HandlesInv, TypeOK, Open
<1>4. NullMeansCollision'
  <2>1. CASE null # {}
    BY <2>1 DEF HandlesInv, NullMeansCollision
  <2>2. CASE null = {}
    <3>1. SearchReads(p) # {} => \E q \in Paths : p # q /\ Hash[p] = Hash[q]
      BY <2>2, SearchReadsCollision
    <3> QED  BY <1>1, <2>2, <3>1 DEF NullMeansCollision
  <2> QED  BY <2>1, <2>2
<1>5. null' = {} => null = {}
  BY <1>1
<1> QED
  BY <1>1, <1>3, <1>4, <1>5
     DEF HandlesInv, SizeInSync, OneHandlePerPath, ListedIffOpen, OneHandlePerBucket,
         WritersInFile, Open, Buckets

(* A step that changes the position or size of one handle, and the size of *)
(* its file alike.                                                         *)
LEMMA UpdateKeeps ==
    ASSUME HandlesInv, SizeInSync, NEW h \in Open, NEW f,
           handle' = [handle EXCEPT ![h] = f],
           f \in File, f.path = handle[h].path, f.mode = handle[h].mode,
           null = {} /\ "w" \in f.mode => f.position <= f.size,
           disk' \in [Paths -> {Absent} \cup 0 .. MaxSize],
           \A q \in Paths : q # f.path => disk'[q] = disk[q],
           null = {} => f.size = disk'[f.path],
           UNCHANGED <<openFiles, null>>
    PROVE  HandlesInv' /\ SizeInSync'
<1>1. /\ DOMAIN handle' = Open
      /\ handle'[h] = f
      /\ \A g \in Open : g # h => handle'[g] = handle[g]
      /\ \A g \in Open : handle'[g].path = handle[g].path
  BY DEF Open
<1>2. TypeOK'
  BY <1>1 DEF HandlesInv, TypeOK, Open
<1>3. NullMeansCollision'
  BY DEF HandlesInv, NullMeansCollision
<1>4. ASSUME null = {}  PROVE Agree'
  <2>1. OneHandlePerPath'
    BY <1>1, <1>4 DEF HandlesInv, OneHandlePerPath, Open
  <2>2. ListedIffOpen'
    <3>1. ListedIffOpen /\ openFiles' = openFiles
      BY <1>4 DEF HandlesInv
    <3>2. \A b \in Buckets : \A i \in DOMAIN openFiles[b] :
             openFiles[b][i] \in DOMAIN handle' /\ Hash[handle'[openFiles[b][i]].path] = b
      BY <1>1, <3>1 DEF ListedIffOpen
    <3>3. \A g \in DOMAIN handle' : \E i \in DOMAIN openFiles[Hash[handle'[g].path]] :
             openFiles[Hash[handle'[g].path]][i] = g
      BY <1>1, <3>1 DEF ListedIffOpen
    <3> QED  BY <3>1, <3>2, <3>3 DEF ListedIffOpen, Open, Buckets
  <2>3. OneHandlePerBucket'
    BY <1>4 DEF HandlesInv, OneHandlePerBucket, Buckets
  <2>4. WritersInFile'
    BY <1>1, <1>4 DEF HandlesInv, WritersInFile, Open
  <2>5. \A g \in Open : g # h => handle[g].path # f.path
    BY <1>4 DEF HandlesInv, OneHandlePerPath
  <2>6. \A g \in Open : handle[g].path \in Paths
    BY DEF HandlesInv, TypeOK, File
  <2>7. \A g \in DOMAIN handle' : handle'[g].size = disk'[handle'[g].path]
    BY <1>1, <1>4, <2>5, <2>6 DEF SizeInSync
  <2> QED  BY <2>1, <2>2, <2>3, <2>4, <2>7 DEF Agree, Open
<1> QED  BY <1>2, <1>3, <1>4 DEF HandlesInv, SizeInSync, Agree

LEMMA FseekKeeps ==
    ASSUME HandlesInv, SizeInSync, NEW h \in Open, NEW n \in 0 .. MaxSize, fseek(h, n)
    PROVE  HandlesInv' /\ SizeInSync'
<1> DEFINE f == [handle[h] EXCEPT !.position = n]
<1>1. handle[h] \in File
  BY DEF HandlesInv, TypeOK
<1>2. handle' = [handle EXCEPT ![h] = f]
  BY DEF fseek
<1>3. /\ f \in File /\ f.path = handle[h].path /\ f.mode = handle[h].mode
      /\ f.size = handle[h].size /\ f.position = n /\ n <= handle[h].size
  BY <1>1, VfslAssumption DEF File, fseek
<1> HIDE DEF f
<1>4. UNCHANGED <<openFiles, disk, null>> /\ disk \in [Paths -> {Absent} \cup 0 .. MaxSize]
  BY DEF fseek, HandlesInv, TypeOK
<1>5. null = {} => f.size = disk'[f.path]
  BY <1>3, <1>4 DEF SizeInSync
<1> QED  BY <1>2, <1>3, <1>4, <1>5, UpdateKeeps

LEMMA FreadKeeps ==
    ASSUME HandlesInv, SizeInSync, NEW h \in Open, NEW n \in 0 .. MaxSize, fread(h, n)
    PROVE  HandlesInv' /\ SizeInSync'
<1> DEFINE f == [handle[h] EXCEPT !.position = @ + n]
<1>1. handle[h] \in File
  BY DEF HandlesInv, TypeOK
<1>2. handle' = [handle EXCEPT ![h] = f]
  BY DEF fread
<1>3. /\ f \in File /\ f.path = handle[h].path /\ f.mode = handle[h].mode
      /\ f.size = handle[h].size
  BY <1>1, VfslAssumption DEF File
<1>4. "w" \notin handle[h].mode
  <2>1. "r" \in handle[h].mode
    BY DEF fread
  <2>2. handle[h].mode \in {{"r"}, {"w"}, {"a"}, {"w", "a"}}
    BY <1>1 DEF File
  <2> QED  BY <2>1, <2>2
<1> HIDE DEF f
<1>5. UNCHANGED <<openFiles, disk, null>> /\ disk \in [Paths -> {Absent} \cup 0 .. MaxSize]
  BY DEF fread, HandlesInv, TypeOK
<1>6. null = {} => f.size = disk'[f.path]
  BY <1>3, <1>5 DEF SizeInSync
<1> QED  BY <1>2, <1>3, <1>4, <1>5, <1>6, UpdateKeeps

LEMMA FwriteKeeps ==
    ASSUME HandlesInv, SizeInSync, NEW h \in Open, NEW n \in 0 .. MaxSize, fwrite(h, n)
    PROVE  HandlesInv' /\ SizeInSync'
<1> DEFINE f == Written(handle[h], n)
<1>1. handle[h] \in File
  BY DEF HandlesInv, TypeOK
<1>2. handle' = [handle EXCEPT ![h] = f]
  BY DEF fwrite
<1>3. StartPos(handle[h]) \in Nat /\ StartPos(handle[h]) + n <= MaxSize
  BY <1>1, VfslAssumption DEF File, StartPos, fwrite
<1>4. f = [handle[h] EXCEPT !.position = @ + n, !.size = StartPos(handle[h]) + n]
  BY <1>1 DEF Written, StartPos, File
<1>5. /\ f \in File /\ f.path = handle[h].path /\ f.mode = handle[h].mode
      /\ f.size = StartPos(handle[h]) + n /\ f.position = handle[h].position + n
  <2>1. handle[h].position + n \in Nat /\ StartPos(handle[h]) + n \in 0 .. MaxSize
    BY <1>1, <1>3, VfslAssumption DEF File
  <2> QED  BY <1>1, <1>4, <2>1 DEF File
<1> HIDE DEF f
<1>6. UNCHANGED <<openFiles, null>> /\ "w" \in handle[h].mode
  BY DEF fwrite
<1>7. disk' = [disk EXCEPT ![f.path] = StartPos(handle[h]) + n]
  BY <1>5 DEF fwrite
<1>8. f.path \in Paths
  BY <1>5 DEF File
<1>9. /\ disk' \in [Paths -> {Absent} \cup 0 .. MaxSize]
      /\ \A q \in Paths : q # f.path => disk'[q] = disk[q]
      /\ f.size = disk'[f.path]
  BY <1>3, <1>5, <1>7, <1>8, VfslAssumption DEF HandlesInv, TypeOK
<1>10. ASSUME null = {}  PROVE f.position <= f.size
  <2>1. handle[h].position <= handle[h].size
    BY <1>6, <1>10 DEF HandlesInv, WritersInFile
  <2> QED  BY <1>1, <1>5, <2>1, VfslAssumption DEF StartPos, File
<1> QED  BY <1>2, <1>5, <1>6, <1>9, <1>10, UpdateKeeps

LEMMA FcloseKeeps ==
    ASSUME HandlesInv, SizeInSync, NEW h \in Open, fclose(h)
    PROVE  HandlesInv' /\ SizeInSync'
<1> DEFINE p == handle[h].path
<1>1. /\ p \in Paths /\ Listed(p) # {} /\ closeFile(p) /\ disk' = disk
      /\ null' = null \cup CloseWrites(p)
  BY DEF fclose, Found, checkIfFileIsOpenString, HandlesInv, TypeOK, File
<1>2. /\ DOMAIN handle' = Open \ {h}
      /\ \A g \in Open \ {h} : handle'[g] = handle[g]
      /\ handle' \in [Open \ {h} -> File]
  BY DEF fclose, HandlesInv, TypeOK
<1>3. TypeOK'
  <2>1. openFiles' \in [Buckets -> Seq(Handles)]
    BY <1>1, ClosedList DEF HandlesInv
  <2>2. null' \subseteq {"read", "write"}
    BY <1>1 DEF CloseWrites, HandlesInv, TypeOK
  <2> QED  BY <1>1, <1>2, <2>1, <2>2 DEF TypeOK, Open, HandlesInv
<1>4. ASSUME null = {}
      PROVE  /\ null' = {}
             /\ openFiles' = [openFiles EXCEPT ![Hash[p]] = << >>]
             /\ Hash[p] \in Buckets
  <2>1. Len(openFiles[Hash[p]]) = 1 /\ Hash[p] \in Buckets
    BY <1>4, OwnBucket
  <2>2. CloseWrites(p) = {}
    BY <2>1 DEF CloseWrites
  <2> QED  BY <1>1, <1>4, <2>1, <2>2, ClosedList DEF HandlesInv
<1>5. NullMeansCollision'
  BY <1>1, <1>4 DEF HandlesInv, NullMeansCollision
<1>6. ASSUME null' = {}  PROVE Agree'
  <2>1. null = {}
    BY <1>1, <1>6
  <2>2. \A b \in Buckets : openFiles'[b] = IF b = Hash[p] THEN << >> ELSE openFiles[b]
    BY <1>4, <2>1 DEF HandlesInv, TypeOK
  <2>3. \A g \in Open \ {h} : Hash[handle[g].path] # Hash[p] /\ Hash[handle[g].path] \in Buckets
    BY <2>1, OwnBucket
  <2>4. OneHandlePerPath'
    BY <1>2, <2>1 DEF HandlesInv, OneHandlePerPath, Open
  <2>5. ListedIffOpen'
    <3>1. ASSUME NEW b \in Buckets, NEW i \in DOMAIN openFiles'[b]
          PROVE  openFiles'[b][i] \in DOMAIN handle' /\ Hash[handle'[openFiles'[b][i]].path] = b
      <4>1. b # Hash[p] /\ openFiles'[b] = openFiles[b]
        BY <2>2, <3>1
      <4>2. openFiles[b][i] \in Open /\ Hash[handle[openFiles[b][i]].path] = b
        BY <2>1, <3>1, <4>1 DEF HandlesInv, ListedIffOpen
      <4> QED  BY <1>2, <4>1, <4>2
    <3>2. ASSUME NEW g \in DOMAIN handle'
          PROVE  \E i \in DOMAIN openFiles'[Hash[handle'[g].path]] :
                    openFiles'[Hash[handle'[g].path]][i] = g
      <4>1. g \in Open /\ handle'[g] = handle[g]
        BY <1>2
      <4>2. openFiles'[Hash[handle[g].path]] = openFiles[Hash[handle[g].path]]
        BY <1>2, <2>2, <2>3
      <4>3. \E i \in DOMAIN openFiles[Hash[handle[g].path]] :
               openFiles[Hash[handle[g].path]][i] = g
        BY <2>1, <4>1 DEF HandlesInv, ListedIffOpen
      <4> QED  BY <4>1, <4>2, <4>3
    <3> QED  BY <3>1, <3>2 DEF ListedIffOpen, Open, Buckets
  <2>6. OneHandlePerBucket'
    <3>1. Len(<< >>) <= 1
      OBVIOUS
    <3> QED  BY <2>1, <2>2, <3>1 DEF HandlesInv, OneHandlePerBucket, Buckets
  <2>7. WritersInFile'
    BY <1>2, <2>1 DEF HandlesInv, WritersInFile, Open
  <2>8. \A g \in DOMAIN handle' : handle'[g].size = disk'[handle'[g].path]
    BY <1>1, <1>2, <2>1 DEF SizeInSync
  <2> QED  BY <2>4, <2>5, <2>6, <2>7, <2>8 DEF Agree, Open
<1> QED  BY <1>3, <1>5, <1>6 DEF HandlesInv, SizeInSync, Agree

LEMMA CallsKeep ==
    ASSUME HandlesInv, SizeInSync, NEW hs \in SUBSET Open, Calls(hs)
    PROVE  HandlesInv' /\ SizeInSync'
<1>1. CASE \E p \in Paths, mode \in Modes, h \in Handles : fopen(p, mode, h)
  BY <1>1, FopenKeeps
<1>2. CASE \E p \in Paths : fopenRefused(p)
  BY <1>2, RefusedKeeps
<1>3. ASSUME NEW h \in hs, NEW n \in 0 .. MaxSize, fseek(h, n) \/ fread(h, n) \/ fwrite(h, n)
      PROVE  HandlesInv' /\ SizeInSync'
  BY <1>3, FseekKeeps, FreadKeeps, FwriteKeeps
<1>4. CASE \E h \in hs : fclose(h)
  BY <1>4, FcloseKeeps
<1> QED  BY <1>1, <1>2, <1>3, <1>4 DEF Calls
-----------------------------------------------------------------------------
(* The processes.                                                          *)

(* A call of somebody who does not have the handles of createProcess       *)
(* leaves them open, as they are.                                          *)
LEMMA CallsKeepPrograms ==
    ASSUME HandlesInv, ProgramsHeld, Calls(Open \ abandoned), abandoned' = abandoned
    PROVE  ProgramsHeld'
<1> SUFFICES ASSUME NEW g \in abandoned
             PROVE  g \in DOMAIN handle' /\ handle'[g] = handle[g]
  BY DEF ProgramsHeld, Open
<1>1. g \in Open
  BY DEF ProgramsHeld
<1>2. ASSUME NEW p \in Paths, NEW mode \in Modes, NEW h \in Handles, fopen(p, mode, h)
      PROVE  g \in DOMAIN handle' /\ handle'[g] = handle[g]
  BY <1>1, <1>2 DEF fopen
<1>3. CASE UNCHANGED handle
  BY <1>1, <1>3 DEF Open
<1>4. ASSUME NEW h \in Open \ abandoned, NEW n \in 0 .. MaxSize,
             fseek(h, n) \/ fread(h, n) \/ fwrite(h, n)
      PROVE  g \in DOMAIN handle' /\ handle'[g] = handle[g]
  <2>1. PICK f : handle' = [handle EXCEPT ![h] = f]
    <3>1. CASE fseek(h, n)  BY <3>1 DEF fseek
    <3>2. CASE fread(h, n)  BY <3>2 DEF fread
    <3>3. CASE fwrite(h, n)  BY <3>3 DEF fwrite
    <3> QED  BY <1>4, <3>1, <3>2, <3>3
  <2> QED  BY <1>1, <2>1 DEF Open
<1>5. ASSUME NEW h \in Open \ abandoned, fclose(h)
      PROVE  g \in DOMAIN handle' /\ handle'[g] = handle[g]
  BY <1>1, <1>5 DEF fclose
<1> QED  BY <1>2, <1>3, <1>4, <1>5 DEF Calls, fopenRefused

LEMMA ProcInitInv == ProcInit => HandlesInv /\ SizeInSync /\ ProcessInv
<1> SUFFICES ASSUME ProcInit PROVE HandlesInv /\ SizeInSync /\ ProcessInv
  OBVIOUS
<1>1. Open = {} /\ \A b \in Buckets : openFiles[b] = << >>
  BY DEF ProcInit, Init, Open
<1>2. TypeOK
  <2>1. handle \in [{} -> File]
    BY DEF ProcInit, Init
  <2>2. << >> \in Seq(Handles)
    OBVIOUS
  <2> QED  BY <1>1, <2>1, <2>2 DEF ProcInit, Init, TypeOK
<1>3. ListedIffOpen /\ OneHandlePerBucket
  <2>1. DOMAIN << >> = {} /\ Len(<< >>) <= 1
    OBVIOUS
  <2> QED  BY <1>1, <2>1 DEF ListedIffOpen, OneHandlePerBucket
<1>4. HandlesInv /\ SizeInSync
  BY <1>1, <1>2, <1>3
     DEF HandlesInv, SizeInSync, NullMeansCollision, OneHandlePerPath, WritersInFile,
         ProcInit, Init
<1>5. ProcessInv
  BY DEF ProcessInv, PidsDense, ProgramsHeld, ProcInit
<1> QED  BY <1>4, <1>5

LEMMA ProcNextInv ==
    HandlesInv /\ SizeInSync /\ ProcessInv /\ [ProcNext]_<<vars, procVars>>
        => (HandlesInv /\ SizeInSync /\ ProcessInv)'
<1> SUFFICES ASSUME HandlesInv, SizeInSync, ProcessInv, [ProcNext]_<<vars, procVars>>
             PROVE  (HandlesInv /\ SizeInSync /\ ProcessInv)'
  OBVIOUS
<1>1. CASE Calls(Open \ abandoned) /\ UNCHANGED procVars
  <2>1. HandlesInv' /\ SizeInSync'
    BY <1>1, CallsKeep
  <2>2. ProgramsHeld'
    BY <1>1, CallsKeepPrograms DEF ProcessInv, procVars
  <2>3. PidsDense'
    BY <1>1 DEF ProcessInv, PidsDense, procVars
  <2> QED  BY <2>1, <2>2, <2>3 DEF ProcessInv
<1>2. ASSUME NEW p \in Paths, NEW h \in Handles, createProcess(p, h)
      PROVE  (HandlesInv /\ SizeInSync /\ ProcessInv)'
  <2>1. HandlesInv' /\ SizeInSync'
    BY <1>2, FopenKeeps DEF createProcess
  <2>2. /\ DOMAIN handle' = Open \cup {h} /\ h \notin Open
        /\ handle'[h].mode = {"r"}
        /\ \A g \in Open : handle'[g] = handle[g]
    BY <1>2, ReadMode DEF createProcess, fopen
  <2>3. ProgramsHeld'
    BY <1>2, <2>2 DEF createProcess, ProgramsHeld, ProcessInv, Open
  <2>4. PidsDense'
    <3>1. CASE UNCHANGED <<processList, nextProcessId>>
      BY <3>1 DEF PidsDense, ProcessInv
    <3>2. CASE /\ processList' = Append(processList, nextProcessId)
               /\ nextProcessId' = nextProcessId + 1
      BY <3>2 DEF PidsDense, ProcessInv
    <3> QED  BY <1>2, <3>1, <3>2 DEF createProcess, IdAfterError, PidsDense, ProcessInv
  <2> QED  BY <2>1, <2>3, <2>4 DEF ProcessInv
<1>3. ASSUME NEW p \in Paths, createProcessRefused(p)
      PROVE  (HandlesInv /\ SizeInSync /\ ProcessInv)'
  <2>1. HandlesInv' /\ SizeInSync'
    <3>1. CASE fopenRefused(p)
      BY <3>1, RefusedKeeps
    <3>2. CASE UNCHANGED vars
      BY <3>2 DEF vars, HandlesInv, SizeInSync, TypeOK, NullMeansCollision,
             OneHandlePerPath, ListedIffOpen, OneHandlePerBucket, WritersInFile, Open, Buckets
    <3> QED  BY <1>3, <3>1, <3>2 DEF createProcessRefused
  <2>2. handle' = handle
    BY <1>3 DEF createProcessRefused, fopenRefused, vars
  <2>3. ProcessInv'
    BY <1>3, <2>2 DEF createProcessRefused, IdAfterError, ProcessInv, PidsDense, ProgramsHeld, Open
  <2> QED  BY <2>1, <2>3
<1>4. CASE UNCHANGED <<vars, procVars>>
  BY <1>4 DEF vars, procVars, HandlesInv, SizeInSync, TypeOK, NullMeansCollision,
         OneHandlePerPath, ListedIffOpen, OneHandlePerBucket, WritersInFile, Open, Buckets,
         ProcessInv, PidsDense, ProgramsHeld
<1> QED  BY <1>1, <1>2, <1>3, <1>4 DEF ProcNext

(* A call that writes a file writes through an open handle for writing     *)
(* that is the only one of its path.                                       *)
LEMMA ProgramsStepSafe ==
    ASSUME HandlesInv, ProcessInv, ProcNext, null = {}, NEW h \in abandoned
    PROVE  disk'[handle[h].path] = disk[handle[h].path]
<1>1. h \in Open /\ handle[h].mode = {"r"}
  BY DEF ProcessInv, ProgramsHeld
<1>2. ASSUME NEW p \in Paths, NEW mode, NEW g \in Handles, fopen(p, mode, g)
      PROVE  disk'[handle[h].path] = disk[handle[h].path]
  <2>1. Listed(p) = {} /\ disk' = [disk EXCEPT ![p] = IF @ = Absent THEN 0 ELSE @]
    BY <1>2 DEF fopen, checkIfFileIsOpenString
  <2>2. handle[h].path # p
    BY <1>1, <2>1, OwnBucket
  <2> QED  BY <1>1, <2>1, <2>2, OwnBucket DEF HandlesInv, TypeOK
<1>3. ASSUME NEW g \in Open \ abandoned, NEW n \in 0 .. MaxSize, fwrite(g, n)
      PROVE  disk'[handle[h].path] = disk[handle[h].path]
  <2>1. handle[g].path # handle[h].path
    BY <1>1, <1>3 DEF HandlesInv, OneHandlePerPath
  <2> QED  BY <1>1, <1>3, <2>1, OwnBucket DEF fwrite, HandlesInv, TypeOK
<1>4. CASE UNCHANGED disk
  BY <1>4
<1>5. CASE Calls(Open \ abandoned)
  BY <1>2, <1>3, <1>4, <1>5 DEF Calls, fopenRefused, fseek, fread, fclose
<1>6. ASSUME NEW p \in Paths, NEW g \in Handles, createProcess(p, g)
      PROVE  disk'[handle[h].path] = disk[handle[h].path]
  BY <1>2, <1>6 DEF createProcess
<1>7. ASSUME NEW p \in Paths, createProcessRefused(p)
      PROVE  disk'[handle[h].path] = disk[handle[h].path]
  BY <1>4, <1>7 DEF createProcessRefused, fopenRefused, vars
<1> QED  BY <1>5, <1>6, <1>7 DEF ProcNext
-----------------------------------------------------------------------------
LEMMA ProcInvariant == ProcSpec => [](HandlesInv /\ SizeInSync /\ ProcessInv)
BY ProcInitInv, ProcNextInv, PTL DEF ProcSpec

(* The table of open files and the handles agree until the first access    *)
(* through NULL, and there is none without a collision: fopen, fseek,      *)
(* fread, fwrite and fclose, whoever calls them.                           *)
THEOREM HandlesSafe == ProcSpec => []HandlesInv
BY ProcInvariant, PTL

(* Until then a handle knows the size in the directory entry of its file.  *)
THEOREM SizesSafe == ProcSpec => []SizeInSync
BY ProcInvariant, PTL

(* With a hash that tells the paths apart the layer never reads or writes  *)
(* through NULL, and everything HandlesInv and SizeInSync say holds for    *)
(* ever.                                                                   *)
THEOREM NoCollisionNoNull ==
    ASSUME \A p, q \in Paths : Hash[p] = Hash[q] => p = q
    PROVE  ProcSpec => [](null = {} /\ Agree)
<1>1. HandlesInv /\ SizeInSync => null = {} /\ Agree
  BY DEF HandlesInv, SizeInSync, NullMeansCollision, Agree
<1> QED  BY <1>1, HandlesSafe, SizesSafe, PTL

(* Process ids stay dense and the program of a process stays open for      *)
(* reading, whichever calls of createProcess fail.                         *)
THEOREM ProcessSafe == ProcSpec => []ProcessInv
BY ProcInvariant, PTL

(* No step changes the size of a file that a process was started from.     *)
THEOREM ProgramsSafe == ProcSpec => ProgramsNotWritten
<1>1. HandlesInv /\ ProcessInv /\ [ProcNext]_<<vars, procVars>>
         => [null = {} => \A h \in abandoned :
                disk'[handle[h].path] = disk[handle[h].path]]_<<vars, procVars>>
  BY ProgramsStepSafe
<1> QED  BY <1>1, ProcInvariant, PTL DEF ProcSpec, ProgramsNotWritten
=============================================================================
