------------------------------ MODULE Fat32Dir ------------------------------
(***************************************************************************)
(* The directories of vfsl/driver/fat32.c: how openFile finds or creates   *)
(* the entries of a file and how writeFile updates its size.               *)
(*                                                                         *)
(* A directory is named by its first cluster and is a sequence of entries, *)
(* PerCluster for each of its clusters.  A file with a long name has some  *)
(* pieces of the name, the last piece first, and then its entry.  Clusters *)
(* are handed out in ascending order and never come back.  The checksum of *)
(* a short name stands for the name.  Two long names differ in their first *)
(* piece.  Any read or write may fail, but for the ones that link a new    *)
(* cluster to a directory, which Fat32File is about.                       *)
(***************************************************************************)
EXTENDS PathTracer

CONSTANTS
    Names,       \* From names to what the code sees of them: pieces, whether
                 \* the last piece is full, the stem of the short name, whether
                 \* it is longer than eight, whether it is in upper case, and
                 \* whether the name is a short name itself.
    PerCluster,  \* Directory entries in a cluster.
    LastCluster,
    RootDir, Dirs0, \* The root and the directories on the disk at first.
    FirstFree,
    MaxSize,     \* Bound on the size of files.
    MaxFaults    \* Bound on the calls that fail after changing the disk.

VARIABLES
    pc,          \* Where the call is: idle, traced, done.
    dirs,        \* Directories by first cluster.
    nextFree,    \* The first free cluster.
    last,        \* What the call worked on: the directory and the start cluster.
    born,        \* History: directory and name a file was created with.
    faults,      \* Calls that have failed.
    missed,      \* History: a search may have overlooked an entry.
    smashed      \* getDirEntries has written behind its buffer.

vars  == <<tracer, live, pc, dirs, nextFree, last, born, faults, missed, smashed>>
None  == [dir |-> 0, start |-> 0, ok |-> FALSE]
Free  == [attr |-> "free"]
Piece(n, i, short) == [attr |-> "lfn", name |-> n, idx |-> i, sum |-> short]
FileEntry(short, start, size) == [attr |-> "file", short |-> short, start |-> start, size |-> size]

Init ==
    /\ TracerInit
    /\ pc = "idle" /\ dirs = Dirs0 /\ nextFree = FirstFree /\ last = None
    /\ born = << >> /\ faults = 0 /\ missed = FALSE /\ smashed = FALSE
-----------------------------------------------------------------------------
Named(s) == {i \in 1 .. PerCluster : s[i].attr \in {"file", "dir"}}

(* The pieces directly before entry i, as the search has collected them.   *)
Chain(s, i) ==
    LET from == Max({0} \cup {j \in 1 .. i - 1 : s[j].attr # "lfn"}) IN SubSeq(s, from + 1, i - 1)

(* The pieces spell the name n: longFileNameEntriesToName reads from the   *)
(* last entry on, and stops after the end of the name.                     *)
Spells(chain, n) ==
    /\ Len(chain) >= Names[n].pieces
    /\ \A k \in 1 .. Names[n].pieces :
          LET p == chain[Len(chain) + 1 - k] IN p.name = n /\ p.idx = k

(* Entry i has n as its short name; attributes are not compared.           *)
IsShort(s, i, n) == Names[n].plain /\ s[i].short = <<Names[n].stem, 0>>

(* Whether the search may stop at i.  A name that fills its last piece has *)
(* no end: what follows in the buffer is another piece, or anything.       *)
MayStop(s, i, n, attr) ==
    LET chain == Chain(s, i)
    IN  IF chain = << >> THEN IsShort(s, i, n)
        ELSE /\ Spells(chain, n) /\ s[i].attr = attr /\ s[i].short = Last(chain).sum
             /\ Names[n].full => Len(chain) = Names[n].pieces

MayPass(s, i, n, attr) ==
    MayStop(s, i, n, attr) => Chain(s, i) # << >> /\ Names[n].full

(* findDirEntry looks at the first cluster up to the first free entry: it  *)
(* stops at an entry that matches, or at none (0).  A read that fails is   *)
(* reported as -ENFOUND as well.                                           *)
findDirEntry(d, n, attr) ==
    LET s == dirs[d]
        seen == {i \in Named(s) : \A j \in 1 .. i : s[j] # Free}
    IN  {0} \cup {i \in seen : /\ MayStop(s, i, n, attr)
                               /\ \A j \in seen : j < i => MayPass(s, j, n, attr)}

(* Mutant: the root is the directory of every file.                        *)
MutFindDirectory == {RootDir}

(* The directories of name n in one of ds, each may not be found (0).      *)
Below(ds, n) ==
    {0} \cup {dirs[p[1]][p[2]].start : p \in
                 {q \in (ds \ {0}) \X (1 .. PerCluster) :
                      /\ q[2] \in findDirEntry(q[1], n, "dir")
                      /\ dirs[q[1]][q[2]].attr = "dir"}}

(* None, one, or all but the last directory of the path are followed.      *)
Levels ==
    LET depth == Cardinality({i \in DOMAIN tracer.parts : tracer.parts[i].type = "dir"})
    IN  IF depth < 2 THEN depth ELSE depth - 1

Followed ==
    LET at[k \in 0 .. Levels] ==
            IF k = 0 THEN {RootDir} ELSE Below(at[k - 1], tracer.parts[k].name)
    IN  at

findDirectory == Followed[Levels]

(* findFile: a directory and a place in it, 0 if the file is not found.    *)
findFile ==
    {[dir |-> 0, pos |-> 0]} \cup
      UNION {{[dir |-> d, pos |-> i] : i \in findDirEntry(d, n, "file")} :
                 d \in findDirectory \ {0}, n \in FileNames}

(* The buffer of getDirEntries has the length of the clusters, but they    *)
(* are placed 32 times as far from each other.                             *)
Smashes(ds) == \E d \in ds \ {0} : Len(dirs[d]) > PerCluster
Searched    == findDirectory \cup (IF tracer.parts[1].type = "dir" THEN {RootDir} ELSE {})
EntriesOf(s) == {i \in DOMAIN s : s[i].attr \in {"file", "dir"}}

(* The last pieces spell one name and have the checksum of short.          *)
IsWhole(chain, short) ==
    LET n == Last(chain).name
    IN  /\ Spells(chain, n)
        /\ \A k \in 1 .. Names[n].pieces : chain[Len(chain) + 1 - k].sum = short

(* Used entries are a prefix of the directory, since a search ends at the  *)
(* first free one, and every entry behind pieces has all the pieces of one *)
(* name with its checksum before it.                                       *)
WellFormed(s) ==
    /\ \A i \in 2 .. Len(s) : s[i] # Free => s[i - 1] # Free
    /\ \A i \in EntriesOf(s) : Chain(s, i) # << >> => IsWhole(Chain(s, i), s[i].short)

(* No two entries have one long name.                                      *)
NamesDiffer(s) ==
    \A i, j \in EntriesOf(s) :
        LET n == Chain(s, i) m == Chain(s, j) IN
        n # << >> /\ m # << >> /\ Last(n).name = Last(m).name => i = j

IsPiece(e) == e.attr = "lfn" /\ e = Piece(e.name, e.idx, e.sum)
IsEntry(e) ==
    /\ e.attr \in {"file", "dir"}
    /\ e = [attr |-> e.attr, short |-> e.short, start |-> e.start, size |-> e.size]

(* A sequence of entries that fills whole clusters.                        *)
IsDirectory(s) ==
    /\ s \in Seq({s[i] : i \in DOMAIN s}) /\ Len(s) > 0 /\ Len(s) % PerCluster = 0
    /\ \A i \in DOMAIN s : s[i] = Free \/ IsPiece(s[i]) \/ IsEntry(s[i])

(* The directories on the disk are in order, and files and directories     *)
(* begin in clusters that are not free.                                    *)
ASSUME DirAssumption ==
    /\ PerCluster \in Nat \ {0} /\ LastCluster \in Nat /\ FirstFree \in 1 .. LastCluster + 1
    /\ MaxFaults \in Nat
    /\ \A n \in DOMAIN Names : Names[n].pieces \in Nat \ {0}
    /\ \A path \in Paths : \A i \in DOMAIN path : path[i] \in DOMAIN Names \cup {Slash}
    /\ RootDir \in DOMAIN Dirs0 /\ RootDir # 0 /\ Dirs0 = [d \in DOMAIN Dirs0 |-> Dirs0[d]]
    /\ \A d \in DOMAIN Dirs0 :
          /\ IsDirectory(Dirs0[d]) /\ WellFormed(Dirs0[d]) /\ NamesDiffer(Dirs0[d])
          /\ \A i \in EntriesOf(Dirs0[d]) :
                /\ Dirs0[d][i].start \in 1 .. FirstFree - 1
                /\ Dirs0[d][i].attr = "dir" => Dirs0[d][i].start \in DOMAIN Dirs0
-----------------------------------------------------------------------------
(* The number behind ~ in the short name of a long name: of the numbers    *)
(* found in the directory, the three smallest are kept.                    *)
NextFreeNumber(nums) ==
    LET low3(m, k) == IF k < m[1] THEN <<k, m[2], m[3]>>
                      ELSE IF k < m[2] THEN <<m[1], k, m[3]>>
                      ELSE IF k < m[3] THEN <<m[1], m[2], k>> ELSE m
        m == FoldLeft(low3, <<9, 9, 9>>, nums)
    IN  IF m[2] > 1 + m[1] THEN m[1]
        ELSE IF m[3] > 1 + m[2] THEN m[2]
        ELSE IF nums = << >> THEN 1 ELSE 0

(* A short name is a stem and a number, or 0.  Only names in upper case    *)
(* are seen to have the stem of an entry.                                  *)
generateShortFileName(s, n) ==
    LET same == SelectSeq(s, LAMBDA e : /\ e.attr = "file" /\ Names[n].upper
                                        /\ \E k \in 1 .. 9 : e.short = <<Names[n].stem, k>>)
        k    == NextFreeNumber([i \in DOMAIN same |-> same[i].short[2]])
    IN  IF ~ Names[n].long THEN <<Names[n].stem, 0>>
        ELSE IF k >= 1 THEN <<Names[n].stem, k>> ELSE <<"", 0>>

(* Mutant: one entry is left free before the new ones.                     *)
MutFreeRun(s, count) ==
    1 + Min({i \in 1 .. Len(s) + 1 : \A j \in i .. Len(s) : j < i + count => s[j] = Free})

(* getFreeDirEntriesAddresses: the first of count free entries in a row,   *)
(* the directory being followed by as many new clusters as that takes.     *)
FreeRun(s, count) ==
    Min({i \in 1 .. Len(s) + 1 : \A j \in i .. Len(s) : j < i + count => s[j] = Free})

(* makeDirBigger appends clusters with free entries, while there are any.  *)
Grown(s, clusters) == s \o [i \in 1 .. clusters * PerCluster |-> Free]

(* Mutant: the first piece of the name is written first.                   *)
MutLongFileNameEntries(s, at, n, short, k) ==
    [i \in DOMAIN s |-> IF i \in at .. at + k - 1 THEN Piece(n, i - at + 1, short) ELSE s[i]]

(* createLongFileNameEntryAtAddress: k pieces are written, the last first. *)
LongFileNameEntries(s, at, n, short, k) ==
    [i \in DOMAIN s |-> IF i \in at .. at + k - 1
                        THEN Piece(n, Names[n].pieces - (i - at), short) ELSE s[i]]

AlsoBorn(start, file) ==
    [x \in DOMAIN born \cup {start} |-> IF x = start THEN file ELSE born[x]]

(* createFatFileInDir: the directory grows, the pieces of the name are     *)
(* written, a cluster is marked, the entry is written; each may fail and   *)
(* nothing is taken back.  With no cluster for the file the answer is a    *)
(* file all the same: openFile reads it through a null pointer.            *)
createFatFileInDir(d, n) ==
    LET count == Names[n].pieces + 1
        at    == FreeRun(dirs[d], count)
        more  == Max({0, (at + count - 1 - Len(dirs[d]) + PerCluster - 1) \div PerCluster})
        room  == LastCluster + 1 - nextFree
        s     == Grown(dirs[d], Min({more, room}))
        short == generateShortFileName(s, n)
        start == nextFree + more
        Put(e) == dirs' = [dirs EXCEPT ![d] = e]
    IN  IF more > room
        THEN /\ Put(s) /\ nextFree' = LastCluster + 1 /\ last' = None /\ UNCHANGED born
             /\ smashed' = Smashes(Searched)
        ELSE \E k \in 0 .. count :
               LET pieces == LongFileNameEntries(s, at, n, short, Min({k, count - 1})) IN
               /\ smashed' = (Smashes(Searched) \/ (Names[n].long /\ Len(s) > PerCluster))
               /\ Put(IF k = count /\ start <= LastCluster
                      THEN [pieces EXCEPT ![at + k - 1] = FileEntry(short, start, 0)] ELSE pieces)
               /\ IF k < count - 1
                  THEN nextFree' = start /\ last' = None /\ UNCHANGED born
                  ELSE IF start > LastCluster
                  THEN /\ nextFree' = start /\ last' = [dir |-> d, start |-> 0, ok |-> TRUE]
                       /\ UNCHANGED born
                  ELSE /\ nextFree' = start + 1
                       /\ last' = IF k = count THEN [dir |-> d, start |-> start, ok |-> TRUE] ELSE None
                       /\ born' = IF k = count THEN AlsoBorn(start, <<d, n>>) ELSE born
-----------------------------------------------------------------------------
Trace(path) ==
    /\ pc = "idle" /\ ~ smashed
    /\ createPathTracer(path)
    /\ pc' = "traced"
    /\ UNCHANGED <<dirs, nextFree, last, born, faults, missed, smashed>>

Release ==
    /\ pc = "done" \/ (pc = "traced" /\ FileNames = {})
    /\ destroyPathTracer
    /\ pc' = "idle" /\ last' = None
    /\ UNCHANGED <<dirs, nextFree, born, faults, missed, smashed>>

openFound ==
    /\ pc = "traced" /\ FileNames # {}
    /\ \E r \in findFile :
          /\ r.pos # 0
          /\ last' = [dir |-> r.dir, start |-> dirs[r.dir][r.pos].start, ok |-> TRUE]
    /\ pc' = "done" /\ smashed' = Smashes(Searched)
    /\ UNCHANGED <<tracer, live, dirs, nextFree, born, faults, missed>>

(* Not found and not to be created, or in no directory.                    *)
openRefused ==
    /\ pc = "traced" /\ FileNames # {}
    /\ pc' = "done" /\ smashed' = Smashes(Searched)
    /\ UNCHANGED <<tracer, live, dirs, nextFree, last, born, faults, missed>>

openCreate ==
    /\ pc = "traced"
    /\ \E r \in findFile, d \in findDirectory \ {0}, n \in FileNames :
          /\ r.pos = 0
          /\ createFatFileInDir(d, n)
          /\ faults' = faults + (IF last'.ok THEN 0 ELSE 1) /\ faults' <= MaxFaults
          /\ missed' = (missed \/ Names[n].full \/ findDirEntry(d, n, "file") # {0}
                                                \/ findDirEntry(d, n, "dir") # {0})
    /\ pc' = "done"
    /\ UNCHANGED <<tracer, live>>

(* Mutant: the first entry of the directory that has a name.               *)
MutUpdateDirectoryEntry(d, e, new) ==
    dirs' = [dirs EXCEPT ![d][Min({i \in Named(dirs[d]) : dirs[d][i].attr = e.attr})] = new]

(* The first entry that has the short name, whatever its long name is.     *)
updateDirectoryEntry(d, e, new) ==
    dirs' = [dirs EXCEPT ![d][Min({i \in Named(dirs[d]) : dirs[d][i].short = e.short})] = new]

(* writeFile: the contents are written, the file is searched once more and *)
(* its entry replaced.                                                     *)
writeFile(size) ==
    /\ pc = "traced"
    /\ \E r \in findFile :
          /\ r.pos # 0
          /\ LET e == dirs[r.dir][r.pos] IN
             /\ last' = [dir |-> r.dir, start |-> e.start, ok |-> TRUE]
             /\ updateDirectoryEntry(r.dir, e, [e EXCEPT !.size = size])
    /\ pc' = "done" /\ smashed' = Smashes(Searched)
    /\ UNCHANGED <<tracer, live, nextFree, born, faults, missed>>

Next ==
    \/ \E path \in Paths : Trace(path)
    \/ Release
    \/ openFound \/ openRefused \/ openCreate
    \/ \E size \in 1 .. MaxSize : writeFile(size)

Spec == Init /\ [][Next]_vars
-----------------------------------------------------------------------------
Entries(d) == EntriesOf(dirs[d])

DistinctShort(d) ==
    \A i, j \in Entries(d) : dirs[d][i].short = dirs[d][j].short => i = j

(* Directories consist of whole clusters, no cluster is given to two       *)
(* purposes, and files are in clusters that were handed out.               *)
TypeOK ==
    /\ pc \in {"idle", "traced", "done"}
    /\ \A d \in DOMAIN dirs : Len(dirs[d]) % PerCluster = 0 /\ Len(dirs[d]) > 0
    /\ nextFree \in FirstFree .. LastCluster + 1
    /\ DOMAIN born \subseteq FirstFree .. nextFree - 1
    /\ faults \in 0 .. MaxFaults /\ missed \in BOOLEAN /\ smashed \in BOOLEAN

(* Used entries are a prefix of the directory, since a search ends at the  *)
(* first free one, and every entry behind pieces has all the pieces of one *)
(* name with its checksum before it, whatever failed in between (fat32.c,  *)
(* createFatFileInDir).                                                    *)
DirWellFormed ==
    \A d \in DOMAIN dirs : WellFormed(dirs[d])

(* Directories stay readable after every call, the failed ones too         *)
(* (createFatFileInDir, getFreeDirEntriesAddresses).                       *)
DirInv == TypeOK /\ DirWellFormed

(* No path ends in the short name of a directory: where there is no long   *)
(* name, a search for a file takes the directory for the file.             *)
FilesHaveOtherNames ==
    \A d \in DOMAIN Dirs0 : \A i \in EntriesOf(Dirs0[d]) :
        \A n \in {path[Len(path)] : path \in Paths \ {<< >>}} \cap DOMAIN Names :
            Dirs0[d][i].attr = "dir" => ~ IsShort(Dirs0[d], i, n)

(* No directory gets two entries of one name, unless a search has          *)
(* overlooked the first: because of a read error, of a name that fills its *)
(* last piece, or because that is a directory (fat32.c, openFile,          *)
(* findDirEntry).                                                          *)
OneEntryPerName ==
    missed \/ smashed \/ \A d \in DOMAIN dirs : NamesDiffer(dirs[d])

(* A path with at most one directory leads to the file that was created    *)
(* with that name in that directory, as long as short names are not used   *)
(* twice there and the disk is not full (fat32.c, findFile, openFile).     *)
OpensOwnFile ==
    LET n == Len(tracer.parts)
        dir == tracer.parts[1].name
    IN  last.ok /\ n \in {1, 2} /\ DistinctShort(last.dir) /\ nextFree <= LastCluster =>
          /\ last.start # 0
          /\ last.start \in DOMAIN born => born[last.start] = <<last.dir, tracer.parts[n].name>>
          /\ n = 1 => last.dir = RootDir
          /\ n = 2 => \E i \in Entries(RootDir) :
                /\ Spells(Chain(dirs[RootDir], i), dir) \/ IsShort(dirs[RootDir], i, dir)
                /\ dirs[RootDir][i].start = last.dir

(* Entries on the disk stay: nothing but the size of the file that is      *)
(* written changes in a directory without equal short names (fat32.c,      *)
(* getFreeDirEntriesAddresses, updateDirectoryEntry).                      *)
OnlyOwnEntryChanges ==
    [][\A d \in DOMAIN dirs : DistinctShort(d) =>
          \A i \in DOMAIN dirs[d] :
              \/ dirs'[d][i] = dirs[d][i] \/ dirs[d][i] = Free
              \/ /\ dirs[d][i].attr = "file" /\ dirs[d][i].start = last'.start
                 /\ dirs'[d][i] = [dirs[d][i] EXCEPT !.size = dirs'[d][i].size]]_vars
=============================================================================
