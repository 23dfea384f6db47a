------------------------------ MODULE Fat32File ----------------------------
(***************************************************************************)
(* How vfsl/driver/fat32.c stores file contents: the file allocation table *)
(* and its copy, the chains of clusters, and writeFile / writeFatFile /    *)
(* unlinkFatChain / readFatFile working on them.                           *)
(*                                                                         *)
(* The kernel runs one call at a time.  A write is still a sequence of     *)
(* steps here, one for every change it makes on the disk, because an I/O   *)
(* error may end it after any of them; op holds the locals of the call     *)
(* that is running.  Directory entries are reduced to what a file's entry  *)
(* says about its data: first cluster and size.                            *)
(***************************************************************************)
EXTENDS Integers, Sequences, FiniteSets

CONSTANTS
    LastCluster,    \* Clusters 2 .. LastCluster hold data.
    clusterSize,    \* Bytes in a cluster.
    Files,
    Inputs,         \* What callers write: sequences of bytes, not empty.
    MaxSize,        \* Bound: no file grows beyond this size.
    IoFaults        \* Whether writes to the partition may fail.  A read that
                    \* fails ends a call where a failed write ends it too.

FAT_ENTRY_FREE == 0
FAT_ENTRY_USED == 268435455         \* 0x0FFFFFFF, also the end of a chain
RESERVED       == 268435448         \* 0x0FFFFFF8, what entries 0 and 1 hold
RootDir        == 2                 \* bootRecord.rootDirCluster

ASSUME ClusterAssumption ==
    /\ LastCluster \in 3 .. (RESERVED - 1)
    /\ clusterSize \in Nat \ {0}
    /\ MaxSize \in Nat
    /\ IoFaults \in BOOLEAN
    /\ \A in \in Inputs : in \in Seq(Int) /\ in # << >>

Clusters == 2 .. LastCluster
Entries  == 0 .. LastCluster        \* The table has entries for 0 and 1 too.
Values   == {FAT_ENTRY_FREE, FAT_ENTRY_USED, RESERVED} \cup Clusters

(* Addresses of bytes, from the start of the data region.  What "cluster"  *)
(* 0 and 1 would be lies before it, in the copy of the table.              *)
dataClusterToAbsoluteAddress(c) == (c - 2) * clusterSize
DataRegion == 0 .. ((LastCluster - 1) * clusterSize - 1)
Bytes      == (-2 * clusterSize) .. ((LastCluster - 1) * clusterSize - 1)

VARIABLES
    fat,        \* The table: fat[c] is FREE, USED, or the cluster after c.
    fatCopy,    \* The copy of the table.
    data,       \* data[a]: the byte at address a.
    entry,      \* entry[f]: start cluster and size in f's directory entry.
    content,    \* content[f]: what f holds if its writes did what they say.
    op          \* The running call and its locals.

vars == <<fat, fatCopy, data, entry, content, op>>

NoFile == [start |-> 0, size |-> -1]
Idle   == [pc |-> "idle"]

EndOfChain(v) == v \in {FAT_ENTRY_FREE, FAT_ENTRY_USED}
-----------------------------------------------------------------------------
FreeEntries == {c \in Entries : fat[c] = FAT_ENTRY_FREE}

(* Mutant: the first data cluster, instead of 0, when there is none.       *)
getFreeFatEntryCluster_TwoIfFull ==
    IF FreeEntries = {} THEN 2
    ELSE CHOOSE c \in FreeEntries : \A d \in FreeEntries : c <= d

(* The first free entry of the table; 0 if there is none.  The code looks  *)
(* at as many entries as the partition has sectors.  On the BobaOS image   *)
(* these are the table and a part of its copy, where it finds no more.     *)
getFreeFatEntryCluster ==
    IF FreeEntries = {} THEN 0
    ELSE CHOOSE c \in FreeEntries : \A d \in FreeEntries : c <= d

(* Writes an entry of the table and then of the copy; with I/O faults,     *)
(* neither or only the first.                                              *)
writeFATEntry(cluster, value, ok) ==
    \/ /\ ok
       /\ fat' = [fat EXCEPT ![cluster] = value]
       /\ fatCopy' = [fatCopy EXCEPT ![cluster] = value]
    \/ /\ IoFaults /\ ~ ok
       /\ fat' \in {fat, [fat EXCEPT ![cluster] = value]}
       /\ UNCHANGED fatCopy

(* The call goes on with locals o, or ends with an error.                  *)
Continue(ok, o) == op' = IF ok THEN o ELSE Idle
-----------------------------------------------------------------------------
Init ==
    /\ fat = [c \in Entries |-> IF c < 2 THEN RESERVED
                                ELSE IF c = RootDir THEN FAT_ENTRY_USED
                                ELSE FAT_ENTRY_FREE]
    /\ fatCopy = fat
    /\ data = [a \in Bytes |-> 0]
    /\ entry \in [Files -> {NoFile, [start |-> 0, size |-> 0]}]
    /\ content = [f \in Files |-> <<>>]
    /\ op = Idle

(* openFile with create: the new file gets a cluster, then its entry.  A   *)
(* full disk leaves everything as it is.                                   *)
createFile(f) ==
    /\ op = Idle
    /\ entry[f] = NoFile
    /\ getFreeFatEntryCluster # 0
    /\ \E ok \in BOOLEAN :
          /\ writeFATEntry(getFreeFatEntryCluster, FAT_ENTRY_USED, ok)
          /\ Continue(ok, [pc |-> "entry", file |-> f,
                           start |-> getFreeFatEntryCluster])
    /\ UNCHANGED <<data, entry, content>>

createEntry ==
    /\ op.pc = "entry"
    /\ \/ entry' = [entry EXCEPT ![op.file] = [start |-> op.start, size |-> 0]]
       \/ IoFaults /\ UNCHANGED entry
    /\ op' = Idle
    /\ UNCHANGED <<fat, fatCopy, data, content>>
-----------------------------------------------------------------------------
(* writeFile(in) at startPos: file->position, or the size when appending.  *)
(* Both are at most the size, by fseek and fwrite.  fresh is               *)
(* startClusterWritten: the cluster of a file that had none.               *)

StartWrite(f, startPos, in, start, fresh) ==
    [pc       |-> "skip",
     file     |-> f,
     startPos |-> startPos,
     in       |-> in,
     fresh    |-> fresh,
     skip     |-> startPos \div clusterSize,    \* clustersToSkip
     cur      |-> start,
     old      |-> start,                        \* oldCluster
     next     |-> start,
     i        |-> 0,
     written  |-> 0]                            \* totalWritten

writeFile(f, startPos, in) ==
    /\ op = Idle
    /\ entry[f] # NoFile
    /\ startPos <= entry[f].size
    /\ startPos + Len(in) <= MaxSize
    /\ IF entry[f].start # 0
       THEN /\ op' = StartWrite(f, startPos, in, entry[f].start, 0)
            /\ UNCHANGED <<fat, fatCopy>>
       ELSE LET c == getFreeFatEntryCluster
            IN  /\ c # 0          \* else -EDISKSPACE
                /\ \E ok \in BOOLEAN :
                      /\ writeFATEntry(c, FAT_ENTRY_USED, ok)
                      /\ Continue(ok, StartWrite(f, startPos, in, c, c))
    /\ UNCHANGED <<data, entry, content>>

(* The walk over the clusters before startPos.  A write right behind a     *)
(* full last cluster needs one more; beyond that it is -ENFOUND.           *)
skipCluster ==
    /\ op.pc = "skip"
    /\ LET next == fat[op.cur]
       IN  op' = IF op.skip = 0
                 THEN [op EXCEPT !.pc = "unlink", !.old = op.cur, !.next = next]
                 ELSE IF ~ EndOfChain(next)
                 THEN [op EXCEPT !.cur = next, !.skip = @ - 1]
                 ELSE IF op.skip = 1 THEN [op EXCEPT !.pc = "append"]
                 ELSE Idle
    /\ UNCHANGED <<fat, fatCopy, data, entry, content>>

appendCluster ==
    /\ op.pc = "append"
    /\ \E ok \in BOOLEAN :
          /\ writeFATEntry(op.cur, getFreeFatEntryCluster, ok)
          /\ Continue(ok, [op EXCEPT !.pc = "appended",
                                     !.next = getFreeFatEntryCluster])
    /\ UNCHANGED <<data, entry, content>>

markAppended ==
    /\ op.pc = "appended"
    /\ \E ok \in BOOLEAN :
          /\ writeFATEntry(op.next, FAT_ENTRY_USED, ok)
          /\ Continue(ok, [op EXCEPT !.pc = "unlink", !.cur = op.next,
                                     !.old = op.next, !.next = FAT_ENTRY_USED])
    /\ UNCHANGED <<data, entry, content>>

(* Mutant: the clusters are walked over and not freed.                     *)
unlinkNext_Kept ==
    /\ op.pc = "unlink"
    /\ ~ EndOfChain(op.next)
    /\ op' = [op EXCEPT !.next = fat[op.next]]
    /\ UNCHANGED <<fat, fatCopy, data, entry, content>>

(* Mutant: the walk does not go on to the next cluster.                    *)
unlinkNext_Again ==
    /\ op.pc = "unlink"
    /\ ~ EndOfChain(op.next)
    /\ writeFATEntry(op.next, FAT_ENTRY_FREE, TRUE)
    /\ UNCHANGED <<data, entry, content, op>>

(* unlinkFatChain: frees what follows cur, one cluster at a time, and then *)
(* ends the chain at cur.                                                  *)
unlinkNext ==
    /\ op.pc = "unlink"
    /\ ~ EndOfChain(op.next)
    /\ \E ok \in BOOLEAN :
          /\ writeFATEntry(op.next, FAT_ENTRY_FREE, ok)
          /\ Continue(ok, [op EXCEPT !.next = fat[op.next]])
    /\ UNCHANGED <<data, entry, content>>

unlinkEnd ==
    /\ op.pc = "unlink"
    /\ EndOfChain(op.next)
    /\ \E ok \in BOOLEAN :
          /\ writeFATEntry(op.cur, FAT_ENTRY_USED, ok)
          /\ Continue(ok, [op EXCEPT !.pc = "write"])
    /\ UNCHANGED <<data, entry, content>>

startClusterPos == IF op.i = 0 THEN op.startPos % clusterSize ELSE 0

clustersToWrite ==
    LET end == (op.startPos % clusterSize) + Len(op.in)
    IN  (end \div clusterSize) + (IF end % clusterSize # 0 THEN 1 ELSE 0)

(* Mutant: no regard to the position in the first cluster.                 *)
firstChunk_NoTrim ==
    LET rest == Len(op.in) % clusterSize
    IN  IF rest = 0 THEN clusterSize ELSE rest

(* currentClusterToWrite: what goes into the first cluster, the last, and  *)
(* those between.                                                          *)
firstChunk ==
    LET rest == Len(op.in) % clusterSize
        n    == IF rest = 0 THEN clusterSize ELSE rest
        pos  == op.startPos % clusterSize
    IN  IF n + pos > clusterSize THEN n - ((n + pos) % clusterSize) ELSE n

chunk ==
    IF op.i = 0 THEN firstChunk
    ELSE IF op.i + 1 = clustersToWrite THEN Len(op.in) - op.written
    ELSE clusterSize

(* One round of the loop: a cluster's data.  The data of a failed write    *)
(* may have reached the disk or not.  A cluster that is none, RESERVED,    *)
(* has its address before the data region, where 32 bits wrap; the call    *)
(* then ends when getFatEntry looks for its entry behind the partition.    *)
writeCluster ==
    /\ op.pc = "write"
    /\ LET addr == dataClusterToAbsoluteAddress(op.cur) + startClusterPos
           next == fat[op.cur]
           o    == [op EXCEPT !.i = @ + 1, !.written = @ + chunk]
       IN  \E ok \in BOOLEAN :
             /\ ok \/ IoFaults
             /\ \/ data' = [a \in Bytes |->
                               IF a \in addr .. (addr + chunk - 1)
                               THEN op.in[op.written + a - addr + 1]
                               ELSE data[a]]
                \/ ~ ok /\ UNCHANGED data
             /\ Continue(ok /\ op.cur \in Entries,
                             IF op.i + 1 = clustersToWrite
                             THEN [o EXCEPT !.pc = "directory"]
                             ELSE IF next = FAT_ENTRY_USED
                             THEN [o EXCEPT !.pc = "grow"]
                             ELSE [o EXCEPT !.cur = next])
    /\ UNCHANGED <<fat, fatCopy, entry, content>>

(* Mutant: the new cluster is not marked.                                  *)
markGrown_NotMarked ==
    /\ op.pc = "grown"
    /\ op' = [op EXCEPT !.pc = "write", !.cur = op.next, !.old = op.next]
    /\ UNCHANGED <<fat, fatCopy, data, entry, content>>

(* The next cluster is linked behind the old one and marked; the results   *)
(* of these two writes are not looked at.                                  *)
growChain ==
    /\ op.pc = "grow"
    /\ \E ok \in BOOLEAN : writeFATEntry(op.old, getFreeFatEntryCluster, ok)
    /\ op' = [op EXCEPT !.pc = "grown", !.next = getFreeFatEntryCluster]
    /\ UNCHANGED <<data, entry, content>>

markGrown ==
    /\ op.pc = "grown"
    /\ \E ok \in BOOLEAN : writeFATEntry(op.next, FAT_ENTRY_USED, ok)
    /\ op' = [op EXCEPT !.pc = "write", !.cur = op.next, !.old = op.next]
    /\ UNCHANGED <<data, entry, content>>

(* The directory entry gets the new size, and the cluster of a file that   *)
(* had none.                                                               *)
updateEntry ==
    /\ op.pc = "directory"
    /\ \/ /\ entry' = [entry EXCEPT ![op.file] =
                         [start |-> IF op.fresh > 0 THEN op.fresh ELSE @.start,
                          size  |-> op.startPos + Len(op.in)]]
          /\ content' = [content EXCEPT ![op.file] =
                           SubSeq(@, 1, op.startPos) \o op.in]
       \/ IoFaults /\ UNCHANGED <<entry, content>>
    /\ op' = Idle
    /\ UNCHANGED <<fat, fatCopy, data>>

Step ==
    \/ createEntry \/ skipCluster \/ appendCluster \/ markAppended
    \/ unlinkNext \/ unlinkEnd \/ writeCluster \/ growChain \/ markGrown
    \/ updateEntry

Next ==
    \/ \E f \in Files :
          \/ createFile(f)
          \/ \E startPos \in 0 .. MaxSize, in \in Inputs :
                writeFile(f, startPos, in)
    \/ Step

(* A call that has begun runs on: nothing in the kernel preempts it.       *)
Spec == Init /\ [][Next]_vars /\ WF_vars(Step)
-----------------------------------------------------------------------------
(* readFatFile: the size bytes of f from filePos on as the code gathers    *)
(* them, or an error: past the end of the chain, or of the partition.      *)

EFSYSTEM == <<-7>>

(* The clusters of a chain, as getFatEntry leads from one to the next.     *)
Walk(start, n) ==
    LET at[k \in 0 .. n] ==
            IF k = 0 THEN start
            ELSE IF at[k - 1] \in Clusters THEN fat[at[k - 1]]
            ELSE at[k - 1]
    IN  at

Concat(parts) ==
    LET upTo[k \in 0 .. Len(parts)] ==
            IF k = 0 THEN <<>> ELSE upTo[k - 1] \o parts[k]
    IN  upTo[Len(parts)]

readFatFile(f, size, filePos) ==
    LET toRead  == (size \div clusterSize) +
                      (IF size % clusterSize # 0 THEN 1 ELSE 0)
        toSkip  == filePos \div clusterSize
        walk    == Walk(entry[f].start, toSkip + toRead)
        Chunk(i) == IF size < clusterSize THEN size    \* currentToRead
                    ELSE IF i > 0 /\ i + 1 = toRead
                            /\ (filePos + size) % clusterSize # 0
                    THEN size % clusterSize
                    ELSE clusterSize
        Addr(i) == dataClusterToAbsoluteAddress(walk[toSkip + i])
                      + (IF i = 0 THEN filePos % clusterSize ELSE 0)
        Part(i) == [k \in 1 .. Chunk(i) |-> data[Addr(i) + k - 1]]
    IN  IF \A i \in 0 .. (toRead - 1) :
              ~ EndOfChain(walk[toSkip + i]) /\ Addr(i) + Chunk(i) - 1 \in Bytes
        THEN Concat([i \in 1 .. toRead |-> Part(i - 1)])
        ELSE EFSYSTEM
-----------------------------------------------------------------------------
Busy(f) == op # Idle /\ op.file = f

WritePcs == {"skip", "append", "appended", "unlink", "write", "grow",
             "grown", "directory"}

(* The first cluster of the file the running call works on.                *)
OpStart == IF op.fresh > 0 THEN op.fresh ELSE entry[op.file].start

Chain(start) ==
    LET walk == Walk(start, LastCluster)
    IN  {walk[k] : k \in 0 .. LastCluster} \cap Clusters

(* The same without counting: cluster c is in the chain that begins with   *)
(* start if no set of clusters that the links do not leave has start only. *)
Closed(S)         == \A c \in S : fat[c] \in Clusters => fat[c] \in S
InChain(start, c) == \A S \in SUBSET (Clusters \ {c}) : ~ (start \in S /\ Closed(S))

Starts == {entry[f].start : f \in Files} \cap Clusters

(* A cluster that is marked for a file and not yet in its entry.           *)
Pending ==
    IF op.pc = "entry" THEN {op.start}
    ELSE IF op.pc \in WritePcs THEN {op.fresh} \cap Clusters
    ELSE {}

Heads == Starts \cup Pending \cup {RootDir}

(* Clusters a file of this size is stored in; an empty file keeps one.     *)
ClustersFor(size) ==
    IF size = 0 THEN 1 ELSE (size + clusterSize - 1) \div clusterSize

(* What a call may keep as a cluster: 0 is the answer of a failed search.  *)
Links == {0} \cup (Clusters \ {RootDir})

Calls ==
    {Idle}
    \cup [pc : {"entry"}, file : Files, start : Clusters]
    \cup [pc : WritePcs, file : Files, startPos : Nat, in : Inputs,
          fresh : Links, skip : Nat, cur : Values, old : Links,
          next : Links \cup {FAT_ENTRY_USED}, i : Nat, written : Nat]

(* The table holds entries, the directory starts and sizes; what a call    *)
(* keeps in its locals are clusters, counts and positions, and the file    *)
(* ends within bounds.  Only the first two entries are reserved.  A file   *)
(* without a cluster is empty, and gets one for the call that creates or   *)
(* writes it.                                                              *)
TypeOK ==
    /\ fat \in [Entries -> Values]
    /\ fatCopy \in [Entries -> Values]
    /\ \A c \in Entries : fat[c] = RESERVED <=> c < 2
    /\ DOMAIN data = Bytes
    /\ entry \in [Files -> [start : Links, size : -1 .. MaxSize]]
    /\ \A f \in Files : entry[f].start = 0 => entry[f].size <= 0
    /\ op \in Calls
    /\ op.pc = "entry" => entry[op.file].start = 0 /\ op.start # RootDir
    /\ op.pc \in WritePcs =>
          /\ op.startPos + Len(op.in) <= MaxSize
          /\ op.fresh = 0 <=> entry[op.file].start # 0
          /\ op.fresh # 0 => op.skip = 0

(* No cluster has two owners, at any moment: no two entries of the table   *)
(* lead to it, none leads to the start of a file or of the root directory, *)
(* and no two files start in it.  getFreeFatEntryCluster hands a cluster   *)
(* out before writeFATEntry marks it, so this rests on the order of both.  *)
NoCrossLinks ==
    /\ \A c, d \in Clusters :
          c # d /\ fat[c] = fat[d] => fat[c] \notin Clusters
    /\ \A c \in Clusters : fat[c] \notin Heads
    /\ \A f, g \in Files :
          f # g /\ entry[f].start = entry[g].start => entry[f].start = 0
    /\ RootDir \notin Starts \cup Pending
    /\ Pending \cap Starts = {}

(* Following links always ends: in every set of clusters with links, one   *)
(* leads out of the set.  skipCluster and unlinkFatChain stop for this.    *)
NoCycles ==
    \A S \in SUBSET {c \in Clusters : fat[c] \in Clusters} :
        S # {} => \E c \in S : fat[c] \notin S

(* The entry whose link the running call has in its hands: it leads to a   *)
(* cluster not yet marked, or to the first one that unlinkFatChain freed.  *)
Loose(c) ==
    \/ op.pc \in {"appended", "unlink"} /\ c = op.cur
    \/ op.pc = "grown" /\ c = op.old

(* Links and heads lead to clusters that are in use; and a cluster in use  *)
(* is a head or has a link that leads to it, but for the one unlinkFatChain*)
(* frees next.  So neither is a cluster of a file handed out again, nor is *)
(* one lost, whatever lengths and positions writeFatFile is called with.   *)
NoLooseEnds ==
    /\ \A c \in Clusters :
          fat[c] \in Clusters /\ ~ Loose(c) => fat[fat[c]] # FAT_ENTRY_FREE
    /\ \A c \in Heads : fat[c] # FAT_ENTRY_FREE
    /\ \A c \in Clusters \ Heads :
          \/ fat[c] = FAT_ENTRY_FREE
          \/ op.pc = "unlink" /\ c = op.next
          \/ \E d \in Clusters : fat[d] = c

(* What each place of writeFatFile finds: the cluster of the call is in    *)
(* the chain of its file, and the entries it is about to write are what    *)
(* the code took them for when it read them, some steps before.            *)
OwnChain ==
    op.pc \in WritePcs \ {"directory"} =>
        /\ op.cur \in Clusters /\ InChain(OpStart, op.cur)
        /\ fat[op.cur] # FAT_ENTRY_FREE
        /\ op.pc \in {"unlink", "write", "grow", "grown"} => op.old = op.cur
        /\ op.pc \in {"append", "write", "grow"} => fat[op.cur] = FAT_ENTRY_USED
        /\ op.pc \in {"appended", "grown"} =>
              /\ fat[op.cur] = op.next /\ op.next \in Clusters
              /\ fat[op.next] = FAT_ENTRY_FREE
        /\ op.pc = "unlink" /\ op.next \in Clusters =>
              /\ fat[op.next] # FAT_ENTRY_FREE /\ op.next \notin Heads
              /\ \A c \in Clusters : fat[c] = op.next => c = op.cur
              /\ ~ InChain(op.next, op.cur)
        /\ op.pc = "unlink" /\ fat[op.cur] \in Clusters =>
              fat[op.cur] = op.next \/ fat[fat[op.cur]] = FAT_ENTRY_FREE

(* The data loop takes all of its input and no more, and no round writes   *)
(* beyond its cluster: what firstChunk puts into the first cluster fits    *)
(* with what the other rounds count on.                                    *)
ChunksFit ==
    op.pc \in WritePcs \ {"directory"} =>
        /\ op.i < clustersToWrite
        /\ op.pc \in {"grow", "grown"} => op.i > 0
        /\ op.i = 0 => op.written = 0
        /\ op.i > 0 => op.written = firstChunk + ((op.i - 1) * clusterSize)
        /\ op.pc \in {"skip", "append", "appended", "unlink"} => op.i = 0
        /\ startClusterPos + chunk \in 1 .. clusterSize
        /\ op.written + chunk <= Len(op.in)

(* Without faults and while there is room: the table is free of cross      *)
(* links, cycles and loose ends at every step of a call, and the step that *)
(* writes data is inside a cluster of its own file (writeFatFile).         *)
TableInv ==
    TypeOK /\ NoCrossLinks /\ NoCycles /\ NoLooseEnds /\ OwnChain /\ ChunksFit

(* Whatever fails, the root directory stays what it is: nothing leads to   *)
(* its cluster, so no file is ever written over it.                        *)
RootDirSafe ==
    /\ fat[RootDir] = FAT_ENTRY_USED
    /\ \A c \in Entries : fat[c] # RootDir
    /\ RootDir \notin Starts
    /\ op.pc = "write" => op.cur # RootDir

(* RootDirSafe with what it rests on: no local of a call leads to the root *)
(* directory.  After a search on a full disk a call may work on entry 0,   *)
(* and if that could not be marked, go on from it to the value RESERVED.   *)
SurvivesInv ==
    /\ RootDirSafe
    /\ fat \in [Entries -> Values] /\ fat[1] = RESERVED
    /\ \A c \in Clusters : fat[c] # RESERVED
    /\ entry \in [Files -> [start : Links, size : Int]]
    /\ op \in Calls
    /\ op.pc = "entry" => op.start # RootDir
    /\ op.pc \in WritePcs => op.cur \in Links \cup {RESERVED}
    /\ op.pc \in {"skip", "append"} => op.cur \in Clusters
    /\ op.pc \in {"appended", "grown"} => op.next \in Links
    /\ op.pc \in {"appended", "unlink"} => op.cur # RESERVED

(* Between calls the table holds exactly the files: a file that has a      *)
(* cluster has as many as its size needs, and a cluster in no chain is     *)
(* free.  writeFatFile and unlinkFatChain leak nothing and free too much   *)
(* of nothing.                                                             *)
AllocationExact ==
    op = Idle =>
        /\ \A f \in Files : entry[f].start # 0 =>
              Cardinality(Chain(entry[f].start)) = ClustersFor(entry[f].size)
        /\ {c \in Clusters : fat[c] # FAT_ENTRY_FREE} =
              UNION {Chain(s) : s \in Starts \cup {RootDir}}

(* A file that is not being written reads back as the writes to it so far  *)
(* left it, whatever the calls on the other files are doing: any part of   *)
(* it that begins with a cluster or lies within one.  (readFatFile counts  *)
(* clusters without regard to filePos, so a part that begins inside one    *)
(* and crosses its end is read wrong.)                                     *)
ReadBack ==
    \A f \in Files : entry[f] # NoFile /\ ~ Busy(f) =>
        /\ entry[f].size = Len(content[f])
        /\ \A pos \in 0 .. entry[f].size, n \in 1 .. MaxSize :
              /\ pos + n <= entry[f].size
              /\ pos % clusterSize = 0 \/ (pos % clusterSize) + n <= clusterSize
              => readFatFile(f, n, pos) = SubSeq(content[f], pos + 1, pos + n)

(* Every call comes to an end: the walks of writeFatFile and               *)
(* unlinkFatChain follow links of the disk, so this needs chains that end. *)
Terminates == op # Idle ~> op = Idle
=============================================================================
