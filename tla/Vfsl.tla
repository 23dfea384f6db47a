-------------------------------- MODULE Vfsl --------------------------------
(***************************************************************************)
(* vfsl/virtualFilesystemLayer.c: the table of open files and fopen,       *)
(* fseek, fread, fwrite and fclose on it.                                  *)
(*                                                                         *)
(* A bucket of openFiles and the fileListEntry nodes behind it are a       *)
(* sequence of handles.  The file system below is what openFile, readFile  *)
(* and writeFile of a volume do to the sizes of files; any of them may     *)
(* fail, and then leaves the size as it was.  A closed handle is not freed *)
(* by the code; the model uses its name again.                             *)
(***************************************************************************)
EXTENDS Integers, Sequences

CONSTANTS
    Paths,
    Hash,           \* Hash[p]: strHash(p) % BOBAOS_MAX_OPEN_FILES
    Handles,        \* Addresses of struct file.
    Modes,          \* The mode strings callers pass, as sequences.
    clusterSize,
    MaxSize         \* Bound: no file grows beyond this size.

ASSUME VfslAssumption ==
    /\ Paths = DOMAIN Hash
    /\ clusterSize \in Nat \ {0}
    /\ MaxSize \in Nat

Absent == -1

VARIABLES
    openFiles,      \* openFiles[b]: the handles listed in bucket b.
    handle,         \* handle[h]: what h points to, for the open ones.
    disk,           \* disk[p]: size of the file in its directory entry.
    null            \* The accesses made through a NULL pointer so far.

vars == <<openFiles, handle, disk, null>>

Buckets == {Hash[p] : p \in Paths}
Open    == DOMAIN handle

(* Nothing is known of the kernel once it has written to a NULL pointer.   *)
Sane == "write" \notin null
-----------------------------------------------------------------------------
(* The bits of the mode; none if the string is not a mode.                 *)
checkMode(mode) ==
    LET used == {mode[i] : i \in DOMAIN mode}
    IN  IF used \subseteq {"r"} \/ used \subseteq {"w", "a"} THEN used ELSE {}

Listed(p) == {i \in DOMAIN openFiles[Hash[p]] :
                 handle[openFiles[Hash[p]][i]].path = p}

(* Mutant: readers do not count.                                           *)
checkIfFileIsOpenString_Writers(p) ==
    \E i \in Listed(p) : "w" \in handle[openFiles[Hash[p]][i]].mode

checkIfFileIsOpenString(p) == Listed(p) # {}

(* The search goes on to the next pointer of the last entry and reads      *)
(* through it, unless the bucket is empty.                                 *)
SearchReads(p) ==
    IF Listed(p) = {} /\ openFiles[Hash[p]] # <<>> THEN {"read"} ELSE {}

(* addOpenFile: behind the first entry, or behind the entries of the same  *)
(* path; what followed there is dropped.                                   *)
addOpenFile(p, h) ==
    LET list == openFiles[Hash[p]]
        Same(i) == handle[list[i]].path = p
        at == CHOOSE i \in DOMAIN list :
                 /\ ~ Same(i) \/ i = Len(list)
                 /\ \A j \in 1 .. (i - 1) : Same(j)
    IN  openFiles' = [openFiles EXCEPT ![Hash[p]] =
                        IF list = <<>> THEN <<h>>
                        ELSE Append(SubSeq(list, 1, at), h)]

(* Mutant: the entry stays.                                                *)
closeFile_Kept(p) == UNCHANGED openFiles

(* closeFile: the entry takes over the next one.  The back pointer of the  *)
(* one after it is set without asking whether there is one.                *)
closeFile(p) ==
    LET list == openFiles[Hash[p]]
        i == CHOOSE k \in Listed(p) : \A j \in Listed(p) : k <= j
    IN  openFiles' = [openFiles EXCEPT ![Hash[p]] =
                        SubSeq(list, 1, i - 1) \o SubSeq(list, i + 1, Len(list))]

CloseWrites(p) ==
    LET list == openFiles[Hash[p]]
        i == CHOOSE k \in Listed(p) : \A j \in Listed(p) : k <= j
    IN  IF Len(list) > 1 /\ i + 1 >= Len(list) THEN {"write"} ELSE {}
-----------------------------------------------------------------------------
Init ==
    /\ openFiles = [b \in Buckets |-> <<>>]
    /\ handle = <<>>
    /\ disk \in [Paths -> {Absent} \cup 0 .. MaxSize]
    /\ null = {}

(* A file is created for a mode with w and without a.                      *)
fopen(p, mode, h) ==
    /\ Sane
    /\ h \notin Open
    /\ ~ checkIfFileIsOpenString(p)             \* else -EIUSE
    /\ checkMode(mode) # {}                     \* else -EWMODE
    /\ \/ disk[p] # Absent                      \* else -ENFOUND
       \/ "w" \in checkMode(mode) /\ "a" \notin checkMode(mode)
    /\ disk' = [disk EXCEPT ![p] = IF @ = Absent THEN 0 ELSE @]
    /\ handle' = [g \in Open \cup {h} |->
                    IF g = h THEN [path |-> p, mode |-> checkMode(mode),
                                   position |-> 0, size |-> disk'[p]]
                    ELSE handle[g]]
    /\ addOpenFile(p, h)
    /\ null' = null \cup SearchReads(p)

(* fopen that ends after the search: no mode, no such file, an I/O error.  *)
fopenRefused(p) ==
    /\ Sane
    /\ ~ checkIfFileIsOpenString(p)
    /\ null' = null \cup SearchReads(p)
    /\ UNCHANGED <<openFiles, handle, disk>>

fseek(h, offset) ==
    /\ Sane
    /\ offset <= handle[h].size
    /\ handle' = [handle EXCEPT ![h].position = offset]
    /\ UNCHANGED <<openFiles, disk, null>>

(* fread, fwrite and fclose look the handle's path up first; one that is   *)
(* not listed gets -ENFOUND and nothing is changed.                        *)
Found(h) ==
    /\ Sane
    /\ checkIfFileIsOpenString(handle[h].path)

(* The file system can read to the end of the file's last cluster.         *)
RoundUp(size) == ((size + clusterSize - 1) \div clusterSize) * clusterSize

fread(h, n) ==
    /\ Found(h)
    /\ "r" \in handle[h].mode
    /\ n <= handle[h].size + handle[h].position         \* else -EOF
    /\ handle[h].position + n <= RoundUp(handle[h].size)
    /\ handle' = [handle EXCEPT ![h].position = @ + n]
    /\ UNCHANGED <<openFiles, disk, null>>

(* Mutant: an append sets the size as any other write does.                *)
Written_NoAppend(f, n) == [f EXCEPT !.position = @ + n, !.size = f.position + n]

(* The handle after n bytes have been written.                             *)
Written(f, n) ==
    IF "a" \in f.mode
    THEN [f EXCEPT !.position = @ + n, !.size = @ + n]
    ELSE [f EXCEPT !.position = @ + n, !.size = f.position + n]

(* Where writeFile starts.                                                 *)
StartPos(f) == IF "a" \in f.mode THEN f.size ELSE f.position

fwrite(h, n) ==
    /\ Found(h)
    /\ "w" \in handle[h].mode
    /\ StartPos(handle[h]) + n <= MaxSize
    /\ disk' = [disk EXCEPT ![handle[h].path] = StartPos(handle[h]) + n]
    /\ handle' = [handle EXCEPT ![h] = Written(@, n)]
    /\ UNCHANGED <<openFiles, null>>

fclose(h) ==
    /\ Found(h)
    /\ closeFile(handle[h].path)
    /\ null' = null \cup CloseWrites(handle[h].path)
    /\ handle' = [g \in Open \ {h} |-> handle[g]]
    /\ UNCHANGED disk

(* The calls of those who hold the handles hs.                             *)
Calls(hs) ==
    \/ \E p \in Paths : \/ \E mode \in Modes, h \in Handles : fopen(p, mode, h)
                        \/ fopenRefused(p)
    \/ \E h \in hs :
          \/ \E n \in 0 .. MaxSize : fseek(h, n) \/ fread(h, n) \/ fwrite(h, n)
          \/ fclose(h)

Next == Calls(Open)

Spec == Init /\ [][Next]_vars
-----------------------------------------------------------------------------
(* Handles are listed in buckets and remember a file, a mode and a size    *)
(* within the bound; every call of the layer keeps it so.                  *)
File == [path : Paths, mode : {{"r"}, {"w"}, {"a"}, {"w", "a"}},
         position : Nat, size : 0 .. MaxSize]

TypeOK ==
    /\ openFiles \in [Buckets -> Seq(Handles)]
    /\ Open \subseteq Handles
    /\ handle \in [Open -> File]
    /\ disk \in [Paths -> {Absent} \cup 0 .. MaxSize]
    /\ null \subseteq {"read", "write"}

(* A file has at most one open handle: fopen finds the first one in the    *)
(* table, whatever was opened and closed in between.                       *)
OneHandlePerPath ==
    \A g, h \in Open : handle[g].path = handle[h].path => g = h

(* Every open handle is found in the table, so that fread, fwrite and      *)
(* fclose accept it, and the table lists no other.                         *)
ListedIffOpen ==
    /\ \A b \in Buckets : \A i \in DOMAIN openFiles[b] :
          openFiles[b][i] \in Open /\ Hash[handle[openFiles[b][i]].path] = b
    /\ \A h \in Open : \E i \in DOMAIN openFiles[Hash[handle[h].path]] :
          openFiles[Hash[handle[h].path]][i] = h

(* A second entry is made in a bucket only after the search of fopen has   *)
(* read through the end of its list.                                       *)
OneHandlePerBucket == \A b \in Buckets : Len(openFiles[b]) <= 1

(* A writer stands inside its file, so that writeFile is never asked to    *)
(* start beyond the end.                                                   *)
WritersInFile ==
    \A h \in Open : "w" \in handle[h].mode => handle[h].position <= handle[h].size

(* Pointers that are NULL are only used when two paths share a bucket.     *)
NullMeansCollision ==
    null # {} => \E p, q \in Paths : p # q /\ Hash[p] = Hash[q]

(* Until the first access through NULL, table, handles and files belong    *)
(* together after every sequence of fopen, fseek, fread, fwrite and        *)
(* fclose, for every hash (virtualFilesystemLayer.c).                      *)
HandlesInv ==
    /\ TypeOK
    /\ NullMeansCollision
    /\ null = {} => OneHandlePerPath /\ ListedIffOpen /\ OneHandlePerBucket /\ WritersInFile

(* The size a handle remembers is the size in the directory entry: only    *)
(* fwrite through that handle changes either, and it changes them alike,   *)
(* until the first access through NULL.                                    *)
SizeInSync ==
    null = {} => \A h \in Open : handle[h].size = disk[handle[h].path]
=============================================================================
