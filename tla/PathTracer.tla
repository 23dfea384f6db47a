----------------------------- MODULE PathTracer -----------------------------
(***************************************************************************)
(* vfsl/pathTracer.c: a path is taken apart into a linked list of parts.   *)
(*                                                                         *)
(* A path is the sequence of what follows the volume label: names and      *)
(* slashes.  A part is its number in the order of allocation; live are the *)
(* parts in the heap.  Label, length and volume of the path are right,     *)
(* otherwise createPathTracer allocates nothing.                           *)
(***************************************************************************)
EXTENDS Integers, Sequences, FiniteSets, SequencesExt

CONSTANT Paths   \* The paths callers open.

VARIABLES
    tracer,      \* The tracer of the running call: its path and parts.
    live         \* The parts that are allocated.

Slash    == "/"
Nothing  == ""   \* pathPartCounter is 0.
NoTracer == [path |-> << >>, parts |-> << >>, linked |-> {}]

(* Between two names there is a slash.                                     *)
ASSUME PathAssumption ==
    \A path \in Paths :
        /\ path \in Seq(STRING) /\ \A i \in DOMAIN path : path[i] # Nothing
        /\ \A i \in 2 .. Len(path) : path[i - 1] = Slash \/ path[i] = Slash

TracerInit == tracer = NoTracer /\ live = {}

(* One round of the loop: a slash ends a directory, and begins the next    *)
(* part.  An empty part is -EFORMAT.                                       *)
ReadNext(s, x) ==
    IF x # Slash THEN [s EXCEPT !.name = x]
    ELSE IF s.bad \/ s.name = Nothing THEN [s EXCEPT !.bad = TRUE]
    ELSE [s EXCEPT !.parts = Append(@, [name |-> s.name, type |-> "dir"]), !.name = Nothing]

Scan(path) ==
    LET at[i \in 0 .. Len(path)] ==
            IF i = 0 THEN [parts |-> << >>, name |-> Nothing, bad |-> FALSE]
            ELSE ReadNext(at[i - 1], path[i])
    IN  at

Parse(path) == Scan(path)[Len(path)]

(* Mutant: the part behind the last slash stays linked when it is freed.   *)
MutLinked(s) == 1 .. Len(s.parts) + 1

(* The parts root and the next pointers lead to.  The part that was begun  *)
(* behind the last slash is unlinked, unless it is the root.               *)
Linked(s) == 1 .. Len(s.parts) + (IF s.name # Nothing \/ s.parts = << >> THEN 1 ELSE 0)

(* With a wrong path, or when the allocation of a part fails, the parts so *)
(* far are linked and freed.                                               *)
createPathTracer(path) ==
    LET s == Parse(path) IN
    /\ ~ s.bad
    /\ tracer' = [path |-> path, linked |-> Linked(s),
                  parts |-> IF s.name = Nothing THEN s.parts
                            ELSE Append(s.parts, [name |-> s.name, type |-> "file"])]
    /\ live' = 1 .. Len(s.parts) + (IF s.name = Nothing THEN 0 ELSE 1)

destroyPathTracer == tracer' = NoTracer /\ live' = live \ tracer.linked

FileNames ==
    {tracer.parts[i].name : i \in {j \in DOMAIN tracer.parts : tracer.parts[j].type = "file"}}

pathTracerGetPathString ==
    FlattenSeq([i \in DOMAIN tracer.parts |->
        IF tracer.parts[i].type = "dir" THEN <<tracer.parts[i].name, Slash>>
        ELSE <<tracer.parts[i].name>>])
-----------------------------------------------------------------------------
(* The path a tracer is turned back into, which the file system looks up   *)
(* again in every read and write, is the one the tracer was made of.       *)
PathRoundTrip == pathTracerGetPathString = tracer.path

(* destroyPathTracer frees every part that is still allocated and none     *)
(* twice.  (The path of a root directory is excepted: its only part is     *)
(* freed by createPathTracer and stays linked.)                            *)
PartsFreedOnce ==
    IF tracer.path = << >> THEN live = {} ELSE live = tracer.linked

(* A tracer is the path it was made of, and ends with all of its parts     *)
(* freed once (pathTracer.c).                                              *)
TracerInv == PathRoundTrip /\ PartsFreedOnce
=============================================================================
