------------------------------- MODULE KHeap -------------------------------
(***************************************************************************)
(* What kheap.h promises its callers, whichever allocator kheapInit        *)
(* selected: kzalloc hands out zeroed memory that no one else holds, it    *)
(* returns NULL only when no such memory is left, what a caller stores in  *)
(* its block stays there until the caller itself stores again or frees the *)
(* block, and kzfree of anything that is not a block changes nothing.      *)
(*                                                                         *)
(* Nothing here says how the allocator keeps its books.                    *)
(***************************************************************************)
EXTENDS Integers

CONSTANTS
    Pages,      \* The pages of the heap, a set of consecutive integers.
    Callers,    \* The parts of the kernel that hold (at most) one block each.
    Requests    \* The numbers of pages a caller may ask for.

VARIABLES
    owned,      \* owned[c]: the pages caller c holds; {} if it holds nothing.
    contents,   \* contents[p]: who stored in page p last, or how it was left.
    answer      \* The last call: what was asked and whether it was granted.

heapVars == <<owned, contents, answer>>

Zeroed  == "zeroed"
Unknown == "unknown"

Taken == UNION {owned[c] : c \in Callers}

(* The n consecutive pages from a on are all in the heap and held by nobody.*)
FreeRun(a, n) == \A p \in a .. (a + n - 1) : p \in Pages /\ p \notin Taken

HeapInit ==
    /\ owned = [c \in Callers |-> {}]
    /\ contents = [p \in Pages |-> Unknown]
    /\ answer = [call |-> "none", pages |-> 0, ok |-> TRUE]

(* c asks for n pages and is given some free run, zeroed.                  *)
Grant(c, n) ==
    /\ owned[c] = {}
    /\ \E a \in Pages :
          /\ FreeRun(a, n)
          /\ owned' = [owned EXCEPT ![c] = a .. (a + n - 1)]
          /\ contents' = [p \in Pages |->
                            IF p \in a .. (a + n - 1) THEN Zeroed
                                                      ELSE contents[p]]
    /\ answer' = [call |-> "kzalloc", pages |-> n, ok |-> TRUE]

(* c is told NULL, which it may be only if there is no free run of n pages. *)
Refuse(c, n) ==
    /\ owned[c] = {}
    /\ \A a \in Pages : ~ FreeRun(a, n)
    /\ answer' = [call |-> "kzalloc", pages |-> n, ok |-> FALSE]
    /\ UNCHANGED <<owned, contents>>

Fill(c) ==
    /\ owned[c] # {}
    /\ contents' = [p \in Pages |-> IF p \in owned[c] THEN c ELSE contents[p]]
    /\ UNCHANGED <<owned, answer>>

Release(c) ==
    /\ owned[c] # {}
    /\ owned' = [owned EXCEPT ![c] = {}]
    /\ answer' = [call |-> "kzfree", pages |-> 0, ok |-> TRUE]
    /\ UNCHANGED contents

(* kzfree of a pointer that is no block's.                                 *)
Reject ==
    /\ answer' = [call |-> "kzfree", pages |-> 0, ok |-> FALSE]
    /\ UNCHANGED <<owned, contents>>

HeapNext ==
    \/ \E c \in Callers :
          \/ \E n \in Requests : Grant(c, n) \/ Refuse(c, n)
          \/ Fill(c)
          \/ Release(c)
    \/ Reject

HeapSpec == HeapInit /\ [][HeapNext]_heapVars
=============================================================================
