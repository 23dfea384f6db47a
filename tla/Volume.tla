------------------------------ MODULE Volume -------------------------------
(***************************************************************************)
(* What partitionStream.h promises the filesystem drivers: a partition is  *)
(* an array of bytes, a stream is a cursor into one of them.  A successful *)
(* read yields the bytes under the cursor, a successful write replaces     *)
(* exactly those bytes, and both move the cursor past them.  A read or     *)
(* write that fails leaves the cursor where it was; a failed write may     *)
(* have replaced some of the bytes it was asked to replace, and no others. *)
(***************************************************************************)
EXTENDS Integers

CONSTANTS
    Size,           \* Size[l]: bytes of the partition with label l.
    Streams,        \* The streams that may be open.
    Byte,           \* The values of a byte.
    Lengths         \* The lengths reads and writes are asked for.

VARIABLES
    vol,            \* vol[l]: the bytes of the partition with label l.
    on,             \* on[st]: the label of the partition st was made for.
    cur,            \* cur[st]: the position of stream st; -1 if it is closed.
    reply           \* The last operation: its kind, success, the bytes read.

volumeVars == <<vol, on, cur, reply>>

Labels     == DOMAIN Size
Offsets(l) == 0 .. (Size[l] - 1)
Nothing    == <<>>

(* A transfer of len bytes through st stays inside its partition.          *)
Covers(st, len) == cur[st] + len <= Size[on[st]]

VolumeInit ==
    /\ \A l \in Labels : vol[l] \in [Offsets(l) -> Byte]
    /\ on \in [Streams -> Labels]
    /\ cur = [st \in Streams |-> -1]
    /\ reply = [op |-> "none", ok |-> TRUE, data |-> Nothing]

Open(st, l) ==
    /\ cur[st] = -1
    /\ \/ /\ cur' = [cur EXCEPT ![st] = 0]
          /\ on' = [on EXCEPT ![st] = l]
       \/ UNCHANGED <<cur, on>>
    /\ reply' = [op |-> "create", ok |-> cur'[st] # -1, data |-> Nothing]
    /\ UNCHANGED vol

Close(st) ==
    /\ cur[st] # -1
    /\ cur' = [cur EXCEPT ![st] = -1]
    /\ reply' = [op |-> "destroy", ok |-> TRUE, data |-> Nothing]
    /\ UNCHANGED <<vol, on>>

SeekTo(st) ==
    /\ cur[st] # -1
    /\ \/ /\ \E p \in Offsets(on[st]) : cur' = [cur EXCEPT ![st] = p]
          /\ reply' = [op |-> "seek", ok |-> TRUE, data |-> Nothing]
       \/ /\ UNCHANGED cur
          /\ reply' = [op |-> "seek", ok |-> FALSE, data |-> Nothing]
    /\ UNCHANGED <<vol, on>>

Get(st) ==
    /\ cur[st] # -1
    /\ \/ \E len \in Lengths :
             /\ Covers(st, len)
             /\ cur' = [cur EXCEPT ![st] = @ + len]
             /\ reply' = [op |-> "read", ok |-> TRUE,
                          data |-> [k \in 1 .. len |->
                                      vol[on[st]][cur[st] + k - 1]]]
       \/ /\ UNCHANGED cur
          /\ reply' = [op |-> "read", ok |-> FALSE, data |-> Nothing]
    /\ UNCHANGED <<vol, on>>

(* in is what the caller wants written, a sequence of bytes.  A failed     *)
(* write reached some of the bytes from the cursor on.                     *)
Put(st, in, len) ==
    LET Replaced(n) == [vol EXCEPT ![on[st]] =
                          [i \in Offsets(on[st]) |->
                             IF i \in cur[st] .. (cur[st] + n - 1)
                             THEN in[i - cur[st] + 1] ELSE @[i]]]
    IN  /\ cur[st] # -1
        /\ \/ /\ Covers(st, len)
              /\ vol' = Replaced(len)
              /\ cur' = [cur EXCEPT ![st] = @ + len]
              /\ reply' = [op |-> "write", ok |-> TRUE, data |-> Nothing]
           \/ /\ \E n \in 0 .. len : vol' = Replaced(n)
              /\ UNCHANGED cur
              /\ reply' = [op |-> "write", ok |-> FALSE, data |-> Nothing]
        /\ UNCHANGED on

VolumeNext ==
    \E st \in Streams :
       \/ \E l \in Labels : Open(st, l)
       \/ Close(st) \/ SeekTo(st) \/ Get(st)
       \/ \E len \in Lengths : \E in \in [1 .. len -> Byte] : Put(st, in, len)

VolumeSpec == VolumeInit /\ [][VolumeNext]_volumeVars
=============================================================================
