------------------------------ MODULE ByteStream ------------------------------
(***************************************************************************)
(* What pipes promise: each is a bounded first-in first-out stream of      *)
(* bytes with a read end and a write end.  Bytes come out in the order     *)
(* they went in, oldest first, none is lost or made up in between,         *)
(* nothing goes in once the write end is closed, a stream ends with both   *)
(* its ends, and what happens to one stream leaves the others alone.       *)
(***************************************************************************)
EXTENDS Naturals, Sequences

CONSTANTS Streams, Capacity

VARIABLES
    q,      \* stream -> the bytes in it
    ends    \* stream -> the ends that are open

vars == <<q, ends>>

Init ==
    /\ q = [s \in Streams |-> <<>>] /\ ends = [s \in Streams |-> {}]

Become(s, bytes, open) ==
    /\ q' = [q EXCEPT ![s] = bytes]
    /\ ends' = [ends EXCEPT ![s] = open]

Create(s) == ends[s] = {} /\ Become(s, <<>>, {"r", "w"})

Send(s) ==
    /\ "w" \in ends[s]
    /\ Len(q'[s]) \in Len(q[s]) + 1 .. Capacity
    /\ SubSeq(q'[s], 1, Len(q[s])) = q[s]
    /\ Become(s, q'[s], ends[s])

Receive(s) ==
    /\ "r" \in ends[s]
    /\ \E k \in 0 .. Len(q[s]) : Become(s, SubSeq(q[s], k + 1, Len(q[s])), ends[s])

Close(s) ==
    \E e \in ends[s] :
        Become(s, IF ends[s] = {e} THEN <<>> ELSE q[s], ends[s] \ {e})

Next == \E s \in Streams : Create(s) \/ Send(s) \/ Receive(s) \/ Close(s)

Spec == Init /\ [][Next]_vars
===============================================================================
