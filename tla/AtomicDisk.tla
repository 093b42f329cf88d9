------------------------------ MODULE AtomicDisk ------------------------------
(***************************************************************************)
(* What the xv6 log promises to the file system above it: a disk whose     *)
(* durable contents change only by whole transactions.                     *)
(*                                                                         *)
(* db is what a reboot would find, cur is what the running system calls    *)
(* see, active is the set of processes between begin_op() and end_op().    *)
(* A transaction groups the writes of every system call that overlapped;   *)
(* it becomes durable in one step, only while no system call is active,    *)
(* and a crash falls back to the last durable contents.                    *)
(***************************************************************************)
CONSTANTS Procs, Blocks, Data

VARIABLES db, cur, active

vars == <<db, cur, active>>

Init == /\ db \in [Blocks -> Data]
        /\ cur = db
        /\ active = {}

Begin(p) == /\ p \notin active
            /\ active' = active \cup {p}
            /\ UNCHANGED <<db, cur>>

Write(p, b, v) == /\ p \in active
                  /\ cur' = [cur EXCEPT ![b] = v]
                  /\ UNCHANGED <<db, active>>

End(p) == /\ p \in active
          /\ active' = active \ {p}
          /\ UNCHANGED <<db, cur>>

Commit == /\ active = {}
          /\ db' = cur
          /\ UNCHANGED <<cur, active>>

Crash == /\ cur' = db
         /\ active' = {}
         /\ UNCHANGED db

Next == \/ \E p \in Procs : Begin(p) \/ End(p)
        \/ \E p \in Procs, b \in Blocks, v \in Data : Write(p, b, v)
        \/ Commit
        \/ Crash

Spec == Init /\ [][Next]_vars
===============================================================================
