-------------------------------- MODULE KAllocV1 --------------------------------
(***************************************************************************)
(* The first versions of the page allocator of                             *)
(* 05_xv6_memory_safe_allocation: v1a and v1b give every page with its     *)
(* lower neighbour, which nobody uses, and take no page back; v1a-sort     *)
(* keeps the free list sorted and takes both back.  The machine boots with *)
(* one of them, or with v2-sort, which is KAlloc's.  Frames go by their    *)
(* index VA2IDX, 0 being the highest, as in KAlloc.  In v1a and v1b        *)
(* kalloc() runs under kmem.lock as a whole; in v1a-sort only the first    *)
(* removal and the insertions do.                                          *)
(***************************************************************************)
EXTENDS Integers, Sequences, FiniteSets, SequencesExt, TLC

CONSTANTS
    NFRAMES,        \* frames handed to kinit1 and kinit2
    MAX_FRAME_NUM,  \* frames pg2pid knows about
    KINIT2,         \* frames that kinit2 frees, from 4MB on; kinit1 frees the others
    Pids,           \* owners of pages, > 0
    Threads,
    Versions        \* the allocators the machine may boot with

\* What the constants are assumed to be.
KAllocV1Assumption ==
    /\ NFRAMES \in Nat /\ MAX_FRAME_NUM \in 1 .. NFRAMES /\ MAX_FRAME_NUM % 2 = 0
    /\ KINIT2 \in MAX_FRAME_NUM .. NFRAMES
    /\ Pids \subseteq Nat \ {0}

Frames == 0 .. NFRAMES - 1
Tracked == 0 .. MAX_FRAME_NUM - 1
NULL == -1
FREE == -1
KERNEL == -2

VARIABLES
    version,
    freelist,           \* kmem.freelist, head first
    pg2pid, allocated_count,
    boot,               \* next frame kinit1/kinit2 will free; -1 when initflag is set
    pc, frame, seen,    \* per thread: where it is, its page, the list it has read
    handed,             \* pages kalloc has returned and nobody has freed, and to whom
    fault,              \* a null or stale pointer was followed
    overlap             \* history: two threads were inside kalloc/kfree at once

vars == <<version, freelist, pg2pid, allocated_count, boot, pc, frame, seen, handed, fault, overlap>>

sorted == version = "v1a-sort"
Goto(t, l) == pc' = [pc EXCEPT ![t] = l]
Enter(t) == overlap' = (overlap \/ \E u \in Threads \ {t} : pc[u] # "idle")

\* insert_freelist(), on a list that is in order.
insert_freelist(s, r) ==
    SelectSeq(s, LAMBDA x : x < r) \o <<r>> \o SelectSeq(s, LAMBDA x : x >= r)

\* freerange() of kinit1 and kinit2, from low addresses to high.
KInit ==
    /\ boot # -1 /\ \A t \in Threads : pc[t] = "idle"
    /\ freelist' = IF sorted THEN insert_freelist(freelist, boot) ELSE <<boot>> \o freelist
    /\ pg2pid' = IF boot \in Tracked THEN [pg2pid EXCEPT ![boot] = FREE] ELSE pg2pid
    /\ boot' = boot - 1
    /\ UNCHANGED <<version, allocated_count, pc, frame, seen, handed, fault, overlap>>

\* Before kinit2 the boot code allocates from the pages of kinit1, as nobody.
MayAlloc(p) == boot = -1 \/ (p = KERNEL /\ boot = KINIT2 - 1 /\ freelist # <<>>)

\* What kalloc(p) writes into pg2pid: only v1b tells processes apart.
Owner(p) == IF version = "v1b" THEN p ELSE KERNEL

\* A mutant: the neighbour stays on the list.
NoGuard(s) == s

\* The list without the page that follows the one taken.
Guarded(s) == Tail(s)

\* kalloc() of v1a and v1b; a tracked page is followed by one that is dropped.
Kalloc(t, p) ==
    /\ pc[t] = "idle" /\ ~sorted /\ MayAlloc(p) /\ Enter(t)
    /\ \/ /\ IF freelist = <<>> THEN TRUE ELSE freelist[1] \in Tracked /\ Len(freelist) = 1
          /\ fault' = TRUE
          /\ UNCHANGED <<freelist, pg2pid, allocated_count, handed>>
       \/ /\ freelist # <<>> /\ Head(freelist) \notin Tracked
          /\ freelist' = Tail(freelist) /\ handed' = handed @@ (Head(freelist) :> p)
          /\ UNCHANGED <<pg2pid, allocated_count, fault>>
       \/ /\ Len(freelist) > 1 /\ Head(freelist) \in Tracked
          /\ freelist' = Guarded(Tail(freelist)) /\ handed' = handed @@ (Head(freelist) :> p)
          /\ pg2pid' = [pg2pid EXCEPT ![Head(freelist)] = Owner(p)]
          /\ allocated_count' = allocated_count + 1
          /\ UNCHANGED fault
    /\ UNCHANGED <<version, boot, pc, frame, seen>>

Unhanded(f) == [g \in DOMAIN handed \ {f} |-> handed[g]]

\* kfree() of v1a and v1b after initflag is set: the page is not used again.
Kfree(t, f) ==
    /\ pc[t] = "idle" /\ ~sorted /\ boot = -1 /\ Enter(t)
    /\ handed' = Unhanded(f)
    /\ UNCHANGED <<version, freelist, pg2pid, allocated_count, boot, pc, frame, seen, fault>>

(***************************************************************************)
(* v1a-sort, which does not look at the pid it is given.                   *)
(***************************************************************************)
\* kalloc(): the head of the list under the lock; ...
SortKalloc(t, p) ==
    /\ pc[t] = "idle" /\ sorted /\ MayAlloc(p) /\ Enter(t)
    /\ \/ /\ freelist = <<>> /\ fault' = TRUE
          /\ UNCHANGED <<freelist, frame, pc, handed>>
       \/ /\ freelist # <<>> /\ Head(freelist) \notin Tracked
          /\ freelist' = Tail(freelist) /\ handed' = handed @@ (Head(freelist) :> KERNEL)
          /\ UNCHANGED <<frame, pc, fault>>
       \/ /\ freelist # <<>> /\ Head(freelist) \in Tracked
          /\ freelist' = Tail(freelist)
          /\ frame' = [frame EXCEPT ![t] = Head(freelist)] /\ Goto(t, "mark")
          /\ UNCHANGED <<handed, fault>>
    /\ UNCHANGED <<version, pg2pid, allocated_count, boot, seen>>

\* ... pg2pid and allocated_count, and the list read without the lock, ...
SortMark(t) ==
    /\ pc[t] = "mark"
    /\ pg2pid' = [pg2pid EXCEPT ![frame[t]] = KERNEL]
    /\ allocated_count' = allocated_count + 1
    /\ seen' = [seen EXCEPT ![t] = freelist] /\ Goto(t, "skip")
    /\ UNCHANGED <<version, freelist, boot, frame, handed, fault, overlap>>

\* ... its next page dropped.  A list that has changed since is written over.
SortSkip(t) ==
    /\ pc[t] = "skip"
    /\ \/ /\ freelist = <<>> \/ freelist # seen[t]
          /\ fault' = TRUE /\ UNCHANGED <<freelist, handed>>
       \/ /\ freelist # <<>> /\ freelist = seen[t]
          /\ freelist' = Guarded(freelist) /\ handed' = handed @@ (frame[t] :> KERNEL)
          /\ UNCHANGED fault
    /\ Goto(t, "idle") /\ frame' = [frame EXCEPT ![t] = NULL]
    /\ seen' = [seen EXCEPT ![t] = <<>>]
    /\ UNCHANGED <<version, pg2pid, allocated_count, boot, overlap>>

\* kfree(): a tracked page is unmarked and its neighbour given back first, ...
SortKfree(t, f) ==
    /\ pc[t] = "idle" /\ sorted /\ boot = -1 /\ Enter(t)
    /\ handed' = Unhanded(f)
    /\ frame' = [frame EXCEPT ![t] = f]
    /\ \/ /\ f \in Tracked /\ Goto(t, "neighbour")
          /\ pg2pid' = [pg2pid EXCEPT ![f] = FREE]
          /\ allocated_count' = allocated_count - 1
       \/ f \notin Tracked /\ Goto(t, "insert") /\ UNCHANGED <<pg2pid, allocated_count>>
    /\ UNCHANGED <<version, freelist, boot, seen, fault>>

SortNeighbour(t) ==
    /\ pc[t] = "neighbour"
    /\ freelist' = insert_freelist(freelist, frame[t] + 1) /\ Goto(t, "insert")
    /\ UNCHANGED <<version, pg2pid, allocated_count, boot, frame, seen, handed, fault, overlap>>

\* ... then the page.
SortInsert(t) ==
    /\ pc[t] = "insert"
    /\ freelist' = insert_freelist(freelist, frame[t]) /\ Goto(t, "idle")
    /\ frame' = [frame EXCEPT ![t] = NULL]
    /\ UNCHANGED <<version, pg2pid, allocated_count, boot, seen, handed, fault, overlap>>

-------------------------------------------------------------------------------
Init ==
    /\ version \in Versions
    /\ freelist = <<>> /\ allocated_count = 0 /\ boot = NFRAMES - 1
    /\ pc = [t \in Threads |-> "idle"] /\ frame = [t \in Threads |-> NULL]
    /\ seen = [t \in Threads |-> <<>>]
    /\ pg2pid = [f \in Tracked |-> 0] /\ handed = [f \in {} |-> KERNEL] /\ fault = FALSE /\ overlap = FALSE

ThreadStep(t) ==
    \/ \E p \in Pids \cup {KERNEL} : Kalloc(t, p) \/ SortKalloc(t, p)
    \/ SortMark(t) \/ SortSkip(t) \/ SortNeighbour(t) \/ SortInsert(t)
    \/ \E f \in DOMAIN handed : Kfree(t, f) \/ SortKfree(t, f)

Next == /\ ~fault /\ version \in {"v1a", "v1b", "v1a-sort"}
        /\ KInit \/ \E t \in Threads : ThreadStep(t)

Spec == Init /\ [][Next]_vars

-------------------------------------------------------------------------------
Used == DOMAIN handed
Guards == {f + 1 : f \in Used \cap Tracked}

\* Every tracked page in use has a lower neighbour that is neither in use nor free, so
\* that no two pages in use touch; the list is in order; pg2pid knows the owner; and in
\* v1a-sort, where pages come back, each page is free, in use or such a neighbour.  For
\* v1a-sort this is claimed while its calls do not overlap: the second removal of its
\* kalloc() (v1a-sort/kalloc.c:156) does not have the lock.
GuardPages ==
    (~fault /\ (sorted => ~overlap) /\ \A t \in Threads : pc[t] = "idle") =>
        /\ Guards \cap (Used \cup ToSet(freelist)) = {} /\ Used \cap ToSet(freelist) = {}
        /\ \A j, k \in DOMAIN freelist : j < k => freelist[j] < freelist[k]
        /\ \A f \in Used \cap Tracked : pg2pid[f] = Owner(handed[f])
        /\ sorted => Used \cup ToSet(freelist) \cup Guards \cup (0 .. boot) = Frames
===============================================================================
