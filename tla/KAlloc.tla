--------------------------------- MODULE KAlloc ---------------------------------
(***************************************************************************)
(* The physical page allocator of 05_xv6_memory_safe_allocation, version   *)
(* v2-sort (kalloc.c), which keeps the free list in descending order of    *)
(* address and gives a process no page next to another process's page.     *)
(*                                                                         *)
(* A frame is known by its index VA2IDX: 0 is the highest frame, so the    *)
(* free list is ascending in the model.  pg2pid describes the frames below *)
(* MAX_FRAME_NUM.  Only the free list is protected by kmem.lock; pg2pid    *)
(* and allocated_count are changed outside it, in steps of their own.  An  *)
(* update that two processors lose between them, when both run the ++ or   *)
(* -- of allocated_count at once, is left out.                             *)
(***************************************************************************)
EXTENDS Integers, Sequences, FiniteSets, FiniteSetsExt

CONSTANTS
  NFRAMES,        \* frames handed to kinit1 and kinit2
  MAX_FRAME_NUM,  \* frames pg2pid knows about
  KINIT2,         \* frames that kinit2 frees, from 4MB on; kinit1 frees the others
  Pids,           \* process ids, > 0
  Threads         \* kernel threads that allocate and free

ASSUME KAllocAssumption ==
  /\ NFRAMES \in Nat /\ MAX_FRAME_NUM \in 1..NFRAMES
  /\ KINIT2 \in MAX_FRAME_NUM..NFRAMES
  /\ Pids \subseteq Nat \ {0}
  /\ IsFiniteSet(Threads)

FREE   == -1      \* pg2pid of a free frame
KERNEL == -2      \* "unknown" owner: page tables and the like
PIPE   == -3      \* owner of pipe buffers
Owners == Pids \cup {KERNEL, PIPE}

Frames  == 0..(NFRAMES - 1)
Tracked == 0..(MAX_FRAME_NUM - 1)
NULL    == -1     \* a null struct run *

VARIABLES
  freelist,         \* kmem.freelist, head first
  pg2pid,
  allocated_count,
  boot,             \* next frame kinit1/kinit2 will free; -1 when initflag is set
  pc,               \* where each thread is
  frame,            \* the frame its kalloc or kfree is about
  pid,              \* the pid its kalloc was given
  handed,           \* to whom kalloc has given a frame; FREE if to nobody
  fault,            \* a bad pointer was followed
  overlap           \* history: two threads were inside kalloc/kfree at once

vars == <<freelist, pg2pid, allocated_count, boot, pc, frame, pid, handed,
          fault, overlap>>

-------------------------------------------------------------------------------
(* The list s with r put in after its first k pages. *)
PutAfter(s, k, r) ==
  [i \in 1..(Len(s) + 1) |-> IF i <= k THEN s[i]
                             ELSE IF i = k + 1 THEN r ELSE s[i - 1]]

(* The list s without its k-th page. *)
Unlinked(s, k) == [i \in 1..(Len(s) - 1) |-> IF i < k THEN s[i] ELSE s[i + 1]]

(* A mutant: the unsorted free list of the original kfree(). *)
insert_head(s, r) == PutAfter(s, 0, r)

(* A mutant: insert_freelist() that forgets r->next. *)
insert_cut(s, r) ==
  LET k == Cardinality({j \in 1..Len(s) : s[j] < r})
  IN [i \in 1..(k + 1) |-> IF i <= k THEN s[i] ELSE r]

(* How many pages insert_freelist() leaves before r: none if r is above the *)
(* head, else those its walk passes.                                        *)
Before(s, r) ==
  IF s = <<>> \/ Head(s) > r THEN 0
  ELSE CHOOSE k \in 1..Len(s) : /\ k = Len(s) \/ s[k + 1] >= r
                                /\ \A j \in 1..(k - 1) : s[j + 1] < r

insert_freelist(s, r) == PutAfter(s, Before(s, r), r)

(* What safe_guard() reads at index i: outside pg2pid it is whatever lies   *)
(* there, an acceptable value or not (junk).                                *)
Neighbour(i, p, junk) ==
  IF i \in Tracked THEN pg2pid[i] \in {p, FREE, KERNEL} ELSE junk

(* A mutant: safe_guard() that only looks at the lower page. *)
safe_guard_below(i, p, junk) == Neighbour(i + 1, p, junk)

safe_guard(i, p, junk) ==
  /\ Neighbour(i + 1, p, junk)
  /\ i # 0 => Neighbour(i - 1, p, junk)

(* The positions of the free list select_page() would take. *)
SafePositions(p, junk) ==
  {k \in 1..Len(freelist) : safe_guard(freelist[k], p, junk)}
-------------------------------------------------------------------------------
Init ==
  /\ freelist = <<>>
  /\ pg2pid = [i \in Tracked |-> 0]
  /\ allocated_count = 0
  /\ boot = NFRAMES - 1
  /\ pc = [t \in Threads |-> "idle"]
  /\ frame = [t \in Threads |-> NULL]
  /\ pid = [t \in Threads |-> KERNEL]
  /\ handed = [f \in Frames |-> FREE]
  /\ fault = FALSE
  /\ overlap = FALSE

(* freerange() of kinit1 and kinit2, from low addresses to high: kfree      *)
(* before initflag is set.                                                  *)
KInit ==
  /\ boot # -1
  /\ \A t \in Threads : pc[t] = "idle"
  /\ pg2pid' = IF boot \in Tracked THEN [pg2pid EXCEPT ![boot] = FREE] ELSE pg2pid
  /\ freelist' = insert_freelist(freelist, boot)
  /\ boot' = boot - 1
  /\ UNCHANGED <<allocated_count, pc, frame, pid, handed, fault, overlap>>

(* Between kinit1 and kinit2 only the boot code allocates, as KERNEL. *)
MayAlloc(p) == boot = -1 \/ (p = KERNEL /\ boot = KINIT2 - 1 /\ freelist # <<>>)

(* The frames in use. *)
Handed == {f \in Frames : handed[f] # FREE}

Enter(t) == overlap' = (overlap \/ \E u \in Threads \ {t} : pc[u] # "idle")

(* kalloc(-2): the head of the list, whatever is next to it. *)
KallocKernel(t) ==
  /\ pc[t] = "idle"
  /\ MayAlloc(KERNEL)
  /\ Enter(t)
  /\ frame' = [frame EXCEPT ![t] = IF freelist = <<>> THEN NULL ELSE Head(freelist)]
  /\ freelist' = IF freelist = <<>> THEN <<>> ELSE Tail(freelist)
  /\ pid' = [pid EXCEPT ![t] = KERNEL]
  /\ pc' = [pc EXCEPT ![t] = "mark"]
  /\ UNCHANGED <<pg2pid, allocated_count, boot, handed, fault>>

(* kalloc(pid) through select_page(): the first safe page; without one the  *)
(* walk goes on from the null pointer.                                      *)
Kalloc(t, p, junk) ==
  /\ pc[t] = "idle"
  /\ MayAlloc(p)
  /\ Enter(t)
  /\ pid' = [pid EXCEPT ![t] = p]
  /\ IF SafePositions(p, junk) = {}
       THEN fault' = TRUE /\ UNCHANGED <<freelist, frame, pc>>
       ELSE LET k == Min(SafePositions(p, junk))
            IN /\ frame' = [frame EXCEPT ![t] = freelist[k]]
               /\ freelist' = Unlinked(freelist, k)
               /\ pc' = [pc EXCEPT ![t] = "mark"]
               /\ UNCHANGED fault
  /\ UNCHANGED <<pg2pid, allocated_count, boot, handed>>

(* After the lock is released: pg2pid[VA2IDX(r)] = pid, which for a null r  *)
(* writes far outside the array; ...                                        *)
KallocMark(t) ==
  /\ pc[t] = "mark"
  /\ IF frame[t] = NULL
       THEN fault' = TRUE /\ UNCHANGED <<pg2pid, pc, handed, frame>>
     ELSE IF frame[t] \in Tracked
       THEN /\ pg2pid' = [pg2pid EXCEPT ![frame[t]] = pid[t]]
            /\ pc' = [pc EXCEPT ![t] = "count"]
            /\ UNCHANGED <<fault, handed, frame>>
       ELSE /\ handed' = [handed EXCEPT ![frame[t]] = pid[t]]
            /\ pc' = [pc EXCEPT ![t] = "idle"]
            /\ frame' = [frame EXCEPT ![t] = NULL]
            /\ UNCHANGED <<fault, pg2pid>>
  /\ UNCHANGED <<freelist, allocated_count, boot, pid, overlap>>

(* ... allocated_count++; return. *)
KallocCount(t) ==
  /\ pc[t] = "count"
  /\ allocated_count' = allocated_count + 1
  /\ handed' = [handed EXCEPT ![frame[t]] = pid[t]]
  /\ pc' = [pc EXCEPT ![t] = "idle"]
  /\ frame' = [frame EXCEPT ![t] = NULL]
  /\ UNCHANGED <<freelist, pg2pid, boot, pid, fault, overlap>>

(* kfree() of a page some kalloc returned: pg2pid first, ... *)
Kfree(t, f) ==
  /\ pc[t] = "idle"
  /\ boot = -1
  /\ Enter(t)
  /\ handed' = [handed EXCEPT ![f] = FREE]
  /\ frame' = [frame EXCEPT ![t] = f]
  /\ IF f \in Tracked
       THEN /\ pg2pid' = [pg2pid EXCEPT ![f] = FREE]
            /\ pc' = [pc EXCEPT ![t] = "uncount"]
       ELSE /\ pc' = [pc EXCEPT ![t] = "insert"]
            /\ UNCHANGED pg2pid
  /\ UNCHANGED <<freelist, allocated_count, boot, pid, fault>>

(* A mutant: kfree() that does not count down. *)
KfreeNoCount(t) ==
  /\ pc[t] = "uncount"
  /\ allocated_count' = allocated_count
  /\ pc' = [pc EXCEPT ![t] = "insert"]
  /\ UNCHANGED <<freelist, pg2pid, boot, frame, pid, handed, fault, overlap>>

(* ... then allocated_count--, ... *)
KfreeCount(t) ==
  /\ pc[t] = "uncount"
  /\ allocated_count' = allocated_count - 1
  /\ pc' = [pc EXCEPT ![t] = "insert"]
  /\ UNCHANGED <<freelist, pg2pid, boot, frame, pid, handed, fault, overlap>>

(* ... then insert_freelist() under the lock. *)
KfreeInsert(t) ==
  /\ pc[t] = "insert"
  /\ freelist' = insert_freelist(freelist, frame[t])
  /\ pc' = [pc EXCEPT ![t] = "idle"]
  /\ frame' = [frame EXCEPT ![t] = NULL]
  /\ UNCHANGED <<pg2pid, allocated_count, boot, pid, handed, fault, overlap>>

ThreadStep(t) ==
  \/ KallocKernel(t)
  \/ \E p \in Owners \ {KERNEL}, junk \in BOOLEAN : Kalloc(t, p, junk)
  \/ KallocMark(t) \/ KallocCount(t)
  \/ \E f \in Handed : Kfree(t, f)
  \/ KfreeCount(t) \/ KfreeInsert(t)

Next == ~fault /\ (KInit \/ \E t \in Threads : ThreadStep(t))

Spec == Init /\ [][Next]_vars
-------------------------------------------------------------------------------
(* sys_dump_physmem(num): the frames it reports, walking pg2pid from the    *)
(* top; -1 where the walk leaves the array.                                 *)
Marked == {i \in Tracked : pg2pid[i] # FREE}

DumpFrame(i) == LET above(j) == Cardinality({m \in Marked : m < j})
                IN IF i > Cardinality(Marked) THEN -1
                   ELSE CHOOSE j \in Marked : above(j) = i - 1

sys_dump_physmem(num) ==
  [i \in 1..Min({num, allocated_count}) |-> DumpFrame(i)]
-------------------------------------------------------------------------------
Listed  == {freelist[k] : k \in 1..Len(freelist)}
Pending == {frame[t] : t \in {u \in Threads : pc[u] # "idle"}} \ {NULL}
Quiet   == \A t \in Threads : pc[t] = "idle"

(* The free list stays in descending order of address, without repeats,     *)
(* however frees and allocations of several threads interleave.             *)
FreelistSorted ==
  \A j, k \in 1..Len(freelist) : j < k => freelist[j] < freelist[k]

(* No page is lost and none is given out twice: each is on the free list,   *)
(* or handed out, or in the hands of one kalloc or kfree in progress, or    *)
(* not yet freed by kinit.                                                  *)
Conserved ==
  /\ Listed \cup Handed \cup Pending \cup (0..boot) = Frames
  /\ Listed \cap Handed = {}
  /\ (Listed \cup Handed) \cap (Pending \cup (0..boot)) = {}
  /\ Pending \cap (0..boot) = {}
  /\ \A t, u \in Threads : t # u /\ frame[t] = frame[u] => frame[t] = NULL

(* With no allocation or free in progress, pg2pid names the owner of every  *)
(* frame, and dump_physmem reports the frames in use and nothing else.      *)
DumpTruthful ==
  Quiet /\ boot = -1 =>
    /\ \A f \in Tracked : pg2pid[f] = handed[f]
    /\ {sys_dump_physmem(NFRAMES)[i] : i \in 1..allocated_count}
         = Handed \cap Tracked

(* Two neighbouring frames that belong to processes belong to the same one. *)
Apart == \A f, g \in Handed \cap Tracked :
           g = f + 1 /\ handed[f] # KERNEL /\ handed[g] # KERNEL
             => handed[f] = handed[g]

(* select_page() keeps the processes' pages apart as long as no two threads *)
(* allocate or free at the same time.                                       *)
SequentiallyApart == ~overlap => Apart
===============================================================================
