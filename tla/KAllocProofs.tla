----------------------------- MODULE KAllocProofs -----------------------------
(***************************************************************************)
(* The page allocator v2-sort for every number of frames, every set of     *)
(* processes and every set of threads: the free list stays in order, no    *)
(* page is lost or given out twice, pg2pid and dump_physmem tell the truth *)
(* when no call is in progress, and processes' pages stay apart as long as *)
(* calls do not overlap.                                                   *)
(***************************************************************************)
EXTENDS KAlloc, NatSets, SequenceTheorems

In(x, s) == \E k \in 1 .. Len(s) : s[k] = x

Sorted(s) == \A j, k \in 1 .. Len(s) : j < k => s[j] < s[k]

TypeOK ==
  /\ freelist \in Seq(Frames)
  /\ pg2pid \in [Tracked -> Int]
  /\ allocated_count \in Int
  /\ boot \in -1 .. NFRAMES - 1
  /\ pc \in [Threads -> {"idle", "mark", "count", "uncount", "insert"}]
  /\ frame \in [Threads -> Frames \cup {NULL}]
  /\ pid \in [Threads -> Owners]
  /\ handed \in [Frames -> Owners \cup {FREE}]
  /\ fault \in BOOLEAN
  /\ overlap \in BOOLEAN

(* What a thread has in its hands. *)
FrameInv ==
  \A t \in Threads :
    /\ pc[t] = "idle" => frame[t] = NULL
    /\ pc[t] \in {"count", "uncount"} => frame[t] \in Tracked
    /\ pc[t] = "insert" => frame[t] \in Frames

(* Every frame is in one place. *)
Placed ==
  /\ \A f \in Frames :
       /\ In(f, freelist) \/ handed[f] # FREE \/ f <= boot \/ \E t \in Threads : frame[t] = f
       /\ In(f, freelist) => handed[f] = FREE /\ boot < f /\ \A t \in Threads : frame[t] # f
       /\ handed[f] # FREE => boot < f /\ \A t \in Threads : frame[t] # f
       /\ f <= boot => \A t \in Threads : frame[t] # f
  /\ \A t, u \in Threads : t # u /\ frame[t] = frame[u] => frame[t] = NULL

(* pg2pid follows the frame from place to place. *)
Marks ==
  \A f \in Tracked :
    /\ handed[f] # FREE => pg2pid[f] = handed[f]
    /\ In(f, freelist) => pg2pid[f] = FREE
    /\ \A t \in Threads : frame[t] = f =>
         pg2pid[f] = IF pc[t] = "count" THEN pid[t] ELSE FREE

(* The frames allocated_count stands for: those in use, and those whose    *)
(* kfree() has not counted down yet.                                       *)
Counted == {f \in Tracked : handed[f] # FREE \/ \E t \in Threads : pc[t] = "uncount" /\ frame[t] = f}

CountInv == allocated_count = Cardinality(Counted)

(* Without overlap one thread at a time is inside, and a page it is about  *)
(* to hand out fits between its neighbours.                                *)
ApartInv ==
  ~overlap =>
    /\ \A t, u \in Threads : pc[t] # "idle" /\ pc[u] # "idle" => t = u
    /\ Apart
    /\ \A t \in Threads : pc[t] \in {"mark", "count"} /\ pid[t] # KERNEL =>
         \A g \in Tracked : handed[g] # FREE /\ handed[g] # KERNEL
             /\ frame[t] \in Tracked /\ (g = frame[t] + 1 \/ g = frame[t] - 1)
           => handed[g] = pid[t]

IInv == /\ TypeOK /\ FrameInv /\ FreelistSorted /\ Placed /\ Marks /\ CountInv
        /\ ApartInv
-------------------------------------------------------------------------------
(* Sequences as functions. *)
LEMMA SeqOf ==
  ASSUME NEW S, NEW n \in Nat, NEW g \in [1 .. n -> S]
  PROVE  g \in Seq(S) /\ Len(g) = n
OBVIOUS

LEMMA ListTypes ==
  ASSUME NEW s \in Seq(Frames)
  PROVE  /\ Len(s) \in Nat
         /\ \A i \in 1 .. Len(s) : s[i] \in Frames /\ s[i] \in Int
<1>1. Len(s) \in Nat /\ \A i \in 1 .. Len(s) : s[i] \in Frames
  BY ElementOfSeq, LenProperties
<1>2. Frames \subseteq Int  BY KAllocAssumption DEF Frames
<1>3. QED  BY <1>1, <1>2

LEMMA FrameIsInt == Frames \subseteq Int /\ Tracked \subseteq Frames /\ NULL \notin Frames
BY KAllocAssumption DEF Frames, Tracked, NULL

(* Where insert_freelist() stops in a list that is in order: everything    *)
(* before is above r, everything after is below.                           *)
LEMMA BeforeIs ==
  ASSUME NEW s \in Seq(Frames), Sorted(s), NEW r \in Frames, ~In(r, s)
  PROVE  /\ Before(s, r) \in 0 .. Len(s)
         /\ \A i \in 1 .. Before(s, r) : s[i] < r
         /\ \A i \in Before(s, r) + 1 .. Len(s) : r < s[i]
<1>0. /\ Len(s) \in Nat /\ r \in Int /\ \A i \in 1 .. Len(s) : s[i] \in Int /\ s[i] # r
  BY FrameIsInt, ListTypes DEF In
<1>1. CASE s = <<>> \/ Head(s) > r
  <2>1. Before(s, r) = 0  BY <1>1 DEF Before
  <2>2. s # <<>> => \A i \in 1 .. Len(s) : s[1] <= s[i]
    BY <1>0 DEF Sorted
  <2>3. \A i \in 1 .. Len(s) : r < s[i]
    BY <1>0, <1>1, <2>2
  <2>4. QED  BY <1>0, <2>1, <2>3
<1>2. CASE ~(s = <<>> \/ Head(s) > r)
  <2>1. 1 \in 1 .. Len(s) /\ s[1] < r
    BY <1>0, <1>2
  <2> DEFINE T == {k \in 1 .. Len(s) : k = Len(s) \/ s[k + 1] >= r}
  <2>2. T \in SUBSET Nat /\ Len(s) \in T
    BY <1>0, <2>1
  <2>3. PICK m \in T : \A k \in T : m <= k
    <3> HIDE DEF T
    <3>1. QED  BY <2>2, LeastNat
  <2>4. \A j \in 1 .. (m - 1) : s[j + 1] < r
    <3> SUFFICES ASSUME NEW j \in 1 .. (m - 1), ~(s[j + 1] < r) PROVE FALSE
      OBVIOUS
    <3>1. j \in 1 .. Len(s) /\ j + 1 \in 1 .. Len(s) /\ j < m  BY <1>0, <2>3
    <3>2. j \in T  BY <1>0, <3>1
    <3>3. QED  BY <1>0, <2>3, <3>1, <3>2
  <2> DEFINE c == CHOOSE k \in 1 .. Len(s) :
                    /\ k = Len(s) \/ s[k + 1] >= r
                    /\ \A j \in 1 .. (k - 1) : s[j + 1] < r
  <2>5. /\ c \in 1 .. Len(s) /\ (c = Len(s) \/ s[c + 1] >= r)
        /\ \A j \in 1 .. (c - 1) : s[j + 1] < r
    BY <2>3, <2>4
  <2>6. Before(s, r) = c  BY <1>2 DEF Before
  <2> HIDE DEF c
  <2>7. ASSUME NEW i \in 1 .. c PROVE s[i] < r
    <3>1. CASE i = 1  BY <2>1, <3>1
    <3>2. CASE i # 1
      <4>1. i - 1 \in 1 .. (c - 1) /\ (i - 1) + 1 = i  BY <2>5, <2>7, <3>2
      <4>2. QED  BY <2>5, <4>1
    <3>3. QED  BY <3>1, <3>2
  <2>8. ASSUME NEW i \in c + 1 .. Len(s) PROVE r < s[i]
    <3>1. c + 1 \in 1 .. Len(s) /\ r < s[c + 1]  BY <1>0, <2>5
    <3>2. i \in 1 .. Len(s)  BY <2>5
    <3>3. QED  BY <1>0, <3>1, <3>2 DEF Sorted
  <2>9. QED  BY <1>0, <2>5, <2>6, <2>7, <2>8
<1>3. QED  BY <1>1, <1>2

(* insert_freelist() keeps the order and adds r. *)
LEMMA InsertIs ==
  ASSUME NEW s \in Seq(Frames), Sorted(s), NEW r \in Frames, ~In(r, s)
  PROVE  /\ insert_freelist(s, r) \in Seq(Frames) /\ Sorted(insert_freelist(s, r))
         /\ \A x : In(x, insert_freelist(s, r)) <=> In(x, s) \/ x = r
<1>1. PICK k \in 0 .. Len(s) : /\ k = Before(s, r) /\ \A i \in 1 .. k : s[i] < r
                               /\ \A i \in k + 1 .. Len(s) : r < s[i]
  BY BeforeIs
<1>0. /\ Len(s) \in Nat /\ r \in Int /\ \A i \in 1 .. Len(s) : s[i] \in Int
  BY FrameIsInt, ListTypes
<1>2. PICK n : n = insert_freelist(s, r)  OBVIOUS
<1>3. n = [i \in 1 .. (Len(s) + 1) |-> IF i <= k THEN s[i]
                                         ELSE IF i = k + 1 THEN r ELSE s[i - 1]]
  BY <1>1, <1>2 DEF insert_freelist, PutAfter
<1>4. n \in [1 .. (Len(s) + 1) -> Frames]
  BY <1>0, <1>1, <1>3
<1>5. n \in Seq(Frames) /\ Len(n) = Len(s) + 1
  BY <1>0, <1>4, SeqOf
<1>6. Sorted(n)
  <2> SUFFICES ASSUME NEW i \in 1 .. Len(s) + 1, NEW j \in 1 .. Len(s) + 1, i < j
               PROVE  n[i] < n[j]
    BY <1>5 DEF Sorted
  <2>1. CASE i <= k /\ j <= k  BY <1>0, <1>1, <1>3, <2>1 DEF Sorted
  <2>2. CASE i <= k /\ j = k + 1  BY <1>0, <1>1, <1>3, <2>2
  <2>3. CASE i <= k /\ j > k + 1
    <3>1. n[i] = s[i] /\ n[j] = s[j - 1] /\ i \in 1 .. Len(s) /\ j - 1 \in 1 .. Len(s) /\ i < j - 1
      BY <1>0, <1>1, <1>3, <2>3
    <3>2. QED  BY <3>1 DEF Sorted
  <2>4. CASE i = k + 1
    <3>1. n[i] = r /\ n[j] = s[j - 1] /\ j - 1 \in k + 1 .. Len(s)
      BY <1>0, <1>1, <1>3, <2>4
    <3>2. QED  BY <1>1, <3>1
  <2>5. CASE i > k + 1
    <3>1. /\ n[i] = s[i - 1] /\ n[j] = s[j - 1] /\ i - 1 \in 1 .. Len(s)
          /\ j - 1 \in 1 .. Len(s) /\ i - 1 < j - 1
      BY <1>0, <1>1, <1>3, <2>5
    <3>2. QED  BY <3>1 DEF Sorted
  <2>6. QED  BY <1>0, <1>1, <2>1, <2>2, <2>3, <2>4, <2>5
<1>7. ASSUME NEW x PROVE In(x, n) <=> In(x, s) \/ x = r
  <2>1. ASSUME NEW i \in 1 .. Len(s) PROVE In(s[i], n)
    <3>1. CASE i <= k
      BY <1>0, <1>1, <1>3, <1>5, <3>1 DEF In
    <3>2. CASE i > k
      <4>1. i + 1 \in 1 .. Len(s) + 1 /\ n[i + 1] = s[i]
        BY <1>0, <1>1, <1>3, <3>2
      <4>2. QED  BY <1>5, <4>1 DEF In
    <3>3. QED  BY <1>0, <1>1, <3>1, <3>2
  <2>2. In(r, n)
    <3>1. k + 1 \in 1 .. Len(s) + 1 /\ n[k + 1] = r  BY <1>0, <1>1, <1>3
    <3>2. QED  BY <1>5, <3>1 DEF In
  <2>3. ASSUME NEW i \in 1 .. Len(s) + 1 PROVE In(n[i], s) \/ n[i] = r
    BY <1>0, <1>1, <1>3 DEF In
  <2>4. QED  BY <1>5, <2>1, <2>2, <2>3 DEF In
<1>8. QED  BY <1>2, <1>5, <1>6, <1>7

(* Taking the k-th page off keeps the order and removes just that page.    *)
LEMMA UnlinkIs ==
  ASSUME NEW s \in Seq(Frames), Sorted(s), NEW k \in 1 .. Len(s)
  PROVE  /\ Unlinked(s, k) \in Seq(Frames) /\ Sorted(Unlinked(s, k))
         /\ \A x : In(x, Unlinked(s, k)) <=> In(x, s) /\ x # s[k]
<1>0. /\ Len(s) \in Nat /\ Len(s) # 0 /\ \A i \in 1 .. Len(s) : s[i] \in Int
  BY FrameIsInt, ListTypes
<1>2. PICK n : n = Unlinked(s, k)  OBVIOUS
<1>3. n = [i \in 1 .. (Len(s) - 1) |-> IF i < k THEN s[i] ELSE s[i + 1]]
  BY <1>2 DEF Unlinked
<1>4. n \in [1 .. (Len(s) - 1) -> Frames]
  BY <1>0, <1>3
<1>5. n \in Seq(Frames) /\ Len(n) = Len(s) - 1
  BY <1>0, <1>4, SeqOf
<1>6. Sorted(n)
  <2> SUFFICES ASSUME NEW i \in 1 .. Len(s) - 1, NEW j \in 1 .. Len(s) - 1, i < j
               PROVE  n[i] < n[j]
    BY <1>5 DEF Sorted
  <2>1. PICK ii \in 1 .. Len(s) : n[i] = s[ii] /\ ii = IF i < k THEN i ELSE i + 1
    BY <1>0, <1>3
  <2>2. PICK jj \in 1 .. Len(s) : n[j] = s[jj] /\ jj = IF j < k THEN j ELSE j + 1
    BY <1>0, <1>3
  <2>3. ii < jj  BY <1>0, <2>1, <2>2
  <2>4. QED  BY <2>1, <2>2, <2>3 DEF Sorted
<1>7. ASSUME NEW x PROVE In(x, n) <=> In(x, s) /\ x # s[k]
  <2>1. ASSUME NEW i \in 1 .. Len(s), i # k PROVE In(s[i], n)
    <3>1. CASE i < k
      <4>1. i \in 1 .. Len(s) - 1 /\ n[i] = s[i]  BY <1>0, <1>3, <2>1, <3>1
      <4>2. QED  BY <1>5, <4>1 DEF In
    <3>2. CASE i > k
      <4>1. i - 1 \in 1 .. Len(s) - 1 /\ n[i - 1] = s[i]  BY <1>0, <1>3, <2>1, <3>2
      <4>2. QED  BY <1>5, <4>1 DEF In
    <3>3. QED  BY <1>0, <2>1, <3>1, <3>2
  <2>2. ASSUME NEW i \in 1 .. Len(s) - 1 PROVE In(n[i], s) /\ n[i] # s[k]
    <3>1. PICK ii \in 1 .. Len(s) : n[i] = s[ii] /\ ii # k
      BY <1>0, <1>3
    <3>2. s[ii] # s[k]  BY <1>0, <3>1 DEF Sorted
    <3>3. QED  BY <3>1, <3>2 DEF In
  <2>3. QED  BY <1>5, <2>1, <2>2 DEF In
<1>8. QED  BY <1>2, <1>5, <1>6, <1>7

LEMMA TailIs ==
  ASSUME NEW s \in Seq(Frames), Sorted(s), s # <<>>
  PROVE  /\ Tail(s) \in Seq(Frames) /\ Sorted(Tail(s)) /\ Head(s) \in Frames /\ In(Head(s), s)
         /\ \A x : In(x, Tail(s)) <=> In(x, s) /\ x # Head(s)
<1>0. Len(s) \in Nat \ {0} /\ 1 \in 1 .. Len(s) /\ Head(s) = s[1]  OBVIOUS
<1>1. PICK n : n = Unlinked(s, 1)  OBVIOUS
<1>2. n = [i \in 1 .. (Len(s) - 1) |-> s[i + 1]]
  BY <1>0, <1>1 DEF Unlinked
<1>3. n \in Seq(Frames) /\ Len(n) = Len(s) - 1
  <2>1. n \in [1 .. (Len(s) - 1) -> Frames]  BY <1>0, <1>2
  <2>2. QED  BY <1>0, <2>1, SeqOf
<1>4. n = Tail(s)
  <2>1. \A i \in 1 .. Len(n) : n[i] = Tail(s)[i]  BY <1>0, <1>2, <1>3, HeadTailProperties
  <2>2. Tail(s) \in Seq(Frames) /\ Len(Tail(s)) = Len(n)  BY <1>0, <1>3, HeadTailProperties
  <2>3. QED  BY <1>3, <2>1, <2>2, SeqEqual
<1>5. Head(s) \in Frames /\ In(Head(s), s)  BY <1>0 DEF In
<1>6. Sorted(n) /\ \A x : In(x, n) <=> In(x, s) /\ x # s[1]
  BY <1>0, <1>1, UnlinkIs
<1>7. QED  BY <1>0, <1>3, <1>4, <1>5, <1>6, Zenon

LEMMA MinIs ==
  ASSUME NEW T \in SUBSET Nat, T # {}
  PROVE  Min(T) \in T /\ \A k \in T : Min(T) <= k
BY LeastNat DEF Min

LEMMA OwnerIs == Owners \subseteq Int /\ FREE \in Int /\ FREE \notin Owners /\ KERNEL \in Owners
BY KAllocAssumption DEF Owners, FREE, KERNEL, PIPE

-------------------------------------------------------------------------------
(* kinit puts one more frame on the list. *)
LEMMA KInitStep ==
  ASSUME IInv, KInit
  PROVE  IInv'
<1> USE DEF IInv
<1>0. TypeOK  OBVIOUS
<1>1. /\ boot \in Frames /\ boot \in Int /\ boot' = boot - 1
      /\ \A t \in Threads : pc[t] = "idle" /\ frame[t] = NULL
      /\ UNCHANGED <<allocated_count, pc, frame, pid, handed, fault, overlap>>
  BY <1>0, KAllocAssumption DEF KInit, TypeOK, FrameInv, Frames
<1>2. ~In(boot, freelist) /\ handed[boot] = FREE
  BY <1>1 DEF Placed
<1>3. /\ freelist' \in Seq(Frames) /\ Sorted(freelist')
      /\ \A x : In(x, freelist') <=> In(x, freelist) \/ x = boot
  <2>1. Sorted(freelist) /\ freelist \in Seq(Frames)
    BY <1>0 DEF TypeOK, FreelistSorted, Sorted
  <2>2. freelist' = insert_freelist(freelist, boot)  BY DEF KInit
  <2>3. QED  BY <1>1, <1>2, <2>1, <2>2, InsertIs
<1>4. TypeOK'
  <2>1. pg2pid' \in [Tracked -> Int]
    BY <1>0, OwnerIs DEF KInit, TypeOK
  <2>2. boot' \in -1 .. NFRAMES - 1
    BY <1>0, <1>1, KAllocAssumption DEF TypeOK, Frames
  <2>3. QED  BY <1>0, <1>1, <1>3, <2>1, <2>2 DEF TypeOK
<1>5. FrameInv'  BY <1>1 DEF FrameInv
<1>6. FreelistSorted'  BY <1>3 DEF FreelistSorted, Sorted
<1>7. Placed'
  <2>1. \A f \in Frames : f <= boot <=> f <= boot' \/ f = boot
    BY <1>1, FrameIsInt
  <2>2. \A f \in Frames : boot < f <=> boot' < f /\ f # boot
    BY <1>1, FrameIsInt
  <2>3. \A t \in Threads : \A f \in Frames : frame[t] # f
    BY <1>1, FrameIsInt
  <2>4. \A f \in Frames :
          /\ In(f, freelist') \/ handed[f] # FREE \/ f <= boot' \/ \E t \in Threads : frame[t] = f
          /\ In(f, freelist') => handed[f] = FREE /\ boot' < f
          /\ handed[f] # FREE => boot' < f
    BY <1>1, <1>2, <1>3, <2>1, <2>2, <2>3, FrameIsInt DEF Placed
  <2>5. QED  BY <1>1, <2>3, <2>4 DEF Placed
<1>8. Marks'
  <2>1. \A f \in Tracked : pg2pid'[f] = IF f = boot THEN FREE ELSE pg2pid[f]
    BY <1>0 DEF KInit, TypeOK
  <2>2. \A t \in Threads : \A f \in Tracked : frame[t] # f
    BY <1>1, FrameIsInt
  <2>3. QED  BY <1>1, <1>2, <1>3, <2>1, <2>2 DEF Marks
<1>9. CountInv'  BY <1>1 DEF CountInv, Counted
<1>10. ApartInv'  BY <1>1 DEF ApartInv, Apart, Handed
<1>11. QED  BY <1>4, <1>5, <1>6, <1>7, <1>8, <1>9, <1>10

(* Taking a page for p off the list, or finding none. *)
Takes(t, p) == \/ KallocKernel(t) /\ p = KERNEL
               \/ p \in Owners \ {KERNEL} /\ \E junk \in BOOLEAN : Kalloc(t, p, junk)

Taken(t, f) ==
  /\ In(f, freelist) /\ freelist' \in Seq(Frames) /\ Sorted(freelist')
  /\ \A x : In(x, freelist') <=> In(x, freelist) /\ x # f
  /\ frame' = [frame EXCEPT ![t] = f]
  /\ pc' = [pc EXCEPT ![t] = "mark"]

Safe(f, p) == p # KERNEL =>
  \A g \in Tracked : g = f + 1 \/ g = f - 1 => pg2pid[g] \in {p, FREE, KERNEL}

LEMMA TakeFacts ==
  ASSUME IInv, NEW t \in Threads, NEW p \in Owners, Takes(t, p)
  PROVE  /\ pc[t] = "idle" /\ frame[t] = NULL /\ pid' = [pid EXCEPT ![t] = p]
         /\ UNCHANGED <<pg2pid, allocated_count, boot, handed>> /\ fault' \in BOOLEAN
         /\ overlap' = (overlap \/ \E u \in Threads \ {t} : pc[u] # "idle")
         /\ \/ /\ UNCHANGED <<freelist, frame>>
               /\ pc' = pc \/ pc' = [pc EXCEPT ![t] = "mark"]
            \/ \E f \in Frames : Taken(t, f) /\ Safe(f, p)
<1> USE DEF IInv
<1>0. TypeOK  OBVIOUS
<1>1. Sorted(freelist) /\ freelist \in Seq(Frames)
  BY <1>0 DEF TypeOK, FreelistSorted, Sorted
<1>2. /\ pc[t] = "idle" /\ frame[t] = NULL /\ pid' = [pid EXCEPT ![t] = p]
      /\ UNCHANGED <<pg2pid, allocated_count, boot, handed>> /\ fault' \in BOOLEAN
      /\ overlap' = (overlap \/ \E u \in Threads \ {t} : pc[u] # "idle")
  BY <1>0 DEF Takes, KallocKernel, Kalloc, Enter, TypeOK, FrameInv
<1>3. CASE KallocKernel(t) /\ p = KERNEL
  <2>1. CASE freelist = <<>>
    <3>1. freelist' = freelist /\ frame' = frame /\ pc' = [pc EXCEPT ![t] = "mark"]
      BY <1>0, <1>2, <1>3, <2>1 DEF KallocKernel, TypeOK
    <3>2. QED  BY <1>2, <3>1
  <2>2. CASE freelist # <<>>
    <3>1. PICK f \in Frames : f = Head(freelist)  BY <1>1, <2>2, TailIs
    <3>2. Taken(t, f)
      BY <1>1, <1>3, <2>2, <3>1, TailIs DEF KallocKernel, Taken
    <3>3. QED  BY <1>2, <1>3, <3>2 DEF Safe
  <2>3. QED  BY <2>1, <2>2
<1>4. CASE p \in Owners \ {KERNEL} /\ \E junk \in BOOLEAN : Kalloc(t, p, junk)
  <2>1. PICK junk \in BOOLEAN : Kalloc(t, p, junk)  BY <1>4
  <2>2. CASE SafePositions(p, junk) = {}
    <3>1. UNCHANGED <<freelist, frame, pc>>  BY <2>1, <2>2 DEF Kalloc
    <3>2. QED  BY <1>2, <3>1
  <2>3. CASE SafePositions(p, junk) # {}
    <3>1. SafePositions(p, junk) \in SUBSET Nat  BY <1>1, ListTypes DEF SafePositions
    <3>2. PICK k \in SafePositions(p, junk) : k = Min(SafePositions(p, junk))
      BY <2>3, <3>1, MinIs
    <3>3. k \in 1 .. Len(freelist) /\ safe_guard(freelist[k], p, junk)
      BY <3>2 DEF SafePositions
    <3>4. PICK f \in Frames : f = freelist[k]  BY <1>1, <3>3, ListTypes
    <3>5. /\ frame' = [frame EXCEPT ![t] = f] /\ pc' = [pc EXCEPT ![t] = "mark"]
          /\ freelist' = Unlinked(freelist, k)
      BY <2>1, <2>3, <3>2, <3>4 DEF Kalloc
    <3>6. Taken(t, f)
      <4>1. In(f, freelist)  BY <3>3, <3>4 DEF In
      <4>2. QED  BY <1>1, <3>3, <3>4, <3>5, <4>1, UnlinkIs DEF Taken
    <3>7. Safe(f, p)
      BY <3>3, <3>4, FrameIsInt, KAllocAssumption DEF Safe, safe_guard, Neighbour, Tracked, Frames
    <3>8. QED  BY <1>2, <3>6, <3>7
  <2>4. QED  BY <2>2, <2>3
<1>5. QED  BY <1>3, <1>4 DEF Takes

(* A kalloc() that takes a page, or none, keeps the invariant. *)
LEMMA TakeStep ==
  ASSUME IInv, NEW t \in Threads, NEW p \in Owners, Takes(t, p)
  PROVE  IInv'
<1> USE DEF IInv
<1>0. TypeOK  OBVIOUS
<1>1. /\ pc[t] = "idle" /\ frame[t] = NULL /\ pid' = [pid EXCEPT ![t] = p]
      /\ UNCHANGED <<pg2pid, allocated_count, boot, handed>> /\ fault' \in BOOLEAN
      /\ overlap' = (overlap \/ \E u \in Threads \ {t} : pc[u] # "idle")
  BY TakeFacts
<1>2. pid' \in [Threads -> Owners] /\ \A u \in Threads : pid'[u] = IF u = t THEN p ELSE pid[u]
  BY <1>0, <1>1 DEF TypeOK
<1>3. overlap' \in BOOLEAN  BY <1>0, <1>1 DEF TypeOK
<1>4. ~overlap' => ~overlap /\ \A u \in Threads \ {t} : pc[u] = "idle"
  BY <1>1
<1>5. CASE /\ UNCHANGED <<freelist, frame>>
           /\ pc' = pc \/ pc' = [pc EXCEPT ![t] = "mark"]
  <2>1. /\ pc' \in [Threads -> {"idle", "mark", "count", "uncount", "insert"}]
        /\ pc'[t] \in {"idle", "mark"} /\ \A u \in Threads \ {t} : pc'[u] = pc[u]
    BY <1>0, <1>1, <1>5 DEF TypeOK
  <2>2. TypeOK'  BY <1>0, <1>1, <1>2, <1>3, <1>5, <2>1 DEF TypeOK
  <2>3. FrameInv'  BY <1>1, <1>5, <2>1 DEF FrameInv
  <2>4. FreelistSorted' /\ Placed'
    BY <1>1, <1>5 DEF FreelistSorted, Placed
  <2>5. Marks'
    <3>1. \A f \in Tracked : f # NULL  BY FrameIsInt
    <3>2. QED  BY <1>1, <1>2, <1>5, <2>1, <3>1 DEF Marks
  <2>6. CountInv'
    <3>1. Counted' = Counted  BY <1>1, <1>5, <2>1, FrameIsInt DEF Counted
    <3>2. QED  BY <1>1, <3>1 DEF CountInv
  <2>7. ApartInv'
    <3>1. frame'[t] \notin Tracked  BY <1>1, <1>5, FrameIsInt
    <3>2. Apart' = Apart  BY <1>1 DEF Apart, Handed
    <3>3. QED  BY <1>1, <1>2, <1>4, <1>5, <2>1, <3>1, <3>2 DEF ApartInv
  <2>8. QED  BY <2>2, <2>3, <2>4, <2>5, <2>6, <2>7
<1>6. CASE \E f \in Frames : Taken(t, f) /\ Safe(f, p)
  <2>1. PICK f \in Frames : Taken(t, f) /\ Safe(f, p)  BY <1>6
  <2>2. /\ In(f, freelist) /\ freelist' \in Seq(Frames) /\ Sorted(freelist')
        /\ \A x : In(x, freelist') <=> In(x, freelist) /\ x # f
    BY <2>1 DEF Taken
  <2>3. /\ frame' \in [Threads -> Frames \cup {NULL}]
        /\ \A u \in Threads : frame'[u] = IF u = t THEN f ELSE frame[u]
    BY <1>0, <2>1 DEF Taken, TypeOK
  <2>4. /\ pc' \in [Threads -> {"idle", "mark", "count", "uncount", "insert"}]
        /\ \A u \in Threads : pc'[u] = IF u = t THEN "mark" ELSE pc[u]
    BY <1>0, <2>1 DEF Taken, TypeOK
  <2>5. handed[f] = FREE /\ boot < f /\ \A u \in Threads : frame[u] # f
    BY <2>2 DEF Placed
  <2>6. f # NULL /\ f \in Int /\ NULL \notin Frames /\ boot \in Int
    BY <1>0, FrameIsInt, KAllocAssumption DEF TypeOK
  <2>7. TypeOK'  BY <1>0, <1>1, <1>2, <1>3, <2>2, <2>3, <2>4 DEF TypeOK
  <2>8. FrameInv'  BY <2>3, <2>4 DEF FrameInv
  <2>9. FreelistSorted'  BY <2>2 DEF FreelistSorted, Sorted
  <2>10. Placed'
    <3>1. \A g \in Frames : (\E u \in Threads : frame'[u] = g) <=>
            g = f \/ \E u \in Threads : frame[u] = g
      BY <1>1, <2>3, <2>6
    <3>2. \A g \in Frames : g <= boot => g # f
      BY <2>5, <2>6, FrameIsInt
    <3>3. \A g \in Frames :
            /\ In(g, freelist') \/ handed[g] # FREE \/ g <= boot \/ \E u \in Threads : frame'[u] = g
            /\ In(g, freelist') => handed[g] = FREE /\ boot < g /\ \A u \in Threads : frame'[u] # g
            /\ handed[g] # FREE => boot < g /\ \A u \in Threads : frame'[u] # g
            /\ g <= boot => \A u \in Threads : frame'[u] # g
      BY <2>2, <2>5, <3>1, <3>2 DEF Placed
    <3>4. \A u, v \in Threads : u # v /\ frame'[u] = frame'[v] => frame'[u] = NULL
      BY <2>3, <2>5 DEF Placed
    <3>5. QED  BY <1>1, <3>3, <3>4 DEF Placed
  <2>11. Marks'
    BY <1>1, <1>2, <2>2, <2>3, <2>4, FrameIsInt DEF Marks
  <2>12. CountInv'
    <3>1. Counted' = Counted
      BY <1>1, <2>3, <2>4, <2>6, FrameIsInt DEF Counted
    <3>2. QED  BY <1>1, <3>1 DEF CountInv
  <2>13. ApartInv'
    <3>1. Apart' = Apart  BY <1>1 DEF Apart, Handed
    <3>2. ASSUME p # KERNEL, NEW g \in Tracked, handed[g] # FREE, handed[g] # KERNEL,
                 g = f + 1 \/ g = f - 1
          PROVE  handed[g] = p
      BY <2>1, <3>2 DEF Safe, Marks
    <3>3. QED  BY <1>1, <1>2, <1>4, <2>3, <2>4, <3>1, <3>2 DEF ApartInv
  <2>14. QED  BY <2>7, <2>8, <2>9, <2>10, <2>11, <2>12, <2>13
<1>7. QED  BY <1>5, <1>6, TakeFacts

LEMMA CountedFinite == IsFiniteSet(Counted) /\ Cardinality(Counted) \in Nat
<1>1. Counted \in SUBSET Tracked /\ IsFiniteSet(Tracked)
  BY FS_Interval, KAllocAssumption DEF Counted, Tracked
<1>2. QED  BY <1>1, FS_Subset, FS_CardinalityType

(* Writing pg2pid after the lock is gone. *)
LEMMA MarkStep ==
  ASSUME IInv, NEW t \in Threads, KallocMark(t)
  PROVE  IInv'
<1> USE DEF IInv
<1>0. TypeOK  OBVIOUS
<1>1. pc[t] = "mark" /\ UNCHANGED <<freelist, allocated_count, boot, pid, overlap>>
  BY DEF KallocMark
<1>2. CASE frame[t] = NULL
  <2>1. UNCHANGED <<pg2pid, pc, handed, frame>> /\ fault' \in BOOLEAN
    BY <1>2 DEF KallocMark
  <2>2. TypeOK' /\ FrameInv' /\ FreelistSorted' /\ Placed' /\ Marks'
    BY <1>0, <1>1, <2>1 DEF TypeOK, FrameInv, FreelistSorted, Placed, Marks
  <2>3. CountInv'  BY <1>1, <2>1 DEF CountInv, Counted
  <2>4. ApartInv'  BY <1>1, <2>1 DEF ApartInv, Apart, Handed
  <2>5. QED  BY <2>2, <2>3, <2>4
<1>3. CASE frame[t] # NULL /\ frame[t] \in Tracked
  <2>1. PICK f \in Tracked : f = frame[t]  BY <1>3
  <2>2. /\ pg2pid' = [pg2pid EXCEPT ![f] = pid[t]] /\ pc' = [pc EXCEPT ![t] = "count"]
        /\ UNCHANGED <<fault, handed, frame>>
    BY <1>3, <2>1 DEF KallocMark
  <2>3. /\ pc' \in [Threads -> {"idle", "mark", "count", "uncount", "insert"}]
        /\ \A u \in Threads : pc'[u] = IF u = t THEN "count" ELSE pc[u]
    BY <1>0, <2>2 DEF TypeOK
  <2>4. pid[t] \in Int /\ pid[t] \in Owners  BY <1>0, OwnerIs DEF TypeOK
  <2>5. /\ pg2pid' \in [Tracked -> Int]
        /\ \A g \in Tracked : pg2pid'[g] = IF g = f THEN pid[t] ELSE pg2pid[g]
    BY <1>0, <2>2, <2>4 DEF TypeOK
  <2>6. f \in Frames /\ f # NULL  BY FrameIsInt
  <2>7. ~In(f, freelist) /\ handed[f] = FREE /\ \A u \in Threads \ {t} : frame[u] # f
    BY <2>1, <2>6 DEF Placed
  <2>8. TypeOK'  BY <1>0, <1>1, <2>2, <2>3, <2>5 DEF TypeOK
  <2>9. FrameInv' /\ FreelistSorted' /\ Placed'
    BY <1>1, <2>1, <2>2, <2>3 DEF FrameInv, FreelistSorted, Placed
  <2>10. Marks'
    BY <1>1, <2>1, <2>2, <2>3, <2>5, <2>7 DEF Marks
  <2>11. CountInv'
    <3>1. Counted' = Counted  BY <1>1, <2>2, <2>3 DEF Counted
    <3>2. QED  BY <1>1, <3>1 DEF CountInv
  <2>12. ApartInv'
    <3>1. Apart' = Apart  BY <2>2 DEF Apart, Handed
    <3>2. QED  BY <1>1, <2>2, <2>3, <3>1 DEF ApartInv
  <2>13. QED  BY <2>8, <2>9, <2>10, <2>11, <2>12
<1>4. CASE frame[t] # NULL /\ frame[t] \notin Tracked
  <2>1. PICK f \in Frames : f = frame[t] /\ f \notin Tracked  BY <1>0, <1>4 DEF TypeOK
  <2>2. /\ handed' = [handed EXCEPT ![f] = pid[t]] /\ pc' = [pc EXCEPT ![t] = "idle"]
        /\ frame' = [frame EXCEPT ![t] = NULL] /\ UNCHANGED <<fault, pg2pid>>
    BY <1>4, <2>1 DEF KallocMark
  <2>3. /\ pc' \in [Threads -> {"idle", "mark", "count", "uncount", "insert"}]
        /\ \A u \in Threads : pc'[u] = IF u = t THEN "idle" ELSE pc[u]
        /\ frame' \in [Threads -> Frames \cup {NULL}]
        /\ \A u \in Threads : frame'[u] = IF u = t THEN NULL ELSE frame[u]
    BY <1>0, <2>2 DEF TypeOK
  <2>4. pid[t] # FREE /\ pid[t] \in Owners  BY <1>0, OwnerIs DEF TypeOK
  <2>5. /\ handed' \in [Frames -> Owners \cup {FREE}]
        /\ \A g \in Frames : handed'[g] = IF g = f THEN pid[t] ELSE handed[g]
    BY <1>0, <2>2, <2>4 DEF TypeOK
  <2>6. ~In(f, freelist) /\ handed[f] = FREE /\ boot < f /\ \A u \in Threads \ {t} : frame[u] # f
    <3>1. ~(f <= boot)  BY <2>1 DEF Placed
    <3>2. f \in Int /\ boot \in Int  BY <1>0, FrameIsInt DEF TypeOK
    <3>3. NULL \notin Frames  BY FrameIsInt
    <3>4. QED  BY <2>1, <3>1, <3>2, <3>3 DEF Placed
  <2>7. f # NULL /\ NULL \notin Frames /\ \A g \in Tracked : g # f /\ g \in Frames
    BY <2>1, FrameIsInt
  <2>8. TypeOK'  BY <1>0, <1>1, <2>2, <2>3, <2>5 DEF TypeOK
  <2>9. FrameInv' /\ FreelistSorted'
    BY <1>1, <2>3 DEF FrameInv, FreelistSorted
  <2>10. Placed'
    <3>1. \A g \in Frames : (\E u \in Threads : frame'[u] = g) <=>
            g # f /\ \E u \in Threads : frame[u] = g
      BY <2>1, <2>3, <2>6, <2>7
    <3>2. \A g \in Frames :
            /\ In(g, freelist) \/ handed'[g] # FREE \/ g <= boot \/ \E u \in Threads : frame'[u] = g
            /\ In(g, freelist) => handed'[g] = FREE /\ boot < g /\ \A u \in Threads : frame'[u] # g
            /\ handed'[g] # FREE => boot < g /\ \A u \in Threads : frame'[u] # g
            /\ g <= boot => \A u \in Threads : frame'[u] # g
      BY <2>4, <2>5, <2>6, <3>1 DEF Placed
    <3>3. \A u, v \in Threads : u # v /\ frame'[u] = frame'[v] => frame'[u] = NULL
      BY <2>3 DEF Placed
    <3>4. QED  BY <1>1, <3>2, <3>3 DEF Placed
  <2>11. Marks'
    BY <1>1, <2>2, <2>3, <2>5, <2>7 DEF Marks
  <2>12. CountInv'
    <3>1. Counted' = Counted  BY <1>1, <2>1, <2>3, <2>5, <2>7 DEF Counted
    <3>2. QED  BY <1>1, <3>1 DEF CountInv
  <2>13. ApartInv'
    <3>1. \A g \in Tracked : handed'[g] = handed[g]  BY <2>5, <2>7
    <3>2. Apart => Apart'  BY <2>7, <3>1 DEF Apart, Handed
    <3>3. QED  BY <1>1, <2>3, <3>1, <3>2 DEF ApartInv
  <2>14. QED  BY <2>8, <2>9, <2>10, <2>11, <2>12, <2>13
<1>5. QED  BY <1>2, <1>3, <1>4

(* allocated_count++ and the return of kalloc(). *)
LEMMA CountStep ==
  ASSUME IInv, NEW t \in Threads, KallocCount(t)
  PROVE  IInv'
<1> USE DEF IInv
<1>0. TypeOK  OBVIOUS
<1>1. PICK f \in Tracked : f = frame[t]  BY DEF KallocCount, FrameInv
<1>2. /\ pc[t] = "count" /\ allocated_count' = allocated_count + 1
      /\ handed' = [handed EXCEPT ![f] = pid[t]] /\ pc' = [pc EXCEPT ![t] = "idle"]
      /\ frame' = [frame EXCEPT ![t] = NULL]
      /\ UNCHANGED <<freelist, pg2pid, boot, pid, fault, overlap>>
  BY <1>1 DEF KallocCount
<1>3. f \in Frames /\ f # NULL /\ NULL \notin Frames /\ \A g \in Tracked : g \in Frames
  BY <1>1, FrameIsInt
<1>4. /\ pc' \in [Threads -> {"idle", "mark", "count", "uncount", "insert"}]
      /\ \A u \in Threads : pc'[u] = IF u = t THEN "idle" ELSE pc[u]
      /\ frame' \in [Threads -> Frames \cup {NULL}]
      /\ \A u \in Threads : frame'[u] = IF u = t THEN NULL ELSE frame[u]
  BY <1>0, <1>2 DEF TypeOK
<1>5. pid[t] # FREE /\ pid[t] \in Owners  BY <1>0, OwnerIs DEF TypeOK
<1>6. /\ handed' \in [Frames -> Owners \cup {FREE}]
      /\ \A g \in Frames : handed'[g] = IF g = f THEN pid[t] ELSE handed[g]
  BY <1>0, <1>2, <1>5 DEF TypeOK
<1>7. ~In(f, freelist) /\ handed[f] = FREE /\ boot < f /\ \A u \in Threads \ {t} : frame[u] # f
  <2>1. ~(f <= boot)  BY <1>1, <1>3 DEF Placed
  <2>2. f \in Int /\ boot \in Int  BY <1>0, <1>3, FrameIsInt DEF TypeOK
  <2>3. QED  BY <1>1, <1>3, <2>1, <2>2 DEF Placed
<1>8. TypeOK'  BY <1>0, <1>2, <1>4, <1>6 DEF TypeOK
<1>9. FrameInv' /\ FreelistSorted'
  BY <1>2, <1>4 DEF FrameInv, FreelistSorted
<1>10. Placed'
  <2>1. \A g \in Frames : (\E u \in Threads : frame'[u] = g) <=>
          g # f /\ \E u \in Threads : frame[u] = g
    BY <1>1, <1>3, <1>4, <1>7
  <2>2. \A g \in Frames :
          /\ In(g, freelist) \/ handed'[g] # FREE \/ g <= boot \/ \E u \in Threads : frame'[u] = g
          /\ In(g, freelist) => handed'[g] = FREE /\ boot < g /\ \A u \in Threads : frame'[u] # g
          /\ handed'[g] # FREE => boot < g /\ \A u \in Threads : frame'[u] # g
          /\ g <= boot => \A u \in Threads : frame'[u] # g
    BY <1>5, <1>6, <1>7, <2>1 DEF Placed
  <2>3. \A u, v \in Threads : u # v /\ frame'[u] = frame'[v] => frame'[u] = NULL
    BY <1>4 DEF Placed
  <2>4. QED  BY <1>2, <2>2, <2>3 DEF Placed
<1>11. Marks'
  <2>1. pg2pid[f] = pid[t]  BY <1>1, <1>2 DEF Marks
  <2>2. QED  BY <1>2, <1>3, <1>4, <1>6, <1>7, <2>1 DEF Marks
<1>12. CountInv'
  <2>1. Counted' = Counted \cup {f}
    BY <1>1, <1>2, <1>3, <1>4, <1>5, <1>6 DEF Counted
  <2>2. f \notin Counted  BY <1>1, <1>2, <1>7 DEF Counted
  <2>3. Cardinality(Counted') = Cardinality(Counted) + 1
    BY <2>1, <2>2, CountedFinite, FS_AddElement
  <2>4. QED  BY <1>2, <2>3 DEF CountInv
<1>13. ApartInv'
  <2> SUFFICES ASSUME ~overlap PROVE ApartInv'  BY <1>2 DEF ApartInv
  <2>1. ASSUME NEW g \in Tracked, g = f + 1 \/ g = f - 1, handed[g] # FREE,
               handed[g] # KERNEL, pid[t] # KERNEL
        PROVE  handed[g] = pid[t]
    BY <1>1, <1>2, <2>1 DEF ApartInv
  <2>2. Apart'
    <3> SUFFICES ASSUME NEW a \in Tracked, NEW b \in Tracked, handed'[a] # FREE,
                        handed'[b] # FREE, b = a + 1, handed'[a] # KERNEL, handed'[b] # KERNEL
                 PROVE  handed'[a] = handed'[b]
      BY DEF Apart, Handed
    <3>0. a \in Int /\ b \in Int /\ f \in Int /\ a # b  BY FrameIsInt
    <3>1. CASE a = f  BY <1>3, <1>6, <2>1, <3>0, <3>1
    <3>2. CASE b = f
      <4>1. a = f - 1  BY <3>0, <3>2
      <4>2. QED  BY <1>3, <1>6, <2>1, <3>0, <3>2, <4>1
    <3>3. CASE a # f /\ b # f  BY <1>3, <1>6, <3>3 DEF ApartInv, Apart, Handed
    <3>4. QED  BY <3>1, <3>2, <3>3
  <2>3. \A u \in Threads \ {t} : pc[u] = "idle"  BY <1>2 DEF ApartInv
  <2>4. QED  BY <1>4, <2>2, <2>3 DEF ApartInv
<1>14. QED  BY <1>8, <1>9, <1>10, <1>11, <1>12, <1>13

(* kfree() clears the mark of a page that was in use. *)
LEMMA KfreeStep ==
  ASSUME IInv, NEW t \in Threads, NEW f \in Handed, Kfree(t, f)
  PROVE  IInv'
<1> USE DEF IInv
<1>0. TypeOK  OBVIOUS
<1>1. f \in Frames /\ handed[f] # FREE  BY DEF Handed
<1>2. /\ pc[t] = "idle" /\ frame[t] = NULL /\ handed' = [handed EXCEPT ![f] = FREE]
      /\ frame' = [frame EXCEPT ![t] = f]
      /\ overlap' = (overlap \/ \E u \in Threads \ {t} : pc[u] # "idle")
      /\ pc' = [pc EXCEPT ![t] = IF f \in Tracked THEN "uncount" ELSE "insert"]
      /\ pg2pid' = IF f \in Tracked THEN [pg2pid EXCEPT ![f] = FREE] ELSE pg2pid
      /\ UNCHANGED <<freelist, allocated_count, boot, pid, fault>>
  BY DEF Kfree, FrameInv, Enter
<1>3. /\ pc' \in [Threads -> {"idle", "mark", "count", "uncount", "insert"}]
      /\ \A u \in Threads \ {t} : pc'[u] = pc[u]
      /\ pc'[t] = IF f \in Tracked THEN "uncount" ELSE "insert"
      /\ frame' \in [Threads -> Frames \cup {NULL}]
      /\ \A u \in Threads : frame'[u] = IF u = t THEN f ELSE frame[u]
  BY <1>0, <1>1, <1>2 DEF TypeOK
<1>4. /\ handed' \in [Frames -> Owners \cup {FREE}]
      /\ \A g \in Frames : handed'[g] = IF g = f THEN FREE ELSE handed[g]
  BY <1>0, <1>1, <1>2 DEF TypeOK
<1>5. /\ pg2pid' \in [Tracked -> Int]
      /\ \A g \in Tracked : pg2pid'[g] = IF g = f THEN FREE ELSE pg2pid[g]
  BY <1>0, <1>2, OwnerIs DEF TypeOK
<1>6. ~In(f, freelist) /\ boot < f /\ \A u \in Threads : frame[u] # f
  BY <1>1 DEF Placed
<1>7. f # NULL /\ NULL \notin Frames /\ f \in Int /\ boot \in Int /\ \A g \in Tracked : g \in Frames
  BY <1>0, <1>1, FrameIsInt DEF TypeOK
<1>8. overlap' \in BOOLEAN /\ (~overlap' => ~overlap /\ \A u \in Threads \ {t} : pc[u] = "idle")
  BY <1>0, <1>2 DEF TypeOK
<1>9. TypeOK'  BY <1>0, <1>2, <1>3, <1>4, <1>5, <1>8 DEF TypeOK
<1>10. FrameInv' /\ FreelistSorted'
  BY <1>1, <1>2, <1>3 DEF FrameInv, FreelistSorted
<1>11. Placed'
  <2>1. \A g \in Frames : (\E u \in Threads : frame'[u] = g) <=>
          g = f \/ \E u \in Threads : frame[u] = g
    BY <1>2, <1>3, <1>7
  <2>2. \A g \in Frames : g <= boot => g # f
    BY <1>6, <1>7, FrameIsInt
  <2>3. \A g \in Frames :
          /\ In(g, freelist) \/ handed'[g] # FREE \/ g <= boot \/ \E u \in Threads : frame'[u] = g
          /\ In(g, freelist) => handed'[g] = FREE /\ boot < g /\ \A u \in Threads : frame'[u] # g
          /\ handed'[g] # FREE => boot < g /\ \A u \in Threads : frame'[u] # g
          /\ g <= boot => \A u \in Threads : frame'[u] # g
    BY <1>4, <1>6, <2>1, <2>2 DEF Placed
  <2>4. \A u, v \in Threads : u # v /\ frame'[u] = frame'[v] => frame'[u] = NULL
    BY <1>3, <1>6 DEF Placed
  <2>5. QED  BY <1>2, <2>3, <2>4 DEF Placed
<1>12. Marks'
  BY <1>2, <1>3, <1>4, <1>5, <1>6, <1>7 DEF Marks
<1>13. CountInv'
  <2>1. Counted' = Counted
    <3>1. ASSUME NEW g \in Tracked
          PROVE  (handed'[g] # FREE \/ \E u \in Threads : pc'[u] = "uncount" /\ frame'[u] = g)
                   <=> (handed[g] # FREE \/ \E u \in Threads : pc[u] = "uncount" /\ frame[u] = g)
      <4>1. CASE g = f  BY <1>1, <1>3, <3>1, <4>1
      <4>2. CASE g # f  BY <1>2, <1>3, <1>4, <1>7, <4>2
      <4>3. QED  BY <4>1, <4>2
    <3>2. QED  BY <3>1 DEF Counted
  <2>2. QED  BY <1>2, <2>1 DEF CountInv
<1>14. ApartInv'
  <2>1. Apart => Apart'  BY <1>4, <1>7 DEF Apart, Handed
  <2>2. QED  BY <1>3, <1>8, <2>1 DEF ApartInv
<1>15. QED  BY <1>9, <1>10, <1>11, <1>12, <1>13, <1>14

(* allocated_count--. *)
LEMMA UncountStep ==
  ASSUME IInv, NEW t \in Threads, KfreeCount(t)
  PROVE  IInv'
<1> USE DEF IInv
<1>0. TypeOK  OBVIOUS
<1>1. PICK f \in Tracked : f = frame[t]  BY DEF KfreeCount, FrameInv
<1>2. /\ pc[t] = "uncount" /\ allocated_count' = allocated_count - 1
      /\ pc' = [pc EXCEPT ![t] = "insert"]
      /\ UNCHANGED <<freelist, pg2pid, boot, frame, pid, handed, fault, overlap>>
  BY DEF KfreeCount
<1>3. /\ pc' \in [Threads -> {"idle", "mark", "count", "uncount", "insert"}]
      /\ \A u \in Threads : pc'[u] = IF u = t THEN "insert" ELSE pc[u]
  BY <1>0, <1>2 DEF TypeOK
<1>4. f \in Frames /\ f # NULL  BY FrameIsInt
<1>5. handed[f] = FREE /\ \A u \in Threads \ {t} : frame[u] # f
  BY <1>1, <1>4 DEF Placed
<1>6. TypeOK'  BY <1>0, <1>2, <1>3 DEF TypeOK
<1>7. FrameInv' /\ FreelistSorted' /\ Placed'
  BY <1>1, <1>2, <1>3, <1>4 DEF FrameInv, FreelistSorted, Placed
<1>8. Marks'
  <2>1. \A u \in Threads : (pc'[u] = "count") <=> (pc[u] = "count")
    BY <1>2, <1>3
  <2>2. QED  BY <1>2, <2>1 DEF Marks
<1>9. CountInv'
  <2>1. Counted' = Counted \ {f}
    BY <1>1, <1>2, <1>3, <1>5 DEF Counted
  <2>2. f \in Counted  BY <1>1, <1>2 DEF Counted
  <2>3. Cardinality(Counted') = Cardinality(Counted) - 1
    BY <2>1, <2>2, CountedFinite, FS_RemoveElement
  <2>4. QED  BY <1>2, <2>3 DEF CountInv
<1>10. ApartInv'
  <2>1. Apart' = Apart  BY <1>2 DEF Apart, Handed
  <2>2. QED  BY <1>2, <1>3, <2>1 DEF ApartInv
<1>11. QED  BY <1>6, <1>7, <1>8, <1>9, <1>10

(* The page goes back into the list. *)
LEMMA InsertStep ==
  ASSUME IInv, NEW t \in Threads, KfreeInsert(t)
  PROVE  IInv'
<1> USE DEF IInv
<1>0. TypeOK  OBVIOUS
<1>1. PICK f \in Frames : f = frame[t]  BY DEF KfreeInsert, FrameInv
<1>2. /\ pc[t] = "insert" /\ freelist' = insert_freelist(freelist, f)
      /\ pc' = [pc EXCEPT ![t] = "idle"] /\ frame' = [frame EXCEPT ![t] = NULL]
      /\ UNCHANGED <<pg2pid, allocated_count, boot, pid, handed, fault, overlap>>
  BY <1>1 DEF KfreeInsert
<1>3. /\ pc' \in [Threads -> {"idle", "mark", "count", "uncount", "insert"}]
      /\ \A u \in Threads : pc'[u] = IF u = t THEN "idle" ELSE pc[u]
      /\ frame' \in [Threads -> Frames \cup {NULL}]
      /\ \A u \in Threads : frame'[u] = IF u = t THEN NULL ELSE frame[u]
  BY <1>0, <1>2 DEF TypeOK
<1>4. f # NULL /\ NULL \notin Frames /\ f \in Int /\ boot \in Int /\ \A g \in Tracked : g \in Frames
  BY <1>0, FrameIsInt DEF TypeOK
<1>5. ~In(f, freelist) /\ handed[f] = FREE /\ boot < f /\ \A u \in Threads \ {t} : frame[u] # f
  <2>1. ~(f <= boot)  BY <1>1 DEF Placed
  <2>2. QED  BY <1>1, <1>4, <2>1 DEF Placed
<1>6. /\ freelist' \in Seq(Frames) /\ Sorted(freelist')
      /\ \A x : In(x, freelist') <=> In(x, freelist) \/ x = f
  <2>1. Sorted(freelist) /\ freelist \in Seq(Frames)
    BY <1>0 DEF TypeOK, FreelistSorted, Sorted
  <2>2. QED  BY <1>2, <1>5, <2>1, InsertIs
<1>7. TypeOK'  BY <1>0, <1>2, <1>3, <1>6 DEF TypeOK
<1>8. FrameInv' /\ FreelistSorted'
  BY <1>2, <1>3, <1>6 DEF FrameInv, FreelistSorted, Sorted
<1>9. Placed'
  <2>1. \A g \in Frames : (\E u \in Threads : frame'[u] = g) <=>
          g # f /\ \E u \in Threads : frame[u] = g
    BY <1>1, <1>3, <1>4, <1>5
  <2>2. \A g \in Frames :
          /\ In(g, freelist') \/ handed[g] # FREE \/ g <= boot \/ \E u \in Threads : frame'[u] = g
          /\ In(g, freelist') => handed[g] = FREE /\ boot < g /\ \A u \in Threads : frame'[u] # g
          /\ handed[g] # FREE => boot < g /\ \A u \in Threads : frame'[u] # g
          /\ g <= boot => \A u \in Threads : frame'[u] # g
    BY <1>5, <1>6, <2>1 DEF Placed
  <2>3. \A u, v \in Threads : u # v /\ frame'[u] = frame'[v] => frame'[u] = NULL
    BY <1>3 DEF Placed
  <2>4. QED  BY <1>2, <2>2, <2>3 DEF Placed
<1>10. Marks'
  <2>1. f \in Tracked => pg2pid[f] = FREE  BY <1>1, <1>2 DEF Marks
  <2>2. QED  BY <1>2, <1>3, <1>4, <1>5, <1>6, <2>1 DEF Marks
<1>11. CountInv'
  <2>1. Counted' = Counted
    BY <1>2, <1>3, <1>4 DEF Counted
  <2>2. QED  BY <1>2, <2>1 DEF CountInv
<1>12. ApartInv'
  <2>1. Apart' = Apart  BY <1>2 DEF Apart, Handed
  <2>2. QED  BY <1>2, <1>3, <2>1 DEF ApartInv
<1>13. QED  BY <1>7, <1>8, <1>9, <1>10, <1>11, <1>12

(* The inductive invariant of the allocator. *)
THEOREM AllocatorInvariant == Spec => []IInv
<1>1. ASSUME Init PROVE IInv
  <2>1. /\ freelist = <<>> /\ boot = NFRAMES - 1 /\ handed = [f \in Frames |-> FREE]
        /\ pc = [u \in Threads |-> "idle"] /\ frame = [u \in Threads |-> NULL]
        /\ allocated_count = 0 /\ pid = [u \in Threads |-> KERNEL]
        /\ pg2pid = [i \in Tracked |-> 0] /\ fault = FALSE /\ overlap = FALSE
    BY <1>1 DEF Init
  <2>2. TypeOK
    <3>1. boot \in -1 .. NFRAMES - 1  BY <2>1, KAllocAssumption
    <3>2. freelist \in Seq(Frames)  BY <2>1
    <3>3. pg2pid \in [Tracked -> Int] /\ handed \in [Frames -> Owners \cup {FREE}]
      BY <2>1
    <3>4. /\ pid \in [Threads -> Owners] /\ frame \in [Threads -> Frames \cup {NULL}]
          /\ pc \in [Threads -> {"idle", "mark", "count", "uncount", "insert"}]
      BY <2>1, OwnerIs
    <3>5. fault \in BOOLEAN /\ overlap \in BOOLEAN  BY <2>1, Zenon
    <3>6. allocated_count \in Int  BY <2>1
    <3>7. QED  BY <3>1, <3>2, <3>3, <3>4, <3>5, <3>6 DEF TypeOK
  <2>3. FrameInv /\ FreelistSorted  BY <2>1 DEF FrameInv, FreelistSorted
  <2>4. Placed
    <3>1. \A f \in Frames : f <= boot /\ ~In(f, freelist) /\ handed[f] = FREE
      BY <2>1, KAllocAssumption DEF Frames, In
    <3>2. QED  BY <2>1, <3>1, FrameIsInt DEF Placed
  <2>5. Marks
    BY <2>1, FrameIsInt DEF Marks, In
  <2>6. CountInv
    <3>1. Counted = {}  BY <2>1, FrameIsInt DEF Counted
    <3>2. QED  BY <2>1, <3>1, FS_EmptySet DEF CountInv
  <2>7. ApartInv
    BY <2>1 DEF ApartInv, Apart, Handed
  <2>8. QED  BY <2>2, <2>3, <2>4, <2>5, <2>6, <2>7 DEF IInv
<1>2. ASSUME IInv, [Next]_vars PROVE IInv'
  <2>1. CASE UNCHANGED vars
    <3>1. TypeOK' /\ FrameInv' /\ FreelistSorted' /\ Placed' /\ Marks'
      BY <1>2, <2>1 DEF vars, IInv, TypeOK, FrameInv, FreelistSorted, Placed, Marks
    <3>2. CountInv' /\ ApartInv'
      BY <1>2, <2>1 DEF vars, IInv, CountInv, Counted, ApartInv, Apart, Handed
    <3>3. QED  BY <3>1, <3>2 DEF IInv
  <2>2. ASSUME NEW t \in Threads, ThreadStep(t) PROVE IInv'
    <3>1. CASE KallocKernel(t)
      BY <1>2, <3>1, TakeStep, OwnerIs DEF Takes
    <3>2. CASE \E p \in Owners \ {KERNEL}, junk \in BOOLEAN : Kalloc(t, p, junk)
      BY <1>2, <3>2, TakeStep DEF Takes
    <3>3. CASE KallocMark(t)   BY <1>2, <3>3, MarkStep
    <3>4. CASE KallocCount(t)  BY <1>2, <3>4, CountStep
    <3>5. CASE \E f \in Handed : Kfree(t, f)  BY <1>2, <3>5, KfreeStep
    <3>6. CASE KfreeCount(t)   BY <1>2, <3>6, UncountStep
    <3>7. CASE KfreeInsert(t)  BY <1>2, <3>7, InsertStep
    <3>8. QED  BY <2>2, <3>1, <3>2, <3>3, <3>4, <3>5, <3>6, <3>7 DEF ThreadStep
  <2>3. QED  BY <1>2, <2>1, <2>2, KInitStep DEF Next
<1>3. QED  BY <1>1, <1>2, PTL DEF Spec

(* insert_freelist() and select_page() keep the free list in descending    *)
(* order of address, whatever threads interleave.                          *)
THEOREM ListInOrder == Spec => []FreelistSorted
<1>1. IInv => FreelistSorted  BY DEF IInv
<1>2. QED  BY <1>1, AllocatorInvariant, PTL

(* No page is lost and none is handed out twice. *)
THEOREM PagesConserved == Spec => []Conserved
<1>1. ASSUME IInv PROVE Conserved
  <2>1. TypeOK /\ Placed /\ FrameInv  BY <1>1 DEF IInv
  <2>2. \A x : x \in Listed <=> In(x, freelist)  BY DEF Listed, In
  <2>3. \A f \in Frames : f \in Pending <=> \E t \in Threads : frame[t] = f
    BY <2>1, FrameIsInt DEF Pending, FrameInv
  <2>4. Listed \subseteq Frames  BY <2>1, ListTypes DEF Listed, TypeOK
  <2>5. Pending \subseteq Frames  BY <2>1 DEF Pending, TypeOK
  <2>6. \A f \in Frames : f \in 0 .. boot <=> f <= boot
    BY <2>1, KAllocAssumption DEF TypeOK, Frames
  <2>7. 0 .. boot \subseteq Frames
    BY <2>1, KAllocAssumption DEF TypeOK, Frames
  <2>8. Handed \subseteq Frames /\ \A f \in Frames : f \in Handed <=> handed[f] # FREE
    BY DEF Handed
  <2>9. \A f \in Frames : ~(boot < f /\ f <= boot)
    BY <2>1, FrameIsInt DEF TypeOK
  <2>10. Listed \cup Handed \cup Pending \cup (0 .. boot) = Frames
    BY <2>1, <2>2, <2>3, <2>4, <2>5, <2>6, <2>7, <2>8 DEF Placed
  <2>11. Listed \cap Handed = {}
    BY <2>1, <2>2, <2>8 DEF Placed
  <2>12. (Listed \cup Handed) \cap (Pending \cup (0 .. boot)) = {}
    BY <2>1, <2>2, <2>3, <2>4, <2>6, <2>8, <2>9 DEF Placed
  <2>13. Pending \cap (0 .. boot) = {}
    BY <2>1, <2>3, <2>5, <2>6 DEF Placed
  <2>14. QED  BY <2>1, <2>10, <2>11, <2>12, <2>13 DEF Conserved, Placed
<1>2. QED  BY <1>1, AllocatorInvariant, PTL

(* safe_guard() keeps the pages of two processes apart while calls do not  *)
(* overlap.                                                                *)
THEOREM PagesApart == Spec => []SequentiallyApart
<1>1. IInv => SequentiallyApart  BY DEF IInv, ApartInv, SequentiallyApart
<1>2. QED  BY <1>1, AllocatorInvariant, PTL

-------------------------------------------------------------------------------
(* dump_physmem's walk meets the marked frames one after the other. *)
LEMMA DumpFrameIs ==
  ASSUME TypeOK
  PROVE  /\ IsFiniteSet(Marked) /\ Cardinality(Marked) \in Nat
         /\ Cardinality(Marked) <= NFRAMES
         /\ {DumpFrame(i) : i \in 1 .. Cardinality(Marked)} = Marked
<1>1. Marked \in SUBSET Tracked /\ Marked \in SUBSET Nat
  BY KAllocAssumption DEF Marked, Tracked
<1>2. /\ IsFiniteSet(Tracked) /\ Cardinality(Tracked) = MAX_FRAME_NUM
      /\ MAX_FRAME_NUM \in Nat /\ MAX_FRAME_NUM <= NFRAMES /\ NFRAMES \in Nat
  BY FS_Interval, KAllocAssumption DEF Tracked
<1>3. /\ IsFiniteSet(Marked) /\ Cardinality(Marked) \in Nat
      /\ Cardinality(Marked) <= NFRAMES
  <2>1. IsFiniteSet(Marked) /\ Cardinality(Marked) <= Cardinality(Tracked)
    BY <1>1, <1>2, FS_Subset
  <2>2. Cardinality(Marked) \in Nat  BY <2>1, FS_CardinalityType
  <2>3. QED  BY <1>2, <2>1, <2>2
<1>4. PICK n \in Nat : n = Cardinality(Marked)  BY <1>3
<1>5. ASSUME NEW i \in 1 .. n PROVE DumpFrame(i) = CHOOSE j \in Marked : Rank(Marked, j) = i - 1
  <2>1. ~(i > Cardinality(Marked))  BY <1>3, <1>4
  <2>2. QED  BY <2>1, Zenon DEF DumpFrame, Rank, Below
<1>6. ASSUME NEW i \in 1 .. n PROVE DumpFrame(i) \in Marked
  <2>1. i - 1 \in 0 .. Cardinality(Marked) - 1  BY <1>4
  <2>2. \E j \in Marked : Rank(Marked, j) = i - 1  BY <1>1, <1>3, <2>1, RankIs
  <2>3. QED  BY <1>5, <2>2
<1>7. ASSUME NEW j \in Marked PROVE \E i \in 1 .. n : DumpFrame(i) = j
  <2>1. PICK i \in 1 .. n : Rank(Marked, j) = i - 1
    <3>1. Rank(Marked, j) \in 0 .. n - 1  BY <1>1, <1>3, <1>4, RankIs
    <3>2. Rank(Marked, j) + 1 \in 1 .. n /\ Rank(Marked, j) = (Rank(Marked, j) + 1) - 1  BY <3>1
    <3>3. QED  BY <3>2
  <2>2. \A k \in Marked : Rank(Marked, k) = i - 1 => k = j
    BY <1>1, <1>3, <2>1, RankIs
  <2>3. DumpFrame(i) = j  BY <1>5, <2>1, <2>2
  <2>4. QED  BY <2>3
<1>8. QED  BY <1>3, <1>4, <1>6, <1>7

(* With no call in progress pg2pid names every owner, and dump_physmem     *)
(* reports the frames in use and no others.                                *)
THEOREM DumpTellsTruth == Spec => []DumpTruthful
<1>1. ASSUME IInv PROVE DumpTruthful
  <2> SUFFICES ASSUME Quiet, boot = -1
               PROVE  /\ \A f \in Tracked : pg2pid[f] = handed[f]
                      /\ {sys_dump_physmem(NFRAMES)[i] : i \in 1 .. allocated_count}
                           = Handed \cap Tracked
    BY DEF DumpTruthful
  <2>0. TypeOK /\ Placed /\ Marks /\ FrameInv /\ CountInv  BY <1>1 DEF IInv
  <2>1. \A t \in Threads : pc[t] = "idle" /\ frame[t] = NULL
    BY <2>0 DEF Quiet, FrameInv
  <2>2. ASSUME NEW f \in Tracked PROVE pg2pid[f] = handed[f]
    <3>1. CASE handed[f] # FREE  BY <2>0, <3>1 DEF Marks
    <3>2. CASE handed[f] = FREE
      <4>1. f \in Frames /\ ~(f <= boot)  BY KAllocAssumption DEF Tracked, Frames
      <4>2. In(f, freelist)  BY <2>0, <2>1, <3>2, <4>1, FrameIsInt DEF Placed
      <4>3. QED  BY <2>0, <3>2, <4>2 DEF Marks
    <3>3. QED  BY <3>1, <3>2
  <2>3. Marked = Handed \cap Tracked
    BY <2>2, FrameIsInt DEF Marked, Handed
  <2>4. Counted = Marked
    BY <2>1, <2>2, FrameIsInt DEF Counted, Marked
  <2>5. PICK n \in Nat : n = Cardinality(Marked) /\ n = allocated_count /\ n <= NFRAMES
    BY <2>0, <2>4, DumpFrameIs DEF CountInv
  <2>6. Min({NFRAMES, n}) = n
    <3>1. {NFRAMES, n} \in SUBSET Nat  BY KAllocAssumption
    <3>2. /\ Min({NFRAMES, n}) \in {NFRAMES, n}
          /\ \A k \in {NFRAMES, n} : Min({NFRAMES, n}) <= k
      BY <3>1, MinIs
    <3>3. QED  BY <2>5, <3>2, KAllocAssumption
  <2>7. \A i \in 1 .. n : sys_dump_physmem(NFRAMES)[i] = DumpFrame(i)
    BY <2>5, <2>6 DEF sys_dump_physmem
  <2>8. {sys_dump_physmem(NFRAMES)[i] : i \in 1 .. n} = Marked
    BY <2>0, <2>5, <2>7, DumpFrameIs
  <2>9. QED  BY <2>2, <2>3, <2>5, <2>8
<1>2. QED  BY <1>1, AllocatorInvariant, PTL
===============================================================================
