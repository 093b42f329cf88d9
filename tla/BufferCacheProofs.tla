--------------------------- MODULE BufferCacheProofs ---------------------------
(***************************************************************************)
(* Proofs about BufferCache for every set of processes and blocks and      *)
(* every number of buffers.                                                *)
(***************************************************************************)
EXTENDS BufferCache, NatSets, SequenceTheorems

(***************************************************************************)
(* The inductive invariant, part by part.                                  *)
(***************************************************************************)
Users(i) == {p \in Hands : pc[p] # "idle" /\ at[p] = i}
LockPcs == {"bread", "iosleep", "held"}

(* A buffer's reference count is the number of its users, each of which    *)
(* has it for a block.                                                     *)
Counted ==
  /\ \A i \in Bufs : buf[i].refcnt = Cardinality(Users(i))
  /\ \A p \in Hands : pc[p] # "idle" => buf[at[p]].blockno \in Blocks

(* No block has two buffers. *)
OneBuffer ==
  \A i, j \in Bufs : i # j /\ buf[i].blockno = buf[j].blockno => buf[i].blockno = NoBlock

(* A sleep lock is held from acquiresleep() to releasesleep() by one of    *)
(* the buffer's users, and nobody sleeps for a free one.                   *)
Locked ==
  /\ \A p \in Hands : pc[p] \in LockPcs => lock[at[p]] = p
  /\ \A i \in Bufs : lock[i] # NoProc => at[lock[i]] = i /\ pc[lock[i]] \in LockPcs
  /\ \A p \in Hands : pc[p] = "asleep" => lock[at[p]] # NoProc

(* A process is in one call at a time, and asks only for a block nested    *)
(* inside the one it holds.                                                *)
Ordered ==
  \A h \in Hands :
    /\ pc[h] \notin {"idle", "held"} => pc[OtherHand(h)] \in {"idle", "held"}
    /\ pc[h] \in {"lock", "asleep"} /\ pc[OtherHand(h)] = "held" =>
         Nested(buf[at[OtherHand(h)]].blockno, buf[at[h]].blockno)

(* The driver's queue holds the buffers of those who wait for the disk,    *)
(* each once.                                                              *)
Queued ==
  /\ \A k \in 1 .. Len(idequeue) :
       \E p \in Hands : pc[p] = "iosleep" /\ at[p] = idequeue[k]
  /\ \A j, k \in 1 .. Len(idequeue) : idequeue[j] = idequeue[k] => j = k
  /\ \A p \in Hands :
       pc[p] = "iosleep" => \E k \in 1 .. Len(idequeue) : idequeue[k] = at[p]

(* The newest contents of a block are in its buffer when that is valid and *)
(* was read, and on the disk unless the buffer is dirty.                   *)
Coherent ==
  /\ \A i \in Bufs : buf[i].dirty => buf[i].valid
  /\ \A i \in Bufs : buf[i].valid =>
       buf[i].blockno \in Blocks /\ (i \in unread \/ buf[i].data = latest[buf[i].blockno])
  /\ \A i \in Bufs : buf[i].dirty => i \notin unread
  /\ \A b \in Blocks :
       (\A i \in Bufs : buf[i].blockno = b => ~buf[i].dirty) => disk[b] = latest[b]
  /\ \A p \in Hands : pc[p] = "held" => buf[at[p]].valid

IInv == /\ TypeOK /\ Counted /\ OneBuffer /\ Locked /\ Ordered /\ Queued
        /\ Coherent /\ PanicOnlyWhenPinned

-------------------------------------------------------------------------------
LEMMA HandsFinite ==
  IsFiniteSet(Hands) /\ Cardinality(Hands) \in Nat
<1>1. IsFiniteSet({1, 2})
  <2>1. IsFiniteSet({1}) /\ IsFiniteSet({2})  BY FS_Singleton
  <2>2. {1, 2} = {1} \cup {2}  OBVIOUS
  <2>3. QED  BY <2>1, <2>2, FS_Union
<1>2. IsFiniteSet(Procs)  BY CacheAssumption
<1>3. QED  BY <1>1, <1>2, FS_Product, FS_CardinalityType DEF Hands

(* The other hand of the same process. *)
LEMMA TwoHands ==
  ASSUME NEW h \in Hands
  PROVE  /\ OtherHand(h) \in Hands /\ OtherHand(OtherHand(h)) = h /\ OtherHand(h) # h
         /\ OtherHand(h)[1] = h[1]
         /\ \A g \in Hands : g[1] = h[1] => g = h \/ g = OtherHand(h)
<1>1. PICK p \in Procs, k \in {1, 2} : h = <<p, k>>
  BY DEF Hands
<1>2. OtherHand(h) = <<p, 3 - k>>
  BY <1>1 DEF OtherHand
<1>3. ASSUME NEW g \in Hands, g[1] = h[1] PROVE g = h \/ g = OtherHand(h)
  <2>1. PICK q \in Procs, j \in {1, 2} : g = <<q, j>>
    BY DEF Hands
  <2>2. q = p  BY <1>1, <1>3, <2>1
  <2>3. j = k \/ j = 3 - k  OBVIOUS
  <2>4. QED  BY <1>1, <1>2, <2>1, <2>2, <2>3
<1>4. 3 - k \in {1, 2} /\ 3 - k # k /\ 3 - (3 - k) = k  OBVIOUS
<1>5. OtherHand(h) \in Hands  BY <1>2, <1>4 DEF Hands
<1>6. OtherHand(OtherHand(h)) = h  BY <1>1, <1>2, <1>4 DEF OtherHand
<1>7. OtherHand(h) # h /\ OtherHand(h)[1] = h[1]  BY <1>1, <1>2, <1>4
<1>8. QED  BY <1>3, <1>5, <1>6, <1>7

(* No block is nested inside itself. *)
LEMMA NestedIrreflexive ==
  ASSUME NEW b PROVE ~Nested(b, b)
BY CacheAssumption DEF Nested

(* When some buffer may be recycled, bget() finds one: the search from the *)
(* end of the list meets it, since the list holds every buffer.            *)
LEMMA RecycledUnused ==
  ASSUME TypeOK, NEW u \in Bufs, Unused(u)
  PROVE  Recycled \in Bufs /\ Unused(Recycled)
<1> DEFINE T == {n \in Nat : \E k \in Bufs : Unused(list[k]) /\ n = NBUF - k}
<1>1. PICK k0 \in Bufs : list[k0] = u
  BY DEF TypeOK, Listed
<1>2. NBUF - k0 \in T
  BY <1>1, CacheAssumption DEF Bufs
<1>3. PICK m \in T : \A n \in T : m <= n
  <2>1. T \in SUBSET Nat /\ T # {}  BY <1>2
  <2> HIDE DEF T
  <2>2. QED  BY <2>1, LeastNat
<1>4. PICK k \in Bufs : Unused(list[k]) /\ m = NBUF - k
  BY DEF T
<1>5. ASSUME NEW j \in k + 1 .. NBUF PROVE ~Unused(list[j])
  <2>1. j \in Bufs /\ NBUF - j \in Nat /\ NBUF - j < m
    BY <1>4, CacheAssumption DEF Bufs
  <2>2. QED  BY <1>3, <2>1, <1>4, CacheAssumption DEF Bufs
<1> DEFINE c == CHOOSE n \in Bufs : Unused(list[n]) /\ \A j \in n + 1 .. NBUF : ~Unused(list[j])
<1>6. c \in Bufs /\ Unused(list[c])
  BY <1>4, <1>5
<1>7. Recycled = list[c]
  BY DEF Recycled
<1>8. QED
  <2> HIDE DEF c
  <2>1. QED  BY <1>6, <1>7 DEF TypeOK

(* Moving a buffer to the head keeps every buffer in the list. *)
LEMMA MoveToHeadListed ==
  ASSUME TypeOK, NEW i \in Bufs
  PROVE  /\ MoveToHead(i) \in [Bufs -> Bufs]
         /\ \A j \in Bufs : \E k \in Bufs : MoveToHead(i)[k] = j
<1> DEFINE pos == CHOOSE k \in Bufs : list[k] = i
           moved == [k \in Bufs |-> IF k = 1 THEN i
                                    ELSE IF k <= pos THEN list[k - 1] ELSE list[k]]
<1>1. pos \in Bufs /\ list[pos] = i
  BY DEF TypeOK, Listed
<1>2. MoveToHead(i) = moved
  BY DEF MoveToHead
<1> HIDE DEF pos
<1>3. moved \in [Bufs -> Bufs]
  <2> SUFFICES ASSUME NEW k \in Bufs
               PROVE  (IF k = 1 THEN i ELSE IF k <= pos THEN list[k - 1] ELSE list[k]) \in Bufs
    OBVIOUS
  <2>1. list \in [Bufs -> Bufs]  BY DEF TypeOK
  <2>2. CASE k = 1  BY <2>2
  <2>3. CASE k # 1
    <3>1. k - 1 \in Bufs  BY <2>3, CacheAssumption DEF Bufs
    <3>2. QED  BY <2>1, <2>3, <3>1
  <2>4. QED  BY <2>2, <2>3
<1>4. ASSUME NEW j \in Bufs PROVE \E k \in Bufs : moved[k] = j
  <2>1. PICK k \in Bufs : list[k] = j
    BY DEF TypeOK, Listed
  <2>2. CASE j = i
    <3>1. 1 \in Bufs  BY CacheAssumption DEF Bufs
    <3>2. moved[1] = j  BY <3>1, <2>2
    <3>3. QED  BY <3>1, <3>2
  <2>3. CASE j # i /\ k < pos
    <3>1. k + 1 \in Bufs /\ k + 1 # 1 /\ k + 1 <= pos /\ (k + 1) - 1 = k
      BY <1>1, <2>3, CacheAssumption DEF Bufs
    <3>2. moved[k + 1] = j  BY <3>1, <2>1
    <3>3. QED  BY <3>1, <3>2
  <2>4. CASE j # i /\ ~(k < pos)
    <3>1. k # pos  BY <1>1, <2>1, <2>4
    <3>2. k # 1 /\ ~(k <= pos)
      BY <1>1, <2>4, <3>1, CacheAssumption DEF Bufs
    <3>3. moved[k] = j  BY <3>2, <2>1
    <3>4. QED  BY <3>3
  <2>5. QED  BY <2>2, <2>3, <2>4
<1>5. QED  BY <1>2, <1>3, <1>4

LEMMA UsersFinite ==
  ASSUME NEW i
  PROVE  /\ IsFiniteSet(Users(i)) /\ Cardinality(Users(i)) \in 0 .. Cardinality(Hands)
         /\ Cardinality(Hands) \in Nat
<1>1. Users(i) \in SUBSET Hands  BY DEF Users
<1>2. IsFiniteSet(Hands)  BY HandsFinite
<1>3. QED  BY <1>1, <1>2, FS_Subset, FS_CardinalityType

(* A buffer without references has no users, and no holder of its lock. *)
LEMMA UnusedIsFree ==
  ASSUME IInv, NEW i \in Bufs, Unused(i)
  PROVE  /\ Users(i) = {} /\ lock[i] = NoProc
         /\ \A p \in Hands : pc[p] # "idle" => at[p] # i
<1>1. Cardinality(Users(i)) = 0
  BY DEF IInv, Counted, Unused
<1>2. Users(i) = {}
  BY <1>1, UsersFinite, FS_EmptySet
<1>3. \A p \in Hands : pc[p] # "idle" => at[p] # i
  BY <1>2 DEF Users
<1>4. lock[i] = NoProc
  <2> SUFFICES ASSUME lock[i] # NoProc PROVE FALSE
    OBVIOUS
  <2>1. lock[i] \in Hands  BY DEF IInv, TypeOK
  <2>2. at[lock[i]] = i /\ pc[lock[i]] # "idle"  BY DEF IInv, Locked, LockPcs
  <2>3. QED  BY <1>3, <2>1, <2>2
<1>5. QED  BY <1>2, <1>3, <1>4

(* The condition of bget() and its outcomes. *)
Asks(p, b) ==
  /\ pc[p] = "idle" /\ Free(p)
  /\ pc[OtherHand(p)] = "held" => Nested(buf[at[OtherHand(p)]].blockno, b)

Hit(p, b, i) ==
  /\ Asks(p, b) /\ i \in Bufs /\ buf[i].blockno = b
  /\ buf' = [buf EXCEPT ![i].refcnt = @ + 1]
  /\ at' = [at EXCEPT ![p] = i] /\ Goto(p, "lock")
  /\ UNCHANGED <<panicked, list, lock, idequeue, disk, latest, unread>>

Miss(p, b, i) ==
  /\ Asks(p, b) /\ i \in Bufs /\ Unused(i)
  /\ \A j \in Bufs : buf[j].blockno # b
  /\ buf' = [buf EXCEPT ![i] = Fresh(i, b)]
  /\ at' = [at EXCEPT ![p] = i] /\ Goto(p, "lock")
  /\ UNCHANGED <<panicked, list, lock, idequeue, disk, latest, unread>>

NoBuffers(p, b) ==
  /\ Asks(p, b) /\ \A i \in Bufs : ~Unused(i)
  /\ panicked' = TRUE
  /\ UNCHANGED <<buf, at, pc, list, lock, idequeue, disk, latest, unread>>

LEMMA BgetCases ==
  ASSUME TypeOK, NEW p \in Hands, NEW b \in Blocks, bget(p, b)
  PROVE  \/ \E i \in Bufs : Hit(p, b, i)
         \/ \E i \in Bufs : Miss(p, b, i)
         \/ NoBuffers(p, b)
<1>1. ASSUME NEW i \in Cached(b),
             /\ buf' = [buf EXCEPT ![i].refcnt = @ + 1]
             /\ at' = [at EXCEPT ![p] = i] /\ Goto(p, "lock")
             /\ UNCHANGED panicked
      PROVE  i \in Bufs /\ Hit(p, b, i)
  BY <1>1 DEF Hit, Asks, Cached, bget, Ready
<1>2. ASSUME Cached(b) = {}, NEW u \in Bufs, Unused(u),
             /\ buf' = [buf EXCEPT ![Recycled] = Fresh(Recycled, b)]
             /\ at' = [at EXCEPT ![p] = Recycled] /\ Goto(p, "lock")
             /\ UNCHANGED panicked
      PROVE  Recycled \in Bufs /\ Miss(p, b, Recycled)
  <2>1. Recycled \in Bufs /\ Unused(Recycled)  BY <1>2, RecycledUnused
  <2>2. \A j \in Bufs : buf[j].blockno # b  BY <1>2 DEF Cached
  <2>3. QED  BY <1>2, <2>1, <2>2 DEF Miss, Asks, bget, Ready
<1>3. ASSUME \A i \in Bufs : ~Unused(i), panicked' = TRUE, UNCHANGED <<buf, at, pc>>
      PROVE  NoBuffers(p, b)
  BY <1>3 DEF NoBuffers, Asks, bget, Ready
<1>4. QED  BY <1>1, <1>2, <1>3 DEF bget

(* A step that changes neither the users of the buffers nor their blocks   *)
(* keeps the counts.                                                       *)
LEMMA SameUsers ==
  ASSUME IInv, UNCHANGED at,
         \A q \in Hands : pc'[q] # "idle" <=> pc[q] # "idle",
         \A i \in Bufs : buf'[i].refcnt = buf[i].refcnt /\ buf'[i].blockno = buf[i].blockno
  PROVE  Counted'
<1>1. \A i \in Bufs : Users(i)' = Users(i)
  BY DEF Users
<1>2. \A q \in Hands : at[q] \in Bufs
  BY DEF IInv, TypeOK
<1>3. QED  BY <1>1, <1>2 DEF IInv, Counted

(* The reference counts are right after every step. *)
LEMMA CountedStep ==
  ASSUME IInv, Step
  PROVE  Counted'
<1> USE DEF IInv, TypeOK
<1>1. ASSUME NEW ok \in BOOLEAN, ideintr(ok) PROVE Counted'
  <2>1. /\ UNCHANGED at
        /\ \A q \in Hands : pc'[q] # "idle" <=> pc[q] # "idle"
    BY <1>1 DEF ideintr
  <2>2. \A i \in Bufs : buf'[i].refcnt = buf[i].refcnt /\ buf'[i].blockno = buf[i].blockno
    BY <1>1 DEF ideintr
  <2>3. QED  BY <2>1, <2>2, SameUsers
<1>2. ASSUME NEW p \in Hands, acquiresleep(p) PROVE Counted'
  BY <1>2, SameUsers DEF acquiresleep, Goto
<1>3. ASSUME NEW p \in Hands, bread(p) PROVE Counted'
  BY <1>3, SameUsers DEF bread, iderw, Goto
<1>4. ASSUME NEW p \in Hands, releasesleep(p) PROVE Counted'
  BY <1>4, SameUsers DEF releasesleep, Sleepers
<1>5. ASSUME NEW p \in Hands, brelse(p) PROVE Counted'
  <2>0. PICK i \in Bufs : i = at[p]
    OBVIOUS
  <2>1. p \in Users(i) /\ buf[i].refcnt \in Int
    BY <1>5, <2>0 DEF brelse, Users
  <2>2. Users(i)' = Users(i) \ {p}
    BY <1>5, <2>0 DEF brelse, Users, Goto
  <2>3. \A j \in Bufs \ {i} : Users(j)' = Users(j)
    BY <1>5, <2>0 DEF brelse, Users, Goto
  <2>4. Cardinality(Users(i)') = Cardinality(Users(i)) - 1
    BY <2>1, <2>2, UsersFinite, FS_RemoveElement
  <2>5. /\ buf'[i].refcnt = buf[i].refcnt - 1
        /\ \A j \in Bufs \ {i} : buf'[j].refcnt = buf[j].refcnt
        /\ \A j \in Bufs : buf'[j].blockno = buf[j].blockno
    BY <1>5, <2>0, <2>1 DEF brelse
  <2>6. \A j \in Bufs : buf'[j].refcnt = Cardinality(Users(j)')
    BY <2>3, <2>4, <2>5 DEF Counted
  <2>7. \A q \in Hands : pc'[q] # "idle" => pc[q] # "idle" /\ at'[q] = at[q]
    BY <1>5 DEF brelse, Goto
  <2>8. QED  BY <2>5, <2>6, <2>7 DEF Counted
<1>6. ASSUME NEW p \in Hands, NEW b \in Blocks, bget(p, b) PROVE Counted'
  <2>1. ASSUME NEW i \in Bufs, Hit(p, b, i) PROVE Counted'
    <3>1. p \notin Users(i)
      BY <2>1 DEF Hit, Asks, Users
    <3>2. Users(i)' = Users(i) \cup {p} /\ \A j \in Bufs \ {i} : Users(j)' = Users(j)
      BY <2>1 DEF Hit, Asks, Users, Goto
    <3>3. Cardinality(Users(i)') = Cardinality(Users(i)) + 1
      BY <3>1, <3>2, UsersFinite, FS_AddElement
    <3>4. /\ buf'[i].refcnt = buf[i].refcnt + 1
          /\ \A j \in Bufs \ {i} : buf'[j].refcnt = buf[j].refcnt
          /\ \A j \in Bufs : buf'[j].blockno = buf[j].blockno
      BY <2>1 DEF Hit, Asks
    <3>5. \A j \in Bufs : buf'[j].refcnt = Cardinality(Users(j)')
      BY <3>2, <3>3, <3>4 DEF Counted
    <3>6. \A q \in Hands : pc'[q] # "idle" => q = p \/ (pc[q] # "idle" /\ at'[q] = at[q])
      BY <2>1 DEF Hit, Asks, Goto
    <3>7. buf'[at'[p]].blockno \in Blocks
      BY <2>1, <3>4 DEF Hit, Asks
    <3>8. QED  BY <3>4, <3>5, <3>6, <3>7 DEF Counted
  <2>2. ASSUME NEW i \in Bufs, Miss(p, b, i) PROVE Counted'
    <3>1. Users(i) = {} /\ \A q \in Hands : pc[q] # "idle" => at[q] # i
      BY <2>2, UnusedIsFree DEF Miss, Asks
    <3>2. Users(i)' = {p} /\ \A j \in Bufs \ {i} : Users(j)' = Users(j)
      BY <2>2, <3>1 DEF Miss, Asks, Users, Goto
    <3>3. /\ buf'[i].refcnt = 1 /\ buf'[i].blockno = b
          /\ \A j \in Bufs \ {i} : buf'[j] = buf[j]
      BY <2>2 DEF Miss, Asks, Fresh
    <3>4. \A j \in Bufs : buf'[j].refcnt = Cardinality(Users(j)')
      BY <3>2, <3>3, FS_Singleton DEF Counted
    <3>5. \A q \in Hands : pc'[q] # "idle" =>
             \/ q = p
             \/ pc[q] # "idle" /\ at'[q] = at[q] /\ at[q] \in Bufs \ {i}
      BY <2>2, <3>1 DEF Miss, Asks, Goto
    <3>6. buf'[at'[p]].blockno \in Blocks
      BY <2>2, <3>3 DEF Miss, Asks
    <3>7. \A q \in Hands : pc'[q] # "idle" => buf'[at'[q]].blockno \in Blocks
      <4> SUFFICES ASSUME NEW q \in Hands, pc'[q] # "idle"
                   PROVE  buf'[at'[q]].blockno \in Blocks
        OBVIOUS
      <4>1. CASE q = p  BY <3>6, <4>1
      <4>2. CASE q # p
        <5>1. buf[at[q]].blockno \in Blocks  BY <3>5, <4>2 DEF Counted
        <5>2. buf'[at'[q]] = buf[at[q]]  BY <3>3, <3>5, <4>2
        <5>3. QED  BY <5>1, <5>2
      <4>3. QED  BY <4>1, <4>2
    <3> HIDE DEF IInv, TypeOK
    <3>8. QED  BY <3>4, <3>7 DEF Counted
  <2>3. ASSUME NoBuffers(p, b) PROVE Counted'
    BY <2>3, SameUsers DEF NoBuffers, Asks
  <2>4. QED  BY <1>6, <2>1, <2>2, <2>3, BgetCases
<1>7. ASSUME NEW p \in Hands, NEW d \in Data, bwrite(p, d) PROVE Counted'
  BY <1>7, SameUsers DEF bwrite, iderw, Goto
<1>8. ASSUME NEW p \in Hands, NEW d \in Data, log_write(p, d) PROVE Counted'
  BY <1>8, SameUsers DEF log_write
<1>9. QED  BY <1>1, <1>2, <1>3, <1>4, <1>5, <1>6, <1>7, <1>8 DEF Step

(* Only the last release of a buffer changes the list. *)
LEMMA ListedStep ==
  ASSUME IInv, Step
  PROVE  Listed' /\ list' \in [Bufs -> Bufs]
<1>1. ASSUME NEW p \in Hands, brelse(p) PROVE Listed' /\ list' \in [Bufs -> Bufs]
  <2>1. at[p] \in Bufs /\ list \in [Bufs -> Bufs]  BY DEF IInv, TypeOK
  <2>2. list' = MoveToHead(at[p]) \/ list' = list  BY <1>1 DEF brelse
  <2>3. CASE list' = MoveToHead(at[p])
    <3>1. PICK i \in Bufs : i = at[p]  BY <2>1
    <3>2. QED  BY <2>3, <3>1, MoveToHeadListed DEF IInv, Listed
  <2>4. QED  BY <2>1, <2>2, <2>3 DEF IInv, TypeOK, Listed
<1>2. CASE UNCHANGED list
  BY <1>2 DEF IInv, Listed, TypeOK
<1>3. QED  BY <1>1, <1>2 DEF Step, ideintr, acquiresleep, bread, releasesleep, bget, bwrite, log_write

Buffer == [blockno : Blocks \cup {NoBlock}, refcnt : Int, valid : BOOLEAN,
           dirty : BOOLEAN, data : Data \cup {NoData}]

LEMMA BufferUpdates ==
  ASSUME NEW r \in Buffer
  PROVE  /\ [r EXCEPT !.refcnt = @ + 1] \in Buffer /\ [r EXCEPT !.refcnt = @ - 1] \in Buffer
         /\ \A d \in Data : [r EXCEPT !.dirty = TRUE, !.data = d] \in Buffer
         /\ \A d \in Data \cup {NoData} :
              [r EXCEPT !.valid = TRUE, !.dirty = FALSE, !.data = d] \in Buffer
<1>1. ASSUME NEW n \in Int PROVE [r EXCEPT !.refcnt = n] \in Buffer
  BY DEF Buffer
<1>2. r.refcnt + 1 \in Int /\ r.refcnt - 1 \in Int
  BY DEF Buffer
<1>3. ASSUME NEW d \in Data PROVE [r EXCEPT !.dirty = TRUE, !.data = d] \in Buffer
  BY DEF Buffer
<1>4. ASSUME NEW d \in Data \cup {NoData}
      PROVE  [r EXCEPT !.valid = TRUE, !.dirty = FALSE, !.data = d] \in Buffer
  BY DEF Buffer
<1>5. QED  BY <1>1, <1>2, <1>3, <1>4, Zenon

(* Every variable keeps its type. *)
LEMMA TypeStep ==
  ASSUME IInv, Step
  PROVE  TypeOK'
<1> DEFINE Pcs == {"idle", "lock", "asleep", "bread", "iosleep", "held", "brelse"}
           Types == /\ buf \in [Bufs -> Buffer] /\ lock \in [Bufs -> Hands \cup {NoProc}]
                    /\ idequeue \in Seq(Bufs)
                    /\ disk \in [Blocks -> Data] /\ latest \in [Blocks -> Data]
                    /\ pc \in [Hands -> Pcs] /\ at \in [Hands -> Bufs] /\ panicked \in BOOLEAN
                    /\ unread \in SUBSET Bufs
<1>0. Types
  BY UsersFinite DEF IInv, TypeOK, Buffer
<1>1. ASSUME NEW ok \in BOOLEAN, ideintr(ok) PROVE Types'
  <2>1. PICK i \in Bufs : i = Head(idequeue)
    BY <1>0, <1>1 DEF ideintr
  <2>2. PICK q \in Hands : pc[q] = "iosleep" /\ at[q] = i
    <3>1. 1 \in 1 .. Len(idequeue) /\ idequeue[1] = i
      BY <1>0, <1>1, <2>1 DEF ideintr
    <3>2. QED  BY <3>1 DEF IInv, Queued
  <2>3. buf[i].blockno \in Blocks
    BY <2>2 DEF IInv, Counted
  <2>4. buf[i].dirty => buf[i].data \in Data
    BY <1>0, <2>3 DEF IInv, Coherent
  <2>5. buf' \in [Bufs -> Buffer]
    <3> DEFINE r == [buf[i] EXCEPT !.valid = TRUE, !.dirty = FALSE,
                        !.data = IF buf[i].dirty \/ ~ok THEN buf[i].data ELSE disk[buf[i].blockno]]
    <3>1. buf[i].data \in Data \cup {NoData} /\ disk[buf[i].blockno] \in Data
      BY <1>0, <2>3 DEF Buffer
    <3>1a. r \in Buffer  BY <1>0, <3>1, BufferUpdates
    <3>2. buf' = [buf EXCEPT ![i] = r]  BY <1>0, <1>1, <2>1 DEF ideintr
    <3> HIDE DEF r
    <3>3. QED  BY <1>0, <3>1a, <3>2
  <2>6. disk' \in [Blocks -> Data]
    BY <1>0, <1>1, <2>1, <2>3, <2>4 DEF ideintr
  <2>7. pc' \in [Hands -> Pcs]
    BY <1>0, <1>1 DEF ideintr
  <2>8. idequeue' \in Seq(Bufs)
    BY <1>0, <1>1 DEF ideintr
  <2>9. unread' \in SUBSET Bufs
    BY <1>0, <1>1, <2>1 DEF ideintr
  <2>10. QED  BY <1>0, <1>1, <2>5, <2>6, <2>7, <2>8, <2>9 DEF ideintr
<1>2. ASSUME NEW p \in Hands, acquiresleep(p) PROVE Types'
  <2>1. lock' \in [Bufs -> Hands \cup {NoProc}]  BY <1>0, <1>2 DEF acquiresleep
  <2>2. pc' \in [Hands -> Pcs]  BY <1>0, <1>2 DEF acquiresleep, Goto
  <2> HIDE DEF Pcs
  <2>3. QED  BY <1>0, <1>2, <2>1, <2>2 DEF acquiresleep
<1>3. ASSUME NEW p \in Hands, bread(p) PROVE Types'
  <2>1. idequeue' \in Seq(Bufs)
    <3>1. Append(idequeue, at[p]) \in Seq(Bufs)  BY <1>0, AppendProperties
    <3>2. QED  BY <1>0, <1>3, <3>1 DEF bread, iderw
  <2>2. pc' \in [Hands -> Pcs]  BY <1>0, <1>3 DEF bread, iderw, Goto
  <2> HIDE DEF Pcs
  <2>3. QED  BY <1>0, <1>3, <2>1, <2>2 DEF bread
<1>4. ASSUME NEW p \in Hands, releasesleep(p) PROVE Types'
  BY <1>0, <1>4 DEF releasesleep
<1>5. ASSUME NEW p \in Hands, brelse(p) PROVE Types'
  <2>1. 1 \in Bufs  BY CacheAssumption DEF Bufs
  <2>2. PICK i \in Bufs : i = at[p]  BY <1>0
  <2>3. buf' \in [Bufs -> Buffer]
    <3> DEFINE r == [buf[i] EXCEPT !.refcnt = @ - 1]
    <3>1. r \in Buffer  BY <1>0, BufferUpdates
    <3>2. buf' = [buf EXCEPT ![i] = r]  BY <1>0, <1>5, <2>2 DEF brelse
    <3> HIDE DEF r
    <3>3. QED  BY <1>0, <3>1, <3>2
  <2>4. pc' \in [Hands -> Pcs] /\ at' \in [Hands -> Bufs]
    BY <1>0, <1>5, <2>1 DEF brelse, Goto
  <2> HIDE DEF Pcs
  <2>5. QED  BY <1>0, <1>5, <2>3, <2>4 DEF brelse
<1>6. ASSUME NEW p \in Hands, NEW b \in Blocks, bget(p, b) PROVE Types'
  <2>1. ASSUME NEW i \in Bufs, Hit(p, b, i) PROVE Types'
    <3> DEFINE r == [buf[i] EXCEPT !.refcnt = @ + 1]
    <3>1. r \in Buffer  BY <1>0, BufferUpdates
    <3>2. buf' = [buf EXCEPT ![i] = r]  BY <1>0, <2>1 DEF Hit, Asks
    <3>3. pc' \in [Hands -> Pcs]  BY <1>0, <2>1 DEF Hit, Asks, Goto
    <3> HIDE DEF r, Pcs
    <3>4. buf' \in [Bufs -> Buffer]  BY <1>0, <3>1, <3>2
    <3>5. QED  BY <1>0, <2>1, <3>3, <3>4 DEF Hit, Asks
  <2>2. ASSUME NEW i \in Bufs, Miss(p, b, i) PROVE Types'
    <3>1. Fresh(i, b) \in Buffer  BY <1>0 DEF Fresh, Buffer
    <3>2. buf' \in [Bufs -> Buffer]  BY <1>0, <2>2, <3>1 DEF Miss
    <3>3. pc' \in [Hands -> Pcs]  BY <1>0, <2>2 DEF Miss, Goto
    <3> HIDE DEF Pcs
    <3>4. QED  BY <1>0, <2>2, <3>2, <3>3 DEF Miss
  <2>3. ASSUME NoBuffers(p, b) PROVE Types'
    BY <1>0, <2>3 DEF NoBuffers, Asks
  <2>4. QED  BY <1>6, <2>1, <2>2, <2>3, BgetCases DEF IInv
<1>7. ASSUME NEW p \in Hands, NEW d \in Data, bwrite(p, d) PROVE Types'
  <2>1. PICK i \in Bufs : i = at[p]  BY <1>0
  <2>2. buf' \in [Bufs -> Buffer]
    <3> DEFINE r == [buf[i] EXCEPT !.dirty = TRUE, !.data = d]
    <3>1. r \in Buffer  BY <1>0, BufferUpdates
    <3>2. buf' = [buf EXCEPT ![i] = r]  BY <1>0, <1>7, <2>1 DEF bwrite
    <3> HIDE DEF r
    <3>3. QED  BY <1>0, <3>1, <3>2
  <2>3. idequeue' \in Seq(Bufs)
    <3>1. Append(idequeue, at[p]) \in Seq(Bufs)  BY <1>0, AppendProperties
    <3>2. QED  BY <1>7, <3>1 DEF bwrite, iderw
  <2>4. pc' \in [Hands -> Pcs]  BY <1>0, <1>7 DEF bwrite, iderw, Goto
  <2>5. latest' \in [Blocks -> Data]  BY <1>0, <1>7 DEF bwrite
  <2> HIDE DEF Pcs
  <2>6. QED  BY <1>0, <1>7, <2>2, <2>3, <2>4, <2>5 DEF bwrite
<1>8. ASSUME NEW p \in Hands, NEW d \in Data, log_write(p, d) PROVE Types'
  <2>1. PICK i \in Bufs : i = at[p]  BY <1>0
  <2>2. buf' \in [Bufs -> Buffer]
    <3> DEFINE r == [buf[i] EXCEPT !.dirty = TRUE, !.data = d]
    <3>1. r \in Buffer  BY <1>0, BufferUpdates
    <3>2. buf' = [buf EXCEPT ![i] = r]  BY <1>0, <1>8, <2>1 DEF log_write
    <3> HIDE DEF r
    <3>3. QED  BY <1>0, <3>1, <3>2
  <2>3. latest' \in [Blocks -> Data]  BY <1>0, <1>8 DEF log_write
  <2>4. QED  BY <1>0, <1>8, <2>2, <2>3 DEF log_write
<1>9. Types'
  BY <1>1, <1>2, <1>3, <1>4, <1>5, <1>6, <1>7, <1>8 DEF Step
<1>10. \A i \in Bufs : buf'[i].refcnt \in 0 .. Cardinality(Hands)
  <2>1. Counted'  BY CountedStep
  <2>2. ASSUME NEW i \in Bufs PROVE buf'[i].refcnt \in 0 .. Cardinality(Hands)
    <3>1. buf'[i].refcnt = Cardinality(Users(i)')  BY <2>1 DEF Counted
    <3>2. Users(i)' \in SUBSET Hands  BY DEF Users
    <3>3. QED  BY <3>1, <3>2, HandsFinite, FS_Subset, FS_CardinalityType
  <2>3. QED  BY <2>2
<1>11. list' \in [Bufs -> Bufs] /\ Listed'
  BY ListedStep
<1>12. QED  BY <1>9, <1>10, <1>11 DEF TypeOK, Buffer

(* bget() gives a block a buffer only when it has none. *)
LEMMA OneBufferStep ==
  ASSUME IInv, Step
  PROVE  OneBuffer'
<1> USE DEF IInv, TypeOK
<1>1. ASSUME \A i \in Bufs : buf'[i].blockno = buf[i].blockno
      PROVE  OneBuffer'
  BY <1>1 DEF OneBuffer
<1>2. ASSUME NEW ok \in BOOLEAN, ideintr(ok) PROVE OneBuffer'
  <2>1. \A i \in Bufs : buf'[i].blockno = buf[i].blockno  BY <1>2 DEF ideintr
  <2>2. QED  BY <1>1, <2>1
<1>3. ASSUME NEW p \in Hands, NEW b \in Blocks, bget(p, b) PROVE OneBuffer'
  <2>1. ASSUME NEW i \in Bufs, Hit(p, b, i) PROVE OneBuffer'
    <3>1. \A j \in Bufs : buf'[j].blockno = buf[j].blockno  BY <2>1 DEF Hit, Asks
    <3>2. QED  BY <1>1, <3>1
  <2>2. ASSUME NEW i \in Bufs, Miss(p, b, i) PROVE OneBuffer'
    <3>1. /\ buf'[i].blockno = b /\ \A j \in Bufs \ {i} : buf'[j] = buf[j]
          /\ \A j \in Bufs : buf[j].blockno # b
      BY <2>2 DEF Miss, Asks, Fresh
    <3> SUFFICES ASSUME NEW j \in Bufs, NEW k \in Bufs, j # k, buf'[j].blockno = buf'[k].blockno
                 PROVE  buf'[j].blockno = NoBlock
      BY DEF OneBuffer
    <3>2. j # i /\ k # i  BY <3>1
    <3>3. buf'[j] = buf[j] /\ buf'[k] = buf[k]  BY <3>1, <3>2
    <3>4. buf[j].blockno = NoBlock
      <4>1. OneBuffer  OBVIOUS
      <4> HIDE DEF IInv, TypeOK
      <4>2. QED  BY <3>3, <4>1 DEF OneBuffer
    <3>5. QED  BY <3>3, <3>4
  <2>3. ASSUME NoBuffers(p, b) PROVE OneBuffer'
    BY <1>1, <2>3 DEF NoBuffers, Asks
  <2>4. QED  BY <1>3, <2>1, <2>2, <2>3, BgetCases
<1>4. ASSUME NEW p \in Hands,
             acquiresleep(p) \/ bread(p) \/ releasesleep(p) \/ brelse(p)
             \/ \E d \in Data : bwrite(p, d) \/ log_write(p, d)
      PROVE  OneBuffer'
  <2>1. CASE acquiresleep(p) \/ bread(p) \/ releasesleep(p)
    BY <1>1, <2>1 DEF acquiresleep, bread, releasesleep
  <2>2. CASE brelse(p)
    <3>1. \A i \in Bufs : buf'[i].blockno = buf[i].blockno  BY <2>2 DEF brelse
    <3>2. QED  BY <1>1, <3>1
  <2>3. ASSUME NEW d \in Data, bwrite(p, d) \/ log_write(p, d) PROVE OneBuffer'
    <3>1. buf' = [buf EXCEPT ![at[p]].dirty = TRUE, ![at[p]].data = d]
      BY <2>3 DEF bwrite, log_write
    <3>2. \A i \in Bufs : buf'[i].blockno = buf[i].blockno
      BY <3>1
    <3>3. QED  BY <1>1, <3>2
  <2>4. QED  BY <1>4, <2>1, <2>2, <2>3
<1>5. QED  BY <1>2, <1>3, <1>4 DEF Step

(* A step of p that keeps it inside, or outside, of its lock. *)
LEMMA SameLock ==
  ASSUME IInv, UNCHANGED <<lock, at>>,
         \A q \in Hands : /\ pc'[q] \in LockPcs <=> pc[q] \in LockPcs
                          /\ pc'[q] = "asleep" => pc[q] = "asleep"
  PROVE  Locked'
<1>1. \A i \in Bufs : lock[i] # NoProc => lock[i] \in Hands
  BY DEF IInv, TypeOK
<1>2. QED  BY <1>1 DEF IInv, Locked

(* The sleep locks stay with their holders. *)
LEMMA LockedStep ==
  ASSUME IInv, Step
  PROVE  Locked'
<1> USE DEF IInv, TypeOK
<1>0. \A i \in Bufs : lock[i] # NoProc => lock[i] \in Hands
  OBVIOUS
<1>1. ASSUME NEW ok \in BOOLEAN, ideintr(ok) PROVE Locked'
  BY <1>1, SameLock DEF ideintr, LockPcs
<1>2. ASSUME NEW p \in Hands, acquiresleep(p) PROVE Locked'
  <2>1. PICK i \in Bufs : i = at[p]
    OBVIOUS
  <2>2. CASE lock[i] = NoProc
    <3>1. /\ lock'[i] = p /\ \A j \in Bufs \ {i} : lock'[j] = lock[j]
          /\ pc'[p] = "bread" /\ \A q \in Hands \ {p} : pc'[q] = pc[q]
          /\ at' = at
      BY <1>2, <2>1, <2>2 DEF acquiresleep, Goto
    <3>2. \A q \in Hands \ {p} : pc[q] \in LockPcs => at[q] # i
      BY <2>2, CacheAssumption DEF Locked
    <3>3. p # NoProc  BY CacheAssumption
    <3>4. pc[p] \notin LockPcs  BY <1>2 DEF acquiresleep, LockPcs
    <3>5. \A q \in Hands : pc'[q] \in LockPcs => lock'[at'[q]] = q
      <4> SUFFICES ASSUME NEW q \in Hands, pc'[q] \in LockPcs PROVE lock'[at[q]] = q
        BY <3>1
      <4>1. CASE q = p  BY <2>1, <3>1, <4>1
      <4>2. CASE q # p
        <5>1. pc[q] \in LockPcs /\ at[q] \in Bufs \ {i}  BY <3>1, <3>2, <4>2
        <5>2. lock[at[q]] = q  BY <5>1 DEF Locked
        <5>3. QED  BY <3>1, <5>1, <5>2
      <4>3. QED  BY <4>1, <4>2
    <3>6. \A j \in Bufs : lock'[j] # NoProc => at'[lock'[j]] = j /\ pc'[lock'[j]] \in LockPcs
      <4> SUFFICES ASSUME NEW j \in Bufs, lock'[j] # NoProc
                   PROVE  at'[lock'[j]] = j /\ pc'[lock'[j]] \in LockPcs
        OBVIOUS
      <4>1. CASE j = i  BY <2>1, <3>1, <4>1 DEF LockPcs
      <4>2. CASE j # i
        <5>1. lock'[j] = lock[j] /\ lock[j] \in Hands  BY <1>0, <3>1, <4>2
        <5>2. at[lock[j]] = j /\ pc[lock[j]] \in LockPcs  BY <5>1 DEF Locked
        <5>3. lock[j] # p  BY <3>4, <5>2
        <5>4. QED  BY <3>1, <5>1, <5>2, <5>3
      <4>3. QED  BY <4>1, <4>2
    <3>7. \A q \in Hands : pc'[q] = "asleep" => lock'[at'[q]] # NoProc
      <4> SUFFICES ASSUME NEW q \in Hands, pc'[q] = "asleep" PROVE lock'[at[q]] # NoProc
        BY <3>1
      <4>1. q # p /\ pc[q] = "asleep"  BY <3>1
      <4>2. at[q] \in Bufs /\ lock[at[q]] # NoProc  BY <4>1 DEF Locked
      <4>3. QED  BY <3>1, <3>3, <4>2
    <3> HIDE DEF IInv, TypeOK
    <3>8. QED  BY <3>5, <3>6, <3>7 DEF Locked
  <2>3. CASE lock[i] # NoProc
    <3>1. /\ lock' = lock /\ at' = at
          /\ pc'[p] = "asleep" /\ \A q \in Hands \ {p} : pc'[q] = pc[q]
      BY <1>2, <2>1, <2>3 DEF acquiresleep, Goto
    <3>2. pc[p] \notin LockPcs  BY <1>2 DEF acquiresleep, LockPcs
    <3>3. \A q \in Hands : pc'[q] \in LockPcs <=> pc[q] \in LockPcs
      BY <3>1, <3>2 DEF LockPcs
    <3>4. \A q \in Hands : pc'[q] \in LockPcs => lock'[at'[q]] = q
      BY <3>1, <3>3 DEF Locked
    <3>5. \A j \in Bufs : lock'[j] # NoProc => at'[lock'[j]] = j /\ pc'[lock'[j]] \in LockPcs
      BY <1>0, <3>1, <3>3 DEF Locked
    <3>6. \A q \in Hands : pc'[q] = "asleep" => lock'[at'[q]] # NoProc
      BY <2>1, <2>3, <3>1 DEF Locked
    <3> HIDE DEF IInv, TypeOK
    <3>7. QED  BY <3>4, <3>5, <3>6 DEF Locked
  <2>4. QED  BY <2>2, <2>3
<1>3. ASSUME NEW p \in Hands, bread(p) PROVE Locked'
  BY <1>3, SameLock DEF bread, iderw, Goto, LockPcs
<1>4. ASSUME NEW p \in Hands, releasesleep(p) PROVE Locked'
  <2>1. PICK i \in Bufs : i = at[p]
    OBVIOUS
  <2>2. lock[i] = p
    BY <1>4, <2>1 DEF releasesleep, Locked, LockPcs
  <2>3. /\ lock'[i] = NoProc /\ \A j \in Bufs \ {i} : lock'[j] = lock[j]
        /\ at' = at /\ pc'[p] = "brelse"
        /\ \A q \in Hands \ {p} : pc'[q] = pc[q] \/ (pc[q] = "asleep" /\ pc'[q] = "lock")
        /\ \A q \in Hands : pc'[q] = "asleep" => at[q] # i
    BY <1>4, <2>1 DEF releasesleep, Sleepers
  <2>4. \A q \in Hands : pc'[q] \in LockPcs => q # p /\ pc[q] \in LockPcs
    BY <2>3 DEF LockPcs
  <2>5. \A q \in Hands : pc'[q] \in LockPcs => lock'[at'[q]] = q
    BY <2>2, <2>3, <2>4 DEF Locked
  <2>6. \A j \in Bufs : lock'[j] # NoProc => at'[lock'[j]] = j /\ pc'[lock'[j]] \in LockPcs
    <3> SUFFICES ASSUME NEW j \in Bufs, lock'[j] # NoProc
                 PROVE  at'[lock'[j]] = j /\ pc'[lock'[j]] \in LockPcs
      OBVIOUS
    <3>1. j # i /\ lock'[j] = lock[j] /\ lock[j] \in Hands  BY <1>0, <2>3
    <3>2. at[lock[j]] = j /\ pc[lock[j]] \in LockPcs  BY <3>1 DEF Locked
    <3>3. lock[j] # p  BY <2>1, <3>1, <3>2
    <3>4. pc'[lock[j]] = pc[lock[j]]
      BY <2>3, <3>1, <3>2, <3>3 DEF LockPcs
    <3>5. QED  BY <2>3, <3>1, <3>2, <3>4
  <2>7. \A q \in Hands : pc'[q] = "asleep" => lock'[at'[q]] # NoProc
    BY <2>3 DEF Locked
  <2>8. QED  BY <2>5, <2>6, <2>7 DEF Locked
<1>5. ASSUME NEW p \in Hands, brelse(p) PROVE Locked'
  <2>1. /\ lock' = lock /\ pc[p] = "brelse" /\ pc'[p] = "idle"
        /\ \A q \in Hands \ {p} : pc'[q] = pc[q] /\ at'[q] = at[q]
    BY <1>5 DEF brelse, Goto
  <2>2. \A i \in Bufs : lock[i] # NoProc => lock[i] # p
    BY <2>1 DEF Locked, LockPcs
  <2>3. \A q \in Hands : pc'[q] \in LockPcs => q # p  BY <2>1 DEF LockPcs
  <2>4. \A q \in Hands : pc'[q] \in LockPcs => lock'[at'[q]] = q
    BY <2>1, <2>3 DEF Locked
  <2>5. \A j \in Bufs : lock'[j] # NoProc => at'[lock'[j]] = j /\ pc'[lock'[j]] \in LockPcs
    <3> SUFFICES ASSUME NEW j \in Bufs, lock'[j] # NoProc
                 PROVE  at'[lock'[j]] = j /\ pc'[lock'[j]] \in LockPcs
      OBVIOUS
    <3>1. lock'[j] = lock[j] /\ lock[j] \in Hands \ {p}  BY <1>0, <2>1, <2>2
    <3>2. at[lock[j]] = j /\ pc[lock[j]] \in LockPcs  BY <3>1 DEF Locked
    <3>3. QED  BY <2>1, <3>1, <3>2
  <2>6. \A q \in Hands : pc'[q] = "asleep" => lock'[at'[q]] # NoProc
    BY <2>1 DEF Locked
  <2> HIDE DEF IInv, TypeOK
  <2>7. QED  BY <2>4, <2>5, <2>6 DEF Locked
<1>6. ASSUME NEW p \in Hands, NEW b \in Blocks, bget(p, b) PROVE Locked'
  <2>1. ASSUME NEW i \in Bufs, Hit(p, b, i) \/ Miss(p, b, i) PROVE Locked'
    <3>1. /\ lock' = lock /\ pc[p] = "idle" /\ pc'[p] = "lock"
          /\ \A q \in Hands \ {p} : pc'[q] = pc[q] /\ at'[q] = at[q]
      BY <2>1 DEF Hit, Miss, Asks, Goto
    <3>2. \A j \in Bufs : lock[j] # NoProc => lock[j] # p
      BY <3>1 DEF Locked, LockPcs
    <3>3. \A q \in Hands : pc'[q] \in LockPcs \cup {"asleep"} => q # p
      BY <3>1 DEF LockPcs
    <3>4. \A j \in Bufs : lock'[j] # NoProc => at'[lock'[j]] = j /\ pc'[lock'[j]] \in LockPcs
      BY <1>0, <3>1, <3>2 DEF Locked
    <3>5. \A q \in Hands : /\ pc'[q] \in LockPcs => lock'[at'[q]] = q
                           /\ pc'[q] = "asleep" => lock'[at'[q]] # NoProc
      BY <3>1, <3>3 DEF Locked
    <3>6. QED  BY <3>4, <3>5 DEF Locked
  <2>2. ASSUME NoBuffers(p, b) PROVE Locked'
    BY <2>2, SameLock DEF NoBuffers, Asks
  <2>3. QED  BY <1>6, <2>1, <2>2, BgetCases
<1>7. ASSUME NEW p \in Hands, NEW d \in Data, bwrite(p, d) PROVE Locked'
  BY <1>7, SameLock DEF bwrite, iderw, Goto, LockPcs
<1>8. ASSUME NEW p \in Hands, NEW d \in Data, log_write(p, d) PROVE Locked'
  BY <1>8, SameLock DEF log_write
<1>9. QED  BY <1>1, <1>2, <1>3, <1>4, <1>5, <1>6, <1>7, <1>8 DEF Step

(* A step of one hand h that leaves the others where they are and the      *)
(* blocks of their buffers alone.                                          *)
LEMMA HandOrdered ==
  ASSUME IInv, NEW h \in Hands, Free(h),
         \A g \in Hands \ {h} : at'[g] = at[g] /\ (pc'[g] = pc[g] \/ (pc[g] = "asleep" /\ pc'[g] = "lock")),
         \A g \in Hands : pc[g] # "idle" => buf'[at[g]].blockno = buf[at[g]].blockno,
         pc'[h] \in {"lock", "asleep"} =>
            \/ pc[OtherHand(h)] = "held" => Nested(buf[at[OtherHand(h)]].blockno, buf'[at'[h]].blockno)
  PROVE  Ordered'
<1> USE DEF IInv, Free
<1> SUFFICES ASSUME NEW g \in Hands
             PROVE  /\ pc'[g] \notin {"idle", "held"} => pc'[OtherHand(g)] \in {"idle", "held"}
                    /\ pc'[g] \in {"lock", "asleep"} /\ pc'[OtherHand(g)] = "held" =>
                         Nested(buf'[at'[OtherHand(g)]].blockno, buf'[at'[g]].blockno)
  BY DEF Ordered
<1>1. PICK o \in Hands : o = OtherHand(g) /\ OtherHand(o) = g /\ o # g
  BY TwoHands
<1>2. CASE g = h
  BY <1>1, <1>2
<1>3. CASE o = h
  <2>1. pc[g] \in {"idle", "held"} /\ pc'[g] = pc[g]  BY <1>1, <1>3
  <2>2. QED  BY <2>1
<1>4. CASE g # h /\ o # h
  <2>1. /\ pc'[g] = pc[g] \/ (pc[g] = "asleep" /\ pc'[g] = "lock")
        /\ pc'[o] = pc[o] \/ (pc[o] = "asleep" /\ pc'[o] = "lock")
        /\ at'[g] = at[g] /\ at'[o] = at[o]
    BY <1>4
  <2>2. /\ pc[g] \notin {"idle", "held"} => pc[o] \in {"idle", "held"}
        /\ pc[g] \in {"lock", "asleep"} /\ pc[o] = "held" =>
             Nested(buf[at[o]].blockno, buf[at[g]].blockno)
    BY <1>1 DEF Ordered
  <2>3. QED  BY <1>1, <2>1, <2>2
<1>5. QED  BY <1>2, <1>3, <1>4

(* Processes ask for blocks in their order only. *)
LEMMA OrderedStep ==
  ASSUME IInv, Step
  PROVE  Ordered'
<1> USE DEF IInv, TypeOK
<1>0. \A h \in Hands : OtherHand(h) \in Hands /\ OtherHand(h) # h
  BY TwoHands
<1>1. ASSUME NEW ok \in BOOLEAN, ideintr(ok) PROVE Ordered'
  <2>1. PICK i \in Bufs : i = Head(idequeue) /\ i = idequeue[1] /\ 1 \in 1 .. Len(idequeue)
    BY <1>1 DEF ideintr
  <2>2. PICK h \in Hands : pc[h] = "iosleep" /\ at[h] = i
    BY <2>1 DEF Queued
  <2>3. \A g \in Hands : pc[g] = "iosleep" /\ at[g] = i => g = h
    BY <2>2 DEF Locked, LockPcs
  <2>4. /\ at' = at /\ pc'[h] = "held" /\ \A g \in Hands \ {h} : pc'[g] = pc[g]
    BY <1>1, <2>1, <2>2, <2>3 DEF ideintr
  <2>5. \A j \in Bufs : buf'[j].blockno = buf[j].blockno
    BY <1>1 DEF ideintr
  <2>6. Free(h)  BY <2>2 DEF Ordered, Free
  <2> HIDE DEF IInv, TypeOK
  <2>7. \A g \in Hands : at[g] \in Bufs  BY DEF IInv, TypeOK
  <2>8. QED  BY <2>4, <2>5, <2>6, <2>7, HandOrdered
<1>2. ASSUME NEW h \in Hands, acquiresleep(h) PROVE Ordered'
  <2>1. Free(h) /\ pc[h] = "lock"  BY <1>2 DEF acquiresleep, Ordered, Free
  <2>2. at' = at /\ buf' = buf /\ \A g \in Hands \ {h} : pc'[g] = pc[g]
    BY <1>2 DEF acquiresleep, Goto
  <2>3. pc[OtherHand(h)] = "held" => Nested(buf[at[OtherHand(h)]].blockno, buf[at[h]].blockno)
    BY <2>1 DEF Ordered
  <2> HIDE DEF IInv, TypeOK
  <2>4. QED  BY <2>1, <2>2, <2>3, HandOrdered
<1>3. ASSUME NEW h \in Hands, bread(h) PROVE Ordered'
  <2>1. Free(h)  BY <1>3 DEF bread, Ordered, Free
  <2>2. /\ at' = at /\ buf' = buf /\ pc'[h] \in {"held", "iosleep"}
        /\ \A g \in Hands \ {h} : pc'[g] = pc[g]
    BY <1>3 DEF bread, iderw, Goto
  <2> HIDE DEF IInv, TypeOK
  <2>3. QED  BY <2>1, <2>2, HandOrdered
<1>4. ASSUME NEW h \in Hands, releasesleep(h) PROVE Ordered'
  <2>1. Free(h)  BY <1>4 DEF releasesleep
  <2>2. /\ at' = at /\ buf' = buf /\ pc'[h] = "brelse"
        /\ \A g \in Hands \ {h} : pc'[g] = pc[g] \/ (pc[g] = "asleep" /\ pc'[g] = "lock")
    BY <1>4 DEF releasesleep, Sleepers
  <2> HIDE DEF IInv, TypeOK
  <2>3. QED  BY <2>1, <2>2, HandOrdered
<1>5. ASSUME NEW h \in Hands, brelse(h) PROVE Ordered'
  <2>1. Free(h)  BY <1>5 DEF brelse, Ordered, Free
  <2>2. /\ pc'[h] = "idle"
        /\ \A g \in Hands \ {h} : at'[g] = at[g] /\ pc'[g] = pc[g]
    BY <1>5 DEF brelse, Goto
  <2>3. \A j \in Bufs : buf'[j].blockno = buf[j].blockno
    BY <1>5 DEF brelse
  <2>4. \A g \in Hands : at[g] \in Bufs  OBVIOUS
  <2> HIDE DEF IInv, TypeOK
  <2>5. QED  BY <2>1, <2>2, <2>3, <2>4, HandOrdered
<1>6. ASSUME NEW h \in Hands, NEW b \in Blocks, bget(h, b) PROVE Ordered'
  <2>1. ASSUME NEW i \in Bufs, Hit(h, b, i) \/ Miss(h, b, i) PROVE Ordered'
    <3>1. /\ Asks(h, b) /\ at'[h] = i /\ pc'[h] = "lock"
          /\ \A g \in Hands \ {h} : at'[g] = at[g] /\ pc'[g] = pc[g]
      BY <2>1 DEF Hit, Miss, Goto
    <3>2. buf'[i].blockno = b /\ \A j \in Bufs \ {i} : buf'[j].blockno = buf[j].blockno
      <4>1. CASE Hit(h, b, i)  BY <4>1 DEF Hit
      <4>2. CASE Miss(h, b, i)  BY <4>2 DEF Miss, Fresh
      <4>3. QED  BY <2>1, <4>1, <4>2
    <3>3. \A g \in Hands : pc[g] # "idle" => buf'[at[g]].blockno = buf[at[g]].blockno
      <4>1. CASE Hit(h, b, i)  BY <3>2, <4>1 DEF Hit
      <4>2. CASE Miss(h, b, i)
        <5>1. \A g \in Hands : pc[g] # "idle" => at[g] \in Bufs \ {i}
          BY <4>2, UnusedIsFree DEF Miss
        <5>2. QED  BY <3>2, <5>1
      <4>3. QED  BY <2>1, <4>1, <4>2
    <3>4. Free(h)  BY <3>1 DEF Asks
    <3>5. pc[OtherHand(h)] = "held" =>
            Nested(buf[at[OtherHand(h)]].blockno, buf'[at'[h]].blockno)
      BY <3>1, <3>2 DEF Asks
    <3> HIDE DEF IInv, TypeOK
    <3>6. QED  BY <3>1, <3>3, <3>4, <3>5, HandOrdered
  <2>2. ASSUME NoBuffers(h, b) PROVE Ordered'
    BY <2>2 DEF NoBuffers, Ordered
  <2>3. QED  BY <1>6, <2>1, <2>2, BgetCases
<1>7. ASSUME NEW h \in Hands, NEW d \in Data, bwrite(h, d) \/ log_write(h, d) PROVE Ordered'
  <2>1. Free(h) /\ pc[h] = "held"  BY <1>7 DEF bwrite, log_write
  <2>2. /\ at' = at /\ pc'[h] \in {"held", "iosleep"}
        /\ \A g \in Hands \ {h} : pc'[g] = pc[g]
    BY <1>7, <2>1 DEF bwrite, log_write, iderw, Goto
  <2>3. buf' = [buf EXCEPT ![at[h]].dirty = TRUE, ![at[h]].data = d]
    BY <1>7 DEF bwrite, log_write
  <2>4. \A j \in Bufs : buf'[j].blockno = buf[j].blockno  BY <2>3
  <2>5. \A g \in Hands : at[g] \in Bufs  OBVIOUS
  <2> HIDE DEF IInv, TypeOK
  <2>6. QED  BY <2>1, <2>2, <2>4, <2>5, HandOrdered
<1>8. QED  BY <1>1, <1>2, <1>3, <1>4, <1>5, <1>6, <1>7 DEF Step

(* A step that leaves the queue and those who wait for the disk alone. *)
LEMMA SameQueue ==
  ASSUME IInv, UNCHANGED idequeue,
         \A q \in Hands : pc'[q] = "iosleep" <=> pc[q] = "iosleep",
         \A q \in Hands : pc[q] = "iosleep" => at'[q] = at[q]
  PROVE  Queued'
BY DEF IInv, Queued

(* iderw() appends the request of a process that holds the buffer's lock,  *)
(* so that nobody else waits for that buffer.                              *)
LEMMA RequestQueued ==
  ASSUME IInv, NEW p \in Hands, pc[p] \in LockPcs, pc[p] # "iosleep", iderw(p), UNCHANGED at
  PROVE  Queued'
<1>1. PICK i \in Bufs : i = at[p]
  BY DEF IInv, TypeOK
<1>2. /\ idequeue \in Seq(Bufs) /\ Len(idequeue) \in Nat /\ pc = [q \in Hands |-> pc[q]]
  BY DEF IInv, TypeOK
<1>3. /\ Len(idequeue') = Len(idequeue) + 1 /\ idequeue'[Len(idequeue) + 1] = i
      /\ \A k \in 1 .. Len(idequeue) : idequeue'[k] = idequeue[k]
  <2>1. idequeue' = Append(idequeue, i)  BY <1>1 DEF iderw
  <2>2. QED  BY <1>2, <2>1, AppendProperties
<1>4. pc'[p] = "iosleep" /\ \A q \in Hands \ {p} : pc'[q] = pc[q]
  BY <1>2 DEF iderw, Goto
<1>5. \A k \in 1 .. Len(idequeue) : idequeue[k] # i
  <2> SUFFICES ASSUME NEW k \in 1 .. Len(idequeue), idequeue[k] = i PROVE FALSE
    OBVIOUS
  <2>1. PICK q \in Hands : pc[q] = "iosleep" /\ at[q] = i
    BY DEF IInv, Queued
  <2>2. lock[i] = q /\ lock[i] = p
    BY <1>1, <2>1 DEF IInv, Locked, LockPcs
  <2>3. QED  BY <2>1, <2>2
<1>6. \A k \in 1 .. Len(idequeue') : k \in 1 .. Len(idequeue) \/ k = Len(idequeue) + 1
  BY <1>2, <1>3
<1>7. \A k \in 1 .. Len(idequeue') : \E q \in Hands : pc'[q] = "iosleep" /\ at'[q] = idequeue'[k]
  <2> SUFFICES ASSUME NEW k \in 1 .. Len(idequeue')
               PROVE  \E q \in Hands : pc'[q] = "iosleep" /\ at'[q] = idequeue'[k]
    OBVIOUS
  <2>1. CASE k = Len(idequeue) + 1
    BY <1>1, <1>3, <1>4, <2>1
  <2>2. CASE k \in 1 .. Len(idequeue)
    <3>1. PICK q \in Hands : pc[q] = "iosleep" /\ at[q] = idequeue[k]
      BY <2>2 DEF IInv, Queued
    <3>2. QED  BY <1>3, <1>4, <2>2, <3>1
  <2>3. QED  BY <1>6, <2>1, <2>2
<1>8. \A j, k \in 1 .. Len(idequeue') : idequeue'[j] = idequeue'[k] => j = k
  BY <1>3, <1>5, <1>6 DEF IInv, Queued
<1>9. \A q \in Hands : pc'[q] = "iosleep" => \E k \in 1 .. Len(idequeue') : idequeue'[k] = at'[q]
  <2> SUFFICES ASSUME NEW q \in Hands, pc'[q] = "iosleep"
               PROVE  \E k \in 1 .. Len(idequeue') : idequeue'[k] = at[q]
    OBVIOUS
  <2>1. CASE q = p
    <3>1. Len(idequeue) + 1 \in 1 .. Len(idequeue')  BY <1>2, <1>3
    <3>2. QED  BY <1>1, <1>3, <2>1, <3>1
  <2>2. CASE q # p
    <3>1. PICK k \in 1 .. Len(idequeue) : idequeue[k] = at[q]
      BY <1>4, <2>2 DEF IInv, Queued
    <3>2. k \in 1 .. Len(idequeue')  BY <1>2, <1>3
    <3>3. QED  BY <1>3, <3>1, <3>2
  <2>3. QED  BY <2>1, <2>2
<1>10. QED  BY <1>7, <1>8, <1>9 DEF Queued

(* The interrupt takes the first request and wakes the process that waits  *)
(* for it, which is the only one.                                          *)
LEMMA IntrQueued ==
  ASSUME IInv, NEW ok \in BOOLEAN, ideintr(ok)
  PROVE  Queued'
<1> DEFINE n == Len(idequeue)
<1>1. /\ idequeue \in Seq(Bufs) /\ n \in Nat /\ idequeue # <<>> /\ n >= 1
  BY DEF IInv, TypeOK, ideintr
<1>2. PICK i \in Bufs : i = idequeue[1]
  BY <1>1
<1>3. /\ Len(idequeue') = n - 1
      /\ \A k \in 1 .. n - 1 : idequeue'[k] = idequeue[k + 1]
  BY <1>1 DEF ideintr
<1>4. /\ at' = at
      /\ \A q \in Hands : pc'[q] = IF pc[q] = "iosleep" /\ at[q] = i THEN "held" ELSE pc[q]
  BY <1>1, <1>2 DEF ideintr
<1>5. \A k \in 1 .. n - 1 : k + 1 \in 1 .. n /\ k + 1 # 1 /\ 1 \in 1 .. n
  BY <1>1
<1> HIDE DEF n
<1>6. ASSUME NEW k \in 1 .. n - 1
      PROVE  \E q \in Hands : pc'[q] = "iosleep" /\ at'[q] = idequeue'[k]
  <2>1. PICK q \in Hands : pc[q] = "iosleep" /\ at[q] = idequeue[k + 1]
    BY <1>5 DEF IInv, Queued, n
  <2>2. idequeue[k + 1] # i
    BY <1>2, <1>5 DEF IInv, Queued, n
  <2>3. QED  BY <1>3, <1>4, <2>1, <2>2
<1>7. ASSUME NEW j \in 1 .. n - 1, NEW k \in 1 .. n - 1, idequeue'[j] = idequeue'[k]
      PROVE  j = k
  <2>1. idequeue[j + 1] = idequeue[k + 1]  BY <1>3, <1>7
  <2>2. j + 1 = k + 1  BY <1>5, <2>1 DEF IInv, Queued, n
  <2>3. QED  BY <2>2, <1>1
<1>8. ASSUME NEW q \in Hands, pc'[q] = "iosleep"
      PROVE  \E k \in 1 .. n - 1 : idequeue'[k] = at'[q]
  <2>1. pc[q] = "iosleep" /\ at[q] # i  BY <1>4, <1>8
  <2>2. PICK k \in 1 .. n : idequeue[k] = at[q]  BY <2>1 DEF IInv, Queued, n
  <2>3. k # 1  BY <1>2, <2>1, <2>2
  <2>4. k - 1 \in 1 .. n - 1 /\ (k - 1) + 1 = k  BY <1>1, <2>3
  <2>5. QED  BY <1>3, <1>4, <2>2, <2>4
<1>9. QED  BY <1>3, <1>6, <1>7, <1>8 DEF Queued

(* The driver's queue and those who wait for the disk stay in step. *)
LEMMA QueuedStep ==
  ASSUME IInv, Step
  PROVE  Queued'
<1> USE DEF IInv, TypeOK
<1>1. ASSUME NEW p \in Hands, acquiresleep(p) PROVE Queued'
  BY <1>1, SameQueue DEF acquiresleep, Goto
<1>2. ASSUME NEW p \in Hands, bread(p) PROVE Queued'
  <2>1. CASE iderw(p)
    BY <1>2, <2>1, RequestQueued DEF bread, LockPcs
  <2>2. CASE ~iderw(p)
    BY <1>2, <2>2, SameQueue DEF bread, Goto
  <2>3. QED  BY <2>1, <2>2
<1>3. ASSUME NEW p \in Hands, releasesleep(p) PROVE Queued'
  BY <1>3, SameQueue DEF releasesleep, Sleepers
<1>4. ASSUME NEW p \in Hands, brelse(p) PROVE Queued'
  BY <1>4, SameQueue DEF brelse, Goto
<1>5. ASSUME NEW p \in Hands, NEW b \in Blocks, bget(p, b) PROVE Queued'
  <2>1. ASSUME NEW i \in Bufs, Hit(p, b, i) \/ Miss(p, b, i) PROVE Queued'
    BY <2>1, SameQueue DEF Hit, Miss, Asks, Goto
  <2>2. ASSUME NoBuffers(p, b) PROVE Queued'
    BY <2>2, SameQueue DEF NoBuffers, Asks
  <2>3. QED  BY <1>5, <2>1, <2>2, BgetCases
<1>6. ASSUME NEW p \in Hands, NEW d \in Data, bwrite(p, d) PROVE Queued'
  BY <1>6, RequestQueued DEF bwrite, LockPcs
<1>7. ASSUME NEW p \in Hands, NEW d \in Data, log_write(p, d) PROVE Queued'
  BY <1>7, SameQueue DEF log_write
<1>8. QED  BY <1>1, <1>2, <1>3, <1>4, <1>5, <1>6, <1>7, IntrQueued DEF Step

(* A step that changes no contents keeps the cache coherent. *)
LEMMA SameContents ==
  ASSUME IInv, UNCHANGED <<disk, latest, unread>>,
         \A i \in Bufs : /\ buf'[i].blockno = buf[i].blockno /\ buf'[i].valid = buf[i].valid
                         /\ buf'[i].dirty = buf[i].dirty /\ buf'[i].data = buf[i].data,
         \A q \in Hands : pc'[q] = "held" =>
            at'[q] = at[q] /\ (pc[q] = "held" \/ buf[at[q]].valid)
  PROVE  Coherent'
<1>1. \A q \in Hands : at[q] \in Bufs
  BY DEF IInv, TypeOK
<1>2. QED  BY <1>1 DEF IInv, Coherent

(* A user who writes the buffer it holds makes it the newest copy; no other *)
(* buffer has the block.                                                   *)
LEMMA WriteCoherent ==
  ASSUME IInv, NEW p \in Hands, NEW d \in Data, pc[p] = "held",
         buf' = [buf EXCEPT ![at[p]].dirty = TRUE, ![at[p]].data = d],
         latest' = [latest EXCEPT ![buf[at[p]].blockno] = d],
         unread' = unread \ {at[p]},
         UNCHANGED <<disk, at>>, \A q \in Hands : pc'[q] = "held" => pc[q] = "held"
  PROVE  Coherent'
<1> USE DEF IInv, TypeOK
<1>1. PICK i \in Bufs : i = at[p]
  OBVIOUS
<1>2. PICK b \in Blocks : b = buf[i].blockno
  BY <1>1 DEF Counted
<1>3. buf[i].valid
  BY <1>1 DEF Coherent
<1>4. /\ buf'[i].dirty = TRUE /\ buf'[i].data = d
      /\ buf'[i].valid = buf[i].valid /\ buf'[i].blockno = b
      /\ \A j \in Bufs \ {i} : buf'[j] = buf[j]
  BY <1>1, <1>2
<1>5. latest'[b] = d /\ \A c \in Blocks \ {b} : latest'[c] = latest[c]
  BY <1>1, <1>2
<1>6. \A j \in Bufs \ {i} : buf[j].blockno # b
  BY <1>2, CacheAssumption DEF OneBuffer
<1>7. \A j \in Bufs : buf'[j].dirty => buf'[j].valid
  BY <1>3, <1>4 DEF Coherent
<1>8. \A j \in Bufs : buf'[j].valid =>
         buf'[j].blockno \in Blocks /\ (j \in unread' \/ buf'[j].data = latest'[buf'[j].blockno])
  BY <1>1, <1>3, <1>4, <1>5, <1>6 DEF Coherent
<1>8a. \A j \in Bufs : buf'[j].dirty => j \notin unread'
  BY <1>1, <1>4 DEF Coherent
<1>9. \A c \in Blocks :
         (\A j \in Bufs : buf'[j].blockno = c => ~buf'[j].dirty) => disk'[c] = latest'[c]
  <2> SUFFICES ASSUME NEW c \in Blocks,
                      \A j \in Bufs : buf'[j].blockno = c => ~buf'[j].dirty
               PROVE  disk[c] = latest'[c]
    OBVIOUS
  <2>1. c # b  BY <1>4
  <2>2. \A j \in Bufs : buf[j].blockno = c => ~buf[j].dirty
    <3> SUFFICES ASSUME NEW j \in Bufs, buf[j].blockno = c PROVE ~buf[j].dirty
      OBVIOUS
    <3>1. j # i  BY <1>2, <2>1
    <3>2. buf'[j] = buf[j]  BY <1>4, <3>1
    <3>3. QED  BY <3>2
  <2>3. disk[c] = latest[c]
    <3>1. Coherent  OBVIOUS
    <3> HIDE DEF IInv, TypeOK
    <3>2. QED  BY <2>2, <3>1 DEF Coherent
  <2>4. QED  BY <1>5, <2>1, <2>3
<1>10. \A q \in Hands : pc'[q] = "held" => buf'[at'[q]].valid
  BY <1>4 DEF Coherent
<1>11. QED  BY <1>7, <1>8, <1>8a, <1>9, <1>10 DEF Coherent

(* The interrupt brings the block and its buffer to agree, in whichever    *)
(* direction the transfer went.                                            *)
LEMMA IntrCoherent ==
  ASSUME IInv, NEW ok \in BOOLEAN, ideintr(ok)
  PROVE  Coherent'
<1> USE DEF IInv, TypeOK
<1>1. PICK i \in Bufs : i = Head(idequeue) /\ i = idequeue[1] /\ 1 \in 1 .. Len(idequeue)
  BY DEF ideintr
<1>2. PICK p \in Hands : pc[p] = "iosleep" /\ at[p] = i
  BY <1>1 DEF Queued
<1>3. PICK b \in Blocks : b = buf[i].blockno
  BY <1>2 DEF Counted
<1>4. \A j \in Bufs \ {i} : buf[j].blockno # b
  BY <1>3, CacheAssumption DEF OneBuffer
<1>5. /\ buf'[i].valid = TRUE /\ buf'[i].dirty = FALSE /\ buf'[i].blockno = b
      /\ buf'[i].data = IF buf[i].dirty \/ ~ok THEN buf[i].data ELSE disk[b]
      /\ \A j \in Bufs \ {i} : buf'[j] = buf[j]
  BY <1>1, <1>3 DEF ideintr
<1>6. /\ \A c \in Blocks \ {b} : disk'[c] = disk[c]
      /\ disk'[b] = IF buf[i].dirty THEN buf[i].data ELSE disk[b]
      /\ latest' = latest /\ at' = at
      /\ unread' = IF buf[i].dirty \/ ok THEN unread \ {i} ELSE unread \cup {i}
  BY <1>1, <1>3 DEF ideintr
<1>7. disk'[b] = latest[b] /\ (i \in unread' \/ buf'[i].data = latest[b])
  <2>1. CASE buf[i].dirty
    <3>1. buf[i].data = latest[b]  BY <1>3, <2>1 DEF Coherent
    <3>2. QED  BY <1>5, <1>6, <2>1, <3>1
  <2>2. CASE ~buf[i].dirty
    <3>1. disk[b] = latest[b]  BY <1>4, <2>2 DEF Coherent
    <3>2. QED  BY <1>5, <1>6, <2>2, <3>1
  <2>3. QED  BY <2>1, <2>2
<1>8. \A q \in Hands : pc'[q] = "held" => (pc[q] = "held" \/ at[q] = i)
  BY <1>1 DEF ideintr
<1>9. \A j \in Bufs : buf'[j].dirty => buf'[j].valid
  BY <1>5 DEF Coherent
<1>10. \A j \in Bufs : buf'[j].valid =>
         buf'[j].blockno \in Blocks /\ (j \in unread' \/ buf'[j].data = latest'[buf'[j].blockno])
  BY <1>5, <1>6, <1>7 DEF Coherent
<1>10a. \A j \in Bufs : buf'[j].dirty => j \notin unread'
  BY <1>5, <1>6 DEF Coherent
<1>11. \A c \in Blocks :
         (\A j \in Bufs : buf'[j].blockno = c => ~buf'[j].dirty) => disk'[c] = latest'[c]
  <2> SUFFICES ASSUME NEW c \in Blocks,
                      \A j \in Bufs : buf'[j].blockno = c => ~buf'[j].dirty
               PROVE  disk'[c] = latest[c]
    BY <1>6
  <2>1. CASE c = b  BY <1>7, <2>1
  <2>2. CASE c # b
    <3>1. \A j \in Bufs : buf[j].blockno = c => ~buf[j].dirty
      BY <1>3, <1>5, <2>2
    <3>2. QED  BY <1>6, <2>2, <3>1 DEF Coherent
  <2>3. QED  BY <2>1, <2>2
<1>12. \A q \in Hands : pc'[q] = "held" => buf'[at'[q]].valid
  BY <1>5, <1>6, <1>8 DEF Coherent
<1>13. QED  BY <1>9, <1>10, <1>10a, <1>11, <1>12 DEF Coherent

(* No step loses the newest contents of a block. *)
LEMMA CoherentStep ==
  ASSUME IInv, Step
  PROVE  Coherent'
<1> USE DEF IInv, TypeOK
<1>1. ASSUME NEW p \in Hands, acquiresleep(p) PROVE Coherent'
  BY <1>1, SameContents DEF acquiresleep, Goto
<1>2. ASSUME NEW p \in Hands, bread(p) PROVE Coherent'
  BY <1>2, SameContents DEF bread, iderw, Goto
<1>3. ASSUME NEW p \in Hands, releasesleep(p) PROVE Coherent'
  BY <1>3, SameContents DEF releasesleep
<1>4. ASSUME NEW p \in Hands, brelse(p) PROVE Coherent'
  <2>1. \A i \in Bufs : /\ buf'[i].blockno = buf[i].blockno /\ buf'[i].valid = buf[i].valid
                        /\ buf'[i].dirty = buf[i].dirty /\ buf'[i].data = buf[i].data
    BY <1>4 DEF brelse
  <2>2. \A q \in Hands : pc'[q] = "held" => at'[q] = at[q] /\ pc[q] = "held"
    BY <1>4 DEF brelse, Goto
  <2>3. QED  BY <1>4, <2>1, <2>2, SameContents DEF brelse
<1>5. ASSUME NEW p \in Hands, NEW b \in Blocks, bget(p, b) PROVE Coherent'
  <2>1. ASSUME NEW i \in Bufs, Hit(p, b, i) PROVE Coherent'
    <3>1. \A j \in Bufs : /\ buf'[j].blockno = buf[j].blockno /\ buf'[j].valid = buf[j].valid
                          /\ buf'[j].dirty = buf[j].dirty /\ buf'[j].data = buf[j].data
      BY <2>1 DEF Hit, Asks
    <3>2. \A q \in Hands : pc'[q] = "held" => at'[q] = at[q] /\ pc[q] = "held"
      BY <2>1 DEF Hit, Asks, Goto
    <3>3. QED  BY <2>1, <3>1, <3>2, SameContents DEF Hit, Asks
  <2>2. ASSUME NEW i \in Bufs, Miss(p, b, i) PROVE Coherent'
    <3>1. /\ buf'[i].valid = FALSE /\ buf'[i].dirty = FALSE /\ buf'[i].blockno = b
          /\ \A j \in Bufs \ {i} : buf'[j] = buf[j]
          /\ \A j \in Bufs : buf[j].blockno # b
          /\ disk' = disk /\ latest' = latest /\ unread' = unread /\ ~buf[i].dirty
      BY <2>2 DEF Miss, Asks, Fresh, Unused
    <3>2. \A q \in Hands : pc'[q] = "held" => at'[q] = at[q] /\ pc[q] = "held" /\ at[q] # i
      BY <2>2, UnusedIsFree DEF Miss, Asks, Goto
    <3>3. \A c \in Blocks : (\A j \in Bufs : buf'[j].blockno = c => ~buf'[j].dirty) => disk'[c] = latest'[c]
      <4> SUFFICES ASSUME NEW c \in Blocks,
                          \A j \in Bufs : buf'[j].blockno = c => ~buf'[j].dirty
                   PROVE  disk[c] = latest[c]
        BY <3>1
      <4>1. \A j \in Bufs : buf[j].blockno = c => ~buf[j].dirty
        BY <3>1
      <4>2. QED  BY <4>1 DEF Coherent
    <3>4. \A j \in Bufs : buf'[j].dirty => buf'[j].valid
      BY <3>1 DEF Coherent
    <3>5. \A j \in Bufs : buf'[j].valid =>
             buf'[j].blockno \in Blocks /\ (j \in unread' \/ buf'[j].data = latest'[buf'[j].blockno])
      <4> SUFFICES ASSUME NEW j \in Bufs, buf'[j].valid
                   PROVE  /\ buf'[j].blockno \in Blocks
                          /\ j \in unread \/ buf'[j].data = latest[buf'[j].blockno]
        BY <3>1
      <4>1. buf'[j] = buf[j]  BY <3>1
      <4>2. QED  BY <4>1 DEF Coherent
    <3>6. \A q \in Hands : pc'[q] = "held" => buf'[at'[q]].valid
      BY <3>1, <3>2 DEF Coherent
    <3>6a. \A j \in Bufs : buf'[j].dirty => j \notin unread'
      BY <3>1 DEF Coherent
    <3>7. QED  BY <3>3, <3>4, <3>5, <3>6, <3>6a DEF Coherent
  <2>3. ASSUME NoBuffers(p, b) PROVE Coherent'
    BY <2>3, SameContents DEF NoBuffers, Asks
  <2>4. QED  BY <1>5, <2>1, <2>2, <2>3, BgetCases
<1>6. ASSUME NEW p \in Hands, NEW d \in Data, bwrite(p, d) PROVE Coherent'
  <2>1. \A q \in Hands : pc'[q] = "held" => pc[q] = "held"
    BY <1>6 DEF bwrite, iderw, Goto
  <2>2. QED  BY <1>6, <2>1, WriteCoherent DEF bwrite
<1>7. ASSUME NEW p \in Hands, NEW d \in Data, log_write(p, d) PROVE Coherent'
  BY <1>7, WriteCoherent DEF log_write
<1>8. QED  BY <1>1, <1>2, <1>3, <1>4, <1>5, <1>6, <1>7, IntrCoherent DEF Step

(* bget() panics only when every buffer is dirty or has a user other than  *)
(* the caller: count both kinds.                                           *)
LEMMA PanicStep ==
  ASSUME IInv, Step, ~panicked
  PROVE  PanicOnlyWhenPinned'
<1> USE DEF IInv, TypeOK
<1>1. ASSUME NEW p \in Hands, NEW b \in Blocks, NoBuffers(p, b) PROVE PanicOnlyWhenPinned'
  <2> DEFINE Dirty == {i \in Bufs : buf[i].dirty}
             Rest == Hands \ {p}
             Active == {q \in Rest : pc[q] # "idle"}
             Used == {i \in Bufs : \E q \in Active : at[q] = i}
             f == [q \in Active |-> at[q]]
  <2>1. /\ IsFiniteSet(Rest) /\ Cardinality(Rest) = Cardinality(Hands) - 1
        /\ Cardinality(Hands) \in Nat
    BY HandsFinite, FS_RemoveElement, FS_CardinalityType
  <2>2. /\ IsFiniteSet(Active) /\ Cardinality(Active) <= Cardinality(Rest)
        /\ Cardinality(Active) \in Nat
    <3>1. Active \in SUBSET Rest  OBVIOUS
    <3>2. QED  BY <2>1, <3>1, FS_Subset, FS_CardinalityType
  <2>3. f \in Surjection(Active, Used)
    <3>1. f \in [Active -> Used]  OBVIOUS
    <3>2. \A i \in Used : \E q \in Active : f[q] = i  OBVIOUS
    <3> HIDE DEF f, Active, Used
    <3>3. QED  BY <3>1, <3>2, Fun_IsSurj
  <2>4. IsFiniteSet(Used) /\ Cardinality(Used) <= Cardinality(Active) /\ Cardinality(Used) \in Nat
    <3> HIDE DEF f, Active, Used
    <3>1. QED  BY <2>2, <2>3, FS_Surjection, FS_CardinalityType
  <2>5. IsFiniteSet(Bufs) /\ Cardinality(Bufs) = NBUF /\ NBUF \in Nat
    <3>1. NBUF \in Nat /\ NBUF >= 1  BY CacheAssumption
    <3>2. /\ IsFiniteSet(1 .. NBUF)
          /\ Cardinality(1 .. NBUF) = IF 1 > NBUF THEN 0 ELSE NBUF - 1 + 1
      <4>1. NBUF \in Int /\ 1 \in Int  BY <3>1
      <4> HIDE DEF IInv, TypeOK
      <4>2. QED  BY <4>1, FS_Interval
    <3>3. Bufs = 1 .. NBUF  BY DEF Bufs
    <3>4. Cardinality(1 .. NBUF) = NBUF  BY <3>1, <3>2
    <3> HIDE DEF IInv, TypeOK
    <3>5. QED  BY <3>1, <3>2, <3>3, <3>4
  <2>6. IsFiniteSet(Dirty) /\ Cardinality(Dirty) \in Nat
    <3>1. Dirty \in SUBSET Bufs  OBVIOUS
    <3>2. QED  BY <2>5, <3>1, FS_Subset, FS_CardinalityType
  <2>7. Bufs \subseteq Dirty \cup Used
    <3> SUFFICES ASSUME NEW i \in Bufs, ~buf[i].dirty PROVE i \in Used
      OBVIOUS
    <3>1. buf[i].refcnt # 0
      BY <1>1 DEF NoBuffers, Asks, Unused
    <3>2. Users(i) # {}
      BY <3>1, FS_EmptySet DEF Counted
    <3>3. PICK q \in Hands : pc[q] # "idle" /\ at[q] = i
      BY <3>2 DEF Users
    <3>4. q # p  BY <1>1, <3>3 DEF NoBuffers, Asks
    <3>5. QED  BY <3>3, <3>4
  <2>8. NBUF <= Cardinality(Dirty) + Cardinality(Used)
    <3> HIDE DEF Dirty, Used
    <3>1. /\ IsFiniteSet(Dirty \cup Used)
          /\ Cardinality(Dirty \cup Used)
               = Cardinality(Dirty) + Cardinality(Used) - Cardinality(Dirty \cap Used)
      BY <2>4, <2>6, FS_Union
    <3>2. IsFiniteSet(Dirty \cap Used) /\ Cardinality(Dirty \cap Used) \in Nat
      BY <2>6, FS_Intersection, FS_CardinalityType
    <3>3. NBUF <= Cardinality(Dirty \cup Used) /\ Cardinality(Dirty \cup Used) \in Nat
      BY <2>5, <2>7, <3>1, FS_Subset, FS_CardinalityType
    <3>4. QED  BY <2>4, <2>5, <2>6, <3>1, <3>2, <3>3
  <2>9. Cardinality(Dirty) + Cardinality(Hands) > NBUF
    <3> HIDE DEF Dirty, Used, Active, Rest
    <3>1. QED  BY <2>1, <2>2, <2>4, <2>5, <2>6, <2>8
  <2>10. {i \in Bufs : buf'[i].dirty} = Dirty
    BY <1>1 DEF NoBuffers, Asks
  <2>11. \A i \in Bufs : buf'[i].dirty \/ \E h \in Hands : pc'[h] # "idle" /\ at'[h] = i
    BY <1>1, <2>7 DEF NoBuffers
  <2>12. QED
    <3> HIDE DEF Dirty
    <3>1. QED  BY <2>9, <2>10, <2>11 DEF PanicOnlyWhenPinned
<1>2. CASE UNCHANGED panicked
  BY <1>2 DEF PanicOnlyWhenPinned
<1>3. ASSUME NEW p \in Hands, NEW b \in Blocks, bget(p, b)
      PROVE  PanicOnlyWhenPinned'
  BY <1>1, <1>2, <1>3, BgetCases DEF Hit, Miss, Asks
<1>4. QED
  BY <1>2, <1>3 DEF Step, ideintr, acquiresleep, bread, releasesleep, brelse, bwrite, log_write

-------------------------------------------------------------------------------
LEMMA InitIInv == ASSUME Init PROVE IInv
<1> USE DEF Init
<1>0. 1 \in Bufs /\ Cardinality(Hands) \in Nat
  BY CacheAssumption, HandsFinite DEF Bufs
<1>1. Listed
  <2> SUFFICES ASSUME NEW i \in Bufs PROVE \E k \in Bufs : list[k] = i
    BY DEF Listed
  <2>1. NBUF + 1 - i \in Bufs /\ NBUF + 1 - (NBUF + 1 - i) = i
    BY CacheAssumption DEF Bufs
  <2>2. QED  BY <2>1
<1>2. TypeOK
  <2>1. buf \in [Bufs -> [blockno : Blocks \cup {NoBlock}, refcnt : 0 .. Cardinality(Hands),
                          valid : BOOLEAN, dirty : BOOLEAN, data : Data \cup {NoData}]]
    <3> DEFINE r == [blockno |-> NoBlock, refcnt |-> 0, valid |-> FALSE, dirty |-> FALSE, data |-> NoData]
               R == [blockno : Blocks \cup {NoBlock}, refcnt : 0 .. Cardinality(Hands),
                     valid : BOOLEAN, dirty : BOOLEAN, data : Data \cup {NoData}]
    <3>2. 0 \in 0 .. Cardinality(Hands)  BY <1>0
    <3>3. r \in R  BY <3>2
    <3> HIDE DEF r, R
    <3>4. buf \in [Bufs -> R]  BY <3>3 DEF r
    <3>5. QED  BY <3>4 DEF R
  <2>2. list \in [Bufs -> Bufs] /\ Listed
    BY <1>1, CacheAssumption DEF Bufs
  <2>3. /\ pc \in [Hands -> {"idle", "lock", "asleep", "bread", "iosleep", "held", "brelse"}]
        /\ lock \in [Bufs -> Hands \cup {NoProc}] /\ at \in [Hands -> Bufs]
        /\ idequeue \in Seq(Bufs) /\ disk \in [Blocks -> Data] /\ latest \in [Blocks -> Data]
        /\ panicked \in BOOLEAN /\ unread \in SUBSET Bufs
    <3>1. <<>> \in Seq(Bufs)  BY EmptySeq
    <3>2. pc \in [Hands -> {"idle", "lock", "asleep", "bread", "iosleep", "held", "brelse"}]
      OBVIOUS
    <3>3. lock \in [Bufs -> Hands \cup {NoProc}] /\ at \in [Hands -> Bufs]  BY <1>0
    <3>4. QED  BY <3>1, <3>2, <3>3
  <2> HIDE DEF Init
  <2>4. QED  BY <2>1, <2>2, <2>3 DEF TypeOK
<1>3. Counted
  <2>1. \A i \in Bufs : Users(i) = {}  BY DEF Users
  <2>2. QED  BY <2>1, FS_EmptySet DEF Counted
<1>4. OneBuffer /\ Locked /\ Ordered /\ Queued /\ Coherent /\ PanicOnlyWhenPinned
  BY TwoHands DEF OneBuffer, Locked, LockPcs, Ordered, Queued, Coherent, PanicOnlyWhenPinned
<1>5. QED  BY <1>2, <1>3, <1>4 DEF IInv

LEMMA StutterIInv == ASSUME IInv, UNCHANGED vars PROVE IInv'
<1>1. Counted'
  <2>1. \A i \in Bufs : Users(i)' = Users(i)  BY DEF Users, vars
  <2>2. QED  BY <2>1 DEF IInv, Counted, vars
<1>2. QED
  BY <1>1 DEF IInv, vars, TypeOK, Listed, OneBuffer, Locked, Ordered, Queued, Coherent, PanicOnlyWhenPinned

LEMMA NextIInv == ASSUME IInv, [Next]_vars PROVE IInv'
<1>1. CASE ~panicked /\ Step
  BY <1>1, TypeStep, CountedStep, OneBufferStep, LockedStep, OrderedStep, QueuedStep,
     CoherentStep, PanicStep DEF IInv
<1>2. QED  BY <1>1, StutterIInv DEF Next, Stopped

(* The conjunction that the steps preserve: reference counts, the list, one *)
(* buffer per block, the sleep locks, the driver's queue and the coherence  *)
(* of buffers and disk.                                                     *)
THEOREM CacheInvariant == Spec => []IInv
<1>1. Init => IInv  BY InitIInv
<1>2. IInv /\ [Next]_vars => IInv'  BY NextIInv
<1>3. QED  BY <1>1, <1>2, PTL DEF Spec

(* Every variable keeps its type; in particular no reference count goes    *)
(* below zero or above the number of processes, and the list stays one.    *)
THEOREM TypeCorrect == Spec => []TypeOK
<1>1. IInv => TypeOK  BY DEF IInv
<1>2. QED  BY <1>1, CacheInvariant, PTL

(* bread() gives its caller what the block's last user wrote, unless the  *)
(* disk failed to read it, and gives the block to nobody else meanwhile.   *)
THEOREM LastWriteRead == Spec => []ReadsLatest
<1>1. ASSUME IInv PROVE ReadsLatest
  <2> USE <1>1 DEF IInv, TypeOK
  <2> SUFFICES ASSUME NEW p \in Hands, pc[p] = "held"
               PROVE  /\ at[p] \notin unread => buf[at[p]].data = latest[buf[at[p]].blockno]
                      /\ \A q \in Hands \ {p} :
                           pc[q] = "held" => buf[at[q]].blockno # buf[at[p]].blockno
    BY DEF ReadsLatest
  <2>1. at[p] \in Bufs /\ buf[at[p]].valid
    BY DEF Coherent
  <2>2. /\ at[p] \notin unread => buf[at[p]].data = latest[buf[at[p]].blockno]
        /\ buf[at[p]].blockno \in Blocks
    BY <2>1 DEF Coherent
  <2>3. ASSUME NEW q \in Hands \ {p}, pc[q] = "held"
        PROVE  buf[at[q]].blockno # buf[at[p]].blockno
    <3>1. lock[at[p]] = p /\ lock[at[q]] = q
      BY <2>3 DEF Locked, LockPcs
    <3>2. at[p] # at[q] /\ at[q] \in Bufs
      BY <2>3, <3>1
    <3>3. QED  BY <2>1, <2>2, <3>2, CacheAssumption DEF OneBuffer
  <2>4. QED  BY <2>2, <2>3
<1>2. QED  BY <1>1, CacheInvariant, PTL

(* bget() gives up only when every buffer is dirty or in some hand, so     *)
(* that the dirty ones leave fewer than two for every process.             *)
THEOREM NoSpuriousPanic == Spec => []PanicOnlyWhenPinned
<1>1. IInv => PanicOnlyWhenPinned  BY DEF IInv
<1>2. QED  BY <1>1, CacheInvariant, PTL

(* A process asleep for a lock sleeps while another holds it, which waits  *)
(* at most for a block nested deeper, and one asleep for the disk has      *)
(* exactly one request in the queue.                                       *)
THEOREM SleepersHaveWakers == Spec => []NobodyForgotten
<1>1. ASSUME IInv PROVE NobodyForgotten
  <2> USE <1>1 DEF IInv, TypeOK
  <2>1. ASSUME NEW p \in Hands, pc[p] = "asleep"
        PROVE  \E q \in Hands :
                 /\ q[1] # p[1] /\ lock[at[p]] = q /\ at[q] = at[p]
                 /\ pc[q] \in {"bread", "iosleep", "held"}
                 /\ pc[OtherHand(q)] = "asleep" =>
                       Nested(buf[at[p]].blockno, buf[at[OtherHand(q)]].blockno)
    <3>1. PICK q \in Hands : q = lock[at[p]]
      BY <2>1 DEF Locked
    <3>2. q # NoProc /\ at[p] \in Bufs  BY CacheAssumption
    <3>3. at[q] = at[p] /\ pc[q] \in LockPcs
      BY <3>1, <3>2 DEF Locked
    <3>4. q # p  BY <2>1, <3>3 DEF LockPcs
    <3>5. ASSUME q[1] = p[1] PROVE FALSE
      <4>1. q = OtherHand(p)  BY <3>4, <3>5, TwoHands
      <4>2. pc[q] = "held"  BY <2>1, <3>3, <4>1 DEF Ordered, LockPcs
      <4>3. Nested(buf[at[q]].blockno, buf[at[p]].blockno)
        BY <2>1, <4>1, <4>2 DEF Ordered
      <4>4. QED  BY <3>3, <4>3, NestedIrreflexive
    <3>6. ASSUME pc[OtherHand(q)] = "asleep"
          PROVE  Nested(buf[at[p]].blockno, buf[at[OtherHand(q)]].blockno)
      <4>1. PICK o \in Hands : o = OtherHand(q) /\ OtherHand(o) = q
        BY TwoHands
      <4>2. pc[q] = "held"  BY <3>3, <3>6, <4>1 DEF Ordered, LockPcs
      <4>3. Nested(buf[at[q]].blockno, buf[at[o]].blockno)
        BY <3>6, <4>1, <4>2 DEF Ordered
      <4>4. QED  BY <3>3, <4>1, <4>3
    <3>7. QED  BY <3>1, <3>3, <3>5, <3>6 DEF LockPcs
  <2>2. ASSUME NEW p \in Hands, pc[p] = "iosleep"
        PROVE  Cardinality({k \in DOMAIN idequeue : idequeue[k] = at[p]}) = 1
    <3>1. DOMAIN idequeue = 1 .. Len(idequeue)  OBVIOUS
    <3>2. PICK k \in 1 .. Len(idequeue) : idequeue[k] = at[p]
      BY <2>2 DEF Queued
    <3>3. {j \in DOMAIN idequeue : idequeue[j] = at[p]} = {k}
      BY <3>1, <3>2 DEF Queued
    <3>4. QED  BY <3>3, FS_Singleton
  <2>3. QED  BY <2>1, <2>2 DEF NobodyForgotten
<1>2. QED  BY <1>1, CacheInvariant, PTL
===============================================================================
