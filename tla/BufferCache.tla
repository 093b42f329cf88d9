------------------------------ MODULE BufferCache ------------------------------
(***************************************************************************)
(* The buffer cache of xv6 (bio.c) with its sleep locks (sleeplock.c) and  *)
(* the disk driver below it (ide.c).  A step is what runs under one of     *)
(* bcache.lock, a buffer's spin lock or idelock; the disk answers with an  *)
(* interrupt at some later time.  The log and the code for indirect blocks *)
(* hold two buffers at once: a process has two hands, with a buffer each.  *)
(***************************************************************************)
EXTENDS Integers, Sequences, FiniteSets

CONSTANTS
    Procs,
    NBUF,
    LogBlocks, Indirect, OtherBlocks, Data,
    NoBlock, NoProc, NoData,
    MaxPinned       \* how many blocks the log may keep dirty

Bufs == 1 .. NBUF
Blocks == LogBlocks \cup Indirect \cup OtherBlocks
Hands == Procs \X {1, 2}

ASSUME CacheAssumption ==
    /\ NBUF \in Nat \ {0} /\ MaxPinned \in Nat /\ IsFiniteSet(Procs)
    /\ NoBlock \notin Blocks /\ NoProc \notin Hands /\ NoData \notin Data
    /\ LogBlocks \cap Indirect = {} /\ LogBlocks \cap OtherBlocks = {}
    /\ Indirect \cap OtherBlocks = {}

VARIABLES
    buf,        \* buffer -> [blockno, refcnt, valid, dirty, data]
    list,       \* the buffers from head.next (most recently used) to head.prev
    lock,       \* buffer -> the hand that holds its sleep lock, or NoProc
    idequeue,   \* the buffers of the disk's requests, the active one first
    disk,       \* block -> its contents
    pc,         \* hand -> where the call for its buffer is
    at,         \* hand -> its buffer
    panicked,   \* bget() found no buffer
    latest,     \* history: block -> what its last user wrote
    unread      \* history: the buffers whose last read failed

vars == <<buf, list, lock, idequeue, disk, pc, at, panicked, latest, unread>>

Goto(h, l) == pc' = [pc EXCEPT ![h] = l]

OtherHand(h) == <<h[1], 3 - h[2]>>

\* The first hand is used first.
Ready(h) == pc[h] = "idle" /\ (h[2] = 2 => pc[OtherHand(h)] # "idle")

\* The process of hand h is not inside a call for its other hand.
Free(h) == pc[OtherHand(h)] \in {"idle", "held"}

\* A process that holds block b may ask for block c: the log copies between its own
\* blocks and the rest, and bmap() and itrunc() call balloc() and bfree() for the blocks
\* that an indirect block names.
Nested(b, c) ==
    \/ b \in LogBlocks /\ c \notin LogBlocks
    \/ b \in Indirect /\ c \in OtherBlocks

(***************************************************************************)
(* bget() under bcache.lock.                                               *)
(***************************************************************************)
Cached(b) == {i \in Bufs : buf[i].blockno = b}

\* A mutant: a dirty buffer without users is recycled.
Unreferenced(i) == buf[i].refcnt = 0

\* A mutant: the search ends at the least recently used buffer.
LastInList(i) == i = list[NBUF] /\ buf[i].refcnt = 0 /\ ~buf[i].dirty

\* A buffer that may be recycled.
Unused(i) == buf[i].refcnt = 0 /\ ~buf[i].dirty

\* Recycling takes the first one from the least recently used end of the list.
Recycled == list[CHOOSE k \in Bufs : Unused(list[k]) /\ \A j \in k + 1 .. NBUF : ~Unused(list[j])]

\* The buffer of a miss keeps the data of the block it was used for before.
Fresh(i, b) == [blockno |-> b, refcnt |-> 1, valid |-> FALSE, dirty |-> FALSE, data |-> buf[i].data]

bget(h, b) ==
    /\ Ready(h) /\ Free(h)
    /\ pc[OtherHand(h)] = "held" => Nested(buf[at[OtherHand(h)]].blockno, b)
    /\ \/ \E i \in Cached(b) :
            /\ buf' = [buf EXCEPT ![i].refcnt = @ + 1]
            /\ at' = [at EXCEPT ![h] = i] /\ Goto(h, "lock")
            /\ UNCHANGED panicked
       \/ /\ Cached(b) = {} /\ \E i \in Bufs : Unused(i)
          /\ buf' = [buf EXCEPT ![Recycled] = Fresh(Recycled, b)]
          /\ at' = [at EXCEPT ![h] = Recycled] /\ Goto(h, "lock")
          /\ UNCHANGED panicked
       \/ /\ Cached(b) = {} /\ \A i \in Bufs : ~Unused(i)
          /\ panicked' = TRUE
          /\ UNCHANGED <<buf, at, pc>>
    /\ UNCHANGED <<list, lock, idequeue, disk, latest, unread>>

(***************************************************************************)
(* Sleep locks.                                                            *)
(***************************************************************************)
acquiresleep(h) ==
    /\ pc[h] = "lock"
    /\ \/ /\ lock[at[h]] = NoProc
          /\ lock' = [lock EXCEPT ![at[h]] = h] /\ Goto(h, "bread")
       \/ /\ lock[at[h]] # NoProc
          /\ Goto(h, "asleep") /\ UNCHANGED lock
    /\ UNCHANGED <<buf, list, idequeue, disk, at, panicked, latest, unread>>

\* A mutant: releasesleep() without wakeup().
WakeNobody(i) == {}

\* The processes releasesleep() wakes.
Sleepers(i) == {q \in Hands : pc[q] = "asleep" /\ at[q] = i}

\* brelse(): unlock and wake, then give up the reference under bcache.lock.
releasesleep(h) ==
    /\ pc[h] = "held" /\ Free(h)
    /\ lock' = [lock EXCEPT ![at[h]] = NoProc]
    /\ pc' = [q \in Hands |-> IF q \in Sleepers(at[h]) THEN "lock"
                             ELSE IF q = h THEN "brelse" ELSE pc[q]]
    /\ UNCHANGED <<buf, list, idequeue, disk, at, panicked, latest, unread>>

\* A mutant: the buffer is linked at the head and not unlinked where it was.
LinkedTwice(i) == <<i>> \o list

\* Buffer i becomes the most recently used one.
MoveToHead(i) ==
    LET pos == CHOOSE k \in Bufs : list[k] = i
    IN  [k \in Bufs |-> IF k = 1 THEN i ELSE IF k <= pos THEN list[k - 1] ELSE list[k]]

brelse(h) ==
    /\ pc[h] = "brelse"
    /\ buf' = [buf EXCEPT ![at[h]].refcnt = @ - 1]
    /\ list' = IF buf[at[h]].refcnt = 1 THEN MoveToHead(at[h]) ELSE list
    /\ Goto(h, "idle") /\ at' = [at EXCEPT ![h] = 1]
    /\ UNCHANGED <<lock, idequeue, disk, panicked, latest, unread>>

(***************************************************************************)
(* The disk driver.                                                        *)
(***************************************************************************)
\* iderw(): append the request and sleep.
iderw(h) == idequeue' = Append(idequeue, at[h]) /\ Goto(h, "iosleep")

\* bread() after bget(): a buffer that is not valid is read from the disk.
bread(h) ==
    /\ pc[h] = "bread"
    /\ \/ buf[at[h]].valid /\ Goto(h, "held") /\ UNCHANGED idequeue
       \/ ~buf[at[h]].valid /\ iderw(h)
    /\ UNCHANGED <<buf, list, lock, disk, at, panicked, latest, unread>>

\* The user changes the block and writes it through.
bwrite(h, d) ==
    /\ pc[h] = "held" /\ Free(h)
    /\ buf' = [buf EXCEPT ![at[h]].dirty = TRUE, ![at[h]].data = d]
    /\ latest' = [latest EXCEPT ![buf[at[h]].blockno] = d] /\ unread' = unread \ {at[h]}
    /\ iderw(h)
    /\ UNCHANGED <<list, lock, disk, at, panicked>>

\* The user changes the block and leaves it to the log, which pins it.
log_write(h, d) ==
    /\ pc[h] = "held" /\ Free(h)
    /\ buf[at[h]].dirty \/ Cardinality({i \in Bufs : buf[i].dirty}) < MaxPinned
    /\ buf' = [buf EXCEPT ![at[h]].dirty = TRUE, ![at[h]].data = d]
    /\ latest' = [latest EXCEPT ![buf[at[h]].blockno] = d] /\ unread' = unread \ {at[h]}
    /\ UNCHANGED <<list, lock, idequeue, disk, pc, at, panicked>>

\* ideintr(): the active request is done; its process wakes, the next one starts.  When
\* the disk reports an error (ok is FALSE) nothing is read, and the buffer is valid all
\* the same.  The status of a write is not looked at; the disk performs it.
ideintr(ok) ==
    /\ idequeue # <<>>
    /\ LET i == Head(idequeue)
           b == buf[i]
       IN  /\ disk' = IF b.dirty THEN [disk EXCEPT ![b.blockno] = b.data] ELSE disk
           /\ buf' = [buf EXCEPT ![i].valid = TRUE, ![i].dirty = FALSE,
                                 ![i].data = IF b.dirty \/ ~ok THEN @ ELSE disk[b.blockno]]
           /\ unread' = IF b.dirty \/ ok THEN unread \ {i} ELSE unread \cup {i}
           /\ pc' = [q \in Hands |-> IF pc[q] = "iosleep" /\ at[q] = i THEN "held" ELSE pc[q]]
    /\ idequeue' = Tail(idequeue)
    /\ UNCHANGED <<list, lock, at, panicked, latest>>

-------------------------------------------------------------------------------
Init ==
    /\ disk \in [Blocks -> Data] /\ latest = disk
    /\ buf = [i \in Bufs |-> [blockno |-> NoBlock, refcnt |-> 0, valid |-> FALSE,
                            dirty |-> FALSE, data |-> NoData]]
    /\ list = [i \in Bufs |-> NBUF + 1 - i]     \* binit() puts each at the head
    /\ lock = [i \in Bufs |-> NoProc] /\ idequeue = <<>>
    /\ pc = [h \in Hands |-> "idle"] /\ at = [h \in Hands |-> 1]
    /\ panicked = FALSE /\ unread = {}

Step ==
    \/ \E ok \in BOOLEAN : ideintr(ok)
    \/ \E h \in Hands :
        \/ acquiresleep(h) \/ bread(h) \/ releasesleep(h) \/ brelse(h)
        \/ \E b \in Blocks : bget(h, b)
        \/ \E d \in Data : bwrite(h, d) \/ log_write(h, d)

\* panic() stops every CPU.
Stopped == panicked /\ UNCHANGED vars

Next == (~panicked /\ Step) \/ Stopped

Spec == Init /\ [][Next]_vars

-------------------------------------------------------------------------------
\* The list holds every buffer and, being as long as there are buffers, each once.
Listed == \A i \in Bufs : \E k \in Bufs : list[k] = i

\* The type of every variable of the cache and the driver; the list is a permutation.
TypeOK ==
    /\ buf \in [Bufs -> [blockno : Blocks \cup {NoBlock}, refcnt : 0 .. Cardinality(Hands),
                         valid : BOOLEAN, dirty : BOOLEAN, data : Data \cup {NoData}]]
    /\ list \in [Bufs -> Bufs] /\ Listed
    /\ lock \in [Bufs -> Hands \cup {NoProc}]
    /\ idequeue \in Seq(Bufs) /\ disk \in [Blocks -> Data] /\ latest \in [Blocks -> Data]
    /\ pc \in [Hands -> {"idle", "lock", "asleep", "bread", "iosleep", "held", "brelse"}]
    /\ at \in [Hands -> Bufs] /\ panicked \in BOOLEAN /\ unread \in SUBSET Bufs

\* A process that bread() has given a buffer sees what the block's last user
\* wrote, whoever that was and whether the block stayed in the cache, was pinned by
\* the log or went to the disk and came back, unless the disk failed to read it; and
\* nobody else has the block.  (bread()'s comment, bio.c:94, has no such exception; but
\* ideintr() marks a buffer valid that it could not read.)
ReadsLatest ==
    \A h \in Hands : pc[h] = "held" =>
        /\ at[h] \notin unread => buf[at[h]].data = latest[buf[at[h]].blockno]
        /\ \A g \in Hands \ {h} : pc[g] = "held" => buf[at[g]].blockno # buf[at[h]].blockno

\* bget() gives up only when every buffer is dirty or somebody's, so that the blocks the
\* log has pinned do not leave two buffers for every process: no sequence of gets,
\* releases and writes leaks a reference or a dirty mark.  (param.h makes NBUF equal to
\* LOGSIZE, so the log alone may pin that many.)
PanicOnlyWhenPinned ==
    panicked =>
        /\ \A i \in Bufs : buf[i].dirty \/ \E h \in Hands : pc[h] # "idle" /\ at[h] = i
        /\ Cardinality({i \in Bufs : buf[i].dirty}) + Cardinality(Hands) > NBUF

\* Every sleeper has somebody to wake him.  The buffer he waits for is locked by another
\* process on its way to brelse(), or one that sleeps in turn for a block nested inside
\* this one, so that nobody waits for himself through others; and the request he waits
\* for is in the driver's queue, once.
NobodyForgotten ==
    \A h \in Hands :
        /\ pc[h] = "asleep" => \E g \in Hands :
              /\ g[1] # h[1] /\ lock[at[h]] = g /\ at[g] = at[h]
              /\ pc[g] \in {"bread", "iosleep", "held"}
              /\ pc[OtherHand(g)] = "asleep" =>
                    Nested(buf[at[h]].blockno, buf[at[OtherHand(g)]].blockno)
        /\ pc[h] = "iosleep" =>
              Cardinality({k \in DOMAIN idequeue : idequeue[k] = at[h]}) = 1
===============================================================================
