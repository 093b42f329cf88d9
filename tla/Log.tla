---------------------------------- MODULE Log ----------------------------------
(***************************************************************************)
(* The write-ahead log of 07_xv6_File_System/PartA/log.c, with the parts   *)
(* of the buffer cache (bio.c) it relies on: which home blocks are cached, *)
(* which are pinned by B_DIRTY, which are locked by a process.             *)
(*                                                                         *)
(* A block's contents are one member of Data.  A disk write of one block   *)
(* (BSIZE is one sector) is atomic; a crash may happen between any two.    *)
(***************************************************************************)
EXTENDS Naturals, Sequences, FiniteSets

CONSTANTS
  Procs,         \* processes making file-system calls
  Blocks,        \* home blocks (inodes, bitmap, data)
  Data,          \* contents of a block
  NotCached,     \* cache[b] when no buffer holds b
  NoBlock,       \* held[p] when p holds no buffer lock
  MAXOPBLOCKS,   \* param.h: max # of blocks any FS op writes
  LOGSIZE,       \* param.h: max data blocks in on-disk log
  NLOG           \* superblock nlog, header block included (log.size)

ASSUME DataAssumption ==
  /\ Data # {}
  /\ NotCached \notin Data
  /\ NoBlock \notin Blocks

ASSUME ProcsAssumption == IsFiniteSet(Procs)

ASSUME SizeAssumption ==
  /\ MAXOPBLOCKS \in Nat \ {0}
  /\ LOGSIZE \in Nat
  /\ NLOG \in Nat \ {0}
  /\ MAXOPBLOCKS <= LOGSIZE

VARIABLES
  disk,         \* home blocks on disk
  dlog,         \* log blocks on disk after the header, dlog[i] at log.start + i
  dhead,        \* header block on disk: the block numbers of the transaction
  cache,        \* contents of the buffer of a home block, or NotCached
  dirty,        \* home blocks whose buffer has B_DIRTY
  held,         \* the buffer a process has locked to modify
  lh,           \* log.lh: blocks of the current transaction
  outstanding,  \* log.outstanding
  committing,   \* log.committing
  pc,           \* where each process is
  tail,         \* loop counter of write_log / install_trans
  opblocks,     \* distinct blocks the current call of p has logged
  panicked      \* panic() was called

diskVars == <<disk, dlog, dhead>>
memVars  == <<cache, dirty, held, lh, outstanding, committing, tail, opblocks>>
vars     == <<disk, dlog, dhead, cache, dirty, held, lh, outstanding,
              committing, pc, tail, opblocks, panicked>>

OpPcs       == {"op", "modified", "checked"}
CommitPcs   == {"write_log", "overrun", "write_head", "install", "erase",
                "committed"}
RecoveryPcs == {"read_head", "r_install", "r_erase"}
Pcs         == {"idle", "begin", "sleep", "off"} \cup OpPcs \cup CommitPcs
                 \cup RecoveryPcs

InOp       == {p \in Procs : pc[p] \in OpPcs}
Committers == {p \in Procs : pc[p] \in CommitPcs}
Recovering == \E p \in Procs : pc[p] \in RecoveryPcs

(* Somebody has written behind the log area, over a block of the file system. *)
Overrun == \E p \in Procs : pc[p] = "overrun"

(* What a bread() of a home block returns. *)
View == [b \in Blocks |-> IF cache[b] = NotCached THEN disk[b] ELSE cache[b]]

Occurs(b, s) == \E i \in 1..Len(s) : s[i] = b

(* Where install_trans would last copy b from: the last log slot naming b. *)
LastSlot(b, s) == CHOOSE i \in 1..Len(s) :
                    s[i] = b /\ \A j \in 1..Len(s) : s[j] = b => j <= i

(* The home blocks a reboot ends up with: the disk overlaid by its log. *)
Recovered == [b \in Blocks |-> IF Occurs(b, dhead)
                                 THEN dlog[LastSlot(b, dhead)] ELSE disk[b]]
-------------------------------------------------------------------------------
Init ==
  /\ disk \in [Blocks -> Data]
  /\ dlog \in [1..NLOG - 1 -> Data]
  /\ dhead = <<>>
  /\ cache = [b \in Blocks |-> NotCached]
  /\ dirty = {}
  /\ held = [p \in Procs |-> NoBlock]
  /\ lh = <<>>
  /\ outstanding = 0
  /\ committing = FALSE
  /\ pc = [p \in Procs |-> "idle"]
  /\ tail = 0
  /\ opblocks = [p \in Procs |-> {}]
  /\ panicked = FALSE

Goto(p, l) == pc' = [pc EXCEPT ![p] = l]

(* wakeup(&log): every process asleep in begin_op() gets to test again. *)
Wakeup(f) == [q \in Procs |-> IF f[q] = "sleep" THEN "begin" ELSE f[q]]

(* A mutant: begin_op() that reserves no room for the call it lets in. *)
MustWaitNoRoom == committing \/ Len(lh) + outstanding * MAXOPBLOCKS > LOGSIZE

(* A mutant: begin_op() that lets calls in while a commit runs. *)
MustWaitNoCommit == Len(lh) + (outstanding + 1) * MAXOPBLOCKS > LOGSIZE

(* begin_op(): the two conditions under which the caller sleeps. *)
MustWait == \/ committing
            \/ Len(lh) + (outstanding + 1) * MAXOPBLOCKS > LOGSIZE

(* A mutant: begin_op() that forgets log.outstanding. *)
BeginOpUncounted(p) ==
  /\ pc[p] \in {"idle", "begin"}
  /\ ~MustWait
  /\ outstanding' = outstanding
  /\ opblocks' = [opblocks EXCEPT ![p] = {}]
  /\ Goto(p, "op")
  /\ UNCHANGED <<diskVars, cache, dirty, held, lh, committing, tail, panicked>>

BeginOp(p) ==
  /\ pc[p] \in {"idle", "begin"}
  /\ ~MustWait
  /\ outstanding' = outstanding + 1
  /\ opblocks' = [opblocks EXCEPT ![p] = {}]
  /\ Goto(p, "op")
  /\ UNCHANGED <<diskVars, cache, dirty, held, lh, committing, tail, panicked>>

BeginOpSleep(p) ==
  /\ pc[p] \in {"idle", "begin"}
  /\ MustWait
  /\ Goto(p, "sleep")
  /\ UNCHANGED <<diskVars, memVars, panicked>>

(* bread(b) followed by a change of b->data; the buffer stays locked until *)
(* log_write(b) and brelse(b).  A call logs at most MAXOPBLOCKS blocks.    *)
Modify(p, b, v) ==
  /\ pc[p] = "op"
  /\ \A q \in Procs : held[q] # b
  /\ Cardinality(opblocks[p] \cup {b}) <= MAXOPBLOCKS
  /\ held' = [held EXCEPT ![p] = b]
  /\ cache' = [cache EXCEPT ![b] = v]
  /\ opblocks' = [opblocks EXCEPT ![p] = @ \cup {b}]
  /\ Goto(p, "modified")
  /\ UNCHANGED <<diskVars, dirty, lh, outstanding, committing, tail, panicked>>

(* log_write()'s size checks, made before log.lock is taken. *)
TooBig == Len(lh) >= LOGSIZE \/ Len(lh) >= NLOG - 1

LogWriteCheck(p) ==
  /\ pc[p] = "modified"
  /\ IF TooBig \/ outstanding < 1
       THEN panicked' = TRUE /\ UNCHANGED pc
       ELSE Goto(p, "checked") /\ UNCHANGED panicked
  /\ UNCHANGED <<diskVars, memVars>>

(* The part of log_write() under log.lock (with absorption), then brelse.  *)
LogWrite(p) ==
  /\ pc[p] = "checked"
  /\ lh' = IF Occurs(held[p], lh) THEN lh ELSE Append(lh, held[p])
  /\ dirty' = dirty \cup {held[p]}
  /\ held' = [held EXCEPT ![p] = NoBlock]
  /\ Goto(p, "op")
  /\ UNCHANGED <<diskVars, cache, outstanding, committing, tail, opblocks,
                 panicked>>

(* end_op() up to its first release(&log.lock), and commit()'s test. *)
EndOp(p) ==
  /\ pc[p] = "op"
  /\ outstanding' = outstanding - 1
  /\ IF committing
       THEN panicked' = TRUE /\ UNCHANGED <<committing, pc, tail>>
       ELSE /\ UNCHANGED panicked
            /\ IF outstanding = 1
                 THEN /\ committing' = TRUE
                      /\ tail' = 0
                      /\ Goto(p, IF Len(lh) > 0 THEN "write_log"
                                                ELSE "committed")
                 ELSE /\ pc' = Wakeup([pc EXCEPT ![p] = "idle"])
                      /\ UNCHANGED <<committing, tail>>
  /\ opblocks' = [opblocks EXCEPT ![p] = {}]
  /\ UNCHANGED <<diskVars, cache, dirty, held, lh>>
-------------------------------------------------------------------------------
(* commit(): one disk write per step.                                      *)

(* A mutant: write_log() that copies the block on disk, not the cached one. *)
WriteLogStale(p) ==
  /\ pc[p] = "write_log"
  /\ tail + 1 < NLOG
  /\ dlog' = [dlog EXCEPT ![tail + 1] = disk[lh[tail + 1]]]
  /\ tail' = tail + 1
  /\ Goto(p, IF tail + 1 = Len(lh) THEN "write_head" ELSE "write_log")
  /\ UNCHANGED <<disk, dhead, cache, dirty, held, lh, outstanding, committing,
                 opblocks, panicked>>

(* One iteration of write_log()'s loop, to a block of the log area. *)
WriteLog(p) ==
  /\ pc[p] = "write_log"
  /\ tail + 1 < NLOG
  /\ dlog' = [dlog EXCEPT ![tail + 1] = View[lh[tail + 1]]]
  /\ tail' = tail + 1
  /\ Goto(p, IF tail + 1 = Len(lh) THEN "write_head" ELSE "write_log")
  /\ UNCHANGED <<disk, dhead, cache, dirty, held, lh, outstanding, committing,
                 opblocks, panicked>>

(* The same iteration when the log area is full: log.start + tail + 1 is the *)
(* first block behind it, where the inodes begin.  Nothing is claimed of the  *)
(* disk from then on.                                                        *)
WriteLogBeyond(p) ==
  /\ pc[p] = "write_log"
  /\ tail + 1 >= NLOG
  /\ Goto(p, "overrun")
  /\ UNCHANGED <<diskVars, memVars, panicked>>

(* write_head() with the transaction in it: the commit point. *)
WriteHead(p) ==
  /\ pc[p] = "write_head"
  /\ dhead' = lh
  /\ tail' = 0
  /\ Goto(p, "install")
  /\ UNCHANGED <<disk, dlog, cache, dirty, held, lh, outstanding, committing,
                 opblocks, panicked>>

(* A mutant: install_trans() without bwrite(dbuf). *)
InstallOneNoWrite(p, here, next) ==
  /\ pc[p] = here
  /\ tail < Len(lh)
  /\ LET b == lh[tail + 1]
     IN /\ UNCHANGED disk
        /\ cache' = [cache EXCEPT ![b] = dlog[tail + 1]]
        /\ dirty' = dirty \ {b}
  /\ tail' = tail + 1
  /\ Goto(p, IF tail + 1 = Len(lh) THEN next ELSE here)
  /\ UNCHANGED <<dlog, dhead, held, lh, outstanding, committing, opblocks,
                 panicked>>

(* One iteration of install_trans(): copy log slot tail+1 to its home block *)
(* through that block's buffer; the disk driver clears B_DIRTY.             *)
InstallOne(p, here, next) ==
  /\ pc[p] = here
  /\ tail < Len(lh)
  /\ LET b == lh[tail + 1]
     IN /\ disk' = [disk EXCEPT ![b] = dlog[tail + 1]]
        /\ cache' = [cache EXCEPT ![b] = dlog[tail + 1]]
        /\ dirty' = dirty \ {b}
  /\ tail' = tail + 1
  /\ Goto(p, IF tail + 1 = Len(lh) THEN next ELSE here)
  /\ UNCHANGED <<dlog, dhead, held, lh, outstanding, committing, opblocks,
                 panicked>>

Install(p) == InstallOne(p, "install", "erase")

(* log.lh.n = 0; write_head(): erase the transaction. *)
Erase(p) ==
  /\ pc[p] = "erase"
  /\ lh' = <<>>
  /\ dhead' = <<>>
  /\ tail' = 0
  /\ Goto(p, "committed")
  /\ UNCHANGED <<disk, dlog, cache, dirty, held, outstanding, committing,
                 opblocks, panicked>>

(* A mutant: end_op() that does not wake the sleepers after its commit. *)
EndCommitNoWakeup(p) ==
  /\ pc[p] = "committed"
  /\ committing' = FALSE
  /\ Goto(p, "idle")
  /\ UNCHANGED <<diskVars, cache, dirty, held, lh, outstanding, tail,
                 opblocks, panicked>>

(* The second critical section of end_op(). *)
EndCommit(p) ==
  /\ pc[p] = "committed"
  /\ committing' = FALSE
  /\ pc' = Wakeup([pc EXCEPT ![p] = "idle"])
  /\ UNCHANGED <<diskVars, cache, dirty, held, lh, outstanding, tail,
                 opblocks, panicked>>
-------------------------------------------------------------------------------
(* The buffer cache below the log.                                         *)

(* bread() by any reader brings a block in. *)
Load(b) ==
  /\ ~Recovering
  /\ cache[b] = NotCached
  /\ cache' = [cache EXCEPT ![b] = disk[b]]
  /\ UNCHANGED <<diskVars, dirty, held, lh, outstanding, committing, pc, tail,
                 opblocks, panicked>>

(* A mutant: bget() that recycles dirty buffers. *)
EvictDirty(b) ==
  /\ cache[b] # NotCached
  /\ \A p \in Procs : held[p] # b
  /\ cache' = [cache EXCEPT ![b] = NotCached]
  /\ UNCHANGED <<diskVars, dirty, held, lh, outstanding, committing, pc, tail,
                 opblocks, panicked>>

(* bget() recycles the buffer of b for another block: refcnt = 0 and not   *)
(* B_DIRTY.                                                                *)
Evict(b) ==
  /\ cache[b] # NotCached
  /\ b \notin dirty
  /\ \A p \in Procs : held[p] # b
  /\ cache' = [cache EXCEPT ![b] = NotCached]
  /\ UNCHANGED <<diskVars, dirty, held, lh, outstanding, committing, pc, tail,
                 opblocks, panicked>>
-------------------------------------------------------------------------------
(* A power failure, or the reboot that follows a panic.  p is the process  *)
(* whose forkret() will run initlog().                                     *)
Crash(p) ==
  /\ cache' = [b \in Blocks |-> NotCached]
  /\ dirty' = {}
  /\ held' = [q \in Procs |-> NoBlock]
  /\ lh' = <<>>
  /\ outstanding' = 0
  /\ committing' = FALSE
  /\ tail' = 0
  /\ opblocks' = [q \in Procs |-> {}]
  /\ pc' = [q \in Procs |-> IF q = p THEN "read_head" ELSE "off"]
  /\ panicked' = FALSE
  /\ UNCHANGED diskVars

(* recover_from_log(): read_head, ... *)
ReadHead(p) ==
  /\ pc[p] = "read_head"
  /\ lh' = dhead
  /\ Goto(p, IF Len(dhead) > 0 THEN "r_install" ELSE "r_erase")
  /\ UNCHANGED <<diskVars, cache, dirty, held, outstanding, committing, tail,
                 opblocks, panicked>>

(* ... install_trans, ... *)
RecoverInstall(p) == InstallOne(p, "r_install", "r_erase")

(* ... and clear the log; then the system calls start. *)
RecoverErase(p) ==
  /\ pc[p] = "r_erase"
  /\ lh' = <<>>
  /\ dhead' = <<>>
  /\ tail' = 0
  /\ pc' = [q \in Procs |-> "idle"]
  /\ UNCHANGED <<disk, dlog, cache, dirty, held, outstanding, committing,
                 opblocks, panicked>>
-------------------------------------------------------------------------------
CommitStep(p) == \/ WriteLog(p) \/ WriteLogBeyond(p) \/ WriteHead(p)
                 \/ Install(p) \/ Erase(p) \/ EndCommit(p)

RecoveryStep(p) == ReadHead(p) \/ RecoverInstall(p) \/ RecoverErase(p)

ProcStep(p) == \/ BeginOp(p) \/ BeginOpSleep(p)
               \/ \E b \in Blocks, v \in Data : Modify(p, b, v)
               \/ LogWriteCheck(p) \/ LogWrite(p)
               \/ EndOp(p)
               \/ CommitStep(p) \/ RecoveryStep(p)

(* After panic() only a reboot happens, after an overrun nothing we model. *)
Running == ~panicked /\ ~Overrun

Next == \/ Running /\ \E p \in Procs : ProcStep(p)
        \/ Running /\ \E b \in Blocks : Load(b) \/ Evict(b)
        \/ ~Overrun /\ \E p \in Procs : Crash(p)

Spec == Init /\ [][Next]_vars

(* Every process that is on its way through the code keeps going, and every *)
(* system call makes finitely many writes before its end_op().              *)
Fairness == \A p \in Procs :
  /\ WF_vars(Running /\ (LogWriteCheck(p) \/ LogWrite(p) \/ CommitStep(p)
                            \/ RecoveryStep(p)))
  /\ WF_vars(Running /\ pc[p] = "begin" /\ (BeginOp(p) \/ BeginOpSleep(p)))
  /\ SF_vars(Running /\ EndOp(p))

FairSpec == Spec /\ Fairness
-------------------------------------------------------------------------------
(* Every variable keeps its type. *)
TypeOK ==
  /\ disk \in [Blocks -> Data]
  /\ dlog \in [1..NLOG - 1 -> Data]
  /\ dhead \in Seq(Blocks)
  /\ cache \in [Blocks -> Data \cup {NotCached}]
  /\ dirty \in SUBSET Blocks
  /\ held \in [Procs -> Blocks \cup {NoBlock}]
  /\ lh \in Seq(Blocks)
  /\ outstanding \in Nat
  /\ committing \in BOOLEAN
  /\ pc \in [Procs -> Pcs]
  /\ tail \in Nat
  /\ opblocks \in [Procs -> SUBSET Blocks]
  /\ panicked \in BOOLEAN

(* The blocks of a call in progress that are in the transaction. *)
Logged == {u \in InOp \X Blocks : u[2] \in opblocks[u[1]] /\ Occurs(u[2], lh)}

(* begin_op()'s reservation: with what the calls in progress may still log, a *)
(* transaction fits into the LOGSIZE entries of log.lh.block, although        *)
(* log_write() tests the size before it takes log.lock.                       *)
RoomReserved ==
  /\ Len(lh) + Cardinality(InOp) * MAXOPBLOCKS <= LOGSIZE + Cardinality(Logged)
  /\ Len(lh) <= LOGSIZE

(* A transaction never outgrows the log area on disk, which log_write()'s     *)
(* panic "too big a transaction" is there to keep.                            *)
LogInBounds == Len(lh) <= NLOG - 1

(* log.c's header comment: the log only commits when no FS system call is    *)
(* active, and one end_op() at a time commits.                               *)
CommitExclusive ==
  /\ Cardinality(Committers) <= 1
  /\ Committers # {} => InOp = {}

(* Once every end_op() has returned, everything the calls wrote survives a   *)
(* reboot: the recovered disk is what the cache shows.                       *)
Durable == InOp = {} /\ Committers = {} /\ ~Recovering => Recovered = View

(* B_DIRTY keeps exactly the blocks of a transaction that is not yet         *)
(* installed in the cache; nothing stays pinned once the log is idle.        *)
Pinned ==
  \A b \in Blocks :
    /\ b \in dirty => cache[b] # NotCached /\ Occurs(b, lh)
    /\ Occurs(b, lh) /\ (\A p \in Procs : pc[p] \notin {"install", "erase"})
         /\ ~Recovering => b \in dirty

(* The log implements AtomicDisk: what a reboot would find changes only at   *)
(* the header write, there to everything the finished calls wrote, and       *)
(* neither installation nor a crash in the middle of it can be seen.         *)
A == INSTANCE AtomicDisk WITH
       db <- Recovered,
       cur <- IF Recovering THEN Recovered ELSE View,
       active <- InOp
AtomicCommit == A!Spec

(* No lost wakeup in begin_op(): a process put to sleep there is woken, or   *)
(* the machine panics, reboots or overruns its log.                          *)
SleeperWakes == \A p \in Procs : pc[p] = "sleep" ~> (pc[p] # "sleep" \/ ~Running)
===============================================================================
