------------------------------- MODULE LogProofs -------------------------------
(***************************************************************************)
(* Proofs about Log for every set of processes, blocks and data and every  *)
(* log size: first the exclusion and the space of the log, then that it    *)
(* implements AtomicDisk.                                                  *)
(***************************************************************************)
EXTENDS Log, FiniteSetTheorems, FunctionTheorems, SequenceTheorems, TLAPS

(***************************************************************************)
(* The inductive invariant, part by part.                                  *)
(***************************************************************************)

(* outstanding counts the calls between begin_op and end_op. *)
Counted == outstanding = Cardinality(InOp)

(* A committer excludes calls and other committers. *)
CommitAlone ==
  /\ \A p \in Procs : pc[p] \in CommitPcs => committing
  /\ \A p, q \in Procs : pc[p] \in CommitPcs /\ pc[q] \in CommitPcs => p = q
  /\ committing => InOp = {}

(* The process that recovers is the only one that runs. *)
RecoverAlone ==
  \A p, q \in Procs : pc[p] \in RecoveryPcs /\ q # p => pc[q] = "off"

(* A process holds a buffer lock exactly from modifying a block to logging *)
(* it, and no two hold the same one.                                       *)
HeldInv ==
  /\ \A p \in Procs : held[p] # NoBlock <=> pc[p] \in {"modified", "checked"}
  /\ \A p, q \in Procs : p # q /\ held[p] = held[q] => held[p] = NoBlock

(* A call has touched at most MAXOPBLOCKS blocks, each of them logged or   *)
(* about to be.                                                            *)
OpBlocksInv ==
  \A p \in InOp :
    /\ IsFiniteSet(opblocks[p])
    /\ Cardinality(opblocks[p]) <= MAXOPBLOCKS
    /\ held[p] # NoBlock => held[p] \in opblocks[p]
    /\ \A b \in opblocks[p] : Occurs(b, lh) \/ held[p] = b

(* begin_op's reservation: the blocks in the log, plus MAXOPBLOCKS for each *)
(* call, less what those calls have used of it, fit the log.                *)
Capacity ==
  /\ Len(lh) + outstanding * MAXOPBLOCKS <= LOGSIZE + Cardinality(Logged)
  /\ Len(dhead) <= LOGSIZE

(* The copying loops never run past the transaction, and what they copy    *)
(* home lies in the log area: an overrun transaction is never committed.   *)
TailInv ==
  /\ Len(dhead) < NLOG
  /\ \A p \in Procs :
       /\ pc[p] \in {"write_log", "install", "r_install"} => tail < Len(lh)
       /\ pc[p] = "read_head" => tail = 0
       /\ pc[p] = "write_head" => Len(lh) > 0
       /\ pc[p] \in {"write_head", "install", "erase", "r_install", "r_erase"}
            => Len(lh) < NLOG

IInv == /\ TypeOK /\ Counted /\ CommitAlone /\ RecoverAlone /\ HeldInv
        /\ OpBlocksInv /\ Capacity /\ TailInv

-------------------------------------------------------------------------------
LEMMA InOpFinite == IsFiniteSet(InOp) /\ Cardinality(InOp) \in Nat
<1>1. InOp \subseteq Procs  BY DEF InOp
<1>2. QED  BY <1>1, ProcsAssumption, FS_Subset, FS_CardinalityType

(* The calls never use more than they reserved: number the blocks of each  *)
(* call from 1 to MAXOPBLOCKS.                                             *)
LEMMA LoggedBound ==
  ASSUME TypeOK, OpBlocksInv
  PROVE  /\ IsFiniteSet(Logged)
         /\ Cardinality(Logged) \in Nat
         /\ Cardinality(Logged) <= Cardinality(InOp) * MAXOPBLOCKS
<1> DEFINE Slots == InOp \X (1..MAXOPBLOCKS)
           Numbering(p) == CHOOSE f \in [opblocks[p] -> 1..MAXOPBLOCKS] :
                             \A b, c \in opblocks[p] : f[b] = f[c] => b = c
           g == [u \in Logged |-> <<u[1], Numbering(u[1])[u[2]]>>]
<1>1. \A p \in InOp : \E f \in [opblocks[p] -> 1..MAXOPBLOCKS] :
         \A b, c \in opblocks[p] : f[b] = f[c] => b = c
  <2> SUFFICES ASSUME NEW p \in InOp
               PROVE  \E f \in [opblocks[p] -> 1..MAXOPBLOCKS] :
                        \A b, c \in opblocks[p] : f[b] = f[c] => b = c
    OBVIOUS
  <2> DEFINE n == Cardinality(opblocks[p])
  <2>1. IsFiniteSet(opblocks[p]) /\ n <= MAXOPBLOCKS /\ n \in Nat
    BY FS_CardinalityType DEF OpBlocksInv
  <2>2. PICK h \in Bijection(opblocks[p], 1..n) : TRUE
    BY <2>1, FS_CardinalityType, Fun_ExistsBijSymmetric, Fun_ExistsBij
  <2>3. /\ h \in [opblocks[p] -> 1..MAXOPBLOCKS]
        /\ \A b, c \in opblocks[p] : h[b] = h[c] => b = c
    BY <2>1, <2>2, SizeAssumption DEF Bijection, Injection, IsInjective
  <2>4. QED  BY <2>3
<1>2. \A p \in InOp : /\ Numbering(p) \in [opblocks[p] -> 1..MAXOPBLOCKS]
                      /\ \A b, c \in opblocks[p] :
                           Numbering(p)[b] = Numbering(p)[c] => b = c
  BY <1>1
<1> HIDE DEF Numbering
<1>3. g \in [Logged -> Slots]
  BY <1>2 DEF Logged
<1>4. ASSUME NEW u \in Logged, NEW v \in Logged, g[u] = g[v]
      PROVE  u = v
  <2>1. /\ u[1] = v[1]
        /\ Numbering(u[1])[u[2]] = Numbering(v[1])[v[2]]
    <3>1. <<u[1], Numbering(u[1])[u[2]]>> = <<v[1], Numbering(v[1])[v[2]]>>
      BY <1>4
    <3>2. QED  BY <3>1
  <2>2. /\ u = <<u[1], u[2]>> /\ v = <<v[1], v[2]>>
        /\ u[1] \in InOp /\ u[2] \in opblocks[u[1]]
        /\ v[1] \in InOp /\ v[2] \in opblocks[v[1]]
    BY DEF Logged
  <2>3. u[2] = v[2]
    BY <1>2, <2>1, <2>2
  <2>4. QED  BY <2>1, <2>2, <2>3
<1>5. g \in Injection(Logged, Slots)
  <2>1. IsInjective(g)  BY <1>4 DEF IsInjective
  <2>2. QED  BY <1>3, <2>1 DEF Injection
<1>6. /\ IsFiniteSet(Slots)
      /\ Cardinality(Slots) = Cardinality(InOp) * MAXOPBLOCKS
  <2>1. IsFiniteSet(1..MAXOPBLOCKS) /\ Cardinality(1..MAXOPBLOCKS) = MAXOPBLOCKS
    BY FS_Interval, SizeAssumption
  <2>2. QED  BY <2>1, InOpFinite, FS_Product
<1>7. QED  BY <1>5, <1>6, FS_Injection, FS_CardinalityType

LEMMA Product ==
  ASSUME NEW m \in Nat, NEW n \in Nat
  PROVE  m * n \in Nat /\ (m + 1) * n = m * n + n
OBVIOUS

LEMMA Reserved == ASSUME TypeOK
                  PROVE  /\ outstanding * MAXOPBLOCKS \in Nat
                         /\ (outstanding + 1) * MAXOPBLOCKS \in Nat
                         /\ Len(lh) \in Nat /\ LOGSIZE \in Nat
BY Product, SizeAssumption DEF TypeOK

(* Half of the reservation argument: the log has room for what is in it. *)
LEMMA LhFits ==
  ASSUME IInv
  PROVE  Len(lh) \in Nat /\ Len(lh) <= LOGSIZE
<1>1. /\ outstanding = Cardinality(InOp)
      /\ Len(lh) + outstanding * MAXOPBLOCKS <= LOGSIZE + Cardinality(Logged)
  BY DEF IInv, Counted, Capacity
<1>2. /\ Cardinality(Logged) <= outstanding * MAXOPBLOCKS
      /\ Cardinality(Logged) \in Nat
  BY <1>1, LoggedBound DEF IInv
<1>3. Len(lh) \in Nat /\ outstanding * MAXOPBLOCKS \in Nat /\ LOGSIZE \in Nat
  BY SizeAssumption DEF IInv, TypeOK
<1> HIDE DEF Logged
<1>4. QED
  <2> DEFINE c == Cardinality(Logged)
             m == outstanding * MAXOPBLOCKS
  <2>1. Len(lh) + m <= LOGSIZE + c /\ c <= m /\ c \in Nat /\ m \in Nat
    BY <1>1, <1>2, <1>3
  <2> HIDE DEF c, m
  <2>2. QED  BY <2>1, <1>3

LEMMA WakeupType ==
  ASSUME NEW f \in [Procs -> Pcs]
  PROVE  Wakeup(f) \in [Procs -> Pcs]
BY DEF Wakeup, Pcs

LEMMA ViewType ==
  ASSUME TypeOK
  PROVE  View \in [Blocks -> Data]
BY DEF TypeOK, View

LEMMA InstallType ==
  ASSUME IInv, NEW p \in Procs, NEW next \in Pcs,
         NEW here \in {"install", "r_install"}, InstallOne(p, here, next)
  PROVE  TypeOK'
<1>1. tail + 1 \in 1..NLOG - 1 /\ tail + 1 \in 1..Len(lh)
  BY SizeAssumption DEF InstallOne, IInv, TypeOK, TailInv
<1>2. lh[tail + 1] \in Blocks /\ dlog[tail + 1] \in Data
  BY <1>1 DEF IInv, TypeOK
<1>3. QED  BY <1>1, <1>2 DEF InstallOne, IInv, TypeOK, Goto

(* The type invariant is preserved by every step. *)
LEMMA TypeStep ==
  ASSUME IInv, [Next]_vars
  PROVE  TypeOK'
<1> USE DEF IInv, TypeOK
<1>1. CASE UNCHANGED vars
  BY <1>1 DEF vars
<1>2. ASSUME NEW p \in Procs, BeginOp(p) PROVE TypeOK'
  BY <1>2 DEF BeginOp, Goto, diskVars, Pcs, OpPcs
<1>3. ASSUME NEW p \in Procs, BeginOpSleep(p) PROVE TypeOK'
  BY <1>3 DEF BeginOpSleep, Goto, diskVars, memVars, Pcs
<1>4. ASSUME NEW p \in Procs, NEW b \in Blocks, NEW v \in Data, Modify(p, b, v)
      PROVE  TypeOK'
  BY <1>4 DEF Modify, Goto, diskVars, Pcs, OpPcs
<1>5. ASSUME NEW p \in Procs, LogWriteCheck(p) PROVE TypeOK'
  BY <1>5 DEF LogWriteCheck, Goto, diskVars, memVars, Pcs, OpPcs
<1>6. ASSUME NEW p \in Procs, LogWrite(p) PROVE TypeOK'
  <2>1. held[p] \in Blocks
    BY <1>6 DEF LogWrite, HeldInv
  <2>2. QED  BY <1>6, <2>1 DEF LogWrite, Goto, diskVars, Pcs, OpPcs
<1>7. ASSUME NEW p \in Procs, EndOp(p) PROVE TypeOK'
  <2>1. outstanding >= 1
    <3>1. p \in InOp  BY <1>7 DEF EndOp, InOp, OpPcs
    <3>2. Cardinality(InOp) # 0 /\ Cardinality(InOp) \in Nat
      BY <3>1, InOpFinite, FS_EmptySet
    <3>3. QED  BY <3>2 DEF Counted
  <2>2. [pc EXCEPT ![p] = "idle"] \in [Procs -> Pcs]  BY DEF Pcs
  <2>3. Wakeup([pc EXCEPT ![p] = "idle"]) \in [Procs -> Pcs]
    BY <2>2, WakeupType
  <2>4. pc' \in [Procs -> Pcs]
    BY <1>7, <2>3 DEF EndOp, Goto, Pcs, CommitPcs
  <2>5. ~committing
    BY <1>7 DEF EndOp, CommitAlone, InOp, OpPcs
  <2>6. /\ outstanding' \in Nat
        /\ tail' \in Nat
    BY <1>7, <2>1, <2>5 DEF EndOp
  <2>7. panicked' = panicked /\ committing' \in {TRUE, committing}
    BY <1>7, <2>5 DEF EndOp
  <2>8. QED  BY <1>7, <2>4, <2>6, <2>7 DEF EndOp, diskVars
<1>8. ASSUME NEW p \in Procs, WriteLog(p) PROVE TypeOK'
  <2>1. tail + 1 \in 1..Len(lh)
    BY <1>8 DEF WriteLog, TailInv
  <2>2. View[lh[tail + 1]] \in Data
    BY <2>1, ViewType
  <2>3. dlog' \in [1..NLOG - 1 -> Data]
    BY <1>8, <2>2 DEF WriteLog
  <2>4. pc' \in [Procs -> Pcs]
    BY <1>8 DEF WriteLog, Goto, Pcs, CommitPcs
  <2>5. QED  BY <1>8, <2>3, <2>4 DEF WriteLog
<1>8b. ASSUME NEW p \in Procs, WriteLogBeyond(p) PROVE TypeOK'
  BY <1>8b DEF WriteLogBeyond, Goto, diskVars, memVars, Pcs, CommitPcs
<1>9. ASSUME NEW p \in Procs, WriteHead(p) PROVE TypeOK'
  BY <1>9 DEF WriteHead, Goto, Pcs, CommitPcs
<1>10. ASSUME NEW p \in Procs, Install(p) \/ RecoverInstall(p) PROVE TypeOK'
  <2>1. {"install", "erase", "r_install", "r_erase"} \subseteq Pcs
    BY DEF Pcs, CommitPcs, RecoveryPcs
  <2>2. QED  BY <1>10, <2>1, InstallType DEF Install, RecoverInstall
<1>11. ASSUME NEW p \in Procs, Erase(p) PROVE TypeOK'
  BY <1>11 DEF Erase, Goto, Pcs, CommitPcs
<1>12. ASSUME NEW p \in Procs, EndCommit(p) PROVE TypeOK'
  <2>1. Wakeup([pc EXCEPT ![p] = "idle"]) \in [Procs -> Pcs]
    BY WakeupType DEF Pcs
  <2>2. QED  BY <1>12, <2>1 DEF EndCommit, diskVars
<1>13. ASSUME NEW b \in Blocks, Load(b) \/ Evict(b) PROVE TypeOK'
  BY <1>13 DEF Load, Evict, diskVars
<1>14. ASSUME NEW p \in Procs, Crash(p) PROVE TypeOK'
  <2>1. pc' \in [Procs -> Pcs]
    BY <1>14 DEF Crash, Pcs, RecoveryPcs
  <2>2. /\ cache' \in [Blocks -> Data \cup {NotCached}]
        /\ held' \in [Procs -> Blocks \cup {NoBlock}]
        /\ opblocks' \in [Procs -> SUBSET Blocks]
    BY <1>14 DEF Crash
  <2>3. lh' \in Seq(Blocks) /\ dirty' \in SUBSET Blocks
    BY <1>14 DEF Crash
  <2>4. QED  BY <1>14, <2>1, <2>2, <2>3 DEF Crash, diskVars
<1>15. ASSUME NEW p \in Procs, ReadHead(p) PROVE TypeOK'
  BY <1>15 DEF ReadHead, Goto, diskVars, Pcs, RecoveryPcs
<1>16. ASSUME NEW p \in Procs, RecoverErase(p) PROVE TypeOK'
  BY <1>16 DEF RecoverErase, Pcs
<1> HIDE DEF IInv, TypeOK
<1>17. ASSUME NEW p \in Procs, ProcStep(p) PROVE TypeOK'
  BY <1>17, <1>2, <1>3, <1>4, <1>5, <1>6, <1>7, <1>8, <1>8b, <1>9, <1>10, <1>11,
     <1>12, <1>15, <1>16 DEF ProcStep, CommitStep, RecoveryStep
<1>18. QED  BY <1>1, <1>13, <1>14, <1>17 DEF Next

(* Steps that move processes only inside, or only outside, begin_op/end_op *)
(* leave the calls in progress as they are.                                *)
LEMMA InOpSame ==
  ASSUME \A q \in Procs : pc'[q] \in OpPcs <=> pc[q] \in OpPcs
  PROVE  InOp' = InOp
BY DEF InOp

LEMMA WakeupFacts ==
  ASSUME TypeOK, NEW p \in Procs, pc' = Wakeup([pc EXCEPT ![p] = "idle"])
  PROVE  /\ pc'[p] = "idle"
         /\ \A q \in Procs : q # p =>
               pc'[q] = pc[q] \/ (pc[q] = "sleep" /\ pc'[q] = "begin")
         /\ InOp' = InOp \ {p}
<1>1. \A q \in Procs : pc'[q] = IF q = p THEN "idle"
                                ELSE IF pc[q] = "sleep" THEN "begin" ELSE pc[q]
  BY DEF TypeOK, Wakeup
<1>2. QED  BY <1>1 DEF InOp, OpPcs

(* outstanding counts the calls in progress after every step. *)
LEMMA CountedStep ==
  ASSUME IInv, [Next]_vars
  PROVE  Counted'
<1> USE DEF IInv
<1> SUFFICES outstanding' = Cardinality(InOp')
  BY DEF Counted
<1>0. outstanding = Cardinality(InOp) /\ TypeOK
  BY DEF Counted
<1>1. CASE UNCHANGED vars
  BY <1>0, <1>1 DEF vars, InOp
<1>2. ASSUME NEW p \in Procs, BeginOp(p) PROVE outstanding' = Cardinality(InOp')
  <2>1. InOp' = InOp \cup {p} /\ p \notin InOp
    BY <1>2 DEF BeginOp, Goto, InOp, OpPcs, TypeOK
  <2>2. QED  BY <1>0, <1>2, <2>1, InOpFinite, FS_AddElement DEF BeginOp
<1>3. ASSUME NEW p \in Procs,
             \/ BeginOpSleep(p) \/ LogWriteCheck(p) \/ LogWrite(p)
             \/ WriteLog(p) \/ WriteLogBeyond(p) \/ WriteHead(p)
             \/ Install(p) \/ Erase(p)
             \/ ReadHead(p) \/ RecoverInstall(p)
             \/ \E b \in Blocks, v \in Data : Modify(p, b, v)
      PROVE  outstanding' = Cardinality(InOp')
  <2>1. outstanding' = outstanding
    BY <1>3 DEF BeginOpSleep, LogWriteCheck, LogWrite, WriteLog, WriteLogBeyond,
       WriteHead, Install, Erase, ReadHead, RecoverInstall, InstallOne, Modify, memVars
  <2> SUFFICES \A q \in Procs : pc'[q] \in OpPcs <=> pc[q] \in OpPcs
    BY <1>0, <2>1, InOpSame
  <2> USE DEF Goto, OpPcs, TypeOK
  <2>4. CASE BeginOpSleep(p)
    BY <2>4 DEF BeginOpSleep
  <2>5. CASE LogWriteCheck(p)
    BY <2>5 DEF LogWriteCheck
  <2>6. CASE LogWrite(p)
    BY <2>6 DEF LogWrite
  <2>7. CASE WriteLog(p) \/ WriteLogBeyond(p)
    BY <2>7 DEF WriteLog, WriteLogBeyond
  <2>8. CASE WriteHead(p) \/ Erase(p)
    BY <2>8 DEF WriteHead, Erase
  <2>9. CASE Install(p)
    BY <2>9 DEF Install, InstallOne
  <2>10. CASE RecoverInstall(p)
    BY <2>10 DEF RecoverInstall, InstallOne
  <2>11. CASE ReadHead(p)
    BY <2>11 DEF ReadHead
  <2>12. CASE \E b \in Blocks, v \in Data : Modify(p, b, v)
    BY <2>12 DEF Modify
  <2>13. QED
    BY <1>3, <2>4, <2>5, <2>6, <2>7, <2>8, <2>9, <2>10, <2>11, <2>12
<1>4. ASSUME NEW p \in Procs, EndOp(p) PROVE outstanding' = Cardinality(InOp')
  <2>1. p \in InOp /\ ~committing
    BY <1>4 DEF EndOp, InOp, OpPcs, CommitAlone
  <2>2. InOp' = InOp \ {p}
    <3>1. CASE outstanding = 1
      BY <1>4, <2>1, <3>1 DEF EndOp, Goto, InOp, OpPcs, TypeOK
    <3>2. CASE outstanding # 1
      BY <1>4, <2>1, <3>2, WakeupFacts DEF EndOp
    <3>3. QED  BY <3>1, <3>2
  <2>3. QED  BY <1>0, <1>4, <2>1, <2>2, InOpFinite, FS_RemoveElement DEF EndOp
<1>5. ASSUME NEW p \in Procs, EndCommit(p) PROVE outstanding' = Cardinality(InOp')
  <2>1. InOp' = InOp \ {p} /\ p \notin InOp
    BY <1>5, WakeupFacts DEF EndCommit, InOp, OpPcs
  <2>2. QED  BY <1>0, <1>5, <2>1 DEF EndCommit
<1>6. ASSUME NEW b \in Blocks, Load(b) \/ Evict(b)
      PROVE  outstanding' = Cardinality(InOp')
  BY <1>0, <1>6 DEF Load, Evict, InOp
<1>7. ASSUME NEW p \in Procs, Crash(p) PROVE outstanding' = Cardinality(InOp')
  <2>1. InOp' = {}
    BY <1>7 DEF Crash, InOp, OpPcs
  <2>2. QED  BY <1>7, <2>1, FS_EmptySet DEF Crash
<1>8. ASSUME NEW p \in Procs, RecoverErase(p)
      PROVE  outstanding' = Cardinality(InOp')
  <2>1. InOp = {}
    BY <1>8 DEF RecoverErase, InOp, OpPcs, RecoverAlone, RecoveryPcs
  <2>2. InOp' = {}
    BY <1>8 DEF RecoverErase, InOp, OpPcs
  <2>3. QED  BY <1>0, <1>8, <2>1, <2>2 DEF RecoverErase
<1> HIDE DEF IInv
<1>9. ASSUME NEW p \in Procs, ProcStep(p) PROVE outstanding' = Cardinality(InOp')
  BY <1>9, <1>2, <1>3, <1>4, <1>5, <1>8 DEF ProcStep, CommitStep, RecoveryStep
<1>10. QED  BY <1>1, <1>6, <1>7, <1>9 DEF Next

(* Commit and recovery stay exclusive. *)
LEMMA AloneStep ==
  ASSUME IInv, [Next]_vars
  PROVE  CommitAlone' /\ RecoverAlone'
<1> DEFINE Goal == CommitAlone' /\ RecoverAlone'
<1> USE DEF IInv, CommitAlone, RecoverAlone, InOp, OpPcs, CommitPcs, RecoveryPcs,
            TypeOK, Goto
<1>1. CASE UNCHANGED vars
  BY <1>1 DEF vars
<1>2. ASSUME NEW p \in Procs, BeginOp(p) PROVE Goal
  BY <1>2 DEF BeginOp, MustWait
<1>3. ASSUME NEW p \in Procs, BeginOpSleep(p) PROVE Goal
  BY <1>3 DEF BeginOpSleep, memVars
<1>4. ASSUME NEW p \in Procs, NEW b \in Blocks, NEW v \in Data, Modify(p, b, v)
      PROVE  Goal
  BY <1>4 DEF Modify
<1>5. ASSUME NEW p \in Procs, LogWriteCheck(p) PROVE Goal
  BY <1>5 DEF LogWriteCheck, memVars
<1>6. ASSUME NEW p \in Procs, LogWrite(p) PROVE Goal
  BY <1>6 DEF LogWrite
<1>7. ASSUME NEW p \in Procs, EndOp(p) PROVE Goal
  <2>1. ~committing
    BY <1>7 DEF EndOp
  <2>2. CASE outstanding = 1
    <3>1. InOp' = {}
      <4>1. IsFiniteSet(InOp') /\ outstanding' = 0
        <5>1. InOp' \subseteq Procs  OBVIOUS
        <5>2. QED  BY <1>7, <2>2, <5>1, ProcsAssumption, FS_Subset DEF EndOp
      <4>2. outstanding' = Cardinality(InOp')
        BY CountedStep DEF Counted
      <4>3. QED  BY <4>1, <4>2, FS_EmptySet
    <3>2. QED  BY <1>7, <2>1, <2>2, <3>1 DEF EndOp
  <2>3. CASE outstanding # 1
    <3>1. /\ pc'[p] = "idle" /\ UNCHANGED committing
          /\ \A q \in Procs : q # p =>
                pc'[q] = pc[q] \/ (pc[q] = "sleep" /\ pc'[q] = "begin")
      BY <1>7, <2>1, <2>3, WakeupFacts DEF EndOp
    <3>2. QED  BY <1>7, <2>1, <3>1 DEF EndOp
  <2>4. QED  BY <2>2, <2>3
<1>8. ASSUME NEW p \in Procs, WriteLog(p) PROVE Goal
  BY <1>8 DEF WriteLog
<1>8b. ASSUME NEW p \in Procs, WriteLogBeyond(p) PROVE Goal
  BY <1>8b DEF WriteLogBeyond, memVars, diskVars
<1>9. ASSUME NEW p \in Procs, WriteHead(p) PROVE Goal
  BY <1>9 DEF WriteHead
<1>10. ASSUME NEW p \in Procs, Install(p) PROVE Goal
  BY <1>10 DEF Install, InstallOne
<1>11. ASSUME NEW p \in Procs, Erase(p) PROVE Goal
  BY <1>11 DEF Erase
<1>12. ASSUME NEW p \in Procs, EndCommit(p) PROVE Goal
  <2>1. /\ pc'[p] = "idle" /\ committing' = FALSE
        /\ \A q \in Procs : q # p =>
              pc'[q] = pc[q] \/ (pc[q] = "sleep" /\ pc'[q] = "begin")
    BY <1>12, WakeupFacts DEF EndCommit
  <2>2. QED  BY <1>12, <2>1 DEF EndCommit
<1>13. ASSUME NEW b \in Blocks, Load(b) \/ Evict(b) PROVE Goal
  BY <1>13 DEF Load, Evict
<1>14. ASSUME NEW p \in Procs, Crash(p) PROVE Goal
  BY <1>14 DEF Crash
<1>15. ASSUME NEW p \in Procs, ReadHead(p) PROVE Goal
  BY <1>15 DEF ReadHead
<1>16. ASSUME NEW p \in Procs, RecoverInstall(p) PROVE Goal
  BY <1>16 DEF RecoverInstall, InstallOne
<1>17. ASSUME NEW p \in Procs, RecoverErase(p) PROVE Goal
  BY <1>17 DEF RecoverErase
<1> HIDE DEF IInv, CommitAlone, RecoverAlone, InOp, OpPcs, CommitPcs,
             RecoveryPcs, TypeOK, Goto
<1>18. ASSUME NEW p \in Procs, ProcStep(p) PROVE Goal
  BY <1>18, <1>2, <1>3, <1>4, <1>5, <1>6, <1>7, <1>8, <1>8b, <1>9, <1>10, <1>11,
     <1>12, <1>15, <1>16, <1>17 DEF ProcStep, CommitStep, RecoveryStep
<1>19. QED  BY <1>1, <1>13, <1>14, <1>18 DEF Next

LEMMA OccursAppend ==
  ASSUME NEW s \in Seq(Blocks), NEW b \in Blocks, NEW c
  PROVE  Occurs(c, Append(s, b)) <=> Occurs(c, s) \/ c = b
<1>1. /\ Len(s) \in Nat /\ Len(Append(s, b)) = Len(s) + 1
      /\ Append(s, b)[Len(s) + 1] = b
      /\ \A i \in 1..Len(s) : Append(s, b)[i] = s[i]
  OBVIOUS
<1>2. 1..(Len(s) + 1) = 1..Len(s) \cup {Len(s) + 1}
  BY <1>1
<1>3. QED  BY <1>1, <1>2 DEF Occurs

(* Buffer locks are taken and released with the program counter, and the   *)
(* copying loops stay inside the transaction.                              *)
LEMMA HeldTailStep ==
  ASSUME IInv, [Next]_vars
  PROVE  HeldInv' /\ TailInv'
<1> DEFINE Goal == HeldInv' /\ TailInv'
<1> USE DEF IInv, CommitAlone, RecoverAlone, CommitPcs, RecoveryPcs, OpPcs,
            TypeOK, Goto, HeldInv, TailInv, InOp, diskVars
<1>1. CASE UNCHANGED vars
  BY <1>1 DEF vars
<1>2. ASSUME NEW p \in Procs, BeginOp(p) PROVE Goal
  BY <1>2 DEF BeginOp
<1>3. ASSUME NEW p \in Procs, BeginOpSleep(p) PROVE Goal
  BY <1>3 DEF BeginOpSleep, memVars
<1>4. ASSUME NEW p \in Procs, NEW b \in Blocks, NEW v \in Data, Modify(p, b, v)
      PROVE  Goal
  BY <1>4, DataAssumption DEF Modify
<1>5. ASSUME NEW p \in Procs, LogWriteCheck(p) PROVE Goal
  BY <1>5 DEF LogWriteCheck, memVars
<1>6. ASSUME NEW p \in Procs, LogWrite(p) PROVE Goal
  <2>1. HeldInv'  BY <1>6 DEF LogWrite
  <2>2. TailInv'  BY <1>6 DEF LogWrite
  <2>3. QED  BY <2>1, <2>2
<1>7. ASSUME NEW p \in Procs, EndOp(p) PROVE Goal
  <2>1. ~committing
    BY <1>7 DEF EndOp
  <2>2. CASE outstanding = 1
    BY <1>7, <2>1, <2>2 DEF EndOp
  <2>3. CASE outstanding # 1
    <3>1. /\ pc'[p] = "idle" /\ UNCHANGED tail
          /\ \A q \in Procs : q # p =>
                pc'[q] = pc[q] \/ (pc[q] = "sleep" /\ pc'[q] = "begin")
      BY <1>7, <2>1, <2>3, WakeupFacts DEF EndOp
    <3>2. pc[p] = "op" /\ UNCHANGED <<held, lh, dhead>>  BY <1>7 DEF EndOp
    <3>3. HeldInv'  BY <3>1, <3>2
    <3>4. TailInv'  BY <3>1, <3>2
    <3>5. QED  BY <3>3, <3>4
  <2>4. QED  BY <2>2, <2>3
<1>8. ASSUME NEW p \in Procs, WriteLog(p) PROVE Goal
  BY <1>8 DEF WriteLog
<1>8b. ASSUME NEW p \in Procs, WriteLogBeyond(p) PROVE Goal
  BY <1>8b DEF WriteLogBeyond, memVars, diskVars
<1>9. ASSUME NEW p \in Procs, WriteHead(p) PROVE Goal
  BY <1>9 DEF WriteHead
<1>10. ASSUME NEW p \in Procs, Install(p) PROVE Goal
  BY <1>10 DEF Install, InstallOne
<1>11. ASSUME NEW p \in Procs, Erase(p) PROVE Goal
  BY <1>11, SizeAssumption DEF Erase
<1>12. ASSUME NEW p \in Procs, EndCommit(p) PROVE Goal
  <2>1. /\ pc'[p] = "idle"
        /\ \A q \in Procs : q # p =>
              pc'[q] = pc[q] \/ (pc[q] = "sleep" /\ pc'[q] = "begin")
    BY <1>12, WakeupFacts DEF EndCommit
  <2>2. pc[p] = "committed" /\ UNCHANGED <<held, lh, tail, dhead>>  BY <1>12 DEF EndCommit
  <2>3. HeldInv'  BY <2>1, <2>2
  <2>4. TailInv'  BY <2>1, <2>2
  <2>5. QED  BY <2>3, <2>4
<1>13. ASSUME NEW b \in Blocks, Load(b) \/ Evict(b) PROVE Goal
  BY <1>13 DEF Load, Evict
<1>14. ASSUME NEW p \in Procs, Crash(p) PROVE Goal
  BY <1>14 DEF Crash
<1>15. ASSUME NEW p \in Procs, ReadHead(p) PROVE Goal
  BY <1>15 DEF ReadHead
<1>16. ASSUME NEW p \in Procs, RecoverInstall(p) PROVE Goal
  BY <1>16 DEF RecoverInstall, InstallOne
<1>17. ASSUME NEW p \in Procs, RecoverErase(p) PROVE Goal
  BY <1>17, SizeAssumption DEF RecoverErase
<1> HIDE DEF IInv, CommitAlone, RecoverAlone, CommitPcs, RecoveryPcs, OpPcs,
             TypeOK, Goto, HeldInv, TailInv, InOp, diskVars
<1>18. ASSUME NEW p \in Procs, ProcStep(p) PROVE Goal
  BY <1>18, <1>2, <1>3, <1>4, <1>5, <1>6, <1>7, <1>8, <1>8b, <1>9, <1>10, <1>11,
     <1>12, <1>15, <1>16, <1>17 DEF ProcStep, CommitStep, RecoveryStep
<1>19. QED  BY <1>1, <1>13, <1>14, <1>18 DEF Next

(* Steps outside the reservation argument. *)
LEMMA CapFrame ==
  ASSUME IInv, InOp' = InOp, UNCHANGED <<lh, dhead, opblocks, held, outstanding>>
  PROVE  OpBlocksInv' /\ Capacity'
<1>1. Logged' = Logged
  BY DEF Logged, Occurs
<1>2. OpBlocksInv'
  BY DEF IInv, OpBlocksInv, Occurs
<1>3. QED  BY <1>1, <1>2 DEF IInv, Capacity

LEMMA CapIdle ==
  ASSUME InOp' = {}, outstanding' = 0, Len(lh') \in Nat, Len(lh') <= LOGSIZE,
         Len(dhead') <= LOGSIZE
  PROVE  OpBlocksInv' /\ Capacity'
<1>1. Logged' = {}
  BY DEF Logged
<1>2. Cardinality(Logged') = 0
  BY <1>1, FS_EmptySet
<1>3. OpBlocksInv'
  BY DEF OpBlocksInv
<1>4. QED  BY <1>2, <1>3, SizeAssumption DEF Capacity

(* begin_op reserves MAXOPBLOCKS; nothing of it is used yet. *)
LEMMA CapBegin ==
  ASSUME IInv, NEW p \in Procs, BeginOp(p)
  PROVE  OpBlocksInv' /\ Capacity'
<1>1. /\ InOp' = InOp \cup {p} /\ p \notin InOp
      /\ opblocks'[p] = {} /\ \A q \in InOp : opblocks'[q] = opblocks[q]
      /\ held[p] = NoBlock
  BY DEF BeginOp, Goto, InOp, OpPcs, IInv, TypeOK, HeldInv
<1>2. OpBlocksInv'
  <2>1. ASSUME NEW q \in InOp' PROVE OpBlocksInv!(q)'
    <3>1. CASE q = p
      BY <1>1, <3>1, FS_EmptySet, SizeAssumption DEF BeginOp
    <3>2. CASE q # p
      <4>1. q \in InOp /\ opblocks'[q] = opblocks[q]
        BY <1>1, <2>1, <3>2
      <4>2. QED  BY <4>1 DEF IInv, OpBlocksInv, BeginOp, Occurs
    <3>3. QED  BY <3>1, <3>2
  <2>2. QED  BY <2>1 DEF OpBlocksInv
<1>3. Logged' = Logged
  <2>1. ASSUME NEW q \in InOp', NEW b \in Blocks
        PROVE  <<q, b>> \in Logged' <=> <<q, b>> \in Logged
    BY <1>1, <2>1 DEF Logged, Occurs, BeginOp
  <2>2. QED  BY <1>1, <2>1 DEF Logged
<1>4. Cardinality(Logged) \in Nat
  BY LoggedBound DEF IInv
<1>5. Len(lh) + (outstanding + 1) * MAXOPBLOCKS <= LOGSIZE
  BY SizeAssumption DEF BeginOp, MustWait, IInv, TypeOK
<1> HIDE DEF Logged
<1>6. UNCHANGED <<lh, dhead>> /\ outstanding' = outstanding + 1
  BY DEF BeginOp, diskVars
<1>7. Len(lh) + (outstanding + 1) * MAXOPBLOCKS <= LOGSIZE + Cardinality(Logged)
  <2> DEFINE x == Len(lh) + (outstanding + 1) * MAXOPBLOCKS
  <2>1. x <= LOGSIZE /\ x \in Nat /\ LOGSIZE \in Nat
    BY <1>5, Reserved DEF IInv
  <2> HIDE DEF x
  <2>2. x <= LOGSIZE + Cardinality(Logged)  BY <1>4, <2>1
  <2>3. QED  BY <2>2 DEF x
<1>8. QED  BY <1>2, <1>3, <1>6, <1>7 DEF Capacity, IInv

(* A block a call touches for the first time only adds to what it used. *)
LEMMA CapModify ==
  ASSUME IInv, NEW p \in Procs, NEW b \in Blocks, NEW v \in Data, Modify(p, b, v)
  PROVE  OpBlocksInv' /\ Capacity'
<1>1. /\ InOp' = InOp /\ p \in InOp
      /\ opblocks'[p] = opblocks[p] \cup {b}
      /\ \A q \in InOp : q # p => opblocks'[q] = opblocks[q] /\ held'[q] = held[q]
      /\ held'[p] = b /\ held[p] = NoBlock /\ lh' = lh
  BY DEF Modify, Goto, InOp, OpPcs, IInv, TypeOK, HeldInv
<1>2. OpBlocksInv'
  <2>1. ASSUME NEW q \in InOp' PROVE OpBlocksInv!(q)'
    <3>1. CASE q = p
      <4>1. IsFiniteSet(opblocks'[p]) /\ Cardinality(opblocks'[p]) <= MAXOPBLOCKS
        <5>1. IsFiniteSet(opblocks[p])
          BY <1>1 DEF IInv, OpBlocksInv
        <5>2. IsFiniteSet(opblocks[p] \cup {b})
          BY <5>1, FS_AddElement
        <5>3. QED  BY <1>1, <5>2 DEF Modify
      <4>2. \A c \in opblocks'[p] : Occurs(c, lh') \/ held'[p] = c
        BY <1>1, DataAssumption DEF IInv, OpBlocksInv, TypeOK
      <4>3. QED  BY <1>1, <3>1, <4>1, <4>2
    <3>2. CASE q # p
      <4>1. q \in InOp /\ opblocks'[q] = opblocks[q] /\ held'[q] = held[q]
        BY <1>1, <2>1, <3>2
      <4>2. QED  BY <1>1, <4>1 DEF IInv, OpBlocksInv
    <3>3. QED  BY <3>1, <3>2
  <2>2. QED  BY <2>1 DEF OpBlocksInv
<1>3. Logged \subseteq Logged'
  BY <1>1 DEF Logged
<1>4. IsFiniteSet(Logged') /\ Cardinality(Logged) <= Cardinality(Logged')
  <2>1. Logged' \subseteq Logged \cup {<<p, b>>}
    BY <1>1 DEF Logged
  <2>2. IsFiniteSet(Logged \cup {<<p, b>>})
    BY LoggedBound, FS_AddElement DEF IInv
  <2>3. IsFiniteSet(Logged')
    BY <2>1, <2>2, FS_Subset
  <2>4. QED  BY <1>3, <2>3, FS_Subset
<1>5. Cardinality(Logged) \in Nat /\ Cardinality(Logged') \in Nat
  BY <1>4, LoggedBound, FS_CardinalityType DEF IInv
<1> HIDE DEF Logged
<1>6. /\ Len(lh) + outstanding * MAXOPBLOCKS <= LOGSIZE + Cardinality(Logged)
      /\ Len(dhead) <= LOGSIZE
      /\ Len(lh) + outstanding * MAXOPBLOCKS \in Nat /\ LOGSIZE \in Nat
  BY Reserved DEF IInv, Capacity
<1>7. UNCHANGED <<lh, outstanding, dhead>>
  BY DEF Modify, diskVars
<1>8. Len(lh) + outstanding * MAXOPBLOCKS <= LOGSIZE + Cardinality(Logged')
  <2> DEFINE x == Len(lh) + outstanding * MAXOPBLOCKS
  <2>1. x <= LOGSIZE + Cardinality(Logged) /\ x \in Nat  BY <1>6
  <2> HIDE DEF x
  <2>2. x <= LOGSIZE + Cardinality(Logged')  BY <1>4, <1>5, <1>6, <2>1
  <2>3. QED  BY <2>2 DEF x
<1>9. QED  BY <1>2, <1>6, <1>7, <1>8 DEF Capacity

(* log_write turns one reserved block of its own call into a logged one. *)
LEMMA CapLogWrite ==
  ASSUME IInv, NEW p \in Procs, LogWrite(p)
  PROVE  OpBlocksInv' /\ Capacity'
<1> DEFINE b == held[p]
<1>1. /\ InOp' = InOp /\ p \in InOp /\ b \in Blocks
      /\ \A q \in InOp : q # p => held'[q] = held[q] /\ held[q] # b
      /\ held'[p] = NoBlock
      /\ UNCHANGED <<opblocks, outstanding, dhead>>
  BY DEF LogWrite, Goto, InOp, OpPcs, IInv, TypeOK, HeldInv, diskVars
<1>2. lh \in Seq(Blocks) /\ b \in opblocks[p]
  BY <1>1, DataAssumption DEF IInv, TypeOK, OpBlocksInv
<1>3. \A c : Occurs(c, lh') <=> Occurs(c, lh) \/ c = b
  <2>1. CASE Occurs(b, lh)
    BY <2>1 DEF LogWrite
  <2>2. CASE ~Occurs(b, lh)
    BY <1>1, <1>2, <2>2, OccursAppend DEF LogWrite
  <2>3. QED  BY <2>1, <2>2
<1>4. OpBlocksInv'
  <2>1. ASSUME NEW q \in InOp' PROVE OpBlocksInv!(q)'
    <3>1. /\ IsFiniteSet(opblocks[q]) /\ Cardinality(opblocks[q]) <= MAXOPBLOCKS
          /\ held[q] # NoBlock => held[q] \in opblocks[q]
          /\ \A c \in opblocks[q] : Occurs(c, lh) \/ held[q] = c
      BY <1>1, <2>1 DEF IInv, OpBlocksInv
    <3>2. QED  BY <1>1, <1>3, <3>1
  <2>2. QED  BY <2>1 DEF OpBlocksInv
<1>5. IsFiniteSet(Logged) /\ Cardinality(Logged) \in Nat
  BY LoggedBound DEF IInv
<1>6. CASE Occurs(b, lh)
  <2>1. lh' = lh  BY <1>6 DEF LogWrite
  <2>2. Logged' = Logged  BY <1>1, <2>1 DEF Logged
  <2>3. QED  BY <1>1, <1>4, <2>1, <2>2 DEF Capacity, IInv
<1>7. CASE ~Occurs(b, lh)
  <2>1. Logged' = Logged \cup {<<p, b>>}
    <3>1. ASSUME NEW q \in InOp, NEW c \in Blocks
          PROVE  <<q, c>> \in Logged' <=> <<q, c>> \in Logged \/ (q = p /\ c = b)
      <4>1. \A d \in opblocks[q] : Occurs(d, lh) \/ held[q] = d
        BY <3>1 DEF IInv, OpBlocksInv
      <4>2. <<q, c>> \in Logged' <=> c \in opblocks[q] /\ (Occurs(c, lh) \/ c = b)
        BY <1>1, <1>3, <3>1 DEF Logged
      <4>3. <<q, c>> \in Logged <=> c \in opblocks[q] /\ Occurs(c, lh)
        BY <3>1 DEF Logged
      <4>4. QED  BY <1>1, <1>2, <1>7, <4>1, <4>2, <4>3
    <3>2. Logged \subseteq InOp \X Blocks /\ Logged' \subseteq InOp \X Blocks
      BY <1>1 DEF Logged
    <3>3. QED  BY <1>1, <3>1, <3>2
  <2>2. <<p, b>> \notin Logged
    BY <1>7 DEF Logged
  <2>3. Cardinality(Logged') = Cardinality(Logged) + 1
    BY <1>5, <2>1, <2>2, FS_AddElement
  <2>4. Len(lh') = Len(lh) + 1
    BY <1>1, <1>2, <1>7 DEF LogWrite
  <2> DEFINE m == outstanding * MAXOPBLOCKS
             u == Cardinality(Logged)
  <2>5. /\ Len(lh) + m <= LOGSIZE + u /\ Len(dhead) <= LOGSIZE
        /\ m \in Nat /\ u \in Nat /\ Len(lh) \in Nat /\ LOGSIZE \in Nat
    BY <1>5, Reserved DEF IInv, Capacity
  <2> HIDE DEF m, u
  <2>6. (Len(lh) + 1) + m <= LOGSIZE + (u + 1)
    BY <2>5
  <2>7. QED  BY <1>1, <1>4, <2>3, <2>4, <2>5, <2>6 DEF Capacity, m, u
<1>8. QED  BY <1>6, <1>7

(* end_op gives the reservation back, and no more than it. *)
LEMMA CapEndOp ==
  ASSUME IInv, NEW p \in Procs, p \in InOp, InOp' = InOp \ {p},
         outstanding' = outstanding - 1,
         opblocks' = [opblocks EXCEPT ![p] = {}], UNCHANGED <<lh, dhead, held>>
  PROVE  OpBlocksInv' /\ Capacity'
<1>0. \A q \in InOp' : opblocks'[q] = opblocks[q]
  BY DEF IInv, TypeOK
<1> DEFINE X == {c \in Blocks : c \in opblocks[p] /\ Occurs(c, lh)}
<1>1. OpBlocksInv'
  BY <1>0 DEF IInv, OpBlocksInv
<1>2. Logged = Logged' \cup ({p} \X X)
  BY <1>0 DEF Logged
<1>3. IsFiniteSet(X) /\ Cardinality(X) <= MAXOPBLOCKS /\ Cardinality(X) \in Nat
  <2>1. /\ IsFiniteSet(opblocks[p]) /\ Cardinality(opblocks[p]) <= MAXOPBLOCKS
        /\ X \subseteq opblocks[p]
    BY DEF IInv, OpBlocksInv
  <2>2. IsFiniteSet(X) /\ Cardinality(X) <= Cardinality(opblocks[p])
    BY <2>1, FS_Subset
  <2>3. QED  BY <2>1, <2>2, FS_CardinalityType, SizeAssumption
<1>4. IsFiniteSet({p} \X X) /\ Cardinality({p} \X X) = Cardinality(X)
  <2>1. IsFiniteSet({p}) /\ Cardinality({p}) = 1
    BY FS_Singleton
  <2>2. IsFiniteSet({p} \X X) /\ Cardinality({p} \X X) = 1 * Cardinality(X)
    BY <1>3, <2>1, FS_Product
  <2>3. QED  BY <1>3, <2>2
<1>5. IsFiniteSet(Logged) /\ Cardinality(Logged) \in Nat
  BY LoggedBound DEF IInv
<1>6. IsFiniteSet(Logged') /\ Cardinality(Logged') \in Nat
  BY <1>2, <1>5, FS_Subset, FS_CardinalityType
<1>7. Cardinality(Logged) <= Cardinality(Logged') + Cardinality(X)
  <2>1. IsFiniteSet(Logged' \cap ({p} \X X))
    BY <1>6, FS_Subset
  <2>2. Cardinality(Logged' \cap ({p} \X X)) \in Nat
    BY <2>1, FS_CardinalityType
  <2>3. Cardinality(Logged' \cup ({p} \X X)) =
          Cardinality(Logged') + Cardinality({p} \X X)
            - Cardinality(Logged' \cap ({p} \X X))
    BY <1>4, <1>6, FS_Union
  <2>4. QED  BY <1>2, <1>3, <1>4, <1>6, <2>2, <2>3
<1>8. outstanding \in Nat /\ outstanding # 0
  <2>1. Cardinality(InOp) # 0  BY InOpFinite, FS_EmptySet
  <2>2. QED  BY <2>1 DEF IInv, TypeOK, Counted
<1> DEFINE k == outstanding - 1
           m == k * MAXOPBLOCKS
           u == Cardinality(Logged)
           w == Cardinality(Logged')
           x == Cardinality(X)
<1>9. /\ k \in Nat /\ outstanding = k + 1
      /\ m \in Nat /\ (k + 1) * MAXOPBLOCKS = m + MAXOPBLOCKS
  <2>1. k \in Nat /\ outstanding = k + 1  BY <1>8
  <2> HIDE DEF k
  <2>2. QED  BY <2>1, Product, SizeAssumption
<1>10. /\ Len(lh) + (m + MAXOPBLOCKS) <= LOGSIZE + u /\ Len(dhead) <= LOGSIZE
       /\ Len(lh) \in Nat /\ LOGSIZE \in Nat /\ MAXOPBLOCKS \in Nat
  BY <1>9, Reserved, SizeAssumption DEF IInv, Capacity
<1>11. u \in Nat /\ w \in Nat /\ x \in Nat /\ u <= w + x /\ x <= MAXOPBLOCKS
  BY <1>3, <1>5, <1>6, <1>7
<1> HIDE DEF m, u, w, x, k, X
<1>12. Len(lh) + m <= LOGSIZE + w
  BY <1>9, <1>10, <1>11
<1>13. QED
  BY <1>1, <1>10, <1>12 DEF Capacity, m, w, k

LEMMA CapStep ==
  ASSUME IInv, [Next]_vars
  PROVE  OpBlocksInv' /\ Capacity'
<1> DEFINE Goal == OpBlocksInv' /\ Capacity'
<1>0. TypeOK /\ outstanding \in Nat /\ Len(lh) \in Nat /\ Len(lh) <= LOGSIZE
      /\ Len(dhead) <= LOGSIZE /\ Len(dhead) \in Nat
  BY LhFits DEF IInv, TypeOK, Capacity
<1>1. CASE UNCHANGED vars
  <2>1. InOp' = InOp  BY <1>1 DEF vars, InOp
  <2>2. QED  BY <1>1, <2>1, CapFrame DEF vars
<1>2. ASSUME NEW p \in Procs,
             \/ BeginOpSleep(p) \/ LogWriteCheck(p)
             \/ WriteLog(p) \/ WriteLogBeyond(p) \/ Install(p) \/ RecoverInstall(p)
      PROVE  Goal
  <2>1. \A q \in Procs : pc'[q] \in OpPcs <=> pc[q] \in OpPcs
    <3> USE DEF Goto, OpPcs, TypeOK
    <3>1. CASE BeginOpSleep(p)    BY <1>0, <3>1 DEF BeginOpSleep
    <3>2. CASE LogWriteCheck(p)   BY <1>0, <3>2 DEF LogWriteCheck
    <3>3. CASE WriteLog(p) \/ WriteLogBeyond(p)
      BY <1>0, <3>3 DEF WriteLog, WriteLogBeyond
    <3>4. CASE Install(p)         BY <1>0, <3>4 DEF Install, InstallOne
    <3>5. CASE RecoverInstall(p)  BY <1>0, <3>5 DEF RecoverInstall, InstallOne
    <3>6. QED  BY <1>2, <3>1, <3>2, <3>3, <3>4, <3>5
  <2>2. UNCHANGED <<lh, dhead, opblocks, held, outstanding>>
    BY <1>2 DEF BeginOpSleep, LogWriteCheck, WriteLog, WriteLogBeyond, Install,
       RecoverInstall, InstallOne, memVars, diskVars
  <2>3. QED  BY <2>1, <2>2, InOpSame, CapFrame
<1>3. ASSUME NEW b \in Blocks, Load(b) \/ Evict(b) PROVE Goal
  <2>1. /\ InOp' = InOp
        /\ UNCHANGED <<lh, dhead, opblocks, held, outstanding>>
    BY <1>3 DEF Load, Evict, InOp, diskVars
  <2>2. QED  BY <2>1, CapFrame
<1>4. ASSUME NEW p \in Procs, BeginOp(p) PROVE Goal
  BY <1>4, CapBegin
<1>5. ASSUME NEW p \in Procs, NEW b \in Blocks, NEW v \in Data, Modify(p, b, v)
      PROVE  Goal
  BY <1>5, CapModify
<1>6. ASSUME NEW p \in Procs, LogWrite(p) PROVE Goal
  BY <1>6, CapLogWrite
<1>7. ASSUME NEW p \in Procs, EndOp(p) PROVE Goal
  <2>1. p \in InOp /\ ~committing
    BY <1>7 DEF EndOp, InOp, OpPcs, IInv, CommitAlone
  <2>2. InOp' = InOp \ {p}
    <3>1. CASE outstanding = 1
      BY <1>0, <1>7, <2>1, <3>1 DEF EndOp, Goto, InOp, OpPcs, TypeOK
    <3>2. CASE outstanding # 1
      BY <1>0, <1>7, <2>1, <3>2, WakeupFacts DEF EndOp
    <3>3. QED  BY <3>1, <3>2
  <2>3. /\ outstanding' = outstanding - 1 /\ UNCHANGED <<lh, dhead, held>>
        /\ opblocks' = [opblocks EXCEPT ![p] = {}]
    BY <1>7 DEF EndOp, diskVars
  <2>4. QED  BY <2>1, <2>2, <2>3, CapEndOp
<1>8. ASSUME NEW p \in Procs,
             \/ WriteHead(p) \/ Erase(p) \/ EndCommit(p)
             \/ ReadHead(p) \/ RecoverErase(p) \/ Crash(p)
      PROVE  Goal
  (* Steps of a committer or a recovery: no call is in progress. *)
  <2>1. InOp' = {} /\ outstanding' = 0
    <3>1. outstanding' = Cardinality(InOp')
      BY CountedStep DEF Counted
    <3>2. InOp' = {}
      <4>1. CASE Crash(p)  BY <4>1 DEF Crash, InOp, OpPcs
      <4>2. CASE RecoverErase(p)  BY <4>2 DEF RecoverErase, InOp, OpPcs
      <4>3. CASE WriteHead(p) \/ Erase(p) \/ EndCommit(p)
        <5>1. pc[p] \in CommitPcs
          BY <4>3 DEF WriteHead, Erase, EndCommit, CommitPcs
        <5>2. InOp = {}
          BY <5>1 DEF IInv, CommitAlone
        <5>3. CASE EndCommit(p)
          BY <1>0, <5>2, <5>3, WakeupFacts DEF EndCommit
        <5>4. CASE WriteHead(p) \/ Erase(p)
          BY <1>0, <5>2, <5>4 DEF WriteHead, Erase, Goto, InOp, OpPcs, TypeOK
        <5>5. QED  BY <4>3, <5>3, <5>4
      <4>4. CASE ReadHead(p)
        BY <1>0, <4>4 DEF ReadHead, Goto, InOp, OpPcs, TypeOK, IInv, RecoverAlone,
           RecoveryPcs
      <4>5. QED  BY <1>8, <4>1, <4>2, <4>3, <4>4
    <3>3. QED  BY <3>1, <3>2, FS_EmptySet
  <2>2. /\ lh' \in {lh, dhead, <<>>} /\ dhead' \in {dhead, lh, <<>>}
    BY <1>8 DEF WriteHead, Erase, EndCommit, ReadHead, RecoverErase, Crash,
       diskVars, Goto
  <2>3. Len(lh') \in Nat /\ Len(lh') <= LOGSIZE /\ Len(dhead') <= LOGSIZE
    BY <1>0, <2>2, SizeAssumption
  <2>4. QED  BY <2>1, <2>3, CapIdle
<1>9. ASSUME NEW p \in Procs, ProcStep(p) PROVE Goal
  BY <1>9, <1>2, <1>4, <1>5, <1>6, <1>7, <1>8
     DEF ProcStep, CommitStep, RecoveryStep
<1>10. QED  BY <1>1, <1>3, <1>8, <1>9 DEF Next

LEMMA IInvInit == Init => IInv
<1> SUFFICES ASSUME Init PROVE IInv
  OBVIOUS
<1>1. TypeOK
  <2>1. pc \in [Procs -> Pcs]  BY DEF Init, Pcs
  <2>2. lh \in Seq(Blocks) /\ dhead \in Seq(Blocks) /\ dirty \in SUBSET Blocks
    BY DEF Init
  <2>3. /\ cache \in [Blocks -> Data \cup {NotCached}]
        /\ held \in [Procs -> Blocks \cup {NoBlock}]
        /\ opblocks \in [Procs -> SUBSET Blocks]
    BY DEF Init
  <2>4. committing \in BOOLEAN /\ panicked \in BOOLEAN
    BY DEF Init
  <2>5. QED  BY <2>1, <2>2, <2>3, <2>4 DEF Init, TypeOK
<1>2. InOp = {}
  BY DEF Init, InOp, OpPcs
<1>3. Counted
  BY <1>2, FS_EmptySet DEF Counted, Init
<1>4. CommitAlone /\ RecoverAlone /\ HeldInv /\ TailInv
  BY <1>2, SizeAssumption DEF Init, CommitAlone, RecoverAlone, HeldInv, TailInv,
     CommitPcs, RecoveryPcs
<1>5. OpBlocksInv
  BY <1>2 DEF OpBlocksInv
<1>6. Capacity
  <2>1. Logged = {}  BY <1>2 DEF Logged
  <2>2. Cardinality(Logged) = 0  BY <2>1, FS_EmptySet
  <2>3. QED  BY <2>2, SizeAssumption DEF Capacity, Init
<1>7. QED  BY <1>1, <1>3, <1>4, <1>5, <1>6 DEF IInv

(* The conjunction of all parts is an invariant of the log. *)
THEOREM LogInvariant == Spec => []IInv
<1>1. Init => IInv  BY IInvInit
<1>2. IInv /\ [Next]_vars => IInv'
  BY TypeStep, CountedStep, AloneStep, HeldTailStep, CapStep DEF IInv
<1>3. QED  BY <1>1, <1>2, PTL DEF Spec

(* Type correctness.  It is not inductive alone: that install_trans copies  *)
(* only from the log area needs to be known from the commit on.             *)
THEOREM TypeCorrect == Spec => []TypeOK
<1>1. IInv => TypeOK  BY DEF IInv
<1>2. QED  BY <1>1, LogInvariant, PTL

(* log.c's claim that the log only commits when no system call is active. *)
THEOREM CommitsAlone == Spec => []CommitExclusive
<1>1. IInv => CommitExclusive
  <2> SUFFICES ASSUME IInv PROVE CommitExclusive
    OBVIOUS
  <2>1. Committers # {} => InOp = {}
    BY DEF IInv, CommitAlone, Committers
  <2>2. Cardinality(Committers) <= 1
    <3>1. CASE Committers = {}
      BY <3>1, FS_EmptySet
    <3>2. CASE Committers # {}
      <4>1. PICK p : Committers = {p}
        BY <3>2 DEF IInv, CommitAlone, Committers
      <4>2. Cardinality({p}) = 1  BY FS_Singleton
      <4>3. QED  BY <4>1, <4>2
    <3>3. QED  BY <3>1, <3>2
  <2>3. QED  BY <2>1, <2>2 DEF CommitExclusive
<1>2. QED  BY <1>1, LogInvariant, PTL

(* begin_op's reservation leaves room for whatever the calls in progress    *)
(* may still log, so that no transaction outgrows log.lh.block, whatever    *)
(* the interleaving of the calls and although log_write makes its check     *)
(* without log.lock.                                                        *)
THEOREM TransactionsFit == Spec => []RoomReserved
<1>1. IInv => RoomReserved
  <2> SUFFICES ASSUME IInv PROVE RoomReserved
    OBVIOUS
  <2>1. Len(lh) + Cardinality(InOp) * MAXOPBLOCKS <= LOGSIZE + Cardinality(Logged)
    BY DEF IInv, Counted, Capacity
  <2>2. QED  BY <2>1, LhFits DEF RoomReserved
<1>2. QED  BY <1>1, LogInvariant, PTL

(***************************************************************************)
(* The log keeps its promise: Log implements AtomicDisk.  A crash at any   *)
(* point leaves what the last commit made durable, and everything that     *)
(* finished before the log became idle survives.                           *)
(***************************************************************************)

Distinct(s) == \A i, j \in 1 .. Len(s) : s[i] = s[j] => i = j

(* The header on disk: empty unless a transaction is being installed, and  *)
(* then the transaction in memory.  Once the last call and the committer   *)
(* are gone the transaction is empty.                                      *)
HeadInv ==
  /\ Distinct(lh) /\ Distinct(dhead)
  /\ \A p \in Procs :
       /\ pc[p] \in {"install", "erase", "r_install", "r_erase"} => dhead = lh
       /\ pc[p] \in {"read_head", "committed"} => lh = <<>>
  /\ (\A p \in Procs : pc[p] \notin {"install", "erase"} \cup RecoveryPcs) => dhead = <<>>
  /\ lh # <<>> /\ ~Recovering => InOp # {} \/ Committers # {}

(* A buffer that is neither dirty nor being modified holds what is on      *)
(* disk; one being modified is in the cache.                               *)
CleanInv ==
  /\ \A b \in Blocks :
       cache[b] # NotCached /\ b \notin dirty /\ (\A p \in Procs : held[p] # b)
         => cache[b] = disk[b]
  /\ \A p \in Procs : held[p] # NoBlock => cache[held[p]] # NotCached
  /\ Recovering => dirty = {}

(* How far the copying has come: into the log, and from there home. *)
CopyInv ==
  \A p \in Procs :
    /\ pc[p] = "write_log" => \A i \in 1 .. tail : dlog[i] = cache[lh[i]]
    /\ pc[p] = "write_head" => \A i \in 1 .. Len(lh) : dlog[i] = cache[lh[i]]
    /\ pc[p] = "install" =>
         \A i \in tail + 1 .. Len(lh) : lh[i] \in dirty /\ dlog[i] = cache[lh[i]]
    /\ pc[p] \in {"install", "r_install"} =>
         \A i \in 1 .. tail : lh[i] \notin dirty /\ disk[lh[i]] = dlog[i]
    /\ pc[p] \in {"erase", "r_erase"} =>
         \A i \in 1 .. Len(lh) : lh[i] \notin dirty /\ disk[lh[i]] = dlog[i]

CInv == HeadInv /\ CleanInv /\ Pinned /\ CopyInv

-------------------------------------------------------------------------------
(* Who else runs while p commits, recovers or is in a call. *)
LEMMA CommitterAlone ==
  ASSUME IInv, NEW p \in Procs, pc[p] \in CommitPcs
  PROVE  /\ InOp = {} /\ ~Recovering /\ \A q \in Procs : held[q] = NoBlock
         /\ \A q \in Procs \ {p} : pc[q] \notin CommitPcs \cup RecoveryPcs \cup OpPcs
<1>1. InOp = {}  BY DEF IInv, CommitAlone
<1>2. ASSUME NEW q \in Procs PROVE pc[q] \notin RecoveryPcs
  BY DEF IInv, RecoverAlone, RecoveryPcs, CommitPcs
<1>3. \A q \in Procs : held[q] = NoBlock
  BY <1>1 DEF IInv, HeldInv, InOp, OpPcs
<1>4. QED  BY <1>1, <1>2, <1>3 DEF IInv, CommitAlone, InOp, Recovering

LEMMA RecovererAlone ==
  ASSUME IInv, NEW p \in Procs, pc[p] \in RecoveryPcs
  PROVE  /\ InOp = {} /\ Committers = {} /\ Recovering /\ \A q \in Procs : held[q] = NoBlock
         /\ \A q \in Procs \ {p} : pc[q] = "off"
<1>1. \A q \in Procs \ {p} : pc[q] = "off"  BY DEF IInv, RecoverAlone
<1>2. InOp = {} /\ Committers = {} /\ Recovering
  BY <1>1 DEF InOp, Committers, Recovering, OpPcs, CommitPcs, RecoveryPcs
<1>3. QED  BY <1>1, <1>2 DEF IInv, HeldInv, InOp, OpPcs

LEMMA CallerRuns ==
  ASSUME IInv, NEW p \in Procs, pc[p] \in OpPcs
  PROVE  /\ Committers = {} /\ ~Recovering /\ ~committing
         /\ \A q \in Procs : pc[q] \notin CommitPcs \cup RecoveryPcs
<1>1. ~committing  BY DEF IInv, CommitAlone, InOp
<1>2. \A q \in Procs : pc[q] \notin CommitPcs  BY <1>1 DEF IInv, CommitAlone
<1>3. \A q \in Procs : pc[q] \notin RecoveryPcs
  BY DEF IInv, RecoverAlone, OpPcs, RecoveryPcs
<1>4. QED  BY <1>1, <1>2, <1>3 DEF Committers, Recovering

LEMMA DistinctAppend ==
  ASSUME NEW s \in Seq(Blocks), NEW b \in Blocks, Distinct(s), ~Occurs(b, s)
  PROVE  Distinct(Append(s, b))
<1>1. /\ Len(s) \in Nat /\ Len(Append(s, b)) = Len(s) + 1
      /\ Append(s, b)[Len(s) + 1] = b
      /\ \A i \in 1 .. Len(s) : Append(s, b)[i] = s[i]
  OBVIOUS
<1>2. 1 .. (Len(s) + 1) = (1 .. Len(s)) \cup {Len(s) + 1}
  BY <1>1
<1>3. QED  BY <1>1, <1>2 DEF Distinct, Occurs

(* Steps of processes outside commit and recovery. *)
LEMMA HeadFrame ==
  ASSUME CInv, UNCHANGED <<lh, dhead>>,
         \A q \in Procs : /\ pc'[q] \in OpPcs <=> pc[q] \in OpPcs
                          /\ pc'[q] \in CommitPcs \cup RecoveryPcs
                               \/ pc[q] \in CommitPcs \cup RecoveryPcs => pc'[q] = pc[q]
  PROVE  HeadInv'
<1>1. InOp' = InOp /\ Committers' = Committers /\ Recovering' = Recovering
  BY DEF InOp, Committers, Recovering
<1>2. QED  BY <1>1 DEF CInv, HeadInv, CommitPcs, RecoveryPcs

(* The header on disk and the one in memory after every step. *)
LEMMA HeadStep ==
  ASSUME IInv, CInv, [Next]_vars
  PROVE  HeadInv'
<1>0. TypeOK  BY DEF IInv
<1> USE DEF TypeOK
<1>1. CASE UNCHANGED vars
  BY <1>1, HeadFrame DEF vars
<1>2. ASSUME NEW p \in Procs, BeginOp(p) PROVE HeadInv'
  <2>1. /\ UNCHANGED <<lh, dhead>> /\ p \in InOp' /\ pc[p] \in {"idle", "begin"}
        /\ pc'[p] = "op" /\ \A q \in Procs \ {p} : pc'[q] = pc[q]
    BY <1>0, <1>2 DEF BeginOp, Goto, diskVars, InOp, OpPcs
  <2>2. QED  BY <2>1 DEF CInv, HeadInv, RecoveryPcs
<1>3. ASSUME NEW p \in Procs, BeginOpSleep(p) \/ LogWriteCheck(p) PROVE HeadInv'
  <2>1. CASE BeginOpSleep(p)
    BY <1>0, <2>1, HeadFrame DEF BeginOpSleep, Goto, diskVars, memVars, CommitPcs, RecoveryPcs, OpPcs
  <2>2. CASE LogWriteCheck(p)
    BY <1>0, <2>2, HeadFrame DEF LogWriteCheck, Goto, diskVars, memVars, CommitPcs, RecoveryPcs, OpPcs
  <2>3. QED  BY <1>3, <2>1, <2>2
<1>4. ASSUME NEW p \in Procs, NEW b \in Blocks, NEW v \in Data, Modify(p, b, v) PROVE HeadInv'
  BY <1>0, <1>4, HeadFrame DEF Modify, Goto, diskVars, CommitPcs, RecoveryPcs, OpPcs
<1>5. ASSUME NEW p \in Procs, LogWrite(p) PROVE HeadInv'
  <2>1. /\ dhead' = dhead /\ p \in InOp' /\ pc[p] \in OpPcs
        /\ pc'[p] = "op" /\ \A q \in Procs \ {p} : pc'[q] = pc[q]
    BY <1>0, <1>5 DEF LogWrite, Goto, diskVars, InOp, OpPcs
  <2>2. \A q \in Procs : pc[q] \notin CommitPcs \cup RecoveryPcs
    BY <2>1, CallerRuns
  <2>3. \A q \in Procs : pc'[q] \notin CommitPcs \cup RecoveryPcs
    BY <2>1, <2>2 DEF CommitPcs, RecoveryPcs
  <2>4. held[p] \in Blocks
    BY <1>0, <1>5 DEF LogWrite, IInv, HeldInv
  <2>5. Distinct(lh')
    BY <1>0, <1>5, <2>4, DistinctAppend DEF LogWrite, CInv, HeadInv
  <2>6. QED  BY <2>1, <2>2, <2>3, <2>5 DEF CInv, HeadInv, CommitPcs, RecoveryPcs
<1>6. ASSUME NEW p \in Procs, EndOp(p) PROVE HeadInv'
  <2>1. /\ pc[p] = "op" /\ UNCHANGED <<lh, dhead>> /\ ~committing
        /\ \A q \in Procs : pc[q] \notin CommitPcs \cup RecoveryPcs
    BY <1>6, CallerRuns DEF EndOp, diskVars, OpPcs
  <2>2. dhead = <<>> /\ Distinct(lh)
    BY <2>1 DEF CInv, HeadInv, CommitPcs
  <2>3. CASE outstanding = 1
    <3>1. /\ pc'[p] = IF Len(lh) > 0 THEN "write_log" ELSE "committed"
          /\ \A q \in Procs \ {p} : pc'[q] = pc[q]
      BY <1>0, <1>6, <2>1, <2>3 DEF EndOp, Goto
    <3>2. p \in Committers'  BY <3>1 DEF Committers, CommitPcs
    <3>3. pc'[p] = "committed" => lh = <<>>  BY <1>0, <3>1
    <3>4. \A q \in Procs : pc'[q] \notin {"install", "erase", "read_head", "r_install", "r_erase"}
      BY <2>1, <3>1 DEF CommitPcs, RecoveryPcs
    <3>5. \A q \in Procs \ {p} : pc'[q] # "committed"
      BY <2>1, <3>1 DEF CommitPcs
    <3>6. QED  BY <2>1, <2>2, <3>2, <3>3, <3>4, <3>5 DEF HeadInv, Distinct
  <2>4. CASE outstanding # 1
    <3>1. /\ pc'[p] = "idle"
          /\ \A q \in Procs \ {p} : pc'[q] = pc[q] \/ (pc[q] = "sleep" /\ pc'[q] = "begin")
          /\ InOp' = InOp \ {p}
      BY <1>0, <1>6, <2>1, <2>4, WakeupFacts DEF EndOp
    <3>2. \A q \in Procs : pc'[q] \notin CommitPcs \cup RecoveryPcs
      BY <2>1, <3>1 DEF CommitPcs, RecoveryPcs
    <3>3. InOp' # {}
      <4>1. p \in InOp /\ Cardinality(InOp) # 1
        BY <2>1, <2>4 DEF InOp, OpPcs, IInv, Counted
      <4>2. InOp # {p}  BY <4>1, FS_Singleton
      <4>3. QED  BY <3>1, <4>1, <4>2
    <3>4. QED  BY <2>1, <2>2, <3>2, <3>3 DEF HeadInv, CommitPcs, RecoveryPcs, Distinct
  <2>5. QED  BY <2>3, <2>4
<1>7. ASSUME NEW p \in Procs,
             \/ WriteLog(p) \/ WriteLogBeyond(p) \/ WriteHead(p) \/ Install(p) \/ Erase(p)
      PROVE  HeadInv'
  <2>1. /\ pc[p] \in CommitPcs /\ \A q \in Procs \ {p} : pc'[q] = pc[q]
        /\ pc'[p] \in {"write_log", "overrun", "write_head", "install", "erase", "committed"}
    BY <1>0, <1>7 DEF WriteLog, WriteLogBeyond, WriteHead, Install, InstallOne, Erase, Goto, CommitPcs
  <2>2. \A q \in Procs \ {p} : pc[q] \notin CommitPcs \cup RecoveryPcs
    BY <2>1, CommitterAlone
  <2>3. p \in Committers'  BY <2>1 DEF Committers, CommitPcs
  <2>4. Distinct(lh) /\ Distinct(dhead)  BY DEF CInv, HeadInv
  <2>5. CASE WriteLog(p) \/ WriteLogBeyond(p)
    <3>1. /\ pc'[p] \in {"write_log", "overrun", "write_head"} /\ lh' = lh
          /\ dhead' = dhead /\ pc[p] = "write_log"
      BY <1>0, <2>5 DEF WriteLog, WriteLogBeyond, Goto, diskVars, memVars
    <3>2. dhead = <<>>
      BY <2>2, <3>1 DEF CInv, HeadInv, CommitPcs, RecoveryPcs
    <3>3. QED  BY <2>1, <2>2, <2>3, <2>4, <3>1, <3>2 DEF HeadInv, CommitPcs, RecoveryPcs, Distinct
  <2>6. CASE WriteHead(p)
    <3>1. pc'[p] = "install" /\ lh' = lh /\ dhead' = lh
      BY <1>0, <2>6 DEF WriteHead, Goto
    <3>2. QED  BY <2>1, <2>2, <2>3, <2>4, <3>1 DEF HeadInv, CommitPcs, RecoveryPcs, Distinct
  <2>7. CASE Install(p)
    <3>1. pc[p] = "install" /\ pc'[p] \in {"install", "erase"} /\ lh' = lh /\ dhead' = dhead
      BY <1>0, <2>7 DEF Install, InstallOne, Goto
    <3>2. dhead = lh  BY <3>1 DEF CInv, HeadInv
    <3>3. QED  BY <2>1, <2>2, <2>3, <2>4, <3>1, <3>2 DEF HeadInv, CommitPcs, RecoveryPcs, Distinct
  <2>8. CASE Erase(p)
    <3>1. pc'[p] = "committed" /\ lh' = <<>> /\ dhead' = <<>>
      BY <1>0, <2>8 DEF Erase, Goto
    <3>2. Distinct(lh') /\ Distinct(dhead')  BY <3>1 DEF Distinct
    <3>3. QED  BY <2>1, <2>2, <2>3, <3>1, <3>2 DEF HeadInv, CommitPcs, RecoveryPcs
  <2>9. QED  BY <1>7, <2>5, <2>6, <2>7, <2>8
<1>8. ASSUME NEW p \in Procs, EndCommit(p) PROVE HeadInv'
  <2>1. /\ pc[p] = "committed" /\ lh' = lh /\ dhead' = dhead /\ pc'[p] = "idle"
        /\ \A q \in Procs \ {p} : pc'[q] = pc[q] \/ (pc[q] = "sleep" /\ pc'[q] = "begin")
    BY <1>0, <1>8, WakeupFacts DEF EndCommit, diskVars
  <2>2. \A q \in Procs \ {p} : pc[q] \notin CommitPcs \cup RecoveryPcs
    BY <2>1, CommitterAlone DEF CommitPcs
  <2>3. \A q \in Procs : pc'[q] \notin CommitPcs \cup RecoveryPcs
    BY <2>1, <2>2 DEF CommitPcs, RecoveryPcs
  <2>4. lh = <<>> /\ dhead = <<>> /\ Distinct(lh) /\ Distinct(dhead)
    BY <2>1, <2>2 DEF CInv, HeadInv, CommitPcs, RecoveryPcs
  <2>5. QED  BY <2>1, <2>3, <2>4 DEF HeadInv, CommitPcs, RecoveryPcs, Distinct
<1>9. ASSUME NEW b \in Blocks, Load(b) \/ Evict(b) PROVE HeadInv'
  BY <1>9, HeadFrame DEF Load, Evict, diskVars
<1>10. ASSUME NEW p \in Procs, Crash(p) PROVE HeadInv'
  <2>1. /\ lh' = <<>> /\ dhead' = dhead /\ Distinct(dhead)
        /\ pc'[p] = "read_head" /\ \A q \in Procs \ {p} : pc'[q] = "off"
    BY <1>10 DEF Crash, diskVars, CInv, HeadInv
  <2>2. Recovering'  BY <2>1 DEF Recovering, RecoveryPcs
  <2>3. Distinct(lh')  BY <2>1 DEF Distinct
  <2>4. QED  BY <2>1, <2>2, <2>3 DEF HeadInv, RecoveryPcs
<1>11. ASSUME NEW p \in Procs, ReadHead(p) \/ RecoverInstall(p) \/ RecoverErase(p)
       PROVE  HeadInv'
  <2>1. pc[p] \in RecoveryPcs
    BY <1>11 DEF ReadHead, RecoverInstall, InstallOne, RecoverErase, RecoveryPcs
  <2>2. \A q \in Procs \ {p} : pc[q] = "off"
    BY <2>1, RecovererAlone
  <2>3. CASE RecoverErase(p)
    <3>1. lh' = <<>> /\ dhead' = <<>> /\ \A q \in Procs : pc'[q] = "idle"
      BY <2>3 DEF RecoverErase
    <3>2. Distinct(lh') /\ Distinct(dhead')  BY <3>1 DEF Distinct
    <3>3. QED  BY <3>1, <3>2 DEF HeadInv
  <2>4. CASE ReadHead(p) \/ RecoverInstall(p)
    <3>1. /\ \A q \in Procs \ {p} : pc'[q] = pc[q]
          /\ pc'[p] \in {"r_install", "r_erase"}
      BY <1>0, <2>4 DEF ReadHead, RecoverInstall, InstallOne, Goto
    <3>2. lh' = dhead /\ dhead' = dhead
      BY <2>4 DEF ReadHead, RecoverInstall, InstallOne, diskVars, CInv, HeadInv
    <3>3. Recovering'  BY <3>1 DEF Recovering, RecoveryPcs
    <3>4. QED  BY <2>2, <3>1, <3>2, <3>3 DEF CInv, HeadInv, RecoveryPcs, Distinct
  <2>5. QED  BY <1>11, <2>3, <2>4
<1>12. ASSUME NEW p \in Procs, ProcStep(p) PROVE HeadInv'
  BY <1>12, <1>2, <1>3, <1>4, <1>5, <1>6, <1>7, <1>8, <1>11 DEF ProcStep, CommitStep, RecoveryStep
<1>13. QED  BY <1>1, <1>9, <1>10, <1>12 DEF Next

(* What one iteration of install_trans() does. *)
LEMMA InstallFacts ==
  ASSUME IInv, NEW p \in Procs, Install(p) \/ RecoverInstall(p)
  PROVE  /\ tail + 1 \in 1 .. Len(lh) /\ tail + 1 \in 1 .. NLOG - 1
         /\ lh[tail + 1] \in Blocks /\ dlog[tail + 1] \in Data
         /\ disk' = [disk EXCEPT ![lh[tail + 1]] = dlog[tail + 1]]
         /\ cache' = [cache EXCEPT ![lh[tail + 1]] = dlog[tail + 1]]
         /\ dirty' = dirty \ {lh[tail + 1]} /\ tail' = tail + 1
         /\ UNCHANGED <<dlog, dhead, held, lh>>
         /\ \A q \in Procs : held[q] = NoBlock
         /\ \A q \in Procs \ {p} : pc'[q] = pc[q]
         /\ \A q \in Procs \ {p} : pc[q] \notin CommitPcs \cup RecoveryPcs \cup OpPcs
         /\ Install(p) =>
              /\ pc[p] = "install" /\ pc'[p] = IF tail + 1 = Len(lh) THEN "erase" ELSE "install"
         /\ RecoverInstall(p) =>
              /\ pc[p] = "r_install" /\ pc'[p] = IF tail + 1 = Len(lh) THEN "r_erase" ELSE "r_install"
<1>0. TypeOK  BY DEF IInv
<1> USE DEF TypeOK
<1>1. tail + 1 \in 1 .. Len(lh) /\ tail + 1 \in 1 .. NLOG - 1
  BY <1>0, SizeAssumption DEF Install, RecoverInstall, InstallOne, IInv, TailInv
<1>2. lh[tail + 1] \in Blocks /\ dlog[tail + 1] \in Data
  BY <1>0, <1>1
<1>3. pc[p] \in CommitPcs \/ pc[p] \in RecoveryPcs
  BY DEF Install, RecoverInstall, InstallOne, CommitPcs, RecoveryPcs
<1>4. /\ \A q \in Procs : held[q] = NoBlock
      /\ \A q \in Procs \ {p} : pc[q] \notin CommitPcs \cup RecoveryPcs \cup OpPcs
  BY <1>3, CommitterAlone, RecovererAlone DEF CommitPcs, RecoveryPcs, OpPcs
<1>5. CASE Install(p)
  <2>1. ~RecoverInstall(p)  BY <1>5 DEF Install, RecoverInstall, InstallOne
  <2>2. QED  BY <1>0, <1>1, <1>2, <1>4, <1>5, <2>1 DEF Install, InstallOne, Goto
<1>6. CASE RecoverInstall(p)
  <2>1. ~Install(p)  BY <1>6 DEF Install, RecoverInstall, InstallOne
  <2>2. QED  BY <1>0, <1>1, <1>2, <1>4, <1>6, <2>1 DEF RecoverInstall, InstallOne, Goto
<1>7. QED  BY <1>5, <1>6

LEMMA CleanFrame ==
  ASSUME CInv, UNCHANGED <<cache, dirty, held, disk>>, Recovering' => Recovering
  PROVE  CleanInv'
BY DEF CInv, CleanInv

LEMMA SameRecovering ==
  ASSUME \A q \in Procs : pc'[q] \in RecoveryPcs => pc[q] \in RecoveryPcs
  PROVE  Recovering' => Recovering
BY DEF Recovering

(* Clean buffers keep agreeing with the disk. *)
LEMMA CleanStep ==
  ASSUME IInv, CInv, [Next]_vars
  PROVE  CleanInv'
<1>0. TypeOK  BY DEF IInv
<1> USE DEF TypeOK
<1>1. CASE UNCHANGED vars
  BY <1>1, CleanFrame DEF vars, Recovering
<1>2. ASSUME NEW p \in Procs,
             \/ BeginOp(p) \/ BeginOpSleep(p) \/ LogWriteCheck(p)
             \/ WriteLog(p) \/ WriteLogBeyond(p) \/ WriteHead(p) \/ Erase(p)
             \/ ReadHead(p)
      PROVE  CleanInv'
  <2>1. UNCHANGED <<cache, dirty, held, disk>>
    BY <1>2 DEF BeginOp, BeginOpSleep, LogWriteCheck, WriteLog, WriteLogBeyond,
       WriteHead, Erase, ReadHead, diskVars, memVars
  <2>2. Recovering' => Recovering
    <3> USE DEF Goto, RecoveryPcs
    <3>1. CASE BeginOp(p)        BY <1>0, <3>1, SameRecovering DEF BeginOp
    <3>2. CASE BeginOpSleep(p)   BY <1>0, <3>2, SameRecovering DEF BeginOpSleep
    <3>3. CASE LogWriteCheck(p)  BY <1>0, <3>3, SameRecovering DEF LogWriteCheck
    <3>4. CASE WriteLog(p) \/ WriteLogBeyond(p)
      BY <1>0, <3>4, SameRecovering DEF WriteLog, WriteLogBeyond
    <3>5. CASE WriteHead(p) \/ Erase(p)
      BY <1>0, <3>5, SameRecovering DEF WriteHead, Erase
    <3>6. CASE ReadHead(p)       BY <1>0, <3>6, SameRecovering DEF ReadHead
    <3>7. QED  BY <1>2, <3>1, <3>2, <3>3, <3>4, <3>5, <3>6
  <2>3. QED  BY <2>1, <2>2, CleanFrame
<1>3. ASSUME NEW p \in Procs, NEW b \in Blocks, NEW v \in Data, Modify(p, b, v) PROVE CleanInv'
  <2>1. /\ cache' = [cache EXCEPT ![b] = v] /\ held' = [held EXCEPT ![p] = b]
        /\ UNCHANGED <<dirty, disk>> /\ held[p] = NoBlock /\ v # NotCached
    BY <1>3, DataAssumption DEF Modify, diskVars, IInv, HeldInv
  <2>2. ~Recovering'
    <3>1. \A q \in Procs : pc[q] \notin RecoveryPcs
      BY <1>3, CallerRuns DEF Modify, OpPcs
    <3>2. QED  BY <1>0, <1>3, <3>1 DEF Recovering, Modify, Goto, RecoveryPcs
  <2>3. QED  BY <1>0, <2>1, <2>2, DataAssumption DEF CInv, CleanInv
<1>4. ASSUME NEW p \in Procs, LogWrite(p) PROVE CleanInv'
  <2>1. /\ held' = [held EXCEPT ![p] = NoBlock] /\ dirty' = dirty \cup {held[p]}
        /\ UNCHANGED <<cache, disk>>
    BY <1>4 DEF LogWrite, diskVars
  <2>2. ~Recovering'
    <3>1. \A q \in Procs : pc[q] \notin RecoveryPcs
      BY <1>4, CallerRuns DEF LogWrite, OpPcs
    <3>2. QED  BY <1>0, <1>4, <3>1 DEF Recovering, LogWrite, Goto, RecoveryPcs
  <2>3. QED  BY <1>0, <2>1, <2>2 DEF CInv, CleanInv
<1>5. ASSUME NEW p \in Procs, EndOp(p) PROVE CleanInv'
  <2>1. \A q \in Procs : pc'[q] \in RecoveryPcs => pc[q] \in RecoveryPcs
    <3>1. ~committing  BY <1>5, CallerRuns DEF EndOp, OpPcs
    <3>2. CASE outstanding = 1
      BY <1>0, <1>5, <3>1, <3>2 DEF EndOp, Goto, RecoveryPcs
    <3>3. CASE outstanding # 1
      BY <1>0, <1>5, <3>1, <3>3, WakeupFacts DEF EndOp, RecoveryPcs
    <3>4. QED  BY <3>2, <3>3
  <2>2. QED  BY <1>5, <2>1, SameRecovering, CleanFrame DEF EndOp, diskVars
<1>6. ASSUME NEW p \in Procs, Install(p) \/ RecoverInstall(p) PROVE CleanInv'
  <2>1. PICK b \in Blocks : b = lh[tail + 1]  BY <1>6, InstallFacts
  <2>2. PICK d \in Data : d = dlog[tail + 1]  BY <1>6, InstallFacts
  <2>3. /\ disk' = [disk EXCEPT ![b] = d] /\ cache' = [cache EXCEPT ![b] = d]
        /\ dirty' = dirty \ {b} /\ held' = held /\ \A q \in Procs : held[q] = NoBlock
    BY <1>6, <2>1, <2>2, InstallFacts
  <2>4. Recovering' => Recovering
    BY <1>6, InstallFacts, SameRecovering DEF RecoveryPcs
  <2>5. QED  BY <1>0, <2>3, <2>4 DEF CInv, CleanInv
<1>7. ASSUME NEW p \in Procs, EndCommit(p) PROVE CleanInv'
  <2>1. \A q \in Procs : pc'[q] \in RecoveryPcs => pc[q] \in RecoveryPcs
    BY <1>0, <1>7, WakeupFacts DEF EndCommit, RecoveryPcs
  <2>2. QED  BY <1>7, <2>1, SameRecovering, CleanFrame DEF EndCommit, diskVars
<1>8. ASSUME NEW b \in Blocks, Load(b) PROVE CleanInv'
  <2>1. /\ cache' = [cache EXCEPT ![b] = disk[b]] /\ disk[b] # NotCached
        /\ UNCHANGED <<disk, dirty, held, pc>>
    BY <1>0, <1>8, DataAssumption DEF Load, diskVars
  <2>2. QED  BY <1>0, <2>1 DEF CInv, CleanInv, Recovering
<1>9. ASSUME NEW b \in Blocks, Evict(b) PROVE CleanInv'
  <2>1. /\ cache' = [cache EXCEPT ![b] = NotCached] /\ \A q \in Procs : held[q] # b
        /\ UNCHANGED <<disk, dirty, held, pc>>
    BY <1>9 DEF Evict, diskVars
  <2>2. QED  BY <1>0, <2>1 DEF CInv, CleanInv, Recovering
<1>10. ASSUME NEW p \in Procs, Crash(p) PROVE CleanInv'
  BY <1>10 DEF Crash, CleanInv
<1>11. ASSUME NEW p \in Procs, RecoverErase(p) PROVE CleanInv'
  BY <1>11, CleanFrame DEF RecoverErase, Recovering, RecoveryPcs
<1>12. ASSUME NEW p \in Procs, ProcStep(p) PROVE CleanInv'
  BY <1>12, <1>2, <1>3, <1>4, <1>5, <1>6, <1>7, <1>11 DEF ProcStep, CommitStep, RecoveryStep
<1>13. QED  BY <1>1, <1>8, <1>9, <1>10, <1>12 DEF Next

LEMMA OccursEmpty == ASSUME NEW b PROVE ~Occurs(b, <<>>)
BY DEF Occurs

(* A step that leaves the buffers and the transaction alone, outside of    *)
(* installation.                                                           *)
LEMMA PinnedFrame ==
  ASSUME CInv, UNCHANGED <<cache, dirty, lh>>,
         \A q \in Procs : pc[q] \in {"install", "erase"} \cup RecoveryPcs
                            => pc'[q] \in {"install", "erase"} \cup RecoveryPcs
  PROVE  Pinned'
<1>1. \A b \in Blocks : b \in dirty' => cache'[b] # NotCached /\ Occurs(b, lh')
  BY DEF CInv, Pinned
<1>2. ASSUME \A q \in Procs : pc'[q] \notin {"install", "erase"}, ~Recovering',
             NEW b \in Blocks, Occurs(b, lh')
      PROVE  b \in dirty'
  <2>1. \A q \in Procs : pc[q] \notin {"install", "erase"} \cup RecoveryPcs
    BY <1>2 DEF Recovering
  <2>2. QED  BY <1>2, <2>1 DEF CInv, Pinned, Recovering
<1>3. QED  BY <1>1, <1>2 DEF Pinned

(* The dirty buffers are those of the transaction not yet installed. *)
LEMMA PinnedStep ==
  ASSUME IInv, CInv, [Next]_vars
  PROVE  Pinned'
<1>0. TypeOK  BY DEF IInv
<1> USE DEF TypeOK
<1>1. CASE UNCHANGED vars
  BY <1>1, PinnedFrame DEF vars
<1>2. ASSUME NEW p \in Procs,
             \/ BeginOp(p) \/ BeginOpSleep(p) \/ LogWriteCheck(p)
             \/ WriteLog(p) \/ WriteLogBeyond(p) \/ WriteHead(p) \/ EndOp(p)
      PROVE  Pinned'
  <2>1. UNCHANGED <<cache, dirty, lh>>
    BY <1>2 DEF BeginOp, BeginOpSleep, LogWriteCheck, WriteLog, WriteLogBeyond,
       WriteHead, EndOp, memVars
  <2>2. /\ pc[p] \notin {"install", "erase"} \cup RecoveryPcs
        /\ \A q \in Procs \ {p} : pc'[q] = pc[q] \/ (pc[q] = "sleep" /\ pc'[q] = "begin")
    <3> USE DEF Goto, RecoveryPcs
    <3>1. CASE BeginOp(p)        BY <1>0, <3>1 DEF BeginOp
    <3>2. CASE BeginOpSleep(p)   BY <1>0, <3>2 DEF BeginOpSleep
    <3>3. CASE LogWriteCheck(p)  BY <1>0, <3>3 DEF LogWriteCheck
    <3>4. CASE WriteLog(p) \/ WriteLogBeyond(p)
      BY <1>0, <3>4 DEF WriteLog, WriteLogBeyond
    <3>5. CASE WriteHead(p)      BY <1>0, <3>5 DEF WriteHead
    <3>6. CASE EndOp(p)
      <4>1. ~committing  BY <3>6, CallerRuns DEF EndOp, OpPcs
      <4>2. CASE outstanding = 1  BY <1>0, <3>6, <4>1, <4>2 DEF EndOp
      <4>3. CASE outstanding # 1  BY <1>0, <3>6, <4>1, <4>3, WakeupFacts DEF EndOp
      <4>4. QED  BY <4>2, <4>3
    <3>7. QED  BY <1>2, <3>1, <3>2, <3>3, <3>4, <3>5, <3>6
  <2>3. QED  BY <2>1, <2>2, PinnedFrame DEF RecoveryPcs
<1>3. ASSUME NEW p \in Procs, NEW b \in Blocks, NEW v \in Data, Modify(p, b, v) PROVE Pinned'
  <2>1. /\ cache' = [cache EXCEPT ![b] = v] /\ v # NotCached /\ UNCHANGED <<dirty, lh>>
    BY <1>3, DataAssumption DEF Modify
  <2>2. \A q \in Procs : pc[q] \notin {"install", "erase"} \cup RecoveryPcs
    BY <1>3, CallerRuns DEF Modify, OpPcs, CommitPcs
  <2>3. QED  BY <1>0, <2>1, <2>2 DEF CInv, Pinned, Recovering
<1>4. ASSUME NEW p \in Procs, LogWrite(p) PROVE Pinned'
  <2>1. PICK b \in Blocks : b = held[p] /\ cache[b] # NotCached
    BY <1>0, <1>4 DEF LogWrite, IInv, HeldInv, CInv, CleanInv
  <2>2. \A c \in Blocks : Occurs(c, lh') <=> Occurs(c, lh) \/ c = b
    BY <1>0, <1>4, <2>1, OccursAppend DEF LogWrite
  <2>3. cache' = cache /\ dirty' = dirty \cup {b}
    BY <1>4, <2>1 DEF LogWrite
  <2>4. \A q \in Procs : pc[q] \notin {"install", "erase"} \cup RecoveryPcs
    BY <1>4, CallerRuns DEF LogWrite, OpPcs, CommitPcs
  <2>5. QED  BY <2>1, <2>2, <2>3, <2>4 DEF CInv, Pinned, Recovering
<1>5. ASSUME NEW p \in Procs, Install(p) PROVE Pinned'
  <2>1. pc'[p] \in {"install", "erase"} /\ lh' = lh /\ dirty' \subseteq dirty
    BY <1>5, InstallFacts
  <2>2. \A c \in Blocks : cache[c] # NotCached => cache'[c] # NotCached
    BY <1>0, <1>5, InstallFacts, DataAssumption
  <2>3. QED  BY <2>1, <2>2 DEF CInv, Pinned
<1>6. ASSUME NEW p \in Procs, Erase(p) \/ RecoverErase(p) PROVE Pinned'
  <2>1. /\ pc[p] \in {"erase", "r_erase"} /\ lh' = <<>> /\ dirty' = dirty
    BY <1>6 DEF Erase, RecoverErase
  <2>2. dirty = {}
    BY <1>0, <2>1 DEF CInv, Pinned, CopyInv, Occurs
  <2>3. QED  BY <2>1, <2>2, OccursEmpty DEF Pinned
<1>7. ASSUME NEW p \in Procs, EndCommit(p) PROVE Pinned'
  <2>1. lh = <<>> /\ UNCHANGED <<cache, dirty, lh>>
    BY <1>7 DEF EndCommit, CInv, HeadInv
  <2>2. QED  BY <2>1, OccursEmpty DEF CInv, Pinned
<1>8. ASSUME NEW b \in Blocks, Load(b) \/ Evict(b) PROVE Pinned'
  <2>1. /\ UNCHANGED <<dirty, lh, pc>>
        /\ \A c \in Blocks : c \in dirty /\ cache[c] # NotCached => cache'[c] = cache[c]
    BY <1>0, <1>8 DEF Load, Evict
  <2>2. QED  BY <2>1 DEF CInv, Pinned, Recovering
<1>9. ASSUME NEW p \in Procs, Crash(p) PROVE Pinned'
  BY <1>9, OccursEmpty DEF Crash, Pinned
<1>10. ASSUME NEW p \in Procs, ReadHead(p) \/ RecoverInstall(p) PROVE Pinned'
  <2>1. pc[p] \in RecoveryPcs
    BY <1>10 DEF ReadHead, RecoverInstall, InstallOne, RecoveryPcs
  <2>2. dirty = {}
    BY <2>1 DEF CInv, CleanInv, Recovering
  <2>3. dirty' = {} /\ pc'[p] \in RecoveryPcs
    BY <1>0, <1>10, <2>2 DEF ReadHead, RecoverInstall, InstallOne, Goto, RecoveryPcs
  <2>4. QED  BY <2>3 DEF Pinned, Recovering
<1>11. ASSUME NEW p \in Procs, ProcStep(p) PROVE Pinned'
  BY <1>11, <1>2, <1>3, <1>4, <1>5, <1>6, <1>7, <1>10 DEF ProcStep, CommitStep, RecoveryStep
<1>12. QED  BY <1>1, <1>8, <1>9, <1>11 DEF Next

CopyPcs == {"write_log", "write_head", "install", "erase", "r_install", "r_erase"}

LEMMA CopyIdle ==
  ASSUME \A q \in Procs : pc'[q] \notin CopyPcs
  PROVE  CopyInv'
BY DEF CopyInv, CopyPcs

LEMMA CopyFrame ==
  ASSUME CInv, UNCHANGED <<disk, dlog, cache, dirty, lh, tail>>,
         \A q \in Procs : pc'[q] \in CopyPcs => pc'[q] = pc[q]
  PROVE  CopyInv'
BY DEF CInv, CopyInv, CopyPcs

(* The blocks of a transaction that is not yet installed are in the cache. *)
LEMMA TransactionCached ==
  ASSUME IInv, CInv, NEW p \in Procs, pc[p] \in {"write_log", "write_head"},
         NEW i \in 1 .. Len(lh)
  PROVE  lh[i] \in Blocks /\ lh[i] \in dirty /\ cache[lh[i]] # NotCached
<1>1. lh[i] \in Blocks  BY DEF IInv, TypeOK
<1>2. Occurs(lh[i], lh)  BY DEF Occurs
<1>3. ~Recovering /\ \A q \in Procs : pc[q] \notin {"install", "erase"}
  BY CommitterAlone DEF CommitPcs
<1>4. QED  BY <1>1, <1>2, <1>3 DEF CInv, Pinned

(* The copying stays on track through every step. *)
LEMMA CopyStep ==
  ASSUME IInv, CInv, [Next]_vars
  PROVE  CopyInv'
<1>0. TypeOK  BY DEF IInv
<1> USE DEF TypeOK
<1>1. CASE UNCHANGED vars
  BY <1>1, CopyFrame DEF vars
<1>2. ASSUME NEW p \in Procs, BeginOp(p) \/ BeginOpSleep(p) PROVE CopyInv'
  <2>1. UNCHANGED <<disk, dlog, cache, dirty, lh, tail>>
    BY <1>2 DEF BeginOp, BeginOpSleep, diskVars, memVars
  <2>2. \A q \in Procs : pc'[q] \in CopyPcs => pc'[q] = pc[q]
    BY <1>0, <1>2 DEF BeginOp, BeginOpSleep, Goto, CopyPcs
  <2>3. QED  BY <2>1, <2>2, CopyFrame
<1>3. ASSUME NEW p \in Procs,
             LogWriteCheck(p) \/ LogWrite(p) \/ \E b \in Blocks, v \in Data : Modify(p, b, v)
      PROVE  CopyInv'
  <2>1. pc[p] \in OpPcs
    BY <1>3 DEF LogWriteCheck, LogWrite, Modify, OpPcs
  <2>2. \A q \in Procs : pc[q] \notin CopyPcs
    BY <2>1, CallerRuns DEF CopyPcs, CommitPcs, RecoveryPcs
  <2>3. \A q \in Procs \ {p} : pc'[q] = pc[q]
    BY <1>0, <1>3 DEF LogWriteCheck, LogWrite, Modify, Goto
  <2>4. pc'[p] \in OpPcs
    BY <1>0, <1>3 DEF LogWriteCheck, LogWrite, Modify, Goto, OpPcs
  <2>5. QED  BY <2>2, <2>3, <2>4, CopyIdle DEF CopyPcs, OpPcs
<1>4. ASSUME NEW p \in Procs, EndOp(p) PROVE CopyInv'
  <2>1. ~committing /\ \A q \in Procs : pc[q] \notin CopyPcs
    BY <1>4, CallerRuns DEF EndOp, OpPcs, CopyPcs, CommitPcs, RecoveryPcs
  <2>2. CASE outstanding = 1
    <3>1. /\ tail' = 0 /\ pc'[p] \in {"write_log", "committed"}
          /\ \A q \in Procs \ {p} : pc'[q] = pc[q]
      BY <1>0, <1>4, <2>1, <2>2 DEF EndOp, Goto
    <3>2. QED  BY <2>1, <3>1 DEF CopyInv, CopyPcs
  <2>3. CASE outstanding # 1
    BY <1>0, <1>4, <2>1, <2>3, WakeupFacts, CopyIdle DEF EndOp, CopyPcs
  <2>4. QED  BY <2>2, <2>3
<1>5. ASSUME NEW p \in Procs, WriteLog(p) PROVE CopyInv'
  <2>1. /\ tail + 1 \in 1 .. Len(lh) /\ tail + 1 \in 1 .. NLOG - 1
    BY <1>0, <1>5, SizeAssumption DEF WriteLog, IInv, TailInv
  <2>2. \A q \in Procs \ {p} : pc[q] \notin CopyPcs
    BY <1>5, CommitterAlone DEF WriteLog, CommitPcs, RecoveryPcs, CopyPcs
  <2>3. View[lh[tail + 1]] = cache[lh[tail + 1]]
    BY <1>5, <2>1, TransactionCached DEF WriteLog, View
  <2>4. /\ dlog' = [dlog EXCEPT ![tail + 1] = cache[lh[tail + 1]]]
        /\ tail' = tail + 1 /\ UNCHANGED <<lh, cache>>
        /\ pc'[p] = IF tail + 1 = Len(lh) THEN "write_head" ELSE "write_log"
        /\ \A q \in Procs \ {p} : pc'[q] = pc[q]
    BY <1>0, <1>5, <2>3 DEF WriteLog, Goto
  <2>5. \A i \in 1 .. tail + 1 : dlog'[i] = cache[lh[i]]
    <3> SUFFICES ASSUME NEW i \in 1 .. tail + 1 PROVE dlog'[i] = cache[lh[i]]
      OBVIOUS
    <3>1. CASE i = tail + 1  BY <1>0, <2>1, <2>4, <3>1
    <3>2. CASE i # tail + 1
      <4>1. i \in 1 .. tail /\ i \in 1 .. NLOG - 1  BY <1>0, <2>1, <3>2, SizeAssumption
      <4>2. dlog[i] = cache[lh[i]]  BY <1>5, <4>1 DEF WriteLog, CInv, CopyInv
      <4>3. QED  BY <1>0, <2>4, <3>2, <4>1, <4>2
    <3>3. QED  BY <3>1, <3>2
  <2>6. QED  BY <2>2, <2>4, <2>5 DEF CopyInv, CopyPcs
<1>5b. ASSUME NEW p \in Procs, WriteLogBeyond(p) PROVE CopyInv'
  <2>1. UNCHANGED <<disk, dlog, cache, dirty, lh, tail>>
    BY <1>5b DEF WriteLogBeyond, diskVars, memVars
  <2>2. \A q \in Procs : pc'[q] \in CopyPcs => pc'[q] = pc[q]
    BY <1>0, <1>5b DEF WriteLogBeyond, Goto, CopyPcs
  <2>3. QED  BY <2>1, <2>2, CopyFrame
<1>6. ASSUME NEW p \in Procs, WriteHead(p) PROVE CopyInv'
  <2>1. \A q \in Procs \ {p} : pc[q] \notin CopyPcs
    BY <1>6, CommitterAlone DEF WriteHead, CommitPcs, RecoveryPcs, CopyPcs
  <2>2. /\ tail' = 0 /\ UNCHANGED <<lh, cache, dirty, dlog>> /\ pc'[p] = "install"
        /\ \A q \in Procs \ {p} : pc'[q] = pc[q] /\ pc[p] = "write_head"
    BY <1>0, <1>6 DEF WriteHead, Goto
  <2>3. \A i \in 1 .. Len(lh) : lh[i] \in dirty /\ dlog[i] = cache[lh[i]]
    BY <1>6, TransactionCached DEF WriteHead, CInv, CopyInv
  <2>4. QED  BY <2>1, <2>2, <2>3 DEF CopyInv, CopyPcs
<1>7. ASSUME NEW p \in Procs, Install(p) \/ RecoverInstall(p) PROVE CopyInv'
  <2>1. PICK b \in Blocks : b = lh[tail + 1]  BY <1>7, InstallFacts
  <2>2. PICK d \in Data : d = dlog[tail + 1]  BY <1>7, InstallFacts
  <2>3. /\ disk' = [disk EXCEPT ![b] = d] /\ cache' = [cache EXCEPT ![b] = d]
        /\ dirty' = dirty \ {b} /\ tail' = tail + 1 /\ UNCHANGED <<dlog, lh>>
        /\ tail + 1 \in 1 .. Len(lh)
        /\ \A q \in Procs \ {p} : pc'[q] = pc[q] /\ pc[q] \notin CopyPcs
    BY <1>7, <2>1, <2>2, InstallFacts DEF CommitPcs, RecoveryPcs, CopyPcs
  <2>4. \A i \in 1 .. Len(lh) : i # tail + 1 => lh[i] # b
    BY <2>1, <2>3 DEF CInv, HeadInv, Distinct
  <2>5. \A i \in 1 .. Len(lh) : lh[i] \in Blocks
    BY <1>0
  <2>6. \A i \in 1 .. tail + 1 : lh[i] \notin dirty' /\ disk'[lh[i]] = dlog[i]
    <3> SUFFICES ASSUME NEW i \in 1 .. tail + 1
                 PROVE  lh[i] \notin dirty' /\ disk'[lh[i]] = dlog[i]
      OBVIOUS
    <3>1. CASE i = tail + 1  BY <1>0, <2>1, <2>2, <2>3, <3>1
    <3>2. CASE i # tail + 1
      <4>1. i \in 1 .. tail /\ i \in 1 .. Len(lh)  BY <1>0, <2>3, <3>2
      <4>2. lh[i] \notin dirty /\ disk[lh[i]] = dlog[i]
        BY <1>7, <4>1, InstallFacts DEF CInv, CopyInv
      <4>3. QED  BY <1>0, <2>3, <2>4, <2>5, <3>2, <4>1, <4>2
    <3>3. QED  BY <3>1, <3>2
  <2>7. CASE Install(p)
    <3>1. /\ pc[p] = "install" /\ pc'[p] = IF tail + 1 = Len(lh) THEN "erase" ELSE "install"
      BY <2>7, InstallFacts
    <3>2. \A i \in (tail + 1) + 1 .. Len(lh) : lh[i] \in dirty' /\ dlog[i] = cache'[lh[i]]
      <4> SUFFICES ASSUME NEW i \in (tail + 1) + 1 .. Len(lh)
                   PROVE  lh[i] \in dirty' /\ dlog[i] = cache'[lh[i]]
        OBVIOUS
      <4>1. i \in tail + 1 .. Len(lh) /\ i \in 1 .. Len(lh) /\ i # tail + 1  BY <1>0
      <4>2. lh[i] \in dirty /\ dlog[i] = cache[lh[i]]
        BY <3>1, <4>1 DEF CInv, CopyInv
      <4>3. QED  BY <1>0, <2>3, <2>4, <2>5, <4>1, <4>2
    <3>3. QED  BY <2>3, <2>6, <3>1, <3>2 DEF CopyInv, CopyPcs
  <2>8. CASE RecoverInstall(p)
    <3>1. /\ pc'[p] = IF tail + 1 = Len(lh) THEN "r_erase" ELSE "r_install"
      BY <2>8, InstallFacts
    <3>2. QED  BY <2>3, <2>6, <3>1 DEF CopyInv, CopyPcs
  <2>9. QED  BY <1>7, <2>7, <2>8
<1>8. ASSUME NEW p \in Procs, Erase(p) \/ EndCommit(p) PROVE CopyInv'
  <2>1. \A q \in Procs \ {p} : pc[q] \notin CopyPcs
    BY <1>8, CommitterAlone DEF Erase, EndCommit, CommitPcs, RecoveryPcs, CopyPcs
  <2>2. CASE Erase(p)
    BY <1>0, <2>1, <2>2, CopyIdle DEF Erase, Goto, CopyPcs
  <2>3. CASE EndCommit(p)
    BY <1>0, <2>1, <2>3, WakeupFacts, CopyIdle DEF EndCommit, CopyPcs
  <2>4. QED  BY <1>8, <2>2, <2>3
<1>9. ASSUME NEW b \in Blocks, Load(b) \/ Evict(b) PROVE CopyInv'
  <2>1. /\ UNCHANGED <<disk, dlog, dirty, lh, pc, tail>>
        /\ \A c \in Blocks : c \in dirty /\ cache[c] # NotCached => cache'[c] = cache[c]
    BY <1>0, <1>9 DEF Load, Evict, diskVars
  <2>2. \A c \in dirty : cache'[c] = cache[c]
    BY <1>0, <2>1 DEF CInv, Pinned
  <2>3. ASSUME NEW q \in Procs, pc[q] = "write_log", NEW i \in 1 .. tail
        PROVE  dlog[i] = cache'[lh[i]]
    <3>1. i \in 1 .. Len(lh)  BY <1>0, <2>3 DEF IInv, TailInv
    <3>2. lh[i] \in dirty  BY <2>3, <3>1, TransactionCached
    <3>3. QED  BY <2>2, <2>3, <3>2 DEF CInv, CopyInv
  <2>4. ASSUME NEW q \in Procs, pc[q] = "write_head", NEW i \in 1 .. Len(lh)
        PROVE  dlog[i] = cache'[lh[i]]
    <3>1. lh[i] \in dirty  BY <2>4, TransactionCached
    <3>2. QED  BY <2>2, <2>4, <3>1 DEF CInv, CopyInv
  <2>5. ASSUME NEW q \in Procs, pc[q] = "install", NEW i \in tail + 1 .. Len(lh)
        PROVE  lh[i] \in dirty /\ dlog[i] = cache'[lh[i]]
    <3>1. lh[i] \in dirty /\ dlog[i] = cache[lh[i]]  BY <2>5 DEF CInv, CopyInv
    <3>2. QED  BY <2>2, <3>1
  <2>6. QED  BY <2>1, <2>3, <2>4, <2>5 DEF CInv, CopyInv
<1>10. ASSUME NEW p \in Procs, Crash(p) PROVE CopyInv'
  BY <1>10, CopyIdle DEF Crash, CopyPcs
<1>11. ASSUME NEW p \in Procs, ReadHead(p) PROVE CopyInv'
  <2>1. \A q \in Procs \ {p} : pc[q] = "off"
    BY <1>11, RecovererAlone DEF ReadHead, RecoveryPcs
  <2>2. /\ tail = 0 /\ tail' = 0 /\ lh' = dhead
        /\ pc'[p] = IF Len(dhead) > 0 THEN "r_install" ELSE "r_erase"
        /\ \A q \in Procs \ {p} : pc'[q] = pc[q]
    BY <1>0, <1>11 DEF ReadHead, Goto, IInv, TailInv
  <2>3. pc'[p] = "r_erase" => Len(lh') = 0  BY <1>0, <2>2
  <2>4. QED  BY <2>1, <2>2, <2>3 DEF CopyInv
<1>12. ASSUME NEW p \in Procs, RecoverErase(p) PROVE CopyInv'
  BY <1>12, CopyIdle DEF RecoverErase, CopyPcs
<1>13. ASSUME NEW p \in Procs, ProcStep(p) PROVE CopyInv'
  BY <1>13, <1>2, <1>3, <1>4, <1>5, <1>5b, <1>6, <1>7, <1>8, <1>11, <1>12
     DEF ProcStep, CommitStep, RecoveryStep
<1>14. QED  BY <1>1, <1>9, <1>10, <1>13 DEF Next

(* The invariant about headers, buffers and copies, beside LogProofs'. *)
THEOREM CrashInvariant == Spec => [](IInv /\ CInv)
<1>1. ASSUME Init PROVE CInv
  <2>1. InOp = {} /\ ~Recovering  BY <1>1 DEF Init, InOp, OpPcs, Recovering, RecoveryPcs
  <2>2. HeadInv  BY <1>1 DEF Init, HeadInv, Distinct
  <2>3. CleanInv /\ Pinned /\ CopyInv
    BY <1>1, <2>1, OccursEmpty DEF Init, CleanInv, Pinned, CopyInv
  <2>4. QED  BY <2>2, <2>3 DEF CInv
<1>2. IInv /\ CInv /\ [Next]_vars => CInv'
  BY HeadStep, CleanStep, PinnedStep, CopyStep DEF CInv
<1>3. QED  BY <1>1, <1>2, LogInvariant, PTL DEF Spec

(* B_DIRTY pins exactly the blocks of the transaction in the cache until   *)
(* they are installed, and nothing after that.                             *)
THEOREM DirtyIsPinned == Spec => []Pinned
<1>1. CInv => Pinned  BY DEF CInv
<1>2. QED  BY <1>1, CrashInvariant, PTL
-------------------------------------------------------------------------------
(* The refinement mapping: what a reboot would find, and what a call sees. *)

LEMMA LastSlotIs ==
  ASSUME NEW s \in Seq(Blocks), Distinct(s), NEW i \in 1 .. Len(s)
  PROVE  Occurs(s[i], s) /\ LastSlot(s[i], s) = i
<1>1. \A j \in 1 .. Len(s) : s[j] = s[i] => j <= i
  BY DEF Distinct
<1>2. Occurs(s[i], s)  BY DEF Occurs
<1>3. \A k \in 1 .. Len(s) :
        s[k] = s[i] /\ (\A j \in 1 .. Len(s) : s[j] = s[i] => j <= k) => k = i
  BY DEF Distinct
<1>4. QED  BY <1>1, <1>2, <1>3 DEF LastSlot

(* A block the header names is recovered from its slot, any other block    *)
(* from its home.                                                          *)
LEMMA RecoveredIs ==
  ASSUME TypeOK, CInv
  PROVE  /\ Recovered = [b \in Blocks |-> Recovered[b]]
         /\ \A i \in 1 .. Len(dhead) : Recovered[dhead[i]] = dlog[i]
         /\ \A b \in Blocks : ~Occurs(b, dhead) => Recovered[b] = disk[b]
<1>1. \A i \in 1 .. Len(dhead) : dhead[i] \in Blocks  BY DEF TypeOK
<1>2. \A i \in 1 .. Len(dhead) : Occurs(dhead[i], dhead) /\ LastSlot(dhead[i], dhead) = i
  BY LastSlotIs DEF TypeOK, CInv, HeadInv
<1>3. QED  BY <1>1, <1>2 DEF Recovered

LEMMA RecoveredSame ==
  ASSUME UNCHANGED <<disk, dlog, dhead>>
  PROVE  Recovered' = Recovered
BY DEF Recovered

LEMMA RecoveredEmpty ==
  ASSUME TypeOK, dhead = <<>>
  PROVE  Recovered = disk
BY OccursEmpty DEF Recovered, TypeOK

LEMMA ViewSame ==
  ASSUME UNCHANGED <<disk, cache>>
  PROVE  View' = View
BY DEF View

LEMMA ViewClean ==
  ASSUME TypeOK, CInv, NEW b \in Blocks, b \notin dirty, \A p \in Procs : held[p] # b
  PROVE  View[b] = disk[b]
BY DEF View, CInv, CleanInv

(* When no call is in progress, no commit and no recovery, what the calls  *)
(* see is what a reboot would find.                                        *)
LEMMA QuietIsDurable ==
  ASSUME IInv, CInv
  PROVE  Durable
<1> SUFFICES ASSUME InOp = {}, Committers = {}, ~Recovering PROVE Recovered = View
  BY DEF Durable
<1>0. TypeOK  BY DEF IInv
<1>1. \A p \in Procs : pc[p] \notin OpPcs \cup CommitPcs \cup RecoveryPcs
  BY DEF InOp, Committers, Recovering
<1>2. lh = <<>> /\ dhead = <<>>
  BY <1>1 DEF CInv, HeadInv, CommitPcs, RecoveryPcs
<1>3. dirty = {}
  BY <1>0, <1>2, OccursEmpty DEF CInv, Pinned, TypeOK
<1>4. \A p \in Procs : held[p] = NoBlock
  BY <1>1 DEF IInv, HeldInv, OpPcs
<1>5. \A b \in Blocks : View[b] = disk[b]
  BY <1>0, <1>3, <1>4, ViewClean, DataAssumption
<1>6. View = disk  BY <1>0, <1>5 DEF View, TypeOK
<1>7. QED  BY <1>0, <1>2, <1>6, RecoveredEmpty

(* Every call that returned before the log became idle survives a reboot.  *)
THEOREM FinishedCallsSurvive == Spec => []Durable
<1>1. IInv /\ CInv => Durable  BY QuietIsDurable
<1>2. QED  BY <1>1, CrashInvariant, PTL
-------------------------------------------------------------------------------
(* What a call would read: nothing runs during recovery. *)
Seen == IF Recovering THEN Recovered ELSE View

(* A step that keeps all three abstract variables. *)
LEMMA Stutters ==
  ASSUME Recovered' = Recovered, Seen' = Seen, InOp' = InOp
  PROVE  UNCHANGED A!vars
BY DEF A!vars, Seen

LEMMA RecoveredType ==
  ASSUME IInv, CInv
  PROVE  Recovered \in [Blocks -> Data]
<1>0. TypeOK  BY DEF IInv
<1>1. Len(dhead) < NLOG
  BY DEF IInv, TailInv
<1>2. \A i \in 1 .. Len(dhead) : dlog[i] \in Data
  BY <1>0, <1>1, SizeAssumption DEF TypeOK
<1>3. ASSUME NEW b \in Blocks PROVE Recovered[b] \in Data
  <2>1. CASE Occurs(b, dhead)
    BY <1>0, <1>2, <2>1, RecoveredIs DEF Occurs
  <2>2. CASE ~Occurs(b, dhead)
    BY <1>0, <2>2, RecoveredIs DEF TypeOK
  <2>3. QED  BY <2>1, <2>2
<1>4. QED  BY <1>3 DEF Recovered

(* The header write makes durable exactly what the calls see. *)
LEMMA CommitPoint ==
  ASSUME IInv, CInv, NEW p \in Procs, WriteHead(p)
  PROVE  Recovered' = View
<1>0. TypeOK  BY DEF IInv
<1>1. pc[p] = "write_head" /\ dhead' = lh /\ UNCHANGED <<disk, dlog>>
  BY DEF WriteHead
<1>2. /\ \A i \in 1 .. Len(lh) : Recovered'[lh[i]] = dlog[i]
      /\ \A b \in Blocks : ~Occurs(b, lh) => Recovered'[b] = disk[b]
  <2>1. Recovered' = [b \in Blocks |-> IF Occurs(b, lh) THEN dlog[LastSlot(b, lh)] ELSE disk[b]]
    BY <1>1 DEF Recovered, Occurs, LastSlot
  <2>2. \A i \in 1 .. Len(lh) : Occurs(lh[i], lh) /\ LastSlot(lh[i], lh) = i
    BY <1>0, LastSlotIs DEF TypeOK, CInv, HeadInv
  <2>3. \A i \in 1 .. Len(lh) : lh[i] \in Blocks  BY <1>0 DEF TypeOK
  <2>4. QED  BY <2>1, <2>2, <2>3
<1>3. ASSUME NEW b \in Blocks PROVE Recovered'[b] = View[b]
  <2>1. CASE Occurs(b, lh)
    <3>1. PICK i \in 1 .. Len(lh) : lh[i] = b  BY <2>1 DEF Occurs
    <3>2. dlog[i] = cache[b] /\ cache[b] # NotCached
      BY <1>1, <3>1, TransactionCached DEF CInv, CopyInv
    <3>3. QED  BY <1>2, <3>1, <3>2 DEF View
  <2>2. CASE ~Occurs(b, lh)
    <3>1. b \notin dirty  BY <2>2 DEF CInv, Pinned
    <3>2. \A q \in Procs : held[q] # b
      BY <1>1, CommitterAlone, DataAssumption DEF CommitPcs
    <3>3. View[b] = disk[b]  BY <1>0, <3>1, <3>2, ViewClean
    <3>4. QED  BY <1>2, <2>2, <3>3
  <2>3. QED  BY <2>1, <2>2
<1>4. QED  BY <1>3 DEF Recovered, View

(* A step outside recovery that changes neither the disk nor a buffer.     *)
LEMMA SeenSame ==
  ASSUME UNCHANGED <<disk, dlog, dhead, cache>>, Recovering' = Recovering
  PROVE  Recovered' = Recovered /\ Seen' = Seen
BY RecoveredSame, ViewSame DEF Seen

(* install_trans() copies home what the log already shows. *)
LEMMA InstallUnseen ==
  ASSUME IInv, CInv, NEW p \in Procs, Install(p) \/ RecoverInstall(p)
  PROVE  UNCHANGED A!vars
<1>0. TypeOK  BY DEF IInv
<1> USE DEF TypeOK
<1>1. PICK k \in 1 .. Len(lh) : k = tail + 1  BY InstallFacts
<1>2. PICK b \in Blocks : b = lh[k]  BY <1>1, InstallFacts
<1>3. /\ UNCHANGED <<dlog, dhead>> /\ disk' = [disk EXCEPT ![b] = dlog[k]]
      /\ cache' = [cache EXCEPT ![b] = dlog[k]] /\ dlog[k] \in Data
  BY <1>1, <1>2, InstallFacts
<1>4. dhead = lh
  BY InstallFacts DEF CInv, HeadInv
<1>5. Occurs(b, dhead)  BY <1>2, <1>4 DEF Occurs
<1>6. Recovered' = Recovered
  <2>1. Recovered' = [c \in Blocks |-> IF Occurs(c, dhead)
                                         THEN dlog[LastSlot(c, dhead)] ELSE disk'[c]]
    BY <1>3 DEF Recovered, Occurs, LastSlot
  <2>2. \A c \in Blocks : ~Occurs(c, dhead) => disk'[c] = disk[c]
    BY <1>0, <1>3, <1>5
  <2>3. QED  BY <2>1, <2>2 DEF Recovered
<1>7. InOp' = InOp
  BY InstallFacts DEF InOp, OpPcs
<1>8. CASE Install(p)
  <2>1. ~Recovering
    BY <1>8, CommitterAlone, InstallFacts DEF CommitPcs
  <2>2. ~Recovering'
    BY <1>8, <2>1, InstallFacts DEF Recovering, RecoveryPcs
  <2>3. cache[b] = dlog[k]
    BY <1>0, <1>1, <1>2, <1>8, InstallFacts DEF CInv, CopyInv
  <2>4. View' = View
    BY <1>0, <1>3, <2>3, DataAssumption DEF View
  <2>5. QED  BY <1>6, <1>7, <2>1, <2>2, <2>4, Stutters DEF Seen
<1>9. CASE RecoverInstall(p)
  <2>1. Recovering /\ Recovering'
    BY <1>9, InstallFacts DEF Recovering, RecoveryPcs
  <2>2. QED  BY <1>6, <1>7, <2>1, Stutters DEF Seen
<1>10. QED  BY <1>8, <1>9

(* Clearing the header: everything it names is home. *)
LEMMA EraseUnseen ==
  ASSUME IInv, CInv, NEW p \in Procs, Erase(p) \/ RecoverErase(p)
  PROVE  UNCHANGED A!vars
<1>0. TypeOK  BY DEF IInv
<1>1. /\ pc[p] \in {"erase", "r_erase"} /\ dhead' = <<>> /\ UNCHANGED <<disk, dlog, cache>>
  BY DEF Erase, RecoverErase
<1>2. dhead = lh /\ \A i \in 1 .. Len(lh) : lh[i] \notin dirty /\ disk[lh[i]] = dlog[i]
  BY <1>1 DEF CInv, HeadInv, CopyInv
<1>3. ASSUME NEW b \in Blocks PROVE Recovered[b] = disk[b]
  BY <1>0, <1>2, RecoveredIs DEF Occurs
<1>4. Recovered = disk  BY <1>0, <1>3 DEF Recovered, TypeOK
<1>5. Recovered' = disk
  BY <1>0, <1>1 DEF Recovered, Occurs, TypeOK
<1>6. dirty = {}
  BY <1>0, <1>2 DEF CInv, Pinned, Occurs, TypeOK
<1>7. pc[p] \in CommitPcs \/ pc[p] \in RecoveryPcs
  BY <1>1 DEF CommitPcs, RecoveryPcs
<1>8. \A q \in Procs : held[q] = NoBlock
  BY <1>7, CommitterAlone, RecovererAlone
<1>9. \A b \in Blocks : View[b] = disk[b]
  BY <1>0, <1>6, <1>8, ViewClean, DataAssumption
<1>10. View = disk  BY <1>0, <1>9 DEF View, TypeOK
<1>11. View' = disk  BY <1>1, <1>10, ViewSame
<1>12. InOp' = InOp
  <2>1. InOp = {}  BY <1>7, CommitterAlone, RecovererAlone
  <2>2. CASE Erase(p)         BY <1>0, <2>1, <2>2 DEF Erase, Goto, InOp, OpPcs, TypeOK
  <2>3. CASE RecoverErase(p)  BY <2>1, <2>3 DEF RecoverErase, InOp, OpPcs
  <2>4. QED  BY <2>2, <2>3
<1>13. Seen = disk /\ Seen' = disk
  BY <1>4, <1>5, <1>10, <1>11 DEF Seen
<1>14. QED  BY <1>4, <1>5, <1>12, <1>13, Stutters

(* Every step of the log is a step of the atomic disk, or is invisible.    *)
LEMMA RefinementStep ==
  ASSUME IInv, CInv, [Next]_vars
  PROVE  [A!Next]_(A!vars)
<1>0. TypeOK  BY DEF IInv
<1> USE DEF TypeOK
<1>1. CASE UNCHANGED vars
  <2>1. Recovering' = Recovering /\ InOp' = InOp  BY <1>1 DEF vars, Recovering, InOp
  <2>2. QED  BY <1>1, <2>1, SeenSame, Stutters DEF vars
<1>2. ASSUME NEW p \in Procs, BeginOp(p) PROVE A!Next
  <2>1. /\ UNCHANGED <<disk, dlog, dhead, cache>> /\ pc[p] \in {"idle", "begin"}
        /\ pc'[p] = "op" /\ \A q \in Procs \ {p} : pc'[q] = pc[q]
    BY <1>0, <1>2 DEF BeginOp, Goto, diskVars
  <2>2. Recovering' = Recovering  BY <2>1 DEF Recovering, RecoveryPcs
  <2>3. p \notin InOp /\ InOp' = InOp \cup {p}  BY <2>1 DEF InOp, OpPcs
  <2>4. Recovered' = Recovered /\ Seen' = Seen  BY <2>1, <2>2, SeenSame
  <2>5. A!Begin(p)  BY <2>3, <2>4 DEF A!Begin, Seen
  <2>6. QED  BY <2>5 DEF A!Next
<1>3. ASSUME NEW p \in Procs, BeginOpSleep(p) \/ LogWriteCheck(p) \/ LogWrite(p)
      PROVE  UNCHANGED A!vars
  <2>1. /\ UNCHANGED <<disk, dlog, dhead, cache>> /\ \A q \in Procs \ {p} : pc'[q] = pc[q]
        /\ pc'[p] \in OpPcs <=> pc[p] \in OpPcs
        /\ pc[p] \notin RecoveryPcs /\ pc'[p] \notin RecoveryPcs
    BY <1>0, <1>3 DEF BeginOpSleep, LogWriteCheck, LogWrite, Goto, diskVars, memVars,
                      OpPcs, RecoveryPcs
  <2>2. Recovering' = Recovering  BY <2>1 DEF Recovering
  <2>3. InOp' = InOp  BY <2>1 DEF InOp
  <2>4. QED  BY <2>1, <2>2, <2>3, SeenSame, Stutters
<1>4. ASSUME NEW p \in Procs, NEW b \in Blocks, NEW v \in Data, Modify(p, b, v) PROVE A!Next
  <2>1. /\ UNCHANGED <<disk, dlog, dhead>> /\ pc[p] = "op" /\ cache' = [cache EXCEPT ![b] = v]
        /\ pc'[p] = "modified" /\ \A q \in Procs \ {p} : pc'[q] = pc[q]
    BY <1>0, <1>4 DEF Modify, Goto, diskVars
  <2>2. ~Recovering  BY <2>1, CallerRuns DEF OpPcs
  <2>3. ~Recovering'  BY <2>1, <2>2 DEF Recovering, RecoveryPcs
  <2>4. p \in InOp /\ InOp' = InOp  BY <2>1 DEF InOp, OpPcs
  <2>5. Recovered' = Recovered  BY <2>1, RecoveredSame
  <2>6. View' = [View EXCEPT ![b] = v]
    BY <1>0, <2>1, DataAssumption DEF View
  <2>7. A!Write(p, b, v)  BY <2>2, <2>3, <2>4, <2>5, <2>6 DEF A!Write
  <2>8. QED  BY <2>7 DEF A!Next
<1>5. ASSUME NEW p \in Procs, EndOp(p) PROVE A!Next
  <2>1. /\ UNCHANGED <<disk, dlog, dhead, cache>> /\ pc[p] = "op"
    BY <1>5 DEF EndOp, diskVars
  <2>2. ~Recovering /\ ~committing  BY <2>1, CallerRuns DEF OpPcs
  <2>3. /\ pc'[p] \in {"idle", "write_log", "committed"}
        /\ \A q \in Procs \ {p} : pc'[q] = pc[q] \/ (pc[q] = "sleep" /\ pc'[q] = "begin")
    <3>1. CASE outstanding = 1  BY <1>0, <1>5, <2>2, <3>1 DEF EndOp, Goto
    <3>2. CASE outstanding # 1  BY <1>0, <1>5, <2>1, <2>2, <3>2, WakeupFacts DEF EndOp
    <3>3. QED  BY <3>1, <3>2
  <2>4. ~Recovering'  BY <2>2, <2>3 DEF Recovering, RecoveryPcs
  <2>5. p \in InOp /\ InOp' = InOp \ {p}  BY <2>1, <2>3 DEF InOp, OpPcs
  <2>6. Recovered' = Recovered /\ Seen' = Seen
    BY <2>1, <2>2, <2>4, RecoveredSame, ViewSame DEF Seen
  <2>7. A!End(p)  BY <2>5, <2>6 DEF A!End, Seen
  <2>8. QED  BY <2>7 DEF A!Next
<1>6. ASSUME NEW p \in Procs, WriteLog(p) PROVE UNCHANGED A!vars
  <2>1. /\ UNCHANGED <<disk, dhead, cache>> /\ pc[p] = "write_log"
        /\ pc'[p] \in {"write_log", "write_head"} /\ \A q \in Procs \ {p} : pc'[q] = pc[q]
    BY <1>0, <1>6 DEF WriteLog, Goto
  <2>2. ~Recovering /\ \A q \in Procs \ {p} : pc[q] \notin CommitPcs
    BY <2>1, CommitterAlone DEF CommitPcs
  <2>3. dhead = <<>>
    BY <2>1, <2>2 DEF CInv, HeadInv, Recovering, CommitPcs, RecoveryPcs
  <2>4. Recovered' = Recovered  BY <2>1, <2>3 DEF Recovered, Occurs
  <2>5. ~Recovering' /\ InOp' = InOp
    BY <2>1, <2>2 DEF Recovering, RecoveryPcs, InOp, OpPcs
  <2>6. QED  BY <2>1, <2>2, <2>4, <2>5, ViewSame, Stutters DEF Seen
<1>6b. ASSUME NEW p \in Procs, WriteLogBeyond(p) PROVE UNCHANGED A!vars
  <2>1. /\ UNCHANGED <<disk, dlog, dhead, cache>> /\ pc[p] = "write_log"
        /\ pc'[p] = "overrun" /\ \A q \in Procs \ {p} : pc'[q] = pc[q]
    BY <1>0, <1>6b DEF WriteLogBeyond, Goto, diskVars, memVars
  <2>2. Recovering' = Recovering  BY <2>1 DEF Recovering, RecoveryPcs
  <2>3. InOp' = InOp  BY <2>1 DEF InOp, OpPcs
  <2>4. QED  BY <2>1, <2>2, <2>3, SeenSame, Stutters
<1>7. ASSUME NEW p \in Procs, WriteHead(p) PROVE A!Next
  <2>1. /\ UNCHANGED <<disk, cache>> /\ pc[p] = "write_head"
        /\ pc'[p] = "install" /\ \A q \in Procs \ {p} : pc'[q] = pc[q]
    BY <1>0, <1>7 DEF WriteHead, Goto
  <2>2. ~Recovering /\ InOp = {}
    BY <2>1, CommitterAlone DEF CommitPcs
  <2>3. ~Recovering' /\ InOp' = InOp
    BY <2>1, <2>2 DEF Recovering, RecoveryPcs, InOp, OpPcs
  <2>4. Recovered' = View /\ View' = View  BY <1>7, <2>1, CommitPoint, ViewSame
  <2>5. A!Commit  BY <2>2, <2>3, <2>4 DEF A!Commit
  <2>6. QED  BY <2>5 DEF A!Next
<1>8. ASSUME NEW p \in Procs, EndCommit(p) PROVE UNCHANGED A!vars
  <2>1. /\ UNCHANGED <<disk, dlog, dhead, cache>> /\ pc[p] = "committed" /\ pc'[p] = "idle"
        /\ \A q \in Procs \ {p} : pc'[q] = pc[q] \/ (pc[q] = "sleep" /\ pc'[q] = "begin")
    BY <1>0, <1>8, WakeupFacts DEF EndCommit, diskVars
  <2>2. Recovering' = Recovering  BY <2>1 DEF Recovering, RecoveryPcs
  <2>3. InOp' = InOp  BY <2>1 DEF InOp, OpPcs
  <2>4. QED  BY <2>1, <2>2, <2>3, SeenSame, Stutters
<1>9. ASSUME NEW b \in Blocks, Load(b) \/ Evict(b) PROVE UNCHANGED A!vars
  <2>1. UNCHANGED <<disk, dlog, dhead, pc>>  BY <1>9 DEF Load, Evict, diskVars
  <2>2. Recovering' = Recovering /\ InOp' = InOp  BY <2>1 DEF Recovering, InOp
  <2>3. View' = View
    <3>1. CASE Load(b)
      BY <1>0, <2>1, <3>1, DataAssumption DEF Load, View
    <3>2. CASE Evict(b)
      <4>1. cache[b] = disk[b]
        BY <3>2 DEF Evict, CInv, CleanInv
      <4>2. QED  BY <1>0, <2>1, <3>2, <4>1, DataAssumption DEF Evict, View
    <3>3. QED  BY <1>9, <3>1, <3>2
  <2>4. QED  BY <2>1, <2>2, <2>3, RecoveredSame, Stutters DEF Seen
<1>10. ASSUME NEW p \in Procs, Crash(p) PROVE A!Next
  <2>1. /\ UNCHANGED <<disk, dlog, dhead>> /\ pc'[p] = "read_head"
        /\ \A q \in Procs \ {p} : pc'[q] = "off"
    BY <1>10 DEF Crash, diskVars
  <2>2. Recovering' /\ InOp' = {}
    BY <2>1 DEF Recovering, RecoveryPcs, InOp, OpPcs
  <2>3. Recovered' = Recovered  BY <2>1, RecoveredSame
  <2>4. A!Crash  BY <2>2, <2>3 DEF A!Crash
  <2>5. QED  BY <2>4 DEF A!Next
<1>11. ASSUME NEW p \in Procs, ReadHead(p) PROVE UNCHANGED A!vars
  <2>1. /\ UNCHANGED <<disk, dlog, dhead, cache>> /\ pc[p] = "read_head"
        /\ pc'[p] \in {"r_install", "r_erase"} /\ \A q \in Procs \ {p} : pc'[q] = pc[q]
    BY <1>0, <1>11 DEF ReadHead, Goto, diskVars
  <2>2. Recovering' = Recovering  BY <2>1 DEF Recovering, RecoveryPcs
  <2>3. InOp' = InOp  BY <2>1 DEF InOp, OpPcs
  <2>4. QED  BY <2>1, <2>2, <2>3, SeenSame, Stutters
<1>12. ASSUME NEW p \in Procs, ProcStep(p) PROVE [A!Next]_(A!vars)
  BY <1>12, <1>2, <1>3, <1>4, <1>5, <1>6, <1>6b, <1>7, <1>8, <1>11, InstallUnseen,
     EraseUnseen
     DEF ProcStep, CommitStep, RecoveryStep
<1>13. QED  BY <1>1, <1>9, <1>10, <1>12 DEF Next

(* The write-ahead log of log.c implements AtomicDisk: what a reboot finds *)
(* changes only at the header write, and there to exactly what the         *)
(* finished calls wrote; a crash, also one during recovery, loses at most  *)
(* the transaction that has not committed.                                 *)
THEOREM LogIsAtomic == Spec => AtomicCommit
<1>1. Init => A!Init
  <2> SUFFICES ASSUME Init PROVE A!Init  OBVIOUS
  <2>1. Recovered = disk /\ View = disk
    BY OccursEmpty DEF Init, Recovered, View
  <2>2. InOp = {} /\ ~Recovering
    BY DEF Init, InOp, OpPcs, Recovering, RecoveryPcs
  <2>3. QED  BY <2>1, <2>2 DEF A!Init, Init
<1>2. IInv /\ CInv /\ [Next]_vars => [A!Next]_(A!vars)  BY RefinementStep
<1>3. QED  BY <1>1, <1>2, CrashInvariant, PTL DEF Spec, AtomicCommit, A!Spec
===============================================================================
