---------------------------------- MODULE MLQ ----------------------------------
(***************************************************************************)
(* The multi-level queue scheduler and the process table of                *)
(* 04_xv6_scheduling/src/proc.c.                                           *)
(*                                                                         *)
(* Whatever the code does under ptable.lock is one step; what it does      *)
(* without it (allocproc after the slot is found, proc_setpri) is several, *)
(* with timer interrupts and other CPUs in between.  Slots of the process  *)
(* table and queue nodes are numbered, as the code scans both in order;    *)
(* 0 is the null pointer.                                                  *)
(***************************************************************************)
EXTENDS Integers, Sequences, FiniteSets, FiniteSetsExt, Folds

CONSTANTS
  NPROC,      \* slots of the process table, and queue nodes
  NCPU,       \* processors
  NLAYER,     \* queues; the highest number runs first
  SLICE,      \* ticks: a slice on queue i is (NLAYER+1-i)*SLICE (4 in the code)
  MaxSetPri,  \* bound on calls of setpri
  MaxFail,    \* bound on failing forks
  MaxKill     \* bound on processes killed and not yet reaped

ASSUME MLQAssumption ==
  /\ NPROC \in Nat \ {0} /\ NCPU \in Nat \ {0} /\ NLAYER \in Nat \ {0}
  /\ SLICE \in Nat \ {0} /\ MaxSetPri \in Nat /\ MaxFail \in Nat /\ MaxKill \in Nat

Slots == 1..NPROC
Nodes == 1..NPROC
CPUs  == 1..NCPU
Pris  == 0..(NLAYER - 1)
init  == 1                          \* initproc

VARIABLES
  state,     \* p->state
  parent,    \* p->parent
  killed,    \* slots with p->killed
  kpc,       \* where the process is in the kernel
  obj,       \* the slot its fork or setpri is working on
  found,     \* the queue node its allocproc has picked
  priority,  \* p->priority
  putin,     \* p->put_in
  qnode,     \* p->q_node
  inuse,     \* queue nodes with inuse set
  nproc,     \* node->proc
  q,         \* the queues: node->next, node->ticks, q_head, q_tail
  cpu,       \* c->proc
  fault,     \* a null or wild pointer was used, or a loop never ends
  setpris,   \* calls of setpri so far
  fails,     \* failed forks so far
  raced      \* history: a setpri was preempted half-way, or two allocprocs
             \* have picked the same queue node

tableVars == <<state, parent, killed, kpc, obj, found, cpu>>
queueVars == <<priority, putin, qnode, inuse, nproc, q>>
countVars == <<setpris, fails, raced>>
vars == <<state, parent, killed, kpc, obj, found, priority, putin, qnode, inuse,
          nproc, q, cpu, fault, setpris, fails, raced>>

States == {"UNUSED", "EMBRYO", "SLEEPING", "RUNNABLE", "RUNNING", "ZOMBIE"}
Kpcs   == {"run", "wait", "io", "kalloc", "find", "take", "copy",
           "rm", "put", "setin"}

SetPriPcs == {"rm", "put", "setin"}

(* A mutant: a time slice that never runs out. *)
SliceNever(pri) == (NLAYER + 1) * SLICE + 2

(* The ticks a process may use on queue pri before it goes to the tail. *)
Slice(pri) == (NLAYER + 1 - pri) * SLICE

TickCap    == (NLAYER + 1) * SLICE + 1   \* ticks saturate here, past any slice

Queues == [next : [Nodes -> 0..NPROC], ticks : [Nodes -> 0..TickCap],
           head : [Pris -> 0..NPROC], tail : [Pris -> 0..NPROC]]
-------------------------------------------------------------------------------
(* The queues.  A queue value with stuck = TRUE stands for a walk that      *)
(* dereferences a bad pointer or never ends.                                *)

(* The nodes a walk from q_head[pri] visits, 0 once it has ended. *)
Walk(s, pri) ==
  LET w[k \in 0..NPROC] ==
        IF k = 0 THEN s.head[pri]
        ELSE IF w[k - 1] = 0 THEN 0 ELSE s.next[w[k - 1]]
  IN w

InQueue(s, pri) == {Walk(s, pri)[k] : k \in 0..NPROC} \ {0}

(* A mutant: put_tail_q() that keeps the old next pointer. *)
put_tail_q_stale(s, node, pri) ==
  LET t == s.tail[pri]
      new == [s EXCEPT !.ticks[node] = 0, !.tail[pri] = node]
  IN IF t = 0 THEN [new EXCEPT !.head[pri] = node]
              ELSE [new EXCEPT !.next[t] = node]

put_tail_q(s, node, pri) ==
  IF node = 0 THEN [s EXCEPT !.stuck = TRUE]
  ELSE LET t == s.tail[pri]
           new == [s EXCEPT !.next[node] = 0, !.ticks[node] = 0,
                            !.tail[pri] = node]
       IN IF t = 0 THEN [new EXCEPT !.head[pri] = node]
                   ELSE [new EXCEPT !.next[t] = node]

(* Unlinking a node that is not the head leaves q_tail alone. *)
Unlink(s, node, pri) ==
  LET w == Walk(s, pri)
      before == {k \in 0..NPROC : w[k] # 0 /\ s.next[w[k]] = node}
  IN IF before # {}
       THEN [s EXCEPT !.next[w[Min(before)]] = s.next[node]]
       ELSE IF w[NPROC] = 0 THEN s                    \* reached the end
                            ELSE [s EXCEPT !.stuck = TRUE]

(* q_head[-1] is the inuse word of the last queue node. *)
rm_from_q(s, node, pri) ==
  IF pri = -1
    THEN IF NPROC \in inuse THEN [s EXCEPT !.stuck = TRUE] ELSE s
  ELSE IF s.head[pri] = 0 THEN s
  ELSE IF s.head[pri] = node
    THEN [s EXCEPT !.tail[pri] = IF @ = node THEN 0 ELSE @,
                   !.head[pri] = s.next[node]]
  ELSE IF node = 0 THEN [s EXCEPT !.stuck = Walk(s, pri)[NPROC] # 0]
  ELSE Unlink(s, node, pri)

(* refresh_q()'s work on one slot; s also carries put_in. *)
RefreshSlot(s, p) ==
  LET in == s.putin[p]
      moved == [put_tail_q(IF in = -1 THEN s ELSE rm_from_q(s, qnode[p], in),
                           qnode[p], priority[p])
                  EXCEPT !.putin[p] = priority[p]]
      ended == s.ticks[qnode[p]] = Slice(in)
  IN IF s.stuck \/ state[p] = "UNUSED" \/ (state[p] # "RUNNABLE" /\ in = -1) THEN s
     ELSE IF state[p] # "RUNNABLE"
       THEN [rm_from_q(s, qnode[p], in) EXCEPT !.putin[p] = -1]
     ELSE IF in = -1 \/ in # priority[p] THEN moved
     ELSE IF qnode[p] = 0 THEN [s EXCEPT !.stuck = TRUE]
     ELSE IF ended THEN moved ELSE s

Working == [next |-> q.next, ticks |-> q.ticks, head |-> q.head,
            tail |-> q.tail, putin |-> putin, stuck |-> FALSE]

refresh_q ==
  LET r[p \in 0..NPROC] == IF p = 0 THEN Working
                           ELSE CHOOSE t \in {RefreshSlot(s, p) : s \in {r[p - 1]}} : TRUE
  IN r[NPROC]

SetQueues(s) == q' = [next |-> s.next, ticks |-> s.ticks,
                      head |-> s.head, tail |-> s.tail]
-------------------------------------------------------------------------------
(* The state userinit() leaves: the first process is RUNNABLE, in no queue. *)
Init ==
  /\ state = [p \in Slots |-> IF p = init THEN "RUNNABLE" ELSE "UNUSED"]
  /\ parent = [p \in Slots |-> 0]
  /\ killed = {}
  /\ kpc = [p \in Slots |-> "run"]
  /\ obj = [p \in Slots |-> 0]
  /\ found = [p \in Slots |-> 0]
  /\ priority = [p \in Slots |-> IF p = init THEN NLAYER - 1 ELSE 0]
  /\ putin = [p \in Slots |-> -1]
  /\ qnode = [p \in Slots |-> IF p = init THEN 1 ELSE 0]
  /\ inuse = {1}
  /\ nproc = [n \in Nodes |-> IF n = 1 THEN init ELSE 0]
  /\ q = [next |-> [n \in Nodes |-> 0], ticks |-> [n \in Nodes |-> 0],
          head |-> [i \in Pris |-> 0], tail |-> [i \in Pris |-> 0]]
  /\ cpu = [c \in CPUs |-> 0]
  /\ fault = FALSE
  /\ setpris = 0
  /\ fails = 0
  /\ raced = FALSE

Running(c, p) == cpu[c] = p /\ p # 0
Free(c) == cpu' = [cpu EXCEPT ![c] = 0]
Goto(p, l) == kpc' = [kpc EXCEPT ![p] = l]

Nonempty(s) == {i \in Pris : s.head[i] # 0}

(* A mutant: the scheduler searches the layers from the bottom. *)
LowestQueue(s) == Min(Nonempty(s))

(* The queue the scheduler's loop over the layers stops at. *)
TopQueue(s) == Max(Nonempty(s))

(* p, at the head of the highest queue, is charged a tick and switched to.   *)
(* A sleeper would return from sleep(); one that has no stack to switch to,  *)
(* or has exited, brings the kernel down.                                    *)
Switch(c, s, p) ==
  IF qnode[p] = 0 \/ state[p] \in {"UNUSED", "EMBRYO", "ZOMBIE"}
    THEN /\ fault' = TRUE
         /\ SetQueues(s)
         /\ UNCHANGED <<state, kpc, cpu>>
    ELSE /\ SetQueues([s EXCEPT !.ticks[qnode[p]] =
                         IF @ < TickCap THEN @ + 1 ELSE @])
         /\ state' = [state EXCEPT ![p] = "RUNNING"]
         /\ kpc' = [kpc EXCEPT ![p] = IF @ = "io" THEN "run" ELSE @]
         /\ cpu' = [cpu EXCEPT ![c] = p]
         /\ UNCHANGED fault

(* One pass of scheduler(): refresh the queues and switch to the process at *)
(* the head of the highest one.                                             *)
Schedule(c) ==
  /\ cpu[c] = 0
  /\ \E s \in {refresh_q} :
       \/ /\ s.stuck
          /\ fault' = TRUE
          /\ UNCHANGED <<state, kpc, cpu, q, putin>>
       \/ /\ ~s.stuck /\ Nonempty(s) = {}
          /\ SetQueues(s)
          /\ putin' = s.putin
          /\ UNCHANGED <<state, kpc, cpu, fault>>
       \/ /\ ~s.stuck /\ Nonempty(s) # {}
          /\ putin' = s.putin
          /\ Switch(c, s, nproc[s.head[TopQueue(s)]])
  /\ UNCHANGED <<parent, killed, obj, found, priority, qnode, inuse, nproc,
                 countVars>>

(* A timer interrupt makes the running process yield(), wherever it is in  *)
(* the kernel with interrupts on.                                          *)
Yield(c, p) ==
  /\ Running(c, p)
  /\ kpc[p] # "wait"
  /\ state' = [state EXCEPT ![p] = "RUNNABLE"]
  /\ Free(c)
  /\ raced' = (raced \/ kpc[p] \in SetPriPcs)
  /\ UNCHANGED <<parent, killed, kpc, obj, found, queueVars, fault, setpris,
                 fails>>

(* sleep() on something outside this model: a disk block, a pipe, the clock. *)
Sleep(c, p) ==
  /\ Running(c, p)
  /\ kpc[p] = "run"
  /\ state' = [state EXCEPT ![p] = "SLEEPING"]
  /\ Goto(p, "io")
  /\ Free(c)
  /\ UNCHANGED <<parent, killed, obj, found, queueVars, fault, countVars>>

(* wakeup() of those that sleep on one such thing. *)
Wakeup ==
  /\ \E S \in SUBSET {p \in Slots : state[p] = "SLEEPING" /\ kpc[p] = "io"} :
       /\ S # {}
       /\ state' = [p \in Slots |-> IF p \in S THEN "RUNNABLE" ELSE state[p]]
  /\ UNCHANGED <<parent, killed, kpc, obj, found, cpu, queueVars, fault,
                 countVars>>
-------------------------------------------------------------------------------
(* fork2(): allocproc() takes the slot under the lock, ... *)
ForkSlot(c, p) ==
  /\ Running(c, p)
  /\ kpc[p] = "run"
  /\ LET free == {r \in Slots : state[r] = "UNUSED"}
     IN /\ free # {}
        /\ state' = [state EXCEPT ![Min(free)] = "EMBRYO"]
        /\ obj' = [obj EXCEPT ![p] = Min(free)]
  /\ Goto(p, "kalloc")
  /\ UNCHANGED <<parent, killed, found, cpu, queueVars, fault, countVars>>

(* ... gets a kernel stack, or gives the slot back, ... *)
ForkStack(c, p) ==
  /\ Running(c, p)
  /\ kpc[p] = "kalloc"
  /\ Goto(p, "find")
  /\ UNCHANGED <<state, parent, killed, obj, found, cpu, queueVars, fault,
                 countVars>>

ForkNoStack(c, p) ==
  /\ Running(c, p)
  /\ kpc[p] = "kalloc"
  /\ fails < MaxFail
  /\ fails' = fails + 1
  /\ state' = [state EXCEPT ![obj[p]] = "UNUSED"]
  /\ Goto(p, "run")
  /\ obj' = [obj EXCEPT ![p] = 0]
  /\ UNCHANGED <<parent, killed, found, cpu, queueVars, fault, setpris, raced>>

(* ... looks for a queue node that is not in use, ... *)
ForkFindNode(c, p) ==
  /\ Running(c, p)
  /\ kpc[p] = "find"
  /\ LET free == Nodes \ inuse
     IN found' = [found EXCEPT ![p] = IF free = {} THEN 0 ELSE Min(free)]
  /\ raced' = (raced \/ \E r \in Slots \ {p} : found[r] # 0 /\ found[r] = found'[p])
  /\ Goto(p, "take")
  /\ UNCHANGED <<state, parent, killed, obj, cpu, queueVars, fault, setpris,
                 fails>>

(* ... and takes it; with none left p->q_node keeps its old value. *)
ForkTakeNode(c, p) ==
  /\ Running(c, p)
  /\ kpc[p] = "take"
  /\ LET n == found[p]
     IN IF n = 0 THEN UNCHANGED <<inuse, nproc, q, qnode>>
        ELSE /\ inuse' = inuse \cup {n}
             /\ nproc' = [nproc EXCEPT ![n] = obj[p]]
             /\ q' = [q EXCEPT !.next[n] = 0]
             /\ qnode' = [qnode EXCEPT ![obj[p]] = n]
  /\ putin' = [putin EXCEPT ![obj[p]] = -1]
  /\ found' = [found EXCEPT ![p] = 0]
  /\ Goto(p, "copy")
  /\ UNCHANGED <<state, parent, killed, obj, cpu, priority, fault,
                 countVars>>

(* copyuvm() fails: the slot is given back, the queue node is not. *)
ForkNoCopy(c, p) ==
  /\ Running(c, p)
  /\ kpc[p] = "copy"
  /\ fails < MaxFail
  /\ fails' = fails + 1
  /\ state' = [state EXCEPT ![obj[p]] = "UNUSED"]
  /\ Goto(p, "run")
  /\ obj' = [obj EXCEPT ![p] = 0]
  /\ UNCHANGED <<parent, killed, found, cpu, queueVars, fault, setpris, raced>>

(* The child becomes RUNNABLE with priority pri. *)
FinishFork(c, p, pri) ==
  /\ Running(c, p)
  /\ kpc[p] = "copy"
  /\ LET np == obj[p]
     IN /\ parent' = [parent EXCEPT ![np] = p]
        /\ priority' = [priority EXCEPT ![np] = pri]
        /\ IF qnode[np] = 0
             THEN fault' = TRUE /\ UNCHANGED <<nproc, state>>
             ELSE /\ nproc' = [nproc EXCEPT ![qnode[np]] = np]
                  /\ state' = [state EXCEPT ![np] = "RUNNABLE"]
                  /\ UNCHANGED fault
        /\ kpc' = [kpc EXCEPT ![p] = "run", ![np] = "run"]
  /\ obj' = [obj EXCEPT ![p] = 0]
  /\ UNCHANGED <<killed, found, cpu, putin, qnode, inuse, q, countVars>>

(* A mutant: fork2() that accepts one priority too many. *)
ForkAnyPri(c, p) == \E pri \in 0..NLAYER : FinishFork(c, p, pri)

(* The priority is the one fork2() was given, or the caller's for fork(). *)
ForkDone(c, p) == \E pri \in Pris : FinishFork(c, p, pri)
-------------------------------------------------------------------------------
(* The slots wakeup1(chan) makes RUNNABLE, for chan a process in wait(). *)
InWait(r) == state[r] = "SLEEPING" /\ kpc[r] = "wait"

Kids(p) == {r \in Slots : parent[r] = p}
Zombies(p) == {r \in Kids(p) : state[r] = "ZOMBIE"}

(* A mutant: exit() that does not wake its parent. *)
InitOnly(p) == {r \in {init} : InWait(r) /\ Zombies(p) # {}}

(* exit() wakes its parent, and init if it passes a ZOMBIE on to it. *)
WokenByExit(p) == {r \in {parent[p]} \ {0} : InWait(r)} \cup
                  {r \in {init} : InWait(r) /\ Zombies(p) # {}}

(* A mutant: exit() that leaves its children with it. *)
KeepParent(p) == parent

(* exit() hands its children to init. *)
Reparented(p) == [r \in Slots |-> IF r \in Kids(p) THEN init ELSE parent[r]]

(* exit(): wake the parent, hand the children to init, become ZOMBIE. *)
Exit(c, p) ==
  /\ Running(c, p)
  /\ kpc[p] = "run"
  /\ p # init
  /\ state' = [r \in Slots |-> IF r = p THEN "ZOMBIE"
                                ELSE IF r \in WokenByExit(p) THEN "RUNNABLE"
                                ELSE state[r]]
  /\ parent' = Reparented(p)
  /\ Free(c)
  /\ UNCHANGED <<killed, kpc, obj, found, queueVars, fault, countVars>>

(* wait() that finds a ZOMBIE child: free its slot and its queue node. *)
WaitReap(c, p) ==
  /\ Running(c, p)
  /\ kpc[p] \in {"run", "wait"}
  /\ Zombies(p) # {}
  /\ LET z == Min(Zombies(p))
     IN /\ state' = [state EXCEPT ![z] = "UNUSED"]
        /\ parent' = [parent EXCEPT ![z] = 0]
        /\ killed' = killed \ {z}
        /\ IF qnode[z] = 0 THEN fault' = TRUE /\ UNCHANGED <<inuse, qnode>>
           ELSE /\ inuse' = inuse \ {qnode[z]}
                /\ qnode' = [qnode EXCEPT ![z] = 0]
                /\ UNCHANGED fault
  /\ Goto(p, "run")
  /\ UNCHANGED <<obj, found, priority, putin, nproc, q, cpu, countVars>>

(* A mutant: wait() that does not look at p->killed before it sleeps. *)
HasKids(p) == Kids(p) # {}

(* There is something to wait for, and nobody has killed p. *)
KeepWaiting(p) == Kids(p) # {} /\ p \notin killed

(* wait() with living children only sleeps on its own slot ... *)
WaitSleep(c, p) ==
  /\ Running(c, p)
  /\ kpc[p] \in {"run", "wait"}
  /\ Zombies(p) = {} /\ KeepWaiting(p)
  /\ state' = [state EXCEPT ![p] = "SLEEPING"]
  /\ Goto(p, "wait")
  /\ Free(c)
  /\ UNCHANGED <<parent, killed, obj, found, queueVars, fault, countVars>>

(* ... and with no children, or once killed, returns -1. *)
WaitNone(c, p) ==
  /\ Running(c, p)
  /\ kpc[p] = "wait"
  /\ Zombies(p) = {} /\ ~KeepWaiting(p)
  /\ Goto(p, "run")
  /\ UNCHANGED <<state, parent, killed, obj, found, cpu, queueVars, fault,
                 countVars>>

(* kill(): any process with a pid; a sleeper is woken. *)
Kill(c, p, r) ==
  /\ Running(c, p)
  /\ kpc[p] = "run"
  /\ r \notin killed
  /\ Cardinality(killed) < MaxKill
  /\ killed' = killed \cup {r}
  /\ state' = [state EXCEPT ![r] = IF @ = "SLEEPING" THEN "RUNNABLE" ELSE @]
  /\ UNCHANGED <<parent, kpc, obj, found, cpu, queueVars, fault, countVars>>
-------------------------------------------------------------------------------
(* proc_setpri(), which takes no lock: p->priority = pri; ... *)
SetPri(c, p, r, pri) ==
  /\ Running(c, p)
  /\ kpc[p] = "run"
  /\ setpris < MaxSetPri
  /\ setpris' = setpris + 1
  /\ priority' = [priority EXCEPT ![r] = pri]
  /\ obj' = [obj EXCEPT ![p] = r]
  /\ Goto(p, "rm")
  /\ UNCHANGED <<state, parent, killed, found, cpu, putin, qnode, inuse, nproc,
                 q, fault, fails, raced>>

(* ... rm_from_q(p->q_node, p->put_in); ... *)
SetPriRemove(c, p) ==
  /\ Running(c, p)
  /\ kpc[p] = "rm"
  /\ \E s \in {rm_from_q(Working, qnode[obj[p]], putin[obj[p]])} :
       SetQueues(s) /\ fault' = s.stuck
  /\ Goto(p, "put")
  /\ UNCHANGED <<state, parent, killed, obj, found, cpu, priority, putin, qnode,
                 inuse, nproc, countVars>>

(* ... put_tail_q(p->q_node, p->priority); ... *)
SetPriPut(c, p) ==
  /\ Running(c, p)
  /\ kpc[p] = "put"
  /\ \E s \in {put_tail_q(Working, qnode[obj[p]], priority[obj[p]])} :
       SetQueues(s) /\ fault' = s.stuck
  /\ Goto(p, "setin")
  /\ UNCHANGED <<state, parent, killed, obj, found, cpu, priority, putin, qnode,
                 inuse, nproc, countVars>>

(* ... p->put_in = p->priority. *)
SetPriDone(c, p) ==
  /\ Running(c, p)
  /\ kpc[p] = "setin"
  /\ putin' = [putin EXCEPT ![obj[p]] = priority[obj[p]]]
  /\ obj' = [obj EXCEPT ![p] = 0]
  /\ Goto(p, "run")
  /\ UNCHANGED <<state, parent, killed, found, cpu, priority, qnode, inuse,
                 nproc, q, fault, countVars>>
-------------------------------------------------------------------------------
Fork(c, p) == \/ ForkSlot(c, p) \/ ForkStack(c, p) \/ ForkNoStack(c, p)
              \/ ForkFindNode(c, p) \/ ForkTakeNode(c, p) \/ ForkNoCopy(c, p)
              \/ ForkDone(c, p)

Wait(c, p) == WaitReap(c, p) \/ WaitSleep(c, p) \/ WaitNone(c, p)

SetPriStep(c, p) == SetPriRemove(c, p) \/ SetPriPut(c, p) \/ SetPriDone(c, p)

ProcStep(c, p) ==
  \/ Fork(c, p) \/ Exit(c, p) \/ Wait(c, p) \/ Sleep(c, p) \/ SetPriStep(c, p)
  \/ \E r \in Slots : Kill(c, p, r) \/ \E pri \in Pris : SetPri(c, p, r, pri)

(* Neither setpri nor a failing fork has touched the queues or the nodes,   *)
(* and no two forks have picked the same node.                              *)
Clean == setpris = 0 /\ fails = 0 /\ ~raced

(* q_head/next/q_tail of one level form a proper list, of the nodes of just *)
(* the processes whose put_in names that level.                             *)
QueueOK(i) ==
  LET w == Walk(q, i)
      in == InQueue(q, i)
  IN /\ w[NPROC] = 0
     /\ (q.head[i] = 0) = (q.tail[i] = 0)
     /\ q.tail[i] # 0 => q.tail[i] \in in /\ q.next[q.tail[i]] = 0
     /\ in = {qnode[p] : p \in {r \in Slots : putin[r] = i}}
     /\ \A n \in in : n \in inuse /\ qnode[nproc[n]] = n

(* A fault ends everything. *)
Next == /\ ~fault
        /\ \/ \E c \in CPUs : Schedule(c)
           \/ \E c \in CPUs, p \in Slots : Yield(c, p) \/ ProcStep(c, p)
           \/ Wakeup

Spec == Init /\ [][Next]_vars

(* Every CPU keeps scheduling and the timer keeps interrupting. *)
Fairness == \A c \in CPUs :
  /\ WF_vars(~fault /\ Schedule(c))
  /\ SF_vars(~fault /\ \E p \in Slots : Yield(c, p))
  /\ WF_vars(~fault /\ \E p \in Slots : kpc[p] = "wait" /\ Wait(c, p))

FairSpec == Spec /\ Fairness
-------------------------------------------------------------------------------
(* Every variable keeps its type. *)
TypeOK ==
  /\ state \in [Slots -> States]
  /\ parent \in [Slots -> 0..NPROC]
  /\ killed \in SUBSET Slots
  /\ kpc \in [Slots -> Kpcs]
  /\ obj \in [Slots -> 0..NPROC]
  /\ found \in [Slots -> 0..NPROC]
  /\ priority \in [Slots -> Pris]
  /\ putin \in [Slots -> Pris \cup {-1}]
  /\ qnode \in [Slots -> 0..NPROC]
  /\ inuse \in SUBSET Nodes
  /\ nproc \in [Nodes -> 0..NPROC]
  /\ q \in Queues
  /\ cpu \in [CPUs -> 0..NPROC]
  /\ fault \in BOOLEAN
  /\ setpris \in 0..MaxSetPri
  /\ fails \in 0..MaxFail
  /\ raced \in BOOLEAN

(* With fork, exit, wait, sleep, wakeup, kill and preemption in any order,   *)
(* the queues stay proper lists that agree with put_in, and no bad pointer   *)
(* is followed, as long as no setpri was called, no fork failed and no two   *)
(* allocprocs, which search without the lock, have picked the same node.     *)
QueuesSound == Clean => ~fault /\ \A i \in Pris : QueueOK(i)

(* scheduler() hands a CPU only to a RUNNABLE process, and never while one   *)
(* of higher priority is RUNNABLE.                                           *)
PriorityRespected ==
  [][\A c \in CPUs : Clean /\ cpu[c] = 0 /\ cpu'[c] # 0 =>
       /\ state[cpu'[c]] = "RUNNABLE"
       /\ \A p \in Slots : state[p] = "RUNNABLE" =>
                              priority[p] <= priority[cpu'[c]]]_vars

(* exit()'s reparenting: every process with a pid but the first has a parent *)
(* that can still wait() for it.                                             *)
NoOrphan ==
  \A p \in Slots \ {init} : state[p] \notin {"UNUSED", "EMBRYO"} =>
    parent[p] # 0 /\ state[parent[p]] \in {"SLEEPING", "RUNNABLE", "RUNNING"}

(* No lost wakeup between exit() and wait(): nobody sleeps in wait() while   *)
(* a child of its is a ZOMBIE.                                               *)
WaitNotMissed == \A p \in Slots : InWait(p) => Zombies(p) = {}

(* kill() against wait(): a killed process is never left asleep in wait(),   *)
(* whichever of the two comes first.                                         *)
KilledNotAsleep == \A p \in killed : ~InWait(p)

(* A process RUNNABLE on the highest queue gets a CPU: round robin by time   *)
(* slices starves none of them, whatever the others do.                      *)
TopRuns ==
  \A p \in Slots :
    (state[p] = "RUNNABLE" /\ priority[p] = NLAYER - 1)
      ~> (state[p] = "RUNNING" \/ fault \/ ~Clean)

(* Every RUNNABLE process that refresh_q believes to be queued can be found  *)
(* from q_head, also after a setpri that no interrupt has cut in two.        *)
NoLostProcess ==
  ~raced /\ (\A p \in Slots : kpc[p] \notin SetPriPcs) =>
    \A p \in Slots : state[p] = "RUNNABLE" /\ putin[p] # -1 =>
                        qnode[p] \in InQueue(q, putin[p])
===============================================================================
