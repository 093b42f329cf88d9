------------------------------- MODULE MLQProofs -------------------------------
(***************************************************************************)
(* The scheduler and the process table for every size of the table, every  *)
(* number of queues and every time slice, on the one processor the         *)
(* Makefile gives the machine (CPUS := 1).                                 *)
(*                                                                         *)
(* What concerns the process table alone holds whatever setpri and failing *)
(* forks do to the queues; what concerns the queues holds while Clean.     *)
(***************************************************************************)
EXTENDS MLQ, NatSets, SequenceTheorems

Alive  == {"SLEEPING", "RUNNABLE", "RUNNING"}
ForkPcs == {"kalloc", "find", "take", "copy"}

(* Every node that a pointer can lead to has had a process. *)
Named == {n \in Nodes : nproc[n] # 0}

NamedInv ==
  /\ q.next \in [Nodes -> Named \cup {0}]
  /\ q.head \in [Pris -> Named \cup {0}]
  /\ q.tail \in [Pris -> Named \cup {0}]
  /\ qnode \in [Slots -> Named \cup {0}]

(* The running process is the CPU's, a call in progress has its object, and *)
(* only a live process is inside one.                                       *)
RunInv == \A p \in Slots : (state[p] = "RUNNING") <=> (cpu[1] = p)

ObjInv ==
  /\ \A p \in Slots : kpc[p] \in ForkPcs \cup SetPriPcs => obj[p] \in Slots
  /\ \A p \in Slots : kpc[p] \in ForkPcs => state[obj[p]] = "EMBRYO"
  /\ \A p, r \in Slots : kpc[p] \in ForkPcs /\ kpc[r] \in ForkPcs /\ p # r => obj[p] # obj[r]

IdleInv == \A p \in Slots : state[p] \notin Alive => kpc[p] = "run"

(* The tree of processes; the last two say NoOrphan and WaitNotMissed. *)
TreeInv ==
  /\ state[init] \in Alive
  /\ parent[init] = 0
  /\ \A p \in Slots : parent[p] # p
  /\ \A p \in Slots \ {init} : state[p] \notin {"UNUSED", "EMBRYO"} =>
       parent[p] \in Slots /\ state[parent[p]] \in Alive
  /\ \A p, r \in Slots : state[p] = "SLEEPING" /\ kpc[p] = "wait" /\ parent[r] = p =>
       state[r] # "ZOMBIE"

TableInv == TypeOK /\ NamedInv /\ RunInv /\ ObjInv /\ IdleInv /\ TreeInv
-------------------------------------------------------------------------------
(* Every slot in use has one node to itself, and a node is in use for one. *)
NodeInv ==
  /\ \A p \in Slots : qnode[p] # 0 => qnode[p] \in inuse /\ nproc[qnode[p]] = p
  /\ \A n \in inuse : nproc[n] # 0 /\ qnode[nproc[n]] = n
  /\ \A p \in Slots : state[p] \in Alive \cup {"ZOMBIE"} => qnode[p] # 0
  /\ \A p \in Slots : state[p] = "UNUSED" => qnode[p] = 0
  /\ \A p \in Slots : kpc[p] \in {"kalloc", "find", "take"} => qnode[obj[p]] = 0
  /\ \A p \in Slots : kpc[p] = "copy" => qnode[obj[p]] # 0
  /\ \A p \in Slots : IF kpc[p] = "take" THEN found[p] \in Nodes \ inuse ELSE found[p] = 0
  /\ \A p, r \in Slots : found[p] # 0 /\ found[p] = found[r] => p = r

Member(n, l) == \E k \in 1 .. Len(l) : l[k] = n

(* The list l, laid out in the pointers. *)
Linked(next, head, tail, l) ==
  /\ head = IF l = <<>> THEN 0 ELSE l[1]
  /\ tail = IF l = <<>> THEN 0 ELSE l[Len(l)]
  /\ \A k \in 1 .. Len(l) : next[l[k]] = IF k = Len(l) THEN 0 ELSE l[k + 1]
  /\ \A j, k \in 1 .. Len(l) : l[j] = l[k] => j = k

(* s's queue i is the list l, of the nodes whose process has put_in = i. *)
Holds(s, in, i, l) ==
  /\ Linked(s.next, s.head[i], s.tail[i], l)
  /\ \A n \in Nodes : Member(n, l) <=> (n \in inuse /\ in[nproc[n]] = i)

ListsInv(s, in) == \A i \in Pris : \E l \in Seq(Nodes) : Holds(s, in, i, l)

(* p is where refresh_q() leaves it: queued if and only if RUNNABLE, at its *)
(* priority, with ticks left.                                               *)
Fresh(s, in, p) ==
  IF in[p] = -1 THEN state[p] # "RUNNABLE"
  ELSE /\ state[p] = "RUNNABLE"
       /\ in[p] = priority[p]
       /\ s.ticks[qnode[p]] < Slice(priority[p])

(* p is as a process is that has not run since refresh_q(). *)
Waiting(s, in, p) == in[p] # -1 => Fresh(s, in, p)

(* p is the one that has: it is the head of its queue. *)
Ran(s, in, p) ==
  /\ state[p] \in Alive \cup {"ZOMBIE"}
  /\ in[p] = priority[p]
  /\ s.head[in[p]] = qnode[p]
  /\ s.ticks[qnode[p]] <= Slice(priority[p])

QueueInv ==
  /\ ~fault
  /\ \A p \in Slots : kpc[p] \notin SetPriPcs
  /\ NodeInv
  /\ ListsInv(q, putin)
  /\ \E e \in 0 .. NPROC :
       /\ cpu[1] # 0 => e = cpu[1]
       /\ e # 0 => Ran(q, putin, e)
       /\ \A p \in Slots \ {e} : Waiting(q, putin, p)

IInv == TableInv /\ (Clean => QueueInv)
-------------------------------------------------------------------------------
(* The values of a loop of n rounds from a, round k doing F[k]. *)
Loop(S, a, n, F) ==
  {g \in [0 .. n -> S] : g[0] = a /\ \A k \in 1 .. n : g[k] = F[k][g[k - 1]]}

LEMMA LoopExists ==
  ASSUME NEW S, NEW a \in S, NEW n \in Nat, NEW F \in [1 .. n -> [S -> S]]
  PROVE  Loop(S, a, n, F) # {}
<1> DEFINE Upto(m) == \E g \in [0 .. m -> S] :
             g[0] = a /\ \A k \in 1 .. m : g[k] = F[k][g[k - 1]]
           T == {m \in 0 .. n : ~Upto(m)}
<1> SUFFICES ASSUME n \in T PROVE FALSE
  BY DEF Loop
<1>1. PICK m \in T : \A k \in T : m <= k
  <2>1. T \in SUBSET Nat /\ n \in T
    <3> HIDE DEF Upto
    <3>1. QED  OBVIOUS
  <2> HIDE DEF T
  <2>2. QED  BY <2>1, LeastNat
<1>2. Upto(0)
  <2>1. PICK g \in [0 .. 0 -> S] : g[0] = a
    <3>1. [k \in 0 .. 0 |-> a] \in [0 .. 0 -> S] /\ [k \in 0 .. 0 |-> a][0] = a  OBVIOUS
    <3>2. QED  BY <3>1
  <2>2. 1 .. 0 = {}  OBVIOUS
  <2>3. QED  BY <2>1, <2>2
<1>3. m \in 1 .. n /\ m - 1 \in 0 .. n /\ m - 1 \notin T
  <2>1. m \in 0 .. n /\ ~Upto(m)  OBVIOUS
  <2>2. m # 0
    <3> HIDE DEF Upto
    <3>1. QED  BY <1>2, <2>1
  <2>3. m - 1 \notin T
    <3> HIDE DEF T
    <3>1. QED  BY <1>1, <2>1
  <2> HIDE DEF T
  <2>4. QED  BY <2>1, <2>2, <2>3
<1>4. PICK g \in [0 .. m - 1 -> S] :
        g[0] = a /\ \A k \in 1 .. m - 1 : g[k] = F[k][g[k - 1]]
  BY <1>3
<1>5. PICK v \in S : v = F[m][g[m - 1]]
  <2>1. g[m - 1] \in S  BY <1>3
  <2>2. F[m] \in [S -> S]  BY <1>3
  <2>3. QED  BY <2>1, <2>2
<1>6. PICK h : h = [k \in 0 .. m |-> IF k = m THEN v ELSE g[k]]
  OBVIOUS
<1>7. h \in [0 .. m -> S] /\ h[0] = a
  BY <1>3, <1>4, <1>5, <1>6
<1>8. ASSUME NEW k \in 1 .. m PROVE h[k] = F[k][h[k - 1]]
  <2>1. m \in Nat /\ k - 1 \in 0 .. m /\ k - 1 # m  BY <1>3
  <2>a. h[k - 1] = g[k - 1]  BY <1>6, <2>1
  <2>2. CASE k = m
    <3>1. h[m] = v  BY <1>3, <1>6
    <3>2. QED  BY <1>5, <2>a, <2>2, <3>1
  <2>3. CASE k # m
    <3>1. k \in 1 .. m - 1 /\ h[k] = g[k]  BY <1>3, <1>6, <2>3
    <3>2. QED  BY <1>4, <2>a, <3>1
  <2>4. QED  BY <2>2, <2>3
<1>9. Upto(m)  BY <1>7, <1>8
<1>10. QED  BY <1>9

(* Induction along such a loop. *)
LEMMA LoopIn ==
  ASSUME NEW S, NEW n \in Nat, NEW w, w[0] \in S,
         \A k \in 1 .. n : w[k - 1] \in S => w[k] \in S
  PROVE  \A k \in 0 .. n : w[k] \in S
<1> DEFINE T == {k \in 0 .. n : w[k] \notin S}
<1> SUFFICES ASSUME T # {} PROVE FALSE
  OBVIOUS
<1>1. PICK m \in T : \A k \in T : m <= k
  <2>1. T \in SUBSET Nat  OBVIOUS
  <2> HIDE DEF T
  <2>2. QED  BY <2>1, LeastNat
<1>2. m \in 1 .. n  OBVIOUS
<1>3. m - 1 \in 0 .. n /\ m - 1 < m  BY <1>2
<1>4. w[m - 1] \in S  BY <1>1, <1>3
<1>5. QED  BY <1>2, <1>4

(* The walk along a queue whose pointers stay in M. *)
LEMMA WalkIs ==
  ASSUME NEW s, NEW pri, NEW M \in SUBSET Nodes,
         s.head[pri] \in M \cup {0}, \A x \in M : s.next[x] \in M \cup {0}
  PROVE  /\ Walk(s, pri) \in [0 .. NPROC -> M \cup {0}]
         /\ Walk(s, pri)[0] = s.head[pri]
         /\ \A k \in 1 .. NPROC : Walk(s, pri)[k] =
              IF Walk(s, pri)[k - 1] = 0 THEN 0 ELSE s.next[Walk(s, pri)[k - 1]]
<1> DEFINE St(x) == IF x = 0 THEN 0 ELSE s.next[x]
<1>0. PICK A : A = M \cup {0}  OBVIOUS
<1>1. NPROC \in Nat /\ 0 \notin M  BY MLQAssumption DEF Nodes
<1>2. \A x \in A : St(x) \in A  BY <1>0
<1>a. PICK F : F = [k \in 1 .. NPROC |-> [x \in A |-> St(x)]]  OBVIOUS
<1>3. F \in [1 .. NPROC -> [A -> A]]
  BY <1>2, <1>a
<1>4. \A k \in 1 .. NPROC, x \in A : F[k][x] = St(x)
  BY <1>a
<1>b. PICK a \in A : a = s.head[pri]  BY <1>0
<1>c. Loop(A, a, NPROC, F) # {}
  BY <1>1, <1>3, LoopExists
<1>5. PICK g \in [0 .. NPROC -> A] :
        g[0] = s.head[pri] /\ \A k \in 1 .. NPROC : g[k] = F[k][g[k - 1]]
  BY <1>b, <1>c DEF Loop
<1>6. \A k \in 1 .. NPROC : g[k] = St(g[k - 1])
  <2>1. \A k \in 1 .. NPROC : g[k - 1] \in A  BY <1>1
  <2> HIDE DEF St
  <2>2. QED  BY <1>4, <1>5, <2>1
<1>7. g = [k \in 0 .. NPROC |-> IF k = 0 THEN s.head[pri]
                                ELSE IF g[k - 1] = 0 THEN 0 ELSE s.next[g[k - 1]]]
  BY <1>1, <1>5, <1>6
<1> DEFINE w[k \in 0 .. NPROC] ==
        IF k = 0 THEN s.head[pri]
        ELSE IF w[k - 1] = 0 THEN 0 ELSE s.next[w[k - 1]]
<1>8. w = [k \in 0 .. NPROC |-> IF k = 0 THEN s.head[pri]
                                ELSE IF w[k - 1] = 0 THEN 0 ELSE s.next[w[k - 1]]]
  BY <1>7
<1>9. Walk(s, pri) = w  BY DEF Walk
<1>10. /\ w[0] = s.head[pri]
       /\ \A k \in 1 .. NPROC : w[k] = IF w[k - 1] = 0 THEN 0 ELSE s.next[w[k - 1]]
  <2> HIDE DEF w
  <2>1. 0 \in 0 .. NPROC /\ \A k \in 1 .. NPROC : k \in 0 .. NPROC /\ k # 0  BY <1>1
  <2>2. w[0] = s.head[pri]  BY <1>8, <2>1
  <2>3. \A k \in 1 .. NPROC : w[k] = IF w[k - 1] = 0 THEN 0 ELSE s.next[w[k - 1]]
    BY <1>8, <2>1
  <2>4. QED  BY <2>2, <2>3
<1>11. \A k \in 0 .. NPROC : w[k] \in A
  <2>1. w[0] \in A /\ \A k \in 1 .. NPROC : w[k - 1] \in A => w[k] \in A
    <3> HIDE DEF w
    <3>1. QED  BY <1>0, <1>2, <1>10
  <2> HIDE DEF w
  <2>2. QED  BY <1>1, <2>1, LoopIn
<1>12. w \in [0 .. NPROC -> A]
  <2> HIDE DEF w
  <2>1. QED  BY <1>8, <1>11
<1> HIDE DEF w
<1>13. QED  BY <1>0, <1>9, <1>10, <1>12
-------------------------------------------------------------------------------
(* What refresh_q() works on, with pointers to the nodes of M only. *)
Works(M) == [next : [Nodes -> M \cup {0}], ticks : [Nodes -> 0 .. TickCap],
             head : [Pris -> M \cup {0}], tail : [Pris -> M \cup {0}],
             putin : [Slots -> Pris \cup {-1}], stuck : BOOLEAN]

LEMMA MinIs ==
  ASSUME NEW T \in SUBSET Nat, T # {}
  PROVE  Min(T) \in T /\ \A k \in T : Min(T) <= k
<1>1. PICK m \in T : \A k \in T : m <= k  BY LeastNat
<1>2. QED  BY <1>1 DEF Min

LEMMA MaxIs ==
  ASSUME NEW n \in Nat, NEW T \in SUBSET (0 .. n), T # {}
  PROVE  Max(T) \in T /\ \A k \in T : k <= Max(T)
<1> DEFINE U == {n - k : k \in T}
<1>1. U \in SUBSET Nat /\ U # {}
  <2>1. PICK t \in T : TRUE  OBVIOUS
  <2>2. n - t \in U  OBVIOUS
  <2>3. \A k \in T : n - k \in Nat  OBVIOUS
  <2>4. QED  BY <2>2, <2>3
<1>2. PICK m \in U : \A k \in U : m <= k
  <2> HIDE DEF U
  <2>1. QED  BY <1>1, LeastNat
<1>3. PICK t \in T : m = n - t  BY <1>2
<1>4. \A k \in T : t >= k
  <2> SUFFICES ASSUME NEW k \in T PROVE t >= k
    OBVIOUS
  <2>1. n - k \in U  OBVIOUS
  <2>2. n - t <= n - k  BY <1>2, <1>3, <2>1
  <2>3. QED  BY <2>2
<1>5. Max(T) \in T /\ \A k \in T : Max(T) >= k
  <2> HIDE DEF U
  <2>1. QED  BY <1>4 DEF Max
<1>6. QED  BY <1>5

LEMMA Consts ==
  /\ NPROC \in Nat /\ NPROC >= 1 /\ NLAYER \in Nat /\ NLAYER >= 1
  /\ Slots = 1 .. NPROC /\ Nodes = 1 .. NPROC /\ Pris = 0 .. (NLAYER - 1)
  /\ init \in Slots /\ 0 \notin Slots /\ 0 \notin Nodes /\ -1 \notin Pris
BY MLQAssumption DEF Slots, Nodes, Pris, init

LEMMA TickIs ==
  /\ TickCap \in Nat
  /\ \A i \in Pris : Slice(i) \in Nat /\ 2 <= Slice(i) /\ Slice(i) < TickCap
<1>1. \A a, b \in Nat : a * b \in Nat  OBVIOUS
<1>2. \A a, b, c \in Nat : a <= b => a * c <= b * c  OBVIOUS
<1>3. \A a \in Nat : 1 * a = a  OBVIOUS
<1>4. SLICE \in Nat /\ SLICE >= 1 /\ NLAYER + 1 \in Nat /\ NLAYER \in Nat
  BY MLQAssumption
<1>5. (NLAYER + 1) * SLICE \in Nat  BY <1>1, <1>4
<1>6. TickCap \in Nat /\ TickCap = (NLAYER + 1) * SLICE + 1  BY <1>5 DEF TickCap
<1>7. ASSUME NEW i \in Pris PROVE Slice(i) \in Nat /\ 2 <= Slice(i) /\ Slice(i) < TickCap
  <2>1. PICK d \in Nat : d = NLAYER + 1 - i  BY <1>4 DEF Pris
  <2>2. 2 <= d /\ d <= NLAYER + 1  BY <1>4, <2>1 DEF Pris
  <2>3. d * SLICE \in Nat /\ 2 * SLICE <= d * SLICE /\ d * SLICE <= (NLAYER + 1) * SLICE
    BY <1>1, <1>2, <1>4, <2>2
  <2>4. 2 <= 2 * SLICE  BY <1>4
  <2>5. Slice(i) = d * SLICE  BY <2>1 DEF Slice
  <2>6. PICK x \in Nat : x = d * SLICE  BY <2>3
  <2>7. PICK y \in Nat : y = (NLAYER + 1) * SLICE  BY <1>5
  <2>8. PICK z \in Nat : z = 2 * SLICE  BY <1>4
  <2>9. QED  BY <1>6, <2>3, <2>4, <2>5, <2>6, <2>7, <2>8
<1>8. QED  BY <1>6, <1>7

LEMMA PutType ==
  ASSUME NEW M \in SUBSET Nodes, NEW s \in Works(M), NEW node \in M \cup {0}, NEW pri \in Pris
  PROVE  put_tail_q(s, node, pri) \in Works(M)
<1>1. 0 \in 0 .. TickCap /\ 0 \notin Nodes  BY TickIs, Consts
<1>2. QED  BY <1>1 DEF put_tail_q, Works

LEMMA UnlinkType ==
  ASSUME NEW M \in SUBSET Nodes, NEW s \in Works(M), NEW node \in M, NEW pri \in Pris
  PROVE  Unlink(s, node, pri) \in Works(M)
<1>1. PICK w : w = Walk(s, pri)  OBVIOUS
<1>2. w \in [0 .. NPROC -> M \cup {0}]
  <2>1. s.head[pri] \in M \cup {0} /\ \A x \in M : s.next[x] \in M \cup {0}
    BY DEF Works
  <2>2. QED  BY <1>1, <2>1, WalkIs
<1>3. PICK before : before = {k \in 0 .. NPROC : w[k] # 0 /\ s.next[w[k]] = node}
  OBVIOUS
<1>4. Unlink(s, node, pri) = IF before # {}
       THEN [s EXCEPT !.next[w[Min(before)]] = s.next[node]]
       ELSE IF w[NPROC] = 0 THEN s ELSE [s EXCEPT !.stuck = TRUE]
  BY <1>1, <1>3 DEF Unlink
<1>5. CASE before # {}
  <2>1. before \in SUBSET Nat  BY <1>3, Consts
  <2>2. Min(before) \in before  BY <1>5, <2>1, MinIs
  <2>3. s.next[node] \in M \cup {0}  BY DEF Works
  <2>4. QED  BY <1>4, <1>5, <2>3 DEF Works
<1>6. CASE before = {}
  BY <1>4, <1>6 DEF Works
<1>7. QED  BY <1>5, <1>6

LEMMA RmType ==
  ASSUME NEW M \in SUBSET Nodes, NEW s \in Works(M), NEW node \in M \cup {0},
         NEW pri \in Pris \cup {-1}
  PROVE  rm_from_q(s, node, pri) \in Works(M)
<1>1. CASE pri = -1  BY <1>1 DEF rm_from_q, Works
<1>2. CASE pri \in Pris /\ s.head[pri] = node /\ node # 0
  <2>1. node \in M /\ s.next[node] \in M \cup {0}  BY <1>2 DEF Works
  <2>2. rm_from_q(s, node, pri) = [s EXCEPT !.tail[pri] = IF @ = node THEN 0 ELSE @,
                                            !.head[pri] = s.next[node]]
    BY <1>2, Consts DEF rm_from_q
  <2>3. PICK t \in M \cup {0} : t = IF s.tail[pri] = node THEN 0 ELSE s.tail[pri]
    BY <1>2 DEF Works
  <2>4. rm_from_q(s, node, pri) = [s EXCEPT !.tail[pri] = t, !.head[pri] = s.next[node]]
    BY <2>2, <2>3
  <2>5. rm_from_q(s, node, pri) =
          [next |-> s.next, ticks |-> s.ticks, head |-> [s.head EXCEPT ![pri] = s.next[node]],
           tail |-> [s.tail EXCEPT ![pri] = t], putin |-> s.putin, stuck |-> s.stuck]
    BY <2>4 DEF Works
  <2>6. QED  BY <1>2, <2>1, <2>5 DEF Works
<1>3. CASE pri \in Pris /\ s.head[pri] # node /\ node # 0
  <2>1. Unlink(s, node, pri) \in Works(M)  BY <1>3, UnlinkType
  <2>2. rm_from_q(s, node, pri) \in {s, Unlink(s, node, pri)}
    BY <1>3, Consts DEF rm_from_q
  <2>3. QED  BY <2>1, <2>2
<1>4. CASE pri \in Pris /\ node = 0
  <2>1. PICK b \in BOOLEAN : b = (Walk(s, pri)[NPROC] # 0)  BY Zenon
  <2>2. rm_from_q(s, node, pri) \in {s, [s EXCEPT !.stuck = b]}
    BY <1>4, <2>1, Consts DEF rm_from_q
  <2>3. [s EXCEPT !.stuck = b] \in Works(M)  BY DEF Works
  <2>4. QED  BY <2>2, <2>3
<1>5. QED  BY <1>1, <1>2, <1>3, <1>4

(* What refresh_q() makes of slot p: nothing, a removal or a move. *)
Removed(s, p) == [rm_from_q(s, qnode[p], s.putin[p]) EXCEPT !.putin[p] = -1]
Moved(s, p) ==
  [put_tail_q(IF s.putin[p] = -1 THEN s ELSE rm_from_q(s, qnode[p], s.putin[p]),
              qnode[p], priority[p]) EXCEPT !.putin[p] = priority[p]]

LEMMA SlotIs ==
  ASSUME NEW s, NEW p, s.stuck \in BOOLEAN
  PROVE  /\ s.stuck \/ state[p] = "UNUSED" => RefreshSlot(s, p) = s
         /\ ~s.stuck /\ state[p] \notin {"UNUSED", "RUNNABLE"} /\ s.putin[p] # -1 =>
              RefreshSlot(s, p) = Removed(s, p)
         /\ ~s.stuck /\ state[p] # "RUNNABLE" /\ s.putin[p] = -1 => RefreshSlot(s, p) = s
         /\ ~s.stuck /\ state[p] = "RUNNABLE" /\ (s.putin[p] = -1 \/ s.putin[p] # priority[p]) =>
              RefreshSlot(s, p) = Moved(s, p)
         /\ ~s.stuck /\ state[p] = "RUNNABLE" /\ s.putin[p] # -1 /\ s.putin[p] = priority[p]
              => RefreshSlot(s, p) =
                   IF qnode[p] = 0 THEN [s EXCEPT !.stuck = TRUE]
                   ELSE IF s.ticks[qnode[p]] = Slice(s.putin[p]) THEN Moved(s, p) ELSE s
BY DEF RefreshSlot, Removed, Moved

LEMMA RefreshSlotType ==
  ASSUME TypeOK, NamedInv, NEW s \in Works(Named), NEW p \in Slots
  PROVE  RefreshSlot(s, p) \in Works(Named)
<1>1. /\ Named \in SUBSET Nodes /\ qnode[p] \in Named \cup {0} /\ priority[p] \in Pris
      /\ s.putin[p] \in Pris \cup {-1} /\ s.stuck \in BOOLEAN
  BY DEF TypeOK, NamedInv, Named, Works
<1>2. rm_from_q(s, qnode[p], s.putin[p]) \in Works(Named)
  BY <1>1, RmType
<1>3. Removed(s, p) \in Works(Named)
  BY <1>2 DEF Removed, Works
<1>4. PICK t \in Works(Named) : t = put_tail_q(
         IF s.putin[p] = -1 THEN s ELSE rm_from_q(s, qnode[p], s.putin[p]),
         qnode[p], priority[p])
  BY <1>1, <1>2, PutType
<1>5. Moved(s, p) \in Works(Named)
  BY <1>1, <1>4 DEF Moved, Works
<1>6. [s EXCEPT !.stuck = TRUE] \in Works(Named)
  BY DEF Works
<1>7. RefreshSlot(s, p) \in {s, Removed(s, p), Moved(s, p), [s EXCEPT !.stuck = TRUE]}
  BY DEF RefreshSlot, Removed, Moved
<1>8. QED  BY <1>3, <1>5, <1>6, <1>7

(* refresh_q() is a loop over the slots. *)
LEMMA RefreshIs ==
  ASSUME TypeOK, NamedInv
  PROVE  \E r \in [0 .. NPROC -> Works(Named)] :
           /\ r[0] = Working
           /\ \A p \in Slots : r[p] = RefreshSlot(r[p - 1], p)
           /\ refresh_q = r[NPROC]
<1>0. PICK W : W = Works(Named)  OBVIOUS
<1>1. NPROC \in Nat /\ Slots = 1 .. NPROC  BY Consts
<1>2. PICK a \in W : a = Working
  BY <1>0 DEF Working, Works, TypeOK, NamedInv, Queues
<1>3. PICK F : F = [p \in 1 .. NPROC |-> [s \in W |-> RefreshSlot(s, p)]]  OBVIOUS
<1>4. F \in [1 .. NPROC -> [W -> W]]
  <2>1. \A p \in Slots, s \in W : RefreshSlot(s, p) \in W  BY <1>0, RefreshSlotType
  <2>2. QED  BY <1>1, <1>3, <2>1
<1>5. Loop(W, a, NPROC, F) # {}
  BY <1>1, <1>4, LoopExists
<1>6. PICK g \in [0 .. NPROC -> W] : g[0] = a /\ \A k \in 1 .. NPROC : g[k] = F[k][g[k - 1]]
  BY <1>5 DEF Loop
<1>7. \A k \in 1 .. NPROC : g[k] = RefreshSlot(g[k - 1], k)
  <2> SUFFICES ASSUME NEW k \in 1 .. NPROC PROVE g[k] = RefreshSlot(g[k - 1], k)
    OBVIOUS
  <2>1. g[k - 1] \in W  BY <1>1
  <2>2. F[k][g[k - 1]] = RefreshSlot(g[k - 1], k)  BY <1>3, <2>1
  <2>3. QED  BY <1>6, <2>2
<1>8. g = [p \in 0 .. NPROC |-> IF p = 0 THEN Working
             ELSE CHOOSE t \in {RefreshSlot(s, p) : s \in {g[p - 1]}} : TRUE]
  <2>1. \A x, p : (CHOOSE t \in {RefreshSlot(s, p) : s \in {x}} : TRUE) = RefreshSlot(x, p)
    OBVIOUS
  <2>2. QED  BY <1>1, <1>2, <1>6, <1>7, <2>1
<1> DEFINE r[p \in 0 .. NPROC] ==
      IF p = 0 THEN Working
      ELSE CHOOSE t \in {RefreshSlot(s, p) : s \in {r[p - 1]}} : TRUE
<1>9. r = [p \in 0 .. NPROC |-> IF p = 0 THEN Working
             ELSE CHOOSE t \in {RefreshSlot(s, p) : s \in {r[p - 1]}} : TRUE]
  BY <1>8
<1>10. refresh_q = r[NPROC]  BY DEF refresh_q
<1> HIDE DEF r
<1>11. r[0] = Working /\ \A p \in Slots : r[p] = RefreshSlot(r[p - 1], p)
  <2>1. \A x, p : (CHOOSE t \in {RefreshSlot(s, p) : s \in {x}} : TRUE) = RefreshSlot(x, p)
    OBVIOUS
  <2>2. QED  BY <1>1, <1>9, <2>1
<1>12. \A k \in 0 .. NPROC : r[k] \in W
  <2>1. r[0] \in W  BY <1>2, <1>11
  <2>2. \A k \in 1 .. NPROC : r[k - 1] \in W => r[k] \in W
    BY <1>0, <1>1, <1>11, RefreshSlotType
  <2>3. QED  BY <1>1, <2>1, <2>2, LoopIn
<1>13. r \in [0 .. NPROC -> W]  BY <1>9, <1>12
<1>14. QED  BY <1>0, <1>10, <1>11, <1>13
-------------------------------------------------------------------------------
LEMMA CpuIs == NCPU = 1 => CPUs = {1}
BY DEF CPUs

(* TypeOK, conjunct by conjunct. *)
Types ==
  /\ state \in [Slots -> States]
  /\ parent \in [Slots -> 0 .. NPROC]
  /\ killed \in SUBSET Slots
  /\ kpc \in [Slots -> Kpcs]
  /\ obj \in [Slots -> 0 .. NPROC]
  /\ found \in [Slots -> 0 .. NPROC]
  /\ priority \in [Slots -> Pris]
  /\ putin \in [Slots -> Pris \cup {-1}]
  /\ qnode \in [Slots -> 0 .. NPROC]
  /\ inuse \in SUBSET Nodes
  /\ nproc \in [Nodes -> 0 .. NPROC]
  /\ q \in Queues
  /\ cpu \in [CPUs -> 0 .. NPROC]
  /\ fault \in BOOLEAN
  /\ setpris \in 0 .. MaxSetPri
  /\ fails \in 0 .. MaxFail
  /\ raced \in BOOLEAN

LEMMA TypesHold == TableInv => Types
BY DEF TableInv, TypeOK, Types

LEMMA YieldTable ==
  ASSUME NCPU = 1, TableInv, NEW c \in CPUs, NEW p \in Slots, Yield(c, p)
  PROVE  TableInv'
<1>0. c = 1 /\ p # 0 /\ cpu[1] = p /\ state[p] = "RUNNING" /\ Types
  BY CpuIs, TypesHold DEF Yield, Running, TableInv, RunInv
<1>a. RunInv /\ ObjInv /\ IdleInv /\ TreeInv
  BY DEF TableInv
<1>b. init \in Slots /\ 0 \notin Slots /\ Slots \subseteq 0 .. NPROC /\ 0 \in 0 .. NPROC
  BY Consts
<1>2. /\ \A u \in Slots : state'[u] = IF u = p THEN "RUNNABLE" ELSE state[u]
      /\ parent' = parent
      /\ kpc' = kpc
      /\ obj' = obj
      /\ cpu'[1] = 0
  BY <1>0 DEF Yield, Running, Free, Goto, Types
<1>3. UNCHANGED <<parent, killed, kpc, obj, found, priority, putin, qnode, inuse, nproc, q, fault, setpris, fails>>
  BY DEF Yield, Goto, queueVars, countVars
<1>4. TypeOK' /\ NamedInv'
  <2>1. state' \in [Slots -> States]  BY <1>0, Consts DEF Yield, Free, Goto, Types, States, Kpcs
  <2>2. cpu' \in [CPUs -> 0 .. NPROC]  BY <1>0, Consts DEF Yield, Free, Goto, Types, States, Kpcs
  <2>3. raced' \in BOOLEAN  BY Zenon DEF Yield, Types
  <2>4. QED  BY <1>0, <1>3, <2>1, <2>2, <2>3 DEF TableInv, TypeOK, Types, NamedInv, Named
<1>5. RunInv'  BY <1>0, <1>2, <1>a, <1>b DEF RunInv
<1>6. ObjInv'  BY <1>0, <1>2, <1>a, <1>b DEF RunInv, ObjInv, IdleInv, ForkPcs, SetPriPcs, Yield
<1>7. IdleInv'  BY <1>0, <1>2, <1>a, <1>b DEF RunInv, ObjInv, IdleInv, Alive, ForkPcs, Yield
<1>8. TreeInv'
  BY <1>0, <1>2, <1>a, <1>b DEF TreeInv, RunInv, ObjInv, IdleInv, ForkPcs, Alive, Yield
<1>9. QED  BY <1>4, <1>5, <1>6, <1>7, <1>8 DEF TableInv

LEMMA SleepTable ==
  ASSUME NCPU = 1, TableInv, NEW c \in CPUs, NEW p \in Slots, Sleep(c, p)
  PROVE  TableInv'
<1>0. c = 1 /\ p # 0 /\ cpu[1] = p /\ state[p] = "RUNNING" /\ Types
  BY CpuIs, TypesHold DEF Sleep, Running, TableInv, RunInv
<1>a. RunInv /\ ObjInv /\ IdleInv /\ TreeInv
  BY DEF TableInv
<1>b. init \in Slots /\ 0 \notin Slots /\ Slots \subseteq 0 .. NPROC /\ 0 \in 0 .. NPROC
  BY Consts
<1>2. /\ \A u \in Slots : state'[u] = IF u = p THEN "SLEEPING" ELSE state[u]
      /\ parent' = parent
      /\ \A u \in Slots : kpc'[u] = IF u = p THEN "io" ELSE kpc[u]
      /\ obj' = obj
      /\ cpu'[1] = 0
  BY <1>0 DEF Sleep, Running, Free, Goto, Types
<1>3. UNCHANGED <<parent, killed, obj, found, priority, putin, qnode, inuse, nproc, q, fault, setpris, fails, raced>>
  BY DEF Sleep, Goto, queueVars, countVars
<1>4. TypeOK' /\ NamedInv'
  <2>1. state' \in [Slots -> States]  BY <1>0, Consts DEF Sleep, Free, Goto, Types, States, Kpcs
  <2>2. kpc' \in [Slots -> Kpcs]  BY <1>0, Consts DEF Sleep, Free, Goto, Types, States, Kpcs
  <2>3. cpu' \in [CPUs -> 0 .. NPROC]  BY <1>0, Consts DEF Sleep, Free, Goto, Types, States, Kpcs
  <2>4. QED  BY <1>0, <1>3, <2>1, <2>2, <2>3 DEF TableInv, TypeOK, Types, NamedInv, Named
<1>5. RunInv'  BY <1>0, <1>2, <1>a, <1>b DEF RunInv
<1>6. ObjInv'  BY <1>0, <1>2, <1>a, <1>b DEF RunInv, ObjInv, IdleInv, ForkPcs, SetPriPcs, Sleep
<1>7. IdleInv'  BY <1>0, <1>2, <1>a, <1>b DEF RunInv, ObjInv, IdleInv, Alive, ForkPcs, Sleep
<1>8. TreeInv'
  BY <1>0, <1>2, <1>a, <1>b DEF TreeInv, RunInv, ObjInv, IdleInv, ForkPcs, Alive, Sleep
<1>9. QED  BY <1>4, <1>5, <1>6, <1>7, <1>8 DEF TableInv

LEMMA ForkSlotTable ==
  ASSUME NCPU = 1, TableInv, NEW c \in CPUs, NEW p \in Slots, ForkSlot(c, p)
  PROVE  TableInv'
<1>0. c = 1 /\ p # 0 /\ cpu[1] = p /\ state[p] = "RUNNING" /\ Types
  BY CpuIs, TypesHold DEF ForkSlot, Running, TableInv, RunInv
<1>a. RunInv /\ ObjInv /\ IdleInv /\ TreeInv
  BY DEF TableInv
<1>b. init \in Slots /\ 0 \notin Slots /\ Slots \subseteq 0 .. NPROC /\ 0 \in 0 .. NPROC
  BY Consts
<1>1. PICK o \in Slots : o = Min({r \in Slots : state[r] = "UNUSED"}) /\ state[o] = "UNUSED"
  <2>1. PICK T : T = {r \in Slots : state[r] = "UNUSED"}  OBVIOUS
  <2>2. T \in SUBSET Nat /\ T # {}  BY <2>1, Consts DEF ForkSlot
  <2>3. QED  BY <2>1, <2>2, MinIs
<1>2. /\ \A u \in Slots : state'[u] = IF u = o THEN "EMBRYO" ELSE state[u]
      /\ parent' = parent
      /\ \A u \in Slots : kpc'[u] = IF u = p THEN "kalloc" ELSE kpc[u]
      /\ \A u \in Slots : obj'[u] = IF u = p THEN o ELSE obj[u]
      /\ cpu' = cpu
  BY <1>0, <1>1 DEF ForkSlot, Running, Free, Goto, Types
<1>3. UNCHANGED <<parent, killed, found, priority, putin, qnode, inuse, nproc, q, cpu, fault, setpris, fails, raced>>
  BY DEF ForkSlot, Goto, queueVars, countVars
<1>4. TypeOK' /\ NamedInv'
  <2>1. state' \in [Slots -> States]  BY <1>0, <1>1, Consts DEF ForkSlot, Free, Goto, Types, States, Kpcs
  <2>2. obj' \in [Slots -> 0 .. NPROC]  BY <1>0, <1>1, <1>b DEF ForkSlot, Free, Goto, Types, States, Kpcs
  <2>3. kpc' \in [Slots -> Kpcs]  BY <1>0, <1>1, Consts DEF ForkSlot, Free, Goto, Types, States, Kpcs
  <2>4. QED  BY <1>0, <1>3, <2>1, <2>2, <2>3 DEF TableInv, TypeOK, Types, NamedInv, Named
<1>5. RunInv'  BY <1>0, <1>1, <1>2, <1>a, <1>b DEF RunInv
<1>6. ObjInv'  BY <1>0, <1>1, <1>2, <1>a, <1>b DEF RunInv, ObjInv, IdleInv, ForkPcs, SetPriPcs, ForkSlot
<1>7. IdleInv'  BY <1>0, <1>1, <1>2, <1>a, <1>b DEF RunInv, ObjInv, IdleInv, Alive, ForkPcs, ForkSlot
<1>8. TreeInv'
  BY <1>0, <1>1, <1>2, <1>a, <1>b DEF TreeInv, RunInv, ObjInv, IdleInv, ForkPcs, Alive, ForkSlot
<1>9. QED  BY <1>4, <1>5, <1>6, <1>7, <1>8 DEF TableInv

LEMMA ForkStackTable ==
  ASSUME NCPU = 1, TableInv, NEW c \in CPUs, NEW p \in Slots, ForkStack(c, p)
  PROVE  TableInv'
<1>0. c = 1 /\ p # 0 /\ cpu[1] = p /\ state[p] = "RUNNING" /\ Types
  BY CpuIs, TypesHold DEF ForkStack, Running, TableInv, RunInv
<1>a. RunInv /\ ObjInv /\ IdleInv /\ TreeInv
  BY DEF TableInv
<1>b. init \in Slots /\ 0 \notin Slots /\ Slots \subseteq 0 .. NPROC /\ 0 \in 0 .. NPROC
  BY Consts
<1>2. /\ state' = state
      /\ parent' = parent
      /\ \A u \in Slots : kpc'[u] = IF u = p THEN "find" ELSE kpc[u]
      /\ obj' = obj
      /\ cpu' = cpu
  BY <1>0 DEF ForkStack, Running, Free, Goto, Types
<1>3. UNCHANGED <<state, parent, killed, obj, found, priority, putin, qnode, inuse, nproc, q, cpu, fault, setpris, fails, raced>>
  BY DEF ForkStack, Goto, queueVars, countVars
<1>4. TypeOK' /\ NamedInv'
  <2>1. kpc' \in [Slots -> Kpcs]  BY <1>0, Consts DEF ForkStack, Free, Goto, Types, States, Kpcs
  <2>2. QED  BY <1>0, <1>3, <2>1 DEF TableInv, TypeOK, Types, NamedInv, Named
<1>5. RunInv'  BY <1>0, <1>2, <1>a, <1>b DEF RunInv
<1>6. ObjInv'  BY <1>0, <1>2, <1>a, <1>b DEF RunInv, ObjInv, IdleInv, ForkPcs, SetPriPcs, ForkStack
<1>7. IdleInv'  BY <1>0, <1>2, <1>a, <1>b DEF RunInv, ObjInv, IdleInv, Alive, ForkPcs, ForkStack
<1>8. TreeInv'
  BY <1>0, <1>2, <1>a, <1>b DEF TreeInv, RunInv, ObjInv, IdleInv, ForkPcs, Alive, ForkStack
<1>9. QED  BY <1>4, <1>5, <1>6, <1>7, <1>8 DEF TableInv

LEMMA ForkNoStackTable ==
  ASSUME NCPU = 1, TableInv, NEW c \in CPUs, NEW p \in Slots, ForkNoStack(c, p)
  PROVE  TableInv'
<1>0. c = 1 /\ p # 0 /\ cpu[1] = p /\ state[p] = "RUNNING" /\ Types
  BY CpuIs, TypesHold DEF ForkNoStack, Running, TableInv, RunInv
<1>a. RunInv /\ ObjInv /\ IdleInv /\ TreeInv
  BY DEF TableInv
<1>b. init \in Slots /\ 0 \notin Slots /\ Slots \subseteq 0 .. NPROC /\ 0 \in 0 .. NPROC
  BY Consts
<1>1. PICK o \in Slots : o = obj[p] /\ state[o] = "EMBRYO"
  <2>1. obj[p] \in Slots  BY <1>0, Consts DEF Types, TableInv, ObjInv, ForkNoStack, ForkPcs, SetPriPcs
  <2>2. QED  BY <2>1 DEF TableInv, ObjInv, ForkNoStack, ForkPcs
<1>2. /\ \A u \in Slots : state'[u] = IF u = o THEN "UNUSED" ELSE state[u]
      /\ parent' = parent
      /\ \A u \in Slots : kpc'[u] = IF u = p THEN "run" ELSE kpc[u]
      /\ \A u \in Slots : obj'[u] = IF u = p THEN 0 ELSE obj[u]
      /\ cpu' = cpu
  BY <1>0, <1>1 DEF ForkNoStack, Running, Free, Goto, Types
<1>3. UNCHANGED <<parent, killed, found, priority, putin, qnode, inuse, nproc, q, cpu, fault, setpris, raced>>
  BY DEF ForkNoStack, Goto, queueVars, countVars
<1>4. TypeOK' /\ NamedInv'
  <2>1. state' \in [Slots -> States]  BY <1>0, <1>1, Consts DEF ForkNoStack, Free, Goto, Types, States, Kpcs
  <2>2. obj' \in [Slots -> 0 .. NPROC]  BY <1>0, <1>1, <1>b DEF ForkNoStack, Free, Goto, Types, States, Kpcs
  <2>3. kpc' \in [Slots -> Kpcs]  BY <1>0, <1>1, Consts DEF ForkNoStack, Free, Goto, Types, States, Kpcs
  <2>4. fails' \in 0 .. MaxFail  BY <1>0, <1>1, MLQAssumption DEF ForkNoStack, Free, Goto, Types, States, Kpcs
  <2>5. QED  BY <1>0, <1>3, <2>1, <2>2, <2>3, <2>4 DEF TableInv, TypeOK, Types, NamedInv, Named
<1>5. RunInv'  BY <1>0, <1>1, <1>2, <1>a, <1>b DEF RunInv
<1>6. ObjInv'  BY <1>0, <1>1, <1>2, <1>a, <1>b DEF RunInv, ObjInv, IdleInv, ForkPcs, SetPriPcs, ForkNoStack
<1>7. IdleInv'  BY <1>0, <1>1, <1>2, <1>a, <1>b DEF RunInv, ObjInv, IdleInv, Alive, ForkPcs, ForkNoStack
<1>8. TreeInv'
  BY <1>0, <1>1, <1>2, <1>a, <1>b DEF TreeInv, RunInv, ObjInv, IdleInv, ForkPcs, Alive, ForkNoStack
<1>9. QED  BY <1>4, <1>5, <1>6, <1>7, <1>8 DEF TableInv

LEMMA ForkNoCopyTable ==
  ASSUME NCPU = 1, TableInv, NEW c \in CPUs, NEW p \in Slots, ForkNoCopy(c, p)
  PROVE  TableInv'
<1>0. c = 1 /\ p # 0 /\ cpu[1] = p /\ state[p] = "RUNNING" /\ Types
  BY CpuIs, TypesHold DEF ForkNoCopy, Running, TableInv, RunInv
<1>a. RunInv /\ ObjInv /\ IdleInv /\ TreeInv
  BY DEF TableInv
<1>b. init \in Slots /\ 0 \notin Slots /\ Slots \subseteq 0 .. NPROC /\ 0 \in 0 .. NPROC
  BY Consts
<1>1. PICK o \in Slots : o = obj[p] /\ state[o] = "EMBRYO"
  <2>1. obj[p] \in Slots  BY <1>0, Consts DEF Types, TableInv, ObjInv, ForkNoCopy, ForkPcs, SetPriPcs
  <2>2. QED  BY <2>1 DEF TableInv, ObjInv, ForkNoCopy, ForkPcs
<1>2. /\ \A u \in Slots : state'[u] = IF u = o THEN "UNUSED" ELSE state[u]
      /\ parent' = parent
      /\ \A u \in Slots : kpc'[u] = IF u = p THEN "run" ELSE kpc[u]
      /\ \A u \in Slots : obj'[u] = IF u = p THEN 0 ELSE obj[u]
      /\ cpu' = cpu
  BY <1>0, <1>1 DEF ForkNoCopy, Running, Free, Goto, Types
<1>3. UNCHANGED <<parent, killed, found, priority, putin, qnode, inuse, nproc, q, cpu, fault, setpris, raced>>
  BY DEF ForkNoCopy, Goto, queueVars, countVars
<1>4. TypeOK' /\ NamedInv'
  <2>1. state' \in [Slots -> States]  BY <1>0, <1>1, Consts DEF ForkNoCopy, Free, Goto, Types, States, Kpcs
  <2>2. obj' \in [Slots -> 0 .. NPROC]  BY <1>0, <1>1, <1>b DEF ForkNoCopy, Free, Goto, Types, States, Kpcs
  <2>3. kpc' \in [Slots -> Kpcs]  BY <1>0, <1>1, Consts DEF ForkNoCopy, Free, Goto, Types, States, Kpcs
  <2>4. fails' \in 0 .. MaxFail  BY <1>0, <1>1, MLQAssumption DEF ForkNoCopy, Free, Goto, Types, States, Kpcs
  <2>5. QED  BY <1>0, <1>3, <2>1, <2>2, <2>3, <2>4 DEF TableInv, TypeOK, Types, NamedInv, Named
<1>5. RunInv'  BY <1>0, <1>1, <1>2, <1>a, <1>b DEF RunInv
<1>6. ObjInv'  BY <1>0, <1>1, <1>2, <1>a, <1>b DEF RunInv, ObjInv, IdleInv, ForkPcs, SetPriPcs, ForkNoCopy
<1>7. IdleInv'  BY <1>0, <1>1, <1>2, <1>a, <1>b DEF RunInv, ObjInv, IdleInv, Alive, ForkPcs, ForkNoCopy
<1>8. TreeInv'
  BY <1>0, <1>1, <1>2, <1>a, <1>b DEF TreeInv, RunInv, ObjInv, IdleInv, ForkPcs, Alive, ForkNoCopy
<1>9. QED  BY <1>4, <1>5, <1>6, <1>7, <1>8 DEF TableInv

LEMMA ForkFindNodeTable ==
  ASSUME NCPU = 1, TableInv, NEW c \in CPUs, NEW p \in Slots, ForkFindNode(c, p)
  PROVE  TableInv'
<1>0. c = 1 /\ p # 0 /\ cpu[1] = p /\ state[p] = "RUNNING" /\ Types
  BY CpuIs, TypesHold DEF ForkFindNode, Running, TableInv, RunInv
<1>a. RunInv /\ ObjInv /\ IdleInv /\ TreeInv
  BY DEF TableInv
<1>b. init \in Slots /\ 0 \notin Slots /\ Slots \subseteq 0 .. NPROC /\ 0 \in 0 .. NPROC
  BY Consts
<1>1. PICK n \in 0 .. NPROC : found' = [found EXCEPT ![p] = n]
  <2>1. PICK T : T = Nodes \ inuse  OBVIOUS
  <2>2. T \in SUBSET Nat /\ T \in SUBSET (0 .. NPROC) /\ 0 \in 0 .. NPROC  BY <2>1, Consts
  <2>3. T # {} => Min(T) \in T  BY <2>2, MinIs
  <2>4. QED  BY <2>1, <2>2, <2>3 DEF ForkFindNode
<1>2. /\ state' = state
      /\ parent' = parent
      /\ \A u \in Slots : kpc'[u] = IF u = p THEN "take" ELSE kpc[u]
      /\ obj' = obj
      /\ cpu' = cpu
  BY <1>0, <1>1 DEF ForkFindNode, Running, Free, Goto, Types
<1>3. UNCHANGED <<state, parent, killed, obj, priority, putin, qnode, inuse, nproc, q, cpu, fault, setpris, fails>>
  BY DEF ForkFindNode, Goto, queueVars, countVars
<1>4. TypeOK' /\ NamedInv'
  <2>1. kpc' \in [Slots -> Kpcs]  BY <1>0, <1>1, Consts DEF ForkFindNode, Free, Goto, Types, States, Kpcs
  <2>2. found' \in [Slots -> 0 .. NPROC]  BY <1>0, <1>1, <1>b DEF ForkFindNode, Free, Goto, Types, States, Kpcs
  <2>3. raced' \in BOOLEAN  BY Zenon DEF ForkFindNode, Types
  <2>4. QED  BY <1>0, <1>3, <2>1, <2>2, <2>3 DEF TableInv, TypeOK, Types, NamedInv, Named
<1>5. RunInv'  BY <1>0, <1>1, <1>2, <1>a, <1>b DEF RunInv
<1>6. ObjInv'  BY <1>0, <1>1, <1>2, <1>a, <1>b DEF RunInv, ObjInv, IdleInv, ForkPcs, SetPriPcs, ForkFindNode
<1>7. IdleInv'  BY <1>0, <1>1, <1>2, <1>a, <1>b DEF RunInv, ObjInv, IdleInv, Alive, ForkPcs, ForkFindNode
<1>8. TreeInv'
  BY <1>0, <1>1, <1>2, <1>a, <1>b DEF TreeInv, RunInv, ObjInv, IdleInv, ForkPcs, Alive, ForkFindNode
<1>9. QED  BY <1>4, <1>5, <1>6, <1>7, <1>8 DEF TableInv

LEMMA WaitSleepTable ==
  ASSUME NCPU = 1, TableInv, NEW c \in CPUs, NEW p \in Slots, WaitSleep(c, p)
  PROVE  TableInv'
<1>0. c = 1 /\ p # 0 /\ cpu[1] = p /\ state[p] = "RUNNING" /\ Types
  BY CpuIs, TypesHold DEF WaitSleep, Running, TableInv, RunInv
<1>a. RunInv /\ ObjInv /\ IdleInv /\ TreeInv
  BY DEF TableInv
<1>b. init \in Slots /\ 0 \notin Slots /\ Slots \subseteq 0 .. NPROC /\ 0 \in 0 .. NPROC
  BY Consts
<1>2. /\ \A u \in Slots : state'[u] = IF u = p THEN "SLEEPING" ELSE state[u]
      /\ parent' = parent
      /\ \A u \in Slots : kpc'[u] = IF u = p THEN "wait" ELSE kpc[u]
      /\ obj' = obj
      /\ cpu'[1] = 0
  BY <1>0 DEF WaitSleep, Running, Free, Goto, Types
<1>3. UNCHANGED <<parent, killed, obj, found, priority, putin, qnode, inuse, nproc, q, fault, setpris, fails, raced>>
  BY DEF WaitSleep, Goto, queueVars, countVars
<1>4. TypeOK' /\ NamedInv'
  <2>1. state' \in [Slots -> States]  BY <1>0, Consts DEF WaitSleep, Free, Goto, Types, States, Kpcs
  <2>2. kpc' \in [Slots -> Kpcs]  BY <1>0, Consts DEF WaitSleep, Free, Goto, Types, States, Kpcs
  <2>3. cpu' \in [CPUs -> 0 .. NPROC]  BY <1>0, Consts DEF WaitSleep, Free, Goto, Types, States, Kpcs
  <2>4. QED  BY <1>0, <1>3, <2>1, <2>2, <2>3 DEF TableInv, TypeOK, Types, NamedInv, Named
<1>5. RunInv'  BY <1>0, <1>2, <1>a, <1>b DEF RunInv
<1>6. ObjInv'  BY <1>0, <1>2, <1>a, <1>b DEF RunInv, ObjInv, IdleInv, ForkPcs, SetPriPcs, WaitSleep
<1>7. IdleInv'  BY <1>0, <1>2, <1>a, <1>b DEF RunInv, ObjInv, IdleInv, Alive, ForkPcs, WaitSleep
<1>8. TreeInv'
  BY <1>0, <1>2, <1>a, <1>b DEF TreeInv, RunInv, ObjInv, IdleInv, ForkPcs, Alive, Zombies, Kids, WaitSleep
<1>9. QED  BY <1>4, <1>5, <1>6, <1>7, <1>8 DEF TableInv

LEMMA WaitNoneTable ==
  ASSUME NCPU = 1, TableInv, NEW c \in CPUs, NEW p \in Slots, WaitNone(c, p)
  PROVE  TableInv'
<1>0. c = 1 /\ p # 0 /\ cpu[1] = p /\ state[p] = "RUNNING" /\ Types
  BY CpuIs, TypesHold DEF WaitNone, Running, TableInv, RunInv
<1>a. RunInv /\ ObjInv /\ IdleInv /\ TreeInv
  BY DEF TableInv
<1>b. init \in Slots /\ 0 \notin Slots /\ Slots \subseteq 0 .. NPROC /\ 0 \in 0 .. NPROC
  BY Consts
<1>2. /\ state' = state
      /\ parent' = parent
      /\ \A u \in Slots : kpc'[u] = IF u = p THEN "run" ELSE kpc[u]
      /\ obj' = obj
      /\ cpu' = cpu
  BY <1>0 DEF WaitNone, Running, Free, Goto, Types
<1>3. UNCHANGED <<state, parent, killed, obj, found, priority, putin, qnode, inuse, nproc, q, cpu, fault, setpris, fails, raced>>
  BY DEF WaitNone, Goto, queueVars, countVars
<1>4. TypeOK' /\ NamedInv'
  <2>1. kpc' \in [Slots -> Kpcs]  BY <1>0, Consts DEF WaitNone, Free, Goto, Types, States, Kpcs
  <2>2. QED  BY <1>0, <1>3, <2>1 DEF TableInv, TypeOK, Types, NamedInv, Named
<1>5. RunInv'  BY <1>0, <1>2, <1>a, <1>b DEF RunInv
<1>6. ObjInv'  BY <1>0, <1>2, <1>a, <1>b DEF RunInv, ObjInv, IdleInv, ForkPcs, SetPriPcs, WaitNone
<1>7. IdleInv'  BY <1>0, <1>2, <1>a, <1>b DEF RunInv, ObjInv, IdleInv, Alive, ForkPcs, WaitNone
<1>8. TreeInv'
  BY <1>0, <1>2, <1>a, <1>b DEF TreeInv, RunInv, ObjInv, IdleInv, ForkPcs, Alive, WaitNone
<1>9. QED  BY <1>4, <1>5, <1>6, <1>7, <1>8 DEF TableInv

LEMMA KillTable ==
  ASSUME NCPU = 1, TableInv, NEW c \in CPUs, NEW p \in Slots, NEW r \in Slots, Kill(c, p, r)
  PROVE  TableInv'
<1>0. c = 1 /\ p # 0 /\ cpu[1] = p /\ state[p] = "RUNNING" /\ Types
  BY CpuIs, TypesHold DEF Kill, Running, TableInv, RunInv
<1>a. RunInv /\ ObjInv /\ IdleInv /\ TreeInv
  BY DEF TableInv
<1>b. init \in Slots /\ 0 \notin Slots /\ Slots \subseteq 0 .. NPROC /\ 0 \in 0 .. NPROC
  BY Consts
<1>2. /\ \A u \in Slots : state'[u] = IF u = r THEN IF state[r] = "SLEEPING" THEN "RUNNABLE" ELSE state[r] ELSE state[u]
      /\ parent' = parent
      /\ kpc' = kpc
      /\ obj' = obj
      /\ cpu' = cpu
  BY <1>0 DEF Kill, Running, Free, Goto, Types
<1>3. UNCHANGED <<parent, kpc, obj, found, priority, putin, qnode, inuse, nproc, q, cpu, fault, setpris, fails, raced>>
  BY DEF Kill, Goto, queueVars, countVars
<1>4. TypeOK' /\ NamedInv'
  <2>1. state' \in [Slots -> States]  BY <1>0, Consts DEF Kill, Free, Goto, Types, States, Kpcs
  <2>2. killed' \in SUBSET Slots  BY <1>0, Consts DEF Kill, Free, Goto, Types, States, Kpcs
  <2>3. QED  BY <1>0, <1>3, <2>1, <2>2 DEF TableInv, TypeOK, Types, NamedInv, Named
<1>5. RunInv'  BY <1>0, <1>2, <1>a, <1>b DEF RunInv
<1>6. ObjInv'  BY <1>0, <1>2, <1>a, <1>b DEF RunInv, ObjInv, IdleInv, ForkPcs, SetPriPcs, Kill
<1>7. IdleInv'  BY <1>0, <1>2, <1>a, <1>b DEF RunInv, ObjInv, IdleInv, Alive, ForkPcs, Kill
<1>8. TreeInv'
  BY <1>0, <1>2, <1>a, <1>b DEF TreeInv, RunInv, ObjInv, IdleInv, ForkPcs, Alive, Kill
<1>9. QED  BY <1>4, <1>5, <1>6, <1>7, <1>8 DEF TableInv

LEMMA SetPriTable ==
  ASSUME NCPU = 1, TableInv, NEW c \in CPUs, NEW p \in Slots, NEW r \in Slots, NEW pri \in Pris, SetPri(c, p, r, pri)
  PROVE  TableInv'
<1>0. c = 1 /\ p # 0 /\ cpu[1] = p /\ state[p] = "RUNNING" /\ Types
  BY CpuIs, TypesHold DEF SetPri, Running, TableInv, RunInv
<1>a. RunInv /\ ObjInv /\ IdleInv /\ TreeInv
  BY DEF TableInv
<1>b. init \in Slots /\ 0 \notin Slots /\ Slots \subseteq 0 .. NPROC /\ 0 \in 0 .. NPROC
  BY Consts
<1>2. /\ state' = state
      /\ parent' = parent
      /\ \A u \in Slots : kpc'[u] = IF u = p THEN "rm" ELSE kpc[u]
      /\ \A u \in Slots : obj'[u] = IF u = p THEN r ELSE obj[u]
      /\ cpu' = cpu
  BY <1>0 DEF SetPri, Running, Free, Goto, Types
<1>3. UNCHANGED <<state, parent, killed, found, putin, qnode, inuse, nproc, q, cpu, fault, fails, raced>>
  BY DEF SetPri, Goto, queueVars, countVars
<1>4. TypeOK' /\ NamedInv'
  <2>1. obj' \in [Slots -> 0 .. NPROC]  BY <1>0, <1>b DEF SetPri, Free, Goto, Types, States, Kpcs
  <2>2. kpc' \in [Slots -> Kpcs]  BY <1>0, Consts DEF SetPri, Free, Goto, Types, States, Kpcs
  <2>3. priority' \in [Slots -> Pris]  BY <1>0, Consts DEF SetPri, Free, Goto, Types, States, Kpcs
  <2>4. setpris' \in 0 .. MaxSetPri  BY <1>0, MLQAssumption DEF SetPri, Free, Goto, Types, States, Kpcs
  <2>5. QED  BY <1>0, <1>3, <2>1, <2>2, <2>3, <2>4 DEF TableInv, TypeOK, Types, NamedInv, Named
<1>5. RunInv'  BY <1>0, <1>2, <1>a, <1>b DEF RunInv
<1>6. ObjInv'  BY <1>0, <1>2, <1>a, <1>b DEF RunInv, ObjInv, IdleInv, ForkPcs, SetPriPcs, SetPri
<1>7. IdleInv'  BY <1>0, <1>2, <1>a, <1>b DEF RunInv, ObjInv, IdleInv, Alive, ForkPcs, SetPri
<1>8. TreeInv'
  BY <1>0, <1>2, <1>a, <1>b DEF TreeInv, RunInv, ObjInv, IdleInv, ForkPcs, Alive, SetPri
<1>9. QED  BY <1>4, <1>5, <1>6, <1>7, <1>8 DEF TableInv

LEMMA SetPriDoneTable ==
  ASSUME NCPU = 1, TableInv, NEW c \in CPUs, NEW p \in Slots, SetPriDone(c, p)
  PROVE  TableInv'
<1>0. c = 1 /\ p # 0 /\ cpu[1] = p /\ state[p] = "RUNNING" /\ Types
  BY CpuIs, TypesHold DEF SetPriDone, Running, TableInv, RunInv
<1>a. RunInv /\ ObjInv /\ IdleInv /\ TreeInv
  BY DEF TableInv
<1>b. init \in Slots /\ 0 \notin Slots /\ Slots \subseteq 0 .. NPROC /\ 0 \in 0 .. NPROC
  BY Consts
<1>1. PICK o \in Slots : o = obj[p]
  <2>1. obj[p] \in Slots  BY <1>0, Consts DEF Types, TableInv, ObjInv, SetPriDone, ForkPcs, SetPriPcs
  <2>2. QED  BY <2>1 DEF TableInv, ObjInv, SetPriDone, ForkPcs
<1>2. /\ state' = state
      /\ parent' = parent
      /\ \A u \in Slots : kpc'[u] = IF u = p THEN "run" ELSE kpc[u]
      /\ \A u \in Slots : obj'[u] = IF u = p THEN 0 ELSE obj[u]
      /\ cpu' = cpu
  BY <1>0, <1>1 DEF SetPriDone, Running, Free, Goto, Types
<1>3. UNCHANGED <<state, parent, killed, found, priority, qnode, inuse, nproc, q, cpu, fault, setpris, fails, raced>>
  BY DEF SetPriDone, Goto, queueVars, countVars
<1>4. TypeOK' /\ NamedInv'
  <2>1. obj' \in [Slots -> 0 .. NPROC]  BY <1>0, <1>1, <1>b DEF SetPriDone, Free, Goto, Types, States, Kpcs
  <2>2. kpc' \in [Slots -> Kpcs]  BY <1>0, <1>1, Consts DEF SetPriDone, Free, Goto, Types, States, Kpcs
  <2>3. putin' \in [Slots -> Pris \cup {-1}]  BY <1>0, <1>1, Consts DEF SetPriDone, Free, Goto, Types, States, Kpcs
  <2>4. QED  BY <1>0, <1>3, <2>1, <2>2, <2>3 DEF TableInv, TypeOK, Types, NamedInv, Named
<1>5. RunInv'  BY <1>0, <1>1, <1>2, <1>a, <1>b DEF RunInv
<1>6. ObjInv'  BY <1>0, <1>1, <1>2, <1>a, <1>b DEF RunInv, ObjInv, IdleInv, ForkPcs, SetPriPcs, SetPriDone
<1>7. IdleInv'  BY <1>0, <1>1, <1>2, <1>a, <1>b DEF RunInv, ObjInv, IdleInv, Alive, ForkPcs, SetPriDone
<1>8. TreeInv'
  BY <1>0, <1>1, <1>2, <1>a, <1>b DEF TreeInv, RunInv, ObjInv, IdleInv, ForkPcs, Alive, SetPriDone
<1>9. QED  BY <1>4, <1>5, <1>6, <1>7, <1>8 DEF TableInv

LEMMA ForkTakeNodeTable ==
  ASSUME NCPU = 1, TableInv, NEW c \in CPUs, NEW p \in Slots, ForkTakeNode(c, p)
  PROVE  TableInv'
<1>0. c = 1 /\ p # 0 /\ cpu[1] = p /\ state[p] = "RUNNING" /\ Types
  BY CpuIs, TypesHold DEF ForkTakeNode, Running, TableInv, RunInv
<1>a. RunInv /\ ObjInv /\ IdleInv /\ TreeInv
  BY DEF TableInv
<1>b. init \in Slots /\ 0 \notin Slots /\ Slots \subseteq 0 .. NPROC /\ 0 \in 0 .. NPROC
  BY Consts
<1>1. PICK o \in Slots : o = obj[p] /\ state[o] = "EMBRYO"
  <2>1. obj[p] \in Slots  BY <1>0, Consts DEF Types, TableInv, ObjInv, ForkTakeNode, ForkPcs, SetPriPcs
  <2>2. QED  BY <2>1 DEF TableInv, ObjInv, ForkTakeNode, ForkPcs
<1>2. /\ state' = state
      /\ parent' = parent
      /\ \A u \in Slots : kpc'[u] = IF u = p THEN "copy" ELSE kpc[u]
      /\ obj' = obj
      /\ cpu' = cpu
  BY <1>0, <1>1 DEF ForkTakeNode, Running, Free, Goto, Types
<1>3. UNCHANGED <<state, parent, killed, obj, priority, cpu, fault, setpris, fails, raced>>
  BY DEF ForkTakeNode, Goto, queueVars, countVars
<1>4. TypeOK' /\ NamedInv'
  <2>1. kpc' \in [Slots -> Kpcs] /\ found' \in [Slots -> 0 .. NPROC]
    <3>1. kpc' \in [Slots -> Kpcs]  BY DEF ForkTakeNode, Goto, Types, Kpcs, TableInv, TypeOK
    <3>2. found' \in [Slots -> 0 .. NPROC]  BY <1>0, <1>b DEF ForkTakeNode, Types
    <3>3. QED  BY <3>1, <3>2
  <2>2. putin' \in [Slots -> Pris \cup {-1}]  BY <1>0, <1>1 DEF ForkTakeNode, Types
  <2>3. CASE found[p] = 0
    <3>1. UNCHANGED <<inuse, nproc, q, qnode>>  BY <2>3 DEF ForkTakeNode
    <3>2. QED  BY <1>0, <1>3, <2>1, <2>2, <3>1 DEF TableInv, TypeOK, Types, NamedInv, Named
  <2>4. CASE found[p] # 0
    <3>1. PICK n \in Nodes : n = found[p]
      <4>1. found[p] \in 0 .. NPROC  BY <1>0 DEF Types
      <4>2. found[p] \in Nodes  BY <2>4, <4>1, Consts
      <4>3. QED  BY <4>2
    <3>2. /\ inuse' = inuse \cup {n} /\ nproc' = [nproc EXCEPT ![n] = o]
          /\ q' = [q EXCEPT !.next[n] = 0] /\ qnode' = [qnode EXCEPT ![o] = n]
      BY <1>1, <2>4, <3>1 DEF ForkTakeNode
    <3>3. inuse' \in SUBSET Nodes  BY <1>0, <3>1, <3>2 DEF Types
    <3>4. nproc' \in [Nodes -> 0 .. NPROC]  BY <1>0, <1>b, <3>2 DEF Types
    <3>5. Named \subseteq Named' /\ n \in Named'
      <4>1. \A m \in Nodes : nproc'[m] = IF m = n THEN o ELSE nproc[m]  BY <1>0, <3>2 DEF Types
      <4>2. QED  BY <1>b, <4>1 DEF Named
    <3>6. /\ qnode \in [Slots -> Named \cup {0}] /\ q.next \in [Nodes -> Named \cup {0}]
          /\ q.head \in [Pris -> Named \cup {0}] /\ q.tail \in [Pris -> Named \cup {0}]
      BY DEF TableInv, NamedInv
    <3>7. qnode' \in [Slots -> Named' \cup {0}]  BY <3>2, <3>5, <3>6
    <3>8. qnode' \in [Slots -> 0 .. NPROC]  BY <1>0, <3>1, <3>2, Consts DEF Types
    <3>9. /\ q'.next = [q.next EXCEPT ![n] = 0] /\ q'.head = q.head /\ q'.tail = q.tail
          /\ q'.ticks = q.ticks /\ q' \in Queues
      BY <1>0, <1>b, <3>2 DEF Types, Queues
    <3>10. q'.next \in [Nodes -> Named' \cup {0}]
      BY <3>5, <3>6, <3>9
    <3>11. q'.head \in [Pris -> Named' \cup {0}] /\ q'.tail \in [Pris -> Named' \cup {0}]
      BY <3>5, <3>6, <3>9
    <3>12. NamedInv'  BY <3>7, <3>10, <3>11 DEF NamedInv
    <3>13. TypeOK'
      BY <1>0, <1>3, <2>1, <2>2, <3>3, <3>4, <3>8, <3>9 DEF TypeOK, Types
    <3>14. QED  BY <3>12, <3>13
  <2>5. QED  BY <2>3, <2>4
<1>5. RunInv'  BY <1>0, <1>1, <1>2, <1>a, <1>b DEF RunInv
<1>6. ObjInv'  BY <1>0, <1>1, <1>2, <1>a, <1>b DEF RunInv, ObjInv, IdleInv, ForkPcs, SetPriPcs, ForkTakeNode
<1>7. IdleInv'  BY <1>0, <1>1, <1>2, <1>a, <1>b DEF RunInv, ObjInv, IdleInv, Alive, ForkPcs, ForkTakeNode
<1>8. TreeInv'
  BY <1>0, <1>1, <1>2, <1>a, <1>b DEF TreeInv, RunInv, ObjInv, IdleInv, ForkPcs, Alive, ForkTakeNode
<1>9. QED  BY <1>4, <1>5, <1>6, <1>7, <1>8 DEF TableInv

LEMMA FinishForkTable ==
  ASSUME NCPU = 1, TableInv, NEW c \in CPUs, NEW p \in Slots, NEW pri \in Pris, FinishFork(c, p, pri)
  PROVE  TableInv'
<1>0. c = 1 /\ p # 0 /\ cpu[1] = p /\ state[p] = "RUNNING" /\ Types
  BY CpuIs, TypesHold DEF FinishFork, Running, TableInv, RunInv
<1>a. RunInv /\ ObjInv /\ IdleInv /\ TreeInv
  BY DEF TableInv
<1>b. init \in Slots /\ 0 \notin Slots /\ Slots \subseteq 0 .. NPROC /\ 0 \in 0 .. NPROC
  BY Consts
<1>1. PICK o \in Slots : o = obj[p] /\ state[o] = "EMBRYO" /\ kpc[p] = "copy"
  <2>1. obj[p] \in Slots  BY <1>0, Consts DEF Types, TableInv, ObjInv, FinishFork, ForkPcs, SetPriPcs
  <2>2. QED  BY <2>1 DEF TableInv, ObjInv, FinishFork, ForkPcs
<1>2. /\ \A u \in Slots : state'[u] = IF u = o THEN IF qnode[o] = 0 THEN "EMBRYO" ELSE "RUNNABLE" ELSE state[u]
      /\ \A u \in Slots : parent'[u] = IF u = o THEN p ELSE parent[u]
      /\ \A u \in Slots : kpc'[u] = IF u = p \/ u = o THEN "run" ELSE kpc[u]
      /\ \A u \in Slots : obj'[u] = IF u = p THEN 0 ELSE obj[u]
      /\ cpu' = cpu
  BY <1>0, <1>1 DEF FinishFork, Running, Free, Goto, Types
<1>3. UNCHANGED <<killed, found, putin, qnode, inuse, q, cpu, setpris, fails, raced>>
  BY DEF FinishFork, Goto, queueVars, countVars
<1>4. TypeOK' /\ NamedInv'
  <2>1. state' \in [Slots -> States]  BY <1>0, <1>1 DEF FinishFork, Types, States
  <2>2. parent' \in [Slots -> 0 .. NPROC] /\ obj' \in [Slots -> 0 .. NPROC]
    <3>1. parent' \in [Slots -> 0 .. NPROC]  BY <1>0, <1>1, <1>b DEF FinishFork, Types
    <3>2. obj' \in [Slots -> 0 .. NPROC]  BY <1>0, <1>b DEF FinishFork, Types
    <3>3. QED  BY <3>1, <3>2
  <2>3. kpc' \in [Slots -> Kpcs]  BY <1>0, <1>1 DEF FinishFork, Types, Kpcs
  <2>4. priority' \in [Slots -> Pris]  BY <1>0, <1>1 DEF FinishFork, Types
  <2>5. fault' \in BOOLEAN
    <3>1. fault' = TRUE \/ fault' = fault  BY DEF FinishFork
    <3>2. fault \in BOOLEAN  BY <1>0 DEF Types
    <3>3. QED  BY <3>1, <3>2
  <2>6. /\ nproc' \in [Nodes -> 0 .. NPROC]
        /\ \A n \in Nodes : nproc[n] # 0 => nproc'[n] # 0
    BY <1>0, <1>1, <1>b DEF FinishFork, Types
  <2>7. Named \subseteq Named'  BY <2>6 DEF Named
  <2>8. NamedInv'  BY <1>3, <2>7 DEF TableInv, NamedInv
  <2>9. QED
    BY <1>0, <1>3, <2>1, <2>2, <2>3, <2>4, <2>5, <2>6, <2>8 DEF TypeOK, Types
<1>5. RunInv'  BY <1>0, <1>1, <1>2, <1>a, <1>b DEF RunInv
<1>6. ObjInv'
  <2>1. o # p /\ \A u \in Slots : kpc[u] \in ForkPcs /\ u # p => obj[u] # o
    BY <1>0, <1>1, <1>a DEF ObjInv, ForkPcs
  <2>2. \A u \in Slots : kpc'[u] \in ForkPcs \cup SetPriPcs =>
          u # p /\ kpc'[u] = kpc[u] /\ obj'[u] = obj[u]
    BY <1>2 DEF ForkPcs, SetPriPcs
  <2>3. \A u \in Slots : kpc'[u] \in ForkPcs => obj[u] # o /\ state'[obj[u]] = state[obj[u]]
    BY <1>2, <1>a, <2>1, <2>2 DEF ObjInv
  <2>4. QED  BY <1>a, <2>2, <2>3 DEF ObjInv
<1>7. IdleInv'  BY <1>0, <1>1, <1>2, <1>a, <1>b DEF RunInv, ObjInv, IdleInv, Alive, ForkPcs
<1>8. TreeInv'
  <2>1. o # p /\ o # init  BY <1>0, <1>1, <1>a DEF TreeInv, Alive
  <2>2. \A u \in Slots : u # o => state'[u] = state[u] /\ parent'[u] = parent[u]
    BY <1>2
  <2>3. state'[init] \in Alive /\ parent'[init] = 0 /\ \A u \in Slots : parent'[u] # u
    BY <1>2, <1>a, <1>b, <2>1, <2>2 DEF TreeInv
  <2>4. state'[o] \notin {"SLEEPING", "ZOMBIE"} /\ parent'[o] = p /\ state'[p] = "RUNNING"
    BY <1>0, <1>2, <2>1
  <2>5. ASSUME NEW u \in Slots \ {init}, state'[u] \notin {"UNUSED", "EMBRYO"}
        PROVE  parent'[u] \in Slots /\ state'[parent'[u]] \in Alive
    <3>1. CASE u = o  BY <2>4, <3>1 DEF Alive
    <3>2. CASE u # o
      <4>1. parent[u] \in Slots /\ state[parent[u]] \in Alive
        BY <1>a, <2>2, <2>5, <3>2 DEF TreeInv
      <4>2. parent[u] # o  BY <1>1, <4>1 DEF Alive
      <4>3. QED  BY <2>2, <3>2, <4>1, <4>2
    <3>3. QED  BY <3>1, <3>2
  <2>6. ASSUME NEW u \in Slots, NEW v \in Slots,
               state'[u] = "SLEEPING", kpc'[u] = "wait", parent'[v] = u
        PROVE  state'[v] # "ZOMBIE"
    <3>1. CASE v = o  BY <2>4, <3>1
    <3>2. CASE v # o
      <4>1. u # o /\ state[u] = "SLEEPING" /\ kpc[u] = "wait" /\ parent[v] = u
        BY <1>2, <2>2, <2>4, <2>6, <3>2
      <4>2. QED  BY <1>a, <2>2, <3>2, <4>1 DEF TreeInv
    <3>3. QED  BY <3>1, <3>2
  <2>7. QED  BY <2>3, <2>5, <2>6 DEF TreeInv
<1>9. QED  BY <1>4, <1>5, <1>6, <1>7, <1>8 DEF TableInv

LEMMA ExitTable ==
  ASSUME NCPU = 1, TableInv, NEW c \in CPUs, NEW p \in Slots, Exit(c, p)
  PROVE  TableInv'
<1>0. c = 1 /\ p # 0 /\ cpu[1] = p /\ state[p] = "RUNNING" /\ Types
  BY CpuIs, TypesHold DEF Exit, Running, TableInv, RunInv
<1>a. RunInv /\ ObjInv /\ IdleInv /\ TreeInv
  BY DEF TableInv
<1>b. init \in Slots /\ 0 \notin Slots /\ Slots \subseteq 0 .. NPROC /\ 0 \in 0 .. NPROC
  BY Consts
<1>2. /\ \A u \in Slots : state'[u] = IF u = p THEN "ZOMBIE" ELSE IF u \in WokenByExit(p) THEN "RUNNABLE" ELSE state[u]
      /\ \A u \in Slots : parent'[u] = IF parent[u] = p THEN init ELSE parent[u]
      /\ kpc' = kpc
      /\ obj' = obj
      /\ cpu'[1] = 0
  BY <1>0 DEF Exit, Running, Free, Goto, Types, Reparented, Kids
<1>3. UNCHANGED <<killed, kpc, obj, found, priority, putin, qnode, inuse, nproc, q, fault, setpris, fails, raced>>
  BY DEF Exit, Goto, queueVars, countVars
<1>4. TypeOK' /\ NamedInv'
  <2>1. state' \in [Slots -> States]  BY <1>0, <1>b DEF Exit, Reparented, Free, Goto, Types, States, Kpcs
  <2>2. parent' \in [Slots -> 0 .. NPROC]  BY <1>0, <1>b DEF Exit, Reparented, Free, Goto, Types, States, Kpcs
  <2>3. cpu' \in [CPUs -> 0 .. NPROC]  BY <1>0, <1>b DEF Exit, Reparented, Free, Goto, Types, States, Kpcs
  <2>4. QED  BY <1>0, <1>3, <2>1, <2>2, <2>3 DEF TableInv, TypeOK, Types, NamedInv, Named
<1>5. RunInv'  BY <1>0, <1>2, <1>a, <1>b DEF RunInv
<1>6. ObjInv'  BY <1>0, <1>2, <1>a, <1>b DEF RunInv, ObjInv, IdleInv, ForkPcs, SetPriPcs, WokenByExit, InWait, Exit
<1>7. IdleInv'  BY <1>0, <1>2, <1>a, <1>b DEF RunInv, ObjInv, IdleInv, Alive, ForkPcs, WokenByExit, InWait, Exit
<1>8. TreeInv'
  BY <1>0, <1>2, <1>a, <1>b DEF TreeInv, RunInv, ObjInv, IdleInv, ForkPcs, Alive, Reparented, WokenByExit, InWait, Zombies, Kids, WokenByExit, InWait, Exit
<1>9. QED  BY <1>4, <1>5, <1>6, <1>7, <1>8 DEF TableInv

LEMMA WaitReapTable ==
  ASSUME NCPU = 1, TableInv, NEW c \in CPUs, NEW p \in Slots, WaitReap(c, p)
  PROVE  TableInv'
<1>0. c = 1 /\ p # 0 /\ cpu[1] = p /\ state[p] = "RUNNING" /\ Types
  BY CpuIs, TypesHold DEF WaitReap, Running, TableInv, RunInv
<1>a. RunInv /\ ObjInv /\ IdleInv /\ TreeInv
  BY DEF TableInv
<1>b. init \in Slots /\ 0 \notin Slots /\ Slots \subseteq 0 .. NPROC /\ 0 \in 0 .. NPROC
  BY Consts
<1>1. PICK z \in Slots : z = Min(Zombies(p)) /\ parent[z] = p /\ state[z] = "ZOMBIE"
  <2>1. PICK T : T = Zombies(p)  OBVIOUS
  <2>2. T \in SUBSET Nat /\ T # {}  BY <2>1, Consts DEF WaitReap, Zombies, Kids
  <2>3. Min(T) \in T  BY <2>2, MinIs
  <2>4. QED  BY <2>1, <2>3 DEF Zombies, Kids
<1>2. /\ \A u \in Slots : state'[u] = IF u = z THEN "UNUSED" ELSE state[u]
      /\ \A u \in Slots : parent'[u] = IF u = z THEN 0 ELSE parent[u]
      /\ \A u \in Slots : kpc'[u] = IF u = p THEN "run" ELSE kpc[u]
      /\ obj' = obj
      /\ cpu' = cpu
  BY <1>0, <1>1 DEF WaitReap, Running, Free, Goto, Types
<1>3. UNCHANGED <<obj, found, priority, putin, nproc, q, cpu, setpris, fails, raced>>
  BY DEF WaitReap, Goto, queueVars, countVars
<1>4. TypeOK' /\ NamedInv'
  <2>1. state' \in [Slots -> States]  BY <1>0, <1>1 DEF WaitReap, Types, States
  <2>2. parent' \in [Slots -> 0 .. NPROC]  BY <1>0, <1>1, <1>b DEF WaitReap, Types
  <2>3. kpc' \in [Slots -> Kpcs]  BY <1>0, <1>1 DEF WaitReap, Goto, Types, Kpcs
  <2>4. killed' \in SUBSET Slots /\ inuse' \in SUBSET Nodes  BY <1>0, <1>1 DEF WaitReap, Types
  <2>5. fault' \in BOOLEAN
    <3>1. fault' = TRUE \/ fault' = fault  BY DEF WaitReap
    <3>2. fault \in BOOLEAN  BY <1>0 DEF Types
    <3>3. QED  BY <3>1, <3>2
  <2>6. qnode' = qnode \/ qnode' = [qnode EXCEPT ![z] = 0]  BY <1>1 DEF WaitReap
  <2>7. qnode' \in [Slots -> 0 .. NPROC]  BY <1>0, <1>b, <2>6 DEF Types
  <2>8. qnode' \in [Slots -> Named \cup {0}]  BY <2>6 DEF TableInv, NamedInv
  <2>9. Named' = Named  BY <1>3 DEF Named
  <2>10. NamedInv'  BY <1>3, <2>8, <2>9 DEF TableInv, NamedInv
  <2>11. QED
    BY <1>0, <1>3, <2>1, <2>2, <2>3, <2>4, <2>5, <2>7, <2>10 DEF TypeOK, Types
<1>5. RunInv'  BY <1>0, <1>1, <1>2, <1>a, <1>b DEF RunInv
<1>6. ObjInv'  BY <1>0, <1>1, <1>2, <1>a, <1>b DEF RunInv, ObjInv, IdleInv, ForkPcs, SetPriPcs, WaitReap
<1>7. IdleInv'  BY <1>0, <1>1, <1>2, <1>a, <1>b DEF RunInv, ObjInv, IdleInv, Alive, ForkPcs, WaitReap
<1>8. TreeInv'
  BY <1>0, <1>1, <1>2, <1>a, <1>b DEF TreeInv, RunInv, ObjInv, IdleInv, ForkPcs, Alive, WaitReap
<1>9. QED  BY <1>4, <1>5, <1>6, <1>7, <1>8 DEF TableInv

LEMMA WorkingType == TableInv => Working \in Works(Named) /\ Named \in SUBSET Nodes
BY DEF TableInv, Working, Works, TypeOK, NamedInv, Queues, Named

LEMMA QueuesSet ==
  ASSUME TableInv, NEW s \in Works(Named), SetQueues(s), UNCHANGED <<qnode, nproc>>
  PROVE  q' \in Queues /\ NamedInv'
<1>1. Named' = Named  BY DEF Named
<1>2. Named \cup {0} \subseteq 0 .. NPROC  BY Consts DEF Named
<1>3. /\ q'.next = s.next /\ q'.ticks = s.ticks /\ q'.head = s.head /\ q'.tail = s.tail
      /\ q' = [next |-> s.next, ticks |-> s.ticks, head |-> s.head, tail |-> s.tail]
  BY DEF SetQueues
<1>4. /\ s.next \in [Nodes -> Named \cup {0}] /\ s.ticks \in [Nodes -> 0 .. TickCap]
      /\ s.head \in [Pris -> Named \cup {0}] /\ s.tail \in [Pris -> Named \cup {0}]
  BY DEF Works
<1>5. /\ s.next \in [Nodes -> 0 .. NPROC] /\ s.head \in [Pris -> 0 .. NPROC]
      /\ s.tail \in [Pris -> 0 .. NPROC]
  BY <1>2, <1>4
<1>6. q' \in Queues  BY <1>3, <1>4, <1>5 DEF Queues
<1>7. NamedInv'  BY <1>1, <1>3, <1>4 DEF TableInv, NamedInv
<1>8. QED  BY <1>6, <1>7

LEMMA SetPriQueueTable ==
  ASSUME NCPU = 1, TableInv, NEW c \in CPUs, NEW p \in Slots,
         SetPriRemove(c, p) \/ SetPriPut(c, p)
  PROVE  TableInv'
<1>0. Types /\ RunInv /\ ObjInv /\ IdleInv /\ TreeInv  BY TypesHold DEF TableInv
<1>1. kpc[p] \in {"rm", "put"} /\ cpu[c] = p /\ c = 1 /\ state[p] = "RUNNING"
  BY <1>0, CpuIs DEF SetPriRemove, SetPriPut, Running, RunInv
<1>2. obj[p] \in Slots  BY <1>0, <1>1 DEF ObjInv, SetPriPcs
<1>3. \E s \in Works(Named) : SetQueues(s) /\ fault' = s.stuck
  <2>1. /\ qnode[obj[p]] \in Named \cup {0} /\ priority[obj[p]] \in Pris
        /\ putin[obj[p]] \in Pris \cup {-1}
    BY <1>0, <1>2 DEF Types, TableInv, NamedInv
  <2>2. /\ rm_from_q(Working, qnode[obj[p]], putin[obj[p]]) \in Works(Named)
        /\ put_tail_q(Working, qnode[obj[p]], priority[obj[p]]) \in Works(Named)
    BY <2>1, WorkingType, RmType, PutType
  <2>3. CASE SetPriRemove(c, p)  BY <2>2, <2>3 DEF SetPriRemove
  <2>4. CASE SetPriPut(c, p)  BY <2>2, <2>4 DEF SetPriPut
  <2>5. QED  BY <2>3, <2>4
<1>4. PICK l \in {"put", "setin"} : kpc' = [kpc EXCEPT ![p] = l]
  BY DEF SetPriRemove, SetPriPut, Goto
<1>5. UNCHANGED <<state, parent, killed, obj, found, cpu, priority, putin, qnode, inuse, nproc,
                  setpris, fails, raced>>
  BY DEF SetPriRemove, SetPriPut, countVars
<1>6. TypeOK' /\ NamedInv'
  <2>1. q' \in Queues /\ NamedInv' /\ fault' \in BOOLEAN
    BY <1>3, <1>5, QueuesSet DEF Works
  <2>2. kpc' \in [Slots -> Kpcs]  BY <1>0, <1>4 DEF Types, Kpcs
  <2>3. QED  BY <1>0, <1>5, <2>1, <2>2 DEF TypeOK, Types
<1>7. \A u \in Slots : kpc'[u] = IF u = p THEN l ELSE kpc[u]  BY <1>0, <1>4 DEF Types
<1>8. RunInv' /\ IdleInv'  BY <1>0, <1>1, <1>5, <1>7 DEF RunInv, IdleInv, Alive
<1>9. ObjInv'  BY <1>0, <1>1, <1>2, <1>5, <1>7 DEF ObjInv, ForkPcs, SetPriPcs
<1>10. TreeInv'  BY <1>0, <1>1, <1>5, <1>7 DEF TreeInv, Alive
<1>11. QED  BY <1>6, <1>8, <1>9, <1>10 DEF TableInv

(* Which process the scheduler takes from the refreshed queues. *)
LEMMA TopIs ==
  ASSUME TableInv, NEW s \in Works(Named), Nonempty(s) # {}
  PROVE  /\ TopQueue(s) \in Pris /\ s.head[TopQueue(s)] \in Named
         /\ \A i \in Pris : s.head[i] # 0 => i <= TopQueue(s)
         /\ nproc[s.head[TopQueue(s)]] \in Slots
<1>1. PICK n \in Nat : n = NLAYER - 1  BY Consts
<1>2. Nonempty(s) \in SUBSET (0 .. n)  BY <1>1, Consts DEF Nonempty
<1>3. /\ Max(Nonempty(s)) \in Nonempty(s)
      /\ \A k \in Nonempty(s) : k <= Max(Nonempty(s))
  BY <1>2, MaxIs
<1>4. PICK t : t = TopQueue(s)  OBVIOUS
<1>5. t \in Pris /\ s.head[t] # 0 /\ \A i \in Pris : s.head[i] # 0 => i <= t
  BY <1>3, <1>4 DEF TopQueue, Nonempty
<1>6. s.head[t] \in Named  BY <1>5 DEF Works
<1>7. nproc[s.head[t]] \in Slots
  <2>1. s.head[t] \in Nodes /\ nproc[s.head[t]] # 0  BY <1>6 DEF Named
  <2>2. nproc[s.head[t]] \in 0 .. NPROC  BY <2>1 DEF TableInv, TypeOK
  <2>3. QED  BY <2>1, <2>2, Consts
<1>8. QED  BY <1>4, <1>5, <1>6, <1>7

LEMMA ScheduleTable ==
  ASSUME NCPU = 1, TableInv, NEW c \in CPUs, Schedule(c)
  PROVE  TableInv'
<1>0. Types /\ RunInv /\ ObjInv /\ IdleInv /\ TreeInv /\ c = 1 /\ cpu[1] = 0
  BY CpuIs, TypesHold DEF TableInv, Schedule
<1>1. PICK s \in Works(Named) : s = refresh_q
  <2>1. NPROC \in 0 .. NPROC  BY Consts
  <2>2. QED  BY <2>1, RefreshIs DEF TableInv
<1>2. UNCHANGED <<parent, killed, obj, found, priority, qnode, inuse, nproc, setpris, fails, raced>>
  BY DEF Schedule, countVars
<1>a. \A u \in Slots : state[u] # "RUNNING"
  BY <1>0, Consts DEF RunInv
<1>3. CASE s.stuck
  <2>1. UNCHANGED <<state, kpc, cpu, q, putin>> /\ fault' = TRUE
    BY <1>1, <1>3 DEF Schedule
  <2>2. TypeOK' /\ NamedInv'
    BY <1>0, <1>2, <2>1 DEF TableInv, TypeOK, Types, NamedInv, Named
  <2>3. RunInv' /\ ObjInv' /\ IdleInv' /\ TreeInv'
    BY <1>0, <1>2, <2>1 DEF RunInv, ObjInv, IdleInv, TreeInv
  <2>4. QED  BY <2>2, <2>3 DEF TableInv
<1>4. CASE ~s.stuck /\ Nonempty(s) = {}
  <2>1. UNCHANGED <<state, kpc, cpu, fault>> /\ SetQueues(s) /\ putin' = s.putin
    BY <1>1, <1>4 DEF Schedule
  <2>2. q' \in Queues /\ NamedInv'  BY <1>2, <2>1, QueuesSet
  <2>3. putin' \in [Slots -> Pris \cup {-1}]  BY <2>1 DEF Works
  <2>4. TypeOK'  BY <1>0, <1>2, <2>1, <2>2, <2>3 DEF TypeOK, Types
  <2>5. RunInv' /\ ObjInv' /\ IdleInv' /\ TreeInv'
    BY <1>0, <1>2, <2>1 DEF RunInv, ObjInv, IdleInv, TreeInv
  <2>6. QED  BY <2>2, <2>4, <2>5 DEF TableInv
<1>5. CASE ~s.stuck /\ Nonempty(s) # {}
  <2>1. PICK p \in Slots : p = nproc[s.head[TopQueue(s)]]  BY <1>5, TopIs
  <2>2. Switch(c, s, p) /\ putin' = s.putin
    BY <1>1, <1>5, <2>1 DEF Schedule
  <2>3. putin' \in [Slots -> Pris \cup {-1}]  BY <2>2 DEF Works
  <2>4. CASE qnode[p] = 0 \/ state[p] \in {"UNUSED", "EMBRYO", "ZOMBIE"}
    <3>1. UNCHANGED <<state, kpc, cpu>> /\ SetQueues(s) /\ fault' = TRUE
      BY <2>2, <2>4 DEF Switch
    <3>2. q' \in Queues /\ NamedInv'  BY <1>2, <3>1, QueuesSet
    <3>3. TypeOK'  BY <1>0, <1>2, <2>3, <3>1, <3>2 DEF TypeOK, Types
    <3>4. RunInv' /\ ObjInv' /\ IdleInv' /\ TreeInv'
      BY <1>0, <1>2, <3>1 DEF RunInv, ObjInv, IdleInv, TreeInv
    <3>5. QED  BY <3>2, <3>3, <3>4 DEF TableInv
  <2>5. CASE ~(qnode[p] = 0 \/ state[p] \in {"UNUSED", "EMBRYO", "ZOMBIE"})
    <3>1. PICK t : t = [s EXCEPT !.ticks[qnode[p]] = IF @ < TickCap THEN @ + 1 ELSE @]
      OBVIOUS
    <3>2. /\ SetQueues(t) /\ state' = [state EXCEPT ![p] = "RUNNING"]
          /\ kpc' = [kpc EXCEPT ![p] = IF @ = "io" THEN "run" ELSE @]
          /\ cpu' = [cpu EXCEPT ![1] = p] /\ fault' = fault
      BY <1>0, <2>2, <2>5, <3>1 DEF Switch
    <3>3. t \in Works(Named)
      <4>1. qnode[p] \in Nodes  BY <2>5 DEF TableInv, NamedInv, Named
      <4>2. PICK k \in 0 .. TickCap :
              k = IF s.ticks[qnode[p]] < TickCap THEN s.ticks[qnode[p]] + 1 ELSE s.ticks[qnode[p]]
        <5>1. s.ticks[qnode[p]] \in 0 .. TickCap  BY <4>1 DEF Works
        <5>2. QED  BY <5>1, TickIs
      <4>3. t = [s EXCEPT !.ticks[qnode[p]] = k]  BY <3>1, <4>2
      <4>4. QED  BY <4>1, <4>3 DEF Works
    <3>4. q' \in Queues /\ NamedInv'  BY <1>2, <3>2, <3>3, QueuesSet
    <3>5. /\ state' \in [Slots -> States] /\ kpc' \in [Slots -> Kpcs]
          /\ cpu' \in [CPUs -> 0 .. NPROC]
      <4>1. state' \in [Slots -> States]  BY <1>0, <3>2 DEF Types, States
      <4>2. kpc' \in [Slots -> Kpcs]  BY <1>0, <3>2 DEF Types, Kpcs
      <4>3. p \in 0 .. NPROC  BY Consts
      <4>4. cpu' \in [CPUs -> 0 .. NPROC]  BY <1>0, <3>2, <4>3 DEF Types
      <4>5. QED  BY <4>1, <4>2, <4>4
    <3>6. TypeOK'  BY <1>0, <1>2, <2>3, <3>2, <3>4, <3>5 DEF TypeOK, Types
    <3>7. /\ \A u \in Slots : state'[u] = IF u = p THEN "RUNNING" ELSE state[u]
          /\ \A u \in Slots : kpc'[u] = IF u = p /\ kpc[p] = "io" THEN "run" ELSE kpc[u]
          /\ cpu'[1] = p /\ state[p] \in {"SLEEPING", "RUNNABLE"}
      BY <1>0, <1>a, <2>5, <3>2 DEF Types, States
    <3>8. RunInv' /\ IdleInv'
      BY <1>0, <1>a, <3>7 DEF RunInv, IdleInv, Alive
    <3>9. ObjInv'
      BY <1>0, <1>2, <3>7 DEF ObjInv, ForkPcs, SetPriPcs
    <3>10. TreeInv'
      <4>1. /\ \A u \in Slots : state[u] \in Alive => state'[u] \in Alive
            /\ \A u \in Slots : state'[u] \in {"SLEEPING", "ZOMBIE", "UNUSED", "EMBRYO"} =>
                 state'[u] = state[u] /\ kpc'[u] = kpc[u]
            /\ \A u \in Slots : state[u] \in {"UNUSED", "EMBRYO"} => state'[u] = state[u]
            /\ parent' = parent
        BY <1>2, <3>7 DEF Alive
      <4>2. state'[init] \in Alive /\ parent'[init] = 0 /\ \A u \in Slots : parent'[u] # u
        BY <1>0, <4>1, Consts DEF TreeInv
      <4>3. \A u \in Slots \ {init} : state'[u] \notin {"UNUSED", "EMBRYO"} =>
              parent'[u] \in Slots /\ state'[parent'[u]] \in Alive
        BY <1>0, <4>1 DEF TreeInv
      <4>4. \A u, v \in Slots :
              state'[u] = "SLEEPING" /\ kpc'[u] = "wait" /\ parent'[v] = u => state'[v] # "ZOMBIE"
        BY <1>0, <4>1 DEF TreeInv
      <4>5. QED  BY <4>2, <4>3, <4>4 DEF TreeInv
    <3>11. QED  BY <3>4, <3>6, <3>8, <3>9, <3>10 DEF TableInv
  <2>6. QED  BY <2>4, <2>5
<1>6. s.stuck \in BOOLEAN  BY DEF Works
<1>7. QED  BY <1>3, <1>4, <1>5, <1>6

LEMMA WakeupTable ==
  ASSUME TableInv, Wakeup
  PROVE  TableInv'
<1>0. Types /\ RunInv /\ ObjInv /\ IdleInv /\ TreeInv  BY TypesHold DEF TableInv
<1>1. UNCHANGED <<parent, killed, kpc, obj, found, cpu, priority, putin, qnode, inuse, nproc, q,
                  fault, setpris, fails, raced>>
  BY DEF Wakeup, queueVars, countVars
<1>2. \A u \in Slots : \/ state'[u] = state[u]
                       \/ state[u] = "SLEEPING" /\ kpc[u] = "io" /\ state'[u] = "RUNNABLE"
  <2>1. PICK S \in SUBSET {p \in Slots : state[p] = "SLEEPING" /\ kpc[p] = "io"} :
          state' = [p \in Slots |-> IF p \in S THEN "RUNNABLE" ELSE state[p]]
    BY DEF Wakeup
  <2>2. \A u \in Slots : state'[u] = IF u \in S THEN "RUNNABLE" ELSE state[u]
    BY <2>1
  <2> QED BY <2>2
<1>3. TypeOK' /\ NamedInv'
  <2>1. state' \in [Slots -> States]  BY <1>0 DEF Wakeup, Types, States
  <2>2. QED  BY <1>0, <1>1, <2>1 DEF TableInv, TypeOK, Types, NamedInv, Named
<1>4. RunInv' /\ ObjInv' /\ IdleInv'
  BY <1>0, <1>1, <1>2 DEF RunInv, ObjInv, IdleInv, Alive
<1>5. TreeInv'  BY <1>0, <1>1, <1>2, Consts DEF TreeInv, Alive
<1>6. QED  BY <1>3, <1>4, <1>5 DEF TableInv

LEMMA InitTable == Init /\ NCPU = 1 => TableInv
<1> SUFFICES ASSUME Init, NCPU = 1 PROVE TableInv
  OBVIOUS
<1>1. TypeOK
  <2>1. 0 \in 0 .. NPROC /\ 1 \in 0 .. NPROC /\ 1 \in Nodes /\ 0 \in Pris /\ NLAYER - 1 \in Pris
    BY Consts
  <2>2. q \in Queues  BY <2>1, TickIs DEF Init, Queues
  <2>3. priority \in [Slots -> Pris] /\ nproc \in [Nodes -> 0 .. NPROC]
    BY <2>1, Consts DEF Init, init
  <2>4. qnode \in [Slots -> 0 .. NPROC] /\ inuse \in SUBSET Nodes  BY <2>1 DEF Init
  <2>5. state \in [Slots -> States] /\ kpc \in [Slots -> Kpcs]  BY DEF Init, States, Kpcs
  <2>6. setpris \in 0 .. MaxSetPri /\ fails \in 0 .. MaxFail  BY MLQAssumption DEF Init
  <2>7. fault \in BOOLEAN /\ raced \in BOOLEAN  BY DEF Init
  <2>8. QED  BY <2>1, <2>2, <2>3, <2>4, <2>5, <2>6, <2>7 DEF Init, TypeOK
<1>2. NamedInv
  <2>1. 1 \in Named  BY Consts DEF Named, Init, init
  <2>2. QED  BY <2>1 DEF NamedInv, Init
<1>3. RunInv /\ ObjInv /\ IdleInv
  BY CpuIs, Consts DEF Init, RunInv, ObjInv, IdleInv, ForkPcs, SetPriPcs, Alive, init
<1>4. TreeInv  BY Consts DEF Init, TreeInv, Alive, init
<1>5. QED  BY <1>1, <1>2, <1>3, <1>4 DEF TableInv

LEMMA NextTable == ASSUME NCPU = 1, TableInv, [Next]_vars PROVE TableInv'
<1>1. CASE UNCHANGED vars
  BY <1>1 DEF vars, TableInv, TypeOK, NamedInv, Named, RunInv, ObjInv, IdleInv, TreeInv
<1>2. ASSUME NEW c \in CPUs, Schedule(c) PROVE TableInv'
  BY <1>2, ScheduleTable
<1>3. ASSUME NEW c \in CPUs, NEW p \in Slots, Yield(c, p) \/ ProcStep(c, p) PROVE TableInv'
  <2>1. CASE Yield(c, p)  BY <2>1, YieldTable
  <2>2. CASE Fork(c, p)
    <3>1. CASE ForkDone(c, p)  BY <3>1, FinishForkTable DEF ForkDone
    <3>2. QED  BY <2>2, <3>1, ForkSlotTable, ForkStackTable, ForkNoStackTable, ForkFindNodeTable,
                  ForkTakeNodeTable, ForkNoCopyTable DEF Fork
  <2>3. CASE Wait(c, p)  BY <2>3, WaitReapTable, WaitSleepTable, WaitNoneTable DEF Wait
  <2>4. CASE Exit(c, p)  BY <2>4, ExitTable
  <2>5. CASE Sleep(c, p)  BY <2>5, SleepTable
  <2>6. CASE SetPriStep(c, p)
    BY <2>6, SetPriQueueTable, SetPriDoneTable DEF SetPriStep
  <2>7. ASSUME NEW r \in Slots, Kill(c, p, r) PROVE TableInv'  BY <2>7, KillTable
  <2>8. ASSUME NEW r \in Slots, NEW pri \in Pris, SetPri(c, p, r, pri) PROVE TableInv'
    BY <2>8, SetPriTable
  <2>9. QED  BY <1>3, <2>1, <2>2, <2>3, <2>4, <2>5, <2>6, <2>7, <2>8 DEF ProcStep
<1>4. CASE Wakeup  BY <1>4, WakeupTable
<1>5. QED  BY <1>1, <1>2, <1>3, <1>4 DEF Next

(* The process table's invariant, which setpri and failing forks respect   *)
(* too: states, calls in progress and the tree of processes agree.         *)
THEOREM TableInvariant ==
  ASSUME NCPU = 1
  PROVE  Spec => []TableInv
<1>1. Init => TableInv  BY InitTable
<1>2. TableInv /\ [Next]_vars => TableInv'  BY NextTable
<1>3. QED  BY <1>1, <1>2, PTL DEF Spec

(* Every variable keeps its type, whatever a stray put_in or queue pointer *)
(* makes rm_from_q() and put_tail_q() do.                                  *)
THEOREM TypeCorrect ==
  ASSUME NCPU = 1
  PROVE  Spec => []TypeOK
<1>1. TableInv => TypeOK  BY DEF TableInv
<1>2. QED  BY <1>1, TableInvariant, PTL

(* exit() hands every child to somebody who can still wait() for it. *)
THEOREM NobodyOrphaned ==
  ASSUME NCPU = 1
  PROVE  Spec => []NoOrphan
<1>1. TableInv => NoOrphan
  BY Consts DEF TableInv, TreeInv, NoOrphan, Alive
<1>2. QED  BY <1>1, TableInvariant, PTL

(* No wakeup between exit() and wait() is lost, with any number of children *)
(* handed to init at the same time.                                         *)
THEOREM NoLostExit ==
  ASSUME NCPU = 1
  PROVE  Spec => []WaitNotMissed
<1>1. TableInv => WaitNotMissed
  BY DEF TableInv, TreeInv, WaitNotMissed, InWait, Zombies, Kids
<1>2. QED  BY <1>1, TableInvariant, PTL
-------------------------------------------------------------------------------
(* kill() against wait(), with any number of processors. *)
KillInv ==
  /\ state \in [Slots -> States]
  /\ kpc \in [Slots -> Kpcs]
  /\ killed \in SUBSET Slots
  /\ \A u \in killed : ~(state[u] = "SLEEPING" /\ kpc[u] = "wait")

(* A step after which nobody new is asleep in wait(). *)
LEMMA NoNewSleeper ==
  ASSUME KillInv, NEW x, NEW v \in States \ {"SLEEPING"}, NEW y, NEW l \in Kpcs \ {"wait"},
         state' = state \/ state' = [state EXCEPT ![x] = v],
         kpc' = kpc \/ kpc' = [kpc EXCEPT ![y] = l],
         killed' \subseteq killed
  PROVE  KillInv'
<1>1. state' \in [Slots -> States] /\ kpc' \in [Slots -> Kpcs] /\ killed' \in SUBSET Slots
  BY DEF KillInv
<1>2. \A u \in Slots : state'[u] = "SLEEPING" => state[u] = "SLEEPING"
  BY DEF KillInv
<1>3. \A u \in Slots : kpc'[u] = "wait" => kpc[u] = "wait"
  BY DEF KillInv
<1>4. QED  BY <1>1, <1>2, <1>3 DEF KillInv

LEMMA NextKill == ASSUME KillInv, [Next]_vars PROVE KillInv'
<1>1. CASE UNCHANGED vars  BY <1>1 DEF vars, KillInv
<1>2. ASSUME NEW c \in CPUs, Schedule(c) PROVE KillInv'
  <2>1. killed' = killed  BY <1>2 DEF Schedule
  <2>2. CASE UNCHANGED <<state, kpc>>  BY <2>1, <2>2 DEF KillInv
  <2>3. ASSUME NEW p, state' = [state EXCEPT ![p] = "RUNNING"],
               kpc' = [kpc EXCEPT ![p] = IF @ = "io" THEN "run" ELSE @]
        PROVE  KillInv'
    <3>1. kpc' = kpc \/ kpc' = [kpc EXCEPT ![p] = "run"]
      BY <2>3 DEF KillInv
    <3>2. QED  BY <2>1, <2>3, <3>1, NoNewSleeper DEF States, Kpcs
  <2>4. QED  BY <1>2, <2>2, <2>3 DEF Schedule, Switch
<1>3. ASSUME NEW c \in CPUs, NEW p \in Slots, Yield(c, p) \/ ProcStep(c, p) PROVE KillInv'
  <2> USE DEF Goto, States, Kpcs
  <2>1. CASE Yield(c, p)  BY <2>1 DEF Yield, KillInv
  <2>2. CASE ForkSlot(c, p)
    <3>1. PICK x : state' = [state EXCEPT ![x] = "EMBRYO"]  BY <2>2 DEF ForkSlot
    <3>2. QED  BY <2>2, <3>1, NoNewSleeper DEF ForkSlot
  <2>3. CASE ForkStack(c, p)  BY <2>3 DEF ForkStack, KillInv
  <2>4. CASE ForkNoStack(c, p)  BY <2>4, NoNewSleeper DEF ForkNoStack
  <2>5. CASE ForkFindNode(c, p)  BY <2>5 DEF ForkFindNode, KillInv
  <2>6. CASE ForkTakeNode(c, p)  BY <2>6 DEF ForkTakeNode, KillInv
  <2>7. CASE ForkNoCopy(c, p)  BY <2>7, NoNewSleeper DEF ForkNoCopy
  <2>8. ASSUME NEW pri \in Pris, FinishFork(c, p, pri) PROVE KillInv'
    <3>1. PICK x : x = obj[p]  OBVIOUS
    <3>2. /\ state' = state \/ state' = [state EXCEPT ![x] = "RUNNABLE"]
          /\ kpc' = [kpc EXCEPT ![p] = "run", ![x] = "run"] /\ killed' = killed
      BY <2>8, <3>1 DEF FinishFork
    <3>3. /\ state' \in [Slots -> States] /\ kpc' \in [Slots -> Kpcs]
          /\ \A u \in Slots : state'[u] = "SLEEPING" => state[u] = "SLEEPING"
          /\ \A u \in Slots : kpc'[u] = "wait" => kpc[u] = "wait"
      BY <3>2 DEF KillInv
    <3>4. QED  BY <3>2, <3>3 DEF KillInv
  <2>9. CASE Exit(c, p)
    <3>1. state' \in [Slots -> States]  BY <2>9 DEF Exit, KillInv
    <3>2. \A u \in Slots : state'[u] = "SLEEPING" => state[u] = "SLEEPING"  BY <2>9 DEF Exit
    <3>3. killed' = killed /\ kpc' = kpc  BY <2>9 DEF Exit
    <3>4. QED  BY <3>1, <3>2, <3>3 DEF KillInv
  <2>10. CASE WaitReap(c, p)
    <3>1. PICK x : state' = [state EXCEPT ![x] = "UNUSED"]  BY <2>10 DEF WaitReap
    <3>2. killed' \subseteq killed  BY <2>10 DEF WaitReap
    <3>3. QED  BY <2>10, <3>1, <3>2, NoNewSleeper DEF WaitReap
  <2>11. CASE WaitSleep(c, p)  BY <2>11 DEF WaitSleep, KeepWaiting, KillInv
  <2>12. CASE WaitNone(c, p)  BY <2>12 DEF WaitNone, KillInv
  <2>13. CASE Sleep(c, p)  BY <2>13 DEF Sleep, KillInv
  <2>14. CASE SetPriStep(c, p)
    <3>1. state' = state /\ killed' = killed /\ \E l \in {"put", "setin", "run"} : Goto(p, l)
      BY <2>14 DEF SetPriStep, SetPriRemove, SetPriPut, SetPriDone
    <3>2. QED  BY <3>1 DEF KillInv
  <2>15. ASSUME NEW r \in Slots, Kill(c, p, r) PROVE KillInv'  BY <2>15 DEF Kill, KillInv
  <2>16. ASSUME NEW r \in Slots, NEW pri \in Pris, SetPri(c, p, r, pri) PROVE KillInv'
    BY <2>16 DEF SetPri, KillInv
  <2>17. QED
    BY <1>3, <2>1, <2>2, <2>3, <2>4, <2>5, <2>6, <2>7, <2>8, <2>9, <2>10, <2>11, <2>12, <2>13,
       <2>14, <2>15, <2>16 DEF ProcStep, Fork, ForkDone, Wait
<1>4. CASE Wakeup  BY <1>4 DEF Wakeup, KillInv, States
<1>5. QED  BY <1>1, <1>2, <1>3, <1>4 DEF Next

(* A killed process is not left asleep in wait(), whichever of kill() and  *)
(* wait() comes first and on whichever processors they run.                *)
THEOREM KilledWakes == Spec => []KilledNotAsleep
<1>1. Init => KillInv  BY DEF Init, KillInv, States, Kpcs
<1>2. KillInv /\ [Next]_vars => KillInv'  BY NextKill
<1>3. KillInv => KilledNotAsleep  BY DEF KillInv, KilledNotAsleep, InWait
<1>4. QED  BY <1>1, <1>2, <1>3, PTL DEF Spec
-------------------------------------------------------------------------------
(* Lists laid out in pointers. *)
LEMMA SeqOf ==
  ASSUME NEW S, NEW n \in Nat, NEW g \in [1 .. n -> S]
  PROVE  g \in Seq(S) /\ Len(g) = n
OBVIOUS

LEMMA SeqTypes ==
  ASSUME NEW l \in Seq(Nodes)
  PROVE  Len(l) \in Nat /\ (\A k \in 1 .. Len(l) : l[k] \in Nodes) /\ (l = <<>> <=> Len(l) = 0)
<1>1. Len(l) \in Nat /\ \A k \in 1 .. Len(l) : l[k] \in Nodes
  BY ElementOfSeq, LenProperties
<1>2. QED  BY <1>1, EmptySeq

(* Taking the head off. *)
LEMMA LinkedPop ==
  ASSUME NEW next, NEW h, NEW t, NEW l \in Seq(Nodes), l # <<>>, Linked(next, h, t, l)
  PROVE  \E m \in Seq(Nodes) :
           /\ Linked(next, next[h], IF t = h THEN 0 ELSE t, m)
           /\ \A n : Member(n, m) <=> Member(n, l) /\ n # h
<1>1. PICK d \in Nat : Len(l) = d + 1
  <2>1. Len(l) \in Nat /\ Len(l) # 0  BY SeqTypes
  <2>2. Len(l) - 1 \in Nat /\ Len(l) = (Len(l) - 1) + 1  BY <2>1
  <2>3. QED  BY <2>2
<1>2. \A k \in 1 .. d + 1 : l[k] \in Nodes  BY <1>1, SeqTypes
<1>3. PICK m : m = [k \in 1 .. d |-> l[k + 1]]  OBVIOUS
<1>4. m \in [1 .. d -> Nodes]  BY <1>2, <1>3
<1>5. m \in Seq(Nodes) /\ Len(m) = d  BY <1>4, SeqOf
<1>6. /\ h = l[1] /\ t = l[d + 1]
      /\ \A k \in 1 .. d + 1 : next[l[k]] = IF k = d + 1 THEN 0 ELSE l[k + 1]
      /\ \A j, k \in 1 .. d + 1 : l[j] = l[k] => j = k
  BY <1>1 DEF Linked
<1>7. \A k \in 1 .. d : m[k] = l[k + 1] /\ k + 1 \in 1 .. d + 1  BY <1>3
<1>8. m = <<>> <=> d = 0  BY <1>5, EmptySeq
<1>9. next[h] = IF m = <<>> THEN 0 ELSE m[1]
  BY <1>6, <1>7, <1>8
<1>10. (IF t = h THEN 0 ELSE t) = IF m = <<>> THEN 0 ELSE m[d]
  <2>1. CASE d = 0  BY <1>6, <1>8, <2>1
  <2>2. CASE d # 0
    <3>1. d \in 1 .. d /\ d + 1 \in 1 .. d + 1 /\ 1 \in 1 .. d + 1 /\ d + 1 # 1  BY <2>2
    <3>2. t # h /\ m[d] = t  BY <1>6, <1>7, <3>1
    <3>3. QED  BY <1>8, <2>2, <3>2
  <2>3. QED  BY <2>1, <2>2
<1>11. ASSUME NEW k \in 1 .. d PROVE next[m[k]] = IF k = d THEN 0 ELSE m[k + 1]
  <2>1. next[l[k + 1]] = IF k + 1 = d + 1 THEN 0 ELSE l[(k + 1) + 1]  BY <1>6, <1>7
  <2>2. k # d => k + 1 \in 1 .. d  OBVIOUS
  <2>3. k # d => m[k + 1] = l[(k + 1) + 1]  BY <1>7, <2>2
  <2>4. QED  BY <1>7, <2>1, <2>3
<1>12. \A j, k \in 1 .. d : m[j] = m[k] => j = k  BY <1>6, <1>7
<1>13. Linked(next, next[h], IF t = h THEN 0 ELSE t, m)
  BY <1>5, <1>9, <1>10, <1>11, <1>12 DEF Linked
<1>14. ASSUME NEW n PROVE Member(n, m) <=> Member(n, l) /\ n # h
  <2>1. ASSUME NEW k \in 1 .. d, m[k] = n PROVE Member(n, l) /\ n # h
    <3>1. n = l[k + 1] /\ k + 1 \in 1 .. d + 1 /\ 1 \in 1 .. d + 1 /\ k + 1 # 1  BY <1>7, <2>1
    <3>2. QED  BY <1>1, <1>6, <3>1 DEF Member
  <2>2. ASSUME NEW k \in 1 .. d + 1, l[k] = n, n # h PROVE Member(n, m)
    <3>1. k # 1  BY <1>6, <2>2
    <3>2. k - 1 \in 1 .. d /\ (k - 1) + 1 = k  BY <3>1
    <3>3. m[k - 1] = n  BY <1>7, <2>2, <3>2
    <3>4. QED  BY <1>5, <3>2, <3>3 DEF Member
  <2>3. QED  BY <1>1, <1>5, <2>1, <2>2 DEF Member
<1>15. QED  BY <1>5, <1>13, <1>14

(* Adding at the tail. *)
LEMMA LinkedPush ==
  ASSUME NEW next, NEW h, NEW t, NEW l \in Seq(Nodes), Linked(next, h, t, l),
         NEW n \in Nodes, ~Member(n, l), NEW next2, next2[n] = 0, t # 0 => next2[t] = n,
         \A x \in Nodes : x # n /\ x # t => next2[x] = next[x]
  PROVE  \E m \in Seq(Nodes) :
           /\ Linked(next2, IF t = 0 THEN n ELSE h, n, m)
           /\ \A x : Member(x, m) <=> Member(x, l) \/ x = n
<1>1. PICK d \in Nat : Len(l) = d  BY SeqTypes
<1>2. (\A k \in 1 .. d : l[k] \in Nodes /\ l[k] # n) /\ (l = <<>> <=> d = 0)
  BY <1>1, SeqTypes DEF Member
<1>3. PICK m : m = [k \in 1 .. d + 1 |-> IF k = d + 1 THEN n ELSE l[k]]  OBVIOUS
<1>4. m \in [1 .. d + 1 -> Nodes]  BY <1>2, <1>3
<1>5. m \in Seq(Nodes) /\ Len(m) = d + 1  BY <1>4, SeqOf
<1>6. m # <<>>  BY <1>5, EmptySeq
<1>7. m[d + 1] = n /\ (\A k \in 1 .. d : m[k] = l[k]) /\ 0 \notin Nodes
  BY <1>3, Consts
<1>8. /\ h = IF d = 0 THEN 0 ELSE l[1]
      /\ t = IF d = 0 THEN 0 ELSE l[d]
      /\ \A k \in 1 .. d : next[l[k]] = IF k = d THEN 0 ELSE l[k + 1]
      /\ \A j, k \in 1 .. d : l[j] = l[k] => j = k
  BY <1>1, <1>2 DEF Linked
<1>9. (t = 0) <=> (d = 0)
  <2>1. d # 0 => d \in 1 .. d  OBVIOUS
  <2>2. QED  BY <1>2, <1>7, <1>8, <2>1
<1>10. (IF t = 0 THEN n ELSE h) = m[1]
  <2>1. CASE d = 0  BY <1>7, <1>9, <2>1
  <2>2. CASE d # 0
    <3>1. 1 \in 1 .. d  BY <2>2
    <3>2. QED  BY <1>7, <1>8, <1>9, <2>2, <3>1
  <2>3. QED  BY <2>1, <2>2
<1>11. ASSUME NEW k \in 1 .. d + 1 PROVE next2[m[k]] = IF k = d + 1 THEN 0 ELSE m[k + 1]
  <2>1. CASE k = d + 1  BY <1>7, <2>1
  <2>2. CASE k = d /\ k # d + 1
    <3>1. d \in 1 .. d /\ d # 0  BY <2>2
    <3>2. m[k] = t /\ t # 0  BY <1>7, <1>8, <1>9, <2>2, <3>1
    <3>3. QED  BY <1>7, <2>2, <3>2
  <2>3. CASE k # d /\ k # d + 1
    <3>1. k \in 1 .. d /\ k + 1 \in 1 .. d /\ d \in 1 .. d /\ d # 0  BY <2>3
    <3>2. m[k] = l[k] /\ m[k + 1] = l[k + 1] /\ next[l[k]] = l[k + 1]  BY <1>7, <1>8, <2>3, <3>1
    <3>3. l[k] # n /\ l[k] # t /\ l[k] \in Nodes  BY <1>2, <1>8, <2>3, <3>1
    <3>4. next2[l[k]] = next[l[k]]  BY <3>3
    <3>5. QED  BY <2>3, <3>2, <3>4
  <2>4. QED  BY <2>1, <2>2, <2>3
<1>12. ASSUME NEW j \in 1 .. d + 1, NEW k \in 1 .. d + 1, m[j] = m[k] PROVE j = k
  <2>1. CASE j \in 1 .. d /\ k \in 1 .. d  BY <1>7, <1>8, <1>12, <2>1
  <2>2. CASE j = d + 1 /\ k \in 1 .. d  BY <1>2, <1>7, <1>12, <2>2
  <2>3. CASE j \in 1 .. d /\ k = d + 1  BY <1>2, <1>7, <1>12, <2>3
  <2>4. CASE j = d + 1 /\ k = d + 1  BY <2>4
  <2>5. QED  BY <2>1, <2>2, <2>3, <2>4
<1>13. Linked(next2, IF t = 0 THEN n ELSE h, n, m)
  BY <1>5, <1>6, <1>7, <1>10, <1>11, <1>12 DEF Linked
<1>14. ASSUME NEW x PROVE Member(x, m) <=> Member(x, l) \/ x = n
  <2>1. \A i \in 1 .. d + 1 : i = d + 1 \/ i \in 1 .. d  OBVIOUS
  <2>2. d + 1 \in 1 .. d + 1 /\ \A i \in 1 .. d : i \in 1 .. d + 1  OBVIOUS
  <2>3. QED  BY <1>1, <1>5, <1>7, <2>1, <2>2 DEF Member
<1>15. QED  BY <1>5, <1>13, <1>14

(* A list none of whose nodes are touched. *)
LEMMA LinkedFrame ==
  ASSUME NEW next, NEW next2, NEW h, NEW t, NEW l \in Seq(Nodes), Linked(next, h, t, l),
         \A x \in Nodes : Member(x, l) => next2[x] = next[x]
  PROVE  Linked(next2, h, t, l)
<1>1. \A k \in 1 .. Len(l) : next2[l[k]] = next[l[k]]
  BY SeqTypes DEF Member
<1>2. QED  BY <1>1 DEF Linked

(* The node of a queued process is in the list its put_in says, and in no   *)
(* other.                                                                   *)
LEMMA WhereIs ==
  ASSUME TableInv, NodeInv, NEW p \in Slots, qnode[p] # 0
  PROVE  /\ qnode[p] \in Nodes /\ qnode[p] \in inuse /\ nproc[qnode[p]] = p
         /\ \A n \in Nodes : n \in inuse /\ nproc[n] = p => n = qnode[p]
         /\ \A u \in Slots : u # p => qnode[u] # qnode[p]
         /\ \A n \in inuse : n \in Nodes /\ nproc[n] \in Slots
<1>1. qnode[p] \in Nodes  BY DEF TableInv, NamedInv, Named
<1>2. qnode[p] \in inuse /\ nproc[qnode[p]] = p  BY DEF NodeInv
<1>3. \A n \in Nodes : n \in inuse /\ nproc[n] = p => n = qnode[p]  BY DEF NodeInv
<1>4. \A u \in Slots : u # p => qnode[u] # qnode[p]  BY <1>2 DEF NodeInv
<1>5. ASSUME NEW n \in inuse PROVE n \in Nodes /\ nproc[n] \in Slots
  <2>1. n \in Nodes  BY DEF TableInv, TypeOK
  <2>2. nproc[n] # 0 /\ nproc[n] \in 0 .. NPROC  BY <2>1 DEF NodeInv, TableInv, TypeOK
  <2>3. QED  BY <2>1, <2>2, Consts
<1>6. QED  BY <1>1, <1>2, <1>3, <1>4, <1>5

(* rm_from_q() of the head of a queue. *)
LEMMA PopQueue ==
  ASSUME TableInv, NodeInv, NEW s \in Works(Named), NEW in \in [Slots -> Pris \cup {-1}],
         ListsInv(s, in), NEW p \in Slots, qnode[p] # 0, in[p] \in Pris,
         s.head[in[p]] = qnode[p], NEW x, x = rm_from_q(s, qnode[p], in[p])
  PROVE  /\ x \in Works(Named)
         /\ ListsInv(x, [in EXCEPT ![p] = -1])
         /\ x.ticks = s.ticks /\ x.putin = s.putin /\ x.stuck = s.stuck
<1>0. PICK node \in Nodes : node = qnode[p]  BY WhereIs
<1>1. PICK i \in Pris : i = in[p]  OBVIOUS
<1>2. Named \in SUBSET Nodes /\ qnode[p] \in Named \cup {0}  BY DEF TableInv, NamedInv, Named
<1>3. x \in Works(Named)  BY <1>1, <1>2, RmType
<1>4. x = [s EXCEPT !.tail[i] = IF @ = node THEN 0 ELSE @, !.head[i] = s.next[node]]
  BY <1>0, <1>1, Consts DEF rm_from_q
<1>5. /\ x.next = s.next /\ x.ticks = s.ticks /\ x.putin = s.putin /\ x.stuck = s.stuck
      /\ x.head = [s.head EXCEPT ![i] = s.next[node]]
      /\ x.tail = [s.tail EXCEPT ![i] = IF s.tail[i] = node THEN 0 ELSE s.tail[i]]
  BY <1>4 DEF Works
<1>6. /\ \A j \in Pris : j # i => x.head[j] = s.head[j] /\ x.tail[j] = s.tail[j]
      /\ x.head[i] = s.next[node] /\ x.tail[i] = IF s.tail[i] = node THEN 0 ELSE s.tail[i]
  BY <1>5 DEF Works
<1>7. PICK in2 : in2 = [in EXCEPT ![p] = -1]  OBVIOUS
<1>8. \A u \in Slots : in2[u] = IF u = p THEN -1 ELSE in[u]  BY <1>7
<1>9. ASSUME NEW j \in Pris PROVE \E l \in Seq(Nodes) : Holds(x, in2, j, l)
  <2>1. PICK l \in Seq(Nodes) : Holds(s, in, j, l)  BY DEF ListsInv
  <2>2. CASE j # i
    <3>1. \A n \in Nodes : (n \in inuse /\ in2[nproc[n]] = j) <=> (n \in inuse /\ in[nproc[n]] = j)
      BY <1>0, <1>1, <1>8, <2>2, WhereIs, Consts
    <3>2. QED  BY <1>5, <1>6, <2>1, <2>2, <3>1 DEF Holds
  <2>3. CASE j = i
    <3>1. Linked(s.next, node, s.tail[i], l) /\ l # <<>>
      <4>1. Linked(s.next, node, s.tail[i], l)  BY <1>0, <1>1, <2>1, <2>3 DEF Holds
      <4>2. QED  BY <4>1, Consts DEF Linked
    <3>2. PICK m \in Seq(Nodes) :
            /\ Linked(s.next, s.next[node], IF s.tail[i] = node THEN 0 ELSE s.tail[i], m)
            /\ \A n : Member(n, m) <=> Member(n, l) /\ n # node
      BY <3>1, LinkedPop
    <3>3. \A n \in Nodes : Member(n, l) <=> (n \in inuse /\ in[nproc[n]] = i)
      BY <2>1, <2>3 DEF Holds
    <3>4. \A n \in Nodes : Member(n, m) <=> (n \in inuse /\ in2[nproc[n]] = i)
      <4>1. nproc[node] = p /\ node \in inuse /\ i # -1  BY <1>0, WhereIs, Consts
      <4>2. \A n \in inuse : n # node => nproc[n] \in Slots /\ nproc[n] # p  BY <1>0, WhereIs
      <4>3. in2[nproc[node]] # i  BY <1>8, <4>1
      <4>4. \A n \in inuse : n # node => in2[nproc[n]] = in[nproc[n]]  BY <1>8, <4>2
      <4>5. QED  BY <3>2, <3>3, <4>3, <4>4
    <3>5. Holds(x, in2, j, m)  BY <1>5, <1>6, <2>3, <3>2, <3>4 DEF Holds
    <3>6. QED  BY <3>5
  <2>4. QED  BY <2>2, <2>3
<1>10. QED  BY <1>3, <1>5, <1>7, <1>9 DEF ListsInv

(* put_tail_q() of a node that is in no queue. *)
LEMMA PushQueue ==
  ASSUME TableInv, NodeInv, NEW s \in Works(Named), NEW in \in [Slots -> Pris \cup {-1}],
         ListsInv(s, in), NEW p \in Slots, qnode[p] # 0, in[p] = -1, NEW pri \in Pris,
         NEW x, x = put_tail_q(s, qnode[p], pri)
  PROVE  /\ x \in Works(Named)
         /\ ListsInv(x, [in EXCEPT ![p] = pri])
         /\ x.ticks = [s.ticks EXCEPT ![qnode[p]] = 0]
         /\ x.putin = s.putin /\ x.stuck = s.stuck
         /\ \A j \in Pris : s.head[j] # 0 => x.head[j] = s.head[j]
<1>0. PICK node \in Nodes : node = qnode[p]  BY WhereIs
<1>1. Named \in SUBSET Nodes /\ qnode[p] \in Named \cup {0}  BY DEF TableInv, NamedInv, Named
<1>2. x \in Works(Named)  BY <1>1, PutType
<1>3. PICK t : t = s.tail[pri]  OBVIOUS
<1>t. t \in Nodes \cup {0} /\ 0 \notin Nodes  BY <1>1, <1>3, Consts DEF Works
<1>4. x = IF t = 0
          THEN [[s EXCEPT !.next[node] = 0, !.ticks[node] = 0, !.tail[pri] = node]
                  EXCEPT !.head[pri] = node]
          ELSE [[s EXCEPT !.next[node] = 0, !.ticks[node] = 0, !.tail[pri] = node]
                  EXCEPT !.next[t] = node]
  BY <1>0, <1>3 DEF put_tail_q
<1>5. /\ x.ticks = [s.ticks EXCEPT ![node] = 0] /\ x.putin = s.putin /\ x.stuck = s.stuck
      /\ x.tail = [s.tail EXCEPT ![pri] = node]
      /\ x.head = IF t = 0 THEN [s.head EXCEPT ![pri] = node] ELSE s.head
      /\ x.next = IF t = 0 THEN [s.next EXCEPT ![node] = 0]
                  ELSE [[s.next EXCEPT ![node] = 0] EXCEPT ![t] = node]
  BY <1>4 DEF Works
<1>6. /\ \A j \in Pris : j # pri => x.head[j] = s.head[j] /\ x.tail[j] = s.tail[j]
      /\ x.tail[pri] = node /\ x.head[pri] = IF t = 0 THEN node ELSE s.head[pri]
  BY <1>5 DEF Works
<1>7. PICK in2 : in2 = [in EXCEPT ![p] = pri]  OBVIOUS
<1>8. \A u \in Slots : in2[u] = IF u = p THEN pri ELSE in[u]  BY <1>7
<1>9. ASSUME NEW j \in Pris, NEW l \in Seq(Nodes), Holds(s, in, j, l)
      PROVE  /\ ~Member(node, l)
             /\ j # pri => ~Member(t, l)
  <2>1. \A n \in Nodes : Member(n, l) <=> (n \in inuse /\ in[nproc[n]] = j)
    BY <1>9 DEF Holds
  <2>2. ~Member(node, l)  BY <1>0, <2>1, WhereIs, Consts
  <2>3. ASSUME j # pri, t # 0, Member(t, l) PROVE FALSE
    <3>1. PICK m \in Seq(Nodes) : Holds(s, in, pri, m)  BY DEF ListsInv
    <3>2. Linked(s.next, s.head[pri], t, m)  BY <1>3, <3>1 DEF Holds
    <3>3. m # <<>> /\ t = m[Len(m)]  BY <2>3, <3>2 DEF Linked
    <3>4. Len(m) \in 1 .. Len(m)  BY <3>3, SeqTypes
    <3>5. Member(t, m)  BY <3>3, <3>4 DEF Member
    <3>6. t \in Nodes  BY <1>t, <2>3
    <3>7. in[nproc[t]] = pri  BY <3>1, <3>5, <3>6 DEF Holds
    <3>8. QED  BY <2>1, <2>3, <3>6, <3>7
  <2>4. ~Member(0, l)  BY <1>t, SeqTypes DEF Member
  <2>5. QED  BY <2>2, <2>3, <2>4
<1>10. /\ \A y \in Nodes : y # node /\ y # t => x.next[y] = s.next[y]
       /\ t # 0 => x.next[t] = node
       /\ t # node => x.next[node] = 0
  BY <1>t, <1>5 DEF Works
<1>11. ASSUME NEW j \in Pris PROVE \E l \in Seq(Nodes) : Holds(x, in2, j, l)
  <2>1. PICK l \in Seq(Nodes) : Holds(s, in, j, l)  BY DEF ListsInv
  <2>2. ~Member(node, l) /\ (j # pri => ~Member(t, l))  BY <1>9, <2>1
  <2>3. CASE j # pri
    <3>1. Linked(x.next, x.head[j], x.tail[j], l)
      <4>1. \A y \in Nodes : Member(y, l) => x.next[y] = s.next[y]
        BY <1>10, <2>2, <2>3
      <4>2. Linked(s.next, s.head[j], s.tail[j], l)  BY <2>1 DEF Holds
      <4>3. Linked(x.next, s.head[j], s.tail[j], l)  BY <4>1, <4>2, LinkedFrame
      <4>4. QED  BY <1>6, <2>3, <4>3
    <3>2. \A n \in Nodes : (n \in inuse /\ in2[nproc[n]] = j) <=> (n \in inuse /\ in[nproc[n]] = j)
      BY <1>0, <1>8, <2>3, WhereIs, Consts
    <3>3. QED  BY <2>1, <3>1, <3>2 DEF Holds
  <2>4. CASE j = pri
    <3>1. Linked(s.next, s.head[pri], t, l)  BY <1>3, <2>1, <2>4 DEF Holds
    <3>2. t # node
      <4>1. ASSUME t = node PROVE FALSE
        <5>1. l # <<>> /\ t = l[Len(l)]  BY <1>t, <3>1, <4>1 DEF Linked
        <5>2. Len(l) \in 1 .. Len(l)  BY <5>1, SeqTypes
        <5>3. QED  BY <2>2, <4>1, <5>1, <5>2 DEF Member
      <4>2. QED  BY <4>1
    <3>3. PICK m \in Seq(Nodes) :
            /\ Linked(x.next, IF t = 0 THEN node ELSE s.head[pri], node, m)
            /\ \A n : Member(n, m) <=> Member(n, l) \/ n = node
      BY <1>10, <2>2, <3>1, <3>2, LinkedPush
    <3>4. \A n \in Nodes : Member(n, l) <=> (n \in inuse /\ in[nproc[n]] = pri)
      BY <2>1, <2>4 DEF Holds
    <3>5. \A n \in Nodes : Member(n, m) <=> (n \in inuse /\ in2[nproc[n]] = pri)
      <4>1. nproc[node] = p /\ node \in inuse  BY <1>0, WhereIs
      <4>2. \A n \in inuse : n # node => nproc[n] \in Slots /\ nproc[n] # p  BY <1>0, WhereIs
      <4>3. in2[nproc[node]] = pri  BY <1>8, <4>1
      <4>4. \A n \in inuse : n # node => in2[nproc[n]] = in[nproc[n]]  BY <1>8, <4>2
      <4>5. QED  BY <3>3, <3>4, <4>1, <4>3, <4>4
    <3>6. Holds(x, in2, j, m)  BY <1>6, <2>4, <3>3, <3>5 DEF Holds
    <3>7. QED  BY <3>6
  <2>5. QED  BY <2>3, <2>4
<1>12. ASSUME NEW j \in Pris, s.head[j] # 0 PROVE x.head[j] = s.head[j]
  <2>1. PICK l \in Seq(Nodes) : Holds(s, in, j, l)  BY DEF ListsInv
  <2>2. l # <<>>  BY <1>12, <2>1 DEF Holds, Linked
  <2>3. s.tail[j] = l[Len(l)] /\ Len(l) \in 1 .. Len(l)  BY <2>1, <2>2, SeqTypes DEF Holds, Linked
  <2>4. s.tail[j] # 0  BY <1>t, <2>3, SeqTypes
  <2>5. QED  BY <1>3, <1>6, <2>4
<1>13. QED  BY <1>0, <1>2, <1>5, <1>7, <1>11, <1>12 DEF ListsInv

(* refresh_q() after its first k slots, e being the process that has run. *)
RefreshInv(s, k, e) ==
  /\ ~s.stuck
  /\ ListsInv(s, s.putin)
  /\ \A u \in Slots : u <= k => Fresh(s, s.putin, u)
  /\ \A u \in Slots : u > k /\ u # e => Waiting(s, s.putin, u)
  /\ e > k => Ran(s, s.putin, e)

(* put_in is written last. *)
LEMMA PutIn ==
  ASSUME NEW x \in Works(Named), NEW p \in Slots, NEW v \in Pris \cup {-1}, NEW y,
         y = [x EXCEPT !.putin[p] = v]
  PROVE  /\ y \in Works(Named)
         /\ y.putin = [x.putin EXCEPT ![p] = v] /\ y.ticks = x.ticks /\ y.stuck = x.stuck
         /\ y.head = x.head
         /\ \A in : ListsInv(x, in) => ListsInv(y, in)
<1>1. /\ y \in Works(Named) /\ y.putin = [x.putin EXCEPT ![p] = v] /\ y.ticks = x.ticks
      /\ y.stuck = x.stuck /\ y.head = x.head /\ y.tail = x.tail /\ y.next = x.next
  BY DEF Works
<1>2. QED  BY <1>1 DEF ListsInv, Holds

(* What a queued slot has. *)
LEMMA NodeOf ==
  ASSUME TableInv, NodeInv, NEW p \in Slots, state[p] \in Alive \cup {"ZOMBIE"}
  PROVE  qnode[p] # 0 /\ qnode[p] \in Nodes /\ priority[p] \in Pris
         /\ Slice(priority[p]) \in Nat /\ 2 <= Slice(priority[p])
<1>1. qnode[p] # 0  BY DEF NodeInv
<1>2. priority[p] \in Pris  BY DEF TableInv, TypeOK
<1>3. QED  BY <1>1, <1>2, WhereIs, TickIs

(* The other slots do not notice that p is removed, moved or queued. *)
LEMMA OthersSame ==
  ASSUME TableInv, NodeInv, NEW s \in Works(Named), NEW t \in Works(Named), NEW p \in Slots,
         NEW v, t.putin = [s.putin EXCEPT ![p] = v],
         qnode[p] # 0,
         \A n \in Nodes : n # qnode[p] => t.ticks[n] = s.ticks[n],
         NEW u \in Slots, u # p
  PROVE  /\ Fresh(s, s.putin, u) => Fresh(t, t.putin, u)
         /\ Waiting(s, s.putin, u) => Waiting(t, t.putin, u)
         /\ t.putin[u] = s.putin[u]
<1>1. t.putin[u] = s.putin[u]  BY DEF Works
<1>2. state[u] = "RUNNABLE" => t.ticks[qnode[u]] = s.ticks[qnode[u]]
  <2> SUFFICES ASSUME state[u] = "RUNNABLE" PROVE t.ticks[qnode[u]] = s.ticks[qnode[u]]
    OBVIOUS
  <2>1. qnode[u] \in Nodes  BY NodeOf DEF Alive
  <2>2. qnode[u] # qnode[p]  BY WhereIs
  <2>3. QED  BY <2>1, <2>2
<1>3. Fresh(s, s.putin, u) => Fresh(t, t.putin, u)  BY <1>1, <1>2 DEF Fresh
<1>4. QED  BY <1>1, <1>3 DEF Waiting

LEMMA RefreshStep ==
  ASSUME TableInv, NodeInv, NEW s \in Works(Named), NEW p \in Slots, NEW e \in 0 .. NPROC,
         RefreshInv(s, p - 1, e)
  PROVE  RefreshInv(RefreshSlot(s, p), p, e)
<1>0. /\ ~s.stuck /\ s.stuck \in BOOLEAN /\ ListsInv(s, s.putin)
      /\ s.putin \in [Slots -> Pris \cup {-1}] /\ s.putin[p] \in Pris \cup {-1}
  BY DEF RefreshInv, Works
<1>1. /\ \A u \in Slots : u < p => Fresh(s, s.putin, u)
      /\ \A u \in Slots : u > p /\ u # e => Waiting(s, s.putin, u)
      /\ p # e => Waiting(s, s.putin, p)
      /\ e >= p => e \in Slots /\ Ran(s, s.putin, e)
  <2>1. p \in Int /\ e \in Int /\ Slots \subseteq Int /\ (e >= p => e \in Slots)  BY Consts
  <2>2. \A u \in Slots : (u < p => u <= p - 1) /\ (u > p => u > p - 1) /\ p > p - 1  BY <2>1
  <2>3. e >= p => e > p - 1  BY <2>1
  <2>4. QED  BY <2>1, <2>2, <2>3 DEF RefreshInv
<1>2. /\ p = e => Ran(s, s.putin, p) /\ e >= p
      /\ \A u \in Slots : u <= p => u < p \/ u = p
      /\ e > p => e >= p /\ e # p
  <2>1. p \in Int /\ e \in Int /\ Slots \subseteq Int  BY Consts
  <2>2. QED  BY <1>1, <2>1
(* The slot stays as it is. *)
<1>3. ASSUME RefreshSlot(s, p) = s, Fresh(s, s.putin, p) PROVE RefreshInv(s, p, e)
  <2>1. e > p => Ran(s, s.putin, e)  BY <1>1, <1>2
  <2>2. \A u \in Slots : u <= p => Fresh(s, s.putin, u)  BY <1>1, <1>2, <1>3
  <2>3. QED  BY <1>0, <1>1, <2>1, <2>2 DEF RefreshInv
(* The slot has changed and nobody else has. *)
<1>4. ASSUME NEW t \in Works(Named), NEW v, t.putin = [s.putin EXCEPT ![p] = v], ~t.stuck,
             qnode[p] # 0, ListsInv(t, t.putin), Fresh(t, t.putin, p),
             \A n \in Nodes : n # qnode[p] => t.ticks[n] = s.ticks[n],
             e > p => s.putin[e] \in Pris /\ t.head[s.putin[e]] = s.head[s.putin[e]]
      PROVE  RefreshInv(t, p, e)
  <2>1. \A u \in Slots : u # p =>
          /\ Fresh(s, s.putin, u) => Fresh(t, t.putin, u)
          /\ Waiting(s, s.putin, u) => Waiting(t, t.putin, u)
          /\ t.putin[u] = s.putin[u]
    BY <1>4, OthersSame
  <2>2. p \in Int /\ Slots \subseteq Int /\ p <= p  BY Consts
  <2>3. \A u \in Slots : u <= p => Fresh(t, t.putin, u)
    BY <1>1, <1>2, <1>4, <2>1, <2>2
  <2>4. \A u \in Slots : u > p /\ u # e => Waiting(t, t.putin, u)
    BY <1>1, <2>1, <2>2
  <2>5. ASSUME e > p PROVE Ran(t, t.putin, e)
    <3>1. e \in Slots /\ e # p /\ Ran(s, s.putin, e)  BY <1>1, <1>2, <2>5
    <3>2. t.putin[e] = s.putin[e]  BY <2>1, <3>1
    <3>3. qnode[e] # 0 /\ qnode[e] \in Nodes  BY <3>1, NodeOf DEF Ran
    <3>4. qnode[e] # qnode[p]  BY <1>4, <3>1, WhereIs
    <3>5. t.ticks[qnode[e]] = s.ticks[qnode[e]]  BY <1>4, <3>3, <3>4
    <3>6. t.head[t.putin[e]] = s.head[s.putin[e]]  BY <1>4, <2>5, <3>2
    <3>7. QED  BY <3>1, <3>2, <3>5, <3>6 DEF Ran
  <2>6. QED  BY <1>4, <2>3, <2>4, <2>5 DEF RefreshInv
<1>5. CASE state[p] # "RUNNABLE" /\ s.putin[p] = -1
  <2>1. RefreshSlot(s, p) = s  BY <1>0, <1>5, SlotIs
  <2>2. Fresh(s, s.putin, p)  BY <1>5 DEF Fresh
  <2>3. QED  BY <1>3, <2>1, <2>2
<1>6. CASE state[p] # "RUNNABLE" /\ s.putin[p] # -1
  <2>1. p = e /\ Ran(s, s.putin, p)  BY <1>1, <1>2, <1>6 DEF Waiting, Fresh
  <2>2. state[p] \notin {"UNUSED", "RUNNABLE"} /\ qnode[p] # 0
    BY <1>6, <2>1, NodeOf DEF Ran, Alive
  <2>3. RefreshSlot(s, p) = Removed(s, p)  BY <1>0, <1>6, <2>2, SlotIs
  <2>4. PICK x : x = rm_from_q(s, qnode[p], s.putin[p])  OBVIOUS
  <2>5. /\ x \in Works(Named) /\ ListsInv(x, [s.putin EXCEPT ![p] = -1])
        /\ x.ticks = s.ticks /\ x.putin = s.putin /\ x.stuck = s.stuck
    <3>1. s.putin[p] \in Pris /\ s.head[s.putin[p]] = qnode[p]  BY <1>0, <1>6, <2>1 DEF Ran
    <3>2. QED  BY <1>0, <2>2, <2>4, <3>1, PopQueue
  <2>6. PICK t : t = [x EXCEPT !.putin[p] = -1]  OBVIOUS
  <2>7. /\ t \in Works(Named) /\ t.putin = [s.putin EXCEPT ![p] = -1] /\ t.ticks = s.ticks
        /\ ~t.stuck /\ ListsInv(t, t.putin)
    BY <1>0, <2>5, <2>6, PutIn
  <2>8. t.putin[p] = -1  BY <1>0, <2>7
  <2>9. Fresh(t, t.putin, p)  BY <1>6, <2>8 DEF Fresh
  <2>10. ~(e > p)  BY <1>2, <2>1
  <2>11. RefreshInv(t, p, e)  BY <1>4, <2>2, <2>7, <2>9, <2>10
  <2>12. QED  BY <2>3, <2>4, <2>6, <2>11 DEF Removed
(* Queueing p's node, out of any queue in x, with put_in in. *)
<1>7. ASSUME state[p] = "RUNNABLE", NEW x \in Works(Named), NEW in \in [Slots -> Pris \cup {-1}],
             ListsInv(x, in), in[p] = -1, in = [s.putin EXCEPT ![p] = -1],
             x.putin = s.putin, ~x.stuck, x.ticks = s.ticks,
             e > p => x.head = s.head,
             RefreshSlot(s, p) = [put_tail_q(x, qnode[p], priority[p]) EXCEPT !.putin[p] = priority[p]]
      PROVE  RefreshInv(RefreshSlot(s, p), p, e)
  <2>1. qnode[p] # 0 /\ qnode[p] \in Nodes /\ priority[p] \in Pris /\ 0 < Slice(priority[p])
    <3>1. qnode[p] # 0 /\ qnode[p] \in Nodes /\ priority[p] \in Pris
          /\ Slice(priority[p]) \in Nat /\ 2 <= Slice(priority[p])
      BY <1>7, NodeOf DEF Alive
    <3>2. QED  BY <3>1
  <2>2. PICK y : y = put_tail_q(x, qnode[p], priority[p])  OBVIOUS
  <2>3. /\ y \in Works(Named) /\ ListsInv(y, [in EXCEPT ![p] = priority[p]])
        /\ y.ticks = [x.ticks EXCEPT ![qnode[p]] = 0] /\ y.putin = x.putin /\ y.stuck = x.stuck
        /\ \A j \in Pris : x.head[j] # 0 => y.head[j] = x.head[j]
    BY <1>7, <2>1, <2>2, PushQueue
  <2>4. PICK t : t = [y EXCEPT !.putin[p] = priority[p]]  OBVIOUS
  <2>5. /\ t \in Works(Named) /\ t.putin = [y.putin EXCEPT ![p] = priority[p]] /\ t.ticks = y.ticks
        /\ t.stuck = y.stuck /\ t.head = y.head /\ ListsInv(t, [in EXCEPT ![p] = priority[p]])
    <3>1. PICK v \in Pris \cup {-1} : v = priority[p]  BY <2>1
    <3>2. t = [y EXCEPT !.putin[p] = v]  BY <2>4, <3>1
    <3>3. PICK in2 : in2 = [in EXCEPT ![p] = priority[p]]  OBVIOUS
    <3>4. ListsInv(y, in2)  BY <2>3, <3>3
    <3>5. /\ t \in Works(Named) /\ t.putin = [y.putin EXCEPT ![p] = v] /\ t.ticks = y.ticks
          /\ t.stuck = y.stuck /\ t.head = y.head /\ ListsInv(t, in2)
      <4>1. y \in Works(Named) /\ v \in Pris \cup {-1}  BY <2>3
      <4>2. /\ t \in Works(Named) /\ t.putin = [y.putin EXCEPT ![p] = v] /\ t.ticks = y.ticks
            /\ t.stuck = y.stuck /\ t.head = y.head /\ t.tail = y.tail /\ t.next = y.next
        BY ONLY <3>2, <4>1, p \in Slots DEF Works
      <4>3. ListsInv(t, in2)  BY <3>4, <4>2 DEF ListsInv, Holds
      <4>4. QED  BY <4>2, <4>3
    <3>6. QED  BY <3>1, <3>3, <3>5
  <2>6. t.putin = [s.putin EXCEPT ![p] = priority[p]] /\ t.putin = [in EXCEPT ![p] = priority[p]]
    BY <1>0, <1>7, <2>3, <2>5
  <2>7. t.putin[p] = priority[p] /\ t.ticks[qnode[p]] = 0
        /\ \A n \in Nodes : n # qnode[p] => t.ticks[n] = s.ticks[n]
    BY <1>0, <1>7, <2>1, <2>3, <2>5, <2>6 DEF Works
  <2>8. Fresh(t, t.putin, p)  BY <1>7, <2>1, <2>7, Consts DEF Fresh
  <2>9. ASSUME e > p PROVE s.putin[e] \in Pris /\ t.head[s.putin[e]] = s.head[s.putin[e]]
    <3>1. e \in Slots /\ Ran(s, s.putin, e)  BY <1>1, <1>2, <2>9
    <3>2. s.putin[e] \in Pris /\ qnode[e] # 0 /\ s.head[s.putin[e]] = qnode[e]
      BY <3>1, NodeOf DEF Ran
    <3>3. QED  BY <1>7, <2>3, <2>5, <2>9, <3>2
  <2>10. ~t.stuck /\ ListsInv(t, t.putin)  BY <1>7, <2>3, <2>5, <2>6
  <2>11. RefreshInv(t, p, e)  BY <1>4, <2>1, <2>5, <2>6, <2>7, <2>8, <2>9, <2>10
  <2>12. QED  BY <1>7, <2>2, <2>4, <2>11
<1>8. CASE state[p] = "RUNNABLE" /\ s.putin[p] = -1
  <2>1. RefreshSlot(s, p) = Moved(s, p)  BY <1>0, <1>8, SlotIs
  <2>2. Moved(s, p) = [put_tail_q(s, qnode[p], priority[p]) EXCEPT !.putin[p] = priority[p]]
    BY <1>8 DEF Moved
  <2>3. s.putin = [s.putin EXCEPT ![p] = -1]  BY <1>0, <1>8
  <2>4. QED  BY <1>0, <1>7, <1>8, <2>1, <2>2, <2>3
<1>9. CASE state[p] = "RUNNABLE" /\ s.putin[p] # -1
  <2>1. s.putin[p] = priority[p] /\ s.ticks[qnode[p]] <= Slice(priority[p])
        /\ (p # e => s.ticks[qnode[p]] < Slice(priority[p]))
    <3>1. CASE p = e  BY <1>2, <3>1 DEF Ran
    <3>2. CASE p # e
      <4>1. s.putin[p] = priority[p] /\ s.ticks[qnode[p]] < Slice(priority[p])
        BY <1>1, <1>9, <3>2 DEF Waiting, Fresh
      <4>2. qnode[p] \in Nodes /\ Slice(priority[p]) \in Nat  BY <1>9, NodeOf DEF Alive
      <4>3. s.ticks[qnode[p]] \in Nat  BY <4>2, TickIs DEF Works
      <4>4. QED  BY <3>2, <4>1, <4>2, <4>3
    <3>3. QED  BY <3>1, <3>2
  <2>2. qnode[p] # 0 /\ qnode[p] \in Nodes /\ Slice(priority[p]) \in Nat
    BY <1>9, NodeOf DEF Alive
  <2>3. s.ticks[qnode[p]] \in Nat  BY <2>2, TickIs DEF Works
  <2>4. RefreshSlot(s, p) = IF s.ticks[qnode[p]] = Slice(priority[p]) THEN Moved(s, p) ELSE s
    BY <1>0, <1>9, <2>1, <2>2, SlotIs
  <2>5. CASE s.ticks[qnode[p]] # Slice(priority[p])
    <3>1. s.ticks[qnode[p]] < Slice(priority[p])  BY <2>1, <2>2, <2>3, <2>5
    <3>2. Fresh(s, s.putin, p)  BY <1>9, <2>1, <3>1 DEF Fresh
    <3>3. RefreshSlot(s, p) = s  BY <2>4, <2>5
    <3>4. QED  BY <1>3, <3>2, <3>3
  <2>6. CASE s.ticks[qnode[p]] = Slice(priority[p])
    <3>1. p = e  BY <2>1, <2>2, <2>6
    <3>2. ~(e > p) /\ Ran(s, s.putin, p)  BY <1>2, <3>1
    <3>3. PICK x : x = rm_from_q(s, qnode[p], s.putin[p])  OBVIOUS
    <3>4. /\ x \in Works(Named) /\ ListsInv(x, [s.putin EXCEPT ![p] = -1])
          /\ x.ticks = s.ticks /\ x.putin = s.putin /\ x.stuck = s.stuck
      <4>1. s.putin[p] \in Pris /\ s.head[s.putin[p]] = qnode[p]  BY <1>0, <1>9, <3>2 DEF Ran
      <4>2. QED  BY <1>0, <2>2, <3>3, <4>1, PopQueue
    <3>5. PICK in : in = [s.putin EXCEPT ![p] = -1]  OBVIOUS
    <3>6. in \in [Slots -> Pris \cup {-1}] /\ in[p] = -1  BY <1>0, <3>5
    <3>7. RefreshSlot(s, p) = [put_tail_q(x, qnode[p], priority[p]) EXCEPT !.putin[p] = priority[p]]
      BY <1>9, <2>4, <2>6, <3>3 DEF Moved
    <3>8. QED  BY <1>0, <1>7, <1>9, <3>2, <3>4, <3>5, <3>6, <3>7
  <2>7. QED  BY <2>5, <2>6
<1>10. QED  BY <1>5, <1>6, <1>8, <1>9

(* refresh_q() leaves every slot where it belongs. *)
LEMMA RefreshDone ==
  ASSUME TableInv, QueueInv
  PROVE  \E s \in Works(Named) :
           /\ s = refresh_q /\ ~s.stuck /\ ListsInv(s, s.putin)
           /\ \A u \in Slots : Fresh(s, s.putin, u)
<1>0. NPROC \in Nat /\ Slots = 1 .. NPROC /\ Slots \subseteq Int  BY Consts
<1>1. PICK r \in [0 .. NPROC -> Works(Named)] :
        /\ r[0] = Working
        /\ \A p \in Slots : r[p] = RefreshSlot(r[p - 1], p)
        /\ refresh_q = r[NPROC]
  BY RefreshIs DEF TableInv
<1>2. NodeInv  BY DEF QueueInv
<1>3. PICK e \in 0 .. NPROC :
        /\ e # 0 => Ran(q, putin, e)
        /\ \A p \in Slots \ {e} : Waiting(q, putin, p)
  BY DEF QueueInv
<1>4. /\ Working.next = q.next /\ Working.ticks = q.ticks /\ Working.head = q.head
      /\ Working.tail = q.tail /\ Working.putin = putin /\ Working.stuck = FALSE
  BY DEF Working
<1>5. RefreshInv(Working, 0, e)
  <2>1. ListsInv(Working, putin)  BY <1>4 DEF QueueInv, ListsInv, Holds
  <2>2. \A u \in Slots : ~(u <= 0) /\ u > 0  BY <1>0
  <2>3. \A u \in Slots : u # e => Waiting(Working, putin, u)
    BY <1>3, <1>4 DEF Waiting, Fresh
  <2>4. e > 0 => Ran(Working, putin, e)  BY <1>3, <1>4 DEF Ran
  <2>5. QED  BY <1>4, <2>1, <2>2, <2>3, <2>4 DEF RefreshInv
<1>6. PICK T : T = {k \in 0 .. NPROC : RefreshInv(r[k], k, e)}  OBVIOUS
<1>7. PICK w : w = [k \in 0 .. NPROC |-> k]  OBVIOUS
<1>8. w[0] \in T  BY <1>0, <1>1, <1>5, <1>6, <1>7
<1>9. ASSUME NEW k \in 1 .. NPROC, w[k - 1] \in T PROVE w[k] \in T
  <2>1. k \in Slots /\ k - 1 \in 0 .. NPROC /\ k \in 0 .. NPROC  BY <1>0
  <2>2. w[k - 1] = k - 1 /\ w[k] = k  BY <1>7, <2>1
  <2>3. RefreshInv(r[k - 1], k - 1, e)  BY <1>6, <1>9, <2>2
  <2>4. r[k - 1] \in Works(Named)  BY <2>1
  <2>5. RefreshInv(RefreshSlot(r[k - 1], k), k, e)  BY <1>2, <2>1, <2>3, <2>4, RefreshStep
  <2>6. RefreshInv(r[k], k, e)  BY <1>1, <2>1, <2>5
  <2>7. QED  BY <1>6, <2>1, <2>2, <2>6
<1>10. \A k \in 0 .. NPROC : w[k] \in T  BY <1>0, <1>8, <1>9, LoopIn
<1>11. NPROC \in 0 .. NPROC /\ w[NPROC] = NPROC  BY <1>0, <1>7
<1>12. r[NPROC] \in Works(Named) /\ RefreshInv(r[NPROC], NPROC, e)  BY <1>6, <1>10, <1>11
<1>13. \A u \in Slots : u <= NPROC  BY <1>0
<1>14. QED  BY <1>1, <1>12, <1>13 DEF RefreshInv

(* The head of the highest queue, after refresh_q(). *)
LEMMA TopRunnable ==
  ASSUME TableInv, NodeInv, NEW s \in Works(Named), ListsInv(s, s.putin),
         \A u \in Slots : Fresh(s, s.putin, u), Nonempty(s) # {},
         NEW p, p = nproc[s.head[TopQueue(s)]]
  PROVE  /\ p \in Slots /\ state[p] = "RUNNABLE" /\ s.putin[p] = priority[p]
         /\ qnode[p] # 0 /\ qnode[p] \in Nodes /\ s.head[priority[p]] = qnode[p]
         /\ s.ticks[qnode[p]] < Slice(priority[p])
         /\ \A u \in Slots : state[u] = "RUNNABLE" => priority[u] <= priority[p]
<1>1. PICK t \in Pris : t = TopQueue(s)  BY TopIs
<1>2. /\ s.head[t] \in Named /\ p \in Slots
      /\ \A i \in Pris : s.head[i] # 0 => i <= t
  BY <1>1, TopIs
<1>3. s.head[t] \in Nodes /\ p = nproc[s.head[t]] /\ s.head[t] # 0
  BY <1>1, <1>2, Consts DEF Named
<1>4. PICK l \in Seq(Nodes) : Holds(s, s.putin, t, l)  BY DEF ListsInv
<1>5. Member(s.head[t], l)
  <2>1. l # <<>>  BY <1>3, <1>4 DEF Holds, Linked
  <2>2. 1 \in 1 .. Len(l)  BY <2>1, SeqTypes
  <2>3. QED  BY <1>4, <2>1, <2>2 DEF Holds, Linked, Member
<1>6. s.head[t] \in inuse /\ s.putin[p] = t  BY <1>3, <1>4, <1>5 DEF Holds
<1>7. qnode[p] = s.head[t]  BY <1>3, <1>6 DEF NodeInv
<1>8. t # -1  BY Consts
<1>9. state[p] = "RUNNABLE" /\ priority[p] = t /\ s.ticks[qnode[p]] < Slice(priority[p])
  BY <1>2, <1>6, <1>8 DEF Fresh
<1>10. ASSUME NEW u \in Slots, state[u] = "RUNNABLE" PROVE priority[u] <= t
  <2>1. qnode[u] # 0 /\ qnode[u] \in Nodes /\ priority[u] \in Pris  BY <1>10, NodeOf DEF Alive
  <2>2. s.putin[u] = priority[u]  BY <1>10 DEF Fresh
  <2>3. qnode[u] \in inuse /\ nproc[qnode[u]] = u  BY <2>1 DEF NodeInv
  <2>4. PICK m \in Seq(Nodes) : Holds(s, s.putin, priority[u], m)  BY <2>1 DEF ListsInv
  <2>5. Member(qnode[u], m)  BY <2>1, <2>2, <2>3, <2>4 DEF Holds
  <2>6. m # <<>> /\ 1 \in 1 .. Len(m) /\ m[1] \in Nodes
    <3>1. Len(m) \in Nat /\ Len(m) # 0  BY <2>5, SeqTypes DEF Member
    <3>2. QED  BY <3>1, SeqTypes
  <2>7. s.head[priority[u]] # 0  BY <2>4, <2>6, Consts DEF Holds, Linked
  <2>8. QED  BY <1>2, <2>1, <2>7
<1>11. QED  BY <1>2, <1>3, <1>6, <1>7, <1>9, <1>10

(* Setting processes to run leaves the nodes alone. *)
LEMMA NodesOnRun ==
  ASSUME NodeInv, UNCHANGED <<qnode, nproc, inuse, obj, found>>,
         \A u \in Slots : state'[u] = state[u] \/ (state'[u] = "RUNNING" /\ qnode[u] # 0),
         \A u \in Slots : kpc'[u] = kpc[u] \/ (kpc[u] = "io" /\ kpc'[u] = "run")
  PROVE  NodeInv'
<1>1. /\ \A u \in Slots : state'[u] \in Alive \cup {"ZOMBIE"} => qnode[u] # 0
      /\ \A u \in Slots : state'[u] = "UNUSED" => qnode[u] = 0
  BY DEF NodeInv, Alive
<1>2. \A u \in Slots : kpc'[u] \in {"kalloc", "find", "take"} => qnode[obj[u]] = 0
  BY DEF NodeInv
<1>3. \A u \in Slots : kpc'[u] = "copy" => qnode[obj[u]] # 0
  BY DEF NodeInv
<1>4. \A u \in Slots : IF kpc'[u] = "take" THEN found[u] \in Nodes \ inuse ELSE found[u] = 0
  BY DEF NodeInv
<1>5. QED  BY <1>1, <1>2, <1>3, <1>4 DEF NodeInv

LEMMA ScheduleQueue ==
  ASSUME NCPU = 1, TableInv, QueueInv, NEW c \in CPUs, Schedule(c)
  PROVE  QueueInv'
<1>0. Types /\ RunInv /\ NodeInv /\ c = 1 /\ cpu[1] = 0 /\ ~fault /\ Slots \subseteq 0 .. NPROC
  BY CpuIs, TypesHold, Consts DEF TableInv, Schedule, QueueInv
<1>1. PICK s \in Works(Named) :
        /\ s = refresh_q /\ ~s.stuck /\ ListsInv(s, s.putin)
        /\ \A u \in Slots : Fresh(s, s.putin, u)
  BY RefreshDone
<1>2. UNCHANGED <<parent, killed, obj, found, priority, qnode, inuse, nproc, setpris, fails, raced>>
  BY DEF Schedule, countVars
(* The lists only depend on the pointers. *)
<1>3. ASSUME q'.next = s.next, q'.head = s.head, q'.tail = s.tail, putin' = s.putin
      PROVE  ListsInv(q, putin)'
  BY <1>1, <1>2, <1>3 DEF ListsInv, Holds
<1>4. CASE Nonempty(s) = {}
  <2>1. UNCHANGED <<state, kpc, cpu, fault>> /\ SetQueues(s) /\ putin' = s.putin
    BY <1>1, <1>4 DEF Schedule
  <2>2. q'.next = s.next /\ q'.ticks = s.ticks /\ q'.head = s.head /\ q'.tail = s.tail
    BY <2>1 DEF SetQueues
  <2>3. ListsInv(q, putin)'  BY <1>3, <2>1, <2>2
  <2>4. NodeInv'  BY <1>0, <1>2, <2>1 DEF NodeInv
  <2>5. \A u \in Slots : Waiting(q, putin, u)'
    BY <1>1, <1>2, <2>1, <2>2 DEF Waiting, Fresh
  <2>6. ~fault' /\ cpu'[1] = 0 /\ \A u \in Slots : kpc'[u] \notin SetPriPcs
    BY <1>0, <2>1 DEF QueueInv
  <2>7. 0 \in 0 .. NPROC  BY Consts
  <2>8. QED  BY <2>3, <2>4, <2>5, <2>6, <2>7 DEF QueueInv
<1>5. CASE Nonempty(s) # {}
  <2>1. PICK p : p = nproc[s.head[TopQueue(s)]]  OBVIOUS
  <2>2. /\ p \in Slots /\ state[p] = "RUNNABLE" /\ s.putin[p] = priority[p]
        /\ qnode[p] # 0 /\ qnode[p] \in Nodes /\ s.head[priority[p]] = qnode[p]
        /\ s.ticks[qnode[p]] < Slice(priority[p])
    BY <1>0, <1>1, <1>5, <2>1, TopRunnable
  <2>3. Switch(c, s, p) /\ putin' = s.putin
    BY <1>1, <1>5, <2>1 DEF Schedule
  <2>4. PICK k \in 0 .. TickCap : k = s.ticks[qnode[p]]  BY <2>2 DEF Works
  <2>5. Slice(priority[p]) \in Nat /\ k < TickCap /\ k + 1 <= Slice(priority[p])
    <3>1. priority[p] \in Pris  BY <1>0, <2>2 DEF Types
    <3>2. QED  BY <2>2, <2>4, <3>1, TickIs
  <2>6. PICK t : t = [s EXCEPT !.ticks[qnode[p]] = IF @ < TickCap THEN @ + 1 ELSE @]  OBVIOUS
  <2>7. /\ SetQueues(t) /\ state' = [state EXCEPT ![p] = "RUNNING"]
        /\ kpc' = [kpc EXCEPT ![p] = IF @ = "io" THEN "run" ELSE @]
        /\ cpu' = [cpu EXCEPT ![1] = p] /\ fault' = fault
    BY <1>0, <2>2, <2>3, <2>6 DEF Switch
  <2>8. /\ t.next = s.next /\ t.head = s.head /\ t.tail = s.tail
        /\ t.ticks = [s.ticks EXCEPT ![qnode[p]] = k + 1]
    BY <2>2, <2>4, <2>5, <2>6 DEF Works
  <2>9. q'.next = s.next /\ q'.ticks = t.ticks /\ q'.head = s.head /\ q'.tail = s.tail
    BY <2>7, <2>8 DEF SetQueues
  <2>10. ListsInv(q, putin)'  BY <1>3, <2>3, <2>9
  <2>11. /\ \A u \in Slots : state'[u] = IF u = p THEN "RUNNING" ELSE state[u]
         /\ \A u \in Slots : kpc'[u] = IF u = p /\ kpc[p] = "io" THEN "run" ELSE kpc[u]
         /\ cpu'[1] = p
    BY <1>0, <2>7, CpuIs DEF Types
  <2>12. \A n \in Nodes : q'.ticks[n] = IF n = qnode[p] THEN k + 1 ELSE s.ticks[n]
    BY <2>2, <2>8, <2>9 DEF Works
  <2>13. NodeInv'
    <3>1. \A u \in Slots : state'[u] = state[u] \/ (state'[u] = "RUNNING" /\ qnode[u] # 0)
      BY <2>2, <2>11
    <3>2. \A u \in Slots : kpc'[u] = kpc[u] \/ (kpc[u] = "io" /\ kpc'[u] = "run")
      BY <2>11
    <3>3. QED  BY <1>0, <1>2, <3>1, <3>2, NodesOnRun
  <2>14. Ran(q, putin, p)'
    BY <1>2, <2>2, <2>3, <2>5, <2>9, <2>11, <2>12 DEF Ran, Alive
  <2>15. ASSUME NEW u \in Slots, u # p PROVE Waiting(q, putin, u)'
    <3>1. putin'[u] # -1 => state[u] = "RUNNABLE" /\ s.putin[u] = priority[u]
                            /\ s.ticks[qnode[u]] < Slice(priority[u])
      BY <1>1, <2>3 DEF Fresh
    <3>2. state[u] = "RUNNABLE" => qnode[u] \in Nodes /\ qnode[u] # qnode[p]
      BY <1>0, <2>2, <2>15, NodeOf, WhereIs DEF Alive
    <3>3. putin'[u] # -1 => q'.ticks[qnode[u]] = s.ticks[qnode[u]]  BY <2>12, <3>1, <3>2
    <3>4. state'[u] = state[u]  BY <2>11, <2>15
    <3>5. QED  BY <1>2, <2>3, <3>1, <3>3, <3>4 DEF Waiting, Fresh
  <2>16. ~fault' /\ p \in 0 .. NPROC /\ \A u \in Slots : kpc'[u] \notin SetPriPcs
    BY <1>0, <2>2, <2>7, <2>11 DEF QueueInv, SetPriPcs
  <2>17. QED  BY <2>10, <2>11, <2>13, <2>14, <2>15, <2>16 DEF QueueInv
<1>6. QED  BY <1>4, <1>5

(* A step that leaves the queues alone, of the process on the CPU or of a   *)
(* sleeper's wakeup.                                                        *)
LEMMA QueueFrame ==
  ASSUME NCPU = 1, TableInv, QueueInv, ~fault', NodeInv',
         UNCHANGED <<priority, putin, qnode, inuse, nproc, q>>,
         \A u \in Slots : kpc'[u] \notin SetPriPcs,
         cpu'[1] \in {0, cpu[1]},
         \A u \in Slots : u # cpu[1] /\ state[u] = "RUNNABLE" => state'[u] = "RUNNABLE",
         \A u \in Slots : state[u] \in Alive \cup {"ZOMBIE"} => state'[u] \in Alive \cup {"ZOMBIE"}
  PROVE  QueueInv'
<1>1. PICK e \in 0 .. NPROC :
        /\ cpu[1] # 0 => e = cpu[1]
        /\ e # 0 => Ran(q, putin, e)
        /\ \A p \in Slots \ {e} : Waiting(q, putin, p)
  BY DEF QueueInv
<1>2. ListsInv(q, putin)'  BY DEF QueueInv, ListsInv, Holds
<1>3. e # 0 => e \in Slots  BY Consts
<1>4. e # 0 => Ran(q, putin, e)'  BY <1>1, <1>3 DEF Ran
<1>5. \A u \in Slots \ {e} : Waiting(q, putin, u)'
  BY <1>1, Consts DEF Waiting, Fresh
<1>6. cpu'[1] # 0 => e = cpu'[1]  BY <1>1
<1>7. QED  BY <1>1, <1>2, <1>4, <1>5, <1>6 DEF QueueInv

LEMMA Runs ==
  ASSUME NCPU = 1, TableInv, NEW c \in CPUs, NEW p \in Slots, Running(c, p)
  PROVE  c = 1 /\ cpu[1] = p /\ state[p] = "RUNNING" /\ (Free(c) => cpu'[1] = 0)
<1>1. c = 1 /\ cpu[1] = p  BY CpuIs DEF Running
<1>2. state[p] = "RUNNING"  BY <1>1 DEF TableInv, RunInv
<1>3. Free(c) => cpu'[1] = 0  BY <1>1 DEF Free, TableInv, TypeOK
<1>4. QED  BY <1>1, <1>2, <1>3

LEMMA NodeFrame ==
  ASSUME NodeInv, UNCHANGED <<qnode, inuse, nproc, found>>,
         \A u \in Slots : state'[u] \in Alive \cup {"ZOMBIE"} => qnode[u] # 0,
         \A u \in Slots : state'[u] = "UNUSED" => state[u] = "UNUSED",
         \A u \in Slots : kpc'[u] \in {"kalloc", "find", "take"} => qnode[obj'[u]] = 0,
         \A u \in Slots : kpc'[u] = "copy" => qnode[obj'[u]] # 0,
         \A u \in Slots : kpc'[u] = "take" <=> kpc[u] = "take"
  PROVE  NodeInv'
BY DEF NodeInv

LEMMA YieldQueue ==
  ASSUME NCPU = 1, TableInv, QueueInv, NEW c \in CPUs, NEW p \in Slots, Yield(c, p)
  PROVE  QueueInv'
<1>0. Types /\ NodeInv /\ cpu[1] = p /\ state[p] = "RUNNING" /\ cpu'[1] = 0
  BY TypesHold, Runs DEF Yield, QueueInv
<1>1. UNCHANGED <<kpc, obj, found, priority, putin, qnode, inuse, nproc, q, fault>>
  BY DEF Yield, queueVars
<1>2. \A u \in Slots : state'[u] = IF u = p THEN "RUNNABLE" ELSE state[u]
  BY <1>0 DEF Yield, Types
<1>3. NodeInv'
  <2>1. /\ \A u \in Slots : state'[u] \in Alive \cup {"ZOMBIE"} => qnode[u] # 0
        /\ \A u \in Slots : state'[u] = "UNUSED" => state[u] = "UNUSED"
    BY <1>0, <1>2 DEF NodeInv, Alive
  <2>2. QED  BY <1>0, <1>1, <2>1 DEF NodeInv
<1>4. ~fault' /\ \A u \in Slots : kpc'[u] \notin SetPriPcs  BY <1>1 DEF QueueInv
<1>5. \A u \in Slots : state[u] \in Alive \cup {"ZOMBIE"} => state'[u] \in Alive \cup {"ZOMBIE"}
  BY <1>2 DEF Alive
<1>6. QED  BY <1>0, <1>1, <1>2, <1>3, <1>4, <1>5, QueueFrame

LEMMA SleepQueue ==
  ASSUME NCPU = 1, TableInv, QueueInv, NEW c \in CPUs, NEW p \in Slots,
         Sleep(c, p) \/ WaitSleep(c, p)
  PROVE  QueueInv'
<1>0. Types /\ NodeInv /\ cpu[1] = p /\ state[p] = "RUNNING" /\ cpu'[1] = 0
      /\ kpc[p] \in {"run", "wait"}
  BY TypesHold, Runs DEF Sleep, WaitSleep, QueueInv
<1>1. UNCHANGED <<obj, found, priority, putin, qnode, inuse, nproc, q, fault>>
  BY DEF Sleep, WaitSleep, queueVars
<1>2. /\ \A u \in Slots : state'[u] = IF u = p THEN "SLEEPING" ELSE state[u]
      /\ \A u \in Slots : u # p => kpc'[u] = kpc[u]
      /\ kpc'[p] \in {"io", "wait"}
  BY <1>0 DEF Sleep, WaitSleep, Goto, Types
<1>3. NodeInv'
  <2>1. /\ \A u \in Slots : state'[u] \in Alive \cup {"ZOMBIE"} => qnode[u] # 0
        /\ \A u \in Slots : state'[u] = "UNUSED" => state[u] = "UNUSED"
    BY <1>0, <1>2 DEF NodeInv, Alive
  <2>2. /\ \A u \in Slots : kpc'[u] \in {"kalloc", "find", "take"} => qnode[obj'[u]] = 0
        /\ \A u \in Slots : kpc'[u] = "copy" => qnode[obj'[u]] # 0
        /\ \A u \in Slots : kpc'[u] = "take" <=> kpc[u] = "take"
    BY <1>0, <1>1, <1>2 DEF NodeInv
  <2>3. QED  BY <1>0, <1>1, <2>1, <2>2, NodeFrame
<1>4. ~fault' /\ \A u \in Slots : kpc'[u] \notin SetPriPcs
  BY <1>1, <1>2 DEF QueueInv, SetPriPcs
<1>5. \A u \in Slots : state[u] \in Alive \cup {"ZOMBIE"} => state'[u] \in Alive \cup {"ZOMBIE"}
  BY <1>2 DEF Alive
<1>6. QED  BY <1>0, <1>1, <1>2, <1>3, <1>4, <1>5, QueueFrame

LEMMA WaitNoneQueue ==
  ASSUME NCPU = 1, TableInv, QueueInv, NEW c \in CPUs, NEW p \in Slots, WaitNone(c, p)
  PROVE  QueueInv'
<1>0. Types /\ NodeInv /\ kpc[p] = "wait"
  BY TypesHold DEF WaitNone, QueueInv
<1>1. UNCHANGED <<state, cpu, obj, found, priority, putin, qnode, inuse, nproc, q, fault>>
  BY DEF WaitNone, queueVars
<1>2. \A u \in Slots : kpc'[u] = IF u = p THEN "run" ELSE kpc[u]
  BY <1>0 DEF WaitNone, Goto, Types
<1>3. NodeInv'
  <2>1. /\ \A u \in Slots : kpc'[u] \in {"kalloc", "find", "take"} => qnode[obj'[u]] = 0
        /\ \A u \in Slots : kpc'[u] = "copy" => qnode[obj'[u]] # 0
        /\ \A u \in Slots : kpc'[u] = "take" <=> kpc[u] = "take"
    BY <1>0, <1>1, <1>2 DEF NodeInv
  <2>2. \A u \in Slots : state'[u] \in Alive \cup {"ZOMBIE"} => qnode[u] # 0
    BY <1>0, <1>1 DEF NodeInv
  <2>3. QED  BY <1>0, <1>1, <2>1, <2>2, NodeFrame
<1>4. ~fault' /\ \A u \in Slots : kpc'[u] \notin SetPriPcs
  BY <1>1, <1>2 DEF QueueInv, SetPriPcs
<1>5. QED  BY <1>1, <1>3, <1>4, QueueFrame

LEMMA WakeupQueue ==
  ASSUME NCPU = 1, TableInv, QueueInv, Wakeup
  PROVE  QueueInv'
<1>0. NodeInv  BY DEF QueueInv
<1>1. UNCHANGED <<kpc, cpu, obj, found, priority, putin, qnode, inuse, nproc, q, fault>>
  BY DEF Wakeup, queueVars
<1>2. \A u \in Slots : \/ state'[u] = state[u]
                       \/ state[u] = "SLEEPING" /\ kpc[u] = "io" /\ state'[u] = "RUNNABLE"
  <2>1. PICK S \in SUBSET {p \in Slots : state[p] = "SLEEPING" /\ kpc[p] = "io"} :
          state' = [p \in Slots |-> IF p \in S THEN "RUNNABLE" ELSE state[p]]
    BY DEF Wakeup
  <2>2. \A u \in Slots : state'[u] = IF u \in S THEN "RUNNABLE" ELSE state[u]
    BY <2>1
  <2> QED BY <2>2
<1>3. NodeInv'
  <2>1. /\ \A u \in Slots : state'[u] \in Alive \cup {"ZOMBIE"} => qnode[u] # 0
        /\ \A u \in Slots : state'[u] = "UNUSED" => state[u] = "UNUSED"
    BY <1>0, <1>2 DEF NodeInv, Alive
  <2>2. QED  BY <1>0, <1>1, <2>1 DEF NodeInv
<1>4. ~fault' /\ \A u \in Slots : kpc'[u] \notin SetPriPcs  BY <1>1 DEF QueueInv
<1>5. \A u \in Slots : state[u] \in Alive \cup {"ZOMBIE"} => state'[u] \in Alive \cup {"ZOMBIE"}
  BY <1>2 DEF Alive
<1>6. QED  BY <1>1, <1>2, <1>3, <1>4, <1>5, QueueFrame

LEMMA KillQueue ==
  ASSUME NCPU = 1, TableInv, QueueInv, NEW c \in CPUs, NEW p \in Slots, NEW r \in Slots,
         Kill(c, p, r)
  PROVE  QueueInv'
<1>0. Types /\ NodeInv  BY TypesHold DEF QueueInv
<1>1. UNCHANGED <<kpc, cpu, obj, found, priority, putin, qnode, inuse, nproc, q, fault>>
  BY DEF Kill, queueVars
<1>2. \A u \in Slots : state'[u] = IF u = r /\ state[r] = "SLEEPING" THEN "RUNNABLE" ELSE state[u]
  BY <1>0 DEF Kill, Types
<1>3. NodeInv'
  <2>1. /\ \A u \in Slots : state'[u] \in Alive \cup {"ZOMBIE"} => qnode[u] # 0
        /\ \A u \in Slots : state'[u] = "UNUSED" => state[u] = "UNUSED"
    BY <1>0, <1>2 DEF NodeInv, Alive
  <2>2. QED  BY <1>0, <1>1, <2>1 DEF NodeInv
<1>4. ~fault' /\ \A u \in Slots : kpc'[u] \notin SetPriPcs  BY <1>1 DEF QueueInv
<1>5. \A u \in Slots : state[u] \in Alive \cup {"ZOMBIE"} => state'[u] \in Alive \cup {"ZOMBIE"}
  BY <1>2 DEF Alive
<1>6. QED  BY <1>1, <1>2, <1>3, <1>4, <1>5, QueueFrame

LEMMA ExitQueue ==
  ASSUME NCPU = 1, TableInv, QueueInv, NEW c \in CPUs, NEW p \in Slots, Exit(c, p)
  PROVE  QueueInv'
<1>0. Types /\ NodeInv /\ cpu[1] = p /\ state[p] = "RUNNING" /\ cpu'[1] = 0
  BY TypesHold, Runs DEF Exit, QueueInv
<1>1. UNCHANGED <<kpc, obj, found, priority, putin, qnode, inuse, nproc, q, fault>>
  BY DEF Exit, queueVars
<1>2. /\ \A u \in Slots : u # p => state'[u] = state[u]
                                   \/ (state'[u] = "RUNNABLE" /\ state[u] = "SLEEPING")
      /\ state'[p] = "ZOMBIE"
  BY DEF Exit, WokenByExit, InWait
<1>3. NodeInv'
  <2>1. /\ \A u \in Slots : state'[u] \in Alive \cup {"ZOMBIE"} => qnode[u] # 0
        /\ \A u \in Slots : state'[u] = "UNUSED" => state[u] = "UNUSED"
    BY <1>0, <1>2 DEF NodeInv, Alive
  <2>2. QED  BY <1>0, <1>1, <2>1 DEF NodeInv
<1>4. ~fault' /\ \A u \in Slots : kpc'[u] \notin SetPriPcs  BY <1>1 DEF QueueInv
<1>5. /\ \A u \in Slots : state[u] \in Alive \cup {"ZOMBIE"} => state'[u] \in Alive \cup {"ZOMBIE"}
      /\ \A u \in Slots : u # cpu[1] /\ state[u] = "RUNNABLE" => state'[u] = "RUNNABLE"
  BY <1>0, <1>2 DEF Alive
<1>6. QED  BY <1>0, <1>1, <1>3, <1>4, <1>5, QueueFrame

LEMMA ForkSlotQueue ==
  ASSUME NCPU = 1, TableInv, QueueInv, NEW c \in CPUs, NEW p \in Slots, ForkSlot(c, p)
  PROVE  QueueInv'
<1>0. Types /\ NodeInv /\ cpu[1] = p /\ state[p] = "RUNNING" /\ kpc[p] = "run"
  BY TypesHold, Runs DEF ForkSlot, QueueInv
<1>1. PICK o \in Slots : /\ state[o] = "UNUSED"
                         /\ state' = [state EXCEPT ![o] = "EMBRYO"]
                         /\ obj' = [obj EXCEPT ![p] = o]
  <2>1. PICK free : free = {r \in Slots : state[r] = "UNUSED"}  OBVIOUS
  <2>2. free \in SUBSET Nat /\ free # {}  BY <2>1, Consts DEF ForkSlot
  <2>3. Min(free) \in free  BY <2>2, MinIs
  <2>4. QED  BY <2>1, <2>3 DEF ForkSlot
<1>2. UNCHANGED <<cpu, found, priority, putin, qnode, inuse, nproc, q, fault>>
  BY DEF ForkSlot, queueVars
<1>3. /\ \A u \in Slots : state'[u] = IF u = o THEN "EMBRYO" ELSE state[u]
      /\ \A u \in Slots : obj'[u] = IF u = p THEN o ELSE obj[u]
      /\ \A u \in Slots : kpc'[u] = IF u = p THEN "kalloc" ELSE kpc[u]
  BY <1>0, <1>1 DEF ForkSlot, Goto, Types
<1>4. NodeInv'
  <2>1. /\ \A u \in Slots : state'[u] \in Alive \cup {"ZOMBIE"} => qnode[u] # 0
        /\ \A u \in Slots : state'[u] = "UNUSED" => state[u] = "UNUSED"
    BY <1>0, <1>3 DEF NodeInv, Alive
  <2>2. qnode[o] = 0  BY <1>0, <1>1 DEF NodeInv
  <2>3. /\ \A u \in Slots : kpc'[u] \in {"kalloc", "find", "take"} => qnode[obj'[u]] = 0
        /\ \A u \in Slots : kpc'[u] = "copy" => qnode[obj'[u]] # 0
        /\ \A u \in Slots : kpc'[u] = "take" <=> kpc[u] = "take"
    BY <1>0, <1>3, <2>2 DEF NodeInv
  <2>4. QED  BY <1>0, <1>2, <2>1, <2>3, NodeFrame
<1>5. ~fault' /\ \A u \in Slots : kpc'[u] \notin SetPriPcs
  BY <1>2, <1>3 DEF QueueInv, SetPriPcs
<1>6. /\ \A u \in Slots : state[u] \in Alive \cup {"ZOMBIE"} => state'[u] \in Alive \cup {"ZOMBIE"}
      /\ \A u \in Slots : u # cpu[1] /\ state[u] = "RUNNABLE" => state'[u] = "RUNNABLE"
  BY <1>1, <1>3 DEF Alive
<1>7. QED  BY <1>2, <1>4, <1>5, <1>6, QueueFrame

LEMMA ForkStackQueue ==
  ASSUME NCPU = 1, TableInv, QueueInv, NEW c \in CPUs, NEW p \in Slots, ForkStack(c, p)
  PROVE  QueueInv'
<1>0. Types /\ NodeInv /\ kpc[p] = "kalloc"
  BY TypesHold DEF ForkStack, QueueInv
<1>1. UNCHANGED <<state, cpu, obj, found, priority, putin, qnode, inuse, nproc, q, fault>>
  BY DEF ForkStack, queueVars
<1>2. \A u \in Slots : kpc'[u] = IF u = p THEN "find" ELSE kpc[u]
  BY <1>0 DEF ForkStack, Goto, Types
<1>3. NodeInv'
  <2>1. /\ \A u \in Slots : kpc'[u] \in {"kalloc", "find", "take"} => qnode[obj'[u]] = 0
        /\ \A u \in Slots : kpc'[u] = "copy" => qnode[obj'[u]] # 0
        /\ \A u \in Slots : kpc'[u] = "take" <=> kpc[u] = "take"
    BY <1>0, <1>1, <1>2 DEF NodeInv
  <2>2. \A u \in Slots : state'[u] \in Alive \cup {"ZOMBIE"} => qnode[u] # 0
    BY <1>0, <1>1 DEF NodeInv
  <2>3. QED  BY <1>0, <1>1, <2>1, <2>2, NodeFrame
<1>4. ~fault' /\ \A u \in Slots : kpc'[u] \notin SetPriPcs
  BY <1>1, <1>2 DEF QueueInv, SetPriPcs
<1>5. QED  BY <1>1, <1>3, <1>4, QueueFrame

(* A slot without a node leaves a node over. *)
LEMMA FreeNode ==
  ASSUME TableInv, NodeInv, NEW o \in Slots, qnode[o] = 0
  PROVE  Nodes \ inuse # {}
<1> SUFFICES ASSUME Nodes \ inuse = {} PROVE FALSE
  OBVIOUS
<1>1. \A n \in Nodes : n \in inuse /\ nproc[n] \in Slots /\ qnode[nproc[n]] = n
  <2> SUFFICES ASSUME NEW n \in Nodes PROVE n \in inuse /\ nproc[n] \in Slots /\ qnode[nproc[n]] = n
    OBVIOUS
  <2>1. n \in inuse /\ nproc[n] \in 0 .. NPROC  BY DEF TableInv, TypeOK
  <2>2. nproc[n] # 0 /\ qnode[nproc[n]] = n  BY <2>1 DEF NodeInv
  <2>3. QED  BY <2>1, <2>2, Consts
<1>2. PICK T : T = Slots \ {o}  OBVIOUS
<1>3. \A n \in Nodes : nproc[n] \in T  BY <1>1, <1>2, Consts
<1>4. PICK f : f = [n \in Nodes |-> nproc[n]]  OBVIOUS
<1>5. f \in [Nodes -> T]  BY <1>3, <1>4
<1>6. IsFiniteSet(Slots) /\ Cardinality(Slots) = NPROC /\ Nodes = Slots
  <2>1. 1 \in Int /\ NPROC \in Int /\ NPROC >= 1  BY Consts
  <2>2. IsFiniteSet(1 .. NPROC) /\ Cardinality(1 .. NPROC) = IF 1 > NPROC THEN 0 ELSE NPROC - 1 + 1
    BY <2>1, FS_Interval
  <2>3. QED  BY <2>1, <2>2, Consts
<1>7. IsFiniteSet(T) /\ Cardinality(T) = Cardinality(Slots) - 1
  BY <1>2, <1>6, FS_RemoveElement
<1>8. Cardinality(T) < Cardinality(Nodes)  BY <1>6, <1>7, Consts
<1>9. \E x, y \in Nodes : x # y /\ f[x] = f[y]
  BY <1>5, <1>6, <1>7, <1>8, FS_PigeonHole
<1>10. QED  BY <1>1, <1>4, <1>9

LEMMA ForkFindNodeQueue ==
  ASSUME NCPU = 1, TableInv, QueueInv, NEW c \in CPUs, NEW p \in Slots, ForkFindNode(c, p), ~raced'
  PROVE  QueueInv'
<1>0. Types /\ NodeInv /\ kpc[p] = "find" /\ obj[p] \in Slots
  BY TypesHold DEF ForkFindNode, QueueInv, TableInv, ObjInv, ForkPcs
<1>1. UNCHANGED <<state, cpu, obj, priority, putin, qnode, inuse, nproc, q, fault>>
  BY DEF ForkFindNode, queueVars
<1>2. \A u \in Slots : kpc'[u] = IF u = p THEN "take" ELSE kpc[u]
  BY <1>0 DEF ForkFindNode, Goto, Types
<1>3. PICK n \in Nodes \ inuse : found' = [found EXCEPT ![p] = n]
  <2>1. PICK free : free = Nodes \ inuse  OBVIOUS
  <2>2. qnode[obj[p]] = 0  BY <1>0 DEF NodeInv
  <2>3. free # {}  BY <1>0, <2>1, <2>2, FreeNode
  <2>4. free \in SUBSET Nat  BY <2>1, Consts
  <2>5. Min(free) \in free  BY <2>3, <2>4, MinIs
  <2>6. QED  BY <2>1, <2>3, <2>5 DEF ForkFindNode
<1>4. \A u \in Slots : found'[u] = IF u = p THEN n ELSE found[u]  BY <1>0, <1>3 DEF Types
<1>5. \A r \in Slots \ {p} : ~(found[r] # 0 /\ found[r] = n)
  <2>1. \A r \in Slots \ {p} : ~(found[r] # 0 /\ found[r] = found'[p])  BY DEF ForkFindNode
  <2>2. QED  BY <1>4, <2>1
<1>6. NodeInv'
  <2>1. /\ \A u \in Slots : qnode'[u] # 0 => qnode'[u] \in inuse' /\ nproc'[qnode'[u]] = u
        /\ \A m \in inuse' : nproc'[m] # 0 /\ qnode'[nproc'[m]] = m
        /\ \A u \in Slots : state'[u] \in Alive \cup {"ZOMBIE"} => qnode'[u] # 0
        /\ \A u \in Slots : state'[u] = "UNUSED" => qnode'[u] = 0
    BY <1>0, <1>1 DEF NodeInv
  <2>2. /\ \A u \in Slots : kpc'[u] \in {"kalloc", "find", "take"} => qnode'[obj'[u]] = 0
        /\ \A u \in Slots : kpc'[u] = "copy" => qnode'[obj'[u]] # 0
    BY <1>0, <1>1, <1>2 DEF NodeInv
  <2>3. \A u \in Slots : IF kpc'[u] = "take" THEN found'[u] \in Nodes \ inuse' ELSE found'[u] = 0
    BY <1>0, <1>1, <1>2, <1>4 DEF NodeInv
  <2>4. \A u, v \in Slots : found'[u] # 0 /\ found'[u] = found'[v] => u = v
    BY <1>0, <1>4, <1>5 DEF NodeInv
  <2>5. QED  BY <2>1, <2>2, <2>3, <2>4 DEF NodeInv
<1>7. ~fault' /\ \A u \in Slots : kpc'[u] \notin SetPriPcs
  BY <1>1, <1>2 DEF QueueInv, SetPriPcs
<1>8. QED  BY <1>1, <1>6, <1>7, QueueFrame

LEMMA ForkTakeNodeQueue ==
  ASSUME NCPU = 1, TableInv, QueueInv, NEW c \in CPUs, NEW p \in Slots, ForkTakeNode(c, p)
  PROVE  QueueInv'
<1>0. Types /\ NodeInv /\ kpc[p] = "take" /\ 0 \notin Nodes /\ -1 \notin Pris
  BY TypesHold, Consts DEF ForkTakeNode, QueueInv
<1>1. PICK o \in Slots : o = obj[p]  BY <1>0 DEF TableInv, ObjInv, ForkPcs
<1>2. /\ state[o] = "EMBRYO" /\ qnode[o] = 0
      /\ \A u \in Slots : u # p /\ kpc[u] \in ForkPcs => obj[u] # o /\ obj[u] \in Slots
  BY <1>0, <1>1 DEF TableInv, ObjInv, ForkPcs, NodeInv
<1>3. PICK n \in Nodes \ inuse : n = found[p]  BY <1>0 DEF NodeInv
<1>4. /\ inuse' = inuse \cup {n}
      /\ nproc' = [nproc EXCEPT ![n] = o]
      /\ q' = [q EXCEPT !.next[n] = 0]
      /\ qnode' = [qnode EXCEPT ![o] = n]
      /\ putin' = [putin EXCEPT ![o] = -1]
      /\ found' = [found EXCEPT ![p] = 0]
      /\ kpc' = [kpc EXCEPT ![p] = "copy"]
      /\ UNCHANGED <<state, obj, cpu, priority, fault>>
  BY <1>0, <1>1, <1>3 DEF ForkTakeNode, Goto
<1>5. /\ \A m \in Nodes : nproc'[m] = IF m = n THEN o ELSE nproc[m]
      /\ \A u \in Slots : qnode'[u] = IF u = o THEN n ELSE qnode[u]
      /\ \A u \in Slots : putin'[u] = IF u = o THEN -1 ELSE putin[u]
      /\ \A u \in Slots : found'[u] = IF u = p THEN 0 ELSE found[u]
      /\ \A u \in Slots : kpc'[u] = IF u = p THEN "copy" ELSE kpc[u]
  BY <1>0, <1>4 DEF Types
<1>6. /\ q'.head = q.head /\ q'.tail = q.tail /\ q'.ticks = q.ticks
      /\ \A m \in Nodes : m # n => q'.next[m] = q.next[m]
  BY <1>0, <1>4 DEF Types, Queues
<1>7. \A m \in inuse : m \in Nodes /\ m # n /\ nproc[m] \in Slots /\ nproc[m] # o
  <2> SUFFICES ASSUME NEW m \in inuse PROVE m \in Nodes /\ m # n /\ nproc[m] \in Slots /\ nproc[m] # o
    OBVIOUS
  <2>1. m \in Nodes /\ m # n  BY <1>0 DEF Types
  <2>2. nproc[m] # 0 /\ qnode[nproc[m]] = m /\ nproc[m] \in 0 .. NPROC
    BY <1>0, <2>1 DEF NodeInv, Types
  <2>3. QED  BY <1>0, <1>2, <2>1, <2>2, Consts
<1>8. NodeInv'
  <2>1. \A u \in Slots : qnode'[u] # 0 => qnode'[u] \in inuse' /\ nproc'[qnode'[u]] = u
    <3> SUFFICES ASSUME NEW u \in Slots, qnode'[u] # 0
                 PROVE  qnode'[u] \in inuse' /\ nproc'[qnode'[u]] = u
      OBVIOUS
    <3>1. CASE u = o  BY <1>4, <1>5, <3>1
    <3>2. CASE u # o
      <4>1. qnode'[u] = qnode[u] /\ qnode[u] \in inuse /\ nproc[qnode[u]] = u
        BY <1>0, <1>5, <3>2 DEF NodeInv
      <4>2. QED  BY <1>4, <1>5, <1>7, <4>1
    <3>3. QED  BY <3>1, <3>2
  <2>2. \A m \in inuse' : nproc'[m] # 0 /\ qnode'[nproc'[m]] = m
    <3> SUFFICES ASSUME NEW m \in inuse' PROVE nproc'[m] # 0 /\ qnode'[nproc'[m]] = m
      OBVIOUS
    <3>1. CASE m = n  BY <1>5, <3>1, Consts
    <3>2. CASE m # n
      <4>1. m \in inuse /\ m \in Nodes /\ nproc[m] \in Slots /\ nproc[m] # o  BY <1>4, <1>7, <3>2
      <4>2. nproc'[m] = nproc[m] /\ qnode[nproc[m]] = m  BY <1>0, <1>5, <3>2, <4>1 DEF NodeInv
      <4>3. QED  BY <1>5, <4>1, <4>2, Consts
    <3>3. QED  BY <3>1, <3>2
  <2>3. /\ \A u \in Slots : state'[u] \in Alive \cup {"ZOMBIE"} => qnode'[u] # 0
        /\ \A u \in Slots : state'[u] = "UNUSED" => qnode'[u] = 0
    BY <1>0, <1>2, <1>4, <1>5 DEF NodeInv, Alive
  <2>4. /\ \A u \in Slots : kpc'[u] \in {"kalloc", "find", "take"} => qnode'[obj'[u]] = 0
        /\ \A u \in Slots : kpc'[u] = "copy" => qnode'[obj'[u]] # 0
    BY <1>0, <1>1, <1>2, <1>4, <1>5 DEF NodeInv, ForkPcs
  <2>5. \A u \in Slots : IF kpc'[u] = "take" THEN found'[u] \in Nodes \ inuse' ELSE found'[u] = 0
    <3> SUFFICES ASSUME NEW u \in Slots
                 PROVE  IF kpc'[u] = "take" THEN found'[u] \in Nodes \ inuse' ELSE found'[u] = 0
      OBVIOUS
    <3>1. CASE u = p  BY <1>5, <3>1
    <3>2. CASE u # p
      <4>1. found'[u] = found[u] /\ kpc'[u] = kpc[u]  BY <1>5, <3>2
      <4>2. kpc[u] = "take" => found[u] \in Nodes \ inuse /\ found[u] # n
        BY <1>0, <1>3, <3>2 DEF NodeInv
      <4>3. kpc[u] # "take" => found[u] = 0  BY <1>0 DEF NodeInv
      <4>4. QED  BY <1>4, <4>1, <4>2, <4>3
    <3>3. QED  BY <3>1, <3>2
  <2>6. \A u, v \in Slots : found'[u] # 0 /\ found'[u] = found'[v] => u = v
    BY <1>0, <1>5 DEF NodeInv
  <2>7. QED  BY <2>1, <2>2, <2>3, <2>4, <2>5, <2>6 DEF NodeInv
<1>9. ASSUME NEW i \in Pris PROVE (\E l \in Seq(Nodes) : Holds(q, putin, i, l))'
  <2>1. PICK l \in Seq(Nodes) : Holds(q, putin, i, l)  BY DEF QueueInv, ListsInv
  <2>2. \A m \in Nodes : Member(m, l) => m # n  BY <2>1 DEF Holds
  <2>3. Linked(q'.next, q.head[i], q.tail[i], l)
    <3>1. Linked(q.next, q.head[i], q.tail[i], l)  BY <2>1 DEF Holds
    <3>2. \A m \in Nodes : Member(m, l) => q'.next[m] = q.next[m]  BY <1>6, <2>2
    <3>3. QED  BY <3>1, <3>2, LinkedFrame
  <2>4. ASSUME NEW m \in Nodes
        PROVE  (m \in inuse' /\ putin'[nproc'[m]] = i) <=> (m \in inuse /\ putin[nproc[m]] = i)
    <3>1. CASE m = n
      <4>1. putin'[nproc'[m]] = -1 /\ m \notin inuse  BY <1>5, <3>1
      <4>2. QED  BY <1>0, <4>1
    <3>2. CASE m # n
      <4>1. m \in inuse' <=> m \in inuse  BY <1>4, <3>2
      <4>2. m \in inuse => nproc'[m] = nproc[m] /\ putin'[nproc[m]] = putin[nproc[m]]
        BY <1>5, <1>7, <3>2
      <4>3. QED  BY <4>1, <4>2
    <3>3. QED  BY <3>1, <3>2
  <2>5. \A m \in Nodes : Member(m, l) <=> (m \in inuse' /\ putin'[nproc'[m]] = i)
    BY <2>1, <2>4 DEF Holds
  <2>6. QED  BY <1>6, <2>3, <2>5 DEF Holds
<1>10. PICK e \in 0 .. NPROC :
        /\ cpu[1] # 0 => e = cpu[1]
        /\ e # 0 => Ran(q, putin, e)
        /\ \A u \in Slots \ {e} : Waiting(q, putin, u)
  BY DEF QueueInv
<1>11. e # 0 => Ran(q, putin, e)'
  <2> SUFFICES ASSUME e # 0 PROVE Ran(q, putin, e)'
    OBVIOUS
  <2>1. e \in Slots /\ e # o  BY <1>2, <1>10, Consts DEF Ran, Alive
  <2>2. QED  BY <1>4, <1>5, <1>6, <1>10, <2>1 DEF Ran
<1>12. \A u \in Slots \ {e} : Waiting(q, putin, u)'
  <2> SUFFICES ASSUME NEW u \in Slots \ {e} PROVE Waiting(q, putin, u)'
    OBVIOUS
  <2>1. CASE u = o  BY <1>5, <2>1 DEF Waiting
  <2>2. CASE u # o
    <3>1. putin'[u] = putin[u] /\ qnode'[u] = qnode[u]  BY <1>5, <2>2
    <3>2. QED  BY <1>4, <1>6, <1>10, <3>1 DEF Waiting, Fresh
  <2>3. QED  BY <2>1, <2>2
<1>13. ~fault' /\ (\A u \in Slots : kpc'[u] \notin SetPriPcs) /\ (cpu'[1] # 0 => e = cpu'[1])
  BY <1>4, <1>5, <1>10 DEF QueueInv, SetPriPcs
<1>14. ListsInv(q, putin)'  BY <1>9 DEF ListsInv
<1>15. QED  BY <1>8, <1>10, <1>11, <1>12, <1>13, <1>14 DEF QueueInv

(* Who has no node in a queue: a slot that is neither RUNNABLE nor the one  *)
(* that ran last.                                                           *)
LEMMA NotQueued ==
  ASSUME NEW e, NEW o \in Slots \ {e}, Waiting(q, putin, o), state[o] # "RUNNABLE"
  PROVE  putin[o] = -1
BY DEF Waiting, Fresh

LEMMA FinishForkQueue ==
  ASSUME NCPU = 1, TableInv, QueueInv, NEW c \in CPUs, NEW p \in Slots, NEW pri \in Pris,
         FinishFork(c, p, pri)
  PROVE  QueueInv'
<1>0. Types /\ NodeInv /\ kpc[p] = "copy" /\ 0 \notin Nodes /\ -1 \notin Pris
  BY TypesHold, Consts DEF FinishFork, QueueInv
<1>1. PICK o \in Slots : o = obj[p]  BY <1>0 DEF TableInv, ObjInv, ForkPcs
<1>2. state[o] = "EMBRYO" /\ qnode[o] # 0 /\ kpc[o] = "run" /\ o # p
  BY <1>0, <1>1 DEF TableInv, ObjInv, ForkPcs, NodeInv, IdleInv, Alive
<1>3. qnode[o] \in Nodes /\ nproc[qnode[o]] = o  BY <1>0, <1>2, WhereIs
<1>4. /\ nproc' = nproc
      /\ state' = [state EXCEPT ![o] = "RUNNABLE"]
      /\ priority' = [priority EXCEPT ![o] = pri]
      /\ kpc' = [kpc EXCEPT ![p] = "run", ![o] = "run"]
      /\ obj' = [obj EXCEPT ![p] = 0]
      /\ UNCHANGED <<fault, found, cpu, putin, qnode, inuse, q>>
  <2>1. nproc' = [nproc EXCEPT ![qnode[o]] = o]  BY <1>1, <1>2 DEF FinishFork
  <2>2. nproc' = nproc  BY <1>0, <1>3, <2>1 DEF Types
  <2>3. QED  BY <1>1, <1>2, <2>2 DEF FinishFork
<1>5. /\ \A u \in Slots : state'[u] = IF u = o THEN "RUNNABLE" ELSE state[u]
      /\ \A u \in Slots : priority'[u] = IF u = o THEN pri ELSE priority[u]
      /\ \A u \in Slots : kpc'[u] = IF u = p THEN "run" ELSE kpc[u]
      /\ \A u \in Slots : u # p => obj'[u] = obj[u]
  BY <1>0, <1>2, <1>4 DEF Types
<1>6. NodeInv'
  <2>1. /\ \A u \in Slots : state'[u] \in Alive \cup {"ZOMBIE"} => qnode[u] # 0
        /\ \A u \in Slots : state'[u] = "UNUSED" => state[u] = "UNUSED"
    BY <1>0, <1>2, <1>5 DEF NodeInv, Alive
  <2>2. /\ \A u \in Slots : kpc'[u] \in {"kalloc", "find", "take"} => qnode[obj'[u]] = 0
        /\ \A u \in Slots : kpc'[u] = "copy" => qnode[obj'[u]] # 0
        /\ \A u \in Slots : kpc'[u] = "take" <=> kpc[u] = "take"
    BY <1>0, <1>5 DEF NodeInv
  <2>3. QED  BY <1>0, <1>4, <2>1, <2>2, NodeFrame
<1>7. ListsInv(q, putin)'  BY <1>4 DEF QueueInv, ListsInv, Holds
<1>8. PICK e \in 0 .. NPROC :
        /\ cpu[1] # 0 => e = cpu[1]
        /\ e # 0 => Ran(q, putin, e)
        /\ \A u \in Slots \ {e} : Waiting(q, putin, u)
  BY DEF QueueInv
<1>9. e # o
  <2>1. o # 0  BY Consts
  <2>2. QED  BY <1>2, <1>8, <2>1 DEF Ran, Alive
<1>10. putin[o] = -1  BY <1>2, <1>8, <1>9, NotQueued
<1>11. e # 0 => Ran(q, putin, e)'
  <2>1. e # 0 => e \in Slots  BY Consts
  <2>2. QED  BY <1>4, <1>5, <1>8, <1>9, <2>1 DEF Ran
<1>12. \A u \in Slots \ {e} : Waiting(q, putin, u)'
  <2> SUFFICES ASSUME NEW u \in Slots \ {e} PROVE Waiting(q, putin, u)'
    OBVIOUS
  <2>1. CASE u = o  BY <1>4, <1>10, <2>1 DEF Waiting
  <2>2. CASE u # o
    <3>1. state'[u] = state[u] /\ priority'[u] = priority[u]  BY <1>5, <2>2
    <3>2. QED  BY <1>4, <1>8, <3>1 DEF Waiting, Fresh
  <2>3. QED  BY <2>1, <2>2
<1>13. ~fault' /\ (\A u \in Slots : kpc'[u] \notin SetPriPcs) /\ (cpu'[1] # 0 => e = cpu'[1])
  <2>1. fault' = fault /\ cpu' = cpu  BY <1>4
  <2>2. ~fault /\ \A u \in Slots : kpc[u] \notin SetPriPcs  BY DEF QueueInv
  <2>3. \A u \in Slots : kpc'[u] \notin SetPriPcs  BY <1>5, <2>2 DEF SetPriPcs
  <2>4. QED  BY <1>8, <2>1, <2>2, <2>3
<1>14. QED  BY <1>6, <1>7, <1>8, <1>11, <1>12, <1>13 DEF QueueInv

LEMMA WaitReapQueue ==
  ASSUME NCPU = 1, TableInv, QueueInv, NEW c \in CPUs, NEW p \in Slots, WaitReap(c, p)
  PROVE  QueueInv'
<1>0. Types /\ NodeInv /\ kpc[p] \in {"run", "wait"} /\ 0 \notin Nodes /\ -1 \notin Pris
      /\ cpu[1] = p /\ state[p] = "RUNNING"
  BY TypesHold, Consts, Runs DEF WaitReap, QueueInv
<1>1. PICK z \in Slots : z = Min(Zombies(p)) /\ state[z] = "ZOMBIE"
  <2>1. Zombies(p) \in SUBSET Nat /\ Zombies(p) # {}
    BY Consts DEF WaitReap, Zombies, Kids
  <2>2. Min(Zombies(p)) \in Zombies(p)  BY <2>1, MinIs
  <2>3. QED  BY <2>2 DEF Zombies, Kids
<1>2. qnode[z] # 0 /\ z # p  BY <1>0, <1>1 DEF NodeInv
<1>3. PICK n \in Nodes : n = qnode[z]  BY <1>0, <1>2, WhereIs
<1>4. /\ n \in inuse /\ nproc[n] = z /\ \A u \in Slots : u # z => qnode[u] # n
      /\ \A m \in inuse : m \in Nodes /\ nproc[m] \in Slots /\ (m # n => nproc[m] # z)
  BY <1>0, <1>2, <1>3, WhereIs
<1>5. /\ state' = [state EXCEPT ![z] = "UNUSED"]
      /\ inuse' = inuse \ {n}
      /\ qnode' = [qnode EXCEPT ![z] = 0]
      /\ kpc' = [kpc EXCEPT ![p] = "run"]
      /\ UNCHANGED <<fault, obj, found, priority, putin, nproc, q, cpu>>
  BY <1>1, <1>2, <1>3 DEF WaitReap, Goto
<1>6. /\ \A u \in Slots : state'[u] = IF u = z THEN "UNUSED" ELSE state[u]
      /\ \A u \in Slots : qnode'[u] = IF u = z THEN 0 ELSE qnode[u]
      /\ \A u \in Slots : kpc'[u] = IF u = p THEN "run" ELSE kpc[u]
  BY <1>0, <1>5 DEF Types
<1>7. NodeInv'
  <2>1. \A u \in Slots : qnode'[u] # 0 => qnode'[u] \in inuse' /\ nproc'[qnode'[u]] = u
    BY <1>0, <1>4, <1>5, <1>6 DEF NodeInv
  <2>2. \A m \in inuse' : nproc'[m] # 0 /\ qnode'[nproc'[m]] = m
    BY <1>0, <1>4, <1>5, <1>6 DEF NodeInv
  <2>3. /\ \A u \in Slots : state'[u] \in Alive \cup {"ZOMBIE"} => qnode'[u] # 0
        /\ \A u \in Slots : state'[u] = "UNUSED" => qnode'[u] = 0
    BY <1>0, <1>6 DEF NodeInv, Alive
  <2>4. \A u \in Slots : kpc[u] \in ForkPcs => obj[u] \in Slots /\ obj[u] # z
    BY <1>1 DEF TableInv, ObjInv
  <2>5. /\ \A u \in Slots : kpc'[u] \in {"kalloc", "find", "take"} => qnode'[obj'[u]] = 0
        /\ \A u \in Slots : kpc'[u] = "copy" => qnode'[obj'[u]] # 0
    BY <1>0, <1>5, <1>6, <2>4 DEF NodeInv, ForkPcs
  <2>6. \A u \in Slots : IF kpc'[u] = "take" THEN found'[u] \in Nodes \ inuse' ELSE found'[u] = 0
    BY <1>0, <1>5, <1>6 DEF NodeInv
  <2>7. \A u, v \in Slots : found'[u] # 0 /\ found'[u] = found'[v] => u = v
    BY <1>0, <1>5 DEF NodeInv
  <2>8. QED  BY <2>1, <2>2, <2>3, <2>5, <2>6, <2>7 DEF NodeInv
<1>8. PICK e \in 0 .. NPROC :
        /\ cpu[1] # 0 => e = cpu[1]
        /\ e # 0 => Ran(q, putin, e)
        /\ \A u \in Slots \ {e} : Waiting(q, putin, u)
  BY DEF QueueInv
<1>9. e = p /\ e # 0 /\ e # z  BY <1>0, <1>2, <1>8, Consts
<1>10. putin[z] = -1  BY <1>1, <1>8, <1>9, NotQueued
<1>11. ListsInv(q, putin)'
  <2> SUFFICES ASSUME NEW i \in Pris PROVE (\E l \in Seq(Nodes) : Holds(q, putin, i, l))'
    BY DEF ListsInv
  <2>1. PICK l \in Seq(Nodes) : Holds(q, putin, i, l)  BY DEF QueueInv, ListsInv
  <2>2. \A m \in Nodes : (m \in inuse' /\ putin[nproc[m]] = i) <=> (m \in inuse /\ putin[nproc[m]] = i)
    BY <1>0, <1>4, <1>5, <1>10
  <2>3. QED  BY <1>5, <2>1, <2>2 DEF Holds
<1>12. Ran(q, putin, e)'
  BY <1>0, <1>5, <1>6, <1>8, <1>9 DEF Ran, Alive
<1>13. \A u \in Slots \ {e} : Waiting(q, putin, u)'
  <2> SUFFICES ASSUME NEW u \in Slots \ {e} PROVE Waiting(q, putin, u)'
    OBVIOUS
  <2>1. CASE u = z  BY <1>5, <1>10, <2>1 DEF Waiting
  <2>2. CASE u # z
    <3>1. state'[u] = state[u] /\ qnode'[u] = qnode[u]  BY <1>6, <2>2
    <3>2. QED  BY <1>5, <1>8, <3>1 DEF Waiting, Fresh
  <2>3. QED  BY <2>1, <2>2
<1>14. ~fault' /\ (\A u \in Slots : kpc'[u] \notin SetPriPcs) /\ (cpu'[1] # 0 => e = cpu'[1])
  BY <1>5, <1>6, <1>8 DEF QueueInv, SetPriPcs
<1>15. QED  BY <1>7, <1>8, <1>11, <1>12, <1>13, <1>14 DEF QueueInv
-------------------------------------------------------------------------------
LEMMA InitQueue == ASSUME Init, NCPU = 1 PROVE QueueInv
<1>0. /\ 1 \in Slots /\ 1 \in Nodes /\ 0 \notin Slots /\ 0 \notin Nodes /\ -1 \notin Pris
      /\ init = 1 /\ CPUs = {1} /\ 0 \in 0 .. NPROC
  BY Consts, CpuIs DEF init
<1>1. /\ state = [p \in Slots |-> IF p = 1 THEN "RUNNABLE" ELSE "UNUSED"]
      /\ kpc = [p \in Slots |-> "run"] /\ found = [p \in Slots |-> 0]
      /\ putin = [p \in Slots |-> -1]
      /\ qnode = [p \in Slots |-> IF p = 1 THEN 1 ELSE 0]
      /\ inuse = {1} /\ nproc = [n \in Nodes |-> IF n = 1 THEN 1 ELSE 0]
      /\ cpu = [c \in CPUs |-> 0] /\ fault = FALSE
      /\ q = [next |-> [n \in Nodes |-> 0], ticks |-> [n \in Nodes |-> 0],
              head |-> [i \in Pris |-> 0], tail |-> [i \in Pris |-> 0]]
  BY <1>0 DEF Init
<1>2. NodeInv  BY <1>0, <1>1 DEF NodeInv, Alive
<1>3. ASSUME NEW i \in Pris PROVE Holds(q, putin, i, <<>>) /\ <<>> \in Seq(Nodes)
  <2>1. <<>> \in Seq(Nodes) /\ Len(<<>>) = 0 /\ 1 .. 0 = {}  OBVIOUS
  <2>2. q.head[i] = 0 /\ q.tail[i] = 0  BY <1>1
  <2>3. Linked(q.next, q.head[i], q.tail[i], <<>>)  BY <2>1, <2>2 DEF Linked
  <2>4. \A n \in Nodes : ~Member(n, <<>>)  BY <2>1 DEF Member
  <2>5. \A n \in Nodes : ~(n \in inuse /\ putin[nproc[n]] = i)
    <3>1. nproc[1] = 1 /\ putin[1] = -1  BY <1>0, <1>1
    <3>2. QED  BY <1>0, <1>1, <3>1
  <2>6. QED  BY <2>1, <2>3, <2>4, <2>5 DEF Holds
<1>4. ListsInv(q, putin)  BY <1>3 DEF ListsInv
<1>5. \A p \in Slots : kpc[p] \notin SetPriPcs /\ Waiting(q, putin, p)
  BY <1>1 DEF Waiting, SetPriPcs
<1>6. cpu[1] = 0 /\ ~fault  BY <1>0, <1>1
<1>7. QED  BY <1>0, <1>2, <1>4, <1>5, <1>6 DEF QueueInv

(* setpri and failing forks end what is claimed; nothing makes it true     *)
(* again.                                                                  *)
LEMMA CleanBefore == ASSUME TypeOK, [Next]_vars, Clean' PROVE Clean
<1>0. setpris \in Nat /\ fails \in Nat /\ raced \in BOOLEAN
  BY MLQAssumption DEF TypeOK
<1>1. ASSUME UNCHANGED <<setpris, fails, raced>> PROVE Clean  BY <1>1 DEF Clean
<1>2. ASSUME setpris' = setpris, fails' = fails, raced => raced' PROVE Clean  BY <1>2 DEF Clean
<1>3. CASE UNCHANGED vars  BY <1>1, <1>3 DEF vars
<1>4. ASSUME NEW c \in CPUs, Schedule(c) PROVE Clean
  BY <1>1, <1>4 DEF Schedule, countVars
<1>5. ASSUME NEW c \in CPUs, NEW p \in Slots, Yield(c, p) \/ ProcStep(c, p) PROVE Clean
  <2>1. CASE Yield(c, p)  BY <1>2, <2>1 DEF Yield
  <2>2. CASE Fork(c, p)
    <3>1. CASE ForkNoStack(c, p)  BY <1>0, <3>1 DEF ForkNoStack, Clean
    <3>2. CASE ForkNoCopy(c, p)  BY <1>0, <3>2 DEF ForkNoCopy, Clean
    <3>3. CASE ForkFindNode(c, p)  BY <1>2, <3>3 DEF ForkFindNode
    <3>4. CASE ForkSlot(c, p)  BY <1>1, <3>4 DEF ForkSlot, countVars
    <3>5. CASE ForkStack(c, p)  BY <1>1, <3>5 DEF ForkStack, countVars
    <3>6. CASE ForkTakeNode(c, p)  BY <1>1, <3>6 DEF ForkTakeNode, countVars
    <3>7. CASE ForkDone(c, p)  BY <1>1, <3>7 DEF ForkDone, FinishFork, countVars
    <3>8. QED  BY <2>2, <3>1, <3>2, <3>3, <3>4, <3>5, <3>6, <3>7 DEF Fork
  <2>3. CASE Wait(c, p)
    BY <1>1, <2>3 DEF Wait, WaitReap, WaitSleep, WaitNone, countVars
  <2>4. CASE Exit(c, p)  BY <1>1, <2>4 DEF Exit, countVars
  <2>5. CASE Sleep(c, p)  BY <1>1, <2>5 DEF Sleep, countVars
  <2>6. CASE SetPriStep(c, p)
    BY <1>1, <2>6 DEF SetPriStep, SetPriRemove, SetPriPut, SetPriDone, countVars
  <2>7. ASSUME NEW r \in Slots, Kill(c, p, r) PROVE Clean  BY <1>1, <2>7 DEF Kill, countVars
  <2>8. ASSUME NEW r \in Slots, NEW pri \in Pris, SetPri(c, p, r, pri) PROVE Clean
    BY <1>0, <2>8 DEF SetPri, Clean
  <2>9. QED  BY <1>5, <2>1, <2>2, <2>3, <2>4, <2>5, <2>6, <2>7, <2>8 DEF ProcStep
<1>6. CASE Wakeup  BY <1>1, <1>6 DEF Wakeup, countVars
<1>7. QED  BY <1>3, <1>4, <1>5, <1>6 DEF Next

LEMMA NextQueue ==
  ASSUME NCPU = 1, TableInv, QueueInv, [Next]_vars, Clean'
  PROVE  QueueInv'
<1>0. setpris \in Nat /\ fails \in Nat /\ setpris' = 0 /\ fails' = 0 /\ ~raced'
  BY MLQAssumption DEF TableInv, TypeOK, Clean
<1>1. CASE UNCHANGED vars
  BY <1>1 DEF vars, QueueInv, NodeInv, ListsInv, Holds, Waiting, Fresh, Ran
<1>2. ASSUME NEW c \in CPUs, Schedule(c) PROVE QueueInv'
  BY <1>2, ScheduleQueue
<1>3. ASSUME NEW c \in CPUs, NEW p \in Slots, Yield(c, p) \/ ProcStep(c, p) PROVE QueueInv'
  <2>1. CASE Yield(c, p)  BY <2>1, YieldQueue
  <2>2. CASE Fork(c, p)
    <3>1. CASE ForkNoStack(c, p)  BY <1>0, <3>1 DEF ForkNoStack
    <3>2. CASE ForkNoCopy(c, p)  BY <1>0, <3>2 DEF ForkNoCopy
    <3>3. CASE ForkFindNode(c, p)  BY <1>0, <3>3, ForkFindNodeQueue
    <3>4. CASE ForkDone(c, p)  BY <3>4, FinishForkQueue DEF ForkDone
    <3>5. QED  BY <2>2, <3>1, <3>2, <3>3, <3>4, ForkSlotQueue, ForkStackQueue,
                  ForkTakeNodeQueue DEF Fork
  <2>3. CASE Wait(c, p)  BY <2>3, WaitReapQueue, SleepQueue, WaitNoneQueue DEF Wait
  <2>4. CASE Exit(c, p)  BY <2>4, ExitQueue
  <2>5. CASE Sleep(c, p)  BY <2>5, SleepQueue
  <2>6. CASE SetPriStep(c, p)
    BY <2>6 DEF SetPriStep, SetPriRemove, SetPriPut, SetPriDone, QueueInv, SetPriPcs
  <2>7. ASSUME NEW r \in Slots, Kill(c, p, r) PROVE QueueInv'  BY <2>7, KillQueue
  <2>8. ASSUME NEW r \in Slots, NEW pri \in Pris, SetPri(c, p, r, pri) PROVE QueueInv'
    BY <1>0, <2>8 DEF SetPri
  <2>9. QED  BY <1>3, <2>1, <2>2, <2>3, <2>4, <2>5, <2>6, <2>7, <2>8 DEF ProcStep
<1>4. CASE Wakeup  BY <1>4, WakeupQueue
<1>5. QED  BY <1>1, <1>2, <1>3, <1>4 DEF Next

(* The inductive invariant of the queues, of nodes and of put_in: while no *)
(* setpri was called, no fork failed and no two forks picked one node.     *)
THEOREM QueuesInvariant ==
  ASSUME NCPU = 1
  PROVE  Spec => []IInv
<1>1. Init => IInv  BY InitTable, InitQueue DEF IInv
<1>2. IInv /\ [Next]_vars => IInv'
  <2> SUFFICES ASSUME IInv, [Next]_vars PROVE IInv'
    OBVIOUS
  <2>1. TableInv'  BY NextTable DEF IInv
  <2>2. ASSUME Clean' PROVE QueueInv'
    <3>1. Clean  BY <2>2, CleanBefore DEF IInv, TableInv
    <3>2. QED  BY <2>2, <3>1, NextQueue DEF IInv
  <2>3. QED  BY <2>1, <2>2 DEF IInv
<1>3. QED  BY <1>1, <1>2, PTL DEF Spec
-------------------------------------------------------------------------------
(* No list is longer than there are nodes. *)
LEMMA ListLen ==
  ASSUME NEW l \in Seq(Nodes), \A j, k \in 1 .. Len(l) : l[j] = l[k] => j = k
  PROVE  Len(l) <= NPROC
<1>1. PICK d \in Nat : d = Len(l)  BY SeqTypes
<1>2. PICK f : f = [k \in 1 .. d |-> l[k]]  OBVIOUS
<1>3. f \in [1 .. d -> Nodes]  BY <1>1, <1>2, SeqTypes
<1>4. NPROC \in Nat /\ 1 \in Int /\ d \in Int /\ NPROC \in Int /\ NPROC >= 1  BY Consts
<1>5. IsFiniteSet(1 .. d) /\ Cardinality(1 .. d) = IF 1 > d THEN 0 ELSE d - 1 + 1
  BY <1>4, FS_Interval
<1>6. IsFiniteSet(1 .. NPROC) /\ Cardinality(1 .. NPROC) = IF 1 > NPROC THEN 0 ELSE NPROC - 1 + 1
  BY <1>4, FS_Interval
<1>7. IsFiniteSet(Nodes) /\ Cardinality(Nodes) = NPROC  BY <1>4, <1>6, Consts
<1>8. Cardinality(1 .. d) = d  BY <1>1, <1>5
<1>9. ASSUME NPROC < d PROVE FALSE
  <2>1. \E x, y \in 1 .. d : x # y /\ f[x] = f[y]
    BY <1>3, <1>5, <1>7, <1>8, <1>9, FS_PigeonHole
  <2>2. QED  BY <1>1, <1>2, <2>1
<1>10. QED  BY <1>1, <1>4, <1>9

(* A walk along a proper list visits its nodes and ends. *)
LEMMA WalkList ==
  ASSUME TableInv, NEW i \in Pris, NEW l \in Seq(Nodes),
         Linked(q.next, q.head[i], q.tail[i], l)
  PROVE  /\ Walk(q, i)[NPROC] = 0
         /\ \A n : n \in InQueue(q, i) <=> Member(n, l)
<1>0. NPROC \in Nat /\ NPROC >= 1 /\ 0 \notin Nodes  BY Consts
<1>1. PICK d \in Nat : d = Len(l)  BY SeqTypes
<1>2. d <= NPROC  BY <1>1, ListLen DEF Linked
<1>3. /\ \A k \in 1 .. d : l[k] \in Nodes
      /\ \A k \in 1 .. d : q.next[l[k]] = IF k = d THEN 0 ELSE l[k + 1]
      /\ q.head[i] = IF d = 0 THEN 0 ELSE l[1]
  BY <1>1, SeqTypes DEF Linked
<1>4. PICK w : w = Walk(q, i)  OBVIOUS
<1>5. /\ w[0] = q.head[i]
      /\ \A k \in 1 .. NPROC : w[k] = IF w[k - 1] = 0 THEN 0 ELSE q.next[w[k - 1]]
  <2>1. PICK M : M = Named  OBVIOUS
  <2>2. M \in SUBSET Nodes /\ q.head[i] \in M \cup {0} /\ \A x \in M : q.next[x] \in M \cup {0}
    BY <2>1 DEF TableInv, NamedInv, Named
  <2>3. PICK s : s = q  OBVIOUS
  <2>4. s.head[i] \in M \cup {0} /\ \A x \in M : s.next[x] \in M \cup {0}  BY <2>2, <2>3
  <2>5. /\ Walk(s, i)[0] = s.head[i]
        /\ \A k \in 1 .. NPROC : Walk(s, i)[k] =
             IF Walk(s, i)[k - 1] = 0 THEN 0 ELSE s.next[Walk(s, i)[k - 1]]
    BY <2>2, <2>4, WalkIs
  <2>6. QED  BY <1>4, <2>3, <2>5
<1> DEFINE At(k) == IF k < d THEN l[k + 1] ELSE 0
<1>6. PICK T : T = {k \in 0 .. NPROC : w[k] = At(k)}  OBVIOUS
<1>7. PICK id : id = [k \in 0 .. NPROC |-> k]  OBVIOUS
<1>8. id[0] \in T
  <2>1. w[0] = At(0)  BY <1>3, <1>5
  <2>2. QED  BY <1>0, <1>6, <1>7, <2>1
<1>9. ASSUME NEW k \in 1 .. NPROC, id[k - 1] \in T PROVE id[k] \in T
  <2>1. k - 1 \in 0 .. NPROC /\ k \in 0 .. NPROC  BY <1>0
  <2>2. id[k - 1] = k - 1 /\ id[k] = k  BY <1>7, <2>1
  <2>3. w[k - 1] = At(k - 1)  BY <1>6, <1>9, <2>2
  <2>4. CASE k - 1 < d
    <3>1. k \in 1 .. d /\ (k - 1) + 1 = k  BY <2>4
    <3>2. w[k - 1] = l[k] /\ l[k] # 0  BY <1>0, <1>3, <2>3, <2>4, <3>1
    <3>3. w[k] = IF k = d THEN 0 ELSE l[k + 1]  BY <1>3, <1>5, <3>1, <3>2
    <3>4. w[k] = At(k)  BY <3>1, <3>3
    <3>5. QED  BY <1>6, <2>1, <2>2, <3>4
  <2>5. CASE ~(k - 1 < d)
    <3>1. w[k] = 0  BY <1>5, <2>3, <2>5
    <3>2. w[k] = At(k)  BY <2>5, <3>1
    <3>3. QED  BY <1>6, <2>1, <2>2, <3>2
  <2>6. QED  BY <2>4, <2>5
<1>10. \A k \in 0 .. NPROC : id[k] \in T  BY <1>0, <1>8, <1>9, LoopIn
<1>11. \A k \in 0 .. NPROC : w[k] = At(k)  BY <1>6, <1>7, <1>10
<1>12. w[NPROC] = 0  BY <1>0, <1>2, <1>11
<1>13. ASSUME NEW n PROVE n \in InQueue(q, i) <=> Member(n, l)
  <2>1. ASSUME n \in InQueue(q, i) PROVE Member(n, l)
    <3>1. PICK k \in 0 .. NPROC : n = w[k] /\ n # 0  BY <1>4, <2>1 DEF InQueue
    <3>2. k < d /\ n = l[k + 1]  BY <1>11, <3>1
    <3>3. k + 1 \in 1 .. d  BY <3>2
    <3>4. QED  BY <1>1, <3>2, <3>3 DEF Member
  <2>2. ASSUME NEW k \in 1 .. d, l[k] = n PROVE n \in InQueue(q, i)
    <3>1. k - 1 \in 0 .. NPROC /\ k - 1 < d /\ (k - 1) + 1 = k  BY <1>0, <1>2
    <3>2. w[k - 1] = n /\ n # 0  BY <1>0, <1>3, <1>11, <2>2, <3>1
    <3>3. QED  BY <1>4, <3>1, <3>2 DEF InQueue
  <2>3. QED  BY <1>1, <2>1, <2>2 DEF Member
<1>14. QED  BY <1>4, <1>12, <1>13

LEMMA QueuesAreOK ==
  ASSUME TableInv, QueueInv, NEW i \in Pris
  PROVE  QueueOK(i)
<1>0. NodeInv /\ Types /\ 0 \notin Nodes  BY TypesHold, Consts DEF QueueInv
<1>1. PICK l \in Seq(Nodes) : Holds(q, putin, i, l)  BY DEF QueueInv, ListsInv
<1>2. Linked(q.next, q.head[i], q.tail[i], l)  BY <1>1 DEF Holds
<1>3. PICK in : in = InQueue(q, i)  OBVIOUS
<1>4. Walk(q, i)[NPROC] = 0 /\ \A n : n \in in <=> Member(n, l)  BY <1>2, <1>3, WalkList
<1>5. /\ (q.head[i] = 0) <=> (l = <<>>)
      /\ (q.tail[i] = 0) <=> (l = <<>>)
      /\ q.tail[i] # 0 => q.tail[i] \in in /\ q.next[q.tail[i]] = 0
  <2>1. CASE l = <<>>  BY <1>2, <2>1 DEF Linked
  <2>2. CASE l # <<>>
    <3>1. 1 \in 1 .. Len(l) /\ Len(l) \in 1 .. Len(l)  BY <2>2, SeqTypes
    <3>2. q.head[i] = l[1] /\ q.tail[i] = l[Len(l)] /\ q.next[l[Len(l)]] = 0
      BY <1>2, <2>2, <3>1 DEF Linked
    <3>3. l[1] \in Nodes /\ l[Len(l)] \in Nodes  BY <3>1, SeqTypes
    <3>4. Member(q.tail[i], l)  BY <3>1, <3>2 DEF Member
    <3>5. QED  BY <1>0, <1>4, <2>2, <3>2, <3>3, <3>4
  <2>3. QED  BY <2>1, <2>2
<1>6. ASSUME NEW n \in in
      PROVE  n \in Nodes /\ n \in inuse /\ nproc[n] \in Slots /\ putin[nproc[n]] = i /\ qnode[nproc[n]] = n
  <2>1. Member(n, l)  BY <1>4
  <2>2. n \in Nodes  BY <2>1, SeqTypes DEF Member
  <2>3. n \in inuse /\ putin[nproc[n]] = i  BY <1>1, <2>1, <2>2 DEF Holds
  <2>4. nproc[n] # 0 /\ qnode[nproc[n]] = n  BY <1>0, <2>3 DEF NodeInv
  <2>5. nproc[n] \in 0 .. NPROC  BY <1>0, <2>2 DEF Types
  <2>6. QED  BY <2>2, <2>3, <2>4, <2>5, Consts
<1>7. ASSUME NEW p \in Slots, putin[p] = i PROVE qnode[p] \in in
  <2>1. PICK e \in 0 .. NPROC :
          /\ e # 0 => Ran(q, putin, e)
          /\ \A u \in Slots \ {e} : Waiting(q, putin, u)
    BY DEF QueueInv
  <2>2. state[p] \in Alive \cup {"ZOMBIE"}
    <3>1. CASE p = e  BY <2>1, <3>1, Consts DEF Ran
    <3>2. CASE p # e  BY <1>7, <2>1, <3>2, Consts DEF Waiting, Fresh, Alive
    <3>3. QED  BY <3>1, <3>2
  <2>3. qnode[p] # 0 /\ qnode[p] \in Nodes  BY <1>0, <2>2, NodeOf
  <2>4. qnode[p] \in inuse /\ nproc[qnode[p]] = p  BY <1>0, <2>3 DEF NodeInv
  <2>5. Member(qnode[p], l)  BY <1>1, <1>7, <2>3, <2>4 DEF Holds
  <2>6. QED  BY <1>4, <2>5
<1>8. in = {qnode[p] : p \in {r \in Slots : putin[r] = i}}
  BY <1>6, <1>7
<1>9. (q.head[i] = 0) = (q.tail[i] = 0)  BY <1>5
<1>10. QED  BY <1>3, <1>4, <1>5, <1>6, <1>8, <1>9 DEF QueueOK

(* However fork, exit, wait, sleep, wakeup, kill and preemption interleave, *)
(* and whatever the number of processes and queues, refresh_q(),            *)
(* put_tail_q() and rm_from_q() leave proper lists that agree with put_in,  *)
(* and nobody follows a bad pointer.                                        *)
THEOREM QueuesAlwaysSound ==
  ASSUME NCPU = 1
  PROVE  Spec => []QueuesSound
<1>1. IInv => QueuesSound
  <2> SUFFICES ASSUME IInv, Clean PROVE ~fault /\ \A i \in Pris : QueueOK(i)
    BY DEF QueuesSound
  <2>1. TableInv /\ QueueInv  BY DEF IInv
  <2>2. ~fault  BY <2>1 DEF QueueInv
  <2>3. QED  BY <2>1, <2>2, QueuesAreOK
<1>2. QED  BY <1>1, QueuesInvariant, PTL

(* scheduler() switches to a RUNNABLE process, and to none below another    *)
(* RUNNABLE one, whatever the other processes have done since its last      *)
(* refresh_q().                                                             *)
THEOREM HighestFirst ==
  ASSUME NCPU = 1
  PROVE  Spec => PriorityRespected
<1> DEFINE Chosen == \A c \in CPUs : Clean /\ cpu[c] = 0 /\ cpu'[c] # 0 =>
             /\ state[cpu'[c]] = "RUNNABLE"
             /\ \A p \in Slots : state[p] = "RUNNABLE" =>
                                    priority[p] <= priority[cpu'[c]]
<1>1. IInv /\ [Next]_vars => [Chosen]_vars
  <2> SUFFICES ASSUME IInv, [Next]_vars, Clean, cpu[1] = 0, cpu'[1] # 0
               PROVE  /\ state[cpu'[1]] = "RUNNABLE"
                      /\ \A p \in Slots : state[p] = "RUNNABLE" => priority[p] <= priority[cpu'[1]]
    BY CpuIs
  <2>0. TableInv /\ QueueInv /\ NodeInv /\ Types  BY TypesHold DEF IInv, QueueInv
  <2>1. Schedule(1)
    <3>1. CASE UNCHANGED vars  BY <3>1 DEF vars
    <3>2. CASE Wakeup  BY <3>2 DEF Wakeup
    <3>3. ASSUME NEW c \in CPUs, NEW p \in Slots, Yield(c, p) \/ ProcStep(c, p) PROVE FALSE
      <4>1. Running(c, p)
        BY <3>3 DEF Yield, ProcStep, Fork, ForkSlot, ForkStack, ForkNoStack, ForkFindNode,
             ForkTakeNode, ForkNoCopy, ForkDone, FinishFork, Exit, Wait, WaitReap, WaitSleep,
             WaitNone, Sleep, SetPriStep, SetPriRemove, SetPriPut, SetPriDone, Kill, SetPri
      <4>2. QED  BY <4>1, CpuIs DEF Running
    <3>4. QED  BY <3>1, <3>2, <3>3, CpuIs DEF Next
  <2>2. PICK s \in Works(Named) :
          /\ s = refresh_q /\ ~s.stuck /\ ListsInv(s, s.putin)
          /\ \A u \in Slots : Fresh(s, s.putin, u)
    BY <2>0, RefreshDone
  <2>3. Nonempty(s) # {}  BY <2>1, <2>2 DEF Schedule
  <2>4. PICK p : p = nproc[s.head[TopQueue(s)]]  OBVIOUS
  <2>5. /\ p \in Slots /\ state[p] = "RUNNABLE"
        /\ \A u \in Slots : state[u] = "RUNNABLE" => priority[u] <= priority[p]
    BY <2>0, <2>2, <2>3, <2>4, TopRunnable
  <2>6. cpu'[1] = p
    <3>1. Switch(1, s, p)  BY <2>1, <2>2, <2>3, <2>4 DEF Schedule
    <3>2. cpu' = [cpu EXCEPT ![1] = p]  BY <3>1 DEF Switch
    <3>3. QED  BY <2>0, <3>2, CpuIs DEF Types
  <2>7. QED  BY <2>5, <2>6
<1>2. QED  BY <1>1, QueuesInvariant, PTL DEF Spec, PriorityRespected
===============================================================================
