---------------------------- MODULE MapReduceProofs ----------------------------
(***************************************************************************)
(* The threads of the MapReduce library for any numbers of mappers,        *)
(* reducers, partitions and files: partitions go to one reducer each and   *)
(* in order, a sorted partition is left alone, and the only bad pointer    *)
(* is the one that a partition with exactly one key leads to.              *)
(***************************************************************************)
EXTENDS MapReduce, NatSets, SequenceTheorems

Tables == [num_keys : Nat, start : Seq(Nat), end : Seq(Nat), cur : Seq(Nat),
           sorted : BOOLEAN]

Rpcs == {"unborn", "assign", "sort", "wait", "reduce", "get", "done"}

TypeOK ==
  /\ work \in Workloads
  /\ main \in {"map", "reduce", "done"}
  /\ arg_next \in Nat
  /\ mpc \in [Mappers -> {"take", "map", "done"}]
  /\ rest \in [Mappers -> Seq(Pairs)]
  /\ list \in [Parts -> Seq(Pairs)]
  /\ size \in [Parts -> Nat \ {0}]
  /\ table \in [Parts -> Tables]
  /\ sent_flag \in [Parts -> Nat]
  /\ cur_reduce_partition \in 0 .. NumPartitions
  /\ rpc \in [Reducers -> Rpcs]
  /\ part \in [Reducers -> Parts \cup {-1}]
  /\ key \in [Reducers -> Nat]
  /\ calls \in [Parts -> Seq(Nat)]
  /\ fault \in BOOLEAN

(* The two phases: reducers are born when the mappers are done. *)
PhaseInv ==
  /\ main = "map" => /\ \A r \in Reducers : rpc[r] = "unborn"
                     /\ \A p \in Parts : ~table[p].sorted
  /\ main # "map" => \A m \in Mappers : mpc[m] = "done"
  /\ main = "done" => \A r \in Reducers : rpc[r] = "done"

(* A list has room for its pairs. *)
SizeInv == \A p \in Parts : Len(list[p]) <= size[p]

(* The partitions given out so far, each to one reducer, which alone sorts  *)
(* it.                                                                      *)
PartInv ==
  /\ \A r \in Reducers : part[r] < cur_reduce_partition
  /\ \A r, s \in Reducers : r # s /\ part[r] = part[s] => part[r] = -1
  /\ \A r \in Reducers : rpc[r] \in {"sort", "wait", "reduce", "get"} => part[r] # -1
  /\ \A r \in Reducers : rpc[r] = "sort" => ~table[part[r]].sorted
  /\ \A r \in Reducers : rpc[r] = "wait" => part[r] # 0
  /\ \A p \in Parts : table[p].sorted => p < cur_reduce_partition
  /\ \A r \in Reducers : rpc[r] \in {"wait", "reduce", "get"} => table[part[r]].sorted

InOrder(l) == \A i \in 1 .. (Len(l) - 1) : l[i].key <= l[i + 1].key

(* What sort_partition() found is still what the list says. *)
IndexInv ==
  \A p \in Parts : table[p].sorted =>
    /\ InOrder(list[p])
    /\ table[p].num_keys = Cardinality(Keys(list[p]))
    /\ Len(table[p].start) = Cardinality(Starts(list[p]))
    /\ \A k \in 1 .. Len(table[p].start) : table[p].start[k] \in 1 .. Len(list[p])

(* The loop counter of a reducer stays within its keys. *)
LoopInv ==
  \A r \in Reducers : rpc[r] \in {"wait", "reduce", "get"} =>
    /\ key[r] > 0
    /\ table[part[r]].num_keys > 0 => key[r] <= table[part[r]].num_keys
    /\ rpc[r] = "get" => table[part[r]].num_keys > 0 /\ calls[part[r]] # <<>>

(* A reducer was called for partition p, or there is nothing to call it for. *)
Begun(p) == calls[p] # <<>> \/ (table[p].sorted /\ table[p].num_keys = 0)

(* sent_flag passes on that all partitions so far have begun. *)
SentInv ==
  main # "done" =>
    /\ \A p \in Parts : sent_flag[p] > 0 => \A u \in Parts : u <= p => Begun(u)
    /\ \A r \in Reducers : rpc[r] \in {"reduce", "get"} =>
         \A u \in Parts : u < part[r] => Begun(u)

IInv == /\ TypeOK /\ PhaseInv /\ SizeInv /\ PartInv /\ IndexInv /\ LoopInv /\ SentInv
        /\ FaultOnlyOneKey
-------------------------------------------------------------------------------
LEMMA Consts ==
  /\ NumPartitions \in Nat /\ NumPartitions >= 1 /\ Parts = 0 .. (NumPartitions - 1)
  /\ Parts \subseteq Nat /\ -1 \notin Parts
  /\ \A x \in Pairs : x.key \in Nat
BY MapReduceAssumption, WorkloadsAssumption DEF Parts

(* Neighbours in order are all in order. *)
LEMMA Ascending ==
  ASSUME NEW l \in Seq(Pairs), InOrder(l)
  PROVE  \A i, j \in 1 .. Len(l) : i <= j => l[i].key <= l[j].key
<1>0. Len(l) \in Nat /\ \A i \in 1 .. Len(l) : l[i] \in Pairs /\ l[i].key \in Nat
  BY LenProperties, ElementOfSeq, Consts
<1> SUFFICES ASSUME NEW i \in 1 .. Len(l)
             PROVE  \A j \in 1 .. Len(l) : i <= j => l[i].key <= l[j].key
  OBVIOUS
<1> DEFINE T == {j \in 1 .. Len(l) : i <= j /\ ~(l[i].key <= l[j].key)}
<1> SUFFICES ASSUME T # {} PROVE FALSE
  OBVIOUS
<1>1. PICK m \in T : \A j \in T : m <= j
  <2>1. T \in SUBSET Nat  BY <1>0
  <2> HIDE DEF T
  <2>2. QED  BY <2>1, LeastNat
<1>2. m \in 1 .. Len(l) /\ i <= m /\ ~(l[i].key <= l[m].key)  OBVIOUS
<1>3. i # m  BY <1>0, <1>2
<1>4. m - 1 \in 1 .. Len(l) /\ m - 1 \in 1 .. (Len(l) - 1) /\ i <= m - 1 /\ (m - 1) + 1 = m
  BY <1>0, <1>2, <1>3
<1>5. m - 1 \notin T
  <2>1. ~(m <= m - 1)  BY <1>2
  <2> HIDE DEF T
  <2>2. QED  BY <1>1, <2>1
<1>6. l[i].key <= l[m - 1].key  BY <1>4, <1>5
<1>7. l[m - 1].key <= l[m].key  BY <1>4 DEF InOrder
<1>8. l[i].key \in Nat /\ l[m - 1].key \in Nat /\ l[m].key \in Nat  BY <1>0, <1>2, <1>4
<1> HIDE DEF T
<1>9. QED  BY <1>2, <1>6, <1>7, <1>8

(* The second loop of sort_partition() finds a start for each key, unless   *)
(* there is only one key.                                                   *)
LEMMA StartsAndKeys ==
  ASSUME NEW l \in Seq(Pairs), InOrder(l), Cardinality(Keys(l)) # 1
  PROVE  Cardinality(Starts(l)) = Cardinality(Keys(l))
<1>0. Len(l) \in Nat /\ \A i \in 1 .. Len(l) : l[i].key \in Nat
  BY LenProperties, ElementOfSeq, Consts
<1>1. \A i, j \in 1 .. Len(l) : i <= j => l[i].key <= l[j].key  BY Ascending
<1>2. PICK n \in Nat : n = Len(l)  BY <1>0
<1>3. PICK S : S = Starts(l)  OBVIOUS
<1>4. PICK K : K = Keys(l)  OBVIOUS
<1>5. S \in SUBSET (1 .. n) /\ \A i \in 1 .. n : l[i].key \in K
  BY <1>2, <1>3, <1>4 DEF Starts, Keys
<1>6. PICK f : f = [i \in S |-> l[i].key]  OBVIOUS
<1>7. f \in [S -> K]  BY <1>5, <1>6
<1>8. ASSUME NEW i \in S, NEW j \in S, i < j PROVE f[i] # f[j]
  <2>1. i \in 1 .. n /\ j \in 1 .. n /\ j # 1  BY <1>5, <1>8
  <2>2. l[j].key # l[j - 1].key  BY <1>3, <2>1 DEF Starts
  <2>3. j - 1 \in 1 .. n /\ j - 1 <= j /\ i <= j - 1  BY <1>8, <2>1
  <2>4. l[j - 1].key <= l[j].key /\ l[i].key <= l[j - 1].key  BY <1>1, <1>2, <2>1, <2>3
  <2>5. l[i].key < l[j].key  BY <1>0, <1>2, <2>1, <2>2, <2>3, <2>4
  <2>6. QED  BY <1>0, <1>2, <1>6, <2>1, <2>5
<1>9. \A i, j \in S : f[i] = f[j] => i = j
  <2> SUFFICES ASSUME NEW i \in S, NEW j \in S, f[i] = f[j], i # j PROVE FALSE
    OBVIOUS
  <2>1. i < j \/ j < i  BY <1>5
  <2>2. QED  BY <1>8, <2>1
<1>10. ASSUME NEW k \in K PROVE \E i \in S : f[i] = k
  <2>1. PICK T : T = {i \in 1 .. n : l[i].key = k}  OBVIOUS
  <2>2. T \in SUBSET Nat /\ T # {}  BY <1>2, <1>4, <2>1 DEF Keys
  <2>3. PICK m \in T : \A j \in T : m <= j  BY <2>2, LeastNat
  <2>4. m \in 1 .. n /\ l[m].key = k  BY <2>1
  <2>5. m \in S
    <3>1. CASE m # 1
      <4>1. m - 1 \in 1 .. n /\ ~(m <= m - 1)  BY <2>4, <3>1
      <4>2. l[m - 1].key # k  BY <2>1, <2>3, <4>1
      <4>3. QED  BY <1>2, <1>3, <2>4, <3>1, <4>2 DEF Starts
    <3>2. CASE m = 1
      <4>1. l[n].key # k
        <5> SUFFICES ASSUME l[n].key = k PROVE FALSE
          OBVIOUS
        <5>1. ASSUME NEW i \in 1 .. n PROVE l[i].key = k
          <6>1. 1 <= i /\ i <= n /\ 1 \in 1 .. n /\ n \in 1 .. n  BY <1>2
          <6>2. l[1].key <= l[i].key /\ l[i].key <= l[n].key  BY <1>1, <1>2, <6>1
          <6>3. l[i].key \in Nat /\ k \in Nat  BY <1>0, <1>2, <2>4
          <6>4. QED  BY <2>4, <3>2, <6>2, <6>3
        <5>2. K = {k}  BY <1>2, <1>4, <5>1 DEF Keys
        <5>3. Cardinality(K) = 1  BY <5>2, FS_Singleton
        <5>4. QED  BY <1>4, <5>3
      <4>2. QED  BY <1>2, <1>3, <2>4, <3>2, <4>1 DEF Starts
    <3>3. QED  BY <3>1, <3>2
  <2>6. QED  BY <1>6, <2>4, <2>5
<1>11. f \in Bijection(S, K)
  <2>1. f \in Injection(S, K)  BY <1>7, <1>9, Fun_IsInj
  <2>2. f \in Surjection(S, K)  BY <1>7, <1>10, Fun_IsSurj
  <2>3. QED  BY <2>1, <2>2 DEF Bijection
<1>12. IsFiniteSet(S)
  <2>1. IsFiniteSet(1 .. n)  BY FS_Interval
  <2>2. QED  BY <1>5, <2>1, FS_Subset
<1>13. Cardinality(S) = Cardinality(K)
  <2>1. IsFiniteSet(S) /\ f \in Bijection(S, K)  BY <1>11, <1>12
  <2>2. QED  BY <2>1, FS_Bijection DEF ExistsBijection
<1>14. QED  BY <1>3, <1>4, <1>13

LEMMA FunIsSeq ==
  ASSUME NEW S, NEW n \in Nat, NEW g \in [1 .. n -> S]
  PROVE  g \in Seq(S) /\ Len(g) = n
OBVIOUS

(* qsort() keeps the pairs and puts them in order. *)
LEMMA QsortIs ==
  ASSUME NEW l \in Seq(Pairs), NEW s \in Qsort(l)
  PROVE  s \in Seq(Pairs) /\ Len(s) = Len(l) /\ InOrder(s)
<1>1. PICK n \in Nat : n = Len(l)  BY LenProperties
<1>2. PICK f \in Bijection(1 .. n, 1 .. n) : s = [i \in 1 .. n |-> l[f[i]]]
  BY <1>1 DEF Qsort
<1>3. f \in [1 .. n -> 1 .. n]  BY <1>2, Fun_BijectionProperties
<1>4. \A i \in 1 .. n : l[i] \in Pairs  BY <1>1, ElementOfSeq
<1>5. s \in [1 .. n -> Pairs]  BY <1>2, <1>3, <1>4
<1>6. s \in Seq(Pairs) /\ Len(s) = n  BY <1>5, FunIsSeq
<1>7. \A i \in 1 .. (n - 1) : s[i].key <= s[i + 1].key  BY <1>1 DEF Qsort
<1>8. QED  BY <1>1, <1>6, <1>7 DEF InOrder

(* What sort_partition() fills in. *)
LEMMA IndexTableIs ==
  ASSUME NEW l \in Seq(Pairs)
  PROVE  /\ IndexTable(l) \in Tables
         /\ IndexTable(l).sorted
         /\ IndexTable(l).num_keys = Cardinality(Keys(l))
         /\ Len(IndexTable(l).start) = Cardinality(Starts(l))
         /\ \A k \in 1 .. Cardinality(Starts(l)) : IndexTable(l).start[k] \in 1 .. Len(l)
<1>1. PICK n \in Nat : n = Len(l)  BY LenProperties
<1>2. PICK S : S = Starts(l)  OBVIOUS
<1>3. S \in SUBSET (1 .. n) /\ S \in SUBSET Nat  BY <1>1, <1>2 DEF Starts
<1>4. IsFiniteSet(1 .. n)  BY FS_Interval
<1>5. IsFiniteSet(S)  BY <1>3, <1>4, FS_Subset
<1>6. PICK c \in Nat : c = Cardinality(S)  BY <1>5, FS_CardinalityType
<1>7. PICK st : st = StartIdxs(l)  OBVIOUS
<1>8. StartIdxs(l) = [k \in 1 .. Cardinality(Starts(l)) |->
                         CHOOSE i \in Starts(l) : Rank(Starts(l), i) = k - 1]
  BY DEF StartIdxs, Rank, Below
<1>9. ASSUME NEW k \in 1 .. c PROVE st[k] \in S
  <2>1. k - 1 \in 0 .. Cardinality(S) - 1  BY <1>6
  <2>2. \E i \in S : Rank(S, i) = k - 1  BY <1>3, <1>5, <2>1, RankIs
  <2>3. st[k] = CHOOSE i \in Starts(l) : Rank(Starts(l), i) = k - 1
    BY <1>2, <1>6, <1>7, <1>8
  <2>4. QED  BY <1>2, <2>2, <2>3
<1>10. st \in [1 .. c -> 1 .. n]
  <2>1. st = [k \in 1 .. c |-> st[k]]  BY <1>2, <1>6, <1>7, <1>8
  <2>2. \A k \in 1 .. c : st[k] \in 1 .. n  BY <1>3, <1>9
  <2>3. QED  BY <2>1, <2>2
<1>11. st \in Seq(1 .. n) /\ Len(st) = c  BY <1>10, FunIsSeq
<1>12. st \in Seq(Nat)  BY <1>11, SeqMonotonic
<1>13. Ends(l, st) \in Seq(Nat)
  <2>1. \A k \in 1 .. c : k < c => k + 1 \in 1 .. c  OBVIOUS
  <2>2. Ends(l, st) \in [1 .. c -> Nat]  BY <1>1, <1>10, <1>11, <2>1 DEF Ends
  <2>3. QED  BY <2>2, FunIsSeq
<1>14. Cardinality(Keys(l)) \in Nat
  <2>1. PICK K : K = Keys(l)  OBVIOUS
  <2>2. PICK g : g = [i \in 1 .. n |-> l[i].key]  OBVIOUS
  <2>3. g \in Surjection(1 .. n, K)
    <3>1. g \in [1 .. n -> K]  BY <1>1, <2>1, <2>2 DEF Keys
    <3>2. \A x \in K : \E i \in 1 .. n : g[i] = x  BY <1>1, <2>1, <2>2 DEF Keys
    <3>3. QED  BY <3>1, <3>2, Fun_IsSurj
  <2>4. IsFiniteSet(K)  BY <1>4, <2>3, FS_Surjection
  <2>5. QED  BY <2>1, <2>4, FS_CardinalityType
<1>15. IndexTable(l) = [num_keys |-> Cardinality(Keys(l)), start |-> st, end |-> Ends(l, st),
                        cur |-> st, sorted |-> TRUE]
  BY <1>7 DEF IndexTable
<1>16. IndexTable(l) \in Tables  BY <1>12, <1>13, <1>14, <1>15 DEF Tables
<1>17. QED  BY <1>1, <1>2, <1>6, <1>10, <1>11, <1>15, <1>16

-------------------------------------------------------------------------------
LEMMA InitHolds == Init => IInv
<1> SUFFICES ASSUME Init PROVE IInv  OBVIOUS
<1>1. TypeOK
  <2>1. Unsorted \in Tables  BY EmptySeq DEF Unsorted, Tables
  <2>2. list \in [Parts -> Seq(Pairs)] /\ calls \in [Parts -> Seq(Nat)]
        /\ rest \in [Mappers -> Seq(Pairs)]
    BY EmptySeq DEF Init
  <2>3. size \in [Parts -> Nat \ {0}] /\ table \in [Parts -> Tables]
        /\ cur_reduce_partition \in 0 .. NumPartitions
    BY <2>1, Consts, MapReduceAssumption DEF Init
  <2>4. work \in Workloads /\ main \in {"map", "reduce", "done"} /\ arg_next \in Nat
        /\ mpc \in [Mappers -> {"take", "map", "done"}] /\ sent_flag \in [Parts -> Nat]
    BY DEF Init
  <2>5. rpc \in [Reducers -> Rpcs] /\ part \in [Reducers -> Parts \cup {-1}]
        /\ key \in [Reducers -> Nat] /\ fault \in BOOLEAN
    BY DEF Init, Rpcs
  <2>6. QED  BY <2>2, <2>3, <2>4, <2>5 DEF TypeOK
<1>2. \A p \in Parts : ~table[p].sorted  BY DEF Init, Unsorted
<1>3. PhaseInv  BY <1>2 DEF Init, PhaseInv
<1>4. SizeInv  BY EmptySeq, MapReduceAssumption DEF Init, SizeInv
<1>5. PartInv  BY <1>2 DEF Init, PartInv
<1>6. IndexInv  BY <1>2 DEF IndexInv
<1>7. LoopInv  BY DEF Init, LoopInv
<1>8. SentInv  BY DEF Init, SentInv
<1>9. FaultOnlyOneKey  BY DEF Init, FaultOnlyOneKey
<1>10. QED  BY <1>1, <1>3, <1>4, <1>5, <1>6, <1>7, <1>8, <1>9 DEF IInv

(* Mappers run before the reducers ... *)
LEMMA Mapping ==
  ASSUME IInv, NEW m \in Mappers, mpc[m] # "done"
  PROVE  main = "map"
BY DEF IInv, PhaseInv

(* ... and reducers between the two joins. *)
LEMMA Reducing ==
  ASSUME IInv, NEW r \in Reducers, rpc[r] \notin {"unborn", "done"}
  PROVE  main = "reduce"
BY DEF IInv, TypeOK, PhaseInv

(* Nothing but the mappers' own state changes. *)
LEMMA MapperFrame ==
  ASSUME IInv, TypeOK', main = "map",
         UNCHANGED <<work, main, list, size, reduceVars, fault>>
  PROVE  IInv'
<1> USE DEF reduceVars
<1>1. PhaseInv'  BY DEF IInv, PhaseInv
<1>2. SizeInv' /\ PartInv' /\ IndexInv' /\ LoopInv'
  BY DEF IInv, SizeInv, PartInv, IndexInv, LoopInv
<1>3. SentInv' /\ FaultOnlyOneKey'
  BY DEF IInv, SentInv, Begun, FaultOnlyOneKey
<1>4. QED  BY <1>1, <1>2, <1>3 DEF IInv

LEMMA TakeFileStep ==
  ASSUME IInv, NEW m \in Mappers, TakeFile(m)
  PROVE  IInv'
<1>1. main = "map"  BY Mapping DEF TakeFile
<1>2. UNCHANGED <<work, main, list, size, reduceVars, fault>>  BY DEF TakeFile
<1>3. TypeOK'
  <2>1. arg_next' \in Nat  BY DEF TakeFile, IInv, TypeOK
  <2>2. mpc' \in [Mappers -> {"take", "map", "done"}]  BY DEF TakeFile, IInv, TypeOK
  <2>3. rest' \in [Mappers -> Seq(Pairs)]
    <3>1. CASE arg_next >= Len(work.files)
      BY <3>1 DEF TakeFile, IInv, TypeOK
    <3>2. CASE ~(arg_next >= Len(work.files))
      <4>1. PICK fs \in Seq(Seq(Pairs)) : fs = work.files
        BY WorkloadsAssumption DEF IInv, TypeOK
      <4>2. Len(fs) \in Nat /\ arg_next \in Nat  BY LenProperties DEF IInv, TypeOK
      <4>3. arg_next + 1 \in 1 .. Len(fs)  BY <3>2, <4>1, <4>2
      <4>4. fs[arg_next + 1] \in Seq(Pairs)  BY <4>3, ElementOfSeq
      <4>5. QED  BY <3>2, <4>1, <4>4 DEF TakeFile, IInv, TypeOK
    <3>3. QED  BY <3>1, <3>2
  <2>4. QED  BY <1>2, <2>1, <2>2, <2>3 DEF IInv, TypeOK, reduceVars
<1>4. QED  BY <1>1, <1>2, <1>3, MapperFrame

LEMMA FileDoneStep ==
  ASSUME IInv, NEW m \in Mappers, FileDone(m)
  PROVE  IInv'
<1>1. main = "map"  BY Mapping DEF FileDone
<1>2. UNCHANGED <<work, main, list, size, reduceVars, fault>>  BY DEF FileDone
<1>3. mpc' \in [Mappers -> {"take", "map", "done"}] /\ UNCHANGED <<arg_next, rest>>
  BY DEF FileDone, IInv, TypeOK
<1>4. TypeOK'  BY <1>2, <1>3 DEF IInv, TypeOK, reduceVars
<1>5. QED  BY <1>1, <1>2, <1>4, MapperFrame

(* MR_Emit() makes room before it appends, and nothing is sorted yet. *)
LEMMA EmitStep ==
  ASSUME IInv, ~fault, NEW m \in Mappers, MR_Emit(m)
  PROVE  IInv'
<1>1. main = "map"  BY Mapping DEF MR_Emit
<1>2. PICK x \in Pairs : x = Head(rest[m])
  <2>1. rest[m] \in Seq(Pairs) /\ rest[m] # <<>>  BY DEF MR_Emit, IInv, TypeOK
  <2>2. QED  BY <2>1, HeadTailProperties
<1>3. PICK p \in Parts : p = work.part[x.key]
  BY WorkloadsAssumption DEF IInv, TypeOK
<1>4. PICK l \in Seq(Pairs) : l = list[p]  BY DEF IInv, TypeOK
<1>5. PICK n \in Nat \ {0} : n = size[p]  BY DEF IInv, TypeOK
<1>6. Len(l) \in Nat /\ Len(l) <= n  BY <1>4, <1>5, LenProperties DEF IInv, SizeInv
<1>7. /\ size' = IF Len(l) = n THEN [size EXCEPT ![p] = n * 2] ELSE size
      /\ list' = [list EXCEPT ![p] = Append(l, x)]
      /\ fault' = (fault \/ Len(l) >= size'[p])
      /\ rest' = [rest EXCEPT ![m] = Tail(rest[m])]
      /\ UNCHANGED <<work, main, arg_next, mpc, reduceVars>>
  BY <1>2, <1>3, <1>4, <1>5 DEF MR_Emit, Full
<1>8. Append(l, x) \in Seq(Pairs) /\ Len(Append(l, x)) = Len(l) + 1  BY AppendProperties
<1>9. /\ \A u \in Parts : list'[u] = IF u = p THEN Append(l, x) ELSE list[u]
      /\ size' \in [Parts -> Nat \ {0}]
      /\ \A u \in Parts : u # p => size'[u] = size[u]
      /\ Len(l) + 1 <= size'[p]
  <2>1. list \in [Parts -> Seq(Pairs)] /\ size \in [Parts -> Nat \ {0}]
    BY DEF IInv, TypeOK
  <2>2. \A u \in Parts : list'[u] = IF u = p THEN Append(l, x) ELSE list[u]
    BY <1>7, <2>1
  <2>3. n * 2 \in Nat \ {0} /\ Len(l) + 1 <= n * 2  BY <1>6
  <2>4. CASE Len(l) = n
    <3>1. size' = [size EXCEPT ![p] = n * 2]  BY <1>7, <2>4
    <3>2. QED  BY <2>1, <2>2, <2>3, <3>1
  <2>5. CASE Len(l) # n
    <3>1. size' = size /\ Len(l) + 1 <= n  BY <1>6, <1>7, <2>5
    <3>2. QED  BY <1>5, <2>1, <2>2, <3>1
  <2>6. QED  BY <2>4, <2>5
<1>10. TypeOK'
  <2>1. list' \in [Parts -> Seq(Pairs)]  BY <1>7, <1>8 DEF IInv, TypeOK
  <2>2. rest' \in [Mappers -> Seq(Pairs)]
    <3>1. rest[m] \in Seq(Pairs) /\ rest[m] # <<>>  BY DEF MR_Emit, IInv, TypeOK
    <3>2. Tail(rest[m]) \in Seq(Pairs)  BY <3>1, HeadTailProperties
    <3>3. QED  BY <1>7, <3>2 DEF IInv, TypeOK
  <2>3. fault' \in BOOLEAN  BY <1>7, Zenon
  <2>4. QED  BY <1>7, <1>9, <2>1, <2>2, <2>3 DEF IInv, TypeOK, reduceVars
<1>11. /\ \A r \in Reducers : rpc'[r] = "unborn"
       /\ \A u \in Parts : ~table'[u].sorted
  BY <1>1, <1>7 DEF IInv, PhaseInv, reduceVars
<1>12. PhaseInv'  BY <1>1, <1>7, <1>11 DEF PhaseInv
<1>13. SizeInv'
  BY <1>8, <1>9 DEF IInv, SizeInv
<1>14. PartInv'  BY <1>7, <1>11 DEF IInv, PartInv, reduceVars
<1>15. IndexInv' /\ LoopInv'  BY <1>11 DEF IndexInv, LoopInv
<1>16. SentInv'  BY <1>7 DEF IInv, SentInv, Begun, reduceVars
<1>17. FaultOnlyOneKey'
  <2>1. ~(Len(l) >= size'[p])  BY <1>6, <1>9
  <2>2. ~fault'  BY <1>7, <2>1
  <2>3. QED  BY <2>2 DEF FaultOnlyOneKey
<1>18. QED  BY <1>10, <1>12, <1>13, <1>14, <1>15, <1>16, <1>17 DEF IInv

-------------------------------------------------------------------------------
LEMMA JoinMappersStep ==
  ASSUME IInv, ~fault, JoinMappers
  PROVE  IInv'
<1>1. /\ main = "map" /\ main' = "reduce" /\ rpc' = [r \in Reducers |-> "assign"]
      /\ \A m \in Mappers : mpc[m] = "done"
      /\ UNCHANGED <<work, mapVars, table, sent_flag, cur_reduce_partition, part,
                     key, calls, values, fault>>
  BY DEF JoinMappers, MappersJoined
<1>2. TypeOK'  BY <1>1 DEF IInv, TypeOK, mapVars, Rpcs
<1>3. PhaseInv'  BY <1>1 DEF IInv, PhaseInv, mapVars
<1>4. SizeInv' /\ IndexInv'  BY <1>1 DEF IInv, SizeInv, IndexInv, mapVars
<1>5. PartInv'  BY <1>1 DEF IInv, PartInv
<1>6. LoopInv'  BY <1>1 DEF LoopInv
<1>7. SentInv'  BY <1>1 DEF IInv, SentInv, Begun
<1>8. FaultOnlyOneKey'  BY <1>1 DEF FaultOnlyOneKey
<1>9. QED  BY <1>2, <1>3, <1>4, <1>5, <1>6, <1>7, <1>8 DEF IInv

LEMMA JoinReducersStep ==
  ASSUME IInv, ~fault, JoinReducers
  PROVE  IInv'
<1>1. /\ main = "reduce" /\ main' = "done" /\ \A r \in Reducers : rpc[r] = "done"
      /\ list' = [p \in Parts |-> <<>>] /\ table' = [p \in Parts |-> Unsorted]
      /\ UNCHANGED <<work, arg_next, mpc, rest, size, sent_flag,
                     cur_reduce_partition, rpc, part, key, calls, values, fault>>
  BY DEF JoinReducers
<1>2. TypeOK'
  <2>1. Unsorted \in Tables  BY EmptySeq DEF Unsorted, Tables
  <2>2. list' \in [Parts -> Seq(Pairs)]  BY <1>1, EmptySeq
  <2>3. QED  BY <1>1, <2>1, <2>2 DEF IInv, TypeOK
<1>3. \A p \in Parts : ~table'[p].sorted /\ list'[p] = <<>>
  BY <1>1 DEF Unsorted
<1>4. PhaseInv'  BY <1>1 DEF IInv, PhaseInv
<1>5. SizeInv'
  <2>1. \A p \in Parts : size[p] \in Nat  BY DEF IInv, TypeOK
  <2>2. QED  BY <1>1, <1>3, <2>1, EmptySeq DEF SizeInv
<1>6. PartInv'  BY <1>1, <1>3 DEF IInv, PartInv
<1>7. IndexInv' /\ LoopInv' /\ SentInv'  BY <1>1, <1>3 DEF IndexInv, LoopInv, SentInv
<1>8. FaultOnlyOneKey'  BY <1>1 DEF FaultOnlyOneKey
<1>9. QED  BY <1>2, <1>4, <1>5, <1>6, <1>7, <1>8 DEF IInv

(* The next partition goes to one reducer and is not sorted yet. *)
LEMMA AssignStep ==
  ASSUME IInv, ~fault, NEW r \in Reducers, Assign(r)
  PROVE  IInv'
<1>1. main = "reduce"  BY Reducing DEF Assign
<1>2. UNCHANGED <<work, main, mapVars, table, sent_flag, key, calls, values, fault>>
  BY DEF Assign
<1>3. SizeInv' /\ IndexInv'  BY <1>2 DEF IInv, SizeInv, IndexInv, mapVars
<1>4. PhaseInv'  BY <1>1, <1>2 DEF IInv, PhaseInv, mapVars
<1>5. FaultOnlyOneKey'  BY <1>2 DEF FaultOnlyOneKey
<1>6. PICK c \in 0 .. NumPartitions : c = cur_reduce_partition  BY DEF IInv, TypeOK
<1>7. TypeOK' /\ PartInv' /\ rpc'[r] \in {"sort", "done"}
      /\ \A s \in Reducers : s # r => rpc'[s] = rpc[s] /\ part'[s] = part[s]
  <2>1. CASE NoneLeft
    <3>1. /\ rpc' = [rpc EXCEPT ![r] = "done"] /\ part' = [part EXCEPT ![r] = -1]
          /\ cur_reduce_partition' = c
      BY <1>6, <2>1 DEF Assign
    <3>2. /\ \A s \in Reducers : s # r => rpc'[s] = rpc[s] /\ part'[s] = part[s]
          /\ rpc'[r] = "done" /\ part'[r] = -1
      BY <3>1 DEF IInv, TypeOK
    <3>3. TypeOK'  BY <1>2, <1>6, <3>1 DEF IInv, TypeOK, Rpcs, mapVars
    <3>4. PartInv'
      <4>1. \A s \in Reducers : part'[s] < c
        BY <1>6, <3>2 DEF IInv, PartInv
      <4>2. \A s, t \in Reducers : s # t /\ part'[s] = part'[t] => part'[s] = -1
        BY <3>2 DEF IInv, PartInv
      <4>3. QED  BY <1>2, <1>6, <3>1, <3>2, <4>1, <4>2 DEF IInv, PartInv
    <3>5. QED  BY <3>2, <3>3, <3>4
  <2>2. CASE ~NoneLeft
    <3>1. /\ rpc' = [rpc EXCEPT ![r] = "sort"] /\ part' = [part EXCEPT ![r] = c]
          /\ cur_reduce_partition' = c + 1
      BY <1>6, <2>2 DEF Assign
    <3>2. c \in Parts /\ c + 1 \in 0 .. NumPartitions /\ c \in Nat
      BY <1>6, <2>2, Consts DEF NoneLeft
    <3>3. /\ \A s \in Reducers : s # r => rpc'[s] = rpc[s] /\ part'[s] = part[s]
          /\ rpc'[r] = "sort" /\ part'[r] = c
      BY <3>1 DEF IInv, TypeOK
    <3>4. TypeOK'  BY <1>2, <3>1, <3>2 DEF IInv, TypeOK, Rpcs, mapVars
    <3>5. PartInv'
      <4>1. \A s \in Reducers : part[s] < c /\ part[s] \in Int
        BY <1>6, Consts DEF IInv, TypeOK, PartInv
      <4>2. \A s \in Reducers : part'[s] < c + 1
        BY <3>2, <3>3, <4>1
      <4>3. \A s, t \in Reducers : s # t /\ part'[s] = part'[t] => part'[s] = -1
        <5> SUFFICES ASSUME NEW s \in Reducers, NEW t \in Reducers, s # t, part'[s] = part'[t]
                     PROVE  part'[s] = -1
          OBVIOUS
        <5>1. s # r /\ t # r  BY <3>2, <3>3, <4>1
        <5>2. QED  BY <3>3, <5>1 DEF IInv, PartInv
      <4>4. \A u \in Parts : table[u].sorted => u < c
        BY <1>6 DEF IInv, PartInv
      <4>5. ~table[c].sorted  BY <3>2, <4>4
      <4>6. \A u \in Parts : table'[u].sorted => u < c + 1
        <5>1. \A u \in Parts : u \in Nat  BY Consts
        <5>2. QED  BY <1>2, <3>2, <4>4, <5>1
      <4>7. c # -1  BY <3>2
      <4>8. \A s \in Reducers :
              /\ rpc'[s] \in {"sort", "wait", "reduce", "get"} => part'[s] # -1
              /\ rpc'[s] = "sort" => ~table'[part'[s]].sorted
              /\ rpc'[s] = "wait" => part'[s] # 0
              /\ rpc'[s] \in {"wait", "reduce", "get"} => table'[part'[s]].sorted
        BY <1>2, <3>3, <4>5, <4>7 DEF IInv, PartInv
      <4>9. QED  BY <3>1, <4>2, <4>3, <4>6, <4>8 DEF PartInv
    <3>6. QED  BY <3>3, <3>4, <3>5
  <2>3. QED  BY <2>1, <2>2
<1>8. LoopInv'
  BY <1>2, <1>7 DEF IInv, LoopInv
<1>9. SentInv'
  BY <1>1, <1>2, <1>7 DEF IInv, SentInv, Begun
<1>10. QED  BY <1>3, <1>4, <1>5, <1>7, <1>8, <1>9 DEF IInv

(* Only the reducer that owns the partition sorts it, once. *)
LEMMA SortStep ==
  ASSUME IInv, ~fault, NEW r \in Reducers, sort_partition(r)
  PROVE  IInv'
<1>1. main = "reduce" /\ rpc[r] = "sort"  BY Reducing DEF sort_partition
<1>2. PICK p \in Parts : p = part[r]  BY <1>1 DEF IInv, TypeOK, PartInv
<1>3. PICK l \in Seq(Pairs) : l = list[p]  BY DEF IInv, TypeOK
<1>4. PICK s \in Qsort(l) : /\ list' = [list EXCEPT ![p] = s]
                            /\ table' = [table EXCEPT ![p] = IndexTable(s)]
  BY <1>2, <1>3 DEF sort_partition
<1>5. s \in Seq(Pairs) /\ Len(s) = Len(l) /\ InOrder(s)  BY QsortIs
<1>6. PICK t \in Tables : /\ t = IndexTable(s) /\ t.sorted
                          /\ t.num_keys = Cardinality(Keys(s))
                          /\ Len(t.start) = Cardinality(Starts(s))
                          /\ \A k \in 1 .. Cardinality(Starts(s)) : t.start[k] \in 1 .. Len(s)
  BY <1>5, IndexTableIs
<1>7. /\ key' = [key EXCEPT ![r] = 1]
      /\ rpc' = [rpc EXCEPT ![r] = IF p > 0 THEN "wait" ELSE "reduce"]
      /\ UNCHANGED <<work, main, arg_next, mpc, rest, size, sent_flag,
                     cur_reduce_partition, part, calls, values, fault>>
  BY <1>2 DEF sort_partition
<1>8. /\ \A u \in Parts : /\ list'[u] = IF u = p THEN s ELSE list[u]
                          /\ table'[u] = IF u = p THEN t ELSE table[u]
      /\ \A v \in Reducers : v # r => rpc'[v] = rpc[v] /\ key'[v] = key[v]
      /\ rpc'[r] = (IF p > 0 THEN "wait" ELSE "reduce") /\ key'[r] = 1
  BY <1>4, <1>6, <1>7 DEF IInv, TypeOK
<1>9. TypeOK'
  <2>1. list' \in [Parts -> Seq(Pairs)] /\ table' \in [Parts -> Tables]
    BY <1>4, <1>5, <1>6 DEF IInv, TypeOK
  <2>2. rpc' \in [Reducers -> Rpcs] /\ key' \in [Reducers -> Nat]
    BY <1>7 DEF IInv, TypeOK, Rpcs
  <2>3. QED  BY <1>7, <2>1, <2>2 DEF IInv, TypeOK
<1>10. PhaseInv'  BY <1>1, <1>7 DEF IInv, PhaseInv
<1>11. SizeInv'
  BY <1>3, <1>5, <1>7, <1>8 DEF IInv, SizeInv
<1>12. \A v \in Reducers : v # r => part[v] # p
  <2>1. p # -1  BY Consts
  <2>2. QED  BY <1>2, <2>1 DEF IInv, PartInv
<1>13. PartInv'
  <2>1. p < cur_reduce_partition  BY <1>2 DEF IInv, PartInv
  <2>2. \A u \in Parts : table'[u].sorted => u < cur_reduce_partition
    BY <1>8, <2>1 DEF IInv, PartInv
  <2>3. \A v \in Reducers :
           /\ rpc'[v] \in {"sort", "wait", "reduce", "get"} => part[v] # -1
           /\ rpc'[v] = "wait" => part[v] # 0
    BY <1>1, <1>2, <1>8, Consts DEF IInv, PartInv
  <2>4. \A v \in Reducers : v # r /\ part[v] # -1 => table'[part[v]] = table[part[v]]
    BY <1>8, <1>12 DEF IInv, TypeOK
  <2>5. \A v \in Reducers :
           /\ rpc'[v] = "sort" => ~table'[part[v]].sorted
           /\ rpc'[v] \in {"wait", "reduce", "get"} => table'[part[v]].sorted
    BY <1>2, <1>6, <1>8, <2>4 DEF IInv, PartInv
  <2>6. QED  BY <1>7, <2>2, <2>3, <2>5 DEF IInv, PartInv
<1>14. IndexInv'
  <2> SUFFICES ASSUME NEW u \in Parts, table'[u].sorted
               PROVE  /\ InOrder(list'[u])
                      /\ table'[u].num_keys = Cardinality(Keys(list'[u]))
                      /\ Len(table'[u].start) = Cardinality(Starts(list'[u]))
                      /\ \A k \in 1 .. Len(table'[u].start) :
                           table'[u].start[k] \in 1 .. Len(list'[u])
    BY DEF IndexInv, InOrder, Keys, Starts
  <2>1. CASE u = p
    <3>1. list'[u] = s /\ table'[u] = t  BY <1>8, <2>1
    <3>2. QED  BY <1>5, <1>6, <3>1
  <2>2. CASE u # p
    <3>1. list'[u] = list[u] /\ table'[u] = table[u]  BY <1>8, <2>2
    <3>2. QED  BY <3>1 DEF IInv, IndexInv
  <2>3. QED  BY <2>1, <2>2
<1>15. LoopInv'
  <2> SUFFICES ASSUME NEW v \in Reducers, rpc'[v] \in {"wait", "reduce", "get"}
               PROVE  /\ key'[v] > 0
                      /\ table'[part[v]].num_keys > 0 => key'[v] <= table'[part[v]].num_keys
                      /\ rpc'[v] = "get" =>
                           table'[part[v]].num_keys > 0 /\ calls[part[v]] # <<>>
    BY <1>7 DEF LoopInv
  <2>1. CASE v = r
    <3>1. t.num_keys \in Nat  BY DEF Tables
    <3>2. QED  BY <1>2, <1>8, <2>1, <3>1
  <2>2. CASE v # r
    <3>1. rpc'[v] = rpc[v] /\ key'[v] = key[v] /\ part[v] \in Parts
      BY <1>8, <2>2 DEF IInv, TypeOK, PartInv
    <3>2. table'[part[v]] = table[part[v]]  BY <1>8, <1>12, <2>2, <3>1
    <3>3. QED  BY <3>1, <3>2 DEF IInv, LoopInv
  <2>3. QED  BY <2>1, <2>2
<1>16. SentInv'
  <2>1. ~table[p].sorted  BY <1>1, <1>2 DEF IInv, PartInv
  <2>2. \A u \in Parts : Begun(u) => Begun(u)'
    BY <1>7, <1>8, <2>1 DEF Begun
  <2>3. \A u \in Parts : ~(u < 0)  BY Consts
  <2>4. \A v \in Reducers : rpc'[v] \in {"reduce", "get"} =>
           \A u \in Parts : u < part[v] => Begun(u)
    <3> SUFFICES ASSUME NEW v \in Reducers, rpc'[v] \in {"reduce", "get"},
                        NEW u \in Parts, u < part[v]
                 PROVE  Begun(u)
      OBVIOUS
    <3>1. CASE v = r
      <4>1. ~(p > 0) /\ p \in Nat /\ u \in Nat  BY <1>8, <3>1, Consts
      <4>2. QED  BY <1>2, <3>1, <4>1
    <3>2. CASE v # r
      BY <1>1, <1>8, <3>2 DEF IInv, SentInv
    <3>3. QED  BY <3>1, <3>2
  <2>5. \A u \in Parts : sent_flag[u] > 0 => \A w \in Parts : w <= u => Begun(w)
    BY <1>1 DEF IInv, SentInv
  <2>6. QED  BY <1>7, <2>2, <2>4, <2>5 DEF SentInv
<1>17. FaultOnlyOneKey'  BY <1>7 DEF FaultOnlyOneKey
<1>18. QED  BY <1>9, <1>10, <1>11, <1>13, <1>14, <1>15, <1>16, <1>17 DEF IInv

(* The reducers' steps that leave lists, tables and partitions alone. *)
LEMMA ReducerFrame ==
  ASSUME IInv, ~fault, main = "reduce", NEW r \in Reducers,
         rpc[r] \in {"wait", "reduce", "get"},
         UNCHANGED <<work, main, mapVars, table, cur_reduce_partition, part>>,
         rpc' \in [Reducers -> Rpcs], rpc'[r] \in {"reduce", "get", "assign"},
         \A v \in Reducers : v # r => rpc'[v] = rpc[v]
  PROVE  PhaseInv' /\ SizeInv' /\ PartInv' /\ IndexInv'
<1>1. PhaseInv'  BY DEF IInv, PhaseInv, mapVars
<1>2. SizeInv' /\ IndexInv'  BY DEF IInv, SizeInv, IndexInv, mapVars
<1>3. PartInv'
  <2>1. part[r] # -1 /\ table[part[r]].sorted  BY DEF IInv, PartInv
  <2>2. \A v \in Reducers :
           /\ rpc'[v] \in {"sort", "wait", "reduce", "get"} => part[v] # -1
           /\ rpc'[v] = "sort" => ~table[part[v]].sorted
           /\ rpc'[v] = "wait" => part[v] # 0
           /\ rpc'[v] \in {"wait", "reduce", "get"} => table[part[v]].sorted
    BY <2>1 DEF IInv, PartInv
  <2>3. QED  BY <2>2 DEF IInv, PartInv
<1>4. QED  BY <1>1, <1>2, <1>3

LEMMA WaitSentStep ==
  ASSUME IInv, ~fault, NEW r \in Reducers, WaitSent(r)
  PROVE  IInv'
<1>1. main = "reduce" /\ rpc[r] = "wait"  BY Reducing DEF WaitSent
<1>2. PICK p \in Parts : p = part[r] - 1
  <2>1. part[r] \in Parts /\ part[r] # 0  BY <1>1 DEF IInv, TypeOK, PartInv
  <2>2. part[r] - 1 \in Parts  BY <2>1, Consts
  <2>3. QED  BY <2>2
<1>3. /\ sent_flag[p] > 0 /\ sent_flag' = [sent_flag EXCEPT ![p] = sent_flag[p] - 1]
      /\ rpc' = [rpc EXCEPT ![r] = "reduce"]
      /\ UNCHANGED <<work, main, mapVars, table, cur_reduce_partition, part, key,
                     calls, values, fault>>
  BY <1>2 DEF WaitSent, Sent
<1>4. sent_flag[p] \in Nat /\ part[r] \in Int
  <2>1. sent_flag \in [Parts -> Nat] /\ part[r] \in Parts  BY <1>1 DEF IInv, TypeOK, PartInv
  <2>2. QED  BY <2>1, Consts
<1>5. TypeOK'
  <2>1. sent_flag[p] - 1 \in Nat  BY <1>3, <1>4
  <2>2. sent_flag' \in [Parts -> Nat]  BY <1>3, <2>1 DEF IInv, TypeOK
  <2>3. rpc' \in [Reducers -> Rpcs]  BY <1>3 DEF IInv, TypeOK, Rpcs
  <2>4. QED  BY <1>3, <2>2, <2>3 DEF IInv, TypeOK, mapVars
<1>6. rpc'[r] = "reduce" /\ \A v \in Reducers : v # r => rpc'[v] = rpc[v]
  BY <1>3 DEF IInv, TypeOK
<1>7. PhaseInv' /\ SizeInv' /\ PartInv' /\ IndexInv'
  <2>1. rpc' \in [Reducers -> Rpcs]  BY <1>5 DEF TypeOK
  <2>2. QED  BY <1>1, <1>3, <1>6, <2>1, ReducerFrame
<1>8. LoopInv'
  BY <1>1, <1>3, <1>6 DEF IInv, LoopInv
<1>9. SentInv'
  <2>1. \A u \in Parts : sent_flag'[u] > 0 => sent_flag[u] > 0
    BY <1>3, <1>4 DEF IInv, TypeOK
  <2>2. \A u \in Parts : u < part[r] => Begun(u)
    <3>1. \A u \in Parts : u \in Nat  BY Consts
    <3>2. \A u \in Parts : u < part[r] => u <= p  BY <1>2, <1>4, <3>1
    <3>3. QED  BY <1>1, <1>3, <3>2 DEF IInv, SentInv
  <2>3. \A u \in Parts : Begun(u)' <=> Begun(u)  BY <1>3 DEF Begun
  <2>4. QED  BY <1>1, <1>3, <1>6, <2>1, <2>2, <2>3 DEF IInv, SentInv
<1>10. FaultOnlyOneKey'  BY <1>3 DEF FaultOnlyOneKey
<1>11. QED  BY <1>5, <1>7, <1>8, <1>9, <1>10 DEF IInv

(* sem_post() by a reducer whose partition has begun. *)
LEMMA Posted ==
  ASSUME IInv, main = "reduce", NEW r \in Reducers, rpc[r] \in {"reduce", "get"},
         NEW p \in Parts, p = part[r], Begun(p),
         sent_flag' = [sent_flag EXCEPT ![p] = @ + 1],
         UNCHANGED <<main, table, part, calls>>,
         rpc'[r] \in {"reduce", "assign"}, \A v \in Reducers : v # r => rpc'[v] = rpc[v]
  PROVE  SentInv'
<1>1. \A u \in Parts : u < p => Begun(u)  BY DEF IInv, SentInv
<1>2. \A u \in Parts : u <= p => Begun(u)
  <2>1. \A u \in Parts : u <= p => u < p \/ u = p  BY Consts
  <2>2. QED  BY <1>1, <2>1
<1>3. \A u \in Parts : u # p => sent_flag'[u] = sent_flag[u]  BY DEF IInv, TypeOK
<1>4. \A u \in Parts : Begun(u)' <=> Begun(u)  BY DEF Begun
<1>5. \A u \in Parts : sent_flag'[u] > 0 => \A w \in Parts : w <= u => Begun(w)
  BY <1>2, <1>3 DEF IInv, SentInv
<1>6. \A v \in Reducers : rpc'[v] \in {"reduce", "get"} =>
         \A u \in Parts : u < part[v] => Begun(u)
  BY <1>1 DEF IInv, SentInv
<1>7. QED  BY <1>4, <1>5, <1>6 DEF SentInv

LEMMA ReduceEmptyStep ==
  ASSUME IInv, ~fault, NEW r \in Reducers, ReduceEmpty(r)
  PROVE  IInv'
<1>1. main = "reduce" /\ rpc[r] = "reduce"  BY Reducing DEF ReduceEmpty
<1>2. PICK p \in Parts : p = part[r]  BY <1>1 DEF IInv, TypeOK, PartInv
<1>3. /\ table[p].num_keys = 0 /\ sent_flag' = [sent_flag EXCEPT ![p] = @ + 1]
      /\ rpc' = [rpc EXCEPT ![r] = "assign"]
      /\ UNCHANGED <<work, main, mapVars, table, cur_reduce_partition, part, key,
                     calls, values, fault>>
  BY <1>2 DEF ReduceEmpty
<1>4. TypeOK'  BY <1>3 DEF IInv, TypeOK, Rpcs, mapVars
<1>5. rpc'[r] = "assign" /\ \A v \in Reducers : v # r => rpc'[v] = rpc[v]
  BY <1>3 DEF IInv, TypeOK
<1>6. PhaseInv' /\ SizeInv' /\ PartInv' /\ IndexInv'
  <2>1. rpc' \in [Reducers -> Rpcs]  BY <1>4 DEF TypeOK
  <2>2. QED  BY <1>1, <1>3, <1>5, <2>1, ReducerFrame
<1>7. LoopInv'  BY <1>3, <1>5 DEF IInv, LoopInv
<1>8. SentInv'
  <2>1. Begun(p)  BY <1>1, <1>2, <1>3 DEF IInv, PartInv, Begun
  <2>2. QED  BY <1>1, <1>2, <1>3, <1>5, <2>1, Posted
<1>9. FaultOnlyOneKey'  BY <1>3 DEF FaultOnlyOneKey
<1>10. QED  BY <1>4, <1>6, <1>7, <1>8, <1>9 DEF IInv

(* A key without a start index is the only key of its partition. *)
LEMMA ReduceKeyStep ==
  ASSUME IInv, ~fault, NEW r \in Reducers, ReduceKey(r)
  PROVE  IInv'
<1>1. main = "reduce" /\ rpc[r] = "reduce"  BY Reducing DEF ReduceKey
<1>2. PICK p \in Parts : p = part[r]  BY <1>1 DEF IInv, TypeOK, PartInv
<1>3. PICK t \in Tables : t = table[p]  BY DEF IInv, TypeOK
<1>4. PICK l \in Seq(Pairs) : l = list[p]  BY DEF IInv, TypeOK
<1>5. PICK k \in Nat : k = key[r]  BY DEF IInv, TypeOK
<1>6. t.sorted  BY <1>1, <1>2, <1>3 DEF IInv, PartInv
<1>7. /\ InOrder(l) /\ t.num_keys = Cardinality(Keys(l))
      /\ Len(t.start) = Cardinality(Starts(l))
      /\ \A i \in 1 .. Len(t.start) : t.start[i] \in 1 .. Len(l)
  BY <1>3, <1>4, <1>6 DEF IInv, IndexInv
<1>8. t.num_keys > 0 /\ k > 0 /\ k <= t.num_keys
  <2>1. t.num_keys > 0  BY <1>2, <1>3 DEF ReduceKey
  <2>2. QED  BY <1>1, <1>2, <1>3, <1>5, <2>1 DEF IInv, LoopInv
<1>9. UNCHANGED <<work, main, mapVars, table, sent_flag, cur_reduce_partition, part, key, values>>
  BY DEF ReduceKey
<1>10. Len(t.start) \in Nat /\ t.num_keys \in Nat  BY LenProperties DEF Tables
<1>11. CASE k > Len(t.start)
  <2>1. fault' = TRUE /\ UNCHANGED <<calls, rpc>>
    BY <1>2, <1>3, <1>5, <1>11 DEF ReduceKey
  <2>2. Cardinality(Keys(l)) = 1
    <3>1. Cardinality(Starts(l)) # Cardinality(Keys(l))  BY <1>7, <1>8, <1>10, <1>11
    <3>2. QED  BY <1>7, <3>1, StartsAndKeys
  <2>3. FaultOnlyOneKey'
    <3>1. list' = list /\ part' = part /\ rpc' = rpc  BY <1>9, <2>1 DEF mapVars
    <3>2. list[part[r]] = l  BY <1>2, <1>4
    <3>3. QED  BY <1>1, <2>2, <3>1, <3>2 DEF FaultOnlyOneKey
  <2>4. TypeOK'  BY <1>9, <2>1 DEF IInv, TypeOK, mapVars
  <2>5. PhaseInv' /\ SizeInv' /\ PartInv' /\ IndexInv'
    <3>1. PhaseInv' /\ SizeInv' /\ IndexInv'
      BY <1>9, <2>1 DEF IInv, PhaseInv, SizeInv, IndexInv, mapVars
    <3>2. PartInv'  BY <1>9, <2>1 DEF IInv, PartInv
    <3>3. QED  BY <3>1, <3>2
  <2>6. LoopInv'  BY <1>9, <2>1 DEF IInv, LoopInv
  <2>7. SentInv'  BY <1>9, <2>1 DEF IInv, SentInv, Begun
  <2>8. QED  BY <2>3, <2>4, <2>5, <2>6, <2>7 DEF IInv
<1>12. CASE ~(k > Len(t.start))
  <2>1. PICK x \in Nat : x = l[t.start[k]].key
    <3>1. k \in 1 .. Len(t.start)  BY <1>5, <1>8, <1>10, <1>12
    <3>2. t.start[k] \in 1 .. Len(l)  BY <1>7, <3>1
    <3>3. l[t.start[k]] \in Pairs  BY <3>2, ElementOfSeq
    <3>4. QED  BY <3>3, Consts
  <2>2. PICK h \in Seq(Nat) : h = calls[p]  BY DEF IInv, TypeOK
  <2>3. /\ calls' = [calls EXCEPT ![p] = Append(h, x)]
        /\ rpc' = [rpc EXCEPT ![r] = "get"] /\ fault' = fault
    BY <1>2, <1>3, <1>4, <1>5, <1>12, <2>1, <2>2 DEF ReduceKey
  <2>4. Append(h, x) \in Seq(Nat) /\ Append(h, x) # <<>>  BY AppendProperties
  <2>5. TypeOK'  BY <1>9, <2>3, <2>4 DEF IInv, TypeOK, mapVars, Rpcs
  <2>6. /\ rpc'[r] = "get" /\ \A v \in Reducers : v # r => rpc'[v] = rpc[v]
        /\ calls'[p] # <<>> /\ \A u \in Parts : u # p => calls'[u] = calls[u]
    BY <2>3, <2>4 DEF IInv, TypeOK
  <2>7. PhaseInv' /\ SizeInv' /\ PartInv' /\ IndexInv'
    <3>1. rpc' \in [Reducers -> Rpcs]  BY <2>5 DEF TypeOK
    <3>2. QED  BY <1>1, <1>9, <2>6, <3>1, ReducerFrame
  <2>8. LoopInv'
    <3> SUFFICES ASSUME NEW v \in Reducers, rpc'[v] \in {"wait", "reduce", "get"}
                 PROVE  /\ key[v] > 0
                        /\ table[part[v]].num_keys > 0 => key[v] <= table[part[v]].num_keys
                        /\ rpc'[v] = "get" =>
                             table[part[v]].num_keys > 0 /\ calls'[part[v]] # <<>>
      BY <1>9 DEF LoopInv
    <3>1. CASE v = r  BY <1>2, <1>3, <1>5, <1>8, <2>6, <3>1
    <3>2. CASE v # r
      <4>1. rpc'[v] = rpc[v] /\ part[v] \in Parts  BY <2>6, <3>2 DEF IInv, TypeOK, PartInv
      <4>2. calls[part[v]] # <<>> => calls'[part[v]] # <<>>  BY <2>6, <4>1
      <4>3. QED  BY <4>1, <4>2 DEF IInv, LoopInv
    <3>3. QED  BY <3>1, <3>2
  <2>9. SentInv'
    <3>1. \A u \in Parts : Begun(u) => Begun(u)'  BY <1>9, <2>6 DEF Begun
    <3>2. \A v \in Reducers : rpc'[v] \in {"reduce", "get"} => rpc[v] \in {"reduce", "get"}
      BY <1>1, <2>6
    <3>3. QED  BY <1>1, <1>9, <3>1, <3>2 DEF IInv, SentInv
  <2>10. FaultOnlyOneKey'  BY <2>3 DEF FaultOnlyOneKey
  <2>11. QED  BY <2>5, <2>7, <2>8, <2>9, <2>10 DEF IInv
<1>13. QED  BY <1>11, <1>12

LEMMA GetStep ==
  ASSUME IInv, ~fault, NEW r \in Reducers, Get(r)
  PROVE  IInv'
<1>1. main = "reduce" /\ rpc[r] = "get"  BY Reducing DEF Get
<1>2. PICK p \in Parts : p = part[r]  BY <1>1 DEF IInv, TypeOK, PartInv
<1>3. PICK t \in Tables : t = table[p]  BY DEF IInv, TypeOK
<1>4. PICK c : c = [t.cur EXCEPT ![key[r]] = @ + 1]  OBVIOUS
<1>5. c \in Seq(Nat)
  <2>1. PICK d \in Seq(Nat) : d = t.cur  BY DEF Tables
  <2>2. d \in [1 .. Len(d) -> Nat] /\ Len(d) \in Nat  BY LenProperties
  <2>3. c \in [1 .. Len(d) -> Nat]
    <3>1. PICK k : k = key[r]  OBVIOUS
    <3>2. PICK n \in Nat : n = Len(d)  BY <2>2
    <3>3. c = [i \in 1 .. n |-> IF i = k THEN d[i] + 1 ELSE d[i]]
      BY <1>4, <2>1, <2>2, <3>1, <3>2
    <3>4. \A i \in 1 .. n : d[i] \in Nat /\ d[i] + 1 \in Nat  BY <2>2, <3>2
    <3>5. QED  BY <3>2, <3>3, <3>4
  <2>4. QED  BY <2>2, <2>3, FunIsSeq
<1>6. /\ table' = [table EXCEPT ![p] = [t EXCEPT !.cur = c]]
      /\ UNCHANGED <<work, main, mapVars, sent_flag, cur_reduce_partition, rpc,
                     part, key, calls, fault>>
  BY <1>2, <1>3, <1>4 DEF Get
<1>7. \A u \in Parts : /\ table'[u].sorted = table[u].sorted
                       /\ table'[u].num_keys = table[u].num_keys
                       /\ table'[u].start = table[u].start
  BY <1>3, <1>6 DEF IInv, TypeOK, Tables
<1>8. TypeOK'
  <2>1. [t EXCEPT !.cur = c] \in Tables  BY <1>5 DEF Tables
  <2>2. table' \in [Parts -> Tables]  BY <1>6, <2>1 DEF IInv, TypeOK
  <2>3. QED  BY <1>6, <2>2 DEF IInv, TypeOK, mapVars
<1>9. PhaseInv' /\ SizeInv'  BY <1>1, <1>6 DEF IInv, PhaseInv, SizeInv, mapVars
<1>10. \A v \in Reducers : part[v] # -1 => part[v] \in Parts  BY DEF IInv, TypeOK
<1>11. PartInv'
  <2>1. \A v \in Reducers :
           /\ rpc[v] = "sort" => ~table'[part[v]].sorted
           /\ rpc[v] \in {"wait", "reduce", "get"} => table'[part[v]].sorted
    BY <1>7, <1>10 DEF IInv, PartInv
  <2>2. QED  BY <1>6, <1>7, <2>1 DEF IInv, PartInv
<1>12. IndexInv'
  BY <1>6, <1>7 DEF IInv, IndexInv, mapVars
<1>13. LoopInv'
  <2>1. \A v \in Reducers : rpc[v] \in {"wait", "reduce", "get"} =>
           table'[part[v]].num_keys = table[part[v]].num_keys
    BY <1>7, <1>10 DEF IInv, PartInv
  <2>2. QED  BY <1>6, <2>1 DEF IInv, LoopInv
<1>14. SentInv'
  <2>1. \A u \in Parts : Begun(u) => Begun(u)'  BY <1>6, <1>7 DEF Begun
  <2>2. QED  BY <1>1, <1>6, <2>1 DEF IInv, SentInv
<1>15. FaultOnlyOneKey'  BY <1>6 DEF FaultOnlyOneKey
<1>16. QED  BY <1>8, <1>9, <1>11, <1>12, <1>13, <1>14, <1>15 DEF IInv

LEMMA ReduceDoneStep ==
  ASSUME IInv, ~fault, NEW r \in Reducers, ReduceDone(r)
  PROVE  IInv'
<1>1. main = "reduce" /\ rpc[r] = "get"  BY Reducing DEF ReduceDone
<1>2. PICK p \in Parts : p = part[r]  BY <1>1 DEF IInv, TypeOK, PartInv
<1>3. PICK n \in Nat : n = table[p].num_keys  BY DEF IInv, TypeOK, Tables
<1>4. PICK k \in Nat : k = key[r]  BY DEF IInv, TypeOK
<1>5. /\ rpc' = [rpc EXCEPT ![r] = IF k < n THEN "reduce" ELSE "assign"]
      /\ sent_flag' = [sent_flag EXCEPT ![p] = @ + 1]
      /\ key' = [key EXCEPT ![r] = k + 1]
      /\ UNCHANGED <<work, main, mapVars, table, cur_reduce_partition, part, calls,
                     values, fault>>
  BY <1>2, <1>3, <1>4 DEF ReduceDone
<1>6. TypeOK'  BY <1>5 DEF IInv, TypeOK, Rpcs, mapVars
<1>7. /\ rpc'[r] = (IF k < n THEN "reduce" ELSE "assign") /\ key'[r] = k + 1
      /\ \A v \in Reducers : v # r => rpc'[v] = rpc[v] /\ key'[v] = key[v]
  BY <1>5 DEF IInv, TypeOK
<1>8. PhaseInv' /\ SizeInv' /\ PartInv' /\ IndexInv'
  <2>1. rpc' \in [Reducers -> Rpcs]  BY <1>6 DEF TypeOK
  <2>2. QED  BY <1>1, <1>5, <1>7, <2>1, ReducerFrame
<1>9. LoopInv'
  <2>1. rpc'[r] = "reduce" => k + 1 > 0 /\ k + 1 <= n  BY <1>7
  <2>2. rpc'[r] \in {"wait", "reduce", "get"} => rpc'[r] = "reduce"  BY <1>7
  <2>3. QED  BY <1>2, <1>3, <1>5, <1>7, <2>1, <2>2 DEF IInv, LoopInv
<1>10. SentInv'
  <2>1. Begun(p)  BY <1>1, <1>2 DEF IInv, LoopInv, Begun
  <2>2. QED  BY <1>1, <1>2, <1>5, <1>7, <2>1, Posted
<1>11. FaultOnlyOneKey'  BY <1>5 DEF FaultOnlyOneKey
<1>12. QED  BY <1>6, <1>8, <1>9, <1>10, <1>11 DEF IInv

-------------------------------------------------------------------------------
LEMMA NextStep ==
  ASSUME IInv, Next
  PROVE  IInv'
<1>1. ~fault  BY DEF Next
<1>2. ASSUME NEW m \in Mappers, MapperStep(m) PROVE IInv'
  BY <1>1, <1>2, TakeFileStep, EmitStep, FileDoneStep DEF MapperStep
<1>3. ASSUME NEW r \in Reducers, ReducerStep(r) PROVE IInv'
  BY <1>1, <1>3, AssignStep, SortStep, WaitSentStep, ReduceEmptyStep, ReduceKeyStep,
     GetStep, ReduceDoneStep DEF ReducerStep
<1>4. QED  BY <1>1, <1>2, <1>3, JoinMappersStep, JoinReducersStep DEF Next

(* Whatever the numbers of threads, partitions, files and pairs: the phases  *)
(* of MR_Run() do not overlap, each partition has one reducer, and what      *)
(* sort_partition() recorded of a partition stays true of it.                *)
THEOREM MapReduceInvariant == Spec => []IInv
<1>1. IInv /\ [Next]_vars => IInv'
  <2> SUFFICES ASSUME IInv, [Next]_vars PROVE IInv'
    OBVIOUS
  <2>1. CASE Next  BY <2>1, NextStep
  <2>2. CASE UNCHANGED vars
    <3> USE <2>2 DEF vars, mapVars, reduceVars
    <3>1. TypeOK' /\ PhaseInv' /\ SizeInv'  BY DEF IInv, TypeOK, PhaseInv, SizeInv
    <3>2. PartInv'  BY DEF IInv, PartInv
    <3>3. IndexInv' /\ LoopInv'  BY DEF IInv, IndexInv, LoopInv
    <3>4. SentInv' /\ FaultOnlyOneKey'  BY DEF IInv, SentInv, Begun, FaultOnlyOneKey
    <3>5. QED  BY <3>1, <3>2, <3>3, <3>4 DEF IInv
  <2>3. QED  BY <2>1, <2>2
<1>2. QED  BY <1>1, InitHolds, PTL DEF Spec

(* The only bad pointer that MR_Emit() and reduce_controller() can follow    *)
(* is in a partition with pairs of exactly one key, at the reducer that has  *)
(* that partition.                                                           *)
THEOREM OnlyOneKeyFaults == Spec => []FaultOnlyOneKey
<1>1. IInv => FaultOnlyOneKey  BY DEF IInv
<1>2. QED  BY <1>1, MapReduceInvariant, PTL

(* The semaphores of reduce_controller() do what its comment says: one       *)
(* reducer per partition, and no partition begins before those below it.     *)
THEOREM SentInOrder == Spec => []SentToOneInOrder
<1>1. IInv => SentToOneInOrder
  <2> SUFFICES ASSUME IInv PROVE SentToOneInOrder
    OBVIOUS
  <2>1. \A r, s \in Reducers : r # s /\ part[r] = part[s] => part[r] = -1
    BY DEF IInv, PartInv
  <2>2. ASSUME NEW r \in Reducers, NEW p \in Parts, rpc[r] \in {"reduce", "get"}, p < part[r]
        PROVE  Begun(p)
    <3>1. main = "reduce"  BY <2>2, Reducing
    <3>2. QED  BY <2>2, <3>1 DEF IInv, SentInv
  <2>3. QED  BY <2>1, <2>2 DEF SentToOneInOrder, Begun
<1>2. QED  BY <1>1, MapReduceInvariant, PTL

(* Once sort_partition() has indexed a partition, neither a late MR_Emit()   *)
(* nor another reducer's sort changes it until MR_Run() frees it.            *)
THEOREM SortedIsFrozen == Spec => Frozen
<1>1. IInv /\ [Next]_vars =>
        [\A p \in Parts : table[p].sorted /\ main' # "done" => list'[p] = list[p]]_vars
  <2> SUFFICES ASSUME IInv, Next, NEW p \in Parts, table[p].sorted, main' # "done"
               PROVE  list'[p] = list[p]
    OBVIOUS
  <2>1. ASSUME list' = list PROVE list'[p] = list[p]  BY <2>1
  <2>2. ASSUME NEW m \in Mappers, MapperStep(m) PROVE list'[p] = list[p]
    <3>1. mpc[m] # "done"  BY <2>2 DEF MapperStep, TakeFile, MR_Emit, FileDone
    <3>2. main = "map"  BY <3>1, Mapping
    <3>3. QED  BY <3>2 DEF IInv, PhaseInv
  <2>3. ASSUME NEW r \in Reducers, ReducerStep(r) PROVE list'[p] = list[p]
    <3>1. CASE sort_partition(r)
      <4>1. part[r] # p  BY <3>1 DEF sort_partition, IInv, PartInv
      <4>2. PICK s : list' = [list EXCEPT ![part[r]] = s]  BY <3>1 DEF sort_partition
      <4>3. QED  BY <4>1, <4>2 DEF IInv, TypeOK
    <3>2. CASE ~sort_partition(r)
      BY <2>1, <2>3, <3>2 DEF ReducerStep, Assign, WaitSent, ReduceEmpty, ReduceKey, Get,
         ReduceDone, mapVars
    <3>3. QED  BY <3>1, <3>2
  <2>4. ASSUME JoinMappers PROVE list'[p] = list[p]
    BY <2>1, <2>4 DEF JoinMappers, mapVars
  <2>5. ASSUME JoinReducers PROVE FALSE  BY <2>5 DEF JoinReducers
  <2>6. QED  BY <2>2, <2>3, <2>4, <2>5 DEF Next
<1>2. QED  BY <1>1, MapReduceInvariant, PTL DEF Spec, Frozen
===============================================================================
