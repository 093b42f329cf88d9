------------------------------- MODULE MapReduce -------------------------------
(***************************************************************************)
(* The threads of 06_Map-Reduce/mapreduce.c: mappers that take input files *)
(* and MR_Emit pairs into partitions, reducers that take partitions, sort  *)
(* them and call the user's reducer key by key, and MR_Run that joins them.*)
(*                                                                         *)
(* A file is the sequence of pairs the user's mapper emits for it; the     *)
(* user's reducer calls the getter until it returns NULL, as the reducers  *)
(* of wordcount.c and sort.c do.  A key is its place in the order of strcmp, *)
(* and strtoul maps it to the number it spells, which is another order.    *)
(* Positions in a partition are counted from 1.                            *)
(***************************************************************************)
EXTENDS Integers, Sequences, FiniteSets, FiniteSetsExt, SequencesExt

CONSTANTS
  Mappers, Reducers,           \* threads
  NumPartitions,               \* my_num_partitions
  INIT_MAX_KV_PAIR_PARTITION,  \* initial size of a partition's list
  KEYSPACE,                    \* the numbers keys spell are below it (2^32)
  strtoul,                     \* key -> the number that strtoul(key, NULL, 0) reads
  Workloads                    \* [files, part]: what MR_Run may be called with

ASSUME MapReduceAssumption ==
  /\ NumPartitions \in Nat \ {0}
  /\ INIT_MAX_KV_PAIR_PARTITION \in Nat \ {0}
  /\ KEYSPACE \in Nat \ {0}

Parts == 0..(NumPartitions - 1)

(* The pairs a mapper may emit. *)
Pairs == UNION {UNION {ToSet(w.files[i]) : i \in 1..Len(w.files)} : w \in Workloads}

(* Mappers emit finitely many pairs, and the partitioner stays below         *)
(* num_partitions.                                                           *)
ASSUME WorkloadsAssumption ==
  /\ \A w \in Workloads : /\ w.files \in Seq(Seq(Pairs))
                          /\ \A x \in Pairs : w.part[x.key] \in Parts
  /\ \A x \in Pairs : x.key \in Nat /\ strtoul[x.key] \in 0..(KEYSPACE - 1)

VARIABLES
  work,                 \* the arguments of MR_Run
  main,                 \* which threads MR_Run is joining
  arg_next,             \* my_arg_next.idx
  mpc, rest,            \* a mapper's place, and what is left of its file
  list,                 \* kv_pair_list[0..next_to_fill) of each partition
  size,                 \* size_of_list
  table,                \* num_keys, start_idxs, end_idxs, cur_idxs, m
  sent_flag,            \* the semaphores
  cur_reduce_partition,
  rpc, part, key,       \* a reducer's place, its partition, its loop counter
  calls,                \* history: keys the user's reducer was called with
  values,               \* history: pairs the getter returned
  fault                 \* a bad pointer was followed

mapVars    == <<arg_next, mpc, rest, list, size>>
reduceVars == <<table, sent_flag, cur_reduce_partition, rpc, part, key, calls,
                values>>
vars == <<work, main, mapVars, reduceVars, fault>>

Unsorted == [num_keys |-> 0, start |-> <<>>, end |-> <<>>, cur |-> <<>>,
             sorted |-> FALSE]

Keys(l) == {l[i].key : i \in 1..Len(l)}
-------------------------------------------------------------------------------
(* A mutant: the low bits of the number choose the partition. *)
MR_LowBitsPartition(k) == strtoul[k] % NumPartitions

(* (key_num * num_partitions) >> 32 *)
MR_SortedPartition(k) == (strtoul[k] * NumPartitions) \div KEYSPACE

(* What qsort() may make of a list: pairs of one key in any order. *)
Qsort(l) ==
  {s \in {[i \in 1..Len(l) |-> l[f[i]]] : f \in Bijection(1..Len(l), 1..Len(l))} :
     \A i \in 1..(Len(l) - 1) : s[i].key <= s[i + 1].key}

(* A mutant: key_tmp holds the first key when the second loop begins. *)
StartsSkipFirst(l) == {i \in 2..Len(l) : l[i].key # l[i - 1].key}

(* Where the second loop of sort_partition() starts a key.  key_tmp still   *)
(* holds the last key of the first loop when it compares the first pair.    *)
Starts(l) ==
  {i \in 1..Len(l) : l[i].key # l[IF i = 1 THEN Len(l) ELSE i - 1].key}

(* A mutant: the last key of a partition ends one pair early. *)
EndsEarly(l, start) ==
  [k \in 1..Len(start) |-> IF k < Len(start) THEN start[k + 1] ELSE Len(l)]

(* end_idxs: a key ends where the next one starts, the last with the list. *)
Ends(l, start) ==
  [k \in 1..Len(start) |-> IF k < Len(start) THEN start[k + 1] ELSE Len(l) + 1]

(* start_idxs: the second loop meets the starts one after the other. *)
StartIdxs(l) ==
  [k \in 1..Cardinality(Starts(l)) |->
     CHOOSE i \in Starts(l) : Cardinality({j \in Starts(l) : j < i}) = k - 1]

(* The arrays sort_partition() fills; entries it leaves uninitialised are   *)
(* missing here.                                                            *)
IndexTable(l) ==
  LET start == StartIdxs(l)
  IN [num_keys |-> Cardinality(Keys(l)),
      start    |-> start,
      end      |-> Ends(l, start),
      cur      |-> start,
      sorted   |-> TRUE]
-------------------------------------------------------------------------------
Init ==
  /\ work \in Workloads
  /\ main = "map"
  /\ arg_next = 0
  /\ mpc = [m \in Mappers |-> "take"]
  /\ rest = [m \in Mappers |-> <<>>]
  /\ list = [p \in Parts |-> <<>>]
  /\ size = [p \in Parts |-> INIT_MAX_KV_PAIR_PARTITION]
  /\ table = [p \in Parts |-> Unsorted]
  /\ sent_flag = [p \in Parts |-> 0]
  /\ cur_reduce_partition = 0
  /\ rpc = [r \in Reducers |-> "unborn"]
  /\ part = [r \in Reducers |-> -1]
  /\ key = [r \in Reducers |-> 0]
  /\ calls = [p \in Parts |-> <<>>]
  /\ values = [p \in Parts |-> <<>>]
  /\ fault = FALSE

(* map_control(): take the next file under my_arg_next.lock, or stop. *)
TakeFile(m) ==
  /\ mpc[m] = "take"
  /\ arg_next' = arg_next + 1
  /\ IF arg_next >= Len(work.files)
       THEN mpc' = [mpc EXCEPT ![m] = "done"] /\ UNCHANGED rest
       ELSE /\ mpc' = [mpc EXCEPT ![m] = "map"]
            /\ rest' = [rest EXCEPT ![m] = work.files[arg_next + 1]]
  /\ UNCHANGED <<work, main, list, size, reduceVars, fault>>

(* next_to_fill == size_of_list *)
Full(p) == Len(list[p]) = size[p]

(* MR_Emit(), under the lock of the partition: grow the list if it is full, *)
(* then append; a pair written past the end of the list is a fault.         *)
MR_Emit(m) ==
  /\ mpc[m] = "map" /\ rest[m] # <<>>
  /\ LET p == work.part[Head(rest[m]).key]
     IN /\ size' = IF Full(p) THEN [size EXCEPT ![p] = @ * 2]
                               ELSE size
        /\ list' = [list EXCEPT ![p] = Append(@, Head(rest[m]))]
        /\ fault' = (fault \/ Len(list[p]) >= size'[p])
  /\ rest' = [rest EXCEPT ![m] = Tail(@)]
  /\ UNCHANGED <<work, main, arg_next, mpc, reduceVars>>

(* The user's mapper returns. *)
FileDone(m) ==
  /\ mpc[m] = "map" /\ rest[m] = <<>>
  /\ mpc' = [mpc EXCEPT ![m] = "take"]
  /\ UNCHANGED <<work, main, arg_next, rest, list, size, reduceVars, fault>>

(* A mutant: MR_Run joins one mapper only. *)
OneMapperDone == \E m \in Mappers : mpc[m] = "done"

(* Every pthread_join() of a mapper has returned. *)
MappersJoined == \A m \in Mappers : mpc[m] = "done"

(* MR_Run(): join the mappers, then create the reducers, ... *)
JoinMappers ==
  /\ main = "map"
  /\ MappersJoined
  /\ main' = "reduce"
  /\ rpc' = [r \in Reducers |-> "assign"]
  /\ UNCHANGED <<work, mapVars, table, sent_flag, cur_reduce_partition, part,
                 key, calls, values, fault>>

(* ... join them, and destruct_partition_list(). *)
JoinReducers ==
  /\ main = "reduce"
  /\ \A r \in Reducers : rpc[r] = "done"
  /\ main' = "done"
  /\ list' = [p \in Parts |-> <<>>]
  /\ table' = [p \in Parts |-> Unsorted]
  /\ UNCHANGED <<work, arg_next, mpc, rest, size, sent_flag,
                 cur_reduce_partition, rpc, part, key, calls, values, fault>>
-------------------------------------------------------------------------------
(* All partitions are assigned. *)
NoneLeft == cur_reduce_partition >= NumPartitions

(* reduce_controller(): take the next partition under cur_partition_lock. *)
Assign(r) ==
  /\ rpc[r] = "assign"
  /\ IF NoneLeft
       THEN /\ rpc' = [rpc EXCEPT ![r] = "done"]
            /\ part' = [part EXCEPT ![r] = -1]
            /\ UNCHANGED cur_reduce_partition
       ELSE /\ rpc' = [rpc EXCEPT ![r] = "sort"]
            /\ part' = [part EXCEPT ![r] = cur_reduce_partition]
            /\ cur_reduce_partition' = cur_reduce_partition + 1
  /\ UNCHANGED <<work, main, mapVars, table, sent_flag, key, calls, values, fault>>

sort_partition(r) ==
  /\ rpc[r] = "sort"
  /\ \E s \in Qsort(list[part[r]]) :
       /\ list' = [list EXCEPT ![part[r]] = s]
       /\ table' = [table EXCEPT ![part[r]] = IndexTable(s)]
  /\ key' = [key EXCEPT ![r] = 1]
  /\ rpc' = [rpc EXCEPT ![r] = IF part[r] > 0 THEN "wait" ELSE "reduce"]
  /\ UNCHANGED <<work, main, arg_next, mpc, rest, size, sent_flag,
                 cur_reduce_partition, part, calls, values, fault>>

(* A mutant: no sem_wait(). *)
NotWaited(p) == TRUE

(* sem_wait() on the sent_flag of partition p may return. *)
Sent(p) == sent_flag[p] > 0

(* sem_wait() on the sent_flag of the partition before. *)
WaitSent(r) ==
  /\ rpc[r] = "wait"
  /\ Sent(part[r] - 1)
  /\ sent_flag' = [sent_flag EXCEPT ![part[r] - 1] = @ - 1]
  /\ rpc' = [rpc EXCEPT ![r] = "reduce"]
  /\ UNCHANGED <<work, main, mapVars, table, cur_reduce_partition, part, key,
                 calls, values, fault>>

(* A mutant: no sem_post() for a partition without keys. *)
ReduceEmptyNoPost(r) ==
  /\ rpc[r] = "reduce"
  /\ table[part[r]].num_keys = 0
  /\ rpc' = [rpc EXCEPT ![r] = "assign"]
  /\ UNCHANGED <<work, main, mapVars, table, sent_flag, cur_reduce_partition, part, key,
                 calls, values, fault>>

(* A partition without keys posts its semaphore once. *)
ReduceEmpty(r) ==
  /\ rpc[r] = "reduce"
  /\ table[part[r]].num_keys = 0
  /\ sent_flag' = [sent_flag EXCEPT ![part[r]] = @ + 1]
  /\ rpc' = [rpc EXCEPT ![r] = "assign"]
  /\ UNCHANGED <<work, main, mapVars, table, cur_reduce_partition, part, key,
                 calls, values, fault>>

(* Call the user's reducer for the next key.  Without a start index the key *)
(* is read through garbage, and the map has no entry for the getter.        *)
ReduceKey(r) ==
  /\ rpc[r] = "reduce"
  /\ LET t == table[part[r]]
     IN /\ t.num_keys > 0
        /\ IF key[r] > Len(t.start)
             THEN fault' = TRUE /\ UNCHANGED <<calls, rpc>>
             ELSE /\ calls' = [calls EXCEPT ![part[r]] =
                                 Append(@, list[part[r]][t.start[key[r]]].key)]
                  /\ rpc' = [rpc EXCEPT ![r] = "get"]
                  /\ UNCHANGED fault
  /\ UNCHANGED <<work, main, mapVars, table, sent_flag, cur_reduce_partition,
                 part, key, values>>

(* The user's reducer gets a value ... *)
Get(r) ==
  /\ rpc[r] = "get"
  /\ LET t == table[part[r]]
     IN /\ t.cur[key[r]] < t.end[key[r]]
        /\ values' = [values EXCEPT ![part[r]] =
             Append(@, [key   |-> calls[part[r]][key[r]],
                        value |-> list[part[r]][t.cur[key[r]]].value])]
        /\ table' = [table EXCEPT ![part[r]].cur[key[r]] = @ + 1]
  /\ UNCHANGED <<work, main, mapVars, sent_flag, cur_reduce_partition, rpc,
                 part, key, calls, fault>>

(* ... or NULL, and returns; sem_post() after every key, on to the next. *)
ReduceDone(r) ==
  /\ rpc[r] = "get"
  /\ LET t == table[part[r]]
     IN /\ t.cur[key[r]] >= t.end[key[r]]
        /\ rpc' = [rpc EXCEPT ![r] = IF key[r] < t.num_keys THEN "reduce"
                                                            ELSE "assign"]
  /\ sent_flag' = [sent_flag EXCEPT ![part[r]] = @ + 1]
  /\ key' = [key EXCEPT ![r] = @ + 1]
  /\ UNCHANGED <<work, main, mapVars, table, cur_reduce_partition, part, calls,
                 values, fault>>
-------------------------------------------------------------------------------
MapperStep(m) == TakeFile(m) \/ MR_Emit(m) \/ FileDone(m)

ReducerStep(r) == \/ Assign(r) \/ sort_partition(r) \/ WaitSent(r)
                  \/ ReduceEmpty(r) \/ ReduceKey(r) \/ Get(r) \/ ReduceDone(r)

Next == /\ ~fault
        /\ \/ \E m \in Mappers : MapperStep(m)
           \/ \E r \in Reducers : ReducerStep(r)
           \/ JoinMappers \/ JoinReducers

Spec == Init /\ [][Next]_vars

(* The pthreads scheduler runs every thread that can run. *)
Fairness ==
  /\ \A m \in Mappers : WF_vars(~fault /\ MapperStep(m))
  /\ \A r \in Reducers : WF_vars(~fault /\ ReducerStep(r))
  /\ WF_vars(~fault /\ (JoinMappers \/ JoinReducers))

FairSpec == Spec /\ Fairness
-------------------------------------------------------------------------------
Emitted == FlattenSeq(work.files)     \* every pair the mappers emit
Count(s, x) == Cardinality({i \in 1..Len(s) : s[i] = x})

(* Mappers that emit into one partition never write past the list they grow, *)
(* and a reducer follows a bad pointer only where the partition it reduces   *)
(* got pairs of exactly one key: sort_partition() finds no index for it.     *)
FaultOnlyOneKey ==
  fault => \E r \in Reducers : rpc[r] = "reduce" /\ Cardinality(Keys(list[part[r]])) = 1

(* reduce_controller()'s comment: each partition goes to exactly one         *)
(* reducer, and partition i is sent before partition i+1 is started.         *)
SentToOneInOrder ==
  /\ \A r, s \in Reducers : r # s /\ part[r] = part[s] => part[r] = -1
  /\ \A r \in Reducers, p \in Parts :
       rpc[r] \in {"reduce", "get"} /\ p < part[r] =>
         calls[p] # <<>> \/ (table[p].sorted /\ table[p].num_keys = 0)

(* When MR_Run returns, every pair that any mapper emitted was given to the  *)
(* user's reducer exactly once, under its key, and the reducer was called    *)
(* once per key, in the order of the keys within a partition.                *)
Delivered ==
  main = "done" =>
    /\ \A x \in Pairs :
         Count(FlattenSeq([p \in 1..NumPartitions |-> values[p - 1]]), x)
           = Count(Emitted, x)
    /\ \A p \in Parts :
         /\ ToSet(calls[p]) = {k \in Keys(Emitted) : work.part[k] = p}
         /\ \A i, j \in 1..Len(calls[p]) : i < j => calls[p][i] < calls[p][j]

(* What sort.c gets from MR_SortedPartition: every number it prints for a    *)
(* partition is below every number of a later one, although strcmp, which    *)
(* orders the keys within a partition, does not order them as numbers, and   *)
(* several keys may spell one number.                                        *)
SortOutput ==
  main = "done" /\ work.sorted =>
    \A p, q \in Parts : p < q =>
      \A k \in ToSet(calls[p]), l \in ToSet(calls[q]) : strtoul[k] < strtoul[l]

(* The join between the two phases: once a partition has been sorted nobody  *)
(* adds to it or reorders it until MR_Run frees it.                          *)
Frozen == [][\A p \in Parts : table[p].sorted /\ main' # "done" =>
                                list'[p] = list[p]]_vars

(* MR_Run returns: no reducer waits for ever on the semaphore of the         *)
(* partition before, with more partitions than reducers and with empty       *)
(* partitions anywhere.                                                      *)
Terminates == <>(main = "done" \/ fault)
===============================================================================
