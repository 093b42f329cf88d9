------------------------------ MODULE MCMapReduce ------------------------------
(* Small instances of MapReduce for TLC: the files MR_Run is called with, and *)
(* the partition each key goes to.                                            *)
EXTENDS MapReduce

(* File f emits the keys ks, each with a value that tells the pairs apart. *)
File(f, ks) == [i \in 1..Len(ks) |-> [key |-> ks[i], value |-> <<f, i>>]]

Files(kss) == [f \in 1..Len(kss) |-> File(f, kss[f])]

MCKeys == 0..7

(* "0", "012" (octal), "1", "11", "15", "3", "5" and "9", in the order of strcmp. *)
MCstrtoul == [k \in MCKeys |-> <<0, 10, 1, 11, 15, 3, 5, 9>>[k + 1]]

Sorted(kss) == [files |-> Files(kss), sorted |-> TRUE,
                part |-> [k \in MCKeys |-> MR_SortedPartition(k)]]

(* A partitioner that spreads keys as a hash would. *)
Hashed(kss) == [files |-> Files(kss), sorted |-> FALSE,
                part |-> [k \in MCKeys |-> (k + 1) % NumPartitions]]

(* Every pair of files with up to two keys and up to one, over two keys for *)
(* each of two partitions: partitions with no key, one key and two keys;    *)
(* and a few longer ones.                                                   *)
SmallKeys == {0, 3, 4, 7}

MCWorkloads ==
  {Hashed(<<a, b>>) : a \in BoundedSeq(SmallKeys, 2), b \in BoundedSeq(SmallKeys, 1)}
    \cup
  {Sorted(<< <<7, 3, 2>>, <<5, 7>> >>),
   Sorted(<< <<1, 3>>, <<1>>, <<>> >>),
   Sorted(<< <<4, 6, 0>>, <<2>> >>),
   Hashed(<< <<2, 6>>, <<2, 3, 7>> >>),
   Hashed(<< <<1, 3>>, <<1>>, <<7, 5>> >>)}
===============================================================================
