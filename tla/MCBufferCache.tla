----------------------------- MODULE MCBufferCache -----------------------------
(* A small instance of BufferCache: processes, contents and the blocks of one kind *)
(* are interchangeable.                                                            *)
EXTENDS BufferCache, TLC

Symmetry == Permutations(Procs) \cup Permutations(OtherBlocks) \cup Permutations(Data)
===============================================================================
