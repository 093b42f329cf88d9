------------------------------ MODULE FilesProofs ------------------------------
(***************************************************************************)
(* The file table and the pipes for every number of processes, descriptors,*)
(* files and pages, every pipe size and every width of the counters.       *)
(*                                                                         *)
(* Three layers, each inductive on the ones before it: the references to   *)
(* files (RefInv), the ends of the pipes (EndInv), and what is in a pipe   *)
(* and who waits for it (PipeInv).  From all three, every pipe is a        *)
(* ByteStream.                                                             *)
(***************************************************************************)
EXTENDS Files, NatSets, SequenceTheorems

HandPcs == {"pipealloc", "close", "pipeclose"}
ReadPcs == {"read", "rdoze", "rsleep"}
WritePcs == {"write", "wdoze", "wsleep"}

(* The file at position i of what p's call has in hand. *)
InHand(p, i, f) == i \in DOMAIN op[p].files /\ op[p].files[i] = f

(* What a call has in hand, and that a free slot has neither descriptors nor files. *)
HandInv ==
  /\ \A p \in Procs : Len(op[p].files) <= 2
  /\ \A p \in Procs : pc[p] \notin HandPcs => op[p].files = <<>>
  /\ \A p \in Procs : pc[p] = "unused" => \A fd \in FDs : ofile[p][fd] = 0

(* A pipe's page is known wherever it is used. *)
PageInv ==
  /\ \A f \in FileIds : ftable[f].type = "pipe" => ftable[f].pipe \in Pages
  /\ \A p \in Procs : pc[p] \in ReadPcs \cup WritePcs \cup {"pipeclose"} => op[p].pipe \in Pages

(* A file that pipealloc() has taken has no other user yet. *)
PrivateInv ==
  \A p \in Procs, i \in 1 .. 2, f \in FileIds : pc[p] = "pipealloc" /\ InHand(p, i, f) =>
    /\ ftable[f] = [FreeFile EXCEPT !.ref = 1]
    /\ \A q \in Procs, fd \in FDs : ofile[q][fd] # f
    /\ \A q \in Procs, j \in 1 .. 2 : InHand(q, j, f) => q = p /\ j = i

CountInv ==
  /\ \A f \in FileIds : ftable[f].ref = Refs(f)
  /\ \A f \in FileIds : ftable[f].ref = 0 => ftable[f] = FreeFile

RefInv == TypeOK /\ HandInv /\ PageInv /\ PrivateInv /\ CountInv
-------------------------------------------------------------------------------
(* f, and p's close half-way, have the end w of the pipe in pg. *)
FileHas(f, pg, w) == /\ ftable[f].type = "pipe" /\ ftable[f].ref > 0
                     /\ ftable[f].pipe = pg /\ ftable[f].writable = w
CloseHas(p, pg, w) == pc[p] = "pipeclose" /\ op[p].pipe = pg /\ op[p].writable = w

(* An end has one owner, and is open exactly as long as it has him; a page  *)
(* without an open end is kalloc()'s.                                       *)
OwnerInv ==
  /\ \A pg \in Pages, w \in BOOLEAN, f, g \in FileIds :
        FileHas(f, pg, w) /\ FileHas(g, pg, w) => f = g
  /\ \A pg \in Pages, w \in BOOLEAN, f \in FileIds, p \in Procs :
        ~(FileHas(f, pg, w) /\ CloseHas(p, pg, w))
  /\ \A pg \in Pages, w \in BOOLEAN, p, r \in Procs :
        CloseHas(p, pg, w) /\ CloseHas(r, pg, w) => p = r

OpenInv ==
  /\ \A pg \in Pages : pipe[pg].readopen <=> HasEnd(pg, FALSE)
  /\ \A pg \in Pages : pipe[pg].writeopen <=> HasEnd(pg, TRUE)
  /\ \A pg \in Pages : ~pipe[pg].readopen /\ ~pipe[pg].writeopen => pipe[pg] = FreePipe

(* A process inside read or write has the descriptor it was called with. *)
HoldInv ==
  \A p \in Procs, w \in BOOLEAN :
    pc[p] \in (IF w THEN WritePcs ELSE ReadPcs) =>
      \E fd \in FDs : ofile[p][fd] # 0 /\ FileHas(ofile[p][fd], op[p].pipe, w)

EndInv == OwnerInv /\ OpenInv /\ HoldInv
-------------------------------------------------------------------------------
(* A pipe never holds more than fits; whoever is about to sleep has the lock *)
(* and must wait, and so must whoever sleeps.                                *)
PipeInv ==
  /\ \A pg \in Pages : Count(pipe[pg]) <= PIPESIZE
  /\ \A p \in Procs : pc[p] \in {"rdoze", "wdoze"} => lock[op[p].pipe] = p
  /\ \A p \in Procs : pc[p] = "rdoze" => MustWaitToRead(pipe[op[p].pipe])
  /\ \A p \in Procs : pc[p] = "wdoze" =>
        Count(pipe[op[p].pipe]) = PIPESIZE /\ pipe[op[p].pipe].readopen
  /\ SleepersMustWait
-------------------------------------------------------------------------------
(* Counting references.  One process is singled out: the references of the *)
(* others are Rest(p, f), its own are its descriptors and what it has in    *)
(* hand.                                                                    *)
Bit(c) == IF c THEN 1 ELSE 0
Occ(s, f) == Bit(1 \in DOMAIN s /\ s[1] = f) + Bit(2 \in DOMAIN s /\ s[2] = f)

(* The descriptors of the table o, and the hands of the calls c, that have f. *)
Descr(o, f) == {d \in Procs \X FDs : o[d[1]][d[2]] = f}
Hand(c, f) == {h \in Procs \X (1 .. 2) : h[2] \in DOMAIN c[h[1]].files /\ c[h[1]].files[h[2]] = f}

OwnDescr(o, p, f) == {fd \in FDs : o[p][fd] = f}
RestDescr(o, p, f) == {d \in Descr(o, f) : d[1] # p}
RestHand(c, p, f) == {h \in Hand(c, f) : h[1] # p}
Rest(o, c, p, f) == Cardinality(RestDescr(o, p, f)) + Cardinality(RestHand(c, p, f))

LEMMA Finite ==
  /\ IsFiniteSet(FDs) /\ IsFiniteSet(Procs \X FDs) /\ IsFiniteSet(Procs \X (1 .. 2))
  /\ \A o, c, f : IsFiniteSet(Descr(o, f)) /\ IsFiniteSet(Hand(c, f))
  /\ \A o, c, p, f : IsFiniteSet(OwnDescr(o, p, f)) /\ IsFiniteSet(RestDescr(o, p, f)) /\ IsFiniteSet(RestHand(c, p, f))
<1>1. IsFiniteSet(FDs) /\ IsFiniteSet(1 .. 2)
  <2>1. 1 \in Int /\ 2 \in Int /\ NOFILE \in Int
    BY FilesAssumption
  <2> QED BY <2>1, FS_Interval DEF FDs
<1>2. IsFiniteSet(Procs \X FDs) /\ IsFiniteSet(Procs \X (1 .. 2))
  BY <1>1, FilesAssumption, FS_Product
<1>3. \A o, c, f : Descr(o, f) \in SUBSET (Procs \X FDs) /\ Hand(c, f) \in SUBSET (Procs \X (1 .. 2))
  BY DEF Descr, Hand
<1>4. \A o, c, f : IsFiniteSet(Descr(o, f)) /\ IsFiniteSet(Hand(c, f))
  BY <1>2, <1>3, FS_Subset
<1>5. \A o, c, p, f : /\ OwnDescr(o, p, f) \in SUBSET FDs
                /\ RestDescr(o, p, f) \in SUBSET Descr(o, f)
                /\ RestHand(c, p, f) \in SUBSET Hand(c, f)
  BY DEF OwnDescr, RestDescr, RestHand
<1>6. \A o, c, p, f : IsFiniteSet(OwnDescr(o, p, f)) /\ IsFiniteSet(RestDescr(o, p, f)) /\ IsFiniteSet(RestHand(c, p, f))
  BY <1>1, <1>4, <1>5, FS_Subset
<1> QED BY <1>1, <1>2, <1>4, <1>6

LEMMA BitAdd ==
  ASSUME NEW S, IsFiniteSet(S), NEW x, x \notin S, NEW T, T = {} \/ T = {x}
  PROVE  IsFiniteSet(S \cup T) /\ Cardinality(S \cup T) = Cardinality(S) + Bit(T # {})
<1>1. IsFiniteSet(S \cup {x}) /\ Cardinality(S \cup {x}) = Cardinality(S) + 1 /\ Cardinality(S) \in Nat
  BY FS_AddElement, FS_CardinalityType
<1>2. CASE T = {x}
  BY <1>1, <1>2 DEF Bit
<1>3. CASE T = {}
  BY <1>1, <1>3 DEF Bit
<1> QED BY <1>2, <1>3

LEMMA HandSplit ==
  ASSUME NEW c, NEW p \in Procs, NEW f
  PROVE  Cardinality(Hand(c, f)) = Cardinality(RestHand(c, p, f)) + Occ(c[p].files, f)
<1>1. PICK R : R = RestHand(c, p, f)
  OBVIOUS
<1>2. PICK T1 : T1 = {h \in {<<p, 1>>} : 1 \in DOMAIN c[p].files /\ c[p].files[1] = f}
  OBVIOUS
<1>3. PICK T2 : T2 = {h \in {<<p, 2>>} : 2 \in DOMAIN c[p].files /\ c[p].files[2] = f}
  OBVIOUS
<1>4. IsFiniteSet(R) /\ \A i : <<p, i>> \notin R
  BY <1>1, Finite DEF RestHand
<1>5. T1 = {} \/ T1 = {<<p, 1>>}
  BY <1>2
<1>6. T2 = {} \/ T2 = {<<p, 2>>}
  BY <1>3
<1>7. PICK S : S = R \cup T1
  OBVIOUS
<1>8. IsFiniteSet(S) /\ Cardinality(S) = Cardinality(R) + Bit(T1 # {})
  BY <1>4, <1>5, <1>7, BitAdd
<1>9. <<p, 2>> \notin S
  BY <1>4, <1>5, <1>7
<1>10. Cardinality(S \cup T2) = Cardinality(S) + Bit(T2 # {})
  BY <1>6, <1>8, <1>9, BitAdd
<1>11. Hand(c, f) = S \cup T2
  <2>1. \A q \in Procs, i \in 1 .. 2 : q # p => (<<q, i>> \in Hand(c, f) <=> <<q, i>> \in R)
    BY <1>1 DEF RestHand
  <2>2. <<p, 1>> \in Hand(c, f) <=> <<p, 1>> \in T1
    BY <1>2 DEF Hand
  <2>3. <<p, 2>> \in Hand(c, f) <=> <<p, 2>> \in T2
    BY <1>3 DEF Hand
  <2>4. \A i \in 1 .. 2 : i = 1 \/ i = 2
    OBVIOUS
  <2>5. \A q \in Procs, i \in 1 .. 2 :
           <<q, i>> \in Hand(c, f) <=> <<q, i>> \in R \/ <<q, i>> \in T1 \/ <<q, i>> \in T2
    BY <1>4, <1>5, <1>6, <2>1, <2>2, <2>3, <2>4
  <2>6. /\ Hand(c, f) \subseteq Procs \X (1 .. 2) /\ R \subseteq Procs \X (1 .. 2)
        /\ T1 \subseteq Procs \X (1 .. 2) /\ T2 \subseteq Procs \X (1 .. 2)
    BY <1>1, <1>5, <1>6 DEF Hand, RestHand
  <2>7. \A h \in Procs \X (1 .. 2) : \E q \in Procs, i \in 1 .. 2 : h = <<q, i>>
    OBVIOUS
  <2>8. \A h \in Procs \X (1 .. 2) : h \in Hand(c, f) <=> h \in R \/ h \in T1 \/ h \in T2
    <3> SUFFICES ASSUME NEW h \in Procs \X (1 .. 2)
                 PROVE  h \in Hand(c, f) <=> h \in R \/ h \in T1 \/ h \in T2
      OBVIOUS
    <3>1. PICK q \in Procs, i \in 1 .. 2 : h = <<q, i>>
      BY <2>7
    <3> QED BY <2>5, <3>1
  <2> QED BY <1>7, <2>6, <2>8
<1>12. Cardinality(R) \in Nat
  BY <1>4, FS_CardinalityType
<1>13. Bit(T1 # {}) = Bit(1 \in DOMAIN c[p].files /\ c[p].files[1] = f)
  BY <1>2 DEF Bit
<1>14. Bit(T2 # {}) = Bit(2 \in DOMAIN c[p].files /\ c[p].files[2] = f)
  BY <1>3 DEF Bit
<1>15. Bit(T1 # {}) \in Nat /\ Bit(T2 # {}) \in Nat
  BY DEF Bit
<1>16. Occ(c[p].files, f) = Bit(T1 # {}) + Bit(T2 # {})
  BY <1>13, <1>14 DEF Occ
<1> QED BY <1>1, <1>8, <1>10, <1>11, <1>12, <1>15, <1>16

LEMMA DescrSplit ==
  ASSUME NEW o, NEW p \in Procs, NEW f
  PROVE  Cardinality(Descr(o, f)) = Cardinality(RestDescr(o, p, f)) + Cardinality(OwnDescr(o, p, f))
<1>1. PICK R : R = RestDescr(o, p, f)
  OBVIOUS
<1>2. PICK S : S = OwnDescr(o, p, f)
  OBVIOUS
<1>3. IsFiniteSet(R) /\ IsFiniteSet(S)
  BY <1>1, <1>2, Finite
<1>4. IsFiniteSet({p}) /\ Cardinality({p}) = 1
  BY FS_Singleton
<1>5. IsFiniteSet({p} \X S) /\ Cardinality({p} \X S) = Cardinality(S)
  BY <1>3, <1>4, FS_Product, FS_CardinalityType
<1>6. R \cap ({p} \X S) = {}
  BY <1>1 DEF RestDescr
<1>7. Descr(o, f) = R \cup ({p} \X S)
  BY <1>1, <1>2 DEF RestDescr, OwnDescr, Descr
<1>8. PICK T : T = {p} \X S
  OBVIOUS
<1>9. Cardinality(R \cup T) = Cardinality(R) + Cardinality(T) - Cardinality(R \cap T)
  BY <1>3, <1>5, <1>8, FS_Union
<1>10. Cardinality(R \cap T) = 0
  BY <1>6, <1>8, FS_EmptySet
<1>11. Cardinality(R) \in Nat /\ Cardinality(S) \in Nat
  BY <1>3, FS_CardinalityType
<1> QED BY <1>1, <1>2, <1>5, <1>7, <1>8, <1>9, <1>10, <1>11

LEMMA RefsSplit ==
  ASSUME NEW o, NEW c, NEW p \in Procs, NEW f
  PROVE  /\ Rest(o, c, p, f) \in Nat /\ Cardinality(OwnDescr(o, p, f)) \in Nat
         /\ Cardinality(Descr(o, f)) + Cardinality(Hand(c, f)) =
              Rest(o, c, p, f) + Cardinality(OwnDescr(o, p, f)) + Occ(c[p].files, f)
<1>1. /\ Cardinality(RestDescr(o, p, f)) \in Nat /\ Cardinality(RestHand(c, p, f)) \in Nat
      /\ Cardinality(OwnDescr(o, p, f)) \in Nat
  BY Finite, FS_CardinalityType
<1>2. Occ(c[p].files, f) \in Nat
  BY DEF Occ, Bit
<1> QED BY <1>1, <1>2, HandSplit, DescrSplit DEF Rest

(* The references to f after a step of p, in terms of its own: those of the *)
(* others are the same.                                                     *)
LEMMA RefsStep ==
  ASSUME NEW p \in Procs, NEW f,
         \A q \in Procs \ {p} : /\ \A fd \in FDs : ofile'[q][fd] = ofile[q][fd]
                                /\ op'[q].files = op[q].files
  PROVE  \E k \in Nat :
           /\ Refs(f) = k + Cardinality(OwnDescr(ofile, p, f)) + Occ(op[p].files, f)
           /\ Refs(f)' = k + Cardinality(OwnDescr(ofile', p, f)) + Occ(op'[p].files, f)
           /\ Cardinality(OwnDescr(ofile, p, f)) \in Nat /\ Cardinality(OwnDescr(ofile', p, f)) \in Nat
<1>1. Rest(ofile', op', p, f) = Rest(ofile, op, p, f)
  <2>1. RestDescr(ofile', p, f) = RestDescr(ofile, p, f)
    BY DEF RestDescr, Descr
  <2>2. RestHand(op', p, f) = RestHand(op, p, f)
    BY DEF RestHand, Hand
  <2> QED BY <2>1, <2>2 DEF Rest
<1>2. /\ Refs(f) = Cardinality(Descr(ofile, f)) + Cardinality(Hand(op, f))
      /\ Refs(f)' = Cardinality(Descr(ofile', f)) + Cardinality(Hand(op', f))
  BY DEF Refs, Descr, Hand
<1>3. /\ Rest(ofile, op, p, f) \in Nat /\ Cardinality(OwnDescr(ofile, p, f)) \in Nat
      /\ Refs(f) = Rest(ofile, op, p, f) + Cardinality(OwnDescr(ofile, p, f)) + Occ(op[p].files, f)
  BY <1>2, RefsSplit
<1>4. /\ Cardinality(OwnDescr(ofile', p, f)) \in Nat
      /\ Refs(f)' = Rest(ofile', op', p, f) + Cardinality(OwnDescr(ofile', p, f)) + Occ(op'[p].files, f)
  BY <1>2, RefsSplit
<1> QED BY <1>1, <1>3, <1>4

(* One descriptor changes. *)
LEMMA OwnStep ==
  ASSUME NEW o, NEW n, NEW p \in Procs, NEW f, NEW e \in FDs, n[p][e] # o[p][e],
         \A fd \in FDs \ {e} : n[p][fd] = o[p][fd]
  PROVE  /\ Cardinality(OwnDescr(o, p, f)) \in Nat
         /\ f = n[p][e] => Cardinality(OwnDescr(n, p, f)) = Cardinality(OwnDescr(o, p, f)) + 1
         /\ f = o[p][e] => Cardinality(OwnDescr(n, p, f)) = Cardinality(OwnDescr(o, p, f)) - 1
         /\ f # n[p][e] /\ f # o[p][e] =>
              Cardinality(OwnDescr(n, p, f)) = Cardinality(OwnDescr(o, p, f))
<1>1. PICK S : S = OwnDescr(o, p, f)
  OBVIOUS
<1>2. IsFiniteSet(S) /\ Cardinality(S) \in Nat
  BY <1>1, Finite, FS_CardinalityType
<1>3. CASE f = n[p][e]
  <2>1. OwnDescr(n, p, f) = S \cup {e} /\ e \notin S
    BY <1>1, <1>3 DEF OwnDescr
  <2>2. Cardinality(S \cup {e}) = Cardinality(S) + 1
    BY <1>2, <2>1, FS_AddElement
  <2> QED BY <1>1, <1>2, <1>3, <2>1, <2>2
<1>4. CASE f = o[p][e]
  <2>1. OwnDescr(n, p, f) = S \ {e} /\ e \in S
    BY <1>1, <1>4 DEF OwnDescr
  <2>2. Cardinality(S \ {e}) = Cardinality(S) - 1
    BY <1>2, <2>1, FS_RemoveElement
  <2> QED BY <1>1, <1>2, <1>4, <2>1, <2>2
<1>5. CASE f # n[p][e] /\ f # o[p][e]
  <2>1. OwnDescr(n, p, f) = S
    BY <1>1, <1>5 DEF OwnDescr
  <2> QED BY <1>1, <1>2, <1>5, <2>1
<1> QED BY <1>3, <1>4, <1>5

LEMMA OwnSame ==
  ASSUME NEW o, NEW n, NEW p \in Procs, NEW f, \A fd \in FDs : n[p][fd] = o[p][fd]
  PROVE  OwnDescr(n, p, f) = OwnDescr(o, p, f)
BY DEF OwnDescr

(* A file somebody has is counted. *)
LEMMA Counted ==
  ASSUME NEW f
  PROVE  /\ Refs(f) \in Nat
         /\ \A q \in Procs, fd \in FDs : ofile[q][fd] = f => Refs(f) >= 1
         /\ \A q \in Procs, i \in 1 .. 2 : InHand(q, i, f) => Refs(f) >= 1
         /\ \A q, r \in Procs, i \in 1 .. 2, fd \in FDs :
               InHand(q, i, f) /\ ofile[r][fd] = f => Refs(f) >= 2
<1>1. PICK d \in Nat : d = Cardinality(Descr(ofile, f))
  BY Finite, FS_CardinalityType
<1>2. PICK h \in Nat : h = Cardinality(Hand(op, f))
  BY Finite, FS_CardinalityType
<1>3. Refs(f) = d + h
  BY <1>1, <1>2 DEF Refs, Descr, Hand
<1>4. Descr(ofile, f) # {} => d >= 1
  BY <1>1, Finite, FS_EmptySet
<1>5. Hand(op, f) # {} => h >= 1
  BY <1>2, Finite, FS_EmptySet
<1>6. \A q \in Procs, fd \in FDs : ofile[q][fd] = f => <<q, fd>> \in Descr(ofile, f)
  BY DEF Descr
<1>7. \A q \in Procs, i \in 1 .. 2 : InHand(q, i, f) => <<q, i>> \in Hand(op, f)
  BY DEF Hand, InHand
<1>8. \A q \in Procs, fd \in FDs : ofile[q][fd] = f => d >= 1
  BY <1>4, <1>6
<1>9. \A q \in Procs, i \in 1 .. 2 : InHand(q, i, f) => h >= 1
  BY <1>5, <1>7
<1> QED BY <1>3, <1>8, <1>9
-------------------------------------------------------------------------------
(* Short sequences. *)
LEMMA Short ==
  ASSUME NEW s \in Seq(FileIds), Len(s) <= 2
  PROVE  \/ s = <<>>
         \/ \E g \in FileIds : s = <<g>>
         \/ \E g, h \in FileIds : s = <<g, h>>
<1>0. PICK n \in Nat : n = Len(s)
  OBVIOUS
<1>1. Len(s) = 0 \/ Len(s) = 1 \/ Len(s) = 2
  BY <1>0
<1>2. CASE Len(s) = 0
  BY <1>2
<1>3. CASE Len(s) = 1
  <2>1. s[1] \in FileIds /\ s = <<s[1]>>
    BY <1>3
  <2> QED BY <2>1
<1>4. CASE Len(s) = 2
  <2>1. s[1] \in FileIds /\ s[2] \in FileIds
    BY <1>4
  <2>2. s = <<s[1], s[2]>>
    BY <1>4
  <2> QED BY <2>1, <2>2
<1> QED BY <1>1, <1>2, <1>3, <1>4

LEMMA ShortDomains ==
  /\ DOMAIN <<>> = {}
  /\ \A g : DOMAIN <<g>> = {1} /\ <<g>>[1] = g
  /\ \A g, h : DOMAIN <<g, h>> = {1, 2} /\ <<g, h>>[1] = g /\ <<g, h>>[2] = h
OBVIOUS

LEMMA OccIs ==
  /\ \A f : Occ(<<>>, f) = 0
  /\ \A f, g : Occ(<<g>>, f) = Bit(g = f)
  /\ \A f, g, h : Occ(<<g, h>>, f) = Bit(g = f) + Bit(h = f)
BY ShortDomains DEF Occ, Bit

LEMMA MinIn ==
  ASSUME NEW S \in SUBSET Nat, S # {}
  PROVE  Min(S) \in S /\ \A k \in S : Min(S) <= k
BY LeastNat DEF Min

LEMMA AllocIs ==
  ASSUME TypeOK, Found(filealloc)
  PROVE  filealloc \in FileIds /\ ftable[filealloc].ref = 0
<1> DEFINE S == {f \in FileIds : ftable[f].ref = 0} \cup {NFILE + 1}
<1>1. S \in SUBSET Nat /\ S # {}
  BY FilesAssumption DEF FileIds
<1>2. filealloc \in S
  BY <1>1, MinIn DEF filealloc
<1>3. NFILE + 1 \notin FileIds
  BY FilesAssumption DEF FileIds
<1> QED BY <1>2, <1>3 DEF Found

LEMMA FdIs ==
  ASSUME NEW p \in Procs, NEW S \in SUBSET FreeFds(p), S # {}
  PROVE  Min(S) \in S /\ Min(S) \in FDs /\ ofile[p][Min(S)] = 0
<1>1. S \in SUBSET Nat
  BY FilesAssumption DEF FreeFds, FDs
<1>2. Min(S) \in S
  BY <1>1, MinIn
<1> QED BY <1>2 DEF FreeFds

(* The counts stay right when ref changes by what p's own references change by. *)
LEMMA CountStep ==
  ASSUME RefInv, NEW p \in Procs,
         \A q \in Procs \ {p} : /\ \A fd \in FDs : ofile'[q][fd] = ofile[q][fd]
                                /\ op'[q].files = op[q].files,
         \A f \in FileIds :
            ftable'[f].ref = ftable[f].ref
              + (Cardinality(OwnDescr(ofile', p, f)) - Cardinality(OwnDescr(ofile, p, f)))
              + (Occ(op'[p].files, f) - Occ(op[p].files, f))
  PROVE  \A f \in FileIds : ftable'[f].ref = Refs(f)'
<1> SUFFICES ASSUME NEW f \in FileIds PROVE ftable'[f].ref = Refs(f)'
  OBVIOUS
<1>1. PICK k \in Nat :
        /\ Refs(f) = k + Cardinality(OwnDescr(ofile, p, f)) + Occ(op[p].files, f)
        /\ Refs(f)' = k + Cardinality(OwnDescr(ofile', p, f)) + Occ(op'[p].files, f)
        /\ Cardinality(OwnDescr(ofile, p, f)) \in Nat /\ Cardinality(OwnDescr(ofile', p, f)) \in Nat
  BY RefsStep
<1>2. Occ(op[p].files, f) \in Nat /\ Occ(op'[p].files, f) \in Nat
  BY DEF Occ, Bit
<1>3. ftable[f].ref = Refs(f)
  BY DEF RefInv, CountInv
<1> QED BY <1>1, <1>2, <1>3

(* A step of p that is not about files leaves the counts alone. *)
LEMMA CountSame ==
  ASSUME RefInv, ofile' = ofile, ftable' = ftable,
         \A q \in Procs : op'[q].files = op[q].files
  PROVE  CountInv'
<1>1. Root \in Procs
  BY FilesAssumption
<1>2. PICK p \in Procs : p = Root
  BY <1>1
<1>3. \A f \in FileIds : Cardinality(OwnDescr(ofile, p, f)) \in Nat
  BY Finite, FS_CardinalityType
<1>4. \A f \in FileIds : Occ(op[p].files, f) \in Nat
  BY DEF Occ, Bit
<1>5. \A f \in FileIds : ftable[f].ref \in Nat
  BY DEF RefInv, TypeOK
<1>6. \A f \in FileIds :
         ftable'[f].ref = ftable[f].ref
            + (Cardinality(OwnDescr(ofile', p, f)) - Cardinality(OwnDescr(ofile, p, f)))
            + (Occ(op'[p].files, f) - Occ(op[p].files, f))
  BY <1>3, <1>4, <1>5
<1>7. \A f \in FileIds : ftable'[f].ref = Refs(f)'
  BY <1>6, CountStep
<1> QED BY <1>7 DEF RefInv, CountInv


(* p's descriptor e gets a file, or gives it up. *)
LEMMA Gains ==
  ASSUME NEW o, NEW n, NEW p \in Procs, NEW e \in FDs, NEW f \in FileIds,
         n[p][e] \in FileIds, o[p][e] \notin FileIds,
         \A d \in FDs \ {e} : n[p][d] = o[p][d]
  PROVE  /\ Cardinality(OwnDescr(o, p, f)) \in Nat
         /\ f = n[p][e] => Cardinality(OwnDescr(n, p, f)) = Cardinality(OwnDescr(o, p, f)) + 1
         /\ f # n[p][e] => Cardinality(OwnDescr(n, p, f)) = Cardinality(OwnDescr(o, p, f))
<1>1. n[p][e] # o[p][e] /\ f # o[p][e]
  OBVIOUS
<1>2. Cardinality(OwnDescr(o, p, f)) \in Nat
  BY Finite, FS_CardinalityType
<1>3. f = n[p][e] => Cardinality(OwnDescr(n, p, f)) = Cardinality(OwnDescr(o, p, f)) + 1
  BY <1>1, OwnStep
<1>4. f # n[p][e] => OwnDescr(n, p, f) = OwnDescr(o, p, f)
  BY <1>1 DEF OwnDescr
<1> QED BY <1>2, <1>3, <1>4

LEMMA Loses ==
  ASSUME NEW o, NEW n, NEW p \in Procs, NEW e \in FDs, NEW f \in FileIds,
         o[p][e] \in FileIds, n[p][e] \notin FileIds,
         \A d \in FDs \ {e} : n[p][d] = o[p][d]
  PROVE  /\ Cardinality(OwnDescr(o, p, f)) \in Nat
         /\ f = o[p][e] => Cardinality(OwnDescr(n, p, f)) = Cardinality(OwnDescr(o, p, f)) - 1
         /\ f # o[p][e] => Cardinality(OwnDescr(n, p, f)) = Cardinality(OwnDescr(o, p, f))
<1>1. n[p][e] # o[p][e] /\ f # n[p][e]
  OBVIOUS
<1>2. Cardinality(OwnDescr(o, p, f)) \in Nat
  BY Finite, FS_CardinalityType
<1>3. f = o[p][e] => Cardinality(OwnDescr(n, p, f)) = Cardinality(OwnDescr(o, p, f)) - 1
  BY <1>1, OwnStep
<1>4. f # o[p][e] => OwnDescr(n, p, f) = OwnDescr(o, p, f)
  BY <1>1 DEF OwnDescr
<1> QED BY <1>2, <1>3, <1>4

FileType == [ref : Nat, type : {"none", "pipe", "inode"}, writable : BOOLEAN,
             pipe : Pages \cup {NoPage}]

(* Only the reference count of g changes. *)
LEMMA RefSet ==
  ASSUME TypeOK, NEW g \in FileIds, NEW n \in Nat,
         ftable' = [ftable EXCEPT ![g] = [ftable[g] EXCEPT !.ref = n]]
  PROVE  /\ ftable' \in [FileIds -> FileType]
         /\ \A f \in FileIds : /\ ftable'[f].type = ftable[f].type
                               /\ ftable'[f].writable = ftable[f].writable
                               /\ ftable'[f].pipe = ftable[f].pipe
                               /\ ftable'[f].ref = IF f = g THEN n ELSE ftable[f].ref
         /\ \A f \in FileIds \ {g} : ftable'[f] = ftable[f]
<1>1. ftable \in [FileIds -> FileType]
  BY DEF TypeOK, FileType
<1>2. ftable[g] \in FileType
  BY <1>1
<1>3. PICK r : r = [ftable[g] EXCEPT !.ref = n]
  OBVIOUS
<1>4. /\ r \in FileType /\ r.ref = n /\ r.type = ftable[g].type
      /\ r.writable = ftable[g].writable /\ r.pipe = ftable[g].pipe
  BY <1>2, <1>3 DEF FileType
<1>5. ftable' = [ftable EXCEPT ![g] = r]
  BY <1>3
<1> QED BY <1>1, <1>4, <1>5

LEMMA Gained ==
  ASSUME NEW p \in Procs, NEW e \in FDs, NEW f \in FileIds, ofile'[p][e] \in FileIds, ofile[p][e] \notin FileIds,
         \A d \in FDs \ {e} : ofile'[p][d] = ofile[p][d]
  PROVE  /\ Cardinality(OwnDescr(ofile, p, f)) \in Nat
         /\ f = ofile'[p][e] =>
              Cardinality(OwnDescr(ofile', p, f)) = Cardinality(OwnDescr(ofile, p, f)) + 1
         /\ f # ofile'[p][e] =>
              Cardinality(OwnDescr(ofile', p, f)) = Cardinality(OwnDescr(ofile, p, f))
BY Gains

LEMMA Lost ==
  ASSUME NEW p \in Procs, NEW e \in FDs, NEW f \in FileIds, ofile[p][e] \in FileIds, ofile'[p][e] \notin FileIds,
         \A d \in FDs \ {e} : ofile'[p][d] = ofile[p][d]
  PROVE  /\ Cardinality(OwnDescr(ofile, p, f)) \in Nat
         /\ f = ofile[p][e] =>
              Cardinality(OwnDescr(ofile', p, f)) = Cardinality(OwnDescr(ofile, p, f)) - 1
         /\ f # ofile[p][e] =>
              Cardinality(OwnDescr(ofile', p, f)) = Cardinality(OwnDescr(ofile, p, f))
BY Loses, SMTT(20)

(* p's free descriptor e gets g, which is counted. *)
LEMMA CountGain ==
  ASSUME RefInv, NEW p \in Procs, NEW e \in FDs, NEW g \in FileIds,
         \A q \in Procs \ {p} : ofile'[q] = ofile[q],
         \A q \in Procs : op'[q].files = op[q].files,
         ofile[p][e] \notin FileIds, ofile'[p][e] = g,
         \A d \in FDs \ {e} : ofile'[p][d] = ofile[p][d],
         \A f \in FileIds : ftable'[f].ref = IF f = g THEN ftable[f].ref + 1 ELSE ftable[f].ref
  PROVE  \A f \in FileIds : ftable'[f].ref = Refs(f)'
<1>1. ofile[p][e] \notin FileIds /\ ofile'[p][e] \in FileIds
  OBVIOUS
<1>2. op'[p].files = op[p].files /\ \A f : Occ(op[p].files, f) \in Nat
  BY DEF Occ, Bit
<1>3. ASSUME NEW f \in FileIds
      PROVE  ftable'[f].ref = ftable[f].ref
               + (Cardinality(OwnDescr(ofile', p, f)) - Cardinality(OwnDescr(ofile, p, f)))
               + (Occ(op'[p].files, f) - Occ(op[p].files, f))
  <2>1. ftable[f].ref \in Nat
    BY DEF TypeOK, RefInv
  <2>2. /\ Cardinality(OwnDescr(ofile, p, f)) \in Nat
        /\ f = ofile'[p][e] =>
             Cardinality(OwnDescr(ofile', p, f)) = Cardinality(OwnDescr(ofile, p, f)) + 1
        /\ f # ofile'[p][e] =>
             Cardinality(OwnDescr(ofile', p, f)) = Cardinality(OwnDescr(ofile, p, f))
    BY <1>1, Gained
  <2>3. Occ(op'[p].files, f) - Occ(op[p].files, f) = 0
    BY <1>2
  <2> QED BY <2>1, <2>2, <2>3
<1> QED BY <1>3, CountStep

-------------------------------------------------------------------------------
(* Steps that leave the ends of the pipes, and what is in them, alone: only *)
(* r moves, outside read(), write() and pipeclose().                        *)
SameFiles ==
  \A f \in FileIds :
    /\ ftable'[f].type = "pipe" <=> ftable[f].type = "pipe"
    /\ ftable[f].type = "pipe" => /\ ftable'[f].pipe = ftable[f].pipe
                                  /\ ftable'[f].writable = ftable[f].writable
PipePcs == ReadPcs \cup WritePcs \cup {"pipeclose"}
Quiet(r) ==
  /\ SameFiles /\ UNCHANGED <<pipe, lock, unsignalled>>
  /\ pc[r] \notin PipePcs /\ pc'[r] \notin PipePcs
  /\ \A q \in Procs \ {r} : ofile'[q] = ofile[q] /\ op'[q] = op[q] /\ pc'[q] = pc[q]

(* The first layer, action by action. *)
LEMMA RefDup ==
  ASSUME RefInv, NEW p \in Procs, sys_dup(p)
  PROVE  RefInv' /\ Quiet(p)
<1> USE DEF RefInv
<1>1. PICK fd \in FDs : /\ InUser(p) /\ ofile[p][fd] # 0 /\ FreeFds(p) # {}
                        /\ ofile' = [ofile EXCEPT ![p][Min(FreeFds(p))] = ofile[p][fd]]
                        /\ ftable' = [ftable EXCEPT ![ofile[p][fd]] = Dup(ofile[p][fd], 1)]
                        /\ Opens
                        /\ UNCHANGED <<pipeVars, pc, op, exiting, killed>>
  BY DEF sys_dup
<1>2. PICK e \in FDs : e = Min(FreeFds(p)) /\ ofile[p][e] = 0
  BY <1>1, FdIs
<1>3. PICK g \in FileIds : g = ofile[p][fd]
  BY <1>1 DEF TypeOK, FileIds
<1>4. /\ \A q \in Procs \ {p} : ofile'[q] = ofile[q]
      /\ ofile'[p][e] = g /\ \A d \in FDs \ {e} : ofile'[p][d] = ofile[p][d]
      /\ ofile' \in [Procs -> [FDs -> 0 .. NFILE]]
  BY <1>1, <1>2, <1>3 DEF TypeOK, FileIds
<1>5. PICK n \in Nat \ {0} : n = ftable[g].ref + 1
  BY DEF TypeOK
<1>51. /\ ftable' \in [FileIds -> FileType]
       /\ \A f \in FileIds : /\ ftable'[f].type = ftable[f].type
                             /\ ftable'[f].writable = ftable[f].writable
                             /\ ftable'[f].pipe = ftable[f].pipe
                             /\ ftable'[f].ref = IF f = g THEN n ELSE ftable[f].ref
       /\ \A f \in FileIds \ {g} : ftable'[f] = ftable[f]
  <2>1. ftable' = [ftable EXCEPT ![g] = [ftable[g] EXCEPT !.ref = n]]
    BY <1>1, <1>3, <1>5 DEF Dup
  <2> QED BY <2>1, RefSet
<1>6. TypeOK'
  <2>2. opens' \in 0 .. MaxOpens
    BY <1>1, FilesAssumption DEF TypeOK, Opens
  <2> QED BY <1>1, <1>4, <1>51, <2>2 DEF TypeOK, pipeVars, FileType
<1>7. HandInv'
  BY <1>1, <1>4 DEF HandInv, InUser
<1>8. PageInv'
  BY <1>1, <1>51 DEF PageInv
<1>9. PrivateInv'
  <2>1. \A q \in Procs, i \in 1 .. 2, f \in FileIds : pc[q] = "pipealloc" /\ InHand(q, i, f) => f # g
    BY <1>3 DEF PrivateInv
  <2>2. \A q \in Procs, i \in 1 .. 2, f \in FileIds : InHand(q, i, f)' <=> InHand(q, i, f)
    BY <1>1 DEF InHand
  <2> QED BY <1>1, <1>4, <1>51, <2>1, <2>2 DEF PrivateInv
<1>10. CountInv'
  <2>1. \A f \in FileIds : ftable'[f].ref = IF f = g THEN ftable[f].ref + 1 ELSE ftable[f].ref
    BY <1>5, <1>51
  <2>2. \A q \in Procs : op'[q].files = op[q].files
    BY <1>1
  <2>3. \A f \in FileIds : ftable'[f].ref = Refs(f)'
    <3>1. ofile[p][e] \notin FileIds
      BY <1>2 DEF FileIds
    <3> QED BY <3>1, <1>4, <2>1, <2>2, CountGain
  <2>4. \A f \in FileIds : ftable'[f].ref = 0 => f # g /\ ftable'[f] = ftable[f]
    BY <1>5, <1>51
  <2> QED BY <2>3, <2>4 DEF CountInv
<1>11. Quiet(p)
  BY <1>1, <1>4, <1>51 DEF Quiet, SameFiles, PipePcs, ReadPcs, WritePcs, pipeVars, InUser
<1> QED BY <1>11, <1>6, <1>7, <1>8, <1>9, <1>10

LEMMA RefFork ==
  ASSUME RefInv, NEW p \in Procs, NEW c \in Procs, fork(p, c)
  PROVE  RefInv' /\ Quiet(c)
<1> USE DEF RefInv
<1>1. /\ pc[p] = "user" /\ pc[c] = "unused" /\ p # c
      /\ ofile' = [ofile EXCEPT ![c] = ofile[p]]
      /\ ftable' = [f \in FileIds |-> Dup(f, Cardinality({fd \in FDs : ofile[p][fd] = f}))]
      /\ pc' = [pc EXCEPT ![c] = "user"] /\ opens < MaxOpens /\ opens' = opens + 1
      /\ UNCHANGED <<pipeVars, op, exiting, killed>>
  BY DEF fork, InUser, Goto, Opens
<1>2. /\ \A q \in Procs \ {c} : ofile'[q] = ofile[q] /\ pc'[q] = pc[q]
      /\ ofile'[c] = ofile[p] /\ pc'[c] = "user"
      /\ ofile' \in [Procs -> [FDs -> 0 .. NFILE]]
  BY <1>1 DEF TypeOK
<1>3. \A f \in FileIds : Cardinality(OwnDescr(ofile, p, f)) \in Nat
  BY Finite, FS_CardinalityType
<1>4. ASSUME NEW f \in FileIds
      PROVE  /\ ftable'[f] \in FileType /\ ftable'[f].type = ftable[f].type
             /\ ftable'[f].writable = ftable[f].writable /\ ftable'[f].pipe = ftable[f].pipe
             /\ ftable'[f].ref = ftable[f].ref + Cardinality(OwnDescr(ofile, p, f))
             /\ OwnDescr(ofile, p, f) = {} => ftable'[f] = ftable[f]
  <2>1. PICK n \in Nat : n = Cardinality(OwnDescr(ofile, p, f))
    BY <1>3
  <2>2. ftable'[f] = [ftable[f] EXCEPT !.ref = @ + n]
    BY <1>1, <2>1 DEF Dup, OwnDescr
  <2>3. ftable[f] \in FileType /\ ftable[f].ref + n \in Nat
    BY DEF TypeOK, FileType
  <2>4. PICK m \in Nat : m = ftable[f].ref + n
    BY <2>3
  <2>5. ftable'[f] = [ftable[f] EXCEPT !.ref = m]
    BY <2>2, <2>4
  <2>6. OwnDescr(ofile, p, f) = {} => n = 0
    BY <2>1, FS_EmptySet
  <2>7. n = 0 => m = ftable[f].ref
    BY <2>3, <2>4 DEF FileType
  <2> QED BY <2>1, <2>3, <2>4, <2>5, <2>6, <2>7 DEF FileType
<1>5. ftable' \in [FileIds -> FileType]
  <2>1. ftable' = [f \in FileIds |-> ftable'[f]]
    BY <1>1
  <2> QED BY <1>4, <2>1
<1>6. TypeOK'
  <2>1. opens' \in 0 .. MaxOpens
    BY <1>1, FilesAssumption DEF TypeOK
  <2>2. pc' \in [Procs -> {"user", "unused", "pipealloc", "close", "pipeclose", "read",
                         "write", "rdoze", "wdoze", "rsleep", "wsleep"}]
    BY <1>1 DEF TypeOK
  <2> QED BY <1>1, <1>2, <1>5, <2>1, <2>2 DEF TypeOK, pipeVars, FileType
<1>7. HandInv'
  BY <1>1, <1>2 DEF HandInv, HandPcs
<1>8. PageInv'
  BY <1>1, <1>2, <1>4 DEF PageInv, ReadPcs, WritePcs
<1>9. PrivateInv'
  <2> SUFFICES ASSUME NEW r \in Procs, NEW i \in 1 .. 2, NEW f \in FileIds,
                      pc'[r] = "pipealloc", InHand(r, i, f)'
               PROVE  /\ ftable'[f] = [FreeFile EXCEPT !.ref = 1]
                      /\ \A q \in Procs, fd \in FDs : ofile'[q][fd] # f
                      /\ \A q \in Procs, j \in 1 .. 2 : InHand(q, j, f)' => q = r /\ j = i
    BY DEF PrivateInv
  <2>1. \A q \in Procs, j \in 1 .. 2 : InHand(q, j, f)' <=> InHand(q, j, f)
    BY <1>1 DEF InHand
  <2>2. pc[r] = "pipealloc" /\ InHand(r, i, f)
    BY <1>2, <2>1
  <2>3. /\ ftable[f] = [FreeFile EXCEPT !.ref = 1]
        /\ \A q \in Procs, fd \in FDs : ofile[q][fd] # f
        /\ \A q \in Procs, j \in 1 .. 2 : InHand(q, j, f) => q = r /\ j = i
    BY <2>2 DEF PrivateInv
  <2>4. OwnDescr(ofile, p, f) = {}
    BY <2>3 DEF OwnDescr
  <2> QED BY <1>2, <1>4, <2>1, <2>3, <2>4
<1>10. CountInv'
  <2>1. ASSUME NEW f \in FileIds
        PROVE  ftable'[f].ref = ftable[f].ref
                 + (Cardinality(OwnDescr(ofile', c, f)) - Cardinality(OwnDescr(ofile, c, f)))
                 + (Occ(op'[c].files, f) - Occ(op[c].files, f))
    <3>1. OwnDescr(ofile', c, f) = OwnDescr(ofile, p, f)
      BY <1>2 DEF OwnDescr
    <3>2. OwnDescr(ofile, c, f) = {}
      BY <1>1 DEF OwnDescr, HandInv, FileIds
    <3>3. Cardinality(OwnDescr(ofile, c, f)) = 0
      BY <3>2, FS_EmptySet
    <3>4. Occ(op'[c].files, f) - Occ(op[c].files, f) = 0
      BY <1>1 DEF Occ, Bit
    <3>5. ftable[f].ref \in Nat
      BY DEF TypeOK
    <3> QED BY <1>3, <1>4, <3>1, <3>3, <3>4, <3>5
  <2>2. \A f \in FileIds : ftable'[f].ref = Refs(f)'
    BY <1>1, <1>2, <2>1, CountStep
  <2>3. ASSUME NEW f \in FileIds, ftable'[f].ref = 0 PROVE ftable'[f] = FreeFile
    <3>1. Cardinality(OwnDescr(ofile, p, f)) = 0 /\ ftable[f].ref = 0
      BY <1>3, <1>4, <2>3 DEF TypeOK
    <3>2. OwnDescr(ofile, p, f) = {}
      BY <3>1, Finite, FS_EmptySet
    <3> QED BY <1>4, <3>1, <3>2 DEF CountInv
  <2> QED BY <2>2, <2>3 DEF CountInv
<1>11. Quiet(c)
  BY <1>1, <1>2, <1>4 DEF Quiet, SameFiles, PipePcs, ReadPcs, WritePcs, pipeVars
<1> QED BY <1>11, <1>6, <1>7, <1>8, <1>9, <1>10

(* Only what p has in hand changes, and ref with it. *)
LEMMA CountHand ==
  ASSUME RefInv, NEW p \in Procs, ofile' = ofile,
         \A q \in Procs \ {p} : op'[q].files = op[q].files,
         \A f \in FileIds : ftable'[f].ref = ftable[f].ref + (Occ(op'[p].files, f) - Occ(op[p].files, f))
  PROVE  \A f \in FileIds : ftable'[f].ref = Refs(f)'
<1>1. ASSUME NEW f \in FileIds
      PROVE  ftable'[f].ref = ftable[f].ref
               + (Cardinality(OwnDescr(ofile', p, f)) - Cardinality(OwnDescr(ofile, p, f)))
               + (Occ(op'[p].files, f) - Occ(op[p].files, f))
  <2>1. Cardinality(OwnDescr(ofile, p, f)) \in Nat
    BY Finite, FS_CardinalityType
  <2>2. Cardinality(OwnDescr(ofile', p, f)) - Cardinality(OwnDescr(ofile, p, f)) = 0
    BY <2>1
  <2>3. ftable[f].ref \in Nat
    BY DEF RefInv, TypeOK
  <2> QED BY <2>2, <2>3
<1> QED BY <1>1, CountStep

(* p's descriptor e passes its file on to the call. *)
LEMMA CountMove ==
  ASSUME RefInv, NEW p \in Procs, NEW e \in FDs, NEW g \in FileIds,
         \A q \in Procs \ {p} : ofile'[q] = ofile[q] /\ op'[q].files = op[q].files,
         ofile[p][e] = g, ofile'[p][e] \notin FileIds,
         \A d \in FDs \ {e} : ofile'[p][d] = ofile[p][d],
         op[p].files = <<>>, op'[p].files = <<g>>, ftable' = ftable
  PROVE  \A f \in FileIds : ftable'[f].ref = Refs(f)'
<1>1. ofile[p][e] \in FileIds
  OBVIOUS
<1>2. ASSUME NEW f \in FileIds
      PROVE  ftable'[f].ref = ftable[f].ref
               + (Cardinality(OwnDescr(ofile', p, f)) - Cardinality(OwnDescr(ofile, p, f)))
               + (Occ(op'[p].files, f) - Occ(op[p].files, f))
  <2>1. ftable[f].ref \in Nat
    BY DEF TypeOK, RefInv
  <2>2. /\ Cardinality(OwnDescr(ofile, p, f)) \in Nat
        /\ f = ofile[p][e] =>
             Cardinality(OwnDescr(ofile', p, f)) = Cardinality(OwnDescr(ofile, p, f)) - 1
        /\ f # ofile[p][e] =>
             Cardinality(OwnDescr(ofile', p, f)) = Cardinality(OwnDescr(ofile, p, f))
    BY <1>1, Lost
  <2>3. /\ f = g => Occ(op'[p].files, f) - Occ(op[p].files, f) = 1
        /\ f # g => Occ(op'[p].files, f) - Occ(op[p].files, f) = 0
    BY OccIs DEF Bit
  <2> QED BY <2>1, <2>2, <2>3
<1> QED BY <1>2, CountStep

(* A step that changes no reference. *)
LEMMA RefSilent ==
  ASSUME RefInv, TypeOK', ofile' = ofile, ftable' = ftable,
         \A q \in Procs : op'[q].files = op[q].files,
         \A q \in Procs : pc'[q] = "pipealloc" => pc[q] = "pipealloc",
         \A q \in Procs : pc'[q] \notin HandPcs => op[q].files = <<>>,
         \A q \in Procs : pc'[q] = "unused" => \A fd \in FDs : ofile[q][fd] = 0,
         \A q \in Procs : pc'[q] \in ReadPcs \cup WritePcs \cup {"pipeclose"} => op'[q].pipe \in Pages
  PROVE  RefInv'
<1>1. HandInv'
  BY DEF RefInv, HandInv
<1>2. PageInv'
  BY DEF RefInv, PageInv
<1>3. PrivateInv'
  <2>1. \A q \in Procs, i \in 1 .. 2, f \in FileIds : InHand(q, i, f)' <=> InHand(q, i, f)
    BY DEF InHand
  <2> QED BY <2>1 DEF RefInv, PrivateInv
<1>4. CountInv'
  BY CountSame
<1> QED BY <1>1, <1>2, <1>3, <1>4 DEF RefInv

(* A file that nobody counts is in nobody's hands. *)
LEMMA Unreferenced ==
  ASSUME RefInv, NEW g \in FileIds, ftable[g].ref = 0
  PROVE  /\ \A q \in Procs, fd \in FDs : ofile[q][fd] # g
         /\ \A q \in Procs, i \in 1 .. 2 : ~InHand(q, i, g)
         /\ ftable[g] = FreeFile
<1>1. Refs(g) = 0
  BY DEF RefInv, CountInv
<1>2. \A q \in Procs, fd \in FDs : ofile[q][fd] # g
  BY <1>1, Counted
<1>3. \A q \in Procs, i \in 1 .. 2 : ~InHand(q, i, g)
  BY <1>1, Counted
<1> QED BY <1>2, <1>3 DEF RefInv, CountInv

(* filealloc() for the call of p. *)
LEMMA RefTake ==
  ASSUME RefInv, TypeOK', NEW p \in Procs, NEW g \in FileIds, ftable[g].ref = 0, Take(g),
         ofile' = ofile, \A q \in Procs \ {p} : op'[q] = op[q] /\ pc'[q] = pc[q],
         \/ op[p].files = <<>> /\ op'[p].files = <<g>>
         \/ pc[p] = "pipealloc" /\ \E h \in FileIds : op[p].files = <<h>> /\ op'[p].files = <<h, g>>,
         pc'[p] \in {"close", "pipealloc"}
  PROVE  RefInv'
<1> USE DEF RefInv
<1>1. /\ ftable' \in [FileIds -> FileType]
      /\ \A f \in FileIds : /\ ftable'[f].type = ftable[f].type
                            /\ ftable'[f].writable = ftable[f].writable
                            /\ ftable'[f].pipe = ftable[f].pipe
                            /\ ftable'[f].ref = IF f = g THEN 1 ELSE ftable[f].ref
      /\ \A f \in FileIds \ {g} : ftable'[f] = ftable[f]
      /\ ftable'[g] = [ftable[g] EXCEPT !.ref = 1]
  <2>1. ftable' = [ftable EXCEPT ![g] = [ftable[g] EXCEPT !.ref = 1]] /\ 1 \in Nat
    BY DEF Take
  <2>2. ftable'[g] = [ftable[g] EXCEPT !.ref = 1]
    BY <2>1 DEF TypeOK
  <2>3. PICK n \in Nat : n = 1
    OBVIOUS
  <2>4. TypeOK /\ ftable' = [ftable EXCEPT ![g] = [ftable[g] EXCEPT !.ref = n]]
    BY <2>1, <2>3
  <2>5. /\ ftable' \in [FileIds -> FileType]
        /\ \A f \in FileIds : /\ ftable'[f].type = ftable[f].type
                              /\ ftable'[f].writable = ftable[f].writable
                              /\ ftable'[f].pipe = ftable[f].pipe
                              /\ ftable'[f].ref = IF f = g THEN n ELSE ftable[f].ref
        /\ \A f \in FileIds \ {g} : ftable'[f] = ftable[f]
    BY <2>4, RefSet, Zenon
  <2> QED BY <2>2, <2>3, <2>5
<1>2. /\ \A q \in Procs, fd \in FDs : ofile[q][fd] # g
      /\ \A q \in Procs, i \in 1 .. 2 : ~InHand(q, i, g)
      /\ ftable[g] = FreeFile
  BY Unreferenced
<1>3. \A f : /\ f = g => Occ(op'[p].files, f) - Occ(op[p].files, f) = 1
             /\ f # g => Occ(op'[p].files, f) - Occ(op[p].files, f) = 0
  <2>1. CASE op[p].files = <<>> /\ op'[p].files = <<g>>
    BY <2>1, OccIs DEF Bit
  <2>2. CASE \E h \in FileIds : op[p].files = <<h>> /\ op'[p].files = <<h, g>>
    BY <2>2, OccIs DEF Bit
  <2> QED BY <2>1, <2>2
<1>4. \A q \in Procs, i \in 1 .. 2, f \in FileIds : InHand(q, i, f)' <=> InHand(q, i, f) \/ (q = p /\ f = g /\ i = Len(op'[p].files))
  <2> SUFFICES ASSUME NEW q \in Procs, NEW i \in 1 .. 2, NEW f
               PROVE InHand(q, i, f)' <=> InHand(q, i, f) \/ (q = p /\ f = g /\ i = Len(op'[p].files))
    OBVIOUS
  <2>1. CASE q # p
    BY <2>1 DEF InHand
  <2>2. CASE q = p /\ op[p].files = <<>> /\ op'[p].files = <<g>>
    BY <2>2, ShortDomains DEF InHand
  <2>3. CASE q = p /\ \E h \in FileIds : op[p].files = <<h>> /\ op'[p].files = <<h, g>>
    BY <2>3, ShortDomains DEF InHand
  <2> QED BY <2>1, <2>2, <2>3
<1>5. HandInv'
  <2>0. Len(op'[p].files) <= 2
    <3>1. CASE op'[p].files = <<g>>
      BY <3>1
    <3>2. CASE \E h \in FileIds : op'[p].files = <<h, g>>
      BY <3>2
    <3> QED BY <3>1, <3>2
  <2>1. Len(op'[p].files) <= 2 /\ pc'[p] \in HandPcs /\ pc'[p] # "unused"
    BY <2>0 DEF HandPcs
  <2>2. \A q \in Procs : Len(op'[q].files) <= 2
    BY <2>1 DEF HandInv
  <2>3. \A q \in Procs : pc'[q] \notin HandPcs => op'[q].files = <<>>
    BY <2>1 DEF HandInv
  <2>4. \A q \in Procs : pc'[q] = "unused" => \A fd \in FDs : ofile'[q][fd] = 0
    BY <2>1 DEF HandInv
  <2> QED BY <2>2, <2>3, <2>4 DEF HandInv
<1>6. PageInv'
  BY <1>1 DEF PageInv, ReadPcs, WritePcs
<1>7. PrivateInv'
  <2> SUFFICES ASSUME NEW r \in Procs, NEW i \in 1 .. 2, NEW f \in FileIds,
                      pc'[r] = "pipealloc", InHand(r, i, f)'
               PROVE  /\ ftable'[f] = [FreeFile EXCEPT !.ref = 1]
                      /\ \A q \in Procs, fd \in FDs : ofile'[q][fd] # f
                      /\ \A q \in Procs, j \in 1 .. 2 : InHand(q, j, f)' => q = r /\ j = i
    BY DEF PrivateInv
  <2>1. CASE f = g
    BY <1>1, <1>2, <1>4, <2>1, SMTT(20)
  <2>2. CASE f # g
    <3>1. InHand(r, i, f)
      BY <1>4, <2>2
    <3>2. pc[r] = "pipealloc"
      <4>1. CASE r # p
        BY <4>1
      <4>2. CASE r = p
        BY <4>2, <3>1, ShortDomains DEF InHand
      <4> QED BY <4>1, <4>2
    <3> QED BY <1>1, <1>4, <2>2, <3>1, <3>2 DEF PrivateInv
  <2> QED BY <2>1, <2>2
<1>8. CountInv'
  <2>1. \A f \in FileIds : ftable'[f].ref = ftable[f].ref + (Occ(op'[p].files, f) - Occ(op[p].files, f))
    <3> SUFFICES ASSUME NEW f \in FileIds
                 PROVE  ftable'[f].ref = ftable[f].ref + (Occ(op'[p].files, f) - Occ(op[p].files, f))
      OBVIOUS
    <3>1. ftable[f].ref \in Nat
      BY DEF TypeOK
    <3>2. CASE f = g
      <4>1. Occ(op'[p].files, f) - Occ(op[p].files, f) = 1
        BY <1>3, <3>2
      <4> QED BY <1>1, <3>2, <4>1
    <3>3. CASE f # g
      <4>1. Occ(op'[p].files, f) - Occ(op[p].files, f) = 0
        BY <1>3, <3>3
      <4> QED BY <1>1, <3>1, <3>3, <4>1
    <3> QED BY <3>2, <3>3
  <2>2. \A f \in FileIds : ftable'[f].ref = Refs(f)'
    BY <2>1, CountHand
  <2>3. \A f \in FileIds : ftable'[f].ref = 0 => ftable'[f] = ftable[f]
    BY <1>1
  <2> QED BY <2>2, <2>3 DEF CountInv
<1> QED BY <1>5, <1>6, <1>7, <1>8

(* close() and exit() hand the file of p's descriptor e to fileclose(). *)
LEMMA RefMove ==
  ASSUME RefInv, TypeOK', NEW p \in Procs, NEW e \in FDs, NEW g \in FileIds,
         \A q \in Procs \ {p} : ofile'[q] = ofile[q] /\ op'[q] = op[q] /\ pc'[q] = pc[q],
         ofile[p][e] = g, ofile'[p][e] = 0, \A d \in FDs \ {e} : ofile'[p][d] = ofile[p][d],
         op[p].files = <<>>, op'[p].files = <<g>>, pc'[p] = "close", ftable' = ftable
  PROVE  RefInv'
<1> USE DEF RefInv
<1>1. HandInv'
  <2>1. Len(op'[p].files) <= 2 /\ pc'[p] \in HandPcs /\ pc'[p] # "unused"
    BY DEF HandPcs
  <2>2. \A q \in Procs : Len(op'[q].files) <= 2
    BY <2>1 DEF HandInv
  <2>3. \A q \in Procs : pc'[q] \notin HandPcs => op'[q].files = <<>>
    BY <2>1 DEF HandInv
  <2>4. \A q \in Procs : pc'[q] = "unused" => \A fd \in FDs : ofile'[q][fd] = 0
    BY <2>1 DEF HandInv
  <2> QED BY <2>2, <2>3, <2>4 DEF HandInv
<1>2. PageInv'
  BY DEF PageInv, ReadPcs, WritePcs
<1>3. PrivateInv'
  <2> SUFFICES ASSUME NEW r \in Procs, NEW i \in 1 .. 2, NEW f \in FileIds,
                      pc'[r] = "pipealloc", InHand(r, i, f)'
               PROVE  /\ ftable'[f] = [FreeFile EXCEPT !.ref = 1]
                      /\ \A q \in Procs, fd \in FDs : ofile'[q][fd] # f
                      /\ \A q \in Procs, j \in 1 .. 2 : InHand(q, j, f)' => q = r /\ j = i
    BY DEF PrivateInv
  <2>1. r # p /\ InHand(r, i, f) /\ pc[r] = "pipealloc"
    BY DEF InHand
  <2>2. /\ ftable[f] = [FreeFile EXCEPT !.ref = 1]
        /\ \A q \in Procs, fd \in FDs : ofile[q][fd] # f
        /\ \A q \in Procs, j \in 1 .. 2 : InHand(q, j, f) => q = r /\ j = i
    BY <2>1 DEF PrivateInv
  <2>3. f # g /\ f # 0
    BY <2>2 DEF FileIds
  <2>4. \A q \in Procs, j \in 1 .. 2 : InHand(q, j, f)' => q # p /\ InHand(q, j, f)
    BY <2>3, ShortDomains DEF InHand
  <2>5. \A q \in Procs, fd \in FDs : ofile'[q][fd] # f
    <3> SUFFICES ASSUME NEW q \in Procs, NEW fd \in FDs PROVE ofile'[q][fd] # f
      OBVIOUS
    <3>1. CASE q # p
      BY <2>2, <3>1
    <3>2. CASE q = p
      BY <2>2, <2>3, <3>2
    <3> QED BY <3>1, <3>2
  <2> QED BY <2>2, <2>4, <2>5
<1>4. CountInv'
  <2>1. ofile'[p][e] \notin FileIds
    BY DEF FileIds
  <2>2. \A f \in FileIds : ftable'[f].ref = Refs(f)'
    BY <2>1, CountMove
  <2> QED BY <2>2 DEF CountInv
<1> QED BY <1>1, <1>2, <1>3, <1>4

CallType == [files : Seq(FileIds), pipe : Pages \cup {NoPage}, writable : BOOLEAN,
             buf : Seq(Byte), n : Sizes \cup {0}]
PcType == {"user", "unused", "pipealloc", "close", "pipeclose", "read", "write", "rdoze",
           "wdoze", "rsleep", "wsleep"}

LEMMA PairIs ==
  ASSUME NEW t \in Seq(FileIds), Len(t) = 2
  PROVE  t = <<t[1], t[2]>>
OBVIOUS

LEMMA ShortSeqs ==
  /\ \A g \in FileIds : <<g>> \in Seq(FileIds) /\ Len(<<g>>) = 1 /\ Head(<<g>>) = g /\ Tail(<<g>>) = <<>>
  /\ \A g, h \in FileIds : /\ <<g, h>> \in Seq(FileIds) /\ Len(<<g, h>>) = 2
                            /\ Head(<<g, h>>) = g /\ Tail(<<g, h>>) = <<h>>
                            /\ Append(<<g>>, h) = <<g, h>>
<1>1. ASSUME NEW g \in FileIds
      PROVE  <<g>> \in Seq(FileIds) /\ Len(<<g>>) = 1 /\ Head(<<g>>) = g /\ Tail(<<g>>) = <<>>
  OBVIOUS
<1>2. ASSUME NEW g \in FileIds, NEW h \in FileIds
      PROVE  /\ <<g, h>> \in Seq(FileIds) /\ Len(<<g, h>>) = 2
             /\ Head(<<g, h>>) = g /\ Tail(<<g, h>>) = <<h>>
             /\ Append(<<g>>, h) = <<g, h>>
  <2>1. <<g, h>> \in Seq(FileIds) /\ Len(<<g, h>>) = 2 /\ Head(<<g, h>>) = g
    OBVIOUS
  <2>2. Tail(<<g, h>>) = <<h>>
    OBVIOUS
  <2>3. Append(<<g>>, h) = <<g, h>>
    <3>1. PICK s \in Seq(FileIds) : s = <<g>> /\ Len(s) = 1 /\ s[1] = g
      BY <1>1, ShortDomains
    <3>2. PICK t : t = Append(s, h)
      OBVIOUS
    <3>3. t \in Seq(FileIds) /\ Len(t) = Len(s) + 1
      BY <3>2
    <3>4. t[1] = g /\ t[2] = h
      BY <3>1, <3>2
    <3>5. Len(t) = 2
      BY <3>1, <3>3
    <3>6. t = <<t[1], t[2]>>
      BY <3>3, <3>5, PairIs
    <3> QED BY <3>1, <3>2, <3>4, <3>6
  <2> QED BY <2>1, <2>2, <2>3
<1> QED BY <1>1, <1>2

LEMMA NoOpType == NoOp \in CallType /\ NoOp.files = <<>>
BY DEF NoOp, CallType

(* What CloseAll() leaves. *)
LEMMA CloseAllIs ==
  ASSUME TypeOK, NEW p \in Procs, NEW s \in Seq(FileIds), CloseAll(p, s)
  PROVE  /\ pc' \in [Procs -> PcType] /\ op' \in [Procs -> CallType]
         /\ pc'[p] = "close" /\ op'[p].files = s
         /\ \A q \in Procs \ {p} : pc'[q] = pc[q] /\ op'[q] = op[q]
<1>1. PICK r : r = [NoOp EXCEPT !.files = s]
  OBVIOUS
<1>2. r \in CallType /\ r.files = s
  BY <1>1, NoOpType DEF CallType
<1>3. op' = [op EXCEPT ![p] = r] /\ pc' = [pc EXCEPT ![p] = "close"]
  BY <1>1 DEF CloseAll, Goto
<1>4. op \in [Procs -> CallType] /\ pc \in [Procs -> PcType]
  BY DEF TypeOK, CallType, PcType
<1> QED BY <1>2, <1>3, <1>4 DEF PcType

LEMMA OpenedType ==
  ASSUME TypeOK, Opens PROVE opens' \in 0 .. MaxOpens
BY FilesAssumption DEF TypeOK, Opens

LEMMA TakeType ==
  ASSUME TypeOK, NEW g \in FileIds, Take(g) PROVE ftable' \in [FileIds -> FileType]
<1>1. ftable' = [ftable EXCEPT ![g] = [ftable[g] EXCEPT !.ref = 1]] /\ 1 \in Nat
  BY DEF Take
<1> QED BY <1>1, RefSet

LEMMA TakeSame ==
  ASSUME TypeOK, NEW g \in FileIds, Take(g) PROVE SameFiles
<1>1. ftable' = [ftable EXCEPT ![g] = [ftable[g] EXCEPT !.ref = 1]] /\ 1 \in Nat
  BY DEF Take
<1> QED BY <1>1, RefSet DEF SameFiles

LEMMA RefOpen ==
  ASSUME RefInv, NEW p \in Procs, sys_open(p)
  PROVE  RefInv' /\ Quiet(p)
<1> USE DEF RefInv
<1>1. InUser(p) /\ Found(filealloc) /\ Opens /\ UNCHANGED <<pipeVars, exiting, killed>>
  BY DEF sys_open
<1>2. PICK g \in FileIds : g = filealloc /\ ftable[g].ref = 0
  BY <1>1, AllocIs
<1>3. pc[p] = "user" /\ op[p].files = <<>>
  BY <1>1 DEF InUser, HandInv, HandPcs
<1>4. opens' \in 0 .. MaxOpens
  BY <1>1, OpenedType
<1>5. CASE /\ FreeFds(p) = {} /\ Take(filealloc) /\ CloseAll(p, <<filealloc>>)
           /\ UNCHANGED ofile
  <2>1. Take(g) /\ <<g>> \in Seq(FileIds) /\ CloseAll(p, <<g>>) /\ ofile' = ofile
    BY <1>2, <1>5
  <2>2. /\ pc' \in [Procs -> PcType] /\ op' \in [Procs -> CallType]
        /\ pc'[p] = "close" /\ op'[p].files = <<g>>
        /\ \A q \in Procs \ {p} : pc'[q] = pc[q] /\ op'[q] = op[q]
    BY <2>1, CloseAllIs
  <2>3. ftable' \in [FileIds -> FileType]
    BY <2>1, TakeType
  <2>4. TypeOK'
    BY <1>1, <1>4, <2>1, <2>2, <2>3 DEF TypeOK, pipeVars, FileType, CallType, PcType
  <2>5. RefInv'
    BY <1>2, <1>3, <2>1, <2>2, <2>4, RefTake
  <2>6. Quiet(p)
    BY <1>1, <1>3, <2>1, <2>2, TakeSame DEF Quiet, SameFiles, PipePcs, ReadPcs, WritePcs, pipeVars
  <2> QED BY <2>5, <2>6
<1>6. CASE /\ FreeFds(p) # {}
           /\ ftable' = [ftable EXCEPT ![filealloc] = [ref |-> 1, type |-> "inode", writable |-> FALSE,
                                                       pipe |-> NoPage]]
           /\ ofile' = [ofile EXCEPT ![p][Min(FreeFds(p))] = filealloc]
           /\ UNCHANGED <<pc, op>>
  <2>1. PICK e \in FDs : e = Min(FreeFds(p)) /\ ofile[p][e] = 0
    BY <1>6, FdIs
  <2>2. /\ \A q \in Procs \ {p} : ofile'[q] = ofile[q]
        /\ ofile'[p][e] = g /\ \A d \in FDs \ {e} : ofile'[p][d] = ofile[p][d]
        /\ ofile' \in [Procs -> [FDs -> 0 .. NFILE]]
    BY <1>2, <1>6, <2>1 DEF TypeOK, FileIds
  <2>3. PICK r : r = [ref |-> 1, type |-> "inode", writable |-> FALSE, pipe |-> NoPage]
    OBVIOUS
  <2>4. r \in FileType /\ r.ref = 1 /\ r.type = "inode"
    BY <2>3 DEF FileType
  <2>5. /\ ftable' \in [FileIds -> FileType] /\ ftable'[g] = r
        /\ \A f \in FileIds \ {g} : ftable'[f] = ftable[f]
    BY <1>2, <1>6, <2>3, <2>4 DEF TypeOK, FileType
  <2>6. TypeOK'
    BY <1>1, <1>4, <1>6, <2>2, <2>5 DEF TypeOK, pipeVars, FileType
  <2>7. HandInv'
    BY <1>3, <1>6, <2>2 DEF HandInv
  <2>8. PageInv'
    BY <1>6, <2>4, <2>5 DEF PageInv
  <2>9. /\ \A q \in Procs, fd \in FDs : ofile[q][fd] # g
        /\ \A q \in Procs, i \in 1 .. 2 : ~InHand(q, i, g)
    BY <1>2, Unreferenced
  <2>10. PrivateInv'
    <3>1. \A q \in Procs, i \in 1 .. 2, f \in FileIds : InHand(q, i, f)' <=> InHand(q, i, f)
      BY <1>6 DEF InHand
    <3>2. \A q \in Procs, fd \in FDs, f \in FileIds : ofile'[q][fd] = f => f = g \/ ofile[q][fd] = f
      BY <2>2
    <3> SUFFICES ASSUME NEW r1 \in Procs, NEW i \in 1 .. 2, NEW f \in FileIds,
                        pc'[r1] = "pipealloc", InHand(r1, i, f)'
                 PROVE  /\ ftable'[f] = [FreeFile EXCEPT !.ref = 1]
                        /\ \A q \in Procs, fd \in FDs : ofile'[q][fd] # f
                        /\ \A q \in Procs, j \in 1 .. 2 : InHand(q, j, f)' => q = r1 /\ j = i
      BY DEF PrivateInv
    <3>3. InHand(r1, i, f) /\ pc[r1] = "pipealloc" /\ f # g
      BY <1>6, <2>9, <3>1
    <3>4. /\ ftable[f] = [FreeFile EXCEPT !.ref = 1]
          /\ \A q \in Procs, fd \in FDs : ofile[q][fd] # f
          /\ \A q \in Procs, j \in 1 .. 2 : InHand(q, j, f) => q = r1 /\ j = i
      BY <3>3 DEF PrivateInv
    <3> QED BY <2>5, <3>1, <3>2, <3>3, <3>4
  <2>11. CountInv'
    <3>1. \A f \in FileIds : ftable'[f].ref = IF f = g THEN ftable[f].ref + 1 ELSE ftable[f].ref
      BY <1>2, <2>4, <2>5
    <3>2. ofile[p][e] \notin FileIds
      BY <2>1 DEF FileIds
    <3>3. \A q \in Procs : op'[q].files = op[q].files
      BY <1>6
    <3>4. \A f \in FileIds : ftable'[f].ref = Refs(f)'
      BY <2>2, <3>1, <3>2, <3>3, CountGain
    <3>5. \A f \in FileIds : ftable'[f].ref = 0 => ftable'[f] = ftable[f]
      BY <2>4, <2>5
    <3> QED BY <3>4, <3>5 DEF CountInv
  <2>12. SameFiles
    <3>1. ftable[g] = FreeFile
      BY <1>2 DEF CountInv
    <3>2. ftable[g].type = "none"
      BY <3>1 DEF FreeFile
    <3> QED BY <2>4, <2>5, <3>2 DEF SameFiles
  <2>13. Quiet(p)
    BY <1>1, <1>3, <1>6, <2>2, <2>12 DEF Quiet, PipePcs, ReadPcs, WritePcs, pipeVars
  <2> QED BY <2>13, <2>6, <2>7, <2>8, <2>10, <2>11
<1> QED BY <1>5, <1>6 DEF sys_open

LEMMA RefPipeFirst ==
  ASSUME RefInv, NEW p \in Procs, PipeFirstFile(p)
  PROVE  RefInv' /\ Quiet(p)
<1> USE DEF RefInv
<1>1. /\ InUser(p) /\ Found(filealloc) /\ Take(filealloc) /\ pc' = [pc EXCEPT ![p] = "pipealloc"]
      /\ op' = [op EXCEPT ![p].files = <<filealloc>>] /\ Opens
      /\ UNCHANGED <<pipeVars, ofile, exiting, killed>>
  BY DEF PipeFirstFile, Goto
<1>2. PICK g \in FileIds : g = filealloc /\ ftable[g].ref = 0
  BY <1>1, AllocIs
<1>3. op[p].files = <<>>
  BY <1>1 DEF InUser, HandInv, HandPcs
<1>4. opens' \in 0 .. MaxOpens
  BY <1>1, OpenedType
<1>5. PICK s \in Seq(FileIds) : s = <<g>>
  BY ShortSeqs
<1>6. /\ op' \in [Procs -> CallType] /\ op'[p].files = <<g>>
      /\ \A q \in Procs \ {p} : op'[q] = op[q]
  <2>1. op' = [op EXCEPT ![p].files = s] /\ op \in [Procs -> CallType]
    BY <1>1, <1>2, <1>5 DEF TypeOK, CallType
  <2> QED BY <2>1, <1>5 DEF CallType
<1>7. /\ pc' \in [Procs -> PcType] /\ pc'[p] = "pipealloc"
      /\ \A q \in Procs \ {p} : pc'[q] = pc[q]
  BY <1>1 DEF TypeOK, PcType
<1>8. ftable' \in [FileIds -> FileType]
  BY <1>1, <1>2, TakeType
<1>9. TypeOK'
  BY <1>1, <1>4, <1>6, <1>7, <1>8 DEF TypeOK, pipeVars, FileType, CallType, PcType
<1>10. Take(g) /\ ofile' = ofile
  BY <1>1, <1>2
<1>11. RefInv'
  BY <1>2, <1>3, <1>6, <1>7, <1>9, <1>10, RefTake
<1>12. Quiet(p)
  BY <1>1, <1>6, <1>7, <1>10, TakeSame DEF Quiet, PipePcs, ReadPcs, WritePcs, pipeVars, InUser
<1> QED BY <1>11, <1>12

LEMMA RefPipeSecond ==
  ASSUME RefInv, NEW p \in Procs, PipeSecondFile(p)
  PROVE  RefInv' /\ Quiet(p)
<1> USE DEF RefInv
<1>1. /\ pc[p] = "pipealloc" /\ Len(op[p].files) = 1
      /\ UNCHANGED <<pipeVars, ofile, opens, exiting, killed>>
  BY DEF PipeSecondFile
<1>2. op[p].files \in Seq(FileIds)
  BY DEF TypeOK
<1>3. PICK h \in FileIds : op[p].files = <<h>>
  <2>1. PICK s \in Seq(FileIds) : s = op[p].files /\ Len(s) = 1
    BY <1>1, <1>2
  <2>2. Len(s) = 1 /\ Len(s) <= 2
    BY <2>1
  <2>4. Len(<<>>) = 0
    OBVIOUS
  <2>3. \E g \in FileIds : s = <<g>>
    BY <2>2, <2>4, Short, ShortSeqs, SMTT(20)
  <2> QED BY <2>1, <2>3
<1>4. CASE /\ Found(filealloc) /\ Take(filealloc)
           /\ op' = [op EXCEPT ![p].files = Append(@, filealloc)]
           /\ UNCHANGED pc
  <2>1. PICK g \in FileIds : g = filealloc /\ ftable[g].ref = 0
    BY <1>4, AllocIs
  <2>2. PICK s \in Seq(FileIds) : s = <<h, g>>
    BY ShortSeqs
  <2>3. Append(op[p].files, g) = s
    BY <1>3, <2>2, ShortSeqs
  <2>4. /\ op' \in [Procs -> CallType] /\ op'[p].files = <<h, g>>
        /\ \A q \in Procs \ {p} : op'[q] = op[q]
    <3>1. op' = [op EXCEPT ![p].files = s] /\ op \in [Procs -> CallType]
      BY <1>4, <2>1, <2>3 DEF TypeOK, CallType
    <3> QED BY <3>1, <2>2 DEF CallType
  <2>5. ftable' \in [FileIds -> FileType]
    BY <1>4, <2>1, TakeType
  <2>6. TypeOK'
    BY <1>1, <1>4, <2>4, <2>5 DEF TypeOK, pipeVars, FileType, CallType
  <2>7. Take(g) /\ ofile' = ofile /\ pc'[p] = "pipealloc" /\ pc' = pc
    BY <1>1, <1>4, <2>1
  <2>8. RefInv'
    BY <1>1, <1>3, <2>1, <2>4, <2>6, <2>7, RefTake
  <2>9. Quiet(p)
    BY <1>1, <2>4, <2>7, TakeSame DEF Quiet, PipePcs, ReadPcs, WritePcs, pipeVars
  <2> QED BY <2>8, <2>9
<1>5. CASE ~Found(filealloc) /\ CloseAll(p, op[p].files) /\ UNCHANGED ftable
  <2>1. /\ pc' \in [Procs -> PcType] /\ op' \in [Procs -> CallType]
        /\ pc'[p] = "close" /\ op'[p].files = op[p].files
        /\ \A q \in Procs \ {p} : pc'[q] = pc[q] /\ op'[q] = op[q]
    BY <1>2, <1>5, CloseAllIs
  <2>2. TypeOK'
    BY <1>1, <1>5, <2>1 DEF TypeOK, pipeVars, CallType, PcType
  <2>3. ofile' = ofile /\ ftable' = ftable
    BY <1>1, <1>5
  <2>4. \A q \in Procs : op'[q].files = op[q].files
    BY <2>1
  <2>5. /\ \A q \in Procs : pc'[q] = "pipealloc" => pc[q] = "pipealloc"
        /\ \A q \in Procs : pc'[q] \notin HandPcs => op[q].files = <<>>
        /\ \A q \in Procs : pc'[q] = "unused" => \A fd \in FDs : ofile[q][fd] = 0
    BY <2>1 DEF HandInv, HandPcs
  <2>6. \A q \in Procs : pc'[q] \in ReadPcs \cup WritePcs \cup {"pipeclose"} => op'[q].pipe \in Pages
    BY <2>1 DEF PageInv, ReadPcs, WritePcs
  <2>7. RefInv'
    BY <2>2, <2>3, <2>4, <2>5, <2>6, RefSilent
  <2>8. Quiet(p)
    BY <1>1, <2>1, <2>3 DEF Quiet, SameFiles, PipePcs, ReadPcs, WritePcs, pipeVars
  <2> QED BY <2>7, <2>8
<1> QED BY <1>4, <1>5 DEF PipeSecondFile

LEMMA RefClose ==
  ASSUME RefInv, NEW p \in Procs, sys_close(p)
  PROVE  RefInv' /\ Quiet(p)
<1> USE DEF RefInv
<1>1. PICK e \in FDs : /\ InUser(p) /\ ofile[p][e] # 0
                       /\ ofile' = [ofile EXCEPT ![p][e] = 0]
                       /\ CloseAll(p, <<ofile[p][e]>>)
                       /\ UNCHANGED <<pipeVars, ftable, opens, exiting, killed>>
  BY DEF sys_close
<1>2. PICK g \in FileIds : g = ofile[p][e]
  BY <1>1 DEF TypeOK, FileIds
<1>3. /\ \A q \in Procs \ {p} : ofile'[q] = ofile[q]
      /\ ofile'[p][e] = 0 /\ \A d \in FDs \ {e} : ofile'[p][d] = ofile[p][d]
      /\ ofile' \in [Procs -> [FDs -> 0 .. NFILE]]
  BY <1>1, FilesAssumption DEF TypeOK
<1>4. <<g>> \in Seq(FileIds) /\ CloseAll(p, <<g>>)
  BY <1>1, <1>2, ShortSeqs
<1>5. /\ pc' \in [Procs -> PcType] /\ op' \in [Procs -> CallType]
      /\ pc'[p] = "close" /\ op'[p].files = <<g>>
      /\ \A q \in Procs \ {p} : pc'[q] = pc[q] /\ op'[q] = op[q]
  BY <1>4, CloseAllIs
<1>6. op[p].files = <<>>
  BY <1>1 DEF InUser, HandInv, HandPcs
<1>7. TypeOK'
  BY <1>1, <1>3, <1>5 DEF TypeOK, pipeVars, CallType, PcType
<1>8. ofile[p][e] = g /\ ftable' = ftable
  BY <1>1, <1>2
<1>20. RefInv'
  BY <1>3, <1>5, <1>6, <1>7, <1>8, RefMove
<1>21. Quiet(p)
  BY <1>1, <1>3, <1>5, <1>8 DEF Quiet, SameFiles, PipePcs, ReadPcs, WritePcs, pipeVars, InUser
<1> QED BY <1>20, <1>21

LEMMA RefExitNext ==
  ASSUME RefInv, NEW p \in Procs, ExitNext(p)
  PROVE  RefInv' /\ Quiet(p)
<1> USE DEF RefInv
<1>1. /\ pc[p] = "close" /\ op[p].files = <<>>
      /\ UNCHANGED <<pipeVars, ftable, pc, opens, exiting, killed>>
  BY DEF ExitNext
<1>2. PICK e \in FDs : /\ ofile[p][e] # 0
                       /\ ofile' = [ofile EXCEPT ![p][e] = 0]
                       /\ op' = [op EXCEPT ![p].files = <<ofile[p][e]>>]
  BY DEF ExitNext
<1>3. PICK g \in FileIds : g = ofile[p][e]
  BY <1>2 DEF TypeOK, FileIds
<1>4. /\ \A q \in Procs \ {p} : ofile'[q] = ofile[q]
      /\ ofile'[p][e] = 0 /\ \A d \in FDs \ {e} : ofile'[p][d] = ofile[p][d]
      /\ ofile' \in [Procs -> [FDs -> 0 .. NFILE]]
  BY <1>2, FilesAssumption DEF TypeOK
<1>5. PICK s \in Seq(FileIds) : s = <<g>>
  BY ShortSeqs
<1>6. /\ op' \in [Procs -> CallType] /\ op'[p].files = <<g>>
      /\ \A q \in Procs \ {p} : op'[q] = op[q]
  <2>1. op' = [op EXCEPT ![p].files = s] /\ op \in [Procs -> CallType]
    BY <1>2, <1>3, <1>5 DEF TypeOK, CallType
  <2> QED BY <2>1, <1>5 DEF CallType
<1>7. TypeOK'
  BY <1>1, <1>4, <1>6 DEF TypeOK, pipeVars, CallType
<1>8. ofile[p][e] = g /\ ftable' = ftable /\ pc' = pc
  BY <1>1, <1>3
<1>20. RefInv'
  BY <1>1, <1>4, <1>6, <1>7, <1>8, RefMove
<1>21. Quiet(p)
  BY <1>1, <1>4, <1>6, <1>8 DEF Quiet, SameFiles, PipePcs, ReadPcs, WritePcs, pipeVars, InUser
<1> QED BY <1>20, <1>21

LEMMA RefExit ==
  ASSUME RefInv, NEW p \in Procs, exit(p)
  PROVE  RefInv' /\ Quiet(p)
<1> USE DEF RefInv
<1>1. /\ pc[p] = "user" /\ exiting' = exiting \cup {p} /\ CloseAll(p, <<>>)
      /\ UNCHANGED <<pipeVars, ofile, ftable, opens, killed>>
  BY DEF exit
<1>2. <<>> \in Seq(FileIds) /\ op[p].files = <<>>
  BY <1>1 DEF HandInv, HandPcs
<1>3. /\ pc' \in [Procs -> PcType] /\ op' \in [Procs -> CallType]
      /\ pc'[p] = "close" /\ op'[p].files = <<>>
      /\ \A q \in Procs \ {p} : pc'[q] = pc[q] /\ op'[q] = op[q]
  BY <1>1, <1>2, CloseAllIs
<1>4. TypeOK'
  BY <1>1, <1>3 DEF TypeOK, pipeVars, CallType, PcType
<1>5. ofile' = ofile /\ ftable' = ftable /\ \A q \in Procs : op'[q].files = op[q].files
  BY <1>1, <1>2, <1>3
<1>6. /\ \A q \in Procs : pc'[q] = "pipealloc" => pc[q] = "pipealloc"
      /\ \A q \in Procs : pc'[q] \notin HandPcs => op[q].files = <<>>
      /\ \A q \in Procs : pc'[q] = "unused" => \A fd \in FDs : ofile[q][fd] = 0
  BY <1>3 DEF HandInv, HandPcs
<1>7. \A q \in Procs : pc'[q] \in ReadPcs \cup WritePcs \cup {"pipeclose"} => op'[q].pipe \in Pages
  BY <1>3 DEF PageInv, ReadPcs, WritePcs
<1>20. RefInv'
  BY <1>4, <1>5, <1>6, <1>7, RefSilent
<1>21. Quiet(p)
  BY <1>1, <1>3, <1>5 DEF Quiet, SameFiles, PipePcs, ReadPcs, WritePcs, pipeVars, InUser
<1> QED BY <1>20, <1>21

LEMMA RefCloseDone ==
  ASSUME RefInv, NEW p \in Procs, CloseDone(p)
  PROVE  RefInv' /\ Quiet(p)
<1> USE DEF RefInv
<1>1. /\ pc[p] = "close" /\ op[p].files = <<>>
      /\ p \in exiting => \A fd \in FDs : ofile[p][fd] = 0
      /\ pc' = [pc EXCEPT ![p] = IF p \in exiting THEN "unused" ELSE "user"]
      /\ op' = [op EXCEPT ![p] = NoOp] /\ exiting' = exiting \ {p}
      /\ killed' \subseteq killed
      /\ UNCHANGED <<pipeVars, ofile, ftable, opens>>
  BY DEF CloseDone, Goto
<1>2. /\ pc' \in [Procs -> PcType] /\ op' \in [Procs -> CallType]
      /\ pc'[p] \in {"unused", "user"} /\ (pc'[p] = "unused" => p \in exiting)
      /\ op'[p].files = <<>>
      /\ \A q \in Procs \ {p} : pc'[q] = pc[q] /\ op'[q] = op[q]
  <2>1. pc \in [Procs -> PcType] /\ op \in [Procs -> CallType]
    BY DEF TypeOK, PcType, CallType
  <2>2. pc' \in [Procs -> PcType] /\ pc'[p] \in {"unused", "user"} /\ (pc'[p] = "unused" => p \in exiting)
    BY <1>1, <2>1 DEF PcType
  <2>3. op' \in [Procs -> CallType] /\ op'[p].files = <<>>
    BY <1>1, <2>1, NoOpType
  <2> QED BY <1>1, <2>1, <2>2, <2>3
<1>3. TypeOK'
  BY <1>1, <1>2 DEF TypeOK, pipeVars, CallType, PcType
<1>4. ofile' = ofile /\ ftable' = ftable /\ \A q \in Procs : op'[q].files = op[q].files
  BY <1>1, <1>2
<1>5. /\ \A q \in Procs : pc'[q] = "pipealloc" => pc[q] = "pipealloc"
      /\ \A q \in Procs : pc'[q] \notin HandPcs => op[q].files = <<>>
      /\ \A q \in Procs : pc'[q] = "unused" => \A fd \in FDs : ofile[q][fd] = 0
  BY <1>1, <1>2 DEF HandInv, HandPcs
<1>6. \A q \in Procs : pc'[q] \in ReadPcs \cup WritePcs \cup {"pipeclose"} => op'[q].pipe \in Pages
  BY <1>2 DEF PageInv, ReadPcs, WritePcs
<1>20. RefInv'
  BY <1>3, <1>4, <1>5, <1>6, RefSilent
<1>21. Quiet(p)
  BY <1>1, <1>2, <1>4 DEF Quiet, SameFiles, PipePcs, ReadPcs, WritePcs, pipeVars, InUser
<1> QED BY <1>20, <1>21

(* fileclose() takes the first file off what p has in hand. *)
LEMMA TailIs ==
  ASSUME TypeOK, HandInv, NEW p \in Procs, op[p].files # <<>>
  PROVE  /\ Head(op[p].files) \in FileIds /\ InHand(p, 1, Head(op[p].files))
         /\ Tail(op[p].files) \in Seq(FileIds) /\ Len(Tail(op[p].files)) <= 2
         /\ \A f \in FileIds : Occ(Tail(op[p].files), f) - Occ(op[p].files, f) =
                                 IF f = Head(op[p].files) THEN -1 ELSE 0
         /\ \A i \in DOMAIN Tail(op[p].files) : i = 1 /\ InHand(p, 2, Tail(op[p].files)[1])
<1>1. PICK s \in Seq(FileIds) : s = op[p].files /\ Len(s) <= 2 /\ s # <<>>
  BY DEF TypeOK, HandInv
<1>2. CASE \E g \in FileIds : s = <<g>>
  <2>1. PICK g \in FileIds : s = <<g>>
    BY <1>2
  <2>2. Head(s) = g /\ Tail(s) = <<>> /\ Len(Tail(s)) <= 2 /\ Tail(s) \in Seq(FileIds)
    BY <2>1, ShortSeqs
  <2>3. \A f \in FileIds : Occ(Tail(s), f) - Occ(s, f) = IF f = g THEN -1 ELSE 0
    BY <2>1, <2>2, OccIs DEF Bit
  <2> QED BY <1>1, <2>1, <2>2, <2>3, ShortDomains DEF InHand
<1>3. CASE \E g, h \in FileIds : s = <<g, h>>
  <2>1. PICK g \in FileIds, h \in FileIds : s = <<g, h>>
    BY <1>3
  <2>2. Head(s) = g /\ Tail(s) = <<h>> /\ Len(Tail(s)) <= 2 /\ Tail(s) \in Seq(FileIds)
    BY <2>1, ShortSeqs
  <2>3. \A f \in FileIds : Occ(Tail(s), f) - Occ(s, f) = IF f = g THEN -1 ELSE 0
    BY <2>1, <2>2, OccIs DEF Bit
  <2> QED BY <1>1, <2>1, <2>2, <2>3, ShortDomains DEF InHand
<1> QED BY <1>1, <1>2, <1>3, Short

(* The last reference to g, an end of a pipe, goes, and p closes that end next. *)
LastClose(p, g) ==
  /\ InHand(p, 1, g) /\ ftable[g].type = "pipe" /\ ftable[g].ref = 1
  /\ ftable'[g] = FreeFile /\ \A f \in FileIds \ {g} : ftable'[f] = ftable[f]
  /\ pc[p] = "close" /\ pc'[p] = "pipeclose"
  /\ op'[p].pipe = ftable[g].pipe /\ op'[p].writable = ftable[g].writable
  /\ \A q \in Procs \ {p} : op'[q] = op[q] /\ pc'[q] = pc[q]
  /\ UNCHANGED <<ofile, pipe, lock, unsignalled>>

LEMMA RefFileclose ==
  ASSUME RefInv, NEW p \in Procs, fileclose(p)
  PROVE  /\ RefInv'
         /\ Quiet(p) \/ \E g \in FileIds : LastClose(p, g)
<1> USE DEF RefInv
<1>1. pc[p] = "close" /\ op[p].files # <<>> /\ UNCHANGED <<pipeVars, ofile, opens, exiting, killed>>
  BY DEF fileclose
<1>2. PICK g \in FileIds : g = Head(op[p].files)
  BY <1>1, TailIs
<1>3. PICK s \in Seq(FileIds) : s = Tail(op[p].files)
  BY <1>1, TailIs
<1>4. /\ InHand(p, 1, g) /\ Len(s) <= 2
      /\ \A i \in DOMAIN s : i = 1 /\ InHand(p, 2, s[1])
      /\ \A f \in FileIds : Occ(s, f) - Occ(op[p].files, f) = IF f = g THEN -1 ELSE 0
  BY <1>1, <1>2, <1>3, TailIs
<1>5. PICK next \in CallType : next = [op[p] EXCEPT !.files = s] /\ next.files = s
  <2>1. op[p] \in CallType
    BY DEF TypeOK, CallType
  <2>2. [op[p] EXCEPT !.files = s] \in CallType /\ [op[p] EXCEPT !.files = s].files = s
    BY <2>1 DEF CallType
  <2> QED BY <2>2
<1>6. ftable[g] \in FileType /\ op \in [Procs -> CallType] /\ pc \in [Procs -> PcType]
  BY DEF TypeOK, FileType, CallType, PcType
<1>7. /\ ftable' \in [FileIds -> FileType]
      /\ ftable[g].ref \in Nat \ {0} /\ ftable'[g].ref = ftable[g].ref - 1
      /\ ftable'[g].ref = 0 => ftable'[g] = FreeFile
      /\ ftable'[g].type = "pipe" => ftable[g].type = "pipe" /\ ftable'[g].pipe = ftable[g].pipe
      /\ \A f \in FileIds \ {g} : ftable'[f] = ftable[f]
  <2>1. CASE ftable[g].ref > 1 /\ ftable' = [ftable EXCEPT ![g].ref = @ - 1]
    <3>1. PICK n \in Nat \ {0} : n = ftable[g].ref - 1
      BY <1>6, <2>1 DEF FileType
    <3>2. ftable' = [ftable EXCEPT ![g] = [ftable[g] EXCEPT !.ref = n]]
      BY <2>1, <3>1
    <3>3. n \in Nat /\ ftable[g].ref \in Nat \ {0} /\ n # 0
      BY <1>6, <2>1, <3>1 DEF FileType
    <3>4. /\ ftable' \in [FileIds -> FileType]
          /\ \A f \in FileIds : /\ ftable'[f].type = ftable[f].type
                                /\ ftable'[f].writable = ftable[f].writable
                                /\ ftable'[f].pipe = ftable[f].pipe
                                /\ ftable'[f].ref = IF f = g THEN n ELSE ftable[f].ref
          /\ \A f \in FileIds \ {g} : ftable'[f] = ftable[f]
      BY <3>2, <3>3, RefSet
    <3>5. ftable'[g].ref = n /\ ftable'[g].type = ftable[g].type /\ ftable'[g].pipe = ftable[g].pipe
      BY <3>4
    <3> QED BY <3>1, <3>3, <3>4, <3>5
  <2>2. CASE ftable[g].ref = 1 /\ ftable' = [ftable EXCEPT ![g] = FreeFile]
    <3>1. FreeFile \in FileType /\ FreeFile.ref = 0 /\ FreeFile.type = "none"
      BY DEF FreeFile, FileType
    <3>2. ftable \in [FileIds -> FileType]
      BY DEF TypeOK, FileType
    <3>3. ftable'[g] = FreeFile /\ ftable' \in [FileIds -> FileType]
          /\ \A f \in FileIds \ {g} : ftable'[f] = ftable[f]
      BY <2>2, <3>1, <3>2
    <3> QED BY <2>2, <3>1, <3>3
  <2> QED BY <1>2, <2>1, <2>2 DEF fileclose
<1>8. /\ op' \in [Procs -> CallType] /\ op'[p].files = s
      /\ pc' \in [Procs -> PcType] /\ pc'[p] \in {"close", "pipeclose"}
      /\ pc'[p] = "pipeclose" => op'[p].pipe \in Pages
      /\ \A q \in Procs \ {p} : op'[q] = op[q] /\ pc'[q] = pc[q]
  <2>1. CASE op' = [op EXCEPT ![p] = next] /\ UNCHANGED pc
    BY <1>1, <1>5, <1>6, <2>1
  <2>2. CASE /\ ftable[g].type = "pipe" /\ Goto(p, "pipeclose")
             /\ op' = [op EXCEPT ![p] = [next EXCEPT !.pipe = ftable[g].pipe,
                                                     !.writable = ftable[g].writable]]
    <3>1. ftable[g].pipe \in Pages /\ ftable[g].writable \in BOOLEAN
      BY <1>6, <2>2 DEF PageInv, FileType
    <3>2. PICK pg \in Pages, w \in BOOLEAN : pg = ftable[g].pipe /\ w = ftable[g].writable
      BY <3>1
    <3>3. PICK r : r = [next EXCEPT !.pipe = pg, !.writable = w]
      OBVIOUS
    <3>4. r \in CallType /\ r.files = s /\ r.pipe = pg
      BY <1>5, <3>3 DEF CallType
    <3>5. op' = [op EXCEPT ![p] = r]
      BY <2>2, <3>2, <3>3
    <3>6. pc' \in [Procs -> PcType] /\ pc'[p] = "pipeclose" /\ \A q \in Procs \ {p} : pc'[q] = pc[q]
      BY <1>6, <2>2 DEF Goto, PcType
    <3> QED BY <1>6, <3>4, <3>5, <3>6
  <2> QED BY <1>2, <1>3, <1>5, <2>1, <2>2 DEF fileclose
<1>71. \/ /\ pc'[p] = "close" /\ (ftable'[g].type = "pipe" <=> ftable[g].type = "pipe")
          /\ ftable'[g].type = "pipe" => ftable'[g].writable = ftable[g].writable
       \/ /\ pc'[p] = "pipeclose" /\ ftable[g].type = "pipe" /\ ftable[g].ref = 1
          /\ op'[p].pipe = ftable[g].pipe /\ op'[p].writable = ftable[g].writable
          /\ ftable'[g] = FreeFile
  <2>1. CASE ftable[g].ref > 1 /\ ftable' = [ftable EXCEPT ![g].ref = @ - 1] /\ UNCHANGED pc
    BY <1>1, <1>6, <2>1 DEF FileType, TypeOK
  <2>2. CASE /\ ftable[g].ref = 1 /\ ftable' = [ftable EXCEPT ![g] = FreeFile]
             /\ ftable[g].type # "pipe" /\ UNCHANGED pc
    BY <1>1, <1>6, <2>2 DEF FreeFile, TypeOK
  <2>3. CASE /\ ftable[g].ref = 1 /\ ftable' = [ftable EXCEPT ![g] = FreeFile]
             /\ ftable[g].type = "pipe" /\ Goto(p, "pipeclose")
             /\ op' = [op EXCEPT ![p] = [next EXCEPT !.pipe = ftable[g].pipe,
                                                     !.writable = ftable[g].writable]]
    <3>1. PICK r : r = [next EXCEPT !.pipe = ftable[g].pipe, !.writable = ftable[g].writable]
      OBVIOUS
    <3>2. r.pipe = ftable[g].pipe /\ r.writable = ftable[g].writable
      BY <1>5, <3>1 DEF CallType
    <3>3. op'[p] = r /\ pc'[p] = "pipeclose" /\ ftable'[g] = FreeFile
      BY <1>6, <2>3, <3>1 DEF Goto, TypeOK
    <3> QED BY <2>3, <3>2, <3>3
  <2> QED BY <1>2, <1>3, <1>5, <2>1, <2>2, <2>3 DEF fileclose
<1>9. TypeOK'
  BY <1>1, <1>7, <1>8 DEF TypeOK, pipeVars, FileType, CallType, PcType
<1>10. HandInv'
  <2>1. Len(op'[p].files) <= 2 /\ pc'[p] \in HandPcs /\ pc'[p] # "unused"
    BY <1>4, <1>8 DEF HandPcs
  <2>2. \A q \in Procs : Len(op'[q].files) <= 2
    BY <1>8, <2>1 DEF HandInv
  <2>3. \A q \in Procs : pc'[q] \notin HandPcs => op'[q].files = <<>>
    BY <1>8, <2>1 DEF HandInv
  <2>4. \A q \in Procs : pc'[q] = "unused" => \A fd \in FDs : ofile'[q][fd] = 0
    BY <1>1, <1>8, <2>1 DEF HandInv
  <2> QED BY <2>2, <2>3, <2>4 DEF HandInv
<1>11. PageInv'
  <2>1. \A f \in FileIds : ftable'[f].type = "pipe" => ftable'[f].pipe \in Pages
    BY <1>7 DEF PageInv
  <2>2. \A q \in Procs : pc'[q] \in ReadPcs \cup WritePcs \cup {"pipeclose"} => op'[q].pipe \in Pages
    BY <1>8 DEF PageInv, ReadPcs, WritePcs
  <2> QED BY <2>1, <2>2 DEF PageInv
<1>12. PrivateInv'
  <2> SUFFICES ASSUME NEW r \in Procs, NEW i \in 1 .. 2, NEW f \in FileIds,
                      pc'[r] = "pipealloc", InHand(r, i, f)'
               PROVE  /\ ftable'[f] = [FreeFile EXCEPT !.ref = 1]
                      /\ \A q \in Procs, fd \in FDs : ofile'[q][fd] # f
                      /\ \A q \in Procs, j \in 1 .. 2 : InHand(q, j, f)' => q = r /\ j = i
    BY DEF PrivateInv
  <2>1. r # p /\ pc[r] = "pipealloc" /\ InHand(r, i, f)
    BY <1>8 DEF InHand
  <2>2. /\ ftable[f] = [FreeFile EXCEPT !.ref = 1]
        /\ \A q \in Procs, fd \in FDs : ofile[q][fd] # f
        /\ \A q \in Procs, j \in 1 .. 2 : InHand(q, j, f) => q = r /\ j = i
    BY <2>1 DEF PrivateInv
  <2>3. f # g
    BY <1>4, <2>1, <2>2
  <2>4. \A j \in 1 .. 2 : ~InHand(p, j, f)'
    <3> SUFFICES ASSUME NEW j \in 1 .. 2, InHand(p, j, f)' PROVE FALSE
      OBVIOUS
    <3>1. j \in DOMAIN s /\ s[j] = f
      BY <1>8 DEF InHand
    <3>2. InHand(p, 2, f)
      BY <1>4, <3>1
    <3> QED BY <2>1, <2>2, <3>2
  <2>5. \A q \in Procs, j \in 1 .. 2 : InHand(q, j, f)' => InHand(q, j, f)
    BY <1>8, <2>4 DEF InHand
  <2>6. ftable'[f] = ftable[f] /\ ofile' = ofile
    BY <1>1, <1>7, <2>3
  <2> QED BY <2>2, <2>5, <2>6
<1>13. CountInv'
  <2>1. ASSUME NEW f \in FileIds
        PROVE  ftable'[f].ref = ftable[f].ref + (Occ(op'[p].files, f) - Occ(op[p].files, f))
    <3>1. Occ(op'[p].files, f) - Occ(op[p].files, f) = IF f = g THEN -1 ELSE 0
      BY <1>4, <1>8
    <3>2. ftable[f].ref \in Nat
      BY DEF TypeOK
    <3> QED BY <1>7, <3>1, <3>2
  <2>2. ofile' = ofile /\ \A q \in Procs \ {p} : op'[q].files = op[q].files
    BY <1>1, <1>8
  <2>3. \A f \in FileIds : ftable'[f].ref = Refs(f)'
    BY <2>1, <2>2, CountHand
  <2>4. \A f \in FileIds : ftable'[f].ref = 0 => ftable'[f] = FreeFile
    BY <1>7 DEF CountInv
  <2> QED BY <2>3, <2>4 DEF CountInv
<1>14. Quiet(p) \/ LastClose(p, g)
  <2>1. CASE pc'[p] = "close"
    <3>1. SameFiles
      BY <1>7, <1>71, <2>1 DEF SameFiles
    <3> QED BY <1>1, <1>8, <2>1, <3>1 DEF Quiet, PipePcs, ReadPcs, WritePcs, pipeVars
  <2>2. CASE pc'[p] = "pipeclose"
    BY <1>1, <1>4, <1>7, <1>71, <1>8, <2>2 DEF LastClose, pipeVars
  <2> QED BY <1>8, <2>1, <2>2
<1> QED BY <1>9, <1>10, <1>11, <1>12, <1>13, <1>14

(* Two free descriptors of p get a file each. *)
LEMMA GainedTwo ==
  ASSUME NEW p \in Procs, NEW e \in FDs, NEW d \in FDs, d # e, NEW f \in FileIds,
         NEW g \in FileIds, NEW h \in FileIds, g # h,
         ofile[p][e] \notin FileIds, ofile[p][d] \notin FileIds,
         ofile'[p][e] = g, ofile'[p][d] = h,
         \A c \in FDs \ {d, e} : ofile'[p][c] = ofile[p][c]
  PROVE  /\ Cardinality(OwnDescr(ofile, p, f)) \in Nat
         /\ f = g \/ f = h =>
              Cardinality(OwnDescr(ofile', p, f)) = Cardinality(OwnDescr(ofile, p, f)) + 1
         /\ f # g /\ f # h =>
              Cardinality(OwnDescr(ofile', p, f)) = Cardinality(OwnDescr(ofile, p, f))
<1>1. PICK o : o = [q \in {p} |-> [c \in FDs |-> IF c = e THEN g ELSE ofile[p][c]]]
  OBVIOUS
<1>2. o[p][e] = g /\ \A c \in FDs \ {e} : o[p][c] = ofile[p][c]
  BY <1>1
<1>3. o[p][e] \in FileIds /\ o[p][d] \notin FileIds /\ \A c \in FDs \ {d} : ofile'[p][c] = o[p][c]
  BY <1>2
<1>4. /\ Cardinality(OwnDescr(ofile, p, f)) \in Nat
      /\ f = g => Cardinality(OwnDescr(o, p, f)) = Cardinality(OwnDescr(ofile, p, f)) + 1
      /\ f # g => Cardinality(OwnDescr(o, p, f)) = Cardinality(OwnDescr(ofile, p, f))
  <2>0. /\ o[p][e] \in FileIds /\ ofile[p][e] \notin FileIds
        /\ \A c \in FDs \ {e} : o[p][c] = ofile[p][c]
    BY <1>2
  <2>1. /\ Cardinality(OwnDescr(ofile, p, f)) \in Nat
        /\ f = o[p][e] => Cardinality(OwnDescr(o, p, f)) = Cardinality(OwnDescr(ofile, p, f)) + 1
        /\ f # o[p][e] => Cardinality(OwnDescr(o, p, f)) = Cardinality(OwnDescr(ofile, p, f))
    BY <2>0, Gains
  <2> QED BY <1>2, <2>1
<1>5. /\ f = h => Cardinality(OwnDescr(ofile', p, f)) = Cardinality(OwnDescr(o, p, f)) + 1
      /\ f # h => Cardinality(OwnDescr(ofile', p, f)) = Cardinality(OwnDescr(o, p, f))
  <2>1. ofile'[p][d] \in FileIds
    OBVIOUS
  <2>2. /\ f = ofile'[p][d] => Cardinality(OwnDescr(ofile', p, f)) = Cardinality(OwnDescr(o, p, f)) + 1
        /\ f # ofile'[p][d] => Cardinality(OwnDescr(ofile', p, f)) = Cardinality(OwnDescr(o, p, f))
    BY <1>3, <2>1, Gains, SMTT(20)
  <2> QED BY <2>2
<1>6. CASE f = g
  BY <1>4, <1>5, <1>6
<1>7. CASE f = h
  BY <1>4, <1>5, <1>7
<1>8. CASE f # g /\ f # h
  BY <1>4, <1>5, <1>8
<1> QED BY <1>6, <1>7, <1>8

(* A pipe is made in the free page pg from the two files pipealloc() has. *)
Created(p, rf, wf, pg) ==
  /\ ftable[rf] = [FreeFile EXCEPT !.ref = 1] /\ ftable[wf] = [FreeFile EXCEPT !.ref = 1]
  /\ rf # wf /\ pipe[pg] = FreePipe
  /\ pipe' = [pipe EXCEPT ![pg].readopen = TRUE, ![pg].writeopen = TRUE]
  /\ ftable'[rf] = [ref |-> 1, type |-> "pipe", writable |-> FALSE, pipe |-> pg]
  /\ ftable'[wf] = [ref |-> 1, type |-> "pipe", writable |-> TRUE, pipe |-> pg]
  /\ \A f \in FileIds \ {rf, wf} : ftable'[f] = ftable[f]
  /\ pc[p] = "pipealloc" /\ pc'[p] \in {"user", "close"}
  /\ \A q \in Procs \ {p} : ofile'[q] = ofile[q] /\ op'[q] = op[q] /\ pc'[q] = pc[q]
  /\ UNCHANGED <<lock, unsignalled>>

PipeType == [nread : 0 .. CounterMod - 1, nwrite : 0 .. CounterMod - 1, readopen : BOOLEAN,
             writeopen : BOOLEAN, data : [0 .. PIPESIZE - 1 -> Byte]]

LEMMA PipesTyped ==
  ASSUME TypeOK PROVE pipe \in [Pages -> PipeType]
BY DEF TypeOK, PipeType

LEMMA OpenedPipe ==
  ASSUME TypeOK, NEW pg \in Pages,
         pipe' = [pipe EXCEPT ![pg].readopen = TRUE, ![pg].writeopen = TRUE]
  PROVE  /\ pipe' \in [Pages -> PipeType]
         /\ pipe'[pg].nread = pipe[pg].nread /\ pipe'[pg].nwrite = pipe[pg].nwrite
         /\ pipe'[pg].data = pipe[pg].data /\ pipe'[pg].readopen /\ pipe'[pg].writeopen
         /\ \A u \in Pages \ {pg} : pipe'[u] = pipe[u]
<1>1. pipe \in [Pages -> PipeType]
  BY DEF TypeOK, PipeType
<1>2. pipe[pg] \in PipeType
  BY <1>1
<1>3. PICK r : r = [pipe[pg] EXCEPT !.readopen = TRUE, !.writeopen = TRUE]
  OBVIOUS
<1>4. /\ r \in PipeType /\ r.nread = pipe[pg].nread /\ r.nwrite = pipe[pg].nwrite
      /\ r.data = pipe[pg].data /\ r.readopen = TRUE /\ r.writeopen = TRUE
  BY <1>2, <1>3 DEF PipeType
<1>5. pipe' = [pipe EXCEPT ![pg] = r]
  BY <1>1, <1>3
<1> QED BY <1>1, <1>4, <1>5

(* What pipealloc() has in hand when it has both files. *)
LEMMA TwoFiles ==
  ASSUME RefInv, NEW p \in Procs, pc[p] = "pipealloc", Len(op[p].files) = 2
  PROVE  \E rf, wf \in FileIds :
           /\ op[p].files = <<rf, wf>> /\ op[p].files[1] = rf /\ op[p].files[2] = wf /\ rf # wf
           /\ \A f \in {rf, wf} :
                /\ ftable[f] = [FreeFile EXCEPT !.ref = 1]
                /\ \A q \in Procs, fd \in FDs : ofile[q][fd] # f
                /\ \A q \in Procs, j \in 1 .. 2 : InHand(q, j, f) => q = p
<1>1. PICK s \in Seq(FileIds) : s = op[p].files /\ Len(s) = 2
  BY DEF RefInv, TypeOK
<1>2. s[1] \in FileIds /\ s[2] \in FileIds
  BY <1>1
<1>3. s = <<s[1], s[2]>>
  BY <1>1, PairIs
<1>4. PICK rf \in FileIds, wf \in FileIds : s = <<rf, wf>> /\ rf = s[1] /\ wf = s[2]
  BY <1>2, <1>3
<1>5. InHand(p, 1, rf) /\ InHand(p, 2, wf)
  BY <1>1, <1>4, ShortDomains DEF InHand
<1>6. 1 \in 1 .. 2 /\ 2 \in 1 .. 2 /\ 1 # 2
  OBVIOUS
<1>7. rf # wf
  BY <1>5, <1>6 DEF RefInv, PrivateInv
<1>8. ASSUME NEW f \in FileIds, f = rf \/ f = wf
      PROVE  /\ ftable[f] = [FreeFile EXCEPT !.ref = 1]
             /\ \A q \in Procs, fd \in FDs : ofile[q][fd] # f
             /\ \A q \in Procs, j \in 1 .. 2 : InHand(q, j, f) => q = p
  BY <1>5, <1>6, <1>8 DEF RefInv, PrivateInv
<1> QED BY <1>1, <1>4, <1>7, <1>8

(* PipePage(p) when it makes a pipe: the parts of the step. *)
LEMMA CreatedIs ==
  ASSUME RefInv, NEW p \in Procs, PipePage(p),
         ~(CloseAll(p, op[p].files) /\ UNCHANGED <<pipeVars, ofile, ftable>>)
  PROVE  \E rf, wf \in FileIds, pg \in Pages :
           /\ Created(p, rf, wf, pg) /\ op[p].files = <<rf, wf>> /\ TypeOK'
           /\ \A f \in {rf, wf} : /\ \A q \in Procs, fd \in FDs : ofile[q][fd] # f
                                  /\ \A q \in Procs, j \in 1 .. 2 : InHand(q, j, f) => q = p
           /\ \/ pc'[p] = "close" /\ op'[p].files = <<rf, wf>> /\ ofile' = ofile
              \/ /\ pc'[p] = "user" /\ op'[p].files = <<>>
                 /\ \E e, d \in FDs : /\ d # e /\ ofile[p][e] = 0 /\ ofile[p][d] = 0
                                      /\ ofile'[p][e] = rf /\ ofile'[p][d] = wf
                                      /\ \A c \in FDs \ {d, e} : ofile'[p][c] = ofile[p][c]
<1> USE DEF RefInv
<1>1. pc[p] = "pipealloc" /\ Len(op[p].files) = 2 /\ UNCHANGED <<opens, exiting, killed>>
  BY DEF PipePage
<1>2. PICK rf \in FileIds, wf \in FileIds :
        /\ op[p].files = <<rf, wf>> /\ op[p].files[1] = rf /\ op[p].files[2] = wf /\ rf # wf
        /\ \A f \in {rf, wf} :
             /\ ftable[f] = [FreeFile EXCEPT !.ref = 1]
             /\ \A q \in Procs, fd \in FDs : ofile[q][fd] # f
             /\ \A q \in Procs, j \in 1 .. 2 : InHand(q, j, f) => q = p
  BY <1>1, TwoFiles
<1>3. op[p].files \in Seq(FileIds) /\ <<rf, wf>> \in Seq(FileIds)
  BY <1>2, ShortSeqs DEF TypeOK
<1>5. PICK pg \in Pages :
        /\ pipe[pg] = FreePipe
        /\ pipe' = [pipe EXCEPT ![pg].readopen = TRUE, ![pg].writeopen = TRUE]
        /\ ftable' = [ftable EXCEPT
              ![rf] = [ref |-> 1, type |-> "pipe", writable |-> FALSE, pipe |-> pg],
              ![wf] = [ref |-> 1, type |-> "pipe", writable |-> TRUE, pipe |-> pg]]
        /\ IF Cardinality(FreeFds(p)) < 2
           THEN CloseAll(p, <<rf, wf>>) /\ UNCHANGED ofile
           ELSE /\ ofile' = [ofile EXCEPT ![p][Min(FreeFds(p))] = rf,
                                 ![p][Min(FreeFds(p) \ {Min(FreeFds(p))})] = wf]
                /\ Goto(p, "user") /\ op' = [op EXCEPT ![p] = NoOp]
        /\ UNCHANGED <<lock, unsignalled>>
  BY <1>2 DEF PipePage
<1>6. PICK r : r = [ref |-> 1, type |-> "pipe", writable |-> FALSE, pipe |-> pg]
  OBVIOUS
<1>7. PICK w : w = [ref |-> 1, type |-> "pipe", writable |-> TRUE, pipe |-> pg]
  OBVIOUS
<1>8. r \in FileType /\ w \in FileType
  BY <1>6, <1>7 DEF FileType
<1>9. /\ ftable' \in [FileIds -> FileType] /\ ftable'[rf] = r /\ ftable'[wf] = w
      /\ \A f \in FileIds \ {rf, wf} : ftable'[f] = ftable[f]
  <2>1. ftable \in [FileIds -> FileType] /\ ftable' = [ftable EXCEPT ![rf] = r, ![wf] = w]
    BY <1>5, <1>6, <1>7 DEF TypeOK, FileType
  <2> QED BY <1>2, <1>8, <2>1
<1>10. pipe' \in [Pages -> PipeType]
  BY <1>5, OpenedPipe
<1>11. CASE Cardinality(FreeFds(p)) < 2
  <2>1. CloseAll(p, <<rf, wf>>) /\ ofile' = ofile
    BY <1>5, <1>11
  <2>2. /\ pc' \in [Procs -> PcType] /\ op' \in [Procs -> CallType]
        /\ pc'[p] = "close" /\ op'[p].files = <<rf, wf>>
        /\ \A q \in Procs \ {p} : pc'[q] = pc[q] /\ op'[q] = op[q]
    BY <1>3, <2>1, CloseAllIs
  <2>3. TypeOK'
    BY <1>1, <1>5, <1>9, <1>10, <2>1, <2>2 DEF TypeOK, FileType, CallType, PcType, PipeType
  <2>4. Created(p, rf, wf, pg)
    BY <1>1, <1>2, <1>5, <1>6, <1>7, <1>9, <2>1, <2>2 DEF Created
  <2> QED BY <1>2, <2>1, <2>2, <2>3, <2>4
<1>12. CASE ~(Cardinality(FreeFds(p)) < 2)
  <2>1. FreeFds(p) # {} /\ FreeFds(p) \ {Min(FreeFds(p))} # {}
    <3>1. FreeFds(p) # {}
      BY <1>12, FS_EmptySet
    <3>2. IsFiniteSet(FreeFds(p))
      <4>1. FreeFds(p) \in SUBSET FDs
        BY DEF FreeFds
      <4> QED BY <4>1, Finite, FS_Subset
    <3>3. FreeFds(p) # {Min(FreeFds(p))}
      <4> SUFFICES ASSUME FreeFds(p) = {Min(FreeFds(p))} PROVE FALSE
        OBVIOUS
      <4>1. Cardinality(FreeFds(p)) = 1
        BY FS_Singleton
      <4> QED BY <1>12, <4>1
    <3> QED BY <3>1, <3>3
  <2>2. PICK e \in FDs : e = Min(FreeFds(p)) /\ ofile[p][e] = 0
    BY <2>1, FdIs
  <2>3. PICK d \in FDs : d = Min(FreeFds(p) \ {e}) /\ d \in FreeFds(p) \ {e} /\ ofile[p][d] = 0
    <3>1. FreeFds(p) \ {e} \in SUBSET FreeFds(p) /\ FreeFds(p) \ {e} # {}
      BY <2>1, <2>2
    <3> QED BY <3>1, FdIs
  <2>4. ofile' = [ofile EXCEPT ![p][e] = rf, ![p][d] = wf] /\ d # e
    BY <1>5, <1>12, <2>2, <2>3
  <2>5. /\ \A q \in Procs \ {p} : ofile'[q] = ofile[q]
        /\ ofile'[p][e] = rf /\ ofile'[p][d] = wf
        /\ \A c \in FDs \ {d, e} : ofile'[p][c] = ofile[p][c]
        /\ ofile' \in [Procs -> [FDs -> 0 .. NFILE]]
    <3>1. ofile \in [Procs -> [FDs -> 0 .. NFILE]] /\ ofile[p] \in [FDs -> 0 .. NFILE]
      BY DEF TypeOK
    <3>2. rf \in 0 .. NFILE /\ wf \in 0 .. NFILE
      BY DEF FileIds
    <3>3. PICK row : row = [ofile[p] EXCEPT ![e] = rf, ![d] = wf]
      OBVIOUS
    <3>4. /\ row \in [FDs -> 0 .. NFILE] /\ row[e] = rf /\ row[d] = wf
          /\ \A c \in FDs \ {d, e} : row[c] = ofile[p][c]
      BY <2>4, <3>1, <3>2, <3>3
    <3>5. ofile' = [ofile EXCEPT ![p] = row]
      BY <2>4, <3>1, <3>3
    <3> QED BY <3>1, <3>4, <3>5
  <2>6. /\ pc' \in [Procs -> PcType] /\ op' \in [Procs -> CallType]
        /\ pc'[p] = "user" /\ op'[p].files = <<>>
        /\ \A q \in Procs \ {p} : pc'[q] = pc[q] /\ op'[q] = op[q]
    <3>1. pc \in [Procs -> PcType] /\ op \in [Procs -> CallType]
      BY DEF TypeOK, PcType, CallType
    <3>2. pc' = [pc EXCEPT ![p] = "user"] /\ op' = [op EXCEPT ![p] = NoOp]
      BY <1>5, <1>12 DEF Goto
    <3>3. "user" \in PcType
      BY DEF PcType
    <3> QED BY <3>1, <3>2, <3>3, NoOpType
  <2>7. TypeOK'
    BY <1>1, <1>5, <1>9, <1>10, <2>5, <2>6 DEF TypeOK, FileType, CallType, PcType, PipeType
  <2>8. Created(p, rf, wf, pg)
    BY <1>1, <1>2, <1>5, <1>6, <1>7, <1>9, <2>5, <2>6 DEF Created
  <2> QED BY <1>2, <2>2, <2>3, <2>4, <2>5, <2>6, <2>7, <2>8
<1> QED BY <1>11, <1>12

LEMMA RefCreated ==
  ASSUME RefInv, NEW p \in Procs, TypeOK',
         NEW rf \in FileIds, NEW wf \in FileIds, NEW pg \in Pages, Created(p, rf, wf, pg),
         op[p].files = <<rf, wf>>,
         \A f \in {rf, wf} : /\ \A q \in Procs, fd \in FDs : ofile[q][fd] # f
                             /\ \A q \in Procs, j \in 1 .. 2 : InHand(q, j, f) => q = p,
         \/ pc'[p] = "close" /\ op'[p].files = <<rf, wf>> /\ ofile' = ofile
         \/ /\ pc'[p] = "user" /\ op'[p].files = <<>>
            /\ \E e, d \in FDs : /\ d # e /\ ofile[p][e] = 0 /\ ofile[p][d] = 0
                                 /\ ofile'[p][e] = rf /\ ofile'[p][d] = wf
                                 /\ \A c \in FDs \ {d, e} : ofile'[p][c] = ofile[p][c]
  PROVE  RefInv'
<1> USE DEF RefInv
<1>1. /\ rf # wf /\ pc[p] = "pipealloc"
      /\ \A q \in Procs \ {p} : ofile'[q] = ofile[q] /\ op'[q] = op[q] /\ pc'[q] = pc[q]
      /\ \A f \in FileIds \ {rf, wf} : ftable'[f] = ftable[f]
  BY DEF Created
<1>2. /\ ftable[rf].ref = 1 /\ ftable'[rf].ref = 1 /\ ftable[wf].ref = 1 /\ ftable'[wf].ref = 1
      /\ ftable'[rf].pipe = pg /\ ftable'[wf].pipe = pg
  BY DEF Created, FreeFile
<1>3. HandInv'
  <2>1. \A q \in Procs : Len(op'[q].files) <= 2
    <3>1. Len(op'[p].files) <= 2
      <4>1. CASE op'[p].files = <<rf, wf>>
        BY <4>1
      <4>2. CASE op'[p].files = <<>>
        BY <4>2
      <4> QED BY <4>1, <4>2
    <3> QED BY <1>1, <3>1 DEF HandInv
  <2>2. \A q \in Procs : pc'[q] \notin HandPcs => op'[q].files = <<>>
    BY <1>1 DEF HandInv, HandPcs
  <2>3. \A q \in Procs : pc'[q] = "unused" => \A fd \in FDs : ofile'[q][fd] = 0
    BY <1>1 DEF HandInv
  <2> QED BY <2>1, <2>2, <2>3 DEF HandInv
<1>4. PageInv'
  <2>1. \A f \in FileIds : ftable'[f].type = "pipe" => ftable'[f].pipe \in Pages
    BY <1>1, <1>2 DEF PageInv
  <2>2. \A q \in Procs : pc'[q] \in ReadPcs \cup WritePcs \cup {"pipeclose"} => op'[q].pipe \in Pages
    BY <1>1 DEF PageInv, ReadPcs, WritePcs
  <2> QED BY <2>1, <2>2 DEF PageInv
<1>5. PrivateInv'
  <2> SUFFICES ASSUME NEW r \in Procs, NEW i \in 1 .. 2, NEW f \in FileIds,
                      pc'[r] = "pipealloc", InHand(r, i, f)'
               PROVE  /\ ftable'[f] = [FreeFile EXCEPT !.ref = 1]
                      /\ \A q \in Procs, fd \in FDs : ofile'[q][fd] # f
                      /\ \A q \in Procs, j \in 1 .. 2 : InHand(q, j, f)' => q = r /\ j = i
    BY DEF PrivateInv
  <2>1. r # p /\ pc[r] = "pipealloc" /\ InHand(r, i, f)
    BY <1>1 DEF InHand
  <2>2. /\ ftable[f] = [FreeFile EXCEPT !.ref = 1]
        /\ \A q \in Procs, fd \in FDs : ofile[q][fd] # f
        /\ \A q \in Procs, j \in 1 .. 2 : InHand(q, j, f) => q = r /\ j = i
    BY <2>1 DEF PrivateInv
  <2>3. f # rf /\ f # wf
    BY <2>1
  <2>4. ftable'[f] = ftable[f]
    BY <1>1, <2>3
  <2>5. \A q \in Procs, fd \in FDs : ofile'[q][fd] # f
    <3> SUFFICES ASSUME NEW q \in Procs, NEW fd \in FDs PROVE ofile'[q][fd] # f
      OBVIOUS
    <3>1. CASE q # p
      BY <1>1, <2>2, <3>1
    <3>2. CASE q = p /\ ofile' = ofile
      BY <2>2, <3>2
    <3>3. CASE q = p /\ \E e, d \in FDs : /\ ofile'[p][e] = rf /\ ofile'[p][d] = wf
                                          /\ \A c \in FDs \ {d, e} : ofile'[p][c] = ofile[p][c]
      BY <2>2, <2>3, <3>3
    <3> QED BY <3>1, <3>2, <3>3
  <2>6. \A q \in Procs, j \in 1 .. 2 : InHand(q, j, f)' => InHand(q, j, f)
    <3> SUFFICES ASSUME NEW q \in Procs, NEW j \in 1 .. 2, InHand(q, j, f)' PROVE InHand(q, j, f)
      OBVIOUS
    <3>1. CASE q # p
      BY <1>1, <3>1 DEF InHand
    <3>2. CASE q = p
      BY <3>2, ShortDomains DEF InHand
    <3> QED BY <3>1, <3>2
  <2> QED BY <2>2, <2>4, <2>5, <2>6
<1>6. CountInv'
  <2>1. ASSUME NEW f \in FileIds PROVE ftable'[f].ref = ftable[f].ref /\ ftable[f].ref \in Nat
    <3>1. CASE f = rf \/ f = wf
      BY <1>2, <3>1
    <3>2. CASE f \notin {rf, wf}
      BY <1>1, <3>2 DEF TypeOK
    <3> QED BY <3>1, <3>2
  <2>2. ASSUME NEW f \in FileIds
        PROVE  ftable'[f].ref = ftable[f].ref
                 + (Cardinality(OwnDescr(ofile', p, f)) - Cardinality(OwnDescr(ofile, p, f)))
                 + (Occ(op'[p].files, f) - Occ(op[p].files, f))
    <3>1. CASE op'[p].files = <<rf, wf>> /\ ofile' = ofile
      <4>1. Cardinality(OwnDescr(ofile, p, f)) \in Nat
        BY Finite, FS_CardinalityType
      <4>2. Cardinality(OwnDescr(ofile', p, f)) - Cardinality(OwnDescr(ofile, p, f)) = 0
        BY <3>1, <4>1
      <4>3. Occ(op'[p].files, f) - Occ(op[p].files, f) = 0
        BY <3>1 DEF Occ, Bit
      <4> QED BY <2>1, <4>2, <4>3
    <3>2. CASE /\ op'[p].files = <<>>
               /\ \E e, d \in FDs : /\ d # e /\ ofile[p][e] = 0 /\ ofile[p][d] = 0
                                    /\ ofile'[p][e] = rf /\ ofile'[p][d] = wf
                                    /\ \A c \in FDs \ {d, e} : ofile'[p][c] = ofile[p][c]
      <4>1. PICK e \in FDs, d \in FDs : /\ d # e /\ ofile[p][e] = 0 /\ ofile[p][d] = 0
                                        /\ ofile'[p][e] = rf /\ ofile'[p][d] = wf
                                        /\ \A c \in FDs \ {d, e} : ofile'[p][c] = ofile[p][c]
        BY <3>2
      <4>2. 0 \notin FileIds
        BY DEF FileIds
      <4>3. ofile[p][e] \notin FileIds /\ ofile[p][d] \notin FileIds
        BY <4>1, <4>2
      <4>4. /\ Cardinality(OwnDescr(ofile, p, f)) \in Nat
            /\ f = rf \/ f = wf =>
                 Cardinality(OwnDescr(ofile', p, f)) = Cardinality(OwnDescr(ofile, p, f)) + 1
            /\ f # rf /\ f # wf =>
                 Cardinality(OwnDescr(ofile', p, f)) = Cardinality(OwnDescr(ofile, p, f))
        BY <1>1, <4>1, <4>3, GainedTwo
      <4>5. /\ f = rf \/ f = wf => Occ(op'[p].files, f) - Occ(op[p].files, f) = -1
            /\ f # rf /\ f # wf => Occ(op'[p].files, f) - Occ(op[p].files, f) = 0
        <5>1. Occ(op'[p].files, f) = 0 /\ Occ(op[p].files, f) = Bit(rf = f) + Bit(wf = f)
          BY <3>2, OccIs
        <5> QED BY <1>1, <5>1 DEF Bit
      <4>6. CASE f = rf \/ f = wf
        BY <2>1, <4>4, <4>5, <4>6
      <4>7. CASE f # rf /\ f # wf
        BY <2>1, <4>4, <4>5, <4>7
      <4> QED BY <4>6, <4>7
    <3> QED BY <3>1, <3>2
  <2>3. \A q \in Procs \ {p} : /\ \A fd \in FDs : ofile'[q][fd] = ofile[q][fd]
                               /\ op'[q].files = op[q].files
    BY <1>1
  <2>4. \A f \in FileIds : ftable'[f].ref = Refs(f)'
    BY <2>2, <2>3, CountStep
  <2>5. \A f \in FileIds : ftable'[f].ref = 0 => ftable'[f] = FreeFile
    BY <1>1, <1>2 DEF CountInv
  <2> QED BY <2>4, <2>5 DEF CountInv
<1> QED BY <1>3, <1>4, <1>5, <1>6

LEMMA RefPipePage ==
  ASSUME RefInv, NEW p \in Procs, PipePage(p)
  PROVE  /\ RefInv'
         /\ Quiet(p) \/ \E rf, wf \in FileIds, pg \in Pages : Created(p, rf, wf, pg)
<1>1. CASE CloseAll(p, op[p].files) /\ UNCHANGED <<pipeVars, ofile, ftable>>
  <2> USE DEF RefInv
  <2>1. pc[p] = "pipealloc" /\ UNCHANGED <<opens, exiting, killed>> /\ op[p].files \in Seq(FileIds)
    BY DEF PipePage, TypeOK
  <2>2. /\ pc' \in [Procs -> PcType] /\ op' \in [Procs -> CallType]
        /\ pc'[p] = "close" /\ op'[p].files = op[p].files
        /\ \A q \in Procs \ {p} : pc'[q] = pc[q] /\ op'[q] = op[q]
    BY <1>1, <2>1, CloseAllIs
  <2>3. TypeOK'
    BY <1>1, <2>1, <2>2 DEF TypeOK, pipeVars, CallType, PcType
  <2>4. ofile' = ofile /\ ftable' = ftable /\ \A q \in Procs : op'[q].files = op[q].files
    BY <1>1, <2>2
  <2>5. /\ \A q \in Procs : pc'[q] = "pipealloc" => pc[q] = "pipealloc"
        /\ \A q \in Procs : pc'[q] \notin HandPcs => op[q].files = <<>>
        /\ \A q \in Procs : pc'[q] = "unused" => \A fd \in FDs : ofile[q][fd] = 0
    BY <2>2 DEF HandInv, HandPcs
  <2>6. \A q \in Procs : pc'[q] \in ReadPcs \cup WritePcs \cup {"pipeclose"} => op'[q].pipe \in Pages
    BY <2>2 DEF PageInv, ReadPcs, WritePcs
  <2>7. RefInv'
    BY <2>3, <2>4, <2>5, <2>6, RefSilent
  <2>8. Quiet(p)
    BY <1>1, <2>1, <2>2, <2>4 DEF Quiet, SameFiles, PipePcs, ReadPcs, WritePcs, pipeVars
  <2> QED BY <2>7, <2>8
<1>2. CASE ~(CloseAll(p, op[p].files) /\ UNCHANGED <<pipeVars, ofile, ftable>>)
  BY <1>2, CreatedIs, RefCreated
<1> QED BY <1>1, <1>2
-------------------------------------------------------------------------------
(* Pipes: the types of what their operators make. *)
LEMMA AwakeIs ==
  ASSUME TypeOK, NEW p \in Procs, NEW l \in PcType, NEW ws \in SUBSET Procs,
         \A q \in ws : pc[q] \in {"rsleep", "wsleep"}, pc' = [Awake(ws) EXCEPT ![p] = l]
  PROVE  /\ pc' \in [Procs -> PcType] /\ pc'[p] = l
         /\ \A q \in Procs \ {p} : q \notin ws => pc'[q] = pc[q]
         /\ \A q \in ws \ {p} : \/ pc[q] = "rsleep" /\ pc'[q] = "read"
                                \/ pc[q] = "wsleep" /\ pc'[q] = "write"
<1>1. pc \in [Procs -> PcType]
  BY DEF TypeOK, PcType
<1>2. PICK a : a = Awake(ws)
  OBVIOUS
<1>3. a = [q \in Procs |-> IF q \notin ws THEN pc[q]
                           ELSE IF pc[q] = "rsleep" THEN "read" ELSE "write"]
  BY <1>2 DEF Awake
<1>4. a \in [Procs -> PcType]
  BY <1>1, <1>3 DEF PcType
<1>5. pc' = [a EXCEPT ![p] = l]
  BY <1>2
<1>6. \A q \in Procs \ {p} : pc'[q] = a[q]
  BY <1>4, <1>5
<1>7. pc' \in [Procs -> PcType] /\ pc'[p] = l
  BY <1>4, <1>5
<1>8. \A q \in Procs : q \notin ws => a[q] = pc[q]
  BY <1>3
<1>9. ASSUME NEW q \in ws \ {p}
      PROVE  \/ pc[q] = "rsleep" /\ pc'[q] = "read"
             \/ pc[q] = "wsleep" /\ pc'[q] = "write"
  <2>1. q \in Procs \ {p} /\ q \in ws /\ pc[q] \in {"rsleep", "wsleep"}
    OBVIOUS
  <2>2. a[q] = IF pc[q] = "rsleep" THEN "read" ELSE "write"
    BY <1>3, <2>1
  <2> QED BY <1>6, <2>1, <2>2
<1> QED BY <1>6, <1>7, <1>8, <1>9

LEMMA WakesAre ==
  ASSUME NEW chan, NEW pg
  PROVE  /\ Wakes(chan, pg) \in SUBSET Procs /\ {} \in SUBSET Procs
         /\ \A q \in Wakes(chan, pg) : pc[q] = chan /\ op[q].pipe = pg
         /\ \A q \in Procs : pc[q] = chan /\ op[q].pipe = pg => q \in Wakes(chan, pg)
BY DEF Wakes

(* The others go on, or wake up. *)
Woken(q) ==
  \/ pc'[q] = pc[q]
  \/ pc[q] = "rsleep" /\ pc'[q] = "read"
  \/ pc[q] = "wsleep" /\ pc'[q] = "write"

(* A step of p inside a pipe's operation. *)
LEMMA RefPipeStep ==
  ASSUME RefInv, TypeOK', NEW p \in Procs, ofile' = ofile, ftable' = ftable,
         op'[p].files = op[p].files,
         \/ pc[p] = "pipeclose" /\ pc'[p] = "close"
         \/ pc[p] \in ReadPcs \cup WritePcs /\ pc'[p] = "user"
         \/ pc[p] \in ReadPcs \cup WritePcs /\ pc'[p] \in ReadPcs \cup WritePcs
               /\ op'[p].pipe = op[p].pipe,
         \A q \in Procs \ {p} : op'[q] = op[q] /\ Woken(q)
  PROVE  RefInv'
<1> USE DEF RefInv
<1>1. \A q \in Procs : op'[q].files = op[q].files
  OBVIOUS
<1>2. /\ \A q \in Procs : pc'[q] = "pipealloc" => pc[q] = "pipealloc"
      /\ \A q \in Procs : pc'[q] \notin HandPcs => op[q].files = <<>>
      /\ \A q \in Procs : pc'[q] = "unused" => \A fd \in FDs : ofile[q][fd] = 0
  BY DEF HandInv, HandPcs, Woken, ReadPcs, WritePcs
<1>3. \A q \in Procs : pc'[q] \in ReadPcs \cup WritePcs \cup {"pipeclose"} => op'[q].pipe \in Pages
  <2>1. \A q \in Procs \ {p} : pc'[q] \in ReadPcs \cup WritePcs \cup {"pipeclose"} =>
            pc[q] \in ReadPcs \cup WritePcs \cup {"pipeclose"}
    BY DEF Woken, ReadPcs, WritePcs
  <2>2. pc'[p] \in ReadPcs \cup WritePcs \cup {"pipeclose"} => op'[p].pipe \in Pages
    BY DEF PageInv, ReadPcs, WritePcs
  <2> QED BY <2>1, <2>2 DEF PageInv
<1> QED BY <1>1, <1>2, <1>3, RefSilent

LEMMA FreePipeType == FreePipe \in PipeType
<1>1. (CHOOSE b \in Byte : TRUE) \in Byte
  BY FilesAssumption
<1>2. PICK b \in Byte : b = CHOOSE c \in Byte : TRUE
  BY <1>1
<1>3. FreePipe = [nread |-> 0, nwrite |-> 0, readopen |-> FALSE, writeopen |-> FALSE,
                  data |-> [i \in 0 .. PIPESIZE - 1 |-> b]]
  BY <1>2 DEF FreePipe
<1> QED BY <1>3, FilesAssumption DEF PipeType

LEMMA ClosedIs ==
  ASSUME NEW pp \in PipeType, NEW w \in BOOLEAN
  PROVE  LET c == Closed(pp, w) IN
         /\ c \in PipeType
         /\ w => ~c.writeopen /\ (c.readopen <=> pp.readopen)
         /\ ~w => ~c.readopen /\ (c.writeopen <=> pp.writeopen)
         /\ c.readopen \/ c.writeopen =>
              c.nread = pp.nread /\ c.nwrite = pp.nwrite /\ c.data = pp.data
         /\ ~c.readopen /\ ~c.writeopen => c = FreePipe
<1>1. PICK c : c = IF w THEN [pp EXCEPT !.writeopen = FALSE] ELSE [pp EXCEPT !.readopen = FALSE]
  OBVIOUS
<1>2. /\ c \in PipeType /\ c.nread = pp.nread /\ c.nwrite = pp.nwrite /\ c.data = pp.data
      /\ w => ~c.writeopen /\ c.readopen = pp.readopen
      /\ ~w => ~c.readopen /\ c.writeopen = pp.writeopen
  BY <1>1 DEF PipeType
<1>3. Closed(pp, w) = IF c.readopen \/ c.writeopen THEN c ELSE FreePipe
  BY <1>1 DEF Closed
<1>4. FreePipe \in PipeType /\ ~FreePipe.readopen /\ ~FreePipe.writeopen
  BY FreePipeType DEF FreePipe
<1>5. CASE c.readopen \/ c.writeopen
  BY <1>2, <1>3, <1>5
<1>6. CASE ~(c.readopen \/ c.writeopen)
  BY <1>2, <1>3, <1>4, <1>6
<1> QED BY <1>5, <1>6

(* The counters. *)
LEMMA AdvanceIs ==
  ASSUME NEW c \in 0 .. CounterMod - 1, NEW k \in 0 .. CounterMod - 1
  PROVE  /\ Advance(c, k) \in 0 .. CounterMod - 1
         /\ c + k < CounterMod => Advance(c, k) = c + k
         /\ c + k >= CounterMod => Advance(c, k) = c + k - CounterMod
<1>1. CounterMod \in Nat \ {0}
  BY FilesAssumption
<1>2. PICK a \in Nat : a = c + k
  OBVIOUS
<1>3. Advance(c, k) = a % CounterMod
  BY <1>2 DEF Advance
<1>4. a % CounterMod \in 0 .. CounterMod - 1
  BY <1>1
<1>5. a \in 0 .. CounterMod - 1 => a % CounterMod = a
  BY <1>1
<1>6. a \in CounterMod .. 2 * CounterMod - 1 => a % CounterMod = a - CounterMod
  BY <1>1
<1> QED BY <1>1, <1>2, <1>3, <1>4, <1>5, <1>6

LEMMA CountIs ==
  ASSUME NEW pp \in PipeType
  PROVE  /\ Count(pp) \in 0 .. CounterMod - 1
         /\ pp.nwrite >= pp.nread => Count(pp) = pp.nwrite - pp.nread
         /\ pp.nwrite < pp.nread => Count(pp) = pp.nwrite - pp.nread + CounterMod
<1>1. CounterMod \in Nat \ {0}
  BY FilesAssumption
<1>2. pp.nread \in 0 .. CounterMod - 1 /\ pp.nwrite \in 0 .. CounterMod - 1
  BY DEF PipeType
<1>3. PICK a \in Int : a = pp.nwrite - pp.nread
  BY <1>2
<1>4. Count(pp) = a % CounterMod
  BY <1>3 DEF Count
<1>5. a % CounterMod \in 0 .. CounterMod - 1
  BY <1>1
<1>6. a \in 0 .. CounterMod - 1 => a % CounterMod = a
  BY <1>1
<1>7. a \in -CounterMod .. -1 => a % CounterMod = a + CounterMod
  BY <1>1
<1> QED BY <1>1, <1>2, <1>3, <1>4, <1>5, <1>6, <1>7

LEMMA PutIs ==
  ASSUME NEW pp \in PipeType, NEW buf \in Seq(Byte), NEW k \in 0 .. Len(buf), k < CounterMod
  PROVE  LET c == Put(pp, buf, k) IN
         /\ c \in PipeType /\ c.nread = pp.nread /\ c.nwrite = Advance(pp.nwrite, k)
         /\ c.readopen = pp.readopen /\ c.writeopen = pp.writeopen
         /\ \A i \in 0 .. PIPESIZE - 1 :
               (\A j \in 1 .. k : (pp.nwrite + j - 1) % PIPESIZE # i) => c.data[i] = pp.data[i]
<1>1. pp.data \in [0 .. PIPESIZE - 1 -> Byte] /\ DOMAIN pp.data = 0 .. PIPESIZE - 1
  BY DEF PipeType
<1>2. PICK dat : dat = [i \in 0 .. PIPESIZE - 1 |->
                  IF \E j \in 1 .. k : (pp.nwrite + j - 1) % PIPESIZE = i
                  THEN buf[CHOOSE j \in 1 .. k : (pp.nwrite + j - 1) % PIPESIZE = i]
                  ELSE pp.data[i]]
  OBVIOUS
<1>3. ASSUME NEW i \in 0 .. PIPESIZE - 1 PROVE dat[i] \in Byte
  <2>1. CASE \E j \in 1 .. k : (pp.nwrite + j - 1) % PIPESIZE = i
    <3>1. PICK j \in 1 .. k : j = CHOOSE m \in 1 .. k : (pp.nwrite + m - 1) % PIPESIZE = i
      BY <2>1
    <3>2. dat[i] = buf[j]
      BY <1>2, <2>1, <3>1
    <3>3. j \in 1 .. Len(buf)
      OBVIOUS
    <3> QED BY <3>2, <3>3
  <2>2. CASE ~ \E j \in 1 .. k : (pp.nwrite + j - 1) % PIPESIZE = i
    BY <1>1, <1>2, <2>2
  <2> QED BY <2>1, <2>2
<1>4. dat \in [0 .. PIPESIZE - 1 -> Byte]
  BY <1>2, <1>3
<1>5. PICK n \in 0 .. CounterMod - 1 : n = Advance(pp.nwrite, k)
  <2>1. k \in 0 .. CounterMod - 1
    BY FilesAssumption
  <2> QED BY <2>1, AdvanceIs DEF PipeType
<1>6. Put(pp, buf, k) = [pp EXCEPT !.nwrite = n, !.data = dat]
  BY <1>1, <1>2, <1>5 DEF Put
<1>7. PICK c : c = [pp EXCEPT !.nwrite = n, !.data = dat]
  OBVIOUS
<1>8. /\ c \in PipeType /\ c.nread = pp.nread /\ c.nwrite = n /\ c.data = dat
      /\ c.readopen = pp.readopen /\ c.writeopen = pp.writeopen
  BY <1>4, <1>7 DEF PipeType
<1>9. \A i \in 0 .. PIPESIZE - 1 :
          (\A j \in 1 .. k : (pp.nwrite + j - 1) % PIPESIZE # i) => dat[i] = pp.data[i]
  BY <1>2
<1> QED BY <1>5, <1>6, <1>7, <1>8, <1>9
-------------------------------------------------------------------------------
(* What the steps on pipes do, and the first layer for them. *)

(* wakeup(): those who sleep at chan on pg go on, everyone else but p stays. *)
WokenAt(p, chan, pg) ==
  \A q \in Procs \ {p} :
    IF pc[q] = chan /\ op[q].pipe = pg
    THEN pc'[q] = (IF chan = "rsleep" THEN "read" ELSE "write")
    ELSE pc'[q] = pc[q]

(* pipeclose(): p closes the end w of the pipe in pg. *)
EndClosed(p, pg, w) ==
  /\ CloseHas(p, pg, w) /\ lock[pg] = Unlocked
  /\ pipe'[pg] = Closed(pipe[pg], w) /\ \A u \in Pages \ {pg} : pipe'[u] = pipe[u]
  /\ pc'[p] = "close" /\ \A q \in Procs \ {p} : op'[q] = op[q]
  /\ WokenAt(p, IF w THEN "rsleep" ELSE "wsleep", pg)
  /\ unsignalled' = unsignalled \ {pg}
  /\ UNCHANGED <<ofile, ftable, lock>>

LEMMA WokenIs ==
  ASSUME TypeOK, NEW p \in Procs, NEW l \in PcType, NEW chan \in {"rsleep", "wsleep"}, NEW pg,
         pc' = [Awake(Wakes(chan, pg)) EXCEPT ![p] = l]
  PROVE  pc' \in [Procs -> PcType] /\ pc'[p] = l /\ WokenAt(p, chan, pg)
<1>1. pc \in [Procs -> PcType]
  BY DEF TypeOK, PcType
<1>2. PICK a : a = Awake(Wakes(chan, pg))
  OBVIOUS
<1>3. a = [q \in Procs |-> IF q \notin Wakes(chan, pg) THEN pc[q]
                           ELSE IF pc[q] = "rsleep" THEN "read" ELSE "write"]
  BY <1>2 DEF Awake
<1>4. a \in [Procs -> PcType]
  BY <1>1, <1>3 DEF PcType
<1>5. pc' = [a EXCEPT ![p] = l]
  BY <1>2
<1>6. \A q \in Procs \ {p} : pc'[q] = a[q]
  BY <1>4, <1>5
<1>7. \A q \in Procs : q \in Wakes(chan, pg) <=> pc[q] = chan /\ op[q].pipe = pg
  BY DEF Wakes
<1>8. \A q \in Procs : pc[q] = chan /\ op[q].pipe = pg => a[q] = IF chan = "rsleep" THEN "read" ELSE "write"
  BY <1>3, <1>7
<1>9. \A q \in Procs : ~(pc[q] = chan /\ op[q].pipe = pg) => a[q] = pc[q]
  BY <1>3, <1>7
<1>10. WokenAt(p, chan, pg)
  BY <1>6, <1>8, <1>9 DEF WokenAt
<1> QED BY <1>4, <1>5, <1>10

LEMMA NobodyWoken ==
  ASSUME TypeOK, NEW p \in Procs, NEW l \in PcType, pc' = [Awake({}) EXCEPT ![p] = l]
  PROVE  pc' \in [Procs -> PcType] /\ pc'[p] = l /\ \A q \in Procs \ {p} : pc'[q] = pc[q]
BY AwakeIs

LEMMA WokenAll ==
  ASSUME NEW p, NEW chan \in {"rsleep", "wsleep"}, NEW pg, WokenAt(p, chan, pg)
  PROVE  \A q \in Procs \ {p} : Woken(q)
BY DEF WokenAt, Woken

LEMMA RefPipeclose ==
  ASSUME RefInv, NEW p \in Procs, pipeclose(p)
  PROVE  RefInv' /\ \E pg \in Pages, w \in BOOLEAN : EndClosed(p, pg, w)
<1> USE DEF RefInv
<1>1. PICK pg \in Pages, w \in BOOLEAN : pg = op[p].pipe /\ w = op[p].writable
  BY DEF pipeclose, PageInv, TypeOK
<1>2. /\ pc[p] = "pipeclose" /\ lock[pg] = Unlocked
      /\ pipe' = [pipe EXCEPT ![pg] = Closed(@, w)]
      /\ pc' = [Awake(WokenByClose(w, pg)) EXCEPT ![p] = "close"]
      /\ op' = [op EXCEPT ![p].pipe = NoPage, ![p].writable = FALSE]
      /\ unsignalled' = unsignalled \ {pg}
      /\ UNCHANGED <<ofile, ftable, lock, opens, exiting, killed>>
  BY <1>1 DEF pipeclose
<1>3. PICK chan \in {"rsleep", "wsleep"} : chan = IF w THEN "rsleep" ELSE "wsleep"
  OBVIOUS
<1>4. pc' \in [Procs -> PcType] /\ pc'[p] = "close" /\ WokenAt(p, chan, pg)
  <2>1. pc' = [Awake(Wakes(chan, pg)) EXCEPT ![p] = "close"]
    BY <1>2, <1>3 DEF WokenByClose
  <2>2. "close" \in PcType
    BY DEF PcType
  <2> QED BY <2>1, <2>2, WokenIs
<1>5. /\ op' \in [Procs -> CallType] /\ op'[p].files = op[p].files
      /\ \A q \in Procs \ {p} : op'[q] = op[q]
  <2>1. op \in [Procs -> CallType] /\ op[p] \in CallType
    BY DEF TypeOK, CallType
  <2>2. PICK r : r = [op[p] EXCEPT !.pipe = NoPage, !.writable = FALSE]
    OBVIOUS
  <2>3. r \in CallType /\ r.files = op[p].files
    BY <2>1, <2>2 DEF CallType
  <2>4. op' = [op EXCEPT ![p] = r]
    BY <1>2, <2>1, <2>2
  <2> QED BY <2>1, <2>3, <2>4
<1>6. /\ pipe' \in [Pages -> PipeType] /\ pipe'[pg] = Closed(pipe[pg], w)
      /\ \A u \in Pages \ {pg} : pipe'[u] = pipe[u]
  <2>1. pipe \in [Pages -> PipeType] /\ pipe[pg] \in PipeType
    BY PipesTyped
  <2>2. PICK c \in PipeType : c = Closed(pipe[pg], w)
    BY <2>1, ClosedIs
  <2>3. pipe' = [pipe EXCEPT ![pg] = c]
    BY <1>2, <2>2
  <2> QED BY <2>1, <2>2, <2>3
<1>7. TypeOK'
  BY <1>2, <1>4, <1>5, <1>6 DEF TypeOK, PipeType, CallType, PcType
<1>8. \A q \in Procs \ {p} : op'[q] = op[q] /\ Woken(q)
  BY <1>4, <1>5, WokenAll
<1>9. RefInv'
  BY <1>2, <1>4, <1>5, <1>7, <1>8, RefPipeStep
<1>10. EndClosed(p, pg, w)
  BY <1>1, <1>2, <1>3, <1>4, <1>5, <1>6 DEF EndClosed, CloseHas
<1> QED BY <1>9, <1>10

(* p starts reading, or writing, a pipe of which it has that end. *)
Enters(p, w, fd) ==
  /\ pc[p] = "user" /\ pc'[p] = (IF w THEN "write" ELSE "read")
  /\ ofile[p][fd] \in FileIds /\ ftable[ofile[p][fd]].type = "pipe"
  /\ ftable[ofile[p][fd]].writable = w /\ op'[p].pipe = ftable[ofile[p][fd]].pipe
  /\ \A q \in Procs \ {p} : pc'[q] = pc[q] /\ op'[q] = op[q]
  /\ UNCHANGED <<ofile, ftable, pipe, lock, unsignalled>>

LEMMA RefSysRw ==
  ASSUME RefInv, NEW p \in Procs, NEW w \in BOOLEAN, NEW buf \in Seq(Byte), NEW n \in Sizes \cup {0},
         sys_rw(p, w, buf, n)
  PROVE  RefInv' /\ \E fd \in FDs : Enters(p, w, fd)
<1> USE DEF RefInv
<1>1. PICK fd \in FDs :
        /\ ofile[p][fd] # 0 /\ InUser(p) /\ ftable[ofile[p][fd]].type = "pipe"
        /\ ftable[ofile[p][fd]].writable = w
        /\ Goto(p, IF w THEN "write" ELSE "read")
        /\ op' = [op EXCEPT ![p] = [NoOp EXCEPT !.pipe = ftable[ofile[p][fd]].pipe, !.buf = buf, !.n = n]]
        /\ UNCHANGED <<pipeVars, ofile, ftable, opens, exiting, killed>>
  BY DEF sys_rw
<1>2. PICK g \in FileIds : g = ofile[p][fd]
  BY <1>1 DEF TypeOK, FileIds
<1>3. PICK pg \in Pages : pg = ftable[g].pipe
  BY <1>1, <1>2 DEF PageInv
<1>4. pc[p] = "user" /\ op[p].files = <<>>
  BY <1>1 DEF InUser, HandInv, HandPcs
<1>5. /\ op' \in [Procs -> CallType] /\ op'[p].pipe = pg /\ op'[p].files = <<>>
      /\ \A q \in Procs \ {p} : op'[q] = op[q]
  <2>1. op \in [Procs -> CallType]
    BY DEF TypeOK, CallType
  <2>2. PICK r : r = [NoOp EXCEPT !.pipe = pg, !.buf = buf, !.n = n]
    OBVIOUS
  <2>3. r \in CallType /\ r.pipe = pg /\ r.files = <<>>
    BY <2>2, NoOpType DEF CallType
  <2>4. op' = [op EXCEPT ![p] = r]
    BY <1>1, <1>2, <1>3, <2>2
  <2> QED BY <2>1, <2>3, <2>4
<1>6. PICK l \in {"read", "write"} : l = IF w THEN "write" ELSE "read"
  OBVIOUS
<1>7. /\ pc' \in [Procs -> PcType] /\ pc'[p] = l /\ \A q \in Procs \ {p} : pc'[q] = pc[q]
  BY <1>1, <1>6 DEF Goto, TypeOK, PcType
<1>8. TypeOK'
  BY <1>1, <1>5, <1>7 DEF TypeOK, pipeVars, CallType, PcType
<1>9. ofile' = ofile /\ ftable' = ftable /\ \A q \in Procs : op'[q].files = op[q].files
  BY <1>1, <1>4, <1>5
<1>10. /\ \A q \in Procs : pc'[q] = "pipealloc" => pc[q] = "pipealloc"
       /\ \A q \in Procs : pc'[q] \notin HandPcs => op[q].files = <<>>
       /\ \A q \in Procs : pc'[q] = "unused" => \A d \in FDs : ofile[q][d] = 0
  BY <1>4, <1>7 DEF HandInv, HandPcs
<1>11. \A q \in Procs : pc'[q] \in ReadPcs \cup WritePcs \cup {"pipeclose"} => op'[q].pipe \in Pages
  BY <1>5, <1>7 DEF PageInv
<1>12. RefInv'
  BY <1>8, <1>9, <1>10, <1>11, RefSilent
<1>13. Enters(p, w, fd)
  BY <1>1, <1>2, <1>3, <1>4, <1>5, <1>6, <1>7 DEF Enters, pipeVars
<1> QED BY <1>12, <1>13

(* A step of p in piperead(), pipewrite() or sleep(). *)
Inside(p) ==
  /\ pc[p] \in ReadPcs \cup WritePcs
  /\ \/ pc'[p] = "user"
     \/ /\ op'[p].pipe = op[p].pipe
        /\ \/ pc[p] \in ReadPcs /\ pc'[p] \in ReadPcs
           \/ pc[p] \in WritePcs /\ pc'[p] \in WritePcs
  /\ \A q \in Procs \ {p} : op'[q] = op[q] /\ Woken(q)
  /\ \A u \in Pages : /\ pipe'[u].readopen = pipe[u].readopen
                      /\ pipe'[u].writeopen = pipe[u].writeopen
                      /\ u # op[p].pipe => pipe'[u] = pipe[u]
  /\ UNCHANGED <<ofile, ftable>>

LEMMA RefInside ==
  ASSUME RefInv, NEW p \in Procs, TypeOK', Inside(p), op'[p].files = <<>>
  PROVE  RefInv'
<1>1. op[p].files = <<>>
  BY DEF RefInv, HandInv, HandPcs, Inside, ReadPcs, WritePcs
<1> QED BY <1>1, RefPipeStep DEF Inside

(* sleep() once the pipe's lock is given up. *)
Slept(p, pg) ==
  /\ pg = op[p].pipe
  /\ \/ pc[p] = "rdoze" /\ pc'[p] = "rsleep"
     \/ pc[p] = "wdoze" /\ pc'[p] = "wsleep"
  /\ lock' = [lock EXCEPT ![pg] = Unlocked]
  /\ \A q \in Procs \ {p} : pc'[q] = pc[q]
  /\ UNCHANGED <<op, pipe, unsignalled>>

LEMMA RefSleep ==
  ASSUME RefInv, NEW p \in Procs, sleep(p)
  PROVE  RefInv' /\ Inside(p) /\ \E pg \in Pages : Slept(p, pg)
<1> USE DEF RefInv
<1>1. PICK pg \in Pages : pg = op[p].pipe
  BY DEF sleep, PageInv, ReadPcs, WritePcs
<1>2. /\ pc[p] \in {"rdoze", "wdoze"} /\ lock' = [lock EXCEPT ![pg] = Unlocked]
      /\ pc' = [pc EXCEPT ![p] = IF pc[p] = "rdoze" THEN "rsleep" ELSE "wsleep"]
      /\ UNCHANGED <<ofile, ftable, pipe, op, opens, exiting, killed, unsignalled>>
  BY <1>1 DEF sleep, Goto
<1>3. /\ pc' \in [Procs -> PcType] /\ \A q \in Procs \ {p} : pc'[q] = pc[q]
      /\ \/ pc[p] = "rdoze" /\ pc'[p] = "rsleep"
         \/ pc[p] = "wdoze" /\ pc'[p] = "wsleep"
  BY <1>2 DEF TypeOK, PcType
<1>4. TypeOK'
  BY <1>2, <1>3 DEF TypeOK, PcType
<1>5. Inside(p)
  BY <1>2, <1>3 DEF Inside, ReadPcs, WritePcs, Woken
<1>6. op'[p].files = <<>>
  BY <1>2 DEF HandInv, HandPcs
<1>7. RefInv'
  BY <1>4, <1>5, <1>6, RefInside
<1>8. Slept(p, pg)
  BY <1>1, <1>2, <1>3 DEF Slept
<1> QED BY <1>5, <1>7, <1>8

Killed(p) == /\ UNCHANGED <<ofile, ftable, pipe, lock, op, unsignalled>>
             /\ \A q \in Procs : Woken(q)

LEMMA RefKill ==
  ASSUME RefInv, NEW p \in Procs, kill(p)
  PROVE  RefInv' /\ Killed(p)
<1> USE DEF RefInv
<1>1. /\ killed' = killed \cup {p} /\ pc[p] # "unused"
      /\ pc' = Awake({p} \cap {r \in Procs : pc[r] \in {"rsleep", "wsleep"}})
      /\ UNCHANGED <<pipeVars, ofile, ftable, op, opens, exiting>>
  BY DEF kill
<1>2. PICK ws \in SUBSET Procs : ws = {p} \cap {r \in Procs : pc[r] \in {"rsleep", "wsleep"}}
  OBVIOUS
<1>3. pc \in [Procs -> PcType] /\ pc' = Awake(ws) /\ \A q \in ws : pc[q] \in {"rsleep", "wsleep"}
  BY <1>1, <1>2 DEF TypeOK, PcType
<1>4. pc' \in [Procs -> PcType] /\ \A q \in Procs : Woken(q)
  BY <1>3 DEF Awake, PcType, Woken
<1>5. TypeOK'
  BY <1>1, <1>4 DEF TypeOK, pipeVars, PcType
<1>6. /\ \A q \in Procs : pc'[q] = "pipealloc" => pc[q] = "pipealloc"
      /\ \A q \in Procs : pc'[q] \notin HandPcs => op[q].files = <<>>
      /\ \A q \in Procs : pc'[q] = "unused" => \A fd \in FDs : ofile[q][fd] = 0
  BY <1>4 DEF HandInv, HandPcs, Woken
<1>7. \A q \in Procs : pc'[q] \in ReadPcs \cup WritePcs \cup {"pipeclose"} => op'[q].pipe \in Pages
  BY <1>1, <1>4 DEF PageInv, ReadPcs, WritePcs, Woken
<1>8. ofile' = ofile /\ ftable' = ftable /\ \A q \in Procs : op'[q].files = op[q].files
  BY <1>1
<1>9. RefInv'
  BY <1>5, <1>6, <1>7, <1>8, RefSilent
<1>10. Killed(p)
  BY <1>1, <1>4 DEF Killed, pipeVars
<1> QED BY <1>9, <1>10

(* piperead(): p gives up, goes to sleep, or takes k bytes. *)
ReadStop(p) == /\ pc[p] = "read" /\ pc'[p] = "user" /\ UNCHANGED <<pipe, lock, unsignalled>>
               /\ \A q \in Procs \ {p} : pc'[q] = pc[q]
ReadWait(p, pg) == /\ pc[p] = "read" /\ op[p].pipe = pg /\ lock[pg] = Unlocked
                   /\ MustWaitToRead(pipe[pg])
                   /\ pc'[p] = "rdoze" /\ lock' = [lock EXCEPT ![pg] = p]
                   /\ \A q \in Procs \ {p} : pc'[q] = pc[q]
                   /\ UNCHANGED <<op, pipe, unsignalled>>
ReadSome(p, pg, k) == /\ pc[p] = "read" /\ op[p].pipe = pg /\ lock[pg] = Unlocked
                      /\ ~MustWaitToRead(pipe[pg])
                      /\ pipe'[pg] = [pipe[pg] EXCEPT !.nread = Advance(@, k)]
                      /\ \A u \in Pages \ {pg} : pipe'[u] = pipe[u]
                      /\ pc'[p] = "user" /\ WokenAt(p, "wsleep", pg)
                      /\ UNCHANGED <<lock, unsignalled>>

LEMMA MinOfTwo ==
  ASSUME NEW a \in Nat, NEW b \in Nat
  PROVE  /\ Min({a, b}) \in Nat /\ Min({a, b}) <= a /\ Min({a, b}) <= b
         /\ Min({a, b}) = a \/ Min({a, b}) = b
<1>1. PICK S \in SUBSET Nat : S = {a, b} /\ S # {}
  OBVIOUS
<1>2. Min(S) \in S /\ \A k \in S : Min(S) <= k
  BY <1>1, MinIn
<1> QED BY <1>1, <1>2

LEMMA NReadIs ==
  ASSUME NEW pp \in PipeType, NEW k \in 0 .. CounterMod - 1
  PROVE  LET c == [pp EXCEPT !.nread = Advance(@, k)] IN
         /\ c \in PipeType /\ c.nread = Advance(pp.nread, k) /\ c.nwrite = pp.nwrite
         /\ c.readopen = pp.readopen /\ c.writeopen = pp.writeopen /\ c.data = pp.data
<1>1. PICK n \in 0 .. CounterMod - 1 : n = Advance(pp.nread, k)
  BY AdvanceIs DEF PipeType
<1>2. PICK c : c = [pp EXCEPT !.nread = n]
  OBVIOUS
<1>3. c = [pp EXCEPT !.nread = Advance(@, k)]
  BY <1>1, <1>2
<1>4. /\ c \in PipeType /\ c.nread = n /\ c.nwrite = pp.nwrite
      /\ c.readopen = pp.readopen /\ c.writeopen = pp.writeopen /\ c.data = pp.data
  BY <1>2 DEF PipeType
<1> QED BY <1>1, <1>3, <1>4

LEMMA ReturnIs ==
  ASSUME TypeOK, NEW p \in Procs, op' = [op EXCEPT ![p] = NoOp]
  PROVE  op' \in [Procs -> CallType] /\ op'[p].files = <<>> /\ \A q \in Procs \ {p} : op'[q] = op[q]
<1>1. op \in [Procs -> CallType]
  BY DEF TypeOK, CallType
<1> QED BY <1>1, NoOpType

LEMMA RefPiperead ==
  ASSUME RefInv, NEW p \in Procs, piperead(p)
  PROVE  /\ RefInv' /\ Inside(p)
         /\ \/ ReadStop(p)
            \/ \E pg \in Pages : ReadWait(p, pg)
            \/ \E pg \in Pages : \E k \in 0 .. Count(pipe[pg]) : ReadSome(p, pg, k)
<1> USE DEF RefInv
<1>1. PICK pg \in Pages : pg = op[p].pipe
  BY DEF piperead, PageInv, ReadPcs
<1>2. pc[p] = "read" /\ lock[pg] = Unlocked /\ UNCHANGED <<ofile, ftable, opens, exiting, killed>>
  BY <1>1 DEF piperead
<1>3. op[p].files = <<>> /\ op[p].n \in Nat /\ "user" \in PcType /\ "rdoze" \in PcType
  <2>1. op[p].files = <<>>
    BY <1>2 DEF HandInv, HandPcs
  <2>2. op[p].n \in Sizes \cup {0}
    BY DEF TypeOK
  <2>3. Sizes \cup {0} \subseteq Nat
    BY FilesAssumption
  <2>4. op[p].n \in Nat
    BY <2>2, <2>3, Zenon
  <2> QED BY <2>1, <2>4 DEF PcType
<1>4. CASE MustWaitToRead(pipe[pg]) /\ Return(p, {}) /\ UNCHANGED pipeVars
  <2>1. /\ pc' \in [Procs -> PcType] /\ pc'[p] = "user" /\ \A q \in Procs \ {p} : pc'[q] = pc[q]
    BY <1>3, <1>4, NobodyWoken DEF Return
  <2>2. op' \in [Procs -> CallType] /\ op'[p].files = <<>> /\ \A q \in Procs \ {p} : op'[q] = op[q]
    BY <1>4, ReturnIs DEF Return
  <2>3. TypeOK'
    BY <1>2, <1>4, <2>1, <2>2 DEF TypeOK, pipeVars, PcType, CallType
  <2>4. Inside(p) /\ ReadStop(p)
    BY <1>2, <1>4, <2>1, <2>2 DEF Inside, ReadStop, Woken, ReadPcs, pipeVars
  <2> QED BY <2>2, <2>3, <2>4, RefInside
<1>5. CASE MustWaitToRead(pipe[pg]) /\ Doze(p, pg, "rdoze", {}) /\ UNCHANGED <<pipe, op, unsignalled>>
  <2>1. /\ pc' \in [Procs -> PcType] /\ pc'[p] = "rdoze" /\ \A q \in Procs \ {p} : pc'[q] = pc[q]
    BY <1>3, <1>5, NobodyWoken DEF Doze
  <2>2. lock' = [lock EXCEPT ![pg] = p]
    BY <1>5 DEF Doze
  <2>3. TypeOK'
    BY <1>2, <1>5, <2>1, <2>2 DEF TypeOK, PcType
  <2>4. Inside(p) /\ ReadWait(p, pg)
    BY <1>1, <1>2, <1>5, <2>1, <2>2 DEF Inside, ReadWait, Woken, ReadPcs
  <2>5. op'[p].files = <<>>
    BY <1>3, <1>5
  <2> QED BY <2>3, <2>4, <2>5, RefInside
<1>6. CASE /\ ~MustWaitToRead(pipe[pg])
           /\ pipe' = [pipe EXCEPT ![pg].nread = Advance(@, Min({op[p].n, Count(pipe[pg])}))]
           /\ Return(p, Wakes("wsleep", pg)) /\ UNCHANGED <<lock, unsignalled>>
  <2>1. pipe \in [Pages -> PipeType] /\ pipe[pg] \in PipeType
    BY PipesTyped
  <2>2. Count(pipe[pg]) \in 0 .. CounterMod - 1
    BY <2>1, CountIs
  <2>3. PICK k \in 0 .. Count(pipe[pg]) : k = Min({op[p].n, Count(pipe[pg])})
    <3>1. PICK b \in Nat : b = Count(pipe[pg])
      BY <2>2
    <3>2. PICK a \in Nat : a = op[p].n
      BY <1>3
    <3> QED BY <3>1, <3>2, MinOfTwo
  <2>4. k \in 0 .. CounterMod - 1
    BY <2>2, FilesAssumption
  <2>5. PICK c \in PipeType : /\ c = [pipe[pg] EXCEPT !.nread = Advance(@, k)]
                              /\ c.readopen = pipe[pg].readopen /\ c.writeopen = pipe[pg].writeopen
    <3>1. PICK pp \in PipeType : pp = pipe[pg]
      BY <2>1
    <3>2. PICK d : d = [pp EXCEPT !.nread = Advance(@, k)]
      OBVIOUS
    <3>3. d \in PipeType /\ d.readopen = pp.readopen /\ d.writeopen = pp.writeopen
      BY <2>4, <3>2, NReadIs
    <3> QED BY <3>1, <3>2, <3>3
  <2>6. pipe' = [pipe EXCEPT ![pg] = c]
    BY <1>6, <2>1, <2>3, <2>5
  <2>7. /\ pipe' \in [Pages -> PipeType] /\ pipe'[pg] = c
        /\ \A u \in Pages \ {pg} : pipe'[u] = pipe[u]
    BY <2>1, <2>6
  <2>8. pc' \in [Procs -> PcType] /\ pc'[p] = "user" /\ WokenAt(p, "wsleep", pg)
    BY <1>3, <1>6, WokenIs DEF Return
  <2>9. op' \in [Procs -> CallType] /\ op'[p].files = <<>> /\ \A q \in Procs \ {p} : op'[q] = op[q]
    BY <1>6, ReturnIs DEF Return
  <2>10. \A q \in Procs \ {p} : Woken(q)
    BY <2>8, WokenAll
  <2>11. TypeOK'
    BY <1>2, <1>6, <2>7, <2>8, <2>9 DEF TypeOK, PipeType, PcType, CallType
  <2>12. Inside(p)
    BY <1>1, <1>2, <2>5, <2>7, <2>8, <2>9, <2>10 DEF Inside, ReadPcs
  <2>13. ReadSome(p, pg, k)
    BY <1>1, <1>2, <1>6, <2>5, <2>7, <2>8 DEF ReadSome
  <2> QED BY <2>9, <2>11, <2>12, <2>13, RefInside
<1> QED BY <1>1, <1>4, <1>5, <1>6 DEF piperead

(* pipewrite(): p puts k bytes of buf in, and is done, gives up in the full *)
(* pipe, or goes to sleep on it.                                            *)
Wrote(p, pg, buf, k) ==
  /\ pc[p] = "write" /\ op[p].pipe = pg /\ lock[pg] = Unlocked /\ k <= Space(pipe[pg])
  /\ pipe'[pg] = Put(pipe[pg], buf, k) /\ \A u \in Pages \ {pg} : pipe'[u] = pipe[u]
WriteDone(p, pg) ==
  /\ pc'[p] = "user" /\ WokenAt(p, "rsleep", pg)
  /\ unsignalled' = unsignalled \ {pg} /\ UNCHANGED lock
WriteStop(p, pg, k) ==
  /\ k = Space(pipe[pg]) /\ pc'[p] = "user" /\ \A q \in Procs \ {p} : pc'[q] = pc[q]
  /\ unsignalled' = (IF k > 0 THEN unsignalled \cup {pg} ELSE unsignalled) /\ UNCHANGED lock
WriteWait(p, pg, k) ==
  /\ k = Space(pipe[pg]) /\ pipe[pg].readopen
  /\ pc'[p] = "wdoze" /\ op'[p].pipe = pg /\ WokenAt(p, "rsleep", pg)
  /\ unsignalled' = unsignalled \ {pg} /\ lock' = [lock EXCEPT ![pg] = p]

LEMMA RefPipewrite ==
  ASSUME RefInv, NEW p \in Procs, pipewrite(p), \A pg \in Pages : Count(pipe[pg]) <= PIPESIZE
  PROVE  /\ RefInv' /\ Inside(p)
         /\ \E pg \in Pages, buf \in Seq(Byte) : \E k \in 0 .. Len(buf) :
              /\ Wrote(p, pg, buf, k)
              /\ WriteDone(p, pg) \/ WriteStop(p, pg, k) \/ WriteWait(p, pg, k)
<1> USE DEF RefInv
<1>1. PICK pg \in Pages : pg = op[p].pipe
  BY DEF pipewrite, PageInv, WritePcs
<1>2. PICK buf \in Seq(Byte) : buf = op[p].buf
  BY DEF TypeOK
<1>3. pc[p] = "write" /\ lock[pg] = Unlocked /\ UNCHANGED <<ofile, ftable, opens, exiting, killed>>
  BY <1>1 DEF pipewrite
<1>4. pipe \in [Pages -> PipeType] /\ pipe[pg] \in PipeType
  BY PipesTyped
<1>5. Space(pipe[pg]) \in 0 .. PIPESIZE
  <2>1. Count(pipe[pg]) \in 0 .. CounterMod - 1 /\ Count(pipe[pg]) <= PIPESIZE
    BY <1>4, CountIs
  <2> QED BY <2>1, FilesAssumption DEF Space
<1>6. PICK k \in 0 .. Len(buf) : /\ k = Min({Len(buf), Space(pipe[pg])}) /\ k <= Space(pipe[pg])
                                 /\ k < Len(buf) => k = Space(pipe[pg])
  <2>1. PICK a \in Nat : a = Len(buf)
    OBVIOUS
  <2>2. PICK b \in Nat : b = Space(pipe[pg])
    BY <1>5
  <2>3. /\ Min({a, b}) \in Nat /\ Min({a, b}) <= a /\ Min({a, b}) <= b
        /\ Min({a, b}) = a \/ Min({a, b}) = b
    BY MinOfTwo
  <2> QED BY <2>1, <2>2, <2>3
<1>7. k < CounterMod
  BY <1>5, <1>6, FilesAssumption
<1>8. PICK c \in PipeType : /\ c = Put(pipe[pg], buf, k) /\ c.readopen = pipe[pg].readopen
                            /\ c.writeopen = pipe[pg].writeopen
  BY <1>4, <1>7, PutIs
<1>9. pipe' = [pipe EXCEPT ![pg] = c]
  <2>1. pipe' = [pipe EXCEPT ![pg] = Put(@, buf, k)]
    BY <1>1, <1>2, <1>6 DEF pipewrite
  <2> QED BY <1>4, <1>8, <2>1
<1>10. /\ pipe' \in [Pages -> PipeType] /\ pipe'[pg] = c
       /\ \A u \in Pages \ {pg} : pipe'[u] = pipe[u]
  BY <1>4, <1>9
<1>11. Wrote(p, pg, buf, k)
  BY <1>1, <1>3, <1>6, <1>8, <1>10 DEF Wrote
<1>12. \A u \in Pages : /\ pipe'[u].readopen = pipe[u].readopen
                        /\ pipe'[u].writeopen = pipe[u].writeopen
                        /\ u # op[p].pipe => pipe'[u] = pipe[u]
  BY <1>1, <1>8, <1>10
<1>13. op[p].files = <<>> /\ "user" \in PcType /\ "wdoze" \in PcType
  BY <1>3 DEF HandInv, HandPcs, PcType
<1>14. CASE /\ Return(p, Wakes("rsleep", pg))
            /\ unsignalled' = unsignalled \ {pg} /\ UNCHANGED lock
  <2>1. pc' \in [Procs -> PcType] /\ pc'[p] = "user" /\ WokenAt(p, "rsleep", pg)
    BY <1>13, <1>14, WokenIs DEF Return
  <2>2. op' \in [Procs -> CallType] /\ op'[p].files = <<>> /\ \A q \in Procs \ {p} : op'[q] = op[q]
    BY <1>14, ReturnIs DEF Return
  <2>3. TypeOK'
    BY <1>3, <1>10, <1>14, <2>1, <2>2 DEF TypeOK, PipeType, PcType, CallType
  <2>4. Inside(p)
    BY <1>3, <1>12, <2>1, <2>2, WokenAll DEF Inside, WritePcs
  <2>5. WriteDone(p, pg)
    BY <1>14, <2>1 DEF WriteDone
  <2> QED BY <1>11, <2>2, <2>3, <2>4, <2>5, RefInside
<1>15. CASE /\ k < Len(buf) /\ Return(p, {})
            /\ unsignalled' = (IF k > 0 THEN unsignalled \cup {pg} ELSE unsignalled) /\ UNCHANGED lock
  <2>1. pc' \in [Procs -> PcType] /\ pc'[p] = "user" /\ \A q \in Procs \ {p} : pc'[q] = pc[q]
    BY <1>13, <1>15, NobodyWoken DEF Return
  <2>2. op' \in [Procs -> CallType] /\ op'[p].files = <<>> /\ \A q \in Procs \ {p} : op'[q] = op[q]
    BY <1>15, ReturnIs DEF Return
  <2>3. TypeOK'
    BY <1>3, <1>10, <1>15, <2>1, <2>2 DEF TypeOK, PipeType, PcType, CallType
  <2>4. Inside(p)
    BY <1>3, <1>12, <2>1, <2>2 DEF Inside, WritePcs, Woken
  <2>5. WriteStop(p, pg, k)
    BY <1>6, <1>15, <2>1 DEF WriteStop
  <2> QED BY <1>11, <2>2, <2>3, <2>4, <2>5, RefInside
<1>16. CASE /\ k < Len(buf) /\ pipe[pg].readopen
            /\ Doze(p, pg, "wdoze", Wakes("rsleep", pg))
            /\ op' = [op EXCEPT ![p].buf = SubSeq(buf, k + 1, Len(buf))]
            /\ unsignalled' = unsignalled \ {pg}
  <2>1. pc' \in [Procs -> PcType] /\ pc'[p] = "wdoze" /\ WokenAt(p, "rsleep", pg)
    BY <1>13, <1>16, WokenIs DEF Doze
  <2>2. lock' = [lock EXCEPT ![pg] = p]
    BY <1>16 DEF Doze
  <2>3. /\ op' \in [Procs -> CallType] /\ op'[p].files = <<>> /\ op'[p].pipe = pg
        /\ \A q \in Procs \ {p} : op'[q] = op[q]
    <3>1. PICK rest \in Seq(Byte) : rest = SubSeq(buf, k + 1, Len(buf))
      <4>1. k + 1 \in Nat /\ k + 1 >= 1 /\ Len(buf) \in Nat
        OBVIOUS
      <4>2. SubSeq(buf, k + 1, Len(buf)) \in Seq(Byte)
        BY <4>1
      <4> QED BY <4>2
    <3>2. op \in [Procs -> CallType] /\ op[p] \in CallType
      BY DEF TypeOK, CallType
    <3>3. PICK r : r = [op[p] EXCEPT !.buf = rest]
      OBVIOUS
    <3>4. r \in CallType /\ r.files = op[p].files /\ r.pipe = op[p].pipe
      BY <3>2, <3>3 DEF CallType
    <3>5. op' = [op EXCEPT ![p] = r]
      BY <1>16, <3>1, <3>2, <3>3
    <3> QED BY <1>1, <1>13, <3>2, <3>4, <3>5
  <2>4. TypeOK'
    BY <1>3, <1>10, <1>16, <2>1, <2>2, <2>3 DEF TypeOK, PipeType, PcType, CallType
  <2>5. Inside(p)
    BY <1>1, <1>3, <1>12, <2>1, <2>3, WokenAll DEF Inside, WritePcs
  <2>6. WriteWait(p, pg, k)
    BY <1>1, <1>6, <1>16, <2>1, <2>2, <2>3 DEF WriteWait
  <2> QED BY <1>11, <2>3, <2>4, <2>5, <2>6, RefInside
<1>17. \/ /\ Return(p, Wakes("rsleep", pg))
          /\ unsignalled' = unsignalled \ {pg} /\ UNCHANGED lock
       \/ /\ k < Len(buf) /\ Return(p, {})
          /\ unsignalled' = (IF k > 0 THEN unsignalled \cup {pg} ELSE unsignalled) /\ UNCHANGED lock
       \/ /\ k < Len(buf) /\ pipe[pg].readopen
          /\ Doze(p, pg, "wdoze", Wakes("rsleep", pg))
          /\ op' = [op EXCEPT ![p].buf = SubSeq(buf, k + 1, Len(buf))]
          /\ unsignalled' = unsignalled \ {pg}
  BY <1>1, <1>2, <1>6 DEF pipewrite
<1> QED BY <1>14, <1>15, <1>16, <1>17
-------------------------------------------------------------------------------
(* The second layer: the ends of the pipes. *)
IsOpen(pg, w) == IF w THEN pipe[pg].writeopen ELSE pipe[pg].readopen
HasOwner(pg, w) == \/ \E f \in FileIds : FileHas(f, pg, w)
                   \/ \E p \in Procs : CloseHas(p, pg, w)

LEMMA OpenIs ==
  /\ OpenInv <=> /\ \A pg \in Pages, w \in BOOLEAN : IsOpen(pg, w) <=> HasOwner(pg, w)
                 /\ \A pg \in Pages : ~IsOpen(pg, TRUE) /\ ~IsOpen(pg, FALSE) => pipe[pg] = FreePipe
  /\ OpenInv' <=> /\ \A pg \in Pages, w \in BOOLEAN : IsOpen(pg, w)' <=> HasOwner(pg, w)'
                  /\ \A pg \in Pages : ~IsOpen(pg, TRUE)' /\ ~IsOpen(pg, FALSE)' => pipe'[pg] = FreePipe
<1>1. OpenInv <=> /\ \A pg \in Pages, w \in BOOLEAN : IsOpen(pg, w) <=> HasOwner(pg, w)
                  /\ \A pg \in Pages : ~IsOpen(pg, TRUE) /\ ~IsOpen(pg, FALSE) => pipe[pg] = FreePipe
  <2>1. \A pg, w : HasEnd(pg, w) <=> HasOwner(pg, w)
    BY DEF HasEnd, HasOwner, FileHas, CloseHas
  <2>2. \A pg : (IsOpen(pg, TRUE) <=> pipe[pg].writeopen) /\ (IsOpen(pg, FALSE) <=> pipe[pg].readopen)
    BY DEF IsOpen
  <2>3. \A w \in BOOLEAN : w = TRUE \/ w = FALSE
    OBVIOUS
  <2> QED BY <2>1, <2>2, <2>3 DEF OpenInv
<1>2. OpenInv' <=> /\ \A pg \in Pages, w \in BOOLEAN : IsOpen(pg, w)' <=> HasOwner(pg, w)'
                   /\ \A pg \in Pages : ~IsOpen(pg, TRUE)' /\ ~IsOpen(pg, FALSE)' => pipe'[pg] = FreePipe
  <2>1. \A pg, w : HasEnd(pg, w)' <=> HasOwner(pg, w)'
    BY DEF HasEnd, HasOwner, FileHas, CloseHas
  <2>2. \A pg : (IsOpen(pg, TRUE)' <=> pipe'[pg].writeopen) /\ (IsOpen(pg, FALSE)' <=> pipe'[pg].readopen)
    BY DEF IsOpen
  <2>3. \A w \in BOOLEAN : w = TRUE \/ w = FALSE
    OBVIOUS
  <2> QED BY <2>1, <2>2, <2>3 DEF OpenInv
<1> QED BY <1>1, <1>2

(* An open pipe end file has a reference. *)
LEMMA HasIs ==
  /\ RefInv => \A f \in FileIds : \A pg, w :
       FileHas(f, pg, w) <=> ftable[f].type = "pipe" /\ ftable[f].pipe = pg /\ ftable[f].writable = w
  /\ RefInv' => \A f \in FileIds : \A pg, w :
       FileHas(f, pg, w)' <=> ftable'[f].type = "pipe" /\ ftable'[f].pipe = pg /\ ftable'[f].writable = w
<1>1. FreeFile.type # "pipe"
  BY DEF FreeFile
<1>2. RefInv => \A f \in FileIds : ftable[f].type = "pipe" => ftable[f].ref > 0
  BY <1>1 DEF RefInv, CountInv, TypeOK
<1>3. RefInv' => \A f \in FileIds : ftable'[f].type = "pipe" => ftable'[f].ref > 0
  BY <1>1 DEF RefInv, CountInv, TypeOK
<1> QED BY <1>2, <1>3 DEF FileHas

(* No end changes hands. *)
LEMMA EndsSame ==
  ASSUME OwnerInv, OpenInv,
         \A f \in FileIds, pg \in Pages, w \in BOOLEAN : FileHas(f, pg, w)' <=> FileHas(f, pg, w),
         \A p \in Procs, pg \in Pages, w \in BOOLEAN : CloseHas(p, pg, w)' <=> CloseHas(p, pg, w),
         \A pg \in Pages, w \in BOOLEAN : IsOpen(pg, w)' <=> IsOpen(pg, w),
         \A pg \in Pages : pipe'[pg] = pipe[pg] \/ \E w \in BOOLEAN : IsOpen(pg, w)
  PROVE  OwnerInv' /\ OpenInv'
<1>1. OwnerInv'
  BY DEF OwnerInv
<1>2. \A pg \in Pages, w \in BOOLEAN : HasOwner(pg, w)' <=> HasOwner(pg, w)
  BY DEF HasOwner
<1>3. \A w \in BOOLEAN : w = TRUE \/ w = FALSE
  OBVIOUS
<1>4. \A pg \in Pages : ~IsOpen(pg, TRUE)' /\ ~IsOpen(pg, FALSE)' => pipe'[pg] = FreePipe
  BY <1>3, OpenIs
<1>5. \A pg \in Pages, w \in BOOLEAN : IsOpen(pg, w)' <=> HasOwner(pg, w)'
  BY <1>2, OpenIs
<1> QED BY <1>1, <1>4, <1>5, OpenIs

(* Nobody inside read() or write() moves to another pipe or end. *)
LEMMA HoldSame ==
  ASSUME TypeOK, HoldInv,
         \A p \in Procs, fd \in FDs, f \in FileIds, pg \in Pages, w \in BOOLEAN :
            pc[p] \in ReadPcs \cup WritePcs /\ ofile[p][fd] = f /\ FileHas(f, pg, w) => FileHas(f, pg, w)',
         \A p \in Procs : pc'[p] \in ReadPcs \cup WritePcs =>
            /\ ofile'[p] = ofile[p] /\ op'[p].pipe = op[p].pipe /\ op[p].pipe \in Pages
            /\ \/ pc[p] \in ReadPcs /\ pc'[p] \in ReadPcs
               \/ pc[p] \in WritePcs /\ pc'[p] \in WritePcs
  PROVE  HoldInv'
<1> SUFFICES ASSUME NEW p \in Procs, NEW w \in BOOLEAN, pc'[p] \in (IF w THEN WritePcs ELSE ReadPcs)
             PROVE  \E fd \in FDs : (ofile[p][fd] # 0 /\ FileHas(ofile[p][fd], op[p].pipe, w))'
  BY DEF HoldInv
<1>1. pc[p] \in (IF w THEN WritePcs ELSE ReadPcs)
  BY DEF ReadPcs, WritePcs
<1>2. /\ pc[p] \in ReadPcs \cup WritePcs /\ ofile'[p] = ofile[p]
      /\ op'[p].pipe = op[p].pipe /\ op[p].pipe \in Pages
  BY <1>1
<1>3. PICK fd \in FDs : ofile[p][fd] # 0 /\ FileHas(ofile[p][fd], op[p].pipe, w)
  BY <1>1 DEF HoldInv
<1>4. PICK f \in FileIds : f = ofile[p][fd]
  BY <1>3 DEF TypeOK, FileIds
<1>5. PICK pg \in Pages : pg = op[p].pipe
  BY <1>2
<1>6. FileHas(f, pg, w)'
  BY <1>2, <1>3, <1>4, <1>5
<1>7. ofile'[p][fd] = f /\ op'[p].pipe = pg /\ ofile'[p][fd] # 0
  BY <1>2, <1>3, <1>4, <1>5
<1> QED BY <1>6, <1>7 DEF FileHas

(* Steps after which every file is the end it was. *)
LEMMA FilesSame ==
  ASSUME RefInv, RefInv', SameFiles
  PROVE  \A f \in FileIds : \A pg, w : FileHas(f, pg, w)' <=> FileHas(f, pg, w)
BY HasIs DEF SameFiles

LEMMA EndQuiet ==
  ASSUME RefInv, RefInv', EndInv, NEW r \in Procs, Quiet(r)
  PROVE  EndInv'
<1>1. /\ SameFiles /\ pipe' = pipe /\ pc[r] \notin PipePcs /\ pc'[r] \notin PipePcs
      /\ \A q \in Procs \ {r} : ofile'[q] = ofile[q] /\ op'[q] = op[q] /\ pc'[q] = pc[q]
  BY DEF Quiet
<1>2. \A f \in FileIds : \A pg, w : FileHas(f, pg, w)' <=> FileHas(f, pg, w)
  BY <1>1, FilesSame
<1>3. \A p \in Procs, pg \in Pages, w \in BOOLEAN : CloseHas(p, pg, w)' <=> CloseHas(p, pg, w)
  BY <1>1 DEF CloseHas, PipePcs
<1>4. \A pg \in Pages, w \in BOOLEAN : IsOpen(pg, w)' <=> IsOpen(pg, w)
  BY <1>1 DEF IsOpen
<1>5. OwnerInv' /\ OpenInv'
  BY <1>1, <1>2, <1>3, <1>4, EndsSame DEF EndInv
<1>6. \A p \in Procs : pc'[p] \in ReadPcs \cup WritePcs => p # r
  BY <1>1 DEF PipePcs
<1>7. \A p \in Procs : pc'[p] \in ReadPcs \cup WritePcs =>
            /\ ofile'[p] = ofile[p] /\ op'[p].pipe = op[p].pipe /\ op[p].pipe \in Pages
            /\ \/ pc[p] \in ReadPcs /\ pc'[p] \in ReadPcs
               \/ pc[p] \in WritePcs /\ pc'[p] \in WritePcs
  BY <1>1, <1>6 DEF RefInv, PageInv
<1>8. HoldInv'
  BY <1>2, <1>7, HoldSame DEF EndInv, RefInv
<1> QED BY <1>5, <1>8 DEF EndInv

(* A page that somebody reads or writes has an open end. *)
LEMMA HeldOpen ==
  ASSUME RefInv, EndInv, NEW p \in Procs, pc[p] \in ReadPcs \cup WritePcs
  PROVE  /\ op[p].pipe \in Pages
         /\ pc[p] \in ReadPcs => pipe[op[p].pipe].readopen
         /\ pc[p] \in WritePcs => pipe[op[p].pipe].writeopen
<1>1. PICK pg \in Pages : pg = op[p].pipe
  BY DEF RefInv, PageInv
<1>2. ASSUME NEW w \in BOOLEAN, pc[p] \in (IF w THEN WritePcs ELSE ReadPcs) PROVE IsOpen(pg, w)
  <2>1. PICK fd \in FDs : ofile[p][fd] # 0 /\ FileHas(ofile[p][fd], pg, w)
    BY <1>1, <1>2 DEF EndInv, HoldInv
  <2>2. ofile[p][fd] \in FileIds
    BY <2>1 DEF RefInv, TypeOK, FileIds
  <2> QED BY <2>1, <2>2, OpenIs DEF HasOwner, EndInv
<1>3. pc[p] \in ReadPcs => IsOpen(pg, FALSE)
  BY <1>2
<1>4. pc[p] \in WritePcs => IsOpen(pg, TRUE)
  BY <1>2
<1> QED BY <1>1, <1>3, <1>4 DEF IsOpen

LEMMA EndInside ==
  ASSUME RefInv, RefInv', EndInv, NEW p \in Procs, Inside(p)
  PROVE  EndInv'
<1>1. /\ pc[p] \in ReadPcs \cup WritePcs
      /\ \/ pc'[p] = "user"
         \/ /\ op'[p].pipe = op[p].pipe
            /\ \/ pc[p] \in ReadPcs /\ pc'[p] \in ReadPcs
               \/ pc[p] \in WritePcs /\ pc'[p] \in WritePcs
      /\ \A q \in Procs \ {p} : op'[q] = op[q] /\ Woken(q)
      /\ ofile' = ofile /\ ftable' = ftable
  BY DEF Inside
<1>2. \A u \in Pages : /\ pipe'[u].readopen = pipe[u].readopen
                       /\ pipe'[u].writeopen = pipe[u].writeopen
                       /\ u # op[p].pipe => pipe'[u] = pipe[u]
  BY DEF Inside
<1>3. \A f \in FileIds : \A pg, w : FileHas(f, pg, w)' <=> FileHas(f, pg, w)
  BY <1>1 DEF FileHas
<1>4. \A q \in Procs, pg \in Pages, w \in BOOLEAN : CloseHas(q, pg, w)' <=> CloseHas(q, pg, w)
  BY <1>1 DEF CloseHas, Woken, ReadPcs, WritePcs
<1>5. \A pg \in Pages, w \in BOOLEAN : IsOpen(pg, w)' <=> IsOpen(pg, w)
  BY <1>2 DEF IsOpen
<1>6. \E w \in BOOLEAN : IsOpen(op[p].pipe, w)
  BY <1>1, HeldOpen DEF IsOpen
<1>7. OwnerInv' /\ OpenInv'
  BY <1>2, <1>3, <1>4, <1>5, <1>6, EndsSame DEF EndInv
<1>8. \A q \in Procs \ {p} : pc'[q] \in ReadPcs \cup WritePcs =>
            \/ pc[q] \in ReadPcs /\ pc'[q] \in ReadPcs
            \/ pc[q] \in WritePcs /\ pc'[q] \in WritePcs
  BY <1>1 DEF Woken, ReadPcs, WritePcs
<1>9. pc'[p] \in ReadPcs \cup WritePcs => pc'[p] # "user"
  BY DEF ReadPcs, WritePcs
<1>10. \A q \in Procs : pc'[q] \in ReadPcs \cup WritePcs =>
            /\ ofile'[q] = ofile[q] /\ op'[q].pipe = op[q].pipe /\ op[q].pipe \in Pages
            /\ \/ pc[q] \in ReadPcs /\ pc'[q] \in ReadPcs
               \/ pc[q] \in WritePcs /\ pc'[q] \in WritePcs
  BY <1>1, <1>8, <1>9 DEF RefInv, PageInv
<1>11. HoldInv'
  BY <1>3, <1>10, HoldSame DEF EndInv, RefInv
<1> QED BY <1>7, <1>11 DEF EndInv

LEMMA EndKilled ==
  ASSUME RefInv, RefInv', EndInv, NEW p \in Procs, Killed(p)
  PROVE  EndInv'
<1>1. /\ \A q \in Procs : Woken(q)
      /\ ofile' = ofile /\ ftable' = ftable /\ pipe' = pipe /\ op' = op
  BY DEF Killed
<1>3. \A f \in FileIds : \A pg, w : FileHas(f, pg, w)' <=> FileHas(f, pg, w)
  BY <1>1 DEF FileHas
<1>4. \A q \in Procs, pg \in Pages, w \in BOOLEAN : CloseHas(q, pg, w)' <=> CloseHas(q, pg, w)
  BY <1>1 DEF CloseHas, Woken
<1>5. \A pg \in Pages, w \in BOOLEAN : IsOpen(pg, w)' <=> IsOpen(pg, w)
  BY <1>1 DEF IsOpen
<1>7. OwnerInv' /\ OpenInv'
  BY <1>1, <1>3, <1>4, <1>5, EndsSame DEF EndInv
<1>8. \A q \in Procs : pc'[q] \in ReadPcs \cup WritePcs =>
            \/ pc[q] \in ReadPcs /\ pc'[q] \in ReadPcs
            \/ pc[q] \in WritePcs /\ pc'[q] \in WritePcs
  BY <1>1 DEF Woken, ReadPcs, WritePcs
<1>10. \A q \in Procs : pc'[q] \in ReadPcs \cup WritePcs =>
            /\ ofile'[q] = ofile[q] /\ op'[q].pipe = op[q].pipe /\ op[q].pipe \in Pages
            /\ \/ pc[q] \in ReadPcs /\ pc'[q] \in ReadPcs
               \/ pc[q] \in WritePcs /\ pc'[q] \in WritePcs
  BY <1>1, <1>8 DEF RefInv, PageInv
<1>11. HoldInv'
  BY <1>3, <1>10, HoldSame DEF EndInv, RefInv
<1> QED BY <1>7, <1>11 DEF EndInv

LEMMA EndEnters ==
  ASSUME RefInv, RefInv', EndInv, NEW p \in Procs, NEW v \in BOOLEAN, NEW d \in FDs, Enters(p, v, d)
  PROVE  EndInv'
<1>1. /\ pc[p] = "user" /\ pc'[p] = (IF v THEN "write" ELSE "read")
      /\ \A q \in Procs \ {p} : pc'[q] = pc[q] /\ op'[q] = op[q]
      /\ ofile' = ofile /\ ftable' = ftable /\ pipe' = pipe
  BY DEF Enters
<1>2. PICK g \in FileIds : /\ g = ofile[p][d] /\ ftable[g].type = "pipe"
                           /\ ftable[g].writable = v /\ op'[p].pipe = ftable[g].pipe
  BY DEF Enters
<1>3. \A f \in FileIds : \A pg, w : FileHas(f, pg, w)' <=> FileHas(f, pg, w)
  BY <1>1 DEF FileHas
<1>4. \A q \in Procs, pg \in Pages, w \in BOOLEAN : CloseHas(q, pg, w)' <=> CloseHas(q, pg, w)
  BY <1>1 DEF CloseHas
<1>5. \A pg \in Pages, w \in BOOLEAN : IsOpen(pg, w)' <=> IsOpen(pg, w)
  BY <1>1 DEF IsOpen
<1>6. OwnerInv' /\ OpenInv'
  BY <1>1, <1>3, <1>4, <1>5, EndsSame DEF EndInv
<1>7. HoldInv'
  <2> SUFFICES ASSUME NEW q \in Procs, NEW w \in BOOLEAN, pc'[q] \in (IF w THEN WritePcs ELSE ReadPcs)
               PROVE  \E fd \in FDs : (ofile[q][fd] # 0 /\ FileHas(ofile[q][fd], op[q].pipe, w))'
    BY DEF HoldInv
  <2>1. CASE q # p
    <3>1. PICK fd \in FDs : ofile[q][fd] # 0 /\ FileHas(ofile[q][fd], op[q].pipe, w)
      BY <1>1, <2>1 DEF EndInv, HoldInv
    <3>2. (ofile[q][fd] # 0 /\ FileHas(ofile[q][fd], op[q].pipe, w))'
      BY <1>1, <2>1, <3>1 DEF FileHas
    <3> QED BY <3>2
  <2>2. CASE q = p
    <3>1. w = v
      BY <1>1, <2>2 DEF ReadPcs, WritePcs
    <3>2. FileHas(g, op'[p].pipe, w)
      BY <1>2, <3>1, HasIs
    <3>3. g # 0
      BY DEF FileIds
    <3>4. (ofile[q][d] # 0 /\ FileHas(ofile[q][d], op[q].pipe, w))'
      BY <1>1, <1>2, <2>2, <3>2, <3>3 DEF FileHas
    <3> QED BY <3>4
  <2> QED BY <2>1, <2>2
<1> QED BY <1>6, <1>7 DEF EndInv

(* The end that g was passes from the file to the close of p. *)
LEMMA EndLastClose ==
  ASSUME RefInv, RefInv', EndInv, NEW p \in Procs, NEW g \in FileIds, LastClose(p, g)
  PROVE  EndInv'
<1>1. /\ InHand(p, 1, g) /\ ftable[g].type = "pipe" /\ ftable[g].ref = 1
      /\ ftable'[g] = FreeFile /\ \A f \in FileIds \ {g} : ftable'[f] = ftable[f]
      /\ pc[p] = "close" /\ pc'[p] = "pipeclose"
      /\ op'[p].pipe = ftable[g].pipe /\ op'[p].writable = ftable[g].writable
      /\ \A q \in Procs \ {p} : op'[q] = op[q] /\ pc'[q] = pc[q]
      /\ ofile' = ofile /\ pipe' = pipe
  BY DEF LastClose
<1>2. PICK pg0 \in Pages, w0 \in BOOLEAN : pg0 = ftable[g].pipe /\ w0 = ftable[g].writable
  BY <1>1 DEF RefInv, PageInv, TypeOK
<1>3. FileHas(g, pg0, w0) /\ \A pg, w : FileHas(g, pg, w) => pg = pg0 /\ w = w0
  BY <1>1, <1>2, HasIs DEF FileHas
<1>4. \A f \in FileIds : \A pg, w : FileHas(f, pg, w)' <=> FileHas(f, pg, w) /\ f # g
  BY <1>1 DEF FileHas, FreeFile
<1>5. \A q \in Procs : \A pg, w : CloseHas(q, pg, w)' <=>
          CloseHas(q, pg, w) \/ (q = p /\ pg = pg0 /\ w = w0)
  BY <1>1, <1>2 DEF CloseHas
<1>6. \A pg, w : ~CloseHas(p, pg, w)
  BY <1>1 DEF CloseHas
<1>7. \A f \in FileIds : FileHas(f, pg0, w0) => f = g
  BY <1>3 DEF EndInv, OwnerInv
<1>8. \A q \in Procs : ~CloseHas(q, pg0, w0)
  BY <1>3 DEF EndInv, OwnerInv
<1>9. OwnerInv'
  <2>1. \A pg \in Pages, w \in BOOLEAN, f, h \in FileIds :
           FileHas(f, pg, w)' /\ FileHas(h, pg, w)' => f = h
    BY <1>4 DEF EndInv, OwnerInv
  <2>2. \A pg \in Pages, w \in BOOLEAN, f \in FileIds, q \in Procs :
           ~(FileHas(f, pg, w)' /\ CloseHas(q, pg, w)')
    BY <1>4, <1>5, <1>7 DEF EndInv, OwnerInv
  <2>3. \A pg \in Pages, w \in BOOLEAN, q, r \in Procs :
           CloseHas(q, pg, w)' /\ CloseHas(r, pg, w)' => q = r
    BY <1>5, <1>8 DEF EndInv, OwnerInv
  <2> QED BY <2>1, <2>2, <2>3 DEF OwnerInv
<1>10. \A pg \in Pages, w \in BOOLEAN : HasOwner(pg, w)' <=> HasOwner(pg, w)
  <2> SUFFICES ASSUME NEW pg \in Pages, NEW w \in BOOLEAN PROVE HasOwner(pg, w)' <=> HasOwner(pg, w)
    OBVIOUS
  <2>1. CASE pg = pg0 /\ w = w0
    BY <1>3, <1>5, <2>1 DEF HasOwner
  <2>2. CASE ~(pg = pg0 /\ w = w0)
    <3>1. \A f \in FileIds : FileHas(f, pg, w)' <=> FileHas(f, pg, w)
      BY <1>3, <1>4, <2>2
    <3>2. \A q \in Procs : CloseHas(q, pg, w)' <=> CloseHas(q, pg, w)
      BY <1>5, <2>2
    <3> QED BY <3>1, <3>2 DEF HasOwner
  <2> QED BY <2>1, <2>2
<1>11. OpenInv'
  <2>1. \A pg \in Pages, w \in BOOLEAN : IsOpen(pg, w)' <=> IsOpen(pg, w)
    BY <1>1 DEF IsOpen
  <2> QED BY <1>1, <1>10, <2>1, OpenIs DEF EndInv
<1>12. \A q \in Procs, fd \in FDs : ofile[q][fd] # g
  <2>1. Refs(g) = 1
    BY <1>1 DEF RefInv, CountInv
  <2> QED BY <1>1, <2>1, Counted
<1>13. HoldInv'
  <2>1. \A q \in Procs, fd \in FDs, f \in FileIds, pg \in Pages, w \in BOOLEAN :
          pc[q] \in ReadPcs \cup WritePcs /\ ofile[q][fd] = f /\ FileHas(f, pg, w) => FileHas(f, pg, w)'
    BY <1>4, <1>12
  <2>2. \A q \in Procs : pc'[q] \in ReadPcs \cup WritePcs => q # p
    BY <1>1 DEF ReadPcs, WritePcs
  <2>3. \A q \in Procs : pc'[q] \in ReadPcs \cup WritePcs =>
            /\ ofile'[q] = ofile[q] /\ op'[q].pipe = op[q].pipe /\ op[q].pipe \in Pages
            /\ \/ pc[q] \in ReadPcs /\ pc'[q] \in ReadPcs
               \/ pc[q] \in WritePcs /\ pc'[q] \in WritePcs
    BY <1>1, <2>2 DEF RefInv, PageInv
  <2> QED BY <2>1, <2>3, HoldSame DEF EndInv, RefInv
<1> QED BY <1>9, <1>11, <1>13 DEF EndInv

(* A new pipe: the page was kalloc()'s, so nobody had an end of it. *)
LEMMA EndCreated ==
  ASSUME RefInv, RefInv', EndInv, NEW p \in Procs, NEW rf \in FileIds, NEW wf \in FileIds,
         NEW pg0 \in Pages, Created(p, rf, wf, pg0)
  PROVE  EndInv'
<1>1. /\ rf # wf /\ pipe[pg0] = FreePipe
      /\ \A f \in FileIds \ {rf, wf} : ftable'[f] = ftable[f]
      /\ pc[p] = "pipealloc" /\ pc'[p] \in {"user", "close"}
      /\ \A q \in Procs \ {p} : ofile'[q] = ofile[q] /\ op'[q] = op[q] /\ pc'[q] = pc[q]
  BY DEF Created
<1>2. /\ ftable[rf].type # "pipe" /\ ftable[wf].type # "pipe"
      /\ ftable'[rf].type = "pipe" /\ ftable'[wf].type = "pipe"
      /\ ftable'[rf].writable = FALSE /\ ftable'[wf].writable = TRUE
      /\ ftable'[rf].pipe = pg0 /\ ftable'[wf].pipe = pg0
  BY DEF Created, FreeFile
<1>3. /\ pipe'[pg0].readopen /\ pipe'[pg0].writeopen
      /\ \A u \in Pages \ {pg0} : pipe'[u] = pipe[u]
  BY OpenedPipe DEF Created, RefInv
<1>4. ASSUME NEW f \in FileIds, NEW pg \in Pages, NEW w \in BOOLEAN
      PROVE  FileHas(f, pg, w)' <=> \/ FileHas(f, pg, w)
                                    \/ pg = pg0 /\ f = IF w THEN wf ELSE rf
  <2>1. CASE f = rf
    <3>1. ~FileHas(f, pg, w)
      BY <1>2, <2>1 DEF FileHas
    <3>2. FileHas(f, pg, w)' <=> pg = pg0 /\ w = FALSE
      <4>1. FileHas(f, pg, w)' <=>
              ftable'[f].type = "pipe" /\ ftable'[f].pipe = pg /\ ftable'[f].writable = w
        BY HasIs
      <4>2. ftable'[f].type = "pipe" /\ ftable'[f].pipe = pg0 /\ ftable'[f].writable = FALSE
        BY <1>2, <2>1, Zenon
      <4> QED BY <4>1, <4>2, Zenon
    <3>3. (f = IF w THEN wf ELSE rf) <=> w = FALSE
      BY <1>1, <2>1
    <3> QED BY <3>1, <3>2, <3>3
  <2>2. CASE f = wf
    <3>1. ~FileHas(f, pg, w)
      BY <1>2, <2>2 DEF FileHas
    <3>2. FileHas(f, pg, w)' <=> pg = pg0 /\ w = TRUE
      <4>1. FileHas(f, pg, w)' <=>
              ftable'[f].type = "pipe" /\ ftable'[f].pipe = pg /\ ftable'[f].writable = w
        BY HasIs
      <4>2. ftable'[f].type = "pipe" /\ ftable'[f].pipe = pg0 /\ ftable'[f].writable = TRUE
        BY <1>2, <2>2, Zenon
      <4> QED BY <4>1, <4>2, Zenon
    <3>3. (f = IF w THEN wf ELSE rf) <=> w = TRUE
      BY <1>1, <2>2
    <3> QED BY <3>1, <3>2, <3>3
  <2>3. CASE f \notin {rf, wf}
    BY <1>1, <2>3 DEF FileHas
  <2> QED BY <2>1, <2>2, <2>3
<1>5. \A q \in Procs : \A pg, w : CloseHas(q, pg, w)' <=> CloseHas(q, pg, w)
  BY <1>1 DEF CloseHas
<1>6. \A w \in BOOLEAN : ~IsOpen(pg0, w) /\ IsOpen(pg0, w)'
  BY <1>1, <1>3 DEF IsOpen, FreePipe
<1>7. \A w \in BOOLEAN : ~HasOwner(pg0, w)
  BY <1>6, OpenIs DEF EndInv
<1>8. \A w \in BOOLEAN : (\A f \in FileIds : ~FileHas(f, pg0, w)) /\ \A q \in Procs : ~CloseHas(q, pg0, w)
  BY <1>7 DEF HasOwner
<1>9. OwnerInv'
  <2>1. \A pg \in Pages, w \in BOOLEAN, f, h \in FileIds :
           FileHas(f, pg, w)' /\ FileHas(h, pg, w)' => f = h
    BY <1>4, <1>8 DEF EndInv, OwnerInv
  <2>2. \A pg \in Pages, w \in BOOLEAN, f \in FileIds, q \in Procs :
           ~(FileHas(f, pg, w)' /\ CloseHas(q, pg, w)')
    BY <1>4, <1>5, <1>8 DEF EndInv, OwnerInv
  <2>3. \A pg \in Pages, w \in BOOLEAN, q, r \in Procs :
           CloseHas(q, pg, w)' /\ CloseHas(r, pg, w)' => q = r
    BY <1>5 DEF EndInv, OwnerInv
  <2> QED BY <2>1, <2>2, <2>3 DEF OwnerInv
<1>10. \A pg \in Pages, w \in BOOLEAN : IsOpen(pg, w)' <=> HasOwner(pg, w)'
  <2> SUFFICES ASSUME NEW pg \in Pages, NEW w \in BOOLEAN PROVE IsOpen(pg, w)' <=> HasOwner(pg, w)'
    OBVIOUS
  <2>1. CASE pg = pg0
    <3>1. PICK f \in FileIds : f = IF w THEN wf ELSE rf
      OBVIOUS
    <3>2. FileHas(f, pg, w)'
      BY <1>4, <2>1, <3>1
    <3> QED BY <1>6, <2>1, <3>2 DEF HasOwner
  <2>2. CASE pg # pg0
    <3>1. HasOwner(pg, w)' <=> HasOwner(pg, w)
      BY <1>4, <1>5, <2>2 DEF HasOwner
    <3>2. IsOpen(pg, w)' <=> IsOpen(pg, w)
      BY <1>3, <2>2 DEF IsOpen
    <3> QED BY <3>1, <3>2, OpenIs DEF EndInv
  <2> QED BY <2>1, <2>2
<1>11. \A pg \in Pages : ~IsOpen(pg, TRUE)' /\ ~IsOpen(pg, FALSE)' => pipe'[pg] = FreePipe
  <2> SUFFICES ASSUME NEW pg \in Pages, ~IsOpen(pg, TRUE)', ~IsOpen(pg, FALSE)' PROVE pipe'[pg] = FreePipe
    OBVIOUS
  <2>1. pg # pg0
    BY <1>6
  <2>2. ~IsOpen(pg, TRUE) /\ ~IsOpen(pg, FALSE) /\ pipe'[pg] = pipe[pg]
    BY <1>3, <2>1 DEF IsOpen
  <2> QED BY <2>2, OpenIs DEF EndInv
<1>12. OpenInv'
  BY <1>10, <1>11, OpenIs
<1>13. HoldInv'
  <2>1. \A q \in Procs, fd \in FDs, f \in FileIds, pg \in Pages, w \in BOOLEAN :
          pc[q] \in ReadPcs \cup WritePcs /\ ofile[q][fd] = f /\ FileHas(f, pg, w) => FileHas(f, pg, w)'
    BY <1>4
  <2>2. \A q \in Procs : pc'[q] \in ReadPcs \cup WritePcs => q # p
    BY <1>1 DEF ReadPcs, WritePcs
  <2>3. \A q \in Procs : pc'[q] \in ReadPcs \cup WritePcs =>
            /\ ofile'[q] = ofile[q] /\ op'[q].pipe = op[q].pipe /\ op[q].pipe \in Pages
            /\ \/ pc[q] \in ReadPcs /\ pc'[q] \in ReadPcs
               \/ pc[q] \in WritePcs /\ pc'[q] \in WritePcs
    BY <1>1, <2>2 DEF RefInv, PageInv
  <2> QED BY <2>1, <2>3, HoldSame DEF EndInv, RefInv
<1> QED BY <1>9, <1>12, <1>13 DEF EndInv

(* pipeclose(): the end goes with its owner. *)
LEMMA EndEndClosed ==
  ASSUME RefInv, RefInv', EndInv, NEW p \in Procs, NEW pg0 \in Pages, NEW w0 \in BOOLEAN,
         EndClosed(p, pg0, w0)
  PROVE  EndInv'
<1>1. /\ CloseHas(p, pg0, w0) /\ pipe'[pg0] = Closed(pipe[pg0], w0)
      /\ \A u \in Pages \ {pg0} : pipe'[u] = pipe[u]
      /\ pc'[p] = "close" /\ \A q \in Procs \ {p} : op'[q] = op[q]
      /\ ofile' = ofile /\ ftable' = ftable
  BY DEF EndClosed
<1>2. \A q \in Procs \ {p} : Woken(q)
  <2>1. PICK chan \in {"rsleep", "wsleep"} : chan = IF w0 THEN "rsleep" ELSE "wsleep"
    OBVIOUS
  <2>2. WokenAt(p, chan, pg0)
    BY <2>1 DEF EndClosed
  <2> QED BY <2>2, WokenAll
<1>3. pc[p] = "pipeclose" /\ \A pg, w : CloseHas(p, pg, w) => pg = pg0 /\ w = w0
  BY <1>1 DEF CloseHas
<1>4. \A f \in FileIds : \A pg, w : FileHas(f, pg, w)' <=> FileHas(f, pg, w)
  BY <1>1 DEF FileHas
<1>5. \A q \in Procs : \A pg, w : CloseHas(q, pg, w)' <=> CloseHas(q, pg, w) /\ q # p
  BY <1>1, <1>2 DEF CloseHas, Woken
<1>6. OwnerInv'
  BY <1>4, <1>5 DEF EndInv, OwnerInv
<1>7. ~HasOwner(pg0, w0)'
  BY <1>1, <1>4, <1>5 DEF EndInv, OwnerInv, HasOwner
<1>8. \A pg \in Pages, w \in BOOLEAN : ~(pg = pg0 /\ w = w0) => (HasOwner(pg, w)' <=> HasOwner(pg, w))
  BY <1>3, <1>4, <1>5 DEF HasOwner
<1>9. pipe[pg0] \in PipeType
  BY PipesTyped DEF RefInv
<1>10. PICK c : c = Closed(pipe[pg0], w0)
  OBVIOUS
<1>11. /\ w0 => ~c.writeopen /\ (c.readopen <=> pipe[pg0].readopen)
       /\ ~w0 => ~c.readopen /\ (c.writeopen <=> pipe[pg0].writeopen)
       /\ ~c.readopen /\ ~c.writeopen => c = FreePipe
  BY <1>9, <1>10, ClosedIs
<1>12. ~IsOpen(pg0, w0)' /\ \A w \in BOOLEAN : w # w0 => (IsOpen(pg0, w)' <=> IsOpen(pg0, w))
  BY <1>1, <1>10, <1>11 DEF IsOpen
<1>13. \A pg \in Pages \ {pg0}, w \in BOOLEAN : IsOpen(pg, w)' <=> IsOpen(pg, w)
  BY <1>1 DEF IsOpen
<1>14. \A pg \in Pages, w \in BOOLEAN : IsOpen(pg, w)' <=> HasOwner(pg, w)'
  <2> SUFFICES ASSUME NEW pg \in Pages, NEW w \in BOOLEAN PROVE IsOpen(pg, w)' <=> HasOwner(pg, w)'
    OBVIOUS
  <2>1. CASE pg = pg0 /\ w = w0
    BY <1>7, <1>12, <2>1
  <2>2. CASE ~(pg = pg0 /\ w = w0)
    <3>1. IsOpen(pg, w)' <=> IsOpen(pg, w)
      BY <1>12, <1>13, <2>2
    <3> QED BY <1>8, <2>2, <3>1, OpenIs DEF EndInv
  <2> QED BY <2>1, <2>2
<1>15. \A pg \in Pages : ~IsOpen(pg, TRUE)' /\ ~IsOpen(pg, FALSE)' => pipe'[pg] = FreePipe
  <2> SUFFICES ASSUME NEW pg \in Pages, ~IsOpen(pg, TRUE)', ~IsOpen(pg, FALSE)' PROVE pipe'[pg] = FreePipe
    OBVIOUS
  <2>1. CASE pg = pg0
    BY <1>1, <1>10, <1>11, <2>1 DEF IsOpen
  <2>2. CASE pg # pg0
    BY <1>1, <1>13, <2>2, OpenIs DEF EndInv
  <2> QED BY <2>1, <2>2
<1>16. OpenInv'
  BY <1>14, <1>15, OpenIs
<1>17. HoldInv'
  <2>1. \A q \in Procs, fd \in FDs, f \in FileIds, pg \in Pages, w \in BOOLEAN :
          pc[q] \in ReadPcs \cup WritePcs /\ ofile[q][fd] = f /\ FileHas(f, pg, w) => FileHas(f, pg, w)'
    BY <1>4
  <2>2. \A q \in Procs : pc'[q] \in ReadPcs \cup WritePcs =>
            /\ q # p
            /\ \/ pc[q] \in ReadPcs /\ pc'[q] \in ReadPcs
               \/ pc[q] \in WritePcs /\ pc'[q] \in WritePcs
    BY <1>1, <1>2 DEF Woken, ReadPcs, WritePcs
  <2>3. \A q \in Procs : pc'[q] \in ReadPcs \cup WritePcs =>
            /\ ofile'[q] = ofile[q] /\ op'[q].pipe = op[q].pipe /\ op[q].pipe \in Pages
            /\ \/ pc[q] \in ReadPcs /\ pc'[q] \in ReadPcs
               \/ pc[q] \in WritePcs /\ pc'[q] \in WritePcs
    BY <1>1, <2>2 DEF RefInv, PageInv
  <2> QED BY <2>1, <2>3, HoldSame DEF EndInv, RefInv
<1> QED BY <1>6, <1>16, <1>17 DEF EndInv
-------------------------------------------------------------------------------
(* The third layer: what is in a pipe, and who waits for it. *)
WaitPcs == {"rdoze", "wdoze", "rsleep", "wsleep"}
Waits(q) ==
  /\ pc[q] \in {"rdoze", "wdoze"} => lock[op[q].pipe] = q
  /\ pc[q] = "rdoze" => MustWaitToRead(pipe[op[q].pipe])
  /\ pc[q] = "rsleep" => MustWaitToRead(pipe[op[q].pipe]) \/ op[q].pipe \in unsignalled
  /\ pc[q] \in {"wdoze", "wsleep"} =>
        Count(pipe[op[q].pipe]) = PIPESIZE /\ pipe[op[q].pipe].readopen

LEMMA PipeInvIs ==
  /\ PipeInv => (\A pg \in Pages : Count(pipe[pg]) <= PIPESIZE) /\ \A q \in Procs : Waits(q)
  /\ (\A pg \in Pages : Count(pipe'[pg]) <= PIPESIZE) /\ (\A q \in Procs : Waits(q)') => PipeInv'
<1>1. PipeInv => (\A pg \in Pages : Count(pipe[pg]) <= PIPESIZE) /\ \A q \in Procs : Waits(q)
  BY DEF PipeInv, Waits, SleepersMustWait
<1>2. ASSUME \A pg \in Pages : Count(pipe'[pg]) <= PIPESIZE, \A q \in Procs : Waits(q)' PROVE PipeInv'
  <2>1. /\ \A p \in Procs : pc'[p] \in {"rdoze", "wdoze"} => lock'[op'[p].pipe] = p
        /\ \A p \in Procs : pc'[p] = "rdoze" => MustWaitToRead(pipe[op[p].pipe])'
        /\ \A p \in Procs : pc'[p] = "wdoze" =>
             Count(pipe'[op'[p].pipe]) = PIPESIZE /\ pipe'[op'[p].pipe].readopen
    BY <1>2 DEF Waits, Count
  <2>2. SleepersMustWait'
    BY <1>2 DEF Waits, SleepersMustWait, Count
  <2> QED BY <1>2, <2>1, <2>2 DEF PipeInv, Count
<1> QED BY <1>1, <1>2

(* Whoever waits is a reader or a writer, and knows his pipe. *)
LEMMA WaitsAt ==
  ASSUME RefInv, NEW q \in Procs, pc[q] \in WaitPcs
  PROVE  op[q].pipe \in Pages /\ pc[q] \in ReadPcs \cup WritePcs
BY DEF RefInv, PageInv, ReadPcs, WritePcs, WaitPcs

(* q goes on waiting for a pipe that the step leaves as it is. *)
LEMMA Undisturbed ==
  ASSUME NEW q \in Procs, Waits(q), NEW pg,
         pc'[q] \in WaitPcs => /\ pc'[q] = pc[q] /\ op[q].pipe = pg /\ op'[q].pipe = pg /\ pipe'[pg] = pipe[pg]
                               /\ lock'[pg] = lock[pg] /\ (pg \in unsignalled => pg \in unsignalled')
  PROVE  Waits(q)'
BY DEF Waits, WaitPcs, MustWaitToRead, Count

LEMMA PipeQuiet ==
  ASSUME RefInv, PipeInv, NEW r \in Procs, Quiet(r)
  PROVE  PipeInv'
<1>1. /\ pipe' = pipe /\ lock' = lock /\ unsignalled' = unsignalled /\ pc'[r] \notin WaitPcs
      /\ \A q \in Procs \ {r} : op'[q] = op[q] /\ pc'[q] = pc[q]
  BY DEF Quiet, PipePcs, ReadPcs, WritePcs, WaitPcs
<1>2. ASSUME NEW q \in Procs PROVE Waits(q)'
  <2>1. PICK pg : pg = op[q].pipe
    OBVIOUS
  <2>2. Waits(q)
    BY PipeInvIs
  <2> QED BY <1>1, <2>1, <2>2, Undisturbed
<1> QED BY <1>1, <1>2, PipeInvIs

LEMMA PipeKilled ==
  ASSUME RefInv, PipeInv, NEW p \in Procs, Killed(p)
  PROVE  PipeInv'
<1>1. /\ pipe' = pipe /\ lock' = lock /\ unsignalled' = unsignalled /\ op' = op
      /\ \A q \in Procs : pc'[q] \in WaitPcs => pc'[q] = pc[q]
  BY DEF Killed, Woken, WaitPcs
<1>2. ASSUME NEW q \in Procs PROVE Waits(q)'
  <2>1. PICK pg : pg = op[q].pipe
    OBVIOUS
  <2>2. Waits(q)
    BY PipeInvIs
  <2> QED BY <1>1, <2>1, <2>2, Undisturbed
<1> QED BY <1>1, <1>2, PipeInvIs

LEMMA PipeEnters ==
  ASSUME RefInv, PipeInv, NEW p \in Procs, NEW w, NEW d, Enters(p, w, d)
  PROVE  PipeInv'
<1>1. /\ pipe' = pipe /\ lock' = lock /\ unsignalled' = unsignalled /\ pc'[p] \notin WaitPcs
      /\ \A q \in Procs \ {p} : op'[q] = op[q] /\ pc'[q] = pc[q]
  BY DEF Enters, WaitPcs
<1>2. ASSUME NEW q \in Procs PROVE Waits(q)'
  <2>1. PICK pg : pg = op[q].pipe
    OBVIOUS
  <2>2. Waits(q)
    BY PipeInvIs
  <2> QED BY <1>1, <2>1, <2>2, Undisturbed
<1> QED BY <1>1, <1>2, PipeInvIs

LEMMA PipeLastClose ==
  ASSUME RefInv, PipeInv, NEW p \in Procs, NEW g, LastClose(p, g)
  PROVE  PipeInv'
<1>1. /\ pipe' = pipe /\ lock' = lock /\ unsignalled' = unsignalled /\ pc'[p] \notin WaitPcs
      /\ \A q \in Procs \ {p} : op'[q] = op[q] /\ pc'[q] = pc[q]
  BY DEF LastClose, WaitPcs
<1>2. ASSUME NEW q \in Procs PROVE Waits(q)'
  <2>1. PICK pg : pg = op[q].pipe
    OBVIOUS
  <2>2. Waits(q)
    BY PipeInvIs
  <2> QED BY <1>1, <2>1, <2>2, Undisturbed
<1> QED BY <1>1, <1>2, PipeInvIs

(* Nobody waits for a page that is kalloc()'s. *)
LEMMA PipeCreated ==
  ASSUME RefInv, EndInv, PipeInv, NEW p \in Procs, NEW rf, NEW wf, NEW pg0 \in Pages,
         Created(p, rf, wf, pg0)
  PROVE  PipeInv'
<1>1. /\ pipe[pg0] = FreePipe /\ lock' = lock /\ unsignalled' = unsignalled /\ pc'[p] \notin WaitPcs
      /\ \A q \in Procs \ {p} : op'[q] = op[q] /\ pc'[q] = pc[q]
  BY DEF Created, WaitPcs
<1>2. /\ pipe'[pg0].nread = pipe[pg0].nread /\ pipe'[pg0].nwrite = pipe[pg0].nwrite
      /\ \A u \in Pages \ {pg0} : pipe'[u] = pipe[u]
  BY OpenedPipe DEF Created, RefInv
<1>3. ASSUME NEW q \in Procs PROVE Waits(q)'
  <2>1. PICK pg : pg = op[q].pipe
    OBVIOUS
  <2>2. Waits(q)
    BY PipeInvIs
  <2>3. pc[q] \in WaitPcs => pg \in Pages /\ pg # pg0
    <3>1. ~pipe[pg0].readopen /\ ~pipe[pg0].writeopen
      BY <1>1 DEF FreePipe
    <3> QED BY <2>1, <3>1, WaitsAt, HeldOpen
  <2>4. pc[q] \in WaitPcs => pipe'[pg] = pipe[pg]
    BY <1>2, <2>3
  <2> QED BY <1>1, <2>1, <2>2, <2>4, Undisturbed
<1>4. \A pg \in Pages : Count(pipe'[pg]) = Count(pipe[pg])
  BY <1>2 DEF Count
<1> QED BY <1>3, <1>4, PipeInvIs

(* The last reader and the last writer are not asleep on the end they close. *)
LEMMA PipeEndClosed ==
  ASSUME RefInv, EndInv, PipeInv, NEW p \in Procs, NEW pg0 \in Pages, NEW w0 \in BOOLEAN,
         EndClosed(p, pg0, w0)
  PROVE  PipeInv'
<1>1. /\ CloseHas(p, pg0, w0) /\ lock[pg0] = Unlocked
      /\ pipe'[pg0] = Closed(pipe[pg0], w0) /\ \A u \in Pages \ {pg0} : pipe'[u] = pipe[u]
      /\ pc'[p] = "close" /\ \A q \in Procs \ {p} : op'[q] = op[q]
      /\ WokenAt(p, IF w0 THEN "rsleep" ELSE "wsleep", pg0)
      /\ unsignalled' = unsignalled \ {pg0} /\ lock' = lock
  BY DEF EndClosed
<1>2. ASSUME NEW q \in Procs, pc'[q] \in WaitPcs PROVE q # p /\ pc'[q] = pc[q] /\ op[q].pipe # pg0
  <2>1. q # p
    BY <1>1, <1>2 DEF WaitPcs
  <2>2. /\ pc'[q] = pc[q]
        /\ ~(pc[q] = (IF w0 THEN "rsleep" ELSE "wsleep") /\ op[q].pipe = pg0)
    BY <1>1, <1>2, <2>1 DEF WokenAt, WaitPcs
  <2>3. ASSUME op[q].pipe = pg0 PROVE FALSE
    <3>1. pc[q] \notin {"rdoze", "wdoze"}
      BY <1>1, <2>3, PipeInvIs, FilesAssumption DEF Waits
    <3>2. pc[q] = (IF w0 THEN "wsleep" ELSE "rsleep")
      BY <1>2, <2>2, <2>3, <3>1 DEF WaitPcs
    <3>3. pc[q] \in (IF w0 THEN WritePcs ELSE ReadPcs)
      BY <3>2 DEF ReadPcs, WritePcs
    <3>4. PICK fd \in FDs : ofile[q][fd] # 0 /\ FileHas(ofile[q][fd], pg0, w0)
      BY <2>3, <3>3 DEF EndInv, HoldInv
    <3>5. ofile[q][fd] \in FileIds
      BY <3>4 DEF RefInv, TypeOK, FileIds
    <3> QED BY <1>1, <3>4, <3>5 DEF EndInv, OwnerInv
  <2> QED BY <2>1, <2>2, <2>3
<1>3. ASSUME NEW q \in Procs PROVE Waits(q)'
  <2>1. PICK pg : pg = op[q].pipe
    OBVIOUS
  <2>2. Waits(q)
    BY PipeInvIs
  <2>3. pc'[q] \in WaitPcs => pg \in Pages \ {pg0} /\ pc'[q] = pc[q] /\ op'[q].pipe = pg
    BY <1>1, <1>2, <2>1, WaitsAt
  <2>4. pc'[q] \in WaitPcs => pipe'[pg] = pipe[pg] /\ (pg \in unsignalled => pg \in unsignalled')
    BY <1>1, <2>3
  <2> QED BY <1>1, <2>1, <2>2, <2>3, <2>4, Undisturbed
<1>4. Count(pipe'[pg0]) <= PIPESIZE
  <2>1. pipe[pg0] \in PipeType /\ Count(pipe[pg0]) <= PIPESIZE
    BY PipesTyped, PipeInvIs DEF RefInv
  <2>2. PICK c \in PipeType : c = pipe'[pg0]
    BY <1>1, <2>1, ClosedIs
  <2>3. CASE c.readopen \/ c.writeopen
    <3>1. c.nread = pipe[pg0].nread /\ c.nwrite = pipe[pg0].nwrite
      BY <1>1, <2>1, <2>2, <2>3, ClosedIs
    <3>2. Count(c) = Count(pipe[pg0])
      BY <3>1 DEF Count
    <3> QED BY <2>1, <2>2, <3>2
  <2>4. CASE ~c.readopen /\ ~c.writeopen
    <3>1. c = FreePipe
      BY <1>1, <2>1, <2>2, <2>4, ClosedIs
    <3>2. c.nread = 0 /\ c.nwrite = 0
      BY <3>1 DEF FreePipe
    <3>3. Count(c) = 0
      BY <2>2, <3>2, CountIs
    <3> QED BY <2>2, <3>3, FilesAssumption
  <2> QED BY <2>3, <2>4
<1>5. \A pg \in Pages : Count(pipe'[pg]) <= PIPESIZE
  BY <1>1, <1>4, PipeInvIs
<1> QED BY <1>3, <1>5, PipeInvIs

LEMMA CountRead ==
  ASSUME NEW pp \in PipeType, NEW k \in 0 .. Count(pp)
  PROVE  LET c == [pp EXCEPT !.nread = Advance(@, k)] IN
         /\ c \in PipeType /\ Count(c) = Count(pp) - k
         /\ c.readopen = pp.readopen /\ c.writeopen = pp.writeopen /\ c.data = pp.data
         /\ c.nread = Advance(pp.nread, k)
<1>1. CounterMod \in Nat /\ pp.nread \in 0 .. CounterMod - 1 /\ pp.nwrite \in 0 .. CounterMod - 1
  BY FilesAssumption DEF PipeType
<1>2. /\ Count(pp) \in 0 .. CounterMod - 1
      /\ pp.nwrite >= pp.nread => Count(pp) = pp.nwrite - pp.nread
      /\ pp.nwrite < pp.nread => Count(pp) = pp.nwrite - pp.nread + CounterMod
  BY CountIs
<1>3. k \in 0 .. CounterMod - 1
  BY <1>1, <1>2
<1>4. PICK c \in PipeType : /\ c = [pp EXCEPT !.nread = Advance(@, k)] /\ c.nread = Advance(pp.nread, k)
                            /\ c.nwrite = pp.nwrite /\ c.data = pp.data
                            /\ c.readopen = pp.readopen /\ c.writeopen = pp.writeopen
  BY <1>3, NReadIs
<1>5. /\ Advance(pp.nread, k) \in 0 .. CounterMod - 1
      /\ pp.nread + k < CounterMod => Advance(pp.nread, k) = pp.nread + k
      /\ pp.nread + k >= CounterMod => Advance(pp.nread, k) = pp.nread + k - CounterMod
  BY <1>1, <1>3, AdvanceIs
<1>6. /\ Count(c) \in 0 .. CounterMod - 1
      /\ c.nwrite >= c.nread => Count(c) = c.nwrite - c.nread
      /\ c.nwrite < c.nread => Count(c) = c.nwrite - c.nread + CounterMod
  BY CountIs
<1>7. Count(c) = Count(pp) - k
  BY <1>1, <1>2, <1>3, <1>4, <1>5, <1>6
<1> QED BY <1>4, <1>7

LEMMA WrapAdd ==
  ASSUME NEW M \in Nat, NEW r \in 0 .. M - 1, NEW w \in 0 .. M - 1, NEW k \in 0 .. M - 1,
         NEW n \in 0 .. M - 1, NEW c \in 0 .. M - 1, NEW d \in 0 .. M - 1,
         w >= r => c = w - r, w < r => c = w - r + M,
         w + k < M => n = w + k, w + k >= M => n = w + k - M,
         n >= r => d = n - r, n < r => d = n - r + M, c + k < M
  PROVE  d = c + k
OBVIOUS

LEMMA CountPut ==
  ASSUME NEW pp \in PipeType, NEW buf \in Seq(Byte), NEW k \in 0 .. Len(buf),
         Count(pp) <= PIPESIZE, k <= Space(pp)
  PROVE  LET c == Put(pp, buf, k) IN
         /\ c \in PipeType /\ Count(c) = Count(pp) + k /\ k < CounterMod
         /\ c.readopen = pp.readopen /\ c.writeopen = pp.writeopen /\ c.nread = pp.nread
<1>1. /\ CounterMod \in Nat /\ PIPESIZE \in Nat /\ PIPESIZE < CounterMod
      /\ pp.nread \in 0 .. CounterMod - 1 /\ pp.nwrite \in 0 .. CounterMod - 1
  BY FilesAssumption DEF PipeType
<1>2. /\ Count(pp) \in 0 .. CounterMod - 1
      /\ pp.nwrite >= pp.nread => Count(pp) = pp.nwrite - pp.nread
      /\ pp.nwrite < pp.nread => Count(pp) = pp.nwrite - pp.nread + CounterMod
  BY CountIs
<1>3. k \in 0 .. CounterMod - 1 /\ Count(pp) + k <= PIPESIZE /\ k < CounterMod
  BY <1>1, <1>2 DEF Space
<1>4. PICK c \in PipeType : /\ c = Put(pp, buf, k) /\ c.nread = pp.nread
                            /\ c.nwrite = Advance(pp.nwrite, k)
                            /\ c.readopen = pp.readopen /\ c.writeopen = pp.writeopen
  BY <1>3, PutIs
<1>5. /\ Advance(pp.nwrite, k) \in 0 .. CounterMod - 1
      /\ pp.nwrite + k < CounterMod => Advance(pp.nwrite, k) = pp.nwrite + k
      /\ pp.nwrite + k >= CounterMod => Advance(pp.nwrite, k) = pp.nwrite + k - CounterMod
  BY <1>1, <1>3, AdvanceIs
<1>6. /\ Count(c) \in 0 .. CounterMod - 1
      /\ c.nwrite >= c.nread => Count(c) = c.nwrite - c.nread
      /\ c.nwrite < c.nread => Count(c) = c.nwrite - c.nread + CounterMod
  BY CountIs
<1>7. Count(c) = Count(pp) + k
  <2>1. Count(pp) + k < CounterMod
    BY <1>1, <1>2, <1>3
  <2>2. /\ c.nwrite \in 0 .. CounterMod - 1
        /\ pp.nwrite + k < CounterMod => c.nwrite = pp.nwrite + k
        /\ pp.nwrite + k >= CounterMod => c.nwrite = pp.nwrite + k - CounterMod
    BY <1>4, <1>5
  <2>3. /\ c.nwrite >= pp.nread => Count(c) = c.nwrite - pp.nread
        /\ c.nwrite < pp.nread => Count(c) = c.nwrite - pp.nread + CounterMod
    BY <1>4, <1>6
  <2>4. PICK r \in 0 .. CounterMod - 1, w \in 0 .. CounterMod - 1, n \in 0 .. CounterMod - 1 :
          r = pp.nread /\ w = pp.nwrite /\ n = c.nwrite
    BY <1>1, <2>2
  <2>5. PICK m \in 0 .. CounterMod - 1, d \in 0 .. CounterMod - 1 : m = Count(pp) /\ d = Count(c)
    BY <1>2, <1>6
  <2>6. /\ w >= r => m = w - r
        /\ w < r => m = w - r + CounterMod
        /\ w + k < CounterMod => n = w + k
        /\ w + k >= CounterMod => n = w + k - CounterMod
        /\ n >= r => d = n - r
        /\ n < r => d = n - r + CounterMod
        /\ m + k < CounterMod
    BY <1>2, <2>1, <2>2, <2>3, <2>4, <2>5
  <2>7. d = m + k
    BY <1>1, <1>3, <2>6, WrapAdd
  <2> QED BY <2>5, <2>7
<1> QED BY <1>3, <1>4, <1>7

LEMMA PipeReadStop ==
  ASSUME RefInv, PipeInv, NEW p \in Procs, Inside(p), ReadStop(p)
  PROVE  PipeInv'
<1>1. /\ pipe' = pipe /\ lock' = lock /\ unsignalled' = unsignalled /\ pc'[p] \notin WaitPcs
      /\ \A q \in Procs \ {p} : op'[q] = op[q] /\ pc'[q] = pc[q]
  BY DEF ReadStop, Inside, WaitPcs
<1>2. ASSUME NEW q \in Procs PROVE Waits(q)'
  <2>1. PICK pg : pg = op[q].pipe
    OBVIOUS
  <2>2. Waits(q)
    BY PipeInvIs
  <2> QED BY <1>1, <2>1, <2>2, Undisturbed
<1> QED BY <1>1, <1>2, PipeInvIs

(* While nobody has the lock nobody is on his way to sleep. *)
LEMMA NoDozer ==
  ASSUME PipeInv, NEW pg, lock[pg] = Unlocked, NEW q \in Procs, op[q].pipe = pg
  PROVE  pc[q] \notin {"rdoze", "wdoze"}
BY PipeInvIs, FilesAssumption DEF Waits

LEMMA PipeReadWait ==
  ASSUME RefInv, PipeInv, NEW p \in Procs, NEW pg0 \in Pages, ReadWait(p, pg0)
  PROVE  PipeInv'
<1>1. /\ op[p].pipe = pg0 /\ lock[pg0] = Unlocked /\ MustWaitToRead(pipe[pg0])
      /\ pc'[p] = "rdoze" /\ lock' = [lock EXCEPT ![pg0] = p]
      /\ \A q \in Procs \ {p} : pc'[q] = pc[q]
      /\ op' = op /\ pipe' = pipe /\ unsignalled' = unsignalled
  BY DEF ReadWait
<1>2. lock'[pg0] = p /\ \A u \in Pages \ {pg0} : lock'[u] = lock[u]
  BY <1>1 DEF RefInv, TypeOK
<1>3. Waits(p)'
  BY <1>1, <1>2 DEF Waits
<1>4. ASSUME NEW q \in Procs, q # p PROVE Waits(q)'
  <2>1. PICK pg : pg = op[q].pipe
    OBVIOUS
  <2>2. Waits(q)
    BY PipeInvIs
  <2>3. pc[q] \in WaitPcs => pg \in Pages
    BY <2>1, WaitsAt
  <2>4. CASE pg = pg0
    <3>1. pc[q] \notin {"rdoze", "wdoze"}
      BY <1>1, <2>1, <2>4, NoDozer
    <3> QED BY <1>1, <1>4, <2>1, <2>2, <3>1 DEF Waits
  <2>5. CASE pg # pg0
    <3>1. pc[q] \in WaitPcs => lock'[pg] = lock[pg]
      BY <1>2, <2>3, <2>5
    <3> QED BY <1>1, <1>4, <2>1, <2>2, <3>1, Undisturbed
  <2> QED BY <2>4, <2>5
<1> QED BY <1>1, <1>3, <1>4, PipeInvIs

LEMMA PipeSlept ==
  ASSUME RefInv, PipeInv, NEW p \in Procs, NEW pg0 \in Pages, Slept(p, pg0)
  PROVE  PipeInv'
<1>1. /\ pg0 = op[p].pipe
      /\ \/ pc[p] = "rdoze" /\ pc'[p] = "rsleep"
         \/ pc[p] = "wdoze" /\ pc'[p] = "wsleep"
      /\ lock' = [lock EXCEPT ![pg0] = Unlocked]
      /\ \A q \in Procs \ {p} : pc'[q] = pc[q]
      /\ op' = op /\ pipe' = pipe /\ unsignalled' = unsignalled
  BY DEF Slept
<1>2. \A u \in Pages \ {pg0} : lock'[u] = lock[u]
  BY <1>1 DEF RefInv, TypeOK
<1>3. Waits(p)'
  <2>1. Waits(p)
    BY PipeInvIs
  <2> QED BY <1>1, <2>1 DEF Waits
<1>4. ASSUME NEW q \in Procs, q # p PROVE Waits(q)'
  <2>1. PICK pg : pg = op[q].pipe
    OBVIOUS
  <2>2. Waits(q) /\ Waits(p)
    BY PipeInvIs
  <2>3. pc[q] \in WaitPcs => pg \in Pages
    BY <2>1, WaitsAt
  <2>4. CASE pg = pg0
    <3>1. lock[pg0] = p
      BY <1>1, <2>2 DEF Waits
    <3>2. pc[q] \notin {"rdoze", "wdoze"}
      BY <1>4, <2>1, <2>2, <2>4, <3>1 DEF Waits
    <3> QED BY <1>1, <1>4, <2>1, <2>2, <3>2 DEF Waits
  <2>5. CASE pg # pg0
    <3>1. pc[q] \in WaitPcs => lock'[pg] = lock[pg]
      BY <1>2, <2>3, <2>5
    <3> QED BY <1>1, <1>4, <2>1, <2>2, <3>1, Undisturbed
  <2> QED BY <2>4, <2>5
<1> QED BY <1>1, <1>3, <1>4, PipeInvIs

LEMMA PipeReadSome ==
  ASSUME RefInv, PipeInv, NEW p \in Procs, NEW pg0 \in Pages, NEW k \in 0 .. Count(pipe[pg0]),
         Inside(p), ReadSome(p, pg0, k)
  PROVE  PipeInv'
<1>1. /\ lock[pg0] = Unlocked /\ ~MustWaitToRead(pipe[pg0])
      /\ pipe'[pg0] = [pipe[pg0] EXCEPT !.nread = Advance(@, k)]
      /\ \A u \in Pages \ {pg0} : pipe'[u] = pipe[u]
      /\ pc'[p] = "user" /\ WokenAt(p, "wsleep", pg0)
      /\ lock' = lock /\ unsignalled' = unsignalled
      /\ \A q \in Procs \ {p} : op'[q] = op[q]
  BY DEF ReadSome, Inside
<1>2. ASSUME NEW q \in Procs PROVE Waits(q)'
  <2>1. PICK pg : pg = op[q].pipe
    OBVIOUS
  <2>2. Waits(q)
    BY PipeInvIs
  <2>3. pc'[q] \in WaitPcs => q # p /\ pc'[q] = pc[q]
    BY <1>1 DEF WokenAt, WaitPcs
  <2>4. pc[q] \in WaitPcs => pg \in Pages
    BY <2>1, WaitsAt
  <2>5. CASE pg = pg0 /\ pc'[q] \in WaitPcs
    <3>1. pc[q] \notin {"rdoze", "wdoze"}
      BY <1>1, <2>1, <2>5, NoDozer
    <3>2. pc[q] # "wsleep"
      BY <1>1, <2>1, <2>3, <2>5 DEF WokenAt, WaitPcs
    <3>3. pc[q] = "rsleep"
      BY <2>3, <2>5, <3>1, <3>2 DEF WaitPcs
    <3>4. pg0 \in unsignalled
      BY <1>1, <2>1, <2>2, <2>5, <3>3 DEF Waits
    <3> QED BY <1>1, <2>1, <2>3, <2>5, <3>3, <3>4 DEF Waits
  <2>6. CASE pg # pg0 \/ pc'[q] \notin WaitPcs
    <3>1. pc'[q] \in WaitPcs => pipe'[pg] = pipe[pg] /\ op'[q].pipe = pg
      BY <1>1, <2>1, <2>3, <2>4, <2>6
    <3> QED BY <1>1, <2>1, <2>2, <2>3, <3>1, Undisturbed
  <2> QED BY <2>5, <2>6
<1>3. Count(pipe'[pg0]) <= PIPESIZE
  <2>1. pipe[pg0] \in PipeType /\ Count(pipe[pg0]) <= PIPESIZE
    BY PipesTyped, PipeInvIs DEF RefInv
  <2>2. Count(pipe'[pg0]) = Count(pipe[pg0]) - k
    BY <1>1, <2>1, CountRead
  <2>3. Count(pipe[pg0]) \in 0 .. CounterMod - 1 /\ CounterMod \in Nat /\ PIPESIZE \in Nat
    BY <2>1, CountIs, FilesAssumption
  <2> QED BY <2>1, <2>2, <2>3
<1>4. \A pg \in Pages : Count(pipe'[pg]) <= PIPESIZE
  BY <1>1, <1>3, PipeInvIs
<1> QED BY <1>2, <1>4, PipeInvIs

(* pipewrite(): the readers it leaves asleep are those of an empty pipe it *)
(* put nothing in, or are noted in unsignalled.                            *)
LEMMA PipeWrote ==
  ASSUME RefInv, PipeInv, NEW p \in Procs, NEW pg0 \in Pages, NEW buf \in Seq(Byte), NEW k \in 0 .. Len(buf),
         Inside(p), Wrote(p, pg0, buf, k),
         WriteDone(p, pg0) \/ WriteStop(p, pg0, k) \/ WriteWait(p, pg0, k)
  PROVE  PipeInv'
<1>1. /\ op[p].pipe = pg0 /\ lock[pg0] = Unlocked /\ k <= Space(pipe[pg0])
      /\ pipe'[pg0] = Put(pipe[pg0], buf, k) /\ \A u \in Pages \ {pg0} : pipe'[u] = pipe[u]
      /\ \A q \in Procs \ {p} : op'[q] = op[q] /\ Woken(q)
  BY DEF Wrote, Inside
<1>2. pipe[pg0] \in PipeType /\ Count(pipe[pg0]) <= PIPESIZE
  BY PipesTyped, PipeInvIs DEF RefInv
<1>3. /\ Count(pipe[pg0]) \in Nat /\ PIPESIZE \in Nat
  BY <1>2, CountIs, FilesAssumption
<1>4. /\ Count(pipe'[pg0]) = Count(pipe[pg0]) + k
      /\ pipe'[pg0].readopen = pipe[pg0].readopen /\ pipe'[pg0].writeopen = pipe[pg0].writeopen
  BY <1>1, <1>2, CountPut
<1>5. Count(pipe'[pg0]) <= PIPESIZE
  BY <1>1, <1>3, <1>4 DEF Space
<1>6. \A pg \in Pages : Count(pipe'[pg]) <= PIPESIZE
  BY <1>1, <1>5, PipeInvIs
<1>7. k = Space(pipe[pg0]) => Count(pipe'[pg0]) = PIPESIZE
  BY <1>3, <1>4 DEF Space
<1>8. /\ \A u \in Pages \ {pg0} : lock'[u] = lock[u]
      /\ \A u \in Pages \ {pg0} : u \in unsignalled => u \in unsignalled'
  BY DEF WriteDone, WriteStop, WriteWait, RefInv, TypeOK
<1>9. Waits(p)'
  <2>1. CASE pc'[p] = "user"
    BY <2>1 DEF Waits
  <2>2. CASE WriteWait(p, pg0, k)
    <3>1. pc'[p] = "wdoze" /\ op'[p].pipe = pg0 /\ lock'[pg0] = p
      BY <2>2 DEF WriteWait, RefInv, TypeOK
    <3>2. Count(pipe'[pg0]) = PIPESIZE /\ pipe'[pg0].readopen
      BY <1>4, <1>7, <2>2 DEF WriteWait
    <3> QED BY <3>1, <3>2 DEF Waits, Count
  <2> QED BY <2>1, <2>2 DEF WriteDone, WriteStop
<1>10. ASSUME NEW q \in Procs, q # p PROVE Waits(q)'
  <2>1. PICK pg : pg = op[q].pipe
    OBVIOUS
  <2>2. Waits(q)
    BY PipeInvIs
  <2>3. op'[q].pipe = pg /\ (pc'[q] \in WaitPcs => pc'[q] = pc[q])
    BY <1>1, <1>10, <2>1 DEF Woken, WaitPcs
  <2>4. pc[q] \in WaitPcs => pg \in Pages
    BY <2>1, WaitsAt
  <2>5. CASE pg = pg0 /\ pc'[q] \in WaitPcs
    <3>1. pc[q] \notin {"rdoze", "wdoze"}
      BY <1>1, <2>1, <2>5, NoDozer
    <3>2. CASE pc[q] = "wsleep"
      <4>1. Count(pipe[pg0]) = PIPESIZE /\ pipe[pg0].readopen
        BY <2>1, <2>2, <2>5, <3>2 DEF Waits
      <4>2. k = 0
        BY <1>1, <1>3, <4>1 DEF Space
      <4>3. Count(pipe'[pg0]) = PIPESIZE /\ pipe'[pg0].readopen
        BY <1>3, <1>4, <4>1, <4>2
      <4>4. pc'[q] = "wsleep" /\ op'[q].pipe = pg0
        BY <2>3, <2>5, <3>2
      <4> QED BY <4>3, <4>4 DEF Waits, Count
    <3>3. CASE pc[q] = "rsleep"
      <4>1. pc'[q] = "rsleep" /\ op'[q].pipe = pg0
        BY <2>3, <2>5, <3>3
      <4>2. WriteStop(p, pg0, k)
        <5>1. ~WokenAt(p, "rsleep", pg0)
          BY <1>10, <2>1, <2>5, <3>3, <4>1 DEF WokenAt
        <5> QED BY <5>1 DEF WriteDone, WriteWait
      <4>3. CASE k > 0
        BY <4>1, <4>2, <4>3 DEF WriteStop, Waits
      <4>4. CASE k = 0
        <5>1. Count(pipe'[pg0]) = Count(pipe[pg0]) /\ unsignalled' = unsignalled
          BY <1>3, <1>4, <4>2, <4>4 DEF WriteStop
        <5>2. MustWaitToRead(pipe[pg0]) \/ pg0 \in unsignalled
          BY <2>1, <2>2, <2>5, <3>3 DEF Waits
        <5>3. MustWaitToRead(pipe'[pg0]) \/ pg0 \in unsignalled'
          BY <1>4, <5>1, <5>2 DEF MustWaitToRead
        <5> QED BY <4>1, <5>3 DEF Waits, MustWaitToRead, Count
      <4> QED BY <4>3, <4>4
    <3> QED BY <2>3, <2>5, <3>1, <3>2, <3>3 DEF WaitPcs
  <2>6. CASE pg # pg0 \/ pc'[q] \notin WaitPcs
    <3>1. pc'[q] \in WaitPcs => /\ pipe'[pg] = pipe[pg] /\ lock'[pg] = lock[pg]
                                /\ (pg \in unsignalled => pg \in unsignalled')
      BY <1>1, <1>8, <2>3, <2>4, <2>6
    <3> QED BY <2>1, <2>2, <2>3, <3>1, Undisturbed
  <2> QED BY <2>5, <2>6
<1> QED BY <1>6, <1>9, <1>10, PipeInvIs
-------------------------------------------------------------------------------
FilesInv == RefInv /\ EndInv /\ PipeInv

LEMMA FilesInit ==
  ASSUME Init PROVE FilesInv
<1>1. /\ ofile = [p \in Procs |-> [fd \in FDs |-> 0]] /\ ftable = [f \in FileIds |-> FreeFile]
      /\ pipe = [pg \in Pages |-> FreePipe] /\ lock = [pg \in Pages |-> Unlocked]
      /\ pc = [p \in Procs |-> IF p = Root THEN "user" ELSE "unused"]
      /\ op = [p \in Procs |-> NoOp] /\ opens = 0 /\ exiting = {} /\ killed = {} /\ unsignalled = {}
  BY DEF Init
<1>2. /\ FreeFile \in FileType /\ FreeFile.ref = 0 /\ FreeFile.type = "none"
  BY DEF FreeFile, FileType
<1>3. TypeOK
  <2>1. ofile \in [Procs -> [FDs -> 0 .. NFILE]]
    BY <1>1, FilesAssumption
  <2>2. ftable \in [FileIds -> FileType] /\ pipe \in [Pages -> PipeType] /\ op \in [Procs -> CallType]
    BY <1>1, <1>2, FreePipeType, NoOpType
  <2>3. pc \in [Procs -> PcType] /\ lock \in [Pages -> Procs \cup {Unlocked}]
    BY <1>1 DEF PcType
  <2>4. opens \in 0 .. MaxOpens
    BY <1>1, FilesAssumption
  <2> QED BY <1>1, <2>1, <2>2, <2>3, <2>4 DEF TypeOK, FileType, PipeType, CallType, PcType
<1>4. \A p \in Procs : op[p].files = <<>> /\ pc[p] \in {"user", "unused"}
  BY <1>1, NoOpType
<1>5. HandInv
  BY <1>1, <1>4 DEF HandInv
<1>6. PageInv
  BY <1>1, <1>2, <1>4 DEF PageInv, ReadPcs, WritePcs
<1>7. PrivateInv
  BY <1>4 DEF PrivateInv
<1>8. CountInv
  <2>1. ASSUME NEW f \in FileIds PROVE Refs(f) = 0
    <3>1. Descr(ofile, f) = {}
      <4>1. \A d \in Procs \X FDs : ofile[d[1]][d[2]] = 0
        BY <1>1
      <4> QED BY <4>1 DEF FileIds, Descr
    <3>2. Hand(op, f) = {}
      <4>1. \A h \in Procs \X (1 .. 2) : DOMAIN op[h[1]].files = {}
        BY <1>4, ShortDomains
      <4> QED BY <4>1 DEF Hand
    <3>3. Cardinality({}) = 0
      BY FS_EmptySet
    <3>4. Refs(f) = Cardinality(Descr(ofile, f)) + Cardinality(Hand(op, f))
      BY DEF Refs, Descr, Hand
    <3> QED BY <3>1, <3>2, <3>3, <3>4
  <2> QED BY <1>1, <1>2, <2>1 DEF CountInv
<1>9. RefInv
  BY <1>3, <1>5, <1>6, <1>7, <1>8 DEF RefInv
<1>10. /\ \A f \in FileIds : \A pg, w : ~FileHas(f, pg, w)
       /\ \A p \in Procs : \A pg, w : ~CloseHas(p, pg, w)
  BY <1>1, <1>2, <1>4 DEF FileHas, CloseHas
<1>11. OwnerInv
  BY <1>10 DEF OwnerInv
<1>12. OpenInv
  <2>1. \A pg \in Pages : pipe[pg] = FreePipe /\ ~pipe[pg].readopen /\ ~pipe[pg].writeopen
    BY <1>1 DEF FreePipe
  <2>2. \A pg \in Pages, w \in BOOLEAN : ~IsOpen(pg, w) /\ ~HasOwner(pg, w)
    BY <1>10, <2>1 DEF IsOpen, HasOwner
  <2> QED BY <2>1, <2>2, OpenIs
<1>13. HoldInv
  BY <1>4 DEF HoldInv, ReadPcs, WritePcs
<1>14. PipeInv
  <2>1. FreePipe.nread = 0 /\ FreePipe.nwrite = 0
    BY DEF FreePipe
  <2>2. Count(FreePipe) = 0
    BY <2>1, FreePipeType, CountIs
  <2>3. \A pg \in Pages : Count(pipe[pg]) <= PIPESIZE
    BY <1>1, <2>2, FilesAssumption
  <2>4. SleepersMustWait
    BY <1>4 DEF SleepersMustWait
  <2> QED BY <1>4, <2>3, <2>4 DEF PipeInv
<1> QED BY <1>9, <1>11, <1>12, <1>13, <1>14 DEF FilesInv, EndInv

(* What a step of p comes to. *)
Effect(p) ==
  \/ Quiet(p) \/ Killed(p)
  \/ \E g \in FileIds : LastClose(p, g)
  \/ \E rf, wf \in FileIds, pg \in Pages : Created(p, rf, wf, pg)
  \/ \E pg \in Pages, w \in BOOLEAN : EndClosed(p, pg, w)
  \/ \E w \in BOOLEAN, fd \in FDs : Enters(p, w, fd)
  \/ /\ Inside(p)
     /\ \/ ReadStop(p)
        \/ \E pg \in Pages : ReadWait(p, pg) \/ Slept(p, pg)
        \/ \E pg \in Pages : \E k \in 0 .. Count(pipe[pg]) : ReadSome(p, pg, k)
        \/ \E pg \in Pages, buf \in Seq(Byte) : \E k \in 0 .. Len(buf) :
             /\ Wrote(p, pg, buf, k)
             /\ WriteDone(p, pg) \/ WriteStop(p, pg, k) \/ WriteWait(p, pg, k)

LEMMA FilesStep ==
  ASSUME FilesInv, Next PROVE RefInv' /\ \E p \in Procs : Effect(p)
<1> USE DEF FilesInv
<1>1. PICK p \in Procs : Calls(p) \/ InCall(p)
  BY DEF Next
<1>2. CASE sys_dup(p)
  BY <1>2, RefDup DEF Effect
<1>3. CASE sys_open(p)
  BY <1>3, RefOpen DEF Effect
<1>4. CASE PipeFirstFile(p)
  BY <1>4, RefPipeFirst DEF Effect
<1>5. CASE sys_close(p)
  BY <1>5, RefClose DEF Effect
<1>6. CASE exit(p)
  BY <1>6, RefExit DEF Effect
<1>7. CASE sys_read(p)
  <2>1. PICK n \in Sizes : sys_rw(p, FALSE, <<>>, n)
    BY <1>7 DEF sys_read
  <2>2. FALSE \in BOOLEAN /\ <<>> \in Seq(Byte) /\ n \in Sizes \cup {0}
    OBVIOUS
  <2> QED BY <2>1, <2>2, RefSysRw DEF Effect
<1>8. CASE sys_write(p)
  <2>1. PICK buf \in Buffers : sys_rw(p, TRUE, buf, 0)
    BY <1>8 DEF sys_write
  <2>2. TRUE \in BOOLEAN /\ buf \in Seq(Byte) /\ 0 \in Sizes \cup {0}
    BY FilesAssumption
  <2> QED BY <2>1, <2>2, RefSysRw DEF Effect
<1>9. CASE kill(p)
  BY <1>9, RefKill DEF Effect
<1>10. CASE \E c \in Procs : fork(p, c)
  BY <1>10, RefFork DEF Effect
<1>11. CASE PipeSecondFile(p)
  BY <1>11, RefPipeSecond DEF Effect
<1>12. CASE PipePage(p)
  BY <1>12, RefPipePage DEF Effect
<1>13. CASE ExitNext(p)
  BY <1>13, RefExitNext DEF Effect
<1>14. CASE fileclose(p)
  BY <1>14, RefFileclose DEF Effect
<1>15. CASE CloseDone(p)
  BY <1>15, RefCloseDone DEF Effect
<1>16. CASE pipeclose(p)
  BY <1>16, RefPipeclose DEF Effect
<1>17. CASE piperead(p)
  BY <1>17, RefPiperead DEF Effect
<1>18. CASE pipewrite(p)
  <2>1. \A pg \in Pages : Count(pipe[pg]) <= PIPESIZE
    BY PipeInvIs
  <2> QED BY <1>18, <2>1, RefPipewrite DEF Effect
<1>19. CASE sleep(p)
  BY <1>19, RefSleep DEF Effect
<1> QED BY <1>1, <1>2, <1>3, <1>4, <1>5, <1>6, <1>7, <1>8, <1>9, <1>10, <1>11, <1>12, <1>13,
           <1>14, <1>15, <1>16, <1>17, <1>18, <1>19 DEF Calls, InCall

LEMMA FilesNext ==
  ASSUME FilesInv, [Next]_vars PROVE FilesInv'
<1> USE DEF FilesInv
<1>1. CASE UNCHANGED vars
  <2> ofile' = ofile /\ ftable' = ftable /\ op' = op /\ pc' = pc
    BY <1>1 DEF vars
  <2>0. TypeOK'
    BY <1>1 DEF vars, RefInv, TypeOK
  <2>4. HandInv /\ PageInv
    BY DEF RefInv
  <2>1. RefInv'
    BY <2>0, <2>4, RefSilent DEF HandInv, PageInv
  <2>2. EndInv'
    BY <1>1 DEF vars, EndInv, OwnerInv, OpenInv, HoldInv, HasEnd, FileHas, CloseHas
  <2>3. PipeInv'
    BY <1>1 DEF vars, PipeInv, SleepersMustWait, MustWaitToRead, Count
  <2> QED BY <2>1, <2>2, <2>3
<1>2. CASE Next
  <2>1. RefInv' /\ \E p \in Procs : Effect(p)
    BY <1>2, FilesStep
  <2>2. PICK p \in Procs : Effect(p)
    BY <2>1
  <2>3. CASE Quiet(p)
    BY <2>1, <2>3, EndQuiet, PipeQuiet
  <2>4. CASE Killed(p)
    BY <2>1, <2>4, EndKilled, PipeKilled
  <2>5. CASE \E g \in FileIds : LastClose(p, g)
    BY <2>1, <2>5, EndLastClose, PipeLastClose
  <2>6. CASE \E rf, wf \in FileIds, pg \in Pages : Created(p, rf, wf, pg)
    BY <2>1, <2>6, EndCreated, PipeCreated
  <2>7. CASE \E pg \in Pages, w \in BOOLEAN : EndClosed(p, pg, w)
    BY <2>1, <2>7, EndEndClosed, PipeEndClosed
  <2>8. CASE \E w \in BOOLEAN, fd \in FDs : Enters(p, w, fd)
    BY <2>1, <2>8, EndEnters, PipeEnters
  <2>9. CASE Inside(p) /\ ReadStop(p)
    BY <2>1, <2>9, EndInside, PipeReadStop
  <2>10. CASE Inside(p) /\ \E pg \in Pages : ReadWait(p, pg) \/ Slept(p, pg)
    BY <2>1, <2>10, EndInside, PipeReadWait, PipeSlept
  <2>11. CASE Inside(p) /\ \E pg \in Pages : \E k \in 0 .. Count(pipe[pg]) : ReadSome(p, pg, k)
    BY <2>1, <2>11, EndInside, PipeReadSome
  <2>12. CASE /\ Inside(p)
              /\ \E pg \in Pages, buf \in Seq(Byte) : \E k \in 0 .. Len(buf) :
                   /\ Wrote(p, pg, buf, k)
                   /\ WriteDone(p, pg) \/ WriteStop(p, pg, k) \/ WriteWait(p, pg, k)
    BY <2>1, <2>12, EndInside, PipeWrote
  <2> QED BY <2>2, <2>3, <2>4, <2>5, <2>6, <2>7, <2>8, <2>9, <2>10, <2>11, <2>12 DEF Effect
<1> QED BY <1>1, <1>2

(* The inductive invariant of the file table and the pipes. *)
THEOREM FilesInvariant == Spec => []FilesInv
<1> USE DEF FilesInv
<1>1. Init => FilesInv
  BY FilesInit
<1>2. FilesInv /\ [Next]_vars => FilesInv'
  BY FilesNext
<1> QED BY <1>1, <1>2, PTL DEF Spec

(* Every step of open, pipe, dup, fork, close, exit, kill, read and write    *)
(* keeps the variables in their types: above all, a counter that wraps       *)
(* around stays below CounterMod and descriptors point into ftable.          *)
THEOREM FilesTyped == Spec => []TypeOK
<1>1. FilesInv => TypeOK
  BY DEF FilesInv, RefInv
<1> QED BY <1>1, FilesInvariant, PTL

(* ref of every file is the number of descriptors and calls that have it,    *)
(* and an end of a pipe is open exactly while a file or a pipeclose() on its *)
(* way has it, however the dups, forks, exits, kills, failing sys_pipe()s    *)
(* and closes of any number of processes interleave.                         *)
THEOREM FilesAccounted == Spec => []Accounted
<1>1. ASSUME FilesInv PROVE Accounted
  <2>1. \A f \in FileIds : ftable[f].ref = Refs(f)
    BY <1>1 DEF FilesInv, RefInv, CountInv
  <2>2. ASSUME NEW pg \in Pages
        PROVE  pipe[pg].readopen = HasEnd(pg, FALSE) /\ pipe[pg].writeopen = HasEnd(pg, TRUE)
    <3>1. pipe[pg].readopen \in BOOLEAN /\ pipe[pg].writeopen \in BOOLEAN
      BY <1>1 DEF FilesInv, RefInv, TypeOK
    <3>2. (pipe[pg].readopen <=> HasEnd(pg, FALSE)) /\ (pipe[pg].writeopen <=> HasEnd(pg, TRUE))
      BY <1>1 DEF FilesInv, EndInv, OpenInv
    <3>3. HasEnd(pg, FALSE) \in BOOLEAN /\ HasEnd(pg, TRUE) \in BOOLEAN
      BY DEF HasEnd
    <3> QED BY <3>1, <3>2, <3>3
  <2> QED BY <2>1, <2>2 DEF Accounted
<1> QED BY <1>1, FilesInvariant, PTL

(* Nobody sleeps in piperead() on a pipe with something to read or without a *)
(* writer, except for the bytes of a writer that gave up, and nobody sleeps  *)
(* in pipewrite() on a pipe with room or without a reader: no wakeup of      *)
(* piperead(), pipewrite() or pipeclose() is lost, whatever kill() does      *)
(* between the test and the sleep.                                           *)
THEOREM NoLostWakeup == Spec => []SleepersMustWait
<1>1. FilesInv => SleepersMustWait
  BY DEF FilesInv, PipeInv
<1> QED BY <1>1, FilesInvariant, PTL
-------------------------------------------------------------------------------
(* Positions in the ring.  PIPESIZE divides CounterMod, so that a wrapped   *)
(* counter is at the place of the unwrapped one, and fewer than PIPESIZE    *)
(* steps lead to another place.                                             *)
LEMMA ModShift ==
  ASSUME NEW P \in Nat \ {0}, NEW M \in Nat, M % P = 0, NEW a \in Int
  PROVE  (a - M) % P = a % P
<1>1. PICK q \in Int : q = M \div P
  OBVIOUS
<1>2. PICK b \in Int : b = a \div P
  OBVIOUS
<1>3. PICK r \in 0 .. P - 1 : r = a % P
  OBVIOUS
<1>4. M = P * q
  BY <1>1
<1>5. a = P * b + r
  BY <1>2, <1>3
<1>6. P * (b - q) = P * b - P * q
  OBVIOUS
<1>7. a - M = P * (b - q) + r
  BY <1>4, <1>5, <1>6
<1>8. PICK d \in Int : d = b - q
  OBVIOUS
<1>9. PICK e \in Int : e = a - M
  OBVIOUS
<1>10. e = P * d + r
  BY <1>7, <1>8, <1>9
<1>11. e % P = r
  <2> HIDE <1>1, <1>2, <1>3, <1>4, <1>5, <1>6, <1>7, <1>8, <1>9
  <2>1. PICK t \in 0 .. P - 1 : t = e % P
    OBVIOUS
  <2>2. PICK f \in Int : f = e \div P
    OBVIOUS
  <2>3. e = P * f + t
    BY <2>1, <2>2
  <2>4. P * d + r = P * f + t
    BY <1>10, <2>3
  <2>5. f = d
    BY <2>4
  <2> QED BY <2>1, <2>4, <2>5
<1> QED BY <1>3, <1>9, <1>11

LEMMA ModDistinct ==
  ASSUME NEW P \in Nat \ {0}, NEW a \in Int, NEW d \in 1 .. P - 1
  PROVE  (a + d) % P # a % P
<1>1. PICK b \in Int : b = a \div P
  OBVIOUS
<1>2. PICK e \in Int : e = a + d
  OBVIOUS
<1>3. PICK f \in Int : f = e \div P
  OBVIOUS
<1>4. SUFFICES ASSUME e % P = a % P PROVE FALSE
  BY <1>2
<1>5. PICK r \in 0 .. P - 1 : r = a % P
  OBVIOUS
<1>6. a = P * b + r
  BY <1>1, <1>5
<1>7. e = P * f + r
  BY <1>3, <1>4, <1>5
<1>8. P * f = P * b + d
  BY <1>2, <1>6, <1>7
<1> QED BY <1>8

(* Contents, place by place. *)
LEMMA ContentsIs ==
  ASSUME NEW pp \in PipeType
  PROVE  /\ Contents(pp) \in Seq(Byte) /\ Len(Contents(pp)) = Count(pp)
         /\ Count(pp) \in Nat
         /\ \A i \in 1 .. Count(pp) :
               /\ Contents(pp)[i] = pp.data[(pp.nread + i - 1) % PIPESIZE]
               /\ (pp.nread + i - 1) % PIPESIZE \in 0 .. PIPESIZE - 1
<1>1. Count(pp) \in Nat
  BY CountIs, FilesAssumption
<1>2. PICK n \in Nat : n = Count(pp)
  BY <1>1
<1>3. pp.nread \in Nat /\ pp.data \in [0 .. PIPESIZE - 1 -> Byte] /\ PIPESIZE \in Nat \ {0}
  BY FilesAssumption DEF PipeType
<1>4. \A i \in 1 .. n : (pp.nread + i - 1) % PIPESIZE \in 0 .. PIPESIZE - 1
  BY <1>3
<1>5. Contents(pp) = [i \in 1 .. n |-> pp.data[(pp.nread + i - 1) % PIPESIZE]]
  BY <1>2 DEF Contents
<1>6. \A i \in 1 .. n : pp.data[(pp.nread + i - 1) % PIPESIZE] \in Byte
  BY <1>3, <1>4
<1>7. Contents(pp) \in Seq(Byte) /\ Len(Contents(pp)) = n
  BY <1>5, <1>6
<1> QED BY <1>1, <1>2, <1>4, <1>5, <1>7

(* What an advanced counter points to. *)
LEMMA AdvancedPlace ==
  ASSUME NEW c \in 0 .. CounterMod - 1, NEW k \in 0 .. CounterMod - 1, NEW i \in Int
  PROVE  (Advance(c, k) + i) % PIPESIZE = (c + k + i) % PIPESIZE
<1>1. /\ PIPESIZE \in Nat \ {0} /\ CounterMod \in Nat /\ CounterMod % PIPESIZE = 0
  BY FilesAssumption
<1>2. PICK n \in 0 .. CounterMod - 1 : n = Advance(c, k)
  BY AdvanceIs
<1>3. CASE c + k < CounterMod
  <2>1. n = c + k
    BY <1>2, <1>3, AdvanceIs
  <2> QED BY <1>2, <2>1
<1>4. CASE c + k >= CounterMod
  <2>1. n = c + k - CounterMod
    BY <1>2, <1>4, AdvanceIs
  <2>2. PICK a \in Int : a = c + k + i
    BY <1>1
  <2>3. (a - CounterMod) % PIPESIZE = a % PIPESIZE
    BY <1>1, ModShift
  <2>4. a - CounterMod = n + i
    BY <1>1, <2>1, <2>2
  <2> QED BY <1>2, <2>2, <2>3, <2>4
<1> QED BY <1>1, <1>3, <1>4

(* piperead() takes the oldest bytes. *)
LEMMA ReadContents ==
  ASSUME NEW pp \in PipeType, NEW k \in 0 .. Count(pp)
  PROVE  Contents([pp EXCEPT !.nread = Advance(@, k)])
           = SubSeq(Contents(pp), k + 1, Len(Contents(pp)))
<1>1. PICK c \in PipeType : c = [pp EXCEPT !.nread = Advance(@, k)]
  BY CountRead
<1>2. Count(c) = Count(pp) - k /\ c.data = pp.data /\ c.nread = Advance(pp.nread, k)
  BY <1>1, CountRead
<1>3. PICK n \in Nat : n = Count(pp) /\ k \in 0 .. n /\ n \in 0 .. CounterMod - 1
  BY CountIs, FilesAssumption
<1>4. PICK s \in Seq(Byte) : s = Contents(pp) /\ Len(s) = n
  BY <1>3, ContentsIs
<1>5. PICK t \in Seq(Byte) : t = Contents(c) /\ Len(t) = n - k
  BY <1>2, <1>3, ContentsIs
<1>6. /\ SubSeq(s, k + 1, n) \in Seq(Byte) /\ Len(SubSeq(s, k + 1, n)) = n - k
      /\ \A i \in 1 .. n - k : SubSeq(s, k + 1, n)[i] = s[k + i]
  BY <1>3, <1>4
<1>7. ASSUME NEW i \in 1 .. n - k PROVE t[i] = s[k + i]
  <2>1. k + i \in 1 .. n /\ i - 1 \in Int /\ k \in 0 .. CounterMod - 1
    BY <1>3, FilesAssumption
  <2>2. pp.nread \in 0 .. CounterMod - 1 /\ CounterMod \in Nat
    BY FilesAssumption DEF PipeType
  <2>3. t[i] = c.data[(c.nread + i - 1) % PIPESIZE]
    BY <1>2, <1>3, <1>5, ContentsIs
  <2>4. s[k + i] = pp.data[(pp.nread + (k + i) - 1) % PIPESIZE]
    BY <1>3, <1>4, <2>1, ContentsIs
  <2>5. PICK a \in 0 .. CounterMod - 1 : a = pp.nread
    BY <2>2
  <2>6. PICK b \in 0 .. CounterMod - 1 : b = Advance(a, k)
    BY <2>1, AdvanceIs
  <2>7. (b + (i - 1)) % PIPESIZE = (a + k + (i - 1)) % PIPESIZE
    BY <2>1, <2>6, AdvancedPlace
  <2>8. c.nread = b
    BY <1>2, <2>5, <2>6
  <2>9. b + i - 1 = b + (i - 1) /\ a + (k + i) - 1 = a + k + (i - 1)
    BY <2>2, <1>3
  <2> QED BY <1>2, <2>3, <2>4, <2>5, <2>7, <2>8, <2>9
<1>8. t = SubSeq(s, k + 1, n)
  BY <1>3, <1>5, <1>6, <1>7, SeqEqual
<1> QED BY <1>1, <1>4, <1>5, <1>8

(* pipewrite() appends: the places it fills are none of those in use. *)
LEMMA PutContents ==
  ASSUME NEW pp \in PipeType, NEW buf \in Seq(Byte), NEW k \in 0 .. Len(buf),
         Count(pp) <= PIPESIZE, k <= Space(pp)
  PROVE  /\ Contents(Put(pp, buf, k)) \in Seq(Byte)
         /\ Len(Contents(Put(pp, buf, k))) = Len(Contents(pp)) + k
         /\ Len(Contents(pp)) + k <= PIPESIZE
         /\ SubSeq(Contents(Put(pp, buf, k)), 1, Len(Contents(pp))) = Contents(pp)
<1>1. PICK c \in PipeType : c = Put(pp, buf, k)
  BY CountPut
<1>2. Count(c) = Count(pp) + k /\ c.nread = pp.nread /\ k < CounterMod
  BY <1>1, CountPut
<1>3. PICK n \in Nat : n = Count(pp)
  BY CountIs, FilesAssumption
<1>4. n + k <= PIPESIZE /\ k \in Nat /\ PIPESIZE \in Nat \ {0} /\ CounterMod \in Nat
      /\ CounterMod % PIPESIZE = 0
  BY <1>3, FilesAssumption DEF Space
<1>5. PICK s \in Seq(Byte) : s = Contents(pp) /\ Len(s) = n
  BY <1>3, ContentsIs
<1>6. PICK t \in Seq(Byte) : t = Contents(c) /\ Len(t) = n + k
  BY <1>2, <1>3, ContentsIs
<1>7. PICK a \in 0 .. CounterMod - 1 : a = pp.nread
  BY DEF PipeType
<1>8. PICK w \in 0 .. CounterMod - 1 : w = pp.nwrite
  BY DEF PipeType
<1>9. ASSUME NEW i \in 1 .. n, NEW j \in 1 .. k
      PROVE  (w + j - 1) % PIPESIZE # (a + i - 1) % PIPESIZE
  <2>1. PICK d \in 1 .. PIPESIZE - 1 : d = n + j - i
    BY <1>4
  <2>2. PICK x \in Int : x = a + i - 1
    BY <1>4
  <2>3. (x + d) % PIPESIZE # x % PIPESIZE
    BY <1>4, <2>1, <2>2, ModDistinct
  <2>4. PICK y \in Int : y = x + d
    BY <1>4
  <2>5. n = w - a \/ n = w - a + CounterMod
    BY <1>3, <1>4, <1>7, <1>8, CountIs
  <2>6. w + j - 1 = y \/ w + j - 1 = y - CounterMod
    BY <1>4, <2>1, <2>2, <2>4, <2>5
  <2>7. (y - CounterMod) % PIPESIZE = y % PIPESIZE
    BY <1>4, ModShift
  <2> QED BY <2>2, <2>3, <2>4, <2>6, <2>7
<1>10. ASSUME NEW i \in 1 .. n PROVE t[i] = s[i]
  <2>1. i \in 1 .. n + k
    BY <1>4
  <2>2. t[i] = c.data[(a + i - 1) % PIPESIZE]
    BY <1>2, <1>3, <1>6, <1>7, <2>1, ContentsIs
  <2>3. s[i] = pp.data[(a + i - 1) % PIPESIZE]
    BY <1>3, <1>5, <1>7, ContentsIs
  <2>4. PICK u \in 0 .. PIPESIZE - 1 : u = (a + i - 1) % PIPESIZE
    BY <1>4
  <2>5. \A j \in 1 .. k : (w + j - 1) % PIPESIZE # u
    BY <1>9, <2>4
  <2>6. c.data[u] = pp.data[u]
    BY <1>1, <1>2, <1>8, <2>5, PutIs
  <2> QED BY <2>2, <2>3, <2>4, <2>6
<1>11. /\ SubSeq(t, 1, n) \in Seq(Byte) /\ Len(SubSeq(t, 1, n)) = n
       /\ \A i \in 1 .. n : SubSeq(t, 1, n)[i] = t[i]
  BY <1>4, <1>6
<1>12. SubSeq(t, 1, n) = s
  BY <1>5, <1>10, <1>11, SeqEqual
<1> QED BY <1>1, <1>4, <1>5, <1>6, <1>12

(* The refinement mapping, for the pipe of one page and for the others. *)
LEMMA StreamBecomes ==
  ASSUME NEW pg \in Pages, \A u \in Pages \ {pg} : pipe'[u] = pipe[u],
         NEW bytes, NEW open, Contents(pipe'[pg]) = bytes, OpenEnds(pipe'[pg]) = open
  PROVE  Abstract!Become(pg, bytes, open)
<1>1. \A u \in Pages \ {pg} : /\ Contents(pipe'[u]) = Contents(pipe[u])
                              /\ OpenEnds(pipe'[u]) = OpenEnds(pipe[u])
  OBVIOUS
<1>2. [u \in Pages |-> Contents(pipe'[u])]
        = [[u \in Pages |-> Contents(pipe[u])] EXCEPT ![pg] = bytes]
  BY <1>1
<1>3. [u \in Pages |-> OpenEnds(pipe'[u])]
        = [[u \in Pages |-> OpenEnds(pipe[u])] EXCEPT ![pg] = open]
  BY <1>1
<1> QED BY <1>2, <1>3 DEF Abstract!Become

LEMMA StreamStutters ==
  ASSUME pipe' = pipe PROVE UNCHANGED Abstract!vars
BY DEF Abstract!vars

(* The ends of a stream. *)
LEMMA OpenEndsIs ==
  ASSUME NEW pp
  PROVE  /\ "r" \in OpenEnds(pp) <=> pp.readopen
         /\ "w" \in OpenEnds(pp) <=> pp.writeopen
         /\ OpenEnds(pp) \subseteq {"r", "w"}
BY DEF OpenEnds

LEMMA EmptyContents == Contents(FreePipe) = <<>>
<1>1. FreePipe \in PipeType /\ FreePipe.nread = 0 /\ FreePipe.nwrite = 0
  BY FreePipeType DEF FreePipe
<1>2. Count(FreePipe) = 0
  BY <1>1, CountIs
<1> QED BY <1>1, <1>2, ContentsIs

(* pipealloc() starts an empty stream with both its ends. *)
LEMMA StreamCreated ==
  ASSUME FilesInv, NEW p \in Procs, NEW rf \in FileIds, NEW wf \in FileIds, NEW pg \in Pages,
         Created(p, rf, wf, pg)
  PROVE  Abstract!Create(pg)
<1>1. TypeOK /\ pipe[pg] = FreePipe
      /\ pipe' = [pipe EXCEPT ![pg].readopen = TRUE, ![pg].writeopen = TRUE]
  BY DEF FilesInv, RefInv, Created
<1>2. /\ pipe' \in [Pages -> PipeType]
      /\ pipe'[pg].nread = FreePipe.nread /\ pipe'[pg].nwrite = FreePipe.nwrite
      /\ pipe'[pg].readopen /\ pipe'[pg].writeopen
      /\ \A u \in Pages \ {pg} : pipe'[u] = pipe[u]
  BY <1>1, OpenedPipe
<1>3. PICK c \in PipeType : c = pipe'[pg]
  BY <1>2
<1>4. c.nread = 0 /\ c.nwrite = 0
  BY <1>2, <1>3 DEF FreePipe
<1>5. Count(c) = 0
  BY <1>4, CountIs
<1>6. Contents(pipe'[pg]) = <<>>
  BY <1>3, <1>5, ContentsIs
<1>7. OpenEnds(pipe'[pg]) = {"r", "w"}
  BY <1>2 DEF OpenEnds
<1>8. OpenEnds(pipe[pg]) = {}
  BY <1>1 DEF OpenEnds, FreePipe
<1>9. Abstract!Become(pg, <<>>, {"r", "w"})
  BY <1>2, <1>6, <1>7, StreamBecomes
<1> QED BY <1>8, <1>9 DEF Abstract!Create

(* pipeclose() takes one end away, and with the second the stream. *)
LEMMA StreamClosed ==
  ASSUME FilesInv, NEW p \in Procs, NEW pg \in Pages, NEW w \in BOOLEAN, EndClosed(p, pg, w)
  PROVE  Abstract!Close(pg)
<1>1. PICK pp \in PipeType : pp = pipe[pg]
  BY PipesTyped DEF FilesInv, RefInv
<1>2. PICK c \in PipeType : c = Closed(pp, w) /\ c = pipe'[pg]
  BY <1>1, ClosedIs DEF EndClosed
<1>3. /\ w => ~c.writeopen /\ (c.readopen <=> pp.readopen)
      /\ ~w => ~c.readopen /\ (c.writeopen <=> pp.writeopen)
      /\ c.readopen \/ c.writeopen => c.nread = pp.nread /\ c.nwrite = pp.nwrite /\ c.data = pp.data
      /\ ~c.readopen /\ ~c.writeopen => c = FreePipe
  <2>1. c = Closed(pp, w)
    BY <1>2
  <2>2. /\ w => ~c.writeopen /\ (c.readopen <=> pp.readopen)
        /\ ~w => ~c.readopen /\ (c.writeopen <=> pp.writeopen)
        /\ ~c.readopen /\ ~c.writeopen => c = FreePipe
    BY <2>1, ClosedIs
  <2>3. c.readopen \/ c.writeopen => c.nread = pp.nread /\ c.nwrite = pp.nwrite /\ c.data = pp.data
    BY <2>1, ClosedIs
  <2> QED BY <2>2, <2>3
<1>4. /\ w => pp.writeopen
      /\ ~w => pp.readopen
  <2>1. HasOwner(pg, w)
    BY DEF EndClosed, HasOwner
  <2>2. IsOpen(pg, w)
    BY <2>1, OpenIs DEF FilesInv, EndInv
  <2> QED BY <1>1, <2>2 DEF IsOpen
<1>5. PICK e : e = IF w THEN "w" ELSE "r"
  OBVIOUS
<1>6. e \in OpenEnds(pp) /\ OpenEnds(c) = OpenEnds(pp) \ {e}
  <2>1. CASE w
    BY <1>3, <1>4, <1>5, <2>1 DEF OpenEnds
  <2>2. CASE ~w
    BY <1>3, <1>4, <1>5, <2>2 DEF OpenEnds
  <2> QED BY <2>1, <2>2
<1>7. Contents(c) = IF OpenEnds(pp) = {e} THEN <<>> ELSE Contents(pp)
  <2>1. CASE OpenEnds(pp) = {e}
    <3>1. OpenEnds(c) = {}
      BY <1>6, <2>1
    <3>2. ~c.readopen /\ ~c.writeopen
      BY <3>1, OpenEndsIs
    <3> QED BY <1>3, <2>1, <3>2, EmptyContents
  <2>2. CASE OpenEnds(pp) # {e}
    <3>1. OpenEnds(c) # {}
      BY <1>6, <2>2
    <3>2. c.readopen \/ c.writeopen
      BY <3>1, OpenEndsIs DEF OpenEnds
    <3> QED BY <1>3, <2>2, <3>2 DEF Contents, Count
  <2> QED BY <2>1, <2>2
<1>8. \A u \in Pages \ {pg} : pipe'[u] = pipe[u]
  BY DEF EndClosed
<1>9. Abstract!Become(pg, Contents(c), OpenEnds(c))
  BY <1>2, <1>8, StreamBecomes
<1> QED BY <1>1, <1>6, <1>7, <1>9 DEF Abstract!Close

(* piperead() receives. *)
LEMMA StreamRead ==
  ASSUME FilesInv, NEW p \in Procs, NEW pg \in Pages, NEW k \in 0 .. Count(pipe[pg]),
         ReadSome(p, pg, k)
  PROVE  Abstract!Receive(pg)
<1>1. PICK pp \in PipeType : pp = pipe[pg]
  BY PipesTyped DEF FilesInv, RefInv
<1>2. k \in 0 .. Count(pp)
  BY <1>1
<1>3. PICK c \in PipeType : c = [pp EXCEPT !.nread = Advance(@, k)] /\ c = pipe'[pg]
  BY <1>1, <1>2, CountRead DEF ReadSome
<1>4. c.readopen = pp.readopen /\ c.writeopen = pp.writeopen
  BY <1>2, <1>3, CountRead
<1>5. Contents(c) = SubSeq(Contents(pp), k + 1, Len(Contents(pp))) /\ Len(Contents(pp)) = Count(pp)
  BY <1>2, <1>3, ReadContents, ContentsIs
<1>6. OpenEnds(c) = OpenEnds(pp)
  BY <1>4 DEF OpenEnds
<1>7. "r" \in OpenEnds(pp)
  <2>1. pipe[op[p].pipe].readopen /\ op[p].pipe = pg
    BY HeldOpen DEF FilesInv, ReadSome, ReadPcs
  <2> QED BY <1>1, <2>1, OpenEndsIs
<1>8. \A u \in Pages \ {pg} : pipe'[u] = pipe[u]
  BY DEF ReadSome
<1>9. Abstract!Become(pg, SubSeq(Contents(pp), k + 1, Len(Contents(pp))), OpenEnds(pp))
  BY <1>3, <1>5, <1>6, <1>8, StreamBecomes
<1> QED BY <1>1, <1>2, <1>5, <1>7, <1>9 DEF Abstract!Receive

(* pipewrite() sends the bytes that fit, or none. *)
LEMMA StreamWrote ==
  ASSUME FilesInv, NEW p \in Procs, NEW pg \in Pages, NEW buf \in Seq(Byte),
         NEW k \in 0 .. Len(buf), Wrote(p, pg, buf, k)
  PROVE  [Abstract!Send(pg)]_(Abstract!vars)
<1>1. PICK pp \in PipeType : pp = pipe[pg] /\ Count(pp) <= PIPESIZE /\ k <= Space(pp)
  BY PipesTyped, PipeInvIs DEF FilesInv, RefInv, Wrote
<1>2. PICK c \in PipeType : c = Put(pp, buf, k) /\ c = pipe'[pg]
  BY <1>1, CountPut DEF Wrote
<1>3. c.readopen = pp.readopen /\ c.writeopen = pp.writeopen
  <2>1. k <= Space(pp) /\ Count(pp) <= PIPESIZE /\ c = Put(pp, buf, k)
    BY <1>1, <1>2
  <2>2. /\ Put(pp, buf, k).readopen = pp.readopen
        /\ Put(pp, buf, k).writeopen = pp.writeopen
    BY <2>1, CountPut, Zenon
  <2> QED BY <2>1, <2>2, Zenon
<1>4. PICK s \in Seq(Byte) : s = Contents(pp)
  BY ContentsIs
<1>5. PICK t \in Seq(Byte) : t = Contents(c)
  BY ContentsIs
<1>6. Len(t) = Len(s) + k /\ Len(s) + k <= PIPESIZE /\ SubSeq(t, 1, Len(s)) = s
  <2>1. k <= Space(pp) /\ Count(pp) <= PIPESIZE /\ c = Put(pp, buf, k)
    BY <1>1, <1>2
  <2>2. /\ Len(Contents(Put(pp, buf, k))) = Len(Contents(pp)) + k
        /\ Len(Contents(pp)) + k <= PIPESIZE
        /\ SubSeq(Contents(Put(pp, buf, k)), 1, Len(Contents(pp))) = Contents(pp)
    BY <2>1, PutContents, Zenon
  <2> QED BY <1>4, <1>5, <2>1, <2>2, Zenon
<1>7. OpenEnds(c) = OpenEnds(pp)
  BY <1>3 DEF OpenEnds
<1>8. "w" \in OpenEnds(pp)
  <2>1. pipe[op[p].pipe].writeopen /\ op[p].pipe = pg
    BY HeldOpen DEF FilesInv, Wrote, WritePcs
  <2> QED BY <1>1, <2>1, OpenEndsIs
<1>9. \A u \in Pages \ {pg} : pipe'[u] = pipe[u]
  BY DEF Wrote
<1>10. CASE k > 0
  <2>1. Abstract!Become(pg, t, OpenEnds(pp))
    BY <1>2, <1>5, <1>7, <1>9, StreamBecomes
  <2>2. Len(t) \in Len(s) + 1 .. PIPESIZE
    BY <1>6, <1>10, FilesAssumption
  <2>3. Contents(pipe[pg]) = s /\ Contents(pipe'[pg]) = t /\ OpenEnds(pipe[pg]) = OpenEnds(pp)
    BY <1>1, <1>2, <1>4, <1>5
  <2> QED BY <1>6, <1>8, <2>1, <2>2, <2>3 DEF Abstract!Send
<1>11. CASE k = 0
  <2>1. t = s
    BY <1>6, <1>11, SeqEqual
  <2>2. \A u \in Pages : /\ Contents(pipe'[u]) = Contents(pipe[u])
                         /\ OpenEnds(pipe'[u]) = OpenEnds(pipe[u])
    BY <1>1, <1>2, <1>4, <1>5, <1>7, <1>9, <2>1
  <2> QED BY <2>2 DEF Abstract!vars
<1> QED BY <1>10, <1>11

LEMMA StreamNext ==
  ASSUME FilesInv, [Next]_vars PROVE [Abstract!Next]_(Abstract!vars)
<1>1. CASE UNCHANGED vars
  BY <1>1, StreamStutters DEF vars
<1>2. CASE Next
  <2>1. PICK p \in Procs : Effect(p)
    BY <1>2, FilesStep
  <2>2. CASE pipe' = pipe
    BY <2>2, StreamStutters
  <2>3. CASE \E rf, wf \in FileIds, pg \in Pages : Created(p, rf, wf, pg)
    BY <2>3, StreamCreated DEF Abstract!Next
  <2>4. CASE \E pg \in Pages, w \in BOOLEAN : EndClosed(p, pg, w)
    BY <2>4, StreamClosed DEF Abstract!Next
  <2>5. CASE \E pg \in Pages : \E k \in 0 .. Count(pipe[pg]) : ReadSome(p, pg, k)
    BY <2>5, StreamRead DEF Abstract!Next
  <2>6. CASE \E pg \in Pages, buf \in Seq(Byte) : \E k \in 0 .. Len(buf) : Wrote(p, pg, buf, k)
    BY <2>6, StreamWrote DEF Abstract!Next
  <2> QED BY <2>1, <2>2, <2>3, <2>4, <2>5, <2>6
          DEF Effect, Quiet, Killed, LastClose, Enters, ReadStop, ReadWait, Slept
<1> QED BY <1>1, <1>2

LEMMA StreamInit ==
  ASSUME Init PROVE Abstract!Init
<1>1. pipe = [pg \in Pages |-> FreePipe]
  BY DEF Init
<1>2. OpenEnds(FreePipe) = {}
  BY DEF OpenEnds, FreePipe
<1> QED BY <1>1, <1>2, EmptyContents DEF Abstract!Init

(* The pipes of pipe.c implement ByteStream: what piperead() takes is what    *)
(* pipewrite() put in, in that order, for every PIPESIZE and across the wrap  *)
(* around of nread and nwrite, with the writes of several writers split over  *)
(* several sleeps; nobody writes after the write end is closed, and the page  *)
(* goes back exactly when both ends are.                                      *)
THEOREM PipesAreByteStreams == Spec => IsByteStream
<1>1. Init => Abstract!Init
  BY StreamInit
<1>2. FilesInv /\ [Next]_vars => [Abstract!Next]_(Abstract!vars)
  BY StreamNext
<1> QED BY <1>1, <1>2, FilesInvariant, PTL DEF Spec, IsByteStream, Abstract!Spec
===============================================================================
