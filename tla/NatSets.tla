------------------------------- MODULE NatSets -------------------------------
(***************************************************************************)
(* Facts about sets of natural numbers that the proofs of several          *)
(* components rest on: the least member, for the searches and walks that   *)
(* stop at the first hit, and the rank of a member, for the loops that     *)
(* number what they meet.                                                  *)
(***************************************************************************)
EXTENDS Integers, FiniteSets, FiniteSetTheorems, FunctionTheorems,
        WellFoundedInduction, TLAPS

(* Every nonempty set of natural numbers has a least element. *)
LEMMA LeastNat ==
  ASSUME NEW T \in SUBSET Nat, T # {}
  PROVE  \E m \in T : \A k \in T : m <= k
<1> DEFINE R == {ss \in Nat \X Nat : ss[1] < ss[2]}
<1>1. IsWellFoundedOn(R, Nat)
  BY NatLessThanWellFounded DEF OpToRel
<1>2. PICK m \in T : \A y \in T : ~(<<y, m>> \in R)
  <2> HIDE DEF R
  <2>1. QED  BY <1>1, WFMin
<1>3. ASSUME NEW k \in T PROVE m <= k
  <2>1. ~(<<k, m>> \in R)  BY <1>2
  <2>2. QED  BY <2>1
<1>4. QED  BY <1>3

(* How many members of M lie below j. *)
Below(M, j) == {m \in M : m < j}
Rank(M, j) == Cardinality(Below(M, j))

(* Ranks number a finite set of naturals from 0 up. *)
LEMMA RankIs ==
  ASSUME NEW M \in SUBSET Nat, IsFiniteSet(M)
  PROVE  /\ \A j \in M : Rank(M, j) \in 0 .. Cardinality(M) - 1
         /\ \A j, k \in M : Rank(M, j) = Rank(M, k) => j = k
         /\ \A i \in 0 .. Cardinality(M) - 1 : \E j \in M : Rank(M, j) = i
<1>0. PICK n \in Nat : n = Cardinality(M)  BY FS_CardinalityType
<1>1. ASSUME NEW j \in M
      PROVE  IsFiniteSet(Below(M, j)) /\ Rank(M, j) \in Nat /\ Rank(M, j) <= n - 1
  <2>1. Below(M, j) \in SUBSET (M \ {j})  BY DEF Below
  <2>2. IsFiniteSet(M \ {j}) /\ Cardinality(M \ {j}) = n - 1
    BY <1>0, FS_RemoveElement
  <2>3. IsFiniteSet(Below(M, j)) /\ Cardinality(Below(M, j)) <= Cardinality(M \ {j})
    BY <2>1, <2>2, FS_Subset
  <2>4. Cardinality(Below(M, j)) \in Nat  BY <2>3, FS_CardinalityType
  <2>5. QED  BY <2>2, <2>3, <2>4 DEF Rank
<1>2. ASSUME NEW j \in M, NEW k \in M, j < k PROVE Rank(M, j) < Rank(M, k)
  <2>1. PICK U : U = Below(M, j) \cup {j}  OBVIOUS
  <2>2. U \in SUBSET Below(M, k)
    <3>1. j \in Nat /\ k \in Nat /\ \A m \in M : m \in Nat  OBVIOUS
    <3>2. ASSUME NEW m \in U PROVE m \in Below(M, k)
      <4>1. m \in M /\ (m < j \/ m = j)  BY <2>1 DEF Below
      <4>2. m < k  BY <1>2, <3>1, <4>1
      <4>3. QED  BY <4>1, <4>2 DEF Below
    <3>3. QED  BY <3>2
  <2>3. j \notin Below(M, j)  BY DEF Below
  <2>4. Cardinality(U) = Rank(M, j) + 1
    <3>1. IsFiniteSet(Below(M, j))  BY <1>1
    <3>2. QED  BY <2>1, <2>3, <3>1, FS_AddElement DEF Rank
  <2>5. IsFiniteSet(Below(M, k))  BY <1>1
  <2>6. Cardinality(U) <= Rank(M, k)
    BY <2>2, <2>5, FS_Subset DEF Rank
  <2>7. Rank(M, j) \in Nat /\ Rank(M, k) \in Nat  BY <1>1
  <2>8. QED  BY <2>4, <2>6, <2>7
<1>3. \A j, k \in M : Rank(M, j) = Rank(M, k) => j = k
  <2> SUFFICES ASSUME NEW j \in M, NEW k \in M, Rank(M, j) = Rank(M, k), j # k PROVE FALSE
    OBVIOUS
  <2>1. j < k \/ k < j  OBVIOUS
  <2>2. Rank(M, j) < Rank(M, k) \/ Rank(M, k) < Rank(M, j)  BY <1>2, <2>1
  <2>3. Rank(M, j) \in Nat  BY <1>1
  <2>4. QED  BY <2>2, <2>3
<1>4. PICK F : F = [j \in M |-> Rank(M, j)]  OBVIOUS
<1>5. PICK T : T = 0 .. n - 1  OBVIOUS
<1>6. \A j \in M : Rank(M, j) \in T  BY <1>0, <1>1, <1>5
<1>7. F \in [M -> T]  BY <1>4, <1>6
<1>8. \A j, k \in M : F[j] = F[k] => j = k  BY <1>3, <1>4
<1>9. F \in Injection(M, T)  BY <1>7, <1>8, Fun_IsInj
<1>10. IsFiniteSet(T) /\ Cardinality(T) = n
  BY <1>0, <1>5, FS_Interval
<1>11. F \in Surjection(M, T)
  BY <1>0, <1>9, <1>10, FS_Injection
<1>12. \A i \in T : \E j \in M : F[j] = i
  BY <1>11, Fun_SurjectionProperties
<1>13. \A i \in T : \E j \in M : Rank(M, j) = i  BY <1>4, <1>12
<1>14. QED  BY <1>0, <1>3, <1>5, <1>6, <1>13
===============================================================================
