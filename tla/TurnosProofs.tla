----------------------------- MODULE TurnosProofs -----------------------------
(***************************************************************************)
(* A turn permutes the order: what the rotation of the cases and the       *)
(* order of the lawyers have in common.                                    *)
(***************************************************************************)
EXTENDS Turnos, FiniteSets, FiniteSetTheorems, SequenceTheorems, TLAPS

\* An order of a finite set is a bijection: everybody is in it, once.
LEMMA Orden ==
    ASSUME NEW S, IsFiniteSet(S), NEW s \in SetToSeqs(S)
    PROVE  /\ Cardinality(S) \in Nat /\ s \in [1..Cardinality(S) -> S]
           /\ \A i, j \in 1..Cardinality(S) : i # j => s[i] # s[j]
           /\ \A l \in S : \E i \in 1..Cardinality(S) : s[i] = l
<1> DEFINE D == 1..Cardinality(S)
<1>1. /\ Cardinality(S) \in Nat /\ s \in [D -> S]
      /\ \A i, j \in D : i # j => s[i] # s[j]
  BY FS_CardinalityType DEF SetToSeqs
<1>2. s \in Injection(D, S) /\ Cardinality(D) = Cardinality(S) /\ IsFiniteSet(D)
  <2>1. IsFiniteSet(1..Cardinality(S)) /\ Cardinality(1..Cardinality(S)) = Cardinality(S)
    BY <1>1, FS_Interval
  <2>2. s \in Injection(D, S)
    BY <1>1 DEF Injection, IsInjective
  <2> QED
    BY <2>1, <2>2
<1>3. s \in Surjection(D, S)
  BY <1>2, FS_Injection
<1> QED
  BY <1>1, <1>3 DEF Surjection

\* Who had a turn changes place, and nobody is lost or comes twice.
LEMMA AlFinal ==
    ASSUME NEW S, IsFiniteSet(S), NEW s \in SetToSeqs(S), NEW l \in S
    PROVE  ToBack(s, l) \in SetToSeqs(S)
<1> DEFINE n == Cardinality(S)
           i == CHOOSE j \in DOMAIN s : s[j] = l
           r == Append(RemoveAt(s, i), l)
<1>1. /\ n \in Nat /\ s \in [1..n -> S] /\ \A j, k \in 1..n : j # k => s[j] # s[k]
      /\ DOMAIN s = 1..n
  BY Orden
<1>2. i \in 1..n /\ s[i] = l
  BY <1>1, Orden
<1>3. s \in Seq(S) /\ Len(s) = n
  BY <1>1
<1> HIDE DEF n, i
<1>4. /\ SubSeq(s, 1, i - 1) \in Seq(S) /\ Len(SubSeq(s, 1, i - 1)) = i - 1
      /\ \A j \in 1..i-1 : SubSeq(s, 1, i - 1)[j] = s[j]
  BY <1>1, <1>2, <1>3
<1>5. /\ SubSeq(s, i + 1, n) \in Seq(S) /\ Len(SubSeq(s, i + 1, n)) = n - i
      /\ \A j \in 1..n-i : SubSeq(s, i + 1, n)[j] = s[i + j]
  BY <1>1, <1>2, <1>3
<1>6. /\ RemoveAt(s, i) \in Seq(S) /\ Len(RemoveAt(s, i)) = n - 1
      /\ \A j \in 1..n-1 : RemoveAt(s, i)[j] = IF j < i THEN s[j] ELSE s[j + 1]
  BY <1>1, <1>2, <1>3, <1>4, <1>5 DEF RemoveAt
<1>7. /\ r \in Seq(S) /\ Len(r) = n
      /\ \A j \in 1..n : r[j] = IF j = n THEN l ELSE IF j < i THEN s[j] ELSE s[j + 1]
  BY <1>1, <1>2, <1>6
<1>8. r \in [1..n -> S]
  <2> HIDE DEF r
  <2> QED
    BY <1>7, SeqDef
<1>9. \A j, k \in 1..n : j # k => r[j] # r[k]
  BY <1>1, <1>2, <1>7
<1> QED
  BY <1>8, <1>9 DEF SetToSeqs, ToBack, n, i, r
=============================================================================
