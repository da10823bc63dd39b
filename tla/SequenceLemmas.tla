--------------------------- MODULE SequenceLemmas ---------------------------
(***************************************************************************)
(* Facts about minima, duplicate-free sequences and sums used by the       *)
(* proofs.                                                                 *)
(***************************************************************************)
EXTENDS Integers, Sequences, SequencesExt, SequenceTheorems, WellFoundedInduction,
        FiniteSetTheorems, TLAPS

\* A nonempty set of naturals has a least element, and Min is it.
LEMMA MinOfNats ==
    ASSUME NEW S, S \subseteq Nat, S # {}
    PROVE  Min(S) \in S /\ \A y \in S : Min(S) <= y
  <1>1. PICK x \in S : \A y \in S : ~ (<<y, x>> \in OpToRel(<, Nat))
    BY NatLessThanWellFounded, WFMin
  <1>2. \A y \in S : ~(y < x)
    BY <1>1, Zenon DEF OpToRel
  <1>3. \A y \in S : x <= y
    BY <1>2
  <1>4. QED
    BY <1>3 DEF Min

\* Min of two naturals.
LEMMA MinOfTwo ==
    ASSUME NEW a \in Nat, NEW b \in Nat
    PROVE  Min({a, b}) = IF a <= b THEN a ELSE b
  BY MinOfNats

\* ToSet in terms of indices.
LEMMA ToSetElements ==
    ASSUME NEW T, NEW s \in Seq(T)
    PROVE  /\ DOMAIN s = 1 .. Len(s)
           /\ Len(s) \in Nat
           /\ \A x : x \in ToSet(s) <=> \E j \in 1 .. Len(s) : s[j] = x
           /\ ToSet(s) \subseteq T
           /\ \A j \in 1 .. Len(s) : s[j] \in ToSet(s)
  <1>1. DOMAIN s = 1 .. Len(s) /\ Len(s) \in Nat
    OBVIOUS
  <1>2. QED
    BY <1>1 DEF ToSet

\* IsInjective in terms of indices.
LEMMA InjectiveElements ==
    ASSUME NEW T, NEW s \in Seq(T)
    PROVE  IsInjective(s) <=> \A j, k \in 1 .. Len(s) : s[j] = s[k] => j = k
  <1>1. DOMAIN s = 1 .. Len(s)
    OBVIOUS
  <1>2. QED
    BY <1>1 DEF IsInjective

\* The elements of a sequence with one more inserted.
LEMMA InsertAtElements ==
    ASSUME NEW T, NEW s \in Seq(T), NEW e \in T, NEW i \in 1 .. Len(s) + 1
    PROVE  /\ InsertAt(s, i, e) \in Seq(T)
           /\ Len(InsertAt(s, i, e)) = Len(s) + 1
           /\ \A j \in 1 .. Len(s) + 1 :
                 InsertAt(s, i, e)[j] = IF j < i THEN s[j] ELSE IF j = i THEN e ELSE s[j - 1]
  <1> DEFINE a == SubSeq(s, 1, i - 1)
             c == <<e>>
             b == SubSeq(s, i, Len(s))
             d == a \o c
  <1>1. a \in Seq(T) /\ Len(a) = i - 1 /\ \A j \in 1 .. i - 1 : a[j] = s[j]
    OBVIOUS
  <1>2. b \in Seq(T) /\ Len(b) = Len(s) - i + 1 /\ \A j \in 1 .. Len(s) - i + 1 : b[j] = s[j + i - 1]
    OBVIOUS
  <1>3. c \in Seq(T) /\ Len(c) = 1 /\ c[1] = e
    OBVIOUS
  <1> HIDE DEF a, b, c
  <1>4. /\ d \in Seq(T)
        /\ Len(d) = Len(a) + Len(c)
        /\ \A j \in 1 .. Len(a) + Len(c) : d[j] = IF j <= Len(a) THEN a[j] ELSE c[j - Len(a)]
    BY <1>1, <1>3, ConcatProperties
  <1> HIDE DEF d
  <1>5. Len(d) = i /\ \A j \in 1 .. i : d[j] = IF j < i THEN s[j] ELSE e
    BY <1>1, <1>3, <1>4
  <1>6. /\ d \o b \in Seq(T)
        /\ Len(d \o b) = Len(d) + Len(b)
        /\ \A j \in 1 .. Len(d) + Len(b) :
              (d \o b)[j] = IF j <= Len(d) THEN d[j] ELSE b[j - Len(d)]
    <2>1. d \in Seq(T) /\ b \in Seq(T)
      BY <1>2, <1>4
    <2>2. QED
      BY <2>1, ConcatProperties
  <1> DEFINE r == d \o b
  <1> HIDE DEF r
  <1>7. /\ r \in Seq(T)
        /\ Len(r) = Len(s) + 1
        /\ \A j \in 1 .. Len(s) + 1 : r[j] = IF j <= i THEN d[j] ELSE b[j - i]
    BY <1>2, <1>5, <1>6 DEF r
  <1>8. \A j \in 1 .. Len(s) + 1 : r[j] = IF j < i THEN s[j] ELSE IF j = i THEN e ELSE s[j - 1]
    <2> TAKE j \in 1 .. Len(s) + 1
    <2>1. CASE j <= i
      BY <1>5, <1>7, <2>1
    <2>2. CASE j > i
      <3>1. j - i \in 1 .. Len(s) - i + 1
        BY <2>2
      <3>2. b[j - i] = s[j - 1]
        BY <1>2, <3>1
      <3>3. QED
        BY <1>7, <2>2, <3>2
    <2>3. QED
      BY <2>1, <2>2
  <1>9. QED
    BY <1>7, <1>8 DEF InsertAt, r, a, b, c, d

\* Inserting an element adds it to the set; a new one duplicates nothing.
LEMMA InsertAtProperties ==
    ASSUME NEW T, NEW s \in Seq(T), NEW e \in T, NEW i \in 1 .. Len(s) + 1
    PROVE  /\ InsertAt(s, i, e) \in Seq(T)
           /\ ToSet(InsertAt(s, i, e)) = ToSet(s) \cup {e}
           /\ IsInjective(s) /\ e \notin ToSet(s) => IsInjective(InsertAt(s, i, e))
  <1> DEFINE r == InsertAt(s, i, e)
  <1>1. /\ r \in Seq(T)
        /\ Len(r) = Len(s) + 1
        /\ \A j \in 1 .. Len(s) + 1 : r[j] = IF j < i THEN s[j] ELSE IF j = i THEN e ELSE s[j - 1]
    BY InsertAtElements
  <1> HIDE DEF r
  <1>2. \A x : x \in ToSet(r) <=> \E j \in 1 .. Len(s) + 1 : r[j] = x
    BY <1>1, ToSetElements
  <1>3. \A x : x \in ToSet(s) <=> \E j \in 1 .. Len(s) : s[j] = x
    BY ToSetElements
  <1>4. ASSUME NEW x \in ToSet(r) PROVE x \in ToSet(s) \cup {e}
    <2>1. PICK j \in 1 .. Len(s) + 1 : r[j] = x
      BY <1>2
    <2>2. CASE j < i
      BY <1>1, <1>3, <2>1, <2>2
    <2>3. CASE j = i
      BY <1>1, <2>1, <2>3
    <2>4. CASE j > i
      <3>1. j - 1 \in 1 .. Len(s) /\ s[j - 1] = x
        BY <1>1, <2>1, <2>4
      <3>2. QED
        BY <1>3, <3>1
    <2>5. QED
      BY <2>2, <2>3, <2>4
  <1>5. ASSUME NEW x \in ToSet(s) PROVE x \in ToSet(r)
    <2>1. PICK j \in 1 .. Len(s) : s[j] = x
      BY <1>3
    <2>2. CASE j < i
      BY <1>1, <1>2, <2>1, <2>2
    <2>3. CASE ~(j < i)
      <3>1. j + 1 \in 1 .. Len(s) + 1 /\ r[j + 1] = x
        BY <1>1, <2>1, <2>3
      <3>2. QED
        BY <1>2, <3>1
    <2>4. QED
      BY <2>2, <2>3
  <1>6. e \in ToSet(r)
    BY <1>1, <1>2
  <1>7. ASSUME IsInjective(s), e \notin ToSet(s) PROVE IsInjective(r)
    <2>1. \A j, k \in 1 .. Len(s) : s[j] = s[k] => j = k
      BY <1>7, InjectiveElements
    <2>2. \A j \in 1 .. Len(s) : s[j] # e
      BY <1>3, <1>7
    <2>3. ASSUME NEW j \in 1 .. Len(s) + 1, NEW k \in 1 .. Len(s) + 1, r[j] = r[k], j < k
          PROVE FALSE
      <3>1. CASE k < i
        <4>1. j \in 1 .. Len(s) /\ k \in 1 .. Len(s) /\ j # k /\ r[j] = s[j] /\ r[k] = s[k]
          BY <1>1, <2>3, <3>1
        <4>2. s[j] = s[k]
          BY <2>3, <4>1
        <4>3. QED
          BY <2>1, <4>1, <4>2
      <3>2. CASE k = i
        BY <1>1, <2>2, <2>3, <3>2
      <3>3. CASE k > i
        <4>1. k - 1 \in 1 .. Len(s) /\ r[k] = s[k - 1]
          BY <1>1, <3>3
        <4>2. CASE j < i
          <5>1. j \in 1 .. Len(s) /\ r[j] = s[j] /\ j # k - 1
            BY <1>1, <3>3, <4>2
          <5>2. QED
            BY <2>1, <2>3, <4>1, <5>1
        <4>3. CASE j = i
          BY <1>1, <2>2, <2>3, <4>1, <4>3
        <4>4. CASE j > i
          <5>1. j - 1 \in 1 .. Len(s) /\ r[j] = s[j - 1]
            BY <1>1, <4>4
          <5>2. QED
            BY <2>1, <2>3, <4>1, <5>1
        <4>5. QED
          BY <4>2, <4>3, <4>4
      <3>4. QED
        BY <3>1, <3>2, <3>3
    <2>4. \A j, k \in 1 .. Len(r) : r[j] = r[k] => j = k
      BY <1>1, <2>3
    <2>5. QED
      BY <1>1, <2>4, InjectiveElements
  <1>8. QED
    BY <1>1, <1>4, <1>5, <1>6, <1>7 DEF r

\* The elements of a sequence with one removed.
LEMMA RemoveAtElements ==
    ASSUME NEW T, NEW s \in Seq(T), NEW i \in 1 .. Len(s)
    PROVE  /\ RemoveAt(s, i) \in Seq(T)
           /\ Len(RemoveAt(s, i)) = Len(s) - 1
           /\ \A j \in 1 .. Len(s) - 1 : RemoveAt(s, i)[j] = IF j < i THEN s[j] ELSE s[j + 1]
  <1> DEFINE a == SubSeq(s, 1, i - 1)
             b == SubSeq(s, i + 1, Len(s))
             r == a \o b
  <1>1. a \in Seq(T) /\ Len(a) = i - 1 /\ \A j \in 1 .. i - 1 : a[j] = s[j]
    OBVIOUS
  <1>2. b \in Seq(T) /\ Len(b) = Len(s) - i /\ \A j \in 1 .. Len(s) - i : b[j] = s[j + i]
    OBVIOUS
  <1> HIDE DEF a, b
  <1>3. /\ r \in Seq(T)
        /\ Len(r) = Len(a) + Len(b)
        /\ \A j \in 1 .. Len(a) + Len(b) : r[j] = IF j <= Len(a) THEN a[j] ELSE b[j - Len(a)]
    BY <1>1, <1>2, ConcatProperties
  <1> HIDE DEF r
  <1>4. \A j \in 1 .. Len(s) - 1 : r[j] = IF j < i THEN s[j] ELSE s[j + 1]
    <2> TAKE j \in 1 .. Len(s) - 1
    <2>1. CASE j < i
      BY <1>1, <1>2, <1>3, <2>1
    <2>2. CASE ~(j < i)
      <3>1. j - (i - 1) \in 1 .. Len(s) - i
        BY <2>2
      <3>2. b[j - (i - 1)] = s[j + 1]
        BY <1>2, <3>1
      <3>3. Len(a) + Len(b) = Len(s) - 1 /\ ~(j <= Len(a))
        BY <1>1, <1>2, <2>2
      <3>4. r[j] = b[j - Len(a)]
        BY <1>3, <3>3
      <3>5. QED
        BY <1>1, <2>2, <3>2, <3>4
    <2>3. QED
      BY <2>1, <2>2
  <1>5. r \in Seq(T) /\ Len(r) = Len(s) - 1
    BY <1>1, <1>2, <1>3
  <1>6. r = RemoveAt(s, i)
    BY DEF RemoveAt, r, a, b
  <1>7. QED
    BY <1>4, <1>5, <1>6

\* Removing an element of a duplicate-free sequence removes it from the set.
LEMMA RemoveAtProperties ==
    ASSUME NEW T, NEW s \in Seq(T), NEW i \in 1 .. Len(s), IsInjective(s)
    PROVE  /\ RemoveAt(s, i) \in Seq(T)
           /\ ToSet(RemoveAt(s, i)) = ToSet(s) \ {s[i]}
           /\ IsInjective(RemoveAt(s, i))
  <1> DEFINE r == RemoveAt(s, i)
  <1>1. /\ r \in Seq(T)
        /\ Len(r) = Len(s) - 1
        /\ \A j \in 1 .. Len(s) - 1 : r[j] = IF j < i THEN s[j] ELSE s[j + 1]
    BY RemoveAtElements
  <1> HIDE DEF r
  <1>2. \A x : x \in ToSet(r) <=> \E j \in 1 .. Len(s) - 1 : r[j] = x
    BY <1>1, ToSetElements
  <1>3. \A x : x \in ToSet(s) <=> \E j \in 1 .. Len(s) : s[j] = x
    BY ToSetElements
  <1>4. \A j, k \in 1 .. Len(s) : s[j] = s[k] => j = k
    BY InjectiveElements
  <1>5. ASSUME NEW x \in ToSet(r) PROVE x \in ToSet(s) /\ x # s[i]
    <2>1. PICK j \in 1 .. Len(s) - 1 : r[j] = x
      BY <1>2
    <2>2. PICK k \in 1 .. Len(s) : k # i /\ s[k] = x
      BY <1>1, <2>1
    <2>3. QED
      BY <1>3, <1>4, <2>2
  <1>6. ASSUME NEW x \in ToSet(s), x # s[i] PROVE x \in ToSet(r)
    <2>1. PICK j \in 1 .. Len(s) : s[j] = x
      BY <1>3
    <2>2. CASE j < i
      BY <1>1, <1>2, <2>1, <2>2
    <2>3. CASE j > i
      <3>1. j - 1 \in 1 .. Len(s) - 1 /\ r[j - 1] = x
        BY <1>1, <2>1, <2>3
      <3>2. QED
        BY <1>2, <3>1
    <2>4. QED
      BY <1>6, <2>1, <2>2, <2>3
  <1>7. \A j, k \in 1 .. Len(r) : r[j] = r[k] => j = k
    BY <1>1, <1>4
  <1>8. IsInjective(r)
    BY <1>1, <1>7, InjectiveElements
  <1>9. QED
    BY <1>1, <1>5, <1>6, <1>8 DEF r

\* Cutting a duplicate-free sequence in two splits its set in two.
LEMMA CutProperties ==
    ASSUME NEW T, NEW s \in Seq(T), NEW k \in 0 .. Len(s), IsInjective(s)
    PROVE  /\ SubSeq(s, k + 1, Len(s)) \in Seq(T)
           /\ IsInjective(SubSeq(s, k + 1, Len(s)))
           /\ ToSet(SubSeq(s, k + 1, Len(s))) = ToSet(s) \ ToSet(SubSeq(s, 1, k))
           /\ ToSet(SubSeq(s, 1, k)) \subseteq ToSet(s)
  <1> DEFINE a == SubSeq(s, 1, k)
             b == SubSeq(s, k + 1, Len(s))
  <1>1. a \in Seq(T) /\ Len(a) = k /\ \A j \in 1 .. k : a[j] = s[j]
    OBVIOUS
  <1>2. b \in Seq(T) /\ Len(b) = Len(s) - k /\ \A j \in 1 .. Len(s) - k : b[j] = s[j + k]
    OBVIOUS
  <1> HIDE DEF a, b
  <1>3. \A x : x \in ToSet(a) <=> \E j \in 1 .. k : a[j] = x
    BY <1>1, ToSetElements
  <1>4. \A x : x \in ToSet(b) <=> \E j \in 1 .. Len(s) - k : b[j] = x
    BY <1>2, ToSetElements
  <1>5. \A x : x \in ToSet(s) <=> \E j \in 1 .. Len(s) : s[j] = x
    BY ToSetElements
  <1>6. \A i, j \in 1 .. Len(s) : s[i] = s[j] => i = j
    BY InjectiveElements
  <1>7. ToSet(a) \subseteq ToSet(s)
    BY <1>1, <1>3, <1>5
  <1>8. ASSUME NEW x \in ToSet(b) PROVE x \in ToSet(s) /\ x \notin ToSet(a)
    <2>1. PICK j \in 1 .. Len(s) - k : b[j] = x
      BY <1>4
    <2>2. j + k \in 1 .. Len(s) /\ s[j + k] = x
      BY <1>2, <2>1
    <2>3. QED
      BY <1>1, <1>3, <1>5, <1>6, <2>2
  <1>9. ASSUME NEW x \in ToSet(s), x \notin ToSet(a) PROVE x \in ToSet(b)
    <2>1. PICK j \in 1 .. Len(s) : s[j] = x
      BY <1>5
    <2>2. j > k
      BY <1>1, <1>3, <1>9, <2>1
    <2>3. j - k \in 1 .. Len(s) - k /\ b[j - k] = x
      BY <1>2, <2>1, <2>2
    <2>4. QED
      BY <1>4, <2>3
  <1>10. \A i, j \in 1 .. Len(b) : b[i] = b[j] => i = j
    BY <1>2, <1>6
  <1>11. IsInjective(b)
    BY <1>2, <1>10, InjectiveElements
  <1>12. QED
    BY <1>2, <1>7, <1>8, <1>9, <1>11 DEF a, b

\* Appending a new element.
LEMMA AppendToSet ==
    ASSUME NEW T, NEW s \in Seq(T), NEW e \in T
    PROVE  /\ Append(s, e) \in Seq(T)
           /\ ToSet(Append(s, e)) = ToSet(s) \cup {e}
           /\ IsInjective(s) /\ e \notin ToSet(s) => IsInjective(Append(s, e))
  <1> DEFINE r == Append(s, e)
  <1>1. /\ r \in Seq(T)
        /\ Len(r) = Len(s) + 1
        /\ \A j \in 1 .. Len(s) : r[j] = s[j]
        /\ r[Len(s) + 1] = e
    BY AppendProperties
  <1> HIDE DEF r
  <1>2. \A x : x \in ToSet(r) <=> \E j \in 1 .. Len(s) + 1 : r[j] = x
    BY <1>1, ToSetElements
  <1>3. Len(s) \in Nat /\ \A x : x \in ToSet(s) <=> \E j \in 1 .. Len(s) : s[j] = x
    BY ToSetElements
  <1>4. \A x \in ToSet(r) : x \in ToSet(s) \cup {e}
    BY <1>1, <1>2, <1>3
  <1>5. \A x \in ToSet(s) \cup {e} : x \in ToSet(r)
    BY <1>1, <1>2, <1>3
  <1>6. ASSUME IsInjective(s), e \notin ToSet(s) PROVE IsInjective(r)
    <2>1. \A j, k \in 1 .. Len(s) : s[j] = s[k] => j = k
      BY <1>6, InjectiveElements
    <2>2. \A j, k \in 1 .. Len(r) : r[j] = r[k] => j = k
      BY <1>1, <1>3, <1>6, <2>1
    <2>3. QED
      BY <1>1, <2>2, InjectiveElements
  <1>7. QED
    BY <1>1, <1>4, <1>5, <1>6 DEF r

\* Taking the head of a duplicate-free sequence.
LEMMA TailToSet ==
    ASSUME NEW T, NEW s \in Seq(T), s # <<>>, IsInjective(s)
    PROVE  /\ Tail(s) \in Seq(T)
           /\ Head(s) \in ToSet(s)
           /\ ToSet(Tail(s)) = ToSet(s) \ {Head(s)}
           /\ IsInjective(Tail(s))
  <1>1. Len(s) \in Nat /\ Len(s) >= 1 /\ Head(s) = s[1]
    OBVIOUS
  <1>2. /\ Tail(s) \in Seq(T)
        /\ Len(Tail(s)) = Len(s) - 1
        /\ \A i \in 1 .. Len(s) - 1 : Tail(s)[i] = s[i + 1]
    BY HeadTailProperties
  <1> DEFINE r == Tail(s)
  <1> HIDE DEF r
  <1>3. \A x : x \in ToSet(r) <=> \E j \in 1 .. Len(s) - 1 : r[j] = x
    BY <1>2, ToSetElements DEF r
  <1>4. \A x : x \in ToSet(s) <=> \E j \in 1 .. Len(s) : s[j] = x
    BY ToSetElements
  <1>5. \A j, k \in 1 .. Len(s) : s[j] = s[k] => j = k
    BY InjectiveElements
  <1>6. \A i \in 1 .. Len(s) - 1 : r[i] = s[i + 1]
    BY <1>2 DEF r
  <1>7. \A x \in ToSet(r) : x \in ToSet(s) /\ x # s[1]
    BY <1>1, <1>3, <1>4, <1>5, <1>6
  <1>8. ASSUME NEW x \in ToSet(s), x # s[1] PROVE x \in ToSet(r)
    <2>1. PICK j \in 1 .. Len(s) : s[j] = x
      BY <1>4
    <2>2. j - 1 \in 1 .. Len(s) - 1 /\ r[j - 1] = x
      BY <1>1, <1>6, <1>8, <2>1
    <2>3. QED
      BY <1>3, <2>2
  <1>9. \A j, k \in 1 .. Len(r) : r[j] = r[k] => j = k
    BY <1>1, <1>2, <1>5, <1>6 DEF r
  <1>10. IsInjective(r)
    BY <1>2, <1>9, InjectiveElements DEF r
  <1>11. QED
    BY <1>1, <1>2, <1>4, <1>7, <1>8, <1>10 DEF r
-----------------------------------------------------------------------------
(* Sums, folded in the order CHOOSE picks the elements                      *)

\* A set of subsets of a finite set has one of least cardinality.
LEMMA LeastSubset ==
    ASSUME NEW S, IsFiniteSet(S), NEW B, B \subseteq SUBSET S, B # {}
    PROVE  \E s \in B : \A r \in B : Cardinality(s) <= Cardinality(r)
  <1> DEFINE C == {Cardinality(s) : s \in B}
  <1>1. \A s \in B : Cardinality(s) \in Nat
    <2>1. \A s \in B : IsFiniteSet(s)
      BY FS_Subset
    <2> QED
      BY <2>1, FS_CardinalityType
  <1>2. C \subseteq Nat /\ C # {}
    BY <1>1
  <1>3. PICK n : n \in C /\ \A y \in C : n <= y
    <2> HIDE DEF C
    <2> QED
      BY <1>2, MinOfNats
  <1> QED
    BY <1>3

\* Two functions on the subsets of a finite set that agree on a set when they
\* agree on the smaller ones are the same.
LEMMA SubsetsAgree ==
    ASSUME NEW S, IsFiniteSet(S), NEW g, NEW w,
           \A s \in SUBSET S :
              (\A r \in SUBSET S : Cardinality(r) < Cardinality(s) => g[r] = w[r]) => g[s] = w[s]
    PROVE  \A s \in SUBSET S : g[s] = w[s]
  <1> DEFINE B == {s \in SUBSET S : g[s] # w[s]}
  <1> SUFFICES ASSUME B # {} PROVE FALSE
    OBVIOUS
  <1>1. PICK s \in B : \A r \in B : Cardinality(s) <= Cardinality(r)
    BY LeastSubset
  <1>2. \A r \in SUBSET S : Cardinality(r) \in Nat
    <2>1. \A r \in SUBSET S : IsFiniteSet(r)
      BY FS_Subset
    <2> QED
      BY <2>1, FS_CardinalityType
  <1>3. \A r \in SUBSET S : Cardinality(r) < Cardinality(s) => g[r] = w[r]
    BY <1>1, <1>2
  <1> QED
    BY <1>1, <1>3

\* The sum of a function is what a function on the subsets says that is zero on
\* the empty set and grows by an element's value with the element.
LEMMA SumFold ==
    ASSUME NEW S, IsFiniteSet(S), NEW f \in [S -> Nat], NEW w \in [SUBSET S -> Nat],
           w[{}] = 0, \A s \in SUBSET S : \A x \in s : w[s] = f[x] + w[s \ {x}]
    PROVE  FoldFunction(+, 0, f) = w[S]
  <1> DEFINE R(g) == [s \in SUBSET S |->
                        IF s = {} THEN 0
                        ELSE f[CHOOSE x \in s : TRUE] + g[s \ {CHOOSE x \in s : TRUE}]]
             iter == CHOOSE g : g = R(g)
  <1>1. FoldFunction(+, 0, f) = iter[S]
    BY DEF FoldFunction, FoldFunctionOnSet, MapThenFoldSet
  <1>2. w = R(w)
    OBVIOUS
  <1>3. iter = R(iter)
    <2> HIDE DEF R
    <2> QED
      BY <1>2, Zenon
  <1> HIDE DEF iter
  <1>4. ASSUME NEW s \in SUBSET S,
               \A r \in SUBSET S : Cardinality(r) < Cardinality(s) => iter[r] = w[r]
        PROVE  iter[s] = w[s]
    <2>1. CASE s = {}
      BY <1>3, <2>1
    <2>2. CASE s # {}
      <3> PICK x : x = CHOOSE y \in s : TRUE
        OBVIOUS
      <3>1. x \in s
        BY <2>2
      <3>2. iter[s] = f[x] + iter[s \ {x}]
        BY <1>3, <2>2
      <3>3. IsFiniteSet(s) /\ Cardinality(s) \in Nat /\ Cardinality(s \ {x}) = Cardinality(s) - 1
        BY <3>1, FS_Subset, FS_RemoveElement, FS_CardinalityType
      <3>4. Cardinality(s \ {x}) < Cardinality(s) /\ s \ {x} \in SUBSET S
        BY <3>3
      <3>5. iter[s \ {x}] = w[s \ {x}]
        BY <1>4, <3>4
      <3> QED
        BY <3>1, <3>2, <3>5
    <2> QED
      BY <2>1, <2>2
  <1>5. \A s \in SUBSET S : iter[s] = w[s]
    BY <1>4, SubsetsAgree
  <1> QED
    BY <1>1, <1>5

(* The value of f on the elements of s, as a number of things to count.     *)
Units(f, s) == UNION {{x} \X (1 .. f[x]) : x \in s}

Volume(f, s) == Cardinality(Units(f, s))

\* There are finitely many.
LEMMA UnitsFinite ==
    ASSUME NEW s, IsFiniteSet(s), NEW f, \A x \in s : f[x] \in Nat
    PROVE  IsFiniteSet(Units(f, s)) /\ Volume(f, s) \in Nat
  <1> DEFINE B == {{x} \X (1 .. f[x]) : x \in s}
  <1>1. IsFiniteSet(B)
    <2> PICK h : h = [x \in s |-> {x} \X (1 .. f[x])]
      OBVIOUS
    <2>1. h \in [s -> B] /\ B = {h[x] : x \in s}
      OBVIOUS
    <2>2. h \in Surjection(s, B)
      BY <2>1 DEF Surjection
    <2> HIDE DEF B
    <2> QED
      BY <2>2, FS_Surjection
  <1>2. ASSUME NEW x \in s PROVE IsFiniteSet({x} \X (1 .. f[x]))
    <2>1. IsFiniteSet({x}) /\ IsFiniteSet(1 .. f[x])
      <3>1. f[x] \in Int /\ 1 \in Int
        OBVIOUS
      <3>2. IsFiniteSet(1 .. f[x])
        BY <3>1, FS_Interval
      <3> QED
        BY <3>2, FS_Singleton
    <2> QED
      BY <2>1, FS_Product
  <1>3. \A b \in B : IsFiniteSet(b)
    BY <1>2
  <1>4. IsFiniteSet(UNION B)
    <2> HIDE DEF B
    <2> QED
      BY <1>1, <1>3, FS_UNION
  <1> QED
    BY <1>4, FS_CardinalityType DEF Units, Volume

\* The volume of two sets that share nothing.
LEMMA VolumeOfUnion ==
    ASSUME NEW s, IsFiniteSet(s), NEW r, IsFiniteSet(r), s \cap r = {},
           NEW f, \A x \in s \cup r : f[x] \in Nat
    PROVE  Volume(f, s \cup r) = Volume(f, s) + Volume(f, r)
  <1>1. Units(f, s \cup r) = Units(f, s) \cup Units(f, r)
    BY DEF Units
  <1>2. Units(f, s) \cap Units(f, r) = {}
    BY DEF Units
  <1>3. /\ IsFiniteSet(Units(f, s)) /\ Volume(f, s) \in Nat
        /\ IsFiniteSet(Units(f, r)) /\ Volume(f, r) \in Nat
    BY UnitsFinite
  <1>4. Cardinality(Units(f, s) \cup Units(f, r))
            = Cardinality(Units(f, s)) + Cardinality(Units(f, r)) - Cardinality({})
    BY <1>2, <1>3, FS_Union
  <1>5. Cardinality({}) = 0
    BY FS_EmptySet
  <1>6. Cardinality(Units(f, s) \cup Units(f, r)) = Volume(f, s) + Volume(f, r)
    BY <1>3, <1>4, <1>5 DEF Volume
  <1> QED
    BY <1>1, <1>6 DEF Volume

\* The volume of an element is its value, that of nothing zero.
LEMMA VolumeOfOne ==
    ASSUME NEW x, NEW f, f[x] \in Nat
    PROVE  Volume(f, {x}) = f[x] /\ Volume(f, {}) = 0
  <1>1. Units(f, {x}) = {x} \X (1 .. f[x]) /\ Units(f, {}) = {}
    BY DEF Units
  <1>2. IsFiniteSet({x}) /\ Cardinality({x}) = 1
    BY FS_Singleton
  <1>3. IsFiniteSet(1 .. f[x]) /\ Cardinality(1 .. f[x]) = f[x]
    BY FS_Interval
  <1>4. Cardinality({x} \X (1 .. f[x])) = f[x]
    <2> PICK a : a = {x}
      OBVIOUS
    <2> PICK b : b = 1 .. f[x]
      OBVIOUS
    <2>1. Cardinality(a \X b) = Cardinality(a) * Cardinality(b)
      BY ONLY <1>2, <1>3, a = {x}, b = 1 .. f[x], FS_Product
    <2>2. Cardinality(a \X b) = f[x]
      BY <1>2, <1>3, <2>1
    <2> QED
      BY <2>2
  <1>5. Cardinality({}) = 0
    BY FS_EmptySet
  <1> QED
    BY <1>1, <1>4, <1>5 DEF Volume

\* The volume of a set without one of its elements.
LEMMA VolumeWithout ==
    ASSUME NEW s, IsFiniteSet(s), NEW f, \A x \in s : f[x] \in Nat, NEW x \in s
    PROVE  Volume(f, s) = f[x] + Volume(f, s \ {x}) /\ Volume(f, s \ {x}) \in Nat
  <1> PICK r : r = s \ {x}
    OBVIOUS
  <1>1. IsFiniteSet(r) /\ IsFiniteSet({x}) /\ {x} \cap r = {} /\ s = {x} \cup r
    <2>1. IsFiniteSet(r)
      BY FS_RemoveElement
    <2>2. IsFiniteSet({x})
      BY FS_Singleton
    <2>3. {x} \cap r = {} /\ s = {x} \cup r
      OBVIOUS
    <2> QED
      BY <2>1, <2>2, <2>3
  <1>2. Volume(f, {x} \cup r) = Volume(f, {x}) + Volume(f, r)
    BY <1>1, VolumeOfUnion
  <1>3. Volume(f, r) \in Nat
    BY <1>1, UnitsFinite
  <1> QED
    BY <1>1, <1>2, <1>3, VolumeOfOne

\* The sum of a function is its volume.
LEMMA SumIsVolume ==
    ASSUME NEW S, IsFiniteSet(S), NEW f \in [S -> Nat]
    PROVE  FoldFunction(+, 0, f) = Volume(f, S) /\ Volume(f, S) \in Nat
  <1> PICK w : w = [s \in SUBSET S |-> Volume(f, s)]
    OBVIOUS
  <1>1. \A s \in SUBSET S : IsFiniteSet(s) /\ Volume(f, s) \in Nat
    <2>1. \A s \in SUBSET S : IsFiniteSet(s)
      BY FS_Subset
    <2> QED
      BY <2>1, UnitsFinite
  <1>2. w \in [SUBSET S -> Nat]
    BY <1>1
  <1>3. w[{}] = 0
    <2>1. Units(f, {}) = {}
      BY DEF Units
    <2> QED
      BY <2>1, FS_EmptySet DEF Volume
  <1>4. ASSUME NEW s \in SUBSET S, NEW x \in s PROVE w[s] = f[x] + w[s \ {x}]
    <2>1. IsFiniteSet(s) /\ (\A y \in s : f[y] \in Nat) /\ s \ {x} \in SUBSET S
      BY <1>1
    <2>2. Volume(f, s) = f[x] + Volume(f, s \ {x})
      BY <2>1, VolumeWithout
    <2> QED
      BY <2>1, <2>2
  <1>5. FoldFunction(+, 0, f) = w[S]
    BY <1>2, <1>3, <1>4, SumFold
  <1> QED
    BY <1>1, <1>5

\* Volumes depend on the values only.
LEMMA VolumeSame ==
    ASSUME NEW s, NEW f, NEW g, \A x \in s : f[x] = g[x]
    PROVE  Volume(f, s) = Volume(g, s)
  <1>1. Units(f, s) = Units(g, s)
    BY DEF Units
  <1> QED
    BY <1>1 DEF Volume

\* Values of zero do not count.
LEMMA VolumeOfZeros ==
    ASSUME NEW s, NEW r, s \subseteq r, NEW f, \A x \in r \ s : f[x] = 0
    PROVE  Volume(f, r) = Volume(f, s)
  <1>1. \A x \in r \ s : {x} \X (1 .. f[x]) = {}
    OBVIOUS
  <1>2. Units(f, r) = Units(f, s)
    BY <1>1 DEF Units
  <1> QED
    BY <1>2 DEF Volume

\* A part has no more than the whole.
LEMMA VolumeOfPart ==
    ASSUME NEW r, IsFiniteSet(r), NEW s, s \subseteq r, NEW f, \A x \in r : f[x] \in Nat
    PROVE  Volume(f, s) <= Volume(f, r) /\ Volume(f, s) \in Nat
  <1>1. IsFiniteSet(s) /\ IsFiniteSet(r \ s) /\ s \cap (r \ s) = {} /\ s \cup (r \ s) = r
    BY FS_Subset, FS_Difference
  <1>2. Volume(f, s) \in Nat /\ Volume(f, r \ s) \in Nat
    BY <1>1, UnitsFinite
  <1>3. Volume(f, r) = Volume(f, s) + Volume(f, r \ s)
    BY <1>1, VolumeOfUnion
  <1> QED
    BY <1>2, <1>3
=============================================================================
