--------------------------- MODULE SequenceLemmas ---------------------------
(***************************************************************************)
(* Facts about sequences and finite sets that the proofs about the         *)
(* components share.                                                       *)
(***************************************************************************)
EXTENDS Integers, Sequences, SequencesExt, FiniteSets, FiniteSetTheorems,
        SequenceTheorems, TLAPS

(***************************************************************************)
(* RemoveAt, by which callbacks leave a ring (Callback::remove) and takers *)
(* a list (std::list::erase): one element shorter, in the same order.      *)
(***************************************************************************)
LEMMA RemoveAtProperties ==
    ASSUME NEW S, NEW s \in Seq(S), NEW i \in 1..Len(s)
    PROVE  /\ RemoveAt(s, i) \in Seq(S)
           /\ Len(RemoveAt(s, i)) = Len(s) - 1
           /\ RemoveAt(s, i) = <<>> <=> Len(s) = 1
           /\ \A j \in 1..(Len(s) - 1) :
                RemoveAt(s, i)[j] = IF j < i THEN s[j] ELSE s[j + 1]
  <1> DEFINE a == SubSeq(s, 1, i - 1)
             b == SubSeq(s, i + 1, Len(s))
  <1>1. /\ a \in Seq(S) /\ Len(a) = i - 1
        /\ \A j \in 1..(i - 1) : a[j] = s[j]
    BY SubSeqProperties, ElementOfSeq
  <1>2. /\ b \in Seq(S) /\ Len(b) = Len(s) - i
        /\ \A j \in 1..(Len(s) - i) : b[j] = s[i + j]
    BY SubSeqProperties, ElementOfSeq
  <1> HIDE DEF a, b
  <1>3. RemoveAt(s, i) = a \o b
    BY DEF RemoveAt, a, b
  <1> DEFINE c == a \o b
  <1>4. /\ c \in Seq(S) /\ Len(c) = Len(a) + Len(b)
        /\ \A j \in 1..(Len(a) + Len(b)) : c[j] = IF j <= Len(a) THEN a[j] ELSE b[j - Len(a)]
    BY <1>1, <1>2, ConcatProperties
  <1> HIDE DEF c
  <1>5. Len(s) \in Nat /\ Len(c) = Len(s) - 1
    BY <1>1, <1>2, <1>4, LenProperties
  <1>6. ASSUME NEW j \in 1..(Len(s) - 1)
        PROVE  c[j] = IF j < i THEN s[j] ELSE s[j + 1]
    <2> i \in Nat /\ j \in Nat /\ Len(a) \in Nat /\ Len(b) \in Nat
      BY <1>1, <1>2, <1>5
    <2>0. j \in 1..(Len(a) + Len(b))
      BY <1>1, <1>2, <1>5
    <2>1. CASE j < i
      <3>1. j \in 1..(i - 1) /\ j <= Len(a)
        BY <1>1, <2>1
      <3>2. c[j] = a[j]
        BY ONLY <1>4, <2>0, <3>1
      <3> QED
        BY <1>1, <2>1, <3>1, <3>2
    <2>2. CASE j >= i
      <3>1. j - (i - 1) \in 1..(Len(s) - i) /\ i + (j - (i - 1)) = j + 1 /\ ~(j <= i - 1)
        BY <1>5, <2>2
      <3>2. c[j] = b[j - (i - 1)]
        BY ONLY <1>1, <1>4, <2>0, <3>1
      <3>3. b[j - (i - 1)] = s[i + (j - (i - 1))]
        BY ONLY <1>2, <3>1
      <3> QED
        BY <2>2, <3>1, <3>2, <3>3
    <2> QED BY <2>1, <2>2
  <1>7. c = <<>> <=> Len(s) = 1
    BY <1>4, <1>5, EmptySeq
  <1> QED
    BY <1>3, <1>4, <1>5, <1>6, <1>7 DEF c

(***************************************************************************)
(* A sequence without repetitions keeps that when an element is removed,   *)
(* and loses just that element.                                            *)
(***************************************************************************)
LEMMA RemoveAtInjective ==
    ASSUME NEW S, NEW s \in Seq(S), NEW i \in 1..Len(s),
           \A j, k \in 1..Len(s) : s[j] = s[k] => j = k
    PROVE  /\ \A j, k \in 1..(Len(s) - 1) : RemoveAt(s, i)[j] = RemoveAt(s, i)[k] => j = k
           /\ \A x \in S : (\E j \in 1..(Len(s) - 1) : RemoveAt(s, i)[j] = x)
                             <=> (x # s[i] /\ \E j \in 1..Len(s) : s[j] = x)
  <1> DEFINE r == RemoveAt(s, i)
  <1>1. \A j \in 1..(Len(s) - 1) : r[j] = IF j < i THEN s[j] ELSE s[j + 1]
    BY RemoveAtProperties
  <1> HIDE DEF r
  <1>2. \A j, k \in 1..(Len(s) - 1) : r[j] = r[k] => j = k
    BY <1>1
  <1>3. ASSUME NEW x \in S, NEW j \in 1..(Len(s) - 1), r[j] = x
        PROVE  x # s[i] /\ \E k \in 1..Len(s) : s[k] = x
    <2>1. CASE j < i
      BY <2>1, <1>1, <1>3
    <2>2. CASE j >= i
      <3>1. x = s[j + 1] /\ j + 1 \in 1..Len(s) /\ j + 1 # i
        BY <2>2, <1>1, <1>3
      <3> QED BY <3>1
    <2> QED BY <2>1, <2>2
  <1>4. ASSUME NEW x \in S, x # s[i], NEW j \in 1..Len(s), s[j] = x
        PROVE  \E k \in 1..(Len(s) - 1) : r[k] = x
    <2>1. CASE j < i
      BY <2>1, <1>1, <1>4
    <2>2. CASE j > i
      <3>1. j - 1 \in 1..(Len(s) - 1) /\ r[j - 1] = x
        BY <2>2, <1>1, <1>4
      <3> QED BY <3>1
    <2> QED BY <2>1, <2>2, <1>4
  <1> QED
    BY <1>2, <1>3, <1>4 DEF r

(***************************************************************************)
(* Adding and removing an element changes the size of a finite set by one. *)
(***************************************************************************)
LEMMA CardinalityAdd ==
    ASSUME NEW S, IsFiniteSet(S), NEW x, x \notin S
    PROVE  Cardinality(S \union {x}) = Cardinality(S) + 1
  BY FS_AddElement

(***************************************************************************)
(* One element less.                                                       *)
(***************************************************************************)
LEMMA CardinalityRemove ==
    ASSUME NEW S, IsFiniteSet(S), NEW x \in S
    PROVE  Cardinality(S \ {x}) = Cardinality(S) - 1
  BY FS_RemoveElement

(***************************************************************************)
(* The sizes of two disjoint sets add up.                                  *)
(***************************************************************************)
LEMMA CardinalityDisjoint ==
    ASSUME NEW S, NEW T, IsFiniteSet(S), IsFiniteSet(T), S \cap T = {}
    PROVE  Cardinality(S \union T) = Cardinality(S) + Cardinality(T)
  <1>1. Cardinality(S \union T) = Cardinality(S) + Cardinality(T) - Cardinality(S \cap T)
    BY FS_Union
  <1>2. Cardinality(S \cap T) = 0
    BY FS_EmptySet
  <1>3. Cardinality(S) \in Nat /\ Cardinality(T) \in Nat
    BY FS_CardinalityType
  <1> QED
    BY <1>1, <1>2, <1>3

-----------------------------------------------------------------------------
\* Sequences without repetition.

(***************************************************************************)
(* Nothing occurs twice in s.                                              *)
(***************************************************************************)
Distinct(s) == \A i, j \in 1..Len(s) : s[i] = s[j] => i = j

(***************************************************************************)
(* What is in a sequence is at one of its indices.                         *)
(***************************************************************************)
LEMMA ToSetMember ==
    ASSUME NEW S, NEW s \in Seq(S)
    PROVE  /\ Len(s) \in Nat
           /\ \A x : x \in ToSet(s) <=> \E i \in 1..Len(s) : s[i] = x
           /\ ToSet(s) \subseteq S
  <1>1. Len(s) \in Nat /\ DOMAIN s = 1..Len(s)
    BY LenProperties
  <1>2. \A i \in 1..Len(s) : s[i] \in S
    BY ElementOfSeq
  <1> QED
    BY <1>1, <1>2 DEF ToSet

(***************************************************************************)
(* A new element at the end.                                               *)
(***************************************************************************)
LEMMA AppendDistinct ==
    ASSUME NEW S, NEW s \in Seq(S), NEW x \in S
    PROVE  /\ Append(s, x) \in Seq(S)
           /\ Len(Append(s, x)) = Len(s) + 1 /\ Append(s, x)[Len(s) + 1] = x
           /\ \A i \in 1..Len(s) : Append(s, x)[i] = s[i]
           /\ ToSet(Append(s, x)) = ToSet(s) \union {x}
           /\ Distinct(s) /\ x \notin ToSet(s) => Distinct(Append(s, x))
  <1> DEFINE t == Append(s, x)
  <1>1. /\ t \in Seq(S) /\ Len(t) = Len(s) + 1 /\ t[Len(s) + 1] = x
        /\ \A i \in 1..Len(s) : t[i] = s[i]
    BY AppendProperties
  <1>2. /\ Len(s) \in Nat
        /\ \A y : y \in ToSet(s) <=> \E i \in 1..Len(s) : s[i] = y
    BY ToSetMember
  <1>3. \A y : y \in ToSet(t) <=> \E i \in 1..Len(t) : t[i] = y
    BY <1>1, ToSetMember
  <1> HIDE DEF t
  <1>4. \A i \in 1..Len(t) : i \in 1..Len(s) \/ i = Len(s) + 1
    BY <1>1, <1>2
  <1>5. (\A i \in 1..Len(s) : i \in 1..Len(t)) /\ Len(s) + 1 \in 1..Len(t)
    BY <1>1, <1>2
  <1>6. ToSet(t) = ToSet(s) \union {x}
    BY <1>1, <1>2, <1>3, <1>4, <1>5
  <1>7. ASSUME Distinct(s), x \notin ToSet(s)
        PROVE  Distinct(t)
    BY <1>1, <1>2, <1>4, <1>7 DEF Distinct
  <1> QED
    BY <1>1, <1>6, <1>7 DEF t

(***************************************************************************)
(* One element taken out.                                                  *)
(***************************************************************************)
LEMMA RemoveDistinct ==
    ASSUME NEW S, NEW s \in Seq(S), Distinct(s), NEW i \in 1..Len(s)
    PROVE  /\ RemoveAt(s, i) \in Seq(S) /\ Distinct(RemoveAt(s, i))
           /\ Len(RemoveAt(s, i)) = Len(s) - 1
           /\ \A j \in 1..(Len(s) - 1) : RemoveAt(s, i)[j] = IF j < i THEN s[j] ELSE s[j + 1]
           /\ ToSet(RemoveAt(s, i)) = ToSet(s) \ {s[i]}
  <1>2. \A j, k \in 1..Len(s) : s[j] = s[k] => j = k
    BY DEF Distinct
  <1>3. /\ \A j, k \in 1..(Len(s) - 1) : RemoveAt(s, i)[j] = RemoveAt(s, i)[k] => j = k
        /\ \A x \in S : (\E j \in 1..(Len(s) - 1) : RemoveAt(s, i)[j] = x)
                          <=> (x # s[i] /\ \E j \in 1..Len(s) : s[j] = x)
    <2>1. s \in Seq(S) /\ i \in 1..Len(s)
      OBVIOUS
    <2>2. \A j, k \in 1..(Len(s) - 1) : RemoveAt(s, i)[j] = RemoveAt(s, i)[k] => j = k
      BY ONLY <1>2, <2>1, RemoveAtInjective
    <2>3. \A x \in S : (\E j \in 1..(Len(s) - 1) : RemoveAt(s, i)[j] = x)
                          <=> (x # s[i] /\ \E j \in 1..Len(s) : s[j] = x)
      BY ONLY <1>2, <2>1, RemoveAtInjective
    <2> QED
      BY ONLY <2>2, <2>3
  <1> DEFINE t == RemoveAt(s, i)
  <1>1. /\ t \in Seq(S) /\ Len(t) = Len(s) - 1
        /\ \A j \in 1..(Len(s) - 1) : t[j] = IF j < i THEN s[j] ELSE s[j + 1]
    BY RemoveAtProperties
  <1>4. (\A x : x \in ToSet(s) <=> \E j \in 1..Len(s) : s[j] = x) /\ ToSet(s) \subseteq S
    BY ToSetMember
  <1>5. (\A x : x \in ToSet(t) <=> \E j \in 1..Len(t) : t[j] = x) /\ ToSet(t) \subseteq S
    BY <1>1, ToSetMember
  <1>6. ToSet(t) = ToSet(s) \ {s[i]}
    BY <1>1, <1>3, <1>4, <1>5
  <1>7. Distinct(t)
    BY <1>1, <1>3 DEF Distinct
  <1> QED
    BY <1>1, <1>6, <1>7

(***************************************************************************)
(* Two sequences without common elements.                                  *)
(***************************************************************************)
LEMMA ConcatDistinct ==
    ASSUME NEW S, NEW f \in Seq(S), NEW s \in Seq(S), Distinct(f), Distinct(s),
           ToSet(f) \intersect ToSet(s) = {}
    PROVE  /\ f \o s \in Seq(S) /\ Len(f \o s) = Len(f) + Len(s) /\ Distinct(f \o s)
           /\ \A i \in 1..(Len(f) + Len(s)) : (f \o s)[i] = IF i <= Len(f) THEN f[i] ELSE s[i - Len(f)]
           /\ ToSet(f \o s) = ToSet(f) \union ToSet(s)
  <1> DEFINE t == f \o s
  <1>1. /\ t \in Seq(S) /\ Len(t) = Len(f) + Len(s)
        /\ \A i \in 1..(Len(f) + Len(s)) : t[i] = IF i <= Len(f) THEN f[i] ELSE s[i - Len(f)]
    BY ConcatProperties
  <1>2. Len(f) \in Nat /\ \A x : x \in ToSet(f) <=> \E i \in 1..Len(f) : f[i] = x
    BY ToSetMember
  <1>3. Len(s) \in Nat /\ \A x : x \in ToSet(s) <=> \E i \in 1..Len(s) : s[i] = x
    BY ToSetMember
  <1> HIDE DEF t
  <1>4. \A x : x \in ToSet(t) <=> \E i \in 1..Len(t) : t[i] = x
    <2>1. t \in Seq(S)
      BY <1>1
    <2> QED
      BY ONLY <2>1, ToSetMember
  <1>5. \A i \in 1..Len(t) : \/ i \in 1..Len(f) /\ t[i] = f[i]
                             \/ i > Len(f) /\ i - Len(f) \in 1..Len(s) /\ t[i] = s[i - Len(f)]
    BY <1>1, <1>2, <1>3
  <1>6. \A i \in 1..Len(f) : i \in 1..Len(t) /\ t[i] = f[i]
    BY <1>1, <1>2, <1>3
  <1>7. ASSUME NEW i \in 1..Len(s)
        PROVE  \E j \in 1..Len(t) : t[j] = s[i]
    <2> DEFINE j == i + Len(f)
    <2>1. j \in 1..(Len(f) + Len(s)) /\ ~(j <= Len(f)) /\ j - Len(f) = i
      BY ONLY <1>2, <1>3, i \in 1..Len(s)
    <2> HIDE DEF j
    <2>2. t[j] = s[j - Len(f)] /\ j \in 1..Len(t)
      BY ONLY <1>1, <2>1
    <2> QED
      BY <2>1, <2>2
  <1>8. ToSet(t) = ToSet(f) \union ToSet(s)
    <2>1. \A x \in ToSet(t) : x \in ToSet(f) \/ x \in ToSet(s)
      BY <1>2, <1>3, <1>4, <1>5
    <2>2. \A x \in ToSet(f) : x \in ToSet(t)
      BY <1>2, <1>4, <1>6
    <2>3. \A x \in ToSet(s) : x \in ToSet(t)
      BY <1>3, <1>4, <1>7
    <2> QED
      BY <2>1, <2>2, <2>3
  <1>9. ASSUME NEW i \in 1..Len(t), NEW j \in 1..Len(t), t[i] = t[j]
        PROVE  i = j
    <2>1. CASE i \in 1..Len(f) /\ t[i] = f[i]
      <3>1. CASE j \in 1..Len(f) /\ t[j] = f[j]
        BY <1>9, <2>1, <3>1 DEF Distinct
      <3>2. CASE j - Len(f) \in 1..Len(s) /\ t[j] = s[j - Len(f)]
        <4>1. t[i] \in ToSet(f) /\ t[j] \in ToSet(s)
          BY <1>2, <1>3, <2>1, <3>2
        <4> QED
          BY <1>9, <4>1
      <3> QED
        BY <1>5, <3>1, <3>2
    <2>2. CASE i - Len(f) \in 1..Len(s) /\ t[i] = s[i - Len(f)]
      <3>1. CASE j \in 1..Len(f) /\ t[j] = f[j]
        <4>1. t[j] \in ToSet(f) /\ t[i] \in ToSet(s)
          BY <1>2, <1>3, <2>2, <3>1
        <4> QED
          BY <1>9, <4>1
      <3>2. CASE j - Len(f) \in 1..Len(s) /\ t[j] = s[j - Len(f)]
        <4> DEFINE p == i - Len(f)
                   q == j - Len(f)
        <4>1. p \in 1..Len(s) /\ q \in 1..Len(s) /\ s[p] = s[q]
          BY <1>9, <2>2, <3>2
        <4> HIDE DEF p, q
        <4>2. p = q
          BY <4>1 DEF Distinct
        <4> QED
          BY <1>2, <4>2 DEF p, q
      <3> QED
        BY <1>5, <3>1, <3>2
    <2> QED
      BY <1>5, <2>1, <2>2
  <1>10. Distinct(t)
    BY <1>9 DEF Distinct
  <1> QED
    BY <1>1, <1>8, <1>10 DEF t

(***************************************************************************)
(* What SetToSeq promises.                                                 *)
(***************************************************************************)
LEMMA SetToSeqDistinct ==
    ASSUME NEW D, IsFiniteSet(D)
    PROVE  SetToSeq(D) \in Seq(D) /\ Distinct(SetToSeq(D)) /\ ToSet(SetToSeq(D)) = D
  <1> DEFINE n == Cardinality(D)
             f == SetToSeq(D)
  <1>1. n \in Nat /\ ExistsBijection(1..n, D)
    BY FS_CardinalityType
  <1>2. \E g \in [1..n -> D] : IsInjective(g)
    BY <1>1 DEF ExistsBijection, Bijection, Injection
  <1>3. f \in [1..n -> D] /\ IsInjective(f)
    BY <1>2 DEF SetToSeq
  <1> HIDE DEF f
  <1>4. f \in Injection(1..n, D)
    BY <1>3 DEF Injection
  <1>5. IsFiniteSet(1..n) /\ Cardinality(1..n) = n
    BY <1>1, FS_Interval
  <1>6. f \in Surjection(1..n, D)
    BY <1>4, <1>5, FS_Injection
  <1> HIDE DEF n
  <1>7. f \in Seq(D)
    BY <1>1, <1>3, SeqDef
  <1>8. Len(f) = n
    BY <1>1, <1>3, <1>7, LenProperties
  <1>9. Distinct(f)
    BY <1>3, <1>8 DEF Distinct, IsInjective
  <1>10. ToSet(f) = D
    BY <1>3, <1>6 DEF Surjection, ToSet
  <1> QED
    BY <1>7, <1>9, <1>10 DEF f

(***************************************************************************)
(* A sequence without repetition has as many elements as its set.          *)
(***************************************************************************)
LEMMA DistinctLength ==
    ASSUME NEW S, NEW s \in Seq(S), Distinct(s)
    PROVE  IsFiniteSet(ToSet(s)) /\ Cardinality(ToSet(s)) = Len(s) /\ Len(s) \in Nat
  <1>1. Len(s) \in Nat /\ DOMAIN s = 1..Len(s) /\ s \in [1..Len(s) -> S]
    BY LenProperties
  <1>2. s \in Surjection(1..Len(s), ToSet(s)) /\ s \in Injection(1..Len(s), ToSet(s))
    BY <1>1 DEF Surjection, Injection, IsInjective, Distinct, ToSet
  <1>3. IsFiniteSet(1..Len(s)) /\ Cardinality(1..Len(s)) = Len(s)
    BY <1>1, FS_Interval
  <1> QED
    BY <1>1, <1>2, <1>3, FS_Surjection

(***************************************************************************)
(* A sequence without its first element.                                   *)
(***************************************************************************)
LEMMA TailDistinct ==
    ASSUME NEW S, NEW s \in Seq(S), s # <<>>, Distinct(s)
    PROVE  /\ Head(s) \in S /\ Tail(s) \in Seq(S) /\ Distinct(Tail(s))
           /\ ToSet(s) = ToSet(Tail(s)) \union {Head(s)} /\ Head(s) \notin ToSet(Tail(s))
  <1> DEFINE t == Tail(s)
             n == Len(s)
  <1>1. /\ n \in Nat /\ n >= 1 /\ DOMAIN s = 1..n /\ Head(s) = s[1]
    BY LenProperties, EmptySeq
  <1>2. /\ t \in Seq(S) /\ Len(t) = n - 1 /\ \A i \in 1..Len(t) : t[i] = s[i + 1]
    BY HeadTailProperties
  <1>3. \A x : x \in ToSet(t) <=> \E i \in 1..Len(t) : t[i] = x
    BY <1>2, ToSetMember
  <1>4. \A x : x \in ToSet(s) <=> \E i \in 1..n : s[i] = x
    BY ToSetMember
  <1>5. \A i, j \in 1..n : s[i] = s[j] => i = j
    BY DEF Distinct
  <1>6. Head(s) \in S
    BY HeadTailProperties
  <1> HIDE DEF t, n
  <1>7. \A i \in 1..(n - 1) : t[i] = s[i + 1] /\ i + 1 \in 1..n
    BY <1>1, <1>2
  <1>8. \A i, j \in 1..Len(t) : t[i] = t[j] => i = j
    <2> SUFFICES ASSUME NEW i \in 1..(n - 1), NEW j \in 1..(n - 1), t[i] = t[j]
                 PROVE  i = j
      BY <1>2
    <2>1. i + 1 = j + 1
      BY <1>5, <1>7
    <2> QED
      BY <1>1, <2>1
  <1>9. Distinct(t)
    BY <1>8 DEF Distinct
  <1>10. s[1] \notin ToSet(t)
    <2> SUFFICES ASSUME NEW i \in 1..(n - 1), t[i] = s[1]
                 PROVE  FALSE
      BY <1>2, <1>3
    <2>1. i + 1 = 1
      BY <1>1, <1>5, <1>7
    <2> QED
      BY <1>1, <2>1
  <1>11. \A i \in 1..n : i = 1 \/ (i - 1 \in 1..(n - 1) /\ (i - 1) + 1 = i)
    BY <1>1
  <1>12. ASSUME NEW x PROVE x \in ToSet(s) <=> x \in ToSet(t) \/ x = s[1]
    <2>1. ASSUME NEW i \in 1..n, s[i] = x PROVE x \in ToSet(t) \/ x = s[1]
      BY <1>2, <1>3, <1>7, <1>11, <2>1
    <2>2. x \in ToSet(t) => x \in ToSet(s)
      BY <1>2, <1>3, <1>4, <1>7
    <2>3. x = s[1] => x \in ToSet(s)
      BY <1>1, <1>4
    <2> QED
      BY <1>4, <2>1, <2>2, <2>3
  <1> QED
    BY <1>1, <1>2, <1>6, <1>9, <1>10, <1>12 DEF t

(***************************************************************************)
(* A sequence without its last element.                                    *)
(***************************************************************************)
LEMMA FrontDistinct ==
    ASSUME NEW S, NEW s \in Seq(S), s # <<>>, Distinct(s)
    PROVE  /\ Len(s) \in Nat /\ Len(s) >= 1 /\ Last(s) = s[Len(s)] /\ Last(s) \in S
           /\ Front(s) \in Seq(S) /\ Len(Front(s)) = Len(s) - 1 /\ Distinct(Front(s))
           /\ \A i \in 1..(Len(s) - 1) : Front(s)[i] = s[i]
           /\ ToSet(s) = ToSet(Front(s)) \union {Last(s)} /\ Last(s) \notin ToSet(Front(s))
  <1> DEFINE t == Front(s)
             n == Len(s)
  <1>1. n \in Nat /\ n >= 1 /\ \A i \in 1..n : s[i] \in S
    BY LenProperties, EmptySeq, ElementOfSeq
  <1>2. /\ t \in Seq(S) /\ Len(t) = n - 1 /\ \A i \in 1..(n - 1) : t[i] = s[i]
    <2>1. \A i \in 1..(n - 1) : s[i] \in S
      BY <1>1
    <2>2. /\ SubSeq(s, 1, n - 1) \in Seq(S)
          /\ Len(SubSeq(s, 1, n - 1)) = IF 1 <= n - 1 THEN (n - 1) - 1 + 1 ELSE 0
          /\ \A i \in 1..((n - 1) - 1 + 1) : SubSeq(s, 1, n - 1)[i] = s[1 + i - 1]
      BY <1>1, <2>1, SubSeqProperties
    <2>3. PICK m : m = Len(s)
      OBVIOUS
    <2>4. PICK u : u = SubSeq(s, 1, m - 1)
      OBVIOUS
    <2>5. /\ u \in Seq(S) /\ Len(u) = (IF 1 <= m - 1 THEN (m - 1) - 1 + 1 ELSE 0)
          /\ \A i \in 1..((m - 1) - 1 + 1) : u[i] = s[1 + i - 1]
      BY <2>2, <2>3, <2>4
    <2>6. m \in Nat /\ m >= 1
      BY <1>1, <2>3
    <2>7. Len(u) = m - 1
      BY ONLY <2>5, <2>6
    <2>8. \A i \in 1..(m - 1) : i \in 1..((m - 1) - 1 + 1) /\ 1 + i - 1 = i
      BY ONLY <2>6
    <2>9. \A i \in 1..(m - 1) : u[i] = s[i]
      BY ONLY <2>5, <2>8
    <2> QED
      BY <2>3, <2>4, <2>5, <2>7, <2>9 DEF Front
  <1>3. \A x : x \in ToSet(t) <=> \E i \in 1..Len(t) : t[i] = x
    BY <1>2, ToSetMember
  <1>4. \A x : x \in ToSet(s) <=> \E i \in 1..n : s[i] = x
    BY ToSetMember
  <1>5. \A i, j \in 1..n : s[i] = s[j] => i = j
    BY DEF Distinct
  <1>6. Last(s) = s[n]
    BY DEF Last
  <1> HIDE DEF t, n
  <1>7. \A i \in 1..(n - 1) : t[i] = s[i] /\ i \in 1..n /\ i # n
    BY <1>1, <1>2
  <1>8. Distinct(t)
    BY <1>2, <1>5, <1>7 DEF Distinct
  <1>9. s[n] \notin ToSet(t)
    BY <1>1, <1>2, <1>3, <1>5, <1>7
  <1>10. \A i \in 1..n : i = n \/ i \in 1..(n - 1)
    BY <1>1
  <1>11. ASSUME NEW x PROVE x \in ToSet(s) <=> x \in ToSet(t) \/ x = s[n]
    BY <1>1, <1>2, <1>3, <1>4, <1>7, <1>10
  <1> QED
    BY <1>1, <1>2, <1>6, <1>8, <1>9, <1>11 DEF t, n
=============================================================================
