-------------------------- MODULE SeqFilterProofs --------------------------
(***************************************************************************)
(* What the operators of SeqFilter, and the sequence operations the        *)
(* scheduler uses, do to the set of elements of a sequence and to the      *)
(* absence of duplicates; and induction over the natural numbers.          *)
(***************************************************************************)
EXTENDS SeqFilter, Integers, FiniteSetTheorems, SequenceTheorems, TLAPS

\* Ranks count: they lie between 1 and the size of the set and grow strictly.
LEMMA RankProperties ==
  ASSUME NEW K \in SUBSET Int, IsFiniteSet(K)
  PROVE  /\ Cardinality(K) \in Nat
         /\ \A i \in K : Rank(K, i) \in 1..Cardinality(K)
         /\ \A i, j \in K : i < j => Rank(K, i) < Rank(K, j)
<1> DEFINE Upto(i) == {j \in K : j <= i}
<1>1. Cardinality(K) \in Nat
  BY FS_CardinalityType
<1>2. ASSUME NEW i \in K
      PROVE  /\ IsFiniteSet(Upto(i))
             /\ Cardinality(Upto(i)) \in Nat
             /\ Cardinality(Upto(i)) <= Cardinality(K)
  <2>1. Upto(i) \in SUBSET K
    OBVIOUS
  <2>2. IsFiniteSet(Upto(i)) /\ Cardinality(Upto(i)) <= Cardinality(K)
    BY <2>1, FS_Subset
  <2> QED
    BY <2>2, FS_CardinalityType
<1>3. ASSUME NEW i \in K
      PROVE  Cardinality(Upto(i)) # 0
  <2>1. i \in Upto(i)
    OBVIOUS
  <2> HIDE DEF Upto
  <2> QED
    BY <1>2, <2>1, FS_EmptySet
<1>4. ASSUME NEW i \in K, NEW j \in K, i < j
      PROVE  Cardinality(Upto(i)) < Cardinality(Upto(j))
  <2>0. i \in Int /\ j \in Int /\ \A k \in K : k \in Int
    OBVIOUS
  <2>1. Upto(i) \in SUBSET Upto(j)
    <3> SUFFICES ASSUME NEW k \in K, k <= i PROVE k <= j
      OBVIOUS
    <3> QED
      BY <1>4, <2>0
  <2>2. j \in Upto(j) /\ j \notin Upto(i)
    BY <1>4, <2>0
  <2>3. Upto(i) # Upto(j)
    BY <2>2
  <2> HIDE DEF Upto
  <2>4. /\ Cardinality(Upto(i)) <= Cardinality(Upto(j))
        /\ Cardinality(Upto(j)) = Cardinality(Upto(i)) => Upto(j) = Upto(i)
    BY <1>2, <2>1, FS_Subset
  <2> QED
    BY <1>2, <2>3, <2>4
<1>5. \A i \in K : Rank(K, i) = Cardinality(Upto(i))
  BY DEF Rank
<1> HIDE DEF Upto
<1> QED
  BY <1>1, <1>2, <1>3, <1>4, <1>5

\* Nth enumerates a finite set of numbers in increasing order.
LEMMA NthProperties ==
  ASSUME NEW K \in SUBSET Int, IsFiniteSet(K)
  PROVE  /\ \A k \in 1..Cardinality(K) : Nth(K, k) \in K /\ Rank(K, Nth(K, k)) = k
         /\ \A k, m \in 1..Cardinality(K) : k < m => Nth(K, k) < Nth(K, m)
         /\ \A i \in K : Nth(K, Rank(K, i)) = i
<1> DEFINE n == Cardinality(K)
           f == [i \in K |-> Rank(K, i)]
<1>1. /\ n \in Nat
      /\ \A i \in K : Rank(K, i) \in 1..n
      /\ \A i, j \in K : i < j => Rank(K, i) < Rank(K, j)
  BY RankProperties
<1>2. \A i, j \in K : Rank(K, i) = Rank(K, j) => i = j
  <2> SUFFICES ASSUME NEW i \in K, NEW j \in K, Rank(K, i) = Rank(K, j)
               PROVE  i = j
    OBVIOUS
  <2>1. Rank(K, i) \in Int /\ Rank(K, j) \in Int
    BY <1>1
  <2>2. ~(i < j) /\ ~(j < i)
    BY <1>1, <2>1
  <2> QED
    BY <2>2
<1>3. f \in Injection(K, 1..n)
  <2>1. f \in [K -> 1..n]
    BY <1>1
  <2>2. IsInjective(f)
    BY <1>2 DEF IsInjective
  <2> QED
    BY <2>1, <2>2 DEF Injection
<1>4. IsFiniteSet(1..n) /\ Cardinality(1..n) = n
  BY <1>1, FS_Interval
<1>5. f \in Surjection(K, 1..n)
  BY <1>3, <1>4, FS_Injection
<1>6. \A k \in 1..n : \E i \in K : Rank(K, i) = k
  BY <1>5 DEF Surjection
<1>7. \A k \in 1..n : Nth(K, k) \in K /\ Rank(K, Nth(K, k)) = k
  BY <1>6 DEF Nth
<1>8. \A i \in K : Nth(K, Rank(K, i)) = i
  BY <1>1, <1>2, <1>7
<1>9. ASSUME NEW k \in 1..n, NEW m \in 1..n, k < m
      PROVE  Nth(K, k) < Nth(K, m)
  <2>1. Nth(K, k) \in Int /\ Nth(K, m) \in Int
    BY <1>7
  <2>2. ~(Nth(K, m) < Nth(K, k))
    <3>1. Nth(K, m) < Nth(K, k) => Rank(K, Nth(K, m)) < Rank(K, Nth(K, k))
      BY <1>1, <1>7
    <3>2. k \in Int /\ m \in Int /\ ~(m < k)
      BY <1>1, <1>9
    <3> QED
      BY <1>7, <3>1, <3>2
  <2>3. Nth(K, m) # Nth(K, k)
    BY <1>7, <1>9
  <2> QED
    BY <2>1, <2>2, <2>3
<1> QED
  BY <1>7, <1>8, <1>9

\* Least picks a member no greater than any other.
LEMMA LeastProperties ==
  ASSUME NEW K \in SUBSET Int, IsFiniteSet(K), K # {}
  PROVE  Least(K) \in K /\ \A i \in K : Least(K) <= i
<1>1. Cardinality(K) \in Nat /\ Cardinality(K) # 0
  BY FS_CardinalityType, FS_EmptySet
<1>2. 1 \in 1..Cardinality(K)
  BY <1>1
<1>3. Least(K) \in K /\ Rank(K, Least(K)) = 1
  BY <1>2, NthProperties DEF Least
<1>4. ASSUME NEW i \in K
      PROVE  Least(K) <= i
  <2>1. Rank(K, i) \in 1..Cardinality(K)
    BY RankProperties
  <2>2. i < Least(K) => Rank(K, i) < Rank(K, Least(K))
    BY <1>3, RankProperties
  <2>3. ~(Rank(K, i) < 1)
    BY <1>1, <2>1
  <2>4. i \in Int /\ Least(K) \in Int
    BY <1>3
  <2> QED
    BY <1>3, <2>2, <2>3, <2>4
<1> QED
  BY <1>3, <1>4

\* Filter keeps exactly the elements of T and invents no duplicate.
LEMMA FilterProperties ==
  ASSUME NEW S, NEW s \in Seq(S), NEW T
  PROVE  /\ Filter(s, T) \in Seq(S)
         /\ Range(Filter(s, T)) = Range(s) \cap T
         /\ Distinct(s) => Distinct(Filter(s, T))
<1> DEFINE K == Positions(s, T)
           n == Cardinality(K)
           g == Filter(s, T)
<1>1. DOMAIN s = 1..Len(s) /\ Len(s) \in Nat
  BY LenProperties
<1>2. K \in SUBSET (1..Len(s))
  BY <1>1 DEF Positions
<1>3. IsFiniteSet(K) /\ K \in SUBSET Int
  <2>1. IsFiniteSet(1..Len(s))
    BY <1>1, FS_Interval
  <2>2. 1..Len(s) \in SUBSET Int
    BY <1>1
  <2> HIDE DEF K
  <2> QED
    BY <1>2, <2>1, <2>2, FS_Subset
<1>4. n \in Nat
  BY <1>3, FS_CardinalityType
<1>5. g = [k \in 1..n |-> s[Nth(K, k)]]
  BY DEF Filter
<1>6. \A i \in K : i \in DOMAIN s /\ s[i] \in T /\ s[i] \in S
  BY <1>1, ElementOfSeq DEF Positions
<1>7. \A i \in DOMAIN s : s[i] \in T => i \in K
  BY DEF Positions
<1> HIDE DEF K, g
<1>8. /\ \A k \in 1..n : Nth(K, k) \in K /\ Rank(K, Nth(K, k)) = k
      /\ \A i \in K : Rank(K, i) \in 1..n /\ Nth(K, Rank(K, i)) = i
  BY <1>3, NthProperties, RankProperties
<1>9. g \in Seq(S)
  <2>1. g \in [1..n -> S]
    BY <1>5, <1>6, <1>8
  <2> QED
    BY <1>4, <2>1, SeqDef
<1>10. Range(g) = Range(s) \cap T
  <2>1. ASSUME NEW x \in Range(g) PROVE x \in Range(s) \cap T
    <3>1. PICK k \in 1..n : x = s[Nth(K, k)]
      BY <1>5, <2>1 DEF Range
    <3> QED
      BY <1>6, <1>8, <3>1 DEF Range
  <2>2. ASSUME NEW x \in Range(s) \cap T PROVE x \in Range(g)
    <3>1. PICK i \in DOMAIN s : x = s[i]
      BY <2>2 DEF Range
    <3>2. i \in K
      BY <1>7, <2>2, <3>1
    <3>3. Rank(K, i) \in DOMAIN g /\ g[Rank(K, i)] = x
      BY <1>5, <1>8, <3>1, <3>2
    <3> QED
      BY <3>3 DEF Range
  <2> QED
    BY <2>1, <2>2
<1>11. ASSUME Distinct(s) PROVE Distinct(g)
  <2> SUFFICES ASSUME NEW a \in 1..n, NEW b \in 1..n, s[Nth(K, a)] = s[Nth(K, b)]
               PROVE  a = b
    BY <1>5 DEF Distinct
  <2>1. Nth(K, a) = Nth(K, b)
    BY <1>6, <1>8, <1>11 DEF Distinct
  <2> QED
    BY <1>8, <2>1
<1> QED
  BY <1>9, <1>10, <1>11 DEF g

\* Appending an element that is not there.
LEMMA AppendDistinct ==
  ASSUME NEW S, NEW s \in Seq(S), NEW x \in S
  PROVE  /\ Append(s, x) \in Seq(S)
         /\ Range(Append(s, x)) = Range(s) \cup {x}
         /\ Distinct(s) /\ x \notin Range(s) => Distinct(Append(s, x))
<1>1. /\ Append(s, x) \in Seq(S)
      /\ Len(Append(s, x)) = Len(s) + 1
      /\ \A i \in 1..Len(s) : Append(s, x)[i] = s[i]
      /\ Append(s, x)[Len(s) + 1] = x
  BY AppendProperties
<1>2. Len(s) \in Nat /\ DOMAIN s = 1..Len(s) /\ DOMAIN Append(s, x) = 1..(Len(s) + 1)
  BY <1>1, LenProperties
<1>3. Range(Append(s, x)) = Range(s) \cup {x}
  <2>1. \A i \in 1..(Len(s) + 1) : i \in 1..Len(s) \/ i = Len(s) + 1
    BY <1>2
  <2>2. \A i \in 1..Len(s) : i \in 1..(Len(s) + 1)
    BY <1>2
  <2>3. Len(s) + 1 \in 1..(Len(s) + 1)
    BY <1>2
  <2> QED
    BY <1>1, <1>2, <2>1, <2>2, <2>3 DEF Range
<1>4. ASSUME Distinct(s), x \notin Range(s) PROVE Distinct(Append(s, x))
  BY <1>1, <1>2, <1>4 DEF Distinct, Range
<1> QED
  BY <1>1, <1>3, <1>4

\* Popping the head.
LEMMA TailDistinct ==
  ASSUME NEW S, NEW s \in Seq(S), s # <<>>
  PROVE  /\ Head(s) \in Range(s) /\ Head(s) \in S
         /\ Tail(s) \in Seq(S)
         /\ Distinct(s) => Distinct(Tail(s)) /\ Range(Tail(s)) = Range(s) \ {Head(s)}
<1>1. /\ Head(s) \in S /\ Tail(s) \in Seq(S)
      /\ Len(Tail(s)) = Len(s) - 1
      /\ \A i \in 1..Len(Tail(s)) : Tail(s)[i] = s[i + 1]
  BY HeadTailProperties
<1>2. /\ Len(s) \in Nat \ {0} /\ DOMAIN s = 1..Len(s)
      /\ DOMAIN Tail(s) = 1..(Len(s) - 1)
  BY <1>1, LenProperties, EmptySeq
<1>3. Head(s) = s[1] /\ 1 \in DOMAIN s
  BY <1>2
<1>4. ASSUME Distinct(s)
      PROVE  Distinct(Tail(s)) /\ Range(Tail(s)) = Range(s) \ {Head(s)}
  <2>1. Distinct(Tail(s))
    BY <1>1, <1>2, <1>4 DEF Distinct
  <2>2. ASSUME NEW x \in Range(Tail(s)) PROVE x \in Range(s) \ {Head(s)}
    <3>1. PICK i \in 1..(Len(s) - 1) : x = s[i + 1]
      BY <1>1, <1>2, <2>2 DEF Range
    <3>2. i + 1 \in DOMAIN s /\ i + 1 # 1
      BY <1>2, <3>1
    <3> QED
      BY <1>3, <1>4, <3>1, <3>2 DEF Distinct, Range
  <2>3. ASSUME NEW x \in Range(s) \ {Head(s)} PROVE x \in Range(Tail(s))
    <3>1. PICK i \in 1..Len(s) : x = s[i] /\ i # 1
      BY <1>2, <1>3, <2>3 DEF Range
    <3>2. i - 1 \in 1..(Len(s) - 1) /\ Tail(s)[i - 1] = s[i]
      BY <1>1, <1>2, <3>1
    <3> QED
      BY <1>2, <3>1, <3>2 DEF Range
  <2> QED
    BY <2>1, <2>2, <2>3
<1> QED
  BY <1>1, <1>3, <1>4 DEF Range

\* Concatenating two sequences that share no element.
LEMMA ConcatDistinct ==
  ASSUME NEW S, NEW s \in Seq(S), NEW t \in Seq(S)
  PROVE  /\ s \o t \in Seq(S)
         /\ Range(s \o t) = Range(s) \cup Range(t)
         /\ Distinct(s) /\ Distinct(t) /\ Range(s) \cap Range(t) = {} => Distinct(s \o t)
<1>1. /\ s \o t \in Seq(S)
      /\ Len(s \o t) = Len(s) + Len(t)
      /\ \A i \in 1..Len(s) + Len(t) :
            (s \o t)[i] = IF i <= Len(s) THEN s[i] ELSE t[i - Len(s)]
  BY ConcatProperties
<1>2. /\ Len(s) \in Nat /\ DOMAIN s = 1..Len(s)
      /\ Len(t) \in Nat /\ DOMAIN t = 1..Len(t)
      /\ DOMAIN (s \o t) = 1..(Len(s) + Len(t))
  BY <1>1, LenProperties
<1>3. ASSUME Distinct(s), Distinct(t), Range(s) \cap Range(t) = {}
      PROVE  Distinct(s \o t)
  <2> SUFFICES ASSUME NEW i \in 1..(Len(s) + Len(t)), NEW j \in 1..(Len(s) + Len(t)),
                      (s \o t)[i] = (s \o t)[j]
               PROVE  i = j
    BY <1>2 DEF Distinct
  <2>1. CASE i <= Len(s) /\ j <= Len(s)
    BY <1>1, <1>2, <1>3, <2>1 DEF Distinct
  <2>2. CASE ~(i <= Len(s)) /\ ~(j <= Len(s))
    <3>1. i - Len(s) \in DOMAIN t /\ j - Len(s) \in DOMAIN t
      BY <1>2, <2>2
    <3>2. t[i - Len(s)] = t[j - Len(s)]
      BY <1>1, <2>2
    <3>3. i - Len(s) = j - Len(s)
      BY <1>3, <3>1, <3>2 DEF Distinct
    <3> QED
      BY <1>2, <3>3
  <2>3. \A a \in DOMAIN s, b \in DOMAIN t : s[a] # t[b]
    BY <1>3 DEF Range
  <2>4. CASE i <= Len(s) /\ ~(j <= Len(s))
    <3>1. i \in DOMAIN s /\ j - Len(s) \in DOMAIN t
      BY <1>2, <2>4
    <3> QED
      BY <1>1, <2>3, <2>4, <3>1
  <2>5. CASE ~(i <= Len(s)) /\ j <= Len(s)
    <3>1. j \in DOMAIN s /\ i - Len(s) \in DOMAIN t
      BY <1>2, <2>5
    <3> QED
      BY <1>1, <2>3, <2>5, <3>1
  <2> QED
    BY <2>1, <2>2, <2>4, <2>5
<1> QED
  BY <1>1, <1>3, RangeConcatenation

\* Induction, about a set: the theorems of NaturalsInduction are about an operator,
\* which no prover at hand can instantiate.
LEMMA SetInduction ==
  ASSUME NEW S, 0 \in S, \A k \in Nat : k \in S => k + 1 \in S
  PROVE  Nat \subseteq S
<1> SUFFICES ASSUME NEW n \in Nat, n \notin S PROVE FALSE
  OBVIOUS
<1> DEFINE K == {k \in 0 .. n : k \notin S}
<1>1. K \in SUBSET Nat /\ K # {} /\ IsFiniteSet(K)
  <2>1. IsFiniteSet(0 .. n)
    BY FS_Interval
  <2> QED BY <2>1, FS_Subset
<1>2. Least(K) \in K /\ \A k \in K : Least(K) <= k
  BY <1>1, LeastProperties
<1>3. Least(K) # 0
  BY <1>2
<1>4. Least(K) - 1 \in Nat /\ Least(K) - 1 \notin K /\ Least(K) - 1 \in 0 .. n
  BY <1>2, <1>3
<1>5. Least(K) - 1 \in S
  BY <1>4
<1>6. (Least(K) - 1) + 1 \in S
  BY <1>4, <1>5
<1> QED BY <1>2, <1>4, <1>6

-----------------------------------------------------------------------------
(* A loop that walks a sequence and takes out some of its elements.        *)

\* Where the elements of T are in s and in what remains of it.
LEMMA FilterFacts ==
  ASSUME NEW S, NEW s \in Seq(S), NEW T, NEW K, K = Positions(s, T)
  PROVE  /\ K \in SUBSET Int /\ IsFiniteSet(K) /\ Cardinality(K) \in Nat
         /\ \A i : i \in K <=> i \in 1..Len(s) /\ s[i] \in T
         /\ Filter(s, T) = [k \in 1..Cardinality(K) |-> s[Nth(K, k)]]
         /\ Len(Filter(s, T)) = Cardinality(K)
<1>1. DOMAIN s = 1..Len(s) /\ Len(s) \in Nat
  BY LenProperties
<1>2. \A i : i \in K <=> i \in 1..Len(s) /\ s[i] \in T
  BY <1>1 DEF Positions
<1>3. IsFiniteSet(K) /\ K \in SUBSET Int
  <2>1. IsFiniteSet(1..Len(s)) /\ K \in SUBSET (1..Len(s))
    BY <1>1, <1>2, FS_Interval
  <2>2. 1..Len(s) \in SUBSET Int
    BY <1>1
  <2> QED BY <2>1, <2>2, FS_Subset
<1>4. Cardinality(K) \in Nat
  BY <1>3, FS_CardinalityType
<1>5. Filter(s, T) = [k \in 1..Cardinality(K) |-> s[Nth(K, k)]]
  BY DEF Filter
<1>6. Len(Filter(s, T)) = Cardinality(K)
  <2>1. Filter(s, T) \in Seq(S) /\ DOMAIN Filter(s, T) = 1..Cardinality(K)
    BY <1>5, FilterProperties
  <2>2. Len(Filter(s, T)) \in Nat /\ DOMAIN Filter(s, T) = 1..Len(Filter(s, T))
    BY <2>1, LenProperties
  <2> DEFINE a == Len(Filter(s, T))
             b == Cardinality(K)
  <2>3. a \in Nat /\ b \in Nat /\ 1..a = 1..b
    BY <1>4, <2>1, <2>2
  <2> HIDE DEF a, b
  <2>4. a = b
    BY <2>3
  <2> QED BY <2>4 DEF a, b
<1> QED BY <1>2, <1>3, <1>4, <1>5, <1>6

LEMMA FilterSame ==
  ASSUME NEW s, NEW T, NEW U, \A i \in DOMAIN s : s[i] \in T <=> s[i] \in U
  PROVE  Filter(s, T) = Filter(s, U)
<1>1. Positions(s, T) = Positions(s, U)
  BY DEF Positions
<1> QED BY <1>1 DEF Filter

LEMMA FilterNone ==
  ASSUME NEW S, NEW s \in Seq(S), NEW T, Range(s) \cap T = {}
  PROVE  Filter(s, T) = <<>>
<1> DEFINE K == Positions(s, T)
<1>1. K = {}
  BY DEF Positions, Range
<1>2. Cardinality(K) = 0
  BY <1>1, FS_EmptySet
<1>3. Filter(s, T) \in Seq(S) /\ Len(Filter(s, T)) = 0
  BY <1>2, FilterFacts, FilterProperties
<1> QED BY <1>3, EmptySeq

LEMMA FilterAll ==
  ASSUME NEW S, NEW s \in Seq(S), NEW T, Range(s) \subseteq T
  PROVE  Filter(s, T) = s
<1> DEFINE K == Positions(s, T)
           n == Len(s)
<1>1. DOMAIN s = 1..n /\ n \in Nat
  BY LenProperties
<1>2. K = 1..n
  BY <1>1 DEF Positions, Range
<1>3. Cardinality(K) = n /\ IsFiniteSet(K) /\ K \in SUBSET Int
  <2>1. Cardinality(1..n) = n /\ IsFiniteSet(1..n) /\ 1..n \in SUBSET Int
    BY <1>1, FS_Interval
  <2> QED BY <1>2, <2>1
<1>4. Filter(s, T) = [k \in 1..n |-> s[Nth(K, k)]]
  BY <1>3 DEF Filter
<1> HIDE DEF K, n
<1>5. ASSUME NEW k \in 1..n PROVE Nth(K, k) = k
  <2>1. {j \in K : j <= k} = 1..k /\ k \in Nat
    BY <1>1, <1>2
  <2>2. Rank(K, k) = k
    <3>1. Cardinality(1..k) = k
      BY <2>1, FS_Interval
    <3> QED BY <2>1, <3>1 DEF Rank
  <2>3. Nth(K, Rank(K, k)) = k
    BY <1>2, <1>3, NthProperties
  <2> QED BY <2>2, <2>3
<1>6. s = [k \in 1..n |-> s[k]]
  BY <1>1
<1>7. [k \in 1..n |-> s[Nth(K, k)]] = [k \in 1..n |-> s[k]]
  BY <1>5
<1> QED BY <1>4, <1>6, <1>7

\* A new largest member.
RankAdded(K, m, M) ==
  /\ M \in SUBSET Int /\ IsFiniteSet(M) /\ Cardinality(M) = Cardinality(K) + 1
  /\ \A i \in K : Rank(M, i) = Rank(K, i)
  /\ Rank(M, m) = Cardinality(K) + 1

LEMMA RankAdd ==
  ASSUME NEW K \in SUBSET Int, IsFiniteSet(K), NEW m \in Int, \A i \in K : i < m,
         NEW M, M = K \cup {m}
  PROVE  RankAdded(K, m, M)
<1>1. m \notin K /\ M \in SUBSET Int
  OBVIOUS
<1>2. IsFiniteSet(M) /\ Cardinality(M) = Cardinality(K) + 1
  BY <1>1, FS_AddElement
<1>3. \A i \in K : {j \in M : j <= i} = {j \in K : j <= i}
  <2> SUFFICES ASSUME NEW i \in K PROVE {j \in M : j <= i} = {j \in K : j <= i}
    OBVIOUS
  <2>1. i \in Int /\ i < m /\ ~(m <= i)
    OBVIOUS
  <2> QED BY <2>1
<1>4. {j \in M : j <= m} = M
  <2>1. \A j \in M : j <= m
    OBVIOUS
  <2> QED BY <2>1
<1> QED BY <1>1, <1>2, <1>3, <1>4 DEF Rank, RankAdded

\* A member less.
RankRemoved(K, m, M) ==
  /\ M \in SUBSET Int /\ IsFiniteSet(M) /\ Cardinality(M) = Cardinality(K) - 1
  /\ \A i \in M : i < m => Rank(M, i) = Rank(K, i)
  /\ \A i \in M : i > m => Rank(M, i) = Rank(K, i) - 1

LEMMA RankRemove ==
  ASSUME NEW K \in SUBSET Int, IsFiniteSet(K), NEW m \in K, NEW M, M = K \ {m}
  PROVE  RankRemoved(K, m, M)
<1>1. M \in SUBSET Int /\ IsFiniteSet(M) /\ Cardinality(M) = Cardinality(K) - 1
  BY FS_RemoveElement
<1>2. ASSUME NEW i \in M, i < m PROVE Rank(M, i) = Rank(K, i)
  <2>1. i \in Int /\ m \in Int /\ ~(m <= i)
    BY <1>2
  <2>2. {j \in M : j <= i} = {j \in K : j <= i}
    BY <2>1
  <2> QED BY <2>2 DEF Rank
<1>3. ASSUME NEW i \in M, i > m PROVE Rank(M, i) = Rank(K, i) - 1
  <2> DEFINE A == {j \in K : j <= i}
  <2>1. i \in Int /\ m \in Int /\ m <= i
    BY <1>3
  <2>2. m \in A /\ {j \in M : j <= i} = A \ {m}
    BY <2>1
  <2>3. A \in SUBSET K
    OBVIOUS
  <2> HIDE DEF A
  <2>4. IsFiniteSet(A)
    BY <2>3, FS_Subset
  <2>5. Cardinality(A \ {m}) = Cardinality(A) - 1
    BY <2>2, <2>4, FS_RemoveElement
  <2> QED BY <2>2, <2>5 DEF Rank, A
<1> QED BY <1>1, <1>2, <1>3 DEF RankRemoved

\* The members of a set one after another.
LEMMA RankNext ==
  ASSUME NEW K \in SUBSET Int, IsFiniteSet(K), NEW m \in K
  PROVE  /\ m + 1 \in K => Rank(K, m + 1) = Rank(K, m) + 1
         /\ (\A i \in K : i <= m) => Rank(K, m) = Cardinality(K)
<1>1. ASSUME m + 1 \in K PROVE Rank(K, m + 1) = Rank(K, m) + 1
  <2> DEFINE A == {j \in K : j <= m}
  <2>1. m \in Int
    OBVIOUS
  <2>2. m + 1 \notin A /\ {j \in K : j <= m + 1} = A \cup {m + 1}
    <3>1. \A j \in K : j <= m + 1 <=> (j <= m \/ j = m + 1)
      BY <2>1
    <3>2. ~(m + 1 <= m)
      BY <2>1
    <3>3. m + 1 \notin A
      BY <3>2
    <3>4. {j \in K : j <= m + 1} \subseteq A \cup {m + 1}
      BY <3>1
    <3>5. A \cup {m + 1} \subseteq {j \in K : j <= m + 1}
      BY <1>1, <3>1
    <3> QED BY <3>3, <3>4, <3>5
  <2>3. A \in SUBSET K
    OBVIOUS
  <2> HIDE DEF A
  <2>4. IsFiniteSet(A)
    BY <2>3, FS_Subset
  <2>5. Cardinality(A \cup {m + 1}) = Cardinality(A) + 1
    BY <2>2, <2>4, FS_AddElement
  <2> QED BY <2>2, <2>5 DEF Rank, A
<1>2. ASSUME \A i \in K : i <= m PROVE Rank(K, m) = Cardinality(K)
  <2>1. {j \in K : j <= m} = K
    BY <1>2
  <2> QED BY <2>1 DEF Rank
<1> QED BY <1>1, <1>2

\* The element met next joins those that were taken out.
LEMMA FilterAdd ==
  ASSUME NEW S, NEW s \in Seq(S), Distinct(s), NEW T, NEW m \in 1..Len(s),
         \A i \in 1..Len(s) : s[i] \in T => i < m
  PROVE  Filter(s, T \cup {s[m]}) = Append(Filter(s, T), s[m])
<1> DEFINE K == Positions(s, T)
           M == Positions(s, T \cup {s[m]})
           n == Cardinality(K)
           F == Filter(s, T)
           G == Filter(s, T \cup {s[m]})
<1>1. /\ K \in SUBSET Int /\ IsFiniteSet(K) /\ n \in Nat
      /\ \A i : i \in K <=> i \in 1..Len(s) /\ s[i] \in T
      /\ F = [k \in 1..n |-> s[Nth(K, k)]] /\ Len(F) = n
  BY FilterFacts
<1>2. /\ \A i : i \in M <=> i \in 1..Len(s) /\ (s[i] \in T \/ s[i] = s[m])
      /\ G = [k \in 1..Cardinality(M) |-> s[Nth(M, k)]]
  <2> DEFINE U == T \cup {s[m]}
  <2>1. \A e : e \in U <=> e \in T \/ e = s[m]
    OBVIOUS
  <2> HIDE DEF U
  <2>2. /\ \A i : i \in Positions(s, U) <=> i \in 1..Len(s) /\ s[i] \in U
        /\ Filter(s, U) = [k \in 1..Cardinality(Positions(s, U)) |-> s[Nth(Positions(s, U), k)]]
    BY FilterFacts
  <2> QED BY <2>1, <2>2 DEF U
<1>3. DOMAIN s = 1..Len(s) /\ Len(s) \in Nat /\ s[m] \in S
  BY LenProperties, ElementOfSeq
<1>4. M = K \cup {m}
  BY <1>1, <1>2, <1>3 DEF Distinct
<1>5. F \in Seq(S)
  BY FilterProperties
<1> HIDE DEF K, M, n, F, G
<1>6. /\ M \in SUBSET Int /\ IsFiniteSet(M) /\ Cardinality(M) = n + 1
      /\ \A i \in K : Rank(M, i) = Rank(K, i)
      /\ Rank(M, m) = n + 1
  <2>1. m \in Int /\ \A i \in K : i < m
    BY <1>1, <1>3
  <2>2. RankAdded(K, m, M)
    BY <1>1, <1>4, <2>1, RankAdd
  <2> QED BY <2>2 DEF n, RankAdded
<1>7. ASSUME NEW k \in 1..n PROVE Nth(M, k) = Nth(K, k)
  <2>1. Nth(K, k) \in K /\ Rank(K, Nth(K, k)) = k
    BY <1>1, NthProperties DEF n
  <2>2. Nth(K, k) \in M /\ Rank(M, Nth(K, k)) = k
    BY <1>4, <1>6, <2>1
  <2>3. Nth(M, Rank(M, Nth(K, k))) = Nth(K, k)
    BY <1>6, <2>2, NthProperties
  <2> QED BY <2>2, <2>3
<1>8. Nth(M, n + 1) = m
  <2>1. m \in M
    BY <1>4
  <2> QED BY <1>6, <2>1, NthProperties
<1>9. /\ Append(F, s[m]) \in Seq(S) /\ Len(Append(F, s[m])) = n + 1
      /\ \A k \in 1..n : Append(F, s[m])[k] = F[k]
      /\ Append(F, s[m])[n + 1] = s[m]
  BY <1>1, <1>3, <1>5, AppendProperties
<1> DEFINE A == Append(F, s[m])
<1>10. A = [k \in 1..n + 1 |-> A[k]]
  BY <1>9
<1>11. G = [k \in 1..n + 1 |-> s[Nth(M, k)]]
  BY <1>2, <1>6
<1> HIDE DEF A
<1>12. ASSUME NEW k \in 1..n + 1 PROVE s[Nth(M, k)] = A[k]
  <2>1. CASE k \in 1..n
    BY <1>1, <1>7, <1>9, <2>1 DEF A
  <2>2. CASE k \notin 1..n
    <3>1. k = n + 1
      BY <1>1, <2>2
    <3> QED BY <1>8, <1>9, <3>1 DEF A
  <2> QED BY <2>1, <2>2
<1>13. G = A
  BY <1>10, <1>11, <1>12
<1> QED BY <1>13 DEF G, A, F

\* F holds element number m of s at place r, followed by element number m + 1, and
\* H is F without it.
TakenOut(s, T, m, F, r, H) ==
  /\ r \in 1..Len(F) /\ F[r] = s[m]
  /\ m < Len(s) /\ s[m + 1] \in T => r < Len(F) /\ F[r + 1] = s[m + 1]
  /\ m = Len(s) => r = Len(F)
  /\ H = [k \in 1..Len(F) - 1 |-> IF k < r THEN F[k] ELSE F[k + 1]]

LEMMA FilterOut ==
  ASSUME NEW S, NEW s \in Seq(S), Distinct(s), NEW T, NEW m \in 1..Len(s), s[m] \in T
  PROVE  \E r : TakenOut(s, T, m, Filter(s, T), r, Filter(s, T \ {s[m]}))
<1> DEFINE K == Positions(s, T)
           M == Positions(s, T \ {s[m]})
           n == Cardinality(K)
           F == Filter(s, T)
           H == Filter(s, T \ {s[m]})
           r == Rank(K, m)
<1>1. /\ K \in SUBSET Int /\ IsFiniteSet(K) /\ n \in Nat
      /\ \A i : i \in K <=> i \in 1..Len(s) /\ s[i] \in T
      /\ F = [k \in 1..n |-> s[Nth(K, k)]] /\ Len(F) = n
  BY FilterFacts
<1>2. /\ \A i : i \in M <=> i \in 1..Len(s) /\ s[i] \in T /\ s[i] # s[m]
      /\ H = [k \in 1..Cardinality(M) |-> s[Nth(M, k)]]
  <2> DEFINE U == T \ {s[m]}
  <2>1. \A e : e \in U <=> e \in T /\ e # s[m]
    OBVIOUS
  <2> HIDE DEF U
  <2>2. /\ \A i : i \in Positions(s, U) <=> i \in 1..Len(s) /\ s[i] \in U
        /\ Filter(s, U) = [k \in 1..Cardinality(Positions(s, U)) |-> s[Nth(Positions(s, U), k)]]
    BY FilterFacts
  <2> QED BY <2>1, <2>2 DEF U
<1>3. DOMAIN s = 1..Len(s) /\ Len(s) \in Nat
  BY LenProperties
<1>4. M = K \ {m} /\ m \in K
  BY <1>1, <1>2, <1>3 DEF Distinct
<1> HIDE DEF K, M, n, F, H, r
<1>5. /\ M \in SUBSET Int /\ IsFiniteSet(M) /\ Cardinality(M) = n - 1
      /\ \A i \in M : i < m => Rank(M, i) = Rank(K, i)
      /\ \A i \in M : i > m => Rank(M, i) = Rank(K, i) - 1
  <2>1. RankRemoved(K, m, M)
    BY <1>1, <1>4, RankRemove
  <2> QED BY <2>1 DEF n, RankRemoved
<1>6. /\ \A k \in 1..n : Nth(K, k) \in K /\ Rank(K, Nth(K, k)) = k
      /\ \A k, j \in 1..n : k < j => Nth(K, k) < Nth(K, j)
      /\ \A i \in K : Nth(K, Rank(K, i)) = i /\ Rank(K, i) \in 1..n
  BY <1>1, NthProperties, RankProperties DEF n
<1>7. r \in 1..n /\ Nth(K, r) = m /\ m \in Int
  BY <1>1, <1>4, <1>6 DEF r
<1>8. F[r] = s[m]
  BY <1>1, <1>7
<1>9. ASSUME m < Len(s), s[m + 1] \in T PROVE r < n /\ F[r + 1] = s[m + 1]
  <2>1. m + 1 \in K
    BY <1>1, <1>3, <1>9
  <2>2. Rank(K, m + 1) = r + 1
    BY <1>1, <1>4, <2>1, RankNext DEF r
  <2>3. r + 1 \in 1..n /\ Nth(K, r + 1) = m + 1
    BY <1>6, <2>1, <2>2
  <2> QED BY <1>1, <1>7, <2>3
<1>10. ASSUME m = Len(s) PROVE r = n
  <2>1. \A i \in K : i <= m
    BY <1>1, <1>3, <1>10
  <2> QED BY <1>1, <1>4, <2>1, RankNext DEF r, n
<1>11. ASSUME NEW k \in 1..n - 1 PROVE Nth(M, k) = IF k < r THEN Nth(K, k) ELSE Nth(K, k + 1)
  <2> DEFINE j == IF k < r THEN k ELSE k + 1
             i == Nth(K, j)
  <2>1. j \in 1..n /\ j # r /\ (j < r => j = k) /\ (j > r => j = k + 1)
    BY <1>1, <1>7
  <2>2. i \in K /\ Rank(K, i) = j /\ (j < r => i < m) /\ (j > r => i > m)
    BY <1>6, <1>7, <2>1
  <2>3. j < r \/ j > r
    BY <1>1, <1>7, <2>1
  <2> HIDE DEF j, i
  <2>4. i \in M
    BY <1>1, <1>4, <1>7, <2>2, <2>3
  <2>5. Rank(M, i) = k
    <3>1. k \in Int
      OBVIOUS
    <3> QED BY <1>5, <2>1, <2>2, <2>3, <2>4, <3>1
  <2>6. Nth(M, Rank(M, i)) = i
    BY <1>5, <2>4, NthProperties
  <2> QED BY <2>5, <2>6 DEF i, j
<1>12. H = [k \in 1..n - 1 |-> s[Nth(M, k)]]
  BY <1>2, <1>5
<1>13. ASSUME NEW k \in 1..n - 1 PROVE s[Nth(M, k)] = IF k < r THEN F[k] ELSE F[k + 1]
  <2>1. k \in 1..n /\ k + 1 \in 1..n
    BY <1>1
  <2>2. F[k] = s[Nth(K, k)] /\ F[k + 1] = s[Nth(K, k + 1)]
    BY <1>1, <2>1
  <2> QED BY <1>11, <2>2
<1>14. H = [k \in 1..n - 1 |-> IF k < r THEN F[k] ELSE F[k + 1]]
  BY <1>12, <1>13
<1>15. TakenOut(s, T, m, F, r, H)
  BY <1>1, <1>7, <1>8, <1>9, <1>10, <1>14 DEF TakenOut
<1> QED BY <1>15 DEF F, H
=============================================================================
