---------------------------- MODULE OrdersProofs ----------------------------
(***************************************************************************)
(* What sorting, filtering and cutting return, for every finite set, order *)
(* and sequence.                                                           *)
(***************************************************************************)
EXTENDS Orders, FiniteSetTheorems, TLAPS

\* R is a strict total order of S.
Orders(R, S) ==
    /\ \A d \in S : <<d, d>> \notin R
    /\ \A d, e \in S : d # e => <<d, e>> \in R \/ <<e, d>> \in R
    /\ \A d, e, f \in S : <<d, e>> \in R /\ <<e, f>> \in R => <<d, f>> \in R

\* A list of some elements of S, none of them twice.
Lists(seq, S) == seq \in Seq(S) /\ Distinct(seq)

-----------------------------------------------------------------------------
\* How much comes before each element.
Counts(S, R) == [d \in S |-> Cardinality(Preceding(S, R, d))]

\* Less comes before an element than before one that it precedes.
LEMMA CountsGrow ==
    ASSUME NEW S, IsFiniteSet(S), NEW R, Orders(R, S)
    PROVE  /\ Cardinality(S) \in Nat
           /\ Counts(S, R) \in [S -> 0 .. (Cardinality(S) - 1)]
           /\ \A d, e \in S : <<d, e>> \in R => Counts(S, R)[d] < Counts(S, R)[e]
<1>1. Cardinality(S) \in Nat
  BY FS_CardinalityType
<1>2. ASSUME NEW d \in S
      PROVE  /\ IsFiniteSet(Preceding(S, R, d))
             /\ Cardinality(Preceding(S, R, d)) \in 0 .. (Cardinality(S) - 1)
  <2> DEFINE P == Preceding(S, R, d)
  <2>1. P \in SUBSET S /\ d \notin P
    BY DEF Orders, Preceding
  <2> HIDE DEF P
  <2>2. P # S
    BY <2>1
  <2>3. IsFiniteSet(P) /\ Cardinality(P) <= Cardinality(S) /\ Cardinality(P) # Cardinality(S)
    BY <2>1, <2>2, FS_Subset
  <2>4. Cardinality(P) \in Nat
    BY <2>3, FS_CardinalityType
  <2>5. Cardinality(P) \in 0 .. (Cardinality(S) - 1)
    BY <1>1, <2>3, <2>4
  <2> QED
    BY <2>3, <2>5 DEF P
<1>3. ASSUME NEW d \in S, NEW e \in S, <<d, e>> \in R
      PROVE  Cardinality(Preceding(S, R, d)) < Cardinality(Preceding(S, R, e))
  <2> DEFINE P == Preceding(S, R, d)
             Q == Preceding(S, R, e)
  <2>1. P \in SUBSET Q /\ d \in Q /\ d \notin P
    BY <1>3 DEF Orders, Preceding
  <2>2. IsFiniteSet(Q) /\ Cardinality(P) \in Nat /\ Cardinality(Q) \in Nat
    BY <1>1, <1>2
  <2> HIDE DEF P, Q
  <2>3. Cardinality(P) <= Cardinality(Q) /\ (Cardinality(P) = Cardinality(Q) => P = Q)
    BY <2>1, <2>2, FS_Subset
  <2>4. Cardinality(P) < Cardinality(Q)
    BY <2>1, <2>2, <2>3
  <2> QED
    BY <2>4 DEF P, Q
<1> QED
  BY <1>1, <1>2, <1>3 DEF Counts

\* Counting numbers the elements from 0.
LEMMA CountsNumber ==
    ASSUME NEW S, IsFiniteSet(S), NEW R, Orders(R, S)
    PROVE  /\ \A d, e \in S : Counts(S, R)[d] = Counts(S, R)[e] => d = e
           /\ \A k \in 0 .. (Cardinality(S) - 1) : \E d \in S : Counts(S, R)[d] = k
<1> DEFINE count == Counts(S, R)
           D == 0 .. (Cardinality(S) - 1)
<1>1. /\ Cardinality(S) \in Nat
      /\ count \in [S -> D]
      /\ \A d, e \in S : <<d, e>> \in R => count[d] < count[e]
  BY CountsGrow
<1>2. D \subseteq Nat
  BY <1>1
<1>3. IsFiniteSet(D) /\ Cardinality(D) = Cardinality(S)
  BY <1>1, FS_Interval
<1> HIDE DEF count, D
<1>4. ASSUME NEW d \in S, NEW e \in S, d # e PROVE count[d] # count[e]
  <2>1. count[d] \in Nat /\ count[e] \in Nat
    BY <1>1, <1>2
  <2>2. <<d, e>> \in R \/ <<e, d>> \in R
    BY <1>4 DEF Orders
  <2> QED
    BY <1>1, <2>1, <2>2
<1>5. count \in Injection(S, D)
  BY <1>1, <1>4 DEF Injection, IsInjective
<1>6. count \in Surjection(S, D)
  BY <1>3, <1>5, FS_Injection
<1>7. \A k \in D : \E d \in S : count[d] = k
  BY <1>6 DEF Surjection
<1> QED
  BY <1>4, <1>7 DEF count, D

\* sorted(): every element once, in the order.
LEMMA InOrderSorts ==
    ASSUME NEW S, IsFiniteSet(S), NEW R, Orders(R, S)
    PROVE  /\ Cardinality(S) \in Nat
           /\ Lists(InOrder(S, R), S)
           /\ Elements(InOrder(S, R)) = S
           /\ Len(InOrder(S, R)) = Cardinality(S)
           /\ \A i, j \in 1 .. Cardinality(S) :
                 i < j => <<InOrder(S, R)[i], InOrder(S, R)[j]>> \in R
<1> DEFINE count == Counts(S, R)
           n == Cardinality(S)
           seq == InOrder(S, R)
<1>1. n \in Nat /\ count \in [S -> 0 .. (n - 1)]
  BY CountsGrow
<1>2. \A d, e \in S : <<d, e>> \in R => count[d] < count[e]
  BY CountsGrow
<1>3. /\ \A d, e \in S : count[d] = count[e] => d = e
      /\ \A k \in 0 .. (n - 1) : \E d \in S : count[d] = k
  BY CountsNumber
<1>4. ASSUME NEW i \in 1 .. n
      PROVE  seq[i] = (CHOOSE d \in S : Cardinality(Preceding(S, R, d)) = i - 1)
  BY DEF InOrder
<1>5. ASSUME NEW i \in 1 .. n PROVE seq[i] \in S /\ count[seq[i]] = i - 1
  <2>1. i - 1 \in 0 .. (n - 1)
    BY <1>1
  <2>2. PICK d \in S : count[d] = i - 1
    BY <1>3, <2>1
  <2>3. Cardinality(Preceding(S, R, d)) = i - 1
    BY <2>2 DEF Counts
  <2>4. seq[i] \in S /\ Cardinality(Preceding(S, R, seq[i])) = i - 1
    BY <1>4, <2>3
  <2> QED
    BY <2>4 DEF Counts
<1>6. seq = [i \in 1 .. n |-> seq[i]]
  BY DEF InOrder
<1> HIDE DEF count, n, seq
<1>7. seq \in [1 .. n -> S]
  BY <1>5, <1>6
<1>8. seq \in Seq(S) /\ Len(seq) = n
  BY <1>1, <1>7
<1>9. Distinct(seq)
  <2> SUFFICES ASSUME NEW i \in 1 .. n, NEW j \in 1 .. n, seq[i] = seq[j] PROVE i = j
    BY <1>8 DEF Distinct
  <2>1. i - 1 = j - 1
    BY <1>5
  <2> QED
    BY <1>1, <2>1
<1>10. ASSUME NEW d \in S PROVE \E i \in 1 .. n : seq[i] = d
  <2>1. count[d] \in 0 .. (n - 1)
    BY <1>1
  <2>2. count[d] + 1 \in 1 .. n /\ (count[d] + 1) - 1 = count[d]
    BY <1>1, <2>1
  <2>3. count[seq[count[d] + 1]] = count[d] /\ seq[count[d] + 1] \in S
    BY <1>5, <2>2
  <2> QED
    BY <1>3, <2>2, <2>3
<1>11. Elements(seq) = S
  BY <1>5, <1>8, <1>10 DEF Elements
<1>12. ASSUME NEW i \in 1 .. n, NEW j \in 1 .. n, i < j PROVE <<seq[i], seq[j]>> \in R
  <2>1. /\ seq[i] \in S /\ seq[j] \in S
        /\ count[seq[i]] = i - 1 /\ count[seq[j]] = j - 1
    BY <1>5
  <2>2. count[seq[i]] < count[seq[j]] /\ ~(count[seq[j]] < count[seq[i]])
    BY <1>1, <1>12, <2>1
  <2>3. seq[i] # seq[j]
    BY <2>2, <1>12, <2>1
  <2>4. <<seq[j], seq[i]>> \notin R
    BY <1>2, <2>1, <2>2
  <2> QED
    BY <2>1, <2>3, <2>4 DEF Orders
<1> QED
  BY <1>1, <1>8, <1>9, <1>11, <1>12 DEF Lists, n, seq

-----------------------------------------------------------------------------
\* The rank of an element is the position it stands at.
LEMMA RankStands ==
    ASSUME NEW S, NEW seq, Lists(seq, S)
    PROVE  /\ Len(seq) \in Nat
           /\ Elements(seq) \subseteq S
           /\ \A d \in Elements(seq) : Rank(seq, d) \in 1 .. Len(seq) /\ seq[Rank(seq, d)] = d
           /\ \A i \in 1 .. Len(seq) : seq[i] \in Elements(seq) /\ Rank(seq, seq[i]) = i
<1>1. Len(seq) \in Nat /\ \A i \in 1 .. Len(seq) : seq[i] \in S
  BY DEF Lists
<1>2. ASSUME NEW d \in Elements(seq)
      PROVE  Rank(seq, d) \in 1 .. Len(seq) /\ seq[Rank(seq, d)] = d
  BY <1>2 DEF Elements, Rank
<1>3. ASSUME NEW i \in 1 .. Len(seq)
      PROVE  seq[i] \in Elements(seq) /\ Rank(seq, seq[i]) = i
  <2>1. seq[i] \in Elements(seq)
    BY DEF Elements
  <2>2. seq[Rank(seq, seq[i])] = seq[i] /\ Rank(seq, seq[i]) \in 1 .. Len(seq)
    BY <1>2, <2>1
  <2> QED
    BY <2>1, <2>2 DEF Lists, Distinct
<1> QED
  BY <1>1, <1>2, <1>3 DEF Elements

\* In a sorted list the ranks are the order.
LEMMA RanksAreOrder ==
    ASSUME NEW S, IsFiniteSet(S), NEW R, Orders(R, S), NEW d \in S, NEW e \in S
    PROVE  Rank(InOrder(S, R), d) < Rank(InOrder(S, R), e) <=> <<d, e>> \in R
<1> DEFINE seq == InOrder(S, R)
<1>1. /\ Lists(seq, S) /\ Elements(seq) = S /\ Len(seq) = Cardinality(S)
      /\ Cardinality(S) \in Nat
      /\ \A i, j \in 1 .. Cardinality(S) : i < j => <<seq[i], seq[j]>> \in R
  BY InOrderSorts
<1> HIDE DEF seq
<1>2. /\ Rank(seq, d) \in 1 .. Len(seq) /\ seq[Rank(seq, d)] = d
      /\ Rank(seq, e) \in 1 .. Len(seq) /\ seq[Rank(seq, e)] = e
  BY <1>1, RankStands
<1>3. Rank(seq, d) < Rank(seq, e) => <<d, e>> \in R
  BY <1>1, <1>2
<1>4. Rank(seq, e) < Rank(seq, d) => <<e, d>> \in R
  BY <1>1, <1>2
<1>5. <<d, e>> \in R => <<e, d>> \notin R /\ d # e
  BY DEF Orders
<1>6. Rank(seq, d) = Rank(seq, e) => d = e
  BY <1>2
<1>7. Rank(seq, d) \in Nat /\ Rank(seq, e) \in Nat
  BY <1>1, <1>2
<1>8. Rank(seq, d) < Rank(seq, e) <=> <<d, e>> \in R
  BY <1>3, <1>4, <1>5, <1>6, <1>7
<1> QED
  BY <1>8 DEF seq

\* A finite set of numbers, smallest first.
LEMMA IncreasingSorts ==
    ASSUME NEW n \in Nat, NEW I, I \subseteq 1 .. n
    PROVE  /\ Cardinality(I) \in Nat
           /\ Increasing(I) \in [1 .. Cardinality(I) -> I]
           /\ \A k, l \in 1 .. Cardinality(I) : k < l => Increasing(I)[k] < Increasing(I)[l]
           /\ \A i \in I : \E k \in 1 .. Cardinality(I) : Increasing(I)[k] = i
<1> DEFINE R == {p \in I \X I : p[1] < p[2]}
           at == InOrder(I, R)
<1>1. IsFiniteSet(I)
  <2>1. IsFiniteSet(1 .. n)
    BY FS_Interval
  <2> QED
    BY <2>1, FS_Subset
<1>2. \A i, j \in I : <<i, j>> \in R <=> i < j
  OBVIOUS
<1>3. Orders(R, I)
  BY <1>2 DEF Orders
<1>4. /\ Cardinality(I) \in Nat
      /\ Lists(at, I) /\ Elements(at) = I /\ Len(at) = Cardinality(I)
      /\ \A i, j \in 1 .. Cardinality(I) : i < j => <<at[i], at[j]>> \in R
  BY <1>1, <1>3, InOrderSorts
<1>5. Increasing(I) = at
  BY DEF Increasing
<1> HIDE DEF R, at
<1>6. at \in [1 .. Cardinality(I) -> I]
  BY <1>4 DEF Lists
<1>7. \A k, l \in 1 .. Cardinality(I) : k < l => at[k] < at[l]
  BY <1>2, <1>4, <1>6
<1>8. \A i \in I : \E k \in 1 .. Cardinality(I) : at[k] = i
  BY <1>4 DEF Elements
<1> QED
  BY <1>4, <1>5, <1>6, <1>7, <1>8

\* The smallest of some numbers.
LEMMA LeastIsFirst ==
    ASSUME NEW n \in Nat, NEW I, I \subseteq 1 .. n, I # {}
    PROVE  \E i \in I : \A j \in I : i <= j
<1> DEFINE at == Increasing(I)
<1>1. /\ Cardinality(I) \in Nat
      /\ at \in [1 .. Cardinality(I) -> I]
      /\ \A k, l \in 1 .. Cardinality(I) : k < l => at[k] < at[l]
      /\ \A i \in I : \E k \in 1 .. Cardinality(I) : at[k] = i
  BY IncreasingSorts
<1> HIDE DEF at
<1>2. 1 \in 1 .. Cardinality(I) /\ at[1] \in I
  <2>1. PICK k \in 1 .. Cardinality(I) : TRUE
    BY <1>1
  <2>2. 1 \in 1 .. Cardinality(I)
    BY <1>1, <2>1
  <2> QED
    BY <1>1, <2>2
<1>3. ASSUME NEW j \in I PROVE at[1] <= j
  <2>1. PICK k \in 1 .. Cardinality(I) : at[k] = j
    BY <1>1
  <2>2. k = 1 \/ 1 < k
    OBVIOUS
  <2>3. at[1] \in 1 .. n /\ j \in 1 .. n
    BY <1>2
  <2> QED
    BY <1>1, <1>2, <2>1, <2>2, <2>3
<1> QED
  BY <1>2, <1>3

\* An interval is increasing as it stands.
LEMMA IntervalIncreases ==
    ASSUME NEW a \in Nat, NEW b \in Nat
    PROVE  /\ Cardinality(a + 1 .. a + b) = b
           /\ \A k \in 1 .. b : Increasing(a + 1 .. a + b)[k] = a + k
<1> DEFINE I == a + 1 .. a + b
           R == {p \in I \X I : p[1] < p[2]}
<1>1. Cardinality(I) = b
  BY FS_Interval
<1>2. ASSUME NEW d \in I PROVE Cardinality(Preceding(I, R, d)) = d - a - 1
  <2>1. Preceding(I, R, d) = a + 1 .. d - 1
    BY DEF Preceding
  <2>2. Cardinality(a + 1 .. d - 1) = d - a - 1
    BY FS_Interval
  <2> QED
    BY <2>1, <2>2
<1>3. Increasing(I) = [i \in 1 .. Cardinality(I) |->
                         CHOOSE d \in I : Cardinality(Preceding(I, R, d)) = i - 1]
  BY DEF Increasing, InOrder
<1>4. ASSUME NEW k \in 1 .. b PROVE Increasing(I)[k] = a + k
  <2>1. Increasing(I)[k] = CHOOSE d \in I : Cardinality(Preceding(I, R, d)) = k - 1
    BY <1>1, <1>3
  <2>2. \A d \in I : d \in Int
    OBVIOUS
  <2>3. a + k \in I
    OBVIOUS
  <2> HIDE DEF I, R
  <2>4. \A d \in I : Cardinality(Preceding(I, R, d)) = k - 1 <=> d = a + k
    BY <1>2, <2>2
  <2> QED
    BY <2>1, <2>3, <2>4
<1> QED
  BY <1>1, <1>4

\* What stands at some positions, in their order.
LEMMA PickStands ==
    ASSUME NEW S, NEW seq \in Seq(S), NEW I, I \subseteq 1 .. Len(seq)
    PROVE  /\ Cardinality(I) \in Nat
           /\ Pick(seq, I) \in Seq(S)
           /\ Len(Pick(seq, I)) = Cardinality(I)
           /\ \A k \in 1 .. Cardinality(I) : Pick(seq, I)[k] = seq[Increasing(I)[k]]
<1>1. Len(seq) \in Nat
  OBVIOUS
<1>2. Cardinality(I) \in Nat /\ Increasing(I) \in [1 .. Cardinality(I) -> I]
  BY <1>1, IncreasingSorts
<1>3. ASSUME NEW k \in 1 .. Cardinality(I) PROVE seq[Increasing(I)[k]] \in S
  <2>1. Increasing(I)[k] \in 1 .. Len(seq)
    BY <1>2
  <2> QED
    BY <2>1
<1>4. Pick(seq, I) = [k \in 1 .. Cardinality(I) |-> seq[Increasing(I)[k]]]
  BY DEF Pick
<1> QED
  BY <1>2, <1>3, <1>4

LEMMA PickInterval ==
    ASSUME NEW S, NEW seq \in Seq(S), NEW a \in Nat, NEW b \in Nat, a + b <= Len(seq)
    PROVE  Pick(seq, a + 1 .. a + b) = [k \in 1 .. b |-> seq[a + k]]
<1>1. /\ Cardinality(a + 1 .. a + b) = b
      /\ \A k \in 1 .. b : Increasing(a + 1 .. a + b)[k] = a + k
  BY IntervalIncreases
<1> DEFINE I == a + 1 .. a + b
<1> HIDE DEF I
<1>2. Pick(seq, I) = [k \in 1 .. Cardinality(I) |-> seq[Increasing(I)[k]]]
  BY DEF Pick
<1>3. Pick(seq, I) = [k \in 1 .. b |-> seq[a + k]]
  BY <1>1, <1>2 DEF I
<1> QED
  BY <1>3 DEF I

\* [d for d in seq if d in T]: the same elements in the same order.
LEMMA SiftKeeps ==
    ASSUME NEW S, NEW seq, Lists(seq, S), NEW T
    PROVE  /\ Lists(Sift(seq, T), S)
           /\ Elements(Sift(seq, T)) = Elements(seq) \cap T
           /\ \A d, e \in Elements(Sift(seq, T)) :
                 Rank(Sift(seq, T), d) < Rank(Sift(seq, T), e) <=> Rank(seq, d) < Rank(seq, e)
<1> DEFINE I == {i \in 1 .. Len(seq) : seq[i] \in T}
           n == Cardinality(I)
           at == Increasing(I)
           s == Sift(seq, T)
<1>1. seq \in Seq(S) /\ Len(seq) \in Nat
  BY DEF Lists
<1>2. /\ I \subseteq 1 .. Len(seq)
      /\ \A i \in I : seq[i] \in T
      /\ \A i \in 1 .. Len(seq) : seq[i] \in T => i \in I
  OBVIOUS
<1>3. s = [k \in 1 .. n |-> seq[at[k]]]
  BY DEF Sift, Pick
<1> HIDE DEF I, n, s, at
<1>4. /\ n \in Nat /\ at \in [1 .. n -> I]
      /\ \A k, l \in 1 .. n : k < l => at[k] < at[l]
      /\ \A i \in I : \E k \in 1 .. n : at[k] = i
  BY <1>1, <1>2, IncreasingSorts DEF n, at
<1>5. ASSUME NEW k \in 1 .. n
      PROVE  at[k] \in 1 .. Len(seq) /\ seq[at[k]] \in T /\ seq[at[k]] \in S
  <2>1. at[k] \in I
    BY <1>4
  <2>2. at[k] \in 1 .. Len(seq) /\ seq[at[k]] \in T
    BY <1>2, <2>1
  <2> QED
    BY <1>1, <2>2
<1>6. \A i \in 1 .. Len(seq) : seq[i] \in T => \E k \in 1 .. n : at[k] = i
  BY <1>2, <1>4
<1>7. s \in Seq(S) /\ Len(s) = n /\ \A k \in 1 .. n : s[k] = seq[at[k]]
  BY <1>3, <1>4, <1>5
<1>8. ASSUME NEW k \in 1 .. n, NEW l \in 1 .. n
      PROVE  /\ at[k] < at[l] <=> k < l
             /\ at[k] = at[l] <=> k = l
  <2>1. k \in Nat /\ l \in Nat /\ at[k] \in Nat /\ at[l] \in Nat
    BY <1>1, <1>4, <1>5
  <2>2. (k < l => at[k] < at[l]) /\ (l < k => at[l] < at[k])
    BY <1>4
  <2> QED
    BY <2>1, <2>2
<1>9. Distinct(s)
  <2> SUFFICES ASSUME NEW k \in 1 .. n, NEW l \in 1 .. n, s[k] = s[l] PROVE k = l
    BY <1>7 DEF Distinct
  <2>1. at[k] = at[l]
    BY <1>5, <1>7 DEF Lists, Distinct
  <2> QED
    BY <1>8, <2>1
<1>10. Lists(s, S)
  BY <1>7, <1>9 DEF Lists
<1>11. Elements(s) = Elements(seq) \cap T
  <2>1. Elements(s) \subseteq Elements(seq) \cap T
    BY <1>5, <1>7 DEF Elements
  <2>2. ASSUME NEW d \in Elements(seq) \cap T PROVE d \in Elements(s)
    <3>1. PICK i \in 1 .. Len(seq) : seq[i] = d
      BY DEF Elements
    <3>2. PICK k \in 1 .. n : at[k] = i
      BY <1>6, <3>1
    <3> QED
      BY <1>7, <3>1, <3>2 DEF Elements
  <2> QED
    BY <2>1, <2>2
<1>12. ASSUME NEW d \in Elements(s)
       PROVE  Rank(s, d) \in 1 .. n /\ Rank(seq, d) = at[Rank(s, d)]
  <2>1. Rank(s, d) \in 1 .. n /\ s[Rank(s, d)] = d
    BY <1>7, <1>10, RankStands
  <2>2. seq[at[Rank(s, d)]] = d /\ at[Rank(s, d)] \in 1 .. Len(seq)
    BY <1>5, <1>7, <2>1
  <2>3. Rank(seq, seq[at[Rank(s, d)]]) = at[Rank(s, d)]
    BY <2>2, RankStands
  <2> QED
    BY <2>1, <2>2, <2>3
<1>13. \A d, e \in Elements(s) : Rank(s, d) < Rank(s, e) <=> Rank(seq, d) < Rank(seq, e)
  BY <1>8, <1>12
<1> QED
  BY <1>10, <1>11, <1>13 DEF s

\* seq[:n]: the elements of the first n ranks, at these ranks.
LEMMA CutKeeps ==
    ASSUME NEW S, NEW seq, Lists(seq, S), NEW n \in Nat
    PROVE  /\ Lists(Cut(seq, n), S)
           /\ Len(Cut(seq, n)) = IF n < Len(seq) THEN n ELSE Len(seq)
           /\ Elements(Cut(seq, n)) = {d \in Elements(seq) : Rank(seq, d) <= n}
           /\ \A d \in Elements(Cut(seq, n)) : Rank(Cut(seq, n), d) = Rank(seq, d)
<1> DEFINE m == IF n < Len(seq) THEN n ELSE Len(seq)
           s == Cut(seq, n)
<1>1. seq \in Seq(S) /\ Len(seq) \in Nat
  BY DEF Lists
<1>2. /\ m \in Nat /\ m <= Len(seq) /\ m <= n
      /\ \A i \in 1 .. Len(seq) : i <= n => i <= m
  BY <1>1
<1>3. s = SubSeq(seq, 1, m)
  BY DEF Cut
<1> HIDE DEF m, s
<1>4. s \in Seq(S) /\ Len(s) = m /\ \A i \in 1 .. m : s[i] = seq[i]
  BY <1>1, <1>2, <1>3
<1>5. Lists(s, S)
  BY <1>1, <1>2, <1>4 DEF Lists, Distinct
<1>6. ASSUME NEW d \in Elements(s)
      PROVE  d \in Elements(seq) /\ Rank(s, d) = Rank(seq, d) /\ Rank(seq, d) <= n
  <2>1. Rank(s, d) \in 1 .. m /\ s[Rank(s, d)] = d
    BY <1>4, <1>5, RankStands
  <2>2. Rank(s, d) \in 1 .. Len(seq) /\ seq[Rank(s, d)] = d /\ Rank(s, d) <= n
    BY <1>1, <1>2, <1>4, <2>1
  <2> QED
    BY <2>2, RankStands
<1>7. ASSUME NEW d \in Elements(seq), Rank(seq, d) <= n PROVE d \in Elements(s)
  <2>1. Rank(seq, d) \in 1 .. Len(seq) /\ seq[Rank(seq, d)] = d
    BY RankStands
  <2>2. Rank(seq, d) \in 1 .. m
    BY <1>1, <1>2, <1>7, <2>1
  <2> QED
    BY <1>4, <2>1, <2>2 DEF Elements
<1>8. Elements(s) = {d \in Elements(seq) : Rank(seq, d) <= n}
  BY <1>6, <1>7
<1> QED
  BY <1>4, <1>5, <1>6, <1>8 DEF s, m

\* Two lists that share nothing, one after the other.
LEMMA JoinKeeps ==
    ASSUME NEW S, NEW s, NEW t, Lists(s, S), Lists(t, S), Elements(s) \cap Elements(t) = {}
    PROVE  /\ Lists(s \o t, S)
           /\ Elements(s \o t) = Elements(s) \cup Elements(t)
<1>1. /\ s \in Seq(S) /\ t \in Seq(S) /\ Len(s) \in Nat /\ Len(t) \in Nat
  BY DEF Lists
<1>2. /\ s \o t \in Seq(S) /\ Len(s \o t) = Len(s) + Len(t)
      /\ \A i \in 1 .. Len(s \o t) :
            \/ i \in 1 .. Len(s) /\ (s \o t)[i] = s[i]
            \/ i - Len(s) \in 1 .. Len(t) /\ (s \o t)[i] = t[i - Len(s)]
      /\ \A i \in 1 .. Len(s) : (s \o t)[i] = s[i]
      /\ \A i \in 1 .. Len(t) : (s \o t)[Len(s) + i] = t[i]
  BY <1>1
<1>3. \A i \in 1 .. Len(s), j \in 1 .. Len(t) : s[i] # t[j]
  BY DEF Elements
<1>4. Distinct(s \o t)
  <2> SUFFICES ASSUME NEW i \in 1 .. Len(s \o t), NEW j \in 1 .. Len(s \o t),
                      (s \o t)[i] = (s \o t)[j]
               PROVE  i = j
    BY DEF Distinct
  <2>1. CASE i \in 1 .. Len(s) /\ (s \o t)[i] = s[i]
    <3>1. ~(j - Len(s) \in 1 .. Len(t) /\ (s \o t)[j] = t[j - Len(s)])
      BY <1>3, <2>1
    <3>2. j \in 1 .. Len(s) /\ (s \o t)[j] = s[j]
      BY <1>2, <3>1
    <3> QED
      BY <2>1, <3>2 DEF Lists, Distinct
  <2>2. CASE i - Len(s) \in 1 .. Len(t) /\ (s \o t)[i] = t[i - Len(s)]
    <3>1. ~(j \in 1 .. Len(s) /\ (s \o t)[j] = s[j])
      BY <1>3, <2>2
    <3>2. j - Len(s) \in 1 .. Len(t) /\ (s \o t)[j] = t[j - Len(s)]
      BY <1>2, <3>1
    <3>3. i - Len(s) = j - Len(s)
      BY <2>2, <3>2 DEF Lists, Distinct
    <3> QED
      BY <1>1, <1>2, <3>3
  <2> QED
    BY <1>2, <2>1, <2>2
<1>5. Elements(s \o t) \subseteq Elements(s) \cup Elements(t)
  <2> SUFFICES ASSUME NEW i \in 1 .. Len(s \o t)
               PROVE  (s \o t)[i] \in Elements(s) \cup Elements(t)
    BY DEF Elements
  <2> QED
    BY <1>2 DEF Elements
<1>6. Elements(s) \subseteq Elements(s \o t)
  <2> SUFFICES ASSUME NEW i \in 1 .. Len(s) PROVE s[i] \in Elements(s \o t)
    BY DEF Elements
  <2>1. i \in 1 .. Len(s \o t) /\ (s \o t)[i] = s[i]
    BY <1>1, <1>2
  <2> QED
    BY <2>1 DEF Elements
<1>7. Elements(t) \subseteq Elements(s \o t)
  <2> SUFFICES ASSUME NEW i \in 1 .. Len(t) PROVE t[i] \in Elements(s \o t)
    BY DEF Elements
  <2>1. Len(s) + i \in 1 .. Len(s \o t) /\ (s \o t)[Len(s) + i] = t[i]
    BY <1>1, <1>2
  <2> QED
    BY <2>1 DEF Elements
<1> QED
  BY <1>2, <1>4, <1>5, <1>6, <1>7 DEF Lists

\* One element taken out of the middle leaves the others in their order.
LEMMA DropKeeps ==
    ASSUME NEW S, NEW s \in Seq(S), NEW t \in Seq(S), t # <<>>,
           NEW u, u = s \o t, NEW v, v = s \o Tail(t), Lists(u, S)
    PROVE  /\ Lists(v, S)
           /\ \A d : d \in Elements(v) <=> d \in Elements(u) /\ d # Head(t)
           /\ Head(t) \in Elements(u)
           /\ Len(u) = Len(v) + 1
           /\ \A d, e \in Elements(v) : Rank(u, d) < Rank(u, e) => Rank(v, d) < Rank(v, e)
<1> DEFINE h == Len(s) + 1
<1>1. /\ Len(s) \in Nat /\ Len(t) \in Nat /\ Len(t) > 0
      /\ Tail(t) \in Seq(S) /\ Len(Tail(t)) = Len(t) - 1
      /\ \A i \in 1 .. Len(t) - 1 : Tail(t)[i] = t[i + 1]
  OBVIOUS
<1>2. /\ u \in Seq(S) /\ v \in Seq(S)
      /\ Len(u) = Len(s) + Len(t) /\ Len(v) = Len(u) - 1
      /\ h \in 1 .. Len(u) /\ u[h] = Head(t)
  BY <1>1
<1>3. /\ \A i \in 1 .. Len(v) : i < h => v[i] = u[i]
      /\ \A i \in 1 .. Len(v) : i >= h => v[i] = u[i + 1]
  BY <1>1, <1>2
<1> HIDE DEF h
<1>4. Len(u) \in Nat /\ Len(v) \in Nat /\ h \in Nat /\ Len(u) = Len(v) + 1
  BY <1>2
<1> DEFINE at(i) == IF i < h THEN i ELSE i + 1
<1>5. ASSUME NEW i \in 1 .. Len(v)
      PROVE  at(i) \in 1 .. Len(u) /\ at(i) # h /\ v[i] = u[at(i)]
  BY <1>3, <1>4
<1>6. Lists(u, S)
  OBVIOUS
<1>7. Distinct(v)
  <2> SUFFICES ASSUME NEW i \in 1 .. Len(v), NEW j \in 1 .. Len(v), v[i] = v[j] PROVE i = j
    BY DEF Distinct
  <2>1. at(i) = at(j)
    BY <1>5, <1>6 DEF Lists, Distinct
  <2> QED
    BY <1>4, <2>1
<1>8. Lists(v, S)
  BY <1>2, <1>7 DEF Lists
<1>9. ASSUME NEW d \in Elements(v)
      PROVE  /\ Rank(v, d) \in 1 .. Len(v) /\ d \in Elements(u)
             /\ Rank(u, d) = at(Rank(v, d)) /\ d # Head(t)
  <2>1. Rank(v, d) \in 1 .. Len(v) /\ v[Rank(v, d)] = d
    BY <1>8, RankStands
  <2>2. at(Rank(v, d)) \in 1 .. Len(u) /\ u[at(Rank(v, d))] = d /\ at(Rank(v, d)) # h
    BY <1>5, <2>1
  <2> HIDE DEF at
  <2>3. Rank(u, d) = at(Rank(v, d)) /\ d \in Elements(u)
    <3>1. \A i \in 1 .. Len(u) : u[i] \in Elements(u) /\ Rank(u, u[i]) = i
      BY <1>6, RankStands
    <3> QED
      BY <2>2, <3>1
  <2>4. d # u[h]
    BY <1>2, <1>6, <2>2 DEF Lists, Distinct
  <2> QED
    BY <1>2, <2>1, <2>3, <2>4
<1>10. ASSUME NEW d \in Elements(u), d # Head(t) PROVE d \in Elements(v)
  <2>1. PICK i \in 1 .. Len(u) : u[i] = d
    BY DEF Elements
  <2>2. i # h
    BY <1>2, <1>10, <2>1
  <2>3. CASE i < h
    <3>1. i \in 1 .. Len(v)
      BY <1>2, <1>4, <2>3
    <3>2. v[i] = d
      BY <1>3, <2>1, <2>3, <3>1
    <3> QED
      BY <3>1, <3>2 DEF Elements
  <2>4. CASE i > h
    <3>1. i - 1 \in 1 .. Len(v) /\ i - 1 >= h /\ (i - 1) + 1 = i
      BY <1>2, <1>4, <2>4
    <3>2. v[i - 1] = d
      BY <1>3, <2>1, <3>1
    <3> QED
      BY <3>1, <3>2 DEF Elements
  <2> QED
    BY <1>4, <2>2, <2>3, <2>4
<1>11. \A d : d \in Elements(v) <=> d \in Elements(u) /\ d # Head(t)
  BY <1>9, <1>10
<1>12. Head(t) \in Elements(u)
  BY <1>2 DEF Elements
<1>13. ASSUME NEW d \in Elements(v), NEW e \in Elements(v), Rank(u, d) < Rank(u, e)
       PROVE  Rank(v, d) < Rank(v, e)
  <2>1. at(Rank(v, d)) < at(Rank(v, e)) /\ Rank(v, d) \in Nat /\ Rank(v, e) \in Nat
    BY <1>4, <1>9, <1>13
  <2> QED
    BY <1>4, <2>1
<1> QED
  BY <1>4, <1>8, <1>11, <1>12, <1>13
=============================================================================
