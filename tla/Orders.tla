------------------------------- MODULE Orders -------------------------------
(***************************************************************************)
(* Lists as Python and SQL make them: sorted, filtered and cut.  They are  *)
(* defined by counting what comes before an element, without recursion.    *)
(***************************************************************************)
EXTENDS Integers, FiniteSets, Sequences

\* The elements of a sequence, and whether none is repeated.
Elements(seq) == {seq[i] : i \in 1 .. Len(seq)}
Distinct(seq) == \A i, j \in 1 .. Len(seq) : seq[i] = seq[j] => i = j

\* The position of an element.
Rank(seq, d) == CHOOSE i \in 1 .. Len(seq) : seq[i] = d

\* sorted(S), by a strict order that is given as a set of pairs.
Preceding(S, R, d) == {e \in S : <<e, d>> \in R}
InOrder(S, R) ==
    [i \in 1 .. Cardinality(S) |->
        CHOOSE d \in S : Cardinality(Preceding(S, R, d)) = i - 1]

\* What stands at some positions, and what is in a set, in its order.
Increasing(I) == InOrder(I, {p \in I \X I : p[1] < p[2]})
Pick(seq, I) == [k \in 1 .. Cardinality(I) |-> seq[Increasing(I)[k]]]
Sift(seq, S) == Pick(seq, {i \in 1 .. Len(seq) : seq[i] \in S})

\* seq[:n]
Cut(seq, n) == SubSeq(seq, 1, IF n < Len(seq) THEN n ELSE Len(seq))
=============================================================================
