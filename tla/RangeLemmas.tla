---------------------------- MODULE RangeLemmas ----------------------------
(* The elements of a sequence that grows and shrinks, for the proofs.       *)
EXTENDS Integers, Sequences, Functions, SequenceTheorems, TLAPS

\* The elements of a sequence after an Append.
LEMMA RangeAppend ==
    ASSUME NEW S, NEW q \in Seq(S), NEW e \in S
    PROVE  Append(q, e) \in Seq(S) /\ Range(Append(q, e)) = Range(q) \cup {e}
<1>1. /\ Append(q, e) \in Seq(S) /\ Len(Append(q, e)) = Len(q) + 1
      /\ \A i \in 1..Len(q) : Append(q, e)[i] = q[i]
      /\ Append(q, e)[Len(q) + 1] = e
  BY AppendProperties
<1>2. Range(Append(q, e)) = {Append(q, e)[i] : i \in 1..(Len(q) + 1)}
  BY <1>1 DEF Range
<1>3. Range(q) = {q[i] : i \in 1..Len(q)}
  BY DEF Range
<1>4. Len(q) \in Nat
  BY LenProperties
<1> QED
  BY <1>1, <1>2, <1>3, <1>4

\* The head of a sequence, the rest, and the elements of both.
LEMMA RangeTail ==
    ASSUME NEW S, NEW q \in Seq(S), q # <<>>
    PROVE  /\ Head(q) \in S /\ Tail(q) \in Seq(S)
           /\ Range(q) = {Head(q)} \cup Range(Tail(q))
<1>1. /\ Head(q) \in S /\ Tail(q) \in Seq(S) /\ Len(Tail(q)) = Len(q) - 1
      /\ \A i \in 1..Len(Tail(q)) : Tail(q)[i] = q[i + 1]
  BY HeadTailProperties
<1>2. Len(q) \in Nat /\ Len(q) > 0
  BY LenProperties, EmptySeq
<1>3. Head(q) = q[1]
  OBVIOUS
<1>4. Range(q) = {q[i] : i \in 1..Len(q)}
  BY DEF Range
<1>5. Range(Tail(q)) = {Tail(q)[i] : i \in 1..Len(Tail(q))}
  BY <1>1, RangeEquality
<1>6. \A i \in 1..Len(q) : i = 1 \/ (i - 1 \in 1..Len(Tail(q)) /\ Tail(q)[i - 1] = q[i])
  BY <1>1, <1>2
<1>7. Range(q) \subseteq {Head(q)} \cup Range(Tail(q))
  BY <1>3, <1>4, <1>5, <1>6
<1>8. {Head(q)} \cup Range(Tail(q)) \subseteq Range(q)
  <2>1. Head(q) \in Range(q)
    BY <1>2, <1>3, <1>4
  <2>2. \A i \in 1..Len(Tail(q)) : Tail(q)[i] \in Range(q)
    BY <1>1, <1>2, <1>4
  <2> QED
    BY <2>1, <2>2, <1>5
<1> QED
  BY <1>1, <1>7, <1>8
=============================================================================
