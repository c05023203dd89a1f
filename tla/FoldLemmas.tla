----------------------------- MODULE FoldLemmas -----------------------------
(* Induction over finite sets, and least and greatest numbers, for what the *)
(* proofs need of folds over sequences.                                     *)
EXTENDS Integers, Sequences, FiniteSetsExt, FiniteSetTheorems, WellFoundedInduction, TLAPS

\* Induction over a finite set D, with the induction's property as a set G
\* of subsets: it contains the empty set, and a subset once it contains that
\* subset without some element.
LEMMA SubsetInduction ==
    ASSUME NEW D, IsFiniteSet(D), NEW G, {} \in G,
           \A s \in SUBSET D : s # {} => \E x \in s : s \ {x} \in G => s \in G
    PROVE  D \in G
<1> DEFINE T == {s \in FiniteSubsetsOf(D) : s \notin G}
<1>1. FiniteSubsetsOf(D) = SUBSET D
  BY FS_FiniteSubsetsOfFinite
<1>2. SUFFICES ASSUME T # {} PROVE FALSE
  BY <1>1
<1>3. PICK s \in T : \A u \in T : <<u, s>> \notin StrictSubsetOrdering(D)
  BY <1>2, WFMin, FS_StrictSubsetOrderingWellFounded
<1>4. s \in SUBSET D /\ s \notin G /\ s # {}
  BY <1>1, <1>3
<1>5. PICK x \in s : s \ {x} \in G => s \in G
  BY <1>4
<1>6. s \ {x} \in T
  BY <1>1, <1>4, <1>5
<1>7. <<s \ {x}, s>> \in StrictSubsetOrdering(D)
  BY <1>4, <1>5 DEF StrictSubsetOrdering
<1> QED
  BY <1>3, <1>6, <1>7

\* A set of positions has a first and a last one.
LEMMA FirstAndLast ==
    ASSUME NEW n \in Nat, NEW s \in SUBSET (1..n), s # {}
    PROVE  /\ Min(s) \in s /\ \A y \in s : Min(s) <= y
           /\ Max(s) \in s /\ \A y \in s : Max(s) >= y
<1>1. IsFiniteSet(1..n)
  BY FS_Interval
<1> DEFINE G == {u \in SUBSET (1..n) : u # {} => /\ \E x \in u : \A y \in u : x <= y
                                                 /\ \E x \in u : \A y \in u : x >= y}
<1>2. {} \in G
  OBVIOUS
<1>3. ASSUME NEW u \in SUBSET (1..n), NEW x \in u, u \ {x} \in G PROVE u \in G
  <2>1. CASE u \ {x} = {}
    <3>1. u = {x}
      BY <2>1
    <3>2. x \in Int
      OBVIOUS
    <3> QED
      BY <3>1, <3>2
  <2>2. CASE u \ {x} # {}
    <3>1. PICK a \in u \ {x} : \A y \in u \ {x} : a <= y
      BY <1>3, <2>2
    <3>2. PICK b \in u \ {x} : \A y \in u \ {x} : b >= y
      BY <1>3, <2>2
    <3>3. \E z \in u : \A y \in u : z <= y
      BY <3>1
    <3>4. \E z \in u : \A y \in u : z >= y
      BY <3>2
    <3> QED
      BY <3>3, <3>4
  <2> QED
    BY <2>1, <2>2
<1>4. IsFiniteSet(s)
  BY <1>1, FS_Subset
<1>5. \A u \in SUBSET s : u # {} => \E x \in u : u \ {x} \in G => u \in G
  BY <1>3
<1> HIDE DEF G
<1>6. s \in G
  BY <1>2, <1>4, <1>5, SubsetInduction
<1>7. (\E x \in s : \A y \in s : x <= y) /\ (\E x \in s : \A y \in s : x >= y)
  BY <1>6 DEF G
<1> QED
  BY <1>7 DEF Min, Max
=============================================================================
