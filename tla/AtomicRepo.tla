----------------------------- MODULE AtomicRepo -----------------------------
(***************************************************************************)
(* What a repository promises its writers: a batch is applied to the        *)
(* current records whole and in one step, or not at all, and each commit    *)
(* has a revision past the one before it.                                   *)
(***************************************************************************)
EXTENDS Integers, Sequences, SequencesExt

CONSTANTS
    Keys,       \* record paths
    Requests,   \* the batches clients may send
    Absent      \* the value of a path without a record

VARIABLES records, rev

Init == records = [k \in Keys |-> Absent] /\ rev = 0

Apply(recs, op) == [recs EXCEPT ![op.path] = op.value]
State(b, n) == FoldLeft(Apply, records, SubSeq(b, 1, n))

\* Only what is there can be deleted.
Applicable(b) ==
    \A i \in 1..Len(b) :
        b[i].action = "delete" => State(b, i - 1)[b[i].path] # Absent

Commit ==
    /\ \E b \in Requests : Applicable(b) /\ records' = State(b, Len(b))
    /\ rev' > rev

Spec == Init /\ [][Commit]_<<records, rev>>
=============================================================================
