--------------------------- MODULE RepoBatchProofs ---------------------------
(***************************************************************************)
(* Proofs about what a whole batch does: its event leads back to the tree   *)
(* it was applied to, it is applied in one step, a proof read next to it is *)
(* complete, and a consumer of the events can tell whether it has them all. *)
(***************************************************************************)
EXTENDS RepoProofs, FoldLemmas

USE DEF tables, locals

\* The positions of s where the operations q touch path p.
At(q, s, p) == {i \in s : q[i].path = p}

-----------------------------------------------------------------------------
(* Undo as a function of the path: the first operation there decides. *)

Undone(t, q, s) ==
    [p \in Paths |-> IF At(q, s, p) = {} THEN t[p] ELSE q[Min(At(q, s, p))].prev]

\* Taking the first operation off a set of positions.
LEMMA UndoneStep ==
    ASSUME NEW t \in Trees, NEW q \in Seq(Results), NEW s \in SUBSET (1..Len(q)), s # {}
    PROVE  Undone(t, q, s) =
             [Undone(t, q, s \ {Min(s)}) EXCEPT ![q[Min(s)].path] = q[Min(s)].prev]
<1> DEFINE m == Min(s)
           u == s \ {m}
<1>1. Len(q) \in Nat
  BY LenProperties
<1>2. m \in s /\ \A y \in s : m <= y
  BY <1>1, FirstAndLast
<1>3. \A i \in s : i \in Int
  BY <1>1
<1>4. ASSUME NEW p \in Paths, p = q[m].path
      PROVE  At(q, s, p) # {} /\ Min(At(q, s, p)) = m
  <2>1. m \in At(q, s, p) /\ At(q, s, p) \in SUBSET (1..Len(q))
    BY <1>2, <1>4 DEF At
  <2>2. Min(At(q, s, p)) \in At(q, s, p) /\ \A y \in At(q, s, p) : Min(At(q, s, p)) <= y
    BY <1>1, <2>1, FirstAndLast
  <2>3. PICK k \in s : k = Min(At(q, s, p)) /\ k <= m
    BY <2>1, <2>2 DEF At
  <2>4. m <= k /\ k \in Int /\ m \in Int
    BY <1>2, <1>3
  <2> QED
    BY <2>1, <2>3, <2>4
<1>5. ASSUME NEW p \in Paths, p # q[m].path
      PROVE  At(q, s, p) = At(q, u, p)
  BY <1>5 DEF At
<1> HIDE DEF m, u
<1>6. \A p \in Paths : Undone(t, q, s)[p] =
                         IF p = q[m].path THEN q[m].prev ELSE Undone(t, q, u)[p]
  BY <1>4, <1>5 DEF Undone
<1>7. Undone(t, q, s) = [Undone(t, q, u) EXCEPT ![q[m].path] = q[m].prev]
  BY <1>6 DEF Undone
<1> QED
  BY <1>7 DEF m, u

\* Undo folds from the right; there is one function with the fold's equation.
LEMMA UndoClosed ==
    ASSUME NEW t \in Trees, NEW q \in Seq(Results)
    PROVE  Undo(t, q) = Undone(t, q, 1..Len(q))
<1> DEFINE D == DOMAIN q
           Body(f) == [s \in SUBSET D |->
                         IF s = {} THEN t
                         ELSE [f[s \ {Min(s)}] EXCEPT ![q[Min(s)].path] = q[Min(s)].prev]]
           c == [s \in SUBSET D |-> Undone(t, q, s)]
           f == CHOOSE f_ : f_ = Body(f_)
<1>1. D = 1..Len(q) /\ Len(q) \in Nat
  BY LenProperties
<1>2. Undo(t, q) = f[D]
  BY DEF Undo, FoldRight, MapThenFoldSet
<1>3. Undone(t, q, {}) = t
  BY DEF Undone, At, Trees
<1>4. c = Body(c)
  <2>1. ASSUME NEW s \in SUBSET D, s # {}
        PROVE  c[s] = [c[s \ {Min(s)}] EXCEPT ![q[Min(s)].path] = q[Min(s)].prev]
    <3>1. s \ {Min(s)} \in SUBSET D
      OBVIOUS
    <3> HIDE DEF D
    <3>2. c[s] = Undone(t, q, s) /\ c[s \ {Min(s)}] = Undone(t, q, s \ {Min(s)})
      BY <3>1
    <3> HIDE DEF c
    <3>3. s \in SUBSET (1..Len(q))
      BY <1>1
    <3>4. Undone(t, q, s) =
            [Undone(t, q, s \ {Min(s)}) EXCEPT ![q[Min(s)].path] = q[Min(s)].prev]
      BY <2>1, <3>3, UndoneStep
    <3> QED
      BY <3>2, <3>4
  <2>2. c[{}] = t
    BY <1>3
  <2> QED
    BY <2>1, <2>2
<1>5. f = Body(f)
  <2> HIDE DEF Body, c
  <2> QED
    BY <1>4
<1> DEFINE G == {s \in SUBSET D : f[s] = c[s]}
<1>6. {} \in G
  <2>1. f[{}] = t
    BY <1>5
  <2> HIDE DEF f
  <2> QED
    BY <1>3, <2>1
<1>7. ASSUME NEW s \in SUBSET D, s # {} PROVE \E x \in s : s \ {x} \in G => s \in G
  <2>1. Min(s) \in s
    BY <1>1, <1>7, FirstAndLast
  <2>2. /\ f[s] = [f[s \ {Min(s)}] EXCEPT ![q[Min(s)].path] = q[Min(s)].prev]
        /\ c[s] = [c[s \ {Min(s)}] EXCEPT ![q[Min(s)].path] = q[Min(s)].prev]
    <3> HIDE DEF f, c, D
    <3> QED
      BY <1>4, <1>5, <1>7
  <2>3. s \ {Min(s)} \in G => s \in G
    <3> HIDE DEF f, c, D
    <3> QED
      BY <2>2
  <2> QED
    BY <2>1, <2>3
<1>8. D \in G
  <2>1. IsFiniteSet(D)
    BY <1>1, FS_Interval
  <2> HIDE DEF G, D
  <2> QED
    BY <1>6, <1>7, <2>1, SubsetInduction
<1> QED
  <2>1. f[D] = c[D]
    <3> HIDE DEF f, c, D
    <3> QED
      BY <1>8
  <2>2. c[D] = Undone(t, q, D)
    OBVIOUS
  <2> QED
    BY <1>1, <1>2, <2>1, <2>2

\* Undoing nothing, and undoing a longer batch: its last operation first.
LEMMA UndoEmpty == ASSUME NEW t \in Trees PROVE Undo(t, <<>>) = t
<1>1. <<>> \in Seq(Results) /\ Len(<<>>) = 0
  OBVIOUS
<1>2. 1..0 = {}
  OBVIOUS
<1>3. Undo(t, <<>>) = Undone(t, <<>>, {})
  BY <1>1, <1>2, UndoClosed
<1> QED
  BY <1>3 DEF Undone, At, Trees

LEMMA UndoAppend ==
    ASSUME NEW t \in Trees, NEW q \in Seq(Results), NEW r \in Results
    PROVE  Undo(t, Append(q, r)) = Undo([t EXCEPT ![r.path] = r.prev], q)
<1> DEFINE a == Append(q, r)
           t2 == [t EXCEPT ![r.path] = r.prev]
           n == Len(q)
<1>1. /\ n \in Nat /\ a \in Seq(Results) /\ Len(a) = n + 1
      /\ a[n + 1] = r /\ \A i \in 1..n : a[i] = q[i]
  BY AppendProperties, LenProperties
<1>2. r.path \in Paths /\ r.prev \in Values \cup {None}
  BY DEF Results
<1>3. t2 \in Trees /\ \A p \in Paths : t2[p] = IF p = r.path THEN r.prev ELSE t[p]
  BY <1>2 DEF Trees
<1>4. Undo(t, a) = Undone(t, a, 1..(n + 1)) /\ Undo(t2, q) = Undone(t2, q, 1..n)
  BY <1>1, <1>3, UndoClosed
<1> HIDE DEF a, t2, n
<1>5. ASSUME NEW p \in Paths
      PROVE  Undone(t, a, 1..(n + 1))[p] = Undone(t2, q, 1..n)[p]
  <2> DEFINE A == At(a, 1..(n + 1), p)
             Q == At(q, 1..n, p)
  <2>1. /\ A \in SUBSET (1..(n + 1)) /\ Q \in SUBSET (1..n)
        /\ A = Q \cup (IF p = r.path THEN {n + 1} ELSE {})
    BY <1>1 DEF At
  <2>2. Undone(t, a, 1..(n + 1))[p] = IF A = {} THEN t[p] ELSE a[Min(A)].prev
    BY DEF Undone
  <2>3. Undone(t2, q, 1..n)[p] = IF Q = {} THEN t2[p] ELSE q[Min(Q)].prev
    BY DEF Undone
  <2> HIDE DEF A, Q
  <2>4. CASE Q # {}
    <3>1. Min(Q) \in Q /\ \A y \in Q : Min(Q) <= y
      BY <1>1, <2>1, <2>4, FirstAndLast
    <3>2. Min(A) \in A /\ \A y \in A : Min(A) <= y
      <4>1. n + 1 \in Nat /\ A # {}
        BY <1>1, <2>1, <2>4
      <4> QED
        BY <2>1, <4>1, FirstAndLast
    <3>3. PICK i \in 1..n : i = Min(Q) /\ i \in A
      BY <2>1, <3>1
    <3>4. PICK j \in 1..(n + 1) : j = Min(A) /\ j <= i
      BY <2>1, <3>2, <3>3
    <3>5. j \in Q
      BY <1>1, <2>1, <3>2, <3>3, <3>4
    <3>6. i = j
      BY <1>1, <3>1, <3>3, <3>4, <3>5
    <3> QED
      BY <1>1, <2>1, <2>2, <2>3, <2>4, <3>3, <3>4, <3>6
  <2>5. CASE Q = {} /\ p = r.path
    <3>1. A = {n + 1}
      BY <2>1, <2>5
    <3>2. Min(A) = n + 1
      <4>1. n + 1 \in Nat /\ A # {}
        BY <1>1, <3>1
      <4>2. Min(A) \in A
        BY <2>1, <4>1, FirstAndLast
      <4> QED
        BY <3>1, <4>2
    <3> QED
      BY <1>1, <1>3, <2>2, <2>3, <2>5, <3>1, <3>2
  <2>6. CASE Q = {} /\ p # r.path
    BY <1>3, <2>1, <2>2, <2>3, <2>6
  <2> QED
    BY <2>4, <2>5, <2>6
<1>6. Undone(t, a, 1..(n + 1)) = Undone(t2, q, 1..n)
  BY <1>5 DEF Undone
<1> QED
  BY <1>4, <1>6 DEF a, t2

-----------------------------------------------------------------------------
(* Play: the last operation on a path decides *)

LEMMA PlayEmpty == ASSUME NEW t \in Trees PROVE Play(t, <<>>) = t
<1>1. \A p \in Paths : {k \in 1..Len(<<>>) : <<>>[k].path = p} = {}
  OBVIOUS
<1>2. Play(t, <<>>) = [p \in Paths |-> t[p]]
  BY <1>1 DEF Play
<1> QED
  BY <1>2 DEF Trees

LEMMA PlayAppend ==
    ASSUME NEW t \in Trees, NEW q \in Seq(Results), NEW r \in Results
    PROVE  Play(t, Append(q, r)) = [Play(t, q) EXCEPT ![r.path] = r.cid]
<1> DEFINE a == Append(q, r)
           n == Len(q)
           A(p) == {k \in 1..Len(a) : a[k].path = p}
           Q(p) == {k \in 1..Len(q) : q[k].path = p}
<1>1. /\ n \in Nat /\ Len(a) = n + 1 /\ a[n + 1] = r
      /\ \A k \in 1..n : a[k] = q[k]
  BY LenProperties
<1>2. r.path \in Paths
  BY DEF Results
<1>3. /\ Play(t, a) = [p \in Paths |-> IF A(p) = {} THEN t[p] ELSE a[Max(A(p))].cid]
      /\ Play(t, q) = [p \in Paths |-> IF Q(p) = {} THEN t[p] ELSE q[Max(Q(p))].cid]
  BY DEF Play
<1>4. \A p \in Paths : A(p) \in SUBSET (1..(n + 1)) /\ Q(p) \in SUBSET (1..n)
  BY <1>1
<1>5. A(r.path) # {} /\ a[Max(A(r.path))].cid = r.cid
  <2>1. n + 1 \in A(r.path) /\ n + 1 \in Nat
    BY <1>1
  <2>2. A(r.path) \in SUBSET (1..(n + 1))
    BY <1>2, <1>4
  <2> HIDE DEF A, n, a
  <2>3. Max(A(r.path)) \in A(r.path) /\ \A y \in A(r.path) : Max(A(r.path)) >= y
    BY <2>1, <2>2, FirstAndLast
  <2>4. PICK k \in 1..(n + 1) : k = Max(A(r.path)) /\ k >= n + 1
    BY <2>1, <2>2, <2>3
  <2>5. k = n + 1
    BY <1>1, <2>4
  <2> QED
    BY <1>1, <2>1, <2>4, <2>5
<1>6. ASSUME NEW p \in Paths, p # r.path
      PROVE  A(p) = Q(p) /\ (Q(p) # {} => a[Max(Q(p))] = q[Max(Q(p))])
  <2>1. A(p) = Q(p)
    BY <1>1, <1>6
  <2>2. Q(p) \in SUBSET (1..n)
    BY <1>4
  <2> HIDE DEF A, Q, n, a
  <2>3. Q(p) # {} => Max(Q(p)) \in Q(p)
    BY <1>1, <2>2, FirstAndLast
  <2> QED
    BY <1>1, <2>1, <2>2, <2>3
<1> HIDE DEF A, Q, a
<1> QED
  <2>1. \A p \in Paths : Play(t, a)[p] = IF p = r.path THEN r.cid ELSE Play(t, q)[p]
    BY <1>2, <1>3, <1>5, <1>6
  <2>2. DOMAIN Play(t, a) = Paths /\ DOMAIN Play(t, q) = Paths
    BY DEF Play
  <2>3. Play(t, a) = [p \in Paths |-> Play(t, a)[p]]
    BY DEF Play
  <2>4. [Play(t, q) EXCEPT ![r.path] = r.cid] =
          [p \in Paths |-> IF p = r.path THEN r.cid ELSE Play(t, q)[p]]
    BY <1>2, <2>2
  <2>5. Play(t, a) = [Play(t, q) EXCEPT ![r.path] = r.cid]
    BY <2>1, <2>3, <2>4
  <2> QED
    BY <2>5 DEF a

-----------------------------------------------------------------------------
(* Events lead to the tree they report, and back to the one they follow *)

\* A writer that has its event to append: it has just committed, or waits for
\* itself alone.
LEMMA EmitStays ==
    ASSUME TypeOK, [Next]_vars, NEW w \in Writers, pc'[w] = "emit"
    PROVE  \/ CommitWrite(w)
           \/ /\ pc[w] = "emit" /\ made'[w] = made[w] /\ base'[w] = base[w]
              /\ results'[w] = results[w]
<1> DEFINE Kept == /\ pc[w] = "emit" /\ made'[w] = made[w] /\ base'[w] = base[w]
                   /\ results'[w] = results[w]
<1>a. /\ w \in Actors /\ Writers \subseteq Actors /\ Importers \subseteq Actors
      /\ Readers \subseteq Actors /\ pc \in [Actors -> PcStates]
      /\ base \in [Writers \cup Readers -> Commits] /\ results \in [Writers -> Seq(Results)]
      /\ made \in [Writers \cup Importers -> [commit : Commits, rec : SUBSET Values]]
  BY DEF Actors, TypeOK
<1>b. Writers \cap Importers = {} /\ Writers \cap Readers = {}
  BY ActorsAssumption
<1> USE <1>a, <1>b DEF Goto
<1>0. ASSUME NEW a \in Actors, Return(a) PROVE Kept
  BY <1>0 DEF Return
<1>1. ASSUME NEW x \in Writers, StartWrite(x) \/ StartPut(x) \/ AcquireLock(x) PROVE Kept
  BY <1>1 DEF StartWrite, StartPut, AcquireLock
<1>2. ASSUME NEW x \in Writers, ReadRoot(x) \/ LoadTree(x) \/ BeginWrite(x) PROVE Kept
  BY <1>2 DEF ReadRoot, LoadTree, BeginWrite
<1>3. ASSUME NEW x \in Writers, ApplyDelete(x) \/ ApplyUpsert(x) PROVE Kept
  <2>1. pc[x] = "tx" /\ \E op : Applied(x, op)
    BY <1>3 DEF ApplyDelete, ApplyUpsert
  <2> QED
    BY <2>1 DEF Applied
<1>4. ASSUME NEW x \in Writers, CommitWrite(x) PROVE x = w \/ Kept
  <2>1. /\ pc' = [pc EXCEPT ![x] = "emit"] /\ base' = base /\ results' = results
        /\ \E m : made' = [made EXCEPT ![x] = m]
    BY <1>4 DEF CommitWrite
  <2> QED
    BY <2>1
<1>5. ASSUME NEW x \in Actors,
             Abort(x) \/ EmitCommit(x) \/ EmitFails(x) \/ AbortImport(x) \/ EmitSync(x)
                \/ ReadAllBlocks(x)
      PROVE  Kept
  BY <1>0, <1>5 DEF Abort, EmitCommit, EmitFails, AbortImport, EmitSync, ReadAllBlocks
<1>6. ASSUME NEW i \in Importers, BeginImport(i) PROVE Kept
  BY <1>6 DEF BeginImport
<1>7. ASSUME NEW i \in Importers, CommitImport(i) PROVE Kept
  <2>1. /\ pc' = [pc EXCEPT ![i] = "emit"] /\ base' = base /\ results' = results
        /\ \E m : made' = [made EXCEPT ![i] = m]
    BY <1>7 DEF CommitImport
  <2> QED
    BY <2>1
<1>8. ASSUME NEW r \in Readers, ReadRepoRoot(r) PROVE Kept
  BY <1>8 DEF ReadRepoRoot
<1>9. ASSUME Crash PROVE FALSE
  BY <1>9 DEF Crash, AtRest
<1>10. ASSUME UNCHANGED vars PROVE Kept
  BY <1>10 DEF vars
<1> HIDE DEF Kept
<1> QED
  BY <1>1, <1>2, <1>3, <1>4, <1>5, <1>6, <1>7, <1>8, <1>9, <1>10
     DEF Next, Write, Import, Read, Kept

\* The log grows by the event of a write or an import, or not at all.
LEMMA LogChange ==
    ASSUME [Next]_vars
    PROVE  \/ log' = log
           \/ \E w \in Writers : EmitCommit(w)
           \/ \E i \in Importers :
                 pc[i] = "emit" /\ \E c : log' = Append(log, [kind |-> "sync", commit |-> c])
<1> DEFINE P == \/ log' = log
                \/ \E w \in Writers : EmitCommit(w)
                \/ \E i \in Importers :
                      pc[i] = "emit" /\ \E c : log' = Append(log, [kind |-> "sync", commit |-> c])
<1>1. ASSUME NEW w \in Writers, Write(w) PROVE P
  BY <1>1 DEF Write, StartWrite, StartPut, AcquireLock, ReadRoot, LoadTree, BeginWrite,
     ApplyDelete, ApplyUpsert, Applied, CommitWrite, Abort, EmitFails
<1>2. ASSUME NEW i \in Importers, Import(i) PROVE P
  BY <1>2 DEF Import, BeginImport, CommitImport, AbortImport, EmitSync, EmitFails
<1>3. ASSUME NEW r \in Readers, Read(r) PROVE P
  BY <1>3 DEF Read, ReadRepoRoot, ReadAllBlocks
<1>4. ASSUME Crash \/ UNCHANGED vars PROVE P
  BY <1>4 DEF Crash, vars
<1> QED
  BY <1>1, <1>2, <1>3, <1>4 DEF Next

\* One operation on the tree and the results, undone.
LEMMA AppliedReverses ==
    ASSUME TypeOK, NEW w \in Writers, NEW op \in Ops, req[w] # <<>>, Applied(w, op),
           NEW rec, Reverses(tree[w], results[w], base[w], rec),
           NEW more, rec \cup ({op.value} \ {None}) \subseteq more
    PROVE  Reverses(tree'[w], results'[w], base'[w], more)
<1> DEFINE r == [action |-> op.action, path |-> op.path, cid |-> op.value,
                 prev |-> tree[w][op.path]]
           t == [tree[w] EXCEPT ![op.path] = op.value]
<1>1. /\ tree[w] \in Trees /\ results[w] \in Seq(Results)
      /\ op.path \in Paths /\ op.value \in Values \cup {None} /\ op.action \in Actions
  BY DEF TypeOK, Ops, Actions
<1>2. tree'[w] = t /\ results'[w] = Append(results[w], r) /\ base'[w] = base[w]
  BY DEF Applied, TypeOK
<1>3. t \in Trees /\ r \in Results
  BY <1>1 DEF Trees, Results
<1>4. [t EXCEPT ![r.path] = r.prev] = tree[w]
  BY <1>1 DEF Trees
<1>5. Undo(t, Append(results[w], r)) = Undo(tree[w], results[w])
  <2> HIDE DEF t, r
  <2>1. Undo(t, Append(results[w], r)) = Undo([t EXCEPT ![r.path] = r.prev], results[w])
    BY <1>1, <1>3, UndoAppend
  <2> QED
    BY <1>4, <2>1
<1>6. Range(t) \subseteq Range(tree[w]) \cup {op.value}
  BY <1>1, TreeRange
<1>7. Play(base[w].tree, Append(results[w], r)) = t
  <2>1. base[w].tree \in Trees /\ Play(base[w].tree, results[w]) = tree[w]
    BY DEF Reverses, TypeOK, Commits
  <2>2. Play(base[w].tree, Append(results[w], r)) = [tree[w] EXCEPT ![r.path] = r.cid]
    <3> HIDE DEF r
    <3> QED
      BY <1>1, <1>3, <2>1, PlayAppend
  <2> QED
    BY <2>2
<1> HIDE DEF t, r
<1> QED
  BY <1>2, <1>5, <1>6, <1>7 DEF Reverses

\* What a batch has done to the tree can be undone, in the transaction and
\* until its event is appended.
LEMMA ReverseStep ==
    TypeOK /\ ConnInv /\ TreeInv /\ ReverseInv /\ [Next]_vars => ReverseInv'
<1> SUFFICES ASSUME TypeOK, ConnInv, TreeInv, ReverseInv, [Next]_vars, NEW w \in Writers
             PROVE  /\ pc'[w] = "tx" => Reverses(tree'[w], results'[w], base'[w], txn'.rec)
                    /\ pc'[w] = "emit" =>
                          /\ Reverses(made'[w].commit.tree, results'[w], base'[w], made'[w].rec)
                          /\ base'[w].rev < made'[w].commit.rev
  BY DEF ReverseInv
<1>1. ASSUME pc'[w] = "tx" PROVE Reverses(tree'[w], results'[w], base'[w], txn'.rec)
  <2>1. CASE BeginWrite(w)
    <3>1. /\ tree'[w] = base[w].tree /\ base'[w] = base[w] /\ results'[w] = <<>>
          /\ tree[w] \in Trees /\ tree[w] = base[w].tree
      BY <2>1 DEF BeginWrite, TreeInv, TypeOK
    <3>2. Undo(tree[w], <<>>) = tree[w] /\ Play(tree[w], <<>>) = tree[w]
      BY <3>1, UndoEmpty, PlayEmpty
    <3> QED
      BY <3>1, <3>2 DEF Reverses
  <2>2. CASE ApplyDelete(w) \/ ApplyUpsert(w)
    <3> DEFINE op == Head(req[w])
    <3>1. /\ pc[w] = "tx" /\ req[w] # <<>> /\ Applied(w, op)
          /\ \/ op.action = "delete" /\ txn'.rec = txn.rec
             \/ txn'.rec = txn.rec \cup {op.value}
      BY <2>2 DEF ApplyDelete, ApplyUpsert, TypeOK
    <3>2. op \in Ops
      BY <3>1, RangeTail DEF TypeOK
    <3>3. op.action = "delete" => op.value = None
      BY <3>2, ValuesAssumption DEF Ops
    <3>4. txn.rec \cup ({op.value} \ {None}) \subseteq txn'.rec
      BY <3>1, <3>3
    <3>5. Reverses(tree[w], results[w], base[w], txn.rec)
      BY <3>1 DEF ReverseInv
    <3> HIDE DEF op
    <3> QED
      BY <3>1, <3>2, <3>4, <3>5, AppliedReverses
  <2>3. CASE /\ pc[w] = "tx" /\ txn' = txn /\ tree'[w] = tree[w]
             /\ base'[w] = base[w] /\ results'[w] = results[w]
    BY <2>3 DEF ReverseInv
  <2> QED
    BY <1>1, <2>1, <2>2, <2>3, TxnStays
<1>2. ASSUME pc'[w] = "emit"
      PROVE  /\ Reverses(made'[w].commit.tree, results'[w], base'[w], made'[w].rec)
             /\ base'[w].rev < made'[w].commit.rev
  <2>1. CASE CommitWrite(w)
    <3>1. PICK rev \in (base[w].rev + 1)..MaxRev :
            made' = [made EXCEPT ![w] = [commit |-> [tree |-> tree[w], rev |-> rev],
                                         rec |-> txn.rec]]
      BY <2>1 DEF CommitWrite, NextRev
    <3>2. pc[w] = "tx" /\ base' = base /\ results' = results /\ w \in Writers \cup Importers
      BY <2>1 DEF CommitWrite
    <3>3. /\ made'[w].commit.tree = tree[w] /\ made'[w].commit.rev = rev
          /\ made'[w].rec = txn.rec
      BY <3>1, <3>2 DEF TypeOK
    <3>4. base[w].rev < rev
      <4>1. base[w].rev \in Nat
        BY DEF TypeOK, Commits
      <4> QED
        BY <3>1, <4>1, BoundsAssumption
    <3> QED
      BY <3>2, <3>3, <3>4 DEF ReverseInv
  <2>2. CASE /\ pc[w] = "emit" /\ made'[w] = made[w] /\ base'[w] = base[w]
             /\ results'[w] = results[w]
    BY <2>2 DEF ReverseInv
  <2> QED
    BY <1>2, <2>1, <2>2, EmitStays
<1> QED
  BY <1>1, <1>2

\* Every event in the log was right when it was appended.
LEMMA EventsStep ==
    TypeOK /\ ReverseInv /\ EventsInvert /\ EventsApply /\ [Next]_vars
        => EventsInvert' /\ EventsApply'
<1> SUFFICES ASSUME TypeOK, ReverseInv, EventsInvert, EventsApply, [Next]_vars
             PROVE  EventsInvert' /\ EventsApply'
  OBVIOUS
<1> DEFINE Right(e) ==
             e.kind = "commit" =>
                /\ Undo(e.commit.tree, e.ops) = e.since.tree
                /\ Play(e.since.tree, e.ops) = e.commit.tree
                /\ Range(e.commit.tree) \ Range(e.since.tree) \subseteq e.rec \cup {None}
                /\ e.since.rev < e.commit.rev
<1>1. \A i \in 1..Len(log) : Right(log[i])
  BY DEF EventsInvert, EventsApply
<1>2. TypeOK'
  BY TypeStep
<1>3. ASSUME NEW e, Right(e), log' = Append(log, e)
      PROVE  \A i \in 1..Len(log') : Right(log'[i])
  <2> HIDE DEF Right
  <2>1. PICK n \in Nat : n = Len(log)
    BY LenProperties DEF TypeOK
  <2>2. /\ Len(log') = n + 1 /\ log'[n + 1] = e
        /\ \A i \in 1..n : log'[i] = log[i]
    BY <1>3, <2>1 DEF TypeOK
  <2> QED
    BY <1>1, <1>3, <2>1, <2>2
<1>4. ASSUME NEW w \in Writers, EmitCommit(w) PROVE \A i \in 1..Len(log') : Right(log'[i])
  <2> DEFINE e == [kind |-> "commit", commit |-> made[w].commit, rec |-> made[w].rec,
                   since |-> base[w], ops |-> results[w]]
  <2>1. log' = Append(log, e) /\ pc[w] = "emit"
    BY <1>4 DEF EmitCommit
  <2>2. Right(e)
    BY <2>1 DEF ReverseInv, Reverses
  <2> HIDE DEF Right, e
  <2> QED
    BY <1>3, <2>1, <2>2
<1>5. ASSUME NEW c, log' = Append(log, [kind |-> "sync", commit |-> c])
      PROVE  \A i \in 1..Len(log') : Right(log'[i])
  <2> DEFINE e == [kind |-> "sync", commit |-> c]
  <2>1. Right(e) /\ log' = Append(log, e)
    BY <1>5
  <2> HIDE DEF Right, e
  <2> QED
    BY <1>3, <2>1
<1>6. \A i \in 1..Len(log') : Right(log'[i])
  <2> HIDE DEF Right
  <2> QED
    BY <1>1, <1>4, <1>5, LogChange
<1> QED
  BY <1>6 DEF EventsInvert, EventsApply

-----------------------------------------------------------------------------
(* A batch as a function of the path: the last operation there decides *)

Done(t, q, s) ==
    [p \in Paths |-> IF At(q, s, p) = {} THEN t[p] ELSE q[Max(At(q, s, p))].value]

\* Applying the last operation of a set of positions.
LEMMA DoneStep ==
    ASSUME NEW t \in Trees, NEW q \in Seq(Ops), NEW s \in SUBSET (1..Len(q)), s # {}
    PROVE  Done(t, q, s) =
             [Done(t, q, s \ {Max(s)}) EXCEPT ![q[Max(s)].path] = q[Max(s)].value]
<1> DEFINE m == Max(s)
           u == s \ {m}
<1>1. Len(q) \in Nat
  BY LenProperties
<1>2. m \in s /\ \A y \in s : m >= y
  BY <1>1, FirstAndLast
<1>3. \A i \in s : i \in Int
  BY <1>1
<1>4. ASSUME NEW p \in Paths, p = q[m].path
      PROVE  At(q, s, p) # {} /\ Max(At(q, s, p)) = m
  <2>1. m \in At(q, s, p) /\ At(q, s, p) \in SUBSET (1..Len(q))
    BY <1>2, <1>4 DEF At
  <2>2. Max(At(q, s, p)) \in At(q, s, p) /\ \A y \in At(q, s, p) : Max(At(q, s, p)) >= y
    BY <1>1, <2>1, FirstAndLast
  <2>3. PICK k \in s : k = Max(At(q, s, p)) /\ k >= m
    BY <2>1, <2>2 DEF At
  <2>4. m >= k /\ k \in Int /\ m \in Int
    BY <1>2, <1>3
  <2> QED
    BY <2>1, <2>3, <2>4
<1>5. ASSUME NEW p \in Paths, p # q[m].path
      PROVE  At(q, s, p) = At(q, u, p)
  BY <1>5 DEF At
<1> HIDE DEF m, u
<1>6. \A p \in Paths : Done(t, q, s)[p] =
                         IF p = q[m].path THEN q[m].value ELSE Done(t, q, u)[p]
  BY <1>4, <1>5 DEF Done
<1>7. Done(t, q, s) = [Done(t, q, u) EXCEPT ![q[m].path] = q[m].value]
  BY <1>6 DEF Done
<1> QED
  BY <1>7 DEF m, u

\* The abstract repository folds from the left, to the same function.
LEMMA ApplyClosed ==
    ASSUME NEW t \in Trees, NEW q \in Seq(Ops)
    PROVE  \A b, n : t = index /\ q = SubSeq(b, 1, n) => Atomic!State(b, n) = Done(t, q, 1..Len(q))
<1> DEFINE D == DOMAIN q
           Body(f) == [s \in SUBSET D |->
                         IF s = {} THEN t
                         ELSE [f[s \ {Max(s)}] EXCEPT ![q[Max(s)].path] = q[Max(s)].value]]
           c == [s \in SUBSET D |-> Done(t, q, s)]
           f == CHOOSE f_ : f_ = Body(f_)
<1>1. D = 1..Len(q) /\ Len(q) \in Nat
  BY LenProperties
<1>2. ASSUME NEW b, NEW n, t = index, q = SubSeq(b, 1, n) PROVE Atomic!State(b, n) = f[D]
  BY <1>2 DEF Atomic!State, Atomic!FoldLeft, Atomic!MapThenFoldSet, Atomic!Apply, Atomic!Max, Max
<1>3. Done(t, q, {}) = t
  BY DEF Done, At, Trees
<1>4. c = Body(c)
  <2>1. ASSUME NEW s \in SUBSET D, s # {}
        PROVE  c[s] = [c[s \ {Max(s)}] EXCEPT ![q[Max(s)].path] = q[Max(s)].value]
    <3>1. s \ {Max(s)} \in SUBSET D
      OBVIOUS
    <3> HIDE DEF D
    <3>2. c[s] = Done(t, q, s) /\ c[s \ {Max(s)}] = Done(t, q, s \ {Max(s)})
      BY <3>1
    <3> HIDE DEF c
    <3>3. s \in SUBSET (1..Len(q))
      BY <1>1
    <3>4. Done(t, q, s) =
            [Done(t, q, s \ {Max(s)}) EXCEPT ![q[Max(s)].path] = q[Max(s)].value]
      BY <2>1, <3>3, DoneStep
    <3> QED
      BY <3>2, <3>4
  <2>2. c[{}] = t
    BY <1>3
  <2> QED
    BY <2>1, <2>2
<1>5. f = Body(f)
  <2> HIDE DEF Body, c
  <2> QED
    BY <1>4
<1> DEFINE G == {s \in SUBSET D : f[s] = c[s]}
<1>6. {} \in G
  <2>1. f[{}] = t
    BY <1>5
  <2> HIDE DEF f
  <2> QED
    BY <1>3, <2>1
<1>7. ASSUME NEW s \in SUBSET D, s # {} PROVE \E x \in s : s \ {x} \in G => s \in G
  <2>1. Max(s) \in s
    BY <1>1, <1>7, FirstAndLast
  <2>2. /\ f[s] = [f[s \ {Max(s)}] EXCEPT ![q[Max(s)].path] = q[Max(s)].value]
        /\ c[s] = [c[s \ {Max(s)}] EXCEPT ![q[Max(s)].path] = q[Max(s)].value]
    <3> HIDE DEF f, c, D
    <3> QED
      BY <1>4, <1>5, <1>7
  <2>3. s \ {Max(s)} \in G => s \in G
    <3> HIDE DEF f, c, D
    <3> QED
      BY <2>2
  <2> QED
    BY <2>1, <2>3
<1>8. D \in G
  <2>1. IsFiniteSet(D)
    BY <1>1, FS_Interval
  <2> HIDE DEF G, D
  <2> QED
    BY <1>6, <1>7, <2>1, SubsetInduction
<1> QED
  <2>1. f[D] = c[D]
    <3> HIDE DEF f, c, D
    <3> QED
      BY <1>8
  <2>2. c[D] = Done(t, q, D)
    OBVIOUS
  <2> QED
    BY <1>1, <1>2, <2>1, <2>2

\* The state after n operations of a batch.
LEMMA StateClosed ==
    ASSUME index \in Trees, NEW b \in Seq(Ops), NEW n \in 0..Len(b)
    PROVE  Atomic!State(b, n) = Done(index, b, 1..n)
<1> DEFINE q == SubSeq(b, 1, n)
<1>1. Len(b) \in Nat
  BY LenProperties
<1>2. q \in Seq(Ops) /\ Len(q) = n /\ \A i \in 1..n : q[i] = b[i]
  BY <1>1, SubSeqProperties
<1>3. Atomic!State(b, n) = Done(index, q, 1..Len(q))
  BY <1>2, ApplyClosed
<1> HIDE DEF q
<1>4. Atomic!State(b, n) = Done(index, q, 1..n)
  BY <1>2, <1>3
<1>5. ASSUME NEW p \in Paths
      PROVE  Done(index, q, 1..n)[p] = Done(index, b, 1..n)[p]
  <2>1. At(q, 1..n, p) = At(b, 1..n, p)
    BY <1>2 DEF At
  <2>2. At(q, 1..n, p) # {} => Max(At(q, 1..n, p)) \in 1..n
    <3>1. n \in Nat /\ At(q, 1..n, p) \in SUBSET (1..n)
      BY DEF At
    <3> QED
      BY <3>1, FirstAndLast
  <2> QED
    BY <1>2, <2>1, <2>2 DEF Done
<1>6. Done(index, q, 1..n) = Done(index, b, 1..n)
  BY <1>5 DEF Done
<1> QED
  BY <1>4, <1>6

\* The state after none, and after one more.
LEMMA StateNext ==
    ASSUME index \in Trees, NEW b \in Seq(Ops)
    PROVE  /\ Atomic!State(b, 0) = index
           /\ \A n \in 0..(Len(b) - 1) :
                 Atomic!State(b, n + 1) =
                     [Atomic!State(b, n) EXCEPT ![b[n + 1].path] = b[n + 1].value]
<1>1. Len(b) \in Nat
  BY LenProperties
<1>2. Atomic!State(b, 0) = index
  <2>1. 1..0 = {} /\ 0 \in 0..Len(b)
    BY <1>1
  <2>2. Atomic!State(b, 0) = Done(index, b, {})
    BY <2>1, StateClosed
  <2> QED
    BY <2>2 DEF Done, At, Trees
<1>3. ASSUME NEW n \in 0..(Len(b) - 1)
      PROVE  Atomic!State(b, n + 1) =
                 [Atomic!State(b, n) EXCEPT ![b[n + 1].path] = b[n + 1].value]
  <2> DEFINE s == 1..(n + 1)
  <2>1. /\ n \in 0..Len(b) /\ n + 1 \in 0..Len(b) /\ n + 1 \in Nat
        /\ s \in SUBSET (1..Len(b)) /\ n + 1 \in s
    BY <1>1
  <2>2. Max(s) \in s /\ Max(s) >= n + 1
    BY <2>1, FirstAndLast
  <2>3. Max(s) = n + 1 /\ s \ {n + 1} = 1..n
    BY <2>2
  <2>4. Done(index, b, s) = [Done(index, b, s \ {Max(s)}) EXCEPT ![b[Max(s)].path] = b[Max(s)].value]
    <3>1. s # {}
      BY <2>1
    <3> HIDE DEF s
    <3> QED
      BY <2>1, <3>1, DoneStep
  <2> HIDE DEF s
  <2>5. Done(index, b, s) = [Done(index, b, 1..n) EXCEPT ![b[n + 1].path] = b[n + 1].value]
    BY <2>3, <2>4
  <2>6. Atomic!State(b, n) = Done(index, b, 1..n)
    BY <2>1, StateClosed
  <2>7. Atomic!State(b, n + 1) = Done(index, b, s)
    BY <2>1, StateClosed DEF s
  <2> QED
    BY <2>5, <2>6, <2>7
<1> QED
  BY <1>2, <1>3

-----------------------------------------------------------------------------
(* A transaction has applied a beginning of its request *)

\* Every request a client sends is a sequence of operations.
LEMMA RequestType == \A b \in Requests : b \in Seq(Ops)
<1>1. \A b \in Puts : \E act \in {"create", "update"}, p \in Paths, v \in Values :
          b = <<[action |-> act, path |-> p, value |-> v]>>
  BY DEF Puts
<1>2. \A b \in Puts : b \in Seq(Ops)
  BY <1>1, BatchType
<1> QED
  BY <1>2, BatchType DEF Requests

\* What a batch makes of the current records depends on the index alone.
LEMMA StateStays ==
    ASSUME index' = index
    PROVE  \A b, n : Atomic!State(b, n)' = Atomic!State(b, n)
BY DEF Atomic!State, Atomic!FoldLeft, Atomic!MapThenFoldSet, Atomic!Apply

\* A writer whose request is not finished: it has just received it, has applied
\* an operation, or has what it had.
LEMMA RequestStays ==
    ASSUME TypeOK, ConnInv, [Next]_vars, NEW w \in Writers,
           pc'[w] \in {"lock", "root", "load", "begin", "tx"}
    PROVE  \/ StartWrite(w) \/ StartPut(w) \/ ApplyDelete(w) \/ ApplyUpsert(w)
           \/ /\ pc[w] \in {"lock", "root", "load", "begin", "tx"} /\ req'[w] = req[w]
              /\ pc'[w] # "tx" => pc[w] # "tx"
<1> DEFINE Kept == /\ pc[w] \in {"lock", "root", "load", "begin", "tx"} /\ req'[w] = req[w]
                   /\ pc'[w] # "tx" => pc[w] # "tx"
<1>a. /\ w \in Actors /\ Writers \subseteq Actors /\ Importers \subseteq Actors
      /\ Readers \subseteq Actors /\ pc \in [Actors -> PcStates]
      /\ req \in [Writers -> Seq(Ops)]
  BY DEF Actors, TypeOK
<1>b. Writers \cap Importers = {} /\ Writers \cap Readers = {}
  BY ActorsAssumption
<1> USE <1>a, <1>b DEF Goto
<1>0. ASSUME NEW a \in Actors, Return(a) PROVE Kept
  BY <1>0 DEF Return
<1>1. ASSUME NEW x \in Writers, StartWrite(x) \/ StartPut(x) PROVE x = w \/ Kept
  BY <1>1 DEF StartWrite, StartPut
<1>2. ASSUME NEW x \in Writers, AcquireLock(x) \/ ReadRoot(x) \/ LoadTree(x) \/ BeginWrite(x)
      PROVE  Kept
  BY <1>2 DEF AcquireLock, ReadRoot, LoadTree, BeginWrite
<1>3. ASSUME NEW x \in Writers, ApplyDelete(x) \/ ApplyUpsert(x) PROVE x = w \/ Kept
  <2>1. pc' = pc /\ \E q : req' = [req EXCEPT ![x] = q]
    BY <1>3 DEF ApplyDelete, ApplyUpsert, Applied
  <2> QED
    BY <2>1
<1>4. ASSUME NEW x \in Writers \cup Importers, CommitWrite(x) \/ CommitImport(x) PROVE Kept
  <2>1. pc' = [pc EXCEPT ![x] = "emit"] /\ req' = req
    BY <1>4 DEF CommitWrite, CommitImport
  <2> QED
    BY <2>1
<1>5. ASSUME NEW x \in Actors,
             Abort(x) \/ EmitCommit(x) \/ EmitFails(x) \/ AbortImport(x) \/ EmitSync(x)
                \/ ReadAllBlocks(x)
      PROVE  Kept
  BY <1>0, <1>5 DEF Abort, EmitCommit, EmitFails, AbortImport, EmitSync, ReadAllBlocks
<1>6. ASSUME NEW i \in Importers, BeginImport(i) PROVE Kept
  BY <1>6 DEF BeginImport
<1>7. ASSUME NEW r \in Readers, ReadRepoRoot(r) PROVE Kept
  BY <1>7 DEF ReadRepoRoot
<1>8. ASSUME Crash PROVE FALSE
  BY <1>8 DEF Crash, AtRest
<1>9. ASSUME UNCHANGED vars PROVE Kept
  BY <1>9 DEF vars
<1> HIDE DEF Kept
<1> QED
  BY <1>1, <1>2, <1>3, <1>4, <1>5, <1>6, <1>7, <1>8, <1>9
     DEF Next, Write, Import, Read, Kept

\* Taking the first operation off what is left of a request.
LEMMA RestOfRequest ==
    ASSUME NEW b \in Seq(Ops), NEW n \in 0..Len(b), SubSeq(b, n + 1, Len(b)) # <<>>
    PROVE  /\ n + 1 \in 0..Len(b) /\ n \in 0..(Len(b) - 1)
           /\ Head(SubSeq(b, n + 1, Len(b))) = b[n + 1]
           /\ Tail(SubSeq(b, n + 1, Len(b))) = SubSeq(b, (n + 1) + 1, Len(b))
<1>1. Len(b) \in Nat
  BY LenProperties
<1>2. n # Len(b)
  <2>1. n = Len(b) => SubSeq(b, n + 1, Len(b)) = <<>>
    BY <1>1, SubSeqEmpty
  <2> QED
    BY <2>1
<1>3. n + 1 \in 1..Len(b) /\ Len(b) \in (n + 1)..Len(b)
  BY <1>1, <1>2
<1> QED
  BY <1>1, <1>2, <1>3, HeadTailOfSubSeq

\* Every transaction has applied a beginning of its request to the index.
LEMMA PrefixStep ==
    TypeOK /\ ConnInv /\ TxnInv /\ PrefixInv /\ [Next]_vars => PrefixInv'
<1> DEFINE Before(b, n, w) ==
             /\ req[w] = SubSeq(b, n + 1, Len(b))
             /\ txn.index = Atomic!State(b, n)
             /\ base[w] = root /\ ~RacedImport =>
                   \A i \in 1..n : b[i].action = "delete" =>
                       Atomic!State(b, i - 1)[b[i].path] # None
<1> SUFFICES ASSUME TypeOK, ConnInv, TxnInv, PrefixInv, [Next]_vars, NEW w \in Writers
             PROVE  /\ pc'[w] \in {"lock", "root", "load", "begin"} => req'[w] \in Requests
                    /\ pc'[w] = "tx" => \E b \in Requests : \E n \in 0..Len(b) : Before(b, n, w)'
  BY DEF PrefixInv
<1>0. /\ w \in Actors /\ pc \in [Actors -> PcStates] /\ req \in [Writers -> Seq(Ops)]
      /\ index \in Trees /\ tree[w] \in Trees
  BY DEF TypeOK, Actors
<1>1. pc[w] = "tx" => \E b \in Requests : \E n \in 0..Len(b) : Before(b, n, w)
  BY DEF PrefixInv
<1>2. ASSUME pc'[w] \in {"lock", "root", "load", "begin"} PROVE req'[w] \in Requests
  <2>1. CASE StartWrite(w)
    <3>1. \E b \in Batches : req' = [req EXCEPT ![w] = b]
      BY <2>1 DEF StartWrite
    <3> QED
      BY <1>0, <3>1 DEF Requests
  <2>2. CASE StartPut(w)
    <3>1. \E p \in Paths, v \in Values, act \in {"create", "update"} :
            req' = [req EXCEPT ![w] = <<[action |-> act, path |-> p, value |-> v]>>]
      BY <2>2 DEF StartPut
    <3>2. PICK b \in Puts : req' = [req EXCEPT ![w] = b]
      <4>1. PICK p \in Paths, v \in Values, act \in {"create", "update"} :
              req' = [req EXCEPT ![w] = <<[action |-> act, path |-> p, value |-> v]>>]
        BY <3>1
      <4>2. <<[action |-> act, path |-> p, value |-> v]>> \in Puts
        BY DEF Puts
      <4> QED
        BY <4>1, <4>2
    <3> QED
      BY <1>0, <3>2 DEF Requests
  <2>3. CASE ApplyDelete(w) \/ ApplyUpsert(w)
    BY <1>2, <2>3 DEF ApplyDelete, ApplyUpsert, Applied
  <2> HIDE DEF Before
  <2> QED
    BY <1>2, <2>1, <2>2, <2>3, RequestStays DEF PrefixInv
<1>3. ASSUME pc'[w] = "tx" PROVE \E b \in Requests : \E n \in 0..Len(b) : Before(b, n, w)'
  <2>1. CASE BeginWrite(w)
    <3>1. PICK b \in Requests : b = req[w]
      BY <2>1 DEF BeginWrite, PrefixInv
    <3>2. b \in Seq(Ops) /\ Len(b) \in Nat
      BY <3>1, RequestType, LenProperties
    <3>3. /\ req'[w] = b /\ txn'.index = index /\ index' = index
      BY <2>1, <3>1 DEF BeginWrite
    <3>4. SubSeq(b, 0 + 1, Len(b)) = b
      BY <3>2, SubSeqFull
    <3>5. Atomic!State(b, 0)' = index
      BY <1>0, <3>2, <3>3, StateNext, StateStays
    <3>6. \A i \in 1..0 : FALSE
      OBVIOUS
    <3>7. Before(b, 0, w)' /\ 0 \in 0..Len(b)
      BY <3>2, <3>3, <3>4, <3>5, <3>6
    <3> HIDE DEF Before
    <3> QED
      BY <3>7
  <2>2. CASE ApplyDelete(w) \/ ApplyUpsert(w)
    <3>1. PICK b \in Requests : \E n \in 0..Len(b) : Before(b, n, w)
      <4> HIDE DEF Before
      <4> QED
        BY <1>1, <2>2 DEF ApplyDelete, ApplyUpsert
    <3>2. PICK n \in 0..Len(b) : Before(b, n, w)
      BY <3>1
    <3>3. b \in Seq(Ops) /\ Len(b) \in Nat
      BY RequestType, LenProperties
    <3>4. /\ pc[w] = "tx" /\ req[w] # <<>> /\ Applied(w, Head(req[w]))
          /\ index' = index /\ root' = root /\ hist' = hist
          /\ Head(req[w]).action = "delete" => tree[w][Head(req[w]).path] # None
      BY <2>2 DEF ApplyDelete, ApplyUpsert, Applied
    <3>5. /\ n + 1 \in 0..Len(b) /\ n \in 0..(Len(b) - 1) /\ Head(req[w]) = b[n + 1]
          /\ Tail(req[w]) = SubSeq(b, (n + 1) + 1, Len(b))
      BY <3>2, <3>3, <3>4, RestOfRequest
    <3>6. req'[w] = Tail(req[w]) /\ base'[w] = base[w]
      BY <1>0, <3>4 DEF Applied
    <3>7. b[n + 1] \in Ops
      BY <3>3, <3>5, ElementOfSeq
    <3>8. txn'.index = [txn.index EXCEPT ![b[n + 1].path] = b[n + 1].value]
      <4>1. CASE ApplyDelete(w)
        <5>1. b[n + 1].value = None
          BY <3>5, <3>7, <4>1, ValuesAssumption DEF ApplyDelete, Ops
        <5>2. txn' = [txn EXCEPT !.index = [txn.index EXCEPT ![b[n + 1].path] = None],
                                 !.refs = {r \in txn.refs : r[2] # b[n + 1].path}]
          BY <3>5, <4>1 DEF ApplyDelete
        <5> QED
          BY <5>1, <5>2 DEF TypeOK
      <4>2. CASE ApplyUpsert(w)
        BY <3>5, <4>2 DEF ApplyUpsert, TypeOK
      <4> QED
        BY <2>2, <4>1, <4>2
    <3>9. txn'.index = Atomic!State(b, n + 1)'
      BY <1>0, <3>2, <3>3, <3>4, <3>5, <3>8, StateNext, StateStays
    <3>10. ASSUME base'[w] = root', ~RacedImport', NEW i \in 1..(n + 1), b[i].action = "delete"
           PROVE  Atomic!State(b, i - 1)'[b[i].path] # None
      <4>1. base[w] = root /\ ~RacedImport
        BY <3>4, <3>6, <3>10 DEF RacedImport, Raced
      <4>2. CASE i \in 1..n
        BY <3>2, <3>4, <3>10, <4>1, <4>2, StateStays
      <4>3. CASE i = n + 1
        <5>1. txn.index = tree[w]
          BY <3>4, <4>1 DEF TxnInv
        <5>2. Atomic!State(b, n)[b[n + 1].path] # None
          BY <3>2, <3>4, <3>5, <3>10, <4>3, <5>1
        <5>3. i - 1 = n
          BY <4>3
        <5> QED
          BY <3>4, <4>3, <5>2, <5>3, StateStays
      <4> QED
        BY <4>2, <4>3
    <3>11. Before(b, n + 1, w)'
      BY <3>5, <3>6, <3>9, <3>10
    <3> HIDE DEF Before
    <3> QED
      BY <3>5, <3>11
  <2>3. CASE /\ pc[w] = "tx" /\ txn' = txn /\ base'[w] = base[w] /\ req'[w] = req[w]
             /\ UNCHANGED <<index, root, hist>>
    <3>1. RacedImport' <=> RacedImport
      BY <2>3 DEF RacedImport, Raced
    <3>2. \A b, n : Before(b, n, w) => Before(b, n, w)'
      BY <2>3, <3>1, StateStays
    <3> HIDE DEF Before
    <3> QED
      BY <1>1, <2>3, <3>2
  <2>4. ~StartWrite(w) /\ ~StartPut(w)
    BY <1>0, <1>3 DEF StartWrite, StartPut, Goto
  <2> HIDE DEF Before
  <2> QED
    BY <1>3, <2>1, <2>2, <2>3, <2>4, TxnStays, RequestStays
<1> HIDE DEF Before
<1> QED
  BY <1>2, <1>3

-----------------------------------------------------------------------------
(* Events report commits *)

\* The history only grows, so what it records it goes on recording.
LEMMA RecordsStay ==
    ASSUME TypeOK, [Next]_vars
    PROVE  /\ \A c, b : (\E j \in 1..Len(hist) : Records(j, c, b))
                           => \E j \in 1..Len(hist') : Records(j, c, b)'
           /\ OnlyWrites' => OnlyWrites
<1> DEFINE Stay == /\ \A c, b : (\E j \in 1..Len(hist) : Records(j, c, b))
                                   => \E j \in 1..Len(hist') : Records(j, c, b)'
                   /\ OnlyWrites' => OnlyWrites
<1>1. CASE UNCHANGED <<blocks, index, refs, metas, root, hist>>
  BY <1>1 DEF Records, OnlyWrites
<1>2. ASSUME NEW e \in HistEntries, hist' = Append(hist, e) PROVE Stay
  <2>1. PICK n \in Nat : n = Len(hist)
    BY LenProperties DEF TypeOK
  <2>2. Len(hist') = n + 1 /\ \A i \in 1..n : hist'[i] = hist[i]
    BY <1>2, <2>1, HistAppend
  <2> QED
    BY <2>1, <2>2 DEF Records, OnlyWrites
<1>3. ASSUME NEW w \in Writers, CommitWrite(w) PROVE Stay
  <2>1. PICK rev \in (base[w].rev + 1)..MaxRev :
          hist' = Append(hist, [kind |-> "write", commit |-> [tree |-> tree[w], rev |-> rev],
                                base |-> base[w]])
    BY <1>3 DEF CommitWrite, NextRev
  <2>2. base[w] \in Commits /\ base[w].rev \in Nat /\ tree[w] \in Trees
    BY DEF TypeOK, Commits
  <2>3. [kind |-> "write", commit |-> [tree |-> tree[w], rev |-> rev], base |-> base[w]]
          \in HistEntries
    BY <2>2, BoundsAssumption DEF HistEntries, Commits
  <2> HIDE DEF Stay
  <2> QED
    BY <1>2, <2>1, <2>3
<1>4. ASSUME NEW i \in Importers, CommitImport(i) PROVE Stay
  <2>1. PICK c \in Uploads : hist' = Append(hist, [kind |-> "import", commit |-> c, base |-> root])
    BY <1>4 DEF CommitImport
  <2>2. [kind |-> "import", commit |-> c, base |-> root] \in HistEntries
    BY UploadsAssumption DEF TypeOK, HistEntries
  <2> HIDE DEF Stay
  <2> QED
    BY <1>2, <2>1, <2>2
<1> HIDE DEF Stay
<1>5. Stay
  BY <1>1, <1>3, <1>4, TablesChange DEF Stay
<1> QED
  BY <1>5 DEF Stay

\* A commit is recorded with its base, and where nobody has imported its
\* revision is past all others.
LEMMA CommitIsNew ==
    ASSUME IInv, IInv', NEW w \in Writers, CommitWrite(w)
    PROVE  /\ \E j \in 1..Len(hist') : Records(j, made[w].commit, base[w])'
           /\ OnlyWrites' => \A j \in 1..Len(hist) : hist[j].commit # made'[w].commit
<1>1. PICK e \in HistEntries :
        /\ e.kind = "write" /\ e.base = base[w] /\ hist' = Append(hist, e)
        /\ made'[w].commit = e.commit /\ base' = base
  BY CommitRecorded
<1>2. TypeOK /\ WritesAreSerial'
  BY DEF IInv
<1>3. PICK n \in Nat : n = Len(hist)
  BY <1>2, LenProperties DEF TypeOK
<1>4. Len(hist') = n + 1 /\ hist'[n + 1] = e /\ \A i \in 1..n : hist'[i] = hist[i]
  BY <1>1, <1>2, <1>3, HistAppend
<1>5. Records(n + 1, made[w].commit, base[w])' /\ n + 1 \in 1..Len(hist')
  BY <1>1, <1>3, <1>4 DEF Records
<1>6. ASSUME OnlyWrites', NEW j \in 1..n PROVE hist[j].commit # e.commit
  <2>1. j \in 1..Len(hist') /\ n + 1 \in 1..Len(hist') /\ j < n + 1
    BY <1>3, <1>4
  <2>2. \A k \in j..(n + 1) : hist'[k].kind = "write"
    BY <1>3, <1>4, <1>6 DEF OnlyWrites
  <2>3. hist'[j].kind = "write" /\ hist'[n + 1].kind = "write"
    BY <1>6, <2>1 DEF OnlyWrites
  <2>4. hist'[j].commit.rev < hist'[n + 1].commit.rev
    BY <1>2, <2>1, <2>2, <2>3 DEF WritesAreSerial
  <2>5. e.commit.rev \in Nat
    BY DEF HistEntries, Commits
  <2> QED
    BY <1>4, <2>4, <2>5
<1> QED
  BY <1>1, <1>3, <1>5, <1>6

\* A writer with an event to append has its commit recorded, and where nobody has
\* imported that commit is in no event and nobody else's.
LEMMA PendingStep ==
    ASSUME IInv, IInv', PendingInv, EventsReportWrites, [Next]_vars
    PROVE  PendingInv'
<1>0. TypeOK /\ Writers \subseteq Actors
  BY DEF IInv, Actors
<1> DEFINE Known(c) == \E j \in 1..Len(hist) : hist[j].commit = c
<1>1. \A w \in Writers : pc[w] = "emit" => Known(made[w].commit)
  BY DEF PendingInv, Records
<1>2. \A i \in 1..Len(log) : log[i].kind = "commit" => Known(log[i].commit)
  BY DEF EventsReportWrites, Records
<1>3. \A w \in Writers : CommitWrite(w) /\ OnlyWrites' => ~Known(made'[w].commit)
  BY CommitIsNew
<1> HIDE DEF Known
<1>4. ASSUME NEW w \in Writers, pc'[w] = "emit"
      PROVE  \E j \in 1..Len(hist') : Records(j, made[w].commit, base[w])'
  <2>1. CASE CommitWrite(w)
    BY <2>1, CommitIsNew
  <2>2. CASE pc[w] = "emit" /\ made'[w] = made[w] /\ base'[w] = base[w]
    <3>1. \E j \in 1..Len(hist) : Records(j, made[w].commit, base[w])
      BY <2>2 DEF PendingInv
    <3>2. \E j \in 1..Len(hist') : Records(j, made[w].commit, base[w])'
      <4>1. PICK c, b : c = made[w].commit /\ b = base[w]
        OBVIOUS
      <4>2. \E j \in 1..Len(hist') : Records(j, c, b)'
        BY <1>0, <3>1, <4>1, RecordsStay
      <4> QED
        BY <2>2, <4>1, <4>2 DEF Records
    <3> QED
      BY <3>2
  <2> QED
    BY <1>0, <1>4, <2>1, <2>2, EmitStays
<1>5. ASSUME OnlyWrites', NEW w \in Writers, pc'[w] = "emit", NEW i \in 1..Len(log'),
             log'[i].kind = "commit"
      PROVE  log'[i].commit # made'[w].commit
  <2>0. OnlyWrites
    BY <1>0, <1>5, RecordsStay
  <2>1. CASE CommitWrite(w)
    <3>1. log' = log
      BY <2>1 DEF CommitWrite
    <3> QED
      BY <1>2, <1>3, <1>5, <2>1, <3>1
  <2>2. CASE pc[w] = "emit" /\ made'[w] = made[w]
    <3>1. \A k \in 1..Len(log) : log[k].kind = "commit" => log[k].commit # made[w].commit
      BY <2>0, <2>2 DEF PendingInv
    <3>2. CASE log' = log
      BY <1>5, <2>2, <3>1, <3>2
    <3>3. ASSUME NEW x \in Writers, EmitCommit(x) PROVE log'[i].commit # made'[w].commit
      <4>1. /\ Len(log) \in Nat /\ Len(log') = Len(log) + 1
            /\ \A k \in 1..Len(log) : log'[k] = log[k]
            /\ log'[Len(log) + 1].commit = made[x].commit
            /\ pc[x] = "emit" /\ pc' = [pc EXCEPT ![x] = "idle"]
        BY <1>0, <3>3, EventRecorded
      <4>2. x # w
        BY <1>0, <1>5, <4>1 DEF TypeOK
      <4>3. made[x].commit # made[w].commit
        BY <2>0, <2>2, <4>1, <4>2 DEF PendingInv
      <4> QED
        BY <1>5, <2>2, <3>1, <4>1, <4>3
    <3>4. ASSUME NEW c, log' = Append(log, [kind |-> "sync", commit |-> c])
          PROVE  log'[i].commit # made'[w].commit
      <4>1. PICK n \in Nat : n = Len(log)
        BY <1>0, LenProperties DEF TypeOK
      <4>2. /\ Len(log') = n + 1 /\ log'[n + 1].kind = "sync"
            /\ \A k \in 1..n : log'[k] = log[k]
        BY <1>0, <3>4, <4>1 DEF TypeOK
      <4> QED
        BY <1>5, <2>2, <3>1, <4>1, <4>2
    <3> QED
      BY <3>2, <3>3, <3>4, LogChange
  <2> QED
    BY <1>0, <1>5, <2>1, <2>2, EmitStays
<1>6. ASSUME OnlyWrites', NEW w \in Writers, pc'[w] = "emit", NEW v \in Writers,
             pc'[v] = "emit", v # w
      PROVE  made'[v].commit # made'[w].commit
  <2>0. OnlyWrites
    BY <1>0, <1>6, RecordsStay
  <2>1. ~(CommitWrite(w) /\ CommitWrite(v))
    BY <1>0, <1>6 DEF CommitWrite, Goto, TypeOK
  <2>2. (pc[w] = "emit" /\ made'[w] = made[w]) \/ CommitWrite(w)
    BY <1>0, <1>6, EmitStays
  <2>3. (pc[v] = "emit" /\ made'[v] = made[v]) \/ CommitWrite(v)
    BY <1>0, <1>6, EmitStays
  <2>4. CASE CommitWrite(w)
    BY <1>1, <1>3, <1>6, <2>1, <2>3, <2>4
  <2>5. CASE CommitWrite(v)
    BY <1>1, <1>3, <1>6, <2>1, <2>2, <2>5
  <2>6. CASE pc[w] = "emit" /\ pc[v] = "emit" /\ made'[w] = made[w] /\ made'[v] = made[v]
    BY <1>6, <2>0, <2>6 DEF PendingInv
  <2> QED
    BY <2>2, <2>3, <2>4, <2>5, <2>6
<1> QED
  BY <1>4, <1>5, <1>6 DEF PendingInv

\* An event in the log reports what it did when it was appended.
LEMMA ReportsStep ==
    ASSUME TypeOK, PendingInv, EventsReportWrites, [Next]_vars
    PROVE  EventsReportWrites'
<1> DEFINE Reported(e) == e.kind = "commit" =>
                            \E j \in 1..Len(hist) : Records(j, e.commit, e.since)
           Reported_(e) == e.kind = "commit" =>
                             \E j \in 1..Len(hist') :
                                /\ hist'[j].kind = "write" /\ hist'[j].commit = e.commit
                                /\ hist'[j].base = e.since
<1>1. PICK n \in Nat : n = Len(log)
  BY LenProperties DEF TypeOK
<1>2. \A i \in 1..n : Reported(log[i])
  BY <1>1 DEF EventsReportWrites
<1>3. OnlyWrites' => \A i, j \in 1..n :
        log[i].kind = "commit" /\ log[j].kind = "commit" /\ log[i].commit = log[j].commit => i = j
  BY <1>1, RecordsStay DEF EventsReportWrites
<1>4. ASSUME NEW e, Reported(e) PROVE Reported_(e)
  <2>1. CASE e.kind = "commit"
    <3>1. PICK c, b : c = e.commit /\ b = e.since
      OBVIOUS
    <3>2. \E j \in 1..Len(hist') : Records(j, c, b)'
      BY <1>4, <2>1, <3>1, RecordsStay
    <3> QED
      BY <3>1, <3>2 DEF Records
  <2> QED
    BY <2>1
<1>5. ASSUME NEW e, log' = Append(log, e), Reported(e),
             OnlyWrites' /\ e.kind = "commit" =>
                \A i \in 1..n : log[i].kind = "commit" => log[i].commit # e.commit
      PROVE  EventsReportWrites'
  <2> HIDE DEF Reported, Reported_
  <2>1. Len(log') = n + 1 /\ log'[n + 1] = e /\ \A i \in 1..n : log'[i] = log[i]
    BY <1>1, <1>5 DEF TypeOK
  <2>2. \A i \in 1..(n + 1) : Reported_(log'[i])
    BY <1>1, <1>2, <1>4, <1>5, <2>1
  <2>3. OnlyWrites' => \A i, j \in 1..(n + 1) :
          log'[i].kind = "commit" /\ log'[j].kind = "commit" /\ log'[i].commit = log'[j].commit
              => i = j
    BY <1>1, <1>3, <1>5, <2>1
  <2>4. \A i \in 1..Len(log') : log'[i].kind = "commit" =>
          \E j \in 1..Len(hist') : Records(j, log[i].commit, log[i].since)'
    BY <2>1, <2>2 DEF Reported_, Records
  <2> QED
    BY <2>1, <2>3, <2>4 DEF EventsReportWrites
<1>6. ASSUME NEW w \in Writers, EmitCommit(w) PROVE EventsReportWrites'
  <2> DEFINE e == [kind |-> "commit", commit |-> made[w].commit, rec |-> made[w].rec,
                   since |-> base[w], ops |-> results[w]]
  <2>1. /\ log' = Append(log, e) /\ pc[w] = "emit"
        /\ e.commit = made[w].commit /\ e.since = base[w]
    BY <1>6 DEF EmitCommit
  <2> HIDE DEF e
  <2>2. Reported(e)
    BY <2>1 DEF PendingInv
  <2>3. OnlyWrites' => \A i \in 1..n : log[i].kind = "commit" => log[i].commit # e.commit
    BY <1>1, <2>1, RecordsStay DEF PendingInv
  <2> HIDE DEF Reported
  <2> QED
    BY <1>5, <2>1, <2>2, <2>3
<1>7. ASSUME NEW c, log' = Append(log, [kind |-> "sync", commit |-> c])
      PROVE  EventsReportWrites'
  <2>1. PICK e : e = [kind |-> "sync", commit |-> c]
    OBVIOUS
  <2>2. log' = Append(log, e) /\ e.kind # "commit" /\ Reported(e)
    BY <1>7, <2>1
  <2> HIDE DEF Reported
  <2> QED
    BY <1>5, <2>2
<1>8. CASE log' = log
  <2>1. \A i \in 1..n : Reported_(log[i])
    <3> HIDE DEF Reported, Reported_
    <3> QED
      BY <1>2, <1>4
  <2>2. \A i \in 1..Len(log') : log'[i].kind = "commit" =>
          \E j \in 1..Len(hist') : Records(j, log[i].commit, log[i].since)'
    BY <1>1, <1>8, <2>1 DEF Records
  <2> QED
    BY <1>1, <1>3, <1>8, <2>2 DEF EventsReportWrites
<1> QED
  BY <1>6, <1>7, <1>8, LogChange

-----------------------------------------------------------------------------
(* The invariant and the events *)

LEMMA InitBInv == Init => BInv
<1> SUFFICES ASSUME Init PROVE BInv
  OBVIOUS
<1>1. IInv
  BY InitIInv
<1>2. \A w \in Writers : pc[w] = "idle"
  BY DEF Init, AtRest, Actors
<1>3. log = <<>> /\ Len(log) = 0
  BY DEF Init
<1> QED
  BY <1>1, <1>2, <1>3 DEF BInv, ReverseInv, PrefixInv, PendingInv, EventsInvert, EventsApply,
     EventsReportWrites

LEMMA NextBInv == BInv /\ [Next]_vars => BInv'
<1> SUFFICES ASSUME BInv, [Next]_vars PROVE BInv'
  OBVIOUS
<1>1. IInv'
  BY NextIInv DEF BInv
<1>2. ReverseInv'
  BY ReverseStep DEF BInv, IInv
<1>3. PrefixInv'
  BY PrefixStep DEF BInv, IInv
<1>4. EventsInvert' /\ EventsApply'
  BY EventsStep DEF BInv, IInv
<1>5. PendingInv'
  BY <1>1, PendingStep DEF BInv
<1>6. EventsReportWrites'
  BY ReportsStep DEF BInv, IInv
<1> QED
  BY <1>1, <1>2, <1>3, <1>4, <1>5, <1>6 DEF BInv

\* The index, the references and the order of commits, and with them what every
\* batch under way has done to the tree, the index and its results
\* (writer.go:111-182), under every interleaving, crash and failed append.
THEOREM BatchInvariance == Spec => []BInv
<1>1. Init => BInv
  BY InitBInv
<1>2. BInv /\ [Next]_vars => BInv'
  BY NextBInv
<1> QED
  BY <1>1, <1>2, PTL DEF Spec

\* The operations of every #commit event, undone last first, lead from its tree
\* to the tree it follows, and its CAR has what that tree has not
\* (writer.go:195-243): for every batch, whatever imports, crashes and other
\* writers do in between.
THEOREM EventsLeadBack == Spec => []EventsInvert
<1>1. BInv => EventsInvert
  BY DEF BInv
<1> QED
  BY <1>1, BatchInvariance, PTL

\* The same operations, first to last, lead from the tree it follows to the
\* event's own: a consumer that never reads a CAR ends with the right records.
THEOREM EventsLeadOn == Spec => []EventsApply
<1>1. BInv => EventsApply
  BY DEF BInv
<1> QED
  BY <1>1, BatchInvariance, PTL

\* No #commit event is made up: each reports a commit in the database with the
\* root it was built on.  Where nobody has imported none comes twice, whatever
\* failed appends and crashes do to others (writer.go:172-192).
THEOREM EventsAreGenuine == Spec => []EventsReportWrites
<1>1. BInv => EventsReportWrites
  BY DEF BInv
<1> QED
  BY <1>1, BatchInvariance, PTL

\* A commit stores a whole request, applied to the index as it is: the
\* transaction has held the connection since it copied it.
LEMMA CommitApplies ==
    ASSUME BInv, NEW w \in Writers, CommitWrite(w)
    PROVE  \E b \in Requests :
              /\ index' = Atomic!State(b, Len(b))
              /\ base[w] = root /\ ~RacedImport => Atomic!Applicable(b)
<1> DEFINE Before(b, n) ==
             /\ req[w] = SubSeq(b, n + 1, Len(b))
             /\ txn.index = Atomic!State(b, n)
             /\ base[w] = root /\ ~RacedImport =>
                   \A i \in 1..n : b[i].action = "delete" =>
                       Atomic!State(b, i - 1)[b[i].path] # None
<1>1. pc[w] = "tx" /\ req[w] = <<>> /\ index' = txn.index
  BY DEF CommitWrite
<1>2. PICK b \in Requests : \E n \in 0..Len(b) : Before(b, n)
  BY <1>1 DEF BInv, PrefixInv
<1>3. PICK n \in 0..Len(b) : Before(b, n)
  BY <1>2
<1>4. b \in Seq(Ops) /\ Len(b) \in Nat
  BY RequestType, LenProperties
<1>5. n = Len(b)
  <2>1. \A i \in (n + 1)..Len(b) : b[i] \in Ops
    BY <1>4, ElementOfSeq
  <2>2. Len(SubSeq(b, n + 1, Len(b))) = IF n + 1 <= Len(b) THEN Len(b) - (n + 1) + 1 ELSE 0
    BY <1>4, <2>1, SubSeqProperties
  <2> QED
    BY <1>1, <1>3, <1>4, <2>2
<1> QED
  BY <1>1, <1>3, <1>5 DEF Atomic!Applicable

\* Whatever interleaves, the index changes by a whole batch applied to it as it
\* is, or becomes the tree of an import: nothing else is ever seen in it, even
\* where an import raced with the write (writer.go:120-180).
THEOREM BatchesAreWhole ==
    Spec => [][\/ \E b \in Requests : index' = Atomic!State(b, Len(b))
               \/ \E c \in Uploads : index' = c.tree]_index
<1> DEFINE Whole == \/ \E b \in Requests : index' = Atomic!State(b, Len(b))
                    \/ \E c \in Uploads : index' = c.tree
<1>1. BInv /\ [Next]_vars => [Whole]_index
  <2> SUFFICES ASSUME BInv, [Next]_vars PROVE [Whole]_index
    OBVIOUS
  <2>1. ASSUME NEW w \in Writers, CommitWrite(w) PROVE Whole
    BY <2>1, CommitApplies
  <2>2. ASSUME NEW i \in Importers, CommitImport(i) PROVE Whole
    BY <2>2 DEF CommitImport
  <2> QED
    BY <2>1, <2>2, TablesChange
<1> QED
  BY <1>1, BatchInvariance, PTL DEF Spec

-----------------------------------------------------------------------------
(* Where nobody imports *)

\* The tables change by commits of ApplyWrites alone, and these are recorded.
LEMMA OnlyWritesStep ==
    ASSUME Importers = {}, TypeOK, OnlyWrites, [Next]_vars
    PROVE  OnlyWrites'
<1>1. CASE UNCHANGED <<blocks, index, refs, metas, root, hist>>
  BY <1>1 DEF OnlyWrites
<1>2. ASSUME NEW w \in Writers, CommitWrite(w) PROVE OnlyWrites'
  <2>1. PICK rev \in (base[w].rev + 1)..MaxRev :
          hist' = Append(hist, [kind |-> "write", commit |-> [tree |-> tree[w], rev |-> rev],
                                base |-> base[w]])
    BY <1>2 DEF CommitWrite, NextRev
  <2> DEFINE e == [kind |-> "write", commit |-> [tree |-> tree[w], rev |-> rev], base |-> base[w]]
  <2>2. base[w] \in Commits /\ base[w].rev \in Nat /\ tree[w] \in Trees
    BY DEF TypeOK, Commits
  <2>3. e \in HistEntries /\ hist' = Append(hist, e) /\ e.kind = "write"
    BY <2>1, <2>2, BoundsAssumption DEF HistEntries, Commits
  <2> HIDE DEF e
  <2>4. PICK n \in Nat : n = Len(hist)
    BY LenProperties DEF TypeOK
  <2>5. Len(hist') = n + 1 /\ hist'[n + 1] = e /\ \A i \in 1..n : hist'[i] = hist[i]
    BY <2>3, <2>4, HistAppend
  <2> QED
    BY <2>3, <2>4, <2>5 DEF OnlyWrites
<1> QED
  BY <1>1, <1>2, TablesChange

\* A write then is built on the current root until it commits.
LEMMA BuiltOnRoot ==
    ASSUME TypeOK, RootInv, LoadedInv, OnlyWrites, NEW w \in Writers,
           pc[w] \in {"load", "begin", "tx"}
    PROVE  base[w] = root
<1>1. PICK n \in Nat : n = Len(hist)
  BY LenProperties DEF TypeOK
<1>2. PICK k \in 0..n : base[w] = Made(k) /\ \A m \in (k + 1)..n : hist[m].kind = "import"
  BY <1>1 DEF LoadedInv, Recent
<1>3. k < n => n \in (k + 1)..n /\ n \in 1..n
  BY <1>1
<1>4. k = n
  BY <1>1, <1>2, <1>3 DEF OnlyWrites
<1> QED
  BY <1>1, <1>2, <1>4 DEF RootInv

\* Every step is a commit of one whole batch, or leaves records and revision.
LEMMA AtomicStep ==
    ASSUME Importers = {}, BInv, OnlyWrites, NoWriteIsRaced, [Next]_vars
    PROVE  [Atomic!Commit]_<<index, root.rev>>
<1>0. TypeOK /\ RootInv /\ LoadedInv
  BY DEF BInv, IInv
<1>1. CASE UNCHANGED <<blocks, index, refs, metas, root, hist>>
  BY <1>1
<1>2. ASSUME NEW w \in Writers, CommitWrite(w) PROVE Atomic!Commit
  <2>1. PICK rev \in (base[w].rev + 1)..MaxRev : root' = [tree |-> tree[w], rev |-> rev]
    BY <1>2 DEF CommitWrite, NextRev
  <2>2. pc[w] = "tx"
    BY <1>2 DEF CommitWrite
  <2>3. base[w] = root
    BY <1>0, <2>2, BuiltOnRoot
  <2>4. ~RacedImport
    BY DEF NoWriteIsRaced, RacedImport
  <2>5. root'.rev > root.rev
    <3>1. root.rev \in Nat
      BY <1>0 DEF TypeOK, Commits
    <3> QED
      BY <2>1, <2>3, <3>1, BoundsAssumption
  <2> QED
    BY <1>2, <2>3, <2>4, <2>5, CommitApplies DEF Atomic!Commit
<1> QED
  BY <1>0, <1>1, <1>2, TablesChange

\* For every number of writers and every set of batches, records and paths,
\* the write path implements AtomicRepo: locks, transactions, rollbacks,
\* crashes and failed appends never show in the index and the revision but as
\* whole batches, each applied to the records that are current when it commits.
THEOREM WritesAreAtomic == ASSUME Importers = {} PROVE Spec => ImplementsAtomic
<1>1. Init => Atomic!Init
  BY DEF Init, Atomic!Init, EmptyTree, NoCommit
<1>2. Init => OnlyWrites
  BY DEF Init, OnlyWrites
<1>3. TypeOK /\ OnlyWrites /\ [Next]_vars => OnlyWrites'
  BY OnlyWritesStep
<1>4. BInv /\ OnlyWrites /\ NoWriteIsRaced /\ [Next]_vars => [Atomic!Commit]_<<index, root.rev>>
  BY AtomicStep
<1>5. Spec => []NoWriteIsRaced
  BY NoRaceWithoutImports
<1> QED
  BY <1>1, <1>2, <1>3, <1>4, <1>5, TypeCorrect, BatchInvariance, PTL
     DEF Spec, ImplementsAtomic, Atomic!Spec

-----------------------------------------------------------------------------
(* What readers and consumers have, whoever imports or fails *)

\* The history grows by one entry when the tables change, and a write only adds
\* blocks.
LEMMA TableStep ==
    ASSUME TypeOK, [Next]_vars
    PROVE  \/ UNCHANGED <<blocks, index, refs, metas, root, hist>>
           \/ \E e \in HistEntries :
                 /\ hist' = Append(hist, e) /\ e.commit.rev > 0
                 /\ e.kind = "write" =>
                       /\ blocks.rec \subseteq blocks'.rec /\ blocks.node \subseteq blocks'.node
                       /\ blocks.commit \subseteq blocks'.commit
<1> DEFINE Grows ==
             \E e \in HistEntries :
                 /\ hist' = Append(hist, e) /\ e.commit.rev > 0
                 /\ e.kind = "write" =>
                       /\ blocks.rec \subseteq blocks'.rec /\ blocks.node \subseteq blocks'.node
                       /\ blocks.commit \subseteq blocks'.commit
<1>1. ASSUME NEW w \in Writers, CommitWrite(w) PROVE Grows
  <2>1. PICK rev \in (base[w].rev + 1)..MaxRev :
          /\ hist' = Append(hist, [kind |-> "write", commit |-> [tree |-> tree[w], rev |-> rev],
                                   base |-> base[w]])
          /\ \E c, d : blocks' = [rec |-> blocks.rec \cup txn.rec, node |-> blocks.node \cup d,
                                  commit |-> blocks.commit \cup {c}]
    BY <1>1 DEF CommitWrite, NextRev
  <2>2. base[w] \in Commits /\ base[w].rev \in Nat /\ tree[w] \in Trees
    BY DEF TypeOK, Commits
  <2>3. rev \in Nat /\ rev > 0
    BY <2>2, BoundsAssumption
  <2> DEFINE e == [kind |-> "write", commit |-> [tree |-> tree[w], rev |-> rev], base |-> base[w]]
  <2>4. e \in HistEntries /\ e.commit.rev > 0
    BY <2>2, <2>3 DEF HistEntries, Commits
  <2>5. hist' = Append(hist, e)
    BY <2>1
  <2>6. /\ blocks.rec \subseteq blocks'.rec /\ blocks.node \subseteq blocks'.node
        /\ blocks.commit \subseteq blocks'.commit
    BY <2>1
  <2> HIDE DEF e
  <2> QED
    BY <2>4, <2>5, <2>6
<1>2. ASSUME NEW i \in Importers, CommitImport(i) PROVE Grows
  <2>1. PICK c \in Uploads : hist' = Append(hist, [kind |-> "import", commit |-> c, base |-> root])
    BY <1>2 DEF CommitImport
  <2> DEFINE e == [kind |-> "import", commit |-> c, base |-> root]
  <2>2. e \in HistEntries /\ e.commit.rev > 0 /\ e.kind # "write"
    BY UploadsAssumption DEF TypeOK, HistEntries
  <2>3. hist' = Append(hist, e)
    BY <2>1
  <2> HIDE DEF e
  <2> QED
    BY <2>2, <2>3
<1> HIDE DEF Grows
<1>3. UNCHANGED <<blocks, index, refs, metas, root, hist>> \/ Grows
  BY <1>1, <1>2, TablesChange
<1> QED
  BY <1>3 DEF Grows

\* The commits made since the last import, which no write raced, are whole.
KeptInv ==
    \A k \in 1..Len(hist) :
        (\A m \in (k + 1)..Len(hist) : hist[m].kind = "write") /\ ~RacedImport
            => Readable(hist[k].commit)

LEMMA KeptStep ==
    ASSUME IInv, IInv', KeptInv, [Next]_vars
    PROVE  KeptInv'
<1>0. TypeOK
  BY DEF IInv
<1>1. CASE UNCHANGED <<blocks, index, refs, metas, root, hist>>
  BY <1>1 DEF KeptInv, RacedImport, Raced, Readable
<1>2. ASSUME NEW e \in HistEntries, hist' = Append(hist, e), e.commit.rev > 0,
             e.kind = "write" =>
                /\ blocks.rec \subseteq blocks'.rec /\ blocks.node \subseteq blocks'.node
                /\ blocks.commit \subseteq blocks'.commit
      PROVE  KeptInv'
  <2>1. PICK n \in Nat : n = Len(hist)
    BY <1>0, LenProperties DEF TypeOK
  <2>2. Len(hist') = n + 1 /\ hist'[n + 1] = e /\ \A i \in 1..n : hist'[i] = hist[i]
    BY <1>0, <1>2, <2>1, HistAppend
  <2> SUFFICES ASSUME NEW k \in 1..(n + 1), ~RacedImport',
                      \A m \in (k + 1)..(n + 1) : hist'[m].kind = "write"
               PROVE  Readable(hist[k].commit)'
    BY <2>2 DEF KeptInv
  <2>3. CASE k = n + 1
    <3>1. root' = e.commit
      <4>1. root' = Made(Len(hist))'
        BY DEF IInv, RootInv
      <4>2. Made(Len(hist))' = hist'[n + 1].commit
        BY <2>1, <2>2 DEF Made
      <4> QED
        BY <2>2, <4>1, <4>2
    <3>2. root' # NoCommit
      BY <1>2, <3>1 DEF NoCommit
    <3>3. Readable(root)'
      BY <3>2 DEF IInv, IndexIsTree
    <3>4. hist'[k].commit = root'
      BY <2>2, <2>3, <3>1
    <3> QED
      BY <3>3, <3>4 DEF Readable
  <2>4. CASE k \in 1..n
    <3>1. n + 1 \in (k + 1)..(n + 1)
      BY <2>4
    <3>2. e.kind = "write"
      BY <2>2, <3>1
    <3>3. ~RacedImport
      <4> SUFFICES ASSUME NEW i \in 1..n, Raced(i), \A j \in i..n : hist[j].kind = "write"
                   PROVE  FALSE
        BY <2>1 DEF RacedImport
      <4>1. i \in 1..Len(hist')
        BY <2>2
      <4>2. hist'[i] = hist[i] /\ (i # 1 => hist'[i - 1] = hist[i - 1])
        BY <2>2
      <4>3. Raced(i)'
        BY <4>2 DEF Raced
      <4>4. \A j \in i..(n + 1) : hist'[j].kind = "write"
        <5>1. \A j \in i..(n + 1) : j = n + 1 \/ (j \in 1..n /\ j \in i..n)
          OBVIOUS
        <5> QED
          BY <2>2, <3>2, <5>1
      <4> QED
        BY <2>2, <4>1, <4>3, <4>4 DEF RacedImport
    <3>4. \A m \in (k + 1)..n : hist[m].kind = "write"
      <4>1. \A m \in (k + 1)..n : m \in 1..n /\ m \in (k + 1)..(n + 1)
        BY <2>4
      <4> QED
        BY <2>2, <4>1
    <3>5. Readable(hist[k].commit)
      BY <2>1, <2>4, <3>3, <3>4 DEF KeptInv
    <3>6. hist'[k].commit = hist[k].commit
      BY <2>2, <2>4
    <3> QED
      BY <1>2, <3>2, <3>5, <3>6 DEF Readable
  <2> QED
    BY <2>3, <2>4
<1> QED
  BY <1>0, <1>1, <1>2, TableStep

\* sync.getRepo answers with the whole tree of the root it read, however many
\* writes commit, fail or stop between its two queries, unless an import came in
\* between or raced with a write (sync.go:55-76).
THEOREM ProofsAreComplete == Spec => ProofIsComplete
<1>1. Init => KeptInv
  BY DEF Init, KeptInv
<1>2. IInv /\ IInv' /\ KeptInv /\ [Next]_vars => KeptInv'
  BY KeptStep
<1>3. KeptInv => \A r \in Readers :
          ReadAllBlocks(r) /\ Built(base[r]) /\ ~RacedImport => Readable(base[r])
  BY DEF KeptInv, Built
<1> QED
  BY <1>1, <1>2, <1>3, Invariance, PTL DEF Spec, ProofIsComplete


-----------------------------------------------------------------------------
(* A consumer that checks the chain of the events *)

\* An importer that has its #sync event to append has just committed, or waits
\* for itself alone.
LEMMA SyncWaits ==
    ASSUME TypeOK, [Next]_vars, NEW i \in Importers, pc'[i] = "emit"
    PROVE  CommitImport(i) \/ pc[i] = "emit"
<1> DEFINE Kept == pc[i] = "emit"
<1>a. /\ i \in Actors /\ Writers \subseteq Actors /\ Importers \subseteq Actors
      /\ Readers \subseteq Actors /\ pc \in [Actors -> PcStates]
  BY DEF Actors, TypeOK
<1>b. Writers \cap Importers = {} /\ Readers \cap Importers = {}
  BY ActorsAssumption
<1> USE <1>a, <1>b DEF Goto
<1>1. ASSUME NEW w \in Writers, StartWrite(w) \/ StartPut(w) \/ AcquireLock(w) PROVE Kept
  BY <1>1 DEF StartWrite, StartPut, AcquireLock
<1>2. ASSUME NEW w \in Writers, ReadRoot(w) \/ LoadTree(w) \/ BeginWrite(w) PROVE Kept
  BY <1>2 DEF ReadRoot, LoadTree, BeginWrite
<1>3. ASSUME NEW w \in Writers, ApplyDelete(w) \/ ApplyUpsert(w) PROVE Kept
  BY <1>3 DEF ApplyDelete, ApplyUpsert, Applied
<1>4. ASSUME NEW w \in Writers, CommitWrite(w) PROVE Kept
  <2>1. pc' = [pc EXCEPT ![w] = "emit"]
    BY <1>4 DEF CommitWrite
  <2> QED
    BY <2>1
<1>5. ASSUME NEW a \in Actors,
             Abort(a) \/ EmitCommit(a) \/ EmitFails(a) \/ AbortImport(a) \/ EmitSync(a)
                \/ ReadAllBlocks(a)
      PROVE  Kept
  BY <1>5 DEF Abort, EmitCommit, EmitFails, AbortImport, EmitSync, ReadAllBlocks, Return
<1>6. ASSUME NEW x \in Importers, BeginImport(x) PROVE Kept
  BY <1>6 DEF BeginImport
<1>7. ASSUME NEW x \in Importers, CommitImport(x) PROVE x = i \/ Kept
  <2>1. pc' = [pc EXCEPT ![x] = "emit"]
    BY <1>7 DEF CommitImport
  <2> QED
    BY <2>1
<1>8. ASSUME NEW r \in Readers, ReadRepoRoot(r) PROVE Kept
  BY <1>8 DEF ReadRepoRoot
<1>9. ASSUME Crash PROVE FALSE
  BY <1>9 DEF Crash, AtRest
<1>10. ASSUME UNCHANGED vars PROVE Kept
  BY <1>10 DEF vars
<1> HIDE DEF Kept
<1> QED
  BY <1>1, <1>2, <1>3, <1>4, <1>5, <1>6, <1>7, <1>8, <1>9, <1>10
     DEF Next, Write, Import, Read, Kept

\* No commit is the empty repository, and where nobody has imported no #sync event
\* is in the log or due.
PlainInv ==
    /\ \A i \in 1..Len(hist) : hist[i].commit.rev > 0
    /\ OnlyWrites => /\ \A i \in Importers : pc[i] # "emit"
                     /\ \A i \in 1..Len(log) : log[i].kind = "commit"

LEMMA PlainStep ==
    ASSUME IInv, PlainInv, [Next]_vars
    PROVE  PlainInv'
<1>0. TypeOK
  BY DEF IInv
<1>1. ASSUME NEW i \in 1..Len(hist') PROVE (hist[i].commit.rev > 0)'
  <2>1. CASE hist' = hist
    BY <1>1, <2>1 DEF PlainInv
  <2>2. ASSUME NEW e \in HistEntries, hist' = Append(hist, e), e.commit.rev > 0
        PROVE  hist'[i].commit.rev > 0
    <3>1. PICK n \in Nat : n = Len(hist)
      BY <1>0, LenProperties DEF TypeOK
    <3>2. Len(hist') = n + 1 /\ hist'[n + 1] = e /\ \A k \in 1..n : hist'[k] = hist[k]
      BY <1>0, <2>2, <3>1, HistAppend
    <3>3. i = n + 1 \/ i \in 1..n
      BY <3>1, <3>2
    <3> QED
      BY <2>2, <3>1, <3>2, <3>3 DEF PlainInv
  <2> QED
    BY <1>0, <2>1, <2>2, TableStep
<1>2. ASSUME OnlyWrites'
      PROVE  /\ \A i \in Importers : pc'[i] # "emit"
             /\ \A i \in 1..Len(log') : log'[i].kind = "commit"
  <2>1. OnlyWrites
    BY <1>0, <1>2, RecordsStay
  <2>2. /\ \A i \in Importers : pc[i] # "emit"
        /\ \A i \in 1..Len(log) : log[i].kind = "commit"
    BY <2>1 DEF PlainInv
  <2>3. ASSUME NEW i \in Importers, CommitImport(i) PROVE FALSE
    <3>1. PICK c \in Uploads :
            hist' = Append(hist, [kind |-> "import", commit |-> c, base |-> root])
      BY <2>3 DEF CommitImport
    <3> DEFINE e == [kind |-> "import", commit |-> c, base |-> root]
    <3>2. e \in HistEntries /\ e.kind = "import" /\ hist' = Append(hist, e)
      BY <1>0, <3>1, UploadsAssumption DEF TypeOK, HistEntries
    <3> HIDE DEF e
    <3>3. PICK n \in Nat : n = Len(hist)
      BY <1>0, LenProperties DEF TypeOK
    <3>4. Len(hist') = n + 1 /\ hist'[n + 1] = e
      BY <1>0, <3>2, <3>3, HistAppend
    <3>5. hist'[n + 1].kind = "write"
      BY <1>2, <3>4 DEF OnlyWrites
    <3> QED
      BY <3>2, <3>4, <3>5
  <2>4. \A i \in Importers : pc'[i] # "emit"
    BY <1>0, <2>2, <2>3, SyncWaits
  <2>5. CASE log' = log
    BY <2>2, <2>4, <2>5
  <2>6. ASSUME NEW w \in Writers, EmitCommit(w)
        PROVE  \A i \in 1..Len(log') : log'[i].kind = "commit"
    <3>1. PICK n \in Nat : n = Len(log)
      BY <1>0, LenProperties DEF TypeOK
    <3>2. /\ Len(log') = n + 1 /\ log'[n + 1].kind = "commit"
          /\ \A i \in 1..n : log'[i] = log[i]
      BY <1>0, <2>6, <3>1, EventRecorded
    <3>3. \A i \in 1..(n + 1) : i = n + 1 \/ i \in 1..n
      BY <3>1
    <3> QED
      BY <2>2, <3>1, <3>2, <3>3
  <2> QED
    BY <2>2, <2>4, <2>5, <2>6, LogChange
<1> QED
  BY <1>1, <1>2 DEF PlainInv

\* Where nobody has imported, only one write can have been built on a commit: the
\* next.
LEMMA NextInHistory ==
    ASSUME BInv, PlainInv, OnlyWrites, NEW k \in 0..Len(hist), NEW j \in 1..Len(hist),
           hist[j].base = Made(k), k > 0 => hist[k].commit.rev < hist[j].commit.rev
    PROVE  j = k + 1
<1>0. TypeOK /\ WritesAreSerial
  BY DEF BInv, IInv
<1>1. PICK n \in Nat : n = Len(hist)
  BY <1>0, LenProperties DEF TypeOK
<1>2. \A i \in 1..n : hist[i].commit.rev \in Nat /\ hist[i].commit.rev > 0
  <2>1. \A i \in 1..n : hist[i] \in HistEntries
    BY <1>0, <1>1, ElementOfSeq DEF TypeOK
  <2> QED
    BY <1>1, <2>1 DEF HistEntries, Commits, PlainInv
<1>3. ASSUME NEW a \in 1..n, NEW b \in 1..n, a < b PROVE hist[a].commit.rev < hist[b].commit.rev
  <2>1. \A m \in a..b : m \in 1..n
    BY <1>1
  <2>2. \A m \in 1..n : hist[m].kind = "write"
    BY <1>1 DEF OnlyWrites
  <2> QED
    BY <1>0, <1>1, <1>3, <2>1, <2>2 DEF WritesAreSerial
<1>4. CASE j = 1
  <2>1. CASE k = 0
    BY <1>4, <2>1
  <2>2. CASE k > 0
    <3>1. k \in 1..n /\ hist[k].commit.rev < hist[1].commit.rev
      BY <1>1, <1>4, <2>2
    <3>2. k = 1 \/ hist[1].commit.rev < hist[k].commit.rev
      BY <1>1, <1>3, <3>1
    <3>3. hist[1].commit.rev \in Nat /\ hist[k].commit.rev \in Nat
      BY <1>1, <1>2, <3>1
    <3> QED
      BY <3>1, <3>2, <3>3
  <2> QED
    BY <1>1, <2>1, <2>2
<1>5. CASE j > 1
  <2>1. j - 1 \in 1..n /\ j \in 1..n /\ j - 1 < j /\ (j - 1)..(j - 1) = {j - 1}
    BY <1>1, <1>5
  <2>2. hist[j - 1].kind = "write" /\ hist[j].kind = "write"
    BY <1>1, <2>1 DEF OnlyWrites
  <2>3. PICK m \in (j - 1)..(j - 1) : hist[j].base = hist[m].commit
    BY <1>0, <1>1, <2>1, <2>2 DEF WritesAreSerial
  <2>4. hist[j].base = hist[j - 1].commit
    BY <2>1, <2>3
  <2>5. CASE k = 0
    <3>1. hist[j - 1].commit = NoCommit
      BY <2>4, <2>5 DEF Made
    <3> QED
      BY <1>2, <2>1, <3>1 DEF NoCommit
  <2>6. CASE k > 0
    <3>1. k \in 1..n /\ hist[j - 1].commit = hist[k].commit
      BY <1>1, <2>4, <2>6 DEF Made
    <3>2. hist[j - 1].commit.rev \in Nat
      BY <1>2, <2>1
    <3>3. ~(j - 1 < k) /\ ~(k < j - 1)
      BY <1>3, <2>1, <3>1, <3>2
    <3> QED
      BY <1>1, <2>1, <3>1, <3>3
  <2> QED
    BY <1>1, <2>5, <2>6
<1> QED
  BY <1>1, <1>4, <1>5

\* A consumer for whom every since has matched so far has every commit from the
\* first, in order, for any number of writers, crashes, lost events and events
\* appended in another order than they were committed in: the chain gives away
\* whatever Append has not stored (writer.go:172-192).
THEOREM BrokenChainsTell == Spec => []GapsAreSeen
<1>1. Init => PlainInv
  BY DEF Init, PlainInv, AtRest, Actors
<1>2. IInv /\ PlainInv /\ [Next]_vars => PlainInv'
  BY PlainStep
<1>3. BInv /\ PlainInv => GapsAreSeen
  <2> SUFFICES ASSUME BInv, PlainInv, OnlyWrites, NEW n \in 1..Len(log), Unbroken(n)
               PROVE  \A i \in 1..n : Records(i, log[i].commit, log[i].since)
    BY DEF GapsAreSeen
  <2> DEFINE bad == {i \in 1..n : ~(/\ i \in 1..Len(hist)
                                    /\ Records(i, log[i].commit, log[i].since))}
  <2>0. TypeOK /\ EventsReportWrites /\ EventsInvert /\ Len(log) \in Nat /\ Len(hist) \in Nat
    BY LenProperties DEF BInv, IInv, TypeOK
  <2>1. SUFFICES ASSUME bad # {} PROVE FALSE
    OBVIOUS
  <2>2. PICK i \in bad : \A y \in bad : i <= y
    <3>1. n \in Nat /\ bad \in SUBSET (1..n)
      BY <2>0
    <3> HIDE DEF bad
    <3> QED
      BY <2>1, <3>1, FirstAndLast
  <2>3. i \in 1..Len(log) /\ log[i].kind = "commit"
    BY <2>0, <2>2 DEF PlainInv
  <2>4. log[i].since = IF i = 1 THEN NoCommit ELSE log[i - 1].commit
    BY <2>2, <2>3 DEF Unbroken, Follows
  <2>5. PICK j \in 1..Len(hist) : Records(j, log[i].commit, log[i].since)
    BY <2>0, <2>3 DEF EventsReportWrites
  <2>6. log[i].since.rev < log[i].commit.rev
    BY <2>0, <2>3 DEF EventsInvert
  <2>7. /\ i - 1 \in 0..Len(hist) /\ Made(i - 1) = log[i].since
        /\ i - 1 > 0 => hist[i - 1].commit.rev < hist[j].commit.rev
    <3>1. CASE i = 1
      BY <2>0, <2>4, <3>1 DEF Made
    <3>2. CASE i # 1
      <4>1. i - 1 \in 1..n /\ i - 1 \notin bad
        BY <2>0, <2>2, <3>2
      <4>2. i - 1 \in 1..Len(hist) /\ hist[i - 1].commit = log[i - 1].commit
        BY <4>1 DEF Records
      <4> QED
        BY <2>0, <2>4, <2>5, <2>6, <3>2, <4>2 DEF Made, Records
    <3> QED
      BY <3>1, <3>2
  <2>8. hist[j].base = Made(i - 1)
    BY <2>5, <2>7 DEF Records
  <2>9. j = (i - 1) + 1
    BY <2>7, <2>8, NextInHistory
  <2>10. j = i
    BY <2>3, <2>9
  <2> QED
    BY <2>2, <2>5, <2>10
<1> QED
  BY <1>1, <1>2, <1>3, Invariance, BatchInvariance, PTL DEF Spec

\* A consumer that plays what the operations say has the tree of each event for
\* as long as the events chain.
LEMMA MirrorFollows ==
    ASSUME Len(log) \in Nat, EventsApply, log \in Seq(LogEntries),
           NEW n \in 1..Len(log), Unbroken(n)
    PROVE  Mirror(n) = log[n].commit.tree
<1> DEFINE Body(f) == [i \in 0..n |->
                          IF i = 0 THEN EmptyTree
                          ELSE IF log[i].kind = "sync" THEN log[i].commit.tree
                          ELSE Play(f[i - 1], log[i].ops)]
           M == CHOOSE f : f = Body(f)
           c == [i \in 0..n |-> IF i = 0 THEN EmptyTree ELSE log[i].commit.tree]
           bad == {i \in 1..n : M[i] # c[i]}
<1>0. Mirror(n) = M[n]
  BY DEF Mirror
<1>1. n \in Nat /\ \A i \in 1..n : i \in 1..Len(log)
  OBVIOUS
<1>2. ASSUME NEW i \in 1..n, log[i].kind # "sync" PROVE c[i] = Play(c[i - 1], log[i].ops)
  <2>0. log[i].kind = "commit"
    <3>1. log[i] \in LogEntries
      BY <1>1, ElementOfSeq
    <3> QED
      BY <1>2, <3>1 DEF LogEntries
  <2>1. log[i].since = (IF i = 1 THEN NoCommit ELSE log[i - 1].commit)
    BY <1>2 DEF Unbroken, Follows
  <2>2. Play(log[i].since.tree, log[i].ops) = log[i].commit.tree
    BY <1>1, <2>0 DEF EventsApply
  <2>3. i - 1 \in 0..n /\ (i - 1 = 0 <=> i = 1)
    OBVIOUS
  <2>4. c[i - 1] = log[i].since.tree
    BY <2>1, <2>3 DEF NoCommit
  <2>5. c[i] = log[i].commit.tree
    OBVIOUS
  <2> QED
    BY <2>2, <2>4, <2>5
<1>3. c = Body(c)
  <2>1. ASSUME NEW i \in 0..n PROVE c[i] = Body(c)[i]
    <3>1. CASE i = 0
      BY <3>1
    <3>2. CASE i \in 1..n /\ log[i].kind = "sync"
      BY <3>2
    <3>3. CASE i \in 1..n /\ log[i].kind # "sync"
      <4>1. Body(c)[i] = Play(c[i - 1], log[i].ops)
        <5> HIDE DEF c
        <5> QED
          BY <3>3
      <4> QED
        BY <1>2, <3>3, <4>1
    <3> QED
      BY <2>1, <3>1, <3>2, <3>3
  <2> QED
    BY <2>1
<1>4. M = Body(M)
  <2> HIDE DEF Body, c
  <2> QED
    BY <1>3
<1> HIDE DEF M
<1>5. M[0] = EmptyTree
  BY <1>4
<1>6. ASSUME NEW i \in 1..n
      PROVE  M[i] = IF log[i].kind = "sync" THEN log[i].commit.tree
                    ELSE Play(M[i - 1], log[i].ops)
  <2>1. M[i] = Body(M)[i]
    BY <1>4
  <2> QED
    BY <2>1
<1> HIDE DEF Body
<1>7. bad = {}
  <2> SUFFICES ASSUME bad # {} PROVE FALSE
    OBVIOUS
  <2>1. PICK k \in bad : \A y \in bad : k <= y
    <3>1. bad \in SUBSET (1..n)
      OBVIOUS
    <3> HIDE DEF bad
    <3> QED
      BY <1>1, <3>1, FirstAndLast
  <2>2. k \in 1..n /\ k - 1 \in 0..n /\ (k = 1 \/ (k - 1 \in 1..n /\ M[k - 1] = c[k - 1])) /\ M[k] # c[k]
    <3> HIDE DEF c
    <3> QED
      BY <2>1
  <2>3. M[k - 1] = c[k - 1]
    <3>1. CASE k = 1
      <4>1. c[0] = EmptyTree
        OBVIOUS
      <4> QED
        BY <1>5, <3>1, <4>1
    <3>2. CASE k # 1
      BY <2>2, <3>2
    <3> QED
      BY <3>1, <3>2
  <2>4. c[k] = log[k].commit.tree
    BY <2>2
  <2> HIDE DEF c, bad
  <2>5. CASE log[k].kind = "sync"
    BY <1>6, <2>2, <2>4, <2>5
  <2>6. CASE log[k].kind # "sync"
    BY <1>2, <1>6, <2>2, <2>3, <2>6
  <2> QED
    BY <2>5, <2>6
<1>8. M[n] = c[n]
  <2>1. n \in 1..n
    BY <1>1
  <2> HIDE DEF c
  <2> QED
    BY <1>7, <2>1
<1>9. c[n] = log[n].commit.tree
  OBVIOUS
<1> QED
  BY <1>0, <1>8, <1>9

\* A consumer for whom the events chain has the tree of each event and, at the
\* current root, the record index, for any number of writers, imports, crashes and
\* lost or reordered events, and for events and batches of any length.
THEOREM ConsumersMirror == Spec => []MirrorIsRepo
<1>1. BInv => MirrorIsRepo
  <2> SUFFICES ASSUME BInv, NEW n \in 1..Len(log), Unbroken(n)
               PROVE  /\ Mirror(n) = log[n].commit.tree
                      /\ log[n].commit = root /\ ~RacedImport => Mirror(n) = index
    BY DEF MirrorIsRepo
  <2>1. Len(log) \in Nat /\ log \in Seq(LogEntries) /\ EventsApply
    BY LenProperties DEF BInv, IInv, TypeOK
  <2>2. Mirror(n) = log[n].commit.tree
    BY <2>1, MirrorFollows
  <2>3. ~RacedImport => index = root.tree
    BY DEF BInv, IInv, IndexIsTree
  <2> QED
    BY <2>2, <2>3
<1> QED
  BY <1>1, BatchInvariance, PTL
=============================================================================
