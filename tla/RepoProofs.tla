----------------------------- MODULE RepoProofs -----------------------------
(***************************************************************************)
(* Proofs about Repo for every set of requests, paths, records, batches and *)
(* uploads: the record index, the blob references and the order of commits. *)
(***************************************************************************)
EXTENDS RepoProperties, RangeLemmas, TLAPS

USE DEF tables, locals

\* Values of the types that occur in the steps.
LEMMA InitialTypes ==
    /\ EmptyTree \in Trees /\ NoCommit \in Commits
    /\ NothingMade \in [commit : Commits, rec : SUBSET Values]
    /\ EmptyTxn \in [rec : SUBSET Values, index : Trees, refs : SUBSET (Blobs \X Paths),
                     metas : SUBSET Blobs]
    /\ AtRest.pc \in [Actors -> PcStates]
    /\ AtRest.req \in [Writers -> Seq(Ops)]
    /\ AtRest.base \in [Writers \cup Readers -> Commits]
    /\ AtRest.tree \in [Writers -> Trees]
    /\ AtRest.results \in [Writers -> Seq(Results)]
    /\ AtRest.made \in [Writers \cup Importers -> [commit : Commits, rec : SUBSET Values]]
<1>1. EmptyTree \in Trees
  BY DEF EmptyTree, Trees
<1>2. NoCommit \in Commits
  BY <1>1 DEF NoCommit, Commits
<1>3. NothingMade \in [commit : Commits, rec : SUBSET Values]
  BY <1>2 DEF NothingMade
<1>4. EmptyTxn \in [rec : SUBSET Values, index : Trees, refs : SUBSET (Blobs \X Paths),
                     metas : SUBSET Blobs]
  BY <1>1 DEF EmptyTxn
<1>5. <<>> \in Seq(Ops) /\ <<>> \in Seq(Results)
  OBVIOUS
<1> QED
  BY <1>1, <1>2, <1>3, <1>4, <1>5 DEF AtRest, PcStates

\* The variables of a request are well typed after it has ended.
LEMMA ReturnType ==
    ASSUME TypeOK, NEW a \in Actors, Return(a)
    PROVE  /\ pc' \in [Actors -> PcStates] /\ req' \in [Writers -> Seq(Ops)]
           /\ base' \in [Writers \cup Readers -> Commits] /\ tree' \in [Writers -> Trees]
           /\ results' \in [Writers -> Seq(Results)]
           /\ made' \in [Writers \cup Importers -> [commit : Commits, rec : SUBSET Values]]
<1>1. pc' \in [Actors -> PcStates]
  BY DEF Return, Goto, TypeOK, PcStates
<1>2. req' \in [Writers -> Seq(Ops)] /\ results' \in [Writers -> Seq(Results)]
  <2>1. <<>> \in Seq(Ops) /\ <<>> \in Seq(Results)
    OBVIOUS
  <2> QED
    BY <2>1 DEF Return, TypeOK
<1>3. base' \in [Writers \cup Readers -> Commits] /\ tree' \in [Writers -> Trees]
  BY InitialTypes DEF Return, TypeOK
<1>4. made' \in [Writers \cup Importers -> [commit : Commits, rec : SUBSET Values]]
  BY InitialTypes DEF Return, TypeOK
<1> QED
  BY <1>1, <1>2, <1>3, <1>4

\* The references of a tree are pairs of a blob and a path.
LEMMA RefsOfType ==
    ASSUME NEW t PROVE RefsOf(t) \in SUBSET (Blobs \X Paths)
BY DEF RefsOf

\* A request starts with operations of the right type.
LEMMA BatchType ==
    /\ \A b \in Batches : b \in Seq(Ops)
    /\ \A p \in Paths, v \in Values, act \in {"create", "update"} :
          <<[action |-> act, path |-> p, value |-> v]>> \in Seq(Ops)
<1>1. \A b \in Batches : b \in Seq(Ops)
  BY BatchesAssumption
<1>2. \A p \in Paths, v \in Values, act \in {"create", "update"} :
          [action |-> act, path |-> p, value |-> v] \in Ops
  BY DEF Ops, Actions
<1> QED
  BY <1>1, <1>2

\* One operation on the tree and the results.
LEMMA AppliedType ==
    ASSUME TypeOK, NEW w \in Writers, NEW op \in Ops, req[w] # <<>>, Applied(w, op)
    PROVE  /\ req' \in [Writers -> Seq(Ops)] /\ tree' \in [Writers -> Trees]
           /\ results' \in [Writers -> Seq(Results)]
<1>1. req' \in [Writers -> Seq(Ops)]
  <2>1. Tail(req[w]) \in Seq(Ops)
    BY RangeTail DEF TypeOK
  <2> QED
    BY <2>1 DEF Applied, TypeOK
<1>2. tree' \in [Writers -> Trees]
  <2>1. [tree[w] EXCEPT ![op.path] = op.value] \in Trees
    BY DEF Trees, Ops, TypeOK
  <2>2. tree' = [tree EXCEPT ![w] = [tree[w] EXCEPT ![op.path] = op.value]]
    BY DEF Applied
  <2> QED
    BY <2>1, <2>2 DEF TypeOK
<1>3. results' \in [Writers -> Seq(Results)]
  <2> DEFINE r == [action |-> op.action, path |-> op.path, cid |-> op.value,
                   prev |-> tree[w][op.path]]
  <2>1. r \in Results
    BY DEF Ops, Actions, Results, TypeOK, Trees
  <2>2. Append(results[w], r) \in Seq(Results)
    BY <2>1, AppendProperties DEF TypeOK
  <2>3. results' = [results EXCEPT ![w] = Append(results[w], r)]
    BY DEF Applied
  <2> QED
    BY <2>2, <2>3 DEF TypeOK
<1> QED
  BY <1>1, <1>2, <1>3

-----------------------------------------------------------------------------
\* Every step of a request keeps the types.
LEMMA TypeStep == TypeOK /\ [Next]_vars => TypeOK'
<1> SUFFICES ASSUME TypeOK, [Next]_vars PROVE TypeOK'
  OBVIOUS
<1> USE DEF PcStates
<1>a. Writers \subseteq Actors /\ Importers \subseteq Actors /\ Readers \subseteq Actors
  BY DEF Actors
<1>1. ASSUME NEW w \in Writers, StartWrite(w) PROVE TypeOK'
  BY <1>1, <1>a, BatchType DEF StartWrite, Goto, TypeOK
<1>2. ASSUME NEW w \in Writers, StartPut(w) PROVE TypeOK'
  <2>1. PICK p \in Paths, v \in Values, act \in {"create", "update"} :
          req' = [req EXCEPT ![w] = <<[action |-> act, path |-> p, value |-> v]>>]
    BY <1>2 DEF StartPut
  <2>2. req' \in [Writers -> Seq(Ops)]
    BY <2>1, BatchType DEF TypeOK
  <2> QED
    BY <1>2, <1>a, <2>2 DEF StartPut, Goto, TypeOK
<1>3. ASSUME NEW w \in Writers, AcquireLock(w) PROVE TypeOK'
  BY <1>3, <1>a DEF AcquireLock, Goto, TypeOK
<1>4. ASSUME NEW w \in Writers, ReadRoot(w) PROVE TypeOK'
  BY <1>4, <1>a, InitialTypes DEF ReadRoot, Goto, TypeOK
<1>5. ASSUME NEW w \in Writers, LoadTree(w) PROVE TypeOK'
  <2>1. base[w].tree \in Trees
    BY DEF TypeOK, Commits
  <2> QED
    BY <1>5, <1>a, <2>1 DEF LoadTree, Goto, TypeOK
<1>6. ASSUME NEW w \in Writers, BeginWrite(w) PROVE TypeOK'
  BY <1>6, <1>a DEF BeginWrite, Goto, TypeOK
<1>7. ASSUME NEW w \in Writers, ApplyDelete(w) PROVE TypeOK'
  <2> DEFINE op == Head(req[w])
  <2>1. op \in Ops /\ req[w] # <<>> /\ Applied(w, op)
    BY <1>7, RangeTail DEF ApplyDelete, TypeOK
  <2>2. op.path \in Paths
    BY <2>1 DEF Ops
  <2>3. /\ req' \in [Writers -> Seq(Ops)] /\ tree' \in [Writers -> Trees]
        /\ results' \in [Writers -> Seq(Results)]
    BY <2>1, AppliedType
  <2>4. txn' \in [rec : SUBSET Values, index : Trees, refs : SUBSET (Blobs \X Paths),
                 metas : SUBSET Blobs]
    <3>1. txn' = [txn EXCEPT !.index = [txn.index EXCEPT ![op.path] = None],
                             !.refs = {r \in txn.refs : r[2] # op.path}]
      BY <1>7 DEF ApplyDelete
    <3>2. [txn.index EXCEPT ![op.path] = None] \in Trees
      BY DEF TypeOK, Trees
    <3> QED
      BY <3>1, <3>2 DEF TypeOK
  <2> QED
    BY <2>1, <2>3, <2>4 DEF Applied, TypeOK
<1>8. ASSUME NEW w \in Writers, ApplyUpsert(w) PROVE TypeOK'
  <2> DEFINE op == Head(req[w])
  <2>1. op \in Ops /\ req[w] # <<>> /\ Applied(w, op) /\ op.action # "delete"
    BY <1>8, RangeTail DEF ApplyUpsert, TypeOK
  <2>2. op.path \in Paths /\ op.value \in Values
    BY <2>1 DEF Ops
  <2>3. /\ req' \in [Writers -> Seq(Ops)] /\ tree' \in [Writers -> Trees]
        /\ results' \in [Writers -> Seq(Results)]
    BY <2>1, AppliedType
  <2>4. txn' \in [rec : SUBSET Values, index : Trees, refs : SUBSET (Blobs \X Paths),
                 metas : SUBSET Blobs]
    <3>1. txn' = [txn EXCEPT !.rec = txn.rec \cup {op.value},
                             !.index = [txn.index EXCEPT ![op.path] = op.value],
                             !.refs = {r \in txn.refs : r[2] # op.path}
                                         \cup (BlobsOf[op.value] \X {op.path}),
                             !.metas = txn.metas \cup BlobsOf[op.value]]
      BY <1>8 DEF ApplyUpsert
    <3>2. [txn.index EXCEPT ![op.path] = op.value] \in Trees
      BY <2>2 DEF TypeOK, Trees
    <3>3. BlobsOf[op.value] \subseteq Blobs
      BY <2>2 DEF Blobs
    <3> QED
      BY <2>2, <3>1, <3>2, <3>3 DEF TypeOK
  <2> QED
    BY <2>1, <2>3, <2>4 DEF Applied, TypeOK
<1>9. ASSUME NEW w \in Writers, CommitWrite(w) PROVE TypeOK'
  <2>1. PICK rev \in (base[w].rev + 1)..MaxRev :
          LET c == [tree |-> tree[w], rev |-> rev] IN
          /\ blocks' = [rec |-> blocks.rec \cup txn.rec,
                        node |-> blocks.node \cup (IF Dirty(w) THEN {tree[w]} ELSE {}),
                        commit |-> blocks.commit \cup {c}]
          /\ root' = c
          /\ made' = [made EXCEPT ![w] = [commit |-> c, rec |-> txn.rec]]
          /\ hist' = Append(hist, [kind |-> "write", commit |-> c, base |-> base[w]])
    BY <1>9 DEF CommitWrite, NextRev
  <2> DEFINE c == [tree |-> tree[w], rev |-> rev]
  <2>2. c \in Commits
    <3>1. base[w].rev \in Nat /\ tree[w] \in Trees
      BY DEF TypeOK, Commits
    <3> QED
      BY <3>1, BoundsAssumption DEF Commits
  <2>3. blocks' \in [rec : SUBSET Values, node : SUBSET Trees, commit : SUBSET Commits]
    BY <2>1, <2>2 DEF TypeOK
  <2>4. /\ root' \in Commits
        /\ made' \in [Writers \cup Importers -> [commit : Commits, rec : SUBSET Values]]
    BY <2>1, <2>2 DEF TypeOK
  <2>5. hist' \in Seq(HistEntries)
    <3>1. [kind |-> "write", commit |-> c, base |-> base[w]] \in HistEntries
      BY <2>2 DEF HistEntries, TypeOK
    <3> QED
      BY <2>1, <3>1, AppendProperties DEF TypeOK
  <2> QED
    BY <1>9, <1>a, <2>3, <2>4, <2>5, InitialTypes DEF CommitWrite, Goto, TypeOK
<1>10. ASSUME NEW w \in Writers, Abort(w) PROVE TypeOK'
  <2>1. Return(w)
    BY <1>10 DEF Abort
  <2> QED
    BY <1>10, <1>a, <2>1, ReturnType, InitialTypes DEF Abort, TypeOK
<1>11. ASSUME NEW w \in Writers, EmitCommit(w) PROVE TypeOK'
  <2>1. Return(w)
    BY <1>11 DEF EmitCommit
  <2>2. log' \in Seq(LogEntries)
    <3>1. [kind |-> "commit", commit |-> made[w].commit, rec |-> made[w].rec,
           since |-> base[w], ops |-> results[w]] \in LogEntries
      BY DEF LogEntries, TypeOK
    <3> QED
      BY <1>11, <3>1, AppendProperties DEF EmitCommit, TypeOK
  <2> QED
    BY <1>11, <1>a, <2>1, <2>2, ReturnType DEF EmitCommit, TypeOK
<1>12. ASSUME NEW a \in Writers \cup Importers, EmitFails(a) PROVE TypeOK'
  <2>1. Return(a)
    BY <1>12 DEF EmitFails
  <2> QED
    BY <1>12, <1>a, <2>1, ReturnType DEF EmitFails, TypeOK
<1>13. ASSUME NEW i \in Importers, BeginImport(i) PROVE TypeOK'
  BY <1>13, <1>a DEF BeginImport, Goto, TypeOK
<1>14. ASSUME NEW i \in Importers, CommitImport(i) PROVE TypeOK'
  <2>1. PICK c \in Uploads :
          LET recs == Range(c.tree) \ {None} IN
          /\ blocks' = [rec |-> recs, node |-> {c.tree}, commit |-> {c}]
          /\ index' = c.tree
          /\ refs' = RefsOf(c.tree)
          /\ metas' = UNION {BlobsOf[v] : v \in recs}
          /\ root' = c
          /\ made' = [made EXCEPT ![i] = [commit |-> c, rec |-> {}]]
          /\ hist' = Append(hist, [kind |-> "import", commit |-> c, base |-> root])
    BY <1>14 DEF CommitImport
  <2>2. c \in Commits /\ c.tree \in Trees
    BY UploadsAssumption DEF Commits
  <2>3. Range(c.tree) \ {None} \subseteq Values
    BY <2>2 DEF Trees, Range
  <2>4. metas' \in SUBSET Blobs
    BY <2>1, <2>3 DEF Blobs
  <2>5. refs' \in SUBSET (Blobs \X Paths)
    BY <2>1, RefsOfType
  <2>6. hist' \in Seq(HistEntries)
    <3>1. [kind |-> "import", commit |-> c, base |-> root] \in HistEntries
      BY <2>2 DEF HistEntries, TypeOK
    <3> QED
      BY <2>1, <3>1, AppendProperties DEF TypeOK
  <2>7. blocks' \in [rec : SUBSET Values, node : SUBSET Trees, commit : SUBSET Commits]
    BY <2>1, <2>2, <2>3
  <2>8. made' \in [Writers \cup Importers -> [commit : Commits, rec : SUBSET Values]]
    BY <2>1, <2>2 DEF TypeOK
  <2> QED
    BY <1>14, <1>a, <2>1, <2>2, <2>4, <2>5, <2>6, <2>7, <2>8 DEF CommitImport, Goto, TypeOK
<1>15. ASSUME NEW i \in Importers, AbortImport(i) PROVE TypeOK'
  <2>1. Return(i)
    BY <1>15 DEF AbortImport
  <2> QED
    BY <1>15, <1>a, <2>1, ReturnType DEF AbortImport, TypeOK
<1>16. ASSUME NEW i \in Importers, EmitSync(i) PROVE TypeOK'
  <2>1. Return(i)
    BY <1>16 DEF EmitSync
  <2>2. log' \in Seq(LogEntries)
    <3>1. [kind |-> "sync", commit |-> made[i].commit] \in LogEntries
      BY DEF LogEntries, TypeOK
    <3> QED
      BY <1>16, <3>1, AppendProperties DEF EmitSync, TypeOK
  <2> QED
    BY <1>16, <1>a, <2>1, <2>2, ReturnType DEF EmitSync, TypeOK
<1>17. ASSUME NEW r \in Readers, ReadRepoRoot(r) PROVE TypeOK'
  BY <1>17, <1>a DEF ReadRepoRoot, Goto, TypeOK
<1>18. ASSUME NEW r \in Readers, ReadAllBlocks(r) PROVE TypeOK'
  <2>1. Return(r)
    BY <1>18 DEF ReadAllBlocks
  <2> QED
    BY <1>18, <1>a, <2>1, ReturnType DEF ReadAllBlocks, TypeOK
<1>19. ASSUME Crash PROVE TypeOK'
  BY <1>19, InitialTypes DEF Crash, TypeOK
<1>20. ASSUME UNCHANGED vars PROVE TypeOK'
  BY <1>20 DEF vars, TypeOK
<1> QED
  BY <1>1, <1>2, <1>3, <1>4, <1>5, <1>6, <1>7, <1>8, <1>9, <1>10, <1>11, <1>12, <1>13, <1>14,
     <1>15, <1>16, <1>17, <1>18, <1>19, <1>20 DEF Next, Write, Import, Read

\* The mutex is held from AcquireLock to the commit, the connection from
\* BeginTx to it, and an error or a crash frees both.
LEMMA LockStep == TypeOK /\ LockInv /\ ConnInv /\ [Next]_vars => LockInv' /\ ConnInv'
<1> SUFFICES ASSUME TypeOK, LockInv, ConnInv, [Next]_vars PROVE LockInv' /\ ConnInv'
  OBVIOUS
<1>a. /\ Writers \subseteq Actors /\ Importers \subseteq Actors /\ Readers \subseteq Actors
      /\ pc \in [Actors -> PcStates]
  BY DEF Actors, TypeOK
<1>b. /\ Free \notin Writers \cup Importers \cup Readers
      /\ Writers \cap Importers = {} /\ Writers \cap Readers = {} /\ Importers \cap Readers = {}
  BY ActorsAssumption
<1> USE <1>a, <1>b DEF LockInv, ConnInv, Goto
<1>1. ASSUME NEW w \in Writers, StartWrite(w) PROVE LockInv' /\ ConnInv'
  BY <1>1 DEF StartWrite
<1>2. ASSUME NEW w \in Writers, StartPut(w) PROVE LockInv' /\ ConnInv'
  BY <1>2 DEF StartPut
<1>3. ASSUME NEW w \in Writers, AcquireLock(w) PROVE LockInv' /\ ConnInv'
  BY <1>3 DEF AcquireLock
<1>4. ASSUME NEW w \in Writers, ReadRoot(w) PROVE LockInv' /\ ConnInv'
  BY <1>4 DEF ReadRoot
<1>5. ASSUME NEW w \in Writers, LoadTree(w) PROVE LockInv' /\ ConnInv'
  BY <1>5 DEF LoadTree
<1>6. ASSUME NEW w \in Writers, BeginWrite(w) PROVE LockInv' /\ ConnInv'
  BY <1>6 DEF BeginWrite
<1>7. ASSUME NEW w \in Writers, ApplyDelete(w) \/ ApplyUpsert(w) PROVE LockInv' /\ ConnInv'
  BY <1>7 DEF ApplyDelete, ApplyUpsert, Applied
<1>8. ASSUME NEW w \in Writers, CommitWrite(w) PROVE LockInv' /\ ConnInv'
  BY <1>8 DEF CommitWrite
<1>9. ASSUME NEW w \in Writers, Abort(w) PROVE LockInv' /\ ConnInv'
  <2>1. /\ pc' = [pc EXCEPT ![w] = "idle"] /\ lock' = Free
        /\ conn' = (IF conn = w THEN Free ELSE conn)
        /\ pc[w] \in {"root", "load", "begin", "tx"}
    BY <1>9 DEF Abort, Return
  <2>2. lock = w
    BY <2>1
  <2> QED
    BY <2>1, <2>2
<1>10. ASSUME NEW a \in Writers \cup Importers, EmitFails(a) PROVE LockInv' /\ ConnInv'
  BY <1>10 DEF EmitFails, Return
<1>11. ASSUME NEW w \in Writers, EmitCommit(w) PROVE LockInv' /\ ConnInv'
  BY <1>11 DEF EmitCommit, Return
<1>12. ASSUME NEW i \in Importers, BeginImport(i) PROVE LockInv' /\ ConnInv'
  BY <1>12 DEF BeginImport
<1>13. ASSUME NEW i \in Importers, CommitImport(i) PROVE LockInv' /\ ConnInv'
  BY <1>13 DEF CommitImport
<1>14. ASSUME NEW i \in Importers, AbortImport(i) PROVE LockInv' /\ ConnInv'
  BY <1>14 DEF AbortImport, Return
<1>15. ASSUME NEW i \in Importers, EmitSync(i) PROVE LockInv' /\ ConnInv'
  BY <1>15 DEF EmitSync, Return
<1>16. ASSUME NEW r \in Readers, ReadRepoRoot(r) PROVE LockInv' /\ ConnInv'
  BY <1>16 DEF ReadRepoRoot
<1>17. ASSUME NEW r \in Readers, ReadAllBlocks(r) PROVE LockInv' /\ ConnInv'
  BY <1>17 DEF ReadAllBlocks, Return
<1>18. ASSUME Crash PROVE LockInv' /\ ConnInv'
  BY <1>18 DEF Crash, AtRest
<1>19. ASSUME UNCHANGED vars PROVE LockInv' /\ ConnInv'
  BY <1>19 DEF vars
<1> QED
  BY <1>1, <1>2, <1>3, <1>4, <1>5, <1>6, <1>7, <1>8, <1>9, <1>10, <1>11, <1>12, <1>13, <1>14,
     <1>15, <1>16, <1>17, <1>18, <1>19 DEF Next, Write, Import, Read

\* A write keeps the root it has loaded until it returns, and loads no other
\* than the current one; its tree is that root's when the transaction begins.
LEMMA LoadStep ==
    ASSUME TypeOK, [Next]_vars
    PROVE  \A w \in Writers :
             /\ pc'[w] \in {"load", "begin", "tx"} =>
                   \/ pc[w] \in {"load", "begin", "tx"} /\ base'[w] = base[w]
                   \/ base'[w] = root
             /\ pc'[w] = "begin" =>
                   \/ pc[w] = "begin" /\ tree'[w] = tree[w] /\ base'[w] = base[w]
                   \/ tree'[w] = base'[w].tree
<1> DEFINE P == \A w \in Writers :
             /\ pc'[w] \in {"load", "begin", "tx"} =>
                   \/ pc[w] \in {"load", "begin", "tx"} /\ base'[w] = base[w]
                   \/ base'[w] = root
             /\ pc'[w] = "begin" =>
                   \/ pc[w] = "begin" /\ tree'[w] = tree[w] /\ base'[w] = base[w]
                   \/ tree'[w] = base'[w].tree
<1>a. /\ Writers \subseteq Actors /\ Importers \subseteq Actors /\ Readers \subseteq Actors
      /\ pc \in [Actors -> PcStates] /\ tree \in [Writers -> Trees]
      /\ base \in [Writers \cup Readers -> Commits]
      /\ Writers \cap Importers = {} /\ Writers \cap Readers = {}
  BY ActorsAssumption DEF Actors, TypeOK
<1>0. ASSUME NEW a \in Actors, Return(a) PROVE P
  BY <1>0, <1>a DEF Return, Goto
<1> USE <1>a DEF Goto
<1>1. ASSUME NEW w \in Writers, StartWrite(w) PROVE P
  BY <1>1 DEF StartWrite
<1>2. ASSUME NEW w \in Writers, StartPut(w) PROVE P
  BY <1>2 DEF StartPut
<1>3. ASSUME NEW w \in Writers, AcquireLock(w) PROVE P
  BY <1>3 DEF AcquireLock
<1>4. ASSUME NEW w \in Writers, ReadRoot(w) PROVE P
  BY <1>4 DEF ReadRoot, NoCommit
<1>5. ASSUME NEW w \in Writers, LoadTree(w) PROVE P
  BY <1>5 DEF LoadTree
<1>6. ASSUME NEW w \in Writers, BeginWrite(w) PROVE P
  BY <1>6 DEF BeginWrite
<1>7. ASSUME NEW w \in Writers, ApplyDelete(w) \/ ApplyUpsert(w) PROVE P
  BY <1>7 DEF ApplyDelete, ApplyUpsert, Applied
<1>8. ASSUME NEW w \in Writers, CommitWrite(w) PROVE P
  BY <1>8 DEF CommitWrite
<1>9. ASSUME NEW w \in Writers, Abort(w) \/ EmitCommit(w) PROVE P
  BY <1>9, <1>0 DEF Abort, EmitCommit
<1>10. ASSUME NEW a \in Writers \cup Importers, EmitFails(a) PROVE P
  BY <1>10, <1>0 DEF EmitFails
<1>11. ASSUME NEW i \in Importers, BeginImport(i) \/ CommitImport(i) PROVE P
  BY <1>11 DEF BeginImport, CommitImport
<1>12. ASSUME NEW i \in Importers, AbortImport(i) \/ EmitSync(i) PROVE P
  BY <1>12, <1>0 DEF AbortImport, EmitSync
<1>13. ASSUME NEW r \in Readers, ReadRepoRoot(r) PROVE P
  BY <1>13 DEF ReadRepoRoot
<1>14. ASSUME NEW r \in Readers, ReadAllBlocks(r) PROVE P
  BY <1>14, <1>0 DEF ReadAllBlocks
<1>15. ASSUME Crash PROVE P
  BY <1>15 DEF Crash, AtRest
<1>16. ASSUME UNCHANGED vars PROVE P
  BY <1>16 DEF vars
<1> QED
  BY <1>1, <1>2, <1>3, <1>4, <1>5, <1>6, <1>7, <1>8, <1>9, <1>10, <1>11, <1>12, <1>13, <1>14,
     <1>15, <1>16 DEF Next, Write, Import, Read

\* Only two steps write the tables.
LEMMA TablesChange ==
    ASSUME [Next]_vars
    PROVE  \/ UNCHANGED <<blocks, index, refs, metas, root, hist>>
           \/ \E w \in Writers : CommitWrite(w)
           \/ \E i \in Importers : CommitImport(i)
<1> DEFINE Same == UNCHANGED <<blocks, index, refs, metas, root, hist>>
<1>1. ASSUME NEW w \in Writers, StartWrite(w) PROVE Same
  BY <1>1 DEF StartWrite
<1>2. ASSUME NEW w \in Writers, StartPut(w) PROVE Same
  BY <1>2 DEF StartPut
<1>3. ASSUME NEW w \in Writers, AcquireLock(w) PROVE Same
  BY <1>3 DEF AcquireLock
<1>4. ASSUME NEW w \in Writers, ReadRoot(w) PROVE Same
  BY <1>4 DEF ReadRoot
<1>5. ASSUME NEW w \in Writers, LoadTree(w) PROVE Same
  BY <1>5 DEF LoadTree
<1>6. ASSUME NEW w \in Writers, BeginWrite(w) PROVE Same
  BY <1>6 DEF BeginWrite
<1>7. ASSUME NEW w \in Writers, ApplyDelete(w) PROVE Same
  BY <1>7 DEF ApplyDelete, Applied
<1>8. ASSUME NEW w \in Writers, ApplyUpsert(w) PROVE Same
  BY <1>8 DEF ApplyUpsert, Applied
<1>9. ASSUME NEW w \in Writers, Abort(w) PROVE Same
  BY <1>9 DEF Abort
<1>10. ASSUME NEW w \in Writers, EmitCommit(w) PROVE Same
  BY <1>10 DEF EmitCommit
<1>11. ASSUME NEW a \in Writers \cup Importers, EmitFails(a) PROVE Same
  BY <1>11 DEF EmitFails
<1>12. ASSUME NEW i \in Importers, BeginImport(i) PROVE Same
  BY <1>12 DEF BeginImport
<1>13. ASSUME NEW i \in Importers, AbortImport(i) PROVE Same
  BY <1>13 DEF AbortImport
<1>14. ASSUME NEW i \in Importers, EmitSync(i) PROVE Same
  BY <1>14 DEF EmitSync
<1>15. ASSUME NEW r \in Readers, ReadRepoRoot(r) PROVE Same
  BY <1>15 DEF ReadRepoRoot
<1>16. ASSUME NEW r \in Readers, ReadAllBlocks(r) PROVE Same
  BY <1>16 DEF ReadAllBlocks
<1>17. ASSUME Crash PROVE Same
  BY <1>17 DEF Crash
<1>18. ASSUME UNCHANGED vars PROVE Same
  BY <1>18 DEF vars
<1> HIDE DEF Same
<1>19. ASSUME NEW w \in Writers, Write(w) PROVE Same \/ CommitWrite(w)
  BY <1>19, <1>1, <1>2, <1>3, <1>4, <1>5, <1>6, <1>7, <1>8, <1>9, <1>10, <1>11 DEF Write
<1>20. ASSUME NEW i \in Importers, Import(i) PROVE Same \/ CommitImport(i)
  BY <1>20, <1>11, <1>12, <1>13, <1>14 DEF Import
<1>21. ASSUME NEW r \in Readers, Read(r) PROVE Same
  BY <1>21, <1>15, <1>16 DEF Read
<1>22. Same \/ (\E w \in Writers : CommitWrite(w)) \/ \E i \in Importers : CommitImport(i)
  BY <1>17, <1>18, <1>19, <1>20, <1>21 DEF Next
<1> QED
  BY <1>22 DEF Same

\* What the history says of the commits and imports before the last one.
LEMMA HistAppend ==
    ASSUME TypeOK, NEW e \in HistEntries, hist' = Append(hist, e)
    PROVE  /\ Len(hist) \in Nat /\ Len(hist') = Len(hist) + 1
           /\ \A i \in 1..Len(hist) : hist'[i] = hist[i]
           /\ hist'[Len(hist) + 1] = e
           /\ \A k \in 0..Len(hist) : Made(k)' = Made(k)
           /\ Made(Len(hist))' = e.commit
<1>1. Len(hist) \in Nat
  BY LenProperties DEF TypeOK
<1>2. /\ Len(hist') = Len(hist) + 1 /\ \A i \in 1..Len(hist) : hist'[i] = hist[i]
      /\ hist'[Len(hist) + 1] = e
  BY AppendProperties DEF TypeOK
<1>3. ASSUME NEW k \in 0..Len(hist) PROVE Made(k)' = Made(k)
  BY <1>1, <1>2 DEF Made
<1>4. Made(Len(hist))' = e.commit
  BY <1>1, <1>2 DEF Made
<1> QED
  BY <1>1, <1>2, <1>3, <1>4

\* The order of commits: the root is the last of them, and a write replaces the
\* root it has loaded or an import that came later.
LEMMA HistStep ==
    TypeOK /\ LockInv /\ RootInv /\ LoadedInv /\ WritesAreSerial /\ [Next]_vars
        => RootInv' /\ LoadedInv' /\ WritesAreSerial'
<1> SUFFICES ASSUME TypeOK, LockInv, RootInv, LoadedInv, WritesAreSerial, [Next]_vars
             PROVE  RootInv' /\ LoadedInv' /\ WritesAreSerial'
  OBVIOUS
<1> DEFINE n == Len(hist)
<1>n. n \in Nat
  BY LenProperties DEF TypeOK
<1>1. CASE UNCHANGED <<hist, root>>
  <2>1. RootInv' /\ WritesAreSerial'
    BY <1>1 DEF RootInv, WritesAreSerial, Made
  <2>2. Recent(root)
    BY <1>n DEF RootInv, Recent
  <2>3. \A c : Recent(c) => Recent(c)'
    BY <1>1 DEF Recent, Made
  <2>4. LoadedInv'
    BY <2>2, <2>3, LoadStep DEF LoadedInv
  <2> QED
    BY <2>1, <2>4
<1>2. ASSUME NEW w \in Writers, CommitWrite(w) PROVE RootInv' /\ LoadedInv' /\ WritesAreSerial'
  <2>1. PICK rev \in (base[w].rev + 1)..MaxRev :
          /\ root' = [tree |-> tree[w], rev |-> rev]
          /\ hist' = Append(hist, [kind |-> "write", commit |-> [tree |-> tree[w], rev |-> rev],
                                   base |-> base[w]])
    BY <1>2 DEF CommitWrite, NextRev
  <2> DEFINE e == [kind |-> "write", commit |-> [tree |-> tree[w], rev |-> rev], base |-> base[w]]
  <2>2. base[w] \in Commits /\ base[w].rev \in Nat /\ tree[w] \in Trees
    BY DEF TypeOK, Commits
  <2>3. e \in HistEntries /\ rev \in Nat /\ rev > base[w].rev
    BY <2>2, BoundsAssumption DEF HistEntries, Commits
  <2> HIDE DEF e
  <2>4. /\ Len(hist') = n + 1 /\ hist'[n + 1] = e
        /\ \A i \in 1..n : hist'[i] = hist[i]
        /\ Made(Len(hist))' = e.commit
    BY <2>1, <2>3, HistAppend DEF e
  <2>5. RootInv'
    BY <2>1, <2>4 DEF RootInv, e
  <2>6. LoadedInv'
    <3>1. lock = w /\ pc' = [pc EXCEPT ![w] = "emit"]
      BY <1>2 DEF LockInv, CommitWrite, Goto
    <3>2. \A x \in Writers : pc'[x] \notin {"load", "begin", "tx"}
      BY <3>1 DEF LockInv, TypeOK, Actors
    <3> QED
      BY <3>2 DEF LoadedInv
  <2>7. PICK k \in 0..n : base[w] = Made(k) /\ \A m \in (k + 1)..n : hist[m].kind = "import"
    BY <1>2 DEF LoadedInv, Recent, CommitWrite
  <2>8. ASSUME NEW i \in 1..n, hist[i].kind = "write"
        PROVE  /\ k \in i..n /\ e.base = hist[k].commit
               /\ (\A m \in i..n : hist[m].kind = "write") => hist[i].commit.rev < rev
    <3>1. i <= k
      BY <1>n, <2>7, <2>8
    <3>2. k \in i..n /\ k # 0
      BY <1>n, <3>1
    <3>3. e.base = hist[k].commit
      BY <2>7, <3>2 DEF Made, e
    <3>4. ASSUME \A m \in i..n : hist[m].kind = "write" PROVE hist[i].commit.rev < rev
      <4>1. k = n
        <5>1. k < n => n \in (k + 1)..n /\ n \in i..n
          BY <1>n, <3>2
        <5> QED
          BY <1>n, <2>7, <3>4, <5>1
      <4>2. hist[n].commit.rev < rev
        BY <2>3, <3>3, <4>1 DEF e
      <4>3. i < n => hist[i].commit.rev < hist[n].commit.rev
        BY <1>n, <3>4 DEF WritesAreSerial
      <4>4. hist[i].commit.rev \in Nat /\ hist[n].commit.rev \in Nat
        <5>1. \A m \in 1..n : hist[m] \in HistEntries
          BY ElementOfSeq DEF TypeOK
        <5> QED
          BY <1>n, <5>1 DEF HistEntries, Commits
      <4> QED
        BY <1>n, <2>3, <4>2, <4>3, <4>4
    <3> QED
      BY <3>2, <3>3, <3>4
  <2>9. WritesAreSerial'
    <3> SUFFICES ASSUME NEW i \in 1..(n + 1), NEW j \in 1..(n + 1), i < j,
                        hist'[i].kind = "write", hist'[j].kind = "write"
                 PROVE  /\ \E m \in i..(j - 1) : hist'[j].base = hist'[m].commit
                        /\ (\A m \in i..j : hist'[m].kind = "write") =>
                               hist'[i].commit.rev < hist'[j].commit.rev
      BY <2>4 DEF WritesAreSerial
    <3>0. i \in 1..n /\ hist'[i] = hist[i]
      BY <1>n, <2>4
    <3>1. CASE j = n + 1
      <4>1. /\ k \in i..n /\ e.base = hist[k].commit
            /\ (\A m \in i..n : hist[m].kind = "write") => hist[i].commit.rev < rev
        BY <2>8, <3>0
      <4>2. hist'[j] = e /\ hist'[k] = hist[k] /\ k \in i..(j - 1)
        BY <1>n, <2>4, <3>1, <4>1
      <4>3. \A m \in i..n : m \in i..j /\ hist'[m] = hist[m]
        BY <1>n, <2>4, <3>0, <3>1
      <4>4. e.commit.rev = rev
        BY DEF e
      <4> QED
        BY <3>0, <4>1, <4>2, <4>3, <4>4
    <3>2. CASE j \in 1..n
      <4>1. \A m \in i..j : hist'[m] = hist[m]
        BY <1>n, <2>4, <3>0, <3>2
      <4>2. hist[i].kind = "write" /\ hist[j].kind = "write"
        BY <2>4, <3>0, <3>2
      <4>3. /\ \E m \in i..(j - 1) : hist[j].base = hist[m].commit
            /\ (\A m \in i..j : hist[m].kind = "write") => hist[i].commit.rev < hist[j].commit.rev
        BY <3>0, <3>2, <4>2 DEF WritesAreSerial
      <4> QED
        BY <3>0, <3>2, <4>1, <4>3
    <3> QED
      BY <1>n, <3>1, <3>2
  <2> QED
    BY <2>5, <2>6, <2>9
<1>3. ASSUME NEW a \in Importers, CommitImport(a) PROVE RootInv' /\ LoadedInv' /\ WritesAreSerial'
  <2>1. PICK c \in Uploads :
          root' = c /\ hist' = Append(hist, [kind |-> "import", commit |-> c, base |-> root])
    BY <1>3 DEF CommitImport
  <2> DEFINE e == [kind |-> "import", commit |-> c, base |-> root]
  <2>2. e \in HistEntries
    BY UploadsAssumption DEF HistEntries, TypeOK
  <2> HIDE DEF e
  <2>3. /\ Len(hist') = n + 1 /\ hist'[n + 1] = e
        /\ \A i \in 1..n : hist'[i] = hist[i]
        /\ \A k \in 0..n : Made(k)' = Made(k)
        /\ Made(Len(hist))' = e.commit
    BY <2>1, <2>2, HistAppend DEF e
  <2>4. RootInv'
    BY <2>1, <2>3 DEF RootInv, e
  <2>5. LoadedInv'
    <3> SUFFICES ASSUME NEW w \in Writers, pc'[w] \in {"load", "begin", "tx"}
                 PROVE  Recent(base[w])'
      BY DEF LoadedInv
    <3>1. pc'[w] = pc[w] /\ base' = base
      BY <1>3, ActorsAssumption DEF CommitImport, Goto, TypeOK, Actors
    <3>2. PICK k \in 0..n : base[w] = Made(k) /\ \A m \in (k + 1)..n : hist[m].kind = "import"
      BY <3>1 DEF LoadedInv, Recent
    <3>3. \A m \in (k + 1)..(n + 1) : hist'[m].kind = "import"
      <4> SUFFICES ASSUME NEW m \in (k + 1)..(n + 1) PROVE hist'[m].kind = "import"
        OBVIOUS
      <4>1. m = n + 1 \/ (m \in (k + 1)..n /\ m \in 1..n)
        BY <1>n
      <4> QED
        BY <2>3, <3>2, <4>1 DEF e
    <3>4. k \in 0..(n + 1) /\ base'[w] = Made(k)'
      BY <1>n, <2>3, <3>1, <3>2
    <3> QED
      BY <2>3, <3>3, <3>4 DEF Recent
  <2>6. WritesAreSerial'
    <3> SUFFICES ASSUME NEW i \in 1..(n + 1), NEW j \in 1..(n + 1), i < j,
                        hist'[i].kind = "write", hist'[j].kind = "write"
                 PROVE  /\ \E m \in i..(j - 1) : hist'[j].base = hist'[m].commit
                        /\ (\A m \in i..j : hist'[m].kind = "write") =>
                               hist'[i].commit.rev < hist'[j].commit.rev
      BY <2>3 DEF WritesAreSerial
    <3>1. i \in 1..n /\ j \in 1..n
      BY <1>n, <2>3 DEF e
    <3>2. \A m \in i..j : hist'[m] = hist[m]
      BY <1>n, <2>3, <3>1
    <3>3. /\ \E m \in i..(j - 1) : hist[j].base = hist[m].commit
          /\ (\A m \in i..j : hist[m].kind = "write") => hist[i].commit.rev < hist[j].commit.rev
      BY <3>1, <3>2 DEF WritesAreSerial
    <3> QED
      BY <3>1, <3>2, <3>3
  <2> QED
    BY <2>4, <2>5, <2>6
<1> QED
  BY <1>1, <1>2, <1>3, TablesChange

-----------------------------------------------------------------------------
\* An operation changes the references of its own path and no other.
LEMMA RefsOfUpdate ==
    ASSUME NEW t \in Trees, NEW p \in Paths, NEW v \in Values \cup {None}
    PROVE  RefsOf([t EXCEPT ![p] = v]) =
             {r \in RefsOf(t) : r[2] # p} \cup (IF v = None THEN {} ELSE BlobsOf[v] \X {p})
<1> DEFINE u == [t EXCEPT ![p] = v]
<1>1. u \in Trees /\ u[p] = v /\ \A q \in Paths : q # p => u[q] = t[q]
  BY DEF Trees
<1>2. v # None => BlobsOf[v] \subseteq Blobs
  BY DEF Blobs
<1> HIDE DEF u
<1>3. ASSUME NEW r \in Blobs \X Paths
      PROVE  r \in RefsOf(u) <=>
               r \in {x \in RefsOf(t) : x[2] # p} \cup (IF v = None THEN {} ELSE BlobsOf[v] \X {p})
  <2>1. CASE r[2] = p
    BY <1>1, <2>1 DEF RefsOf
  <2>2. CASE r[2] # p
    BY <1>1, <2>2 DEF RefsOf
  <2> QED
    BY <2>1, <2>2
<1>4. RefsOf(u) \subseteq Blobs \X Paths /\ RefsOf(t) \subseteq Blobs \X Paths
  BY DEF RefsOf
<1>5. (IF v = None THEN {} ELSE BlobsOf[v] \X {p}) \subseteq Blobs \X Paths
  BY <1>2
<1> QED
  BY <1>3, <1>4, <1>5 DEF u

\* Who writes the transaction's variables while a writer has the connection.
LEMMA TxnChange ==
    ASSUME TypeOK, [Next]_vars
    PROVE  \/ UNCHANGED <<txn, conn>>
           \/ conn' \notin Writers
           \/ \E w \in Writers : BeginWrite(w) \/ ApplyDelete(w) \/ ApplyUpsert(w)
<1> DEFINE P == \/ UNCHANGED <<txn, conn>>
                \/ conn' \notin Writers
                \/ \E w \in Writers : BeginWrite(w) \/ ApplyDelete(w) \/ ApplyUpsert(w)
<1>a. Free \notin Writers /\ Importers \cap Writers = {}
  BY ActorsAssumption
<1>1. ASSUME NEW w \in Writers, Write(w) PROVE P
  BY <1>1, <1>a DEF Write, StartWrite, StartPut, AcquireLock, ReadRoot, LoadTree, CommitWrite,
                    Abort, EmitCommit, EmitFails
<1>2. ASSUME NEW i \in Importers, Import(i) PROVE P
  BY <1>2, <1>a DEF Import, BeginImport, CommitImport, AbortImport, EmitSync, EmitFails
<1>3. ASSUME NEW r \in Readers, Read(r) PROVE P
  BY <1>3 DEF Read, ReadRepoRoot, ReadAllBlocks
<1>4. ASSUME Crash \/ UNCHANGED vars PROVE P
  BY <1>4, <1>a DEF Crash, vars
<1> QED
  BY <1>1, <1>2, <1>3, <1>4 DEF Next

\* The blob references follow the index, inside a transaction and outside.
LEMMA RefsStep ==
    TypeOK /\ ConnInv /\ TxnRefsInv /\ RefsAreExact /\ [Next]_vars => TxnRefsInv' /\ RefsAreExact'
<1> SUFFICES ASSUME TypeOK, ConnInv, TxnRefsInv, RefsAreExact, [Next]_vars
             PROVE  TxnRefsInv' /\ RefsAreExact'
  OBVIOUS
<1>1. RefsAreExact'
  <2>1. CASE UNCHANGED <<blocks, index, refs, metas, root, hist>>
    BY <2>1 DEF RefsAreExact
  <2>2. ASSUME NEW w \in Writers, CommitWrite(w) PROVE RefsAreExact'
    <3>1. conn = w /\ refs' = txn.refs /\ index' = txn.index /\ metas' = txn.metas
      BY <2>2 DEF CommitWrite, ConnInv
    <3> QED
      BY <3>1 DEF TxnRefsInv, RefsAreExact
  <2>3. ASSUME NEW i \in Importers, CommitImport(i) PROVE RefsAreExact'
    <3>1. PICK c \in Uploads :
            /\ index' = c.tree /\ refs' = RefsOf(c.tree)
            /\ metas' = UNION {BlobsOf[v] : v \in Range(c.tree) \ {None}}
      BY <2>3 DEF CommitImport
    <3>2. ASSUME NEW r \in RefsOf(c.tree)
          PROVE  r[1] \in UNION {BlobsOf[v] : v \in Range(c.tree) \ {None}}
      <4>1. r[2] \in Paths /\ c.tree[r[2]] # None /\ r[1] \in BlobsOf[c.tree[r[2]]]
        BY DEF RefsOf
      <4>2. c.tree[r[2]] \in Range(c.tree)
        BY <4>1, UploadsAssumption DEF Range, Commits, Trees
      <4> QED
        BY <4>1, <4>2
    <3> QED
      BY <3>1, <3>2 DEF RefsAreExact
  <2> QED
    BY <2>1, <2>2, <2>3, TablesChange
<1>2. TxnRefsInv'
  <2>1. CASE UNCHANGED <<txn, conn>>
    BY <2>1 DEF TxnRefsInv
  <2>2. ASSUME NEW w \in Writers, BeginWrite(w) PROVE TxnRefsInv'
    <3>1. txn'.refs = refs /\ txn'.index = index /\ txn'.metas = metas
      BY <2>2 DEF BeginWrite
    <3> QED
      BY <3>1 DEF TxnRefsInv, RefsAreExact
  <2>3. ASSUME NEW w \in Writers, ApplyDelete(w) PROVE TxnRefsInv'
    <3> DEFINE p == Head(req[w]).path
    <3>1. Head(req[w]) \in Ops
      BY <2>3, RangeTail DEF ApplyDelete, TypeOK
    <3>2. p \in Paths
      BY <3>1 DEF Ops
    <3>3. /\ txn'.index = [txn.index EXCEPT ![p] = None] /\ txn'.metas = txn.metas
          /\ txn'.refs = {r \in txn.refs : r[2] # p}
      BY <2>3 DEF ApplyDelete, TypeOK
    <3>4. conn \in Writers
      BY <2>3 DEF ApplyDelete, ConnInv
    <3> DEFINE t == txn.index
    <3>t. t \in Trees /\ None \in Values \cup {None} /\ txn'.index = [t EXCEPT ![p] = None]
      BY <3>3 DEF TypeOK
    <3> HIDE DEF p, t
    <3>r. RefsOf([t EXCEPT ![p] = None]) =
            {r \in RefsOf(t) : r[2] # p} \cup (IF None = None THEN {} ELSE BlobsOf[None] \X {p})
      BY ONLY <3>2, <3>t, RefsOfUpdate
    <3>5. RefsOf(txn'.index) = {r \in RefsOf(txn.index) : r[2] # p}
      BY <3>t, <3>r DEF t
    <3> QED
      BY <3>3, <3>4, <3>5 DEF TxnRefsInv
  <2>4. ASSUME NEW w \in Writers, ApplyUpsert(w) PROVE TxnRefsInv'
    <3> DEFINE p == Head(req[w]).path
               v == Head(req[w]).value
    <3>1. Head(req[w]) \in Ops /\ Head(req[w]).action # "delete"
      BY <2>4, RangeTail DEF ApplyUpsert, TypeOK
    <3>2. p \in Paths /\ v \in Values /\ v # None
      BY <3>1, ValuesAssumption DEF Ops
    <3>3. /\ txn'.index = [txn.index EXCEPT ![p] = v] /\ txn'.metas = txn.metas \cup BlobsOf[v]
          /\ txn'.refs = {r \in txn.refs : r[2] # p} \cup (BlobsOf[v] \X {p})
      BY <2>4 DEF ApplyUpsert, TypeOK
    <3>4. conn \in Writers
      BY <2>4 DEF ApplyUpsert, ConnInv
    <3> DEFINE t == txn.index
    <3>t. t \in Trees /\ v \in Values \cup {None} /\ txn'.index = [t EXCEPT ![p] = v]
      BY <3>2, <3>3 DEF TypeOK
    <3> HIDE DEF p, v, t
    <3>r. RefsOf([t EXCEPT ![p] = v]) =
            {r \in RefsOf(t) : r[2] # p} \cup (IF v = None THEN {} ELSE BlobsOf[v] \X {p})
      BY ONLY <3>2, <3>t, RefsOfUpdate
    <3>5. RefsOf(txn'.index) = {r \in RefsOf(txn.index) : r[2] # p} \cup (BlobsOf[v] \X {p})
      BY <3>2, <3>t, <3>r DEF t
    <3>6. txn.refs = RefsOf(txn.index) /\ {r[1] : r \in txn.refs} \subseteq txn.metas
      BY <3>4 DEF TxnRefsInv
    <3>7. {r[1] : r \in txn'.refs} \subseteq txn'.metas
      BY <3>3, <3>6
    <3> QED
      BY <3>3, <3>5, <3>6, <3>7 DEF TxnRefsInv
  <2>5. CASE conn' \notin Writers
    BY <2>5 DEF TxnRefsInv
  <2> QED
    BY <2>1, <2>2, <2>3, <2>4, <2>5, TxnChange
<1> QED
  BY <1>1, <1>2

-----------------------------------------------------------------------------
\* The records of a tree after one operation.
LEMMA TreeRange ==
    ASSUME NEW t \in Trees, NEW p \in Paths, NEW v \in Values \cup {None}
    PROVE  Range([t EXCEPT ![p] = v]) \subseteq Range(t) \cup {v}
BY DEF Trees, Range

\* A writer in its transaction: it has just begun, has applied an operation,
\* or nothing it depends on has changed.
LEMMA TxnStays ==
    ASSUME TypeOK, ConnInv, [Next]_vars, NEW w \in Writers, pc'[w] = "tx"
    PROVE  \/ BeginWrite(w) \/ ApplyDelete(w) \/ ApplyUpsert(w)
           \/ /\ pc[w] = "tx" /\ txn' = txn
              /\ UNCHANGED <<blocks, index, refs, metas, root, hist>>
              /\ tree'[w] = tree[w] /\ base'[w] = base[w] /\ results'[w] = results[w]
<1> DEFINE Kept == /\ pc[w] = "tx" /\ txn' = txn
                   /\ UNCHANGED <<blocks, index, refs, metas, root, hist>>
                   /\ tree'[w] = tree[w] /\ base'[w] = base[w] /\ results'[w] = results[w]
<1>a. /\ w \in Actors /\ Writers \subseteq Actors /\ Importers \subseteq Actors
      /\ Readers \subseteq Actors /\ pc \in [Actors -> PcStates]
      /\ tree \in [Writers -> Trees] /\ base \in [Writers \cup Readers -> Commits]
      /\ results \in [Writers -> Seq(Results)]
  BY DEF Actors, TypeOK
<1>b. /\ Free \notin Writers \cup Importers /\ Writers \cap Importers = {}
      /\ Writers \cap Readers = {}
  BY ActorsAssumption
<1>c. pc[w] = "tx" => conn = w
  BY DEF ConnInv
<1> USE <1>a, <1>b, <1>c DEF Goto
<1>0. ASSUME NEW a \in Actors, Return(a), txn' = txn,
             UNCHANGED <<blocks, index, refs, metas, root, hist>>
      PROVE  Kept
  BY <1>0 DEF Return
<1>1. ASSUME NEW x \in Writers, StartWrite(x) \/ StartPut(x) \/ AcquireLock(x) PROVE Kept
  BY <1>1 DEF StartWrite, StartPut, AcquireLock
<1>2. ASSUME NEW x \in Writers, ReadRoot(x) \/ LoadTree(x) PROVE Kept
  BY <1>2 DEF ReadRoot, LoadTree
<1>3. ASSUME NEW x \in Writers, BeginWrite(x) PROVE x = w
  BY <1>3 DEF BeginWrite
<1>4. ASSUME NEW x \in Writers, ApplyDelete(x) \/ ApplyUpsert(x) PROVE x = w
  <2>1. conn = x /\ pc' = pc
    BY <1>4 DEF ApplyDelete, ApplyUpsert, Applied, ConnInv
  <2> QED
    BY <2>1
<1>5. ASSUME NEW x \in Writers, CommitWrite(x) PROVE FALSE
  <2>1. conn = x /\ pc' = [pc EXCEPT ![x] = "emit"]
    BY <1>5 DEF CommitWrite, ConnInv
  <2> QED
    BY <2>1
<1>6. ASSUME NEW x \in Writers, Abort(x) PROVE Kept
  <2>1. pc' = [pc EXCEPT ![x] = "idle"]
    BY <1>6 DEF Abort, Return
  <2>2. x # w /\ pc[w] = "tx" /\ conn # x
    BY <2>1
  <2> QED
    BY <1>0, <1>6, <2>2 DEF Abort
<1>7. ASSUME NEW x \in Writers, EmitCommit(x) PROVE Kept
  BY <1>0, <1>7 DEF EmitCommit
<1>8. ASSUME NEW x \in Writers \cup Importers, EmitFails(x) PROVE Kept
  BY <1>0, <1>8 DEF EmitFails
<1>9. ASSUME NEW i \in Importers, BeginImport(i) PROVE FALSE
  BY <1>9 DEF BeginImport
<1>10. ASSUME NEW i \in Importers, CommitImport(i) PROVE FALSE
  <2>1. conn = i /\ pc' = [pc EXCEPT ![i] = "emit"]
    BY <1>10 DEF CommitImport, ConnInv
  <2> QED
    BY <2>1
<1>11. ASSUME NEW i \in Importers, AbortImport(i) \/ EmitSync(i) PROVE Kept
  BY <1>0, <1>11 DEF AbortImport, EmitSync
<1>12. ASSUME NEW r \in Readers, Read(r) PROVE Kept
  <2>1. CASE ReadRepoRoot(r)
    BY <2>1 DEF ReadRepoRoot
  <2>2. CASE ReadAllBlocks(r)
    BY <1>0, <2>2 DEF ReadAllBlocks
  <2> QED
    BY <1>12, <2>1, <2>2 DEF Read
<1>13. ASSUME Crash PROVE FALSE
  BY <1>13 DEF Crash, AtRest
<1>14. ASSUME UNCHANGED vars PROVE Kept
  BY <1>14 DEF vars
<1> QED
  BY <1>1, <1>2, <1>3, <1>4, <1>5, <1>6, <1>7, <1>8, <1>9, <1>10, <1>11, <1>12, <1>13, <1>14
     DEF Next, Write, Import

\* A transaction on the current root keeps the index it will commit equal to
\* its tree, and writes every block the tree needs and the table has not.
LEMMA TxnStep ==
    TypeOK /\ ConnInv /\ TreeInv /\ TxnInv /\ IndexIsTree /\ [Next]_vars => TxnInv'
<1> SUFFICES ASSUME TypeOK, ConnInv, TreeInv, TxnInv, IndexIsTree, [Next]_vars,
                    NEW w \in Writers, pc'[w] = "tx", base'[w] = root', ~RacedImport'
             PROVE  /\ txn'.index = tree'[w]
                    /\ Range(tree'[w]) \subseteq blocks'.rec \cup txn'.rec \cup {None}
                    /\ Dirty(w)' \/ tree'[w] = base'[w].tree
  BY DEF TxnInv
<1>1. CASE BeginWrite(w)
  <2>1. /\ tree'[w] = base[w].tree /\ base' = base /\ root' = root /\ blocks' = blocks
        /\ hist' = hist /\ txn'.index = index
    BY <1>1 DEF BeginWrite, TreeInv
  <2>2. ~RacedImport
    BY <2>1 DEF RacedImport, Raced
  <2>3. index = root.tree /\ (root # NoCommit => Readable(root))
    BY <2>2 DEF IndexIsTree
  <2>4. root = NoCommit => Range(root.tree) \subseteq {None}
    BY DEF NoCommit, EmptyTree, Range
  <2> QED
    BY <2>1, <2>3, <2>4 DEF Readable
<1>2. CASE ApplyDelete(w) \/ ApplyUpsert(w)
  <2> DEFINE op == Head(req[w])
             p == op.path
             v == op.value
             r == [action |-> op.action, path |-> p, cid |-> v, prev |-> tree[w][p]]
             t == tree[w]
  <2>1. /\ Applied(w, op) /\ pc[w] = "tx" /\ op \in Ops /\ v \in Values \cup {None} /\ p \in Paths
        /\ (ApplyDelete(w) => v = None) /\ (ApplyUpsert(w) => v \in Values)
    <3>1. op \in Ops
      BY <1>2, RangeTail DEF ApplyDelete, ApplyUpsert, TypeOK
    <3> QED
      BY <1>2, <3>1 DEF ApplyDelete, ApplyUpsert, Ops
  <2>2. /\ base' = base /\ root' = root /\ blocks' = blocks /\ hist' = hist
        /\ tree'[w] = [t EXCEPT ![p] = v]
        /\ results'[w] = Append(results[w], r)
    BY <2>1 DEF Applied, TypeOK
  <2>3. ~RacedImport
    BY <2>2 DEF RacedImport, Raced
  <2>4. /\ txn.index = t
        /\ Range(t) \subseteq blocks.rec \cup txn.rec \cup {None}
        /\ Dirty(w) \/ t = base[w].tree
    BY <2>1, <2>2, <2>3 DEF TxnInv
  <2>5. /\ txn'.index = [txn.index EXCEPT ![p] = v]
        /\ txn'.rec = txn.rec \cup (IF ApplyUpsert(w) THEN {v} ELSE {})
    <3>1. ASSUME ApplyDelete(w) PROVE ~ApplyUpsert(w)
      BY <3>1 DEF ApplyDelete, ApplyUpsert
    <3>2. CASE ApplyDelete(w)
      BY <2>1, <3>1, <3>2 DEF ApplyDelete, TypeOK
    <3>3. CASE ApplyUpsert(w)
      BY <3>3 DEF ApplyUpsert, TypeOK
    <3> QED
      BY <1>2, <3>2, <3>3
  <2>6. t \in Trees /\ r \in Results /\ results[w] \in Seq(Results)
    <3>1. op.action \in Actions
      BY <2>1 DEF Ops, Actions
    <3>2. t \in Trees /\ t[p] \in Values \cup {None}
      BY <2>1 DEF TypeOK, Trees
    <3> QED
      BY <2>1, <3>1, <3>2 DEF TypeOK, Results
  <2>7. Range(results'[w]) = Range(results[w]) \cup {r}
    <3> DEFINE q == results[w]
    <3>1. q \in Seq(Results)
      BY <2>6
    <3> HIDE DEF q, r
    <3>2. Range(Append(q, r)) = Range(q) \cup {r}
      BY <2>6, <3>1, RangeAppend
    <3> QED
      BY <2>2, <3>2 DEF q
  <2>8. Range(tree'[w]) \subseteq Range(t) \cup {v}
    <3> HIDE DEF t, p, v
    <3> QED
      BY <2>1, <2>2, <2>6, TreeRange
  <2>9. Dirty(w)' \/ tree'[w] = base'[w].tree
    <3>1. CASE Dirty(w)
      BY <2>2, <2>7, <3>1 DEF Dirty
    <3>2. CASE ~Dirty(w) /\ v # t[p]
      <4>1. r \in Range(results'[w]) /\ r.cid # r.prev
        BY <2>7, <3>2
      <4> QED
        BY <4>1 DEF Dirty
    <3>3. CASE ~Dirty(w) /\ v = t[p]
      <4>1. tree'[w] = t
        BY <2>2, <2>6, <3>3 DEF Trees
      <4> QED
        BY <2>2, <2>4, <3>3, <4>1
    <3> QED
      BY <3>1, <3>2, <3>3
  <2>10. v \in txn'.rec \cup {None}
    BY <1>2, <2>1, <2>5
  <2> HIDE DEF t, p, v
  <2> QED
    BY <2>2, <2>4, <2>5, <2>8, <2>9, <2>10
<1>3. CASE /\ pc[w] = "tx" /\ txn' = txn
           /\ UNCHANGED <<blocks, index, refs, metas, root, hist>>
           /\ tree'[w] = tree[w] /\ base'[w] = base[w] /\ results'[w] = results[w]
  <2>1. ~RacedImport
    BY <1>3 DEF RacedImport, Raced
  <2> QED
    BY <1>3, <2>1 DEF TxnInv, Dirty
<1> QED
  BY <1>1, <1>2, <1>3, TxnStays

\* The index stays the tree of a readable root, until a write commits over an
\* import it has not seen.
LEMMA IndexStep ==
    TypeOK /\ RootInv /\ ConnInv /\ TxnInv /\ IndexIsTree /\ [Next]_vars => IndexIsTree'
<1> SUFFICES ASSUME TypeOK, RootInv, ConnInv, TxnInv, IndexIsTree, [Next]_vars
             PROVE  IndexIsTree'
  OBVIOUS
<1> DEFINE n == Len(hist)
<1>n. n \in Nat
  BY LenProperties DEF TypeOK
<1>1. CASE UNCHANGED <<blocks, index, refs, metas, root, hist>>
  BY <1>1 DEF IndexIsTree, RacedImport, Raced, Readable
<1>2. ASSUME NEW w \in Writers, CommitWrite(w) PROVE IndexIsTree'
  <2>1. PICK rev \in (base[w].rev + 1)..MaxRev :
          LET c == [tree |-> tree[w], rev |-> rev] IN
          /\ blocks' = [rec |-> blocks.rec \cup txn.rec,
                        node |-> blocks.node \cup (IF Dirty(w) THEN {tree[w]} ELSE {}),
                        commit |-> blocks.commit \cup {c}]
          /\ root' = c
          /\ hist' = Append(hist, [kind |-> "write", commit |-> c, base |-> base[w]])
    BY <1>2 DEF CommitWrite, NextRev
  <2>2. index' = txn.index /\ pc[w] = "tx"
    BY <1>2 DEF CommitWrite, NextRev
  <2> DEFINE c == [tree |-> tree[w], rev |-> rev]
             e == [kind |-> "write", commit |-> c, base |-> base[w]]
  <2>3. e \in HistEntries
    <3>1. base[w] \in Commits /\ base[w].rev \in Nat /\ tree[w] \in Trees
      BY DEF TypeOK, Commits
    <3> QED
      BY <3>1, BoundsAssumption DEF HistEntries, Commits
  <2>4. e.kind = "write" /\ e.base = base[w]
    OBVIOUS
  <2>5. hist' = Append(hist, e)
    BY <2>1
  <2> HIDE DEF e
  <2>6. /\ Len(hist') = n + 1 /\ hist'[n + 1] = e /\ \A i \in 1..n : hist'[i] = hist[i]
    BY <2>3, <2>5, HistAppend
  <2>7. CASE RacedImport
    <3>1. PICK i \in 1..n : Raced(i) /\ \A j \in i..n : hist[j].kind = "write"
      BY <2>7 DEF RacedImport
    <3>2. /\ i \in 1..(n + 1) /\ i \in 1..n
          /\ hist'[i] = hist[i] /\ (i # 1 => hist'[i - 1] = hist[i - 1])
      BY <1>n, <2>6
    <3>3. /\ hist[i].kind = "write"
          /\ hist[i].base # (IF i = 1 THEN NoCommit ELSE hist[i - 1].commit)
      BY <3>1 DEF Raced
    <3>4. /\ hist'[i].kind = "write"
          /\ hist'[i].base # (IF i = 1 THEN NoCommit ELSE hist'[i - 1].commit)
      BY <3>2, <3>3
    <3>5. \A j \in i..(n + 1) : hist'[j].kind = "write"
      <4> SUFFICES ASSUME NEW j \in i..(n + 1) PROVE hist'[j].kind = "write"
        OBVIOUS
      <4>1. j = n + 1 \/ (j \in i..n /\ j \in 1..n)
        BY <1>n
      <4> QED
        BY <2>4, <2>6, <3>1, <4>1
    <3>6. RacedImport'
      BY <2>6, <3>2, <3>4, <3>5 DEF RacedImport, Raced
    <3> QED
      BY <3>6 DEF IndexIsTree
  <2>8. CASE base[w] # root
    <3>1. hist'[n + 1].base # (IF n + 1 = 1 THEN NoCommit ELSE hist'[n].commit)
      <4>1. n # 0 => hist'[n] = hist[n]
        BY <1>n, <2>6
      <4> QED
        BY <1>n, <2>4, <2>6, <2>8, <4>1 DEF RootInv, Made
    <3>2. (n + 1) - 1 = n /\ n + 1 \in 1..(n + 1) /\ \A j \in (n + 1)..(n + 1) : j = n + 1
      BY <1>n
    <3>3. RacedImport'
      BY <2>4, <2>6, <3>1, <3>2 DEF RacedImport, Raced
    <3> QED
      BY <3>3 DEF IndexIsTree
  <2>9. CASE ~RacedImport /\ base[w] = root
    <3>1. /\ txn.index = tree[w]
          /\ Range(tree[w]) \subseteq blocks.rec \cup txn.rec \cup {None}
          /\ Dirty(w) \/ tree[w] = base[w].tree
      BY <2>2, <2>9 DEF TxnInv
    <3>2. root # NoCommit => Readable(root)
      BY <2>9 DEF IndexIsTree
    <3>3. tree[w] \in blocks'.node
      BY <2>1, <2>9, <3>1, <3>2 DEF Readable, Dirty
    <3>4. /\ root' \in blocks'.commit /\ root'.tree \in blocks'.node
          /\ Range(root'.tree) \subseteq blocks'.rec \cup {None}
      BY <2>1, <3>1, <3>3
    <3>5. index' = root'.tree
      BY <2>1, <2>2, <3>1
    <3> QED
      BY <3>4, <3>5 DEF IndexIsTree, Readable
  <2> QED
    BY <2>7, <2>8, <2>9
<1>3. ASSUME NEW i \in Importers, CommitImport(i) PROVE IndexIsTree'
  <2>1. PICK c \in Uploads :
          /\ blocks' = [rec |-> Range(c.tree) \ {None}, node |-> {c.tree}, commit |-> {c}]
          /\ index' = c.tree /\ root' = c
    BY <1>3 DEF CommitImport
  <2> QED
    BY <2>1 DEF IndexIsTree, Readable
<1> QED
  BY <1>1, <1>2, <1>3, TablesChange

-----------------------------------------------------------------------------
\* A new actor store satisfies the invariant.
LEMMA InitIInv == Init => IInv
<1> SUFFICES ASSUME Init PROVE IInv
  OBVIOUS
<1>1. hist = <<>> /\ log = <<>> /\ Len(hist) = 0
  BY DEF Init
<1>2. TypeOK
  <2>1. <<>> \in Seq(HistEntries) /\ <<>> \in Seq(LogEntries)
    OBVIOUS
  <2> QED
    BY <1>1, <2>1, InitialTypes DEF Init, TypeOK
<1>3. LockInv /\ ConnInv /\ LoadedInv /\ TreeInv /\ TxnInv /\ TxnRefsInv
  <2>1. /\ \A w \in Writers : pc[w] = "idle" /\ w # Free
        /\ \A i \in Importers : pc[i] = "idle" /\ i # Free
        /\ conn = Free /\ lock = Free
    BY ActorsAssumption DEF Init, AtRest, Actors
  <2> QED
    BY <2>1 DEF LockInv, ConnInv, LoadedInv, TreeInv, TxnInv, TxnRefsInv
<1>4. RootInv /\ WritesAreSerial
  BY <1>1 DEF Init, RootInv, Made, WritesAreSerial
<1>5. IndexIsTree
  BY DEF Init, IndexIsTree, NoCommit
<1>6. RefsAreExact
  <2>1. RefsOf(EmptyTree) = {}
    BY DEF RefsOf, EmptyTree
  <2> QED
    BY <2>1 DEF Init, RefsAreExact
<1> QED
  BY <1>2, <1>3, <1>4, <1>5, <1>6 DEF IInv

\* Every step of ApplyWrites, of an import, of a read and a crash preserves it.
LEMMA NextIInv == IInv /\ [Next]_vars => IInv'
<1> SUFFICES ASSUME IInv, [Next]_vars PROVE IInv'
  OBVIOUS
<1>1. TypeOK'
  BY TypeStep DEF IInv
<1>2. LockInv' /\ ConnInv'
  BY LockStep DEF IInv
<1>3. RootInv' /\ LoadedInv' /\ WritesAreSerial'
  BY HistStep DEF IInv
<1>4. TreeInv'
  BY LoadStep DEF IInv, TreeInv
<1>5. TxnInv' /\ IndexIsTree'
  BY TxnStep, IndexStep DEF IInv
<1>6. TxnRefsInv' /\ RefsAreExact'
  BY RefsStep DEF IInv
<1> QED
  BY <1>1, <1>2, <1>3, <1>4, <1>5, <1>6 DEF IInv

\* The inductive invariant holds in every state.
THEOREM Invariance == Spec => []IInv
<1>1. Init => IInv
  BY InitIInv
<1>2. IInv /\ [Next]_vars => IInv'
  BY NextIInv
<1> QED
  BY <1>1, <1>2, PTL DEF Spec

\* Every variable keeps its type, whatever requests do and wherever a crash or
\* an error ends them.
THEOREM TypeCorrect == Spec => []TypeOK
<1>1. IInv => TypeOK
  BY DEF IInv
<1> QED
  BY <1>1, Invariance, PTL

\* The record index is the MST of a readable root however many writes, imports
\* and crashes interleave, unless a write commits over an import that came
\* after it had loaded its tree (writer.go:92-182, migration.go:199-329).
THEOREM IndexFollowsTree == Spec => []IndexIsTree
<1>1. IInv => IndexIsTree
  BY DEF IInv
<1> QED
  BY <1>1, Invariance, PTL

\* Blob references and metadata follow the index, even then.
THEOREM RefsFollowIndex == Spec => []RefsAreExact
<1>1. IInv => RefsAreExact
  BY DEF IInv
<1> QED
  BY <1>1, Invariance, PTL

\* The per-DID mutex makes the commits of ApplyWrites a sequence: each is
\* built on the one before it or on a later import, with a larger revision.
THEOREM WritesSerialise == Spec => []WritesAreSerial
<1>1. IInv => WritesAreSerial
  BY DEF IInv
<1> QED
  BY <1>1, Invariance, PTL

\* Where nobody imports, no write replaces a root it was not built on: the
\* mutex is enough for ApplyWrites alone (manager.go:29-31).
THEOREM NoRaceWithoutImports == ASSUME Importers = {} PROVE Spec => []NoWriteIsRaced
<1> USE DEF OnlyWrites
<1>1. Init => OnlyWrites /\ NoWriteIsRaced
  BY DEF Init, NoWriteIsRaced
<1>2. IInv /\ OnlyWrites /\ NoWriteIsRaced /\ [Next]_vars => OnlyWrites' /\ NoWriteIsRaced'
  <2> SUFFICES ASSUME IInv, OnlyWrites, NoWriteIsRaced, [Next]_vars
               PROVE  OnlyWrites' /\ NoWriteIsRaced'
    OBVIOUS
  <2>1. CASE UNCHANGED <<blocks, index, refs, metas, root, hist>>
    BY <2>1 DEF NoWriteIsRaced, Raced
  <2>2. ASSUME NEW w \in Writers, CommitWrite(w) PROVE OnlyWrites' /\ NoWriteIsRaced'
    <3> DEFINE n == Len(hist)
    <3>1. n \in Nat
      BY LenProperties DEF IInv, TypeOK
    <3>2. PICK c \in Commits :
            LET e == [kind |-> "write", commit |-> c, base |-> base[w]]
            IN  e \in HistEntries /\ hist' = Append(hist, e)
      <4>1. PICK rev \in (base[w].rev + 1)..MaxRev :
              hist' = Append(hist, [kind |-> "write", commit |-> [tree |-> tree[w], rev |-> rev],
                                    base |-> base[w]])
        BY <2>2 DEF CommitWrite, NextRev
      <4>2. base[w] \in Commits /\ base[w].rev \in Nat /\ tree[w] \in Trees
        BY DEF IInv, TypeOK, Commits
      <4>3. [tree |-> tree[w], rev |-> rev] \in Commits
        BY <4>2, BoundsAssumption DEF Commits
      <4> QED
        BY <4>1, <4>2, <4>3 DEF HistEntries
    <3> DEFINE e == [kind |-> "write", commit |-> c, base |-> base[w]]
    <3>3. e \in HistEntries /\ hist' = Append(hist, e) /\ e.kind = "write" /\ e.base = base[w]
      BY <3>2
    <3> HIDE DEF e
    <3>4. /\ Len(hist') = n + 1 /\ hist'[n + 1] = e /\ \A i \in 1..n : hist'[i] = hist[i]
      BY <3>3, HistAppend DEF IInv
    <3>5. PICK k \in 0..n : base[w] = Made(k) /\ \A m \in (k + 1)..n : hist[m].kind = "import"
      BY <2>2 DEF IInv, LoadedInv, Recent, CommitWrite
    <3>6. k = n
      <4>1. k < n => n \in (k + 1)..n /\ n \in 1..n
        BY <3>1
      <4> QED
        BY <3>1, <3>5, <4>1
    <3>7. e.base = (IF n + 1 = 1 THEN NoCommit ELSE hist'[n].commit)
      <4>1. n # 0 => hist'[n] = hist[n]
        BY <3>1, <3>4
      <4> QED
        BY <3>1, <3>3, <3>5, <3>6, <4>1 DEF Made
    <3>8. OnlyWrites'
      BY <3>1, <3>3, <3>4
    <3>9. ASSUME NEW i \in 1..(n + 1)
          PROVE  hist'[i].base = (IF i = 1 THEN NoCommit ELSE hist'[i - 1].commit)
      <4>1. CASE i = n + 1
        BY <3>1, <3>4, <3>7, <4>1
      <4>2. CASE i \in 1..n
        <5>1. hist[i].base = (IF i = 1 THEN NoCommit ELSE hist[i - 1].commit)
          BY <4>2 DEF NoWriteIsRaced, Raced
        <5>2. hist'[i] = hist[i] /\ (i # 1 => hist'[i - 1] = hist[i - 1])
          BY <3>1, <3>4, <4>2
        <5> QED
          BY <5>1, <5>2
      <4> QED
        BY <3>1, <4>1, <4>2
    <3>10. NoWriteIsRaced'
      BY <3>4, <3>9 DEF NoWriteIsRaced, Raced
    <3> QED
      BY <3>8, <3>10
  <2> QED
    BY <2>1, <2>2, TablesChange
<1> QED
  BY <1>1, <1>2, Invariance, PTL DEF Spec

-----------------------------------------------------------------------------
(* Commits and events, where nobody imports and nothing fails *)

\* A writer that has committed and not yet appended its event waits for itself
\* alone.
LEMMA EmittersWait ==
    ASSUME TypeOK, Importers = {}, Faults = FALSE, [Next]_vars,
           \A w \in Writers : ~CommitWrite(w) /\ ~EmitCommit(w)
    PROVE  /\ hist' = hist /\ log' = log
           /\ \A v \in Writers : pc'[v] = "emit" <=> pc[v] = "emit"
           /\ \A v \in Writers : pc[v] = "emit" => made'[v] = made[v] /\ base'[v] = base[v]
<1> DEFINE Waits_ == /\ hist' = hist /\ log' = log
                     /\ \A v \in Writers : pc'[v] = "emit" <=> pc[v] = "emit"
                     /\ \A v \in Writers : pc[v] = "emit" => made'[v] = made[v] /\ base'[v] = base[v]
<1>0. Writers \subseteq Actors /\ Readers \subseteq Actors /\ Writers \cap Readers = {}
  BY ActorsAssumption DEF Actors
<1>1. ASSUME NEW w \in Writers, StartWrite(w) PROVE Waits_
  BY <1>0, <1>1 DEF StartWrite, Goto, TypeOK
<1>2. ASSUME NEW w \in Writers, StartPut(w) PROVE Waits_
  BY <1>0, <1>2 DEF StartPut, Goto, TypeOK
<1>3. ASSUME NEW w \in Writers, AcquireLock(w) PROVE Waits_
  BY <1>0, <1>3 DEF AcquireLock, Goto, TypeOK, locals
<1>4. ASSUME NEW w \in Writers, ReadRoot(w) PROVE Waits_
  BY <1>0, <1>4 DEF ReadRoot, Goto, TypeOK
<1>5. ASSUME NEW w \in Writers, LoadTree(w) PROVE Waits_
  BY <1>0, <1>5 DEF LoadTree, Goto, TypeOK
<1>6. ASSUME NEW w \in Writers, BeginWrite(w) PROVE Waits_
  BY <1>0, <1>6 DEF BeginWrite, Goto, TypeOK
<1>7. ASSUME NEW w \in Writers, ApplyDelete(w) PROVE Waits_
  BY <1>7 DEF ApplyDelete, Applied
<1>8. ASSUME NEW w \in Writers, ApplyUpsert(w) PROVE Waits_
  BY <1>8 DEF ApplyUpsert, Applied
<1>9. ASSUME NEW w \in Writers, Abort(w) PROVE Waits_
  BY <1>0, <1>9 DEF Abort, Return, Goto, TypeOK
<1>10. ASSUME NEW r \in Readers, ReadRepoRoot(r) PROVE Waits_
  BY <1>0, <1>10 DEF ReadRepoRoot, Goto, TypeOK
<1>11. ASSUME NEW r \in Readers, ReadAllBlocks(r) PROVE Waits_
  BY <1>0, <1>11 DEF ReadAllBlocks, Return, Goto, TypeOK
<1>12. ASSUME UNCHANGED vars PROVE Waits_
  BY <1>12 DEF vars
<1>13. ~Crash /\ \A a \in Actors : ~EmitFails(a)
  BY DEF Crash, EmitFails
<1> HIDE DEF Waits_
<1>14. ASSUME NEW w \in Writers, Write(w) PROVE Waits_
  BY <1>0, <1>1, <1>2, <1>3, <1>4, <1>5, <1>6, <1>7, <1>8, <1>9, <1>13, <1>14 DEF Write
<1>15. ASSUME NEW r \in Readers, Read(r) PROVE Waits_
  BY <1>10, <1>11, <1>15 DEF Read
<1>16. Waits_
  BY <1>12, <1>13, <1>14, <1>15 DEF Next
<1> QED
  BY <1>16 DEF Waits_

\* What CommitWrite leaves.
LEMMA CommitRecorded ==
    ASSUME IInv, NEW w \in Writers, CommitWrite(w)
    PROVE  \E e \in HistEntries :
              /\ e.kind = "write" /\ e.base = base[w] /\ hist' = Append(hist, e)
              /\ made' = [made EXCEPT ![w] = made'[w]] /\ made'[w].commit = e.commit
              /\ pc' = [pc EXCEPT ![w] = "emit"] /\ pc[w] = "tx"
              /\ log' = log /\ base' = base
<1>1. TypeOK
  BY DEF IInv
<1>2. PICK rev \in (base[w].rev + 1)..MaxRev :
        /\ made' = [made EXCEPT ![w] = [commit |-> [tree |-> tree[w], rev |-> rev], rec |-> txn.rec]]
        /\ hist' = Append(hist, [kind |-> "write", commit |-> [tree |-> tree[w], rev |-> rev],
                                 base |-> base[w]])
  BY DEF CommitWrite, NextRev
<1>3. base[w] \in Commits /\ base[w].rev \in Nat /\ tree[w] \in Trees
  BY <1>1 DEF TypeOK, Commits
<1>4. PICK c \in Commits : c = [tree |-> tree[w], rev |-> rev]
  <2>1. rev \in Nat
    BY <1>3, BoundsAssumption
  <2> QED
    BY <1>3, <2>1 DEF Commits
<1>5. made'[w] = [commit |-> c, rec |-> txn.rec] /\ made' = [made EXCEPT ![w] = made'[w]]
  BY <1>1, <1>2, <1>4 DEF TypeOK
<1>6. PICK e \in HistEntries : e = [kind |-> "write", commit |-> c, base |-> base[w]]
  BY <1>3 DEF HistEntries
<1>7. pc' = [pc EXCEPT ![w] = "emit"] /\ pc[w] = "tx" /\ log' = log /\ base' = base
  BY DEF CommitWrite, Goto
<1> QED
  BY <1>2, <1>4, <1>5, <1>6, <1>7

\* What EmitCommit leaves.
LEMMA EventRecorded ==
    ASSUME TypeOK, NEW w \in Writers, EmitCommit(w)
    PROVE  /\ Len(log) \in Nat /\ Len(log') = Len(log) + 1
           /\ \A i \in 1..Len(log) : log'[i] = log[i]
           /\ log'[Len(log) + 1].kind = "commit"
           /\ log'[Len(log) + 1].commit = made[w].commit
           /\ log'[Len(log) + 1].since = base[w]
           /\ hist' = hist /\ pc[w] = "emit" /\ pc' = [pc EXCEPT ![w] = "idle"]
           /\ \A v \in Writers : v # w => made'[v] = made[v] /\ base'[v] = base[v]
<1> DEFINE e == [kind |-> "commit", commit |-> made[w].commit, rec |-> made[w].rec,
                 since |-> base[w], ops |-> results[w]]
<1>1. log' = Append(log, e) /\ e.kind = "commit" /\ e.commit = made[w].commit /\ e.since = base[w]
  BY DEF EmitCommit
<1>2. e \in LogEntries
  BY DEF LogEntries, TypeOK
<1>3. /\ hist' = hist /\ pc[w] = "emit" /\ pc' = [pc EXCEPT ![w] = "idle"]
      /\ \A v \in Writers : v # w => made'[v] = made[v] /\ base'[v] = base[v]
  BY DEF EmitCommit, Return, Goto, TypeOK
<1> HIDE DEF e
<1>4. Len(log) \in Nat /\ Len(log') = Len(log) + 1 /\ log'[Len(log) + 1] = e
      /\ \A i \in 1..Len(log) : log'[i] = log[i]
  BY <1>1, <1>2, AppendProperties, LenProperties DEF TypeOK
<1> QED
  BY <1>1, <1>3, <1>4

\* Where nobody imports and nothing fails, every commit has its event once all
\* requests have returned, for any number of writers.
THEOREM CommitsAreSequenced ==
    ASSUME Importers = {}, Faults = FALSE
    PROVE  Spec => []EveryCommitIsSequenced
<1> DEFINE Sent(i) == \E j \in 1..Len(log) : log[j].commit = hist[i].commit
           Due(i) == \E w \in Writers : pc[w] = "emit" /\ made[w].commit = hist[i].commit
           Kept == \A i \in 1..Len(hist) : Sent(i) \/ Due(i)
<1>1. Init => Kept
  BY DEF Init
<1>2. IInv /\ Kept /\ [Next]_vars => Kept'
  <2> SUFFICES ASSUME IInv, Kept, [Next]_vars PROVE Kept'
    OBVIOUS
  <2>0. TypeOK /\ Writers \subseteq Actors
    BY DEF IInv, Actors
  <2>1. ASSUME NEW w \in Writers, CommitWrite(w) PROVE Kept'
    <3>1. PICK e \in HistEntries :
            /\ e.kind = "write" /\ e.base = base[w] /\ hist' = Append(hist, e)
            /\ made' = [made EXCEPT ![w] = made'[w]] /\ made'[w].commit = e.commit
            /\ pc' = [pc EXCEPT ![w] = "emit"] /\ pc[w] = "tx"
            /\ log' = log /\ base' = base
      BY <2>1, CommitRecorded
    <3>0. PICK n : n = Len(hist)
      OBVIOUS
    <3>2. n \in Nat /\ Len(hist') = n + 1 /\ (\A i \in 1..n : hist'[i] = hist[i]) /\ hist'[n + 1] = e
      BY <2>0, <3>0, <3>1, HistAppend
    <3>3. ASSUME NEW i \in 1..n PROVE Sent(i)' \/ Due(i)'
      <4>1. hist'[i] = hist[i]
        BY <3>2
      <4>0. Sent(i) \/ Due(i)
        BY <3>0
      <4>2. CASE Sent(i)
        BY <3>1, <4>1, <4>2
      <4>3. CASE Due(i)
        <5>1. PICK v \in Writers : pc[v] = "emit" /\ made[v].commit = hist[i].commit
          BY <4>3
        <5>2. v # w
          BY <3>1, <5>1
        <5>3. pc'[v] = "emit" /\ made'[v] = made[v]
          BY <2>0, <3>1, <5>1, <5>2 DEF TypeOK
        <5> QED
          BY <4>1, <5>1, <5>3
      <4> QED
        BY <4>0, <4>2, <4>3
    <3>4. Due(n + 1)'
      <4>1. pc'[w] = "emit" /\ made'[w].commit = hist'[n + 1].commit
        BY <2>0, <3>1, <3>2 DEF TypeOK
      <4> QED
        BY <4>1
    <3> QED
      BY <3>2, <3>3, <3>4
  <2>2. ASSUME NEW w \in Writers, EmitCommit(w) PROVE Kept'
    <3>1. /\ Len(log) \in Nat /\ Len(log') = Len(log) + 1
          /\ \A i \in 1..Len(log) : log'[i] = log[i]
          /\ log'[Len(log) + 1].commit = made[w].commit
          /\ hist' = hist /\ pc[w] = "emit" /\ pc' = [pc EXCEPT ![w] = "idle"]
          /\ \A v \in Writers : v # w => made'[v] = made[v]
      BY <2>0, <2>2, EventRecorded
    <3>2. ASSUME NEW i \in 1..Len(hist) PROVE Sent(i)' \/ Due(i)'
      <4>1. CASE Sent(i)
        <5>1. PICK j \in 1..Len(log) : log[j].commit = hist[i].commit
          BY <4>1
        <5>2. j \in 1..Len(log') /\ log'[j] = log[j]
          BY <3>1
        <5> QED
          BY <3>1, <5>1, <5>2
      <4>2. CASE Due(i)
        <5>1. PICK v \in Writers : pc[v] = "emit" /\ made[v].commit = hist[i].commit
          BY <4>2
        <5>2. CASE v = w
          <6>1. Len(log) + 1 \in 1..Len(log') /\ log'[Len(log) + 1].commit = hist'[i].commit
            BY <3>1, <5>1, <5>2
          <6> QED
            BY <6>1
        <5>3. CASE v # w
          <6>1. pc'[v] = "emit" /\ made'[v] = made[v]
            BY <2>0, <3>1, <5>1, <5>3 DEF TypeOK
          <6> QED
            BY <3>1, <5>1, <6>1
        <5> QED
          BY <5>2, <5>3
      <4> QED
        BY <4>1, <4>2
    <3> QED
      BY <3>1, <3>2
  <2>3. CASE \A w \in Writers : ~CommitWrite(w) /\ ~EmitCommit(w)
    <3>1. /\ hist' = hist /\ log' = log
          /\ \A v \in Writers : pc'[v] = "emit" <=> pc[v] = "emit"
          /\ \A v \in Writers : pc[v] = "emit" => made'[v] = made[v] /\ base'[v] = base[v]
      BY <2>0, <2>3, EmittersWait
    <3> QED
      BY <3>1
  <2> QED
    BY <2>1, <2>2, <2>3
<1>3. Kept => EveryCommitIsSequenced
  <2> SUFFICES ASSUME Kept, \A a \in Actors : pc[a] = "idle"
               PROVE  \A i \in 1..Len(hist) : \E j \in 1..Len(log) : log[j].commit = hist[i].commit
    BY DEF EveryCommitIsSequenced
  <2>1. \A w \in Writers : pc[w] # "emit"
    BY DEF Actors
  <2> QED
    BY <2>1
<1> HIDE DEF Kept
<1> QED
  BY <1>1, <1>2, <1>3, Invariance, PTL DEF Spec
=============================================================================
