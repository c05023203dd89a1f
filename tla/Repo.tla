-------------------------------- MODULE Repo --------------------------------
(***************************************************************************)
(* One actor's repository: the write path of repoops.ApplyWrites, the       *)
(* importRepo handler that replaces the repository, and sync.getRepo, over  *)
(* the actor's SQLite database.                                             *)
(*                                                                         *)
(* Blocks are content-addressed, so a record, an MST and a commit stand for *)
(* their own CIDs; the MST is one node.  The database is opened with one    *)
(* connection, held for the length of a transaction.  `log` is what         *)
(* Sequencer.Append stored for this DID: the events of module Firehose.     *)
(***************************************************************************)
EXTENDS Integers, Sequences, FiniteSets, Functions

CONSTANTS
    Writers,    \* requests that call ApplyWrites
    Importers,  \* requests that call importRepo
    Readers,    \* requests that call sync.getRepo
    Paths,      \* record paths, collection/rkey
    Values,     \* records
    None,       \* no record
    BlobsOf,    \* the blobs a record refers to
    Batches,    \* the batches clients send, sequences of Ops
    Uploads,    \* repositories clients import, a set of Commits
    MaxRev,     \* bound of the model: no revision exceeds it
    MaxHist,    \* bound of the model: no more commits and imports than this
    Faults,     \* whether the process may crash and Append may fail
    Free        \* nobody

Trees == [Paths -> Values \cup {None}]
EmptyTree == [p \in Paths |-> None]
Commits == [tree : Trees, rev : Nat]
NoCommit == [tree |-> EmptyTree, rev |-> 0]
Actions == {"create", "update", "delete"}
Ops == [action : Actions \ {"delete"}, path : Paths, value : Values]
           \cup [action : {"delete"}, path : Paths, value : {None}]
Results == [action : Actions, path : Paths, cid : Values \cup {None}, prev : Values \cup {None}]

ASSUME ValuesAssumption == None \notin Values
ASSUME BlobsAssumption == \A v \in Values : IsFiniteSet(BlobsOf[v])
ASSUME BatchesAssumption == Batches \subseteq Seq(Ops)
ASSUME UploadsAssumption == Uploads \subseteq Commits /\ \A c \in Uploads : c.rev > 0
ASSUME BoundsAssumption == MaxRev \in Nat /\ MaxHist \in Nat
ASSUME FaultsAssumption == Faults \in BOOLEAN
ASSUME ActorsAssumption ==
    /\ Free \notin Writers \cup Importers \cup Readers
    /\ Writers \cap Importers = {} /\ Writers \cap Readers = {} /\ Importers \cap Readers = {}

Actors == Writers \cup Importers \cup Readers
Blobs == UNION {BlobsOf[v] : v \in Values}

VARIABLES
    blocks,     \* table blocks: the records, MSTs and commits it holds
    index,      \* table records
    refs,       \* table blob_refs
    metas,      \* table blobs
    root,       \* table repo_root, NoCommit when empty
    conn,       \* who holds the database connection
    lock,       \* who holds the per-DID mutex
    pc,         \* where each request is
    req,        \* writer: the operations it has still to apply
    base,       \* writer: the root it loaded; reader: the root it read
    tree,       \* writer: its MST in memory
    results,    \* writer: the WriteResults
    made,       \* writer and importer: what it committed
    txn,        \* what the writer's open transaction has written so far
    log,        \* the firehose events of this DID
    hist        \* observer: every commit and import, with what it built on

tables == <<blocks, index, refs, metas, root>>
locals == <<req, base, tree, results, made>>
vars == <<blocks, index, refs, metas, root, conn, lock, pc, req, base, tree,
          results, made, txn, log, hist>>

RefsOf(t) == {r \in Blobs \X Paths : t[r[2]] # None /\ r[1] \in BlobsOf[t[r[2]]]}
NothingMade == [commit |-> NoCommit, rec |-> {}]
EmptyTxn == [rec |-> {}, index |-> EmptyTree, refs |-> {}, metas |-> {}]

\* The variables of requests when none is under way.
AtRest == [pc |-> [a \in Actors |-> "idle"],
           req |-> [w \in Writers |-> <<>>],
           base |-> [a \in Writers \cup Readers |-> NoCommit],
           tree |-> [w \in Writers |-> EmptyTree],
           results |-> [w \in Writers |-> <<>>],
           made |-> [a \in Writers \cup Importers |-> NothingMade]]

Init ==
    /\ blocks = [rec |-> {}, node |-> {}, commit |-> {}]
    /\ index = EmptyTree /\ refs = {} /\ metas = {} /\ root = NoCommit
    /\ conn = Free /\ lock = Free
    /\ pc = AtRest.pc /\ req = AtRest.req /\ base = AtRest.base
    /\ tree = AtRest.tree /\ results = AtRest.results /\ made = AtRest.made
    /\ txn = EmptyTxn
    /\ log = <<>> /\ hist = <<>>

Goto(a, l) == pc' = [pc EXCEPT ![a] = l]

\* A request ends, and its variables with it.
Return(a) ==
    /\ Goto(a, "idle")
    /\ base' = IF a \in DOMAIN base THEN [base EXCEPT ![a] = NoCommit] ELSE base
    /\ made' = IF a \in DOMAIN made THEN [made EXCEPT ![a] = NothingMade] ELSE made
    /\ req' = IF a \in Writers THEN [req EXCEPT ![a] = <<>>] ELSE req
    /\ tree' = IF a \in Writers THEN [tree EXCEPT ![a] = EmptyTree] ELSE tree
    /\ results' = IF a \in Writers THEN [results EXCEPT ![a] = <<>>] ELSE results

-----------------------------------------------------------------------------
(* ApplyWrites *)

\* createRecord, deleteRecord and applyWrites take the batch as it comes.
StartWrite(w) ==
    /\ pc[w] = "idle"
    /\ \E b \in Batches : req' = [req EXCEPT ![w] = b]
    /\ Goto(w, "lock")
    /\ UNCHANGED <<tables, conn, lock, base, tree, results, made, txn, log, hist>>

\* putRecord labels its operation from the index before it takes the lock.
StartPut(w) ==
    /\ pc[w] = "idle" /\ conn = Free
    /\ \E p \in Paths, v \in Values :
          req' = [req EXCEPT ![w] =
                    <<[action |-> IF index[p] = None THEN "create" ELSE "update",
                       path |-> p, value |-> v]>>]
    /\ Goto(w, "lock")
    /\ UNCHANGED <<tables, conn, lock, base, tree, results, made, txn, log, hist>>

\* Mutant: no mutex.
NoMutex(w) ==
    /\ pc[w] = "lock"
    /\ lock' = w
    /\ Goto(w, "root")
    /\ UNCHANGED <<tables, conn, locals, txn, log, hist>>

AcquireLock(w) ==
    /\ pc[w] = "lock" /\ lock = Free
    /\ lock' = w
    /\ Goto(w, "root")
    /\ UNCHANGED <<tables, conn, locals, txn, log, hist>>

\* GetRepoRoot; without a root the write starts from an empty tree.
ReadRoot(w) ==
    /\ pc[w] = "root" /\ conn = Free
    /\ base' = [base EXCEPT ![w] = root]
    /\ tree' = [tree EXCEPT ![w] = EmptyTree]
    /\ Goto(w, IF root = NoCommit THEN "begin" ELSE "load")
    /\ UNCHANGED <<tables, conn, lock, req, results, made, txn, log, hist>>

\* loadTree reads the commit and the MST outside the transaction.
LoadTree(w) ==
    /\ pc[w] = "load" /\ conn = Free
    /\ base[w] \in blocks.commit /\ base[w].tree \in blocks.node
    /\ tree' = [tree EXCEPT ![w] = base[w].tree]
    /\ Goto(w, "begin")
    /\ UNCHANGED <<tables, conn, lock, req, base, results, made, txn, log, hist>>

BeginWrite(w) ==
    /\ pc[w] = "begin" /\ conn = Free
    /\ conn' = w
    /\ txn' = [rec |-> {}, index |-> index, refs |-> refs, metas |-> metas]
    /\ results' = [results EXCEPT ![w] = <<>>]
    /\ Goto(w, "tx")
    /\ UNCHANGED <<tables, lock, req, base, tree, made, log, hist>>

\* Mutant: PrevCID stays nil.
AppliedNoPrev(w, op) ==
    /\ tree' = [tree EXCEPT ![w][op.path] = op.value]
    /\ req' = [req EXCEPT ![w] = Tail(@)]
    /\ results' = [results EXCEPT ![w] =
                     Append(@, [action |-> op.action, path |-> op.path,
                                cid |-> op.value, prev |-> None])]
    /\ UNCHANGED <<tables, conn, lock, pc, base, made, log, hist>>

\* Mutant: the results are in the wrong order.
AppliedPrepends(w, op) ==
    /\ tree' = [tree EXCEPT ![w][op.path] = op.value]
    /\ req' = [req EXCEPT ![w] = Tail(@)]
    /\ results' = [results EXCEPT ![w] =
                     <<[action |-> op.action, path |-> op.path,
                        cid |-> op.value, prev |-> tree[w][op.path]]>> \o @]
    /\ UNCHANGED <<tables, conn, lock, pc, base, made, log, hist>>

\* What both operations do to the tree, the request and the results.
Applied(w, op) ==
    /\ tree' = [tree EXCEPT ![w][op.path] = op.value]
    /\ req' = [req EXCEPT ![w] = Tail(@)]
    /\ results' = [results EXCEPT ![w] =
                     Append(@, [action |-> op.action, path |-> op.path,
                                cid |-> op.value, prev |-> tree[w][op.path]])]
    /\ UNCHANGED <<tables, conn, lock, pc, base, made, log, hist>>

\* Mutants of the next: an absent record is deleted as well; the index keeps its
\* row; a nil block is collected.
DeleteAbsent(w) ==
    /\ pc[w] = "tx" /\ req[w] # <<>> /\ Head(req[w]).action = "delete"
    /\ LET op == Head(req[w]) IN
       /\ Applied(w, op)
       /\ txn' = [txn EXCEPT !.index[op.path] = None, !.refs = {r \in @ : r[2] # op.path}]
DeleteKeepsIndex(w) ==
    /\ pc[w] = "tx" /\ req[w] # <<>> /\ Head(req[w]).action = "delete"
    /\ LET op == Head(req[w]) IN
       /\ tree[w][op.path] # None
       /\ Applied(w, op)
       /\ txn' = [txn EXCEPT !.refs = {r \in @ : r[2] # op.path}]

\* applyOne, delete: an absent record is an error, see Abort.
ApplyDelete(w) ==
    /\ pc[w] = "tx" /\ req[w] # <<>> /\ Head(req[w]).action = "delete"
    /\ LET op == Head(req[w]) IN
       /\ tree[w][op.path] # None
       /\ Applied(w, op)
       /\ txn' = [txn EXCEPT !.index[op.path] = None,
                             !.refs = {r \in @ : r[2] # op.path}]

\* Mutant: ClearBlobRefsForRecord is not called.
UpsertKeepsRefs(w) ==
    /\ pc[w] = "tx" /\ req[w] # <<>> /\ Head(req[w]).action # "delete"
    /\ LET op == Head(req[w]) IN
       /\ Applied(w, op)
       /\ txn' = [txn EXCEPT !.rec = @ \cup {op.value},
                             !.index[op.path] = op.value,
                             !.refs = @ \cup (BlobsOf[op.value] \X {op.path}),
                             !.metas = @ \cup BlobsOf[op.value]]

\* applyOne, create and update: one and the same upsert.
ApplyUpsert(w) ==
    /\ pc[w] = "tx" /\ req[w] # <<>> /\ Head(req[w]).action # "delete"
    /\ LET op == Head(req[w]) IN
       /\ Applied(w, op)
       /\ txn' = [txn EXCEPT !.rec = @ \cup {op.value},
                             !.index[op.path] = op.value,
                             !.refs = {r \in @ : r[2] # op.path}
                                         \cup (BlobsOf[op.value] \X {op.path}),
                             !.metas = @ \cup BlobsOf[op.value]]

\* Mutant: only a new path makes the MST dirty.
DirtyByInsert(w) == \E r \in Range(results[w]) : r.prev = None

\* WriteDiffBlocks writes an MST some operation has changed.
Dirty(w) == base[w] = NoCommit \/ \E r \in Range(results[w]) : r.cid # r.prev

\* Mutant: the clock is not seeded from the previous commit.
AnyRev(w) == 1..MaxRev

\* clk.Next(): past the revision clk was seeded from, whatever the wall clock
\* says.
NextRev(w) == (base[w].rev + 1)..MaxRev

\* The commit block, the root and everything the transaction wrote, at once,
\* and then the deferred unlock.
CommitWrite(w) ==
    /\ pc[w] = "tx" /\ req[w] = <<>> /\ Len(hist) < MaxHist
    /\ \E rev \in NextRev(w) :
          LET c == [tree |-> tree[w], rev |-> rev] IN
          /\ blocks' = [rec |-> blocks.rec \cup txn.rec,
                        node |-> blocks.node \cup (IF Dirty(w) THEN {tree[w]} ELSE {}),
                        commit |-> blocks.commit \cup {c}]
          /\ root' = c
          /\ made' = [made EXCEPT ![w] = [commit |-> c, rec |-> txn.rec]]
          /\ hist' = Append(hist, [kind |-> "write", commit |-> c, base |-> base[w]])
    /\ index' = txn.index /\ refs' = txn.refs /\ metas' = txn.metas
    /\ txn' = EmptyTxn
    /\ conn' = Free /\ lock' = Free
    /\ Goto(w, "emit")
    /\ UNCHANGED <<req, base, tree, results, log>>

\* Mutant: neither deferred call, so transaction and mutex stay.
AbortKeeps(w) ==
    /\ pc[w] \in {"root", "load", "begin", "tx"}
    /\ Return(w)
    /\ UNCHANGED <<tables, conn, lock, txn, log, hist>>

\* Any error before the commit rolls everything back and unlocks.
Abort(w) ==
    /\ pc[w] \in {"root", "load", "begin", "tx"}
    /\ conn' = IF conn = w THEN Free ELSE conn
    /\ txn' = IF conn = w THEN EmptyTxn ELSE txn
    /\ lock' = Free
    /\ Return(w)
    /\ UNCHANGED <<tables, log, hist>>

\* emitCommitEvent, after the lock is gone.  The CAR carries the blocks the
\* batch wrote; `rec` are the records among them.
EmitCommit(w) ==
    /\ pc[w] = "emit"
    /\ log' = Append(log, [kind |-> "commit", commit |-> made[w].commit, rec |-> made[w].rec,
                           since |-> base[w], ops |-> results[w]])
    /\ Return(w)
    /\ UNCHANGED <<tables, conn, lock, txn, hist>>

\* Append fails: the client is told its write failed, and it is not undone.
EmitFails(a) ==
    /\ Faults /\ pc[a] = "emit"
    /\ Return(a)
    /\ UNCHANGED <<tables, conn, lock, txn, log, hist>>

-----------------------------------------------------------------------------
(* handleImportRepo: a transaction, and no lock *)

BeginImport(i) ==
    /\ pc[i] = "idle" /\ conn = Free
    /\ conn' = i
    /\ Goto(i, "import")
    /\ UNCHANGED <<tables, lock, locals, txn, log, hist>>

\* ClearRepo, the blocks of the CAR, importWalk and SetRepoRoot, committed.
CommitImport(i) ==
    /\ pc[i] = "import" /\ Len(hist) < MaxHist
    /\ \E c \in Uploads :
          LET recs == Range(c.tree) \ {None} IN
          /\ blocks' = [rec |-> recs, node |-> {c.tree}, commit |-> {c}]
          /\ index' = c.tree
          /\ refs' = RefsOf(c.tree)
          /\ metas' = UNION {BlobsOf[v] : v \in recs}
          /\ root' = c
          /\ made' = [made EXCEPT ![i] = [commit |-> c, rec |-> {}]]
          /\ hist' = Append(hist, [kind |-> "import", commit |-> c, base |-> root])
    /\ conn' = Free
    /\ Goto(i, "emit")
    /\ UNCHANGED <<lock, req, base, tree, results, txn, log>>

\* A bad CAR, signature or tree, or an identity that does not resolve.
AbortImport(i) ==
    /\ pc[i] = "import"
    /\ conn' = Free
    /\ Return(i)
    /\ UNCHANGED <<tables, lock, txn, log, hist>>

\* emitSyncEvent reads the commit block again; it fails when it is gone.
EmitSync(i) ==
    /\ pc[i] = "emit" /\ conn = Free
    /\ log' = IF made[i].commit \in blocks.commit
              THEN Append(log, [kind |-> "sync", commit |-> made[i].commit])
              ELSE log
    /\ Return(i)
    /\ UNCHANGED <<tables, conn, lock, txn, hist>>

-----------------------------------------------------------------------------
(* handleSyncGetRepo: the root, then the blocks, in two queries *)

ReadRepoRoot(r) ==
    /\ pc[r] = "idle" /\ conn = Free /\ root # NoCommit
    /\ base' = [base EXCEPT ![r] = root]
    /\ Goto(r, "blocks")
    /\ UNCHANGED <<tables, conn, lock, req, tree, results, made, txn, log, hist>>

ReadAllBlocks(r) ==
    /\ pc[r] = "blocks" /\ conn = Free
    /\ Return(r)
    /\ UNCHANGED <<tables, conn, lock, txn, log, hist>>

-----------------------------------------------------------------------------
\* The process stops: open transactions roll back, the tables stay.
Crash ==
    /\ Faults
    /\ conn' = Free /\ lock' = Free /\ txn' = EmptyTxn
    /\ pc' = AtRest.pc /\ req' = AtRest.req /\ base' = AtRest.base
    /\ tree' = AtRest.tree /\ results' = AtRest.results /\ made' = AtRest.made
    /\ UNCHANGED <<tables, log, hist>>

Write(w) ==
    \/ StartWrite(w) \/ StartPut(w) \/ AcquireLock(w) \/ ReadRoot(w) \/ LoadTree(w)
    \/ BeginWrite(w) \/ ApplyDelete(w) \/ ApplyUpsert(w) \/ CommitWrite(w) \/ Abort(w)
    \/ EmitCommit(w) \/ EmitFails(w)
Import(i) ==
    \/ BeginImport(i) \/ CommitImport(i) \/ AbortImport(i) \/ EmitSync(i) \/ EmitFails(i)
Read(r) == ReadRepoRoot(r) \/ ReadAllBlocks(r)

Next ==
    \/ \E w \in Writers : Write(w)
    \/ \E i \in Importers : Import(i)
    \/ \E r \in Readers : Read(r)
    \/ Crash

Spec == Init /\ [][Next]_vars
=============================================================================
