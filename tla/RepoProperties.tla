--------------------------- MODULE RepoProperties ---------------------------
(***************************************************************************)
(* What Repo must satisfy, and the fairness its scheduling justifies.       *)
(***************************************************************************)
EXTENDS Repo, SequencesExt

HistEntries == [kind : {"write", "import"}, commit : Commits, base : Commits]
LogEntries ==
    [kind : {"commit"}, commit : Commits, rec : SUBSET Values, since : Commits, ops : Seq(Results)]
        \cup [kind : {"sync"}, commit : Commits]

PcStates == {"idle", "lock", "root", "load", "begin", "tx", "emit", "import", "blocks"}

TypeOK ==
    /\ blocks \in [rec : SUBSET Values, node : SUBSET Trees, commit : SUBSET Commits]
    /\ index \in Trees /\ refs \in SUBSET (Blobs \X Paths) /\ metas \in SUBSET Blobs
    /\ root \in Commits
    /\ conn \in Writers \cup Importers \cup {Free} /\ lock \in Writers \cup {Free}
    /\ pc \in [Actors -> PcStates]
    /\ req \in [Writers -> Seq(Ops)]
    /\ base \in [Writers \cup Readers -> Commits]
    /\ tree \in [Writers -> Trees]
    /\ results \in [Writers -> Seq(Results)]
    /\ made \in [Writers \cup Importers -> [commit : Commits, rec : SUBSET Values]]
    /\ txn \in [rec : SUBSET Values, index : Trees, refs : SUBSET (Blobs \X Paths),
                metas : SUBSET Blobs]
    /\ hist \in Seq(HistEntries) /\ log \in Seq(LogEntries)

\* Everything a commit's signature covers can be read back.
Readable(c) ==
    /\ c \in blocks.commit /\ c.tree \in blocks.node
    /\ Range(c.tree) \subseteq blocks.rec \cup {None}

\* The i-th commit was built on another root than the one it replaced.
Raced(i) ==
    /\ hist[i].kind = "write"
    /\ hist[i].base # IF i = 1 THEN NoCommit ELSE hist[i - 1].commit

\* Some commit since the last import did.
RacedImport ==
    \E i \in 1..Len(hist) : Raced(i) /\ \A j \in i..Len(hist) : hist[j].kind = "write"

\* The record index is the MST of the root and the root is readable, whatever
\* writers, crashes and failed appends do; only a write that loaded its tree
\* before an import and committed after it can undo that (writer.go:92-182
\* holds the per-DID lock, migration.go:199-329 does not).
IndexIsTree == RacedImport \/ (index = root.tree /\ (root # NoCommit => Readable(root)))

\* The blob references are those of the indexed records, each with its
\* metadata, after any sequence of batches, rollbacks and imports.
RefsAreExact == refs = RefsOf(index) /\ {r[1] : r \in refs} \subseteq metas

\* Writes are serial: one is built on the write before it, or on an import
\* that came later.  Their revisions grow whatever the wall clock says.
WritesAreSerial ==
    \A i, j \in 1..Len(hist) :
        i < j /\ hist[i].kind = "write" /\ hist[j].kind = "write" =>
            /\ \E k \in i..(j - 1) : hist[j].base = hist[k].commit
            /\ (\A k \in i..j : hist[k].kind = "write") =>
                  hist[i].commit.rev < hist[j].commit.rev

\* Undoing the operations of an event, last first.
Undo(t, ops) == FoldRight(LAMBDA op, u : [u EXCEPT ![op.path] = op.prev], ops, t)

\* A #commit event is invertible and self-contained: whatever its operations are
\* labelled (see CreationsHaveNoPrev), their paths, cids and prevs lead back from
\* the new tree to prevData, and its CAR has every record that the tree of
\* prevData has not (writer.go:195-243).
EventsInvert ==
    \A i \in 1..Len(log) : log[i].kind = "commit" =>
        /\ Undo(log[i].commit.tree, log[i].ops) = log[i].since.tree
        /\ Range(log[i].commit.tree) \ Range(log[i].since.tree) \subseteq log[i].rec \cup {None}
        /\ log[i].since.rev < log[i].commit.rev

\* The operations of an event, first to last, applied to a consumer's tree.
Play(t, ops) ==
    [p \in Paths |-> LET at == {k \in 1..Len(ops) : ops[k].path = p} IN
                     IF at = {} THEN t[p] ELSE ops[Max(at)].cid]

\* Forward, the operations of a #commit event turn the tree of prevData into the
\* new one (writer.go:195-219).
EventsApply ==
    \A i \in 1..Len(log) : log[i].kind = "commit" =>
        Play(log[i].since.tree, log[i].ops) = log[i].commit.tree

\* Event i says it follows the one before it, or tells the consumer to start anew.
Follows(i) ==
    log[i].kind = "sync" \/ log[i].since = IF i = 1 THEN NoCommit ELSE log[i - 1].commit
Unbroken(n) == \A i \in 1..n : Follows(i)

\* What a consumer has after n events that starts with nothing, does what the
\* operations say and fetches the repository on #sync (sequencer.go:1-6).
Mirror(n) ==
    LET after[i \in 0..n] ==
            IF i = 0 THEN EmptyTree
            ELSE IF log[i].kind = "sync" THEN log[i].commit.tree
            ELSE Play(after[i - 1], log[i].ops)
    IN  after[n]

\* As long as since and prevData chain, a consumer of the operations alone has the
\* tree each event reports, and the record index when that is the root: with
\* several writers, imports, crashes and lost or reordered events, its chain tells
\* it whether it can go on (writer.go:162-243).
MirrorIsRepo ==
    \A n \in 1..Len(log) : Unbroken(n) =>
        /\ Mirror(n) = log[n].commit.tree
        /\ log[n].commit = root /\ ~RacedImport => Mirror(n) = index

\* Once no request is under way every commit has its event, so that a restart
\* is safe at any time and in-flight requests finish
\* (deploy/systemd/README.md:109-111).
EveryCommitIsSequenced ==
    (\A a \in Actors : pc[a] = "idle") =>
        \A i \in 1..Len(hist) : \E j \in 1..Len(log) : log[j].commit = hist[i].commit

\* "All writes to an actor's repo are serialized behind a per-DID mutex"
\* (manager.go:29-31): no write replaces a root it has not built on.
NoWriteIsRaced == \A i \in 1..Len(hist) : ~Raced(i)

\* Commit c was made here and nobody has imported since.
Built(c) ==
    \E k \in 1..Len(hist) :
        c = hist[k].commit /\ \A m \in (k + 1)..Len(hist) : hist[m].kind = "write"

\* getRepo and sync.getRecord answer with "a valid but non-minimal proof"
\* (sync.go:124-126): the blocks they read contain the tree of the root they
\* read before, however many writes commit in between; an import in between, or
\* one that raced a write, takes it away.
ProofIsComplete ==
    [][\A r \in Readers : ReadAllBlocks(r) /\ Built(base[r]) /\ ~RacedImport => Readable(base[r])]_vars

\* "nil for creates" (writer.go:56), "For creations, field should not be defined"
\* (subscribeRepos.json:210): what an event calls a creation has no previous
\* record.
CreationsHaveNoPrev ==
    \A i \in 1..Len(log) : log[i].kind = "commit" =>
        \A op \in Range(log[i].ops) : op.action = "create" => op.prev = None

\* The write path is atomic: seen through the index and the root, each commit
\* applies one whole batch to the current records.
Puts == {<<[action |-> act, path |-> p, value |-> v]>> :
            act \in {"create", "update"}, p \in Paths, v \in Values}
Requests == Batches \cup Puts
Atomic == INSTANCE AtomicRepo WITH
              Keys <- Paths, Requests <- Requests, Absent <- None,
              records <- index, rev <- root.rev
ImplementsAtomic == Atomic!Spec

-----------------------------------------------------------------------------
(* The inductive invariant behind IndexIsTree, RefsAreExact and                *)
(* WritesAreSerial.                                                            *)

\* The mutex covers a write from reading the root to the end of its
\* transaction; a transaction holds the connection.
LockInv == \A w \in Writers : pc[w] \in {"root", "load", "begin", "tx"} <=> lock = w
ConnInv ==
    /\ \A w \in Writers : pc[w] = "tx" <=> conn = w
    /\ \A i \in Importers : pc[i] = "import" <=> conn = i

Made(k) == IF k = 0 THEN NoCommit ELSE hist[k].commit
RootInv == root = Made(Len(hist))

\* The root a write has loaded is still the root, but for imports.
Recent(c) ==
    \E k \in 0..Len(hist) :
        c = Made(k) /\ \A m \in (k + 1)..Len(hist) : hist[m].kind = "import"
LoadedInv == \A w \in Writers : pc[w] \in {"load", "begin", "tx"} => Recent(base[w])

TreeInv == \A w \in Writers : pc[w] = "begin" => tree[w] = base[w].tree

\* A transaction on the root it loaded keeps index, MST and blocks in step.
TxnInv ==
    \A w \in Writers : pc[w] = "tx" /\ base[w] = root /\ ~RacedImport =>
        /\ txn.index = tree[w]
        /\ Range(tree[w]) \subseteq blocks.rec \cup txn.rec \cup {None}
        /\ Dirty(w) \/ tree[w] = base[w].tree
TxnRefsInv ==
    conn \in Writers => txn.refs = RefsOf(txn.index) /\ {r[1] : r \in txn.refs} \subseteq txn.metas

IInv ==
    /\ TypeOK /\ LockInv /\ ConnInv /\ RootInv /\ LoadedInv /\ TreeInv /\ TxnInv /\ TxnRefsInv
    /\ IndexIsTree /\ RefsAreExact /\ WritesAreSerial

-----------------------------------------------------------------------------
(* The inductive invariant behind EventsInvert and ImplementsAtomic: what a     *)
(* batch has done so far, and what is still to be reported.                    *)

\* The operations q lead from commit c to tree t and back, and rec has what c
\* has not.
Reverses(t, q, c, rec) ==
    /\ Undo(t, q) = c.tree /\ Play(c.tree, q) = t
    /\ Range(t) \ Range(c.tree) \subseteq rec \cup {None}
ReverseInv ==
    \A w \in Writers :
        /\ pc[w] = "tx" => Reverses(tree[w], results[w], base[w], txn.rec)
        /\ pc[w] = "emit" =>
              /\ Reverses(made[w].commit.tree, results[w], base[w], made[w].rec)
              /\ base[w].rev < made[w].commit.rev

\* A transaction has applied the first n operations of a request to the index;
\* what they deleted was there, unless an import came in between.
PrefixInv ==
    \A w \in Writers :
        /\ pc[w] \in {"lock", "root", "load", "begin"} => req[w] \in Requests
        /\ pc[w] = "tx" =>
              \E b \in Requests : \E n \in 0..Len(b) :
                  /\ req[w] = SubSeq(b, n + 1, Len(b))
                  /\ txn.index = Atomic!State(b, n)
                  /\ base[w] = root /\ ~RacedImport =>
                        \A i \in 1..n : b[i].action = "delete" =>
                            Atomic!State(b, i - 1)[b[i].path] # None

\* The i-th commit is a write that made c out of the root b.
Records(i, c, b) == hist[i].kind = "write" /\ hist[i].commit = c /\ hist[i].base = b
OnlyWrites == \A i \in 1..Len(hist) : hist[i].kind = "write"

\* Every #commit event reports a commit that is in the database, with the root
\* it was built on; and where nobody has imported, none reports what another has,
\* even if Append fails or the process stops (writer.go:172-192).
EventsReportWrites ==
    /\ \A i \in 1..Len(log) : log[i].kind = "commit" =>
          \E j \in 1..Len(hist) : Records(j, log[i].commit, log[i].since)
    /\ OnlyWrites =>
          \A i, j \in 1..Len(log) :
              log[i].kind = "commit" /\ log[j].kind = "commit" /\ log[i].commit = log[j].commit
                  => i = j

\* A consumer that checks the chain misses nothing: while nobody imports, the
\* events up to the first broken link are the history from its beginning, in its
\* order.  Events are appended after the mutex is released and may be lost
\* (writer.go:172-192); either shows as a since that does not match.
GapsAreSeen ==
    OnlyWrites => \A n \in 1..Len(log) : Unbroken(n) =>
        \A i \in 1..n : Records(i, log[i].commit, log[i].since)

\* What a writer is about to report it has committed, and nobody else reports.
PendingInv ==
    \A w \in Writers : pc[w] = "emit" =>
        /\ \E j \in 1..Len(hist) : Records(j, made[w].commit, base[w])
        /\ OnlyWrites =>
              /\ \A i \in 1..Len(log) :
                    log[i].kind = "commit" => log[i].commit # made[w].commit
              /\ \A v \in Writers :
                    pc[v] = "emit" /\ made[v].commit = made[w].commit => v = w

BInv ==
    /\ IInv /\ ReverseInv /\ PrefixInv /\ PendingInv
    /\ EventsInvert /\ EventsApply /\ EventsReportWrites

-----------------------------------------------------------------------------
(* Requests under way go on.  sync.Mutex and database/sql serve waiters in    *)
(* turn, so a step that waits for the lock or the connection is strongly      *)
(* fair; the identity lookup of an import comes back, if with an error.  That  *)
(* EmitCommit is fair takes that Append returns: module FirehoseProperties      *)
(* says when it does.                                                          *)
Waits(w) == AcquireLock(w) \/ ReadRoot(w) \/ LoadTree(w) \/ BeginWrite(w)
Works(w) ==
    \/ ApplyDelete(w) \/ ApplyUpsert(w) \/ CommitWrite(w) \/ EmitCommit(w)
    \/ pc[w] \in {"load", "tx"} /\ Abort(w)

FairSpec ==
    /\ Spec
    /\ \A w \in Writers : SF_vars(Waits(w)) /\ WF_vars(Works(w))
    /\ \A i \in Importers :
          WF_vars(CommitImport(i) \/ AbortImport(i)) /\ SF_vars(EmitSync(i))

\* Every write returns: the lock and the connection are never held in a cycle.
WritesReturn == \A w \in Writers : pc[w] = "lock" ~> pc[w] = "idle"
=============================================================================
