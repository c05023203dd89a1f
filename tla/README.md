# robby in TLA+

robby is a personal data server (PDS) for the AT Protocol, in Go: it keeps the
repositories of a few accounts in SQLite, serves them over XRPC, and streams every
change to relays over a websocket (the firehose). This directory specifies the parts of
it that are hard to test, model-checks them with TLC on small instances, and proves
their safety properties with TLAPS for instances of any size. Paths below are relative
to `src/`.

## 1. The system

One process. Each HTTP request is a goroutine, and may be cancelled at any statement;
handlers share

- `accounts.db`, opened with **one** connection: accounts, app passwords, refresh and
  admin tokens, reserved signing keys, and the `events` table of the firehose;
- one SQLite database per actor, also with one connection: blocks, root, record index,
  blob references;
- per-DID mutexes, the broadcaster's subscriber table, the login limiter;
- plc.directory, over HTTP.

A statement is atomic and so is a transaction. Nothing else is: a handler is a sequence
of statements with other handlers in between, and that is where the properties are.

| component | state | operations | hard behaviour | correct when |
|---|---|---|---|---|
| **Firehose** `sequencer.go`, `xrpc/subscribe.go` | `events` rows, AUTOINCREMENT, channels of 256, one handler per websocket | `Append`, `Subscribe`, cursor checks, backfill, live tail | broadcast after commit and outside any lock; trim between two queries; full channels; backfill rows hold the connection; crash between commit and broadcast | numbers only grow per websocket; every event missed has a known cause; a returning consumer is not refused; a writer waits for ever only for a backfill nobody reads |
| **Repository** `repoops/writer.go`, `actorstore/*`, `xrpc/repo.go`, `importRepo`, `getRepo` | blocks, root, index, blob refs | `ApplyWrites`, put, delete, import, CAR reads | mutex, then connection; import takes no mutex; the event is appended after both are released | index = MST of the root; batches are atomic; events can be inverted and played; a consumer that checks the chain sees what is lost or out of order; no update lost |
| **Account** `store.go`, `auth.go`, `session.go`, `apppassword.go`, `migration.go`, `admin.go` | account row with status and auth version; app passwords; refresh and admin tokens | login, refresh, logout, app passwords, (de)activate, takedown, set password, delete, create | a handler works with a copy of the row read earlier; deletion is five statements; the `#account` event is a separate step | accepted tokens are of the present era; one session per refresh; the firehose told the status |
| **Identity** `identity.go`, `plc.go`, `admin.go`, `migration.go`, `store.go` | handle and signing key of each row, key reservations, did:plc logs | create, reserve, migrate in, update the handle, submit an operation, refresh the identity, delete | read-modify-write over HTTP; operation, row and event are three steps | row, log and last event agree; the reserved key is used; an operation on a stale copy is refused |
| **Blobs** `repo.go`, `migration.go`, `sync.go`, `actorstore/store.go` | files and temporary files, rows of `blobs`, references | uploadBlob, getBlob, missing blobs, counts, rows made and cleared by writes and imports | files are outside the database; uploads of one blob share a temporary file; three queries for one answer; an import between upload and reference | a file is whole; an answered upload is served; a migration that uploads what is missing is complete |
| **Listings** `repo.go`, `sync.go`, `migration.go` | none | pages with a cursor | data changes between pages; pages cut between references of one blob | no entry that is there throughout is skipped |
| **Login limiter** `clientip.go` | token buckets per address, bounded table | allow, sweep | the table at its limit | a bucket in use is not forgotten |
| proxy, dialling, service auth, preferences, config, lexicon, CAR, event encoding, relay, CLI, HTTP wiring | none, or one column | — | — | not modelled: pure functions, I/O or single statements; reasons in `PROJECT.json` |

How they meet: ApplyWrites and importRepo (Repo), the account handlers (Account) and
the handle updates (Identity) all end in `Sequencer.Append` (Firehose). To those three
an append is one step, which may fail or be lost in a crash; Firehose models its
inside, for any set of callers. Account and Identity share the accounts table, and split
its columns: status and auth version there, handle and signing key here. Repo and Account
meet in `repo_root`, which activateAccount and importRepo consult. Blobs sees the
transactions of Repo from outside, as one step each, with the tables Repo proves consistent, and adds the
files, which no transaction covers.

## 2. Modules

| module | role |
|---|---|
| `Firehose` | the events table, Append and the websocket handlers |
| `OrderedFeed` | abstract: numbered events, per session in order and once |
| `FirehoseProperties` | properties, the refinement, the inductive invariant, fairness |
| `RangeLemmas`, `FirehoseProofs` | lemmas on sequences; theorems about Firehose |
| `Repo` | one actor's repository: writers, importers and readers over one database |
| `AtomicRepo` | abstract: a batch is applied in one step or not at all |
| `RepoProperties`, `RepoProofs` | likewise |
| `FoldLemmas`, `RepoBatchProofs` | induction over finite sets, for folds; theorems about whole batches, their events and the refinement |
| `Account`, `AccountProperties`, `AccountProofs` | one account: its row, sessions, app passwords, tokens, status events |
| `Identity`, `IdentityProperties`, `IdentityProofs` | handles, keys, did:plc logs and identity events of several DIDs |
| `Blobs`, `BlobsProperties`, `BlobsProofs` | one actor's blobs: uploads, files, rows, and the readers that list and count them page by page |
| `MCFirehose`, `MCRepo`, `MCAccount`, `MCIdentity`, `MCBlobs` | instances for TLC: small sets, symmetry |

**Firehose.** `apc` is where a goroutine is in `Append`: `BeginTx` waits for the
connection, `CommitEvent` is the transaction with its INSERT and its trim (nothing of it
is visible before COMMIT), `Broadcast` the loop over subscribers under the mutex. `spc`
is where a websocket handler is; `ReadLatest`, `ReadEarliest` and `StartBackfill` are
three queries, and between them events are committed, trimmed and broadcast. Times are
abstracted: the trim may remove any rows outside the newest `Window`, since timestamps
are compared as text and the clock may step back. `lost` is an observer that records
the ways in which the code may drop an event.

**Repo.** A record, an MST and a commit stand for their own CIDs. `AcquireLock` to
`CommitWrite` is what `WithLock` encloses; `EmitCommit` comes after it. `txn` is what the
open transaction has written, so `Abort` and `Crash` leave the tables alone. A delete in
SQL changes index and references and never `blocks`, as in the code; `Dirty` is the
MST's own notion of what `WriteDiffBlocks` stores. `hist` is an observer: what each commit
built on.

**Account.** A request at a place has done every statement before it, and carries the
copy of the row it read. `av` is the auth version as the code keeps it, signed into tokens
and compared by `requirePrincipal`; `era` counts password changes, deactivations and takedowns
and exists for the property alone: a token is current when its era is, which the code
must decide by `av`. `GiveUp` is an error, a refusal, a cancelled request or a crash at any
place. Password hashes and signatures are abstracted to who presents what. Tokens that have
expired are tokens nobody presents any more.

**Identity.** An operation is its place in the log, the handle and the signing key;
rotation keys, services and other aliases are left out (an update of the handle drops the latter, see section 4). plc.directory accepts what
follows the last operation and may refuse anything; `OtherServer` publishes what does not go
through this one. A reservation may expire at any time, which
stands for the hour it lasts. Three observers mark when two handlers overlapped or one
failed half way, and name the exceptions in the properties:
`torn` (row and log), `muddled` (row and event), `raced` (two reservations, or one racing an
account creation). An operation or a deletion that runs alone clears the marks it sets
right, so the properties promise recovery as well.

**Blobs.** `file` and `tmp` say of each blob whether the file is there and whole.
`OpenTmp` to `PutMeta` are the steps of uploadBlob with everything that may happen between them. An upload that
is still writing when another one truncates or renames its file goes on writing the file it has open, as
a process does; `fills` is the name that file has by now. `crossed` is an observer: blobs with
uploads that overlapped, until one that ran alone has put the file right. A reader walks one listing (`kind`): `TablePage` is a
query with its ORDER BY and LIMIT, `QueryMissing` to `EndMissing` the one of listMissingBlobs, which holds
the connection while it looks for each file on disk, so tables stay and files appear.
`CountExpected` to `EndCount` are the three queries of checkAccountStatus. `kept` and `changed` are observers: the
entries that have been there since the walk began, and whether the table the answer is
about has changed. Blobs and paths are numbers, for the order of the pages.

Definitions marked `Mutant:` are changed versions of the definition that follows.
No specification uses them; `PROJECT.json` pairs each with a property that it violates.

## 3. What TLC checks

| run | instance | shows |
|---|---|---|
| `Firehose_safety` | 2 appenders, 1 consumer, channel of 1, 3 events, window of 1, cursors -1 to 5 | `TypeOK`, `IInv`; `GapsExplained`: a missed event was dropped, trimmed or overtaken and nothing else; `ResumeNeverRefused`; `ImplementsFeed` (refinement of `OrderedFeed`); under fairness, with consumers that may stop reading, `WritersGoOn`, `HandlerGoesLive`, `TailIsDelivered` |
| `Firehose_blocked` | 1 appender, 1 consumer that may stop reading | **violates** `AppendReturns` |
| `Firehose_reordered` | 2 appenders | **violates** `NoGap` |
| `Repo_safety` | 2 writers, 2 paths, 2 values, 3 commits, crashes and failed appends | `BInv`: `IInv` with `TypeOK`, `EventsInvert` and its counterpart `EventsApply`, that an event reports a commit of the database and no two the same (`EventsReportWrites`), and what a batch under way has done; `NoWriteIsRaced`; `GapsAreSeen`: while the events chain none is missing and all are in order; `MirrorIsRepo`: so long, a consumer that plays their operations has the repository; `ImplementsAtomic` (refinement of `AtomicRepo`) |
| `Repo_live` | 2 writers, 1 importer, 1 reader, faults | `IndexIsTree`, `RefsAreExact`, `WritesAreSerial`, `EventsInvert`, `MirrorIsRepo`, `ProofIsComplete` with imports; `WritesReturn` under fairness |
| `Repo_lost` | 1 writer, a crash | **violates** `EveryCommitIsSequenced` |
| `Repo_raced` | 1 writer, 1 importer | **violates** `NoWriteIsRaced` |
| `Repo_relabelled` | 1 writer, nothing fails | **violates** `CreationsHaveNoPrev` |
| `Account_safety` | 2 requests, 1 app password name, 4 identifiers, from nothing or from an active account | `TypeOK`, `IInv`, `AcceptedIsCurrent`, `OneSessionPerRefresh`, `StatusIsAnnounced`, `ActivatedHasRepo` |
| `Account_takedown` | 2 requests | **violates** `NeverReactivated` |
| `Identity_safety` | 2 requests, a DID made here, one that migrates in, 2 handles, 2 keys, 4 operations | `TypeOK`, `IInv`, `HandleFollowsPlc`, `IdentityIsAnnounced`, `ReservedKeyIsUsed`, `PublishedFirst` |
| `Blobs_safety` | 2 uploads at a time, 1 reader, 2 blobs, 2 paths, pages of 1, 2 writes or imports, 2 uploads | `IInv`, `StoredIsWhole`, `AnsweredIsServed`, `WalksMissNothing`, `MigrationCompletes`, `CountsAreCautious` |

**Bounds.** Every hazard here is a race between two requests, so two of a kind suffice to
meet it, and the proofs cover the rest. `MaxSeq` 3 with `Window` 1 and `ChanCap` 1 lets
an event be trimmed, one be dropped or overtaken, with one left to resume from.
Three commits (`MaxHist`) make a chain with a middle, of which any may be lost or out of order; with imports
two commits on one path do, one of them the import. In Account four identifiers
allow a login, a refresh of it and two changes of era, or a deletion and a new
registration. In Identity four operations over two DIDs allow a migration in, two racing
updates and one that repairs them. In Blobs a page of one entry of two makes a walk of three
queries with changes before and behind the cursor, and two references of one blob make a page that ends
between them. `MaxSeq`, `MaxRev`, `MaxHist`, `MaxId`, `MaxTokens`,
`MaxOps`, `MaxKey`, `MaxWrites` and `MaxUploads` are bounds of the model alone, in the guards that create new things; the
code has none of them. Symmetry is used for requests, writers, uploads and handles, and in no
run with a liveness property.

**Deadlock** is checked in every run. It never happens: a consumer may always connect or leave,
a request may always start or give up, within the bounds.

**Fairness.** `FairSpec` of Firehose: strong fairness for whatever waits for the
connection, since database/sql serves waiters in the order they came; weak fairness for
the steps of a goroutine that waits for nothing. Nothing makes a consumer read what is sent to it, no
write has a deadline, so sending is not fair; a consumer that stops in the middle of its backfill is the exception that
`WritersGoOn` and `HandlerGoesLive` name, and finding 5. `FairSpec`
of Repo: strong fairness for lock and connection (sync.Mutex hands over to a waiter that has
waited for a millisecond), weak fairness for work in hand, with the
freedom to fail; that its appends come back is what `WritersGoOn` is about. Clients, crashes and failures are never fair. No
fairness is assumed of Account, Identity and Blobs, where nothing is promised to
happen: a handler that gives up owes nothing.

## 4. Findings

Six statements of the documentation, schemas or comments that the code does not keep, each with a
run whose counterexample is a few steps long:

1. *No gaps* (`internal/sequencer/sequencer.go:4-6`). Two appenders commit 1, 2 and
   broadcast 2, 1; the live loop skips 1 as already sent (`Firehose_reordered`).
2. *In-flight requests finish, a restart is safe at any time*
   (`deploy/systemd/README.md:109`). Stopped between COMMIT and Append, a commit has no event,
   and no code adds it later (`Repo_lost`).
3. *All writes are serialized behind a per-DID mutex* (`internal/actorstore/manager.go:29`).
   importRepo does not take it; a write that loaded its tree before discards
   the import (`Repo_raced`).
4. *A taken-down account is never permitted* (`internal/xrpc/session.go:271-273`).
   activateAccount's UPDATE has no condition on the status it was authorised
   under, so one that overlaps with a takedown undoes it (`Account_takedown`). The one regular way out
   of a takedown is the admin's: deactivate (`admin.go:223`), and let the owner activate.
5. *Drop rather than block the writer* (`internal/sequencer/sequencer.go:189`). True of the live tail; a
   consumer that stops reading in the middle of its backfill holds the connection of
   `accounts.db` (`sequencer.go:149`), and every Append waits (`Firehose_blocked`).
6. *prev is nil for creates* (`internal/repoops/writer.go:56`; "For creations, field should not be
   defined", `internal/lexicon/data/com/atproto/sync/subscribeRepos.json:210`). createRecord
   with the rkey of a record that is there replaces it by the upsert of an update; its operation is sent as a `create`
   with the previous CID in `prev` (`Repo_relabelled`).

Seen while choosing instances, and not among the runs (change the named configuration to
see them):

- An event dropped from a full channel is not sent by "the next backfill": the websocket stays
  open, the cursor moves past it (`sequencer.go:188-190`). It is `lost` in `GapsExplained`.
- A consumer that reconnects may be sent an event twice over its two websockets, for
  `lastSent` starts at 0 whatever the cursor (`subscribe.go:72`).
- `#commit` events are appended after the mutex is released (`writer.go:186`), so two writes of one
  repository may be sequenced in the other order. A consumer sees it in the chain of `since` and `prevData`
  (`GapsAreSeen`), and may have to fetch the repository.
- An import between the two queries of getRepo and sync.getRecord (`sync.go:66`, `148`) deletes the blocks of the root
  that was read: `ProofIsComplete` names it as the exception, and fails without.
- An update of the handle makes it the whole `alsoKnownAs` of the new operation (`identity.go:73`): other aliases of
  the DID are dropped.
- The auth version of an account that is deleted and registered again starts at 1 again (`store.go`, CreateAccount), so access
  tokens of the deleted account that have not expired match once more. `AcceptedIsCurrent` is about the tokens of one registration (`born`).
- Two overlapping reserveSigningKey calls for one DID both answer the key they made, and
  the table keeps the first (`store.go:446-458`): without the observer `raced`,
  `ReservedKeyIsUsed` fails.
- Two overlapping uploads of one blob write the same `<cid>.tmp`; the first to rename it may publish
  what the second has just truncated, and it stays so if the second fails
  (`actorstore/store.go:319-328`). Without `crossed`, `StoredIsWhole` fails.
- checkAccountStatus counts rows of `blobs`, which a client may add by uploading a blob no record refers to, and which stay
  when the record that referred to them is deleted: `expectedBlobs` is then more than the
  repository needs. Between its queries such a row may come; without `changed`,
  `CountsAreCautious` fails, with one more imported than expected (`migration.go:483-523`).
- importRepo clears the row of a blob uploaded before it that its records do not refer to. The file stays, and
  getBlob does not find it until another upload or a record brings the row back (`actorstore/store.go:433`).
- listRepos pages through accounts in the order of their creation with a DID as cursor, so
  a reader that needs a second page skips accounts whose DID sorts before the cursor.

## 5. What is proved

Every theorem is for any number of appenders, consumers, writers, importers, readers,
requests, names, DIDs, handles, uploads, blobs and paths, pages of any length, and any value of the bounds; the only assumptions are the
`ASSUME`s of the modules, which say of what kind the constants are and that
the kinds do not overlap, and, in the theorems that say so, that nobody imports, nothing fails, or
there is one appender, or that revocations run alone. Each module's proof goes by one inductive invariant `IInv` (in Repo
a second, `BInv`, builds on it), which the runs also check, so `Init => IInv`, `IInv /\ [Next]_vars => IInv'`, and the properties follow.

**Firehose** (`Invariance`, `TypeCorrect`, `GapsAreExplained`, `ResumeIsNeverRefused`,
`FirehoseImplementsFeed`, `SplicedWithoutGaps`). `GapsExplained` alone is not inductive: it speaks of what was sent and
says nothing of what is on its way. The strengthening follows the handler:
after `LatestSeq` every later event is coming (in the channel, or committed and about to be
broadcast) or lost (`LatestInv`); while the backfill holds the connection nothing can be
committed, so its rows are all there is (`BackfillInv`, `ConnInv`); in the live tail everything
past the start is sent, lost or coming (`TailInv`), and what `lastSent` lets it skip is
accounted for (`SkipInv`). `ResumeNeverRefused` needs `NewestKept`: the trim spares the newest row, so
MAX(seq) is the high-water mark. The refinement maps each step to a step of `OrderedFeed` or a stutter.
`SplicedWithoutGaps` is `NoGap`, which the code does not keep in general, under what it takes: one appender, and
a channel and a window that hold every event. Then numbers are broadcast as they are given out, so a channel
rises and holds fewer than the number that comes next, and nothing is ever lost (`NothingLost`).

**Repo** (`Invariance`, `TypeCorrect`, `IndexFollowsTree`, `RefsFollowIndex`,
`WritesSerialise`, `NoRaceWithoutImports`, `CommitsAreSequenced`). The mutex covers root read to commit (`LockInv`), so
the root a write loaded is still the root but for imports (`LoadedInv`), and its
transaction keeps index, MST and blocks in step (`TxnInv`). A write that an import raced
with is the exception `RacedImport`; without importers there is none, and every write builds on the
one before it. Without imports and faults every commit has an event or a writer about to
append it, so `CommitsAreSequenced` holds for any number of writers.

**Repo, whole batches** (`BatchInvariance`, `EventsLeadBack`, `EventsLeadOn`, `EventsAreGenuine`,
`BatchesAreWhole`, `WritesAreAtomic`, `ProofsAreComplete`, `BrokenChainsTell`, `ConsumersMirror`, in `RepoBatchProofs`). What a batch computes is a fold over its operations, and the
library's induction theorems take an operator, which no prover here can instantiate.
`FoldLemmas` therefore proves induction over the subsets of a finite set for a *set* of
subsets, in place of a predicate; by it the function that a fold describes is unique, which gives
both folds of the model a closed form: undoing operations (`Undo`)
leaves at each path the `prev` of its first operation (`Undone`), and applying them the value of its last
(`Done`), for any number of operations, whether or not they are on the same path. What appending one operation does to either is then a matter of
cases, and the second invariant `BInv` can follow a transaction statement by statement: the results so far lead from the tree
it has back to the tree it read, and it has stored every record the old tree lacks (`ReverseInv`); the index in the transaction is
that of a prefix of a request (`PrefixInv`); a writer about to append has committed what it reports, and nobody else reports it
(`PendingInv`). `EventsLeadBack` is `EventsInvert`, with imports, failures and crashes and any number of writers; `EventsLeadOn` is the way
forward, `EventsApply`. So is `EventsAreGenuine`, that is `EventsReportWrites`: an event reports a commit that the database has,
with the root it was built on. So is `BatchesAreWhole`: no step shows an index that is not that
of a whole request or a whole import. `WritesAreAtomic` is the refinement of
`AtomicRepo`, step by step, without imports, which AtomicRepo does not have. `ProofsAreComplete` says that what a reader loads
holds the tree of the root it read before, by `KeptInv`: the commits made since the last import, which no write raced, are
whole, for a write only adds blocks.

The last two theorems are about consumers, and assume nothing of the number of writers or of faults. `BrokenChainsTell`
is `GapsAreSeen`, of a repository nobody has imported into. Take the first event of a chain that is not the next commit of the history. It
reports some commit, built on the commit of the event before it (`EventsAreGenuine`); revisions grow, so no two commits of the history are
one (`WritesAreSerial`), and only the next one was built on that (`NextInHistory`). `ConsumersMirror` is `MirrorIsRepo`: each event of a chain leads on from the one before
(`EventsLeadOn`), so playing operations gives the tree of each, and the index at the root by `IndexIsTree`.

**Account** (`Invariance`, `TypeCorrect`, `AcceptedStaysCurrent`, `RefreshOnce`,
`StatusAnnounced`, `ActivationsHaveRepos`, `RevocationsLast`). `CopiesAreOld`: no copy of the row and no session is ahead of
the row, and one with the same auth version is of the same era; the
handlers only ever sign what a copy says, so this survives any delay. `ParentsAreSpent`: whoever
is about to issue a successor has deleted its parent's row. `AnnouncedInTurn`: unless
`muddled`, at most one handler has a status to announce, and it is the account's. `RevocationsLast` is about app passwords: every refresh token of one
has it (`SessionsHaveApps`), as long as no app password goes while a request has it checked and its session not stored, and
none is stored in the middle of a deletion (`RevocationsRunAlone`). The hypothesis is a formula about steps, which TLC takes no properties under;
to check it on an instance conjoin it to `Next`, and leave out either half to see `SessionsHaveApps` fail.

**Identity** (`Invariance`, `TypeCorrect`, `HandlesFollowPlc`, `IdentitiesAnnounced`,
`ReservedKeysUsed`, `MintedPublishedFirst`). Row and log agree only between
handlers, so `StoredInTurn` says whose handle is on its way: the one handler with a
handle to store has that of the last operation. `EmittedInTurn` says the same of events and rows,
`ReservedInTurn` of keys and answers. `LocalsFit` holds what updateHandle remembers of the log: if no operation
came since, its copy of the key is still right, and if one came, plc.directory
refuses it. `MadeAlone`: nobody else touches a DID before
its handler has stored the account. The proofs go one DID at a time (`FollowedAt`,
`AnnouncedAt`, `PromisedAt`), with a lemma that a step with one DID leaves the others alone.

**Blobs** (`Invariance`, `FilesAreWhole`, `AnswersAreServed`, `WalksAreComplete`,
`MigrationsComplete`, `CountsCautious`). The proof has two halves. `UploadsFit`: an upload about to rename has a whole
temporary file or is `crossed`, as any two that write the same blob are, and one about to store its row has its
file. `WalkFits`: whatever was there since the walk began is there now, and was met already unless it comes past
the cursor or is still among the rows of the open query. A full page is not empty and
ends with its last entry, so what is left comes past it (`TablePageFits`); a page of missing references may end
inside a blob, but then the blob was met (`EndMissingFits`). `CountFits` says that the rows
counted are those of the table. What links them is the connection: who has a query open holds it,
so nobody else changes tables (`ReaderStays`, `NobodyReads`). `MigrationCompletes` then joins uploads, walks and
references: what the walk did not name had its file, what it named was
answered, and every reference has its row. `CountsCautious` uses the library's theorems about cardinality.

Of the properties that a run refutes three have a theorem that says under what they hold: `SplicedWithoutGaps`
(`NoGap`), `CommitsAreSequenced` (`EveryCommitIsSequenced`), `NoRaceWithoutImports` (`NoWriteIsRaced`). These are
conditions that suffice; sections 3 and 4 show on small instances that without them the property fails.

Model-checked only: the liveness properties (`WritersGoOn`, `HandlerGoesLive`,
`TailIsDelivered`, `WritesReturn`), which rest on fairness and ENABLED.

## 6. Not modelled

The bytes: CBOR, CAR, MST nodes, JWT and password cryptography, JSON, lexicon validation. What they decide is
a choice (an import may be refused, a presented password is right or
wrong). Handlers that only read one row; the service proxy, relays,
the command line, configuration. A failure of the machine: the model's crash stops the process, and
what was renamed or committed stays; WriteBlobFile calls no fsync, so after a power cut it may not.
listRepos. `PROJECT.json` has the list with reasons.

Three hazards in `PROJECT.json` have no property, since what may happen there is what the code
means to do or does not try to exclude: a refresh token lost with its session in a crash, a refresh that
outlives the revocation of its app password (`RevocationsLast` says when), and an account deletion that stops half way, which can be repeated.

## 7. Plan

The order in which it was built: Firehose, Repo, Account, Identity, Blobs with the listings; each
first checked, then proved. What is left, most important first:

1. **Composition**: Account and Repo share `repo_root`; a module for deletion, re-creation and
   import of one account with both its databases and its blobs.
2. **Login limiter**: the bounded table and its sweep.
3. Proofs: abstract specifications of Account (a register of eras) and Blobs, and their refinement.

## 8. Running it

    tlc -workers 2 -config Identity_safety.cfg MCIdentity.tla
    tlapm IdentityProofs.tla

Each passing run takes under two minutes with two workers, the proofs a few minutes
per module. `PROJECT.json` lists runs, mutants, theorems and hazards, and maps
each definition to the lines it models.
