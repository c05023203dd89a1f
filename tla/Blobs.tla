------------------------------- MODULE Blobs -------------------------------
(***************************************************************************)
(* The blobs of one actor: the tables `blobs`, `blob_refs` and `records` of *)
(* its database, the files under blobs/<did>/, uploadBlob, the requests     *)
(* that write records and repositories, as far as they touch those tables,  *)
(* and the listings a client walks page by page: listRecords, listBlobs and *)
(* listMissingBlobs, with the counts of checkAccountStatus.                 *)
(*                                                                         *)
(* The database has one connection, so a transaction is one step here;      *)
(* module Repo has its inside, and why references and index agree.  Files   *)
(* are outside of it: they change while a query holds the connection.       *)
(*                                                                         *)
(* Blobs and record paths are numbers, in the order of their text.          *)
(***************************************************************************)
EXTENDS Integers, FiniteSets

CONSTANTS
    Uploaders,  \* requests that call uploadBlob
    Readers,    \* requests that list or count, one walk at a time each
    Blobs,      \* CIDs of blobs
    Paths,      \* record paths of one collection
    Contents,   \* the sets of blobs a record may refer to
    Limit,      \* entries on a page
    MaxWrites,  \* bound of the model: record writes and imports
    MaxUploads, \* bound of the model: calls of uploadBlob
    Free        \* nobody holds the connection

ASSUME OrderAssumption == Blobs \subseteq Nat \ {0} /\ Paths \subseteq Nat \ {0}
ASSUME FiniteAssumption == IsFiniteSet(Blobs) /\ IsFiniteSet(Paths)
ASSUME ContentsAssumption == Contents \subseteq SUBSET Blobs
ASSUME LimitAssumption == Limit \in Nat \ {0}
ASSUME BoundsAssumption == MaxWrites \in Nat /\ MaxUploads \in Nat
ASSUME FreeAssumption == Free \notin Readers

VARIABLES
    records,    \* table records: the paths in it
    refs,       \* table blob_refs: pairs of a blob and a path
    metas,      \* table blobs
    file,       \* the file <cid> of each blob: "none", "whole", or "partial" when it need
                \* not be whole
    tmp,        \* the file <cid>.tmp, likewise
    conn,       \* who holds the database connection
    up,         \* the local variables of each upload
    rd,         \* the local variables of each reader, and what it has seen
    acked,      \* observer: blobs answered with 200 that no import has cleared since
    crossed,    \* observer: blobs two uploads wrote at the same time, see OpenTmp
    writes,     \* record writes and imports so far
    uploads     \* uploads so far

tables == <<records, refs, metas>>
disk == <<file, tmp>>
vars == <<records, refs, metas, file, tmp, conn, up, rd, acked, crossed, writes, uploads>>

States == {"none", "partial", "whole"}
Walks == {"records", "reversed", "blobs", "missing"}

\* An upload: where it is, its blob, and the name of the file that is whole once
\* its write is done, as long as nobody truncates it again.
NoUpload == [at |-> "idle", blob |-> 0, fills |-> "nothing"]
\* A reader: the rows of the open query, those found to miss their file, the
\* cursor (0: none), what the pages so far contained, the counts, and as observers
\* what was there all the time and whether the tables changed.
NoRead == [at |-> "idle", kind |-> "none", rows |-> {}, out |-> {}, cursor |-> 0, seen |-> {},
           kept |-> {}, expected |-> 0, total |-> 0, imported |-> 0, changed |-> FALSE]

Init ==
    /\ records = {} /\ refs = {} /\ metas = {}
    /\ file = [b \in Blobs |-> "none"] /\ tmp = [b \in Blobs |-> "none"]
    /\ conn = Free
    /\ up = [u \in Uploaders |-> NoUpload] /\ rd = [r \in Readers |-> NoRead]
    /\ acked = {} /\ crossed = {}
    /\ writes = 0 /\ uploads = 0

\* Mutant: a temporary file counts.
OnDiskSomehow(b) == file[b] # "none" \/ tmp[b] # "none"
\* BlobFileExists asks for the name only.
OnDisk(b) == file[b] # "none"

Referenced(rs) == {x[1] : x \in rs}
\* sync.getBlob finds the row, and then the file.
Served(b) == b \in metas /\ file[b] # "none"

\* What a walk of each kind is to list, of the given tables.
Missing(rs) == {b \in Referenced(rs) : ~OnDisk(b)}
Listed(kind, recs, rs, ms) ==
    CASE kind = "blobs" -> ms
      [] kind = "missing" -> Missing(rs)
      [] OTHER -> recs
Entries(kind) == Listed(kind, records, refs, metas)

\* Observers of a step that takes the tables to the given ones: walks lose what
\* is not there any more.
Moved(kind, rs, ms) == (kind = "missing" /\ rs # refs) \/ (kind = "status" /\ ms # metas)
Noted(recs, rs, ms) ==
    [r \in Readers |->
       IF rd[r].at = "idle" THEN rd[r]
       ELSE [rd[r] EXCEPT !.kept = @ \cap Listed(rd[r].kind, recs, rs, ms),
                          !.changed = @ \/ Moved(rd[r].kind, rs, ms)]]

-----------------------------------------------------------------------------
(* uploadBlob *)

\* Another upload of the blob has the temporary file open, or is about to rename it.
Writing(u, b) == \E v \in Uploaders \ {u} : up[v].blob = b /\ up[v].at \in {"write", "rename"}

\* Mutant: no temporary file.
OpenInPlace(u) ==
    /\ up[u].at = "idle" /\ uploads < MaxUploads
    /\ \E b \in Blobs :
          /\ file' = [file EXCEPT ![b] = "partial"]
          /\ up' = [up EXCEPT ![u] = [at |-> "write", blob |-> b, fills |-> "file"]]
          /\ crossed' = IF Writing(u, b) THEN crossed \cup {b} ELSE crossed
    /\ uploads' = uploads + 1
    /\ UNCHANGED <<tables, tmp, conn, rd, acked, writes>>

\* WriteBlobFile opens <cid>.tmp and truncates it, whoever has it open; what the
\* others wrote, or have yet to write, does not make it whole.
OpenTmp(u) ==
    /\ up[u].at = "idle" /\ uploads < MaxUploads
    /\ \E b \in Blobs :
          /\ tmp' = [tmp EXCEPT ![b] = "partial"]
          /\ up' = [v \in Uploaders |->
                      IF v = u THEN [at |-> "write", blob |-> b, fills |-> "tmp"]
                      ELSE IF up[v].blob = b /\ up[v].fills = "tmp"
                           THEN [up[v] EXCEPT !.fills = "nothing"] ELSE up[v]]
          /\ crossed' = IF Writing(u, b) THEN crossed \cup {b} ELSE crossed
    /\ uploads' = uploads + 1
    /\ UNCHANGED <<tables, file, conn, rd, acked, writes>>

\* The last byte is written, under whatever name the file has by now.
EndWrite(u) ==
    /\ up[u].at = "write"
    /\ tmp' = IF up[u].fills = "tmp" THEN [tmp EXCEPT ![up[u].blob] = "whole"] ELSE tmp
    /\ file' = IF up[u].fills = "file" THEN [file EXCEPT ![up[u].blob] = "whole"] ELSE file
    /\ up' = [up EXCEPT ![u].at = "rename", ![u].fills = "nothing"]
    /\ UNCHANGED <<tables, conn, rd, acked, crossed, writes, uploads>>

\* os.Rename: an upload still writing the file goes on under its new name, and one
\* that wrote the file replaced by it is lost.  The name may be gone: see Fail.
Rename(u) ==
    /\ up[u].at = "rename" /\ tmp[up[u].blob] # "none"
    /\ LET b == up[u].blob IN
       /\ file' = [file EXCEPT ![b] = tmp[b]]
       /\ tmp' = [tmp EXCEPT ![b] = "none"]
       /\ up' = [v \in Uploaders |->
                   IF v = u THEN [up[u] EXCEPT !.at = "meta"]
                   ELSE IF up[v].blob # b THEN up[v]
                   ELSE [up[v] EXCEPT !.fills = IF @ = "tmp" THEN "file" ELSE "nothing"]]
       /\ crossed' = IF tmp[b] = "whole" /\ ~Writing(u, b) THEN crossed \ {b} ELSE crossed
    \* What has its file from now on is missing no more.
    /\ rd' = [r \in Readers |->
                IF rd[r].kind = "missing" THEN [rd[r] EXCEPT !.kept = @ \ {up[u].blob}] ELSE rd[r]]
    /\ UNCHANGED <<tables, conn, acked, writes, uploads>>

\* Mutant: the row comes before the file.
PutMetaFirst(u) ==
    /\ up[u].at = "write" /\ conn = Free
    /\ metas' = metas \cup {up[u].blob}
    /\ acked' = acked \cup {up[u].blob}
    /\ up' = [up EXCEPT ![u] = NoUpload]
    /\ rd' = Noted(records, refs, metas')
    /\ UNCHANGED <<records, refs, disk, conn, crossed, writes, uploads>>

\* PutBlobMeta, ON CONFLICT DO NOTHING, committed, and the answer.
PutMeta(u) ==
    /\ up[u].at = "meta" /\ conn = Free
    /\ metas' = metas \cup {up[u].blob}
    /\ acked' = acked \cup {up[u].blob}
    /\ up' = [up EXCEPT ![u] = NoUpload]
    /\ rd' = Noted(records, refs, metas')
    /\ UNCHANGED <<records, refs, disk, conn, crossed, writes, uploads>>

\* A full disk, a temporary file another upload has renamed, a cancelled request:
\* the handler answers with an error and leaves on disk what there is.
Fail(u) ==
    /\ up[u].at # "idle"
    /\ up' = [up EXCEPT ![u] = NoUpload]
    /\ UNCHANGED <<tables, disk, conn, rd, acked, crossed, writes, uploads>>

-----------------------------------------------------------------------------
(* Records and repositories *)

Written(recs, rs, ms) ==
    /\ conn = Free /\ writes < MaxWrites
    /\ records' = recs /\ refs' = rs /\ metas' = ms
    /\ acked' = acked \cap ms
    /\ rd' = Noted(recs, rs, ms)
    /\ writes' = writes + 1
    /\ UNCHANGED <<disk, conn, up, crossed, uploads>>

\* Mutant: a blob that was never uploaded gets no row.
WriteWithoutRow ==
    \E p \in Paths, bs \in Contents :
        Written(records \cup {p}, {x \in refs : x[2] # p} \cup (bs \X {p}), metas)

\* applyOne, create and update: the references are replaced, and a blob that was
\* never uploaded gets its row.
WriteRecord ==
    \E p \in Paths, bs \in Contents :
        Written(records \cup {p}, {x \in refs : x[2] # p} \cup (bs \X {p}), metas \cup bs)

\* applyOne, delete: rows of `blobs` and files stay.
DeleteRecord ==
    \E p \in records : Written(records \ {p}, {x \in refs : x[2] # p}, metas)

\* importRepo: ClearRepo takes the rows of uploaded blobs as well, and importWalk
\* puts back those the new records refer to.
ImportRepo ==
    \E recs \in SUBSET Paths : \E held \in [recs -> Contents] :
        LET rs == {x \in Blobs \X recs : x[1] \in held[x[2]]} IN
        Written(recs, rs, Referenced(rs))

-----------------------------------------------------------------------------
(* listRecords, listBlobs, listMissingBlobs *)

StartWalk(r) ==
    /\ rd[r].at = "idle"
    /\ \E kind \in Walks :
          rd' = [rd EXCEPT ![r] = [NoRead EXCEPT !.at = "page", !.kind = kind,
                                                 !.kept = Entries(kind)]]
    /\ UNCHANGED <<tables, disk, conn, up, acked, crossed, writes, uploads>>

\* An entry past the cursor, which is the last entry of the page before.
Past(r, e) ==
    \/ rd[r].cursor = 0
    \/ IF rd[r].kind = "reversed" THEN e < rd[r].cursor ELSE e > rd[r].cursor

\* Mutant: no ORDER BY.
InAnyOrder(kind, d, e) == TRUE
InOrder(kind, d, e) == IF kind = "reversed" THEN d >= e ELSE d <= e

\* A page is Limit rows long, or the last one.
IsPage(page, all) ==
    /\ page \subseteq all
    /\ Cardinality(page) = Limit \/ (page = all /\ Cardinality(page) < Limit)

\* The reader has the page; it comes back with its last entry, if it was full.
Answered(r, page, keys) ==
    \E last \in keys \cup {0} :
       /\ last = 0 <=> keys = {}
       /\ \A k \in keys : InOrder(rd[r].kind, k, last)
       /\ rd' = [rd EXCEPT ![r].at = IF Cardinality(page) = Limit THEN "page" ELSE "done",
                           ![r].cursor = last,
                           ![r].seen = @ \cup keys,
                           ![r].out = {}]

\* SELECT ... ORDER BY ... LIMIT, past the cursor.
TablePage(r) ==
    /\ rd[r].at = "page" /\ conn = Free
    /\ \E page \in SUBSET Entries(rd[r].kind) :
          /\ IsPage(page, {e \in Entries(rd[r].kind) : Past(r, e)})
          /\ \A d \in page, e \in Entries(rd[r].kind) \ page :
                Past(r, e) => InOrder(rd[r].kind, d, e)
          /\ Answered(r, page, page)
    /\ UNCHANGED <<tables, disk, conn, up, acked, crossed, writes, uploads>>

\* handleListRecords reads the blocks of the records afterwards; see Leave for the
\* block an import has taken away.
RecordsPage(r) == rd[r].kind \in {"records", "reversed"} /\ TablePage(r)
BlobsPage(r) == rd[r].kind = "blobs" /\ TablePage(r)

\* MissingBlobRefs goes through all references, whatever the cursor.
QueryMissing(r) ==
    /\ rd[r].at = "page" /\ rd[r].kind = "missing" /\ conn = Free
    /\ conn' = r
    /\ rd' = [rd EXCEPT ![r].at = "scan", ![r].rows = refs]
    /\ UNCHANGED <<tables, disk, up, acked, crossed, writes, uploads>>

\* One row, and os.Stat of its file: files may appear between two rows.
StatRow(r) ==
    /\ rd[r].at \in {"scan", "count"}
    /\ \E x \in rd[r].rows :
          /\ \A y \in rd[r].rows : x[1] <= y[1]
          /\ rd' = [rd EXCEPT ![r].rows = @ \ {x},
                              ![r].out = IF OnDisk(x[1]) THEN @ ELSE @ \cup {x}]
    /\ UNCHANGED <<tables, disk, conn, up, acked, crossed, writes, uploads>>

\* The page is cut between two rows, which may be rows of the same blob.
EndMissing(r) ==
    /\ rd[r].at = "scan" /\ rd[r].rows = {}
    /\ conn' = Free
    /\ \E page \in SUBSET rd[r].out :
          /\ IsPage(page, {x \in rd[r].out : Past(r, x[1])})
          /\ \A x \in page, y \in rd[r].out \ page : Past(r, y[1]) => x[1] <= y[1]
          /\ Answered(r, page, Referenced(page))
    /\ UNCHANGED <<tables, disk, up, acked, crossed, writes, uploads>>

-----------------------------------------------------------------------------
(* checkAccountStatus *)

\* CountBlobs: expectedBlobs.
CountExpected(r) ==
    /\ rd[r].at = "idle" /\ conn = Free
    /\ rd' = [rd EXCEPT ![r] = [NoRead EXCEPT !.at = "total", !.kind = "status",
                                              !.expected = Cardinality(metas)]]
    /\ UNCHANGED <<tables, disk, conn, up, acked, crossed, writes, uploads>>

\* CountImportedBlobs counts the rows again.
CountTotal(r) ==
    /\ rd[r].at = "total" /\ conn = Free
    /\ rd' = [rd EXCEPT ![r].at = "begin_count", ![r].total = Cardinality(metas)]
    /\ UNCHANGED <<tables, disk, conn, up, acked, crossed, writes, uploads>>

\* MissingBlobs; path 0 is no path.
QueryCount(r) ==
    /\ rd[r].at = "begin_count" /\ conn = Free
    /\ conn' = r
    /\ rd' = [rd EXCEPT ![r].at = "count", ![r].rows = metas \X {0}]
    /\ UNCHANGED <<tables, disk, up, acked, crossed, writes, uploads>>

\* Mutant: files are counted.
CountFiles(r) == Cardinality({b \in Blobs : OnDisk(b)})
Imported(r) == rd[r].total - Cardinality(rd[r].out)

EndCount(r) ==
    /\ rd[r].at = "count" /\ rd[r].rows = {}
    /\ conn' = Free
    /\ rd' = [rd EXCEPT ![r].at = "counted", ![r].imported = Imported(r), ![r].out = {}]
    /\ UNCHANGED <<tables, disk, up, acked, crossed, writes, uploads>>

\* A reader has its answer, or gives up; an open query is closed.
Leave(r) ==
    /\ rd[r].at # "idle"
    /\ rd' = [rd EXCEPT ![r] = NoRead]
    /\ conn' = IF conn = r THEN Free ELSE conn
    /\ UNCHANGED <<tables, disk, up, acked, crossed, writes, uploads>>

-----------------------------------------------------------------------------
\* The process stops.  A client that walks asks again for the page it had not got.
Crash ==
    /\ conn' = Free
    /\ up' = [u \in Uploaders |-> NoUpload]
    /\ rd' = [r \in Readers |->
                CASE rd[r].at \in {"page", "done", "counted"} -> rd[r]
                  [] rd[r].at = "scan" -> [rd[r] EXCEPT !.at = "page", !.rows = {}, !.out = {}]
                  [] OTHER -> NoRead]
    /\ UNCHANGED <<tables, disk, acked, crossed, writes, uploads>>

Upload(u) == OpenTmp(u) \/ EndWrite(u) \/ Rename(u) \/ PutMeta(u) \/ Fail(u)
Read(r) ==
    \/ StartWalk(r) \/ RecordsPage(r) \/ BlobsPage(r) \/ QueryMissing(r) \/ StatRow(r) \/ EndMissing(r)
    \/ CountExpected(r) \/ CountTotal(r) \/ QueryCount(r) \/ EndCount(r) \/ Leave(r)

Next ==
    \/ \E u \in Uploaders : Upload(u)
    \/ \E r \in Readers : Read(r)
    \/ WriteRecord \/ DeleteRecord \/ ImportRepo
    \/ Crash

Spec == Init /\ [][Next]_vars
=============================================================================
