-------------------------- MODULE BlobsProperties --------------------------
(* What Blobs promises. *)
EXTENDS Blobs

Ups == [at : {"idle", "write", "rename", "meta"}, blob : Blobs \cup {0},
        fills : {"tmp", "file", "nothing"}]
Rds == [at : {"idle", "page", "scan", "done", "total", "begin_count", "count", "counted"},
        kind : Walks \cup {"status", "none"},
        rows : SUBSET (Blobs \X Nat), out : SUBSET (Blobs \X Nat),
        cursor : Nat, seen : SUBSET Nat, kept : SUBSET Nat,
        expected : Nat, total : Nat, imported : Int, changed : BOOLEAN]

\* Every variable is in its type.
TypeOK ==
    /\ records \subseteq Paths /\ refs \subseteq Blobs \X Paths /\ metas \subseteq Blobs
    /\ file \in [Blobs -> States] /\ tmp \in [Blobs -> States]
    /\ conn \in Readers \cup {Free}
    /\ up \in [Uploaders -> Ups] /\ rd \in [Readers -> Rds]
    /\ acked \subseteq Blobs /\ crossed \subseteq Blobs
    /\ writes \in Nat /\ uploads \in Nat

\* The file under a blob's name is whole at every moment, whatever stopped or
\* failed in between (store.go, WriteBlobFile: temporary file and rename).  Only
\* uploads of one blob that overlap can break it, for they share the temporary
\* file: what one renames the other has just truncated.
StoredIsWhole == \A b \in Blobs : file[b] = "partial" => b \in crossed

\* getBlob serves a blob whose upload was answered, from then on, whatever is
\* written, deleted or imported, until an import clears its row (repo.go,
\* handleUploadBlob: the row comes after the file; nothing removes a file).
AnsweredIsServed == \A b \in acked : Served(b)

\* A walk to the last page has met every entry that was there all the time,
\* whatever was added or removed before and behind its cursor meanwhile
\* (store.go, ListRecords, ListBlobCIDs; migration.go, handleListMissingBlobs,
\* whose pages may end in the middle of the references of one blob).
WalksMissNothing ==
    \A r \in Readers : rd[r].at = "done" => rd[r].kept \subseteq rd[r].seen

\* A client that has walked listMissingBlobs and uploaded all it was told, while
\* no reference changed, is done: getBlob serves every referenced blob ("An empty
\* `blobs` array means every referenced blob is present",
\* docs/MIGRATE-bsky-to-robby.md).
MigrationCompletes ==
    \A r \in Readers :
        rd[r].at = "done" /\ rd[r].kind = "missing" /\ ~rd[r].changed /\ rd[r].seen \subseteq acked
            => \A b \in Referenced(refs) : Served(b)

\* checkAccountStatus says that all expected blobs are imported only when they
\* are, and never a number out of range, unless rows came or went between its
\* three queries (migration.go, handleCheckAccountStatus; store.go,
\* CountImportedBlobs).  Uploads of expected blobs may go on meanwhile.
CountsAreCautious ==
    \A r \in Readers : rd[r].at = "counted" /\ ~rd[r].changed =>
        /\ rd[r].imported \in 0 .. rd[r].expected
        /\ rd[r].imported = rd[r].expected => \A b \in metas : Served(b)

-----------------------------------------------------------------------------
(* The inductive invariant *)

\* Every reference has its record and the row of its blob.
RefsHaveRows == Referenced(refs) \subseteq metas /\ \A x \in refs : x[2] \in records

\* What an upload has done so far; uploads of one blob that are writing are crossed.
UploadsFit ==
    /\ \A u \in Uploaders :
          /\ up[u].at # "idle" => up[u].blob \in Blobs
          /\ up[u].at # "write" => up[u].fills = "nothing"
          /\ up[u].at = "write" => up[u].fills = "tmp" \/ up[u].blob \in crossed
          /\ up[u].at = "rename" => tmp[up[u].blob] = "whole" \/ up[u].blob \in crossed
          /\ up[u].at = "meta" \/ up[u].fills = "file" => OnDisk(up[u].blob)
    /\ \A u, v \in Uploaders :
          /\ u # v /\ up[u].blob = up[v].blob
          /\ up[u].at \in {"write", "rename"} /\ up[v].at \in {"write", "rename"}
          => up[u].blob \in crossed

\* A walk: what was there all the time is there now, and was met unless it comes
\* past the cursor or in the rows of the open query.
WalkFits(r) ==
    /\ rd[r].at \in {"page", "scan", "done"} =>
          rd[r].kind \in Walks /\ rd[r].kept \subseteq Entries(rd[r].kind)
    /\ rd[r].at \in {"page", "scan"} => \A e \in rd[r].kept : Past(r, e) \/ e \in rd[r].seen
    /\ rd[r].at = "scan" =>
          conn = r /\ rd[r].kind = "missing" /\ rd[r].kept \subseteq Referenced(rd[r].rows \cup rd[r].out)
    /\ rd[r].at \in {"page", "scan", "done"} /\ rd[r].kind = "missing" /\ ~rd[r].changed =>
          Missing(refs) \subseteq rd[r].kept

\* The counts, while the rows stay.
CountFits(r) ==
    /\ rd[r].at \in {"total", "begin_count", "count", "counted"} => rd[r].kind = "status"
    /\ rd[r].at \in {"total", "begin_count", "count", "counted"} /\ ~rd[r].changed =>
          rd[r].expected = Cardinality(metas)
    /\ rd[r].at \in {"begin_count", "count"} /\ ~rd[r].changed => rd[r].total = Cardinality(metas)
    /\ rd[r].at \in {"total", "begin_count"} => rd[r].out = {}
    /\ rd[r].at = "count" =>
          /\ conn = r
          /\ rd[r].rows \subseteq metas \X {0} /\ rd[r].out \subseteq metas \X {0}
          /\ \A b \in metas : OnDisk(b) \/ <<b, 0>> \in rd[r].rows \cup rd[r].out

IInv ==
    /\ TypeOK /\ RefsHaveRows /\ UploadsFit
    /\ \A r \in Readers : WalkFits(r) /\ CountFits(r)
    /\ StoredIsWhole /\ AnsweredIsServed /\ WalksMissNothing /\ CountsAreCautious
=============================================================================
