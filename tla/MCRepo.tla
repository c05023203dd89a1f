------------------------------- MODULE MCRepo -------------------------------
(* Instances of Repo for TLC. *)
EXTENDS RepoProperties, TLC

CONSTANTS p1, p2, v1, v2, b1

MCPaths == {p1, p2}
MCValues == {v1, v2}
\* v1 has a blob, v2 has none.
MCBlobsOf == v1 :> {b1} @@ v2 :> {}

Op(a, p, v) == [action |-> a, path |-> p, value |-> v]

\* A create, a delete, and batches that touch two paths or one path twice.
MCBatches == {
    <<Op("create", p1, v1)>>,
    <<Op("delete", p1, None)>>,
    <<Op("create", p2, v2), Op("update", p1, v2)>>,
    <<Op("update", p1, v2), Op("delete", p1, None)>> }
\* A delete, and a batch that may fail after its first operation; putRecord
\* creates and updates.
FewBatches == {
    <<Op("delete", p1, None)>>,
    <<Op("update", p2, v2), Op("delete", p1, None)>> }

\* One path only, where what matters is who waits for whom.
OnePath == {p1}
OneBatch == {<<Op("create", p1, v1), Op("delete", p1, None)>>}
OneUpload == {[tree |-> p1 :> v2, rev |-> 1]}

MCUploads == {[tree |-> p1 :> v2 @@ p2 :> v1, rev |-> 1]}

Symmetry == Permutations(Writers)
=============================================================================
