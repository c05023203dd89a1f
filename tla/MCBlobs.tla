------------------------------ MODULE MCBlobs ------------------------------
(* Instances of Blobs for TLC. *)
EXTENDS BlobsProperties, TLC

\* Records without a blob, with the first, and with both.
MCContents == {{}, {1}, {1, 2}}

Symmetry == Permutations(Uploaders)
=============================================================================
