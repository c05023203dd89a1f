----------------------------- MODULE MCFirehose -----------------------------
(* Instances of Firehose for TLC. *)
EXTENDS FirehoseProperties

\* -1 is a number the handler accepts; 5 is ahead of every event.
MCCursors == {-1, 0, 1, 2, 5}
=============================================================================
