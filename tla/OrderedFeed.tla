---------------------------- MODULE OrderedFeed ----------------------------
(***************************************************************************)
(* What the firehose promises: events are published once and for all, under *)
(* consecutive numbers; within a session a consumer is sent published       *)
(* events only, each at most once and in the order of their numbers.  That  *)
(* none is left out is no part of it: see GapsExplained and NoGap in        *)
(* FirehoseProperties.                                                      *)
(***************************************************************************)
EXTENDS Integers

CONSTANT Consumers

VARIABLES
    published,  \* events 1..published are published
    open,       \* the consumers in a session
    floor       \* the last event of the session, or the one it began after

feed == <<published, open, floor>>

Init == published = 0 /\ open = {} /\ floor = [c \in Consumers |-> 0]

Publish ==
    /\ published' = published + 1
    /\ UNCHANGED <<open, floor>>

Open(c) ==
    /\ c \notin open
    /\ open' = open \cup {c}
    /\ \E k \in 0..published : floor' = [floor EXCEPT ![c] = k]
    /\ UNCHANGED published

Send(c) ==
    /\ c \in open
    /\ \E e \in (floor[c] + 1)..published : floor' = [floor EXCEPT ![c] = e]
    /\ UNCHANGED <<published, open>>

\* Some sessions end; all of them when the server stops.
Close(C) ==
    /\ open' = open \ C
    /\ floor' = [c \in Consumers |-> IF c \in C THEN 0 ELSE floor[c]]
    /\ UNCHANGED published

Next ==
    \/ Publish
    \/ \E c \in Consumers : Open(c) \/ Send(c)
    \/ \E C \in SUBSET Consumers : Close(C)

Spec == Init /\ [][Next]_feed
=============================================================================
