------------------------ MODULE FirehoseProperties ------------------------
(***************************************************************************)
(* What Firehose must satisfy, and the fairness its scheduling justifies.   *)
(***************************************************************************)
EXTENDS Firehose

Accounted(s) == got[s] \cup lost[s]

\* The only ways a consumer misses an event between the position it began
\* at and the cursor it holds are a full channel, a trim between two
\* queries of its handler, and a broadcast overtaken by a later one: the
\* splice of backfill and live tail (subscribe.go:72-139) loses none, and
\* neither does a crash or a reconnection with the last number received.
Explained(s) ==
    pos[s] # NoCursor =>
        \A e \in 1..seqno : start[s] < e /\ e <= pos[s] => e \in Accounted(s)
GapsExplained == \A s \in Subs : Explained(s)

\* A consumer that returns with a number it was sent is never told
\* FutureCursor (subscribe.go:78-85), whatever was trimmed, rolled back or
\* lost in a crash meanwhile.
ResumeNeverRefused ==
    \A s \in Subs : got[s] # {} => spc[s] # "refused"

\* Backfill, splice and live tail of one websocket follow OrderedFeed: what
\* is sent is already committed, and its numbers only grow.
Positioned == {s \in Subs : spc[s] \in {"rows", "live"}}
Floor == [s \in Subs |-> IF s \in Positioned THEN lastSent[s] ELSE 0]
Feed == INSTANCE OrderedFeed WITH
            Consumers <- Subs,
            published <- seqno,
            open <- Positioned,
            floor <- Floor
ImplementsFeed == Feed!Spec

\* Sequencer: "both backfill (if requested) and the live tail, spliced
\* together without gaps" (sequencer.go:4-6).
NoGap ==
    \A s \in Subs : pos[s] # NoCursor =>
        \A e \in 1..seqno : start[s] < e /\ e <= pos[s] => e \in got[s]

-----------------------------------------------------------------------------
(* The inductive invariant behind the safety properties. *)

\* The trim spares the newest event, so LatestSeq is the high-water mark.
NewestKept == seqno > 0 => seqno \in events

\* An open transaction and an unfinished backfill both hold the connection.
ConnInv ==
    /\ \A a \in Appenders : apc[a] = "tx" <=> conn = a
    /\ \A s \in Subs : spc[s] = "rows" <=> conn = s

CommittedInv == \A a \in Appenders : apc[a] = "committed" => aseq[a] > 0

\* Until it sends something, a handler works with the cursor the consumer has.
CursorInv ==
    \A s \in Subs :
        /\ spc[s] \in {"latest", "earliest", "backfill"} =>
              pos[s] = cursor[s] /\ lastSent[s] = 0
        /\ spc[s] \in {"earliest", "backfill"} => cursor[s] # NoCursor
        /\ got[s] # {} => pos[s] # NoCursor /\ pos[s] <= seqno
        /\ got[s] = {} /\ pos[s] # NoCursor => pos[s] <= start[s]

\* Events on their way to s.
Coming(s) == Range(chan[s]) \cup Unbroadcast

\* From LatestSeq on, every new event is coming or was dropped.
LatestInv(s) ==
    spc[s] = "earliest" =>
        /\ cursor[s] <= latest[s]
        /\ \A e \in 1..seqno : e > latest[s] => e \in Coming(s) \cup lost[s]

\* While rows are read nothing is committed: they are all there is.
BackfillInv(s) ==
    spc[s] = "rows" =>
        /\ \A e \in 1..seqno : e > start[s] => e \in Accounted(s) \cup rows[s]
        /\ \A e \in rows[s] : e > lastSent[s]

TailInv(s) ==
    spc[s] = "live" =>
        \A e \in 1..seqno : e > start[s] => e \in Accounted(s) \cup Coming(s)

\* What the live loop skips is accounted for.
SkipInv(s) ==
    s \in Positioned =>
        \A e \in 1..lastSent[s] : e > start[s] => e \in Accounted(s)

DeliveryInv(s) ==
    LatestInv(s) /\ BackfillInv(s) /\ TailInv(s) /\ SkipInv(s) /\ Explained(s)

IInv ==
    /\ TypeOK /\ NewestKept /\ ConnInv /\ CommittedInv /\ CursorInv
    /\ ResumeNeverRefused
    /\ \A s \in Subs : DeliveryInv(s)

-----------------------------------------------------------------------------
(* A goroutine that can run does.  database/sql hands the connection to      *)
(* waiting requests in turn, so one that waits again and again gets it.      *)
(* Nothing makes a consumer read what is sent to it: no write has a deadline *)
(* (subscribe.go:69), so neither SendRow nor SendLive is fair.               *)
Servers ==
    /\ \A a \in Appenders :
          /\ SF_vars(BeginTx(a))
          /\ WF_vars(CommitEvent(a)) /\ WF_vars(Broadcast(a))
    /\ \A s \in Subs :
          /\ SF_vars(ReadLatest(s)) /\ SF_vars(ReadEarliest(s))
          /\ SF_vars(StartBackfill(s)) /\ WF_vars(EndBackfill(s))
          /\ WF_vars(Skip(s))

FairSpec == Spec /\ Servers

\* Append returns: a consumer that does not read loses events and keeps no writer
\* waiting ("drop rather than block the writer", sequencer.go:188-190).
AppendReturns == \A a \in Appenders : apc[a] = "begin" ~> apc[a] = "idle"

\* A consumer that stops reading in the middle of its backfill, and whose
\* websocket stays open.
StuckInBackfill == \E s \in Subs : <>[](spc[s] = "rows")

\* Only a backfill nobody reads can keep a writer from the log for ever.  Full
\* channels, consumers of the live tail that stopped reading, other writers,
\* rollbacks and queries of other handlers do not (sequencer.go:65-110, 182-193).
WritersGoOn == StuckInBackfill \/ AppendReturns

\* A handler does not stay in the queries that precede the live tail, whoever else
\* wants the connection, unless some consumer stops reading its backfill
\* (subscribe.go:72-119).
HandlerGoesLive ==
    \/ StuckInBackfill
    \/ \A s \in Subs : spc[s] = "latest" ~> spc[s] \in {"live", "refused", "off"}

\* An event that is committed and not yet broadcast while a consumer tails the
\* log reaches it or is lost in one of the ways of GapsExplained, unless the
\* websocket ends or the consumer stops reading (subscribe.go:121-138).
TailIsDelivered ==
    \A s \in Subs : WF_vars(SendLive(s)) =>
        \A e \in 1..MaxSeq :
            spc[s] = "live" /\ e > lastSent[s] /\ e \in Unbroadcast
                ~> e \in Accounted(s) \/ ~Registered(s)
=============================================================================
