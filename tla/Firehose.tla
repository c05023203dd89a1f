------------------------------ MODULE Firehose ------------------------------
(***************************************************************************)
(* The event log behind com.atproto.sync.subscribeRepos: the `events`       *)
(* table of accounts.db, Sequencer.Append and its broadcaster               *)
(* (internal/sequencer/sequencer.go), and one websocket handler per         *)
(* consumer (internal/xrpc/subscribe.go).                                   *)
(*                                                                         *)
(* accounts.db is opened with one connection, so every query waits for it:  *)
(* an open transaction and an unfinished row iteration both hold it.  An    *)
(* event is its sequence number; its payload plays no part.                 *)
(***************************************************************************)
EXTENDS Integers, Sequences, FiniteSetsExt, Functions

CONSTANTS
    Appenders,  \* goroutines that may be inside Sequencer.Append
    Subs,       \* firehose consumers, each with at most one open websocket
    Cursors,    \* the cursors a new consumer may send
    MaxSeq,     \* bound of the model: no more than this many events
    ChanCap,    \* capacity of a live channel (256 in the code)
    Window,     \* the 72 h window: the newest Window events are never old
    Free,       \* nobody holds the accounts.db connection
    NoCursor    \* the request has no cursor parameter

ASSUME CursorsAssumption == Cursors \subseteq Int /\ NoCursor \notin Int
ASSUME MaxSeqAssumption == MaxSeq \in Nat
ASSUME ChanCapAssumption == ChanCap \in Nat \ {0}
\* Append stamps its own row with the time it computes the cutoff from.
ASSUME WindowAssumption == Window \in Nat \ {0}
ASSUME FreeAssumption == Free \notin Appenders \cup Subs
ASSUME ActorsAssumption == Appenders \cap Subs = {}

VARIABLES
    events,     \* sequence numbers of the rows of the events table
    seqno,      \* its AUTOINCREMENT high-water mark
    conn,       \* who holds the accounts.db connection
    apc,        \* appender: "idle", "begin", "tx" or "committed"
    aseq,       \* appender: the number it committed, 0 when none
    spc,        \* consumer's handler: where it is, "off" without a websocket
    cursor,     \* handler: the cursor of the request
    latest,     \* handler: what LatestSeq returned
    lastSent,   \* handler: lastSent
    rows,       \* handler: rows the backfill query has still to yield
    chan,       \* the handler's live channel
    start,      \* consumer: the position its subscription began at
    pos,        \* consumer: the cursor it would reconnect with
    got,        \* consumer: every event it was sent since start
    lost        \* observer: events of the consumer that were dropped from a
                \* full channel, trimmed before its backfill, or overtaken

store == <<events, seqno>>
writers == <<apc, aseq>>
handler == <<spc, cursor, latest, lastSent, rows>>
consumer == <<start, pos, got>>
vars == <<events, seqno, conn, apc, aseq, spc, cursor, latest, lastSent, rows,
          chan, start, pos, got, lost>>

SpcStates == {"off", "refused", "latest", "earliest", "backfill", "rows", "live"}

TypeOK ==
    /\ seqno \in Nat /\ events \in SUBSET (1..seqno)
    /\ conn \in Appenders \cup Subs \cup {Free}
    /\ apc \in [Appenders -> {"idle", "begin", "tx", "committed"}]
    /\ aseq \in [Appenders -> 0..seqno]
    /\ spc \in [Subs -> SpcStates]
    /\ cursor \in [Subs -> Int \cup {NoCursor}]
    /\ latest \in [Subs -> 0..seqno]
    /\ lastSent \in [Subs -> 0..seqno]
    /\ rows \in [Subs -> SUBSET (1..seqno)]
    /\ chan \in [Subs -> Seq(1..seqno)]
    /\ start \in [Subs -> Int]
    /\ pos \in [Subs -> Int \cup {NoCursor}]
    /\ got \in [Subs -> SUBSET (1..seqno)]
    /\ lost \in [Subs -> SUBSET (1..seqno)]

Init ==
    /\ events = {} /\ seqno = 0 /\ conn = Free
    /\ apc = [a \in Appenders |-> "idle"] /\ aseq = [a \in Appenders |-> 0]
    /\ spc = [s \in Subs |-> "off"] /\ cursor = [s \in Subs |-> NoCursor]
    /\ latest = [s \in Subs |-> 0] /\ lastSent = [s \in Subs |-> 0]
    /\ rows = [s \in Subs |-> {}] /\ chan = [s \in Subs |-> <<>>]
    /\ start = [s \in Subs |-> 0] /\ pos = [s \in Subs |-> NoCursor]
    /\ got = [s \in Subs |-> {}] /\ lost = [s \in Subs |-> {}]

\* Mutants: the next number to be given out; COUNT(*) in place of MAX(seq).
NextSeq == Max(events \cup {0}) + 1
StoredCount == Cardinality(events)
LatestSeq == Max(events \cup {0})
EarliestSeq == IF events = {} THEN 0 ELSE Min(events)

\* Mutant: the handler subscribes when its queries are done.
SubscribedLate(s) == spc[s] \in {"rows", "live"}
Registered(s) == spc[s] \notin {"off", "refused"}

\* Events stored whose Append has not broadcast them yet.
Unbroadcast == {aseq[a] : a \in {b \in Appenders : apc[b] = "committed"}}

-----------------------------------------------------------------------------
(* Sequencer.Append *)

\* A handler calls Append; the guard keeps the model within MaxSeq events.
AppendCall(a) ==
    /\ apc[a] = "idle"
    /\ seqno + Cardinality({b \in Appenders : apc[b] \in {"begin", "tx"}}) < MaxSeq
    /\ apc' = [apc EXCEPT ![a] = "begin"]
    /\ UNCHANGED <<store, conn, aseq, handler, chan, consumer, lost>>

BeginTx(a) ==
    /\ apc[a] = "begin" /\ conn = Free
    /\ conn' = a
    /\ apc' = [apc EXCEPT ![a] = "tx"]
    /\ UNCHANGED <<store, aseq, handler, chan, consumer, lost>>

\* INSERT, UPDATE, trim and COMMIT: nothing of it is visible before the
\* commit.  The trim compares timestamps as RFC3339Nano text, which drops
\* trailing zeros, and the wall clock may step back: what is old need not be
\* a prefix of the log, and is never the row just inserted.
CommitEvent(a) ==
    /\ apc[a] = "tx"
    /\ seqno' = seqno + 1
    /\ \E old \in SUBSET (1..(seqno' - Window)) : events' = (events \cup {seqno'}) \ old
    /\ conn' = Free
    /\ apc' = [apc EXCEPT ![a] = "committed"]
    /\ aseq' = [aseq EXCEPT ![a] = seqno']
    /\ UNCHANGED <<handler, chan, consumer, lost>>

\* Mutant: no deferred tx.Rollback.
NoRollback(a) ==
    /\ apc[a] \in {"begin", "tx"}
    /\ apc' = [apc EXCEPT ![a] = "idle"]
    /\ UNCHANGED <<store, conn, aseq, handler, chan, consumer, lost>>

\* Any error before the commit, a cancelled request included: the number
\* goes back with the row, for sqlite_sequence is part of the transaction.
RollbackEvent(a) ==
    /\ apc[a] \in {"begin", "tx"}
    /\ apc' = [apc EXCEPT ![a] = "idle"]
    /\ conn' = IF conn = a THEN Free ELSE conn
    /\ UNCHANGED <<store, aseq, handler, chan, consumer, lost>>

\* broadcast runs under s.mu, so it meets every registered channel at once;
\* a full channel makes it drop the event for that consumer.
Broadcast(a) ==
    /\ apc[a] = "committed"
    /\ chan' = [s \in Subs |->
                  IF Registered(s) /\ Len(chan[s]) < ChanCap
                  THEN Append(chan[s], aseq[a]) ELSE chan[s]]
    /\ lost' = [s \in Subs |->
                  IF Registered(s) /\ Len(chan[s]) >= ChanCap
                  THEN lost[s] \cup {aseq[a]} ELSE lost[s]]
    /\ apc' = [apc EXCEPT ![a] = "idle"]
    /\ aseq' = [aseq EXCEPT ![a] = 0]
    /\ UNCHANGED <<store, conn, handler, consumer>>

-----------------------------------------------------------------------------
(* handleSubscribeRepos *)

\* Subscribe(), before any query: from here on the channel fills.
Subscribe(s, c) ==
    /\ spc' = [spc EXCEPT ![s] = "latest"]
    /\ cursor' = [cursor EXCEPT ![s] = c]
    /\ latest' = [latest EXCEPT ![s] = 0]
    /\ lastSent' = [lastSent EXCEPT ![s] = 0]
    /\ rows' = [rows EXCEPT ![s] = {}]
    /\ chan' = [chan EXCEPT ![s] = <<>>]
    /\ UNCHANGED <<store, conn, writers>>

\* A new consumer, with or without a cursor.
Connect(s) ==
    /\ ~Registered(s)
    /\ \E c \in Cursors \cup {NoCursor} :
          /\ Subscribe(s, c)
          /\ pos' = [pos EXCEPT ![s] = c]
          /\ start' = [start EXCEPT ![s] = IF c = NoCursor THEN 0 ELSE c]
    /\ got' = [got EXCEPT ![s] = {}]
    /\ lost' = [lost EXCEPT ![s] = {}]

\* A consumer that comes back sends the last number it was sent.
Resume(s) ==
    /\ ~Registered(s)
    /\ Subscribe(s, pos[s])
    /\ UNCHANGED <<consumer, lost>>

\* No cursor: the live tail begins at the latest event.  A cursor ahead of
\* it: FutureCursor, and the handler returns.
ReadLatest(s) ==
    /\ spc[s] = "latest" /\ conn = Free
    /\ \/ /\ cursor[s] = NoCursor
          /\ spc' = [spc EXCEPT ![s] = "live"]
          /\ lastSent' = [lastSent EXCEPT ![s] = LatestSeq]
          /\ start' = [start EXCEPT ![s] = LatestSeq]
          /\ UNCHANGED <<latest, chan>>
       \/ /\ cursor[s] # NoCursor /\ cursor[s] > LatestSeq
          /\ spc' = [spc EXCEPT ![s] = "refused"]
          /\ chan' = [chan EXCEPT ![s] = <<>>]
          /\ UNCHANGED <<lastSent, start, latest>>
       \/ /\ cursor[s] # NoCursor /\ cursor[s] <= LatestSeq
          /\ spc' = [spc EXCEPT ![s] = "earliest"]
          /\ latest' = [latest EXCEPT ![s] = LatestSeq]
          /\ UNCHANGED <<lastSent, start, chan>>
    /\ UNCHANGED <<store, conn, writers, cursor, rows, pos, got, lost>>

\* OutdatedCursor tells the consumer it resumes from the latest event read
\* one query earlier; otherwise the backfill query comes next.
ReadEarliest(s) ==
    /\ spc[s] = "earliest" /\ conn = Free
    /\ \/ /\ EarliestSeq > 0 /\ cursor[s] < EarliestSeq - 1
          /\ spc' = [spc EXCEPT ![s] = "live"]
          /\ lastSent' = [lastSent EXCEPT ![s] = latest[s]]
          /\ start' = [start EXCEPT ![s] = latest[s]]
       \/ /\ ~(EarliestSeq > 0 /\ cursor[s] < EarliestSeq - 1)
          /\ spc' = [spc EXCEPT ![s] = "backfill"]
          /\ UNCHANGED <<lastSent, start>>
    /\ UNCHANGED <<store, conn, writers, cursor, latest, rows, chan, pos, got, lost>>

\* The query takes the connection and keeps it until the rows are closed.
\* What was trimmed since EarliestSeq is gone without a word.
StartBackfill(s) ==
    /\ spc[s] = "backfill" /\ conn = Free
    /\ conn' = s
    /\ rows' = [rows EXCEPT ![s] = {e \in events : e > cursor[s]}]
    /\ lost' = [lost EXCEPT ![s] =
                  @ \cup {e \in (1..seqno) \ events : e > cursor[s]}]
    /\ spc' = [spc EXCEPT ![s] = "rows"]
    /\ UNCHANGED <<store, writers, cursor, latest, lastSent, chan, consumer>>

\* What the consumer sees of an event: its frame, and a cursor to keep.
Deliver(s, e) ==
    /\ lastSent' = [lastSent EXCEPT ![s] = e]
    /\ pos' = [pos EXCEPT ![s] = e]
    /\ got' = [got EXCEPT ![s] = @ \cup {e}]

\* ORDER BY seq ASC: the smallest row comes first.
SendRow(s) ==
    /\ spc[s] = "rows"
    /\ \E e \in rows[s] :
          /\ \A f \in rows[s] : e <= f
          /\ Deliver(s, e)
          /\ rows' = [rows EXCEPT ![s] = @ \ {e}]
    /\ UNCHANGED <<store, conn, writers, spc, cursor, latest, chan, start, lost>>

\* Mutant: no deferred rows.Close.
NoClose(s) ==
    /\ spc[s] = "rows" /\ rows[s] = {}
    /\ spc' = [spc EXCEPT ![s] = "live"]
    /\ UNCHANGED <<store, conn, writers, cursor, latest, lastSent, rows, chan, consumer, lost>>

EndBackfill(s) ==
    /\ spc[s] = "rows" /\ rows[s] = {}
    /\ conn' = Free
    /\ spc' = [spc EXCEPT ![s] = "live"]
    /\ UNCHANGED <<store, writers, cursor, latest, lastSent, rows, chan, consumer, lost>>

\* Events that can no longer reach s once it is sent m: those behind m in
\* its channel and those whose broadcast is still to come.
Overtaken(s, m) ==
    {e \in Range(Tail(chan[s])) \cup Unbroadcast : e < m}

\* Mutant: msg.Seq <= lastSent + 1.
SkipNext(s) ==
    /\ spc[s] = "live" /\ chan[s] # <<>> /\ Head(chan[s]) <= lastSent[s] + 1
    /\ chan' = [chan EXCEPT ![s] = Tail(@)]
    /\ UNCHANGED <<store, conn, writers, handler, consumer, lost>>

Skip(s) ==
    /\ spc[s] = "live" /\ chan[s] # <<>> /\ Head(chan[s]) <= lastSent[s]
    /\ chan' = [chan EXCEPT ![s] = Tail(@)]
    /\ UNCHANGED <<store, conn, writers, handler, consumer, lost>>

\* Mutant: the live loop compares nothing.
SendAll(s) ==
    /\ spc[s] = "live" /\ chan[s] # <<>>
    /\ Deliver(s, Head(chan[s]))
    /\ lost' = [lost EXCEPT ![s] = @ \cup Overtaken(s, Head(chan[s]))]
    /\ chan' = [chan EXCEPT ![s] = Tail(@)]
    /\ UNCHANGED <<store, conn, writers, spc, cursor, latest, rows, start>>

SendLive(s) ==
    /\ spc[s] = "live" /\ chan[s] # <<>> /\ Head(chan[s]) > lastSent[s]
    /\ Deliver(s, Head(chan[s]))
    /\ lost' = [lost EXCEPT ![s] = @ \cup Overtaken(s, Head(chan[s]))]
    /\ chan' = [chan EXCEPT ![s] = Tail(@)]
    /\ UNCHANGED <<store, conn, writers, spc, cursor, latest, rows, start>>

\* The consumer goes away or a write or a query fails: the handler returns,
\* closes its rows and cancels its subscription.
Leave(s) ==
    /\ Registered(s)
    /\ spc' = [spc EXCEPT ![s] = "off"]
    /\ chan' = [chan EXCEPT ![s] = <<>>]
    /\ rows' = [rows EXCEPT ![s] = {}]
    /\ conn' = IF conn = s THEN Free ELSE conn
    /\ UNCHANGED <<store, writers, cursor, latest, lastSent, consumer, lost>>

\* The process stops at any point; the table survives it.
Crash ==
    /\ conn' = Free
    /\ apc' = [a \in Appenders |-> "idle"]
    /\ aseq' = [a \in Appenders |-> 0]
    /\ spc' = [s \in Subs |-> "off"]
    /\ chan' = [s \in Subs |-> <<>>]
    /\ rows' = [s \in Subs |-> {}]
    /\ UNCHANGED <<store, cursor, latest, lastSent, consumer, lost>>

-----------------------------------------------------------------------------
Append_(a) == AppendCall(a) \/ BeginTx(a) \/ CommitEvent(a) \/ RollbackEvent(a) \/ Broadcast(a)
Handler(s) ==
    \/ ReadLatest(s) \/ ReadEarliest(s) \/ StartBackfill(s) \/ SendRow(s)
    \/ EndBackfill(s) \/ Skip(s) \/ SendLive(s)
Client(s) == Connect(s) \/ Resume(s) \/ Leave(s)

Next ==
    \/ \E a \in Appenders : Append_(a)
    \/ \E s \in Subs : Handler(s) \/ Client(s)
    \/ Crash

Spec == Init /\ [][Next]_vars
=============================================================================
