--------------------------- MODULE FirehoseProofs ---------------------------
(***************************************************************************)
(* Proofs about Firehose for every set of appenders and consumers, every    *)
(* channel capacity and every window.                                       *)
(***************************************************************************)
EXTENDS FirehoseProperties, RangeLemmas, FiniteSetTheorems, TLAPS

USE DEF store, writers, handler, consumer

\* A channel stays one of event numbers when more of them are in use.
LEMMA SeqWidens ==
    ASSUME NEW m \in Nat, NEW n \in Nat, m <= n, NEW q \in Seq(1..m)
    PROVE  q \in Seq(1..n)
<1>1. 1..m \subseteq 1..n
  OBVIOUS
<1> QED
  BY <1>1

\* The newest event is the high-water mark.
LEMMA LatestIsSeqno ==
    ASSUME TypeOK, NewestKept
    PROVE  LatestSeq = seqno
<1> DEFINE E == events \cup {0}
<1>1. seqno \in E /\ \A y \in E : y \in Nat /\ seqno >= y
  BY DEF TypeOK, NewestKept
<1>2. PICK x \in E : x = Max(E) /\ \A y \in E : x >= y
  BY <1>1 DEF Max
<1>3. x = seqno
  BY <1>1, <1>2
<1> QED
  BY <1>2, <1>3 DEF LatestSeq

-----------------------------------------------------------------------------
\* An empty table, no handler and no Append under way are well typed.
LEMMA InitTypeOK == Init => TypeOK
<1> SUFFICES ASSUME Init PROVE TypeOK
  OBVIOUS
<1>1. seqno = 0 /\ events = {} /\ <<>> \in Seq(1..seqno) /\ 0 \in 0..seqno
  BY DEF Init
<1>2. /\ lastSent \in [Subs -> 0..seqno] /\ latest \in [Subs -> 0..seqno]
      /\ aseq \in [Appenders -> 0..seqno] /\ start \in [Subs -> Int]
  BY <1>1 DEF Init
<1>3. chan \in [Subs -> Seq(1..seqno)]
  BY <1>1 DEF Init
<1>4. /\ rows \in [Subs -> SUBSET (1..seqno)] /\ got \in [Subs -> SUBSET (1..seqno)]
      /\ lost \in [Subs -> SUBSET (1..seqno)]
  BY <1>1 DEF Init
<1>5. /\ cursor \in [Subs -> Int \cup {NoCursor}] /\ pos \in [Subs -> Int \cup {NoCursor}]
      /\ spc \in [Subs -> SpcStates] /\ apc \in [Appenders -> {"idle", "begin", "tx", "committed"}]
  BY DEF Init, SpcStates
<1> QED
  BY <1>1, <1>2, <1>3, <1>4, <1>5 DEF Init, TypeOK

\* Type correctness needs two facts more than types: the mark is read off the
\* table, and what is broadcast is a number that was committed.
LEMMA TypeStep == IInv /\ [Next]_vars => TypeOK'
<1> SUFFICES ASSUME TypeOK, NewestKept, CommittedInv, [Next]_vars PROVE TypeOK'
  BY DEF IInv
<1>0. LatestSeq \in 0..seqno
  BY LatestIsSeqno DEF TypeOK
<1>1. ASSUME NEW a \in Appenders, AppendCall(a) PROVE TypeOK'
  BY <1>1 DEF TypeOK, AppendCall
<1>2. ASSUME NEW a \in Appenders, BeginTx(a) PROVE TypeOK'
  BY <1>2 DEF TypeOK, BeginTx
<1>3. ASSUME NEW a \in Appenders, CommitEvent(a) PROVE TypeOK'
  <2>1. seqno \in Nat /\ seqno' = seqno + 1
    BY <1>3 DEF CommitEvent, TypeOK
  <2>2. events' \in SUBSET (1..seqno')
    <3>1. events \cup {seqno'} \subseteq 1..seqno'
      BY <2>1 DEF TypeOK
    <3>2. events' \subseteq events \cup {seqno'}
      BY <1>3 DEF CommitEvent
    <3> QED
      BY <3>1, <3>2
  <2>3. aseq' \in [Appenders -> 0..seqno'] /\ apc' \in [Appenders -> {"idle", "begin", "tx", "committed"}]
    BY <1>3, <2>1 DEF CommitEvent, TypeOK
  <2>4. latest' \in [Subs -> 0..seqno'] /\ lastSent' \in [Subs -> 0..seqno']
    BY <1>3, <2>1 DEF CommitEvent, TypeOK
  <2>5. /\ rows' \in [Subs -> SUBSET (1..seqno')] /\ got' \in [Subs -> SUBSET (1..seqno')]
        /\ lost' \in [Subs -> SUBSET (1..seqno')]
    <3>1. SUBSET (1..seqno) \subseteq SUBSET (1..seqno')
      BY <2>1
    <3> QED
      BY <1>3, <3>1 DEF CommitEvent, TypeOK
  <2>6. chan' \in [Subs -> Seq(1..seqno')]
    <3>1. \A s \in Subs : chan[s] \in Seq(1..seqno')
      BY <2>1, SeqWidens DEF TypeOK
    <3> QED
      BY <1>3, <3>1 DEF CommitEvent, TypeOK
  <2> QED
    BY <1>3, <2>1, <2>2, <2>3, <2>4, <2>5, <2>6 DEF CommitEvent, TypeOK
<1>4. ASSUME NEW a \in Appenders, RollbackEvent(a) PROVE TypeOK'
  BY <1>4 DEF TypeOK, RollbackEvent
<1>5. ASSUME NEW a \in Appenders, Broadcast(a) PROVE TypeOK'
  <2>1. aseq[a] \in 1..seqno
    BY <1>5 DEF Broadcast, CommittedInv, TypeOK
  <2>2. chan' \in [Subs -> Seq(1..seqno)]
    <3>1. \A s \in Subs : Append(chan[s], aseq[a]) \in Seq(1..seqno)
      BY <2>1, AppendProperties DEF TypeOK
    <3> QED
      BY <1>5, <3>1 DEF Broadcast, TypeOK
  <2>3. lost' \in [Subs -> SUBSET (1..seqno)]
    BY <1>5, <2>1 DEF Broadcast, TypeOK
  <2> QED
    BY <1>5, <2>2, <2>3 DEF Broadcast, TypeOK
<1>6. ASSUME NEW s \in Subs, NEW c \in Int \cup {NoCursor}, Subscribe(s, c)
      PROVE  /\ <<events, seqno, conn, apc, aseq>>' = <<events, seqno, conn, apc, aseq>>
             /\ spc' \in [Subs -> SpcStates] /\ cursor' \in [Subs -> Int \cup {NoCursor}]
             /\ latest' \in [Subs -> 0..seqno] /\ lastSent' \in [Subs -> 0..seqno]
             /\ rows' \in [Subs -> SUBSET (1..seqno)] /\ chan' \in [Subs -> Seq(1..seqno)]
  <2>1. <<>> \in Seq(1..seqno) /\ 0 \in 0..seqno
    BY DEF TypeOK
  <2> QED
    BY <1>6, <2>1 DEF Subscribe, TypeOK, SpcStates
<1>7. ASSUME NEW s \in Subs, Connect(s) PROVE TypeOK'
  <2>1. PICK c \in Cursors \cup {NoCursor} :
          /\ Subscribe(s, c)
          /\ pos' = [pos EXCEPT ![s] = c]
          /\ start' = [start EXCEPT ![s] = IF c = NoCursor THEN 0 ELSE c]
    BY <1>7 DEF Connect
  <2>2. c \in Int \cup {NoCursor} /\ (c # NoCursor => c \in Int)
    BY CursorsAssumption
  <2>3. got' \in [Subs -> SUBSET (1..seqno)] /\ lost' \in [Subs -> SUBSET (1..seqno)]
    BY <1>7 DEF Connect, TypeOK
  <2>4. pos' \in [Subs -> Int \cup {NoCursor}] /\ start' \in [Subs -> Int]
    BY <2>1, <2>2 DEF TypeOK
  <2> QED
    BY <1>6, <2>1, <2>2, <2>3, <2>4 DEF TypeOK
<1>8. ASSUME NEW s \in Subs, Resume(s) PROVE TypeOK'
  <2>1. pos[s] \in Int \cup {NoCursor} /\ Subscribe(s, pos[s])
    BY <1>8 DEF Resume, TypeOK
  <2> QED
    BY <1>6, <1>8, <2>1 DEF Resume, TypeOK
<1>9. ASSUME NEW s \in Subs, ReadLatest(s) PROVE TypeOK'
  <2>1. <<>> \in Seq(1..seqno)
    OBVIOUS
  <2>2. chan' \in [Subs -> Seq(1..seqno)]
    BY <1>9, <2>1 DEF ReadLatest, TypeOK
  <2>3. spc' \in [Subs -> SpcStates]
    BY <1>9 DEF ReadLatest, TypeOK, SpcStates
  <2>4. lastSent' \in [Subs -> 0..seqno] /\ latest' \in [Subs -> 0..seqno]
    <3>1. lastSent' = lastSent \/ lastSent' = [lastSent EXCEPT ![s] = LatestSeq]
      BY <1>9 DEF ReadLatest
    <3>2. latest' = latest \/ latest' = [latest EXCEPT ![s] = LatestSeq]
      BY <1>9 DEF ReadLatest
    <3>3. /\ LatestSeq \in 0..seqno
          /\ lastSent \in [Subs -> 0..seqno] /\ latest \in [Subs -> 0..seqno]
      BY <1>0 DEF TypeOK
    <3> QED
      BY <3>1, <3>2, <3>3
  <2>5. start' \in [Subs -> Int]
    <3>1. LatestSeq \in Int
      BY <1>0 DEF TypeOK
    <3> QED
      BY <1>9, <3>1 DEF ReadLatest, TypeOK
  <2>6. UNCHANGED <<events, seqno, conn, apc, aseq, cursor, rows, pos, got, lost>>
    BY <1>9 DEF ReadLatest, store, writers
  <2> QED
    BY <2>2, <2>3, <2>4, <2>5, <2>6 DEF TypeOK
<1>10. ASSUME NEW s \in Subs, ReadEarliest(s) PROVE TypeOK'
  <2>1. spc' \in [Subs -> SpcStates]
    BY <1>10 DEF ReadEarliest, TypeOK, SpcStates
  <2>2. lastSent' \in [Subs -> 0..seqno] /\ start' \in [Subs -> Int]
    <3>1. latest[s] \in 0..seqno /\ latest[s] \in Int
      BY DEF TypeOK
    <3> QED
      BY <1>10, <3>1 DEF ReadEarliest, TypeOK
  <2> QED
    BY <1>10, <2>1, <2>2 DEF ReadEarliest, TypeOK
<1>11. ASSUME NEW s \in Subs, StartBackfill(s) PROVE TypeOK'
  <2>1. rows' \in [Subs -> SUBSET (1..seqno)] /\ lost' \in [Subs -> SUBSET (1..seqno)]
    BY <1>11 DEF StartBackfill, TypeOK
  <2> QED
    BY <1>11, <2>1 DEF StartBackfill, TypeOK, SpcStates
<1>12. ASSUME NEW s \in Subs, SendRow(s) PROVE TypeOK'
  <2>1. PICK e \in rows[s] : Deliver(s, e) /\ rows' = [rows EXCEPT ![s] = @ \ {e}]
    BY <1>12 DEF SendRow
  <2>2. e \in 1..seqno
    BY <2>1 DEF TypeOK
  <2> QED
    BY <1>12, <2>1, <2>2 DEF SendRow, Deliver, TypeOK
<1>13. ASSUME NEW s \in Subs, EndBackfill(s) PROVE TypeOK'
  BY <1>13 DEF EndBackfill, TypeOK, SpcStates
<1>14. ASSUME NEW s \in Subs, chan[s] # <<>>
       PROVE  /\ Head(chan[s]) \in 1..seqno /\ Tail(chan[s]) \in Seq(1..seqno)
              /\ Range(Tail(chan[s])) \subseteq 1..seqno
  BY <1>14, RangeTail, RangeOfSeq DEF TypeOK
<1>15. ASSUME NEW s \in Subs, Skip(s) PROVE TypeOK'
  BY <1>14, <1>15 DEF Skip, TypeOK
<1>16. ASSUME NEW s \in Subs, SendLive(s) PROVE TypeOK'
  <2>1. Unbroadcast \subseteq 1..seqno
    BY DEF Unbroadcast, CommittedInv, TypeOK
  <2>2. Overtaken(s, Head(chan[s])) \subseteq 1..seqno
    BY <1>14, <1>16, <2>1 DEF Overtaken, SendLive
  <2>3. Head(chan[s]) \in 1..seqno /\ Tail(chan[s]) \in Seq(1..seqno)
    BY <1>14, <1>16 DEF SendLive
  <2>4. chan' \in [Subs -> Seq(1..seqno)] /\ lost' \in [Subs -> SUBSET (1..seqno)]
    BY <1>16, <2>2, <2>3 DEF SendLive, TypeOK
  <2>5. /\ lastSent' \in [Subs -> 0..seqno] /\ pos' \in [Subs -> Int \cup {NoCursor}]
        /\ got' \in [Subs -> SUBSET (1..seqno)]
    BY <1>16, <2>3 DEF SendLive, Deliver, TypeOK
  <2> QED
    BY <1>16, <2>4, <2>5 DEF SendLive, TypeOK
<1>17. ASSUME NEW s \in Subs, Leave(s) PROVE TypeOK'
  <2>1. <<>> \in Seq(1..seqno)
    OBVIOUS
  <2> QED
    BY <1>17, <2>1 DEF Leave, TypeOK, SpcStates
<1>18. CASE Crash
  <2>1. <<>> \in Seq(1..seqno)
    OBVIOUS
  <2> QED
    BY <1>18, <2>1 DEF Crash, TypeOK, SpcStates
<1>19. CASE UNCHANGED vars
  BY <1>19 DEF vars, TypeOK
<1> QED
  BY <1>1, <1>2, <1>3, <1>4, <1>5, <1>7, <1>8, <1>9, <1>10, <1>11, <1>12, <1>13,
     <1>15, <1>16, <1>17, <1>18, <1>19 DEF Next, Append_, Handler, Client

-----------------------------------------------------------------------------
\* The table and the connection: the newest event is never trimmed, only its
\* holder frees the connection, and a number is broadcast after its commit.
LEMMA StoreStep == IInv /\ [Next]_vars => NewestKept' /\ ConnInv' /\ CommittedInv'
<1> SUFFICES ASSUME TypeOK, NewestKept, ConnInv, CommittedInv, [Next]_vars
             PROVE  NewestKept' /\ ConnInv' /\ CommittedInv'
  BY DEF IInv
<1> DEFINE Goal == NewestKept' /\ ConnInv' /\ CommittedInv'
<1> USE FreeAssumption, ActorsAssumption
<1>1. ASSUME NEW a \in Appenders, AppendCall(a) PROVE Goal
  BY <1>1 DEF AppendCall, NewestKept, ConnInv, CommittedInv, TypeOK
<1>2. ASSUME NEW a \in Appenders, BeginTx(a) PROVE Goal
  BY <1>2 DEF BeginTx, NewestKept, ConnInv, CommittedInv, TypeOK
<1>3. ASSUME NEW a \in Appenders, CommitEvent(a) PROVE Goal
  <2>1. NewestKept'
    <3>1. seqno' = seqno + 1 /\ seqno \in Nat
      BY <1>3 DEF CommitEvent, TypeOK
    <3>2. PICK old \in SUBSET (1..(seqno' - Window)) : events' = (events \cup {seqno'}) \ old
      BY <1>3 DEF CommitEvent
    <3>3. seqno' \notin old
      BY <3>1, <3>2, WindowAssumption
    <3> QED
      BY <3>2, <3>3 DEF NewestKept
  <2>2. ConnInv'
    BY <1>3 DEF CommitEvent, ConnInv, TypeOK
  <2>3. CommittedInv'
    BY <1>3 DEF CommitEvent, CommittedInv, TypeOK
  <2> QED
    BY <2>1, <2>2, <2>3
<1>4. ASSUME NEW a \in Appenders, RollbackEvent(a) PROVE Goal
  BY <1>4 DEF RollbackEvent, NewestKept, ConnInv, CommittedInv, TypeOK
<1>5. ASSUME NEW a \in Appenders, Broadcast(a) PROVE Goal
  BY <1>5 DEF Broadcast, NewestKept, ConnInv, CommittedInv, TypeOK
<1>6. ASSUME NEW s \in Subs, Connect(s) \/ Resume(s) PROVE Goal
  <2>1. /\ ~Registered(s) /\ spc' = [spc EXCEPT ![s] = "latest"]
        /\ <<events, seqno, conn, apc, aseq>>' = <<events, seqno, conn, apc, aseq>>
    BY <1>6 DEF Connect, Resume, Subscribe
  <2> QED
    BY <2>1 DEF Registered, NewestKept, ConnInv, CommittedInv, TypeOK
<1>7. ASSUME NEW s \in Subs, ReadLatest(s) \/ ReadEarliest(s) PROVE Goal
  <2>1. /\ spc[s] \in {"latest", "earliest"} /\ conn = Free
        /\ \E t \in {"live", "refused", "earliest", "backfill"} : spc' = [spc EXCEPT ![s] = t]
        /\ <<events, seqno, conn, apc, aseq>>' = <<events, seqno, conn, apc, aseq>>
    BY <1>7 DEF ReadLatest, ReadEarliest
  <2> QED
    BY <2>1 DEF NewestKept, ConnInv, CommittedInv, TypeOK
<1>8. ASSUME NEW s \in Subs, StartBackfill(s) PROVE Goal
  BY <1>8 DEF StartBackfill, NewestKept, ConnInv, CommittedInv, TypeOK
<1>9. ASSUME NEW s \in Subs, SendRow(s) \/ Skip(s) \/ SendLive(s) PROVE Goal
  BY <1>9 DEF SendRow, Skip, SendLive, NewestKept, ConnInv, CommittedInv
<1>10. ASSUME NEW s \in Subs, EndBackfill(s) PROVE Goal
  BY <1>10 DEF EndBackfill, NewestKept, ConnInv, CommittedInv, TypeOK
<1>11. ASSUME NEW s \in Subs, Leave(s) PROVE Goal
  BY <1>11 DEF Leave, NewestKept, ConnInv, CommittedInv, TypeOK
<1>12. CASE Crash
  BY <1>12 DEF Crash, NewestKept, ConnInv, CommittedInv, TypeOK
<1>13. CASE UNCHANGED vars
  BY <1>13 DEF vars, NewestKept, ConnInv, CommittedInv
<1> QED
  BY <1>1, <1>2, <1>3, <1>4, <1>5, <1>6, <1>7, <1>8, <1>9, <1>10, <1>11, <1>12,
     <1>13 DEF Next, Append_, Handler, Client

\* What a handler knows of its consumer, and that the mark never falls below
\* a number the consumer was sent.
LEMMA CursorStep == IInv /\ [Next]_vars => CursorInv' /\ ResumeNeverRefused'
<1> SUFFICES ASSUME TypeOK, NewestKept, CommittedInv, CursorInv, ResumeNeverRefused,
                    \A u \in Subs : LatestInv(u), [Next]_vars
             PROVE  CursorInv' /\ ResumeNeverRefused'
  BY DEF IInv, DeliveryInv
<1> DEFINE Goal == CursorInv' /\ ResumeNeverRefused'
<1>0. LatestSeq = seqno
  BY LatestIsSeqno
<1>1. ASSUME NEW a \in Appenders,
             AppendCall(a) \/ BeginTx(a) \/ RollbackEvent(a) \/ Broadcast(a)
      PROVE  Goal
  BY <1>1 DEF AppendCall, BeginTx, RollbackEvent, Broadcast, CursorInv, ResumeNeverRefused
<1>2. ASSUME NEW a \in Appenders, CommitEvent(a) PROVE Goal
  <2>1. /\ seqno \in Nat /\ seqno' = seqno + 1
        /\ <<spc, pos, cursor, lastSent, got, start>>' = <<spc, pos, cursor, lastSent, got, start>>
    BY <1>2 DEF CommitEvent, TypeOK
  <2>2. \A s \in Subs : pos[s] # NoCursor /\ pos[s] <= seqno => pos[s] <= seqno'
    BY <2>1 DEF TypeOK
  <2> QED
    BY <2>1, <2>2 DEF CursorInv, ResumeNeverRefused
<1>3. ASSUME NEW s \in Subs, Connect(s) PROVE Goal
  <2>1. PICK c \in Cursors \cup {NoCursor} :
          /\ Subscribe(s, c)
          /\ pos' = [pos EXCEPT ![s] = c]
          /\ start' = [start EXCEPT ![s] = IF c = NoCursor THEN 0 ELSE c]
    BY <1>3 DEF Connect
  <2>2. c # NoCursor => c \in Int
    BY CursorsAssumption
  <2>3. got' = [got EXCEPT ![s] = {}]
    BY <1>3 DEF Connect
  <2> QED
    BY <2>1, <2>2, <2>3 DEF Subscribe, CursorInv, ResumeNeverRefused, TypeOK
<1>4. ASSUME NEW s \in Subs, Resume(s) PROVE Goal
  BY <1>4 DEF Resume, Subscribe, CursorInv, ResumeNeverRefused, TypeOK
<1>5. ASSUME NEW s \in Subs, ReadLatest(s) PROVE Goal
  <2>1. \E t \in {"live", "refused", "earliest"} :
           /\ spc' = [spc EXCEPT ![s] = t]
           /\ t = "refused" => cursor[s] # NoCursor /\ cursor[s] > seqno
           /\ t = "earliest" => cursor[s] # NoCursor /\ lastSent' = lastSent
    BY <1>0, <1>5 DEF ReadLatest
  <2>2. /\ \A t \in Subs : t # s => lastSent'[t] = lastSent[t] /\ start'[t] = start[t]
        /\ start'[s] = start[s] \/ cursor[s] = NoCursor
        /\ cursor' = cursor /\ pos' = pos /\ got' = got /\ seqno' = seqno
        /\ spc[s] = "latest"
    BY <1>5 DEF ReadLatest, TypeOK
  <2>3. got[s] # {} => cursor[s] = NoCursor \/ ~(cursor[s] > seqno)
    <3>1. /\ pos[s] = cursor[s] /\ seqno \in Nat
          /\ got[s] # {} => pos[s] # NoCursor /\ pos[s] <= seqno
      BY <2>2 DEF CursorInv, TypeOK
    <3>2. pos[s] # NoCursor => pos[s] \in Int
      BY DEF TypeOK
    <3> QED
      BY <3>1, <3>2
  <2> QED
    BY <2>1, <2>2, <2>3 DEF CursorInv, ResumeNeverRefused, TypeOK
<1>6. ASSUME NEW s \in Subs, ReadEarliest(s) PROVE Goal
  <2>1. cursor[s] <= latest[s]
    BY <1>6 DEF ReadEarliest, LatestInv
  <2> QED
    BY <1>6, <2>1 DEF ReadEarliest, CursorInv, ResumeNeverRefused, TypeOK
<1>7. ASSUME NEW s \in Subs, StartBackfill(s) \/ EndBackfill(s) \/ Leave(s) \/ Skip(s)
      PROVE  Goal
  <2>1. UNCHANGED <<cursor, lastSent, pos, got, start, seqno>>
    BY <1>7 DEF StartBackfill, EndBackfill, Leave, Skip, store, handler, consumer
  <2>2. spc' = spc \/ \E t \in {"rows", "live", "off"} : spc' = [spc EXCEPT ![s] = t]
    BY <1>7 DEF StartBackfill, EndBackfill, Leave, Skip, handler
  <2>3. ASSUME NEW u \in Subs
        PROVE  spc'[u] = spc[u] \/ spc'[u] \in {"rows", "live", "off"}
    BY <2>2 DEF TypeOK
  <2> QED
    BY <2>1, <2>3 DEF CursorInv, ResumeNeverRefused
<1>8. ASSUME NEW s \in Subs, NEW e \in 1..seqno, Deliver(s, e), spc[s] \in {"rows", "live"},
             spc' = spc, cursor' = cursor, seqno' = seqno, start' = start
      PROVE  Goal
  <2>1. e # NoCursor /\ e <= seqno
    BY CursorsAssumption DEF TypeOK
  <2>2. /\ pos'[s] = e /\ got'[s] # {}
        /\ \A u \in Subs : u # s =>
             pos'[u] = pos[u] /\ got'[u] = got[u] /\ lastSent'[u] = lastSent[u]
    BY <1>8 DEF Deliver, TypeOK
  <2>3. spc[s] # "refused" /\ spc[s] # "earliest"
    BY <1>8
  <2>4. ASSUME NEW u \in Subs, u # s
        PROVE  pos'[u] = pos[u] /\ got'[u] = got[u] /\ lastSent'[u] = lastSent[u]
    BY <2>2, <2>4
  <2> QED
    BY <1>8, <2>1, <2>2, <2>3, <2>4 DEF CursorInv, ResumeNeverRefused
<1>9. ASSUME NEW s \in Subs, SendRow(s) PROVE Goal
  BY <1>8, <1>9 DEF SendRow, TypeOK
<1>10. ASSUME NEW s \in Subs, SendLive(s) PROVE Goal
  <2>1. Head(chan[s]) \in 1..seqno
    BY <1>10, RangeTail DEF SendLive, TypeOK
  <2> QED
    BY <1>8, <1>10, <2>1 DEF SendLive
<1>11. CASE Crash
  BY <1>11 DEF Crash, CursorInv, ResumeNeverRefused, TypeOK
<1>12. CASE UNCHANGED vars
  BY <1>12 DEF vars, CursorInv, ResumeNeverRefused
<1> QED
  BY <1>1, <1>2, <1>3, <1>4, <1>5, <1>6, <1>7, <1>9, <1>10, <1>11, <1>12
     DEF Next, Append_, Handler, Client

-----------------------------------------------------------------------------
\* Every event of a consumer is delivered, on its way, or lost for one of the
\* known reasons, in every state of its handler.
LEMMA DeliveryStep ==
    IInv /\ [Next]_vars => \A t \in Subs : DeliveryInv(t)'
<1> SUFFICES ASSUME TypeOK, NewestKept, ConnInv, CommittedInv, CursorInv,
                    \A u \in Subs : DeliveryInv(u), [Next]_vars, NEW t \in Subs
             PROVE  DeliveryInv(t)'
  BY DEF IInv
<1> USE DEF DeliveryInv
<1>0. DeliveryInv(t)
  OBVIOUS
<1>a. LatestSeq = seqno /\ seqno \in Nat
  BY LatestIsSeqno DEF TypeOK
\* A step that leaves t, the mark and the pending broadcasts alone.
<1>b. ASSUME seqno' = seqno, Unbroadcast' = Unbroadcast, spc'[t] = spc[t],
             cursor'[t] = cursor[t], latest'[t] = latest[t], lastSent'[t] = lastSent[t],
             rows'[t] = rows[t], chan'[t] = chan[t], start'[t] = start[t],
             pos'[t] = pos[t], got'[t] = got[t], lost'[t] = lost[t]
      PROVE  DeliveryInv(t)'
  BY <1>0, <1>b DEF LatestInv, BackfillInv, TailInv, SkipInv, Explained, Accounted,
     Coming, Positioned
\* In the other states of the handler only Explained says anything.
<1>c. ASSUME spc'[t] \notin {"earliest", "rows", "live"}, Explained(t)'
      PROVE  DeliveryInv(t)'
  BY <1>c DEF LatestInv, BackfillInv, TailInv, SkipInv, Positioned
<1>1. ASSUME NEW a \in Appenders, AppendCall(a) \/ BeginTx(a) \/ RollbackEvent(a)
      PROVE  DeliveryInv(t)'
  <2>1. Unbroadcast' = Unbroadcast
    BY <1>1 DEF AppendCall, BeginTx, RollbackEvent, Unbroadcast, TypeOK
  <2> QED
    BY <1>1, <1>b, <2>1 DEF AppendCall, BeginTx, RollbackEvent
<1>2. ASSUME NEW a \in Appenders, CommitEvent(a) PROVE DeliveryInv(t)'
  <2>1. /\ seqno' = seqno + 1
        /\ <<spc, cursor, latest, lastSent, rows, chan, start, pos, got, lost>>' =
           <<spc, cursor, latest, lastSent, rows, chan, start, pos, got, lost>>
    BY <1>2 DEF CommitEvent
  <2>2. Unbroadcast \cup {seqno'} \subseteq Unbroadcast'
    BY <1>2 DEF CommitEvent, Unbroadcast, TypeOK
  <2>3. spc[t] # "rows"
    BY <1>2, FreeAssumption, ActorsAssumption DEF CommitEvent, ConnInv
  <2>4. \A e \in 1..seqno' : e \in 1..seqno \/ e \in Unbroadcast'
    BY <1>a, <2>1, <2>2
  <2>5. Coming(t) \subseteq Coming(t)' /\ Accounted(t)' = Accounted(t)
    BY <2>1, <2>2 DEF Coming, Accounted
  <2>6. LatestInv(t)'
    BY <1>0, <2>1, <2>4, <2>5 DEF LatestInv, Coming
  <2>7. TailInv(t)'
    BY <1>0, <2>1, <2>4, <2>5 DEF TailInv, Coming
  <2>8. BackfillInv(t)' /\ SkipInv(t)'
    BY <1>0, <2>1, <2>3, <2>5 DEF BackfillInv, SkipInv, Positioned
  <2>9. Explained(t)'
    <3>1. pos[t] # NoCursor => pos[t] \in Int /\ (pos[t] <= seqno \/ pos[t] <= start[t])
      BY DEF CursorInv, TypeOK
    <3>2. start[t] \in Int
      BY DEF TypeOK
    <3> QED
      BY <1>0, <1>a, <2>1, <2>5, <3>1, <3>2 DEF Explained
  <2> QED
    BY <2>6, <2>7, <2>8, <2>9
<1>3. ASSUME NEW a \in Appenders, Broadcast(a) PROVE DeliveryInv(t)'
  <2>1. /\ <<seqno, spc, cursor, latest, lastSent, rows, start, pos, got>>' =
           <<seqno, spc, cursor, latest, lastSent, rows, start, pos, got>>
        /\ lost[t] \subseteq lost'[t]
    BY <1>3 DEF Broadcast, TypeOK
  <2>2. Unbroadcast \subseteq Unbroadcast' \cup {aseq[a]}
    BY <1>3 DEF Broadcast, Unbroadcast, TypeOK
  <2>3. aseq[a] \in 1..seqno /\ chan[t] \in Seq(1..seqno)
    BY <1>3 DEF Broadcast, CommittedInv, TypeOK
  <2>a. Range(Append(chan[t], aseq[a])) = Range(chan[t]) \cup {aseq[a]}
    <3> DEFINE S == 1..seqno
    <3>1. chan[t] \in Seq(S) /\ aseq[a] \in S
      BY <2>3
    <3> HIDE DEF S
    <3> QED
      BY <3>1, RangeAppend
  <2>4. Registered(t) => aseq[a] \in Range(chan'[t]) \cup lost'[t]
    <3>1. CASE Registered(t) /\ Len(chan[t]) < ChanCap
      <4>1. chan'[t] = Append(chan[t], aseq[a])
        BY <1>3, <3>1 DEF Broadcast
      <4> QED
        BY <2>a, <4>1
    <3>2. CASE Registered(t) /\ Len(chan[t]) >= ChanCap
      BY <1>3, <3>2 DEF Broadcast, TypeOK
    <3>3. Len(chan[t]) \in Nat /\ ChanCap \in Nat
      BY <2>3, LenProperties, ChanCapAssumption
    <3> QED
      BY <3>1, <3>2, <3>3
  <2>5. Range(chan[t]) \subseteq Range(chan'[t])
    <3>1. chan'[t] = chan[t] \/ chan'[t] = Append(chan[t], aseq[a])
      BY <1>3 DEF Broadcast
    <3> QED
      BY <2>a, <3>1
  <2>6. Registered(t) => Coming(t) \subseteq Coming(t)' \cup lost'[t]
    BY <2>2, <2>4, <2>5 DEF Coming
  <2>7. spc[t] \in {"earliest", "rows", "live"} => Registered(t)
    BY DEF Registered
  <2>8. Accounted(t) \subseteq Accounted(t)'
    BY <2>1 DEF Accounted
  <2>9. LatestInv(t)' /\ BackfillInv(t)'
    BY <1>0, <2>1, <2>6, <2>7, <2>8 DEF LatestInv, BackfillInv
  <2>10. TailInv(t)'
    <3>1. lost'[t] \subseteq Accounted(t)'
      BY DEF Accounted
    <3> QED
      BY <1>0, <2>1, <2>6, <2>7, <2>8, <3>1 DEF TailInv
  <2>11. SkipInv(t)' /\ Explained(t)'
    BY <1>0, <2>1, <2>8 DEF SkipInv, Explained, Positioned
  <2> QED
    BY <2>9, <2>10, <2>11
\* The steps of a handler leave the others, the mark and the appenders alone.
<1>4. ASSUME NEW s \in Subs, Handler(s) \/ Client(s)
      PROVE  /\ seqno' = seqno /\ Unbroadcast' = Unbroadcast
             /\ t # s => DeliveryInv(t)'
  <2>1. /\ seqno' = seqno /\ apc' = apc /\ aseq' = aseq
        /\ t # s => /\ spc'[t] = spc[t] /\ cursor'[t] = cursor[t] /\ latest'[t] = latest[t]
                    /\ lastSent'[t] = lastSent[t] /\ rows'[t] = rows[t]
                    /\ chan'[t] = chan[t] /\ start'[t] = start[t] /\ pos'[t] = pos[t]
                    /\ got'[t] = got[t] /\ lost'[t] = lost[t]
    BY <1>4 DEF Handler, Client, Connect, Resume, Subscribe, ReadLatest, ReadEarliest,
       StartBackfill, SendRow, EndBackfill, Skip, SendLive, Leave, Deliver, TypeOK
  <2>2. Unbroadcast' = Unbroadcast
    BY <2>1 DEF Unbroadcast
  <2> QED
    BY <1>b, <2>1, <2>2
<1>5. ASSUME Connect(t) PROVE DeliveryInv(t)'
  <2>1. spc'[t] = "latest"
    BY <1>5 DEF Connect, Subscribe, TypeOK
  <2>2. \E c \in Cursors \cup {NoCursor} :
           pos'[t] = c /\ start'[t] = IF c = NoCursor THEN 0 ELSE c
    BY <1>5 DEF Connect, TypeOK
  <2>3. Explained(t)'
    BY <2>2, CursorsAssumption DEF Explained
  <2> QED
    BY <1>c, <2>1, <2>3
<1>6. ASSUME Resume(t) \/ Leave(t) PROVE DeliveryInv(t)'
  <2>1. spc'[t] \in {"latest", "off"}
    BY <1>6 DEF Resume, Subscribe, Leave, TypeOK
  <2>2. Explained(t)'
    BY <1>0, <1>6 DEF Resume, Subscribe, Leave, Explained, Accounted
  <2> QED
    BY <1>c, <2>1, <2>2
<1>7. ASSUME ReadLatest(t) PROVE DeliveryInv(t)'
  <2>1. /\ spc[t] = "latest" /\ pos[t] = cursor[t]
        /\ <<seqno, cursor, pos, got, lost>>' = <<seqno, cursor, pos, got, lost>>
    BY <1>7 DEF ReadLatest, CursorInv
  <2>2. CASE cursor[t] = NoCursor
    <3>1. spc'[t] = "live" /\ lastSent'[t] = seqno /\ start'[t] = seqno
      BY <1>a, <1>7, <2>2 DEF ReadLatest, TypeOK
    <3> QED
      BY <1>a, <2>1, <2>2, <3>1 DEF LatestInv, BackfillInv, TailInv, SkipInv, Explained
  <2>3. CASE cursor[t] # NoCursor /\ cursor[t] > seqno
    <3>1. spc'[t] = "refused" /\ start' = start
      BY <1>a, <1>7, <2>3 DEF ReadLatest, TypeOK
    <3>2. Explained(t)'
      BY <1>0, <2>1, <3>1 DEF Explained, Accounted
    <3> QED
      BY <1>c, <3>1, <3>2
  <2>4. CASE cursor[t] # NoCursor /\ cursor[t] <= seqno
    <3>1. spc'[t] = "earliest" /\ start' = start /\ latest'[t] = seqno
      BY <1>a, <1>7, <2>4 DEF ReadLatest, TypeOK
    <3>2. Explained(t)'
      BY <1>0, <2>1, <3>1 DEF Explained, Accounted
    <3> QED
      BY <1>a, <2>1, <2>4, <3>1, <3>2 DEF LatestInv, BackfillInv, TailInv, SkipInv, Positioned
  <2>5. cursor[t] # NoCursor => cursor[t] \in Int
    BY DEF TypeOK
  <2> QED
    BY <1>a, <2>2, <2>3, <2>4, <2>5
<1>8. ASSUME ReadEarliest(t) PROVE DeliveryInv(t)'
  <2>1. /\ LatestInv(t) /\ spc[t] = "earliest" /\ pos[t] = cursor[t]
        /\ <<seqno, cursor, latest, chan, pos, got, lost>>' =
           <<seqno, cursor, latest, chan, pos, got, lost>>
    BY <1>0, <1>8 DEF ReadEarliest, CursorInv
  <2>2. CASE spc'[t] = "live"
    <3>1. lastSent'[t] = latest[t] /\ start'[t] = latest[t]
      BY <1>8, <2>2 DEF ReadEarliest, TypeOK
    <3>2. latest[t] \in Nat
      BY DEF TypeOK
    <3>3. TailInv(t)'
      BY <1>4, <1>8, <2>1, <3>1 DEF TailInv, LatestInv, Coming, Accounted, Handler
    <3>4. cursor[t] # NoCursor => cursor[t] \in Int
      BY DEF TypeOK
    <3>5. Explained(t)'
      BY <2>1, <3>1, <3>2, <3>4 DEF LatestInv, Explained
    <3>6. SkipInv(t)'
      BY <3>1, <3>2 DEF SkipInv
    <3> QED
      BY <2>2, <3>3, <3>5, <3>6 DEF LatestInv, BackfillInv
  <2>3. CASE spc'[t] = "backfill"
    <3>1. start' = start
      BY <1>8, <2>3 DEF ReadEarliest, TypeOK
    <3>2. Explained(t)'
      BY <1>0, <2>1, <3>1 DEF Explained, Accounted
    <3> QED
      BY <1>c, <2>3, <3>2
  <2> QED
    BY <1>8, <2>2, <2>3 DEF ReadEarliest, TypeOK
<1>9. ASSUME StartBackfill(t) PROVE DeliveryInv(t)'
  <2>1. /\ spc'[t] = "rows" /\ pos[t] = cursor[t] /\ cursor[t] \in Int /\ lastSent[t] = 0
        /\ <<seqno, lastSent, start, pos, got>>' = <<seqno, lastSent, start, pos, got>>
        /\ rows'[t] = {e \in events : e > cursor[t]}
        /\ lost'[t] = lost[t] \cup {e \in (1..seqno) \ events : e > cursor[t]}
    BY <1>9 DEF StartBackfill, CursorInv, TypeOK
  <2>2. \A e \in 1..seqno : e > cursor[t] => e \in lost'[t] \cup rows'[t]
    BY <2>1
  <2>3. \A e \in 1..seqno : e > start[t] /\ ~(e > cursor[t]) => e \in Accounted(t)
    <3>1. pos[t] # NoCursor
      BY <2>1, CursorsAssumption
    <3> QED
      BY <1>0, <2>1, <3>1 DEF Explained
  <2>4. Accounted(t) \cup lost'[t] \subseteq Accounted(t)'
    BY <2>1 DEF Accounted
  <2>5. BackfillInv(t)'
    <3>1. \A e \in rows'[t] : e > lastSent'[t]
      <4>1. events \subseteq 1..seqno
        BY DEF TypeOK
      <4>2. lastSent'[t] = 0 /\ rows'[t] \subseteq events
        BY <2>1
      <4>3. \A e \in rows'[t] : e \in 1..seqno
        BY <4>1, <4>2
      <4> QED
        BY <1>a, <4>2, <4>3
    <3> QED
      BY <2>1, <2>2, <2>3, <2>4, <3>1 DEF BackfillInv
  <2>6. Explained(t)'
    BY <1>0, <2>1, <2>4 DEF Explained
  <2>7. SkipInv(t)'
    BY <2>1 DEF SkipInv
  <2> QED
    BY <2>1, <2>5, <2>6, <2>7 DEF LatestInv, TailInv
<1>10. ASSUME SendRow(t) PROVE DeliveryInv(t)'
  <2>1. PICK e \in rows[t] : /\ \A f \in rows[t] : e <= f
                             /\ Deliver(t, e) /\ rows' = [rows EXCEPT ![t] = @ \ {e}]
    BY <1>10 DEF SendRow
  <2>2. /\ spc[t] = "rows" /\ <<seqno, spc, start, lost>>' = <<seqno, spc, start, lost>>
        /\ rows'[t] = rows[t] \ {e} /\ lastSent'[t] = e /\ pos'[t] = e
        /\ got'[t] = got[t] \cup {e} /\ rows[t] \subseteq 1..seqno
    BY <1>10, <2>1 DEF SendRow, Deliver, TypeOK
  <2>3. Accounted(t)' = Accounted(t) \cup {e}
    BY <2>2 DEF Accounted
  <2>4. \A f \in 1..seqno : f > start[t] => f \in Accounted(t)' \cup rows'[t]
    BY <1>0, <2>2, <2>3 DEF BackfillInv
  <2>5. \A f \in rows'[t] : f > e
    BY <2>1, <2>2
  <2>6. \A f \in 1..seqno : f > start[t] /\ f <= e => f \in Accounted(t)'
    BY <2>2, <2>4, <2>5
  <2>7. BackfillInv(t)'
    BY <2>2, <2>4, <2>5 DEF BackfillInv
  <2>8. Explained(t)'
    BY <2>2, <2>6 DEF Explained
  <2>9. SkipInv(t)'
    BY <1>a, <2>2, <2>6 DEF SkipInv
  <2> QED
    BY <2>2, <2>7, <2>8, <2>9 DEF LatestInv, TailInv
<1>11. ASSUME EndBackfill(t) PROVE DeliveryInv(t)'
  <2>1. /\ spc[t] = "rows" /\ spc'[t] = "live" /\ rows[t] = {}
        /\ <<seqno, lastSent, start, pos, got, lost>>' = <<seqno, lastSent, start, pos, got, lost>>
    BY <1>11 DEF EndBackfill, TypeOK
  <2> QED
    BY <1>0, <2>1 DEF LatestInv, BackfillInv, TailInv, SkipInv, Explained, Accounted, Positioned
<1>12. ASSUME spc[t] = "live", chan[t] # <<>>
       PROVE  /\ Head(chan[t]) \in 1..seqno
              /\ Range(chan[t]) = {Head(chan[t])} \cup Range(Tail(chan[t]))
  BY <1>12, RangeTail DEF TypeOK
<1>13. ASSUME Skip(t) PROVE DeliveryInv(t)'
  <2> DEFINE m == Head(chan[t])
  <2>1. /\ spc[t] = "live" /\ m <= lastSent[t] /\ chan'[t] = Tail(chan[t])
        /\ <<seqno, spc, lastSent, start, pos, got, lost>>' =
           <<seqno, spc, lastSent, start, pos, got, lost>>
    BY <1>13 DEF Skip, TypeOK
  <2>2. m \in 1..seqno /\ Range(chan[t]) = {m} \cup Range(Tail(chan[t]))
    BY <1>12, <1>13 DEF Skip
  <2>3. lastSent[t] \in Nat /\ start[t] \in Int
    BY DEF TypeOK
  <2>4. m > start[t] => m \in Accounted(t)
    BY <1>0, <2>1, <2>2, <2>3 DEF SkipInv, Positioned
  <2>5. Accounted(t)' = Accounted(t) /\ Coming(t) \subseteq Coming(t)' \cup {m}
    BY <1>4, <1>13, <2>1, <2>2 DEF Accounted, Coming, Handler
  <2>6. TailInv(t)'
    BY <1>0, <2>1, <2>4, <2>5 DEF TailInv
  <2> QED
    BY <1>0, <2>1, <2>5, <2>6 DEF LatestInv, BackfillInv, SkipInv, Explained, Positioned
<1>14. ASSUME SendLive(t) PROVE DeliveryInv(t)'
  <2> DEFINE m == Head(chan[t])
  <2>1. /\ spc[t] = "live" /\ chan'[t] = Tail(chan[t])
        /\ <<seqno, spc, start>>' = <<seqno, spc, start>>
        /\ lastSent'[t] = m /\ pos'[t] = m /\ got'[t] = got[t] \cup {m}
        /\ lost'[t] = lost[t] \cup Overtaken(t, m)
    BY <1>14 DEF SendLive, Deliver, TypeOK
  <2>2. m \in 1..seqno /\ Range(chan[t]) = {m} \cup Range(Tail(chan[t]))
    BY <1>12, <1>14 DEF SendLive
  <2>3. Accounted(t)' = Accounted(t) \cup {m} \cup Overtaken(t, m)
    BY <2>1 DEF Accounted
  <2>4. Coming(t) = {m} \cup Range(Tail(chan[t])) \cup Unbroadcast
    BY <2>2 DEF Coming
  <2>5. \A e \in 1..seqno : e > start[t] /\ e <= m => e \in Accounted(t)'
    <3>1. \A e \in 1..seqno : e <= m => e = m \/ e < m
      BY <2>2
    <3> QED
      BY <1>0, <2>1, <2>3, <2>4, <3>1 DEF TailInv, Overtaken
  <2>6. Coming(t)' = Range(Tail(chan[t])) \cup Unbroadcast
    BY <1>4, <1>14, <2>1 DEF Coming, Handler
  <2>7. TailInv(t)'
    BY <1>0, <2>1, <2>3, <2>4, <2>6 DEF TailInv
  <2>8. Explained(t)'
    BY <2>1, <2>5 DEF Explained
  <2>9. SkipInv(t)'
    BY <1>a, <2>1, <2>2, <2>5 DEF SkipInv
  <2> QED
    BY <2>1, <2>7, <2>8, <2>9 DEF LatestInv, BackfillInv
<1>15. CASE Crash
  <2>1. spc'[t] = "off" /\ Explained(t)'
    BY <1>0, <1>15 DEF Crash, Explained, Accounted
  <2> QED
    BY <1>c, <2>1
<1>16. CASE UNCHANGED vars
  BY <1>b, <1>16 DEF vars, Unbroadcast
<1>17. ASSUME NEW s \in Subs, Handler(s) \/ Client(s) PROVE DeliveryInv(t)'
  BY <1>4, <1>5, <1>6, <1>7, <1>8, <1>9, <1>10, <1>11, <1>13, <1>14, <1>17
     DEF Handler, Client
<1> QED
  BY <1>1, <1>2, <1>3, <1>15, <1>16, <1>17 DEF Next, Append_

-----------------------------------------------------------------------------
\* The inductive invariant holds in every state of every behaviour: each step
\* of Append, of the subscribeRepos handler and of a consumer preserves it.
THEOREM Invariance == Spec => []IInv
<1>1. Init => IInv
  <2> SUFFICES ASSUME Init PROVE IInv
    OBVIOUS
  <2>1. TypeOK
    BY InitTypeOK
  <2>2. NewestKept /\ ConnInv /\ CommittedInv /\ CursorInv /\ ResumeNeverRefused
    BY FreeAssumption DEF Init, NewestKept, ConnInv, CommittedInv, CursorInv,
       ResumeNeverRefused
  <2>3. \A s \in Subs : DeliveryInv(s)
    BY DEF Init, DeliveryInv, LatestInv, BackfillInv, TailInv, SkipInv, Explained, Positioned
  <2> QED
    BY <2>1, <2>2, <2>3 DEF IInv
<1>2. IInv /\ [Next]_vars => IInv'
  BY TypeStep, StoreStep, CursorStep, DeliveryStep DEF IInv
<1> QED
  BY <1>1, <1>2, PTL DEF Spec

\* The variables keep their types, in whatever order appenders, handlers and
\* crashes interleave.
THEOREM TypeCorrect == Spec => []TypeOK
<1>1. IInv => TypeOK
  BY DEF IInv
<1> QED
  BY <1>1, Invariance, PTL

\* A consumer misses an event for one of three reasons and no other, however
\* many appenders, consumers, reconnections and crashes there are.
THEOREM GapsAreExplained == Spec => []GapsExplained
<1>1. IInv => GapsExplained
  BY DEF IInv, DeliveryInv, GapsExplained
<1> QED
  BY <1>1, Invariance, PTL

\* The log never falls behind a cursor it handed out.
THEOREM ResumeIsNeverRefused == Spec => []ResumeNeverRefused
<1>1. IInv => ResumeNeverRefused
  BY DEF IInv
<1> QED
  BY <1>1, Invariance, PTL

-----------------------------------------------------------------------------
\* An empty sequencer is an empty feed.
LEMMA FeedInit == Init => Feed!Init
<1> SUFFICES ASSUME Init PROVE Feed!Init
  OBVIOUS
<1>1. Positioned = {} /\ seqno = 0
  BY DEF Init, Positioned
<1>2. Floor = [s \in Subs |-> 0]
  BY <1>1 DEF Floor
<1> QED
  BY <1>1, <1>2 DEF Feed!Init

\* Each step of the code is a step of the feed, or none: a commit publishes,
\* a handler that has its position opens the session, a frame is a Send.
LEMMA FeedStep == IInv /\ [Next]_vars => [Feed!Next]_(Feed!feed)
<1> SUFFICES ASSUME TypeOK, NewestKept, CursorInv, \A u \in Subs : DeliveryInv(u),
                    [Next]_vars
             PROVE  [Feed!Next]_(Feed!feed)
  BY DEF IInv
<1> DEFINE Goal == [Feed!Next]_(Feed!feed)
<1>0. LatestSeq = seqno /\ seqno \in Nat
  BY LatestIsSeqno DEF TypeOK
<1>a. ASSUME seqno' = seqno, Positioned' = Positioned,
             \A u \in Positioned : lastSent'[u] = lastSent[u]
      PROVE  Goal
  <2>1. Floor' = Floor
    BY <1>a DEF Floor
  <2> QED
    BY <1>a, <2>1 DEF Feed!feed
<1>b. ASSUME NEW s \in Subs, s \notin Positioned, seqno' = seqno,
             Positioned' = Positioned \cup {s}, lastSent'[s] \in 0..seqno,
             \A u \in Positioned : lastSent'[u] = lastSent[u]
      PROVE  Goal
  <2>1. Floor' = [Floor EXCEPT ![s] = lastSent'[s]]
    BY <1>b DEF Floor
  <2>2. Feed!Open(s)
    BY <1>b, <2>1 DEF Feed!Open
  <2> QED
    BY <2>2 DEF Feed!Next
<1>c. ASSUME NEW s \in Positioned, NEW e \in 1..seqno, e > lastSent[s], Deliver(s, e),
             seqno' = seqno, spc' = spc
      PROVE  Goal
  <2>1. s \in Subs /\ Positioned' = Positioned /\ lastSent[s] \in Nat /\ Floor[s] = lastSent[s]
    BY <1>c DEF Positioned, TypeOK, Floor
  <2>2. Floor' = [Floor EXCEPT ![s] = e]
    BY <1>c, <2>1 DEF Floor, Deliver, TypeOK
  <2>3. e \in (Floor[s] + 1)..seqno
    BY <1>0, <1>c, <2>1
  <2>4. Feed!Send(s)
    BY <1>c, <2>1, <2>2, <2>3 DEF Feed!Send
  <2> QED
    BY <2>1, <2>4 DEF Feed!Next
<1>d. ASSUME NEW C \in SUBSET Subs, seqno' = seqno, Positioned' = Positioned \ C,
             lastSent' = lastSent
      PROVE  Goal
  <2>1. Floor' = [s \in Subs |-> IF s \in C THEN 0 ELSE Floor[s]]
    BY <1>d DEF Floor
  <2>2. Feed!Close(C)
    BY <1>d, <2>1 DEF Feed!Close
  <2> QED
    BY <2>2 DEF Feed!Next
<1>1. ASSUME NEW a \in Appenders,
             AppendCall(a) \/ BeginTx(a) \/ RollbackEvent(a) \/ Broadcast(a)
      PROVE  Goal
  BY <1>1, <1>a DEF AppendCall, BeginTx, RollbackEvent, Broadcast, Positioned
<1>2. ASSUME NEW a \in Appenders, CommitEvent(a) PROVE Goal
  <2>1. Feed!Publish
    BY <1>2 DEF CommitEvent, Feed!Publish, Positioned, Floor
  <2> QED
    BY <2>1 DEF Feed!Next
<1>3. ASSUME NEW s \in Subs, Connect(s) \/ Resume(s) PROVE Goal
  <2>1. /\ ~Registered(s) /\ spc' = [spc EXCEPT ![s] = "latest"] /\ seqno' = seqno
        /\ lastSent' = [lastSent EXCEPT ![s] = 0]
    BY <1>3 DEF Connect, Resume, Subscribe
  <2>2. s \notin Positioned /\ Positioned' = Positioned
    BY <2>1 DEF Registered, Positioned, TypeOK
  <2>3. \A u \in Positioned : lastSent'[u] = lastSent[u]
    BY <2>1, <2>2 DEF Positioned, TypeOK
  <2> QED
    BY <1>a, <2>1, <2>2, <2>3
<1>4. ASSUME NEW s \in Subs, ReadLatest(s) PROVE Goal
  <2>1. /\ spc[s] = "latest" /\ seqno' = seqno /\ s \notin Positioned
        /\ \A u \in Positioned : lastSent'[u] = lastSent[u]
    BY <1>4 DEF ReadLatest, Positioned, TypeOK
  <2>2. CASE spc'[s] = "live"
    <3>1. Positioned' = Positioned \cup {s}
      BY <1>4, <2>2 DEF ReadLatest, Positioned, TypeOK
    <3>2. lastSent'[s] \in 0..seqno
      BY <1>0, <1>4, <2>2 DEF ReadLatest, TypeOK
    <3> QED
      BY <1>b, <2>1, <3>1, <3>2
  <2>3. CASE spc'[s] # "live"
    <3>1. Positioned' = Positioned
      BY <1>4, <2>3 DEF ReadLatest, Positioned, TypeOK
    <3> QED
      BY <1>a, <2>1, <3>1
  <2> QED
    BY <2>2, <2>3
<1>5. ASSUME NEW s \in Subs, ReadEarliest(s) PROVE Goal
  <2>1. /\ spc[s] = "earliest" /\ seqno' = seqno /\ s \notin Positioned
        /\ \A u \in Positioned : lastSent'[u] = lastSent[u]
    BY <1>5 DEF ReadEarliest, Positioned, TypeOK
  <2>2. CASE spc'[s] = "live"
    <3>1. Positioned' = Positioned \cup {s} /\ lastSent'[s] \in 0..seqno
      BY <1>5, <2>2 DEF ReadEarliest, Positioned, TypeOK
    <3> QED
      BY <1>b, <2>1, <3>1
  <2>3. CASE spc'[s] # "live"
    <3>1. Positioned' = Positioned
      BY <1>5, <2>3 DEF ReadEarliest, Positioned, TypeOK
    <3> QED
      BY <1>a, <2>1, <3>1
  <2> QED
    BY <2>2, <2>3
<1>6. ASSUME NEW s \in Subs, StartBackfill(s) PROVE Goal
  <2>1. /\ seqno' = seqno /\ s \notin Positioned /\ Positioned' = Positioned \cup {s}
        /\ lastSent' = lastSent /\ lastSent[s] = 0
    BY <1>6 DEF StartBackfill, Positioned, CursorInv, TypeOK
  <2> QED
    BY <1>0, <1>b, <2>1
<1>7. ASSUME NEW s \in Subs, SendRow(s) PROVE Goal
  <2>1. PICK e \in rows[s] : Deliver(s, e)
    BY <1>7 DEF SendRow
  <2>2. /\ e > lastSent[s] /\ e \in 1..seqno /\ s \in Positioned
        /\ seqno' = seqno /\ spc' = spc
    BY <1>7 DEF SendRow, DeliveryInv, BackfillInv, Positioned, TypeOK
  <2> QED
    BY <1>c, <2>1, <2>2
<1>8. ASSUME NEW s \in Subs, EndBackfill(s) \/ Skip(s) PROVE Goal
  BY <1>8, <1>a DEF EndBackfill, Skip, Positioned, TypeOK
<1>9. ASSUME NEW s \in Subs, SendLive(s) PROVE Goal
  <2>1. Head(chan[s]) \in 1..seqno
    BY <1>9, RangeTail DEF SendLive, TypeOK
  <2>2. /\ Head(chan[s]) > lastSent[s] /\ Deliver(s, Head(chan[s])) /\ s \in Positioned
        /\ seqno' = seqno /\ spc' = spc
    BY <1>9 DEF SendLive, Positioned
  <2> QED
    BY <1>c, <2>1, <2>2
<1>10. ASSUME NEW s \in Subs, Leave(s) PROVE Goal
  <2>1. seqno' = seqno /\ Positioned' = Positioned \ {s} /\ lastSent' = lastSent
    BY <1>10 DEF Leave, Positioned, TypeOK
  <2> QED
    BY <1>d, <2>1
<1>11. CASE Crash
  <2>1. seqno' = seqno /\ Positioned' = Positioned \ Subs /\ lastSent' = lastSent
    BY <1>11 DEF Crash, Positioned
  <2> QED
    BY <1>d, <2>1
<1>12. CASE UNCHANGED vars
  BY <1>12, <1>a DEF vars, Positioned
<1> QED
  BY <1>1, <1>2, <1>3, <1>4, <1>5, <1>6, <1>7, <1>8, <1>9, <1>10, <1>11, <1>12
     DEF Next, Append_, Handler, Client

\* What a websocket carries follows OrderedFeed: committed events only, in the
\* order of their numbers, none twice within a session.
THEOREM FirehoseImplementsFeed == Spec => ImplementsFeed
<1> QED
  BY FeedInit, FeedStep, Invariance, PTL DEF Spec, ImplementsFeed, Feed!Spec

-----------------------------------------------------------------------------
(* With one appender, and channels and a window that hold every event.      *)

Rising(q) ==
    \A i \in 1..Len(q) : q[i] >= i /\ \A j \in 1..Len(q) : i < j => q[i] < q[j]

\* Numbers are broadcast as they are given out, so a channel holds fewer
\* than the number that comes next and a later one overtakes none.
NothingLost ==
    /\ seqno <= MaxSeq /\ events = 1..seqno
    /\ \A a \in Appenders :
          /\ apc[a] \in {"begin", "tx"} => seqno < MaxSeq
          /\ apc[a] = "committed" =>
                aseq[a] = seqno /\ \A s \in Subs : \A e \in Range(chan[s]) : e < seqno
    /\ \A s \in Subs : lost[s] = {} /\ Rising(chan[s])

\* A number above all of a rising channel extends it, and exceeds its length.
LEMMA RisingAppend ==
    ASSUME NEW m \in Nat, NEW q \in Seq(1..m), Rising(q), NEW e \in 1..m,
           \A x \in Range(q) : x < e
    PROVE  Rising(Append(q, e)) /\ Len(q) < e
<1>1. /\ Append(q, e) \in Seq(1..m) /\ Len(Append(q, e)) = Len(q) + 1
      /\ \A i \in 1..Len(q) : Append(q, e)[i] = q[i]
      /\ Append(q, e)[Len(q) + 1] = e
  BY AppendProperties
<1>2. Len(q) \in Nat /\ \A i \in 1..Len(q) : q[i] \in 1..m
  BY LenProperties, ElementOfSeq
<1>3. \A i \in 1..Len(q) : q[i] < e
  BY DEF Range
<1>4. Len(q) < e
  <2>1. CASE Len(q) = 0
    BY <2>1
  <2>2. CASE Len(q) # 0
    <3>1. Len(q) \in 1..Len(q)
      BY <1>2, <2>2
    <3>2. q[Len(q)] >= Len(q) /\ q[Len(q)] < e
      BY <1>3, <3>1 DEF Rising
    <3> QED
      BY <1>2, <3>1, <3>2
  <2> QED
    BY <2>1, <2>2
<1>5. ASSUME NEW i \in 1..(Len(q) + 1)
      PROVE  /\ Append(q, e)[i] >= i
             /\ \A j \in 1..(Len(q) + 1) : i < j => Append(q, e)[i] < Append(q, e)[j]
  <2>1. CASE i = Len(q) + 1
    BY <1>1, <1>2, <1>4, <2>1
  <2>2. CASE i \in 1..Len(q)
    <3>1. Append(q, e)[i] = q[i] /\ q[i] >= i /\ q[i] < e
      BY <1>1, <1>3, <2>2 DEF Rising
    <3>2. ASSUME NEW j \in 1..(Len(q) + 1), i < j PROVE q[i] < Append(q, e)[j]
      <4>1. CASE j = Len(q) + 1
        BY <1>1, <3>1, <4>1
      <4>2. CASE j \in 1..Len(q)
        BY <1>1, <2>2, <3>2, <4>2 DEF Rising
      <4> QED
        BY <1>2, <4>1, <4>2
    <3> QED
      BY <3>1, <3>2
  <2> QED
    BY <1>2, <2>1, <2>2
<1> QED
  BY <1>1, <1>4, <1>5 DEF Rising

\* What is left of a rising channel is rising and above what was taken.
LEMMA RisingTail ==
    ASSUME NEW m \in Nat, NEW q \in Seq(1..m), q # <<>>, Rising(q)
    PROVE  Rising(Tail(q)) /\ \A x \in Range(Tail(q)) : x > Head(q)
<1>1. /\ Head(q) = q[1] /\ Tail(q) \in Seq(1..m) /\ Len(Tail(q)) = Len(q) - 1
      /\ \A i \in 1..Len(Tail(q)) : Tail(q)[i] = q[i + 1]
  BY HeadTailProperties
<1>2. Len(q) \in Nat /\ Len(q) > 0 /\ \A i \in 1..Len(q) : q[i] \in 1..m
  BY LenProperties, EmptySeq, ElementOfSeq
<1>3. ASSUME NEW i \in 1..(Len(q) - 1)
      PROVE  Tail(q)[i] = q[i + 1] /\ i + 1 \in 1..Len(q) /\ 1 \in 1..Len(q) /\ 1 < i + 1
  BY <1>1, <1>2
<1>4. \A i \in 1..(Len(q) - 1) : Tail(q)[i] > q[1]
  BY <1>2, <1>3 DEF Rising
<1>5. ASSUME NEW i \in 1..(Len(q) - 1)
      PROVE  /\ Tail(q)[i] >= i
             /\ \A j \in 1..(Len(q) - 1) : i < j => Tail(q)[i] < Tail(q)[j]
  <2>1. q[i + 1] >= i + 1 /\ q[i + 1] \in Nat /\ i \in Nat
    BY <1>2, <1>3 DEF Rising
  <2>2. ASSUME NEW j \in 1..(Len(q) - 1), i < j PROVE q[i + 1] < q[j + 1]
    <3>1. i + 1 \in 1..Len(q) /\ j + 1 \in 1..Len(q) /\ i + 1 < j + 1
      BY <1>2, <2>2
    <3> QED
      BY <3>1 DEF Rising
  <2> QED
    BY <1>3, <2>1, <2>2
<1>6. Rising(Tail(q))
  BY <1>1, <1>5 DEF Rising
<1>7. \A x \in Range(Tail(q)) : x > Head(q)
  BY <1>1, <1>4 DEF Range
<1> QED
  BY <1>6, <1>7

\* Nothing is dropped, trimmed or overtaken in any step.
LEMMA NothingLostStep ==
    ASSUME \A a, b \in Appenders : a = b, MaxSeq <= ChanCap, MaxSeq <= Window
    PROVE  IInv /\ NothingLost /\ [Next]_vars => NothingLost'
<1> SUFFICES ASSUME IInv, NothingLost, [Next]_vars PROVE NothingLost'
  OBVIOUS
<1>0. TypeOK /\ seqno \in Nat
  BY DEF IInv, TypeOK
<1> USE MaxSeqAssumption, ChanCapAssumption, WindowAssumption
\* A step that leaves the table and the appenders alone, and of one channel
\* at most takes away.
<1>a. ASSUME UNCHANGED <<seqno, events, apc, aseq>>,
             \A s \in Subs : /\ lost'[s] = {} /\ Rising(chan'[s])
                             /\ Range(chan'[s]) \subseteq Range(chan[s])
      PROVE  NothingLost'
  BY <1>a DEF NothingLost
<1>b. Range(<<>>) = {} /\ Rising(<<>>)
  BY DEF Range, Rising
<1>c. ASSUME NEW s \in Subs, UNCHANGED <<seqno, events, apc, aseq>>, lost'[s] = {},
             chan' = [chan EXCEPT ![s] = <<>>],
             \A u \in Subs : u # s => lost'[u] = lost[u]
      PROVE  NothingLost'
  <2>1. ASSUME NEW u \in Subs
        PROVE  /\ lost'[u] = {} /\ Rising(chan'[u])
               /\ Range(chan'[u]) \subseteq Range(chan[u])
    <3>1. chan'[u] = IF u = s THEN <<>> ELSE chan[u]
      BY <1>0, <1>c DEF TypeOK
    <3> QED
      BY <1>b, <1>c, <3>1 DEF NothingLost
  <2> QED
    BY <1>a, <1>c, <2>1
<1>d. ASSUME UNCHANGED <<seqno, events, apc, aseq, chan, lost>> PROVE NothingLost'
  BY <1>d DEF NothingLost
<1>1. ASSUME NEW a \in Appenders, AppendCall(a) PROVE NothingLost'
  <2>1. {b \in Appenders : apc[b] \in {"begin", "tx"}} = {}
    BY <1>1 DEF AppendCall
  <2>2. Cardinality({b \in Appenders : apc[b] \in {"begin", "tx"}}) = 0
    BY <2>1, FS_EmptySet
  <2>3. seqno < MaxSeq
    BY <1>0, <1>1, <2>2 DEF AppendCall
  <2> QED
    BY <1>0, <1>1, <2>3 DEF AppendCall, NothingLost, TypeOK
<1>2. ASSUME NEW a \in Appenders, BeginTx(a) \/ RollbackEvent(a) PROVE NothingLost'
  <2>1. /\ UNCHANGED <<seqno, events, aseq, chan, lost>> /\ apc[a] \in {"begin", "tx"}
        /\ \E t \in {"idle", "tx"} : apc' = [apc EXCEPT ![a] = t]
    BY <1>2 DEF BeginTx, RollbackEvent
  <2> QED
    BY <1>0, <2>1 DEF NothingLost, TypeOK
<1>3. ASSUME NEW a \in Appenders, CommitEvent(a) PROVE NothingLost'
  <2>1. /\ seqno' = seqno + 1 /\ seqno < MaxSeq
        /\ apc' = [apc EXCEPT ![a] = "committed"] /\ aseq' = [aseq EXCEPT ![a] = seqno']
        /\ chan' = chan /\ lost' = lost
    BY <1>3 DEF CommitEvent, NothingLost
  <2>2. PICK old \in SUBSET (1..(seqno' - Window)) : events' = (events \cup {seqno'}) \ old
    BY <1>3 DEF CommitEvent
  <2>3. old = {}
    BY <1>0, <2>1, <2>2
  <2>4. events' = 1..seqno'
    BY <1>0, <2>1, <2>2, <2>3 DEF NothingLost
  <2>5. \A s \in Subs : \A e \in Range(chan[s]) : e < seqno'
    <3>1. \A s \in Subs : Range(chan[s]) \subseteq 1..seqno
      BY <1>0, RangeOfSeq DEF TypeOK
    <3> QED
      BY <1>0, <2>1, <3>1
  <2>6. \A b \in Appenders : b = a /\ apc'[b] = "committed" /\ aseq'[b] = seqno'
    BY <1>0, <2>1 DEF TypeOK
  <2>7. seqno' <= MaxSeq
    BY <1>0, <2>1
  <2> QED
    BY <2>1, <2>4, <2>5, <2>6, <2>7 DEF NothingLost
<1>4. ASSUME NEW a \in Appenders, Broadcast(a) PROVE NothingLost'
  <2>1. /\ aseq[a] = seqno /\ aseq[a] > 0 /\ seqno <= MaxSeq
        /\ \A s \in Subs : \A e \in Range(chan[s]) : e < seqno
    BY <1>4 DEF Broadcast, NothingLost, IInv, CommittedInv
  <2>2. seqno \in 1..seqno
    BY <1>0, <2>1
  <2>3. ASSUME NEW s \in Subs
        PROVE  Rising(Append(chan[s], seqno)) /\ Len(chan[s]) < ChanCap
    <3>1. chan[s] \in Seq(1..seqno) /\ Rising(chan[s])
      BY <1>0 DEF TypeOK, NothingLost
    <3>2. Rising(Append(chan[s], seqno)) /\ Len(chan[s]) < seqno
      BY <1>0, <2>1, <2>2, <3>1, RisingAppend
    <3>3. Len(chan[s]) \in Nat
      BY <3>1, LenProperties
    <3> QED
      BY <1>0, <2>1, <3>2, <3>3
  <2>4. ASSUME NEW s \in Subs PROVE lost'[s] = {} /\ Rising(chan'[s])
    <3>1. ~(Len(chan[s]) >= ChanCap)
      <4>1. Len(chan[s]) \in Nat
        BY <1>0, LenProperties DEF TypeOK
      <4> QED
        BY <2>3, <4>1
    <3>2. lost'[s] = lost[s]
      BY <1>4, <3>1 DEF Broadcast
    <3>3. chan'[s] = Append(chan[s], seqno) \/ chan'[s] = chan[s]
      BY <1>4, <2>1 DEF Broadcast
    <3> QED
      BY <2>3, <3>2, <3>3 DEF NothingLost
  <2>5. \A b \in Appenders : apc'[b] = "idle"
    BY <1>0, <1>4 DEF Broadcast, TypeOK
  <2>6. seqno' = seqno /\ events' = events
    BY <1>4 DEF Broadcast, store
  <2> QED
    BY <2>1, <2>4, <2>5, <2>6 DEF NothingLost
<1>5. ASSUME NEW s \in Subs, Connect(s) PROVE NothingLost'
  <2>1. /\ chan' = [chan EXCEPT ![s] = <<>>] /\ UNCHANGED <<seqno, events, apc, aseq>>
        /\ lost' = [lost EXCEPT ![s] = {}]
    BY <1>5 DEF Connect, Subscribe, store, writers
  <2>2. lost'[s] = {} /\ \A u \in Subs : u # s => lost'[u] = lost[u]
    BY <1>0, <2>1 DEF TypeOK
  <2> QED
    BY <1>c, <2>1, <2>2
<1>6. ASSUME NEW s \in Subs, Resume(s) \/ Leave(s) PROVE NothingLost'
  <2>1. /\ chan' = [chan EXCEPT ![s] = <<>>] /\ lost' = lost
        /\ UNCHANGED <<seqno, events, apc, aseq>>
    BY <1>6 DEF Resume, Leave, Subscribe, store, writers
  <2>2. lost'[s] = {}
    BY <2>1 DEF NothingLost
  <2> QED
    BY <1>c, <2>1, <2>2
<1>7. ASSUME NEW s \in Subs, ReadLatest(s) PROVE NothingLost'
  <2>1. /\ chan' = chan \/ chan' = [chan EXCEPT ![s] = <<>>]
        /\ lost' = lost /\ UNCHANGED <<seqno, events, apc, aseq>>
    BY <1>7 DEF ReadLatest, store, writers
  <2>2. lost'[s] = {}
    BY <2>1 DEF NothingLost
  <2> QED
    BY <1>c, <1>d, <2>1, <2>2
<1>8. ASSUME NEW s \in Subs, StartBackfill(s) PROVE NothingLost'
  <2>1. (1..seqno) \ events = {}
    BY DEF NothingLost
  <2>2. {e \in (1..seqno) \ events : e > cursor[s]} = {}
    BY <2>1
  <2>3. lost' = [lost EXCEPT ![s] = lost[s] \cup {}]
    BY <1>8, <2>2 DEF StartBackfill
  <2>4. \A u \in Subs : lost'[u] = lost[u]
    BY <1>0, <2>3 DEF TypeOK
  <2>5. UNCHANGED <<seqno, events, apc, aseq, chan>>
    BY <1>8 DEF StartBackfill, store, writers
  <2> QED
    BY <2>4, <2>5 DEF NothingLost
<1>9. ASSUME NEW s \in Subs, ReadEarliest(s) \/ SendRow(s) \/ EndBackfill(s)
      PROVE  NothingLost'
  BY <1>9, <1>d DEF ReadEarliest, SendRow, EndBackfill, store, writers
<1>10. ASSUME NEW s \in Subs, chan[s] # <<>>, chan' = [chan EXCEPT ![s] = Tail(@)],
              lost' = lost \/ lost' = [lost EXCEPT ![s] = @ \cup Overtaken(s, Head(chan[s]))],
              UNCHANGED <<seqno, events, apc, aseq>>
       PROVE  NothingLost'
  <2>1. chan[s] \in Seq(1..seqno) /\ Rising(chan[s])
    BY <1>0 DEF TypeOK, NothingLost
  <2>2. Rising(Tail(chan[s])) /\ \A x \in Range(Tail(chan[s])) : x > Head(chan[s])
    BY <1>0, <1>10, <2>1, RisingTail
  <2>3. /\ Head(chan[s]) \in 1..seqno /\ Tail(chan[s]) \in Seq(1..seqno)
        /\ Range(chan[s]) = {Head(chan[s])} \cup Range(Tail(chan[s]))
    BY <1>10, <2>1, RangeTail
  <2>4. Range(Tail(chan[s])) \subseteq 1..seqno
    BY <2>3, RangeOfSeq
  <2>5. ASSUME NEW e \in Overtaken(s, Head(chan[s])) PROVE FALSE
    <3>1. e < Head(chan[s]) /\ e \in Range(Tail(chan[s])) \cup Unbroadcast
      BY DEF Overtaken
    <3>2. CASE e \in Range(Tail(chan[s]))
      BY <2>2, <2>3, <2>4, <3>1, <3>2
    <3>3. CASE e \in Unbroadcast
      <4>1. e = seqno
        BY <3>3 DEF Unbroadcast, NothingLost
      <4> QED
        BY <1>0, <2>3, <3>1, <4>1
    <3> QED
      BY <3>1, <3>2, <3>3
  <2>6. \A u \in Subs : lost'[u] = lost[u]
    <3>1. Overtaken(s, Head(chan[s])) = {}
      BY <2>5
    <3>2. lost' = lost \/ lost' = [lost EXCEPT ![s] = lost[s] \cup {}]
      BY <1>10, <3>1
    <3> QED
      BY <1>0, <3>2 DEF TypeOK
  <2>7. ASSUME NEW u \in Subs
        PROVE  /\ lost'[u] = {} /\ Rising(chan'[u])
               /\ Range(chan'[u]) \subseteq Range(chan[u])
    <3>1. chan'[u] = IF u = s THEN Tail(chan[s]) ELSE chan[u]
      BY <1>0, <1>10 DEF TypeOK
    <3> QED
      BY <2>2, <2>3, <2>6, <3>1 DEF NothingLost
  <2> QED
    BY <1>10, <1>a, <2>7
<1>11. ASSUME NEW s \in Subs, Skip(s) \/ SendLive(s) PROVE NothingLost'
  <2>1. /\ chan[s] # <<>> /\ chan' = [chan EXCEPT ![s] = Tail(@)]
        /\ lost' = lost \/ lost' = [lost EXCEPT ![s] = @ \cup Overtaken(s, Head(chan[s]))]
        /\ UNCHANGED <<seqno, events, apc, aseq>>
    BY <1>11 DEF Skip, SendLive, store, writers
  <2> QED
    BY <1>10, <2>1
<1>12. CASE Crash
  <2>1. /\ UNCHANGED <<seqno, events, lost>>
        /\ \A a \in Appenders : apc'[a] = "idle"
        /\ \A s \in Subs : chan'[s] = <<>>
    BY <1>12 DEF Crash, store
  <2> QED
    BY <1>b, <2>1 DEF NothingLost
<1>13. CASE UNCHANGED vars
  BY <1>13, <1>d DEF vars
<1> QED
  BY <1>1, <1>2, <1>3, <1>4, <1>5, <1>6, <1>7, <1>8, <1>9, <1>11, <1>12, <1>13
     DEF Next, Append_, Handler, Client

\* Backfill and live tail are "spliced together without gaps" where appends
\* come one at a time and no channel fills before its consumer reads it:
\* through crashes and reconnections, for any number of consumers.
THEOREM SplicedWithoutGaps ==
    ASSUME \A a, b \in Appenders : a = b, MaxSeq <= ChanCap, MaxSeq <= Window
    PROVE  Spec => []NoGap
<1>1. Init => NothingLost
  <2> SUFFICES ASSUME Init PROVE NothingLost
    OBVIOUS
  <2>1. events = 1..seqno /\ seqno <= MaxSeq
    BY MaxSeqAssumption DEF Init
  <2>2. \A s \in Subs : lost[s] = {} /\ Rising(chan[s])
    BY DEF Init, Rising
  <2>3. \A a \in Appenders : apc[a] = "idle"
    BY DEF Init
  <2> QED
    BY <2>1, <2>2, <2>3 DEF NothingLost
<1>2. IInv /\ NothingLost /\ [Next]_vars => NothingLost'
  BY NothingLostStep
<1>3. IInv /\ NothingLost => NoGap
  BY DEF IInv, DeliveryInv, Explained, Accounted, NothingLost, NoGap
<1> QED
  BY <1>1, <1>2, <1>3, Invariance, PTL DEF Spec
=============================================================================
