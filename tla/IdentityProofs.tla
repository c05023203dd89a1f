-------------------------- MODULE IdentityProofs --------------------------
(***************************************************************************)
(* Proofs about Identity for every set of requests, DIDs and handles, and   *)
(* every bound of the model.                                                *)
(***************************************************************************)
EXTENDS IdentityProperties, TLAPS

-----------------------------------------------------------------------------
(* What a request does to the local variables *)

\* A step of r leaves the other requests alone and takes r to the place `to` with
\* the DID d, or leaves it idle.
Moves(r, to, d) ==
    /\ \A q \in Requests \ {r} : req'[q] = req[q]
    /\ req'[r] \in Locals
    /\ req'[r].at = to
    /\ req'[r].did = d

\* An idle request has no DID.
LEMMA IdleType == Idle \in Locals /\ Idle.at = "idle" /\ Idle.did = NoDid /\ NoDid \notin Dids
BY DidAssumption DEF Idle, Local, Locals, Places

\* Local variables made of typed parts are typed.
LEMMA LocalType ==
    ASSUME NEW place \in Places, NEW d \in Dids, NEW h \in Handles \cup {NoHandle},
           NEW k \in Nat, NEW prev \in Nat
    PROVE  Local(place, d, h, k, prev) \in Locals
BY DEF Local, Locals

\* Become is a move of one request.
LEMMA BecomeMoves ==
    ASSUME TypeOK, NEW r \in Requests, NEW local \in Locals, Become(r, local)
    PROVE  /\ req' \in [Requests -> Locals]
           /\ req'[r] = local
           /\ Moves(r, local.at, local.did)
BY DEF TypeOK, Become, Moves

\* Goto is a move of one request that keeps its DID.
LEMMA GotoMoves ==
    ASSUME TypeOK, NEW r \in Requests, NEW place \in Places, Goto(r, place)
    PROVE  /\ req' \in [Requests -> Locals]
           /\ Moves(r, place, req[r].did)
           /\ req'[r].handle = req[r].handle /\ req'[r].key = req[r].key
           /\ req'[r].prev = req[r].prev
<1>1. req \in [Requests -> Locals] /\ req[r] \in Locals
  BY DEF TypeOK
<1>2. req' = [req EXCEPT ![r] = [req[r] EXCEPT !.at = place]]
  BY <1>1 DEF Goto
<1>3. [req[r] EXCEPT !.at = place] \in Locals
  BY <1>1 DEF Locals
<1> QED
  BY <1>1, <1>2, <1>3 DEF Moves, Locals

-----------------------------------------------------------------------------
(* Types *)

\* An operation made of typed parts is typed.
LEMMA OperationType ==
    ASSUME NEW cid \in Nat, NEW h \in Handles \cup {NoHandle}, NEW k \in Nat
    PROVE  [cid |-> cid, handle |-> h, key |-> k] \in Operations
BY DEF Operations

\* What plc.directory takes.
LEMMA SubmittedType ==
    ASSUME TypeOK, NEW r \in Requests, NEW d \in Dids, NEW prev,
           NEW h \in Handles \cup {NoHandle}, NEW k \in Nat, Submitted(r, d, prev, h, k)
    PROVE  /\ plc' \in [Dids -> Operations]
           /\ torn' \subseteq Dids /\ muddled' \subseteq Dids
<1>1. plc \in [Dids -> Operations] /\ plc[d].cid \in Nat
  BY DEF TypeOK, Operations
<1>2. prev + 1 \in Nat
  BY <1>1 DEF Submitted
<1>3. [cid |-> prev + 1, handle |-> h, key |-> k] \in Operations
  BY <1>2, OperationType
<1> QED
  BY <1>1, <1>3 DEF Submitted, Mark, TypeOK

\* A row comes with a handle and a key.
LEMMA RegisteredType ==
    ASSUME TypeOK, NEW r \in Requests, NEW d \in Dids, NEW h \in Handles, NEW k \in Nat \ {0},
           Registered(r, d, h, k)
    PROVE  /\ handle' \in [Dids -> Handles \cup {NoHandle}] /\ key' \in [Dids -> Nat]
           /\ \A e \in Dids : key'[e] # 0 <=> handle'[e] # NoHandle
           /\ torn' \subseteq Dids /\ muddled' \subseteq Dids
BY HandleAssumption DEF Registered, TypeOK, Exists, Mark

\* An answer of reserveSigningKey keeps the types of what it records.
LEMMA AnswerType ==
    ASSUME TypeOK, NEW r \in Requests, NEW d \in Dids, NEW k \in Nat \ {0}, Answer(r, d, k)
    PROVE  told' \in [Dids -> SUBSET (Nat \ {0})] /\ raced' \subseteq Dids
BY DEF Answer, TypeOK

\* The initial state has its types.
LEMMA TypeInit == Init => TypeOK
<1> SUFFICES ASSUME Init PROVE TypeOK
  OBVIOUS
<1>1. plc \in [Dids -> Operations]
  <2>1. PICK h \in [Migrating -> Handles] :
           plc = [d \in Dids |-> IF d \in Migrating THEN [cid |-> 1, handle |-> h[d], key |-> 0]
                                ELSE [cid |-> 0, handle |-> NoHandle, key |-> 0]]
    BY DEF Init
  <2> QED
    BY <2>1 DEF Operations
<1>2. req \in [Requests -> Locals]
  BY IdleType DEF Init
<1> QED
  BY <1>1, <1>2 DEF Init, TypeOK, Exists

\* Every step keeps the types.
LEMMA TypeStep == TypeOK /\ LocalsFit /\ [Next]_vars => TypeOK'
<1> SUFFICES ASSUME TypeOK, LocalsFit, [Next]_vars PROVE TypeOK'
  OBVIOUS
<1>a. /\ \A r \in Requests : req[r] \in Locals
      /\ \A d \in Dids : plc[d] \in Operations
  BY DEF TypeOK
<1>b. /\ \A r \in Requests : /\ req[r].handle \in Handles \cup {NoHandle} /\ req[r].key \in Nat
                             /\ req[r].prev \in Nat /\ req[r].did \in Dids \cup {NoDid}
      /\ \A d \in Dids : plc[d].cid \in Nat /\ plc[d].handle \in Handles \cup {NoHandle}
                         /\ plc[d].key \in Nat
  BY <1>a DEF Locals, Operations
<1>c. /\ {"idle", "genesis", "insert_minted", "reserve", "take", "insert", "fetch", "submit",
          "store", "follow", "emit", "emit_again", "delete_row"} \subseteq Places
      /\ 0 \in Nat
  BY DEF Places
<1> USE IdleType, LocalType
<1>1. ASSUME NEW r \in Requests, StartCreate(r) PROVE TypeOK'
  <2>1. req' \in [Requests -> Locals]
    <3>1. PICK d \in Minted, h \in Handles : Become(r, Local("genesis", d, h, nextKey, 0))
      BY <1>1 DEF StartCreate
    <3>2. d \in Dids /\ nextKey \in Nat
      BY DEF Dids, TypeOK
    <3>3. Local("genesis", d, h, nextKey, 0) \in Locals
      BY <3>2, <1>c
    <3> QED
      BY <3>1, <3>3, BecomeMoves
  <2> QED
    BY <1>1, <2>1 DEF StartCreate, TypeOK, Exists
<1>2. ASSUME NEW r \in Requests, SubmitGenesis(r) PROVE TypeOK'
  <2>1. req' \in [Requests -> Locals]
    BY <1>2, <1>a, <1>b, <1>c, BecomeMoves, GotoMoves DEF SubmitGenesis, LocalsFit, At, TypeOK
  <2> QED
    BY <1>2, <2>1, <1>b, SubmittedType DEF SubmitGenesis, TypeOK, Exists, LocalsFit, At
<1>3. ASSUME NEW r \in Requests, InsertMinted(r) PROVE TypeOK'
  <2>1. req' \in [Requests -> Locals]
    BY <1>3, <1>a, <1>b, <1>c, BecomeMoves, GotoMoves DEF InsertMinted, LocalsFit, At, TypeOK
  <2> QED
    BY <1>3, <2>1, <1>b, RegisteredType DEF InsertMinted, TypeOK, Exists, LocalsFit, At
<1>4. ASSUME NEW r \in Requests, LookupReservation(r) PROVE TypeOK'
  <2>1. req' \in [Requests -> Locals]
    BY <1>4, <1>a, <1>b, <1>c, BecomeMoves, GotoMoves DEF LookupReservation, LocalsFit, At, TypeOK
  <2> QED
    BY <1>4, <2>1, <1>b, AnswerType DEF LookupReservation, TypeOK, Exists, LocalsFit, At
<1>5. ASSUME NEW r \in Requests, InsertReservation(r) PROVE TypeOK'
  <2>1. req' \in [Requests -> Locals]
    BY <1>5, <1>a, <1>b, <1>c, BecomeMoves, GotoMoves DEF InsertReservation, LocalsFit, At, TypeOK
  <2> QED
    BY <1>5, <2>1, <1>b, AnswerType DEF InsertReservation, TypeOK, Exists, LocalsFit, At
<1>6. ASSUME NEW r \in Requests, CheckAvailable(r) PROVE TypeOK'
  <2>1. req' \in [Requests -> Locals]
    BY <1>6, <1>a, <1>b, <1>c, BecomeMoves, GotoMoves DEF CheckAvailable, LocalsFit, At, TypeOK
  <2> QED
    BY <1>6, <2>1, <1>b DEF CheckAvailable, TypeOK, Exists, LocalsFit, At
<1>7. ASSUME NEW r \in Requests, TakeReservation(r) PROVE TypeOK'
  <2>1. req' \in [Requests -> Locals]
    BY <1>7, <1>a, <1>b, <1>c, BecomeMoves, GotoMoves DEF TakeReservation, LocalsFit, At, TypeOK
  <2> QED
    BY <1>7, <2>1, <1>b DEF TakeReservation, TypeOK, Exists, LocalsFit, At
<1>8. ASSUME NEW r \in Requests, InsertMigrated(r) PROVE TypeOK'
  <2>1. req' \in [Requests -> Locals]
    BY <1>8, <1>a, <1>b, <1>c, BecomeMoves, GotoMoves DEF InsertMigrated, LocalsFit, At, TypeOK
  <2> QED
    BY <1>8, <2>1, <1>b, RegisteredType DEF InsertMigrated, TypeOK, Exists, LocalsFit, At
<1>9. ASSUME NEW r \in Requests, CheckHandle(r) PROVE TypeOK'
  <2>1. req' \in [Requests -> Locals]
    BY <1>9, <1>a, <1>b, <1>c, BecomeMoves, GotoMoves DEF CheckHandle, LocalsFit, At, TypeOK
  <2> QED
    BY <1>9, <2>1, <1>b DEF CheckHandle, TypeOK, Exists, LocalsFit, At
<1>10. ASSUME NEW r \in Requests, FetchLastOp(r) PROVE TypeOK'
  <2>1. req' \in [Requests -> Locals]
    BY <1>10, <1>a, <1>b, <1>c, BecomeMoves, GotoMoves DEF FetchLastOp, LocalsFit, At, TypeOK
  <2> QED
    BY <1>10, <2>1, <1>b DEF FetchLastOp, TypeOK, Exists, LocalsFit, At
<1>11. ASSUME NEW r \in Requests, SubmitUpdate(r) PROVE TypeOK'
  <2>1. req' \in [Requests -> Locals]
    BY <1>11, <1>a, <1>b, <1>c, BecomeMoves, GotoMoves DEF SubmitUpdate, LocalsFit, At, TypeOK
  <2> QED
    BY <1>11, <2>1, <1>b, SubmittedType DEF SubmitUpdate, TypeOK, Exists, LocalsFit, At
<1>12. ASSUME NEW r \in Requests, StoreHandle(r) PROVE TypeOK'
  <2>1. req' \in [Requests -> Locals]
    BY <1>12, <1>c, GotoMoves DEF StoreHandle
  <2>2. req[r].did \in Dids /\ req[r].handle \in Handles /\ Exists(req[r].did)
    BY <1>12 DEF StoreHandle, SetHandle, LocalsFit, At
  <2>3. handle' \in [Dids -> Handles \cup {NoHandle}] /\ \A d \in Dids : key[d] # 0 <=> handle'[d] # NoHandle
    BY <1>12, <2>2, HandleAssumption DEF StoreHandle, SetHandle, TypeOK, Exists
  <2> QED
    BY <1>12, <2>1, <2>3 DEF StoreHandle, TypeOK, Exists
<1>13. ASSUME NEW r \in Requests, SubmitClientOp(r) PROVE TypeOK'
  <2>1. PICK d \in Dids, h \in Handles \cup {NoHandle} : \E k \in {0, key[d]} :
           /\ Submitted(r, d, plc[d].cid, h, k)
           /\ Become(r, Local(IF h = NoHandle THEN "emit" ELSE "follow", d, h, 0, 0))
    BY <1>13 DEF SubmitClientOp
  <2>2. PICK k \in {0, key[d]} :
           /\ Submitted(r, d, plc[d].cid, h, k)
           /\ Become(r, Local(IF h = NoHandle THEN "emit" ELSE "follow", d, h, 0, 0))
    BY <2>1
  <2>3. k \in Nat
    BY DEF TypeOK
  <2>4. Local(IF h = NoHandle THEN "emit" ELSE "follow", d, h, 0, 0) \in Locals
    BY <1>c
  <2>5. req' \in [Requests -> Locals]
    BY <2>2, <2>4, BecomeMoves
  <2>6. plc' \in [Dids -> Operations] /\ torn' \subseteq Dids /\ muddled' \subseteq Dids
    BY <2>2, <2>3, SubmittedType
  <2> QED
    BY <1>13, <2>5, <2>6 DEF SubmitClientOp, TypeOK, Exists
<1>14. ASSUME NEW r \in Requests, FollowHandle(r) PROVE TypeOK'
  <2>1. req' \in [Requests -> Locals]
    BY <1>14, <1>c, GotoMoves DEF FollowHandle
  <2>2. req[r].did \in Dids /\ req[r].handle \in Handles
    BY <1>14 DEF FollowHandle, LocalsFit, At
  <2>3. handle' \in [Dids -> Handles \cup {NoHandle}] /\ \A d \in Dids : key[d] # 0 <=> handle'[d] # NoHandle
    BY <1>14, <2>2, HandleAssumption DEF FollowHandle, SetHandle, TypeOK, Exists
  <2>4. torn' \subseteq Dids /\ muddled' \subseteq Dids
    BY <1>14, <2>2 DEF FollowHandle, Spoil, TypeOK
  <2> QED
    BY <1>14, <2>1, <2>3, <2>4 DEF FollowHandle, TypeOK, Exists
<1>15. ASSUME NEW r \in Requests, ReadForRefresh(r) PROVE TypeOK'
  <2>1. req' \in [Requests -> Locals]
    BY <1>15, <1>a, <1>b, <1>c, BecomeMoves, GotoMoves DEF ReadForRefresh, LocalsFit, At, TypeOK
  <2> QED
    BY <1>15, <2>1, <1>b DEF ReadForRefresh, TypeOK, Exists, LocalsFit, At
<1>16. ASSUME NEW r \in Requests, EmitIdentity(r) PROVE TypeOK'
  <2>1. req' \in [Requests -> Locals]
    BY <1>16, <1>a, <1>b, <1>c, BecomeMoves, GotoMoves DEF EmitIdentity, LocalsFit, At, TypeOK
  <2> QED
    BY <1>16, <2>1, <1>b DEF EmitIdentity, TypeOK, Exists, LocalsFit, At
<1>17. ASSUME NEW r \in Requests, DeleteReservation(r) PROVE TypeOK'
  <2>1. req' \in [Requests -> Locals]
    BY <1>17, <1>a, <1>b, <1>c, BecomeMoves, GotoMoves DEF DeleteReservation, LocalsFit, At, TypeOK
  <2> QED
    BY <1>17, <2>1, <1>b DEF DeleteReservation, TypeOK, Exists, LocalsFit, At
<1>18. ASSUME NEW r \in Requests, DeleteRow(r) PROVE TypeOK'
  <2>1. req' \in [Requests -> Locals]
    BY <1>18, <1>a, <1>b, <1>c, BecomeMoves, GotoMoves DEF DeleteRow, LocalsFit, At, TypeOK
  <2> QED
    BY <1>18, <2>1, <1>b DEF DeleteRow, TypeOK, Exists, LocalsFit, At
<1>19. ASSUME NEW r \in Requests, GiveUp(r) PROVE TypeOK'
  <2>1. req' \in [Requests -> Locals]
    BY <1>19, BecomeMoves DEF GiveUp
  <2>2. req[r].did \in Dids
    BY <1>19 DEF GiveUp, LocalsFit, At
  <2> QED
    BY <1>19, <2>1, <2>2 DEF GiveUp, TypeOK, Exists, Spoil
<1>20. ASSUME NEW d \in Dids, OtherServer(d) PROVE TypeOK'
  BY <1>20, <1>b, OperationType DEF OtherServer, TypeOK, Exists, Spoil
<1>21. ASSUME NEW d \in Dids, ExpireReservation(d) PROVE TypeOK'
  BY <1>21, <1>b, OperationType DEF ExpireReservation, TypeOK, Exists, Spoil
<1>22. CASE UNCHANGED vars
  BY <1>22 DEF vars, TypeOK, Exists
<1> QED
  BY <1>1, <1>2, <1>3, <1>4, <1>5, <1>6, <1>7, <1>8, <1>9, <1>10, <1>11, <1>12, <1>13, <1>14, <1>15, <1>16, <1>17, <1>18, <1>19, <1>20, <1>21, <1>22 DEF Next

-----------------------------------------------------------------------------
(* What a step does to the logs and to the local variables *)

\* A log only grows.
LEMMA LogStep ==
    ASSUME TypeOK, Next, NEW d \in Dids
    PROVE  plc'[d] = plc[d] \/ plc'[d].cid > plc[d].cid
<1>1. plc[d].cid \in Nat /\ plc \in [Dids -> Operations]
  BY DEF TypeOK, Operations
<1>2. ASSUME NEW r \in Requests, NEW e \in Dids, NEW prev, NEW h, NEW k, Submitted(r, e, prev, h, k)
      PROVE  plc'[d] = plc[d] \/ plc'[d].cid > plc[d].cid
  BY <1>1, <1>2 DEF Submitted
<1>3. CASE plc' = plc
  BY <1>3
<1>4. ASSUME NEW r \in Requests, SubmitGenesis(r) \/ SubmitUpdate(r) \/ SubmitClientOp(r)
      PROVE  plc'[d] = plc[d] \/ plc'[d].cid > plc[d].cid
  BY <1>1, <1>4 DEF SubmitGenesis, SubmitUpdate, SubmitClientOp, Submitted
<1>5. ASSUME NEW e \in Dids, OtherServer(e) PROVE plc'[d] = plc[d] \/ plc'[d].cid > plc[d].cid
  BY <1>1, <1>5 DEF OtherServer
<1> QED
  BY <1>3, <1>4, <1>5 DEF Next, ExpireReservation, StartCreate, InsertMinted, LookupReservation, InsertReservation, CheckAvailable, TakeReservation, InsertMigrated, CheckHandle, FetchLastOp, StoreHandle, FollowHandle, ReadForRefresh, EmitIdentity, DeleteReservation, DeleteRow, GiveUp

\* LocalsFit, of one request.
Fits(local, log) ==
    /\ local.at # "idle" => local.did \in Dids
    /\ local.at \in {"genesis", "insert_minted", "take", "insert", "fetch", "submit",
                     "store", "follow"} => local.handle \in Handles
    /\ local.at \in {"genesis", "insert_minted", "insert"} => local.key # 0
    /\ local.at = "submit" /\ local.prev = log[local.did].cid => local.key = log[local.did].key
    /\ local.at = "submit" => local.prev <= log[local.did].cid

\* At first no request holds anything.
LEMMA LocalsInit == Init => LocalsFit
BY DEF Init, LocalsFit, Idle, Local, At

\* An idle request fits any log.
LEMMA IdleFits == \A log : Fits(Idle, log)
BY DEF Fits, Idle, Local

\* Every step leaves local variables that fit the place the request has come to.
LEMMA LocalsStep == TypeOK /\ LocalsFit /\ [Next]_vars => LocalsFit'
<1>1. ASSUME TypeOK, LocalsFit, Next, NEW q \in Requests PROVE Fits(req'[q], plc')
  <2>1. req \in [Requests -> Locals] /\ req[q] \in Locals /\ Fits(req[q], plc)
    BY <1>1 DEF TypeOK, LocalsFit, Fits, At
  <2>2. \A d \in Dids : plc[d].cid \in Nat /\ plc[d] \in Operations
    BY <1>1 DEF TypeOK, Operations
  <2>3. req[q].prev \in Nat /\ \A d \in Dids : plc'[d].cid \in Nat
    BY <1>1, <2>1, TypeStep DEF TypeOK, Locals, Operations
  <2>4. CASE req'[q] = req[q]
    BY <1>1, <2>1, <2>2, <2>3, <2>4, LogStep DEF Fits
  <2>5. CASE req' = req
    BY <2>1, <2>4, <2>5
  <2>6. ASSUME NEW r \in Requests, StartCreate(r), req'[q] # req[q] PROVE Fits(req'[q], plc')
    <3>1. PICK d \in Minted, h \in Handles : Become(r, Local("genesis", d, h, nextKey, 0))
      BY <2>6 DEF StartCreate
    <3>2. req'[q] = Local("genesis", d, h, nextKey, 0)
      BY <2>1, <2>6, <3>1 DEF Become
    <3>3. nextKey # 0 /\ d \in Dids
      BY <1>1 DEF TypeOK, Dids
    <3> QED
      BY <3>2, <3>3 DEF Local, Fits
  <2>7. ASSUME NEW r \in Requests, SubmitGenesis(r), req'[q] # req[q] PROVE Fits(req'[q], plc')
    <3>1. req' = [req EXCEPT ![r].at = "insert_minted"] /\ req[r].at = "genesis"
      BY <2>7 DEF SubmitGenesis, Goto, At
    <3>2. q = r /\ req'[q] = [req[q] EXCEPT !.at = "insert_minted"]
      BY <2>1, <2>7, <3>1
    <3>3. /\ req'[q].at = "insert_minted" /\ req'[q].did = req[q].did
          /\ req'[q].handle = req[q].handle /\ req'[q].key = req[q].key
      BY <2>1, <3>2 DEF Locals
    <3> QED
      BY <2>1, <3>1, <3>2, <3>3 DEF Fits
  <2>8. ASSUME NEW r \in Requests, InsertMinted(r), req'[q] # req[q] PROVE Fits(req'[q], plc')
    <3>1. req' = [req EXCEPT ![r] = Idle]
      BY <2>8 DEF InsertMinted, Become
    <3>2. req'[q] = Idle
      BY <2>1, <2>8, <3>1
    <3> QED
      BY <3>2, IdleFits
  <2>9. ASSUME NEW r \in Requests, LookupReservation(r), req'[q] # req[q] PROVE Fits(req'[q], plc')
    <3>1. PICK d \in Dids : Become(r, Local("reserve", d, NoHandle, 0, 0))
      BY <2>1, <2>9 DEF LookupReservation
    <3>2. req'[q] = Local("reserve", d, NoHandle, 0, 0)
      BY <2>1, <2>9, <3>1 DEF Become
    <3> QED
      BY <3>2 DEF Local, Fits
  <2>10. ASSUME NEW r \in Requests, InsertReservation(r), req'[q] # req[q] PROVE Fits(req'[q], plc')
    <3>1. req' = [req EXCEPT ![r] = Idle]
      BY <2>10 DEF InsertReservation, Become
    <3>2. req'[q] = Idle
      BY <2>1, <2>10, <3>1
    <3> QED
      BY <3>2, IdleFits
  <2>11. ASSUME NEW r \in Requests, CheckAvailable(r), req'[q] # req[q] PROVE Fits(req'[q], plc')
    <3>1. PICK d \in Dids, h \in Handles : Become(r, Local("take", d, h, 0, 0))
      BY <2>11 DEF CheckAvailable
    <3>2. req'[q] = Local("take", d, h, 0, 0)
      BY <2>1, <2>11, <3>1 DEF Become
    <3> QED
      BY <3>2 DEF Local, Fits
  <2>12. ASSUME NEW r \in Requests, TakeReservation(r), req'[q] # req[q] PROVE Fits(req'[q], plc')
    <3>1. PICK k : req' = [req EXCEPT ![r] = Local("insert", req[r].did, req[r].handle, k, 0)] /\ k # 0
      BY <1>1, <2>12 DEF TakeReservation, Become, TypeOK
    <3>2. q = r /\ req'[q] = Local("insert", req[q].did, req[q].handle, k, 0) /\ req[q].at = "take"
      BY <2>1, <2>12, <3>1 DEF TakeReservation, At
    <3> QED
      BY <2>1, <3>1, <3>2 DEF Fits, Local
  <2>13. ASSUME NEW r \in Requests, InsertMigrated(r), req'[q] # req[q] PROVE Fits(req'[q], plc')
    <3>1. req' = [req EXCEPT ![r] = Idle]
      BY <2>13 DEF InsertMigrated, Become
    <3>2. req'[q] = Idle
      BY <2>1, <2>13, <3>1
    <3> QED
      BY <3>2, IdleFits
  <2>14. ASSUME NEW r \in Requests, CheckHandle(r), req'[q] # req[q] PROVE Fits(req'[q], plc')
    <3>1. PICK d \in Dids, h \in Handles : Become(r, Local("fetch", d, h, 0, 0))
      BY <2>14 DEF CheckHandle
    <3>2. req'[q] = Local("fetch", d, h, 0, 0)
      BY <2>1, <2>14, <3>1 DEF Become
    <3> QED
      BY <3>2 DEF Local, Fits
  <2>15. ASSUME NEW r \in Requests, FetchLastOp(r), req'[q] # req[q] PROVE Fits(req'[q], plc')
    <3>1. /\ plc' = plc /\ req[r].at = "fetch"
          /\ req' = [req EXCEPT ![r] = Local("submit", req[r].did, req[r].handle,
                                            plc[req[r].did].key, plc[req[r].did].cid)]
      BY <2>15 DEF FetchLastOp, Become, At
    <3>2. q = r /\ req'[q] = Local("submit", req[q].did, req[q].handle,
                                  plc[req[q].did].key, plc[req[q].did].cid)
      BY <2>1, <2>15, <3>1
    <3>3. req[q].did \in Dids /\ req[q].handle \in Handles
      BY <2>1, <3>1, <3>2 DEF Fits
    <3> QED
      BY <2>2, <3>1, <3>2, <3>3 DEF Fits, Local
  <2>16. ASSUME NEW r \in Requests, SubmitUpdate(r), req'[q] # req[q] PROVE Fits(req'[q], plc')
    <3>1. req' = [req EXCEPT ![r].at = "store"] /\ req[r].at = "submit"
      BY <2>16 DEF SubmitUpdate, Goto, At
    <3>2. q = r /\ req'[q] = [req[q] EXCEPT !.at = "store"]
      BY <2>1, <2>16, <3>1
    <3>3. /\ req'[q].at = "store" /\ req'[q].did = req[q].did
          /\ req'[q].handle = req[q].handle /\ req'[q].key = req[q].key
      BY <2>1, <3>2 DEF Locals
    <3> QED
      BY <2>1, <3>1, <3>2, <3>3 DEF Fits
  <2>17. ASSUME NEW r \in Requests, StoreHandle(r), req'[q] # req[q] PROVE Fits(req'[q], plc')
    <3>1. req' = [req EXCEPT ![r].at = "emit"] /\ req[r].at = "store"
      BY <2>17 DEF StoreHandle, Goto, At
    <3>2. q = r /\ req'[q] = [req[q] EXCEPT !.at = "emit"]
      BY <2>1, <2>17, <3>1
    <3>3. /\ req'[q].at = "emit" /\ req'[q].did = req[q].did
          /\ req'[q].handle = req[q].handle /\ req'[q].key = req[q].key
      BY <2>1, <3>2 DEF Locals
    <3> QED
      BY <2>1, <3>1, <3>2, <3>3 DEF Fits
  <2>18. ASSUME NEW r \in Requests, SubmitClientOp(r), req'[q] # req[q] PROVE Fits(req'[q], plc')
    <3>1. PICK d \in Dids, h \in Handles \cup {NoHandle} : Become(r, Local(IF h = NoHandle THEN "emit" ELSE "follow", d, h, 0, 0))
      BY <2>18 DEF SubmitClientOp
    <3>2. req'[q] = Local(IF h = NoHandle THEN "emit" ELSE "follow", d, h, 0, 0)
      BY <2>1, <2>18, <3>1 DEF Become
    <3>3. d \in Dids /\ (h = NoHandle \/ h \in Handles)
      OBVIOUS
    <3> QED
      BY <3>2, <3>3 DEF Local, Fits
  <2>19. ASSUME NEW r \in Requests, FollowHandle(r), req'[q] # req[q] PROVE Fits(req'[q], plc')
    <3>1. req' = [req EXCEPT ![r].at = "emit"] /\ req[r].at = "follow"
      BY <2>19 DEF FollowHandle, Goto, At
    <3>2. q = r /\ req'[q] = [req[q] EXCEPT !.at = "emit"]
      BY <2>1, <2>19, <3>1
    <3>3. /\ req'[q].at = "emit" /\ req'[q].did = req[q].did
          /\ req'[q].handle = req[q].handle /\ req'[q].key = req[q].key
      BY <2>1, <3>2 DEF Locals
    <3> QED
      BY <2>1, <3>1, <3>2, <3>3 DEF Fits
  <2>20. ASSUME NEW r \in Requests, ReadForRefresh(r), req'[q] # req[q] PROVE Fits(req'[q], plc')
    <3>1. PICK d \in Dids : Become(r, Local("emit_again", d, handle[d], 0, 0))
      BY <2>20 DEF ReadForRefresh
    <3>2. req'[q] = Local("emit_again", d, handle[d], 0, 0)
      BY <2>1, <2>20, <3>1 DEF Become
    <3> QED
      BY <3>2 DEF Local, Fits
  <2>21. ASSUME NEW r \in Requests, EmitIdentity(r), req'[q] # req[q] PROVE Fits(req'[q], plc')
    <3>1. req' = [req EXCEPT ![r] = Idle]
      BY <2>21 DEF EmitIdentity, Become
    <3>2. req'[q] = Idle
      BY <2>1, <2>21, <3>1
    <3> QED
      BY <3>2, IdleFits
  <2>22. ASSUME NEW r \in Requests, DeleteReservation(r), req'[q] # req[q] PROVE Fits(req'[q], plc')
    <3>1. PICK d \in Dids : Become(r, Local("delete_row", d, NoHandle, 0, 0))
      BY <2>22 DEF DeleteReservation
    <3>2. req'[q] = Local("delete_row", d, NoHandle, 0, 0)
      BY <2>1, <2>22, <3>1 DEF Become
    <3> QED
      BY <3>2 DEF Local, Fits
  <2>23. ASSUME NEW r \in Requests, DeleteRow(r), req'[q] # req[q] PROVE Fits(req'[q], plc')
    <3>1. req' = [req EXCEPT ![r] = Idle]
      BY <2>23 DEF DeleteRow, Become
    <3>2. req'[q] = Idle
      BY <2>1, <2>23, <3>1
    <3> QED
      BY <3>2, IdleFits
  <2>24. ASSUME NEW r \in Requests, GiveUp(r), req'[q] # req[q] PROVE Fits(req'[q], plc')
    <3>1. req' = [req EXCEPT ![r] = Idle]
      BY <2>24 DEF GiveUp, Become
    <3>2. req'[q] = Idle
      BY <2>1, <2>24, <3>1
    <3> QED
      BY <3>2, IdleFits
  <2>25. ASSUME NEW d \in Dids, OtherServer(d) \/ ExpireReservation(d) PROVE req' = req
    BY <2>25 DEF OtherServer, ExpireReservation
  <2> QED
    BY <1>1, <2>4, <2>5, <2>6, <2>7, <2>8, <2>9, <2>10, <2>11, <2>12, <2>13, <2>14, <2>15, <2>16,
       <2>17, <2>18, <2>19, <2>20, <2>21, <2>22, <2>23, <2>24, <2>25 DEF Next
<1>2. ASSUME TypeOK, LocalsFit, Next PROVE LocalsFit'
  BY <1>1, <1>2 DEF LocalsFit, Fits, At
<1>3. ASSUME LocalsFit, UNCHANGED vars PROVE LocalsFit'
  BY <1>3 DEF LocalsFit, vars, At
<1> QED
  BY <1>2, <1>3

-----------------------------------------------------------------------------
(* Handles *)

\* At first no row has a handle.
LEMMA UniqueInit == Init => HandlesAreUnique
BY DEF Init, HandlesAreUnique

\* Every INSERT and UPDATE of a handle looks for another row that has it.
LEMMA UniqueStep == TypeOK /\ LocalsFit /\ HandlesAreUnique /\ [Next]_vars => HandlesAreUnique'
<1> SUFFICES ASSUME TypeOK, LocalsFit, HandlesAreUnique, [Next]_vars PROVE HandlesAreUnique'
  OBVIOUS
<1>1. ASSUME NEW d \in Dids, NEW h \in Handles, Free(h, d), handle' = [handle EXCEPT ![d] = h]
      PROVE  HandlesAreUnique'
  BY <1>1 DEF TypeOK, HandlesAreUnique, Free
<1>2. ASSUME NEW r \in Requests, InsertMinted(r) \/ InsertMigrated(r) \/ StoreHandle(r) PROVE HandlesAreUnique'
  BY <1>1, <1>2 DEF InsertMinted, InsertMigrated, Registered, StoreHandle, SetHandle, LocalsFit, At
<1>3. ASSUME NEW r \in Requests, FollowHandle(r) PROVE HandlesAreUnique'
  BY <1>1, <1>3 DEF FollowHandle, SetHandle, LocalsFit, At, HandlesAreUnique
<1>4. ASSUME NEW r \in Requests, DeleteRow(r) PROVE HandlesAreUnique'
  BY <1>4 DEF DeleteRow, TypeOK, HandlesAreUnique
<1>5. CASE handle' = handle
  BY <1>5 DEF HandlesAreUnique
<1> QED
  BY <1>2, <1>3, <1>4, <1>5 DEF Next, vars, OtherServer, ExpireReservation,
     StartCreate, SubmitGenesis, LookupReservation, InsertReservation, CheckAvailable, TakeReservation, CheckHandle, FetchLastOp, SubmitUpdate, SubmitClientOp, ReadForRefresh, EmitIdentity, DeleteReservation, GiveUp

-----------------------------------------------------------------------------
(* The DIDs made here *)

\* At first no DID is being made, and nobody uses one that is not.
LEMMA MadeInit == Init => MadeAlone /\ UnknownIsUnused
<1> SUFFICES ASSUME Init PROVE MadeAlone /\ UnknownIsUnused
  OBVIOUS
<1>1. MadeAlone
  BY DEF Init, MadeAlone, Idle, Local
<1>2. UnknownIsUnused
  BY DidAssumption DEF Init, UnknownIsUnused, Idle, Local, Exists, Dids
<1> QED
  BY <1>1, <1>2

\* Only its own handler touches a DID that is being made.
LEMMA MadeStep ==
    TypeOK /\ LocalsFit /\ MadeAlone /\ UnknownIsUnused /\ [Next]_vars => MadeAlone'
<1> SUFFICES ASSUME TypeOK, LocalsFit, MadeAlone, UnknownIsUnused, [Next]_vars PROVE MadeAlone'
  OBVIOUS
<1>a. req \in [Requests -> Locals]
  BY DEF TypeOK
<1>1. ASSUME NEW r \in Requests, StartCreate(r) PROVE MadeAlone'
  <2>1. PICK d \in Minted, h \in Handles :
           /\ plc[d].cid = 0 /\ \A q \in Requests : req[q].did # d
           /\ Become(r, Local("genesis", d, h, nextKey, 0))
    BY <1>1 DEF StartCreate
  <2>2. d \in Dids /\ UNCHANGED <<plc, key, told>>
    BY <1>1 DEF StartCreate, Dids
  <2>3. plc[d].cid = 0 /\ ~Exists(d) /\ told[d] = {}
    BY <2>1, <2>2 DEF UnknownIsUnused
  <2>4. /\ req'[r] = Local("genesis", d, h, nextKey, 0)
        /\ \A q \in Requests \ {r} : req'[q] = req[q] /\ req[q].did # d
    BY <1>a, <2>1 DEF Become
  <2>5. req'[r].did = d /\ req'[r].at = "genesis"
    BY <2>4 DEF Local
  <2> QED
    BY <2>1, <2>2, <2>3, <2>4, <2>5 DEF MadeAlone, Exists, At, Dids
<1>2. ASSUME NEW r \in Requests, SubmitGenesis(r) PROVE MadeAlone'
  BY <1>2, <1>a, DidAssumption DEF SubmitGenesis, MadeAlone, UnknownIsUnused, LocalsFit, TypeOK, Locals, At, Become, Goto, Local, Idle, Exists, Known, BeingMade, Submitted, Registered, SetHandle, Answer
<1>3. ASSUME NEW r \in Requests, InsertMinted(r) PROVE MadeAlone'
  BY <1>3, <1>a, DidAssumption DEF InsertMinted, MadeAlone, UnknownIsUnused, LocalsFit, TypeOK, Locals, At, Become, Goto, Local, Idle, Exists, Known, BeingMade, Submitted, Registered, SetHandle, Answer
<1>4. ASSUME NEW r \in Requests, LookupReservation(r) PROVE MadeAlone'
  <2>1. PICK d \in Dids : /\ Known(d)
                          /\ \/ Answer(r, d, reserved[d]) /\ UNCHANGED req
                             \/ Become(r, Local("reserve", d, NoHandle, 0, 0)) /\ UNCHANGED told
    BY <1>4 DEF LookupReservation
  <2>2. UNCHANGED <<plc, key>> /\ \A e \in Dids \ {d} : told'[e] = told[e]
    BY <1>4, <2>1 DEF LookupReservation, Answer, TypeOK
  <2>3. \A q \in Requests : req[q].at \in {"genesis", "insert_minted"} => req[q].did # d
    <3>1. ASSUME NEW q \in Requests, req[q].at = "genesis" PROVE plc[req[q].did].cid = 0
      BY <3>1 DEF MadeAlone, At
    <3>2. plc[d].cid # 0 /\ ~BeingMade(d)
      BY <2>1 DEF Known, TypeOK, Operations
    <3> QED
      BY <3>1, <3>2 DEF BeingMade
  <2>4. /\ \A q \in Requests \ {r} : req'[q] = req[q]
        /\ req'[r] = req[r] \/ (req'[r].at = "reserve" /\ req'[r].did = d)
    BY <1>a, <2>1 DEF Become, Local
  <2> QED
    BY <2>2, <2>3, <2>4 DEF MadeAlone, Exists, At, Dids
<1>5. ASSUME NEW r \in Requests, InsertReservation(r) PROVE MadeAlone'
  BY <1>5, <1>a, DidAssumption DEF InsertReservation, MadeAlone, UnknownIsUnused, LocalsFit, TypeOK, Locals, At, Become, Goto, Local, Idle, Exists, Known, BeingMade, Submitted, Registered, SetHandle, Answer
<1>6. ASSUME NEW r \in Requests, CheckAvailable(r) PROVE MadeAlone'
  BY <1>6, <1>a, DidAssumption DEF CheckAvailable, MadeAlone, UnknownIsUnused, LocalsFit, TypeOK, Locals, At, Become, Goto, Local, Idle, Exists, Known, BeingMade, Submitted, Registered, SetHandle, Answer
<1>7. ASSUME NEW r \in Requests, TakeReservation(r) PROVE MadeAlone'
  <2>1. UNCHANGED <<plc, key, told, handle>> /\ req[r].at = "take"
    BY <1>7 DEF TakeReservation, At
  <2>2. PICK k : req' = [req EXCEPT ![r] = Local("insert", req[r].did, req[r].handle, k, 0)]
    BY <1>7 DEF TakeReservation, Become
  <2>3. /\ \A q \in Requests \ {r} : req'[q] = req[q]
        /\ req'[r].at = "insert" /\ req'[r].did = req[r].did
    BY <1>a, <2>2 DEF Local
  <2> QED
    BY <2>1, <2>3 DEF MadeAlone, Exists, At
<1>8. ASSUME NEW r \in Requests, InsertMigrated(r) PROVE MadeAlone'
  BY <1>8, <1>a, DidAssumption DEF InsertMigrated, MadeAlone, UnknownIsUnused, LocalsFit, TypeOK, Locals, At, Become, Goto, Local, Idle, Exists, Known, BeingMade, Submitted, Registered, SetHandle, Answer
<1>9. ASSUME NEW r \in Requests, CheckHandle(r) PROVE MadeAlone'
  BY <1>9, <1>a, DidAssumption DEF CheckHandle, MadeAlone, UnknownIsUnused, LocalsFit, TypeOK, Locals, At, Become, Goto, Local, Idle, Exists, Known, BeingMade, Submitted, Registered, SetHandle, Answer
<1>10. ASSUME NEW r \in Requests, FetchLastOp(r) PROVE MadeAlone'
  BY <1>10, <1>a, DidAssumption DEF FetchLastOp, MadeAlone, UnknownIsUnused, LocalsFit, TypeOK, Locals, At, Become, Goto, Local, Idle, Exists, Known, BeingMade, Submitted, Registered, SetHandle, Answer
<1>11. ASSUME NEW r \in Requests, SubmitUpdate(r) PROVE MadeAlone'
  BY <1>11, <1>a, DidAssumption DEF SubmitUpdate, MadeAlone, UnknownIsUnused, LocalsFit, TypeOK, Locals, At, Become, Goto, Local, Idle, Exists, Known, BeingMade, Submitted, Registered, SetHandle, Answer
<1>12. ASSUME NEW r \in Requests, StoreHandle(r) PROVE MadeAlone'
  BY <1>12, <1>a, DidAssumption DEF StoreHandle, MadeAlone, UnknownIsUnused, LocalsFit, TypeOK, Locals, At, Become, Goto, Local, Idle, Exists, Known, BeingMade, Submitted, Registered, SetHandle, Answer
<1>13. ASSUME NEW r \in Requests, SubmitClientOp(r) PROVE MadeAlone'
  BY <1>13, <1>a, DidAssumption DEF SubmitClientOp, MadeAlone, UnknownIsUnused, LocalsFit, TypeOK, Locals, At, Become, Goto, Local, Idle, Exists, Known, BeingMade, Submitted, Registered, SetHandle, Answer
<1>14. ASSUME NEW r \in Requests, FollowHandle(r) PROVE MadeAlone'
  BY <1>14, <1>a, DidAssumption DEF FollowHandle, MadeAlone, UnknownIsUnused, LocalsFit, TypeOK, Locals, At, Become, Goto, Local, Idle, Exists, Known, BeingMade, Submitted, Registered, SetHandle, Answer
<1>15. ASSUME NEW r \in Requests, ReadForRefresh(r) PROVE MadeAlone'
  BY <1>15, <1>a, DidAssumption DEF ReadForRefresh, MadeAlone, UnknownIsUnused, LocalsFit, TypeOK, Locals, At, Become, Goto, Local, Idle, Exists, Known, BeingMade, Submitted, Registered, SetHandle, Answer
<1>16. ASSUME NEW r \in Requests, EmitIdentity(r) PROVE MadeAlone'
  BY <1>16, <1>a, DidAssumption DEF EmitIdentity, MadeAlone, UnknownIsUnused, LocalsFit, TypeOK, Locals, At, Become, Goto, Local, Idle, Exists, Known, BeingMade, Submitted, Registered, SetHandle, Answer
<1>17. ASSUME NEW r \in Requests, DeleteReservation(r) PROVE MadeAlone'
  BY <1>17, <1>a, DidAssumption DEF DeleteReservation, MadeAlone, UnknownIsUnused, LocalsFit, TypeOK, Locals, At, Become, Goto, Local, Idle, Exists, Known, BeingMade, Submitted, Registered, SetHandle, Answer
<1>18. ASSUME NEW r \in Requests, DeleteRow(r) PROVE MadeAlone'
  BY <1>18, <1>a, DidAssumption DEF DeleteRow, MadeAlone, UnknownIsUnused, LocalsFit, TypeOK, Locals, At, Become, Goto, Local, Idle, Exists, Known, BeingMade, Submitted, Registered, SetHandle, Answer
<1>19. ASSUME NEW r \in Requests, GiveUp(r) PROVE MadeAlone'
  BY <1>19, <1>a, DidAssumption DEF GiveUp, MadeAlone, UnknownIsUnused, LocalsFit, TypeOK, Locals, At, Become, Goto, Local, Idle, Exists, Known, BeingMade, Submitted, Registered, SetHandle, Answer
<1>20. ASSUME NEW d \in Dids, OtherServer(d) PROVE MadeAlone'
  BY <1>20, <1>a, DidAssumption DEF OtherServer, MadeAlone, UnknownIsUnused, LocalsFit, TypeOK, Locals, At, Become, Goto, Local, Idle, Exists, Known, BeingMade, Submitted, Registered, SetHandle, Answer
<1>21. ASSUME NEW d \in Dids, ExpireReservation(d) PROVE MadeAlone'
  BY <1>21, <1>a, DidAssumption DEF ExpireReservation, MadeAlone, UnknownIsUnused, LocalsFit, TypeOK, Locals, At, Become, Goto, Local, Idle, Exists, Known, BeingMade, Submitted, Registered, SetHandle, Answer
<1>22. CASE UNCHANGED vars
  BY <1>22 DEF vars, MadeAlone, UnknownIsUnused, LocalsFit, TypeOK, Locals, At, Become, Goto, Local, Idle, Exists, Known, BeingMade, Submitted, Registered, SetHandle, Answer
<1> QED
  BY <1>1, <1>2, <1>3, <1>4, <1>5, <1>6, <1>7, <1>8, <1>9, <1>10, <1>11, <1>12, <1>13, <1>14, <1>15, <1>16, <1>17, <1>18, <1>19, <1>20, <1>21, <1>22 DEF Next

\* A DID nobody has made is used by its maker only.
LEMMA UnknownStep ==
    TypeOK /\ LocalsFit /\ MadeAlone /\ UnknownIsUnused /\ [Next]_vars => UnknownIsUnused'
<1> SUFFICES ASSUME TypeOK, LocalsFit, MadeAlone, UnknownIsUnused, [Next]_vars PROVE UnknownIsUnused'
  OBVIOUS
<1>a. req \in [Requests -> Locals]
  BY DEF TypeOK
<1>1. ASSUME NEW r \in Requests, StartCreate(r) PROVE UnknownIsUnused'
  BY <1>1, <1>a, DidAssumption DEF StartCreate, MadeAlone, UnknownIsUnused, LocalsFit, TypeOK, Locals, At, Become, Goto, Local, Idle, Exists, Known, BeingMade, Submitted, Registered, SetHandle, Answer
<1>2. ASSUME NEW r \in Requests, SubmitGenesis(r) PROVE UnknownIsUnused'
  BY <1>2, <1>a, DidAssumption DEF SubmitGenesis, MadeAlone, UnknownIsUnused, LocalsFit, TypeOK, Locals, At, Become, Goto, Local, Idle, Exists, Known, BeingMade, Submitted, Registered, SetHandle, Answer
<1>3. ASSUME NEW r \in Requests, InsertMinted(r) PROVE UnknownIsUnused'
  BY <1>3, <1>a, DidAssumption DEF InsertMinted, MadeAlone, UnknownIsUnused, LocalsFit, TypeOK, Locals, At, Become, Goto, Local, Idle, Exists, Known, BeingMade, Submitted, Registered, SetHandle, Answer
<1>4. ASSUME NEW r \in Requests, LookupReservation(r) PROVE UnknownIsUnused'
  <2>1. PICK d \in Dids : /\ Known(d)
                          /\ \/ Answer(r, d, reserved[d]) /\ UNCHANGED req
                             \/ Become(r, Local("reserve", d, NoHandle, 0, 0)) /\ UNCHANGED told
    BY <1>4 DEF LookupReservation
  <2>2. UNCHANGED <<plc, key>> /\ \A e \in Dids \ {d} : told'[e] = told[e]
    BY <1>4, <2>1 DEF LookupReservation, Answer, TypeOK
  <2>3. plc[d].cid # 0
    BY <2>1 DEF Known, TypeOK, Operations
  <2>4. /\ \A q \in Requests \ {r} : req'[q] = req[q]
        /\ req'[r] = req[r] \/ (req'[r].at = "reserve" /\ req'[r].did = d)
    BY <1>a, <2>1 DEF Become, Local
  <2> QED
    BY <2>2, <2>3, <2>4 DEF UnknownIsUnused, Exists, At
<1>5. ASSUME NEW r \in Requests, InsertReservation(r) PROVE UnknownIsUnused'
  BY <1>5, <1>a, DidAssumption DEF InsertReservation, MadeAlone, UnknownIsUnused, LocalsFit, TypeOK, Locals, At, Become, Goto, Local, Idle, Exists, Known, BeingMade, Submitted, Registered, SetHandle, Answer
<1>6. ASSUME NEW r \in Requests, CheckAvailable(r) PROVE UnknownIsUnused'
  BY <1>6, <1>a, DidAssumption DEF CheckAvailable, MadeAlone, UnknownIsUnused, LocalsFit, TypeOK, Locals, At, Become, Goto, Local, Idle, Exists, Known, BeingMade, Submitted, Registered, SetHandle, Answer
<1>7. ASSUME NEW r \in Requests, TakeReservation(r) PROVE UnknownIsUnused'
  BY <1>7, <1>a, DidAssumption DEF TakeReservation, MadeAlone, UnknownIsUnused, LocalsFit, TypeOK, Locals, At, Become, Goto, Local, Idle, Exists, Known, BeingMade, Submitted, Registered, SetHandle, Answer
<1>8. ASSUME NEW r \in Requests, InsertMigrated(r) PROVE UnknownIsUnused'
  BY <1>8, <1>a, DidAssumption DEF InsertMigrated, MadeAlone, UnknownIsUnused, LocalsFit, TypeOK, Locals, At, Become, Goto, Local, Idle, Exists, Known, BeingMade, Submitted, Registered, SetHandle, Answer
<1>9. ASSUME NEW r \in Requests, CheckHandle(r) PROVE UnknownIsUnused'
  BY <1>9, <1>a, DidAssumption DEF CheckHandle, MadeAlone, UnknownIsUnused, LocalsFit, TypeOK, Locals, At, Become, Goto, Local, Idle, Exists, Known, BeingMade, Submitted, Registered, SetHandle, Answer
<1>10. ASSUME NEW r \in Requests, FetchLastOp(r) PROVE UnknownIsUnused'
  BY <1>10, <1>a, DidAssumption DEF FetchLastOp, MadeAlone, UnknownIsUnused, LocalsFit, TypeOK, Locals, At, Become, Goto, Local, Idle, Exists, Known, BeingMade, Submitted, Registered, SetHandle, Answer
<1>11. ASSUME NEW r \in Requests, SubmitUpdate(r) PROVE UnknownIsUnused'
  BY <1>11, <1>a, DidAssumption DEF SubmitUpdate, MadeAlone, UnknownIsUnused, LocalsFit, TypeOK, Locals, At, Become, Goto, Local, Idle, Exists, Known, BeingMade, Submitted, Registered, SetHandle, Answer
<1>12. ASSUME NEW r \in Requests, StoreHandle(r) PROVE UnknownIsUnused'
  BY <1>12, <1>a, DidAssumption DEF StoreHandle, MadeAlone, UnknownIsUnused, LocalsFit, TypeOK, Locals, At, Become, Goto, Local, Idle, Exists, Known, BeingMade, Submitted, Registered, SetHandle, Answer
<1>13. ASSUME NEW r \in Requests, SubmitClientOp(r) PROVE UnknownIsUnused'
  <2>1. PICK d \in Dids, h \in Handles \cup {NoHandle} : \E k \in {0, key[d]} :
           /\ Exists(d) /\ Submitted(r, d, plc[d].cid, h, k)
           /\ Become(r, Local(IF h = NoHandle THEN "emit" ELSE "follow", d, h, 0, 0))
    BY <1>13 DEF SubmitClientOp
  <2>2. UNCHANGED <<key, told>> /\ plc[d].cid \in Nat /\ plc \in [Dids -> Operations]
    BY <1>13 DEF SubmitClientOp, TypeOK, Operations
  <2>3. plc'[d].cid # 0 /\ \A e \in Dids \ {d} : plc'[e] = plc[e]
    BY <2>1, <2>2 DEF Submitted
  <2>4. /\ \A q \in Requests \ {r} : req'[q] = req[q]
        /\ req'[r].did = d
    BY <1>a, <2>1 DEF Become, Local
  <2> QED
    BY <2>2, <2>3, <2>4 DEF UnknownIsUnused, Exists, At
<1>14. ASSUME NEW r \in Requests, FollowHandle(r) PROVE UnknownIsUnused'
  BY <1>14, <1>a, DidAssumption DEF FollowHandle, MadeAlone, UnknownIsUnused, LocalsFit, TypeOK, Locals, At, Become, Goto, Local, Idle, Exists, Known, BeingMade, Submitted, Registered, SetHandle, Answer
<1>15. ASSUME NEW r \in Requests, ReadForRefresh(r) PROVE UnknownIsUnused'
  BY <1>15, <1>a, DidAssumption DEF ReadForRefresh, MadeAlone, UnknownIsUnused, LocalsFit, TypeOK, Locals, At, Become, Goto, Local, Idle, Exists, Known, BeingMade, Submitted, Registered, SetHandle, Answer
<1>16. ASSUME NEW r \in Requests, EmitIdentity(r) PROVE UnknownIsUnused'
  BY <1>16, <1>a, DidAssumption DEF EmitIdentity, MadeAlone, UnknownIsUnused, LocalsFit, TypeOK, Locals, At, Become, Goto, Local, Idle, Exists, Known, BeingMade, Submitted, Registered, SetHandle, Answer
<1>17. ASSUME NEW r \in Requests, DeleteReservation(r) PROVE UnknownIsUnused'
  BY <1>17, <1>a, DidAssumption DEF DeleteReservation, MadeAlone, UnknownIsUnused, LocalsFit, TypeOK, Locals, At, Become, Goto, Local, Idle, Exists, Known, BeingMade, Submitted, Registered, SetHandle, Answer
<1>18. ASSUME NEW r \in Requests, DeleteRow(r) PROVE UnknownIsUnused'
  BY <1>18, <1>a, DidAssumption DEF DeleteRow, MadeAlone, UnknownIsUnused, LocalsFit, TypeOK, Locals, At, Become, Goto, Local, Idle, Exists, Known, BeingMade, Submitted, Registered, SetHandle, Answer
<1>19. ASSUME NEW r \in Requests, GiveUp(r) PROVE UnknownIsUnused'
  BY <1>19, <1>a, DidAssumption DEF GiveUp, MadeAlone, UnknownIsUnused, LocalsFit, TypeOK, Locals, At, Become, Goto, Local, Idle, Exists, Known, BeingMade, Submitted, Registered, SetHandle, Answer
<1>20. ASSUME NEW d \in Dids, OtherServer(d) PROVE UnknownIsUnused'
  <2>1. UNCHANGED <<key, told, req>> /\ plc[d].cid \in Nat /\ plc \in [Dids -> Operations]
    BY <1>20 DEF OtherServer, TypeOK, Operations
  <2>2. plc'[d].cid # 0 /\ \A e \in Dids \ {d} : plc'[e] = plc[e]
    BY <1>20, <2>1 DEF OtherServer
  <2> QED
    BY <2>1, <2>2 DEF UnknownIsUnused, Exists, At
<1>21. ASSUME NEW d \in Dids, ExpireReservation(d) PROVE UnknownIsUnused'
  BY <1>21, <1>a, DidAssumption DEF ExpireReservation, MadeAlone, UnknownIsUnused, LocalsFit, TypeOK, Locals, At, Become, Goto, Local, Idle, Exists, Known, BeingMade, Submitted, Registered, SetHandle, Answer
<1>22. CASE UNCHANGED vars
  BY <1>22 DEF vars, MadeAlone, UnknownIsUnused, LocalsFit, TypeOK, Locals, At, Become, Goto, Local, Idle, Exists, Known, BeingMade, Submitted, Registered, SetHandle, Answer
<1> QED
  BY <1>1, <1>2, <1>3, <1>4, <1>5, <1>6, <1>7, <1>8, <1>9, <1>10, <1>11, <1>12, <1>13, <1>14, <1>15, <1>16, <1>17, <1>18, <1>19, <1>20, <1>21, <1>22 DEF Next

-----------------------------------------------------------------------------
(* Rows and logs *)

Followed == StoredInTurn /\ HandleFollowsPlc
Writes(local) == local.at \in {"store", "follow"}

\* A step that touches neither rows nor logs nor who is about to write a row.
LEMMA CalmFollows ==
    ASSUME Followed, UNCHANGED <<handle, key, plc, torn>>,
           \A q \in Requests : req'[q] = req[q] \/ (~Writes(req'[q]) /\ ~Writes(req[q]))
    PROVE  Followed'
<1>1. plc' = plc /\ handle' = handle /\ key' = key /\ torn' = torn
  OBVIOUS
<1>2. StoredInTurn'
  BY <1>1 DEF Followed, StoredInTurn, Writes, On, Storing, Exists
<1>3. HandleFollowsPlc'
  BY <1>1 DEF Followed, HandleFollowsPlc, Writes, On, Exists
<1> QED
  BY <1>2, <1>3 DEF Followed

\* The conditions of one DID; a step is looked at one DID at a time.
FollowedAt(d) ==
    d \notin torn /\ Exists(d) =>
        /\ \A r \in Requests : Writes(req[r]) /\ req[r].did = d =>
              plc[d].handle = req[r].handle /\ ~Storing(r, d)
        /\ (\A r \in Requests : ~(Writes(req[r]) /\ req[r].did = d)) =>
              plc[d].handle \in {NoHandle, handle[d]}

\* The two invariants, one DID at a time.
LEMMA FollowedByDid == Followed <=> \A d \in Dids : FollowedAt(d)
BY DEF Followed, FollowedAt, StoredInTurn, HandleFollowsPlc, On, Writes

\* A step of r with the DID d leaves every other DID alone.
LEMMA OtherDids ==
    ASSUME NEW r \in Requests, NEW d, NEW e \in Dids, e # d, FollowedAt(e),
           \A q \in Requests \ {r} : req'[q] = req[q],
           Writes(req[r]) => req[r].did = d, Writes(req'[r]) => req'[r].did = d,
           e \in torn' <=> e \in torn,
           plc'[e] = plc[e], handle'[e] = handle[e], key'[e] = key[e]
    PROVE  FollowedAt(e)'
BY DEF FollowedAt, Writes, Storing, Exists

\* At first there are no accounts.
LEMMA FollowedInit == Init => Followed
BY DEF Init, Followed, StoredInTurn, HandleFollowsPlc, Exists

\* An operation and the UPDATE after it keep row and log in step, unless torn.
LEMMA FollowedStep ==
    TypeOK /\ LocalsFit /\ MadeAlone /\ Followed /\ [Next]_vars => Followed'
<1> SUFFICES ASSUME TypeOK, LocalsFit, MadeAlone, Followed, [Next]_vars PROVE Followed'
  OBVIOUS
<1>a. req \in [Requests -> Locals] /\ \A e \in Dids : FollowedAt(e)
  BY FollowedByDid DEF TypeOK
<1>b. (\A e \in Dids : FollowedAt(e)') => Followed'
  BY FollowedByDid DEF Followed, FollowedAt, StoredInTurn, HandleFollowsPlc, On, Writes
<1>1. ASSUME NEW r \in Requests, StartCreate(r) PROVE Followed'
  BY <1>1, <1>a, CalmFollows DEF StartCreate, Writes, At, Become, Local, Idle
<1>2. ASSUME NEW r \in Requests, LookupReservation(r) PROVE Followed'
  BY <1>2, <1>a, CalmFollows DEF LookupReservation, Writes, At, Become, Local, Idle
<1>3. ASSUME NEW r \in Requests, InsertReservation(r) PROVE Followed'
  BY <1>3, <1>a, CalmFollows DEF InsertReservation, Writes, At, Become, Local, Idle
<1>4. ASSUME NEW r \in Requests, CheckAvailable(r) PROVE Followed'
  BY <1>4, <1>a, CalmFollows DEF CheckAvailable, Writes, At, Become, Local, Idle
<1>5. ASSUME NEW r \in Requests, TakeReservation(r) PROVE Followed'
  BY <1>5, <1>a, CalmFollows DEF TakeReservation, Writes, At, Become, Local, Idle
<1>6. ASSUME NEW r \in Requests, CheckHandle(r) PROVE Followed'
  BY <1>6, <1>a, CalmFollows DEF CheckHandle, Writes, At, Become, Local, Idle
<1>7. ASSUME NEW r \in Requests, FetchLastOp(r) PROVE Followed'
  BY <1>7, <1>a, CalmFollows DEF FetchLastOp, Writes, At, Become, Local, Idle
<1>8. ASSUME NEW r \in Requests, ReadForRefresh(r) PROVE Followed'
  BY <1>8, <1>a, CalmFollows DEF ReadForRefresh, Writes, At, Become, Local, Idle
<1>9. ASSUME NEW r \in Requests, EmitIdentity(r) PROVE Followed'
  BY <1>9, <1>a, CalmFollows DEF EmitIdentity, Writes, At, Become, Local, Idle
<1>10. ASSUME NEW r \in Requests, DeleteReservation(r) PROVE Followed'
  BY <1>10, <1>a, CalmFollows DEF DeleteReservation, Writes, At, Become, Local, Idle
<1>11. ASSUME NEW d \in Dids, ExpireReservation(d) PROVE Followed'
  BY <1>11, CalmFollows DEF ExpireReservation
<1>12. CASE UNCHANGED vars
  BY <1>12, CalmFollows DEF vars
<1>13. ASSUME NEW r \in Requests, SubmitGenesis(r) PROVE Followed'
  <2>1. PICK d \in Dids : d = req[r].did /\ Moves(r, "insert_minted", d) /\ ~Exists(d)
    BY <1>13, GotoMoves DEF SubmitGenesis, Places, MadeAlone, LocalsFit, At
  <2>2. UNCHANGED <<handle, key>> /\ ~Writes(req[r]) /\ ~Writes(req'[r])
    BY <1>13, <2>1 DEF SubmitGenesis, Writes, At, Moves
  <2>3. \A e \in Dids \ {d} : plc'[e] = plc[e] /\ (e \in torn' <=> e \in torn)
    BY <1>13, <2>1 DEF SubmitGenesis, Submitted, Mark, TypeOK
  <2>4. \A e \in Dids \ {d} : FollowedAt(e)'
    BY <1>a, <2>1, <2>2, <2>3, OtherDids DEF Moves
  <2>5. FollowedAt(d)'
    BY <2>1, <2>2 DEF FollowedAt, Exists
  <2> QED
    BY <1>b, <2>4, <2>5
<1>14. ASSUME NEW r \in Requests, SubmitUpdate(r) PROVE Followed'
  <2>1. PICK d \in Dids : d = req[r].did /\ Moves(r, "store", d) /\ req'[r].handle = req[r].handle
    BY <1>14, GotoMoves DEF SubmitUpdate, Places, LocalsFit, At
  <2>2. UNCHANGED <<handle, key>> /\ ~Writes(req[r]) /\ Writes(req'[r])
    BY <1>14, <2>1 DEF SubmitUpdate, Writes, At, Moves
  <2>3. \A e \in Dids \ {d} : plc'[e] = plc[e] /\ (e \in torn' <=> e \in torn)
    BY <1>14, <2>1 DEF SubmitUpdate, Submitted, Mark, TypeOK
  <2>4. \A e \in Dids \ {d} : FollowedAt(e)'
    BY <1>a, <2>1, <2>2, <2>3, OtherDids DEF Moves
  <2>5. plc'[d].handle = req[r].handle /\ (d \notin torn' /\ Exists(d) => ~Storing(r, d))
    BY <1>14, <2>1 DEF SubmitUpdate, Submitted, Mark, TypeOK
  <2>6. FollowedAt(d)'
    BY <2>1, <2>2, <2>5 DEF FollowedAt, Exists, Storing, Writes, Moves
  <2> QED
    BY <1>b, <2>4, <2>6
<1>15. ASSUME NEW r \in Requests, SubmitClientOp(r) PROVE Followed'
  <2>1. PICK d \in Dids, h \in Handles \cup {NoHandle} : \E k \in {0, key[d]} :
           /\ Exists(d) /\ Submitted(r, d, plc[d].cid, h, k)
           /\ Become(r, Local(IF h = NoHandle THEN "emit" ELSE "follow", d, h, 0, 0))
    BY <1>15 DEF SubmitClientOp
  <2>2. /\ \A q \in Requests \ {r} : req'[q] = req[q]
        /\ req'[r].did = d /\ req'[r].handle = h
        /\ ~Writes(req[r]) /\ (Writes(req'[r]) <=> h # NoHandle)
    BY <1>15, <1>a, <2>1 DEF Become, Local, SubmitClientOp, At, Writes
  <2>3. UNCHANGED <<handle, key>> /\ \A e \in Dids \ {d} : plc'[e] = plc[e] /\ (e \in torn' <=> e \in torn)
    BY <1>15, <2>1 DEF SubmitClientOp, Submitted, Mark, TypeOK
  <2>4. \A e \in Dids \ {d} : FollowedAt(e)'
    BY <1>a, <2>2, <2>3, OtherDids
  <2>5. plc'[d].handle = h /\ (d \notin torn' => ~Storing(r, d))
    BY <2>1 DEF Submitted, Mark, TypeOK
  <2>6. FollowedAt(d)'
    BY <2>2, <2>5 DEF FollowedAt, Exists, Storing, Writes
  <2> QED
    BY <1>b, <2>4, <2>6
<1>16. ASSUME NEW d \in Dids, OtherServer(d) PROVE Followed'
  <2>1. UNCHANGED <<handle, key, req>> /\ (Exists(d) => d \in torn')
    BY <1>16 DEF OtherServer, Spoil
  <2>2. \A e \in Dids \ {d} : plc'[e] = plc[e] /\ (e \in torn' <=> e \in torn)
    BY <1>16 DEF OtherServer, Spoil, TypeOK
  <2>3. \A e \in Dids \ {d} : FollowedAt(e)'
    BY <1>a, <2>1, <2>2 DEF FollowedAt, Exists, Storing, Writes
  <2>4. FollowedAt(d)'
    BY <2>1 DEF FollowedAt, Exists
  <2> QED
    BY <1>b, <2>3, <2>4
<1>17. ASSUME NEW r \in Requests, StoreHandle(r) PROVE Followed'
  <2>1. PICK d \in Dids : d = req[r].did /\ Moves(r, "emit", d) /\ Writes(req[r]) /\ ~Writes(req'[r])
    BY <1>17, GotoMoves DEF StoreHandle, Places, LocalsFit, At, Moves, Writes
  <2>2. UNCHANGED <<plc, key, torn>> /\ handle'[d] = req[r].handle
        /\ \A e \in Dids \ {d} : handle'[e] = handle[e]
    BY <1>17, <2>1 DEF StoreHandle, SetHandle, TypeOK
  <2>3. \A e \in Dids \ {d} : FollowedAt(e)'
    BY <1>a, <2>1, <2>2, OtherDids DEF Moves
  <2>4. FollowedAt(d)'
    BY <1>a, <2>1, <2>2 DEF FollowedAt, Exists, Storing, Writes, Moves
  <2> QED
    BY <1>b, <2>3, <2>4
<1>18. ASSUME NEW r \in Requests, FollowHandle(r) PROVE Followed'
  <2>1. PICK d \in Dids : d = req[r].did /\ Moves(r, "emit", d) /\ Writes(req[r]) /\ ~Writes(req'[r])
    BY <1>18, GotoMoves DEF FollowHandle, Places, LocalsFit, At, Moves, Writes
  <2>2. /\ UNCHANGED <<plc, key>>
        /\ handle'[d] = req[r].handle \/ (Exists(d) => d \in torn')
        /\ \A e \in Dids \ {d} : handle'[e] = handle[e] /\ (e \in torn' <=> e \in torn)
        /\ d \in torn => d \in torn'
    BY <1>18, <2>1 DEF FollowHandle, SetHandle, Spoil, TypeOK
  <2>3. \A e \in Dids \ {d} : FollowedAt(e)'
    BY <1>a, <2>1, <2>2, OtherDids DEF Moves
  <2>4. FollowedAt(d)'
    BY <1>a, <2>1, <2>2 DEF FollowedAt, Exists, Storing, Writes, Moves
  <2> QED
    BY <1>b, <2>3, <2>4
<1>19. ASSUME NEW r \in Requests, GiveUp(r) PROVE Followed'
  <2>1. PICK d \in Dids : d = req[r].did /\ Moves(r, "idle", NoDid) /\ ~Writes(req'[r])
    BY <1>19, IdleType, BecomeMoves DEF GiveUp, LocalsFit, At, Moves, Writes
  <2>2. /\ UNCHANGED <<plc, handle, key>>
        /\ Writes(req[r]) /\ Exists(d) => d \in torn'
        /\ ~Writes(req[r]) => torn' = torn
        /\ \A e \in Dids \ {d} : e \in torn' <=> e \in torn
    BY <1>19, <2>1 DEF GiveUp, Spoil, Writes, TypeOK
  <2>3. \A e \in Dids \ {d} : FollowedAt(e)'
    BY <1>a, <2>1, <2>2, OtherDids DEF Moves
  <2>4. FollowedAt(d)'
    BY <1>a, <2>1, <2>2 DEF FollowedAt, Exists, Storing, Writes, Moves
  <2> QED
    BY <1>b, <2>3, <2>4
<1>20. ASSUME NEW r \in Requests, InsertMinted(r) \/ InsertMigrated(r) PROVE Followed'
  <2>1. PICK d \in Dids : d = req[r].did /\ Moves(r, "idle", NoDid) /\ ~Writes(req[r]) /\ ~Writes(req'[r])
    BY <1>20, IdleType, BecomeMoves DEF InsertMinted, InsertMigrated, LocalsFit, At, Moves, Writes
  <2>2. plc' = plc /\ Registered(r, d, req[r].handle, req[r].key)
    BY <1>20, <2>1 DEF InsertMinted, InsertMigrated
  <2>3. /\ handle'[d] = req[r].handle
        /\ d \notin torn' => ~Storing(r, d) /\ plc[d].handle \in {NoHandle, req[r].handle}
        /\ \A e \in Dids \ {d} : handle'[e] = handle[e] /\ key'[e] = key[e] /\ (e \in torn' <=> e \in torn)
    BY <2>1, <2>2 DEF Registered, Mark, TypeOK
  <2>4. \A e \in Dids \ {d} : FollowedAt(e)'
    BY <1>a, <2>1, <2>2, <2>3, OtherDids DEF Moves
  <2>5. FollowedAt(d)'
    BY <2>1, <2>2, <2>3 DEF FollowedAt, Exists, Storing, Writes, Moves
  <2> QED
    BY <1>b, <2>4, <2>5
<1>21. ASSUME NEW r \in Requests, DeleteRow(r) PROVE Followed'
  <2>1. PICK d \in Dids : d = req[r].did /\ Moves(r, "idle", NoDid) /\ ~Writes(req[r]) /\ ~Writes(req'[r])
    BY <1>21, IdleType, BecomeMoves DEF DeleteRow, LocalsFit, At, Moves, Writes
  <2>2. /\ plc' = plc /\ key'[d] = 0
        /\ \A e \in Dids \ {d} : handle'[e] = handle[e] /\ key'[e] = key[e] /\ (e \in torn' <=> e \in torn)
    BY <1>21, <2>1 DEF DeleteRow, TypeOK
  <2>3. \A e \in Dids \ {d} : FollowedAt(e)'
    BY <1>a, <2>1, <2>2, OtherDids DEF Moves
  <2>4. FollowedAt(d)'
    BY <2>2, <2>1 DEF FollowedAt, Exists
  <2> QED
    BY <1>b, <2>3, <2>4
<1> QED
  BY <1>1, <1>2, <1>3, <1>4, <1>5, <1>6, <1>7, <1>8, <1>9, <1>10, <1>11, <1>12, <1>13, <1>14, <1>15, <1>16, <1>17, <1>18, <1>19, <1>20, <1>21 DEF Next

-----------------------------------------------------------------------------
(* Rows and events *)

Announced == EmittedInTurn /\ SaidOfAccounts /\ IdentityIsAnnounced
Sends(local) == local.at \in {"store", "follow", "emit"}
Emits(local) == local.at \in {"store", "follow", "emit", "emit_again"}

\* The conditions of one DID.
AnnouncedAt(d) ==
    /\ ~Exists(d) => said[d] = NoHandle
    /\ d \notin muddled /\ Exists(d) =>
        /\ \A r \in Requests : Sends(req[r]) /\ req[r].did = d => ~Emitting(r, d)
        /\ \A r \in Requests : req[r].at \in {"emit", "emit_again"} /\ req[r].did = d =>
              req[r].handle \in {NoHandle, handle[d]}
        /\ (\A r \in Requests : ~(Sends(req[r]) /\ req[r].did = d)) =>
              said[d] \in {NoHandle, handle[d]}

\* The three invariants, one DID at a time, now and after a step.
LEMMA AnnouncedByDid ==
    /\ Announced <=> \A d \in Dids : AnnouncedAt(d)
    /\ Announced' <=> \A d \in Dids : AnnouncedAt(d)'
BY DEF Announced, AnnouncedAt, EmittedInTurn, SaidOfAccounts, IdentityIsAnnounced, On, Sends

\* A step of r with the DID d leaves every other DID alone.
LEMMA OtherAnnounced ==
    ASSUME NEW r \in Requests, NEW d, NEW e \in Dids, e # d, AnnouncedAt(e),
           \A q \in Requests \ {r} : req'[q] = req[q],
           Emits(req[r]) => req[r].did = d, Emits(req'[r]) => req'[r].did = d,
           e \in muddled' <=> e \in muddled,
           said'[e] = said[e], handle'[e] = handle[e], key'[e] = key[e]
    PROVE  AnnouncedAt(e)'
BY DEF AnnouncedAt, Emits, Sends, Emitting, Exists

\* A step that touches neither rows nor events nor who is about to.
LEMMA CalmAnnounced ==
    ASSUME Announced, UNCHANGED <<handle, key, said, muddled>>,
           \A q \in Requests : req'[q] = req[q] \/ (~Emits(req'[q]) /\ ~Emits(req[q]))
    PROVE  Announced'
<1>1. said' = said /\ handle' = handle /\ key' = key /\ muddled' = muddled
  OBVIOUS
<1>2. ASSUME NEW d \in Dids, AnnouncedAt(d) PROVE AnnouncedAt(d)'
  BY <1>1, <1>2 DEF AnnouncedAt, Emits, Sends, Emitting, Exists
<1> QED
  BY <1>2, AnnouncedByDid

\* At first row and events agree.
LEMMA AnnouncedInit == Init => Announced
BY DEF Init, Announced, EmittedInTurn, SaidOfAccounts, IdentityIsAnnounced, Exists

\* Whoever has an announcement to make has the one that is due.
LEMMA AnnouncedStep ==
    TypeOK /\ LocalsFit /\ MadeAlone /\ Announced /\ [Next]_vars => Announced'
<1> SUFFICES ASSUME TypeOK, LocalsFit, MadeAlone, Announced, [Next]_vars PROVE Announced'
  OBVIOUS
<1>a. req \in [Requests -> Locals] /\ \A e \in Dids : AnnouncedAt(e)
  BY AnnouncedByDid DEF TypeOK
<1>b. (\A e \in Dids : AnnouncedAt(e)') => Announced'
  BY AnnouncedByDid
<1>1. ASSUME NEW r \in Requests, StartCreate(r) PROVE Announced'
  BY <1>1, <1>a, CalmAnnounced DEF StartCreate, Emits, At, Become, Local, Idle
<1>2. ASSUME NEW r \in Requests, LookupReservation(r) PROVE Announced'
  BY <1>2, <1>a, CalmAnnounced DEF LookupReservation, Emits, At, Become, Local, Idle
<1>3. ASSUME NEW r \in Requests, InsertReservation(r) PROVE Announced'
  BY <1>3, <1>a, CalmAnnounced DEF InsertReservation, Emits, At, Become, Local, Idle
<1>4. ASSUME NEW r \in Requests, CheckAvailable(r) PROVE Announced'
  BY <1>4, <1>a, CalmAnnounced DEF CheckAvailable, Emits, At, Become, Local, Idle
<1>5. ASSUME NEW r \in Requests, TakeReservation(r) PROVE Announced'
  BY <1>5, <1>a, CalmAnnounced DEF TakeReservation, Emits, At, Become, Local, Idle
<1>6. ASSUME NEW r \in Requests, CheckHandle(r) PROVE Announced'
  BY <1>6, <1>a, CalmAnnounced DEF CheckHandle, Emits, At, Become, Local, Idle
<1>7. ASSUME NEW r \in Requests, FetchLastOp(r) PROVE Announced'
  BY <1>7, <1>a, CalmAnnounced DEF FetchLastOp, Emits, At, Become, Local, Idle
<1>8. ASSUME NEW r \in Requests, DeleteReservation(r) PROVE Announced'
  BY <1>8, <1>a, CalmAnnounced DEF DeleteReservation, Emits, At, Become, Local, Idle
<1>9. ASSUME NEW d \in Dids, ExpireReservation(d) \/ OtherServer(d) PROVE Announced'
  BY <1>9, CalmAnnounced DEF ExpireReservation, OtherServer
<1>10. CASE UNCHANGED vars
  BY <1>10, CalmAnnounced DEF vars
<1>11. ASSUME NEW r \in Requests, SubmitGenesis(r) PROVE Announced'
  <2>1. PICK d \in Dids : d = req[r].did /\ Moves(r, "insert_minted", d) /\ ~Exists(d)
    BY <1>11, GotoMoves DEF SubmitGenesis, Places, MadeAlone, LocalsFit, At
  <2>2. /\ UNCHANGED <<handle, key, said>> /\ ~Emits(req[r]) /\ ~Emits(req'[r])
        /\ \A e \in Dids \ {d} : e \in muddled' <=> e \in muddled
    BY <1>11, <2>1 DEF SubmitGenesis, Submitted, Mark, TypeOK, Emits, At, Moves
  <2>3. \A e \in Dids \ {d} : AnnouncedAt(e)'
    BY <1>a, <2>1, <2>2, OtherAnnounced DEF Moves, Emits, Sends
  <2>4. AnnouncedAt(d)'
    BY <1>a, <2>1, <2>2 DEF AnnouncedAt, Exists, Emitting, Emits, Sends, Moves
  <2> QED
    BY <1>b, <2>3, <2>4
<1>12. ASSUME NEW r \in Requests, SubmitUpdate(r) PROVE Announced'
  <2>1. PICK d \in Dids : d = req[r].did /\ Moves(r, "store", d)
    BY <1>12, GotoMoves DEF SubmitUpdate, Places, LocalsFit, At
  <2>2. /\ UNCHANGED <<handle, key, said>> /\ ~Emits(req[r])
        /\ d \notin muddled' /\ Exists(d) => ~Emitting(r, d)
        /\ \A e \in Dids \ {d} : e \in muddled' <=> e \in muddled
    BY <1>12, <2>1 DEF SubmitUpdate, Submitted, Mark, TypeOK, Emits, At
  <2>3. \A e \in Dids \ {d} : AnnouncedAt(e)'
    BY <1>a, <2>1, <2>2, OtherAnnounced DEF Moves, Emits, Sends
  <2>4. AnnouncedAt(d)'
    BY <1>a, <2>1, <2>2 DEF AnnouncedAt, Exists, Emitting, Emits, Sends, Moves
  <2> QED
    BY <1>b, <2>3, <2>4
<1>13. ASSUME NEW r \in Requests, SubmitClientOp(r) PROVE Announced'
  <2>1. PICK d \in Dids, h \in Handles \cup {NoHandle} : \E k \in {0, key[d]} :
           /\ Exists(d) /\ Submitted(r, d, plc[d].cid, h, k)
           /\ Become(r, Local(IF h = NoHandle THEN "emit" ELSE "follow", d, h, 0, 0))
    BY <1>13 DEF SubmitClientOp
  <2>2. /\ \A q \in Requests \ {r} : req'[q] = req[q]
        /\ req'[r].did = d /\ req'[r].handle = h /\ ~Emits(req[r])
        /\ \/ req'[r].at = "follow"
           \/ req'[r].at = "emit" /\ h = NoHandle
    BY <1>13, <1>a, <2>1 DEF Become, Local, SubmitClientOp, At, Emits
  <2>3. /\ UNCHANGED <<handle, key, said>>
        /\ d \notin muddled' => ~Emitting(r, d)
        /\ \A e \in Dids \ {d} : e \in muddled' <=> e \in muddled
    BY <1>13, <2>1 DEF SubmitClientOp, Submitted, Mark, TypeOK
  <2>4. \A e \in Dids \ {d} : AnnouncedAt(e)'
    BY <1>a, <2>2, <2>3, OtherAnnounced DEF Emits
  <2>5. Exists(d) /\ Exists(d)'
    BY <2>1, <2>3 DEF Exists
  <2>6. AnnouncedAt(d)'
    BY <2>2, <2>3, <2>5 DEF AnnouncedAt, Emitting, Emits, Sends
  <2> QED
    BY <1>b, <2>4, <2>6
<1>14. ASSUME NEW r \in Requests, StoreHandle(r) PROVE Announced'
  <2>1. PICK d \in Dids : d = req[r].did /\ Moves(r, "emit", d) /\ req[r].at = "store" /\ req'[r].handle = req[r].handle
    BY <1>14, GotoMoves DEF StoreHandle, Places, LocalsFit, At, Moves
  <2>2. /\ UNCHANGED <<said, key, muddled>> /\ handle'[d] = req[r].handle
        /\ \A e \in Dids \ {d} : handle'[e] = handle[e]
    BY <1>14, <2>1 DEF StoreHandle, SetHandle, TypeOK
  <2>3. \A e \in Dids \ {d} : AnnouncedAt(e)'
    BY <1>a, <2>1, <2>2, OtherAnnounced DEF Moves, Emits, Sends
  <2>4. AnnouncedAt(d)'
    BY <1>a, <2>1, <2>2 DEF AnnouncedAt, Exists, Emitting, Emits, Sends, Moves
  <2> QED
    BY <1>b, <2>3, <2>4
<1>15. ASSUME NEW r \in Requests, FollowHandle(r) PROVE Announced'
  <2>1. PICK d \in Dids : d = req[r].did /\ Moves(r, "emit", d) /\ req[r].at = "follow" /\ req'[r].handle = req[r].handle
    BY <1>15, GotoMoves DEF FollowHandle, Places, LocalsFit, At, Moves
  <2>2. /\ UNCHANGED <<said, key>>
        /\ handle'[d] = req[r].handle \/ (Exists(d) => d \in muddled')
        /\ \A e \in Dids \ {d} : handle'[e] = handle[e] /\ (e \in muddled' <=> e \in muddled)
        /\ d \in muddled => d \in muddled'
    BY <1>15, <2>1 DEF FollowHandle, SetHandle, Spoil, TypeOK
  <2>3. \A e \in Dids \ {d} : AnnouncedAt(e)'
    BY <1>a, <2>1, <2>2, OtherAnnounced DEF Moves, Emits, Sends
  <2>4. AnnouncedAt(d)'
    BY <1>a, <2>1, <2>2 DEF AnnouncedAt, Exists, Emitting, Emits, Sends, Moves
  <2> QED
    BY <1>b, <2>3, <2>4
<1>16. ASSUME NEW r \in Requests, GiveUp(r) PROVE Announced'
  <2>1. PICK d \in Dids : d = req[r].did /\ Moves(r, "idle", NoDid)
    BY <1>16, IdleType, BecomeMoves DEF GiveUp, LocalsFit, At, Moves
  <2>2. /\ UNCHANGED <<said, handle, key>>
        /\ Sends(req[r]) /\ Exists(d) => d \in muddled'
        /\ ~Sends(req[r]) => muddled' = muddled
        /\ \A e \in Dids \ {d} : e \in muddled' <=> e \in muddled
    BY <1>16, <2>1 DEF GiveUp, Spoil, Sends, TypeOK
  <2>3. \A e \in Dids \ {d} : AnnouncedAt(e)'
    BY <1>a, <2>1, <2>2, OtherAnnounced DEF Moves, Emits, Sends
  <2>4. AnnouncedAt(d)'
    BY <1>a, <2>1, <2>2 DEF AnnouncedAt, Exists, Emitting, Emits, Sends, Moves
  <2> QED
    BY <1>b, <2>3, <2>4
<1>17. ASSUME NEW r \in Requests, InsertMinted(r) \/ InsertMigrated(r) PROVE Announced'
  <2>1. PICK d \in Dids : d = req[r].did /\ Moves(r, "idle", NoDid) /\ ~Emits(req[r])
    BY <1>17, IdleType, BecomeMoves DEF InsertMinted, InsertMigrated, LocalsFit, At, Moves, Emits
  <2>2. said' = said /\ Registered(r, d, req[r].handle, req[r].key)
    BY <1>17, <2>1 DEF InsertMinted, InsertMigrated
  <2>5. /\ ~Exists(d)
        /\ d \notin muddled' => ~Emitting(r, d)
        /\ \A e \in Dids \ {d} : handle'[e] = handle[e] /\ key'[e] = key[e] /\ (e \in muddled' <=> e \in muddled)
    BY <2>1, <2>2 DEF Registered, Mark, TypeOK
  <2>3. \A e \in Dids \ {d} : AnnouncedAt(e)'
    BY <1>a, <2>1, <2>2, <2>5, OtherAnnounced DEF Moves, Emits, Sends
  <2>4. AnnouncedAt(d)'
    BY <1>a, <2>1, <2>2, <2>5 DEF AnnouncedAt, Exists, Emitting, Emits, Sends, Moves
  <2> QED
    BY <1>b, <2>3, <2>4
<1>18. ASSUME NEW r \in Requests, DeleteRow(r) PROVE Announced'
  <2>1. PICK d \in Dids : d = req[r].did /\ Moves(r, "idle", NoDid) /\ ~Emits(req[r])
    BY <1>18, IdleType, BecomeMoves DEF DeleteRow, LocalsFit, At, Moves, Emits
  <2>2. /\ key'[d] = 0 /\ said'[d] = NoHandle
        /\ \A e \in Dids \ {d} : handle'[e] = handle[e] /\ key'[e] = key[e] /\ said'[e] = said[e] /\ (e \in muddled' <=> e \in muddled)
    BY <1>18, <2>1 DEF DeleteRow, TypeOK
  <2>3. \A e \in Dids \ {d} : AnnouncedAt(e)'
    BY <1>a, <2>1, <2>2, OtherAnnounced DEF Moves, Emits, Sends
  <2>4. AnnouncedAt(d)'
    BY <1>a, <2>1, <2>2 DEF AnnouncedAt, Exists, Emitting, Emits, Sends, Moves
  <2> QED
    BY <1>b, <2>3, <2>4
<1>19. ASSUME NEW r \in Requests, EmitIdentity(r) PROVE Announced'
  <2>1. PICK d \in Dids : d = req[r].did /\ Moves(r, "idle", NoDid) /\ req[r].at \in {"emit", "emit_again"}
    BY <1>19, IdleType, BecomeMoves DEF EmitIdentity, LocalsFit, At, Moves
  <2>2. /\ UNCHANGED <<handle, key, muddled>>
        /\ Exists(d) => said'[d] = req[r].handle
        /\ ~Exists(d) => said'[d] = said[d]
        /\ \A e \in Dids \ {d} : said'[e] = said[e]
    BY <1>19, <2>1 DEF EmitIdentity, TypeOK
  <2>3. \A e \in Dids \ {d} : AnnouncedAt(e)'
    BY <1>a, <2>1, <2>2, OtherAnnounced DEF Moves, Emits, Sends
  <2>4. AnnouncedAt(d)'
    BY <1>a, <2>1, <2>2 DEF AnnouncedAt, Exists, Emitting, Emits, Sends, Moves
  <2> QED
    BY <1>b, <2>3, <2>4
<1>20. ASSUME NEW r \in Requests, ReadForRefresh(r) PROVE Announced'
  <2>1. PICK d \in Dids :
           /\ Become(r, Local("emit_again", d, handle[d], 0, 0))
           /\ muddled' = IF \E q \in Requests \ {r} : req[q].did = d /\ Sends(req[q])
                         THEN muddled \cup {d} ELSE muddled
    BY <1>20 DEF ReadForRefresh, Sends
  <2>2. /\ \A q \in Requests \ {r} : req'[q] = req[q]
        /\ req'[r].did = d /\ req'[r].handle = handle[d] /\ ~Emits(req[r])
        /\ req'[r].at = "emit_again"
    BY <1>20, <1>a, <2>1 DEF Become, Local, ReadForRefresh, At, Emits
  <2>3. /\ UNCHANGED <<handle, key, said>>
        /\ d \notin muddled' => d \notin muddled /\ \A q \in Requests : ~(req[q].did = d /\ Sends(req[q]))
        /\ \A e \in Dids \ {d} : e \in muddled' <=> e \in muddled
    BY <1>20, <2>1, <2>2 DEF ReadForRefresh, Sends, Emits, TypeOK
  <2>4. \A e \in Dids \ {d} : AnnouncedAt(e)'
    BY <1>a, <2>2, <2>3, OtherAnnounced DEF Emits
  <2>5. Exists(d) <=> Exists(d)'
    BY <2>3 DEF Exists
  <2>6. AnnouncedAt(d)'
    BY <1>a, <2>2, <2>3, <2>5 DEF AnnouncedAt, Emitting, Emits, Sends
  <2> QED
    BY <1>b, <2>4, <2>6
<1> QED
  BY <1>1, <1>2, <1>3, <1>4, <1>5, <1>6, <1>7, <1>8, <1>9, <1>10, <1>11, <1>12, <1>13, <1>14, <1>15, <1>16, <1>17, <1>18, <1>19, <1>20 DEF Next

-----------------------------------------------------------------------------
(* Reservations *)

Promised == ReservedInTurn /\ ReservedKeyIsUsed

\* The conditions of one DID.
PromisedAt(d) ==
    d \notin raced =>
        /\ told[d] \subseteq {reserved[d]}
        /\ \A r \in Requests : req[r].at = "insert" /\ req[r].did = d => told[d] \subseteq {req[r].key}
        /\ \A r \in Requests : req[r].at = "reserve" /\ req[r].did = d => reserved[d] = 0
        /\ Exists(d) => told[d] \subseteq {key[d]}

\* The two invariants, one DID at a time, now and after a step.
LEMMA PromisedByDid ==
    /\ Promised <=> \A d \in Dids : PromisedAt(d)
    /\ Promised' <=> \A d \in Dids : PromisedAt(d)'
BY DEF Promised, PromisedAt, ReservedInTurn, ReservedKeyIsUsed, On

\* A step of r with the DID d leaves every other DID alone.
LEMMA OtherPromised ==
    ASSUME NEW r \in Requests, NEW d, NEW e \in Dids, e # d, PromisedAt(e),
           \A q \in Requests \ {r} : req'[q] = req[q],
           req'[r] = req[r] \/ req'[r].at \in {"reserve", "insert"} => req'[r].did = d \/ req'[r] = req[r],
           e \in raced' <=> e \in raced,
           told'[e] = told[e], reserved'[e] = reserved[e], key'[e] = key[e]
    PROVE  PromisedAt(e)'
BY DEF PromisedAt, Exists

\* A step that gives out no key and uses none.
LEMMA CalmPromised ==
    ASSUME Promised, UNCHANGED <<reserved, told, key, raced>>,
           \A q \in Requests : req'[q] = req[q] \/ req'[q].at \notin {"reserve", "insert"}
    PROVE  Promised'
<1>1. reserved' = reserved /\ told' = told /\ key' = key /\ raced' = raced
  OBVIOUS
<1>2. ASSUME NEW d \in Dids, PromisedAt(d) PROVE PromisedAt(d)'
  BY <1>1, <1>2 DEF PromisedAt, Exists
<1> QED
  BY <1>2, PromisedByDid

\* At first no key is reserved.
LEMMA PromisedInit == Init => Promised
BY DEF Init, Promised, ReservedInTurn, ReservedKeyIsUsed, Idle, Local, On

\* Every key given out is the one reserved, taken or stored, unless raced for.
LEMMA PromisedStep ==
    TypeOK /\ LocalsFit /\ MadeAlone /\ Promised /\ [Next]_vars => Promised'
<1> SUFFICES ASSUME TypeOK, LocalsFit, MadeAlone, Promised, [Next]_vars PROVE Promised'
  OBVIOUS
<1>a. /\ req \in [Requests -> Locals] /\ \A e \in Dids : PromisedAt(e)
      /\ \A e \in Dids : reserved[e] \in Nat /\ 0 \notin told[e]
      /\ nextKey # 0
  BY PromisedByDid DEF TypeOK
<1>b. (\A e \in Dids : PromisedAt(e)') => Promised'
  BY PromisedByDid
<1>1. ASSUME NEW r \in Requests, StartCreate(r) PROVE Promised'
  BY <1>1, <1>a, CalmPromised DEF StartCreate, At, Become, Local, Idle
<1>2. ASSUME NEW r \in Requests, SubmitGenesis(r) PROVE Promised'
  BY <1>2, <1>a, CalmPromised DEF SubmitGenesis, At, Become, Local, Idle, Goto
<1>3. ASSUME NEW r \in Requests, CheckAvailable(r) PROVE Promised'
  BY <1>3, <1>a, CalmPromised DEF CheckAvailable, At, Become, Local, Idle
<1>4. ASSUME NEW r \in Requests, CheckHandle(r) PROVE Promised'
  BY <1>4, <1>a, CalmPromised DEF CheckHandle, At, Become, Local, Idle
<1>5. ASSUME NEW r \in Requests, FetchLastOp(r) PROVE Promised'
  BY <1>5, <1>a, CalmPromised DEF FetchLastOp, At, Become, Local, Idle
<1>6. ASSUME NEW r \in Requests, SubmitUpdate(r) PROVE Promised'
  BY <1>6, <1>a, CalmPromised DEF SubmitUpdate, At, Become, Local, Idle, Goto
<1>7. ASSUME NEW r \in Requests, StoreHandle(r) PROVE Promised'
  BY <1>7, <1>a, CalmPromised DEF StoreHandle, At, Become, Local, Idle, Goto
<1>8. ASSUME NEW r \in Requests, SubmitClientOp(r) PROVE Promised'
  BY <1>8, <1>a, CalmPromised DEF SubmitClientOp, At, Become, Local, Idle
<1>9. ASSUME NEW r \in Requests, FollowHandle(r) PROVE Promised'
  BY <1>9, <1>a, CalmPromised DEF FollowHandle, At, Become, Local, Idle, Goto
<1>10. ASSUME NEW r \in Requests, ReadForRefresh(r) PROVE Promised'
  BY <1>10, <1>a, CalmPromised DEF ReadForRefresh, At, Become, Local, Idle
<1>11. ASSUME NEW r \in Requests, EmitIdentity(r) PROVE Promised'
  BY <1>11, <1>a, CalmPromised DEF EmitIdentity, At, Become, Local, Idle
<1>12. ASSUME NEW r \in Requests, GiveUp(r) PROVE Promised'
  BY <1>12, <1>a, CalmPromised DEF GiveUp, At, Become, Local, Idle
<1>13. ASSUME NEW d \in Dids, OtherServer(d) PROVE Promised'
  BY <1>13, CalmPromised DEF OtherServer
<1>14. CASE UNCHANGED vars
  BY <1>14, CalmPromised DEF vars
<1>15. ASSUME NEW d \in Dids, ExpireReservation(d) PROVE Promised'
  <2>1. /\ UNCHANGED <<req, key>> /\ told'[d] = {} /\ reserved'[d] = 0
        /\ \A e \in Dids \ {d} : told'[e] = told[e] /\ reserved'[e] = reserved[e] /\ (e \in raced' <=> e \in raced)
    BY <1>15 DEF ExpireReservation, TypeOK
  <2>2. ASSUME NEW e \in Dids PROVE PromisedAt(e)'
    BY <1>a, <2>1 DEF PromisedAt, Exists
  <2> QED
    BY <1>b, <2>2
<1>16. ASSUME NEW r \in Requests, DeleteReservation(r) PROVE Promised'
  <2>1. PICK d \in Dids :
           /\ reserved' = [reserved EXCEPT ![d] = 0] /\ told' = [told EXCEPT ![d] = {}]
           /\ raced' = raced \ {d} /\ Become(r, Local("delete_row", d, NoHandle, 0, 0))
    BY <1>16 DEF DeleteReservation
  <2>2. /\ key' = key /\ told'[d] = {} /\ reserved'[d] = 0
        /\ \A e \in Dids \ {d} : told'[e] = told[e] /\ reserved'[e] = reserved[e] /\ (e \in raced' <=> e \in raced)
    BY <1>16, <2>1 DEF DeleteReservation, TypeOK
  <2>3. \A q \in Requests : req'[q] = req[q] \/ req'[q].at = "delete_row"
    BY <1>a, <2>1 DEF Become, Local
  <2>4. ASSUME NEW e \in Dids PROVE PromisedAt(e)'
    BY <1>a, <2>2, <2>3 DEF PromisedAt, Exists
  <2> QED
    BY <1>b, <2>4
<1>17. ASSUME NEW r \in Requests, DeleteRow(r) PROVE Promised'
  <2>1. PICK d \in Dids : d = req[r].did /\ Moves(r, "idle", NoDid)
    BY <1>17, IdleType, BecomeMoves DEF DeleteRow, LocalsFit, At
  <2>2. /\ UNCHANGED <<told, reserved, raced>> /\ key'[d] = 0
        /\ \A e \in Dids \ {d} : key'[e] = key[e]
    BY <1>17, <2>1 DEF DeleteRow, TypeOK
  <2>3. ASSUME NEW e \in Dids PROVE PromisedAt(e)'
    BY <1>a, <2>1, <2>2 DEF PromisedAt, Exists, Moves
  <2> QED
    BY <1>b, <2>3
<1>18. ASSUME NEW r \in Requests, InsertMinted(r) \/ InsertMigrated(r) PROVE Promised'
  <2>1. PICK d \in Dids : d = req[r].did /\ Moves(r, "idle", NoDid)
    BY <1>18, IdleType, BecomeMoves DEF InsertMinted, InsertMigrated, LocalsFit, At
  <2>2. /\ UNCHANGED <<told, reserved, raced>> /\ key'[d] = req[r].key
        /\ \A e \in Dids \ {d} : key'[e] = key[e]
    BY <1>18, <2>1 DEF InsertMinted, InsertMigrated, Registered, TypeOK
  <2>3. d \notin raced => told[d] \subseteq {req[r].key}
    BY <1>18, <1>a, <2>1 DEF InsertMinted, InsertMigrated, MadeAlone, PromisedAt, At
  <2>4. ASSUME NEW e \in Dids PROVE PromisedAt(e)'
    BY <1>a, <2>1, <2>2, <2>3 DEF PromisedAt, Exists, Moves
  <2> QED
    BY <1>b, <2>4
<1>19. ASSUME NEW r \in Requests, TakeReservation(r) PROVE Promised'
  <2>1. UNCHANGED <<told, reserved, raced, key>>
    BY <1>19 DEF TakeReservation
  <2>2. PICK d \in Dids, k \in Nat : /\ k = reserved[d] \/ reserved[d] = 0
                                     /\ Become(r, Local("insert", d, req[r].handle, k, 0))
    BY <1>19 DEF TakeReservation, LocalsFit, TypeOK, At
  <2>3. /\ \A q \in Requests \ {r} : req'[q] = req[q]
        /\ req'[r].at = "insert" /\ req'[r].did = d /\ req'[r].key = k
    BY <1>a, <2>2 DEF Become, Local
  <2>4. d \notin raced => told[d] \subseteq {k}
    BY <1>a, <2>2 DEF PromisedAt
  <2>5. ASSUME NEW e \in Dids PROVE PromisedAt(e)'
    BY <1>a, <2>1, <2>3, <2>4 DEF PromisedAt, Exists
  <2> QED
    BY <1>b, <2>5
<1>20. ASSUME NEW r \in Requests, LookupReservation(r) PROVE Promised'
  <2>1. PICK d \in Dids :
           IF reserved[d] # 0 THEN Answer(r, d, reserved[d]) /\ UNCHANGED req
           ELSE Become(r, Local("reserve", d, NoHandle, 0, 0)) /\ UNCHANGED <<told, raced>>
    BY <1>20 DEF LookupReservation
  <2>2. UNCHANGED <<reserved, key>>
    BY <1>20 DEF LookupReservation
  <2>3. CASE reserved[d] # 0
    <3>1. UNCHANGED req /\ Answer(r, d, reserved[d]) /\ req[r].at = "idle"
      BY <1>20, <2>1, <2>3 DEF LookupReservation, At
    <3>2. /\ told'[d] \subseteq told[d] \cup {reserved[d]} /\ (Exists(d) => told'[d] = told[d])
          /\ d \notin raced' => d \notin raced /\ \A q \in Requests : ~(req[q].did = d /\ req[q].at = "insert" /\ req[q].key # reserved[d])
          /\ \A e \in Dids \ {d} : told'[e] = told[e] /\ (e \in raced' <=> e \in raced)
      BY <3>1 DEF Answer, RacedBy, At, TypeOK
    <3>3. ASSUME NEW e \in Dids PROVE PromisedAt(e)'
      BY <1>a, <2>2, <2>3, <3>1, <3>2 DEF PromisedAt, Exists
    <3> QED
      BY <1>b, <3>3
  <2>4. CASE reserved[d] = 0
    <3>1. /\ \A q \in Requests \ {r} : req'[q] = req[q]
          /\ req'[r].at = "reserve" /\ req'[r].did = d
      BY <1>a, <2>1, <2>4 DEF Become, Local
    <3>2. UNCHANGED <<told, raced>>
      BY <2>1, <2>4
    <3>3. ASSUME NEW e \in Dids PROVE PromisedAt(e)'
      BY <1>a, <2>2, <2>4, <3>1, <3>2 DEF PromisedAt, Exists
    <3> QED
      BY <1>b, <3>3
  <2> QED
    BY <2>3, <2>4
<1>21. ASSUME NEW r \in Requests, InsertReservation(r) PROVE Promised'
  <2>1. PICK d \in Dids : d = req[r].did /\ req[r].at = "reserve" /\ Moves(r, "idle", NoDid)
    BY <1>21, IdleType, BecomeMoves DEF InsertReservation, LocalsFit, At
  <2>2. /\ key' = key /\ (reserved[d] = 0 => reserved'[d] = nextKey)
        /\ \A e \in Dids \ {d} : reserved'[e] = reserved[e]
    BY <1>21, <2>1 DEF InsertReservation, TypeOK
  <2>3. /\ told'[d] \subseteq told[d] \cup {nextKey} /\ (Exists(d) => told'[d] = told[d])
        /\ d \notin raced' => d \notin raced /\ \A q \in Requests \ {r} :
              req[q].did = d => req[q].at # "reserve" /\ (req[q].at = "insert" => req[q].key = nextKey)
        /\ \A e \in Dids \ {d} : told'[e] = told[e] /\ (e \in raced' <=> e \in raced)
    BY <1>21, <2>1 DEF InsertReservation, Answer, RacedBy, At, TypeOK
  <2>4. d \notin raced => reserved[d] = 0 /\ told[d] = {}
    BY <1>a, <2>1 DEF PromisedAt
  <2>5. ASSUME NEW e \in Dids PROVE PromisedAt(e)'
    BY <1>a, <2>1, <2>2, <2>3, <2>4 DEF PromisedAt, Exists, Moves
  <2> QED
    BY <1>b, <2>5
<1> QED
  BY <1>1, <1>2, <1>3, <1>4, <1>5, <1>6, <1>7, <1>8, <1>9, <1>10, <1>11, <1>12, <1>13, <1>14, <1>15, <1>16, <1>17, <1>18, <1>19, <1>20, <1>21 DEF Next

-----------------------------------------------------------------------------
(* The theorems *)

\* Every reachable state satisfies the inductive invariant.
THEOREM Invariance == Spec => []IInv
<1>1. Init => IInv
  BY TypeInit, LocalsInit, MadeInit, UniqueInit, FollowedInit, AnnouncedInit, PromisedInit
     DEF IInv, Followed, Announced, Promised
<1>2. IInv /\ [Next]_vars => IInv'
  <2> SUFFICES ASSUME IInv, [Next]_vars PROVE IInv'
    OBVIOUS
  <2>1. TypeOK /\ LocalsFit /\ MadeAlone /\ UnknownIsUnused /\ HandlesAreUnique
        /\ Followed /\ Announced /\ Promised
    BY DEF IInv, Followed, Announced, Promised
  <2>2. TypeOK' /\ LocalsFit' /\ HandlesAreUnique'
    BY <2>1, TypeStep, LocalsStep, UniqueStep
  <2>3. MadeAlone' /\ UnknownIsUnused'
    BY <2>1, MadeStep, UnknownStep
  <2>4. Followed' /\ Announced' /\ Promised'
    BY <2>1, FollowedStep, AnnouncedStep, PromisedStep
  <2> QED
    BY <2>2, <2>3, <2>4 DEF IInv, Followed, Announced, Promised
<1> QED
  BY <1>1, <1>2, PTL DEF Spec

\* Every variable keeps its type, and a row its handle and its signing key, through
\* every handler that creates, renames or deletes accounts.
THEOREM TypeCorrect == Spec => []TypeOK
<1>1. IInv => TypeOK
  BY DEF IInv
<1> QED
  BY <1>1, Invariance, PTL

\* The handle of an account is the one its last did:plc operation names, unless a
\* handler failed half way, two overlapped or another server published one.
THEOREM HandlesFollowPlc == Spec => []HandleFollowsPlc
<1>1. IInv => HandleFollowsPlc
  BY DEF IInv
<1> QED
  BY <1>1, Invariance, PTL

\* The last #identity event of an account names its handle or none, unless
\* handlers failed or overlapped.
THEOREM IdentitiesAnnounced == Spec => []IdentityIsAnnounced
<1>1. IInv => IdentityIsAnnounced
  BY DEF IInv
<1> QED
  BY <1>1, Invariance, PTL

\* An account is created with the signing key reserveSigningKey answered, unless
\* reservations raced.
THEOREM ReservedKeysUsed == Spec => []ReservedKeyIsUsed
<1>1. IInv => ReservedKeyIsUsed
  BY DEF IInv
<1> QED
  BY <1>1, Invariance, PTL

\* The row of an account made here is stored after plc.directory has its DID, with
\* the handle and the key that were published.
THEOREM MintedPublishedFirst == Spec => PublishedFirst
<1>1. IInv /\ [Next]_vars =>
        [\A d \in Minted, r \in Requests :
           At(r, "insert_minted") /\ req[r].did = d /\ ~Exists(d) /\ key'[d] # 0
               => plc[d] = [cid |-> 1, handle |-> handle'[d], key |-> key'[d]]]_vars
  <2> SUFFICES ASSUME IInv, Next, NEW d \in Minted, NEW r \in Requests, At(r, "insert_minted"),
                      req[r].did = d, ~Exists(d), key'[d] # 0
               PROVE  plc[d] = [cid |-> 1, handle |-> handle'[d], key |-> key'[d]]
    BY DEF vars
  <2>1. TypeOK /\ LocalsFit /\ MadeAlone /\ d \in Dids
    BY DEF IInv, Dids
  <2>2. plc[d] = [cid |-> 1, handle |-> req[r].handle, key |-> req[r].key]
    BY <2>1 DEF MadeAlone, At
  <2>3. \E q \in Requests : /\ InsertMinted(q) \/ InsertMigrated(q)
                            /\ key'[d] # key[d]
    <3>1. key[d] = 0
      BY DEF Exists
    <3> QED
      BY <2>1, <3>1 DEF Next, DeleteRow, TypeOK, OtherServer, ExpireReservation, StartCreate, SubmitGenesis, LookupReservation, InsertReservation, CheckAvailable, TakeReservation, CheckHandle, FetchLastOp, SubmitUpdate, StoreHandle, SubmitClientOp, FollowHandle, ReadForRefresh, EmitIdentity, DeleteReservation, GiveUp
  <2>4. PICK q \in Requests : (InsertMinted(q) \/ InsertMigrated(q)) /\ key'[d] # key[d]
    BY <2>3
  <2>5. req[q].did = d /\ Registered(q, d, req[q].handle, req[q].key)
    <3>1. Registered(q, req[q].did, req[q].handle, req[q].key)
      BY <2>4 DEF InsertMinted, InsertMigrated
    <3>2. req[q].did = d
      BY <2>1, <2>4, <3>1 DEF Registered, TypeOK
    <3> QED
      BY <3>1, <3>2
  <2>6. q = r
    <3>1. \A p \in Requests \ {r} : req[p].did # req[r].did
      BY <2>1 DEF MadeAlone, At
    <3> QED
      BY <2>5, <3>1
  <2> QED
    BY <2>1, <2>2, <2>5, <2>6 DEF Registered, TypeOK
<1> QED
  BY <1>1, Invariance, PTL DEF Spec, PublishedFirst
=============================================================================
