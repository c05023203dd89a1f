----------------------------- MODULE Identity -----------------------------
(***************************************************************************)
(* The identities of the accounts: the handle and the signing key each row  *)
(* of accounts.db keeps, the reserved signing keys, the did:plc operation   *)
(* logs of plc.directory, and the #identity events.  A handler is the       *)
(* sequence of its database statements and its HTTP calls to plc.directory; *)
(* between two of them any other request may run, and a handler may fail or *)
(* be cancelled.  Of an operation the handle and the signing key are kept.  *)
(***************************************************************************)
EXTENDS Integers, FiniteSets

CONSTANTS
    Requests,   \* HTTP requests in flight
    Minted,     \* DIDs admin.createAccount may come to make
    Migrating,  \* DIDs that begin at another server
    Handles,
    NoHandle,   \* no account, or an operation or event that names no handle
    NoDid,      \* the request has no DID
    MaxOps,     \* bound of the model: operations in the logs of all DIDs
    MaxKey      \* bound of the model: signing keys generated here

Dids == Minted \cup Migrating

ASSUME DidAssumption == NoDid \notin Dids /\ Minted \cap Migrating = {}
ASSUME HandleAssumption == NoHandle \notin Handles
ASSUME BoundAssumption == MaxOps \in Nat /\ MaxKey \in Nat

VARIABLES
    handle,     \* table accounts: the handle of each DID's row, NoHandle when there is none
    key,        \* table accounts: its signing key, 0 when there is no row
    reserved,   \* table reserved_signing_keys: the key, 0 when there is none or it expired
    plc,        \* plc.directory: the last operation of each DID, cid 0 when there is none
    req,        \* the local variables of each request
    told,       \* the keys reserveSigningKey has answered, before there is an account
    said,       \* the handle in the last #identity event of this registration
    torn,       \* observer: DIDs whose row may not follow the log, see Submitted
    muddled,    \* observer: DIDs whose last event may be wrong, see Submitted
    raced,      \* observer: DIDs whose reservation raced with another or a creation
    nextKey     \* the next signing key GeneratePrivateKeyK256 returns

vars == <<handle, key, reserved, plc, req, told, said, torn, muddled, raced, nextKey>>

\* Key 0 stands for keys other servers have generated.
Operations == [cid : Nat, handle : Handles \cup {NoHandle}, key : Nat]
Local(place, did, h, k, prev) == [at |-> place, did |-> did, handle |-> h, key |-> k, prev |-> prev]
Idle == Local("idle", NoDid, NoHandle, 0, 0)

Init ==
    /\ handle = [d \in Dids |-> NoHandle]
    /\ key = [d \in Dids |-> 0]
    /\ reserved = [d \in Dids |-> 0]
    /\ \E h \in [Migrating -> Handles] :
          plc = [d \in Dids |-> IF d \in Migrating THEN [cid |-> 1, handle |-> h[d], key |-> 0]
                               ELSE [cid |-> 0, handle |-> NoHandle, key |-> 0]]
    /\ req = [r \in Requests |-> Idle]
    /\ told = [d \in Dids |-> {}]
    /\ said = [d \in Dids |-> NoHandle]
    /\ torn = {} /\ muddled = {} /\ raced = {}
    /\ nextKey = 1

At(r, place) == req[r].at = place
Become(r, local) == req' = [req EXCEPT ![r] = local]
Goto(r, place) == req' = [req EXCEPT ![r].at = place]
Exists(d) == key[d] # 0
\* UNIQUE: no other account has the handle.
Free(h, d) == \A e \in Dids \ {d} : handle[e] # h

\* Another request is between its operation and its UPDATE of the handle, or has
\* an #identity event to append.
Storing(r, d) == \E q \in Requests \ {r} : req[q].did = d /\ req[q].at \in {"store", "follow"}
Emitting(r, d) == \E q \in Requests \ {r} :
    req[q].did = d /\ req[q].at \in {"store", "follow", "emit", "emit_again"}

\* The observers are for DIDs that have an account.
Spoil(set, d) == IF Exists(d) THEN set \cup {d} ELSE set
Mark(set, d, flag) == IF flag THEN set \cup {d} ELSE set \ {d}

\* An error, a refusal, a cancelled request or a crash.
GiveUp(r) ==
    /\ ~At(r, "idle")
    /\ torn' = IF req[r].at \in {"store", "follow"} THEN Spoil(torn, req[r].did) ELSE torn
    /\ muddled' = IF req[r].at \in {"store", "follow", "emit"}
                  THEN Spoil(muddled, req[r].did) ELSE muddled
    /\ Become(r, Idle)
    /\ UNCHANGED <<handle, key, reserved, plc, told, said, raced, nextKey>>

-----------------------------------------------------------------------------
(* plc.directory *)

Logged == Cardinality({x \in Dids \X (1 .. MaxOps) : x[2] <= plc[x[1]].cid})

\* It takes an operation whose prev is the last one.  What else it checks is not
\* kept: it may refuse any, and the handler gives up.  When two handlers overlap
\* the row and the event may end up with the handle of the earlier; the next
\* operation that is alone sets them right.
Submitted(r, d, prev, h, k) ==
    /\ prev = plc[d].cid /\ Logged < MaxOps
    /\ plc' = [plc EXCEPT ![d] = [cid |-> prev + 1, handle |-> h, key |-> k]]
    /\ torn' = Mark(torn, d, Exists(d) /\ Storing(r, d))
    /\ muddled' = Mark(muddled, d, Exists(d) /\ Emitting(r, d))

\* The rotation key of a DID being made is known to its handler only.
BeingMade(d) == \E q \in Requests : req[q].did = d /\ req[q].at = "insert_minted"
Known(d) == plc[d].cid > 0 /\ ~BeingMade(d)

\* An operation that does not go through this server.
OtherServer(d) ==
    /\ Known(d) /\ Logged < MaxOps
    /\ \E h \in Handles :
          plc' = [plc EXCEPT ![d] = [cid |-> plc[d].cid + 1, handle |-> h, key |-> 0]]
    /\ torn' = Spoil(torn, d)
    /\ UNCHANGED <<handle, key, reserved, req, told, said, muddled, raced, nextKey>>

-----------------------------------------------------------------------------
(* admin.createAccount *)

\* The handle is free and keys are made; the DID is the hash of the operation.
StartCreate(r) ==
    /\ At(r, "idle") /\ nextKey <= MaxKey
    /\ \E d \in Minted, h \in Handles :
          /\ plc[d].cid = 0 /\ \A q \in Requests : req[q].did # d
          /\ Free(h, NoDid)
          /\ Become(r, Local("genesis", d, h, nextKey, 0))
    /\ nextKey' = nextKey + 1
    /\ UNCHANGED <<handle, key, reserved, plc, told, said, torn, muddled, raced>>

\* Mutant: the error of Submit is ignored.
GenesisUnchecked(r) ==
    /\ At(r, "genesis")
    /\ Goto(r, "insert_minted")
    /\ UNCHANGED <<handle, key, reserved, plc, told, said, torn, muddled, raced, nextKey>>

SubmitGenesis(r) ==
    /\ At(r, "genesis")
    /\ Submitted(r, req[r].did, 0, req[r].handle, req[r].key)
    /\ Goto(r, "insert_minted")
    /\ UNCHANGED <<handle, key, reserved, told, said, raced, nextKey>>

\* CreateAccount: the row of a DID that has none, with a handle no other has.  A
\* handler of an earlier registration may still be on its way to change it.
Registered(r, d, h, k) ==
    /\ ~Exists(d) /\ Free(h, d)
    /\ handle' = [handle EXCEPT ![d] = h]
    /\ key' = [key EXCEPT ![d] = k]
    /\ torn' = Mark(torn, d, Storing(r, d) \/ plc[d].handle \notin {NoHandle, h})
    /\ muddled' = Mark(muddled, d, Emitting(r, d))

\* The repository and the other events are for modules Repo and Account.
InsertMinted(r) ==
    /\ At(r, "insert_minted")
    /\ Registered(r, req[r].did, req[r].handle, req[r].key)
    /\ Become(r, Idle)
    /\ UNCHANGED <<reserved, plc, told, said, raced, nextKey>>

-----------------------------------------------------------------------------
(* reserveSigningKey and createAccount *)

\* The key k was given out while another request had still to reserve a key, or to
\* create the account with another.
RacedBy(r, d, k) == \E q \in Requests \ {r} :
    req[q].did = d /\ (At(q, "reserve") \/ (At(q, "insert") /\ req[q].key # k))

Answer(r, d, k) ==
    /\ told' = IF Exists(d) THEN told ELSE [told EXCEPT ![d] = @ \cup {k}]
    /\ raced' = IF RacedBy(r, d, k) THEN raced \cup {d} ELSE raced

\* GetReservedSigningKey: a key that is there is the answer.
LookupReservation(r) ==
    /\ At(r, "idle")
    /\ \E d \in Dids :
          /\ Known(d)
          /\ IF reserved[d] # 0
             THEN Answer(r, d, reserved[d]) /\ UNCHANGED req
             ELSE Become(r, Local("reserve", d, NoHandle, 0, 0)) /\ UNCHANGED <<told, raced>>
    /\ UNCHANGED <<handle, key, reserved, plc, said, torn, muddled, nextKey>>

\* ReserveSigningKey, ON CONFLICT DO NOTHING; the answer is the key just made.
InsertReservation(r) ==
    /\ At(r, "reserve") /\ nextKey <= MaxKey
    /\ reserved' = [reserved EXCEPT ![req[r].did] = IF @ = 0 THEN nextKey ELSE @]
    /\ Answer(r, req[r].did, nextKey)
    /\ nextKey' = nextKey + 1
    /\ Become(r, Idle)
    /\ UNCHANGED <<handle, key, plc, said, torn, muddled>>

\* The hour is over, and with it the promise.
ExpireReservation(d) ==
    /\ reserved[d] # 0
    /\ reserved' = [reserved EXCEPT ![d] = 0]
    /\ told' = [told EXCEPT ![d] = {}]
    /\ raced' = raced \ {d}
    /\ UNCHANGED <<handle, key, plc, req, said, torn, muddled, nextKey>>

\* handleServerCreateAccount: neither DID nor handle is registered here.
CheckAvailable(r) ==
    /\ At(r, "idle")
    /\ \E d \in Dids, h \in Handles :
          /\ Known(d) /\ ~Exists(d) /\ Free(h, d)
          /\ Become(r, Local("take", d, h, 0, 0))
    /\ UNCHANGED <<handle, key, reserved, plc, told, said, torn, muddled, raced, nextKey>>

\* Mutants: reservations are not looked at; the lack of one is not noticed.
TakeFresh(r) ==
    /\ At(r, "take") /\ nextKey <= MaxKey
    /\ Become(r, Local("insert", req[r].did, req[r].handle, nextKey, 0))
    /\ nextKey' = nextKey + 1
    /\ UNCHANGED <<handle, key, reserved, plc, told, said, torn, muddled, raced>>
TakeUnchecked(r) ==
    /\ At(r, "take")
    /\ Become(r, Local("insert", req[r].did, req[r].handle, reserved[req[r].did], 0))
    /\ UNCHANGED <<handle, key, reserved, plc, told, said, torn, muddled, raced, nextKey>>

\* The reserved key, or else a new one.
TakeReservation(r) ==
    /\ At(r, "take")
    /\ \/ /\ reserved[req[r].did] # 0 /\ nextKey' = nextKey
          /\ Become(r, Local("insert", req[r].did, req[r].handle, reserved[req[r].did], 0))
       \/ /\ reserved[req[r].did] = 0 /\ nextKey <= MaxKey /\ nextKey' = nextKey + 1
          /\ Become(r, Local("insert", req[r].did, req[r].handle, nextKey, 0))
    /\ UNCHANGED <<handle, key, reserved, plc, told, said, torn, muddled, raced>>

InsertMigrated(r) ==
    /\ At(r, "insert")
    /\ Registered(r, req[r].did, req[r].handle, req[r].key)
    /\ Become(r, Idle)
    /\ UNCHANGED <<reserved, plc, told, said, raced, nextKey>>

-----------------------------------------------------------------------------
(* updateHandle and submitPlcOperation *)

\* No other account has the handle; it may be the account's own.
CheckHandle(r) ==
    /\ At(r, "idle")
    /\ \E d \in Dids, h \in Handles :
          /\ Exists(d) /\ Free(h, d)
          /\ Become(r, Local("fetch", d, h, 0, 0))
    /\ UNCHANGED <<handle, key, reserved, plc, told, said, torn, muddled, raced, nextKey>>

\* GetLastOp.  The new operation takes over the rotation keys, the verification
\* methods and the services; its alsoKnownAs is the one new handle, so that other
\* aliases of the last operation are dropped (identity.go:70-75).  Of all this the
\* model has the handle and the signing key.
FetchLastOp(r) ==
    /\ At(r, "fetch")
    /\ Become(r, Local("submit", req[r].did, req[r].handle,
                       plc[req[r].did].key, plc[req[r].did].cid))
    /\ UNCHANGED <<handle, key, reserved, plc, told, said, torn, muddled, raced, nextKey>>

\* Mutant: a refusal of plc.directory is not noticed.
SubmitUnchecked(r) ==
    /\ At(r, "submit")
    /\ \/ Submitted(r, req[r].did, req[r].prev, req[r].handle, req[r].key)
       \/ req[r].prev # plc[req[r].did].cid /\ UNCHANGED <<plc, torn, muddled>>
    /\ Goto(r, "store")
    /\ UNCHANGED <<handle, key, reserved, told, said, raced, nextKey>>

SubmitUpdate(r) ==
    /\ At(r, "submit")
    /\ Submitted(r, req[r].did, req[r].prev, req[r].handle, req[r].key)
    /\ Goto(r, "store")
    /\ UNCHANGED <<handle, key, reserved, told, said, raced, nextKey>>

\* Mutant: handles are not UNIQUE.
SetAnyHandle(d, h) ==
    /\ Exists(d)
    /\ handle' = [handle EXCEPT ![d] = h]

SetHandle(d, h) ==
    /\ Exists(d) /\ Free(h, d)
    /\ handle' = [handle EXCEPT ![d] = h]

\* Mutant: no event after the UPDATE.
StoreQuietly(r) ==
    /\ At(r, "store")
    /\ SetHandle(req[r].did, req[r].handle)
    /\ Become(r, Idle)
    /\ UNCHANGED <<key, reserved, plc, told, said, torn, muddled, raced, nextKey>>

StoreHandle(r) ==
    /\ At(r, "store")
    /\ SetHandle(req[r].did, req[r].handle)
    /\ Goto(r, "emit")
    /\ UNCHANGED <<key, reserved, plc, told, said, torn, muddled, raced, nextKey>>

\* handleSubmitPlcOperation: the client's operation, with the key of the account or
\* another, and a handle or none.
SubmitClientOp(r) ==
    /\ At(r, "idle")
    /\ \E d \in Dids, h \in Handles \cup {NoHandle} : \E k \in {0, key[d]} :
          /\ Exists(d)
          /\ Submitted(r, d, plc[d].cid, h, k)
          /\ Become(r, Local(IF h = NoHandle THEN "emit" ELSE "follow", d, h, 0, 0))
    /\ UNCHANGED <<handle, key, reserved, told, said, raced, nextKey>>

\* Best effort: an error leaves the row as it was, and the event is sent.
FollowHandle(r) ==
    /\ At(r, "follow")
    /\ \/ /\ SetHandle(req[r].did, req[r].handle)
          /\ UNCHANGED <<torn, muddled>>
       \/ /\ torn' = Spoil(torn, req[r].did) /\ muddled' = Spoil(muddled, req[r].did)
          /\ UNCHANGED handle
    /\ Goto(r, "emit")
    /\ UNCHANGED <<key, reserved, plc, told, said, raced, nextKey>>

-----------------------------------------------------------------------------
(* emitIdentityEvent *)

\* handleAdminRefreshIdentity sends what it read.
ReadForRefresh(r) ==
    /\ At(r, "idle")
    /\ \E d \in Dids :
          /\ Exists(d)
          /\ Become(r, Local("emit_again", d, handle[d], 0, 0))
          /\ muddled' = IF \E q \in Requests \ {r} :
                              req[q].did = d /\ req[q].at \in {"store", "follow", "emit"}
                        THEN muddled \cup {d} ELSE muddled
    /\ UNCHANGED <<handle, key, reserved, plc, told, said, torn, raced, nextKey>>

EmitIdentity(r) ==
    /\ req[r].at \in {"emit", "emit_again"}
    /\ said' = IF Exists(req[r].did) THEN [said EXCEPT ![req[r].did] = req[r].handle] ELSE said
    /\ Become(r, Idle)
    /\ UNCHANGED <<handle, key, reserved, plc, told, torn, muddled, raced, nextKey>>

-----------------------------------------------------------------------------
(* deleteAccount, as far as these tables go *)

DeleteReservation(r) ==
    /\ At(r, "idle")
    /\ \E d \in Dids :
          /\ Exists(d)
          /\ reserved' = [reserved EXCEPT ![d] = 0]
          /\ told' = [told EXCEPT ![d] = {}]
          /\ raced' = raced \ {d}
          /\ Become(r, Local("delete_row", d, NoHandle, 0, 0))
    /\ UNCHANGED <<handle, key, plc, said, torn, muddled, nextKey>>

DeleteRow(r) ==
    /\ At(r, "delete_row") /\ Exists(req[r].did)
    /\ handle' = [handle EXCEPT ![req[r].did] = NoHandle]
    /\ key' = [key EXCEPT ![req[r].did] = 0]
    /\ said' = [said EXCEPT ![req[r].did] = NoHandle]
    /\ torn' = torn \ {req[r].did} /\ muddled' = muddled \ {req[r].did}
    /\ Become(r, Idle)
    /\ UNCHANGED <<reserved, plc, told, raced, nextKey>>

-----------------------------------------------------------------------------
Next ==
    \/ \E d \in Dids : OtherServer(d) \/ ExpireReservation(d)
    \/ \E r \in Requests :
          \/ StartCreate(r) \/ SubmitGenesis(r) \/ InsertMinted(r)
          \/ LookupReservation(r) \/ InsertReservation(r)
          \/ CheckAvailable(r) \/ TakeReservation(r) \/ InsertMigrated(r)
          \/ CheckHandle(r) \/ FetchLastOp(r) \/ SubmitUpdate(r) \/ StoreHandle(r)
          \/ SubmitClientOp(r) \/ FollowHandle(r)
          \/ ReadForRefresh(r) \/ EmitIdentity(r)
          \/ DeleteReservation(r) \/ DeleteRow(r)
          \/ GiveUp(r)

Spec == Init /\ [][Next]_vars
=============================================================================
