------------------------ MODULE IdentityProperties ------------------------
(* What Identity promises. *)
EXTENDS Identity

Places == {"idle", "genesis", "insert_minted", "reserve", "take", "insert", "fetch", "submit",
           "store", "follow", "emit", "emit_again", "delete_row"}

Locals == [at : Places, did : Dids \cup {NoDid}, handle : Handles \cup {NoHandle},
           key : Nat, prev : Nat]

\* Every variable is in its type, and a row has both a handle and a signing key
\* made here (store.go, migrate; admin.go and migration.go, the calls of
\* CreateAccount).
TypeOK ==
    /\ handle \in [Dids -> Handles \cup {NoHandle}]
    /\ key \in [Dids -> Nat]
    /\ \A d \in Dids : Exists(d) <=> handle[d] # NoHandle
    /\ reserved \in [Dids -> Nat]
    /\ plc \in [Dids -> Operations]
    /\ req \in [Requests -> Locals]
    /\ told \in [Dids -> SUBSET (Nat \ {0})]
    /\ said \in [Dids -> Handles \cup {NoHandle}]
    /\ torn \subseteq Dids /\ muddled \subseteq Dids /\ raced \subseteq Dids
    /\ nextKey \in Nat \ {0}

On(r, d, places) == req[r].did = d /\ req[r].at \in places

\* When no handler is between its operation and its UPDATE, the handle of an
\* account is the one its last did:plc operation names.  Left out, until an
\* operation runs alone and whole, are accounts a handler failed half way on, two
\* handlers or two operations overlapped on, another server published for, or that
\* registered under another handle than the log's (identity.go, handleUpdateHandle
\* and handleSubmitPlcOperation).
HandleFollowsPlc ==
    \A d \in Dids \ torn :
        Exists(d) /\ (\A r \in Requests : ~On(r, d, {"store", "follow"}))
            => plc[d].handle \in {NoHandle, handle[d]}

\* When no handler has an event to append, the last #identity event of an account
\* names its handle or none, unless handlers failed or overlapped; a refresh that
\* read the old handle overlaps with the update of it (admin.go,
\* handleAdminRefreshIdentity; identity.go, emitIdentityEvent).
IdentityIsAnnounced ==
    \A d \in Dids \ muddled :
        Exists(d) /\ (\A r \in Requests : ~On(r, d, {"store", "follow", "emit"}))
            => said[d] \in {NoHandle, handle[d]}

\* A key reserveSigningKey has answered is the one the account is created with,
\* while the reservation lasts and if no two of these requests raced (store.go,
\* ReserveSigningKey: "keeping the did:key stable across both calls, which migration
\* flows depend on").
ReservedKeyIsUsed ==
    \A d \in Dids \ raced : Exists(d) => told[d] \subseteq {key[d]}

\* The server stores an account it made a DID for only after plc.directory has
\* the DID with the handle and the key of the row (admin.go,
\* handleAdminCreateAccount).
PublishedFirst ==
    [][\A d \in Minted, r \in Requests :
           At(r, "insert_minted") /\ req[r].did = d /\ ~Exists(d) /\ key'[d] # 0
               => plc[d] = [cid |-> 1, handle |-> handle'[d], key |-> key'[d]]]_vars

-----------------------------------------------------------------------------
(* The inductive invariant *)

\* Two accounts never have one handle, though it is looked up long before it is
\* stored.
HandlesAreUnique ==
    \A d, e \in Dids : handle[d] = handle[e] /\ handle[d] # NoHandle => d = e

\* The local variables of a request fit the place it is at.
LocalsFit ==
    \A r \in Requests :
        /\ ~At(r, "idle") => req[r].did \in Dids
        /\ req[r].at \in {"genesis", "insert_minted", "take", "insert", "fetch", "submit",
                          "store", "follow"} => req[r].handle \in Handles
        /\ req[r].at \in {"genesis", "insert_minted", "insert"} => req[r].key # 0
        /\ At(r, "submit") /\ req[r].prev = plc[req[r].did].cid
               => req[r].key = plc[req[r].did].key
        /\ At(r, "submit") => req[r].prev <= plc[req[r].did].cid

\* While a DID is being made its handler alone knows it, and what plc.directory
\* has of it is the handler's.
MadeAlone ==
    \A r \in Requests : req[r].at \in {"genesis", "insert_minted"} =>
        /\ \A q \in Requests \ {r} : req[q].did # req[r].did
        /\ req[r].did \in Minted /\ ~Exists(req[r].did)
        /\ told[req[r].did] = {}
        /\ At(r, "genesis") => plc[req[r].did].cid = 0
        /\ At(r, "insert_minted") =>
              plc[req[r].did] = [cid |-> 1, handle |-> req[r].handle, key |-> req[r].key]

\* Nobody has asked for a DID that is not made yet.
UnknownIsUnused ==
    \A d \in Dids : plc[d].cid = 0 =>
        /\ ~Exists(d) /\ told[d] = {}
        /\ \A r \in Requests : req[r].did = d => At(r, "genesis")

\* The one handler with a handle to store has that of the last operation.
StoredInTurn ==
    \A d \in Dids \ torn : Exists(d) =>
        \A r \in Requests : On(r, d, {"store", "follow"}) =>
            /\ plc[d].handle = req[r].handle
            /\ ~Storing(r, d)

\* The one handler with an event to append has the handle of the account, once it
\* is stored.
EmittedInTurn ==
    \A d \in Dids \ muddled : Exists(d) =>
        \A r \in Requests :
            /\ On(r, d, {"store", "follow", "emit"}) => ~Emitting(r, d)
            /\ On(r, d, {"emit", "emit_again"}) => req[r].handle \in {NoHandle, handle[d]}

\* What was said of an earlier registration is not said of the next.
SaidOfAccounts == \A d \in Dids : ~Exists(d) => said[d] = NoHandle

\* Of a reservation that was not raced for, everyone has the same key.
ReservedInTurn ==
    \A d \in Dids \ raced :
        /\ told[d] \subseteq {reserved[d]}
        /\ \A r \in Requests :
              /\ On(r, d, {"insert"}) => told[d] \subseteq {req[r].key}
              /\ On(r, d, {"reserve"}) => reserved[d] = 0

IInv ==
    /\ TypeOK
    /\ LocalsFit
    /\ MadeAlone
    /\ UnknownIsUnused
    /\ HandlesAreUnique
    /\ StoredInTurn
    /\ HandleFollowsPlc
    /\ EmittedInTurn
    /\ SaidOfAccounts
    /\ IdentityIsAnnounced
    /\ ReservedInTurn
    /\ ReservedKeyIsUsed
=============================================================================
