\* Two requests at a time on a DID made here and a DID that migrates in, and two handles.
SPECIFICATION Spec
CONSTANTS
    Requests = {r1, r2}
    Minted = {d1}
    Migrating = {d2}
    Handles = {h1, h2}
    NoHandle = NoHandle
    NoDid = NoDid
    MaxOps = 4
    MaxKey = 2
SYMMETRY Symmetry
INVARIANTS TypeOK IInv HandleFollowsPlc IdentityIsAnnounced ReservedKeyIsUsed
PROPERTIES PublishedFirst
