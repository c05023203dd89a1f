\* Two writers, with crashes and failed appends.
SPECIFICATION Spec
CONSTANTS
    Writers = {w1, w2}
    Importers = {}
    Readers = {}
    p1 = p1
    p2 = p2
    v1 = v1
    v2 = v2
    b1 = b1
    Paths <- MCPaths
    Values <- MCValues
    None = None
    BlobsOf <- MCBlobsOf
    Batches <- FewBatches
    Uploads <- MCUploads
    MaxRev = 3
    MaxHist = 3
    Faults = TRUE
    Free = Free
SYMMETRY Symmetry
INVARIANTS BInv NoWriteIsRaced GapsAreSeen MirrorIsRepo
PROPERTIES ImplementsAtomic
