\* An import commits between a write's reads and its commit.
SPECIFICATION Spec
CONSTANTS
    Writers = {w1}
    Importers = {i1}
    Readers = {}
    p1 = p1
    p2 = p2
    v1 = v1
    v2 = v2
    b1 = b1
    Paths <- MCPaths
    Values <- MCValues
    None = None
    BlobsOf <- MCBlobsOf
    Batches <- FewBatches
    Uploads <- MCUploads
    MaxRev = 2
    MaxHist = 2
    Faults = FALSE
    Free = Free
INVARIANTS NoWriteIsRaced
