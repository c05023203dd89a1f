\* The process stops between a commit and its event.
SPECIFICATION Spec
CONSTANTS
    Writers = {w1}
    Importers = {}
    Readers = {}
    p1 = p1
    p2 = p2
    v1 = v1
    v2 = v2
    b1 = b1
    Paths <- MCPaths
    Values <- MCValues
    None = None
    BlobsOf <- MCBlobsOf
    Batches <- FewBatches
    Uploads <- MCUploads
    MaxRev = 1
    MaxHist = 1
    Faults = TRUE
    Free = Free
INVARIANTS EveryCommitIsSequenced
