\* A record is created twice; nothing fails.
SPECIFICATION Spec
CONSTANTS
    Writers = {w1}
    Importers = {}
    Readers = {}
    p1 = p1
    p2 = p2
    v1 = v1
    v2 = v2
    b1 = b1
    Paths <- MCPaths
    Values <- MCValues
    None = None
    BlobsOf <- MCBlobsOf
    Batches <- MCBatches
    Uploads <- MCUploads
    MaxRev = 2
    MaxHist = 2
    Faults = FALSE
    Free = Free
INVARIANTS CreationsHaveNoPrev
