\* Two writers, an importer and a reader, with crashes and failed appends: imports
\* interleave with the write path, which shares no lock with them.
SPECIFICATION FairSpec
CONSTANTS
    Writers = {w1, w2}
    Importers = {i1}
    Readers = {r1}
    p1 = p1
    p2 = p2
    v1 = v1
    v2 = v2
    b1 = b1
    Paths <- OnePath
    Values <- MCValues
    None = None
    BlobsOf <- MCBlobsOf
    Batches <- OneBatch
    Uploads <- OneUpload
    MaxRev = 2
    MaxHist = 2
    Faults = TRUE
    Free = Free
INVARIANTS IndexIsTree RefsAreExact WritesAreSerial EventsInvert MirrorIsRepo
PROPERTIES ProofIsComplete WritesReturn
