\* Two appenders race, one consumer, a channel of one, any prefix trimmed.
SPECIFICATION FairSpec
CONSTANTS
    Appenders = {a1, a2}
    Subs = {s1}
    Cursors <- MCCursors
    MaxSeq = 3
    ChanCap = 1
    Window = 1
    Free = Free
    NoCursor = NoCursor
INVARIANTS TypeOK IInv GapsExplained ResumeNeverRefused
PROPERTIES ImplementsFeed WritersGoOn HandlerGoesLive TailIsDelivered
