\* One appender and a consumer that need not read what it is sent, a channel
\* that never fills, nothing trimmed.
SPECIFICATION FairSpec
CONSTANTS
    Appenders = {a1}
    Subs = {s1}
    Cursors = {0}
    MaxSeq = 2
    ChanCap = 2
    Window = 2
    Free = Free
    NoCursor = NoCursor
PROPERTIES AppendReturns
