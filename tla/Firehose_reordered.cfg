\* Two appenders, a channel that never fills, nothing trimmed.
SPECIFICATION Spec
CONSTANTS
    Appenders = {a1, a2}
    Subs = {s1}
    Cursors = {0, 1, 2}
    MaxSeq = 3
    ChanCap = 3
    Window = 3
    Free = Free
    NoCursor = NoCursor
INVARIANTS NoGap
