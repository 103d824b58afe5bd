SPECIFICATION Spec
CONSTANTS
    s1 = s1
    Streams = {s1}
    w1 = w1
    Writers = {w1}
    Stoppers = {}
    MaxChunks = 1
    ChanCap = 2
SYMMETRY Symmetry
INVARIANT NoSendOnClosed
