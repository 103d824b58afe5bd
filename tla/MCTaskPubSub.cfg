SPECIFICATION Spec
CONSTANTS
    s1 = s1
    Streams = {s1}
    w1 = w1
    Writers = {w1}
    k1 = k1
    Stoppers = {k1}
    MaxChunks = 2
    ChanCap = 2
SYMMETRY Symmetry
INVARIANT TypeOK
INVARIANT CloseOnce
INVARIANT OneCloser
INVARIANT LiveInOrder
