SPECIFICATION Spec
CONSTANTS
    s1 = s1
    s2 = s2
    Streams = {s1, s2}
    w1 = w1
    Writers = {w1}
    Stoppers = {}
    MaxChunks = 1
    ChanCap = 1
SYMMETRY Symmetry
INVARIANT StreamEndExplained
