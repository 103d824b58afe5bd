SPECIFICATION FairSpec
CONSTANTS
    s1 = s1
    Streams = {s1}
    w1 = w1
    Writers = {w1}
    k1 = k1
    Stoppers = {k1}
    MaxChunks = 1
    ChanCap = 1
PROPERTY PublishReturns
PROPERTY StreamsEnd
