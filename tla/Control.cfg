SPECIFICATION FairSpec
CONSTANTS
    Data = {d1, d2, d3}
    d1 = d1
    d2 = d2
    d3 = d3
    Messages <- MCMessages
    Writers = {w1, w2}
    Copies = {k1}
    RecvCap = 1
    AckCap = 1
    MaxSeq = 3
    MaxWrites = 2
INVARIANT TypeOK
PROPERTIES
    ImplementsControlStream
    NothingAfterTorn
    WritesReturn
CHECK_DEADLOCK FALSE
