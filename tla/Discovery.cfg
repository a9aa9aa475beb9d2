SPECIFICATION FairSpec
CONSTANTS
    Bootstrap = {b1, b2}
    Peer = {p1}
    Loop = Loop
    channelBuffLength = 1
    MaxResults = 2
INVARIANTS TypeOK BootstrapVerdict ClosedAtEnd
PROPERTIES CallReturns DialEnds SearchEnds
