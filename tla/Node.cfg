SPECIFICATION FairSpec
CONSTANTS
    Key = {k1, k2, k3, k4}
    Field = {"MTU"}
    Option = {"PeersRouteTable", "Relays", "EnableAutoRelay", "EnableMDNS"}
    MaxCrashes = 2
    None = None
    RelayCap = 1
    MaxNum = 1
    MaxFound = 1
    Peer = {p1}
    Names = {hive0, tun0}
    TUNName = hive0
    MTU = 2
    DefaultMTU = 1
    NoName = NoName
INVARIANTS TypeOK Durable SourceExact Ready
PROPERTIES IdentityKept FieldsSettled SourceEnds StartEnds
CHECK_DEADLOCK FALSE
