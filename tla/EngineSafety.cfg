CONSTANTS
    k1 = k1  k2 = k2  k3 = k3  a1 = a1  a2 = a2  a3 = a3  m1 = m1
    Peer = {k1, k2, k3}
    Stranger = {s1}
    Addr = {a1, a2, m1}
    PeerAddr <- SharedAddr
    Multicast = {m1}
    EnableBroadcast = FALSE
    Malformed = Malformed
    Chan = {c1, c2}
    Handler = {h1}
    Payload = {p1, p2}
    ChanSize = 1
    Nil = Nil
SYMMETRY Symmetry
SPECIFICATION Spec
INVARIANTS TypeOK PayloadExclusive Addressed RouteTableAgrees OneConnPerPeer
PROPERTY OnlyOwnerDeletes
