CONSTANTS
    k1 = k1  k2 = k2  k3 = k3  a1 = a1  a2 = a2  a3 = a3  m1 = m1
    Peer = {k1, k2}
    Stranger = {}
    Addr = {a1, a2, a3, m1}
    PeerAddr <- OwnAddr
    Multicast = {m1}
    EnableBroadcast = TRUE
    Malformed = Malformed
    Chan = {c1, c2}
    Handler = {}
    Payload = {p1, p2}
    ChanSize = 1
    Nil = Nil
SPECIFICATION FairSpec
PROPERTIES Dispatched BrokenConnRemoved
