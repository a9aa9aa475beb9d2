SPECIFICATION FairSpec
CONSTANTS
    a = a  b = b  p1 = p1  p2 = p2  q1 = q1  short4 = short4  short6 = short6  odd = odd
    Node = {a, b}
    Tables <- RouteTables
    Packet <- Packets
    Src <- PacketSrc
    Dst <- PacketDst
    Size <- PacketSize
    Version <- PacketVersion
    BuffSize = 1500
    Chan = {c1, c2, c3}
    ChanSize = 1
    Window = 1
    Nil = Nil
INVARIANTS TypeOK AnswersOnly
PROPERTIES Implements Settles
CHECK_DEADLOCK FALSE
