------------------------------ MODULE Datagram ------------------------------
(***************************************************************************)
(* What an overlay of NetHive nodes promises to the hosts behind it, which *)
(* is what IP promises: a packet that is sent may be lost or overtaken; if *)
(* it arrives, it arrives once, where it was addressed to, and as it was.  *)
(***************************************************************************)
EXTENDS Naturals, Sequences

CONSTANTS
    Packet,  \* identities of packets
    Dst,     \* [Packet -> node]
    Size     \* [Packet -> Nat]

VARIABLES
    sent,  \* the packets the overlay has accepted
    got    \* for each packet, its deliveries: where, and how much of it

vars == <<sent, got>>

Init ==
    /\ sent = {}
    /\ got = [p \in Packet |-> <<>>]

Send(p) ==
    /\ p \notin sent
    /\ sent' = sent \cup {p}
    /\ UNCHANGED got

Deliver(p) ==
    /\ p \in sent
    /\ got[p] = <<>>
    /\ got' = [got EXCEPT ![p] = <<[at |-> Dst[p], len |-> Size[p]]>>]
    /\ UNCHANGED sent

Next == \E p \in Packet : Send(p) \/ Deliver(p)

Spec == Init /\ [][Next]_vars
=============================================================================
