--------------------------- MODULE OverlayProofs ---------------------------
(***************************************************************************)
(* The overlay, for any nodes, route tables, packets and capacities: its   *)
(* nodes implement the datagram service, and a node only hears from peers  *)
(* that it has sent packets to.                                            *)
(***************************************************************************)
EXTENDS Overlay, SequenceTheorems, TLAPS

-----------------------------------------------------------------------------
(* The inductive invariant *)

\* The places where messages are: k says which of those that belong to c.
Kind == {"queue", "writing", "to", "hwrites", "from"}

Held(k, c) ==
    CASE k = "queue" -> queue[c] [] k = "writing" -> writing[c] [] k = "to" -> to[c]
      [] k = "hwrites" -> hwrites[c] [] k = "from" -> from[c]

\* The channel a handler takes from leads to the node that called it.
Answers(c) ==
    LET d == handler[c].chan IN
    /\ d \in Chan
    /\ chan[d].pc # "unused"
    /\ chan[d].node = chan[c].peer /\ chan[d].peer = chan[c].node

\* The parts of TypeOK.
IdType      == id \in [Node -> [Node -> Chan \cup {Nil}]]
ChanType    == chan \in [Chan -> [pc : {"unused", "dialing", "open", "ending", "ended"},
                                  node : Node \cup {Nil}, peer : Node \cup {Nil}]]
HandlerType == handler \in [Chan -> [pc : {"none", "entered", "closed", "left", "serving"},
                                     chan : Chan \cup {Nil}]]
StreamType  == stream \in [Chan -> {"none", "open", "reset"}]

\* What belongs to a channel goes with the state it is in.
ChanInv ==
    \A c \in Chan :
        /\ chan[c].pc = "unused" => chan[c].node = Nil /\ chan[c].peer = Nil /\ stream[c] = "none"
        /\ chan[c].pc = "dialing" => stream[c] = "none"
        /\ chan[c].pc # "unused" => /\ chan[c].node \in Node /\ chan[c].peer \in Node
                                    /\ chan[c].peer \in asked[chan[c].node]
        /\ stream[c] = "none" => handler[c] = NoHandler
        /\ stream[c] # "open" => to[c] = <<>> /\ from[c] = <<>>
        /\ handler[c].pc # "serving" => hwrites[c] = <<>>
        /\ handler[c].pc = "serving" => Answers(c)
        /\ Len(writing[c]) <= 1 /\ Len(hwrites[c]) <= 1

\* The channel for a peer leads to that peer.
IdInv ==
    \A n, p \in Node :
        id[n][p] # Nil => /\ chan[id[n][p]].pc # "unused"
                          /\ chan[id[n][p]].node = n /\ chan[id[n][p]].peer = p

\* A message holds a whole packet from n to p.
Goes(msg, n, p) == Src[msg.pkt] = n /\ Dst[msg.pkt] = p /\ msg.len = Size[msg.pkt]

\* Messages go the way the channel or the stream they are in goes.
Way(k, c, msg) ==
    IF k \in {"queue", "writing", "to"} THEN Goes(msg, chan[c].node, chan[c].peer)
    ELSE Goes(msg, chan[c].peer, chan[c].node)

WayInv == \A k \in Kind, c \in Chan : \A i \in DOMAIN Held(k, c) : Way(k, c, Held(k, c)[i])

\* A sequence that holds no packet twice.
Distinct(s) == \A i, j \in DOMAIN s : s[i].pkt = s[j].pkt => i = j

\* A packet is in one place, and only until it is written to TUN.
OneInv ==
    /\ \A k \in Kind, c \in Chan : Distinct(Held(k, c))
    /\ \A j, k \in Kind, c, d \in Chan, p \in Packet :
          In(p, Held(j, c)) /\ In(p, Held(k, d)) => j = k /\ c = d
    /\ \A k \in Kind, c \in Chan, p \in Packet : In(p, Held(k, c)) => p \in sent /\ got[p] = <<>>
    /\ \A p \in Packet : got[p] # <<>> => p \in sent

OInv == TypeOK /\ ChanInv /\ IdInv /\ WayInv /\ OneInv /\ AnswersOnly

-----------------------------------------------------------------------------
(* Sequences of messages *)

\* What a sequence of messages holds after Append, Tail and Head.
LEMMA MsgAppend ==
    ASSUME NEW s \in Seq(Msg), NEW e \in Msg
    PROVE  /\ Append(s, e) \in Seq(Msg) /\ Len(Append(s, e)) = Len(s) + 1
           /\ \A p \in Packet : In(p, Append(s, e)) => In(p, s) \/ p = e.pkt
           /\ Distinct(s) /\ ~In(e.pkt, s) => Distinct(Append(s, e))
           /\ \A i \in DOMAIN Append(s, e) : Append(s, e)[i] = e \/ \E j \in DOMAIN s : Append(s, e)[i] = s[j]
<1> DEFINE t == Append(s, e)
<1>1. t \in Seq(Msg) /\ Len(t) = Len(s) + 1 /\ Len(s) \in Nat
  BY AppendProperties, LenProperties
<1>2. DOMAIN s = 1..Len(s) /\ DOMAIN t = 1..Len(s) + 1
  BY <1>1, LenProperties
<1>3. (\A i \in 1..Len(s) : t[i] = s[i]) /\ t[Len(s) + 1] = e
  BY AppendProperties
<1>4. \A i \in DOMAIN t : i \in DOMAIN s \/ i = Len(s) + 1
  BY <1>1, <1>2
<1> HIDE DEF t
<1>5. \A p \in Packet : In(p, t) => In(p, s) \/ p = e.pkt
  BY <1>2, <1>3, <1>4 DEF In
<1>6. Distinct(s) /\ ~In(e.pkt, s) => Distinct(t)
  BY <1>2, <1>3, <1>4 DEF Distinct, In
<1>7. \A i \in DOMAIN t : t[i] = e \/ \E j \in DOMAIN s : t[i] = s[j]
  BY <1>2, <1>3, <1>4
<1> QED BY <1>1, <1>5, <1>6, <1>7 DEF t

LEMMA MsgTail ==
    ASSUME NEW s \in Seq(Msg), s # <<>>
    PROVE  /\ Head(s) \in Msg /\ Tail(s) \in Seq(Msg) /\ Len(Tail(s)) = Len(s) - 1
           /\ In(Head(s).pkt, s) /\ (\E i \in DOMAIN s : Head(s) = s[i])
           /\ \A p \in Packet : In(p, Tail(s)) => In(p, s)
           /\ Distinct(s) => Distinct(Tail(s)) /\ ~In(Head(s).pkt, Tail(s))
           /\ \A i \in DOMAIN Tail(s) : \E j \in DOMAIN s : Tail(s)[i] = s[j]
<1> DEFINE t == Tail(s)
<1>1. Len(s) \in Nat \ {0} /\ DOMAIN s = 1..Len(s)
  BY LenProperties, EmptySeq
<1>2. t \in Seq(Msg) /\ Len(t) = Len(s) - 1 /\ Head(s) \in Msg /\ Head(s) = s[1]
  BY <1>1, HeadTailProperties
<1>3. DOMAIN t = 1..Len(s) - 1 /\ \A i \in 1..Len(s) - 1 : t[i] = s[i + 1]
  BY <1>1, <1>2, LenProperties, HeadTailProperties
<1>4. 1 \in DOMAIN s /\ \A i \in DOMAIN t : i + 1 \in DOMAIN s /\ i + 1 # 1 /\ t[i] = s[i + 1]
  BY <1>1, <1>3
<1>5. \A i, j \in DOMAIN t : i + 1 = j + 1 => i = j
  BY <1>1, <1>3
<1> HIDE DEF t
<1>6. Distinct(s) => Distinct(t) /\ ~In(Head(s).pkt, t)
  <2>1. Distinct(s) => Distinct(t)
    BY <1>4, <1>5 DEF Distinct
  <2>2. Distinct(s) => ~In(Head(s).pkt, t)
    BY <1>2, <1>4 DEF Distinct, In
  <2> QED BY <2>1, <2>2
<1>7. \A p \in Packet : In(p, t) => In(p, s)
  BY <1>4 DEF In
<1>8. In(Head(s).pkt, s) /\ (\E i \in DOMAIN s : Head(s) = s[i])
  BY <1>2, <1>4 DEF In
<1> QED BY <1>2, <1>4, <1>6, <1>7, <1>8 DEF t

\* What a goroutine has taken to write is nothing or one message.
LEMMA MsgOne ==
    ASSUME NEW w \in Seq(Msg), Len(w) <= 1, w # <<>>
    PROVE  Tail(w) = <<>> /\ \A s \in Seq(Msg) : s \o w = Append(s, Head(w))
<1>1. Len(w) = 1 /\ w[1] \in Msg /\ DOMAIN w = 1..1
  <2>1. Len(w) \in Nat /\ Len(w) # 0 /\ DOMAIN w = 1..Len(w)
    BY LenProperties, EmptySeq
  <2>2. Len(w) = 1
    BY <2>1
  <2> QED BY <2>1, <2>2, ElementOfSeq
<1>2. w = <<w[1]>> /\ Head(w) = w[1]
  BY <1>1
<1>3. Tail(w) = <<>>
  <2>1. Tail(w) \in Seq(Msg) /\ Len(Tail(w)) = 0
    BY <1>1, MsgTail
  <2> QED BY <2>1, EmptySeq
<1>4. ASSUME NEW s \in Seq(Msg) PROVE s \o w = Append(s, Head(w))
  BY <1>1, <1>2, AppendIsConcat
<1> QED BY <1>3, <1>4

LEMMA MsgNone ==
    /\ <<>> \in Seq(Msg) /\ Len(<<>>) = 0 /\ DOMAIN <<>> = {}
    /\ Distinct(<<>>) /\ \A p : ~In(p, <<>>)
<1>1. <<>> \in Seq(Msg) /\ Len(<<>>) = 0 /\ DOMAIN <<>> = {}
  OBVIOUS
<1> QED BY <1>1 DEF Distinct, In

LEMMA MsgFirst == \A e : Append(<<>>, e) = <<e>> /\ Len(<<e>>) = 1
  OBVIOUS

-----------------------------------------------------------------------------
(* Packets that are in one place *)

\* Nothing new comes to any place.
LEMMA OneLess ==
    ASSUME OneInv,
           \A k \in Kind, c \in Chan : /\ Distinct(Held(k, c)')
                                       /\ \A p \in Packet : In(p, Held(k, c)') => In(p, Held(k, c)),
           sent' = sent, got' = got
    PROVE  OneInv'
  BY DEF OneInv

\* Only q comes to a place, K of C, and is nowhere else any more.
LEMMA OneMoves ==
    ASSUME OneInv, NEW K \in Kind, NEW C \in Chan, NEW q \in Packet,
           \A k \in Kind, c \in Chan : Distinct(Held(k, c)'),
           \A k \in Kind, c \in Chan, p \in Packet :
               In(p, Held(k, c)') => In(p, Held(k, c)) \/ (k = K /\ c = C /\ p = q),
           \A k \in Kind, c \in Chan : In(q, Held(k, c)') => k = K /\ c = C,
           q \in sent', got[q] = <<>>,
           sent \subseteq sent', got' = got
    PROVE  OneInv'
<1>1. ASSUME NEW j \in Kind, NEW k \in Kind, NEW c \in Chan, NEW d \in Chan, NEW p \in Packet,
             In(p, Held(j, c)'), In(p, Held(k, d)')
      PROVE  j = k /\ c = d
  <2>1. CASE p = q
    BY <1>1, <2>1
  <2>2. CASE p # q
    BY <1>1, <2>2 DEF OneInv
  <2> QED BY <2>1, <2>2
<1>2. ASSUME NEW k \in Kind, NEW c \in Chan, NEW p \in Packet, In(p, Held(k, c)')
      PROVE  p \in sent' /\ got'[p] = <<>>
  BY <1>2 DEF OneInv
<1>3. \A p \in Packet : got'[p] # <<>> => p \in sent'
  BY DEF OneInv
<1> QED BY <1>1, <1>2, <1>3 DEF OneInv

\* q is written to TUN, and is nowhere any more.
LEMMA OneLeaves ==
    ASSUME OneInv, NEW q \in Packet, TypeOK, q \in sent,
           \A k \in Kind, c \in Chan : /\ Distinct(Held(k, c)') /\ ~In(q, Held(k, c)')
                                       /\ \A p \in Packet : In(p, Held(k, c)') => In(p, Held(k, c)),
           sent' = sent, \A p \in Packet \ {q} : got'[p] = got[p]
    PROVE  OneInv'
<1>1. ASSUME NEW k \in Kind, NEW c \in Chan, NEW p \in Packet, In(p, Held(k, c)')
      PROVE  p \in sent' /\ got'[p] = <<>>
  BY <1>1 DEF OneInv
<1>2. \A p \in Packet : got'[p] # <<>> => p \in sent'
  BY DEF OneInv
<1>3. \A j, k \in Kind, c, d \in Chan, p \in Packet :
          In(p, Held(j, c)') /\ In(p, Held(k, d)') => j = k /\ c = d
  BY DEF OneInv
<1> QED BY <1>1, <1>2, <1>3 DEF OneInv

-----------------------------------------------------------------------------
(* Steps that leave all messages where they are *)

LEMMA HeldSame ==
    ASSUME OInv, UNCHANGED <<queue, writing, to, hwrites, from, got>>, sent \subseteq sent',
           \A c \in Chan : chan'[c].node = chan[c].node /\ chan'[c].peer = chan[c].peer
    PROVE  OneInv' /\ WayInv'
<1>1. \A k \in Kind, c \in Chan : Held(k, c)' = Held(k, c)
  BY DEF Held, Kind
<1>2. OneInv'
  BY <1>1 DEF OInv, OneInv
<1>3. WayInv'
  BY <1>1 DEF OInv, WayInv, Way, Goes
<1> QED BY <1>2, <1>3

\* The goroutine of a channel goes on.
LEMMA ChanStep ==
    ASSUME OInv, NEW c \in Chan, DialFail(c) \/ DialOK(c) \/ ConnEnd(c)
    PROVE  OInv'
<1> USE DEF OInv, ends, history
<1>1. chan[c].pc # "unused" /\ c \in Chan
  BY DEF DialFail, DialOK, ConnEnd, At
<1>2. PICK s : chan' = [chan EXCEPT ![c].pc = s] /\ s \in {"open", "ending", "ended"}
  BY DEF DialFail, DialOK, ConnEnd, ChanGoes
<1>3. /\ UNCHANGED <<m, queue, writing, to, hwrites, from, sent, got, asked>>
  BY DEF DialFail, DialOK, ConnEnd
<1>4. \A d \in Chan : /\ chan'[d].node = chan[d].node /\ chan'[d].peer = chan[d].peer
                      /\ chan'[d].pc = "unused" <=> chan[d].pc = "unused"
                      /\ chan'[d].pc = "dialing" => chan[d].pc = "dialing"
  BY <1>1, <1>2 DEF TypeOK
<1>5. \/ stream' = stream /\ handler' = handler
      \/ /\ chan[c].pc = "dialing"
         /\ stream' = [stream EXCEPT ![c] = "open"]
         /\ handler' = [handler EXCEPT ![c].pc = "entered"]
  BY DEF DialFail, DialOK, ConnEnd, At
<1>6. id' = id \/ id' = [id EXCEPT ![chan[c].node][chan[c].peer] = Nil]
  BY DEF DialFail, DialOK, ConnEnd
<1>7. /\ IdType'
      /\ \A n, p \in Node : id'[n][p] \in {id[n][p], Nil}
  <2>1. IdType /\ chan[c].node \in Node /\ chan[c].peer \in Node
    BY <1>1 DEF TypeOK, IdType, ChanInv
  <2>2. CASE id' = id
    BY <2>1, <2>2 DEF IdType
  <2>3. CASE id' = [id EXCEPT ![chan[c].node][chan[c].peer] = Nil]
    BY <2>1, <2>3 DEF IdType
  <2> QED BY <1>6, <2>2, <2>3
<1>8. ChanType' /\ HandlerType' /\ StreamType'
  <2>1. ChanType /\ HandlerType /\ StreamType
    BY DEF TypeOK, ChanType, HandlerType, StreamType
  <2> HIDE DEF OInv
  <2>2. ChanType'
    BY <1>2, <2>1 DEF ChanType
  <2>3. HandlerType'
    BY <1>5, <2>1 DEF HandlerType
  <2>4. StreamType'
    BY <1>5, <2>1 DEF StreamType
  <2> QED BY <2>2, <2>3, <2>4
<1>10. TypeOK'
  BY <1>3, <1>7, <1>8 DEF TypeOK, IdType, ChanType, HandlerType, StreamType
<1>11. ChanInv'
  <2> SUFFICES ASSUME NEW d \in Chan PROVE ChanInv!(d)'
    BY DEF ChanInv
  <2>1. CASE stream'[d] = stream[d] /\ handler'[d] = handler[d]
    BY <1>3, <1>4, <2>1 DEF ChanInv, Answers
  <2>2. CASE /\ d = c /\ chan[d].pc = "dialing" /\ stream'[d] = "open"
             /\ handler'[d].pc = "entered"
    <3>1. ChanInv!(d)
      BY DEF ChanInv
    <3>2. /\ to[d] = <<>> /\ from[d] = <<>> /\ hwrites[d] = <<>>
      BY <2>2, <3>1 DEF NoHandler
    <3>3. chan'[d].pc \in {"open", "ending", "ended"}
      BY <1>2, <2>2 DEF TypeOK
    <3> QED BY <1>3, <1>4, <2>2, <3>1, <3>2, <3>3
  <2> QED BY <1>5, <2>1, <2>2 DEF TypeOK
<1>12. IdInv'
  BY <1>4, <1>7 DEF IdInv, TypeOK
<1>13. AnswersOnly'
  BY <1>3 DEF AnswersOnly
<1>14. OneInv' /\ WayInv'
  BY <1>3, <1>4, HeldSame
<1> QED BY <1>10, <1>11, <1>12, <1>13, <1>14

\* VPNHandler chooses what to do with a stream.
LEMMA HandlerStartStep ==
    ASSUME OInv, NEW c \in Chan, HandlerStart(c)
    PROVE  OInv'
<1> USE DEF history
<1> DEFINE n == chan[c].peer
           k == chan[c].node
<1>1. /\ handler[c].pc = "entered"
      /\ UNCHANGED <<m, id, chan, queue, writing, stream, to, from, hwrites, sent, got, asked>>
  BY DEF HandlerStart
<1>2. /\ IdType /\ HandlerType /\ TypeOK /\ ChanInv /\ IdInv /\ n \in Node /\ k \in Node
      /\ chan[c].pc # "unused"
  <2>1. chan[c].pc # "unused"
    BY <1>1 DEF OInv, ChanInv, NoHandler
  <2> QED BY <2>1 DEF OInv, ChanInv, TypeOK, IdType, HandlerType
<1>3. PICK h : /\ handler' = [handler EXCEPT ![c] = h]
               /\ \/ h = [pc |-> "closed", chan |-> Nil]
                  \/ h = [pc |-> "left", chan |-> Nil]
                  \/ h = [pc |-> "serving", chan |-> id[n][k]] /\ id[n][k] # Nil
  BY DEF HandlerStart
<1> HIDE DEF n, k
<1>4. h.pc \in {"closed", "left", "serving"} /\ h.pc = "serving" => h.chan = id[n][k] /\ id[n][k] # Nil
  BY <1>3
<1>5. handler'[c] = h /\ (\A d \in Chan \ {c} : handler'[d] = handler[d]) /\ HandlerType'
  BY <1>2, <1>3 DEF HandlerType, IdType
<1>6. TypeOK'
  BY <1>1, <1>2, <1>5 DEF TypeOK, HandlerType
<1>7. ChanInv'
  <2> SUFFICES ASSUME NEW d \in Chan PROVE ChanInv!(d)'
    BY DEF ChanInv
  <2>1. CASE d # c
    BY <1>1, <1>2, <1>5, <2>1 DEF ChanInv, Answers
  <2>2. CASE d = c
    <3>1. stream[c] # "none" /\ hwrites[c] = <<>>
      BY <1>1, <1>2 DEF ChanInv, NoHandler
    <3>2. h.pc = "serving" => Answers(c)'
      BY <1>1, <1>2, <1>4, <1>5 DEF IdInv, IdType, Answers, n, k
    <3> QED BY <1>1, <1>2, <1>4, <1>5, <2>2, <3>1, <3>2 DEF ChanInv
  <2> QED BY <2>1, <2>2
<1>8. IdInv' /\ AnswersOnly'
  BY <1>1 DEF OInv, IdInv, AnswersOnly
<1> QED BY <1>1, <1>6, <1>7, <1>8, HeldSame DEF OInv

\* A packet that is dropped, and steps of nobody.
LEMMA DropStep ==
    ASSUME OInv, (\E p \in Packet : Drop(p)) \/ UNCHANGED vars
    PROVE  OInv'
<1>1. /\ UNCHANGED <<m, id, chan, queue, writing, stream, to, from, handler, hwrites, got, asked>>
      /\ sent \subseteq sent' /\ sent' \subseteq Packet
  BY DEF Drop, Accept, vars, ends, history, OInv, TypeOK
<1>2. TypeOK'
  BY <1>1 DEF OInv, TypeOK
<1>3. ChanInv'
  BY <1>1 DEF OInv, ChanInv, Answers
<1>4. IdInv' /\ AnswersOnly'
  BY <1>1 DEF OInv, IdInv, AnswersOnly
<1> QED BY <1>1, <1>2, <1>3, <1>4, HeldSame DEF OInv

-----------------------------------------------------------------------------
(* Steps that move a message *)

\* The parts of TypeOK about messages.
MsgType ==
    /\ queue \in [Chan -> Seq(Msg)] /\ writing \in [Chan -> Seq(Msg)] /\ hwrites \in [Chan -> Seq(Msg)]
    /\ to \in [Chan -> Seq(Msg)] /\ from \in [Chan -> Seq(Msg)]

LEMMA ShorterTail ==
    ASSUME NEW s \in Seq(Msg), s # <<>>, NEW N \in Nat, Len(s) <= N
    PROVE  Len(Tail(s)) <= N
<1>1. Len(s) \in Nat /\ Len(Tail(s)) = Len(s) - 1
  BY LenProperties, MsgTail
<1> QED BY <1>1

LEMMA HeldType == OInv => \A k \in Kind, c \in Chan : Held(k, c) \in Seq(Msg)
  BY DEF OInv, TypeOK, Held, Kind

LEMMA MsgPkt == \A e \in Msg : e.pkt \in Packet /\ e.len \in 0..BuffSize
  BY DEF Msg

\* The first message of one place, J of B, is moved to the end of another, K of C.
LEMMA Shift ==
    ASSUME OInv, NEW J \in Kind, NEW B \in Chan, NEW K \in Kind, NEW C \in Chan,
           J # K, Held(J, B) # <<>>,
           Way(K, C, Head(Held(J, B))),
           Held(J, B)' = Tail(Held(J, B)),
           Held(K, C)' = Append(Held(K, C), Head(Held(J, B))),
           \A k \in Kind, c \in Chan :
               Held(k, c)' = Held(k, c) \/ (k = J /\ c = B) \/ (k = K /\ c = C),
           UNCHANGED <<chan, sent, got>>
    PROVE  OneInv' /\ WayInv'
<1> DEFINE e == Head(Held(J, B))
           q == e.pkt
<1>1. /\ \A k \in Kind, c \in Chan : Held(k, c) \in Seq(Msg)
      /\ OneInv /\ WayInv
  BY HeldType DEF OInv
<1>2. /\ e \in Msg /\ q \in Packet /\ In(q, Held(J, B))
      /\ \A p \in Packet : In(p, Held(J, B)') => In(p, Held(J, B))
      /\ Distinct(Held(J, B)') /\ ~In(q, Held(J, B)')
      /\ \A i \in DOMAIN Held(J, B)' : \E j \in DOMAIN Held(J, B) : Held(J, B)'[i] = Held(J, B)[j]
  BY <1>1, MsgTail, MsgPkt DEF OneInv
<1>3. ~In(q, Held(K, C)) /\ q \in sent /\ got[q] = <<>>
  BY <1>1, <1>2 DEF OneInv
<1>4. /\ \A p \in Packet : In(p, Held(K, C)') => In(p, Held(K, C)) \/ p = q
      /\ Distinct(Held(K, C)')
      /\ \A i \in DOMAIN Held(K, C)' :
            Held(K, C)'[i] = e \/ \E j \in DOMAIN Held(K, C) : Held(K, C)'[i] = Held(K, C)[j]
  BY <1>1, <1>2, <1>3, MsgAppend DEF OneInv
<1> HIDE DEF e, q
<1>5. OneInv'
  <2>1. ASSUME NEW k \in Kind, NEW c \in Chan PROVE Distinct(Held(k, c)')
    <3>1. Distinct(Held(k, c))
      BY <1>1 DEF OneInv
    <3>2. CASE Held(k, c)' = Held(k, c)
      BY <3>1, <3>2
    <3> QED BY <1>2, <1>4, <3>2
  <2>2. \A k \in Kind, c \in Chan, p \in Packet :
            In(p, Held(k, c)') => In(p, Held(k, c)) \/ (k = K /\ c = C /\ p = q)
    BY <1>2, <1>4
  <2>3. \A k \in Kind, c \in Chan : In(q, Held(k, c)') => k = K /\ c = C
    BY <1>1, <1>2, <2>2 DEF OneInv
  <2> QED BY <1>1, <1>2, <1>3, <2>1, <2>2, <2>3, OneMoves
<1>6. WayInv'
  <2> SUFFICES ASSUME NEW k \in Kind, NEW c \in Chan, NEW i \in DOMAIN Held(k, c)'
               PROVE  Way(k, c, Held(k, c)'[i])
    BY DEF WayInv, Way, Goes
  <2>1. CASE k = J /\ c = B
    BY <1>1, <1>2, <2>1 DEF WayInv
  <2>2. CASE k = K /\ c = C
    BY <1>1, <1>4, <2>2 DEF WayInv, e
  <2>3. CASE Held(k, c)' = Held(k, c)
    BY <1>1, <2>3 DEF WayInv
  <2> QED BY <2>1, <2>2, <2>3
<1> QED BY <1>5, <1>6

\* The first message of J of B is taken, and q, which was in it, is written to TUN.
LEMMA Leaves ==
    ASSUME OInv, NEW J \in Kind, NEW B \in Chan, Held(J, B) # <<>>,
           Held(J, B)' = Tail(Held(J, B)),
           \A k \in Kind, c \in Chan : Held(k, c)' = Held(k, c) \/ (k = J /\ c = B),
           UNCHANGED <<chan, sent>>,
           \A p \in Packet \ {Head(Held(J, B)).pkt} : got'[p] = got[p]
    PROVE  OneInv' /\ WayInv'
<1> DEFINE e == Head(Held(J, B))
           q == e.pkt
<1>1. /\ \A k \in Kind, c \in Chan : Held(k, c) \in Seq(Msg)
      /\ OneInv /\ WayInv
  BY HeldType DEF OInv
<1>2. /\ e \in Msg /\ q \in Packet /\ In(q, Held(J, B))
      /\ \A p \in Packet : In(p, Held(J, B)') => In(p, Held(J, B))
      /\ Distinct(Held(J, B)') /\ ~In(q, Held(J, B)')
      /\ \A i \in DOMAIN Held(J, B)' : \E j \in DOMAIN Held(J, B) : Held(J, B)'[i] = Held(J, B)[j]
  BY <1>1, MsgTail, MsgPkt DEF OneInv
<1> HIDE DEF e, q
<1>3. q \in sent
  BY <1>1, <1>2 DEF OneInv
<1>4. ASSUME NEW k \in Kind, NEW c \in Chan
      PROVE  /\ Distinct(Held(k, c)') /\ ~In(q, Held(k, c)')
             /\ \A p \in Packet : In(p, Held(k, c)') => In(p, Held(k, c))
  <2>1. CASE k = J /\ c = B
    BY <1>2, <2>1
  <2>2. CASE Held(k, c)' = Held(k, c) /\ ~(k = J /\ c = B)
    <3>1. Distinct(Held(k, c)) /\ ~In(q, Held(k, c))
      BY <1>1, <1>2, <2>2 DEF OneInv
    <3> QED BY <2>2, <3>1
  <2> QED BY <2>1, <2>2
<1>5. OneInv'
  <2>1. \A p \in Packet \ {q} : got'[p] = got[p]
    BY DEF e, q
  <2> QED BY <1>1, <1>2, <1>3, <1>4, <2>1, OneLeaves DEF OInv
<1>6. WayInv'
  <2> SUFFICES ASSUME NEW k \in Kind, NEW c \in Chan, NEW i \in DOMAIN Held(k, c)'
               PROVE  Way(k, c, Held(k, c)'[i])
    BY DEF WayInv, Way, Goes
  <2>1. CASE k = J /\ c = B
    BY <1>1, <1>2, <2>1 DEF WayInv
  <2>2. CASE Held(k, c)' = Held(k, c)
    BY <1>1, <2>2 DEF WayInv
  <2> QED BY <2>1, <2>2
<1> QED BY <1>5, <1>6

\* Places are emptied, and what was in them is lost.
LEMMA Lost ==
    ASSUME OInv,
           \A k \in Kind, c \in Chan : Held(k, c)' = Held(k, c) \/ Held(k, c)' = <<>>,
           \A c \in Chan : chan'[c].node = chan[c].node /\ chan'[c].peer = chan[c].peer,
           UNCHANGED <<sent, got>>
    PROVE  OneInv' /\ WayInv'
<1>1. OneInv /\ WayInv
  BY DEF OInv
<1>2. ASSUME NEW k \in Kind, NEW c \in Chan
      PROVE  /\ Distinct(Held(k, c)')
             /\ \A p \in Packet : In(p, Held(k, c)') => In(p, Held(k, c))
             /\ \A i \in DOMAIN Held(k, c)' : Held(k, c)' = Held(k, c)
  <2>1. Distinct(Held(k, c))
    BY <1>1 DEF OneInv
  <2> QED BY <1>2, <2>1, MsgNone
<1>3. OneInv'
  BY <1>1, <1>2, OneLess
<1>4. WayInv'
  BY <1>1, <1>2 DEF WayInv, Way, Goes
<1> QED BY <1>3, <1>4

\* addConn takes a message from its channel.
LEMMA ConnTakeStep ==
    ASSUME OInv, NEW c \in Chan, ConnTake(c)
    PROVE  OInv'
<1> DEFINE e == Head(queue[c])
<1>1. /\ chan[c].pc = "open" /\ queue[c] # <<>> /\ writing[c] = <<>>
      /\ writing' = [writing EXCEPT ![c] = <<e>>]
      /\ queue' = [queue EXCEPT ![c] = Tail(queue[c])]
      /\ UNCHANGED <<m, id, chan, stream, to, from, handler, hwrites, sent, got, asked>>
  BY DEF ConnTake, At, ends, history
<1>2. MsgType /\ TypeOK /\ ChanInv /\ WayInv
  BY DEF OInv, TypeOK, MsgType
<1>3. queue[c] \in Seq(Msg)
  BY <1>2 DEF MsgType
<1>4. e \in Msg /\ Tail(queue[c]) \in Seq(Msg) /\ <<e>> \in Seq(Msg) /\ Len(<<e>>) = 1
  BY <1>1, <1>3, MsgTail
<1>5. /\ queue'[c] = Tail(queue[c]) /\ writing'[c] = Append(writing[c], e) /\ writing'[c] = <<e>>
      /\ \A d \in Chan \ {c} : queue'[d] = queue[d] /\ writing'[d] = writing[d]
      /\ MsgType'
  BY <1>1, <1>2, <1>4, MsgFirst DEF MsgType
<1>6. TypeOK'
  <2>1. \A d \in Chan : Len(queue'[d]) <= ChanSize
    BY <1>1, <1>2, <1>3, <1>5, ShorterTail, OverlayAssumption DEF TypeOK
  <2> QED BY <1>1, <1>2, <1>5, <2>1 DEF TypeOK, MsgType
<1>7. ChanInv'
  BY <1>1, <1>2, <1>4, <1>5 DEF ChanInv, Answers
<1>8. OneInv' /\ WayInv'
  <2>1. Way("writing", c, e)
    BY <1>1, <1>2, <1>3, MsgTail DEF WayInv, Way, Kind, Held
  <2>2. Held("queue", c) = queue[c] /\ Held("queue", c)' = queue'[c]
    BY DEF Held
  <2>3. Held("writing", c) = writing[c] /\ Held("writing", c)' = writing'[c]
    BY DEF Held
  <2>4. \A k \in Kind, d \in Chan :
            Held(k, d)' = Held(k, d) \/ (k = "queue" /\ d = c) \/ (k = "writing" /\ d = c)
    BY <1>1, <1>5 DEF Held, Kind
  <2>5. "queue" \in Kind /\ "writing" \in Kind
    BY DEF Kind
  <2>6. /\ Held("queue", c) # <<>> /\ Way("writing", c, Head(Held("queue", c)))
        /\ Held("queue", c)' = Tail(Held("queue", c))
        /\ Held("writing", c)' = Append(Held("writing", c), Head(Held("queue", c)))
    BY <1>1, <1>5, <2>1, <2>2, <2>3
  <2> QED BY <1>1, <2>4, <2>5, <2>6, Shift
<1>9. IdInv' /\ AnswersOnly'
  BY <1>1 DEF OInv, IdInv, AnswersOnly
<1> QED BY <1>6, <1>7, <1>8, <1>9 DEF OInv

\* VPNHandler takes one from the channel of the node it answers for.
LEMMA HandlerTakeStep ==
    ASSUME OInv, NEW c \in Chan, HandlerTake(c)
    PROVE  OInv'
<1> SUFFICES ASSUME NEW d, d = handler[c].chan PROVE OInv'
  OBVIOUS
<1> DEFINE e == Head(queue[d])
<1>1. /\ handler[c].pc = "serving" /\ queue[d] # <<>> /\ hwrites[c] = <<>>
      /\ hwrites' = [hwrites EXCEPT ![c] = <<e>>]
      /\ queue' = [queue EXCEPT ![d] = Tail(queue[d])]
      /\ UNCHANGED <<m, id, chan, stream, to, from, handler, writing, sent, got, asked>>
  BY DEF HandlerTake, history
<1>2. MsgType /\ TypeOK /\ ChanInv /\ WayInv
  BY DEF OInv, TypeOK, MsgType
<1>3. Answers(c) /\ d \in Chan /\ queue[d] \in Seq(Msg)
  BY <1>1, <1>2 DEF MsgType, ChanInv, Answers
<1>4. e \in Msg /\ Tail(queue[d]) \in Seq(Msg) /\ <<e>> \in Seq(Msg) /\ Len(<<e>>) = 1
  BY <1>1, <1>3, MsgTail
<1>5. /\ queue'[d] = Tail(queue[d]) /\ hwrites'[c] = Append(hwrites[c], e) /\ hwrites'[c] = <<e>>
      /\ \A b \in Chan \ {d} : queue'[b] = queue[b]
      /\ \A b \in Chan \ {c} : hwrites'[b] = hwrites[b]
      /\ MsgType'
  BY <1>1, <1>2, <1>3, <1>4, MsgFirst DEF MsgType
<1>6. TypeOK'
  <2>1. \A b \in Chan : Len(queue'[b]) <= ChanSize
    BY <1>1, <1>2, <1>3, <1>5, ShorterTail, OverlayAssumption DEF TypeOK
  <2> QED BY <1>1, <1>2, <1>5, <2>1 DEF TypeOK, MsgType
<1>7. ChanInv'
  BY <1>1, <1>2, <1>4, <1>5 DEF ChanInv, Answers
<1>8. OneInv' /\ WayInv'
  <2>1. Way("queue", d, e)
    BY <1>1, <1>2, <1>3, MsgTail DEF WayInv, Kind, Held
  <2>2. Way("hwrites", c, e)
    BY <1>3, <2>1 DEF Answers, Way
  <2>3. Held("queue", d) = queue[d] /\ Held("queue", d)' = queue'[d]
    BY DEF Held
  <2>4. Held("hwrites", c) = hwrites[c] /\ Held("hwrites", c)' = hwrites'[c]
    BY DEF Held
  <2>5. \A k \in Kind, b \in Chan :
            Held(k, b)' = Held(k, b) \/ (k = "queue" /\ b = d) \/ (k = "hwrites" /\ b = c)
    BY <1>1, <1>5 DEF Held, Kind
  <2>6. "queue" \in Kind /\ "hwrites" \in Kind
    BY DEF Kind
  <2>7. /\ Held("queue", d) # <<>> /\ Way("hwrites", c, Head(Held("queue", d)))
        /\ Held("queue", d)' = Tail(Held("queue", d))
        /\ Held("hwrites", c)' = Append(Held("hwrites", c), Head(Held("queue", d)))
    BY <1>1, <1>5, <2>2, <2>3, <2>4
  <2>8. d \in Chan /\ UNCHANGED <<chan, sent, got>> /\ "queue" # "hwrites"
    BY <1>1, <1>3
  <2> HIDE DEF e
  <2> QED BY <2>5, <2>6, <2>7, <2>8, Shift
<1>9. IdInv' /\ AnswersOnly'
  BY <1>1 DEF OInv, IdInv, AnswersOnly
<1> QED BY <1>6, <1>7, <1>8, <1>9 DEF OInv

\* addConn writes what it has taken to the stream.
LEMMA ConnWriteStep ==
    ASSUME OInv, NEW c \in Chan, ConnWrite(c)
    PROVE  OInv'
<1> DEFINE e == Head(writing[c])
<1>1. /\ chan[c].pc = "open" /\ writing[c] # <<>> /\ stream[c] = "open" /\ Len(to[c]) < Window
      /\ to' = [to EXCEPT ![c] = to[c] \o writing[c]]
      /\ writing' = [writing EXCEPT ![c] = <<>>]
      /\ UNCHANGED <<m, id, chan, stream, queue, from, handler, hwrites, sent, got, asked>>
  BY DEF ConnWrite, At, history
<1>2. MsgType /\ TypeOK /\ ChanInv /\ WayInv
  BY DEF OInv, TypeOK, MsgType
<1>3. writing[c] \in Seq(Msg) /\ to[c] \in Seq(Msg) /\ Len(writing[c]) <= 1
  BY <1>2 DEF MsgType, ChanInv
<1>4. /\ e \in Msg /\ to[c] \o writing[c] = Append(to[c], e) /\ Tail(writing[c]) = <<>>
      /\ Append(to[c], e) \in Seq(Msg) /\ Len(Append(to[c], e)) = Len(to[c]) + 1 /\ Len(to[c]) \in Nat
  BY <1>1, <1>3, MsgOne, MsgTail, MsgAppend, LenProperties
<1>5. /\ writing'[c] = <<>> /\ to'[c] = Append(to[c], e)
      /\ \A d \in Chan \ {c} : to'[d] = to[d] /\ writing'[d] = writing[d]
      /\ MsgType'
  BY <1>1, <1>2, <1>4, MsgNone DEF MsgType
<1>6. TypeOK'
  <2>1. \A d \in Chan : Len(to'[d]) <= Window
    BY <1>1, <1>2, <1>4, <1>5, OverlayAssumption DEF TypeOK
  <2> QED BY <1>1, <1>2, <1>5, <2>1 DEF TypeOK, MsgType
<1>7. ChanInv'
  BY <1>1, <1>2, <1>5, MsgNone DEF ChanInv, Answers
<1>8. OneInv' /\ WayInv'
  <2>1. Way("to", c, e)
    BY <1>1, <1>2, <1>3, MsgTail DEF WayInv, Way, Kind, Held
  <2>2. Held("writing", c) = writing[c] /\ Held("writing", c)' = writing'[c]
    BY DEF Held
  <2>3. Held("to", c) = to[c] /\ Held("to", c)' = to'[c]
    BY DEF Held
  <2>4. \A k \in Kind, d \in Chan :
            Held(k, d)' = Held(k, d) \/ (k = "writing" /\ d = c) \/ (k = "to" /\ d = c)
    BY <1>1, <1>5 DEF Held, Kind
  <2>5. "writing" \in Kind /\ "to" \in Kind
    BY DEF Kind
  <2>6. /\ Held("writing", c) # <<>> /\ Way("to", c, Head(Held("writing", c)))
        /\ Held("writing", c)' = Tail(Held("writing", c))
        /\ Held("to", c)' = Append(Held("to", c), Head(Held("writing", c)))
    BY <1>1, <1>4, <1>5, <2>1, <2>2, <2>3
  <2>7. UNCHANGED <<chan, sent, got>> /\ "writing" # "to"
    BY <1>1
  <2> HIDE DEF e
  <2> QED BY <2>4, <2>5, <2>6, <2>7, Shift
<1>9. IdInv' /\ AnswersOnly'
  BY <1>1 DEF OInv, IdInv, AnswersOnly
<1> QED BY <1>6, <1>7, <1>8, <1>9 DEF OInv

\* VPNHandler writes what it has taken, or loses it.
LEMMA HandlerWriteStep ==
    ASSUME OInv, NEW c \in Chan, HandlerWrite(c)
    PROVE  OInv'
<1> DEFINE e == Head(hwrites[c])
<1>1. /\ handler[c].pc = "serving" /\ hwrites[c] # <<>>
      /\ \/ /\ stream[c] = "open" /\ Len(from[c]) < Window
            /\ from' = [from EXCEPT ![c] = from[c] \o hwrites[c]]
         \/ from' = from
      /\ hwrites' = [hwrites EXCEPT ![c] = <<>>]
      /\ UNCHANGED <<m, id, chan, queue, writing, stream, to, handler, sent, got, asked>>
  BY DEF HandlerWrite, history
<1>2. MsgType /\ TypeOK /\ ChanInv /\ WayInv
  BY DEF OInv, TypeOK, MsgType
<1>3. hwrites[c] \in Seq(Msg) /\ from[c] \in Seq(Msg) /\ Len(hwrites[c]) <= 1
  BY <1>2 DEF MsgType, ChanInv
<1>4. /\ e \in Msg /\ from[c] \o hwrites[c] = Append(from[c], e) /\ Tail(hwrites[c]) = <<>>
      /\ Append(from[c], e) \in Seq(Msg) /\ Len(Append(from[c], e)) = Len(from[c]) + 1
      /\ Len(from[c]) \in Nat
  BY <1>1, <1>3, MsgOne, MsgTail, MsgAppend, LenProperties
<1>5. /\ hwrites'[c] = <<>>
      /\ \/ from' = from
         \/ /\ from'[c] = Append(from[c], e) /\ stream[c] = "open"
            /\ Len(from[c]) < Window
      /\ \A d \in Chan \ {c} : from'[d] = from[d] /\ hwrites'[d] = hwrites[d]
      /\ MsgType'
  BY <1>1, <1>2, <1>4, MsgNone, ZenonT(60) DEF MsgType
<1>6. TypeOK'
  <2>1. ASSUME NEW d \in Chan PROVE Len(from'[d]) <= Window
    <3>1. Len(from[d]) <= Window
      BY <1>2 DEF TypeOK
    <3>2. Len(from[c]) < Window => Len(Append(from[c], e)) <= Window
      BY <1>4, OverlayAssumption
    <3> HIDE DEF e
    <3> QED BY <1>5, <3>1, <3>2
  <2> QED BY <1>1, <1>2, <1>5, <2>1 DEF TypeOK, MsgType
<1>7. ChanInv'
  BY <1>1, <1>2, <1>5, MsgNone DEF ChanInv, Answers
<1>8. OneInv' /\ WayInv'
  <2>1. Way("from", c, e)
    BY <1>1, <1>2, <1>3, MsgTail DEF WayInv, Way, Kind, Held
  <2>2. Held("hwrites", c) = hwrites[c] /\ Held("hwrites", c)' = hwrites'[c]
    BY DEF Held
  <2>3. Held("from", c) = from[c] /\ Held("from", c)' = from'[c]
    BY DEF Held
  <2>4. \A k \in Kind, d \in Chan :
            \/ Held(k, d)' = Held(k, d) \/ (k = "hwrites" /\ d = c)
            \/ (k = "from" /\ d = c /\ from' # from)
    BY <1>1, <1>5 DEF Held, Kind
  <2>5. "hwrites" \in Kind /\ "from" \in Kind /\ "hwrites" # "from" /\ UNCHANGED <<chan, sent, got>>
    BY <1>1 DEF Kind
  <2> HIDE DEF e
  <2>6. CASE from' = from
    <3>1. \A k \in Kind, d \in Chan : Held(k, d)' = Held(k, d) \/ Held(k, d)' = <<>>
      BY <1>5, <2>2, <2>4, <2>6
    <3> QED BY <2>5, <3>1, Lost
  <2>7. CASE from'[c] = Append(from[c], e)
    <3>1. /\ Held("hwrites", c) # <<>> /\ Way("from", c, Head(Held("hwrites", c)))
          /\ Held("hwrites", c)' = Tail(Held("hwrites", c))
          /\ Held("from", c)' = Append(Held("from", c), Head(Held("hwrites", c)))
      BY <1>1, <1>4, <1>5, <2>1, <2>2, <2>3, <2>7 DEF e
    <3> QED BY <2>4, <2>5, <3>1, Shift
  <2> QED BY <1>5, <2>6, <2>7
<1>9. IdInv' /\ AnswersOnly'
  BY <1>1 DEF OInv, IdInv, AnswersOnly
<1> QED BY <1>6, <1>7, <1>8, <1>9 DEF OInv

-----------------------------------------------------------------------------
(* Steps that write a packet to TUN, and what the service sees of them *)

\* The packet is written where the service says, and nowhere before.
Delivers == \E p \in Packet : Service!Deliver(p) /\ Src[p] \in asked[Dst[p]]

LEMMA WriteDelivers ==
    ASSUME OInv, NEW J \in {"to", "from"}, NEW c \in Chan, NEW n \in Node, Held(J, c) # <<>>,
           n = IF J = "to" THEN chan[c].peer ELSE chan[c].node,
           Write(n, Head(Held(J, c))), sent' = sent,
           IF J = "to" THEN chan[c].node \in asked[n] ELSE chan[c].peer \in asked[n]
    PROVE  /\ Delivers
           /\ got' \in [Packet -> Seq([at : Node, len : 0..BuffSize])]
           /\ \A p \in Packet \ {Head(Held(J, c)).pkt} : got'[p] = got[p]
<1> DEFINE e == Head(Held(J, c))
           r == [at |-> n, len |-> e.len]
<1>1. J \in Kind /\ Held(J, c) \in Seq(Msg) /\ OneInv /\ WayInv
  BY HeldType DEF OInv, Kind
<1>2. /\ e \in Msg /\ e.pkt \in Packet /\ e.len \in 0..BuffSize
      /\ In(e.pkt, Held(J, c)) /\ Way(J, c, e)
  BY <1>1, MsgTail, MsgPkt DEF WayInv
<1>3. e.pkt \in sent /\ got[e.pkt] = <<>>
  BY <1>1, <1>2 DEF OneInv
<1>4. Dst[e.pkt] = n /\ e.len = Size[e.pkt] /\ Src[e.pkt] \in asked[n]
  BY <1>2 DEF Way, Goes
<1>5. /\ got \in [Packet -> Seq([at : Node, len : 0..BuffSize])]
      /\ r \in [at : Node, len : 0..BuffSize]
  BY <1>2 DEF OInv, TypeOK
<1>6. got' = [got EXCEPT ![e.pkt] = <<r>>]
  BY <1>3, MsgFirst DEF Write
<1>7. <<r>> \in Seq([at : Node, len : 0..BuffSize])
  BY <1>5
<1> HIDE DEF e
<1>8. Service!Deliver(e.pkt)
  BY <1>3, <1>4, <1>6 DEF Service!Deliver
<1>9. Delivers
  BY <1>2, <1>4, <1>8 DEF Delivers
<1> HIDE DEF r
<1>10. got' \in [Packet -> Seq([at : Node, len : 0..BuffSize])]
  BY <1>2, <1>5, <1>6, <1>7
<1> QED BY <1>2, <1>5, <1>6, <1>9, <1>10 DEF e

\* A packet that is delivered was sent by a peer that the node has asked for.
LEMMA DeliversAnswers ==
    ASSUME OInv, Delivers, asked' = asked
    PROVE  AnswersOnly'
<1>1. PICK p \in Packet : Service!Deliver(p) /\ Src[p] \in asked[Dst[p]]
  BY DEF Delivers
<1>2. \A q \in Packet \ {p} : got'[q] = got[q]
  BY <1>1 DEF Service!Deliver, OInv, TypeOK
<1> QED BY <1>1, <1>2 DEF AnswersOnly, OInv

\* The reading goroutine of VPNHandler, or what drains a stream it has closed.
LEMMA ReadToStep ==
    ASSUME OInv, NEW c \in Chan, ReadTo(c)
    PROVE  OInv' /\ (Delivers \/ UNCHANGED <<sent, got>>)
<1>1. /\ handler[c].pc \in {"serving", "closed"} /\ stream[c] = "open" /\ to[c] # <<>>
      /\ to' = [to EXCEPT ![c] = Tail(to[c])]
      /\ IF handler[c].pc = "serving" THEN Write(chan[c].peer, Head(to[c])) ELSE got' = got
      /\ UNCHANGED <<m, id, chan, queue, writing, stream, from, handler, hwrites, sent, asked>>
  BY DEF ReadTo
<1>2. MsgType /\ TypeOK /\ ChanInv /\ chan[c].pc # "unused"
  BY <1>1 DEF OInv, TypeOK, MsgType, ChanInv
<1>3. to[c] \in Seq(Msg) /\ Tail(to[c]) \in Seq(Msg)
  BY <1>1, <1>2, MsgTail DEF MsgType
<1>4. to'[c] = Tail(to[c]) /\ (\A d \in Chan \ {c} : to'[d] = to[d]) /\ MsgType'
  BY <1>1, <1>2, <1>3 DEF MsgType
<1>5. Held("to", c) = to[c] /\ Held("to", c)' = to'[c] /\ "to" \in Kind
  BY DEF Held, Kind
<1>6. /\ chan[c].peer \in Node
      /\ handler[c].pc = "serving" => chan[c].node \in asked[chan[c].peer]
  BY <1>2 DEF ChanInv, Answers
<1>7. CASE handler[c].pc = "serving"
  <2> SUFFICES ASSUME NEW n, n = chan[c].peer
               PROVE  OInv' /\ Delivers
    OBVIOUS
  <2>1. Held("to", c) # <<>> /\ Write(n, Head(Held("to", c))) /\ sent' = sent
    BY <1>1, <1>5, <1>7
  <2>2. n = (IF "to" = "to" THEN chan[c].peer ELSE chan[c].node) /\ n \in Node
    BY <1>6
  <2>3. IF "to" = "to" THEN chan[c].node \in asked[n] ELSE chan[c].peer \in asked[n]
    BY <1>6, <1>7
  <2>4. /\ Delivers
        /\ got' \in [Packet -> Seq([at : Node, len : 0..BuffSize])]
        /\ \A p \in Packet \ {Head(Held("to", c)).pkt} : got'[p] = got[p]
    BY <2>1, <2>2, <2>3, WriteDelivers
  <2>5. OneInv' /\ WayInv'
    <3>1. Held("to", c)' = Tail(Held("to", c)) /\ UNCHANGED <<chan, sent>>
      BY <1>1, <1>4, <1>5
    <3>2. \A k \in Kind, d \in Chan : Held(k, d)' = Held(k, d) \/ (k = "to" /\ d = c)
      BY <1>1, <1>4 DEF Held, Kind
    <3> QED BY <1>5, <2>1, <2>4, <3>1, <3>2, Leaves
  <2>6. TypeOK'
    <3>1. \A d \in Chan : Len(to'[d]) <= Window
      BY <1>1, <1>2, <1>3, <1>4, ShorterTail, OverlayAssumption DEF TypeOK
    <3> QED BY <1>1, <1>2, <1>4, <2>4, <3>1 DEF TypeOK, MsgType
  <2>7. ChanInv' /\ IdInv'
    BY <1>1, <1>2, <1>4 DEF OInv, ChanInv, IdInv, Answers
  <2>8. AnswersOnly'
    BY <1>1, <2>4, DeliversAnswers
  <2> QED BY <2>4, <2>5, <2>6, <2>7, <2>8 DEF OInv
<1>8. CASE got' = got
  <2>1. OneInv' /\ WayInv'
    <3>1. Held("to", c)' = Tail(Held("to", c)) /\ Held("to", c) # <<>>
      BY <1>1, <1>4, <1>5
    <3>2. \A k \in Kind, d \in Chan : Held(k, d)' = Held(k, d) \/ (k = "to" /\ d = c)
      BY <1>1, <1>4 DEF Held, Kind
    <3>3. UNCHANGED <<chan, sent>> /\ \A p \in Packet : got'[p] = got[p]
      BY <1>1, <1>8
    <3> QED BY <1>5, <3>1, <3>2, <3>3, Leaves
  <2>2. TypeOK'
    <3>1. \A d \in Chan : Len(to'[d]) <= Window
      BY <1>1, <1>2, <1>3, <1>4, ShorterTail, OverlayAssumption DEF TypeOK
    <3> QED BY <1>1, <1>2, <1>4, <1>8, <3>1 DEF TypeOK, MsgType
  <2>3. ChanInv' /\ IdInv' /\ AnswersOnly'
    BY <1>1, <1>2, <1>4, <1>8 DEF OInv, ChanInv, IdInv, AnswersOnly, Answers
  <2> QED BY <1>1, <1>8, <2>1, <2>2, <2>3 DEF OInv
<1> QED BY <1>1, <1>7, <1>8

\* The reading goroutine of addConn.
LEMMA ReadFromStep ==
    ASSUME OInv, NEW c \in Chan, ReadFrom(c)
    PROVE  OInv' /\ Delivers
<1>1. /\ stream[c] = "open" /\ from[c] # <<>>
      /\ from' = [from EXCEPT ![c] = Tail(from[c])]
      /\ Write(chan[c].node, Head(from[c]))
      /\ UNCHANGED <<m, id, chan, queue, writing, stream, to, handler, hwrites, sent, asked>>
  BY DEF ReadFrom
<1>2. MsgType /\ TypeOK /\ ChanInv /\ chan[c].pc # "unused"
  BY <1>1 DEF OInv, TypeOK, MsgType, ChanInv
<1>3. from[c] \in Seq(Msg) /\ Tail(from[c]) \in Seq(Msg)
  BY <1>1, <1>2, MsgTail DEF MsgType
<1>4. from'[c] = Tail(from[c]) /\ (\A d \in Chan \ {c} : from'[d] = from[d]) /\ MsgType'
  BY <1>1, <1>2, <1>3 DEF MsgType
<1>5. Held("from", c) = from[c] /\ Held("from", c)' = from'[c] /\ "from" \in Kind
  BY DEF Held, Kind
<1>6. chan[c].node \in Node /\ chan[c].peer \in asked[chan[c].node]
  BY <1>2 DEF ChanInv
<1> SUFFICES ASSUME NEW n, n = chan[c].node
             PROVE  OInv' /\ Delivers
  OBVIOUS
<1>7. Held("from", c) # <<>> /\ Write(n, Head(Held("from", c))) /\ sent' = sent
  BY <1>1, <1>5
<1>8. n = (IF "from" = "to" THEN chan[c].peer ELSE chan[c].node) /\ n \in Node
  BY <1>6
<1>9. IF "from" = "to" THEN chan[c].node \in asked[n] ELSE chan[c].peer \in asked[n]
  BY <1>6
<1>10. /\ Delivers
       /\ got' \in [Packet -> Seq([at : Node, len : 0..BuffSize])]
       /\ \A p \in Packet \ {Head(Held("from", c)).pkt} : got'[p] = got[p]
  BY <1>7, <1>8, <1>9, WriteDelivers
<1>11. OneInv' /\ WayInv'
  <2>1. Held("from", c)' = Tail(Held("from", c)) /\ UNCHANGED <<chan, sent>>
    BY <1>1, <1>4, <1>5
  <2>2. \A k \in Kind, d \in Chan : Held(k, d)' = Held(k, d) \/ (k = "from" /\ d = c)
    BY <1>1, <1>4 DEF Held, Kind
  <2> QED BY <1>5, <1>7, <1>10, <2>1, <2>2, Leaves
<1>12. TypeOK'
  <2>1. \A d \in Chan : Len(from'[d]) <= Window
    BY <1>1, <1>2, <1>3, <1>4, ShorterTail, OverlayAssumption DEF TypeOK
  <2> QED BY <1>1, <1>2, <1>4, <1>10, <2>1 DEF TypeOK, MsgType
<1>13. ChanInv' /\ IdInv'
  BY <1>1, <1>2, <1>4 DEF OInv, ChanInv, IdInv, Answers
<1>14. AnswersOnly'
  BY <1>1, <1>10, DeliversAnswers
<1> QED BY <1>10, <1>11, <1>12, <1>13, <1>14 DEF OInv

-----------------------------------------------------------------------------
(* Steps that lose messages *)

LEMMA ConnWriteFailStep ==
    ASSUME OInv, NEW c \in Chan, ConnWriteFail(c)
    PROVE  OInv'
<1>1. /\ chan[c].pc = "open" /\ chan' = [chan EXCEPT ![c].pc = "ending"]
      /\ writing' = [writing EXCEPT ![c] = <<>>]
      /\ UNCHANGED <<m, id, queue, stream, to, from, handler, hwrites, sent, got, asked>>
  BY DEF ConnWriteFail, At, ChanGoes, ends, history
<1>2. ChanType /\ MsgType /\ TypeOK /\ ChanInv /\ IdInv
  BY DEF OInv, TypeOK, MsgType, ChanType
<1>3. /\ ChanType'
      /\ \A d \in Chan : /\ chan'[d].node = chan[d].node /\ chan'[d].peer = chan[d].peer
                         /\ chan'[d].pc = "unused" <=> chan[d].pc = "unused"
                         /\ chan'[d].pc = "dialing" => chan[d].pc = "dialing"
  BY <1>1, <1>2 DEF ChanType
<1>4. writing'[c] = <<>> /\ (\A d \in Chan \ {c} : writing'[d] = writing[d]) /\ MsgType'
  BY <1>1, <1>2, MsgNone DEF MsgType
<1>5. TypeOK'
  BY <1>1, <1>2, <1>3, <1>4 DEF TypeOK, ChanType, MsgType
<1>6. ChanInv'
  BY <1>1, <1>2, <1>3, <1>4, MsgNone DEF ChanInv, Answers
<1>7. IdInv' /\ AnswersOnly'
  BY <1>1, <1>2, <1>3 DEF OInv, IdInv, AnswersOnly, TypeOK
<1>8. OneInv' /\ WayInv'
  <2>1. \A k \in Kind, d \in Chan : Held(k, d)' = Held(k, d) \/ Held(k, d)' = <<>>
    BY <1>1, <1>4 DEF Held, Kind
  <2> QED BY <1>1, <1>3, <2>1, Lost
<1> QED BY <1>5, <1>6, <1>7, <1>8 DEF OInv

\* A stream is reset.
LEMMA ResetStep ==
    ASSUME OInv, NEW c \in Chan, Reset(c)
    PROVE  OInv'
<1>1. /\ stream[c] = "open"
      /\ stream' = [d \in Chan |-> IF d \in {c} THEN "reset" ELSE stream[d]]
      /\ to' = [d \in Chan |-> IF d \in {c} THEN <<>> ELSE to[d]]
      /\ from' = [d \in Chan |-> IF d \in {c} THEN <<>> ELSE from[d]]
      /\ UNCHANGED <<m, id, chan, queue, writing, handler, hwrites, sent, got, asked>>
  BY DEF Reset, Break, history
<1>2. StreamType /\ MsgType /\ TypeOK /\ ChanInv
  BY DEF OInv, TypeOK, MsgType, StreamType
<1>3. StreamType'
  BY <1>1, <1>2 DEF StreamType
<1>4. MsgType'
  BY <1>1, <1>2, MsgNone DEF MsgType
<1>5. TypeOK'
  <2>1. \A d \in Chan : Len(to'[d]) <= Window /\ Len(from'[d]) <= Window
    BY <1>1, <1>2, MsgNone, OverlayAssumption DEF TypeOK
  <2> QED BY <1>1, <1>2, <1>3, <1>4, <2>1 DEF TypeOK, StreamType, MsgType
<1>6. ChanInv'
  BY <1>1, <1>2 DEF ChanInv, Answers
<1>7. IdInv' /\ AnswersOnly'
  BY <1>1 DEF OInv, IdInv, AnswersOnly
<1>8. OneInv' /\ WayInv'
  <2>1. \A k \in Kind, d \in Chan : Held(k, d)' = Held(k, d) \/ Held(k, d)' = <<>>
    BY <1>1 DEF Held, Kind
  <2> QED BY <1>1, <2>1, Lost
<1> QED BY <1>5, <1>6, <1>7, <1>8 DEF OInv

\* A node is started again: the others keep their channels to it, but nobody
\* answers any more with a channel of that node.
LEMMA RestartStep ==
    ASSUME OInv, NEW n \in Node, Restart(n)
    PROVE  OInv'
<1> DEFINE own    == {c \in Chan : chan[c].node = n}
           called == {c \in Chan : chan[c].peer = n}
           broken == {c \in own \cup called : stream[c] = "open"}
<1>1. /\ chan' = [c \in Chan |-> IF c \in own THEN [chan[c] EXCEPT !.pc = "ended"] ELSE chan[c]]
      /\ id' = [id EXCEPT ![n] = [p \in Node |-> Nil]]
      /\ queue' = [c \in Chan |-> IF c \in own THEN <<>> ELSE queue[c]]
      /\ writing' = [c \in Chan |-> IF c \in own THEN <<>> ELSE writing[c]]
      /\ handler' = [c \in Chan |-> IF c \in called THEN NoHandler ELSE handler[c]]
      /\ hwrites' = [c \in Chan |-> IF c \in called THEN <<>> ELSE hwrites[c]]
      /\ stream' = [c \in Chan |-> IF c \in broken THEN "reset" ELSE stream[c]]
      /\ to' = [c \in Chan |-> IF c \in broken THEN <<>> ELSE to[c]]
      /\ from' = [c \in Chan |-> IF c \in broken THEN <<>> ELSE from[c]]
      /\ UNCHANGED <<m, sent, got, asked>>
  BY DEF Restart, Break, history
<1>2. /\ IdType /\ ChanType /\ HandlerType /\ StreamType /\ MsgType
      /\ TypeOK /\ ChanInv /\ IdInv
  BY DEF OInv, TypeOK, IdType, ChanType, HandlerType, StreamType, MsgType
<1>3. /\ ChanType'
      /\ \A c \in Chan : /\ chan'[c].node = chan[c].node /\ chan'[c].peer = chan[c].peer
                         /\ chan'[c].pc = (IF c \in own THEN "ended" ELSE chan[c].pc)
  BY <1>1, <1>2 DEF ChanType
<1>4. \A c \in own : chan[c].pc # "unused" /\ c \in Chan
  BY <1>2, OverlayAssumption DEF ChanInv
<1>5. IdType' /\ \A k, p \in Node : id'[k][p] \in {id[k][p], Nil} /\ (k = n => id'[k][p] = Nil)
  BY <1>1, <1>2 DEF IdType
<1>6. HandlerType'
  BY <1>1, <1>2 DEF HandlerType, NoHandler
<1>7. StreamType'
  BY <1>1, <1>2 DEF StreamType
<1>8. MsgType'
  BY <1>1, <1>2, MsgNone DEF MsgType
<1> HIDE DEF own, called, broken
<1>9. TypeOK'
  <2>1. \A c \in Chan : Len(queue'[c]) <= ChanSize
    BY <1>1, <1>2, MsgNone, OverlayAssumption DEF TypeOK
  <2>2. \A c \in Chan : Len(to'[c]) <= Window /\ Len(from'[c]) <= Window
    BY <1>1, <1>2, MsgNone, OverlayAssumption DEF TypeOK
  <2> QED BY <1>1, <1>2, <1>3, <1>5, <1>6, <1>7, <1>8, <2>1, <2>2
          DEF TypeOK, IdType, ChanType, HandlerType, StreamType, MsgType
<1>10. ChanInv'
  <2> SUFFICES ASSUME NEW c \in Chan PROVE ChanInv!(c)'
    BY DEF ChanInv
  <2>1. ChanInv!(c)
    BY <1>2 DEF ChanInv
  <2>2. stream'[c] = (IF c \in broken THEN "reset" ELSE stream[c])
    BY <1>1
  <2>3. /\ handler'[c] = (IF c \in called THEN NoHandler ELSE handler[c])
        /\ hwrites'[c] = (IF c \in called THEN <<>> ELSE hwrites[c])
        /\ writing'[c] = (IF c \in own THEN <<>> ELSE writing[c])
        /\ to'[c] = (IF c \in broken THEN <<>> ELSE to[c])
        /\ from'[c] = (IF c \in broken THEN <<>> ELSE from[c])
    BY <1>1
  <2>4. c \in broken => stream[c] = "open"
    BY DEF broken
  <2>5. /\ chan'[c].pc = "unused" => /\ chan'[c].node = Nil /\ chan'[c].peer = Nil
                                     /\ stream'[c] = "none"
        /\ chan'[c].pc = "dialing" => stream'[c] = "none"
    BY <1>3, <2>1, <2>2, <2>4
  <2>6. chan'[c].pc # "unused" => /\ chan'[c].node \in Node /\ chan'[c].peer \in Node
                                  /\ chan'[c].peer \in asked'[chan'[c].node]
    BY <1>1, <1>3, <1>4, <2>1
  <2>7. /\ stream'[c] = "none" => handler'[c] = NoHandler
        /\ stream'[c] # "open" => to'[c] = <<>> /\ from'[c] = <<>>
    BY <2>1, <2>2, <2>3
  <2>8. handler'[c].pc # "serving" => hwrites'[c] = <<>>
    BY <2>1, <2>3
  <2>9. handler'[c].pc = "serving" => Answers(c)'
    <3> SUFFICES ASSUME handler'[c].pc = "serving" PROVE Answers(c)'
      OBVIOUS
    <3>1. handler'[c] = handler[c]
      BY <2>3 DEF NoHandler
    <3>2. Answers(c)
      BY <2>1, <3>1
    <3> QED BY <1>3, <1>4, <3>1, <3>2 DEF Answers
  <2>10. Len(writing'[c]) <= 1 /\ Len(hwrites'[c]) <= 1
    BY <2>1, <2>3, MsgNone
  <2> QED BY <2>5, <2>6, <2>7, <2>8, <2>9, <2>10
<1>11. IdInv'
  <2> SUFFICES ASSUME NEW k \in Node, NEW p \in Node, id'[k][p] # Nil PROVE IdInv!(k, p)!2'
    BY DEF IdInv
  <2>1. id'[k][p] = id[k][p] /\ id[k][p] \in Chan
    BY <1>2, <1>5 DEF IdType
  <2> QED BY <1>2, <1>3, <1>4, <2>1 DEF IdInv
<1>12. AnswersOnly'
  BY <1>1 DEF OInv, AnswersOnly
<1>13. OneInv' /\ WayInv'
  <2>1. \A k \in Kind, c \in Chan : Held(k, c)' = Held(k, c) \/ Held(k, c)' = <<>>
    BY <1>1 DEF Held, Kind
  <2> QED BY <1>1, <1>3, <2>1, Lost
<1> QED BY <1>9, <1>10, <1>11, <1>12, <1>13 DEF OInv

-----------------------------------------------------------------------------
(* Steps that bring a new message *)

\* The buffer takes the whole packet.
LEMMA WholePacket ==
    ASSUME NEW p \in Packet
    PROVE  /\ Message(p) \in Msg /\ Message(p).pkt = p /\ Message(p).len = Size[p]
           /\ Src[p] \in Node /\ Dst[p] \in Node
<1>1. Size[p] \in 0..BuffSize /\ BuffSize \in Nat /\ Src[p] \in Node /\ Dst[p] \in Node
  BY OverlayAssumption
<1>2. DeviceRead(p) = Size[p]
  BY <1>1 DEF DeviceRead
<1> QED BY <1>1, <1>2 DEF Message, Msg

\* A channel that has not been made yet holds nothing.
LEMMA UnusedEmpty ==
    ASSUME OInv, NEW c \in Chan, chan[c].pc = "unused", NEW k \in Kind
    PROVE  Held(k, c) = <<>>
<1>1. chan[c].node = Nil /\ chan[c].peer = Nil /\ Held(k, c) \in Seq(Msg)
  BY HeldType DEF OInv, ChanInv
<1>2. SUFFICES ASSUME Held(k, c) # <<>> PROVE FALSE
  OBVIOUS
<1>3. Head(Held(k, c)) \in Msg /\ \E i \in DOMAIN Held(k, c) : Head(Held(k, c)) = Held(k, c)[i]
  BY <1>1, <1>2, MsgTail
<1>4. Way(k, c, Head(Held(k, c)))
  BY <1>3 DEF OInv, WayInv
<1>5. Src[Head(Held(k, c)).pkt] = Nil /\ Head(Held(k, c)).pkt \in Packet
  BY <1>1, <1>3, <1>4, MsgPkt DEF Way, Goes
<1> QED BY <1>5, OverlayAssumption

\* p is put into the channel c.
LEMMA Arrives ==
    ASSUME OInv, NEW p \in Packet, p \notin sent, sent' = sent \cup {p}, got' = got, NEW c \in Chan,
           Held("queue", c)' = Append(Held("queue", c), Message(p)),
           \A k \in Kind, d \in Chan : Held(k, d)' = Held(k, d) \/ (k = "queue" /\ d = c),
           chan'[c].node = Src[p], chan'[c].peer = Dst[p],
           \A d \in Chan : \/ chan'[d].node = chan[d].node /\ chan'[d].peer = chan[d].peer
                           \/ \A k \in Kind : Held(k, d) = <<>>
    PROVE  OneInv' /\ WayInv'
<1> DEFINE e == Message(p)
<1>1. /\ \A k \in Kind, d \in Chan : Held(k, d) \in Seq(Msg)
      /\ OneInv /\ WayInv /\ "queue" \in Kind
  BY HeldType DEF OInv, Kind
<1>2. e \in Msg /\ e.pkt = p /\ e.len = Size[p]
  BY WholePacket
<1>3. \A k \in Kind, d \in Chan : ~In(p, Held(k, d))
  BY <1>1 DEF OneInv
<1> HIDE DEF e
<1>4. /\ \A q \in Packet : In(q, Held("queue", c)') => In(q, Held("queue", c)) \/ q = p
      /\ Distinct(Held("queue", c)')
      /\ \A i \in DOMAIN Held("queue", c)' :
            \/ Held("queue", c)'[i] = e
            \/ \E j \in DOMAIN Held("queue", c) : Held("queue", c)'[i] = Held("queue", c)[j]
  <2>1. Distinct(Held("queue", c)) /\ ~In(p, Held("queue", c))
    BY <1>1, <1>3 DEF OneInv
  <2>2. Held("queue", c) \in Seq(Msg) /\ Held("queue", c)' = Append(Held("queue", c), e)
    BY <1>1 DEF e
  <2> DEFINE s == Held("queue", c)
  <2>3. /\ \A q \in Packet : In(q, Append(s, e)) => In(q, s) \/ q = p
        /\ Distinct(Append(s, e))
        /\ \A i \in DOMAIN Append(s, e) :
              Append(s, e)[i] = e \/ \E j \in DOMAIN s : Append(s, e)[i] = s[j]
    <3> HIDE DEF s
    <3> QED BY <1>2, <2>1, <2>2, MsgAppend DEF s
  <2> QED BY <2>2, <2>3
<1>5. OneInv'
  <2>1. ASSUME NEW k \in Kind, NEW d \in Chan PROVE Distinct(Held(k, d)')
    <3>1. Distinct(Held(k, d))
      BY <1>1 DEF OneInv
    <3>2. CASE Held(k, d)' = Held(k, d)
      BY <3>1, <3>2
    <3> QED BY <1>4, <3>2
  <2>2. \A k \in Kind, d \in Chan, q \in Packet :
            In(q, Held(k, d)') => In(q, Held(k, d)) \/ (k = "queue" /\ d = c /\ q = p)
    BY <1>4
  <2>3. \A k \in Kind, d \in Chan : In(p, Held(k, d)') => k = "queue" /\ d = c
    BY <1>3, <2>2
  <2>4. got[p] = <<>>
    BY <1>1 DEF OneInv
  <2> QED BY <1>1, <2>1, <2>2, <2>3, <2>4, OneMoves
<1>6. WayInv'
  <2> SUFFICES ASSUME NEW k \in Kind, NEW d \in Chan, NEW i \in DOMAIN Held(k, d)'
               PROVE  Way(k, d, Held(k, d)[i])'
    BY DEF WayInv
  <2>1. ASSUME NEW j \in DOMAIN Held(k, d), Held(k, d)'[i] = Held(k, d)[j]
        PROVE  Way(k, d, Held(k, d)[i])'
    <3>1. chan'[d].node = chan[d].node /\ chan'[d].peer = chan[d].peer
      BY <2>1, MsgNone
    <3>2. Way(k, d, Held(k, d)[j])
      BY <1>1 DEF WayInv
    <3> QED BY <2>1, <3>1, <3>2 DEF Way, Goes
  <2>2. CASE k = "queue" /\ d = c /\ Held(k, d)'[i] = e
    BY <1>2, <2>2 DEF Way, Goes
  <2>3. CASE Held(k, d)' = Held(k, d)
    BY <2>1, <2>3
  <2> QED BY <1>4, <2>1, <2>2, <2>3
<1> QED BY <1>5, <1>6

\* The peer has a channel.
LEMMA RouteStep ==
    ASSUME OInv, NEW p \in Packet, Route(p)
    PROVE  OInv'
<1> SUFFICES ASSUME NEW c, c = id[Src[p]][Dst[p]] PROVE OInv'
  OBVIOUS
<1>1. /\ p \notin sent /\ sent' = sent \cup {p} /\ c # Nil
      /\ Len(queue[c]) < ChanSize /\ queue' = [queue EXCEPT ![c] = Append(queue[c], Message(p))]
      /\ UNCHANGED <<m, id, chan, writing, stream, to, from, handler, hwrites, got, asked>>
  BY DEF Route, Accept, Enqueue, ends
<1>2. IdType /\ MsgType /\ TypeOK /\ ChanInv /\ IdInv
  BY DEF OInv, TypeOK, MsgType, IdType
<1>3. c \in Chan /\ chan[c].node = Src[p] /\ chan[c].peer = Dst[p] /\ chan[c].pc # "unused"
  BY <1>1, <1>2, WholePacket DEF IdType, IdInv
<1>4. /\ queue[c] \in Seq(Msg) /\ Append(queue[c], Message(p)) \in Seq(Msg)
      /\ Len(Append(queue[c], Message(p))) = Len(queue[c]) + 1 /\ Len(queue[c]) \in Nat
  BY <1>2, <1>3, WholePacket, MsgAppend, LenProperties, SMTT(30) DEF MsgType
<1>5. /\ queue'[c] = Append(queue[c], Message(p)) /\ (\A d \in Chan \ {c} : queue'[d] = queue[d])
      /\ MsgType'
  BY <1>1, <1>2, <1>3, <1>4, ZenonT(60) DEF MsgType
<1>6. TypeOK'
  <2>1. \A d \in Chan : Len(queue'[d]) <= ChanSize
    BY <1>1, <1>2, <1>4, <1>5, OverlayAssumption DEF TypeOK
  <2> QED BY <1>1, <1>2, <1>5, <2>1, ZenonT(60) DEF TypeOK, MsgType
<1>7. ChanInv' /\ IdInv' /\ AnswersOnly'
  BY <1>1, <1>2 DEF OInv, ChanInv, IdInv, AnswersOnly, Answers
<1>8. OneInv' /\ WayInv'
  <2>1. Held("queue", c)' = Append(Held("queue", c), Message(p))
    BY <1>5 DEF Held
  <2>2. \A k \in Kind, d \in Chan : Held(k, d)' = Held(k, d) \/ (k = "queue" /\ d = c)
    BY <1>1, <1>5 DEF Held, Kind
  <2>3. chan' = chan /\ sent' = sent \cup {p} /\ got' = got /\ p \notin sent
    BY <1>1
  <2> QED BY <1>3, <2>1, <2>2, <2>3, Arrives
<1> QED BY <1>6, <1>7, <1>8 DEF OInv

\* The peer has none, and a channel is made.
LEMMA RouteNewStep ==
    ASSUME OInv, NEW p \in Packet, RouteNew(p)
    PROVE  OInv'
<1> SUFFICES ASSUME NEW c, c = Fresh, NEW n, n = Src[p], NEW k, k = Dst[p] PROVE OInv'
  OBVIOUS
<1>1. /\ p \notin sent /\ sent' = sent \cup {p}
      /\ chan' = [chan EXCEPT ![c] = [pc |-> "dialing", node |-> n, peer |-> k]]
      /\ id' = [id EXCEPT ![n][k] = c]
      /\ Len(queue[c]) < ChanSize /\ queue' = [queue EXCEPT ![c] = Append(queue[c], Message(p))]
      /\ asked' = [asked EXCEPT ![n] = asked[n] \cup {k}]
      /\ UNCHANGED <<m, writing, stream, to, from, handler, hwrites, got>>
  BY DEF RouteNew, Accept, Enqueue, ends
<1>2. /\ IdType /\ ChanType /\ MsgType /\ TypeOK /\ ChanInv /\ IdInv
      /\ asked \in [Node -> SUBSET Node]
  BY DEF OInv, TypeOK, MsgType, IdType, ChanType
<1>3. c \in Chan /\ chan[c].pc = "unused" /\ n \in Node /\ k \in Node
  BY WholePacket DEF RouteNew, Fresh
<1>4. /\ queue[c] \in Seq(Msg) /\ Append(queue[c], Message(p)) \in Seq(Msg)
      /\ Len(Append(queue[c], Message(p))) = Len(queue[c]) + 1 /\ Len(queue[c]) \in Nat
  BY <1>2, <1>3, WholePacket, MsgAppend, LenProperties DEF MsgType
<1>5. /\ queue'[c] = Append(queue[c], Message(p)) /\ (\A d \in Chan \ {c} : queue'[d] = queue[d])
      /\ MsgType'
  BY <1>1, <1>2, <1>3, <1>4 DEF MsgType
<1>6. /\ ChanType' /\ chan'[c] = [pc |-> "dialing", node |-> n, peer |-> k]
      /\ \A d \in Chan \ {c} : chan'[d] = chan[d]
  BY <1>1, <1>2, <1>3 DEF ChanType
<1>7. /\ IdType' /\ id'[n][k] = c
      /\ \A a, b \in Node : (a = n /\ b = k) \/ id'[a][b] = id[a][b]
  BY <1>1, <1>2, <1>3 DEF IdType
<1>8. /\ asked' \in [Node -> SUBSET Node] /\ k \in asked'[n]
      /\ \A a \in Node : asked[a] \subseteq asked'[a]
  BY <1>1, <1>2, <1>3
<1>9. TypeOK'
  <2>1. \A d \in Chan : Len(queue'[d]) <= ChanSize
    BY <1>1, <1>2, <1>4, <1>5, OverlayAssumption DEF TypeOK
  <2>2. sent' \in SUBSET Packet /\ UNCHANGED <<m, to, from, handler, stream, got>>
    BY <1>1, <1>2 DEF TypeOK
  <2>3. IdType' /\ ChanType' /\ MsgType' /\ asked' \in [Node -> SUBSET Node]
    BY <1>5, <1>6, <1>7, <1>8
  <2> QED BY <1>2, <2>1, <2>2, <2>3 DEF TypeOK, MsgType, ChanType, IdType
<1>10. ChanInv'
  <2> SUFFICES ASSUME NEW d \in Chan PROVE ChanInv!(d)'
    BY DEF ChanInv
  <2>1. ChanInv!(d)
    BY <1>2 DEF ChanInv
  <2>2. CASE d = c
    <3>1. /\ stream[c] = "none" /\ handler[c] = NoHandler
      BY <1>2, <1>3 DEF ChanInv
    <3>2. handler'[c].pc # "serving"
      BY <1>1, <3>1 DEF NoHandler
    <3> QED BY <1>1, <1>3, <1>6, <1>8, <2>1, <2>2, <3>1, <3>2
  <2>3. CASE d # c
    <3>1. handler[d].pc = "serving" => Answers(d)'
      <4> SUFFICES ASSUME handler[d].pc = "serving" PROVE Answers(d)'
        OBVIOUS
      <4>1. Answers(d) /\ handler[d].chan # c
        BY <1>3, <2>1 DEF Answers
      <4> QED BY <1>1, <1>6, <2>3, <4>1 DEF Answers
    <3>2. chan'[d] = chan[d]
      BY <1>6, <2>3
    <3>3. chan[d].pc # "unused" => chan[d].peer \in asked'[chan[d].node]
      BY <1>8, <2>1
    <3> QED BY <1>1, <2>1, <3>1, <3>2, <3>3
  <2> QED BY <2>2, <2>3
<1>11. IdInv'
  <2> SUFFICES ASSUME NEW a \in Node, NEW b \in Node, id'[a][b] # Nil PROVE IdInv!(a, b)!2'
    BY DEF IdInv
  <2>1. CASE a = n /\ b = k
    BY <1>6, <1>7, <2>1
  <2>2. CASE id'[a][b] = id[a][b]
    <3>1. id[a][b] \in Chan \ {c}
      BY <1>2, <1>3, <2>2 DEF IdType, IdInv
    <3> QED BY <1>2, <1>6, <2>2, <3>1 DEF IdInv
  <2> QED BY <1>7, <2>1, <2>2
<1>12. AnswersOnly'
  BY <1>1, <1>8, WholePacket DEF OInv, AnswersOnly
<1>13. OneInv' /\ WayInv'
  <2>1. Held("queue", c)' = Append(Held("queue", c), Message(p))
    BY <1>5 DEF Held
  <2>2. \A j \in Kind, d \in Chan : Held(j, d)' = Held(j, d) \/ (j = "queue" /\ d = c)
    BY <1>1, <1>5 DEF Held, Kind
  <2>3. sent' = sent \cup {p} /\ got' = got /\ p \notin sent
    BY <1>1
  <2>4. chan'[c].node = Src[p] /\ chan'[c].peer = Dst[p]
    BY <1>6
  <2>5. \A d \in Chan : \/ chan'[d].node = chan[d].node /\ chan'[d].peer = chan[d].peer
                        \/ \A j \in Kind : Held(j, d) = <<>>
    BY <1>3, <1>6, UnusedEmpty
  <2> QED BY <1>3, <2>1, <2>2, <2>3, <2>4, <2>5, Arrives
<1> QED BY <1>9, <1>10, <1>11, <1>12, <1>13 DEF OInv

-----------------------------------------------------------------------------
(* The theorems *)

LEMMA OverlayInit == Init => OInv
<1> SUFFICES ASSUME Init PROVE OInv
  OBVIOUS
<1> USE DEF Init, NoHandler
<1>1. TypeOK
  BY MsgNone, OverlayAssumption DEF TypeOK
<1>2. ChanInv /\ IdInv
  BY MsgNone DEF ChanInv, IdInv
<1>3. \A k \in Kind, c \in Chan : Held(k, c) = <<>>
  BY DEF Held, Kind
<1>4. WayInv /\ OneInv /\ AnswersOnly
  BY <1>3, MsgNone DEF WayInv, OneInv, AnswersOnly
<1> QED BY <1>1, <1>2, <1>4 DEF OInv

LEMMA OverlayStep == OInv /\ [Next]_vars => OInv'
<1> SUFFICES ASSUME OInv, [Next]_vars PROVE OInv'
  OBVIOUS
<1>1. CASE \E p \in Packet : Drop(p) \/ Route(p) \/ RouteNew(p)
  BY <1>1, DropStep, RouteStep, RouteNewStep
<1>2. ASSUME NEW c \in Chan,
             \/ DialFail(c) \/ DialOK(c) \/ ConnTake(c) \/ ConnWrite(c) \/ ConnWriteFail(c) \/ ConnEnd(c)
             \/ HandlerStart(c) \/ HandlerTake(c) \/ HandlerWrite(c)
             \/ ReadTo(c) \/ ReadFrom(c) \/ Reset(c)
      PROVE  OInv'
  BY <1>2, ChanStep, ConnTakeStep, ConnWriteStep, ConnWriteFailStep, HandlerStartStep,
     HandlerTakeStep, HandlerWriteStep, ReadToStep, ReadFromStep, ResetStep
<1>3. CASE \E n \in Node : Restart(n)
  BY <1>3, RestartStep
<1>4. CASE UNCHANGED vars
  BY <1>4, DropStep
<1> QED BY <1>1, <1>2, <1>3, <1>4 DEF Next

\* The inductive invariant of the overlay.
THEOREM OverlayInductive == Spec => []OInv
  BY OverlayInit, OverlayStep, PTL DEF Spec

\* The types, and that channels and streams hold no more than they have room for.
THEOREM TypeCorrect == Spec => []TypeOK
<1>1. OInv => TypeOK
  BY DEF OInv
<1> QED BY <1>1, OverlayInductive, PTL

\* Nothing reaches a node from a peer that it has never made a channel for, since
\* VPNHandler leaves the stream of such a peer.
THEOREM OnlyAnswers == Spec => []AnswersOnly
<1>1. OInv => AnswersOnly
  BY DEF OInv
<1> QED BY <1>1, OverlayInductive, PTL

\* The overlay is a datagram service: whatever streams break, handlers compete for
\* a channel and nodes restart, a packet is written to TUN at most once, at the
\* node it is addressed to, and whole.
THEOREM DatagramService == Spec => Implements
<1>1. Init => Service!Init
  BY DEF Init, Service!Init
<1>2. OInv /\ [Next]_vars => [Service!Next]_(Service!vars)
  <2> SUFFICES ASSUME OInv, Next PROVE Service!Next \/ UNCHANGED <<sent, got>>
    BY DEF vars, history, Service!vars
  <2>1. CASE \E p \in Packet : Drop(p) \/ Route(p) \/ RouteNew(p)
    BY <2>1 DEF Drop, Route, RouteNew, Accept, Service!Next, Service!Send
  <2>2. CASE \E c \in Chan : ReadTo(c) \/ ReadFrom(c)
    <3>1. Delivers \/ UNCHANGED <<sent, got>>
      BY <2>2, ReadToStep, ReadFromStep
    <3> QED BY <3>1 DEF Delivers, Service!Next
  <2>3. CASE \E c \in Chan : \/ DialFail(c) \/ DialOK(c) \/ ConnEnd(c)
                             \/ ConnTake(c) \/ ConnWrite(c) \/ ConnWriteFail(c)
    BY <2>3 DEF DialFail, DialOK, ConnEnd, ConnTake, ConnWrite, ConnWriteFail, history
  <2>4. CASE \E c \in Chan : HandlerStart(c) \/ HandlerTake(c) \/ HandlerWrite(c) \/ Reset(c)
    BY <2>4 DEF HandlerStart, HandlerTake, HandlerWrite, Reset, history
  <2>5. CASE \E n \in Node : Restart(n)
    BY <2>5 DEF Restart, history
  <2> QED BY <2>1, <2>2, <2>3, <2>4, <2>5 DEF Next
<1> QED BY <1>1, <1>2, OverlayInductive, PTL DEF Spec, Implements, Service!Spec
=============================================================================
