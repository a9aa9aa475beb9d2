---------------------------- MODULE EngineProofs ----------------------------
(***************************************************************************)
(* Proofs about Engine, for every set of peers, addresses, channels,       *)
(* handlers and payloads and every channel capacity.                       *)
(***************************************************************************)
EXTENDS Engine, TLAPS

IInv == TypeOK /\ ControlOK /\ DstOK /\ PayloadExclusive

-----------------------------------------------------------------------------
(* Exclusive under the four ways a step can change the owners of payloads *)

Contents == [Place -> Seq(Payload)]

\* Receiving from a channel shifts the other packets by one.
LEMMA TailAt ==
    ASSUME NEW S, NEW s \in Seq(S), s # <<>>, NEW i \in DOMAIN Tail(s)
    PROVE  i \in Nat \ {0} /\ i + 1 \in DOMAIN s /\ Tail(s)[i] = s[i + 1]
<1>1. Len(s) \in Nat /\ Len(s) # 0 /\ Len(Tail(s)) = Len(s) - 1 /\ DOMAIN s = 1..Len(s)
  OBVIOUS
<1>2. i \in 1..(Len(s) - 1)
  BY <1>1
<1> QED BY <1>1, <1>2

\* Sending to a channel leaves the other packets where they are.
LEMMA AppendAt ==
    ASSUME NEW S, NEW s \in Seq(S), NEW e \in S, NEW i \in DOMAIN Append(s, e)
    PROVE  \/ i \in DOMAIN s /\ Append(s, e)[i] = s[i]
           \/ i = Len(s) + 1 /\ Append(s, e)[i] = e
<1>1. Len(s) \in Nat /\ DOMAIN s = 1..Len(s) /\ i \in 1..(Len(s) + 1)
  OBVIOUS
<1> QED BY <1>1

\* A channel operation hands the head of x over to y.
LEMMA MoveExclusive ==
    ASSUME NEW A \in Contents, NEW F, NEW x \in Place, NEW y \in Place, x # y,
           A[x] # <<>>, Exclusive(A, F),
           NEW B \in Contents,
           \A z \in Place : B[z] = IF z = x THEN Tail(A[x])
                                   ELSE IF z = y THEN Append(A[y], Head(A[x]))
                                   ELSE A[z]
    PROVE  Exclusive(B, F)
<1>1. ASSUME NEW z \in Place, NEW i \in DOMAIN B[z]
      PROVE  \/ i \in DOMAIN A[z] /\ z # x /\ B[z][i] = A[z][i]
             \/ z = x /\ i + 1 \in DOMAIN A[z] /\ i \in Nat \ {0} /\ B[z][i] = A[z][i + 1]
             \/ z = y /\ i = Len(A[y]) + 1 /\ B[z][i] = A[x][1]
  <2>1. CASE z = x
    <3>1. A[x] \in Seq(Payload) /\ B[z] = Tail(A[x])
      BY <2>1 DEF Contents
    <3> QED BY <1>1, <2>1, <3>1, TailAt
  <2>2. CASE z = y
    <3>1. A[y] \in Seq(Payload) /\ Head(A[x]) \in Payload /\ Head(A[x]) = A[x][1]
      BY DEF Contents
    <3>2. B[z] = Append(A[y], Head(A[x]))
      BY <2>2
    <3> QED BY <1>1, <2>2, <3>1, <3>2, AppendAt
  <2>3. CASE z # x /\ z # y
    BY <1>1, <2>3 DEF Contents
  <2> QED BY <2>1, <2>2, <2>3
<1>2. 1 \in DOMAIN A[x] /\ \A z \in Place : \A i \in DOMAIN A[z] : i \in Nat
  BY DEF Contents
<1>3. ASSUME NEW u \in Place, NEW v \in Place, NEW i \in DOMAIN B[u], NEW j \in DOMAIN B[v],
             B[u][i] = B[v][j]
      PROVE  u = v /\ i = j
  BY <1>1, <1>2, <1>3 DEF Exclusive
<1>4. ASSUME NEW u \in Place, NEW i \in DOMAIN B[u] PROVE B[u][i] \notin F
  BY <1>1, <1>2 DEF Exclusive
<1> QED BY <1>3, <1>4 DEF Exclusive

\* A payload from the pool is put at the end of y.
LEMMA GetExclusive ==
    ASSUME NEW A \in Contents, NEW F, NEW y \in Place, NEW p \in F, Exclusive(A, F),
           NEW B \in Contents, p \in Payload,
           \A z \in Place : B[z] = IF z = y THEN Append(A[y], p) ELSE A[z]
    PROVE  Exclusive(B, F \ {p})
<1>1. ASSUME NEW z \in Place, NEW i \in DOMAIN B[z]
      PROVE  \/ i \in DOMAIN A[z] /\ B[z][i] = A[z][i]
             \/ z = y /\ i = Len(A[y]) + 1 /\ B[z][i] = p
  BY <1>1, AppendAt DEF Contents
<1>2. ASSUME NEW u \in Place, NEW v \in Place, NEW i \in DOMAIN B[u], NEW j \in DOMAIN B[v],
             B[u][i] = B[v][j]
      PROVE  u = v /\ i = j
  BY <1>1, <1>2 DEF Exclusive
<1>3. ASSUME NEW u \in Place, NEW i \in DOMAIN B[u] PROVE B[u][i] \notin F \ {p}
  BY <1>1 DEF Exclusive
<1> QED BY <1>2, <1>3 DEF Exclusive

\* The head of x is Put back to the pool.
LEMMA PutExclusive ==
    ASSUME NEW A \in Contents, NEW F, NEW x \in Place, A[x] # <<>>, Exclusive(A, F),
           NEW B \in Contents,
           \A z \in Place : B[z] = IF z = x THEN Tail(A[x]) ELSE A[z]
    PROVE  Exclusive(B, F \cup {Head(A[x])})
<1>1. ASSUME NEW z \in Place, NEW i \in DOMAIN B[z]
      PROVE  \/ i \in DOMAIN A[z] /\ z # x /\ B[z][i] = A[z][i]
             \/ z = x /\ i + 1 \in DOMAIN A[z] /\ i \in Nat \ {0} /\ B[z][i] = A[z][i + 1]
  <2>1. CASE z = x
    <3>1. A[x] \in Seq(Payload) /\ B[z] = Tail(A[x])
      BY <2>1 DEF Contents
    <3> QED BY <1>1, <2>1, <3>1, TailAt
  <2>2. CASE z # x
    BY <1>1, <2>2
  <2> QED BY <2>1, <2>2
<1>2. 1 \in DOMAIN A[x] /\ Head(A[x]) = A[x][1]
  BY DEF Contents
<1>3. ASSUME NEW u \in Place, NEW v \in Place, NEW i \in DOMAIN B[u], NEW j \in DOMAIN B[v],
             B[u][i] = B[v][j]
      PROVE  u = v /\ i = j
  BY <1>1, <1>3 DEF Exclusive
<1>4. ASSUME NEW u \in Place, NEW i \in DOMAIN B[u] PROVE B[u][i] \notin F \cup {Head(A[x])}
  BY <1>1, <1>2 DEF Exclusive
<1> QED BY <1>3, <1>4 DEF Exclusive

\* Everything in x becomes garbage.
LEMMA ClearExclusive ==
    ASSUME NEW A \in Contents, NEW F, NEW x \in Place, Exclusive(A, F),
           NEW B \in Contents,
           \A z \in Place : B[z] = IF z = x THEN <<>> ELSE A[z]
    PROVE  Exclusive(B, F \cup Elems(A[x]))
<1>1. ASSUME NEW z \in Place, NEW i \in DOMAIN B[z]
      PROVE  i \in DOMAIN A[z] /\ z # x /\ B[z][i] = A[z][i]
  BY <1>1 DEF Contents
<1> QED BY <1>1 DEF Exclusive, Elems

-----------------------------------------------------------------------------
(* The places, one kind at a time *)

\* Every place is one of the six kinds, and they are different.
LEMMA PlaceKinds ==
    /\ {<<"dev", "reader">>, <<"dev", "writer">>, <<"dev", "router">>} \subseteq Place
    /\ \A c \in Chan : <<"queue", c>> \in Place
    /\ \A l \in Link : <<"writing", l>> \in Place /\ <<"held", l>> \in Place
    /\ \A z \in Place :
          \/ z \in {<<"dev", "reader">>, <<"dev", "writer">>, <<"dev", "router">>}
          \/ \E c \in Chan : z = <<"queue", c>>
          \/ \E l \in Link : z = <<"writing", l>>
          \/ \E l \in Link : z = <<"held", l>>
  BY DEF Place

\* content at each kind of place, before a step and after it.
LEMMA ContentAt ==
    /\ content[<<"dev", "reader">>] = devReader
    /\ content[<<"dev", "writer">>] = devWriter
    /\ content[<<"dev", "router">>] = Opt(router.payload)
    /\ \A c \in Chan : content[<<"queue", c>>] = queue[c]
    /\ \A l \in Link : /\ content[<<"writing", l>>] = Opt(writing[l])
                       /\ content[<<"held", l>>] = Opt(held[l])
<1>1. content[<<"dev", "reader">>] = devReader
  BY PlaceKinds DEF content
<1>2. content[<<"dev", "writer">>] = devWriter
  BY PlaceKinds DEF content
<1>3. content[<<"dev", "router">>] = Opt(router.payload)
  BY PlaceKinds DEF content, Opt
<1>4. ASSUME NEW c \in Chan PROVE content[<<"queue", c>>] = queue[c]
  BY PlaceKinds DEF content
<1>5. ASSUME NEW l \in Link PROVE content[<<"writing", l>>] = Opt(writing[l])
  BY PlaceKinds DEF content, Opt
<1>6. ASSUME NEW l \in Link PROVE content[<<"held", l>>] = Opt(held[l])
  BY PlaceKinds DEF content, Opt
<1> QED BY <1>1, <1>2, <1>3, <1>4, <1>5, <1>6

\* The same for the state after a step.
LEMMA ContentAtPrime ==
    /\ content'[<<"dev", "reader">>] = devReader'
    /\ content'[<<"dev", "writer">>] = devWriter'
    /\ content'[<<"dev", "router">>] = Opt(router'.payload)
    /\ \A c \in Chan : content'[<<"queue", c>>] = queue'[c]
    /\ \A l \in Link : /\ content'[<<"writing", l>>] = Opt(writing'[l])
                       /\ content'[<<"held", l>>] = Opt(held'[l])
<1>1. content'[<<"dev", "reader">>] = devReader'
  BY PlaceKinds DEF content
<1>2. content'[<<"dev", "writer">>] = devWriter'
  BY PlaceKinds DEF content
<1>3. content'[<<"dev", "router">>] = Opt(router'.payload)
  BY PlaceKinds DEF content, Opt
<1>4. ASSUME NEW c \in Chan PROVE content'[<<"queue", c>>] = queue'[c]
  BY PlaceKinds DEF content
<1>5. ASSUME NEW l \in Link PROVE content'[<<"writing", l>>] = Opt(writing'[l])
  BY PlaceKinds DEF content, Opt
<1>6. ASSUME NEW l \in Link PROVE content'[<<"held", l>>] = Opt(held'[l])
  BY PlaceKinds DEF content, Opt
<1> QED BY <1>1, <1>2, <1>3, <1>4, <1>5, <1>6

\* In a type-correct state every place holds a sequence of payloads.
LEMMA ContentType == TypeOK => content \in Contents
<1> SUFFICES ASSUME TypeOK PROVE content \in Contents
  OBVIOUS
<1>1. ASSUME NEW z \in Place PROVE content[z] \in Seq(Payload)
  <2>1. ASSUME NEW p \in Payload \cup {Nil} PROVE Opt(p) \in Seq(Payload)
    BY <2>1 DEF Opt
  <2>2. devReader \in Seq(Payload) /\ devWriter \in Seq(Payload)
    BY DEF TypeOK
  <2>3. \A c \in Chan : queue[c] \in Seq(Payload)
    BY DEF TypeOK
  <2>4. \A l \in Link : Opt(writing[l]) \in Seq(Payload) /\ Opt(held[l]) \in Seq(Payload)
    BY <2>1 DEF TypeOK
  <2>5. Opt(router.payload) \in Seq(Payload)
    BY <2>1 DEF TypeOK, RouterRec
  <2>6. CASE z \in {<<"dev", "reader">>, <<"dev", "writer">>, <<"dev", "router">>}
    BY <2>2, <2>5, <2>6, ContentAt
  <2>7. ASSUME NEW c \in Chan, z = <<"queue", c>> PROVE content[z] \in Seq(Payload)
    BY <2>3, <2>7, ContentAt
  <2>8. ASSUME NEW l \in Link, z \in {<<"writing", l>>, <<"held", l>>} PROVE content[z] \in Seq(Payload)
    BY <2>4, <2>8, ContentAt
  <2> QED BY <2>6, <2>7, <2>8, PlaceKinds
<1>2. content = [z \in Place |-> content[z]]
  BY DEF content
<1> QED BY <1>1, <1>2 DEF Contents

\* The same for the state after a step.
LEMMA ContentTypePrime == TypeOK' => content' \in Contents
<1> SUFFICES ASSUME TypeOK' PROVE content' \in Contents
  OBVIOUS
<1>1. ASSUME NEW z \in Place PROVE content'[z] \in Seq(Payload)
  <2>1. ASSUME NEW p \in Payload \cup {Nil} PROVE Opt(p) \in Seq(Payload)
    BY <2>1 DEF Opt
  <2>2. devReader' \in Seq(Payload) /\ devWriter' \in Seq(Payload)
    BY DEF TypeOK
  <2>3. \A c \in Chan : queue'[c] \in Seq(Payload)
    BY DEF TypeOK
  <2>4. \A l \in Link : Opt(writing'[l]) \in Seq(Payload) /\ Opt(held'[l]) \in Seq(Payload)
    BY <2>1 DEF TypeOK
  <2>5. Opt(router'.payload) \in Seq(Payload)
    BY <2>1 DEF TypeOK, RouterRec
  <2>6. CASE z \in {<<"dev", "reader">>, <<"dev", "writer">>, <<"dev", "router">>}
    BY <2>2, <2>5, <2>6, ContentAtPrime
  <2>7. ASSUME NEW c \in Chan, z = <<"queue", c>> PROVE content'[z] \in Seq(Payload)
    BY <2>3, <2>7, ContentAtPrime
  <2>8. ASSUME NEW l \in Link, z \in {<<"writing", l>>, <<"held", l>>} PROVE content'[z] \in Seq(Payload)
    BY <2>4, <2>8, ContentAtPrime
  <2> QED BY <2>6, <2>7, <2>8, PlaceKinds
<1>2. content' = [z \in Place |-> content'[z]]
  BY DEF content
<1> QED BY <1>1, <1>2 DEF Contents

-----------------------------------------------------------------------------
(* Records *)

\* Updating a field of conn, handler or router keeps its type.
LEMMA ConnUpdate ==
    ASSUME NEW f \in [Chan -> ConnRec], NEW c \in Chan, NEW s \in ConnPC
    PROVE  [f EXCEPT ![c].pc = s] \in [Chan -> ConnRec]
<1>1. [f[c] EXCEPT !.pc = s] \in ConnRec
  BY DEF ConnRec
<1> QED BY <1>1

\* Updating a handler's fields keeps its type.
LEMMA HandlerUpdate ==
    ASSUME NEW f \in [Handler -> HandlerRec], NEW h \in Handler
    PROVE  /\ [f EXCEPT ![h].pc = "known"] \in [Handler -> HandlerRec]
           /\ \A c \in Chan :
                [f EXCEPT ![h].pc = "serving", ![h].chan = c] \in [Handler -> HandlerRec]
<1>1. [f[h] EXCEPT !.pc = "known"] \in HandlerRec
  BY DEF HandlerRec, HandlerPC
<1>2. ASSUME NEW c \in Chan PROVE [f[h] EXCEPT !.pc = "serving", !.chan = c] \in HandlerRec
  BY DEF HandlerRec, HandlerPC
<1> QED BY <1>1, <1>2

\* The records the actions assign have their types.
LEMMA RecordTypes ==
    /\ NoConn \in ConnRec /\ NoHandler \in HandlerRec /\ Receiving \in RouterRec
    /\ \A k \in Peer, a \in Addr : [pc |-> "made", key |-> k, dst |-> a] \in ConnRec
    /\ \A r \in Peer \cup Stranger : [pc |-> "entered", peer |-> r, chan |-> Nil] \in HandlerRec
    /\ \A s \in RouterPC, p \in Payload \cup {Nil}, k \in Peer \cup {Nil}, c \in Chan \cup {Nil} :
          [pc |-> s, payload |-> p, key |-> k, conn |-> c] \in RouterRec
  BY DEF NoConn, NoHandler, Receiving, ConnRec, HandlerRec, RouterRec,
         ConnPC, HandlerPC, RouterPC

-----------------------------------------------------------------------------
(* Each part of the invariant is preserved *)

\* No step of the code leaves a variable outside its type or overfills a channel.
LEMMA TypeStep ==
    ASSUME TypeOK, ControlOK, DstOK, [Next]_vars
    PROVE  TypeOK'
<1> USE ConstantsAssumption DEF TypeOK, ControlOK, DstOK, tables, conns, links, tun, pool, Link
<1>1. ASSUME NEW pkt \in Addr \cup {Malformed}, TUNRead(pkt) PROVE TypeOK'
  <2>1. CASE UNCHANGED <<devReader, pool>>
    BY <1>1, <2>1 DEF TUNRead
  <2>2. ASSUME NEW p \in Payload, Get(p, pkt), pkt \in Addr, ~(Len(devReader) >= ChanSize),
               devReader' = Append(devReader, p)
        PROVE  TypeOK'
    <3>1. devReader' \in Seq(Payload) /\ Len(devReader') <= ChanSize
      BY <2>2
    <3> QED BY <1>1, <2>2, <3>1 DEF TUNRead, Get
  <2> QED BY <1>1, <2>1, <2>2 DEF TUNRead, DiscardedByReader
<1>2. CASE TUNWrite
  BY <1>2 DEF TUNWrite, Put
<1>3. CASE RouterRecv
  <2>1. Head(devReader) \in Payload /\ devReader' \in Seq(Payload) /\ Len(devReader') <= ChanSize
    BY <1>3 DEF RouterRecv
  <2>2. router' \in RouterRec
    BY <1>3, <2>1, ZenonT(60) DEF RouterRecv, RouterRec, RouterPC
  <2>3. free' \in SUBSET Payload
    BY <1>3, <2>1 DEF RouterRecv, Drop, Put
  <2>4. body' \in [Payload -> Addr \cup Peer \cup Stranger \cup {Nil}]
    BY <1>3, <2>1 DEF RouterRecv, Drop, Put
  <2> HIDE DEF ControlOK, DstOK
  <2> QED BY <1>3, <2>1, <2>2, <2>3, <2>4 DEF RouterRecv
<1>4. CASE RouterLoad
  BY <1>4 DEF RouterLoad, Dst, RouterRec, RouterPC
<1>5. CASE NoRoute
  BY <1>5, RecordTypes DEF NoRoute, Drop, Put, RouterRec
<1>6. ASSUME NEW k \in Peer, RouteByID(k) PROVE TypeOK'
  BY <1>6 DEF RouteByID, RouterRec, RouterPC
<1>7. ASSUME NEW k \in Peer, NEW c \in Chan, MakeChan(k, c) PROVE TypeOK'
  <2>1. Dst \in Addr
    BY <1>7 DEF MakeChan, Dst
  <2>2. router' \in RouterRec
    BY <1>7 DEF MakeChan, RouterRec, RouterPC
  <2> QED BY <1>7, <2>1, <2>2, RecordTypes DEF MakeChan
<1>8. CASE StoreAddr
  BY <1>8 DEF StoreAddr, RouterRec, RouterPC
<1>9. CASE StoreID
  BY <1>9, ConnUpdate DEF StoreID, RouterRec, RouterPC, ConnPC
<1>10. CASE RouterSend
  <2>1. router.payload \in Payload /\ router.conn \in Chan /\ router' \in RouterRec
    BY <1>10, RecordTypes DEF RouterSend, RouterRec
  <2>2. CASE Len(queue[router.conn]) < ChanSize
    <3>1. /\ Append(queue[router.conn], router.payload) \in Seq(Payload)
          /\ Len(Append(queue[router.conn], router.payload)) <= ChanSize
      BY <2>1, <2>2
    <3> HIDE DEF ControlOK, DstOK
    <3>2. queue' = [queue EXCEPT ![router.conn] = Append(queue[router.conn], router.payload)]
      BY <1>10, <2>2 DEF RouterSend
    <3>3. queue' \in [Chan -> Seq(Payload)] /\ \A c \in Chan : Len(queue'[c]) <= ChanSize
      BY <2>1, <3>1, <3>2
    <3> QED BY <1>10, <2>1, <2>2, <3>3 DEF RouterSend
  <2>3. CASE ~(Len(queue[router.conn]) < ChanSize)
    BY <1>10, <2>1, <2>3 DEF RouterSend, Put
  <2> QED BY <2>2, <2>3
<1>11. ASSUME NEW c \in Chan, DialFail(c) PROVE TypeOK'
  BY <1>11, ConnUpdate DEF DialFail, ConnPC
<1>12. ASSUME NEW c \in Chan, DialOK(c) PROVE TypeOK'
  BY <1>12, ConnUpdate DEF DialOK, ConnPC, StreamSt
<1>13. ASSUME NEW c \in Chan, ConnTake(c) PROVE TypeOK'
  BY <1>13 DEF ConnTake, Take
<1>14. ASSUME NEW c \in Chan, ConnWrite(c) PROVE TypeOK'
  BY <1>14 DEF ConnWrite, Written, Put
<1>15. ASSUME NEW c \in Chan, ConnWriteFail(c) PROVE TypeOK'
  <2>1. conn' \in [Chan -> ConnRec]
    BY <1>15, ConnUpdate DEF ConnWriteFail, ConnPC
  <2> QED BY <1>15, <2>1 DEF ConnWriteFail, Written, Put, StreamSt
<1>16. ASSUME NEW c \in Chan, AddrDelete(c) PROVE TypeOK'
  BY <1>16, ConnUpdate DEF AddrDelete, ConnPC
<1>17. ASSUME NEW c \in Chan, IDDelete(c) PROVE TypeOK'
  BY <1>17, ConnUpdate DEF IDDelete, ConnPC
<1>18. ASSUME NEW c \in Chan, Collect(c) PROVE TypeOK'
  BY <1>18, RecordTypes DEF Collect, Elems, StreamSt
<1>19. ASSUME NEW h \in Handler, NEW r \in Peer \cup Stranger, HandlerEnter(h, r) PROVE TypeOK'
  BY <1>19, RecordTypes DEF HandlerEnter, StreamSt
<1>20. ASSUME NEW h \in Handler, HandlerCheck(h) PROVE TypeOK'
  <2>1. [handler EXCEPT ![h].pc = "known"] \in [Handler -> HandlerRec]
    BY HandlerUpdate
  <2>2. [handler EXCEPT ![h] = NoHandler] \in [Handler -> HandlerRec]
    BY RecordTypes
  <2> HIDE DEF ControlOK, DstOK
  <2>3. handler' \in [Handler -> HandlerRec] /\ stream' \in [Link -> StreamSt]
    BY <1>20, <2>1, <2>2 DEF HandlerCheck, StreamSt
  <2> QED BY <1>20, <2>3 DEF HandlerCheck
<1>21. ASSUME NEW h \in Handler, HandlerLoad(h) PROVE TypeOK'
  <2>1. handler[h].peer \in Peer
    BY <1>21 DEF HandlerLoad
  <2>2. CASE id[handler[h].peer] = Nil
    <3>1. [handler EXCEPT ![h] = NoHandler] \in [Handler -> HandlerRec]
      BY RecordTypes
    <3> QED BY <1>21, <2>2, <3>1 DEF HandlerLoad
  <2>3. CASE id[handler[h].peer] # Nil
    <3> DEFINE c == id[handler[h].peer]
    <3>1. c \in Chan
      BY <2>1, <2>3
    <3>2. [handler EXCEPT ![h].pc = "serving", ![h].chan = c] \in [Handler -> HandlerRec]
      BY <3>1, HandlerUpdate
    <3> QED BY <1>21, <2>3, <3>2 DEF HandlerLoad
  <2> QED BY <2>2, <2>3
<1>22. ASSUME NEW h \in Handler, HandlerTake(h) PROVE TypeOK'
  BY <1>22 DEF HandlerTake, Take, HandlerRec
<1>23. ASSUME NEW h \in Handler, HandlerWrite(h) PROVE TypeOK'
  BY <1>23 DEF HandlerWrite, Written, Put
<1>24. ASSUME NEW l \in Link, ReadMsg(l) PROVE TypeOK'
  BY <1>24 DEF ReadMsg, Get, RemotePeer, ConnRec, HandlerRec
<1>25. ASSUME NEW l \in Link, DevWriterSend(l) PROVE TypeOK'
  BY <1>25 DEF DevWriterSend
<1>26. ASSUME NEW l \in Link, ReadError(l) PROVE TypeOK'
  BY <1>26 DEF ReadError
<1>27. ASSUME NEW l \in Link, StreamBreak(l) PROVE TypeOK'
  BY <1>27, ZenonT(60) DEF StreamBreak, StreamSt
<1>28. CASE UNCHANGED vars
  BY <1>28 DEF vars
<1> QED BY <1>1, <1>2, <1>3, <1>4, <1>5, <1>6, <1>7, <1>8, <1>9, <1>10, <1>11, <1>12, <1>13, <1>14,
         <1>15, <1>16, <1>17, <1>18, <1>19, <1>20, <1>21, <1>22, <1>23, <1>24, <1>25, <1>26, <1>27, <1>28
         DEF Next, Router, Conn, Deletes, Handle

\* The router's and the handlers' locals fit the point they are at.
LEMMA ControlStep ==
    ASSUME TypeOK, ControlOK, DstOK, [Next]_vars
    PROVE  ControlOK'
<1> USE ConstantsAssumption DEF TypeOK, ControlOK, DstOK, Dst, links
<1>1. CASE RouterRecv
  <2>1. Head(devReader) \in Payload /\ Head(devReader) # Nil
    BY <1>1 DEF RouterRecv
  <2>2. CASE UNCHANGED router
    BY <1>1, <2>2 DEF RouterRecv
  <2>3. CASE router' = [router EXCEPT !.pc = "load", !.payload = Head(devReader)]
    BY <1>1, <2>1, <2>3 DEF RouterRecv, RouterRec
  <2> QED BY <1>1, <2>2, <2>3 DEF RouterRecv
<1>2. CASE RouterLoad
  BY <1>2 DEF RouterLoad, RouterRec, RouterPC
<1>3. CASE NoRoute
  BY <1>3 DEF NoRoute, Receiving, RouterRec
<1>4. ASSUME NEW k \in Peer, RouteByID(k) PROVE ControlOK'
  BY <1>4 DEF RouteByID, RouterRec
<1>5. ASSUME NEW k \in Peer, NEW c \in Chan, MakeChan(k, c) PROVE ControlOK'
  BY <1>5 DEF MakeChan, RouterRec
<1>6. CASE StoreAddr
  BY <1>6 DEF StoreAddr, RouterRec
<1>7. CASE StoreID
  BY <1>7 DEF StoreID, RouterRec
<1>8. CASE RouterSend
  BY <1>8 DEF RouterSend, Receiving, RouterRec
<1>9. ASSUME NEW h \in Handler, NEW r \in Peer \cup Stranger, HandlerEnter(h, r) PROVE ControlOK'
  BY <1>9 DEF HandlerEnter, HandlerRec
<1>10. ASSUME NEW h \in Handler, HandlerCheck(h) PROVE ControlOK'
  <2>1. router' = router /\ \A g \in Handler \ {h} : handler'[g] = handler[g]
    BY <1>10 DEF HandlerCheck
  <2>2. CASE handler[h].peer \in Peer
    <3>1. handler'[h].pc = "known" /\ handler'[h].peer = handler[h].peer
      BY <1>10, <2>2 DEF HandlerCheck, NoHandler, HandlerRec
    <3> QED BY <2>1, <2>2, <3>1
  <2>3. CASE handler[h].peer \notin Peer
    <3>1. handler'[h].pc = "idle"
      BY <1>10, <2>3 DEF HandlerCheck, NoHandler, HandlerRec
    <3> QED BY <2>1, <2>3, <3>1
  <2> QED BY <2>2, <2>3
<1>11. ASSUME NEW h \in Handler, HandlerLoad(h) PROVE ControlOK'
  <2>1. router' = router /\ \A g \in Handler \ {h} : handler'[g] = handler[g]
    BY <1>11 DEF HandlerLoad
  <2>4. handler[h].peer \in Peer
    BY <1>11 DEF HandlerLoad
  <2>2. CASE id[handler[h].peer] # Nil
    <3>1. /\ handler'[h].pc = "serving" /\ handler'[h].peer = handler[h].peer
          /\ handler'[h].chan = id[handler[h].peer]
      BY <1>11, <2>2 DEF HandlerLoad, NoHandler, HandlerRec
    <3> QED BY <2>4, <2>1, <2>2, <3>1
  <2>3. CASE id[handler[h].peer] = Nil
    <3>1. handler'[h].pc = "idle"
      BY <1>11, <2>3 DEF HandlerLoad, NoHandler, HandlerRec
    <3> QED BY <2>4, <2>1, <2>3, <3>1
  <2> QED BY <2>2, <2>3
<1>12. CASE UNCHANGED <<router, handler>>
  BY <1>12
<1> HIDE DEF TypeOK, ControlOK, DstOK
<1> QED BY <1>1, <1>2, <1>3, <1>4, <1>5, <1>6, <1>7, <1>8, <1>9, <1>10, <1>11, <1>12
    DEF Next, Router, Conn, Deletes, Handle, vars, conns, tun, pool, tables,
        TUNRead, TUNWrite, DialFail, DialOK, ConnTake, ConnWrite, ConnWriteFail, AddrDelete, IDDelete, Collect, HandlerTake, HandlerWrite, ReadMsg, DevWriterSend, ReadError, StreamBreak

\* A place outside X whose variable keeps its value keeps its contents.
LEMMA SameElsewhere ==
    ASSUME NEW X,
           <<"dev", "reader">> \in X \/ devReader' = devReader,
           <<"dev", "writer">> \in X \/ devWriter' = devWriter,
           <<"dev", "router">> \in X \/ router'.payload = router.payload,
           \A c \in Chan : <<"queue", c>> \in X \/ queue'[c] = queue[c],
           \A l \in Link : <<"writing", l>> \in X \/ writing'[l] = writing[l],
           \A l \in Link : <<"held", l>> \in X \/ held'[l] = held[l],
           NEW z \in Place, z \notin X
    PROVE  content'[z] = content[z]
<1>1. CASE z \in {<<"dev", "reader">>, <<"dev", "writer">>, <<"dev", "router">>}
  BY <1>1, ContentAt, ContentAtPrime
<1>2. ASSUME NEW c \in Chan, z = <<"queue", c>> PROVE content'[z] = content[z]
  BY <1>2, ContentAt, ContentAtPrime
<1>3. ASSUME NEW l \in Link, z = <<"writing", l>> PROVE content'[z] = content[z]
  BY <1>3, ContentAt, ContentAtPrime, ZenonT(60)
<1>4. ASSUME NEW l \in Link, z = <<"held", l>> PROVE content'[z] = content[z]
  BY <1>4, ContentAt, ContentAtPrime, ZenonT(60)
<1> QED BY <1>1, <1>2, <1>3, <1>4, PlaceKinds

\* A step that leaves every place alone.
LEMMA ExclusiveSame ==
    ASSUME PayloadExclusive, free' = free, tun' = tun, router'.payload = router.payload,
           queue' = queue, writing' = writing, held' = held
    PROVE  PayloadExclusive'
<1>1. ASSUME NEW z \in Place, z \notin {} PROVE content'[z] = content[z]
  BY <1>1, SameElsewhere DEF tun
<1> QED BY <1>1 DEF PayloadExclusive, Exclusive

\* The steps that move, get or put one payload, or drop what is in a place.
LEMMA StepMove ==
    ASSUME TypeOK, TypeOK', PayloadExclusive, free' = free,
           NEW x \in Place, NEW y \in Place, x # y, content[x] # <<>>,
           content'[x] = Tail(content[x]),
           content'[y] = Append(content[y], Head(content[x])),
           \A z \in Place : z \notin {x, y} => content'[z] = content[z]
    PROVE  PayloadExclusive'
<1>1. \A z \in Place : content'[z] = IF z = x THEN Tail(content[x])
                                     ELSE IF z = y THEN Append(content[y], Head(content[x]))
                                     ELSE content[z]
  OBVIOUS
<1> QED BY <1>1, ContentType, ContentTypePrime, MoveExclusive DEF PayloadExclusive

\* A payload taken from the pool gets its first owner.
LEMMA StepGet ==
    ASSUME TypeOK, TypeOK', PayloadExclusive, NEW p \in Payload, p \in free, free' = free \ {p},
           NEW y \in Place, content'[y] = Append(content[y], p),
           \A z \in Place : z \notin {y} => content'[z] = content[z]
    PROVE  PayloadExclusive'
<1>1. \A z \in Place : content'[z] = IF z = y THEN Append(content[y], p) ELSE content[z]
  OBVIOUS
<1>2. Exclusive(content', free \ {p})
  BY <1>1, ContentType, ContentTypePrime, GetExclusive DEF PayloadExclusive
<1> QED BY <1>2 DEF PayloadExclusive

\* A payload that is put back loses its only owner.
LEMMA StepPut ==
    ASSUME TypeOK, TypeOK', PayloadExclusive, NEW x \in Place, content[x] # <<>>,
           content'[x] = Tail(content[x]), free' = free \cup {Head(content[x])},
           \A z \in Place : z \notin {x} => content'[z] = content[z]
    PROVE  PayloadExclusive'
<1>1. \A z \in Place : content'[z] = IF z = x THEN Tail(content[x]) ELSE content[z]
  OBVIOUS
<1>2. Exclusive(content', free \cup {Head(content[x])})
  BY <1>1, ContentType, ContentTypePrime, PutExclusive DEF PayloadExclusive
<1> QED BY <1>2 DEF PayloadExclusive

\* The payloads of a collected channel lose their only owner.
LEMMA StepClear ==
    ASSUME TypeOK, TypeOK', PayloadExclusive, NEW x \in Place,
           content'[x] = <<>>, free' = free \cup Elems(content[x]),
           \A z \in Place : z \notin {x} => content'[z] = content[z]
    PROVE  PayloadExclusive'
<1>1. \A z \in Place : content'[z] = IF z = x THEN <<>> ELSE content[z]
  OBVIOUS
<1>2. Exclusive(content', free \cup Elems(content[x]))
  BY <1>1, ContentType, ContentTypePrime, ClearExclusive DEF PayloadExclusive
<1> QED BY <1>2 DEF PayloadExclusive

\* The single payload a goroutine holds, as a place.
LEMMA OptOne ==
    ASSUME NEW p \in Payload
    PROVE  /\ Opt(Nil) = <<>> /\ Opt(p) = <<p>> /\ Opt(p) = Append(<<>>, p)
           /\ Opt(p) # <<>> /\ Head(Opt(p)) = p /\ Tail(Opt(p)) = Opt(Nil)
<1>1. Opt(p) = <<p>> /\ Opt(Nil) = <<>>
  BY ConstantsAssumption DEF Opt
<1> QED BY <1>1

\* Taking a packet off a channel to write it to a stream.
LEMMA ExclusiveTake ==
    ASSUME TypeOK, TypeOK', PayloadExclusive, NEW c \in Chan, NEW l \in Link, Take(c, l),
           free' = free, tun' = tun, router' = router, held' = held
    PROVE  PayloadExclusive'
<1> DEFINE x == <<"queue", c>>
           y == <<"writing", l>>
<1>1. x \in Place /\ y \in Place /\ x # y
  BY PlaceKinds
<1>2. Head(queue[c]) \in Payload
  BY DEF Take, TypeOK
<1>3. /\ queue'[c] = Tail(queue[c]) /\ queue[c] # <<>>
      /\ writing[l] = Nil /\ writing'[l] = Head(queue[c])
  BY DEF Take, TypeOK
<1>4. /\ content[x] = queue[c] /\ content[y] = Opt(Nil)
      /\ content'[x] = queue'[c] /\ content'[y] = Opt(Head(queue[c]))
  BY <1>3, ContentAt, ContentAtPrime
<1>5. \A z \in Place : z \notin {x, y} => content'[z] = content[z]
  <2>1. \A d \in Chan : <<"queue", d>> \in {x, y} \/ queue'[d] = queue[d]
    BY DEF Take, TypeOK
  <2>2. \A m \in Link : <<"writing", m>> \in {x, y} \/ writing'[m] = writing[m]
    BY DEF Take, TypeOK
  <2> HIDE DEF x, y
  <2> QED BY <2>1, <2>2, SameElsewhere DEF tun
<1> HIDE DEF x, y
<1> QED BY <1>1, <1>2, <1>3, <1>4, <1>5, OptOne, StepMove

\* Putting back a packet that was written to a stream.
LEMMA ExclusiveWritten ==
    ASSUME TypeOK, TypeOK', PayloadExclusive, NEW l \in Link, Written(l),
           tun' = tun, router' = router, queue' = queue, held' = held
    PROVE  PayloadExclusive'
<1> DEFINE x == <<"writing", l>>
<1>1. x \in Place
  BY PlaceKinds
<1>2. writing[l] \in Payload /\ writing'[l] = Nil /\ free' = free \cup {writing[l]}
  BY DEF Written, Put, TypeOK
<1>3. content[x] = Opt(writing[l]) /\ content'[x] = Opt(Nil)
  BY <1>2, ContentAt, ContentAtPrime
<1>4. \A z \in Place : z \notin {x} => content'[z] = content[z]
  <2>1. \A m \in Link : <<"writing", m>> \in {x} \/ writing'[m] = writing[m]
    BY DEF Written, TypeOK
  <2> HIDE DEF x
  <2> QED BY <2>1, SameElsewhere DEF tun
<1> HIDE DEF x
<1> QED BY <1>1, <1>2, <1>3, <1>4, OptOne, StepPut

\* No step gives a payload a second owner.
LEMMA ExclusiveStep ==
    ASSUME TypeOK, TypeOK', ControlOK, PayloadExclusive, [Next]_vars
    PROVE  PayloadExclusive'
<1> DEFINE r == <<"dev", "reader">>
           w == <<"dev", "writer">>
           t == <<"dev", "router">>
<1>1. /\ {r, w, t} \subseteq Place /\ r # w /\ r # t /\ w # t
      /\ \A c \in Chan : t # <<"queue", c>> /\ <<"queue", c>> \in Place
      /\ \A l \in Link : w # <<"held", l>> /\ <<"held", l>> \in Place
  BY PlaceKinds
<1>2. /\ content[r] = devReader /\ content'[r] = devReader'
      /\ content[w] = devWriter /\ content'[w] = devWriter'
      /\ content[t] = Opt(router.payload) /\ content'[t] = Opt(router'.payload)
  BY ContentAt, ContentAtPrime
<1>3. ASSUME NEW pkt \in Addr \cup {Malformed}, TUNRead(pkt) PROVE PayloadExclusive'
  <2>1. CASE UNCHANGED <<devReader, pool>>
    BY <1>3, <2>1, ExclusiveSame DEF TUNRead, tun, pool, conns, links
  <2>2. ASSUME NEW p \in Payload, Get(p, pkt), devReader' = Append(devReader, p)
        PROVE  PayloadExclusive'
    <3>1. \A z \in Place : z \notin {r} => content'[z] = content[z]
      BY <1>3, SameElsewhere DEF TUNRead, conns, links
    <3> HIDE DEF r
    <3> QED BY <1>1, <1>2, <2>2, <3>1, StepGet DEF Get
  <2> QED BY <1>3, <2>1, <2>2 DEF TUNRead
<1>4. CASE TUNWrite
  <2>1. \A z \in Place : z \notin {w} => content'[z] = content[z]
    BY <1>4, SameElsewhere DEF TUNWrite, conns, links
  <2> HIDE DEF w
  <2> QED BY <1>1, <1>2, <1>4, <2>1, StepPut DEF TUNWrite, Put
<1>5. CASE RouterRecv
  <2>1. Head(devReader) \in Payload /\ router.payload = Nil
    BY <1>5 DEF RouterRecv, TypeOK, ControlOK, Receiving
  <2>2. CASE Drop(Head(devReader)) /\ router' = router
    <3>1. \A z \in Place : z \notin {r} => content'[z] = content[z]
      BY <1>5, <2>2, SameElsewhere DEF RouterRecv, conns, links
    <3> HIDE DEF r
    <3> QED BY <1>1, <1>2, <1>5, <2>2, <3>1, StepPut DEF RouterRecv, Drop, Put
  <2>3. CASE router' = [router EXCEPT !.pc = "load", !.payload = Head(devReader)] /\ pool' = pool
    <3>1. \A z \in Place : z \notin {r, t} => content'[z] = content[z]
      BY <1>5, SameElsewhere DEF RouterRecv, conns, links
    <3>2. router'.payload = Head(devReader) /\ free' = free
      BY <2>3 DEF TypeOK, RouterRec, pool
    <3>3. devReader # <<>> /\ devReader' = Tail(devReader)
      BY <1>5 DEF RouterRecv
    <3> HIDE DEF r, t
    <3>4. /\ content[r] # <<>> /\ content'[r] = Tail(content[r])
          /\ content'[t] = Append(content[t], Head(content[r]))
      BY <1>2, <2>1, <3>2, <3>3, OptOne
    <3>5. r \in Place /\ t \in Place /\ r # t
      BY <1>1
    <3> QED BY <3>1, <3>2, <3>4, <3>5, StepMove
  <2> QED BY <1>5, <2>2, <2>3 DEF RouterRecv
<1>6. CASE RouterLoad
  BY <1>6, ExclusiveSame DEF RouterLoad, TypeOK, RouterRec, tun, pool, conns, links
<1>7. ASSUME router.payload # Nil, Put(router.payload), router' = Receiving,
             conns' = conns, links' = links, tun' = tun
      PROVE  PayloadExclusive'
  <2>1. \A z \in Place : z \notin {t} => content'[z] = content[z]
    BY <1>7, SameElsewhere DEF conns, links, tun
  <2>2. router.payload \in Payload /\ router'.payload = Nil
    BY <1>7 DEF TypeOK, RouterRec, Receiving
  <2> HIDE DEF t
  <2> QED BY <1>1, <1>2, <1>7, <2>1, <2>2, OptOne, StepPut DEF Put
<1>8. CASE NoRoute
  BY <1>7, <1>8 DEF NoRoute, Drop, ControlOK
<1>9. ASSUME NEW k \in Peer, RouteByID(k) PROVE PayloadExclusive'
  BY <1>9, ExclusiveSame DEF RouteByID, TypeOK, RouterRec, tun, pool, conns, links
<1>10. ASSUME NEW k \in Peer, NEW c \in Chan, MakeChan(k, c) PROVE PayloadExclusive'
  BY <1>10, ExclusiveSame DEF MakeChan, TypeOK, RouterRec, tun, pool, links
<1>11. CASE StoreAddr
  BY <1>11, ExclusiveSame DEF StoreAddr, TypeOK, RouterRec, tun, pool, conns, links
<1>12. CASE StoreID
  BY <1>12, ExclusiveSame DEF StoreID, TypeOK, RouterRec, tun, pool, links
<1>13. CASE RouterSend
  <2> DEFINE q == <<"queue", router.conn>>
  <2>1. router.payload \in Payload /\ router.conn \in Chan
    BY <1>13 DEF RouterSend, ControlOK, TypeOK, RouterRec
  <2>2. CASE Len(queue[router.conn]) < ChanSize
    <3>1. \A z \in Place : z \notin {t, q} => content'[z] = content[z]
      <4>1. \A d \in Chan : <<"queue", d>> \in {t, q} \/ queue'[d] = queue[d]
        BY <1>13, <2>2 DEF RouterSend, TypeOK
      <4> QED BY <1>13, <4>1, SameElsewhere DEF RouterSend, links, tun
    <3>2. content[q] = queue[router.conn] /\ content'[q] = queue'[router.conn]
      BY <2>1, ContentAt, ContentAtPrime
    <3>3. /\ queue'[router.conn] = Append(queue[router.conn], router.payload)
          /\ router'.payload = Nil /\ free' = free
      BY <1>13, <2>1, <2>2 DEF RouterSend, TypeOK, Receiving, pool
    <3>4. q \in Place /\ t # q
      BY <1>1, <2>1
    <3> HIDE DEF t, q
    <3>5. /\ content[t] # <<>> /\ content'[t] = Tail(content[t])
          /\ content'[q] = Append(content[q], Head(content[t]))
      BY <1>2, <2>1, <3>2, <3>3, OptOne
    <3>6. t \in Place
      BY <1>1
    <3> QED BY <3>1, <3>3, <3>4, <3>5, <3>6, StepMove
  <2>3. CASE ~(Len(queue[router.conn]) < ChanSize)
    BY <1>7, <1>13, <2>3 DEF RouterSend, ControlOK, conns
  <2> QED BY <2>2, <2>3
<1>14. ASSUME NEW c \in Chan, DialFail(c) \/ DialOK(c) \/ AddrDelete(c) \/ IDDelete(c)
       PROVE  PayloadExclusive'
  BY <1>14, ExclusiveSame DEF DialFail, DialOK, AddrDelete, IDDelete, tun, pool, links
<1>15. ASSUME NEW c \in Chan, ConnTake(c) PROVE PayloadExclusive'
  BY <1>15, ExclusiveTake DEF ConnTake, pool, Link
<1>16. ASSUME NEW c \in Chan, ConnWrite(c) \/ ConnWriteFail(c) PROVE PayloadExclusive'
  BY <1>16, ExclusiveWritten DEF ConnWrite, ConnWriteFail, conns, Link
<1>17. ASSUME NEW c \in Chan, Collect(c) PROVE PayloadExclusive'
  <2> DEFINE q == <<"queue", c>>
  <2>1. \A z \in Place : z \notin {q} => content'[z] = content[z]
    <3>1. \A d \in Chan : <<"queue", d>> \in {q} \/ queue'[d] = queue[d]
      BY <1>17 DEF Collect, TypeOK
    <3> QED BY <1>17, <3>1, SameElsewhere DEF Collect, tun
  <2>2. content[q] = queue[c] /\ content'[q] = <<>>
    BY <1>17, ContentAt, ContentAtPrime DEF Collect, TypeOK
  <2>3. free' = free \cup Elems(content[q])
    BY <1>17, <2>2 DEF Collect
  <2> HIDE DEF q
  <2>4. q \in Place
    BY PlaceKinds DEF q
  <2> QED BY <2>1, <2>2, <2>3, <2>4, StepClear
<1>18. ASSUME NEW h \in Handler,
              \/ HandlerCheck(h) \/ HandlerLoad(h)
              \/ \E p \in Peer \cup Stranger : HandlerEnter(h, p)
       PROVE  PayloadExclusive'
  BY <1>18, ExclusiveSame DEF HandlerCheck, HandlerLoad, HandlerEnter, tun, pool, conns
<1>19. ASSUME NEW h \in Handler, HandlerTake(h) PROVE PayloadExclusive'
  <2>1. handler[h].chan \in Chan
    BY <1>19 DEF HandlerTake, ControlOK, TypeOK, HandlerRec
  <2> QED BY <1>19, <2>1, ExclusiveTake DEF HandlerTake, pool, Link
<1>20. ASSUME NEW h \in Handler, HandlerWrite(h) PROVE PayloadExclusive'
  BY <1>20, ExclusiveWritten DEF HandlerWrite, conns, Link
<1>21. ASSUME NEW l \in Link, ReadMsg(l) PROVE PayloadExclusive'
  <2> DEFINE y == <<"held", l>>
  <2>1. PICK p \in Payload : Get(p, RemotePeer(l)) /\ held' = [held EXCEPT ![l] = p]
    BY <1>21 DEF ReadMsg
  <2>2. \A z \in Place : z \notin {y} => content'[z] = content[z]
    <3>1. \A m \in Link : <<"held", m>> \in {y} \/ held'[m] = held[m]
      BY <2>1 DEF TypeOK
    <3> QED BY <1>21, <3>1, SameElsewhere DEF ReadMsg, tun, conns
  <2>3. content[y] = Opt(Nil) /\ content'[y] = Opt(p)
    BY <1>21, <2>1, ContentAt, ContentAtPrime DEF ReadMsg, TypeOK
  <2>4. y \in Place
    BY PlaceKinds
  <2> HIDE DEF y
  <2> QED BY <2>1, <2>2, <2>3, <2>4, OptOne, StepGet DEF Get
<1>22. ASSUME NEW l \in Link, DevWriterSend(l) PROVE PayloadExclusive'
  <2> DEFINE x == <<"held", l>>
  <2>1. held[l] \in Payload /\ held'[l] = Nil /\ free' = free
    BY <1>22 DEF DevWriterSend, TypeOK, pool
  <2>2. \A z \in Place : z \notin {x, w} => content'[z] = content[z]
    <3>1. \A m \in Link : <<"held", m>> \in {x, w} \/ held'[m] = held[m]
      BY <1>22 DEF DevWriterSend, TypeOK
    <3> QED BY <1>22, <3>1, SameElsewhere DEF DevWriterSend, conns
  <2>3. content[x] = Opt(held[l]) /\ content'[x] = Opt(Nil)
    BY <2>1, ContentAt, ContentAtPrime
  <2>4. x \in Place /\ x # w
    BY <1>1
  <2>5. devWriter' = Append(devWriter, held[l])
    BY <1>22 DEF DevWriterSend
  <2> HIDE DEF x, w
  <2>6. /\ content[x] # <<>> /\ content'[x] = Tail(content[x])
        /\ content'[w] = Append(content[w], Head(content[x]))
    BY <1>2, <2>1, <2>3, <2>5, OptOne
  <2>7. w \in Place
    BY <1>1
  <2> QED BY <2>1, <2>2, <2>4, <2>6, <2>7, StepMove
<1>23. ASSUME NEW l \in Link, ReadError(l) \/ StreamBreak(l) PROVE PayloadExclusive'
  BY <1>23, ExclusiveSame DEF ReadError, StreamBreak, tun, pool, conns
<1>24. CASE UNCHANGED vars
  BY <1>24, ExclusiveSame DEF vars, tun, pool, conns, links
<1> QED BY <1>3, <1>4, <1>5, <1>6, <1>8, <1>9, <1>10, <1>11, <1>12, <1>13, <1>14, <1>15,
           <1>16, <1>17, <1>18, <1>19, <1>20, <1>21, <1>22, <1>23, <1>24
        DEF Next, Router, Conn, Deletes, Handle

\* A payload that is in use before and after a step keeps its contents.
LEMMA BodyStable ==
    ASSUME TypeOK, [Next]_vars, NEW p \in Payload, p \notin free, p \notin free'
    PROVE  body'[p] = body[p]
<1>1. ASSUME NEW q, NEW contents, Get(q, contents) PROVE body'[p] = body[p]
  BY <1>1 DEF Get, TypeOK
<1>2. ASSUME NEW q, Put(q) PROVE body'[p] = body[p]
  BY <1>2 DEF Put, TypeOK
<1>3. CASE pool' = pool
  BY <1>3 DEF pool
<1>4. ASSUME NEW c \in Chan, Collect(c) PROVE body'[p] = body[p]
  BY <1>4 DEF Collect
<1>5. CASE \/ TUNWrite \/ \E pkt \in Addr \cup {Malformed} : TUNRead(pkt)
  BY <1>1, <1>2, <1>3, <1>5 DEF TUNRead, TUNWrite, pool
<1>6. CASE Router
  BY <1>2, <1>3, <1>6
     DEF Router, RouterRecv, RouterLoad, NoRoute, RouteByID, MakeChan, StoreAddr, StoreID,
         RouterSend, Drop
<1>7. ASSUME NEW c \in Chan, Conn(c) PROVE body'[p] = body[p]
  BY <1>2, <1>3, <1>7
     DEF Conn, Deletes, DialFail, DialOK, ConnTake, ConnWrite, ConnWriteFail, AddrDelete,
         IDDelete, Written
<1>8. ASSUME NEW h \in Handler, Handle(h) \/ \E r \in Peer \cup Stranger : HandlerEnter(h, r)
      PROVE  body'[p] = body[p]
  BY <1>2, <1>3, <1>8
     DEF Handle, HandlerEnter, HandlerCheck, HandlerLoad, HandlerTake, HandlerWrite, Written
<1>9. ASSUME NEW l \in Link, ReadMsg(l) \/ DevWriterSend(l) \/ ReadError(l) \/ StreamBreak(l)
      PROVE  body'[p] = body[p]
  BY <1>1, <1>3, <1>9 DEF ReadMsg, DevWriterSend, ReadError, StreamBreak
<1>10. CASE UNCHANGED vars
  BY <1>3, <1>10 DEF vars
<1> QED BY <1>4, <1>5, <1>6, <1>7, <1>8, <1>9, <1>10 DEF Next

\* Nothing that is referred to from a place is in the pool.
LEMMA InUse ==
    ASSUME TypeOK, PayloadExclusive
    PROVE  /\ \A i \in DOMAIN devReader : devReader[i] \in Payload \ free
           /\ router.payload # Nil => router.payload \in Payload \ free
<1>1. ASSUME NEW i \in DOMAIN devReader PROVE devReader[i] \in Payload \ free
  <2>1. devReader[i] \in Payload
    BY <1>1 DEF TypeOK
  <2> QED BY <1>1, <2>1, ContentAt, PlaceKinds DEF PayloadExclusive, Exclusive
<1>2. ASSUME router.payload # Nil PROVE router.payload \in Payload \ free
  <2>1. router.payload \in Payload
    BY <1>2 DEF TypeOK, RouterRec
  <2>2. content[<<"dev", "router">>] = <<router.payload>>
    BY <2>1, ContentAt, OptOne
  <2>3. 1 \in DOMAIN content[<<"dev", "router">>]
    BY <2>2
  <2>4. content[<<"dev", "router">>][1] = router.payload
    BY <2>2
  <2> QED BY <2>1, <2>3, <2>4, PlaceKinds DEF PayloadExclusive, Exclusive
<1> QED BY <1>1, <1>2

\* The same for the state after a step.
LEMMA InUsePrime ==
    ASSUME TypeOK', PayloadExclusive'
    PROVE  /\ \A i \in DOMAIN devReader' : devReader'[i] \in Payload \ free'
           /\ router'.payload # Nil => router'.payload \in Payload \ free'
<1>1. ASSUME NEW i \in DOMAIN devReader' PROVE devReader'[i] \in Payload \ free'
  <2>1. devReader'[i] \in Payload
    BY <1>1 DEF TypeOK
  <2> QED BY <1>1, <2>1, ContentAtPrime, PlaceKinds DEF PayloadExclusive, Exclusive
<1>2. ASSUME router'.payload # Nil PROVE router'.payload \in Payload \ free'
  <2>1. router'.payload \in Payload
    BY <1>2 DEF TypeOK, RouterRec
  <2>2. content'[<<"dev", "router">>] = <<router'.payload>>
    BY <2>1, ContentAtPrime, OptOne
  <2>3. 1 \in DOMAIN content'[<<"dev", "router">>]
    BY <2>2
  <2>4. content'[<<"dev", "router">>][1] = router'.payload
    BY <2>2
  <2> QED BY <2>1, <2>3, <2>4, PlaceKinds DEF PayloadExclusive, Exclusive
<1> QED BY <1>1, <1>2

\* Where the payloads that wait to be routed come from.
LEMMA RouterSources ==
    ASSUME TypeOK, ControlOK, [Next]_vars
    PROVE  /\ \/ devReader' = devReader
              \/ devReader # <<>> /\ devReader' = Tail(devReader)
              \/ \E p \in Payload, a \in Addr :
                    devReader' = Append(devReader, p) /\ body'[p] = a
           /\ \/ router'.payload \in {router.payload, Nil}
              \/ devReader # <<>> /\ router'.payload = Head(devReader)
<1>1. ASSUME NEW pkt \in Addr \cup {Malformed}, TUNRead(pkt)
      PROVE  /\ router' = router
             /\ \/ devReader' = devReader
                \/ \E p \in Payload, a \in Addr :
                    devReader' = Append(devReader, p) /\ body'[p] = a
  BY <1>1 DEF TUNRead, DiscardedByReader, Get, TypeOK
<1>2. RouterRecv => /\ devReader # <<>> /\ devReader' = Tail(devReader)
                    /\ router' = router \/ router'.payload = Head(devReader)
  BY DEF RouterRecv, TypeOK, RouterRec
<1>3. ASSUME Router, ~RouterRecv
      PROVE  devReader' = devReader /\ router'.payload \in {router.payload, Nil}
  <2> USE DEF tun, TypeOK, RouterRec
  <2>1. CASE RouterLoad
    BY <2>1 DEF RouterLoad
  <2>2. CASE NoRoute \/ RouterSend
    BY <2>2 DEF NoRoute, RouterSend, Receiving
  <2>3. ASSUME NEW k \in Peer, RouteByID(k) \/ \E c \in Chan : MakeChan(k, c)
        PROVE  devReader' = devReader /\ router'.payload = router.payload
    BY <2>3 DEF RouteByID, MakeChan
  <2>4. CASE StoreAddr \/ StoreID
    BY <2>4 DEF StoreAddr, StoreID
  <2> HIDE DEF tun, TypeOK, RouterRec
  <2> QED BY <1>3, <2>1, <2>2, <2>3, <2>4 DEF Router
<1>4. CASE UNCHANGED <<devReader, router>>
  BY <1>4
<1>5. TUNWrite \/ (\E c \in Chan : Conn(c) \/ Collect(c)) => UNCHANGED <<devReader, router>>
  BY DEF TUNWrite, Conn, Deletes, DialFail, DialOK, ConnTake, ConnWrite, ConnWriteFail,
         AddrDelete, IDDelete, Collect, tun
<1>6. (\E h \in Handler : Handle(h) \/ \E r \in Peer \cup Stranger : HandlerEnter(h, r))
        => UNCHANGED <<devReader, router>>
  BY DEF Handle, HandlerEnter, HandlerCheck, HandlerLoad, HandlerTake, HandlerWrite, tun
<1>7. (\E l \in Link : ReadMsg(l) \/ DevWriterSend(l) \/ ReadError(l) \/ StreamBreak(l))
        => UNCHANGED <<devReader, router>>
  BY DEF ReadMsg, DevWriterSend, ReadError, StreamBreak, tun
<1>8. UNCHANGED vars => UNCHANGED <<devReader, router>>
  BY DEF vars, tun
<1> QED BY <1>1, <1>2, <1>3, <1>4, <1>5, <1>6, <1>7, <1>8 DEF Next

\* What waits to be routed stays a packet read from TUN.
LEMMA DstStep ==
    ASSUME TypeOK, TypeOK', ControlOK, DstOK, PayloadExclusive, PayloadExclusive', [Next]_vars
    PROVE  DstOK'
<1>1. ASSUME NEW i \in DOMAIN devReader, devReader[i] \notin free'
      PROVE  body'[devReader[i]] \in Addr
  BY <1>1, InUse, BodyStable DEF DstOK
<1>2. ASSUME NEW i \in DOMAIN devReader' PROVE body'[devReader'[i]] \in Addr
  <2>1. CASE devReader' = devReader
    BY <1>1, <1>2, <2>1, InUsePrime
  <2>2. CASE devReader # <<>> /\ devReader' = Tail(devReader)
    <3>1. i + 1 \in DOMAIN devReader /\ devReader'[i] = devReader[i + 1]
      BY <1>2, <2>2, TailAt DEF TypeOK
    <3> QED BY <1>1, <1>2, <3>1, InUsePrime
  <2>3. ASSUME NEW p \in Payload, devReader' = Append(devReader, p), body'[p] \in Addr
        PROVE  body'[devReader'[i]] \in Addr
    <3>1. \/ i \in DOMAIN devReader /\ devReader'[i] = devReader[i]
          \/ devReader'[i] = p
      BY <1>2, <2>3, AppendAt DEF TypeOK
    <3> QED BY <1>1, <1>2, <2>3, <3>1, InUsePrime
  <2> QED BY <2>1, <2>2, <2>3, RouterSources
<1>3. ASSUME router'.payload # Nil PROVE body'[router'.payload] \in Addr
  <2>1. CASE router'.payload = router.payload
    BY <1>3, <2>1, InUse, InUsePrime, BodyStable DEF DstOK
  <2>2. CASE devReader # <<>> /\ router'.payload = Head(devReader)
    <3>1. 1 \in DOMAIN devReader /\ Head(devReader) = devReader[1]
      BY <2>2 DEF TypeOK
    <3> QED BY <1>1, <1>3, <2>2, <3>1, InUsePrime
  <2> QED BY <1>3, <2>1, <2>2, RouterSources
<1> QED BY <1>2, <1>3 DEF DstOK

-----------------------------------------------------------------------------
(* Theorems *)

\* The inductive invariant.
THEOREM Inductive == Spec => []IInv
<1>1. Init => IInv
  <2> SUFFICES ASSUME Init PROVE IInv
    OBVIOUS
  <2>1. TypeOK
    BY RecordTypes, ConstantsAssumption DEF Init, TypeOK, StreamSt
  <2>2. ControlOK /\ DstOK
    BY DEF Init, ControlOK, DstOK, Receiving, NoHandler
  <2>3. \A z \in Place : content[z] = <<>>
    <3>1. Opt(Nil) = <<>>
      BY DEF Opt
    <3>2. devReader = <<>> /\ devWriter = <<>> /\ router.payload = Nil
      BY DEF Init, Receiving
    <3>3. \A c \in Chan : queue[c] = <<>>
      BY DEF Init
    <3>4. \A l \in Link : writing[l] = Nil /\ held[l] = Nil
      BY DEF Init
    <3>5. ASSUME NEW c \in Chan, NEW z, z = <<"queue", c>> PROVE content[z] = <<>>
      BY <3>3, <3>5, ContentAt
    <3>6. ASSUME NEW l \in Link, NEW z, z \in {<<"writing", l>>, <<"held", l>>}
          PROVE content[z] = <<>>
      BY <3>1, <3>4, <3>6, ContentAt
    <3>7. ASSUME NEW z \in {<<"dev", "reader">>, <<"dev", "writer">>, <<"dev", "router">>}
          PROVE content[z] = <<>>
      BY <3>1, <3>2, ContentAt
    <3> QED BY <3>5, <3>6, <3>7, PlaceKinds
  <2> QED BY <2>1, <2>2, <2>3 DEF IInv, PayloadExclusive, Exclusive
<1>2. IInv /\ [Next]_vars => IInv'
  BY TypeStep, ControlStep, ExclusiveStep, DstStep DEF IInv
<1> QED BY <1>1, <1>2, PTL DEF Spec

\* Every reachable state is type correct: in particular no channel of the data
\* plane ever holds more packets than its capacity.
THEOREM TypeCorrect == Spec => []TypeOK
<1>1. IInv => TypeOK
  BY DEF IInv
<1> QED BY <1>1, Inductive, PTL

\* A pooled payload never has two owners, and is never used after it was Put
\* back, whatever the number of peers, handlers, channels and payloads.
THEOREM PayloadOwnership == Spec => []PayloadExclusive
<1>1. IInv => PayloadExclusive
  BY DEF IInv
<1> QED BY <1>1, Inductive, PTL

-----------------------------------------------------------------------------
(* The route table *)

RInv == IdLive /\ AddrLive /\ LiveInId /\ ChanOK /\ RouterOK

TableTypes ==
    /\ addr \in [Addr -> Chan \cup {Nil}]
    /\ id \in [Peer -> Chan \cup {Nil}]
    /\ Nil \notin Chan \cup Peer \cup Addr

\* The packet being routed keeps its destination.
LEMMA DstStable ==
    ASSUME IInv, IInv', [Next]_vars, router.payload # Nil, router'.payload = router.payload
    PROVE  Dst' = Dst /\ Dst \in Addr
  BY InUse, InUsePrime, BodyStable DEF IInv, DstOK, Dst

\* The steps of the router between two packets.
LEMMA RouteStepRouter ==
    ASSUME IInv, IInv', RInv, Router, [Next]_vars
    PROVE  RInv'
<1>1. TypeOK /\ ControlOK /\ TableTypes
  BY ConstantsAssumption DEF IInv, TypeOK, TableTypes
<1>2. IdLive /\ AddrLive /\ LiveInId /\ ChanOK /\ RouterOK
  BY DEF RInv
<1>3. ASSUME tables' = tables, conn' = conn, router' = Receiving, router.pc \in {"send", "range"}
      PROVE  RInv'
  <2>1. addr' = addr /\ id' = id /\ conn' = conn /\ router'.pc = "recv"
    BY <1>3 DEF tables, Receiving
  <2> QED BY <1>2, <1>3, <2>1 DEF RInv, IdLive, AddrLive, LiveInId, ChanOK, RouterOK, Live
<1>4. CASE RouterRecv
  <2>1. /\ addr' = addr /\ id' = id /\ conn' = conn
        /\ router.pc = "recv" /\ router'.pc \in {"recv", "load"}
    BY <1>1, <1>4 DEF RouterRecv, TypeOK, RouterRec, tables, conns
  <2> QED BY <1>2, <2>1 DEF RInv, IdLive, AddrLive, LiveInId, ChanOK, RouterOK, Live
<1>5. CASE RouterLoad
  <2>1. router.payload # Nil /\ router'.payload = router.payload
    BY <1>1, <1>5 DEF RouterLoad, ControlOK, TypeOK, RouterRec
  <2>2. Dst' = Dst /\ Dst \in Addr
    BY <2>1, DstStable
  <2>3. conn' = conn /\ addr' = addr /\ id' = id /\ router.pc \in {"load", "byDst"}
    BY <1>5 DEF RouterLoad, tables, conns
  <2>4. IF addr[Dst] # Nil THEN router'.pc = "send" /\ router'.conn = addr[Dst]
                           ELSE router'.pc \in {"byDst", "range"}
    BY <1>1, <1>5 DEF RouterLoad, TypeOK, RouterRec
  <2>5. IdLive' /\ AddrLive' /\ LiveInId' /\ ChanOK'
    BY <1>2, <2>3 DEF IdLive, AddrLive, LiveInId, ChanOK, Live
  <2>6. RouterOK'
    BY <1>2, <2>2, <2>3, <2>4 DEF RouterOK, AddrLive
  <2> QED BY <2>5, <2>6 DEF RInv
<1>6. ASSUME NEW k \in Peer, RouteByID(k) PROVE RInv'
  <2>1. router.payload # Nil /\ router'.payload = router.payload
    BY <1>1, <1>6 DEF RouteByID, ControlOK, TypeOK, RouterRec
  <2>2. Dst' = Dst /\ Dst \in Addr
    BY <2>1, DstStable
  <2>3. conn' = conn /\ addr' = addr /\ id' = id /\ router.pc = "range"
    BY <1>6 DEF RouteByID, tables, conns
  <2>4. /\ router'.pc = "send" /\ router'.conn = id[k]
        /\ id[k] # Nil /\ id[k] \in Chan /\ PeerAddr[k] = Dst
    BY <1>1, <1>6 DEF RouteByID, Matches, TypeOK, RouterRec
  <2>5. IdLive' /\ AddrLive' /\ LiveInId' /\ ChanOK'
    BY <1>2, <2>3 DEF IdLive, AddrLive, LiveInId, ChanOK, Live
  <2>6. conn[id[k]].pc \notin {"unused", "made"} /\ conn[id[k]].dst = Dst
    BY <1>2, <2>4 DEF IdLive, Live, ChanOK
  <2>7. RouterOK'
    BY <2>2, <2>3, <2>4, <2>6 DEF RouterOK
  <2> QED BY <2>5, <2>7 DEF RInv
<1>7. ASSUME NEW k \in Peer, NEW c \in Chan, MakeChan(k, c) PROVE RInv'
  <2>1. router.payload # Nil /\ router'.payload = router.payload
    BY <1>1, <1>7 DEF MakeChan, ControlOK, TypeOK, RouterRec
  <2>2. Dst' = Dst /\ Dst \in Addr
    BY <2>1, DstStable
  <2>3. /\ addr' = addr /\ id' = id /\ id[k] = Nil /\ PeerAddr[k] = Dst
        /\ conn[c].pc = "unused" /\ router.pc = "range"
    BY <1>7 DEF MakeChan, Matches, tables
  <2>4. router'.pc = "storeAddr" /\ router'.key = k /\ router'.conn = c
    BY <1>1, <1>7 DEF MakeChan, TypeOK, RouterRec
  <2>5. /\ conn'[c].pc = "made" /\ conn'[c].key = k /\ conn'[c].dst = Dst
        /\ \A d \in Chan \ {c} : conn'[d] = conn[d]
    BY <1>1, <1>7 DEF MakeChan, TypeOK
  <2>6. IdLive'
    BY <1>1, <1>2, <2>3, <2>5 DEF IdLive, Live, TableTypes
  <2>7. AddrLive'
    BY <1>1, <1>2, <2>3, <2>5 DEF AddrLive, TableTypes
  <2>8. LiveInId'
    BY <1>2, <2>3, <2>5 DEF LiveInId, Live
  <2>9. ChanOK'
    BY <1>2, <2>3, <2>4, <2>5 DEF ChanOK
  <2>10. RouterOK'
    BY <1>2, <2>2, <2>3, <2>4, <2>5 DEF RouterOK
  <2> QED BY <2>6, <2>7, <2>8, <2>9, <2>10 DEF RInv
<1>8. CASE StoreAddr
  <2>1. router.payload # Nil /\ router'.payload = router.payload
    BY <1>1, <1>8 DEF StoreAddr, ControlOK, TypeOK, RouterRec
  <2>2. Dst' = Dst /\ Dst \in Addr
    BY <2>1, DstStable
  <2>3. conn' = conn /\ id' = id /\ router.pc = "storeAddr" /\ router.conn \in Chan
    BY <1>1, <1>8 DEF StoreAddr, conns, ControlOK, TypeOK, RouterRec
  <2>4. router'.pc = "storeID" /\ router'.key = router.key /\ router'.conn = router.conn
    BY <1>1, <1>8 DEF StoreAddr, TypeOK, RouterRec
  <2>5. addr'[Dst] = router.conn /\ \A a \in Addr \ {Dst} : addr'[a] = addr[a]
    BY <1>1, <1>8, <2>2 DEF StoreAddr, TypeOK
  <2>6. addr[Dst] = Nil /\ conn[router.conn].pc = "made" /\ conn[router.conn].dst = Dst
    BY <1>2, <2>3 DEF RouterOK
  <2>7. IdLive' /\ LiveInId'
    BY <1>2, <2>3 DEF IdLive, LiveInId, Live
  <2>8. AddrLive'
    BY <1>2, <2>3, <2>4, <2>5, <2>6 DEF AddrLive
  <2>9. ChanOK'
    <3> SUFFICES ASSUME NEW d \in Chan PROVE ChanOK!(d)'
      BY DEF ChanOK
    <3>1. conn[d].pc \in {"dialing", "open", "addrDelete"} => conn[d].dst \in Addr \ {Dst}
      BY <1>1, <1>2, <2>6, ConstantsAssumption DEF ChanOK, TableTypes
    <3> QED BY <1>2, <2>3, <2>4, <2>5, <3>1 DEF ChanOK
  <2>10. RouterOK'
    BY <1>2, <2>2, <2>3, <2>4, <2>5 DEF RouterOK
  <2> QED BY <2>7, <2>8, <2>9, <2>10 DEF RInv
<1>9. CASE StoreID
  <2> DEFINE c == router.conn
             k == router.key
  <2>1. router.payload # Nil /\ router'.payload = router.payload
    BY <1>1, <1>9 DEF StoreID, ControlOK, TypeOK, RouterRec
  <2>2. Dst' = Dst /\ Dst \in Addr
    BY <2>1, DstStable
  <2>3. router.pc = "storeID" /\ addr' = addr /\ c \in Chan /\ k \in Peer
    BY <1>1, <1>9 DEF StoreID, ControlOK, TypeOK, RouterRec
  <2>4. router'.pc = "send" /\ router'.conn = c
    BY <1>1, <1>9 DEF StoreID, TypeOK, RouterRec
  <2>5. id'[k] = c /\ \A j \in Peer \ {k} : id'[j] = id[j]
    BY <1>1, <1>9, <2>3 DEF StoreID, TypeOK
  <2>6. /\ conn'[c].pc = "dialing" /\ conn'[c].key = conn[c].key /\ conn'[c].dst = conn[c].dst
        /\ \A d \in Chan \ {c} : conn'[d] = conn[d]
    BY <1>1, <1>9, <2>3 DEF StoreID, TypeOK, ConnRec
  <2>7. conn[c].key = k /\ conn[c].dst = Dst /\ conn[c].pc = "made" /\ id[k] = Nil /\ addr[Dst] = c
    BY <1>2, <2>3 DEF RouterOK
  <2> HIDE DEF c, k
  <2>8. IdLive'
    BY <1>1, <1>2, <2>3, <2>5, <2>6, <2>7 DEF IdLive, Live, TableTypes
  <2>9. AddrLive'
    BY <1>1, <1>2, <2>3, <2>6, <2>7 DEF AddrLive, TableTypes, c
  <2>10. LiveInId'
    <3> SUFFICES ASSUME NEW d \in Chan, Live(d)' PROVE id'[conn'[d].key] = d
      BY DEF LiveInId
    <3>1. CASE d = c
      BY <2>5, <2>6, <2>7, <3>1
    <3>2. CASE d # c
      <4>1. Live(d) /\ conn'[d] = conn[d]
        BY <2>6, <3>2 DEF Live
      <4>2. id[conn[d].key] = d /\ conn[d].key \in Peer
        BY <1>2, <4>1 DEF LiveInId, ChanOK, Live
      <4> QED BY <1>1, <2>5, <2>7, <4>1, <4>2 DEF TableTypes
    <3> QED BY <3>1, <3>2
  <2>11. ChanOK'
    BY <1>2, <2>3, <2>6, <2>7 DEF ChanOK, c
  <2>12. RouterOK'
    BY <2>2, <2>4, <2>6, <2>7 DEF RouterOK
  <2> QED BY <2>8, <2>9, <2>10, <2>11, <2>12 DEF RInv
<1>10. CASE RouterSend \/ NoRoute
  BY <1>3, <1>10 DEF RouterSend, NoRoute, tables, conns
<1> QED BY <1>4, <1>5, <1>6, <1>7, <1>8, <1>9, <1>10 DEF Router

\* The steps of everyone else: the router stays where it is.
LEMMA RouteStepOthers ==
    ASSUME IInv, IInv', RInv, [Next]_vars, router' = router
    PROVE  RInv'
<1>1. TypeOK /\ ControlOK /\ TableTypes
  BY ConstantsAssumption DEF IInv, TypeOK, TableTypes
<1>2. IdLive /\ AddrLive /\ LiveInId /\ ChanOK /\ RouterOK
  BY DEF RInv
<1>3. router.pc # "recv" => Dst' = Dst /\ Dst \in Addr
  BY <1>1, DstStable DEF ControlOK
<1>4. ASSUME addr' = addr, id' = id, conn' = conn PROVE RInv'
  BY <1>2, <1>3, <1>4 DEF RInv, IdLive, AddrLive, LiveInId, ChanOK, RouterOK, Live
<1>5. ASSUME NEW c \in Chan, NEW s \in {"open", "addrDelete"}, addr' = addr, id' = id,
             conn[c].pc \in {"dialing", "open"}, conn' = [conn EXCEPT ![c].pc = s]
      PROVE  RInv'
  <2>1. /\ conn'[c].pc = s /\ conn'[c].key = conn[c].key /\ conn'[c].dst = conn[c].dst
        /\ \A d \in Chan \ {c} : conn'[d] = conn[d]
    BY <1>1, <1>5 DEF TypeOK, ConnRec
  <2>2. IdLive'
    BY <1>1, <1>2, <1>5, <2>1 DEF IdLive, Live, TableTypes
  <2>3. AddrLive'
    BY <1>1, <1>2, <1>5, <2>1 DEF AddrLive, TableTypes
  <2>4. LiveInId'
    BY <1>2, <1>5, <2>1 DEF LiveInId, Live
  <2>5. ChanOK'
    BY <1>2, <1>5, <2>1 DEF ChanOK
  <2>6. RouterOK'
    <3>1. router.pc \in {"storeAddr", "storeID", "send"} => router.conn \in Chan
      BY <1>1 DEF ControlOK, TypeOK, RouterRec
    <3> QED BY <1>2, <1>3, <1>5, <2>1, <3>1 DEF RouterOK
  <2> QED BY <2>2, <2>3, <2>4, <2>5, <2>6 DEF RInv
<1>6. ASSUME NEW c \in Chan, AddrDelete(c) PROVE RInv'
  <2> DEFINE a == conn[c].dst
  <2>1. /\ conn'[c].pc = "idDelete" /\ conn'[c].key = conn[c].key /\ conn'[c].dst = conn[c].dst
        /\ \A d \in Chan \ {c} : conn'[d] = conn[d]
    BY <1>1, <1>6 DEF AddrDelete, TypeOK, ConnRec
  <2>2. conn[c].pc = "addrDelete" /\ id' = id /\ addr[a] = c /\ a \in Addr
    BY <1>2, <1>6, ConstantsAssumption DEF AddrDelete, ChanOK
  <2>3. addr'[a] = Nil /\ \A b \in Addr \ {a} : addr'[b] = addr[b]
    BY <1>1, <1>6, <2>2 DEF AddrDelete, TypeOK
  <2> HIDE DEF a
  <2>4. IdLive'
    BY <1>1, <1>2, <2>1, <2>2 DEF IdLive, Live, TableTypes
  <2>5. AddrLive'
    <3> SUFFICES ASSUME NEW b \in Addr, addr'[b] # Nil
                 PROVE  /\ conn'[addr'[b]].dst = b
                        /\ \/ conn'[addr'[b]].pc \in {"dialing", "open", "addrDelete"}
                           \/ router.pc = "storeID" /\ router.conn = addr'[b]
      BY DEF AddrLive
    <3>1. b # a /\ addr'[b] = addr[b] /\ addr[b] \in Chan /\ conn[addr[b]].dst = b
      BY <1>1, <1>2, <2>3 DEF TableTypes, AddrLive
    <3>2. addr[b] # c
      BY <3>1 DEF a
    <3> QED BY <1>2, <2>1, <3>1, <3>2 DEF AddrLive
  <2>6. LiveInId'
    BY <1>2, <2>1, <2>2 DEF LiveInId, Live
  <2>7. ChanOK'
    <3> SUFFICES ASSUME NEW d \in Chan PROVE ChanOK!(d)'
      BY DEF ChanOK
    <3>1. d # c /\ conn[d].pc \in {"dialing", "open", "addrDelete"} => conn[d].dst \in Addr \ {a}
      BY <1>2, <2>2, ConstantsAssumption DEF ChanOK
    <3> QED BY <1>2, <2>1, <2>2, <2>3, <3>1 DEF ChanOK
  <2>8. RouterOK'
    <3>1. router.pc \in {"storeAddr", "storeID", "send"} => router.conn \in Chan
      BY <1>1 DEF ControlOK, TypeOK, RouterRec
    <3>2. router.pc \in {"range", "storeAddr"} => Dst # a
      BY <1>1, <1>2, <2>2 DEF RouterOK, TableTypes
    <3>3. router.pc = "storeID" => router.conn # c /\ Dst # a
      BY <1>2, <2>2 DEF RouterOK
    <3> QED BY <1>2, <1>3, <2>1, <2>2, <2>3, <3>1, <3>2, <3>3 DEF RouterOK
  <2> QED BY <2>4, <2>5, <2>6, <2>7, <2>8 DEF RInv
<1>7. ASSUME NEW c \in Chan, IDDelete(c) PROVE RInv'
  <2> DEFINE k == conn[c].key
  <2>1. /\ conn'[c].pc = "done" /\ conn'[c].key = conn[c].key /\ conn'[c].dst = conn[c].dst
        /\ \A d \in Chan \ {c} : conn'[d] = conn[d]
    BY <1>1, <1>7 DEF IDDelete, TypeOK, ConnRec
  <2>2. conn[c].pc = "idDelete" /\ addr' = addr /\ id[k] = c /\ k \in Peer
    BY <1>2, <1>7 DEF IDDelete, ChanOK, LiveInId, Live
  <2>3. id'[k] = Nil /\ \A j \in Peer \ {k} : id'[j] = id[j]
    BY <1>1, <1>7, <2>2 DEF IDDelete, TypeOK
  <2>4. \A j \in Peer \ {k} : id[j] # c
    BY <1>1, <1>2 DEF IdLive, TableTypes
  <2> HIDE DEF k
  <2>5. IdLive'
    BY <1>1, <1>2, <2>1, <2>3, <2>4 DEF IdLive, Live, TableTypes
  <2>6. AddrLive'
    <3>1. \A a \in Addr : addr[a] # c
      <4>1. router.pc = "storeID" => router.conn # c
        BY <1>2, <2>2 DEF RouterOK
      <4> QED BY <1>1, <1>2, <2>2, <4>1 DEF AddrLive, TableTypes
    <3> QED BY <1>1, <1>2, <2>1, <2>2, <3>1 DEF AddrLive, TableTypes
  <2>7. LiveInId'
    <3> SUFFICES ASSUME NEW d \in Chan, Live(d)' PROVE id'[conn'[d].key] = d
      BY DEF LiveInId
    <3>1. d # c
      BY <2>1 DEF Live
    <3>2. Live(d) /\ conn'[d] = conn[d]
      BY <2>1, <3>1 DEF Live
    <3>3. id[conn[d].key] = d /\ conn[d].key \in Peer
      BY <1>2, <3>2 DEF LiveInId, ChanOK, Live
    <3> QED BY <2>2, <2>3, <3>1, <3>2, <3>3
  <2>8. ChanOK'
    BY <1>2, <2>1, <2>2 DEF ChanOK
  <2>9. RouterOK'
    <3>1. router.pc \in {"storeAddr", "storeID", "send"} => router.conn \in Chan
      BY <1>1 DEF ControlOK, TypeOK, RouterRec
    <3>2. router.pc \in {"storeAddr", "storeID"} => router.conn # c /\ router.key \in Peer
      BY <1>1, <1>2, <2>2 DEF RouterOK, ControlOK, TypeOK, RouterRec
    <3> QED BY <1>1, <1>2, <1>3, <2>1, <2>2, <2>3, <3>1, <3>2 DEF RouterOK, TableTypes
  <2> QED BY <2>5, <2>6, <2>7, <2>8, <2>9 DEF RInv
<1>8. ASSUME NEW c \in Chan, Collect(c) PROVE RInv'
  <2>1. /\ conn'[c].pc = "unused" /\ \A d \in Chan \ {c} : conn'[d] = conn[d]
        /\ addr' = addr /\ id' = id
    BY <1>1, <1>8 DEF Collect, TypeOK, NoConn, tables
  <2>2. /\ \A a \in Addr : addr[a] # c
        /\ \A k \in Peer : id[k] # c
        /\ router.conn # c /\ conn[c].pc = "done"
    BY <1>8 DEF Collect, Unreferenced
  <2>3. IdLive'
    BY <1>1, <1>2, <2>1, <2>2 DEF IdLive, Live, TableTypes
  <2>4. AddrLive'
    BY <1>1, <1>2, <2>1, <2>2 DEF AddrLive, TableTypes
  <2>5. LiveInId'
    BY <1>2, <2>1, <2>2 DEF LiveInId, Live
  <2>6. ChanOK'
    BY <1>2, <2>1, <2>2 DEF ChanOK
  <2>7. RouterOK'
    <3>1. router.pc \in {"storeAddr", "storeID", "send"} => router.conn \in Chan \ {c}
      BY <1>1, <2>2 DEF ControlOK, TypeOK, RouterRec
    <3> QED BY <1>2, <1>3, <2>1, <3>1 DEF RouterOK
  <2> QED BY <2>3, <2>4, <2>5, <2>6, <2>7 DEF RInv
<1>9. ASSUME NEW c \in Chan, DialFail(c) \/ DialOK(c) \/ ConnTake(c) \/ ConnWrite(c)
      PROVE  RInv'
  BY <1>4, <1>5, <1>9 DEF DialFail, DialOK, ConnTake, ConnWrite, tables, conns
<1>10. ASSUME NEW c \in Chan, ConnWriteFail(c) PROVE RInv'
  BY <1>5, <1>10 DEF ConnWriteFail, tables
<1>11. ASSUME NEW h \in Handler, Handle(h) \/ \E r \in Peer \cup Stranger : HandlerEnter(h, r)
       PROVE  RInv'
  BY <1>4, <1>11
     DEF Handle, HandlerEnter, HandlerCheck, HandlerLoad, HandlerTake, HandlerWrite, tables, conns
<1>12. ASSUME NEW l \in Link, ReadMsg(l) \/ DevWriterSend(l) \/ ReadError(l) \/ StreamBreak(l)
       PROVE  RInv'
  BY <1>4, <1>12 DEF ReadMsg, DevWriterSend, ReadError, StreamBreak, tables, conns
<1>13. CASE TUNWrite \/ \E pkt \in Addr \cup {Malformed} : TUNRead(pkt)
  BY <1>4, <1>13 DEF TUNWrite, TUNRead, tables, conns
<1>14. CASE UNCHANGED vars
  BY <1>4, <1>14 DEF vars, tables, conns
<1>15. CASE Router
  BY <1>15, RouteStepRouter
<1> QED BY <1>6, <1>7, <1>8, <1>9, <1>10, <1>11, <1>12, <1>13, <1>14, <1>15
        DEF Next, Conn, Deletes

\* Only the router moves the router.
LEMMA RouterAlone ==
    ASSUME [Next]_vars, ~Router PROVE router' = router
<1>1. ASSUME NEW c \in Chan, Conn(c) \/ Collect(c) PROVE router' = router
  BY <1>1 DEF Conn, Deletes, DialFail, DialOK, ConnTake, ConnWrite, ConnWriteFail, AddrDelete,
              IDDelete, Collect
<1>2. ASSUME NEW h \in Handler, Handle(h) \/ \E r \in Peer \cup Stranger : HandlerEnter(h, r)
      PROVE  router' = router
  BY <1>2 DEF Handle, HandlerEnter, HandlerCheck, HandlerLoad, HandlerTake, HandlerWrite
<1>3. ASSUME NEW l \in Link, ReadMsg(l) \/ DevWriterSend(l) \/ ReadError(l) \/ StreamBreak(l)
      PROVE  router' = router
  BY <1>3 DEF ReadMsg, DevWriterSend, ReadError, StreamBreak
<1>4. CASE TUNWrite \/ (\E pkt \in Addr \cup {Malformed} : TUNRead(pkt)) \/ UNCHANGED vars
  BY <1>4 DEF TUNWrite, TUNRead, vars
<1> QED BY <1>1, <1>2, <1>3, <1>4 DEF Next

\* The route table is inductive together with the payloads' owners.
THEOREM RouteInductive == Spec => [](IInv /\ RInv)
<1>1. Init => RInv
  BY DEF Init, RInv, IdLive, AddrLive, LiveInId, ChanOK, RouterOK, Live, NoConn, Receiving
<1>2. IInv /\ IInv' /\ RInv /\ [Next]_vars => RInv'
  BY RouteStepRouter, RouteStepOthers, RouterAlone
<1> QED BY <1>1, <1>2, Inductive, PTL DEF Spec

\* The route table and the goroutines agree in every reachable state: nothing
\* that the router or VPNHandler looks up belongs to a goroutine that is gone,
\* and no running goroutine is missing from the table.
THEOREM RouteTable == Spec => []RouteTableAgrees
<1>1. RInv => RouteTableAgrees
  BY DEF RInv, RouteTableAgrees
<1> QED BY <1>1, RouteInductive, PTL

\* No two goroutines are ever dialing, writing to or cleaning up after the same
\* peer, whatever the interleaving of the router with the Deletes of an old one.
THEOREM SingleConnection == Spec => []OneConnPerPeer
<1>1. RouteTableAgrees => OneConnPerPeer
  BY DEF RouteTableAgrees, LiveInId, OneConnPerPeer
<1> QED BY <1>1, RouteTable, PTL

-----------------------------------------------------------------------------
(* Who changes the route table *)

\* No step replaces a channel in the route table, and a channel is removed only
\* by the goroutine that was started with it.
LEMMA OwnerStep ==
    ASSUME IInv, RInv, [Next]_vars
    PROVE  /\ \A k \in Peer : id[k] # Nil /\ id'[k] # id[k] =>
                 id'[k] = Nil /\ conn[id[k]].pc = "idDelete"
           /\ \A a \in Addr : addr[a] # Nil /\ addr'[a] # addr[a] =>
                 addr'[a] = Nil /\ conn[addr[a]].pc = "addrDelete"
<1> DEFINE Goal == /\ \A k \in Peer : id[k] # Nil /\ id'[k] # id[k] =>
                         id'[k] = Nil /\ conn[id[k]].pc = "idDelete"
                   /\ \A a \in Addr : addr[a] # Nil /\ addr'[a] # addr[a] =>
                         addr'[a] = Nil /\ conn[addr[a]].pc = "addrDelete"
<1> SUFFICES Goal
  OBVIOUS
<1>1. TypeOK /\ ControlOK /\ DstOK
  BY DEF IInv
<1>2. LiveInId /\ ChanOK /\ RouterOK
  BY DEF RInv
<1>3. CASE UNCHANGED tables
  BY <1>3 DEF tables
<1>4. CASE StoreAddr
  BY <1>1, <1>2, <1>4 DEF StoreAddr, RouterOK, TypeOK
<1>5. CASE StoreID
  BY <1>1, <1>2, <1>5 DEF StoreID, RouterOK, TypeOK
<1>6. ASSUME NEW c \in Chan, AddrDelete(c) PROVE Goal
  <2>1. addr[conn[c].dst] = c /\ conn[c].pc = "addrDelete"
    BY <1>2, <1>6 DEF AddrDelete, ChanOK
  <2> QED BY <1>1, <1>6, <2>1 DEF AddrDelete, TypeOK
<1>7. ASSUME NEW c \in Chan, IDDelete(c) PROVE Goal
  <2>1. id[conn[c].key] = c /\ conn[c].pc = "idDelete"
    BY <1>2, <1>7 DEF IDDelete, LiveInId, Live
  <2> QED BY <1>1, <1>7, <2>1 DEF IDDelete, TypeOK
<1> HIDE DEF Goal
<1>8. CASE TUNWrite \/ (\E pkt \in Addr \cup {Malformed} : TUNRead(pkt)) \/ UNCHANGED vars
  BY <1>3, <1>4, <1>5, <1>6, <1>7, <1>8
     DEF TUNWrite, TUNRead, vars, tables
<1>9. CASE Router
  BY <1>3, <1>4, <1>5, <1>6, <1>7, <1>9
     DEF Router, RouterRecv, RouterLoad, NoRoute, RouteByID, MakeChan, RouterSend, tables
<1>10. ASSUME NEW c1 \in Chan, Conn(c1) \/ Collect(c1) PROVE Goal
  BY <1>3, <1>4, <1>5, <1>6, <1>7, <1>10
     DEF Conn, Deletes, DialFail, DialOK, ConnTake, ConnWrite, ConnWriteFail, Collect, tables
<1>11. ASSUME NEW h1 \in Handler, Handle(h1) \/ \E r \in Peer \cup Stranger : HandlerEnter(h1, r)
      PROVE  Goal
  BY <1>3, <1>4, <1>5, <1>6, <1>7, <1>11
     DEF Handle, HandlerEnter, HandlerCheck, HandlerLoad, HandlerTake, HandlerWrite, tables
<1>12. ASSUME NEW l1 \in Link,
             ReadMsg(l1) \/ DevWriterSend(l1) \/ ReadError(l1) \/ StreamBreak(l1)
      PROVE  Goal
  BY <1>3, <1>4, <1>5, <1>6, <1>7, <1>12
     DEF ReadMsg, DevWriterSend, ReadError, StreamBreak, tables
<1> QED BY <1>8, <1>9, <1>10, <1>11, <1>12 DEF Next

\* The deferred Deletes of a goroutine delete by key, and yet never remove the
\* entry of another goroutine, in any interleaving with the router's Stores.
THEOREM OwnerDeletes == Spec => OnlyOwnerDeletes
<1>1. IInv /\ RInv /\ [Next]_vars =>
        [ /\ \A k \in Peer : id[k] # Nil /\ id'[k] # id[k] =>
                id'[k] = Nil /\ conn[id[k]].pc = "idDelete"
          /\ \A a \in Addr : addr[a] # Nil /\ addr'[a] # addr[a] =>
                addr'[a] = Nil /\ conn[addr[a]].pc = "addrDelete" ]_vars
  BY OwnerStep
<1> QED BY <1>1, RouteInductive, PTL DEF Spec, OnlyOwnerDeletes

-----------------------------------------------------------------------------
(* Packets reach the peer they are for *)

\* Nothing in a channel, or taken from one, is in the pool.
LEMMA SentInUse ==
    ASSUME TypeOK, PayloadExclusive
    PROVE  /\ \A c \in Chan : \A i \in DOMAIN queue[c] : queue[c][i] \in Payload \ free
           /\ \A l \in Link : writing[l] # Nil => writing[l] \in Payload \ free
<1>1. ASSUME NEW c \in Chan, NEW i \in DOMAIN queue[c] PROVE queue[c][i] \in Payload \ free
  <2>1. queue[c][i] \in Payload
    BY <1>1 DEF TypeOK
  <2> QED BY <1>1, <2>1, ContentAt, PlaceKinds DEF PayloadExclusive, Exclusive
<1>2. ASSUME NEW l \in Link, writing[l] # Nil PROVE writing[l] \in Payload \ free
  <2>1. writing[l] \in Payload
    BY <1>2 DEF TypeOK
  <2>2. content[<<"writing", l>>] = <<writing[l]>>
    BY <2>1, ContentAt, OptOne
  <2>3. 1 \in DOMAIN content[<<"writing", l>>]
    BY <2>2
  <2>4. content[<<"writing", l>>][1] = writing[l]
    BY <2>2
  <2>5. <<"writing", l>> \in Place
    BY PlaceKinds
  <2> QED BY <2>1, <2>3, <2>4, <2>5 DEF PayloadExclusive, Exclusive
<1> QED BY <1>1, <1>2

\* The same for the state after a step.
LEMMA SentInUsePrime ==
    ASSUME TypeOK', PayloadExclusive'
    PROVE  /\ \A c \in Chan : \A i \in DOMAIN queue'[c] : queue'[c][i] \in Payload \ free'
           /\ \A l \in Link : writing'[l] # Nil => writing'[l] \in Payload \ free'
<1>1. ASSUME NEW c \in Chan, NEW i \in DOMAIN queue'[c] PROVE queue'[c][i] \in Payload \ free'
  <2>1. queue'[c][i] \in Payload
    BY <1>1 DEF TypeOK
  <2> QED BY <1>1, <2>1, ContentAtPrime, PlaceKinds DEF PayloadExclusive, Exclusive
<1>2. ASSUME NEW l \in Link, writing'[l] # Nil PROVE writing'[l] \in Payload \ free'
  <2>1. writing'[l] \in Payload
    BY <1>2 DEF TypeOK
  <2>2. content'[<<"writing", l>>] = <<writing'[l]>>
    BY <2>1, ContentAtPrime, OptOne
  <2>3. 1 \in DOMAIN content'[<<"writing", l>>]
    BY <2>2
  <2>4. content'[<<"writing", l>>][1] = writing'[l]
    BY <2>2
  <2>5. <<"writing", l>> \in Place
    BY PlaceKinds
  <2> QED BY <2>1, <2>3, <2>4, <2>5 DEF PayloadExclusive, Exclusive
<1> QED BY <1>1, <1>2

\* Packets get into a channel by RouterSend only, and leave it from its head.
LEMMA QueueSources ==
    ASSUME TypeOK, ControlOK, [Next]_vars, NEW c \in Chan
    PROVE  \/ queue'[c] = queue[c]
           \/ queue[c] # <<>> /\ queue'[c] = Tail(queue[c])
           \/ /\ router.pc = "send" /\ router.conn = c /\ router.payload \in Payload
              /\ queue'[c] = Append(queue[c], router.payload)
           \/ queue'[c] = <<>>
<1> DEFINE Goal == \/ queue'[c] = queue[c]
                   \/ queue[c] # <<>> /\ queue'[c] = Tail(queue[c])
                   \/ /\ router.pc = "send" /\ router.conn = c /\ router.payload \in Payload
                      /\ queue'[c] = Append(queue[c], router.payload)
                   \/ queue'[c] = <<>>
<1> SUFFICES Goal
  OBVIOUS
<1>1. CASE queue' = queue
  BY <1>1
<1>2. CASE RouterSend
  BY <1>2 DEF RouterSend, TypeOK, ControlOK, RouterRec
<1>3. ASSUME NEW d, NEW l, Take(d, l) PROVE Goal
  BY <1>3 DEF Take, TypeOK
<1>4. ASSUME NEW d \in Chan, Collect(d) PROVE Goal
  BY <1>4 DEF Collect, TypeOK
<1> HIDE DEF Goal
<1>5. CASE TUNWrite \/ (\E pkt \in Addr \cup {Malformed} : TUNRead(pkt)) \/ UNCHANGED vars
  BY <1>1, <1>2, <1>3, <1>4, <1>5
     DEF TUNWrite, TUNRead, vars, conns
<1>6. CASE Router
  BY <1>1, <1>2, <1>3, <1>4, <1>6
     DEF Router, RouterRecv, RouterLoad, NoRoute, RouteByID, MakeChan, StoreAddr, StoreID, conns
<1>7. ASSUME NEW c1 \in Chan, Conn(c1) \/ Collect(c1) PROVE Goal
  BY <1>1, <1>2, <1>3, <1>4, <1>7
     DEF Conn, Deletes, DialFail, DialOK, ConnTake, ConnWrite, ConnWriteFail, AddrDelete,
         IDDelete, conns
<1>8. ASSUME NEW h1 \in Handler, Handle(h1) \/ \E r \in Peer \cup Stranger : HandlerEnter(h1, r)
      PROVE  Goal
  BY <1>1, <1>2, <1>3, <1>4, <1>8
     DEF Handle, HandlerEnter, HandlerCheck, HandlerLoad, HandlerTake, HandlerWrite, conns
<1>9. ASSUME NEW l1 \in Link,
             ReadMsg(l1) \/ DevWriterSend(l1) \/ ReadError(l1) \/ StreamBreak(l1)
      PROVE  Goal
  BY <1>1, <1>2, <1>3, <1>4, <1>9
     DEF ReadMsg, DevWriterSend, ReadError, StreamBreak, conns
<1> QED BY <1>5, <1>6, <1>7, <1>8, <1>9 DEF Next

\* A goroutine writes what it took from the head of its channel.
LEMMA WritingSources ==
    ASSUME TypeOK, ControlOK, [Next]_vars, NEW l \in Link, writing'[l] # Nil
    PROVE  \/ writing'[l] = writing[l]
           \/ /\ l \in Chan /\ conn[l].pc = "open" /\ conn' = conn
              /\ queue[l] # <<>> /\ writing'[l] = Head(queue[l])
           \/ /\ l \in Handler /\ handler[l].pc = "serving" /\ handler' = handler
              /\ queue[handler[l].chan] # <<>>
              /\ writing'[l] = Head(queue[handler[l].chan])
<1> DEFINE Goal == \/ writing'[l] = writing[l]
                   \/ /\ l \in Chan /\ conn[l].pc = "open" /\ conn' = conn
                      /\ queue[l] # <<>> /\ writing'[l] = Head(queue[l])
                   \/ /\ l \in Handler /\ handler[l].pc = "serving" /\ handler' = handler
                      /\ queue[handler[l].chan] # <<>>
                      /\ writing'[l] = Head(queue[handler[l].chan])
<1> SUFFICES Goal
  OBVIOUS
<1>1. CASE writing' = writing
  BY <1>1
<1>2. ASSUME NEW m, Written(m) PROVE Goal
  BY <1>2 DEF Written, TypeOK
<1>3. ASSUME NEW c \in Chan, ConnTake(c) PROVE Goal
  BY <1>3 DEF ConnTake, Take, TypeOK
<1>4. ASSUME NEW h \in Handler, HandlerTake(h) PROVE Goal
  BY <1>4 DEF HandlerTake, Take, TypeOK
<1> HIDE DEF Goal
<1>5. CASE TUNWrite \/ (\E pkt \in Addr \cup {Malformed} : TUNRead(pkt)) \/ UNCHANGED vars
  BY <1>1, <1>2, <1>3, <1>4, <1>5
     DEF TUNWrite, TUNRead, vars, links
<1>6. CASE Router
  BY <1>1, <1>2, <1>3, <1>4, <1>6
     DEF Router, RouterRecv, RouterLoad, NoRoute, RouteByID, MakeChan, StoreAddr, StoreID,
         RouterSend, links
<1>7. ASSUME NEW c1 \in Chan, Conn(c1) \/ Collect(c1) PROVE Goal
  BY <1>1, <1>2, <1>3, <1>4, <1>7
     DEF Conn, Deletes, DialFail, DialOK, ConnWrite, ConnWriteFail, AddrDelete, IDDelete,
         Collect, links
<1>8. ASSUME NEW h1 \in Handler, Handle(h1) \/ \E r \in Peer \cup Stranger : HandlerEnter(h1, r)
      PROVE  Goal
  BY <1>1, <1>2, <1>3, <1>4, <1>8
     DEF Handle, HandlerEnter, HandlerCheck, HandlerLoad, HandlerWrite, links
<1>9. ASSUME NEW l1 \in Link,
             ReadMsg(l1) \/ DevWriterSend(l1) \/ ReadError(l1) \/ StreamBreak(l1)
      PROVE  Goal
  BY <1>1, <1>2, <1>3, <1>4, <1>9
     DEF ReadMsg, DevWriterSend, ReadError, StreamBreak, links
<1> QED BY <1>5, <1>6, <1>7, <1>8, <1>9 DEF Next

\* What happens to a channel's record in a step.
LEMMA ConnSteps ==
    ASSUME TypeOK, ControlOK, RouterOK, [Next]_vars, NEW c \in Chan
    PROVE  \/ conn'[c] = conn[c]
           \/ /\ conn[c].pc # "unused" /\ conn'[c].pc # "unused" /\ conn'[c].key = conn[c].key
              /\ conn[c].pc = "open" => writing'[c] = Nil
           \/ conn[c].pc = "unused" /\ queue'[c] = queue[c] /\ writing' = writing
           \/ /\ conn[c].pc = "done" /\ queue'[c] = <<>> /\ writing' = writing
              /\ handler' = handler /\ \A h \in Handler : handler[h].chan # c
<1> DEFINE Goal == \/ conn'[c] = conn[c]
                   \/ /\ conn[c].pc # "unused" /\ conn'[c].pc # "unused"
                      /\ conn'[c].key = conn[c].key
                      /\ conn[c].pc = "open" => writing'[c] = Nil
                   \/ conn[c].pc = "unused" /\ queue'[c] = queue[c] /\ writing' = writing
                   \/ /\ conn[c].pc = "done" /\ queue'[c] = <<>> /\ writing' = writing
                      /\ handler' = handler /\ \A h \in Handler : handler[h].chan # c
<1> SUFFICES Goal
  OBVIOUS
<1>1. CASE conn' = conn
  BY <1>1
<1>2. ASSUME NEW k \in Peer, NEW d \in Chan, MakeChan(k, d) PROVE Goal
  BY <1>2 DEF MakeChan, TypeOK, links
<1>3. CASE StoreID
  BY <1>3 DEF StoreID, TypeOK, ConnRec, RouterOK
<1>4. ASSUME NEW d \in Chan, DialFail(d) \/ DialOK(d) \/ AddrDelete(d) \/ IDDelete(d) PROVE Goal
  BY <1>4 DEF DialFail, DialOK, AddrDelete, IDDelete, TypeOK, ConnRec
<1>5. ASSUME NEW d \in Chan, ConnWriteFail(d) PROVE Goal
  BY <1>5 DEF ConnWriteFail, Written, TypeOK, ConnRec, Link
<1>6. ASSUME NEW d \in Chan, Collect(d) PROVE Goal
  BY <1>6 DEF Collect, Unreferenced, TypeOK
<1> HIDE DEF Goal
<1>7. CASE TUNWrite \/ (\E pkt \in Addr \cup {Malformed} : TUNRead(pkt)) \/ UNCHANGED vars
  BY <1>1, <1>2, <1>3, <1>4, <1>5, <1>6, <1>7
     DEF TUNWrite, TUNRead, vars, conns
<1>8. CASE Router
  BY <1>1, <1>2, <1>3, <1>4, <1>5, <1>6, <1>8
     DEF Router, RouterRecv, RouterLoad, NoRoute, RouteByID, StoreAddr, RouterSend, conns
<1>9. ASSUME NEW c1 \in Chan, Conn(c1) \/ Collect(c1) PROVE Goal
  BY <1>1, <1>2, <1>3, <1>4, <1>5, <1>6, <1>9
     DEF Conn, Deletes, ConnTake, ConnWrite, conns
<1>10. ASSUME NEW h1 \in Handler, Handle(h1) \/ \E r \in Peer \cup Stranger : HandlerEnter(h1, r)
      PROVE  Goal
  BY <1>1, <1>2, <1>3, <1>4, <1>5, <1>6, <1>10
     DEF Handle, HandlerEnter, HandlerCheck, HandlerLoad, HandlerTake, HandlerWrite, conns
<1>11. ASSUME NEW l1 \in Link,
             ReadMsg(l1) \/ DevWriterSend(l1) \/ ReadError(l1) \/ StreamBreak(l1)
      PROVE  Goal
  BY <1>1, <1>2, <1>3, <1>4, <1>5, <1>6, <1>11
     DEF ReadMsg, DevWriterSend, ReadError, StreamBreak, conns
<1> QED BY <1>7, <1>8, <1>9, <1>10, <1>11 DEF Next

\* What happens to a handler in a step: once it serves a stream it stays as it is.
LEMMA HandlerSteps ==
    ASSUME TypeOK, ControlOK, [Next]_vars, NEW h \in Handler
    PROVE  \/ handler'[h] = handler[h]
           \/ handler[h].pc # "serving" /\ writing' = writing /\ handler'[h].pc # "serving"
           \/ /\ handler[h].pc = "known" /\ writing' = writing /\ conn' = conn
              /\ handler'[h].peer = handler[h].peer
              /\ handler'[h].chan = id[handler[h].peer] /\ id[handler[h].peer] # Nil
<1> DEFINE Goal == \/ handler'[h] = handler[h]
                   \/ handler[h].pc # "serving" /\ writing' = writing /\ handler'[h].pc # "serving"
                   \/ /\ handler[h].pc = "known" /\ writing' = writing /\ conn' = conn
                      /\ handler'[h].peer = handler[h].peer
                      /\ handler'[h].chan = id[handler[h].peer] /\ id[handler[h].peer] # Nil
<1> SUFFICES Goal
  OBVIOUS
<1>1. CASE handler' = handler
  BY <1>1
<1>2. ASSUME NEW g \in Handler, NEW r \in Peer \cup Stranger, HandlerEnter(g, r) PROVE Goal
  BY <1>2 DEF HandlerEnter, TypeOK
<1>3. ASSUME NEW g \in Handler, HandlerCheck(g) PROVE Goal
  <2>1. CASE g # h
    BY <1>3, <2>1 DEF HandlerCheck, TypeOK
  <2>2. CASE g = h
    BY <1>3, <2>2 DEF HandlerCheck, TypeOK, NoHandler, HandlerRec
  <2> QED BY <2>1, <2>2
<1>4. ASSUME NEW g \in Handler, HandlerLoad(g) PROVE Goal
  <2>1. CASE g # h
    BY <1>4, <2>1 DEF HandlerLoad, TypeOK
  <2>2. CASE g = h /\ id[handler[h].peer] = Nil
    BY <1>4, <2>2 DEF HandlerLoad, TypeOK, NoHandler
  <2>3. CASE g = h /\ id[handler[h].peer] # Nil
    BY <1>4, <2>3 DEF HandlerLoad, TypeOK, HandlerRec, conns
  <2> QED BY <2>1, <2>2, <2>3
<1> HIDE DEF Goal
<1>5. CASE TUNWrite \/ (\E pkt \in Addr \cup {Malformed} : TUNRead(pkt)) \/ UNCHANGED vars
  BY <1>1, <1>2, <1>3, <1>4, <1>5
     DEF TUNWrite, TUNRead, vars, links
<1>6. CASE Router
  BY <1>1, <1>2, <1>3, <1>4, <1>6
     DEF Router, RouterRecv, RouterLoad, NoRoute, RouteByID, MakeChan, StoreAddr, StoreID,
         RouterSend, links
<1>7. ASSUME NEW c1 \in Chan, Conn(c1) \/ Collect(c1) PROVE Goal
  BY <1>1, <1>2, <1>3, <1>4, <1>7
     DEF Conn, Deletes, DialFail, DialOK, ConnTake, ConnWrite, ConnWriteFail, AddrDelete,
         IDDelete, Collect, links
<1>8. ASSUME NEW h1 \in Handler, Handle(h1) \/ \E r \in Peer \cup Stranger : HandlerEnter(h1, r)
      PROVE  Goal
  BY <1>1, <1>2, <1>3, <1>4, <1>8
     DEF Handle, HandlerTake, HandlerWrite, links
<1>9. ASSUME NEW l1 \in Link,
             ReadMsg(l1) \/ DevWriterSend(l1) \/ ReadError(l1) \/ StreamBreak(l1)
      PROVE  Goal
  BY <1>1, <1>2, <1>3, <1>4, <1>9
     DEF ReadMsg, DevWriterSend, ReadError, StreamBreak, links
<1> QED BY <1>5, <1>6, <1>7, <1>8, <1>9 DEF Next

\* A handler keeps the channel of the peer it serves, and only a loop writes.
LEMMA ServedStep ==
    ASSUME IInv, RInv, Served, [Next]_vars
    PROVE  Served'
<1>1. TypeOK /\ ControlOK /\ IdLive /\ RouterOK
  BY DEF IInv, RInv
<1>2. ASSUME NEW c \in Chan, conn'[c].pc = "unused" PROVE queue'[c] = <<>>
  <2>1. CASE conn[c].pc = "unused"
    <3>1. queue[c] = <<>> /\ ~(router.pc = "send" /\ router.conn = c)
      BY <1>1, <2>1 DEF Served, RouterOK
    <3> QED BY <1>1, <3>1, QueueSources
  <2>2. CASE conn[c].pc # "unused"
    BY <1>1, <1>2, <2>2, ConnSteps
  <2> QED BY <2>1, <2>2
<1>3. ASSUME NEW c \in Chan, writing'[c] # Nil PROVE conn'[c].pc = "open"
  <2>0. c \in Link /\ c \notin Handler
    BY ConstantsAssumption DEF Link
  <2>1. CASE writing'[c] = writing[c]
    <3>1. conn[c].pc = "open"
      BY <1>3, <2>1 DEF Served
    <3> QED BY <1>1, <1>3, <3>1, ConnSteps
  <2>2. CASE conn[c].pc = "open" /\ conn' = conn
    BY <2>2
  <2> QED BY <1>1, <1>3, <2>0, <2>1, <2>2, WritingSources
<1>4. ASSUME NEW h \in Handler, writing'[h] # Nil PROVE handler'[h].pc = "serving"
  <2>0. h \in Link /\ h \notin Chan
    BY ConstantsAssumption DEF Link
  <2>1. CASE writing'[h] = writing[h]
    <3>1. handler[h].pc = "serving"
      BY <1>4, <2>1 DEF Served
    <3> QED BY <1>1, <3>1, HandlerSteps
  <2>2. CASE handler[h].pc = "serving" /\ handler' = handler
    BY <2>2
  <2> QED BY <1>1, <1>4, <2>0, <2>1, <2>2, WritingSources
<1>5. ASSUME NEW h \in Handler, handler'[h].pc = "serving"
      PROVE  /\ conn'[handler'[h].chan].pc # "unused"
             /\ conn'[handler'[h].chan].key = handler'[h].peer
  <2>1. CASE handler'[h] = handler[h]
    <3> DEFINE c == handler[h].chan
    <3>1. c \in Chan /\ conn[c].pc # "unused" /\ conn[c].key = handler[h].peer
      BY <1>1, <1>5, <2>1 DEF Served, ControlOK, TypeOK, HandlerRec
    <3> HIDE DEF c
    <3>2. conn'[c].pc # "unused" /\ conn'[c].key = conn[c].key
      BY <1>1, <3>1, ConnSteps DEF c
    <3> QED BY <2>1, <3>1, <3>2 DEF c
  <2>2. CASE /\ handler[h].pc = "known" /\ conn' = conn
             /\ handler'[h].peer = handler[h].peer
             /\ handler'[h].chan = id[handler[h].peer] /\ id[handler[h].peer] # Nil
    <3>1. handler[h].peer \in Peer
      BY <1>1, <2>2 DEF ControlOK
    <3>2. Live(id[handler[h].peer]) /\ conn[id[handler[h].peer]].key = handler[h].peer
      BY <1>1, <2>2, <3>1 DEF IdLive
    <3> QED BY <2>2, <3>2 DEF Live
  <2> QED BY <1>1, <1>5, <2>1, <2>2, HandlerSteps
<1> QED BY <1>2, <1>3, <1>4, <1>5 DEF Served

\* A step that fills a channel or takes from one keeps packets with their peers.
LEMMA AddressedStep ==
    ASSUME IInv, IInv', RInv, Served, Served', Addressed, [Next]_vars
    PROVE  Addressed'
<1>1. /\ TypeOK /\ ControlOK /\ PayloadExclusive /\ ChanOK /\ RouterOK
      /\ TypeOK' /\ ControlOK' /\ PayloadExclusive'
  BY DEF IInv, RInv
<1>2. ASSUME NEW c \in Chan, NEW i \in DOMAIN queue'[c]
      PROVE  body'[queue'[c][i]] = PeerAddr[conn'[c].key]
  <2>1. queue'[c][i] \in Payload \ free'
    BY <1>1, <1>2, SentInUsePrime
  <2>2. conn'[c].pc # "unused"
    <3>1. queue'[c] # <<>>
      BY <1>2
    <3> QED BY <3>1 DEF Served
  <2>3. \/ \E j \in DOMAIN queue[c] : queue'[c][i] = queue[c][j]
        \/ router.pc = "send" /\ router.conn = c /\ queue'[c][i] = router.payload
    <3>0. queue[c] \in Seq(Payload)
      BY <1>1 DEF TypeOK
    <3>1. CASE queue'[c] = queue[c]
      BY <1>2, <3>1
    <3>2. CASE queue[c] # <<>> /\ queue'[c] = Tail(queue[c])
      BY <1>2, <3>0, <3>2, TailAt
    <3>3. CASE /\ router.pc = "send" /\ router.conn = c /\ router.payload \in Payload
               /\ queue'[c] = Append(queue[c], router.payload)
      BY <1>2, <3>0, <3>3, AppendAt
    <3>4. CASE queue'[c] = <<>>
      BY <1>2, <3>4
    <3> QED BY <1>1, <3>1, <3>2, <3>3, <3>4, QueueSources
  <2>4. ASSUME NEW j \in DOMAIN queue[c], queue'[c][i] = queue[c][j]
        PROVE  body'[queue'[c][i]] = PeerAddr[conn'[c].key]
    <3>1. queue[c][j] \in Payload \ free
      BY <1>1, <2>4, SentInUse
    <3>2. body'[queue'[c][i]] = body[queue[c][j]]
      BY <1>1, <2>1, <2>4, <3>1, BodyStable
    <3>3. conn[c].pc # "unused"
      <4>1. queue[c] # <<>>
        BY <2>4
      <4> QED BY <4>1 DEF Served
    <3>4. conn'[c].key = conn[c].key
      <4>1. queue'[c] # <<>>
        BY <1>2
      <4> QED BY <1>1, <3>3, <4>1, ConnSteps
    <3> QED BY <2>4, <3>2, <3>4 DEF Addressed
  <2>5. CASE router.pc = "send" /\ router.conn = c /\ queue'[c][i] = router.payload
    <3>1. conn[c].pc # "unused" /\ body[router.payload] = PeerAddr[conn[c].key]
      BY <1>1, <2>5 DEF RouterOK, ChanOK, Dst
    <3>2. conn'[c].key = conn[c].key
      <4>1. queue'[c] # <<>>
        BY <1>2
      <4> QED BY <1>1, <3>1, <4>1, ConnSteps
    <3>3. router.payload \in Payload \ free
      BY <1>1, <2>5, InUse DEF ControlOK
    <3>4. body'[router.payload] = body[router.payload]
      BY <1>1, <2>1, <2>5, <3>3, BodyStable
    <3> QED BY <2>5, <3>1, <3>2, <3>4
  <2> QED BY <2>3, <2>4, <2>5
<1>3. ASSUME NEW l \in Link, writing'[l] # Nil
      PROVE  RemotePeer(l)' \in Peer /\ body'[writing'[l]] = PeerAddr[RemotePeer(l)']
  <2>1. writing'[l] \in Payload \ free'
    BY <1>1, <1>3, SentInUsePrime
  <2>2. CASE writing'[l] = writing[l]
    <3>1. writing[l] \in Payload \ free
      BY <1>1, <1>3, <2>2, SentInUse
    <3>2. body'[writing'[l]] = body[writing[l]]
      BY <1>1, <2>1, <2>2, <3>1, BodyStable
    <3>3. RemotePeer(l)' = RemotePeer(l)
      <4>1. CASE l \in Chan
        <5>1. conn[l].pc = "open"
          BY <1>3, <2>2, <4>1 DEF Served
        <5> QED BY <1>1, <1>3, <2>2, <4>1, <5>1, ConnSteps DEF RemotePeer
      <4>2. CASE l \notin Chan
        <5>1. l \in Handler /\ handler[l].pc = "serving"
          BY <1>3, <2>2, <4>2 DEF Served, Link
        <5> QED BY <1>1, <4>2, <5>1, HandlerSteps DEF RemotePeer
      <4> QED BY <4>1, <4>2
    <3> QED BY <1>3, <2>2, <3>2, <3>3 DEF Addressed
  <2>3. ASSUME NEW c \in Chan, queue[c] # <<>>, writing'[l] = Head(queue[c]),
               RemotePeer(l)' = conn[c].key
        PROVE  RemotePeer(l)' \in Peer /\ body'[writing'[l]] = PeerAddr[RemotePeer(l)']
    <3>1. 1 \in DOMAIN queue[c] /\ Head(queue[c]) = queue[c][1]
      BY <1>1, <2>3 DEF TypeOK
    <3>2. queue[c][1] \in Payload \ free
      BY <1>1, <3>1, SentInUse
    <3>3. body'[writing'[l]] = body[queue[c][1]]
      BY <1>1, <2>1, <2>3, <3>1, <3>2, BodyStable
    <3>4. conn[c].key \in Peer
      BY <1>1, <2>3 DEF Served, ChanOK
    <3> QED BY <2>3, <3>1, <3>3, <3>4 DEF Addressed
  <2>4. CASE /\ l \in Chan /\ conn[l].pc = "open" /\ conn' = conn
             /\ queue[l] # <<>> /\ writing'[l] = Head(queue[l])
    BY <2>3, <2>4 DEF RemotePeer
  <2>5. CASE /\ l \in Handler /\ handler[l].pc = "serving" /\ handler' = handler
             /\ queue[handler[l].chan] # <<>>
             /\ writing'[l] = Head(queue[handler[l].chan])
    <3>1. handler[l].chan \in Chan /\ conn[handler[l].chan].key = handler[l].peer
      BY <1>1, <2>5 DEF Served, ControlOK, TypeOK, HandlerRec
    <3>2. RemotePeer(l)' = handler[l].peer
      BY <2>5, ConstantsAssumption DEF RemotePeer
    <3> QED BY <2>3, <2>5, <3>1, <3>2
  <2> QED BY <1>1, <1>3, <2>2, <2>4, <2>5, WritingSources
<1> QED BY <1>2, <1>3 DEF Addressed

\* No packet is ever in the channel of, or being written to a stream to, a peer
\* other than the one that owns its destination address.
THEOREM PacketsAddressed == Spec => []Addressed
<1>1. Init => Served /\ Addressed
  BY DEF Init, Served, Addressed, NoHandler, Link
<1>2. IInv /\ IInv' /\ RInv /\ Served /\ Addressed /\ [Next]_vars => Served' /\ Addressed'
  BY ServedStep, AddressedStep
<1> QED BY <1>1, <1>2, RouteInductive, PTL DEF Spec
=============================================================================
