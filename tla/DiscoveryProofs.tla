--------------------------- MODULE DiscoveryProofs ---------------------------
(***************************************************************************)
(* Proofs about Discovery and Bootstrap, for every set of peers and of     *)
(* bootstrap nodes, every capacity of the channel and every number of      *)
(* results.                                                                *)
(***************************************************************************)
EXTENDS Discovery, FiniteSetTheorems, TLAPS

DInv == TypeOK /\ Counted /\ ClosedAtEnd

-----------------------------------------------------------------------------
(* Counting the dials of a call *)

\* The dials in one state are some of the configured entries.
LEMMA WithFinite ==
    ASSUME NEW c, NEW st
    PROVE  /\ IsFiniteSet(With(c, st)) /\ Cardinality(With(c, st)) \in Nat
           /\ Cardinality(With(c, st)) <= Room /\ Room \in Nat
           /\ Cardinality(With(c, st)) = Room => With(c, st) = Bootstrap
<1>1. With(c, st) \in SUBSET Bootstrap /\ IsFiniteSet(Bootstrap)
  BY BootstrapAssumption DEF With
<1> QED BY <1>1, FS_Subset, FS_CardinalityType DEF Room

\* The same for the state after a step.
LEMMA WithFinitePrime ==
    ASSUME NEW c, NEW st
    PROVE  /\ IsFiniteSet(With(c, st)') /\ Cardinality(With(c, st)') \in Nat
           /\ Cardinality(With(c, st)') <= Room /\ Room \in Nat
           /\ Cardinality(With(c, st)') = Room => With(c, st)' = Bootstrap
<1>1. With(c, st)' \in SUBSET Bootstrap /\ IsFiniteSet(Bootstrap)
  BY BootstrapAssumption DEF With
<1> QED BY <1>1, FS_Subset, FS_CardinalityType DEF Room

\* While a dial goes on, some entry has neither succeeded nor failed.
LEMMA DialingLeft ==
    ASSUME NEW c, NEW st \in {"ok", "failed"}, With(c, "dialing") # {}
    PROVE  Cardinality(With(c, st)) < Room
<1>1. With(c, st) # Bootstrap
  BY DEF With
<1> QED BY <1>1, WithFinite

\* A dial that comes to its end is counted once, under its outcome.
LEMMA DialCounted ==
    ASSUME BootTypeOK, NEW c \in Caller, NEW b \in Bootstrap, NEW st \in {"ok", "failed"},
           dial[c][b] = "dialing", dial' = [dial EXCEPT ![c][b] = st]
    PROVE  /\ Cardinality(With(c, st)') = Cardinality(With(c, st)) + 1
           /\ \A u \in {"ok", "failed"} : u # st => With(c, u)' = With(c, u)
           /\ \A d \in Caller : d # c => \A u : With(d, u)' = With(d, u)
<1>1. /\ dial \in [Caller -> [Bootstrap -> {"none", "dialing", "ok", "failed"}]]
      /\ \A d \in Caller : d # c => dial'[d] = dial[d]
      /\ dial'[c] = [dial[c] EXCEPT ![b] = st]
  BY DEF BootTypeOK
<1>2. dial'[c][b] = st /\ \A e \in Bootstrap \ {b} : dial'[c][e] = dial[c][e]
  BY <1>1
<1>3. With(c, st)' = With(c, st) \cup {b} /\ b \notin With(c, st)
  BY <1>2 DEF With
<1>4. Cardinality(With(c, st)') = Cardinality(With(c, st)) + 1
  BY <1>3, WithFinite, FS_AddElement
<1>5. \A u \in {"ok", "failed"} : u # st => With(c, u)' = With(c, u)
  BY <1>2 DEF With
<1>6. \A d \in Caller : d # c => \A u : With(d, u)' = With(d, u)
  BY <1>1 DEF With
<1> QED BY <1>4, <1>5, <1>6

-----------------------------------------------------------------------------
(* The steps of connectBootstraps *)

CallType == [pc : {"idle", "select", "ok", "failed"}, fcnt : 0..Room]

\* What a step of a call does to the channels and the result of that call, and
\* that it leaves the calls of others alone.
LEMMA CountedAt ==
    ASSUME BootTypeOK, Counted, NEW c \in Caller,
           \A d \in Caller : d # c => /\ call'[d] = call[d] /\ sc'[d] = sc[d] /\ fc'[d] = fc[d]
                                      /\ \A u : With(d, u)' = With(d, u),
           /\ sc'[c] <= Cardinality(With(c, "ok")')
           /\ fc'[c] + call'[c].fcnt <= Cardinality(With(c, "failed")')
           /\ call'[c].pc = "failed" => call'[c].fcnt >= Room
           /\ call'[c].pc = "ok" => With(c, "ok")' # {}
    PROVE  Counted'
<1> SUFFICES ASSUME NEW d \in Caller
             PROVE  /\ sc'[d] <= Cardinality(With(d, "ok")')
                    /\ fc'[d] + call'[d].fcnt <= Cardinality(With(d, "failed")')
                    /\ call'[d].pc = "failed" => call'[d].fcnt >= Room
                    /\ call'[d].pc = "ok" => With(d, "ok")' # {}
  BY DEF Counted
<1>1. CASE d = c
  BY <1>1
<1>2. CASE d # c
  BY <1>2 DEF Counted
<1> QED BY <1>1, <1>2

\* A new call starts from empty channels.
LEMMA CallStep ==
    ASSUME BootTypeOK, Counted, NEW c \in Caller, Call(c), UNCHANGED <<ctxDone, parses>>,
           loop' \in {"call", "calling", "wait", "advertised", "cancelled"}
    PROVE  BootTypeOK' /\ Counted'
<1>0. Room \in Nat
  BY WithFinite
<1>1. [pc |-> "select", fcnt |-> 0] \in CallType
  BY <1>0 DEF CallType
<1>2. BootTypeOK'
  BY <1>0, <1>1 DEF BootTypeOK, Call, CallType
<1>3. /\ call'[c].pc = "select" /\ call'[c].fcnt = 0 /\ sc'[c] = 0 /\ fc'[c] = 0
      /\ \A d \in Caller : d # c => /\ call'[d] = call[d] /\ sc'[d] = sc[d] /\ fc'[d] = fc[d]
                                    /\ dial'[d] = dial[d]
  BY DEF BootTypeOK, Call
<1>4. \A d \in Caller : d # c => \A u : With(d, u)' = With(d, u)
  BY <1>3 DEF With
<1>5. Cardinality(With(c, "ok")') \in Nat /\ Cardinality(With(c, "failed")') \in Nat
  BY WithFinitePrime
<1>6. Counted'
  BY <1>3, <1>4, <1>5, CountedAt
<1> QED BY <1>2, <1>6

\* A result that is taken leaves the call's channels behind.
LEMMA ReturnStep ==
    ASSUME BootTypeOK, Counted, NEW c \in Caller, Return(c), UNCHANGED <<ctxDone, parses>>,
           loop' \in {"call", "calling", "wait", "advertised", "cancelled"}
    PROVE  BootTypeOK' /\ Counted'
<1>0. Room \in Nat
  BY WithFinite
<1>1. NoCall \in CallType
  BY <1>0 DEF CallType, NoCall
<1>2. BootTypeOK'
  BY <1>1 DEF BootTypeOK, Return, CallType
<1>3. /\ call'[c].pc = "idle" /\ call'[c].fcnt = 0 /\ sc'[c] = sc[c] /\ fc'[c] = fc[c]
      /\ \A d \in Caller : d # c => /\ call'[d] = call[d] /\ sc'[d] = sc[d] /\ fc'[d] = fc[d]
  BY DEF BootTypeOK, Return, NoCall
<1>4. \A d \in Caller : \A u : With(d, u)' = With(d, u)
  BY DEF With, Return
<1>5. call[c].fcnt \in Nat /\ fc[c] \in Nat
  BY <1>0 DEF BootTypeOK
<1>6. sc[c] <= Cardinality(With(c, "ok")) /\ fc[c] + call[c].fcnt <= Cardinality(With(c, "failed"))
  BY DEF Counted
<1>7. sc'[c] <= Cardinality(With(c, "ok")')
      /\ fc'[c] + call'[c].fcnt <= Cardinality(With(c, "failed")')
  BY <1>3, <1>4, <1>5, <1>6, WithFinite
<1>8. Counted'
  BY <1>3, <1>4, <1>7, CountedAt
<1> QED BY <1>2, <1>8

\* A dial that ends puts one message into the channel of its outcome.
LEMMA DialStep ==
    ASSUME BootTypeOK, Counted, NEW c \in Caller, NEW b \in Bootstrap,
           DialOK(c, b) \/ DialFail(c, b), ctxDone' = ctxDone
    PROVE  BootTypeOK' /\ Counted'
<1>0. Room \in Nat /\ sc[c] \in Nat /\ fc[c] \in Nat /\ call[c].fcnt \in Nat
  <2>1. Room \in Nat
    BY WithFinite
  <2> QED BY <2>1 DEF BootTypeOK
<1>1. \A u : Cardinality(With(c, u)) \in Nat
  BY WithFinite
<1>2. sc[c] <= Cardinality(With(c, "ok")) /\ fc[c] + call[c].fcnt <= Cardinality(With(c, "failed"))
  BY DEF Counted
<1>3. CASE DialOK(c, b)
  <2>1. dial[c][b] = "dialing" /\ dial' = [dial EXCEPT ![c][b] = "ok"]
    BY <1>3 DEF DialOK
  <2>2. /\ Cardinality(With(c, "ok")') = Cardinality(With(c, "ok")) + 1
        /\ With(c, "failed")' = With(c, "failed")
        /\ \A d \in Caller : d # c => \A u : With(d, u)' = With(d, u)
    BY <2>1, DialCounted
  <2>3. BootTypeOK'
    BY <1>0, <1>3 DEF BootTypeOK, DialOK
  <2>4. /\ sc'[c] = sc[c] + 1 /\ fc' = fc /\ call' = call
        /\ \A d \in Caller : d # c => sc'[d] = sc[d]
    BY <1>3 DEF BootTypeOK, DialOK
  <2>5. With(c, "ok")' # {}
    <3>1. Cardinality({}) = 0
      BY FS_EmptySet
    <3> QED BY <1>1, <2>2, <3>1
  <2>6. Counted'
    <3>1. sc'[c] <= Cardinality(With(c, "ok")')
      BY <1>0, <1>1, <1>2, <2>2, <2>4
    <3>2. fc'[c] + call'[c].fcnt <= Cardinality(With(c, "failed")')
      BY <1>2, <2>2, <2>4
    <3>3. call'[c].pc = "failed" => call'[c].fcnt >= Room
      BY <2>4 DEF Counted
    <3> QED BY <2>2, <2>4, <2>5, <3>1, <3>2, <3>3, CountedAt
  <2> QED BY <2>3, <2>6
<1>4. CASE DialFail(c, b)
  <2>1. dial[c][b] = "dialing" /\ dial' = [dial EXCEPT ![c][b] = "failed"]
    BY <1>4 DEF DialFail
  <2>2. /\ Cardinality(With(c, "failed")') = Cardinality(With(c, "failed")) + 1
        /\ With(c, "ok")' = With(c, "ok")
        /\ \A d \in Caller : d # c => \A u : With(d, u)' = With(d, u)
    BY <2>1, DialCounted
  <2>3. BootTypeOK'
    BY <1>0, <1>4 DEF BootTypeOK, DialFail
  <2>4. /\ fc'[c] = fc[c] + 1 /\ sc' = sc /\ call' = call
        /\ \A d \in Caller : d # c => fc'[d] = fc[d]
    BY <1>4 DEF BootTypeOK, DialFail
  <2>5. Counted'
    <3>1. sc'[c] <= Cardinality(With(c, "ok")')
      BY <1>2, <2>2, <2>4
    <3>2. fc'[c] + call'[c].fcnt <= Cardinality(With(c, "failed")')
      BY <1>0, <1>1, <1>2, <2>2, <2>4
    <3>3. /\ call'[c].pc = "failed" => call'[c].fcnt >= Room
          /\ call'[c].pc = "ok" => With(c, "ok")' # {}
      BY <2>2, <2>4 DEF Counted
    <3> QED BY <2>2, <2>4, <3>1, <3>2, <3>3, CountedAt
  <2> QED BY <2>3, <2>5
<1> QED BY <1>3, <1>4

\* The select of connectBootstraps takes a message from one of its channels.
LEMMA SelectStep ==
    ASSUME BootTypeOK, Counted, NEW c \in Caller, RecvFail(c) \/ RecvOK(c), ctxDone' = ctxDone
    PROVE  BootTypeOK' /\ Counted'
<1>0. /\ Room \in Nat /\ sc[c] \in 0..Room /\ fc[c] \in 0..Room /\ call[c].fcnt \in 0..Room
      /\ call[c] \in CallType
  BY WithFinite DEF BootTypeOK, CallType
<1>1. \A u : Cardinality(With(c, u)) \in Nat /\ Cardinality(With(c, u)) <= Room
  BY WithFinite
<1>2. sc[c] <= Cardinality(With(c, "ok")) /\ fc[c] + call[c].fcnt <= Cardinality(With(c, "failed"))
  BY DEF Counted
<1>3. \A d \in Caller : \A u : With(d, u)' = With(d, u)
  BY DEF With, RecvFail, RecvOK
<1>4. CASE RecvFail(c)
  <2>1. /\ fc[c] > 0 /\ fc'[c] = fc[c] - 1 /\ sc' = sc
        /\ call'[c].fcnt = call[c].fcnt + 1
        /\ call'[c].pc = IF call[c].fcnt + 1 >= Room THEN "failed" ELSE "select"
        /\ \A d \in Caller : d # c => call'[d] = call[d] /\ fc'[d] = fc[d]
    BY <1>4 DEF RecvFail, BootTypeOK, Room
  <2>2. call[c].fcnt + 1 \in 0..Room
    BY <1>0, <1>1, <1>2, <2>1
  <2>3. [pc |-> IF call[c].fcnt + 1 >= Room THEN "failed" ELSE "select",
         fcnt |-> call[c].fcnt + 1] \in CallType
    BY <2>2 DEF CallType
  <2>4. BootTypeOK'
    <3>1. call' \in [Caller -> CallType]
      BY <1>4, <2>3 DEF BootTypeOK, CallType, RecvFail, Room
    <3>2. fc' \in [Caller -> 0..Room]
      BY <1>0, <1>4 DEF BootTypeOK, RecvFail
    <3> QED BY <1>4, <3>1, <3>2 DEF BootTypeOK, RecvFail, CallType
  <2>5. /\ sc'[c] <= Cardinality(With(c, "ok")')
        /\ fc'[c] + call'[c].fcnt <= Cardinality(With(c, "failed")')
        /\ call'[c].pc = "failed" => call'[c].fcnt >= Room
        /\ call'[c].pc # "ok"
    BY <1>0, <1>1, <1>2, <1>3, <2>1
  <2>6. Counted'
    BY <1>3, <2>1, <2>5, CountedAt
  <2> QED BY <2>4, <2>6
<1>5. CASE RecvOK(c)
  <2>1. /\ sc[c] > 0 /\ sc'[c] = sc[c] - 1 /\ fc' = fc
        /\ call'[c].fcnt = call[c].fcnt /\ call'[c].pc = "ok"
        /\ \A d \in Caller : d # c => call'[d] = call[d] /\ sc'[d] = sc[d]
    BY <1>5 DEF RecvOK, BootTypeOK
  <2>2. [call[c] EXCEPT !.pc = "ok"] \in CallType
    BY <1>0 DEF CallType
  <2>3. BootTypeOK'
    <3>1. call' \in [Caller -> CallType]
      BY <1>5, <2>2 DEF BootTypeOK, CallType, RecvOK
    <3>2. sc' \in [Caller -> 0..Room]
      BY <1>0, <1>5 DEF BootTypeOK, RecvOK
    <3> QED BY <1>5, <3>1, <3>2 DEF BootTypeOK, RecvOK, CallType
  <2>4. With(c, "ok")' # {}
    <3>1. Cardinality({}) = 0
      BY FS_EmptySet
    <3>2. Cardinality(With(c, "ok")) # 0
      BY <1>0, <1>1, <1>2, <2>1
    <3>3. With(c, "ok") # {}
      BY <3>1, <3>2
    <3> QED BY <1>3, <3>3
  <2>5. /\ sc'[c] <= Cardinality(With(c, "ok")')
        /\ fc'[c] + call'[c].fcnt <= Cardinality(With(c, "failed")')
    BY <1>0, <1>1, <1>2, <1>3, <2>1
  <2>6. Counted'
    BY <1>3, <2>1, <2>4, <2>5, CountedAt
  <2> QED BY <2>3, <2>6
<1> QED BY <1>4, <1>5

\* A step that leaves Bootstrap's state alone.
LEMMA BootSame ==
    ASSUME BootTypeOK, Counted, UNCHANGED <<parses, call, dial, sc, fc>>, ctxDone' \in BOOLEAN,
           loop' \in {"call", "calling", "wait", "advertised", "cancelled"}
    PROVE  BootTypeOK' /\ Counted'
<1>1. \A c : \A u : With(c, u)' = With(c, u)
  BY DEF With
<1>2. Counted'
  BY <1>1 DEF Counted
<1> QED BY <1>2 DEF BootTypeOK

\* Every step of the system keeps the counts.
LEMMA BootStep ==
    ASSUME BootTypeOK, Counted, [Next]_vars
    PROVE  BootTypeOK' /\ Counted'
<1>0. /\ loop \in {"call", "calling", "wait", "advertised", "cancelled"} /\ ctxDone \in BOOLEAN
      /\ Loop \in Caller /\ Peer \subseteq Caller
  BY DEF BootTypeOK, Caller
<1>1. CASE Cancel
  BY <1>0, <1>1, BootSame DEF Cancel, bootvars
<1>2. CASE Boot(LoopCall)
  BY <1>0, <1>2, CallStep DEF Boot, LoopCall
<1>3. CASE Boot(LoopResult)
  BY <1>0, <1>3, ReturnStep DEF Boot, LoopResult
<1>4. CASE Boot(LoopWait)
  BY <1>0, <1>4, BootSame DEF Boot, LoopWait
<1>5. ASSUME NEW c \in Caller, Boot(RecvFail(c)) \/ Boot(RecvOK(c)) PROVE BootTypeOK' /\ Counted'
  BY <1>5, SelectStep DEF Boot
<1>6. ASSUME NEW c \in Caller, NEW b \in Bootstrap, Boot(DialOK(c, b)) \/ Boot(DialFail(c, b))
      PROVE  BootTypeOK' /\ Counted'
  BY <1>6, DialStep DEF Boot
<1>7. ASSUME NEW p \in Peer, FindFail(p) PROVE BootTypeOK' /\ Counted'
  BY <1>0, <1>7, CallStep DEF FindFail
<1>8. ASSUME NEW p \in Peer, Joined(p) PROVE BootTypeOK' /\ Counted'
  BY <1>0, <1>8, ReturnStep DEF Joined
<1>9. CASE UNCHANGED <<ctxDone, bootvars>>
  BY <1>0, <1>9, BootSame DEF bootvars
<1>10. CASE MdnsStart \/ UNCHANGED vars
  BY <1>9, <1>10 DEF MdnsStart, vars
<1>11. ASSUME NEW p \in Peer, HandlePeerFound(p) \/ Expire(p) PROVE BootTypeOK' /\ Counted'
  BY <1>9, <1>11 DEF HandlePeerFound, Expire
<1>12. ASSUME NEW p \in Peer, Search(p) PROVE BootTypeOK' /\ Counted'
  BY <1>7, <1>8, <1>9, <1>12
     DEF Search, SearchNode, Close, CacheLook, CacheSend, FindPeers, Result, ResultSend,
         QueryEnd, RangeRecv, Dial, ConnEnd
<1> QED BY <1>1, <1>2, <1>3, <1>4, <1>5, <1>6, <1>10, <1>11, <1>12 DEF Next

-----------------------------------------------------------------------------
(* The goroutines of a search *)

SearchType ==
    /\ addConn \in [Peer -> {"idle", "range", "dial", "stream", "none"}]
    /\ cache \in [Peer -> {"look", "send", "done"}]
    /\ dht \in [Peer -> [pc : {"find", "join", "recv", "send", "done"}, seen : 0..MaxResults]]
    /\ ch \in [Peer -> 0..channelBuffLength]
    /\ closed \in [Peer -> BOOLEAN]
    /\ known \in SUBSET Peer
    /\ mdns \in {"starting", "running"}

\* A step of a search changes the search of its own peer only, leaves the types,
\* and neither sends to a closed channel nor closes one that is sent to.
LEMMA SearchStep ==
    ASSUME SearchType, ClosedAtEnd, NEW p \in Peer, Search(p)
    PROVE  SearchType' /\ ClosedAtEnd'
<1> USE DiscoveryAssumption DEF SearchType, ClosedAtEnd, Send, To
<1>1. CASE SearchNode(p)
  BY <1>1 DEF SearchNode
<1>2. CASE Close(p)
  BY <1>2 DEF Close
<1>3. CASE CacheLook(p)
  BY <1>3 DEF CacheLook
<1>4. CASE CacheSend(p)
  BY <1>4 DEF CacheSend
<1>5. CASE FindFail(p)
  BY <1>5 DEF FindFail
<1>6. CASE Joined(p)
  BY <1>6 DEF Joined
<1>7. CASE FindPeers(p)
  BY <1>7 DEF FindPeers
<1>8. CASE Result(p)
  BY <1>8 DEF Result
<1>9. CASE ResultSend(p)
  BY <1>9 DEF ResultSend
<1>10. CASE QueryEnd(p)
  BY <1>10 DEF QueryEnd
<1>11. CASE RangeRecv(p)
  <2>1. CASE ch[p] > 0 /\ ch' = [ch EXCEPT ![p] = @ - 1] /\ addConn' = [addConn EXCEPT ![p] = "dial"]
    <3>1. ch' \in [Peer -> 0..channelBuffLength]
      BY <2>1
    <3>2. \A q \in Peer \ {p} : addConn'[q] = addConn[q] /\ ch'[q] = ch[q]
      BY <2>1
    <3>3. addConn'[p] = "dial"
      BY <2>1
    <3> QED BY <1>11, <2>1, <3>1, <3>2, <3>3 DEF RangeRecv
  <2>2. CASE closed[p] /\ ch[p] = 0 /\ addConn' = [addConn EXCEPT ![p] = "none"] /\ UNCHANGED ch
    BY <1>11, <2>2 DEF RangeRecv
  <2> QED BY <1>11, <2>1, <2>2 DEF RangeRecv
<1>12. CASE Dial(p)
  BY <1>12 DEF Dial
<1>13. CASE ConnEnd(p)
  BY <1>13 DEF ConnEnd
<1> QED BY <1>1, <1>2, <1>3, <1>4, <1>5, <1>6, <1>7, <1>8, <1>9, <1>10, <1>11, <1>12, <1>13
        DEF Search

\* The steps of others leave the searches alone.
LEMMA SearchSame ==
    ASSUME SearchType, ClosedAtEnd, UNCHANGED searchvars,
           known' \in SUBSET Peer, mdns' \in {"starting", "running"}
    PROVE  SearchType' /\ ClosedAtEnd'
  BY DEF SearchType, ClosedAtEnd, searchvars

-----------------------------------------------------------------------------
(* Theorems *)

\* The inductive invariant.
THEOREM Inductive == Spec => []DInv
<1>1. Init => DInv
  <2> SUFFICES ASSUME Init PROVE DInv
    OBVIOUS
  <2>0. Room \in Nat
    BY WithFinite
  <2>1. BootTypeOK
    <3>1. NoCall \in CallType
      BY <2>0 DEF NoCall, CallType
    <3>2. NoDials \in [Bootstrap -> {"none", "dialing", "ok", "failed"}]
      BY DEF NoDials
    <3>3. call \in [Caller -> CallType] /\ sc \in [Caller -> 0..Room] /\ fc \in [Caller -> 0..Room]
      BY <2>0, <3>1 DEF Init, BootInit
    <3>4. dial \in [Caller -> [Bootstrap -> {"none", "dialing", "ok", "failed"}]]
      BY <3>2 DEF Init, BootInit
    <3> QED BY <3>3, <3>4 DEF Init, BootInit, BootTypeOK, CallType
  <2>2. Counted
    <3> SUFFICES ASSUME NEW c \in Caller
                 PROVE  /\ sc[c] <= Cardinality(With(c, "ok"))
                        /\ fc[c] + call[c].fcnt <= Cardinality(With(c, "failed"))
                        /\ call[c].pc = "failed" => call[c].fcnt >= Room
                        /\ call[c].pc = "ok" => With(c, "ok") # {}
      BY DEF Counted
    <3>1. sc[c] = 0 /\ fc[c] = 0 /\ call[c].fcnt = 0 /\ call[c].pc = "idle"
      BY DEF Init, BootInit, NoCall
    <3>2. Cardinality(With(c, "ok")) \in Nat /\ Cardinality(With(c, "failed")) \in Nat
      BY WithFinite
    <3> QED BY <3>1, <3>2
  <2>3. SearchType /\ ClosedAtEnd
    BY DiscoveryAssumption DEF Init, SearchType, ClosedAtEnd
  <2> QED BY <2>1, <2>2, <2>3 DEF DInv, TypeOK, SearchType
<1>2. DInv /\ [Next]_vars => DInv'
  <2> SUFFICES ASSUME DInv, [Next]_vars PROVE DInv'
    OBVIOUS
  <2>1. BootTypeOK /\ Counted /\ SearchType /\ ClosedAtEnd
    BY DEF DInv, TypeOK, SearchType
  <2>2. BootTypeOK' /\ Counted'
    BY <2>1, BootStep
  <2>3. SearchType' /\ ClosedAtEnd'
    <3>0. known \in SUBSET Peer /\ mdns \in {"starting", "running"}
      BY <2>1 DEF SearchType
    <3>1. ASSUME NEW p \in Peer, Search(p) PROVE SearchType' /\ ClosedAtEnd'
      BY <2>1, <3>1, SearchStep
    <3>2. ASSUME UNCHANGED <<searchvars, known, mdns>> PROVE SearchType' /\ ClosedAtEnd'
      BY <2>1, <3>0, <3>2, SearchSame
    <3>3. ASSUME NEW p \in Peer, HandlePeerFound(p) \/ Expire(p)
          PROVE  SearchType' /\ ClosedAtEnd'
      BY <2>1, <3>0, <3>3, SearchSame DEF HandlePeerFound, Expire
    <3>4. CASE MdnsStart
      BY <2>1, <3>0, <3>4, SearchSame DEF MdnsStart
    <3> QED BY <3>1, <3>2, <3>3, <3>4 DEF Next, Boot, Cancel, vars
  <2> QED BY <2>2, <2>3 DEF DInv, TypeOK, SearchType
<1> QED BY <1>1, <1>2, PTL DEF Spec

\* Every reachable state is type correct: no channel of a search or of a call of
\* connectBootstraps ever holds more than its capacity.
THEOREM TypeCorrect == Spec => []TypeOK
<1>1. DInv => TypeOK
  BY DEF DInv
<1> QED BY <1>1, Inductive, PTL

\* connectBootstraps never reports a failure while an entry may still answer, nor
\* a success without one, and no dialling goroutine of any call, returned or not,
\* ever waits to send its message.
THEOREM Verdict == Spec => []BootstrapVerdict
<1>1. DInv => BootstrapVerdict
  <2> SUFFICES ASSUME DInv, NEW c \in Caller
               PROVE  /\ call[c].pc = "failed" => With(c, "failed") = Bootstrap
                      /\ call[c].pc = "ok" => With(c, "ok") # {}
                      /\ With(c, "dialing") # {} => sc[c] < Room /\ fc[c] < Room
    BY DEF BootstrapVerdict
  <2>1. /\ sc[c] <= Cardinality(With(c, "ok"))
        /\ fc[c] + call[c].fcnt <= Cardinality(With(c, "failed"))
        /\ call[c].pc = "failed" => call[c].fcnt >= Room
        /\ call[c].pc = "ok" => With(c, "ok") # {}
    BY DEF DInv, Counted
  <2>2. Room \in Nat
    BY WithFinite
  <2>3. sc[c] \in Nat /\ fc[c] \in Nat /\ call[c].fcnt \in Nat
    BY <2>2 DEF DInv, TypeOK, BootTypeOK
  <2>4. call[c].pc = "failed" => With(c, "failed") = Bootstrap
    BY <2>1, <2>2, <2>3, WithFinite
  <2>5. With(c, "dialing") # {} => sc[c] < Room /\ fc[c] < Room
    <3> SUFFICES ASSUME With(c, "dialing") # {} PROVE sc[c] < Room /\ fc[c] < Room
      OBVIOUS
    <3>1. Cardinality(With(c, "ok")) < Room /\ Cardinality(With(c, "failed")) < Room
      BY DialingLeft
    <3>2. Cardinality(With(c, "ok")) \in Nat /\ Cardinality(With(c, "failed")) \in Nat
      BY WithFinite
    <3> QED BY <2>1, <2>2, <2>3, <3>1, <3>2
  <2> QED BY <2>1, <2>4, <2>5
<1> QED BY <1>1, Inductive, PTL

\* The channel of a search is never closed under a goroutine that may send to it,
\* and addConn never gives a search up while a result may still come.
THEOREM SearchClosed == Spec => []ClosedAtEnd
<1>1. DInv => ClosedAtEnd
  BY DEF DInv
<1> QED BY <1>1, Inductive, PTL
==============================================================================
