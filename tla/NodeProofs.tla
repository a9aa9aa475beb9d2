----------------------------- MODULE NodeProofs -----------------------------
(***************************************************************************)
(* Proofs about Node, and about Config, Relay and Device in it, for every  *)
(* set of keys, fields, peers and names, every capacity of relayChan and   *)
(* every number of crashes.                                                *)
(***************************************************************************)
EXTENDS Node, TLAPS

-----------------------------------------------------------------------------
(* The configuration file *)

\* main is in Load until Load returns, and has a configuration when it goes on.
LoadInv ==
    /\ main = "load" => load \in {"down", "read", "defaults", "open", "write"}
    /\ main = "fatal" => load \in {"loaded", "failed"}
    /\ main \notin {"load", "fatal"} => load = "loaded"

\* The file is torn or has the text of a configuration whose peer ID, if any, is
\* its key's; Load works towards such a configuration, and has saved it at its end.
FileInv ==
    /\ \/ file \in {Torn("absent"), Torn("empty"), Torn("partial")}
       \/ \E c \in Configs : c.id \in {c.key, None} /\ file = Whole(ToJson(c))
    /\ load \in {"defaults", "open", "write", "loaded"} => cfg.id \in {cfg.key, None}
    /\ load \in {"open", "write", "loaded"} => cfg.key \in Key /\ Field \subseteq cfg.set
    /\ load = "loaded" => file = Whole(ToJson(cfg))

\* The configuration of the last start is in the file, or in memory while the file
\* is being overwritten, unless that was interrupted.
KeptInv ==
    last # NoConfig /\ ~torn =>
        /\ last.key \in Key /\ Field \subseteq last.set
        /\ load # "write" => file = Whole(ToJson(last))
        /\ load \in {"defaults", "open", "write", "loaded"} => cfg = last

CInv == ConfigTypeOK /\ LoadInv /\ FileInv /\ KeptInv

\* Load reads back what Save wrote.
LEMMA RoundTrip ==
    ASSUME NEW c \in Configs
    PROVE  Scan(ToJson(c)) = c
<1>1. CASE c.key = None
  <2>1. ToJson(c) = c
    BY <1>1 DEF ToJson, Configs
  <2> QED BY <1>1, <2>1 DEF Scan, Configs
<1>2. CASE c.key # None
  <2>1. c.key \in Key
    BY <1>2 DEF Configs
  <2>2. /\ ToJson(c) = [c EXCEPT !.key = MarshalText(c.key)]
        /\ MarshalText(c.key) # None /\ UnmarshalText(MarshalText(c.key)) = c.key
    BY <1>2, <2>1, ConfigAssumption DEF ToJson, MarshalText, UnmarshalText
  <2>3. ToJson(c) = [key |-> MarshalText(c.key), id |-> c.id, set |-> c.set]
    BY <2>2 DEF Configs
  <2>4. ToJson(c).key = MarshalText(c.key)
    BY <2>3
  <2>5. Scan(ToJson(c)) = [ToJson(c) EXCEPT !.key = c.key]
    BY <2>2, <2>4 DEF Scan
  <2>6. Scan(ToJson(c)) = [key |-> c.key, id |-> c.id, set |-> c.set]
    BY <2>3, <2>5
  <2> QED BY <2>6 DEF Configs
<1> QED BY <1>1, <1>2

\* The states of a file.
LEMMA FileStates ==
    ASSUME NEW t, NEW st
    PROVE  /\ Whole(t).st = "whole" /\ Whole(t).text = t
           /\ Torn(st).st = st
  BY DEF Whole, Torn

\* The configuration without a value is one of the configurations.
LEMMA NoConfigType == NoConfig \in Configs /\ NoConfig.key = None /\ NoConfig.id = None
  BY DEF NoConfig, Configs

\* The files a node may be started with for the first time.
LEMMA FileInit ==
    ASSUME Init
    PROVE  /\ file.st \in {"absent", "empty", "partial", "whole"}
           /\ used \in SUBSET Key
           /\ \/ file \in {Torn("absent"), Torn("empty"), Torn("partial")}
              \/ \E c \in Configs : c.id \in {c.key, None} /\ file = Whole(ToJson(c))
<1> DEFINE Goal == /\ file.st \in {"absent", "empty", "partial", "whole"}
                   /\ used \in SUBSET Key
                   /\ \/ file \in {Torn("absent"), Torn("empty"), Torn("partial")}
                      \/ \E c \in Configs : c.id \in {c.key, None} /\ file = Whole(ToJson(c))
<1> SUFFICES Goal
  OBVIOUS
<1>1. ASSUME NEW t, file = Whole(t) PROVE file.st = "whole" /\ file.text = t
  BY <1>1, FileStates
<1>2. used = IF file.text.key = None THEN {} ELSE {UnmarshalText(file.text.key)}
  BY DEF Init, ConfigInit
<1>3. CASE file = Torn("absent")
  <2>1. file.st = "absent" /\ file.text.key = None
    BY <1>3 DEF Torn, NoConfig
  <2> QED BY <1>2, <1>3, <2>1
<1>4. ASSUME NEW s \in SUBSET Option, file = Whole([key |-> None, id |-> None, set |-> s])
      PROVE  Goal
  <2> DEFINE c == [key |-> None, id |-> None, set |-> s]
  <2>1. c \in Configs /\ ToJson(c) = c /\ c.id = None /\ c.key = None
    BY DEF Configs, ToJson
  <2> QED BY <1>1, <1>2, <1>4, <2>1
<1>5. ASSUME NEW k \in Key, NEW i \in {None, k}, NEW s \in SUBSET (Field \cup Option),
             file = Whole([key |-> MarshalText(k), id |-> i, set |-> s])
      PROVE  Goal
  <2> DEFINE c == [key |-> k, id |-> i, set |-> s]
  <2>1. c \in Configs /\ c.key = k /\ c.id = i
    BY DEF Configs
  <2>2. k # None /\ MarshalText(k) # None /\ UnmarshalText(MarshalText(k)) = k
    BY ConfigAssumption DEF MarshalText, UnmarshalText
  <2>3. ToJson(c) = [key |-> MarshalText(k), id |-> i, set |-> s]
    BY <2>2 DEF ToJson
  <2>4. used = {k}
    BY <1>1, <1>2, <1>5, <2>2
  <2> QED BY <1>1, <1>5, <2>1, <2>3, <2>4
<1>6. \/ file = Torn("absent")
      \/ \E s \in SUBSET Option : file = Whole([key |-> None, id |-> None, set |-> s])
      \/ \E k \in Key, s \in SUBSET Option :
            \/ file = Whole([key |-> MarshalText(k), id |-> None, set |-> s])
            \/ file = Whole([key |-> MarshalText(k), id |-> k, set |-> Field \cup s])
  BY DEF Init, ConfigInit
<1> HIDE DEF Goal
<1>7. ASSUME NEW k \in Key, NEW s \in SUBSET Option,
             \/ file = Whole([key |-> MarshalText(k), id |-> None, set |-> s])
             \/ file = Whole([key |-> MarshalText(k), id |-> k, set |-> Field \cup s])
      PROVE  Goal
  BY <1>5, <1>7
<1> QED BY <1>3, <1>4, <1>6, <1>7

\* The steps of the system, for the configuration.
LEMMA ConfigSteps ==
    ASSUME [Next]_vars
    PROVE  \/ LoadStep
           \/ Killed
           \/ Fatal
           \/ /\ UNCHANGED config /\ crashes' \in {crashes, crashes + 1}
              /\ crashes' # crashes => crashes < MaxCrashes
              /\ (main \notin {"load", "fatal"} /\ main' # "load") \/ main' = main
<1> USE DEF Goes, Calls
<1>1. ASSUME NEW a, NEW b, Goes(a, b), a \notin {"load", "fatal"}, b # "load"
      PROVE  /\ UNCHANGED config /\ crashes' = crashes
             /\ main \notin {"load", "fatal"} /\ main' # "load"
  BY <1>1
<1>2. CASE Main
  <2>1. CASE Relays \/ New \/ NewDHT \/ CreateTUNReturns \/ GetName \/ AddRoute \/ RoutesDone
    BY <1>1, <2>1 DEF Relays, New, NewDHT, CreateTUNReturns, GetName, AddRoute, RoutesDone
  <2>2. CASE EnableDHT \/ EnableMdns \/ AutoRelay \/ SetStreamHandler \/ Routines
    BY <1>1, <2>2 DEF EnableDHT, EnableMdns, AutoRelay, SetStreamHandler, Routines
  <2>3. CASE CreateTUN \/ BringUp
    BY <1>1, <2>3 DEF CreateTUN, BringUp
  <2> QED BY <1>2, <2>1, <2>2, <2>3 DEF Main
<1>3. CASE StepFails
  BY <1>3 DEF StepFails
<1>4. CASE Renamed
  BY <1>4 DEF Renamed
<1>5. CASE \/ FinderStep \/ RelayStep(FinderTick) \/ RelayStep(SourceCall)
           \/ RelayStep(SourceRecv) \/ RelayStep(SourceSend) \/ RelayStep(SourceStop)
           \/ RelayStep(SourceCancel) \/ RelayStep(SourceRead)
  BY <1>5 DEF FinderStep, RelayStep
<1>6. CASE UNCHANGED vars
  BY <1>6 DEF vars
<1> QED BY <1>2, <1>3, <1>4, <1>5, <1>6 DEF Next

\* The step of a process that ends: only the file is left, and it is as it was.
LEMMA ExitStep ==
    ASSUME CInv, Exit, main' = "load", crashes' \in 0..MaxCrashes,
           torn' \in BOOLEAN, torn => torn', load = "write" => torn'
    PROVE  CInv'
<1>1. ConfigTypeOK'
  BY NoConfigType DEF CInv, ConfigTypeOK, Exit
<1>2. LoadInv' /\ FileInv'
  BY DEF CInv, LoadInv, FileInv, Exit
<1>3. KeptInv'
  BY DEF CInv, KeptInv, Exit
<1> QED BY <1>1, <1>2, <1>3 DEF CInv

\* The steps of Load.
LEMMA LoadKeeps ==
    ASSUME CInv, LoadStep
    PROVE  CInv'
<1>1. /\ ConfigTypeOK /\ LoadInv /\ FileInv /\ KeptInv
      /\ main = "load" /\ load \in {"down", "read", "defaults", "open", "write"}
  BY DEF CInv, LoadStep, LoadInv
<1>2. /\ load' = "loaded" => main' = "relays"
      /\ load' = "failed" => main' = "fatal"
      /\ load' \notin {"loaded", "failed"} => main' = "load"
  BY DEF LoadStep
<1>3. ASSUME load' \in {"down", "read", "defaults", "open", "write", "loaded", "failed"}
      PROVE  LoadInv'
  BY <1>2, <1>3 DEF LoadInv
<1>4. CASE LoadBegin
  BY <1>1, <1>3, <1>4 DEF CInv, ConfigTypeOK, FileInv, KeptInv, LoadBegin
<1>5. CASE Read
  <2>1. /\ UNCHANGED <<file, crashes, used, last, torn>> /\ load = "read"
        /\ load' \in {"defaults", "failed"}
    BY <1>5 DEF Read
  <2>2. CASE file.st = "whole" /\ cfg' = Scan(file.text) /\ load' = "defaults"
    <3>1. PICK c \in Configs : c.id \in {c.key, None} /\ file = Whole(ToJson(c))
      BY <1>1, <2>2, FileStates DEF FileInv
    <3>2. cfg' = c
      BY <2>2, <3>1, FileStates, RoundTrip
    <3>3. ConfigTypeOK' /\ LoadInv'
      BY <1>1, <1>3, <2>1, <2>2, <3>2 DEF ConfigTypeOK
    <3>4. FileInv'
      BY <1>1, <2>1, <2>2, <3>1, <3>2 DEF FileInv
    <3>5. KeptInv'
      <4> SUFFICES ASSUME last # NoConfig, ~torn
                   PROVE  /\ last.key \in Key /\ Field \subseteq last.set
                          /\ file = Whole(ToJson(last)) /\ cfg' = last
        BY <2>1, <2>2 DEF KeptInv
      <4>1. last.key \in Key /\ Field \subseteq last.set /\ file = Whole(ToJson(last))
        BY <1>1, <2>1 DEF KeptInv
      <4>2. file.text = ToJson(last) /\ last \in Configs
        BY <1>1, <4>1, FileStates DEF ConfigTypeOK
      <4> QED BY <2>2, <4>1, <4>2, RoundTrip
    <3> QED BY <3>3, <3>4, <3>5 DEF CInv
  <2>3. CASE file.st # "whole" /\ cfg' = NoConfig
    <3>1. ConfigTypeOK' /\ LoadInv'
      BY <1>1, <1>3, <2>1, <2>3, NoConfigType DEF ConfigTypeOK
    <3>2. FileInv'
      BY <1>1, <2>1, <2>3, NoConfigType DEF FileInv
    <3>3. KeptInv'
      BY <1>1, <2>1, <2>3, FileStates DEF KeptInv
    <3> QED BY <3>1, <3>2, <3>3 DEF CInv
  <2> QED BY <1>5, <2>2, <2>3 DEF Read
<1>6. CASE DefaultConfig
  <2>1. UNCHANGED <<file, crashes, last, torn>> /\ load = "defaults" /\ load' = "open"
    BY <1>6 DEF DefaultConfig
  <2>2. ASSUME cfg.key = None, NEW k \in Key, cfg' = [key |-> k, id |-> k, set |-> cfg.set \cup Field],
               used' = used \cup {k}
        PROVE  CInv'
    <3>1. cfg' \in Configs /\ cfg'.key = k /\ cfg'.id = k /\ Field \subseteq cfg'.set
      BY <1>1, <2>2 DEF ConfigTypeOK, Configs
    <3>2. ConfigTypeOK' /\ LoadInv'
      BY <1>1, <1>3, <2>1, <2>2, <3>1 DEF ConfigTypeOK
    <3>3. FileInv'
      BY <1>1, <2>1, <3>1 DEF FileInv
    <3>4. KeptInv'
      BY <1>1, <2>1, <2>2, ConfigAssumption DEF KeptInv
    <3> QED BY <3>2, <3>3, <3>4 DEF CInv
  <2>3. ASSUME cfg.key # None, cfg' = [cfg EXCEPT !.set = cfg.set \cup Field], used' = used
        PROVE  CInv'
    <3>1. /\ cfg' \in Configs /\ cfg'.key = cfg.key /\ cfg'.id = cfg.id /\ Field \subseteq cfg'.set
          /\ cfg.key \in Key
      BY <1>1, <2>3 DEF ConfigTypeOK, Configs
    <3>2. ConfigTypeOK' /\ LoadInv'
      BY <1>1, <1>3, <2>1, <2>3, <3>1 DEF ConfigTypeOK
    <3>3. FileInv'
      BY <1>1, <2>1, <3>1 DEF FileInv
    <3>4. Field \subseteq cfg.set => cfg' = cfg
      <4>1. Field \subseteq cfg.set => cfg.set \cup Field = cfg.set
        OBVIOUS
      <4>2. cfg = [key |-> cfg.key, id |-> cfg.id, set |-> cfg.set]
        BY <1>1 DEF ConfigTypeOK, Configs
      <4> QED BY <2>3, <4>1, <4>2
    <3>5. KeptInv'
      BY <1>1, <2>1, <3>4 DEF KeptInv
    <3> QED BY <3>2, <3>3, <3>5 DEF CInv
  <2> QED BY <1>6, <2>2, <2>3 DEF DefaultConfig
<1>7. CASE SaveOpen
  <2>1. /\ UNCHANGED <<cfg, crashes, used, last, torn>> /\ load = "open" /\ load' = "write"
        /\ file' = Torn("empty")
    BY <1>7 DEF SaveOpen
  <2>2. ConfigTypeOK' /\ LoadInv'
    BY <1>1, <1>3, <2>1, FileStates DEF ConfigTypeOK
  <2>3. FileInv' /\ KeptInv'
    BY <1>1, <2>1 DEF FileInv, KeptInv
  <2> QED BY <2>2, <2>3 DEF CInv
<1>8. CASE SaveWrite
  <2>1. UNCHANGED <<cfg, crashes, used>> /\ load = "write"
    BY <1>8 DEF SaveWrite
  <2>2. CASE file' = Torn("partial") /\ UNCHANGED <<load, last, torn>>
    <3>1. ConfigTypeOK' /\ LoadInv'
      BY <1>1, <1>3, <2>1, <2>2, FileStates DEF ConfigTypeOK
    <3>2. FileInv' /\ KeptInv'
      BY <1>1, <2>1, <2>2 DEF FileInv, KeptInv
    <3> QED BY <3>1, <3>2 DEF CInv
  <2>3. CASE file' = Whole(ToJson(cfg)) /\ load' = "loaded" /\ last' = cfg /\ torn' = FALSE
    <3>1. ConfigTypeOK' /\ LoadInv'
      BY <1>1, <1>3, <2>1, <2>3, FileStates DEF ConfigTypeOK
    <3>2. FileInv'
      BY <1>1, <2>1, <2>3 DEF FileInv, ConfigTypeOK
    <3>3. KeptInv'
      BY <1>1, <2>1, <2>3 DEF FileInv, KeptInv
    <3> QED BY <3>1, <3>2, <3>3 DEF CInv
  <2> QED BY <1>8, <2>2, <2>3 DEF SaveWrite
<1>9. CASE SaveFail
  <2>1. /\ UNCHANGED <<file, cfg, used, last>> /\ load' = "failed" /\ crashes' = crashes + 1
        /\ crashes < MaxCrashes /\ torn' = (torn \/ load = "write")
    BY <1>9 DEF SaveFail
  <2>2. ConfigTypeOK' /\ LoadInv'
    BY <1>1, <1>3, <2>1, ConfigAssumption DEF ConfigTypeOK
  <2>3. FileInv' /\ KeptInv'
    BY <1>1, <2>1 DEF FileInv, KeptInv
  <2> QED BY <2>2, <2>3 DEF CInv
<1> QED BY <1>4, <1>5, <1>6, <1>7, <1>8, <1>9 DEF LoadStep, Load

\* Every step of the system keeps the configuration's invariant.
LEMMA ConfigStep ==
    ASSUME CInv, [Next]_vars
    PROVE  CInv'
<1>1. CASE LoadStep
  BY <1>1, LoadKeeps
<1>2. CASE Killed
  <2>1. /\ Exit /\ main' = "load" /\ crashes < MaxCrashes /\ crashes' = crashes + 1
        /\ torn' = (torn \/ load = "write")
    BY <1>2 DEF Killed, LoadCrash, Gone
  <2>2. crashes' \in 0..MaxCrashes /\ torn' \in BOOLEAN
    BY <2>1, ConfigAssumption DEF CInv, ConfigTypeOK
  <2> QED BY <2>1, <2>2, ExitStep
<1>3. CASE Fatal
  <2>1. Exit /\ main' = "load" /\ crashes' = crashes /\ torn' = torn /\ main = "fatal"
    BY <1>3 DEF Fatal, Gone
  <2>2. load # "write" /\ crashes \in 0..MaxCrashes /\ torn \in BOOLEAN
    BY <2>1 DEF CInv, LoadInv, ConfigTypeOK
  <2> QED BY <2>1, <2>2, ExitStep
<1>4. CASE /\ UNCHANGED config /\ crashes' \in {crashes, crashes + 1}
           /\ crashes' # crashes => crashes < MaxCrashes
           /\ (main \notin {"load", "fatal"} /\ main' # "load") \/ main' = main
  <2>1. UNCHANGED <<file, cfg, load, used, last, torn>>
    BY <1>4 DEF config
  <2>2. crashes' \in 0..MaxCrashes
    BY <1>4, ConfigAssumption DEF CInv, ConfigTypeOK
  <2>3. ConfigTypeOK' /\ FileInv' /\ KeptInv'
    BY <2>1, <2>2 DEF CInv, ConfigTypeOK, FileInv, KeptInv
  <2>4. LoadInv'
    BY <1>4, <2>1 DEF CInv, LoadInv
  <2> QED BY <2>3, <2>4 DEF CInv
<1> QED BY <1>1, <1>2, <1>3, <1>4, ConfigSteps

\* The inductive invariant of the configuration file.
THEOREM ConfigInductive == Spec => []CInv
<1>1. Init => CInv
  <2> SUFFICES ASSUME Init PROVE CInv
    OBVIOUS
  <2>1. /\ cfg = NoConfig /\ last = NoConfig /\ load = "down" /\ main = "load"
        /\ crashes = 0 /\ torn = FALSE
    BY DEF Init, ConfigInit
  <2>2. ConfigTypeOK
    <3>1. file.st \in {"absent", "empty", "partial", "whole"} /\ used \in SUBSET Key
      BY FileInit
    <3>2. crashes \in 0..MaxCrashes
      BY <2>1, ConfigAssumption
    <3> QED BY <2>1, <3>1, <3>2, NoConfigType DEF ConfigTypeOK
  <2>3. LoadInv /\ FileInv /\ KeptInv
    BY <2>1, FileInit DEF LoadInv, FileInv, KeptInv
  <2> QED BY <2>2, <2>3 DEF CInv
<1>2. CInv /\ [Next]_vars => CInv'
  BY ConfigStep
<1> QED BY <1>1, <1>2, PTL DEF Spec

\* Load never gives back a configuration that is not in the file, whatever was
\* there before and wherever earlier starts were killed.
THEOREM LoadDurable == Spec => []Durable
<1>1. CInv => Durable
  <2> SUFFICES ASSUME CInv, load = "loaded" PROVE Durable!2
    BY DEF Durable
  <2>1. cfg \in Configs /\ file = Whole(ToJson(cfg))
    BY DEF CInv, FileInv, ConfigTypeOK
  <2>2. file.st = "whole" /\ Scan(file.text) = cfg
    BY <2>1, FileStates, RoundTrip
  <2> QED BY <2>2 DEF CInv, FileInv
<1> QED BY <1>1, ConfigInductive, PTL

\* A node that is started again is the same node, unless a save was interrupted
\* while the file was open.
THEOREM IdentitySurvives == Spec => IdentityKept
<1>1. CInv /\ [Next]_vars => [last' # last => last = NoConfig \/ torn]_<<config, crashes>>
  <2> SUFFICES ASSUME CInv, [Next]_vars, last' # last PROVE last = NoConfig \/ torn
    OBVIOUS
  <2>1. SaveWrite
    BY ConfigSteps DEF LoadStep, Load, LoadBegin, Read, DefaultConfig, SaveOpen, SaveFail,
                       Killed, Fatal, Gone, Exit, config
  <2>2. load = "write" /\ last' = cfg
    BY <2>1 DEF SaveWrite
  <2> QED BY <2>2 DEF CInv, KeptInv
<1> QED BY <1>1, ConfigInductive, PTL DEF Spec, IdentityKept

-----------------------------------------------------------------------------
(* The peer source of auto relay *)

\* While a call goes on, what was given and what is still to be counted down are
\* what was asked for; the call's channel never holds more than that.
SourceInv ==
    /\ source.pc \in {"recv", "send"} => source.given + source.num = source.asked
    /\ source.pc = "off" => source.given = 0
    /\ source.c <= source.asked

RelayInv == RelayTypeOK /\ SourceInv /\ SourceExact

\* A call that starts, or none.
LEMMA SourceStart ==
    /\ NoFinder \in [pc : {"off", "pass", "wait"}, left : 0..MaxFound]
    /\ relayChan' = 0 /\ finder' = NoFinder /\ source' = NoSource => RelayInv'
<1>1. NoFinder \in [pc : {"off", "pass", "wait"}, left : 0..MaxFound]
  BY RelayAssumption DEF NoFinder
<1>2. ASSUME relayChan' = 0, finder' = NoFinder, source' = NoSource PROVE RelayInv'
  BY <1>1, <1>2, RelayAssumption
     DEF RelayInv, RelayTypeOK, SourceInv, SourceExact, NoSource
<1> QED BY <1>1, <1>2

\* The steps of the finder.
LEMMA FinderKeeps ==
    ASSUME RelayInv, FinderStart \/ FinderPeer \/ FinderSleep \/ FinderTick
    PROVE  RelayInv'
<1> USE RelayAssumption DEF RelayTypeOK
<1>1. source' = source
  BY DEF FinderStart, FinderPeer, FinderSleep, FinderTick
<1>2. relayChan' \in 0..RelayCap
  BY DEF RelayInv, FinderStart, FinderPeer, FinderSleep, FinderTick
<1>3. finder' \in [pc : {"off", "pass", "wait"}, left : 0..MaxFound]
  <2>1. CASE FinderStart \/ FinderTick
    BY <2>1 DEF FinderStart, FinderTick, Pass
  <2>2. CASE FinderPeer
    BY <2>2 DEF RelayInv, FinderPeer
  <2>3. CASE FinderSleep
    BY <2>3 DEF RelayInv, FinderSleep
  <2> QED BY <2>1, <2>2, <2>3
<1> QED BY <1>1, <1>2, <1>3 DEF RelayInv, SourceInv, SourceExact

\* The steps of a source and of its caller.
LEMMA SourceKeeps ==
    ASSUME RelayInv,
           \/ SourceCall \/ SourceRecv \/ SourceSend \/ SourceStop
           \/ SourceCancel \/ SourceRead
    PROVE  RelayInv'
<1> USE RelayAssumption DEF RelayInv, RelayTypeOK, SourceInv, SourceExact
<1>1. CASE SourceCall
  <2>1. PICK n \in 0..MaxNum : source' = [NoSource EXCEPT !.pc = "recv", !.asked = n, !.num = n]
    BY <1>1 DEF SourceCall
  <2>2. source' = [pc |-> "recv", asked |-> n, num |-> n, c |-> 0, given |-> 0, ctxDone |-> FALSE]
    BY <2>1 DEF NoSource
  <2>3. n \in Nat /\ n <= MaxNum
    OBVIOUS
  <2>4. source' \in [pc : {"off", "recv", "send", "closed"}, asked : 0..MaxNum, num : 0..MaxNum,
                     c : 0..MaxNum, given : 0..(MaxNum + 1), ctxDone : BOOLEAN]
    BY <2>2, <2>3
  <2>5. /\ source'.pc = "recv" /\ source'.given + source'.num = source'.asked
        /\ source'.c <= source'.asked /\ source'.given <= source'.asked + 1
    BY <2>2, <2>3
  <2>6. relayChan' = relayChan /\ finder' = finder
    BY <1>1 DEF SourceCall
  <2> QED BY <2>4, <2>5, <2>6
<1>2. CASE SourceRecv
  BY <1>2 DEF SourceRecv
<1>3. CASE SourceSend
  <2>1. /\ source.asked \in 0..MaxNum /\ source.num \in 0..MaxNum /\ source.c \in 0..MaxNum
        /\ source.given \in 0..(MaxNum + 1) /\ source.ctxDone \in BOOLEAN
        /\ source.given + source.num = source.asked /\ source.pc = "send"
    BY <1>3 DEF SourceSend
  <2>2. source' = [pc |-> IF source.num > 0 THEN "recv" ELSE "closed", asked |-> source.asked,
                   num |-> IF source.num > 0 THEN source.num - 1 ELSE source.num,
                   c |-> IF source.asked = 0 THEN 0 ELSE source.c + 1,
                   given |-> source.given + 1, ctxDone |-> source.ctxDone]
    BY <1>3 DEF SourceSend
  <2>3. source.c < source.asked \/ source.asked = 0
    BY <1>3 DEF SourceSend
  <2> HIDE DEF RelayInv
  <2>4. source'.given + source'.num = source'.asked \/ source'.pc = "closed"
    BY <2>1, <2>2
  <2>5. source'.given <= source'.asked + 1 /\ (source'.pc = "closed" => source'.given = source'.asked + 1)
    BY <2>1, <2>2
  <2>6. source'.c <= source'.asked /\ source'.c \in 0..MaxNum /\ source'.given \in 0..(MaxNum + 1)
    BY <2>1, <2>2, <2>3
  <2>7. source' \in [pc : {"off", "recv", "send", "closed"}, asked : 0..MaxNum, num : 0..MaxNum,
                     c : 0..MaxNum, given : 0..(MaxNum + 1), ctxDone : BOOLEAN]
    BY <2>1, <2>2, <2>6
  <2>8. source'.pc \in {"recv", "closed"}
    BY <2>2
  <2> QED BY <1>3, <2>4, <2>5, <2>6, <2>7, <2>8 DEF SourceSend, RelayInv
<1>4. CASE SourceStop
  BY <1>4 DEF SourceStop
<1>5. CASE SourceCancel
  BY <1>5 DEF SourceCancel
<1>6. CASE SourceRead
  BY <1>6 DEF SourceRead
<1> QED BY <1>1, <1>2, <1>3, <1>4, <1>5, <1>6

\* Every step of the system keeps the relay's invariant.
LEMMA RelayKeeps ==
    ASSUME RelayInv, [Next]_vars
    PROVE  RelayInv'
<1>1. CASE UNCHANGED relayvars
  BY <1>1 DEF RelayInv, RelayTypeOK, SourceInv, SourceExact, relayvars
<1>2. CASE Main
  <2>1. CASE AutoRelay
    BY <1>1, <2>1, FinderKeeps DEF AutoRelay
  <2>2. CASE Fatal
    BY <2>2, SourceStart DEF Fatal, Gone
  <2> QED BY <1>1, <1>2, <2>1, <2>2
          DEF Main, LoadStep, Relays, New, NewDHT, CreateTUN, CreateTUNReturns, GetName, BringUp,
              AddRoute, RoutesDone, EnableDHT, EnableMdns, SetStreamHandler, Routines, Calls
<1>3. CASE StepFails \/ Renamed \/ UNCHANGED vars
  BY <1>1, <1>3 DEF StepFails, Renamed, vars
<1>4. CASE Killed
  BY <1>4, SourceStart DEF Killed, Gone
<1>5. CASE FinderStep \/ RelayStep(FinderTick)
  BY <1>5, FinderKeeps DEF FinderStep, RelayStep
<1>6. CASE \/ RelayStep(SourceCall) \/ RelayStep(SourceRecv) \/ RelayStep(SourceSend)
           \/ RelayStep(SourceStop) \/ RelayStep(SourceCancel) \/ RelayStep(SourceRead)
  BY <1>6, SourceKeeps DEF RelayStep
<1> QED BY <1>2, <1>3, <1>4, <1>5, <1>6 DEF Next

\* The inductive invariant of the relay.
THEOREM RelayInductive == Spec => []RelayInv
<1>1. Init => RelayInv
  BY SourceStart, RelayAssumption
     DEF Init, RelayInit, RelayInv, RelayTypeOK, SourceInv, SourceExact, NoSource
<1>2. RelayInv /\ [Next]_vars => RelayInv'
  BY RelayKeeps
<1> QED BY <1>1, <1>2, PTL DEF Spec

\* However many candidates libp2p asks for, it is given one more, never two, and
\* fewer only if it gave up.
THEOREM SourceGives == Spec => []SourceExact
<1>1. RelayInv => SourceExact
  BY DEF RelayInv
<1> QED BY <1>1, RelayInductive, PTL

-----------------------------------------------------------------------------
(* The start-up *)

\* The places of main before the field, the device or the goroutine is there.
BeforeHost   == {"load", "relays", "new"}
BeforeDHT    == BeforeHost \cup {"dht"}
BeforeTUN    == BeforeDHT \cup {"createTUN"}
BeforeMTU    == BeforeTUN \cup {"getName", "getIndex", "setMTU"}
BeforeDevice == BeforeMTU \cup {"getMTU"}
BeforeAddr   == BeforeDevice \cup {"name", "addAddress"}
BeforeUp     == BeforeAddr \cup {"up"}
BeforeJoin   == BeforeUp \cup {"routes", "enableDHT"}
BeforeMdns   == BeforeJoin \cup {"enableMdns"}
Started      == BeforeMdns \cup {"autoRelay", "handler", "routines", "serving"}

AutoRelayOn == ~Set("Relays") /\ Set("EnableAutoRelay")

\* The place of main says how often each field was assigned, until main gives up.
FieldInv ==
    /\ main \in Started \cup {"fatal"}
    /\ field \in [Fields -> 0..2]
    /\ main # "fatal" =>
        /\ field["relayChan"] = IF main \in {"load", "relays"} \/ ~AutoRelayOn THEN 0 ELSE 1
        /\ field["host"] = IF main \in BeforeHost THEN 0 ELSE 1
        /\ field["dht"] = IF main \in BeforeDHT THEN 0 ELSE IF main \in BeforeJoin THEN 1 ELSE 2
        /\ field["discovery"] = field["dht"]
        /\ field["device"] = IF main \in BeforeDevice THEN 0 ELSE 1
        /\ field["mdns"] = IF main \in BeforeMdns \/ ~Set("EnableMDNS") THEN 0 ELSE 1

\* It also says who can be running.
RunInv ==
    /\ running \in SUBSET Goroutine
    /\ "peerSource" \in running => main \notin BeforeHost /\ field["relayChan"] > 0
    /\ "connectBootstrapsLoop" \in running => main \notin BeforeJoin \cup {"fatal"}
    /\ "mdnsLoop" \in running => main \notin BeforeMdns \cup {"fatal"} /\ Set("EnableMDNS")
    /\ "autoRelayFinder" \in running => main \in {"handler", "routines", "serving"} /\ AutoRelayOn
    /\ "VPNHandler" \in running => main \in {"routines", "serving"}
    /\ running \cap {"RoutineTUNReader", "RoutineTUNWriter", "RoutineRouteTableWriter"} # {} =>
          main = "serving"

\* And how far the device and the route table are.
DevInv ==
    /\ DeviceTypeOK
    /\ m \in SUBSET Peer /\ routes \in SUBSET Peer /\ name \in Names \cup {NoName}
    /\ main \in BeforeUp => ~tun.state
    /\ main # "fatal" =>
        /\ main \notin BeforeTUN => tun.open
        /\ main \notin BeforeMTU => iface.mtu = MTU
        /\ main \notin BeforeDevice => tun.mtu = MTU
        /\ main \notin BeforeAddr => iface.addr
        /\ main \notin BeforeUp => iface.up /\ tun.state
        /\ main \notin BeforeUp \cup {"routes"} => m = Peers

\* main assigns the fields in the order of its steps.
LEMMA FieldStep ==
    ASSUME FieldInv, [Next]_vars
    PROVE  FieldInv'
<1> USE DEF FieldInv, Goes, Assign, Fields, Set, AutoRelayOn, config, engine,
         BeforeHost, BeforeDHT, BeforeTUN, BeforeMTU, BeforeDevice, BeforeAddr, BeforeUp,
         BeforeJoin, BeforeMdns, Started
<1>1. CASE LoadStep
  BY <1>1 DEF LoadStep
<1>2. CASE Relays
  BY <1>2 DEF Relays
<1>3. CASE New
  BY <1>3 DEF New
<1>4. CASE NewDHT
  BY <1>4 DEF NewDHT
<1>5. CASE CreateTUNReturns
  BY <1>5 DEF CreateTUNReturns
<1>6. CASE GetName
  BY <1>6 DEF GetName
<1>7. CASE AddRoute
  BY <1>7 DEF AddRoute
<1>8. CASE RoutesDone
  BY <1>8 DEF RoutesDone
<1>9. CASE EnableDHT
  BY <1>9 DEF EnableDHT
<1>10. CASE EnableMdns
  BY <1>10 DEF EnableMdns
<1>11. CASE AutoRelay
  BY <1>11 DEF AutoRelay
<1>12. CASE SetStreamHandler
  BY <1>12 DEF SetStreamHandler
<1>13. CASE Routines
  BY <1>13 DEF Routines
<1>14. CASE CreateTUN
  BY <1>14 DEF CreateTUN, Calls
<1>15. CASE BringUp
  BY <1>15 DEF BringUp, Calls
<1>16. CASE Fatal \/ Killed
  BY <1>16 DEF Fatal, Killed, Gone, Exit
<1>17. CASE StepFails
  BY <1>17 DEF StepFails
<1>18. CASE Renamed
  BY <1>18 DEF Renamed
<1>19. CASE \/ FinderStep \/ RelayStep(FinderTick) \/ RelayStep(SourceCall)
            \/ RelayStep(SourceRecv) \/ RelayStep(SourceSend) \/ RelayStep(SourceStop)
            \/ RelayStep(SourceCancel) \/ RelayStep(SourceRead)
  BY <1>19 DEF FinderStep, RelayStep
<1>20. CASE UNCHANGED vars
  BY <1>20 DEF vars
<1> HIDE DEF FieldInv
<1> QED BY <1>1, <1>2, <1>3, <1>4, <1>5, <1>6, <1>7, <1>8, <1>9, <1>10, <1>11, <1>12,
           <1>13, <1>14, <1>15, <1>16, <1>17, <1>18, <1>19, <1>20
        DEF Next, Main

\* A goroutine is only started by the step of main that starts it.
LEMMA RunStep ==
    ASSUME FieldInv, FieldInv', RunInv, [Next]_vars
    PROVE  RunInv'
<1> USE DEF RunInv, FieldInv, Goes, Assign, Fields, Goroutine, Set, AutoRelayOn, config, engine,
         BeforeHost, BeforeDHT, BeforeTUN, BeforeMTU, BeforeDevice, BeforeAddr, BeforeUp,
         BeforeJoin, BeforeMdns, Started
<1>1. CASE LoadStep
  BY <1>1 DEF LoadStep
<1>2. CASE Relays
  BY <1>2 DEF Relays
<1>3. CASE New
  BY <1>3 DEF New
<1>4. CASE NewDHT
  BY <1>4 DEF NewDHT
<1>5. CASE CreateTUNReturns
  BY <1>5 DEF CreateTUNReturns
<1>6. CASE GetName
  BY <1>6 DEF GetName
<1>7. CASE AddRoute
  BY <1>7 DEF AddRoute
<1>8. CASE RoutesDone
  BY <1>8 DEF RoutesDone
<1>9. CASE EnableDHT
  BY <1>9 DEF EnableDHT
<1>10. CASE EnableMdns
  <2>1. main = "enableMdns" /\ main' = "autoRelay" /\ cfg' = cfg
    BY <1>10 DEF EnableMdns
  <2>2. field'["relayChan"] = field["relayChan"]
    BY <1>10 DEF EnableMdns
  <2>3. CASE Set("EnableMDNS") /\ running' = running \cup {"mdnsLoop"}
    BY <2>1, <2>2, <2>3
  <2>4. CASE running' = running
    BY <2>1, <2>2, <2>4
  <2> QED BY <1>10, <2>3, <2>4 DEF EnableMdns
<1>11. CASE AutoRelay
  <2>1. main = "autoRelay" /\ main' = "handler" /\ cfg' = cfg /\ field' = field
    BY <1>11 DEF AutoRelay
  <2>2. CASE AutoRelayOn /\ running' = running \cup {"autoRelayFinder"}
    BY <2>1, <2>2
  <2>3. CASE running' = running
    BY <2>1, <2>3
  <2> QED BY <1>11, <2>2, <2>3 DEF AutoRelay
<1>12. CASE SetStreamHandler
  BY <1>12 DEF SetStreamHandler
<1>13. CASE Routines
  BY <1>13 DEF Routines
<1>14. CASE CreateTUN
  BY <1>14 DEF CreateTUN, Calls
<1>15. CASE BringUp
  BY <1>15 DEF BringUp, Calls
<1>16. CASE Fatal \/ Killed
  BY <1>16 DEF Fatal, Killed, Gone, Exit
<1>17. CASE StepFails
  BY <1>17 DEF StepFails
<1>18. CASE Renamed
  BY <1>18 DEF Renamed
<1>19. CASE \/ FinderStep \/ RelayStep(FinderTick) \/ RelayStep(SourceCall)
            \/ RelayStep(SourceRecv) \/ RelayStep(SourceSend) \/ RelayStep(SourceStop)
            \/ RelayStep(SourceCancel) \/ RelayStep(SourceRead)
  BY <1>19, ZenonT(60) DEF FinderStep, RelayStep
<1>20. CASE UNCHANGED vars
  BY <1>20 DEF vars
<1> HIDE DEF RunInv, FieldInv
<1> QED BY <1>1, <1>2, <1>3, <1>4, <1>5, <1>6, <1>7, <1>8, <1>9, <1>10, <1>11, <1>12,
           <1>13, <1>14, <1>15, <1>16, <1>17, <1>18, <1>19, <1>20
        DEF Next, Main

\* The device is set up in the order of main's steps, and stays so.
LEMMA DevStep ==
    ASSUME DevInv, [Next]_vars
    PROVE  DevInv'
<1> USE DeviceAssumption
    DEF DevInv, DeviceTypeOK, Goes, Set, Peers, Found, Name, getNameFromSys, getMTUFromSys,
         NoTUN, NoIface, config, engine, devvars,
         BeforeHost, BeforeDHT, BeforeTUN, BeforeMTU, BeforeDevice, BeforeAddr, BeforeUp,
         BeforeJoin, BeforeMdns, Started
<1>1. CASE LoadStep
  BY <1>1 DEF LoadStep
<1>2. CASE Relays
  BY <1>2 DEF Relays
<1>3. CASE New
  BY <1>3 DEF New
<1>4. CASE NewDHT
  BY <1>4 DEF NewDHT
<1>5. CASE CreateTUNReturns
  BY <1>5 DEF CreateTUNReturns
<1>6. CASE GetName
  BY <1>6 DEF GetName
<1>7. CASE AddRoute
  BY <1>7 DEF AddRoute
<1>8. CASE RoutesDone
  BY <1>8 DEF RoutesDone
<1>9. CASE EnableDHT
  BY <1>9 DEF EnableDHT
<1>10. CASE EnableMdns
  BY <1>10 DEF EnableMdns
<1>11. CASE AutoRelay
  BY <1>11 DEF AutoRelay
<1>12. CASE SetStreamHandler
  BY <1>12 DEF SetStreamHandler
<1>13. CASE Routines
  BY <1>13 DEF Routines
<1>14. CASE CreateTUN
  BY <1>14 DEF CreateTUN, Calls, OpenTUN, getNameFromSys, getIFIndex, setMTU, NoIface
<1>15. CASE BringUp
  BY <1>15 DEF BringUp, Calls, AddAddress, Up, changeState
<1>16. CASE Fatal \/ Killed
  <2>1. /\ main' = "load" /\ tun' = NoTUN /\ iface' = NoIface
        /\ m' = {} /\ routes' = {} /\ name' = NoName
    BY <1>16 DEF Fatal, Killed, Gone
  <2>2. DeviceTypeOK'
    BY <2>1
  <2>3. ~NoTUN.state
    OBVIOUS
  <2> HIDE DEF DeviceTypeOK
  <2> QED BY <2>1, <2>2, <2>3
<1>17. CASE StepFails
  BY <1>17 DEF StepFails
<1>18. CASE Renamed
  BY <1>18 DEF Renamed, Rename
<1>19. CASE \/ FinderStep \/ RelayStep(FinderTick) \/ RelayStep(SourceCall)
            \/ RelayStep(SourceRecv) \/ RelayStep(SourceSend) \/ RelayStep(SourceStop)
            \/ RelayStep(SourceCancel) \/ RelayStep(SourceRead)
  BY <1>19 DEF FinderStep, RelayStep
<1>20. CASE UNCHANGED vars
  BY <1>20 DEF vars
<1> HIDE DEF DevInv
<1> QED BY <1>1, <1>2, <1>3, <1>4, <1>5, <1>6, <1>7, <1>8, <1>9, <1>10, <1>11, <1>12,
           <1>13, <1>14, <1>15, <1>16, <1>17, <1>18, <1>19, <1>20
        DEF Next, Main

StartInv == FieldInv /\ RunInv /\ DevInv

\* The inductive invariant of the start-up.
THEOREM StartInductive == Spec => []StartInv
<1>1. Init => StartInv
  <2> SUFFICES ASSUME Init PROVE StartInv
    OBVIOUS
  <2>1. /\ main = "load" /\ field = [f \in Fields |-> 0] /\ running = {}
        /\ m = {} /\ routes = {} /\ name = NoName /\ tun = NoTUN /\ iface = NoIface
    BY DEF Init, EngineInit, DeviceInit
  <2>2. FieldInv
    BY <2>1 DEF FieldInv, Fields, Started, BeforeMdns, BeforeJoin, BeforeUp, BeforeAddr,
                BeforeDevice, BeforeMTU, BeforeTUN, BeforeDHT, BeforeHost
  <2>3. RunInv
    BY <2>1 DEF RunInv
  <2>4. DevInv
    <3>1. DeviceTypeOK /\ ~tun.state
      BY <2>1, DeviceAssumption DEF DeviceTypeOK, NoTUN, NoIface
    <3> QED BY <2>1, <3>1 DEF DevInv, BeforeUp, BeforeAddr, BeforeDevice, BeforeMTU, BeforeTUN,
                             BeforeDHT, BeforeHost
  <2> QED BY <2>2, <2>3, <2>4 DEF StartInv
<1>2. StartInv /\ [Next]_vars => StartInv'
  BY FieldStep, RunStep, DevStep DEF StartInv
<1> QED BY <1>1, <1>2, PTL DEF Spec

\* The types of a node, with the bounds they carry: relayChan and the channel of a
\* source hold no more than they have room for, and main assigns no field of the
\* Engine more than twice.
THEOREM TypeCorrect == Spec => []TypeOK
<1>1. CInv /\ RelayInv /\ StartInv => TypeOK
  BY DEF CInv, RelayInv, StartInv, FieldInv, RunInv, DevInv, TypeOK, Started, BeforeMdns,
         BeforeJoin, BeforeUp, BeforeAddr, BeforeDevice, BeforeMTU, BeforeTUN, BeforeDHT, BeforeHost
<1> QED BY <1>1, ConfigInductive, RelayInductive, StartInductive, PTL

\* Whoever main has started, and whatever libp2p calls, finds the fields of the
\* Engine it reads, the device up and the route table complete.
THEOREM NodeReady == Spec => []Ready
<1>1. StartInv => Ready
  <2> SUFFICES ASSUME StartInv PROVE Ready
    OBVIOUS
  <2> USE DEF StartInv, FieldInv, RunInv, BeforeMdns, BeforeJoin, BeforeUp, BeforeAddr,
              BeforeDevice, BeforeMTU, BeforeTUN, BeforeDHT, BeforeHost, Started
  <2>1. ASSUME NEW g \in running, NEW f \in Reads(g) PROVE field[f] > 0
    <3>1. g \in Goroutine
      OBVIOUS
    <3>2. CASE g = "peerSource"
      BY <2>1, <3>2 DEF Reads
    <3>3. CASE g = "connectBootstrapsLoop"
      <4>1. f \in {"host", "discovery"}
        BY <2>1, <3>3 DEF Reads
      <4> QED BY <3>3, <4>1
    <3>4. CASE g = "mdnsLoop"
      <4>1. f = "mdns"
        BY <2>1, <3>4 DEF Reads
      <4> QED BY <3>4, <4>1
    <3>5. CASE g = "autoRelayFinder"
      <4>1. f \in {"host", "relayChan", "dht"}
        BY <2>1, <3>5 DEF Reads
      <4> QED BY <3>5, <4>1
    <3>6. CASE g = "VPNHandler"
      BY <2>1, <3>6 DEF Reads
    <3>7. CASE g \in {"RoutineTUNReader", "RoutineTUNWriter"}
      <4>1. f = "device"
        BY <2>1, <3>7 DEF Reads
      <4> QED BY <3>7, <4>1
    <3>8. CASE g = "RoutineRouteTableWriter"
      <4>1. f \in {"host", "discovery"}
        BY <2>1, <3>8 DEF Reads
      <4> QED BY <3>8, <4>1
    <3> QED BY <3>1, <3>2, <3>3, <3>4, <3>5, <3>6, <3>7, <3>8 DEF Goroutine
  <2>2. ASSUME running \cap {"VPNHandler", "RoutineTUNReader", "RoutineTUNWriter",
                             "RoutineRouteTableWriter"} # {}
        PROVE  m = Peers /\ DeviceReady
    <3>1. main \in {"routines", "serving"}
      BY <2>2
    <3> QED BY <3>1 DEF DevInv, DeviceReady, DeviceTypeOK
  <2> QED BY <2>1, <2>2 DEF Ready
<1> QED BY <1>1, StartInductive, PTL

\* main never assigns a field of the Engine while somebody who reads it runs.
THEOREM FieldsSettle == Spec => FieldsSettled
<1>1. ASSUME StartInv, [Next]_vars, main' # "load", NEW g \in running, NEW f \in Reads(g)
      PROVE  field'[f] = field[f]
  <2> USE DEF StartInv, FieldInv, RunInv, Goes, Assign, BeforeMdns, BeforeJoin, BeforeUp, BeforeAddr,
              BeforeDevice, BeforeMTU, BeforeTUN, BeforeDHT, BeforeHost, Started
  <2>1. /\ g = "peerSource" => f = "relayChan"
        /\ g = "connectBootstrapsLoop" => f \in {"host", "discovery"}
    BY <1>1 DEF Reads
  <2>2. f \in Fields /\ g \in Goroutine
    BY <1>1 DEF Reads, Fields, Goroutine
  <2>3. CASE Relays \/ New
    <3>1. main \in {"relays", "new"}
      BY <2>3 DEF Relays, New
    <3> QED BY <1>1, <2>2, <3>1 DEF Goroutine
  <2>4. CASE NewDHT \/ CreateTUNReturns \/ EnableDHT
    <3>1. main \in {"dht", "getMTU", "enableDHT"}
      BY <2>4 DEF NewDHT, CreateTUNReturns, EnableDHT
    <3>2. g = "peerSource"
      BY <1>1, <2>2, <3>1 DEF Goroutine
    <3> QED BY <2>1, <2>4, <3>2 DEF NewDHT, CreateTUNReturns, EnableDHT, Fields
  <2>5. CASE EnableMdns
    <3>1. main = "enableMdns"
      BY <2>5 DEF EnableMdns
    <3>2. g \in {"peerSource", "connectBootstrapsLoop"}
      BY <1>1, <2>2, <3>1 DEF Goroutine
    <3> QED BY <2>1, <2>5, <3>2 DEF EnableMdns, Fields
  <2>6. CASE field' = field
    BY <2>6
  <2> HIDE DEF StartInv, FieldInv, RunInv, Goes
  <2>7. CASE Main
    BY <1>1, <2>3, <2>4, <2>5, <2>6, <2>7
       DEF Main, LoadStep, CreateTUN, Calls, GetName, BringUp, AddRoute, RoutesDone, AutoRelay,
           SetStreamHandler, Routines, Fatal, Gone, engine
  <2>8. CASE UNCHANGED vars
    BY <2>6, <2>8 DEF vars, engine
  <2> QED BY <1>1, <2>6, <2>7, <2>8
          DEF Next, StepFails, Killed, Gone, Renamed, FinderStep, RelayStep, engine
<1>2. StartInv /\ [Next]_vars =>
        [main' # "load" => \A g \in running : \A f \in Reads(g) : field'[f] = field[f]]_vars
  BY <1>1
<1> QED BY <1>2, StartInductive, PTL DEF Spec, FieldsSettled
=============================================================================
