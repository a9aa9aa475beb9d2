-------------------------------- MODULE Node --------------------------------
(***************************************************************************)
(* One node from start to end: main (cmd/main.go), engine.Run, Engine.Run  *)
(* (core/engine/engine.go) and the calls it makes to the TUN device        *)
(* (core/device/tun_linux.go) and to the kernel's routes (core/route), on  *)
(* top of Config, Relay and Device.                                        *)
(*                                                                         *)
(* main is one goroutine and goes through the steps of the start-up in     *)
(* order; most of them may fail, and then the process exits.  What makes   *)
(* the order matter are the goroutines it starts on the way and libp2p,    *)
(* which calls back as soon as the host runs: they read fields of the      *)
(* Engine that main assigns without a lock.  The process may be killed at  *)
(* any time, and is started again.                                         *)
(***************************************************************************)
EXTENDS Config, Relay, Device

CONSTANT Peer   \* the keys of cfg.PeersRouteTable, if it has a value

\* The options the start-up depends on.
ASSUME NodeAssumption == Option = {"PeersRouteTable", "Relays", "EnableAutoRelay", "EnableMDNS"}

VARIABLES
    main,     \* where main is
    field,    \* how often main has assigned each field of the Engine
    m,        \* routeTable.m
    name,     \* the local variable of Engine.Run
    routes,   \* the kernel's routes
    running   \* the goroutines that were started, and the callbacks libp2p knows

engine == <<field, m, name, routes, running>>
vars   == <<config, crashes, relayvars, devvars, main, engine>>

\* The fields that are assigned, and who reads which of them.
Fields == {"host", "relayChan", "dht", "discovery", "mdns", "device"}

Reads(g) ==
    CASE g = "peerSource"              -> {"relayChan"}
      [] g = "connectBootstrapsLoop"   -> {"host", "discovery"}
      [] g = "mdnsLoop"                -> {"mdns"}
      [] g = "autoRelayFinder"         -> {"host", "relayChan", "dht"}
      [] g = "VPNHandler"              -> {}
      [] g = "RoutineTUNReader"        -> {"device"}
      [] g = "RoutineTUNWriter"        -> {"device"}
      [] g = "RoutineRouteTableWriter" -> {"host", "discovery"}

Goroutine == {"peerSource", "connectBootstrapsLoop", "mdnsLoop", "autoRelayFinder", "VPNHandler",
              "RoutineTUNReader", "RoutineTUNWriter", "RoutineRouteTableWriter"}

EngineInit ==
    /\ field = [f \in Fields |-> 0]
    /\ m = {} /\ routes = {}
    /\ name = NoName
    /\ running = {}

Init ==
    /\ ConfigInit
    /\ RelayInit
    /\ DeviceInit
    /\ main = "load"
    /\ EngineInit

Set(option) == option \in cfg.set

Peers == IF Set("PeersRouteTable") THEN Peer ELSE {}

-----------------------------------------------------------------------------
(* The steps of main.  Goes(a, b) is the way from one to the next. *)

Goes(a, b) == main = a /\ main' = b /\ UNCHANGED <<config, crashes>>

Assign(fs) == field' = [f \in Fields |-> IF f \in fs THEN field[f] + 1 ELSE field[f]]

LoadStep ==
    /\ main = "load"
    /\ Load
    /\ main' = IF load' = "loaded" THEN "relays" ELSE IF load' = "failed" THEN "fatal" ELSE "load"
    /\ UNCHANGED <<relayvars, devvars, engine>>

\* engine.Run: the private key is unmarshalled, and the options for the host are
\* put together.
Relays ==
    /\ Goes("relays", "new")
    /\ IF ~Set("Relays") /\ Set("EnableAutoRelay") THEN Assign({"relayChan"}) ELSE UNCHANGED field
    /\ UNCHANGED <<relayvars, devvars, m, name, routes, running>>

\* libp2p.New: from here on libp2p may call the peer source.
New ==
    /\ Goes("new", "dht")
    /\ Assign({"host"})
    /\ running' = IF ~Set("Relays") /\ Set("EnableAutoRelay") THEN {"peerSource"} ELSE {}
    /\ UNCHANGED <<relayvars, devvars, m, name, routes>>

\* Mutant: the bootstrap nodes are already dialled by engine.Run.
NewDHTJoins ==
    /\ Goes("dht", "createTUN")
    /\ Assign({"dht", "discovery"})
    /\ running' = running \cup {"connectBootstrapsLoop"}
    /\ UNCHANGED <<relayvars, devvars, m, name, routes>>

NewDHT ==
    /\ Goes("dht", "createTUN")
    /\ Assign({"dht", "discovery"})
    /\ UNCHANGED <<relayvars, devvars, m, name, routes, running>>

\* Engine.Run.  A step that is a call to the device.
Calls(a, b, op) ==
    /\ Goes(a, b)
    /\ op
    /\ UNCHANGED <<relayvars, engine>>

CreateTUN ==
    \/ Calls("createTUN", "getName", OpenTUN)
    \/ Calls("getName", "getIndex", getNameFromSys)
    \/ Calls("getIndex", "setMTU", getIFIndex)
    \/ Calls("setMTU", "getMTU", setMTU)

\* e.device is assigned when CreateTUN returns.
CreateTUNReturns ==
    /\ Goes("getMTU", "name")
    /\ getMTUFromSys
    /\ Assign({"device"})
    /\ UNCHANGED <<relayvars, m, name, routes, running>>

GetName ==
    /\ Goes("name", "addAddress")
    /\ Name
    /\ name' = tun'.name
    /\ UNCHANGED <<relayvars, field, m, routes, running>>

BringUp ==
    \/ Calls("addAddress", "up", AddAddress)
    \/ Calls("up", "routes", Up)

\* m.Store and route.Add for the next peer; a route that cannot be added, such as
\* one on an interface that has been renamed, is only reported.
AddRoute ==
    /\ Goes("routes", "routes")
    /\ \E k \in Peers \ m : /\ m' = m \cup {k}
                            /\ routes' \in {routes} \cup (IF name = iface.name THEN {routes \cup {k}} ELSE {})
    /\ UNCHANGED <<relayvars, devvars, field, name, running>>

\* Mutant: a route that could not be added is waited for.
RoutesDoneAll ==
    /\ Goes("routes", "enableDHT")
    /\ routes = Peers
    /\ UNCHANGED <<relayvars, devvars, engine>>

RoutesDone ==
    /\ Goes("routes", "enableDHT")
    /\ m = Peers
    /\ UNCHANGED <<relayvars, devvars, engine>>

\* There are bootstrap nodes, see defaultConfig.  EnableDHT replaces the DHT.
EnableDHT ==
    /\ Goes("enableDHT", "enableMdns")
    /\ Assign({"dht", "discovery"})
    /\ running' = running \cup {"connectBootstrapsLoop"}
    /\ UNCHANGED <<relayvars, devvars, m, name, routes>>

EnableMdns ==
    /\ Goes("enableMdns", "autoRelay")
    /\ IF Set("EnableMDNS")
       THEN Assign({"mdns"}) /\ running' = running \cup {"mdnsLoop"}
       ELSE UNCHANGED <<field, running>>
    /\ UNCHANGED <<relayvars, devvars, m, name, routes>>

AutoRelay ==
    /\ Goes("autoRelay", "handler")
    /\ IF ~Set("Relays") /\ Set("EnableAutoRelay")
       THEN FinderStart /\ running' = running \cup {"autoRelayFinder"}
       ELSE UNCHANGED <<relayvars, running>>
    /\ UNCHANGED <<devvars, field, m, name, routes>>

SetStreamHandler ==
    /\ Goes("handler", "routines")
    /\ running' = running \cup {"VPNHandler"}
    /\ UNCHANGED <<relayvars, devvars, field, m, name, routes>>

\* The three routines are started.  main then receives from errChan, which is nil,
\* and that is where it stays.
Routines ==
    /\ Goes("routines", "serving")
    /\ running' = running \cup {"RoutineTUNReader", "RoutineTUNWriter", "RoutineRouteTableWriter"}
    /\ UNCHANGED <<relayvars, devvars, field, m, name, routes>>

\* The steps that fail if the interface has another name by now.
ByName == main \in {"getIndex", "setMTU", "getMTU", "addAddress", "up"}

\* A step that returns an error.  (Engine.Run cancels e.ctx when it returns, which
\* nobody sees: the goroutines that listen to it are started by later steps.)
StepFails ==
    /\ main \in {"relays", "new", "dht", "createTUN", "getName", "getIndex", "setMTU", "getMTU", "name",
                "addAddress", "up", "enableDHT"}
    /\ \/ crashes < MaxCrashes /\ crashes' = crashes + 1
       \/ ByName /\ ~Found /\ UNCHANGED crashes
    /\ main' = "fatal"
    /\ UNCHANGED <<config, relayvars, devvars, field, m, name, routes, running>>

\* The process is gone, with its goroutines, its device and the device's routes.
Gone ==
    /\ main' = "load"
    /\ field' = [f \in Fields |-> 0]
    /\ m' = {} /\ routes' = {}
    /\ name' = NoName
    /\ tun' = NoTUN /\ iface' = NoIface
    /\ running' = {}
    /\ relayChan' = 0 /\ finder' = NoFinder /\ source' = NoSource
    /\ Exit

\* log.Fatal.
Fatal ==
    /\ main = "fatal"
    /\ Gone
    /\ UNCHANGED <<crashes, torn>>

Killed ==
    /\ LoadCrash
    /\ Gone

Main ==
    \/ LoadStep \/ Relays \/ New \/ NewDHT
    \/ CreateTUN \/ CreateTUNReturns \/ GetName \/ BringUp \/ AddRoute \/ RoutesDone
    \/ EnableDHT \/ EnableMdns \/ AutoRelay \/ SetStreamHandler \/ Routines
    \/ Fatal

-----------------------------------------------------------------------------

\* Steps of Relay, once libp2p knows the source and the finder was started.
RelayStep(step) == step /\ UNCHANGED <<config, crashes, devvars, main, engine>>

\* Counted with the crashes.
Renamed ==
    /\ main # "serving"
    /\ crashes < MaxCrashes
    /\ crashes' = crashes + 1
    /\ Rename
    /\ UNCHANGED <<config, relayvars, main, engine>>

FinderStep == RelayStep(FinderPeer) \/ RelayStep(FinderSleep)

Next ==
    \/ Main \/ StepFails \/ Killed \/ Renamed
    \/ FinderStep
    \/ RelayStep(FinderTick)
    \/ "peerSource" \in running /\ RelayStep(SourceCall)
    \/ RelayStep(SourceRecv) \/ RelayStep(SourceSend) \/ RelayStep(SourceStop)
    \/ RelayStep(SourceCancel) \/ RelayStep(SourceRead)

Spec == Init /\ [][Next]_vars

\* Goroutines that can go on do, and so does main: none of its steps waits for
\* anybody.  libp2p, the ticker and whoever kills the process do as they like.
Fairness ==
    /\ WF_vars(Main \/ StepFails)
    /\ WF_vars(FinderStep)
    /\ WF_vars(RelayStep(Source))

FairSpec == Spec /\ Fairness

-----------------------------------------------------------------------------
(* Properties *)

\* The types; relayChan and the channel of a source hold no more than they have
\* room for, and no field is assigned more than twice.
TypeOK ==
    /\ ConfigTypeOK /\ RelayTypeOK /\ DeviceTypeOK
    /\ main \in {"load", "relays", "new", "dht", "createTUN", "getName", "getIndex", "setMTU",
                 "getMTU", "name", "addAddress", "up", "routes", "enableDHT", "enableMdns",
                  "autoRelay", "handler", "routines", "serving", "fatal"}
    /\ field \in [Fields -> 0..2]
    /\ m \in SUBSET Peer /\ routes \in SUBSET Peer
    /\ name \in Names \cup {NoName}
    /\ running \in SUBSET Goroutine

\* Whoever runs finds what it uses: no goroutine or callback meets a field that
\* is still nil (the finder would drop all candidates, and a source would wait for
\* ever, on a nil relayChan; others would panic), and the packet routines and
\* VPNHandler only start on a device that is up, has its address and the MTU of the
\* configuration, whoever renames it meanwhile, and with a complete route table.
Ready ==
    /\ \A g \in running : \A f \in Reads(g) : field[f] > 0
    /\ running \cap {"VPNHandler", "RoutineTUNReader", "RoutineTUNWriter", "RoutineRouteTableWriter"} # {}
           => m = Peers /\ DeviceReady

\* main assigns the fields without a lock: it never does so while somebody who
\* reads them runs, although it assigns dht and discovery twice.
FieldsSettled ==
    [][main' # "load" => \A g \in running : \A f \in Reads(g) : field'[f] = field[f]]_vars

\* Every start comes to an end: the node serves, or the process exits.
StartEnds == main # "serving" ~> main = "serving" \/ main = "fatal"
=============================================================================
