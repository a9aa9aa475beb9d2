------------------------------- MODULE Device -------------------------------
(***************************************************************************)
(* The TUN device as the start-up uses it (core/device/tun_linux.go): the  *)
(* struct tun, which caches what it knows of the interface, and the        *)
(* interface in the kernel.  All calls but those on the file go by the     *)
(* cached name, and fail when the interface has been renamed meanwhile.    *)
(***************************************************************************)
EXTENDS Naturals

CONSTANTS
    Names,       \* names of the interface
    TUNName,     \* cfg.TUNName
    MTU,         \* cfg.MTU
    DefaultMTU,  \* what the kernel gives to a new interface
    NoName       \* no name

ASSUME DeviceAssumption ==
    /\ TUNName \in Names /\ NoName \notin Names
    /\ MTU \in Nat \ {0} /\ DefaultMTU \in Nat \ {0}

VARIABLES
    tun,    \* the fields of struct tun
    iface   \* the interface in the kernel, which lives as long as the process

devvars == <<tun, iface>>

NoTUN   == [open |-> FALSE, name |-> NoName, mtu |-> 0, state |-> FALSE]
NoIface == [name |-> NoName, mtu |-> 0, addr |-> FALSE, up |-> FALSE]

DeviceInit == tun = NoTUN /\ iface = NoIface

\* The kernel finds the interface under the cached name.
Found == tun.name = iface.name

-----------------------------------------------------------------------------
(* CreateTUN *)

\* The clone device is opened, TUNSETIFF makes the interface, and the file is made
\* non-blocking.
OpenTUN ==
    /\ tun' = [tun EXCEPT !.open = TRUE]
    /\ iface' = [NoIface EXCEPT !.name = TUNName, !.mtu = DefaultMTU]

\* TUNGETIFF, on the file, so that a new name is found.  Its error is not looked
\* at: the name is then empty, and calls that go by it fail.
getNameFromSys ==
    /\ \E n \in {iface.name, NoName} : tun' = [tun EXCEPT !.name = n]
    /\ UNCHANGED iface

getIFIndex == Found /\ UNCHANGED devvars

setMTU ==
    /\ Found
    /\ iface' = [iface EXCEPT !.mtu = MTU]
    /\ UNCHANGED tun

getMTUFromSys ==
    /\ Found
    /\ tun' = [tun EXCEPT !.mtu = iface.mtu]
    /\ UNCHANGED iface

-----------------------------------------------------------------------------
(* The methods Engine.Run calls *)

\* The cached name is out of date from the start (cacheTime is the time of
\* creation), so that the system is asked.
Name == getNameFromSys

\* ip -4 addr add, with the cached name.
AddAddress ==
    /\ Found
    /\ iface' = [iface EXCEPT !.addr = TRUE]
    /\ UNCHANGED tun

\* Mutant: the flag is set before the ioctl, which nobody checks.
changeStateUnchecked(state) ==
    /\ tun' = [tun EXCEPT !.state = state]
    /\ iface' = IF Found THEN [iface EXCEPT !.up = state] ELSE iface

\* SIOCSIFFLAGS with the cached name, unless the flag says it is done.
changeState(state) ==
    IF tun.state = state THEN UNCHANGED devvars
    ELSE /\ Found
         /\ iface' = [iface EXCEPT !.up = state]
         /\ tun' = [tun EXCEPT !.state = state]

Up == changeState(TRUE)

\* Somebody gives the interface another name.
Rename ==
    /\ iface.name # NoName
    /\ \E n \in Names \ {iface.name} : iface' = [iface EXCEPT !.name = n]
    /\ UNCHANGED tun

-----------------------------------------------------------------------------
(* Properties *)

DeviceTypeOK ==
    /\ tun \in [open : BOOLEAN, name : Names \cup {NoName}, mtu : {0, MTU, DefaultMTU}, state : BOOLEAN]
    /\ iface \in [name : Names \cup {NoName}, mtu : {0, MTU, DefaultMTU}, addr : BOOLEAN, up : BOOLEAN]

\* The interface is as the configuration wants it, and tun knows it.
DeviceReady ==
    /\ iface.addr /\ iface.up /\ iface.mtu = MTU
    /\ tun.open /\ tun.state = iface.up /\ tun.mtu = iface.mtu
=============================================================================
