------------------------------- MODULE Config -------------------------------
(***************************************************************************)
(* The configuration file (core/config): Load reads it, fills in defaults, *)
(* makes a private key when there is none, and saves the file in place at  *)
(* every start.  The process may die between any two steps.                *)
(*                                                                         *)
(* A configuration is its private key, the peer ID (as the key it was      *)
(* derived from) and the set of the other fields that have a value: those  *)
(* that defaultConfig sees to, and options that it leaves as they are.     *)
(***************************************************************************)
EXTENDS Naturals, FiniteSets

CONSTANTS
    Key,         \* private keys
    Field,       \* the other fields defaultConfig looks at
    Option,      \* fields it does not look at
    MaxCrashes,  \* bound on the number of crashes and failed saves
    None         \* no value

\* PrivateKey.MarshalText and UnmarshalText: the hexadecimal text of a key.
MarshalText(k)   == <<"hex", k>>
UnmarshalText(t) == t[2]

ASSUME ConfigAssumption ==
    /\ None \notin Key /\ \A k \in Key : MarshalText(k) # None
    /\ Field \cap Option = {}
    /\ MaxCrashes \in Nat
    /\ Cardinality(Key) > MaxCrashes + 1

VARIABLES
    file,      \* the file: its state, and its text when it is whole
    cfg,       \* the configuration in memory
    load,      \* where Load is
    crashes,   \* number of crashes so far
    used,      \* history: the keys that were ever in use
    last,      \* history: the configuration the node was last started with
    torn       \* history: whether a save was interrupted since then

config == <<file, cfg, load, used, last, torn>>

NoConfig == [key |-> None, id |-> None, set |-> {}]

\* The text of configuration c, and the configuration Scan makes of a text.
ToJson(c)  == [c EXCEPT !.key = IF @ = None THEN None ELSE MarshalText(@)]
Scan(text) == [text EXCEPT !.key = IF @ = None THEN None ELSE UnmarshalText(@)]

Whole(text) == [st |-> "whole", text |-> text]
Torn(st)    == [st |-> st, text |-> NoConfig]

\* There is no file; or one from an earlier start; or one written by hand, perhaps
\* with a key but without the peer ID.
ConfigInit ==
    /\ \/ file = Torn("absent")
       \/ \E s \in SUBSET Option : file = Whole([key |-> None, id |-> None, set |-> s])
       \/ \E k \in Key, s \in SUBSET Option :
             \/ file = Whole([key |-> MarshalText(k), id |-> None, set |-> s])
             \/ file = Whole([key |-> MarshalText(k), id |-> k, set |-> Field \cup s])
    /\ cfg = NoConfig
    /\ load = "down"
    /\ crashes = 0
    /\ used = IF file.text.key = None THEN {} ELSE {UnmarshalText(file.text.key)}
    /\ last = NoConfig
    /\ torn = FALSE

-----------------------------------------------------------------------------
(* Load *)

LoadBegin ==
    /\ load = "down"
    /\ load' = "read"
    /\ UNCHANGED <<file, cfg, crashes, used, last, torn>>

\* gjson.Load and Scan, if the file exists.  A part of a file does not parse.  Of
\* an empty one the library makes an empty configuration, or an error.
Read ==
    /\ load = "read"
    /\ \/ /\ file.st \in {"absent", "empty"}
          /\ cfg' = NoConfig /\ load' = "defaults"
       \/ /\ file.st = "whole"
          /\ cfg' = Scan(file.text) /\ load' = "defaults"
       \/ /\ file.st \in {"empty", "partial"}
          /\ cfg' = NoConfig /\ load' = "failed"
    /\ UNCHANGED <<file, crashes, used, last, torn>>

\* Mutant: a key is made at every start.
DefaultConfigNewKey ==
    /\ load = "defaults"
    /\ \E k \in Key \ used : /\ cfg' = [key |-> k, id |-> k, set |-> cfg.set \cup Field]
                             /\ used' = used \cup {k}
    /\ load' = "open"
    /\ UNCHANGED <<file, crashes, last, torn>>

DefaultConfig ==
    /\ load = "defaults"
    /\ IF cfg.key = None
       THEN \E k \in Key \ used : /\ cfg' = [key |-> k, id |-> k, set |-> cfg.set \cup Field]
                                  /\ used' = used \cup {k}
       ELSE cfg' = [cfg EXCEPT !.set = @ \cup Field] /\ UNCHANGED used
    /\ load' = "open"
    /\ UNCHANGED <<file, crashes, last, torn>>

\* Mutant: a file that exists is left alone.
SaveOpenNew ==
    /\ load = "open"
    /\ IF file.st = "absent" THEN file' = Torn("empty") /\ load' = "write"
                             ELSE load' = "loaded" /\ UNCHANGED file
    /\ last' = IF load' = "loaded" THEN cfg ELSE last
    /\ UNCHANGED <<cfg, crashes, used, torn>>

\* Save: PutBytes truncates the file and writes to it, in one go or in parts.
SaveOpen ==
    /\ load = "open"
    /\ file' = Torn("empty")
    /\ load' = "write"
    /\ UNCHANGED <<cfg, crashes, used, last, torn>>

SaveWrite ==
    /\ load = "write"
    /\ \/ /\ file.st = "empty"
          /\ file' = Torn("partial")
          /\ UNCHANGED <<load, last, torn>>
       \/ /\ file' = Whole(ToJson(cfg))
          /\ load' = "loaded"
          /\ last' = cfg
          /\ torn' = FALSE
    /\ UNCHANGED <<cfg, crashes, used>>

\* The file cannot be opened or written: Load fails.
SaveFail ==
    /\ load \in {"open", "write"}
    /\ crashes < MaxCrashes
    /\ crashes' = crashes + 1
    /\ load' = "failed"
    /\ torn' = (torn \/ load = "write")
    /\ UNCHANGED <<file, cfg, used, last>>

\* The process ends, by itself or not, and can be started again.
Exit ==
    /\ load' = "down"
    /\ cfg' = NoConfig
    /\ UNCHANGED <<file, used, last>>

LoadCrash ==
    /\ load # "down"
    /\ crashes < MaxCrashes
    /\ crashes' = crashes + 1
    /\ torn' = (torn \/ load = "write")
    /\ Exit

Load == LoadBegin \/ Read \/ DefaultConfig \/ SaveOpen \/ SaveWrite \/ SaveFail

-----------------------------------------------------------------------------
(* Properties *)

Configs == [key : Key \cup {None}, id : Key \cup {None}, set : SUBSET (Field \cup Option)]

ConfigTypeOK ==
    /\ file.st \in {"absent", "empty", "partial", "whole"}
    /\ cfg \in Configs /\ last \in Configs
    /\ load \in {"down", "read", "defaults", "open", "write", "loaded", "failed"}
    /\ crashes \in 0..MaxCrashes
    /\ used \in SUBSET Key
    /\ torn \in BOOLEAN

\* A node that is started can be started again as the same node: Load gives back
\* a configuration only when the file says the same, with a value for every field
\* that needs one, and a peer ID that is its key's if it has one.
Durable ==
    load = "loaded" =>
        /\ file.st = "whole" /\ Scan(file.text) = cfg
        /\ cfg.key \in Key /\ cfg.id \in {cfg.key, None} /\ Field \subseteq cfg.set

\* The node keeps its identity and its settings over restarts and crashes at any
\* point.  They only change if it crashed or failed between the truncation of the
\* file and the end of the write, because Save overwrites the file in place.
IdentityKept == [][last' # last => last = NoConfig \/ torn]_<<config, crashes>>
=============================================================================
