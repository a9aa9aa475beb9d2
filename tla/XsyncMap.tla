------------------------------ MODULE XsyncMap ------------------------------
(***************************************************************************)
(* xsync.Map (pkgs/xsync/map.go), the concurrent map the route table is    *)
(* made of: a read-only map that is read without a lock, a dirty map under *)
(* mu with the keys that are not in it, and entries that are updated by    *)
(* atomic operations and shared by both.                                   *)
(*                                                                         *)
(* One step has one access that another thread can race with: a load of    *)
(* m.read without mu, a store of it, or an operation on an entry's p; the  *)
(* accesses to what mu protects (m.dirty, m.misses, a load of m.read with  *)
(* mu held) are part of the step before or after.  A Load of p and a       *)
(* CompareAndSwap with the loaded value, in a loop until it succeeds, are  *)
(* one access: the last round decides.  A critical section with one access *)
(* is one step that needs mu to be free; the others hold mu from one step  *)
(* to the next.                                                            *)
(***************************************************************************)
EXTENDS Naturals, FiniteSets

CONSTANTS
    Thread,    \* the goroutines that call the map's methods
    Key,
    Val,
    Entry,     \* identities of *entry; one is allocated again once unreachable
    Ops,       \* the methods the threads call
    None,      \* no value, no entry, nobody: the nil of p, and of a lookup
    Expunged,  \* the pointer expunged
    NoMap      \* the nil of m.dirty

Methods == {"Load", "Swap", "LoadOrStore", "LoadAndDelete", "CompareAndSwap",
            "CompareAndDelete", "Range"}

ASSUME MapAssumption ==
    /\ Ops \subseteq Methods
    /\ None \notin Thread \cup Val \cup Entry \cup Methods
    /\ Expunged \notin Val \cup {None}
    /\ NoMap \notin [Key -> Entry \cup {None}]

VARIABLES
    read,     \* m.read's m: key -> entry
    amended,  \* m.read's amended
    dirty,    \* m.dirty
    misses,   \* m.misses
    mu,       \* who holds m.mu between steps
    p,        \* the p of every entry
    thread    \* locals of the method each thread is in

shared == <<read, amended, dirty, misses>>
vars   == <<shared, mu, p, thread>>

Map == [Key -> Entry \cup {None}]

Idle == [pc |-> "idle", op |-> None, key |-> None, val |-> None, old |-> None,
         e |-> None, todo |-> {}, seen |-> {}, res |-> <<>>]

\* The zero Map.
Init ==
    /\ read = [k \in Key |-> None]
    /\ amended = FALSE
    /\ dirty = NoMap
    /\ misses = 0
    /\ mu = None
    /\ p = [e \in Entry |-> None]
    /\ thread = [t \in Thread |-> Idle]

-----------------------------------------------------------------------------
(* Helpers *)

At(t, pc) == thread[t].pc = pc
Op(t)     == thread[t].op
K(t)      == thread[t].key

Goto(t, pc)     == thread' = [thread EXCEPT ![t].pc = pc]
Found(t, e, pc) == thread' = [thread EXCEPT ![t].pc = pc, ![t].e = e]
Ret(t, res)     == thread' = [thread EXCEPT ![t].pc = "ret", ![t].res = res,
                                            ![t].e = None, ![t].todo = {}]

Len(d)        == Cardinality({k \in Key : d[k] # None})
Lookup(d, k)  == IF d = NoMap THEN None ELSE d[k]
Value(x)      == IF x \in {None, Expunged} THEN None ELSE x

\* The result for a key that is not in the map.
NotFound(t) ==
    IF Op(t) \in {"CompareAndSwap", "CompareAndDelete"} THEN <<FALSE>> ELSE <<None>>

\* m.missLocked, with the dirty map d.
MissLocked(d) ==
    IF misses + 1 < Len(d)
    THEN /\ misses' = misses + 1
         /\ dirty' = d
         /\ UNCHANGED <<read, amended>>
    ELSE /\ read' = d
         /\ amended' = FALSE
         /\ dirty' = NoMap
         /\ misses' = 0

\* What the methods of entry do to a p that they find to be x: the new p, and
\* the result.
load(x)              == [p |-> x, res |-> <<Value(x)>>]
delete(x)            == [p |-> IF Value(x) = None THEN x ELSE None, res |-> <<Value(x)>>]
trySwap(x, v)        == [p |-> v, res |-> <<Value(x)>>]
tryLoadOrStore(x, v) == IF x = None THEN [p |-> v, res |-> <<v, FALSE>>]
                                    ELSE [p |-> x, res |-> <<x, TRUE>>]

\* The old value is not looked at.
tryCompareAndSwap(x, old, new) ==
    [p |-> IF Value(x) = None THEN x ELSE new, res |-> <<Value(x) # None>>]

\* The loop at the end of CompareAndDelete, which does not look at it either.
compareAndDelete(x, old) ==
    [p |-> IF Value(x) = None THEN x ELSE None, res |-> <<Value(x) # None>>]

EntryOp(t, x) ==
    LET v == thread[t].val
        o == thread[t].old
    IN
    CASE Op(t) = "Load"             -> load(x)
      [] Op(t) = "LoadAndDelete"    -> delete(x)
      [] Op(t) = "Swap"             -> trySwap(x, v)
      [] Op(t) = "LoadOrStore"      -> tryLoadOrStore(x, v)
      [] Op(t) = "CompareAndSwap"   -> tryCompareAndSwap(x, o, v)
      [] Op(t) = "CompareAndDelete" -> compareAndDelete(x, o)

-----------------------------------------------------------------------------
(* The lock-free path *)

\* The arguments a method has; the others are None.
Args(op) ==
    [k : IF op = "Range" THEN {None} ELSE Key,
     v : IF op \in {"Swap", "LoadOrStore", "CompareAndSwap"} THEN Val ELSE {None},
     o : IF op \in {"CompareAndSwap", "CompareAndDelete"} THEN Val ELSE {None}]

\* A method is called.  Store is Swap, and Delete LoadAndDelete, with the
\* result ignored.
Call(t) ==
    /\ At(t, "idle")
    /\ \E op \in Ops : \E a \in Args(op) :
        thread' = [thread EXCEPT ![t] =
                     [Idle EXCEPT !.pc = "read", !.op = op,
                                  !.key = a.k, !.val = a.v, !.old = a.o]]
    /\ UNCHANGED <<shared, mu, p>>

\* m.loadReadOnly, and the lookup in the map it returns.
ReadMap(t) ==
    /\ At(t, "read")
    /\ Op(t) # "Range"
    /\ IF read[K(t)] # None THEN Found(t, read[K(t)], "entry")
       ELSE IF Op(t) \in {"Swap", "LoadOrStore"} \/ amended THEN Goto(t, "lock")
       ELSE Ret(t, NotFound(t))
    /\ UNCHANGED <<shared, mu, p>>

\* The operation on the entry that was found; one that would store to an
\* expunged entry takes the lock instead.
OnEntry(t) ==
    /\ At(t, "entry")
    /\ LET e == thread[t].e IN
       IF p[e] = Expunged /\ Op(t) \in {"Swap", "LoadOrStore"}
       THEN Found(t, None, "lock") /\ UNCHANGED p
       ELSE /\ p' = [p EXCEPT ![e] = EntryOp(t, p[e]).p]
            /\ Ret(t, EntryOp(t, p[e]).res)
    /\ UNCHANGED <<shared, mu>>

-----------------------------------------------------------------------------
(* The critical sections *)

\* The entry of key k, and whether it is worth a miss that it was looked up.
EntryLocked(k)  == IF read[k] = None /\ amended THEN Lookup(dirty, k) ELSE read[k]
IsMiss(k)       == read[k] = None /\ amended
Proceed(t, e)   == IF e # None THEN Found(t, e, "entry") ELSE Ret(t, NotFound(t))

\* Mutant: the read map is not looked at again after Lock.
LookupLockedStale(t) ==
    /\ At(t, "lock")
    /\ Op(t) \in {"Load", "CompareAndDelete"}
    /\ mu = None
    /\ Proceed(t, Lookup(dirty, K(t)))
    /\ UNCHANGED <<shared, mu, p>>

\* Load and CompareAndDelete only look the entry up under mu; the operation on it
\* follows after Unlock.
LookupLocked(t) ==
    /\ At(t, "lock")
    /\ Op(t) \in {"Load", "CompareAndDelete"}
    /\ mu = None
    /\ IF IsMiss(K(t)) THEN MissLocked(dirty) ELSE UNCHANGED shared
    /\ Proceed(t, EntryLocked(K(t)))
    /\ UNCHANGED <<mu, p>>

\* LoadAndDelete takes it out of the dirty map, too.
DeleteLocked(t) ==
    /\ At(t, "lock")
    /\ Op(t) = "LoadAndDelete"
    /\ mu = None
    /\ IF IsMiss(K(t)) THEN MissLocked([dirty EXCEPT ![K(t)] = None]) ELSE UNCHANGED shared
    /\ Proceed(t, EntryLocked(K(t)))
    /\ UNCHANGED <<mu, p>>

\* Swap, LoadOrStore and CompareAndSwap: Lock, and the two lookups.
Lock(t) ==
    /\ At(t, "lock")
    /\ Op(t) \in {"Swap", "LoadOrStore", "CompareAndSwap"}
    /\ mu = None
    /\ LET k == K(t) IN
       \/ /\ read[k] # None
          /\ Found(t, read[k], IF Op(t) = "CompareAndSwap" THEN "locked" ELSE "unexpunge")
          /\ mu' = t
          /\ UNCHANGED dirty
       \/ /\ read[k] = None /\ Lookup(dirty, k) # None
          /\ Found(t, dirty[k], "locked")
          /\ mu' = t
          /\ UNCHANGED dirty
       \/ /\ read[k] = None /\ Lookup(dirty, k) = None /\ Op(t) = "CompareAndSwap"
          /\ Ret(t, NotFound(t))
          /\ UNCHANGED <<mu, dirty>>
       \/ /\ read[k] = None /\ Lookup(dirty, k) = None /\ Op(t) # "CompareAndSwap"
          /\ mu' = t
          /\ IF ~amended /\ dirty = NoMap
             THEN /\ dirty' = [j \in Key |-> None]
                  /\ thread' = [thread EXCEPT ![t].pc = "dirty",
                                              ![t].todo = {j \in Key : read[j] # None}]
             ELSE Goto(t, "insert") /\ UNCHANGED dirty
    /\ UNCHANGED <<read, amended, misses, p>>

\* Mutant: the entry is not put back into the dirty map.
UnexpungeForgets(t) ==
    /\ At(t, "unexpunge")
    /\ p' = [p EXCEPT ![thread[t].e] = IF @ = Expunged THEN None ELSE @]
    /\ Goto(t, "locked")
    /\ UNCHANGED <<shared, mu>>

\* e.unexpungeLocked, and the entry's return to the dirty map.
UnexpungeLocked(t) ==
    /\ At(t, "unexpunge")
    /\ LET e == thread[t].e IN
       IF p[e] = Expunged
       THEN /\ p' = [p EXCEPT ![e] = None]
            /\ dirty' = [dirty EXCEPT ![K(t)] = e]
       ELSE UNCHANGED <<p, dirty>>
    /\ Goto(t, "locked")
    /\ UNCHANGED <<read, amended, misses, mu>>

\* The operation on the entry with mu held.  LoadOrStore and CompareAndSwap
\* record a miss if they found it in the dirty map.
OnEntryLocked(t) ==
    /\ At(t, "locked")
    /\ LET e == thread[t].e
           r == EntryOp(t, p[e])
       IN
       /\ p' = [p EXCEPT ![e] = r.p]
       /\ IF read[K(t)] = None /\ Op(t) # "Swap"
          THEN /\ thread' = [thread EXCEPT ![t].pc = "miss", ![t].res = r.res, ![t].e = None]
               /\ UNCHANGED mu
          ELSE Ret(t, r.res) /\ mu' = None
    /\ UNCHANGED shared

Miss(t) ==
    /\ At(t, "miss")
    /\ MissLocked(dirty)
    /\ Goto(t, "ret")
    /\ mu' = None
    /\ UNCHANGED p

\* Mutant: a deleted entry is left out of the dirty map without being expunged.
DirtyLockedSkips(t) ==
    /\ At(t, "dirty")
    /\ \E k \in thread[t].todo :
        /\ dirty' = [dirty EXCEPT ![k] = IF p[read[k]] = None THEN None ELSE read[k]]
        /\ thread' = [thread EXCEPT ![t].todo = @ \ {k}]
    /\ UNCHANGED <<read, amended, misses, mu, p>>

\* Mutant: expunged entries are copied, too.
DirtyLockedCopies(t) ==
    /\ At(t, "dirty")
    /\ \E k \in thread[t].todo :
        /\ p' = [p EXCEPT ![read[k]] = IF @ = None THEN Expunged ELSE @]
        /\ dirty' = [dirty EXCEPT ![k] = read[k]]
        /\ thread' = [thread EXCEPT ![t].todo = @ \ {k}]
    /\ UNCHANGED <<read, amended, misses, mu>>

\* One iteration of the loop of m.dirtyLocked, with e.tryExpungeLocked.
DirtyLocked(t) ==
    /\ At(t, "dirty")
    /\ \E k \in thread[t].todo :
        /\ IF p[read[k]] \in {None, Expunged}
           THEN p' = [p EXCEPT ![read[k]] = Expunged] /\ UNCHANGED dirty
           ELSE dirty' = [dirty EXCEPT ![k] = read[k]] /\ UNCHANGED p
        /\ thread' = [thread EXCEPT ![t].todo = @ \ {k}]
    /\ UNCHANGED <<read, amended, misses, mu>>

\* No thread or map refers to entry e.
Unreachable(e) ==
    /\ \A k \in Key : read[k] # e /\ Lookup(dirty, k) # e
    /\ \A t \in Thread : thread[t].e # e
    /\ \A t \in Thread : Op(t) = "Range" => \A x \in thread[t].todo : x[2] # e

\* Mutant: mu is not released.
InsertKeepsLock(t) ==
    /\ At(t, "insert") \/ (At(t, "dirty") /\ thread[t].todo = {})
    /\ amended' = TRUE
    /\ \E e \in Entry :
        /\ Unreachable(e)
        /\ p' = [p EXCEPT ![e] = thread[t].val]
        /\ dirty' = [dirty EXCEPT ![K(t)] = e]
    /\ Ret(t, IF Op(t) = "LoadOrStore" THEN <<thread[t].val, FALSE>> ELSE <<None>>)
    /\ UNCHANGED <<read, misses, mu>>

\* m.read.Store, and the new entry in the dirty map.
Insert(t) ==
    /\ At(t, "insert") \/ (At(t, "dirty") /\ thread[t].todo = {})
    /\ amended' = TRUE
    /\ \E e \in Entry :
        /\ Unreachable(e)
        /\ p' = [p EXCEPT ![e] = thread[t].val]
        /\ dirty' = [dirty EXCEPT ![K(t)] = e]
    /\ Ret(t, IF Op(t) = "LoadOrStore" THEN <<thread[t].val, FALSE>> ELSE <<None>>)
    /\ mu' = None
    /\ UNCHANGED <<read, misses>>

-----------------------------------------------------------------------------
(* Range *)

Iterate(t, m) ==
    thread' = [thread EXCEPT ![t].pc = "iter", ![t].todo = {<<k, m[k]>> : k \in {j \in Key : m[j] # None}}]

RangeRead(t) ==
    /\ At(t, "read")
    /\ Op(t) = "Range"
    /\ IF amended THEN Goto(t, "lock") ELSE Iterate(t, read)
    /\ UNCHANGED <<shared, mu, p>>

\* Mutant: the keys that are only in the dirty map are not iterated over.
RangeReadOnly(t) ==
    /\ At(t, "lock")
    /\ Op(t) = "Range"
    /\ mu = None
    /\ Iterate(t, read)
    /\ UNCHANGED <<shared, mu, p>>

\* The dirty map becomes the read map, unless that has happened meanwhile.
RangePromote(t) ==
    /\ At(t, "lock")
    /\ Op(t) = "Range"
    /\ mu = None
    /\ IF amended
       THEN /\ read' = dirty
            /\ amended' = FALSE
            /\ dirty' = NoMap
            /\ misses' = 0
       ELSE UNCHANGED shared
    /\ Iterate(t, read')
    /\ UNCHANGED <<mu, p>>

\* e.load for the next key, and the callback, which may stop the iteration.
RangeVisit(t) ==
    /\ At(t, "iter")
    /\ \E x \in thread[t].todo :
        LET v == Value(p[x[2]]) IN
        \/ thread' = [thread EXCEPT ![t].todo = @ \ {x},
                                    ![t].seen = IF v = None THEN @ ELSE @ \cup {<<x[1], v>>}]
        \/ v # None /\ Ret(t, <<FALSE>>)
    /\ UNCHANGED <<shared, mu, p>>

RangeEnd(t) ==
    /\ At(t, "iter")
    /\ thread[t].todo = {}
    /\ Ret(t, <<TRUE>>)
    /\ UNCHANGED <<shared, mu, p>>

-----------------------------------------------------------------------------

Return(t) ==
    /\ At(t, "ret")
    /\ thread' = [thread EXCEPT ![t] = Idle]
    /\ UNCHANGED <<shared, mu, p>>

Step(t) ==
    \/ ReadMap(t) \/ OnEntry(t)
    \/ LookupLocked(t) \/ DeleteLocked(t) \/ Lock(t)
    \/ UnexpungeLocked(t) \/ OnEntryLocked(t) \/ Miss(t)
    \/ DirtyLocked(t) \/ Insert(t)
    \/ RangeRead(t) \/ RangePromote(t) \/ RangeVisit(t) \/ RangeEnd(t)

Next == \E t \in Thread : Call(t) \/ Step(t) \/ Return(t)

Spec == Init /\ [][Next]_vars

-----------------------------------------------------------------------------
(* Properties *)

\* The types; mu is held exactly by a thread in a critical section, and a thread
\* has an entry exactly where it is going to use one.
TypeOK ==
    /\ read \in Map
    /\ amended \in BOOLEAN
    /\ dirty \in Map \cup {NoMap}
    /\ misses \in Nat
    /\ mu \in Thread \cup {None}
    /\ p \in [Entry -> Val \cup {None, Expunged}]
    /\ \A t \in Thread :
        /\ thread[t].pc \in {"idle", "read", "entry", "lock", "unexpunge", "locked",
                             "miss", "dirty", "insert", "iter", "ret"}
        /\ (mu = t) <=> thread[t].pc \in {"unexpunge", "locked", "miss", "dirty", "insert"}
        /\ thread[t].pc \in {"entry", "unexpunge", "locked"} <=> thread[t].e \in Entry

\* What the comments on entry and readOnly say while nobody holds mu (map.go:75,
\* 85-97): amended is set exactly while there is a dirty map, so that the lock-free
\* path does not report a key as missing that is only in there; an expunged entry
\* is missing from a dirty map that exists; any other entry of the read map,
\* deleted or not, is in the dirty map if there is one.
EntryStates ==
    mu = None =>
        /\ amended = (dirty # NoMap)
        /\ \A k \in Key : read[k] # None =>
            IF p[read[k]] = Expunged
            THEN dirty # NoMap /\ dirty[k] = None
            ELSE dirty # NoMap => dirty[k] = read[k]

\* "which implies that there is a non-nil dirty map and this entry is not in it"
\* (map.go:355): the thread that unexpunges an entry has a dirty map to put it
\* in.  An assignment to a nil map would panic with mu held.
UnexpungeHasDirty ==
    \A t \in Thread :
        At(t, "unexpunge") /\ p[thread[t].e] = Expunged
            => dirty # NoMap /\ dirty[K(t)] = None

\* A value that is stored lock-free stays reachable: the entry a store is about
\* to operate on is the one of the map, or it is expunged and the store will
\* notice.  An entry that left both maps with a value in it loses the value.
StoreReaches ==
    \A t \in Thread :
        At(t, "entry") /\ Op(t) \in {"Swap", "LoadOrStore"} =>
            \/ p[thread[t].e] = Expunged
            \/ read[K(t)] = thread[t].e

=============================================================================
