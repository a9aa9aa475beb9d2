---------------------------- MODULE XsyncProofs ----------------------------
(***************************************************************************)
(* What the comments in pkgs/xsync/map.go say of entries and of the two    *)
(* maps, for any number of goroutines, keys, values and entries.           *)
(***************************************************************************)
EXTENDS XsyncMap, TLAPS

-----------------------------------------------------------------------------
(* The inductive invariant *)

Critical == {"unexpunge", "locked", "miss", "dirty", "insert"}
WithEntry == {"entry", "unexpunge", "locked"}

\* The types of the locals.
Result  == Val \cup {None, Expunged} \cup BOOLEAN
Results == {<<>>} \cup {<<x>> : x \in Result} \cup (Result \X Result)

Label == {"idle", "read", "entry", "lock", "iter", "ret"} \cup Critical

Local ==
    [pc   : Label,
     op   : Methods \cup {None},
     key  : Key \cup {None},
     val  : Val \cup {None},
     old  : Val \cup {None},
     e    : Entry \cup {None},
     todo : SUBSET (Key \cup (Key \X Entry)),
     seen : SUBSET (Key \X Val),
     res  : Results]

\* The part of TypeOK without the threads.
SharedType ==
    /\ read \in Map /\ amended \in BOOLEAN /\ dirty \in Map \cup {NoMap} /\ misses \in Nat
    /\ mu \in Thread \cup {None}
    /\ p \in [Entry -> Val \cup {None, Expunged}]

ThreadType == thread \in [Thread -> Local]

\* Which methods get where, with which arguments, and who has an entry.
OpOK(l) ==
    /\ l.pc \in WithEntry <=> l.e # None
    /\ l.pc # "idle" => l.op \in Methods
    /\ l.pc # "idle" /\ l.op # "Range" => l.key \in Key
    /\ l.op \in {"Swap", "LoadOrStore", "CompareAndSwap"} => l.val \in Val
    /\ l.pc \in {"entry"} \cup Critical => l.op # "Range"
    /\ l.pc \in {"unexpunge", "dirty", "insert"} => l.op \in {"Swap", "LoadOrStore"}
    /\ l.pc \in {"locked", "miss"} => l.op \in {"Swap", "LoadOrStore", "CompareAndSwap"}
    /\ l.pc = "iter" => l.op = "Range" /\ l.todo \subseteq Key \X Entry

OpInv == \A t \in Thread : ((mu = t) <=> thread[t].pc \in Critical) /\ OpOK(thread[t])

\* An entry is the entry of one key, in both maps ...
OneKey ==
    /\ \A j, k \in Key : read[j] # None /\ read[j] = read[k] => j = k
    /\ \A j, k \in Key :
          Lookup(dirty, j) # None /\ Lookup(dirty, j) \in {Lookup(dirty, k), read[k]} => j = k

\* ... and for the threads that have it.
MyKey ==
    \A t \in Thread, k \in Key :
        thread[t].e # None /\ thread[t].e \in {read[k], Lookup(dirty, k)} => k = thread[t].key

\* What EntryStates says of key k.
EntryState(k) ==
    read[k] # None =>
        IF p[read[k]] = Expunged
        THEN dirty # NoMap /\ dirty[k] = None
        ELSE dirty # NoMap => dirty[k] = read[k]

\* The keys that dirtyLocked has still to copy.
ToCopy(k) == \E t \in Thread : At(t, "dirty") /\ k \in thread[t].todo

\* EntryStates, with mu held or not.
MapInv ==
    /\ amended = (dirty # NoMap) \/ \E t \in Thread : At(t, "dirty")
    /\ \A k \in Key : EntryState(k) \/ ToCopy(k)
    /\ \A k \in Key : Lookup(dirty, k) # None => p[Lookup(dirty, k)] # Expunged

\* What the thread that holds mu has found.
Holds(t) ==
    /\ At(t, "unexpunge") => thread[t].e = read[K(t)]
    /\ At(t, "locked") =>
        /\ thread[t].e = IF read[K(t)] # None THEN read[K(t)] ELSE Lookup(dirty, K(t))
        /\ Op(t) # "CompareAndSwap" => p[thread[t].e] # Expunged
    /\ At(t, "miss") => dirty # NoMap
    /\ thread[t].pc \in {"insert", "dirty"} =>
        dirty # NoMap /\ read[K(t)] = None /\ dirty[K(t)] = None
    /\ At(t, "dirty") =>
        /\ ~amended
        /\ \A k \in thread[t].todo :
            k \in Key /\ read[k] # None /\ p[read[k]] # Expunged /\ dirty[k] = None

HeldInv == \A t \in Thread : Holds(t)

\* A method that stores has found its entry in the read map, where it stays unless
\* it is expunged.
Stores == {"Swap", "LoadOrStore", "CompareAndSwap"}

Reaches ==
    \A t \in Thread :
        At(t, "entry") /\ Op(t) \in Stores =>
            \/ p[thread[t].e] = Expunged
            \/ read[K(t)] = thread[t].e

XInv == SharedType /\ ThreadType /\ OpInv /\ OneKey /\ MyKey /\ MapInv /\ HeldInv /\ Reaches

-----------------------------------------------------------------------------
(* One thread at a time *)

\* Only the thread that holds mu is in a critical section.
LEMMA Alone ==
    ASSUME XInv, NEW t \in Thread, mu \in {None, t}
    PROVE  \A u \in Thread \ {t} : thread[u].pc \notin Critical
  BY MapAssumption DEF XInv, OpInv

\* The locals after a step of thread t.
LEMMA Others ==
    ASSUME XInv, NEW t \in Thread, NEW l \in Local, thread' = [thread EXCEPT ![t] = l]
    PROVE  /\ ThreadType' /\ thread'[t] = l
           /\ \A u \in Thread \ {t} : thread'[u] = thread[u]
           /\ \A u \in Thread : thread[u] \in Local
  BY DEF XInv, ThreadType

LEMMA OpKeeps ==
    ASSUME XInv, NEW t \in Thread, NEW l \in Local, thread' = [thread EXCEPT ![t] = l], OpOK(l),
           \/ mu \in {None, t} /\ mu' = (IF l.pc \in Critical THEN t ELSE None)
           \/ mu' = mu /\ mu # t /\ l.pc \notin Critical
    PROVE  OpInv'
<1>1. thread'[t] = l /\ \A u \in Thread \ {t} : thread'[u] = thread[u]
  BY Others
<1>2. ASSUME NEW u \in Thread
      PROVE  (mu' = u <=> thread'[u].pc \in Critical) /\ OpOK(thread'[u])
  <2>1. CASE u = t
    BY <1>1, <2>1, MapAssumption DEF XInv, OpInv
  <2>2. CASE u # t
    BY <1>1, <2>2, MapAssumption DEF XInv, OpInv
  <2> QED BY <2>1, <2>2
<1> QED BY <1>2 DEF OpInv

\* Steps outside of the critical sections that leave the maps alone, and of the
\* entries which of them are expunged.
LEMMA Quiet ==
    ASSUME XInv, NEW t \in Thread, NEW l \in Local, thread' = [thread EXCEPT ![t] = l],
           UNCHANGED <<shared, mu>>,
           p' \in [Entry -> Val \cup {None, Expunged}],
           \A x \in Entry : p'[x] = Expunged <=> p[x] = Expunged,
           thread[t].pc \notin Critical, l.pc \notin Critical, OpOK(l),
           l.e # None => l.key \in Key /\ l.e = read[l.key]
    PROVE  XInv'
<1>1. /\ ThreadType' /\ thread'[t] = l
      /\ \A u \in Thread \ {t} : thread'[u] = thread[u]
  BY Others
<1>2. OpInv'
  <2>1. mu # t
    BY DEF XInv, OpInv
  <2> QED BY <2>1, OpKeeps
<1>3. UNCHANGED <<read, amended, dirty, misses, mu>> /\ SharedType'
  BY DEF shared, XInv, SharedType
<1>4. OneKey'
  BY <1>3 DEF XInv, OneKey, Lookup
<1>5. MyKey'
  <2>1. \A k \in Key : l.e # None /\ l.e \in {read[k], Lookup(dirty, k)} => k = l.key
    BY DEF XInv, OneKey
  <2> QED BY <1>1, <1>3, <2>1 DEF XInv, MyKey, Lookup
<1>6. \A k \in Key : /\ read[k] # None => read[k] \in Entry
                     /\ Lookup(dirty, k) # None => Lookup(dirty, k) \in Entry
  BY DEF XInv, SharedType, Map, Lookup
<1>7. \A u \in Thread : thread[u].pc \in Critical => thread'[u] = thread[u]
  BY <1>1
<1>8. \A u \in Thread : thread'[u].pc \in Critical => thread'[u] = thread[u]
  BY <1>1
<1>9. MapInv'
  <2>1. \A u \in Thread : At(u, "dirty") <=> At(u, "dirty")'
    BY <1>7, <1>8 DEF At, Critical
  <2>2. \A k \in Key : ToCopy(k) => ToCopy(k)'
    BY <1>7 DEF ToCopy, At, Critical
  <2>3. ASSUME NEW k \in Key, EntryState(k) PROVE EntryState(k)'
    <3>1. read'[k] = read[k] /\ dirty' = dirty
      BY <1>3
    <3>2. read[k] # None => (p'[read[k]] = Expunged <=> p[read[k]] = Expunged)
      BY <1>6
    <3> QED BY <2>3, <3>1, <3>2 DEF EntryState
  <2>4. \A k \in Key : Lookup(dirty, k)' = Lookup(dirty, k)
    BY <1>3 DEF Lookup
  <2>5. (amended = (dirty # NoMap) \/ \E u \in Thread : At(u, "dirty"))'
    BY <1>3, <2>1 DEF XInv, MapInv
  <2>6. \A k \in Key : EntryState(k)' \/ ToCopy(k)'
    BY <2>2, <2>3 DEF XInv, MapInv
  <2>7. \A k \in Key : Lookup(dirty, k)' # None => p'[Lookup(dirty, k)'] # Expunged
    BY <1>6, <2>4 DEF XInv, MapInv
  <2> QED BY <2>5, <2>6, <2>7 DEF MapInv
<1>10. HeldInv'
  <2> SUFFICES ASSUME NEW u \in Thread, thread'[u].pc \in Critical PROVE Holds(u)'
    BY DEF HeldInv, Holds, At, Critical
  <2>1. thread'[u] = thread[u] /\ Holds(u) /\ OpOK(thread[u])
    BY <1>8 DEF XInv, HeldInv, OpInv
  <2>2. thread[u].e # None => thread[u].e \in Entry
    BY DEF XInv, ThreadType, Local
  <2>3. thread[u].pc = "locked" => thread[u].e \in Entry
    BY <2>1, <2>2 DEF OpOK, WithEntry
  <2>4. At(u, "unexpunge")' => thread'[u].e = read'[K(u)']
    BY <1>3, <2>1 DEF Holds, At, K
  <2>5. At(u, "locked")' =>
            /\ thread'[u].e = IF read'[K(u)'] # None THEN read'[K(u)'] ELSE Lookup(dirty, K(u))'
            /\ Op(u)' # "CompareAndSwap" => p'[thread'[u].e] # Expunged
    BY <1>3, <2>1, <2>3 DEF Holds, At, K, Op, Lookup
  <2>6. /\ At(u, "miss")' => dirty' # NoMap
        /\ thread'[u].pc \in {"insert", "dirty"} =>
             dirty' # NoMap /\ read'[K(u)'] = None /\ dirty'[K(u)'] = None
    BY <1>3, <2>1 DEF Holds, At, K
  <2>7. At(u, "dirty")' =>
            /\ ~amended'
            /\ \A k \in thread'[u].todo :
                k \in Key /\ read'[k] # None /\ p'[read'[k]] # Expunged /\ dirty'[k] = None
    BY <1>3, <1>6, <2>1 DEF Holds, At
  <2> QED BY <2>4, <2>5, <2>6, <2>7 DEF Holds
<1>11. Reaches'
  <2> SUFFICES ASSUME NEW u \in Thread, At(u, "entry")', Op(u)' \in Stores
               PROVE p'[thread'[u].e] = Expunged \/ read'[K(u)'] = thread'[u].e
    BY DEF Reaches
  <2>1. CASE u = t
    BY <1>1, <1>3, <2>1 DEF At, K, OpOK, WithEntry
  <2>2. CASE u # t
    <3>1. thread'[u] = thread[u] /\ thread[u].e \in Entry
      BY <1>1, <2>2 DEF At, XInv, OpInv, OpOK, WithEntry, ThreadType, Local
    <3> QED BY <1>3, <3>1 DEF XInv, Reaches, At, Op, K
  <2> QED BY <2>1, <2>2
<1> QED BY <1>1, <1>2, <1>3, <1>4, <1>5, <1>9, <1>10, <1>11 DEF XInv

-----------------------------------------------------------------------------
(* Steps outside of the critical sections *)

\* Thread t has gone on with locals l, its arguments are what they were.
Moves(t, l) ==
    /\ l \in Local /\ thread' = [thread EXCEPT ![t] = l]
    /\ l.op = thread[t].op /\ l.key = thread[t].key /\ l.val = thread[t].val

LEMMA Goes ==
    ASSUME XInv, NEW t \in Thread
    PROVE  /\ thread[t] \in Local /\ OpOK(thread[t])
           /\ \A s \in Label : Goto(t, s) => \E l : Moves(t, l) /\ l.pc = s /\ l.e = thread[t].e
           /\ \A s \in Label, e \in Entry \cup {None} :
                 Found(t, e, s) => \E l : Moves(t, l) /\ l.pc = s /\ l.e = e
           /\ \A x \in Results : Ret(t, x) => \E l : Moves(t, l) /\ l.pc = "ret" /\ l.e = None
           /\ \A m \in Map :
                 Iterate(t, m) => \E l : /\ Moves(t, l) /\ l.pc = "iter" /\ l.e = thread[t].e
                                         /\ l.todo \subseteq Key \X Entry
<1>1. thread \in [Thread -> Local] /\ thread[t] \in Local /\ OpOK(thread[t])
  BY DEF XInv, ThreadType, OpInv
<1>2. ASSUME NEW s \in Label, Goto(t, s)
      PROVE  \E l : Moves(t, l) /\ l.pc = s /\ l.e = thread[t].e
  <2> DEFINE l == [thread[t] EXCEPT !.pc = s]
  <2>1. thread' = [thread EXCEPT ![t] = l]
    BY <1>1, <1>2 DEF Goto
  <2>2. l \in Local /\ l.op = thread[t].op /\ l.key = thread[t].key /\ l.val = thread[t].val
        /\ l.pc = s /\ l.e = thread[t].e
    BY <1>1 DEF Local
  <2> HIDE DEF l
  <2> QED BY <2>1, <2>2 DEF Moves
<1>3. ASSUME NEW s \in Label, NEW e \in Entry \cup {None}, Found(t, e, s)
      PROVE  \E l : Moves(t, l) /\ l.pc = s /\ l.e = e
  <2> DEFINE l == [thread[t] EXCEPT !.pc = s, !.e = e]
  <2>1. thread' = [thread EXCEPT ![t] = l]
    BY <1>1, <1>3 DEF Found
  <2>2. l \in Local /\ l.op = thread[t].op /\ l.key = thread[t].key /\ l.val = thread[t].val
        /\ l.pc = s /\ l.e = e
    BY <1>1 DEF Local
  <2> HIDE DEF l
  <2> QED BY <2>1, <2>2 DEF Moves
<1>4. ASSUME NEW x \in Results, Ret(t, x)
      PROVE  \E l : Moves(t, l) /\ l.pc = "ret" /\ l.e = None
  <2> DEFINE l == [thread[t] EXCEPT !.pc = "ret", !.res = x, !.e = None, !.todo = {}]
  <2>1. thread' = [thread EXCEPT ![t] = l]
    BY <1>1, <1>4 DEF Ret
  <2>2. l \in Local /\ l.op = thread[t].op /\ l.key = thread[t].key /\ l.val = thread[t].val
        /\ l.pc = "ret" /\ l.e = None
    BY <1>1 DEF Local, Label
  <2> HIDE DEF l
  <2> QED BY <2>1, <2>2 DEF Moves
<1>5. ASSUME NEW m \in Map, Iterate(t, m)
      PROVE  \E l : /\ Moves(t, l) /\ l.pc = "iter" /\ l.e = thread[t].e
                    /\ l.todo \subseteq Key \X Entry
  <2> DEFINE todo == {<<k, m[k]>> : k \in {j \in Key : m[j] # None}}
             l == [thread[t] EXCEPT !.pc = "iter", !.todo = todo]
  <2>1. todo \in SUBSET (Key \X Entry)
    BY DEF Map
  <2>2. thread' = [thread EXCEPT ![t] = l]
    BY <1>1, <1>5 DEF Iterate
  <2> HIDE DEF todo
  <2>3. l \in Local /\ l.op = thread[t].op /\ l.key = thread[t].key /\ l.val = thread[t].val
        /\ l.pc = "iter" /\ l.e = thread[t].e /\ l.todo \subseteq Key \X Entry
    BY <1>1, <2>1 DEF Local, Label
  <2> HIDE DEF l
  <2> QED BY <2>2, <2>3 DEF Moves
<1> QED BY <1>1, <1>2, <1>3, <1>4, <1>5

\* No method of entry makes one expunged, or stores to one that is.
LEMMA EntryOps ==
    ASSUME XInv, NEW t \in Thread, Op(t) \in Methods, Op(t) # "Range",
           NEW x \in Val \cup {None, Expunged}, x = Expunged => Op(t) \notin {"Swap", "LoadOrStore"}
    PROVE  /\ EntryOp(t, x).p \in Val \cup {None, Expunged}
           /\ EntryOp(t, x).p = Expunged <=> x = Expunged
           /\ EntryOp(t, x).res \in Results
<1>1. OpOK(thread[t])
  BY DEF XInv, OpInv
<1>2. CASE Op(t) \in {"Load", "LoadAndDelete", "CompareAndDelete"}
  BY <1>2, MapAssumption DEF EntryOp, load, delete, compareAndDelete, Value, Results, Result
<1>3. CASE Op(t) \in {"Swap", "LoadOrStore", "CompareAndSwap"}
  <2>1. thread[t].val \in Val
    BY <1>1, <1>3 DEF OpOK, Op
  <2>2. CASE Op(t) = "Swap"
    BY <2>1, <2>2, MapAssumption DEF EntryOp, trySwap, Value, Results, Result
  <2>3. CASE Op(t) = "LoadOrStore"
    BY <2>1, <2>3, MapAssumption DEF EntryOp, tryLoadOrStore, Results, Result
  <2>4. CASE Op(t) = "CompareAndSwap"
    BY <2>1, <2>4, MapAssumption DEF EntryOp, tryCompareAndSwap, Value, Results, Result
  <2> QED BY <1>3, <2>2, <2>3, <2>4
<1> QED BY <1>2, <1>3 DEF Methods

LEMMA NotFoundResult == \A t \in Thread : NotFound(t) \in Results
  BY DEF NotFound, Results, Result

LEMMA IdleLocal == Idle \in Local /\ OpOK(Idle) /\ Idle.pc = "idle" /\ Idle.e = None
<1>1. Idle \in Local
  BY DEF Idle, Local, Label, Results
<1>2. Idle.pc = "idle" /\ Idle.e = None /\ Idle.op = None
  BY DEF Idle
<1>3. None \notin Methods
  BY MapAssumption
<1>4. OpOK(Idle)
  BY <1>2, <1>3 DEF OpOK, WithEntry, Critical, Methods
<1> QED BY <1>1, <1>2, <1>4

\* A call, and the return from it.
LEMMA CallStep ==
    ASSUME XInv, NEW t \in Thread, Call(t) \/ Return(t)
    PROVE  XInv'
<1>1. thread[t].pc \in {"idle", "ret"} /\ UNCHANGED <<shared, mu, p>>
  BY DEF Call, Return, At
<1>2. PICK l \in Local : /\ thread' = [thread EXCEPT ![t] = l] /\ l.pc \notin Critical /\ OpOK(l)
                         /\ l.e = None
  <2>1. CASE Return(t)
    <3> QED BY <2>1, IdleLocal DEF Return, Critical
  <2>2. CASE Call(t)
    <3>1. PICK op \in Ops : \E a \in Args(op) :
              thread' = [thread EXCEPT ![t] =
                           [Idle EXCEPT !.pc = "read", !.op = op,
                                        !.key = a.k, !.val = a.v, !.old = a.o]]
      BY <2>2 DEF Call
    <3>2. PICK a \in Args(op) :
              thread' = [thread EXCEPT ![t] =
                           [Idle EXCEPT !.pc = "read", !.op = op,
                                        !.key = a.k, !.val = a.v, !.old = a.o]]
      BY <3>1
    <3> DEFINE l == [Idle EXCEPT !.pc = "read", !.op = op, !.key = a.k, !.val = a.v, !.old = a.o]
    <3>3. thread' = [thread EXCEPT ![t] = l]
      BY <3>2
    <3>4. /\ op \in Methods
          /\ a.k \in Key \cup {None} /\ (op # "Range" => a.k \in Key)
          /\ a.v \in Val \cup {None} /\ a.o \in Val \cup {None}
          /\ op \in {"Swap", "LoadOrStore", "CompareAndSwap"} => a.v \in Val
      BY MapAssumption DEF Args
    <3>5. /\ l \in Local /\ l.pc = "read" /\ l.op = op /\ l.key = a.k /\ l.val = a.v
          /\ l.e = None
      BY <3>4, IdleLocal DEF Local, Label
    <3> HIDE DEF l
    <3>6. OpOK(l) /\ l.pc \notin Critical
      BY <3>4, <3>5 DEF OpOK, WithEntry, Critical
    <3> QED BY <3>3, <3>5, <3>6
  <2> QED BY <2>1, <2>2
<1>3. /\ thread[t].pc \notin Critical /\ UNCHANGED <<shared, mu>>
      /\ p' \in [Entry -> Val \cup {None, Expunged}] /\ p' = p
  BY <1>1 DEF Critical, XInv, SharedType
<1> QED BY <1>2, <1>3, Quiet

\* m.loadReadOnly, and the lookup.
LEMMA ReadMapStep ==
    ASSUME XInv, NEW t \in Thread, ReadMap(t)
    PROVE  XInv'
<1>1. /\ thread[t].pc = "read" /\ Op(t) # "Range" /\ UNCHANGED <<shared, mu, p>>
      /\ \/ read[K(t)] # None /\ Found(t, read[K(t)], "entry")
         \/ Goto(t, "lock")
         \/ Ret(t, NotFound(t))
  BY DEF ReadMap, At
<1>2. /\ thread[t] \in Local /\ OpOK(thread[t]) /\ thread[t].e = None
      /\ K(t) = thread[t].key /\ Op(t) = thread[t].op /\ K(t) \in Key /\ Op(t) \in Methods
  BY <1>1, Goes DEF OpOK, WithEntry, K, Op
<1>3. read[K(t)] \in Entry \cup {None}
  BY <1>2 DEF XInv, SharedType, Map
<1>4. PICK l : /\ Moves(t, l) /\ l.pc \in {"entry", "lock", "ret"}
               /\ l.pc = "entry" => l.e = read[K(t)] /\ l.e # None
               /\ l.pc # "entry" => l.e = None
  <2>1. CASE read[K(t)] # None /\ Found(t, read[K(t)], "entry")
    <3>1. "entry" \in Label
      BY DEF Label
    <3> QED BY <1>3, <2>1, <3>1, Goes
  <2>2. CASE Goto(t, "lock")
    <3>1. "lock" \in Label
      BY DEF Label
    <3> QED BY <1>2, <2>2, <3>1, Goes
  <2>3. CASE Ret(t, NotFound(t))
    BY <2>3, NotFoundResult, Goes
  <2> QED BY <1>1, <2>1, <2>2, <2>3
<1>5. /\ l \in Local /\ thread' = [thread EXCEPT ![t] = l] /\ l.pc \notin Critical /\ OpOK(l)
      /\ l.e # None => l.key \in Key /\ l.e = read[l.key]
  BY <1>1, <1>2, <1>4 DEF Moves, OpOK, Critical, WithEntry
<1>6. /\ thread[t].pc \notin Critical /\ UNCHANGED <<shared, mu>>
      /\ p' \in [Entry -> Val \cup {None, Expunged}] /\ p' = p
  BY <1>1 DEF Critical, XInv, SharedType
<1> QED BY <1>5, <1>6, Quiet

\* The operation on an entry, without mu.
LEMMA OnEntryStep ==
    ASSUME XInv, NEW t \in Thread, OnEntry(t)
    PROVE  XInv'
<1> SUFFICES ASSUME NEW e, e = thread[t].e PROVE XInv'
  OBVIOUS
<1>1. /\ thread[t].pc = "entry" /\ UNCHANGED <<shared, mu>>
      /\ \/ Found(t, None, "lock") /\ p' = p
         \/ /\ p[e] = Expunged => Op(t) \notin {"Swap", "LoadOrStore"}
            /\ p' = [p EXCEPT ![e] = EntryOp(t, p[e]).p]
            /\ Ret(t, EntryOp(t, p[e]).res)
  BY DEF OnEntry, At
<1>2. /\ thread[t] \in Local /\ OpOK(thread[t]) /\ Op(t) \in Methods /\ Op(t) # "Range"
      /\ K(t) = thread[t].key /\ Op(t) = thread[t].op /\ K(t) \in Key
  BY <1>1, Goes DEF OpOK, WithEntry, K, Op
<1>3. e \in Entry /\ p \in [Entry -> Val \cup {None, Expunged}]
  BY <1>1, <1>2 DEF XInv, SharedType, OpOK, WithEntry, Local
<1>4. PICK l : Moves(t, l) /\ l.pc \in {"lock", "ret"} /\ l.e = None
  <2>1. CASE Found(t, None, "lock")
    <3>1. "lock" \in Label /\ None \in Entry \cup {None}
      BY DEF Label
    <3> QED BY <2>1, <3>1, Goes
  <2>2. CASE /\ p[e] = Expunged => Op(t) \notin {"Swap", "LoadOrStore"}
             /\ Ret(t, EntryOp(t, p[e]).res)
    <3>1. EntryOp(t, p[e]).res \in Results
      BY <1>2, <1>3, <2>2, EntryOps
    <3> QED BY <2>2, <3>1, Goes
  <2> QED BY <1>1, <2>1, <2>2
<1>5. /\ l \in Local /\ thread' = [thread EXCEPT ![t] = l] /\ l.pc \notin Critical /\ OpOK(l)
      /\ l.e = None
  BY <1>1, <1>2, <1>4 DEF Moves, OpOK, Critical, WithEntry
<1>6. /\ p' \in [Entry -> Val \cup {None, Expunged}]
      /\ \A x \in Entry : p'[x] = Expunged <=> p[x] = Expunged
  <2>1. CASE p' = p
    BY <1>3, <2>1
  <2>2. CASE /\ p[e] = Expunged => Op(t) \notin {"Swap", "LoadOrStore"}
             /\ p' = [p EXCEPT ![e] = EntryOp(t, p[e]).p]
    <3>1. /\ EntryOp(t, p[e]).p \in Val \cup {None, Expunged}
          /\ EntryOp(t, p[e]).p = Expunged <=> p[e] = Expunged
      BY <1>2, <1>3, <2>2, EntryOps
    <3> QED BY <1>3, <2>2, <3>1
  <2> QED BY <1>1, <2>1, <2>2
<1>7. thread[t].pc \notin Critical /\ UNCHANGED <<shared, mu>>
  BY <1>1 DEF Critical
<1> QED BY <1>5, <1>6, <1>7, Quiet

\* The steps of Range without mu.
LEMMA RangeStep ==
    ASSUME XInv, NEW t \in Thread, RangeRead(t) \/ RangeVisit(t) \/ RangeEnd(t)
    PROVE  XInv'
<1>1. /\ thread[t].pc \in {"read", "iter"} /\ UNCHANGED <<shared, mu, p>>
      /\ thread[t].pc = "read" => thread[t].op = "Range"
  BY DEF RangeRead, RangeVisit, RangeEnd, At, Op
<1>2. thread[t] \in Local /\ OpOK(thread[t]) /\ thread[t].e = None /\ thread[t].op = "Range"
  BY <1>1, Goes DEF OpOK, WithEntry
<1>3. <<FALSE>> \in Results /\ <<TRUE>> \in Results /\ "lock" \in Label /\ read \in Map
  BY DEF Results, Result, Label, XInv, SharedType
<1>4. PICK l : /\ Moves(t, l) /\ l.pc \in {"lock", "iter", "ret"} /\ l.e = None
               /\ l.pc = "iter" => l.op = "Range" /\ l.todo \subseteq Key \X Entry
  <2>1. CASE RangeRead(t)
    <3>1. Goto(t, "lock") \/ Iterate(t, read)
      BY <2>1 DEF RangeRead
    <3>2. CASE Goto(t, "lock")
      BY <1>2, <1>3, <3>2, Goes
    <3>3. CASE Iterate(t, read)
      <4>1. PICK l : /\ Moves(t, l) /\ l.pc = "iter" /\ l.e = thread[t].e
                     /\ l.todo \subseteq Key \X Entry
        BY <1>3, <3>3, Goes
      <4> QED BY <1>2, <4>1 DEF Moves
    <3> QED BY <3>1, <3>2, <3>3
  <2>2. CASE Ret(t, <<TRUE>>) \/ Ret(t, <<FALSE>>)
    BY <1>3, <2>2, Goes
  <2>3. ASSUME At(t, "iter"), NEW x \in thread[t].todo,
               thread' = [thread EXCEPT ![t].todo = @ \ {x},
                                        ![t].seen = IF Value(p[x[2]]) = None THEN @
                                                    ELSE @ \cup {<<x[1], Value(p[x[2]])>>}]
        PROVE  \E l : /\ Moves(t, l) /\ l.pc = "iter" /\ l.e = None
                      /\ l.todo \subseteq Key \X Entry
    <3> DEFINE v == Value(p[x[2]])
               seen == IF v = None THEN thread[t].seen ELSE thread[t].seen \cup {<<x[1], v>>}
               l == [thread[t] EXCEPT !.todo = thread[t].todo \ {x}, !.seen = seen]
    <3>1. thread[t].todo \subseteq Key \X Entry /\ thread[t].pc = "iter"
      BY <1>2, <2>3 DEF OpOK, At
    <3>2. x[1] \in Key /\ x[2] \in Entry
      BY <3>1
    <3>3. v \in Val \cup {None}
      BY <3>2 DEF XInv, SharedType, Value
    <3> HIDE DEF v
    <3>4. seen \in SUBSET (Key \X Val)
      BY <1>2, <3>2, <3>3 DEF Local
    <3>5. thread' = [thread EXCEPT ![t] = l]
      BY <2>3 DEF XInv, ThreadType, v
    <3> HIDE DEF seen
    <3>6. /\ l \in Local /\ l.op = thread[t].op /\ l.key = thread[t].key /\ l.val = thread[t].val
          /\ l.pc = "iter" /\ l.e = None /\ l.todo \subseteq Key \X Entry
      BY <1>2, <3>1, <3>4 DEF Local
    <3> HIDE DEF l
    <3> QED BY <3>5, <3>6 DEF Moves
  <2>4. CASE RangeVisit(t)
    <3>1. PICK x \in thread[t].todo :
             \/ thread' = [thread EXCEPT ![t].todo = @ \ {x},
                                         ![t].seen = IF Value(p[x[2]]) = None THEN @
                                                     ELSE @ \cup {<<x[1], Value(p[x[2]])>>}]
             \/ Ret(t, <<FALSE>>)
      BY <2>4 DEF RangeVisit
    <3>2. CASE Ret(t, <<FALSE>>)
      BY <2>2, <3>2
    <3>3. CASE ~Ret(t, <<FALSE>>)
      <4>1. At(t, "iter")
        BY <2>4 DEF RangeVisit
      <4>2. PICK l : /\ Moves(t, l) /\ l.pc = "iter" /\ l.e = None
                     /\ l.todo \subseteq Key \X Entry
        BY <2>3, <3>1, <3>3, <4>1
      <4> QED BY <1>2, <4>2 DEF Moves
    <3> QED BY <3>2, <3>3
  <2>5. CASE RangeEnd(t)
    BY <2>2, <2>5 DEF RangeEnd
  <2> QED BY <2>1, <2>4, <2>5
<1>5. /\ l \in Local /\ thread' = [thread EXCEPT ![t] = l] /\ l.pc \notin Critical /\ OpOK(l)
  BY <1>1, <1>2, <1>4 DEF Moves, OpOK, Critical, WithEntry
<1>6. /\ thread[t].pc \notin Critical /\ UNCHANGED <<shared, mu>>
      /\ p' \in [Entry -> Val \cup {None, Expunged}] /\ p' = p
  BY <1>1 DEF Critical, XInv, SharedType
<1> QED BY <1>4, <1>5, <1>6, Quiet

-----------------------------------------------------------------------------
(* Steps with mu held *)

\* What is left to show of a step that nobody else in a critical section races
\* with: the maps, what the thread itself holds, and that a store that is about
\* to operate on an entry still reaches it.
LEMMA Solo ==
    ASSUME XInv, NEW t \in Thread, NEW l \in Local, thread' = [thread EXCEPT ![t] = l],
           mu \in {None, t}, mu' = (IF l.pc \in Critical THEN t ELSE None), OpOK(l),
           SharedType', OneKey', MapInv', Holds(t)',
           \A k \in Key : l.e # None /\ l.e \in {read'[k], Lookup(dirty, k)'} => k = l.key,
           \A u \in Thread \ {t}, k \in Key :
                thread[u].e # None /\ thread[u].e \in {read'[k], Lookup(dirty, k)'}
                    => thread[u].e \in {read[k], Lookup(dirty, k)},
           \A u \in Thread \ {t} :
                At(u, "entry") /\ Op(u) \in Stores
                    => p'[thread[u].e] = Expunged \/ read'[K(u)] = thread[u].e,
           l.pc = "entry" => l.op \notin Stores
    PROVE  XInv'
<1>1. /\ ThreadType' /\ thread'[t] = l
      /\ \A u \in Thread \ {t} : thread'[u] = thread[u]
  BY Others
<1>2. OpInv'
  BY OpKeeps
<1>3. MyKey'
  <2> SUFFICES ASSUME NEW u \in Thread, NEW k \in Key, thread'[u].e # None,
                      thread'[u].e \in {read'[k], Lookup(dirty, k)'}
               PROVE  k = thread'[u].key
    BY DEF MyKey
  <2>1. CASE u = t
    BY <1>1, <2>1
  <2>2. CASE u # t
    BY <1>1, <2>2 DEF XInv, MyKey
  <2> QED BY <2>1, <2>2
<1>4. HeldInv'
  <2> SUFFICES ASSUME NEW u \in Thread, u # t PROVE Holds(u)'
    BY DEF HeldInv
  <2>1. thread'[u].pc \notin Critical
    BY <1>1, Alone
  <2> QED BY <2>1 DEF Holds, At, Critical
<1>5. Reaches'
  <2> SUFFICES ASSUME NEW u \in Thread, At(u, "entry")', Op(u)' \in Stores
               PROVE p'[thread'[u].e] = Expunged \/ read'[K(u)'] = thread'[u].e
    BY DEF Reaches
  <2>1. u # t
    BY <1>1 DEF At, Op, Stores
  <2>2. thread'[u] = thread[u]
    BY <1>1, <2>1
  <2> QED BY <2>1, <2>2 DEF At, Op, K, Stores
<1> QED BY <1>1, <1>2, <1>3, <1>4, <1>5 DEF XInv

\* While nobody copies the read map, EntryStates holds.
LEMMA Settled ==
    ASSUME XInv, NEW t \in Thread, mu \in {None, t}, thread[t].pc # "dirty"
    PROVE  amended = (dirty # NoMap) /\ \A k \in Key : EntryState(k)
<1>1. \A u \in Thread : ~At(u, "dirty")
  BY Alone DEF At, Critical
<1> QED BY <1>1 DEF XInv, MapInv, ToCopy

\* An entry that a map or a thread has is one.
LEMMA Entries ==
    ASSUME XInv
    PROVE  /\ \A k \in Key : /\ read[k] \in Entry \cup {None}
                             /\ Lookup(dirty, k) \in Entry \cup {None}
                             /\ dirty # NoMap => Lookup(dirty, k) = dirty[k]
           /\ \A u \in Thread : At(u, "entry") => thread[u].e \in Entry /\ thread[u].e # None
           /\ None \notin Entry /\ None \notin Val
           /\ NoMap \notin Map
<1>1. \A k \in Key : /\ read[k] \in Entry \cup {None}
                     /\ Lookup(dirty, k) \in Entry \cup {None}
                     /\ dirty # NoMap => Lookup(dirty, k) = dirty[k]
  BY DEF XInv, SharedType, Map, Lookup
<1>2. \A u \in Thread : At(u, "entry") => thread[u].e \in Entry /\ thread[u].e # None
  BY DEF XInv, OpInv, OpOK, WithEntry, ThreadType, Local, At
<1> QED BY <1>1, <1>2, MapAssumption DEF Map

\* The dirty map becomes the read map.
Promoted(d) == read' = d /\ amended' = FALSE /\ dirty' = NoMap /\ misses' = 0

\* m.missLocked, with dirty map d, after which thread t has locals l: the keys
\* it lost with respect to m.dirty are not in the read map.
LEMMA Misses ==
    ASSUME XInv, NEW t \in Thread, NEW l \in Local, thread' = [thread EXCEPT ![t] = l],
           mu \in {None, t}, mu' = None, p' = p, thread[t].pc # "dirty",
           l.pc \notin Critical, OpOK(l), dirty # NoMap,
           NEW d \in Map, \A k \in Key : d[k] = dirty[k] \/ (d[k] = None /\ read[k] = None),
           l.e # None => l.key \in Key /\ l.e = dirty[l.key],
           l.pc = "entry" => l.op \notin Stores,
           MissLocked(d) \/ Promoted(d)
    PROVE  XInv'
<1>1. amended = TRUE /\ \A k \in Key : EntryState(k)
  BY Settled
<1>2. /\ \A k \in Key : /\ read[k] \in Entry \cup {None}
                        /\ dirty[k] \in Entry \cup {None}
                        /\ Lookup(dirty, k) = dirty[k]
                        /\ d[k] # None => d[k] = dirty[k]
      /\ \A u \in Thread : At(u, "entry") => thread[u].e \in Entry /\ thread[u].e # None
      /\ NoMap # d /\ dirty \in Map
  <2>1. dirty \in Map
    BY DEF XInv, SharedType
  <2>2. \A k \in Key : d[k] # None => d[k] = dirty[k]
    OBVIOUS
  <2>3. \A k \in Key : dirty[k] \in Entry \cup {None}
    BY <2>1 DEF Map
  <2> QED BY <2>1, <2>2, <2>3, Entries
<1>3. \/ read' = d /\ amended' = FALSE /\ dirty' = NoMap /\ misses' = 0
      \/ read' = read /\ amended' = TRUE /\ dirty' = d /\ misses' = misses + 1
  BY <1>1 DEF MissLocked, Promoted
<1>4. SharedType'
  <2>1. SharedType /\ d \in Map /\ mu' = None /\ p' = p
    BY DEF XInv
  <2>2. misses' \in Nat
    BY <1>3, <2>1 DEF SharedType
  <2>3. read' \in Map /\ amended' \in BOOLEAN /\ dirty' \in Map \cup {NoMap}
    <3>1. CASE read' = d /\ amended' = FALSE /\ dirty' = NoMap
      BY <2>1, <3>1
    <3>2. CASE read' = read /\ amended' = TRUE /\ dirty' = d
      BY <2>1, <3>2 DEF SharedType
    <3> QED BY <1>3, <3>1, <3>2
  <2> QED BY <2>1, <2>2, <2>3 DEF SharedType
<1>5. \A k \in Key : /\ Lookup(dirty, k)' \in {None, dirty[k]}
                     /\ read'[k] \in {None, read[k], dirty[k]}
                     /\ read'[k] # read[k] => \A j \in Key : read'[j] \in {None, dirty[j]}
  <2>1. CASE read' = d /\ dirty' = NoMap
    BY <1>2, <2>1 DEF Lookup
  <2>2. CASE read' = read /\ dirty' = d
    BY <1>2, <2>2 DEF Lookup
  <2> QED BY <1>3, <2>1, <2>2
<1>6. OneKey'
  <2>1. CASE read' = d /\ dirty' = NoMap
    <3>1. \A j, k \in Key : d[j] # None /\ d[j] = d[k] => j = k
      BY <1>2 DEF XInv, OneKey
    <3>2. \A j \in Key : Lookup(dirty, j)' = None
      BY <2>1 DEF Lookup
    <3> QED BY <2>1, <3>1, <3>2 DEF OneKey
  <2>2. CASE read' = read /\ dirty' = d
    <3>1. \A j \in Key : Lookup(dirty, j)' = d[j]
      BY <1>2, <2>2 DEF Lookup
    <3>2. \A j, k \in Key : d[j] # None /\ d[j] \in {d[k], read[k]} => j = k
      BY <1>2 DEF XInv, OneKey
    <3>3. \A j, k \in Key : read[j] # None /\ read[j] = read[k] => j = k
      BY DEF XInv, OneKey
    <3> QED BY <2>2, <3>1, <3>2, <3>3 DEF OneKey
  <2> QED BY <1>3, <2>1, <2>2
<1>7. \A k \in Key : dirty[k] # None => p[dirty[k]] # Expunged
  BY <1>2 DEF XInv, MapInv
<1>8. MapInv'
  <2>1. (amended = (dirty # NoMap))'
    BY <1>2, <1>3
  <2>2. \A k \in Key : Lookup(dirty, k)' # None => p'[Lookup(dirty, k)'] # Expunged
    BY <1>5, <1>7
  <2>3. ASSUME NEW k \in Key PROVE EntryState(k)'
    <3>1. CASE read' = d /\ dirty' = NoMap
      BY <1>2, <1>7, <3>1 DEF EntryState
    <3>2. CASE read' = read /\ dirty' = d
      BY <1>1, <1>2, <3>2 DEF EntryState
    <3> QED BY <1>3, <3>1, <3>2
  <2> QED BY <2>1, <2>2, <2>3 DEF MapInv
<1>9. thread'[t] = l
  BY Others
<1>10. Holds(t)'
  BY <1>9 DEF Holds, At, Critical
<1>11. \A k \in Key : l.e # None /\ l.e \in {read'[k], Lookup(dirty, k)'} => k = l.key
  BY <1>2, <1>5 DEF XInv, OneKey
<1>12. \A u \in Thread \ {t}, k \in Key :
           thread[u].e # None /\ thread[u].e \in {read'[k], Lookup(dirty, k)'}
               => thread[u].e \in {read[k], Lookup(dirty, k)}
  BY <1>2, <1>5
<1>13. ASSUME NEW u \in Thread \ {t}, At(u, "entry"), Op(u) \in Stores
       PROVE  p'[thread[u].e] = Expunged \/ read'[K(u)] = thread[u].e
  <2>1. p[thread[u].e] = Expunged \/ read[K(u)] = thread[u].e
    BY <1>13 DEF XInv, Reaches, Stores
  <2>2. K(u) \in Key
    BY <1>13 DEF XInv, OpInv, OpOK, K, At, Op, Stores
  <2> SUFFICES ASSUME p[thread[u].e] # Expunged, read[K(u)] = thread[u].e
               PROVE  read'[K(u)] = thread[u].e
    BY <2>1
  <2>3. dirty[K(u)] = thread[u].e /\ thread[u].e # None
    BY <1>1, <1>2, <1>13, <2>2 DEF EntryState
  <2>4. d[K(u)] = thread[u].e
    BY <2>2, <2>3
  <2> QED BY <1>3, <2>4
<1>14. mu' = (IF l.pc \in Critical THEN t ELSE None)
  OBVIOUS
<1> QED BY <1>4, <1>6, <1>8, <1>10, <1>11, <1>12, <1>13, <1>14, Solo

\* Steps that leave the maps alone, and of the entries which of them are expunged.
LEMMA Keeps ==
    ASSUME XInv, NEW t \in Thread, NEW l \in Local, thread' = [thread EXCEPT ![t] = l],
           mu \in {None, t}, mu' = (IF l.pc \in Critical THEN t ELSE None), OpOK(l),
           UNCHANGED shared, thread[t].pc # "dirty", l.pc # "dirty",
           p' \in [Entry -> Val \cup {None, Expunged}],
           \A x \in Entry : p'[x] = Expunged <=> p[x] = Expunged,
           l.e # None => l.key \in Key /\ l.e \in {read[l.key], Lookup(dirty, l.key)},
           l.pc = "entry" => l.op \notin Stores,
           Holds(t)'
    PROVE  XInv'
<1>1. UNCHANGED <<read, amended, dirty, misses>>
  BY DEF shared
<1>2. \A k \in Key : Lookup(dirty, k)' = Lookup(dirty, k)
  BY <1>1 DEF Lookup
<1>3. mu' \in Thread \cup {None}
  OBVIOUS
<1>4. SharedType'
  BY <1>1, <1>3 DEF XInv, SharedType
<1>5. OneKey'
  BY <1>1, <1>2 DEF XInv, OneKey
<1>6. amended = (dirty # NoMap) /\ \A k \in Key : EntryState(k)
  BY Settled
<1>7. MapInv'
  <2>1. \A k \in Key : EntryState(k)'
    BY <1>1, <1>6, Entries DEF EntryState
  <2>2. \A k \in Key : Lookup(dirty, k)' # None => p'[Lookup(dirty, k)'] # Expunged
    BY <1>2, Entries DEF XInv, MapInv
  <2> QED BY <1>1, <1>6, <2>1, <2>2 DEF MapInv
<1>8. \A k \in Key : l.e # None /\ l.e \in {read'[k], Lookup(dirty, k)'} => k = l.key
  BY <1>1, <1>2 DEF XInv, OneKey
<1>9. \A u \in Thread \ {t}, k \in Key :
          thread[u].e # None /\ thread[u].e \in {read'[k], Lookup(dirty, k)'}
              => thread[u].e \in {read[k], Lookup(dirty, k)}
  BY <1>1, <1>2
<1>10. \A u \in Thread \ {t} :
           At(u, "entry") /\ Op(u) \in Stores
               => p'[thread[u].e] = Expunged \/ read'[K(u)] = thread[u].e
  BY <1>1, Entries DEF XInv, Reaches, Stores
<1> QED BY <1>4, <1>5, <1>7, <1>8, <1>9, <1>10, Solo

\* The lookup in LookupLocked and DeleteLocked, and what follows it.
LEMMA LookupStep ==
    ASSUME XInv, NEW t \in Thread, LookupLocked(t) \/ DeleteLocked(t)
    PROVE  XInv'
<1> SUFFICES ASSUME NEW k, k = K(t) PROVE XInv'
  OBVIOUS
<1>1. /\ thread[t].pc = "lock" /\ Op(t) \in {"Load", "CompareAndDelete", "LoadAndDelete"}
      /\ mu = None /\ UNCHANGED <<mu, p>> /\ Proceed(t, EntryLocked(k))
      /\ \/ IsMiss(k) /\ (MissLocked(dirty) \/ MissLocked([dirty EXCEPT ![k] = None]))
         \/ ~IsMiss(k) /\ UNCHANGED shared
  BY DEF LookupLocked, DeleteLocked, At
<1>2. /\ thread[t] \in Local /\ OpOK(thread[t]) /\ thread[t].e = None
      /\ k = thread[t].key /\ Op(t) = thread[t].op /\ k \in Key
  BY <1>1, Goes DEF OpOK, WithEntry, K, Op
<1>3. amended = (dirty # NoMap)
  BY <1>1, Settled
<1>4. EntryLocked(k) = IF IsMiss(k) THEN dirty[k] ELSE read[k]
  BY <1>2, <1>3 DEF EntryLocked, IsMiss, Lookup
<1>5. EntryLocked(k) \in Entry \cup {None}
  BY <1>2, <1>3, <1>4, Entries DEF IsMiss
<1>6. PICK l : /\ Moves(t, l) /\ l.pc \in {"entry", "ret"} /\ l.e \in {None, EntryLocked(k)}
               /\ l.pc = "entry" <=> l.e # None
  <2>1. CASE EntryLocked(k) # None
    <3>1. "entry" \in Label /\ Found(t, EntryLocked(k), "entry")
      BY <1>1, <2>1 DEF Label, Proceed
    <3> QED BY <1>5, <2>1, <3>1, Goes
  <2>2. CASE EntryLocked(k) = None
    <3>1. Ret(t, NotFound(t))
      BY <1>1, <2>2 DEF Proceed
    <3> QED BY <3>1, NotFoundResult, Goes
  <2> QED BY <2>1, <2>2
<1>7. /\ l \in Local /\ thread' = [thread EXCEPT ![t] = l] /\ l.pc \notin Critical /\ OpOK(l)
      /\ l.key = k /\ l.op \notin Stores
  BY <1>1, <1>2, <1>6 DEF Moves, OpOK, Critical, WithEntry, Stores
<1>8. p' \in [Entry -> Val \cup {None, Expunged}] /\ p' = p /\ thread[t].pc \notin Critical
      /\ thread[t].pc # "dirty" /\ mu \in {None, t} /\ mu' = None
  BY <1>1 DEF Critical, XInv, SharedType
<1>9. CASE ~IsMiss(k)
  <2>1. UNCHANGED <<shared, mu>> /\ (l.e # None => l.key \in Key /\ l.e = read[l.key])
    BY <1>1, <1>2, <1>4, <1>6, <1>7, <1>9
  <2> QED BY <1>7, <1>8, <2>1, Quiet
<1>10. CASE IsMiss(k)
  <2>1. dirty # NoMap /\ dirty \in Map /\ read[k] = None
    BY <1>3, <1>10 DEF IsMiss, XInv, SharedType
  <2>2. PICK d \in Map : /\ MissLocked(d)
                         /\ \A j \in Key : d[j] = dirty[j] \/ (d[j] = None /\ read[j] = None)
    <3> DEFINE d == [dirty EXCEPT ![k] = None]
    <3>1. d \in Map /\ \A j \in Key : d[j] = dirty[j] \/ (d[j] = None /\ read[j] = None)
      BY <1>2, <2>1 DEF Map
    <3> QED BY <1>1, <1>10, <2>1, <3>1
  <2>3. l.e # None => l.key \in Key /\ l.e = dirty[l.key]
    BY <1>2, <1>4, <1>6, <1>7, <1>10
  <2> QED BY <1>7, <1>8, <2>1, <2>2, <2>3, Misses
<1> QED BY <1>9, <1>10

\* The miss that LoadOrStore and CompareAndSwap record.
LEMMA MissStep ==
    ASSUME XInv, NEW t \in Thread, Miss(t)
    PROVE  XInv'
<1>1. /\ thread[t].pc = "miss" /\ MissLocked(dirty) /\ Goto(t, "ret") /\ mu' = None /\ p' = p
  BY DEF Miss, At
<1>2. OpOK(thread[t]) /\ thread[t].e = None /\ mu = t /\ dirty # NoMap
  BY <1>1 DEF XInv, OpInv, OpOK, WithEntry, Critical, HeldInv, Holds, At
<1>3. PICK l : Moves(t, l) /\ l.pc = "ret" /\ l.e = None
  <2>1. "ret" \in Label
    BY DEF Label
  <2> QED BY <1>1, <1>2, <2>1, Goes
<1>4. /\ l \in Local /\ thread' = [thread EXCEPT ![t] = l] /\ l.pc \notin Critical /\ OpOK(l)
  BY <1>1, <1>2, <1>3 DEF Moves, OpOK, Critical, WithEntry
<1>5. dirty \in Map
  BY <1>2 DEF XInv, SharedType
<1> QED BY <1>1, <1>2, <1>3, <1>4, <1>5, Misses

\* Range makes the dirty map the read map.
LEMMA RangePromoteStep ==
    ASSUME XInv, NEW t \in Thread, RangePromote(t)
    PROVE  XInv'
<1>1. /\ thread[t].pc = "lock" /\ mu = None /\ UNCHANGED <<mu, p>> /\ Iterate(t, read')
      /\ amended => Promoted(dirty)
      /\ ~amended => UNCHANGED shared
      /\ thread[t].op = "Range"
  BY DEF RangePromote, Promoted, At, Op
<1>2. /\ thread[t] \in Local /\ OpOK(thread[t]) /\ thread[t].e = None
  BY <1>1, Goes DEF OpOK, WithEntry
<1>3. amended = (dirty # NoMap)
  BY <1>1, Settled
<1>4. read' \in Map /\ (amended => dirty \in Map)
  BY <1>1, <1>3 DEF Promoted, shared, XInv, SharedType
<1>5. PICK l : Moves(t, l) /\ l.pc = "iter" /\ l.e = None /\ l.todo \subseteq Key \X Entry
  BY <1>1, <1>2, <1>4, Goes
<1>6. /\ l \in Local /\ thread' = [thread EXCEPT ![t] = l] /\ l.pc \notin Critical /\ OpOK(l)
  BY <1>1, <1>2, <1>5 DEF Moves, OpOK, Critical, WithEntry
<1>7. p' \in [Entry -> Val \cup {None, Expunged}] /\ p' = p /\ thread[t].pc \notin Critical
      /\ thread[t].pc # "dirty" /\ mu \in {None, t} /\ mu' = None
  BY <1>1 DEF Critical, XInv, SharedType
<1>8. CASE ~amended
  <2>1. UNCHANGED <<shared, mu>>
    BY <1>1, <1>8
  <2> QED BY <1>5, <1>6, <1>7, <2>1, Quiet
<1>9. CASE amended
  <2>1. Promoted(dirty) /\ dirty \in Map /\ dirty # NoMap
    BY <1>1, <1>3, <1>4, <1>9
  <2> QED BY <1>5, <1>6, <1>7, <2>1, Misses
<1> QED BY <1>8, <1>9

\* Lock, and the lookups of a method that stores.
LEMMA LockStep ==
    ASSUME XInv, NEW t \in Thread, Lock(t)
    PROVE  XInv'
<1> SUFFICES ASSUME NEW k, k = K(t) PROVE XInv'
  OBVIOUS
<1>1. /\ thread[t].pc = "lock" /\ Op(t) \in {"Swap", "LoadOrStore", "CompareAndSwap"}
      /\ mu = None /\ UNCHANGED <<read, amended, misses, p>>
  BY DEF Lock, At
<1>2. \/ /\ read[k] # None
         /\ Found(t, read[k], IF Op(t) = "CompareAndSwap" THEN "locked" ELSE "unexpunge")
         /\ mu' = t /\ dirty' = dirty
      \/ /\ read[k] = None /\ Lookup(dirty, k) # None
         /\ Found(t, dirty[k], "locked") /\ mu' = t /\ dirty' = dirty
      \/ Op(t) = "CompareAndSwap" /\ Ret(t, NotFound(t)) /\ UNCHANGED <<mu, dirty>>
      \/ /\ read[k] = None /\ Lookup(dirty, k) = None /\ Op(t) # "CompareAndSwap" /\ mu' = t
         /\ \/ /\ ~amended /\ dirty = NoMap /\ dirty' = [j \in Key |-> None]
               /\ thread' = [thread EXCEPT ![t].pc = "dirty",
                                           ![t].todo = {j \in Key : read[j] # None}]
            \/ ~(~amended /\ dirty = NoMap) /\ Goto(t, "insert") /\ dirty' = dirty
  BY DEF Lock
<1>3. /\ thread[t] \in Local /\ OpOK(thread[t]) /\ thread[t].e = None
      /\ k = thread[t].key /\ Op(t) = thread[t].op /\ k \in Key
  BY <1>1, Goes DEF OpOK, WithEntry, K, Op
<1>4. amended = (dirty # NoMap) /\ \A j \in Key : EntryState(j)
  BY <1>1, Settled
<1>5. /\ p' \in [Entry -> Val \cup {None, Expunged}] /\ p' = p /\ thread[t].pc \notin Critical
      /\ thread[t].pc # "dirty" /\ mu \in {None, t}
  BY <1>1 DEF Critical, XInv, SharedType
<1>6. {"locked", "unexpunge", "insert", "dirty"} \subseteq Label \cap Critical
  BY DEF Label, Critical
\* An entry is found.
<1>7. ASSUME NEW s \in {"locked", "unexpunge"}, NEW e \in Entry, Found(t, e, s), mu' = t,
             dirty' = dirty, e = IF read[k] # None THEN read[k] ELSE Lookup(dirty, k),
             s = "unexpunge" => read[k] # None /\ Op(t) # "CompareAndSwap",
             s = "locked" /\ Op(t) # "CompareAndSwap" => p[e] # Expunged
      PROVE  XInv'
  <2>1. PICK l : Moves(t, l) /\ l.pc = s /\ l.e = e
    BY <1>6, <1>7, Goes
  <2>2. /\ l \in Local /\ thread' = [thread EXCEPT ![t] = l] /\ thread'[t] = l
        /\ l.key = k /\ l.op = Op(t)
    BY <1>3, <2>1, Others DEF Moves
  <2>3. OpOK(l)
    BY <1>1, <1>3, <1>7, <2>1, <2>2, Entries DEF Moves, OpOK, WithEntry, Critical
  <2>4. Holds(t)'
    <3>1. read' = read /\ p' = p /\ Lookup(dirty, k)' = Lookup(dirty, k)
      BY <1>1, <1>7 DEF Lookup
    <3>2. K(t)' = k /\ Op(t)' = Op(t) /\ (At(t, "unexpunge")' <=> s = "unexpunge")
          /\ (At(t, "locked")' <=> s = "locked")
          /\ ~At(t, "miss")' /\ ~At(t, "dirty")' /\ thread'[t].pc \notin {"insert", "dirty"}
      BY <2>1, <2>2 DEF K, Op, At
    <3>3. thread'[t].e = e
      BY <2>1, <2>2
    <3> QED BY <1>7, <3>1, <3>2, <3>3 DEF Holds
  <2>5. UNCHANGED shared /\ l.pc # "dirty" /\ l.pc # "entry" /\ l.pc \in Critical
    BY <1>1, <1>6, <1>7, <2>1 DEF shared
  <2>6. mu' = (IF l.pc \in Critical THEN t ELSE None)
    BY <1>7, <2>5
  <2>7. l.key \in Key /\ l.e \in {read[l.key], Lookup(dirty, l.key)}
    BY <1>3, <1>7, <2>1, <2>2
  <2> QED BY <1>5, <2>2, <2>3, <2>4, <2>5, <2>6, <2>7, Keeps
<1>8. CASE /\ read[k] # None
           /\ Found(t, read[k], IF Op(t) = "CompareAndSwap" THEN "locked" ELSE "unexpunge")
           /\ mu' = t /\ dirty' = dirty
  <2>1. read[k] \in Entry
    BY <1>3, <1>8, Entries
  <2>2. CASE Op(t) = "CompareAndSwap"
    BY <1>7, <1>8, <2>1, <2>2
  <2>3. CASE Op(t) # "CompareAndSwap"
    BY <1>7, <1>8, <2>1, <2>3
  <2> QED BY <2>2, <2>3
<1>9. CASE /\ read[k] = None /\ Lookup(dirty, k) # None
           /\ Found(t, dirty[k], "locked") /\ mu' = t /\ dirty' = dirty
  <2>1. Lookup(dirty, k) \in Entry /\ dirty[k] = Lookup(dirty, k) /\ p[Lookup(dirty, k)] # Expunged
    BY <1>3, <1>9, Entries DEF Lookup, XInv, MapInv
  <2> QED BY <1>7, <1>9, <2>1
<1>10. CASE Op(t) = "CompareAndSwap" /\ Ret(t, NotFound(t)) /\ UNCHANGED <<mu, dirty>>
  <2>1. PICK l : Moves(t, l) /\ l.pc = "ret" /\ l.e = None
    BY <1>10, NotFoundResult, Goes
  <2>2. l \in Local /\ thread' = [thread EXCEPT ![t] = l] /\ l.pc \notin Critical /\ OpOK(l)
    BY <1>1, <1>3, <2>1 DEF Moves, OpOK, Critical, WithEntry
  <2>3. UNCHANGED <<shared, mu>>
    BY <1>1, <1>10 DEF shared
  <2> QED BY <1>5, <2>1, <2>2, <2>3, Quiet
<1>11. CASE /\ read[k] = None /\ Lookup(dirty, k) = None /\ Op(t) # "CompareAndSwap" /\ mu' = t
            /\ ~(~amended /\ dirty = NoMap) /\ Goto(t, "insert") /\ dirty' = dirty
  <2>1. PICK l : Moves(t, l) /\ l.pc = "insert" /\ l.e = None
    BY <1>3, <1>6, <1>11, Goes
  <2>2. /\ l \in Local /\ thread' = [thread EXCEPT ![t] = l] /\ thread'[t] = l /\ l.key = k
        /\ OpOK(l)
    <3>1. l \in Local /\ thread' = [thread EXCEPT ![t] = l] /\ l.key = k /\ OpOK(l)
      BY <1>1, <1>3, <1>11, <2>1 DEF Moves, OpOK, Critical, WithEntry
    <3> QED BY <3>1, Others
  <2>3. Holds(t)'
    <3>1. read[k] = None /\ dirty # NoMap /\ dirty[k] = None
      BY <1>3, <1>4, <1>11, Entries
    <3> QED BY <1>1, <1>11, <2>1, <2>2, <3>1 DEF Holds, At, K
  <2>4. UNCHANGED shared /\ l.pc # "dirty" /\ l.pc # "entry" /\ l.pc \in Critical
    BY <1>1, <1>6, <1>11, <2>1 DEF shared
  <2>5. mu' = (IF l.pc \in Critical THEN t ELSE None)
    BY <1>11, <2>4
  <2> QED BY <1>5, <2>1, <2>2, <2>3, <2>4, <2>5, Keeps
<1>12. CASE /\ read[k] = None /\ Lookup(dirty, k) = None /\ Op(t) # "CompareAndSwap" /\ mu' = t
            /\ ~amended /\ dirty = NoMap /\ dirty' = [j \in Key |-> None]
            /\ thread' = [thread EXCEPT ![t].pc = "dirty",
                                        ![t].todo = {j \in Key : read[j] # None}]
  <2> DEFINE todo == {j \in Key : read[j] # None}
             l == [thread[t] EXCEPT !.pc = "dirty", !.todo = todo]
  <2>1. thread' = [thread EXCEPT ![t] = l]
    BY <1>12 DEF XInv, ThreadType
  <2>2. todo \in SUBSET (Key \cup (Key \X Entry))
    OBVIOUS
  <2>3. /\ l \in Local /\ l.pc = "dirty" /\ l.e = None /\ l.key = k /\ l.op = Op(t)
        /\ l.val = thread[t].val /\ l.todo = todo
    BY <1>3, <1>6, <2>2 DEF Local
  <2> HIDE DEF l
  <2>4. OpOK(l) /\ thread'[t] = l
    <3>1. OpOK(l)
      BY <1>1, <1>3, <1>12, <2>3 DEF OpOK, WithEntry, Critical
    <3> QED BY <3>1, <2>1, <2>3, Others
  <2>5. /\ dirty' \in Map /\ dirty' # NoMap
        /\ \A j \in Key : dirty'[j] = None /\ Lookup(dirty, j)' = None
    BY <1>12, MapAssumption DEF Map, Lookup
  <2>6. SharedType'
    BY <1>1, <1>5, <1>12, <2>5 DEF XInv, SharedType
  <2>7. OneKey'
    BY <1>1, <2>5 DEF XInv, OneKey
  <2>8. MapInv'
    <3>1. At(t, "dirty")' /\ thread'[t].todo = todo
      BY <2>3, <2>4 DEF At
    <3>2. \A j \in Key : EntryState(j)' \/ ToCopy(j)'
      BY <1>1, <3>1 DEF EntryState, ToCopy
    <3>3. \A j \in Key : Lookup(dirty, j)' # None => p'[Lookup(dirty, j)'] # Expunged
      BY <2>5
    <3> QED BY <3>1, <3>2, <3>3 DEF MapInv
  <2>9. Holds(t)'
    <3>1. \A j \in todo : j \in Key /\ read[j] # None /\ p[read[j]] # Expunged
      BY <1>4, <1>12 DEF EntryState
    <3>2. \A j \in todo : read'[j] # None /\ p'[read'[j]] # Expunged /\ dirty'[j] = None
      BY <1>1, <2>5, <3>1
    <3> HIDE DEF todo
    <3> QED BY <1>1, <1>3, <1>12, <2>3, <2>4, <2>5, <3>1, <3>2 DEF Holds, At, K
  <2>10. \A u \in Thread \ {t}, j \in Key :
           thread[u].e # None /\ thread[u].e \in {read'[j], Lookup(dirty, j)'}
               => thread[u].e \in {read[j], Lookup(dirty, j)}
    BY <1>1, <2>5
  <2>11. \A u \in Thread \ {t} :
           At(u, "entry") /\ Op(u) \in Stores
               => p'[thread[u].e] = Expunged \/ read'[K(u)] = thread[u].e
    BY <1>1 DEF XInv, Reaches, Stores
  <2>12. mu' = (IF l.pc \in Critical THEN t ELSE None)
    BY <1>6, <1>12, <2>3
  <2>13. /\ l.pc = "entry" => l.op \notin Stores
         /\ \A j \in Key : l.e # None /\ l.e \in {read'[j], Lookup(dirty, j)'} => j = l.key
    BY <2>3
  <2> HIDE DEF todo
  <2> QED BY <1>5, <2>1, <2>3, <2>4, <2>6, <2>7, <2>8, <2>9, <2>10, <2>11, <2>12, <2>13, Solo
<1> QED BY <1>2, <1>8, <1>9, <1>10, <1>11, <1>12

\* The operation with mu held.
LEMMA OnEntryLockedStep ==
    ASSUME XInv, NEW t \in Thread, OnEntryLocked(t)
    PROVE  XInv'
<1> SUFFICES ASSUME NEW e, e = thread[t].e, NEW k, k = K(t), NEW r, r = EntryOp(t, p[e]) PROVE XInv'
  OBVIOUS
<1>1. /\ thread[t].pc = "locked" /\ UNCHANGED shared /\ p' = [p EXCEPT ![e] = r.p]
      /\ \/ /\ read[k] = None
            /\ thread' = [thread EXCEPT ![t].pc = "miss", ![t].res = r.res, ![t].e = None]
            /\ mu' = mu
         \/ Ret(t, r.res) /\ mu' = None
  BY DEF OnEntryLocked, At
<1>2. /\ thread[t] \in Local /\ OpOK(thread[t]) /\ mu = t
      /\ k = thread[t].key /\ Op(t) = thread[t].op /\ k \in Key
      /\ Op(t) \in {"Swap", "LoadOrStore", "CompareAndSwap"}
  BY <1>1, Goes DEF OpOK, WithEntry, K, Op, Critical, XInv, OpInv
<1>3. /\ e = IF read[k] # None THEN read[k] ELSE Lookup(dirty, k)
      /\ Op(t) # "CompareAndSwap" => p[e] # Expunged
  BY <1>1 DEF XInv, HeldInv, Holds, At
<1>4. e \in Entry /\ e # None
  BY <1>1, <1>2 DEF OpOK, WithEntry, Local
<1>5. p \in [Entry -> Val \cup {None, Expunged}]
  BY DEF XInv, SharedType
<1>6. /\ r.p \in Val \cup {None, Expunged}
      /\ r.p = Expunged <=> p[e] = Expunged
      /\ r.res \in Results
  <2>1. Op(t) \in Methods /\ Op(t) # "Range" /\ p[e] \in Val \cup {None, Expunged}
    BY <1>2, <1>4, <1>5 DEF Methods
  <2>2. p[e] = Expunged => Op(t) \notin {"Swap", "LoadOrStore"}
    BY <1>2, <1>3
  <2> QED BY <2>1, <2>2, EntryOps
<1>7. /\ p' \in [Entry -> Val \cup {None, Expunged}]
      /\ \A x \in Entry : p'[x] = Expunged <=> p[x] = Expunged
  BY <1>1, <1>4, <1>5, <1>6
<1>8. PICK l : /\ Moves(t, l) /\ l.e = None /\ l.pc \in {"miss", "ret"}
               /\ l.pc = "miss" => read[k] = None /\ mu' = t
               /\ l.pc = "ret" => mu' = None
  <2>1. CASE /\ read[k] = None
             /\ thread' = [thread EXCEPT ![t].pc = "miss", ![t].res = r.res, ![t].e = None]
             /\ mu' = mu
    <3> DEFINE l == [thread[t] EXCEPT !.pc = "miss", !.res = r.res, !.e = None]
    <3>1. thread' = [thread EXCEPT ![t] = l]
      BY <2>1 DEF XInv, ThreadType
    <3>2. /\ l \in Local /\ l.op = thread[t].op /\ l.key = thread[t].key /\ l.val = thread[t].val
          /\ l.pc = "miss" /\ l.e = None
      BY <1>2, <1>6 DEF Local, Label, Critical
    <3> HIDE DEF l
    <3> QED BY <1>2, <2>1, <3>1, <3>2 DEF Moves
  <2>2. CASE Ret(t, r.res) /\ mu' = None
    BY <1>6, <2>2, Goes
  <2> QED BY <1>1, <2>1, <2>2
<1>9. /\ l \in Local /\ thread' = [thread EXCEPT ![t] = l] /\ thread'[t] = l /\ OpOK(l)
  <2>1. l \in Local /\ thread' = [thread EXCEPT ![t] = l] /\ OpOK(l)
    BY <1>1, <1>2, <1>8 DEF Moves, OpOK, Critical, WithEntry
  <2> QED BY <2>1, Others
<1>10. Holds(t)'
  <2>1. At(t, "miss")' => dirty' # NoMap
    BY <1>1, <1>3, <1>4, <1>8, <1>9 DEF At, shared, Lookup
  <2> QED BY <1>8, <1>9, <2>1 DEF Holds, At
<1>11. mu' = (IF l.pc \in Critical THEN t ELSE None)
  BY <1>8 DEF Critical
<1>12. /\ thread[t].pc # "dirty" /\ l.pc # "dirty" /\ l.pc # "entry" /\ mu \in {None, t}
       /\ UNCHANGED shared
  BY <1>1, <1>2, <1>8
<1> QED BY <1>7, <1>8, <1>9, <1>10, <1>11, <1>12, Keeps

\* The dirty map after one key of it was set; nothing else has the entry.
LEMMA DirtySet ==
    ASSUME XInv, dirty # NoMap, NEW k \in Key, NEW e \in Entry, dirty' = [dirty EXCEPT ![k] = e]
    PROVE  /\ dirty \in Map /\ dirty' \in Map /\ dirty' # NoMap
           /\ \A j \in Key : /\ Lookup(dirty, j) = dirty[j] /\ Lookup(dirty, j)' = dirty'[j]
                             /\ dirty'[j] = IF j = k THEN e ELSE dirty[j]
<1>1. dirty \in Map
  BY DEF XInv, SharedType
<1>2. dirty' \in Map /\ \A j \in Key : dirty'[j] = IF j = k THEN e ELSE dirty[j]
  BY <1>1 DEF Map
<1>3. dirty' # NoMap
  BY <1>2, Entries
<1> QED BY <1>1, <1>2, <1>3 DEF Lookup

\* An expunged entry gets back into the dirty map.
LEMMA UnexpungeStep ==
    ASSUME XInv, NEW t \in Thread, UnexpungeLocked(t)
    PROVE  XInv'
<1> SUFFICES ASSUME NEW e, e = thread[t].e, NEW k, k = K(t) PROVE XInv'
  OBVIOUS
<1>1. /\ thread[t].pc = "unexpunge" /\ Goto(t, "locked")
      /\ UNCHANGED <<read, amended, misses, mu>>
      /\ \/ p[e] = Expunged /\ p' = [p EXCEPT ![e] = None] /\ dirty' = [dirty EXCEPT ![k] = e]
         \/ p[e] # Expunged /\ UNCHANGED <<p, dirty>>
  BY DEF UnexpungeLocked, At
<1>2. /\ thread[t] \in Local /\ OpOK(thread[t]) /\ mu = t
      /\ k = thread[t].key /\ k \in Key /\ e = read[k]
  BY <1>1, Goes DEF OpOK, WithEntry, K, Critical, XInv, OpInv, HeldInv, Holds, At
<1>3. e \in Entry /\ e # None
  BY <1>1, <1>2 DEF OpOK, WithEntry, Local
<1>4. p \in [Entry -> Val \cup {None, Expunged}] /\ None # Expunged
  BY MapAssumption DEF XInv, SharedType
<1>5. PICK l : Moves(t, l) /\ l.pc = "locked" /\ l.e = e
  <2>1. "locked" \in Label
    BY DEF Label, Critical
  <2> QED BY <1>1, <2>1, Goes
<1>6. /\ l \in Local /\ thread' = [thread EXCEPT ![t] = l] /\ thread'[t] = l /\ OpOK(l)
      /\ l.key = k
  <2>1. l \in Local /\ thread' = [thread EXCEPT ![t] = l] /\ OpOK(l) /\ l.key = k
    BY <1>1, <1>2, <1>3, <1>5 DEF Moves, OpOK, Critical, WithEntry
  <2> QED BY <2>1, Others
<1>7. Holds(t)'
  <2>1. p'[e] # Expunged
    BY <1>1, <1>3, <1>4
  <2>2. K(t)' = k /\ thread'[t].e = e /\ read' = read
    BY <1>1, <1>5, <1>6 DEF K
  <2> QED BY <1>2, <1>3, <1>5, <1>6, <2>1, <2>2 DEF Holds, At
<1>8. mu' = (IF l.pc \in Critical THEN t ELSE None)
  BY <1>1, <1>2, <1>5 DEF Critical
<1>9. mu \in {None, t} /\ l.pc # "dirty" /\ l.pc # "entry" /\ thread[t].pc # "dirty"
  BY <1>1, <1>2, <1>5
<1>10. amended = (dirty # NoMap) /\ \A j \in Key : EntryState(j)
  BY <1>9, Settled
<1>11. CASE p[e] # Expunged /\ UNCHANGED <<p, dirty>>
  <2>1. /\ UNCHANGED shared /\ p' \in [Entry -> Val \cup {None, Expunged}] /\ p' = p
        /\ l.key \in Key /\ l.e = read[l.key]
    BY <1>1, <1>2, <1>4, <1>5, <1>6, <1>11 DEF shared
  <2> QED BY <1>6, <1>7, <1>8, <1>9, <2>1, Keeps
<1>12. CASE p[e] = Expunged /\ p' = [p EXCEPT ![e] = None] /\ dirty' = [dirty EXCEPT ![k] = e]
  <2>1. dirty # NoMap /\ dirty[k] = None
    BY <1>2, <1>3, <1>10, <1>12 DEF EntryState
  <2>2. /\ dirty' \in Map /\ dirty' # NoMap
        /\ \A j \in Key : /\ Lookup(dirty, j) = dirty[j] /\ Lookup(dirty, j)' = dirty'[j]
                          /\ dirty'[j] = IF j = k THEN e ELSE dirty[j]
    BY <1>2, <1>3, <1>12, <2>1, DirtySet
  <2>3. p' \in [Entry -> Val \cup {None, Expunged}] /\ p'[e] = None
        /\ \A x \in Entry \ {e} : p'[x] = p[x]
    BY <1>3, <1>4, <1>12
  <2>4. SharedType'
    BY <1>1, <2>2, <2>3 DEF XInv, SharedType
  <2>5. \A j \in Key \ {k} : read[j] # e /\ dirty[j] # e
    BY <1>2, <1>3, <2>2 DEF XInv, OneKey
  <2>6. OneKey'
    <3>1. \A i, j \in Key : read[i] # None /\ read[i] = read[j] => i = j
      BY DEF XInv, OneKey
    <3>2. \A i, j \in Key : dirty[i] # None /\ dirty[i] \in {dirty[j], read[j]} => i = j
      BY <2>2 DEF XInv, OneKey
    <3>3. \A i, j \in Key : dirty'[i] # None /\ dirty'[i] \in {dirty'[j], read[j]} => i = j
      BY <1>2, <2>2, <2>5, <3>2
    <3> QED BY <1>1, <2>2, <3>1, <3>3 DEF OneKey
  <2>7. MapInv'
    <3>1. ASSUME NEW j \in Key PROVE EntryState(j)'
      <4>1. CASE j = k
        BY <1>1, <1>2, <1>4, <2>2, <2>3, <4>1 DEF EntryState
      <4>2. CASE j # k
        <5>1. read[j] # None => p'[read[j]] = p[read[j]]
          BY <2>3, <2>5, <4>2, Entries
        <5> QED BY <1>1, <1>10, <2>1, <2>2, <4>2, <5>1 DEF EntryState
      <4> QED BY <4>1, <4>2
    <3>2. ASSUME NEW j \in Key, Lookup(dirty, j)' # None
          PROVE  p'[Lookup(dirty, j)'] # Expunged
      <4>1. CASE j = k
        BY <1>4, <2>2, <2>3, <4>1
      <4>2. CASE j # k
        <5>1. dirty[j] # None /\ dirty[j] # e /\ dirty[j] \in Entry /\ p[dirty[j]] # Expunged
          BY <2>2, <2>5, <3>2, <4>2, Entries DEF XInv, MapInv
        <5> QED BY <2>2, <2>3, <4>2, <5>1
      <4> QED BY <4>1, <4>2
    <3> QED BY <1>1, <1>10, <2>1, <2>2, <3>1, <3>2 DEF MapInv
  <2>8. \A j \in Key : l.e # None /\ l.e \in {read'[j], Lookup(dirty, j)'} => j = l.key
    BY <1>1, <1>5, <1>6, <2>2, <2>5
  <2>9. \A u \in Thread \ {t}, j \in Key :
          thread[u].e # None /\ thread[u].e \in {read'[j], Lookup(dirty, j)'}
              => thread[u].e \in {read[j], Lookup(dirty, j)}
    BY <1>1, <1>2, <2>2
  <2>10. ASSUME NEW u \in Thread \ {t}, At(u, "entry"), Op(u) \in Stores
         PROVE  p'[thread[u].e] = Expunged \/ read'[K(u)] = thread[u].e
    <3>1. thread[u].e \in Entry /\ thread[u].e # None
      BY <2>10, Entries
    <3>2. CASE thread[u].e = e
      <4>1. k = K(u)
        BY <1>2, <3>1, <3>2 DEF XInv, MyKey, K
      <4> QED BY <1>1, <1>2, <3>2, <4>1
    <3>3. CASE thread[u].e # e
      <4>1. p[thread[u].e] = Expunged \/ read[K(u)] = thread[u].e
        BY <2>10 DEF XInv, Reaches, Stores
      <4> QED BY <1>1, <2>3, <3>1, <3>3, <4>1
    <3> QED BY <3>2, <3>3
  <2> QED BY <1>6, <1>7, <1>8, <1>9, <2>4, <2>6, <2>7, <2>8, <2>9, <2>10, Solo
<1> QED BY <1>1, <1>11, <1>12

\* One iteration of dirtyLocked.
LEMMA DirtyStep ==
    ASSUME XInv, NEW t \in Thread, DirtyLocked(t)
    PROVE  XInv'
<1>1. PICK k \in thread[t].todo :
        /\ \/ /\ p[read[k]] \in {None, Expunged}
              /\ p' = [p EXCEPT ![read[k]] = Expunged] /\ dirty' = dirty
           \/ /\ p[read[k]] \notin {None, Expunged}
              /\ dirty' = [dirty EXCEPT ![k] = read[k]] /\ p' = p
        /\ thread' = [thread EXCEPT ![t].todo = @ \ {k}]
  BY DEF DirtyLocked
<1>2. thread[t].pc = "dirty" /\ UNCHANGED <<read, amended, misses, mu>>
  BY DEF DirtyLocked, At
<1>3. /\ thread[t] \in Local /\ OpOK(thread[t]) /\ mu = t /\ thread[t].e = None
      /\ Holds(t) /\ K(t) = thread[t].key /\ K(t) \in Key
  BY <1>2, Goes DEF OpOK, WithEntry, K, Critical, XInv, OpInv, HeldInv
<1>4. /\ k \in Key /\ read[k] # None /\ p[read[k]] # Expunged /\ dirty[k] = None
      /\ dirty # NoMap /\ read[K(t)] = None /\ dirty[K(t)] = None /\ ~amended
      /\ \A j \in thread[t].todo :
            j \in Key /\ read[j] # None /\ p[read[j]] # Expunged /\ dirty[j] = None
  BY <1>2, <1>3 DEF Holds, At
<1> SUFFICES ASSUME NEW e, e = read[k] PROVE XInv'
  OBVIOUS
<1>5. e \in Entry /\ p \in [Entry -> Val \cup {None, Expunged}] /\ dirty \in Map
      /\ SharedType
  BY <1>4, Entries DEF XInv, SharedType
<1> DEFINE l == [thread[t] EXCEPT !.todo = thread[t].todo \ {k}]
<1>6. /\ thread' = [thread EXCEPT ![t] = l]
      /\ l \in Local /\ l.pc = "dirty" /\ l.e = None /\ l.todo = thread[t].todo \ {k}
      /\ l.op = thread[t].op /\ l.key = thread[t].key /\ l.val = thread[t].val
  BY <1>1, <1>2, <1>3 DEF Local, XInv, ThreadType
<1> HIDE DEF l
<1>7. OpOK(l) /\ thread'[t] = l /\ \A u \in Thread \ {t} : thread'[u] = thread[u]
  <2>1. OpOK(l)
    BY <1>2, <1>3, <1>6 DEF OpOK, WithEntry, Critical
  <2> QED BY <1>6, <2>1, Others
<1>8. \A j \in Key \ {k} : read[j] # e
  BY <1>4 DEF XInv, OneKey
<1>9. \A j \in Key : ToCopy(j) => j \in thread[t].todo
  BY <1>3, Alone DEF ToCopy, At, Critical
<1>10. At(t, "dirty")' /\ \A j \in Key : j \in thread[t].todo \ {k} => ToCopy(j)'
  BY <1>6, <1>7 DEF ToCopy, At
<1>11. \A j \in Key : Lookup(dirty, j) = dirty[j]
  BY <1>4 DEF Lookup
<1>12. \A j \in Key : dirty[j] # e
  BY <1>4, <1>11 DEF XInv, OneKey
<1>13. mu \in {None, t} /\ mu' = (IF l.pc \in Critical THEN t ELSE None)
  BY <1>2, <1>3, <1>6 DEF Critical
<1>14. /\ l.pc = "entry" => l.op \notin Stores
       /\ \A j \in Key : l.e # None /\ l.e \in {read'[j], Lookup(dirty, j)'} => j = l.key
  BY <1>6
<1>15. CASE p[e] \in {None, Expunged} /\ p' = [p EXCEPT ![e] = Expunged] /\ dirty' = dirty
  <2>1. /\ p' \in [Entry -> Val \cup {None, Expunged}] /\ p'[e] = Expunged
        /\ \A x \in Entry \ {e} : p'[x] = p[x]
    BY <1>5, <1>15
  <2>2. \A j \in Key : Lookup(dirty, j)' = dirty[j]
    BY <1>4, <1>15 DEF Lookup
  <2>3. SharedType'
    BY <1>2, <1>5, <1>15, <2>1 DEF SharedType
  <2>4. OneKey'
    BY <1>2, <1>11, <2>2 DEF XInv, OneKey
  <2>5. MapInv'
    <3>1. ASSUME NEW j \in Key PROVE EntryState(j)' \/ ToCopy(j)'
      <4>1. CASE j = k
        BY <1>2, <1>4, <1>15, <2>1, <4>1 DEF EntryState
      <4>2. CASE j # k /\ j \in thread[t].todo
        BY <1>10, <4>2
      <4>3. CASE j # k /\ EntryState(j)
        <5>1. read[j] # None => p'[read[j]] = p[read[j]]
          BY <1>8, <2>1, <4>3, Entries
        <5> QED BY <1>2, <1>15, <4>3, <5>1 DEF EntryState
      <4> QED BY <1>9, <4>1, <4>2, <4>3 DEF XInv, MapInv
    <3>2. \A j \in Key : Lookup(dirty, j)' # None => p'[Lookup(dirty, j)'] # Expunged
      BY <1>11, <1>12, <2>1, <2>2, Entries DEF XInv, MapInv
    <3> QED BY <1>10, <3>1, <3>2 DEF MapInv
  <2>6. Holds(t)'
    <3>1. \A j \in l.todo : j \in Key /\ read[j] # None /\ p'[read[j]] # Expunged /\ dirty[j] = None
      BY <1>4, <1>6, <1>8, <2>1, Entries
    <3> QED BY <1>2, <1>3, <1>4, <1>6, <1>7, <1>15, <3>1 DEF Holds, At, K
  <2>7. \A u \in Thread \ {t}, j \in Key :
          thread[u].e # None /\ thread[u].e \in {read'[j], Lookup(dirty, j)'}
              => thread[u].e \in {read[j], Lookup(dirty, j)}
    BY <1>2, <1>11, <2>2
  <2>8. \A u \in Thread \ {t} :
          At(u, "entry") /\ Op(u) \in Stores
              => p'[thread[u].e] = Expunged \/ read'[K(u)] = thread[u].e
    BY <1>2, <2>1, Entries DEF XInv, Reaches, Stores
  <2> QED BY <1>6, <1>7, <1>13, <1>14, <2>3, <2>4, <2>5, <2>6, <2>7, <2>8, Solo
<1>16. CASE p[e] \notin {None, Expunged} /\ dirty' = [dirty EXCEPT ![k] = e] /\ p' = p
  <2>1. /\ dirty' \in Map /\ dirty' # NoMap
        /\ \A j \in Key : /\ Lookup(dirty, j)' = dirty'[j]
                          /\ dirty'[j] = IF j = k THEN e ELSE dirty[j]
    <3>1. dirty # NoMap /\ k \in Key /\ e \in Entry /\ dirty' = [dirty EXCEPT ![k] = e]
      BY <1>4, <1>5, <1>16
    <3> QED BY <3>1, DirtySet
  <2>2. SharedType'
    BY <1>2, <1>5, <1>16, <2>1 DEF SharedType
  <2>3. OneKey'
    <3>1. \A i, j \in Key : read[i] # None /\ read[i] = read[j] => i = j
      BY DEF XInv, OneKey
    <3>2. \A i, j \in Key : dirty[i] # None /\ dirty[i] \in {dirty[j], read[j]} => i = j
      BY <1>11 DEF XInv, OneKey
    <3>3. \A i, j \in Key : dirty'[i] # None /\ dirty'[i] \in {dirty'[j], read[j]} => i = j
      BY <1>8, <1>12, <2>1, <3>2
    <3> QED BY <1>2, <2>1, <3>1, <3>3 DEF OneKey
  <2>4. MapInv'
    <3>1. ASSUME NEW j \in Key PROVE EntryState(j)' \/ ToCopy(j)'
      <4>1. CASE j = k
        BY <1>2, <1>4, <1>16, <2>1, <4>1 DEF EntryState
      <4>2. CASE j # k /\ j \in thread[t].todo
        BY <1>10, <4>2
      <4>3. CASE j # k /\ EntryState(j)
        BY <1>2, <1>4, <1>16, <2>1, <4>3 DEF EntryState
      <4> QED BY <1>9, <4>1, <4>2, <4>3 DEF XInv, MapInv
    <3>2. ASSUME NEW j \in Key, Lookup(dirty, j)' # None
          PROVE  p'[Lookup(dirty, j)'] # Expunged
      <4>1. CASE j = k
        <5>1. Lookup(dirty, j)' = e
          BY <2>1, <4>1
        <5>2. p'[e] # Expunged
          BY <1>16
        <5> QED BY <5>1, <5>2
      <4>2. CASE j # k
        <5>1. dirty[j] # None => p[dirty[j]] # Expunged
          BY <1>11 DEF XInv, MapInv
        <5> QED BY <1>16, <2>1, <3>2, <4>2, <5>1, ZenonT(60)
      <4> QED BY <4>1, <4>2
    <3> QED BY <1>10, <3>1, <3>2 DEF MapInv
  <2>5. Holds(t)'
    <3>1. \A j \in l.todo : j \in Key /\ read[j] # None /\ p[read[j]] # Expunged /\ dirty'[j] = None
      BY <1>4, <1>6, <2>1
    <3>2. dirty'[K(t)] = None
      BY <1>3, <1>4, <2>1
    <3> QED BY <1>2, <1>3, <1>4, <1>6, <1>7, <1>16, <2>1, <3>1, <3>2 DEF Holds, At, K
  <2>6. \A u \in Thread \ {t}, j \in Key :
          thread[u].e # None /\ thread[u].e \in {read'[j], Lookup(dirty, j)'}
              => thread[u].e \in {read[j], Lookup(dirty, j)}
    BY <1>2, <1>11, <2>1
  <2>7. \A u \in Thread \ {t} :
          At(u, "entry") /\ Op(u) \in Stores
              => p'[thread[u].e] = Expunged \/ read'[K(u)] = thread[u].e
    BY <1>2, <1>16 DEF XInv, Reaches, Stores
  <2> QED BY <1>6, <1>7, <1>13, <1>14, <2>2, <2>3, <2>4, <2>5, <2>6, <2>7, Solo
<1> QED BY <1>1, <1>15, <1>16

\* A new entry, which nothing has yet.
LEMMA InsertStep ==
    ASSUME XInv, NEW t \in Thread, Insert(t)
    PROVE  XInv'
<1> SUFFICES ASSUME NEW k, k = K(t) PROVE XInv'
  OBVIOUS
<1>1. PICK e \in Entry : /\ Unreachable(e) /\ p' = [p EXCEPT ![e] = thread[t].val]
                         /\ dirty' = [dirty EXCEPT ![k] = e]
  BY DEF Insert
<1>2. /\ thread[t].pc = "insert" \/ (thread[t].pc = "dirty" /\ thread[t].todo = {})
      /\ amended' = TRUE /\ mu' = None /\ UNCHANGED <<read, misses>>
      /\ Ret(t, <<thread[t].val, FALSE>>) \/ Ret(t, <<None>>)
  BY DEF Insert, At
<1>3. /\ thread[t] \in Local /\ OpOK(thread[t]) /\ mu = t /\ Holds(t)
      /\ k = thread[t].key /\ k \in Key /\ thread[t].val \in Val
  BY <1>2, Goes DEF OpOK, WithEntry, K, Critical, XInv, OpInv, HeldInv
<1>4. dirty # NoMap /\ read[k] = None /\ dirty[k] = None
  BY <1>2, <1>3 DEF Holds
<1>5. p \in [Entry -> Val \cup {None, Expunged}] /\ Expunged \notin Val /\ SharedType
      /\ None \notin Entry
  BY MapAssumption DEF XInv, SharedType
<1>6. PICK l : Moves(t, l) /\ l.pc = "ret" /\ l.e = None
  <2>1. <<thread[t].val, FALSE>> \in Results /\ <<None>> \in Results
    BY <1>3 DEF Results, Result
  <2> QED BY <1>2, <2>1, Goes
<1>7. /\ l \in Local /\ thread' = [thread EXCEPT ![t] = l] /\ thread'[t] = l /\ OpOK(l)
  <2>1. l \in Local /\ thread' = [thread EXCEPT ![t] = l] /\ OpOK(l)
    BY <1>2, <1>3, <1>6 DEF Moves, OpOK, Critical, WithEntry
  <2> QED BY <2>1, Others
<1>8. Holds(t)'
  BY <1>6, <1>7 DEF Holds, At
<1>9. mu \in {None, t} /\ mu' = (IF l.pc \in Critical THEN t ELSE None)
  BY <1>2, <1>3, <1>6 DEF Critical
<1>10. /\ dirty' \in Map /\ dirty' # NoMap
       /\ \A j \in Key : /\ Lookup(dirty, j) = dirty[j] /\ Lookup(dirty, j)' = dirty'[j]
                         /\ dirty'[j] = IF j = k THEN e ELSE dirty[j]
  BY <1>1, <1>3, <1>4, DirtySet
<1>11. /\ \A j \in Key : read[j] # e /\ dirty[j] # e
       /\ \A u \in Thread : thread[u].e # e
  BY <1>1, <1>10 DEF Unreachable
<1>12. /\ p' \in [Entry -> Val \cup {None, Expunged}] /\ p'[e] # Expunged
       /\ \A x \in Entry \ {e} : p'[x] = p[x]
  BY <1>1, <1>3, <1>5
<1>13. SharedType'
  BY <1>2, <1>5, <1>10, <1>12 DEF SharedType
<1>14. OneKey'
  <2>1. \A i, j \in Key : read[i] # None /\ read[i] = read[j] => i = j
    BY DEF XInv, OneKey
  <2>2. \A i, j \in Key : dirty[i] # None /\ dirty[i] \in {dirty[j], read[j]} => i = j
    BY <1>10 DEF XInv, OneKey
  <2>3. \A i, j \in Key : dirty'[i] # None /\ dirty'[i] \in {dirty'[j], read[j]} => i = j
    BY <1>10, <1>11, <2>2
  <2> QED BY <1>2, <1>10, <2>1, <2>3 DEF OneKey
<1>15. MapInv'
  <2>1. \A j \in Key : ~ToCopy(j)
    BY <1>2, <1>3, Alone DEF ToCopy, At, Critical
  <2>2. ASSUME NEW j \in Key PROVE EntryState(j)'
    <3>1. EntryState(j) /\ (read[j] # None => p'[read[j]] = p[read[j]])
      BY <1>11, <1>12, <2>1, Entries DEF XInv, MapInv
    <3> QED BY <1>2, <1>4, <1>10, <3>1 DEF EntryState
  <2>3. ASSUME NEW j \in Key, Lookup(dirty, j)' # None
        PROVE  p'[Lookup(dirty, j)'] # Expunged
    <3>1. CASE j = k
      BY <1>10, <1>12, <3>1
    <3>2. CASE j # k
      <4>1. dirty[j] # None /\ dirty[j] \in Entry \ {e} /\ p[dirty[j]] # Expunged
        BY <1>10, <1>11, <2>3, <3>2, Entries DEF XInv, MapInv
      <4> QED BY <1>10, <1>12, <3>2, <4>1
    <3> QED BY <3>1, <3>2
  <2> QED BY <1>2, <1>10, <2>2, <2>3 DEF MapInv
<1>16. \A u \in Thread \ {t}, j \in Key :
           thread[u].e # None /\ thread[u].e \in {read'[j], Lookup(dirty, j)'}
               => thread[u].e \in {read[j], Lookup(dirty, j)}
  BY <1>2, <1>10, <1>11
<1>17. \A u \in Thread \ {t} :
           At(u, "entry") /\ Op(u) \in Stores
               => p'[thread[u].e] = Expunged \/ read'[K(u)] = thread[u].e
  BY <1>2, <1>11, <1>12, Entries DEF XInv, Reaches, Stores
<1>18. /\ l.pc = "entry" => l.op \notin Stores
       /\ \A j \in Key : l.e # None /\ l.e \in {read'[j], Lookup(dirty, j)'} => j = l.key
  BY <1>6
<1> QED BY <1>7, <1>8, <1>9, <1>13, <1>14, <1>15, <1>16, <1>17, <1>18, Solo

-----------------------------------------------------------------------------
(* The theorems *)

LEMMA XInit == Init => XInv
<1> SUFFICES ASSUME Init PROVE XInv
  OBVIOUS
<1>1. /\ read = [k \in Key |-> None] /\ amended = FALSE /\ dirty = NoMap /\ misses = 0
      /\ mu = None /\ p = [x \in Entry |-> None] /\ thread = [t \in Thread |-> Idle]
  BY DEF Init
<1>2. SharedType
  BY <1>1 DEF SharedType, Map
<1>3. ThreadType /\ OpInv
  BY <1>1, IdleLocal, MapAssumption DEF ThreadType, OpInv, Critical
<1>4. \A k \in Key : read[k] = None /\ Lookup(dirty, k) = None
  BY <1>1 DEF Lookup
<1>5. \A t \in Thread : thread[t].pc = "idle" /\ thread[t].e = None
  BY <1>1, IdleLocal
<1>6. OneKey /\ MyKey /\ HeldInv /\ Reaches
  BY <1>4, <1>5 DEF OneKey, MyKey, HeldInv, Holds, Reaches, At
<1>7. MapInv
  BY <1>1, <1>4 DEF MapInv, EntryState
<1> QED BY <1>2, <1>3, <1>6, <1>7 DEF XInv

LEMMA XStep == XInv /\ [Next]_vars => XInv'
<1> SUFFICES ASSUME XInv, [Next]_vars PROVE XInv'
  OBVIOUS
<1>1. ASSUME NEW t \in Thread, Call(t) \/ Step(t) \/ Return(t) PROVE XInv'
  <2>1. CASE ReadMap(t) \/ OnEntry(t) \/ Call(t) \/ Return(t)
    BY <2>1, ReadMapStep, OnEntryStep, CallStep
  <2>2. CASE LookupLocked(t) \/ DeleteLocked(t) \/ Lock(t)
    BY <2>2, LookupStep, LockStep
  <2>3. CASE UnexpungeLocked(t) \/ OnEntryLocked(t) \/ Miss(t)
    BY <2>3, UnexpungeStep, OnEntryLockedStep, MissStep
  <2>4. CASE DirtyLocked(t) \/ Insert(t)
    BY <2>4, DirtyStep, InsertStep
  <2>5. CASE RangeRead(t) \/ RangePromote(t) \/ RangeVisit(t) \/ RangeEnd(t)
    BY <2>5, RangeStep, RangePromoteStep
  <2> QED BY <1>1, <2>1, <2>2, <2>3, <2>4, <2>5 DEF Step
<1>2. CASE UNCHANGED vars
  <2>1. UNCHANGED <<read, amended, dirty, misses, mu, p, thread>>
    BY <1>2 DEF vars, shared
  <2>2. SharedType' /\ ThreadType' /\ OpInv' /\ OneKey' /\ MyKey' /\ Reaches'
    BY <2>1 DEF XInv, SharedType, ThreadType, OpInv, OneKey, MyKey, Reaches, Lookup, At, Op, K
  <2>3. MapInv'
    BY <2>1 DEF XInv, MapInv, EntryState, ToCopy, Lookup, At
  <2>4. HeldInv'
    BY <2>1 DEF XInv, HeldInv, Holds, Lookup, At, Op, K
  <2> QED BY <2>2, <2>3, <2>4 DEF XInv
<1> QED BY <1>1, <1>2 DEF Next

\* The inductive invariant: what the two maps and the entries say of each other at
\* every step of every method, mu held or not.
THEOREM XsyncInductive == Spec => []XInv
<1> QED BY XInit, XStep, PTL DEF Spec

\* The types; mu is held exactly by a thread in a critical section, and a thread
\* has an entry exactly where it is going to use one.
THEOREM TypeCorrect == Spec => []TypeOK
<1>1. XInv => TypeOK
  <2> SUFFICES ASSUME XInv PROVE TypeOK
    OBVIOUS
  <2>1. SharedType /\ None \notin Entry
    BY MapAssumption DEF XInv
  <2>2. ASSUME NEW t \in Thread
        PROVE  /\ thread[t].pc \in {"idle", "read", "entry", "lock", "unexpunge", "locked",
                                    "miss", "dirty", "insert", "iter", "ret"}
               /\ (mu = t) <=> thread[t].pc \in {"unexpunge", "locked", "miss", "dirty", "insert"}
               /\ thread[t].pc \in {"entry", "unexpunge", "locked"} <=> thread[t].e \in Entry
    <3>1. thread[t] \in Local /\ OpOK(thread[t]) /\ ((mu = t) <=> thread[t].pc \in Critical)
      BY DEF XInv, ThreadType, OpInv
    <3>2. thread[t].pc \in Label /\ thread[t].e \in Entry \cup {None}
      BY <3>1 DEF Local
    <3> QED BY <2>1, <3>1, <3>2 DEF OpOK, WithEntry, Critical, Label
  <2> QED BY <2>1, <2>2 DEF SharedType, TypeOK
<1> QED BY <1>1, XsyncInductive, PTL

\* What the comments on entry and readOnly promise while nobody holds mu
\* (map.go:75, 85-97): amended says whether there is a dirty map, an expunged
\* entry is missing from it, and any other entry of the read map is in it.
THEOREM EntriesKept == Spec => []EntryStates
<1>1. XInv => EntryStates
  <2> SUFFICES ASSUME XInv, mu = None PROVE EntryStates
    BY DEF EntryStates
  <2>1. \A t \in Thread : ~At(t, "dirty")
    BY MapAssumption DEF XInv, OpInv, Critical, At
  <2>2. amended = (dirty # NoMap) /\ \A k \in Key : EntryState(k)
    BY <2>1 DEF XInv, MapInv, ToCopy
  <2> QED BY <2>2 DEF EntryStates, EntryState
<1> QED BY <1>1, XsyncInductive, PTL

\* The thread that unexpunges an entry has a dirty map to put it in
\* (map.go:355): Swap and LoadOrStore never assign to a nil map.
THEOREM UnexpungeSafe == Spec => []UnexpungeHasDirty
<1>1. XInv => UnexpungeHasDirty
  <2> SUFFICES ASSUME XInv, NEW t \in Thread, At(t, "unexpunge"), p[thread[t].e] = Expunged
               PROVE  dirty # NoMap /\ dirty[K(t)] = None
    BY DEF UnexpungeHasDirty
  <2>1. /\ mu = t /\ thread[t].pc # "dirty" /\ thread[t].e = read[K(t)]
        /\ thread[t].e # None /\ K(t) \in Key
    BY DEF XInv, OpInv, OpOK, Critical, WithEntry, At, K, HeldInv, Holds
  <2>2. EntryState(K(t))
    BY <2>1, Settled
  <2> QED BY <2>1, <2>2 DEF EntryState
<1> QED BY <1>1, XsyncInductive, PTL

\* A value that Swap or LoadOrStore stores lock-free is stored to the entry that
\* the map has for the key, or the store fails because the entry is expunged.
THEOREM StoresReach == Spec => []StoreReaches
<1>1. XInv => StoreReaches
  BY DEF XInv, Reaches, Stores, StoreReaches
<1> QED BY <1>1, XsyncInductive, PTL
=============================================================================
