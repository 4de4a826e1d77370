--------------------------- MODULE ConnPoolProofs ---------------------------
(***************************************************************************)
(* Proofs about ConnPool, for any callers, addresses and connections.      *)
(***************************************************************************)
EXTENDS ConnPool, TLAPS

(***************************************************************************)
(* The inductive invariant.  A caller's address and connections are those  *)
(* its place in getGRPCConn calls for, an unpublished connection is open   *)
(* and its creator's alone, and a pooled connection is open and belongs to *)
(* one address.  That the creator's connection is nobody else's, and not   *)
(* in the pool, is what makes it safe for the loser to close it.           *)
(***************************************************************************)
Holder(c) == pc[c] \in {"store", "close"}
Served(c) == pc[c] \in {"close", "using"}

OwnIsPrivate ==
  \A c \in Callers :
    /\ Holder(c) => own[c] \in open
    /\ ~Holder(c) => own[c] = None
    /\ \A d \in Callers : own[c] = own[d] /\ own[c] # None => c = d
    /\ \A a \in Addresses : own[c] = pool[a] => own[c] = None

PooledIsOpen ==
  /\ \A a \in Addresses : pool[a] # None => pool[a] \in open
  /\ \A a, b \in Addresses : pool[a] = pool[b] /\ pool[a] # None => a = b

PlaceOK ==
  \A c \in Callers :
    /\ pc[c] = "idle" <=> addr[c] = None
    /\ ~Served(c) => result[c] = None
    /\ Served(c) => result[c] # None /\ result[c] = pool[addr[c]]

IInv == TypeOK /\ OwnIsPrivate /\ PooledIsOpen /\ PlaceOK

-----------------------------------------------------------------------------
\* The invariant holds initially.
LEMMA InitIInv == Init => IInv
  BY PoolAssumption
  DEF Init, IInv, TypeOK, OwnIsPrivate, PooledIsOpen, PlaceOK, Holder, Served

\* Every step of a caller preserves the invariant.
LEMMA StepIInv ==
  ASSUME IInv, NEW c \in Callers, Step(c)
  PROVE  IInv'
<1> USE PoolAssumption
    DEF IInv, TypeOK, OwnIsPrivate, PooledIsOpen, PlaceOK, Holder, Served, GoTo
<1>1. CASE Call(c)
  BY <1>1 DEF Call
<1>2. CASE Load(c)
  BY <1>2 DEF Load
<1>3. CASE NewClient(c)
  BY <1>3 DEF NewClient
<1>4. CASE NewClientFails(c)
  BY <1>4 DEF NewClientFails
<1>5. CASE LoadOrStore(c)
  BY <1>5 DEF LoadOrStore
<1>6. CASE Close(c)
  BY <1>6 DEF Close
<1>7. CASE Done(c)
  BY <1>7 DEF Done
<1>8. QED
  BY <1>1, <1>2, <1>3, <1>4, <1>5, <1>6, <1>7 DEF Step

LEMMA InvariantHolds == Spec => []IInv
<1>1. IInv /\ [Next]_vars => IInv'
  <2>1. CASE Next
    BY <2>1, StepIInv DEF Next
  <2>2. CASE UNCHANGED vars
    BY <2>2
    DEF vars, IInv, TypeOK, OwnIsPrivate, PooledIsOpen, PlaceOK, Holder, Served
  <2>3. QED
    BY <2>1, <2>2
<1>2. QED
  BY InitIInv, <1>1, PTL DEF Spec

-----------------------------------------------------------------------------
\* A caller never holds a closed connection, whoever closed one.
THEOREM NeverClosedInUse == Spec => []NoClosedConnInUse
<1>1. IInv => NoClosedConnInUse
  BY DEF IInv, TypeOK, PooledIsOpen, PlaceOK, Served, NoClosedConnInUse
<1>2. QED
  BY <1>1, InvariantHolds, PTL

\* Types are kept.
THEOREM TypeCorrect == Spec => []TypeOK
<1>1. IInv => TypeOK
  BY DEF IInv
<1>2. QED
  BY <1>1, InvariantHolds, PTL

(***************************************************************************)
(* Where an open connection is kept.  Followed one connection at a time:   *)
(* no step overwrites what the pool has, and the one caller that has an    *)
(* unpublished connection keeps it until it stores or closes it.           *)
(***************************************************************************)
Pooled(x) == \E a \in Addresses : pool[a] = x
HeldBy(c, x) == own[c] = x /\ Holder(c)
Kept(x) == Pooled(x) \/ \E c \in Callers : HeldBy(c, x)

LEMMA NewIsHeld ==
  ASSUME IInv, NEW c \in Callers, Step(c), NEW x \in open', x \notin open
  PROVE  HeldBy(c, x)'
<1>1. NewClient(c)
  BY DEF Step, Call, Load, NewClient, NewClientFails, LoadOrStore, Close, Done
<1>2. own'[c] = x /\ pc'[c] = "store"
  BY <1>1 DEF NewClient, GoTo, IInv, TypeOK
<1>3. QED
  BY <1>2 DEF HeldBy, Holder

LEMMA PooledStays ==
  ASSUME IInv, NEW c \in Callers, Step(c), NEW x \in open, Pooled(x)
  PROVE  Pooled(x)'
<1>1. PICK a \in Addresses : pool[a] = x
  BY DEF Pooled
<1>2. pool[a] # None
  BY <1>1, PoolAssumption DEF IInv, TypeOK
<1>3. CASE LoadOrStore(c)
  BY <1>1, <1>2, <1>3 DEF LoadOrStore, IInv, TypeOK, Pooled
<1>4. CASE UNCHANGED pool
  BY <1>1, <1>4 DEF Pooled
<1>5. QED
  BY <1>3, <1>4 DEF Step, Call, Load, NewClient, NewClientFails, Close, Done

LEMMA HeldMovesOn ==
  ASSUME IInv, NEW c \in Callers, Step(c), NEW x \in open',
         NEW d \in Callers, HeldBy(d, x)
  PROVE  HeldBy(d, x)' \/ Pooled(x)'
<1> USE DEF HeldBy, Holder, GoTo, IInv, TypeOK
<1>1. CASE c # d
  <2>1. own'[d] = own[d] /\ pc'[d] = pc[d]
    BY <1>1 DEF Step, Call, Load, NewClient, NewClientFails, LoadOrStore, Close, Done
  <2>2. QED
    BY <2>1
<1>2. CASE c = d
  \* It is in a step that ends its hold: it stores, or closes what is then no longer open.
  <2>1. LoadOrStore(c) \/ Close(c)
    BY <1>2 DEF Step, Call, Load, NewClient, NewClientFails, Done
  <2>2. ~Close(c)
    BY <1>2 DEF Close
  <2>3. addr[c] \in Addresses
    BY <2>1, <2>2 DEF LoadOrStore, PlaceOK
  <2>4. QED
    BY <1>2, <2>1, <2>2, <2>3 DEF LoadOrStore, Pooled
<1>3. QED
  BY <1>1, <1>2

\* Every open connection is in the pool or about to be stored or closed.
THEOREM NeverLeaks == Spec => []NoConnLeaks
<1> DEFINE AllKept == \A x \in open : Kept(x)
<1>1. AllKept => NoConnLeaks
  BY DEF Kept, Pooled, HeldBy, Holder, NoConnLeaks
<1>2. Init => AllKept
  BY DEF Init
<1>3. ASSUME IInv, AllKept, NEW c \in Callers, Step(c)
      PROVE  AllKept'
  BY <1>3, NewIsHeld, PooledStays, HeldMovesOn DEF Kept
<1>4. AllKept /\ UNCHANGED vars => AllKept'
  BY DEF vars, Kept, Pooled, HeldBy, Holder
<1> HIDE DEF AllKept
<1>5. IInv /\ AllKept /\ [Next]_vars => AllKept'
  BY <1>3, <1>4 DEF Next
<1>6. QED
  BY <1>1, <1>2, <1>5, InvariantHolds, PTL DEF Spec

-----------------------------------------------------------------------------
(***************************************************************************)
(* getGRPCConn implements ConnCache: its steps before the one that decides *)
(* the answer, and Close after it, are stuttering steps of the cache.      *)
(***************************************************************************)
LEMMA InitRefines == Init => Cache!Init
  BY DEF Init, Cache!Init

LEMMA StepRefines ==
  ASSUME IInv, NEW c \in Callers, Step(c)
  PROVE  [Cache!Next]_(Cache!cacheVars)
<1> USE PoolAssumption DEF IInv, TypeOK, OwnIsPrivate, PooledIsOpen, PlaceOK,
                           Holder, Served, GoTo, Cache!cacheVars
<1>1. CASE Call(c)
  <2>1. Cache!Ask(c)
    BY <1>1 DEF Call, Cache!Ask
  <2>2. QED
    BY <2>1 DEF Cache!Next
<1>2. CASE Load(c)
  <2>1. CASE pool[addr[c]] # None
    <3>1. Cache!Reuse(c)
      BY <1>2, <2>1 DEF Load, Cache!Reuse
    <3>2. QED
      BY <3>1 DEF Cache!Next
  <2>2. CASE pool[addr[c]] = None
    BY <1>2, <2>2 DEF Load
  <2>3. QED
    BY <2>1, <2>2
<1>3. CASE NewClient(c)
  BY <1>3 DEF NewClient
<1>4. CASE NewClientFails(c)
  <2>1. Cache!Forget(c)
    BY <1>4 DEF NewClientFails, Cache!Forget
  <2>2. QED
    BY <2>1 DEF Cache!Next
<1>5. CASE LoadOrStore(c)
  <2>1. CASE pool[addr[c]] # None
    <3>1. Cache!Reuse(c)
      BY <1>5, <2>1 DEF LoadOrStore, Cache!Reuse
    <3>2. QED
      BY <3>1 DEF Cache!Next
  <2>2. CASE pool[addr[c]] = None
    <3>1. Cache!Create(c)
      BY <1>5, <2>2 DEF LoadOrStore, Cache!Create
    <3>2. QED
      BY <3>1 DEF Cache!Next
  <2>3. QED
    BY <2>1, <2>2
<1>6. CASE Close(c)
  BY <1>6 DEF Close
<1>7. CASE Done(c)
  <2>1. Cache!Forget(c)
    BY <1>7 DEF Done, Cache!Forget
  <2>2. QED
    BY <2>1 DEF Cache!Next
<1>8. QED
  BY <1>1, <1>2, <1>3, <1>4, <1>5, <1>6, <1>7 DEF Step

\* The pool is a cache with atomic gets: one connection per address for ever.
THEOREM PoolImplementsCache == Spec => CacheSpec
<1>1. IInv /\ [Next]_vars => [Cache!Next]_(Cache!cacheVars)
  <2>1. CASE Next /\ IInv
    BY <2>1, StepRefines DEF Next
  <2>2. CASE UNCHANGED vars
    BY <2>2 DEF vars, Cache!cacheVars
  <2>3. QED
    BY <2>1, <2>2
<1>2. QED
  BY <1>1, InitRefines, InvariantHolds, PTL DEF Spec, CacheSpec, Cache!Spec
=============================================================================
