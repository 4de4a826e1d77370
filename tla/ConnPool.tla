------------------------------ MODULE ConnPool ------------------------------
(***************************************************************************)
(* getGRPCConn, internal/proxy/route_dispatcher.go:27-51: the pool of gRPC *)
(* connections the requests share, a sync.Map from address to ClientConn.  *)
(*                                                                         *)
(* Load, NewClient, LoadOrStore and Close are separate steps of a caller,  *)
(* and any number of callers may look for the same address at once.        *)
(***************************************************************************)
EXTENDS FiniteSets

CONSTANTS
  Callers,    \* slots, each getting one connection after another
  Addresses,  \* the backend addresses
  Conns,      \* bound: the connections a behaviour may create
  None

ASSUME PoolAssumption == None \notin Conns /\ None \notin Addresses

VARIABLES
  pc,      \* where each caller is in getGRPCConn
  addr,    \* the address it looks for
  own,     \* the connection it created itself
  result,  \* the connection it was given
  pool,    \* grpcConnPool
  created, \* the connections ever created
  open     \* those not closed

vars == <<pc, addr, own, result, pool, created, open>>

Init ==
  /\ pc = [c \in Callers |-> "idle"]
  /\ addr = [c \in Callers |-> None]
  /\ own = [c \in Callers |-> None]
  /\ result = [c \in Callers |-> None]
  /\ pool = [a \in Addresses |-> None]
  /\ created = {}
  /\ open = {}

GoTo(c, label) == pc' = [pc EXCEPT ![c] = label]

Call(c) ==
  /\ pc[c] = "idle"
  /\ \E a \in Addresses : addr' = [addr EXCEPT ![c] = a]
  /\ GoTo(c, "load")
  /\ UNCHANGED <<own, result, pool, created, open>>

\* grpcConnPool.Load: the pooled connection, or on to create one.
Load(c) ==
  /\ pc[c] = "load"
  /\ IF pool[addr[c]] # None
     THEN /\ result' = [result EXCEPT ![c] = pool[addr[c]]]
          /\ GoTo(c, "using")
     ELSE /\ GoTo(c, "create")
          /\ UNCHANGED result
  /\ UNCHANGED <<addr, own, pool, created, open>>

\* grpc.NewClient, which may fail.
NewClient(c) ==
  /\ pc[c] = "create"
  /\ \E x \in Conns \ created :
       /\ created' = created \cup {x}
       /\ open' = open \cup {x}
       /\ own' = [own EXCEPT ![c] = x]
  /\ GoTo(c, "store")
  /\ UNCHANGED <<addr, result, pool>>

\* Mutated: the error is ignored.
NewClientFailsOn(c) ==
  /\ pc[c] = "create"
  /\ GoTo(c, "store")
  /\ UNCHANGED <<addr, own, result, pool, created, open>>

NewClientFails(c) ==
  /\ pc[c] = "create"
  /\ GoTo(c, "idle")
  /\ addr' = [addr EXCEPT ![c] = None]
  /\ UNCHANGED <<own, result, pool, created, open>>

\* Mutated: a plain Store, or a loser that does not close.
StoreAlways(c) ==
  /\ pc[c] = "store"
  /\ pool' = [pool EXCEPT ![addr[c]] = own[c]]
  /\ result' = [result EXCEPT ![c] = own[c]]
  /\ own' = [own EXCEPT ![c] = None]
  /\ GoTo(c, "using")
  /\ UNCHANGED <<addr, created, open>>

LoadOrStoreOnly(c) ==
  /\ pc[c] = "store"
  /\ LET found == pool[addr[c]]
         conn == IF found # None THEN found ELSE own[c]
     IN  /\ pool' = [pool EXCEPT ![addr[c]] = conn]
         /\ result' = [result EXCEPT ![c] = conn]
  /\ own' = [own EXCEPT ![c] = None]
  /\ GoTo(c, "using")
  /\ UNCHANGED <<addr, created, open>>

\* grpcConnPool.LoadOrStore: the first to get here stores its connection, a
\* later one takes that and goes on to close its own.
LoadOrStore(c) ==
  /\ pc[c] = "store"
  /\ IF pool[addr[c]] # None
     THEN /\ result' = [result EXCEPT ![c] = pool[addr[c]]]
          /\ GoTo(c, "close")
          /\ UNCHANGED <<pool, own>>
     ELSE /\ pool' = [pool EXCEPT ![addr[c]] = own[c]]
          /\ result' = [result EXCEPT ![c] = own[c]]
          /\ own' = [own EXCEPT ![c] = None]
          /\ GoTo(c, "using")
  /\ UNCHANGED <<addr, created, open>>

\* Mutated: closes the connection it was given.
CloseGiven(c) ==
  /\ pc[c] = "close"
  /\ open' = open \ {result[c]}
  /\ own' = [own EXCEPT ![c] = None]
  /\ GoTo(c, "using")
  /\ UNCHANGED <<addr, result, pool, created>>

Close(c) ==
  /\ pc[c] = "close"
  /\ open' = open \ {own[c]}
  /\ own' = [own EXCEPT ![c] = None]
  /\ GoTo(c, "using")
  /\ UNCHANGED <<addr, result, pool, created>>

\* The gRPC call is over; the connection stays in the pool.
Done(c) ==
  /\ pc[c] = "using"
  /\ GoTo(c, "idle")
  /\ addr' = [addr EXCEPT ![c] = None]
  /\ result' = [result EXCEPT ![c] = None]
  /\ UNCHANGED <<own, pool, created, open>>

Step(c) ==
  \/ Call(c) \/ Load(c) \/ NewClient(c) \/ NewClientFails(c)
  \/ LoadOrStore(c) \/ Close(c) \/ Done(c)

Next == \E c \in Callers : Step(c)

Spec == Init /\ [][Next]_vars

-----------------------------------------------------------------------------
\* Every variable has its type, and a caller about to store or close a
\* connection has one.
TypeOK ==
  /\ pc \in [Callers -> {"idle", "load", "create", "store", "close", "using"}]
  /\ addr \in [Callers -> Addresses \cup {None}]
  /\ own \in [Callers -> Conns \cup {None}]
  /\ result \in [Callers -> Conns \cup {None}]
  /\ pool \in [Addresses -> Conns \cup {None}]
  /\ created \subseteq Conns
  /\ open \subseteq created
  /\ \A c \in Callers : pc[c] \in {"store", "close"} => own[c] # None

\* Nobody holds a closed connection: the one a caller was given is the pooled
\* one of its address, and the losers of LoadOrStore closed only their own.
NoClosedConnInUse ==
  \A c \in Callers :
    pc[c] \in {"close", "using"} =>
      result[c] \in open /\ result[c] = pool[addr[c]]

\* No connection leaks: one that is open is in the pool, or is still the
\* unpublished one of a caller that will store or close it.
NoConnLeaks ==
  \A x \in open :
    \/ \E a \in Addresses : pool[a] = x
    \/ \E c \in Callers : own[c] = x /\ pc[c] \in {"store", "close"}

\* getGRPCConn is a get from a cache: it takes effect at Load, when that finds
\* a connection, and otherwise at LoadOrStore.
Cache == INSTANCE ConnCache WITH cache <- pool, want <- addr, got <- result

CacheSpec == Cache!Spec
=============================================================================
