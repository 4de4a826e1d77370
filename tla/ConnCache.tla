----------------------------- MODULE ConnCache -----------------------------
(***************************************************************************)
(* What a cache of connections promises its callers: a get is answered in  *)
(* one step, with the one connection the address has for ever, or, while   *)
(* the address has none, with an error.                                    *)
(***************************************************************************)
CONSTANTS Callers, Addresses, Conns, None

VARIABLES
  cache,   \* the connection of each address, or None
  want,    \* the address each caller asked for, or None
  got      \* the connection each caller was given, or None

cacheVars == <<cache, want, got>>

Init ==
  /\ cache = [a \in Addresses |-> None]
  /\ want = [c \in Callers |-> None]
  /\ got = [c \in Callers |-> None]

Ask(c) ==
  /\ want[c] = None
  /\ \E a \in Addresses : want' = [want EXCEPT ![c] = a]
  /\ UNCHANGED <<cache, got>>

\* The first successful get of an address creates its connection, which no
\* other address has.
Create(c) ==
  /\ want[c] # None /\ got[c] = None
  /\ cache[want[c]] = None
  /\ \E x \in Conns :
       /\ \A a \in Addresses : cache[a] # x
       /\ cache' = [cache EXCEPT ![want[c]] = x]
       /\ got' = [got EXCEPT ![c] = x]
  /\ UNCHANGED want

Reuse(c) ==
  /\ want[c] # None /\ got[c] = None
  /\ cache[want[c]] # None
  /\ got' = [got EXCEPT ![c] = cache[want[c]]]
  /\ UNCHANGED <<cache, want>>

\* The caller is done with the connection, or was told there is none.
Forget(c) ==
  /\ want[c] # None
  /\ want' = [want EXCEPT ![c] = None]
  /\ got' = [got EXCEPT ![c] = None]
  /\ UNCHANGED cache

Next == \E c \in Callers : Ask(c) \/ Create(c) \/ Reuse(c) \/ Forget(c)

Spec == Init /\ [][Next]_cacheVars
=============================================================================
