---------------------------- MODULE Downstream -----------------------------
(***************************************************************************)
(* The first half of callServiceWithRouting, route_dispatcher.go:397-434:  *)
(* a request is given an instance of its service (RoundRobin), then a      *)
(* connection to it (ConnPool), while other requests do the same and the   *)
(* instances come and go.                                                  *)
(***************************************************************************)
EXTENDS ConnPool, Integers, Sequences

CONSTANTS MaxList, MaxTurns  \* bounds of RoundRobin

ASSUME TurnsAssumption == MaxList \in Nat /\ MaxTurns \in Nat

VARIABLES healthy, stage, listed, chosen, turns

RR == INSTANCE RoundRobin WITH Instances <- Addresses

rrVars == <<healthy, stage, listed, chosen, turns>>
downstreamVars == <<vars, rrVars>>

DownstreamInit == Init /\ RR!RRInit

\* GetServiceAddr, by a request that has no connection.
Discover(c) ==
  /\ pc[c] = "idle"
  /\ RR!Ask(c) \/ RR!TakeTurn(c)
  /\ UNCHANGED vars

\* getGRPCConn of the address it was given.
Connect(c) ==
  /\ stage[c] = "given"
  /\ Call(c) /\ addr'[c] = chosen[c]
  /\ RR!Release(c)

Pool(c) ==
  /\ \/ Load(c) \/ NewClient(c) \/ NewClientFails(c)
     \/ LoadOrStore(c) \/ Close(c) \/ Done(c)
  /\ UNCHANGED rrVars

DownstreamNext ==
  \/ \E c \in Callers : Discover(c) \/ Connect(c) \/ Pool(c)
  \/ RR!HealthChanges /\ UNCHANGED vars

DownstreamSpec == DownstreamInit /\ [][DownstreamNext]_downstreamVars

-----------------------------------------------------------------------------
\* The turns stay even when requests hold on to connections between them.
EvenTurns == RR!TurnsAreEven
=============================================================================
