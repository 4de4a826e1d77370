----------------------------- MODULE RoundRobin ----------------------------
(***************************************************************************)
(* GetServiceAddr and getServiceAddrWithRoundRobin of consul.go: the       *)
(* requests for one service ask Consul for its healthy instances, and take *)
(* turns by a counter they share.  The list is read before the lock of the *)
(* counter is taken: the others may take turns, and instances come and go, *)
(* in between.                                                             *)
(***************************************************************************)
EXTENDS Integers, Sequences

CONSTANTS
  Callers,    \* requests for the service, each asking again and again
  Instances,  \* addresses an instance of the service may have
  None,
  MaxList,    \* bound: instances that are healthy at once
  MaxTurns    \* bound: turns taken by the counter

VARIABLES
  healthy,  \* the instances Consul lists, in its order
  stage,    \* per caller: the next step of GetServiceAddr
  listed,   \* per caller: the list Consul answered
  chosen,   \* per caller: the address it was given
  turns     \* history: the lists and addresses of the turns taken

rrVars == <<healthy, stage, listed, chosen, turns>>

\* Consul lists an instance once.
Lists ==
  {l \in UNION {[1..n -> Instances] : n \in 0..MaxList} :
     \A i, j \in DOMAIN l : l[i] = l[j] => i = j}

\* roundRobinCounters[service]: it is 0 until there is one.
counter == Len(turns)

RRInit ==
  /\ healthy \in Lists
  /\ stage = [c \in Callers |-> "ask"]
  /\ listed = [c \in Callers |-> <<>>]
  /\ chosen = [c \in Callers |-> None]
  /\ turns = <<>>

\* Health().Service: an error or an empty list ends the call; a single
\* instance is taken without a turn.
Ask(c) ==
  /\ stage[c] = "ask"
  /\ CASE Len(healthy) = 0 -> UNCHANGED <<stage, listed, chosen>>
       [] Len(healthy) = 1 ->
            /\ chosen' = [chosen EXCEPT ![c] = healthy[1]]
            /\ stage' = [stage EXCEPT ![c] = "given"]
            /\ UNCHANGED listed
       [] OTHER ->
            /\ listed' = [listed EXCEPT ![c] = healthy]
            /\ stage' = [stage EXCEPT ![c] = "turn"]
            /\ UNCHANGED chosen
  /\ UNCHANGED <<healthy, turns>>

IndexShort(l) == (counter % (Len(l) - 1)) + 1

Index(l) == (counter % Len(l)) + 1

\* The section under counterMutex.
TakeTurn(c) ==
  /\ stage[c] = "turn" /\ counter < MaxTurns
  /\ LET l == listed[c]
         x == l[Index(l)] IN
     /\ turns' = Append(turns, [list |-> l, instance |-> x])
     /\ chosen' = [chosen EXCEPT ![c] = x]
  /\ stage' = [stage EXCEPT ![c] = "given"]
  /\ listed' = [listed EXCEPT ![c] = <<>>]
  /\ UNCHANGED healthy

\* The caller goes on with the address.
Release(c) ==
  /\ stage[c] = "given"
  /\ stage' = [stage EXCEPT ![c] = "ask"]
  /\ chosen' = [chosen EXCEPT ![c] = None]
  /\ UNCHANGED <<healthy, listed, turns>>

\* Instances come and go, or are listed in another order.
HealthChanges ==
  /\ healthy' \in Lists \ {healthy}
  /\ UNCHANGED <<stage, listed, chosen, turns>>

RRNext ==
  \/ \E c \in Callers : Ask(c) \/ TakeTurn(c) \/ Release(c)
  \/ HealthChanges

RRSpec == RRInit /\ [][RRNext]_rrVars

-----------------------------------------------------------------------------
\* The variables have their types; a caller about to take its turn has a list
\* of two or more, so the index divides by no zero (consul.go:63).
RRTypeOK ==
  /\ healthy \in Lists
  /\ stage \in [Callers -> {"ask", "turn", "given"}]
  /\ listed \in [Callers -> Lists]
  /\ chosen \in [Callers -> Instances \cup {None}]
  /\ turns \in Seq([list : Lists, instance : Instances])
  /\ \A c \in Callers : stage[c] = "turn" => Len(listed[c]) > 1

\* However the callers interleave, no instance is given a second time before
\* every other on the list has had its turn (consul.go:67-69): two turns of
\* one list that are less than its length apart go to different instances.
TurnsAreEven ==
  \A i, j \in 1..Len(turns) :
    /\ i < j /\ j - i < Len(turns[i].list)
    /\ turns[i].list = turns[j].list
    => turns[i].instance # turns[j].instance
=============================================================================
