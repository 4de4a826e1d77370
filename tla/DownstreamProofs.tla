-------------------------- MODULE DownstreamProofs -------------------------
(***************************************************************************)
(* Proofs about Downstream: the turns of the instances are even, for any   *)
(* callers, any instances and any lists Consul may answer; and the         *)
(* requests use the pool and the turns as ConnPool and RoundRobin say      *)
(* their callers do, so what is proved of those holds of them together.    *)
(***************************************************************************)
EXTENDS Downstream, ConnPoolProofs, TLAPS

(***************************************************************************)
(* The inductive invariant.  A caller about to take its turn has a list of *)
(* two or more different instances, and the turn with number i went to the *)
(* instance at the place i - 1 modulo the length of its own list: what the *)
(* counter was is known from the number of the turn alone, whoever took    *)
(* turns in between and however long their lists were.                     *)
(***************************************************************************)
IsTurnList(l) ==
  /\ l \in Seq(Addresses) /\ Len(l) > 1
  /\ \A i, j \in 1..Len(l) : l[i] = l[j] => i = j

TurnOK(t, i) == IsTurnList(t.list) /\ t.instance = t.list[((i - 1) % Len(t.list)) + 1]

TurnsInv ==
  /\ healthy \in RR!Lists
  /\ stage \in [Callers -> {"ask", "turn", "given"}]
  /\ \A c \in Callers : stage[c] = "turn" => IsTurnList(listed[c])
  /\ listed \in [Callers -> RR!Lists]
  /\ chosen \in [Callers -> Addresses \cup {None}]
  /\ turns \in Seq([list : RR!Lists, instance : Addresses])
  /\ \A i \in 1..Len(turns) : TurnOK(turns[i], i)

-----------------------------------------------------------------------------
LEMMA DivMod ==
  ASSUME NEW n \in Nat, n > 0, NEW x \in Nat
  PROVE  x = n * (x \div n) + (x % n)
OBVIOUS

\* Two numbers less than n apart differ modulo n.
LEMMA ModDiffers ==
  ASSUME NEW n \in Nat, n > 0, NEW a \in Nat, NEW b \in Nat, a < b, b - a < n
  PROVE  a % n # b % n
<1> SUFFICES ASSUME a % n = b % n PROVE FALSE
  OBVIOUS
<1>1. a = n * (a \div n) + (a % n) /\ b = n * (b \div n) + (b % n)
  BY DivMod
<1>2. (a \div n) \in Int /\ (b \div n) \in Int
  OBVIOUS
<1>3. n * ((b \div n) - (a \div n)) = b - a
  BY <1>1, <1>2
<1> DEFINE k == (b \div n) - (a \div n)
<1>4. k \in Int /\ n * k > 0 /\ n * k < n
  BY <1>2, <1>3
<1> HIDE DEF k
<1>5. CASE k <= 0
  BY <1>4, <1>5
<1>6. CASE k >= 1
  BY <1>4, <1>6
<1>7. QED
  BY <1>4, <1>5, <1>6

\* A place of a list, by a counter modulo its length.
LEMMA ModPlace ==
  ASSUME NEW n \in Nat, n > 0, NEW a \in Nat
  PROVE  (a % n) + 1 \in 1..n
OBVIOUS

LEMMA FirstOfList ==
  ASSUME NEW S, NEW l \in Seq(S), Len(l) = 1
  PROVE  l[1] \in S
OBVIOUS

\* The lists of RoundRobin are sequences of different instances.
LEMMA ListsAreTurnLists ==
  ASSUME NEW l \in RR!Lists
  PROVE  /\ l \in Seq(Addresses) /\ Len(l) \in Nat /\ DOMAIN l = 1..Len(l)
         /\ Len(l) > 1 => IsTurnList(l)
<1>1. PICK n \in 0..MaxList : l \in [1..n -> Addresses]
  BY TurnsAssumption DEF RR!Lists
<1>2. l \in Seq(Addresses)
  BY <1>1, TurnsAssumption
<1>3. DOMAIN l = 1..Len(l)
  BY <1>2
<1>4. QED
  BY <1>2, <1>3 DEF RR!Lists, IsTurnList

\* The invariant gives even turns.
LEMMA TurnsInvEven == ASSUME TurnsInv PROVE EvenTurns
<1> SUFFICES ASSUME NEW i \in 1..Len(turns), NEW j \in 1..Len(turns),
                    i < j, j - i < Len(turns[i].list), turns[i].list = turns[j].list
             PROVE  turns[i].instance # turns[j].instance
  BY DEF EvenTurns, RR!TurnsAreEven
<1> DEFINE l == turns[i].list
           n == Len(l)
           a == i - 1
           b == j - 1
<1>1. IsTurnList(l) /\ turns[i].instance = l[(a % n) + 1] /\ turns[j].instance = l[(b % n) + 1]
  BY DEF TurnsInv, TurnOK
<1>2. n \in Nat /\ n > 1 /\ a \in Nat /\ b \in Nat /\ a < b /\ b - a < n
  BY <1>1 DEF IsTurnList, TurnsInv
<1> HIDE DEF n, a, b
<1>3. a % n # b % n /\ (a % n) + 1 \in 1..n /\ (b % n) + 1 \in 1..n
  <2>1. n > 0
    BY <1>2
  <2>2. a % n # b % n
    BY <1>2, <2>1, ModDiffers
  <2>3. (a % n) + 1 \in 1..n /\ (b % n) + 1 \in 1..n
    BY <1>2, <2>1, ModPlace
  <2>4. QED
    BY <2>2, <2>3
<1>4. (a % n) \in Int /\ (b % n) \in Int
  BY <1>2
<1>5. (a % n) + 1 # (b % n) + 1
  BY <1>3, <1>4
<1>6. l[(a % n) + 1] # l[(b % n) + 1]
  BY <1>1, <1>3, <1>5 DEF IsTurnList, n
<1>7. QED
  BY <1>1, <1>6

LEMMA InitTurnsInv == DownstreamInit => TurnsInv
<1> SUFFICES ASSUME DownstreamInit PROVE TurnsInv
  OBVIOUS
<1>1. <<>> \in RR!Lists
  BY TurnsAssumption DEF RR!Lists
<1>2. QED
  BY <1>1 DEF DownstreamInit, RR!RRInit, TurnsInv

\* A request that asks Consul.
LEMMA AskTurnsInv ==
  ASSUME TurnsInv, NEW c \in Callers, RR!Ask(c)
  PROVE  TurnsInv'
<1> USE DEF TurnsInv
<1>1. healthy \in Seq(Addresses) /\ (Len(healthy) > 1 => IsTurnList(healthy)) /\ Len(healthy) \in Nat
  BY ListsAreTurnLists
<1>2. UNCHANGED <<healthy, turns>>
  BY DEF RR!Ask
<1>3. CASE Len(healthy) = 0
  BY <1>3, <1>2 DEF RR!Ask
<1>4. CASE Len(healthy) = 1
  <2>1. healthy[1] \in Addresses
    BY <1>1, <1>4, FirstOfList
  <2>2. QED
    BY <1>2, <1>4, <2>1 DEF RR!Ask
<1>5. CASE Len(healthy) > 1
  <2>1. ~(Len(healthy) = 0) /\ ~(Len(healthy) = 1)
    <3>1. \A n \in Nat : n > 1 => ~(n = 0) /\ ~(n = 1)
      OBVIOUS
    <3>2. QED
      BY <1>1, <1>5, <3>1
  <2>2. /\ listed' = [listed EXCEPT ![c] = healthy]
        /\ stage' = [stage EXCEPT ![c] = "turn"]
        /\ UNCHANGED chosen
    BY <2>1 DEF RR!Ask
  <2>3. QED
    BY <1>1, <1>2, <1>5, <2>2
<1>6. \A n \in Nat : n = 0 \/ n = 1 \/ n > 1
  OBVIOUS
<1>7. QED
  BY <1>1, <1>3, <1>4, <1>5, <1>6

\* The section under counterMutex: the new turn is the one its number calls for.
LEMMA TakeTurnTurnsInv ==
  ASSUME TurnsInv, NEW c \in Callers, RR!TakeTurn(c)
  PROVE  TurnsInv'
<1> USE DEF TurnsInv
<1> DEFINE l == listed[c]
           x == l[(Len(turns) % Len(l)) + 1]
           t == [list |-> l, instance |-> x]
<1>1. l \in RR!Lists /\ IsTurnList(l) /\ Len(l) \in Nat
  BY ListsAreTurnLists DEF RR!TakeTurn
<1>2. Len(turns) \in Nat
  OBVIOUS
<1>3. (Len(turns) % Len(l)) + 1 \in 1..Len(l)
  BY <1>1, <1>2, ModPlace DEF IsTurnList
<1>4. x \in Addresses
  BY <1>1, <1>3 DEF IsTurnList
<1>5. /\ turns' = Append(turns, t) /\ UNCHANGED healthy
      /\ chosen' = [chosen EXCEPT ![c] = x]
      /\ stage' = [stage EXCEPT ![c] = "given"]
      /\ listed' = [listed EXCEPT ![c] = <<>>]
  BY DEF RR!TakeTurn, RR!Index, RR!counter
<1>6. <<>> \in RR!Lists
  BY TurnsAssumption DEF RR!Lists
<1>7. t \in [list : RR!Lists, instance : Addresses]
  BY <1>1, <1>4
<1> HIDE DEF t
<1>8. turns' \in Seq([list : RR!Lists, instance : Addresses])
  BY <1>5, <1>7
<1>9. \A i \in 1..Len(turns') : TurnOK(turns'[i], i)
  <2> SUFFICES ASSUME NEW i \in 1..Len(turns') PROVE TurnOK(turns'[i], i)
    OBVIOUS
  <2>1. CASE i \in 1..Len(turns)
    BY <1>5, <1>7, <2>1
  <2>2. CASE i = Len(turns) + 1
    <3>1. turns'[i] = t /\ i - 1 = Len(turns)
      BY <1>2, <1>5, <1>7, <2>2
    <3>2. QED
      BY <1>1, <3>1 DEF t, TurnOK
  <2>3. QED
    BY <1>2, <1>5, <1>7, <2>1, <2>2
<1>10. QED
  BY <1>4, <1>5, <1>6, <1>8, <1>9

\* Every other step leaves the turns alone.
LEMMA NextTurnsInv ==
  ASSUME TurnsInv, [DownstreamNext]_downstreamVars
  PROVE  TurnsInv'
<1>1. ASSUME NEW c \in Callers, Discover(c)
      PROVE  TurnsInv'
  BY <1>1, AskTurnsInv, TakeTurnTurnsInv DEF Discover
<1>2. ASSUME NEW c \in Callers, Connect(c)
      PROVE  TurnsInv'
  BY <1>2 DEF Connect, RR!Release, TurnsInv
<1>3. ASSUME NEW c \in Callers, Pool(c)
      PROVE  TurnsInv'
  BY <1>3 DEF Pool, rrVars, TurnsInv
<1>4. CASE RR!HealthChanges
  BY <1>4 DEF RR!HealthChanges, TurnsInv
<1>5. CASE UNCHANGED downstreamVars
  BY <1>5 DEF downstreamVars, rrVars, TurnsInv
<1>6. QED
  BY <1>1, <1>2, <1>3, <1>4, <1>5 DEF DownstreamNext

-----------------------------------------------------------------------------
(* However many callers interleave and however the lists of instances change between their
   turns, no instance of a list is given a second time before every other has had its turn
   (consul.go:67-69). *)
THEOREM TurnsStayEven == DownstreamSpec => []EvenTurns
<1>1. DownstreamInit => TurnsInv
  BY InitTurnsInv
<1>2. TurnsInv /\ [DownstreamNext]_downstreamVars => TurnsInv'
  BY NextTurnsInv
<1>3. TurnsInv => EvenTurns
  BY TurnsInvEven
<1>4. QED
  BY <1>1, <1>2, <1>3, PTL DEF DownstreamSpec

-----------------------------------------------------------------------------
(***************************************************************************)
(* The composition implements both of its parts: a step of Downstream is a *)
(* step of the pool or leaves the pool alone, and the same of the turns.   *)
(***************************************************************************)
LEMMA StepOfPool ==
  ASSUME [DownstreamNext]_downstreamVars
  PROVE  [Next]_vars
<1>1. ASSUME NEW c \in Callers, Discover(c)
      PROVE  UNCHANGED vars
  BY <1>1 DEF Discover
<1>2. ASSUME NEW c \in Callers, Connect(c)
      PROVE  Next
  BY <1>2 DEF Connect, Next, Step
<1>3. ASSUME NEW c \in Callers, Pool(c)
      PROVE  Next
  BY <1>3 DEF Pool, Next, Step
<1>4. CASE RR!HealthChanges /\ UNCHANGED vars
  BY <1>4
<1>5. CASE UNCHANGED downstreamVars
  BY <1>5 DEF downstreamVars
<1>6. QED
  BY <1>1, <1>2, <1>3, <1>4, <1>5 DEF DownstreamNext

LEMMA StepOfTurns ==
  ASSUME [DownstreamNext]_downstreamVars
  PROVE  [RR!RRNext]_RR!rrVars
<1>1. ASSUME NEW c \in Callers, Discover(c)
      PROVE  RR!RRNext
  BY <1>1 DEF Discover, RR!RRNext
<1>2. ASSUME NEW c \in Callers, Connect(c)
      PROVE  RR!RRNext
  BY <1>2 DEF Connect, RR!RRNext
<1>3. ASSUME NEW c \in Callers, Pool(c)
      PROVE  UNCHANGED RR!rrVars
  BY <1>3 DEF Pool, rrVars, RR!rrVars
<1>4. CASE RR!HealthChanges
  BY <1>4 DEF RR!RRNext
<1>5. CASE UNCHANGED downstreamVars
  BY <1>5 DEF downstreamVars, rrVars, RR!rrVars
<1>6. QED
  BY <1>1, <1>2, <1>3, <1>4, <1>5 DEF DownstreamNext

LEMMA UsesThePool == DownstreamSpec => Spec
<1>1. DownstreamInit => Init
  BY DEF DownstreamInit
<1>2. [DownstreamNext]_downstreamVars => [Next]_vars
  BY StepOfPool
<1>3. QED
  BY <1>1, <1>2, PTL DEF DownstreamSpec, Spec

(* Requests that discover an instance and connect to it take turns as the callers of
   GetServiceAddr do (consul.go:28-76): nothing the pool does, or makes them wait for,
   is seen by the turns. *)
THEOREM DownstreamTakesTurns == DownstreamSpec => RR!RRSpec
<1>1. DownstreamInit => RR!RRInit
  BY DEF DownstreamInit
<1>2. [DownstreamNext]_downstreamVars => [RR!RRNext]_RR!rrVars
  BY StepOfTurns
<1>3. QED
  BY <1>1, <1>2, PTL DEF DownstreamSpec, RR!RRSpec

(* Requests that reach the pool through discovery (route_dispatcher.go:397-434), whatever
   addresses the turns give them, see a cache whose get takes effect at once. *)
THEOREM DownstreamSeesACache == DownstreamSpec => CacheSpec
BY UsesThePool, PoolImplementsCache

(* Requests that reach the pool through discovery never hold a connection that a loser of
   LoadOrStore has closed (route_dispatcher.go:27-51), and lose no connection that is open. *)
THEOREM DownstreamConnsAreSound == DownstreamSpec => [](NoClosedConnInUse /\ NoConnLeaks)
BY UsesThePool, NeverClosedInUse, NeverLeaks, PTL
=============================================================================
