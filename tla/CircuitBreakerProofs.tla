------------------------ MODULE CircuitBreakerProofs ------------------------
(***************************************************************************)
(* Proofs about CircuitBreaker, for any services, requests, failure limit, *)
(* open time and waits.                                                    *)
(***************************************************************************)
EXTENDS CircuitBreaker, TLAPS

(***************************************************************************)
(* The history never runs behind FailCount, so that the failure that makes *)
(* FailCount reach the limit completes a streak; and FailCount restarts    *)
(* from an opening only, so a streak shorter than the limit is FailCount.  *)
(***************************************************************************)
StreakCovers ==
  \A s \in Services :
    /\ failCount[s] <= streak[s]
    /\ streak[s] < FailLimit => failCount[s] = streak[s]

IInv == TypeOK /\ StreakCovers

LEMMA InitIInv == Init => IInv
  BY BreakerAssumption DEF Init, IInv, TypeOK, StreakCovers

\* Counting a result keeps the types and the streak in step.
LEMMA CountIInv ==
  ASSUME IInv, NEW s \in Services, CountFailure(s) \/ CountSuccess(s)
  PROVE  /\ failCount' \in [Services -> 0..(FailLimit - 1)]
         /\ until' \in [Services -> (-MaxWait)..OpenTime]
         /\ streak' \in [Services -> 0..FailLimit]
         /\ StreakCovers'
<1> USE BreakerAssumption DEF IInv, TypeOK, StreakCovers
<1>1. CASE CountFailure(s)
  <2>1. CASE failCount[s] + 1 >= FailLimit
    BY <1>1, <2>1 DEF CountFailure
  <2>2. CASE ~(failCount[s] + 1 >= FailLimit)
    BY <1>1, <2>2 DEF CountFailure
  <2>3. QED
    BY <2>1, <2>2
<1>2. CASE CountSuccess(s)
  BY <1>2 DEF CountSuccess
<1>3. QED
  BY <1>1, <1>2

LEMMA NextIInv == IInv /\ [Next]_vars => IInv'
<1> SUFFICES ASSUME IInv, [Next]_vars
             PROVE  IInv'
  OBVIOUS
<1> USE BreakerAssumption DEF IInv, TypeOK, StreakCovers
<1>1. ASSUME NEW r \in Requests, Arrive(r)
      PROVE  IInv'
  BY <1>1 DEF Arrive, breaker
<1>2. ASSUME NEW r \in Requests, Enter(r)
      PROVE  IInv'
  BY <1>2 DEF Enter, breaker
<1>3. ASSUME NEW r \in Requests, Leave(r)
      PROVE  IInv'
  <2>1. pc' \in [Requests -> {"idle", "waiting", "running"}] /\ UNCHANGED <<service, wait>>
    BY <1>3 DEF Leave
  <2>2. CASE service[r] = NoService
    BY <1>3, <2>1, <2>2 DEF Leave, breaker
  <2>3. CASE service[r] # NoService
    <3>1. service[r] \in Services
      BY <2>3
    <3>2. CountFailure(service[r]) \/ CountSuccess(service[r])
      BY <1>3, <2>3 DEF Leave
    <3>3. QED
      BY <2>1, <3>1, <3>2, CountIInv
  <2>4. QED
    BY <2>2, <2>3
<1>4. CASE Tick
  BY <1>4 DEF Tick
<1>5. CASE UNCHANGED vars
  BY <1>5 DEF vars
<1>6. QED
  BY <1>1, <1>2, <1>3, <1>4, <1>5 DEF Next

LEMMA InvariantHolds == Spec => []IInv
  BY InitIInv, NextIInv, PTL DEF Spec

\* Types are kept; FailCount never shows FailLimit outside the mutex.
THEOREM TypeCorrect == Spec => []TypeOK
<1>1. IInv => TypeOK
  BY DEF IInv
<1>2. QED
  BY <1>1, InvariantHolds, PTL

-----------------------------------------------------------------------------
\* No request is let through while the breaker of its service is open, however
\* long ago it read the clock.
THEOREM NeverAdmitsWhileOpen == Spec => NoAdmissionWhileOpen
<1> DEFINE Admitted(r) == /\ pc[r] = "waiting"
                          /\ pc'[r] = "running"
                          /\ service[r] # NoService
<1>1. ASSUME IInv, [Next]_vars, NEW r \in Requests, Admitted(r)
      PROVE  until[service[r]] <= 0
  <2>1. Enter(r)
    BY <1>1 DEF IInv, TypeOK, Next, Arrive, Enter, Leave, Tick, vars
  <2>2. ~Open(r)
    BY <1>1, <2>1 DEF IInv, TypeOK, Enter
  <2>3. service[r] \in Services
    BY <1>1 DEF IInv, TypeOK
  <2>4. wait[r] \in Nat /\ until[service[r]] \in Int
    BY <1>1, <2>3, BreakerAssumption DEF IInv, TypeOK
  <2>5. QED
    BY <1>1, <2>2, <2>3, <2>4 DEF Open
<1>2. IInv /\ [Next]_vars =>
        [\A r \in Requests : Admitted(r) => until[service[r]] <= 0]_vars
  BY <1>1
<1>3. QED
  BY <1>2, InvariantHolds, PTL DEF Spec, NoAdmissionWhileOpen

\* Only the clock brings the end of an open breaker nearer.
THEOREM NeverShortensOpen == Spec => OpenNotShortened
<1>1. ASSUME IInv, [Next]_vars, NEW s \in Services, until'[s] < until[s]
      PROVE  Tick
  <2> USE BreakerAssumption DEF IInv, TypeOK
  <2>1. ASSUME NEW r \in Requests, Arrive(r) \/ Enter(r)
        PROVE  FALSE
    BY <1>1, <2>1 DEF Arrive, Enter, breaker
  <2>2. ASSUME NEW r \in Requests, Leave(r)
        PROVE  FALSE
    <3>1. CASE service[r] = NoService
      BY <1>1, <2>2, <3>1 DEF Leave, breaker
    <3>2. CASE service[r] # NoService
      <4>1. CountFailure(service[r]) \/ CountSuccess(service[r])
        BY <2>2, <3>2 DEF Leave
      <4>2. until' = until \/ until' = [until EXCEPT ![service[r]] = OpenTime]
        BY <4>1 DEF CountFailure, CountSuccess
      <4>3. QED
        BY <1>1, <4>2
    <3>3. QED
      BY <3>1, <3>2
  <2>3. CASE UNCHANGED vars
    BY <1>1, <2>3 DEF vars
  <2>4. QED
    BY <1>1, <2>1, <2>2, <2>3 DEF Next
<1>2. IInv /\ [Next]_vars =>
        [\A s \in Services : until'[s] < until[s] => Tick]_vars
  BY <1>1
<1>3. QED
  BY <1>2, InvariantHolds, PTL DEF Spec, OpenNotShortened

-----------------------------------------------------------------------------
\* A step other than leaving after the service was called changes neither the
\* failure counters nor, but for the passing of time, OpenUntil.
LEMMA OnlyLeaveCounts ==
  ASSUME IInv, [Next]_vars
  PROVE  \/ \E s \in Services : CountFailure(s) \/ CountSuccess(s)
         \/ /\ UNCHANGED streak
            /\ \A s \in Services : until'[s] <= until[s]
<1> USE BreakerAssumption DEF IInv, TypeOK
<1>1. ASSUME NEW r \in Requests, Arrive(r) \/ Enter(r)
      PROVE  UNCHANGED streak /\ \A s \in Services : until'[s] <= until[s]
  BY <1>1 DEF Arrive, Enter, breaker
<1>2. ASSUME NEW r \in Requests, Leave(r), service[r] = NoService
      PROVE  UNCHANGED streak /\ \A s \in Services : until'[s] <= until[s]
  BY <1>2 DEF Leave, breaker
<1>3. ASSUME NEW r \in Requests, Leave(r), service[r] # NoService
      PROVE  CountFailure(service[r]) \/ CountSuccess(service[r])
  BY <1>3 DEF Leave
<1>4. CASE Tick
  BY <1>4 DEF Tick
<1>5. CASE UNCHANGED vars
  BY <1>5 DEF vars
<1>6. QED
  BY <1>1, <1>2, <1>3, <1>4, <1>5 DEF Next

\* The breaker opens at the FailLimit-th failure in a row, and only then.
THEOREM OpensAtTheLimit == Spec => OpensOnStreak
<1> DEFINE A == \A s \in Services :
                  /\ until'[s] > until[s] => streak'[s] = FailLimit
                  /\ streak[s] < FailLimit /\ streak'[s] = FailLimit
                       => until'[s] = OpenTime
<1>1. IInv /\ [Next]_vars => [A]_vars
  <2> SUFFICES ASSUME IInv, [Next]_vars
               PROVE  A
    OBVIOUS
  <2> USE BreakerAssumption DEF IInv, TypeOK, StreakCovers
  <2>1. ASSUME NEW s \in Services, CountFailure(s)
        PROVE  A
    <3>1. CASE failCount[s] + 1 >= FailLimit
      BY <2>1, <3>1 DEF CountFailure
    <3>2. CASE ~(failCount[s] + 1 >= FailLimit)
      BY <2>1, <3>2 DEF CountFailure
    <3>3. QED
      BY <3>1, <3>2
  <2>2. ASSUME NEW s \in Services, CountSuccess(s)
        PROVE  A
    BY <2>2 DEF CountSuccess
  <2>3. CASE UNCHANGED streak /\ \A s \in Services : until'[s] <= until[s]
    <3>1. until' \in [Services -> Int] /\ until \in [Services -> Int]
      BY NextIInv
    <3>2. QED
      BY <2>3, <3>1
  <2>4. QED
    BY <2>1, <2>2, <2>3, OnlyLeaveCounts
<1>2. QED
  BY <1>1, InvariantHolds, PTL DEF Spec, OpensOnStreak
=============================================================================
