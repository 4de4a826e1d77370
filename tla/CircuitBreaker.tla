-------------------------- MODULE CircuitBreaker ---------------------------
(***************************************************************************)
(* The circuit breaker middleware, internal/middleware/circuit_breaker.go. *)
(*                                                                         *)
(* Requests run it concurrently.  The two critical sections guarded by     *)
(* breakerMutex, the check on the way in and the update on the way out,    *)
(* are one step each; between them the request runs for any length of      *)
(* time.  The clock is read BEFORE the first critical section, so the      *)
(* check may use a reading that is out of date by the wait for the mutex.  *)
(***************************************************************************)
EXTENDS Integers, FiniteSets

CONSTANTS
  Services,   \* the values of serviceName
  NoService,  \* serviceName is ""
  Requests,   \* slots, each running one request after another
  FailLimit,  \* 5 failures in a row open the breaker
  OpenTime,   \* 10 seconds
  MaxWait     \* bound: longest wait for breakerMutex

ASSUME BreakerAssumption ==
  /\ NoService \notin Services
  /\ FailLimit \in Nat \ {0}
  /\ OpenTime \in Nat \ {0}
  /\ MaxWait \in Nat

VARIABLES
  pc,         \* where each request is
  service,    \* the serviceName of each request
  wait,       \* time since the request read the clock, while it waits
  failCount,  \* breakerState.FailCount
  until,      \* breakerState.OpenUntil minus the present time
  streak      \* history: failures in a row, up to FailLimit

vars == <<pc, service, wait, failCount, until, streak>>
breaker == <<failCount, until, streak>>

\* What the status and the downstreamFailed flag tell of a finished request.
\* A failed call to the service is answered with status 200 and no flag.
Results == {"ok", "callError", "panic", "discoveryError", "dialError"}
Failed(result) == result \in {"panic", "discoveryError", "dialError"}

-----------------------------------------------------------------------------
\* The zero OpenUntil of a new entry lies before any reading of the clock.
Init ==
  /\ pc = [r \in Requests |-> "idle"]
  /\ service = [r \in Requests |-> NoService]
  /\ wait = [r \in Requests |-> 0]
  /\ failCount = [s \in Services |-> 0]
  /\ until = [s \in Services |-> -MaxWait]
  /\ streak = [s \in Services |-> 0]

\* The request reads its serviceName and the clock.
Arrive(r) ==
  /\ pc[r] = "idle"
  /\ \E s \in Services \cup {NoService} : service' = [service EXCEPT ![r] = s]
  /\ wait' = [wait EXCEPT ![r] = 0]
  /\ pc' = [pc EXCEPT ![r] = "waiting"]
  /\ UNCHANGED breaker

\* Mutated: asks the count instead of the clock.
OpenByCount(r) == service[r] # NoService /\ failCount[service[r]] >= FailLimit

\* now.Before(state.OpenUntil), for the reading the request took; without a
\* serviceName there is no breaker.
Open(r) == service[r] # NoService /\ -wait[r] < until[service[r]]

\* Mutated: a request that is refused prolongs the open time.
EnterProlongs(r) ==
  /\ pc[r] = "waiting"
  /\ pc' = [pc EXCEPT ![r] = IF Open(r) THEN "idle" ELSE "running"]
  /\ wait' = [wait EXCEPT ![r] = 0]
  /\ until' = IF Open(r) THEN [until EXCEPT ![service[r]] = OpenTime] ELSE until
  /\ UNCHANGED <<service, failCount, streak>>

\* The first critical section: the request is let through, or answered 503.
Enter(r) ==
  /\ pc[r] = "waiting"
  /\ pc' = [pc EXCEPT ![r] = IF Open(r) THEN "idle" ELSE "running"]
  /\ wait' = [wait EXCEPT ![r] = 0]
  /\ UNCHANGED <<service, breaker>>

\* Mutated: one failure too many before it opens.
CountFailureLate(s) ==
  /\ IF failCount[s] >= FailLimit
     THEN /\ until' = [until EXCEPT ![s] = OpenTime]
          /\ failCount' = [failCount EXCEPT ![s] = 0]
     ELSE /\ failCount' = [failCount EXCEPT ![s] = @ + 1]
          /\ UNCHANGED until
  /\ streak' = [streak EXCEPT ![s] = IF @ < FailLimit THEN @ + 1 ELSE @]

CountFailure(s) ==
  /\ IF failCount[s] + 1 >= FailLimit
     THEN /\ until' = [until EXCEPT ![s] = OpenTime]
          /\ failCount' = [failCount EXCEPT ![s] = 0]
     ELSE /\ failCount' = [failCount EXCEPT ![s] = @ + 1]
          /\ UNCHANGED until
  /\ streak' = [streak EXCEPT ![s] = IF @ < FailLimit THEN @ + 1 ELSE @]

\* Mutated: a success closes the breaker, or leaves the count alone.
CountSuccessCloses(s) ==
  /\ failCount' = [failCount EXCEPT ![s] = 0]
  /\ streak' = [streak EXCEPT ![s] = 0]
  /\ until' = [until EXCEPT ![s] = -MaxWait]

CountSuccessOnly(s) ==
  /\ streak' = [streak EXCEPT ![s] = 0]
  /\ UNCHANGED <<failCount, until>>

CountSuccess(s) ==
  /\ failCount' = [failCount EXCEPT ![s] = 0]
  /\ streak' = [streak EXCEPT ![s] = 0]
  /\ UNCHANGED until

\* The request comes back and takes the second critical section.
Leave(r) ==
  /\ pc[r] = "running"
  /\ IF service[r] = NoService
     THEN UNCHANGED breaker
     ELSE \E result \in Results :
            IF Failed(result)
            THEN CountFailure(service[r])
            ELSE CountSuccess(service[r])
  /\ pc' = [pc EXCEPT ![r] = "idle"]
  /\ UNCHANGED <<service, wait>>

\* Time passes, for no longer than MaxWait while a request waits.  An
\* OpenUntil further back than any reading of the clock stays there.
Tick ==
  /\ \A r \in Requests : pc[r] = "waiting" => wait[r] < MaxWait
  /\ wait' = [r \in Requests |->
                IF pc[r] = "waiting" THEN wait[r] + 1 ELSE wait[r]]
  /\ until' = [s \in Services |->
                 IF until[s] > -MaxWait THEN until[s] - 1 ELSE until[s]]
  /\ UNCHANGED <<pc, service, failCount, streak>>

Next ==
  \/ \E r \in Requests : Arrive(r) \/ Enter(r) \/ Leave(r)
  \/ Tick

Spec == Init /\ [][Next]_vars

(***************************************************************************)
(* Go's mutex starves nobody (Enter), and the clock runs (Tick).  Nothing  *)
(* obliges a request to arrive or a service to answer.                     *)
(***************************************************************************)
FairSpec == Spec /\ WF_vars(Tick) /\ \A r \in Requests : WF_vars(Enter(r))

-----------------------------------------------------------------------------
\* Types; FailCount is seen below FailLimit by whoever holds the mutex.
TypeOK ==
  /\ pc \in [Requests -> {"idle", "waiting", "running"}]
  /\ service \in [Requests -> Services \cup {NoService}]
  /\ wait \in [Requests -> 0..MaxWait]
  /\ failCount \in [Services -> 0..(FailLimit - 1)]
  /\ until \in [Services -> (-MaxWait)..OpenTime]
  /\ streak \in [Services -> 0..FailLimit]

\* A request is never let through while the breaker of its service is open,
\* although it compares OpenUntil with a reading of the clock it took before
\* it had the mutex (circuit_breaker.go:35-47).
NoAdmissionWhileOpen ==
  [][\A r \in Requests :
       /\ pc[r] = "waiting"
       /\ pc'[r] = "running"
       /\ service[r] # NoService
       => until[service[r]] <= 0]_vars

\* No request that finishes, well or badly, makes an open breaker close
\* sooner: only time does.
OpenNotShortened ==
  [][\A s \in Services : until'[s] < until[s] => Tick]_vars

\* The breaker opens when FailLimit requests in a row have failed, counted in
\* the order in which they finish, and it never opens without.
OpensOnStreak ==
  [][\A s \in Services :
       /\ until'[s] > until[s] => streak'[s] = FailLimit
       /\ streak[s] < FailLimit /\ streak'[s] = FailLimit
            => until'[s] = OpenTime]_vars

\* An open breaker closes again, although requests let through before it
\* opened keep failing and clients keep asking.
Recloses ==
  \A s \in Services : until[s] > 0 ~> until[s] <= 0
=============================================================================
