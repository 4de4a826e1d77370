-------------------------- MODULE RateWindowProofs --------------------------
(***************************************************************************)
(* Proofs about RateWindow: what the lives of a counter key mean for the   *)
(* requests let through in any CounterTTL of time, for any requests,       *)
(* clients, paths, limits and lives, and any number of faults.             *)
(***************************************************************************)
EXTENDS RateWindow, RateLimiterProofs

-----------------------------------------------------------------------------
\* The clock is a history variable: without it a step is one of RateLimiter.
LEMMA WindowStep == WindowNext => [Next]_vars
  BY DEF WindowNext, Next

LEMMA WindowInvariant == WindowSpec => []IInv
<1>1. WindowInit => Init
  BY DEF WindowInit
<1>2. [WindowNext]_<<vars, age>> => [Next]_vars
  BY WindowStep DEF vars
<1>3. QED
  BY <1>1, <1>2, InitIInv, NextIInv, PTL DEF WindowSpec

-----------------------------------------------------------------------------
(***************************************************************************)
(* The inductive invariant.  The request that created the present life of  *)
(* a path's key, and all that were counted in earlier lives, are at least  *)
(* as old as the key's last CounterTTL: the key still has to live what is  *)
(* missing to their CounterTTL, or has no TTL yet.  So one whole life      *)
(* takes CounterTTL at least, whoever sets its TTL and how often.          *)
(***************************************************************************)
PathKey(q) == Key(q, "path")

NotLaterThanLife(q) ==
  LET e == counter[PathKey(q)]
      h == hits[q]["path"]
  IN  h.epoch < e.epoch \/ (h.epoch = e.epoch /\ h.n = 1)

Old(q) == age[q] >= CounterTTL

LifeOK(q) ==
  LET e == counter[PathKey(q)]
      h == hits[q]["path"]
  IN  /\ NotLaterThanLife(q) =>
           Old(q) \/ (e.n > 0 /\ (e.ttl = 0 \/ e.ttl + age[q] >= CounterTTL))
      /\ h.epoch + 1 < e.epoch => Old(q)
      /\ h.epoch < e.epoch /\ h.n = 1 => Old(q)

AgesOK == age \in [Requests -> 0..CounterTTL]

LivesOK == \A q \in Requests : Counted(q, "path") => LifeOK(q)

\* How a step changes a counter, and the age of a request counted before it.
LEMMA LifeGoesOn ==
  ASSUME IInv, AgesOK, NEW q \in Requests, Counted(q, "path"), LifeOK(q),
         UNCHANGED <<client, hits[q]["path"]>>,
         NEW k, k = PathKey(q), counter'[k] \in Counters,
         \/ age'[q] = age[q] /\ counter'[k] \in {counter[k], Incremented(counter[k]),
                                                  WithCounterTTL(counter[k], CounterTTL)}
         \/ age'[q] = Older(age[q]) /\ counter'[k] = CounterAged(counter[k])
  PROVE  LifeOK(q)'
<1> DEFINE e == counter[k]
<1> DEFINE f == counter'[k]
<1> DEFINE h == hits[q]["path"]
<1>1. /\ e \in Counters /\ f \in Counters /\ PathKey(q)' = k
      /\ h.epoch \in Nat /\ h.n \in Nat /\ h.n > 0
      /\ age[q] \in 0..CounterTTL
      /\ CounterTTL \in Nat \ {0}
      /\ h.epoch <= e.epoch
  <2>1. TypeOK /\ "path" \in Stages /\ k \in CounterKeys
    BY KeyTypes DEF IInv, Stages, PathKey
  <2>2. e \in Counters /\ h \in [epoch : Nat, n : Nat]
    BY <2>1 DEF TypeOK
  <2>3. h.n > 0 /\ h.epoch <= e.epoch
    BY <2>1 DEF Counted, IInv, HitsFit, PathKey
  <2>4. PathKey(q)' = k
    BY DEF PathKey, Key, IP, Path
  <2>5. QED
    BY <2>2, <2>3, <2>4, ConfigAssumption DEF AgesOK
<1>2. /\ h.epoch < e.epoch \/ (h.epoch = e.epoch /\ h.n = 1) =>
           age[q] >= CounterTTL
             \/ (e.n > 0 /\ (e.ttl = 0 \/ e.ttl + age[q] >= CounterTTL))
      /\ h.epoch + 1 < e.epoch => age[q] >= CounterTTL
      /\ h.epoch < e.epoch /\ h.n = 1 => age[q] >= CounterTTL
  BY DEF LifeOK, NotLaterThanLife, Old
<1>3. /\ h.epoch < f.epoch \/ (h.epoch = f.epoch /\ h.n = 1) =>
           age'[q] >= CounterTTL
             \/ (f.n > 0 /\ (f.ttl = 0 \/ f.ttl + age'[q] >= CounterTTL))
      /\ h.epoch + 1 < f.epoch => age'[q] >= CounterTTL
      /\ h.epoch < f.epoch /\ h.n = 1 => age'[q] >= CounterTTL
  <2>1. CASE age'[q] = age[q] /\ f = e
    BY <1>1, <1>2, <2>1
  <2>2. CASE age'[q] = age[q] /\ f = Incremented(e)
    BY <1>1, <1>2, <2>2 DEF Incremented, Counters
  <2>3. CASE age'[q] = age[q] /\ f = WithCounterTTL(e, CounterTTL)
    BY <1>1, <1>2, <2>3 DEF WithCounterTTL, Counters
  <2>4. CASE age'[q] = Older(age[q]) /\ f = CounterAged(e)
    BY <1>1, <1>2, <2>4 DEF Older, CounterAged, Counters
  <2>5. QED
    BY <2>1, <2>2, <2>3, <2>4
<1>4. hits'[q]["path"] = h
  OBVIOUS
<1>5. QED
  BY <1>1, <1>3, <1>4 DEF LifeOK, NotLaterThanLife, Old

LEMMA StepAges ==
  ASSUME TypeOK, AgesOK, [WindowNext]_<<vars, age>>
  PROVE  AgesOK'
<1>1. CounterTTL \in Nat \ {0}
  BY ConfigAssumption
<1>2. ASSUME NEW r \in Requests, age' = [age EXCEPT ![r] = IF CountedNow(r) THEN 0 ELSE @]
      PROVE  AgesOK'
  BY <1>1, <1>2 DEF AgesOK
<1>3. ASSUME age' = [q \in Requests |-> Older(age[q])]
      PROVE  AgesOK'
  BY <1>1, <1>3 DEF AgesOK, Older
<1>4. QED
  BY <1>2, <1>3 DEF WindowNext, AgesOK

\* A step of a request leaves the counters and the ages of the others alone, but
\* for one counter that it raises or gives a TTL.
LEMMA RequestStep ==
  ASSUME IInv, AgesOK, NEW r \in Requests, Step(r) \/ Die(r),
         age' = [age EXCEPT ![r] = IF CountedNow(r) THEN 0 ELSE @],
         NEW q \in Requests, hits'[q]["path"] = hits[q]["path"]
  PROVE  /\ age'[q] = age[q]
         /\ \A k \in CounterKeys :
              counter'[k] \in {counter[k], Incremented(counter[k]),
                               WithCounterTTL(counter[k], CounterTTL)}
<1>1. age'[q] = age[q]
  <2>1. CASE q = r
    BY <2>1 DEF AgesOK, CountedNow
  <2>2. CASE q # r
    BY <2>2 DEF AgesOK
  <2>3. QED
    BY <2>1, <2>2
<1>2. \/ UNCHANGED counter
      \/ ExpireCounter(r)
      \/ counter' = [counter EXCEPT ![Key(r, stage[r])] =
                        Incremented(counter[Key(r, stage[r])])]
  BY DEF Step, Start, CheckBlock, Hit, Incr, IncrFails, Expire, ExpireFails, ReadTTL,
         ReadTTLFails, Repair, RepairFails, RecordStrike, StrikeIncr, StrikeIncrFails,
         StrikeExpire, StrikeSet, Die
<1>3. QED
  BY <1>1, <1>2 DEF ExpireCounter, IInv, TypeOK

\* The request that is counted in this step begins a life without a TTL, or is
\* not the first of the one that goes on.
LEMMA CountedLife ==
  ASSUME IInv, AgesOK, NEW r \in Requests, Step(r) \/ Die(r),
         hits'[r]["path"] # hits[r]["path"]
  PROVE  LifeOK(r)'
<1> DEFINE k == PathKey(r)
<1> DEFINE e == counter[k]
<1> DEFINE f == Incremented(e)
<1>1. Incr(r) /\ stage[r] = "path"
  <2>1. Incr(r)
    BY DEF Step, Start, CheckBlock, Hit, IncrFails, Expire, ExpireFails, ReadTTL, ReadTTLFails,
       Repair, RepairFails, RecordStrike, StrikeIncr, StrikeIncrFails, StrikeExpire, StrikeSet,
       Die, requestVars
  <2>2. hits \in [Requests -> [Stages -> [epoch : Nat, n : Nat]]] /\ stage[r] \in Stages
    BY DEF IInv, TypeOK
  <2>3. \E v : hits' = [hits EXCEPT ![r] = [hits[r] EXCEPT ![stage[r]] = v]]
    BY <2>1 DEF Incr
  <2>4. QED
    BY <2>1, <2>2, <2>3 DEF Stages
<1>2. /\ counter' = [counter EXCEPT ![k] = f]
      /\ hits' = [hits EXCEPT ![r] = [@ EXCEPT !["path"] = [epoch |-> f.epoch, n |-> f.n]]]
      /\ UNCHANGED client
  BY <1>1 DEF Incr, PathKey
<1>3. TypeOK /\ "path" \in Stages /\ k \in CounterKeys /\ PathKey(r)' = k
  BY <1>2, KeyTypes DEF IInv, Stages, PathKey, Key, IP, Path
<1>4. e \in Counters /\ counter'[k] = f /\ hits'[r]["path"] = [epoch |-> f.epoch, n |-> f.n]
  BY <1>2, <1>3 DEF TypeOK
<1>5. f.epoch \in Nat /\ (f.n = 1 => f.ttl = 0)
  BY <1>4 DEF Counters, Incremented
<1>6. QED
  BY <1>3, <1>4, <1>5 DEF LifeOK, NotLaterThanLife

LEMMA StepLives ==
  ASSUME IInv, AgesOK, LivesOK, [WindowNext]_<<vars, age>>
  PROVE  LivesOK'
<1> SUFFICES ASSUME NEW q \in Requests, Counted(q, "path")'
             PROVE  LifeOK(q)'
  BY DEF LivesOK
<1> DEFINE k == PathKey(q)
<1>1. k \in CounterKeys /\ counter[k] \in Counters /\ counter'[k] \in Counters
  <2>1. TypeOK /\ TypeOK' /\ "path" \in Stages
    BY WindowStep, NextTypeOK DEF IInv, Stages, vars
  <2>2. QED
    BY <2>1, KeyTypes DEF TypeOK, PathKey
<1>2. UNCHANGED client
  BY DEF WindowNext, Step, Start, CheckBlock, Hit, Incr, IncrFails, Expire, ExpireFails,
     ReadTTL, ReadTTLFails, Repair, RepairFails, RecordStrike, StrikeIncr, StrikeIncrFails,
     StrikeExpire, StrikeSet, Die, Tick, Finished, vars, requestVars
<1>3. ASSUME hits'[q]["path"] = hits[q]["path"]
      PROVE  Counted(q, "path") /\ LifeOK(q)
  BY <1>3 DEF LivesOK, Counted
<1>4. ASSUME NEW r \in Requests, Step(r) \/ Die(r),
             age' = [age EXCEPT ![r] = IF CountedNow(r) THEN 0 ELSE @]
      PROVE  LifeOK(q)'
  <2>1. CASE hits'[q]["path"] = hits[q]["path"]
    <3>1. /\ age'[q] = age[q]
          /\ counter'[k] \in {counter[k], Incremented(counter[k]),
                               WithCounterTTL(counter[k], CounterTTL)}
      BY <1>1, <1>4, <2>1, RequestStep
    <3>2. QED
      BY <1>1, <1>2, <1>3, <2>1, <3>1, LifeGoesOn
  <2>2. CASE hits'[q]["path"] # hits[q]["path"]
    <3>1. q = r
      BY <1>4, <2>2 DEF IInv, TypeOK, Step, Start, CheckBlock, Hit, Incr, IncrFails, Expire,
         ExpireFails, ReadTTL, ReadTTLFails, Repair, RepairFails, RecordStrike, StrikeIncr,
         StrikeIncrFails, StrikeExpire, StrikeSet, Die, requestVars
    <3>2. QED
      BY <1>4, <2>2, <3>1, CountedLife
  <2>3. QED
    BY <2>1, <2>2
<1>5. CASE /\ Tick \/ (~Expiring /\ UNCHANGED vars)
           /\ age' = [r \in Requests |-> Older(age[r])]
  <2>1. hits' = hits /\ age'[q] = Older(age[q])
    BY <1>5 DEF Tick, requestVars, vars
  <2>2. counter'[k] = CounterAged(counter[k])
    <3>1. CASE Tick
      BY <1>1, <3>1 DEF Tick
    <3>2. CASE ~Expiring /\ UNCHANGED vars
      <4>1. counter[k].ttl = 0 /\ counter'[k] = counter[k]
        BY <1>1, <3>2 DEF Expiring, Counters, vars
      <4>2. QED
        BY <4>1 DEF CounterAged
    <3>3. QED
      BY <1>5, <3>1, <3>2
  <2>3. QED
    BY <1>1, <1>2, <1>3, <2>1, <2>2, LifeGoesOn
<1>6. CASE UNCHANGED <<vars, age>>
  <2>1. hits' = hits /\ age'[q] = age[q] /\ counter'[k] = counter[k]
    BY <1>6 DEF vars
  <2>2. QED
    BY <1>1, <1>2, <1>3, <2>1, LifeGoesOn
<1>7. QED
  BY <1>4, <1>5, <1>6 DEF WindowNext, Finished

LEMMA WindowLives == WindowSpec => [](IInv /\ AgesOK /\ LivesOK)
<1>1. WindowInit => AgesOK /\ LivesOK
  BY ConfigAssumption DEF WindowInit, Init, AgesOK, LivesOK, Counted, Stages
<1>2. IInv /\ AgesOK /\ LivesOK /\ [WindowNext]_<<vars, age>> => AgesOK' /\ LivesOK'
  BY StepAges, StepLives DEF IInv
<1>3. QED
  BY <1>1, <1>2, WindowInvariant, PTL DEF WindowSpec

-----------------------------------------------------------------------------
\* Young requests of one key were counted in its present life or in the one
\* before, and not first in the one before.
LEMMA YoungTogether ==
  ASSUME IInv, LivesOK, NEW q \in Requests, Counted(q, "path"), ~Old(q)
  PROVE  LET e == counter[PathKey(q)]
             h == hits[q]["path"]
         IN  /\ h.epoch \in Nat /\ h.n \in Nat /\ h.n > 0 /\ e.epoch \in Nat
             /\ h.epoch = e.epoch \/ (h.epoch + 1 = e.epoch /\ h.n > 1)
<1> DEFINE e == counter[PathKey(q)]
<1> DEFINE h == hits[q]["path"]
<1>1. TypeOK /\ "path" \in Stages /\ PathKey(q) \in CounterKeys
  BY KeyTypes DEF IInv, Stages, PathKey
<1>2. e \in Counters /\ h \in [epoch : Nat, n : Nat]
  BY <1>1 DEF TypeOK
<1>3. h.n > 0 /\ h.epoch <= e.epoch
  BY <1>1 DEF Counted, IInv, HitsFit, PathKey
<1>4. LifeOK(q)
  BY DEF LivesOK
<1>5. QED
  BY <1>2, <1>3, <1>4 DEF LifeOK, Counters

\* In any CounterTTL of time, less than twice a path's limit of one client's counted requests
\* is let through.
THEOREM WindowsBounded == WindowSpec => []LessThanTwoWindows
<1>1. IInv /\ AgesOK /\ LivesOK => LessThanTwoWindows
  <2> SUFFICES ASSUME IInv, AgesOK, LivesOK, NEW r \in Requests, PathLimit(Path(r)) > 0
               PROVE  Cardinality(RecentLike(r)) < 2 * PathLimit(Path(r))
    BY DEF LessThanTwoWindows
  <2> DEFINE A == RecentLike(r)
  <2> DEFINE L == PathLimit(Path(r))
  <2> DEFINE now == counter[PathKey(r)].epoch
  <2>1. L \in Nat /\ L > 0
    BY KeyTypes, ConfigAssumption DEF IInv, PathLimit
  <2>2. ASSUME NEW q \in A
        PROVE  /\ q \in Requests /\ Counted(q, "path") /\ PathKey(q) = PathKey(r)
               /\ hits[q]["path"].n \in 1..L
               /\ hits[q]["path"].epoch \in Nat /\ now \in Nat
               /\ \/ hits[q]["path"].epoch = now
                  \/ hits[q]["path"].epoch + 1 = now /\ hits[q]["path"].n > 1
    <3>1. /\ q \in Requests /\ outcome[q] = "admitted" /\ Counted(q, "path")
          /\ client[q] = client[r] /\ age[q] < CounterTTL
      BY <2>2 DEF RecentLike
    <3>2. PathKey(q) = PathKey(r) /\ Limit(q, "path") = L
      BY <3>1 DEF PathKey, Key, Limit, IP, Path
    <3>3. ~Old(q)
      BY <3>1, ConfigAssumption DEF Old, AgesOK
    <3>4. hits[q]["path"].n <= L
      BY <3>1, <3>2 DEF IInv, AdmittedOK, Stages
    <3>5. QED
      BY <2>1, <3>1, <3>2, <3>3, <3>4, YoungTogether
  <2> DEFINE place(q) == IF hits[q]["path"].epoch = now THEN hits[q]["path"].n
                         ELSE L + hits[q]["path"].n - 1
  <2> DEFINE g == [q \in A |-> place(q)]
  <2>3. g \in Injection(A, 1 .. 2 * L - 1)
    <3>1. g \in [A -> 1 .. 2 * L - 1]
      <4>1. ASSUME NEW q \in A PROVE place(q) \in 1 .. 2 * L - 1
        BY <2>1, <2>2
      <4>2. QED
        BY <4>1
    <3>2. ASSUME NEW p \in A, NEW q \in A, g[p] = g[q]
          PROVE  p = q
      <4>1. place(p) = place(q)
        BY <3>2
      <4>2. /\ hits[p]["path"].epoch = hits[q]["path"].epoch
            /\ hits[p]["path"].n = hits[q]["path"].n
        BY <2>1, <2>2, <4>1
      <4>3. hits[p]["path"] = hits[q]["path"]
        <5>1. /\ hits[p]["path"] \in [epoch : Nat, n : Nat]
              /\ hits[q]["path"] \in [epoch : Nat, n : Nat]
          BY <2>2 DEF IInv, TypeOK, Stages
        <5>2. QED
          BY <4>2, <5>1
      <4>4. QED
        BY <2>2, <4>3 DEF IInv, HitsDistinct, PathKey, Stages
    <3>3. QED
      BY <3>1, <3>2 DEF Injection, IsInjective
  <2>4. IsFiniteSet(1 .. 2 * L - 1) /\ Cardinality(1 .. 2 * L - 1) = 2 * L - 1
    <3>1. 1 \in Int /\ 2 * L - 1 \in Int /\ ~(1 > 2 * L - 1) /\ 2 * L - 1 - 1 + 1 = 2 * L - 1
      BY <2>1
    <3>2. QED
      BY <3>1, FS_Interval
  <2>5. IsFiniteSet(A) /\ Cardinality(A) <= 2 * L - 1
    BY <2>3, <2>4, FS_Injection
  <2>6. Cardinality(A) \in Nat
    BY <2>5, FS_CardinalityType
  <2>7. QED
    BY <2>1, <2>5, <2>6
<1>2. QED
  BY <1>1, WindowLives, PTL
=============================================================================
