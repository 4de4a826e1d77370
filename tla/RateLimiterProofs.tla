------------------------- MODULE RateLimiterProofs --------------------------
(***************************************************************************)
(* Proofs about RateLimiter, for any requests, clients, paths, limits and  *)
(* lives of keys, and any number of faults.                                *)
(***************************************************************************)
EXTENDS RateLimiter, FiniteSetTheorems, TLAPS

-----------------------------------------------------------------------------
(***************************************************************************)
(* What Redis does to an entry keeps its type.                             *)
(***************************************************************************)
LEMMA RedisTypes ==
  /\ \A e \in Counters :
       /\ Incremented(e) \in Counters
       /\ \A t \in Nat : WithCounterTTL(e, t) \in Counters
       /\ CounterAged(e) \in Counters
  /\ \A e \in Blocks :
       /\ StrikeAdded(e) \in Blocks
       /\ \A t \in Nat \ {0} : WithBlockTTL(e, t) \in Blocks
       /\ BlockAged(e) \in Blocks
<1>1. ASSUME NEW e \in Counters
      PROVE  /\ Incremented(e) \in Counters
             /\ \A t \in Nat : WithCounterTTL(e, t) \in Counters
             /\ CounterAged(e) \in Counters
  BY DEF Counters, Incremented, WithCounterTTL, CounterAged
<1>2. ASSUME NEW e \in Blocks
      PROVE  /\ StrikeAdded(e) \in Blocks
             /\ \A t \in Nat \ {0} : WithBlockTTL(e, t) \in Blocks
             /\ BlockAged(e) \in Blocks
  BY DEF Blocks, StrikeAdded, WithBlockTTL, BlockAged
<1>3. QED
  BY <1>1, <1>2

\* The keys of a request are keys of Redis.
LEMMA KeyTypes ==
  ASSUME TypeOK, NEW r \in Requests
  PROVE  /\ \A s \in Stages : Key(r, s) \in CounterKeys
         /\ BlockKey(r) \in BlockKeys
         /\ stage[r] \in Stages
         /\ Path(r) \in Paths /\ IP(r) \in IPs
<1>1. client[r].path \in Paths /\ client[r].ip \in IPs
  BY DEF TypeOK
<1>2. AudienceOf[client[r].path] \in Audiences
  BY <1>1, ConfigAssumption
<1>3. QED
  BY <1>1, <1>2
  DEF TypeOK, Stages, Key, CounterKeys, BlockKey, BlockKeys, IP, Path

LEMMA InitTypeOK == Init => TypeOK
  BY DEF Init, TypeOK, Stages, Labels, Outcomes, Counters, Blocks

\* Deciding about a request keeps the types of what the decision changes.
LEMMA DecisionTypes ==
  ASSUME TypeOK, NEW r \in Requests, HitDone(r) \/ HitFailed(r)
  PROVE  /\ pc' \in [Requests -> Labels]
         /\ stage' \in [Requests -> Stages]
         /\ outcome' \in [Requests -> Outcomes]
  BY DEF TypeOK, HitDone, HitFailed, PassGlobal, Answer, GoTo, Stages, Labels,
         Outcomes

LEMMA FaultTypes ==
  ASSUME TypeOK, NEW r \in Requests,
         NEW s \in {"global", "path", "strike"}, FaultIn(r, s)
  PROVE  /\ faulty' \in [Requests -> SUBSET {"global", "path", "strike"}]
         /\ faults' \in Nat
<1>1. faulty' = [faulty EXCEPT ![r] = faulty[r] \cup {s}] /\ faults' = faults + 1
  BY DEF FaultIn, Fault
<1>2. QED
  BY <1>1 DEF TypeOK

\* Every step of hitRedisCounter keeps the types.
LEMMA HitTypeOK ==
  ASSUME TypeOK, NEW r \in Requests, Hit(r)
  PROVE  TypeOK'
<1> DEFINE s == stage[r]
<1> DEFINE k == Key(r, s)
<1> USE ConfigAssumption, RedisTypes, KeyTypes
<1>1. /\ s \in Stages /\ k \in CounterKeys
      /\ counter[k] \in Counters
      /\ Stages \subseteq {"global", "path", "strike"}
  BY DEF TypeOK, Stages
<1>2. ASSUME ExpireCounter(r)
      PROVE  counter' \in [CounterKeys -> Counters]
  BY <1>1, <1>2 DEF ExpireCounter, TypeOK
<1>3. CASE Incr(r)
  <2>1. counter' \in [CounterKeys -> Counters]
    BY <1>1, <1>3 DEF Incr, TypeOK
  <2>2. Incremented(counter[k]).n \in Nat /\ Incremented(counter[k]).epoch \in Nat
    BY <1>1 DEF Counters
  <2>3. hits' \in [Requests -> [Stages -> [epoch : Nat, n : Nat]]]
    BY <1>1, <1>3, <2>2 DEF Incr, TypeOK
  <2>4. QED
    BY <1>3, <2>1, <2>3 DEF Incr, TypeOK, GoTo, NoFault, Labels
<1>4. CASE IncrFails(r)
  <2>1. counter' \in [CounterKeys -> Counters]
    BY <1>1, <1>4 DEF IncrFails, TypeOK
  <2>2. HitFailed(r) /\ FaultIn(r, s) /\ UNCHANGED <<client, hits, strike, block>>
    BY <1>4 DEF IncrFails
  <2>3. QED
    BY ONLY TypeOK, <1>1, <2>1, <2>2, DecisionTypes, FaultTypes DEF TypeOK
<1>5. CASE Expire(r)
  BY <1>2, <1>5 DEF Expire, TypeOK, GoTo, NoFault, Labels, requestVars
<1>6. CASE ExpireFails(r)
  <2>1. counter' \in [CounterKeys -> Counters]
    BY <1>2, <1>6 DEF ExpireFails, TypeOK
  <2>2. HitFailed(r) /\ FaultIn(r, s) /\ UNCHANGED <<client, hits, strike, block>>
    BY <1>6 DEF ExpireFails
  <2>3. QED
    BY ONLY TypeOK, <1>1, <2>1, <2>2, DecisionTypes, FaultTypes DEF TypeOK
<1>7. CASE ReadTTL(r)
  <2>1. \/ GoTo(r, "repair") /\ UNCHANGED <<stage, outcome>>
        \/ HitDone(r)
    BY <1>7 DEF ReadTTL
  <2>2. /\ pc' \in [Requests -> Labels]
        /\ stage' \in [Requests -> Stages]
        /\ outcome' \in [Requests -> Outcomes]
    BY <2>1, DecisionTypes DEF TypeOK, GoTo, Labels
  <2>3. QED
    BY <1>7, <2>2 DEF ReadTTL, TypeOK, NoFault
<1>8. CASE ReadTTLFails(r)
  <2>1. /\ HitDone(r) /\ FaultIn(r, s)
        /\ UNCHANGED <<client, hits, strike, counter, block>>
    BY <1>8 DEF ReadTTLFails
  <2>2. QED
    BY ONLY TypeOK, <1>1, <2>1, DecisionTypes, FaultTypes DEF TypeOK
<1>9. CASE Repair(r)
  <2>1. /\ HitDone(r) /\ ExpireCounter(r)
        /\ UNCHANGED <<client, hits, strike, faulty, block, faults>>
    BY <1>9 DEF Repair, NoFault
  <2>2. QED
    BY ONLY TypeOK, <1>2, <2>1, DecisionTypes DEF TypeOK
<1>10. CASE RepairFails(r)
  <2>1. counter' \in [CounterKeys -> Counters]
    BY <1>2, <1>10 DEF RepairFails, TypeOK
  <2>2. HitDone(r) /\ FaultIn(r, s) /\ UNCHANGED <<client, hits, strike, block>>
    BY <1>10 DEF RepairFails
  <2>3. QED
    BY ONLY TypeOK, <1>1, <2>1, <2>2, DecisionTypes, FaultTypes DEF TypeOK
<1>11. QED
  BY <1>3, <1>4, <1>5, <1>6, <1>7, <1>8, <1>9, <1>10 DEF Hit

\* Every step of recordStrike keeps the types.
LEMMA RecordStrikeTypeOK ==
  ASSUME TypeOK, NEW r \in Requests, RecordStrike(r)
  PROVE  TypeOK'
<1> DEFINE b == BlockKey(r)
<1> USE ConfigAssumption, RedisTypes, KeyTypes
<1>1. b \in BlockKeys /\ block[b] \in Blocks
  BY DEF TypeOK
<1>2. CASE StrikeIncr(r)
  <2>1. StrikeAdded(block[b]).n \in Nat
    BY <1>1 DEF Blocks
  <2>2. block' \in [BlockKeys -> Blocks] /\ strike' \in [Requests -> Nat]
    BY <1>1, <1>2, <2>1 DEF StrikeIncr, TypeOK
  <2>3. pc' \in [Requests -> Labels]
    BY <1>2 DEF StrikeIncr, TypeOK, GoTo, Labels
  <2>4. QED
    BY <1>2, <2>2, <2>3 DEF StrikeIncr, TypeOK, NoFault
<1>3. CASE StrikeIncrFails(r)
  <2>1. block' \in [BlockKeys -> Blocks]
    BY <1>1, <1>3 DEF StrikeIncrFails, TypeOK
  <2>2. QED
    BY <1>3, <2>1 DEF StrikeIncrFails, TypeOK, FaultIn, Fault, GoTo, Labels
<1>4. CASE StrikeExpire(r)
  <2>1. WithBlockTTL(block[b], StrikeTTL) \in Blocks
    BY <1>1
  <2>2. block' \in [BlockKeys -> Blocks]
    <3>1. \/ block' = [block EXCEPT ![b] = WithBlockTTL(block[b], StrikeTTL)]
          \/ UNCHANGED block
      BY <1>4 DEF StrikeExpire
    <3>2. QED
      BY <1>1, <2>1, <3>1 DEF TypeOK
  <2>3. UNCHANGED <<faulty, faults>> \/ FaultIn(r, "strike")
    BY <1>4 DEF StrikeExpire
  <2>4. QED
    BY <1>4, <2>2, <2>3, FaultTypes DEF StrikeExpire, TypeOK, GoTo, Labels
<1>5. CASE StrikeSet(r)
  <2>1. block' \in [BlockKeys -> Blocks]
    <3>1. \/ block' = [block EXCEPT ![b] = [n |-> 0, banned |-> TRUE, ttl |-> BanTTL]]
          \/ UNCHANGED block
      BY <1>5 DEF StrikeSet
    <3>2. [n |-> 0, banned |-> TRUE, ttl |-> BanTTL] \in Blocks
      BY DEF Blocks
    <3>3. QED
      BY <1>1, <3>1, <3>2 DEF TypeOK
  <2>2. UNCHANGED <<faulty, faults>> \/ FaultIn(r, "strike")
    BY <1>5 DEF StrikeSet
  <2>3. QED
    BY <1>5, <2>1, <2>2, FaultTypes DEF StrikeSet, TypeOK, GoTo, Labels
<1>6. QED
  BY <1>2, <1>3, <1>4, <1>5 DEF RecordStrike

\* Every step keeps the types.
LEMMA NextTypeOK == TypeOK /\ [Next]_vars => TypeOK'
<1> SUFFICES ASSUME TypeOK, [Next]_vars
             PROVE  TypeOK'
  OBVIOUS
<1>1. ASSUME NEW r \in Requests, Start(r)
      PROVE  TypeOK'
  BY <1>1 DEF Start, TypeOK, Answer, GoTo, NoFault, Labels, Outcomes, requestVars
<1>2. ASSUME NEW r \in Requests, CheckBlock(r)
      PROVE  TypeOK'
  <2>1. /\ UNCHANGED <<client, stage, hits, strike, faulty, counter, block>>
        /\ \E l \in {"incr", "done"} : pc' = [pc EXCEPT ![r] = l]
        /\ \/ outcome' = outcome
           \/ outcome' = [outcome EXCEPT ![r] = "blocked"]
        /\ faults' = faults \/ faults' = faults + 1
    BY <1>2 DEF CheckBlock, Answer, GoTo, NoFault, Fault, requestVars
  <2>2. pc' \in [Requests -> Labels]
    BY <2>1 DEF TypeOK, Labels
  <2>3. outcome' \in [Requests -> Outcomes]
    BY <2>1 DEF TypeOK, Outcomes
  <2>4. faults' \in Nat
    BY <2>1 DEF TypeOK
  <2>5. QED
    BY <2>1, <2>2, <2>3, <2>4 DEF TypeOK
<1>3. ASSUME NEW r \in Requests, Die(r)
      PROVE  TypeOK'
  <2>1. stage[r] \in {"global", "path", "strike"}
    BY DEF TypeOK, Stages
  <2>2. QED
    BY <1>3, <2>1 DEF Die, TypeOK, Answer, GoTo, FaultIn, Fault, Labels, Outcomes
<1>4. CASE Tick
  BY <1>4, RedisTypes DEF Tick, TypeOK, requestVars
<1>5. CASE UNCHANGED vars
  BY <1>5 DEF vars, TypeOK
<1>6. QED
  BY <1>1, <1>2, <1>3, <1>4, <1>5, HitTypeOK, RecordStrikeTypeOK
  DEF Next, Step, Finished

\* The state of the limiter and of its keys in Redis is always well typed.
THEOREM TypeCorrect == Spec => []TypeOK
  BY InitTypeOK, NextTypeOK, PTL DEF Spec

-----------------------------------------------------------------------------
(***************************************************************************)
(* The inductive invariant behind the admission properties.                *)
(*                                                                         *)
(* PlaceOK: what a request knows at each of its calls.                     *)
(* AdmittedOK: what is known of an admitted request for good.              *)
(* HitsFit: a count some request got does not exceed the counter, as long  *)
(* as the key still lives the same life.                                   *)
(* HitsDistinct: in one life of a key no two requests got the same count.  *)
(***************************************************************************)
InLimiter == {"block", "incr", "expire", "ttl", "repair"}

PlaceOK ==
  \A r \in Requests :
    /\ pc[r] \in InLimiter \cup {"new"} => outcome[r] = "pending"
    /\ pc[r] \in InLimiter => DefaultLimit > 0
    /\ \A s \in Stages : Counted(r, s) => DefaultLimit > 0
    /\ pc[r] \in {"new", "block"} => stage[r] = "global"
    /\ pc[r] \in {"new", "block", "incr"} => hits[r][stage[r]].n = 0
    /\ pc[r] = "expire" => hits[r][stage[r]].n = 1
    /\ pc[r] \in {"ttl", "repair"} => hits[r][stage[r]].n > 0
    /\ stage[r] = "global" => hits[r]["path"].n = 0
    /\ stage[r] = "path" => /\ RouteLimit[Path(r)] # 0
                            /\ hits[r]["global"].n <= GlobalLimit

AdmittedOK ==
  \A r \in Requests : outcome[r] = "admitted" =>
    /\ \A s \in Stages : Counted(r, s) => hits[r][s].n <= Limit(r, s)
    /\ DefaultLimit > 0 /\ Path(r) \in FundPaths /\ RouteLimit[Path(r)] # 0
         => Counted(r, "path")

HitsFit ==
  \A r \in Requests, s \in Stages :
    LET e == counter[Key(r, s)]
    IN  Counted(r, s) =>
          /\ hits[r][s].epoch <= e.epoch
          /\ hits[r][s].epoch = e.epoch /\ e.n > 0 => hits[r][s].n <= e.n

HitsDistinct ==
  \A r, q \in Requests, s \in Stages :
    /\ Counted(r, s) /\ Counted(q, s)
    /\ Key(r, s) = Key(q, s)
    /\ hits[r][s] = hits[q][s]
    => r = q

IInv == TypeOK /\ PlaceOK /\ AdmittedOK /\ HitsFit /\ HitsDistinct

LEMMA InitIInv == Init => IInv
<1> SUFFICES ASSUME Init
             PROVE  IInv
  OBVIOUS
<1>1. \A r \in Requests, s \in Stages : hits[r][s].n = 0
  BY DEF Init
<1>2. PlaceOK
  BY <1>1 DEF Init, PlaceOK, InLimiter, Stages, Counted
<1>3. AdmittedOK /\ HitsFit /\ HitsDistinct
  BY <1>1 DEF Init, AdmittedOK, HitsFit, HitsDistinct, Counted
<1>4. QED
  BY <1>2, <1>3, InitTypeOK DEF IInv

(***************************************************************************)
(* Whatever happens, a counter key goes forward: its count grows within    *)
(* one life, or a later life begins.                                       *)
(***************************************************************************)
Later(e, f) ==
  /\ e.epoch <= f.epoch
  /\ f.epoch = e.epoch /\ f.n > 0 => e.n > 0 /\ e.n <= f.n

LEMMA RedisGoesForward ==
  \A e \in Counters :
    /\ Later(e, e)
    /\ Later(e, Incremented(e))
    /\ \A t \in Nat : Later(e, WithCounterTTL(e, t))
    /\ Later(e, CounterAged(e))
  BY DEF Counters, Later, Incremented, WithCounterTTL, CounterAged

LEMMA CountersGoForward ==
  ASSUME TypeOK, [Next]_vars
  PROVE  \A k \in CounterKeys : Later(counter[k], counter'[k])
<1> USE RedisGoesForward
<1>1. \A k \in CounterKeys : counter[k] \in Counters
  BY DEF TypeOK
<1>2. CASE UNCHANGED counter
  BY <1>1, <1>2
<1>3. ASSUME NEW r \in Requests, ExpireCounter(r)
      PROVE  \A k \in CounterKeys : Later(counter[k], counter'[k])
  BY <1>1, <1>3, KeyTypes, ConfigAssumption DEF ExpireCounter, TypeOK
<1>4. ASSUME NEW r \in Requests,
             counter' = [counter EXCEPT ![Key(r, stage[r])] =
                           Incremented(counter[Key(r, stage[r])])]
      PROVE  \A k \in CounterKeys : Later(counter[k], counter'[k])
  BY <1>1, <1>4, KeyTypes DEF TypeOK
<1>5. CASE Tick
  BY <1>1, <1>5 DEF Tick
<1>6. ASSUME NEW r \in Requests, Step(r) \/ Die(r)
      PROVE  \/ UNCHANGED counter
             \/ ExpireCounter(r)
             \/ counter' = [counter EXCEPT ![Key(r, stage[r])] =
                               Incremented(counter[Key(r, stage[r])])]
  BY <1>6 DEF Step, Start, CheckBlock, Hit, Incr, IncrFails, Expire,
              ExpireFails, ReadTTL, ReadTTLFails, Repair, RepairFails,
              RecordStrike, StrikeIncr, StrikeIncrFails, StrikeExpire,
              StrikeSet, Die
<1>7. QED
  BY <1>2, <1>3, <1>4, <1>5, <1>6 DEF Next, Finished, vars

\* A step that gives no request a count keeps what relates counts to counters.
LEMMA SameHits ==
  ASSUME IInv, [Next]_vars, UNCHANGED <<client, hits>>
  PROVE  HitsFit' /\ HitsDistinct'
<1>1. \A r \in Requests, s \in Stages :
         /\ Key(r, s)' = Key(r, s)
         /\ Key(r, s) \in CounterKeys
         /\ Counted(r, s)' <=> Counted(r, s)
         /\ hits[r][s].epoch \in Nat /\ hits[r][s].n \in Nat
  BY KeyTypes DEF IInv, TypeOK, Key, IP, Path, Counted
<1>2. \A k \in CounterKeys : /\ Later(counter[k], counter'[k])
                             /\ counter[k] \in Counters
                             /\ counter'[k] \in Counters
  BY CountersGoForward, NextTypeOK DEF IInv, TypeOK
<1>3. HitsFit'
  BY <1>1, <1>2 DEF IInv, HitsFit, Later, Counters
<1>4. HitsDistinct'
  BY <1>1 DEF IInv, HitsDistinct
<1>5. QED
  BY <1>3, <1>4

\* The count INCR returns is new in this life of the key.
LEMMA NewHit ==
  ASSUME IInv, NEW r \in Requests, Incr(r)
  PROVE  HitsFit' /\ HitsDistinct'
<1> DEFINE s == stage[r]
<1> DEFINE k == Key(r, s)
<1> DEFINE e == counter[k]
<1> DEFINE f == Incremented(e)
<1>1. /\ s \in Stages /\ k \in CounterKeys
      /\ e \in Counters /\ f \in Counters
  BY KeyTypes, RedisTypes DEF IInv, TypeOK
<1>2. /\ counter' = [counter EXCEPT ![k] = f]
      /\ hits' = [hits EXCEPT ![r] = [hits[r] EXCEPT ![s] =
                                       [epoch |-> f.epoch, n |-> f.n]]]
      /\ UNCHANGED client
  BY DEF Incr
<1>3. ASSUME NEW q \in Requests, NEW t \in Stages, Counted(q, t), Key(q, t) = k
      PROVE  hits[q][t].epoch # f.epoch \/ hits[q][t].n < f.n
  <2>1. /\ hits[q][t].epoch <= e.epoch
        /\ hits[q][t].epoch = e.epoch /\ e.n > 0 => hits[q][t].n <= e.n
    BY <1>3 DEF IInv, HitsFit
  <2>2. hits[q][t].epoch \in Nat /\ hits[q][t].n \in Nat
    BY DEF IInv, TypeOK
  <2>3. QED
    BY <1>1, <2>1, <2>2 DEF Incremented, Counters
<1>4. \A q \in Requests, t \in Stages :
         /\ Key(q, t)' = Key(q, t)
         /\ Key(q, t) \in CounterKeys
         /\ hits[q][t].epoch \in Nat /\ hits[q][t].n \in Nat
         /\ <<q, t>> # <<r, s>> => hits'[q][t] = hits[q][t]
         /\ <<q, t>> # <<r, s>> => (Counted(q, t)' <=> Counted(q, t))
  BY <1>1, <1>2, KeyTypes DEF IInv, TypeOK, Key, IP, Path, Counted
<1>5. hits'[r][s] = [epoch |-> f.epoch, n |-> f.n]
  BY <1>1, <1>2 DEF IInv, TypeOK
<1>6. HitsFit'
  <2> SUFFICES ASSUME NEW q \in Requests, NEW t \in Stages, Counted(q, t)'
               PROVE  LET c == counter'[Key(q, t)]
                      IN  /\ hits'[q][t].epoch <= c.epoch
                          /\ hits'[q][t].epoch = c.epoch /\ c.n > 0
                                => hits'[q][t].n <= c.n
    BY <1>4 DEF HitsFit
  <2>1. CASE q = r /\ t = s
    BY <1>1, <1>2, <1>5, <2>1 DEF Counters, IInv, TypeOK
  <2>2. CASE <<q, t>> # <<r, s>>
    <3>1. Later(counter[Key(q, t)], counter'[Key(q, t)])
      BY <1>1, <1>2, <1>4, RedisGoesForward DEF IInv, TypeOK
    <3>2. /\ counter[Key(q, t)] \in Counters
          /\ counter'[Key(q, t)] \in Counters
      BY <1>1, <1>2, <1>4 DEF IInv, TypeOK
    <3>3. QED
      BY <1>4, <2>2, <3>1, <3>2 DEF IInv, HitsFit, Later, Counters
  <2>3. QED
    BY <2>1, <2>2
<1>7. HitsDistinct'
  <2> SUFFICES ASSUME NEW p \in Requests, NEW q \in Requests, NEW t \in Stages,
                      Counted(p, t)', Counted(q, t)', Key(p, t) = Key(q, t),
                      hits'[p][t] = hits'[q][t], p # q
               PROVE  FALSE
    BY <1>4 DEF HitsDistinct
  <2>1. CASE <<p, t>> = <<r, s>>
    BY <1>3, <1>4, <1>5, <2>1
  <2>2. CASE <<q, t>> = <<r, s>>
    BY <1>3, <1>4, <1>5, <2>2
  <2>3. CASE <<p, t>> # <<r, s>> /\ <<q, t>> # <<r, s>>
    BY <1>4, <2>3 DEF IInv, HitsDistinct
  <2>4. QED
    BY <2>1, <2>2, <2>3
<1>8. QED
  BY <1>6, <1>7

\* Where RateLimit admits a request, it does so within the limits, and on a
\* fund path only with a count; where it goes on, the place invariant holds.
LEMMA DoneDecision ==
  ASSUME IInv, NEW r \in Requests, pc[r] \in {"ttl", "repair"}, HitDone(r),
         UNCHANGED <<client, hits>>
  PROVE  PlaceOK' /\ AdmittedOK'
<1> USE ConfigAssumption
<1>1. /\ stage[r] \in {"global", "path"} /\ RouteLimit[Path(r)] \in Int
      /\ hits[r][stage[r]].n > 0 /\ DefaultLimit > 0
      /\ \A s \in {"global", "path"} : hits[r][s].n \in Nat
  BY KeyTypes DEF IInv, TypeOK, PlaceOK, InLimiter, Stages
<1>2. Limit(r, stage[r]) \in Int
  BY <1>1 DEF Limit, GlobalLimit, PathLimit
<1>3. CASE OverLimit(r, stage[r])
  <2>1. /\ outcome' = [outcome EXCEPT ![r] = "limited"]
        /\ \E l \in {"strikeIncr", "done"} : pc' = [pc EXCEPT ![r] = l]
        /\ UNCHANGED stage
    BY <1>3 DEF HitDone, GoTo
  <2>2. QED
    BY <2>1 DEF IInv, TypeOK, PlaceOK, AdmittedOK, InLimiter, Path, Limit, Counted
<1>4. CASE ~OverLimit(r, stage[r]) /\ (stage[r] = "path" \/ RouteLimit[Path(r)] = 0)
  <2>1. Answer(r, "admitted") /\ UNCHANGED stage
    BY <1>1, <1>4 DEF HitDone, PassGlobal
  <2>2. hits[r][stage[r]].n <= Limit(r, stage[r])
    BY <1>1, <1>2, <1>4 DEF OverLimit
  <2>3. PlaceOK'
    BY <2>1 DEF IInv, TypeOK, PlaceOK, InLimiter, Answer, GoTo, Path, Counted
  <2>4. ASSUME NEW s \in Stages, Counted(r, s)
        PROVE  hits[r][s].n <= Limit(r, s)
    BY <1>1, <2>2, <2>4 DEF IInv, PlaceOK, Limit, Counted, Stages
  <2>5. RouteLimit[Path(r)] # 0 => Counted(r, "path")
    BY <1>1, <1>4 DEF Counted
  <2>6. AdmittedOK'
    BY <2>1, <2>4, <2>5 DEF IInv, TypeOK, AdmittedOK, Answer, Path, Limit, Counted
  <2>7. QED
    BY <2>3, <2>6
<1>5. CASE ~OverLimit(r, stage[r]) /\ stage[r] = "global" /\ RouteLimit[Path(r)] # 0
  <2>1. /\ stage' = [stage EXCEPT ![r] = "path"]
        /\ pc' = [pc EXCEPT ![r] = "incr"]
        /\ UNCHANGED outcome
    BY <1>5 DEF HitDone, PassGlobal, GoTo
  <2>2. hits[r]["global"].n <= GlobalLimit /\ hits[r]["path"].n = 0
    BY <1>1, <1>2, <1>5 DEF OverLimit, Limit, IInv, PlaceOK
  <2>3. outcome[r] = "pending"
    BY DEF IInv, PlaceOK, InLimiter
  <2>4. QED
    BY <1>1, <1>5, <2>1, <2>2, <2>3
    DEF IInv, TypeOK, PlaceOK, AdmittedOK, InLimiter, Path, Limit, Counted, Stages
<1>6. QED
  BY <1>1, <1>3, <1>4, <1>5

LEMMA FailedDecision ==
  ASSUME IInv, NEW r \in Requests, pc[r] \in {"incr", "expire"}, HitFailed(r),
         UNCHANGED <<client, hits>>
  PROVE  PlaceOK' /\ AdmittedOK'
<1> USE ConfigAssumption
<1>1. /\ stage[r] \in {"global", "path"} /\ RouteLimit[Path(r)] \in Int
      /\ hits[r][stage[r]].n \in {0, 1} /\ DefaultLimit > 0
      /\ \A s \in {"global", "path"} : hits[r][s].n \in Nat
  BY KeyTypes DEF IInv, TypeOK, PlaceOK, InLimiter, Stages
<1>2. GlobalLimit \in Int /\ GlobalLimit >= 1
  BY <1>1 DEF GlobalLimit
<1>3. RouteLimit[Path(r)] # 0 => PathLimit(Path(r)) \in Int /\ PathLimit(Path(r)) >= 1
  BY <1>1 DEF PathLimit
<1>4. PlaceOK'
  BY <1>1, <1>2 DEF IInv, TypeOK, PlaceOK, InLimiter, HitFailed, PassGlobal,
                    Answer, GoTo, Path, Stages, Counted
<1>5. AdmittedOK'
  BY <1>1, <1>2, <1>3 DEF IInv, TypeOK, PlaceOK, AdmittedOK, HitFailed,
                          PassGlobal, Answer, GoTo, Limit, Path, Stages, Counted
<1>6. QED
  BY <1>4, <1>5

\* Every step keeps PlaceOK and AdmittedOK.
LEMMA NextPlace ==
  ASSUME IInv, [Next]_vars
  PROVE  PlaceOK' /\ AdmittedOK'
<1> USE ConfigAssumption
<1>1. ASSUME NEW r \in Requests, Start(r)
      PROVE  PlaceOK' /\ AdmittedOK'
  BY <1>1 DEF Start, IInv, TypeOK, PlaceOK, AdmittedOK, InLimiter, At, Answer,
              GoTo, requestVars, Path, Limit, Counted, Stages
<1>2. ASSUME NEW r \in Requests, CheckBlock(r)
      PROVE  PlaceOK' /\ AdmittedOK'
  BY <1>2 DEF CheckBlock, IInv, TypeOK, PlaceOK, AdmittedOK, InLimiter, At,
              Answer, GoTo, requestVars, Path, Limit, Counted
<1>3. ASSUME NEW r \in Requests, Incr(r)
      PROVE  PlaceOK' /\ AdmittedOK'
  <2> DEFINE f == Incremented(counter[Key(r, stage[r])])
  <2>1. /\ stage[r] \in Stages /\ pc[r] = "incr" /\ outcome[r] = "pending"
        /\ f.n \in Nat /\ f.n > 0
    <3>1. stage[r] \in Stages /\ counter[Key(r, stage[r])] \in Counters
      BY KeyTypes DEF IInv, TypeOK
    <3>2. f.n \in Nat /\ f.n > 0
      BY <3>1 DEF Incremented, Counters
    <3>3. QED
      BY <1>3, <3>1, <3>2 DEF IInv, PlaceOK, InLimiter, Incr, At
  <2>2. /\ hits' = [hits EXCEPT ![r] = [hits[r] EXCEPT ![stage[r]] =
                                         [epoch |-> f.epoch, n |-> f.n]]]
        /\ pc' = [pc EXCEPT ![r] = IF f.n = 1 THEN "expire" ELSE "ttl"]
        /\ UNCHANGED <<client, stage, outcome>>
    BY <1>3 DEF Incr, GoTo
  <2>3. \A q \in Requests : q # r => hits'[q] = hits[q]
    BY <2>2 DEF IInv, TypeOK
  <2>4. /\ hits'[r][stage[r]].n = f.n
        /\ \A s \in Stages : s # stage[r] => hits'[r][s] = hits[r][s]
    BY <2>1, <2>2 DEF IInv, TypeOK
  <2>5. PlaceOK'
    BY <2>1, <2>2, <2>3, <2>4 DEF IInv, TypeOK, PlaceOK, InLimiter, Path, Stages,
                                    Counted
  <2>6. AdmittedOK'
    BY <2>1, <2>2, <2>3, <2>4 DEF IInv, TypeOK, AdmittedOK, Path, Limit, Counted
  <2>7. QED
    BY <2>5, <2>6
<1>4. ASSUME NEW r \in Requests, IncrFails(r) \/ ExpireFails(r)
      PROVE  PlaceOK' /\ AdmittedOK'
  BY <1>4, FailedDecision DEF IncrFails, ExpireFails, At
<1>5. ASSUME NEW r \in Requests, Expire(r)
      PROVE  PlaceOK' /\ AdmittedOK'
  BY <1>5 DEF Expire, IInv, TypeOK, PlaceOK, AdmittedOK, InLimiter, At, GoTo,
              requestVars, Path, Limit, Counted
<1>6. ASSUME NEW r \in Requests, ReadTTL(r)
      PROVE  PlaceOK' /\ AdmittedOK'
  <2>1. pc[r] = "ttl" /\ UNCHANGED <<client, hits>>
    BY <1>6 DEF ReadTTL, At
  <2>2. CASE HitDone(r)
    BY <2>1, <2>2, DoneDecision
  <2>3. CASE GoTo(r, "repair") /\ UNCHANGED <<stage, outcome>>
    BY <2>1, <2>3 DEF IInv, TypeOK, PlaceOK, AdmittedOK, InLimiter, GoTo, Path,
                      Limit, Counted
  <2>4. QED
    BY <1>6, <2>2, <2>3 DEF ReadTTL
<1>7. ASSUME NEW r \in Requests, ReadTTLFails(r) \/ Repair(r) \/ RepairFails(r)
      PROVE  PlaceOK' /\ AdmittedOK'
  BY <1>7, DoneDecision DEF ReadTTLFails, Repair, RepairFails, At
<1>8. ASSUME NEW r \in Requests, RecordStrike(r)
      PROVE  PlaceOK' /\ AdmittedOK'
  <2>1. /\ \E l \in {"strikeExpire", "strikeSet", "done"} : GoTo(r, l)
        /\ UNCHANGED <<client, stage, hits, outcome>>
    BY <1>8 DEF RecordStrike, StrikeIncr, StrikeIncrFails, StrikeExpire, StrikeSet
  <2>2. QED
    BY <2>1 DEF IInv, TypeOK, PlaceOK, AdmittedOK, InLimiter, GoTo, Path,
                Limit, Counted
<1>9. ASSUME NEW r \in Requests, Die(r)
      PROVE  PlaceOK' /\ AdmittedOK'
  BY <1>9 DEF Die, IInv, TypeOK, PlaceOK, AdmittedOK, InLimiter, Answer, GoTo,
              Path, Limit, Counted
<1>10. CASE UNCHANGED <<pc, client, stage, hits, outcome>>
  BY <1>10 DEF IInv, PlaceOK, AdmittedOK, InLimiter, Path, Limit, Counted
<1>11. QED
  BY <1>1, <1>2, <1>3, <1>4, <1>5, <1>6, <1>7, <1>8, <1>9, <1>10
  DEF Next, Step, Hit, Tick, Finished, vars, requestVars

LEMMA NextIInv == IInv /\ [Next]_vars => IInv'
<1> SUFFICES ASSUME IInv, [Next]_vars
             PROVE  IInv'
  OBVIOUS
<1>1. \/ \E r \in Requests : Incr(r)
      \/ UNCHANGED <<client, hits>>
  BY DEF Next, Step, Start, CheckBlock, Hit, Incr, IncrFails, Expire,
         ExpireFails, ReadTTL, ReadTTLFails, Repair, RepairFails,
         RecordStrike, StrikeIncr, StrikeIncrFails, StrikeExpire, StrikeSet,
         Die, Tick, Finished, vars, requestVars
<1>2. HitsFit' /\ HitsDistinct'
  BY <1>1, NewHit, SameHits
<1>3. TypeOK'
  BY NextTypeOK DEF IInv
<1>4. QED
  BY <1>2, <1>3, NextPlace DEF IInv

LEMMA InvariantHolds == Spec => []IInv
  BY InitIInv, NextIInv, PTL DEF Spec

-----------------------------------------------------------------------------
\* On a fund path nothing is admitted but what Redis counted within the limit.
THEOREM FundPathsClosed == Spec => []FundPathFailsClosed
<1>1. IInv => FundPathFailsClosed
  <2> SUFFICES ASSUME IInv, NEW r \in Requests, DefaultLimit > 0,
                      Path(r) \in FundPaths, RouteLimit[Path(r)] # 0,
                      outcome[r] = "admitted"
               PROVE  hits[r]["path"].n \in 1..Limit(r, "path")
    BY DEF FundPathFailsClosed
  <2>1. hits[r]["path"].n \in Nat
    BY DEF IInv, TypeOK, Stages
  <2>2. Limit(r, "path") \in Int
    BY KeyTypes, ConfigAssumption DEF IInv, Limit, PathLimit
  <2>3. QED
    BY <2>1, <2>2 DEF IInv, AdmittedOK, Counted, Stages
<1>2. QED
  BY <1>1, InvariantHolds, PTL

\* In one life of a counter key at most its limit of requests is admitted.
THEOREM AdmissionLimit == Spec => []AdmittedWithinLimit
<1>1. IInv => AdmittedWithinLimit
  <2> SUFFICES ASSUME IInv, NEW r \in Requests, NEW s \in Stages, Counted(r, s)
               PROVE  Cardinality(AdmittedWith(r, s)) <= Limit(r, s)
    BY DEF AdmittedWithinLimit
  <2> DEFINE A == AdmittedWith(r, s)
  <2> DEFINE L == Limit(r, s)
  <2>1. L \in Int
    BY KeyTypes, ConfigAssumption DEF IInv, Limit, PathLimit, GlobalLimit
  <2>2. ASSUME NEW q \in A
        PROVE  hits[q][s].n \in 1..L
    <3>1. q \in Requests /\ outcome[q] = "admitted" /\ Counted(q, s)
          /\ Key(q, s) = Key(r, s)
      BY <2>2 DEF AdmittedWith
    <3>2. Limit(q, s) = L
      BY <3>1 DEF Key, Limit, Stages
    <3>3. hits[q][s].n \in Nat
      BY <3>1 DEF IInv, TypeOK
    <3>4. QED
      BY <2>1, <3>1, <3>2, <3>3 DEF IInv, AdmittedOK, Counted
  <2> DEFINE g == [q \in A |-> hits[q][s].n]
  <2>3. g \in Injection(A, 1..L)
    <3>1. g \in [A -> 1..L]
      BY <2>2
    <3>2. ASSUME NEW p \in A, NEW q \in A, g[p] = g[q]
          PROVE  p = q
      <4>1. /\ p \in Requests /\ q \in Requests
            /\ Counted(p, s) /\ Counted(q, s) /\ Key(p, s) = Key(q, s)
            /\ hits[p][s].epoch = hits[q][s].epoch
        BY <3>2 DEF AdmittedWith
      <4>2. hits[p][s].n = hits[q][s].n
        <5>1. g[p] = hits[p][s].n /\ g[q] = hits[q][s].n
          BY <3>2
        <5>2. QED
          BY <3>2, <5>1
      <4>3. hits[p][s] = hits[q][s]
        <5>1. /\ hits[p][s] \in [epoch : Nat, n : Nat]
              /\ hits[q][s] \in [epoch : Nat, n : Nat]
          BY <4>1 DEF IInv, TypeOK
        <5>2. QED
          BY <4>1, <4>2, <5>1
      <4>4. QED
        BY <4>1, <4>3 DEF IInv, HitsDistinct
    <3>3. QED
      BY <3>1, <3>2 DEF Injection, IsInjective
  <2>4. IsFiniteSet(1..L) /\ Cardinality(1..L) = IF 1 > L THEN 0 ELSE L
    BY <2>1, FS_Interval
  <2>5. CASE A = {}
    <3>1. L >= 0
      BY <2>1 DEF IInv, PlaceOK, Limit, GlobalLimit, PathLimit
    <3>2. QED
      BY <2>5, <3>1, FS_EmptySet
  <2>6. CASE A # {}
    <3>1. L >= 1
      BY <2>1, <2>2, <2>6
    <3>2. Cardinality(A) <= Cardinality(1..L)
      BY <2>3, <2>4, FS_Injection
    <3>3. QED
      BY <2>1, <2>4, <3>1, <3>2
  <2>7. QED
    BY <2>5, <2>6
<1>2. QED
  BY <1>1, InvariantHolds, PTL
-----------------------------------------------------------------------------
(***************************************************************************)
(* A strike counter without a TTL is the work of a fault.  The invariant   *)
(* is inductive next to the types: the request that created the counter    *)
(* answers for it until its EXPIRE, and for good if that call fails.       *)
(***************************************************************************)
AnswersFor(r, b) ==
  /\ BlockKey(r) = b
  /\ At(r, "strikeExpire") \/ "strike" \in faulty[r]

\* A step of one request takes nothing from what the others answer for.
LEMMA OthersStillAnswer ==
  ASSUME TypeOK, NEW r \in Requests, NEW q \in Requests, NEW b \in BlockKeys,
         Step(r) \/ Die(r), q # r, AnswersFor(q, b)
  PROVE  AnswersFor(q, b)'
<1>1. client' = client
  BY DEF Step, Start, CheckBlock, Hit, Incr, IncrFails, Expire, ExpireFails,
         ReadTTL, ReadTTLFails, Repair, RepairFails, RecordStrike, StrikeIncr,
         StrikeIncrFails, StrikeExpire, StrikeSet, Die, requestVars
<1>2. \E l \in Labels : pc' = [pc EXCEPT ![r] = l]
  BY DEF Step, Start, CheckBlock, Hit, Incr, IncrFails, Expire, ExpireFails,
         ReadTTL, ReadTTLFails, Repair, RepairFails, RecordStrike, StrikeIncr,
         StrikeIncrFails, StrikeExpire, StrikeSet, Die, HitDone, HitFailed,
         PassGlobal, Answer, GoTo, Labels
<1>3. \/ faulty' = faulty
      \/ \E s \in {"global", "path", "strike"} :
           faulty' = [faulty EXCEPT ![r] = faulty[r] \cup {s}]
  BY DEF TypeOK, Stages, Step, Start, CheckBlock, Hit, Incr, IncrFails, Expire,
         ExpireFails, ReadTTL, ReadTTLFails, Repair, RepairFails, RecordStrike,
         StrikeIncr, StrikeIncrFails, StrikeExpire, StrikeSet, Die, FaultIn,
         requestVars
<1>4. QED
  BY <1>1, <1>2, <1>3 DEF TypeOK, AnswersFor, At, BlockKey, IP, Path

\* What a request already answered for, it answers for after a step of its
\* own, unless that step gave the key a TTL.
LEMMA StillAnswers ==
  ASSUME TypeOK, NEW r \in Requests, NEW b \in BlockKeys,
         Step(r) \/ Die(r), AnswersFor(r, b)
  PROVE  AnswersFor(r, b)' \/ ~StruckForEver(b)'
<1> USE ConfigAssumption
<1>1. BlockKey(r)' = b /\ faulty[r] \subseteq faulty'[r]
  BY DEF TypeOK, AnswersFor, BlockKey, IP, Path, Step, Start, CheckBlock, Hit,
         Incr, IncrFails, Expire, ExpireFails, ReadTTL, ReadTTLFails, Repair,
         RepairFails, RecordStrike, StrikeIncr, StrikeIncrFails, StrikeExpire,
         StrikeSet, Die, FaultIn, requestVars
<1>2. CASE "strike" \in faulty[r]
  BY <1>1, <1>2 DEF AnswersFor
<1>3. CASE At(r, "strikeExpire")
  <2>1. StrikeExpire(r) \/ Die(r)
    BY <1>3 DEF At, Step, Start, CheckBlock, Hit, Incr, IncrFails, Expire,
                ExpireFails, ReadTTL, ReadTTLFails, Repair, RepairFails,
                RecordStrike, StrikeIncr, StrikeIncrFails, StrikeSet
  <2>2. CASE "strike" \in faulty'[r]
    BY <1>1, <2>2 DEF AnswersFor
  <2>3. CASE block' = [block EXCEPT ![b] = WithBlockTTL(block[b], StrikeTTL)]
    <3>1. block'[b] = WithBlockTTL(block[b], StrikeTTL)
      BY <2>3 DEF TypeOK
    <3>2. block[b] \in Blocks
      BY DEF TypeOK
    <3>3. QED
      BY <3>1, <3>2 DEF StruckForEver, WithBlockTTL, Blocks
  <2>4. QED
    BY <1>3, <2>1, <2>2, <2>3
    DEF At, StrikeExpire, Die, FaultIn, AnswersFor, TypeOK
<1>4. QED
  BY <1>2, <1>3 DEF AnswersFor

\* A strike counter without a TTL comes only from a request that answers for it.
LEMMA CreatorAnswers ==
  ASSUME TypeOK, NEW r \in Requests, NEW b \in BlockKeys,
         Step(r) \/ Die(r), StruckForEver(b)', ~StruckForEver(b)
  PROVE  AnswersFor(r, b)'
<1> USE ConfigAssumption
<1>1. block[b] \in Blocks /\ BlockKey(r) \in BlockKeys
  BY KeyTypes DEF TypeOK
<1>2. StrikeIncr(r) \/ StrikeIncrFails(r) \/ StrikeExpire(r) \/ StrikeSet(r)
  BY DEF StruckForEver, Step, Start, CheckBlock, Hit, Incr, IncrFails, Expire,
         ExpireFails, ReadTTL, ReadTTLFails, Repair, RepairFails,
         RecordStrike, Die
<1>3. CASE StrikeIncr(r)
  <2>1. /\ ~block[BlockKey(r)].banned
        /\ block' = [block EXCEPT ![BlockKey(r)] = StrikeAdded(block[BlockKey(r)])]
        /\ LET e == StrikeAdded(block[BlockKey(r)])
           IN  e.n = 1 => pc' = [pc EXCEPT ![r] = "strikeExpire"]
        /\ client' = client
    BY <1>3 DEF StrikeIncr, StruckForEver, GoTo
  <2>2. BlockKey(r) = b /\ block'[b] = StrikeAdded(block[b])
    BY <1>1, <2>1 DEF StruckForEver, TypeOK
  <2>3. StrikeAdded(block[b]).n = 1
    BY <1>1, <2>2 DEF StruckForEver, StrikeAdded, Blocks
  <2>4. QED
    BY <2>1, <2>2, <2>3 DEF AnswersFor, At, BlockKey, IP, Path, TypeOK
<1>4. CASE StrikeIncrFails(r)
  <2>1. /\ \/ UNCHANGED block
           \/ block' = [block EXCEPT ![BlockKey(r)] = StrikeAdded(block[BlockKey(r)])]
        /\ "strike" \in faulty'[r]
        /\ client' = client
    BY <1>4 DEF StrikeIncrFails, FaultIn, TypeOK
  <2>2. BlockKey(r) = b
    BY <1>1, <2>1 DEF StruckForEver, TypeOK
  <2>3. QED
    BY <2>1, <2>2 DEF AnswersFor, BlockKey, IP, Path
<1>5. CASE StrikeExpire(r)
  <2>1. \/ UNCHANGED block
        \/ block' = [block EXCEPT ![BlockKey(r)] =
                                    WithBlockTTL(block[BlockKey(r)], StrikeTTL)]
    BY <1>5 DEF StrikeExpire
  <2>2. block'[b] \in {block[b], WithBlockTTL(block[b], StrikeTTL)}
    BY <1>1, <2>1 DEF TypeOK
  <2>3. ~StruckForEver(b)'
    BY <1>1, <2>2 DEF StruckForEver, WithBlockTTL, Blocks
  <2>4. QED
    BY <2>3
<1>6. CASE StrikeSet(r)
  <2>1. block'[b] \in {block[b], [n |-> 0, banned |-> TRUE, ttl |-> BanTTL]}
    BY <1>1, <1>6 DEF StrikeSet, TypeOK
  <2>2. ~StruckForEver(b)'
    BY <1>1, <2>1 DEF StruckForEver
  <2>3. QED
    BY <2>2
<1>7. QED
  BY <1>2, <1>3, <1>4, <1>5, <1>6

\* The race of requests to strike, to ban and of the keys to expire never
\* leaves a strike counter without a TTL: only a fault in recordStrike does.
THEOREM StrikesExpire == Spec => []StrikesOutliveOnlyFaults
<1>1. StrikesOutliveOnlyFaults
        <=> \A b \in BlockKeys : StruckForEver(b) =>
              \E r \in Requests : AnswersFor(r, b)
  BY DEF StrikesOutliveOnlyFaults, AnswersFor
<1>2. Init => StrikesOutliveOnlyFaults
  BY DEF Init, StrikesOutliveOnlyFaults, StruckForEver
<1>3. TypeOK /\ StrikesOutliveOnlyFaults /\ [Next]_vars
        => StrikesOutliveOnlyFaults'
  <2> SUFFICES ASSUME TypeOK, StrikesOutliveOnlyFaults, [Next]_vars,
                      NEW b \in BlockKeys, StruckForEver(b)'
               PROVE  \E r \in Requests : AnswersFor(r, b)'
    BY DEF StrikesOutliveOnlyFaults, AnswersFor
  <2>1. ASSUME NEW r \in Requests, Step(r) \/ Die(r)
        PROVE  \E q \in Requests : AnswersFor(q, b)'
    <3>1. CASE ~StruckForEver(b)
      BY <2>1, <3>1, CreatorAnswers
    <3>2. CASE StruckForEver(b)
      <4>1. PICK q \in Requests : AnswersFor(q, b)
        BY <1>1, <3>2
      <4>2. QED
        BY <2>1, <4>1, OthersStillAnswer, StillAnswers
    <3>3. QED
      BY <3>1, <3>2
  <2>2. ASSUME UNCHANGED <<pc, client, faulty>>, StruckForEver(b)
        PROVE  \E q \in Requests : AnswersFor(q, b)'
    BY <1>1, <2>2 DEF AnswersFor, At, BlockKey, IP, Path
  <2>3. CASE Tick
    <3>1. block[b] \in Blocks /\ block'[b] = BlockAged(block[b])
      BY <2>3 DEF Tick, TypeOK
    <3>2. StruckForEver(b)
      BY <3>1 DEF StruckForEver, BlockAged, Blocks
    <3>3. QED
      BY <2>2, <2>3, <3>2 DEF Tick, requestVars
  <2>4. CASE UNCHANGED vars
    BY <2>2, <2>4 DEF vars, StruckForEver
  <2>5. QED
    BY <2>1, <2>3, <2>4 DEF Next, Finished
<1>4. QED
  BY <1>2, <1>3, TypeCorrect, PTL DEF Spec

-----------------------------------------------------------------------------
(***************************************************************************)
(* A ban is earned.  The invariant counts the requests that have struck:   *)
(* neither a strike counter nor the strike a request was told exceeds      *)
(* their number, and the number never goes down.                           *)
(***************************************************************************)
Guilty(r) == Bannable(IP(r)) /\ \E s \in Stages : OverLimit(r, s)

Struck(b) ==
  {r \in Requests : /\ BlockKey(r) = b
                    /\ pc[r] \in {"strikeExpire", "strikeSet", "done"}
                    /\ Guilty(r)}

StrikersGuilty ==
  \A r \in Requests :
    pc[r] \in {"strikeIncr", "strikeExpire", "strikeSet"} => Guilty(r)

CountersEarned ==
  \A b \in BlockKeys :
    /\ block[b].n <= Cardinality(Struck(b))
    /\ block[b].banned => Threshold <= Cardinality(Struck(b))

StrikesEarned ==
  \A r \in Requests :
    /\ pc[r] \in {"strikeExpire", "strikeSet"}
         => strike[r] <= Cardinality(Struck(BlockKey(r)))
    /\ pc[r] = "strikeSet" => Threshold <= strike[r]

BanIInv == StrikersGuilty /\ CountersEarned /\ StrikesEarned

\* What a step of one request changes of the strikes.
LEMMA StrikeFrame ==
  ASSUME TypeOK, NEW r \in Requests, Step(r) \/ Die(r)
  PROVE  /\ client' = client
         /\ \A q \in Requests \ {r} :
              pc'[q] = pc[q] /\ hits'[q] = hits[q] /\ strike'[q] = strike[q]
         /\ ~StrikeIncr(r) => strike' = strike
         /\ ~RecordStrike(r) => block' = block
         /\ pc[r] \in {"strikeIncr", "strikeExpire", "strikeSet", "done"}
              => /\ hits' = hits
                 /\ pc'[r] \in {"strikeExpire", "strikeSet", "done"}
<1>1. /\ client' = client
      /\ ~StrikeIncr(r) => strike' = strike
      /\ ~RecordStrike(r) => block' = block
  BY DEF Step, Start, CheckBlock, Hit, Incr, IncrFails, Expire, ExpireFails,
         ReadTTL, ReadTTLFails, Repair, RepairFails, RecordStrike, StrikeIncr,
         StrikeIncrFails, StrikeExpire, StrikeSet, Die, requestVars
<1>2. \A q \in Requests \ {r} : strike'[q] = strike[q]
  BY <1>1 DEF StrikeIncr, TypeOK
<1>3. \E l \in Labels : pc' = [pc EXCEPT ![r] = l]
  BY DEF Step, Start, CheckBlock, Hit, Incr, IncrFails, Expire, ExpireFails,
         ReadTTL, ReadTTLFails, Repair, RepairFails, RecordStrike, StrikeIncr,
         StrikeIncrFails, StrikeExpire, StrikeSet, Die, HitDone, HitFailed,
         PassGlobal, Answer, GoTo, Labels
<1>4. \/ hits' = hits
      \/ At(r, "incr") /\ \A q \in Requests \ {r} : hits'[q] = hits[q]
  BY DEF TypeOK, Step, Start, CheckBlock, Hit, Incr, IncrFails, Expire,
         ExpireFails, ReadTTL, ReadTTLFails, Repair, RepairFails, RecordStrike,
         StrikeIncr, StrikeIncrFails, StrikeExpire, StrikeSet, Die, requestVars
<1>5. ASSUME pc[r] \in {"strikeIncr", "strikeExpire", "strikeSet", "done"}
      PROVE  pc'[r] \in {"strikeExpire", "strikeSet", "done"}
  BY <1>5 DEF TypeOK, Step, Start, CheckBlock, Hit, Incr, IncrFails, Expire,
         ExpireFails, ReadTTL, ReadTTLFails, Repair, RepairFails, RecordStrike,
         StrikeIncr, StrikeIncrFails, StrikeExpire, StrikeSet, Die, Answer,
         GoTo, At
<1>6. QED
  BY <1>1, <1>2, <1>3, <1>4, <1>5 DEF TypeOK, At

\* Who has struck has struck for good; the sets are finite.
LEMMA StruckGrows ==
  ASSUME TypeOK, NEW r \in Requests, Step(r) \/ Die(r), NEW b \in BlockKeys
  PROVE  /\ Struck(b) \subseteq Struck(b)'
         /\ Cardinality(Struck(b)) \in Nat /\ Cardinality(Struck(b)') \in Nat
         /\ Cardinality(Struck(b)) <= Cardinality(Struck(b)')
         /\ Struck(b) # Struck(b)'
              => Cardinality(Struck(b)) + 1 <= Cardinality(Struck(b)')
<1>1. Struck(b) \subseteq Struck(b)'
  BY StrikeFrame DEF Struck, Guilty, BlockKey, IP, Path, OverLimit, Limit
<1>2. IsFiniteSet(Struck(b)) /\ IsFiniteSet(Struck(b)')
  <2>1. IsFiniteSet(Requests)
    BY ConfigAssumption
  <2>2. Struck(b) \subseteq Requests /\ Struck(b)' \subseteq Requests
    BY DEF Struck
  <2>3. QED
    BY <2>1, <2>2, FS_Subset
<1>3. /\ Cardinality(Struck(b)) \in Nat /\ Cardinality(Struck(b)') \in Nat
      /\ Cardinality(Struck(b)) <= Cardinality(Struck(b)')
      /\ Cardinality(Struck(b)) = Cardinality(Struck(b)')
           => Struck(b) = Struck(b)'
  BY <1>1, <1>2, FS_CardinalityType, FS_Subset
<1>4. QED
  BY <1>1, <1>3

\* A request that strikes was over a limit, and goes on being guilty of it.
LEMMA StrikersStayGuilty ==
  ASSUME TypeOK, StrikersGuilty, NEW r \in Requests, Step(r) \/ Die(r)
  PROVE  StrikersGuilty'
<1>1. ASSUME NEW q \in Requests, Guilty(q), hits'[q] = hits[q]
      PROVE  Guilty(q)'
  BY <1>1, StrikeFrame DEF Guilty, IP, Path, OverLimit, Limit
<1>2. ASSUME pc'[r] = "strikeIncr"
      PROVE  Guilty(r) /\ hits' = hits
  <2>1. HitDone(r) /\ hits' = hits
    BY <1>2 DEF TypeOK, Step, Start, CheckBlock, Hit, Incr, IncrFails, Expire,
         ExpireFails, ReadTTL, ReadTTLFails, Repair, RepairFails, RecordStrike,
         StrikeIncr, StrikeIncrFails, StrikeExpire, StrikeSet, Die, HitFailed,
         PassGlobal, Answer, GoTo, At
  <2>2. OverLimit(r, stage[r]) /\ Bannable(IP(r)) /\ stage[r] \in Stages
    BY <1>2, <2>1 DEF TypeOK, HitDone, PassGlobal, Answer, GoTo
  <2>3. QED
    BY <2>1, <2>2 DEF Guilty
<1>3. ASSUME pc'[r] \in {"strikeExpire", "strikeSet"}
      PROVE  Guilty(r) /\ hits' = hits
  <2>1. pc[r] \in {"strikeIncr", "strikeExpire"}
    BY <1>3 DEF TypeOK, Step, Start, CheckBlock, Hit, Incr, IncrFails, Expire,
         ExpireFails, ReadTTL, ReadTTLFails, Repair, RepairFails, RecordStrike,
         StrikeIncr, StrikeIncrFails, StrikeExpire, StrikeSet, Die, HitDone,
         HitFailed, PassGlobal, Answer, GoTo, At
  <2>2. QED
    BY <2>1, StrikeFrame DEF StrikersGuilty
<1>4. QED
  BY <1>1, <1>2, <1>3, StrikeFrame DEF StrikersGuilty

\* A request's strike is one of those that are counted.
LEMMA StrikeStep ==
  ASSUME TypeOK, BanIInv, NEW r \in Requests, Step(r) \/ Die(r)
  PROVE  CountersEarned' /\ StrikesEarned'
<1> USE ConfigAssumption
<1>0. PICK b \in BlockKeys : b = BlockKey(r)
  BY KeyTypes
<1>1. b = BlockKey(r) /\ b \in BlockKeys /\ block[b] \in Blocks
  BY <1>0 DEF TypeOK
<1>2. \A q \in Requests : BlockKey(q) \in BlockKeys /\ BlockKey(q)' = BlockKey(q)
  BY KeyTypes, StrikeFrame DEF BlockKey, IP, Path
<1>3. ASSUME NEW c \in BlockKeys,
             block'[c].n <= Cardinality(Struck(c))
               \/ (block'[c].n <= block[c].n + 1 /\ Struck(c) # Struck(c)'),
             block'[c].banned => Threshold <= Cardinality(Struck(c)),
             block[c] \in Blocks, block'[c] \in Blocks
      PROVE  /\ block'[c].n <= Cardinality(Struck(c)')
             /\ block'[c].banned => Threshold <= Cardinality(Struck(c)')
  BY <1>3, StruckGrows DEF BanIInv, CountersEarned, Blocks
<1>4. \A c \in BlockKeys : block[c] \in Blocks /\ block'[c] \in Blocks
  BY NextTypeOK DEF TypeOK, Next
<1>5. \A q \in Requests : strike[q] \in Nat /\ strike'[q] \in Nat
  BY NextTypeOK DEF TypeOK, Next
<1>6. ASSUME NEW q \in Requests, q # r
      PROVE  /\ pc'[q] \in {"strikeExpire", "strikeSet"}
                  => strike'[q] <= Cardinality(Struck(BlockKey(q))')
             /\ pc'[q] = "strikeSet" => Threshold <= strike'[q]
  BY <1>2, <1>5, <1>6, StrikeFrame, StruckGrows DEF BanIInv, StrikesEarned
<1>7. CASE At(r, "strikeIncr")
  <2>1. r \notin Struck(b)
    BY <1>7 DEF Struck, At
  <2>2. r \in Struck(b)'
    <3>1. Guilty(r) /\ hits' = hits /\ client' = client
      BY <1>7, StrikeFrame DEF BanIInv, StrikersGuilty, At
    <3>2. Guilty(r)'
      BY <3>1 DEF Guilty, IP, Path, OverLimit, Limit
    <3>3. QED
      BY <1>1, <1>2, <1>7, <3>2, StrikeFrame DEF Struck, At
  <2>3. \/ UNCHANGED block /\ pc'[r] = "done"
        \/ /\ block' = [block EXCEPT ![b] = StrikeAdded(block[b])]
           /\ \/ pc'[r] = "done"
              \/ /\ strike'[r] = block[b].n + 1
                 /\ pc'[r] \in {"strikeExpire", "strikeSet"}
                 /\ pc'[r] = "strikeSet" => Threshold <= strike'[r]
    BY <1>1, <1>7 DEF TypeOK, At, Step, Start, CheckBlock, Hit, Incr, IncrFails,
         Expire, ExpireFails, ReadTTL, ReadTTLFails, Repair, RepairFails,
         RecordStrike, StrikeIncr, StrikeIncrFails, StrikeExpire, StrikeSet,
         Die, Answer, GoTo, StrikeAdded, Blocks
  <2>4. CountersEarned'
    <3> SUFFICES ASSUME NEW c \in BlockKeys
                 PROVE  /\ block'[c].n <= Cardinality(Struck(c)')
                        /\ block'[c].banned => Threshold <= Cardinality(Struck(c)')
      BY DEF CountersEarned
    <3>1. CASE block'[c] = block[c]
      BY <1>3, <1>4, <3>1 DEF BanIInv, CountersEarned
    <3>2. CASE c = b /\ block'[c] = StrikeAdded(block[c])
      <4>1. block'[c].n = block[c].n + 1 /\ ~block'[c].banned
        BY <3>2 DEF StrikeAdded
      <4>2. block'[c].n <= block[c].n + 1
        BY <1>1, <3>2, <4>1 DEF Blocks
      <4>3. QED
        BY <1>3, <1>4, <2>1, <2>2, <3>2, <4>1, <4>2
    <3>3. QED
      BY <2>3, <3>1, <3>2 DEF TypeOK
  <2>5. /\ pc'[r] \in {"strikeExpire", "strikeSet"}
             => strike'[r] <= Cardinality(Struck(b)')
        /\ pc'[r] = "strikeSet" => Threshold <= strike'[r]
    <3>1. block[b].n <= Cardinality(Struck(b)) /\ block[b].n \in Nat
      BY <1>1 DEF BanIInv, CountersEarned, Blocks
    <3>2. Cardinality(Struck(b)) + 1 <= Cardinality(Struck(b)')
      BY <1>1, <2>1, <2>2, StruckGrows
    <3>3. QED
      BY <1>1, <2>3, <3>1, <3>2, StruckGrows
  <2>6. QED
    BY <1>1, <1>2, <1>6, <2>4, <2>5 DEF StrikesEarned
<1>8. CASE pc[r] \in {"strikeExpire", "strikeSet"}
  <2>1. /\ strike' = strike
        /\ pc'[r] \in {"strikeSet", "done"}
        /\ pc'[r] = "strikeSet" => Threshold <= strike[r]
    BY <1>8 DEF TypeOK, At, Step, Start, CheckBlock, Hit, Incr, IncrFails,
         Expire, ExpireFails, ReadTTL, ReadTTLFails, Repair, RepairFails,
         RecordStrike, StrikeIncr, StrikeIncrFails, StrikeExpire, StrikeSet,
         Die, Answer, GoTo
  <2>2. \/ UNCHANGED block
        \/ block' = [block EXCEPT ![b] = WithBlockTTL(block[b], StrikeTTL)]
        \/ /\ pc[r] = "strikeSet"
           /\ block' = [block EXCEPT ![b] = [n |-> 0, banned |-> TRUE, ttl |-> BanTTL]]
    BY <1>1, <1>8 DEF At, Step, Start, CheckBlock, Hit, Incr, IncrFails, Expire,
         ExpireFails, ReadTTL, ReadTTLFails, Repair, RepairFails, RecordStrike,
         StrikeIncr, StrikeIncrFails, StrikeExpire, StrikeSet, Die
  <2>3. Cardinality(Struck(b)) \in Nat /\ strike[r] <= Cardinality(Struck(b))
        /\ (pc[r] = "strikeSet" => Threshold <= Cardinality(Struck(b)))
    BY <1>1, <1>5, <1>8, StruckGrows DEF BanIInv, StrikesEarned
  <2>4. CountersEarned'
    <3> SUFFICES ASSUME NEW c \in BlockKeys
                 PROVE  /\ block'[c].n <= Cardinality(Struck(c))
                        /\ block'[c].banned => Threshold <= Cardinality(Struck(c))
      BY <1>3, <1>4 DEF CountersEarned
    <3>1. CASE block'[c].n = block[c].n /\ block'[c].banned = block[c].banned
      BY <3>1 DEF BanIInv, CountersEarned
    <3>2. CASE c = b /\ pc[r] = "strikeSet" /\ block'[c].n = 0
      BY <2>3, <3>2
    <3>3. QED
      BY <1>1, <2>2, <3>1, <3>2 DEF TypeOK, WithBlockTTL, Blocks
  <2>5. pc'[r] = "strikeSet" => strike'[r] <= Cardinality(Struck(b)')
    BY <1>1, <1>5, <2>1, <2>3, StruckGrows
  <2>6. QED
    BY <1>1, <1>2, <1>6, <2>1, <2>4, <2>5 DEF StrikesEarned
<1>9. CASE pc[r] \notin {"strikeIncr", "strikeExpire", "strikeSet"}
  <2>1. ~RecordStrike(r)
    BY <1>9 DEF RecordStrike, StrikeIncr, StrikeIncrFails, StrikeExpire,
                StrikeSet, At
  <2>2. block' = block
    BY <2>1, StrikeFrame
  <2>3. pc'[r] \notin {"strikeExpire", "strikeSet"}
    BY <1>9, <2>1 DEF TypeOK, Step, Start, CheckBlock, Hit, Incr, IncrFails, Expire,
         ExpireFails, ReadTTL, ReadTTLFails, Repair, RepairFails, Die, HitDone,
         HitFailed, PassGlobal, Answer, GoTo, At
  <2>4. CountersEarned'
    BY <1>3, <1>4, <2>2 DEF BanIInv, CountersEarned
  <2>5. QED
    BY <1>6, <2>3, <2>4 DEF StrikesEarned
<1>10. QED
  BY <1>7, <1>8, <1>9 DEF At

\* Time and stuttering take strikes and bans away, if they change anything.
LEMMA StrikesAge ==
  ASSUME TypeOK, BanIInv, Tick \/ UNCHANGED vars
  PROVE  BanIInv'
<1>1. UNCHANGED <<pc, client, hits, strike>>
  BY DEF Tick, requestVars, vars
<1>2. /\ \A r \in Requests : BlockKey(r)' = BlockKey(r) /\ Guilty(r)' = Guilty(r)
      /\ \A b \in BlockKeys : Struck(b)' = Struck(b)
  BY <1>1 DEF BlockKey, IP, Path, Guilty, OverLimit, Limit, Struck
<1>3. ASSUME NEW b \in BlockKeys
      PROVE  /\ block'[b].n \in {0, block[b].n}
             /\ block'[b].banned => block[b].banned
  <2>1. block[b] \in Blocks /\ block'[b] \in {block[b], BlockAged(block[b])}
    BY DEF TypeOK, Tick, vars
  <2>2. QED
    BY <2>1 DEF BlockAged, Blocks
<1>4. \A b \in BlockKeys : Cardinality(Struck(b)) \in Nat
  <2>1. \A b \in BlockKeys : Struck(b) \subseteq Requests
    BY DEF Struck
  <2>2. QED
    BY <2>1, ConfigAssumption, FS_Subset, FS_CardinalityType
<1>5. CountersEarned'
  BY <1>2, <1>3, <1>4 DEF BanIInv, CountersEarned
<1>6. StrikersGuilty' /\ StrikesEarned'
  BY <1>1, <1>2, KeyTypes DEF BanIInv, StrikersGuilty, StrikesEarned
<1>7. QED
  BY <1>5, <1>6 DEF BanIInv

\* A ban takes Threshold requests of that client, in that audience, over a
\* limit; a client on the white list is never banned.
THEOREM BansAreEarned == Spec => []BanIsEarned
<1>1. Init => BanIInv
  <2> SUFFICES ASSUME Init
               PROVE  BanIInv
    OBVIOUS
  <2>1. \A b \in BlockKeys : 0 <= Cardinality(Struck(b))
    <3>1. \A b \in BlockKeys : Struck(b) \subseteq Requests
      BY DEF Struck
    <3>2. \A b \in BlockKeys : Cardinality(Struck(b)) \in Nat
      BY <3>1, ConfigAssumption, FS_Subset, FS_CardinalityType
    <3>3. QED
      BY <3>2
  <2>2. QED
    BY <2>1 DEF Init, BanIInv, StrikersGuilty, CountersEarned, StrikesEarned
<1>2. TypeOK /\ BanIInv /\ [Next]_vars => BanIInv'
  BY StrikersStayGuilty, StrikeStep, StrikesAge DEF BanIInv, Next, Finished
<1>3. BanIInv => BanIsEarned
  <2> SUFFICES ASSUME BanIInv, NEW a \in Audiences, NEW ip \in IPs,
                      block[<<a, ip>>].banned
               PROVE  Cardinality(Offenders(a, ip)) >= Threshold
    BY DEF BanIsEarned
  <2> DEFINE S == Struck(<<a, ip>>)
  <2>1. Threshold <= Cardinality(S)
    BY DEF BanIInv, CountersEarned, BlockKeys
  <2>2. S \subseteq Offenders(a, ip)
    BY DEF Struck, Guilty, Bannable, Offenders, BlockKey
  <2>3. IsFiniteSet(Offenders(a, ip))
    BY ConfigAssumption, FS_Subset DEF Offenders
  <2>4. /\ Cardinality(S) \in Nat /\ Cardinality(Offenders(a, ip)) \in Nat
        /\ Cardinality(S) <= Cardinality(Offenders(a, ip))
    BY <2>2, <2>3, FS_Subset, FS_CardinalityType
  <2>5. QED
    BY <2>1, <2>4, ConfigAssumption
<1>4. QED
  BY <1>1, <1>2, <1>3, TypeCorrect, PTL DEF Spec

-----------------------------------------------------------------------------
(***************************************************************************)
(* A missing TTL is made good.  The property is inductive next to IInv: a  *)
(* request whose count is the counter's own is the last that raised it.    *)
(***************************************************************************)
LastToRaise(r, s) ==
  /\ Counted(r, s)
  /\ counter[Key(r, s)].ttl = 0
  /\ hits[r][s].n = counter[Key(r, s)].n
  /\ hits[r][s].epoch = counter[Key(r, s)].epoch

RepairedOrFaulty(r, s) == InHit(r, s) \/ s \in faulty[r]

\* A counter that was left alone by a step, raised, given a TTL or aged: whose
\* count is the new counter's, and was there before, had the old counter's.
LEMMA RaisedBefore ==
  ASSUME IInv, [Next]_vars, NEW r \in Requests, NEW s \in Stages,
         UNCHANGED <<client, hits[r][s]>>, LastToRaise(r, s)'
  PROVE  LastToRaise(r, s) /\ counter'[Key(r, s)] = counter[Key(r, s)]
<1> DEFINE k == Key(r, s)
<1> DEFINE e == counter[k]
<1> DEFINE f == counter'[k]
<1>1. /\ k \in CounterKeys /\ Key(r, s)' = k
      /\ e \in Counters /\ f \in Counters
      /\ hits[r][s].n \in Nat /\ hits[r][s].epoch \in Nat
  BY KeyTypes, NextTypeOK DEF IInv, TypeOK, Key, IP, Path
<1>2. /\ hits[r][s].n > 0 /\ f.ttl = 0
      /\ hits[r][s].n = f.n /\ hits[r][s].epoch = f.epoch
  BY <1>1 DEF LastToRaise, Counted
<1>3. /\ hits[r][s].epoch <= e.epoch
      /\ hits[r][s].epoch = e.epoch /\ e.n > 0 => hits[r][s].n <= e.n
  BY <1>2 DEF IInv, HitsFit, Counted
<1>4. f = e \/ f = Incremented(e) \/ f = WithCounterTTL(e, CounterTTL) \/ f = CounterAged(e)
  <2>1. CASE Tick
    BY <1>1, <2>1 DEF Tick
  <2>2. ASSUME NEW q \in Requests, Step(q) \/ Die(q)
        PROVE  \/ UNCHANGED counter
               \/ ExpireCounter(q)
               \/ counter' = [counter EXCEPT ![Key(q, stage[q])] =
                                 Incremented(counter[Key(q, stage[q])])]
    BY <2>2 DEF Step, Start, CheckBlock, Hit, Incr, IncrFails, Expire,
                ExpireFails, ReadTTL, ReadTTLFails, Repair, RepairFails,
                RecordStrike, StrikeIncr, StrikeIncrFails, StrikeExpire,
                StrikeSet, Die
  <2>3. ASSUME NEW q \in Requests, Step(q) \/ Die(q)
        PROVE  f = e \/ f = Incremented(e) \/ f = WithCounterTTL(e, CounterTTL)
    BY <1>1, <2>2, <2>3 DEF ExpireCounter, IInv, TypeOK
  <2>4. CASE UNCHANGED vars
    BY <2>4 DEF vars
  <2>5. QED
    BY <2>1, <2>3, <2>4 DEF Next, Finished
<1>5. f = e
  BY <1>1, <1>2, <1>3, <1>4, ConfigAssumption
  DEF Counters, Incremented, WithCounterTTL, CounterAged
<1>6. QED
  BY <1>1, <1>2, <1>5 DEF LastToRaise, Counted

\* The request that a step moves on, and the others.
LEMMA RepairStep ==
  ASSUME IInv, MissingTTLIsRepaired, [Next]_vars,
         NEW q \in Requests, Step(q) \/ Die(q),
         NEW r \in Requests, NEW s \in Stages, LastToRaise(r, s)'
  PROVE  RepairedOrFaulty(r, s)'
<1>1. client' = client
  BY DEF Step, Start, CheckBlock, Hit, Incr, IncrFails, Expire, ExpireFails,
         ReadTTL, ReadTTLFails, Repair, RepairFails, RecordStrike, StrikeIncr,
         StrikeIncrFails, StrikeExpire, StrikeSet, Die, requestVars
<1>2. CASE hits'[r][s] # hits[r][s]
  <2>1. Incr(q) /\ q = r /\ s = stage[r]
    BY <1>2 DEF IInv, TypeOK, Step, Start, CheckBlock, Hit, Incr, IncrFails,
         Expire, ExpireFails, ReadTTL, ReadTTLFails, Repair, RepairFails,
         RecordStrike, StrikeIncr, StrikeIncrFails, StrikeExpire, StrikeSet,
         Die, requestVars
  <2>2. /\ \E l \in {"expire", "ttl"} : pc' = [pc EXCEPT ![r] = l]
        /\ stage' = stage
    BY <2>1 DEF Incr, GoTo
  <2>3. QED
    BY <2>1, <2>2 DEF IInv, TypeOK, RepairedOrFaulty, InHit
<1>3. CASE hits'[r][s] = hits[r][s]
  <2>1. LastToRaise(r, s) /\ counter'[Key(r, s)] = counter[Key(r, s)]
    BY <1>1, <1>3, RaisedBefore
  <2>2. RepairedOrFaulty(r, s)
    BY <2>1 DEF MissingTTLIsRepaired, LastToRaise, RepairedOrFaulty
  <2>3. faulty[r] \subseteq faulty'[r]
    <3>1. faulty' = faulty \/ \E t : faulty' = [faulty EXCEPT ![q] = faulty[q] \cup {t}]
      BY DEF Step, Start, CheckBlock, Hit, Incr, IncrFails, Expire, ExpireFails,
         ReadTTL, ReadTTLFails, Repair, RepairFails, RecordStrike, StrikeIncr,
         StrikeIncrFails, StrikeExpire, StrikeSet, Die, FaultIn, requestVars
    <3>2. QED
      BY <3>1 DEF IInv, TypeOK
  <2>4. CASE s \in faulty[r]
    BY <2>3, <2>4 DEF RepairedOrFaulty
  <2>5. CASE InHit(r, s) /\ q # r
    <3>1. pc'[r] = pc[r] /\ stage'[r] = stage[r]
      BY <2>5 DEF IInv, TypeOK, Step, Start, CheckBlock, Hit, Incr, IncrFails,
         Expire, ExpireFails, ReadTTL, ReadTTLFails, Repair, RepairFails,
         RecordStrike, StrikeIncr, StrikeIncrFails, StrikeExpire, StrikeSet,
         Die, HitDone, HitFailed, PassGlobal, Answer, GoTo, requestVars
    <3>2. QED
      BY <2>5, <3>1 DEF RepairedOrFaulty, InHit
  <2>6. CASE InHit(r, s) /\ q = r
    <3>1. s = stage[r] /\ Key(r, s) \in CounterKeys /\ counter[Key(r, s)] \in Counters
      BY <2>6, KeyTypes DEF InHit, IInv, TypeOK
    <3>2. counter[Key(r, s)].ttl = 0 /\ counter[Key(r, s)].n > 0
      BY <2>1, <3>1 DEF LastToRaise, Counted, Counters
    <3>3. ~ExpireCounter(r)
      BY <2>1, <3>1, <3>2, ConfigAssumption
      DEF ExpireCounter, WithCounterTTL, IInv, TypeOK, Counters
    <3>4. s \in faulty'[r] \/ ReadTTL(r)
      BY <2>6, <3>1, <3>3 DEF InHit, IInv, TypeOK, At, Step, Start, CheckBlock,
         Hit, Incr, IncrFails, Expire, ExpireFails, ReadTTLFails, Repair,
         RepairFails, RecordStrike, StrikeIncr, StrikeIncrFails, StrikeExpire,
         StrikeSet, Die, FaultIn
    <3>5. ASSUME ReadTTL(r)
          PROVE  pc'[r] = "repair" /\ stage'[r] = stage[r]
      <4>1. MayLookExpired(counter[Key(r, s)]) = {TRUE}
        BY <3>2 DEF MayLookExpired
      <4>2. QED
        BY <3>1, <3>5, <4>1 DEF ReadTTL, GoTo, IInv, TypeOK
    <3>6. QED
      BY <3>1, <3>4, <3>5 DEF RepairedOrFaulty, InHit
  <2>7. QED
    BY <2>2, <2>4, <2>5, <2>6 DEF RepairedOrFaulty
<1>4. QED
  BY <1>2, <1>3

\* A counter that would never expire is given its TTL by the next hit, unless
\* a fault struck the request that last raised it.
THEOREM MissingTTLsAreRepaired == Spec => []MissingTTLIsRepaired
<1>1. MissingTTLIsRepaired
        <=> \A r \in Requests, s \in Stages :
              LastToRaise(r, s) => RepairedOrFaulty(r, s)
  BY DEF MissingTTLIsRepaired, LastToRaise, RepairedOrFaulty
<1>2. Init => MissingTTLIsRepaired
  BY DEF Init, MissingTTLIsRepaired, Counted
<1>3. IInv /\ MissingTTLIsRepaired /\ [Next]_vars => MissingTTLIsRepaired'
  <2> SUFFICES ASSUME IInv, MissingTTLIsRepaired, [Next]_vars,
                      NEW r \in Requests, NEW s \in Stages, LastToRaise(r, s)'
               PROVE  RepairedOrFaulty(r, s)'
    BY DEF MissingTTLIsRepaired, LastToRaise, RepairedOrFaulty
  <2>1. ASSUME UNCHANGED <<pc, client, stage, hits, faulty>>
        PROVE  RepairedOrFaulty(r, s)'
    <3>1. LastToRaise(r, s)
      BY <2>1, RaisedBefore
    <3>2. QED
      BY <1>1, <2>1, <3>1 DEF RepairedOrFaulty, InHit
  <2>2. QED
    BY <2>1, RepairStep DEF Next, Tick, Finished, vars, requestVars
<1>4. QED
  BY <1>2, <1>3, InitIInv, NextIInv, PTL DEF Spec

-----------------------------------------------------------------------------
(***************************************************************************)
(* Who prolongs a ban.                                                     *)
(***************************************************************************)
Owes(r, call) == At(r, call) \/ (At(r, "strikeExpire") /\ strike[r] >= Threshold)

LEMMA OwedIs ==
  ASSUME NEW r, NEW call, NEW b
  PROVE  /\ <<r, call>> \in Owed(b) <=>
              /\ r \in Requests /\ call \in {"strikeExpire", "strikeSet"}
              /\ BlockKey(r) = b /\ Owes(r, call)
         /\ <<r, call>> \in Owed(b)' <=>
              /\ r \in Requests /\ call \in {"strikeExpire", "strikeSet"}
              /\ BlockKey(r)' = b /\ Owes(r, call)'
BY DEF Owed, Owes

\* A request that no step of its own took on owes what it owed, and no request
\* comes to owe a call on a key that holds a ban.
LEMMA NobodyComesToOwe ==
  ASSUME TypeOK, NEW q \in Requests, Step(q) \/ Die(q),
         NEW r \in Requests, NEW call \in {"strikeExpire", "strikeSet"},
         block[BlockKey(r)].banned, Owes(r, call)'
  PROVE  Owes(r, call)
<1> USE DEF At
<1>1. CASE r # q
  <2>1. pc'[r] = pc[r] /\ strike'[r] = strike[r]
    BY <1>1 DEF TypeOK, Step, Start, CheckBlock, Hit, Incr, IncrFails, Expire,
       ExpireFails, ReadTTL, ReadTTLFails, Repair, RepairFails, RecordStrike,
       StrikeIncr, StrikeIncrFails, StrikeExpire, StrikeSet, Die, HitDone,
       HitFailed, PassGlobal, Answer, GoTo, requestVars
  <2>2. QED
    BY <2>1 DEF Owes
<1>2. CASE r = q
  <2>1. pc'[r] \in {"strikeExpire", "strikeSet"}
    BY DEF Owes
  <2>2. ~Die(r) /\ ~Start(r) /\ ~CheckBlock(r) /\ ~StrikeIncrFails(r) /\ ~StrikeSet(r)
    BY <2>1 DEF TypeOK, Die, Start, CheckBlock, StrikeIncrFails, StrikeSet, Answer, GoTo
  <2>3. ~Hit(r)
    BY <2>1 DEF TypeOK, Hit, Incr, IncrFails, Expire, ExpireFails, ReadTTL,
       ReadTTLFails, Repair, RepairFails, HitDone, HitFailed, PassGlobal,
       Answer, GoTo
  <2>4. ~StrikeIncr(r)
    BY <2>1 DEF TypeOK, StrikeIncr, GoTo
  <2>5. StrikeExpire(r)
    BY <1>2, <2>2, <2>3, <2>4 DEF Step, RecordStrike
  <2>6. At(r, "strikeExpire") /\ strike' = strike
        /\ pc'[r] = "strikeSet" /\ strike[r] >= Threshold
    BY <2>1, <2>5 DEF TypeOK, StrikeExpire, GoTo
  <2>7. QED
    BY <2>6 DEF Owes
<1>3. QED
  BY <1>1, <1>2

\* The end of a ban moves on by a call that is owed, which then is made.
LEMMA ProlongingIsOwed ==
  ASSUME TypeOK, NEW q \in Requests, Step(q) \/ Die(q), NEW b \in BlockKeys,
         block[b].banned, block'[b].banned, block'[b].ttl > block[b].ttl
  PROVE  Owed(b)' # Owed(b)
<1>1. block[b].ttl \in Nat
  BY DEF TypeOK, Blocks
<1>2. /\ StrikeExpire(q) \/ StrikeSet(q)
      /\ BlockKey(q) = b
  <2>1. block' # block
    BY <1>1
  <2>2. \/ StrikeIncr(q) \/ StrikeIncrFails(q) \/ StrikeExpire(q) \/ StrikeSet(q)
    BY <2>1 DEF Step, Start, CheckBlock, Hit, Incr, IncrFails, Expire,
       ExpireFails, ReadTTL, ReadTTLFails, Repair, RepairFails, RecordStrike, Die
  <2>3. BlockKey(q) = b
    BY <1>1, <2>2 DEF TypeOK, StrikeIncr, StrikeIncrFails, StrikeExpire, StrikeSet
  <2>4. ~StrikeIncr(q) /\ ~StrikeIncrFails(q)
    BY <2>1, <2>3 DEF StrikeIncr, StrikeIncrFails
  <2>5. QED
    BY <2>2, <2>3, <2>4
<1>3. CASE StrikeExpire(q)
  <2>1. At(q, "strikeExpire") /\ ~Owes(q, "strikeExpire")'
    BY <1>3 DEF TypeOK, StrikeExpire, GoTo, At, Owes
  <2>2. /\ <<q, "strikeExpire">> \in Owed(b)
        /\ <<q, "strikeExpire">> \notin Owed(b)'
    BY <1>2, <2>1, OwedIs DEF Owes
  <2>3. QED
    BY <2>2
<1>4. CASE StrikeSet(q)
  <2>1. At(q, "strikeSet") /\ ~Owes(q, "strikeSet")'
    BY <1>4 DEF TypeOK, StrikeSet, GoTo, At, Owes
  <2>2. /\ <<q, "strikeSet">> \in Owed(b)
        /\ <<q, "strikeSet">> \notin Owed(b)'
    BY <1>2, <2>1, OwedIs DEF Owes
  <2>3. QED
    BY <2>2
<1>5. QED
  BY <1>2, <1>3, <1>4

\* A banned client cannot prolong its ban, whatever requests come and whatever
\* calls fail: only the calls owed when the ban was set do, one after another
\* until none is left (recordStrike, rate_limit.go:202-223).
THEOREM BannedDoNotProlong == Spec => OnlyLateOffendersProlong
<1>1. TypeOK /\ [Next]_vars =>
        [\A b \in BlockKeys : block[b].banned /\ block'[b].banned =>
           /\ Owed(b)' \subseteq Owed(b)
           /\ block'[b].ttl > block[b].ttl => Owed(b)' # Owed(b)]_vars
  <2> SUFFICES ASSUME TypeOK, [Next]_vars, NEW b \in BlockKeys,
                      block[b].banned, block'[b].banned
               PROVE  /\ Owed(b)' \subseteq Owed(b)
                      /\ block'[b].ttl > block[b].ttl => Owed(b)' # Owed(b)
    OBVIOUS
  <2>1. CASE Tick \/ UNCHANGED vars
    <3>1. UNCHANGED <<pc, client, strike>>
      BY <2>1 DEF Tick, vars, requestVars
    <3>2. Owed(b)' = Owed(b)
      BY <3>1 DEF Owed, At, BlockKey, Path, IP
    <3>3. block[b] \in Blocks /\ ~(block'[b].ttl > block[b].ttl)
      BY <2>1 DEF TypeOK, Blocks, Tick, BlockAged, vars
    <3>4. QED
      BY <3>2, <3>3
  <2>2. ASSUME NEW q \in Requests, Step(q) \/ Die(q)
        PROVE  /\ Owed(b)' \subseteq Owed(b)
               /\ block'[b].ttl > block[b].ttl => Owed(b)' # Owed(b)
    <3>1. client' = client
      BY <2>2 DEF Step, Start, CheckBlock, Hit, Incr, IncrFails, Expire,
         ExpireFails, ReadTTL, ReadTTLFails, Repair, RepairFails, RecordStrike,
         StrikeIncr, StrikeIncrFails, StrikeExpire, StrikeSet, Die, requestVars
    <3>2. \A r \in Requests : BlockKey(r)' = BlockKey(r)
      BY <3>1 DEF BlockKey, Path, IP
    <3>3. ASSUME NEW d \in Owed(b)'
          PROVE  d \in Owed(b)
      <4>1. PICK r \in Requests, call \in {"strikeExpire", "strikeSet"} : d = <<r, call>>
        BY <3>3 DEF Owed
      <4>2. BlockKey(r) = b /\ Owes(r, call)'
        BY <3>2, <3>3, <4>1, OwedIs
      <4>3. Owes(r, call)
        BY <2>2, <4>2, NobodyComesToOwe
      <4>4. QED
        BY <4>1, <4>2, <4>3, OwedIs
    <3>4. QED
      BY <2>2, <3>3, ProlongingIsOwed
  <2>3. QED
    BY <2>1, <2>2 DEF Next, Finished
<1>2. QED
  BY <1>1, TypeCorrect, PTL DEF Spec, OnlyLateOffendersProlong

=============================================================================
