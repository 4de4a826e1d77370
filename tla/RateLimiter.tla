---------------------------- MODULE RateLimiter ----------------------------
(***************************************************************************)
(* The rate limiting middleware of the gateway,                            *)
(* internal/middleware/rate_limit.go, and the part of Redis it uses.       *)
(*                                                                         *)
(* Every request runs RateLimit in a goroutine of its own, possibly in     *)
(* different gateway replicas.  The counters and the bans live in Redis,   *)
(* and each Redis call is a separate step: INCR, EXPIRE and TTL of one     *)
(* request interleave with those of the others.  A call may fail, having   *)
(* taken effect or not, and the process running a request may die between  *)
(* two calls.  Time is the remaining life of the Redis keys: Tick lowers   *)
(* it by one and removes the keys whose life is over.                      *)
(***************************************************************************)
EXTENDS Integers, FiniteSets

CONSTANTS
  Requests,      \* the requests of a behaviour, each handled once
  IPs,           \* r.GetClientIp()
  Paths,         \* r.URL.Path
  Audiences,     \* the values of rateAudience
  AudienceOf,    \* [Paths -> Audiences], rateAudience
  RouteLimit,    \* [Paths -> Int], getRouteLimit: -1 none, 0 not limited
  FundPaths,     \* the paths for which isFailClosedPath is true
  DefaultLimit,  \* rateLimit.requestsPerMinute
  GlobalSetting, \* rateLimit.globalRequestsPerMinute
  BlockEnabled,  \* rateLimit.block.enabled
  Whitelist,     \* rateLimit.block.whitelistIPs
  Threshold,     \* rateLimit.block.threshold
  CounterTTL,    \* the 60 seconds of RateLimit
  StrikeTTL,     \* rateLimit.block.windowSeconds
  BanTTL,        \* rateLimit.block.durationSeconds
  MaxFaults      \* bound: failed Redis calls and deaths of a behaviour

ASSUME ConfigAssumption ==
  /\ IsFiniteSet(Requests)
  /\ AudienceOf \in [Paths -> Audiences]
  /\ RouteLimit \in [Paths -> Int]
  /\ FundPaths \subseteq Paths
  /\ Whitelist \subseteq IPs
  /\ BlockEnabled \in BOOLEAN
  /\ DefaultLimit \in Int
  /\ GlobalSetting \in Int
  /\ Threshold \in Nat \ {0}
  /\ CounterTTL \in Nat \ {0}
  /\ StrikeTTL \in Nat \ {0}
  /\ BanTTL \in Nat \ {0}
  /\ MaxFaults \in Nat

VARIABLES
  pc,       \* the next Redis call of each request
  client,   \* IP and path of each request
  stage,    \* the counter it is at: first the global one, then its path's
  hits,     \* the counter values INCR returned to it, by stage
  strike,   \* the strike count INCR returned to it
  outcome,  \* what became of it
  faulty,   \* history: the stages in which one of its Redis calls failed
  counter,  \* Redis: the counter keys
  block,    \* Redis: the keys that count strikes and then hold a ban
  faults    \* number of faults so far

vars == <<pc, client, stage, hits, strike, outcome, faulty, counter, block,
          faults>>

requestVars == <<client, stage, hits, strike, faulty>>

-----------------------------------------------------------------------------
(***************************************************************************)
(* Redis.  An entry with n = 0 (and banned = FALSE) is an absent key, one  *)
(* with ttl = 0 a key that never expires.  The epoch of a counter is the   *)
(* number of times its key was created.                                    *)
(***************************************************************************)
Stages == {"global", "path"}
CounterKeys ==
  ({"global"} \X IPs \X Audiences) \cup ({"path"} \X IPs \X Paths)
BlockKeys == Audiences \X IPs

Counters == [n : Nat, ttl : Nat, epoch : Nat]
Blocks ==
  {e \in [n : Nat, banned : BOOLEAN, ttl : Nat] :
     e.banned => e.n = 0 /\ e.ttl > 0}

\* INCR creates the key without a TTL, or keeps the TTL it has.
Incremented(e) ==
  IF e.n = 0
  THEN [n |-> 1, ttl |-> 0, epoch |-> e.epoch + 1]
  ELSE [n |-> e.n + 1, ttl |-> e.ttl, epoch |-> e.epoch]

StrikeAdded(e) == [n |-> e.n + 1, banned |-> FALSE, ttl |-> e.ttl]

\* EXPIRE does nothing to a key that does not exist.
WithCounterTTL(e, t) == IF e.n = 0 THEN e ELSE [e EXCEPT !.ttl = t]

WithBlockTTL(e, t) ==
  IF e.n = 0 /\ ~e.banned THEN e ELSE [e EXCEPT !.ttl = t]

\* Whether TTL may reply a number <= 0.  Redis rounds the remaining time to
\* seconds, so a key in its last half second reports 0 and is still there.
MayLookExpired(e) ==
  CASE e.n = 0 \/ e.ttl = 0 -> {TRUE}
    [] e.n > 0 /\ e.ttl = 1 -> {TRUE, FALSE}
    [] OTHER -> {FALSE}

CounterAged(e) ==
  CASE e.ttl = 0 -> e
    [] e.ttl = 1 -> [n |-> 0, ttl |-> 0, epoch |-> e.epoch]
    [] OTHER -> [e EXCEPT !.ttl = @ - 1]

BlockAged(e) ==
  CASE e.ttl = 0 -> e
    [] e.ttl = 1 -> [n |-> 0, banned |-> FALSE, ttl |-> 0]
    [] OTHER -> [e EXCEPT !.ttl = @ - 1]

-----------------------------------------------------------------------------
(***************************************************************************)
(* Keys and limits.  RateLimit runs before the authentication middlewares  *)
(* (router.go), which set user_id and admin_id, so the subject of          *)
(* getGlobalRateSubject is the client's IP.                                *)
(***************************************************************************)
IP(r) == client[r].ip
Path(r) == client[r].path

\* Mutated: one key for all audiences.
SharedBlockKey(r) == <<CHOOSE a \in Audiences : TRUE, IP(r)>>

BlockKey(r) == <<AudienceOf[Path(r)], IP(r)>>

Key(r, s) ==
  <<s, IP(r), IF s = "global" THEN AudienceOf[Path(r)] ELSE Path(r)>>

Bannable(ip) == BlockEnabled /\ ip \notin Whitelist

GlobalLimit == IF GlobalSetting <= 0 THEN DefaultLimit ELSE GlobalSetting
PathLimit(p) == IF RouteLimit[p] >= 0 THEN RouteLimit[p] ELSE DefaultLimit
Limit(r, s) == IF s = "global" THEN GlobalLimit ELSE PathLimit(Path(r))

\* Mutated: off by one.
OverLimitByTwo(r, s) == hits[r][s].n > Limit(r, s) + 1

OverLimit(r, s) == hits[r][s].n > Limit(r, s)

-----------------------------------------------------------------------------
Init ==
  /\ pc = [r \in Requests |-> "new"]
  /\ client \in [Requests -> [ip : IPs, path : Paths]]
  /\ stage = [r \in Requests |-> "global"]
  /\ hits = [r \in Requests |-> [s \in Stages |-> [epoch |-> 0, n |-> 0]]]
  /\ strike = [r \in Requests |-> 0]
  /\ outcome = [r \in Requests |-> "pending"]
  /\ faulty = [r \in Requests |-> {}]
  /\ counter = [k \in CounterKeys |-> [n |-> 0, ttl |-> 0, epoch |-> 0]]
  /\ block = [b \in BlockKeys |-> [n |-> 0, banned |-> FALSE, ttl |-> 0]]
  /\ faults = 0

At(r, label) == pc[r] = label
GoTo(r, label) == pc' = [pc EXCEPT ![r] = label]

Answer(r, result) ==
  /\ GoTo(r, "done")
  /\ outcome' = [outcome EXCEPT ![r] = result]

NoFault == UNCHANGED faults
Fault == faults < MaxFaults /\ faults' = faults + 1
FaultIn(r, s) == Fault /\ faulty' = [faulty EXCEPT ![r] = @ \cup {s}]

\* Past the global counter: the path's own counter, unless it is not limited.
PassGlobal(r) ==
  IF RouteLimit[Path(r)] = 0
  THEN Answer(r, "admitted") /\ UNCHANGED stage
  ELSE /\ stage' = [stage EXCEPT ![r] = "path"]
       /\ GoTo(r, "incr")
       /\ UNCHANGED outcome

\* hitRedisCounter returned a count: RateLimit compares it with the limit.
HitDone(r) ==
  IF OverLimit(r, stage[r])
  THEN /\ outcome' = [outcome EXCEPT ![r] = "limited"]
       /\ GoTo(r, IF Bannable(IP(r)) THEN "strikeIncr" ELSE "done")
       /\ UNCHANGED stage
  ELSE IF stage[r] = "global"
       THEN PassGlobal(r)
       ELSE Answer(r, "admitted") /\ UNCHANGED stage

\* Mutated: every path is let through.
HitFailedOpen(r) ==
  IF stage[r] = "global"
  THEN PassGlobal(r)
  ELSE Answer(r, "admitted") /\ UNCHANGED stage

\* hitRedisCounter returned an error: the global counter is skipped; at the
\* path counter a fund path is refused and any other is let through.
HitFailed(r) ==
  IF stage[r] = "global"
  THEN PassGlobal(r)
  ELSE /\ Answer(r, IF Path(r) \in FundPaths THEN "limited" ELSE "admitted")
       /\ UNCHANGED stage

-----------------------------------------------------------------------------
(***************************************************************************)
(* RateLimit up to its first Redis call.  Without a positive limit the     *)
(* middleware does nothing; isIPBlocked asks Redis only for a client that  *)
(* can be banned.                                                          *)
(***************************************************************************)
Start(r) ==
  /\ At(r, "new")
  /\ IF DefaultLimit <= 0
     THEN Answer(r, "admitted")
     ELSE /\ GoTo(r, IF Bannable(IP(r)) THEN "block" ELSE "incr")
          /\ UNCHANGED outcome
  /\ NoFault
  /\ UNCHANGED <<requestVars, counter, block>>

(***************************************************************************)
(* isIPBlocked: GET of the block key.  An error lets the request go on.    *)
(***************************************************************************)
CheckBlock(r) ==
  /\ At(r, "block")
  /\ \/ /\ block[BlockKey(r)].banned
        /\ Answer(r, "blocked")
        /\ NoFault
     \/ /\ ~block[BlockKey(r)].banned
        /\ GoTo(r, "incr")
        /\ NoFault
        /\ UNCHANGED outcome
     \/ /\ Fault
        /\ GoTo(r, "incr")
        /\ UNCHANGED outcome
  /\ UNCHANGED <<requestVars, counter, block>>

(***************************************************************************)
(* hitRedisCounter, its calls in their order.  A failed call may have      *)
(* taken effect in Redis.                                                  *)
(***************************************************************************)
Incr(r) ==
  LET s == stage[r]
      k == Key(r, s)
      e == Incremented(counter[k])
  IN  /\ At(r, "incr")
      /\ counter' = [counter EXCEPT ![k] = e]
      /\ hits' = [hits EXCEPT ![r] = [@ EXCEPT ![s] =
                                       [epoch |-> e.epoch, n |-> e.n]]]
      /\ GoTo(r, IF e.n = 1 THEN "expire" ELSE "ttl")
      /\ NoFault
      /\ UNCHANGED <<client, stage, strike, outcome, faulty, block>>

IncrFails(r) ==
  LET k == Key(r, stage[r])
  IN  /\ At(r, "incr")
      /\ FaultIn(r, stage[r])
      /\ \/ UNCHANGED counter
         \/ counter' = [counter EXCEPT ![k] = Incremented(@)]
      /\ HitFailed(r)
      /\ UNCHANGED <<client, hits, strike, block>>

\* Mutated: a shorter life.
ExpireCounterEarly(r) ==
  counter' = [counter EXCEPT ![Key(r, stage[r])] =
                               WithCounterTTL(@, CounterTTL - 1)]

ExpireCounter(r) ==
  counter' = [counter EXCEPT ![Key(r, stage[r])] = WithCounterTTL(@, CounterTTL)]

Expire(r) ==
  /\ At(r, "expire")
  /\ ExpireCounter(r)
  /\ GoTo(r, "ttl")
  /\ NoFault
  /\ UNCHANGED <<requestVars, outcome, block>>

ExpireFails(r) ==
  /\ At(r, "expire")
  /\ FaultIn(r, stage[r])
  /\ UNCHANGED counter \/ ExpireCounter(r)
  /\ HitFailed(r)
  /\ UNCHANGED <<client, hits, strike, block>>

\* Mutated: a missing TTL is not repaired.
ReadTTLOnly(r) ==
  /\ At(r, "ttl")
  /\ HitDone(r)
  /\ NoFault
  /\ UNCHANGED <<client, hits, strike, faulty, counter, block>>

ReadTTL(r) ==
  /\ At(r, "ttl")
  /\ \E looksExpired \in MayLookExpired(counter[Key(r, stage[r])]) :
       IF looksExpired
       THEN GoTo(r, "repair") /\ UNCHANGED <<stage, outcome>>
       ELSE HitDone(r)
  /\ NoFault
  /\ UNCHANGED <<client, hits, strike, faulty, counter, block>>

ReadTTLFails(r) ==
  /\ At(r, "ttl")
  /\ FaultIn(r, stage[r])
  /\ HitDone(r)
  /\ UNCHANGED <<client, hits, strike, counter, block>>

Repair(r) ==
  /\ At(r, "repair")
  /\ ExpireCounter(r)
  /\ HitDone(r)
  /\ NoFault
  /\ UNCHANGED <<client, hits, strike, faulty, block>>

RepairFails(r) ==
  /\ At(r, "repair")
  /\ FaultIn(r, stage[r])
  /\ UNCHANGED counter \/ ExpireCounter(r)
  /\ HitDone(r)
  /\ UNCHANGED <<client, hits, strike, block>>

(***************************************************************************)
(* recordStrike, after the request was found over a limit.  INCR of a key  *)
(* that holds BLOCKED is an error; errors end the recording silently.      *)
(***************************************************************************)
\* Mutated: the key is never given a TTL.
StrikeIncrOnly(r) ==
  LET b == BlockKey(r)
      e == StrikeAdded(block[b])
  IN  /\ At(r, "strikeIncr")
      /\ IF block[b].banned
         THEN GoTo(r, "done") /\ UNCHANGED <<strike, block>>
         ELSE /\ block' = [block EXCEPT ![b] = e]
              /\ strike' = [strike EXCEPT ![r] = e.n]
              /\ GoTo(r, IF e.n >= Threshold THEN "strikeSet" ELSE "done")
      /\ NoFault
      /\ UNCHANGED <<client, stage, hits, outcome, faulty, counter>>

\* Mutated: whatever INCR's error says, the ban is set.
StrikeIncrBans(r) ==
  LET b == BlockKey(r)
      e == StrikeAdded(block[b])
  IN  /\ At(r, "strikeIncr")
      /\ IF block[b].banned
         THEN GoTo(r, "strikeSet") /\ UNCHANGED <<strike, block>>
         ELSE /\ block' = [block EXCEPT ![b] = e]
              /\ strike' = [strike EXCEPT ![r] = e.n]
              /\ GoTo(r, IF e.n = 1 THEN "strikeExpire"
                         ELSE IF e.n >= Threshold THEN "strikeSet" ELSE "done")
      /\ NoFault
      /\ UNCHANGED <<client, stage, hits, outcome, faulty, counter>>

StrikeIncr(r) ==
  LET b == BlockKey(r)
      e == StrikeAdded(block[b])
  IN  /\ At(r, "strikeIncr")
      /\ IF block[b].banned
         THEN GoTo(r, "done") /\ UNCHANGED <<strike, block>>
         ELSE /\ block' = [block EXCEPT ![b] = e]
              /\ strike' = [strike EXCEPT ![r] = e.n]
              /\ GoTo(r, IF e.n = 1 THEN "strikeExpire"
                         ELSE IF e.n >= Threshold THEN "strikeSet" ELSE "done")
      /\ NoFault
      /\ UNCHANGED <<client, stage, hits, outcome, faulty, counter>>

StrikeIncrFails(r) ==
  LET b == BlockKey(r)
  IN  /\ At(r, "strikeIncr")
      /\ FaultIn(r, "strike")
      /\ \/ UNCHANGED block
         \/ ~block[b].banned /\ block' = [block EXCEPT ![b] = StrikeAdded(@)]
      /\ GoTo(r, "done")
      /\ UNCHANGED <<client, stage, hits, strike, outcome, counter>>

\* EXPIRE, on whatever the key holds by then; its error is ignored.
StrikeExpire(r) ==
  /\ At(r, "strikeExpire")
  /\ \/ /\ block' = [block EXCEPT ![BlockKey(r)] = WithBlockTTL(@, StrikeTTL)]
        /\ UNCHANGED <<faulty, faults>>
     \/ FaultIn(r, "strike") /\ UNCHANGED block
  /\ GoTo(r, IF strike[r] >= Threshold THEN "strikeSet" ELSE "done")
  /\ UNCHANGED <<client, stage, hits, strike, outcome, counter>>

\* Mutated: SET BLOCKED without EX.
StrikeSetForever(r) ==
  /\ At(r, "strikeSet")
  /\ block' = [block EXCEPT ![BlockKey(r)] =
                 [n |-> 0, banned |-> TRUE, ttl |-> 0]]
  /\ GoTo(r, "done")
  /\ UNCHANGED <<client, stage, hits, strike, outcome, faulty, counter, faults>>

\* SET BLOCKED EX, whatever the key holds by then.
StrikeSet(r) ==
  /\ At(r, "strikeSet")
  /\ \/ /\ block' = [block EXCEPT ![BlockKey(r)] =
                       [n |-> 0, banned |-> TRUE, ttl |-> BanTTL]]
        /\ UNCHANGED <<faulty, faults>>
     \/ FaultIn(r, "strike") /\ UNCHANGED block
  /\ GoTo(r, "done")
  /\ UNCHANGED <<client, stage, hits, strike, outcome, counter>>

-----------------------------------------------------------------------------
(***************************************************************************)
(* The environment: a gateway process dies with the request it runs, and   *)
(* time passes.                                                            *)
(***************************************************************************)
Die(r) ==
  /\ pc[r] \notin {"new", "done"}
  /\ FaultIn(r, IF pc[r] \in {"strikeIncr", "strikeExpire", "strikeSet"}
                THEN "strike" ELSE stage[r])
  /\ Answer(r, "lost")
  /\ UNCHANGED <<client, stage, hits, strike, counter, block>>

Expiring ==
  \/ \E k \in CounterKeys : counter[k].ttl > 0
  \/ \E b \in BlockKeys : block[b].ttl > 0

Tick ==
  /\ Expiring
  /\ counter' = [k \in CounterKeys |-> CounterAged(counter[k])]
  /\ block' = [b \in BlockKeys |-> BlockAged(block[b])]
  /\ UNCHANGED <<pc, requestVars, outcome, faults>>

\* Every request has been answered and no key is left to expire.
Finished ==
  /\ \A r \in Requests : At(r, "done")
  /\ ~Expiring
  /\ UNCHANGED vars

Hit(r) ==
  \/ Incr(r) \/ IncrFails(r)
  \/ Expire(r) \/ ExpireFails(r)
  \/ ReadTTL(r) \/ ReadTTLFails(r)
  \/ Repair(r) \/ RepairFails(r)

RecordStrike(r) ==
  StrikeIncr(r) \/ StrikeIncrFails(r) \/ StrikeExpire(r) \/ StrikeSet(r)

Step(r) == Start(r) \/ CheckBlock(r) \/ Hit(r) \/ RecordStrike(r)

Next ==
  \/ \E r \in Requests : Step(r) \/ Die(r)
  \/ Tick
  \/ Finished

Spec == Init /\ [][Next]_vars

-----------------------------------------------------------------------------
(***************************************************************************)
(* Properties.                                                             *)
(***************************************************************************)
Labels == {"new", "block", "incr", "expire", "ttl", "repair",
           "strikeIncr", "strikeExpire", "strikeSet", "done"}
Outcomes == {"pending", "admitted", "limited", "blocked", "lost"}

\* Every variable has its type.  A key that holds a ban has a TTL: a ban
\* without one would be for ever.
TypeOK ==
  /\ pc \in [Requests -> Labels]
  /\ client \in [Requests -> [ip : IPs, path : Paths]]
  /\ stage \in [Requests -> Stages]
  /\ hits \in [Requests -> [Stages -> [epoch : Nat, n : Nat]]]
  /\ strike \in [Requests -> Nat]
  /\ outcome \in [Requests -> Outcomes]
  /\ faulty \in [Requests -> SUBSET {"global", "path", "strike"}]
  /\ counter \in [CounterKeys -> Counters]
  /\ block \in [BlockKeys -> Blocks]
  /\ faults \in Nat

Counted(r, s) == hits[r][s].n > 0

\* The requests let through that were counted in the same life of the same
\* key as request r.
AdmittedWith(r, s) ==
  {q \in Requests : /\ outcome[q] = "admitted"
                    /\ Counted(q, s)
                    /\ Key(q, s) = Key(r, s)
                    /\ hits[q][s].epoch = hits[r][s].epoch}

\* In one life of a counter key no more counted requests are let through than
\* its limit allows, however their INCR, EXPIRE and TTL interleave, whichever
\* of them fail, and whenever the key expires under them.
AdmittedWithinLimit ==
  \A r \in Requests, s \in Stages :
    Counted(r, s) => Cardinality(AdmittedWith(r, s)) <= Limit(r, s)

\* A fund path never lets a request through that Redis did not count within
\* the limit: its failures close it (rate_limit.go:86-92).
FundPathFailsClosed ==
  \A r \in Requests :
    /\ DefaultLimit > 0
    /\ Path(r) \in FundPaths
    /\ RouteLimit[Path(r)] # 0
    /\ outcome[r] = "admitted"
    => hits[r]["path"].n \in 1..Limit(r, "path")

InHit(r, s) == stage[r] = s /\ pc[r] \in {"expire", "ttl", "repair"}

\* A counter key that will never expire is repaired by the next hit
\* (rate_limit.go:146-149): it has no TTL only while the request that last
\* raised it is still in hitRedisCounter, or had a Redis call fail there.
MissingTTLIsRepaired ==
  \A r \in Requests, s \in Stages :
    LET e == counter[Key(r, s)]
    IN  /\ Counted(r, s)
        /\ e.ttl = 0
        /\ hits[r][s].n = e.n
        /\ hits[r][s].epoch = e.epoch
        => InHit(r, s) \/ s \in faulty[r]

Offenders(audience, ip) ==
  {r \in Requests : /\ AudienceOf[Path(r)] = audience
                    /\ IP(r) = ip
                    /\ ip \notin Whitelist
                    /\ \E s \in Stages : OverLimit(r, s)}

\* A ban of an IP in an audience takes Threshold requests of that IP in that
\* very audience which went over a limit; what the IP does in another audience
\* does not count (rate_limit.go:41-43), and a whitelisted IP is never banned.
BanIsEarned ==
  \A a \in Audiences, ip \in IPs :
    block[<<a, ip>>].banned => Cardinality(Offenders(a, ip)) >= Threshold

StruckForEver(b) == block[b].n > 0 /\ block[b].ttl = 0

\* A strike counter is left without a TTL only by a call that fails, or a
\* process that dies, in recordStrike: never by the race of several requests
\* to raise it, to set the ban, and the expiry of either (rate_limit.go:210-222).
StrikesOutliveOnlyFaults ==
  \A b \in BlockKeys : StruckForEver(b) =>
    \E r \in Requests : /\ BlockKey(r) = b
                        /\ At(r, "strikeExpire") \/ "strike" \in faulty[r]

\* A ban lasts durationSeconds: no request makes a ban end sooner.
BanNeverShortened ==
  [][\A b \in BlockKeys :
       block[b].banned /\ ~Tick => block'[b].banned
                                   /\ block'[b].ttl >= block[b].ttl]_vars

\* The EXPIRE and SET of a strike key that the requests whose strike Redis has
\* counted still have to make.
Owed(b) ==
  {d \in Requests \X {"strikeExpire", "strikeSet"} :
     /\ BlockKey(d[1]) = b
     /\ \/ At(d[1], d[2])
        \/ At(d[1], "strikeExpire") /\ strike[d[1]] >= Threshold}

\* Who is banned cannot prolong his ban: the end of a ban moves on only by a
\* call owed by an offender that was counted before the ban was set, once for
\* each, and while the ban lasts no request comes to owe one, not even one
\* whose look-up of the ban failed (rate_limit.go:193-196, 210-223).
OnlyLateOffendersProlong ==
  [][\A b \in BlockKeys : block[b].banned /\ block'[b].banned =>
       /\ Owed(b)' \subseteq Owed(b)
       /\ block'[b].ttl > block[b].ttl => Owed(b)' # Owed(b)]_vars

=============================================================================
