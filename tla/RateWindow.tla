---------------------------- MODULE RateWindow -----------------------------
(***************************************************************************)
(* RateLimiter with a clock on every counted request: how many requests of *)
(* a client to a path are let through in any CounterTTL of time, rather    *)
(* than in one life of the counter key.                                    *)
(***************************************************************************)
EXTENDS RateLimiter

VARIABLE age   \* history: time since the request's path counter was raised

CountedNow(r) == hits'[r]["path"] # hits[r]["path"]
Older(a) == IF a < CounterTTL THEN a + 1 ELSE a

WindowInit == Init /\ age = [r \in Requests |-> CounterTTL]

WindowNext ==
  \/ \E r \in Requests :
       /\ Step(r) \/ Die(r)
       /\ age' = [age EXCEPT ![r] = IF CountedNow(r) THEN 0 ELSE @]
  \/ /\ Tick \/ (~Expiring /\ UNCHANGED vars)
     /\ age' = [r \in Requests |-> Older(age[r])]
  \/ Finished /\ UNCHANGED age

WindowSpec == WindowInit /\ [][WindowNext]_<<vars, age>>

\* The counted requests like r let through in the CounterTTL that ends now.
RecentLike(r) ==
  {q \in Requests : /\ outcome[q] = "admitted"
                    /\ Counted(q, "path")
                    /\ client[q] = client[r]
                    /\ age[q] < CounterTTL}

\* In any minute less than twice a path's limit is let through: the end of one life
\* of the counter key and the start of the next, without the request that
\* started the older life, although late and repeated EXPIREs
\* (rate_limit.go:136, 148) move the end of a life.
LessThanTwoWindows ==
  \A r \in Requests :
    PathLimit(Path(r)) > 0 =>
      Cardinality(RecentLike(r)) < 2 * PathLimit(Path(r))
=============================================================================
