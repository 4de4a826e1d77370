------------------------------- MODULE Gateway -------------------------------
(* A request on its way through a group of internal/router/router.go: the middlewares that may
   turn it away, RequestParser, the authentication, CircuitBreaker, the group's dispatcher, the
   choice of a service, of an instance and of a handler, the gRPC call under its deadline, and
   the answer.  The handlers and the route tables are those of the *Handlers modules.

   Requests are served one at a time: they share no state here but the ClickHouse connection.
   What they share elsewhere - counters, sessions, sites, breakers, connections - has modules
   of its own (RateLimiter, SignedRequests, DomainWatcher, CircuitBreaker, Downstream), and so
   has the one route with a handler of its own, SignSession. *)
EXTENDS Handlers, Naturals, FiniteSets

CONSTANT Requests  \* the HTTP requests clients send

Backend == INSTANCE BackendHandlers
Balance == INSTANCE BalanceHandlers
Frontend == INSTANCE FrontendHandlers
Game == INSTANCE GameHandlers
Manage == INSTANCE ManageHandlers

manageRoutes == Manage!manageRoutes
backendRoutes == Backend!backendRoutes
balanceRoutes == Balance!balanceRoutes
frontendRoutes == Frontend!frontendRoutes
gameRoutes == Game!gameRoutes

Groups == {"manage", "backend", "frontend", "balance", "game"}
Services == {"jh_manage_service", "jh_app_service", "jh_balance_service", "jh_game_service"}
NoService == "no service"
NoHandler == [rpc |-> "none"]
NoRequest == [path |-> <<>>]

(* A path is the sequence of its segments.  A token is that of a player or of a site's
   administrator (signed with one secret), of an administrator of all sites (with another), or
   nothing the gateway signed; it may be on the blacklist.  site: the host belongs to a site. *)
Tokens == [kind : {"none", "user", "admin", "manage", "other"}, revoked : BOOLEAN]

SignSession == <<"POST", <<"api", "frontend", "app", "sign-session">>>>

IsRequest(r) ==
  /\ r.path \in Seq(STRING) /\ Len(r.path) >= 2 /\ r.path[2] \in Groups
  /\ r.method \in {"GET", "POST"}
  /\ <<r.method, r.path>> # SignSession
  /\ r.carrier \in {"query", "form", "json", "broken"}
  /\ r.keys \in SUBSET STRING /\ (r.carrier = "broken" => r.keys = {})
  /\ r.token \in Tokens
  /\ r.site \in BOOLEAN

ASSUME RequestsAssumption == \A r \in Requests : IsRequest(r)

group(r) == r.path[2]
-----------------------------------------------------------------------------
(* The authentication. *)

SkipPaths == [
  manage |-> {<<"login">>, <<"logout">>},
  backend |-> {<<"login">>, <<"logout">>},
  frontend |-> {<<"frontend-game-list">>, <<"game-categories">>, <<"notice-list">>, <<"ad-list">>,
    <<"setting-site">>, <<"register">>, <<"captcha">>, <<"refresh-token">>, <<"login">>,
    <<"logout">>, <<"sign-session">>, <<"balance", "deposit-callback">>},
  balance |-> {<<"deposit-callback">>},
  game |-> {<<"game-categories">>, <<"game-list">>}]

Skipped(r) == EndsIn(r.path, SkipPaths[group(r)])

\* A mutant of ParseToken: the blacklist is not looked at.
ParseTokenUnchecked(t, look) == t.kind \in {"user", "admin"}

\* ParseToken and ParseManageToken: a failed look-up of the blacklist revokes nothing.
ParseToken(t, look) == t.kind \in {"user", "admin"} /\ ~(t.revoked /\ look = "ok")

ParseManageToken(t, look) == t.kind = "manage" /\ ~(t.revoked /\ look = "ok")

\* On a path that needs no token, AuthWithSkip still looks at one; AuthManageWithSkip does not.
Accepts(r, look) ==
  IF group(r) = "manage" THEN ~Skipped(r) /\ ParseManageToken(r.token, look)
  ELSE ParseToken(r.token, look)

\* DomainResolver, which the manage group has not, names the site of a known host.
SiteOfHost(r) == IF r.site /\ group(r) # "manage" THEN {"site_id"} ELSE {}

\* A mutant of applyAuthClaims: the group is not looked at.
applyAuthClaimsAsAdmin(r) == {"admin_site_id"} \cup {"admin_id"}

\* addUserInfoToGRPCContext makes metadata of the context's ids that are positive.  The site that
\* a client names in X-Site-Id, which counts only where nothing else gives one, is left out.
\* The positive numbers applyAuthClaims puts in the context: a player's token has no admin_id,
\* an administrator's no user_id, and only /api/frontend/ takes the claims of a player.
applyAuthClaims(r) ==
  IF group(r) = "frontend" /\ Len(r.path) > 2
  THEN {"site_id"} \cup (IF r.token.kind = "user" THEN {"user_id"} ELSE {})
  ELSE {"admin_site_id"} \cup (IF r.token.kind = "admin" THEN {"admin_id"} ELSE {})

Claims(r) == IF group(r) = "manage" THEN {"admin_id"} ELSE applyAuthClaims(r)
-----------------------------------------------------------------------------
(* The dispatchers. *)

GlobalReportPaths == {<<"api", "manage", "operations", "global-report">>,
                      <<"api", "backend", "balance", "global-report">>}

\* The paths of the manage group that go to a service of one site, named by the client.
OneSitePaths == {<<"api", "manage", "balance", "recharge-payment">>,
                 <<"api", "manage", "balance", "withdraws">>,
                 <<"api", "manage", "app", "user-login-logs">>}

backendServiceRoutes == [app |-> "jh_app_service", balance |-> "jh_balance_service",
                         game |-> "jh_game_service"]
frontendServiceRoutes == [app |-> "jh_app_service", game |-> "jh_game_service",
                          balance |-> "jh_balance_service"]

\* strings.HasPrefix; that a name begins with itself is said apart, for the provers' sake.
HasPrefix(segment, name) == segment = name \/ IsPrefix(name, segment)

\* The first segment after the group's prefix decides, by what it begins with: "application"
\* leads where "app" does.  No name begins with another, so the order of the routes is nothing.
ByPrefix(routes, path) ==
  LET begun == {name \in DOMAIN routes : Len(path) > 2 /\ HasPrefix(path[3], name)}
  IN IF begun = {} THEN NoService ELSE routes[CHOOSE name \in begun : TRUE]

determineBackendService(path) == ByPrefix(backendServiceRoutes, path)
determineFrontendService(path) == ByPrefix(frontendServiceRoutes, path)

\* Every path below /api/manage matches the one prefix "/".
determineManageService(path) == IF Len(path) > 2 THEN "jh_manage_service" ELSE NoService

determineService(r) ==
  CASE group(r) = "manage" /\ r.path \in OneSitePaths ->
         IF r.path[3] = "app" THEN "jh_app_service" ELSE "jh_balance_service"
    [] group(r) = "manage" /\ r.path \notin OneSitePaths -> determineManageService(r.path)
    [] group(r) = "backend" -> determineBackendService(r.path)
    [] group(r) = "frontend" -> determineFrontendService(r.path)
    [] group(r) = "balance" -> "jh_balance_service"
    [] group(r) = "game" -> "jh_game_service"

\* The switch at the end of callServiceWithRouting: the registry of a service.
Registry(s, r) ==
  CASE s = "jh_app_service" ->
         IF group(r) = "frontend" THEN frontendRoutes ELSE backendRoutes
    [] s = "jh_balance_service" -> balanceRoutes
    [] s = "jh_game_service" -> gameRoutes
    [] s = "jh_manage_service" -> manageRoutes

\* A mutant of Matching: the last segment decides.
MatchingLast(s, r) ==
  {t \in Registry(s, r) : t.method = r.method /\ Last(t.suffix) = Last(r.path)}

\* RouteRegistry.Handle walks a map, in any order, until a key matches.
Matches(t, r) == t.method = r.method /\ IsSuffix(t.suffix, r.path)
Matching(s, r) == {t \in Registry(s, r) : Matches(t, r)}

-----------------------------------------------------------------------------
VARIABLES
  request,           \* the request being served
  stage,             \* how far it has come
  lookup,            \* what the look-up of the blacklist gave
  told,              \* the identity the gRPC metadata will carry: names of positive ids
  service,           \* the service the dispatcher chose
  handler,           \* the handler the route leads to
  call,              \* the gRPC call
  performed,         \* the backend carried the operation out
  answer,            \* what the client is answered
  downstreamFailed,  \* the mark callServiceWithRouting sets on a failure of the infrastructure
  counted,           \* the circuit breaker counted that failure
  clickhouse,        \* chInitOnce and chInitErr
  queries            \* the queries of the global report answered

served == <<lookup, told, service, handler, call, performed, downstreamFailed, counted, queries>>
vars == <<request, stage, lookup, told, service, handler, call, performed, answer,
          downstreamFailed, counted, clickhouse, queries>>

Calls == {"none", "sent", "replied", "declined", "broken", "expired"}
Stages == {"idle", "limits", "parse", "auth", "dispatch", "discover", "connect", "handle", "call",
           "report", "database", "query", "breaker", "done"}
Answers == {"none", "turned away", "refused", "failed", "told no", "success"}
ReportQueries == 4

TypeOK ==
  /\ request = NoRequest \/ IsRequest(request)
  /\ stage \in Stages
  /\ lookup \in {"none", "ok", "failed"}
  /\ told \subseteq {"user_id", "admin_id", "admin_site_id", "site_id"}
  /\ service \in Services \cup {NoService}
  /\ \/ handler = NoHandler
     \/ \E t \in Registry(service, request) : handler = t.handler /\ Matches(t, request)
  /\ call \in Calls
  /\ performed \in BOOLEAN
  /\ answer \in Answers
  /\ downstreamFailed \in BOOLEAN
  /\ counted \in BOOLEAN
  /\ clickhouse \in {"new", "up", "down"}
  /\ queries \in 0..ReportQueries

Init ==
  /\ request = NoRequest
  /\ stage = "idle"
  /\ lookup = "none"
  /\ told = {}
  /\ service = NoService
  /\ handler = NoHandler
  /\ call = "none"
  /\ performed = FALSE
  /\ answer = "none"
  /\ downstreamFailed = FALSE
  /\ counted = FALSE
  /\ queries = 0
  /\ clickhouse = "new"
-----------------------------------------------------------------------------
\* WriteJsonExit ends the handlers: nothing of the request runs after an answer but the second
\* half of CircuitBreaker, for the requests that came that far.
Answer(a) == answer' = a /\ stage' = "breaker"
EndsEarly(a) == answer' = a /\ stage' = "done"

Receive ==
  /\ stage = "idle"
  /\ \E r \in Requests : request' = r /\ told' = SiteOfHost(r)
  /\ stage' = "limits"
  /\ UNCHANGED <<lookup, service, handler, call, performed, answer, downstreamFailed, counted,
                 clickhouse, queries>>

\* RateLimit and, for the players' groups, ApiSignature: modelled by their own modules.
CheckLimits ==
  /\ stage = "limits"
  /\ EndsEarly("turned away") \/ (stage' = "parse" /\ UNCHANGED answer)
  /\ UNCHANGED <<request, clickhouse, served>>

ParseRequest ==
  /\ stage = "parse"
  /\ IF Malformed(request) THEN EndsEarly("refused") ELSE stage' = "auth" /\ UNCHANGED answer
  /\ UNCHANGED <<request, clickhouse, served>>

\* AuthManageWithSkip and AuthWithSkip.
Authenticate ==
  /\ stage = "auth"
  /\ lookup' \in {"ok", "failed"}
  /\ IF Skipped(request) \/ Accepts(request, lookup')
     THEN stage' = "dispatch" /\ UNCHANGED answer
     ELSE EndsEarly("refused")
  /\ told' = IF Accepts(request, lookup') THEN told \cup Claims(request) ELSE told
  /\ UNCHANGED <<request, service, handler, call, performed, downstreamFailed, counted, clickhouse,
                 queries>>

DispatchReport ==
  /\ stage = "dispatch"
  /\ request.path \in GlobalReportPaths
  /\ stage' = "report"
  /\ UNCHANGED <<request, answer, clickhouse, served>>

\* injectManageSiteID, for the paths that need it.
LacksSite(r) == r.path \in OneSitePaths /\ "site_id" \notin requestData(r)

Dispatch ==
  /\ stage = "dispatch"
  /\ request.path \notin GlobalReportPaths
  /\ IF LacksSite(request) \/ determineService(request) = NoService
     THEN Answer("refused") /\ UNCHANGED <<service, told>>
     ELSE /\ service' = determineService(request)
          /\ told' = IF request.path \in OneSitePaths THEN told \cup {"site_id"} ELSE told
          /\ stage' = "discover"
          /\ UNCHANGED answer
  /\ UNCHANGED <<request, lookup, handler, call, performed, downstreamFailed, counted, clickhouse,
                 queries>>

\* registry.GetServiceAddr and getGRPCConn, the first two steps of callServiceWithRouting.
FailsToReach ==
  /\ Answer("failed")
  /\ downstreamFailed' = TRUE

Reach(here, next) ==
  /\ stage = here
  /\ FailsToReach \/ (stage' = next /\ UNCHANGED <<answer, downstreamFailed>>)
  /\ UNCHANGED <<request, lookup, told, service, handler, call, performed, counted, clickhouse,
                 queries>>

Discover == Reach("discover", "connect")
Connect == Reach("connect", "handle")

\* RouteRegistry.Handle and the handler up to its gRPC call.
Handle ==
  /\ stage = "handle"
  /\ IF Matching(service, request) = {}
     THEN Answer("failed") /\ UNCHANGED <<handler, call>>
     ELSE \E t \in Matching(service, request) :
            /\ handler' = t.handler
            /\ IF Refuses(t.handler, request)
               THEN Answer(IF t.handler.asFailure THEN "failed" ELSE "refused") /\ UNCHANGED call
               ELSE stage' = "call" /\ call' = "sent" /\ UNCHANGED answer
  /\ UNCHANGED <<request, lookup, told, service, performed, downstreamFailed, counted, clickhouse,
                 queries>>
-----------------------------------------------------------------------------
(* The backend and the network.  The operation may be carried out after the gateway has given
   the call up: cancelling a context stops the waiting, not the work. *)

Perform ==
  /\ call \in {"sent", "broken", "expired"}
  /\ performed' = TRUE
  /\ UNCHANGED <<request, stage, lookup, told, service, handler, call, answer, downstreamFailed,
                 counted, clickhouse, queries>>

CallEnds(how) ==
  /\ call = "sent"
  /\ call' = how
  /\ UNCHANGED <<request, stage, lookup, told, service, handler, performed, answer,
                 downstreamFailed, counted, clickhouse, queries>>

Reply == CallEnds("replied") /\ performed
Decline == CallEnds("declined") /\ ~performed /\ handler.verdict # "none"
Break == CallEnds("broken")

\* A mutant of Deadline: the context of the call has no deadline.
DeadlineNever == FALSE /\ CallEnds("expired")

\* downstreamCallTimeout.
Deadline == CallEnds("expired")
-----------------------------------------------------------------------------
\* A mutant of Outcome: the reply's success field is never read.
OutcomeUnread == IF call \in {"broken", "expired"} THEN "failed" ELSE "success"

\* What the handler makes of the end of its call.
Outcome ==
  CASE call \in {"broken", "expired"} -> "failed"
    [] call = "replied" -> "success"
    [] call = "declined" ->
         CASE handler.verdict = "ignored" -> "success"
           [] handler.verdict = "shown" -> "told no"
           [] OTHER -> "failed"

Write ==
  /\ stage = "call"
  /\ call # "sent"
  /\ Answer(Outcome)
  /\ UNCHANGED <<request, clickhouse, served>>

\* HandleGlobalReport: its own reading of the data, then ClickHouse.
LacksReportKeys(r) ==
  \/ requestData(r) \cap {"start_time", "startTime"} = {}
  \/ requestData(r) \cap {"end_time", "endTime"} = {}
  \/ "site_id" \notin told \cup requestData(r)

CheckReport ==
  /\ stage = "report"
  /\ IF LacksReportKeys(request) THEN Answer("refused") ELSE stage' = "database" /\ UNCHANGED answer
  /\ UNCHANGED <<request, clickhouse, served>>

\* sync.Once: the first attempt decides for the life of the process.
InitClickHouse ==
  /\ stage = "database"
  /\ IF clickhouse = "new" THEN clickhouse' \in {"up", "down"} ELSE UNCHANGED clickhouse
  /\ IF clickhouse' = "down" THEN Answer("failed") ELSE stage' = "query" /\ UNCHANGED answer
  /\ UNCHANGED <<request, served>>

\* A mutant of QueryReport: the count is compared before the query.
QueryReportOnceMore ==
  /\ stage = "query"
  /\ queries' = queries + 1
  /\ IF queries = ReportQueries THEN Answer("success") ELSE UNCHANGED <<answer, stage>>
  /\ UNCHANGED <<request, lookup, told, service, handler, call, performed, downstreamFailed,
                 counted, clickhouse>>

QueryReport ==
  /\ stage = "query"
  /\ \/ Answer("failed") /\ UNCHANGED queries
     \/ /\ queries' = queries + 1
        /\ IF queries' = ReportQueries THEN Answer("success") ELSE UNCHANGED <<answer, stage>>
  /\ UNCHANGED <<request, lookup, told, service, handler, call, performed, downstreamFailed,
                 counted, clickhouse>>

\* r.GetCtxVar("serviceName"): only ToService sets it, which no group of the router uses.
serviceName == ""

\* The second half of CircuitBreaker.
LeaveBreaker ==
  /\ stage = "breaker"
  /\ stage' = "done"
  /\ counted' = (serviceName # "" /\ downstreamFailed)
  /\ UNCHANGED <<request, lookup, told, service, handler, call, performed, answer,
                 downstreamFailed, clickhouse, queries>>
-----------------------------------------------------------------------------
\* The request is over; of its call, what the backend may still do is forgotten.
Depart ==
  /\ stage = "done"
  /\ request' = NoRequest
  /\ stage' = "idle"
  /\ lookup' = "none" /\ call' = "none" /\ answer' = "none"
  /\ told' = {}
  /\ service' = NoService
  /\ handler' = NoHandler
  /\ performed' = FALSE /\ downstreamFailed' = FALSE /\ counted' = FALSE
  /\ queries' = 0
  /\ UNCHANGED clickhouse

\* What the goroutine of the request does by itself, the clock of its call included, and the
\* steps that wait: for Redis, Consul or ClickHouse, none of which has a deadline of the gateway's.
Steps == \/ ParseRequest \/ DispatchReport \/ Dispatch \/ Connect \/ Handle \/ Deadline \/ Write
         \/ CheckReport \/ LeaveBreaker \/ Depart
Waits == CheckLimits \/ Authenticate \/ Discover \/ InitClickHouse \/ QueryReport
Downstream == Perform \/ Reply \/ Decline \/ Break

Next == Receive \/ Steps \/ Waits \/ Downstream

\* The goroutine runs on, and the deadline of a call passes; nobody else need ever answer.
Spec == Init /\ [][Next]_vars /\ WF_vars(Steps)
-----------------------------------------------------------------------------
(* What the gateway promises. *)

Reached == call # "none"
Kinds(r) == CASE group(r) = "manage" -> {"manage"}
              [] group(r) = "backend" -> {"admin"}
              [] OTHER -> {"user"}

\* The carrier and the token a client of the group is to use.
Documented(r) ==
  /\ r.carrier = IF r.method = "GET" THEN "query"
                 ELSE IF isFileUploadEndpoint(r.path) THEN "form" ELSE "json"
  /\ Skipped(r) \/ (r.token.kind \in Kinds(r) /\ ~r.token.revoked)

(* The handlers stand in a Go map, which is walked in any order (route_handler.go:49-62): no
   request may match two keys of a registry, or its handler would change from call to call. *)
OneHandler ==
  stage = "handle" => Cardinality(Matching(service, request)) <= 1

\* What a path or its parameters lack, before a handler is looked for: the name of a service, the
\* site of a path of one site, the period of the global report, or its site where no host gives it.
Incomplete(r) ==
  \/ group(r) \in {"manage", "backend", "frontend"} /\ Len(r.path) = 2
  \/ group(r) \in {"backend", "frontend"} /\ r.path[3] \notin {"app", "balance", "game"}
  \/ r.path \in OneSitePaths /\ "site_id" \notin r.keys
  \/ /\ r.path \in GlobalReportPaths
     /\ \/ {"start_time", "startTime"} \cap r.keys = {}
        \/ {"end_time", "endTime"} \cap r.keys = {}
        \/ "site_id" \notin r.keys /\ (group(r) = "manage" \/ ~r.site)

(* A request is refused for its own fault only: whoever sends the parameters in the documented
   carrier, with a token of the group that is not on the blacklist, to a path that names a
   service, and leaves out no key that is needed, is not refused by any of the parser, the
   authentication, the dispatcher and the handler.  Only a handler that reads the body may refuse
   a request without any parameters although it needs none. *)
RefusedForAFault ==
  answer = "refused" =>
    \/ ~Documented(request)
    \/ handler = NoHandler /\ Incomplete(request)
    \/ handler # NoHandler /\ ~(handler.needs \subseteq request.keys)
    \/ handler # NoHandler /\ handler.reads = "body" /\ request.keys = {}

(* The backend acts, in time or late, only on a request that came through every check: a good
   JSON body, a token where the path needs one, the site where the client must name it, and the
   keys its handler needs. *)
ActsOnCompleteRequests ==
  performed =>
    /\ ~Malformed(request)
    /\ \/ Skipped(request)
       \/ request.token.kind \in IF group(request) = "manage" THEN {"manage"} ELSE {"user", "admin"}
    /\ request.path \in OneSitePaths => "site_id" \in request.keys
    /\ handler.needs \subseteq request.keys

(* A token on the blacklist gives nobody an identity and opens no path that needs one, except
   in a request whose look-up of the blacklist failed (jwt.go:59-61, 108-112). *)
RevokedOnlyOnFault ==
  request # NoRequest /\ request.token.revoked /\ lookup = "ok" =>
    /\ {"user_id", "admin_id"} \cap told = {}
    /\ performed => Skipped(request)

(* The answer is true of what was done, whatever the network did: success means that the
   operation was carried out, or the report computed to its last query; an answer from before
   the call, or the backend's own no, means that it was not, then or later.  Two answers say
   less: "failed" leaves it open, and a handler that ignores the verdict answers success. *)
AnswersAreTrue ==
  /\ answer = "success" =>
       IF request.path \in GlobalReportPaths
       THEN clickhouse = "up" /\ queries = ReportQueries
       ELSE performed \/ (call = "declined" /\ handler.verdict = "ignored")
  /\ answer \in {"turned away", "refused", "told no"} => ~performed

(* What the client says reaches the backend: of the fields a handler fills, those whose key the
   request carries are all in the message, in every carrier, except the numbers of a form or a
   query, and the parameters a POST puts in its URL for the handlers that read requestData. *)
DeliveredWhole ==
  Reached =>
    LET sent == Sent(handler, request) IN
    \A f \in DOMAIN handler.takes :
      \/ f \in sent
      \/ handler.takes[f] \notin request.keys
      \/ request.carrier # "json" /\ handler.takes[f] \in handler.numbers
      \/ request.method = "POST" /\ request.carrier = "query" /\ handler.reads = "data"

(* The backend is told who asks: a good token of the group's kind gives its identity on every
   path, also those that need none, in all groups but three - the old paths of players, whose
   claims are taken for an administrator's, and manage's open paths.  It is never told an
   identity the token does not have, and on manage's paths of one site it is told the site. *)
IdentityTold ==
  Reached =>
    /\ request.token.kind \in Kinds(request) /\ ~request.token.revoked =>
         CASE group(request) = "frontend" -> "user_id" \in told
           [] group(request) = "backend" -> "admin_id" \in told
           [] group(request) = "manage" -> Skipped(request) \/ "admin_id" \in told
           [] OTHER -> told \cap {"user_id", "admin_id"} = {}
    /\ "user_id" \in told => request.token.kind = "user"
    /\ "admin_id" \in told => request.token.kind \in {"admin", "manage"}
    /\ request.path \in OneSitePaths => "site_id" \in told

(* Once its instance is found, a request is answered although the backend may never reply
   (route_dispatcher.go:427).  Before that it waits for Redis and Consul, and a report for
   ClickHouse, without a deadline. *)
Answered == stage = "connect" ~> stage = "done" /\ answer # "none"

(* route_dispatcher.go:406 and 423 (H3): a failed discovery or connection is marked in order to
   drive the circuit breaker. *)
FailuresDriveTheBreaker ==
  stage = "done" /\ downstreamFailed => counted
=============================================================================
