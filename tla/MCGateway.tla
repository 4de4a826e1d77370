------------------------------ MODULE MCGateway ------------------------------
(* The requests of the runs: every route of every registry under every prefix that leads to it,
   with the parameters complete, absent, or short of one the handler needs. *)
EXTENDS Gateway

Under(prefix, routes) ==
  {[path |-> prefix \o t.suffix, method |-> t.method, handler |-> t.handler] : t \in routes}

Targets ==
  UNION {Under(<<"api", "manage">>, manageRoutes),
         Under(<<"api", "backend", "app">>, backendRoutes),
         Under(<<"api", "backend", "balance">>, balanceRoutes),
         Under(<<"api", "backend", "game">>, gameRoutes),
         Under(<<"api", "frontend", "app">>, frontendRoutes),
         Under(<<"api", "frontend", "balance">>, balanceRoutes),
         Under(<<"api", "frontend", "game">>, gameRoutes),
         Under(<<"api", "balance">>, balanceRoutes),
         Under(<<"api", "game">>, gameRoutes)}

Token(kind, revoked) == [kind |-> kind, revoked |-> revoked]
GoodToken(path) ==
  Token(CASE path[2] = "manage" -> "manage" [] path[2] = "backend" -> "admin" [] OTHER -> "user",
        FALSE)

TokensSent(good) ==
  {Token(k, FALSE) : k \in {"none", "user", "admin", "manage", "other"}} \cup {Token(good.kind, TRUE)}

Carriers(method) ==
  IF method = "GET" THEN {"query", "form", "json"} ELSE {"query", "form", "json", "broken"}
UsualCarrier(path, method) ==
  IF method = "GET" THEN "query" ELSE IF isFileUploadEndpoint(path) THEN "form" ELSE "json"

Keys(h) == h.request \cup {h.takes[f] : f \in DOMAIN h.takes} \cup h.needs

Request(path, method, carrier, keys, token, site) ==
  [path |-> path, method |-> method, carrier |-> carrier,
   keys |-> IF carrier = "broken" THEN {} ELSE keys, token |-> token, site |-> site]

\* Complete requests in every carrier, and with every token; incomplete ones as documented.
RequestsTo(t) ==
  LET req(c, k, tok) == Request(t.path, t.method, c, k, tok, TRUE)
      usual == UsualCarrier(t.path, t.method)
      all == Keys(t.handler)
      good == GoodToken(t.path)
  IN {req(c, all, good) : c \in Carriers(t.method)}
     \cup {req(usual, all, tok) : tok \in TokensSent(good)}
     \cup {req(usual, all \ {k}, good) : k \in t.handler.needs}
     \cup {req(usual, {}, good)}

\* The global report, the paths of one site, paths of no service and of no handler,
\* and segments that begin with the name of a service.
OddRequests ==
  LET times == {"start_time", "end_time"} IN
  {Request(p, m, IF m = "GET" THEN "query" ELSE "json", k, GoodToken(p), s) :
     p \in GlobalReportPaths, m \in {"GET", "POST"},
     k \in {{}, {"start_time"}, times, times \cup {"site_id"}}, s \in BOOLEAN}
  \cup {Request(p, "GET", c, k, GoodToken(p), s) :
     p \in OneSitePaths, c \in {"query", "json"}, k \in {{}, {"page"}, {"site_id", "page"}},
     s \in BOOLEAN}
  \cup {Request(<<"api">> \o p, m, "json", {"id"}, GoodToken(<<"api">> \o p), TRUE) :
     p \in {<<"manage">>, <<"manage", "nowhere">>, <<"backend">>, <<"backend", "other", "login">>,
            <<"backend", "app", "nowhere">>, <<"frontend", "other">>, <<"balance">>,
            <<"game", "app", "nowhere">>}, m \in {"GET", "POST"}}
  \cup {Request(<<"api">> \o p, m, IF m = "GET" THEN "query" ELSE "json", {"username", "password"},
                GoodToken(<<"api">> \o p), TRUE) :
     p \in {<<"backend", "application", "login">>, <<"backend", "games">>,
            <<"frontend", "application", "login">>, <<"frontend", "game2", "game-list">>,
            <<"frontend", "ap", "login">>}, m \in {"GET", "POST"}}

MCRequests == UNION {RequestsTo(t) : t \in Targets} \cup OddRequests
=============================================================================
