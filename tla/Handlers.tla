------------------------------- MODULE Handlers -------------------------------
(* The shape of the handlers under internal/proxy/grpc_client: each reads the request's data,
   refuses the request when a key it needs is missing, makes one gRPC call on the connection the
   dispatcher gave it, and writes the reply.  A message is the set of its fields' names, a
   handler a record:
     rpc, request  the method it calls and the fields of the message it sends;
     reads         where it looks for the client's keys;
     takes         the key each field is filled from (a field outside the domain is never set);
     needs         the keys without which it refuses the request;
     numbers       the keys it hears as JSON numbers or arrays only, never as text;
     verdict       what it does with the reply's "success" field;
     asFailure     a missing key is answered as if the call had failed.
   The values, their conversions, their ranges, the defaults of absent keys and the wording of
   the answers are left out. *)
EXTENDS SequencesExt

(* The client of a method: Invoke sends the request and decodes the reply.  Of the reply only
   one thing matters here: whether it can say that the operation was not done. *)
Rpc(fields) == [request |-> fields, reply |-> {}]
RpcWithVerdict(fields, reply) == [request |-> fields, reply |-> reply]

Reading(from, client, rpc) ==
  [rpc |-> rpc, request |-> client[rpc].request, reads |-> from,
   takes |-> [f \in client[rpc].request |-> f], needs |-> {}, numbers |-> {},
   verdict |-> IF "success" \in client[rpc].reply THEN "shown" ELSE "none", asFailure |-> FALSE]

FromBody(client, rpc) == Reading("body", client, rpc)    \* GetRequestDataWithFallback
FromData(client, rpc) == Reading("data", client, rpc)    \* ctx.Value("requestData")
FromQuery(client, rpc) == Reading("query", client, rpc)  \* r.GetQuery
FromAny(client, rpc) == Reading("any", client, rpc)      \* r.Get, r.Parse
FromFile(client, rpc) == Reading("file", client, rpc)    \* r.GetUploadFile

LeavingOut(fields, h) == [h EXCEPT !.takes = [f \in DOMAIN @ \ fields |-> @[f]]]
Bare(client, rpc) == LeavingOut(client[rpc].request, Reading("none", client, rpc))
TakingAll(fields, key, h) ==
  [h EXCEPT !.takes = [f \in DOMAIN @ |-> IF f \in fields THEN key ELSE @[f]]]
Taking(field, key, h) == TakingAll({field}, key, h)
Needing(keys, h) == [h EXCEPT !.needs = keys]
Numbers(keys, h) == [h EXCEPT !.numbers = keys]
Checking(h) == [h EXCEPT !.verdict = "checked"]  \* if !res.Success { util.WriteBadRequest }
Silent(h) == [h EXCEPT !.verdict = "ignored"]    \* the answer is the same whatever it says
NeedingOrFailing(keys, h) == [h EXCEPT !.needs = keys, !.asFailure = TRUE]  \* return err

Route(suffix, method, h) == [suffix |-> suffix, method |-> method, handler |-> h]
-----------------------------------------------------------------------------
(* The data of an HTTP request.  Its keys travel in one carrier: the URL's query, a form
   (urlencoded, or multipart in a POST), a JSON body, or a body that is no JSON. *)

UploadPaths == {<<"upload-image">>, <<"upload-file">>, <<"upload">>}
EndsIn(path, suffixes) == \E s \in suffixes : IsSuffix(s, path)

isFileUploadEndpoint(path) == EndsIn(path, UploadPaths)

\* RequestParser refuses a body that should be JSON and is not, before any other check.
Malformed(r) ==
  r.method = "POST" /\ r.carrier = "broken" /\ ~isFileUploadEndpoint(r.path)

\* A mutant of requestData: the query of a GET is not copied.
requestDataOfBodies(r) == IF r.carrier \in {"form", "json"} THEN r.keys ELSE {}

\* The requestData RequestParser stores.  Of a GET it is the JSON body or else GetQueryMap, which
\* reads the query and a form in the body; of a POST the body, unless that uploads a file.
requestData(r) ==
  IF r.method = "GET" \/ (r.carrier # "query" /\ ~isFileUploadEndpoint(r.path)) THEN r.keys ELSE {}

\* The keys a handler finds, by where it looks.
Found(h, r) ==
  CASE h.reads \in {"body", "data"} -> requestData(r)
    [] h.reads = "query" -> IF r.method = "GET" \/ r.carrier = "query" THEN r.keys ELSE {}
    [] h.reads = "any" -> r.keys
    [] h.reads = "file" -> IF r.carrier = "form" THEN r.keys ELSE {}
    [] OTHER -> {}

\* A mutant of Heard: numbers are heard from text only.
HeardAsText(h, r) == Found(h, r) \ h.numbers

Heard(h, r) == IF r.carrier = "json" THEN Found(h, r) ELSE Found(h, r) \ h.numbers

\* A mutant of Refuses: the needed keys are not looked for.
RefusesNothingOnly(h, r) == h.reads = "body" /\ requestData(r) = {}

\* GetRequestDataWithFallback refuses empty data even when every key is optional.
Refuses(h, r) ==
  \/ h.reads = "body" /\ requestData(r) = {}
  \/ ~(h.needs \subseteq Heard(h, r))

Sent(h, r) == {f \in DOMAIN h.takes : h.takes[f] \in Heard(h, r)}
=============================================================================
