--------------------------- MODULE GatewayProofs ---------------------------
(* Proofs about Gateway, for any requests.  Most use nothing of the tables of routes and of the
   handlers but what the operators of Handlers do with any handler, so they hold whatever is
   registered.  Three properties are about what is registered: the part on the tables shows, from
   every key and every handler, the little that these need. *)
EXTENDS Gateway, SequenceTheorems, FiniteSetTheorems, TLAPS

(* The inductive invariant: what the stage of a request, or a call that was made for it, says
   about the checks it came through, and what a call and an answer say about what was done.
   The properties speak of what was told and performed; only the stages between connect that to
   the checks, which is why they are needed here. *)
Parsed == {"auth", "dispatch", "discover", "connect", "handle", "call", "report", "database",
           "query", "breaker"}
Known == Parsed \ {"auth"}
Dispatched == {"discover", "connect", "handle", "call"}
Ended == {"breaker", "done"}
Ids == {"user_id", "admin_id"}

\* TypeOK, in parts.
RequestType == request = NoRequest \/ IsRequest(request)
StageType == stage \in Stages /\ call \in Calls
AnswerType == answer \in Answers
LookupType == lookup \in {"none", "ok", "failed"} /\ clickhouse \in {"new", "up", "down"}
ToldType == told \subseteq {"user_id", "admin_id", "admin_site_id", "site_id"}
ServiceType == service \in Services \cup {NoService}
HandlerType ==
  \/ handler = NoHandler
  \/ \E t \in Registry(service, request) : handler = t.handler /\ Matches(t, request)
MarkType == performed \in BOOLEAN /\ downstreamFailed \in BOOLEAN /\ counted \in BOOLEAN
QueriesType == queries \in 0..ReportQueries

IsServed ==
  /\ stage # "idle" => request \in Requests /\ SiteOfHost(request) \subseteq told
  /\ stage = "idle" => told = {}

\* Calls, handlers and answers come in their stages.
InOrder ==
  /\ stage \notin Ended => answer = "none"
  /\ stage \notin Ended \cup {"call"} => call = "none" /\ handler = NoHandler
  /\ stage = "call" => call # "none"

Checked ==
  /\ stage \in Parsed \/ call # "none" => ~Malformed(request)
  /\ stage \in Known \/ call # "none" =>
       /\ Skipped(request) \/ Accepts(request, lookup)
       /\ Accepts(request, lookup) => Claims(request) \subseteq told

\* An identity comes from a token that was accepted.
IdsKnown ==
  /\ stage \in {"limits", "parse", "auth"} => told \cap Ids = {}
  /\ told \cap Ids # {} => Accepts(request, lookup) /\ told \cap Ids \subseteq Claims(request)

Placed ==
  stage \in Dispatched \/ call # "none" =>
    /\ request.path \notin GlobalReportPaths
    /\ ~LacksSite(request)
    /\ determineService(request) # NoService
    /\ service = determineService(request)
    /\ request.path \in OneSitePaths => "site_id" \in told

\* The handler is one that the route leads to.
Routed == \E t \in Matching(service, request) : handler = t.handler

CallFits ==
  /\ call # "none" => Routed /\ ~Refuses(handler, request)
  /\ call = "none" => ~performed
  /\ call = "replied" => performed
  /\ call = "declined" => ~performed /\ handler.verdict # "none"

ReportFits ==
  /\ stage \in {"report", "database", "query"} => request.path \in GlobalReportPaths
  /\ stage = "query" => clickhouse = "up" /\ queries < ReportQueries
  /\ stage \notin Ended \cup {"query"} => queries = 0

AnswerFits ==
  /\ answer = "success" =>
       IF request.path \in GlobalReportPaths
       THEN clickhouse = "up" /\ queries = ReportQueries
       ELSE performed \/ (call = "declined" /\ handler.verdict = "ignored")
  /\ answer \in {"turned away", "refused"} => call = "none"
  /\ answer = "told no" => call = "declined"

\* Who refused a request, and why.
RefusalFits ==
  answer = "refused" =>
    \/ Malformed(request)
    \/ ~Skipped(request) /\ ~Accepts(request, lookup)
    \/ /\ handler = NoHandler
       /\ \/ LacksSite(request)
          \/ determineService(request) = NoService
          \/ request.path \in GlobalReportPaths /\ LacksReportKeys(request)
    \/ service \in Services /\ Routed /\ Refuses(handler, request)

Types == /\ RequestType /\ StageType /\ AnswerType /\ LookupType /\ ToldType /\ ServiceType
         /\ HandlerType /\ MarkType /\ QueriesType
IInv == /\ Types /\ IsServed /\ InOrder /\ Checked /\ IdsKnown /\ Placed
        /\ CallFits /\ ReportFits /\ AnswerFits /\ RefusalFits

LEMMA TypesAreTypeOK == Types <=> TypeOK
BY DEF Types, TypeOK, RequestType, StageType, AnswerType, LookupType, ToldType, ServiceType,
   HandlerType, MarkType, QueriesType
-----------------------------------------------------------------------------
\* What the operators on requests give.  Both groups that choose a service by its name know the
\* same three, so a path whose first segment is one of them finds its service.
LEMMA ServiceByPrefix ==
  ASSUME NEW routes \in {backendServiceRoutes, frontendServiceRoutes}, NEW path
  PROVE  /\ ByPrefix(routes, path) \in Services \cup {NoService}
         /\ ByPrefix(routes, path) = NoService =>
              ~(Len(path) > 2) \/ path[3] \notin {"app", "balance", "game"}
         /\ ~(Len(path) > 2) => ByPrefix(routes, path) = NoService
<1> DEFINE begun == {name \in DOMAIN routes : Len(path) > 2 /\ HasPrefix(path[3], name)}
<1>1. /\ DOMAIN routes = {"app", "balance", "game"}
      /\ \A name \in DOMAIN routes : routes[name] \in Services
  BY DEF backendServiceRoutes, frontendServiceRoutes, Services
<1>2. ByPrefix(routes, path) =
        IF begun = {} THEN NoService ELSE routes[CHOOSE name \in begun : TRUE]
  BY DEF ByPrefix
<1>3. CASE begun = {}
  <2>1. \A name \in DOMAIN routes : Len(path) > 2 => path[3] # name
    BY <1>3 DEF HasPrefix
  <2>2. QED
    BY <1>1, <1>2, <1>3, <2>1
<1>4. CASE begun # {}
  <2>1. (CHOOSE name \in begun : TRUE) \in begun
    BY <1>4
  <2> HIDE DEF HasPrefix
  <2>2. ByPrefix(routes, path) \in Services /\ Len(path) > 2
    BY <1>1, <1>2, <1>4, <2>1
  <2>3. QED
    BY <2>2 DEF Services, NoService
<1>5. QED
  BY <1>3, <1>4

LEMMA ServiceOfRequest ==
  ASSUME NEW r, IsRequest(r)
  PROVE  determineService(r) \in Services \cup {NoService}
<1>1. group(r) \in Groups
  BY DEF IsRequest, group
<1>2. \A path : /\ determineBackendService(path) \in Services \cup {NoService}
                /\ determineFrontendService(path) \in Services \cup {NoService}
                /\ determineManageService(path) \in Services \cup {NoService}
  BY ServiceByPrefix DEF determineBackendService, determineFrontendService,
     determineManageService, Services
<1>3. QED
  BY <1>1, <1>2 DEF determineService, Groups, Services

LEMMA ClaimsOfRequest ==
  ASSUME NEW r
  PROVE  /\ Claims(r) \subseteq {"user_id", "admin_id", "admin_site_id", "site_id"}
         /\ SiteOfHost(r) \subseteq {"site_id"}
BY DEF Claims, applyAuthClaims, SiteOfHost

\* A handler hears no key the request has not.
LEMMA HeardIsSaid ==
  ASSUME NEW h, NEW r
  PROVE  Heard(h, r) \subseteq r.keys
BY DEF Heard, Found, requestData

\* What a handler makes of its call is an answer that the call bears out.
LEMMA OutcomeFits ==
  ASSUME call \in Calls, call \notin {"none", "sent"}
  PROVE  /\ Outcome \in {"failed", "told no", "success"}
         /\ Outcome = "success" =>
              call = "replied" \/ (call = "declined" /\ handler.verdict = "ignored")
         /\ Outcome = "told no" => call = "declined"
<1>1. CASE call \in {"broken", "expired"}
  BY <1>1 DEF Outcome
<1>2. CASE call = "replied"
  BY <1>2 DEF Outcome
<1>3. CASE call = "declined"
  <2>1. Outcome = CASE handler.verdict = "ignored" -> "success"
                    [] handler.verdict = "shown" -> "told no"
                    [] OTHER -> "failed"
    BY <1>3 DEF Outcome
  <2>2. QED
    BY <1>3, <2>1
<1>4. QED
  BY <1>1, <1>2, <1>3 DEF Calls
-----------------------------------------------------------------------------
(* Suffixes of paths: what the last segments of a path are. *)
LEMMA ReverseIs ==
  ASSUME NEW S, NEW s \in Seq(S)
  PROVE  /\ Reverse(s) \in Seq(S) /\ Len(Reverse(s)) = Len(s)
         /\ \A i \in 1..Len(s) : Reverse(s)[i] = s[(Len(s) - i) + 1]
  BY DEF Reverse

LEMMA SuffixIs ==
  ASSUME NEW S, NEW T, NEW s \in Seq(S), NEW p \in Seq(T), IsSuffix(s, p)
  PROVE  /\ Len(s) <= Len(p)
         /\ \A i \in 1..Len(s) : s[i] = p[Len(p) - Len(s) + i]
<1>1. Len(s) <= Len(p) /\ SubSeq(Reverse(s), 1, Len(s)) = SubSeq(Reverse(p), 1, Len(s))
  BY ReverseIs DEF IsSuffix, IsPrefix
<1>2. ASSUME NEW i \in 1..Len(s)
      PROVE  Reverse(s)[i] = Reverse(p)[i]
  <2>1. /\ SubSeq(Reverse(s), 1, Len(s))[i] = Reverse(s)[i]
        /\ SubSeq(Reverse(p), 1, Len(s))[i] = Reverse(p)[i]
    BY <1>1, ReverseIs
  <2>2. QED
    BY <2>1, <1>1
<1>3. ASSUME NEW i \in 1..Len(s)
      PROVE  s[i] = p[Len(p) - Len(s) + i]
  <2> DEFINE j == Len(s) - i + 1
  <2>1. /\ j \in 1..Len(s) /\ j \in 1..Len(p)
        /\ Len(s) - j + 1 = i /\ Len(p) - j + 1 = Len(p) - Len(s) + i
    BY <1>1
  <2>2. QED
    BY <2>1, <1>2, ReverseIs
<1>4. QED
  BY <1>1, <1>3

LEMMA OneSegment ==
  ASSUME NEW a, NEW T, NEW p \in Seq(T), IsSuffix(<<a>>, p)
  PROVE  Len(p) >= 1 /\ p[Len(p)] = a
<1> DEFINE s == <<a>>
           S == {a}
<1>1. s \in Seq(S) /\ Len(s) = 1 /\ s[1] = a
  OBVIOUS
<1> HIDE DEF s, S
<1>2. /\ Len(s) <= Len(p)
      /\ \A i \in 1..Len(s) : s[i] = p[Len(p) - Len(s) + i]
  <2>1. IsSuffix(s, p)
    BY DEF s
  <2>2. \A u \in Seq(S), q \in Seq(T) : IsSuffix(u, q) =>
          /\ Len(u) <= Len(q)
          /\ \A i \in 1..Len(u) : u[i] = q[Len(q) - Len(u) + i]
    BY SuffixIs
  <2>3. QED
    BY <1>1, <2>1, <2>2
<1>3. s[1] = p[Len(p) - 1 + 1]
  BY <1>1, <1>2
<1>4. QED
  BY <1>1, <1>2, <1>3

LEMMA TwoSegments ==
  ASSUME NEW a, NEW b, NEW T, NEW p \in Seq(T), IsSuffix(<<a, b>>, p)
  PROVE  Len(p) >= 2 /\ p[Len(p) - 1] = a /\ p[Len(p)] = b
<1> DEFINE s == <<a, b>>
           S == {a, b}
<1>1. s \in Seq(S) /\ Len(s) = 2 /\ s[1] = a /\ s[2] = b
  OBVIOUS
<1> HIDE DEF s, S
<1>2. /\ Len(s) <= Len(p)
      /\ \A i \in 1..Len(s) : s[i] = p[Len(p) - Len(s) + i]
  <2>1. IsSuffix(s, p)
    BY DEF s
  <2>2. \A u \in Seq(S), q \in Seq(T) : IsSuffix(u, q) =>
          /\ Len(u) <= Len(q)
          /\ \A i \in 1..Len(u) : u[i] = q[Len(q) - Len(u) + i]
    BY SuffixIs
  <2>3. QED
    BY <1>1, <2>1, <2>2
<1>3. s[1] = p[Len(p) - 2 + 1] /\ s[2] = p[Len(p) - 2 + 2]
  BY <1>1, <1>2
<1>4. QED
  BY <1>1, <1>2, <1>3
-----------------------------------------------------------------------------
(* The tables of routes.  A registry is walked in any order, so no two of its keys may match one
   request: the keys have one or two segments, and two keys for one method that end in the same
   segment are the same, unless both have two and differ in the first. *)
Short(R) == \A t \in R : \/ t.suffix = <<t.suffix[1]>>
                          \/ t.suffix = <<t.suffix[1], t.suffix[2]>>
Apart(R) == \A t, u \in R :
  /\ t.method = u.method
  /\ t.suffix[Len(t.suffix)] = u.suffix[Len(u.suffix)]
  /\ Len(t.suffix) = 2 /\ Len(u.suffix) = 2 => t.suffix[1] = u.suffix[1]
  => t = u

(* What a route has to be like for its handler to hear what a client says.  The kinds of
   handlers: one that hears every key, in every carrier it looks at; one for POST only, which
   may hear numbers from JSON alone; one that looks at the query alone; one that asks nothing;
   and the one that takes a file. *)
HearsAll(h) == h.reads \in {"any", "body"} /\ h.numbers = {} /\ h.rpc # "none"
Posted(h) == h.reads \in {"any", "body", "data"} /\ h.rpc # "none"
Asks(h) == h.reads = "query" /\ h.numbers = {} /\ h.rpc # "none"
Mute(h) == h.reads = "none" /\ h.needs = {} /\ DOMAIN h.takes = {} /\ h.rpc # "none"
TakesFile(h) == h.reads = "file" /\ h.needs # {} /\ h.numbers = {} /\ h.rpc # "none"

Suits(t) ==
  \/ HearsAll(t.handler)
  \/ Posted(t.handler) /\ t.method = "POST"
  \/ Asks(t.handler) /\ t.method = "GET"
  \/ Mute(t.handler)
  \/ TakesFile(t.handler) /\ t.method = "POST" /\ t.suffix = <<"upload-image">>

\* RequestParser leaves the data of an upload alone, so no other handler may stand on its paths.
UploadNames == {"upload-image", "upload-file", "upload"}
Uploads(t) ==
  TakesFile(t.handler) \/ \E n \in {1, 2} : n = Len(t.suffix) /\ t.suffix[n] \notin UploadNames

Fits(R) == \A t \in R : Suits(t) /\ Uploads(t)

LEMMA ManageFits == Fits(manageRoutes)
<1> USE DEF HearsAll, Posted, Asks, Mute, TakesFile, Manage!FromBody, Manage!FromAny, Manage!Bare,
     Manage!Needing, Manage!Numbers, Manage!Checking, Manage!Taking, Manage!TakingAll,
     Manage!LeavingOut, Manage!Reading
<1>1. /\ HearsAll(Manage!CallManageAdminLogin) /\ HearsAll(Manage!CallManageAdminList)
      /\ HearsAll(Manage!CallManageCreateAdmin) /\ HearsAll(Manage!CallManageUpdateAdmin)
      /\ HearsAll(Manage!CallManageDeleteAdmin) /\ HearsAll(Manage!CallManageGenerateGoogle2FA)
      /\ HearsAll(Manage!CallManageBindGoogle2FA) /\ HearsAll(Manage!CallManageRoleList)
      /\ HearsAll(Manage!CallManageCreateRole) /\ HearsAll(Manage!CallManageUpdateRole)
      /\ HearsAll(Manage!CallManageDeleteRole) /\ HearsAll(Manage!CallGetCustomerDetail)
      /\ HearsAll(Manage!CallUpdateCustomer) /\ HearsAll(Manage!CallDeleteCustomer)
      /\ HearsAll(Manage!CallPublishCustomer) /\ HearsAll(Manage!CallRollbackCustomer)
      /\ HearsAll(Manage!CallGetCustomerVersionHistory) /\ HearsAll(Manage!CallGetGameList)
      /\ HearsAll(Manage!CallGetGameDetail) /\ HearsAll(Manage!CallCreateGame)
      /\ HearsAll(Manage!CallUpdateGame) /\ HearsAll(Manage!CallDeleteGame)
      /\ HearsAll(Manage!CallSupplementBetRecords) /\ HearsAll(Manage!CallManageGetSyncTasks)
      /\ HearsAll(Manage!CallGetActivityList) /\ HearsAll(Manage!CallGetActivityDetail)
      /\ HearsAll(Manage!CallCreateActivity) /\ HearsAll(Manage!CallUpdateActivity)
      /\ HearsAll(Manage!CallDeleteActivity) /\ HearsAll(Manage!CallGetPaymentList)
      /\ HearsAll(Manage!CallGetPaymentDetail) /\ HearsAll(Manage!CallCreatePayment)
      /\ HearsAll(Manage!CallUpdatePayment) /\ HearsAll(Manage!CallDeletePayment)
      /\ HearsAll(Manage!CallGetWithdrawList) /\ HearsAll(Manage!CallGetWithdrawDetail)
      /\ HearsAll(Manage!CallCreateWithdraw) /\ HearsAll(Manage!CallUpdateWithdraw)
      /\ HearsAll(Manage!CallDeleteWithdraw) /\ HearsAll(Manage!CallGetSiteGameList)
      /\ HearsAll(Manage!CallUpdateSiteGameStatus) /\ HearsAll(Manage!CallBindSiteGame)
      /\ HearsAll(Manage!CallUnbindSiteGame) /\ HearsAll(Manage!CallGetSitePaymentList)
      /\ HearsAll(Manage!CallUpdateSitePaymentStatus) /\ HearsAll(Manage!CallBindSitePayment)
      /\ HearsAll(Manage!CallUnbindSitePayment) /\ HearsAll(Manage!CallGetSiteActivityList)
      /\ HearsAll(Manage!CallUpdateSiteActivityStatus) /\ HearsAll(Manage!CallBindSiteActivity)
      /\ HearsAll(Manage!CallUnbindSiteActivity) /\ HearsAll(Manage!CallGetSiteWithdrawList)
      /\ HearsAll(Manage!CallUpdateSiteWithdrawStatus) /\ HearsAll(Manage!CallBindSiteWithdraw)
      /\ HearsAll(Manage!CallUnbindSiteWithdraw) /\ HearsAll(Manage!CallGetSiteDomainList)
      /\ HearsAll(Manage!CallCreateSiteDomain) /\ HearsAll(Manage!CallUpdateSiteDomain)
      /\ HearsAll(Manage!CallDeleteSiteDomain)
  BY DEF Manage!CallManageAdminLogin, Manage!CallManageAdminList, Manage!CallManageCreateAdmin,
     Manage!CallManageUpdateAdmin, Manage!CallManageDeleteAdmin,
     Manage!CallManageGenerateGoogle2FA, Manage!CallManageBindGoogle2FA,
     Manage!CallManageRoleList, Manage!CallManageCreateRole, Manage!CallManageUpdateRole,
     Manage!CallManageDeleteRole, Manage!CallGetCustomerDetail, Manage!CallUpdateCustomer,
     Manage!CallDeleteCustomer, Manage!CallPublishCustomer, Manage!CallRollbackCustomer,
     Manage!CallGetCustomerVersionHistory, Manage!CallGetGameList, Manage!CallGetGameDetail,
     Manage!CallCreateGame, Manage!CallUpdateGame, Manage!CallDeleteGame,
     Manage!CallSupplementBetRecords, Manage!CallManageGetSyncTasks, Manage!CallGetActivityList,
     Manage!CallGetActivityDetail, Manage!CallCreateActivity, Manage!CallUpdateActivity,
     Manage!CallDeleteActivity, Manage!CallGetPaymentList, Manage!CallGetPaymentDetail,
     Manage!CallCreatePayment, Manage!CallUpdatePayment, Manage!CallDeletePayment,
     Manage!CallGetWithdrawList, Manage!CallGetWithdrawDetail, Manage!CallCreateWithdraw,
     Manage!CallUpdateWithdraw, Manage!CallDeleteWithdraw, Manage!CallGetSiteGameList,
     Manage!CallUpdateSiteGameStatus, Manage!CallBindSiteGame, Manage!CallUnbindSiteGame,
     Manage!CallGetSitePaymentList, Manage!CallUpdateSitePaymentStatus,
     Manage!CallBindSitePayment, Manage!CallUnbindSitePayment, Manage!CallGetSiteActivityList,
     Manage!CallUpdateSiteActivityStatus, Manage!CallBindSiteActivity,
     Manage!CallUnbindSiteActivity, Manage!CallGetSiteWithdrawList,
     Manage!CallUpdateSiteWithdrawStatus, Manage!CallBindSiteWithdraw,
     Manage!CallUnbindSiteWithdraw, Manage!CallGetSiteDomainList, Manage!CallCreateSiteDomain,
     Manage!CallUpdateSiteDomain, Manage!CallDeleteSiteDomain
<1>2. Posted(Manage!CallSyncCustomer)
  BY DEF Manage!CallSyncCustomer
<1>3. /\ Mute(Manage!CallManageAdminRefreshToken) /\ Mute(Manage!CallManageAdminGetInfo)
      /\ Mute(Manage!CallManageAdminLogout) /\ Mute(Manage!CallManageAdminMenus)
      /\ Mute(Manage!CallManageAdminRoleOptions) /\ Mute(Manage!CallGetCustomerList)
      /\ Mute(Manage!CallGetDomainTypeOptions) /\ Mute(Manage!CallGetSiteOptions)
  BY DEF Manage!CallManageAdminRefreshToken, Manage!CallManageAdminGetInfo,
     Manage!CallManageAdminLogout, Manage!CallManageAdminMenus, Manage!CallManageAdminRoleOptions,
     Manage!CallGetCustomerList, Manage!CallGetDomainTypeOptions, Manage!CallGetSiteOptions
<1> HIDE DEF HearsAll, Posted, Asks, Mute, TakesFile
<1>4. \A t \in manageRoutes : Suits(t)
  BY <1>1, <1>2, <1>3 DEF Suits, manageRoutes, Manage!manageRoutes, Manage!Route
<1>5. \A t \in manageRoutes : Uploads(t)
  BY <1>1, <1>2, <1>3 DEF Uploads, UploadNames, manageRoutes, Manage!manageRoutes, Manage!Route
<1>6. QED
  BY <1>4, <1>5 DEF Fits

LEMMA BackendFits == Fits(backendRoutes)
<1> USE DEF HearsAll, Posted, Asks, Mute, TakesFile, Backend!FromBody, Backend!FromData,
     Backend!FromQuery, Backend!FromAny, Backend!FromFile, Backend!Bare, Backend!Needing,
     Backend!NeedingOrFailing, Backend!Numbers, Backend!Checking, Backend!Silent,
     Backend!LeavingOut, Backend!Taking, Backend!TakingAll, Backend!Reading
<1>1. /\ HearsAll(Backend!CallAdminLogin) /\ HearsAll(Backend!CallGetAdminList)
      /\ HearsAll(Backend!CallGenerateGoogle2FA) /\ HearsAll(Backend!CallBindGoogle2FA)
      /\ HearsAll(Backend!CallAdminChangePassword) /\ HearsAll(Backend!CallGetBasicSetting)
      /\ HearsAll(Backend!CallUpdateBasicSetting) /\ HearsAll(Backend!CallGetSiteActivityList)
      /\ HearsAll(Backend!CallGetSiteActivityParams)
      /\ HearsAll(Backend!CallUpdateSiteActivity) /\ HearsAll(Backend!CallGetRoleList)
      /\ HearsAll(Backend!CallGetPermissions) /\ HearsAll(Backend!CallGetAdminLogs)
      /\ HearsAll(Backend!CallGetUserList) /\ HearsAll(Backend!CallUpdateUser)
      /\ HearsAll(Backend!CallGetUserBasicInfo) /\ HearsAll(Backend!CallGetUserGrades)
      /\ HearsAll(Backend!CallDeleteUserGrades) /\ HearsAll(Backend!CallGetUserLoginLogs)
  BY DEF Backend!CallAdminLogin, Backend!CallGetAdminList, Backend!CallGenerateGoogle2FA,
     Backend!CallBindGoogle2FA, Backend!CallAdminChangePassword, Backend!CallGetBasicSetting,
     Backend!CallUpdateBasicSetting, Backend!CallGetSiteActivityList,
     Backend!CallGetSiteActivityParams, Backend!CallUpdateSiteActivity, Backend!CallGetRoleList,
     Backend!CallGetPermissions, Backend!CallGetAdminLogs, Backend!CallGetUserList,
     Backend!CallUpdateUser, Backend!CallGetUserBasicInfo, Backend!CallGetUserGrades,
     Backend!CallDeleteUserGrades, Backend!CallGetUserLoginLogs
<1>2. /\ Posted(Backend!CallAdminCreate) /\ Posted(Backend!CallUpdateAdmin)
      /\ Posted(Backend!CallDeleteAdmin) /\ Posted(Backend!CallCreateRole)
      /\ Posted(Backend!CallUpdateRole) /\ Posted(Backend!CallDeleteRole)
      /\ Posted(Backend!CallSavePermission) /\ Posted(Backend!CallSaveUserGrades)
      /\ Posted(Backend!CallCreateMessage) /\ Posted(Backend!CallUpdateMessage)
      /\ Posted(Backend!CallDeleteMessage) /\ Posted(Backend!CallReadMessage)
      /\ Posted(Backend!CallCreateAd) /\ Posted(Backend!CallUpdateAd)
      /\ Posted(Backend!CallDeleteAd) /\ Posted(Backend!CallCreateAgent)
      /\ Posted(Backend!CallUpdateAgent) /\ Posted(Backend!CallDeleteAgent)
      /\ Posted(Backend!CallCreateAgentDomain) /\ Posted(Backend!CallUpdateAgentDomain)
      /\ Posted(Backend!CallDeleteAgentDomain) /\ Posted(Backend!CallCalcAgentSettlementDaily)
      /\ Posted(Backend!CallSettleAgentSettlementDaily)
      /\ Posted(Backend!CallSettleAgentSettlementBatch) /\ Posted(Backend!CallCreateNotice)
      /\ Posted(Backend!CallUpdateNotice) /\ Posted(Backend!CallDeleteNotice)
  BY DEF Backend!CallAdminCreate, Backend!CallUpdateAdmin, Backend!CallDeleteAdmin,
     Backend!CallCreateRole, Backend!CallUpdateRole, Backend!CallDeleteRole,
     Backend!CallSavePermission, Backend!CallSaveUserGrades, Backend!CallCreateMessage,
     Backend!CallUpdateMessage, Backend!CallDeleteMessage, Backend!CallReadMessage,
     Backend!CallCreateAd, Backend!CallUpdateAd, Backend!CallDeleteAd, Backend!CallCreateAgent,
     Backend!CallUpdateAgent, Backend!CallDeleteAgent, Backend!CallCreateAgentDomain,
     Backend!CallUpdateAgentDomain, Backend!CallDeleteAgentDomain,
     Backend!CallCalcAgentSettlementDaily, Backend!CallSettleAgentSettlementDaily,
     Backend!CallSettleAgentSettlementBatch, Backend!CallCreateNotice, Backend!CallUpdateNotice,
     Backend!CallDeleteNotice
<1>3. /\ Asks(Backend!CallGetMessageList) /\ Asks(Backend!CallGetUserMessages)
      /\ Asks(Backend!CallGetUnreadCount) /\ Asks(Backend!CallGetAdList)
      /\ Asks(Backend!CallGetAgentList) /\ Asks(Backend!CallGetAgentDomainList)
      /\ Asks(Backend!CallGetAgentSettlementDailyList) /\ Asks(Backend!CallGetNoticeList)
  BY DEF Backend!CallGetMessageList, Backend!CallGetUserMessages, Backend!CallGetUnreadCount,
     Backend!CallGetAdList, Backend!CallGetAgentList, Backend!CallGetAgentDomainList,
     Backend!CallGetAgentSettlementDailyList, Backend!CallGetNoticeList
<1>4. /\ Mute(Backend!CallAdminRefreshToken) /\ Mute(Backend!CallGetInfo)
      /\ Mute(Backend!CallMenus) /\ Mute(Backend!CallAdminLogout)
      /\ Mute(Backend!CallGetAgentListOptions) /\ Mute(Backend!CallGetUserGradeOptions)
      /\ Mute(Backend!CallGetAdminRoleOptions)
  BY DEF Backend!CallAdminRefreshToken, Backend!CallGetInfo, Backend!CallMenus,
     Backend!CallAdminLogout, Backend!CallGetAgentListOptions, Backend!CallGetUserGradeOptions,
     Backend!CallGetAdminRoleOptions
<1>5. TakesFile(Backend!CallUploadImage)
  BY DEF Backend!CallUploadImage
<1> HIDE DEF HearsAll, Posted, Asks, Mute, TakesFile
<1>6. \A t \in backendRoutes : Suits(t)
  BY <1>1, <1>2, <1>3, <1>4, <1>5 DEF Suits, backendRoutes, Backend!backendRoutes, Backend!Route
<1>7. \A t \in backendRoutes : Uploads(t)
  BY <1>1, <1>2, <1>3, <1>4, <1>5
     DEF Uploads, UploadNames, backendRoutes, Backend!backendRoutes, Backend!Route
<1>8. QED
  BY <1>6, <1>7 DEF Fits

LEMMA FrontendFits == Fits(frontendRoutes)
<1> USE DEF HearsAll, Posted, Asks, Mute, TakesFile, Frontend!FromBody, Frontend!FromQuery,
     Frontend!FromAny, Frontend!Bare, Frontend!Needing, Frontend!LeavingOut, Frontend!Reading
<1>1. /\ HearsAll(Frontend!CallUserRegister) /\ HearsAll(Frontend!CallUserLogin)
      /\ HearsAll(Frontend!CallGenerateCaptcha) /\ HearsAll(Frontend!CallRefreshToken)
      /\ HearsAll(Frontend!CallBindEmail) /\ HearsAll(Frontend!CallBindMobile)
      /\ HearsAll(Frontend!CallChangeLoginPassword) /\ HearsAll(Frontend!CallBindLoginPassword)
      /\ HearsAll(Frontend!CallSetPayPassword) /\ HearsAll(Frontend!CallVerifyPayPassword)
      /\ HearsAll(Frontend!CallChangePayPassword) /\ HearsAll(Frontend!CallGetInviteList)
      /\ HearsAll(Frontend!CallGetAppNoticeList) /\ HearsAll(Frontend!CallGetAppAdList)
      /\ HearsAll(Frontend!CallGetSiteActivityList) /\ HearsAll(Frontend!CallReadMessage)
  BY DEF Frontend!CallUserRegister, Frontend!CallUserLogin, Frontend!CallGenerateCaptcha,
     Frontend!CallRefreshToken, Frontend!CallBindEmail, Frontend!CallBindMobile,
     Frontend!CallChangeLoginPassword, Frontend!CallBindLoginPassword,
     Frontend!CallSetPayPassword, Frontend!CallVerifyPayPassword, Frontend!CallChangePayPassword,
     Frontend!CallGetInviteList, Frontend!CallGetAppNoticeList, Frontend!CallGetAppAdList,
     Frontend!CallGetSiteActivityList, Frontend!CallReadMessage
<1>2. Asks(Frontend!CallGetUserMessages)
  BY DEF Frontend!CallGetUserMessages
<1>3. /\ Mute(Frontend!CallGetUserInfo) /\ Mute(Frontend!CallUserLogout)
      /\ Mute(Frontend!CallGetAppGradeList) /\ Mute(Frontend!CallGetSiteSetting)
      /\ Mute(Frontend!CallGetUnreadCount)
  BY DEF Frontend!CallGetUserInfo, Frontend!CallUserLogout, Frontend!CallGetAppGradeList,
     Frontend!CallGetSiteSetting, Frontend!CallGetUnreadCount
<1> HIDE DEF HearsAll, Posted, Asks, Mute, TakesFile
<1>4. \A t \in frontendRoutes : Suits(t)
  BY <1>1, <1>2, <1>3 DEF Suits, frontendRoutes, Frontend!frontendRoutes, Frontend!Route
<1>5. \A t \in frontendRoutes : Uploads(t)
  BY <1>1, <1>2, <1>3
     DEF Uploads, UploadNames, frontendRoutes, Frontend!frontendRoutes, Frontend!Route
<1>6. QED
  BY <1>4, <1>5 DEF Fits

LEMMA BalanceFits == Fits(balanceRoutes)
<1> USE DEF HearsAll, Posted, Asks, Mute, TakesFile, Balance!FromBody, Balance!FromAny,
     Balance!Bare, Balance!Needing, Balance!LeavingOut, Balance!Reading
<1>1. /\ HearsAll(Balance!CallAddBankCard) /\ HearsAll(Balance!CallDeleteBankCard)
      /\ HearsAll(Balance!CallSetDefaultBankCard) /\ HearsAll(Balance!CallCreateDepositOrder)
      /\ HearsAll(Balance!CallGetBalanceLog) /\ HearsAll(Balance!CallGetUserFlowRequirements)
      /\ HearsAll(Balance!CallDepositCallback) /\ HearsAll(Balance!CallWithdraw)
      /\ HearsAll(Balance!CallGetLuckySpinRecords)
      /\ HearsAll(Balance!CallGetLuckySpinRecentWinners)
      /\ HearsAll(Balance!CallGetDepositBonusRecentWinners)
      /\ HearsAll(Balance!CallGetRegisterBonusRecentWinners)
      /\ HearsAll(Balance!CallGetBalanceChanges) /\ HearsAll(Balance!CallGetLuckyBonusRecords)
      /\ HearsAll(Balance!CallGetDepositBonusRecords)
      /\ HearsAll(Balance!CallGetRegisterBonusRecords)
      /\ HearsAll(Balance!CallGetInviteBonusRecords)
      /\ HearsAll(Balance!CallGetSigninBonusRecords)
      /\ HearsAll(Balance!CallGetRechargePayments) /\ HearsAll(Balance!CallGetRechargeManuals)
      /\ HearsAll(Balance!CallConfirmPaymentOrder) /\ HearsAll(Balance!CallGetWithdraws)
      /\ HearsAll(Balance!CallGetWithdrawManuals) /\ HearsAll(Balance!CallGetWithdrawReview)
      /\ HearsAll(Balance!CallDealWithWithdraw) /\ HearsAll(Balance!CallQueryUserBalance)
      /\ HearsAll(Balance!CallQueryGameBalance) /\ HearsAll(Balance!CallManualUserBalance)
      /\ HearsAll(Balance!CallGetSitePayments) /\ HearsAll(Balance!CallUpdateSitePayment)
      /\ HearsAll(Balance!CallGetSiteWithdraws) /\ HearsAll(Balance!CallUpdateSiteWithdraw)
      /\ HearsAll(Balance!CallGetFlowRules) /\ HearsAll(Balance!CallGetFlowRule)
      /\ HearsAll(Balance!CallCreateFlowRule) /\ HearsAll(Balance!CallUpdateFlowRule)
      /\ HearsAll(Balance!CallDeleteFlowRule) /\ HearsAll(Balance!CallGetFlowRequirements)
      /\ HearsAll(Balance!CallUpdateFlowRequirement)
  BY DEF Balance!CallAddBankCard, Balance!CallDeleteBankCard, Balance!CallSetDefaultBankCard,
     Balance!CallCreateDepositOrder, Balance!CallGetBalanceLog,
     Balance!CallGetUserFlowRequirements, Balance!CallDepositCallback, Balance!CallWithdraw,
     Balance!CallGetLuckySpinRecords, Balance!CallGetLuckySpinRecentWinners,
     Balance!CallGetDepositBonusRecentWinners, Balance!CallGetRegisterBonusRecentWinners,
     Balance!CallGetBalanceChanges, Balance!CallGetLuckyBonusRecords,
     Balance!CallGetDepositBonusRecords, Balance!CallGetRegisterBonusRecords,
     Balance!CallGetInviteBonusRecords, Balance!CallGetSigninBonusRecords,
     Balance!CallGetRechargePayments, Balance!CallGetRechargeManuals,
     Balance!CallConfirmPaymentOrder, Balance!CallGetWithdraws, Balance!CallGetWithdrawManuals,
     Balance!CallGetWithdrawReview, Balance!CallDealWithWithdraw, Balance!CallQueryUserBalance,
     Balance!CallQueryGameBalance, Balance!CallManualUserBalance, Balance!CallGetSitePayments,
     Balance!CallUpdateSitePayment, Balance!CallGetSiteWithdraws, Balance!CallUpdateSiteWithdraw,
     Balance!CallGetFlowRules, Balance!CallGetFlowRule, Balance!CallCreateFlowRule,
     Balance!CallUpdateFlowRule, Balance!CallDeleteFlowRule, Balance!CallGetFlowRequirements,
     Balance!CallUpdateFlowRequirement
<1>2. /\ Mute(Balance!CallRefreshBalance) /\ Mute(Balance!CallGetPaymentList)
      /\ Mute(Balance!CallGetWithdrawList) /\ Mute(Balance!CallGetBankCardList)
      /\ Mute(Balance!CallGetDepositNonce) /\ Mute(Balance!CallGetWithdrawNonce)
      /\ Mute(Balance!CallGetVipUpgradeProgress) /\ Mute(Balance!CallGetSigninActivityInfo)
      /\ Mute(Balance!CallClaimSigninReward) /\ Mute(Balance!CallGetLuckySpinInfo)
      /\ Mute(Balance!CallLuckySpin) /\ Mute(Balance!CallWashCodeRebate)
      /\ Mute(Balance!CallGetChangeOptions) /\ Mute(Balance!CallGetManualList)
      /\ Mute(Balance!CallGetFlowOptions)
  BY DEF Balance!CallRefreshBalance, Balance!CallGetPaymentList, Balance!CallGetWithdrawList,
     Balance!CallGetBankCardList, Balance!CallGetDepositNonce, Balance!CallGetWithdrawNonce,
     Balance!CallGetVipUpgradeProgress, Balance!CallGetSigninActivityInfo,
     Balance!CallClaimSigninReward, Balance!CallGetLuckySpinInfo, Balance!CallLuckySpin,
     Balance!CallWashCodeRebate, Balance!CallGetChangeOptions, Balance!CallGetManualList,
     Balance!CallGetFlowOptions
<1> HIDE DEF HearsAll, Posted, Asks, Mute, TakesFile
<1>3. \A t \in balanceRoutes : Suits(t)
  BY <1>1, <1>2 DEF Suits, balanceRoutes, Balance!balanceRoutes, Balance!Route
<1>4. \A t \in balanceRoutes : Uploads(t)
  BY <1>1, <1>2 DEF Uploads, UploadNames, balanceRoutes, Balance!balanceRoutes, Balance!Route
<1>5. QED
  BY <1>3, <1>4 DEF Fits

LEMMA GameFits == Fits(gameRoutes)
<1> USE DEF HearsAll, Posted, Asks, Mute, TakesFile, Game!FromBody, Game!FromData, Game!FromAny,
     Game!Bare, Game!Needing, Game!Numbers, Game!LeavingOut, Game!Taking, Game!TakingAll,
     Game!Reading
<1>1. /\ HearsAll(Game!CallGetGames) /\ HearsAll(Game!CallRedirectToGame)
      /\ HearsAll(Game!CallGetGameCategories) /\ HearsAll(Game!CallGetFrontendGameList)
      /\ HearsAll(Game!CallGetBackendGameList) /\ HearsAll(Game!CallUpdateBackendGameListItem)
      /\ HearsAll(Game!CallGetGamePlatforms) /\ HearsAll(Game!CallGetUserBetHistory)
      /\ HearsAll(Game!CallGetWashCodeQuota)
  BY DEF Game!CallGetGames, Game!CallRedirectToGame, Game!CallGetGameCategories,
     Game!CallGetFrontendGameList, Game!CallGetBackendGameList,
     Game!CallUpdateBackendGameListItem, Game!CallGetGamePlatforms, Game!CallGetUserBetHistory,
     Game!CallGetWashCodeQuota
<1>2. /\ Posted(Game!CallUpdateGames) /\ Posted(Game!CallGetGameRecords)
      /\ Posted(Game!CallToggleFavoriteGame)
  BY DEF Game!CallUpdateGames, Game!CallGetGameRecords, Game!CallToggleFavoriteGame
<1>3. /\ Mute(Game!CallGetFavoriteGameList) /\ Mute(Game!CallRecallGameBalance)
  BY DEF Game!CallGetFavoriteGameList, Game!CallRecallGameBalance
<1> HIDE DEF HearsAll, Posted, Asks, Mute, TakesFile
<1>4. \A t \in gameRoutes : Suits(t)
  BY <1>1, <1>2, <1>3 DEF Suits, gameRoutes, Game!gameRoutes, Game!Route
<1>5. \A t \in gameRoutes : Uploads(t)
  BY <1>1, <1>2, <1>3 DEF Uploads, UploadNames, gameRoutes, Game!gameRoutes, Game!Route
<1>6. QED
  BY <1>4, <1>5 DEF Fits

LEMMA ShortTables ==
  /\ Short(manageRoutes) /\ Short(backendRoutes) /\ Short(frontendRoutes)
  /\ Short(balanceRoutes) /\ Short(gameRoutes)
<1>1. Short(manageRoutes)
  BY DEF Short, manageRoutes, Manage!manageRoutes, Manage!Route
<1>2. Short(backendRoutes)
  BY DEF Short, backendRoutes, Backend!backendRoutes, Backend!Route
<1>3. Short(frontendRoutes)
  BY DEF Short, frontendRoutes, Frontend!frontendRoutes, Frontend!Route
<1>4. Short(balanceRoutes)
  BY DEF Short, balanceRoutes, Balance!balanceRoutes, Balance!Route
<1>5. Short(gameRoutes)
  BY DEF Short, gameRoutes, Game!gameRoutes, Game!Route
<1>6. QED
  BY <1>1, <1>2, <1>3, <1>4, <1>5

LEMMA ApartTables ==
  /\ Apart(manageRoutes) /\ Apart(backendRoutes) /\ Apart(frontendRoutes)
  /\ Apart(balanceRoutes) /\ Apart(gameRoutes)
<1>1. Apart(manageRoutes)
  BY SMTT(60) DEF Apart, manageRoutes, Manage!manageRoutes, Manage!Route
<1>2. Apart(backendRoutes)
  BY SMTT(60) DEF Apart, backendRoutes, Backend!backendRoutes, Backend!Route
<1>3. Apart(frontendRoutes)
  BY DEF Apart, frontendRoutes, Frontend!frontendRoutes, Frontend!Route
<1>4. Apart(balanceRoutes)
  BY SMTT(60) DEF Apart, balanceRoutes, Balance!balanceRoutes, Balance!Route
<1>5. Apart(gameRoutes)
  BY DEF Apart, gameRoutes, Game!gameRoutes, Game!Route
<1>6. QED
  BY <1>1, <1>2, <1>3, <1>4, <1>5

\* What holds of the five tables holds of the registry the dispatcher chooses.
LEMMA Registries ==
  ASSUME NEW s \in Services, NEW r
  PROVE  Short(Registry(s, r)) /\ Apart(Registry(s, r)) /\ Fits(Registry(s, r))
BY ShortTables, ApartTables, ManageFits, BackendFits, FrontendFits, BalanceFits, GameFits
   DEF Registry, Services

\* The segments of a key that matches a path are the path's last ones.
LEMMA KeyOfPath ==
  ASSUME NEW T, NEW path \in Seq(T), NEW R, Short(R), NEW v \in R, IsSuffix(v.suffix, path)
  PROVE  /\ Len(v.suffix) \in {1, 2}
         /\ v.suffix[Len(v.suffix)] = path[Len(path)]
         /\ Len(v.suffix) = 2 => v.suffix[1] = path[Len(path) - 1]
<1>1. ASSUME NEW a, v.suffix = <<a>>
      PROVE  Len(v.suffix) = 1 /\ v.suffix[1] = path[Len(path)]
  BY <1>1, OneSegment
<1>2. ASSUME NEW a, NEW b, v.suffix = <<a, b>>
      PROVE  /\ Len(v.suffix) = 2 /\ v.suffix[2] = path[Len(path)]
             /\ v.suffix[1] = path[Len(path) - 1]
  BY <1>2, TwoSegments
<1>3. QED
  BY <1>1, <1>2 DEF Short

LEMMA OneMatches ==
  ASSUME NEW T, NEW path \in Seq(T), NEW R, Short(R), Apart(R), NEW t \in R, NEW u \in R,
         t.method = u.method, IsSuffix(t.suffix, path), IsSuffix(u.suffix, path)
  PROVE  t = u
BY KeyOfPath DEF Apart

\* Of the handlers that match, only the one that takes a file stands on an upload path.
LEMMA UploadRoute ==
  ASSUME NEW s \in Services, NEW r, IsRequest(r), NEW t \in Matching(s, r)
  PROVE  isFileUploadEndpoint(r.path) <=> TakesFile(t.handler)
<1> DEFINE R == Registry(s, r)
<1>1. t \in R /\ t.method = r.method /\ IsSuffix(t.suffix, r.path)
  BY DEF Matching, Matches
<1>2. Short(R) /\ Suits(t) /\ Uploads(t)
  BY <1>1, Registries DEF Fits
<1>3. r.path \in Seq(STRING)
  BY DEF IsRequest
<1>4. ASSUME isFileUploadEndpoint(r.path)
      PROVE  TakesFile(t.handler)
  <2>1. r.path[Len(r.path)] \in UploadNames
    BY <1>3, <1>4, OneSegment DEF isFileUploadEndpoint, EndsIn, UploadPaths, UploadNames
  <2>2. t.suffix[Len(t.suffix)] = r.path[Len(r.path)]
    BY <1>1, <1>2, <1>3, KeyOfPath
  <2>3. QED
    BY <1>2, <2>1, <2>2 DEF Uploads
<1>5. ASSUME TakesFile(t.handler)
      PROVE  isFileUploadEndpoint(r.path)
  <2>1. t.suffix = <<"upload-image">>
    BY <1>2, <1>5 DEF Suits, TakesFile, HearsAll, Posted, Asks, Mute
  <2>2. QED
    BY <1>1, <2>1 DEF isFileUploadEndpoint, EndsIn, UploadPaths
<1>6. QED
  BY <1>4, <1>5

\* A handler that refuses nothing finds whatever its fields are filled from.
LEMMA HandlerFinds ==
  ASSUME NEW s \in Services, NEW r, IsRequest(r), NEW t \in Matching(s, r),
         ~Refuses(t.handler, r), NEW f \in DOMAIN t.handler.takes,
         t.handler.takes[f] \in r.keys,
         ~(r.method = "POST" /\ r.carrier = "query" /\ t.handler.reads = "data")
  PROVE  t.handler.takes[f] \in Found(t.handler, r)
<1> DEFINE h == t.handler
<1> HIDE DEF h
<1>1. Suits(t) /\ t.method = r.method
  BY Registries DEF Matching, Matches, Fits
<1>2. r.carrier \in {"query", "form", "json"} /\ r.method \in {"GET", "POST"}
  BY DEF IsRequest
<1>3. CASE HearsAll(h) \/ (Posted(h) /\ t.method = "POST")
  <2>1. CASE h.reads = "any"
    BY <2>1 DEF Found, h
  <2>2. CASE h.reads = "data"
    <3>1. ~isFileUploadEndpoint(r.path)
      BY <2>2, UploadRoute DEF TakesFile, h
    <3>2. r.method = "POST" /\ r.carrier \in {"form", "json"}
      BY <1>1, <1>2, <1>3, <2>2 DEF HearsAll, h
    <3>3. QED
      BY <2>2, <3>1, <3>2 DEF Found, requestData, h
  <2>3. CASE h.reads = "body"
    <3>1. requestData(r) # {}
      BY <2>3 DEF Refuses, h
    <3>2. requestData(r) = r.keys
      BY <3>1 DEF requestData
    <3>3. QED
      BY <2>3, <3>2 DEF Found, h
  <2>4. QED
    BY <1>3, <2>1, <2>2, <2>3 DEF HearsAll, Posted
<1>4. CASE Asks(h) /\ t.method = "GET"
  BY <1>1, <1>4 DEF Asks, Found, h
<1>5. CASE Mute(h)
  BY <1>5 DEF Mute, h
<1>6. CASE TakesFile(h)
  <2>1. Found(h, r) # {}
    BY <1>6 DEF Refuses, Heard, TakesFile, h
  <2>2. QED
    BY <1>6, <2>1 DEF Found, TakesFile, h
<1>7. QED
  BY <1>1, <1>3, <1>4, <1>5, <1>6 DEF Suits, h

\* A handler that is sent what it needs, as documented, does not refuse it.
LEMMA HandlerAccepts ==
  ASSUME NEW s \in Services, NEW r, IsRequest(r), NEW t \in Matching(s, r), Documented(r),
         t.handler.reads = "body" => r.keys # {}, t.handler.needs \subseteq r.keys
  PROVE  ~Refuses(t.handler, r)
<1> DEFINE h == t.handler
<1> HIDE DEF h
<1>1. Suits(t) /\ t.method = r.method
  BY Registries DEF Matching, Matches, Fits
<1>2. /\ r.method \in {"GET", "POST"}
      /\ r.carrier = IF r.method = "GET" THEN "query"
                     ELSE IF isFileUploadEndpoint(r.path) THEN "form" ELSE "json"
  BY DEF IsRequest, Documented
<1>3. ~TakesFile(h) => r.carrier = (IF r.method = "GET" THEN "query" ELSE "json")
                       /\ requestData(r) = r.keys
  BY <1>2, UploadRoute DEF requestData, h
<1>4. CASE HearsAll(h) \/ (Posted(h) /\ t.method = "POST")
  <2>1. Found(h, r) = r.keys /\ h.reads \in {"any", "body", "data"} /\ ~TakesFile(h)
    BY <1>3, <1>4 DEF HearsAll, Posted, Found, TakesFile
  <2>2. Heard(h, r) = r.keys
    BY <1>1, <1>3, <1>4, <2>1 DEF Heard, HearsAll
  <2>3. QED
    BY <1>3, <2>1, <2>2 DEF Refuses, h
<1>5. CASE Asks(h) /\ t.method = "GET"
  BY <1>1, <1>5 DEF Asks, Refuses, Heard, Found, h
<1>6. CASE Mute(h)
  BY <1>6 DEF Mute, Refuses, h
<1>7. CASE TakesFile(h) /\ t.method = "POST"
  <2>1. r.carrier = "form"
    BY <1>1, <1>2, <1>7, UploadRoute DEF h
  <2>2. QED
    BY <1>7, <2>1 DEF TakesFile, Refuses, Heard, Found, h
<1>8. QED
  BY <1>1, <1>4, <1>5, <1>6, <1>7 DEF Suits, h

\* Where the dispatcher itself looks for keys, it finds all a documented request has.
LEMMA DispatcherFinds ==
  ASSUME NEW r, IsRequest(r), Documented(r), r.path \in OneSitePaths \cup GlobalReportPaths
  PROVE  requestData(r) = r.keys
<1> DEFINE Endings == {"recharge-payment", "withdraws", "user-login-logs", "global-report"}
<1>1. \A p \in OneSitePaths \cup GlobalReportPaths : Len(p) = 4 /\ p[4] \in Endings
  BY DEF OneSitePaths, GlobalReportPaths
<1>2. ~isFileUploadEndpoint(r.path)
  <2>1. \A a : IsSuffix(<<a>>, r.path) => r.path[Len(r.path)] = a
    BY OneSegment DEF IsRequest
  <2>2. {"upload-image", "upload-file", "upload"} \cap Endings = {}
    OBVIOUS
  <2>3. QED
    BY <1>1, <2>1, <2>2 DEF isFileUploadEndpoint, EndsIn, UploadPaths
<1>3. QED
  BY <1>2 DEF Documented, requestData

\* What the dispatcher turns away lacks something that its path asks for.
LEMMA LacksAreIncomplete ==
  ASSUME IsRequest(request), Documented(request), SiteOfHost(request) \subseteq told,
         \/ LacksSite(request)
         \/ determineService(request) = NoService
         \/ request.path \in GlobalReportPaths /\ LacksReportKeys(request)
  PROVE  Incomplete(request)
<1>1. (Len(request.path) = 2 \/ Len(request.path) > 2) /\ group(request) \in Groups
  <2>1. Len(request.path) \in Nat /\ Len(request.path) >= 2 /\ group(request) \in Groups
    BY DEF IsRequest, group
  <2>2. \A n \in Nat : n >= 2 => n = 2 \/ n > 2
    OBVIOUS
  <2>3. QED
    BY <2>1, <2>2
<1>2. CASE LacksSite(request)
  BY <1>2, DispatcherFinds DEF LacksSite, Incomplete
<1>3. CASE request.path \in GlobalReportPaths /\ LacksReportKeys(request)
  BY <1>3, DispatcherFinds DEF LacksReportKeys, SiteOfHost, Incomplete
<1>4. CASE determineService(request) = NoService
  <2>1. CASE group(request) = "manage"
    <3>1. CASE request.path \in OneSitePaths
      BY <1>4, <2>1, <3>1 DEF determineService, NoService
    <3>2. CASE request.path \notin OneSitePaths
      <4>1. determineManageService(request.path) = NoService
        BY <1>4, <2>1, <3>2 DEF determineService
      <4>2. ~(Len(request.path) > 2)
        BY <4>1 DEF determineManageService, NoService
      <4>3. QED
        BY <1>1, <2>1, <4>2 DEF Incomplete
    <3>3. QED
      BY <3>1, <3>2
  <2>2. CASE group(request) \in {"backend", "frontend"}
    <3>1. \E routes \in {backendServiceRoutes, frontendServiceRoutes} :
            ByPrefix(routes, request.path) = NoService
      BY <1>4, <2>2 DEF determineService, determineBackendService, determineFrontendService
    <3>2. ~(Len(request.path) > 2) \/ request.path[3] \notin {"app", "balance", "game"}
      BY <3>1, ServiceByPrefix
    <3>3. Len(request.path) = 2 \/ request.path[3] \notin {"app", "balance", "game"}
      BY <1>1, <3>2
    <3>4. QED
      BY <2>2, <3>3 DEF Incomplete
  <2>3. CASE group(request) \in {"balance", "game"}
    BY <1>4, <2>3 DEF determineService, NoService
  <2>4. QED
    BY <1>1, <2>1, <2>2, <2>3 DEF Groups
<1>5. QED
  BY <1>2, <1>3, <1>4

\* The handler a route leads to is a handler.
LEMMA RouteHasHandler ==
  ASSUME NEW s \in Services, NEW r, NEW t \in Matching(s, r)
  PROVE  t.handler # NoHandler
BY Registries DEF Matching, Matches, Fits, Suits, HearsAll, Posted, Asks, Mute, TakesFile, NoHandler
-----------------------------------------------------------------------------
\* The initial states satisfy the invariant.
LEMMA InitIInv == Init => IInv
<1> SUFFICES ASSUME Init PROVE IInv
  OBVIOUS
<1>1. Types
  <2>1. RequestType /\ StageType /\ AnswerType /\ LookupType
    BY DEF Init, RequestType, StageType, AnswerType, LookupType, Stages, Calls, Answers
  <2>2. ToldType /\ ServiceType /\ HandlerType /\ MarkType
    BY DEF Init, ToldType, ServiceType, HandlerType, MarkType
  <2>3. QueriesType
    BY DEF Init, QueriesType, ReportQueries
  <2>4. QED
    BY <2>1, <2>2, <2>3 DEF Types
<1>2. IsServed /\ InOrder
  BY DEF Init, IsServed, InOrder
<1>3. Checked /\ IdsKnown /\ Placed
  BY DEF Init, Checked, IdsKnown, Placed, Parsed, Known, Dispatched
<1>4. CallFits /\ ReportFits /\ AnswerFits /\ RefusalFits
  BY DEF Init, CallFits, ReportFits, AnswerFits, RefusalFits, ReportQueries
<1>5. QED
  BY <1>1, <1>2, <1>3, <1>4 DEF IInv
-----------------------------------------------------------------------------
(* The steps, one part of the invariant after the other: in each lemma the actions that could
   disturb the part have a step of their own, the others share one. *)

\* The types.
LEMMA StepRequestType == ASSUME IInv, [Next]_vars PROVE RequestType'
<1> USE DEF IInv, RequestType, Types
<1>1. ASSUME Receive
      PROVE  RequestType'
  BY <1>1, RequestsAssumption, ClaimsOfRequest DEF Receive
<1>2. CASE Depart
  BY <1>2 DEF Depart
<1>3. CASE CheckLimits \/ ParseRequest \/ Authenticate \/ DispatchReport \/ Dispatch \/ Discover
          \/ Connect \/ Handle \/ Deadline \/ Write \/ CheckReport \/ InitClickHouse \/
          QueryReport \/ LeaveBreaker \/ Perform \/ Reply \/ Decline \/ Break \/ UNCHANGED vars
  BY <1>3 DEF CheckLimits, ParseRequest, Authenticate, DispatchReport, Dispatch, Discover,
     Connect, Handle, Deadline, Write, CheckReport, InitClickHouse, QueryReport, LeaveBreaker,
     Perform, Reply, Decline, Break, EndsEarly, Answer, Reach, FailsToReach, CallEnds, served,
     vars
<1>4. QED
  BY <1>1, <1>2, <1>3 DEF Next, Steps, Waits, Downstream

LEMMA StepStageType == ASSUME IInv, [Next]_vars PROVE StageType'
<1> USE DEF IInv, StageType, Types, Stages, Calls
<1>1. ASSUME Receive
      PROVE  StageType'
  BY <1>1, RequestsAssumption, ClaimsOfRequest DEF Receive
<1>2. CASE Handle
  BY <1>2 DEF Handle, Answer
<1>3. CASE Reply
  BY <1>3 DEF Reply, CallEnds
<1>4. CASE Decline
  BY <1>4 DEF Decline, CallEnds
<1>5. CASE Break
  BY <1>5 DEF Break, CallEnds
<1>6. CASE Deadline
  BY <1>6 DEF Deadline, CallEnds
<1>7. CASE Depart
  BY <1>7 DEF Depart
<1>8. CASE CheckLimits \/ ParseRequest \/ Authenticate \/ DispatchReport \/ Dispatch \/ Discover
          \/ Connect \/ Write \/ CheckReport \/ InitClickHouse \/ QueryReport \/ LeaveBreaker \/
          Perform \/ UNCHANGED vars
  BY <1>8 DEF CheckLimits, ParseRequest, Authenticate, DispatchReport, Dispatch, Discover,
     Connect, Write, CheckReport, InitClickHouse, QueryReport, LeaveBreaker, Perform, EndsEarly,
     Answer, Reach, FailsToReach, served, vars
<1>9. QED
  BY <1>1, <1>2, <1>3, <1>4, <1>5, <1>6, <1>7, <1>8 DEF Next, Steps, Waits, Downstream

LEMMA StepAnswerType == ASSUME IInv, [Next]_vars PROVE AnswerType'
<1> USE DEF IInv, AnswerType, Types, Answers
<1>1. ASSUME Receive
      PROVE  AnswerType'
  BY <1>1, RequestsAssumption, ClaimsOfRequest DEF Receive
<1>2. CASE Write
  <2>1. Outcome \in {"failed", "told no", "success"}
    BY <1>2, OutcomeFits DEF Write, InOrder, StageType
  <2>2. QED
    BY <1>2, <2>1 DEF Write, Answer
<1>3. CASE Depart
  BY <1>3 DEF Depart
<1>4. CASE CheckLimits \/ ParseRequest \/ Authenticate \/ DispatchReport \/ Dispatch \/ Discover
          \/ Connect \/ Handle \/ Deadline \/ CheckReport \/ InitClickHouse \/ QueryReport \/
          LeaveBreaker \/ Perform \/ Reply \/ Decline \/ Break \/ UNCHANGED vars
  BY <1>4 DEF CheckLimits, ParseRequest, Authenticate, DispatchReport, Dispatch, Discover,
     Connect, Handle, Deadline, CheckReport, InitClickHouse, QueryReport, LeaveBreaker, Perform,
     Reply, Decline, Break, EndsEarly, Answer, Reach, FailsToReach, CallEnds, served, vars
<1>5. QED
  BY <1>1, <1>2, <1>3, <1>4 DEF Next, Steps, Waits, Downstream

LEMMA StepLookupType == ASSUME IInv, [Next]_vars PROVE LookupType'
<1> USE DEF IInv, LookupType, Types
<1>1. ASSUME Receive
      PROVE  LookupType'
  BY <1>1, RequestsAssumption, ClaimsOfRequest DEF Receive
<1>2. CASE Authenticate
  BY <1>2 DEF Authenticate, EndsEarly
<1>3. CASE InitClickHouse
  BY <1>3 DEF InitClickHouse, Answer, served
<1>4. CASE Depart
  BY <1>4 DEF Depart
<1>5. CASE CheckLimits \/ ParseRequest \/ DispatchReport \/ Dispatch \/ Discover \/ Connect \/
          Handle \/ Deadline \/ Write \/ CheckReport \/ QueryReport \/ LeaveBreaker \/ Perform
          \/ Reply \/ Decline \/ Break \/ UNCHANGED vars
  BY <1>5 DEF CheckLimits, ParseRequest, DispatchReport, Dispatch, Discover, Connect, Handle,
     Deadline, Write, CheckReport, QueryReport, LeaveBreaker, Perform, Reply, Decline, Break,
     EndsEarly, Answer, Reach, FailsToReach, CallEnds, served, vars
<1>6. QED
  BY <1>1, <1>2, <1>3, <1>4, <1>5 DEF Next, Steps, Waits, Downstream

LEMMA StepToldType == ASSUME IInv, [Next]_vars PROVE ToldType'
<1> USE DEF IInv, ToldType, Types
<1>1. ASSUME Receive
      PROVE  ToldType'
  BY <1>1, RequestsAssumption, ClaimsOfRequest DEF Receive
<1>2. CASE Authenticate
  BY <1>2, ClaimsOfRequest DEF Authenticate
<1>3. CASE Dispatch
  BY <1>3 DEF Dispatch, Answer
<1>4. CASE Depart
  BY <1>4 DEF Depart
<1>5. CASE CheckLimits \/ ParseRequest \/ DispatchReport \/ Discover \/ Connect \/ Handle \/
          Deadline \/ Write \/ CheckReport \/ InitClickHouse \/ QueryReport \/ LeaveBreaker \/
          Perform \/ Reply \/ Decline \/ Break \/ UNCHANGED vars
  BY <1>5 DEF CheckLimits, ParseRequest, DispatchReport, Discover, Connect, Handle, Deadline,
     Write, CheckReport, InitClickHouse, QueryReport, LeaveBreaker, Perform, Reply, Decline,
     Break, EndsEarly, Reach, FailsToReach, Answer, CallEnds, served, vars
<1>6. QED
  BY <1>1, <1>2, <1>3, <1>4, <1>5 DEF Next, Steps, Waits, Downstream

LEMMA StepServiceType == ASSUME IInv, [Next]_vars PROVE ServiceType'
<1> USE DEF IInv, ServiceType, Types
<1>1. ASSUME Receive
      PROVE  ServiceType'
  BY <1>1, RequestsAssumption, ClaimsOfRequest DEF Receive
<1>2. CASE Dispatch
  <2>1. IsRequest(request)
    BY <1>2, RequestsAssumption DEF Dispatch, IsServed
  <2>2. QED
    BY <1>2, <2>1, ServiceOfRequest DEF Dispatch, Answer
<1>3. CASE Depart
  BY <1>3 DEF Depart
<1>4. CASE CheckLimits \/ ParseRequest \/ Authenticate \/ DispatchReport \/ Discover \/ Connect
          \/ Handle \/ Deadline \/ Write \/ CheckReport \/ InitClickHouse \/ QueryReport \/
          LeaveBreaker \/ Perform \/ Reply \/ Decline \/ Break \/ UNCHANGED vars
  BY <1>4 DEF CheckLimits, ParseRequest, Authenticate, DispatchReport, Discover, Connect,
     Handle, Deadline, Write, CheckReport, InitClickHouse, QueryReport, LeaveBreaker, Perform,
     Reply, Decline, Break, EndsEarly, Reach, FailsToReach, Answer, CallEnds, served, vars
<1>5. QED
  BY <1>1, <1>2, <1>3, <1>4 DEF Next, Steps, Waits, Downstream

LEMMA StepHandlerType == ASSUME IInv, [Next]_vars PROVE HandlerType'
<1> USE DEF IInv, HandlerType, Types, InOrder, Ended
<1>1. ASSUME Receive
      PROVE  HandlerType'
  BY <1>1, RequestsAssumption, ClaimsOfRequest DEF Receive
<1>2. CASE Dispatch
  BY <1>2 DEF Dispatch, Answer
<1>3. CASE Handle
  BY <1>3 DEF Handle, Answer, Matching
<1>4. CASE Depart
  BY <1>4 DEF Depart
<1>5. CASE CheckLimits \/ ParseRequest \/ Authenticate \/ DispatchReport \/ Discover \/ Connect
          \/ Deadline \/ Write \/ CheckReport \/ InitClickHouse \/ QueryReport \/ LeaveBreaker
          \/ Perform \/ Reply \/ Decline \/ Break \/ UNCHANGED vars
  BY <1>5 DEF CheckLimits, ParseRequest, Authenticate, DispatchReport, Discover, Connect,
     Deadline, Write, CheckReport, InitClickHouse, QueryReport, LeaveBreaker, Perform, Reply,
     Decline, Break, EndsEarly, Reach, FailsToReach, Answer, CallEnds, served, vars
<1>6. QED
  BY <1>1, <1>2, <1>3, <1>4, <1>5 DEF Next, Steps, Waits, Downstream

LEMMA StepMarkType == ASSUME IInv, [Next]_vars PROVE MarkType'
<1> USE DEF IInv, MarkType, Types
<1>1. ASSUME Receive
      PROVE  MarkType'
  BY <1>1, RequestsAssumption, ClaimsOfRequest DEF Receive
<1>2. CASE LeaveBreaker
  BY <1>2 DEF LeaveBreaker
<1>3. CASE Depart
  BY <1>3 DEF Depart
<1>4. CASE CheckLimits \/ ParseRequest \/ Authenticate \/ DispatchReport \/ Dispatch \/ Discover
          \/ Connect \/ Handle \/ Deadline \/ Write \/ CheckReport \/ InitClickHouse \/
          QueryReport \/ Perform \/ Reply \/ Decline \/ Break \/ UNCHANGED vars
  BY <1>4 DEF CheckLimits, ParseRequest, Authenticate, DispatchReport, Dispatch, Discover,
     Connect, Handle, Deadline, Write, CheckReport, InitClickHouse, QueryReport, Perform, Reply,
     Decline, Break, EndsEarly, Answer, Reach, FailsToReach, CallEnds, served, vars
<1>5. QED
  BY <1>1, <1>2, <1>3, <1>4 DEF Next, Steps, Waits, Downstream

LEMMA StepQueriesType == ASSUME IInv, [Next]_vars PROVE QueriesType'
<1> USE DEF IInv, QueriesType, Types, ReportFits, ReportQueries
<1>1. ASSUME Receive
      PROVE  QueriesType'
  BY <1>1, RequestsAssumption, ClaimsOfRequest DEF Receive
<1>2. CASE QueryReport
  BY <1>2 DEF QueryReport, Answer
<1>3. CASE Depart
  BY <1>3 DEF Depart
<1>4. CASE CheckLimits \/ ParseRequest \/ Authenticate \/ DispatchReport \/ Dispatch \/ Discover
          \/ Connect \/ Handle \/ Deadline \/ Write \/ CheckReport \/ InitClickHouse \/
          LeaveBreaker \/ Perform \/ Reply \/ Decline \/ Break \/ UNCHANGED vars
  BY <1>4 DEF CheckLimits, ParseRequest, Authenticate, DispatchReport, Dispatch, Discover,
     Connect, Handle, Deadline, Write, CheckReport, InitClickHouse, LeaveBreaker, Perform,
     Reply, Decline, Break, EndsEarly, Answer, Reach, FailsToReach, CallEnds, served, vars
<1>5. QED
  BY <1>1, <1>2, <1>3, <1>4 DEF Next, Steps, Waits, Downstream

\* The order of the stages.
LEMMA StepIsServed == ASSUME IInv, [Next]_vars PROVE IsServed'
<1> USE DEF IInv, IsServed
<1>1. ASSUME Receive
      PROVE  IsServed'
  BY <1>1, RequestsAssumption, ClaimsOfRequest DEF Receive
<1>2. CASE Depart
  BY <1>2 DEF Depart
<1>3. CASE Authenticate
  BY <1>3 DEF Authenticate, EndsEarly
<1>4. CASE Dispatch
  BY <1>4 DEF Dispatch, Answer
<1>5. CASE CheckLimits \/ ParseRequest \/ DispatchReport \/ Discover \/ Connect \/ Handle \/
          Deadline \/ Write \/ CheckReport \/ InitClickHouse \/ QueryReport \/ LeaveBreaker \/
          Perform \/ Reply \/ Decline \/ Break \/ UNCHANGED vars
  <2>1. UNCHANGED <<request, told>> /\ (stage' = "idle" <=> stage = "idle")
    BY <1>5 DEF CheckLimits, ParseRequest, DispatchReport, Discover, Connect, Handle, Deadline,
       Write, CheckReport, InitClickHouse, QueryReport, LeaveBreaker, Perform, Reply, Decline,
       Break, EndsEarly, Answer, Reach, FailsToReach, CallEnds, served, vars
  <2>2. QED
    BY <2>1
<1>6. QED
  BY <1>1, <1>2, <1>3, <1>4, <1>5 DEF Next, Steps, Waits, Downstream

LEMMA StepInOrder == ASSUME IInv, [Next]_vars PROVE InOrder'
<1> USE DEF IInv, InOrder, Types, StageType, Stages, Calls, Ended
<1>1. ASSUME Receive
      PROVE  InOrder'
  BY <1>1, RequestsAssumption, ClaimsOfRequest DEF Receive
<1>2. CASE Handle
  BY <1>2 DEF Handle, Answer
<1>3. CASE Write
  BY <1>3 DEF Write, Answer, served
<1>4. CASE Depart
  BY <1>4 DEF Depart
<1>5. CASE CheckLimits \/ ParseRequest \/ Authenticate \/ DispatchReport \/ Dispatch \/ Discover
          \/ Connect \/ Deadline \/ CheckReport \/ InitClickHouse \/ QueryReport \/ LeaveBreaker
          \/ Perform \/ Reply \/ Decline \/ Break \/ UNCHANGED vars
  BY <1>5 DEF CheckLimits, ParseRequest, Authenticate, DispatchReport, Dispatch, Discover,
     Connect, Deadline, CheckReport, InitClickHouse, QueryReport, LeaveBreaker, Perform, Reply,
     Decline, Break, EndsEarly, Answer, Reach, FailsToReach, CallEnds, served, vars
<1>6. QED
  BY <1>1, <1>2, <1>3, <1>4, <1>5 DEF Next, Steps, Waits, Downstream

\* The checks of the parser and of the authentication.
LEMMA StepChecked == ASSUME IInv, [Next]_vars PROVE Checked'
<1> USE DEF IInv, Checked, Parsed, Known, InOrder, IsServed, Ended
<1>1. ASSUME Receive
      PROVE  Checked'
  BY <1>1, RequestsAssumption, ClaimsOfRequest DEF Receive
<1>2. CASE ParseRequest
  BY <1>2 DEF ParseRequest, EndsEarly, served
<1>3. CASE Authenticate
  BY <1>3 DEF Authenticate, EndsEarly
<1>4. CASE Dispatch
  BY <1>4 DEF Dispatch, Answer
<1>5. CASE Handle
  BY <1>5 DEF Handle, Answer
<1>6. CASE Depart
  BY <1>6 DEF Depart
<1>7. CASE CheckLimits \/ DispatchReport \/ Discover \/ Connect \/ Deadline \/ Write \/
          CheckReport \/ InitClickHouse \/ QueryReport \/ LeaveBreaker \/ Perform \/ Reply \/
          Decline \/ Break \/ UNCHANGED vars
  BY <1>7 DEF CheckLimits, DispatchReport, Discover, Connect, Deadline, Write, CheckReport,
     InitClickHouse, QueryReport, LeaveBreaker, Perform, Reply, Decline, Break, EndsEarly,
     Reach, FailsToReach, Answer, CallEnds, served, vars
<1>8. QED
  BY <1>1, <1>2, <1>3, <1>4, <1>5, <1>6, <1>7 DEF Next, Steps, Waits, Downstream

\* The identity.
LEMMA StepIdsKnown == ASSUME IInv, [Next]_vars PROVE IdsKnown'
<1> USE DEF IInv, IdsKnown, Ids, IsServed, InOrder
<1>1. ASSUME Receive
      PROVE  IdsKnown'
  BY <1>1, RequestsAssumption, ClaimsOfRequest DEF Receive
<1>2. CASE Authenticate
  BY <1>2 DEF Authenticate, EndsEarly
<1>3. CASE Dispatch
  BY <1>3 DEF Dispatch, Answer
<1>4. CASE Depart
  BY <1>4 DEF Depart
<1>5. CASE CheckLimits \/ ParseRequest \/ DispatchReport \/ Discover \/ Connect \/ Handle \/
          Deadline \/ Write \/ CheckReport \/ InitClickHouse \/ QueryReport \/ LeaveBreaker \/
          Perform \/ Reply \/ Decline \/ Break \/ UNCHANGED vars
  BY <1>5 DEF CheckLimits, ParseRequest, DispatchReport, Discover, Connect, Handle, Deadline,
     Write, CheckReport, InitClickHouse, QueryReport, LeaveBreaker, Perform, Reply, Decline,
     Break, EndsEarly, Reach, FailsToReach, Answer, CallEnds, served, vars
<1>6. QED
  BY <1>1, <1>2, <1>3, <1>4, <1>5 DEF Next, Steps, Waits, Downstream

\* The dispatcher.
LEMMA StepPlaced == ASSUME IInv, [Next]_vars PROVE Placed'
<1> USE DEF IInv, Placed, Dispatched, InOrder, Ended
<1>1. ASSUME Receive
      PROVE  Placed'
  BY <1>1, RequestsAssumption, ClaimsOfRequest DEF Receive
<1>2. CASE Dispatch
  BY <1>2 DEF Dispatch, Answer
<1>3. CASE Handle
  BY <1>3 DEF Handle, Answer
<1>4. CASE Depart
  BY <1>4 DEF Depart
<1>5. CASE CheckLimits \/ ParseRequest \/ Authenticate \/ DispatchReport \/ Discover \/ Connect
          \/ Deadline \/ Write \/ CheckReport \/ InitClickHouse \/ QueryReport \/ LeaveBreaker
          \/ Perform \/ Reply \/ Decline \/ Break \/ UNCHANGED vars
  BY <1>5 DEF CheckLimits, ParseRequest, Authenticate, DispatchReport, Discover, Connect,
     Deadline, Write, CheckReport, InitClickHouse, QueryReport, LeaveBreaker, Perform, Reply,
     Decline, Break, EndsEarly, Reach, FailsToReach, Answer, CallEnds, served, vars
<1>6. QED
  BY <1>1, <1>2, <1>3, <1>4, <1>5 DEF Next, Steps, Waits, Downstream

\* The call and what the backend did.
LEMMA StepCallFits == ASSUME IInv, [Next]_vars PROVE CallFits'
<1> USE DEF IInv, CallFits, InOrder, Ended, Types, StageType, Calls, MarkType
<1>1. ASSUME Receive
      PROVE  CallFits'
  BY <1>1, RequestsAssumption, ClaimsOfRequest DEF Receive
<1>2. CASE Handle
  <2>1. call = "none" /\ ~performed
    BY <1>2 DEF Handle
  <2>2. CASE call' = "none"
    BY <1>2, <2>1, <2>2 DEF Handle
  <2>3. CASE call' # "none"
    <3>1. PICK t \in Matching(service, request) :
            handler' = t.handler /\ ~Refuses(t.handler, request) /\ call' = "sent"
      BY <1>2, <2>1, <2>3 DEF Handle, Answer
    <3>2. UNCHANGED <<request, service, performed>>
      BY <1>2 DEF Handle
    <3>3. Routed' /\ ~Refuses(handler', request')
      BY <3>1, <3>2 DEF Routed
    <3>4. QED
      BY <2>1, <3>1, <3>2, <3>3
  <2>4. QED
    BY <2>2, <2>3
<1>3. CASE Perform
  BY <1>3 DEF Perform, Routed
<1>4. CASE Reply
  BY <1>4 DEF Reply, CallEnds, Routed
<1>5. CASE Decline
  BY <1>5 DEF Decline, CallEnds, Routed
<1>6. CASE Break
  BY <1>6 DEF Break, CallEnds, Routed
<1>7. CASE Deadline
  BY <1>7 DEF Deadline, CallEnds, Routed
<1>8. CASE Depart
  BY <1>8 DEF Depart
<1>9. CASE Dispatch
  BY <1>9 DEF Dispatch, Answer
<1>10. CASE CheckLimits \/ ParseRequest \/ Authenticate \/ DispatchReport \/ Discover \/ Connect
           \/ Write \/ CheckReport \/ InitClickHouse \/ QueryReport \/ LeaveBreaker \/
           UNCHANGED vars
  <2>1. UNCHANGED <<call, performed, handler, service, request>>
    BY <1>10 DEF CheckLimits, ParseRequest, Authenticate, DispatchReport, Discover, Connect,
       Write, CheckReport, InitClickHouse, QueryReport, LeaveBreaker, EndsEarly, Answer, Reach,
       FailsToReach, served, vars
  <2>2. QED
    BY <2>1 DEF Routed
<1>11. QED
  BY <1>1, <1>2, <1>3, <1>4, <1>5, <1>6, <1>7, <1>8, <1>9, <1>10 DEF Next, Steps, Waits, Downstream

\* The report.
LEMMA StepReportFits == ASSUME IInv, [Next]_vars PROVE ReportFits'
<1> USE DEF IInv, ReportFits, InOrder, Ended, Types, LookupType, QueriesType, ReportQueries
<1>1. ASSUME Receive
      PROVE  ReportFits'
  BY <1>1, RequestsAssumption, ClaimsOfRequest DEF Receive
<1>2. CASE DispatchReport
  BY <1>2 DEF DispatchReport, served
<1>3. CASE Dispatch
  BY <1>3 DEF Dispatch, Answer
<1>4. CASE InitClickHouse
  BY <1>4 DEF InitClickHouse, Answer, served
<1>5. CASE QueryReport
  BY <1>5 DEF QueryReport, Answer
<1>6. CASE Depart
  BY <1>6 DEF Depart
<1>7. CASE CheckLimits \/ ParseRequest \/ Authenticate \/ Discover \/ Connect \/ Handle \/
          Deadline \/ Write \/ CheckReport \/ LeaveBreaker \/ Perform \/ Reply \/ Decline \/
          Break \/ UNCHANGED vars
  BY <1>7 DEF CheckLimits, ParseRequest, Authenticate, Discover, Connect, Handle, Deadline,
     Write, CheckReport, LeaveBreaker, Perform, Reply, Decline, Break, EndsEarly, Reach,
     FailsToReach, Answer, CallEnds, served, vars
<1>8. QED
  BY <1>1, <1>2, <1>3, <1>4, <1>5, <1>6, <1>7 DEF Next, Steps, Waits, Downstream

\* The answer.
LEMMA StepAnswerFits == ASSUME IInv, [Next]_vars PROVE AnswerFits'
<1> USE DEF IInv, AnswerFits, InOrder, Ended, CallFits, ReportFits, Types, StageType,
     QueriesType, ReportQueries
<1>1. ASSUME Receive
      PROVE  AnswerFits'
  BY <1>1, RequestsAssumption, ClaimsOfRequest DEF Receive
<1>2. CASE Write
  <2>1. call \in Calls /\ call \notin {"none", "sent"} /\ stage = "call"
    BY <1>2 DEF Write
  <2>2. answer' = Outcome /\ UNCHANGED <<request, clickhouse, call, performed, handler, queries>>
    BY <1>2 DEF Write, Answer, served
  <2>3. request.path \notin GlobalReportPaths
    BY <2>1 DEF Placed, Dispatched
  <2>4. QED
    BY <2>1, <2>2, <2>3, OutcomeFits
<1>3. CASE InitClickHouse
  BY <1>3 DEF InitClickHouse, Answer, served
<1>4. CASE QueryReport
  BY <1>4 DEF QueryReport, Answer
<1>5. CASE Perform
  BY <1>5 DEF Perform
<1>6. CASE CheckLimits \/ ParseRequest \/ Authenticate \/ DispatchReport \/ Dispatch \/ Discover
          \/ Connect \/ Handle \/ Deadline \/ CheckReport \/ LeaveBreaker \/ Depart \/ Reply \/
          Decline \/ Break \/ UNCHANGED vars
  BY <1>6 DEF CheckLimits, ParseRequest, Authenticate, DispatchReport, Dispatch, Discover,
     Connect, Handle, Deadline, CheckReport, LeaveBreaker, Depart, Reply, Decline, Break,
     EndsEarly, Answer, Reach, FailsToReach, CallEnds, served, vars
<1>7. QED
  BY <1>1, <1>2, <1>3, <1>4, <1>5, <1>6 DEF Next, Steps, Waits, Downstream

\* The refusals.
LEMMA StepRefusalFits == ASSUME IInv, [Next]_vars PROVE RefusalFits'
<1> USE DEF IInv, RefusalFits, InOrder, Ended
<1>1. CASE ParseRequest
  BY <1>1 DEF ParseRequest, EndsEarly, served
<1>2. CASE Authenticate
  BY <1>2 DEF Authenticate, EndsEarly
<1>3. CASE Dispatch
  BY <1>3 DEF Dispatch, Answer
<1>4. CASE Handle
  <2>1. CASE answer' # "refused"
    BY <2>1
  <2>2. CASE answer' = "refused"
    <3>1. PICK t \in Matching(service, request) :
            handler' = t.handler /\ Refuses(t.handler, request)
      BY <1>4, <2>2 DEF Handle, Answer
    <3>2. UNCHANGED <<request, service>>
      BY <1>4 DEF Handle
    <3>3. service \in Services
      BY <1>4 DEF Handle, Placed, Dispatched, Types, ServiceType
    <3>4. QED
      BY <3>1, <3>2, <3>3 DEF Routed
  <2>3. QED
    BY <2>1, <2>2
<1>5. CASE CheckReport
  BY <1>5 DEF CheckReport, ReportFits, Answer, LacksReportKeys, served
<1>6. CASE Write
  <2>1. answer' # "refused"
    BY <1>6, OutcomeFits DEF Write, Answer, Types, StageType
  <2>2. QED
    BY <2>1
<1>7. CASE Receive \/ CheckLimits \/ DispatchReport \/ Discover \/ Connect \/ InitClickHouse \/
          QueryReport \/ Depart
  <2>1. answer' # "refused"
    BY <1>7 DEF Receive, CheckLimits, DispatchReport, Discover, Connect, InitClickHouse,
       QueryReport, Depart, EndsEarly, Answer, Reach, FailsToReach
  <2>2. QED
    BY <2>1
<1>8. CASE Deadline \/ LeaveBreaker \/ Perform \/ Reply \/ Decline \/ Break \/ UNCHANGED vars
  <2>1. UNCHANGED <<answer, request, lookup, told, service, handler>>
    BY <1>8 DEF Deadline, LeaveBreaker, Perform, Reply, Decline, Break, CallEnds, vars
  <2>2. QED
    BY <2>1 DEF Routed, LacksReportKeys
<1>9. QED
  BY <1>1, <1>2, <1>3, <1>4, <1>5, <1>6, <1>7, <1>8 DEF Next, Steps, Waits, Downstream

LEMMA Invariance == Spec => []IInv
<1>1. Init => IInv
  BY InitIInv
<1>2. IInv /\ [Next]_vars => IInv'
  <2> SUFFICES ASSUME IInv, [Next]_vars PROVE IInv'
    OBVIOUS
  <2>1. Types'
    BY StepRequestType, StepStageType, StepAnswerType, StepLookupType, StepToldType,
       StepServiceType, StepHandlerType, StepMarkType, StepQueriesType DEF Types
  <2>2. QED
    BY <2>1, StepIsServed, StepInOrder, StepChecked, StepIdsKnown, StepPlaced, StepCallFits,
       StepReportFits, StepAnswerFits, StepRefusalFits DEF IInv
<1>3. QED
  BY <1>1, <1>2, PTL DEF Spec
-----------------------------------------------------------------------------
(* Every variable of the pipeline keeps its type; in particular the handler of a request is one
   that its route leads to. *)
THEOREM TypeCorrect == Spec => []TypeOK
<1>1. IInv => TypeOK
  BY TypesAreTypeOK DEF IInv
<1>2. QED
  BY <1>1, Invariance, PTL

(* Whatever the requests, the routes and the handlers are, and whatever the network does: what
   the client is answered is true of what was done (callBackendGRPCMethod, the handlers). *)
THEOREM TruthfulAnswers == Spec => []AnswersAreTrue
<1>1. IInv => AnswersAreTrue
  BY DEF IInv, AnswersAreTrue, AnswerFits, CallFits
<1>2. QED
  BY <1>1, Invariance, PTL

(* Whatever the routes and the handlers are, the backend acts only on what came through the
   parser, the authentication, the choice of the site and the handler's own check. *)
THEOREM CompleteRequestsOnly == Spec => []ActsOnCompleteRequests
<1>1. IInv => ActsOnCompleteRequests
  <2> SUFFICES ASSUME IInv, performed PROVE ActsOnCompleteRequests
    BY DEF ActsOnCompleteRequests
  <2>1. call # "none"
    BY DEF IInv, CallFits
  <2>2. ~Malformed(request) /\ (Skipped(request) \/ Accepts(request, lookup))
    BY <2>1 DEF IInv, Checked
  <2>3. Accepts(request, lookup) =>
          request.token.kind \in IF group(request) = "manage" THEN {"manage"} ELSE {"user", "admin"}
    BY DEF Accepts, ParseToken, ParseManageToken
  <2>4. request.path \in OneSitePaths => "site_id" \in request.keys
    BY <2>1 DEF IInv, Placed, LacksSite, requestData
  <2>5. handler.needs \subseteq request.keys
    BY <2>1, HeardIsSaid DEF IInv, CallFits, Refuses
  <2>6. QED
    BY <2>2, <2>3, <2>4, <2>5 DEF ActsOnCompleteRequests
<1>2. QED
  BY <1>1, Invariance, PTL

(* A revoked token is of no use to anyone but in a request whose look-up of the blacklist failed,
   whatever the requests and the open paths are (jwt.go:59-61, 108-112). *)
THEOREM RevokedIsRevoked == Spec => []RevokedOnlyOnFault
<1>1. IInv => RevokedOnlyOnFault
  <2> SUFFICES ASSUME IInv, request.token.revoked, lookup = "ok" PROVE RevokedOnlyOnFault
    BY DEF RevokedOnlyOnFault
  <2>1. ~Accepts(request, lookup)
    BY DEF Accepts, ParseToken, ParseManageToken
  <2>2. Ids \cap told = {}
    BY <2>1 DEF IInv, IdsKnown
  <2>3. performed => Skipped(request)
    BY <2>1 DEF IInv, Checked, CallFits
  <2>4. QED
    BY <2>2, <2>3 DEF RevokedOnlyOnFault, Ids
<1>2. QED
  BY <1>1, Invariance, PTL

(* The backend is told the identity of a good token of the group's kind, and never one that the
   token does not have, whatever the requests and the handlers are (auth_with_skip.go:11-33). *)
THEOREM IdentityIsTold == Spec => []IdentityTold
<1>1. IInv => IdentityTold
  <2> SUFFICES ASSUME IInv, call # "none" PROVE IdentityTold
    BY DEF IdentityTold, Reached
  <2>1. IsRequest(request) /\ group(request) \in Groups
    BY RequestsAssumption DEF IInv, InOrder, IsServed, IsRequest, group, Ended
  <2>2. /\ Accepts(request, lookup) => Claims(request) \subseteq told
        /\ told \cap Ids # {} => Accepts(request, lookup) /\ told \cap Ids \subseteq Claims(request)
        /\ request.path \in OneSitePaths => "site_id" \in told
        /\ determineService(request) # NoService
    BY DEF IInv, Checked, IdsKnown, Placed
  <2>3. ASSUME request.token.kind \in Kinds(request), ~request.token.revoked
        PROVE  CASE group(request) = "frontend" -> "user_id" \in told
                 [] group(request) = "backend" -> "admin_id" \in told
                 [] group(request) = "manage" -> Skipped(request) \/ "admin_id" \in told
                 [] OTHER -> told \cap {"user_id", "admin_id"} = {}
    <3>1. CASE group(request) = "frontend"
      <4>1. Len(request.path) > 2
        BY <2>2, <3>1, ServiceByPrefix DEF determineService, determineFrontendService
      <4>2. Accepts(request, lookup) /\ "user_id" \in Claims(request)
        BY <2>3, <3>1, <4>1 DEF Kinds, Accepts, ParseToken, Claims, applyAuthClaims
      <4>3. QED
        BY <2>2, <3>1, <4>2
    <3>2. CASE group(request) = "backend"
      <4>1. Accepts(request, lookup) /\ "admin_id" \in Claims(request)
        BY <2>3, <3>2 DEF Kinds, Accepts, ParseToken, Claims, applyAuthClaims
      <4>2. QED
        BY <2>2, <3>2, <4>1
    <3>3. CASE group(request) = "manage"
      <4>1. Skipped(request) \/ (Accepts(request, lookup) /\ "admin_id" \in Claims(request))
        BY <2>3, <3>3 DEF Kinds, Accepts, ParseManageToken, Claims
      <4>2. QED
        BY <2>2, <3>3, <4>1
    <3>4. CASE group(request) \in {"balance", "game"}
      <4>1. Claims(request) \cap Ids = {}
        BY <2>3, <3>4 DEF Kinds, Claims, applyAuthClaims, Ids
      <4>2. told \cap Ids = {}
        BY <2>2, <4>1
      <4>3. QED
        BY <3>4, <4>2 DEF Ids
    <3>5. QED
      BY <2>1, <3>1, <3>2, <3>3, <3>4 DEF Groups
  <2>4. "user_id" \in told => request.token.kind = "user"
    BY <2>2 DEF Claims, applyAuthClaims, Ids
  <2>5. "admin_id" \in told => request.token.kind \in {"admin", "manage"}
    BY <2>2 DEF Claims, applyAuthClaims, Ids, Accepts, ParseManageToken
  <2>6. QED
    BY <2>2, <2>3, <2>4, <2>5 DEF IdentityTold
<1>2. QED
  BY <1>1, Invariance, PTL

(* No request matches two keys of a registry: the order in which the map is walked never decides
   (route_handler.go:49-62), for any path and on any service the dispatcher chooses. *)
THEOREM OneHandlerOnly == Spec => []OneHandler
<1>1. IInv => OneHandler
  <2> SUFFICES ASSUME IInv, stage = "handle" PROVE OneHandler
    BY DEF OneHandler
  <2> DEFINE M == Matching(service, request)
  <2>1. service \in Services /\ IsRequest(request)
    BY RequestsAssumption DEF IInv, Placed, Dispatched, Types, ServiceType, IsServed
  <2>2. \A t, u \in M : t = u
    BY <2>1, Registries, OneMatches DEF Matching, Matches, IsRequest
  <2>3. CASE M = {}
    BY <2>3, FS_EmptySet DEF OneHandler
  <2>4. CASE M # {}
    <3>1. PICK t \in M : TRUE
      BY <2>4
    <3>2. M = {t}
      BY <2>2
    <3>3. Cardinality(M) = 1
      BY <3>2, FS_Singleton
    <3>4. QED
      BY <3>3 DEF OneHandler
  <2>5. QED
    BY <2>3, <2>4
<1>2. QED
  BY <1>1, Invariance, PTL

(* Whatever a client says in the keys of the registered operation reaches the backend, whatever
   the request, with the exceptions the property names (request_parser.go, the handlers). *)
THEOREM WholeDelivery == Spec => []DeliveredWhole
<1>1. IInv => DeliveredWhole
  <2> SUFFICES ASSUME IInv, call # "none", NEW f \in DOMAIN handler.takes,
                      handler.takes[f] \in request.keys,
                      ~(request.carrier # "json" /\ handler.takes[f] \in handler.numbers),
                      ~(request.method = "POST" /\ request.carrier = "query"
                                                 /\ handler.reads = "data")
               PROVE  f \in Sent(handler, request)
    BY DEF DeliveredWhole, Reached
  <2>1. IsRequest(request) /\ service \in Services
    BY RequestsAssumption DEF IInv, InOrder, IsServed, Ended, Placed, Types, ServiceType
  <2>2. PICK t \in Matching(service, request) : handler = t.handler /\ ~Refuses(handler, request)
    BY DEF IInv, CallFits, Routed
  <2>3. handler.takes[f] \in Found(handler, request)
    BY <2>1, <2>2, HandlerFinds
  <2>4. QED
    BY <2>3 DEF Sent, Heard
<1>2. QED
  BY <1>1, Invariance, PTL

(* Nobody who follows the documentation of a route, to a path that names a service and with the
   keys that the path and its handler need, is refused on it, whatever the request and the route
   are (request_parser.go, auth_with_skip.go, route_dispatcher.go, the handlers' own checks). *)
THEOREM RefusalsAreFaults == Spec => []RefusedForAFault
<1>1. IInv => RefusedForAFault
  <2> SUFFICES ASSUME IInv, answer = "refused", Documented(request),
                      ~(handler # NoHandler /\ handler.reads = "body" /\ request.keys = {})
               PROVE  \/ handler = NoHandler /\ Incomplete(request)
                      \/ handler # NoHandler /\ ~(handler.needs \subseteq request.keys)
    BY DEF RefusedForAFault
  <2>1. IsRequest(request) /\ SiteOfHost(request) \subseteq told
    BY RequestsAssumption DEF IInv, InOrder, IsServed, Ended
  <2>2. ~Malformed(request)
    BY DEF Malformed, Documented
  <2>3. Skipped(request) \/ Accepts(request, lookup)
    BY <2>1 DEF Documented, Kinds, Accepts, ParseToken, ParseManageToken
  <2>4. CASE service \in Services /\ Routed /\ Refuses(handler, request)
    BY <2>1, <2>4, HandlerAccepts, RouteHasHandler DEF Routed
  <2>5. CASE /\ handler = NoHandler
             /\ \/ LacksSite(request)
                \/ determineService(request) = NoService
                \/ request.path \in GlobalReportPaths /\ LacksReportKeys(request)
    BY <2>1, <2>5, LacksAreIncomplete
  <2>6. QED
    BY <2>2, <2>3, <2>4, <2>5 DEF IInv, RefusalFits
<1>2. QED
  BY <1>1, Invariance, PTL
=============================================================================
