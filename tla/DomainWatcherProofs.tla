------------------------ MODULE DomainWatcherProofs ------------------------
(***************************************************************************)
(* Proofs about DomainWatcher, for any sites, names, wildcards, requests   *)
(* and any number of changes.                                              *)
(***************************************************************************)
EXTENDS DomainWatcher, TLAPS

(***************************************************************************)
(* The inductive invariant.  The tables are those of one published         *)
(* content, and their contents only go forward: so what a request read at  *)
(* either of its two look-ups is what was published between its arrival    *)
(* and now.                                                                *)
(***************************************************************************)
Attempts == pc = "load" => attempt < MaxRetries

Domains == DOMAIN site = Requests /\ DOMAIN currency = Requests

TablesAreOfLoaded ==
  /\ domainMap = DomainTable(published[loaded])
  /\ siteConfigs = ConfigTable(published[loaded])

GivenASite(q) == \E v \in since[q]..loaded : HasSite(q, v)
GivenBoth(q) ==
  \E v \in since[q]..loaded : HasSite(q, v) /\ \E w \in v..loaded : HasCurrency(q, w)
HadNoSite(q) == \E v \in since[q]..loaded : SitesOf(published[v], host[q]) = {}

RequestOK(q) ==
  /\ step[q] = "config" => by[q] = "domain" /\ GivenASite(q)
  /\ step[q] = "hint" => HadNoSite(q)
  /\ step[q] = "done" => IF by[q] = "domain" THEN GivenBoth(q) ELSE HadNoSite(q)

IInv == /\ TypeOK /\ Attempts /\ Domains /\ TablesAreOfLoaded
        /\ \A q \in Requests : RequestOK(q)

-----------------------------------------------------------------------------
\* The last of the keys that list a name owns it.
LEMMA OwnerLists ==
  ASSUME NEW kv, NEW name, Listing(kv, name) # {}
  PROVE  Owner(kv, name) \in Listing(kv, name)
<1>1. Listing(kv, name) \in SUBSET Keys
  BY DEF Listing, Sites
<1>2. \E k \in Listing(kv, name) : \A l \in Listing(kv, name) : l <= k
  BY <1>1, WatcherAssumption
<1>3. QED
  BY <1>2 DEF Owner

\* What a name is matched to in the table of a content is a site of the content that has it,
\* and if there is one something is matched.
LEMMA MatchesAreSites ==
  ASSUME NEW kv, NEW h
  PROVE  /\ Matches(DomainTable(kv), h) \subseteq SitesOf(kv, h)
         /\ Matches(DomainTable(kv), h) = {} => SitesOf(kv, h) = {}
<1> DEFINE T == DomainTable(kv)
           n == Lower[h]
<1>1. DOMAIN T = NamesOf(kv) /\ \A p \in NamesOf(kv) : T[p] = SiteInfo(kv[Owner(kv, p)])
  BY DEF DomainTable
<1>2. \A p : p \in NamesOf(kv) <=> Listing(kv, p) # {}
  BY DEF NamesOf, Listing
<1>3. \A p \in NamesOf(kv) : Owner(kv, p) \in Sites(kv) /\ p \in kv[Owner(kv, p)].names
  BY <1>2, OwnerLists DEF Listing
<1>4. CASE n = ""
  BY <1>4 DEF Matches, SitesOf
<1>5. CASE n # "" /\ n \in NamesOf(kv)
  <2>1. Matches(T, h) = {SiteInfo(kv[Owner(kv, n)])}
    BY <1>1, <1>5 DEF Matches
  <2>2. Owner(kv, n) \in {k \in Sites(kv) : n \in kv[k].names}
    BY <1>3, <1>5
  <2>3. SiteInfo(kv[Owner(kv, n)]) \in SitesOf(kv, h)
    BY <1>5, <2>2 DEF SitesOf
  <2>4. QED
    BY <2>1, <2>3
<1>6. CASE n # "" /\ n \notin NamesOf(kv)
  <2>1. {k \in Sites(kv) : n \in kv[k].names} = {}
    BY <1>2, <1>6 DEF Listing
  <2>2. Matches(T, h) = {T[p] : p \in Wildcards(T, n)}
    BY <1>1, <1>6 DEF Matches
  <2>3. Wildcards(T, n) = {p \in NamesOf(kv) : <<p, n>> \in Covers}
    BY <1>1 DEF Wildcards
  <2>4. SitesOf(kv, h) =
          {SiteInfo(kv[k]) :
             k \in {k \in Sites(kv) : {p \in kv[k].names : <<p, n>> \in Covers} # {}}}
    BY <1>6, <2>1 DEF SitesOf
  <2>5. ASSUME NEW p \in Wildcards(T, n)
        PROVE  T[p] \in SitesOf(kv, h)
    BY <1>1, <1>3, <2>3, <2>4
  <2>6. ASSUME NEW k \in Sites(kv), NEW p \in kv[k].names, <<p, n>> \in Covers
        PROVE  p \in Wildcards(T, n)
    BY <2>3, <2>6 DEF NamesOf
  <2> HIDE DEF T, n
  <2>7. Matches(T, h) \subseteq SitesOf(kv, h)
    BY <2>2, <2>5
  <2>8. ASSUME Matches(T, h) = {}
        PROVE  SitesOf(kv, h) = {}
    <3>1. Wildcards(T, n) = {}
      BY <2>2, <2>8
    <3>2. \A k \in Sites(kv) : {p \in kv[k].names : <<p, n>> \in Covers} = {}
      BY <2>6, <3>1
    <3>3. QED
      BY <2>4, <3>2
  <2>9. QED
    BY <2>7, <2>8 DEF T
<1>7. QED
  BY <1>4, <1>5, <1>6

\* The order on contents, as it is needed below.
LEMMA Later ==
  ASSUME NEW a \in Int, NEW b \in Int, NEW c \in Int, b <= c, NEW v \in a..b
  PROVE  v \in a..c /\ v..b \subseteq v..c
OBVIOUS
-----------------------------------------------------------------------------
LEMMA InitIInv == Init => IInv
<1> SUFFICES ASSUME Init PROVE IInv
  OBVIOUS
<1>1. published \in Seq([Keys -> Values]) /\ Len(published) = 1
  BY DEF Init, Values
<1>2. TypeOK
  <2>1. {answer, loaded} \subseteq 1..Len(published) /\ 1 \in 1..loaded
    BY <1>1 DEF Init
  <2>2. attempt \in 0..MaxRetries
    BY WatcherAssumption DEF Init
  <2>3. since \in [Requests -> 1..loaded]
    BY <2>1 DEF Init
  <2>4. QED
    BY <1>1, <2>1, <2>2, <2>3 DEF Init, TypeOK, Places
<1>3. QED
  BY <1>2, WatcherAssumption
  DEF Init, IInv, Attempts, Domains, TablesAreOfLoaded, RequestOK

\* A step that leaves the requests alone and takes the tables forward keeps what is known of them.
LEMMA Forward ==
  ASSUME IInv, UNCHANGED requestVars, loaded' \in Int, loaded <= loaded',
         \A v \in 1..loaded : published'[v] = published[v]
  PROVE  \A q \in Requests : RequestOK(q)'
<1> SUFFICES ASSUME NEW q \in Requests PROVE RequestOK(q)'
  OBVIOUS
<1>1. loaded \in Int /\ since[q] \in 1..loaded /\ since'[q] = since[q]
  BY DEF IInv, TypeOK, requestVars
<1>2. \A v \in since[q]..loaded :
        v \in since'[q]..loaded' /\ v..loaded \subseteq v..loaded' /\ published'[v] = published[v]
  BY <1>1
<1>3. \A v \in since[q]..loaded :
        /\ HasSite(q, v)' = HasSite(q, v)
        /\ HasCurrency(q, v)' = HasCurrency(q, v)
  BY <1>2 DEF HasSite, HasCurrency, requestVars
<1>4. GivenASite(q) => GivenASite(q)'
  BY <1>2, <1>3 DEF GivenASite
<1>5. GivenBoth(q) => GivenBoth(q)'
  <2> SUFFICES ASSUME GivenBoth(q) PROVE GivenBoth(q)'
    OBVIOUS
  <2>1. PICK v \in since[q]..loaded : HasSite(q, v) /\ \E w \in v..loaded : HasCurrency(q, w)
    BY DEF GivenBoth
  <2>2. PICK w \in v..loaded : HasCurrency(q, w)
    BY <2>1
  <2>3. w \in since[q]..loaded
    BY <1>1
  <2>4. HasSite(q, v)' /\ HasCurrency(q, w)' /\ v \in since'[q]..loaded' /\ w \in v..loaded'
    BY <1>2, <1>3, <2>1, <2>2, <2>3
  <2>5. QED
    BY <2>4 DEF GivenBoth
<1>6. HadNoSite(q) => HadNoSite(q)'
  BY <1>2 DEF HadNoSite, requestVars
<1>7. QED
  BY <1>4, <1>5, <1>6 DEF IInv, RequestOK, requestVars

\* Nothing is published or unpublished in the contents there were.
LEMMA PublishIInv ==
  ASSUME IInv, NEW k \in Keys, Publish(k)
  PROVE  IInv'
<1>1. PICK value \in Values \ {Current[k]} :
        published' = Append(published, [Current EXCEPT ![k] = value])
  BY DEF Publish
<1>2. published \in Seq([Keys -> Values]) /\ loaded \in 1..Len(published) /\ answer \in 1..Len(published)
  BY DEF IInv, TypeOK
<1>3. Current \in [Keys -> Values]
  BY <1>2 DEF Current
<1>4. [Current EXCEPT ![k] = value] \in [Keys -> Values]
  BY <1>3
<1>5. /\ published' \in Seq([Keys -> Values]) /\ Len(published') = Len(published) + 1
      /\ \A v \in 1..Len(published) : published'[v] = published[v]
  BY <1>1, <1>2, <1>4
<1>6. UNCHANGED <<tables, watcherVars, requestVars>>
  BY DEF Publish
<1>7. TypeOK'
  BY <1>2, <1>5, <1>6 DEF IInv, TypeOK, tables, watcherVars, requestVars
<1>8. \A q \in Requests : RequestOK(q)'
  <2>1. loaded' \in Int /\ loaded <= loaded' /\ \A v \in 1..loaded : published'[v] = published[v]
    BY <1>2, <1>5, <1>6 DEF tables
  <2>2. QED
    BY <1>6, <2>1, Forward
<1>9. TablesAreOfLoaded'
  BY <1>2, <1>5, <1>6 DEF IInv, TablesAreOfLoaded, tables
<1>10. QED
  BY <1>6, <1>7, <1>8, <1>9 DEF IInv, Attempts, Domains, watcherVars, requestVars

\* The watcher's steps: the tables stay those of one content and never go back.
LEMMA WatcherIInv ==
  ASSUME IInv, Load \/ LoadFails \/ Watch
  PROVE  IInv'
<1>1. /\ published \in Seq([Keys -> Values]) /\ loaded \in 1..Len(published)
      /\ answer \in 1..Len(published) /\ Len(published) \in Nat
      /\ attempt \in 0..MaxRetries /\ MaxRetries \in Nat
  BY WatcherAssumption DEF IInv, TypeOK
<1>2. UNCHANGED <<published, requestVars>>
  BY DEF Load, LoadFails, Watch, Reply, QueryFails, PauseOver, Process, Stop, Stopped
<1>3. /\ TablesAreOfLoaded' /\ loaded <= loaded' /\ loaded' \in 1..Len(published)
      /\ answer' \in 1..Len(published)
      /\ pc' = "process" => loaded' <= answer'
  <2>1. CASE Load
    BY <1>1, <2>1 DEF Load, Fill, Current, TablesAreOfLoaded, Retry
  <2>2. CASE LoadFails
    BY <1>1, <2>2 DEF LoadFails, TablesAreOfLoaded, Retry, IInv, TypeOK, tables
  <2>3. CASE Reply
    BY <1>1, <2>3 DEF Reply, TablesAreOfLoaded, IInv, TypeOK, tables
  <2>4. CASE Process
    BY <1>1, <2>4 DEF Process, Fill, TablesAreOfLoaded, IInv, TypeOK
  <2>5. CASE QueryFails \/ PauseOver \/ Stop \/ Stopped
    BY <1>1, <2>5 DEF QueryFails, PauseOver, Stop, Stopped, TablesAreOfLoaded, IInv, TypeOK, tables
  <2>6. QED
    BY <2>1, <2>2, <2>3, <2>4, <2>5 DEF Watch
<1>4. attempt' \in 0..MaxRetries /\ Attempts' /\ pc' \in Places /\ cancelled' \in BOOLEAN
  <2>1. CASE Load
    BY <1>1, <2>1 DEF Load, Retry, Attempts, Places, IInv, TypeOK
  <2>2. CASE LoadFails
    BY <1>1, <2>2 DEF LoadFails, Retry, Attempts, Places, IInv, TypeOK
  <2>3. CASE Watch
    BY <1>1, <2>3
    DEF Watch, Reply, QueryFails, PauseOver, Process, Stop, Stopped, Attempts, Places, IInv, TypeOK
  <2>4. QED
    BY <2>1, <2>2, <2>3
<1>5. \A q \in Requests : RequestOK(q)'
  <2>1. loaded' \in Int /\ loaded <= loaded' /\ \A v \in 1..loaded : published'[v] = published[v]
    BY <1>1, <1>2, <1>3
  <2>2. QED
    BY <1>2, <2>1, Forward
<1>6. since' \in [Requests -> 1..loaded']
  BY <1>1, <1>2, <1>3 DEF IInv, TypeOK, requestVars
<1>7. TypeOK'
  BY <1>2, <1>3, <1>4, <1>6 DEF IInv, TypeOK, requestVars
<1>8. QED
  BY <1>2, <1>3, <1>4, <1>5, <1>7 DEF IInv, Domains, requestVars

\* The steps of a request read one table, that of what is loaded.
LEMMA RequestIInv ==
  ASSUME IInv, NEW q \in Requests, Arrive(q) \/ LookUp(q) \/ ReadConfig(q) \/ UseHint(q)
  PROVE  IInv'
<1>1. /\ loaded \in Nat /\ loaded \in 1..loaded /\ since[q] \in 1..loaded
      /\ loaded \in since[q]..loaded
  BY DEF IInv, TypeOK
<1>2. UNCHANGED <<published, tables, watcherVars, host, hint>>
  BY DEF Arrive, LookUp, ReadConfig, UseHint
<1>3. \A p \in Requests \ {q} :
        /\ step'[p] = step[p] /\ since'[p] = since[p] /\ by'[p] = by[p]
        /\ site'[p] = site[p] /\ currency'[p] = currency[p]
  <2>1. CASE Arrive(q)
    BY <2>1 DEF Arrive, GoTo, IInv, TypeOK, Domains
  <2>2. CASE LookUp(q)
    BY <2>2 DEF LookUp, GoTo, Resolve, IInv, TypeOK, Domains
  <2>3. CASE ReadConfig(q)
    BY <2>3 DEF ReadConfig, GoTo, IInv, TypeOK, Domains
  <2>4. CASE UseHint(q)
    BY <2>4 DEF UseHint, GoTo, Resolve, IInv, TypeOK, Domains
  <2>5. QED
    BY <2>1, <2>2, <2>3, <2>4
<1>4. TypeOK' /\ Domains'
  <2>1. CASE Arrive(q)
    BY <1>1, <2>1 DEF Arrive, GoTo, IInv, TypeOK, Domains, tables, watcherVars
  <2>2. CASE LookUp(q)
    BY <2>2 DEF LookUp, GoTo, Resolve, IInv, TypeOK, Domains, tables, watcherVars
  <2>3. CASE ReadConfig(q)
    BY <2>3 DEF ReadConfig, GoTo, IInv, TypeOK, Domains, tables, watcherVars
  <2>4. CASE UseHint(q)
    BY <2>4 DEF UseHint, GoTo, Resolve, IInv, TypeOK, Domains, tables, watcherVars
  <2>5. QED
    BY <2>1, <2>2, <2>3, <2>4
<1>5. ASSUME NEW p \in Requests \ {q}
      PROVE  RequestOK(p)'
  BY <1>2, <1>3
  DEF IInv, RequestOK, GivenASite, GivenBoth, HadNoSite, HasSite, HasCurrency, tables
<1>6. RequestOK(q)'
  <2>1. CASE Arrive(q)
    BY <2>1 DEF Arrive, GoTo, RequestOK, IInv, TypeOK
  <2>2. CASE LookUp(q) /\ Matches(domainMap, host[q]) = {}
    <3>1. SitesOf(published[loaded], host[q]) = {}
      BY <2>2, MatchesAreSites DEF IInv, TablesAreOfLoaded
    <3>2. step'[q] = "hint" /\ since' = since
      BY <2>2 DEF LookUp, GoTo, IInv, TypeOK
    <3>3. HadNoSite(q)'
      BY <1>1, <1>2, <3>1, <3>2 DEF HadNoSite, tables
    <3>4. QED
      BY <3>2, <3>3 DEF RequestOK
  <2>3. CASE LookUp(q) /\ Matches(domainMap, host[q]) # {}
    <3>1. PICK s \in Matches(domainMap, host[q]) : Resolve(q, s, "domain")
      BY <2>3 DEF LookUp
    <3>2. s \in SitesOf(published[loaded], host[q])
      BY MatchesAreSites DEF IInv, TablesAreOfLoaded
    <3>3. step'[q] = "config" /\ since' = since /\ site'[q] = s /\ by'[q] = "domain"
      BY <2>3, <3>1 DEF LookUp, GoTo, Resolve, IInv, TypeOK, Domains
    <3>4. GivenASite(q)'
      BY <1>1, <1>2, <3>2, <3>3 DEF GivenASite, HasSite, tables
    <3>5. QED
      BY <3>3, <3>4 DEF RequestOK
  <2>4. CASE ReadConfig(q)
    <3>1. /\ step[q] = "config" /\ step'[q] = "done"
          /\ UNCHANGED <<since, site, by>>
          /\ currency'[q] = CurrencyOf(ConfigTable(published[loaded]), site[q].code)
      BY <2>4 DEF ReadConfig, GoTo, IInv, TypeOK, Domains, TablesAreOfLoaded
    <3>2. by[q] = "domain"
      BY <3>1 DEF IInv, RequestOK
    <3>3. PICK v \in since[q]..loaded : HasSite(q, v)
      BY <3>1 DEF IInv, RequestOK, GivenASite
    <3>4. v \in since[q]..loaded /\ loaded \in v..loaded
      BY <1>1
    <3>5. HasSite(q, v)' /\ HasCurrency(q, loaded)'
      BY <1>2, <3>1, <3>3 DEF HasSite, HasCurrency, tables
    <3>6. UNCHANGED <<since, loaded>>
      BY <1>2, <3>1 DEF tables
    <3>7. GivenBoth(q)'
      BY <3>4, <3>5, <3>6 DEF GivenBoth
    <3>8. QED
      BY <3>1, <3>2, <3>7 DEF RequestOK
  <2>5. CASE UseHint(q)
    <3>1. /\ step[q] = "hint" /\ step'[q] = "done" /\ since' = since
          /\ by'[q] \in {"code", "id", "default"}
      BY <2>5 DEF UseHint, GoTo, Resolve, IInv, TypeOK
    <3>2. HadNoSite(q)'
      BY <1>2, <3>1 DEF IInv, RequestOK, HadNoSite, tables
    <3>3. QED
      BY <3>1, <3>2 DEF RequestOK
  <2>6. QED
    BY <2>1, <2>2, <2>3, <2>4, <2>5
<1>7. QED
  BY <1>2, <1>4, <1>5, <1>6 DEF IInv, Attempts, TablesAreOfLoaded, tables, watcherVars

LEMMA Invariance == Spec => []IInv
<1>1. Init => IInv
  BY InitIInv
<1>2. IInv /\ [Next]_vars => IInv'
  <2> SUFFICES ASSUME IInv, [Next]_vars PROVE IInv'
    OBVIOUS
  <2>1. CASE UNCHANGED vars
    BY <2>1 DEF vars, tables, watcherVars, requestVars, IInv, TypeOK, Attempts, Domains,
       TablesAreOfLoaded, RequestOK, GivenASite, GivenBoth, HadNoSite, HasSite, HasCurrency
  <2>2. QED
    BY <2>1, PublishIInv, WatcherIInv, RequestIInv DEF Next, Finished
<1>3. QED
  BY <1>1, <1>2, PTL DEF Spec

-----------------------------------------------------------------------------
(* Every variable of the watcher and the resolver keeps its type; in particular no more attempts
   than MaxRetries are made, and the answer being processed is never older than the tables. *)
THEOREM TypeCorrect == Spec => []TypeOK
BY Invariance, PTL DEF IInv

(* For any sites, wildcards and number of changes, a request resolved by its domain is given a
   site that had it, and a currency no older, since the request arrived
   (domain_resolver.go:33-46). *)
THEOREM ResolvesWhatWasPublished == Spec => []ResolvedFromPublished
<1>1. IInv => ResolvedFromPublished
  BY DEF IInv, RequestOK, ResolvedFromPublished, ByDomain, GivenBoth
<1>2. QED
  BY <1>1, Invariance, PTL

(* An explicit site is used only for a host that had no site at some moment since the request
   arrived (domain_resolver.go:49-56). *)
THEOREM HintsForUnknownHosts == Spec => []HintOnlyForUnknownHosts
<1>1. IInv => HintOnlyForUnknownHosts
  BY DEF IInv, RequestOK, HintOnlyForUnknownHosts, HadNoSite
<1>2. QED
  BY <1>1, Invariance, PTL
=============================================================================
