--------------------------- MODULE DomainWatcher ---------------------------
(***************************************************************************)
(* The site tables of the gateway: internal/registry/domain_watcher.go,    *)
(* which copies them from Consul's key-value store, and DomainResolver,    *)
(* internal/middleware/domain_resolver.go, which looks a request up in     *)
(* them.                                                                   *)
(*                                                                         *)
(* One goroutine loads and then watches the keys sites/{site_code}; it     *)
(* replaces both tables at once, under the write lock.  A request takes    *)
(* the read lock twice: for the site of its domain, then for the site's    *)
(* configuration.                                                          *)
(***************************************************************************)
EXTENDS Integers, Sequences, FiniteSets

CONSTANTS
  Keys,        \* site codes, numbered in the order in which Consul lists keys
  Configs,     \* the site configurations there are to publish
  Malformed,   \* a value that is not JSON
  Absent,      \* no value
  Hosts,       \* the hosts of requests
  Lower,       \* [Hosts -> names], lower case, without spaces, perhaps ""
  Covers,      \* <<*.suffix, name>> for a wildcard and a name below it
  Hints,       \* X-Site-Code and X-Site-Id of requests
  NoCode,      \* the empty site code
  Unset,       \* a context variable that was not set
  Requests,    \* the requests, each handled once
  MaxRetries,  \* 5 attempts at start-up
  MaxPublish   \* bound: changes to the key-value store

ASSUME WatcherAssumption ==
  /\ Keys \subseteq Nat
  /\ \A S \in SUBSET Keys : S # {} => \E k \in S : \A l \in S : l <= k  \* a list ends
  /\ NoCode \notin Keys
  /\ Malformed \notin Configs /\ Absent \notin Configs
  /\ MaxRetries \in Nat \ {0}
  /\ MaxPublish \in Nat

VARIABLES
  published,   \* Consul: every content of the store so far, the last is current
  pc,          \* where the watcher is
  attempt,     \* the attempts at start-up so far
  answer,      \* the content it was answered with, by its place in published
  cancelled,   \* dw.ctx is done
  domainMap,   \* name -> SiteInfo
  siteConfigs, \* key -> SiteConfig
  loaded,      \* history: the content the tables are from
  step,        \* where each request is
  host,        \* its host
  hint,        \* its explicit site
  since,       \* history: loaded when it arrived
  site,        \* the site_id and site_code it was given
  currency,    \* the currency it was given
  by           \* history: how its site was found

tables == <<domainMap, siteConfigs, loaded>>
watcherVars == <<pc, attempt, answer, cancelled>>
requestVars == <<step, host, hint, since, site, currency, by>>
vars == <<published, tables, watcherVars, requestVars>>

-----------------------------------------------------------------------------
(***************************************************************************)
(* processKVChanges builds the tables from the pairs listed under sites/.  *)
(* A malformed value is passed over, as is a key of more parts than a site *)
(* code.  The pairs come in the order of their keys, and a later one       *)
(* overwrites an earlier.                                                  *)
(***************************************************************************)
Values == Configs \cup {Malformed, Absent}

Sites(kv) == {k \in Keys : kv[k] \in Configs}
Listing(kv, name) == {k \in Sites(kv) : name \in kv[k].names}
NamesOf(kv) == UNION {kv[k].names : k \in Sites(kv)}

Owner(kv, name) ==
  CHOOSE k \in Listing(kv, name) : \A l \in Listing(kv, name) : l <= k

SiteInfo(config) == [id |-> config.id, code |-> config.code]

ConfigTable(kv) == [k \in Sites(kv) |-> kv[k]]
DomainTable(kv) ==
  [name \in NamesOf(kv) |-> SiteInfo(kv[Owner(kv, name)])]

(***************************************************************************)
(* matchSiteInfoByDomainLocked: the name itself, otherwise any wildcard    *)
(* that covers it; Go iterates over the map in no order.  The host is      *)
(* lowered first, and so are the wildcards (Covers); the other names stand *)
(* in the table as they were published.  An empty name matches nothing,    *)
(* even if a site publishes it.                                            *)
(***************************************************************************)
Wildcards(table, name) == {p \in DOMAIN table : <<p, name>> \in Covers}

Matches(table, h) ==
  IF Lower[h] = "" THEN {}
  ELSE IF Lower[h] \in DOMAIN table
  THEN {table[Lower[h]]}
  ELSE {table[p] : p \in Wildcards(table, Lower[h])}

CurrencyOf(configs, code) ==
  IF code \in DOMAIN configs THEN configs[code].currency ELSE Unset

-----------------------------------------------------------------------------
NoSite == [id |-> 0, code |-> NoCode]

Init ==
  /\ published = <<[k \in Keys |-> Absent]>>
  /\ pc = "load"
  /\ attempt = 0
  /\ answer = 1
  /\ cancelled = FALSE
  /\ domainMap = DomainTable(published[1])
  /\ siteConfigs = ConfigTable(published[1])
  /\ loaded = 1
  /\ step = [q \in Requests |-> "new"]
  /\ host \in [Requests -> Hosts]
  /\ hint \in [Requests -> Hints]
  /\ since = [q \in Requests |-> 1]
  /\ site = [q \in Requests |-> NoSite]
  /\ currency = [q \in Requests |-> Unset]
  /\ by = [q \in Requests |-> "none"]

(***************************************************************************)
(* Consul: somebody publishes or removes a site.                           *)
(***************************************************************************)
Current == published[Len(published)]

Publish(k) ==
  /\ Len(published) <= MaxPublish
  /\ \E value \in Values \ {Current[k]} :
       published' = Append(published, [Current EXCEPT ![k] = value])
  /\ UNCHANGED <<tables, watcherVars, requestVars>>

-----------------------------------------------------------------------------
(***************************************************************************)
(* InitDomainWatcher: up to MaxRetries attempts to load a table that is    *)
(* not empty, then the watcher is started whatever came of them.           *)
(***************************************************************************)
Fill(kv) ==
  /\ domainMap' = DomainTable(kv)
  /\ siteConfigs' = ConfigTable(kv)

\* Mutated: the attempts are not counted.
RetryForEver(filled) ==
  /\ attempt' = IF attempt = MaxRetries - 1 THEN 0 ELSE attempt + 1
  /\ pc' = IF filled THEN "watch" ELSE "load"

\* Mutated: one attempt more.
RetryOnceMore(filled) ==
  /\ attempt' = attempt + 1
  /\ pc' = IF filled \/ attempt = MaxRetries THEN "watch" ELSE "load"

Retry(filled) ==
  /\ attempt' = attempt + 1
  /\ pc' = IF filled \/ attempt' = MaxRetries THEN "watch" ELSE "load"

\* KV().List and processKVChanges; a table that is empty is tried again.
Load ==
  /\ pc = "load"
  /\ Fill(Current)
  /\ loaded' = Len(published)
  /\ Retry(NamesOf(Current) # {})
  /\ UNCHANGED <<published, answer, cancelled, requestVars>>

LoadFails ==
  /\ pc = "load"
  /\ Retry(FALSE)
  /\ UNCHANGED <<published, tables, answer, cancelled, requestVars>>

(***************************************************************************)
(* startWatching: a blocking query is answered when there is a change, and *)
(* with whatever there is after WaitTime; WaitIndex, which only decides    *)
(* how soon, is left out.  Every answer is processed, and an error is      *)
(* followed by a pause.                                                    *)
(***************************************************************************)
Reply ==
  /\ pc = "watch" /\ ~cancelled
  /\ answer' = Len(published)
  /\ pc' = "process"
  /\ UNCHANGED <<published, tables, attempt, cancelled, requestVars>>

\* Mutated: the error ends the watch.
QueryFailsForGood ==
  /\ pc = "watch" /\ ~cancelled
  /\ pc' = "stopped"
  /\ UNCHANGED <<published, tables, attempt, answer, cancelled,
                 requestVars>>

QueryFails ==
  /\ pc = "watch" /\ ~cancelled
  /\ pc' = "pause"
  /\ UNCHANGED <<published, tables, attempt, answer, cancelled,
                 requestVars>>

PauseOver ==
  /\ pc = "pause"
  /\ pc' = "watch"
  /\ UNCHANGED <<published, tables, attempt, answer, cancelled,
                 requestVars>>

\* Mutated: what is no longer published stays in the domain table.
ProcessAdds ==
  LET kv == published[answer]
      new == DomainTable(kv)
  IN  /\ pc = "process"
      /\ domainMap' = [name \in DOMAIN new \cup DOMAIN domainMap |->
                         IF name \in DOMAIN new THEN new[name]
                         ELSE domainMap[name]]
      /\ siteConfigs' = ConfigTable(kv)
      /\ loaded' = answer
      /\ pc' = "watch"
      /\ UNCHANGED <<published, attempt, answer, cancelled,
                     requestVars>>

\* processKVChanges under the write lock.
Process ==
  /\ pc = "process"
  /\ Fill(published[answer])
  /\ loaded' = answer
  /\ pc' = "watch"
  /\ UNCHANGED <<published, attempt, answer, cancelled, requestVars>>

\* StopDomainWatcher, which the loop notices before its next query.
Stop ==
  /\ ~cancelled
  /\ cancelled' = TRUE
  /\ UNCHANGED <<published, tables, pc, attempt, answer, requestVars>>

Stopped ==
  /\ pc = "watch" /\ cancelled
  /\ pc' = "stopped"
  /\ UNCHANGED <<published, tables, attempt, answer, cancelled,
                 requestVars>>

-----------------------------------------------------------------------------
(***************************************************************************)
(* DomainResolver.  The server is started when InitDomainWatcher is over.  *)
(***************************************************************************)
GoTo(q, label) == step' = [step EXCEPT ![q] = label]

Resolve(q, s, how) ==
  /\ site' = [site EXCEPT ![q] = s]
  /\ by' = [by EXCEPT ![q] = how]

Arrive(q) ==
  /\ step[q] = "new" /\ pc # "load"
  /\ since' = [since EXCEPT ![q] = loaded]
  /\ GoTo(q, "lookUp")
  /\ UNCHANGED <<published, tables, watcherVars, host, hint, site, currency, by>>

\* Mutated: an explicit site code comes first.
LookUpHintFirst(q) ==
  /\ step[q] = "lookUp"
  /\ IF hint[q].code # NoCode \/ Matches(domainMap, host[q]) = {}
     THEN GoTo(q, "hint") /\ UNCHANGED <<site, by>>
     ELSE /\ \E s \in Matches(domainMap, host[q]) : Resolve(q, s, "domain")
          /\ GoTo(q, "config")
  /\ UNCHANGED <<published, tables, watcherVars, host, hint, since, currency>>

\* GetSiteInfoByDomain, under the first read lock.
LookUp(q) ==
  /\ step[q] = "lookUp"
  /\ IF Matches(domainMap, host[q]) = {}
     THEN GoTo(q, "hint") /\ UNCHANGED <<site, by>>
     ELSE /\ \E s \in Matches(domainMap, host[q]) : Resolve(q, s, "domain")
          /\ GoTo(q, "config")
  /\ UNCHANGED <<published, tables, watcherVars, host, hint, since, currency>>

\* GetSiteConfig, under the second read lock.
ReadConfig(q) ==
  /\ step[q] = "config"
  /\ currency' = [currency EXCEPT ![q] = CurrencyOf(siteConfigs, site[q].code)]
  /\ GoTo(q, "done")
  /\ UNCHANGED <<published, tables, watcherVars, host, hint, since, site, by>>

\* resolveSiteFromRequest: a known site code, a site id, or neither.
UseHint(q) ==
  LET h == hint[q]
  IN  /\ step[q] = "hint"
      /\ IF h.code \in DOMAIN siteConfigs
         THEN LET config == siteConfigs[h.code]
              IN  /\ Resolve(q, [id |-> config.id,
                                 code |-> IF config.code = NoCode
                                          THEN h.code ELSE config.code], "code")
                  /\ currency' = [currency EXCEPT ![q] = config.currency]
         ELSE /\ IF h.id > 0
                 THEN Resolve(q, [id |-> h.id, code |-> h.code], "id")
                 ELSE Resolve(q, NoSite, "default")
              /\ currency' = [currency EXCEPT ![q] = ""]
      /\ GoTo(q, "done")
      /\ UNCHANGED <<published, tables, watcherVars, host, hint, since>>

\* The watcher is stopped and every request has been resolved.
Finished ==
  /\ pc = "stopped"
  /\ \A q \in Requests : step[q] = "done"
  /\ UNCHANGED vars

-----------------------------------------------------------------------------
Watch == Reply \/ QueryFails \/ PauseOver \/ Process \/ Stop \/ Stopped

Next ==
  \/ \E k \in Keys : Publish(k)
  \/ Load \/ LoadFails
  \/ Watch
  \/ \E q \in Requests : Arrive(q) \/ LookUp(q) \/ ReadConfig(q) \/ UseHint(q)
  \/ Finished

Spec == Init /\ [][Next]_vars

(***************************************************************************)
(* The watcher's goroutine runs, and Consul, asked again and again, does   *)
(* not fail for ever.                                                      *)
(***************************************************************************)
FairSpec ==
  /\ Spec
  /\ WF_vars(Load \/ LoadFails)
  /\ SF_vars(Reply)
  /\ WF_vars(Process)
  /\ WF_vars(PauseOver)

-----------------------------------------------------------------------------
Places == {"load", "watch", "process", "pause", "stopped"}

\* Types; the answer being processed is no older than the tables.
TypeOK ==
  /\ published \in Seq([Keys -> Values])
  /\ {answer, loaded} \subseteq 1..Len(published)
  /\ pc = "process" => loaded <= answer
  /\ pc \in Places
  /\ attempt \in 0..MaxRetries
  /\ cancelled \in BOOLEAN
  /\ step \in [Requests -> {"new", "lookUp", "config", "hint", "done"}]
  /\ since \in [Requests -> 1..loaded]
  /\ by \in [Requests -> {"none", "domain", "code", "id", "default"}]

\* The sites whose names include h in lower case, the wildcards only if no
\* site has it as it is; a request without a host has none.
SitesOf(kv, h) ==
  LET exact == {k \in Sites(kv) : Lower[h] \in kv[k].names}
      below(k) == {p \in kv[k].names : <<p, Lower[h]>> \in Covers}
  IN  {SiteInfo(kv[k]) :
         k \in IF Lower[h] = "" THEN {}
               ELSE IF exact # {} THEN exact
               ELSE {k \in Sites(kv) : below(k) # {}}}

ByDomain(q) == step[q] = "done" /\ by[q] = "domain"

HasSite(q, v) == site[q] \in SitesOf(published[v], host[q])
HasCurrency(q, v) ==
  currency[q] = CurrencyOf(ConfigTable(published[v]), site[q].code)

\* A request resolved by its domain was given a site that had the domain in
\* some content loaded when it arrived or later, and the currency of that site
\* in the same content or a later one: never what the tables had forgotten
\* before the request arrived.
ResolvedFromPublished ==
  \A q \in Requests : ByDomain(q) =>
    \E v \in since[q]..loaded : HasSite(q, v) /\ \E w \in v..loaded : HasCurrency(q, w)

\* Site and currency of a request are those of one content
\* (DOMAIN_MAPPING_README.md: read and write lock make concurrency safe).
ResolvedTogether ==
  \A q \in Requests : ByDomain(q) =>
    \E v \in since[q]..loaded : HasSite(q, v) /\ HasCurrency(q, v)

\* What the request says of its site counts only for a host without a site
\* (domain_resolver.go:49-56).
HintOnlyForUnknownHosts ==
  \A q \in Requests : step[q] = "done" /\ by[q] # "domain" =>
    \E v \in since[q]..loaded : SitesOf(published[v], host[q]) = {}

\* The gateway starts serving, whether or not Consul answers or has any site
\* (domain_watcher.go:105-111).
StartsUp == <>(pc # "load")

\* Whatever is published is loaded, or overtaken, unless the watcher is
\* stopped, also when queries fail, at start-up or later
\* (domain_watcher.go:145-153).
Converges ==
  \A v \in 2..(MaxPublish + 1) :
    Len(published) >= v ~> loaded >= v \/ cancelled
=============================================================================
