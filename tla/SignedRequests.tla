-------------------------- MODULE SignedRequests ---------------------------
(***************************************************************************)
(* The signature check of the front-end requests (api_signature.go) and    *)
(* the signing sessions it relies on (sign_session.go).                    *)
(*                                                                         *)
(* A client opens a session, signs a request with its key, its own clock   *)
(* and a nonce, and the network delivers copies of the request.  Redis     *)
(* keeps sessions and nonces, each up to a last moment.  The HMAC of a     *)
(* genuine copy is right, so its computation, the format of its headers    *)
(* and the bearer token of the session are left out, and so are the paths  *)
(* that are served unsigned: nothing is promised about them.               *)
(***************************************************************************)
EXTENDS Integers

CONSTANTS
  Requests,     \* requests a client signs once
  Copies,       \* deliveries of signed requests
  Sessions,     \* X-Key-Id
  NoKey,        \* the header is absent: a static secret of the application
  Nonces,       \* X-Nonce
  Apps,         \* application ids a client names
  NoApp,        \* no application id given: no header, no app_id in the body
  EmptyApp,     \* an app_id that is the empty string
  NilText,      \* "<nil>", what fmt.Sprint makes of an absent app_id
  DefaultApp,   \* apiSignature.defaultAppId
  Skew,         \* apiSignature.allowedTimeSkewSeconds
  NonceTTL,     \* apiSignature.nonceTTLSeconds
  SessionTTL,   \* apiSignature.frontendSessionTTLSeconds
  MaxTime,      \* bound: the clock stops here
  MaxAhead,     \* bound: how far a client's clock may be ahead
  MaxFaults     \* bound: Redis calls that fail

ASSUME TimesAssumption ==
  /\ Skew \in Nat /\ NonceTTL \in Nat /\ SessionTTL \in Nat
  /\ MaxTime \in Nat /\ MaxAhead \in Nat /\ MaxFaults \in Nat

ASSUME NamesAssumption ==
  /\ NoKey \notin Sessions /\ DefaultApp \in Apps
  /\ NoApp \notin Apps /\ EmptyApp \notin Apps /\ NilText \notin Apps
  /\ NilText # NoApp /\ EmptyApp # NoApp
  /\ Nonces # {}
  /\ Sessions \cap Apps = {}  \* a session's scope is "sid:" and its key

Keys == Sessions \cup {NoKey}
Named == Apps \cup {NoApp}
Scopes == Sessions \cup Apps

VARIABLES
  clock,    \* the time of the gateway and of Redis
  session,  \* per session: its application, the header of its opener, its end
  signed,   \* per request: what the client signed, and when by its clock
  nonce,    \* per scope and nonce: the last moment Redis remembers it
  pc,       \* per copy: the next step of ApiSignature, or its answer
  of,       \* per copy: the request it is a copy of
  checked,  \* per copy: the moment its timestamp was compared with the clock
  at,       \* history, per copy: the moment it was let through
  faults    \* Redis calls that have failed

vars == <<clock, session, signed, nonce, pc, of, checked, at, faults>>

Closed == [open |-> FALSE, app |-> NoApp, header |-> NoApp, until |-> 0]
Unsigned == [sent |-> FALSE, ts |-> 0, key |-> NoKey, header |-> NoApp,
             nonce |-> CHOOSE n \in Nonces : TRUE]

Init ==
  /\ clock = 0
  /\ session = [k \in Sessions |-> Closed]
  /\ signed = [q \in Requests |-> Unsigned]
  /\ nonce = [x \in Scopes \X Nonces |-> -1]
  /\ pc = [c \in Copies |-> "away"]
  /\ of \in [Copies -> Requests]
  /\ checked = [c \in Copies |-> 0]
  /\ at = [c \in Copies |-> 0]
  /\ faults = 0

-----------------------------------------------------------------------------
(***************************************************************************)
(* FrontendSignSessionHandler.  fmt.Sprint makes "<nil>" of an absent      *)
(* app_id, which is not empty: only an app_id that is given and empty      *)
(* leaves the choice to the header and to the default.                     *)
(***************************************************************************)
SessionAppNoDefault(body, header) ==
  CASE body = NoApp -> NilText
    [] body = EmptyApp /\ header # NoApp -> header
    [] OTHER -> body

SessionApp(body, header) ==
  CASE body = NoApp -> NilText
    [] body \in Apps -> body
    [] body = EmptyApp /\ header # NoApp -> header
    [] OTHER -> DefaultApp

\* The session is stored and its key answered; when the SET fails, no key is.
OpenSession(k, body, header) ==
  /\ ~session[k].open
  /\ session' = [session EXCEPT ![k] =
                   [open |-> TRUE, app |-> SessionApp(body, header),
                    header |-> header, until |-> clock + SessionTTL]]
  /\ UNCHANGED <<clock, signed, nonce, pc, of, checked, at, faults>>

-----------------------------------------------------------------------------
(***************************************************************************)
(* ApiSignature.                                                           *)
(***************************************************************************)
\* The application the header names; as a mutant of Scope, the session is not part of it.
AppScope(q) ==
  IF signed[q].header = NoApp THEN DefaultApp ELSE signed[q].header

\* nonceScope: the session, or else the application the header names, known or
\* not (an unknown one is checked with the default's secret).  The header is
\* not among what is signed, but a copy is exact here: it has its request's.
Scope(q) ==
  IF signed[q].key # NoKey THEN signed[q].key ELSE AppScope(q)

NonceKey(q) == <<Scope(q), signed[q].nonce>>

\* The client signs with a session it has or the static secret, by its own
\* clock, and never uses a nonce twice with one key.
Sign(q, k, header, n, ts) ==
  /\ ~signed[q].sent
  /\ k \in Sessions => session[k].open
  /\ signed' = [signed EXCEPT ![q] =
        [sent |-> TRUE, ts |-> ts, key |-> k, header |-> header, nonce |-> n]]
  /\ \A p \in Requests : signed[p].sent /\ signed[p].key = k => signed[p].nonce # n
  /\ UNCHANGED <<clock, session, nonce, pc, of, checked, at, faults>>

Answer(c, a) == pc' = [pc EXCEPT ![c] = a]

InWindow(ts) == clock - ts <= Skew /\ ts - clock <= Skew

\* A copy arrives and its timestamp is compared with the clock.
CheckWindow(c) ==
  LET q == signed[of[c]] IN
  /\ pc[c] = "away" /\ q.sent
  /\ checked' = [checked EXCEPT ![c] = clock]
  /\ Answer(c, IF ~InWindow(q.ts) THEN "expired"
               ELSE IF q.key = NoKey THEN "nonce" ELSE "session")
  /\ UNCHANGED <<clock, session, signed, nonce, of, at, faults>>

Mismatch(q, s) == q.header # NoApp /\ q.header # s.app

\* Redis is asked for the session; the HMAC of a genuine copy is right.
LookUpSession(c) ==
  LET q == signed[of[c]]
      s == session[q.key] IN
  /\ pc[c] = "session"
  /\ Answer(c, IF clock > s.until THEN "noSession"
               ELSE IF Mismatch(q, s) THEN "mismatch" ELSE "nonce")
  /\ UNCHANGED <<clock, session, signed, nonce, of, checked, at, faults>>

LookUpFails(c) ==
  /\ pc[c] = "session" /\ faults < MaxFaults
  /\ faults' = faults + 1
  /\ Answer(c, "noSession")
  /\ UNCHANGED <<clock, session, signed, nonce, of, checked, at>>

\* Redis keeps a key through its last moment.
Kept(x) == clock <= nonce[x]
Remember(x) == nonce' = [nonce EXCEPT ![x] = clock + NonceTTL]

LetThroughAnyway(c) ==
  /\ pc[c] = "nonce"
  /\ Remember(NonceKey(of[c]))
  /\ at' = [at EXCEPT ![c] = clock]
  /\ Answer(c, "performed")
  /\ UNCHANGED <<clock, session, signed, of, checked, faults>>

\* SET NX EX answers OK, and the request goes on to be performed.
LetThrough(c) ==
  /\ pc[c] = "nonce" /\ ~Kept(NonceKey(of[c]))
  /\ Remember(NonceKey(of[c]))
  /\ at' = [at EXCEPT ![c] = clock]
  /\ Answer(c, "performed")
  /\ UNCHANGED <<clock, session, signed, of, checked, faults>>

\* SET NX EX answers nil.
RefuseRepeat(c) ==
  /\ pc[c] = "nonce" /\ Kept(NonceKey(of[c]))
  /\ Answer(c, "repeated")
  /\ UNCHANGED <<clock, session, signed, nonce, of, checked, at, faults>>

\* The SET fails or its answer is lost, after it has or has not set the key.
SetFails(c) ==
  /\ pc[c] = "nonce" /\ faults < MaxFaults
  /\ faults' = faults + 1
  /\ \/ UNCHANGED nonce
     \/ ~Kept(NonceKey(of[c])) /\ Remember(NonceKey(of[c]))
  /\ Answer(c, "error")
  /\ UNCHANGED <<clock, session, signed, of, checked, at>>

Tick ==
  /\ clock < MaxTime
  /\ clock' = clock + 1
  /\ UNCHANGED <<session, signed, nonce, pc, of, checked, at, faults>>

Finished == clock = MaxTime /\ UNCHANGED vars

Next ==
  \/ \E k \in Sessions, body \in Named \cup {EmptyApp}, header \in Named :
       OpenSession(k, body, header)
  \/ \E q \in Requests, k \in Keys, header \in Named, n \in Nonces,
        ts \in 0..(clock + MaxAhead) : Sign(q, k, header, n, ts)
  \/ \E c \in Copies :
       \/ CheckWindow(c) \/ LookUpSession(c) \/ LookUpFails(c)
       \/ LetThrough(c) \/ RefuseRepeat(c) \/ SetFails(c)
  \/ Tick \/ Finished

Spec == Init /\ [][Next]_vars

-----------------------------------------------------------------------------
(***************************************************************************)
(* Properties.                                                             *)
(***************************************************************************)
Labels == {"away", "session", "nonce", "performed", "expired", "noSession",
           "mismatch", "repeated", "error"}

\* The variables have their types, and the clock has reached every moment
\* they record (api_signature.go:56-205).
TypeOK ==
  /\ clock \in 0..MaxTime
  /\ session \in [Sessions -> [open : BOOLEAN,
                               app : Named \cup {NilText},
                               header : Named, until : Nat]]
  /\ signed \in [Requests -> [sent : BOOLEAN, ts : Nat, key : Keys,
                              header : Named, nonce : Nonces]]
  /\ nonce \in [Scopes \X Nonces -> Nat \cup {-1}]
  /\ pc \in [Copies -> Labels]
  /\ of \in [Copies -> Requests]
  /\ checked \in [Copies -> 0..clock]
  /\ at \in [Copies -> 0..clock]
  /\ faults \in 0..MaxFaults

\* A request is performed a second time only when the later copy was held
\* between the two checks for longer than the client's clock was behind at
\* the first, plus what the nonce is kept beyond the window: never, unless a
\* copy is held or the client's clock is ahead (api_signature.go:106, 322).
RepeatsOnlyHeldOrAhead ==
  \A c, d \in Copies :
    c # d /\ of[c] = of[d] /\ pc[c] = "performed" /\ pc[d] = "performed"
          /\ at[c] <= at[d]
    => (at[d] - checked[d]) > (at[c] - signed[of[c]].ts) + (NonceTTL - Skew)

\* A copy is refused as a repetition only because a copy of the same request
\* has reached Redis before it, performed or lost in a fault: requests of
\* other sessions or applications do not count (api_signature.go:156, 323).
RefusedOnlyIfSeen ==
  \A c \in Copies :
    pc[c] = "repeated" =>
      \E d \in Copies \ {c} : of[d] = of[c] /\ pc[d] \in {"performed", "error"}

\* A client that names its application by the header X-App-Id, as the protocol
\* of ApiSignature says (api_signature.go:48-49), when it opens the session
\* and when it uses it, is not refused for another application.
SessionServesItsApp ==
  \A c \in Copies :
    LET q == signed[of[c]] IN
    pc[c] = "mismatch" => q.header # session[q.key].header
=============================================================================
