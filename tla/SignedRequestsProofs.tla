----------------------- MODULE SignedRequestsProofs ------------------------
(***************************************************************************)
(* Proofs about SignedRequests, for any requests, copies, sessions, clocks *)
(* and faults.                                                             *)
(***************************************************************************)
EXTENDS SignedRequests, TLAPS

(***************************************************************************)
(* The inductive invariant.  What is remembered of a copy that was let     *)
(* through is its nonce, for NonceTTL from the moment it was: the key in   *)
(* Redis may be renewed later but never earlier, because SET NX writes     *)
(* only over a key that is gone.  And what Redis remembers was put there   *)
(* by a copy that was let through or lost its answer.                      *)
(***************************************************************************)
Came(c) == pc[c] # "away"
Passed(c) == pc[c] \in {"session", "nonce", "performed"}

\* A copy on its way was in the window when it was checked.
CheckedInWindow ==
  \A c \in Copies :
    /\ Came(c) => signed[of[c]].sent
    /\ Passed(c) => /\ checked[c] - signed[of[c]].ts <= Skew
                    /\ signed[of[c]].ts - checked[c] <= Skew

PerformedIsRemembered ==
  \A c \in Copies :
    pc[c] = "performed" =>
      /\ checked[c] <= at[c]
      /\ at[c] + NonceTTL <= nonce[NonceKey(of[c])]

RememberedCame ==
  \A x \in Scopes \X Nonces :
    nonce[x] # -1 =>
      \E d \in Copies : /\ pc[d] \in {"performed", "error"}
                        /\ NonceKey(of[d]) = x

\* Two requests of a client never have the same scope and nonce.
NoncesDiffer ==
  \A p, q \in Requests :
    signed[p].sent /\ signed[q].sent /\ NonceKey(p) = NonceKey(q) => p = q

IInv == /\ TypeOK /\ CheckedInWindow /\ PerformedIsRemembered
        /\ RememberedCame /\ NoncesDiffer
        /\ RepeatsOnlyHeldOrAhead /\ RefusedOnlyIfSeen

Step(c) == \/ CheckWindow(c) \/ LookUpSession(c) \/ LookUpFails(c)
           \/ LetThrough(c) \/ RefuseRepeat(c) \/ SetFails(c)

-----------------------------------------------------------------------------
\* The key of a request is one Redis may hold.
LEMMA NonceKeyType ==
  ASSUME TypeOK, NEW q \in Requests
  PROVE  NonceKey(q) \in Scopes \X Nonces
BY NamesAssumption DEF TypeOK, NonceKey, Scope, AppScope, Scopes, Keys, Named

LEMMA NonceKeySame ==
  ASSUME NEW q, UNCHANGED signed
  PROVE  NonceKey(q)' = NonceKey(q)
BY DEF NonceKey, Scope, AppScope

\* An unsigned request has the placeholder for a nonce.
LEMMA UnsignedType ==
  ASSUME NEW n \in Nonces
  PROVE  Unsigned.nonce \in Nonces
BY DEF Unsigned

\* The initial states satisfy the invariant.
LEMMA InitIInv == Init => IInv
<1> SUFFICES ASSUME Init PROVE IInv
  OBVIOUS
<1>1. TypeOK
  BY TimesAssumption, NamesAssumption, UnsignedType
  DEF Init, TypeOK, Closed, Unsigned, Keys, Named, Labels
<1>2. QED
  BY <1>1 DEF Init, IInv, CheckedInWindow, PerformedIsRemembered, RememberedCame, NoncesDiffer,
     RepeatsOnlyHeldOrAhead, RefusedOnlyIfSeen, Came, Passed, Unsigned

\* Every step of a copy keeps the types.
LEMMA StepTypeOK ==
  ASSUME TypeOK, NEW c \in Copies, Step(c)
  PROVE  TypeOK'
<1> USE TimesAssumption DEF TypeOK, Labels, Answer
<1>1. CASE CheckWindow(c)
  BY <1>1 DEF CheckWindow
<1>2. CASE LookUpSession(c)
  BY <1>2 DEF LookUpSession
<1>3. CASE LookUpFails(c)
  BY <1>3 DEF LookUpFails
<1>4. CASE LetThrough(c)
  BY <1>4, NonceKeyType DEF LetThrough, Remember
<1>5. CASE RefuseRepeat(c)
  BY <1>5 DEF RefuseRepeat
<1>6. CASE SetFails(c)
  BY <1>6, NonceKeyType DEF SetFails, Remember
<1>7. QED
  BY <1>1, <1>2, <1>3, <1>4, <1>5, <1>6 DEF Step

\* What a step of a copy changes, and what it does not: only its own place and moments, and of
\* what Redis remembers only its own nonce, which it prolongs.
LEMMA StepFrame ==
  ASSUME TypeOK, NEW c \in Copies, Step(c)
  PROVE  /\ UNCHANGED <<clock, session, signed, of>>
         /\ pc[c] \in {"away", "session", "nonce"}
         /\ \A d \in Copies \ {c} : pc'[d] = pc[d] /\ at'[d] = at[d] /\ checked'[d] = checked[d]
         /\ \A x \in Scopes \X Nonces :
              \/ nonce'[x] = nonce[x]
              \/ /\ x = NonceKey(of[c]) /\ pc'[c] \in {"performed", "error"}
                 /\ nonce[x] <= nonce'[x]
<1> USE TimesAssumption DEF TypeOK, Answer
<1>1. of[c] \in Requests /\ NonceKey(of[c]) \in Scopes \X Nonces
  BY NonceKeyType
<1>2. CASE CheckWindow(c)
  BY <1>2 DEF CheckWindow
<1>3. CASE LookUpSession(c)
  BY <1>3 DEF LookUpSession
<1>4. CASE LookUpFails(c)
  BY <1>4 DEF LookUpFails
<1>5. CASE LetThrough(c)
  BY <1>1, <1>5 DEF LetThrough, Remember, Kept
<1>6. CASE RefuseRepeat(c)
  BY <1>6 DEF RefuseRepeat
<1>7. CASE SetFails(c)
  BY <1>1, <1>7 DEF SetFails, Remember, Kept
<1>8. QED
  BY <1>2, <1>3, <1>4, <1>5, <1>6, <1>7 DEF Step

\* Every step of a copy preserves the invariant.
LEMMA StepIInv ==
  ASSUME IInv, NEW c \in Copies, Step(c)
  PROVE  IInv'
<1> USE TimesAssumption DEF IInv
<1>1. TypeOK'
  BY StepTypeOK
<1>2. /\ UNCHANGED <<clock, session, signed, of>>
      /\ pc[c] \in {"away", "session", "nonce"}
      /\ \A d \in Copies \ {c} : pc'[d] = pc[d] /\ at'[d] = at[d] /\ checked'[d] = checked[d]
  BY StepFrame
<1>3. \A x \in Scopes \X Nonces :
        \/ nonce'[x] = nonce[x]
        \/ x = NonceKey(of[c]) /\ pc'[c] \in {"performed", "error"} /\ nonce[x] <= nonce'[x]
  BY StepFrame
<1>4. \A q \in Requests : NonceKey(q)' = NonceKey(q) /\ NonceKey(q) \in Scopes \X Nonces
  BY <1>2, NonceKeySame, NonceKeyType
<1>5. \A d \in Copies : of[d] \in Requests /\ NonceKey(of[d])' = NonceKey(of[d])
                                         /\ NonceKey(of[d]) \in Scopes \X Nonces
  BY <1>2, <1>4 DEF TypeOK
<1>6. NoncesDiffer'
  BY <1>2, <1>4 DEF NoncesDiffer
<1>7. CheckedInWindow'
  <2>1. /\ signed[of[c]].sent
        /\ Passed(c)' => /\ checked'[c] - signed[of[c]].ts <= Skew
                         /\ signed[of[c]].ts - checked'[c] <= Skew
    BY <1>2 DEF Step, CheckWindow, LookUpSession, LookUpFails, LetThrough, RefuseRepeat, SetFails,
       Answer, InWindow, Passed, Came, CheckedInWindow, TypeOK
  <2>2. QED
    BY <1>2, <2>1 DEF CheckedInWindow, Came, Passed, TypeOK
<1>8. pc'[c] = "performed" =>
         /\ ~Kept(NonceKey(of[c]))
         /\ at'[c] = clock /\ checked'[c] = checked[c] /\ Passed(c)
         /\ nonce'[NonceKey(of[c])] = clock + NonceTTL
  BY <1>5 DEF Step, CheckWindow, LookUpSession, LookUpFails, LetThrough, RefuseRepeat, SetFails,
     Answer, Remember, TypeOK, Passed
<1>9. \A x \in Scopes \X Nonces : nonce[x] \in Int /\ nonce'[x] \in Int /\ nonce[x] <= nonce'[x]
  <2>1. nonce \in [Scopes \X Nonces -> Nat \cup {-1}] /\ nonce' \in [Scopes \X Nonces -> Nat \cup {-1}]
    BY <1>1 DEF TypeOK
  <2>2. QED
    BY <1>3, <2>1
<1>10. PerformedIsRemembered'
  <2> SUFFICES ASSUME NEW d \in Copies, pc'[d] = "performed"
               PROVE  /\ checked'[d] <= at'[d]
                      /\ at'[d] + NonceTTL <= nonce'[NonceKey(of[d])]
    BY <1>2, <1>5 DEF PerformedIsRemembered
  <2>1. CASE d = c
    BY <1>8, <2>1 DEF TypeOK
  <2>2. CASE d # c
    <3>1. /\ checked[d] <= at[d] /\ at[d] + NonceTTL <= nonce[NonceKey(of[d])]
          /\ checked'[d] = checked[d] /\ at'[d] = at[d]
      BY <1>2, <2>2 DEF PerformedIsRemembered
    <3>2. at[d] \in Int /\ nonce[NonceKey(of[d])] \in Int /\ nonce'[NonceKey(of[d])] \in Int
          /\ nonce[NonceKey(of[d])] <= nonce'[NonceKey(of[d])]
      BY <1>5, <1>9 DEF TypeOK
    <3>3. QED
      BY <3>1, <3>2
  <2>3. QED
    BY <2>1, <2>2
<1>11. RememberedCame'
  <2> SUFFICES ASSUME NEW x \in Scopes \X Nonces, nonce'[x] # -1
               PROVE  \E d \in Copies : pc'[d] \in {"performed", "error"} /\ NonceKey(of[d]) = x
    BY <1>2, <1>5 DEF RememberedCame
  <2>1. CASE nonce'[x] = nonce[x]
    BY <1>2, <2>1 DEF RememberedCame
  <2>2. CASE nonce'[x] # nonce[x]
    BY <1>3, <2>2
  <2>3. QED
    BY <2>1, <2>2
<1>12. RepeatsOnlyHeldOrAhead'
  <2> SUFFICES ASSUME NEW a \in Copies, NEW b \in Copies, a # b, of[a] = of[b],
                      pc'[a] = "performed", pc'[b] = "performed", at'[a] <= at'[b]
               PROVE  (at'[b] - checked'[b]) > (at'[a] - signed[of[a]].ts) + (NonceTTL - Skew)
    BY <1>2 DEF RepeatsOnlyHeldOrAhead
  <2>1. CASE a # c /\ b # c
    BY <1>2, <2>1 DEF RepeatsOnlyHeldOrAhead
  <2>2. CASE b = c
    <3>1. at[a] + NonceTTL <= nonce[NonceKey(of[b])]
      BY <1>2, <2>2 DEF PerformedIsRemembered
    <3>2. clock > nonce[NonceKey(of[b])] /\ at'[b] = clock /\ at'[a] = at[a]
          /\ checked'[b] = checked[b]
      BY <1>2, <1>5, <1>8, <1>9, <2>2 DEF Kept, TypeOK
    <3>3. checked[b] - signed[of[a]].ts <= Skew
      BY <1>8, <2>2 DEF CheckedInWindow
    <3>4. /\ at[a] \in Int /\ clock \in Int /\ checked[b] \in Int /\ signed[of[a]].ts \in Int
          /\ nonce[NonceKey(of[b])] \in Int
      BY <1>5, <1>9 DEF TypeOK
    <3>5. QED
      BY <3>1, <3>2, <3>3, <3>4
  <2>3. CASE a = c
    <3>1. at[b] + NonceTTL <= nonce[NonceKey(of[a])] /\ at'[b] = at[b] /\ at[b] <= clock
      BY <1>2, <2>3 DEF PerformedIsRemembered, TypeOK
    <3>2. clock > nonce[NonceKey(of[a])] /\ at'[a] = clock
      BY <1>5, <1>8, <1>9, <2>3 DEF Kept, TypeOK
    <3>3. at[b] \in Int /\ clock \in Int /\ nonce[NonceKey(of[a])] \in Int
      BY <1>5, <1>9 DEF TypeOK
    <3>4. QED
      BY <3>1, <3>2, <3>3
  <2>4. QED
    BY <2>1, <2>2, <2>3
<1>13. RefusedOnlyIfSeen'
  <2> SUFFICES ASSUME NEW a \in Copies, pc'[a] = "repeated"
               PROVE  \E d \in Copies \ {a} : of[d] = of[a] /\ pc'[d] \in {"performed", "error"}
    BY <1>2 DEF RefusedOnlyIfSeen
  <2>1. CASE a # c
    BY <1>2, <2>1 DEF RefusedOnlyIfSeen
  <2>2. CASE a = c
    <3>1. pc[c] = "nonce" /\ clock <= nonce[NonceKey(of[c])]
      BY <2>2 DEF Step, CheckWindow, LookUpSession, LookUpFails, LetThrough, RefuseRepeat, SetFails,
         Answer, TypeOK, Kept
    <3>2. nonce[NonceKey(of[c])] # -1
      BY <3>1 DEF TypeOK
    <3>3. PICK d \in Copies : pc[d] \in {"performed", "error"} /\ NonceKey(of[d]) = NonceKey(of[c])
      BY <1>5, <3>2 DEF RememberedCame
    <3>4. of[d] = of[c]
      BY <1>5, <3>1, <3>3 DEF NoncesDiffer, CheckedInWindow, Came
    <3>5. QED
      BY <1>2, <2>2, <3>1, <3>3, <3>4
  <2>3. QED
    BY <2>1, <2>2
<1>14. QED
  BY <1>1, <1>6, <1>7, <1>10, <1>11, <1>12, <1>13

\* Opening a session, signing and the passing of time preserve the invariant.
LEMMA OthersIInv ==
  ASSUME IInv, [Next]_vars, ~\E c \in Copies : Step(c)
  PROVE  IInv'
<1> USE TimesAssumption DEF IInv
<1>1. ASSUME NEW k \in Sessions, NEW body \in Named \cup {EmptyApp}, NEW header \in Named,
             OpenSession(k, body, header)
      PROVE  IInv'
  <2>1. SessionApp(body, header) \in Named \cup {NilText}
    BY NamesAssumption, <1>1 DEF SessionApp, Named
  <2>2. TypeOK'
    BY <1>1, <2>1 DEF OpenSession, TypeOK
  <2>3. \A q : NonceKey(q)' = NonceKey(q)
    BY <1>1, NonceKeySame DEF OpenSession
  <2>4. QED
    BY <1>1, <2>2, <2>3 DEF OpenSession, CheckedInWindow, PerformedIsRemembered, RememberedCame,
       NoncesDiffer, RepeatsOnlyHeldOrAhead, RefusedOnlyIfSeen, Came, Passed
<1>2. ASSUME NEW q \in Requests, NEW k \in Keys, NEW header \in Named, NEW n \in Nonces,
             NEW ts \in 0..(clock + MaxAhead), Sign(q, k, header, n, ts)
      PROVE  IInv'
  <2>1. TypeOK'
    BY <1>2 DEF Sign, TypeOK
  <2>2. /\ ~signed[q].sent /\ UNCHANGED <<clock, session, nonce, pc, of, checked, at, faults>>
        /\ \A p \in Requests \ {q} : signed'[p] = signed[p]
        /\ signed'[q] = [sent |-> TRUE, ts |-> ts, key |-> k, header |-> header, nonce |-> n]
        /\ \A p \in Requests : signed[p].sent /\ signed[p].key = k => signed[p].nonce # n
    BY <1>2 DEF Sign, TypeOK
  <2>3. \A p \in Requests \ {q} : NonceKey(p)' = NonceKey(p)
    BY <2>2 DEF NonceKey, Scope, AppScope
  <2>4. \A d \in Copies : Came(d) => of[d] \in Requests \ {q} /\ NonceKey(of[d])' = NonceKey(of[d])
    BY <2>2, <2>3 DEF CheckedInWindow, Came, TypeOK
  <2>5. NoncesDiffer'
    <3> SUFFICES ASSUME NEW p \in Requests \ {q}, signed[p].sent, NonceKey(p)' = NonceKey(q)'
                 PROVE  FALSE
      BY <2>2, <2>3 DEF NoncesDiffer
    <3>1. signed'[p] = signed[p] /\ signed[p].key \in Keys /\ signed[p].header \in Named
      BY <2>2 DEF TypeOK
    <3>2. signed[p].nonce = n /\ Scope(p)' = Scope(q)'
      BY <2>2, <3>1 DEF NonceKey
    <3>3. /\ Scope(p)' = IF signed[p].key # NoKey THEN signed[p].key
                         ELSE IF signed[p].header = NoApp THEN DefaultApp ELSE signed[p].header
          /\ Scope(q)' = IF k # NoKey THEN k ELSE IF header = NoApp THEN DefaultApp ELSE header
      BY <2>2, <3>1 DEF Scope, AppScope
    <3>4. signed[p].key = k
      BY NamesAssumption, <3>1, <3>2, <3>3 DEF Keys, Named
    <3>5. QED
      BY <2>2, <3>2, <3>4
  <2>6. CheckedInWindow' /\ PerformedIsRemembered' /\ RememberedCame'
    BY <2>2, <2>4 DEF CheckedInWindow, PerformedIsRemembered, RememberedCame, Came, Passed
  <2>7. RepeatsOnlyHeldOrAhead' /\ RefusedOnlyIfSeen'
    BY <2>2, <2>4 DEF RepeatsOnlyHeldOrAhead, RefusedOnlyIfSeen, Came
  <2>8. QED
    BY <2>1, <2>5, <2>6, <2>7
<1>3. CASE Tick
  <2>1. TypeOK'
    BY <1>3 DEF Tick, TypeOK
  <2>2. \A q : NonceKey(q)' = NonceKey(q)
    BY <1>3, NonceKeySame DEF Tick
  <2>3. QED
    BY <1>3, <2>1, <2>2 DEF Tick, CheckedInWindow, PerformedIsRemembered, RememberedCame,
       NoncesDiffer, RepeatsOnlyHeldOrAhead, RefusedOnlyIfSeen, Came, Passed
<1>4. CASE UNCHANGED vars
  <2>1. \A q : NonceKey(q)' = NonceKey(q)
    BY <1>4, NonceKeySame DEF vars
  <2>2. QED
    BY <1>4, <2>1 DEF vars, TypeOK, CheckedInWindow, PerformedIsRemembered, RememberedCame,
       NoncesDiffer, RepeatsOnlyHeldOrAhead, RefusedOnlyIfSeen, Came, Passed
<1>5. QED
  BY <1>1, <1>2, <1>3, <1>4 DEF Next, Finished, Step

LEMMA Invariance == Spec => []IInv
<1>1. Init => IInv
  BY InitIInv
<1>2. IInv /\ [Next]_vars => IInv'
  BY StepIInv, OthersIInv
<1>3. QED
  BY <1>1, <1>2, PTL DEF Spec

-----------------------------------------------------------------------------
(* Every variable of the signature check keeps its type, and no copy records a moment the clock
   has not reached. *)
THEOREM TypeCorrect == Spec => []TypeOK
BY Invariance, PTL DEF IInv

(* For any requests, copies, clocks and lifetimes, a second delivery is performed only in the
   case the two windows leave open: the copy was held between the checks, or the client's clock
   was ahead (api_signature.go:106, 322). *)
THEOREM RepeatsNeedDelay == Spec => []RepeatsOnlyHeldOrAhead
BY Invariance, PTL DEF IInv

(* No request is refused as the repetition of another (api_signature.go:156, 323). *)
THEOREM RefusalsAreRepetitions == Spec => []RefusedOnlyIfSeen
BY Invariance, PTL DEF IInv
=============================================================================
