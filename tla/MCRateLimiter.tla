--------------------------- MODULE MCRateLimiter ---------------------------
(***************************************************************************)
(* Instances of RateLimiter for TLC.                                       *)
(***************************************************************************)
EXTENDS RateLimiter, TLC

MCAudiences == {"app", "manage"}

MCAudienceOf ==
  [p \in Paths |-> IF p = "/api/manage" THEN "manage" ELSE "app"]

\* Every path has the default limit.
MCRouteLimit == [p \in Paths |-> -1]

\* No path has a limit of its own: only the audience's global one counts.
NoPathLimit == [p \in Paths |-> 0]

\* A path of the app and one of the manage console.
BanPaths == {"/list", "/api/manage"}

\* One ordinary path.
ListPath == {"/list"}

\* All requests come from one client, whichever.  Bans of two clients do not
\* meet: every key of Redis names its client.
OneClientInit == Init /\ \A r, q \in Requests : IP(r) = IP(q)
BanSpec == OneClientInit /\ [][Next]_vars

RequestSymmetry == Permutations(Requests)
=============================================================================
