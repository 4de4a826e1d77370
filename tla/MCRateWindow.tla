--------------------------- MODULE MCRateWindow ----------------------------
(***************************************************************************)
(* Instances of RateWindow for TLC: one client, a fund path and an         *)
(* unlimited one.                                                          *)
(***************************************************************************)
EXTENDS RateWindow, TLC

MCAudiences == {"app"}
MCAudienceOf == [p \in Paths |-> "app"]

\* "/healthz" has no limit of its own, "/withdraw" the default one.
MCRouteLimit == [p \in Paths |-> IF p = "/healthz" THEN 0 ELSE -1]
CounterPaths == {"/withdraw", "/healthz"}

RequestSymmetry == Permutations(Requests)
=============================================================================
