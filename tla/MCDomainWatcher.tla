-------------------------- MODULE MCDomainWatcher ---------------------------
(***************************************************************************)
(* Instances of DomainWatcher for TLC: two sites, one name, the wildcard   *)
(* below it, and the empty name.                                           *)
(***************************************************************************)
EXTENDS DomainWatcher, TLC

Site(id, code, money, names) ==
  [id |-> id, code |-> code, currency |-> money, names |-> names]

\* Two configurations of the first site, one of the second.
MCConfigs ==
  {Site(1, 1, "CNY", {"a.com"}),
   Site(1, 1, "USD", {"a.com", "*.a.com"}),
   Site(2, 2, "EUR", {"*.a.com", ""})}

\* One configuration of each.
FewConfigs == {Site(1, 1, "CNY", {"a.com"}), Site(1, 1, "USD", {"a.com"})}

MCHosts == {"A.com", "x.a.com", " "}
MCLower == [h \in MCHosts |-> CASE h = "A.com" -> "a.com" [] h = " " -> "" [] OTHER -> h]
MCCovers == {<<"*.a.com", "x.a.com">>}

\* No hint, a site code, a code nobody has with a site id.
MCHints ==
  {[code |-> NoCode, id |-> 0], [code |-> 2, id |-> 0], [code |-> 3, id |-> 7]}

NoHints == {[code |-> NoCode, id |-> 0]}
=============================================================================
