-------------------------- MODULE MCEndpointStore --------------------------
(* Two users share a group with an endpoint; one has another of their own.  *)
(* Three calls, of those that meet on these ids and on one not yet used.    *)
EXTENDS EndpointStore, TLC

CONSTANTS r1, r2, r3, a, b, g1, g2, e1, e2, e3

MCRequests  == {r1, r2, r3}
MCUsers     == {a, b}
MCGroups    == {g1, g2}
MCEndpoints == {e1, e2, e3}
MCRenamed   == {a}
MCNobody    == {}

Tenant(u) == IF u \in Renamed THEN Other(u) ELSE Personal(u)

MCOpening ==
  GroupRow(g1) :> Tenant(a) @@ GroupRow(g2) :> Tenant(a) @@
  EndpointRow(e1) :> GroupRow(g1) @@ EndpointRow(e2) :> GroupRow(g2) @@
  LinkedGroup(a, g1) :> GroupRow(g1) @@ LinkedGroup(b, g1) :> GroupRow(g1) @@
  LinkedGroup(a, g2) :> GroupRow(g2) @@
  LinkedEndpoint(a, e1) :> EndpointRow(e1) @@ LinkedEndpoint(b, e1) :> EndpointRow(e1) @@
  LinkedEndpoint(a, e2) :> EndpointRow(e2) @@
  ParamsRow(e1) :> EndpointRow(e1) @@ ParamsRow(e2) :> EndpointRow(e2)

Asks(op, u, g, es) == [op |-> op, user |-> u, group |-> g, endpoints |-> es]

MCMenu == {
  Asks("delete_group", a, g1, {}),
  Asks("delete_group", b, g1, {}),
  Asks("update_group", a, g2, {e2, e3}),
  Asks("add_group", b, g1, {e3}),
  Asks("delete_endpoint", a, g1, {e1}),
  Asks("manage_endpoint", b, g1, {e2}),
  Asks("replace_groups", a, g2, {e2}),
  Asks("get_groups", b, g1, {}) }

Symmetry == Permutations(MCRequests)
=============================================================================
