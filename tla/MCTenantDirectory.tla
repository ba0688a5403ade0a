------------------------- MODULE MCTenantDirectory --------------------------
(* Two requests: of a user with credits from before tenants existed, who may *)
(* rename the tenant after another, and of that other, who may ask for the   *)
(* same client id.                                                           *)
EXTENDS TenantDirectory, TLC

CONSTANTS r1, r2, t1, t2, u1, u2, c1

MCUsers == {u1, u2}
MCRequests == {r1, r2}
MCTenantIds == {t1, t2}
MCClientIds == {c1}
MCPrefs == {u1}
MCLegacy == u1 :> 2 @@ u2 :> 0

Call(purpose, u, value) == [purpose |-> purpose, user |-> u, value |-> value]
MCMenu ==
  {Call("get", u1, None), Call("rename", u1, u2), Call("rename", u1, Other),
   Call("client", u1, c1), Call("client", u2, c1), Call("client", u1, None)}

\* Requests and UUIDs are interchangeable.
Symmetry == Permutations(MCRequests) \cup Permutations(MCTenantIds)
=============================================================================
