------------------------------- MODULE MCKeys -------------------------------
(* A provider with a key of their own and a consumer of theirs.  Three calls *)
(* of those that meet on their accounts and keys, in three seconds and years *)
(* of two.                                                                  *)
EXTENDS Keys, TLC

CONSTANTS r1, r2, r3, a, b, k1, k2

MCRequests == {r1, r2, r3}
MCUsers    == {a, b}

MCOpening ==
  k1 :> [owner |-> a, tenant |-> a, provider |-> Nobody,
         expires |-> Never, active |-> TRUE] @@
  k2 :> [owner |-> b, tenant |-> b, provider |-> a,
         expires |-> Year, active |-> TRUE]

Generate(u, t, p) == [op |-> "generate", user |-> u, tenant |-> t, provider |-> p]
Validate(k, genuine, t) == [op |-> "validate", key |-> k, genuine |-> genuine, tenant |-> t]
Log(u, k, t) == [op |-> "log", user |-> u, key |-> k, tenant |-> t]

MCMenu ==
  {Generate(b, Nobody, Nobody), Generate(b, a, a),
   [op |-> "consumer", user |-> b, provider |-> a],
   [op |-> "revoke", user |-> b, key |-> k2],
   [op |-> "revoke_all", user |-> b],
   [op |-> "remove", user |-> a], [op |-> "remove", user |-> b],
   Validate(k1, FALSE, Nobody), Validate(k2, TRUE, b),
   Log(a, k1, a), Log(b, k2, Nobody)}
  \cup {Validate(r, TRUE, Nobody) : r \in MCRequests}
  \cup {Log(b, r, Nobody) : r \in MCRequests}

Symmetry == Permutations(MCRequests)
=============================================================================
