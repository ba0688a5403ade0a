----------------------------- MODULE MCMcpTools -----------------------------
(* Two calls that overlap, beside the administrator and the user; of the    *)
(* files, one holds an endpoint without a name, and one does not hold the   *)
(* other's second endpoint.                                                 *)
EXTENDS McpTools, TLC

CONSTANTS r1, r2, e1, e2, e3, n1, n2

MCRequests == {r1, r2}
MCEndpoints == {e1, e2, e3}
MCImports == {{e1, e2}, {e1, e3}}
MCNames == {n1, n2}
MCSlug == e1 :> n1 @@ e2 :> n2 @@ e3 :> NoName

Symmetry == Permutations(MCRequests)
=============================================================================
