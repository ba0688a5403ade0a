----------------------------- MODULE MCPayments -----------------------------
(* One intent, two users, one of whom has an API key, and three calls; a    *)
(* body holds a negative amount, or one that overflows when multiplied; a   *)
(* logged call uses nothing, or less than a credit's worth.                 *)
EXTENDS Payments, TLC

CONSTANTS r1, r2, r3, i1, u1, u2, t1, t2

MCRequests == {r1, r2, r3}
MCUsers == {u1, u2}
MCTenantIds == {t1, t2}
MCTenant == u1 :> t1 @@ u2 :> t2
MCKeyed == {t2}
MCIntents == {i1}
MCHalfRange == 600
MCBodyAmounts == {-5, 6}
MCTokens == {0, 49}

Symmetry == Permutations(MCRequests)
=============================================================================
