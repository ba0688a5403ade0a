--------------------------- MODULE MCCreditLedger ---------------------------
(* Three concurrent credit requests on one tenant that starts two credits   *)
(* above the warning threshold and one that is created during the run.      *)
EXTENDS CreditLedger, TLC

CONSTANTS r1, r2, r3, t1, t2

MCRequests  == {r1, r2, r3}
MCTenantIds == {t1, t2}
MCInitial   == {t1}
MCOpening   == t1 :> 52 @@ t2 :> 0
MCAmounts   == {-10, 10}

\* Requests are interchangeable: no constant distinguishes one.
Symmetry == Permutations(MCRequests)
=============================================================================
