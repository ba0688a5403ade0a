------------------------------ MODULE Credits -------------------------------
(***************************************************************************)
(* What update_credit_balance promises its callers, as if it were one      *)
(* atomic step: the change of a request is added to one tenant's balance   *)
(* at most once, an Ok answer means it was added, and an error answer says *)
(* nothing about whether it was.  A request may never be answered.         *)
(*                                                                         *)
(* CreditLedger implements this with three separate statements; Payments   *)
(* is built on it.                                                         *)
(***************************************************************************)
EXTENDS Integers

CONSTANTS
  Requests,  \* the calls
  TenantIds, \* the tenants a call may name
  Amounts,   \* the amounts a call may carry
  Opening    \* the balances before the first call

VARIABLES
  balance, \* the balance of each tenant
  change,  \* the committed change of each request, or NoChange
  answer   \* what each request was answered: "none" so far, "ok" or "error"

vars == <<balance, change, answer>>

NoChange == [amount |-> 0]

Init ==
  /\ balance = Opening
  /\ change = [r \in Requests |-> NoChange]
  /\ answer = [r \in Requests |-> "none"]

\* The change of r is committed: a is added to the balance of t.
Apply(r, t, a) ==
  /\ answer[r] = "none"
  /\ change[r] = NoChange
  /\ balance' = [balance EXCEPT ![t] = @ + a]
  /\ change' = [change EXCEPT ![r] = [tenant |-> t, amount |-> a]]
  /\ UNCHANGED answer

\* An Ok needs a committed change, an error needs nothing.
Answer(r, result) ==
  /\ answer[r] = "none"
  /\ result = "ok" => change[r] # NoChange
  /\ answer' = [answer EXCEPT ![r] = result]
  /\ UNCHANGED <<balance, change>>

\* (Which of the two it is shows in what changes; saying so spares a checker
\* the search for parameters.)
Next ==
  \/ /\ answer' # answer
     /\ \E r \in Requests, result \in {"ok", "error"} : Answer(r, result)
  \/ /\ change' # change
     /\ \E r \in Requests, t \in TenantIds, a \in Amounts : Apply(r, t, a)

Spec == Init /\ [][Next]_vars
=============================================================================
