------------------------------ MODULE Payments ------------------------------
(***************************************************************************)
(* The handlers that buy, give and charge credits.                         *)
(*                                                                         *)
(* Buying: a Stripe PaymentIntent is created, paid by the user at Stripe,  *)
(* and then confirmed by the client: the server asks Stripe for the        *)
(* intent's status, resolves the user's tenant and credits it.  HTTP and   *)
(* gRPC each have a confirm handler.  The server keeps no record of        *)
(* intents, and a client that got no answer, or an error, confirms again.  *)
(* The user and the amount of a confirm call come from its body: neither   *)
(* is compared with the intent's.                                          *)
(* Charging: a call of an API is logged, and its tokens are then deducted  *)
(* from the user's tenant; what goes wrong with that is only written to    *)
(* the server's log.  Giving: who reads their groups and looks new is      *)
(* given a welcome credit.                                                 *)
(*                                                                         *)
(* All of them change a balance through update_credit_balance, whose whole *)
(* run is one step here: CreditLedger shows that it may be.                *)
(***************************************************************************)
EXTENDS Integers, FiniteSets

CONSTANTS
  Requests,   \* calls
  Users,      \* e-mails
  TenantIds,  \* tenants
  Tenant,     \* the default tenant of each user
  Keyed,      \* the tenants with an active API key
  Intents,    \* PaymentIntents
  BodyAmounts, \* the amounts the body of a confirm call may hold
  HalfRange,  \* the width of an i64: from -HalfRange to HalfRange - 1
  Tokens      \* the tokens a logged call may have used

\* The ids of tenants are UUIDs: none is an e-mail.
ASSUME PaymentsAssumption ==
  /\ Tenant \in [Users -> TenantIds]
  /\ Users \cap TenantIds = {}
  /\ Keyed \subseteq TenantIds
  /\ HalfRange \in Nat \ {0}
  /\ BodyAmounts \subseteq -HalfRange..(HalfRange - 1)
  /\ Tokens \subseteq Nat

ConfirmRoutes == {"http", "grpc"}
WelcomeCredit == 500

\* i64 arithmetic, as a release build does it.
Wrapped(n) == ((n + HalfRange) % (2 * HalfRange)) - HalfRange

\* What a confirm call adds: HTTP the amount of the body, gRPC 100 times it.
CreditsFor(route, amount) == IF route = "http" THEN amount ELSE Wrapped(amount * 100)

\* Mutant: the minimum of one credit is gone.
CostByVolume(tokens) == tokens \div 50

\* 20 credits for 1000 tokens, at least one.
Cost(tokens) == IF tokens \in 1..49 THEN 1 ELSE tokens \div 50

\* Mutant: the history is given the route in place of the type.
RouteAsType(route) == route

\* The action_type the row in credit_transactions gets.
ActionType(route) ==
  CASE route = "http" -> "stripe_topup"
    [] route = "grpc" -> "topup"
    [] route = "usage" -> "api_usage"
    [] route = "groups" -> "welcome"

Opening == [t \in TenantIds |-> 0]
Amounts ==
  {CreditsFor(route, amount) : route \in ConfirmRoutes, amount \in BodyAmounts} \cup
  {-Cost(tokens) : tokens \in Tokens} \cup {WelcomeCredit}

VARIABLES
  status,  \* of each intent, at Stripe
  call,    \* the route of each call and what its body holds
  pc,      \* where its handler is
  balance, change, answer, \* the credits, as in Credits
  rows,    \* credit_transactions: the call and the action type
  logs,    \* api_usage_logs: the calls it has a row of
  receipts \* the calls a PaymentReceipt mail was handed over for

Ledger == INSTANCE Credits

ledgerVars == <<balance, change, answer>>
vars == <<status, call, pc, balance, change, answer, rows, logs, receipts>>

NoCall == [route |-> "none"]
Calls ==
  [route : ConfirmRoutes, user : Users, intent : Intents, amount : BodyAmounts] \cup
  [route : {"usage"}, user : Users, tokens : Tokens] \cup
  [route : {"groups"}, user : Users]

Route(r) == call[r].route
Intent(r) == call[r].intent
IsConfirm(r) == Route(r) \in ConfirmRoutes
Account(r) == Tenant[call[r].user]
Amount(r) ==
  CASE IsConfirm(r) -> CreditsFor(Route(r), call[r].amount)
    [] Route(r) = "usage" -> -Cost(call[r].tokens)
    [] Route(r) = "groups" -> WelcomeCredit

InFlight == {"retrieve", "log", "status", "resolve", "credit", "answer", "read"}
Ended == {"ok", "error", "lost"}
Goto(r, step) == pc' = [pc EXCEPT ![r] = step]

Init ==
  /\ status = [i \in Intents |-> "none"]
  /\ call = [r \in Requests |-> NoCall]
  /\ pc = [r \in Requests |-> "idle"]
  /\ rows = {}
  /\ logs = {}
  /\ receipts = {}
  /\ balance = Opening
  /\ change = [r \in Requests |-> Ledger!NoChange]
  /\ answer = [r \in Requests |-> "none"]

-----------------------------------------------------------------------------
(* Stripe and the clients.                                                 *)

CreateIntent(i) ==
  /\ status[i] = "none"
  /\ status' = [status EXCEPT ![i] = "requires_payment"]
  /\ UNCHANGED <<call, pc, ledgerVars, rows, logs, receipts>>

\* At Stripe, the user pays or the intent is cancelled: both are final.
Settle(i, result) ==
  /\ status[i] = "requires_payment"
  /\ status' = [status EXCEPT ![i] = result]
  /\ UNCHANGED <<call, pc, ledgerVars, rows, logs, receipts>>

\* A client confirms an intent it has created, whatever it did before: after
\* an error or a lost answer, from another window, too early, for any user
\* and any amount.
ConfirmPayment(r, c) ==
  /\ pc[r] = "idle"
  /\ c.route \in ConfirmRoutes
  /\ status[c.intent] # "none"
  /\ call' = [call EXCEPT ![r] = c]
  /\ Goto(r, "retrieve")
  /\ UNCHANGED <<status, ledgerVars, rows, logs, receipts>>

LogApiUsage(r, c) ==
  /\ pc[r] = "idle"
  /\ c.route = "usage"
  /\ call' = [call EXCEPT ![r] = c]
  /\ Goto(r, "log")
  /\ UNCHANGED <<status, ledgerVars, rows, logs, receipts>>

GetApiGroups(r, c) ==
  /\ pc[r] = "idle"
  /\ c.route = "groups"
  /\ call' = [call EXCEPT ![r] = c]
  /\ Goto(r, "status")
  /\ UNCHANGED <<status, ledgerVars, rows, logs, receipts>>

-----------------------------------------------------------------------------
(* The handlers, up to the tenant.                                         *)

\* Mutant: any intent Stripe knows will do.
RetrieveUnchecked(r) ==
  /\ pc[r] = "retrieve"
  /\ Goto(r, "resolve")
  /\ UNCHANGED <<status, call, ledgerVars, rows, logs, receipts>>

RetrieveSucceeded(r) ==
  /\ pc[r] = "retrieve"
  /\ status[Intent(r)] = "succeeded"
  /\ Goto(r, "resolve")
  /\ UNCHANGED <<status, call, ledgerVars, rows, logs, receipts>>

\* What the caller of the ledger is told of the credits.
Tell(r, result) == answer' = [answer EXCEPT ![r] = result]

Fail(r) ==
  /\ Tell(r, "error")
  /\ Goto(r, "error")
  /\ UNCHANGED <<status, call, balance, change, rows, receipts>>

\* Stripe is not reached, or the intent has not succeeded.
RetrieveFails(r) == pc[r] = "retrieve" /\ Fail(r) /\ UNCHANGED logs

\* The row of the call; without tokens that is all.
InsertLog(r) ==
  /\ pc[r] = "log"
  /\ logs' = logs \cup {r}
  /\ Goto(r, IF Cost(call[r].tokens) > 0 THEN "resolve" ELSE "ok")
  /\ UNCHANGED <<status, call, ledgerVars, rows, receipts>>

\* The error may come before the row is committed or after it.
InsertLogFails(r) ==
  /\ pc[r] = "log"
  /\ logs' \in {logs, logs \cup {r}}
  /\ Fail(r)

\* get_api_keys_status, an error of which counts as a new user's.
LooksNew(id) == id \in TenantIds => id \notin Keyed /\ balance[id] = 0

\* It takes the id of a tenant; the handler has the e-mail.
ReadKeysStatus(r) ==
  /\ pc[r] = "status"
  /\ Goto(r, IF LooksNew(call[r].user) THEN "resolve" ELSE "read")
  /\ UNCHANGED <<status, call, ledgerVars, rows, logs, receipts>>

\* get_default_tenant.
Resolve(r) ==
  /\ pc[r] = "resolve"
  /\ Goto(r, "credit")
  /\ UNCHANGED <<status, call, ledgerVars, rows, logs, receipts>>

-----------------------------------------------------------------------------
(* The handlers, from the credits on.                                      *)

\* No credits are changed, or it is not known whether they are.  A confirm
\* call is answered with the error, a logged call with Ok, and the reader of
\* the groups is still shown them.
CreditsFail(r) ==
  /\ IF IsConfirm(r) THEN Fail(r)
     ELSE /\ Tell(r, "error")
          /\ Goto(r, IF Route(r) = "usage" THEN "ok" ELSE "read")
          /\ UNCHANGED <<status, call, balance, change, rows, receipts>>
  /\ UNCHANGED logs

ResolveFails(r) == pc[r] = "resolve" /\ CreditsFail(r)

\* The change is committed.
Credit(r) ==
  /\ pc[r] = "credit"
  /\ balance' = [balance EXCEPT ![Account(r)] = @ + Amount(r)]
  /\ change' = [change EXCEPT ![r] = [tenant |-> Account(r), amount |-> Amount(r)]]
  /\ Goto(r, "answer")
  /\ UNCHANGED <<status, call, answer, rows, logs, receipts>>

\* Mutant: an error of the ledger is taken for a reason to try again.
RetryAfterError(r) ==
  /\ pc[r] \in {"credit", "answer"}
  /\ Goto(r, "credit")
  /\ UNCHANGED <<status, call, ledgerVars, rows, logs, receipts>>

\* The error may come before the change is committed or after it.
CreditFails(r) == pc[r] \in {"credit", "answer"} /\ CreditsFail(r)

\* Mutant: the mail and the Ok do not wait for the credits.
AnswerEarly(r) ==
  /\ pc[r] \in {"credit", "answer"}
  /\ answer' = [answer EXCEPT ![r] = "ok"]
  /\ Goto(r, "ok")
  /\ rows' = rows \cup {[req |-> r, action |-> ActionType(Route(r))]}
  /\ receipts' = IF Route(r) = "http" THEN receipts \cup {r} ELSE receipts
  /\ UNCHANGED <<status, call, balance, change, logs>>

\* Ok: the row is written, or its failure logged; HTTP mails a receipt.
AnswerOk(r) ==
  /\ pc[r] = "answer"
  /\ Tell(r, "ok")
  /\ Goto(r, IF Route(r) = "groups" THEN "read" ELSE "ok")
  /\ rows' \in {rows, rows \cup {[req |-> r, action |-> ActionType(Route(r))]}}
  /\ receipts' = IF Route(r) = "http" THEN receipts \cup {r} ELSE receipts
  /\ UNCHANGED <<status, call, balance, change, logs>>

\* get_api_groups_with_preferences; failing, it hides the credit just given.
ShowGroups(r) ==
  /\ pc[r] = "read"
  /\ \E result \in {"ok", "error"} : Goto(r, result)
  /\ UNCHANGED <<status, call, ledgerVars, rows, logs, receipts>>

Crash ==
  /\ \E r \in Requests : pc[r] \in InFlight
  /\ pc' = [r \in Requests |-> IF pc[r] \in InFlight THEN "lost" ELSE pc[r]]
  /\ UNCHANGED <<status, call, ledgerVars, rows, logs, receipts>>

Finished ==
  /\ \A r \in Requests : pc[r] \in Ended
  /\ UNCHANGED vars

Handle(r) ==
  \/ RetrieveSucceeded(r) \/ RetrieveFails(r)
  \/ InsertLog(r) \/ InsertLogFails(r)
  \/ ReadKeysStatus(r)
  \/ Resolve(r) \/ ResolveFails(r)
  \/ Credit(r) \/ CreditFails(r) \/ AnswerOk(r)
  \/ ShowGroups(r)

Next ==
  \/ \E i \in Intents : CreateIntent(i) \/ \E result \in {"succeeded", "canceled"} : Settle(i, result)
  \/ \E r \in Requests, c \in Calls : ConfirmPayment(r, c) \/ LogApiUsage(r, c) \/ GetApiGroups(r, c)
  \/ \E r \in Requests : Handle(r)
  \/ Crash
  \/ Finished

Spec == Init /\ [][Next]_vars

-----------------------------------------------------------------------------
(* What buying, giving and charging promise.                               *)

Changed(r) == change[r] # Ledger!NoChange

TypeOK ==
  /\ status \in [Intents -> {"none", "requires_payment", "succeeded", "canceled"}]
  /\ call \in [Requests -> Calls \cup {NoCall}]
  /\ pc \in [Requests -> {"idle"} \cup InFlight \cup Ended]
  /\ balance \in [TenantIds -> Int]
  /\ change \in [Requests -> [tenant : TenantIds, amount : Amounts] \cup {Ledger!NoChange}]
  /\ answer \in [Requests -> {"none", "ok", "error"}]
  /\ rows \subseteq [req : Requests, action : {"stripe_topup", "topup", "api_usage", "welcome"}]
  /\ logs \subseteq Requests
  /\ receipts \subseteq Requests

\* The status is read some awaits before the credit, calls of the same intent
\* come too early and late, and it may be cancelled: still, a purchase changes
\* credits only with an intent that has been paid, and only those of the
\* account it names.  It does not say by how much, or that the account is the
\* payer's: the handlers compare neither with the intent.
OnlyPaidIsCredited ==
  \A r \in Requests : Changed(r) /\ IsConfirm(r) =>
    /\ status[Intent(r)] = "succeeded"
    /\ change[r].tenant = Account(r)

\* A receipt, a row in the history and an Ok to a purchase all stand for
\* credits that are on the account.
AnswersAreBacked ==
  \A r \in Requests :
    (IsConfirm(r) /\ pc[r] = "ok") \/ r \in receipts \/ (\E row \in rows : row.req = r) => Changed(r)

\* Logging and charging are two operations, the second of which is allowed to
\* fail: still, nobody is charged for a call that is not in the usage log or
\* used nothing, and a logged call that used something is free only if the
\* charge failed.
ChargedAsLogged ==
  \A r \in Requests : Route(r) = "usage" =>
    /\ Changed(r) => r \in logs /\ call[r].tokens > 0 /\ change[r].amount < 0
    /\ pc[r] = "ok" /\ call[r].tokens > 0 /\ ~Changed(r) => answer[r] = "error"

\* The handlers implement Credits, whichever of their steps fails and on
\* whatever route: a call changes one balance at most, and once, is told Ok
\* only after that and told anything only once, and nothing is changed for it
\* after that.
CreditsAtMostOncePerCall == Ledger!Spec

-----------------------------------------------------------------------------
(* What the repository says and the code does not do.                      *)

\* stripe.guide: "Idempotency: Prevent duplicate credit additions".
NoDuplicateCredits ==
  \A q, r \in Requests :
    Changed(q) /\ Changed(r) /\ IsConfirm(q) /\ IsConfirm(r) /\ Intent(q) = Intent(r) => q = r

\* group_get.rs: "Check if this is a new user by looking for existing API
\* keys" and "Add default credit for new users".
OnlyNewUsersAreWelcomed ==
  \A r \in Requests : Changed(r) /\ Route(r) = "groups" => Account(r) \notin Keyed
=============================================================================
