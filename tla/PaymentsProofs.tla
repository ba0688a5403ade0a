--------------------------- MODULE PaymentsProofs ---------------------------
(***************************************************************************)
(* Safety theorems of Payments, for any users, intents and numbers of      *)
(* tokens and any number of calls, and that its handlers use the ledger    *)
(* only as Credits lets them.                                              *)
(*                                                                         *)
(* The argument: a handler's step knows what the steps before it have seen *)
(* or done, and nothing that happens in between takes it back.             *)
(***************************************************************************)
EXTENDS Payments, TLAPS

Charging == {"resolve", "credit", "answer"}
Untold == {"idle", "retrieve", "log", "status", "resolve", "credit", "answer"}

\* What is known of a call at each step of its handler.
Knows(r) ==
  /\ pc[r] = "idle" => call[r] = NoCall /\ ~Changed(r)
  /\ pc[r] # "idle" => call[r] \in Calls
  /\ pc[r] = "retrieve" => IsConfirm(r)
  /\ pc[r] = "log" => Route(r) = "usage"
  /\ pc[r] \in {"status", "read"} => Route(r) = "groups"
  /\ pc[r] \in {"retrieve", "log", "status", "resolve", "credit"} => ~Changed(r)
  /\ pc[r] = "answer" => Changed(r)
  /\ pc[r] \in Untold => answer[r] = "none"
  /\ Changed(r) => change[r] = [tenant |-> Account(r), amount |-> Amount(r)]

\* A purchase on its way to the credits has been paid, a charge was logged.
Warranted(r) ==
  pc[r] \in Charging \/ Changed(r) =>
    /\ IsConfirm(r) => status[Intent(r)] = "succeeded"
    /\ Route(r) = "usage" => r \in logs /\ call[r].tokens > 0

\* What the caller, the mails and the history are told is so.
Told(r) ==
  /\ IsConfirm(r) /\ pc[r] = "ok" => Changed(r)
  /\ r \in receipts => Changed(r)
  /\ (\E row \in rows : row.req = r) => Changed(r)
  /\ Route(r) = "usage" /\ pc[r] = "ok" /\ call[r].tokens > 0 /\ ~Changed(r) => answer[r] = "error"

PayInv ==
  /\ TypeOK
  /\ \A r \in Requests : Knows(r) /\ Warranted(r) /\ Told(r)

-----------------------------------------------------------------------------
(* What a call carries.                                                    *)

\* 20 credits for 1000 tokens, at least one: nothing costs nothing only.
LEMMA CostIsPositive ==
  ASSUME NEW n \in Nat
  PROVE  /\ Cost(n) \in Nat
         /\ n > 0 <=> Cost(n) > 0
  <1>1. CASE n \in 1..49
    BY <1>1 DEF Cost
  <1>2. CASE n = 0
    BY <1>2 DEF Cost
  <1>3. CASE n >= 50
    <2>1. n \div 50 \in Nat /\ n \div 50 >= 1
      BY <1>3
    <2> QED
      BY <1>3, <2>1 DEF Cost
  <1> QED
    BY <1>1, <1>2, <1>3

\* A call names a user with a tenant, and, by its route, an intent and an
\* amount or the tokens it used.
LEMMA CallFacts ==
  ASSUME NEW c \in Calls
  PROVE  /\ c.user \in Users /\ Tenant[c.user] \in TenantIds
         /\ c.route \in {"http", "grpc", "usage", "groups"}
         /\ c.route \in ConfirmRoutes => c.intent \in Intents /\ c.amount \in BodyAmounts
         /\ c.route = "usage" => c.tokens \in Nat /\ c.tokens \in Tokens
  <1>1. CASE c \in [route : ConfirmRoutes, user : Users, intent : Intents, amount : BodyAmounts]
    <2>1. /\ c.route \in ConfirmRoutes /\ c.user \in Users
          /\ c.intent \in Intents /\ c.amount \in BodyAmounts
      BY <1>1
    <2>2. c.route \in {"http", "grpc"}
      BY <2>1 DEF ConfirmRoutes
    <2> QED
      BY <2>1, <2>2, PaymentsAssumption
  <1>2. CASE c \in [route : {"usage"}, user : Users, tokens : Tokens]
    <2>1. c.route = "usage" /\ c.user \in Users /\ c.tokens \in Tokens
      BY <1>2
    <2> QED
      BY <2>1, PaymentsAssumption DEF ConfirmRoutes
  <1>3. CASE c \in [route : {"groups"}, user : Users]
    <2>1. c.route = "groups" /\ c.user \in Users
      BY <1>3
    <2> QED
      BY <2>1, PaymentsAssumption DEF ConfirmRoutes
  <1> QED
    BY <1>1, <1>2, <1>3 DEF Calls

\* An i64 product is an integer again.
LEMMA WrappedIsInt ==
  ASSUME NEW n \in Int
  PROVE  Wrapped(n) \in Int
  <1>1. HalfRange \in Nat /\ 2 * HalfRange \in Nat /\ 2 * HalfRange > 0
    BY PaymentsAssumption
  <1>2. (n + HalfRange) % (2 * HalfRange) \in Int
    <2>1. \A a \in Int, b \in Nat \ {0} : a % b \in Int
      OBVIOUS
    <2> QED
      BY <1>1, <2>1
  <1> QED
    BY <1>1, <1>2 DEF Wrapped

\* A purchase is of any amount, a charge takes credits, a welcome is one
\* amount.
LEMMA AmountFacts ==
  ASSUME NEW r \in Requests, call[r] \in Calls
  PROVE  /\ Account(r) \in TenantIds
         /\ Amount(r) \in Int /\ Amount(r) \in Amounts
         /\ Route(r) = "usage" /\ call[r].tokens > 0 => Amount(r) < 0
  <1> PICK c \in Calls : c = call[r]
    OBVIOUS
  <1>1. Account(r) \in TenantIds
    BY CallFacts DEF Account
  <1>2. CASE IsConfirm(r)
    <2>1. c.amount \in BodyAmounts /\ c.route \in {"http", "grpc"}
      BY <1>2, CallFacts DEF IsConfirm, Route, ConfirmRoutes
    <2>2. c.amount \in Int /\ c.amount * 100 \in Int
      <3>1. -HalfRange..(HalfRange - 1) \subseteq Int
        BY PaymentsAssumption
      <3>2. c.amount \in Int
        BY <2>1, <3>1, PaymentsAssumption
      <3> QED
        BY <3>2
    <2>3. CreditsFor(c.route, c.amount) \in Int
      BY <2>2, WrappedIsInt DEF CreditsFor
    <2>4. Amount(r) = CreditsFor(c.route, c.amount)
      <3>1. Route(r) = c.route /\ Route(r) \notin {"usage", "groups"}
        BY <2>1 DEF Route
      <3>2. Amount(r) = CreditsFor(Route(r), c.amount)
        BY <1>2, <3>1 DEF Amount
      <3> QED
        BY <3>1, <3>2
    <2>5. Amount(r) \in Amounts
      BY <2>1, <2>4 DEF Amounts, ConfirmRoutes
    <2>7. Route(r) # "usage"
      BY <2>1 DEF Route
    <2> QED
      BY <1>1, <2>3, <2>4, <2>5, <2>7
  <1>3. CASE Route(r) = "usage"
    <2>1. c.tokens \in Nat /\ c.tokens \in Tokens
      BY <1>3, CallFacts DEF Route
    <2>2. ~IsConfirm(r)
      BY <1>3 DEF IsConfirm, ConfirmRoutes
    <2>3. Amount(r) = -Cost(c.tokens)
      BY <1>3, <2>2 DEF Amount
    <2>4. Amount(r) \in Amounts
      BY <2>1, <2>3 DEF Amounts
    <2>5. Cost(c.tokens) \in Nat /\ (c.tokens > 0 <=> Cost(c.tokens) > 0)
      BY <2>1, CostIsPositive
    <2> QED
      BY <1>1, <2>2, <2>3, <2>4, <2>5
  <1>4. CASE Route(r) = "groups"
    <2>1. ~IsConfirm(r) /\ Route(r) # "usage"
      BY <1>4 DEF IsConfirm, ConfirmRoutes
    <2>2. Amount(r) = WelcomeCredit
      BY <1>4, <2>1 DEF Amount
    <2> QED
      BY <1>1, <2>1, <2>2 DEF Amounts, WelcomeCredit
  <1> QED
    BY <1>2, <1>3, <1>4, CallFacts DEF IsConfirm, Route, ConfirmRoutes

-----------------------------------------------------------------------------
(* What is known of a call stays so while others move.                     *)

Own(r) == Knows(r) /\ Warranted(r) /\ Told(r)

\* Nothing of the call itself changes, no payment is taken back, and the log
\* only grows.
Untouched(r) ==
  /\ pc'[r] = pc[r] /\ call'[r] = call[r]
  /\ change'[r] = change[r] /\ answer'[r] = answer[r]
  /\ r \in receipts' => r \in receipts
  /\ (\E row \in rows' : row.req = r) => (\E row \in rows : row.req = r)
  /\ r \in logs => r \in logs'
  /\ \A i \in Intents : status[i] = "succeeded" => status'[i] = "succeeded"

LEMMA UntouchedKeeps ==
  ASSUME NEW r \in Requests, TypeOK, Own(r), Untouched(r)
  PROVE  Own(r)'
  <1>1. Route(r)' = Route(r) /\ Intent(r)' = Intent(r) /\ IsConfirm(r)' = IsConfirm(r)
    BY DEF Untouched, Route, Intent, IsConfirm
  <1>2. Changed(r)' = Changed(r)
    BY DEF Untouched, Changed, Ledger!NoChange
  <1>3. Account(r)' = Account(r)
    BY DEF Untouched, Account
  <1>4. Amount(r)' = Amount(r)
    BY <1>1 DEF Untouched, Amount
  <1>5. Knows(r)'
    BY <1>1, <1>2, <1>3, <1>4 DEF Own, Untouched, Knows
  <1>6. IsConfirm(r) => Intent(r) \in Intents
    <2>1. IsConfirm(r) => call[r] \in Calls
      BY DEF Own, Knows, TypeOK, IsConfirm, Route, ConfirmRoutes, NoCall
    <2> QED
      BY <2>1, CallFacts DEF IsConfirm, Route, Intent
  <1>7. Warranted(r)'
    BY <1>1, <1>2, <1>6 DEF Own, Untouched, Warranted
  <1>8. Told(r)'
    BY <1>1, <1>2 DEF Own, Untouched, Told
  <1> QED
    BY <1>5, <1>7, <1>8 DEF Own

-----------------------------------------------------------------------------
(* One lemma per action.                                                   *)

\* A step of r leaves the other calls alone.
LEMMA StepOf ==
  ASSUME PayInv, NEW r \in Requests, TypeOK', Own(r)',
         \A q \in Requests \ {r} : Untouched(q)
  PROVE  PayInv'
  <1>1. \A q \in Requests \ {r} : Own(q)'
    BY UntouchedKeeps DEF PayInv, Own
  <1> QED
    BY <1>1 DEF PayInv, Own

LEMMA OwnOf ==
  ASSUME PayInv, NEW r \in Requests
  PROVE  /\ TypeOK /\ Own(r)
         /\ pc[r] # "idle" => /\ call[r] \in Calls
                              /\ Account(r) \in TenantIds
                              /\ Amount(r) \in Int /\ Amount(r) \in Amounts
         /\ IsConfirm(r) => Intent(r) \in Intents
  <1>1. TypeOK /\ Own(r)
    BY DEF PayInv, Own
  <1>2. pc[r] # "idle" => call[r] \in Calls
    BY <1>1 DEF Own, Knows
  <1>3. IsConfirm(r) => call[r] \in Calls
    BY <1>1 DEF TypeOK, IsConfirm, Route, ConfirmRoutes, NoCall
  <1> QED
    BY <1>1, <1>2, <1>3, CallFacts, AmountFacts DEF IsConfirm, Route, Intent

LEMMA IntentSteps ==
  ASSUME PayInv, NEW i \in Intents, NEW result \in {"succeeded", "canceled"},
         CreateIntent(i) \/ Settle(i, result)
  PROVE  PayInv'
  <1>1. TypeOK'
    BY DEF PayInv, TypeOK, CreateIntent, Settle, ledgerVars
  <1>2. \A j \in Intents : status[j] = "succeeded" => status'[j] = "succeeded"
    BY DEF PayInv, TypeOK, CreateIntent, Settle
  <1>3. \A r \in Requests : Untouched(r)
    BY <1>2 DEF CreateIntent, Settle, ledgerVars, Untouched
  <1> QED
    BY <1>1, <1>3, UntouchedKeeps DEF PayInv, Own

LEMMA CallStarts ==
  ASSUME PayInv, NEW r \in Requests, NEW c \in Calls,
         ConfirmPayment(r, c) \/ LogApiUsage(r, c) \/ GetApiGroups(r, c)
  PROVE  PayInv'
  <1> DEFINE step == IF c.route = "usage" THEN "log" ELSE IF c.route = "groups" THEN "status" ELSE "retrieve"
  <1>1. /\ pc[r] = "idle" /\ pc' = [pc EXCEPT ![r] = step]
        /\ call' = [call EXCEPT ![r] = c]
        /\ UNCHANGED <<status, balance, change, answer, rows, logs, receipts>>
    BY CallFacts DEF ConfirmPayment, LogApiUsage, GetApiGroups, Goto, ledgerVars, ConfirmRoutes
  <1>2. step \in InFlight
    BY DEF InFlight
  <1>3. TypeOK'
    BY <1>1, <1>2 DEF PayInv, TypeOK
  <1>4. call'[r] = c /\ pc'[r] = step
    BY <1>1 DEF PayInv, TypeOK
  <1>5. ~Changed(r)' /\ r \notin receipts /\ ~\E row \in rows : row.req = r
    BY <1>1, OwnOf DEF Own, Knows, Told, Changed, Ledger!NoChange
  <1>6. answer'[r] = "none"
    BY <1>1, OwnOf DEF Own, Knows, Untold
  <1>7. Own(r)'
    <2>1. Route(r)' = c.route /\ (IsConfirm(r)' <=> c.route \in ConfirmRoutes)
      BY <1>4 DEF Route, IsConfirm
    <2>2. c.route \in {"http", "grpc", "usage", "groups"}
      BY CallFacts
    <2>3. Knows(r)'
      BY <1>4, <1>5, <1>6, <2>1, <2>2 DEF Knows, ConfirmRoutes
    <2>4. Warranted(r)'
      BY <1>4, <1>5 DEF Warranted, Charging
    <2>5. Told(r)'
      BY <1>1, <1>4, <1>5 DEF Told
    <2> QED
      BY <2>3, <2>4, <2>5 DEF Own
  <1>8. \A q \in Requests \ {r} : Untouched(q)
    BY <1>1 DEF PayInv, TypeOK, Untouched
  <1> QED
    BY <1>3, <1>7, <1>8, StepOf

\* The steps before the credits only move the call on, or log it.
LEMMA CallAdvances ==
  ASSUME PayInv, NEW r \in Requests,
         RetrieveSucceeded(r) \/ InsertLog(r) \/ ReadKeysStatus(r) \/ Resolve(r)
  PROVE  PayInv'
  <1>0. TypeOK /\ Own(r) /\ pc[r] # "idle" /\ call[r] \in Calls
    BY OwnOf DEF RetrieveSucceeded, InsertLog, ReadKeysStatus, Resolve
  <1>1. PICK step \in {"resolve", "ok", "read", "credit"} : pc' = [pc EXCEPT ![r] = step]
    BY DEF RetrieveSucceeded, InsertLog, ReadKeysStatus, Resolve, Goto
  <1>2. /\ UNCHANGED <<status, call, balance, change, answer, rows, receipts>>
        /\ logs \subseteq logs' /\ logs' \subseteq logs \cup {r}
    BY DEF RetrieveSucceeded, InsertLog, ReadKeysStatus, Resolve, ledgerVars
  <1>3. TypeOK'
    BY <1>0, <1>1, <1>2 DEF TypeOK, InFlight, Ended
  <1>4. pc'[r] = step
    BY <1>0, <1>1 DEF TypeOK
  <1>5. ~Changed(r) /\ pc[r] \in {"retrieve", "log", "status", "resolve"}
    BY <1>0 DEF RetrieveSucceeded, InsertLog, ReadKeysStatus, Resolve, Own, Knows
  <1>6. /\ Route(r)' = Route(r) /\ Intent(r)' = Intent(r) /\ IsConfirm(r)' = IsConfirm(r)
        /\ Changed(r)' = Changed(r) /\ call'[r] = call[r]
    BY <1>2 DEF Route, Intent, IsConfirm, Changed, Ledger!NoChange
  <1>7. r \notin receipts /\ ~\E row \in rows : row.req = r
    BY <1>0, <1>5 DEF Own, Told
  <1>8. /\ step \in {"resolve", "read", "credit"} \/ (step = "ok" /\ Route(r) = "usage" /\ ~(call[r].tokens > 0))
        /\ IsConfirm(r) /\ step \in Charging => status[Intent(r)] = "succeeded"
        /\ Route(r) = "usage" /\ step \in Charging => r \in logs' /\ call[r].tokens > 0
    <2>1. CASE RetrieveSucceeded(r)
      <3>1. step = "resolve" /\ status[Intent(r)] = "succeeded" /\ IsConfirm(r)
        BY <1>0, <1>4, <2>1 DEF RetrieveSucceeded, Goto, TypeOK, Own, Knows
      <3>2. Route(r) # "usage"
        BY <3>1 DEF IsConfirm, ConfirmRoutes
      <3> QED
        BY <3>1, <3>2
    <2>2. CASE InsertLog(r)
      <3>1. Route(r) = "usage" /\ ~IsConfirm(r)
        BY <1>0, <2>2 DEF InsertLog, Own, Knows, IsConfirm, ConfirmRoutes
      <3>2. call[r].tokens \in Nat
        BY <1>0, <3>1, CallFacts DEF Route
      <3>3. step = IF Cost(call[r].tokens) > 0 THEN "resolve" ELSE "ok"
        BY <1>0, <1>4, <2>2 DEF InsertLog, Goto, TypeOK
      <3>4. r \in logs'
        BY <2>2 DEF InsertLog
      <3> QED
        BY <3>1, <3>2, <3>3, <3>4, CostIsPositive DEF Charging
    <2>3. CASE ReadKeysStatus(r)
      <3>1. step \in {"resolve", "read"} /\ Route(r) = "groups" /\ ~IsConfirm(r)
        BY <1>0, <1>4, <2>3 DEF ReadKeysStatus, Goto, TypeOK, Own, Knows, IsConfirm, ConfirmRoutes
      <3> QED
        BY <3>1
    <2>4. CASE Resolve(r)
      <3>1. step = "credit" /\ pc[r] \in Charging
        BY <1>0, <1>4, <2>4 DEF Resolve, Goto, TypeOK, Charging
      <3> QED
        BY <1>0, <1>2, <3>1 DEF Own, Warranted
    <2> QED
      BY <2>1, <2>2, <2>3, <2>4
  <1>9. step = "read" => Route(r) = "groups"
    BY <1>0, <1>4 DEF RetrieveSucceeded, InsertLog, ReadKeysStatus, Resolve, Goto, TypeOK, Own, Knows
  <1>10. answer'[r] = "none"
    BY <1>0, <1>2, <1>5 DEF Own, Knows, Untold
  <1>11. Own(r)'
    <2>1. Knows(r)'
      BY <1>0, <1>4, <1>5, <1>6, <1>8, <1>9, <1>10 DEF Knows
    <2>2. Warranted(r)'
      BY <1>2, <1>4, <1>5, <1>6, <1>8 DEF Warranted
    <2>3. ~IsConfirm(r) \/ step # "ok"
      BY <1>8 DEF IsConfirm, ConfirmRoutes
    <2>4. Told(r)'
      BY <1>2, <1>4, <1>6, <1>7, <1>8, <2>3 DEF Told
    <2> QED
      BY <2>1, <2>2, <2>4 DEF Own
  <1>12. \A q \in Requests \ {r} : Untouched(q)
    BY <1>0, <1>1, <1>2 DEF TypeOK, Untouched
  <1> QED
    BY <1>3, <1>11, <1>12, StepOf

\* A call that has ended, or is past its charge, keeps what is known of it.
LEMMA CallEnds ==
  ASSUME PayInv, NEW r \in Requests, NEW step \in {"ok", "error", "lost", "read"},
         pc[r] \in InFlight, pc'[r] = step,
         call'[r] = call[r], change'[r] = change[r],
         status' = status, logs \subseteq logs',
         r \in receipts' => r \in receipts \/ Changed(r),
         (\E row \in rows' : row.req = r) => (\E row \in rows : row.req = r) \/ Changed(r),
         step = "read" => Route(r) = "groups",
         step = "ok" /\ IsConfirm(r) => Changed(r),
         step = "ok" /\ Route(r) = "usage" => Changed(r) \/ answer'[r] = "error"
  PROVE  Own(r)'
  <1>0. Own(r) /\ pc[r] # "idle" /\ call[r] \in Calls
    BY OwnOf DEF InFlight
  <1>1. Route(r)' = Route(r) /\ Intent(r)' = Intent(r) /\ IsConfirm(r)' = IsConfirm(r)
    BY DEF Route, Intent, IsConfirm
  <1>2. Changed(r)' = Changed(r) /\ Account(r)' = Account(r)
    BY DEF Changed, Ledger!NoChange, Account
  <1>3. Amount(r)' = Amount(r)
    BY <1>1 DEF Amount
  <1>4. Knows(r)'
    BY <1>0, <1>1, <1>2, <1>3 DEF Own, Knows, Untold
  <1>5. Warranted(r)'
    BY <1>0, <1>1, <1>2 DEF Own, Warranted, Charging
  <1>6. Told(r)'
    BY <1>0, <1>1, <1>2 DEF Own, Told
  <1> QED
    BY <1>4, <1>5, <1>6 DEF Own

LEMMA CallFails ==
  ASSUME PayInv, NEW r \in Requests,
         RetrieveFails(r) \/ InsertLogFails(r) \/ ResolveFails(r) \/ CreditFails(r)
  PROVE  PayInv'
  <1>0. /\ TypeOK /\ Own(r) /\ pc[r] # "idle" /\ pc[r] \in InFlight
        /\ call[r] \in Calls
    BY OwnOf DEF RetrieveFails, InsertLogFails, ResolveFails, CreditFails, InFlight
  <1>1. PICK step \in {"error", "ok", "read"} :
             /\ pc' = [pc EXCEPT ![r] = step]
             /\ step = "read" => Route(r) = "groups"
             /\ step = "ok" => ~IsConfirm(r)
    <2>1. CASE Fail(r)
      BY <2>1 DEF Fail, Goto
    <2>2. CASE CreditsFail(r) /\ ~IsConfirm(r)
      <3>1. Route(r) \in {"usage", "groups"}
        BY <1>0, <2>2, CallFacts DEF IsConfirm, Route, ConfirmRoutes
      <3> QED
        BY <2>2, <3>1 DEF CreditsFail, Goto
    <2> QED
      BY <2>1, <2>2 DEF RetrieveFails, InsertLogFails, ResolveFails, CreditFails, CreditsFail
  <1>2. /\ UNCHANGED <<status, call, balance, change, rows, receipts>>
        /\ answer' = [answer EXCEPT ![r] = "error"]
        /\ logs \subseteq logs' /\ logs' \subseteq logs \cup {r}
    BY DEF RetrieveFails, InsertLogFails, ResolveFails, CreditFails, CreditsFail, Fail, Tell
  <1>3. TypeOK'
    BY <1>0, <1>1, <1>2 DEF TypeOK, InFlight, Ended
  <1>4. pc'[r] = step /\ answer'[r] = "error"
    BY <1>0, <1>1, <1>2 DEF TypeOK
  <1>5. Own(r)'
    BY <1>0, <1>1, <1>2, <1>4, CallEnds
  <1>6. \A q \in Requests \ {r} : Untouched(q)
    BY <1>0, <1>1, <1>2 DEF TypeOK, Untouched
  <1> QED
    BY <1>3, <1>5, <1>6, StepOf

LEMMA CallShows ==
  ASSUME PayInv, NEW r \in Requests, ShowGroups(r)
  PROVE  PayInv'
  <1>0. TypeOK /\ Own(r) /\ pc[r] = "read" /\ pc[r] \in InFlight
    BY OwnOf DEF ShowGroups, InFlight
  <1>1. PICK step \in {"ok", "error"} : pc' = [pc EXCEPT ![r] = step]
    BY DEF ShowGroups, Goto
  <1>2. UNCHANGED <<status, call, balance, change, answer, rows, logs, receipts>>
    BY DEF ShowGroups, ledgerVars
  <1>3. TypeOK'
    BY <1>0, <1>1, <1>2 DEF TypeOK, Ended
  <1>4. Route(r) = "groups" /\ ~IsConfirm(r) /\ pc'[r] = step
    BY <1>0, <1>1 DEF TypeOK, Own, Knows, IsConfirm, ConfirmRoutes
  <1>5. Own(r)'
    BY <1>0, <1>2, <1>4, CallEnds
  <1>6. \A q \in Requests \ {r} : Untouched(q)
    BY <1>0, <1>1, <1>2 DEF TypeOK, Untouched
  <1> QED
    BY <1>3, <1>5, <1>6, StepOf

\* The change is committed: from here on it is known.
LEMMA CallCredits ==
  ASSUME PayInv, NEW r \in Requests, Credit(r)
  PROVE  PayInv'
  <1>0. /\ TypeOK /\ Own(r) /\ pc[r] = "credit" /\ call[r] \in Calls
        /\ Account(r) \in TenantIds /\ Amount(r) \in Int /\ Amount(r) \in Amounts
    BY OwnOf DEF Credit
  <1>1. PICK a \in Amounts, t \in TenantIds : a = Amount(r) /\ t = Account(r) /\ a \in Int
    BY <1>0
  <1>2. /\ pc' = [pc EXCEPT ![r] = "answer"]
        /\ change' = [change EXCEPT ![r] = [tenant |-> t, amount |-> a]]
        /\ balance' = [balance EXCEPT ![t] = @ + a]
        /\ UNCHANGED <<status, call, answer, rows, logs, receipts>>
    BY <1>1 DEF Credit, Goto
  <1>3. TypeOK'
    BY <1>0, <1>1, <1>2 DEF TypeOK, InFlight
  <1>4. pc'[r] = "answer" /\ change'[r] = [tenant |-> t, amount |-> a]
    BY <1>0, <1>2 DEF TypeOK
  <1>5. /\ Route(r)' = Route(r) /\ Intent(r)' = Intent(r) /\ IsConfirm(r)' = IsConfirm(r)
        /\ Account(r)' = t /\ call'[r] = call[r]
    BY <1>1, <1>2 DEF Route, Intent, IsConfirm, Account
  <1>6. Amount(r)' = a
    BY <1>1, <1>2, <1>5 DEF Amount
  <1>7. Changed(r)'
    <2>1. DOMAIN [tenant |-> t, amount |-> a] # DOMAIN [amount |-> 0]
      OBVIOUS
    <2> QED
      BY <1>4, <2>1 DEF Changed, Ledger!NoChange
  <1>8. answer'[r] = "none"
    BY <1>0, <1>2 DEF Own, Knows, Untold
  <1>9. Own(r)'
    <2>1. Knows(r)'
      BY <1>0, <1>4, <1>5, <1>6, <1>7, <1>8 DEF Knows
    <2>2. Warranted(r)'
      BY <1>0, <1>2, <1>4, <1>5 DEF Own, Warranted, Charging
    <2>3. Told(r)'
      BY <1>2, <1>4, <1>7 DEF Told
    <2> QED
      BY <2>1, <2>2, <2>3 DEF Own
  <1>10. \A q \in Requests \ {r} : Untouched(q)
    BY <1>0, <1>2 DEF TypeOK, Untouched
  <1> QED
    BY <1>3, <1>9, <1>10, StepOf

LEMMA CallAnswers ==
  ASSUME PayInv, NEW r \in Requests, AnswerOk(r)
  PROVE  PayInv'
  <1>0. /\ TypeOK /\ Own(r) /\ pc[r] = "answer" /\ pc[r] \in InFlight
        /\ Changed(r) /\ call[r] \in Calls
    BY OwnOf DEF AnswerOk, Own, Knows, InFlight
  <1>1. PICK step \in {"read", "ok"} :
             pc' = [pc EXCEPT ![r] = step] /\ (step = "read" => Route(r) = "groups")
    BY DEF AnswerOk, Goto
  <1>2. PICK action \in {"stripe_topup", "topup", "api_usage", "welcome"} : action = ActionType(Route(r))
    BY <1>0, CallFacts DEF Route, ActionType
  <1>3. /\ UNCHANGED <<status, call, balance, change, logs>>
        /\ answer' = [answer EXCEPT ![r] = "ok"]
        /\ rows' \subseteq rows \cup {[req |-> r, action |-> action]}
        /\ receipts' \subseteq receipts \cup {r}
    BY <1>2 DEF AnswerOk, Tell
  <1>4. TypeOK'
    <2>1. rows' \subseteq [req : Requests, action : {"stripe_topup", "topup", "api_usage", "welcome"}]
      BY <1>0, <1>2, <1>3 DEF TypeOK
    <2> QED
      BY <1>0, <1>1, <1>3, <2>1 DEF TypeOK, InFlight, Ended
  <1>5. pc'[r] = step
    BY <1>0, <1>1 DEF TypeOK
  <1>6. Own(r)'
    BY <1>0, <1>1, <1>3, <1>5, CallEnds
  <1>7. \A q \in Requests \ {r} : Untouched(q)
    <2>1. \A q \in Requests \ {r} : (\E row \in rows' : row.req = q) => (\E row \in rows : row.req = q)
      BY <1>3
    <2> QED
      BY <1>0, <1>1, <1>3, <2>1 DEF TypeOK, Untouched
  <1> QED
    BY <1>4, <1>6, <1>7, StepOf

LEMMA CrashStep ==
  ASSUME PayInv, Crash
  PROVE  PayInv'
  <1>1. TypeOK'
    BY DEF PayInv, TypeOK, Crash, ledgerVars, Ended
  <1>2. ASSUME NEW r \in Requests
        PROVE  Own(r)'
    <2>1. CASE pc[r] \in InFlight
      BY <2>1, CallEnds DEF Crash, ledgerVars
    <2>2. CASE pc[r] \notin InFlight
      <3>1. Untouched(r)
        BY <2>2 DEF Crash, ledgerVars, Untouched
      <3> QED
        BY <3>1, OwnOf, UntouchedKeeps
    <2> QED
      BY <2>1, <2>2
  <1> QED
    BY <1>1, <1>2 DEF PayInv, Own

-----------------------------------------------------------------------------
(* The invariant, and what follows from it.                                *)

\* No call has begun, so there is nothing to know of any.
LEMMA PayInvInit ==
  ASSUME Init
  PROVE  PayInv
  <1>1. TypeOK
    BY DEF Init, TypeOK, Opening
  <1>2. ASSUME NEW r \in Requests
        PROVE  Own(r)
    <2>1. pc[r] = "idle" /\ call[r] = NoCall /\ ~Changed(r) /\ r \notin receipts /\ rows = {}
      BY DEF Init, Changed
    <2>2. answer[r] = "none"
      BY DEF Init
    <2> QED
      BY <2>1, <2>2 DEF Own, Knows, Warranted, Told, Charging
  <1> QED
    BY <1>1, <1>2 DEF PayInv, Own

\* Every step of Next keeps PayInv.
LEMMA PayInvNext ==
  ASSUME PayInv, [Next]_vars
  PROVE  PayInv'
  <1>1. CASE \E i \in Intents : CreateIntent(i) \/ \E result \in {"succeeded", "canceled"} : Settle(i, result)
    BY <1>1, IntentSteps
  <1>2. CASE \E r \in Requests, c \in Calls : ConfirmPayment(r, c) \/ LogApiUsage(r, c) \/ GetApiGroups(r, c)
    BY <1>2, CallStarts
  <1>3. CASE \E r \in Requests : Handle(r)
    BY <1>3, CallAdvances, CallFails, CallCredits, CallAnswers, CallShows DEF Handle
  <1>4. CASE Crash
    BY <1>4, CrashStep
  <1>5. CASE UNCHANGED vars
    <2>1. TypeOK'
      BY <1>5 DEF PayInv, TypeOK, vars
    <2>2. \A r \in Requests : Untouched(r)
      BY <1>5 DEF vars, Untouched
    <2> QED
      BY <2>1, <2>2, UntouchedKeeps DEF PayInv, Own
  <1> QED
    BY <1>1, <1>2, <1>3, <1>4, <1>5 DEF Next, Finished

LEMMA PayInvAlways == Spec => []PayInv
  BY PayInvInit, PayInvNext, PTL DEF Spec

\* Types: of the intents, the calls, the balances and their changes.
THEOREM PaymentTypes == Spec => []TypeOK
  <1>1. PayInv => TypeOK
    BY DEF PayInv
  <1> QED
    BY <1>1, PayInvAlways, PTL

\* confirm_payment and its gRPC twin read the status some awaits before they
\* credit; credits are still only changed with an intent that was paid, and
\* only those of the account the call names.
THEOREM PaidBeforeCredited == Spec => []OnlyPaidIsCredited
  <1>1. ASSUME PayInv, NEW r \in Requests, Changed(r), IsConfirm(r)
        PROVE  status[Intent(r)] = "succeeded" /\ change[r].tenant = Account(r)
    <2>1. Own(r)
      BY <1>1, OwnOf
    <2>2. change[r] = [tenant |-> Account(r), amount |-> Amount(r)]
      BY <1>1, <2>1 DEF Own, Knows
    <2> QED
      BY <1>1, <2>1, <2>2 DEF Own, Warranted
  <1>2. PayInv => OnlyPaidIsCredited
    BY <1>1 DEF OnlyPaidIsCredited
  <1> QED
    BY <1>2, PayInvAlways, PTL

\* An Ok to a purchase, a PaymentReceipt mail and a row of
\* credit_transactions stand for credits that are on the account.
THEOREM AnswersStandForCredits == Spec => []AnswersAreBacked
  <1>1. PayInv => AnswersAreBacked
    BY DEF PayInv, Told, AnswersAreBacked
  <1> QED
    BY <1>1, PayInvAlways, PTL

\* log_api_usage writes the row and then charges: nobody is charged for a
\* call that is not in the log or used nothing, and a logged call that used
\* something is free only if the charge failed.
THEOREM LoggedAndCharged == Spec => []ChargedAsLogged
  <1>1. ASSUME PayInv
        PROVE  ChargedAsLogged
    <2>1. SUFFICES ASSUME NEW r \in Requests, Route(r) = "usage"
                   PROVE  /\ Changed(r) => r \in logs /\ call[r].tokens > 0 /\ change[r].amount < 0
                          /\ pc[r] = "ok" /\ call[r].tokens > 0 /\ ~Changed(r) => answer[r] = "error"
      BY DEF ChargedAsLogged
    <2>2. Own(r)
      BY <1>1, OwnOf
    <2>3. ASSUME Changed(r)
          PROVE  r \in logs /\ call[r].tokens > 0 /\ change[r].amount < 0
      <3>1. call[r] \in Calls /\ change[r] = [tenant |-> Account(r), amount |-> Amount(r)]
        BY <2>2, <2>3 DEF Own, Knows
      <3>2. r \in logs /\ call[r].tokens > 0
        BY <2>1, <2>2, <2>3 DEF Own, Warranted
      <3>3. change[r].amount = Amount(r)
        BY <3>1
      <3> QED
        BY <2>1, <3>1, <3>2, <3>3, AmountFacts
    <2> QED
      BY <2>1, <2>2, <2>3 DEF Own, Told
  <1> QED
    BY <1>1, PayInvAlways, PTL

-----------------------------------------------------------------------------
(* The handlers use the ledger as Credits lets them.                       *)

\* A handler at its credit has changed nothing and told nothing, so its step
\* is one the ledger allows.
LEMMA CreditApplies ==
  ASSUME PayInv, NEW r \in Requests, Credit(r)
  PROVE  Ledger!Next
  <1>1. /\ TypeOK /\ Account(r) \in TenantIds /\ Amount(r) \in Amounts
        /\ answer[r] = "none" /\ change[r] = Ledger!NoChange
    BY OwnOf DEF Credit, Own, Knows, Untold, Changed
  <1>2. PICK t \in TenantIds, a \in Amounts : t = Account(r) /\ a = Amount(r)
    BY <1>1
  <1>3. Ledger!Apply(r, t, a)
    BY <1>1, <1>2 DEF Credit, Ledger!Apply
  <1>4. change' # change
    <2>1. DOMAIN [tenant |-> t, amount |-> a] # DOMAIN [amount |-> 0]
      OBVIOUS
    <2>2. change'[r] # change[r]
      BY <1>1, <1>3, <2>1 DEF Ledger!Apply, Ledger!NoChange, TypeOK
    <2> QED
      BY <2>2
  <1> QED
    BY <1>3, <1>4 DEF Ledger!Next

\* A handler that tells of the credits has told nothing before, and tells Ok
\* only of a change.
LEMMA TellingAnswers ==
  ASSUME PayInv, NEW r \in Requests, NEW result \in {"ok", "error"},
         Tell(r, result), UNCHANGED <<balance, change>>,
         pc[r] \in Untold, result = "ok" => pc[r] = "answer"
  PROVE  Ledger!Next
  <1>1. TypeOK /\ answer[r] = "none" /\ (pc[r] = "answer" => change[r] # Ledger!NoChange)
    BY OwnOf DEF Own, Knows, Changed
  <1>2. Ledger!Answer(r, result)
    BY <1>1 DEF Tell, Ledger!Answer
  <1>3. answer' # answer
    BY <1>1 DEF Tell, TypeOK
  <1> QED
    BY <1>2, <1>3 DEF Ledger!Next

LEMMA StepOfTheLedger ==
  ASSUME PayInv, [Next]_vars
  PROVE  [Ledger!Next]_(Ledger!vars)
  <1>3. CASE \E r \in Requests : Handle(r)
    <2>1. PICK r \in Requests : Handle(r)
      BY <1>3
    <2>2. CASE Credit(r)
      BY <2>2, CreditApplies
    <2>3. CASE RetrieveFails(r) \/ InsertLogFails(r) \/ ResolveFails(r) \/ CreditFails(r)
      <3>1. pc[r] \in Untold
        BY <2>3 DEF RetrieveFails, InsertLogFails, ResolveFails, CreditFails, Untold
      <3>2. Tell(r, "error") /\ UNCHANGED <<balance, change>>
        BY <2>3 DEF RetrieveFails, InsertLogFails, ResolveFails, CreditFails, CreditsFail, Fail
      <3> QED
        BY <3>1, <3>2, TellingAnswers
    <2>4. CASE AnswerOk(r)
      BY <2>4, TellingAnswers DEF AnswerOk, Untold
    <2>5. CASE RetrieveSucceeded(r) \/ InsertLog(r) \/ ReadKeysStatus(r) \/ Resolve(r) \/ ShowGroups(r)
      BY <2>5 DEF RetrieveSucceeded, InsertLog, ReadKeysStatus, Resolve, ShowGroups, ledgerVars, Ledger!vars
    <2> QED
      BY <2>1, <2>2, <2>3, <2>4, <2>5 DEF Handle
  <1>4. CASE \E i \in Intents : CreateIntent(i) \/ \E result \in {"succeeded", "canceled"} : Settle(i, result)
    BY <1>4 DEF CreateIntent, Settle, ledgerVars, Ledger!vars
  <1>5. CASE \E r \in Requests, c \in Calls : ConfirmPayment(r, c) \/ LogApiUsage(r, c) \/ GetApiGroups(r, c)
    BY <1>5 DEF ConfirmPayment, LogApiUsage, GetApiGroups, ledgerVars, Ledger!vars
  <1>6. CASE Crash
    BY <1>6 DEF Crash, ledgerVars, Ledger!vars
  <1>7. CASE UNCHANGED vars
    BY <1>7 DEF vars, Ledger!vars
  <1> QED
    BY <1>3, <1>4, <1>5, <1>6, <1>7 DEF Next, Finished

\* However the handlers interleave, stop or fail, a call changes one balance
\* at most, and once, is told Ok only after that and told anything only once.
THEOREM HandlersUseCredits == Spec => CreditsAtMostOncePerCall
  <1>1. Init => Ledger!Init
    BY DEF Init, Ledger!Init
  <1>2. PayInv /\ [Next]_vars => [Ledger!Next]_(Ledger!vars)
    BY StepOfTheLedger
  <1> QED
    BY <1>1, <1>2, PayInvAlways, PTL DEF Spec, CreditsAtMostOncePerCall, Ledger!Spec
=============================================================================
