---------------------------- MODULE CreditLedger ----------------------------
(***************************************************************************)
(* The credit ledger: tenants.credit_balance and the credit_transactions   *)
(* table, and the requests that change them through                        *)
(* update_credit_balance_with_conn.  That function is three statements on  *)
(* one connection, each its own transaction (nothing opens one):           *)
(*                                                                         *)
(*   UPDATE tenants SET credit_balance = credit_balance + amount ...       *)
(*   SELECT credit_balance ...           (the balance the caller is told)  *)
(*   INSERT INTO credit_transactions ... (a failure is only logged)        *)
(*                                                                         *)
(* so other requests run between them.  Two handlers call it here: the     *)
(* credit update endpoint, which warns by e-mail when credits run low, and *)
(* the administrator's adjustment.                                         *)
(***************************************************************************)
EXTENDS Integers, Sequences, FiniteSets

CONSTANTS
  Requests,            \* the HTTP requests, each served by one handler run
  TenantIds,           \* every tenant id a request may name
  InitialTenants,      \* the tenants whose row exists at the start
  Opening,             \* their balances at the start
  Amounts,             \* the amounts a request body may carry
  LowCreditsThreshold, \* LOW_CREDITS_THRESHOLD
  BigintMax            \* the largest value of a BIGINT column

ASSUME LedgerAssumption ==
  /\ InitialTenants \subseteq TenantIds
  /\ Opening \in [TenantIds -> Int]
  /\ \A t \in TenantIds \ InitialTenants : Opening[t] = 0
  /\ Amounts \subseteq Int
  /\ LowCreditsThreshold \in Int
  /\ BigintMax \in Nat
  /\ \A t \in TenantIds : Opening[t] \in (-BigintMax - 1)..BigintMax

VARIABLES
  tenants,    \* ids of the rows of tenants
  issued,     \* ids that have ever had a row: a UUID is never issued again
  balance,    \* tenants.credit_balance
  log,        \* credit_transactions in insertion order
  call,       \* what each request asked for
  pc,         \* where each request's handler is
  seen,       \* new_balance, the result of the handler's SELECT
  mail,       \* the e-mail the handler handed to send_async
  journal,    \* history: the committed UPDATEs of each row, oldest first
  seenAt      \* history: how many of them the SELECT of a request saw

dbVars   == <<tenants, issued, balance, log>>
reqVars  == <<call, pc, seen, mail>>
histVars == <<journal, seenAt>>
vars     == <<tenants, issued, balance, log, call, pc, seen, mail, journal, seenAt>>

Kinds  == {"update", "admin"}
Calls  == [kind : Kinds, tenant : TenantIds, amount : Amounts]
Rows   == [req : Requests, tenant : TenantIds, amount : Int, after : Int]
Entries == [req : Requests, amount : Int, after : Int]
Steps  == {"idle", "update", "select", "insert", "ok", "error", "lost"}
InFlight == {"update", "select", "insert"}
NoCall == [kind |-> "none"]

Bigint(n) == n \in (-BigintMax - 1)..BigintMax

\* The amount and the tenant of the call request r makes.
Amount(r) == call[r].amount
Tenant(r) == call[r].tenant

Init ==
  /\ tenants = InitialTenants
  /\ issued  = InitialTenants
  /\ balance = Opening
  /\ log     = << >>
  /\ call    = [r \in Requests |-> NoCall]
  /\ pc      = [r \in Requests |-> "idle"]
  /\ seen    = [r \in Requests |-> 0]
  /\ mail    = [r \in Requests |-> "none"]
  /\ journal = [t \in TenantIds |-> << >>]
  /\ seenAt  = [r \in Requests |-> 0]

-----------------------------------------------------------------------------
(* Handlers up to the first statement.                                     *)

\* POST credit update: the body names a tenant, which need not exist, or the
\* default tenant of the e-mail is used.  (An id that never had a row acts
\* as a deleted one.)
CallUpdate(r, t, a) ==
  /\ pc[r] = "idle"
  /\ t \in issued
  /\ call' = [call EXCEPT ![r] = [kind |-> "update", tenant |-> t, amount |-> a]]
  /\ pc'   = [pc EXCEPT ![r] = "update"]
  /\ UNCHANGED <<dbVars, seen, mail, histVars>>

\* POST /api/admin/credits: the tenant is the one get_default_tenant has just
\* found or created.
CallAdmin(r, t, a) ==
  /\ pc[r] = "idle"
  /\ t \in tenants
  /\ a # 0
  /\ call' = [call EXCEPT ![r] = [kind |-> "admin", tenant |-> t, amount |-> a]]
  /\ pc'   = [pc EXCEPT ![r] = "update"]
  /\ UNCHANGED <<dbVars, seen, mail, histVars>>

\* Answered before the ledger is called: an administrator's amount is zero or
\* the e-mail empty, or the tenant cannot be resolved.
Reject(r) ==
  /\ pc[r] = "idle"
  /\ pc' = [pc EXCEPT ![r] = "error"]
  /\ UNCHANGED <<dbVars, call, seen, mail, histVars>>

-----------------------------------------------------------------------------
(* The three statements.                                                   *)

\* The UPDATE of a row that exists: atomic, it adds to the committed value.
ExecUpdate(r) ==
  /\ pc[r] = "update"
  /\ Tenant(r) \in tenants
  /\ Bigint(balance[Tenant(r)] + Amount(r))
  /\ balance' = [balance EXCEPT ![Tenant(r)] = @ + Amount(r)]
  /\ journal' = [journal EXCEPT ![Tenant(r)] =
       Append(@, [req |-> r, amount |-> Amount(r), after |-> balance[Tenant(r)] + Amount(r)])]
  /\ pc' = [pc EXCEPT ![r] = "select"]
  /\ UNCHANGED <<tenants, issued, log, call, seen, mail, seenAt>>

\* The UPDATE of a row that is gone changes nothing and is not an error.
ExecUpdateNoRow(r) ==
  /\ pc[r] = "update"
  /\ Tenant(r) \notin tenants
  /\ pc' = [pc EXCEPT ![r] = "select"]
  /\ UNCHANGED <<dbVars, call, seen, mail, histVars>>

\* Mutant: the error of the UPDATE is dropped (no `?`).
UpdateErrorIgnored(r) ==
  /\ pc[r] = "update"
  /\ pc' = [pc EXCEPT ![r] = "select"]
  /\ UNCHANGED <<dbVars, call, seen, mail, histVars>>

\* A statement error before the balance is changed: the database refuses, or
\* the sum does not fit the column ("bigint out of range").
UpdateFails(r) ==
  /\ pc[r] = "update"
  /\ pc' = [pc EXCEPT ![r] = "error"]
  /\ UNCHANGED <<dbVars, call, seen, mail, histVars>>

\* query_one: exactly one row, the balance as it is now.
SelectBalance(r) ==
  /\ pc[r] = "select"
  /\ Tenant(r) \in tenants
  /\ seen'   = [seen EXCEPT ![r] = balance[Tenant(r)]]
  /\ seenAt' = [seenAt EXCEPT ![r] = Len(journal[Tenant(r)])]
  /\ pc'     = [pc EXCEPT ![r] = "insert"]
  /\ UNCHANGED <<dbVars, call, mail, journal>>

\* Mutant: a failed SELECT repeats the whole function.
RetryAfterSelect(r) ==
  /\ pc[r] = "select"
  /\ pc' = [pc EXCEPT ![r] = "update"]
  /\ UNCHANGED <<dbVars, call, seen, mail, histVars>>

\* Mutant: query_opt(...).unwrap_or(0) in place of query_one.
SelectOrZero(r) ==
  /\ pc[r] = "select"
  /\ seen' = [seen EXCEPT ![r] = 0]
  /\ pc'   = [pc EXCEPT ![r] = "insert"]
  /\ UNCHANGED <<dbVars, call, mail, histVars>>

\* query_one finds no row, or the database fails: the caller gets an error
\* although the UPDATE, if it hit a row, stays committed.
SelectFails(r) ==
  /\ pc[r] = "select"
  /\ pc' = [pc EXCEPT ![r] = "error"]
  /\ UNCHANGED <<dbVars, call, seen, mail, histVars>>

\* Mutant: every deduction that ends below the threshold warns.
EndsBelowThreshold(amount, after) ==
  /\ amount < 0
  /\ after < LowCreditsThreshold

\* The handler's answer once update_credit_balance returned Ok(new_balance).
CrossesThreshold(amount, after) ==
  /\ amount < 0
  /\ after < LowCreditsThreshold
  /\ after - amount >= LowCreditsThreshold

MailFor(r) ==
  IF call[r].kind = "admin" THEN "adjustment"
  ELSE IF CrossesThreshold(Amount(r), seen[r]) THEN "low_credits" ELSE "none"

Answer(r) ==
  /\ mail' = [mail EXCEPT ![r] = MailFor(r)]
  /\ pc'   = [pc EXCEPT ![r] = "ok"]

InsertRow(r) ==
  /\ pc[r] = "insert"
  /\ log' = Append(log, [req |-> r, tenant |-> Tenant(r),
                         amount |-> Amount(r), after |-> seen[r]])
  /\ Answer(r)
  /\ UNCHANGED <<tenants, issued, balance, call, seen, histVars>>

\* Mutant: the failed INSERT is compensated by restoring the balance read.
InsertFailsUndone(r) ==
  /\ pc[r] = "insert"
  /\ balance' = [balance EXCEPT ![Tenant(r)] = seen[r] - Amount(r)]
  /\ pc' = [pc EXCEPT ![r] = "error"]
  /\ UNCHANGED <<tenants, issued, log, call, seen, mail, histVars>>

\* The INSERT fails: app_log!(error, ...) and the caller still gets Ok.
InsertFails(r) ==
  /\ pc[r] = "insert"
  /\ Answer(r)
  /\ UNCHANGED <<dbVars, call, seen, histVars>>

-----------------------------------------------------------------------------
(* The surroundings.                                                       *)

\* Mutant: tenant ids are not fresh UUIDs but derived from the e-mail, so a
\* deleted tenant's id is used again, and it is not remembered as issued.
CreateTenantAgain(t) ==
  /\ t \notin tenants
  /\ tenants' = tenants \cup {t}
  /\ UNCHANGED <<issued, balance, log, reqVars, histVars>>

\* get_or_create_personal_tenant inserts a row with a fresh UUID.
CreateTenant(t) ==
  /\ t \notin issued
  /\ tenants' = tenants \cup {t}
  /\ issued'  = issued \cup {t}
  /\ balance' = [balance EXCEPT ![t] = 0]
  /\ UNCHANGED <<log, reqVars, histVars>>

\* force_clean_user_data deletes the tenant rows named after the user.
DeleteTenant(t) ==
  /\ t \in tenants
  /\ tenants' = tenants \ {t}
  /\ UNCHANGED <<issued, balance, log, reqVars, histVars>>

\* The server process stops: every handler in flight is gone, what it has
\* committed stays.
Crash ==
  /\ \E r \in Requests : pc[r] \in InFlight
  /\ pc' = [r \in Requests |-> IF pc[r] \in InFlight THEN "lost" ELSE pc[r]]
  /\ UNCHANGED <<dbVars, call, seen, mail, histVars>>

\* No request is left to serve.
Finished ==
  /\ \A r \in Requests : pc[r] \in {"ok", "error", "lost"}
  /\ UNCHANGED vars

Handle(r) ==
  \/ Reject(r)
  \/ ExecUpdate(r) \/ ExecUpdateNoRow(r) \/ UpdateFails(r)
  \/ SelectBalance(r) \/ SelectFails(r)
  \/ InsertRow(r) \/ InsertFails(r)

Next ==
  \/ \E r \in Requests, t \in TenantIds, a \in Amounts : CallUpdate(r, t, a) \/ CallAdmin(r, t, a)
  \/ \E r \in Requests : Handle(r)
  \/ \E t \in TenantIds : CreateTenant(t) \/ DeleteTenant(t)
  \/ Crash
  \/ Finished

Spec == Init /\ [][Next]_vars

-----------------------------------------------------------------------------
(* What the ledger promises.                                               *)

\* Every variable holds a value of its kind; a tenant's row was once issued.
TypeOK ==
  /\ tenants \subseteq issued
  /\ issued \subseteq TenantIds
  /\ balance \in [TenantIds -> Int]
  /\ log \in Seq(Rows)
  /\ call \in [Requests -> Calls \cup {NoCall}]
  /\ \A r \in Requests : pc[r] \notin {"idle", "error"} => call[r] \in Calls
  /\ pc \in [Requests -> Steps]
  /\ seen \in [Requests -> Int]
  /\ mail \in [Requests -> {"none", "low_credits", "adjustment"}]
  /\ journal \in [TenantIds -> Seq(Entries)]
  /\ seenAt \in [Requests -> Nat]

\* The balance of t before the i-th committed UPDATE of its row.
Before(t, i) == IF i = 1 THEN Opening[t] ELSE journal[t][i - 1].after

\* r committed its change to t as that row's i-th UPDATE.
AppliedAt(r, t, i) == i \in 1..Len(journal[t]) /\ journal[t][i].req = r

\* No lost update: under any interleaving of the three-statement calls, a
\* tenant's balance is its opening balance plus every committed amount, each
\* added to the one before it, and the balance always fits the column.  (The
\* balance of a deleted row is the last it had.)
HistoryAddsUp(t) ==
  /\ \A i \in 1..Len(journal[t]) :
       journal[t][i].after = Before(t, i) + journal[t][i].amount
  /\ balance[t] = Before(t, Len(journal[t]) + 1)
  /\ Bigint(balance[t])

NoLostUpdate == \A t \in TenantIds : HistoryAddsUp(t)

\* The entry is the only change r has made, to the tenant and by the amount it
\* named.
OnlyEntryOf(r, t, i) ==
  /\ pc[r] \notin {"idle", "update"}
  /\ t = Tenant(r)
  /\ journal[t][i].amount = Amount(r)
  /\ \A j \in 1..Len(journal[t]) : journal[t][j].req = r => j = i

AppliedAtMostOnce ==
  \A t \in TenantIds : \A i \in 1..Len(journal[t]) : OnlyEntryOf(journal[t][i].req, t, i)

\* Every row of credit_transactions stands for one committed change of an
\* answered request, and its balance_after is the balance left by that change
\* or by a later one of the same tenant: never a balance from before the
\* change, never one the tenant did not have.  No change has two rows, and a
\* caller told of an error has none.
RowsAreBacked ==
  \A k \in 1..Len(log) : LET row == log[k] IN
    /\ pc[row.req] = "ok"
    /\ \E i \in 1..Len(journal[row.tenant]) :
         /\ AppliedAt(row.req, row.tenant, i)
         /\ row.amount = journal[row.tenant][i].amount
         /\ i <= seenAt[row.req]
         /\ row.after = Before(row.tenant, seenAt[row.req] + 1)
    /\ \A m \in 1..Len(log) : log[m].req = row.req => m = k

OkMeansApplied ==
  \A r \in Requests : pc[r] = "ok" =>
    \E i \in 1..seenAt[r] : AppliedAt(r, Tenant(r), i)

\* A request changes a balance at most once, only that of the tenant it named,
\* and by the amount it named, whatever step it failed at and whatever became of
\* the tenant; and a caller that got Ok had that change committed: a deletion of
\* the tenant in between turns the answer into an error.
ChangedAsAnswered == AppliedAtMostOnce /\ OkMeansApplied

\* If nobody else changed the tenant between a request's UPDATE and its
\* SELECT, the low-credits warning is sent exactly when this deduction took
\* the balance from at least the threshold to below it.
WarningExactWhenUndisturbed ==
  \A r \in Requests : pc[r] = "ok" /\ call[r].kind = "update" =>
    \A i \in 1..Len(journal[Tenant(r)]) : AppliedAt(r, Tenant(r), i) /\ seenAt[r] = i =>
      (mail[r] = "low_credits" <=>
         /\ Before(Tenant(r), i) >= LowCreditsThreshold
         /\ journal[Tenant(r)][i].after < LowCreditsThreshold)

\* The three statements implement one atomic change: the change of a request
\* is its entry in the history, its answer where its handler ended.
Changed(r) ==
  call[r].kind # "none" /\ \E i \in 1..Len(journal[Tenant(r)]) : journal[Tenant(r)][i].req = r

ChangeOf == [r \in Requests |->
  IF Changed(r) THEN [tenant |-> Tenant(r), amount |-> Amount(r)] ELSE [amount |-> 0]]
AnswerOf == [r \in Requests |-> IF pc[r] \in {"ok", "error"} THEN pc[r] ELSE "none"]

Atomic == INSTANCE Credits WITH change <- ChangeOf, answer <- AnswerOf

AtomicCredits == Atomic!Spec
=============================================================================
