------------------------ MODULE CreditLedgerProofs --------------------------
(***************************************************************************)
(* The theorems of CreditLedger, for any number of requests and            *)
(* tenants, any amounts and any opening balances.                          *)
(*                                                                         *)
(* The properties are not inductive alone.  What makes them so is where a  *)
(* request is relative to its own change (CallInv): past the SELECT it has *)
(* a change in its tenant's history, at or before the point it has read    *)
(* up to; between UPDATE and SELECT it has one unless the row is gone, and *)
(* a row that is gone never returns, because ids are never issued twice.   *)
(***************************************************************************)
EXTENDS CreditLedger, TLAPS

\* r has changed its tenant's balance.
Applied(r) == \E i \in 1..Len(journal[Tenant(r)]) : AppliedAt(r, Tenant(r), i)

\* r's SELECT saw its own change, and the balance as of some change.
ReadOwn(r) ==
  /\ seenAt[r] \in 1..Len(journal[Tenant(r)])
  /\ \E i \in 1..seenAt[r] : AppliedAt(r, Tenant(r), i)
  /\ seen[r] = journal[Tenant(r)][seenAt[r]].after

CallInv ==
  \A r \in Requests :
    /\ pc[r] \notin {"idle", "error"} => Tenant(r) \in issued
    /\ pc[r] = "select" /\ Tenant(r) \in tenants => Applied(r)
    /\ pc[r] \in {"insert", "ok"} => ReadOwn(r)
    /\ pc[r] = "ok" => mail[r] = MailFor(r)

LogInv ==
  \A k \in 1..Len(log) :
    /\ pc[log[k].req] = "ok"
    /\ log[k].tenant = Tenant(log[k].req)
    /\ log[k].amount = Amount(log[k].req)
    /\ log[k].after  = seen[log[k].req]
    /\ \A m \in 1..Len(log) : log[m].req = log[k].req => m = k

\* Rows that were never issued have no history and the balance they opened
\* with.
FreshInv == \A t \in TenantIds \ issued : journal[t] = << >> /\ balance[t] = 0

IInv ==
  /\ TypeOK
  /\ FreshInv
  /\ NoLostUpdate
  /\ AppliedAtMostOnce
  /\ CallInv
  /\ LogInv

-----------------------------------------------------------------------------

\* Everything in the initial state satisfies the invariant: no history, no
\* rows, no calls.
LEMMA InitIInv == Init => IInv
  <1> SUFFICES ASSUME Init PROVE IInv
    OBVIOUS
  <1> USE LedgerAssumption DEF Init
  <1>1. TypeOK
    BY DEF TypeOK, Rows, Entries, Steps
  <1>2. FreshInv
    BY DEF FreshInv
  <1>3. NoLostUpdate
    BY DEF NoLostUpdate, HistoryAddsUp, Before, Bigint
  <1>4. AppliedAtMostOnce
    BY DEF AppliedAtMostOnce
  <1>5. CallInv
    BY DEF CallInv
  <1>6. LogInv
    BY DEF LogInv
  <1> QED
    BY <1>1, <1>2, <1>3, <1>4, <1>5, <1>6 DEF IInv


\* Every step keeps the types.
LEMMA TypeStep == TypeOK /\ [Next]_vars => TypeOK'
  <1> SUFFICES ASSUME TypeOK, [Next]_vars PROVE TypeOK'
    OBVIOUS
  <1> USE LedgerAssumption DEF TypeOK, Steps, Calls, Rows, Entries, Kinds, dbVars, reqVars, histVars,
                               Tenant, Amount
  <1>1. ASSUME NEW r \in Requests, NEW t \in TenantIds, NEW a \in Amounts, CallUpdate(r, t, a)
        PROVE TypeOK'
    BY <1>1 DEF CallUpdate
  <1>2. ASSUME NEW r \in Requests, NEW t \in TenantIds, NEW a \in Amounts, CallAdmin(r, t, a)
        PROVE TypeOK'
    BY <1>2 DEF CallAdmin
  <1>3. ASSUME NEW r \in Requests, ExecUpdate(r)
        PROVE TypeOK'
    <2>1. Tenant(r) \in TenantIds /\ Amount(r) \in Int
      BY <1>3 DEF ExecUpdate
    <2>2. balance[Tenant(r)] + Amount(r) \in Int
      BY <2>1
    <2>3. journal' \in [TenantIds -> Seq(Entries)]
      BY <1>3, <2>1, <2>2 DEF ExecUpdate
    <2>4. balance' \in [TenantIds -> Int]
      BY <1>3, <2>1, <2>2 DEF ExecUpdate
    <2> QED
      BY <1>3, <2>3, <2>4 DEF ExecUpdate
  <1>4. ASSUME NEW r \in Requests, Reject(r) \/ ExecUpdateNoRow(r) \/ UpdateFails(r) \/ SelectFails(r)
        PROVE TypeOK'
    BY <1>4 DEF Reject, ExecUpdateNoRow, UpdateFails, SelectFails
  <1>5. ASSUME NEW r \in Requests, SelectBalance(r)
        PROVE TypeOK'
    BY <1>5 DEF SelectBalance
  <1>6. ASSUME NEW r \in Requests, InsertRow(r)
        PROVE TypeOK'
    <2>1. MailFor(r) \in {"none", "low_credits", "adjustment"}
      BY DEF MailFor
    <2>2. Tenant(r) \in TenantIds /\ Amount(r) \in Int
      BY <1>6 DEF InsertRow
    <2>3. log' \in Seq(Rows)
      BY <1>6, <2>2 DEF InsertRow
    <2> QED
      BY <1>6, <2>1, <2>3 DEF InsertRow, Answer
  <1>7. ASSUME NEW r \in Requests, InsertFails(r)
        PROVE TypeOK'
    <2>1. MailFor(r) \in {"none", "low_credits", "adjustment"}
      BY DEF MailFor
    <2> QED
      BY <1>7, <2>1 DEF InsertFails, Answer
  <1>8. ASSUME NEW t \in TenantIds, CreateTenant(t)
        PROVE TypeOK'
    <2>1. tenants' \subseteq issued' /\ issued' \subseteq TenantIds
      BY <1>8 DEF CreateTenant
    <2>2. balance' \in [TenantIds -> Int]
      BY <1>8 DEF CreateTenant
    <2> QED
      BY <1>8, <2>1, <2>2 DEF CreateTenant
  <1>11. ASSUME NEW t \in TenantIds, DeleteTenant(t)
        PROVE TypeOK'
    BY <1>11 DEF DeleteTenant
  <1>9. CASE Crash
    <2>1. pc' \in [Requests -> Steps]
      BY <1>9 DEF Crash, InFlight
    <2>2. \A q \in Requests : pc'[q] \notin {"idle", "error"} => pc[q] \notin {"idle", "error"}
      BY <1>9 DEF Crash, InFlight
    <2> QED
      BY <1>9, <2>1, <2>2 DEF Crash
  <1>10. CASE UNCHANGED vars
    BY <1>10 DEF vars
  <1> QED
    BY <1>1, <1>2, <1>3, <1>4, <1>5, <1>6, <1>7, <1>8, <1>9, <1>10, <1>11 DEF Next, Handle, Finished

-----------------------------------------------------------------------------

\* A step that leaves every balance and every history alone keeps what is
\* said of them.
LEMMA HistoryKept ==
  ASSUME FreshInv, NoLostUpdate, UNCHANGED <<balance, journal, issued>>
  PROVE  FreshInv' /\ NoLostUpdate'
  BY DEF FreshInv, NoLostUpdate, HistoryAddsUp, Before, Bigint

\* A step of r that moves its handler without changing a balance, a history, a
\* row or what it has read.  `from` and `to` are where the handler was and is.
LEMMA MoveKeeps ==
  ASSUME IInv, NEW r \in Requests, NEW to \in {"update", "select", "error"},
         UNCHANGED <<balance, log, journal, issued, tenants, seen, seenAt, mail>>,
         pc' = [pc EXCEPT ![r] = to],
         \/ pc[r] = "idle" /\ to # "select" /\ (to = "update" => call'[r].tenant \in issued)
            /\ \A q \in Requests \ {r} : call'[q] = call[q]
         \/ call' = call /\ pc[r] \in {"update", "select"} /\ to # "update"
            /\ (to = "select" => Tenant(r) \notin tenants)
  PROVE  AppliedAtMostOnce' /\ CallInv' /\ LogInv'
  <1> USE DEF IInv, Tenant, Amount
  <1>0. /\ pc \in [Requests -> Steps]
        /\ log \in Seq(Rows)
        /\ journal \in [TenantIds -> Seq(Entries)]
    BY DEF TypeOK
  <1>1. pc[r] \in {"idle", "update", "select"}
    OBVIOUS
  <1>2. \A q \in Requests : pc[q] # "idle" => call'[q] = call[q]
    OBVIOUS
  <1>3. \A q \in Requests \ {r} : pc'[q] = pc[q] /\ call'[q] = call[q]
    BY <1>0
  <1>4. pc'[r] = to
    BY <1>0
  <1>5. AppliedAtMostOnce'
    <2> SUFFICES ASSUME NEW t \in TenantIds, NEW i \in 1..Len(journal[t])
                 PROVE  OnlyEntryOf(journal[t][i].req, t, i)'
      BY DEF AppliedAtMostOnce
    <2> DEFINE q == journal[t][i].req
    <2>1. q \in Requests
      <3>1. journal[t] \in Seq(Entries)
        BY <1>0
      <3>2. journal[t][i] \in Entries
        BY <3>1
      <3> QED
        BY <3>2 DEF Entries
    <2>2. pc[q] \notin {"idle", "update"} /\ t = call[q].tenant /\ journal[t][i].amount = call[q].amount
      BY DEF AppliedAtMostOnce, OnlyEntryOf
    <2>3. \A j \in 1..Len(journal[t]) : journal[t][j].req = q => j = i
      BY DEF AppliedAtMostOnce, OnlyEntryOf
    <2>4. pc'[q] \notin {"idle", "update"}
      BY <2>1, <2>2, <1>3, <1>4
    <2> QED
      BY <2>1, <2>2, <2>3, <2>4, <1>2 DEF OnlyEntryOf
  <1>6. CallInv'
    <2> SUFFICES ASSUME NEW q \in Requests
                 PROVE  /\ pc'[q] \notin {"idle", "error"} => Tenant(q)' \in issued
                        /\ pc'[q] = "select" /\ Tenant(q)' \in tenants => Applied(q)'
                        /\ pc'[q] \in {"insert", "ok"} => ReadOwn(q)'
                        /\ pc'[q] = "ok" => mail[q] = MailFor(q)'
      BY DEF CallInv
    <2>1. CASE q = r
      BY <2>1, <1>4 DEF CallInv
    <2>2. CASE q # r
      BY <2>2, <1>3 DEF CallInv, Applied, ReadOwn, AppliedAt, MailFor
    <2> QED
      BY <2>1, <2>2
  <1>7. LogInv'
    <2> SUFFICES ASSUME NEW k \in 1..Len(log)
                 PROVE  /\ pc'[log[k].req] = "ok"
                        /\ log[k].tenant = Tenant(log[k].req)'
                        /\ log[k].amount = Amount(log[k].req)'
                        /\ log[k].after  = seen[log[k].req]
                        /\ \A m \in 1..Len(log) : log[m].req = log[k].req => m = k
      BY DEF LogInv
    <2>1. log[k].req \in Requests /\ log[k].req # r
      <3>1. log[k] \in Rows
        BY <1>0
      <3>2. pc[log[k].req] = "ok"
        BY DEF LogInv
      <3> QED
        BY <3>1, <3>2, <1>1 DEF Rows
    <2> QED
      BY <2>1, <1>3 DEF LogInv
  <1> QED
    BY <1>5, <1>6, <1>7

\* The committed UPDATE: r, which has no entry yet, appends the entry e as
\* number n + 1 of the history of T.
LEMMA ExecUpdateKeeps ==
  ASSUME IInv, NEW r \in Requests, ExecUpdate(r),
         NEW T \in TenantIds, T = Tenant(r), NEW n \in Nat, n = Len(journal[T]),
         NEW e \in Entries, e.req = r, e.amount = Amount(r), e.after = balance[T] + Amount(r),
         journal' = [journal EXCEPT ![T] = Append(journal[T], e)]
  PROVE  FreshInv' /\ NoLostUpdate' /\ AppliedAtMostOnce' /\ CallInv' /\ LogInv'
  <1>0. /\ pc \in [Requests -> Steps]
        /\ log \in Seq(Rows)
        /\ \A t \in TenantIds : journal[t] \in Seq(Entries)
        /\ journal \in [TenantIds -> Seq(Entries)]
        /\ balance \in [TenantIds -> Int]
        /\ pc[r] = "update"
        /\ T \in tenants /\ T \in issued
        /\ e.amount \in Int /\ e.after \in Int
    BY DEF IInv, TypeOK, ExecUpdate, Entries
  <1>1. /\ balance' = [balance EXCEPT ![T] = e.after]
        /\ pc' = [pc EXCEPT ![r] = "select"]
        /\ UNCHANGED <<tenants, issued, log, call, seen, mail, seenAt>>
        /\ Bigint(e.after)
    BY DEF ExecUpdate
  <1>2. /\ journal'[T] = Append(journal[T], e)
        /\ Len(journal'[T]) = n + 1
        /\ journal'[T][n + 1] = e
        /\ \A i \in 1..n : journal'[T][i] = journal[T][i]
    BY <1>0, <1>1
  <1>3. \A t \in TenantIds \ {T} : journal'[t] = journal[t] /\ balance'[t] = balance[t]
    BY <1>0, <1>1
  <1>4. \A q \in Requests \ {r} : pc'[q] = pc[q]
    BY <1>0, <1>1
  <1>5. pc'[r] = "select"
    BY <1>0, <1>1
  <1>6. \A t \in TenantIds : \A i \in 1..Len(journal[t]) :
          journal[t][i].req \in Requests /\ journal[t][i].req # r
    <2> SUFFICES ASSUME NEW t \in TenantIds, NEW i \in 1..Len(journal[t])
                 PROVE  journal[t][i].req \in Requests /\ journal[t][i].req # r
      OBVIOUS
    <2>1. journal[t][i] \in Entries
      BY <1>0
    <2>2. pc[journal[t][i].req] # "update"
      BY DEF IInv, AppliedAtMostOnce, OnlyEntryOf
    <2> QED
      BY <2>1, <2>2, <1>0 DEF Entries
  <1>7. FreshInv'
    BY <1>0, <1>1, <1>3 DEF IInv, FreshInv
  <1>8. NoLostUpdate'
    <2> SUFFICES ASSUME NEW t \in TenantIds
                 PROVE  HistoryAddsUp(t)'
      BY DEF NoLostUpdate
    <2>0. HistoryAddsUp(t)
      BY DEF IInv, NoLostUpdate
    <2>1. CASE t # T
      BY <2>0, <2>1, <1>3 DEF HistoryAddsUp, Before
    <2>2. CASE t = T
      <3>1. balance[T] = IF n = 0 THEN Opening[T] ELSE journal[T][n].after
        BY <2>0, <2>2, <1>0 DEF HistoryAddsUp, Before
      <3>2. ASSUME NEW i \in 1..n
            PROVE  journal'[T][i].after = Before(T, i)' + journal'[T][i].amount
        <4>1. journal[T][i].after = Before(T, i) + journal[T][i].amount
          BY <3>2, <2>0, <2>2 DEF HistoryAddsUp
        <4>2. Before(T, i)' = Before(T, i)
          <5>1. i # 1 => i - 1 \in 1..n
            BY <3>2
          <5> QED
            BY <5>1, <1>2 DEF Before
        <4> QED
          BY <3>2, <4>1, <4>2, <1>2
      <3>3. e.after = Before(T, n + 1)' + e.amount
        BY <3>1, <1>2, <1>0 DEF Before
      <3>4. balance'[T] = e.after /\ Bigint(balance'[T])
        BY <1>0, <1>1 DEF Bigint
      <3>5. Before(T, n + 2)' = e.after
        BY <1>0, <1>2 DEF Before
      <3>6. ASSUME NEW i \in 1..n + 1
            PROVE  journal'[T][i].after = Before(T, i)' + journal'[T][i].amount
        <4>1. CASE i \in 1..n
          BY <4>1, <3>2
        <4>2. CASE i = n + 1
          BY <4>2, <3>3, <1>2
        <4> QED
          BY <4>1, <4>2
      <3>7. Len(journal'[T]) = n + 1 /\ Len(journal'[T]) + 1 = n + 2
        BY <1>0, <1>2
      <3> QED
        BY <2>2, <3>4, <3>5, <3>6, <3>7 DEF HistoryAddsUp, Bigint
    <2> QED
      BY <2>1, <2>2
  <1>9. AppliedAtMostOnce'
    <2> SUFFICES ASSUME NEW t \in TenantIds, NEW i \in 1..Len(journal'[t])
                 PROVE  OnlyEntryOf(journal[t][i].req, t, i)'
      BY DEF AppliedAtMostOnce
    <2>0. \A q : Tenant(q)' = Tenant(q) /\ Amount(q)' = Amount(q)
      BY <1>1 DEF Tenant, Amount
    <2>1. CASE t = T /\ i = n + 1
      <3>1. \A j \in 1..n + 1 : journal'[T][j].req = r => j = n + 1
        BY <1>2, <1>6
      <3> QED
        BY <2>1, <3>1, <1>2, <1>5, <2>0 DEF OnlyEntryOf
    <2>2. CASE ~(t = T /\ i = n + 1)
      <3>1. i \in 1..Len(journal[t]) /\ journal'[t][i] = journal[t][i]
        BY <2>2, <1>0, <1>2, <1>3
      <3> DEFINE q == journal[t][i].req
      <3>2. q \in Requests /\ q # r
        BY <3>1, <1>6
      <3>3. /\ pc[q] \notin {"idle", "update"} /\ t = Tenant(q)
            /\ journal[t][i].amount = Amount(q)
            /\ \A j \in 1..Len(journal[t]) : journal[t][j].req = q => j = i
        BY <3>1 DEF IInv, AppliedAtMostOnce, OnlyEntryOf
      <3>4. \A j \in 1..Len(journal'[t]) : journal'[t][j].req = q => j = i
        <4>1. CASE t # T
          BY <4>1, <3>3, <1>3
        <4>2. CASE t = T
          BY <4>2, <3>2, <3>3, <1>2
        <4> QED
          BY <4>1, <4>2
      <3> QED
        BY <3>1, <3>2, <3>3, <3>4, <1>4, <2>0 DEF OnlyEntryOf
    <2> QED
      BY <2>1, <2>2
  <1>10. \A t \in TenantIds : \A i \in 1..Len(journal[t]) :
           i \in 1..Len(journal'[t]) /\ journal'[t][i] = journal[t][i]
    BY <1>0, <1>2, <1>3
  <1>11. CallInv'
    <2> SUFFICES ASSUME NEW q \in Requests
                 PROVE  /\ pc'[q] \notin {"idle", "error"} => Tenant(q)' \in issued'
                        /\ pc'[q] = "select" /\ Tenant(q)' \in tenants' => Applied(q)'
                        /\ pc'[q] \in {"insert", "ok"} => ReadOwn(q)'
                        /\ pc'[q] = "ok" => mail'[q] = MailFor(q)'
      BY DEF CallInv
    <2>0. Tenant(q)' = Tenant(q) /\ MailFor(q)' = MailFor(q)
      BY <1>1 DEF Tenant, MailFor, Amount
    <2>1. CASE q = r
      <3>1. AppliedAt(r, T, n + 1)'
        BY <1>0, <1>2, <2>0 DEF AppliedAt
      <3>2. Applied(r)'
        BY <3>1, <1>0, <1>2, <2>0, <2>1 DEF Applied
      <3> QED
        BY <3>2, <2>1, <2>0, <1>0, <1>1, <1>5
    <2>2. CASE q # r
      <3>0. /\ pc'[q] = pc[q]
            /\ pc[q] \notin {"idle", "error"} => Tenant(q) \in issued /\ Tenant(q) \in TenantIds
            /\ pc[q] = "select" /\ Tenant(q) \in tenants => Applied(q)
            /\ pc[q] \in {"insert", "ok"} => ReadOwn(q)
            /\ pc[q] = "ok" => mail[q] = MailFor(q)
        BY <2>2, <1>4 DEF IInv, CallInv, TypeOK
      <3>1. Applied(q) /\ Tenant(q) \in TenantIds => Applied(q)'
        BY <1>10, <2>0 DEF Applied, AppliedAt
      <3>2. ReadOwn(q) /\ Tenant(q) \in TenantIds => ReadOwn(q)'
        <4> SUFFICES ASSUME ReadOwn(q), Tenant(q) \in TenantIds PROVE ReadOwn(q)'
          OBVIOUS
        <4>1. seenAt[q] \in 1..Len(journal'[Tenant(q)])
              /\ journal'[Tenant(q)][seenAt[q]] = journal[Tenant(q)][seenAt[q]]
          BY <1>10 DEF ReadOwn
        <4>2. PICK i \in 1..seenAt[q] : AppliedAt(q, Tenant(q), i)
          BY DEF ReadOwn
        <4>3. AppliedAt(q, Tenant(q), i)'
          BY <4>2, <1>10, <2>0 DEF AppliedAt
        <4> QED
          BY <4>1, <4>2, <4>3, <1>1, <2>0 DEF ReadOwn
      <3> QED
        BY <3>0, <3>1, <3>2, <2>0, <1>1
    <2> QED
      BY <2>1, <2>2
  <1>12. LogInv'
    <2> SUFFICES ASSUME NEW k \in 1..Len(log)
                 PROVE  /\ pc'[log[k].req] = "ok"
                        /\ log[k].tenant = Tenant(log[k].req)
                        /\ log[k].amount = Amount(log[k].req)
                        /\ log[k].after  = seen[log[k].req]
                        /\ \A m \in 1..Len(log) : log[m].req = log[k].req => m = k
      BY <1>1 DEF LogInv, Tenant, Amount
    <2>1. log[k] \in Rows
      BY <1>0
    <2>2. pc[log[k].req] = "ok"
      BY DEF IInv, LogInv
    <2>3. pc'[log[k].req] = "ok"
      BY <2>1, <2>2, <1>0, <1>4 DEF Rows
    <2> QED
      BY <2>3 DEF IInv, LogInv
  <1> QED
    BY <1>7, <1>8, <1>9, <1>11, <1>12

\* The read: it sees the row as it is now, r's own change included.
LEMMA SelectBalanceKeeps ==
  ASSUME IInv, NEW r \in Requests, SelectBalance(r),
         NEW T \in TenantIds, T = Tenant(r), NEW n \in Nat, n = Len(journal[T])
  PROVE  AppliedAtMostOnce' /\ CallInv' /\ LogInv'
  <1>0. /\ pc \in [Requests -> Steps]
        /\ seen \in [Requests -> Int] /\ seenAt \in [Requests -> Nat]
        /\ log \in Seq(Rows)
        /\ \A t \in TenantIds : journal[t] \in Seq(Entries)
        /\ pc[r] = "select" /\ T \in tenants /\ Applied(r)
    BY DEF IInv, TypeOK, CallInv, SelectBalance
  <1>1. /\ UNCHANGED <<tenants, issued, balance, log, call, mail, journal>>
        /\ pc'[r] = "insert" /\ seen'[r] = balance[T] /\ seenAt'[r] = n
        /\ \A q \in Requests \ {r} : pc'[q] = pc[q] /\ seen'[q] = seen[q] /\ seenAt'[q] = seenAt[q]
    BY <1>0 DEF SelectBalance, dbVars
  <1>2. \A q : Tenant(q)' = Tenant(q) /\ Amount(q)' = Amount(q)
    BY <1>1 DEF Tenant, Amount
  <1>3. AppliedAtMostOnce'
    <2> SUFFICES ASSUME NEW t \in TenantIds, NEW i \in 1..Len(journal[t])
                 PROVE  OnlyEntryOf(journal[t][i].req, t, i)'
      BY <1>1 DEF AppliedAtMostOnce
    <2>1. journal[t][i] \in Entries
      BY <1>0
    <2> QED
      BY <2>1, <1>0, <1>1, <1>2 DEF IInv, AppliedAtMostOnce, OnlyEntryOf, Entries
  <1>4. CallInv'
    <2> SUFFICES ASSUME NEW q \in Requests
                 PROVE  /\ pc'[q] \notin {"idle", "error"} => Tenant(q)' \in issued'
                        /\ pc'[q] = "select" /\ Tenant(q)' \in tenants' => Applied(q)'
                        /\ pc'[q] \in {"insert", "ok"} => ReadOwn(q)'
                        /\ pc'[q] = "ok" => mail'[q] = MailFor(q)'
      BY DEF CallInv
    <2>1. CASE q = r
      <3>1. PICK i \in 1..n : AppliedAt(r, T, i)
        BY <1>0 DEF Applied
      <3>2. n \in 1..n /\ 1..n = 1..Len(journal[T])
        BY <3>1
      <3>3. balance[T] = journal[T][n].after
        BY <3>1, <3>2 DEF IInv, NoLostUpdate, HistoryAddsUp, Before
      <3>4. AppliedAt(r, T, i)'
        BY <3>1, <1>1 DEF AppliedAt
      <3>5. ReadOwn(r)'
        BY <3>1, <3>2, <3>3, <3>4, <1>1, <1>2 DEF ReadOwn
      <3> QED
        BY <2>1, <3>5, <1>0, <1>1, <1>2 DEF IInv, CallInv
    <2>2. CASE q # r
      <3>1. ReadOwn(q) => ReadOwn(q)'
        BY <2>2, <1>1, <1>2 DEF ReadOwn, AppliedAt
      <3>2. Applied(q) => Applied(q)'
        BY <1>1, <1>2 DEF Applied, AppliedAt
      <3>3. MailFor(q)' = MailFor(q)
        BY <2>2, <1>1, <1>2 DEF MailFor
      <3> QED
        BY <2>2, <3>1, <3>2, <3>3, <1>1, <1>2 DEF IInv, CallInv
    <2> QED
      BY <2>1, <2>2
  <1>5. LogInv'
    <2> SUFFICES ASSUME NEW k \in 1..Len(log)
                 PROVE  /\ pc'[log[k].req] = "ok"
                        /\ log[k].tenant = Tenant(log[k].req)
                        /\ log[k].amount = Amount(log[k].req)
                        /\ log[k].after  = seen'[log[k].req]
                        /\ \A m \in 1..Len(log) : log[m].req = log[k].req => m = k
      BY <1>1, <1>2 DEF LogInv
    <2>1. log[k] \in Rows
      BY <1>0
    <2>2. pc[log[k].req] = "ok"
      BY DEF IInv, LogInv
    <2>3. log[k].req \in Requests \ {r}
      BY <2>1, <2>2, <1>0 DEF Rows
    <2> QED
      BY <2>2, <2>3, <1>1 DEF IInv, LogInv
  <1> QED
    BY <1>3, <1>4, <1>5

\* The answer, with or without its row of credit_transactions.
LEMMA AnswerKeeps ==
  ASSUME IInv, NEW r \in Requests, InsertRow(r) \/ InsertFails(r),
         NEW n \in Nat, n = Len(log),
         NEW row \in Rows, row = [req |-> r, tenant |-> Tenant(r),
                                  amount |-> Amount(r), after |-> seen[r]]
  PROVE  AppliedAtMostOnce' /\ CallInv' /\ LogInv'
  <1>0. /\ pc \in [Requests -> Steps]
        /\ log \in Seq(Rows)
        /\ \A t \in TenantIds : journal[t] \in Seq(Entries)
        /\ pc[r] = "insert"
        /\ mail \in [Requests -> {"none", "low_credits", "adjustment"}]
    BY DEF IInv, TypeOK, InsertRow, InsertFails
  <1>1. /\ UNCHANGED <<tenants, issued, balance, call, seen, journal, seenAt>>
        /\ pc'[r] = "ok" /\ mail'[r] = MailFor(r)
        /\ \A q \in Requests \ {r} : pc'[q] = pc[q] /\ mail'[q] = mail[q]
        /\ log' = log \/ log' = Append(log, row)
    BY <1>0 DEF InsertRow, InsertFails, Answer, dbVars, histVars
  <1>2. \A q : Tenant(q)' = Tenant(q) /\ Amount(q)' = Amount(q) /\ MailFor(q)' = MailFor(q)
    BY <1>1 DEF Tenant, Amount, MailFor
  <1>3. AppliedAtMostOnce'
    <2> SUFFICES ASSUME NEW t \in TenantIds, NEW i \in 1..Len(journal[t])
                 PROVE  OnlyEntryOf(journal[t][i].req, t, i)'
      BY <1>1 DEF AppliedAtMostOnce
    <2>1. journal[t][i] \in Entries
      BY <1>0
    <2> QED
      BY <2>1, <1>0, <1>1, <1>2 DEF IInv, AppliedAtMostOnce, OnlyEntryOf, Entries
  <1>4. CallInv'
    <2> SUFFICES ASSUME NEW q \in Requests
                 PROVE  /\ pc'[q] \notin {"idle", "error"} => Tenant(q)' \in issued'
                        /\ pc'[q] = "select" /\ Tenant(q)' \in tenants' => Applied(q)'
                        /\ pc'[q] \in {"insert", "ok"} => ReadOwn(q)'
                        /\ pc'[q] = "ok" => mail'[q] = MailFor(q)'
      BY DEF CallInv
    <2>1. ReadOwn(q) => ReadOwn(q)'
      BY <1>1, <1>2 DEF ReadOwn, AppliedAt
    <2>2. Applied(q) => Applied(q)'
      BY <1>1, <1>2 DEF Applied, AppliedAt
    <2> QED
      BY <2>1, <2>2, <1>0, <1>1, <1>2 DEF IInv, CallInv
  <1>5. \A k \in 1..n : log[k].req # r
    BY <1>0 DEF IInv, LogInv
  <1>6. ASSUME NEW k \in 1..n
        PROVE  /\ pc'[log[k].req] = "ok"
               /\ log[k].tenant = Tenant(log[k].req)
               /\ log[k].amount = Amount(log[k].req)
               /\ log[k].after  = seen'[log[k].req]
               /\ \A m \in 1..n : log[m].req = log[k].req => m = k
    <2>1. log[k] \in Rows
      BY <1>0
    <2>2. /\ pc[log[k].req] = "ok" /\ log[k].tenant = Tenant(log[k].req)
          /\ log[k].amount = Amount(log[k].req) /\ log[k].after  = seen[log[k].req]
          /\ \A m \in 1..n : log[m].req = log[k].req => m = k
      BY DEF IInv, LogInv
    <2>3. log[k].req \in Requests
      BY <2>1 DEF Rows
    <2> QED
      BY <2>2, <2>3, <1>1, <1>5
  <1>7. LogInv'
    <2>0. \A q : call'[q].tenant = Tenant(q) /\ call'[q].amount = Amount(q)
      BY <1>1 DEF Tenant, Amount
    <2>1. CASE log' = log
      <3> SUFFICES ASSUME NEW k \in 1..n
                   PROVE  /\ pc'[log[k].req] = "ok"
                          /\ log[k].tenant = call'[log[k].req].tenant
                          /\ log[k].amount = call'[log[k].req].amount
                          /\ log[k].after  = seen'[log[k].req]
                          /\ \A m \in 1..n : log[m].req = log[k].req => m = k
        BY <2>1 DEF LogInv, Tenant, Amount
      <3> QED
        BY <1>6, <2>0
    <2>2. CASE log' = Append(log, row)
      <3>1. /\ Len(log') = n + 1 /\ log'[n + 1] = row
            /\ \A k \in 1..n : log'[k] = log[k]
        BY <2>2, <1>0
      <3>2. row.req = r /\ row.tenant = Tenant(r) /\ row.amount = Amount(r) /\ row.after = seen[r]
        OBVIOUS
      <3> SUFFICES ASSUME NEW k \in 1..n + 1
                   PROVE  /\ pc'[log'[k].req] = "ok"
                          /\ log'[k].tenant = call'[log'[k].req].tenant
                          /\ log'[k].amount = call'[log'[k].req].amount
                          /\ log'[k].after  = seen'[log'[k].req]
                          /\ \A m \in 1..n + 1 : log'[m].req = log'[k].req => m = k
        BY <3>1 DEF LogInv, Tenant, Amount
      <3>3. CASE k = n + 1
        <4>1. \A m \in 1..n : log'[m].req # r
          BY <3>1, <1>5
        <4> QED
          BY <3>3, <4>1, <3>1, <3>2, <1>1, <2>0
      <3>4. CASE k \in 1..n
        <4>1. log'[k] = log[k] /\ log[k].req # r
          BY <3>4, <3>1, <1>5
        <4>2. \A m \in 1..n : log'[m].req = log'[k].req => m = k
          BY <3>4, <3>1, <1>6
        <4>3. log'[n + 1].req # log'[k].req
          BY <4>1, <3>1, <3>2
        <4>4. /\ pc'[log[k].req] = "ok"
              /\ log[k].tenant = Tenant(log[k].req)
              /\ log[k].amount = Amount(log[k].req)
              /\ log[k].after  = seen'[log[k].req]
          BY <3>4, <1>6
        <4> QED
          BY <4>1, <4>2, <4>3, <4>4, <2>0
      <3> QED
        BY <3>3, <3>4
    <2> QED
      BY <2>1, <2>2, <1>1
  <1> QED
    BY <1>3, <1>4, <1>7

\* The steps of the surroundings, which touch no request's data: a tenant is
\* created with a fresh id or deleted, or the process stops.
LEMMA SurroundingsKeep ==
  ASSUME IInv, UNCHANGED <<log, call, seen, mail, journal, seenAt>>,
         issued \subseteq issued',
         tenants' \subseteq tenants \cup (TenantIds \ issued),
         pc' \in [Requests -> Steps],
         \A q \in Requests : pc'[q] = pc[q] \/ (pc[q] \in InFlight /\ pc'[q] = "lost")
  PROVE  AppliedAtMostOnce' /\ CallInv' /\ LogInv'
  <1>0. /\ pc \in [Requests -> Steps]
        /\ log \in Seq(Rows)
        /\ \A t \in TenantIds : journal[t] \in Seq(Entries)
    BY DEF IInv, TypeOK
  <1>2. \A q : Tenant(q)' = Tenant(q) /\ Amount(q)' = Amount(q) /\ MailFor(q)' = MailFor(q)
    BY DEF Tenant, Amount, MailFor
  <1>3. AppliedAtMostOnce'
    <2> SUFFICES ASSUME NEW t \in TenantIds, NEW i \in 1..Len(journal[t])
                 PROVE  OnlyEntryOf(journal[t][i].req, t, i)'
      BY DEF AppliedAtMostOnce
    <2>1. journal[t][i] \in Entries
      BY <1>0
    <2> QED
      BY <2>1, <1>0, <1>2 DEF IInv, AppliedAtMostOnce, OnlyEntryOf, Entries
  <1>4. CallInv'
    <2> SUFFICES ASSUME NEW q \in Requests
                 PROVE  /\ pc'[q] \notin {"idle", "error"} => Tenant(q)' \in issued'
                        /\ pc'[q] = "select" /\ Tenant(q)' \in tenants' => Applied(q)'
                        /\ pc'[q] \in {"insert", "ok"} => ReadOwn(q)'
                        /\ pc'[q] = "ok" => mail'[q] = MailFor(q)'
      BY DEF CallInv
    <2>1. ReadOwn(q) => ReadOwn(q)'
      BY <1>2 DEF ReadOwn, AppliedAt
    <2>2. Applied(q) => Applied(q)'
      BY <1>2 DEF Applied, AppliedAt
    <2>3. pc[q] \notin {"idle", "error"} => Tenant(q) \in issued
      BY DEF IInv, CallInv
    <2>4. pc'[q] \notin {"idle", "error"} => pc[q] \notin {"idle", "error"}
      BY DEF InFlight
    <2> QED
      BY <2>1, <2>2, <2>3, <2>4, <1>2 DEF IInv, CallInv
  <1>5. LogInv'
    <2> SUFFICES ASSUME NEW k \in 1..Len(log)
                 PROVE  /\ pc'[log[k].req] = "ok"
                        /\ log[k].tenant = Tenant(log[k].req)
                        /\ log[k].amount = Amount(log[k].req)
                        /\ log[k].after  = seen[log[k].req]
                        /\ \A m \in 1..Len(log) : log[m].req = log[k].req => m = k
      BY <1>2 DEF LogInv
    <2>1. log[k] \in Rows
      BY <1>0
    <2>2. pc[log[k].req] = "ok"
      BY DEF IInv, LogInv
    <2>3. pc'[log[k].req] = "ok"
      BY <2>1, <2>2 DEF Rows, InFlight
    <2> QED
      BY <2>3 DEF IInv, LogInv
  <1> QED
    BY <1>3, <1>4, <1>5

-----------------------------------------------------------------------------

\* The invariant is inductive.
LEMMA NextIInv == IInv /\ [Next]_vars => IInv'
  <1> SUFFICES ASSUME IInv, [Next]_vars PROVE IInv'
    OBVIOUS
  <1>0. TypeOK'
    BY TypeStep DEF IInv
  <1> DEFINE Rest == FreshInv /\ NoLostUpdate /\ AppliedAtMostOnce /\ CallInv /\ LogInv
  <1>1. ASSUME NEW r \in Requests, NEW t \in TenantIds, NEW a \in Amounts,
               CallUpdate(r, t, a) \/ CallAdmin(r, t, a)
        PROVE  Rest'
    <2>1. /\ UNCHANGED <<tenants, issued, balance, log, seen, mail, journal, seenAt>>
          /\ pc[r] = "idle" /\ t \in issued
          /\ call'[r].tenant = t /\ \A q \in Requests \ {r} : call'[q] = call[q]
      BY <1>1 DEF CallUpdate, CallAdmin, dbVars, histVars, IInv, TypeOK
    <2>2. PICK to \in {"update", "select", "error"} : to # "select" /\ pc' = [pc EXCEPT ![r] = to]
      BY <1>1 DEF CallUpdate, CallAdmin
    <2>3. FreshInv' /\ NoLostUpdate'
      BY <2>1, HistoryKept DEF IInv
    <2>4. AppliedAtMostOnce' /\ CallInv' /\ LogInv'
      BY <2>1, <2>2, MoveKeeps
    <2> QED
      BY <2>3, <2>4
  <1>2. ASSUME NEW r \in Requests, ExecUpdate(r)
        PROVE  Rest'
    <2>1. call[r] \in Calls
      BY <1>2 DEF IInv, TypeOK, ExecUpdate
    <2>2. Tenant(r) \in TenantIds /\ Amount(r) \in Int
      BY <2>1, LedgerAssumption DEF Calls, Tenant, Amount
    <2>3. balance[Tenant(r)] + Amount(r) \in Int /\ Len(journal[Tenant(r)]) \in Nat
      BY <2>2 DEF IInv, TypeOK
    <2>4. PICK e \in Entries : e = [req |-> r, amount |-> Amount(r),
                                    after |-> balance[Tenant(r)] + Amount(r)]
      BY <2>2, <2>3 DEF Entries
    <2>5. e.req = r /\ e.amount = Amount(r) /\ e.after = balance[Tenant(r)] + Amount(r)
      BY <2>4
    <2>6. journal' = [journal EXCEPT ![Tenant(r)] = Append(journal[Tenant(r)], e)]
      BY <1>2, <2>4 DEF ExecUpdate
    <2> QED
      BY <1>2, <2>2, <2>3, <2>5, <2>6, ExecUpdateKeeps
  <1>3. ASSUME NEW r \in Requests, ExecUpdateNoRow(r) \/ UpdateFails(r) \/ SelectFails(r)
        PROVE  Rest'
    <2>1. /\ UNCHANGED <<tenants, issued, balance, log, call, seen, mail, journal, seenAt>>
          /\ pc[r] \in {"update", "select"}
      BY <1>3 DEF ExecUpdateNoRow, UpdateFails, SelectFails, dbVars, histVars
    <2>2. PICK to \in {"update", "select", "error"} :
            /\ to # "update" /\ pc' = [pc EXCEPT ![r] = to]
            /\ to = "select" => Tenant(r) \notin tenants
      BY <1>3 DEF ExecUpdateNoRow, UpdateFails, SelectFails
    <2>3. FreshInv' /\ NoLostUpdate'
      BY <2>1, HistoryKept DEF IInv
    <2>4. AppliedAtMostOnce' /\ CallInv' /\ LogInv'
      BY <2>1, <2>2, MoveKeeps
    <2> QED
      BY <2>3, <2>4
  <1>4. ASSUME NEW r \in Requests, SelectBalance(r)
        PROVE  Rest'
    <2>1. call[r] \in Calls
      BY <1>4 DEF IInv, TypeOK, SelectBalance
    <2>2. Tenant(r) \in TenantIds
      BY <2>1 DEF Calls, Tenant
    <2>3. Len(journal[Tenant(r)]) \in Nat
      BY <2>2 DEF IInv, TypeOK
    <2>4. FreshInv' /\ NoLostUpdate'
      BY <1>4, HistoryKept DEF IInv, SelectBalance, dbVars
    <2> QED
      BY <1>4, <2>2, <2>3, <2>4, SelectBalanceKeeps
  <1>5. ASSUME NEW r \in Requests, InsertRow(r) \/ InsertFails(r)
        PROVE  Rest'
    <2>1. call[r] \in Calls
      BY <1>5 DEF IInv, TypeOK, InsertRow, InsertFails
    <2>5. Tenant(r) \in TenantIds /\ Amount(r) \in Int
      BY <2>1, LedgerAssumption DEF Calls, Tenant, Amount
    <2>2. Tenant(r) \in TenantIds /\ Amount(r) \in Int /\ seen[r] \in Int /\ Len(log) \in Nat
      BY <2>5 DEF IInv, TypeOK
    <2>3. [req |-> r, tenant |-> Tenant(r), amount |-> Amount(r), after |-> seen[r]] \in Rows
      BY <2>2 DEF Rows
    <2>4. FreshInv' /\ NoLostUpdate'
      BY <1>5, HistoryKept DEF IInv, InsertRow, InsertFails, dbVars, histVars
    <2> QED
      BY <1>5, <2>2, <2>3, <2>4, AnswerKeeps
  <1>6. ASSUME NEW t \in TenantIds, CreateTenant(t)
        PROVE  Rest'
    <2>1. /\ UNCHANGED <<log, call, pc, seen, mail, journal, seenAt>>
          /\ t \notin issued /\ issued' = issued \cup {t} /\ tenants' = tenants \cup {t}
          /\ balance' = [balance EXCEPT ![t] = 0]
      BY <1>6 DEF CreateTenant, reqVars, histVars
    <2>2. balance[t] = 0 /\ balance \in [TenantIds -> Int]
      BY <2>1 DEF IInv, FreshInv, TypeOK
    <2>3. balance' = balance
      BY <2>1, <2>2
    <2>4. FreshInv' /\ NoLostUpdate'
      BY <2>1, <2>3 DEF IInv, FreshInv, NoLostUpdate, HistoryAddsUp, Before, Bigint
    <2>5. pc' \in [Requests -> Steps]
      BY <2>1 DEF IInv, TypeOK
    <2>6. /\ UNCHANGED <<log, call, seen, mail, journal, seenAt>>
          /\ issued \subseteq issued'
          /\ tenants' \subseteq tenants \cup (TenantIds \ issued)
          /\ \A q \in Requests : pc'[q] = pc[q] \/ (pc[q] \in InFlight /\ pc'[q] = "lost")
      BY <2>1
    <2>7. AppliedAtMostOnce' /\ CallInv' /\ LogInv'
      BY <2>5, <2>6, SurroundingsKeep
    <2> QED
      BY <2>4, <2>7
  <1>7. ASSUME NEW t \in TenantIds, DeleteTenant(t)
        PROVE  Rest'
    <2>1. /\ UNCHANGED <<issued, balance, log, call, pc, seen, mail, journal, seenAt>>
          /\ tenants' \subseteq tenants
      BY <1>7 DEF DeleteTenant, reqVars, histVars
    <2>2. FreshInv' /\ NoLostUpdate'
      BY <2>1, HistoryKept DEF IInv
    <2>3. pc' \in [Requests -> Steps]
      BY <2>1 DEF IInv, TypeOK
    <2>4. /\ UNCHANGED <<log, call, seen, mail, journal, seenAt>>
          /\ issued \subseteq issued'
          /\ tenants' \subseteq tenants \cup (TenantIds \ issued)
          /\ \A q \in Requests : pc'[q] = pc[q] \/ (pc[q] \in InFlight /\ pc'[q] = "lost")
      BY <2>1
    <2>5. AppliedAtMostOnce' /\ CallInv' /\ LogInv'
      BY <2>3, <2>4, SurroundingsKeep
    <2> QED
      BY <2>2, <2>5
  <1>8. ASSUME Crash
        PROVE  Rest'
    <2>1. /\ UNCHANGED <<tenants, issued, balance, log, call, seen, mail, journal, seenAt>>
          /\ pc' = [r \in Requests |-> IF pc[r] \in InFlight THEN "lost" ELSE pc[r]]
      BY <1>8 DEF Crash, dbVars, histVars
    <2>2. FreshInv' /\ NoLostUpdate'
      BY <2>1, HistoryKept DEF IInv
    <2>3. pc' \in [Requests -> Steps]
      BY <2>1, <1>0 DEF TypeOK
    <2>4. ASSUME NEW q \in Requests
          PROVE  pc'[q] = pc[q] \/ (pc[q] \in InFlight /\ pc'[q] = "lost")
      <3>1. pc'[q] = IF pc[q] \in InFlight THEN "lost" ELSE pc[q]
        BY <2>1
      <3> QED
        BY <3>1
    <2>5. /\ UNCHANGED <<log, call, seen, mail, journal, seenAt>>
          /\ issued \subseteq issued'
          /\ tenants' \subseteq tenants \cup (TenantIds \ issued)
      BY <2>1
    <2>6. AppliedAtMostOnce' /\ CallInv' /\ LogInv'
      BY <2>3, <2>4, <2>5, SurroundingsKeep
    <2> QED
      BY <2>2, <2>6
  <1>9. ASSUME UNCHANGED vars
        PROVE  Rest'
    <2>1. UNCHANGED <<tenants, issued, balance, log, call, pc, seen, mail, journal, seenAt>>
      BY <1>9 DEF vars
    <2>2. FreshInv' /\ NoLostUpdate'
      BY <2>1, HistoryKept DEF IInv
    <2>3. pc' \in [Requests -> Steps]
      BY <2>1, <1>0 DEF TypeOK
    <2>4. /\ UNCHANGED <<log, call, seen, mail, journal, seenAt>>
          /\ issued \subseteq issued'
          /\ tenants' \subseteq tenants \cup (TenantIds \ issued)
          /\ \A q \in Requests : pc'[q] = pc[q] \/ (pc[q] \in InFlight /\ pc'[q] = "lost")
      BY <2>1
    <2>5. AppliedAtMostOnce' /\ CallInv' /\ LogInv'
      BY <2>3, <2>4, SurroundingsKeep
    <2> QED
      BY <2>2, <2>5
  <1>11. ASSUME NEW r \in Requests, Reject(r)
         PROVE  Rest'
    <2>1. /\ UNCHANGED <<tenants, issued, balance, log, call, seen, mail, journal, seenAt>>
          /\ pc[r] = "idle" /\ pc' = [pc EXCEPT ![r] = "error"]
      BY <1>11 DEF Reject, dbVars, histVars
    <2>2. FreshInv' /\ NoLostUpdate'
      BY <2>1, HistoryKept DEF IInv
    <2>3. AppliedAtMostOnce' /\ CallInv' /\ LogInv'
      BY <2>1, MoveKeeps
    <2> QED
      BY <2>2, <2>3
  <1>10. Rest'
    BY <1>1, <1>2, <1>3, <1>4, <1>5, <1>6, <1>7, <1>8, <1>9, <1>11 DEF Next, Handle, Finished
  <1> QED
    BY <1>0, <1>10 DEF IInv

\* Every reachable state satisfies the inductive invariant.
THEOREM Inductive == Spec => []IInv
  BY InitIInv, NextIInv, PTL DEF Spec

\* The variables keep their types, and a tenant's row was once issued.
THEOREM LedgerTypes == Spec => []TypeOK
  <1>1. IInv => TypeOK
    BY DEF IInv
  <1> QED
    BY <1>1, Inductive, PTL

\* No interleaving of the three-statement calls loses a balance change.
THEOREM LedgerAddsUp == Spec => []NoLostUpdate
  <1>1. IInv => NoLostUpdate
    BY DEF IInv
  <1> QED
    BY <1>1, Inductive, PTL

\* No request changes a balance twice, or another tenant's, and an Ok answer is
\* a committed change the caller's SELECT has seen.
THEOREM AnswersMatchChanges == Spec => []ChangedAsAnswered
  <1>1. IInv => AppliedAtMostOnce
    BY DEF IInv
  <1>2. IInv => OkMeansApplied
    BY DEF IInv, CallInv, ReadOwn, OkMeansApplied
  <1>3. IInv => ChangedAsAnswered
    BY <1>1, <1>2 DEF ChangedAsAnswered
  <1> QED
    BY <1>3, Inductive, PTL

\* Every row of credit_transactions stands for one committed change.
THEOREM RowsBacked == Spec => []RowsAreBacked
  <1>1. ASSUME IInv PROVE RowsAreBacked
    <2> SUFFICES ASSUME NEW k \in 1..Len(log)
                 PROVE  /\ pc[log[k].req] = "ok"
                        /\ \E i \in 1..Len(journal[log[k].tenant]) :
                             /\ AppliedAt(log[k].req, log[k].tenant, i)
                             /\ log[k].amount = journal[log[k].tenant][i].amount
                             /\ i <= seenAt[log[k].req]
                             /\ log[k].after = Before(log[k].tenant, seenAt[log[k].req] + 1)
                        /\ \A m \in 1..Len(log) : log[m].req = log[k].req => m = k
      BY DEF RowsAreBacked
    <2>1. log[k] \in Rows
      BY <1>1 DEF IInv, TypeOK
    <2>2. PICK q \in Requests : q = log[k].req
      BY <2>1 DEF Rows
    <2>3. PICK T \in TenantIds : T = log[k].tenant
      BY <2>1 DEF Rows
    <2>4. /\ pc[q] = "ok" /\ T = Tenant(q) /\ log[k].amount = Amount(q) /\ log[k].after = seen[q]
          /\ \A m \in 1..Len(log) : log[m].req = q => m = k
      BY <1>1, <2>2, <2>3 DEF IInv, LogInv
    <2>5. ReadOwn(q)
      BY <1>1, <2>4 DEF IInv, CallInv
    <2>6. PICK i \in 1..seenAt[q] : AppliedAt(q, T, i)
      BY <2>5, <2>4 DEF ReadOwn
    <2>7. i \in 1..Len(journal[T]) /\ journal[T][i].req = q
      BY <2>6 DEF AppliedAt
    <2>8. journal[T][i].amount = Amount(q)
      BY <1>1, <2>7 DEF IInv, AppliedAtMostOnce, OnlyEntryOf
    <2>9. seenAt[q] \in Nat \ {0} /\ seen[q] = journal[T][seenAt[q]].after
      BY <2>5, <2>4, <1>1 DEF ReadOwn, IInv, TypeOK
    <2>10. Before(T, seenAt[q] + 1) = seen[q]
      BY <2>9 DEF Before
    <2>11. i <= seenAt[q]
      BY <2>6, <2>9
    <2> QED
      BY <2>2, <2>3, <2>4, <2>6, <2>7, <2>8, <2>10, <2>11
  <1> QED
    BY <1>1, Inductive, PTL

\* Undisturbed between its UPDATE and its SELECT, a deduction warns exactly
\* when it crosses the threshold.
THEOREM WarningExact == Spec => []WarningExactWhenUndisturbed
  <1>1. ASSUME IInv PROVE WarningExactWhenUndisturbed
    <2> SUFFICES ASSUME NEW q \in Requests, pc[q] = "ok", call[q].kind = "update",
                        NEW i \in 1..Len(journal[Tenant(q)]),
                        AppliedAt(q, Tenant(q), i), seenAt[q] = i
                 PROVE  mail[q] = "low_credits" <=>
                          /\ Before(Tenant(q), i) >= LowCreditsThreshold
                          /\ journal[Tenant(q)][i].after < LowCreditsThreshold
      BY DEF WarningExactWhenUndisturbed
    <2>1. call[q] \in Calls
      BY <1>1 DEF IInv, TypeOK
    <2>2. PICK T \in TenantIds : T = Tenant(q)
      BY <2>1 DEF Calls, Tenant
    <2>3. journal[T][i] \in Entries
      BY <1>1, <2>2 DEF IInv, TypeOK
    <2>4. PICK b \in Int, c \in Int : b = journal[T][i].after /\ c = journal[T][i].amount
      BY <2>3 DEF Entries
    <2>5. seen[q] = b
      BY <1>1, <2>2, <2>4 DEF IInv, CallInv, ReadOwn
    <2>6. Amount(q) = c
      BY <1>1, <2>2, <2>4 DEF IInv, AppliedAtMostOnce, OnlyEntryOf, AppliedAt
    <2>7. b = Before(T, i) + c
      BY <1>1, <2>2, <2>4 DEF IInv, NoLostUpdate, HistoryAddsUp
    <2>8. Before(T, i) \in Int
      <3>1. Opening[T] \in Int
        BY <2>2, LedgerAssumption
      <3>2. CASE i = 1
        BY <3>1, <3>2 DEF Before
      <3>3. CASE i # 1
        <4>1. journal[T][i - 1] \in Entries
          BY <3>3, <1>1, <2>2 DEF IInv, TypeOK
        <4> QED
          BY <3>3, <4>1 DEF Before, Entries
      <3> QED
        BY <3>2, <3>3
    <2>9. mail[q] = IF CrossesThreshold(c, b) THEN "low_credits" ELSE "none"
      BY <1>1, <2>5, <2>6 DEF IInv, CallInv, MailFor
    <2>10. CrossesThreshold(c, b) <=> Before(T, i) >= LowCreditsThreshold /\ b < LowCreditsThreshold
      <3>1. PICK p \in Int : p = Before(T, i)
        BY <2>8
      <3>2. b \in Int /\ c \in Int /\ LowCreditsThreshold \in Int /\ b = p + c
        BY <2>4, <2>7, <3>1, LedgerAssumption
      <3>3. CrossesThreshold(c, b) <=> c < 0 /\ b < LowCreditsThreshold /\ b - c >= LowCreditsThreshold
        BY DEF CrossesThreshold
      <3>4. b - c = p
        BY <3>2
      <3> QED
        BY <3>1, <3>2, <3>3, <3>4
    <2> QED
      BY <2>2, <2>4, <2>9, <2>10
  <1> QED
    BY <1>1, Inductive, PTL

-----------------------------------------------------------------------------
(* Seen from its callers, update_credit_balance is one change and one      *)
(* answer: the ledger implements Credits.                                  *)
(*                                                                         *)
(* Only the UPDATE of a row that exists is a change, only a step that ends *)
(* a request is an answer, and every other step leaves both as they are.   *)
(* What has to be known is that a request without a change has none in any *)
(* journal, and that one about to be told Ok has its own.                  *)

\* The two variables of Credits that the ledger has no variables for.
LEMMA ShownOf ==
  ASSUME NEW r \in Requests
  PROVE  /\ ChangeOf[r] = IF Changed(r) THEN [tenant |-> Tenant(r), amount |-> Amount(r)] ELSE [amount |-> 0]
         /\ ChangeOf[r]' = IF Changed(r)' THEN [tenant |-> Tenant(r)', amount |-> Amount(r)'] ELSE [amount |-> 0]
         /\ AnswerOf[r] = IF pc[r] \in {"ok", "error"} THEN pc[r] ELSE "none"
         /\ AnswerOf[r]' = IF pc'[r] \in {"ok", "error"} THEN pc'[r] ELSE "none"
  BY DEF ChangeOf, AnswerOf

\* A call whose journals and row are as before is shown with the same change.
LEMMA SameChange ==
  ASSUME NEW r \in Requests, call'[r] = call[r], journal' = journal
  PROVE  ChangeOf[r]' = ChangeOf[r]
  <1>1. Tenant(r)' = Tenant(r) /\ Amount(r)' = Amount(r)
    BY DEF Tenant, Amount
  <1>2. Changed(r)' = Changed(r)
    BY <1>1 DEF Changed
  <1> QED
    BY <1>1, <1>2, ShownOf

LEMMA SameChanges ==
  ASSUME call' = call, journal' = journal
  PROVE  ChangeOf' = ChangeOf
  BY SameChange DEF ChangeOf

\* Before its UPDATE a request has no entry in any journal.
LEMMA NotYetChanged ==
  ASSUME IInv, NEW r \in Requests, pc[r] \in {"idle", "update"}, NEW t \in TenantIds
  PROVE  \A i \in 1..Len(journal[t]) : journal[t][i].req # r
  BY DEF IInv, AppliedAtMostOnce, OnlyEntryOf

LEMMA UnchangedBefore ==
  ASSUME IInv, NEW r \in Requests, pc[r] \in {"idle", "update"}
  PROVE  ~Changed(r)
  <1>1. SUFFICES ASSUME call[r].kind # "none"
                 PROVE  \A i \in 1..Len(journal[Tenant(r)]) : journal[Tenant(r)][i].req # r
    BY DEF Changed
  <1>2. Tenant(r) \in TenantIds
    BY <1>1 DEF IInv, TypeOK, Tenant, NoCall, Calls
  <1> QED
    BY <1>2, NotYetChanged

-----------------------------------------------------------------------------

\* The UPDATE is the change.
LEMMA UpdateIsTheChange ==
  ASSUME IInv, NEW r \in Requests, ExecUpdate(r)
  PROVE  Atomic!Next
  <1>0. TypeOK /\ pc[r] = "update" /\ call[r] \in Calls
    BY DEF IInv, TypeOK, ExecUpdate
  <1>1. PICK t \in TenantIds, a \in Amounts : t = Tenant(r) /\ a = Amount(r)
    BY <1>0 DEF Calls, Tenant, Amount
  <1>2. /\ call' = call
        /\ pc' = [pc EXCEPT ![r] = "select"]
        /\ balance' = [balance EXCEPT ![t] = @ + a]
    BY <1>1 DEF ExecUpdate
  <1>3. PICK e : e.req = r /\ journal' = [journal EXCEPT ![t] = Append(@, e)]
    <2> DEFINE entry == [req |-> r, amount |-> a, after |-> balance[t] + a]
    <2>1. journal' = [journal EXCEPT ![t] = Append(@, entry)] /\ entry.req = r
      BY <1>1 DEF ExecUpdate
    <2> QED
      BY <2>1
  <1>4. journal[t] \in Seq(Entries) /\ journal'[t] = Append(journal[t], e)
    BY <1>0, <1>3 DEF TypeOK
  <1>5. /\ Len(journal'[t]) = Len(journal[t]) + 1
        /\ \A i \in 1..Len(journal[t]) : journal'[t][i] = journal[t][i]
        /\ journal'[t][Len(journal[t]) + 1] = e
    BY <1>4
  <1>6. ~Changed(r)
    BY <1>0, UnchangedBefore
  <1>7. Changed(r)'
    <2>1. call'[r].kind # "none" /\ Tenant(r)' = t
      BY <1>0, <1>1, <1>2 DEF Calls, Kinds, Tenant
    <2>2. \E i \in 1..Len(journal'[t]) : journal'[t][i].req = r
      BY <1>3, <1>4, <1>5
    <2> QED
      BY <2>1, <2>2 DEF Changed
  <1>8. ASSUME NEW q \in Requests \ {r}
        PROVE  ChangeOf[q]' = ChangeOf[q]
    <2>1. Tenant(q)' = Tenant(q) /\ Amount(q)' = Amount(q) /\ call'[q] = call[q]
      BY <1>2 DEF Tenant, Amount
    <2>2. CASE call[q].kind = "none"
      BY <2>1, <2>2, ShownOf DEF Changed
    <2>3. CASE call[q].kind # "none"
      <3>1. Tenant(q) \in TenantIds
        BY <1>0, <2>3 DEF TypeOK, Tenant, NoCall, Calls
      <3>2. CASE Tenant(q) = t
        <4>1. (\E i \in 1..Len(journal'[t]) : journal'[t][i].req = q)
                <=> \E i \in 1..Len(journal[t]) : journal[t][i].req = q
          <5>1. Len(journal[t]) \in Nat
            BY <1>4
          <5> QED
            BY <1>3, <1>5, <5>1
        <4>2. Changed(q)' = Changed(q)
          BY <2>1, <3>2, <4>1 DEF Changed
        <4> QED
          BY <2>1, <4>2, ShownOf
      <3>3. CASE Tenant(q) # t
        <4>1. journal'[Tenant(q)] = journal[Tenant(q)]
          BY <1>0, <1>3, <3>1, <3>3 DEF TypeOK
        <4>2. Changed(q)' = Changed(q)
          BY <2>1, <4>1 DEF Changed
        <4> QED
          BY <2>1, <4>2, ShownOf
      <3> QED
        BY <3>2, <3>3
    <2> QED
      BY <2>2, <2>3
  <1>9. ChangeOf[r] = [amount |-> 0] /\ ChangeOf[r]' = [tenant |-> t, amount |-> a]
    BY <1>1, <1>2, <1>6, <1>7, ShownOf DEF Tenant, Amount
  <1>10. ChangeOf' = [ChangeOf EXCEPT ![r] = [tenant |-> t, amount |-> a]]
    BY <1>8, <1>9 DEF ChangeOf
  <1>11. AnswerOf' = AnswerOf /\ AnswerOf[r] = "none"
    BY <1>0, <1>2 DEF AnswerOf, TypeOK
  <1>12. ChangeOf' # ChangeOf
    <2>1. DOMAIN [tenant |-> t, amount |-> a] # DOMAIN [amount |-> 0]
      OBVIOUS
    <2> QED
      BY <1>9, <2>1
  <1>13. Atomic!Apply(r, t, a)
    BY <1>2, <1>9, <1>10, <1>11 DEF Atomic!Apply, Atomic!NoChange
  <1> QED
    BY <1>12, <1>13 DEF Atomic!Next

\* A request that ends is answered, and answered Ok only after its change.
LEMMA EndIsTheAnswer ==
  ASSUME IInv, NEW r \in Requests, NEW result \in {"ok", "error"},
         pc[r] \notin {"ok", "error"}, pc' = [pc EXCEPT ![r] = result],
         result = "ok" => Changed(r),
         call' = call, journal' = journal, balance' = balance
  PROVE  Atomic!Next
  <1>0. TypeOK
    BY DEF IInv
  <1>1. ChangeOf' = ChangeOf
    BY SameChanges
  <1>2. AnswerOf[r] = "none" /\ AnswerOf' = [AnswerOf EXCEPT ![r] = result]
    BY <1>0 DEF AnswerOf, TypeOK
  <1>3. AnswerOf' # AnswerOf
    BY <1>2, <1>0 DEF AnswerOf
  <1>4. result = "ok" => ChangeOf[r] # [amount |-> 0]
    <2>1. CASE result = "ok"
      <3>1. ChangeOf[r] = [tenant |-> Tenant(r), amount |-> Amount(r)]
        BY <2>1, ShownOf
      <3>2. DOMAIN [tenant |-> Tenant(r), amount |-> Amount(r)] # DOMAIN [amount |-> 0]
        OBVIOUS
      <3> QED
        BY <3>1, <3>2
    <2> QED
      BY <2>1
  <1>5. Atomic!Answer(r, result)
    BY <1>1, <1>2, <1>4 DEF Atomic!Answer, Atomic!NoChange
  <1> QED
    BY <1>3, <1>5 DEF Atomic!Next

\* What moves no balance, journal or call and ends no request shows nothing.
LEMMA SilentStep ==
  ASSUME call' = call, journal' = journal, balance' = balance,
         \A r \in Requests : pc'[r] = pc[r] \/ {pc[r], pc'[r]} \cap {"ok", "error"} = {}
  PROVE  UNCHANGED Atomic!vars
  <1>1. ChangeOf' = ChangeOf
    BY SameChanges
  <1>2. AnswerOf' = AnswerOf
    BY DEF AnswerOf
  <1> QED
    BY <1>1, <1>2 DEF Atomic!vars

\* A call that begins had made no change and has made none.
LEMMA CallIsSilent ==
  ASSUME IInv, NEW r \in Requests, NEW t \in TenantIds, NEW a \in Amounts,
         CallUpdate(r, t, a) \/ CallAdmin(r, t, a)
  PROVE  UNCHANGED Atomic!vars
  <1>0. TypeOK /\ pc[r] = "idle"
    BY DEF IInv, CallUpdate, CallAdmin
  <1>1. PICK c \in Calls : call' = [call EXCEPT ![r] = c] /\ c.tenant = t
    <2>1. CASE CallUpdate(r, t, a)
      <3>1. [kind |-> "update", tenant |-> t, amount |-> a] \in Calls
        BY DEF Calls, Kinds
      <3> QED
        BY <2>1, <3>1 DEF CallUpdate
    <2>2. CASE CallAdmin(r, t, a)
      <3>1. [kind |-> "admin", tenant |-> t, amount |-> a] \in Calls
        BY DEF Calls, Kinds
      <3> QED
        BY <2>2, <3>1 DEF CallAdmin
    <2> QED
      BY <2>1, <2>2
  <1>2. pc' = [pc EXCEPT ![r] = "update"] /\ UNCHANGED <<balance, journal>>
    BY DEF CallUpdate, CallAdmin, dbVars, histVars
  <1>3. ~Changed(r)
    BY <1>0, UnchangedBefore
  <1>4. ~Changed(r)'
    <2>1. Tenant(r)' = t
      BY <1>0, <1>1 DEF TypeOK, Tenant
    <2> QED
      BY <1>0, <1>2, <2>1, NotYetChanged DEF Changed
  <1>5. ChangeOf[r]' = ChangeOf[r]
    BY <1>3, <1>4, ShownOf
  <1>6. ASSUME NEW q \in Requests \ {r}
        PROVE  ChangeOf[q]' = ChangeOf[q]
    <2>1. call'[q] = call[q]
      BY <1>0, <1>1 DEF TypeOK
    <2> QED
      BY <1>2, <2>1, SameChange
  <1>7. ChangeOf' = ChangeOf
    BY <1>5, <1>6 DEF ChangeOf
  <1>8. AnswerOf' = AnswerOf
    BY <1>0, <1>2 DEF AnswerOf, TypeOK
  <1> QED
    BY <1>2, <1>7, <1>8 DEF Atomic!vars

\* A handler about to say Ok has its change, CallInv knows.
LEMMA ChangedBeforeOk ==
  ASSUME IInv, NEW r \in Requests, pc[r] = "insert"
  PROVE  Changed(r)
  <1>1. call[r] \in Calls /\ ReadOwn(r)
    BY DEF IInv, TypeOK, CallInv
  <1>2. call[r].kind # "none"
    BY <1>1 DEF Calls, Kinds
  <1>3. PICK i \in 1..seenAt[r] : AppliedAt(r, Tenant(r), i)
    BY <1>1 DEF ReadOwn
  <1> QED
    BY <1>2, <1>3 DEF AppliedAt, Changed

\* Every step of the ledger is one of Credits, or none.
LEMMA StepOfCredits ==
  ASSUME IInv, [Next]_vars
  PROVE  [Atomic!Next]_(Atomic!vars)
  <1>0. TypeOK /\ FreshInv
    BY DEF IInv
  <1>1. CASE \E r \in Requests, t \in TenantIds, a \in Amounts : CallUpdate(r, t, a) \/ CallAdmin(r, t, a)
    BY <1>1, CallIsSilent
  <1>2. CASE \E r \in Requests : Handle(r)
    <2>1. PICK r \in Requests : Handle(r)
      BY <1>2
    <2>2. CASE ExecUpdate(r)
      BY <2>2, UpdateIsTheChange
    <2>3. CASE Reject(r) \/ UpdateFails(r) \/ SelectFails(r)
      BY <2>3, EndIsTheAnswer DEF Reject, UpdateFails, SelectFails, dbVars, histVars
    <2>4. CASE InsertRow(r) \/ InsertFails(r)
      BY <2>4, ChangedBeforeOk, EndIsTheAnswer DEF InsertRow, InsertFails, Answer, dbVars, histVars
    <2>5. CASE ExecUpdateNoRow(r) \/ SelectBalance(r)
      <3>1. UNCHANGED <<call, journal, balance>>
        BY <2>5 DEF ExecUpdateNoRow, SelectBalance, dbVars, histVars
      <3>2. PICK step \in {"select", "insert"} : pc' = [pc EXCEPT ![r] = step] /\ pc[r] \in {"update", "select"}
        BY <2>5 DEF ExecUpdateNoRow, SelectBalance
      <3>3. \A q \in Requests : pc'[q] = pc[q] \/ {pc[q], pc'[q]} \cap {"ok", "error"} = {}
        BY <1>0, <3>2 DEF TypeOK
      <3> QED
        BY <3>1, <3>3, SilentStep
    <2> QED
      BY <2>1, <2>2, <2>3, <2>4, <2>5 DEF Handle
  <1>3. CASE \E t \in TenantIds : CreateTenant(t) \/ DeleteTenant(t)
    <2>1. PICK t \in TenantIds : CreateTenant(t) \/ DeleteTenant(t)
      BY <1>3
    <2>2. UNCHANGED <<call, journal, pc>>
      BY <2>1 DEF CreateTenant, DeleteTenant, reqVars, histVars
    <2>3. balance' = balance
      <3>1. CASE CreateTenant(t)
        BY <1>0, <3>1 DEF CreateTenant, TypeOK, FreshInv
      <3>2. CASE DeleteTenant(t)
        BY <3>2 DEF DeleteTenant
      <3> QED
        BY <2>1, <3>1, <3>2
    <2> QED
      BY <2>2, <2>3, SilentStep
  <1>4. CASE Crash
    <2>1. \A q \in Requests : pc'[q] = pc[q] \/ {pc[q], pc'[q]} \cap {"ok", "error"} = {}
      BY <1>4 DEF Crash, InFlight
    <2> QED
      BY <1>4, <2>1, SilentStep DEF Crash, dbVars, histVars
  <1>5. CASE UNCHANGED vars
    BY <1>5, SilentStep DEF vars
  <1> QED
    BY <1>1, <1>2, <1>3, <1>4, <1>5 DEF Next, Finished

\* update_credit_balance is three statements with other requests between
\* them, deletions and crashes included; to its callers it is one change and
\* one answer.
THEOREM LedgerIsAtomic == Spec => AtomicCredits
  <1>1. Init => Atomic!Init
    <2>1. SUFFICES ASSUME Init PROVE Atomic!Init
      OBVIOUS
    <2>2. ChangeOf = [r \in Requests |-> [amount |-> 0]]
      BY <2>1 DEF Init, ChangeOf, Changed, NoCall
    <2>3. AnswerOf = [r \in Requests |-> "none"]
      BY <2>1 DEF Init, AnswerOf
    <2> QED
      BY <2>1, <2>2, <2>3 DEF Init, Atomic!Init, Atomic!NoChange
  <1>2. IInv /\ [Next]_vars => [Atomic!Next]_(Atomic!vars)
    BY StepOfCredits
  <1> QED
    BY <1>1, <1>2, Inductive, PTL DEF Spec, AtomicCredits, Atomic!Spec
=============================================================================
