----------------------------- MODULE Engagement -----------------------------
(***************************************************************************)
(* The mails that are sent because of what a user does or does not do: the *)
(* nudge, the win-back and the monthly digest of the scheduler, which      *)
(* starts five minutes after the process and then passes over the users    *)
(* once a day, and the milestone mail of the first logged call, which each *)
(* logged call checks in a task of its own.                                *)
(*                                                                         *)
(* A mail is handed to a task that tries to deliver it once; that task     *)
(* tells nobody how it went, so a mail counts as sent here when it is      *)
(* handed over.  What keeps a mail from being sent again is a column of    *)
(* the user's tenant, written by a statement of its own, and forgotten     *)
(* with that tenant: a removal, which every import begins with, deletes    *)
(* it, and the next call of the user creates another.                      *)
(*                                                                         *)
(* Time is counted in days; a user is the row of user_preferences together *)
(* with its default tenant.                                                *)
(***************************************************************************)
EXTENDS Integers, FiniteSets

CONSTANTS
  Users,        \* the users
  Callers,      \* those who call an API
  Leavers,      \* those who may lose their tenant
  NudgeAge,     \* days without a first call until the nudge (7)
  AbsentAge,    \* days until the win-back (30)
  DigestWindow, \* days of the usage log the digest covers (32)
  MonthDays,    \* days of a month
  MaxTasks,     \* bound: logged calls of a user under way at once
  MaxMishaps    \* bound: statements that fail, stops of the process, and
                \* times that tenants are lost

ASSUME EngagementAssumption ==
  /\ Callers \subseteq Users /\ Leavers \subseteq Users
  /\ NudgeAge \in Nat /\ AbsentAge \in Nat /\ DigestWindow \in Nat
  /\ MonthDays \in Nat /\ MonthDays > 1 /\ DigestWindow > MonthDays
  /\ MaxTasks \in Nat /\ MaxMishaps \in Nat

Never == -1
Nobody == "nobody"
ASSUME NobodyIsNoUser == Nobody \notin Users

Marks == {"nudge", "winback"}
OnceMails == Marks \cup {"milestone"}

VARIABLES
  day,      \* of the month
  here,     \* the users that have a default tenant
  age,      \* days since created_at of the tenant
  first,    \* days since first_call_at, or Never
  quiet,    \* days since the user's last row in the usage log, or Never
  marked,   \* the users whose nudge_sent_at, or winback_sent_at, is set
  at,       \* where the scheduler is
  todo,     \* the rows it has selected and not reached
  row,      \* the user it has mailed and not marked yet
  crossed,  \* the pass began the day before
  checking, \* the logged calls of a user that are about to read first_call_at,
  setting,  \* ... have found it NULL
  digests,  \* digests handed over to a user since the month began
  excess,   \* times another mail was handed over, less those that are explained:
            \* the column was not, or not yet, set, or the tenant with it was lost
  disturbed,\* something came in the way of this month's digest
  owed,     \* who was in the usage log when the month began, and still is
  mishaps

clockVars == <<day, here, age, first, quiet, owed>>
schedVars == <<marked, at, todo, row, crossed, disturbed>>
taskVars == <<checking, setting>>
vars == <<day, here, age, first, quiet, marked, at, todo, row, crossed, checking, setting,
          digests, excess, disturbed, owed, mishaps>>

Passing == {"nudge", "winback", "digest"}
Zero == [u \in Users |-> 0]

Init ==
  /\ day = 2
  /\ here = Users
  /\ age = Zero
  /\ first = [u \in Users |-> Never]
  /\ quiet = [u \in Users |-> Never]
  /\ marked = [m \in Marks |-> {}]
  /\ at = "starting"
  /\ todo = {}
  /\ row = Nobody
  /\ crossed = FALSE
  /\ checking = Zero /\ setting = Zero
  /\ digests = Zero
  /\ excess = [m \in OnceMails |-> Zero]
  /\ disturbed = FALSE
  /\ owed = {}
  /\ mishaps = 0

\* A statement, or the pool, fails.
Fault == mishaps < MaxMishaps /\ mishaps' = mishaps + 1

Sent(mail, u) == excess' = [excess EXCEPT ![mail][u] = @ + 1]
Explained(mail, u) == excess' = [excess EXCEPT ![mail][u] = @ - 1]

-----------------------------------------------------------------------------
(* The clock.                                                              *)

\* A day later; beyond `most' days it is all the same.
Later(d, most) == IF d = Never \/ d >= most THEN d ELSE d + 1

InLog(q) == q # Never /\ q < DigestWindow

\* Midnight.  A process that runs has made, or begun, this day's pass; one
\* that has just started may still be in its first five minutes.
NewDay ==
  /\ at # "due" /\ ~crossed
  /\ day' = (day % MonthDays) + 1
  /\ age' = [u \in Users |-> Later(age[u], AbsentAge)]
  /\ first' = [u \in Users |-> Later(first[u], AbsentAge)]
  /\ quiet' = [u \in Users |-> Later(quiet[u], DigestWindow)]
  /\ at' = IF at \in Passing THEN at ELSE "due"
  /\ crossed' = (at \in Passing)
  /\ IF day' = 1
     THEN /\ digests' = Zero
          /\ owed' = {u \in Users : InLog(quiet'[u])}
          /\ disturbed' = (at \in Passing)
     ELSE /\ disturbed' = (disturbed \/ (day' = 2 /\ at \in Passing))
          /\ UNCHANGED <<digests, owed>>
  /\ UNCHANGED <<here, marked, todo, row, taskVars, excess, mishaps>>

-----------------------------------------------------------------------------
(* The scheduler: run_engagement_schedulers.                               *)

Due == at \in {"starting", "due"}

\* Mutant: the marks are not looked at.
NudgeDueAgain == {u \in here : age[u] >= NudgeAge /\ first[u] = Never}

\* Mutant: a pass missed is a nudge missed.
NudgeDueOnTheDay == {u \in here : age[u] = NudgeAge /\ first[u] = Never /\ u \notin marked["nudge"]}

NudgeDue == {u \in here : age[u] >= NudgeAge /\ first[u] = Never /\ u \notin marked["nudge"]}

\* COALESCE(first_call_at, created_at): not the last call, the first.
WinBackDue ==
  {u \in here :
    /\ (IF first[u] # Never THEN first[u] ELSE age[u]) >= AbsentAge
    /\ u \notin marked["winback"]}

\* Mutant: the window is shorter than the month.
DigestDueShort == {u \in Users : quiet[u] # Never /\ quiet[u] + 1 < MonthDays}

DigestDue == {u \in Users : InLog(quiet[u])}

LoopDone == todo = {} /\ row = Nobody

EndOfPass == IF crossed THEN "due" ELSE "idle"

\* A connection is had, and the users to nudge are selected.
BeginPass ==
  /\ Due
  /\ at' = "nudge"
  /\ todo' = NudgeDue
  /\ UNCHANGED <<clockVars, marked, row, crossed, disturbed, taskVars, digests, excess, mishaps>>

\* No connection, no pass.
PassFails ==
  /\ Due /\ Fault
  /\ at' = "idle"
  /\ disturbed' = (disturbed \/ day = 1)
  /\ UNCHANGED <<clockVars, marked, todo, row, crossed, taskVars, digests, excess>>

\* A SELECT that fails selects nobody (unwrap_or_default).
SelectFails ==
  /\ Fault
  /\ \/ Due /\ at' = "nudge" /\ UNCHANGED disturbed
     \/ LoopDone /\ at = "nudge" /\ at' = "winback" /\ UNCHANGED disturbed
     \/ LoopDone /\ at = "winback" /\ day = 1 /\ at' = "digest" /\ disturbed' = TRUE
  /\ UNCHANGED <<clockVars, marked, todo, row, crossed, taskVars, digests, excess>>

HandOver(u) ==
  /\ at \in Marks /\ row = Nobody /\ u \in todo
  /\ todo' = todo \ {u}
  /\ row' = u
  /\ Sent(at, u)
  /\ UNCHANGED <<clockVars, marked, at, crossed, disturbed, taskVars, digests, mishaps>>

\* The column is set, of the tenant that is the user's default by now, if
\* there is one; an error is ignored.
Mark ==
  /\ row # Nobody
  /\ marked' = [marked EXCEPT ![at] = @ \cup ({row} \cap here)]
  /\ row' = Nobody
  /\ UNCHANGED <<clockVars, at, todo, crossed, disturbed, taskVars, digests, excess, mishaps>>

MarkFails ==
  /\ row # Nobody /\ Fault
  /\ Explained(at, row)
  /\ row' = Nobody
  /\ UNCHANGED <<clockVars, marked, at, todo, crossed, disturbed, taskVars, digests>>

SelectWinBack ==
  /\ at = "nudge" /\ LoopDone
  /\ at' = "winback"
  /\ todo' = WinBackDue
  /\ UNCHANGED <<clockVars, marked, row, crossed, disturbed, taskVars, digests, excess, mishaps>>

\* Mutant: the date is looked at while the last UPDATE is under way.
SelectDigestEarly ==
  /\ at = "winback" /\ todo = {}
  /\ IF day = 1
     THEN at' = "digest" /\ todo' = DigestDue /\ UNCHANGED crossed
     ELSE at' = EndOfPass /\ crossed' = FALSE /\ UNCHANGED todo
  /\ UNCHANGED <<clockVars, marked, row, disturbed, taskVars, digests, excess, mishaps>>

\* Only now the date is looked at.
SelectDigest ==
  /\ at = "winback" /\ LoopDone
  /\ IF day = 1
     THEN at' = "digest" /\ todo' = DigestDue /\ UNCHANGED crossed
     ELSE at' = EndOfPass /\ crossed' = FALSE /\ UNCHANGED todo
  /\ UNCHANGED <<clockVars, marked, row, disturbed, taskVars, digests, excess, mishaps>>

\* A failure of the two SELECTs for the numbers makes them zero.
SendDigest(u) ==
  /\ at = "digest" /\ u \in todo
  /\ todo' = todo \ {u}
  /\ digests' = [digests EXCEPT ![u] = @ + 1]
  /\ UNCHANGED <<clockVars, marked, at, row, crossed, disturbed, taskVars, excess, mishaps>>

EndPass ==
  /\ at = "digest" /\ todo = {}
  /\ at' = EndOfPass
  /\ crossed' = FALSE
  /\ UNCHANGED <<clockVars, marked, todo, row, disturbed, taskVars, digests, excess, mishaps>>

-----------------------------------------------------------------------------
(* A logged call, and the task it spawns.                                  *)

LogCall(u) ==
  /\ checking[u] + setting[u] < MaxTasks
  /\ quiet' = [quiet EXCEPT ![u] = 0]
  /\ checking' = [checking EXCEPT ![u] = @ + 1]
  /\ UNCHANGED <<day, here, age, first, owed, schedVars, setting, digests, excess, mishaps>>

\* No tenant, no row, and that is an error.
LooksFirst(u) == u \in here /\ first[u] = Never

CheckFirst(u) ==
  /\ checking[u] > 0
  /\ checking' = [checking EXCEPT ![u] = @ - 1]
  /\ setting' = IF LooksFirst(u) THEN [setting EXCEPT ![u] = @ + 1] ELSE setting
  /\ IF LooksFirst(u) /\ setting[u] > 0 THEN Explained("milestone", u) ELSE UNCHANGED excess
  /\ UNCHANGED <<clockVars, schedVars, digests, mishaps>>

\* An error counts as "already".
CheckFails(u) ==
  /\ checking[u] > 0 /\ Fault
  /\ checking' = [checking EXCEPT ![u] = @ - 1]
  /\ UNCHANGED <<clockVars, schedVars, setting, digests, excess>>

\* The UPDATE reaches the tenant that is the default by now, if there is one.
\* No await is between its end and the mail.
SetFirst(u) ==
  /\ setting[u] > 0
  /\ first' = IF u \in here THEN [first EXCEPT ![u] = 0] ELSE first
  /\ setting' = [setting EXCEPT ![u] = @ - 1]
  /\ Sent("milestone", u)
  /\ UNCHANGED <<day, here, age, quiet, owed, schedVars, checking, digests, mishaps>>

\* The error is ignored, and the mail sent: it is explained by that.
SetFirstFails(u) ==
  /\ setting[u] > 0 /\ Fault
  /\ setting' = [setting EXCEPT ![u] = @ - 1]
  /\ UNCHANGED <<clockVars, schedVars, checking, digests, excess>>

-----------------------------------------------------------------------------
(* Accounts.                                                               *)

\* The columns of the default tenants of the users `gone' are forgotten.
Forget(gone) ==
  /\ gone # {} => Fault
  /\ gone = {} => UNCHANGED mishaps
  /\ age' = [u \in Users |-> IF u \in gone THEN 0 ELSE age[u]]
  /\ first' = [u \in Users |-> IF u \in gone THEN Never ELSE first[u]]
  /\ marked' = [m \in Marks |-> marked[m] \ gone]
  /\ excess' = [m \in OnceMails |-> [u \in Users |-> IF u \in gone THEN excess[m][u] - 1 ELSE excess[m][u]]]
  /\ UNCHANGED <<day, at, todo, row, crossed, disturbed, taskVars, digests>>

\* The tenants named like the user's e-mail are deleted with their rows in the
\* usage log, those of consumers of the user's API included, then the
\* preferences: u has no default any more, nor has who had renamed a tenant so.
ForceClean(u) ==
  \E gone \in SUBSET (here \cap Leavers), emptied \in SUBSET Users :
    /\ {u} \cap here \subseteq gone /\ u \in emptied
    /\ Forget(gone)
    /\ here' = here \ gone
    /\ quiet' = [v \in Users |-> IF v \in emptied THEN Never ELSE quiet[v]]
    /\ owed' = owed \ emptied

\* A new tenant is made the default: of a user without one, or by a call that
\* had found none, over the one another call has made the default meanwhile.
SetDefault(u) ==
  /\ Forget({u} \cap here)
  /\ here' = here \cup {u}
  /\ UNCHANGED <<quiet, owed>>

-----------------------------------------------------------------------------

\* The process stops, with the tasks and the pass, and is started again.  Of
\* the UPDATEs under way some are committed all the same.
Restart ==
  /\ Fault
  /\ at' = "starting"
  /\ todo' = {}
  /\ row' = Nobody
  /\ crossed' = FALSE
  /\ checking' = Zero /\ setting' = Zero
  /\ \E done \in SUBSET {u \in here : setting[u] > 0} :
       first' = [u \in Users |-> IF u \in done THEN 0 ELSE first[u]]
  /\ IF row = Nobody THEN UNCHANGED excess ELSE Explained(at, row)
  /\ disturbed' = (disturbed \/ day = 1)
  /\ UNCHANGED <<day, here, age, quiet, owed, marked, digests>>

Scheduler ==
  \/ BeginPass \/ SelectWinBack \/ SelectDigest \/ EndPass \/ Mark
  \/ \E u \in Users : HandOver(u) \/ SendDigest(u)

Task(u) ==
  \/ LogCall(u) \/ CheckFirst(u) \/ CheckFails(u) \/ SetFirst(u) \/ SetFirstFails(u)

Next ==
  \/ NewDay
  \/ Scheduler
  \/ PassFails \/ SelectFails \/ MarkFails
  \/ \E u \in Callers : Task(u)
  \/ \E u \in Leavers : ForceClean(u) \/ SetDefault(u)
  \/ Restart

Spec == Init /\ [][Next]_vars

\* Time passes, and the runtime gives the scheduler its turns.
FairSpec == Spec /\ WF_vars(NewDay) /\ WF_vars(Scheduler)

-----------------------------------------------------------------------------
(* What the mails promise.                                                 *)

TypeOK ==
  /\ day \in 1..MonthDays
  /\ here \in SUBSET Users
  /\ age \in [Users -> Nat]
  /\ first \in [Users -> Nat \cup {Never}]
  /\ quiet \in [Users -> Nat \cup {Never}]
  /\ marked \in [Marks -> SUBSET Users]
  /\ at \in {"starting", "due", "idle"} \cup Passing
  /\ todo \in SUBSET Users
  /\ row \in Users \cup {Nobody}
  /\ row # Nobody => at \in Marks
  /\ crossed \in BOOLEAN /\ (crossed => at \in Passing)
  /\ checking \in [Users -> Nat] /\ setting \in [Users -> Nat]
  /\ digests \in [Users -> Nat]
  /\ excess \in [OnceMails -> [Users -> Int]]
  /\ disturbed \in BOOLEAN
  /\ owed \in SUBSET Users
  /\ mishaps \in 0..MaxMishaps

\* schema.sql: nudge_sent_at and winback_sent_at "prevent resending", and the
\* milestone fires "once per user (idempotent via first_call_at column)".  Each
\* is sent again only for a time its column was not set - the UPDATE failed,
\* the process stopped before it, or a second first call came before it - or
\* for a tenant that was lost with the column: however these come together, a
\* removal and a new tenant in the middle of a pass included.
MailsRepeatOnlyUnmarked ==
  \A m \in OnceMails, u \in Users : excess[m][u] <= 1

\* Nothing marks a digest as sent; the pass of the first of the month is all
\* there is.  Still, in a month whose digest nothing came in the way of - no
\* restart, no failure, no pass at midnight before or after the first - everyone
\* in the usage log when it began, and not removed from it, has exactly one, and
\* nobody has two.
DigestOnceAMonth ==
  ~disturbed =>
    /\ \A u \in Users : digests[u] <= 1
    /\ day > 1 => \A u \in owed : digests[u] = 1

\* An account that never calls is nudged and marked some day, whatever fails, if
\* only it does not fail for ever, and unless it is removed first.
SilentAreNudged ==
  \A u \in Users :
    (u \in here /\ age[u] >= NudgeAge /\ first[u] = Never)
      ~> (u \in marked["nudge"] \/ u \notin here \/ age[u] < NudgeAge \/ first[u] # Never)

-----------------------------------------------------------------------------
(* What a comment says and the code does not do.                           *)

\* main.rs: "Win-back: last call > 30 days ago (or no call ...)".
WinBackSelectsTheAbsent ==
  [][SelectWinBack => \A u \in todo' : first[u] # Never /\ quiet[u] # Never => quiet[u] >= AbsentAge]_vars
=============================================================================
