-------------------------- MODULE EngagementProofs --------------------------
(***************************************************************************)
(* The safety theorems of Engagement, for any users, ages, lengths of the  *)
(* month and of the digest's window, and any number of mishaps.            *)
(*                                                                         *)
(* The mails are counted: each one is one whose column is set, or is about *)
(* to be, or is explained; a user who has lost the tenant has one more     *)
(* explanation for the mail that may be on its way.  The digest, which     *)
(* has no column, is followed through the one day it is sent on.           *)
(***************************************************************************)
EXTENDS Engagement, TLAPS

\* Between two passes nothing is selected and nobody is being mailed.
RestInv ==
  /\ at \notin Passing => todo = {} /\ row = Nobody
  /\ row # Nobody => row \notin todo

One(b) == IF b THEN 1 ELSE 0

\* A user selected or mailed is not marked.  Who has lost the tenant cannot be
\* marked, so a mail on its way then has its explanation already.
MarkInv(k, u) ==
  /\ at = k /\ (u \in todo \/ row = u) => u \notin marked[k]
  /\ u \in here => excess[k][u] <= One(u \in marked[k]) + One(at = k /\ row = u)
  /\ u \notin here => u \notin marked[k] /\ excess[k][u] + One(at = k /\ u \in todo) <= 0

\* The tasks that have found first_call_at NULL will each send a mail.
MilestoneInv(u) ==
  /\ u \in here => excess["milestone"][u] + setting[u] <= One(first[u] # Never \/ setting[u] > 0)
  /\ u \notin here => excess["milestone"][u] + setting[u] <= 0

\* In a month nothing came in the way of, where the digest is.
DigestInv ==
  ~disturbed =>
    /\ \A u \in Users : digests[u] <= 1
    /\ day # 1 => at # "digest" /\ \A u \in owed : digests[u] = 1
    /\ day = 1 =>
         /\ ~crossed /\ at # "starting"
         /\ \A u \in owed : InLog(quiet[u])
         /\ at \in {"due", "nudge", "winback"} => \A u \in Users : digests[u] = 0
         /\ at = "digest" =>
              /\ \A u \in todo : digests[u] = 0
              /\ \A u \in owed \ todo : digests[u] = 1
         /\ at = "idle" => \A u \in owed : digests[u] = 1

EngInv ==
  /\ TypeOK
  /\ RestInv
  /\ \A k \in Marks, u \in Users : MarkInv(k, u)
  /\ \A u \in Users : MilestoneInv(u)
  /\ DigestInv

-----------------------------------------------------------------------------
(* The clock, and counting.                                                *)

LEMMA ClockFacts ==
  ASSUME NEW d \in 1..MonthDays
  PROVE  (d % MonthDays) + 1 \in 1..MonthDays /\ (d = 1 => (d % MonthDays) + 1 = 2)
  <1>1. MonthDays \in Nat /\ MonthDays > 1
    BY EngagementAssumption
  <1>2. d % MonthDays \in 0..(MonthDays - 1)
    BY <1>1
  <1>3. 1 % MonthDays = 1
    BY <1>1
  <1> QED
    BY <1>1, <1>2, <1>3

LEMMA LaterFacts ==
  ASSUME NEW d \in Nat \cup {Never}, NEW most \in Nat
  PROVE  Later(d, most) \in Nat \cup {Never} /\ (Later(d, most) = Never <=> d = Never)
                                             /\ (d \in Nat => Later(d, most) \in Nat)
  BY DEF Later, Never

LEMMA CountFacts ==
  ASSUME NEW f \in [OnceMails -> [Users -> Int]], NEW k \in OnceMails, NEW u \in Users, NEW n \in Int,
         NEW g, g = [f EXCEPT ![k][u] = n]
  PROVE  /\ g \in [OnceMails -> [Users -> Int]]
         /\ g[k][u] = n
         /\ \A j \in OnceMails, v \in Users : j # k \/ v # u => g[j][v] = f[j][v]
  <1>1. PICK h \in [Users -> Int] : h = f[k]
    OBVIOUS
  <1>2. PICK i \in [Users -> Int] : i = [h EXCEPT ![u] = n] /\ i[u] = n /\ \A v \in Users \ {u} : i[v] = h[v]
    <2>1. [h EXCEPT ![u] = n] \in [Users -> Int]
      BY <1>1
    <2> QED
      BY <2>1
  <1>3. g = [f EXCEPT ![k] = i]
    BY <1>1, <1>2
  <1> QED
    BY <1>1, <1>2, <1>3

\* What a mail handed over, and one explained, do to the counts.
LEMMA SentMore ==
  ASSUME TypeOK, NEW k \in OnceMails, NEW u \in Users, Sent(k, u)
  PROVE  /\ excess' \in [OnceMails -> [Users -> Int]]
         /\ excess'[k][u] = excess[k][u] + 1
         /\ \A j \in OnceMails, v \in Users : j # k \/ v # u => excess'[j][v] = excess[j][v]
  <1> DEFINE n == excess[k][u] + 1
  <1>1. excess \in [OnceMails -> [Users -> Int]] /\ n \in Int
    BY DEF TypeOK
  <1>2. excess' = [excess EXCEPT ![k][u] = n]
    BY DEF TypeOK, Sent
  <1>3. n = excess[k][u] + 1
    OBVIOUS
  <1> HIDE DEF n
  <1>4. /\ excess' \in [OnceMails -> [Users -> Int]]
        /\ excess'[k][u] = n
        /\ \A j \in OnceMails, v \in Users : j # k \/ v # u => excess'[j][v] = excess[j][v]
    BY <1>1, <1>2, CountFacts
  <1> QED
    BY <1>3, <1>4

LEMMA ExplainedMore ==
  ASSUME TypeOK, NEW k \in OnceMails, NEW u \in Users, Explained(k, u)
  PROVE  /\ excess' \in [OnceMails -> [Users -> Int]]
         /\ excess'[k][u] = excess[k][u] - 1
         /\ \A j \in OnceMails, v \in Users : j # k \/ v # u => excess'[j][v] = excess[j][v]
  <1> DEFINE n == excess[k][u] - 1
  <1>1. excess \in [OnceMails -> [Users -> Int]] /\ n \in Int
    BY DEF TypeOK
  <1>2. excess' = [excess EXCEPT ![k][u] = n]
    BY DEF TypeOK, Explained
  <1>3. n = excess[k][u] - 1
    OBVIOUS
  <1> HIDE DEF n
  <1>4. /\ excess' \in [OnceMails -> [Users -> Int]]
        /\ excess'[k][u] = n
        /\ \A j \in OnceMails, v \in Users : j # k \/ v # u => excess'[j][v] = excess[j][v]
    BY <1>1, <1>2, CountFacts
  <1> QED
    BY <1>3, <1>4

LEMMA Counts ==
  ASSUME TypeOK
  PROVE  /\ \A k \in OnceMails, u \in Users : excess[k][u] \in Int
         /\ \A u \in Users : setting[u] \in Nat /\ checking[u] \in Nat /\ digests[u] \in Nat
         /\ Marks \subseteq OnceMails /\ "milestone" \in OnceMails
         /\ "milestone" \notin Marks
  BY DEF TypeOK, OnceMails, Marks

\* What losing their tenants does to the columns and counts of the users `gone'.
LEMMA ForgetFacts ==
  ASSUME TypeOK, RestInv, NEW gone \in SUBSET Users, Forget(gone)
  PROVE  /\ age' \in [Users -> Nat] /\ first' \in [Users -> Nat \cup {Never}]
         /\ marked' \in [Marks -> SUBSET Users]
         /\ excess' \in [OnceMails -> [Users -> Int]]
         /\ mishaps' \in 0..MaxMishaps
         /\ \A k \in Marks : marked'[k] = marked[k] \ gone
         /\ \A u \in Users : first'[u] = IF u \in gone THEN Never ELSE first[u]
         /\ \A k \in OnceMails, u \in Users :
              excess'[k][u] = IF u \in gone THEN excess[k][u] - 1 ELSE excess[k][u]
         /\ UNCHANGED <<day, at, todo, row, crossed, disturbed, checking, setting, digests>>
  <1>1. /\ age' \in [Users -> Nat] /\ first' \in [Users -> Nat \cup {Never}]
        /\ \A u \in Users : first'[u] = IF u \in gone THEN Never ELSE first[u]
    BY DEF Forget, TypeOK
  <1>2. marked' \in [Marks -> SUBSET Users] /\ \A k \in Marks : marked'[k] = marked[k] \ gone
    BY DEF Forget, TypeOK
  <1>3. /\ excess' \in [OnceMails -> [Users -> Int]]
        /\ \A k \in OnceMails, u \in Users :
             excess'[k][u] = IF u \in gone THEN excess[k][u] - 1 ELSE excess[k][u]
    BY DEF Forget, TypeOK
  <1>4. mishaps' \in 0..MaxMishaps
    BY EngagementAssumption DEF Forget, Fault, TypeOK
  <1>5. UNCHANGED <<day, at, todo, row, crossed, disturbed, checking, setting, digests>>
    BY DEF Forget, taskVars
  <1> QED
    BY <1>1, <1>2, <1>3, <1>4, <1>5

-----------------------------------------------------------------------------
(* Types, and what rests between two passes.                               *)

\* What is selected can only be users.
LEMMA DueAreUsers ==
  ASSUME TypeOK
  PROVE  NudgeDue \subseteq Users /\ WinBackDue \subseteq Users /\ DigestDue \subseteq Users
  BY DEF TypeOK, NudgeDue, WinBackDue, DigestDue

LEMMA NewDayKeepsTypes ==
  ASSUME TypeOK, RestInv, NewDay
  PROVE  TypeOK' /\ RestInv'
  <1>1. day' \in 1..MonthDays
    BY ClockFacts DEF NewDay, TypeOK
  <1>2. /\ age' \in [Users -> Nat]
        /\ first' \in [Users -> Nat \cup {Never}] /\ quiet' \in [Users -> Nat \cup {Never}]
    BY LaterFacts, EngagementAssumption DEF NewDay, TypeOK
  <1>3. at' \in {"starting", "due", "idle"} \cup Passing /\ crossed' \in BOOLEAN /\ (crossed' => at' \in Passing)
    <2>1. at' = IF at \in Passing THEN at ELSE "due"
      BY DEF NewDay
    <2>2. crossed' = (at \in Passing)
      BY Zenon DEF NewDay
    <2>3. crossed' \in BOOLEAN /\ (crossed' => at \in Passing)
      <3>1. crossed' \in BOOLEAN
        BY <2>2
      <3>2. crossed' => at \in Passing
        BY <2>2, Zenon
      <3> QED
        BY <3>1, <3>2
    <2>4. at \in Passing => at' \in Passing
      BY <2>1
    <2>5. at' \in {"starting", "due", "idle"} \cup Passing
      BY <2>1 DEF TypeOK
    <2> QED
      BY <2>3, <2>4, <2>5, Zenon
  <1>4. digests' \in [Users -> Nat] /\ owed' \in SUBSET Users
    <2>1. Zero \in [Users -> Nat]
      BY DEF Zero
    <2> QED
      BY <2>1 DEF NewDay, TypeOK
  <1>5. disturbed' \in BOOLEAN
    <2>1. disturbed' = (at \in Passing) \/ disturbed' = (disturbed \/ (day' = 2 /\ at \in Passing))
      <3>1. CASE day' = 1
        BY <3>1, Zenon DEF NewDay
      <3>2. CASE day' # 1
        BY <3>2, Zenon DEF NewDay
      <3> QED
        BY <3>1, <3>2
    <2>2. CASE disturbed' = (at \in Passing)
      BY <2>2
    <2>3. CASE disturbed' = (disturbed \/ (day' = 2 /\ at \in Passing))
      BY <2>3
    <2> QED
      BY <2>1, <2>2, <2>3
  <1>6. UNCHANGED <<here, marked, todo, row, checking, setting, excess, mishaps>> /\ (row # Nobody => at' = at)
    BY DEF NewDay, taskVars, TypeOK, Passing, Marks
  <1>7. at' \notin Passing => at \notin Passing
    BY DEF NewDay, Passing
  <1>8. TypeOK'
    BY <1>1, <1>2, <1>3, <1>4, <1>5, <1>6 DEF TypeOK
  <1>9. RestInv'
    BY <1>6, <1>7 DEF RestInv
  <1> QED
    BY <1>8, <1>9

LEMMA SchedulerKeepsTypes ==
  ASSUME TypeOK, RestInv, Scheduler \/ PassFails \/ SelectFails \/ MarkFails
  PROVE  TypeOK' /\ RestInv'
  <1>1. UNCHANGED <<day, here, age, first, quiet, owed, checking, setting>>
    BY DEF Scheduler, PassFails, SelectFails, MarkFails, BeginPass, SelectWinBack, SelectDigest, EndPass, Mark,
           HandOver, SendDigest, clockVars, taskVars
  <1>2. mishaps' \in 0..MaxMishaps
    BY EngagementAssumption DEF Scheduler, PassFails, SelectFails, MarkFails, BeginPass, SelectWinBack, SelectDigest,
       EndPass, Mark, HandOver, SendDigest, Fault, TypeOK
  <1>3. disturbed' \in BOOLEAN
    BY Zenon DEF Scheduler, PassFails, SelectFails, MarkFails, BeginPass, SelectWinBack, SelectDigest, EndPass, Mark,
       HandOver, SendDigest, TypeOK
  <1>4. /\ at \in {"starting", "due", "idle"} \cup Passing /\ todo \in SUBSET Users /\ row \in Users \cup {Nobody}
        /\ row # Nobody => at \in Marks
        /\ crossed => at \in Passing
        /\ crossed \in BOOLEAN
    BY DEF TypeOK
  <1>5. /\ at' \in {"starting", "due", "idle"} \cup Passing /\ todo' \in SUBSET Users /\ row' \in Users \cup {Nobody}
        /\ row' # Nobody => at' \in Marks
        /\ RestInv'
    <2>1. CASE BeginPass
      BY <1>4, <2>1, DueAreUsers DEF BeginPass, Due, RestInv, Passing, Marks
    <2>2. CASE SelectWinBack
      BY <1>4, <2>2, DueAreUsers DEF SelectWinBack, LoopDone, RestInv, Passing
    <2>3. CASE SelectDigest
      BY <1>4, <2>3, DueAreUsers DEF SelectDigest, LoopDone, RestInv, Passing, EndOfPass
    <2>4. CASE EndPass
      BY <1>4, <2>4 DEF EndPass, RestInv, Passing, EndOfPass, Marks
    <2>5. CASE Mark \/ MarkFails
      BY <1>4, <2>5 DEF Mark, MarkFails, RestInv, Passing
    <2>6. CASE \E u \in Users : HandOver(u) \/ SendDigest(u)
      BY <1>4, <2>6 DEF HandOver, SendDigest, RestInv, Passing, Marks
    <2>7. CASE PassFails \/ SelectFails
      BY <1>4, <2>7 DEF PassFails, SelectFails, Due, LoopDone, RestInv, Passing, Marks
    <2> QED
      BY <2>1, <2>2, <2>3, <2>4, <2>5, <2>6, <2>7 DEF Scheduler
  <1>6. crossed' \in BOOLEAN /\ (crossed' => at' \in Passing)
    <2>1. CASE SelectDigest \/ EndPass
      BY <1>4, <2>1 DEF SelectDigest, EndPass, Passing
    <2>2. CASE BeginPass \/ SelectWinBack \/ Mark \/ MarkFails \/ \E u \in Users : HandOver(u) \/ SendDigest(u)
      BY <1>4, <2>2 DEF BeginPass, SelectWinBack, Mark, MarkFails, HandOver, SendDigest, Passing
    <2>3. CASE PassFails \/ SelectFails
      BY <1>4, <2>3 DEF PassFails, SelectFails, Due, Passing
    <2> QED
      BY <2>1, <2>2, <2>3 DEF Scheduler
  <1>7. marked' \in [Marks -> SUBSET Users]
    <2>1. CASE Mark
      <3>1. at \in Marks /\ row \in Users /\ marked' = [marked EXCEPT ![at] = marked[at] \cup ({row} \cap here)]
        BY <1>4, <2>1 DEF Mark
      <3> QED
        BY <3>1 DEF TypeOK
    <2>2. CASE ~Mark
      BY <2>2 DEF Scheduler, PassFails, SelectFails, MarkFails, BeginPass, SelectWinBack, SelectDigest, EndPass,
         HandOver, SendDigest, TypeOK
    <2> QED
      BY <2>1, <2>2
  <1>8. digests' \in [Users -> Nat]
    <2>1. CASE \E u \in Users : SendDigest(u)
      BY <2>1 DEF SendDigest, TypeOK
    <2>2. CASE UNCHANGED digests
      BY <2>2 DEF TypeOK
    <2> QED
      BY <2>1, <2>2 DEF Scheduler, PassFails, SelectFails, MarkFails, BeginPass, SelectWinBack, SelectDigest, EndPass, Mark,
         HandOver
  <1>9. excess' \in [OnceMails -> [Users -> Int]]
    <2>1. CASE MarkFails
      BY <1>4, <2>1, ExplainedMore DEF MarkFails, OnceMails
    <2>2. ASSUME NEW u \in Users, HandOver(u)
          PROVE  excess' \in [OnceMails -> [Users -> Int]]
      BY <2>2, SentMore DEF HandOver, OnceMails
    <2>3. CASE UNCHANGED excess
      BY <2>3 DEF TypeOK
    <2> QED
      BY <2>1, <2>2, <2>3 DEF Scheduler, PassFails, SelectFails, BeginPass, SelectWinBack, SelectDigest, EndPass, Mark,
         SendDigest
  <1> QED
    BY <1>1, <1>2, <1>3, <1>5, <1>6, <1>7, <1>8, <1>9 DEF TypeOK

LEMMA TaskKeepsTypes ==
  ASSUME TypeOK, RestInv, NEW u \in Users, Task(u)
  PROVE  TypeOK' /\ RestInv'
  <1>1. UNCHANGED <<day, here, age, owed, marked, at, todo, row, crossed, disturbed, digests>>
    BY DEF Task, LogCall, CheckFirst, CheckFails, SetFirst, SetFirstFails, clockVars, schedVars
  <1>2. mishaps' \in 0..MaxMishaps
    BY EngagementAssumption DEF Task, LogCall, CheckFirst, CheckFails, SetFirst, SetFirstFails, Fault, TypeOK
  <1>3. first' \in [Users -> Nat \cup {Never}] /\ quiet' \in [Users -> Nat \cup {Never}]
    BY DEF Task, LogCall, CheckFirst, CheckFails, SetFirst, SetFirstFails, clockVars, TypeOK
  <1>4. checking' \in [Users -> Nat] /\ setting' \in [Users -> Nat]
    BY DEF Task, LogCall, CheckFirst, CheckFails, SetFirst, SetFirstFails, TypeOK
  <1>5. excess' \in [OnceMails -> [Users -> Int]]
    <2>1. CASE UNCHANGED excess
      BY <2>1 DEF TypeOK
    <2>2. CASE Sent("milestone", u)
      BY <2>2, SentMore DEF OnceMails
    <2>3. CASE Explained("milestone", u)
      BY <2>3, ExplainedMore DEF OnceMails
    <2> QED
      BY <2>1, <2>2, <2>3 DEF Task, LogCall, CheckFirst, CheckFails, SetFirst, SetFirstFails
  <1> QED
    BY <1>1, <1>2, <1>3, <1>4, <1>5 DEF TypeOK, RestInv

LEMMA RestartKeepsTypes ==
  ASSUME TypeOK, RestInv, Restart
  PROVE  TypeOK' /\ RestInv'
  <1>1. UNCHANGED <<day, here, age, quiet, owed, marked, digests>>
    BY DEF Restart
  <1>2. at' = "starting" /\ todo' = {} /\ row' = Nobody /\ crossed' = FALSE /\ mishaps' \in 0..MaxMishaps
    BY EngagementAssumption DEF Restart, Fault, TypeOK
  <1>3. disturbed' \in BOOLEAN
    BY Zenon DEF Restart, TypeOK
  <1>4. first' \in [Users -> Nat \cup {Never}] /\ checking' \in [Users -> Nat] /\ setting' \in [Users -> Nat]
    BY DEF Restart, TypeOK, Zero
  <1>5. excess' \in [OnceMails -> [Users -> Int]]
    <2>1. CASE row = Nobody
      BY <2>1 DEF Restart, TypeOK
    <2>2. CASE row # Nobody
      BY <2>2, ExplainedMore DEF Restart, TypeOK, OnceMails
    <2> QED
      BY <2>1, <2>2
  <1> QED
    BY <1>1, <1>2, <1>3, <1>4, <1>5 DEF TypeOK, RestInv

LEMMA AccountKeepsTypes ==
  ASSUME TypeOK, RestInv, NEW u \in Users, ForceClean(u) \/ SetDefault(u)
  PROVE  TypeOK' /\ RestInv'
  <1>1. PICK gone \in SUBSET Users :
          /\ Forget(gone) /\ here' \in SUBSET Users
          /\ quiet' \in [Users -> Nat \cup {Never}] /\ owed' \in SUBSET Users
    <2>1. CASE ForceClean(u)
      BY <2>1 DEF ForceClean, TypeOK
    <2>2. CASE SetDefault(u)
      BY <2>2 DEF SetDefault, TypeOK
    <2> QED
      BY <2>1, <2>2
  <1> QED
    BY <1>1, ForgetFacts DEF TypeOK, RestInv

-----------------------------------------------------------------------------
(* Marks.                                                                  *)

\* Steps that count nothing: whoever is selected by them is not marked.
LEMMA MarksStand ==
  ASSUME TypeOK, NEW k \in Marks, NEW u \in Users, MarkInv(k, u), UNCHANGED here,
         marked'[k] = marked[k], excess'[k][u] = excess[k][u],
         at' = k /\ (u \in todo' \/ row' = u) => u \notin marked[k],
         at = k /\ row = u => at' = k /\ row' = u,
         u \notin here /\ at' = k /\ u \in todo' => at = k /\ u \in todo
  PROVE  MarkInv(k, u)'
  <1>1. excess[k][u] \in Int
    BY Counts
  <1> QED
    BY <1>1 DEF MarkInv, One

LEMMA SchedulerKeepsMarks ==
  ASSUME TypeOK, RestInv, NEW k \in Marks, NEW u \in Users, MarkInv(k, u),
         Scheduler \/ PassFails \/ SelectFails \/ MarkFails
  PROVE  MarkInv(k, u)'
  <1>0. /\ excess[k][u] \in Int /\ u # Nobody
        /\ k \in OnceMails /\ k # "digest" /\ k \in Passing
        /\ at \in {"starting", "due", "idle"} \cup Passing
    BY Counts, NobodyIsNoUser DEF Marks, Passing, TypeOK
  <1>1. UNCHANGED here
    BY DEF Scheduler, PassFails, SelectFails, MarkFails, BeginPass, SelectWinBack, SelectDigest, EndPass, Mark,
       HandOver, SendDigest, clockVars
  <1>2. CASE BeginPass
    <2>1. /\ UNCHANGED <<marked, excess, row>> /\ row = Nobody /\ at' = "nudge" /\ todo' = NudgeDue
      BY <1>2 DEF BeginPass, Due, RestInv, Passing
    <2> QED
      BY <1>0, <1>1, <2>1, MarksStand DEF NudgeDue
  <1>3. CASE SelectWinBack
    <2>1. /\ UNCHANGED <<marked, excess, row>> /\ row = Nobody /\ at' = "winback" /\ todo' = WinBackDue
      BY <1>3 DEF SelectWinBack, LoopDone
    <2> QED
      BY <1>0, <1>1, <2>1, MarksStand DEF WinBackDue
  <1>4. CASE SelectDigest \/ EndPass \/ PassFails \/ SelectFails
    <2>1. UNCHANGED <<marked, excess, row>>
      BY <1>4 DEF SelectDigest, EndPass, PassFails, SelectFails
    <2>2. row = Nobody /\ (at' # k \/ todo' = {})
      BY <1>0, <1>4 DEF SelectDigest, EndPass, PassFails, SelectFails, LoopDone, Due, RestInv, EndOfPass, TypeOK,
         Passing, Marks
    <2> QED
      BY <1>0, <1>1, <2>1, <2>2, MarksStand
  <1>5. CASE Mark
    <2>1. /\ row \in Users /\ at \in Marks /\ row' = Nobody /\ UNCHANGED <<at, todo, excess>>
          /\ marked' = [marked EXCEPT ![at] = marked[at] \cup ({row} \cap here)]
      BY <1>5 DEF Mark, TypeOK
    <2>2. \A v \in Users : v \in marked'[k] <=> v \in marked[k] \/ (at = k /\ row = v /\ v \in here)
      BY <2>1 DEF TypeOK
    <2>3. row = u => u \notin todo
      BY <1>0 DEF RestInv
    <2> QED
      BY <1>0, <1>1, <2>1, <2>2, <2>3 DEF MarkInv, One
  <1>6. CASE MarkFails
    <2>1. /\ row \in Users /\ at \in OnceMails /\ row' = Nobody /\ UNCHANGED <<at, todo, marked>>
          /\ Explained(at, row)
      BY <1>6 DEF MarkFails, TypeOK, OnceMails
    <2>2. excess'[k][u] = IF at = k /\ row = u THEN excess[k][u] - 1 ELSE excess[k][u]
      BY <1>0, <2>1, ExplainedMore
    <2> QED
      BY <1>0, <1>1, <2>1, <2>2 DEF MarkInv, One
  <1>7. ASSUME NEW v \in Users, HandOver(v)
        PROVE  MarkInv(k, u)'
    <2>1. /\ row = Nobody /\ v \in todo /\ todo' = todo \ {v} /\ row' = v /\ at \in OnceMails
          /\ Sent(at, v) /\ UNCHANGED <<at, marked>>
      BY <1>7 DEF HandOver, OnceMails
    <2>2. excess'[k][u] = IF at = k /\ v = u THEN excess[k][u] + 1 ELSE excess[k][u]
      BY <1>0, <2>1, SentMore
    <2> QED
      BY <1>0, <1>1, <2>1, <2>2 DEF MarkInv, One
  <1>8. ASSUME NEW v \in Users, SendDigest(v)
        PROVE  MarkInv(k, u)'
    <2>1. todo' = todo \ {v} /\ UNCHANGED <<row, at, marked, excess>>
      BY <1>8 DEF SendDigest
    <2>2. at = k /\ (u \in todo \/ row = u) => u \notin marked[k]
      BY DEF MarkInv
    <2> QED
      BY <1>0, <1>1, <2>1, <2>2, MarksStand
  <1> QED
    BY <1>2, <1>3, <1>4, <1>5, <1>6, <1>7, <1>8 DEF Scheduler

LEMMA OthersKeepMarks ==
  ASSUME TypeOK, RestInv, NEW k \in Marks, NEW u \in Users, MarkInv(k, u),
         NewDay \/ (\E v \in Users : Task(v)) \/ Restart
  PROVE  MarkInv(k, u)'
  <1>0. /\ excess[k][u] \in Int /\ u # Nobody
        /\ k \in OnceMails /\ k # "digest" /\ k # "milestone" /\ k \in Passing
    BY Counts, NobodyIsNoUser DEF Marks, Passing
  <1>1. at = k /\ (u \in todo \/ row = u) => u \notin marked[k]
    BY DEF MarkInv
  <1>2. CASE NewDay
    <2>1. UNCHANGED <<here, marked, todo, row, excess>> /\ at' = (IF at \in Passing THEN at ELSE "due")
      BY <1>2 DEF NewDay
    <2> QED
      BY <1>0, <1>1, <2>1, MarksStand DEF Marks
  <1>3. ASSUME NEW v \in Users, Task(v)
        PROVE  MarkInv(k, u)'
    <2>1. UNCHANGED <<here, marked, at, todo, row>>
      BY <1>3 DEF Task, LogCall, CheckFirst, CheckFails, SetFirst, SetFirstFails, schedVars, clockVars
    <2>2. excess'[k][u] = excess[k][u]
      <3>1. "milestone" \in OnceMails
        BY DEF OnceMails
      <3>2. UNCHANGED excess \/ Sent("milestone", v) \/ Explained("milestone", v)
        BY <1>3 DEF Task, LogCall, CheckFirst, CheckFails, SetFirst, SetFirstFails
      <3> QED
        BY <1>0, <3>1, <3>2, SentMore, ExplainedMore
    <2> QED
      BY <1>1, <2>1, <2>2, MarksStand
  <1>4. CASE Restart
    <2>1. /\ UNCHANGED <<here, marked>> /\ at' = "starting" /\ todo' = {} /\ row' = Nobody
          /\ IF row = Nobody THEN UNCHANGED excess ELSE Explained(at, row)
      BY <1>4 DEF Restart
    <2>2. row # Nobody => row \in Users /\ at \in OnceMails
      BY DEF TypeOK, OnceMails
    <2>3. excess'[k][u] = IF at = k /\ row = u THEN excess[k][u] - 1 ELSE excess[k][u]
      BY <1>0, <2>1, <2>2, ExplainedMore
    <2> QED
      BY <1>0, <2>1, <2>3 DEF MarkInv, One, Marks
  <1> QED
    BY <1>2, <1>3, <1>4

\* A mail that is on its way when the tenant is lost is explained by the loss.
LEMMA AccountKeepsMarks ==
  ASSUME TypeOK, RestInv, NEW k \in Marks, NEW u \in Users, MarkInv(k, u),
         NEW v \in Users, ForceClean(v) \/ SetDefault(v)
  PROVE  MarkInv(k, u)'
  <1>0. excess[k][u] \in Int /\ k \in OnceMails /\ u # Nobody /\ (row = u => u \notin todo)
    BY Counts, NobodyIsNoUser DEF RestInv
  <1>1. PICK gone \in SUBSET Users : Forget(gone) /\ gone \subseteq here
                                    /\ (here' = here \ gone \/ (gone = {v} \cap here /\ here' = here \cup {v}))
    BY DEF ForceClean, SetDefault, TypeOK
  <1>2. /\ marked'[k] = marked[k] \ gone /\ UNCHANGED <<at, todo, row>>
        /\ excess'[k][u] = IF u \in gone THEN excess[k][u] - 1 ELSE excess[k][u]
    BY <1>0, <1>1, ForgetFacts
  <1>3. CASE u \notin gone
    BY <1>0, <1>1, <1>2, <1>3 DEF MarkInv, One
  <1>4. CASE u \in gone
    <2>1. u \in here /\ u \notin marked'[k]
      BY <1>1, <1>2, <1>4
    <2> QED
      BY <1>0, <1>2, <1>4, <2>1 DEF MarkInv, One
  <1> QED
    BY <1>3, <1>4

-----------------------------------------------------------------------------
(* The milestone.                                                          *)

\* A step that leaves alone the counts of the user u and whether first_call_at
\* is NULL.
LEMMA MilestonesStand ==
  ASSUME NEW u \in Users, MilestoneInv(u), UNCHANGED here,
         excess'["milestone"][u] = excess["milestone"][u], setting'[u] = setting[u],
         first'[u] = Never <=> first[u] = Never
  PROVE  MilestoneInv(u)'
  BY DEF MilestoneInv

LEMMA TaskKeepsMilestones ==
  ASSUME TypeOK, NEW u \in Users, MilestoneInv(u), NEW v \in Users, Task(v)
  PROVE  MilestoneInv(u)'
  <1>0. /\ excess["milestone"][u] \in Int /\ setting[u] \in Nat /\ "milestone" \in OnceMails /\ Never = -1
    BY Counts DEF Never
  <1>1. PICK x \in Int, w \in Nat : x = excess["milestone"][u] /\ w = setting[u]
    BY <1>0
  <1>2. UNCHANGED here
    BY DEF Task, LogCall, CheckFirst, CheckFails, SetFirst, SetFirstFails, clockVars
  <1>3. CASE LogCall(v) \/ CheckFails(v)
    BY <1>2, <1>3, MilestonesStand DEF LogCall, CheckFails, clockVars
  <1>4. CASE CheckFirst(v)
    <2>1. first' = first
      BY <1>4 DEF CheckFirst, clockVars
    <2>2. CASE ~LooksFirst(v) \/ v # u
      <3>1. setting'[u] = setting[u]
        BY <1>4, <2>2 DEF CheckFirst, TypeOK
      <3>2. excess'["milestone"][u] = excess["milestone"][u]
        <4>1. UNCHANGED excess \/ (Explained("milestone", v) /\ v # u)
          BY <1>4, <2>2 DEF CheckFirst
        <4> QED
          BY <1>0, <4>1, ExplainedMore
      <3> QED
        BY <1>2, <2>1, <3>1, <3>2, MilestonesStand
    <2>3. CASE LooksFirst(v) /\ v = u
      <3>1. setting'[u] = w + 1 /\ u \in here /\ first[u] = Never
        BY <1>1, <1>4, <2>3 DEF CheckFirst, TypeOK, LooksFirst
      <3>2. excess'["milestone"][u] = IF w > 0 THEN x - 1 ELSE x
        BY <1>0, <1>1, <1>4, <2>3, ExplainedMore DEF CheckFirst
      <3> QED
        BY <1>1, <1>2, <2>1, <3>1, <3>2 DEF MilestoneInv, One
    <2> QED
      BY <2>2, <2>3
  <1>5. CASE SetFirst(v) \/ SetFirstFails(v)
    <2>1. /\ setting' = [setting EXCEPT ![v] = @ - 1] /\ setting[v] > 0
          /\ \/ first' = (IF v \in here THEN [first EXCEPT ![v] = 0] ELSE first) /\ Sent("milestone", v)
             \/ first' = first /\ UNCHANGED excess
      BY <1>5 DEF SetFirst, SetFirstFails, clockVars
    <2>2. setting'[u] = IF v = u THEN w - 1 ELSE w
      BY <1>1, <2>1 DEF TypeOK
    <2>3. \/ /\ first'[u] = (IF v = u /\ u \in here THEN 0 ELSE first[u])
             /\ excess'["milestone"][u] = (IF v = u THEN x + 1 ELSE x)
          \/ first'[u] = first[u] /\ excess'["milestone"][u] = x
      <3>1. CASE first' = (IF v \in here THEN [first EXCEPT ![v] = 0] ELSE first) /\ Sent("milestone", v)
        <4>1. first'[u] = IF v = u /\ u \in here THEN 0 ELSE first[u]
          BY <3>1 DEF TypeOK
        <4> QED
          BY <1>0, <1>1, <3>1, <4>1, SentMore
      <3>2. CASE first' = first /\ UNCHANGED excess
        BY <1>1, <3>2
      <3> QED
        BY <2>1, <3>1, <3>2
    <2>4. CASE v = u
      BY <1>0, <1>1, <1>2, <2>1, <2>2, <2>3, <2>4 DEF MilestoneInv, One
    <2>5. CASE v # u
      BY <1>1, <1>2, <2>2, <2>3, <2>5 DEF MilestoneInv, One
    <2> QED
      BY <2>4, <2>5
  <1> QED
    BY <1>3, <1>4, <1>5 DEF Task

LEMMA OthersKeepMilestones ==
  ASSUME TypeOK, NEW u \in Users, MilestoneInv(u),
         NewDay \/ Scheduler \/ PassFails \/ SelectFails \/ MarkFails \/ Restart
  PROVE  MilestoneInv(u)'
  <1>0. /\ excess["milestone"][u] \in Int /\ setting[u] \in Nat /\ "milestone" \in OnceMails /\ Never = -1
    BY Counts DEF Never
  <1>1. CASE NewDay
    <2>1. UNCHANGED <<here, setting, excess>>
      BY <1>1 DEF NewDay, taskVars
    <2>2. first'[u] = Never <=> first[u] = Never
      <3>1. first'[u] = Later(first[u], AbsentAge) /\ first[u] \in Nat \cup {Never}
        BY <1>1 DEF NewDay, TypeOK
      <3> QED
        BY <3>1, LaterFacts, EngagementAssumption
    <2> QED
      BY <2>1, <2>2, MilestonesStand
  <1>2. CASE MarkFails
    <2>1. /\ row \in Users /\ at \in OnceMails /\ at # "milestone"
          /\ Explained(at, row) /\ UNCHANGED <<here, setting, first>>
      BY <1>2 DEF MarkFails, TypeOK, OnceMails, Marks, clockVars, taskVars
    <2>2. excess'["milestone"][u] = excess["milestone"][u]
      BY <1>0, <2>1, ExplainedMore
    <2> QED
      BY <2>1, <2>2, MilestonesStand
  <1>3. ASSUME NEW v \in Users, HandOver(v)
        PROVE  MilestoneInv(u)'
    <2>1. /\ UNCHANGED <<here, setting, first>>
          /\ at \in OnceMails /\ at # "milestone" /\ Sent(at, v)
      BY <1>3 DEF HandOver, clockVars, taskVars, Marks, OnceMails
    <2>2. excess'["milestone"][u] = excess["milestone"][u]
      BY <1>0, <2>1, SentMore
    <2> QED
      BY <2>1, <2>2, MilestonesStand
  <1>4. CASE \/ BeginPass \/ SelectWinBack \/ SelectDigest \/ EndPass \/ Mark \/ PassFails \/ SelectFails
             \/ \E v \in Users : SendDigest(v)
    <2>1. UNCHANGED <<here, excess, setting, first>>
      BY <1>4 DEF BeginPass, SelectWinBack, SelectDigest, EndPass, Mark, PassFails, SelectFails, SendDigest, clockVars,
         taskVars
    <2> QED
      BY <2>1, MilestonesStand
  <1>5. CASE Restart
    <2>1. UNCHANGED here /\ setting'[u] = 0
      BY <1>5 DEF Restart, Zero
    <2>2. /\ first[u] # Never => first'[u] # Never
          /\ setting[u] = 0 => first'[u] = first[u]
      <3>1. PICK done \in SUBSET {v \in here : setting[v] > 0} :
              first' = [v \in Users |-> IF v \in done THEN 0 ELSE first[v]]
        BY <1>5 DEF Restart
      <3> QED
        BY <1>0, <3>1
    <2>3. excess'["milestone"][u] = excess["milestone"][u]
      <3>1. row # Nobody => row \in Users /\ at \in OnceMails /\ at # "milestone"
        BY DEF TypeOK, OnceMails, Marks
      <3>2. IF row = Nobody THEN UNCHANGED excess ELSE Explained(at, row)
        BY <1>5 DEF Restart
      <3> QED
        BY <1>0, <3>1, <3>2, ExplainedMore
    <2> QED
      BY <1>0, <2>1, <2>2, <2>3 DEF MilestoneInv, One
  <1> QED
    BY <1>1, <1>2, <1>3, <1>4, <1>5 DEF Scheduler

\* The tenant that is lost takes one mail's column, or that of the tasks that
\* are about to set it.
LEMMA AccountKeepsMilestones ==
  ASSUME TypeOK, RestInv, NEW u \in Users, MilestoneInv(u),
         NEW v \in Users, ForceClean(v) \/ SetDefault(v)
  PROVE  MilestoneInv(u)'
  <1>0. excess["milestone"][u] \in Int /\ setting[u] \in Nat /\ "milestone" \in OnceMails
    BY Counts
  <1>1. PICK gone \in SUBSET Users : Forget(gone) /\ gone \subseteq here
                                    /\ (here' = here \ gone \/ (gone = {v} \cap here /\ here' = here \cup {v}))
    BY DEF ForceClean, SetDefault, TypeOK
  <1>2. /\ UNCHANGED setting
        /\ first'[u] = IF u \in gone THEN Never ELSE first[u]
        /\ excess'["milestone"][u] = IF u \in gone THEN excess["milestone"][u] - 1 ELSE excess["milestone"][u]
    BY <1>0, <1>1, ForgetFacts
  <1>3. CASE u \notin gone
    BY <1>0, <1>1, <1>2, <1>3 DEF MilestoneInv, One
  <1>4. CASE u \in gone
    BY <1>0, <1>1, <1>2, <1>4 DEF MilestoneInv, One
  <1> QED
    BY <1>3, <1>4

-----------------------------------------------------------------------------
(* The digest.                                                             *)

LEMMA NewDayKeepsDigest ==
  ASSUME TypeOK, DigestInv, NewDay
  PROVE  DigestInv'
  <1>1. SUFFICES ASSUME ~disturbed'
                 PROVE  DigestInv'
    BY DEF DigestInv
  <1>2. at' = (IF at \in Passing THEN at ELSE "due") /\ at # "due" /\ day' = (day % MonthDays) + 1
    BY DEF NewDay
  <1>3. at \in {"starting", "due", "idle"} \cup Passing /\ day \in 1..MonthDays
    BY DEF TypeOK
  <1>4. CASE day' = 1
    <2>1. at \notin Passing
      BY <1>1, <1>4, Zenon DEF NewDay
    <2>2. ~crossed'
      BY <2>1, Zenon DEF NewDay
    <2>3. digests' = Zero /\ owed' = {u \in Users : InLog(quiet'[u])}
      BY <1>4 DEF NewDay
    <2>4. \A u \in Users : digests'[u] = 0
      BY <2>3 DEF Zero
    <2>5. at' = "due"
      BY <1>2, <2>1
    <2> QED
      BY <1>4, <2>2, <2>3, <2>4, <2>5 DEF DigestInv, InLog
  <1>5. CASE day' # 1
    <2>1. disturbed' = (disturbed \/ (day' = 2 /\ at \in Passing)) /\ digests' = digests /\ owed' = owed
      BY <1>5, Zenon DEF NewDay
    <2>2. ~disturbed /\ ~(day' = 2 /\ at \in Passing)
      BY <1>1, <2>1, Zenon
    <2>3. day = 1 => at \notin Passing
      BY <1>2, <1>3, <2>2, ClockFacts
    <2>4. /\ \A u \in Users : digests[u] <= 1
          /\ at' # "digest" /\ \A u \in owed : digests[u] = 1
      <3>1. CASE day = 1
        <4>1. at # "starting"
          BY <2>2, <3>1 DEF DigestInv
        <4>2. at = "idle"
          BY <1>2, <1>3, <2>3, <3>1, <4>1
        <4> QED
          BY <1>2, <2>2, <3>1, <4>2 DEF DigestInv, Passing
      <3>2. CASE day # 1
        BY <1>2, <2>2, <3>2 DEF DigestInv
      <3> QED
        BY <3>1, <3>2
    <2> QED
      BY <1>5, <2>1, <2>4 DEF DigestInv
  <1> QED
    BY <1>4, <1>5

\* A step on which the first of the month turns up nothing new.
LEMMA DigestStands ==
  ASSUME DigestInv, UNCHANGED day, owed' \subseteq owed,
         ~disturbed' => ~disturbed,
         \A u \in Users : digests'[u] = digests[u],
         \A u \in owed' : InLog(quiet[u]) => InLog(quiet'[u]),
         owed \subseteq Users,
         ~disturbed' /\ day = 1 => (crossed' => crossed) /\ at' # "starting" /\ (at' = "digest" => at = "digest" /\ todo' = todo),
         ~disturbed' /\ day = 1 /\ at' \in {"due", "nudge", "winback"} => at \in {"due", "nudge", "winback"},
         ~disturbed' /\ day = 1 /\ at' = "idle" => at = "idle" \/ (at = "digest" /\ todo = {}),
         day # 1 /\ at' = "digest" => at = "digest",
         todo \subseteq Users
  PROVE  DigestInv'
  <1>1. SUFFICES ASSUME ~disturbed'
                 PROVE  DigestInv'
    BY DEF DigestInv
  <1>2. CASE day # 1
    BY <1>1, <1>2 DEF DigestInv
  <1>3. CASE day = 1
    <2>1. at' = "idle" => \A u \in owed : digests[u] = 1
      BY <1>1, <1>3 DEF DigestInv
    <2>2. at' = "digest" =>
            /\ \A u \in todo' : digests[u] = 0
            /\ \A u \in owed \ todo' : digests[u] = 1
      BY <1>1, <1>3 DEF DigestInv
    <2>3. at' \in {"due", "nudge", "winback"} => \A u \in Users : digests[u] = 0
      BY <1>1, <1>3 DEF DigestInv
    <2>4. at' = "digest" => todo' \subseteq Users
      BY <1>1, <1>3
    <2> QED
      BY <1>1, <1>3, <2>1, <2>2, <2>3, <2>4 DEF DigestInv
  <1> QED
    BY <1>2, <1>3

LEMMA SchedulerKeepsDigest ==
  ASSUME TypeOK, RestInv, DigestInv, Scheduler \/ PassFails \/ SelectFails \/ MarkFails
  PROVE  DigestInv'
  <1>0. /\ at \in {"starting", "due", "idle"} \cup Passing /\ owed \subseteq Users /\ todo \subseteq Users
        /\ "digest" \notin Marks /\ (crossed => at \in Passing)
        /\ \A u \in Users : digests[u] \in Nat
    BY DEF TypeOK, Marks
  <1>1. CASE BeginPass
    <2>1. UNCHANGED <<day, owed, quiet, disturbed, digests, crossed>> /\ at \in {"starting", "due"} /\ at' = "nudge"
      BY <1>1 DEF BeginPass, Due, clockVars
    <2>2. ~disturbed /\ day = 1 => at # "starting"
      BY DEF DigestInv
    <2> QED
      BY <1>0, <2>1, <2>2, DigestStands
  <1>2. CASE SelectWinBack
    <2>1. UNCHANGED <<day, owed, quiet, disturbed, digests, crossed>> /\ at = "nudge" /\ at' = "winback"
      BY <1>2 DEF SelectWinBack, clockVars
    <2> QED
      BY <1>0, <2>1, DigestStands
  <1>3. CASE Mark \/ MarkFails
    <2>1. UNCHANGED <<day, owed, quiet, disturbed, digests, crossed, at, todo>>
      BY <1>3 DEF Mark, MarkFails, clockVars
    <2>2. ~disturbed /\ day = 1 => at # "starting"
      BY DEF DigestInv
    <2> QED
      BY <1>0, <2>1, <2>2, DigestStands
  <1>4. ASSUME NEW v \in Users, HandOver(v)
        PROVE  DigestInv'
    <2>1. UNCHANGED <<day, owed, quiet, disturbed, crossed, at>> /\ at \in Marks /\ UNCHANGED digests
      BY <1>4 DEF HandOver, clockVars
    <2>2. at # "digest" /\ at # "starting"
      BY <2>1 DEF Marks
    <2> QED
      BY <1>0, <2>1, <2>2, DigestStands
  <1>5. CASE PassFails
    <2>1. UNCHANGED <<day, owed, quiet, digests, crossed>> /\ at' = "idle"
      BY <1>5 DEF PassFails, clockVars
    <2>2. disturbed' = (disturbed \/ day = 1)
      BY <1>5, Zenon DEF PassFails
    <2>3. ~disturbed' => ~disturbed /\ day # 1
      BY <2>2, Zenon
    <2> QED
      BY <1>0, <2>1, <2>3, DigestStands
  <1>6. CASE SelectFails
    <2>1. UNCHANGED <<day, owed, quiet, digests, crossed, todo>>
      BY <1>6 DEF SelectFails, clockVars
    <2>2. \/ Due /\ at' = "nudge" /\ disturbed' = disturbed
          \/ at = "nudge" /\ at' = "winback" /\ disturbed' = disturbed
          \/ day = 1 /\ at' = "digest" /\ disturbed' = TRUE
      BY <1>6 DEF SelectFails
    <2>3. ~disturbed /\ day = 1 => at # "starting"
      BY DEF DigestInv
    <2>4. CASE day = 1 /\ disturbed' = TRUE
      BY <2>4 DEF DigestInv
    <2>5. CASE at' \in {"nudge", "winback"} /\ at \in {"starting", "due", "nudge"} /\ disturbed' = disturbed
      BY <1>0, <2>1, <2>3, <2>5, DigestStands
    <2> QED
      BY <2>2, <2>4, <2>5 DEF Due
  <1>7. CASE SelectDigest
    <2>1. UNCHANGED <<day, owed, quiet, disturbed, digests>> /\ at = "winback"
      BY <1>7 DEF SelectDigest, clockVars
    <2>2. CASE day = 1
      <3>1. at' = "digest" /\ todo' = DigestDue /\ crossed' = crossed
        BY <1>7, <2>2 DEF SelectDigest
      <3> QED
        BY <1>0, <2>1, <2>2, <3>1 DEF DigestInv, DigestDue
    <2>3. CASE day # 1
      <3>1. at' # "digest"
        BY <1>7, <2>3 DEF SelectDigest, EndOfPass
      <3> QED
        BY <2>1, <2>3, <3>1 DEF DigestInv
    <2> QED
      BY <2>2, <2>3
  <1>8. ASSUME NEW v \in Users, SendDigest(v)
        PROVE  DigestInv'
    <2>1. /\ UNCHANGED <<day, owed, quiet, disturbed, crossed, at>> /\ at = "digest" /\ v \in todo /\ todo' = todo \ {v}
          /\ digests' = [digests EXCEPT ![v] = @ + 1]
      BY <1>8 DEF SendDigest, clockVars
    <2>2. digests'[v] = digests[v] + 1 /\ \A u \in Users \ {v} : digests'[u] = digests[u]
      BY <2>1 DEF TypeOK
    <2>3. SUFFICES ASSUME ~disturbed
                   PROVE  DigestInv'
      BY <2>1 DEF DigestInv
    <2>4. day = 1 /\ digests[v] = 0
      BY <2>1, <2>3 DEF DigestInv
    <2>5. /\ \A u \in todo' : digests'[u] = 0
          /\ \A u \in owed \ todo' : digests'[u] = 1
          /\ \A u \in Users : digests'[u] <= 1
      BY <1>0, <2>1, <2>2, <2>3, <2>4 DEF DigestInv
    <2> QED
      BY <2>1, <2>3, <2>4, <2>5 DEF DigestInv
  <1>9. CASE EndPass
    <2>1. /\ UNCHANGED <<day, owed, quiet, disturbed, digests>> /\ at = "digest" /\ todo = {} /\ ~crossed'
          /\ at' = IF crossed THEN "due" ELSE "idle"
      BY <1>9 DEF EndPass, EndOfPass, clockVars
    <2>2. ~disturbed => day = 1 /\ ~crossed
      BY <2>1 DEF DigestInv
    <2> QED
      BY <1>0, <2>1, <2>2, DigestStands
  <1> QED
    BY <1>1, <1>2, <1>3, <1>4, <1>5, <1>6, <1>7, <1>8, <1>9 DEF Scheduler

LEMMA TaskKeepsDigest ==
  ASSUME TypeOK, DigestInv, NEW v \in Users, Task(v)
  PROVE  DigestInv'
  <1>1. UNCHANGED <<day, owed, at, todo, crossed, disturbed>> /\ owed \subseteq Users /\ todo \subseteq Users
    BY DEF Task, LogCall, CheckFirst, CheckFails, SetFirst, SetFirstFails, clockVars, schedVars, TypeOK
  <1>2. \A u \in Users : InLog(quiet[u]) => InLog(quiet'[u])
    <2>1. DigestWindow \in Nat /\ DigestWindow > 0 /\ Never = -1
      BY EngagementAssumption DEF Never
    <2>2. CASE quiet' = quiet
      BY <2>2
    <2>3. CASE quiet' = [quiet EXCEPT ![v] = 0]
      BY <2>1, <2>3 DEF TypeOK, InLog
    <2> QED
      BY <2>2, <2>3 DEF Task, LogCall, CheckFirst, CheckFails, SetFirst, SetFirstFails, clockVars
  <1>3. UNCHANGED digests
    BY DEF Task, LogCall, CheckFirst, CheckFails, SetFirst, SetFirstFails
  <1>4. ~disturbed /\ day = 1 => at # "starting"
    BY DEF DigestInv
  <1> QED
    BY <1>1, <1>2, <1>3, <1>4, DigestStands

LEMMA RestartKeepsDigest ==
  ASSUME TypeOK, DigestInv, Restart
  PROVE  DigestInv'
  <1>1. UNCHANGED <<day, owed, quiet, digests>> /\ at' = "starting" /\ owed \subseteq Users /\ todo \subseteq Users
    BY DEF Restart, TypeOK
  <1>2. disturbed' = (disturbed \/ day = 1)
    BY Zenon DEF Restart
  <1>3. ~disturbed' => ~disturbed /\ day # 1
    BY <1>2, Zenon
  <1> QED
    BY <1>1, <1>3, DigestStands

\* Who is removed from the usage log is owed nothing any more.
LEMMA AccountKeepsDigest ==
  ASSUME TypeOK, RestInv, DigestInv, NEW v \in Users, ForceClean(v) \/ SetDefault(v)
  PROVE  DigestInv'
  <1>1. PICK gone \in SUBSET Users : Forget(gone)
    BY DEF ForceClean, SetDefault, TypeOK
  <1>2. UNCHANGED <<day, at, todo, crossed, disturbed, digests>> /\ owed \subseteq Users /\ todo \subseteq Users
    BY <1>1, ForgetFacts DEF TypeOK
  <1>3. owed' \subseteq owed /\ \A u \in owed' : InLog(quiet[u]) => InLog(quiet'[u])
    <2>1. CASE ForceClean(v)
      <3>1. PICK emptied \in SUBSET Users :
              /\ quiet' = [u \in Users |-> IF u \in emptied THEN Never ELSE quiet[u]]
              /\ owed' = owed \ emptied
        BY <2>1 DEF ForceClean
      <3> QED
        BY <1>2, <3>1
    <2>2. CASE SetDefault(v)
      BY <2>2 DEF SetDefault
    <2> QED
      BY <2>1, <2>2
  <1>4. ~disturbed /\ day = 1 => at # "starting"
    BY DEF DigestInv
  <1> QED
    BY <1>2, <1>3, <1>4, DigestStands

-----------------------------------------------------------------------------
(* The invariant.                                                          *)

LEMMA EngInvInit ==
  ASSUME Init
  PROVE  EngInv
  <1>1. Zero \in [Users -> Nat] /\ \A u \in Users : Zero[u] = 0
    BY DEF Zero
  <1>2. TypeOK
    <2>1. day \in 1..MonthDays /\ mishaps \in 0..MaxMishaps
      BY EngagementAssumption DEF Init
    <2>2. first \in [Users -> Nat \cup {Never}] /\ quiet \in [Users -> Nat \cup {Never}] /\ age \in [Users -> Nat]
      BY <1>1 DEF Init
    <2>3. crossed \in BOOLEAN /\ ~crossed /\ disturbed \in BOOLEAN
      BY Zenon DEF Init
    <2>4. /\ marked \in [Marks -> SUBSET Users] /\ digests \in [Users -> Nat]
          /\ excess \in [OnceMails -> [Users -> Int]] /\ here \in SUBSET Users
          /\ checking \in [Users -> Nat] /\ setting \in [Users -> Nat]
      BY <1>1 DEF Init
    <2>5. /\ at \in {"starting", "due", "idle"} \cup Passing /\ todo \in SUBSET Users /\ row \in Users \cup {Nobody}
          /\ row = Nobody /\ owed \in SUBSET Users
      BY DEF Init
    <2> QED
      BY <2>1, <2>2, <2>3, <2>4, <2>5 DEF TypeOK
  <1>3. RestInv
    BY DEF Init, RestInv
  <1>4. ASSUME NEW k \in Marks, NEW u \in Users
        PROVE  MarkInv(k, u)
    <2>1. excess[k][u] = 0 /\ marked[k] = {} /\ at # k /\ u \in here
      BY <1>1 DEF Init, OnceMails, Marks
    <2> QED
      BY <2>1 DEF MarkInv, One
  <1>5. ASSUME NEW u \in Users
        PROVE  MilestoneInv(u)
    <2>1. excess["milestone"][u] = 0 /\ setting[u] = 0 /\ u \in here
      BY <1>1 DEF Init, OnceMails
    <2> QED
      BY <2>1 DEF MilestoneInv, One
  <1>6. DigestInv
    <2>1. \A u \in Users : digests[u] = 0
      BY <1>1 DEF Init
    <2>2. day = 2 /\ owed = {} /\ at = "starting"
      BY DEF Init
    <2> QED
      BY <2>1, <2>2 DEF DigestInv
  <1> QED
    BY <1>2, <1>3, <1>4, <1>5, <1>6 DEF EngInv

LEMMA EngInvNext ==
  ASSUME EngInv, [Next]_vars
  PROVE  EngInv'
  <1>0. TypeOK /\ RestInv /\ DigestInv
    BY DEF EngInv
  <1>1. CASE NewDay
    <2>1. TypeOK' /\ RestInv' /\ DigestInv'
      BY <1>0, <1>1, NewDayKeepsTypes, NewDayKeepsDigest
    <2> QED
      BY <1>1, <2>1, OthersKeepMarks, OthersKeepMilestones DEF EngInv
  <1>2. CASE Scheduler \/ PassFails \/ SelectFails \/ MarkFails
    <2>1. TypeOK' /\ RestInv' /\ DigestInv'
      BY <1>0, <1>2, SchedulerKeepsTypes, SchedulerKeepsDigest
    <2> QED
      BY <1>2, <2>1, SchedulerKeepsMarks, OthersKeepMilestones DEF EngInv
  <1>3. ASSUME NEW v \in Users, Task(v)
        PROVE  EngInv'
    <2>1. TypeOK' /\ RestInv' /\ DigestInv'
      BY <1>0, <1>3, TaskKeepsTypes, TaskKeepsDigest
    <2> QED
      BY <1>3, <2>1, OthersKeepMarks, TaskKeepsMilestones DEF EngInv
  <1>4. CASE Restart
    <2>1. TypeOK' /\ RestInv' /\ DigestInv'
      BY <1>0, <1>4, RestartKeepsTypes, RestartKeepsDigest
    <2> QED
      BY <1>4, <2>1, OthersKeepMarks, OthersKeepMilestones DEF EngInv
  <1>5. ASSUME NEW v \in Users, ForceClean(v) \/ SetDefault(v)
        PROVE  EngInv'
    <2>1. TypeOK' /\ RestInv' /\ DigestInv'
      BY <1>0, <1>5, AccountKeepsTypes, AccountKeepsDigest
    <2> QED
      BY <1>0, <1>5, <2>1, AccountKeepsMarks, AccountKeepsMilestones DEF EngInv
  <1>6. CASE UNCHANGED vars
    BY <1>6 DEF vars, EngInv, TypeOK, RestInv, MarkInv, MilestoneInv, DigestInv, InLog
  <1> QED
    BY <1>1, <1>2, <1>3, <1>4, <1>5, <1>6, EngagementAssumption DEF Next

LEMMA EngInvAlways == Spec => []EngInv
  <1>1. Init => EngInv
    BY EngInvInit
  <1>2. EngInv /\ [Next]_vars => EngInv'
    BY EngInvNext
  <1> QED
    BY <1>1, <1>2, PTL DEF Spec

-----------------------------------------------------------------------------
(* What the mails promise.                                                 *)

\* Every column and counter keeps its type, and the scheduler mails a user only
\* in a pass.
THEOREM EngagementTypes == Spec => []TypeOK
  <1>1. EngInv => TypeOK
    BY DEF EngInv
  <1> QED
    BY <1>1, EngInvAlways, PTL

\* Nudge, win-back and milestone are sent again only for a time that their
\* column was not set, or for a tenant that was lost with it: for any number of
\* users, calls, restarts, failures, removals and new tenants.
THEOREM MailsRepeat == Spec => []MailsRepeatOnlyUnmarked
  <1>1. ASSUME EngInv
        PROVE  MailsRepeatOnlyUnmarked
    <2>1. ASSUME NEW k \in OnceMails, NEW u \in Users
          PROVE  excess[k][u] <= 1
      <3>1. excess[k][u] \in Int /\ setting[u] \in Nat
        BY <1>1, Counts DEF EngInv
      <3>2. CASE k \in Marks
        <4>1. MarkInv(k, u)
          BY <1>1, <3>2 DEF EngInv
        <4>2. at = k /\ row = u => u \notin marked[k]
          BY <4>1 DEF MarkInv
        <4> QED
          BY <3>1, <4>1, <4>2 DEF MarkInv, One
      <3>3. CASE k = "milestone"
        <4>1. MilestoneInv(u)
          BY <1>1 DEF EngInv
        <4> QED
          BY <3>1, <3>3, <4>1 DEF MilestoneInv, One
      <3> QED
        BY <3>2, <3>3 DEF OnceMails
    <2> QED
      BY <2>1 DEF MailsRepeatOnlyUnmarked
  <1> QED
    BY <1>1, EngInvAlways, PTL

\* In a month that nothing came in the way of, the pass of the first sends the
\* digest once to everyone in the usage log, for any length of the month shorter
\* than the window the log is searched for.
THEOREM DigestOnce == Spec => []DigestOnceAMonth
  <1>1. ASSUME EngInv
        PROVE  DigestOnceAMonth
    BY <1>1 DEF EngInv, DigestInv, DigestOnceAMonth, TypeOK
  <1> QED
    BY <1>1, EngInvAlways, PTL
=============================================================================
