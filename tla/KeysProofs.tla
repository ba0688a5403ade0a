----------------------------- MODULE KeysProofs -----------------------------
(***************************************************************************)
(* The safety theorems of Keys, for any number of requests and keys, in    *)
(* the order: the failure limit, keys that have ended, types, references,  *)
(* removals, the welcome mail and the end of a refusal.                    *)
(***************************************************************************)
EXTENDS Keys, FiniteSetTheorems, TLAPS

-----------------------------------------------------------------------------
(* The failure limit.  What a window has counted and what is under way     *)
(* together stay below the limit and the peak: whoever passed the check    *)
(* did so below the limit, and is in the peak.                             *)

WindowTypes ==
  /\ pc = [r \in Requests |-> pc[r]]
  /\ call = [r \in Requests |-> call[r]]
  /\ peak \in [KeyIds -> Nat]
  /\ now \in Nat
  /\ fails = [k \in DOMAIN fails |-> fails[k]]
  /\ DOMAIN fails \subseteq KeyIds
  /\ \A k \in DOMAIN fails :
       fails[k] = [count |-> fails[k].count, started |-> fails[k].started]
  /\ \A k \in DOMAIN fails : fails[k].count \in Nat /\ fails[k].started \in Nat
  /\ \A r \in Requests : pc[r] \in {"lookup", "record"} => Key(r) \in KeyIds

PeakInv == \A k \in KeyIds : Cardinality(UnderWay(k)) <= peak[k]

WindowInv ==
  \A k \in DOMAIN fails : Live(k) =>
    fails[k].count + Cardinality(UnderWay(k)) < MaxFailures + peak[k]

LimitInv == WindowTypes /\ PeakInv /\ WindowInv

\* Only requests are under way, so they can be counted.
LEMMA UnderWayFinite ==
  ASSUME NEW k
  PROVE  IsFiniteSet(UnderWay(k)) /\ Cardinality(UnderWay(k)) \in Nat
<1>1. UnderWay(k) \subseteq Requests
  BY DEF UnderWay
<1> QED
  BY <1>1, KeysAssumption, FS_Subset, FS_CardinalityType DEF KeysAssumption

LEMMA InitLimit == Init => LimitInv
<1> SUFFICES ASSUME Init PROVE LimitInv
  OBVIOUS
<1>1. \A k : UnderWay(k) = {}
  BY DEF Init, UnderWay
<1>2. \A k : Cardinality(UnderWay(k)) = 0
  BY <1>1, FS_EmptySet
<1> QED
  BY <1>2 DEF Init, LimitInv, WindowTypes, PeakInv, WindowInv

\* A step that counts nothing, and after which no more is under way.
LEMMA FewerKeeps ==
  ASSUME LimitInv, WindowTypes',
         UNCHANGED <<fails, now, peak>>,
         \A k \in KeyIds : UnderWay(k)' \subseteq UnderWay(k)
  PROVE  LimitInv'
<1>1. ASSUME NEW k \in KeyIds
      PROVE  /\ Cardinality(UnderWay(k)') \in Nat
             /\ Cardinality(UnderWay(k)) \in Nat
             /\ Cardinality(UnderWay(k)') <= Cardinality(UnderWay(k))
  BY UnderWayFinite, FS_Subset, FS_CardinalityType
<1>2. PeakInv'
  <2> SUFFICES ASSUME NEW k \in KeyIds
               PROVE  Cardinality(UnderWay(k)') <= peak[k]
    BY DEF PeakInv
  <2>1. peak[k] \in Nat /\ Cardinality(UnderWay(k)) <= peak[k]
    BY DEF LimitInv, PeakInv, WindowTypes
  <2> QED
    BY <1>1, <2>1
<1>3. WindowInv'
  <2> SUFFICES ASSUME NEW k \in DOMAIN fails, Live(k)
               PROVE  fails[k].count + Cardinality(UnderWay(k)') < MaxFailures + peak[k]
    BY DEF WindowInv, Live
  <2>1. /\ k \in KeyIds
        /\ peak[k] \in Nat /\ fails[k].count \in Nat
        /\ fails[k].count + Cardinality(UnderWay(k)) < MaxFailures + peak[k]
    BY DEF LimitInv, WindowInv, WindowTypes
  <2> QED
    BY <1>1, <2>1, KeysAssumption DEF KeysAssumption
<1> QED
  BY <1>2, <1>3 DEF LimitInv

\* The types after a step that does not touch the windows.
LEMMA TypesKept ==
  ASSUME WindowTypes,
         UNCHANGED <<fails, now, peak>>,
         pc' = [r \in Requests |-> pc'[r]],
         call' = [r \in Requests |-> call'[r]],
         \A r \in Requests : pc'[r] \in {"lookup", "record"} => call'[r].key \in KeyIds
  PROVE  WindowTypes'
BY DEF WindowTypes, Key

\* Most steps move one request, which then waits for no validation.
LEMMA QuietLimit ==
  ASSUME LimitInv, NEW r \in Requests, NEW step,
         UNCHANGED <<fails, now, peak>>,
         pc' = [pc EXCEPT ![r] = step], step \notin {"lookup", "record"},
         \/ UNCHANGED call
         \/ \E c : call' = [call EXCEPT ![r] = c]
  PROVE  LimitInv'
<1>1. pc' = [q \in Requests |-> IF q = r THEN step ELSE pc[q]]
  BY DEF LimitInv, WindowTypes
<1>2. /\ call' = [q \in Requests |-> call'[q]]
      /\ \A q \in Requests \ {r} : call'[q] = call[q]
  BY DEF LimitInv, WindowTypes
<1>3. \A k : UnderWay(k)' \subseteq UnderWay(k)
  BY <1>1, <1>2 DEF UnderWay, Key
<1>4. WindowTypes'
  <2>1. pc' = [q \in Requests |-> pc'[q]]
    BY <1>1
  <2>2. \A q \in Requests : pc'[q] \in {"lookup", "record"} => call'[q].key \in KeyIds
    BY <1>1, <1>2 DEF LimitInv, WindowTypes, Key
  <2> QED
    BY <1>2, <2>1, <2>2, TypesKept DEF LimitInv
<1> QED
  BY <1>3, <1>4, FewerKeeps

\* The check lets one more come under way only below the limit.
LEMMA ValidateKeeps ==
  ASSUME LimitInv, NEW r \in Requests, NEW c \in Menu, ValidateKey(r, c)
  PROVE  LimitInv'
<1> DEFINE k0 == c.key
<1>1. c.op = "validate" /\ k0 \in KeyIds
  BY KeysAssumption DEF ValidateKey, KeysAssumption, Calls
<1>2. /\ pc[r] = "idle"
      /\ now' = now /\ fails' = Evicted
      /\ call' = [q \in Requests |-> IF q = r THEN c ELSE call[q]]
  BY DEF ValidateKey, Accept, LimitInv, WindowTypes
<1>3. /\ fails' = [k \in DOMAIN fails' |-> fails[k]]
      /\ DOMAIN fails' \subseteq DOMAIN fails
  <2>1. fails = [k \in DOMAIN fails |-> fails[k]]
    BY DEF LimitInv, WindowTypes
  <2> QED
    BY <1>2, <2>1 DEF Evicted
<1>4. \A k \in DOMAIN fails' : fails'[k] = fails[k] /\ (Live(k)' <=> Live(k))
  BY <1>2, <1>3 DEF Live
<1>5. CASE Allowed(k0)
  <2>1. /\ pc' = [q \in Requests |-> IF q = r THEN "lookup" ELSE pc[q]]
        /\ peak' = [peak EXCEPT ![k0] = Larger(@, Cardinality(UnderWay(k0)) + 1)]
    BY <1>5 DEF ValidateKey, Accept, Goto, LimitInv, WindowTypes
  <2>2. r \notin UnderWay(k0) /\ UnderWay(k0)' = UnderWay(k0) \cup {r}
    BY <1>2, <2>1 DEF UnderWay, Key
  <2>3. \A k \in KeyIds \ {k0} : UnderWay(k)' = UnderWay(k)
    BY <1>2, <2>1 DEF UnderWay, Key
  <2>4. /\ Cardinality(UnderWay(k0)) \in Nat
        /\ Cardinality(UnderWay(k0)') = Cardinality(UnderWay(k0)) + 1
    BY <2>2, UnderWayFinite, FS_AddElement
  <2>5. /\ peak' \in [KeyIds -> Nat]
        /\ peak[k0] <= peak'[k0]
        /\ Cardinality(UnderWay(k0)) + 1 <= peak'[k0]
        /\ \A k \in KeyIds \ {k0} : peak'[k] = peak[k]
    BY <1>1, <2>1, <2>4 DEF LimitInv, WindowTypes, Larger
  <2>6. WindowTypes'
    <3>1. \A q \in Requests : pc'[q] \in {"lookup", "record"} => call'[q].key \in KeyIds
      BY <1>1, <1>2, <2>1 DEF LimitInv, WindowTypes, Key
    <3>2. \A k \in DOMAIN fails' :
            /\ k \in KeyIds
            /\ fails'[k] = [count |-> fails'[k].count, started |-> fails'[k].started]
            /\ fails'[k].count \in Nat /\ fails'[k].started \in Nat
      BY <1>3, <1>4 DEF LimitInv, WindowTypes
    <3>3. fails' = [k \in DOMAIN fails' |-> fails'[k]]
      BY <1>3
    <3> QED
      BY <1>2, <2>1, <2>5, <3>1, <3>2, <3>3 DEF LimitInv, WindowTypes, Key
  <2>7. PeakInv'
    BY <2>3, <2>4, <2>5 DEF LimitInv, PeakInv
  <2>8. WindowInv'
    <3> SUFFICES ASSUME NEW k \in DOMAIN fails', Live(k)
                 PROVE  fails[k].count + Cardinality(UnderWay(k)') < MaxFailures + peak'[k]
      BY <1>4 DEF WindowInv
    <3>1. k \in DOMAIN fails /\ k \in KeyIds /\ fails[k].count \in Nat
      BY <1>3 DEF LimitInv, WindowTypes
    <3>2. CASE k = k0
      <4>1. fails[k].count < MaxFailures
        BY <1>5, <3>1, <3>2 DEF Allowed
      <4> QED
        BY <2>4, <2>5, <3>1, <3>2, <4>1, <1>1, KeysAssumption DEF KeysAssumption
    <3>3. CASE k # k0
      BY <2>3, <2>5, <3>1, <3>3 DEF LimitInv, WindowInv
    <3> QED
      BY <3>2, <3>3
  <2> QED
    BY <2>6, <2>7, <2>8 DEF LimitInv
<1>6. CASE ~Allowed(k0)
  <2>1. /\ pc' = [q \in Requests |-> IF q = r THEN "refused" ELSE pc[q]]
        /\ peak' = peak
    BY <1>6 DEF ValidateKey, Accept, Goto, LimitInv, WindowTypes
  <2>2. \A k \in KeyIds : UnderWay(k)' = UnderWay(k)
    BY <1>2, <2>1 DEF UnderWay, Key
  <2>3. WindowTypes'
    <3>1. \A q \in Requests : pc'[q] \in {"lookup", "record"} => call'[q].key \in KeyIds
      BY <1>1, <1>2, <2>1 DEF LimitInv, WindowTypes, Key
    <3>2. \A k \in DOMAIN fails' :
            /\ k \in KeyIds
            /\ fails'[k] = [count |-> fails'[k].count, started |-> fails'[k].started]
            /\ fails'[k].count \in Nat /\ fails'[k].started \in Nat
      BY <1>3, <1>4 DEF LimitInv, WindowTypes
    <3>3. fails' = [k \in DOMAIN fails' |-> fails'[k]]
      BY <1>3
    <3> QED
      BY <1>2, <2>1, <3>1, <3>2, <3>3 DEF LimitInv, WindowTypes, Key
  <2>4. PeakInv'
    BY <2>1, <2>2 DEF LimitInv, PeakInv
  <2>5. WindowInv'
    <3> SUFFICES ASSUME NEW k \in DOMAIN fails', Live(k)
                 PROVE  fails[k].count + Cardinality(UnderWay(k)') < MaxFailures + peak[k]
      BY <1>4, <2>1 DEF WindowInv
    <3>1. k \in DOMAIN fails /\ k \in KeyIds
      BY <1>3 DEF LimitInv, WindowTypes
    <3> QED
      BY <2>2, <3>1 DEF LimitInv, WindowInv
  <2> QED
    BY <2>3, <2>4, <2>5 DEF LimitInv
<1> QED
  BY <1>5, <1>6

\* Between the answer of the database and the count nothing changes.
LEMMA LookUpKeeps ==
  ASSUME LimitInv, NEW r \in Requests, LookUpKey(r)
  PROVE  LimitInv'
<1>1. PICK step \in {"accepted", "record"} :
        pc' = [q \in Requests |-> IF q = r THEN step ELSE pc[q]]
  BY DEF LookUpKey, Goto, LimitInv, WindowTypes
<1>2. pc[r] = "lookup" /\ UNCHANGED <<fails, now, peak, call>>
  BY DEF LookUpKey, history
<1>3. \A k : UnderWay(k)' \subseteq UnderWay(k)
  BY <1>1, <1>2 DEF UnderWay, Key
<1>4. WindowTypes'
  BY <1>1, <1>2, TypesKept DEF LimitInv, WindowTypes, Key
<1> QED
  BY <1>2, <1>3, <1>4, FewerKeeps

\* A failure is counted when its validation is no longer under way.
LEMMA RecordKeeps ==
  ASSUME LimitInv, NEW r \in Requests, RecordFailure(r)
  PROVE  LimitInv'
<1> PICK k0 : k0 = Key(r)
  OBVIOUS
<1>1. /\ pc[r] = "record" /\ k0 = Key(r) /\ k0 \in KeyIds
      /\ UNCHANGED <<now, peak, call>>
      /\ pc' = [q \in Requests |-> IF q = r THEN "invalid" ELSE pc[q]]
      /\ fails' = With(fails, k0, Counted(k0))
  BY DEF RecordFailure, Goto, history, LimitInv, WindowTypes
<1>2. r \in UnderWay(k0) /\ UnderWay(k0)' = UnderWay(k0) \ {r}
  BY <1>1 DEF UnderWay, Key
<1>3. \A k \in KeyIds \ {k0} : UnderWay(k)' = UnderWay(k)
  BY <1>1 DEF UnderWay, Key
<1>4. /\ Cardinality(UnderWay(k0)) \in Nat
      /\ Cardinality(UnderWay(k0)') \in Nat
      /\ Cardinality(UnderWay(k0)') = Cardinality(UnderWay(k0)) - 1
  BY <1>2, UnderWayFinite, FS_RemoveElement, FS_CardinalityType
<1>5. /\ DOMAIN fails' = DOMAIN fails \cup {k0}
      /\ fails' = [k \in DOMAIN fails' |-> fails'[k]]
      /\ fails'[k0] = Counted(k0)
      /\ \A k \in DOMAIN fails \ {k0} : fails'[k] = fails[k]
  BY <1>1 DEF With
<1>6. \/ /\ k0 \in DOMAIN fails /\ Live(k0)
         /\ Counted(k0) = [count |-> fails[k0].count + 1, started |-> fails[k0].started]
      \/ Counted(k0) = [count |-> 1, started |-> now]
  <2>1. CASE k0 \in DOMAIN fails /\ Live(k0)
    <3>1. fails[k0] = [count |-> fails[k0].count, started |-> fails[k0].started]
      BY <2>1 DEF LimitInv, WindowTypes
    <3>2. Counted(k0) = [fails[k0] EXCEPT !.count = fails[k0].count + 1]
      BY <2>1 DEF Counted
    <3> QED
      BY <2>1, <3>1, <3>2
  <2>2. CASE ~(k0 \in DOMAIN fails /\ Live(k0))
    BY <2>2 DEF Counted
  <2> QED
    BY <2>1, <2>2
<1>7. WindowTypes'
  <2>1. \A k \in DOMAIN fails' :
          /\ k \in KeyIds
          /\ fails'[k] = [count |-> fails'[k].count, started |-> fails'[k].started]
          /\ fails'[k].count \in Nat /\ fails'[k].started \in Nat
    <3> SUFFICES ASSUME NEW k \in DOMAIN fails'
                 PROVE  /\ k \in KeyIds
                        /\ fails'[k] = [count |-> fails'[k].count, started |-> fails'[k].started]
                        /\ fails'[k].count \in Nat /\ fails'[k].started \in Nat
      OBVIOUS
    <3>1. CASE k # k0
      BY <1>5, <3>1 DEF LimitInv, WindowTypes
    <3>2. CASE k = k0
      <4>1. now \in Nat
        BY DEF LimitInv, WindowTypes
      <4>2. k0 \in DOMAIN fails => fails[k0].count \in Nat /\ fails[k0].started \in Nat
        BY DEF LimitInv, WindowTypes
      <4> QED
        BY <1>1, <1>5, <1>6, <3>2, <4>1, <4>2
    <3> QED
      BY <3>1, <3>2
  <2>2. \A q \in Requests : pc'[q] \in {"lookup", "record"} => Key(q)' \in KeyIds
    BY <1>1 DEF LimitInv, WindowTypes, Key
  <2> QED
    BY <1>1, <1>5, <2>1, <2>2 DEF LimitInv, WindowTypes
<1>8. PeakInv'
  <2>1. peak[k0] \in Nat
    BY <1>1 DEF LimitInv, WindowTypes
  <2> QED
    BY <1>1, <1>3, <1>4, <2>1 DEF LimitInv, PeakInv
<1>9. WindowInv'
  <2> SUFFICES ASSUME NEW k \in DOMAIN fails', Live(k)'
               PROVE  fails'[k].count + Cardinality(UnderWay(k)') < MaxFailures + peak[k]
    BY <1>1 DEF WindowInv
  <2>1. CASE k # k0
    <3>1. k \in DOMAIN fails /\ k \in KeyIds /\ fails'[k] = fails[k] /\ Live(k)
      BY <1>1, <1>5, <2>1 DEF LimitInv, WindowTypes, Live
    <3> QED
      BY <1>3, <2>1, <3>1 DEF LimitInv, WindowInv
  <2>2. CASE k = k0
    <3>1. peak[k0] \in Nat /\ Cardinality(UnderWay(k0)) <= peak[k0]
      BY <1>1 DEF LimitInv, WindowTypes, PeakInv
    <3>2. CASE fails'[k0].count = 1
      BY <1>4, <2>2, <3>1, <3>2, KeysAssumption DEF KeysAssumption
    <3>3. CASE /\ k0 \in DOMAIN fails /\ Live(k0)
               /\ fails'[k0].count = fails[k0].count + 1
      <4>1. /\ fails[k0].count \in Nat
            /\ fails[k0].count + Cardinality(UnderWay(k0)) < MaxFailures + peak[k0]
        BY <3>3 DEF LimitInv, WindowInv, WindowTypes
      <4> QED
        BY <1>4, <2>2, <3>1, <3>3, <4>1, KeysAssumption DEF KeysAssumption
    <3> QED
      BY <1>5, <1>6, <3>2, <3>3
  <2> QED
    BY <2>1, <2>2
<1> QED
  BY <1>7, <1>8, <1>9 DEF LimitInv

\* A restart forgets the windows with all that is under way.
LEMMA RestartKeeps ==
  ASSUME LimitInv, Restart
  PROVE  LimitInv'
<1>1. /\ pc' = [r \in Requests |-> IF InFlight(r) THEN "lost" ELSE pc[r]]
      /\ DOMAIN fails' = {} /\ fails' = [k \in {} |-> NoCall]
      /\ UNCHANGED <<call, now, peak>>
  BY DEF Restart, history
<1>2. \A r \in Requests : pc'[r] \notin {"lookup", "record"}
  BY <1>1 DEF InFlight, Ended
<1>3. \A k : UnderWay(k)' = {}
  BY <1>2 DEF UnderWay
<1>4. \A k : Cardinality(UnderWay(k)') = 0
  BY <1>3, FS_EmptySet
<1>5. WindowTypes'
  BY <1>1, <1>2 DEF LimitInv, WindowTypes
<1>6. PeakInv'
  BY <1>1, <1>4 DEF LimitInv, WindowTypes, PeakInv
<1>7. WindowInv'
  BY <1>1 DEF WindowInv
<1> QED
  BY <1>5, <1>6, <1>7 DEF LimitInv

\* As time passes windows end, and none begins.
LEMMA TickKeeps ==
  ASSUME LimitInv, Tick
  PROVE  LimitInv'
<1>1. now' = now + 1 /\ UNCHANGED <<call, pc, fails, peak>>
  BY DEF Tick, history
<1>2. \A k : UnderWay(k)' = UnderWay(k)
  BY <1>1 DEF UnderWay, Key
<1>3. WindowTypes'
  BY <1>1 DEF LimitInv, WindowTypes, Key
<1>4. \A k \in DOMAIN fails : Live(k)' => Live(k)
  BY <1>1, KeysAssumption DEF LimitInv, WindowTypes, Live, KeysAssumption
<1> QED
  BY <1>1, <1>2, <1>3, <1>4 DEF LimitInv, PeakInv, WindowInv

\* The calls that wait for no validation begin, and the statements that end no
\* validation run, without touching the windows.
LEMMA ReceiveQuiet ==
  ASSUME LimitInv, NEW r \in Requests, NEW c \in Menu, Receive(r, c),
         ~ValidateKey(r, c)
  PROVE  LimitInv'
<1>1. UNCHANGED <<fails, now, peak>>
  BY DEF Receive, GenerateKey, ConsumerKey, RevokeKey, RevokeAll, LogUsage, ForceClean, history
<1>2. PICK step \in {"resolve", "insert", "resolve_provider", "find", "revoke_all",
                     "insert_log", "drop_logs", "error"} : Accept(r, c, step)
  BY DEF Receive, GenerateKey, ConsumerKey, RevokeKey, RevokeAll, LogUsage, ForceClean
<1>3. pc' = [pc EXCEPT ![r] = step] /\ call' = [call EXCEPT ![r] = c]
  BY <1>2 DEF Accept, Goto
<1> QED
  BY <1>1, <1>3, QuietLimit

LEMMA HandleQuiet ==
  ASSUME LimitInv, NEW r \in Requests, Handle(r),
         ~LookUpKey(r), ~RecordFailure(r)
  PROVE  LimitInv'
<1>1. UNCHANGED <<fails, now, peak, call>>
  BY DEF Handle, ResolveProvider, Resolve, InsertKey, ReadFlag, SetFlag, SetFlagFails,
         FindKey, UpdateKey, UpdateAllKeys, Revokes, InsertLog, ResolvePayer, DropLogs, DropKeys,
         DropsKeys, DropTenant, DropPrefs, Drop, RollBack, Commit, DbFails, history, rows
<1>2. PICK step : pc' = [pc EXCEPT ![r] = step] /\ step \notin {"lookup", "record"}
  <2>1. CASE ResolveProvider(r) \/ Resolve(r) \/ InsertKey(r)
    BY <2>1 DEF ResolveProvider, Resolve, InsertKey, Goto
  <2>2. CASE ReadFlag(r) \/ SetFlag(r) \/ SetFlagFails(r)
    BY <2>2 DEF ReadFlag, SetFlag, SetFlagFails, SendsWelcome, Goto
  <2>3. CASE FindKey(r) \/ UpdateKey(r) \/ UpdateAllKeys(r) \/ InsertLog(r) \/ ResolvePayer(r)
    BY <2>3 DEF FindKey, UpdateKey, UpdateAllKeys, Revokes, InsertLog, ResolvePayer, Goto
  <2>4. CASE DropLogs(r) \/ DropKeys(r) \/ DropTenant(r) \/ DropPrefs(r)
    BY <2>4 DEF DropLogs, DropKeys, DropsKeys, DropTenant, DropPrefs, Drop, RollBack, Goto
  <2>5. CASE Commit(r) \/ DbFails(r)
    BY <2>5 DEF Commit, DbFails, Goto
  <2> QED
    BY <2>1, <2>2, <2>3, <2>4, <2>5 DEF Handle
<1> QED
  BY <1>1, <1>2, QuietLimit

LEMMA LimitKept == LimitInv /\ [Next]_vars => LimitInv'
<1> SUFFICES ASSUME LimitInv, [Next]_vars PROVE LimitInv'
  OBVIOUS
<1>1. ASSUME NEW r \in Requests, NEW c \in Menu, Receive(r, c)
      PROVE  LimitInv'
  BY <1>1, ValidateKeeps, ReceiveQuiet
<1>2. ASSUME NEW r \in Requests, Handle(r)
      PROVE  LimitInv'
  BY <1>2, LookUpKeeps, RecordKeeps, HandleQuiet
<1>3. CASE Finished \/ UNCHANGED vars
  <2>1. UNCHANGED <<fails, now, peak, pc, call>>
    BY <1>3 DEF Finished, vars
  <2>2. \A k : UnderWay(k)' = UnderWay(k)
    BY <2>1 DEF UnderWay, Key
  <2>3. WindowTypes'
    BY <2>1 DEF LimitInv, WindowTypes, Key
  <2> QED
    BY <2>1, <2>2, <2>3, FewerKeeps
<1> QED
  BY <1>1, <1>2, <1>3, RestartKeeps, TickKeeps DEF Next

\* The inductive invariant of the failure windows.
THEOREM LimitInductive == Spec => []LimitInv
BY InitLimit, LimitKept, PTL DEF Spec

\* key_validate.rs: one window counts at most the limit and, beyond it, the
\* validations that were under way at once, less one.
THEOREM LimitIsKept == Spec => []LimitHolds
<1>1. LimitInv => LimitHolds
  <2> SUFFICES ASSUME LimitInv, NEW k \in DOMAIN fails, Live(k)
               PROVE  fails[k].count < MaxFailures + peak[k]
    BY DEF LimitHolds
  <2>1. /\ fails[k].count \in Nat /\ peak[k] \in Nat
        /\ fails[k].count + Cardinality(UnderWay(k)) < MaxFailures + peak[k]
    BY DEF LimitInv, WindowTypes, WindowInv
  <2> QED
    BY <2>1, UnderWayFinite, KeysAssumption DEF KeysAssumption
<1> QED
  BY <1>1, LimitInductive, PTL

-----------------------------------------------------------------------------
(* Ended keys.  A key that has ended is gone or not active, and stays so:  *)
(* nothing but the INSERT makes a key active, and that makes a key whose   *)
(* id has never been seen.                                                 *)

\* The request has not come past its INSERT.
Early == {"idle", "resolve_provider", "resolve", "insert"}
IssuedIds == DOMAIN Opening \cup {r \in Requests : pc[r] \notin Early}

EndedInv ==
  /\ pc = [r \in Requests |-> pc[r]]
  /\ call = [r \in Requests |-> call[r]]
  /\ keys = [k \in DOMAIN keys |-> keys[k]]
  /\ DOMAIN keys \subseteq IssuedIds
  /\ ended \subseteq IssuedIds
  /\ \A k \in ended \cap DOMAIN keys : ~keys[k].active
  /\ \A k \in DOMAIN keys :
       keys[k] = [owner |-> keys[k].owner, tenant |-> keys[k].tenant,
                  provider |-> keys[k].provider,
                  expires |-> keys[k].expires, active |-> keys[k].active]
  /\ \A r \in Requests : pc[r] = "revoke" =>
       /\ Key(r) \in IssuedIds
       /\ Key(r) \in DOMAIN keys => keys[Key(r)].tenant = call[r].user

LEMMA InitEnded == Init => EndedInv
BY KeysAssumption DEF Init, EndedInv, IssuedIds, Early, KeysAssumption, KeyRecord

\* A request leaves the statements up to the INSERT once.
LEMMA IssuedGrow ==
  ASSUME pc = [q \in Requests |-> pc[q]], NEW r \in Requests, NEW step,
         pc' = [pc EXCEPT ![r] = step],
         pc[r] \in Early \/ step \notin Early
  PROVE  /\ pc' = [q \in Requests |-> pc'[q]]
         /\ \A q \in Requests \ {r} : pc'[q] = pc[q]
         /\ pc'[r] = step
         /\ IssuedIds \subseteq IssuedIds'
BY DEF IssuedIds

\* Most steps change no key and move one request, which revokes nothing next.
LEMMA QuietEnded ==
  ASSUME EndedInv, NEW r \in Requests, NEW step,
         UNCHANGED <<keys, ended>>,
         pc' = [pc EXCEPT ![r] = step], step # "revoke",
         pc[r] \in Early \/ step \notin Early,
         \/ UNCHANGED call
         \/ \E c : call' = [call EXCEPT ![r] = c]
  PROVE  EndedInv'
<1>1. /\ pc' = [q \in Requests |-> pc'[q]]
      /\ \A q \in Requests \ {r} : pc'[q] = pc[q]
      /\ pc'[r] = step
      /\ IssuedIds \subseteq IssuedIds'
  BY IssuedGrow DEF EndedInv
<1>2. /\ call' = [q \in Requests |-> call'[q]]
      /\ \A q \in Requests \ {r} : call'[q] = call[q]
  BY DEF EndedInv
<1>3. \A q \in Requests : pc'[q] = "revoke" =>
        /\ Key(q)' \in IssuedIds'
        /\ Key(q)' \in DOMAIN keys => keys[Key(q)'].tenant = call'[q].user
  BY <1>1, <1>2 DEF EndedInv, Key
<1> QED
  BY <1>1, <1>2, <1>3 DEF EndedInv

\* A key that is found to be revoked has been issued and is the tenant's.
LEMMA FindKeyEnded ==
  ASSUME EndedInv, NEW r \in Requests, FindKey(r)
  PROVE  EndedInv'
<1>1. UNCHANGED <<keys, ended, call>> /\ pc[r] = "find"
  BY DEF FindKey, rows, history
<1>2. CASE OfTenant(Key(r), call[r].user) /\ keys[Key(r)].active
  <2>1. pc' = [pc EXCEPT ![r] = "revoke"]
    BY <1>2 DEF FindKey, Goto
  <2>2. /\ pc' = [q \in Requests |-> pc'[q]]
        /\ \A q \in Requests \ {r} : pc'[q] = pc[q]
        /\ IssuedIds \subseteq IssuedIds'
    BY <2>1, IssuedGrow DEF EndedInv, Early
  <2>3. \A q \in Requests : pc'[q] = "revoke" =>
          /\ Key(q) \in IssuedIds'
          /\ Key(q) \in DOMAIN keys => keys[Key(q)].tenant = call[q].user
    BY <1>2, <2>2 DEF EndedInv, OfTenant
  <2> QED
    BY <1>1, <2>2, <2>3 DEF EndedInv, Key
<1>3. CASE ~(OfTenant(Key(r), call[r].user) /\ keys[Key(r)].active)
  BY <1>1, <1>3, QuietEnded DEF FindKey, Goto, Early
<1> QED
  BY <1>2, <1>3

\* The INSERT makes a key that nobody can have ended.
LEMMA InsertKeyEnded ==
  ASSUME EndedInv, NEW r \in Requests, InsertKey(r)
  PROVE  EndedInv'
<1>1. UNCHANGED <<ended, call>> /\ pc[r] = "insert"
  BY DEF InsertKey, history
<1>2. CASE HasOwner(r) /\ HasProvider(r)
  <2>1. PICK step \in {"read_flag", "ok"} : pc' = [pc EXCEPT ![r] = step]
    BY <1>2 DEF InsertKey, Goto
  <2>2. /\ pc' = [q \in Requests |-> pc'[q]]
        /\ \A q \in Requests \ {r} : pc'[q] = pc[q]
        /\ pc'[r] = step
        /\ IssuedIds \subseteq IssuedIds'
    BY <2>1, IssuedGrow DEF EndedInv, Early
  <2>3. r \in IssuedIds' /\ r \notin IssuedIds
    BY <1>1, <2>2, KeysAssumption DEF IssuedIds, Early, KeysAssumption
  <2>4. keys' = With(keys, r, IssuedKey(r))
    BY <1>2 DEF InsertKey
  <2>5. /\ keys' = [k \in DOMAIN keys' |-> keys'[k]]
        /\ DOMAIN keys' = DOMAIN keys \cup {r}
        /\ keys'[r] = IssuedKey(r)
        /\ \A k \in DOMAIN keys : k # r /\ keys'[k] = keys[k]
    BY <2>3, <2>4 DEF With, EndedInv
  <2>6. IssuedKey(r) =
          [owner |-> IssuedKey(r).owner, tenant |-> IssuedKey(r).tenant,
           provider |-> IssuedKey(r).provider,
           expires |-> IssuedKey(r).expires, active |-> IssuedKey(r).active]
    BY DEF IssuedKey
  <2>7. \A q \in Requests : pc'[q] = "revoke" =>
          /\ Key(q) \in IssuedIds'
          /\ Key(q) \in DOMAIN keys' => keys'[Key(q)].tenant = call[q].user
    BY <2>2, <2>3, <2>5 DEF EndedInv
  <2>8. \A k \in ended \cap DOMAIN keys' : ~keys'[k].active
    BY <2>3, <2>5 DEF EndedInv
  <2>9. /\ DOMAIN keys' \subseteq IssuedIds'
        /\ ended \subseteq IssuedIds'
    BY <2>2, <2>3, <2>5 DEF EndedInv
  <2>10. \A k \in DOMAIN keys' :
           keys'[k] = [owner |-> keys'[k].owner, tenant |-> keys'[k].tenant,
                       provider |-> keys'[k].provider,
                       expires |-> keys'[k].expires, active |-> keys'[k].active]
    BY <2>5, <2>6 DEF EndedInv
  <2> QED
    BY <1>1, <2>2, <2>5, <2>7, <2>8, <2>9, <2>10 DEF EndedInv, Key
<1>3. CASE ~(HasOwner(r) /\ HasProvider(r))
  <2>1. pc' = [pc EXCEPT ![r] = "error"] /\ UNCHANGED keys
    BY <1>3 DEF InsertKey, Goto
  <2> QED
    BY <1>1, <2>1, QuietEnded DEF Early
<1> QED
  BY <1>2, <1>3

\* A revocation ends the keys it makes inactive, and others that are gone.
LEMMA RevokesEnded ==
  ASSUME EndedInv, NEW r \in Requests, NEW some, Revokes(r, some),
         pc[r] \in {"revoke", "revoke_all"},
         ended' \subseteq IssuedIds,
         ended' \cap DOMAIN keys \subseteq ended \cup some
  PROVE  EndedInv'
<1>1. /\ pc' = [pc EXCEPT ![r] = "ok"] /\ UNCHANGED call
      /\ keys' = [k \in DOMAIN keys |->
                    IF k \in some THEN [keys[k] EXCEPT !.active = FALSE] ELSE keys[k]]
  BY DEF Revokes, Goto
<1>2. /\ pc' = [q \in Requests |-> pc'[q]]
      /\ \A q \in Requests \ {r} : pc'[q] = pc[q]
      /\ pc'[r] = "ok"
      /\ IssuedIds \subseteq IssuedIds'
  BY <1>1, IssuedGrow DEF EndedInv, Early
<1>3. \A k \in DOMAIN keys :
        /\ keys'[k] = [owner |-> keys'[k].owner, tenant |-> keys'[k].tenant,
                       provider |-> keys'[k].provider,
                       expires |-> keys'[k].expires, active |-> keys'[k].active]
        /\ keys'[k].tenant = keys[k].tenant
        /\ k \in some => ~keys'[k].active
        /\ k \notin some => keys'[k] = keys[k]
  <2> SUFFICES ASSUME NEW k \in DOMAIN keys, NEW row, row = keys'[k]
               PROVE  /\ row = [owner |-> row.owner, tenant |-> row.tenant,
                                provider |-> row.provider,
                                expires |-> row.expires, active |-> row.active]
                      /\ row.tenant = keys[k].tenant
                      /\ k \in some => ~row.active
                      /\ k \notin some => row = keys[k]
    OBVIOUS
  <2>1. PICK old : old = keys[k]
    OBVIOUS
  <2>2. old = [owner |-> old.owner, tenant |-> old.tenant, provider |-> old.provider,
               expires |-> old.expires, active |-> old.active]
    BY <2>1 DEF EndedInv
  <2>3. CASE k \in some
    <3>1. row = [old EXCEPT !.active = FALSE]
      BY <1>1, <2>1, <2>3
    <3>2. row = [owner |-> old.owner, tenant |-> old.tenant, provider |-> old.provider,
                 expires |-> old.expires, active |-> FALSE]
      BY <2>2, <3>1
    <3>3. /\ row.owner = old.owner /\ row.tenant = old.tenant /\ row.provider = old.provider
          /\ row.expires = old.expires /\ row.active = FALSE
      BY <3>2
    <3> QED
      BY <2>1, <2>3, <3>2, <3>3
  <2>4. CASE k \notin some
    BY <1>1, <2>1, <2>2, <2>4
  <2> QED
    BY <2>3, <2>4
<1>4. keys' = [k \in DOMAIN keys' |-> keys'[k]] /\ DOMAIN keys' = DOMAIN keys
  BY <1>1
<1>5. \A k \in ended' \cap DOMAIN keys : ~keys'[k].active
  <2> SUFFICES ASSUME NEW k \in DOMAIN keys, k \in ended'
               PROVE  ~keys'[k].active
    OBVIOUS
  <2>1. CASE k \in some
    BY <1>3, <2>1
  <2>2. CASE k \notin some
    <3>1. k \in ended
      BY <2>2
    <3>2. ~keys[k].active
      BY <3>1 DEF EndedInv
    <3> QED
      BY <1>3, <2>2, <3>2
  <2> QED
    BY <2>1, <2>2
<1>6. \A q \in Requests : pc'[q] = "revoke" =>
        /\ Key(q) \in IssuedIds'
        /\ Key(q) \in DOMAIN keys => keys'[Key(q)].tenant = call[q].user
  BY <1>2, <1>3 DEF EndedInv
<1>7. /\ DOMAIN keys \subseteq IssuedIds'
      /\ ended' \subseteq IssuedIds'
  BY <1>2 DEF EndedInv
<1>8. /\ \A k \in ended' \cap DOMAIN keys' : ~keys'[k].active
      /\ DOMAIN keys' \subseteq IssuedIds'
  BY <1>4, <1>5, <1>7
<1>9. \A k \in DOMAIN keys' :
        keys'[k] = [owner |-> keys'[k].owner, tenant |-> keys'[k].tenant,
                    provider |-> keys'[k].provider,
                    expires |-> keys'[k].expires, active |-> keys'[k].active]
  <2> SUFFICES ASSUME NEW k \in DOMAIN keys
               PROVE  keys'[k] = [owner |-> keys'[k].owner, tenant |-> keys'[k].tenant,
                        provider |-> keys'[k].provider,
                        expires |-> keys'[k].expires, active |-> keys'[k].active]
    BY <1>4
  <2> QED
    BY <1>3
<1>10. \A q \in Requests : pc'[q] = "revoke" =>
         /\ Key(q) \in IssuedIds'
         /\ Key(q) \in DOMAIN keys' => keys'[Key(q)].tenant = call[q].user
  BY <1>4, <1>6
<1>11. \A q \in Requests : pc'[q] = "revoke" =>
         /\ Key(q)' \in IssuedIds'
         /\ Key(q)' \in DOMAIN keys' => keys'[Key(q)'].tenant = call'[q].user
  BY <1>1, <1>10 DEF Key
<1>12. call' = [q \in Requests |-> call'[q]]
  BY <1>1 DEF EndedInv
<1> QED
  BY <1>2, <1>4, <1>7, <1>8, <1>9, <1>11, <1>12 DEF EndedInv

\* A removal ends the keys it deletes.
LEMMA CommitEnded ==
  ASSUME EndedInv, NEW r \in Requests, Commit(r)
  PROVE  EndedInv'
<1>1. PICK dropped \in SUBSET DOMAIN keys :
        keys' = Without(keys, dropped) /\ ended' = ended \cup dropped
  BY DEF Commit
<1>2. pc' = [pc EXCEPT ![r] = "ok"] /\ UNCHANGED call
  BY DEF Commit, Goto
<1>3. /\ pc' = [q \in Requests |-> pc'[q]]
      /\ \A q \in Requests \ {r} : pc'[q] = pc[q]
      /\ pc'[r] = "ok"
      /\ IssuedIds \subseteq IssuedIds'
  BY <1>2, IssuedGrow DEF EndedInv, Early
<1>4. /\ keys' = [k \in DOMAIN keys' |-> keys'[k]]
      /\ DOMAIN keys' = DOMAIN keys \ dropped
      /\ \A k \in DOMAIN keys' : keys'[k] = keys[k]
  BY <1>1 DEF Without
<1>5. \A q \in Requests : pc'[q] = "revoke" =>
        /\ Key(q) \in IssuedIds'
        /\ Key(q) \in DOMAIN keys' => keys'[Key(q)].tenant = call[q].user
  BY <1>3, <1>4 DEF EndedInv
<1>6. /\ DOMAIN keys' \subseteq IssuedIds'
      /\ ended' \subseteq IssuedIds'
      /\ \A k \in ended' \cap DOMAIN keys' : ~keys'[k].active
  BY <1>1, <1>3, <1>4 DEF EndedInv
<1>7. \A k \in DOMAIN keys' :
        keys'[k] = [owner |-> keys'[k].owner, tenant |-> keys'[k].tenant,
                    provider |-> keys'[k].provider,
                    expires |-> keys'[k].expires, active |-> keys'[k].active]
  BY <1>4 DEF EndedInv
<1> QED
  BY <1>2, <1>3, <1>4, <1>5, <1>6, <1>7 DEF EndedInv, Key

\* A restart moves requests to where they revoke nothing and issue nothing.
LEMMA RestartEnded ==
  ASSUME EndedInv, Restart
  PROVE  EndedInv'
<1>1. /\ pc' = [r \in Requests |-> IF InFlight(r) THEN "lost" ELSE pc[r]]
      /\ UNCHANGED <<keys, ended, call>>
  BY DEF Restart, rows, history
<1>2. IssuedIds \subseteq IssuedIds'
  BY <1>1 DEF IssuedIds, Early
<1>3. \A q \in Requests : pc'[q] # "revoke"
  BY <1>1 DEF InFlight, Ended
<1> QED
  BY <1>1, <1>2, <1>3 DEF EndedInv

\* What a request is received with revokes nothing yet.
LEMMA ReceiveEnded ==
  ASSUME EndedInv, NEW r \in Requests, NEW c \in Menu, Receive(r, c)
  PROVE  EndedInv'
<1>1. UNCHANGED <<keys, ended>>
  BY DEF Receive, GenerateKey, ConsumerKey, RevokeKey, RevokeAll, ValidateKey, LogUsage,
         ForceClean, rows, history
<1>2. PICK step : Accept(r, c, step) /\ step # "revoke"
  BY DEF Receive, GenerateKey, ConsumerKey, RevokeKey, RevokeAll, ValidateKey, LogUsage,
         ForceClean
<1>3. /\ pc[r] \in Early
      /\ pc' = [pc EXCEPT ![r] = step]
      /\ call' = [call EXCEPT ![r] = c]
  BY <1>2 DEF Accept, Goto, Early
<1> QED
  BY <1>1, <1>2, <1>3, QuietEnded

\* The key that is revoked is the tenant's, if it is still there.
LEMMA UpdateKeyEnded ==
  ASSUME EndedInv, NEW r \in Requests, UpdateKey(r)
  PROVE  EndedInv'
<1> DEFINE some == {k \in {Key(r)} : OfTenant(k, call[r].user)}
<1>1. Revokes(r, some) /\ ended' = ended \cup {Key(r)} /\ pc[r] = "revoke"
  BY DEF UpdateKey
<1>2. PICK k0, some0 : k0 = Key(r) /\ some0 = some
  OBVIOUS
<1>3. /\ k0 \in IssuedIds
      /\ k0 \in DOMAIN keys => k0 \in some0
  BY <1>1, <1>2 DEF EndedInv, OfTenant
<1>4. /\ ended' \subseteq IssuedIds
      /\ ended' \cap DOMAIN keys \subseteq ended \cup some0
  BY <1>1, <1>2, <1>3 DEF EndedInv
<1>5. Revokes(r, some0)
  BY <1>1, <1>2
<1> QED
  BY <1>1, <1>4, <1>5, RevokesEnded

\* All the tenant's keys are there and become inactive.
LEMMA UpdateAllKeysEnded ==
  ASSUME EndedInv, NEW r \in Requests, UpdateAllKeys(r)
  PROVE  EndedInv'
<1> DEFINE some == {k \in DOMAIN keys : OfTenant(k, call[r].user)}
<1>1. /\ Revokes(r, some) /\ pc[r] = "revoke_all"
      /\ ended' = ended \cup {k \in DOMAIN keys : keys[k].tenant = call[r].user}
  BY DEF UpdateAllKeys
<1>2. PICK some0 : some0 = some
  OBVIOUS
<1>3. /\ ended' \subseteq IssuedIds
      /\ ended' \cap DOMAIN keys \subseteq ended \cup some0
  BY <1>1, <1>2 DEF EndedInv, OfTenant
<1>4. Revokes(r, some0)
  BY <1>1, <1>2
<1> QED
  BY <1>1, <1>3, <1>4, RevokesEnded

\* The other statements change no key.
LEMMA HandleEnded ==
  ASSUME EndedInv, NEW r \in Requests, Handle(r),
         ~InsertKey(r), ~FindKey(r), ~UpdateKey(r), ~UpdateAllKeys(r), ~Commit(r)
  PROVE  EndedInv'
<1>1. UNCHANGED <<keys, ended, call>>
  BY DEF Handle, ResolveProvider, Resolve, ReadFlag, SetFlag, SetFlagFails, LookUpKey,
         RecordFailure, InsertLog, ResolvePayer, DropLogs, DropKeys, DropsKeys, DropTenant,
         DropPrefs, Drop, RollBack,
         DbFails, history, rows
<1>2. PICK step : /\ pc' = [pc EXCEPT ![r] = step] /\ step # "revoke"
                  /\ pc[r] \in Early \/ step \notin Early
  <2>1. CASE ResolveProvider(r) \/ Resolve(r)
    BY <2>1 DEF ResolveProvider, Resolve, Goto, Early
  <2>2. CASE ReadFlag(r) \/ SetFlag(r) \/ SetFlagFails(r)
    BY <2>2 DEF ReadFlag, SetFlag, SetFlagFails, SendsWelcome, Goto, Early
  <2>3. CASE LookUpKey(r) \/ RecordFailure(r) \/ InsertLog(r) \/ ResolvePayer(r)
    BY <2>3 DEF LookUpKey, RecordFailure, InsertLog, ResolvePayer, Goto, Early
  <2>4. CASE DropLogs(r) \/ DropKeys(r) \/ DropTenant(r) \/ DropPrefs(r)
    BY <2>4 DEF DropLogs, DropKeys, DropsKeys, DropTenant, DropPrefs, Drop, RollBack, Goto, Early
  <2>5. CASE DbFails(r)
    <3>1. PICK step \in {"ok", "error"} : pc' = [pc EXCEPT ![r] = step]
      BY <2>5 DEF DbFails, Goto
    <3> QED
      BY <3>1 DEF Early
  <2> QED
    BY <2>1, <2>2, <2>3, <2>4, <2>5 DEF Handle
<1> QED
  BY <1>1, <1>2, QuietEnded

LEMMA EndedKept == EndedInv /\ [Next]_vars => EndedInv'
<1> SUFFICES ASSUME EndedInv, [Next]_vars PROVE EndedInv'
  OBVIOUS
<1>1. ASSUME NEW r \in Requests, NEW c \in Menu, Receive(r, c)
      PROVE  EndedInv'
  BY <1>1, ReceiveEnded
<1>2. ASSUME NEW r \in Requests, Handle(r)
      PROVE  EndedInv'
  BY <1>2, InsertKeyEnded, FindKeyEnded, UpdateKeyEnded, UpdateAllKeysEnded, CommitEnded,
     HandleEnded
<1>3. CASE Restart
  BY <1>3, RestartEnded
<1>4. CASE UNCHANGED <<keys, ended, pc, call>>
  BY <1>4 DEF EndedInv, IssuedIds, Key
<1>5. CASE Tick \/ Finished \/ UNCHANGED vars
  BY <1>4, <1>5 DEF Tick, Finished, vars, rows, history
<1> QED
  BY <1>1, <1>2, <1>3, <1>5 DEF Next

\* A key that a call has ended is gone or inactive ever after, because an
\* INSERT uses an id that no key has had (key_generate.rs, key_revoke.rs,
\* cleanup.rs).
THEOREM EndedInductive == Spec => []EndedInv
<1>1. Init => EndedInv
  BY InitEnded
<1> QED
  BY <1>1, EndedKept, PTL DEF Spec

\* Only a validation that has found its key accepts it.
LEMMA AcceptedIsFound ==
  ASSUME EndedInv, [Next]_vars, NEW r \in Requests,
         pc[r] = "lookup", pc'[r] = "accepted"
  PROVE  FindsKey(r)
<1>1. \A q \in Requests : \A step : pc' = [pc EXCEPT ![q] = step] =>
        q = r /\ step = "accepted"
  BY DEF EndedInv
<1>2. ASSUME NEW q \in Requests, NEW c \in Menu, Receive(q, c)
      PROVE  FALSE
  <2>1. PICK step : Accept(q, c, step)
    BY <1>2 DEF Receive, GenerateKey, ConsumerKey, RevokeKey, RevokeAll, ValidateKey,
                LogUsage, ForceClean
  <2> QED
    BY <1>1, <2>1 DEF Accept, Goto
<1>3. ASSUME NEW q \in Requests, Handle(q)
      PROVE  FindsKey(r)
  <2>1. PICK step : pc' = [pc EXCEPT ![q] = step]
    BY <1>3 DEF Handle, ResolveProvider, Resolve, InsertKey, ReadFlag, SetFlag,
                SetFlagFails, SendsWelcome, FindKey, UpdateKey, UpdateAllKeys, Revokes,
                LookUpKey, RecordFailure, InsertLog, ResolvePayer, DropLogs, DropKeys, DropsKeys,
                DropTenant, DropPrefs, Drop, RollBack, Commit, DbFails, Goto
  <2>2. q = r
    BY <1>1, <2>1
  <2>3. LookUpKey(r) \/ DbFails(r)
    BY <1>3, <2>2 DEF Handle, ResolveProvider, Resolve, InsertKey, ReadFlag, SetFlag,
                SetFlagFails, FindKey, UpdateKey, UpdateAllKeys, RecordFailure, InsertLog, ResolvePayer,
                DropLogs, DropKeys, DropTenant, DropPrefs, Commit
  <2>4. ~DbFails(r)
    BY <1>1 DEF DbFails, Goto
  <2>5. pc' = [pc EXCEPT ![r] = IF FindsKey(r) THEN "accepted" ELSE "record"]
    BY <2>3, <2>4 DEF LookUpKey, Goto
  <2>6. (IF FindsKey(r) THEN "accepted" ELSE "record") = "accepted"
    BY <1>1, <2>5
  <2> QED
    BY <2>6
<1>4. ~Restart
  BY DEF Restart, EndedInv, InFlight, Ended
<1>5. ~(UNCHANGED pc)
  OBVIOUS
<1> QED
  BY <1>2, <1>3, <1>4, <1>5 DEF Next, Tick, Finished, vars

\* No validation that comes to the database after a call has ended a key
\* accepts it (key_validate.rs, api_key_management.rs).
THEOREM EndedStaysRefused == Spec => EndedIsRefused
<1>1. ASSUME EndedInv, [Next]_vars, NEW r \in Requests,
             pc[r] = "lookup", pc'[r] = "accepted"
      PROVE  Key(r) \notin ended
  <2>1. FindsKey(r)
    BY <1>1, AcceptedIsFound
  <2>2. Key(r) \in DOMAIN keys /\ keys[Key(r)].active
    BY <2>1 DEF FindsKey
  <2>3. \A k \in ended \cap DOMAIN keys : ~keys[k].active
    BY <1>1 DEF EndedInv
  <2> QED
    BY <2>2, <2>3
<1>2. EndedInv /\ [Next]_vars =>
        [\A r \in Requests :
           pc[r] = "lookup" /\ pc'[r] = "accepted" => Key(r) \notin ended]_vars
  BY <1>1
<1> QED
  BY <1>2, EndedInductive, PTL DEF Spec, EndedIsRefused

-----------------------------------------------------------------------------
(* The kinds of the variables.  They depend on which call is at which       *)
(* statement (Located); only a removal has deleted what is not committed.   *)

RowKeys ==
  {KeyRow(k) : k \in KeyIds} \cup {LogRow(q) : q \in Requests}
    \cup {PrefsRow(u) : u \in Users} \cup {TenantRow(u) : u \in Users}

Dropping == {"drop_logs", "drop_keys", "drop_tenant_logs", "drop_tenant_keys",
             "drop_tenant", "drop_prefs", "commit"}

\* Which call comes to a statement, and what it may have deleted there.
LocatedAt(step, c, deleted) ==
  /\ step # "idle" => c \in Menu
  /\ step = "resolve_provider" => c.op = "consumer"
  /\ step = "resolve" => c.op \in {"generate", "consumer", "revoke", "revoke_all"}
  /\ step = "insert" => c.op \in {"generate", "consumer"}
  /\ step \in {"read_flag", "set_flag"} => c.op = "generate"
  /\ step \in {"find", "revoke"} => c.op = "revoke"
  /\ step = "revoke_all" => c.op = "revoke_all"
  /\ step \in {"lookup", "record"} => c.op = "validate"
  /\ step \in {"insert_log", "resolve_payer"} => c.op = "log"
  /\ step \in Dropping => c.op = "remove"
  /\ deleted # {} => step \in Dropping

Located(r) == LocatedAt(pc[r], call[r], gone[r])

PlaceInv ==
  /\ pc = [r \in Requests |-> pc[r]]
  /\ call \in [Requests -> Menu \cup {NoCall}]
  /\ gone \in [Requests -> SUBSET RowKeys]
  /\ \A r \in Requests : Located(r)

KeyTypes == TypeOK /\ PlaceInv

LEMMA MenuFacts ==
  ASSUME NEW c \in Menu
  PROVE  /\ c.op # "validate" => c.user \in Users
         /\ c.op \in {"revoke", "validate", "log"} => c.key \in KeyIds
         /\ c.op \in {"generate", "consumer"} => c.provider \in Users \cup {Nobody}
         /\ c.op = "consumer" => c.provider \in Users
         /\ c.op \in {"generate", "log"} => c.tenant \in Users \cup {Nobody}
<1>1. c \in Calls
  BY KeysAssumption DEF KeysAssumption
<1>2. CASE c \in [op : {"generate"}, user : Users,
                  tenant : Users \cup {Nobody}, provider : Users \cup {Nobody}]
  BY <1>2
<1>3. CASE c \in [op : {"consumer"}, user : Users, provider : Users]
  BY <1>3
<1>4. CASE c \in [op : {"revoke"}, user : Users, key : KeyIds]
  BY <1>4
<1>5. CASE c \in [op : {"revoke_all", "remove"}, user : Users]
  BY <1>5
<1>6. CASE c \in [op : {"validate"}, key : KeyIds, genuine : BOOLEAN, tenant : Users \cup {Nobody}]
  BY <1>6
<1>7. CASE c \in [op : {"log"}, user : Users, key : KeyIds, tenant : Users \cup {Nobody}]
  BY <1>7
<1> QED
  BY <1>1, <1>2, <1>3, <1>4, <1>5, <1>6, <1>7 DEF Calls

\* Whatever is not tied to a statement may come to it from anywhere.
LEMMA EndIsLocated ==
  ASSUME NEW c \in Menu, NEW step \in Ended
  PROVE  LocatedAt(step, c, {})
BY DEF LocatedAt, Ended, Dropping

\* A step of one request.
LEMMA OneIsPlaced ==
  ASSUME PlaceInv, NEW r \in Requests, NEW step, NEW c \in Menu, NEW deleted \in SUBSET RowKeys,
         pc' = [pc EXCEPT ![r] = step],
         call' = [call EXCEPT ![r] = c],
         gone' = [gone EXCEPT ![r] = deleted],
         LocatedAt(step, c, deleted)
  PROVE  PlaceInv'
<1>1. /\ pc' = [q \in Requests |-> pc'[q]]
      /\ call' \in [Requests -> Menu \cup {NoCall}]
      /\ gone' \in [Requests -> SUBSET RowKeys]
  BY DEF PlaceInv
<1>2. /\ pc'[r] = step /\ call'[r] = c /\ gone'[r] = deleted
      /\ \A q \in Requests \ {r} : pc'[q] = pc[q] /\ call'[q] = call[q] /\ gone'[q] = gone[q]
  BY DEF PlaceInv
<1>3. \A q \in Requests : LocatedAt(pc'[q], call'[q], gone'[q])
  BY <1>2 DEF PlaceInv, Located
<1> QED
  BY <1>1, <1>3 DEF PlaceInv, Located

\* A statement that deletes nothing.
LEMMA StepIsPlaced ==
  ASSUME PlaceInv, NEW r \in Requests, NEW step,
         pc[r] # "idle", pc[r] \notin Dropping,
         pc' = [pc EXCEPT ![r] = step], UNCHANGED <<call, gone>>,
         LocatedAt(step, call[r], {})
  PROVE  PlaceInv'
<1>1. gone[r] = {} /\ call[r] \in Menu
  BY DEF PlaceInv, Located, LocatedAt
<1>2. call' = [call EXCEPT ![r] = call[r]] /\ gone' = [gone EXCEPT ![r] = {}]
  BY <1>1 DEF PlaceInv
<1> QED
  BY <1>1, <1>2, OneIsPlaced

LEMMA ReceiveIsPlaced ==
  ASSUME PlaceInv, NEW r \in Requests, NEW c \in Menu, Receive(r, c)
  PROVE  PlaceInv'
<1>1. PICK step : Accept(r, c, step) /\ LocatedAt(step, c, {})
  <2>1. CASE GenerateKey(r, c)
    BY <2>1 DEF GenerateKey, LocatedAt, Dropping
  <2>2. CASE ConsumerKey(r, c)
    BY <2>2 DEF ConsumerKey, LocatedAt, Dropping
  <2>3. CASE RevokeKey(r, c) \/ RevokeAll(r, c)
    BY <2>3 DEF RevokeKey, RevokeAll, LocatedAt, Dropping
  <2>4. CASE ValidateKey(r, c)
    BY <2>4 DEF ValidateKey, LocatedAt, Dropping
  <2>5. CASE LogUsage(r, c) \/ ForceClean(r, c)
    BY <2>5 DEF LogUsage, ForceClean, LocatedAt, Dropping
  <2> QED
    BY <2>1, <2>2, <2>3, <2>4, <2>5 DEF Receive
<1>2. gone' = gone
  BY DEF Receive, GenerateKey, ConsumerKey, RevokeKey, RevokeAll, ValidateKey, LogUsage, ForceClean
<1>3. gone[r] = {}
  BY <1>1 DEF Accept, PlaceInv, Located, LocatedAt, Dropping
<1>4. gone' = [gone EXCEPT ![r] = {}]
  BY <1>2, <1>3 DEF PlaceInv
<1>5. pc' = [pc EXCEPT ![r] = step] /\ call' = [call EXCEPT ![r] = c]
  BY <1>1 DEF Accept, Goto
<1> QED
  BY <1>1, <1>4, <1>5, OneIsPlaced

\* The rows a statement of a removal deletes.
LEMMA DropIsPlaced ==
  ASSUME PlaceInv, NEW r \in Requests, NEW some \in SUBSET RowKeys, NEW step \in Dropping,
         pc[r] \in Dropping, Drop(r, some, step)
  PROVE  PlaceInv'
<1>1. call[r] \in Menu /\ call[r].op = "remove" /\ gone[r] \in SUBSET RowKeys
  BY DEF PlaceInv, Located, LocatedAt, Dropping
<1>2. PICK deleted \in SUBSET RowKeys : deleted = gone[r] \cup some
  BY <1>1
<1>3. /\ pc' = [pc EXCEPT ![r] = step]
      /\ call' = [call EXCEPT ![r] = call[r]]
      /\ gone' = [gone EXCEPT ![r] = deleted]
  BY <1>2 DEF Drop, Goto, PlaceInv
<1>4. LocatedAt(step, call[r], deleted)
  BY <1>1 DEF LocatedAt, Dropping
<1>5. PICK c \in Menu : c = call[r]
  BY <1>1
<1> QED
  BY <1>3, <1>4, <1>5, OneIsPlaced

\* A request that ends with nothing deleted, or has committed it.
LEMMA EndsPlaced ==
  ASSUME PlaceInv, NEW r \in Requests, NEW step \in Ended, pc[r] # "idle",
         pc' = [pc EXCEPT ![r] = step], UNCHANGED call, gone' = [gone EXCEPT ![r] = {}]
  PROVE  PlaceInv'
<1>1. PICK c \in Menu : c = call[r]
  BY DEF PlaceInv, Located, LocatedAt
<1>2. call' = [call EXCEPT ![r] = c]
  BY <1>1 DEF PlaceInv
<1>3. LocatedAt(step, c, {})
  BY EndIsLocated
<1> QED
  BY <1>2, <1>3, OneIsPlaced

LEMMA RemovalIsPlaced ==
  ASSUME TypeOK, PlaceInv, NEW r \in Requests,
         DropLogs(r) \/ DropKeys(r) \/ DropTenant(r) \/ DropPrefs(r)
  PROVE  PlaceInv'
<1>1. \A some : LogsOf(some) \subseteq DOMAIN logs
  BY DEF LogsOf
<1>2. pc[r] \in Dropping
  BY DEF DropLogs, DropKeys, DropTenant, DropPrefs, Dropping
<1>3. CASE \E some \in SUBSET RowKeys, step \in Dropping : Drop(r, some, step)
  BY <1>2, <1>3, DropIsPlaced
<1>4. CASE RollBack(r)
  BY <1>2, <1>4, EndsPlaced DEF RollBack, Goto, Ended, Dropping
<1>5. CASE DropLogs(r)
  <2>1. \A q \in DOMAIN logs : LogRow(q) \in RowKeys
    BY DEF TypeOK, RowKeys
  <2>2. PICK some \in SUBSET RowKeys, step \in Dropping : Drop(r, some, step)
    BY <1>5, <2>1 DEF DropLogs, Dropping
  <2> QED
    BY <1>3, <2>2
<1>6. CASE DropKeys(r)
  <2>1. \A k \in DOMAIN keys : KeyRow(k) \in RowKeys
    BY DEF TypeOK, RowKeys
  <2>2. PICK some \in SUBSET DOMAIN keys, step \in Dropping : DropsKeys(r, some, step)
    BY <1>6 DEF DropKeys, Dropping
  <2>3. {KeyRow(k) : k \in some} \in SUBSET RowKeys
    BY <2>1
  <2>4. Drop(r, {KeyRow(k) : k \in some}, step) \/ RollBack(r)
    BY <2>2 DEF DropsKeys
  <2> QED
    BY <1>3, <1>4, <2>3, <2>4
<1>7. CASE DropTenant(r)
  <2>1. {TenantRow(u) : u \in tenants \cap {call[r].user}} \in SUBSET RowKeys
    BY DEF TypeOK, RowKeys
  <2>2. "drop_prefs" \in Dropping
    BY DEF Dropping
  <2>3. Drop(r, {TenantRow(u) : u \in tenants \cap {call[r].user}}, "drop_prefs") \/ RollBack(r)
    BY <1>7 DEF DropTenant
  <2> QED
    BY <1>3, <1>4, <2>1, <2>2, <2>3
<1>8. CASE DropPrefs(r)
  <2>1. {PrefsRow(u) : u \in DOMAIN prefs \cap {call[r].user}} \in SUBSET RowKeys
    BY DEF TypeOK, RowKeys
  <2>2. "commit" \in Dropping
    BY DEF Dropping
  <2>3. Drop(r, {PrefsRow(u) : u \in DOMAIN prefs \cap {call[r].user}}, "commit") \/ RollBack(r)
    BY <1>8 DEF DropPrefs
  <2> QED
    BY <1>3, <1>4, <2>1, <2>2, <2>3
<1> QED
  BY <1>5, <1>6, <1>7, <1>8

LEMMA HandleIsPlaced ==
  ASSUME TypeOK, PlaceInv, NEW r \in Requests, Handle(r)
  PROVE  PlaceInv'
<1>1. pc[r] # "idle" => call[r] \in Menu
  BY DEF PlaceInv, Located, LocatedAt
<1>2. CASE ResolveProvider(r) \/ Resolve(r) \/ InsertKey(r)
  <2>1. UNCHANGED <<call, gone>> /\ pc[r] \in {"resolve_provider", "resolve", "insert"}
    BY <1>2 DEF ResolveProvider, Resolve, InsertKey
  <2>2. PICK step : pc' = [pc EXCEPT ![r] = step] /\ LocatedAt(step, call[r], {})
    <3>1. CASE ResolveProvider(r)
      BY <1>1, <3>1 DEF ResolveProvider, Goto, LocatedAt, PlaceInv, Located, Dropping
    <3>2. CASE Resolve(r)
      BY <1>1, <3>2 DEF Resolve, Goto, LocatedAt, PlaceInv, Located, Dropping, Is
    <3>3. CASE InsertKey(r)
      BY <1>1, <3>3 DEF InsertKey, Goto, LocatedAt, PlaceInv, Located, Dropping, Is
    <3> QED
      BY <1>2, <3>1, <3>2, <3>3
  <2> QED
    BY <2>1, <2>2, StepIsPlaced DEF Dropping
<1>3. CASE ReadFlag(r) \/ SetFlag(r) \/ SetFlagFails(r)
  <2>1. UNCHANGED <<call, gone>> /\ pc[r] \in {"read_flag", "set_flag"}
    BY <1>3 DEF ReadFlag, SetFlag, SetFlagFails
  <2>2. PICK step : pc' = [pc EXCEPT ![r] = step] /\ LocatedAt(step, call[r], {})
    BY <1>1, <1>3 DEF ReadFlag, SetFlag, SetFlagFails, SendsWelcome, Goto, LocatedAt, PlaceInv,
                      Located, Dropping
  <2> QED
    BY <2>1, <2>2, StepIsPlaced DEF Dropping
<1>4. CASE FindKey(r) \/ UpdateKey(r) \/ UpdateAllKeys(r)
  <2>1. UNCHANGED <<call, gone>> /\ pc[r] \in {"find", "revoke", "revoke_all"}
    BY <1>4 DEF FindKey, UpdateKey, UpdateAllKeys, Revokes
  <2>2. PICK step : pc' = [pc EXCEPT ![r] = step] /\ LocatedAt(step, call[r], {})
    BY <1>1, <1>4 DEF FindKey, UpdateKey, UpdateAllKeys, Revokes, Goto, LocatedAt, PlaceInv,
                      Located, Dropping
  <2> QED
    BY <2>1, <2>2, StepIsPlaced DEF Dropping
<1>5. CASE LookUpKey(r) \/ RecordFailure(r) \/ InsertLog(r) \/ ResolvePayer(r)
  <2>1. UNCHANGED <<call, gone>> /\ pc[r] \in {"lookup", "record", "insert_log", "resolve_payer"}
    BY <1>5 DEF LookUpKey, RecordFailure, InsertLog, ResolvePayer
  <2>2. PICK step : pc' = [pc EXCEPT ![r] = step] /\ LocatedAt(step, call[r], {})
    BY <1>1, <1>5 DEF LookUpKey, RecordFailure, InsertLog, ResolvePayer, Goto, LocatedAt, PlaceInv,
                      Located, Dropping
  <2> QED
    BY <2>1, <2>2, StepIsPlaced DEF Dropping
<1>6. CASE Commit(r)
  BY <1>6, EndsPlaced DEF Commit, Goto, Ended
<1>7. CASE DbFails(r)
  <2>1. PICK step \in Ended : pc' = [pc EXCEPT ![r] = step]
    BY <1>7 DEF DbFails, Goto, Ended
  <2> QED
    BY <1>7, <2>1, EndsPlaced DEF DbFails, InFlight
<1> QED
  BY <1>2, <1>3, <1>4, <1>5, <1>6, <1>7, RemovalIsPlaced DEF Handle

LEMMA PlaceKept == TypeOK /\ PlaceInv /\ [Next]_vars => PlaceInv'
<1> SUFFICES ASSUME TypeOK, PlaceInv, [Next]_vars PROVE PlaceInv'
  OBVIOUS
<1>1. CASE Restart
  <2>1. /\ pc' = [r \in Requests |-> IF InFlight(r) THEN "lost" ELSE pc[r]]
        /\ gone' = [r \in Requests |-> {}] /\ UNCHANGED call
    BY <1>1 DEF Restart
  <2>2. /\ pc' = [r \in Requests |-> pc'[r]]
        /\ call' \in [Requests -> Menu \cup {NoCall}]
        /\ gone' \in [Requests -> SUBSET RowKeys]
    BY <2>1 DEF PlaceInv
  <2>3. ASSUME NEW r \in Requests
        PROVE  LocatedAt(pc'[r], call'[r], gone'[r])
    <3>1. (pc'[r] \in Ended /\ pc[r] # "idle") \/ pc'[r] = "idle"
      BY <2>1 DEF InFlight, Ended
    <3>2. pc[r] # "idle" => call[r] \in Menu
      BY DEF PlaceInv, Located, LocatedAt
    <3>3. call'[r] = call[r] /\ gone'[r] = {}
      BY <2>1
    <3> QED
      BY <3>1, <3>2, <3>3, EndIsLocated DEF LocatedAt, Dropping
  <2> QED
    BY <2>2, <2>3 DEF PlaceInv, Located
<1>2. CASE UNCHANGED <<pc, call, gone>>
  BY <1>2 DEF PlaceInv, Located
<1> QED
  BY <1>1, <1>2, ReceiveIsPlaced, HandleIsPlaced DEF Next, Tick, Finished, vars

\* The type invariant in parts, as the steps change them.
KeysOK     == keys \in [DOMAIN keys -> KeyRecord] /\ DOMAIN keys \subseteq KeyIds
AccountsOK == prefs \in [DOMAIN prefs -> BOOLEAN] /\ DOMAIN prefs \subseteq Users /\ tenants \subseteq Users
LogsOK     == /\ logs \in [DOMAIN logs -> [key : KeyIds, owner : Users, tenant : Users]]
              /\ DOMAIN logs \subseteq Requests
WindowsOK  == /\ fails \in [DOMAIN fails -> [count : Nat \ {0}, started : 0..now]]
              /\ DOMAIN fails \subseteq KeyIds
              /\ now \in 0..MaxTime /\ peak \in [KeyIds -> Nat]
HistoryOK  == ended \subseteq KeyIds /\ mails \subseteq Users \X Requests /\ excused \subseteq Users

LEMMA TypeParts ==
  TypeOK <=> /\ KeysOK /\ AccountsOK /\ LogsOK /\ WindowsOK /\ HistoryOK
             /\ call \in [Requests -> Menu \cup {NoCall}]
BY DEF TypeOK, KeysOK, AccountsOK, LogsOK, WindowsOK, HistoryOK

\* The user, key, provider and tenant of the call at a statement.
LEMMA CallFacts ==
  ASSUME PlaceInv, NEW r \in Requests, pc[r] # "idle"
  PROVE  /\ call[r] \in Menu
         /\ pc[r] \in {"resolve", "insert", "set_flag", "find", "revoke", "revoke_all", "insert_log",
                      "resolve_payer"} \cup Dropping => call[r].user \in Users
         /\ pc[r] \in {"find", "revoke", "lookup", "record", "insert_log", "resolve_payer"} =>
              Key(r) \in KeyIds
         /\ pc[r] = "resolve_provider" => call[r].provider \in Users
         /\ pc[r] = "insert" => call[r].provider \in Users \cup {Nobody}
         /\ pc[r] = "insert" /\ call[r].op = "generate" => call[r].tenant \in Users \cup {Nobody}
         /\ pc[r] = "insert_log" => call[r].tenant \in Users \cup {Nobody}
<1>1. call[r] \in Menu
  BY DEF PlaceInv, Located, LocatedAt
<1> QED
  BY <1>1, MenuFacts DEF PlaceInv, Located, LocatedAt, Key, Dropping

LEMMA InitTypes == Init => KeyTypes
<1> SUFFICES ASSUME Init PROVE KeyTypes
  OBVIOUS
<1>1. Accounts \subseteq Users
  BY KeysAssumption DEF Accounts, KeysAssumption, KeyRecord
<1>2. KeysOK /\ AccountsOK
  BY <1>1, KeysAssumption DEF Init, KeysOK, AccountsOK, KeysAssumption, KeyIds
<1>3. LogsOK /\ WindowsOK /\ HistoryOK
  BY KeysAssumption DEF Init, LogsOK, WindowsOK, HistoryOK, KeysAssumption
<1>4. call \in [Requests -> Menu \cup {NoCall}] /\ PlaceInv
  BY DEF Init, PlaceInv, Located, LocatedAt, Dropping
<1> QED
  BY <1>2, <1>3, <1>4, TypeParts DEF KeyTypes

\* The row that an INSERT makes.
LEMMA IssuedIsRecord ==
  ASSUME KeyTypes, NEW r \in Requests, pc[r] = "insert"
  PROVE  IssuedKey(r) \in KeyRecord
<1>1. /\ call[r].user \in Users /\ call[r].provider \in Users \cup {Nobody}
      /\ call[r].op = "generate" => call[r].tenant \in Users \cup {Nobody}
  BY CallFacts DEF KeyTypes
<1>2. now + Year \in Nat
  BY KeysAssumption DEF KeyTypes, TypeOK, KeysAssumption
<1> QED
  BY <1>1, <1>2 DEF IssuedKey, KeyRecord

LEMMA KeysAreKept ==
  ASSUME KeyTypes, [Next]_vars
  PROVE  KeysOK'
<1>1. KeysOK
  BY TypeParts DEF KeyTypes
<1>2. ASSUME NEW r \in Requests, InsertKey(r)
      PROVE  KeysOK'
  <2>1. CASE keys' = With(keys, r, IssuedKey(r))
    <3>1. IssuedKey(r) \in KeyRecord /\ r \in KeyIds
      BY <1>2, IssuedIsRecord DEF InsertKey, KeyIds
    <3>2. PICK row \in KeyRecord : row = IssuedKey(r)
      BY <3>1
    <3> QED
      BY <1>1, <2>1, <3>1, <3>2 DEF KeysOK, With
  <2> QED
    BY <1>1, <1>2, <2>1 DEF InsertKey, KeysOK
<1>3. ASSUME NEW r \in Requests, NEW some, Revokes(r, some)
      PROVE  KeysOK'
  <2>1. keys' = [k \in DOMAIN keys |->
                   IF k \in some THEN [keys[k] EXCEPT !.active = FALSE] ELSE keys[k]]
    BY <1>3 DEF Revokes
  <2>2. \A row \in KeyRecord : [row EXCEPT !.active = FALSE] \in KeyRecord
    BY DEF KeyRecord
  <2> QED
    BY <1>1, <2>1, <2>2 DEF KeysOK
<1>4. ASSUME NEW r \in Requests, Commit(r)
      PROVE  KeysOK'
  BY <1>1, <1>4 DEF Commit, Without, KeysOK
<1>5. CASE UNCHANGED keys
  BY <1>1, <1>5 DEF KeysOK
<1>6. ASSUME NEW r \in Requests, Handle(r)
      PROVE  KeysOK'
  BY <1>2, <1>3, <1>4, <1>5, <1>6
     DEF Handle, ResolveProvider, Resolve, ReadFlag, SetFlag, SetFlagFails, FindKey, UpdateKey,
         UpdateAllKeys, LookUpKey, RecordFailure, InsertLog, ResolvePayer, DropLogs, DropKeys,
         DropsKeys, DropTenant, DropPrefs, Drop, RollBack, DbFails, rows
<1>7. ASSUME NEW r \in Requests, NEW c \in Menu, Receive(r, c)
      PROVE  KeysOK'
  BY <1>5, <1>7 DEF Receive, GenerateKey, ConsumerKey, RevokeKey, RevokeAll, ValidateKey, LogUsage,
                    ForceClean, rows
<1> QED
  BY <1>5, <1>6, <1>7 DEF Next, Restart, Tick, Finished, vars, rows

\* Resolving a user's tenant makes an account for one of the users, if any.
LEMMA ResolvedIsTyped ==
  ASSUME AccountsOK, NEW u \in Users, Resolved(u)
  PROVE  AccountsOK'
BY DEF Resolved, AccountsOK, With

LEMMA AccountsAreKept ==
  ASSUME KeyTypes, [Next]_vars
  PROVE  AccountsOK'
<1>1. AccountsOK
  BY TypeParts DEF KeyTypes
<1>2. ASSUME NEW r \in Requests, ResolveProvider(r) \/ Resolve(r) \/ ResolvePayer(r)
      PROVE  AccountsOK'
  <2>1. PICK u \in Users : Resolved(u)
    BY <1>2, CallFacts DEF ResolveProvider, Resolve, ResolvePayer, KeyTypes
  <2> QED
    BY <1>1, <2>1, ResolvedIsTyped
<1>3. ASSUME NEW r \in Requests, SetFlag(r)
      PROVE  AccountsOK'
  BY <1>1, <1>3 DEF SetFlag, AccountsOK
<1>4. ASSUME NEW r \in Requests, Commit(r)
      PROVE  AccountsOK'
  BY <1>1, <1>4 DEF Commit, Without, AccountsOK
<1>5. CASE UNCHANGED <<prefs, tenants>>
  BY <1>1, <1>5 DEF AccountsOK
<1>6. ASSUME NEW r \in Requests, Handle(r)
      PROVE  AccountsOK'
  BY <1>2, <1>3, <1>4, <1>5, <1>6
     DEF Handle, InsertKey, ReadFlag, SetFlagFails, FindKey, UpdateKey,
         UpdateAllKeys, Revokes, LookUpKey, RecordFailure, InsertLog, DropLogs, DropKeys,
         DropsKeys, DropTenant, DropPrefs, Drop, RollBack, DbFails, rows
<1>7. ASSUME NEW r \in Requests, NEW c \in Menu, Receive(r, c)
      PROVE  AccountsOK'
  BY <1>5, <1>7 DEF Receive, GenerateKey, ConsumerKey, RevokeKey, RevokeAll, ValidateKey, LogUsage,
                    ForceClean, rows
<1> QED
  BY <1>5, <1>6, <1>7 DEF Next, Restart, Tick, Finished, vars, rows

LEMMA LogsAreKept ==
  ASSUME KeyTypes, [Next]_vars
  PROVE  LogsOK'
<1>1. LogsOK /\ KeysOK
  BY TypeParts DEF KeyTypes
<1>2. ASSUME NEW r \in Requests, InsertLog(r)
      PROVE  LogsOK'
  <2>1. CASE Key(r) \in DOMAIN keys
    <3>1. PICK row : row = [key |-> Key(r), owner |-> call[r].user, tenant |-> LogTenant(r)]
      OBVIOUS
    <3>2. call[r].user \in Users /\ call[r].tenant \in Users \cup {Nobody} /\ Key(r) \in KeyIds
      BY <1>2, CallFacts DEF InsertLog, KeyTypes
    <3>3. keys[Key(r)].provider \in Users \cup {Nobody} /\ keys[Key(r)].tenant \in Users
      BY <1>1, <2>1 DEF KeysOK, KeyRecord
    <3>4. LogTenant(r) \in Users
      BY <3>2, <3>3 DEF LogTenant
    <3>5. row \in [key : KeyIds, owner : Users, tenant : Users]
      BY <3>1, <3>2, <3>4
    <3>6. logs' = With(logs, r, row)
      BY <1>2, <2>1, <3>1 DEF InsertLog
    <3> QED
      BY <1>1, <3>5, <3>6 DEF LogsOK, With
  <2> QED
    BY <1>1, <1>2, <2>1 DEF InsertLog, LogsOK
<1>3. ASSUME NEW r \in Requests, Commit(r)
      PROVE  LogsOK'
  BY <1>1, <1>3 DEF Commit, Without, LogsOK
<1>4. CASE UNCHANGED logs
  BY <1>1, <1>4 DEF LogsOK
<1>5. ASSUME NEW r \in Requests, Handle(r)
      PROVE  LogsOK'
  BY <1>2, <1>3, <1>4, <1>5
     DEF Handle, ResolveProvider, Resolve, InsertKey, ReadFlag, SetFlag, SetFlagFails, FindKey,
         UpdateKey, UpdateAllKeys, Revokes, LookUpKey, RecordFailure, ResolvePayer, DropLogs,
         DropKeys, DropsKeys, DropTenant, DropPrefs, Drop, RollBack, DbFails, rows
<1>6. ASSUME NEW r \in Requests, NEW c \in Menu, Receive(r, c)
      PROVE  LogsOK'
  BY <1>4, <1>6 DEF Receive, GenerateKey, ConsumerKey, RevokeKey, RevokeAll, ValidateKey, LogUsage,
                    ForceClean, rows
<1> QED
  BY <1>4, <1>5, <1>6 DEF Next, Restart, Tick, Finished, vars, rows

\* Windows begin in the past and count at least one failure.
LEMMA WindowsAreKept ==
  ASSUME KeyTypes, [Next]_vars
  PROVE  WindowsOK'
<1>1. WindowsOK
  BY TypeParts DEF KeyTypes
<1>2. now \in Nat /\ now \in 0..now /\ now + 1 \in Nat
  BY <1>1 DEF WindowsOK
<1>3. ASSUME NEW r \in Requests, NEW c \in Menu, ValidateKey(r, c)
      PROVE  WindowsOK'
  <2>1. now' = now /\ fails' = Evicted
    BY <1>3 DEF ValidateKey
  <2>2. /\ fails' \in [DOMAIN fails' -> [count : Nat \ {0}, started : 0..now]]
        /\ DOMAIN fails' \subseteq KeyIds
    BY <1>1, <2>1 DEF Evicted, WindowsOK
  <2>3. peak' \in [KeyIds -> Nat]
    <3>1. CASE Allowed(c.key)
      <4>1. Larger(peak[c.key], Cardinality(UnderWay(c.key)) + 1) \in Nat
        <5>1. c.key \in KeyIds
          BY <1>3, MenuFacts DEF ValidateKey
        <5>2. peak[c.key] \in Nat /\ Cardinality(UnderWay(c.key)) + 1 \in Nat
          BY <1>1, <5>1, UnderWayFinite DEF WindowsOK
        <5> QED
          BY <5>2 DEF Larger
      <4>2. PICK most \in Nat : most = Larger(peak[c.key], Cardinality(UnderWay(c.key)) + 1)
        BY <4>1
      <4>3. peak' = [peak EXCEPT ![c.key] = most]
        BY <1>3, <3>1, <4>2 DEF ValidateKey
      <4> QED
        BY <1>1, <4>3 DEF WindowsOK
    <3>2. CASE ~Allowed(c.key)
      BY <1>1, <1>3, <3>2 DEF ValidateKey, WindowsOK
    <3> QED
      BY <3>1, <3>2
  <2> QED
    BY <1>1, <2>1, <2>2, <2>3 DEF WindowsOK
<1>4. ASSUME NEW r \in Requests, RecordFailure(r)
      PROVE  WindowsOK'
  <2>1. PICK k0 : k0 = Key(r)
    OBVIOUS
  <2>2. k0 \in KeyIds
    BY <1>4, <2>1, CallFacts DEF RecordFailure, KeyTypes
  <2>3. Counted(k0) \in [count : Nat \ {0}, started : 0..now]
    <3>1. CASE k0 \in DOMAIN fails /\ Live(k0)
      <4>1. PICK window \in [count : Nat \ {0}, started : 0..now] : window = fails[k0]
        BY <1>1, <3>1 DEF WindowsOK
      <4>2. Counted(k0) = [window EXCEPT !.count = window.count + 1]
        BY <3>1, <4>1 DEF Counted
      <4> QED
        BY <4>2
    <3>2. CASE ~(k0 \in DOMAIN fails /\ Live(k0))
      BY <1>2, <3>2 DEF Counted
    <3> QED
      BY <3>1, <3>2
  <2>4. PICK window \in [count : Nat \ {0}, started : 0..now] : window = Counted(k0)
    BY <2>3
  <2>5. fails' = With(fails, k0, window) /\ UNCHANGED <<now, peak>>
    BY <1>4, <2>1, <2>4 DEF RecordFailure, history
  <2>6. /\ DOMAIN fails' = DOMAIN fails \cup {k0}
        /\ fails' \in [DOMAIN fails' -> [count : Nat \ {0}, started : 0..now]]
    BY <1>1, <2>4, <2>5 DEF WindowsOK, With
  <2> QED
    BY <1>1, <2>2, <2>5, <2>6 DEF WindowsOK
<1>5. CASE Restart
  BY <1>1, <1>5 DEF Restart, history, WindowsOK
<1>6. CASE Tick
  <2>1. now < MaxTime /\ now' = now + 1 /\ UNCHANGED <<fails, peak>>
    BY <1>6 DEF Tick, history
  <2>2. now' \in 0..MaxTime /\ 0..now \subseteq 0..now'
    BY <1>1, <2>1, KeysAssumption DEF WindowsOK, KeysAssumption
  <2>3. \A k \in DOMAIN fails : fails[k] \in [count : Nat \ {0}, started : 0..now']
    BY <1>1, <2>2 DEF WindowsOK
  <2>4. fails = [k \in DOMAIN fails |-> fails[k]]
    BY <1>1 DEF WindowsOK
  <2> QED
    BY <1>1, <2>1, <2>2, <2>3, <2>4 DEF WindowsOK
<1>7. CASE UNCHANGED <<fails, now, peak>>
  BY <1>1, <1>7 DEF WindowsOK
<1>8. ASSUME NEW r \in Requests, Handle(r)
      PROVE  WindowsOK'
  BY <1>4, <1>7, <1>8
     DEF Handle, ResolveProvider, Resolve, InsertKey, ReadFlag, SetFlag, SetFlagFails, FindKey,
         UpdateKey, UpdateAllKeys, Revokes, LookUpKey, InsertLog, ResolvePayer, DropLogs,
         DropKeys, DropsKeys, DropTenant, DropPrefs, Drop, RollBack, Commit, DbFails, history
<1>9. ASSUME NEW r \in Requests, NEW c \in Menu, Receive(r, c)
      PROVE  WindowsOK'
  BY <1>3, <1>7, <1>9 DEF Receive, GenerateKey, ConsumerKey, RevokeKey, RevokeAll, LogUsage,
                    ForceClean, history
<1> QED
  BY <1>5, <1>6, <1>7, <1>8, <1>9 DEF Next, Finished, vars, history

LEMMA HistoryIsKept ==
  ASSUME KeyTypes, [Next]_vars
  PROVE  HistoryOK'
<1>1. HistoryOK /\ KeysOK
  BY TypeParts DEF KeyTypes
<1>2. ASSUME NEW r \in Requests, UpdateKey(r) \/ UpdateAllKeys(r)
      PROVE  HistoryOK'
  <2>1. ended' \subseteq KeyIds
    <3>1. CASE UpdateKey(r)
      BY <1>1, <3>1, CallFacts DEF UpdateKey, HistoryOK, KeyTypes
    <3>2. CASE UpdateAllKeys(r)
      BY <1>1, <3>2 DEF UpdateAllKeys, HistoryOK, KeysOK
    <3> QED
      BY <1>2, <3>1, <3>2
  <2>2. UNCHANGED <<mails, excused>>
    BY <1>2 DEF UpdateKey, UpdateAllKeys, Revokes
  <2> QED
    BY <1>1, <2>1, <2>2 DEF HistoryOK
<1>3. ASSUME NEW r \in Requests, ReadFlag(r)
      PROVE  HistoryOK'
  <2>1. excused' \subseteq excused \cup {call[r].user}
    BY <1>3 DEF ReadFlag
  <2>2. excused' = excused \/ call[r].user \in Users
    BY <1>1, <1>3 DEF ReadFlag, FlagRace, HasOwner, KeyTypes, TypeOK
  <2> QED
    BY <1>1, <1>3, <2>1, <2>2 DEF ReadFlag, HistoryOK
<1>4. ASSUME NEW r \in Requests, SetFlag(r) \/ SetFlagFails(r)
      PROVE  HistoryOK'
  <2>1. call[r].user \in Users
    BY <1>4, CallFacts DEF SetFlag, SetFlagFails, KeyTypes
  <2>2. /\ mails' = mails \cup {<<call[r].user, r>>} /\ UNCHANGED ended
        /\ excused' \subseteq excused \cup {call[r].user}
    BY <1>4 DEF SetFlag, SetFlagFails, SendsWelcome
  <2> QED
    BY <1>1, <2>1, <2>2 DEF HistoryOK
<1>5. ASSUME NEW r \in Requests, Commit(r)
      PROVE  HistoryOK'
  BY <1>1, <1>5 DEF Commit, HistoryOK, KeysOK
<1>6. CASE UNCHANGED <<ended, mails, excused>>
  BY <1>1, <1>6 DEF HistoryOK
<1>7. ASSUME NEW r \in Requests, Handle(r)
      PROVE  HistoryOK'
  BY <1>2, <1>3, <1>4, <1>5, <1>6, <1>7
     DEF Handle, ResolveProvider, Resolve, InsertKey, FindKey, LookUpKey, RecordFailure, InsertLog,
         ResolvePayer, DropLogs, DropKeys, DropsKeys, DropTenant, DropPrefs, Drop, RollBack,
         DbFails, history
<1>8. ASSUME NEW r \in Requests, NEW c \in Menu, Receive(r, c)
      PROVE  HistoryOK'
  BY <1>6, <1>8 DEF Receive, GenerateKey, ConsumerKey, RevokeKey, RevokeAll, ValidateKey, LogUsage,
                    ForceClean, history
<1> QED
  BY <1>6, <1>7, <1>8 DEF Next, Restart, Tick, Finished, vars, history

LEMMA TypesAlways == Spec => []KeyTypes
<1>1. KeyTypes /\ [Next]_vars => KeyTypes'
  <2> SUFFICES ASSUME KeyTypes, [Next]_vars PROVE KeyTypes'
    OBVIOUS
  <2>1. PlaceInv'
    BY PlaceKept DEF KeyTypes
  <2>2. /\ KeysOK' /\ AccountsOK' /\ LogsOK' /\ WindowsOK' /\ HistoryOK'
        /\ call' \in [Requests -> Menu \cup {NoCall}]
    BY <2>1, KeysAreKept, AccountsAreKept, LogsAreKept, WindowsAreKept, HistoryIsKept DEF PlaceInv
  <2>3. TypeOK'
    BY <2>2 DEF TypeOK, KeysOK, AccountsOK, LogsOK, WindowsOK, HistoryOK
  <2> QED
    BY <2>1, <2>3 DEF KeyTypes
<1> QED
  BY <1>1, InitTypes, PTL DEF Spec

\* Every variable of the key handlers keeps a value of its kind.
THEOREM KeysTypes == Spec => []TypeOK
<1>1. KeyTypes => TypeOK
  BY DEF KeyTypes
<1> QED
  BY <1>1, TypesAlways, PTL

-----------------------------------------------------------------------------
(* References.  A removal that would commit now would leave no row without  *)
(* the row it refers to: its deletions are refused while there is one, and  *)
(* until it ends an INSERT of one waits.                                    *)

ViewsHold ==
  \A r \in Requests :
    /\ \A k \in DOMAIN keys : KeyRow(k) \notin gone[r] =>
         PrefsRow(keys[k].owner) \notin gone[r] /\ TenantRow(keys[k].provider) \notin gone[r]
    /\ \A q \in DOMAIN logs : LogRow(q) \notin gone[r] => KeyRow(logs[q].key) \notin gone[r]

RefsInv == ReferencesHold /\ ViewsHold

LEMMA RowFacts ==
  ASSUME NEW x, NEW y
  PROVE  /\ KeyRow(x) # LogRow(y) /\ KeyRow(x) # PrefsRow(y) /\ KeyRow(x) # TenantRow(y)
         /\ LogRow(x) # PrefsRow(y) /\ LogRow(x) # TenantRow(y) /\ PrefsRow(x) # TenantRow(y)
         /\ KeyRow(x) = KeyRow(y) => x = y
         /\ LogRow(x) = LogRow(y) => x = y
         /\ PrefsRow(x) = PrefsRow(y) => x = y
         /\ TenantRow(x) = TenantRow(y) => x = y
BY DEF KeyRow, LogRow, PrefsRow, TenantRow

\* A key keeps its owner and provider, is made with both there, and goes with a
\* removal that has deleted it.
LEMMA KeysMove ==
  ASSUME KeyTypes, [Next]_vars
  PROVE  \A k \in DOMAIN keys' :
           \/ /\ k \in DOMAIN keys
              /\ keys'[k].owner = keys[k].owner /\ keys'[k].provider = keys[k].provider
           \/ /\ k \in Requests /\ InsertKey(k) /\ HasOwner(k) /\ HasProvider(k)
              /\ keys'[k] = IssuedKey(k)
<1>0. KeysOK
  BY TypeParts DEF KeyTypes
<1> SUFFICES ASSUME NEW k \in DOMAIN keys'
             PROVE  \/ /\ k \in DOMAIN keys
                       /\ keys'[k].owner = keys[k].owner /\ keys'[k].provider = keys[k].provider
                    \/ /\ k \in Requests /\ InsertKey(k) /\ HasOwner(k) /\ HasProvider(k)
                       /\ keys'[k] = IssuedKey(k)
  OBVIOUS
<1>1. ASSUME NEW r \in Requests, InsertKey(r), ~(UNCHANGED keys)
      PROVE  \/ k \in DOMAIN keys /\ keys'[k] = keys[k]
             \/ k = r /\ HasOwner(k) /\ HasProvider(k) /\ keys'[k] = IssuedKey(k)
  <2>1. PICK row : row = IssuedKey(r)
    OBVIOUS
  <2>2. keys' = With(keys, r, row) /\ HasOwner(r) /\ HasProvider(r)
    BY <1>1, <2>1 DEF InsertKey
  <2>3. /\ DOMAIN keys' = DOMAIN keys \cup {r} /\ keys'[r] = row
        /\ \A x \in DOMAIN keys \ {r} : keys'[x] = keys[x]
    BY <2>2 DEF With
  <2> QED
    BY <2>1, <2>2, <2>3
<1>2. ASSUME NEW r \in Requests, NEW some, Revokes(r, some)
      PROVE  /\ k \in DOMAIN keys
             /\ keys'[k].owner = keys[k].owner /\ keys'[k].provider = keys[k].provider
  <2>1. keys' = [x \in DOMAIN keys |->
                   IF x \in some THEN [keys[x] EXCEPT !.active = FALSE] ELSE keys[x]]
    BY <1>2 DEF Revokes
  <2>2. PICK row \in KeyRecord : row = keys[k]
    BY <1>0, <2>1 DEF KeysOK
  <2>3. keys'[k] = IF k \in some THEN [row EXCEPT !.active = FALSE] ELSE row
    BY <2>1, <2>2
  <2> QED
    BY <2>1, <2>2, <2>3 DEF KeyRecord
<1>3. ASSUME NEW r \in Requests, Commit(r)
      PROVE  k \in DOMAIN keys /\ keys'[k] = keys[k]
  BY <1>3 DEF Commit, Without
<1>4. ASSUME NEW r \in Requests, Handle(r), ~(UNCHANGED keys)
      PROVE  InsertKey(r) \/ Commit(r) \/ \E some : Revokes(r, some)
  BY <1>4
     DEF Handle, ResolveProvider, Resolve, ReadFlag, SetFlag, SetFlagFails, FindKey, UpdateKey,
         UpdateAllKeys, LookUpKey, RecordFailure, InsertLog, ResolvePayer, DropLogs, DropKeys,
         DropsKeys, DropTenant, DropPrefs, Drop, RollBack, DbFails, rows
<1>5. ASSUME NEW r \in Requests, NEW c \in Menu, Receive(r, c)
      PROVE  UNCHANGED keys
  BY <1>5 DEF Receive, GenerateKey, ConsumerKey, RevokeKey, RevokeAll, ValidateKey, LogUsage,
              ForceClean, rows
<1> QED
  BY <1>1, <1>2, <1>3, <1>4, <1>5 DEF Next, Restart, Tick, Finished, vars, rows

LEMMA LogsMove ==
  ASSUME KeyTypes, [Next]_vars
  PROVE  \A q \in DOMAIN logs' :
           \/ q \in DOMAIN logs /\ logs'[q] = logs[q]
           \/ /\ q \in Requests /\ InsertLog(q) /\ Key(q) \in DOMAIN keys
              /\ logs'[q].key = Key(q) /\ logs'[q].owner = call[q].user
<1> SUFFICES ASSUME NEW q \in DOMAIN logs'
             PROVE  \/ q \in DOMAIN logs /\ logs'[q] = logs[q]
                    \/ /\ q \in Requests /\ InsertLog(q) /\ Key(q) \in DOMAIN keys
                       /\ logs'[q].key = Key(q) /\ logs'[q].owner = call[q].user
  OBVIOUS
<1>1. ASSUME NEW r \in Requests, InsertLog(r), ~(UNCHANGED logs)
      PROVE  \/ q \in DOMAIN logs /\ logs'[q] = logs[q]
             \/ /\ q = r /\ Key(q) \in DOMAIN keys
                /\ logs'[q].key = Key(q) /\ logs'[q].owner = call[q].user
  <2>1. PICK row : row = [key |-> Key(r), owner |-> call[r].user, tenant |-> LogTenant(r)]
    OBVIOUS
  <2>2. logs' = With(logs, r, row) /\ Key(r) \in DOMAIN keys
    BY <1>1, <2>1 DEF InsertLog
  <2>3. /\ DOMAIN logs' = DOMAIN logs \cup {r} /\ logs'[r] = row
        /\ \A x \in DOMAIN logs \ {r} : logs'[x] = logs[x]
    BY <2>2 DEF With
  <2>4. row.key = Key(r) /\ row.owner = call[r].user
    BY <2>1
  <2> QED
    BY <2>2, <2>3, <2>4
<1>2. ASSUME NEW r \in Requests, Commit(r)
      PROVE  q \in DOMAIN logs /\ logs'[q] = logs[q]
  BY <1>2 DEF Commit, Without
<1>3. ASSUME NEW r \in Requests, Handle(r), ~(UNCHANGED logs)
      PROVE  InsertLog(r) \/ Commit(r)
  BY <1>3
     DEF Handle, ResolveProvider, Resolve, InsertKey, ReadFlag, SetFlag, SetFlagFails, FindKey,
         UpdateKey, UpdateAllKeys, Revokes, LookUpKey, RecordFailure, ResolvePayer, DropLogs,
         DropKeys, DropsKeys, DropTenant, DropPrefs, Drop, RollBack, DbFails, rows
<1>4. ASSUME NEW r \in Requests, NEW c \in Menu, Receive(r, c)
      PROVE  UNCHANGED logs
  BY <1>4 DEF Receive, GenerateKey, ConsumerKey, RevokeKey, RevokeAll, ValidateKey, LogUsage,
              ForceClean, rows
<1> QED
  BY <1>1, <1>2, <1>3, <1>4 DEF Next, Restart, Tick, Finished, vars, rows

\* What is gone has been committed by a removal, which leaves nothing it deleted.
LEMMA Removed ==
  ASSUME KeyTypes, [Next]_vars
  PROVE  /\ \A k \in DOMAIN keys \ DOMAIN keys' : \E r \in Requests : Commit(r) /\ KeyRow(k) \in gone[r]
         /\ \A u \in DOMAIN prefs \ DOMAIN prefs' : \E r \in Requests : Commit(r) /\ PrefsRow(u) \in gone[r]
         /\ \A u \in tenants \ tenants' : \E r \in Requests : Commit(r) /\ TenantRow(u) \in gone[r]
<1>1. CASE \E r \in Requests : Commit(r)
  <2>1. PICK r \in Requests : Commit(r)
    BY <1>1
  <2>2. \A k \in DOMAIN keys \ DOMAIN keys' : KeyRow(k) \in gone[r]
    BY <2>1 DEF Commit, Without
  <2>3. \A u \in DOMAIN prefs \ DOMAIN prefs' : PrefsRow(u) \in gone[r]
    BY <2>1 DEF Commit, Without
  <2>4. \A u \in tenants \ tenants' : TenantRow(u) \in gone[r]
    BY <2>1 DEF Commit
  <2> QED
    BY <2>1, <2>2, <2>3, <2>4
<1>2. CASE ~\E r \in Requests : Commit(r)
  <2>1. ASSUME NEW r \in Requests, NEW u, Resolved(u)
        PROVE  DOMAIN prefs \subseteq DOMAIN prefs' /\ tenants \subseteq tenants'
    BY <2>1 DEF Resolved, With
  <2>2. ASSUME NEW r \in Requests, NEW some, Revokes(r, some)
        PROVE  DOMAIN keys' = DOMAIN keys /\ UNCHANGED <<prefs, tenants>>
    BY <2>2 DEF Revokes
  <2>3. ASSUME NEW r \in Requests, SetFlag(r)
        PROVE  DOMAIN prefs' = DOMAIN prefs /\ UNCHANGED <<keys, tenants>>
    BY <2>3 DEF SetFlag
  <2>4. ASSUME NEW r \in Requests, InsertKey(r)
        PROVE  DOMAIN keys \subseteq DOMAIN keys' /\ UNCHANGED <<prefs, tenants>>
    BY <2>4 DEF InsertKey, With
  <2>5. ASSUME NEW r \in Requests, Handle(r)
        PROVE  DOMAIN keys \subseteq DOMAIN keys' /\ DOMAIN prefs \subseteq DOMAIN prefs' /\ tenants \subseteq tenants'
    BY <1>2, <2>1, <2>2, <2>3, <2>4, <2>5
       DEF Handle, ResolveProvider, Resolve, ReadFlag, SetFlagFails, FindKey, UpdateKey,
           UpdateAllKeys, LookUpKey, RecordFailure, InsertLog, ResolvePayer, DropLogs, DropKeys,
           DropsKeys, DropTenant, DropPrefs, Drop, RollBack, DbFails, rows
  <2>6. ASSUME NEW r \in Requests, NEW c \in Menu, Receive(r, c)
        PROVE  UNCHANGED <<keys, prefs, tenants>>
    BY <2>6 DEF Receive, GenerateKey, ConsumerKey, RevokeKey, RevokeAll, ValidateKey, LogUsage,
                ForceClean, rows
  <2> QED
    BY <2>5, <2>6 DEF Next, Restart, Tick, Finished, vars, rows
<1> QED
  BY <1>1, <1>2

LEMMA CommitLeaves ==
  ASSUME NEW r \in Requests, Commit(r)
  PROVE  /\ \A k \in DOMAIN keys' : k \in DOMAIN keys /\ KeyRow(k) \notin gone[r]
         /\ \A q \in DOMAIN logs' : q \in DOMAIN logs /\ LogRow(q) \notin gone[r]
BY DEF Commit, Without

LEMMA ReferencesAreKept ==
  ASSUME KeyTypes, RefsInv, [Next]_vars
  PROVE  ReferencesHold'
<1>1. ASSUME NEW k \in DOMAIN keys'
      PROVE  keys'[k].owner \in DOMAIN prefs' /\ keys'[k].provider \in tenants' \cup {Nobody}
  <2>1. CASE /\ k \in Requests /\ InsertKey(k) /\ HasOwner(k) /\ HasProvider(k)
             /\ keys'[k] = IssuedKey(k)
    <3>1. IssuedKey(k).owner = call[k].user /\ IssuedKey(k).provider = call[k].provider
      BY DEF IssuedKey
    <3> QED
      BY <2>1, <3>1 DEF HasOwner, HasProvider, InsertKey
  <2>2. CASE /\ k \in DOMAIN keys
             /\ keys'[k].owner = keys[k].owner /\ keys'[k].provider = keys[k].provider
    <3>1. keys[k].owner \in DOMAIN prefs /\ keys[k].provider \in tenants \cup {Nobody}
      BY <2>2 DEF RefsInv, ReferencesHold
    <3>2. \A r \in Requests : Commit(r) =>
            PrefsRow(keys[k].owner) \notin gone[r] /\ TenantRow(keys[k].provider) \notin gone[r]
      BY <1>1, <2>2, CommitLeaves DEF RefsInv, ViewsHold
    <3> QED
      BY <2>2, <3>1, <3>2, Removed
  <2> QED
    BY <1>1, <2>1, <2>2, KeysMove
<1>2. ASSUME NEW q \in DOMAIN logs'
      PROVE  logs'[q].key \in DOMAIN keys'
  <2>1. CASE q \in Requests /\ InsertLog(q) /\ Key(q) \in DOMAIN keys /\ logs'[q].key = Key(q)
    BY <2>1 DEF InsertLog
  <2>2. CASE q \in DOMAIN logs /\ logs'[q] = logs[q]
    <3>1. logs[q].key \in DOMAIN keys
      BY <2>2 DEF RefsInv, ReferencesHold
    <3>2. \A r \in Requests : Commit(r) => KeyRow(logs[q].key) \notin gone[r]
      BY <1>2, <2>2, CommitLeaves DEF RefsInv, ViewsHold
    <3> QED
      BY <2>2, <3>1, <3>2, Removed
  <2> QED
    BY <1>2, <2>1, <2>2, LogsMove
<1> QED
  BY <1>1, <1>2 DEF ReferencesHold

\* What a removal's statement deletes is not referred to by what it leaves.
LEMMA DropViews ==
  ASSUME KeyTypes, RefsInv, NEW r \in Requests,
         DropLogs(r) \/ DropKeys(r) \/ DropTenant(r) \/ DropPrefs(r)
  PROVE  ViewsHold'
<1>1. UNCHANGED <<keys, logs>>
  BY DEF DropLogs, DropKeys, DropsKeys, DropTenant, DropPrefs, Drop, RollBack, rows
<1>2. CASE RollBack(r)
  <2>1. gone' = [gone EXCEPT ![r] = {}]
    BY <1>2 DEF RollBack
  <2>2. \A q \in Requests : gone'[q] = {} \/ gone'[q] = gone[q]
    BY <2>1 DEF KeyTypes, PlaceInv
  <2> QED
    BY <1>1, <2>2 DEF RefsInv, ViewsHold
<1>3. ASSUME NEW some, NEW step, Drop(r, some, step),
             /\ \A k \in DOMAIN keys : KeyRow(k) \notin gone[r] \cup some =>
                  PrefsRow(keys[k].owner) \notin some /\ TenantRow(keys[k].provider) \notin some
             /\ \A q \in DOMAIN logs : LogRow(q) \notin gone[r] \cup some => KeyRow(logs[q].key) \notin some
      PROVE  ViewsHold'
  <2>1. gone' = [gone EXCEPT ![r] = gone[r] \cup some]
    BY <1>3 DEF Drop
  <2>2. gone'[r] = gone[r] \cup some /\ \A q \in Requests \ {r} : gone'[q] = gone[q]
    BY <2>1 DEF KeyTypes, PlaceInv
  <2>3. \A k \in DOMAIN keys : KeyRow(k) \notin gone'[r] =>
          PrefsRow(keys[k].owner) \notin gone'[r] /\ TenantRow(keys[k].provider) \notin gone'[r]
    BY <1>3, <2>2 DEF RefsInv, ViewsHold
  <2>4. \A q \in DOMAIN logs : LogRow(q) \notin gone'[r] => KeyRow(logs[q].key) \notin gone'[r]
    BY <1>3, <2>2 DEF RefsInv, ViewsHold
  <2>5. ASSUME NEW p \in Requests
        PROVE  /\ \A k \in DOMAIN keys : KeyRow(k) \notin gone'[p] =>
                    PrefsRow(keys[k].owner) \notin gone'[p] /\ TenantRow(keys[k].provider) \notin gone'[p]
               /\ \A q \in DOMAIN logs : LogRow(q) \notin gone'[p] => KeyRow(logs[q].key) \notin gone'[p]
    BY <2>2, <2>3, <2>4 DEF RefsInv, ViewsHold
  <2> QED
    BY <1>1, <2>5 DEF ViewsHold
<1>4. CASE DropLogs(r)
  <2>1. PICK some \in SUBSET DOMAIN logs, step \in {"drop_keys", "drop_tenant_keys"} :
              Drop(r, {LogRow(q) : q \in some}, step)
    <3>1. {q \in DOMAIN logs : logs[q].owner = call[r].user} \in SUBSET DOMAIN logs
      OBVIOUS
    <3>2. {q \in DOMAIN logs : logs[q].tenant = call[r].user} \in SUBSET DOMAIN logs
      OBVIOUS
    <3> QED
      BY <1>4, <3>1, <3>2 DEF DropLogs
  <2>2. PICK deleted : deleted = {LogRow(q) : q \in some}
    OBVIOUS
  <2>3. \A x : /\ KeyRow(x) \notin deleted /\ PrefsRow(x) \notin deleted /\ TenantRow(x) \notin deleted
    BY <2>2, RowFacts
  <2> QED
    BY <1>3, <2>1, <2>2, <2>3
<1>5. CASE DropKeys(r)
  <2>1. PICK some, step : DropsKeys(r, some, step)
    BY <1>5 DEF DropKeys
  <2>2. PICK deleted : deleted = {KeyRow(k) : k \in some}
    OBVIOUS
  <2>3. \A x : /\ PrefsRow(x) \notin deleted /\ TenantRow(x) \notin deleted /\ LogRow(x) \notin deleted
               /\ KeyRow(x) \in deleted => x \in some
    BY <2>2, RowFacts
  <2>4. CASE {LogRow(q) : q \in LogsOf(some)} \ gone[r] = {}
    <3>1. \A q \in DOMAIN logs : logs[q].key \in some => LogRow(q) \in gone[r]
      BY <2>4 DEF LogsOf
    <3>2. Drop(r, deleted, step)
      BY <2>1, <2>2, <2>4 DEF DropsKeys
    <3> QED
      BY <1>3, <2>3, <3>1, <3>2
  <2>5. CASE {LogRow(q) : q \in LogsOf(some)} \ gone[r] # {}
    BY <1>2, <2>1, <2>5 DEF DropsKeys
  <2> QED
    BY <2>4, <2>5
<1>6. CASE DropTenant(r)
  <2>1. CASE ProvidedLeft(r) = {}
    <3>1. PICK deleted : deleted = {TenantRow(u) : u \in tenants \cap {call[r].user}}
      OBVIOUS
    <3>2. \A x : /\ KeyRow(x) \notin deleted /\ PrefsRow(x) \notin deleted
                 /\ TenantRow(x) \in deleted => x = call[r].user
      BY <3>1, RowFacts
    <3>3. \A k \in DOMAIN keys : keys[k].provider = call[r].user => KeyRow(k) \in gone[r]
      BY <2>1 DEF ProvidedLeft
    <3>4. Drop(r, deleted, "drop_prefs")
      BY <1>6, <2>1, <3>1 DEF DropTenant
    <3> QED
      BY <1>3, <3>2, <3>3, <3>4
  <2>2. CASE ProvidedLeft(r) # {}
    BY <1>2, <1>6, <2>2 DEF DropTenant
  <2> QED
    BY <2>1, <2>2
<1>7. CASE DropPrefs(r)
  <2>1. CASE OwnKeysLeft(r) = {}
    <3>1. PICK deleted : deleted = {PrefsRow(u) : u \in DOMAIN prefs \cap {call[r].user}}
      OBVIOUS
    <3>2. \A x : /\ KeyRow(x) \notin deleted /\ TenantRow(x) \notin deleted
                 /\ PrefsRow(x) \in deleted => x = call[r].user
      BY <3>1, RowFacts
    <3>3. \A k \in DOMAIN keys : keys[k].owner = call[r].user => KeyRow(k) \in gone[r]
      BY <2>1 DEF OwnKeysLeft
    <3>4. Drop(r, deleted, "commit")
      BY <1>7, <2>1, <3>1 DEF DropPrefs
    <3> QED
      BY <1>3, <3>2, <3>3, <3>4
  <2>2. CASE OwnKeysLeft(r) # {}
    BY <1>2, <1>7, <2>2 DEF DropPrefs
  <2> QED
    BY <2>1, <2>2
<1> QED
  BY <1>4, <1>5, <1>6, <1>7

\* Only those statements delete more; who does something else has deleted nothing.
LEMMA GoneMoves ==
  ASSUME KeyTypes, [Next]_vars,
         ~\E r \in Requests : DropLogs(r) \/ DropKeys(r) \/ DropTenant(r) \/ DropPrefs(r)
  PROVE  \A r \in Requests : gone'[r] = gone[r] \/ gone'[r] = {}
<1>1. ASSUME NEW r \in Requests, gone' = [gone EXCEPT ![r] = {}]
      PROVE  \A q \in Requests : gone'[q] = gone[q] \/ gone'[q] = {}
  BY <1>1 DEF KeyTypes, PlaceInv
<1>2. ASSUME NEW r \in Requests, Handle(r)
      PROVE  \A q \in Requests : gone'[q] = gone[q] \/ gone'[q] = {}
  BY <1>1, <1>2
     DEF Handle, ResolveProvider, Resolve, InsertKey, ReadFlag, SetFlag, SetFlagFails, FindKey,
         UpdateKey, UpdateAllKeys, Revokes, LookUpKey, RecordFailure, InsertLog, ResolvePayer,
         Commit, DbFails
<1>3. ASSUME NEW r \in Requests, NEW c \in Menu, Receive(r, c)
      PROVE  UNCHANGED gone
  BY <1>3 DEF Receive, GenerateKey, ConsumerKey, RevokeKey, RevokeAll, ValidateKey, LogUsage,
              ForceClean
<1> QED
  BY <1>2, <1>3 DEF Next, Restart, Tick, Finished, vars

LEMMA ViewsAreKept ==
  ASSUME KeyTypes, RefsInv, [Next]_vars
  PROVE  ViewsHold'
<1>1. CASE \E r \in Requests : DropLogs(r) \/ DropKeys(r) \/ DropTenant(r) \/ DropPrefs(r)
  BY <1>1, DropViews
<1>2. CASE ~\E r \in Requests : DropLogs(r) \/ DropKeys(r) \/ DropTenant(r) \/ DropPrefs(r)
  <2>1. ASSUME NEW r \in Requests, gone'[r] = gone[r],
               NEW k \in DOMAIN keys', KeyRow(k) \notin gone[r]
        PROVE  PrefsRow(keys'[k].owner) \notin gone[r] /\ TenantRow(keys'[k].provider) \notin gone[r]
    <3>1. CASE /\ k \in Requests /\ InsertKey(k) /\ keys'[k] = IssuedKey(k)
      <4>1. gone[k] = {}
        BY <3>1 DEF InsertKey, KeyTypes, PlaceInv, Located, LocatedAt, Dropping
      <4>2. {PrefsRow(call[k].user), TenantRow(call[k].provider)} \cap gone[r] = {}
        BY <3>1, <4>1 DEF InsertKey, Unlocked
      <4>3. IssuedKey(k).owner = call[k].user /\ IssuedKey(k).provider = call[k].provider
        BY DEF IssuedKey
      <4> QED
        BY <3>1, <4>2, <4>3
    <3>2. CASE /\ k \in DOMAIN keys
               /\ keys'[k].owner = keys[k].owner /\ keys'[k].provider = keys[k].provider
      BY <2>1, <3>2 DEF RefsInv, ViewsHold
    <3> QED
      BY <2>1, <3>1, <3>2, KeysMove
  <2>2. ASSUME NEW r \in Requests, gone'[r] = gone[r],
               NEW q \in DOMAIN logs', LogRow(q) \notin gone[r]
        PROVE  KeyRow(logs'[q].key) \notin gone[r]
    <3>1. CASE q \in Requests /\ InsertLog(q) /\ logs'[q].key = Key(q)
      <4>1. gone[q] = {}
        BY <3>1 DEF InsertLog, KeyTypes, PlaceInv, Located, LocatedAt, Dropping
      <4>2. {KeyRow(Key(q))} \cap gone[r] = {}
        BY <3>1, <4>1 DEF InsertLog, Unlocked
      <4> QED
        BY <3>1, <4>2
    <3>2. CASE q \in DOMAIN logs /\ logs'[q] = logs[q]
      BY <2>2, <3>2 DEF RefsInv, ViewsHold
    <3> QED
      BY <2>2, <3>1, <3>2, LogsMove
  <2>3. \A r \in Requests : gone'[r] = gone[r] \/ gone'[r] = {}
    BY <1>2, GoneMoves
  <2> QED
    BY <2>1, <2>2, <2>3 DEF ViewsHold
<1> QED
  BY <1>1, <1>2

LEMMA InitRefs == Init => RefsInv
<1> SUFFICES ASSUME Init PROVE RefsInv
  OBVIOUS
<1>1. \A k \in DOMAIN Opening : /\ Opening[k].owner \in Accounts
                                /\ Opening[k].provider \in Accounts \cup {Nobody}
  BY KeysAssumption DEF Accounts, KeysAssumption, KeyRecord
<1> QED
  BY <1>1 DEF Init, RefsInv, ReferencesHold, ViewsHold

LEMMA RefsAlways == Spec => []RefsInv
<1>1. KeyTypes /\ RefsInv /\ [Next]_vars => RefsInv'
  BY ReferencesAreKept, ViewsAreKept DEF RefsInv
<1> QED
  BY <1>1, InitRefs, TypesAlways, PTL DEF Spec

\* However the statements that issue keys and log calls come between those that
\* remove accounts, no key loses its owner or provider and no log its key.
THEOREM NoKeyIsOrphaned == Spec => []ReferencesHold
<1>1. RefsInv => ReferencesHold
  BY DEF RefsInv
<1> QED
  BY <1>1, RefsAlways, PTL

-----------------------------------------------------------------------------
(* Owners.  A key is its maker's, and its calls are logged under its owner,  *)
(* so that the logs of a user's keys are the user's.                         *)

MakerIn(calls, k) == IF k \in DOMAIN Opening THEN Opening[k].owner ELSE calls[k].user

OwnersHold ==
  /\ \A k \in DOMAIN keys : keys[k].owner = MakerIn(call, k)
  /\ \A q \in DOMAIN logs : logs[q].key \in IssuedIds /\ logs[q].owner = MakerIn(call, logs[q].key)
  /\ \A r \in Requests : pc[r] = "insert_log" =>
       Key(r) \in IssuedIds /\ call[r].user = MakerIn(call, Key(r))

\* A request asks for one thing, and comes to log a call when it is received.
LEMMA CallsStay ==
  ASSUME KeyTypes, [Next]_vars, NEW q \in Requests
  PROVE  /\ pc[q] # "idle" => call'[q] = call[q] /\ pc'[q] # "idle"
         /\ pc[q] \notin Early => pc'[q] \notin Early
         /\ pc'[q] = "insert_log" => pc[q] = "insert_log" \/ \E c \in Menu : LogUsage(q, c) /\ call'[q] = c
<1>0. PlaceInv
  BY DEF KeyTypes
<1>1. ASSUME NEW r \in Requests, NEW c \in Menu, Receive(r, c)
      PROVE  /\ pc[q] # "idle" => call'[q] = call[q] /\ pc'[q] = pc[q]
             /\ pc'[q] = "insert_log" => pc[q] = "insert_log" \/ (q = r /\ LogUsage(q, c) /\ call'[q] = c)
  <2>1. PICK step : Accept(r, c, step) /\ (step = "insert_log" => LogUsage(r, c))
    BY <1>1 DEF Receive, GenerateKey, ConsumerKey, RevokeKey, RevokeAll, ValidateKey, LogUsage,
                ForceClean
  <2>2. /\ pc[r] = "idle" /\ pc'[r] = step /\ call'[r] = c
        /\ \A p \in Requests \ {r} : pc'[p] = pc[p] /\ call'[p] = call[p]
    BY <1>0, <2>1 DEF Accept, Goto, PlaceInv
  <2> QED
    BY <2>1, <2>2
<1>2. ASSUME NEW r \in Requests, NEW step, pc' = [pc EXCEPT ![r] = step], UNCHANGED call,
             step \notin {"idle", "insert_log"}, pc[r] \in Early \/ step \notin Early
      PROVE  /\ pc[q] # "idle" => call'[q] = call[q] /\ pc'[q] # "idle"
             /\ pc[q] \notin Early => pc'[q] \notin Early
             /\ pc'[q] = "insert_log" => pc[q] = "insert_log"
  BY <1>0, <1>2 DEF PlaceInv
<1>3. ASSUME NEW r \in Requests, Handle(r)
      PROVE  \E step : /\ pc' = [pc EXCEPT ![r] = step] /\ UNCHANGED call
                       /\ step \notin {"idle", "insert_log"}
                       /\ pc[r] \in Early \/ step \notin Early
  <2>1. CASE ResolveProvider(r) \/ Resolve(r) \/ InsertKey(r)
    BY <2>1 DEF ResolveProvider, Resolve, InsertKey, Goto, Early
  <2>2. CASE ReadFlag(r) \/ SetFlag(r) \/ SetFlagFails(r)
    BY <2>2 DEF ReadFlag, SetFlag, SetFlagFails, SendsWelcome, Goto, Early
  <2>3. CASE LookUpKey(r) \/ RecordFailure(r) \/ InsertLog(r) \/ ResolvePayer(r)
    BY <2>3 DEF LookUpKey, RecordFailure, InsertLog, ResolvePayer, Goto, Early
  <2>4. CASE DropLogs(r) \/ DropKeys(r) \/ DropTenant(r) \/ DropPrefs(r)
    BY <2>4 DEF DropLogs, DropKeys, DropsKeys, DropTenant, DropPrefs, Drop, RollBack, Goto, Early
  <2>5. CASE FindKey(r) \/ UpdateKey(r) \/ UpdateAllKeys(r) \/ Commit(r)
    BY <2>5 DEF FindKey, UpdateKey, UpdateAllKeys, Revokes, Commit, Goto, Early
  <2>6. CASE DbFails(r)
    <3>1. PICK step \in {"ok", "error"} : pc' = [pc EXCEPT ![r] = step] /\ UNCHANGED call
      BY <2>6 DEF DbFails, Goto
    <3> QED
      BY <3>1 DEF Early
  <2> QED
    BY <1>3, <2>1, <2>2, <2>3, <2>4, <2>5, <2>6 DEF Handle
<1>4. CASE Restart
  <2>1. pc'[q] = (IF InFlight(q) THEN "lost" ELSE pc[q]) /\ UNCHANGED call
    BY <1>4 DEF Restart
  <2> QED
    BY <2>1 DEF InFlight, Ended, Early
<1> QED
  BY <1>1, <1>2, <1>3, <1>4 DEF Next, Tick, Finished, vars, Early

LEMMA OwnersAreKept ==
  ASSUME KeyTypes, RefsInv, EndedInv, OwnersHold, [Next]_vars
  PROVE  OwnersHold'
<1>1. /\ IssuedIds \subseteq IssuedIds'
      /\ \A k \in IssuedIds : MakerIn(call', k) = MakerIn(call, k)
  BY CallsStay DEF IssuedIds, MakerIn, Early
<1>2. DOMAIN keys \subseteq IssuedIds /\ ended \subseteq IssuedIds
  BY DEF EndedInv
<1>3. ASSUME NEW k \in DOMAIN keys'
      PROVE  keys'[k].owner = MakerIn(call', k)
  <2>1. CASE k \in DOMAIN keys /\ keys'[k].owner = keys[k].owner
    BY <1>1, <1>2, <2>1 DEF OwnersHold
  <2>2. CASE k \in Requests /\ InsertKey(k) /\ keys'[k] = IssuedKey(k)
    <3>1. keys'[k].owner = call[k].user /\ call' = call /\ k \notin DOMAIN Opening
      BY <2>2, KeysAssumption DEF IssuedKey, InsertKey, KeysAssumption
    <3> QED
      BY <3>1 DEF MakerIn
  <2> QED
    BY <1>3, <2>1, <2>2, KeysMove
<1>4. ASSUME NEW q \in DOMAIN logs'
      PROVE  logs'[q].key \in IssuedIds' /\ logs'[q].owner = MakerIn(call', logs'[q].key)
  <2>1. CASE q \in DOMAIN logs /\ logs'[q] = logs[q]
    BY <1>1, <2>1 DEF OwnersHold
  <2>2. CASE q \in Requests /\ InsertLog(q) /\ logs'[q].key = Key(q) /\ logs'[q].owner = call[q].user
    BY <1>1, <2>2 DEF OwnersHold, InsertLog
  <2> QED
    BY <1>4, <2>1, <2>2, LogsMove
<1>5. ASSUME NEW r \in Requests, pc'[r] = "insert_log"
      PROVE  call'[r].key \in IssuedIds' /\ call'[r].user = MakerIn(call', call'[r].key)
  <2>1. CASE pc[r] = "insert_log"
    <3>1. call'[r] = call[r]
      BY <2>1, CallsStay
    <3> QED
      BY <1>1, <2>1, <3>1 DEF OwnersHold, Key
  <2>2. CASE \E c \in Menu : LogUsage(r, c) /\ call'[r] = c
    <3>1. PICK c \in Menu : LogUsage(r, c) /\ call'[r] = c
      BY <2>2
    <3>2. c.key \in IssuedIds /\ c.user = MakerIn(call, c.key)
      BY <1>2, <3>1 DEF LogUsage, Known, IssuedIds, IssuedTo, MakerIn
    <3> QED
      BY <1>1, <3>1, <3>2 DEF Key
  <2> QED
    BY <1>5, <2>1, <2>2, CallsStay
<1> QED
  BY <1>3, <1>4, <1>5 DEF OwnersHold, Key

LEMMA OwnersAlways == Spec => []OwnersHold
<1>1. Init => OwnersHold
  BY DEF Init, OwnersHold, MakerIn
<1>2. KeyTypes /\ RefsInv /\ EndedInv /\ OwnersHold /\ [Next]_vars => OwnersHold'
  BY OwnersAreKept
<1> QED
  BY <1>1, <1>2, TypesAlways, RefsAlways, EndedInductive, PTL DEF Spec

\* Who is about to commit and is answered has committed.
LEMMA AnsweredCommits ==
  ASSUME KeyTypes, [Next]_vars, NEW r \in Requests, pc[r] = "commit", pc'[r] = "ok"
  PROVE  Commit(r)
<1>1. \A q \in Requests : \A step : pc' = [pc EXCEPT ![q] = step] => q = r /\ step = "ok"
  BY DEF KeyTypes, PlaceInv
<1>2. ASSUME NEW q \in Requests, NEW c \in Menu, Receive(q, c)
      PROVE  FALSE
  <2>1. PICK step : Accept(q, c, step)
    BY <1>2 DEF Receive, GenerateKey, ConsumerKey, RevokeKey, RevokeAll, ValidateKey,
                LogUsage, ForceClean
  <2> QED
    BY <1>1, <2>1 DEF Accept, Goto
<1>3. ASSUME NEW q \in Requests, Handle(q)
      PROVE  Commit(r)
  <2>1. PICK step : pc' = [pc EXCEPT ![q] = step]
    BY <1>3 DEF Handle, ResolveProvider, Resolve, InsertKey, ReadFlag, SetFlag,
                SetFlagFails, SendsWelcome, FindKey, UpdateKey, UpdateAllKeys, Revokes,
                LookUpKey, RecordFailure, InsertLog, ResolvePayer, DropLogs, DropKeys, DropsKeys,
                DropTenant, DropPrefs, Drop, RollBack, Commit, DbFails, Goto
  <2>2. q = r
    BY <1>1, <2>1
  <2>3. Commit(r) \/ DbFails(r)
    BY <1>3, <2>2 DEF Handle, ResolveProvider, Resolve, InsertKey, ReadFlag, SetFlag,
                SetFlagFails, FindKey, UpdateKey, UpdateAllKeys, LookUpKey, RecordFailure,
                InsertLog, ResolvePayer, DropLogs, DropKeys, DropTenant, DropPrefs
  <2>4. ~DbFails(r)
    BY <1>1 DEF DbFails, Goto
  <2> QED
    BY <2>3, <2>4
<1>4. ~Restart
  BY DEF Restart, InFlight, Ended
<1>5. ~(UNCHANGED pc)
  OBVIOUS
<1> QED
  BY <1>2, <1>3, <1>4, <1>5 DEF Next, Tick, Finished, vars

\* A removal that is answered leaves no key and no log of its user, also of
\* those made while it ran: those it did not see are still there with their
\* user's preferences, which it would not have been let delete (cleanup.rs).
THEOREM RemovalLeavesNothing == Spec => RemovalIsTotal
<1>1. ASSUME KeyTypes, RefsInv, OwnersHold, [Next]_vars,
             NEW r \in Requests, pc[r] = "commit", pc'[r] = "ok",
             PrefsRow(call[r].user) \in gone[r]
      PROVE  /\ \A k \in DOMAIN keys' : keys'[k].owner # call[r].user
             /\ \A q \in DOMAIN logs' : logs'[q].owner # call[r].user
  <2>1. Commit(r)
    BY <1>1, AnsweredCommits
  <2>2. ASSUME NEW k \in DOMAIN keys, KeyRow(k) \notin gone[r]
        PROVE  keys[k].owner # call[r].user
    BY <1>1, <2>2 DEF RefsInv, ViewsHold
  <2>3. ASSUME NEW k \in DOMAIN keys'
        PROVE  keys'[k].owner # call[r].user
    <3>1. k \in DOMAIN keys /\ KeyRow(k) \notin gone[r] /\ keys'[k] = keys[k]
      BY <2>1, <2>3 DEF Commit, Without
    <3> QED
      BY <2>2, <3>1
  <2>4. ASSUME NEW q \in DOMAIN logs'
        PROVE  logs'[q].owner # call[r].user
    <3>1. q \in DOMAIN logs /\ LogRow(q) \notin gone[r] /\ logs'[q] = logs[q]
      BY <2>1, <2>4 DEF Commit, Without
    <3>2. PICK k \in DOMAIN keys : k = logs[q].key
      BY <1>1, <3>1 DEF RefsInv, ReferencesHold
    <3>3. KeyRow(k) \notin gone[r]
      BY <1>1, <3>1, <3>2 DEF RefsInv, ViewsHold
    <3>4. logs[q].owner = keys[k].owner
      BY <1>1, <3>1, <3>2 DEF OwnersHold
    <3> QED
      BY <2>2, <3>1, <3>3, <3>4
  <2> QED
    BY <2>3, <2>4
<1>2. KeyTypes /\ RefsInv /\ OwnersHold /\ [Next]_vars =>
        [\A r \in Requests :
           pc[r] = "commit" /\ pc'[r] = "ok" /\ PrefsRow(call[r].user) \in gone[r] =>
           /\ \A k \in DOMAIN keys' : keys'[k].owner # call[r].user
           /\ \A q \in DOMAIN logs' : logs'[q].owner # call[r].user]_vars
  BY <1>1
<1> QED
  BY <1>2, TypesAlways, RefsAlways, OwnersAlways, PTL DEF Spec, RemovalIsTotal

-----------------------------------------------------------------------------
(* The welcome mail.  Of a user for whom nothing is excused, one request    *)
(* has sent it, after which the flag is set, or one is about to.            *)

Welcomed(u) == \E m \in mails : m[1] = u
AtFlag(r, u) == pc[r] = "set_flag" /\ call[r].user = u

WelcomeInv ==
  \A u \in Users \ excused :
    /\ \A m, n \in mails : m[1] = u /\ n[1] = u => m = n
    /\ Welcomed(u) => u \in DOMAIN prefs /\ prefs[u]
    /\ \A r \in Requests : AtFlag(r, u) =>
         /\ u \in DOMAIN prefs /\ ~Welcomed(u)
         /\ \A q \in Requests : AtFlag(q, u) => q = r

\* The flags of those who are not excused stay, unless they are being welcomed.
LEMMA FlagsStay ==
  ASSUME KeyTypes, [Next]_vars, NEW u \in Users \ excused', u \in DOMAIN prefs
  PROVE  u \notin excused /\ u \in DOMAIN prefs' /\ (prefs[u] => prefs'[u])
<1>1. CASE \E r \in Requests : Commit(r)
  <2>1. PICK r \in Requests : Commit(r)
    BY <1>1
  <2>2. u \notin excused /\ PrefsRow(u) \notin gone[r]
    BY <2>1 DEF Commit
  <2> QED
    BY <2>1, <2>2 DEF Commit, Without
<1>2. CASE ~\E r \in Requests : Commit(r)
  <2>0. AccountsOK
    BY TypeParts DEF KeyTypes
  <2>1. ASSUME NEW v, Resolved(v)
        PROVE  u \in DOMAIN prefs' /\ prefs'[u] = prefs[u]
    BY <2>1 DEF Resolved, With
  <2>2. ASSUME NEW r \in Requests, SetFlag(r)
        PROVE  u \in DOMAIN prefs' /\ (prefs[u] => prefs'[u]) /\ UNCHANGED excused
    BY <2>2 DEF SetFlag
  <2>3. ASSUME NEW r \in Requests, Handle(r)
        PROVE  u \notin excused /\ u \in DOMAIN prefs' /\ (prefs[u] => prefs'[u])
    BY <1>2, <2>1, <2>2, <2>3
       DEF Handle, ResolveProvider, Resolve, InsertKey, ReadFlag, SetFlagFails, FindKey, UpdateKey,
           UpdateAllKeys, Revokes, LookUpKey, RecordFailure, InsertLog, ResolvePayer, DropLogs,
           DropKeys, DropsKeys, DropTenant, DropPrefs, Drop, RollBack, DbFails, rows, history
  <2>4. ASSUME NEW r \in Requests, NEW c \in Menu, Receive(r, c)
        PROVE  UNCHANGED <<prefs, excused>>
    BY <2>4 DEF Receive, GenerateKey, ConsumerKey, RevokeKey, RevokeAll, ValidateKey, LogUsage,
                ForceClean, rows, history
  <2> QED
    BY <2>3, <2>4 DEF Next, Restart, Tick, Finished, vars, rows, history
<1> QED
  BY <1>1, <1>2

\* The reading of an unset flag, which excuses the user when another has read it.
LEMMA ReadFlagWelcomes ==
  ASSUME KeyTypes, WelcomeInv, [Next]_vars, NEW r \in Requests, ReadFlag(r)
  PROVE  WelcomeInv'
<1>0. UNCHANGED <<prefs, mails, call>> /\ pc[r] = "read_flag" /\ PlaceInv
  BY DEF ReadFlag, rows, KeyTypes
<1>1. CASE HasOwner(r) /\ ~prefs[call[r].user]
  <2>0. PICK v : v = call[r].user
    OBVIOUS
  <2>1. /\ pc' = [pc EXCEPT ![r] = "set_flag"]
        /\ excused' = IF FlagRace(r) THEN excused \cup {v} ELSE excused
        /\ v \in DOMAIN prefs /\ ~prefs[v]
    BY <1>1, <2>0 DEF ReadFlag, HasOwner, Goto
  <2>2. pc'[r] = "set_flag" /\ \A q \in Requests \ {r} : pc'[q] = pc[q]
    BY <1>0, <2>1 DEF PlaceInv
  <2>3. \A u : Welcomed(u)' <=> Welcomed(u)
    BY <1>0 DEF Welcomed
  <2>4. \A u : \A q \in Requests : AtFlag(q, u)' <=> AtFlag(q, u) \/ (q = r /\ u = v)
    BY <1>0, <2>0, <2>2 DEF AtFlag
  <2>5. ASSUME NEW u \in Users \ excused'
        PROVE  /\ \A m, n \in mails : m[1] = u /\ n[1] = u => m = n
               /\ Welcomed(u) => u \in DOMAIN prefs /\ prefs[u]
               /\ \A q \in Requests : AtFlag(q, u) \/ (q = r /\ u = v) =>
                    /\ u \in DOMAIN prefs /\ ~Welcomed(u)
                    /\ \A p \in Requests : AtFlag(p, u) \/ (p = r /\ u = v) => p = q
    <3>1. u \notin excused
      BY <2>1, <2>5
    <3>2. CASE u # v
      BY <3>1, <3>2 DEF WelcomeInv
    <3>3. CASE u = v
      <4>1. ~FlagRace(r)
        BY <2>1, <2>5, <3>3
      <4>2. \A q \in Requests : ~AtFlag(q, u)
        BY <1>0, <2>0, <3>3, <4>1 DEF FlagRace, AtFlag
      <4>3. ~Welcomed(u)
        BY <2>1, <3>1, <3>3 DEF WelcomeInv
      <4> QED
        BY <2>1, <3>1, <3>3, <4>2, <4>3 DEF WelcomeInv
    <3> QED
      BY <3>2, <3>3
  <2> QED
    BY <1>0, <2>3, <2>4, <2>5 DEF WelcomeInv
<1>2. CASE ~(HasOwner(r) /\ ~prefs[call[r].user])
  <2>1. pc' = [pc EXCEPT ![r] = "ok"] /\ UNCHANGED excused
    BY <1>2 DEF ReadFlag, Goto
  <2>2. \A u : \A q \in Requests : AtFlag(q, u)' => AtFlag(q, u)
    BY <1>0, <2>1 DEF AtFlag, PlaceInv
  <2>3. \A u : Welcomed(u)' <=> Welcomed(u)
    BY <1>0 DEF Welcomed
  <2> QED
    BY <1>0, <2>1, <2>2, <2>3 DEF WelcomeInv
<1> QED
  BY <1>1, <1>2

\* The mail goes out with the flag, and was the only one on its way.
LEMMA SetFlagWelcomes ==
  ASSUME KeyTypes, WelcomeInv, [Next]_vars, NEW r \in Requests, SetFlag(r) \/ SetFlagFails(r)
  PROVE  WelcomeInv'
<1>0. PICK v : v = call[r].user
  OBVIOUS
<1>1. /\ UNCHANGED call /\ pc[r] = "set_flag" /\ PlaceInv /\ AtFlag(r, v)
      /\ mails' = mails \cup {<<v, r>>} /\ pc' = [pc EXCEPT ![r] = "ok"]
  BY <1>0 DEF SetFlag, SetFlagFails, SendsWelcome, Goto, KeyTypes, AtFlag
<1>2. \A u : \A q \in Requests : AtFlag(q, u)' => AtFlag(q, u) /\ q # r
  BY <1>1 DEF AtFlag, PlaceInv
<1>3. \A u : Welcomed(u)' <=> Welcomed(u) \/ u = v
  <2>1. PICK mail : mail = <<v, r>>
    OBVIOUS
  <2>2. mail[1] = v /\ mails' = mails \cup {mail}
    BY <1>1, <2>1
  <2> QED
    BY <2>2 DEF Welcomed
<1>4. ASSUME NEW u \in Users \ excused'
      PROVE  /\ \A m, n \in mails' : m[1] = u /\ n[1] = u => m = n
             /\ Welcomed(u) \/ u = v => u \in DOMAIN prefs' /\ prefs'[u]
             /\ \A q \in Requests : AtFlag(q, u) /\ q # r =>
                  /\ u \in DOMAIN prefs' /\ ~Welcomed(u) /\ u # v
                  /\ \A p \in Requests : AtFlag(p, u) /\ p # r => p = q
  <2>1. u \notin excused
    BY <1>4 DEF SetFlag, SetFlagFails
  <2>2. u \in DOMAIN prefs => u \in DOMAIN prefs' /\ (prefs[u] => prefs'[u])
    BY <1>4, FlagsStay
  <2>3. CASE u # v
    BY <1>1, <2>1, <2>2, <2>3 DEF WelcomeInv
  <2>4. CASE u = v
    <3>1. SetFlag(r)
      BY <1>0, <1>4, <2>4 DEF SetFlagFails
    <3>2. /\ v \in DOMAIN prefs /\ ~Welcomed(v)
          /\ \A q \in Requests : AtFlag(q, v) => q = r
      BY <1>1, <2>1, <2>4 DEF WelcomeInv
    <3>3. v \in DOMAIN prefs' /\ prefs'[v]
      BY <1>0, <3>1, <3>2 DEF SetFlag
    <3>4. \A m \in mails : m[1] # v
      BY <3>2 DEF Welcomed
    <3>5. \A m, n \in mails' : m[1] = v /\ n[1] = v => m = n
      BY <1>1, <3>4
    <3> QED
      BY <2>4, <3>2, <3>3, <3>5
  <2> QED
    BY <2>3, <2>4
<1> QED
  BY <1>2, <1>3, <1>4 DEF WelcomeInv

\* The other statements neither come to the flag nor send the mail.
LEMMA OthersWelcome ==
  ASSUME KeyTypes, WelcomeInv, [Next]_vars,
         \A r \in Requests : ~ReadFlag(r) /\ ~SetFlag(r) /\ ~SetFlagFails(r)
  PROVE  WelcomeInv'
<1>0. PlaceInv
  BY DEF KeyTypes
<1>1. /\ UNCHANGED mails /\ excused \subseteq excused'
      /\ \A q \in Requests : pc'[q] = "set_flag" => pc[q] = "set_flag"
  <2>1. ASSUME NEW r \in Requests, NEW step, pc' = [pc EXCEPT ![r] = step], step # "set_flag"
        PROVE  \A q \in Requests : pc'[q] = "set_flag" => pc[q] = "set_flag"
    BY <1>0, <2>1 DEF PlaceInv
  <2>2. ASSUME NEW r \in Requests, NEW c \in Menu, Receive(r, c)
        PROVE  /\ UNCHANGED <<mails, excused>>
               /\ \E step : pc' = [pc EXCEPT ![r] = step] /\ step # "set_flag"
    BY <2>2 DEF Receive, GenerateKey, ConsumerKey, RevokeKey, RevokeAll, ValidateKey, LogUsage,
                ForceClean, Accept, Goto, history
  <2>3. ASSUME NEW r \in Requests, Handle(r)
        PROVE  /\ UNCHANGED mails /\ excused \subseteq excused'
               /\ \E step : pc' = [pc EXCEPT ![r] = step] /\ step # "set_flag"
    <3>1. UNCHANGED mails /\ excused \subseteq excused'
      BY <2>3 DEF Handle, ResolveProvider, Resolve, InsertKey, FindKey, UpdateKey,
           UpdateAllKeys, Revokes, LookUpKey, RecordFailure, InsertLog, ResolvePayer, DropLogs,
           DropKeys, DropsKeys, DropTenant, DropPrefs, Drop, RollBack, Commit, DbFails, history
    <3>2. CASE ResolveProvider(r) \/ Resolve(r) \/ InsertKey(r)
      BY <3>1, <3>2 DEF ResolveProvider, Resolve, InsertKey, Goto
    <3>3. CASE LookUpKey(r) \/ RecordFailure(r) \/ InsertLog(r) \/ ResolvePayer(r)
      BY <3>1, <3>3 DEF LookUpKey, RecordFailure, InsertLog, ResolvePayer, Goto
    <3>4. CASE DropLogs(r) \/ DropKeys(r) \/ DropTenant(r) \/ DropPrefs(r)
      BY <3>1, <3>4 DEF DropLogs, DropKeys, DropsKeys, DropTenant, DropPrefs, Drop, RollBack, Goto
    <3>5. CASE FindKey(r) \/ UpdateKey(r) \/ UpdateAllKeys(r) \/ Commit(r)
      BY <3>1, <3>5 DEF FindKey, UpdateKey, UpdateAllKeys, Revokes, Commit, Goto
    <3>6. CASE DbFails(r)
      <4>1. PICK step \in {"ok", "error"} : pc' = [pc EXCEPT ![r] = step]
        BY <3>6 DEF DbFails, Goto
      <4> QED
        BY <3>1, <4>1
    <3> QED
      BY <2>3, <3>1, <3>2, <3>3, <3>4, <3>5, <3>6 DEF Handle
  <2>4. CASE Restart
    BY <2>4 DEF Restart, history, InFlight, Ended
  <2> QED
    BY <2>1, <2>2, <2>3, <2>4 DEF Next, Tick, Finished, vars, history
<1>2. \A u : \A q \in Requests : AtFlag(q, u)' => AtFlag(q, u)
  BY <1>1, CallsStay DEF AtFlag
<1>3. \A u : Welcomed(u)' <=> Welcomed(u)
  BY <1>1 DEF Welcomed
<1>4. \A u \in Users \ excused' : u \notin excused /\
        (u \in DOMAIN prefs => u \in DOMAIN prefs' /\ (prefs[u] => prefs'[u]))
  BY <1>1, FlagsStay
<1> QED
  BY <1>1, <1>2, <1>3, <1>4 DEF WelcomeInv

LEMMA WelcomeAlways == Spec => []WelcomeInv
<1>1. Init => WelcomeInv
  BY DEF Init, WelcomeInv, Welcomed, AtFlag
<1>2. KeyTypes /\ WelcomeInv /\ [Next]_vars => WelcomeInv'
  BY ReadFlagWelcomes, SetFlagWelcomes, OthersWelcome
<1> QED
  BY <1>1, <1>2, TypesAlways, PTL DEF Spec

\* A user is sent the welcome mail once, unless two first keys are made at
\* once, the UPDATE of the flag fails or the account is removed
\* (key_generate.rs, schema.sql).
THEOREM WelcomedOnce == Spec => []WelcomeOnce
<1>1. KeyTypes /\ WelcomeInv => WelcomeOnce
  BY DEF KeyTypes, TypeOK, WelcomeInv, WelcomeOnce
<1> QED
  BY <1>1, TypesAlways, WelcomeAlways, PTL

-----------------------------------------------------------------------------
(* Refusal.  A window that refuses is live, so that no eviction takes it     *)
(* and no failure starts it again; only the clock ends it.                   *)

LEMMA RefusalStays ==
  ASSUME KeyTypes, [Next]_vars, NEW k \in DOMAIN fails, Refused(k), ~Refused(k)'
  PROVE  now' - fails[k].started >= WindowSecs \/ Restart
<1>1. WindowsOK
  BY TypeParts DEF KeyTypes
<1>2. PICK window \in [count : Nat \ {0}, started : 0..now] : window = fails[k]
  BY <1>1 DEF WindowsOK
<1>3. now - window.started < WindowSecs /\ window.count >= MaxFailures
  BY <1>2, KeysAssumption DEF Refused, Allowed, Live, KeysAssumption
<1>4. k \in DOMAIN fails' /\ now' - fails'[k].started < WindowSecs => fails'[k].count < MaxFailures
  BY DEF Refused, Allowed, Live
<1>5. ~(now' = now /\ k \in DOMAIN fails' /\ fails'[k] = fails[k])
  BY <1>2, <1>3, <1>4, KeysAssumption DEF KeysAssumption
<1>6. ASSUME NEW r \in Requests, NEW c \in Menu, ValidateKey(r, c)
      PROVE  FALSE
  <2>1. Live(k)
    BY <1>2, <1>3 DEF Live
  <2>2. k \in DOMAIN Evicted /\ Evicted[k] = fails[k]
    BY <2>1 DEF Evicted
  <2> QED
    BY <1>5, <1>6, <2>2 DEF ValidateKey
<1>7. ASSUME NEW r \in Requests, RecordFailure(r)
      PROVE  FALSE
  <2>0. PICK x, counted : x = Key(r) /\ counted = Counted(x)
    OBVIOUS
  <2>1. fails' = With(fails, x, counted) /\ now' = now
    BY <1>7, <2>0 DEF RecordFailure
  <2>2. /\ DOMAIN fails' = DOMAIN fails \cup {x} /\ fails'[x] = counted
        /\ \A y \in DOMAIN fails \ {x} : fails'[y] = fails[y]
    BY <2>1 DEF With
  <2>3. CASE x # k
    BY <1>5, <2>1, <2>2, <2>3
  <2>4. CASE x = k
    <3>1. counted = [window EXCEPT !.count = window.count + 1]
      BY <1>2, <1>3, <2>0, <2>4 DEF Counted, Live
    <3>2. counted.started = window.started /\ counted.count = window.count + 1
      BY <3>1
    <3>3. counted.count >= MaxFailures
      BY <1>3, <3>2, KeysAssumption DEF KeysAssumption
    <3> QED
      BY <1>3, <1>4, <2>1, <2>2, <2>4, <3>2, <3>3, KeysAssumption DEF KeysAssumption
  <2> QED
    BY <2>3, <2>4
<1>8. CASE Tick
  <2>1. now' = now + 1 /\ fails' = fails
    BY <1>8 DEF Tick
  <2>2. ~(now' - window.started < WindowSecs)
    BY <1>2, <1>3, <1>4, <2>1, KeysAssumption DEF KeysAssumption
  <2>3. now' \in Nat /\ window.started \in Nat
    BY <1>1, <2>1 DEF WindowsOK
  <2> QED
    BY <1>2, <2>2, <2>3, KeysAssumption DEF KeysAssumption
<1>9. ASSUME NEW r \in Requests, Handle(r), ~RecordFailure(r)
      PROVE  UNCHANGED <<fails, now>>
  BY <1>9
     DEF Handle, ResolveProvider, Resolve, InsertKey, ReadFlag, SetFlag, SetFlagFails, FindKey,
         UpdateKey, UpdateAllKeys, Revokes, LookUpKey, InsertLog, ResolvePayer, DropLogs,
         DropKeys, DropsKeys, DropTenant, DropPrefs, Drop, RollBack, Commit, DbFails
<1>10. ASSUME NEW r \in Requests, NEW c \in Menu, Receive(r, c), ~ValidateKey(r, c)
       PROVE  UNCHANGED <<fails, now>>
  BY <1>10 DEF Receive, GenerateKey, ConsumerKey, RevokeKey, RevokeAll, LogUsage, ForceClean
<1> QED
  BY <1>5, <1>6, <1>7, <1>8, <1>9, <1>10 DEF Next, Finished, vars

\* Who is refused stays so until the window has run its length or the server is
\* restarted, whatever others fail at and whatever is evicted (key_validate.rs).
THEOREM RefusedForTheWindow == Spec => RefusedUntilWindowEnds
<1>1. KeyTypes /\ [Next]_vars =>
        [\A k \in DOMAIN fails :
           Refused(k) /\ ~Refused(k)' => now' - fails[k].started >= WindowSecs \/ Restart]_vars
  BY RefusalStays
<1> QED
  BY <1>1, TypesAlways, PTL DEF Spec, RefusedUntilWindowEnds
=============================================================================
