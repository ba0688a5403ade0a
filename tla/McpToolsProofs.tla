--------------------------- MODULE McpToolsProofs ---------------------------
(***************************************************************************)
(* The safety theorems of McpTools, for any requests, endpoints, files and *)
(* names.                                                                  *)
(*                                                                         *)
(* What is known of a request (CallInv) survives whatever others do with   *)
(* the rows and the endpoints (OthersKeep), because what they take away is *)
(* taken from what the request has kept; so each step has to show only     *)
(* what it does to the request that makes it.                              *)
(***************************************************************************)
EXTENDS McpTools, TLAPS

\* The names of endpoints the user has, or has had.
Known == Slugs(eps) \cup removed
Active == ActiveIn(tools)
Asked(r) == IF call[r].kind = "get" THEN {call[r].name} ELSE Names

Importing == {"clean", "resolve", "replace", "again", "sync"}
ReadSteps == {"rows", "endpoints"}

StageInv(r) ==
  /\ pc[r] = "idle" => explicit[r] = {} /\ virtual[r] = {}
  /\ pc[r] \in ReadSteps => call[r].kind \in {"list", "get"} /\ virtual[r] = {}
  /\ pc[r] = "rows" => explicit[r] = {}
  /\ pc[r] \in Importing => call[r].kind = "upload"
  /\ pc[r] \in ReadSteps \cup {"replace", "again", "sync"} => tid[r] # 0
  /\ todo[r] # {} => pc[r] \in {"sync", "lost"}

\* A tenant that is gone took its rows with it, and the endpoints went before.
ReaderInv(r) ==
  /\ pc[r] \in ReadSteps =>
       /\ kept[r] \subseteq Active /\ there[r] \subseteq eps
       /\ tid[r] # tenant => kept[r] = {} /\ there[r] = {}
  /\ pc[r] = "endpoints" =>
       /\ kept[r] \cap Asked(r) \subseteq explicit[r]
       /\ call[r].kind = "get" => explicit[r] = {}
  /\ pc[r] = "ok" /\ call[r].kind # "upload" =>
       /\ kept[r] \cap Asked(r) \subseteq explicit[r]
       /\ Slugs(there[r]) \cap Asked(r) \subseteq explicit[r] \cup virtual[r]
       /\ explicit[r] \cap virtual[r] = {}

ImportInv(r) ==
  /\ pc[r] \in {"again", "sync"} => Slugs(call[r].import) \subseteq Known
  /\ pc[r] = "sync" =>
       /\ todo[r] \subseteq call[r].import
       /\ Slugs(call[r].import) \ (undone[r] \cup Slugs(todo[r])) \subseteq Active
  /\ pc[r] = "ok" /\ call[r].kind = "upload" =>
       Slugs(call[r].import) \ undone[r] \subseteq Active

CallInv(r) == StageInv(r) /\ ReaderInv(r) /\ ImportInv(r)

McpInv ==
  /\ TypeOK
  /\ StaleOnlyByRemoval
  /\ \A r \in Requests : CallInv(r)

-----------------------------------------------------------------------------
(* Names.                                                                  *)

LEMMA SlugFacts ==
  /\ Slugs({}) = {}
  /\ \A S : S \subseteq Endpoints => Slugs(S) \subseteq Names
  /\ \A S, T : Slugs(S \cup T) = Slugs(S) \cup Slugs(T)
  /\ \A S, T : S \subseteq T => Slugs(S) \subseteq Slugs(T)
  /\ \A S, e : e \in S => Slugs(S) \subseteq Slugs(S \ {e}) \cup {Slug[e]}
  /\ \A S, e : e \in S /\ Slug[e] # NoName => Slug[e] \in Slugs(S)
  /\ \A S, e : e \in S /\ Slug[e] = NoName => Slugs(S) \subseteq Slugs(S \ {e})
  BY McpToolsAssumption DEF Slugs

LEMMA ImportsAreEndpoints ==
  ASSUME NEW c \in Calls, c.kind = "upload"
  PROVE  c.import \subseteq Endpoints
  BY McpToolsAssumption DEF Calls

-----------------------------------------------------------------------------
(* Steps made for others.                                                  *)

Unmoved(r) ==
  /\ pc'[r] = pc[r] /\ call'[r] = call[r] /\ tid'[r] = tid[r] /\ todo'[r] = todo[r]
  /\ explicit'[r] = explicit[r] /\ virtual'[r] = virtual[r]

\* What others may do to what r relies on: of what it has kept r keeps what is
\* left, and what was undone is known to be.
Spared(r) ==
  /\ r \in Reading => kept'[r] = kept[r] \cap Active' /\ there'[r] = there[r] \cap eps'
  /\ r \notin Reading => kept'[r] = kept[r] /\ there'[r] = there[r]
  /\ tenant' = tenant \/ tenant = 0 \/ (eps' = {} /\ Active' = {})
  /\ pc[r] \in {"sync", "ok"} =>
       undone[r] \subseteq undone'[r] /\ Active \subseteq Active' \cup undone'[r] \cup Slugs(todo[r])
  /\ Known \subseteq Known'

LEMMA OthersKeep ==
  ASSUME NEW r \in Requests, CallInv(r), Unmoved(r), Spared(r)
  PROVE  CallInv(r)'
  <1>1. StageInv(r)'
    BY DEF CallInv, StageInv, Unmoved
  <1>2. Asked(r)' = Asked(r)
    BY DEF Asked, Unmoved
  <1>3. ReaderInv(r)'
    <2>1. CASE r \in Reading
      <3>1. pc[r] \in ReadSteps /\ tid[r] # 0 /\ pc'[r] = pc[r]
        BY <2>1 DEF Reading, ReadSteps, CallInv, StageInv, Unmoved
      <3>2. /\ kept'[r] \subseteq Active' /\ there'[r] \subseteq eps'
            /\ kept'[r] \subseteq kept[r] /\ there'[r] \subseteq there[r]
        BY <2>1 DEF Spared
      <3>3. tid[r] # tenant' => kept'[r] = {} /\ there'[r] = {}
        BY <2>1, <3>1, <3>2 DEF Spared, CallInv, ReaderInv
      <3> QED
        BY <1>2, <3>1, <3>2, <3>3 DEF CallInv, ReaderInv, Unmoved, ReadSteps
    <2>2. CASE r \notin Reading
      <3>1. pc[r] \notin ReadSteps /\ pc'[r] = pc[r] /\ kept'[r] = kept[r] /\ there'[r] = there[r]
        BY <2>2 DEF Reading, ReadSteps, Spared, Unmoved
      <3> QED
        BY <1>2, <3>1 DEF CallInv, ReaderInv, Unmoved, ReadSteps
    <2> QED
      BY <2>1, <2>2
  <1>4. ImportInv(r)'
    <2>1. pc[r] = "ok" => Slugs(todo[r]) = {}
      BY SlugFacts DEF CallInv, StageInv
    <2>2. pc'[r] = pc[r] /\ call'[r] = call[r] /\ todo'[r] = todo[r]
      BY DEF Unmoved
    <2>3. pc[r] \in {"again", "sync"} => Slugs(call[r].import) \subseteq Known'
      BY DEF CallInv, ImportInv, Spared
    <2>4. ASSUME pc[r] = "sync"
          PROVE  todo[r] \subseteq call[r].import
                 /\ Slugs(call[r].import) \ (undone'[r] \cup Slugs(todo[r])) \subseteq Active'
      BY <2>4 DEF CallInv, ImportInv, Spared
    <2>5. ASSUME pc[r] = "ok", call[r].kind = "upload"
          PROVE  Slugs(call[r].import) \ undone'[r] \subseteq Active'
      BY <2>1, <2>5 DEF CallInv, ImportInv, Spared
    <2> QED
      BY <2>2, <2>3, <2>4, <2>5 DEF ImportInv
  <1> QED
    BY <1>1, <1>3, <1>4 DEF CallInv

\* A step of r: what it does to r, to the rows, and nothing to others.
LEMMA StepOf ==
  ASSUME McpInv, TypeOK', NEW r \in Requests, CallInv(r)',
         \A q \in Requests \ {r} : Unmoved(q) /\ Spared(q),
         Known \subseteq Known',
         \A n \in Names : tools'[n].from = "import" => tools[n].from = "import" \/ n \in Known'
  PROVE  McpInv'
  <1>1. \A q \in Requests \ {r} : CallInv(q)'
    BY OthersKeep DEF McpInv
  <1>2. StaleOnlyByRemoval'
    BY DEF McpInv, StaleOnlyByRemoval, Known
  <1> QED
    BY <1>1, <1>2 DEF McpInv

\* A step of nobody's.
LEMMA StepOfNobody ==
  ASSUME McpInv, TypeOK', \A q \in Requests : Unmoved(q) /\ Spared(q),
         Known \subseteq Known',
         \A n \in Names : tools'[n].from = "import" => tools[n].from = "import" \/ n \in Known'
  PROVE  McpInv'
  <1>1. \A q \in Requests : CallInv(q)'
    BY OthersKeep DEF McpInv
  <1>2. StaleOnlyByRemoval'
    BY DEF McpInv, StaleOnlyByRemoval, Known
  <1> QED
    BY <1>1, <1>2 DEF McpInv

\* A step of r that leaves the rows alone.
LEMMA StepApart ==
  ASSUME McpInv, TypeOK', NEW r \in Requests, CallInv(r)', UNCHANGED <<dbVars, removed>>,
         \A q \in Requests \ {r} :
           Unmoved(q) /\ kept'[q] = kept[q] /\ there'[q] = there[q] /\ undone'[q] = undone[q]
  PROVE  McpInv'
  <1>1. Known' = Known /\ Active' = Active /\ tools' = tools /\ tenant' = tenant /\ eps' = eps
    BY DEF Known, Active, ActiveIn, dbVars
  <1>2. ASSUME NEW q \in Requests \ {r}
        PROVE  Spared(q)
    <2>1. q \in Reading => kept[q] \subseteq Active /\ there[q] \subseteq eps
      BY DEF McpInv, CallInv, ReaderInv, Reading, ReadSteps
    <2> QED
      BY <1>1, <2>1 DEF Spared
  <1> QED
    BY <1>1, <1>2, StepOf

-----------------------------------------------------------------------------
(* The reader's steps.                                                     *)

LEMMA ReadKeeps ==
  ASSUME McpInv, NEW r \in Requests, NEW c \in Calls, Read(r, c)
  PROVE  McpInv'
  <1>0. TypeOK /\ CallInv(r)
    BY DEF McpInv
  <1>1. /\ pc[r] = "idle" /\ c.kind \in {"list", "get"} /\ tenant # 0
        /\ call' = [call EXCEPT ![r] = c] /\ tid' = [tid EXCEPT ![r] = tenant]
        /\ kept' = [kept EXCEPT ![r] = Active] /\ there' = [there EXCEPT ![r] = eps]
        /\ pc' = [pc EXCEPT ![r] = "rows"]
        /\ UNCHANGED <<tenant, made, grouped, eps, tools, todo, explicit, virtual, undone, removed>>
    BY DEF Read, Goto, dbVars, readVars, Active
  <1>2. Active \subseteq Names /\ Active' = Active /\ tenant \in 0..made
    BY <1>0, <1>1 DEF Active, ActiveIn, TypeOK
  <1>3. TypeOK'
    BY <1>0, <1>1, <1>2 DEF TypeOK
  <1>4. pc'[r] = "rows" /\ call'[r] = c /\ tid'[r] = tenant /\ kept'[r] = Active /\ there'[r] = eps
    BY <1>0, <1>1 DEF TypeOK
  <1>5. StageInv(r)'
    BY <1>0, <1>1, <1>4 DEF CallInv, StageInv, ReadSteps, Importing
  <1>6. ReaderInv(r)' /\ ImportInv(r)'
    BY <1>1, <1>2, <1>4 DEF ReaderInv, ImportInv
  <1>7. \A q \in Requests \ {r} :
           Unmoved(q) /\ kept'[q] = kept[q] /\ there'[q] = there[q] /\ undone'[q] = undone[q]
    BY <1>0, <1>1 DEF TypeOK, Unmoved
  <1>8. CallInv(r)'
    BY <1>5, <1>6 DEF CallInv
  <1> QED
    BY <1>1, <1>3, <1>7, <1>8, StepApart DEF dbVars

\* A reader's step changes its answer only.
LEMMA AnswerStep ==
  ASSUME McpInv, NEW r \in Requests, pc[r] \in ReadSteps,
         NEW step \in {"endpoints", "ok", "error"}, pc' = [pc EXCEPT ![r] = step],
         UNCHANGED <<dbVars, call, tid, todo, ghostVars>>,
         NEW x \in SUBSET Names, explicit' = [explicit EXCEPT ![r] = x],
         NEW y \in SUBSET Names, virtual' = [virtual EXCEPT ![r] = y],
         step = "endpoints" =>
           y = {} /\ kept[r] \cap Asked(r) \subseteq x /\ (call[r].kind = "get" => x = {}),
         step = "ok" =>
           /\ kept[r] \cap Asked(r) \subseteq x
           /\ Slugs(there[r]) \cap Asked(r) \subseteq x \cup y
           /\ x \cap y = {}
  PROVE  McpInv'
  <1>0. TypeOK /\ CallInv(r)
    BY DEF McpInv
  <1>1. UNCHANGED <<tenant, made, grouped, eps, tools, call, tid, todo, kept, there, undone, removed>>
    BY DEF dbVars, ghostVars
  <1>2. TypeOK'
    BY <1>0, <1>1 DEF TypeOK, Ended
  <1>3. pc'[r] = step /\ explicit'[r] = x /\ virtual'[r] = y
    BY <1>0 DEF TypeOK
  <1>4. Asked(r)' = Asked(r) /\ Active' = Active
    BY <1>1 DEF Asked, Active, ActiveIn
  <1>5. StageInv(r)'
    BY <1>0, <1>1, <1>3 DEF CallInv, StageInv, ReadSteps, Importing
  <1>6. ReaderInv(r)'
    BY <1>0, <1>1, <1>3, <1>4 DEF CallInv, ReaderInv, ReadSteps
  <1>7. ImportInv(r)'
    BY <1>0, <1>1, <1>3 DEF CallInv, StageInv, ImportInv
  <1>8. \A q \in Requests \ {r} :
           Unmoved(q) /\ kept'[q] = kept[q] /\ there'[q] = there[q] /\ undone'[q] = undone[q]
    BY <1>0, <1>1 DEF TypeOK, Unmoved
  <1> QED
    BY <1>1, <1>2, <1>5, <1>6, <1>7, <1>8, StepApart DEF CallInv, dbVars

\* What the rows and the endpoints hold for r of what was there all the time.
LEMMA AnswerFacts ==
  ASSUME McpInv, NEW r \in Requests, pc[r] \in ReadSteps
  PROVE  /\ Own(r) \subseteq Names /\ kept[r] \subseteq Own(r)
         /\ Slugs(Visible(r)) \subseteq Names /\ Slugs(there[r]) \subseteq Slugs(Visible(r))
         /\ virtual[r] = {} /\ explicit[r] \subseteq Names /\ call[r].kind \in {"list", "get"}
  <1>1. TypeOK /\ ReaderInv(r) /\ StageInv(r)
    BY DEF McpInv, CallInv
  <1>2. Own(r) \subseteq Names /\ kept[r] \subseteq Own(r)
    BY <1>1 DEF Own, Active, ActiveIn, ReaderInv
  <1>3. Visible(r) \subseteq Endpoints /\ there[r] \subseteq Visible(r)
    BY <1>1 DEF Visible, TypeOK, ReaderInv
  <1> QED
    BY <1>1, <1>2, <1>3, SlugFacts DEF TypeOK, StageInv

LEMMA AnsweringKeeps ==
  ASSUME McpInv, NEW r \in Requests,
         ListRows(r) \/ ListEndpoints(r) \/ GetRow(r) \/ GetEndpoint(r) \/ ReadFails(r)
  PROVE  McpInv'
  <1>0. TypeOK /\ ReaderInv(r) /\ StageInv(r)
    BY DEF McpInv, CallInv
  <1>1. pc[r] \in ReadSteps
    BY DEF ListRows, ListEndpoints, GetRow, GetEndpoint, ReadFails, Reading, ReadSteps
  <1>2. /\ Own(r) \subseteq Names /\ kept[r] \subseteq Own(r)
        /\ Slugs(Visible(r)) \subseteq Names /\ Slugs(there[r]) \subseteq Slugs(Visible(r))
        /\ virtual[r] = {} /\ explicit[r] \subseteq Names
    BY <1>1, AnswerFacts
  <1>3. virtual = [virtual EXCEPT ![r] = {}] /\ explicit = [explicit EXCEPT ![r] = explicit[r]]
    BY <1>0, <1>2 DEF TypeOK
  <1>4. CASE ListRows(r)
    <2>1. /\ pc' = [pc EXCEPT ![r] = "endpoints"] /\ call[r].kind = "list"
          /\ explicit' = [explicit EXCEPT ![r] = Own(r)] /\ virtual' = [virtual EXCEPT ![r] = {}]
          /\ UNCHANGED <<dbVars, call, tid, todo, ghostVars>>
      BY <1>3, <1>4 DEF ListRows, Goto
    <2> QED
      BY <1>1, <1>2, <2>1, AnswerStep
  <1>5. CASE ListEndpoints(r)
    <2>1. /\ pc[r] = "endpoints" /\ pc' = [pc EXCEPT ![r] = "ok"]
          /\ explicit' = [explicit EXCEPT ![r] = explicit[r]]
          /\ virtual' = [virtual EXCEPT ![r] = Slugs(Visible(r)) \ explicit[r]]
          /\ UNCHANGED <<dbVars, call, tid, todo, ghostVars>>
      BY <1>3, <1>5 DEF ListEndpoints, Goto
    <2>2. kept[r] \cap Asked(r) \subseteq explicit[r]
      BY <1>0, <2>1 DEF ReaderInv
    <2>3. /\ Slugs(there[r]) \cap Asked(r) \subseteq explicit[r] \cup (Slugs(Visible(r)) \ explicit[r])
          /\ explicit[r] \cap (Slugs(Visible(r)) \ explicit[r]) = {}
          /\ Slugs(Visible(r)) \ explicit[r] \in SUBSET Names /\ explicit[r] \in SUBSET Names
      BY <1>2
    <2> QED
      BY <1>1, <2>1, <2>2, <2>3, AnswerStep
  <1>6. CASE GetRow(r)
    <2>1. PICK x \in SUBSET Names : x = Own(r) \cap {call[r].name}
      BY <1>2
    <2>2. PICK step \in {"ok", "endpoints"} : step = IF x # {} THEN "ok" ELSE "endpoints"
      OBVIOUS
    <2>3. /\ explicit' = [explicit EXCEPT ![r] = x] /\ virtual' = [virtual EXCEPT ![r] = {}]
          /\ UNCHANGED <<dbVars, call, tid, todo, ghostVars>> /\ call[r].kind = "get"
      BY <1>3, <1>6, <2>1 DEF GetRow
    <2>4. explicit'[r] = x
      BY <1>0, <2>3 DEF TypeOK
    <2>5. pc' = [pc EXCEPT ![r] = step]
      BY <1>6, <2>2, <2>4 DEF GetRow, Goto
    <2>6. Asked(r) = {call[r].name}
      BY <2>3 DEF Asked
    <2>7. kept[r] \cap Asked(r) \subseteq x
      BY <1>2, <2>1, <2>6
    <2>8. step = "ok" => Slugs(there[r]) \cap Asked(r) \subseteq x \cup {} /\ x \cap {} = {}
      BY <2>1, <2>2, <2>6
    <2>9. step = "endpoints" => x = {}
      BY <2>2
    <2> QED
      BY <1>1, <2>3, <2>5, <2>7, <2>8, <2>9, AnswerStep
  <1>7. CASE GetEndpoint(r)
    <2>1. /\ pc[r] = "endpoints" /\ pc' = [pc EXCEPT ![r] = "ok"] /\ call[r].kind = "get"
          /\ explicit' = [explicit EXCEPT ![r] = explicit[r]]
          /\ virtual' = [virtual EXCEPT ![r] = Slugs(Visible(r)) \cap {call[r].name}]
          /\ UNCHANGED <<dbVars, call, tid, todo, ghostVars>>
      BY <1>3, <1>7 DEF GetEndpoint, Goto
    <2>2. explicit[r] = {} /\ kept[r] \cap Asked(r) \subseteq explicit[r] /\ Asked(r) = {call[r].name}
      BY <1>0, <2>1 DEF ReaderInv, Asked
    <2>3. /\ Slugs(there[r]) \cap Asked(r) \subseteq explicit[r] \cup (Slugs(Visible(r)) \cap {call[r].name})
          /\ explicit[r] \cap (Slugs(Visible(r)) \cap {call[r].name}) = {}
          /\ Slugs(Visible(r)) \cap {call[r].name} \in SUBSET Names /\ explicit[r] \in SUBSET Names
      BY <1>2, <2>2
    <2> QED
      BY <1>1, <2>1, <2>2, <2>3, AnswerStep
  <1>8. CASE ReadFails(r)
    <2>1. /\ pc' = [pc EXCEPT ![r] = "error"]
          /\ explicit' = [explicit EXCEPT ![r] = explicit[r]] /\ virtual' = [virtual EXCEPT ![r] = {}]
          /\ UNCHANGED <<dbVars, call, tid, todo, ghostVars>>
      BY <1>3, <1>8 DEF ReadFails, Goto, readVars
    <2> QED
      BY <1>1, <1>2, <2>1, AnswerStep
  <1> QED
    BY <1>4, <1>5, <1>6, <1>7, <1>8

-----------------------------------------------------------------------------
(* Rows and endpoints change.                                              *)

\* What a request that reads has kept of what the user has and had.
LEMMA SetToolsFacts ==
  ASSUME TypeOK, NEW rows, SetTools(rows)
  PROVE  /\ tools' = rows /\ Active' = ActiveIn(rows) /\ kept' \in [Requests -> SUBSET Names]
         /\ \A q \in Reading : kept'[q] = kept[q] \cap Active'
         /\ \A q \in Requests \ Reading : kept'[q] = kept[q]
  BY DEF SetTools, TypeOK, Active, Reading

LEMMA SetEndpointsFacts ==
  ASSUME TypeOK, NEW es \in SUBSET Endpoints, SetEndpoints(es)
  PROVE  /\ eps' = es /\ there' \in [Requests -> SUBSET Endpoints]
         /\ removed' \subseteq Names /\ Known \subseteq Known' /\ Slugs(es) \subseteq Known'
         /\ \A q \in Reading : there'[q] = there[q] \cap eps'
         /\ \A q \in Requests \ Reading : there'[q] = there[q]
  <1>1. eps' = es /\ removed' = (removed \cup Slugs(eps)) \ Slugs(es)
    BY DEF SetEndpoints
  <1>2. Slugs(eps) \subseteq Names /\ Known' = Slugs(es) \cup removed'
    BY <1>1, SlugFacts DEF TypeOK, Known
  <1>3. there' = [q \in Requests |-> IF q \in Reading THEN there[q] \cap es ELSE there[q]]
    BY DEF SetEndpoints
  <1>4. removed' \subseteq Names /\ Known \subseteq Known' /\ Slugs(es) \subseteq Known'
    BY <1>1, <1>2 DEF TypeOK, Known
  <1> QED
    BY <1>1, <1>3, <1>4 DEF TypeOK, Reading

LEMMA UndoFacts ==
  ASSUME TypeOK, NEW names \in SUBSET Names, Undo(names)
  PROVE  /\ undone' \in [Requests -> SUBSET Names]
         /\ \A q \in Requests : undone[q] \subseteq undone'[q]
         /\ \A q \in Requests : pc[q] \in {"sync", "ok"} => names \subseteq undone'[q] \cup Slugs(todo[q])
  BY DEF Undo, TypeOK

\* A row becomes active: whatever it was, and whoever puts it.
LEMMA PutFacts ==
  ASSUME TypeOK, NEW n \in Names, NEW from \in {"hand", "import"}, SetTools(Put(from, n))
  PROVE  /\ tools' \in [Names -> [from : {"hand", "import"}, active : BOOLEAN] \cup {NoTool}]
         /\ Active' = Active \cup {n}
         /\ \A m \in Names \ {n} : tools'[m] = tools[m]
         /\ tools'[n].from = from
  <1>1. PICK row \in [from : {"hand", "import"}, active : BOOLEAN] :
          row = [from |-> from, active |-> TRUE] /\ tools' = [tools EXCEPT ![n] = row]
    <2>1. [from |-> from, active |-> TRUE] \in [from : {"hand", "import"}, active : BOOLEAN]
      OBVIOUS
    <2>2. tools' = [tools EXCEPT ![n] = [from |-> from, active |-> TRUE]]
      BY DEF SetTools, Put
    <2> QED
      BY <2>1, <2>2
  <1>2. tools'[n] = row /\ row.active = TRUE /\ row.from = from
    BY <1>1 DEF TypeOK
  <1>3. \A m \in Names \ {n} : tools'[m] = tools[m]
    BY <1>1 DEF TypeOK
  <1>4. tools' \in [Names -> [from : {"hand", "import"}, active : BOOLEAN] \cup {NoTool}]
    BY <1>1 DEF TypeOK
  <1>5. Active' = Active \cup {n}
    BY <1>2, <1>3 DEF Active, ActiveIn
  <1> QED
    BY <1>2, <1>3, <1>4, <1>5

LEMMA UpsertMcpToolKeeps ==
  ASSUME McpInv, NEW n \in Names, UpsertMcpTool(n)
  PROVE  McpInv'
  <1>0. TypeOK
    BY DEF McpInv
  <1>1. /\ SetTools(Put("hand", n)) /\ tenant # 0
        /\ UNCHANGED <<tenant, made, grouped, eps, call, pc, tid, todo, explicit, virtual, there, undone, removed>>
    BY DEF UpsertMcpTool, readVars
  <1>2. /\ tools' \in [Names -> [from : {"hand", "import"}, active : BOOLEAN] \cup {NoTool}]
        /\ Active' = Active \cup {n}
        /\ \A m \in Names \ {n} : tools'[m] = tools[m]
        /\ tools'[n].from = "hand"
    BY <1>0, <1>1, PutFacts
  <1>3. /\ kept' \in [Requests -> SUBSET Names]
        /\ \A q \in Reading : kept'[q] = kept[q] \cap Active'
        /\ \A q \in Requests \ Reading : kept'[q] = kept[q]
    BY <1>0, <1>1, SetToolsFacts
  <1>4. TypeOK'
    BY <1>0, <1>1, <1>2, <1>3 DEF TypeOK
  <1>5. Known' = Known
    BY <1>1 DEF Known
  <1>6. ASSUME NEW q \in Requests
        PROVE  Unmoved(q) /\ Spared(q)
    <2>1. q \in Reading => there[q] \subseteq eps
      BY DEF McpInv, CallInv, ReaderInv, Reading, ReadSteps
    <2> QED
      BY <1>1, <1>2, <1>3, <1>5, <2>1 DEF Unmoved, Spared
  <1> QED
    BY <1>2, <1>4, <1>5, <1>6, StepOfNobody

LEMMA DeleteMcpToolKeeps ==
  ASSUME McpInv, NEW n \in Names, DeleteMcpTool(n)
  PROVE  McpInv'
  <1>0. TypeOK
    BY DEF McpInv
  <1>1. /\ SetTools(Deactivated(n)) /\ Undo({n}) /\ tools[n].active
        /\ UNCHANGED <<tenant, made, grouped, eps, call, pc, tid, todo, explicit, virtual, there, removed>>
    BY DEF DeleteMcpTool, readVars
  <1>2. /\ tools' = [tools EXCEPT ![n].active = FALSE]
        /\ kept' \in [Requests -> SUBSET Names]
        /\ \A q \in Reading : kept'[q] = kept[q] \cap Active'
        /\ \A q \in Requests \ Reading : kept'[q] = kept[q]
    BY <1>0, <1>1, SetToolsFacts DEF Deactivated
  <1>3. tools[n] \in [from : {"hand", "import"}, active : BOOLEAN]
    BY <1>0, <1>1 DEF TypeOK, NoTool
  <1>4. tools'[n] = [tools[n] EXCEPT !.active = FALSE] /\ \A m \in Names \ {n} : tools'[m] = tools[m]
    BY <1>0, <1>2 DEF TypeOK
  <1>5. /\ tools' \in [Names -> [from : {"hand", "import"}, active : BOOLEAN] \cup {NoTool}]
        /\ tools'[n].from = tools[n].from
        /\ Active' = Active \ {n}
    BY <1>0, <1>2, <1>3, <1>4 DEF TypeOK, Active, ActiveIn
  <1>6. /\ undone' \in [Requests -> SUBSET Names]
        /\ \A q \in Requests : undone[q] \subseteq undone'[q]
        /\ \A q \in Requests : pc[q] \in {"sync", "ok"} => n \in undone'[q] \cup Slugs(todo[q])
    BY <1>0, <1>1, UndoFacts
  <1>7. tenant # 0
    BY <1>0, <1>1 DEF TypeOK, NoTools, NoTool
  <1>8. TypeOK'
    BY <1>0, <1>1, <1>2, <1>5, <1>6, <1>7 DEF TypeOK
  <1>9. Known' = Known
    BY <1>1 DEF Known
  <1>10. ASSUME NEW q \in Requests
        PROVE  Unmoved(q) /\ Spared(q)
    <2>1. q \in Reading => there[q] \subseteq eps
      BY DEF McpInv, CallInv, ReaderInv, Reading, ReadSteps
    <2> QED
      BY <1>1, <1>2, <1>5, <1>6, <1>9, <2>1 DEF Unmoved, Spared
  <1> QED
    BY <1>4, <1>5, <1>8, <1>9, <1>10, StepOfNobody

LEMMA DeleteGroupKeeps ==
  ASSUME McpInv, DeleteGroup
  PROVE  McpInv'
  <1>0. TypeOK
    BY DEF McpInv
  <1>1. /\ SetEndpoints({}) /\ grouped' = FALSE
        /\ UNCHANGED <<tenant, made, tools, call, pc, tid, todo, explicit, virtual, kept, undone>>
    BY DEF DeleteGroup, readVars
  <1>2. /\ eps' = {} /\ there' \in [Requests -> SUBSET Endpoints]
        /\ removed' \subseteq Names /\ Known \subseteq Known'
        /\ \A q \in Reading : there'[q] = there[q] \cap eps'
        /\ \A q \in Requests \ Reading : there'[q] = there[q]
    BY <1>0, <1>1, SetEndpointsFacts
  <1>3. TypeOK'
    BY <1>0, <1>1, <1>2 DEF TypeOK
  <1>4. Active' = Active
    BY <1>1 DEF Active
  <1>5. ASSUME NEW q \in Requests
        PROVE  Unmoved(q) /\ Spared(q)
    <2>1. q \in Reading => kept[q] \subseteq Active
      BY DEF McpInv, CallInv, ReaderInv, Reading, ReadSteps
    <2> QED
      BY <1>1, <1>2, <1>4, <2>1 DEF Unmoved, Spared
  <1> QED
    BY <1>1, <1>2, <1>3, <1>5, StepOfNobody

-----------------------------------------------------------------------------
(* The import's steps.                                                     *)

LEMMA UploadKeeps ==
  ASSUME McpInv, NEW r \in Requests, NEW c \in Calls, Upload(r, c)
  PROVE  McpInv'
  <1>0. TypeOK /\ CallInv(r)
    BY DEF McpInv
  <1>1. /\ pc[r] = "idle" /\ c.kind = "upload"
        /\ call' = [call EXCEPT ![r] = c] /\ pc' = [pc EXCEPT ![r] = "clean"]
        /\ UNCHANGED <<tenant, made, grouped, eps, tools, tid, todo, explicit, virtual, kept, there, undone, removed>>
    BY DEF Upload, Goto, dbVars, readVars, ghostVars
  <1>2. TypeOK'
    BY <1>0, <1>1 DEF TypeOK
  <1>3. pc'[r] = "clean" /\ call'[r] = c
    BY <1>0, <1>1 DEF TypeOK
  <1>4. CallInv(r)'
    BY <1>0, <1>1, <1>3 DEF CallInv, StageInv, ReaderInv, ImportInv, ReadSteps, Importing
  <1>5. \A q \in Requests \ {r} :
           Unmoved(q) /\ kept'[q] = kept[q] /\ there'[q] = there[q] /\ undone'[q] = undone[q]
    BY <1>0, <1>1 DEF TypeOK, Unmoved
  <1> QED
    BY <1>1, <1>2, <1>4, <1>5, StepApart DEF dbVars

LEMMA CleanKeeps ==
  ASSUME McpInv, NEW r \in Requests, Clean(r)
  PROVE  McpInv'
  <1>0. TypeOK /\ CallInv(r) /\ pc[r] = "clean" /\ r \notin Reading
    BY DEF McpInv, Clean, Reading
  <1>1. /\ ~grouped /\ tenant' = 0 /\ SetTools(NoTools) /\ SetEndpoints({}) /\ Undo(Names)
        /\ pc' = [pc EXCEPT ![r] = "resolve"]
        /\ UNCHANGED <<made, grouped, call, tid, todo, explicit, virtual>>
    BY DEF Clean, Goto, readVars
  <1>2. /\ tools' = NoTools /\ Active' = {} /\ kept' \in [Requests -> SUBSET Names]
        /\ \A q \in Reading : kept'[q] = kept[q] \cap Active'
        /\ \A q \in Requests \ Reading : kept'[q] = kept[q]
    BY <1>0, <1>1, SetToolsFacts DEF NoTools, NoTool, ActiveIn
  <1>3. /\ eps' = {} /\ there' \in [Requests -> SUBSET Endpoints]
        /\ removed' \subseteq Names /\ Known \subseteq Known'
        /\ \A q \in Reading : there'[q] = there[q] \cap eps'
        /\ \A q \in Requests \ Reading : there'[q] = there[q]
    BY <1>0, <1>1, SetEndpointsFacts
  <1>4. /\ undone' \in [Requests -> SUBSET Names]
        /\ \A q \in Requests : undone[q] \subseteq undone'[q]
        /\ \A q \in Requests : pc[q] \in {"sync", "ok"} => Names \subseteq undone'[q] \cup Slugs(todo[q])
    BY <1>0, <1>1, UndoFacts
  <1>5. TypeOK'
    BY <1>0, <1>1, <1>2, <1>3, <1>4 DEF TypeOK, NoTools
  <1>6. pc'[r] = "resolve" /\ \A q \in Requests \ {r} : pc'[q] = pc[q]
    BY <1>0, <1>1 DEF TypeOK
  <1>7. CallInv(r)'
    BY <1>0, <1>1, <1>6 DEF CallInv, StageInv, ReaderInv, ImportInv, ReadSteps, Importing
  <1>8. Active \subseteq Names
    BY DEF Active, ActiveIn
  <1>9. \A q \in Requests \ {r} : Unmoved(q) /\ Spared(q)
    BY <1>1, <1>2, <1>3, <1>4, <1>6, <1>8 DEF Unmoved, Spared
  <1>10. \A n \in Names : tools'[n].from # "import"
    BY <1>2 DEF NoTools, NoTool
  <1> QED
    BY <1>3, <1>5, <1>7, <1>9, <1>10, StepOf

LEMMA CleanFailsKeeps ==
  ASSUME McpInv, NEW r \in Requests, CleanFails(r)
  PROVE  McpInv'
  <1>0. TypeOK /\ CallInv(r) /\ pc[r] = "clean" /\ r \notin Reading
    BY DEF McpInv, CleanFails, Reading
  <1>1. PICK left \in SUBSET Endpoints : SetEndpoints(left)
    BY <1>0 DEF CleanFails, TypeOK
  <1>2. /\ pc' = [pc EXCEPT ![r] = "resolve"]
        /\ UNCHANGED <<tenant, made, grouped, tools, call, tid, todo, explicit, virtual, kept, undone>>
    BY DEF CleanFails, Goto, readVars
  <1>3. /\ eps' = left /\ there' \in [Requests -> SUBSET Endpoints]
        /\ removed' \subseteq Names /\ Known \subseteq Known'
        /\ \A q \in Reading : there'[q] = there[q] \cap eps'
        /\ \A q \in Requests \ Reading : there'[q] = there[q]
    BY <1>0, <1>1, SetEndpointsFacts
  <1>4. TypeOK'
    BY <1>0, <1>2, <1>3 DEF TypeOK
  <1>5. pc'[r] = "resolve" /\ (\A q \in Requests \ {r} : pc'[q] = pc[q]) /\ Active' = Active
    BY <1>0, <1>2 DEF TypeOK, Active
  <1>6. CallInv(r)'
    BY <1>0, <1>2, <1>5 DEF CallInv, StageInv, ReaderInv, ImportInv, ReadSteps, Importing
  <1>7. ASSUME NEW q \in Requests \ {r}
        PROVE  Unmoved(q) /\ Spared(q)
    <2>1. q \in Reading => kept[q] \subseteq Active
      BY DEF McpInv, CallInv, ReaderInv, Reading, ReadSteps
    <2> QED
      BY <1>2, <1>3, <1>5, <2>1 DEF Unmoved, Spared
  <1> QED
    BY <1>2, <1>3, <1>4, <1>6, <1>7, StepOf

LEMMA ResolveKeeps ==
  ASSUME McpInv, NEW r \in Requests, Resolve(r)
  PROVE  McpInv'
  <1>0. TypeOK /\ CallInv(r) /\ pc[r] \in {"resolve", "again"} /\ r \notin Reading
    BY DEF McpInv, Resolve, Reading
  <1>1. /\ made' = IF tenant = 0 THEN made + 1 ELSE made
        /\ tenant' = IF tenant = 0 THEN made' ELSE tenant
        /\ tid' = [tid EXCEPT ![r] = tenant']
        /\ pc' = [pc EXCEPT ![r] = IF pc[r] = "resolve" THEN "replace" ELSE "sync"]
        /\ todo' = [todo EXCEPT ![r] = IF pc[r] = "again" THEN call[r].import ELSE {}]
        /\ UNCHANGED <<grouped, eps, tools, call, explicit, virtual, kept, there, undone, removed>>
    BY DEF Resolve, Goto, readVars, ghostVars
  <1>2. made' \in Nat \ {0} /\ made <= made' /\ tenant' = made' /\ tenant' # 0 /\ (tenant' = tenant \/ tenant = 0)
    BY <1>0, <1>1 DEF TypeOK
  <1>3. call[r].import \subseteq Endpoints
    <2>1. call[r] \in Calls /\ call[r].kind = "upload"
      BY <1>0 DEF CallInv, StageInv, Importing, TypeOK, NoCall
    <2> QED
      BY <2>1, ImportsAreEndpoints
  <1>4. TypeOK'
    <2>1. tid' \in [Requests -> 0..made']
      <3>1. \A q \in Requests : tid[q] \in 0..made /\ tid'[q] \in {tid[q], tenant'}
        BY <1>0, <1>1 DEF TypeOK
      <3>2. \A x \in 0..made : x \in 0..made'
        BY <1>0, <1>2 DEF TypeOK
      <3>3. tenant' \in 0..made'
        BY <1>2
      <3>4. \A q \in Requests : tid'[q] \in 0..made'
        BY <3>1, <3>2, <3>3
      <3> QED
        BY <1>0, <1>1, <3>4 DEF TypeOK
    <2>2. todo' \in [Requests -> SUBSET Endpoints]
      BY <1>0, <1>1, <1>3 DEF TypeOK
    <2>3. pc' \in [Requests -> {"idle", "rows", "endpoints", "clean", "resolve", "replace", "again", "sync"} \cup Ended]
      BY <1>0, <1>1 DEF TypeOK
    <2> QED
      BY <1>0, <1>1, <1>2, <2>1, <2>2, <2>3 DEF TypeOK
  <1>5. /\ \A q \in Requests \ {r} : pc'[q] = pc[q] /\ tid'[q] = tid[q] /\ todo'[q] = todo[q]
        /\ tid'[r] = tenant'
        /\ \/ pc[r] = "resolve" /\ pc'[r] = "replace" /\ todo'[r] = {}
           \/ pc[r] = "again" /\ pc'[r] = "sync" /\ todo'[r] = call[r].import
        /\ Active' = Active /\ Known' = Known
    BY <1>0, <1>1 DEF TypeOK, Active, Known
  <1>6. CallInv(r)'
    BY <1>0, <1>1, <1>2, <1>5 DEF CallInv, StageInv, ReaderInv, ImportInv, ReadSteps, Importing
  <1>7. ASSUME NEW q \in Requests \ {r}
        PROVE  Unmoved(q) /\ Spared(q)
    <2>1. q \in Reading => kept[q] \subseteq Active /\ there[q] \subseteq eps
      BY DEF McpInv, CallInv, ReaderInv, Reading, ReadSteps
    <2> QED
      BY <1>1, <1>2, <1>5, <2>1 DEF Unmoved, Spared
  <1> QED
    BY <1>1, <1>4, <1>5, <1>6, <1>7, StepOf

LEMMA ReplaceKeeps ==
  ASSUME McpInv, NEW r \in Requests, Replace(r)
  PROVE  McpInv'
  <1>0. TypeOK /\ CallInv(r) /\ pc[r] = "replace" /\ r \notin Reading /\ tenant # 0
    BY DEF McpInv, Replace, Reading, CallInv, StageInv
  <1>1. /\ grouped' = TRUE /\ SetEndpoints(eps \cup call[r].import)
        /\ pc' = [pc EXCEPT ![r] = "again"]
        /\ UNCHANGED <<tenant, made, tools, call, tid, todo, explicit, virtual, kept, undone>>
    BY DEF Replace, Goto, readVars
  <1>2. eps \cup call[r].import \in SUBSET Endpoints
    <2>1. call[r] \in Calls /\ call[r].kind = "upload"
      BY <1>0 DEF CallInv, StageInv, Importing, TypeOK, NoCall
    <2> QED
      BY <1>0, <2>1, ImportsAreEndpoints DEF TypeOK
  <1>3. /\ eps' = eps \cup call[r].import /\ there' \in [Requests -> SUBSET Endpoints]
        /\ removed' \subseteq Names /\ Known \subseteq Known' /\ Slugs(eps \cup call[r].import) \subseteq Known'
        /\ \A q \in Reading : there'[q] = there[q] \cap eps'
        /\ \A q \in Requests \ Reading : there'[q] = there[q]
    BY <1>0, <1>1, <1>2, SetEndpointsFacts
  <1>4. TypeOK'
    BY <1>0, <1>1, <1>2, <1>3 DEF TypeOK
  <1>5. pc'[r] = "again" /\ (\A q \in Requests \ {r} : pc'[q] = pc[q]) /\ Active' = Active
    BY <1>0, <1>1 DEF TypeOK, Active
  <1>6. Slugs(call[r].import) \subseteq Known'
    BY <1>3, SlugFacts
  <1>7. CallInv(r)'
    BY <1>0, <1>1, <1>5, <1>6 DEF CallInv, StageInv, ReaderInv, ImportInv, ReadSteps, Importing
  <1>8. ASSUME NEW q \in Requests \ {r}
        PROVE  Unmoved(q) /\ Spared(q)
    <2>1. q \in Reading => kept[q] \subseteq Active
      BY DEF McpInv, CallInv, ReaderInv, Reading, ReadSteps
    <2> QED
      BY <1>1, <1>3, <1>5, <2>1 DEF Unmoved, Spared
  <1> QED
    BY <1>1, <1>3, <1>4, <1>7, <1>8, StepOf

\* The steps of an import that touch no row.
LEMMA ImportEndsKeeps ==
  ASSUME McpInv, NEW r \in Requests, ImportFails(r) \/ ResolveAgainFails(r) \/ Synced(r)
  PROVE  McpInv'
  <1>0. TypeOK /\ CallInv(r) /\ pc[r] \in {"resolve", "replace", "again", "sync"}
    BY DEF McpInv, ImportFails, ResolveAgainFails, Synced
  <1>1. UNCHANGED <<tenant, made, grouped, eps, tools, call, tid, todo, explicit, virtual, kept, there, removed>>
    BY DEF ImportFails, ResolveAgainFails, Synced, dbVars, readVars, ghostVars
  <1>2. PICK step \in {"ok", "error"} : pc' = [pc EXCEPT ![r] = step]
    BY DEF ImportFails, ResolveAgainFails, Synced, Goto
  <1>3. PICK names \in SUBSET Names : undone' = [undone EXCEPT ![r] = names]
    <2>1. undone = [undone EXCEPT ![r] = undone[r]] /\ undone[r] \in SUBSET Names
      BY <1>0 DEF TypeOK
    <2>2. CASE ResolveAgainFails(r)
      BY <2>2 DEF ResolveAgainFails
    <2>3. CASE ImportFails(r) \/ Synced(r)
      BY <2>1, <2>3 DEF ImportFails, Synced, ghostVars
    <2> QED
      BY <2>2, <2>3
  <1>4. TypeOK'
    BY <1>0, <1>1, <1>2, <1>3 DEF TypeOK, Ended
  <1>5. pc'[r] = step /\ undone'[r] = names /\ Active' = Active /\ Known' = Known /\ call'[r].kind = "upload"
    BY <1>0, <1>1, <1>2, <1>3 DEF TypeOK, Active, Known, CallInv, StageInv, Importing
  <1>6. todo[r] = {}
    BY <1>0 DEF CallInv, StageInv, Synced, ImportFails, ResolveAgainFails
  <1>7. step = "ok" => Slugs(call[r].import) \ names \subseteq Active
    <2>1. CASE ResolveAgainFails(r)
      <3>1. names = Names
        BY <1>0, <1>5, <2>1 DEF ResolveAgainFails, TypeOK
      <3>2. Slugs(call[r].import) \subseteq Names
        <4>1. call[r] \in Calls /\ call[r].kind = "upload"
          BY <1>0 DEF CallInv, StageInv, Importing, TypeOK, NoCall
        <4> QED
          BY <4>1, ImportsAreEndpoints, SlugFacts
      <3> QED
        BY <3>1, <3>2
    <2>2. CASE Synced(r)
      <3>1. names = undone[r] /\ Slugs(todo[r]) = {}
        BY <1>5, <1>6, <2>2, SlugFacts DEF Synced, ghostVars
      <3> QED
        BY <1>0, <2>2, <3>1 DEF Synced, CallInv, ImportInv
    <2>3. CASE ImportFails(r)
      <3>1. pc'[r] = "error"
        BY <1>0, <2>3 DEF ImportFails, Goto, TypeOK
      <3> QED
        BY <1>5, <3>1
    <2> QED
      BY <2>1, <2>2, <2>3
  <1>8. CallInv(r)'
    BY <1>1, <1>5, <1>6, <1>7 DEF CallInv, StageInv, ReaderInv, ImportInv, ReadSteps, Importing
  <1>9. \A q \in Requests \ {r} :
           Unmoved(q) /\ kept'[q] = kept[q] /\ there'[q] = there[q] /\ undone'[q] = undone[q]
    BY <1>0, <1>1, <1>2, <1>3 DEF TypeOK, Unmoved
  <1> QED
    BY <1>1, <1>4, <1>8, <1>9, StepApart DEF dbVars

\* An endpoint passed over, for want of a name or because its row failed.
LEMMA PassOverKeeps ==
  ASSUME McpInv, NEW r \in Requests, NEW e \in Endpoints, SkipEndpoint(r, e) \/ SyncFails(r, e)
  PROVE  McpInv'
  <1>0. TypeOK /\ CallInv(r) /\ pc[r] = "sync" /\ e \in todo[r]
    BY DEF McpInv, SkipEndpoint, SyncFails
  <1>1. /\ UNCHANGED <<tenant, made, grouped, eps, tools, call, pc, tid, explicit, virtual, kept, there, removed>>
        /\ todo' = [todo EXCEPT ![r] = @ \ {e}]
    BY DEF SkipEndpoint, SyncFails, dbVars, readVars, ghostVars
  <1>2. PICK names \in SUBSET Names :
          /\ undone' = [undone EXCEPT ![r] = names] /\ undone[r] \subseteq names
          /\ Slugs(todo[r]) \subseteq Slugs(todo[r] \ {e}) \cup names
    <2>1. undone = [undone EXCEPT ![r] = undone[r]] /\ undone[r] \in SUBSET Names
      BY <1>0 DEF TypeOK
    <2>2. CASE SkipEndpoint(r, e)
      BY <1>0, <2>1, <2>2, SlugFacts DEF SkipEndpoint, ghostVars
    <2>3. CASE SyncFails(r, e)
      <3>1. undone[r] \cup {Slug[e]} \in SUBSET Names
        BY <2>1, <2>3, McpToolsAssumption DEF SyncFails
      <3>2. Slugs(todo[r]) \subseteq Slugs(todo[r] \ {e}) \cup {Slug[e]}
        BY <1>0, SlugFacts
      <3> QED
        BY <2>3, <3>1, <3>2 DEF SyncFails
    <2> QED
      BY <2>2, <2>3
  <1>3. TypeOK'
    BY <1>0, <1>1, <1>2 DEF TypeOK
  <1>4. /\ todo'[r] = todo[r] \ {e} /\ undone'[r] = names /\ Active' = Active /\ Known' = Known
    BY <1>0, <1>1, <1>2 DEF TypeOK, Active, Known
  <1>5. CallInv(r)'
    BY <1>0, <1>1, <1>2, <1>4 DEF CallInv, StageInv, ReaderInv, ImportInv, ReadSteps, Importing
  <1>6. \A q \in Requests \ {r} :
           Unmoved(q) /\ kept'[q] = kept[q] /\ there'[q] = there[q] /\ undone'[q] = undone[q]
    BY <1>0, <1>1, <1>2 DEF TypeOK, Unmoved
  <1> QED
    BY <1>1, <1>3, <1>5, <1>6, StepApart DEF dbVars

\* sync_endpoints_as_mcp_tools puts the row of an endpoint imported before.
LEMMA SyncEndpointKeeps ==
  ASSUME McpInv, NEW r \in Requests, NEW e \in Endpoints, SyncEndpoint(r, e)
  PROVE  McpInv'
  <1>0. TypeOK /\ CallInv(r) /\ pc[r] = "sync" /\ e \in todo[r] /\ r \notin Reading /\ tenant # 0
    BY DEF McpInv, SyncEndpoint, CallInv, StageInv, Reading
  <1>1. /\ SetTools(Put("import", Slug[e])) /\ Slug[e] # NoName
        /\ todo' = [todo EXCEPT ![r] = @ \ {e}]
        /\ UNCHANGED <<tenant, made, grouped, eps, call, pc, tid, explicit, virtual, there, undone, removed>>
    BY DEF SyncEndpoint, readVars
  <1>2. PICK n \in Names : n = Slug[e]
    BY <1>1, McpToolsAssumption
  <1>3. /\ tools' \in [Names -> [from : {"hand", "import"}, active : BOOLEAN] \cup {NoTool}]
        /\ Active' = Active \cup {n}
        /\ \A m \in Names \ {n} : tools'[m] = tools[m]
    BY <1>0, <1>1, <1>2, PutFacts
  <1>4. /\ kept' \in [Requests -> SUBSET Names]
        /\ \A q \in Reading : kept'[q] = kept[q] \cap Active'
        /\ \A q \in Requests \ Reading : kept'[q] = kept[q]
    BY <1>0, <1>1, SetToolsFacts
  <1>5. TypeOK'
    BY <1>0, <1>1, <1>3, <1>4 DEF TypeOK
  <1>6. Known' = Known /\ n \in Known /\ todo'[r] = todo[r] \ {e} /\ \A q \in Requests \ {r} : todo'[q] = todo[q]
    <2>1. Slugs(call[r].import) \subseteq Known /\ e \in call[r].import
      BY <1>0 DEF CallInv, ImportInv
    <2>2. n \in Known
      BY <1>1, <1>2, <2>1, SlugFacts
    <2> QED
      BY <1>0, <1>1, <2>2 DEF Known, TypeOK
  <1>7. Slugs(todo[r]) \subseteq Slugs(todo[r] \ {e}) \cup {n}
    BY <1>0, <1>2, SlugFacts
  <1>8. CallInv(r)'
    BY <1>0, <1>1, <1>3, <1>6, <1>7 DEF CallInv, StageInv, ReaderInv, ImportInv, ReadSteps, Importing
  <1>9. ASSUME NEW q \in Requests \ {r}
        PROVE  Unmoved(q) /\ Spared(q)
    <2>1. q \in Reading => there[q] \subseteq eps
      BY DEF McpInv, CallInv, ReaderInv, Reading, ReadSteps
    <2> QED
      BY <1>1, <1>3, <1>4, <1>6, <2>1 DEF Unmoved, Spared
  <1> QED
    BY <1>3, <1>5, <1>6, <1>8, <1>9, StepOf

\* The process stops: what it has answered stays answered.
LEMMA CrashKeeps ==
  ASSUME McpInv, Crash
  PROVE  McpInv'
  <1>0. TypeOK
    BY DEF McpInv
  <1>1. /\ UNCHANGED <<tenant, made, grouped, eps, tools, call, tid, todo, explicit, virtual, kept, there, undone, removed>>
        /\ pc' = [r \in Requests |-> IF pc[r] \in Ended \cup {"idle"} THEN pc[r] ELSE "lost"]
    BY DEF Crash, dbVars, readVars, ghostVars
  <1>2. TypeOK'
    BY <1>0, <1>1 DEF TypeOK, Ended
  <1>3. Active' = Active /\ Known' = Known /\ StaleOnlyByRemoval'
    BY <1>1 DEF Active, Known, McpInv, StaleOnlyByRemoval
  <1>4. ASSUME NEW r \in Requests
        PROVE  CallInv(r)'
    <2>1. CallInv(r) /\ (pc'[r] = "lost" \/ (pc'[r] = pc[r] /\ pc[r] \in {"idle", "ok", "error", "lost"}))
      BY <1>1 DEF McpInv, Ended
    <2>2. Asked(r)' = Asked(r)
      BY <1>1 DEF Asked
    <2> QED
      BY <1>1, <1>3, <2>1, <2>2 DEF CallInv, StageInv, ReaderInv, ImportInv, ReadSteps, Importing
  <1> QED
    BY <1>2, <1>3, <1>4 DEF McpInv

-----------------------------------------------------------------------------
(* The invariant.                                                          *)

LEMMA McpInvInit ==
  ASSUME Init
  PROVE  McpInv
  <1>1. TypeOK
    <2>1. tools \in [Names -> {NoTool}] /\ tools = NoTools
      BY DEF Init, NoTools
    <2>2. 0 \in 0..made /\ tid \in [Requests -> {0}] /\ made = 1
      BY DEF Init
    <2>3. tid \in [Requests -> 0..made]
      BY <2>2
    <2>4. made \in Nat \ {0} /\ tenant \in {0, made} /\ (grouped => tenant # 0) /\ grouped \in BOOLEAN
      <3>1. made = 1 /\ tenant = 1
        BY DEF Init
      <3>2. grouped \in BOOLEAN /\ ~grouped
        BY Zenon DEF Init
      <3> QED
        BY <3>1, <3>2
    <2>5. /\ call \in [Requests -> Calls \cup {NoCall}]
          /\ tools \in [Names -> [from : {"hand", "import"}, active : BOOLEAN] \cup {NoTool}]
      BY <2>1 DEF Init
    <2>6. pc \in [Requests -> {"idle", "rows", "endpoints", "clean", "resolve", "replace", "again", "sync"} \cup Ended]
      BY DEF Init
    <2>7. /\ todo \in [Requests -> SUBSET Endpoints] /\ there \in [Requests -> SUBSET Endpoints]
          /\ explicit \in [Requests -> SUBSET Names] /\ virtual \in [Requests -> SUBSET Names]
          /\ kept \in [Requests -> SUBSET Names] /\ undone \in [Requests -> SUBSET Names]
          /\ eps \subseteq Endpoints /\ removed \subseteq Names
      BY DEF Init
    <2> QED
      BY <2>1, <2>3, <2>4, <2>5, <2>6, <2>7 DEF TypeOK
  <1>2. StaleOnlyByRemoval
    BY DEF Init, StaleOnlyByRemoval, NoTools, NoTool
  <1>3. \A r \in Requests : CallInv(r)
    BY DEF Init, CallInv, StageInv, ReaderInv, ImportInv, ReadSteps, Importing
  <1> QED
    BY <1>1, <1>2, <1>3 DEF McpInv

LEMMA McpInvNext ==
  ASSUME McpInv, [Next]_vars
  PROVE  McpInv'
  <1>1. ASSUME NEW n \in Names, UpsertMcpTool(n) \/ DeleteMcpTool(n)
        PROVE  McpInv'
    BY <1>1, UpsertMcpToolKeeps, DeleteMcpToolKeeps
  <1>2. ASSUME NEW r \in Requests, NEW c \in Calls, Read(r, c) \/ Upload(r, c)
        PROVE  McpInv'
    BY <1>2, ReadKeeps, UploadKeeps
  <1>3. ASSUME NEW r \in Requests, Handle(r)
        PROVE  McpInv'
    <2>1. CASE ListRows(r) \/ ListEndpoints(r) \/ GetRow(r) \/ GetEndpoint(r) \/ ReadFails(r)
      BY <2>1, AnsweringKeeps
    <2>2. CASE Clean(r)
      BY <2>2, CleanKeeps
    <2>3. CASE CleanFails(r)
      BY <2>3, CleanFailsKeeps
    <2>4. CASE Resolve(r)
      BY <2>4, ResolveKeeps
    <2>5. CASE Replace(r)
      BY <2>5, ReplaceKeeps
    <2>6. CASE ImportFails(r) \/ ResolveAgainFails(r) \/ Synced(r)
      BY <2>6, ImportEndsKeeps
    <2>7. CASE \E e \in Endpoints : SkipEndpoint(r, e) \/ SyncEndpoint(r, e) \/ SyncFails(r, e)
      BY <2>7, PassOverKeeps, SyncEndpointKeeps
    <2> QED
      BY <1>3, <2>1, <2>2, <2>3, <2>4, <2>5, <2>6, <2>7 DEF Handle
  <1>4. CASE UNCHANGED vars
    BY <1>4 DEF vars, McpInv, TypeOK, StaleOnlyByRemoval, CallInv, StageInv, ReaderInv, ImportInv, Known, Active, Asked
  <1> QED
    BY <1>1, <1>2, <1>3, <1>4, DeleteGroupKeeps, CrashKeeps DEF Next, Finished

LEMMA McpInvAlways == Spec => []McpInv
  <1>1. Init => McpInv
    BY McpInvInit
  <1>2. McpInv /\ [Next]_vars => McpInv'
    BY McpInvNext
  <1> QED
    BY <1>1, <1>2, PTL DEF Spec

-----------------------------------------------------------------------------
(* What the tools promise.                                                 *)

\* Every column keeps its type, and a tenant that force_clean_user_data removed
\* leaves no row and no group behind.
THEOREM McpTypes == Spec => []TypeOK
  <1>1. McpInv => TypeOK
    BY DEF McpInv
  <1> QED
    BY <1>1, McpInvAlways, PTL

\* list_mcp_tools and get_mcp_tool read rows and endpoints in two statements:
\* whatever any number of imports and removals do between them, what was there
\* all the time is in the answer, and no name twice.
THEOREM McpAnswersAreTrue == Spec => []AnswersAreTrue
  <1>1. ASSUME McpInv
        PROVE  AnswersAreTrue
    BY <1>1 DEF McpInv, CallInv, ReaderInv, AnswersAreTrue, Asked
  <1> QED
    BY <1>1, McpInvAlways, PTL

\* When upload_api_config has answered, the names it imported are served,
\* unless their row failed or has been removed since, by whomever.
THEOREM McpImportedAreServed == Spec => []ImportedAreServed
  <1>1. ASSUME McpInv
        PROVE  ImportedAreServed
    BY <1>1 DEF McpInv, CallInv, ImportInv, ImportedAreServed, Active
  <1> QED
    BY <1>1, McpInvAlways, PTL

\* sync_endpoints_as_mcp_tools puts no row for an import that was undone: a row
\* it has put stands for an endpoint the user has or has had.
THEOREM McpStaleOnlyByRemoval == Spec => []StaleOnlyByRemoval
  <1>1. McpInv => StaleOnlyByRemoval
    BY DEF McpInv
  <1> QED
    BY <1>1, McpInvAlways, PTL
=============================================================================
