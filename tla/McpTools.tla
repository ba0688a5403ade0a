------------------------------ MODULE McpTools ------------------------------
(***************************************************************************)
(* The tools an MCP gateway may call for a user: the rows of mcp_tools, and*)
(* behind them a virtual tool for every endpoint whose slug no active row  *)
(* has.  Rows are put and removed by an administrator, and by an import    *)
(* of endpoints, which goes on to put a row for each of them, one by one,  *)
(* after the import is committed.  A reader selects the rows and then the  *)
(* endpoints, in two statements.                                           *)
(*                                                                         *)
(* It is the tools of one user.  An import first removes the account, and  *)
(* with its tenant the rows (ON DELETE CASCADE), unless a group of the     *)
(* tenant holds it back; the tenants the user has had are numbered.        *)
(* What becomes of groups and endpoints under concurrent calls is in       *)
(* EndpointStore, what becomes of the tenant in TenantDirectory.           *)
(***************************************************************************)
EXTENDS Integers, FiniteSets

CONSTANTS
  Requests,  \* the calls of several steps
  Endpoints, \* endpoints
  Imports,   \* those a file to be imported may hold
  Names,     \* names of tools
  NoName,    \* the slug of a text without a letter or a digit
  Slug       \* the slug of each endpoint's group and text

ASSUME McpToolsAssumption ==
  /\ Imports \subseteq SUBSET Endpoints
  /\ NoName \notin Names
  /\ Slug \in [Endpoints -> Names \cup {NoName}]

VARIABLES
  tenant,   \* the user's default tenant, or 0
  made,     \* tenants the user has had
  grouped,  \* a group of the tenant is linked to the user
  eps,      \* the user's endpoints
  tools,    \* mcp_tools: the row of each name in the tenant
  call, pc, \* of each request: what it asks and where it is
  tid,      \* the tenant it was given, or has resolved
  todo,     \* an import: endpoints to be made into rows
  explicit, virtual, \* a reader: the names it answers
  \* What the properties remember:
  kept,     \* a reader: names that had an active row all the time,
  there,    \* ... endpoints it could see all the time
  undone,   \* an import: names whose row failed, or was removed since
  removed   \* names of endpoints the user has had and has no more

dbVars == <<tenant, made, grouped, eps, tools>>
readVars == <<explicit, virtual>>
ghostVars == <<kept, there, undone, removed>>
vars == <<tenant, made, grouped, eps, tools, call, pc, tid, todo, explicit, virtual,
          kept, there, undone, removed>>

NoTool == [from |-> "none", active |-> FALSE]
NoTools == [n \in Names |-> NoTool]
NoCall == [kind |-> "none"]

\* The e-mail is optional.
Calls ==
  [kind : {"list"}, email : BOOLEAN] \cup
  [kind : {"get"}, name : Names, email : BOOLEAN] \cup
  [kind : {"upload"}, import : Imports]

Goto(r, step) == pc' = [pc EXCEPT ![r] = step]
Reading == {r \in Requests : pc[r] \in {"rows", "endpoints"}}
Ended == {"ok", "error", "lost"}
Slugs(es) == {Slug[e] : e \in es} \ {NoName}
ActiveIn(rows) == {n \in Names : rows[n].active}

Init ==
  /\ tenant = 1 /\ made = 1
  /\ grouped = FALSE
  /\ eps = {}
  /\ tools = NoTools
  /\ call = [r \in Requests |-> NoCall]
  /\ pc = [r \in Requests |-> "idle"]
  /\ tid = [r \in Requests |-> 0]
  /\ todo = [r \in Requests |-> {}]
  /\ explicit = [r \in Requests |-> {}]
  /\ virtual = [r \in Requests |-> {}]
  /\ kept = [r \in Requests |-> {}]
  /\ there = [r \in Requests |-> {}]
  /\ undone = [r \in Requests |-> {}]
  /\ removed = {}

\* The rows of the tenant become `rows'.
SetTools(rows) ==
  /\ tools' = rows
  /\ kept' = [r \in Requests |-> IF r \in Reading THEN kept[r] \cap ActiveIn(rows) ELSE kept[r]]

\* The endpoints of the user become `es'.
SetEndpoints(es) ==
  /\ eps' = es
  /\ there' = [r \in Requests |-> IF r \in Reading THEN there[r] \cap es ELSE there[r]]
  /\ removed' = (removed \cup Slugs(eps)) \ Slugs(es)

\* The rows of `names' may be gone for the imports that have put them.
Undo(names) ==
  undone' = [r \in Requests |->
    IF pc[r] \in {"sync", "ok"} THEN undone[r] \cup (names \ Slugs(todo[r])) ELSE undone[r]]

-----------------------------------------------------------------------------
(* The administrator, and the user's group.                                *)

\* Mutant: a row that was removed stays inactive.
PutInactive(from, n) ==
  [tools EXCEPT ![n] = [from |-> from, active |-> (tools[n] = NoTool \/ tools[n].active)]]

\* upsert_mcp_tool: whatever the row was, it is active and new.
Put(from, n) == [tools EXCEPT ![n] = [from |-> from, active |-> TRUE]]

UpsertMcpTool(n) ==
  /\ tenant # 0
  /\ SetTools(Put("hand", n))
  /\ UNCHANGED <<tenant, made, grouped, eps, call, pc, tid, todo, readVars, there, undone, removed>>

\* delete_mcp_tool: the row stays.
Deactivated(n) == [tools EXCEPT ![n].active = FALSE]

DeleteMcpTool(n) ==
  /\ tools[n].active
  /\ SetTools(Deactivated(n))
  /\ Undo({n})
  /\ UNCHANGED <<tenant, made, grouped, eps, call, pc, tid, todo, readVars, there, removed>>

\* The user deletes the group, with its endpoints; no row is touched.
DeleteGroup ==
  /\ grouped
  /\ grouped' = FALSE
  /\ SetEndpoints({})
  /\ UNCHANGED <<tenant, made, tools, call, pc, tid, todo, readVars, kept, undone>>

-----------------------------------------------------------------------------
(* Readers: list_mcp_tools and get_mcp_tool.                               *)

Visible(r) == IF call[r].email \/ tid[r] = tenant THEN eps ELSE {}

Own(r) == IF tid[r] = tenant THEN ActiveIn(tools) ELSE {}

\* The gateway knows the tenant by its id.
Read(r, c) ==
  /\ pc[r] = "idle" /\ c.kind \in {"list", "get"}
  /\ tenant # 0
  /\ call' = [call EXCEPT ![r] = c]
  /\ tid' = [tid EXCEPT ![r] = tenant]
  /\ kept' = [kept EXCEPT ![r] = ActiveIn(tools)]
  /\ there' = [there EXCEPT ![r] = eps]
  /\ Goto(r, "rows")
  /\ UNCHANGED <<dbVars, todo, readVars, undone, removed>>

ListRows(r) ==
  /\ pc[r] = "rows" /\ call[r].kind = "list"
  /\ explicit' = [explicit EXCEPT ![r] = Own(r)]
  /\ Goto(r, "endpoints")
  /\ UNCHANGED <<dbVars, call, tid, todo, virtual, ghostVars>>

\* Mutant: a row hides the endpoint also when it is inactive.
ListUnhidden(r) ==
  /\ pc[r] = "endpoints" /\ call[r].kind = "list"
  /\ virtual' = [virtual EXCEPT ![r] = {n \in Slugs(Visible(r)) \ explicit[r] : tools[n] = NoTool}]
  /\ Goto(r, "ok")
  /\ UNCHANGED <<dbVars, call, tid, todo, explicit, ghostVars>>

\* Of endpoints with the same slug, and of an endpoint and a row, one is listed.
ListEndpoints(r) ==
  /\ pc[r] = "endpoints" /\ call[r].kind = "list"
  /\ virtual' = [virtual EXCEPT ![r] = Slugs(Visible(r)) \ explicit[r]]
  /\ Goto(r, "ok")
  /\ UNCHANGED <<dbVars, call, tid, todo, explicit, ghostVars>>

GetRow(r) ==
  /\ pc[r] = "rows" /\ call[r].kind = "get"
  /\ explicit' = [explicit EXCEPT ![r] = Own(r) \cap {call[r].name}]
  /\ Goto(r, IF explicit'[r] # {} THEN "ok" ELSE "endpoints")
  /\ UNCHANGED <<dbVars, call, tid, todo, virtual, ghostVars>>

GetEndpoint(r) ==
  /\ pc[r] = "endpoints" /\ call[r].kind = "get"
  /\ virtual' = [virtual EXCEPT ![r] = Slugs(Visible(r)) \cap {call[r].name}]
  /\ Goto(r, "ok")
  /\ UNCHANGED <<dbVars, call, tid, todo, explicit, ghostVars>>

ReadFails(r) ==
  /\ r \in Reading
  /\ Goto(r, "error")
  /\ UNCHANGED <<dbVars, call, tid, todo, readVars, ghostVars>>

-----------------------------------------------------------------------------
(* An import: upload_api_config with replace_user_api_groups.              *)

Upload(r, c) ==
  /\ pc[r] = "idle" /\ c.kind = "upload"
  /\ call' = [call EXCEPT ![r] = c]
  /\ Goto(r, "clean")
  /\ UNCHANGED <<dbVars, tid, todo, readVars, ghostVars>>

\* Mutant: the rows do not go with their tenant.
CleanKeepsTools(r) ==
  /\ pc[r] = "clean"
  /\ ~grouped
  /\ tenant' = 0
  /\ SetEndpoints({})
  /\ Goto(r, "resolve")
  /\ UNCHANGED <<made, grouped, tools, call, tid, todo, readVars, kept, undone>>

\* force_clean_user_data.
Clean(r) ==
  /\ pc[r] = "clean"
  /\ ~grouped
  /\ tenant' = 0
  /\ SetTools(NoTools)
  /\ SetEndpoints({})
  /\ Undo(Names)
  /\ Goto(r, "resolve")
  /\ UNCHANGED <<made, grouped, call, tid, todo, readVars>>

\* It is refused or fails; fallback_clean_user_data removes the endpoints, or
\* fails as well.
CleanFails(r) ==
  /\ pc[r] = "clean"
  /\ \E left \in {{}, eps} : SetEndpoints(left)
  /\ Goto(r, "resolve")
  /\ UNCHANGED <<tenant, made, grouped, tools, call, tid, todo, readVars, kept, undone>>

\* get_default_tenant, for the groups and again for the tools.
Resolve(r) ==
  /\ pc[r] \in {"resolve", "again"}
  /\ made' = IF tenant = 0 THEN made + 1 ELSE made
  /\ tenant' = IF tenant = 0 THEN made' ELSE tenant
  /\ tid' = [tid EXCEPT ![r] = tenant']
  /\ Goto(r, IF pc[r] = "resolve" THEN "replace" ELSE "sync")
  /\ todo' = [todo EXCEPT ![r] = IF pc[r] = "again" THEN call[r].import ELSE {}]
  /\ UNCHANGED <<grouped, eps, tools, call, readVars, ghostVars>>

\* The groups and endpoints are committed together.
Replace(r) ==
  /\ pc[r] = "replace"
  /\ tid[r] = tenant
  /\ grouped' = TRUE
  /\ SetEndpoints(eps \cup call[r].import)
  /\ Goto(r, "again")
  /\ UNCHANGED <<tenant, made, tools, call, tid, todo, readVars, kept, undone>>

\* Mutant: the tools are synchronised whatever became of the import.
SyncAnyway(r) ==
  /\ pc[r] \in {"resolve", "replace"}
  /\ Goto(r, "again")
  /\ UNCHANGED <<dbVars, call, tid, todo, readVars, ghostVars>>

\* Also when the tenant is gone, which the groups refer to.
ImportFails(r) ==
  /\ pc[r] \in {"resolve", "replace"}
  /\ Goto(r, "error")
  /\ UNCHANGED <<dbVars, call, tid, todo, readVars, ghostVars>>

\* Not fatal: the import is answered with Ok.
ResolveAgainFails(r) ==
  /\ pc[r] = "again"
  /\ undone' = [undone EXCEPT ![r] = Names]
  /\ Goto(r, "ok")
  /\ UNCHANGED <<dbVars, call, tid, todo, readVars, kept, there, removed>>

\* An endpoint whose slug is empty is skipped (a URL is never empty here: the
\* import gives groups without a base one).
SkipEndpoint(r, e) ==
  /\ pc[r] = "sync" /\ e \in todo[r]
  /\ Slug[e] = NoName
  /\ todo' = [todo EXCEPT ![r] = @ \ {e}]
  /\ UNCHANGED <<dbVars, call, pc, tid, readVars, ghostVars>>

SyncEndpoint(r, e) ==
  /\ pc[r] = "sync" /\ e \in todo[r]
  /\ Slug[e] # NoName /\ tid[r] = tenant
  /\ SetTools(Put("import", Slug[e]))
  /\ todo' = [todo EXCEPT ![r] = @ \ {e}]
  /\ UNCHANGED <<tenant, made, grouped, eps, call, pc, tid, readVars, there, undone, removed>>

\* The error, also the one that the tenant is gone, is logged.
SyncFails(r, e) ==
  /\ pc[r] = "sync" /\ e \in todo[r]
  /\ Slug[e] # NoName
  /\ undone' = [undone EXCEPT ![r] = @ \cup {Slug[e]}]
  /\ todo' = [todo EXCEPT ![r] = @ \ {e}]
  /\ UNCHANGED <<dbVars, call, pc, tid, readVars, kept, there, removed>>

Synced(r) ==
  /\ pc[r] = "sync" /\ todo[r] = {}
  /\ Goto(r, "ok")
  /\ UNCHANGED <<dbVars, call, tid, todo, readVars, ghostVars>>

-----------------------------------------------------------------------------

Crash ==
  /\ \E r \in Requests : pc[r] \notin Ended \cup {"idle"}
  /\ pc' = [r \in Requests |-> IF pc[r] \in Ended \cup {"idle"} THEN pc[r] ELSE "lost"]
  /\ UNCHANGED <<dbVars, call, tid, todo, readVars, ghostVars>>

Finished ==
  /\ \A r \in Requests : pc[r] \in Ended
  /\ UNCHANGED vars

Handle(r) ==
  \/ ListRows(r) \/ ListEndpoints(r) \/ GetRow(r) \/ GetEndpoint(r) \/ ReadFails(r)
  \/ Clean(r) \/ CleanFails(r) \/ Resolve(r) \/ Replace(r) \/ ImportFails(r) \/ ResolveAgainFails(r)
  \/ \E e \in Endpoints : SkipEndpoint(r, e) \/ SyncEndpoint(r, e) \/ SyncFails(r, e)
  \/ Synced(r)

Next ==
  \/ \E n \in Names : UpsertMcpTool(n) \/ DeleteMcpTool(n)
  \/ DeleteGroup
  \/ \E r \in Requests, c \in Calls : Read(r, c) \/ Upload(r, c)
  \/ \E r \in Requests : Handle(r)
  \/ Crash
  \/ Finished

Spec == Init /\ [][Next]_vars

-----------------------------------------------------------------------------
(* What the tools promise.                                                 *)

TypeOK ==
  /\ made \in Nat \ {0} /\ tenant \in {0, made}
  /\ grouped \in BOOLEAN /\ (grouped => tenant # 0)
  /\ eps \subseteq Endpoints
  /\ tools \in [Names -> [from : {"hand", "import"}, active : BOOLEAN] \cup {NoTool}]
  /\ tenant = 0 => tools = NoTools
  /\ call \in [Requests -> Calls \cup {NoCall}]
  /\ pc \in [Requests -> {"idle", "rows", "endpoints", "clean", "resolve", "replace", "again", "sync"} \cup Ended]
  /\ tid \in [Requests -> 0..made]
  /\ todo \in [Requests -> SUBSET Endpoints]
  /\ explicit \in [Requests -> SUBSET Names] /\ virtual \in [Requests -> SUBSET Names]
  /\ kept \in [Requests -> SUBSET Names] /\ there \in [Requests -> SUBSET Endpoints]
  /\ undone \in [Requests -> SUBSET Names]
  /\ removed \subseteq Names

\* "Explicit tools take precedence": rows and endpoints are two statements, and
\* imports, upserts and removals come between them.  Still a reader is given,
\* as itself, every tool that was active all the time, and every endpoint that
\* was there all the time under its name, and no name twice.
AnswersAreTrue ==
  \A r \in Requests : pc[r] = "ok" /\ call[r].kind # "upload" =>
    LET asked == IF call[r].kind = "get" THEN {call[r].name} ELSE Names IN
    /\ kept[r] \cap asked \subseteq explicit[r]
    /\ Slugs(there[r]) \cap asked \subseteq explicit[r] \cup virtual[r]
    /\ explicit[r] \cap virtual[r] = {}

\* sync_endpoints_as_mcp_tools: "Each endpoint in every group is upserted into
\* mcp_tools so it appears automatically".  When an import is answered, each of
\* its names is an active row of the user's tenant, unless its upsert failed or
\* somebody removed it, or the tenant, since - also when it had been removed
\* before, and whatever other imports did in between.
ImportedAreServed ==
  \A r \in Requests : call[r].kind = "upload" /\ pc[r] = "ok" =>
    Slugs(call[r].import) \ undone[r] \subseteq ActiveIn(tools)

\* "Called after every successful endpoint import": a row an import has put
\* stands for an endpoint the user has, or has had and deleted since; never for
\* one of an import that was undone.
StaleOnlyByRemoval ==
  \A n \in Names : tools[n].from = "import" => n \in Slugs(eps) \cup removed
=============================================================================
