--------------------------- MODULE EndpointStore ---------------------------
(***************************************************************************)
(* API groups and endpoints, which users share by naming the same id.  A   *)
(* handler runs one database transaction or two, statement by statement    *)
(* under READ COMMITTED: a statement sees what is committed and what its   *)
(* own transaction wrote, waits for rows another transaction has written,  *)
(* and is refused, with its whole transaction, by a broken constraint.     *)
(*                                                                         *)
(* A row is its key; what a table says of it is the row it points at: a    *)
(* group at its tenant, an endpoint at its group, a link or a parameter at *)
(* what it is for.  The other columns and the order of a request's         *)
(* endpoints are left out.                                                 *)
(***************************************************************************)
EXTENDS Integers, Sequences, FiniteSets

CONSTANTS
  Requests,  \* calls to the API
  Users,     \* their e-mails
  Groups,    \* group ids callers name
  Endpoints, \* endpoint ids callers name
  Menu,      \* the calls that may be made
  Renamed,   \* users whose tenant no longer bears their e-mail
  Opening,   \* the tables at the start
  MaxFaults, \* bound: requests the database may fail on
  Gone       \* in a transaction's writes: the row is deleted

\* generate_id_from_text makes an id that nobody else names: the id made by a
\* request is written as that request.
GroupIds    == Groups \cup Requests
EndpointIds == Endpoints \cup Requests

GroupRow(g)          == <<"api_groups", g>>
EndpointRow(e)       == <<"endpoints", e>>
LinkedGroup(u, g)    == <<"user_groups", u, g>>
LinkedEndpoint(u, e) == <<"user_endpoints", u, e>>
ParamsRow(e)         == <<"parameters", e>>
\* Tenants, which no constraint of these tables refers to: the one named after
\* the user, and one renamed.
Personal(u) == <<"tenants", u, "named">>
Other(u)    == <<"tenants", u, "renamed">>

Tenants == {Personal(u) : u \in Users} \cup {Other(u) : u \in Users}
Keys == {GroupRow(g) : g \in GroupIds} \cup {EndpointRow(e) : e \in EndpointIds}
Rows == Keys \cup {LinkedGroup(u, g) : u \in Users, g \in GroupIds}
             \cup {LinkedEndpoint(u, e) : u \in Users, e \in EndpointIds}
             \cup {ParamsRow(e) : e \in EndpointIds}

\* The foreign keys: a row that points at a group or an endpoint points at one
\* that exists.
RefsHold(table) ==
  \A x \in DOMAIN table : table[x] \in Keys => table[x] \in DOMAIN table

\* Mutant: user_endpoints and parameters have no foreign key.
GroupRefsHold(table) ==
  \A x \in DOMAIN table : table[x] \in {GroupRow(g) : g \in GroupIds} => table[x] \in DOMAIN table

Constraint(table) == RefsHold(table)

Ops == {"add_group", "update_group", "delete_group", "manage_endpoint",
        "delete_endpoint", "replace_groups", "get_groups"}
Calls == [op : Ops, user : Users, group : Groups, endpoints : SUBSET Endpoints]

\* What a row may point at.
Targets(x) ==
  CASE x[1] = "api_groups"     -> Tenants
    [] x[1] = "endpoints"      -> {GroupRow(g) : g \in GroupIds}
    [] x[1] = "user_groups"    -> {GroupRow(x[3])}
    [] x[1] = "user_endpoints" -> {EndpointRow(x[3])}
    [] x[1] = "parameters"     -> {EndpointRow(x[2])}

\* A table of some of the rows; marks stand for no row.
IsTable(table, marks) ==
  /\ table = [x \in DOMAIN table |-> table[x]]
  /\ DOMAIN table \subseteq Rows
  /\ \A x \in DOMAIN table : table[x] \in Targets(x) \cup marks

\* Every group and every endpoint has a user.
AllUsed(table) ==
  /\ \A g \in GroupIds : GroupRow(g) \in DOMAIN table =>
       \E u \in Users : LinkedGroup(u, g) \in DOMAIN table
  /\ \A e \in EndpointIds : EndpointRow(e) \in DOMAIN table =>
       \E u \in Users : LinkedEndpoint(u, e) \in DOMAIN table

\* The ids that are made are new.  What earlier races may have left behind is
\* not at the start: the histories do not tell of it.
ASSUME StoreAssumption ==
  /\ Menu \subseteq Calls
  /\ (Groups \cup Endpoints) \cap Requests = {}
  /\ IsTable(Opening, {})
  /\ RefsHold(Opening)
  /\ AllUsed(Opening)
  /\ \A r \in Requests : GroupRow(r) \notin DOMAIN Opening /\ EndpointRow(r) \notin DOMAIN Opening
  /\ MaxFaults \in Nat
  /\ Gone \notin Rows \cup Tenants \cup EndpointIds

VARIABLES
  db,        \* the committed rows
  tenant,    \* the tenant a user's calls resolve to
  call,      \* what each request asks for
  pc,        \* its statement
  plan,      \* its transactions, the current one first
  todo,      \* local: the endpoints it has still to go through
  at,        \* local: the endpoint it is at
  w,         \* the uncommitted writes of its transaction
  disturbed, \* history: users who made two calls at once
  raced,     \* history: groups unlinked by two transactions at once
  faulted    \* history: requests the database failed without a reason of theirs

local == <<plan, todo, at>>
history == <<disturbed, raced, faulted>>
vars == <<db, tenant, call, pc, plan, todo, at, w, disturbed, raced, faulted>>

NoCall == [op |-> "none"]
User(r) == call[r].user
Group(r) == call[r].group
Tx(r) == Head(plan[r])
Ended == {"ok", "denied", "error", "lost"}
InFlight(r) == pc[r] \notin Ended \cup {"idle"}
Nothing == [x \in {} |-> Gone]
Row(x, key) == [y \in {x} |-> key]

-----------------------------------------------------------------------------
(* Transactions.                                                           *)

\* The rows of a table after some writes.
Over(table, writes) ==
  [x \in {y \in DOMAIN table \cup DOMAIN writes : y \in DOMAIN writes => writes[y] # Gone} |->
     IF x \in DOMAIN writes THEN writes[x] ELSE table[x]]

Merge(first, second) ==
  [x \in DOMAIN first \cup DOMAIN second |->
     IF x \in DOMAIN second THEN second[x] ELSE first[x]]

\* What the statements of r see.
View(r) == Over(db, w[r])
Sees(r, row) == row \in DOMAIN View(r)
UsersOfGroup(r, g) == {v \in Users : Sees(r, LinkedGroup(v, g))}
UsersOfEndpoint(r, e) == {v \in Users : Sees(r, LinkedEndpoint(v, e))}

Deletion(r, rows) == [x \in {y \in rows : Sees(r, y)} |-> Gone]

\* No row the statement writes, or whose key it may not repeat, is written by
\* another transaction; what it deletes is not newly pointed at, and what it
\* points at is not being deleted.
Unlocked(r, rows, writes) ==
  \A q \in Requests \ {r} :
    /\ rows \cap DOMAIN w[q] = {}
    /\ \A x \in DOMAIN writes :
         /\ x \notin DOMAIN w[q]
         /\ writes[x] = Gone => \A y \in DOMAIN w[q] : w[q][y] # x
         /\ writes[x] \in DOMAIN w[q] => w[q][writes[x]] # Gone

\* A statement that writes succeeds.
Write(r, rows, writes) ==
  /\ Unlocked(r, rows, writes)
  /\ Constraint(Over(View(r), writes))
  /\ w' = [w EXCEPT ![r] = Merge(w[r], writes)]

Goto(r, step) == pc' = [pc EXCEPT ![r] = step]

FirstStep(tx) ==
  CASE tx \in {"delete_group", "force_clean", "fallback_clean"} -> "list"
    [] tx \in {"delete_endpoint", "manage_endpoint"}            -> "access"
    [] tx = "add_group"                                         -> "upsert_group"
    [] tx = "import"                                            -> "find_group"
    [] tx = "get_groups"                                        -> "read_groups"

\* r goes on to the first of txs, or is answered.
Begin(r, txs, answer, endpoints) ==
  /\ plan' = [plan EXCEPT ![r] = txs]
  /\ todo' = [todo EXCEPT ![r] = IF txs = <<>> THEN {} ELSE endpoints]
  /\ at'   = [at EXCEPT ![r] = Gone]
  /\ Goto(r, IF txs = <<>> THEN answer ELSE FirstStep(Head(txs)))

EndsUnanswered(r) == w' = [w EXCEPT ![r] = Nothing]

Init ==
  /\ db = Opening
  /\ tenant = [u \in Users |-> IF u \in Renamed THEN Other(u) ELSE Personal(u)]
  /\ call = [r \in Requests |-> NoCall]
  /\ pc = [r \in Requests |-> "idle"]
  /\ plan = [r \in Requests |-> <<>>]
  /\ todo = [r \in Requests |-> {}]
  /\ at = [r \in Requests |-> Gone]
  /\ w = [r \in Requests |-> Nothing]
  /\ disturbed = {} /\ raced = {} /\ faulted = {}

\* A request is accepted; what a handler refuses before it reaches the store
\* (an empty name, a file that does not parse) is not a request here.
Accept(r, c, txs) ==
  /\ pc[r] = "idle"
  /\ call' = [call EXCEPT ![r] = c]
  /\ Begin(r, txs, "ok", c.endpoints)
  /\ disturbed' = IF \E q \in Requests : InFlight(q) /\ User(q) = c.user
                  THEN disturbed \cup {c.user} ELSE disturbed
  /\ UNCHANGED <<db, tenant, w, raced, faulted>>

OneEndpoint(c) == \E e \in Endpoints : c.endpoints = {e}

AddApiGroup(r, c)    == c.op = "add_group" /\ Accept(r, c, <<"add_group">>)
UpdateApiGroup(r, c) == c.op = "update_group" /\ Accept(r, c, <<"delete_group", "add_group">>)
DeleteApiGroup(r, c) == c.op = "delete_group" /\ Accept(r, c, <<"delete_group">>)
ManageEndpoint(r, c) == c.op = "manage_endpoint" /\ OneEndpoint(c) /\ Accept(r, c, <<"manage_endpoint">>)
DeleteEndpoint(r, c) == c.op = "delete_endpoint" /\ OneEndpoint(c) /\ Accept(r, c, <<"delete_endpoint">>)
UploadConfig(r, c)   == c.op = "replace_groups" /\ Accept(r, c, <<"force_clean", "import">>)
GetApiGroups(r, c)   == c.op = "get_groups" /\ Accept(r, c, <<"get_groups">>)

Receive(r, c) ==
  \/ AddApiGroup(r, c) \/ UpdateApiGroup(r, c) \/ DeleteApiGroup(r, c)
  \/ ManageEndpoint(r, c) \/ DeleteEndpoint(r, c)
  \/ UploadConfig(r, c) \/ GetApiGroups(r, c)

-----------------------------------------------------------------------------
(* Removal: delete_user_api_group, delete_user_endpoint and the two        *)
(* cleanups that precede an import.                                        *)

\* The endpoints to let go of: the user's, for a group those in the group.
ListEndpoints(r) ==
  /\ pc[r] = "list"
  /\ todo' = [todo EXCEPT ![r] =
       {e \in EndpointIds :
          /\ Sees(r, LinkedEndpoint(User(r), e))
          /\ Tx(r) = "delete_group" => View(r)[EndpointRow(e)] = GroupRow(Group(r))}]
  /\ Goto(r, "unlink")
  /\ UNCHANGED <<db, tenant, call, plan, at, w, history>>

\* delete_user_endpoint and manage_single_endpoint first look for the caller's
\* link.
AccessRow(r) ==
  IF Tx(r) = "manage_endpoint" THEN {LinkedGroup(User(r), Group(r))}
  ELSE {LinkedEndpoint(User(r), e) : e \in todo[r]}

AccessFound(r) ==
  /\ pc[r] = "access"
  /\ \E row \in AccessRow(r) : Sees(r, row)
  /\ Goto(r, IF Tx(r) = "manage_endpoint" THEN "look" ELSE "unlink")
  /\ UNCHANGED <<db, tenant, call, local, w, history>>

\* Ok(false) for a deletion, an error for the other: nothing was changed.
AccessDenied(r) ==
  /\ pc[r] = "access"
  /\ \A row \in AccessRow(r) : ~Sees(r, row)
  /\ Begin(r, <<>>, "denied", {})
  /\ UNCHANGED <<db, tenant, call, w, history>>

LinksTo(r, endpoints) == {LinkedEndpoint(User(r), e) : e \in endpoints}

\* Mutant: DELETE FROM user_endpoints without the condition on the e-mail.
UnlinksEverybody(r) ==
  {LinkedEndpoint(v, e) : v \in Users, e \in todo[r]} \cup
  (IF Tx(r) = "delete_group" THEN {LinkedGroup(User(r), Group(r))} ELSE {})

\* force_clean_user_data deletes the parameters first, of every endpoint the
\* user has, and then all of the user's links.
Unlinks(r) ==
  CASE Tx(r) = "delete_group" -> LinksTo(r, todo[r]) \cup {LinkedGroup(User(r), Group(r))}
    [] Tx(r) = "force_clean"  -> LinksTo(r, EndpointIds) \cup {ParamsRow(e) : e \in todo[r]}
    [] OTHER                  -> LinksTo(r, todo[r])

Unlink(r) ==
  /\ pc[r] = "unlink"
  /\ Write(r, {}, Deletion(r, Unlinks(r)))
  /\ raced' = IF /\ Tx(r) = "delete_group"
                 /\ \E q \in Requests \ {r}, v \in Users :
                      /\ LinkedGroup(v, Group(r)) \in DOMAIN w[q]
                      /\ w[q][LinkedGroup(v, Group(r))] = Gone
              THEN raced \cup {Group(r)} ELSE raced
  /\ Goto(r, IF Tx(r) = "delete_group" THEN "used" ELSE "purge")
  /\ UNCHANGED <<db, tenant, call, local, disturbed, faulted>>

\* Mutant: the caller's own link, deleted by this transaction, still counts.
GroupUsedBefore(r) ==
  /\ pc[r] = "used"
  /\ Goto(r, IF \E v \in Users : LinkedGroup(v, Group(r)) \in DOMAIN db THEN "commit" ELSE "purge")
  /\ UNCHANGED <<db, tenant, call, local, w, history>>

\* Is the group still used?  Then its endpoints stay as well.
GroupUsed(r) ==
  /\ pc[r] = "used"
  /\ Goto(r, IF UsersOfGroup(r, Group(r)) # {} THEN "commit" ELSE "purge")
  /\ UNCHANGED <<db, tenant, call, local, w, history>>

\* Mutant: the endpoints nobody uses any more are kept too.
KeepsEndpoint(r, e) ==
  /\ pc[r] = "purge"
  /\ e \in todo[r]
  /\ todo' = [todo EXCEPT ![r] = @ \ {e}]
  /\ UNCHANGED <<db, tenant, call, pc, plan, at, w, history>>

\* An endpoint somebody still uses is kept, another is next to be deleted.
PurgeEndpoint(r, e) ==
  /\ pc[r] = "purge"
  /\ e \in todo[r]
  /\ todo' = [todo EXCEPT ![r] = @ \ {e}]
  /\ IF UsersOfEndpoint(r, e) # {}
     THEN UNCHANGED <<at, pc>>
     ELSE at' = [at EXCEPT ![r] = e] /\ Goto(r, "drop")
  /\ UNCHANGED <<db, tenant, call, plan, w, history>>

\* The endpoint with its parameters, which force_clean has deleted before.
Drops(r) ==
  {EndpointRow(at[r])} \cup (IF Tx(r) = "force_clean" THEN {} ELSE {ParamsRow(at[r])})

DropEndpoint(r) ==
  /\ pc[r] = "drop"
  /\ Write(r, {}, Deletion(r, Drops(r)))
  /\ Goto(r, "purge")
  /\ UNCHANGED <<db, tenant, call, local, history>>

\* The group itself; when the account is cleaned, all groups of the tenant that
\* bears the user's e-mail.
GroupsToDrop(r) ==
  CASE Tx(r) = "delete_group" -> {GroupRow(Group(r))}
    [] Tx(r) = "force_clean"  ->
         {x \in DOMAIN View(r) : View(r)[x] = Personal(User(r))}
    [] OTHER -> {}

DropGroups(r) ==
  /\ pc[r] = "purge"
  /\ todo[r] = {}
  /\ Write(r, {}, Deletion(r, GroupsToDrop(r)))
  /\ Goto(r, "commit")
  /\ UNCHANGED <<db, tenant, call, local, history>>

-----------------------------------------------------------------------------
(* Addition: add_user_api_group, the import of replace_user_api_groups and *)
(* manage_single_endpoint.                                                 *)

\* The import asks whether the group exists before it inserts or updates it.
FindGroup(r) ==
  /\ pc[r] = "find_group"
  /\ Goto(r, IF Sees(r, GroupRow(Group(r))) THEN "update_group" ELSE "insert_group")
  /\ UNCHANGED <<db, tenant, call, local, w, history>>

\* Mutant: the new row gets the user's e-mail where its tenant belongs.
PutsGroupOfEmail(r) ==
  LET row == GroupRow(Group(r)) IN
  Row(row, IF Sees(r, row) THEN View(r)[row] ELSE User(r))

\* A group that is added keeps the tenant it has, an imported one is taken
\* over.  An UPDATE of a row that is gone by now changes nothing.
PutsGroup(r) ==
  LET row == GroupRow(Group(r)) IN
  IF Sees(r, row)
  THEN Row(row, IF pc[r] = "upsert_group" THEN View(r)[row] ELSE tenant[User(r)])
  ELSE IF pc[r] = "update_group" THEN Nothing ELSE Row(row, tenant[User(r)])

\* INSERT ... ON CONFLICT DO NOTHING: the row, unless it is there.
Links(r, row, key) == IF Sees(r, row) THEN Nothing ELSE Row(row, key)

PutGroup(r) ==
  LET link == LinkedGroup(User(r), Group(r)) IN
  /\ pc[r] \in {"upsert_group", "insert_group", "update_group"}
  /\ pc[r] = "insert_group" => ~Sees(r, GroupRow(Group(r)))
  /\ Write(r, {link}, Merge(PutsGroup(r), Links(r, link, GroupRow(Group(r)))))
  /\ Goto(r, IF todo[r] = {} THEN "commit" ELSE "look")
  /\ UNCHANGED <<db, tenant, call, local, history>>

\* SELECT 1 FROM endpoints: the next statement is an UPDATE or an INSERT.
LookUp(r, e) ==
  /\ pc[r] = "look"
  /\ e \in todo[r]
  /\ at'   = [at EXCEPT ![r] = e]
  /\ todo' = [todo EXCEPT ![r] = @ \ {e}]
  /\ Goto(r, IF Sees(r, EndpointRow(e)) THEN "update" ELSE "insert")
  /\ UNCHANGED <<db, tenant, call, plan, w, history>>

PutsRow(r) ==
  IF pc[r] = "update" /\ ~Sees(r, EndpointRow(at[r])) THEN Nothing
  ELSE Row(EndpointRow(at[r]), GroupRow(Group(r)))

\* Mutant: a link only to an endpoint that was created.
PutsUnlinked(r) ==
  LET e == at[r] IN
  Merge(PutsRow(r),
    Merge(Row(ParamsRow(e), EndpointRow(e)),
          IF pc[r] = "insert" THEN Links(r, LinkedEndpoint(User(r), e), EndpointRow(e)) ELSE Nothing))

\* The endpoint, now in this group whoever else has it, the caller's link and
\* the parameters, replaced as a whole (every endpoint given has some).
PutsEndpoint(r) ==
  LET e == at[r] IN
  Merge(PutsRow(r),
    Merge(Row(ParamsRow(e), EndpointRow(e)),
          Links(r, LinkedEndpoint(User(r), e), EndpointRow(e))))

PutEndpoint(r) ==
  /\ pc[r] \in {"insert", "update"}
  /\ pc[r] = "insert" => ~Sees(r, EndpointRow(at[r]))
  /\ Write(r, {LinkedEndpoint(User(r), at[r])}, PutsEndpoint(r))
  /\ Goto(r, IF todo[r] = {} THEN "commit" ELSE "look")
  /\ UNCHANGED <<db, tenant, call, local, history>>

\* get_or_create_user_api_groups: a user who has groups gets them.
ReadGroups(r) ==
  /\ pc[r] = "read_groups"
  /\ IF \E g \in GroupIds : Sees(r, LinkedGroup(User(r), g))
     THEN Begin(r, <<>>, "ok", {})
     ELSE Goto(r, "create") /\ UNCHANGED local
  /\ UNCHANGED <<db, tenant, call, w, history>>

\* Others get a group with one endpoint, under new ids.
CreateDefault(r) ==
  /\ pc[r] = "create"
  /\ Write(r, {},
       Merge(Merge(Row(GroupRow(r), tenant[User(r)]), Row(EndpointRow(r), GroupRow(r))),
             Merge(Row(LinkedGroup(User(r), r), GroupRow(r)),
                   Row(LinkedEndpoint(User(r), r), EndpointRow(r)))))
  /\ Goto(r, "commit")
  /\ UNCHANGED <<db, tenant, call, local, history>>

-----------------------------------------------------------------------------
(* The ends of a transaction.                                              *)

\* After the account was cleaned its tenant is a new one, named after the user.
Commit(r) ==
  /\ pc[r] = "commit"
  /\ db' = View(r)
  /\ EndsUnanswered(r)
  /\ tenant' = IF Tx(r) = "force_clean" THEN [tenant EXCEPT ![User(r)] = Personal(User(r))] ELSE tenant
  /\ Begin(r, Tail(plan[r]), "ok", call[r].endpoints)
  /\ UNCHANGED <<call, history>>

\* A statement is refused and its transaction rolled back.  The cleanup has a
\* fallback, and an import goes on without either.
RollBack(r) ==
  /\ EndsUnanswered(r)
  /\ CASE Tx(r) = "force_clean"    -> Begin(r, <<"fallback_clean", "import">>, "error", call[r].endpoints)
       [] Tx(r) = "fallback_clean" -> Begin(r, <<"import">>, "error", call[r].endpoints)
       [] OTHER                    -> Begin(r, <<>>, "error", {})

\* Because of a constraint, once nothing it needs is locked.
WritesOf(r) ==
  CASE pc[r] = "unlink" -> Deletion(r, Unlinks(r))
    [] pc[r] = "drop"   -> Deletion(r, Drops(r))
    [] pc[r] = "purge"  -> Deletion(r, GroupsToDrop(r))
    [] pc[r] \in {"upsert_group", "insert_group", "update_group"} ->
         Merge(PutsGroup(r), Links(r, LinkedGroup(User(r), Group(r)), GroupRow(Group(r))))
    [] pc[r] \in {"insert", "update"} -> PutsEndpoint(r)
    [] OTHER -> Nothing

KeyTaken(r) ==
  \/ pc[r] = "insert_group" /\ Sees(r, GroupRow(Group(r)))
  \/ pc[r] = "insert" /\ Sees(r, EndpointRow(at[r]))

Violates(r) ==
  /\ InFlight(r)
  /\ pc[r] = "purge" => todo[r] = {}
  /\ Unlocked(r, {}, WritesOf(r))
  /\ KeyTaken(r) \/ ~Constraint(Over(View(r), WritesOf(r)))
  /\ RollBack(r)
  /\ UNCHANGED <<db, tenant, call, history>>

\* Because of anything else: the connection breaks, two transactions wait for
\* each other, no tenant is found.
DbFails(r) ==
  /\ InFlight(r)
  /\ r \in faulted \/ Cardinality(faulted) < MaxFaults
  /\ RollBack(r)
  /\ faulted' = faulted \cup {r}
  /\ UNCHANGED <<db, tenant, call, disturbed, raced>>

\* The server stops: what was not committed is gone.
Crash ==
  /\ \E r \in Requests : InFlight(r)
  /\ pc' = [r \in Requests |-> IF InFlight(r) THEN "lost" ELSE pc[r]]
  /\ w' = [r \in Requests |-> Nothing]
  /\ UNCHANGED <<db, tenant, call, local, history>>

\* No request is left to serve.
Finished ==
  /\ \A r \in Requests : pc[r] \in Ended
  /\ UNCHANGED vars

Handle(r) ==
  \/ ListEndpoints(r) \/ AccessFound(r) \/ AccessDenied(r) \/ Unlink(r) \/ GroupUsed(r)
  \/ \E e \in todo[r] : PurgeEndpoint(r, e) \/ LookUp(r, e)
  \/ DropEndpoint(r) \/ DropGroups(r)
  \/ FindGroup(r) \/ PutGroup(r) \/ PutEndpoint(r)
  \/ ReadGroups(r) \/ CreateDefault(r)
  \/ Commit(r) \/ Violates(r) \/ DbFails(r)

Next ==
  \/ \E r \in Requests, c \in Menu : Receive(r, c)
  \/ \E r \in Requests : Handle(r)
  \/ Crash
  \/ Finished

Spec == Init /\ [][Next]_vars

-----------------------------------------------------------------------------
(* What the store promises.                                                *)

\* Every variable holds a value of its kind.
TypeOK ==
  /\ IsTable(db, {})
  /\ tenant \in [Users -> Tenants]
  /\ call \in [Requests -> Menu \cup {NoCall}]
  /\ \A r \in Requests : pc[r] # "idle" => call[r] \in Menu
  /\ \A r \in Requests : InFlight(r) => plan[r] # <<>>
  /\ todo \in [Requests -> SUBSET EndpointIds]
  /\ at \in [Requests -> EndpointIds \cup {Gone}]
  /\ \A r \in Requests : IsTable(w[r], {Gone})
  /\ disturbed \subseteq Users /\ raced \subseteq Groups /\ faulted \subseteq Requests

\* Nothing in use is deleted: however removals and additions of the same ids
\* interleave, an endpoint's group, and the group or endpoint of a link or a
\* parameter, exist.
ReferencesHold == RefsHold(db)

Exists(row) == row \in DOMAIN db

\* What get_api_groups_by_email answers: the endpoints linked to a user in the
\* groups linked to that user.
Listed(u, e) ==
  /\ Exists(LinkedEndpoint(u, e))
  /\ \E g \in GroupIds : db[EndpointRow(e)] = GroupRow(g) /\ Exists(LinkedGroup(u, g))

\* A group that nobody uses any more has been deleted, unless two deletions of
\* it overlapped, each of which saw the other's link.
StrandedOnlyByRace ==
  \A g \in GroupIds : Exists(GroupRow(g)) /\ g \notin raced =>
    \E u \in Users : Exists(LinkedGroup(u, g))

\* A user stops seeing an endpoint only by a call of their own, or by a call
\* that puts it into another group: never because someone else lets go of it.
LostTo(r, u, e) ==
  /\ pc[r] = "commit"
  /\ pc'[r] # "commit"
  /\ \/ User(r) = u
     \/ EndpointRow(e) \in DOMAIN w[r] /\ w[r][EndpointRow(e)] = GroupRow(Group(r))

OthersDoNotRemove ==
  [][\A u \in Users, e \in EndpointIds :
       Listed(u, e) /\ ~Listed(u, e)' => \E r \in Requests : LostTo(r, u, e)]_vars

\* When an addition is committed the whole of it is there, whatever other
\* users do at the same time to the groups and endpoints it names.
Added(r) ==
  /\ Exists(LinkedGroup(User(r), Group(r)))
  /\ \A e \in call[r].endpoints :
       /\ Listed(User(r), e)
       /\ db[EndpointRow(e)] = GroupRow(Group(r))
       /\ Exists(ParamsRow(e))

AdditionIsComplete ==
  [][\A r \in Requests :
       /\ pc[r] = "commit" /\ pc'[r] = "ok"
       /\ Tx(r) \in {"add_group", "import", "manage_endpoint"}
       /\ User(r) \notin disturbed
       => Added(r)']_vars

\* v named the group or endpoint x: in a call, by having it made, or before.
Names(v, x) ==
  \/ \E r \in Requests : pc[r] # "idle" /\ User(r) = v /\
       (x \in {GroupRow(r), EndpointRow(r), GroupRow(Group(r))} \cup {EndpointRow(e) : e \in call[r].endpoints})
  \/ \E g \in Groups : x = GroupRow(g) /\ LinkedGroup(v, g) \in DOMAIN Opening
  \/ \E e \in Endpoints : x = EndpointRow(e) /\ LinkedEndpoint(v, e) \in DOMAIN Opening

Private(u, x) == \A v \in Users \ {u} : ~Names(v, x)

\* For a user who makes one call at a time, of ids nobody else names, what is
\* stored is what is listed: no endpoint is left behind, no link is blind.
PrivateIsExact ==
  \A u \in Users \ disturbed, e \in EndpointIds :
    /\ Exists(EndpointRow(e))
    /\ Private(u, EndpointRow(e)) /\ Private(u, db[EndpointRow(e)])
    /\ Names(u, EndpointRow(e))
    => Listed(u, e)

-----------------------------------------------------------------------------
(* What the comments say and the code does not do.                         *)

\* replace_user_api_groups.rs: "Replaces all API groups and endpoints for a
\* user".  With the import the user has the imported group and no other.
ReplacementReplaces ==
  [][\A r \in Requests :
       /\ pc[r] = "commit" /\ pc'[r] = "ok" /\ Tx(r) = "import"
       /\ User(r) \notin disturbed /\ r \notin faulted
       => \A g \in GroupIds : Exists(LinkedGroup(User(r), g))' => g = Group(r)]_vars
=============================================================================
