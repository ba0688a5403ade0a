-------------------------- MODULE TenantDirectory ---------------------------
(***************************************************************************)
(* Users, their personal tenants and the default tenant of each user.      *)
(*                                                                         *)
(* get_or_create_personal_tenant runs before nearly every operation of the *)
(* store.  It is up to nine statements, each committed on its own, so two  *)
(* first requests of one user interleave, and a request that fails or a    *)
(* process that stops leaves the statements before it done.  The last      *)
(* three move the credits that users had before tenants existed.           *)
(*                                                                         *)
(* An account is removed by force_clean_user_data (one transaction) or by  *)
(* the reset endpoint (one DELETE).  The former finds the tenants to       *)
(* delete by their name, and a user may give their tenant any name, also   *)
(* the e-mail of another user.                                             *)
(***************************************************************************)
EXTENDS Naturals, FiniteSets

CONSTANTS
  Users,         \* e-mail addresses, in lower case
  Requests,      \* calls that resolve a user's tenant
  TenantIds,     \* the UUIDs drawn
  ClientIds,     \* texts asked for as mcp_client_id
  Menu,          \* the calls that are made
  InitialPrefs,  \* users with a row of user_preferences at the start
  LegacyCredits, \* the credits of that row
  Other,         \* a tenant name that is no e-mail in lower case
  None           \* SQL NULL

ASSUME DirectoryAssumption ==
  /\ InitialPrefs \subseteq Users
  /\ LegacyCredits \in [Users -> Nat]
  /\ \A u \in Users \ InitialPrefs : LegacyCredits[u] = 0
  /\ None \notin TenantIds \cup Users \cup ClientIds \cup {Other}
  /\ Other \notin Users

\* A call resolves the tenant of a user; two of them then write to its row,
\* a name or a client id of the caller's choice.
Names == Users \cup {Other}
Calls ==
  [purpose : {"get"}, user : Users, value : {None}]
  \cup [purpose : {"rename"}, user : Users, value : Names]
  \cup [purpose : {"client"}, user : Users, value : ClientIds \cup {None}]

ASSUME MenuAssumption == Menu \subseteq Calls

VARIABLES
  prefs,     \* users with a row of user_preferences, its e-mail in lower case
  mixed,     \* users with a row whose e-mail has upper-case letters
  default,   \* user_preferences.default_tenant_id (not a foreign key)
  legacy,    \* user_preferences.credit_balance
  tenants,   \* the rows of tenants
  owner,     \* history: the user each tenant id was drawn for
  name,      \* tenants.name
  client,    \* tenants.mcp_client_id (UNIQUE)
  credits,   \* tenants.credit_balance, as far as it is migrated credits
  members,   \* the rows of tenant_users
  req,       \* the call each request makes
  pc,        \* where its handler is
  tid,       \* the tenant it has found or is creating
  old,       \* old_balance, as it has read it
  disturbed, \* history: users with overlapping or failed calls, or removed
  removed,   \* history: users whose account or a tenant of theirs was removed
  bereft     \* history: those among them whose tenant was removed with the
             \* account of another, after whom it was named

rowVars == <<prefs, mixed, default, legacy, tenants, owner, name, client, credits, members>>
reqVars == <<req, tid, old>>
histVars == <<disturbed, removed, bereft>>
vars == <<prefs, mixed, default, legacy, tenants, owner, name, client, credits, members,
          req, pc, tid, old, disturbed, removed, bereft>>

InFlight == {"find", "exists", "insertPrefs", "insertTenant", "link", "setDefault",
             "readLegacy", "addLegacy", "clearLegacy", "use"}
Ended == {"ok", "refused", "failed", "lost"}
NoRequest == [purpose |-> "none"]

User(r) == req[r].user
Busy(u) == \E q \in Requests : pc[q] \in InFlight /\ User(q) = u
Issued == {t \in TenantIds : owner[t] # None}
Goto(r, step) == pc' = [pc EXCEPT ![r] = step]

Init ==
  /\ prefs = InitialPrefs
  /\ mixed = {}
  /\ default = [u \in Users |-> None]
  /\ legacy = LegacyCredits
  /\ tenants = {}
  /\ owner = [t \in TenantIds |-> None]
  /\ name = [t \in TenantIds |-> None]
  /\ client = [t \in TenantIds |-> None]
  /\ credits = [t \in TenantIds |-> 0]
  /\ members = {}
  /\ req = [r \in Requests |-> NoRequest]
  /\ pc = [r \in Requests |-> "idle"]
  /\ tid = [r \in Requests |-> None]
  /\ old = [r \in Requests |-> 0]
  /\ disturbed = {}
  /\ removed = {}
  /\ bereft = {}

-----------------------------------------------------------------------------
(* get_or_create_personal_tenant_with_conn, statement by statement.        *)

\* A handler begins.  The user is disturbed if another call of theirs runs.
Start(r, c) ==
  /\ pc[r] = "idle"
  /\ req' = [req EXCEPT ![r] = c]
  /\ Goto(r, "find")
  /\ disturbed' = disturbed \cup {u \in {c.user} : Busy(u)}
  /\ UNCHANGED <<rowVars, tid, old, removed, bereft>>

\* Where a handler goes when it has its tenant: only renaming and setting the
\* client id do something more with it here.
Resolved(r) == IF req[r].purpose = "get" THEN "ok" ELSE "use"

\* The JOIN finds the user's default tenant, if its row still exists.
FindDefault(r) ==
  LET u == User(r) IN
  /\ pc[r] = "find"
  /\ IF u \in prefs /\ default[u] \in tenants
     THEN tid' = [tid EXCEPT ![r] = default[u]] /\ Goto(r, Resolved(r))
     ELSE tid' = tid /\ Goto(r, "exists")
  /\ UNCHANGED <<rowVars, req, old, histVars>>

\* The row is looked for whatever the case of its e-mail; query_opt fails if
\* there are two.
CheckExists(r) ==
  /\ pc[r] = "exists"
  /\ User(r) \notin prefs \cap mixed
  /\ Goto(r, IF User(r) \in prefs \cup mixed THEN "insertTenant" ELSE "insertPrefs")
  /\ UNCHANGED <<rowVars, reqVars, histVars>>

InsertPrefs(r) ==
  LET u == User(r) IN
  /\ pc[r] = "insertPrefs"
  /\ u \notin prefs
  /\ prefs' = prefs \cup {u}
  /\ default' = [default EXCEPT ![u] = None]
  /\ legacy' = [legacy EXCEPT ![u] = 0]
  /\ Goto(r, "insertTenant")
  /\ UNCHANGED <<mixed, tenants, owner, name, client, credits, members, reqVars, histVars>>

\* A fresh UUID, named after the user, with no credits.
InsertTenant(r, t) ==
  /\ pc[r] = "insertTenant"
  /\ t \notin Issued
  /\ tenants' = tenants \cup {t}
  /\ owner' = [owner EXCEPT ![t] = User(r)]
  /\ name' = [name EXCEPT ![t] = User(r)]
  /\ tid' = [tid EXCEPT ![r] = t]
  /\ Goto(r, "link")
  /\ UNCHANGED <<prefs, mixed, default, legacy, client, credits, members, req, old, histVars>>

\* tenant_users refers to both rows; the user's in lower case.
LinkUser(r) ==
  /\ pc[r] = "link"
  /\ tid[r] \in tenants
  /\ User(r) \in prefs
  /\ members' = members \cup {<<tid[r], User(r)>>}
  /\ Goto(r, "setDefault")
  /\ UNCHANGED <<prefs, mixed, default, legacy, tenants, owner, name, client, credits, reqVars, histVars>>

\* An UPDATE of no row is not an error, and the tenant may be gone by now.
SetDefault(r) ==
  /\ pc[r] = "setDefault"
  /\ default' = IF User(r) \in prefs THEN [default EXCEPT ![User(r)] = tid[r]] ELSE default
  /\ Goto(r, "readLegacy")
  /\ UNCHANGED <<prefs, mixed, legacy, tenants, owner, name, client, credits, members, reqVars, histVars>>

\* Mutant: the balance is claimed (set to 0) where it is read.
ReadAndClear(r) ==
  /\ pc[r] = "readLegacy"
  /\ User(r) \in prefs
  /\ old' = [old EXCEPT ![r] = legacy[User(r)]]
  /\ legacy' = [legacy EXCEPT ![User(r)] = 0]
  /\ Goto(r, IF legacy[User(r)] > 0 THEN "addLegacy" ELSE Resolved(r))
  /\ UNCHANGED <<prefs, mixed, default, tenants, owner, name, client, credits, members,
                 req, tid, histVars>>

\* query_one: the row must be there.
ReadLegacy(r) ==
  /\ pc[r] = "readLegacy"
  /\ User(r) \in prefs
  /\ old' = [old EXCEPT ![r] = legacy[User(r)]]
  /\ Goto(r, IF legacy[User(r)] > 0 THEN "addLegacy" ELSE Resolved(r))
  /\ UNCHANGED <<rowVars, req, tid, histVars>>

AddLegacy(r) ==
  /\ pc[r] = "addLegacy"
  /\ credits' = IF tid[r] \in tenants THEN [credits EXCEPT ![tid[r]] = @ + old[r]] ELSE credits
  /\ Goto(r, "clearLegacy")
  /\ UNCHANGED <<prefs, mixed, default, legacy, tenants, owner, name, client, members, reqVars, histVars>>

\* Mutant: the migrated credits stay where they were, too.
KeepLegacy(r) ==
  /\ pc[r] = "clearLegacy"
  /\ Goto(r, Resolved(r))
  /\ UNCHANGED <<rowVars, reqVars, histVars>>

ClearLegacy(r) ==
  /\ pc[r] = "clearLegacy"
  /\ legacy' = [legacy EXCEPT ![User(r)] = IF User(r) \in prefs THEN 0 ELSE @]
  /\ Goto(r, Resolved(r))
  /\ UNCHANGED <<prefs, mixed, default, tenants, owner, name, client, credits, members, reqVars, histVars>>

-----------------------------------------------------------------------------
(* What follows the resolution, and the ways a call ends early.            *)

\* A column of the resolved tenant, if its row is still there.
Written(column, r) ==
  [t \in TenantIds |-> IF t \in tenants /\ t = tid[r] THEN req[r].value ELSE column[t]]

\* update_tenant_name: UPDATE tenants SET name ... WHERE id, with any text.
Rename(r) ==
  /\ pc[r] = "use"
  /\ req[r].purpose = "rename"
  /\ name' = Written(name, r)
  /\ Goto(r, "ok")
  /\ UNCHANGED <<prefs, mixed, default, legacy, tenants, owner, client, credits, members, reqVars, histVars>>

\* Another tenant, of whatever user, has the client id that r asks for.
ClientIdTaken(r) ==
  /\ tid[r] \in tenants
  /\ req[r].value # None
  /\ \E t \in tenants \ {tid[r]} : client[t] = req[r].value

\* set_mcp_client_id: the column is UNIQUE; a request without an id clears it.
SetClientId(r) ==
  /\ pc[r] = "use"
  /\ req[r].purpose = "client"
  /\ ~ClientIdTaken(r)
  /\ client' = Written(client, r)
  /\ Goto(r, "ok")
  /\ UNCHANGED <<prefs, mixed, default, legacy, tenants, owner, name, credits, members, reqVars, histVars>>

\* The statements PostgreSQL refuses, a query_opt of two rows, and a query_one
\* of a row that is gone.
StatementRefused(r) ==
  \/ pc[r] = "exists" /\ User(r) \in prefs \cap mixed
  \/ pc[r] = "insertPrefs" /\ User(r) \in prefs
  \/ pc[r] = "link" /\ (tid[r] \notin tenants \/ User(r) \notin prefs)
  \/ pc[r] = "readLegacy" /\ User(r) \notin prefs
  \/ pc[r] = "use" /\ req[r].purpose = "client" /\ ClientIdTaken(r)

Refused(r) ==
  /\ StatementRefused(r)
  /\ Goto(r, "refused")
  /\ UNCHANGED <<rowVars, reqVars, histVars>>

\* The connection or the database fails the next statement.
DbFails(r) ==
  /\ pc[r] \in InFlight
  /\ Goto(r, "failed")
  /\ disturbed' = disturbed \cup {User(r)}
  /\ UNCHANGED <<rowVars, reqVars, removed, bereft>>

Crash ==
  /\ \E r \in Requests : pc[r] \in InFlight
  /\ pc' = [r \in Requests |-> IF pc[r] \in InFlight THEN "lost" ELSE pc[r]]
  /\ disturbed' = disturbed \cup {User(r) : r \in {q \in Requests : pc[q] \in InFlight}}
  /\ UNCHANGED <<rowVars, reqVars, removed, bereft>>

-----------------------------------------------------------------------------
(* Other writers of these rows.                                            *)

\* The preferences endpoint inserts the row it has not found, its e-mail as it
\* is given: in lower case (the row is then there for the calls above) ...
InsertPreferences(u) ==
  /\ u \notin prefs
  /\ prefs' = prefs \cup {u}
  /\ default' = [default EXCEPT ![u] = None]
  /\ legacy' = [legacy EXCEPT ![u] = 0]
  /\ disturbed' = disturbed \cup {v \in {u} : Busy(v)}
  /\ UNCHANGED <<mixed, tenants, owner, name, client, credits, members, pc, reqVars, removed, bereft>>

\* ... or not (one other spelling of each e-mail).
UpdatePreferencesMixed(u) ==
  /\ u \notin mixed
  /\ mixed' = mixed \cup {u}
  /\ disturbed' = disturbed \cup {u}
  /\ UNCHANGED <<prefs, default, legacy, tenants, owner, name, client, credits, members,
                 pc, reqVars, removed, bereft>>

\* The tenants gone go with an account of u.
Losing(u, gone) ==
  LET owners == {owner[t] : t \in gone} IN
  /\ disturbed' = disturbed \cup {u} \cup owners
  /\ bereft' = bereft \cup (owners \ {u})
  /\ UNCHANGED <<owner, pc, reqVars>>

\* So does the preferences row.
Remove(u, gone) ==
  /\ prefs' = prefs \ {u}
  /\ default' = [default EXCEPT ![u] = None]
  /\ legacy' = [legacy EXCEPT ![u] = 0]
  /\ removed' = removed \cup {u} \cup {owner[t] : t \in gone}
  /\ Losing(u, gone)
  /\ UNCHANGED mixed

\* The rows of the tenants gone.
DeleteTenants(gone) ==
  /\ tenants' = tenants \ gone
  /\ name' = [t \in TenantIds |-> IF t \in gone THEN None ELSE name[t]]
  /\ client' = [t \in TenantIds |-> IF t \in gone THEN None ELSE client[t]]
  /\ credits' = [t \in TenantIds |-> IF t \in gone THEN 0 ELSE credits[t]]

\* Mutant: no foreign key from tenant_users to user_preferences.
ResetUnchecked(u) ==
  /\ u \in prefs
  /\ Remove(u, {})
  /\ UNCHANGED <<tenants, name, client, credits, members>>

\* reset_user_preferences: refused while a tenant_users row refers to the user.
ResetPreferences(u) ==
  /\ u \in prefs
  /\ ~ \E t \in TenantIds : <<t, u>> \in members
  /\ Remove(u, {})
  /\ UNCHANGED <<tenants, name, client, credits, members>>

\* The tenants with the e-mail of u for a name, whoever owns them.
NamedAfter(u) == {t \in tenants : name[t] = u}

\* Mutant: not one transaction; it fails after the first tenant statement.
CleanHalfDone(u) ==
  /\ members' = {m \in members : m[2] # u}
  /\ UNCHANGED <<prefs, mixed, default, legacy, tenants, owner, name, client, credits,
                 pc, reqVars, histVars>>

\* force_clean_user_data: the user's links, the tenants named after the user
\* with all that refers to them, and the preferences row.
ForceClean(u) ==
  /\ members' = {m \in members : m[2] # u /\ m[1] \notin NamedAfter(u)}
  /\ DeleteTenants(NamedAfter(u))
  /\ Remove(u, NamedAfter(u))

\* The same for the e-mail in its other spelling, which no link has: the
\* tenants given that very text for a name, and the row of that spelling.
\* (Without a tenant it is also the reset of that row.)
ForceCleanMixed(u) ==
  \E gone \in SUBSET {t \in tenants : name[t] = Other} :
    /\ u \in mixed \/ gone # {}
    /\ mixed' = mixed \ {u}
    /\ members' = {m \in members : m[1] \notin gone}
    /\ DeleteTenants(gone)
    /\ removed' = removed \cup {owner[t] : t \in gone}
    /\ Losing(u, gone)
    /\ UNCHANGED <<prefs, default, legacy>>

Finished ==
  /\ \A r \in Requests : pc[r] \in Ended
  /\ UNCHANGED vars

Handle(r) ==
  \/ FindDefault(r) \/ CheckExists(r) \/ InsertPrefs(r)
  \/ \E t \in TenantIds : InsertTenant(r, t)
  \/ LinkUser(r) \/ SetDefault(r) \/ ReadLegacy(r) \/ AddLegacy(r) \/ ClearLegacy(r)
  \/ Rename(r) \/ SetClientId(r) \/ Refused(r)

Next ==
  \/ \E r \in Requests, c \in Menu : Start(r, c)
  \/ \E r \in Requests : Handle(r) \/ DbFails(r)
  \/ \E u \in Users :
       \/ InsertPreferences(u) \/ UpdatePreferencesMixed(u)
       \/ ResetPreferences(u) \/ ForceClean(u) \/ ForceCleanMixed(u)
  \/ Crash
  \/ Finished

Spec == Init /\ [][Next]_vars

-----------------------------------------------------------------------------
(* What the directory promises.                                            *)

TenantOf(u) == {t \in tenants : owner[t] = u}

\* Types, and the foreign keys of tenant_users.
TypeOK ==
  /\ prefs \subseteq Users /\ mixed \subseteq Users
  /\ default \in [Users -> TenantIds \cup {None}]
  /\ legacy \in [Users -> Nat]
  /\ tenants \subseteq Issued
  /\ owner \in [TenantIds -> Users \cup {None}]
  /\ name \in [TenantIds -> Names \cup {None}]
  /\ client \in [TenantIds -> ClientIds \cup {None}]
  /\ \A t \in TenantIds \ tenants : name[t] = None /\ client[t] = None
  /\ credits \in [TenantIds -> Nat]
  /\ members \subseteq tenants \X prefs
  /\ req \in [Requests -> Calls \cup {NoRequest}]
  /\ pc \in [Requests -> {"idle"} \cup InFlight \cup Ended]
  /\ tid \in [Requests -> TenantIds \cup {None}]
  /\ old \in [Requests -> Nat]
  /\ disturbed \subseteq Users /\ removed \subseteq disturbed /\ bereft \subseteq removed

\* Whatever calls race, fail or are cut short, and whatever is removed: a
\* default tenant that exists is one its user owns and is a member of, so the
\* access check never refuses a user the tenant resolved for them.
DefaultIsOwnMembership ==
  \A u \in prefs : default[u] \in tenants =>
    owner[default[u]] = u /\ <<default[u], u>> \in members

\* A call of u has given u's tenant the name of another, or no user's.
HasRenamed(u) ==
  \E r \in Requests :
    pc[r] = "ok" /\ req[r].purpose = "rename" /\ User(r) = u /\ req[r].value # u

\* Unless the account or a tenant of the user is removed, the credits of the
\* time before tenants are never lost: they are still in the preferences row,
\* or one of the user's tenants has them in full (after a race, more than one
\* has).  A removal of another account takes the tenant, with the credits,
\* only from a user who has renamed it.
LegacyNeverLost ==
  /\ \A u \in Users \ removed :
       \/ legacy[u] = LegacyCredits[u]
       \/ \E t \in TenantOf(u) : credits[t] >= LegacyCredits[u]
  /\ \A u \in bereft : HasRenamed(u)

\* Calls of a user that do not overlap, fail or meet a removal settle, whatever
\* other users do: there is one tenant, it is the default, every call returned
\* it, it has exactly the migrated credits, and the database refuses nothing
\* but a client id.
UndisturbedCallsSettle ==
  \A u \in Users \ disturbed :
    \A r \in Requests : pc[r] \in {"ok", "refused"} /\ User(r) = u =>
      /\ pc[r] = "refused" => req[r].purpose = "client" /\ req[r].value # None
      /\ TenantOf(u) = {tid[r]}
      /\ default[u] = tid[r]
      /\ credits[tid[r]] = LegacyCredits[u]
      /\ legacy[u] = 0
=============================================================================
