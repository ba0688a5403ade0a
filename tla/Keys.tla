-------------------------------- MODULE Keys --------------------------------
(***************************************************************************)
(* API keys from their issue to their end.  A key is refused once it is    *)
(* revoked, expired or removed with its owner's account, and a caller who  *)
(* submits wrong keys is refused for a while.                              *)
(*                                                                         *)
(* The handlers run statement by statement.  All statements are their own  *)
(* transactions except those of the removal of an account, whose deletions *)
(* make others wait for the rows until it ends.                            *)
(*                                                                         *)
(* A key is its id, which also stands for the 16 characters that failures  *)
(* are counted under.  A tenant is written as the user it belongs to: one  *)
(* that was removed and its successor are not told apart.                  *)
(***************************************************************************)
EXTENDS Integers, FiniteSets

CONSTANTS
  Requests,       \* calls to the API
  Users,          \* their e-mails
  Opening,        \* the keys at the start
  Menu,           \* the calls that may be made
  MaxFailures,    \* MAX_FAILURES
  WindowSecs,     \* WINDOW_SECS
  EvictThreshold, \* EVICT_THRESHOLD
  Year,           \* 365 days
  MaxTime,        \* bound: the clock
  Nobody,         \* no tenant is given
  Never           \* expires_at IS NULL

\* The key a request issues has the request as its id.
KeyIds == DOMAIN Opening \cup Requests

KeyRecord ==
  [owner : Users, tenant : Users, provider : Users \cup {Nobody},
   expires : Nat \cup {Never}, active : BOOLEAN]

Calls ==
       [op : {"generate"}, user : Users,
        tenant : Users \cup {Nobody}, provider : Users \cup {Nobody}]
  \cup [op : {"consumer"}, user : Users, provider : Users]
  \cup [op : {"revoke"}, user : Users, key : KeyIds]
  \cup [op : {"revoke_all", "remove"}, user : Users]
  \cup [op : {"validate"}, key : KeyIds, genuine : BOOLEAN, tenant : Users \cup {Nobody}]
  \cup [op : {"log"}, user : Users, key : KeyIds, tenant : Users \cup {Nobody}]

ASSUME KeysAssumption ==
  /\ IsFiniteSet(Requests)
  /\ Opening \in [DOMAIN Opening -> KeyRecord]
  /\ DOMAIN Opening \cap Requests = {}
  /\ Menu \subseteq Calls
  /\ MaxFailures \in Nat \ {0} /\ WindowSecs \in Nat \ {0} /\ EvictThreshold \in Nat
  /\ Year \in Nat /\ MaxTime \in Nat
  /\ Nobody \notin Users /\ Never \notin Nat

VARIABLES
  keys,    \* api_keys: the rows by id
  prefs,   \* user_preferences: welcome_sent by e-mail
  tenants, \* tenants: the users who have one
  logs,    \* api_usage_logs: the rows, by the request that wrote them
  call,    \* what each request asks for
  pc,      \* its next statement
  gone,    \* rows a removal under way has deleted
  fails,   \* FAIL_MAP: the failure windows
  now,     \* the clock
  ended,   \* history: keys that a call was told are revoked or removed
  peak,    \* history: the most validations of a key that were under way at once
  mails,   \* history: which requests sent a user the welcome mail
  excused  \* history: users with two first keys at once, a failed UPDATE or a removal

rows == <<keys, prefs, tenants, logs>>
history == <<ended, peak, mails, excused>>
vars == <<keys, prefs, tenants, logs, call, pc, gone, fails, now, ended, peak, mails, excused>>

NoCall == [op |-> "none"]
Ended == {"ok", "none", "error", "refused", "accepted", "invalid", "lost"}
InFlight(r) == pc[r] \notin Ended \cup {"idle"}
Is(r, op) == call[r].op = op
Key(r) == call[r].key

KeyRow(k)   == <<"api_keys", k>>
LogRow(q)   == <<"api_usage_logs", q>>
PrefsRow(u) == <<"user_preferences", u>>
TenantRow(u) == <<"tenants", u>>

Without(f, S) == [x \in DOMAIN f \ S |-> f[x]]
With(f, x, v) == [y \in DOMAIN f \cup {x} |-> IF y = x THEN v ELSE f[y]]

\* No other transaction has deleted these rows without having ended.
Unlocked(r, some) == \A q \in Requests \ {r} : some \cap gone[q] = {}
Goto(r, step) == pc' = [pc EXCEPT ![r] = step]

Accounts == (UNION {{Opening[k].owner, Opening[k].provider} : k \in DOMAIN Opening}) \ {Nobody}

Init ==
  /\ keys = Opening
  /\ prefs = [u \in Accounts |-> FALSE]
  /\ tenants = Accounts
  /\ logs = [q \in {} |-> NoCall]
  /\ call = [r \in Requests |-> NoCall]
  /\ pc = [r \in Requests |-> "idle"]
  /\ gone = [r \in Requests |-> {}]
  /\ fails = [k \in {} |-> NoCall]
  /\ now = 0
  /\ ended = {}
  /\ peak = [k \in KeyIds |-> 0]
  /\ mails = {} /\ excused = {}

\* A request is accepted and comes to its first statement.
Accept(r, c, step) ==
  /\ pc[r] = "idle"
  /\ call' = [call EXCEPT ![r] = c]
  /\ Goto(r, step)

\* A key somebody can know: a client keeps one that has ended.
Known(k) == k \in DOMAIN Opening \cup DOMAIN keys \cup ended

-----------------------------------------------------------------------------
(* Issue.                                                                  *)

GenerateKey(r, c) ==
  /\ c.op = "generate"
  /\ Accept(r, c, IF c.tenant = Nobody THEN "resolve" ELSE "insert")
  /\ UNCHANGED <<rows, gone, fails, now, history>>

\* By the provider, whose tenant is resolved first, or by the consumer, if there
\* is such a provider.
ConsumerKey(r, c) ==
  /\ c.op = "consumer"
  /\ \/ Accept(r, c, "resolve_provider")
     \/ Accept(r, c, IF c.provider \in tenants THEN "resolve" ELSE "error")
  /\ UNCHANGED <<rows, gone, fails, now, history>>

\* The directory resolves a tenant, for a user without an account after it has
\* made one.
Resolved(u) ==
  IF u \in DOMAIN prefs THEN UNCHANGED <<prefs, tenants>>
  ELSE prefs' = With(prefs, u, FALSE) /\ tenants' = tenants \cup {u}

ResolveProvider(r) ==
  /\ pc[r] = "resolve_provider"
  /\ Resolved(call[r].provider)
  /\ Goto(r, "resolve")
  /\ UNCHANGED <<keys, logs, call, gone, fails, now, history>>

Resolve(r) ==
  /\ pc[r] = "resolve"
  /\ Resolved(call[r].user)
  /\ Goto(r, CASE Is(r, "revoke")     -> "find"
               [] Is(r, "revoke_all") -> "revoke_all"
               [] OTHER               -> "insert")
  /\ UNCHANGED <<keys, logs, call, gone, fails, now, history>>

\* Mutant: a key gets the given tenant, also when none is given.
IssuedUnresolved(r) ==
  LET c == call[r] IN
  [owner     |-> c.user,
   tenant    |-> IF c.op = "generate" THEN c.tenant ELSE c.user,
   provider  |-> c.provider,
   expires   |-> IF c.op = "generate" /\ c.provider # Nobody THEN now + Year ELSE Never,
   active    |-> TRUE]

\* Only the handler of "generate" gives a consumer's key an end.
IssuedKey(r) ==
  LET c == call[r] IN
  [owner     |-> c.user,
   tenant    |-> IF c.op = "generate" /\ c.tenant # Nobody THEN c.tenant ELSE c.user,
   provider  |-> c.provider,
   expires   |-> IF c.op = "generate" /\ c.provider # Nobody THEN now + Year ELSE Never,
   active    |-> TRUE]

\* The foreign keys ask for the owner's preferences and the provider's tenant.
HasOwner(r) == call[r].user \in DOMAIN prefs
HasProvider(r) == call[r].provider \in tenants \cup {Nobody}

\* Mutant: api_keys has no foreign key to user_preferences.
InsertOwnerless(r) ==
  /\ pc[r] = "insert"
  /\ keys' = With(keys, r, IssuedKey(r))
  /\ Goto(r, IF Is(r, "generate") THEN "read_flag" ELSE "ok")
  /\ UNCHANGED <<prefs, tenants, logs, call, gone, fails, now, history>>

InsertKey(r) ==
  /\ pc[r] = "insert"
  /\ Unlocked(r, {PrefsRow(call[r].user), TenantRow(call[r].provider)})
  /\ IF HasOwner(r) /\ HasProvider(r)
     THEN /\ keys' = With(keys, r, IssuedKey(r))
          /\ Goto(r, IF Is(r, "generate") THEN "read_flag" ELSE "ok")
     ELSE Goto(r, "error") /\ UNCHANGED keys
  /\ UNCHANGED <<prefs, tenants, logs, call, gone, fails, now, history>>

\* The spawned task that sends the welcome mail with the first key: it reads
\* the flag, sets it and sends, whether it was set or not.
FlagRace(r) ==
  \E q \in Requests \ {r} : pc[q] = "set_flag" /\ call[q].user = call[r].user

ReadFlag(r) ==
  /\ pc[r] = "read_flag"
  /\ IF HasOwner(r) /\ ~prefs[call[r].user]
     THEN /\ Goto(r, "set_flag")
          /\ excused' = IF FlagRace(r) THEN excused \cup {call[r].user} ELSE excused
     ELSE Goto(r, "ok") /\ UNCHANGED excused
  /\ UNCHANGED <<rows, call, gone, fails, now, ended, peak, mails>>

SendsWelcome(r) ==
  /\ mails' = mails \cup {<<call[r].user, r>>}
  /\ Goto(r, "ok")

\* Mutant: the flag is not set.
SendOnly(r) ==
  /\ pc[r] = "set_flag"
  /\ SendsWelcome(r)
  /\ UNCHANGED <<rows, call, gone, fails, now, ended, peak, excused>>

SetFlag(r) ==
  /\ pc[r] = "set_flag"
  /\ Unlocked(r, {PrefsRow(call[r].user)})
  /\ prefs' = [u \in DOMAIN prefs |-> u = call[r].user \/ prefs[u]]
  /\ SendsWelcome(r)
  /\ UNCHANGED <<keys, tenants, logs, call, gone, fails, now, ended, peak, excused>>

SetFlagFails(r) ==
  /\ pc[r] = "set_flag"
  /\ SendsWelcome(r)
  /\ excused' = excused \cup {call[r].user}
  /\ UNCHANGED <<rows, call, gone, fails, now, ended, peak>>

-----------------------------------------------------------------------------
(* Revocation.                                                             *)

\* By the tenant's id, or by an e-mail that is resolved first.
RevokeKey(r, c) ==
  /\ c.op = "revoke" /\ Known(c.key)
  /\ \E step \in {"resolve", "find"} : Accept(r, c, step)
  /\ UNCHANGED <<rows, gone, fails, now, history>>

RevokeAll(r, c) ==
  /\ c.op = "revoke_all"
  /\ \E step \in {"resolve", "revoke_all"} : Accept(r, c, step)
  /\ UNCHANGED <<rows, gone, fails, now, history>>

OfTenant(k, u) == k \in DOMAIN keys /\ keys[k].tenant = u

\* Ok(false) for a key that is not there, not the tenant's or not active.
FindKey(r) ==
  /\ pc[r] = "find"
  /\ Goto(r, IF OfTenant(Key(r), call[r].user) /\ keys[Key(r)].active THEN "revoke" ELSE "none")
  /\ UNCHANGED <<rows, call, gone, fails, now, history>>

\* The UPDATE, and the answer that the keys are revoked.
Revokes(r, some) ==
  /\ Unlocked(r, {KeyRow(k) : k \in some})
  /\ keys' = [k \in DOMAIN keys |->
                IF k \in some THEN [keys[k] EXCEPT !.active = FALSE] ELSE keys[k]]
  /\ Goto(r, "ok")
  /\ UNCHANGED <<prefs, tenants, logs, call, gone, fails, now, peak, mails, excused>>

UpdateKey(r) ==
  /\ pc[r] = "revoke"
  /\ Revokes(r, {k \in {Key(r)} : OfTenant(k, call[r].user)})
  /\ ended' = ended \cup {Key(r)}

\* Mutant: the keys of the tenant that have a provider are left out.
UpdateOwnKeys(r) ==
  /\ pc[r] = "revoke_all"
  /\ Revokes(r, {k \in DOMAIN keys : OfTenant(k, call[r].user) /\ keys[k].provider = Nobody})
  /\ ended' = ended \cup {k \in DOMAIN keys : keys[k].tenant = call[r].user}

UpdateAllKeys(r) ==
  /\ pc[r] = "revoke_all"
  /\ Revokes(r, {k \in DOMAIN keys : OfTenant(k, call[r].user)})
  /\ ended' = ended \cup {k \in DOMAIN keys : keys[k].tenant = call[r].user}

-----------------------------------------------------------------------------
(* Validation behind the failure windows.                                  *)

Live(k) == now - fails[k].started < WindowSecs

\* Mutant: the eviction forgets every window.
EvictsAll == IF Cardinality(DOMAIN fails) >= EvictThreshold THEN [k \in {} |-> NoCall] ELSE fails

\* Windows that have ended are evicted when there are many.
Evicted ==
  IF Cardinality(DOMAIN fails) >= EvictThreshold
  THEN [k \in {x \in DOMAIN fails : Live(x)} |-> fails[k]]
  ELSE fails

\* Mutant: the limit itself is still allowed.
AllowsOneMore(k) == k \in DOMAIN fails /\ Live(k) => fails[k].count <= MaxFailures

Allowed(k) == k \in DOMAIN fails /\ Live(k) => fails[k].count < MaxFailures

UnderWay(k) == {r \in Requests : pc[r] \in {"lookup", "record"} /\ Key(r) = k}
Larger(m, n) == IF m < n THEN n ELSE m

\* rate_limit_check, and on to the database unless it refuses.
ValidateKey(r, c) ==
  /\ c.op = "validate" /\ Known(c.key)
  /\ fails' = Evicted
  /\ IF Allowed(c.key)
     THEN /\ Accept(r, c, "lookup")
          /\ peak' = [peak EXCEPT ![c.key] = Larger(@, Cardinality(UnderWay(c.key)) + 1)]
     ELSE Accept(r, c, "refused") /\ UNCHANGED peak
  /\ UNCHANGED <<rows, gone, now, ended, mails, excused>>

FindsKey(r) ==
  LET k == Key(r) IN
  /\ call[r].genuine
  /\ k \in DOMAIN keys
  /\ keys[k].active
  /\ keys[k].expires # Never => now < keys[k].expires
  /\ call[r].tenant # Nobody => keys[k].tenant = call[r].tenant

LookUpKey(r) ==
  /\ pc[r] = "lookup"
  /\ Goto(r, IF FindsKey(r) THEN "accepted" ELSE "record")
  /\ UNCHANGED <<rows, call, gone, fails, now, history>>

\* record_failure: a window that has ended starts again, with this failure.
Counted(k) ==
  IF k \in DOMAIN fails /\ Live(k)
  THEN [fails[k] EXCEPT !.count = @ + 1]
  ELSE [count |-> 1, started |-> now]

RecordFailure(r) ==
  /\ pc[r] = "record"
  /\ fails' = With(fails, Key(r), Counted(Key(r)))
  /\ Goto(r, "invalid")
  /\ UNCHANGED <<rows, call, gone, now, history>>

-----------------------------------------------------------------------------
(* The usage log.  The gateway logs a call under the e-mail that the        *)
(* validation of its key has answered, the owner's.                        *)

\* The user a key was issued to, also when the row is gone by now.
IssuedTo(k) == IF k \in DOMAIN Opening THEN Opening[k].owner ELSE call[k].user

LogUsage(r, c) ==
  /\ c.op = "log" /\ Known(c.key) /\ c.user = IssuedTo(c.key)
  /\ Accept(r, c, "insert_log")
  /\ UNCHANGED <<rows, gone, fails, now, history>>

\* The tenant is the given one, the key's provider or the key's; a key never
\* changes these, so reading them and the INSERT, which the foreign key
\* refuses when there is no such key, are one step.
LogTenant(r) ==
  LET row == keys[Key(r)] IN
  CASE call[r].tenant # Nobody -> call[r].tenant
    [] call[r].tenant = Nobody /\ row.provider # Nobody -> row.provider
    [] OTHER -> row.tenant

\* A call that has used tokens is paid for next.
InsertLog(r) ==
  /\ pc[r] = "insert_log"
  /\ Unlocked(r, {KeyRow(Key(r))})
  /\ IF Key(r) \in DOMAIN keys
     THEN /\ logs' = With(logs, r, [key |-> Key(r), owner |-> call[r].user,
                                    tenant |-> LogTenant(r)])
          /\ \E step \in {"resolve_payer", "ok"} : Goto(r, step)
     ELSE Goto(r, "error") /\ UNCHANGED logs
  /\ UNCHANGED <<keys, prefs, tenants, call, gone, fails, now, history>>

\* The deduction, whose credits are not kept here, resolves the tenant: an
\* account removed meanwhile is made again.
ResolvePayer(r) ==
  /\ pc[r] = "resolve_payer"
  /\ Resolved(call[r].user)
  /\ Goto(r, "ok")
  /\ UNCHANGED <<keys, logs, call, gone, fails, now, history>>

-----------------------------------------------------------------------------
(* Removal: force_clean_user_data, as far as keys and logs go.             *)

ForceClean(r, c) ==
  /\ c.op = "remove"
  /\ Accept(r, c, "drop_logs")
  /\ UNCHANGED <<rows, gone, fails, now, history>>

Drop(r, some, step) ==
  /\ Unlocked(r, some)
  /\ gone' = [gone EXCEPT ![r] = @ \cup some]
  /\ Goto(r, step)
  /\ UNCHANGED <<rows, call, fails, now, history>>

\* The transaction is rolled back and its caller told.
RollBack(r) ==
  /\ gone' = [gone EXCEPT ![r] = {}]
  /\ Goto(r, "error")
  /\ UNCHANGED <<rows, call, fails, now, history>>

\* DELETE FROM api_usage_logs, by e-mail and then by tenant.
DropLogs(r) ==
  LET OfUser   == {q \in DOMAIN logs : logs[q].owner = call[r].user}
      ToTenant == {q \in DOMAIN logs : logs[q].tenant = call[r].user}
  IN \/ pc[r] = "drop_logs" /\ Drop(r, {LogRow(q) : q \in OfUser}, "drop_keys")
     \/ pc[r] = "drop_tenant_logs" /\ Drop(r, {LogRow(q) : q \in ToTenant}, "drop_tenant_keys")

\* Mutant: api_usage_logs has no foreign key to api_keys.
LogsIgnored(some) == {}

LogsOf(some) == {q \in DOMAIN logs : logs[q].key \in some}

\* DELETE FROM api_keys, refused while a log of one of the keys is there.
DropsKeys(r, some, step) ==
  LET left == {LogRow(q) : q \in LogsOf(some)} \ gone[r] IN
  /\ Unlocked(r, left)
  /\ IF left = {} THEN Drop(r, {KeyRow(k) : k \in some}, step)
     ELSE Unlocked(r, {KeyRow(k) : k \in some}) /\ RollBack(r)

\* By e-mail, and by the tenant that is found by its name, which may have changed.
DropKeys(r) ==
  \/ pc[r] = "drop_keys" /\ \E step \in {"drop_tenant_logs", "drop_prefs"} :
     DropsKeys(r, {k \in DOMAIN keys : keys[k].owner = call[r].user}, step)
  \/ pc[r] = "drop_tenant_keys" /\
     DropsKeys(r, {k \in DOMAIN keys : keys[k].tenant = call[r].user}, "drop_tenant")

\* DELETE FROM tenants, refused while the tenant is the provider of a key.
ProvidedLeft(r) ==
  {KeyRow(k) : k \in {x \in DOMAIN keys : keys[x].provider = call[r].user}} \ gone[r]

DropTenant(r) ==
  /\ pc[r] = "drop_tenant"
  /\ Unlocked(r, ProvidedLeft(r) \cup {TenantRow(call[r].user)})
  /\ IF ProvidedLeft(r) = {}
     THEN Drop(r, {TenantRow(u) : u \in tenants \cap {call[r].user}}, "drop_prefs")
     ELSE RollBack(r)

\* DELETE FROM user_preferences, refused while a key of the user is there.
OwnKeysLeft(r) ==
  {KeyRow(k) : k \in {x \in DOMAIN keys : keys[x].owner = call[r].user}} \ gone[r]

DropPrefs(r) ==
  /\ pc[r] = "drop_prefs"
  /\ Unlocked(r, OwnKeysLeft(r) \cup {PrefsRow(call[r].user)})
  /\ IF OwnKeysLeft(r) = {}
     THEN Drop(r, {PrefsRow(u) : u \in DOMAIN prefs \cap {call[r].user}}, "commit")
     ELSE RollBack(r)

Commit(r) ==
  LET Dropped(k) == KeyRow(k) \in gone[r] IN
  /\ pc[r] = "commit"
  /\ keys'  = Without(keys, {k \in DOMAIN keys : Dropped(k)})
  /\ logs'  = Without(logs, {q \in DOMAIN logs : LogRow(q) \in gone[r]})
  /\ prefs' = Without(prefs, {u \in DOMAIN prefs : PrefsRow(u) \in gone[r]})
  /\ tenants' = {u \in tenants : TenantRow(u) \notin gone[r]}
  /\ gone'  = [gone EXCEPT ![r] = {}]
  /\ ended' = ended \cup {k \in DOMAIN keys : Dropped(k)}
  /\ excused' = excused \cup {u \in Users : PrefsRow(u) \in gone[r]}
  /\ Goto(r, "ok")
  /\ UNCHANGED <<call, fails, now, peak, mails>>

-----------------------------------------------------------------------------
(* What happens to all of them.                                            *)

\* A statement fails: the request ends, with an error where it had not been
\* answered.  A validation that fails so is not counted.
DbFails(r) ==
  /\ InFlight(r)
  /\ pc[r] \notin {"set_flag", "record"}
  /\ gone' = [gone EXCEPT ![r] = {}]
  /\ Goto(r, IF pc[r] \in {"read_flag", "resolve_payer"} THEN "ok" ELSE "error")
  /\ UNCHANGED <<rows, call, fails, now, history>>

\* The server stops: the windows are forgotten, uncommitted deletions undone.
Restart ==
  /\ \E r \in Requests : InFlight(r)
  /\ pc' = [r \in Requests |-> IF InFlight(r) THEN "lost" ELSE pc[r]]
  /\ gone' = [r \in Requests |-> {}]
  /\ fails' = [k \in {} |-> NoCall]
  /\ UNCHANGED <<rows, call, now, history>>

Tick ==
  /\ now < MaxTime
  /\ now' = now + 1
  /\ UNCHANGED <<rows, call, pc, gone, fails, history>>

Finished ==
  /\ \A r \in Requests : pc[r] \in Ended
  /\ now = MaxTime
  /\ UNCHANGED vars

Receive(r, c) ==
  \/ GenerateKey(r, c) \/ ConsumerKey(r, c)
  \/ RevokeKey(r, c) \/ RevokeAll(r, c)
  \/ ValidateKey(r, c) \/ LogUsage(r, c) \/ ForceClean(r, c)

Handle(r) ==
  \/ ResolveProvider(r) \/ Resolve(r) \/ InsertKey(r)
  \/ ReadFlag(r) \/ SetFlag(r) \/ SetFlagFails(r)
  \/ FindKey(r) \/ UpdateKey(r) \/ UpdateAllKeys(r)
  \/ LookUpKey(r) \/ RecordFailure(r)
  \/ InsertLog(r) \/ ResolvePayer(r)
  \/ DropLogs(r) \/ DropKeys(r) \/ DropTenant(r) \/ DropPrefs(r) \/ Commit(r)
  \/ DbFails(r)

Next ==
  \/ \E r \in Requests, c \in Menu : Receive(r, c)
  \/ \E r \in Requests : Handle(r)
  \/ Restart
  \/ Tick
  \/ Finished

Spec == Init /\ [][Next]_vars

-----------------------------------------------------------------------------
(* What the handlers promise.                                              *)

\* Every variable holds a value of its kind.
TypeOK ==
  /\ keys \in [DOMAIN keys -> KeyRecord] /\ DOMAIN keys \subseteq KeyIds
  /\ prefs \in [DOMAIN prefs -> BOOLEAN] /\ DOMAIN prefs \subseteq Users
  /\ tenants \subseteq Users
  /\ logs \in [DOMAIN logs -> [key : KeyIds, owner : Users, tenant : Users]]
  /\ DOMAIN logs \subseteq Requests
  /\ call \in [Requests -> Menu \cup {NoCall}]
  /\ fails \in [DOMAIN fails -> [count : Nat \ {0}, started : 0..now]]
  /\ DOMAIN fails \subseteq KeyIds
  /\ now \in 0..MaxTime
  /\ ended \subseteq KeyIds
  /\ peak \in [KeyIds -> Nat]
  /\ mails \subseteq Users \X Requests /\ excused \subseteq Users

\* No key is without its owner or its provider and no log without its key, also
\* while an account is removed around them.
ReferencesHold ==
  /\ \A k \in DOMAIN keys : /\ keys[k].owner \in DOMAIN prefs
                            /\ keys[k].provider \in tenants \cup {Nobody}
  /\ \A q \in DOMAIN logs : logs[q].key \in DOMAIN keys

\* The transaction that removes an account leaves no key and no log of its
\* user, also of those made since it began.
RemovalIsTotal ==
  [][\A r \in Requests :
       pc[r] = "commit" /\ pc'[r] = "ok" /\ PrefsRow(call[r].user) \in gone[r] =>
       /\ \A k \in DOMAIN keys' : keys'[k].owner # call[r].user
       /\ \A q \in DOMAIN logs' : logs'[q].owner # call[r].user]_vars

\* Once a call was told that a key is revoked or its account removed, no
\* validation that comes to the database later accepts it.
EndedIsRefused ==
  [][\A r \in Requests :
       pc[r] = "lookup" /\ pc'[r] = "accepted" => Key(r) \notin ended]_vars

\* key_validate.rs: "Exceeding MAX_FAILURES in WINDOW_SECS returns HTTP 429".
\* The check is made before the database is asked and the failure recorded
\* after it, so the failures of one window exceed the limit by the validations
\* that were under way at once, less one, and by no more.
LimitHolds ==
  \A k \in DOMAIN fails : Live(k) => fails[k].count < MaxFailures + peak[k]

\* A caller who is refused stays so until the window ends or the server is
\* restarted: no other caller's failures and no eviction lets them in.
Refused(k) == ~Allowed(k)

RefusedUntilWindowEnds ==
  [][\A k \in DOMAIN fails :
       Refused(k) /\ ~Refused(k)' => now' - fails[k].started >= WindowSecs \/ Restart]_vars

\* schema.sql: welcome_sent "prevents duplicate welcome emails".  It does unless
\* two first keys are made at once, the UPDATE fails or the account is removed.
WelcomeOnce ==
  \A m, n \in mails : m[1] = n[1] /\ m # n => m[1] \in excused
=============================================================================
