# Models and proofs for the API store

The API store (`src/`) is one Rust process: an HTTP server (actix) and a gRPC
server (tonic) over one PostgreSQL database, reached through one connection
pool. It keeps the users' API groups and endpoints, their tenants, API keys and
credits, takes payments through Stripe, and hands e-mails to a sender task.
Nearly all of its state is in the database; nearly every handler is a sequence
of `await`s, and only a few of them open a transaction. So the questions worth
asking are about statements of different requests in between each other, and
about what is left behind when a sequence stops half way.

## Inventory

| component | code (under `src/src`) | state | operations | what is hard |
|---|---|---|---|---|
| credit ledger | `endpoint_store/api_key_management.rs` (`update_credit_balance*`), `payment/update_balance.rs`, `payment/admin.rs` | `tenants.credit_balance`, `credit_transactions` | add to a balance, read it, record it, warn | three statements, three transactions; an error after the commit |
| tenant directory | `endpoint_store/tenant_management.rs` | `user_preferences`, `tenants`, `tenant_users` | resolve or create a user's tenant, migrate old credits, rename, set the client id | nine statements, run before nearly every operation of the store, also by two first requests at once |
| account removal | `endpoint_store/cleanup.rs`, `user/reset.rs` | all of a user's rows | force clean (one transaction), reset (one DELETE) | happens in between the statements above |
| payments | `payment/payment.rs`, `payment/service.rs`, `grpc_server.rs` | none of its own | create an intent, confirm it | Stripe, lost answers, repeated confirms |
| connection pool | `infra/db.rs`, `endpoint_store/mod.rs`, `endpoint_store/get_create_user_api_groups.rs` | connections, waiters | get, drop | no timeout, one call that needs two |
| endpoint store | `endpoint_store/*group*.rs`, `*endpoint*.rs`, `api/group_*.rs`, `api/endpoint_*.rs`, `api/config_upload.rs` | `api_groups`, `endpoints`, `parameters`, `user_groups`, `user_endpoints` | add, update, delete, import, manage, first read | groups and endpoints shared by users; delete then add in two transactions; the import's cleanup, which may be refused |
| API keys, usage log | `api/key_*.rs`, `api/usage_*.rs` | `api_keys`, `api_usage_logs`, `welcome_sent`, `first_call_at` | issue, revoke, validate, log and charge, mails sent once | flags read and then set by spawned tasks |
| key validation | `api/key_validate.rs` | a map of failure windows in memory | check, record | check and record are separated by an await |
| MCP tools | `endpoint_store/mcp_tools_management.rs`, `mcp/*` | `mcp_tools`, client ids, downstream credentials | upsert, list, delete, synchronise | tools of two origins under one name |
| preferences | `endpoint_store/user_preferences.rs` | `hidden_defaults` | hide, show, reset | read, change, write back |
| engagement scheduler, e-mail | `main.rs`, `email/mod.rs` | `nudge_sent_at`, `winback_sent_at` | daily pass | sends, then marks |
| WhatsApp | `whatsapp/*` | channels, sessions, dead letters | upserts | history replaced as a whole |
| administration, authentication, domains, reference data, formatter, servers | `admin/*`, `infra/*`, `http_server.rs`, ... | single rows | single statements | little |

They interact by calls and through shared rows. Handlers resolve the caller's
tenant through the directory, then act on that tenant. Payments, the usage log,
the welcome credit, the credit endpoint and the administrator all end in
`update_credit_balance`. An import of groups starts with the removal of the
account. Everybody shares the pool.

What makes each correct, and which of it is stated as a property here:

- the ledger: no committed change is lost or made twice, the history stands for
  changes that were made, an Ok answer means a change was made;
- the directory: a default tenant is one the user may use, old credits survive
  the migration and, unless the tenant was renamed, the removal of others, calls
  that nobody disturbs leave one tenant;
- the payments: credits bought only with an intent that was paid, answers only for
  what was credited;
- the pool: connections are conserved, nobody waits for ever except in the one
  way that nesting makes possible;
- the endpoint store: nothing in use is deleted, nobody loses an endpoint
  because someone else lets go of it, an addition is whole, nothing is left
  behind except where deletions race or users share;
- the keys: a key that was revoked, or removed with its account, is refused;
  a removal leaves no key and no log of the user; the welcome mail is sent once;
- key validation: the failures of a window stay within the limit and what was
  under way, and who is refused stays refused until the window ends;
- the usage log: nobody is charged for what is not logged or used nothing, and
  what is logged and not charged is so because the charge failed;
- the mails of the scheduler: one that is marked is not sent again while the tenant
  lasts, a silent user is nudged in the end, a month has one digest;
- the tools: a reader is given what was there all the time, under one name each;
  what an import has answered is served, and what it has not done leaves nothing.

## The modules

| module | what it is |
|---|---|
| `Credits` | the promise of `update_credit_balance` to its callers, as one atomic step and an answer |
| `CreditLedger` | the three statements and the two handlers, implementing `Credits` |
| `CreditLedgerProofs` | the safety theorems of `CreditLedger`, and that it implements `Credits` |
| `TenantDirectory` | users, tenants and memberships, statement by statement |
| `TenantDirectoryProofs` | the safety theorems of `TenantDirectory` |
| `Payments` | buying, charging and giving credits: the confirm handlers, the deduction for a logged call, the welcome credit, composed with `Credits` |
| `PaymentsProofs` | the safety theorems of `Payments`, and that it uses `Credits` as it may |
| `ConnPool` | the pool and the calls that share it |
| `ConnPoolProofs` | the safety theorems of `ConnPool`, and when the pool cannot stall |
| `EndpointStore` | groups, endpoints and their links: the transactions of the handlers, statement by statement |
| `EndpointStoreProofs` | the safety theorems of `EndpointStore` |
| `Keys` | API keys from issue to end, the failure windows of validation, the usage log's rows, the removal around them |
| `KeysProofs` | the safety theorems of `Keys` |
| `Engagement` | the daily pass of the scheduler and the milestone mail, with the marks that keep mails from being repeated |
| `EngagementProofs` | the safety theorems of `Engagement` |
| `McpTools` | a user's tools: rows and virtual ones, readers, imports and their synchronisation |
| `McpToolsProofs` | the safety theorems of `McpTools` |
| `MC*` | the instances TLC checks |

### CreditLedger

One request is one handler run. Its `pc` is the statement it is about to send:
`update`, `select`, `insert`; then `ok` or `error`, what the caller was told, or
`lost` when the process stopped. `tenants`, `balance` and `log` are the rows.
`seen` is the local `new_balance`; `mail` is what was handed to `send_async`.
`journal` and `seenAt` are history variables: the committed UPDATEs of each row
in the order PostgreSQL serialised them, and how many of them the SELECT of a
request had seen. No guard reads them.

The UPDATE is atomic in the model because a single SQL statement that adds to a
column is: PostgreSQL locks the row and re-reads it. An UPDATE of a missing row
succeeds (`ExecUpdateNoRow`), the `query_one` after it does not
(`SelectFails`), a failed INSERT is logged and the answer is Ok
(`InsertFails`). `CreateTenant` and `DeleteTenant` stand for the directory and
the removal as the ledger sees them; ids are UUIDs and never come back
(`issued`). What is answered before the ledger is reached (a zero amount, an
unresolved tenant) is `Reject`. A connection that breaks while the UPDATE is
under way, so that the commit happened but its confirmation is lost, is not a
step of its own: it leaves the same state as an UPDATE followed by a failed
SELECT.

`AtomicCredits` says that this is one atomic change: the change of a request is
its entry in the journal, its answer where its handler ended. `Credits` lets a
request be answered with an error after its change, and says so: that is what
the code promises its callers, and `Payments` is built on that and no more.

### TenantDirectory

One request resolves a user's tenant, and may then rename it or set its client
id. `find`, `exists`, `insertPrefs`, ... are the statements of
`get_or_create_personal_tenant_with_conn` in order. `prefs` and `mixed`
separate rows whose e-mail is in lower case from rows kept in another spelling:
the two `LOWER(email)` queries see both, and the first of them fails if there are
both, the foreign key and every other query only the first. The preferences
endpoint inserts either, at any time (`InsertPreferences`,
`UpdatePreferencesMixed`). The foreign keys of `tenant_users` are guards of
`LinkUser` and `ResetPreferences`.

A tenant has a `name`, which is any text: the e-mail of its owner at first, and
after `Rename` that of whatever user, the owner again included, or `Other`, which
is no e-mail in lower case. It may have a `client` id of the caller's choice,
which no other tenant has, whoever owns it (`ClientIdTaken`); a request without
one clears it. `force_clean_user_data` is one step because it is one transaction;
its statements on endpoints and groups are not here. It takes the tenants
`NamedAfter` the user, without asking whose they are, and leaves those the user
has renamed. `ForceCleanMixed` is the same call with the e-mail in another
spelling.

Three history variables mark the users whose calls overlapped, failed or met a
removal (`disturbed`), whose account or a tenant of theirs was removed
(`removed`), and those among the latter whose tenant went with the account of
another user (`bereft`).

What the model showed: who renames their tenant to the e-mail of another user
loses it, with the credits, when that user's account is removed, which every
import of theirs begins with. `LegacyNeverLost` says that this is the only way to
lose credits by another's removal.

### Payments

`status` is Stripe's, external, and moves by itself; the handler reads it once.
`balance`, `change`, `answer` are the credits as `Credits` has them. A call of the
ledger is one step, or none (`Credit`, `CreditFails`), which `CreditLedger` shows
it may be. Whether there is one, once, and before what is answered, is decided by
the handlers' own steps, whose guards are the program counter and nothing of the
ledger; `CreditsAtMostOncePerCall` says that they come out as `Credits` allows.

A confirm call has a route and a body, with a user, an intent and an amount, and
clients make as many as they like with any body. The server takes the account and
the amount from there: neither is compared with the intent. So a paid intent
credits whatever account with whatever amount, also a negative one.
`OnlyPaidIsCredited` says what is left, that some paid intent was named; the
"Amount Validation" that stripe.guide:239 asks for ("Validate amounts match
between frontend and Stripe") is not there, nor is a comparison of the payer.
`CreditsFor` keeps the two routes' different conversions: the same amount is worth
itself over HTTP and a hundred times that over gRPC. The product is an i64, which
wraps in a build without overflow checks (`Wrapped`; with them the handler panics,
which is no more than a call that fails before its credits). That the sum may not
fit the column of the balance is `CreditLedger`'s matter; here it is a failure.

The other two callers of the ledger share the steps from the resolution of the
tenant on. A logged call (`InsertLog`) has its row committed first; without
tokens that is all, else the cost is deducted, and any failure of that is only
written to the server's log: the answer is Ok (`CreditsFail`). An insertion that
is answered with an error may have been committed. The reader of the groups is
looked up by the e-mail where the id of a tenant belongs. `LooksNew` is that
lookup with its error path: ids are UUIDs and no e-mail is one
(`PaymentsAssumption`), so it always fails, which counts as a new user.
`Keyed`, the tenants with an active key, is a constant, as keys come and go in
`Keys`. `answer` is what the ledger told the handler, `pc` what the handler told
its caller: they differ for a logged call.

### ConnPool

A call is idle, waits for a connection or holds some. `Single` calls are all
store functions that take one connection; `Nested` calls are
`get_or_create_user_api_groups` for a user without groups: a lookup that
returns its connection, then one connection with an open transaction, then,
while holding it, a second one for the tenant. `queue` is deadpool's semaphore,
which is fair (external). Any statement may fail, which drops what is held.

### EndpointStore

The tables are one function, `db`, from rows to the row each points at: a group
to its tenant, an endpoint to its group, a link or a parameter to what it is
for. The foreign keys are then one formula, `RefsHold`. Names, descriptions,
base URLs and the texts of endpoints are left out; of the parameters it matters
only whether an endpoint has some. An id the program generates is written as
the request that generated it, which nobody else can name.

A request has a plan, one or two transactions (three after a cleanup that
failed), and `pc` is its next statement. PostgreSQL is external and modelled as
the code uses it, with READ COMMITTED transactions: `w[r]` are the uncommitted
writes of request `r`, `View(r)` is what its statements see, the committed rows
with its own writes on top. A statement that writes waits for rows and keys
another transaction has written, and for rows one of the two deletes and the
other points at (`Unlocked`); it succeeds if the constraints hold in what it
sees (`Write`), else its transaction is rolled back (`Violates`, also on a key
that a "does it exist" of the same handler missed). `DbFails` is any other
failure, a deadlock detected by the database among them, for at most
`MaxFaults` requests; `Crash` ends all transactions. Every select that decides
something is a step of its own, and each row of a loop over endpoints is; the
statements that put a group with its link, or an endpoint with its link and
parameters, are one step, as are those that delete an endpoint with its
parameters: their later ones read nothing that decides, and they write rows of
one endpoint or group, of which the first locks the others' way in.

The plans: adding a group is one transaction; updating one deletes and adds it
in two; an import first runs `force_clean_user_data`, after a failure the older
cleanup, and goes on to add in any case. The import is of one group. The first
read of a user without groups makes a default one. `tenant` is what the
directory resolves a user to, either named after the user or renamed, which
decides what the cleanup finds.

`disturbed` (users with two calls at once), `raced` (groups from which two
transactions unlinked users at once) and `faulted` are history variables. The
properties exempt what these mark and nothing else; each exemption was
necessary.

What the model showed about sharing, beyond the properties: letting go of a
shared group leaves its endpoints, also those nobody else is linked to, and
these later make the last user's deletion of the group fail on the foreign key;
a cleanup strips the parameters of endpoints that others keep.

### Keys

A key is its id, the request that issued it (the code draws a UUID), and this
also stands for the 16 characters of the key that failures are counted under;
whether a caller has the whole key is `genuine`. A row holds what decides its
fate: owner (the e-mail), tenant, provider, when it was made and ends, whether it
is active. A tenant is written as the user it belongs to, so one that was removed
and its successor are the same to `validate_api_key`'s expected tenant; the model
accepts a little more than the code. The directory is taken as what it promises,
`Resolved`: a user without an account gets one.

`pc` is the next statement of a handler. Each statement is its own transaction:
the INSERTs run in one of their own, a revocation looks for its key and updates it
separately, the failure windows are behind a mutex that is not held while the
database is asked. Only the removal is a transaction of several statements:
`gone[r]` are the rows it has deleted and not committed, `Unlocked` makes a
statement that needs one of them wait. The foreign keys are the conditions of
`InsertKey`, `InsertLog`, `DropsKeys`, `DropTenant` and `DropPrefs`: a key needs
its owner's preferences and its provider's tenant, a log needs its key. The tenant
is found by its name, which the user may have changed, so the removal may skip it.
`SetFlag` is the spawned task with the welcome mail, which sends also when its
UPDATE fails. After the row of the log the deduction resolves the tenant; its
credits are in `Payments`, the milestone mail in `Engagement`. `now` is the clock, in units of which a window
and a year have two, and `Restart` forgets the windows.

`ended` (keys that a call was told are revoked or removed), `peak` (the most
validations of a key at once), `mails` and `excused` are history variables. A call
is logged under the e-mail of the key's owner (`IssuedTo`), as the gateway does,
which passes on what the validation of the key answered.

What the model showed beyond the properties: a provider whose consumers have keys
cannot be removed, because the deletion of the tenant is refused by those keys'
foreign key and takes the whole transaction back; and a call that is logged while
its account is removed makes the account again when it is paid for. A key that is
made by one of the two consumer endpoints never ends, as their INSERT leaves
`expires_at` out, although schema.sql:421 says that keys of the self-service
endpoint default to one year; only `generate` sets it.

### Engagement

The scheduler is one task: five minutes after the start, and then once a day, it
passes over the users to nudge, to win back and, on the first of a month, to
send a digest. `at` is the loop it is in, `todo` the rows it has selected and not
reached, `row` the user it has handed a mail over for and not marked yet
(`HandOver`, `Mark`). A SELECT that fails selects nobody, an UPDATE that fails is
ignored, no connection is no pass. `send_async` spawns a task that tries once and
tells nobody, so a mail is sent when it is handed over. A logged call spawns a
task that reads `first_call_at` and, if it is NULL, sets it and sends the
milestone mail (`CheckFirst`, `SetFirst`).

The marks are columns of a user's default tenant, and `here` are the users who
have one. A removal, which every import begins with, deletes the tenants that have
the user's e-mail for a name, and the rows of the usage log of the user and those
tenants; the next call that needs a tenant makes one, with all columns NULL.
`ForceClean` and `SetDefault` are what the scheduler and the tasks can see of that,
with any outcome for others whose tenant was named so or whose calls were logged
for it; `Forget` is what is lost. `Leavers` are the users it may happen to.
`UPDATE ... FROM user_preferences` finds the default tenant at the time it is sent:
a mark may be written to the new tenant, or to none.

Time is counted in days. `NewDay` is midnight: it may come in the middle of a
pass (`crossed`), which then counts as this day's, and the next is due as soon as
it has ended; it does not come while a pass is due and not begun, nor a second
time in one pass, that is, a pass takes less than a day and the timer is not a day
late. `Restart` is a stop and a start of the process: tasks and pass are gone, an
UPDATE under way may have been committed.

`excess` counts, for each kind of mail and user, the mails handed over, less those
that are explained: the mark was not written before the next could be selected
(the UPDATE failed, the process stopped before it, a second task had found NULL
too), or was lost with the tenant, which each loss explains for one mail of each
kind. `digests` counts the digests of the month, `disturbed` says that something
came in the way of them, `owed` who was in the log when the month began and has not
been removed from it: history variables.

So "fire once per user" (usage_log.rs:69) and "prevents resending"
(schema.sql:399) hold for a tenant and not for a user: after an import, a user who
has long called has the milestone mail again, and one who is still silent a week
later the nudge. `MailsRepeatOnlyUnmarked` counts that among what explains a mail.

What the model showed: a pass that begins before midnight of the first sends the
digest after its other mails, dated by then, and the pass that is then due sends
it again; nothing marks it. That is what `disturbed` exempts.

### McpTools

The tools of one user. `tools` has the row of each name, with where it came from
and whether it is active; `eps` are the user's endpoints, whose slugs are the names
of the virtual tools. Two texts may have the same slug, and a text without a letter
has none (`NoName`). A reader knows the tenant by its id, and may give the user's
e-mail: it selects rows and endpoints in two statements, and is interleaved with
the administrator's upserts and soft deletions, the deletion of the group, and
imports.

An import cleans the account first, which removes the tenant and with it the rows
(ON DELETE CASCADE) unless the user has a group of the tenant, whose link keeps it
from being deleted; then only the endpoints go. It commits group and endpoints,
resolves the tenant again, and puts the rows one by one; a failure of one is
logged. Tenants are numbered, so that a reader or an import that still has the
id of one that is gone finds nothing, or is refused by the foreign key. A tenant
that was renamed outlives the removal (`TenantDirectory`), with rows that nobody's
account leads to any more; it is left out here.

`kept` and `there` are what a reader could have seen all the time, `undone` the
names whose row failed or was removed after an import had put it, `removed` the
names of endpoints the user has had and has no more: history variables.

What a tool costs is left out. For the record: an import passes no cost, "no api0
billing" as mcp_tools_management.rs:412 says, which the upsert turns into one
credit (line 62), while a virtual tool has none: the same endpoint is billed as a
row and not as a virtual tool.

## The runs

All runs finish within two and a half minutes with two workers.

| run | instance | shows |
|---|---|---|
| `ledger` | 3 requests, 2 tenants (one created during the run), amounts -10 and 10, opening balance 52, threshold 50, column maximum 60 | the safety properties and the refinement of `Credits` |
| `directory` | 2 users, one with old credits, 2 requests of a menu of 6, 2 UUIDs, 1 client id | defaults, migration, undisturbed calls, removals of others |
| `payments` | 3 calls of any kind, 1 intent, 2 users of whom one has a key, bodies with amounts -5 and 6 of which gRPC's product wraps for 6, logged calls of 0 or 49 tokens | only paid intents are credited, answers are backed, charges are logged, `Credits` is respected |
| `payments_duplicates` | the same | a paid intent confirmed twice is credited twice |
| `payments_welcome` | the same | a user with a key is given the welcome credit |
| `store` | 3 calls of a menu of 8, 2 users, a group and endpoint they share, a private group and endpoint of the one whose tenant is renamed, a fresh endpoint, 1 fault | nothing in use is deleted, additions are whole, what is left behind and why |
| `store_replacement` | the same, nobody renamed, no fault | an import may leave the groups from before |
| `keys` | 3 calls of a menu of 17, a provider with a key and a consumer with one of theirs, limit 2, window and year of 2 in a clock of 2, eviction from 1 window on | references, removals, refusals, the limit, the welcome mail |
| `pool` | 3 connections, 2 single and 3 nested calls | conservation, the queue, the one way to stall, answers otherwise |
| `engagement` | a user who calls, and may lose the tenant, and one who does neither, a month of 3 days, a nudge after 1 and a win-back after 2, 2 logged calls at once, 1 mishap or loss | repeated mails and why, one digest a month, the nudge in the end |
| `engagement_winback` | the same | who calls may be won back |
| `tools` | 2 calls (imports of two files, list, get), 3 endpoints of which one has no slug, 2 names | answers, what is served after an import, what is left behind |

Why the bounds are enough to be interesting. In the ledger, the opening balance
is two above the threshold: a deduction crosses it and an addition brings it
back, so that two others around a request's UPDATE and SELECT give every
combination of before and after; the column overflows at an addition nothing was deducted before;
the second tenant is created and either may be deleted at any point. Three
requests are what a wrong warning needs at most. In the directory, every pair
of statements of two calls interleaves, of one user or of two, with rows inserted
and accounts removed anywhere in between and any number of times; the menu has the
one user take the name of the other, or a name of no user, and both the same
client id, and clear it. In the payments, three calls may be two confirms of one
intent and a logged call of the same account; the bodies name either user and an amount of either
sign, one of which changes it when multiplied; 0 and 49 tokens are both sides of
the minimum. With three connections, three nested calls exhaust the
pool alone and the two single ones overtake. In the store, the menu has for each
shared row a call of either user that deletes it and one that adds to it, an
update of the private group that creates an endpoint the other user's addition
names too, an endpoint moved between groups, an import and a first read; three
calls put a third between the two transactions of one and a statement of
another. In `keys`, the calls of the menu meet on the two users' rows and keys, and
on keys issued during the run; three wrong keys of limit two give the check and the
record every order, and a window, whose length is that of the clock, may start
late or end; any failure and any number of restarts may happen. In the scheduler,
the days run for ever and ages stop where nothing changes any more; a month of
three days has a first, a day after it and one before, the window is longer than
the month as in the code, and one mishap or loss of a tenant is enough to repeat a
mail or to lose a pass; that there may be many, in any order, is proved. In the tools, two imports, or an import and a reader, take every order, and
administrator and group come in anywhere, any number of times. Requests (and
UUIDs) are symmetric; no liveness is checked in a run with symmetry.

Each counter is bounded by the instance: requests run once, so histories are at
most as long as there are requests; `MaxTasks`, `MaxMishaps` and `MaxFaults` bound
what would go on for ever. In `ConnPool` calls repeat for ever and the
state is finite. It is the one module with deadlock checking off, as the stall
it describes is a deadlock of the server.

Fairness. `ConnPool` and `Engagement` state liveness properties. The pool assumes
that a call
that can proceed does so (tokio polls every ready task, and a statement sent to
the database is answered or fails) and that a free connection is granted to the
first waiter; both weak, both per call. It assumes nothing of the clients: that
new calls are made, or that they stop. `CallsAnsweredUnlessStalled` is then: a
call that waits is answered, or all connections are held by nested calls that
wait. The scheduler assumes that days pass and that its task, which waits only for
the timer and the database, goes on; both weak. Nothing is assumed of the users,
and a mishap may come at any time, but not for ever: if every UPDATE failed, or the
process stopped before every pass, or every tenant was removed within the week,
nobody could be nudged. `SilentAreNudged` is then: a user whose tenant is of age and
has no first call is nudged, or calls, or loses the tenant.

Four runs expect a violation. Each states what a comment or the payment guide
says of the program, quoted in the module, and TLC shows a behaviour of the code
that does otherwise:

- `NoDuplicateCredits` (stripe.guide: "Prevent duplicate credit additions"):
  neither handler remembers an intent;
- `OnlyNewUsersAreWelcomed` (group_get.rs: "Check if this is a new user by looking
  for existing API keys"): the lookup takes a tenant's id and is given an e-mail;
- `ReplacementReplaces` (replace_user_api_groups.rs: "Replaces all API groups
  and endpoints for a user"): the cleanup deletes groups that the user's own
  links still refer to, the foreign key refuses it, and the fallback deletes
  endpoints only;
- `WinBackSelectsTheAbsent` (main.rs: "Win-back: last call > 30 days ago"): the
  query compares the first call.

Of the ledger, two more sentences do not hold, in ways the properties that do hold
leave room for. "Every balance change is recorded here" (schema.sql:195): a row
that cannot be inserted is missing, which is logged only; what there is, is backed
(`RowsAreBacked`). "Only when a deduction crosses the threshold"
(update_balance.rs:36): the compared balance is from a later SELECT, so a deduction
that crossed nothing may warn when others come in between; undisturbed, the warning
is exact (`WarningExactWhenUndisturbed`).

Every property of a passing run comes with a mutant: a definition with a
plausible bug (a retry, a missing foreign key, a swallowed error), kept next to
the definition it would replace, under which TLC finds the property violated.

## What is proved

Every safety invariant and every action property of the passing runs is a theorem,
for every value of the constants that satisfies the module's assumption. TLC
checks the same formulas on the instances above. What is left to TLC are the two
liveness properties (see below).

### The ledger

`CreditLedgerProofs`, for every value of the constants that satisfies
`LedgerAssumption` (the initial tenants are tenants, balances fit their column,
tenants without a row have balance 0):

| theorem | statement |
|---|---|
| `Inductive` | `Spec => []IInv` |
| `LedgerTypes` | `Spec => []TypeOK` |
| `LedgerAddsUp` | `Spec => []NoLostUpdate` |
| `AnswersMatchChanges` | `Spec => []ChangedAsAnswered` |
| `RowsBacked` | `Spec => []RowsAreBacked` |
| `WarningExact` | `Spec => []WarningExactWhenUndisturbed` |

The argument. `NoLostUpdate` and `AppliedAtMostOnce` need the types and
`FreshInv` to be inductive; the others need more, because they speak of answered
requests and say nothing of where those come from. `CallInv` says what a request knows at each
statement: between UPDATE and SELECT it has a change in its tenant's journal
unless that row is gone; after the SELECT, whether or not the row is still
there, it has one at or before the entry it read up to, and `seen` is that
entry's balance. The first part survives a deletion only because a row that is
gone does not come back, hence `tenants \subseteq issued` and `Tenant(r) \in
issued`. `LogInv` ties each row of the history to the request that wrote it.
`FreshInv` says an id that was never issued has no journal, so that the creation
of a row, which sets a balance to 0, contradicts no history.

The proof of the step is split by what an action touches: `ExecUpdateKeeps` (the
journal grows), `SelectBalanceKeeps`, `AnswerKeeps` (the log grows or does not),
`MoveKeeps` (only the program counter moves), `SurroundingsKeep` (creation,
deletion, crash).

On top of them stands `LedgerIsAtomic`, `Spec =>
AtomicCredits`: the UPDATE of a row that exists is the change
(`UpdateIsTheChange`), a step that ends a request is its answer
(`EndIsTheAnswer`), and all others are stutters (`SilentStep`). `IInv` gives
what that needs: a request at its UPDATE has no entry in any journal, one about
to be told Ok has its own, and the row `CreateTenant` sets to 0 was at 0.

### The payments

`PaymentsProofs`, for any users, intents and calls, any amounts of an i64 of any
width and any numbers of tokens (`PaymentsAssumption`):

| theorem | statement |
|---|---|
| `PaymentTypes` | `Spec => []TypeOK` |
| `PaidBeforeCredited` | `Spec => []OnlyPaidIsCredited` |
| `AnswersStandForCredits` | `Spec => []AnswersAreBacked` |
| `LoggedAndCharged` | `Spec => []ChargedAsLogged` |
| `HandlersUseCredits` | `Spec => CreditsAtMostOncePerCall` |

The argument. `PayInv` says of each call what its handler has seen or done so far
(`Knows`), what entitles it to change credits (`Warranted`: a paid intent, a
logged call that used something), and what may have been told of it (`Told`).
`UntouchedKeeps` is the heart: the steps of other calls cannot take any of it back,
because a status that has succeeded is final and a logged row stays. `CostIsPositive` is
where `ChargedAsLogged` needs the minimum of one credit. For `HandlersUseCredits`
the invariant is what bridges the handlers' guards and those of `Credits`: a call
at its credits has changed nothing and been told nothing (`CreditApplies`), and
one is told once, Ok only after its change (`TellingAnswers`). It and
`LedgerIsAtomic` meet in `Credits`: what the handlers rely on is what the three
statements give.

### The directory

`TenantDirectoryProofs`, for any users, requests and ids, any old credits of those
who have a row and any menu of calls (`DirectoryAssumption`, `MenuAssumption`; the
absent value `None` is no id, user or text, and `Other` no user):

| theorem | statement |
|---|---|
| `DirectoryTypes` | `Spec => []TypeOK` |
| `DefaultIsOwn` | `Spec => []DefaultIsOwnMembership` |
| `CreditsSurvive` | `Spec => []LegacyNeverLost` |
| `UndisturbedSettle` | `Spec => []UndisturbedCallsSettle` |

The argument. An id is drawn for one user and stays theirs (`owner`), so what is to
be known can be said user by user (`UserInv`), and a step made for one user leaves
what is known of the others as it is (`UntouchedKeeps`). `RequestInv` is what makes
`DefaultIsOwnMembership` survive races: between its INSERT and the UPDATE of the
default, nobody else has a request's tenant, so it is linked before it can become
a default. `LegacyInv` and `RequestInv` follow the old credits: whoever is about
to set them to zero knows of a tenant that has them in full, also when another
call moved them first. `CalmInv` says where the only call of an undisturbed user
is (`Progress`), or that there is none, before the first tenant or after it. The
second half of `LegacyNeverLost` has an invariant of its own, `NameInv`: a tenant
whose name is not its owner's e-mail was given it by a call of the owner's that has
ended (`HasRenamed`, which stays), so a tenant deleted for its name is either of
the account that is removed or renamed.

### The pool

`ConnPoolProofs`, for any finite sets of single and nested calls and any size
(`PoolAssumption`):

| theorem | statement |
|---|---|
| `PoolTypes` | `Spec => []TypeOK` |
| `PoolConserved` | `Spec => []ConnectionsConserved` |
| `PoolStalls` | `Spec => []StallOnlyByNestedCalls` |
| `PoolSuffices` | if there are fewer nested calls than connections, then always, when a call waits, a connection is free or some call is at a statement and will give its connection back |

The argument is counting: each step moves one call between those that hold none,
one and two connections, and free changes by as much. With that, `PoolStalls`
follows without another invariant: when nothing can move, nobody holds two, and who
holds one is nested and waits for the second, so those are as many as there are
connections.

### The endpoint store

`EndpointStoreProofs`, for every set of users, groups, endpoints and calls and
every opening in which references hold, every group and endpoint has a user, and
no id is one that will be made (`StoreAssumption`). That nothing is left behind at
the start is assumed because it may be: two deletions that overlapped leave a
group behind, and the histories the properties refer to begin with the run.

| theorem | statement |
|---|---|
| `StoreInductive` | `Spec => []StoreInv` |
| `NothingInUseIsDeleted` | `Spec => []ReferencesHold` |
| `StoreTypes` | `Spec => []TypeOK` |
| `StrandsOnlyByRace` | `Spec => []StrandedOnlyByRace` |
| `NobodyElseRemoves` | `Spec => OthersDoNotRemove` |
| `AdditionsAreComplete` | `Spec => AdditionIsComplete` |
| `PrivateStaysExact` | `Spec => []PrivateIsExact` |

The argument for the references. A constraint is checked by each statement against
what its own transaction sees, but it must hold in what is committed, in whatever
order transactions end. So the invariant says that every transaction sees tables
whose references hold (`Consistent`), and that transactions are `Apart`: they
write different rows, and none points at a row that another deletes. `Apart` is
what the locks are for (`UnlockedKeepsApart`). When one commits, `OverCommitted`
shows that the others still see tables whose references hold. A statement of a
handler touches the tables only through `Write`, `Commit` and `RollBack`, so
each has one lemma and the handlers follow.

The others need to know where a request is (`Located`, with the types in
`TypeInv`) and what its transaction may have written: a removal has only deleted,
an addition only added, and both only links of their own caller (`WriteInv`). Then,
of what would be committed:

- `StrandInv`: outside of races one transaction at a time deletes links of a
  group; when it comes to its commit, the group goes too or has another user,
  whose link nobody deletes until then;
- `MoveInv`: an endpoint is moved only into the group its call names, and the one
  that the first read makes is new until it is committed. A step after which a
  user lists less is then a commit of one of the two kinds that `LostTo` names;
- `AddInv`: what an addition has put so far is in its writes, or is a link of its
  caller, which only another call of the same user could delete;
- `NamedInv` and `ExactInv`: all that is linked, written or on the way to it is
  named by its user's calls or in the opening, so a private row is in no one
  else's transaction; and what a private user has stored is what they list, up to
  what their own removal has unlinked and has still to delete (`Pending`).

### The keys

`KeysProofs`, for any finite set of requests, any users, opening and menu, and any
limit, window, threshold and clock (`KeysAssumption`):

| theorem | statement |
|---|---|
| `LimitInductive` | `Spec => []LimitInv` |
| `LimitIsKept` | `Spec => []LimitHolds` |
| `EndedInductive` | `Spec => []EndedInv` |
| `EndedStaysRefused` | `Spec => EndedIsRefused` |
| `KeysTypes` | `Spec => []TypeOK` |
| `NoKeyIsOrphaned` | `Spec => []ReferencesHold` |
| `RemovalLeavesNothing` | `Spec => RemovalIsTotal` |
| `WelcomedOnce` | `Spec => []WelcomeOnce` |
| `RefusedForTheWindow` | `Spec => RefusedUntilWindowEnds` |

The arguments. `LimitHolds` bounds the failures a window has counted, and says
nothing of those that are on their way to be. `WindowInv` adds them: what a live
window has counted and the validations under way stay below the limit and the
peak. A validation that is let through finds the count below the limit and is in
the peak (`ValidateKeeps`); a failure moves from under way to the count, or opens a
new window with itself (`RecordKeeps`); time and eviction only end windows.
`RefusedUntilWindowEnds` needs no more than the types: a window that refuses is
live, which an eviction leaves and a failure does not start again.

`EndedIsRefused` is about a step, so it needs what holds before it: a key in
`ended` is gone or inactive. That survives an INSERT because an id that has ended
was issued before and no request issues twice (`IssuedIds`), an UPDATE because
`active` is only ever cleared, and a revocation because the key it was told to
revoke is still the tenant's or gone when its UPDATE comes.

`ReferencesHold` must survive the commit of a removal, which deletes at once what
it has deleted statement by statement. `ViewsHold` says that it would hold if the
removal committed now: its DELETEs are refused while there is a row that refers to
theirs, and an INSERT of one waits for it to end. `RemovalIsTotal` follows: the
row of the preferences goes with the removal, so no key can have it as owner, and
a log of the user's is one of a key of the user's (`OwnersHold`), which is gone.

`WelcomeInv`: of a user for whom nothing is excused, at most one request is about
to set the flag, none if the mail was sent, and then the flag is set and stays.

### The scheduler

`EngagementProofs`, for any users, any ages at which mails are due, any number of
tasks and mishaps, a month of two days or more and a window of the log that is
longer than the month (`EngagementAssumption`; it is 32 days in the code):

| theorem | statement |
|---|---|
| `EngagementTypes` | `Spec => []TypeOK` |
| `MailsRepeat` | `Spec => []MailsRepeatOnlyUnmarked` |
| `DigestOnce` | `Spec => []DigestOnceAMonth` |

The argument. The mails are counted: of a kind and a user, those without an
explanation are no more than one if the mark is set, and one if the user is being
mailed right now (`MarkInv`); for the milestone, the tasks that have found
`first_call_at` NULL take the place of the last (`MilestoneInv`). Who has no tenant
cannot be marked, so the loss must explain a mail that is still to be sent as well:
there are then none left unexplained, those on their way included. Nothing
marks a digest, so `DigestInv` follows it through the one day it is sent on: before
the pass has come to it nobody has one, while it is at it those it has not reached
have none and all others one, and on any other day nobody is sent any. The window
of the log matters where the month begins: who is in the log then still is when the
pass selects.

### The tools

`McpToolsProofs`, for any requests, endpoints, slugs and imports
(`McpToolsAssumption`):

| theorem | statement |
|---|---|
| `McpTypes` | `Spec => []TypeOK` |
| `McpAnswersAreTrue` | `Spec => []AnswersAreTrue` |
| `McpImportedAreServed` | `Spec => []ImportedAreServed` |
| `McpStaleOnlyByRemoval` | `Spec => []StaleOnlyByRemoval` |

The argument. What is known of a request at each of its statements (`CallInv`)
survives whatever others do (`OthersKeep`), because what they take away is taken
from what the request has kept: rows from `kept`, endpoints from `there`, names an
import has put go to `undone`. So each step has to show only what it does to the
request that makes it. A tenant that has been replaced keeps neither rows nor
endpoints for those who still have its id, which is why a reader of the old one
answers nothing false.

## What is only model-checked

The two liveness properties, `CallsAnsweredUnlessStalled` of the pool and
`SilentAreNudged` of the scheduler: both are under fairness, whose proof needs
ENABLED, which the prover does not treat. Of the pool, `PoolStalls` and
`PoolSuffices` prove the part that is not about fairness: that something can move
unless the nested calls hold everything. The four sentences that do not hold are
refuted by a behaviour each, which is TLC's to find.

## What is not modelled, and why

- `hidden_defaults` of the preferences, read, changed and written back by separate
  statements: two changes at once lose one, which is all that can happen to it.
- WhatsApp: channels, histories and dead letters are single upserts; what matters
  is the dialogue with Meta and the gateway.
- `record_api_key_usage`, which is called by nothing.
- What a tool costs, and the schema built for its parameters: formatting.
- Authentication, e-mail delivery, the formatter, start-up and routing: I/O,
  cryptography, and no state that another request sees.
- Row level security: the policies do not apply to the owner of the tables.
- Transaction isolation, where it is not what matters: outside `EndpointStore`
  the statements are single-statement transactions, and in `TenantDirectory`
  the removal is taken as one step. Deadlocks between transactions are detected
  by PostgreSQL and are failures of a statement.
- Account removal has three models, of tenants and members, of groups and
  endpoints, and of keys and logs; no module has all. Where one refuses it, the
  others have a statement that fails.
- The payer and the amount of an intent, which no handler looks at: what a confirm
  call credits comes from its body (see `Payments`).
- Tenants of other users that a removal finds by name, outside `TenantDirectory`
  and `Engagement`: `EndpointStore`, `Keys` and `McpTools` take the tenants named
  after a user as that user's own. With another's tenant among them, their rows
  would be deleted as well.
- A file that names one endpoint in several groups: an import has one group in
  `EndpointStore`.

## Plan

The components worth modelling are modelled, and what the passing runs check of
safety is proved. What could come next, most important first.

1. One abstract account for the three models of account removal, with each of them
   shown to implement it, so that "removed" means the same in `TenantDirectory`,
   `EndpointStore` and `Keys`.
2. What a shared endpoint may lose, once the documentation says so: the cleanup
   strips parameters of endpoints that others keep.
3. `hidden_defaults`, if it comes to be written by more than the user's own page.
