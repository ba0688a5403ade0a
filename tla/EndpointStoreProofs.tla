------------------------ MODULE EndpointStoreProofs ------------------------
(***************************************************************************)
(* The safety theorems of EndpointStore, for any users, groups, endpoints  *)
(* and calls.                                                              *)
(*                                                                         *)
(* No interleaving of the store's transactions leaves a row that points at *)
(* nothing.  The tables alone are not inductive: what a transaction has    *)
(* written must hold together with what is committed (Consistent), and     *)
(* stay so when another commits, for which the locks are needed (Apart).   *)
(*                                                                         *)
(* On top of that, where a request is and what its transaction may have    *)
(* written (TypeInv, WriteInv); and for each of the other properties what  *)
(* the transactions under way would commit: who is stranded (StrandInv),   *)
(* what is moved (MoveInv), what an addition has put (AddInv), what of a   *)
(* private name is stored (NamedInv, ExactInv).                            *)
(***************************************************************************)
EXTENDS EndpointStore, TLAPS

\* Every request has its writes.
Writes == w = [r \in Requests |-> w[r]]

\* A transaction sees tables whose references hold.
Consistent == \A r \in Requests : RefsHold(View(r))

\* Two transactions write different rows, and neither points at a row that the
\* other deletes.
ApartBy(mine, other) ==
  /\ DOMAIN mine \cap DOMAIN other = {}
  /\ \A x \in DOMAIN mine, y \in DOMAIN other : mine[x] = Gone => other[y] # x

Apart == \A r, q \in Requests : r # q => ApartBy(w[r], w[q])

StoreInv ==
  /\ Writes
  /\ ReferencesHold
  /\ Consistent
  /\ Apart

-----------------------------------------------------------------------------
(* Tables.                                                                 *)

\* Without writes a transaction sees what is committed.
LEMMA OverNothing ==
  ASSUME NEW table, RefsHold(table)
  PROVE  RefsHold(Over(table, Nothing))
BY DEF Over, Nothing, RefsHold

\* Writing in two steps is writing the merged changes.
LEMMA OverMerge ==
  ASSUME NEW table, NEW first, NEW second,
         RefsHold(Over(Over(table, first), second))
  PROVE  RefsHold(Over(table, Merge(first, second)))
<1> DEFINE Twice == Over(Over(table, first), second)
           Once  == Over(table, Merge(first, second))
<1>1. DOMAIN Once = DOMAIN Twice
  BY DEF Over, Merge
<1>2. ASSUME NEW x \in DOMAIN Once
      PROVE  Once[x] = Twice[x]
  BY DEF Over, Merge
<1> QED
  BY <1>1, <1>2 DEF RefsHold

\* What one transaction sees holds together after another has committed.
LEMMA OverCommitted ==
  ASSUME NEW table, NEW mine, NEW other,
         RefsHold(Over(table, mine)), RefsHold(Over(table, other)),
         ApartBy(mine, other), ApartBy(other, mine)
  PROVE  RefsHold(Over(Over(table, other), mine))
<1> DEFINE After == Over(Over(table, other), mine)
<1> SUFFICES ASSUME NEW x \in DOMAIN After, After[x] \in Keys
             PROVE  After[x] \in DOMAIN After
  BY DEF RefsHold
<1> DEFINE p == After[x]
<1>1. CASE x \in DOMAIN mine
  <2>1. /\ x \in DOMAIN Over(table, mine)
        /\ Over(table, mine)[x] = p
        /\ mine[x] = p
    BY <1>1 DEF Over
  <2>2. p \in DOMAIN Over(table, mine)
    BY <2>1 DEF RefsHold
  <2>3. \A y \in DOMAIN other : other[y] = Gone => p # y
    BY <1>1, <2>1 DEF ApartBy
  <2> QED
    BY <2>2, <2>3 DEF Over
<1>2. CASE x \notin DOMAIN mine
  <2>1. /\ x \in DOMAIN Over(table, other)
        /\ Over(table, other)[x] = p
    BY <1>2 DEF Over
  <2>2. p \in DOMAIN Over(table, other)
    BY <2>1 DEF RefsHold
  <2>3. SUFFICES ASSUME p \in DOMAIN mine, mine[p] = Gone
                 PROVE  FALSE
    BY <2>2 DEF Over
  <2>4. CASE x \in DOMAIN other
    <3>1. other[x] = p
      BY <2>1, <2>4 DEF Over
    <3> QED
      BY <2>3, <2>4, <3>1 DEF ApartBy
  <2>5. CASE x \notin DOMAIN other
    <3>1. x \in DOMAIN Over(table, mine) /\ Over(table, mine)[x] = p
      BY <1>2, <2>1, <2>5 DEF Over
    <3>2. p \in DOMAIN Over(table, mine)
      BY <3>1 DEF RefsHold
    <3> QED
      BY <2>3, <3>2 DEF Over
  <2> QED
    BY <2>4, <2>5
<1> QED
  BY <1>1, <1>2

\* The locks keep transactions apart.
LEMMA UnlockedKeepsApart ==
  ASSUME NEW mine, NEW other, NEW writes,
         ApartBy(mine, other), ApartBy(other, mine),
         \A x \in DOMAIN writes :
           /\ x \notin DOMAIN other
           /\ writes[x] = Gone => \A y \in DOMAIN other : other[y] # x
           /\ writes[x] \in DOMAIN other => other[writes[x]] # Gone
  PROVE  /\ ApartBy(Merge(mine, writes), other)
         /\ ApartBy(other, Merge(mine, writes))
BY DEF ApartBy, Merge

\* Nobody is in the way of a transaction that has written nothing.
LEMMA NothingIsApart ==
  ASSUME NEW other
  PROVE  ApartBy(Nothing, other) /\ ApartBy(other, Nothing)
BY DEF ApartBy, Nothing

-----------------------------------------------------------------------------
(* The steps.                                                              *)

\* A statement that writes.
LEMMA WriteKeeps ==
  ASSUME StoreInv, NEW r \in Requests, NEW rows, NEW writes,
         Write(r, rows, writes), db' = db
  PROVE  StoreInv'
<1> USE DEF StoreInv
<1>1. w' = [w EXCEPT ![r] = Merge(w[r], writes)]
  BY DEF Write
<1>2. Writes'
  BY <1>1 DEF Writes
<1>3. w'[r] = Merge(w[r], writes) /\ \A q \in Requests : q # r => w'[q] = w[q]
  BY <1>1 DEF Writes
<1>4. Consistent'
  <2>1. RefsHold(Over(Over(db, w[r]), writes))
    BY DEF Write, Constraint, View
  <2>2. RefsHold(Over(db, Merge(w[r], writes)))
    BY <2>1, OverMerge
  <2>3. ASSUME NEW q \in Requests
        PROVE  RefsHold(Over(db, w'[q]))
    <3>1. CASE q = r
      BY <1>3, <2>2, <3>1
    <3>2. CASE q # r
      BY <1>3, <3>2 DEF Consistent, View
    <3> QED
      BY <3>1, <3>2
  <2> QED
    BY <2>3 DEF Consistent, View
<1>5. Apart'
  <2>1. ASSUME NEW q \in Requests, q # r
        PROVE  ApartBy(w'[r], w[q]) /\ ApartBy(w[q], w'[r])
    <3>1. ApartBy(w[r], w[q]) /\ ApartBy(w[q], w[r])
      BY <2>1 DEF Apart
    <3>2. \A x \in DOMAIN writes :
            /\ x \notin DOMAIN w[q]
            /\ writes[x] = Gone => \A y \in DOMAIN w[q] : w[q][y] # x
            /\ writes[x] \in DOMAIN w[q] => w[q][writes[x]] # Gone
      BY <2>1 DEF Write, Unlocked
    <3> QED
      BY <1>3, <3>1, <3>2, UnlockedKeepsApart
  <2>2. ASSUME NEW p \in Requests, NEW q \in Requests, p # q
        PROVE  ApartBy(w'[p], w'[q])
    <3>1. CASE p = r
      BY <1>3, <2>1, <2>2, <3>1
    <3>2. CASE q = r
      BY <1>3, <2>1, <2>2, <3>2
    <3>3. CASE p # r /\ q # r
      BY <1>3, <2>2, <3>3 DEF Apart
    <3> QED
      BY <3>1, <3>2, <3>3
  <2> QED
    BY <2>2 DEF Apart, ApartBy
<1>6. ReferencesHold'
  BY DEF ReferencesHold, RefsHold
<1> QED
  BY <1>2, <1>4, <1>5, <1>6

\* A transaction that is rolled back.
LEMMA RollBackKeeps ==
  ASSUME StoreInv, NEW r \in Requests, EndsUnanswered(r), db' = db
  PROVE  StoreInv'
<1> USE DEF StoreInv
<1>1. Writes'
  BY DEF EndsUnanswered, Writes
<1>2. w'[r] = Nothing /\ \A q \in Requests : q # r => w'[q] = w[q]
  BY DEF EndsUnanswered, Writes
<1>3. ASSUME NEW q \in Requests
      PROVE  RefsHold(Over(db, w'[q]))
  <2>1. CASE q = r
    BY <1>2, <2>1, OverNothing DEF ReferencesHold
  <2>2. CASE q # r
    BY <1>2, <2>2 DEF Consistent, View
  <2> QED
    BY <2>1, <2>2
<1>4. ASSUME NEW p \in Requests, NEW q \in Requests, p # q
      PROVE  ApartBy(w'[p], w'[q])
  <2>1. CASE p = r \/ q = r
    BY <1>2, <1>4, <2>1, NothingIsApart
  <2>2. CASE p # r /\ q # r
    BY <1>2, <1>4, <2>2 DEF Apart
  <2> QED
    BY <2>1, <2>2
<1>5. ReferencesHold'
  BY DEF ReferencesHold, RefsHold
<1>6. Consistent'
  BY <1>3 DEF Consistent, View
<1>7. Apart'
  BY <1>4 DEF Apart, ApartBy
<1> QED
  BY <1>1, <1>5, <1>6, <1>7

\* A commit: the others see other tables than before.
LEMMA CommitKeeps ==
  ASSUME StoreInv, NEW r \in Requests, EndsUnanswered(r), db' = View(r)
  PROVE  StoreInv'
<1> USE DEF StoreInv
<1>1. Writes'
  BY DEF EndsUnanswered, Writes
<1>2. w'[r] = Nothing /\ \A q \in Requests : q # r => w'[q] = w[q]
  BY DEF EndsUnanswered, Writes
<1>3. RefsHold(db')
  BY DEF Consistent
<1>4. ASSUME NEW q \in Requests
      PROVE  RefsHold(Over(db', w'[q]))
  <2>1. CASE q = r
    BY <1>2, <1>3, <2>1, OverNothing
  <2>2. CASE q # r
    <3>1. RefsHold(Over(db, w[q])) /\ RefsHold(Over(db, w[r]))
      BY DEF Consistent, View
    <3>2. ApartBy(w[q], w[r]) /\ ApartBy(w[r], w[q])
      BY <2>2 DEF Apart
    <3>3. RefsHold(Over(Over(db, w[r]), w[q]))
      BY <3>1, <3>2, OverCommitted
    <3> QED
      BY <1>2, <2>2, <3>3 DEF View
  <2> QED
    BY <2>1, <2>2
<1>5. ASSUME NEW p \in Requests, NEW q \in Requests, p # q
      PROVE  ApartBy(w'[p], w'[q])
  <2>1. CASE p = r \/ q = r
    BY <1>2, <1>5, <2>1, NothingIsApart
  <2>2. CASE p # r /\ q # r
    BY <1>2, <1>5, <2>2 DEF Apart
  <2> QED
    BY <2>1, <2>2
<1>6. Consistent'
  BY <1>4 DEF Consistent, View
<1>7. Apart'
  BY <1>5 DEF Apart, ApartBy
<1>8. ReferencesHold'
  BY <1>3 DEF ReferencesHold, RefsHold
<1> QED
  BY <1>1, <1>6, <1>7, <1>8

\* The server stops.
LEMMA CrashKeeps ==
  ASSUME StoreInv, w' = [r \in Requests |-> Nothing], db' = db
  PROVE  StoreInv'
<1> USE DEF StoreInv
<1>1. \A r \in Requests : w'[r] = Nothing
  OBVIOUS
<1>2. Consistent'
  <2>1. ASSUME NEW r \in Requests
        PROVE  RefsHold(Over(db, w'[r]))
    BY <1>1, OverNothing DEF ReferencesHold
  <2> QED
    BY <2>1 DEF Consistent, View
<1>3. Apart'
  <2>1. ASSUME NEW p \in Requests, NEW q \in Requests
        PROVE  ApartBy(w'[p], w'[q])
    BY <1>1, NothingIsApart
  <2> QED
    BY <2>1 DEF Apart, ApartBy
<1>4. Writes' /\ ReferencesHold'
  BY DEF Writes, ReferencesHold, RefsHold
<1> QED
  BY <1>2, <1>3, <1>4

\* A step that neither writes nor ends a transaction.
LEMMA QuietKeeps ==
  ASSUME StoreInv, UNCHANGED <<db, w>>
  PROVE  StoreInv'
BY DEF StoreInv, Writes, ReferencesHold, Consistent, Apart, ApartBy, View, RefsHold

LEMMA InitStore == Init => StoreInv
<1> SUFFICES ASSUME Init PROVE StoreInv
  OBVIOUS
<1>1. \A r \in Requests : w[r] = Nothing
  BY DEF Init
<1>2. ReferencesHold
  BY StoreAssumption DEF Init, ReferencesHold
<1>3. Consistent
  BY <1>1, <1>2, OverNothing DEF Consistent, View, ReferencesHold
<1>4. Apart
  BY <1>1, NothingIsApart DEF Apart
<1>5. Writes
  BY DEF Init, Writes
<1> QED
  BY <1>2, <1>3, <1>4, <1>5 DEF StoreInv

\* The statements and ends of one request's transactions.
LEMMA HandleKeeps ==
  ASSUME StoreInv, NEW r \in Requests, Handle(r)
  PROVE  StoreInv'
<1>1. CASE ListEndpoints(r)
  BY <1>1, QuietKeeps DEF ListEndpoints
<1>2. CASE AccessFound(r)
  BY <1>2, QuietKeeps DEF AccessFound
<1>3. CASE AccessDenied(r)
  BY <1>3, QuietKeeps DEF AccessDenied
<1>4. CASE Unlink(r)
  BY <1>4, WriteKeeps DEF Unlink
<1>5. CASE GroupUsed(r)
  BY <1>5, QuietKeeps DEF GroupUsed
<1>6. CASE \E e \in todo[r] : PurgeEndpoint(r, e) \/ LookUp(r, e)
  BY <1>6, QuietKeeps DEF PurgeEndpoint, LookUp
<1>7. CASE DropEndpoint(r)
  BY <1>7, WriteKeeps DEF DropEndpoint
<1>8. CASE DropGroups(r)
  BY <1>8, WriteKeeps DEF DropGroups
<1>9. CASE FindGroup(r)
  BY <1>9, QuietKeeps DEF FindGroup
<1>10. CASE PutGroup(r)
  BY <1>10, WriteKeeps DEF PutGroup
<1>11. CASE PutEndpoint(r)
  BY <1>11, WriteKeeps DEF PutEndpoint
<1>12. CASE ReadGroups(r)
  BY <1>12, QuietKeeps DEF ReadGroups
<1>13. CASE CreateDefault(r)
  BY <1>13, WriteKeeps DEF CreateDefault
<1>14. CASE Commit(r)
  BY <1>14, CommitKeeps DEF Commit
<1>15. CASE Violates(r)
  BY <1>15, RollBackKeeps DEF Violates, RollBack
<1>16. CASE DbFails(r)
  BY <1>16, RollBackKeeps DEF DbFails, RollBack
<1> QED
  BY <1>1, <1>2, <1>3, <1>4, <1>5, <1>6, <1>7, <1>8, <1>9, <1>10, <1>11, <1>12, <1>13,
     <1>14, <1>15, <1>16 DEF Handle

\* References hold, transactions are consistent and kept apart, for any calls of
\* any number of users, from any tables whose references hold.
THEOREM StoreInductive == Spec => []StoreInv
<1>1. Init => StoreInv
  BY InitStore
<1>2. StoreInv /\ [Next]_vars => StoreInv'
  <2> SUFFICES ASSUME StoreInv, [Next]_vars PROVE StoreInv'
    OBVIOUS
  <2>1. CASE \E r \in Requests, c \in Menu : Receive(r, c)
    BY <2>1, QuietKeeps DEF Receive, AddApiGroup, UpdateApiGroup, DeleteApiGroup,
       ManageEndpoint, DeleteEndpoint, UploadConfig, GetApiGroups, Accept
  <2>2. CASE \E r \in Requests : Handle(r)
    BY <2>2, HandleKeeps
  <2>3. CASE Crash
    BY <2>3, CrashKeeps DEF Crash
  <2>4. CASE Finished
    BY <2>4, QuietKeeps DEF Finished, vars
  <2>5. CASE UNCHANGED vars
    BY <2>5, QuietKeeps DEF vars
  <2> QED
    BY <2>1, <2>2, <2>3, <2>4, <2>5 DEF Next
<1> QED
  BY <1>1, <1>2, PTL DEF Spec

\* No committed row points at nothing (the foreign keys of schema.sql, kept by
\* every interleaving of the transactions that check them one by one).
THEOREM NothingInUseIsDeleted == Spec => []ReferencesHold
<1>1. StoreInv => ReferencesHold
  BY DEF StoreInv
<1> QED
  BY <1>1, StoreInductive, PTL

-----------------------------------------------------------------------------
(* Rows, tables and where requests are.                                     *)

Removing == {"delete_group", "delete_endpoint", "force_clean", "fallback_clean"}
Adding   == {"add_group", "import", "manage_endpoint", "get_groups"}

\* What a request may have left to do.
Plans == {<<>>, <<"add_group">>, <<"delete_group", "add_group">>, <<"delete_group">>,
          <<"manage_endpoint">>, <<"delete_endpoint">>, <<"force_clean", "import">>,
          <<"fallback_clean", "import">>, <<"import">>, <<"get_groups">>}

\* Before the first statement that writes.
Beginnings == {"list", "access", "unlink", "upsert_group", "find_group", "insert_group",
               "update_group", "read_groups", "create"}

\* The transaction that each statement is of, and what it goes through.
Located(r) ==
  /\ pc[r] \in {"list", "unlink", "purge", "drop"} => Tx(r) \in Removing
  /\ pc[r] = "used" => Tx(r) = "delete_group"
  /\ pc[r] = "access" => Tx(r) \in {"delete_endpoint", "manage_endpoint"}
  /\ pc[r] = "upsert_group" => Tx(r) = "add_group"
  /\ pc[r] \in {"find_group", "insert_group", "update_group"} => Tx(r) = "import"
  /\ pc[r] \in {"look", "insert", "update"} => Tx(r) \in Adding \ {"get_groups"}
  /\ pc[r] \in {"read_groups", "create"} => Tx(r) = "get_groups"
  /\ Tx(r) \in Adding => todo[r] \subseteq Endpoints
  /\ pc[r] = "drop" => at[r] \in EndpointIds
  /\ pc[r] \in {"insert", "update"} => at[r] \in Endpoints
  /\ pc[r] \in Beginnings => w[r] = Nothing

\* A request that has ended has written nothing that is not committed.
PlaceInv ==
  /\ pc = [r \in Requests |-> pc[r]]
  /\ plan \in [Requests -> Plans]
  /\ \A r \in Requests : IF InFlight(r) THEN Located(r) ELSE w[r] = Nothing

TypeInv == TypeOK /\ PlaceInv

\* What the two kinds of tables say: the committed one, and what one sees.
LEMMA RowFacts ==
  ASSUME NEW u, NEW v, NEW g, NEW h, NEW e, NEW f
  PROVE  /\ GroupRow(g) = GroupRow(h) <=> g = h
         /\ EndpointRow(e) = EndpointRow(f) <=> e = f
         /\ ParamsRow(e) = ParamsRow(f) <=> e = f
         /\ LinkedGroup(u, g) = LinkedGroup(v, h) <=> u = v /\ g = h
         /\ LinkedEndpoint(u, e) = LinkedEndpoint(v, f) <=> u = v /\ e = f
         /\ GroupRow(g) \notin {EndpointRow(e), ParamsRow(e), LinkedGroup(u, h), LinkedEndpoint(u, e)}
         /\ EndpointRow(e) \notin {ParamsRow(f), LinkedGroup(u, h), LinkedEndpoint(u, f)}
         /\ ParamsRow(e) \notin {LinkedGroup(u, h), LinkedEndpoint(u, f)}
         /\ LinkedGroup(u, g) # LinkedEndpoint(v, e)
  BY DEF GroupRow, EndpointRow, ParamsRow, LinkedGroup, LinkedEndpoint

LEMMA TargetFacts ==
  ASSUME NEW u, NEW g, NEW e
  PROVE  /\ Targets(GroupRow(g)) = Tenants
         /\ Targets(EndpointRow(e)) = {GroupRow(h) : h \in GroupIds}
         /\ Targets(LinkedGroup(u, g)) = {GroupRow(g)}
         /\ Targets(LinkedEndpoint(u, e)) = {EndpointRow(e)}
         /\ Targets(ParamsRow(e)) = {EndpointRow(e)}
  BY DEF Targets, GroupRow, EndpointRow, ParamsRow, LinkedGroup, LinkedEndpoint

\* A tenant is no row, and nothing is gone that is pointed at.
LEMMA KeyFacts ==
  /\ Keys \subseteq Rows /\ Keys \cap Tenants = {} /\ Gone \notin Rows /\ Gone \notin Tenants
  /\ Gone \notin EndpointIds
  /\ \A x \in Rows : Gone \notin Targets(x)
  <1>1. Keys \subseteq Rows /\ Gone \notin Rows /\ Gone \notin Tenants /\ Gone \notin EndpointIds
    BY StoreAssumption DEF Rows
  <1>2. Keys \cap Tenants = {}
    BY DEF Keys, Tenants, Personal, Other, GroupRow, EndpointRow
  <1>3. ASSUME NEW x \in Rows
        PROVE  Targets(x) \subseteq Keys \cup Tenants
    <2>1. CASE \E g \in GroupIds : x = GroupRow(g)
      BY <2>1, TargetFacts
    <2>2. CASE \E e \in EndpointIds : x = EndpointRow(e)
      BY <2>2, TargetFacts DEF Keys
    <2>3. CASE \E u \in Users, g \in GroupIds : x = LinkedGroup(u, g)
      BY <2>3, TargetFacts DEF Keys
    <2>4. CASE \E u \in Users, e \in EndpointIds : x = LinkedEndpoint(u, e)
      <3>1. PICK u \in Users, e \in EndpointIds : x = LinkedEndpoint(u, e)
        BY <2>4
      <3>2. EndpointRow(e) \in Keys
        BY DEF Keys
      <3> QED
        BY <3>1, <3>2, TargetFacts
    <2>5. CASE \E e \in EndpointIds : x = ParamsRow(e)
      BY <2>5, TargetFacts DEF Keys
    <2> QED
      BY <2>1, <2>2, <2>3, <2>4, <2>5 DEF Rows, Keys
  <1> QED
    BY <1>1, <1>2, <1>3

LEMMA TableOver ==
  ASSUME NEW table, NEW writes, IsTable(table, {}), IsTable(writes, {Gone})
  PROVE  IsTable(Over(table, writes), {})
  <1>1. DOMAIN Over(table, writes) \subseteq Rows
    BY DEF Over, IsTable
  <1>2. \A x \in DOMAIN Over(table, writes) : Over(table, writes)[x] \in Targets(x)
    BY DEF Over, IsTable
  <1> QED
    BY <1>1, <1>2 DEF Over, IsTable

LEMMA TableMerge ==
  ASSUME NEW first, NEW second, NEW marks, IsTable(first, marks), IsTable(second, marks)
  PROVE  IsTable(Merge(first, second), marks)
  BY DEF Merge, IsTable

LEMMA TableRow ==
  ASSUME NEW x \in Rows, NEW key, key \in Targets(x)
  PROVE  IsTable(Row(x, key), {Gone})
  BY DEF Row, IsTable

LEMMA TableNothing == IsTable(Nothing, {Gone})
  BY DEF Nothing, IsTable

LEMMA ViewIsTable ==
  ASSUME TypeOK, NEW r \in Requests
  PROVE  IsTable(View(r), {}) /\ DOMAIN View(r) \subseteq Rows
  BY TableOver DEF TypeOK, View, IsTable

LEMMA TableDeletion ==
  ASSUME TypeOK, NEW r \in Requests, NEW some
  PROVE  IsTable(Deletion(r, some), {Gone})
  BY ViewIsTable DEF Deletion, Sees, IsTable

LEMMA OneLeft ==
  ASSUME NEW a
  PROVE  Head(<<a>>) = a /\ Tail(<<a>>) = <<>>
  OBVIOUS

LEMMA TwoLeft ==
  ASSUME NEW a, NEW b
  PROVE  Head(<<a, b>>) = a /\ Tail(<<a, b>>) = <<b>>
  OBVIOUS

LEMMA PlanFacts ==
  ASSUME NEW txs \in Plans, txs # <<>>
  PROVE  Tail(txs) \in Plans /\ Head(txs) \in Removing \cup Adding
  <1>1. CASE \E tx \in Removing \cup Adding : txs = <<tx>>
    BY <1>1, OneLeft DEF Plans
  <1>2. CASE txs = <<"delete_group", "add_group">>
    BY <1>2, TwoLeft DEF Plans, Removing
  <1>3. CASE txs = <<"force_clean", "import">>
    BY <1>3, TwoLeft DEF Plans, Removing
  <1>4. CASE txs = <<"fallback_clean", "import">>
    BY <1>4, TwoLeft DEF Plans, Removing
  <1> QED
    BY <1>1, <1>2, <1>3, <1>4 DEF Plans, Removing, Adding

-----------------------------------------------------------------------------
(* Every step keeps the types, and leaves the other requests where they are. *)

Stands(q) ==
  /\ pc'[q] = pc[q] /\ plan'[q] = plan[q] /\ todo'[q] = todo[q] /\ at'[q] = at[q]
  /\ w'[q] = w[q] /\ call'[q] = call[q]

Kept(r) == TypeInv' /\ \A q \in Requests \ {r} : Stands(q)

\* What is known of a request under way.
LEMMA CallFacts ==
  ASSUME TypeInv, NEW r \in Requests, pc[r] # "idle"
  PROVE  /\ call[r] \in Menu
         /\ User(r) \in Users /\ Group(r) \in Groups /\ Group(r) \in GroupIds
         /\ call[r].endpoints \subseteq Endpoints /\ call[r].endpoints \subseteq EndpointIds
  BY StoreAssumption DEF TypeInv, TypeOK, Calls, User, Group, GroupIds, EndpointIds

LEMMA TxFacts ==
  ASSUME TypeInv, NEW r \in Requests, InFlight(r)
  PROVE  /\ plan[r] \in Plans /\ plan[r] # <<>> /\ Tail(plan[r]) \in Plans
         /\ Tx(r) \in Removing \cup Adding /\ Located(r)
  BY PlanFacts DEF TypeInv, TypeOK, PlaceInv, Tx

\* The beginning of a transaction, or the answer.
LEMMA BeginFacts ==
  ASSUME TypeInv, NEW r \in Requests, NEW txs \in Plans, NEW answer \in {"ok", "denied", "error"},
         NEW endpoints \in SUBSET Endpoints, Begin(r, txs, answer, endpoints),
         w'[r] = Nothing
  PROVE  /\ pc' = [q \in Requests |-> pc'[q]] /\ plan' \in [Requests -> Plans]
         /\ todo' \in [Requests -> SUBSET EndpointIds] /\ at' \in [Requests -> EndpointIds \cup {Gone}]
         /\ \A q \in Requests \ {r} :
              pc'[q] = pc[q] /\ plan'[q] = plan[q] /\ todo'[q] = todo[q] /\ at'[q] = at[q]
         /\ plan'[r] = txs
         /\ txs = <<>> => pc'[r] = answer
         /\ txs # <<>> => /\ todo'[r] = endpoints /\ Tx(r)' = Head(txs)
                          /\ Head(txs) \in Removing \cup Adding
                          /\ pc'[r] = FirstStep(Head(txs)) /\ InFlight(r)' /\ Located(r)'
  <1>1. /\ pc' = [pc EXCEPT ![r] = IF txs = <<>> THEN answer ELSE FirstStep(Head(txs))]
        /\ plan' = [plan EXCEPT ![r] = txs] /\ at' = [at EXCEPT ![r] = Gone]
        /\ todo' = [todo EXCEPT ![r] = IF txs = <<>> THEN {} ELSE endpoints]
    BY DEF Begin, Goto
  <1>2. /\ pc = [q \in Requests |-> pc[q]] /\ plan \in [Requests -> Plans]
        /\ todo \in [Requests -> SUBSET EndpointIds] /\ at \in [Requests -> EndpointIds \cup {Gone}]
    BY DEF TypeInv, TypeOK, PlaceInv
  <1>3. /\ pc' = [q \in Requests |-> pc'[q]] /\ plan' \in [Requests -> Plans]
        /\ todo' \in [Requests -> SUBSET EndpointIds] /\ at' \in [Requests -> EndpointIds \cup {Gone}]
        /\ \A q \in Requests \ {r} :
              pc'[q] = pc[q] /\ plan'[q] = plan[q] /\ todo'[q] = todo[q] /\ at'[q] = at[q]
        /\ plan'[r] = txs
        /\ txs = <<>> => pc'[r] = answer
        /\ txs # <<>> => todo'[r] = endpoints /\ pc'[r] = FirstStep(Head(txs))
    BY <1>1, <1>2 DEF EndpointIds
  <1>4. ASSUME txs # <<>>
        PROVE  /\ Tx(r)' = Head(txs) /\ Head(txs) \in Removing \cup Adding
               /\ InFlight(r)' /\ Located(r)'
    <2>1. PICK tx \in Removing \cup Adding : tx = Head(txs)
      BY <1>4, PlanFacts
    <2>2. Tx(r)' = tx
      BY <1>3, <2>1 DEF Tx
    <2>3. pc'[r] = FirstStep(tx) /\ todo'[r] \subseteq Endpoints
      BY <1>3, <1>4, <2>1
    <2>4. \/ pc'[r] = "list" /\ tx \in {"delete_group", "force_clean", "fallback_clean"}
          \/ pc'[r] = "access" /\ tx \in {"delete_endpoint", "manage_endpoint"}
          \/ pc'[r] = "upsert_group" /\ tx = "add_group"
          \/ pc'[r] = "find_group" /\ tx = "import"
          \/ pc'[r] = "read_groups" /\ tx = "get_groups"
      BY <2>3 DEF FirstStep, Removing, Adding
    <2>5. InFlight(r)'
      BY <2>4 DEF InFlight, Ended
    <2> QED
      BY <2>1, <2>2, <2>3, <2>4, <2>5 DEF Located, Removing
  <1> QED
    BY <1>3, <1>4

\* A statement within a transaction.
LEMMA GotoFacts ==
  ASSUME TypeInv, NEW r \in Requests, NEW step, Goto(r, step)
  PROVE  /\ pc' = [q \in Requests |-> pc'[q]] /\ pc'[r] = step
         /\ \A q \in Requests \ {r} : pc'[q] = pc[q]
  BY DEF TypeInv, PlaceInv, Goto

\* Where requests are, after one has moved.
LEMMA PlacedAfter ==
  ASSUME TypeInv, NEW r \in Requests,
         pc' = [q \in Requests |-> pc'[q]], plan' \in [Requests -> Plans],
         \A q \in Requests \ {r} : Stands(q),
         IF InFlight(r)' THEN Located(r)' ELSE w'[r] = Nothing
  PROVE  PlaceInv'
  <1>1. ASSUME NEW q \in Requests \ {r}
        PROVE  IF InFlight(q)' THEN Located(q)' ELSE w'[q] = Nothing
    <2>1. Stands(q) /\ IF InFlight(q) THEN Located(q) ELSE w[q] = Nothing
      BY DEF TypeInv, PlaceInv
    <2> QED
      BY <2>1 DEF Stands, InFlight, Located, Tx
  <1> QED
    BY <1>1 DEF PlaceInv

\* The types, after one request has moved within its transaction.
LEMMA MovedTypes ==
  ASSUME TypeInv, StoreInv, NEW r \in Requests, NEW step, InFlight(r), Goto(r, step),
         UNCHANGED <<db, tenant, call, plan>>,
         todo' \in [Requests -> SUBSET EndpointIds], at' \in [Requests -> EndpointIds \cup {Gone}],
         \A q \in Requests \ {r} : todo'[q] = todo[q] /\ at'[q] = at[q] /\ w'[q] = w[q],
         IsTable(w'[r], {Gone}), disturbed' \subseteq Users, raced' \subseteq Groups, faulted' \subseteq Requests,
         step \notin Ended \cup {"idle"}, Located(r)'
  PROVE  Kept(r)
  <1>1. /\ pc' = [q \in Requests |-> pc'[q]] /\ pc'[r] = step
        /\ \A q \in Requests \ {r} : pc'[q] = pc[q]
    BY GotoFacts
  <1>2. \A q \in Requests \ {r} : Stands(q)
    BY <1>1 DEF Stands
  <1>3. InFlight(r)' /\ pc[r] # "idle"
    BY <1>1 DEF InFlight
  <1>4. PlaceInv'
    BY <1>1, <1>2, <1>3, PlacedAfter DEF TypeInv, PlaceInv
  <1>5. \A q \in Requests : pc'[q] # "idle" => call[q] \in Menu
    BY <1>1, <1>3 DEF TypeInv, TypeOK
  <1>6. \A q \in Requests : InFlight(q)' => plan[q] # <<>>
    BY <1>1, <1>3 DEF TypeInv, TypeOK, InFlight
  <1>7. \A q \in Requests : IsTable(w'[q], {Gone})
    BY DEF TypeInv, TypeOK
  <1>8. IsTable(db', {}) /\ tenant' \in [Users -> Tenants] /\ call' \in [Requests -> Menu \cup {NoCall}]
    BY DEF TypeInv, TypeOK
  <1>9. TypeOK'
    BY <1>5, <1>6, <1>7, <1>8 DEF TypeOK
  <1> QED
    BY <1>2, <1>4, <1>9 DEF Kept, TypeInv

\* The types, after a request has begun a transaction or been answered.
LEMMA BegunTypes ==
  ASSUME TypeInv, NEW r \in Requests, NEW txs \in Plans,
         NEW answer \in {"ok", "denied", "error"}, NEW endpoints \in SUBSET Endpoints,
         Begin(r, txs, answer, endpoints),
         IsTable(db', {}), tenant' \in [Users -> Tenants], call' \in [Requests -> Menu \cup {NoCall}],
         call'[r] \in Menu, \A q \in Requests \ {r} : call'[q] = call[q] /\ w'[q] = w[q],
         w'[r] = Nothing, disturbed' \subseteq Users, raced' \subseteq Groups, faulted' \subseteq Requests
  PROVE  Kept(r)
  <1>1. /\ pc' = [q \in Requests |-> pc'[q]] /\ plan' \in [Requests -> Plans]
        /\ todo' \in [Requests -> SUBSET EndpointIds] /\ at' \in [Requests -> EndpointIds \cup {Gone}]
        /\ \A q \in Requests \ {r} :
              pc'[q] = pc[q] /\ plan'[q] = plan[q] /\ todo'[q] = todo[q] /\ at'[q] = at[q]
        /\ plan'[r] = txs
        /\ txs = <<>> => pc'[r] = answer
        /\ txs # <<>> => InFlight(r)' /\ Located(r)'
    BY BeginFacts
  <1>2. \A q \in Requests \ {r} : Stands(q)
    BY <1>1 DEF Stands
  <1>3. InFlight(r)' => txs # <<>>
    BY <1>1 DEF InFlight, Ended
  <1>4. PlaceInv'
    BY <1>1, <1>2, <1>3, PlacedAfter
  <1>5. \A q \in Requests : pc'[q] # "idle" => call'[q] \in Menu
    BY <1>1 DEF TypeInv, TypeOK
  <1>6. \A q \in Requests : InFlight(q)' => plan'[q] # <<>>
    BY <1>1, <1>3 DEF TypeInv, TypeOK, InFlight
  <1>7. \A q \in Requests : IsTable(w'[q], {Gone})
    BY TableNothing DEF TypeInv, TypeOK
  <1>9. TypeOK'
    BY <1>1, <1>5, <1>6, <1>7 DEF TypeOK
  <1> QED
    BY <1>2, <1>4, <1>9 DEF Kept, TypeInv

\* A statement that reads.
LEMMA ReadTypes ==
  ASSUME TypeInv, StoreInv, NEW r \in Requests, NEW step, InFlight(r), Goto(r, step),
         UNCHANGED <<db, tenant, call, plan, w, history>>,
         todo' \in [Requests -> SUBSET EndpointIds], at' \in [Requests -> EndpointIds \cup {Gone}],
         \A q \in Requests \ {r} : todo'[q] = todo[q] /\ at'[q] = at[q],
         step \notin Ended \cup {"idle"}, Located(r)'
  PROVE  Kept(r)
  <1>1. \A q \in Requests : IsTable(w'[q], {Gone}) /\ w'[q] = w[q]
    BY DEF TypeInv, TypeOK
  <1>2. disturbed' \subseteq Users /\ raced' \subseteq Groups /\ faulted' \subseteq Requests
    BY DEF TypeInv, TypeOK, history
  <1> QED
    BY <1>1, <1>2, MovedTypes

\* A statement that writes.
LEMMA WriteTypes ==
  ASSUME TypeInv, StoreInv, NEW r \in Requests, NEW step, InFlight(r), Goto(r, step),
         NEW some, NEW writes, Write(r, some, writes), IsTable(writes, {Gone}),
         UNCHANGED <<db, tenant, call, local>>, raced' \subseteq Groups, UNCHANGED <<disturbed, faulted>>,
         step \in {"used", "purge", "commit", "look"}, Located(r)'
  PROVE  Kept(r)
  <1>1. /\ w'[r] = Merge(w[r], writes)
        /\ \A q \in Requests \ {r} : w'[q] = w[q]
    BY DEF Write, StoreInv, Writes
  <1>2. IsTable(w'[r], {Gone})
    <2>1. IsTable(w[r], {Gone})
      BY DEF TypeInv, TypeOK
    <2> QED
      BY <1>1, <2>1, TableMerge
  <1>3. /\ todo' \in [Requests -> SUBSET EndpointIds] /\ at' \in [Requests -> EndpointIds \cup {Gone}]
        /\ \A q \in Requests \ {r} : todo'[q] = todo[q] /\ at'[q] = at[q]
        /\ disturbed' \subseteq Users /\ faulted' \subseteq Requests /\ plan' = plan
    BY DEF TypeInv, TypeOK, local
  <1>4. step \notin Ended \cup {"idle"}
    BY DEF Ended
  <1> QED
    BY <1>1, <1>2, <1>3, <1>4, MovedTypes

\* Within a transaction the statements follow one another.
LEMMA LocatedStep ==
  ASSUME TypeInv, NEW r \in Requests, InFlight(r), plan' = plan
  PROVE  Tx(r)' = Tx(r) /\ Tx(r) \in Removing \cup Adding /\ Located(r)
  BY TxFacts DEF Tx

LEMMA RemovalTypes ==
  ASSUME TypeInv, StoreInv, NEW r \in Requests,
         \/ ListEndpoints(r) \/ GroupUsed(r) \/ (\E e \in todo[r] : PurgeEndpoint(r, e))
         \/ Unlink(r) \/ DropEndpoint(r) \/ DropGroups(r)
  PROVE  Kept(r)
  <1>0. InFlight(r) /\ plan' = plan /\ Located(r) /\ Tx(r)' = Tx(r)
    <2>1. pc[r] \in {"list", "used", "purge", "unlink", "drop"} /\ plan' = plan
      BY DEF ListEndpoints, GroupUsed, PurgeEndpoint, Unlink, DropEndpoint, DropGroups, local
    <2>2. InFlight(r)
      BY <2>1 DEF InFlight, Ended
    <2> QED
      BY <2>1, <2>2, LocatedStep
  <1>1. CASE ListEndpoints(r)
    <2>1. /\ Goto(r, "unlink") /\ pc[r] = "list" /\ UNCHANGED <<db, tenant, call, plan, at, w, history>>
          /\ \E some \in SUBSET EndpointIds : todo' = [todo EXCEPT ![r] = some]
      BY <1>1 DEF ListEndpoints
    <2>2. /\ todo' \in [Requests -> SUBSET EndpointIds] /\ at' \in [Requests -> EndpointIds \cup {Gone}]
          /\ \A q \in Requests \ {r} : todo'[q] = todo[q] /\ at'[q] = at[q]
      BY <2>1 DEF TypeInv, TypeOK
    <2>3. Located(r)'
      BY <1>0, <2>1, GotoFacts DEF Located, Removing, Adding, Beginnings
    <2> QED
      BY <1>0, <2>1, <2>2, <2>3, ReadTypes DEF Ended
  <1>2. CASE GroupUsed(r)
    <2>1. PICK step \in {"commit", "purge"} :
            Goto(r, step) /\ pc[r] = "used" /\ UNCHANGED <<db, tenant, call, local, w, history>>
      BY <1>2 DEF GroupUsed
    <2>2. Located(r)'
      BY <1>0, <2>1, GotoFacts DEF Located, Removing, Adding, Beginnings, local
    <2>3. /\ todo' \in [Requests -> SUBSET EndpointIds] /\ at' \in [Requests -> EndpointIds \cup {Gone}]
          /\ \A q \in Requests \ {r} : todo'[q] = todo[q] /\ at'[q] = at[q]
      BY <2>1 DEF TypeInv, TypeOK, local
    <2> QED
      BY <1>0, <2>1, <2>2, <2>3, ReadTypes DEF Ended, local
  <1>3. ASSUME NEW e \in todo[r], PurgeEndpoint(r, e)
        PROVE  Kept(r)
    <2>1. /\ pc[r] = "purge" /\ UNCHANGED <<db, tenant, call, plan, w, history>>
          /\ todo' = [todo EXCEPT ![r] = todo[r] \ {e}]
          /\ \/ UNCHANGED <<at, pc>>
             \/ at' = [at EXCEPT ![r] = e] /\ Goto(r, "drop")
      BY <1>3 DEF PurgeEndpoint
    <2>2. e \in EndpointIds
      BY DEF TypeInv, TypeOK
    <2>3. /\ todo' \in [Requests -> SUBSET EndpointIds] /\ at' \in [Requests -> EndpointIds \cup {Gone}]
          /\ \A q \in Requests \ {r} : todo'[q] = todo[q] /\ at'[q] = at[q]
          /\ UNCHANGED at \/ at'[r] = e
      BY <2>1, <2>2 DEF TypeInv, TypeOK
    <2>4. PICK step \in {"purge", "drop"} : Goto(r, step) /\ (step = "drop" => at'[r] = e)
      <3>1. CASE UNCHANGED <<at, pc>>
        <4>1. pc' = [pc EXCEPT ![r] = "purge"]
          BY <2>1, <3>1 DEF TypeInv, PlaceInv
        <4> QED
          BY <4>1 DEF Goto
      <3>2. CASE at' = [at EXCEPT ![r] = e] /\ Goto(r, "drop")
        BY <3>2 DEF TypeInv, TypeOK
      <3> QED
        BY <2>1, <3>1, <3>2
    <2>5. Located(r)'
      BY <1>0, <2>1, <2>2, <2>4, GotoFacts DEF Located, Removing, Adding, Beginnings
    <2> QED
      BY <1>0, <2>1, <2>3, <2>4, <2>5, ReadTypes DEF Ended
  <1>4. CASE Unlink(r)
    <2>1. PICK step \in {"used", "purge"} :
            /\ Goto(r, step) /\ pc[r] = "unlink" /\ UNCHANGED <<db, tenant, call, local>>
            /\ UNCHANGED <<disturbed, faulted>> /\ raced' \in {raced, raced \cup {Group(r)}}
            /\ Write(r, {}, Deletion(r, Unlinks(r)))
            /\ step = "used" => Tx(r) = "delete_group"
      BY <1>4 DEF Unlink
    <2>2. raced' \subseteq Groups
      <3>1. Group(r) \in Groups
        BY <1>0, CallFacts DEF InFlight
      <3> QED
        BY <2>1, <3>1 DEF TypeInv, TypeOK
    <2>3. Located(r)'
      BY <1>0, <2>1, GotoFacts DEF Located, Removing, Adding, Beginnings, local
    <2>4. IsTable(Deletion(r, Unlinks(r)), {Gone})
      BY TableDeletion DEF TypeInv
    <2> QED
      BY <1>0, <2>1, <2>2, <2>3, <2>4, WriteTypes
  <1>5. CASE DropEndpoint(r)
    <2>1. /\ Goto(r, "purge") /\ pc[r] = "drop" /\ UNCHANGED <<db, tenant, call, local, history>>
          /\ Write(r, {}, Deletion(r, Drops(r)))
      BY <1>5 DEF DropEndpoint
    <2>2. raced' \subseteq Groups
      BY <2>1 DEF TypeInv, TypeOK, history
    <2>3. Located(r)'
      BY <1>0, <2>1, GotoFacts DEF Located, Removing, Adding, Beginnings, local
    <2>4. IsTable(Deletion(r, Drops(r)), {Gone})
      BY TableDeletion DEF TypeInv
    <2> QED
      BY <1>0, <2>1, <2>2, <2>3, <2>4, WriteTypes DEF history
  <1>6. CASE DropGroups(r)
    <2>1. /\ Goto(r, "commit") /\ pc[r] = "purge" /\ UNCHANGED <<db, tenant, call, local, history>>
          /\ Write(r, {}, Deletion(r, GroupsToDrop(r)))
      BY <1>6 DEF DropGroups
    <2>2. raced' \subseteq Groups
      BY <2>1 DEF TypeInv, TypeOK, history
    <2>3. Located(r)'
      BY <1>0, <2>1, GotoFacts DEF Located, Removing, Adding, Beginnings, local
    <2>4. IsTable(Deletion(r, GroupsToDrop(r)), {Gone})
      BY TableDeletion DEF TypeInv
    <2> QED
      BY <1>0, <2>1, <2>2, <2>3, <2>4, WriteTypes DEF history
  <1> QED
    BY <1>1, <1>2, <1>3, <1>4, <1>5, <1>6

\* What the additions write.
WritesGroup(r) == Merge(PutsGroup(r), Links(r, LinkedGroup(User(r), Group(r)), GroupRow(Group(r))))

WritesDefault(r) ==
  Merge(Merge(Row(GroupRow(r), tenant[User(r)]), Row(EndpointRow(r), GroupRow(r))),
        Merge(Row(LinkedGroup(User(r), r), GroupRow(r)),
              Row(LinkedEndpoint(User(r), r), EndpointRow(r))))

LEMMA RowsExist ==
  /\ \A g \in GroupIds : GroupRow(g) \in Rows
  /\ \A e \in EndpointIds : EndpointRow(e) \in Rows /\ ParamsRow(e) \in Rows
  /\ \A u \in Users, g \in GroupIds : LinkedGroup(u, g) \in Rows
  /\ \A u \in Users, e \in EndpointIds : LinkedEndpoint(u, e) \in Rows
  BY DEF Rows, Keys

LEMMA LinksTable ==
  ASSUME NEW r, NEW x \in Rows, NEW key, key \in Targets(x)
  PROVE  IsTable(Links(r, x, key), {Gone})
  BY TableRow, TableNothing DEF Links

LEMMA WritesGroupTable ==
  ASSUME TypeInv, NEW r \in Requests, pc[r] # "idle"
  PROVE  IsTable(WritesGroup(r), {Gone})
  <1>1. User(r) \in Users /\ Group(r) \in GroupIds /\ tenant[User(r)] \in Tenants
    BY CallFacts DEF TypeInv, TypeOK
  <1>2. PICK u \in Users, g \in GroupIds : u = User(r) /\ g = Group(r)
    BY <1>1
  <1>3. /\ GroupRow(g) \in Rows /\ LinkedGroup(u, g) \in Rows
        /\ Targets(GroupRow(g)) = Tenants /\ Targets(LinkedGroup(u, g)) = {GroupRow(g)}
    BY RowsExist, TargetFacts
  <1>4. IsTable(Links(r, LinkedGroup(u, g), GroupRow(g)), {Gone})
    BY <1>3, LinksTable
  <1>5. IsTable(PutsGroup(r), {Gone})
    <2>1. CASE PutsGroup(r) = Nothing
      BY <2>1, TableNothing
    <2>2. CASE PutsGroup(r) = Row(GroupRow(g), tenant[u])
      BY <1>1, <1>2, <1>3, <2>2, TableRow
    <2>3. CASE Sees(r, GroupRow(g)) /\ PutsGroup(r) = Row(GroupRow(g), View(r)[GroupRow(g)])
      <3>1. View(r)[GroupRow(g)] \in Tenants
        BY <1>3, <2>3, ViewIsTable DEF Sees, IsTable, TypeInv
      <3> QED
        BY <1>3, <2>3, <3>1, TableRow
    <2> QED
      BY <1>2, <2>1, <2>2, <2>3 DEF PutsGroup
  <1> QED
    BY <1>2, <1>4, <1>5, TableMerge DEF WritesGroup

LEMMA PutsEndpointTable ==
  ASSUME TypeInv, NEW r \in Requests, pc[r] # "idle", at[r] \in EndpointIds
  PROVE  IsTable(PutsEndpoint(r), {Gone})
  <1>1. PICK u \in Users, g \in GroupIds, e \in EndpointIds : u = User(r) /\ g = Group(r) /\ e = at[r]
    BY CallFacts
  <1>2. /\ EndpointRow(e) \in Rows /\ ParamsRow(e) \in Rows /\ LinkedEndpoint(u, e) \in Rows
        /\ GroupRow(g) \in Targets(EndpointRow(e)) /\ EndpointRow(e) \in Targets(ParamsRow(e))
        /\ EndpointRow(e) \in Targets(LinkedEndpoint(u, e))
    BY RowsExist, TargetFacts
  <1>3. IsTable(PutsRow(r), {Gone})
    BY <1>1, <1>2, TableRow, TableNothing DEF PutsRow
  <1>4. /\ IsTable(Row(ParamsRow(e), EndpointRow(e)), {Gone})
        /\ IsTable(Links(r, LinkedEndpoint(u, e), EndpointRow(e)), {Gone})
    BY <1>2, TableRow, LinksTable
  <1>5. IsTable(Merge(Row(ParamsRow(e), EndpointRow(e)), Links(r, LinkedEndpoint(u, e), EndpointRow(e))), {Gone})
    BY <1>4, TableMerge
  <1> QED
    BY <1>1, <1>3, <1>5, TableMerge DEF PutsEndpoint

LEMMA WritesDefaultTable ==
  ASSUME TypeInv, NEW r \in Requests, pc[r] # "idle"
  PROVE  IsTable(WritesDefault(r), {Gone})
  <1>1. PICK u \in Users, t \in Tenants : u = User(r) /\ t = tenant[u]
    BY CallFacts DEF TypeInv, TypeOK
  <1>2. r \in GroupIds /\ r \in EndpointIds
    BY DEF GroupIds, EndpointIds
  <1>3. /\ GroupRow(r) \in Rows /\ EndpointRow(r) \in Rows
        /\ LinkedGroup(u, r) \in Rows /\ LinkedEndpoint(u, r) \in Rows
        /\ t \in Targets(GroupRow(r)) /\ GroupRow(r) \in Targets(EndpointRow(r))
        /\ GroupRow(r) \in Targets(LinkedGroup(u, r))
        /\ EndpointRow(r) \in Targets(LinkedEndpoint(u, r))
    BY <1>2, RowsExist, TargetFacts
  <1>4. /\ IsTable(Row(GroupRow(r), t), {Gone}) /\ IsTable(Row(EndpointRow(r), GroupRow(r)), {Gone})
        /\ IsTable(Row(LinkedGroup(u, r), GroupRow(r)), {Gone})
        /\ IsTable(Row(LinkedEndpoint(u, r), EndpointRow(r)), {Gone})
    BY <1>3, TableRow
  <1>5. /\ IsTable(Merge(Row(GroupRow(r), t), Row(EndpointRow(r), GroupRow(r))), {Gone})
        /\ IsTable(Merge(Row(LinkedGroup(u, r), GroupRow(r)), Row(LinkedEndpoint(u, r), EndpointRow(r))), {Gone})
    BY <1>4, TableMerge
  <1> QED
    BY <1>1, <1>5, TableMerge DEF WritesDefault

LEMMA AdditionTypes ==
  ASSUME TypeInv, StoreInv, NEW r \in Requests,
         \/ AccessFound(r) \/ FindGroup(r) \/ (\E e \in todo[r] : LookUp(r, e))
         \/ PutGroup(r) \/ PutEndpoint(r) \/ CreateDefault(r)
  PROVE  Kept(r)
  <1>0. InFlight(r) /\ pc[r] # "idle" /\ plan' = plan /\ Located(r) /\ Tx(r)' = Tx(r)
    <2>1. /\ pc[r] \in {"access", "find_group", "look", "upsert_group", "insert_group",
                        "update_group", "insert", "update", "create"}
          /\ plan' = plan
      BY DEF AccessFound, FindGroup, LookUp, PutGroup, PutEndpoint, CreateDefault, local
    <2>2. InFlight(r) /\ pc[r] # "idle"
      BY <2>1 DEF InFlight, Ended
    <2> QED
      BY <2>1, <2>2, LocatedStep
  <1>1. CASE AccessFound(r) \/ FindGroup(r)
    <2>1. PICK step \in {"look", "unlink", "update_group", "insert_group"} :
            /\ Goto(r, step) /\ UNCHANGED <<db, tenant, call, local, w, history>>
            /\ \/ pc[r] = "access" /\ step = "look" /\ Tx(r) = "manage_endpoint"
               \/ pc[r] = "access" /\ step = "unlink" /\ Tx(r) # "manage_endpoint"
               \/ pc[r] = "find_group" /\ step \in {"update_group", "insert_group"}
      BY <1>1 DEF AccessFound, FindGroup
    <2>2. Located(r)'
      BY <1>0, <2>1, GotoFacts DEF Located, Removing, Adding, Beginnings, local
    <2>3. /\ todo' \in [Requests -> SUBSET EndpointIds] /\ at' \in [Requests -> EndpointIds \cup {Gone}]
          /\ \A q \in Requests \ {r} : todo'[q] = todo[q] /\ at'[q] = at[q]
      BY <2>1 DEF TypeInv, TypeOK, local
    <2> QED
      BY <1>0, <2>1, <2>2, <2>3, ReadTypes DEF Ended, local
  <1>2. ASSUME NEW e \in todo[r], LookUp(r, e)
        PROVE  Kept(r)
    <2>1. PICK step \in {"update", "insert"} :
            /\ Goto(r, step) /\ pc[r] = "look" /\ UNCHANGED <<db, tenant, call, plan, w, history>>
            /\ at' = [at EXCEPT ![r] = e] /\ todo' = [todo EXCEPT ![r] = todo[r] \ {e}]
      BY <1>2 DEF LookUp
    <2>2. /\ todo' \in [Requests -> SUBSET EndpointIds] /\ at' \in [Requests -> EndpointIds \cup {Gone}]
          /\ \A q \in Requests \ {r} : todo'[q] = todo[q] /\ at'[q] = at[q]
          /\ at'[r] = e /\ todo'[r] = todo[r] \ {e}
      BY <2>1 DEF TypeInv, TypeOK
    <2>3. e \in Endpoints
      BY <1>0, <2>1 DEF Located
    <2>4. Located(r)'
      BY <1>0, <2>1, <2>2, <2>3, GotoFacts DEF Located, Removing, Adding, Beginnings
    <2> QED
      BY <1>0, <2>1, <2>2, <2>4, ReadTypes DEF Ended
  <1>3. ASSUME NEW step \in {"commit", "look"}, NEW some, NEW writes, IsTable(writes, {Gone}),
               Goto(r, step), Write(r, some, writes), UNCHANGED <<db, tenant, call, local, history>>,
               step = "look" => Tx(r) \in Adding \ {"get_groups"}
        PROVE  Kept(r)
    <2>1. raced' \subseteq Groups
      BY <1>3 DEF TypeInv, TypeOK, history
    <2>2. Located(r)'
      BY <1>0, <1>3, GotoFacts DEF Located, Removing, Adding, Beginnings, local
    <2> QED
      BY <1>0, <1>3, <2>1, <2>2, WriteTypes DEF history
  <1>4. CASE PutGroup(r)
    <2>1. /\ Write(r, {LinkedGroup(User(r), Group(r))}, WritesGroup(r))
          /\ Goto(r, IF todo[r] = {} THEN "commit" ELSE "look")
          /\ UNCHANGED <<db, tenant, call, local, history>>
          /\ pc[r] \in {"upsert_group", "insert_group", "update_group"}
      BY <1>4 DEF PutGroup, WritesGroup
    <2>2. Tx(r) \in Adding \ {"get_groups"}
      BY <1>0, <2>1 DEF Located, Adding
    <2> QED
      BY <1>0, <1>3, <2>1, <2>2, WritesGroupTable
  <1>5. CASE PutEndpoint(r)
    <2>1. /\ Write(r, {LinkedEndpoint(User(r), at[r])}, PutsEndpoint(r))
          /\ Goto(r, IF todo[r] = {} THEN "commit" ELSE "look")
          /\ UNCHANGED <<db, tenant, call, local, history>>
          /\ pc[r] \in {"insert", "update"}
      BY <1>5 DEF PutEndpoint
    <2>2. Tx(r) \in Adding \ {"get_groups"} /\ at[r] \in EndpointIds
      BY <1>0, <2>1 DEF Located, EndpointIds
    <2> QED
      BY <1>0, <1>3, <2>1, <2>2, PutsEndpointTable
  <1>6. CASE CreateDefault(r)
    <2>1. /\ Write(r, {}, WritesDefault(r)) /\ Goto(r, "commit")
          /\ UNCHANGED <<db, tenant, call, local, history>>
      BY <1>6 DEF CreateDefault, WritesDefault
    <2> QED
      BY <1>0, <1>3, <2>1, WritesDefaultTable
  <1> QED
    BY <1>1, <1>2, <1>4, <1>5, <1>6

LEMMA EndTypes ==
  ASSUME TypeInv, StoreInv, NEW r \in Requests,
         AccessDenied(r) \/ ReadGroups(r) \/ Commit(r) \/ Violates(r) \/ DbFails(r)
  PROVE  Kept(r)
  <1>0. InFlight(r) /\ pc[r] # "idle"
    BY DEF AccessDenied, ReadGroups, Commit, Violates, DbFails, InFlight, Ended
  <1>1. call[r] \in Menu /\ call[r].endpoints \subseteq Endpoints /\ Tail(plan[r]) \in Plans
    BY <1>0, CallFacts, TxFacts
  <1>2. /\ IsTable(db, {}) /\ tenant \in [Users -> Tenants] /\ call \in [Requests -> Menu \cup {NoCall}]
        /\ disturbed \subseteq Users /\ raced \subseteq Groups /\ faulted \subseteq Requests
        /\ \A q \in Requests : IsTable(w[q], {Gone})
    BY DEF TypeInv, TypeOK
  <1>3. {} \in SUBSET Endpoints /\ <<>> \in Plans
    BY DEF Plans
  <1>4. ASSUME EndsUnanswered(r)
        PROVE  w'[r] = Nothing /\ \A q \in Requests \ {r} : w'[q] = w[q]
    BY <1>4 DEF EndsUnanswered, StoreInv, Writes
  <1>5. ASSUME RollBack(r), UNCHANGED <<db, tenant, call, disturbed, raced>>,
               faulted' \in {faulted, faulted \cup {r}}
        PROVE  Kept(r)
    <2>1. PICK txs \in Plans, endpoints \in SUBSET Endpoints : Begin(r, txs, "error", endpoints)
      <3>1. CASE Tx(r) = "force_clean"
        BY <1>1, <1>5, <3>1 DEF RollBack, Plans
      <3>2. CASE Tx(r) = "fallback_clean"
        BY <1>1, <1>5, <3>2 DEF RollBack, Plans
      <3>3. CASE Tx(r) \notin {"force_clean", "fallback_clean"}
        BY <1>3, <1>5, <3>3 DEF RollBack
      <3> QED
        BY <3>1, <3>2, <3>3
    <2>2. w'[r] = Nothing /\ \A q \in Requests \ {r} : w'[q] = w[q]
      BY <1>4, <1>5 DEF RollBack
    <2>3. faulted' \subseteq Requests
      BY <1>2, <1>5
    <2> QED
      BY <1>1, <1>2, <1>5, <2>1, <2>2, <2>3, BegunTypes
  <1>6. ASSUME Begin(r, <<>>, "denied", {}) \/ Begin(r, <<>>, "ok", {}),
               UNCHANGED <<db, tenant, call, w, history>>, pc[r] \in Beginnings
        PROVE  Kept(r)
    <2>1. w[r] = Nothing
      BY <1>0, <1>6, TxFacts DEF Located
    <2>2. w'[r] = Nothing /\ \A q \in Requests \ {r} : w'[q] = w[q]
      BY <1>6, <2>1
    <2>3. UNCHANGED <<disturbed, raced, faulted>>
      BY <1>6 DEF history
    <2> QED
      BY <1>1, <1>2, <1>3, <1>6, <2>2, <2>3, BegunTypes
  <1>7. CASE AccessDenied(r)
    BY <1>6, <1>7 DEF AccessDenied, Beginnings
  <1>8. CASE ReadGroups(r)
    <2>1. CASE \E g \in GroupIds : Sees(r, LinkedGroup(User(r), g))
      BY <1>6, <1>8, <2>1 DEF ReadGroups, Beginnings
    <2>2. CASE ~\E g \in GroupIds : Sees(r, LinkedGroup(User(r), g))
      <3>1. Goto(r, "create") /\ pc[r] = "read_groups" /\ UNCHANGED <<db, tenant, call, local, w, history>>
        BY <1>8, <2>2 DEF ReadGroups
      <3>2. Located(r)'
        BY <1>0, <3>1, GotoFacts, LocatedStep DEF Located, Removing, Adding, Beginnings, local
      <3>3. /\ todo' \in [Requests -> SUBSET EndpointIds] /\ at' \in [Requests -> EndpointIds \cup {Gone}]
            /\ \A q \in Requests \ {r} : todo'[q] = todo[q] /\ at'[q] = at[q]
        BY <3>1 DEF TypeInv, TypeOK, local
      <3> QED
        BY <1>0, <3>1, <3>2, <3>3, ReadTypes DEF Ended, local
    <2> QED
      BY <2>1, <2>2
  <1>9. CASE Commit(r)
    <2>1. /\ Begin(r, Tail(plan[r]), "ok", call[r].endpoints)
          /\ UNCHANGED <<call, history>> /\ EndsUnanswered(r)
          /\ db' = View(r)
          /\ tenant' = IF Tx(r) = "force_clean" THEN [tenant EXCEPT ![User(r)] = Personal(User(r))] ELSE tenant
      BY <1>9 DEF Commit
    <2>2. IsTable(db', {})
      BY <2>1, ViewIsTable DEF TypeInv
    <2>3. tenant' \in [Users -> Tenants]
      <3>1. PICK u \in Users : u = User(r)
        BY <1>0, CallFacts
      <3> QED
        BY <1>2, <2>1, <3>1 DEF Tenants
    <2>4. UNCHANGED <<disturbed, raced, faulted>>
      BY <2>1 DEF history
    <2> QED
      BY <1>1, <1>2, <1>4, <2>1, <2>2, <2>3, <2>4, BegunTypes
  <1>10. CASE Violates(r)
    BY <1>5, <1>10 DEF Violates, history
  <1>11. CASE DbFails(r)
    BY <1>5, <1>11 DEF DbFails
  <1> QED
    BY <1>7, <1>8, <1>9, <1>10, <1>11

LEMMA HandleTypes ==
  ASSUME TypeInv, StoreInv, NEW r \in Requests, Handle(r)
  PROVE  Kept(r)
  BY RemovalTypes, AdditionTypes, EndTypes DEF Handle

LEMMA ReceiveTypes ==
  ASSUME TypeInv, StoreInv, NEW r \in Requests, NEW c \in Menu, Receive(r, c)
  PROVE  TypeInv' /\ pc[r] = "idle" /\ call'[r] = c /\ w' = w /\ UNCHANGED <<db, raced>>
         /\ disturbed \subseteq disturbed'
         /\ \A q \in Requests \ {r} : Stands(q)
  <1>1. PICK txs \in Plans \ {<<>>} : Accept(r, c, txs)
    BY DEF Receive, AddApiGroup, UpdateApiGroup, DeleteApiGroup, ManageEndpoint, DeleteEndpoint,
           UploadConfig, GetApiGroups, Plans
  <1>2. /\ pc[r] = "idle" /\ call' = [call EXCEPT ![r] = c] /\ Begin(r, txs, "ok", c.endpoints)
        /\ UNCHANGED <<db, tenant, w, raced, faulted>>
        /\ disturbed' \in {disturbed, disturbed \cup {c.user}}
    BY <1>1 DEF Accept
  <1>3. c.user \in Users /\ c.endpoints \in SUBSET Endpoints
    BY StoreAssumption DEF Calls
  <1>4. /\ IsTable(db, {}) /\ tenant \in [Users -> Tenants] /\ call \in [Requests -> Menu \cup {NoCall}]
        /\ disturbed \subseteq Users /\ raced \subseteq Groups /\ faulted \subseteq Requests
    BY DEF TypeInv, TypeOK
  <1>5. /\ call' \in [Requests -> Menu \cup {NoCall}] /\ call'[r] = c
        /\ \A q \in Requests \ {r} : call'[q] = call[q]
    BY <1>2, <1>4
  <1>6. w[r] = Nothing
    BY <1>2 DEF TypeInv, PlaceInv, InFlight
  <1>7. disturbed' \subseteq Users /\ raced' \subseteq Groups /\ faulted' \subseteq Requests
        /\ disturbed \subseteq disturbed'
    BY <1>2, <1>3, <1>4
  <1>8. Kept(r)
    BY <1>2, <1>3, <1>4, <1>5, <1>6, <1>7, BegunTypes
  <1> QED
    BY <1>2, <1>5, <1>7, <1>8 DEF Kept

LEMMA CrashTypes ==
  ASSUME TypeInv, Crash
  PROVE  TypeInv'
  <1>1. /\ pc' = [r \in Requests |-> IF InFlight(r) THEN "lost" ELSE pc[r]]
        /\ w' = [r \in Requests |-> Nothing]
        /\ UNCHANGED <<db, tenant, call, plan, todo, at, disturbed, raced, faulted>>
    BY DEF Crash, local, history
  <1>2. \A r \in Requests : ~InFlight(r)' /\ w'[r] = Nothing /\ (pc'[r] # "idle" => pc[r] # "idle")
    BY <1>1 DEF InFlight, Ended
  <1>3. PlaceInv'
    BY <1>1, <1>2 DEF TypeInv, PlaceInv
  <1>4. \A r \in Requests : IsTable(w'[r], {Gone})
    BY <1>2, TableNothing
  <1>5. TypeOK'
    BY <1>1, <1>2, <1>4 DEF TypeInv, TypeOK
  <1> QED
    BY <1>3, <1>5 DEF TypeInv

LEMMA InitTypes == Init => TypeInv
  <1> SUFFICES ASSUME Init PROVE TypeInv
    OBVIOUS
  <1>1. \A r \in Requests : pc[r] = "idle" /\ w[r] = Nothing /\ ~InFlight(r)
    BY DEF Init, InFlight
  <1>2. PlaceInv
    BY <1>1 DEF Init, PlaceInv, Plans
  <1>3. tenant \in [Users -> Tenants]
    BY DEF Init, Tenants
  <1>4. \A r \in Requests : IsTable(w[r], {Gone})
    BY <1>1, TableNothing
  <1>5. TypeOK
    BY <1>1, <1>3, <1>4, StoreAssumption DEF Init, TypeOK
  <1> QED
    BY <1>2, <1>5 DEF TypeInv

\* Where requests are, and the kinds of what they keep.
LEMMA TypesAlways == Spec => []TypeInv
  <1>1. ASSUME TypeInv, StoreInv, [Next]_vars
        PROVE  TypeInv'
    <2>1. CASE \E r \in Requests, c \in Menu : Receive(r, c)
      BY <1>1, <2>1, ReceiveTypes
    <2>2. CASE \E r \in Requests : Handle(r)
      BY <1>1, <2>2, HandleTypes DEF Kept
    <2>3. CASE UNCHANGED vars
      BY <1>1, <2>3 DEF vars, TypeInv, TypeOK, PlaceInv, InFlight, Located, Tx
    <2> QED
      BY <1>1, <2>1, <2>2, <2>3, CrashTypes DEF Next, Finished
  <1> QED
    BY <1>1, InitTypes, StoreInductive, PTL DEF Spec

-----------------------------------------------------------------------------
(* What a transaction has written: a removal has only deleted, an addition   *)
(* only added, and both only links of their caller's own.                   *)

Shape(r, writes) ==
  /\ Tx(r) \in Removing => \A x \in DOMAIN writes : writes[x] = Gone
  /\ Tx(r) \in Adding => \A x \in DOMAIN writes : writes[x] # Gone
  /\ \A v \in Users, g \in GroupIds : LinkedGroup(v, g) \in DOMAIN writes =>
       /\ v = User(r)
       /\ writes[LinkedGroup(v, g)] = Gone => Tx(r) = "delete_group" /\ g = Group(r)
  /\ \A v \in Users, e \in EndpointIds : LinkedEndpoint(v, e) \in DOMAIN writes => v = User(r)

Kinds(r) ==
  /\ Shape(r, w[r])
  /\ \A x \in DOMAIN w[r] : w[r][x] = Gone => x \in DOMAIN db

WriteInv == \A r \in Requests : InFlight(r) => Kinds(r)

\* How a write and a commit change what is seen.
LEMMA SeesAfter ==
  ASSUME NEW r \in Requests, NEW writes, w'[r] = Merge(w[r], writes), db' = db, NEW x
  PROVE  /\ Sees(r, x)' <=> IF x \in DOMAIN writes THEN writes[x] # Gone ELSE Sees(r, x)
         /\ Sees(r, x)' => View(r)'[x] = IF x \in DOMAIN writes THEN writes[x] ELSE View(r)[x]
  BY DEF Sees, View, Over, Merge

LEMMA SeesCommitted ==
  ASSUME NEW r \in Requests, NEW q \in Requests, ApartBy(w[q], w[r]), w'[q] = w[q], db' = View(r), NEW x
  PROVE  /\ x \notin DOMAIN w[r] => /\ Sees(q, x)' <=> Sees(q, x)
                                    /\ Sees(q, x) => View(q)'[x] = View(q)[x]
         /\ x \in DOMAIN w[r] => /\ x \notin DOMAIN w[q]
                                 /\ Sees(q, x)' <=> w[r][x] # Gone
                                 /\ w[r][x] # Gone => View(q)'[x] = w[r][x]
  <1>1. x \in DOMAIN w[r] => x \notin DOMAIN w[q]
    BY DEF ApartBy
  <1>2. View(q)' = Over(Over(db, w[r]), w[q])
    BY DEF View
  <1> QED
    BY <1>1, <1>2 DEF Sees, View, Over

LEMMA SeesNothing ==
  ASSUME NEW r \in Requests, w[r] = Nothing
  PROVE  \A x : (Sees(r, x) <=> Exists(x)) /\ (Exists(x) => View(r)[x] = db[x])
  BY DEF Sees, View, Over, Nothing, Exists

\* The statements that write.
Writing(r, writes) ==
  \/ Unlink(r) /\ writes = Deletion(r, Unlinks(r))
  \/ DropEndpoint(r) /\ writes = Deletion(r, Drops(r))
  \/ DropGroups(r) /\ writes = Deletion(r, GroupsToDrop(r))
  \/ PutGroup(r) /\ writes = WritesGroup(r)
  \/ PutEndpoint(r) /\ writes = PutsEndpoint(r)
  \/ CreateDefault(r) /\ writes = WritesDefault(r)

\* What a step of a request does to its writes.
Reading(r) ==
  \/ ListEndpoints(r) \/ AccessFound(r) \/ GroupUsed(r) \/ FindGroup(r)
  \/ \E e \in todo[r] : PurgeEndpoint(r, e) \/ LookUp(r, e)
  \/ ReadGroups(r) /\ pc'[r] = "create"
Silent(r) == Reading(r) /\ UNCHANGED <<w, db, plan, call, disturbed, raced>>
Wrote(r, writes) ==
  /\ Writing(r, writes) /\ w'[r] = Merge(w[r], writes) /\ InFlight(r)
  /\ UNCHANGED <<db, plan, call, todo, at, disturbed>> /\ \E some : Write(r, some, writes)
Ends(r) == AccessDenied(r) \/ (ReadGroups(r) /\ pc'[r] # "create") \/ Violates(r) \/ DbFails(r)
RolledBack(r) == Ends(r) /\ w'[r] = Nothing /\ UNCHANGED <<db, call, disturbed, raced>>

LEMMA StepKinds ==
  ASSUME TypeInv, StoreInv, NEW r \in Requests, Handle(r)
  PROVE  /\ InFlight(r)
         /\ \/ Silent(r) \/ RolledBack(r) \/ Commit(r)
            \/ \E writes : Wrote(r, writes)
  <1>0. InFlight(r)
    BY DEF Handle, ListEndpoints, AccessFound, AccessDenied, Unlink, GroupUsed, PurgeEndpoint, LookUp,
           DropEndpoint, DropGroups, FindGroup, PutGroup, PutEndpoint, ReadGroups, CreateDefault,
           Commit, Violates, DbFails, InFlight, Ended
  <1>1. CASE Reading(r)
    <2>1. CASE ReadGroups(r) /\ pc'[r] = "create"
      <3>1. ~Begin(r, <<>>, "ok", {})
        <4>1. <<>> \in Plans /\ {} \in SUBSET Endpoints
          BY DEF Plans
        <4> QED
          BY <2>1, <4>1, GotoFacts DEF Begin
      <3> QED
        BY <1>0, <1>1, <2>1, <3>1 DEF ReadGroups, Silent, local, history
    <2>2. CASE ~(ReadGroups(r) /\ pc'[r] = "create")
      BY <1>0, <1>1, <2>2 DEF Reading, ListEndpoints, AccessFound, GroupUsed, FindGroup, PurgeEndpoint,
                              LookUp, Silent, local, history
    <2> QED
      BY <2>1, <2>2
  <1>2. CASE Violates(r) \/ DbFails(r)
    BY <1>0, <1>2 DEF Violates, DbFails, RollBack, EndsUnanswered, StoreInv, Writes, RolledBack, Ends, history
  <1>3. CASE AccessDenied(r) \/ (ReadGroups(r) /\ pc'[r] # "create")
    <2>1. InFlight(r) /\ pc[r] \in Beginnings /\ UNCHANGED <<db, call, w, history>>
      BY <1>3 DEF AccessDenied, ReadGroups, InFlight, Ended, Beginnings
    <2>2. w[r] = Nothing
      BY <2>1, TxFacts DEF Located
    <2> QED
      BY <1>0, <1>3, <2>1, <2>2 DEF RolledBack, Ends, history
  <1>4. ASSUME NEW some, NEW writes, Write(r, some, writes), UNCHANGED <<db, call, local, disturbed>>,
               Writing(r, writes)
        PROVE  Wrote(r, writes)
    <2>1. w'[r] = Merge(w[r], writes)
      BY <1>4 DEF Write, StoreInv, Writes
    <2> QED
      BY <1>0, <1>4, <2>1 DEF Wrote, local
  <1>5. CASE Unlink(r)
    BY <1>0, <1>4, <1>5 DEF Unlink, Writing
  <1>6. CASE DropEndpoint(r) \/ DropGroups(r)
    BY <1>0, <1>4, <1>6 DEF DropEndpoint, DropGroups, Writing, history
  <1>7. CASE PutGroup(r)
    BY <1>0, <1>4, <1>7 DEF PutGroup, WritesGroup, Writing, history
  <1>8. CASE PutEndpoint(r)
    BY <1>0, <1>4, <1>8 DEF PutEndpoint, Writing, history
  <1>9. CASE CreateDefault(r)
    BY <1>0, <1>4, <1>9 DEF CreateDefault, WritesDefault, Writing, history
  <1> QED
    BY <1>0, <1>1, <1>2, <1>3, <1>5, <1>6, <1>7, <1>8, <1>9 DEF Handle, Reading

LEMMA DeletionFacts ==
  ASSUME NEW r, NEW some
  PROVE  /\ DOMAIN Deletion(r, some) = {x \in some : Sees(r, x)}
         /\ \A x \in DOMAIN Deletion(r, some) : Deletion(r, some)[x] = Gone
  BY DEF Deletion

\* No tenant is pointed at but by a group.
LEMMA PersonalGroups ==
  ASSUME TypeInv, NEW r \in Requests, NEW t \in Tenants, NEW x \in DOMAIN View(r), View(r)[x] = t
  PROVE  \E g \in GroupIds : x = GroupRow(g)
  <1>1. x \in Rows /\ t \in Targets(x) /\ t \notin Keys
    BY ViewIsTable, KeyFacts DEF IsTable, TypeInv
  <1>2. CASE \E e \in EndpointIds : x = EndpointRow(e)
    BY <1>1, <1>2, TargetFacts DEF Keys
  <1>3. ASSUME NEW u \in Users, NEW g \in GroupIds, x = LinkedGroup(u, g)
        PROVE  FALSE
    <2>1. Targets(x) = {GroupRow(g)}
      BY <1>3, TargetFacts
    <2> QED
      BY <1>1, <2>1 DEF Keys
  <1>4. ASSUME NEW u \in Users, NEW e \in EndpointIds, x = LinkedEndpoint(u, e)
        PROVE  FALSE
    <2>1. Targets(x) = {EndpointRow(e)}
      BY <1>4, TargetFacts
    <2> QED
      BY <1>1, <2>1 DEF Keys
  <1>5. CASE \E e \in EndpointIds : x = ParamsRow(e)
    BY <1>1, <1>5, TargetFacts DEF Keys
  <1> QED
    BY <1>1, <1>2, <1>3, <1>4, <1>5 DEF Rows, Keys

\* The rows each removal may name.
LEMMA RemovalShape ==
  ASSUME TypeInv, NEW r \in Requests, InFlight(r), NEW some, Tx(r) \in Removing,
         \A v \in Users, g \in GroupIds : LinkedGroup(v, g) \in some /\ Sees(r, LinkedGroup(v, g)) =>
           v = User(r) /\ Tx(r) = "delete_group" /\ g = Group(r),
         \A v \in Users, e \in EndpointIds : LinkedEndpoint(v, e) \in some /\ Sees(r, LinkedEndpoint(v, e)) =>
           v = User(r)
  PROVE  Shape(r, Deletion(r, some))
  <1>1. Tx(r) \notin Adding
    BY DEF Removing, Adding
  <1> QED
    BY <1>1, DeletionFacts DEF Shape

LEMMA AdditionShape ==
  ASSUME TypeInv, NEW r \in Requests, InFlight(r), NEW writes, Tx(r) \in Adding,
         \A x \in DOMAIN writes : writes[x] # Gone,
         \A v \in Users, g \in GroupIds : LinkedGroup(v, g) \in DOMAIN writes => v = User(r),
         \A v \in Users, e \in EndpointIds : LinkedEndpoint(v, e) \in DOMAIN writes => v = User(r)
  PROVE  Shape(r, writes)
  <1>1. Tx(r) \notin Removing
    BY DEF Removing, Adding
  <1> QED
    BY <1>1 DEF Shape

LEMMA UnlinksFacts ==
  ASSUME NEW r
  PROVE  /\ \A v, g : LinkedGroup(v, g) \in Unlinks(r) => v = User(r) /\ Tx(r) = "delete_group" /\ g = Group(r)
         /\ \A v, e : LinkedEndpoint(v, e) \in Unlinks(r) =>
              v = User(r) /\ (Tx(r) = "force_clean" \/ e \in todo[r])
         /\ \A e : EndpointRow(e) \notin Unlinks(r) /\ GroupRow(e) \notin Unlinks(r)
  <1>1. Unlinks(r) \subseteq {LinkedEndpoint(User(r), e) : e \in {f \in todo[r] \cup EndpointIds : Tx(r) = "force_clean" \/ f \in todo[r]}}
                      \cup {ParamsRow(e) : e \in todo[r]}
                      \cup (IF Tx(r) = "delete_group" THEN {LinkedGroup(User(r), Group(r))} ELSE {})
    BY DEF Unlinks, LinksTo
  <1> QED
    BY <1>1, RowFacts

LEMMA DropsFacts ==
  ASSUME NEW r
  PROVE  /\ \A v, g : LinkedGroup(v, g) \notin Drops(r)
         /\ \A v, e : LinkedEndpoint(v, e) \notin Drops(r)
         /\ \A e : GroupRow(e) \notin Drops(r) /\ (EndpointRow(e) \in Drops(r) <=> e = at[r])
  <1>1. Drops(r) \subseteq {EndpointRow(at[r]), ParamsRow(at[r])} /\ EndpointRow(at[r]) \in Drops(r)
    BY DEF Drops
  <1> QED
    BY <1>1, RowFacts

LEMMA GroupsToDropFacts ==
  ASSUME TypeInv, NEW r \in Requests, pc[r] # "idle"
  PROVE  /\ \A x \in GroupsToDrop(r) : \E g \in GroupIds : x = GroupRow(g)
         /\ \A v, g : LinkedGroup(v, g) \notin GroupsToDrop(r)
         /\ \A v, e : LinkedEndpoint(v, e) \notin GroupsToDrop(r)
         /\ \A e : EndpointRow(e) \notin GroupsToDrop(r)
  <1>1. Personal(User(r)) \in Tenants /\ Group(r) \in GroupIds
    BY CallFacts DEF Tenants
  <1>2. \A x \in GroupsToDrop(r) : \E g \in GroupIds : x = GroupRow(g)
    BY <1>1, PersonalGroups DEF GroupsToDrop
  <1> QED
    BY <1>2, RowFacts

\* The rows each addition writes.
LEMMA WritesGroupFacts ==
  ASSUME TypeInv, NEW r \in Requests, pc[r] # "idle"
  PROVE  /\ \A x \in DOMAIN WritesGroup(r) : WritesGroup(r)[x] # Gone
         /\ DOMAIN WritesGroup(r) \subseteq {GroupRow(Group(r)), LinkedGroup(User(r), Group(r))}
         /\ LinkedGroup(User(r), Group(r)) \in DOMAIN WritesGroup(r) <=> ~Sees(r, LinkedGroup(User(r), Group(r)))
  <1>1. PICK u \in Users, g \in GroupIds : u = User(r) /\ g = Group(r)
    BY CallFacts
  <1>2. tenant[u] # Gone
    BY KeyFacts DEF TypeInv, TypeOK
  <1>3. Sees(r, GroupRow(g)) => View(r)[GroupRow(g)] # Gone
    <2>1. GroupRow(g) \in Rows /\ Gone \notin Targets(GroupRow(g))
      BY RowsExist, KeyFacts
    <2> QED
      BY <2>1, ViewIsTable DEF Sees, TypeInv, IsTable
  <1>4. GroupRow(g) # Gone
    BY RowsExist, KeyFacts
  <1>5. GroupRow(g) # LinkedGroup(u, g)
    BY DEF GroupRow, LinkedGroup
  <1>6. /\ DOMAIN PutsGroup(r) \subseteq {GroupRow(g)}
        /\ \A x \in DOMAIN PutsGroup(r) : PutsGroup(r)[x] # Gone
    BY <1>1, <1>2, <1>3 DEF PutsGroup, Row, Nothing
  <1>7. /\ DOMAIN Links(r, LinkedGroup(u, g), GroupRow(g)) = (IF Sees(r, LinkedGroup(u, g)) THEN {} ELSE {LinkedGroup(u, g)})
        /\ \A x \in DOMAIN Links(r, LinkedGroup(u, g), GroupRow(g)) : Links(r, LinkedGroup(u, g), GroupRow(g))[x] = GroupRow(g)
    BY DEF Links, Row, Nothing
  <1> QED
    BY <1>1, <1>4, <1>5, <1>6, <1>7 DEF WritesGroup, Merge

LEMMA PutsEndpointFacts ==
  ASSUME TypeInv, NEW r \in Requests, pc[r] # "idle", at[r] \in EndpointIds
  PROVE  /\ \A x \in DOMAIN PutsEndpoint(r) : PutsEndpoint(r)[x] # Gone
         /\ DOMAIN PutsEndpoint(r) \subseteq
              {EndpointRow(at[r]), ParamsRow(at[r]), LinkedEndpoint(User(r), at[r])}
         /\ ParamsRow(at[r]) \in DOMAIN PutsEndpoint(r)
         /\ LinkedEndpoint(User(r), at[r]) \in DOMAIN PutsEndpoint(r) <=> ~Sees(r, LinkedEndpoint(User(r), at[r]))
         /\ EndpointRow(at[r]) \in DOMAIN PutsEndpoint(r) => PutsEndpoint(r)[EndpointRow(at[r])] = GroupRow(Group(r))
         /\ pc[r] # "update" \/ Sees(r, EndpointRow(at[r])) => EndpointRow(at[r]) \in DOMAIN PutsEndpoint(r)
  <1>1. PICK u \in Users, g \in GroupIds, e \in EndpointIds : u = User(r) /\ g = Group(r) /\ e = at[r]
    BY CallFacts
  <1>2. /\ GroupRow(g) # Gone /\ EndpointRow(e) # Gone
        /\ EndpointRow(e) # ParamsRow(e) /\ EndpointRow(e) # LinkedEndpoint(u, e) /\ ParamsRow(e) # LinkedEndpoint(u, e)
    BY RowsExist, KeyFacts, RowFacts
  <1>3. PICK link : link = Links(r, LinkedEndpoint(u, e), EndpointRow(e))
    OBVIOUS
  <1>4. /\ DOMAIN link = (IF Sees(r, LinkedEndpoint(u, e)) THEN {} ELSE {LinkedEndpoint(u, e)})
        /\ \A x \in DOMAIN link : link[x] = EndpointRow(e)
    BY <1>3 DEF Links, Row, Nothing
  <1>5. PICK row : row = PutsRow(r)
    OBVIOUS
  <1>6. /\ DOMAIN row = (IF pc[r] = "update" /\ ~Sees(r, EndpointRow(e)) THEN {} ELSE {EndpointRow(e)})
        /\ \A x \in DOMAIN row : row[x] = GroupRow(g)
    BY <1>1, <1>5 DEF PutsRow, Row, Nothing
  <1>7. PutsEndpoint(r) = Merge(row, Merge(Row(ParamsRow(e), EndpointRow(e)), link))
    BY <1>1, <1>3, <1>5 DEF PutsEndpoint
  <1> QED
    BY <1>1, <1>2, <1>4, <1>6, <1>7 DEF Merge, Row

LEMMA WritesDefaultFacts ==
  ASSUME TypeInv, NEW r \in Requests, pc[r] # "idle"
  PROVE  /\ \A x \in DOMAIN WritesDefault(r) : WritesDefault(r)[x] # Gone
         /\ DOMAIN WritesDefault(r) =
              {GroupRow(r), EndpointRow(r), LinkedGroup(User(r), r), LinkedEndpoint(User(r), r)}
         /\ WritesDefault(r)[EndpointRow(r)] = GroupRow(r)
  <1>1. PICK u \in Users, t \in Tenants : u = User(r) /\ t = tenant[u]
    BY CallFacts DEF TypeInv, TypeOK
  <1>2. /\ t # Gone /\ GroupRow(r) # Gone /\ EndpointRow(r) # Gone
    BY RowsExist, KeyFacts DEF GroupIds, EndpointIds
  <1>3. /\ GroupRow(r) \notin {EndpointRow(r), LinkedGroup(u, r), LinkedEndpoint(u, r)}
        /\ EndpointRow(r) \notin {LinkedGroup(u, r), LinkedEndpoint(u, r)}
        /\ LinkedGroup(u, r) # LinkedEndpoint(u, r)
    BY RowFacts
  <1> QED
    BY <1>1, <1>2, <1>3 DEF WritesDefault, Merge, Row

LEMMA WritingShape ==
  ASSUME TypeInv, StoreInv, NEW r \in Requests, InFlight(r), NEW writes, Writing(r, writes)
  PROVE  /\ Shape(r, writes)
         /\ \A x \in DOMAIN writes : writes[x] = Gone => Sees(r, x)
  <1>0. Located(r) /\ pc[r] # "idle" /\ Tx(r) \in Removing \cup Adding
    BY TxFacts DEF InFlight
  <1>1. CASE Unlink(r) /\ writes = Deletion(r, Unlinks(r))
    <2>1. Tx(r) \in Removing
      BY <1>0, <1>1 DEF Unlink, Located
    <2> QED
      BY <1>1, <2>1, RemovalShape, UnlinksFacts, DeletionFacts
  <1>2. CASE DropEndpoint(r) /\ writes = Deletion(r, Drops(r))
    <2>1. Tx(r) \in Removing
      BY <1>0, <1>2 DEF DropEndpoint, Located
    <2> QED
      BY <1>2, <2>1, DropsFacts, RemovalShape, DeletionFacts
  <1>3. CASE DropGroups(r) /\ writes = Deletion(r, GroupsToDrop(r))
    <2>1. Tx(r) \in Removing
      BY <1>0, <1>3 DEF DropGroups, Located
    <2> QED
      <3>1. Shape(r, Deletion(r, GroupsToDrop(r)))
        BY <1>0, <2>1, GroupsToDropFacts, RemovalShape
      <3> QED
        BY <1>3, <3>1, DeletionFacts
  <1>4. CASE PutGroup(r) /\ writes = WritesGroup(r)
    <2>1. Tx(r) \in Adding
      BY <1>0, <1>4 DEF PutGroup, Located, Adding
    <2>2. PICK u, g : u = User(r) /\ g = Group(r)
      OBVIOUS
    <2>3. DOMAIN writes \subseteq {GroupRow(g), LinkedGroup(u, g)} /\ \A x \in DOMAIN writes : writes[x] # Gone
      BY <1>0, <1>4, <2>2, WritesGroupFacts
    <2>4. /\ \A v, h : LinkedGroup(v, h) \in DOMAIN writes => v = u
          /\ \A v, e : LinkedEndpoint(v, e) \notin DOMAIN writes
      BY <2>3, RowFacts
    <2> QED
      BY <2>1, <2>2, <2>3, <2>4, AdditionShape
  <1>5. CASE PutEndpoint(r) /\ writes = PutsEndpoint(r)
    <2>1. Tx(r) \in Adding /\ at[r] \in EndpointIds
      BY <1>0, <1>5 DEF PutEndpoint, Located, Adding, EndpointIds
    <2>2. PICK u, f : u = User(r) /\ f = at[r]
      OBVIOUS
    <2>3. DOMAIN writes \subseteq {EndpointRow(f), ParamsRow(f), LinkedEndpoint(u, f)} /\ \A x \in DOMAIN writes : writes[x] # Gone
      BY <1>0, <1>5, <2>1, <2>2, PutsEndpointFacts
    <2>4. /\ \A v, h : LinkedGroup(v, h) \notin DOMAIN writes
          /\ \A v, e : LinkedEndpoint(v, e) \in DOMAIN writes => v = u
      BY <2>3, RowFacts
    <2> QED
      BY <2>1, <2>2, <2>3, <2>4, AdditionShape
  <1>6. CASE CreateDefault(r) /\ writes = WritesDefault(r)
    <2>1. Tx(r) \in Adding
      BY <1>0, <1>6 DEF CreateDefault, Located, Adding
    <2>2. PICK u : u = User(r)
      OBVIOUS
    <2>3. /\ DOMAIN writes = {GroupRow(r), EndpointRow(r), LinkedGroup(u, r), LinkedEndpoint(u, r)}
          /\ \A x \in DOMAIN writes : writes[x] # Gone
      BY <1>0, <1>6, <2>2, WritesDefaultFacts
    <2>4. /\ \A v, h : LinkedGroup(v, h) \in DOMAIN writes => v = u
          /\ \A v, e : LinkedEndpoint(v, e) \in DOMAIN writes => v = u
      BY <2>3, RowFacts
    <2> QED
      BY <2>1, <2>2, <2>3, <2>4, AdditionShape
  <1> QED
    BY <1>1, <1>2, <1>3, <1>4, <1>5, <1>6 DEF Writing

\* Writes of the same shape are of that shape together.
LEMMA ShapeMerge ==
  ASSUME NEW r, NEW mine, NEW writes, Shape(r, mine), Shape(r, writes)
  PROVE  Shape(r, Merge(mine, writes))
  BY DEF Shape, Merge

LEMMA OthersKinds ==
  ASSUME StoreInv, WriteInv, NEW r \in Requests, NEW q \in Requests \ {r}, Stands(q), InFlight(q),
         db' = db \/ db' = View(r)
  PROVE  Kinds(q)'
  <1>1. Kinds(q) /\ ApartBy(w[q], w[r])
    BY DEF WriteInv, StoreInv, Apart
  <1>2. Shape(q, w[q])'
    BY <1>1 DEF Kinds, Shape, Stands, Tx, User, Group
  <1>3. \A x \in DOMAIN w[q] : x \in DOMAIN db => x \in DOMAIN db'
    BY <1>1 DEF ApartBy, View, Over
  <1> QED
    BY <1>1, <1>2, <1>3 DEF Kinds, Stands

LEMMA WriteKept ==
  ASSUME TypeInv, StoreInv, WriteInv, [Next]_vars
  PROVE  WriteInv'
  <1>1. ASSUME NEW r \in Requests, NEW c \in Menu, Receive(r, c)
        PROVE  WriteInv'
    <2>1. /\ pc[r] = "idle" /\ w' = w /\ db' = db
          /\ \A q \in Requests \ {r} : Stands(q)
      BY <1>1, ReceiveTypes
    <2>2. w'[r] = Nothing
      BY <2>1 DEF TypeInv, PlaceInv, InFlight
    <2>3. Kinds(r)'
      BY <2>2 DEF Kinds, Shape, Nothing
    <2>4. \A q \in Requests \ {r} : InFlight(q)' => InFlight(q)
      BY <2>1 DEF InFlight, Stands
    <2> QED
      BY <2>1, <2>3, <2>4, OthersKinds DEF WriteInv
  <1>2. ASSUME NEW r \in Requests, Handle(r)
        PROVE  WriteInv'
    <2>1. InFlight(r) /\ Kinds(r)
      BY <1>2, StepKinds DEF WriteInv
    <2>2. \A q \in Requests \ {r} : Stands(q)
      BY <1>2, HandleTypes DEF Kept
    <2>3. \A q \in Requests \ {r} : InFlight(q)' => InFlight(q)
      BY <2>2 DEF InFlight, Stands
    <2>4. ASSUME w'[r] = Nothing
          PROVE  Kinds(r)'
      BY <2>4 DEF Kinds, Shape, Nothing
    <2>5. CASE Silent(r)
      <3>1. Kinds(r)'
        BY <2>1, <2>5 DEF Silent, Kinds, Shape, Tx, User, Group
      <3> QED
        BY <2>2, <2>3, <2>5, <3>1, OthersKinds DEF Silent, WriteInv
    <2>6. CASE RolledBack(r)
      BY <2>2, <2>3, <2>4, <2>6, OthersKinds DEF RolledBack, WriteInv
    <2>7. CASE Commit(r)
      <3>1. db' = View(r) /\ w'[r] = Nothing
        BY <2>7 DEF Commit, EndsUnanswered, StoreInv, Writes
      <3> QED
        BY <2>2, <2>3, <2>4, <3>1, OthersKinds DEF WriteInv
    <2>8. ASSUME NEW writes, Wrote(r, writes)
          PROVE  WriteInv'
      <3>1. /\ w'[r] = Merge(w[r], writes) /\ UNCHANGED <<db, plan, call>>
            /\ Writing(r, writes)
        BY <2>8 DEF Wrote
      <3>2. /\ Shape(r, writes)
            /\ \A x \in DOMAIN writes : writes[x] = Gone => Sees(r, x)
        BY <2>1, <3>1, WritingShape
      <3>3. Shape(r, w'[r])
        BY <2>1, <3>1, <3>2, ShapeMerge DEF Kinds
      <3>4. Shape(r, w[r])'
        BY <3>1, <3>3 DEF Shape, Tx, User, Group
      <3>5. ASSUME NEW x \in DOMAIN w'[r], w'[r][x] = Gone
            PROVE  x \in DOMAIN db
        <4>1. CASE x \in DOMAIN writes
          <5>1. Sees(r, x) /\ writes[x] = Gone
            BY <3>1, <3>2, <3>5, <4>1 DEF Merge
          <5>2. Tx(r) \in Removing
            BY <2>1, <3>2, <4>1, <5>1, TxFacts DEF Shape
          <5>3. x \in DOMAIN w[r] => w[r][x] = Gone
            BY <2>1, <5>2 DEF Kinds, Shape
          <5> QED
            BY <5>1, <5>3 DEF Sees, View, Over
        <4>2. CASE x \notin DOMAIN writes
          BY <2>1, <3>1, <3>5, <4>2 DEF Kinds, Merge
        <4> QED
          BY <4>1, <4>2
      <3>6. Kinds(r)'
        BY <3>1, <3>4, <3>5 DEF Kinds
      <3> QED
        BY <2>2, <2>3, <3>1, <3>6, OthersKinds DEF WriteInv
    <2> QED
      BY <1>2, <2>5, <2>6, <2>7, <2>8, StepKinds
  <1>3. CASE Crash
    <2>1. \A r \in Requests : ~InFlight(r)'
      BY <1>3 DEF Crash, InFlight, Ended
    <2> QED
      BY <2>1 DEF WriteInv
  <1>4. CASE UNCHANGED vars
    BY <1>4 DEF vars, WriteInv, Kinds, Shape, InFlight, Tx, User, Group
  <1> QED
    BY <1>1, <1>2, <1>3, <1>4 DEF Next, Finished

LEMMA InitWrites == Init => WriteInv
  BY DEF Init, WriteInv, InFlight

LEMMA WritesAlways == Spec => []WriteInv
  BY InitWrites, WriteKept, TypesAlways, StoreInductive, PTL DEF Spec

-----------------------------------------------------------------------------
(* A group that nobody uses is deleted, but for races.  Who deletes a link  *)
(* of a group is alone in that, and when it commits the group goes or has   *)
(* another user, whose link nobody else deletes meanwhile.                  *)

Deletes(r, g) ==
  \E v \in Users : LinkedGroup(v, g) \in DOMAIN w[r] /\ w[r][LinkedGroup(v, g)] = Gone

HasUser(table, g) == \E v \in Users : LinkedGroup(v, g) \in DOMAIN table

OneDeletes ==
  \A g \in GroupIds \ raced, r, q \in Requests : Deletes(r, g) /\ Deletes(q, g) => r = q

EmptiedGoes ==
  \A g \in GroupIds \ raced, r \in Requests : Deletes(r, g) /\ pc[r] = "commit" =>
    \/ GroupRow(g) \in DOMAIN w[r] /\ w[r][GroupRow(g)] = Gone
    \/ HasUser(View(r), g)

NewIsUsed ==
  \A g \in GroupIds, r \in Requests :
    GroupRow(g) \in DOMAIN w[r] /\ w[r][GroupRow(g)] # Gone =>
      \/ GroupRow(g) \in DOMAIN db
      \/ \E v \in Users : LinkedGroup(v, g) \in DOMAIN w[r] /\ w[r][LinkedGroup(v, g)] # Gone

StrandInv == OneDeletes /\ EmptiedGoes /\ NewIsUsed /\ StrandedOnlyByRace

Known == TypeInv /\ StoreInv /\ WriteInv

\* A link that is seen points at its group, which is seen too.
LEMMA LinkedIsSeen ==
  ASSUME TypeInv, StoreInv, NEW r \in Requests, NEW v \in Users
  PROVE  /\ \A g \in GroupIds : Sees(r, LinkedGroup(v, g)) => Sees(r, GroupRow(g))
         /\ \A e \in EndpointIds : Sees(r, LinkedEndpoint(v, e)) => Sees(r, EndpointRow(e))
         /\ \A g \in GroupIds : Exists(LinkedGroup(v, g)) => Exists(GroupRow(g))
         /\ \A e \in EndpointIds : Exists(LinkedEndpoint(v, e)) => Exists(EndpointRow(e))
  <1>1. ASSUME NEW table, IsTable(table, {}), RefsHold(table)
        PROVE  /\ \A g \in GroupIds : LinkedGroup(v, g) \in DOMAIN table => GroupRow(g) \in DOMAIN table
               /\ \A e \in EndpointIds : LinkedEndpoint(v, e) \in DOMAIN table => EndpointRow(e) \in DOMAIN table
    <2>1. ASSUME NEW g \in GroupIds, LinkedGroup(v, g) \in DOMAIN table
          PROVE  GroupRow(g) \in DOMAIN table
      <3>1. table[LinkedGroup(v, g)] = GroupRow(g) /\ GroupRow(g) \in Keys
        BY <1>1, <2>1, TargetFacts DEF IsTable, Keys
      <3> QED
        BY <1>1, <2>1, <3>1 DEF RefsHold
    <2>2. ASSUME NEW e \in EndpointIds, LinkedEndpoint(v, e) \in DOMAIN table
          PROVE  EndpointRow(e) \in DOMAIN table
      <3>1. table[LinkedEndpoint(v, e)] = EndpointRow(e) /\ EndpointRow(e) \in Keys
        BY <1>1, <2>2, TargetFacts DEF IsTable, Keys
      <3> QED
        BY <1>1, <2>2, <3>1 DEF RefsHold
    <2> QED
      BY <2>1, <2>2
  <1>2. IsTable(View(r), {}) /\ RefsHold(View(r)) /\ IsTable(db, {}) /\ RefsHold(db)
    BY ViewIsTable DEF TypeInv, TypeOK, StoreInv, Consistent, ReferencesHold
  <1> QED
    BY <1>1, <1>2 DEF Sees, Exists

LEMMA DeleterFacts ==
  ASSUME Known, NEW r \in Requests, NEW g \in GroupIds, Deletes(r, g)
  PROVE  /\ InFlight(r) /\ Tx(r) = "delete_group" /\ g = Group(r)
         /\ User(r) \in Users /\ LinkedGroup(User(r), g) \in DOMAIN w[r]
         /\ w[r][LinkedGroup(User(r), g)] = Gone
         /\ Exists(GroupRow(g)) /\ pc[r] \notin Beginnings
  <1>1. PICK v \in Users : LinkedGroup(v, g) \in DOMAIN w[r] /\ w[r][LinkedGroup(v, g)] = Gone
    BY DEF Deletes
  <1>2. w[r] # Nothing
    BY <1>1 DEF Nothing
  <1>3. InFlight(r) /\ Kinds(r) /\ pc[r] \notin Beginnings
    BY <1>2 DEF Known, TypeInv, PlaceInv, WriteInv, Located
  <1>4. Tx(r) = "delete_group" /\ g = Group(r) /\ v = User(r) /\ Exists(LinkedGroup(v, g))
    BY <1>1, <1>3 DEF Kinds, Shape, Exists
  <1> QED
    BY <1>1, <1>3, <1>4, LinkedIsSeen DEF Known

LEMMA OnlyUnlinkDeletes ==
  ASSUME Known, NEW r \in Requests, InFlight(r), NEW writes, Writing(r, writes), NEW v, NEW g,
         LinkedGroup(v, g) \in DOMAIN writes, writes[LinkedGroup(v, g)] = Gone
  PROVE  Unlink(r)
  <1>0. Located(r) /\ pc[r] # "idle"
    BY TxFacts DEF InFlight, Known
  <1>1. ~(DropEndpoint(r) /\ writes = Deletion(r, Drops(r)))
    <2>1. LinkedGroup(v, g) \notin DOMAIN Deletion(r, Drops(r))
      BY DropsFacts DEF Deletion
    <2> QED
      BY <2>1
  <1>2. ~(DropGroups(r) /\ writes = Deletion(r, GroupsToDrop(r)))
    <2>1. LinkedGroup(v, g) \notin DOMAIN Deletion(r, GroupsToDrop(r))
      <3>1. \A u, h : LinkedGroup(u, h) \notin GroupsToDrop(r)
        BY <1>0, GroupsToDropFacts DEF Known
      <3> QED
        BY <3>1 DEF Deletion
    <2> QED
      BY <2>1
  <1>3. ~(PutGroup(r) /\ writes = WritesGroup(r))
    BY <1>0, WritesGroupFacts DEF Known
  <1>4. ~(PutEndpoint(r) /\ writes = PutsEndpoint(r))
    <2>1. PutEndpoint(r) => at[r] \in EndpointIds
      BY <1>0 DEF PutEndpoint, Located, EndpointIds
    <2> QED
      BY <1>0, <2>1, PutsEndpointFacts DEF Known
  <1>5. ~(CreateDefault(r) /\ writes = WritesDefault(r))
    BY <1>0, WritesDefaultFacts DEF Known
  <1> QED
    BY <1>1, <1>2, <1>3, <1>4, <1>5 DEF Writing

\* The other requests, whatever one of them does.
OthersStand(r) == \A q \in Requests \ {r} : Stands(q)

LEMMA OthersDelete ==
  ASSUME NEW r, NEW q \in Requests \ {r}, OthersStand(r), NEW g
  PROVE  Deletes(q, g)' <=> Deletes(q, g)
  BY DEF OthersStand, Stands, Deletes

\* A step of r by which r deletes no further link of a group.
LEMMA NoMoreDeletes ==
  ASSUME StrandInv, NEW r \in Requests, OthersStand(r), raced \subseteq raced',
         \A g \in GroupIds : Deletes(r, g)' => Deletes(r, g)
  PROVE  OneDeletes'
  <1>1. \A q \in Requests, g \in GroupIds : Deletes(q, g)' => Deletes(q, g)
    BY OthersDelete
  <1>2. ASSUME NEW g \in GroupIds, g \notin raced', NEW p \in Requests, NEW q \in Requests,
               Deletes(p, g)', Deletes(q, g)'
        PROVE  p = q
    BY <1>1, <1>2 DEF StrandInv, OneDeletes
  <1> QED
    BY <1>2 DEF OneDeletes

\* A step that commits nothing leaves the others and the tables as they are.
LEMMA StrandUncommitted ==
  ASSUME StrandInv, NEW r \in Requests, OthersStand(r), db' = db, raced \subseteq raced',
         OneDeletes',
         \A g \in GroupIds \ raced' : Deletes(r, g)' /\ pc'[r] = "commit" =>
           \/ GroupRow(g) \in DOMAIN w'[r] /\ w'[r][GroupRow(g)] = Gone
           \/ HasUser(View(r), g)',
         \A g \in GroupIds : GroupRow(g) \in DOMAIN w'[r] /\ w'[r][GroupRow(g)] # Gone =>
           \/ GroupRow(g) \in DOMAIN db
           \/ \E v \in Users : LinkedGroup(v, g) \in DOMAIN w'[r] /\ w'[r][LinkedGroup(v, g)] # Gone
  PROVE  StrandInv'
  <1>1. ASSUME NEW g \in GroupIds, g \notin raced', NEW q \in Requests, Deletes(q, g)', pc'[q] = "commit"
        PROVE  \/ GroupRow(g) \in DOMAIN w'[q] /\ w'[q][GroupRow(g)] = Gone
               \/ HasUser(View(q), g)'
    <2>1. CASE q = r
      BY <1>1, <2>1
    <2>2. CASE q # r
      <3>1. Stands(q) /\ Deletes(q, g)
        BY <1>1, <2>2, OthersDelete DEF OthersStand
      <3>2. \/ GroupRow(g) \in DOMAIN w[q] /\ w[q][GroupRow(g)] = Gone
            \/ HasUser(View(q), g)
        BY <1>1, <3>1 DEF Stands, StrandInv, EmptiedGoes
      <3> QED
        BY <3>1, <3>2 DEF Stands, HasUser, View
    <2> QED
      BY <2>1, <2>2
  <1>2. EmptiedGoes'
    BY <1>1 DEF EmptiedGoes
  <1>3. NewIsUsed'
    <2> SUFFICES ASSUME NEW g \in GroupIds, NEW q \in Requests,
                        GroupRow(g) \in DOMAIN w'[q] /\ w'[q][GroupRow(g)] # Gone
                 PROVE  \/ GroupRow(g) \in DOMAIN db
                        \/ \E v \in Users : LinkedGroup(v, g) \in DOMAIN w'[q] /\ w'[q][LinkedGroup(v, g)] # Gone
      BY DEF NewIsUsed
    <2>1. CASE q = r
      BY <2>1
    <2>2. CASE q # r
      <3>1. w'[q] = w[q]
        BY <2>2 DEF OthersStand, Stands
      <3> QED
        BY <3>1 DEF StrandInv, NewIsUsed
    <2> QED
      BY <2>1, <2>2
  <1>4. StrandedOnlyByRace'
    BY DEF StrandInv, StrandedOnlyByRace, Exists
  <1> QED
    BY <1>2, <1>3, <1>4 DEF StrandInv

\* A reading statement that ends in a commit has found the group used.
LEMMA ReadsToCommit ==
  ASSUME Known, NEW r \in Requests, Reading(r), pc[r] \notin Beginnings, pc'[r] = "commit"
  PROVE  \E v \in Users : Sees(r, LinkedGroup(v, Group(r)))
  <1>0. TypeInv
    BY DEF Known
  <1>1. ~ListEndpoints(r) /\ ~AccessFound(r) /\ ~FindGroup(r) /\ ~ReadGroups(r)
    BY DEF ListEndpoints, AccessFound, FindGroup, ReadGroups, Beginnings
  <1>2. ASSUME NEW e \in todo[r]
        PROVE  ~PurgeEndpoint(r, e) /\ ~LookUp(r, e)
    BY <1>0, GotoFacts DEF PurgeEndpoint, LookUp
  <1>3. GroupUsed(r)
    BY <1>1, <1>2 DEF Reading
  <1>4. Goto(r, IF UsersOfGroup(r, Group(r)) # {} THEN "commit" ELSE "purge")
    BY <1>3 DEF GroupUsed
  <1>5. UsersOfGroup(r, Group(r)) # {}
    BY <1>0, <1>4, GotoFacts
  <1> QED
    BY <1>5 DEF UsersOfGroup

LEMMA StrandSilent ==
  ASSUME Known, StrandInv, NEW r \in Requests, OthersStand(r), Silent(r)
  PROVE  StrandInv'
  <1>1. UNCHANGED <<db, w, call, raced>>
    BY DEF Silent
  <1>2. \A g : Deletes(r, g)' <=> Deletes(r, g)
    BY <1>1 DEF Deletes
  <1>3. OneDeletes'
    BY <1>1, <1>2, NoMoreDeletes
  <1>4. ASSUME NEW g \in GroupIds, Deletes(r, g), pc'[r] = "commit"
        PROVE  HasUser(View(r), g)'
    <2>1. g = Group(r) /\ pc[r] \notin Beginnings
      BY <1>4, DeleterFacts
    <2>2. HasUser(View(r), g)
      BY <1>4, <2>1, ReadsToCommit DEF Silent, HasUser, Sees
    <2> QED
      BY <1>1, <2>2 DEF HasUser, View
  <1>5. \A g \in GroupIds : GroupRow(g) \in DOMAIN w'[r] /\ w'[r][GroupRow(g)] # Gone =>
           \/ GroupRow(g) \in DOMAIN db
           \/ \E v \in Users : LinkedGroup(v, g) \in DOMAIN w'[r] /\ w'[r][LinkedGroup(v, g)] # Gone
    BY <1>1 DEF StrandInv, NewIsUsed
  <1> QED
    BY <1>1, <1>2, <1>3, <1>4, <1>5, StrandUncommitted

LEMMA StrandRolledBack ==
  ASSUME StrandInv, NEW r \in Requests, OthersStand(r), w'[r] = Nothing, UNCHANGED <<db, raced>>
  PROVE  StrandInv'
  <1>1. \A g : ~Deletes(r, g)'
    BY DEF Deletes, Nothing
  <1>2. OneDeletes'
    BY <1>1, NoMoreDeletes
  <1>3. \A g \in GroupIds : GroupRow(g) \notin DOMAIN w'[r]
    BY DEF Nothing
  <1> QED
    BY <1>1, <1>2, <1>3, StrandUncommitted

LEMMA RacedGrows ==
  ASSUME Known, NEW r \in Requests, NEW writes, Wrote(r, writes)
  PROVE  /\ raced \subseteq raced' /\ raced' \subseteq raced \cup {Group(r)}
         /\ Unlink(r) => \A q \in Requests \ {r} : \A g \in GroupIds :
                           Tx(r) = "delete_group" /\ g = Group(r) /\ Deletes(q, g) => g \in raced'
  <1>1. CASE Unlink(r)
    BY <1>1 DEF Unlink, Deletes
  <1>2. CASE ~Unlink(r)
    BY <1>2 DEF Wrote, Writing, DropEndpoint, DropGroups, PutGroup, PutEndpoint, CreateDefault, history
  <1> QED
    BY <1>1, <1>2

LEMMA StrandWrote ==
  ASSUME Known, StoreInv', StrandInv, NEW r \in Requests, OthersStand(r), NEW writes, Wrote(r, writes)
  PROVE  StrandInv'
  <1>0. /\ InFlight(r) /\ Writing(r, writes) /\ w'[r] = Merge(w[r], writes)
        /\ UNCHANGED <<db, plan, call>> /\ Located(r) /\ Kinds(r) /\ pc[r] # "idle"
        /\ Tx(r) \in Removing \cup Adding /\ Group(r) \in GroupIds /\ User(r) \in Users
    <2>1. InFlight(r) /\ pc[r] # "idle"
      BY DEF Wrote, InFlight
    <2> QED
      BY <2>1, TxFacts, CallFacts DEF Wrote, WriteInv, Known
  <1>1. Shape(r, writes) /\ \A x \in DOMAIN writes : writes[x] = Gone => Sees(r, x)
    BY <1>0, WritingShape DEF Known
  <1>2. raced \subseteq raced'
    BY RacedGrows
  <1>3. ASSUME NEW g \in GroupIds, Deletes(r, g)', ~Deletes(r, g)
        PROVE  Unlink(r) /\ g = Group(r) /\ Tx(r) = "delete_group"
    <2>1. PICK v \in Users : LinkedGroup(v, g) \in DOMAIN w'[r] /\ w'[r][LinkedGroup(v, g)] = Gone
      BY <1>3 DEF Deletes
    <2>2. LinkedGroup(v, g) \in DOMAIN writes /\ writes[LinkedGroup(v, g)] = Gone
      BY <1>0, <1>3, <2>1 DEF Deletes, Merge
    <2> QED
      BY <1>0, <1>1, <2>2, OnlyUnlinkDeletes DEF Shape
  <1>4. OneDeletes'
    <2> SUFFICES ASSUME NEW g \in GroupIds, g \notin raced', NEW p \in Requests, NEW q \in Requests,
                        Deletes(p, g)', Deletes(q, g)'
                 PROVE  p = q
      BY DEF OneDeletes
    <2>1. ASSUME NEW o \in Requests, Deletes(o, g)', Deletes(r, g)'
          PROVE  o = r
      <3>1. SUFFICES ASSUME o # r PROVE FALSE
        OBVIOUS
      <3>2. Deletes(o, g) /\ g \notin raced
        BY <1>2, <2>1, <3>1, OthersDelete
      <3>3. ~Deletes(r, g)
        BY <3>1, <3>2 DEF StrandInv, OneDeletes
      <3> QED
        BY <1>3, <2>1, <3>1, <3>2, <3>3, RacedGrows
    <2>2. CASE p = r \/ q = r
      BY <2>1, <2>2
    <2>3. CASE p # r /\ q # r
      BY <1>2, <2>3, OthersDelete DEF StrandInv, OneDeletes
    <2> QED
      BY <2>2, <2>3
  <1>5. ASSUME NEW g \in GroupIds, g \notin raced', Deletes(r, g)', pc'[r] = "commit"
        PROVE  GroupRow(g) \in DOMAIN w'[r] /\ w'[r][GroupRow(g)] = Gone
    <2>1. ~Unlink(r)
      BY <1>5, GotoFacts DEF Unlink, Known
    <2>2. Deletes(r, g)
      BY <1>3, <1>5, <2>1
    <2>3. Tx(r) = "delete_group" /\ g = Group(r) /\ Exists(GroupRow(g)) /\ pc[r] \notin Beginnings
      BY <2>2, DeleterFacts
    <2>4. ~DropEndpoint(r)
      BY <1>5, GotoFacts DEF DropEndpoint, Known
    <2>5. Tx(r) \notin Adding
      BY <2>3 DEF Adding
    <2>6. DropGroups(r) /\ writes = Deletion(r, GroupsToDrop(r))
      BY <1>0, <2>1, <2>3, <2>4, <2>5 DEF Writing, PutGroup, PutEndpoint, CreateDefault, Located, Beginnings
    <2>7. GroupsToDrop(r) = {GroupRow(g)}
      BY <2>3 DEF GroupsToDrop
    <2>8. Sees(r, GroupRow(g)) => GroupRow(g) \in DOMAIN writes /\ writes[GroupRow(g)] = Gone
      BY <2>6, <2>7 DEF Deletion
    <2>9. ~Sees(r, GroupRow(g)) => GroupRow(g) \in DOMAIN w[r] /\ w[r][GroupRow(g)] = Gone
      BY <2>3 DEF Sees, View, Over, Exists
    <2>10. GroupRow(g) \in DOMAIN writes => writes[GroupRow(g)] = Gone
      BY <2>6 DEF Deletion
    <2> QED
      BY <1>0, <2>8, <2>9, <2>10 DEF Merge
  <1>6. ASSUME NEW g \in GroupIds, GroupRow(g) \in DOMAIN w'[r], w'[r][GroupRow(g)] # Gone,
               GroupRow(g) \notin DOMAIN db
        PROVE  \E v \in Users : LinkedGroup(v, g) \in DOMAIN w'[r] /\ w'[r][LinkedGroup(v, g)] # Gone
    <2>1. Tx(r) \in Adding /\ \A x \in DOMAIN writes : writes[x] # Gone
      BY <1>0, <1>1, <1>6 DEF Kinds, Shape, Merge
    <2>2. CASE GroupRow(g) \in DOMAIN w[r] /\ w[r][GroupRow(g)] # Gone
      <3>1. PICK v \in Users : LinkedGroup(v, g) \in DOMAIN w[r] /\ w[r][LinkedGroup(v, g)] # Gone
        BY <1>6, <2>2 DEF StrandInv, NewIsUsed
      <3> QED
        BY <1>0, <2>1, <3>1 DEF Merge
    <2>3. CASE ~(GroupRow(g) \in DOMAIN w[r] /\ w[r][GroupRow(g)] # Gone)
      <3>1. GroupRow(g) \in DOMAIN writes /\ ~Sees(r, GroupRow(g))
        BY <1>0, <1>6, <2>3 DEF Merge, Sees, View, Over
      <3>2. \A v \in Users : ~Sees(r, LinkedGroup(v, g))
        BY <3>1, LinkedIsSeen DEF Known
      <3>3. ASSUME NEW v \in Users, LinkedGroup(v, g) \in DOMAIN writes
            PROVE  LinkedGroup(v, g) \in DOMAIN w'[r] /\ w'[r][LinkedGroup(v, g)] # Gone
        BY <1>0, <2>1, <3>3 DEF Merge
      <3>4. CASE PutGroup(r) /\ writes = WritesGroup(r)
        <4>1. g = Group(r)
          BY <1>0, <3>1, <3>4, WritesGroupFacts, RowFacts DEF Known
        <4>2. LinkedGroup(User(r), g) \in DOMAIN writes
          BY <1>0, <3>2, <3>4, <4>1, WritesGroupFacts DEF Known
        <4> QED
          BY <1>0, <3>3, <4>2
      <3>5. CASE PutEndpoint(r) /\ writes = PutsEndpoint(r)
        <4>1. at[r] \in EndpointIds
          BY <1>0, <3>5 DEF PutEndpoint, Located, EndpointIds
        <4> QED
          BY <1>0, <3>1, <3>5, <4>1, PutsEndpointFacts, RowFacts DEF Known
      <3>6. CASE CreateDefault(r) /\ writes = WritesDefault(r)
        <4>1. DOMAIN writes = {GroupRow(r), EndpointRow(r), LinkedGroup(User(r), r), LinkedEndpoint(User(r), r)}
          BY <1>0, <3>6, WritesDefaultFacts DEF Known
        <4>2. g = r
          BY <3>1, <4>1, RowFacts
        <4> QED
          BY <1>0, <3>3, <4>1, <4>2
      <3>7. ~Unlink(r) /\ ~DropEndpoint(r) /\ ~DropGroups(r)
        BY <1>0, <2>1 DEF Unlink, DropEndpoint, DropGroups, Located, Removing, Adding
      <3> QED
        BY <1>0, <3>4, <3>5, <3>6, <3>7 DEF Writing
    <2> QED
      BY <2>2, <2>3
  <1> QED
    BY <1>0, <1>2, <1>4, <1>5, <1>6, StrandUncommitted

LEMMA StrandCommit ==
  ASSUME Known, StrandInv, NEW r \in Requests, OthersStand(r), Commit(r)
  PROVE  StrandInv'
  <1>1. /\ db' = View(r) /\ w'[r] = Nothing /\ raced' = raced /\ pc[r] = "commit"
    BY DEF Commit, EndsUnanswered, Known, StoreInv, Writes, history
  <1>2. \A g : ~Deletes(r, g)'
    BY <1>1 DEF Deletes, Nothing
  <1>3. OneDeletes'
    BY <1>1, <1>2, NoMoreDeletes
  <1>4. \A q \in Requests \ {r} : w'[q] = w[q] /\ pc'[q] = pc[q] /\ ApartBy(w[q], w[r])
    BY DEF OthersStand, Stands, Known, StoreInv, Apart
  <1>5. ASSUME NEW g \in GroupIds, g \notin raced', NEW q \in Requests, Deletes(q, g)', pc'[q] = "commit"
        PROVE  \/ GroupRow(g) \in DOMAIN w'[q] /\ w'[q][GroupRow(g)] = Gone
               \/ HasUser(View(q), g)'
    <2>1. q # r /\ Deletes(q, g) /\ pc[q] = "commit"
      BY <1>2, <1>4, <1>5, OthersDelete
    <2>2. ~Deletes(r, g)
      BY <1>1, <1>5, <2>1 DEF StrandInv, OneDeletes
    <2>3. CASE GroupRow(g) \in DOMAIN w[q] /\ w[q][GroupRow(g)] = Gone
      BY <1>4, <2>1, <2>3
    <2>4. ASSUME NEW v \in Users, Sees(q, LinkedGroup(v, g))
          PROVE  Sees(q, LinkedGroup(v, g))'
      <3>1. LinkedGroup(v, g) \in DOMAIN w[r] => w[r][LinkedGroup(v, g)] # Gone
        BY <2>2 DEF Deletes
      <3> QED
        BY <1>1, <1>4, <2>1, <2>4, <3>1, SeesCommitted
    <2>5. CASE HasUser(View(q), g)
      BY <2>4, <2>5 DEF HasUser, Sees
    <2> QED
      BY <1>1, <1>5, <2>1, <2>3, <2>5 DEF StrandInv, EmptiedGoes
  <1>6. ASSUME NEW g \in GroupIds, NEW q \in Requests, GroupRow(g) \in DOMAIN w'[q], w'[q][GroupRow(g)] # Gone
        PROVE  \/ GroupRow(g) \in DOMAIN db'
               \/ \E v \in Users : LinkedGroup(v, g) \in DOMAIN w'[q] /\ w'[q][LinkedGroup(v, g)] # Gone
    <2>1. q # r
      BY <1>1, <1>6 DEF Nothing
    <2>2. GroupRow(g) \notin DOMAIN w[r]
      BY <1>4, <1>6, <2>1 DEF ApartBy
    <2>3. GroupRow(g) \in DOMAIN db => GroupRow(g) \in DOMAIN db'
      BY <1>1, <2>2 DEF View, Over
    <2> QED
      BY <1>4, <1>6, <2>1, <2>3 DEF StrandInv, NewIsUsed
  <1>7. ASSUME NEW g \in GroupIds, GroupRow(g) \in DOMAIN db', g \notin raced'
        PROVE  HasUser(db', g)
    <2>1. CASE Deletes(r, g)
      <3>1. ~(GroupRow(g) \in DOMAIN w[r] /\ w[r][GroupRow(g)] = Gone)
        BY <1>1, <1>7 DEF View, Over
      <3> QED
        BY <1>1, <1>7, <2>1, <3>1 DEF StrandInv, EmptiedGoes
    <2>2. CASE ~Deletes(r, g) /\ GroupRow(g) \in DOMAIN db
      <3>1. PICK v \in Users : LinkedGroup(v, g) \in DOMAIN db
        BY <1>1, <1>7, <2>2 DEF StrandInv, StrandedOnlyByRace, Exists
      <3>2. LinkedGroup(v, g) \in DOMAIN w[r] => w[r][LinkedGroup(v, g)] # Gone
        BY <2>2 DEF Deletes
      <3>3. LinkedGroup(v, g) \in DOMAIN db'
        BY <1>1, <3>1, <3>2 DEF View, Over
      <3> QED
        BY <3>3 DEF HasUser
    <2>3. CASE GroupRow(g) \notin DOMAIN db
      <3>1. GroupRow(g) \in DOMAIN w[r] /\ w[r][GroupRow(g)] # Gone
        BY <1>1, <1>7, <2>3 DEF View, Over
      <3>2. PICK v \in Users : LinkedGroup(v, g) \in DOMAIN w[r] /\ w[r][LinkedGroup(v, g)] # Gone
        BY <2>3, <3>1 DEF StrandInv, NewIsUsed
      <3>3. LinkedGroup(v, g) \in DOMAIN db'
        BY <1>1, <3>2 DEF View, Over
      <3> QED
        BY <3>3 DEF HasUser
    <2> QED
      BY <2>1, <2>2, <2>3
  <1>8. EmptiedGoes'
    BY <1>5 DEF EmptiedGoes
  <1>9. NewIsUsed'
    BY <1>6 DEF NewIsUsed
  <1>10. StrandedOnlyByRace'
    BY <1>7 DEF StrandedOnlyByRace, HasUser, Exists
  <1> QED
    BY <1>3, <1>8, <1>9, <1>10 DEF StrandInv

LEMMA StrandKept ==
  ASSUME Known, Known', StrandInv, [Next]_vars
  PROVE  StrandInv'
  <1>1. ASSUME NEW r \in Requests, NEW c \in Menu, Receive(r, c)
        PROVE  StrandInv'
    <2>1. OthersStand(r) /\ w'[r] = Nothing /\ UNCHANGED <<db, raced>>
      BY <1>1, ReceiveTypes DEF Known, TypeInv, PlaceInv, InFlight, OthersStand
    <2> QED
      BY <2>1, StrandRolledBack
  <1>2. ASSUME NEW r \in Requests, Handle(r)
        PROVE  StrandInv'
    <2>1. OthersStand(r)
      BY <1>2, HandleTypes DEF Kept, Known, OthersStand
    <2>2. CASE Silent(r)
      BY <2>1, <2>2, StrandSilent
    <2>3. CASE RolledBack(r)
      BY <2>1, <2>3, StrandRolledBack DEF RolledBack
    <2>4. CASE Commit(r)
      BY <2>1, <2>4, StrandCommit
    <2>5. ASSUME NEW writes, Wrote(r, writes)
          PROVE  StrandInv'
      BY <2>1, <2>5, StrandWrote DEF Known
    <2> QED
      BY <1>2, <2>2, <2>3, <2>4, <2>5, StepKinds DEF Known
  <1>3. CASE Crash
    <2>1. UNCHANGED <<db, raced>> /\ \A r \in Requests : w'[r] = Nothing
      BY <1>3 DEF Crash, history
    <2>2. \A r \in Requests : \A g : ~Deletes(r, g)'
      BY <2>1 DEF Deletes, Nothing
    <2>3. NewIsUsed'
      BY <2>1 DEF NewIsUsed, Nothing
    <2>4. StrandedOnlyByRace'
      BY <2>1 DEF StrandInv, StrandedOnlyByRace, Exists
    <2> QED
      BY <2>2, <2>3, <2>4 DEF StrandInv, OneDeletes, EmptiedGoes
  <1>4. CASE UNCHANGED vars
    BY <1>4 DEF vars, StrandInv, OneDeletes, EmptiedGoes, NewIsUsed, StrandedOnlyByRace, Deletes, HasUser,
                View, Exists
  <1> QED
    BY <1>1, <1>2, <1>3, <1>4 DEF Next, Finished

LEMMA InitStrand == Init => StrandInv
  <1> SUFFICES ASSUME Init PROVE StrandInv
    OBVIOUS
  <1>1. \A r \in Requests : w[r] = Nothing
    BY DEF Init
  <1>2. \A r \in Requests : \A g : ~Deletes(r, g)
    BY <1>1 DEF Deletes, Nothing
  <1>3. NewIsUsed
    BY <1>1 DEF NewIsUsed, Nothing
  <1>4. StrandedOnlyByRace
    BY StoreAssumption DEF Init, AllUsed, StrandedOnlyByRace, Exists
  <1> QED
    BY <1>2, <1>3, <1>4 DEF StrandInv, OneDeletes, EmptiedGoes

LEMMA KnownAlways == Spec => []Known
  <1>1. TypeInv /\ StoreInv /\ WriteInv => Known
    BY DEF Known
  <1> QED
    BY <1>1, TypesAlways, WritesAlways, StoreInductive, PTL

\* Every variable of the store keeps a value of its kind.
THEOREM StoreTypes == Spec => []TypeOK
  <1>1. TypeInv => TypeOK
    BY DEF TypeInv
  <1> QED
    BY <1>1, TypesAlways, PTL

\* A group that has lost its last user has been deleted, in whatever order
\* removals and additions of any number of users overlap, unless two deletions
\* of that group did (delete_user_api_group looks for other users' links and
\* counts one that another transaction has deleted and not yet committed).
THEOREM StrandsOnlyByRace == Spec => []StrandedOnlyByRace
  <1>1. StrandInv => StrandedOnlyByRace
    BY DEF StrandInv
  <1> QED
    BY <1>1, InitStrand, StrandKept, KnownAlways, PTL DEF Spec

-----------------------------------------------------------------------------
(* Whose calls take an endpoint from a user: an addition moves the endpoints  *)
(* it names to its group; the one it makes is new until it is committed.      *)

Moves(r, writes) ==
  \A e \in EndpointIds : EndpointRow(e) \in DOMAIN writes /\ writes[EndpointRow(e)] # Gone =>
    \/ e \in Endpoints /\ writes[EndpointRow(e)] = GroupRow(Group(r))
    \/ e = r /\ Tx(r) = "get_groups"

Fresh == \A r \in Requests : InFlight(r) \/ pc[r] = "idle" => EndpointRow(r) \notin DOMAIN db

MoveInv == Fresh /\ \A r \in Requests : InFlight(r) => Moves(r, w[r])

LEMMA WritingMoves ==
  ASSUME Known, NEW r \in Requests, InFlight(r), NEW writes, Writing(r, writes)
  PROVE  Moves(r, writes)
  <1>0. TypeInv /\ Located(r) /\ pc[r] # "idle" /\ Shape(r, writes)
    BY TxFacts, WritingShape DEF InFlight, Known
  <1>1. CASE Unlink(r) \/ DropEndpoint(r) \/ DropGroups(r)
    <2>1. Tx(r) \in Removing
      BY <1>0, <1>1 DEF Unlink, DropEndpoint, DropGroups, Located
    <2> QED
      BY <1>0, <2>1 DEF Shape, Moves
  <1>2. CASE PutGroup(r) /\ writes = WritesGroup(r)
    <2>1. DOMAIN writes \subseteq {GroupRow(Group(r)), LinkedGroup(User(r), Group(r))}
      BY <1>0, <1>2, WritesGroupFacts
    <2>2. \A e : EndpointRow(e) \notin DOMAIN writes
      BY <2>1, RowFacts
    <2> QED
      BY <2>2 DEF Moves
  <1>3. CASE PutEndpoint(r) /\ writes = PutsEndpoint(r)
    <2>1. PICK f \in Endpoints : f = at[r]
      BY <1>0, <1>3 DEF PutEndpoint, Located
    <2>2. /\ DOMAIN writes \subseteq {EndpointRow(f), ParamsRow(f), LinkedEndpoint(User(r), f)}
          /\ EndpointRow(f) \in DOMAIN writes => writes[EndpointRow(f)] = GroupRow(Group(r))
      BY <1>0, <1>3, <2>1, PutsEndpointFacts DEF EndpointIds
    <2>3. \A e : EndpointRow(e) \in DOMAIN writes => e = f
      BY <2>2, RowFacts
    <2> QED
      BY <2>1, <2>2, <2>3 DEF Moves
  <1>4. CASE CreateDefault(r) /\ writes = WritesDefault(r)
    <2>1. DOMAIN writes = {GroupRow(r), EndpointRow(r), LinkedGroup(User(r), r), LinkedEndpoint(User(r), r)}
      BY <1>0, <1>4, WritesDefaultFacts
    <2>2. \A e : EndpointRow(e) \in DOMAIN writes => e = r
      BY <2>1, RowFacts
    <2>3. Tx(r) = "get_groups"
      BY <1>0, <1>4 DEF CreateDefault, Located
    <2> QED
      BY <2>2, <2>3 DEF Moves
  <1> QED
    BY <1>1, <1>2, <1>3, <1>4 DEF Writing

\* A commit ends the transaction; that of a made group ends the request.
LEMMA CommitEnds ==
  ASSUME Known, NEW r \in Requests, Commit(r)
  PROVE  /\ InFlight(r) /\ pc[r] = "commit" /\ pc'[r] # "commit"
         /\ db' = View(r) /\ w'[r] = Nothing /\ call' = call
         /\ Tx(r) = "get_groups" => pc'[r] = "ok"
         /\ IF Tail(plan[r]) = <<>> THEN pc'[r] = "ok" ELSE pc'[r] \in Beginnings
  <1>1. /\ pc[r] = "commit" /\ Begin(r, Tail(plan[r]), "ok", call[r].endpoints)
        /\ db' = View(r) /\ w'[r] = Nothing /\ call' = call
    BY DEF Commit, EndsUnanswered, Known, StoreInv, Writes
  <1>2. InFlight(r)
    BY <1>1 DEF InFlight, Ended
  <1>3. Tail(plan[r]) \in Plans /\ call[r].endpoints \in SUBSET Endpoints /\ plan[r] \in Plans \ {<<>>}
    BY <1>2, TxFacts, CallFacts DEF InFlight, Known
  <1>4. PICK txs \in Plans : txs = Tail(plan[r])
    BY <1>3
  <1>5. /\ txs = <<>> => pc'[r] = "ok"
        /\ txs # <<>> => pc'[r] = FirstStep(Head(txs)) /\ Head(txs) \in Removing \cup Adding
    BY <1>1, <1>3, <1>4, BeginFacts DEF Known
  <1>6. txs # <<>> => pc'[r] \in Beginnings
    BY <1>5 DEF FirstStep, Removing, Adding, Beginnings
  <1>7. ASSUME Tx(r) = "get_groups"
        PROVE  txs = <<>>
    <2>1. PICK p \in Plans \ {<<>>} : p = plan[r]
      BY <1>3
    <2>2. Head(p) = "get_groups"
      BY <1>7, <2>1 DEF Tx
    <2>3. p \notin {<<"delete_group", "add_group">>, <<"force_clean", "import">>, <<"fallback_clean", "import">>}
      BY <2>2, TwoLeft
    <2>4. \E tx \in Removing \cup Adding : p = <<tx>>
      BY <2>1, <2>3 DEF Plans, Removing, Adding
    <2> QED
      BY <1>4, <2>1, <2>4, OneLeft
  <1> QED
    BY <1>1, <1>2, <1>4, <1>5, <1>6, <1>7 DEF Beginnings

\* Requests that have ended stay so, and those that have not are new.
LEMMA NotEnded ==
  ASSUME Known, NEW r \in Requests, NEW q \in Requests, OthersStand(r), InFlight(r) \/ pc[r] = "idle"
  PROVE  InFlight(q)' \/ pc'[q] = "idle" => InFlight(q) \/ pc[q] = "idle"
  BY DEF OthersStand, Stands, InFlight

LEMMA MoveStep ==
  ASSUME Known, MoveInv, NEW r \in Requests, OthersStand(r), InFlight(r) \/ pc[r] = "idle",
         db' = db, InFlight(r)' => Moves(r, w[r])'
  PROVE  MoveInv'
  <1>1. Fresh'
    BY NotEnded DEF MoveInv, Fresh
  <1>2. ASSUME NEW q \in Requests \ {r}, InFlight(q)'
        PROVE  Moves(q, w[q])'
    <2>1. Stands(q) /\ InFlight(q) /\ Moves(q, w[q])
      BY <1>2 DEF OthersStand, Stands, InFlight, MoveInv
    <2> QED
      BY <2>1 DEF Stands, Moves, Tx, Group
  <1> QED
    BY <1>1, <1>2 DEF MoveInv

LEMMA MoveCommit ==
  ASSUME Known, MoveInv, NEW r \in Requests, OthersStand(r), Commit(r)
  PROVE  MoveInv'
  <1>0. InFlight(r) /\ Moves(r, w[r]) /\ db' = View(r) /\ w'[r] = Nothing
        /\ (Tx(r) = "get_groups" => pc'[r] = "ok")
    BY CommitEnds DEF MoveInv
  <1>1. ASSUME NEW q \in Requests, InFlight(q)' \/ pc'[q] = "idle", EndpointRow(q) \in DOMAIN db'
        PROVE  FALSE
    <2>1. EndpointRow(q) \notin DOMAIN db /\ q \in EndpointIds
      BY <1>0, <1>1, NotEnded DEF MoveInv, Fresh, EndpointIds
    <2>2. EndpointRow(q) \in DOMAIN w[r] /\ w[r][EndpointRow(q)] # Gone
      BY <1>0, <1>1, <2>1 DEF View, Over
    <2>3. q = r /\ Tx(r) = "get_groups"
      BY <1>0, <2>1, <2>2, StoreAssumption DEF Moves
    <2> QED
      BY <1>0, <1>1, <2>3 DEF InFlight, Ended
  <1>2. ASSUME NEW q \in Requests \ {r}, InFlight(q)'
        PROVE  Moves(q, w[q])'
    <2>1. Stands(q) /\ InFlight(q) /\ Moves(q, w[q])
      BY <1>2 DEF OthersStand, Stands, InFlight, MoveInv
    <2> QED
      BY <2>1 DEF Stands, Moves, Tx, Group
  <1>3. Moves(r, w[r])'
    BY <1>0 DEF Moves, Nothing
  <1> QED
    BY <1>1, <1>2, <1>3 DEF MoveInv, Fresh

LEMMA MoveKept ==
  ASSUME Known, MoveInv, [Next]_vars
  PROVE  MoveInv'
  <1>0. TypeInv /\ StoreInv
    BY DEF Known
  <1>1. ASSUME NEW r \in Requests, NEW c \in Menu, Receive(r, c)
        PROVE  MoveInv'
    <2>1. OthersStand(r) /\ pc[r] = "idle" /\ w'[r] = Nothing /\ UNCHANGED <<db, raced>>
      BY <1>1, ReceiveTypes DEF Known, TypeInv, PlaceInv, InFlight, OthersStand
    <2>2. Moves(r, w[r])'
      BY <2>1 DEF Moves, Nothing
    <2> QED
      BY <2>1, <2>2, MoveStep
  <1>2. ASSUME NEW r \in Requests, Handle(r)
        PROVE  MoveInv'
    <2>1. OthersStand(r) /\ InFlight(r) /\ Moves(r, w[r])
      BY <1>0, <1>2, HandleTypes, StepKinds DEF Kept, OthersStand, MoveInv
    <2>2. CASE Silent(r)
      <3>1. Moves(r, w[r])'
        BY <2>1, <2>2 DEF Silent, Moves, Tx, Group
      <3> QED
        BY <2>1, <2>2, <3>1, MoveStep DEF Silent
    <2>3. CASE RolledBack(r)
      <3>1. Moves(r, w[r])'
        BY <2>3 DEF RolledBack, Moves, Nothing
      <3> QED
        BY <2>1, <2>3, <3>1, MoveStep DEF RolledBack
    <2>4. CASE Commit(r)
      BY <2>1, <2>4, MoveCommit
    <2>5. ASSUME NEW writes, Wrote(r, writes)
          PROVE  MoveInv'
      <3>1. Moves(r, writes) /\ w'[r] = Merge(w[r], writes) /\ UNCHANGED <<db, plan, call>>
        BY <2>1, <2>5, WritingMoves DEF Wrote
      <3>2. Moves(r, Merge(w[r], writes))
        BY <2>1, <3>1 DEF Moves, Merge
      <3>3. Moves(r, w[r])'
        BY <3>1, <3>2 DEF Moves, Tx, Group
      <3> QED
        BY <2>1, <3>1, <3>3, MoveStep
    <2> QED
      BY <1>0, <1>2, <2>2, <2>3, <2>4, <2>5, StepKinds
  <1>3. CASE Crash
    <2>1. db' = db /\ \A r \in Requests : ~InFlight(r)' /\ (pc'[r] = "idle" => pc[r] = "idle")
      BY <1>3 DEF Crash, InFlight, Ended
    <2> QED
      BY <2>1 DEF MoveInv, Fresh
  <1>4. CASE UNCHANGED vars
    BY <1>4 DEF vars, MoveInv, Fresh, Moves, InFlight, Tx, Group
  <1> QED
    BY <1>1, <1>2, <1>3, <1>4 DEF Next, Finished

LEMMA InitMoves == Init => MoveInv
  <1> SUFFICES ASSUME Init PROVE MoveInv
    OBVIOUS
  <1>1. Fresh
    BY StoreAssumption DEF Init, Fresh
  <1> QED
    BY <1>1 DEF Init, MoveInv, InFlight

\* Only a commit changes the tables.
LEMMA OnlyCommits ==
  ASSUME Known, [Next]_vars
  PROVE  db' = db \/ \E r \in Requests : Commit(r)
  <1>1. CASE \E r \in Requests, c \in Menu : Receive(r, c)
    BY <1>1, ReceiveTypes DEF Known
  <1>2. CASE \E r \in Requests : Handle(r)
    BY <1>2, StepKinds DEF Known, Silent, RolledBack, Wrote
  <1> QED
    BY <1>1, <1>2 DEF Next, Crash, Finished, vars

LEMMA LosesOnlySo ==
  ASSUME Known, MoveInv, [Next]_vars, NEW u \in Users, NEW e \in EndpointIds, Listed(u, e), ~Listed(u, e)'
  PROVE  \E r \in Requests : LostTo(r, u, e)
  <1>1. PICK r \in Requests : Commit(r)
    BY OnlyCommits DEF Listed, Exists
  <1>2. /\ InFlight(r) /\ pc[r] = "commit" /\ pc'[r] # "commit" /\ db' = View(r)
        /\ Kinds(r) /\ Moves(r, w[r]) /\ EndpointRow(r) \notin DOMAIN db
    BY <1>1, CommitEnds DEF MoveInv, Fresh, Known, WriteInv
  <1>3. SUFFICES ASSUME User(r) # u
                 PROVE  EndpointRow(e) \in DOMAIN w[r] /\ w[r][EndpointRow(e)] = GroupRow(Group(r))
    BY <1>2 DEF LostTo
  <1>4. PICK g \in GroupIds : db[EndpointRow(e)] = GroupRow(g) /\ Exists(LinkedGroup(u, g))
    BY DEF Listed
  <1>5. LinkedGroup(u, g) \notin DOMAIN w[r] /\ LinkedEndpoint(u, e) \notin DOMAIN w[r]
    BY <1>2, <1>3 DEF Kinds, Shape
  <1>6. LinkedGroup(u, g) \in DOMAIN db' /\ LinkedEndpoint(u, e) \in DOMAIN db'
    BY <1>2, <1>4, <1>5 DEF Listed, Exists, View, Over
  <1>7. EndpointRow(e) \in DOMAIN db /\ EndpointRow(e) \in DOMAIN db'
    BY <1>2, <1>6, LinkedIsSeen DEF Listed, Exists, Sees, Known
  <1>8. EndpointRow(e) \in DOMAIN w[r]
    <2>1. SUFFICES ASSUME EndpointRow(e) \notin DOMAIN w[r] PROVE FALSE
      OBVIOUS
    <2>2. db'[EndpointRow(e)] = GroupRow(g)
      BY <1>2, <1>4, <1>7, <2>1 DEF View, Over
    <2> QED
      BY <1>6, <2>2 DEF Listed, Exists
  <1>9. w[r][EndpointRow(e)] # Gone
    BY <1>2, <1>7, <1>8 DEF View, Over
  <1>10. e # r
    BY <1>2, <1>7
  <1> QED
    BY <1>2, <1>8, <1>9, <1>10 DEF Moves

\* No step makes a user lose an endpoint that they list but the commit of a
\* call of their own, or one that puts that endpoint into another group: the
\* deletions delete only their caller's links, and keep what others still use.
THEOREM NobodyElseRemoves == Spec => OthersDoNotRemove
  <1>1. ASSUME Known, MoveInv, [Next]_vars
        PROVE  \A u \in Users, e \in EndpointIds :
                 Listed(u, e) /\ ~Listed(u, e)' => \E r \in Requests : LostTo(r, u, e)
    BY <1>1, LosesOnlySo
  <1>2. Spec => []MoveInv
    BY InitMoves, MoveKept, KnownAlways, PTL DEF Spec
  <1> QED
    BY <1>1, <1>2, KnownAlways, PTL DEF Spec, OthersDoNotRemove

-----------------------------------------------------------------------------
(* What an addition has put so far stays put until it commits: rows it has    *)
(* written are its own, and the caller's links can be deleted only by another *)
(* call of the same user.                                                     *)

Alone ==
  \A r, q \in Requests : r # q /\ InFlight(r) /\ InFlight(q) /\ User(r) = User(q) => User(r) \in disturbed

Put(r, e) ==
  /\ EndpointRow(e) \in DOMAIN w[r] /\ w[r][EndpointRow(e)] = GroupRow(Group(r))
  /\ ParamsRow(e) \in DOMAIN w[r]
  /\ Sees(r, LinkedEndpoint(User(r), e))

ToPut(r) == todo[r] \cup {e \in {at[r]} : pc[r] \in {"insert", "update"}}

\* An addition of a user who makes no other call.
Adds(r) == InFlight(r) /\ Tx(r) \in Adding \ {"get_groups"} /\ User(r) \notin disturbed

AddsAll(r) ==
  Adds(r) =>
    /\ pc[r] \in {"look", "insert", "update", "commit"} => Sees(r, LinkedGroup(User(r), Group(r)))
    /\ \A e \in call[r].endpoints \ ToPut(r) : Put(r, e)
    /\ pc[r] = "commit" => todo[r] = {}

AddInv == Alone /\ \A r \in Requests : AddsAll(r)

\* The first statements of the transactions.
FirstSteps == {"list", "access", "upsert_group", "find_group", "read_groups"}

LEMMA BegunAdds ==
  ASSUME TypeInv, NEW r \in Requests, NEW txs \in Plans, NEW answer \in {"ok", "denied", "error"},
         NEW endpoints \in SUBSET Endpoints, Begin(r, txs, answer, endpoints), w'[r] = Nothing,
         txs # <<>> => endpoints = call'[r].endpoints
  PROVE  /\ AddsAll(r)'
         /\ txs # <<>> => pc'[r] \in FirstSteps /\ todo'[r] = endpoints
         /\ txs = <<>> => pc'[r] = answer
  <1>1. /\ txs = <<>> => pc'[r] = answer
        /\ txs # <<>> => todo'[r] = endpoints /\ pc'[r] = FirstStep(Head(txs)) /\ Head(txs) \in Removing \cup Adding
    BY BeginFacts
  <1>2. txs # <<>> => pc'[r] \in FirstSteps
    BY <1>1 DEF FirstStep, Removing, Adding, FirstSteps
  <1> QED
    BY <1>1, <1>2 DEF AddsAll, Adds, ToPut, InFlight, Ended, FirstSteps

LEMMA RollBackBegins ==
  ASSUME TypeInv, NEW r \in Requests, InFlight(r), RollBack(r)
  PROVE  \E txs \in Plans, endpoints \in SUBSET Endpoints :
           Begin(r, txs, "error", endpoints) /\ (txs # <<>> => endpoints = call[r].endpoints)
  <1>1. call[r].endpoints \in SUBSET Endpoints /\ {} \in SUBSET Endpoints /\ <<>> \in Plans
        /\ <<"fallback_clean", "import">> \in Plans /\ <<"import">> \in Plans
    BY CallFacts DEF InFlight, Plans
  <1>2. CASE Tx(r) = "force_clean"
    BY <1>1, <1>2 DEF RollBack
  <1>3. CASE Tx(r) = "fallback_clean"
    BY <1>1, <1>3 DEF RollBack
  <1>4. CASE Tx(r) \notin {"force_clean", "fallback_clean"}
    BY <1>1, <1>4 DEF RollBack
  <1> QED
    BY <1>2, <1>3, <1>4

\* The ends of transactions, which leave nothing half added.
LEMMA EndAdds ==
  ASSUME Known, NEW r \in Requests,
         Commit(r) \/ Ends(r)
  PROVE  /\ AddsAll(r)'
         /\ ~Commit(r) /\ pc'[r] = "ok" => pc[r] = "read_groups"
         /\ w'[r] = Nothing /\ call' = call /\ pc'[r] \in FirstSteps \cup Ended
         /\ pc'[r] \in FirstSteps => todo'[r] = call[r].endpoints
  <1>0. TypeInv /\ InFlight(r) /\ pc[r] # "idle" /\ {} \in SUBSET Endpoints /\ <<>> \in Plans
    BY DEF Ends, AccessDenied, ReadGroups, Commit, Violates, DbFails, InFlight, Ended, Known, Plans
  <1>1. ASSUME EndsUnanswered(r)
        PROVE  w'[r] = Nothing
    BY <1>1 DEF EndsUnanswered, Known, StoreInv, Writes
  <1>2. CASE AccessDenied(r)
    <2>1. w[r] = Nothing
      BY <1>0, <1>2, TxFacts DEF AccessDenied, Located, Beginnings
    <2> QED
      BY <1>0, <1>2, <2>1, BegunAdds DEF AccessDenied, Ended, FirstSteps
  <1>3. CASE ReadGroups(r) /\ pc'[r] # "create"
    <2>1. w[r] = Nothing /\ pc[r] = "read_groups"
      BY <1>0, <1>3, TxFacts DEF ReadGroups, Located, Beginnings
    <2>2. Begin(r, <<>>, "ok", {}) /\ w' = w /\ call' = call
      BY <1>0, <1>3, GotoFacts DEF ReadGroups
    <2> QED
      BY <1>0, <2>1, <2>2, BegunAdds DEF Commit, Ended, FirstSteps
  <1>4. CASE Commit(r)
    <2>1. call[r].endpoints \in SUBSET Endpoints /\ Tail(plan[r]) \in Plans
      BY <1>0, CallFacts, TxFacts
    <2>2. Begin(r, Tail(plan[r]), "ok", call[r].endpoints) /\ call' = call /\ w'[r] = Nothing
      BY <1>1, <1>4 DEF Commit
    <2> QED
      BY <1>0, <1>4, <2>1, <2>2, BegunAdds DEF Ended, FirstSteps
  <1>5. CASE Violates(r) \/ DbFails(r)
    <2>1. RollBack(r) /\ call' = call /\ w'[r] = Nothing
      BY <1>1, <1>5 DEF Violates, DbFails, RollBack
    <2>2. PICK txs \in Plans, endpoints \in SUBSET Endpoints :
            Begin(r, txs, "error", endpoints) /\ (txs # <<>> => endpoints = call[r].endpoints)
      BY <1>0, <2>1, RollBackBegins
    <2> QED
      BY <1>0, <2>1, <2>2, BegunAdds DEF Ended, FirstSteps
  <1> QED
    BY <1>2, <1>3, <1>4, <1>5 DEF Ends

LEMMA ReadingAdds ==
  ASSUME Known, NEW r \in Requests, Silent(r), InFlight(r), AddsAll(r)
  PROVE  AddsAll(r)'
  <1>1. SUFFICES ASSUME Adds(r)'
                 PROVE  /\ pc'[r] \in {"look", "insert", "update", "commit"} => Sees(r, LinkedGroup(User(r), Group(r)))'
                        /\ \A e \in (call[r].endpoints \ ToPut(r))' : Put(r, e)'
                        /\ pc'[r] = "commit" => todo'[r] = {}
    BY DEF AddsAll
  <1>2. /\ UNCHANGED <<w, db, plan, call, disturbed>> /\ Reading(r) /\ TypeInv /\ Located(r)
    BY TxFacts DEF Silent, Known
  <1>3. Adds(r) /\ Tx(r) \notin Removing /\ Tx(r) # "get_groups"
    BY <1>1, <1>2 DEF Adds, Tx, User, Removing, Adding
  <1>4. /\ \A x : Sees(r, x)' <=> Sees(r, x)
        /\ \A e : Put(r, e)' <=> Put(r, e)
    BY <1>2 DEF Sees, View, Put, User, Group
  <1>5. ~ListEndpoints(r) /\ ~GroupUsed(r) /\ ~ReadGroups(r) /\ \A e \in todo[r] : ~PurgeEndpoint(r, e)
    BY <1>2, <1>3 DEF ListEndpoints, GroupUsed, ReadGroups, PurgeEndpoint, Located, Removing
  <1>6. CASE AccessFound(r)
    <2>1. Tx(r) = "manage_endpoint" /\ pc[r] = "access" /\ todo' = todo
      BY <1>2, <1>3, <1>6 DEF AccessFound, Located, Removing, local
    <2>2. pc'[r] = "look" /\ Sees(r, LinkedGroup(User(r), Group(r)))
      BY <1>2, <1>6, <2>1, GotoFacts DEF AccessFound, AccessRow
    <2>3. Sees(r, LinkedGroup(User(r), Group(r)))'
      BY <1>2, <1>4, <2>2 DEF User, Group
    <2>4. ToPut(r)' = ToPut(r) /\ \A e \in call[r].endpoints \ ToPut(r) : Put(r, e)
      BY <1>3, <2>1, <2>2 DEF ToPut, AddsAll
    <2> QED
      BY <1>2, <1>4, <2>2, <2>3, <2>4
  <1>7. CASE FindGroup(r)
    <2>1. pc[r] = "find_group" /\ todo' = todo /\ pc'[r] \in {"update_group", "insert_group"}
      BY <1>2, <1>7, GotoFacts DEF FindGroup, local
    <2>2. ToPut(r)' = ToPut(r) /\ \A e \in call[r].endpoints \ ToPut(r) : Put(r, e)
      BY <1>3, <2>1 DEF ToPut, AddsAll
    <2> QED
      BY <1>2, <1>4, <2>1, <2>2
  <1>8. ASSUME NEW f \in todo[r], LookUp(r, f)
        PROVE  /\ pc'[r] \in {"look", "insert", "update", "commit"} => Sees(r, LinkedGroup(User(r), Group(r)))'
               /\ \A e \in (call[r].endpoints \ ToPut(r))' : Put(r, e)'
               /\ pc'[r] = "commit" => todo'[r] = {}
    <2>1. pc[r] = "look" /\ pc'[r] \in {"update", "insert"}
      BY <1>2, <1>8, GotoFacts DEF LookUp
    <2>2. at' = [at EXCEPT ![r] = f] /\ todo' = [todo EXCEPT ![r] = @ \ {f}]
      BY <1>8 DEF LookUp
    <2>3. at'[r] = f /\ todo'[r] = todo[r] \ {f}
      BY <1>2, <2>2 DEF TypeInv, TypeOK
    <2>4. Sees(r, LinkedGroup(User(r), Group(r))) /\ \A e \in call[r].endpoints \ ToPut(r) : Put(r, e)
      BY <1>3, <2>1 DEF AddsAll
    <2>5. Sees(r, LinkedGroup(User(r), Group(r)))'
      BY <1>2, <1>4, <2>4 DEF User, Group
    <2>6. ToPut(r)' = ToPut(r)
      BY <1>8, <2>1, <2>3 DEF ToPut
    <2> QED
      BY <1>2, <1>4, <2>1, <2>4, <2>5, <2>6
  <1> QED
    BY <1>2, <1>5, <1>6, <1>7, <1>8 DEF Reading

\* A link that is put needs its endpoint: an UPDATE that found nothing is not
\* followed by one.
LEMMA PutExists ==
  ASSUME Known, TypeInv', StoreInv', NEW r \in Requests, NEW writes, Wrote(r, writes),
         PutEndpoint(r), writes = PutsEndpoint(r), NEW f, f = at[r]
  PROVE  /\ f \in Endpoints /\ EndpointRow(f) \in DOMAIN writes /\ writes[EndpointRow(f)] = GroupRow(Group(r))
         /\ ParamsRow(f) \in DOMAIN writes
         /\ \A x \in DOMAIN writes : writes[x] # Gone
         /\ DOMAIN writes \subseteq {EndpointRow(f), ParamsRow(f), LinkedEndpoint(User(r), f)}
         /\ Sees(r, LinkedEndpoint(User(r), f))'
  <1>0. /\ TypeInv /\ pc[r] # "idle" /\ f \in Endpoints /\ f \in EndpointIds /\ User(r) \in Users
        /\ w'[r] = Merge(w[r], writes) /\ db' = db /\ call' = call
    BY TxFacts, CallFacts DEF Wrote, InFlight, Known, PutEndpoint, Located, EndpointIds
  <1>1. /\ \A x \in DOMAIN writes : writes[x] # Gone
        /\ DOMAIN writes \subseteq {EndpointRow(f), ParamsRow(f), LinkedEndpoint(User(r), f)}
        /\ ParamsRow(f) \in DOMAIN writes
        /\ LinkedEndpoint(User(r), f) \in DOMAIN writes <=> ~Sees(r, LinkedEndpoint(User(r), f))
        /\ EndpointRow(f) \in DOMAIN writes => writes[EndpointRow(f)] = GroupRow(Group(r))
        /\ pc[r] # "update" \/ Sees(r, EndpointRow(f)) => EndpointRow(f) \in DOMAIN writes
    BY <1>0, PutsEndpointFacts
  <1>2. PICK u \in Users : u = User(r)
    BY <1>0
  <1>3. Sees(r, LinkedEndpoint(u, f))'
    BY <1>0, <1>1, <1>2, SeesAfter
  <1>4. Sees(r, EndpointRow(f))'
    <2>1. /\ IsTable(View(r)', {}) /\ RefsHold(View(r)')
      BY TableOver DEF View, TypeInv, TypeOK, StoreInv, Consistent
    <2>2. PICK table : table = View(r)'
      OBVIOUS
    <2>3. LinkedEndpoint(u, f) \in DOMAIN table
      BY <1>3, <2>2 DEF Sees
    <2>4. table[LinkedEndpoint(u, f)] = EndpointRow(f) /\ EndpointRow(f) \in Keys
      BY <1>0, <2>1, <2>2, <2>3, TargetFacts DEF IsTable, Keys
    <2> QED
      BY <2>1, <2>2, <2>3, <2>4 DEF RefsHold, Sees
  <1>5. EndpointRow(f) \in DOMAIN writes
    BY <1>0, <1>1, <1>4, SeesAfter
  <1>6. Sees(r, LinkedEndpoint(User(r), f))'
    BY <1>0, <1>2, <1>3 DEF User
  <1> QED
    BY <1>0, <1>1, <1>5, <1>6

LEMMA WroteAdds ==
  ASSUME Known, TypeInv', StoreInv', NEW r \in Requests, NEW writes, Wrote(r, writes), AddsAll(r)
  PROVE  AddsAll(r)'
  <1>1. SUFFICES ASSUME Adds(r)'
                 PROVE  /\ Sees(r, LinkedGroup(User(r), Group(r)))'
                        /\ \A e \in (call[r].endpoints \ ToPut(r))' : Put(r, e)'
                        /\ pc'[r] = "commit" => todo'[r] = {}
    BY DEF AddsAll
  <1>2. /\ UNCHANGED <<db, plan, call, disturbed, todo, at>> /\ w'[r] = Merge(w[r], writes)
        /\ Writing(r, writes) /\ InFlight(r) /\ pc[r] # "idle" /\ TypeInv /\ Located(r)
    BY TxFacts DEF Wrote, Known, InFlight
  <1>3. Adds(r) /\ Tx(r) \notin Removing /\ Tx(r) # "get_groups"
    BY <1>1, <1>2 DEF Adds, Tx, User, Removing, Adding
  <1>4. PICK u, g : u = User(r) /\ g = Group(r)
    OBVIOUS
  <1>5. u = User(r)' /\ g = Group(r)'
    BY <1>2, <1>4 DEF User, Group
  \* A row that this statement does not write is seen and put as before.
  <1>6. \A x : x \notin DOMAIN writes => (Sees(r, x)' <=> Sees(r, x))
    BY <1>2, SeesAfter
  <1>7. ASSUME NEW e, Put(r, e), EndpointRow(e) \notin DOMAIN writes,
               LinkedEndpoint(u, e) \notin DOMAIN writes
        PROVE  Put(r, e)'
    BY <1>2, <1>4, <1>5, <1>6, <1>7 DEF Put, Merge
  <1>8. CASE PutGroup(r) /\ writes = WritesGroup(r)
    <2>1. /\ DOMAIN writes \subseteq {GroupRow(g), LinkedGroup(u, g)}
          /\ \A x \in DOMAIN writes : writes[x] # Gone
          /\ LinkedGroup(u, g) \in DOMAIN writes <=> ~Sees(r, LinkedGroup(u, g))
      BY <1>2, <1>4, <1>8, WritesGroupFacts
    <2>2. Sees(r, LinkedGroup(u, g))'
      BY <1>2, <2>1, SeesAfter
    <2>3. \A e : EndpointRow(e) \notin DOMAIN writes /\ LinkedEndpoint(u, e) \notin DOMAIN writes
      BY <2>1, RowFacts
    <2>4. /\ pc[r] \in {"upsert_group", "insert_group", "update_group"}
          /\ pc'[r] = IF todo[r] = {} THEN "commit" ELSE "look"
      BY <1>2, <1>8, GotoFacts DEF PutGroup
    <2>5. ToPut(r)' = ToPut(r)
      BY <1>2, <2>4 DEF ToPut
    <2>6. \A e \in call[r].endpoints \ ToPut(r) : Put(r, e)'
      BY <1>3, <1>7, <2>3 DEF AddsAll
    <2> QED
      BY <1>2, <1>5, <2>2, <2>4, <2>5, <2>6
  <1>9. CASE PutEndpoint(r) /\ writes = PutsEndpoint(r)
    <2>1. PICK f : f = at[r]
      OBVIOUS
    <2>2. /\ EndpointRow(f) \in DOMAIN writes /\ writes[EndpointRow(f)] = GroupRow(g)
          /\ ParamsRow(f) \in DOMAIN writes
          /\ DOMAIN writes \subseteq {EndpointRow(f), ParamsRow(f), LinkedEndpoint(u, f)}
          /\ Sees(r, LinkedEndpoint(User(r), f))'
      BY <1>4, <1>9, <2>1, PutExists
    <2>3. /\ pc[r] \in {"insert", "update"}
          /\ pc'[r] = IF todo[r] = {} THEN "commit" ELSE "look"
      BY <1>2, <1>9, GotoFacts DEF PutEndpoint
    <2>4. Sees(r, LinkedGroup(u, g))'
      <3>1. LinkedGroup(u, g) \notin DOMAIN writes
        BY <2>2, RowFacts
      <3> QED
        BY <1>3, <1>4, <1>6, <2>3, <3>1 DEF AddsAll
    <2>5. ToPut(r) = ToPut(r)' \cup {f}
      BY <1>2, <2>1, <2>3 DEF ToPut
    <2>6. Put(r, f)'
      BY <1>2, <1>5, <2>2 DEF Put, Merge
    <2>7. ASSUME NEW e \in call[r].endpoints \ ToPut(r)
          PROVE  Put(r, e)'
      <3>1. e # f /\ Put(r, e)
        BY <1>3, <2>5, <2>7 DEF AddsAll
      <3>2. EndpointRow(e) \notin DOMAIN writes /\ LinkedEndpoint(u, e) \notin DOMAIN writes
        BY <2>2, <3>1, RowFacts
      <3> QED
        BY <1>7, <3>1, <3>2
    <2>8. \A e \in (call[r].endpoints \ ToPut(r))' : Put(r, e)'
      BY <1>2, <2>5, <2>6, <2>7
    <2> QED
      BY <1>2, <1>5, <2>3, <2>4, <2>8
  <1>10. ~Unlink(r) /\ ~DropEndpoint(r) /\ ~DropGroups(r) /\ ~CreateDefault(r)
    BY <1>2, <1>3 DEF Unlink, DropEndpoint, DropGroups, CreateDefault, Located, Removing
  <1> QED
    BY <1>2, <1>8, <1>9, <1>10 DEF Writing

\* Meanwhile the others, who are other users.
LEMMA OthersAdd ==
  ASSUME Known, Alone, NEW r \in Requests, NEW q \in Requests \ {r}, Stands(q), disturbed \subseteq disturbed',
         db' = db \/ (db' = View(r) /\ InFlight(r)), AddsAll(q)
  PROVE  AddsAll(q)'
  <1>1. SUFFICES ASSUME Adds(q)'
                 PROVE  /\ pc'[q] \in {"look", "insert", "update", "commit"} => Sees(q, LinkedGroup(User(q), Group(q)))'
                        /\ \A e \in (call[q].endpoints \ ToPut(q))' : Put(q, e)'
                        /\ pc'[q] = "commit" => todo'[q] = {}
    BY DEF AddsAll
  <1>2. /\ Adds(q) /\ ToPut(q)' = ToPut(q) /\ User(q)' = User(q) /\ Group(q)' = Group(q)
        /\ pc'[q] = pc[q] /\ todo'[q] = todo[q] /\ w'[q] = w[q] /\ call'[q] = call[q]
    BY <1>1 DEF Adds, Stands, InFlight, Tx, User, Group, ToPut
  <1>3. PICK u \in Users, g \in GroupIds : u = User(q) /\ g = Group(q)
    BY <1>2, CallFacts DEF Adds, InFlight, Known
  <1>4. ASSUME NEW x \in {LinkedGroup(u, g)} \cup {LinkedEndpoint(u, e) : e \in EndpointIds}, Sees(q, x)
        PROVE  Sees(q, x)'
    <2>1. CASE db' = db
      BY <1>2, <1>4, <2>1 DEF Sees, View
    <2>2. CASE db' = View(r) /\ InFlight(r)
      <3>1. u # User(r) /\ Kinds(r) /\ ApartBy(w[q], w[r])
        BY <1>2, <1>3, <2>2 DEF Alone, Adds, Known, WriteInv, StoreInv, Apart
      <3>2. x \notin DOMAIN w[r]
        BY <1>3, <1>4, <3>1 DEF Kinds, Shape
      <3> QED
        BY <1>2, <1>4, <2>2, <3>1, <3>2, SeesCommitted
    <2> QED
      BY <2>1, <2>2
  <1>5. ASSUME NEW e \in EndpointIds, Put(q, e)
        PROVE  Put(q, e)'
    BY <1>2, <1>3, <1>4, <1>5 DEF Put
  <1>6. call[q].endpoints \subseteq EndpointIds
    BY <1>2, CallFacts DEF Adds, InFlight, Known
  <1> QED
    BY <1>2, <1>3, <1>4, <1>5, <1>6 DEF AddsAll

LEMMA AloneStep ==
  ASSUME Alone, NEW r \in Requests, OthersStand(r), InFlight(r), call'[r] = call[r], disturbed' = disturbed
  PROVE  Alone'
  <1>1. ASSUME NEW q \in Requests
        PROVE  (InFlight(q)' => InFlight(q)) /\ User(q)' = User(q)
    BY DEF OthersStand, Stands, InFlight, User
  <1> QED
    BY <1>1 DEF Alone

LEMMA AddKept ==
  ASSUME Known, Known', AddInv, [Next]_vars
  PROVE  AddInv'
  <1>0. TypeInv /\ StoreInv /\ TypeInv' /\ StoreInv' /\ Alone
    BY DEF Known, AddInv
  <1>1. ASSUME NEW r \in Requests, NEW c \in Menu, Receive(r, c)
        PROVE  AddInv'
    <2>1. /\ OthersStand(r) /\ pc[r] = "idle" /\ w'[r] = Nothing /\ db' = db /\ call'[r] = c
          /\ disturbed \subseteq disturbed'
      BY <1>1, ReceiveTypes DEF Known, TypeInv, PlaceInv, InFlight, OthersStand
    <2>2. PICK txs \in Plans \ {<<>>} : Accept(r, c, txs)
      BY <1>1 DEF Receive, AddApiGroup, UpdateApiGroup, DeleteApiGroup, ManageEndpoint, DeleteEndpoint,
             UploadConfig, GetApiGroups, Plans
    <2>3. /\ Begin(r, txs, "ok", c.endpoints) /\ c.endpoints \in SUBSET Endpoints
          /\ (\E q \in Requests : InFlight(q) /\ User(q) = c.user) => c.user \in disturbed'
      BY <2>2, StoreAssumption DEF Accept, Calls
    <2>4. AddsAll(r)'
      BY <1>0, <2>1, <2>3, BegunAdds
    <2>5. \A q \in Requests \ {r} : AddsAll(q)'
      BY <1>0, <2>1, OthersAdd DEF AddInv, OthersStand
    <2>6. ASSUME NEW q \in Requests \ {r}
          PROVE  (InFlight(q)' => InFlight(q)) /\ User(q)' = User(q)
      BY <2>1 DEF OthersStand, Stands, InFlight, User
    <2>7. User(r)' = c.user
      BY <2>1 DEF User
    <2>8. ASSUME NEW p \in Requests, NEW q \in Requests, p # q, InFlight(p)', InFlight(q)', User(p)' = User(q)'
          PROVE  User(p)' \in disturbed'
      <3>1. CASE p = r
        BY <2>3, <2>6, <2>7, <2>8, <3>1
      <3>2. CASE q = r
        BY <2>3, <2>6, <2>7, <2>8, <3>2
      <3>3. CASE p # r /\ q # r
        BY <1>0, <2>1, <2>6, <2>8, <3>3 DEF Alone
      <3> QED
        BY <3>1, <3>2, <3>3
    <2>9. Alone'
      BY <2>8 DEF Alone
    <2> QED
      BY <2>4, <2>5, <2>9 DEF AddInv
  <1>2. ASSUME NEW r \in Requests, Handle(r)
        PROVE  AddInv'
    <2>1. OthersStand(r) /\ InFlight(r) /\ AddsAll(r)
      BY <1>0, <1>2, HandleTypes, StepKinds DEF Kept, OthersStand, AddInv
    <2>2. /\ call'[r] = call[r] /\ disturbed' = disturbed
          /\ db' = db \/ db' = View(r)
      BY <1>0, <1>2, StepKinds DEF Silent, RolledBack, Commit, Wrote, history
    <2>3. Alone'
      BY <1>0, <2>1, <2>2, AloneStep
    <2>4. \A q \in Requests \ {r} : AddsAll(q)'
      BY <1>0, <2>1, <2>2, OthersAdd DEF AddInv, OthersStand
    <2>5. AddsAll(r)'
      <3>1. CASE Commit(r) \/ Ends(r)
        BY <3>1, EndAdds
      <3>2. CASE Silent(r)
        BY <2>1, <3>2, ReadingAdds
      <3>3. CASE \E writes : Wrote(r, writes)
        BY <1>0, <2>1, <3>3, WroteAdds
      <3> QED
        BY <1>0, <1>2, <3>1, <3>2, <3>3, StepKinds DEF RolledBack
    <2> QED
      BY <2>3, <2>4, <2>5 DEF AddInv
  <1>3. CASE Crash
    <2>1. \A r \in Requests : ~InFlight(r)'
      BY <1>3 DEF Crash, InFlight, Ended
    <2> QED
      BY <2>1 DEF AddInv, Alone, AddsAll, Adds
  <1>4. CASE UNCHANGED vars
    BY <1>4 DEF vars, AddInv, Alone, AddsAll, Adds, Put, ToPut, InFlight, Tx, User, Group, Sees, View
  <1> QED
    BY <1>1, <1>2, <1>3, <1>4 DEF Next, Finished

LEMMA InitAdds == Init => AddInv
  BY DEF Init, AddInv, Alone, AddsAll, Adds, InFlight

\* Who is about to commit and is answered has committed.
LEMMA AnsweredCommits ==
  ASSUME Known, [Next]_vars, NEW r \in Requests, pc[r] = "commit", pc'[r] = "ok"
  PROVE  Commit(r)
  <1>1. ASSUME NEW s \in Requests, NEW c \in Menu, Receive(s, c)
        PROVE  FALSE
    BY <1>1, ReceiveTypes DEF Known, Stands
  <1>2. ASSUME NEW s \in Requests, Handle(s), s # r
        PROVE  FALSE
    BY <1>2, HandleTypes DEF Known, Kept, Stands
  <1>3. CASE Handle(r)
    <2>1. Commit(r) \/ Violates(r) \/ DbFails(r)
      BY <1>3 DEF Handle, ListEndpoints, AccessFound, AccessDenied, Unlink, GroupUsed, PurgeEndpoint, LookUp,
           DropEndpoint, DropGroups, FindGroup, PutGroup, PutEndpoint, ReadGroups, CreateDefault
    <2> QED
      BY <2>1, EndAdds DEF Ends
  <1>4. ~Crash
    BY DEF Crash, InFlight, Ended, Known, TypeInv, PlaceInv
  <1> QED
    BY <1>1, <1>2, <1>3, <1>4 DEF Next, Finished, vars

LEMMA CommitAdds ==
  ASSUME Known, AddInv, NEW r \in Requests, Commit(r),
         Tx(r) \in {"add_group", "import", "manage_endpoint"}, User(r) \notin disturbed
  PROVE  Added(r)'
  <1>1. InFlight(r) /\ pc[r] = "commit" /\ db' = View(r) /\ call' = call
    BY CommitEnds
  <1>2. PICK u \in Users, g \in GroupIds : u = User(r) /\ g = Group(r)
    BY <1>1, CallFacts DEF Known, InFlight
  <1>3. u = User(r)' /\ g = Group(r)' /\ call[r].endpoints \subseteq EndpointIds
    BY <1>1, <1>2, CallFacts DEF User, Group, Known, InFlight
  <1>4. Adds(r) /\ Kinds(r) /\ Tx(r) \in Adding
    BY <1>1 DEF Adds, Adding, Known, WriteInv
  <1>5. \A x \in DOMAIN w[r] : w[r][x] # Gone
    BY <1>4 DEF Kinds, Shape
  <1>6. Sees(r, LinkedGroup(u, g)) /\ todo[r] = {} /\ \A e \in call[r].endpoints : Put(r, e)
    BY <1>1, <1>2, <1>4 DEF AddInv, AddsAll, ToPut
  <1>7. Exists(LinkedGroup(u, g))'
    BY <1>1, <1>6 DEF Exists, Sees
  <1>8. ASSUME NEW e \in call[r].endpoints
        PROVE  /\ Exists(LinkedEndpoint(u, e))' /\ Exists(ParamsRow(e))'
               /\ db'[EndpointRow(e)] = GroupRow(g)
    BY <1>1, <1>2, <1>5, <1>6 DEF Put, Exists, Sees, View, Over
  <1>9. \A e \in call[r].endpoints : Listed(u, e)'
    BY <1>7, <1>8 DEF Listed, Exists
  <1> QED
    BY <1>1, <1>3, <1>7, <1>8, <1>9 DEF Added

\* A committed addition is there as a whole: the caller's link to the group,
\* every endpoint of the call in that group, linked and with its parameters,
\* whatever others add, move or delete meanwhile (only another call of the same
\* user may delete the links again).
THEOREM AdditionsAreComplete == Spec => AdditionIsComplete
  <1>1. ASSUME Known, AddInv, [Next]_vars
        PROVE  \A r \in Requests :
                 /\ pc[r] = "commit" /\ pc'[r] = "ok"
                 /\ Tx(r) \in {"add_group", "import", "manage_endpoint"}
                 /\ User(r) \notin disturbed
                 => Added(r)'
    BY <1>1, AnsweredCommits, CommitAdds
  <1>2. Spec => []AddInv
    BY InitAdds, AddKept, KnownAlways, PTL DEF Spec
  <1> QED
    BY <1>1, <1>2, KnownAlways, PTL DEF Spec, AdditionIsComplete

-----------------------------------------------------------------------------
(* Who named what: calls are not forgotten, and all that transactions go      *)
(* through and write is of names of their callers.                            *)

Named == [v \in Users |-> {x \in Keys : Names(v, x)}]

\* The links in a table, or in some writes, are of names of their users.
NamedIn(names, table) ==
  /\ \A v \in Users, g \in GroupIds : LinkedGroup(v, g) \in DOMAIN table => GroupRow(g) \in names[v]
  /\ \A v \in Users, e \in EndpointIds : LinkedEndpoint(v, e) \in DOMAIN table => EndpointRow(e) \in names[v]

\* And what one user's transaction writes and has still to go through.
NamedWork(names, u, writes, left) ==
  /\ NamedIn(names, writes)
  /\ \A e \in EndpointIds : EndpointRow(e) \in DOMAIN writes => EndpointRow(e) \in names[u]
  /\ \A e \in left : EndpointRow(e) \in names[u]

Left(r) == todo[r] \cup {e \in {at[r]} : pc[r] \in {"drop", "insert", "update"}}

NamedInv ==
  NamedIn(Named, db) /\ \A r \in Requests : InFlight(r) => NamedWork(Named, User(r), w[r], Left(r))

LEMMA NamedFacts ==
  ASSUME TypeInv, NEW r \in Requests, pc[r] # "idle"
  PROVE  /\ GroupRow(Group(r)) \in Named[User(r)]
         /\ GroupRow(r) \in Named[User(r)] /\ EndpointRow(r) \in Named[User(r)]
         /\ \A e \in call[r].endpoints : EndpointRow(e) \in Named[User(r)]
  <1>1. PICK u \in Users, g \in GroupIds : u = User(r) /\ g = Group(r)
    BY CallFacts
  <1>2. /\ GroupRow(g) \in Keys /\ GroupRow(r) \in Keys /\ EndpointRow(r) \in Keys
        /\ \A e \in call[r].endpoints : EndpointRow(e) \in Keys
    BY CallFacts DEF Keys, GroupIds, EndpointIds
  <1>3. /\ Names(u, GroupRow(g)) /\ Names(u, GroupRow(r)) /\ Names(u, EndpointRow(r))
        /\ \A e \in call[r].endpoints : Names(u, EndpointRow(e))
    BY <1>1 DEF Names
  <1> QED
    BY <1>1, <1>2, <1>3 DEF Named

\* A request goes on or ends, and is not forgotten.
LEMMA GoesOn ==
  ASSUME Known, NEW r \in Requests, Handle(r)
  PROVE  pc'[r] # "idle" /\ call' = call /\ disturbed' = disturbed
  <1>0. TypeInv /\ StoreInv
    BY DEF Known
  <1>1. CASE Silent(r)
    <2>1. ASSUME NEW e \in todo[r], PurgeEndpoint(r, e) \/ LookUp(r, e)
          PROVE  pc'[r] # "idle"
      BY <1>0, <2>1, GotoFacts DEF PurgeEndpoint, LookUp
    <2> QED
      BY <1>0, <1>1, <2>1, GotoFacts DEF Silent, Reading, ListEndpoints, AccessFound, GroupUsed, FindGroup
  <1>2. ASSUME NEW writes, Wrote(r, writes)
        PROVE  pc'[r] # "idle" /\ call' = call /\ disturbed' = disturbed
    BY <1>0, <1>2, GotoFacts DEF Wrote, Writing, Unlink, DropEndpoint, DropGroups, PutGroup, PutEndpoint,
                                 CreateDefault
  <1>3. CASE Commit(r) \/ RolledBack(r)
    BY <1>3, EndAdds DEF RolledBack, Commit, history, FirstSteps, Ended
  <1> QED
    BY <1>0, <1>1, <1>2, <1>3, StepKinds

LEMMA NamedGrows ==
  ASSUME Known, [Next]_vars
  PROVE  \A v \in Users : Named[v] \subseteq Named'[v]
  <1>1. \A r \in Requests : pc[r] # "idle" => pc'[r] # "idle" /\ call'[r] = call[r]
    <2>1. ASSUME NEW s \in Requests, NEW c \in Menu, Receive(s, c)
          PROVE  \A r \in Requests : pc[r] # "idle" => pc'[r] # "idle" /\ call'[r] = call[r]
      BY <2>1, ReceiveTypes DEF Known, Stands
    <2>2. ASSUME NEW s \in Requests, Handle(s)
          PROVE  \A r \in Requests : pc[r] # "idle" => pc'[r] # "idle" /\ call'[r] = call[r]
      BY <2>2, HandleTypes, GoesOn DEF Known, Kept, Stands
    <2>3. CASE Crash
      BY <2>3 DEF Crash
    <2> QED
      BY <2>1, <2>2, <2>3 DEF Next, Finished, vars
  <1>2. ASSUME NEW v \in Users, NEW x, Names(v, x)
        PROVE  Names(v, x)'
    BY <1>1, <1>2 DEF Names, User, Group
  <1> QED
    BY <1>2 DEF Named

\* More names are as good.
LEMMA NamedMore ==
  ASSUME NEW names, NEW more, \A v \in Users : names[v] \subseteq more[v], NEW table, NamedIn(names, table)
  PROVE  NamedIn(more, table)
  BY DEF NamedIn

LEMMA NamedOver ==
  ASSUME NEW names, NEW table, NEW writes, NamedIn(names, table), NamedIn(names, writes)
  PROVE  NamedIn(names, Over(table, writes)) /\ NamedIn(names, Merge(table, writes))
  BY DEF NamedIn, Over, Merge

LEMMA NamedWorkMore ==
  ASSUME NEW names, NEW more, \A v \in Users : names[v] \subseteq more[v], NEW u \in Users,
         NEW writes, NEW left, NamedWork(names, u, writes, left)
  PROVE  NamedWork(more, u, writes, left)
  BY DEF NamedWork, NamedIn

LEMMA DeletionSeen ==
  ASSUME NEW r, NEW some
  PROVE  \A x \in DOMAIN Deletion(r, some) : x \in DOMAIN View(r) /\ x \in some
  BY DEF Deletion, Sees

LEMMA WritingNamed ==
  ASSUME Known, NamedInv, NEW r \in Requests, InFlight(r), NEW writes, Writing(r, writes)
  PROVE  NamedWork(Named, User(r), writes, {})
  <1>0. /\ TypeInv /\ StoreInv /\ Located(r) /\ pc[r] # "idle" /\ Shape(r, writes)
        /\ \A x \in DOMAIN writes : writes[x] = Gone => Sees(r, x)
        /\ \A e \in Left(r) : EndpointRow(e) \in Named[User(r)]
    BY TxFacts, WritingShape DEF InFlight, Known, NamedInv, NamedWork
  <1>a. PICK names : names = Named
    OBVIOUS
  <1>b. PICK u \in Users, g \in GroupIds : u = User(r) /\ g = Group(r)
    BY <1>0, CallFacts
  <1>1. names = Named /\ u = User(r) /\ g = Group(r)
    BY <1>a, <1>b
  <1>2. /\ GroupRow(g) \in names[u] /\ GroupRow(r) \in names[u] /\ EndpointRow(r) \in names[u]
    BY <1>0, <1>1, NamedFacts
  <1>3. NamedIn(names, View(r))
    BY <1>1, NamedOver DEF View, NamedInv, NamedWork
  <1>4. CASE Unlink(r) /\ writes = Deletion(r, Unlinks(r))
    <2>1. /\ DOMAIN writes \subseteq DOMAIN View(r)
          /\ \A e : EndpointRow(e) \notin DOMAIN writes
      BY <1>4, DeletionSeen, UnlinksFacts
    <2> QED
      BY <1>1, <1>3, <2>1 DEF NamedWork, NamedIn
  <1>5. CASE DropEndpoint(r) /\ writes = Deletion(r, Drops(r))
    <2>1. /\ DOMAIN writes \subseteq DOMAIN View(r)
          /\ \A e : EndpointRow(e) \in DOMAIN writes => e = at[r]
      BY <1>5, DeletionSeen, DropsFacts
    <2>2. at[r] \in Left(r)
      BY <1>5 DEF DropEndpoint, Left
    <2> QED
      BY <1>0, <1>1, <1>3, <2>1, <2>2 DEF NamedWork, NamedIn
  <1>6. CASE DropGroups(r) /\ writes = Deletion(r, GroupsToDrop(r))
    <2>1. /\ DOMAIN writes \subseteq DOMAIN View(r)
          /\ \A e : EndpointRow(e) \notin DOMAIN writes
      BY <1>0, <1>6, DeletionSeen, GroupsToDropFacts
    <2> QED
      BY <1>1, <1>3, <2>1 DEF NamedWork, NamedIn
  <1>7. CASE PutGroup(r) /\ writes = WritesGroup(r)
    <2>1. DOMAIN writes \subseteq {GroupRow(g), LinkedGroup(u, g)}
      BY <1>0, <1>1, <1>7, WritesGroupFacts
    <2>2. /\ \A v, h : LinkedGroup(v, h) \in DOMAIN writes => v = u /\ h = g
          /\ \A v, e : LinkedEndpoint(v, e) \notin DOMAIN writes /\ EndpointRow(e) \notin DOMAIN writes
      BY <2>1, RowFacts
    <2> QED
      BY <1>1, <1>2, <2>2 DEF NamedWork, NamedIn
  <1>8. CASE PutEndpoint(r) /\ writes = PutsEndpoint(r)
    <2>1. PICK f \in EndpointIds : f = at[r]
      BY <1>0, <1>8 DEF PutEndpoint, Located, EndpointIds
    <2>2. DOMAIN writes \subseteq {EndpointRow(f), ParamsRow(f), LinkedEndpoint(u, f)}
      BY <1>0, <1>1, <1>8, <2>1, PutsEndpointFacts
    <2>3. /\ \A v, h : LinkedGroup(v, h) \notin DOMAIN writes
          /\ \A v, e : LinkedEndpoint(v, e) \in DOMAIN writes => v = u /\ e = f
          /\ \A e : EndpointRow(e) \in DOMAIN writes => e = f
      BY <2>2, RowFacts
    <2>4. EndpointRow(f) \in names[u]
      BY <1>0, <1>1, <1>8, <2>1 DEF PutEndpoint, Left
    <2> QED
      BY <1>1, <2>3, <2>4 DEF NamedWork, NamedIn
  <1>9. CASE CreateDefault(r) /\ writes = WritesDefault(r)
    <2>1. DOMAIN writes = {GroupRow(r), EndpointRow(r), LinkedGroup(u, r), LinkedEndpoint(u, r)}
      BY <1>0, <1>1, <1>9, WritesDefaultFacts
    <2>2. /\ \A v, h : LinkedGroup(v, h) \in DOMAIN writes => v = u /\ h = r
          /\ \A v, e : LinkedEndpoint(v, e) \in DOMAIN writes => v = u /\ e = r
          /\ \A e : EndpointRow(e) \in DOMAIN writes => e = r
      BY <2>1, RowFacts
    <2> QED
      BY <1>1, <1>2, <2>2 DEF NamedWork, NamedIn
  <1> QED
    BY <1>4, <1>5, <1>6, <1>7, <1>8, <1>9 DEF Writing

LEMMA ReadingNamed ==
  ASSUME Known, NamedInv, NEW r \in Requests, InFlight(r), Silent(r)
  PROVE  \A e \in Left(r)' : EndpointRow(e) \in Named[User(r)]
  <1>0. /\ TypeInv /\ StoreInv /\ Located(r) /\ Reading(r) /\ User(r) \in Users
        /\ \A e \in Left(r) : EndpointRow(e) \in Named[User(r)]
        /\ NamedIn(Named, View(r))
    BY TxFacts, CallFacts, NamedOver DEF InFlight, Known, NamedInv, NamedWork, Silent, View
  <1>1. ASSUME Left(r)' \subseteq Left(r)
        PROVE  \A e \in Left(r)' : EndpointRow(e) \in Named[User(r)]
    BY <1>0, <1>1
  <1>2. CASE ListEndpoints(r)
    <2>1. pc'[r] = "unlink" /\ todo'[r] \subseteq {e \in EndpointIds : Sees(r, LinkedEndpoint(User(r), e))}
      BY <1>0, <1>2, GotoFacts DEF ListEndpoints, TypeInv, TypeOK
    <2>2. Left(r)' = todo'[r]
      BY <2>1 DEF Left
    <2> QED
      BY <1>0, <2>1, <2>2 DEF NamedIn, Sees
  <1>3. CASE AccessFound(r) \/ GroupUsed(r) \/ FindGroup(r)
    <2>1. todo' = todo /\ pc'[r] \notin {"drop", "insert", "update"}
      BY <1>0, <1>3, GotoFacts DEF AccessFound, GroupUsed, FindGroup, local
    <2> QED
      BY <1>1, <2>1 DEF Left
  <1>4. ASSUME NEW f \in todo[r], PurgeEndpoint(r, f) \/ LookUp(r, f)
        PROVE  Left(r)' \subseteq Left(r)
    <2>1. /\ pc[r] \in {"purge", "look"} /\ todo'[r] = todo[r] \ {f}
          /\ (at' = at /\ pc' = pc) \/ at'[r] = f
      BY <1>0, <1>4 DEF PurgeEndpoint, LookUp, TypeInv, TypeOK
    <2> QED
      BY <2>1 DEF Left
  <1>5. CASE ReadGroups(r) /\ pc'[r] = "create"
    <2>1. ~Begin(r, <<>>, "ok", {})
      <3>1. <<>> \in Plans /\ {} \in SUBSET Endpoints
        BY DEF Plans
      <3> QED
        BY <1>0, <1>5, <3>1, GotoFacts DEF Begin
    <2>2. todo' = todo
      BY <1>5, <2>1 DEF ReadGroups, local
    <2> QED
      BY <1>1, <1>5, <2>2 DEF Left
  <1> QED
    BY <1>0, <1>1, <1>2, <1>3, <1>4, <1>5 DEF Reading

LEMMA NamedKept ==
  ASSUME Known, Known', NamedInv, [Next]_vars
  PROVE  NamedInv'
  <1>0. TypeInv /\ StoreInv
    BY DEF Known
  <1>a. PICK names : names = Named'
    OBVIOUS
  <1>1. \A v \in Users : Named[v] \subseteq names[v]
    BY <1>a, NamedGrows
  <1>2. NamedIn(names, db)
    BY <1>1, NamedMore DEF NamedInv
  \* The requests that do nothing now.
  <1>3. ASSUME NEW q \in Requests, Stands(q), InFlight(q)'
        PROVE  NamedWork(names, User(q)', w'[q], Left(q)')
    <2>1. InFlight(q) /\ w'[q] = w[q] /\ Left(q)' = Left(q) /\ User(q)' = User(q)
      BY <1>3 DEF Stands, InFlight, Left, User
    <2>2. User(q) \in Users
      BY <1>0, <2>1, CallFacts DEF InFlight
    <2> QED
      BY <1>1, <2>1, <2>2, NamedWorkMore DEF NamedInv
  <1>4. ASSUME NEW r \in Requests, NEW c \in Menu, Receive(r, c)
        PROVE  NamedInv'
    <2>1. OthersStand(r) /\ w'[r] = Nothing /\ db' = db /\ call'[r] = c
      BY <1>0, <1>4, ReceiveTypes DEF TypeInv, PlaceInv, InFlight, OthersStand
    <2>2. PICK txs \in Plans \ {<<>>} : Accept(r, c, txs)
      BY <1>4 DEF Receive, AddApiGroup, UpdateApiGroup, DeleteApiGroup, ManageEndpoint, DeleteEndpoint,
             UploadConfig, GetApiGroups, Plans
    <2>3. Begin(r, txs, "ok", c.endpoints) /\ c.endpoints \in SUBSET Endpoints /\ c.user \in Users
      BY <2>2, StoreAssumption DEF Accept, Calls
    <2>4. pc'[r] \in FirstSteps /\ todo'[r] = c.endpoints
      BY <1>0, <2>1, <2>3, BegunAdds
    <2>5. Left(r)' = c.endpoints /\ User(r)' = c.user /\ pc'[r] # "idle"
      BY <2>1, <2>4 DEF Left, FirstSteps, User
    <2>6. \A e \in c.endpoints : EndpointRow(e) \in Named'[c.user]
      <3>1. \A e \in c.endpoints : Names(c.user, EndpointRow(e))' /\ EndpointRow(e) \in Keys
        BY <2>1, <2>3, <2>5 DEF Names, User, Keys, EndpointIds
      <3> QED
        BY <2>3, <3>1 DEF Named
    <2>7. NamedWork(names, User(r)', w'[r], Left(r)')
      BY <1>a, <2>1, <2>5, <2>6 DEF NamedWork, NamedIn, Nothing
    <2> QED
      BY <1>a, <1>2, <1>3, <2>1, <2>7 DEF NamedInv, OthersStand
  <1>5. ASSUME NEW r \in Requests, Handle(r)
        PROVE  NamedInv'
    <2>1. /\ OthersStand(r) /\ InFlight(r) /\ NamedWork(Named, User(r), w[r], Left(r))
          /\ User(r)' = User(r) /\ User(r) \in Users /\ db' \in {db, View(r)}
      <3>1. OthersStand(r) /\ InFlight(r) /\ call' = call /\ pc[r] # "idle"
        BY <1>0, <1>5, HandleTypes, StepKinds, GoesOn DEF Kept, OthersStand, InFlight
      <3>2. db' \in {db, View(r)}
        BY <1>0, <1>5, StepKinds DEF Silent, RolledBack, Wrote, Commit
      <3> QED
        BY <1>0, <3>1, <3>2, CallFacts DEF NamedInv, User
    <2>2. NamedIn(names, db')
      <3>1. NamedIn(names, View(r))
        BY <1>1, <1>2, <2>1, NamedOver, NamedMore DEF NamedWork, View
      <3> QED
        BY <1>2, <2>1, <3>1
    <2>3. ASSUME InFlight(r)'
          PROVE  NamedWork(names, User(r), w'[r], Left(r)')
      <3>1. CASE Silent(r)
        <4>1. w'[r] = w[r] /\ \A e \in Left(r)' : EndpointRow(e) \in Named[User(r)]
          BY <2>1, <3>1, ReadingNamed DEF Silent
        <4>2. NamedWork(Named, User(r), w'[r], Left(r)')
          BY <2>1, <4>1 DEF NamedWork
        <4> QED
          BY <1>1, <2>1, <4>2, NamedWorkMore
      <3>2. ASSUME NEW writes, Wrote(r, writes)
            PROVE  NamedWork(names, User(r), w'[r], Left(r)')
        <4>1. NamedWork(Named, User(r), writes, {}) /\ w'[r] = Merge(w[r], writes)
          BY <2>1, <3>2, WritingNamed DEF Wrote
        <4>2. Left(r)' \subseteq Left(r)
          <5>1. /\ todo' = todo /\ pc'[r] \in {"used", "purge", "commit", "look"}
            BY <1>0, <3>2, GotoFacts DEF Wrote, Writing, Unlink, DropEndpoint, DropGroups, PutGroup,
                                         PutEndpoint, CreateDefault
          <5> QED
            BY <5>1 DEF Left
        <4>3. NamedWork(Named, User(r), w'[r], Left(r)')
          BY <2>1, <4>1, <4>2 DEF NamedWork, NamedIn, Merge
        <4> QED
          BY <1>1, <2>1, <4>3, NamedWorkMore
      <3>3. CASE Commit(r) \/ Ends(r)
        <4>1. w'[r] = Nothing /\ pc'[r] \in FirstSteps /\ todo'[r] = call[r].endpoints
          BY <2>3, <3>3, EndAdds DEF InFlight
        <4>2. Left(r)' = call[r].endpoints
          BY <4>1 DEF Left, FirstSteps
        <4>3. \A e \in call[r].endpoints : EndpointRow(e) \in Named[User(r)]
          BY <1>0, <2>1, NamedFacts DEF InFlight
        <4>4. NamedWork(Named, User(r), w'[r], Left(r)')
          BY <4>1, <4>2, <4>3 DEF NamedWork, NamedIn, Nothing
        <4> QED
          BY <1>1, <2>1, <4>4, NamedWorkMore
      <3> QED
        BY <1>0, <1>5, <3>1, <3>2, <3>3, StepKinds DEF RolledBack
    <2> QED
      BY <1>a, <1>3, <2>1, <2>2, <2>3 DEF NamedInv, OthersStand
  <1>6. CASE Crash
    <2>1. db' = db /\ \A r \in Requests : ~InFlight(r)'
      BY <1>6 DEF Crash, InFlight, Ended
    <2> QED
      BY <1>a, <1>2, <2>1 DEF NamedInv
  <1>7. CASE UNCHANGED vars
    <2>1. db' = db /\ \A r \in Requests : Stands(r)
      BY <1>7 DEF vars, Stands
    <2> QED
      BY <1>a, <1>2, <1>3, <2>1 DEF NamedInv
  <1> QED
    BY <1>4, <1>5, <1>6, <1>7 DEF Next, Finished

LEMMA InitNamed == Init => NamedInv
  <1> SUFFICES ASSUME Init PROVE NamedInv
    OBVIOUS
  <1>1. db = Opening /\ \A r \in Requests : ~InFlight(r)
    BY DEF Init, InFlight
  <1>2. \A g \in GroupIds : GroupRow(g) \in DOMAIN Opening => g \in Groups /\ GroupRow(g) \in Keys
    BY StoreAssumption DEF GroupIds, Keys
  <1>3. \A e \in EndpointIds : EndpointRow(e) \in DOMAIN Opening => e \in Endpoints /\ EndpointRow(e) \in Keys
    BY StoreAssumption DEF EndpointIds, Keys
  <1>4. ASSUME NEW v \in Users, NEW g \in GroupIds, LinkedGroup(v, g) \in DOMAIN Opening
        PROVE  GroupRow(g) \in Named[v]
    <2>1. Opening[LinkedGroup(v, g)] = GroupRow(g) /\ GroupRow(g) \in Keys
      <3>1. IsTable(Opening, {}) /\ Targets(LinkedGroup(v, g)) = {GroupRow(g)}
        BY TargetFacts, StoreAssumption
      <3> QED
        BY <1>4, <3>1 DEF IsTable, Keys
    <2>2. GroupRow(g) \in DOMAIN Opening
      BY <1>4, <2>1, StoreAssumption DEF RefsHold
    <2>3. g \in Groups
      BY <1>2, <2>2
    <2> QED
      BY <1>4, <2>1, <2>3 DEF Named, Names
  <1>5. ASSUME NEW v \in Users, NEW e \in EndpointIds, LinkedEndpoint(v, e) \in DOMAIN Opening
        PROVE  EndpointRow(e) \in Named[v]
    <2>1. Opening[LinkedEndpoint(v, e)] = EndpointRow(e) /\ EndpointRow(e) \in Keys
      <3>1. IsTable(Opening, {}) /\ Targets(LinkedEndpoint(v, e)) = {EndpointRow(e)}
        BY TargetFacts, StoreAssumption
      <3> QED
        BY <1>5, <3>1 DEF IsTable, Keys
    <2>2. EndpointRow(e) \in DOMAIN Opening
      BY <1>5, <2>1, StoreAssumption DEF RefsHold
    <2>3. e \in Endpoints
      BY <1>3, <2>2
    <2> QED
      BY <1>5, <2>1, <2>3 DEF Named, Names
  <1> QED
    BY <1>1, <1>4, <1>5 DEF NamedInv, NamedIn

-----------------------------------------------------------------------------
(* What one user alone names is stored as it is listed, but for what that     *)
(* user's own removal, between two of its statements, has still to delete.    *)

OnlyOf(names, u, table, e) ==
  /\ EndpointRow(e) \in DOMAIN table
  /\ \A v \in Users \ {u} : EndpointRow(e) \notin names[v] /\ table[EndpointRow(e)] \notin names[v]

ListedIn(table, u, e) ==
  /\ LinkedEndpoint(u, e) \in DOMAIN table
  /\ \E g \in GroupIds : table[EndpointRow(e)] = GroupRow(g) /\ LinkedGroup(u, g) \in DOMAIN table

Exact(names, u, table, pending) ==
  \A e \in EndpointIds : OnlyOf(names, u, table, e) => ListedIn(table, u, e) \/ e \in pending

\* Unlinked, and not yet kept or deleted.
Pending(step, left) == {e \in left : step \in {"used", "purge", "drop"}}

\* All that is to be let go of is on the way to it, and nothing else.
ExactWork(names, u, g, tx, step, table, left) ==
  /\ Exact(names, u, table, Pending(step, left))
  /\ \A e \in Pending(step, left) : LinkedEndpoint(u, e) \notin DOMAIN table
  /\ step = "unlink" => \A e \in EndpointIds :
       /\ OnlyOf(names, u, table, e)
       /\ tx = "delete_group" => table[EndpointRow(e)] = GroupRow(g)
       /\ tx # "delete_endpoint"
       => e \in left
  /\ step \in {"unlink", "used"} /\ tx = "delete_group" => \A e \in left :
       OnlyOf(names, u, table, e) => table[EndpointRow(e)] = GroupRow(g)
  /\ step = "used" => LinkedGroup(u, g) \notin DOMAIN table

ExactInv ==
  /\ \A u \in Users \ disturbed : Exact(Named, u, db, {})
  /\ \A r \in Requests : InFlight(r) /\ User(r) \notin disturbed =>
       ExactWork(Named, User(r), Group(r), Tx(r), pc[r], View(r), Left(r))

\* A table with the same links of the user, and no other endpoint of theirs.
SameFor(names, u, table, other) ==
  /\ \A e \in EndpointIds :
       EndpointRow(e) \in DOMAIN other /\ (\A v \in Users \ {u} : EndpointRow(e) \notin names[v]) =>
         EndpointRow(e) \in DOMAIN table /\ other[EndpointRow(e)] = table[EndpointRow(e)]
  /\ \A e \in EndpointIds : LinkedEndpoint(u, e) \in DOMAIN other <=> LinkedEndpoint(u, e) \in DOMAIN table
  /\ \A h \in GroupIds : LinkedGroup(u, h) \in DOMAIN other <=> LinkedGroup(u, h) \in DOMAIN table

LEMMA SameOnly ==
  ASSUME NEW names, NEW more, \A v \in Users : names[v] \subseteq more[v], NEW u \in Users,
         NEW table, NEW other, SameFor(more, u, table, other)
  PROVE  \A e \in EndpointIds : OnlyOf(more, u, other, e) =>
           /\ OnlyOf(names, u, table, e) /\ other[EndpointRow(e)] = table[EndpointRow(e)]
           /\ ListedIn(table, u, e) => ListedIn(other, u, e)
  <1> SUFFICES ASSUME NEW e \in EndpointIds, OnlyOf(more, u, other, e)
               PROVE  /\ OnlyOf(names, u, table, e) /\ other[EndpointRow(e)] = table[EndpointRow(e)]
                      /\ ListedIn(table, u, e) => ListedIn(other, u, e)
    OBVIOUS
  <1>1. EndpointRow(e) \in DOMAIN table /\ other[EndpointRow(e)] = table[EndpointRow(e)]
    BY DEF OnlyOf, SameFor
  <1>2. OnlyOf(names, u, table, e)
    BY <1>1 DEF OnlyOf
  <1>3. ListedIn(table, u, e) => ListedIn(other, u, e)
    BY <1>1 DEF ListedIn, SameFor
  <1> QED
    BY <1>1, <1>2, <1>3

LEMMA ExactSame ==
  ASSUME NEW names, NEW more, \A v \in Users : names[v] \subseteq more[v], NEW u \in Users,
         NEW table, NEW other, SameFor(more, u, table, other), NEW pending, Exact(names, u, table, pending)
  PROVE  Exact(more, u, other, pending)
  BY SameOnly DEF Exact

LEMMA WorkSame ==
  ASSUME NEW names, NEW more, \A v \in Users : names[v] \subseteq more[v], NEW u \in Users, NEW g \in GroupIds,
         NEW tx, NEW step, NEW table, NEW other, NEW left \in SUBSET EndpointIds,
         SameFor(more, u, table, other), ExactWork(names, u, g, tx, step, table, left)
  PROVE  ExactWork(more, u, g, tx, step, other, left)
  <1>1. Exact(more, u, other, Pending(step, left))
    BY ExactSame DEF ExactWork
  <1>2. \A e \in EndpointIds : OnlyOf(more, u, other, e) =>
          OnlyOf(names, u, table, e) /\ other[EndpointRow(e)] = table[EndpointRow(e)]
    BY SameOnly
  <1>3. \A e \in Pending(step, left) : LinkedEndpoint(u, e) \notin DOMAIN other
    BY DEF ExactWork, SameFor, Pending
  <1>4. step = "used" => LinkedGroup(u, g) \notin DOMAIN other
    BY DEF ExactWork, SameFor
  <1> QED
    BY <1>1, <1>2, <1>3, <1>4 DEF ExactWork

LEMMA SameItself ==
  ASSUME NEW names, NEW u, NEW table
  PROVE  SameFor(names, u, table, table)
  BY DEF SameFor

\* What one user's transaction has written is not of another's alone.
LEMMA SameForOthers ==
  ASSUME Known, NamedInv, NEW r \in Requests, InFlight(r), NEW u \in Users \ {User(r)},
         NEW more, \A v \in Users : Named[v] \subseteq more[v], NEW table, NEW other,
         \A x : x \notin DOMAIN w[r] => /\ x \in DOMAIN other <=> x \in DOMAIN table
                                        /\ x \in DOMAIN table => other[x] = table[x]
  PROVE  SameFor(more, u, table, other)
  <1>1. Kinds(r) /\ NamedWork(Named, User(r), w[r], Left(r)) /\ User(r) \in Users
    BY CallFacts DEF Known, WriteInv, NamedInv, InFlight
  <1>2. \A e \in EndpointIds : LinkedEndpoint(u, e) \notin DOMAIN w[r]
    BY <1>1 DEF Kinds, Shape
  <1>3. \A h \in GroupIds : LinkedGroup(u, h) \notin DOMAIN w[r]
    BY <1>1 DEF Kinds, Shape
  <1>4. ASSUME NEW e \in EndpointIds, EndpointRow(e) \in DOMAIN other,
               \A v \in Users \ {u} : EndpointRow(e) \notin more[v]
        PROVE  EndpointRow(e) \in DOMAIN table /\ other[EndpointRow(e)] = table[EndpointRow(e)]
    <2>1. EndpointRow(e) \notin more[User(r)]
      BY <1>1, <1>4
    <2>2. EndpointRow(e) \notin DOMAIN w[r]
      BY <1>1, <2>1 DEF NamedWork
    <2> QED
      BY <1>4, <2>2
  <1> QED
    BY <1>2, <1>3, <1>4 DEF SameFor

\* The rows seen after a deletion.
LEMMA SeenDeleted ==
  ASSUME NEW r \in Requests, NEW some, w'[r] = Merge(w[r], Deletion(r, some)), db' = db
  PROVE  \A x : /\ x \in DOMAIN View(r)' <=> x \in DOMAIN View(r) /\ x \notin some
                /\ x \in DOMAIN View(r)' => View(r)'[x] = View(r)[x]
  <1> SUFFICES ASSUME NEW x
               PROVE  /\ x \in DOMAIN View(r)' <=> x \in DOMAIN View(r) /\ x \notin some
                      /\ x \in DOMAIN View(r)' => View(r)'[x] = View(r)[x]
    OBVIOUS
  <1>1. PICK writes : writes = Deletion(r, some)
    OBVIOUS
  <1>2. /\ Sees(r, x)' <=> IF x \in DOMAIN writes THEN writes[x] # Gone ELSE Sees(r, x)
        /\ Sees(r, x)' => View(r)'[x] = IF x \in DOMAIN writes THEN writes[x] ELSE View(r)[x]
    BY <1>1, SeesAfter
  <1>3. /\ x \in DOMAIN writes <=> x \in some /\ Sees(r, x)
        /\ x \in DOMAIN writes => writes[x] = Gone
    BY <1>1 DEF Deletion
  <1> QED
    BY <1>2, <1>3 DEF Sees

\* Statements of which nothing is pending: only what is listed matters.
LEMMA QuietWork ==
  ASSUME NEW names, NEW u, NEW g, NEW tx, NEW step, NEW table, NEW left,
         step \notin {"unlink", "used", "purge", "drop"}
  PROVE  ExactWork(names, u, g, tx, step, table, left) <=> Exact(names, u, table, {})
  <1>1. Pending(step, left) = {}
    BY DEF Pending
  <1> QED
    BY <1>1 DEF ExactWork

LEMMA ReadingExact ==
  ASSUME Known, NamedInv, NEW r \in Requests, InFlight(r), Silent(r),
         NEW names, NEW u \in Users, NEW g \in GroupIds, NEW table,
         names = Named, u = User(r), g = Group(r), table = View(r),
         ExactWork(names, u, g, Tx(r), pc[r], table, Left(r))
  PROVE  ExactWork(names, u, g, Tx(r), pc'[r], table, Left(r)')
  <1>0. /\ TypeInv /\ Located(r) /\ Reading(r) /\ todo[r] \subseteq EndpointIds
        /\ NamedIn(names, table)
    BY TxFacts, NamedOver DEF Known, NamedInv, NamedWork, Silent, View, TypeInv, TypeOK
  <1>1. CASE ListEndpoints(r)
    <2>0. PICK some : some = {e \in EndpointIds : /\ Sees(r, LinkedEndpoint(User(r), e))
                                                  /\ Tx(r) = "delete_group" => View(r)[EndpointRow(e)] = GroupRow(Group(r))}
      OBVIOUS
    <2>a. pc[r] = "list" /\ todo' = [todo EXCEPT ![r] = some] /\ Goto(r, "unlink")
      BY <1>1, <2>0 DEF ListEndpoints
    <2>1. pc[r] = "list" /\ pc'[r] = "unlink" /\ todo'[r] = some
      BY <1>0, <2>a, GotoFacts DEF TypeInv, TypeOK
    <2>2. PICK left : left = Left(r)'
      OBVIOUS
    <2>3. \A e \in EndpointIds : e \in left <=>
            /\ LinkedEndpoint(u, e) \in DOMAIN table
            /\ Tx(r) = "delete_group" => table[EndpointRow(e)] = GroupRow(g)
      <3>1. left = some
        BY <2>1, <2>2 DEF Left
      <3> QED
        BY <2>0, <3>1 DEF Sees
    <2>b. left \subseteq EndpointIds
      BY <2>0, <2>1, <2>2 DEF Left
    <2>4. Exact(names, u, table, {})
      BY <2>1, QuietWork
    <2>5. Pending("unlink", left) = {}
      BY DEF Pending
    <2> QED
      BY <2>1, <2>2, <2>3, <2>b, <2>4, <2>5 DEF ExactWork, Exact, ListedIn
  <1>2. CASE AccessFound(r)
    <2>1. pc[r] = "access" /\ IF Tx(r) = "manage_endpoint" THEN pc'[r] = "look"
                                                              ELSE pc'[r] = "unlink" /\ Tx(r) = "delete_endpoint"
      BY <1>0, <1>2, GotoFacts DEF AccessFound, Located
    <2>2. Exact(names, u, table, {})
      BY <2>1, QuietWork
    <2>3. CASE pc'[r] = "look"
      BY <2>2, <2>3, QuietWork
    <2>4. CASE pc'[r] = "unlink" /\ Tx(r) = "delete_endpoint"
      BY <2>2, <2>4 DEF ExactWork, Exact, Pending
    <2> QED
      BY <2>1, <2>3, <2>4
  <1>3. CASE FindGroup(r) \/ (ReadGroups(r) /\ pc'[r] = "create")
    <2>1. pc[r] \in {"find_group", "read_groups"} /\ pc'[r] \in {"update_group", "insert_group", "create"}
      BY <1>0, <1>3, GotoFacts DEF FindGroup, ReadGroups
    <2> QED
      BY <2>1, QuietWork
  <1>4. CASE GroupUsed(r)
    <2>1. /\ pc[r] = "used" /\ Tx(r) = "delete_group" /\ todo' = todo
          /\ pc'[r] = IF UsersOfGroup(r, Group(r)) # {} THEN "commit" ELSE "purge"
      BY <1>0, <1>4, GotoFacts DEF GroupUsed, Located, local
    <2>2. PICK left : left = Left(r)
      OBVIOUS
    <2>3. Left(r)' = left
      BY <2>1, <2>2 DEF Left
    <2>4. CASE UsersOfGroup(r, Group(r)) # {}
      <3>1. PICK v \in Users : LinkedGroup(v, g) \in DOMAIN table
        BY <2>4 DEF UsersOfGroup, Sees
      <3>2. v # u /\ GroupRow(g) \in names[v]
        BY <1>0, <2>1, <3>1 DEF ExactWork, NamedIn
      <3>3. \A e \in left : ~OnlyOf(names, u, table, e)
        BY <2>1, <2>2, <3>2 DEF ExactWork, OnlyOf
      <3>4. Exact(names, u, table, {})
        BY <2>1, <2>2, <3>3 DEF ExactWork, Exact, Pending
      <3> QED
        BY <2>1, <2>4, <3>4, QuietWork
    <2>5. CASE UsersOfGroup(r, Group(r)) = {}
      BY <2>1, <2>2, <2>3, <2>5 DEF ExactWork, Pending
    <2> QED
      BY <2>4, <2>5
  <1>5. ASSUME NEW f \in todo[r], PurgeEndpoint(r, f)
        PROVE  ExactWork(names, u, g, Tx(r), pc'[r], table, Left(r)')
    <2>1. /\ pc[r] = "purge" /\ f \in EndpointIds /\ todo'[r] = todo[r] \ {f}
          /\ IF UsersOfEndpoint(r, f) # {} THEN pc'[r] = "purge" ELSE at'[r] = f /\ pc'[r] = "drop"
      BY <1>0, <1>5, GotoFacts DEF PurgeEndpoint, TypeInv, TypeOK
    <2>2. PICK left : left = Left(r)
      OBVIOUS
    <2>3. left = todo[r]
      BY <2>1, <2>2 DEF Left
    <2>4. CASE UsersOfEndpoint(r, f) # {}
      <3>1. PICK v \in Users : LinkedEndpoint(v, f) \in DOMAIN table
        BY <2>4 DEF UsersOfEndpoint, Sees
      <3>2. LinkedEndpoint(u, f) \notin DOMAIN table
        BY <1>5, <2>1, <2>2, <2>3 DEF ExactWork, Pending
      <3>3. ~OnlyOf(names, u, table, f)
        BY <1>0, <2>1, <3>1, <3>2 DEF OnlyOf, NamedIn
      <3>4. Left(r)' = left \ {f} /\ pc'[r] = "purge"
        BY <2>1, <2>3, <2>4 DEF Left
      <3> QED
        BY <2>1, <2>2, <3>3, <3>4 DEF ExactWork, Exact, Pending
    <2>5. CASE UsersOfEndpoint(r, f) = {}
      <3>1. Left(r)' = left /\ pc'[r] = "drop"
        BY <1>5, <2>1, <2>3, <2>5 DEF Left
      <3> QED
        BY <2>1, <2>2, <3>1 DEF ExactWork, Pending
    <2> QED
      BY <2>4, <2>5
  <1>6. ASSUME NEW f \in todo[r], LookUp(r, f)
        PROVE  ExactWork(names, u, g, Tx(r), pc'[r], table, Left(r)')
    <2>1. pc[r] = "look" /\ pc'[r] \in {"update", "insert"}
      BY <1>0, <1>6, GotoFacts DEF LookUp
    <2> QED
      BY <2>1, QuietWork
  <1> QED
    BY <1>0, <1>1, <1>2, <1>3, <1>4, <1>5, <1>6 DEF Reading

\* What a removal lets go of.
LEMMA UnlinksAll ==
  ASSUME NEW r, todo[r] \subseteq EndpointIds
  PROVE  /\ \A e \in todo[r] : LinkedEndpoint(User(r), e) \in Unlinks(r)
         /\ Tx(r) = "delete_group" => LinkedGroup(User(r), Group(r)) \in Unlinks(r)
  BY DEF Unlinks, LinksTo

LEMMA UnlinkExact ==
  ASSUME Known, NEW r \in Requests, InFlight(r), Unlink(r),
         NEW names, NEW u \in Users, NEW g \in GroupIds, NEW table, NEW other,
         u = User(r), g = Group(r), table = View(r), other = View(r)', db' = db,
         ExactWork(names, u, g, Tx(r), pc[r], table, Left(r))
  PROVE  ExactWork(names, u, g, Tx(r), pc'[r], other, Left(r)')
  <1>0. /\ TypeInv /\ StoreInv /\ Located(r) /\ todo[r] \subseteq EndpointIds
    BY TxFacts DEF Known, TypeInv, TypeOK
  <1>1. /\ pc[r] = "unlink" /\ todo' = todo /\ Tx(r) \in Removing
        /\ w'[r] = Merge(w[r], Deletion(r, Unlinks(r)))
        /\ pc'[r] = IF Tx(r) = "delete_group" THEN "used" ELSE "purge"
    BY <1>0, GotoFacts DEF Unlink, Write, Located, StoreInv, Writes, local
  <1>2. PICK left, gone, tx : left = todo[r] /\ gone = Unlinks(r) /\ tx = Tx(r)
    OBVIOUS
  <1>3. Left(r) = left /\ Left(r)' = left /\ Pending("unlink", left) = {} /\ Pending(pc'[r], left) = left
    BY <1>1, <1>2 DEF Left, Pending
  <1>4. \A x : /\ x \in DOMAIN other <=> x \in DOMAIN table /\ x \notin gone
               /\ x \in DOMAIN other => other[x] = table[x]
    BY <1>1, <1>2, SeenDeleted
  <1>5. /\ \A e : EndpointRow(e) \notin gone
        /\ \A h : LinkedGroup(u, h) \in gone => tx = "delete_group" /\ h = g
        /\ \A e : LinkedEndpoint(u, e) \in gone => tx = "force_clean" \/ e \in left
        /\ \A e \in left : LinkedEndpoint(u, e) \in gone
        /\ tx = "delete_group" => LinkedGroup(u, g) \in gone
    BY <1>0, <1>2, UnlinksFacts, UnlinksAll
  <1>6. ASSUME NEW e \in EndpointIds, OnlyOf(names, u, other, e)
        PROVE  /\ OnlyOf(names, u, table, e) /\ other[EndpointRow(e)] = table[EndpointRow(e)]
               /\ ListedIn(other, u, e) \/ e \in left
    <2>1. OnlyOf(names, u, table, e) /\ other[EndpointRow(e)] = table[EndpointRow(e)]
      BY <1>4, <1>6 DEF OnlyOf
    <2>2. ListedIn(table, u, e)
      BY <1>1, <1>3, <2>1 DEF ExactWork, Exact
    <2>3. SUFFICES ASSUME e \notin left PROVE ListedIn(other, u, e)
      BY <2>1
    <2>4. tx = "delete_endpoint" \/ (tx = "delete_group" /\ table[EndpointRow(e)] # GroupRow(g))
      BY <1>1, <1>2, <1>3, <2>1, <2>3 DEF ExactWork
    <2>5. LinkedEndpoint(u, e) \in DOMAIN other
      BY <1>4, <1>5, <2>2, <2>3, <2>4 DEF ListedIn
    <2>6. PICK h \in GroupIds : table[EndpointRow(e)] = GroupRow(h) /\ LinkedGroup(u, h) \in DOMAIN table
      BY <2>2 DEF ListedIn
    <2>7. LinkedGroup(u, h) \in DOMAIN other
      BY <1>4, <1>5, <2>4, <2>6
    <2> QED
      BY <2>1, <2>5, <2>6, <2>7 DEF ListedIn
  <1>7. Exact(names, u, other, left)
    BY <1>6 DEF Exact
  <1>8. \A e \in left : LinkedEndpoint(u, e) \notin DOMAIN other
    BY <1>4, <1>5
  <1>9. tx = "delete_group" => \A e \in left :
          OnlyOf(names, u, other, e) => other[EndpointRow(e)] = GroupRow(g)
    BY <1>0, <1>1, <1>2, <1>3, <1>6 DEF ExactWork
  <1>10. pc'[r] = "used" => LinkedGroup(u, g) \notin DOMAIN other
    BY <1>1, <1>2, <1>4, <1>5
  <1> QED
    BY <1>1, <1>2, <1>3, <1>7, <1>8, <1>9, <1>10 DEF ExactWork

LEMMA DropExact ==
  ASSUME Known, NEW r \in Requests, InFlight(r), DropEndpoint(r) \/ DropGroups(r),
         NEW names, NEW u \in Users, NEW g \in GroupIds, NEW table, NEW other,
         u = User(r), g = Group(r), table = View(r), other = View(r)', db' = db,
         ExactWork(names, u, g, Tx(r), pc[r], table, Left(r))
  PROVE  ExactWork(names, u, g, Tx(r), pc'[r], other, Left(r)')
  <1>0. TypeInv /\ StoreInv /\ Located(r) /\ pc[r] # "idle"
    BY TxFacts DEF Known, InFlight
  <1>1. CASE DropEndpoint(r)
    <2>1. /\ pc[r] = "drop" /\ pc'[r] = "purge" /\ todo' = todo /\ at' = at
          /\ w'[r] = Merge(w[r], Deletion(r, Drops(r)))
      BY <1>0, <1>1, GotoFacts DEF DropEndpoint, Write, StoreInv, Writes, local
    <2>2. PICK left, f, gone : left = todo[r] /\ f = at[r] /\ gone = Drops(r)
      OBVIOUS
    <2>3. Pending(pc[r], Left(r)) = left \cup {f} /\ Pending(pc'[r], Left(r)') = left
      BY <2>1, <2>2 DEF Left, Pending
    <2>4. \A x : /\ x \in DOMAIN other <=> x \in DOMAIN table /\ x \notin gone
                 /\ x \in DOMAIN other => other[x] = table[x]
      BY <2>1, <2>2, SeenDeleted
    <2>5. \A v, e : /\ LinkedGroup(v, e) \notin gone /\ LinkedEndpoint(v, e) \notin gone
                    /\ EndpointRow(e) \in gone <=> e = f
      BY <2>2, DropsFacts
    <2>6. ASSUME NEW e \in EndpointIds, OnlyOf(names, u, other, e)
          PROVE  ListedIn(other, u, e) \/ e \in left
      <3>1. e # f /\ OnlyOf(names, u, table, e) /\ other[EndpointRow(e)] = table[EndpointRow(e)]
        BY <2>4, <2>5, <2>6 DEF OnlyOf
      <3>2. ListedIn(table, u, e) \/ e \in left
        BY <2>3, <3>1 DEF ExactWork, Exact
      <3> QED
        BY <2>4, <2>5, <3>1, <3>2 DEF ListedIn
    <2>7. \A e \in left : LinkedEndpoint(u, e) \notin DOMAIN other
      BY <2>3, <2>4 DEF ExactWork
    <2>8. Exact(names, u, other, left)
      BY <2>6 DEF Exact
    <2> QED
      BY <2>1, <2>3, <2>7, <2>8 DEF ExactWork
  <1>2. CASE DropGroups(r)
    <2>1. /\ pc[r] = "purge" /\ pc'[r] = "commit" /\ todo[r] = {}
          /\ w'[r] = Merge(w[r], Deletion(r, GroupsToDrop(r)))
      BY <1>0, <1>2, GotoFacts DEF DropGroups, Write, StoreInv, Writes
    <2>2. PICK gone : gone = GroupsToDrop(r)
      OBVIOUS
    <2>3. Pending(pc[r], Left(r)) = {}
      BY <2>1 DEF Left, Pending
    <2>4. \A x : /\ x \in DOMAIN other <=> x \in DOMAIN table /\ x \notin gone
                 /\ x \in DOMAIN other => other[x] = table[x]
      BY <2>1, <2>2, SeenDeleted
    <2>5. \A v, e : LinkedGroup(v, e) \notin gone /\ LinkedEndpoint(v, e) \notin gone /\ EndpointRow(e) \notin gone
      BY <1>0, <2>2, GroupsToDropFacts
    <2>6. SameFor(names, u, table, other)
      BY <2>4, <2>5 DEF SameFor
    <2>7. Exact(names, u, table, {})
      BY <2>3 DEF ExactWork
    <2>8. Exact(names, u, other, {})
      BY <2>6, <2>7, ExactSame
    <2> QED
      BY <2>1, <2>8, QuietWork
  <1> QED
    BY <1>1, <1>2

\* An addition takes nothing away, and lists what it puts.
LEMMA MoreExact ==
  ASSUME NEW names, NEW u \in Users, NEW table, NEW other, NEW writes,
         Exact(names, u, table, {}),
         \A x : IF x \in DOMAIN writes THEN x \in DOMAIN other
                ELSE /\ x \in DOMAIN other <=> x \in DOMAIN table
                     /\ x \in DOMAIN table => other[x] = table[x],
         \A e \in EndpointIds : EndpointRow(e) \in DOMAIN writes => ListedIn(other, u, e)
  PROVE  Exact(names, u, other, {})
  <1> SUFFICES ASSUME NEW e \in EndpointIds, OnlyOf(names, u, other, e), EndpointRow(e) \notin DOMAIN writes
               PROVE  ListedIn(other, u, e)
    BY DEF Exact
  <1>1. EndpointRow(e) \in DOMAIN table /\ other[EndpointRow(e)] = table[EndpointRow(e)]
    BY DEF OnlyOf
  <1>2. ListedIn(table, u, e)
    BY <1>1 DEF OnlyOf, Exact
  <1>3. \A x : x \in DOMAIN table => x \in DOMAIN other
    OBVIOUS
  <1> QED
    BY <1>1, <1>2, <1>3 DEF ListedIn

LEMMA PutExact ==
  ASSUME Known, TypeInv', StoreInv', AddInv, NEW r \in Requests, NEW writes, Wrote(r, writes), User(r) \notin disturbed,
         PutGroup(r) \/ PutEndpoint(r) \/ CreateDefault(r),
         NEW names, NEW u \in Users, NEW g \in GroupIds, NEW table, NEW other,
         u = User(r), g = Group(r), table = View(r), other = View(r)',
         ExactWork(names, u, g, Tx(r), pc[r], table, Left(r))
  PROVE  ExactWork(names, u, g, Tx(r), pc'[r], other, Left(r)')
  <1>0. /\ TypeInv /\ StoreInv /\ InFlight(r) /\ Located(r) /\ pc[r] # "idle"
        /\ w'[r] = Merge(w[r], writes) /\ Writing(r, writes) /\ db' = db
    BY TxFacts DEF Known, Wrote, InFlight
  <1>1. /\ pc[r] \in {"upsert_group", "insert_group", "update_group", "insert", "update", "create"}
        /\ pc'[r] \in {"commit", "look"}
    BY <1>0, GotoFacts DEF PutGroup, PutEndpoint, CreateDefault
  <1>2. Exact(names, u, table, {})
    BY <1>1, QuietWork
  <1>3. \A x : /\ x \in DOMAIN other <=> IF x \in DOMAIN writes THEN writes[x] # Gone ELSE x \in DOMAIN table
               /\ x \in DOMAIN other => other[x] = IF x \in DOMAIN writes THEN writes[x] ELSE table[x]
    BY <1>0, SeesAfter DEF Sees
  <1>4. SUFFICES ASSUME \A x \in DOMAIN writes : writes[x] # Gone
                 PROVE  \A e \in EndpointIds : EndpointRow(e) \in DOMAIN writes => ListedIn(other, u, e)
    <2>1. Tx(r) \in Adding /\ Shape(r, writes)
      BY <1>0, WritingShape DEF PutGroup, PutEndpoint, CreateDefault, Located, Adding
    <2>2. \A x \in DOMAIN writes : writes[x] # Gone
      BY <2>1 DEF Shape
    <2>3. Exact(names, u, other, {})
      BY <1>2, <1>3, <1>4, <2>2, MoreExact
    <2> QED
      BY <1>1, <2>3, QuietWork
  <1>5. CASE PutGroup(r) /\ writes = WritesGroup(r)
    <2>1. DOMAIN writes \subseteq {GroupRow(g), LinkedGroup(u, g)}
      BY <1>0, <1>5, WritesGroupFacts
    <2> QED
      BY <2>1, RowFacts
  <1>6. CASE PutEndpoint(r) /\ writes = PutsEndpoint(r)
    <2>1. PICK f : f = at[r]
      OBVIOUS
    <2>2. /\ EndpointRow(f) \in DOMAIN writes /\ writes[EndpointRow(f)] = GroupRow(g)
          /\ DOMAIN writes \subseteq {EndpointRow(f), ParamsRow(f), LinkedEndpoint(u, f)}
          /\ Sees(r, LinkedEndpoint(User(r), f))'
      BY <1>6, <2>1, PutExists
    <2>3. LinkedEndpoint(u, f) \in DOMAIN other /\ other[EndpointRow(f)] = GroupRow(g)
      BY <1>0, <1>3, <1>4, <2>2 DEF Sees, Wrote, User
    <2>4. Adds(r)
      BY <1>0, <1>6 DEF Adds, PutEndpoint, Located
    <2>5. LinkedGroup(u, g) \in DOMAIN table
      BY <1>6, <2>4 DEF PutEndpoint, AddInv, AddsAll, Sees
    <2>6. LinkedGroup(u, g) \in DOMAIN other
      BY <1>3, <1>4, <2>5
    <2>7. \A e : EndpointRow(e) \in DOMAIN writes => e = f
      BY <2>2, RowFacts
    <2> QED
      BY <2>3, <2>6, <2>7 DEF ListedIn
  <1>7. CASE CreateDefault(r) /\ writes = WritesDefault(r)
    <2>1. /\ DOMAIN writes = {GroupRow(r), EndpointRow(r), LinkedGroup(u, r), LinkedEndpoint(u, r)}
          /\ writes[EndpointRow(r)] = GroupRow(r)
      BY <1>0, <1>7, WritesDefaultFacts
    <2>2. /\ LinkedEndpoint(u, r) \in DOMAIN other /\ LinkedGroup(u, r) \in DOMAIN other
          /\ other[EndpointRow(r)] = GroupRow(r)
      BY <1>3, <1>4, <2>1
    <2>3. \A e : EndpointRow(e) \in DOMAIN writes => e = r
      BY <2>1, RowFacts
    <2> QED
      BY <2>2, <2>3 DEF ListedIn, GroupIds
  <1>8. ~Unlink(r) /\ ~DropEndpoint(r) /\ ~DropGroups(r)
    BY <1>1 DEF Unlink, DropEndpoint, DropGroups
  <1> QED
    BY <1>0, <1>5, <1>6, <1>7, <1>8 DEF Writing

LEMMA BegunExact ==
  ASSUME NEW names, NEW u \in Users, NEW table, Exact(names, u, table, {})
  PROVE  Exact(names, u, Over(table, Nothing), {})
  <1>1. SameFor(names, u, table, Over(table, Nothing))
    BY DEF SameFor, Over, Nothing
  <1> QED
    BY <1>1, ExactSame

LEMMA ExactKept ==
  ASSUME Known, Known', NamedInv, AddInv, ExactInv, [Next]_vars
  PROVE  ExactInv'
  <1>0. TypeInv /\ StoreInv /\ TypeInv' /\ StoreInv' /\ Alone
    BY DEF Known, AddInv
  <1>a. PICK more : more = Named'
    OBVIOUS
  <1>1. \A v \in Users : Named[v] \subseteq more[v]
    BY <1>a, NamedGrows
  \* Those who do nothing now, while another user's writes may be committed.
  <1>2. ASSUME NEW q \in Requests, Stands(q), InFlight(q)', User(q)' \notin disturbed',
               disturbed \subseteq disturbed',
               SameFor(more, User(q), View(q), View(q)')
        PROVE  ExactWork(more, User(q)', Group(q)', Tx(q)', pc'[q], View(q)', Left(q)')
    <2>1. /\ InFlight(q) /\ User(q)' = User(q) /\ Group(q)' = Group(q) /\ Tx(q)' = Tx(q)
          /\ pc'[q] = pc[q] /\ Left(q)' = Left(q) /\ User(q) \notin disturbed
      BY <1>2 DEF Stands, InFlight, User, Group, Tx, Left
    <2>2. User(q) \in Users /\ Group(q) \in GroupIds
      BY <1>0, <2>1, CallFacts DEF InFlight
    <2>3. Left(q) \in SUBSET EndpointIds
      BY <1>0, <2>1, TxFacts DEF TypeInv, TypeOK, Left, Located, EndpointIds
    <2>4. ExactWork(Named, User(q), Group(q), Tx(q), pc[q], View(q), Left(q))
      BY <2>1 DEF ExactInv
    <2> QED
      BY <1>1, <1>2, <2>1, <2>2, <2>3, <2>4, WorkSame
  <1>3. ASSUME UNCHANGED db, disturbed \subseteq disturbed'
        PROVE  /\ \A u \in Users \ disturbed' : Exact(more, u, db', {})
               /\ \A q \in Requests : Stands(q) /\ InFlight(q)' /\ User(q)' \notin disturbed' =>
                    ExactWork(more, User(q)', Group(q)', Tx(q)', pc'[q], View(q)', Left(q)')
    <2>1. \A u \in Users \ disturbed' : Exact(more, u, db', {})
      BY <1>1, <1>3, SameItself, ExactSame DEF ExactInv
    <2>2. ASSUME NEW q \in Requests, Stands(q)
          PROVE  SameFor(more, User(q), View(q), View(q)')
      BY <1>3, <2>2, SameItself DEF Stands, View
    <2> QED
      BY <1>2, <1>3, <2>1, <2>2
  <1>4. ASSUME NEW r \in Requests, NEW c \in Menu, Receive(r, c)
        PROVE  ExactInv'
    <2>1. OthersStand(r) /\ w'[r] = Nothing /\ db' = db /\ call'[r] = c /\ disturbed \subseteq disturbed'
      BY <1>0, <1>4, ReceiveTypes DEF TypeInv, PlaceInv, InFlight, OthersStand
    <2>2. PICK txs \in Plans \ {<<>>} : Accept(r, c, txs)
      BY <1>4 DEF Receive, AddApiGroup, UpdateApiGroup, DeleteApiGroup, ManageEndpoint, DeleteEndpoint,
             UploadConfig, GetApiGroups, Plans
    <2>3. Begin(r, txs, "ok", c.endpoints) /\ c.endpoints \in SUBSET Endpoints /\ c.user \in Users
      BY <2>2, StoreAssumption DEF Accept, Calls
    <2>4. pc'[r] \in FirstSteps /\ User(r)' \in Users
      BY <1>0, <2>1, <2>3, BegunAdds DEF User
    <2>5. ASSUME User(r)' \notin disturbed'
          PROVE  ExactWork(more, User(r)', Group(r)', Tx(r)', pc'[r], View(r)', Left(r)')
      <3>1. Exact(more, User(r)', View(r)', {})
        BY <1>3, <2>1, <2>4, <2>5, BegunExact DEF View
      <3> QED
        BY <2>4, <3>1, QuietWork DEF FirstSteps
    <2> QED
      BY <1>a, <1>3, <2>1, <2>5 DEF ExactInv, OthersStand
  <1>5. ASSUME NEW r \in Requests, Handle(r)
        PROVE  ExactInv'
    <2>1. /\ OthersStand(r) /\ InFlight(r) /\ pc[r] # "idle"
          /\ UNCHANGED <<call, disturbed>> /\ User(r)' = User(r) /\ Group(r)' = Group(r)
          /\ User(r) \in Users /\ Group(r) \in GroupIds
      BY <1>0, <1>5, HandleTypes, StepKinds, GoesOn, CallFacts DEF Kept, OthersStand, InFlight, User, Group
    <2>2. User(r) \notin disturbed => ExactWork(Named, User(r), Group(r), Tx(r), pc[r], View(r), Left(r))
      BY <2>1 DEF ExactInv
    \* Within the transaction.
    <2>3. ASSUME UNCHANGED <<db, plan>>,
                 User(r) \notin disturbed => ExactWork(Named, User(r), Group(r), Tx(r), pc'[r], View(r)', Left(r)')
          PROVE  ExactInv'
      <3>1. ASSUME User(r)' \notin disturbed', InFlight(r)'
            PROVE  ExactWork(more, User(r)', Group(r)', Tx(r)', pc'[r], View(r)', Left(r)')
        <4>1. Left(r)' \in SUBSET EndpointIds
          BY <1>0, <2>1, <3>1 DEF TypeInv, TypeOK, PlaceInv, Left, Located, EndpointIds
        <4>2. SameFor(more, User(r), View(r)', View(r)') /\ Tx(r)' = Tx(r)
          BY <2>3, SameItself DEF Tx
        <4> QED
          BY <1>1, <2>1, <2>3, <3>1, <4>1, <4>2, WorkSame
      <3> QED
        BY <1>a, <1>3, <2>1, <2>3, <3>1 DEF ExactInv, OthersStand
    <2>4. CASE Silent(r)
      <3>1. View(r)' = View(r)
        BY <2>4 DEF Silent, View
      <3>2. ASSUME User(r) \notin disturbed
            PROVE  ExactWork(Named, User(r), Group(r), Tx(r), pc'[r], View(r), Left(r)')
        BY <2>1, <2>2, <2>4, <3>2, ReadingExact
      <3> QED
        BY <2>3, <2>4, <3>1, <3>2 DEF Silent
    <2>5. ASSUME NEW writes, Wrote(r, writes)
          PROVE  ExactInv'
      <3>1. UNCHANGED <<db, plan>>
        BY <2>5 DEF Wrote
      <3>2. ASSUME User(r) \notin disturbed
            PROVE  ExactWork(Named, User(r), Group(r), Tx(r), pc'[r], View(r)', Left(r)')
        <4>1. CASE Unlink(r)
          BY <2>1, <2>2, <3>1, <3>2, <4>1, UnlinkExact
        <4>2. CASE DropEndpoint(r) \/ DropGroups(r)
          BY <2>1, <2>2, <3>1, <3>2, <4>2, DropExact
        <4>3. CASE PutGroup(r) \/ PutEndpoint(r) \/ CreateDefault(r)
          BY <1>0, <2>1, <2>2, <2>5, <3>2, <4>3, PutExact
        <4> QED
          BY <2>5, <4>1, <4>2, <4>3 DEF Wrote, Writing
      <3> QED
        BY <2>3, <3>1, <3>2
    \* At its end.
    <2>6. ASSUME Commit(r) \/ Ends(r), \A u \in Users \ disturbed : Exact(more, u, db', {})
          PROVE  InFlight(r)' /\ User(r)' \notin disturbed' =>
                   ExactWork(more, User(r)', Group(r)', Tx(r)', pc'[r], View(r)', Left(r)')
      <3> SUFFICES ASSUME InFlight(r)', User(r)' \notin disturbed'
                   PROVE  ExactWork(more, User(r)', Group(r)', Tx(r)', pc'[r], View(r)', Left(r)')
        OBVIOUS
      <3>1. w'[r] = Nothing /\ pc'[r] \in FirstSteps
        BY <2>6, EndAdds DEF InFlight
      <3>2. Exact(more, User(r)', View(r)', {})
        BY <2>1, <2>6, <3>1, BegunExact DEF View
      <3> QED
        BY <3>1, <3>2, QuietWork DEF FirstSteps
    <2>7. CASE RolledBack(r)
      <3>1. db' = db /\ Ends(r) /\ \A u \in Users \ disturbed : Exact(more, u, db', {})
        BY <1>3, <2>1, <2>7 DEF RolledBack
      <3> QED
        BY <1>a, <1>3, <2>1, <2>6, <3>1 DEF ExactInv, OthersStand
    <2>8. CASE Commit(r)
      <3>1. db' = View(r) /\ pc[r] = "commit"
        BY <2>8 DEF Commit
      <3>2. ASSUME NEW u \in Users \ disturbed
            PROVE  Exact(more, u, db', {})
        <4>1. CASE u = User(r)
          <5>1. Exact(Named, u, View(r), {})
            BY <2>2, <3>1, <3>2, <4>1, QuietWork
          <5> QED
            BY <1>1, <3>1, <5>1, SameItself, ExactSame
        <4>2. CASE u # User(r)
          <5>1. \A x : x \notin DOMAIN w[r] => /\ x \in DOMAIN db' <=> x \in DOMAIN db
                                               /\ x \in DOMAIN db => db'[x] = db[x]
            BY <3>1 DEF View, Over
          <5>2. SameFor(more, u, db, db')
            BY <1>1, <2>1, <4>2, <5>1, SameForOthers
          <5> QED
            BY <1>1, <3>2, <5>2, ExactSame DEF ExactInv
        <4> QED
          BY <4>1, <4>2
      <3>3. ASSUME NEW q \in Requests \ {r}, InFlight(q)', User(q)' \notin disturbed'
            PROVE  ExactWork(more, User(q)', Group(q)', Tx(q)', pc'[q], View(q)', Left(q)')
        <4>1. Stands(q) /\ InFlight(q) /\ User(q) \notin disturbed /\ User(q)' = User(q)
          BY <2>1, <3>3 DEF OthersStand, Stands, InFlight, User
        <4>2. User(q) # User(r) /\ User(q) \in Users /\ ApartBy(w[q], w[r]) /\ w'[q] = w[q]
          BY <1>0, <2>1, <4>1, CallFacts DEF Alone, InFlight, StoreInv, Apart, Stands
        <4>3. \A x : x \notin DOMAIN w[r] => /\ x \in DOMAIN View(q)' <=> x \in DOMAIN View(q)
                                             /\ x \in DOMAIN View(q) => View(q)'[x] = View(q)[x]
          BY <3>1, <4>2, SeesCommitted DEF Sees
        <4>4. SameFor(more, User(q), View(q), View(q)')
          BY <1>1, <2>1, <4>2, <4>3, SameForOthers
        <4> QED
          BY <1>2, <2>1, <3>3, <4>1, <4>4
      <3> QED
        BY <1>a, <2>1, <2>6, <2>8, <3>2, <3>3 DEF ExactInv
    <2> QED
      BY <1>0, <1>5, <2>4, <2>5, <2>7, <2>8, StepKinds
  <1>6. CASE Crash
    <2>1. db' = db /\ disturbed' = disturbed /\ \A r \in Requests : ~InFlight(r)'
      BY <1>6 DEF Crash, InFlight, Ended, history
    <2> QED
      BY <1>a, <1>3, <2>1 DEF ExactInv
  <1>7. CASE UNCHANGED vars
    <2>1. db' = db /\ disturbed' = disturbed /\ \A r \in Requests : Stands(r)
      BY <1>7 DEF vars, Stands
    <2> QED
      BY <1>a, <1>3, <2>1 DEF ExactInv
  <1> QED
    BY <1>4, <1>5, <1>6, <1>7 DEF Next, Finished

\* At the start every group and every endpoint is linked by someone who thereby
\* names it, and nobody is at a call.
LEMMA InitExact == Init => ExactInv
  <1> SUFFICES ASSUME Init PROVE ExactInv
    OBVIOUS
  <1>1. db = Opening /\ \A r \in Requests : ~InFlight(r)
    BY DEF Init, InFlight
  <1>2. PICK names : names = Named
    OBVIOUS
  <1>3. NamedIn(names, Opening)
    BY <1>1, <1>2, InitNamed DEF NamedInv
  <1>4. ASSUME NEW u \in Users, NEW e \in EndpointIds, OnlyOf(names, u, Opening, e)
        PROVE  ListedIn(Opening, u, e)
    <2>1. EndpointRow(e) \in DOMAIN Opening
      BY <1>4 DEF OnlyOf
    <2>2. PICK v \in Users : LinkedEndpoint(v, e) \in DOMAIN Opening
      BY <2>1, StoreAssumption DEF AllUsed
    <2>3. v = u
      BY <1>3, <1>4, <2>2 DEF OnlyOf, NamedIn
    <2>4. PICK h \in GroupIds : Opening[EndpointRow(e)] = GroupRow(h)
      <3>1. IsTable(Opening, {}) /\ Targets(EndpointRow(e)) = {GroupRow(h) : h \in GroupIds}
        BY TargetFacts, StoreAssumption
      <3> QED
        BY <2>1, <3>1 DEF IsTable
    <2>5. GroupRow(h) \in DOMAIN Opening
      <3>1. GroupRow(h) \in Keys
        BY DEF Keys
      <3> QED
        BY <2>1, <2>4, <3>1, StoreAssumption DEF RefsHold
    <2>6. PICK o \in Users : LinkedGroup(o, h) \in DOMAIN Opening
      BY <2>5, StoreAssumption DEF AllUsed
    <2>7. o = u
      BY <1>3, <1>4, <2>4, <2>6 DEF OnlyOf, NamedIn
    <2> QED
      BY <2>2, <2>3, <2>4, <2>6, <2>7 DEF ListedIn
  <1> QED
    BY <1>1, <1>2, <1>4 DEF ExactInv, Exact

\* Nothing of what only one user names, who makes one call at a time, is stored
\* unlisted or listed without its group: what a removal unlinks it deletes, in
\* the same transaction, whatever the transactions of others do meanwhile.
THEOREM PrivateStaysExact == Spec => []PrivateIsExact
  <1>1. ASSUME Known, ExactInv
        PROVE  PrivateIsExact
    <2>1. SUFFICES ASSUME NEW u \in Users \ disturbed, NEW e \in EndpointIds,
                          Exists(EndpointRow(e)),
                          Private(u, EndpointRow(e)), Private(u, db[EndpointRow(e)])
                   PROVE  Listed(u, e)
      BY DEF PrivateIsExact
    <2>2. \A v \in Users \ {u} : EndpointRow(e) \notin Named[v] /\ db[EndpointRow(e)] \notin Named[v]
      BY <2>1 DEF Private, Named
    <2>3. OnlyOf(Named, u, db, e)
      BY <2>1, <2>2 DEF OnlyOf, Exists
    <2>4. ListedIn(db, u, e)
      BY <1>1, <2>1, <2>3 DEF ExactInv, Exact
    <2> QED
      BY <2>4 DEF ListedIn, Listed, Exists
  <1>2. Spec => []AddInv
    BY InitAdds, AddKept, KnownAlways, PTL DEF Spec
  <1>3. Spec => []NamedInv
    BY InitNamed, NamedKept, KnownAlways, PTL DEF Spec
  <1>4. Spec => []ExactInv
    BY <1>2, <1>3, InitExact, ExactKept, KnownAlways, PTL DEF Spec
  <1> QED
    BY <1>1, <1>4, KnownAlways, PTL
=============================================================================
