------------------------ MODULE TenantDirectoryProofs ------------------------
(***************************************************************************)
(* The safety theorems of TenantDirectory, for any users, requests and     *)
(* tenant ids.                                                             *)
(*                                                                         *)
(* The argument: a tenant belongs to one user for ever, so all that is to  *)
(* be known can be said user by user (UserInv), and a step made for one    *)
(* user leaves what is known of the others as it is (UntouchedKeeps).      *)
(***************************************************************************)
EXTENDS TenantDirectory, TLAPS

\* r has begun, for user u.
IsOf(r, u) == pc[r] # "idle" /\ User(r) = u
Runs(r, u) == pc[r] \in InFlight /\ User(r) = u

\* The steps at which a request holds a tenant it has itself inserted.
Creating == {"link", "setDefault", "readLegacy", "addLegacy", "clearLegacy"}

-----------------------------------------------------------------------------
(* What is known of a user.                                                *)

\* The default is the user's own, and a member while it exists.
DefaultInv(u) ==
  /\ default[u] # None => owner[default[u]] = u
  /\ u \in prefs /\ default[u] \in tenants => <<default[u], u>> \in members

Kept(u) == \E t \in TenantOf(u) : credits[t] >= LegacyCredits[u]

\* The credits are where they were, or have come to a tenant.
LegacyInv(u) ==
  u \notin removed =>
    /\ u \in InitialPrefs => u \in prefs
    /\ legacy[u] \in {0, LegacyCredits[u]}
    /\ legacy[u] = LegacyCredits[u] \/ Kept(u)

\* A request of the user has a tenant of the user.  One it has inserted is
\* there unless the account was removed, and nobody else knows it before it
\* becomes the default.
RequestInv(r, u) ==
  /\ tid[r] # None => owner[tid[r]] = u
  /\ pc[r] \in Creating => tid[r] # None /\ (u \notin removed => tid[r] \in tenants)
  /\ pc[r] \in {"link", "setDefault"} =>
       /\ tid[r] \in tenants => name[tid[r]] = u
       /\ default[u] # tid[r]
       /\ \A q \in Requests \ {r} : IsOf(q, u) => tid[q] # tid[r]
  /\ pc[r] = "setDefault" /\ tid[r] \in tenants => <<tid[r], u>> \in members
  /\ u \notin removed /\ pc[r] = "addLegacy" => old[r] = LegacyCredits[u]
  /\ u \notin removed /\ pc[r] = "clearLegacy" => Kept(u)

\* No call of the user has got to the insertion of a tenant ...
Unborn(u) == TenantOf(u) = {} /\ default[u] = None /\ legacy[u] = LegacyCredits[u]

\* ... one is under way with tenant t ...
Born(u, t) == u \in prefs /\ TenantOf(u) = {t}

\* ... or one has finished.
Settled(u) ==
  /\ Born(u, default[u])
  /\ credits[default[u]] = LegacyCredits[u]
  /\ legacy[u] = 0

\* Where the only call of an undisturbed user is.
Progress(r, u) ==
  /\ pc[r] = "find" => Unborn(u) \/ Settled(u)
  /\ pc[r] = "exists" => Unborn(u)
  /\ pc[r] = "insertPrefs" => Unborn(u) /\ u \notin prefs
  /\ pc[r] = "insertTenant" => Unborn(u) /\ u \in prefs
  /\ pc[r] \in Creating => Born(u, tid[r]) /\ legacy[u] = LegacyCredits[u]
  /\ pc[r] \in Creating \ {"clearLegacy"} => credits[tid[r]] = 0
  /\ pc[r] \in {"link", "setDefault"} => default[u] = None
  /\ pc[r] \in {"readLegacy", "addLegacy", "clearLegacy"} => default[u] = tid[r]
  /\ pc[r] \in {"addLegacy", "clearLegacy"} => LegacyCredits[u] > 0
  /\ pc[r] = "addLegacy" => old[r] = LegacyCredits[u]
  /\ pc[r] = "clearLegacy" => credits[tid[r]] = LegacyCredits[u]
  /\ pc[r] = "use" => Settled(u) /\ tid[r] = default[u]

\* The call was answered, or asked for a client id that another tenant has.
Answered(r) ==
  pc[r] = "ok" \/ (pc[r] = "refused" /\ req[r].purpose = "client" /\ req[r].value # None)

CalmInv(u) ==
  u \notin disturbed =>
    /\ u \notin mixed
    /\ \A q, r \in Requests : Runs(q, u) /\ Runs(r, u) => q = r
    /\ \A r \in Requests : Runs(r, u) => Progress(r, u)
    /\ (\A r \in Requests : ~Runs(r, u)) => Unborn(u) \/ Settled(u)
    /\ \A r \in Requests : IsOf(r, u) /\ pc[r] \in Ended =>
         Answered(r) /\ Settled(u) /\ tid[r] = default[u]

UserInv(u) ==
  /\ DefaultInv(u)
  /\ LegacyInv(u)
  /\ \A r \in Requests : IsOf(r, u) => RequestInv(r, u)
  /\ CalmInv(u)

\* What is known beside the types of requests and ids not used yet.
IdleInv ==
  /\ \A r \in Requests : pc[r] = "idle" => tid[r] = None
  /\ \A r \in Requests : pc[r] # "idle" => req[r] \in Calls
  /\ \A r \in Requests : tid[r] # None => tid[r] \in Issued
  /\ \A t \in TenantIds \ Issued : credits[t] = 0

DirInv ==
  /\ TypeOK
  /\ IdleInv
  /\ \A u \in Users : UserInv(u)

-----------------------------------------------------------------------------
(* Steps made for others.                                                  *)

\* What may change, none of it undoing what is known of u.
Untouched(u) ==
  /\ u \in prefs' <=> u \in prefs
  /\ u \in mixed' => u \in mixed
  /\ u \in removed => u \in removed'
  /\ u \in disturbed => u \in disturbed'
  /\ default'[u] = default[u] /\ legacy'[u] = legacy[u]
  /\ \A t \in TenantIds :
       /\ owner'[t] = u <=> owner[t] = u
       /\ owner[t] = u =>
            /\ t \in tenants' <=> t \in tenants
            /\ name'[t] = name[t]
            /\ credits'[t] = credits[t]
            /\ <<t, u>> \in members => <<t, u>> \in members'
  /\ \A r \in Requests :
       /\ IsOf(r, u)' <=> IsOf(r, u)
       /\ IsOf(r, u) => pc'[r] = pc[r] /\ req'[r] = req[r] /\ tid'[r] = tid[r] /\ old'[r] = old[r]

LEMMA UntouchedKeeps ==
  ASSUME NEW u \in Users, TypeOK, TypeOK', UserInv(u), Untouched(u)
  PROVE  UserInv(u)'
  <1>1. DefaultInv(u)'
    <2>1. PICK d \in TenantIds \cup {None} : d = default[u] /\ d = default'[u]
      BY DEF TypeOK, Untouched
    <2>2. DefaultInv(u)
      BY DEF UserInv
    <2>3. CASE d = None
      BY <2>1, <2>3, DirectoryAssumption DEF DefaultInv, TypeOK, Issued
    <2>4. CASE d \in TenantIds /\ owner[d] = u
      BY <2>1, <2>2, <2>4, DirectoryAssumption DEF DefaultInv, Untouched
    <2> QED
      BY <2>1, <2>2, <2>3, <2>4 DEF DefaultInv
  <1>2. TenantOf(u)' = TenantOf(u) /\ TenantOf(u) \subseteq TenantIds
    <2>1. tenants \subseteq TenantIds /\ tenants' \subseteq TenantIds
      BY DEF TypeOK, Issued
    <2> QED
      BY <2>1 DEF TenantOf, Untouched
  <1>3. Kept(u)' <=> Kept(u)
    BY <1>2 DEF Kept, Untouched, TypeOK, TenantOf
  <1>4. LegacyInv(u)'
    BY <1>3 DEF UserInv, LegacyInv, Untouched
  <1>5. ASSUME NEW r \in Requests, IsOf(r, u)'
        PROVE  RequestInv(r, u)'
    <2>1. IsOf(r, u) /\ RequestInv(r, u)
      BY <1>5 DEF UserInv, Untouched
    <2>2. pc'[r] = pc[r] /\ tid'[r] = tid[r] /\ old'[r] = old[r] /\ tid[r] \in TenantIds \cup {None}
      BY <2>1 DEF Untouched, TypeOK
    <2> QED
      BY <1>3, <2>1, <2>2 DEF RequestInv, Untouched, Creating
  <1>6. Unborn(u)' <=> Unborn(u)
    BY <1>2 DEF Unborn, Untouched
  <1>7. \A t : Born(u, t)' <=> Born(u, t)
    BY <1>2 DEF Born, Untouched
  <1>8. ASSUME NEW t, Born(u, t)
         PROVE  credits'[t] = credits[t]
    <2>1. t \in TenantOf(u)
      BY <1>8 DEF Born
    <2> QED
      BY <1>2, <2>1 DEF TenantOf, Untouched
  <1>9. Settled(u)' <=> Settled(u)
    BY <1>7, <1>8 DEF Settled, Untouched
  <1>10. \A r \in Requests : Runs(r, u)' <=> Runs(r, u)
    BY DEF Runs, IsOf, Untouched, InFlight
  <1>11. ASSUME NEW r \in Requests, Runs(r, u), Progress(r, u)
         PROVE  Progress(r, u)'
    <2>1. pc'[r] = pc[r] /\ tid'[r] = tid[r] /\ old'[r] = old[r]
      BY <1>11 DEF Runs, IsOf, Untouched, InFlight
    <2> QED
      BY <1>6, <1>7, <1>9, <1>11, <1>8, <2>1 DEF Progress, Untouched, Creating
  <1>12. CalmInv(u)'
    <2>1. SUFFICES ASSUME u \notin disturbed'
                   PROVE  CalmInv(u)'
      BY DEF CalmInv
    <2>2. u \notin disturbed /\ CalmInv(u) /\ u \notin mixed'
      BY <2>1 DEF UserInv, CalmInv, Untouched
    <2>3. ASSUME NEW r \in Requests, IsOf(r, u)', pc'[r] \in Ended
          PROVE  Answered(r)' /\ Settled(u)' /\ tid'[r] = default'[u]
      <3>1. IsOf(r, u) /\ pc'[r] = pc[r] /\ req'[r] = req[r] /\ tid'[r] = tid[r] /\ default'[u] = default[u]
        BY <2>3 DEF Untouched
      <3> QED
        BY <1>9, <2>2, <2>3, <3>1 DEF CalmInv, Answered
    <2> QED
      BY <1>6, <1>9, <1>10, <1>11, <2>2, <2>3 DEF CalmInv
  <1> QED
    BY <1>1, <1>4, <1>5, <1>12 DEF UserInv

-----------------------------------------------------------------------------
(* Types, and what is not used yet.                                        *)

LEMMA CallFacts ==
  ASSUME NEW c \in Calls
  PROVE  /\ c.user \in Users
         /\ c.purpose = "rename" => c.value \in Names
         /\ c.purpose = "client" => c.value \in ClientIds \cup {None}
  BY DEF Calls

LEMMA StartKeepsTypes ==
  ASSUME TypeOK, IdleInv, NEW r \in Requests, NEW c \in Menu, Start(r, c)
  PROVE  TypeOK' /\ IdleInv'
  <1>1. c \in Calls /\ c.user \in Users /\ req' = [req EXCEPT ![r] = c]
    BY MenuAssumption, CallFacts DEF Start
  <1>2. /\ pc' = [pc EXCEPT ![r] = "find"] /\ pc[r] = "idle"
        /\ UNCHANGED <<rowVars, tid, old, removed, bereft>>
        /\ disturbed \subseteq disturbed' /\ disturbed' \subseteq Users
    BY <1>1 DEF Start, Goto, TypeOK
  <1>3. TypeOK'
    BY <1>1, <1>2 DEF TypeOK, rowVars, InFlight, Issued
  <1>4. IdleInv'
    BY <1>1, <1>2 DEF TypeOK, IdleInv, rowVars, Issued
  <1> QED
    BY <1>3, <1>4

LEMMA HandleKeepsTypes ==
  ASSUME TypeOK, IdleInv, NEW r \in Requests, Handle(r) \/ DbFails(r)
  PROVE  TypeOK' /\ IdleInv'
  <1>0. PICK u \in Users : u = User(r) /\ pc[r] \in InFlight
    <2>1. pc[r] \in InFlight
      BY DEF Handle, InFlight, DbFails, FindDefault, CheckExists, InsertPrefs, InsertTenant, LinkUser, SetDefault,
             ReadLegacy, AddLegacy, ClearLegacy, Rename, SetClientId, Refused, StatementRefused
    <2>2. req[r] \in Calls
      BY <2>1 DEF IdleInv, InFlight
    <2> QED
      BY <2>1, <2>2, CallFacts DEF User
  <1>1. PICK step \in InFlight \cup Ended : pc' = [pc EXCEPT ![r] = step]
    BY DEF Handle, InFlight, Ended, Goto, Resolved, DbFails, FindDefault, CheckExists, InsertPrefs, InsertTenant,
           LinkUser, SetDefault, ReadLegacy, AddLegacy, ClearLegacy, Rename, SetClientId, Refused
  <1>2. req' = req /\ pc' \in [Requests -> {"idle"} \cup InFlight \cup Ended]
        /\ \A q \in Requests : pc'[q] = "idle" => pc[q] = "idle" /\ q # r
    <2>1. req' = req
      BY DEF Handle, DbFails, FindDefault, CheckExists, InsertPrefs, InsertTenant, reqVars,
             LinkUser, SetDefault, ReadLegacy, AddLegacy, ClearLegacy, Rename, SetClientId, Refused
    <2>2. step # "idle"
      BY DEF InFlight, Ended
    <2> QED
      BY <1>1, <2>1, <2>2 DEF TypeOK
  <1>3. \A q \in Requests : pc'[q] # "idle" => req'[q] \in Calls
    BY <1>0, <1>1, <1>2 DEF IdleInv, TypeOK, InFlight
  <1>4. CASE FindDefault(r)
    <2>1. /\ UNCHANGED <<rowVars, old, histVars>>
          /\ tid' = tid \/ (default[u] \in tenants /\ tid' = [tid EXCEPT ![r] = default[u]])
      BY <1>0, <1>4 DEF FindDefault
    <2>2. TypeOK'
      BY <1>2, <2>1 DEF TypeOK, rowVars, histVars, Issued
    <2>3. IdleInv'
      BY <1>2, <1>3, <2>1 DEF TypeOK, IdleInv, rowVars, Issued
    <2> QED
      BY <2>2, <2>3
  <1>5. CASE CheckExists(r) \/ Refused(r)
    BY <1>2, <1>3, <1>5 DEF CheckExists, Refused, TypeOK, IdleInv, rowVars, reqVars, histVars, Issued
  <1>6. CASE DbFails(r)
    BY <1>0, <1>2, <1>3, <1>6 DEF DbFails, TypeOK, IdleInv, rowVars, reqVars, Issued
  <1>7. CASE InsertPrefs(r)
    BY <1>0, <1>2, <1>3, <1>7 DEF InsertPrefs, TypeOK, IdleInv, reqVars, histVars, Issued
  <1>8. CASE \E t \in TenantIds : InsertTenant(r, t)
    <2>1. PICK t \in TenantIds : InsertTenant(r, t)
      BY <1>8
    <2>2. u # None
      BY DirectoryAssumption
    <2>3. owner' \in [TenantIds -> Users \cup {None}] /\ Issued' = Issued \cup {t}
      BY <1>0, <2>1, <2>2 DEF InsertTenant, TypeOK, Issued
    <2>4. /\ name' \in [TenantIds -> Names \cup {None}] /\ client' = client
          /\ \A s \in TenantIds \ tenants' : name'[s] = None /\ client'[s] = None
      BY <1>0, <2>1 DEF InsertTenant, TypeOK, Names
    <2>5. TypeOK'
      BY <1>2, <2>1, <2>3, <2>4 DEF InsertTenant, TypeOK, histVars
    <2>6. IdleInv'
      BY <1>2, <1>3, <2>1, <2>3 DEF InsertTenant, TypeOK, IdleInv
    <2> QED
      BY <2>5, <2>6
  <1>9. CASE LinkUser(r)
    BY <1>0, <1>2, <1>3, <1>9 DEF LinkUser, TypeOK, IdleInv, reqVars, histVars, Issued
  <1>10. CASE SetDefault(r)
    BY <1>0, <1>2, <1>3, <1>10 DEF SetDefault, TypeOK, IdleInv, reqVars, histVars, Issued
  <1>11. CASE ReadLegacy(r)
    BY <1>0, <1>2, <1>3, <1>11 DEF ReadLegacy, TypeOK, IdleInv, rowVars, histVars, Issued
  <1>12. CASE AddLegacy(r)
    <2>1. UNCHANGED <<prefs, mixed, default, legacy, tenants, owner, name, client, members, tid, old, disturbed, removed, bereft>>
      BY <1>12 DEF AddLegacy, reqVars, histVars
    <2>2. credits' \in [TenantIds -> Nat] /\ \A t \in TenantIds \ tenants : credits'[t] = credits[t]
      BY <1>12 DEF AddLegacy, TypeOK, Issued
    <2> QED
      BY <1>2, <1>3, <2>1, <2>2 DEF TypeOK, IdleInv, Issued
  <1>13. CASE ClearLegacy(r)
    BY <1>0, <1>2, <1>3, <1>13 DEF ClearLegacy, TypeOK, IdleInv, reqVars, histVars, Issued
  <1>14. ASSUME NEW column, NEW column0 \in [TenantIds -> column], req[r].value \in column,
                \A t \in TenantIds \ tenants : column0[t] = None
         PROVE  /\ Written(column0, r) \in [TenantIds -> column]
                /\ \A t \in TenantIds \ tenants : Written(column0, r)[t] = None
    BY <1>14 DEF Written
  <1>15. CASE Rename(r)
    <2>1. req[r].value \in Names \cup {None}
      BY <1>0, <1>15, CallFacts DEF IdleInv, InFlight, Rename
    <2>2. name' \in [TenantIds -> Names \cup {None}] /\ \A t \in TenantIds \ tenants : name'[t] = None
      BY <1>14, <1>15, <2>1 DEF Rename, TypeOK
    <2> QED
      BY <1>2, <1>3, <1>15, <2>2 DEF Rename, TypeOK, IdleInv, reqVars, histVars, Issued
  <1>16. CASE SetClientId(r)
    <2>1. req[r].value \in ClientIds \cup {None}
      BY <1>0, <1>16, CallFacts DEF IdleInv, InFlight, SetClientId
    <2>2. client' \in [TenantIds -> ClientIds \cup {None}] /\ \A t \in TenantIds \ tenants : client'[t] = None
      BY <1>14, <1>16, <2>1 DEF SetClientId, TypeOK
    <2> QED
      BY <1>2, <1>3, <1>16, <2>2 DEF SetClientId, TypeOK, IdleInv, reqVars, histVars, Issued
  <1> QED
    BY <1>4, <1>5, <1>6, <1>7, <1>8, <1>9, <1>10, <1>11, <1>12, <1>13, <1>15, <1>16 DEF Handle

\* Tenants and what refers to them go together.
LEMMA DeletingKeepsTypes ==
  ASSUME TypeOK, IdleInv, NEW gone \in SUBSET tenants, NEW u \in Users, DeleteTenants(gone), Losing(u, gone),
         prefs' \subseteq Users, mixed' \subseteq Users,
         default' \in [Users -> TenantIds \cup {None}], legacy' \in [Users -> Nat],
         members' \subseteq members, \A m \in members' : m[1] \notin gone /\ m[2] \in prefs',
         removed' = removed \cup {owner[t] : t \in gone}
           \/ removed' = removed \cup {u} \cup {owner[t] : t \in gone}
  PROVE  TypeOK' /\ IdleInv'
  <1>1. Issued' = Issued /\ \A t \in gone : owner[t] \in Users
    BY DEF Losing, Issued, TypeOK
  <1>2. /\ credits' \in [TenantIds -> Nat] /\ \A t \in TenantIds : credits'[t] \in {0, credits[t]}
        /\ name' \in [TenantIds -> Names \cup {None}] /\ client' \in [TenantIds -> ClientIds \cup {None}]
        /\ \A t \in TenantIds \ tenants' : name'[t] = None /\ client'[t] = None
    BY DEF DeleteTenants, TypeOK
  <1>3. members' \subseteq tenants' \X prefs'
    BY DEF DeleteTenants, TypeOK
  <1>4. disturbed' \subseteq Users /\ removed' \subseteq disturbed' /\ bereft' \subseteq removed'
    BY <1>1 DEF Losing, TypeOK
  <1>5. TypeOK'
    BY <1>1, <1>2, <1>3, <1>4 DEF DeleteTenants, Losing, TypeOK, reqVars
  <1>6. IdleInv'
    BY <1>1, <1>2 DEF Losing, TypeOK, IdleInv, reqVars
  <1> QED
    BY <1>5, <1>6

LEMMA OthersKeepTypes ==
  ASSUME TypeOK, IdleInv,
         (\E u \in Users : \/ InsertPreferences(u) \/ UpdatePreferencesMixed(u)
                           \/ ResetPreferences(u) \/ ForceClean(u) \/ ForceCleanMixed(u)) \/ Crash
  PROVE  TypeOK' /\ IdleInv'
  <1>1. CASE Crash
    <2>1. disturbed' \subseteq Users /\ disturbed \subseteq disturbed'
      <3>1. \A r \in Requests : pc[r] \in InFlight => User(r) \in Users
        BY CallFacts DEF IdleInv, InFlight, User
      <3> QED
        BY <1>1, <3>1 DEF Crash, TypeOK
    <2>2. /\ pc' \in [Requests -> {"idle"} \cup InFlight \cup Ended]
          /\ \A q \in Requests : pc'[q] = "idle" <=> pc[q] = "idle"
      BY <1>1 DEF Crash, TypeOK, InFlight, Ended
    <2> QED
      BY <1>1, <2>1, <2>2 DEF Crash, TypeOK, IdleInv, rowVars, reqVars, Issued
  <1>2. ASSUME NEW u \in Users, UpdatePreferencesMixed(u)
        PROVE  TypeOK' /\ IdleInv'
    BY <1>2 DEF UpdatePreferencesMixed, TypeOK, IdleInv, reqVars, Issued
  <1>3. ASSUME NEW u \in Users, InsertPreferences(u)
        PROVE  TypeOK' /\ IdleInv'
    <2>1. disturbed' \subseteq Users /\ disturbed \subseteq disturbed'
      BY <1>3 DEF InsertPreferences, TypeOK
    <2> QED
      BY <1>3, <2>1 DEF InsertPreferences, TypeOK, IdleInv, reqVars, Issued
  <1>4. ASSUME NEW u \in Users, ResetPreferences(u)
        PROVE  TypeOK' /\ IdleInv'
    <2>1. members \subseteq tenants \X (prefs \ {u})
      <3>1. ASSUME NEW m \in members
            PROVE  m \in tenants \X (prefs \ {u})
        <4>1. PICK t \in tenants, v \in prefs : m = <<t, v>>
          BY DEF TypeOK
        <4>2. v # u
          BY <1>4, <4>1 DEF ResetPreferences, TypeOK, Issued
        <4> QED
          BY <4>1, <4>2
      <3> QED
        BY <3>1
    <2> QED
      BY <1>4, <2>1 DEF ResetPreferences, Remove, Losing, TypeOK, IdleInv, reqVars, Issued
  <1>5. ASSUME NEW u \in Users, ForceClean(u)
        PROVE  TypeOK' /\ IdleInv'
    <2>1. PICK gone \in SUBSET tenants :
            /\ DeleteTenants(gone) /\ Remove(u, gone)
            /\ members' = {m \in members : m[2] # u /\ m[1] \notin gone}
      BY <1>5 DEF ForceClean, NamedAfter
    <2>2. /\ prefs' \subseteq Users /\ mixed' \subseteq Users
          /\ default' \in [Users -> TenantIds \cup {None}] /\ legacy' \in [Users -> Nat]
      BY <2>1 DEF Remove, TypeOK
    <2>3. \A m \in members' : m[1] \notin gone /\ m[2] \in prefs'
      BY <2>1 DEF Remove, TypeOK
    <2> QED
      BY <2>1, <2>2, <2>3, DeletingKeepsTypes DEF Remove
  <1>6. ASSUME NEW u \in Users, ForceCleanMixed(u)
        PROVE  TypeOK' /\ IdleInv'
    <2>1. PICK gone \in SUBSET tenants :
            /\ DeleteTenants(gone) /\ Losing(u, gone)
            /\ mixed' = mixed \ {u} /\ members' = {m \in members : m[1] \notin gone}
            /\ removed' = removed \cup {owner[t] : t \in gone}
            /\ UNCHANGED <<prefs, default, legacy>>
      BY <1>6 DEF ForceCleanMixed
    <2>2. /\ prefs' \subseteq Users /\ mixed' \subseteq Users
          /\ default' \in [Users -> TenantIds \cup {None}] /\ legacy' \in [Users -> Nat]
      BY <2>1 DEF TypeOK
    <2>3. \A m \in members' : m[1] \notin gone /\ m[2] \in prefs'
      BY <2>1 DEF TypeOK
    <2> QED
      BY <2>1, <2>2, <2>3, DeletingKeepsTypes
  <1> QED
    BY <1>1, <1>2, <1>3, <1>4, <1>5, <1>6

-----------------------------------------------------------------------------
(* The steps of a request, each for its user.                              *)

LEMMA StepFor ==
  ASSUME DirInv, NEW u \in Users, TypeOK', IdleInv', UserInv(u)',
         \A v \in Users \ {u} : Untouched(v)
  PROVE  DirInv'
  <1>1. \A v \in Users \ {u} : UserInv(v)'
    BY UntouchedKeeps DEF DirInv
  <1> QED
    BY <1>1 DEF DirInv

\* What a step may use of its user.
LEMMA FactsOf ==
  ASSUME DirInv, NEW r \in Requests, pc[r] \in InFlight
  PROVE  /\ User(r) \in Users /\ IsOf(r, User(r)) /\ Runs(r, User(r))
         /\ UserInv(User(r)) /\ RequestInv(r, User(r))
         /\ User(r) \notin disturbed =>
              Progress(r, User(r)) /\ \A q \in Requests : Runs(q, User(r)) => q = r
  <1>1. req[r] \in Calls /\ pc[r] # "idle"
    BY DEF DirInv, IdleInv, InFlight
  <1>2. User(r) \in Users
    BY <1>1, CallFacts DEF User
  <1> QED
    BY <1>1, <1>2 DEF DirInv, IsOf, Runs, UserInv, CalmInv

\* A step of r and its rows is nothing to other users.
LEMMA MovesOnly ==
  ASSUME DirInv, NEW r \in Requests, pc[r] \in InFlight, req' = req,
         NEW step \in InFlight \cup Ended, pc' = [pc EXCEPT ![r] = step],
         \A q \in Requests \ {r} : tid'[q] = tid[q] /\ old'[q] = old[q]
  PROVE  /\ User(r)' = User(r) /\ pc'[r] = step
         /\ \A q \in Requests, v \in Users : IsOf(q, v)' <=> IsOf(q, v)
         /\ \A q \in Requests \ {r} : pc'[q] = pc[q] /\ \A v \in Users : Runs(q, v)' <=> Runs(q, v)
         /\ \A v \in Users \ {User(r)}, q \in Requests :
              IsOf(q, v) => pc'[q] = pc[q] /\ tid'[q] = tid[q] /\ old'[q] = old[q]
  <1>1. \A q \in Requests : User(q)' = User(q)
    BY DEF User
  <1>2. pc'[r] = step /\ step # "idle" /\ \A q \in Requests \ {r} : pc'[q] = pc[q]
    BY DEF DirInv, TypeOK, InFlight, Ended
  <1>3. pc[r] # "idle"
    BY DEF InFlight
  <1> QED
    BY <1>1, <1>2, <1>3 DEF IsOf, Runs

\* A request begins; if another of the user runs, the user is disturbed.
LEMMA StartKeeps ==
  ASSUME DirInv, NEW r \in Requests, NEW c \in Menu, Start(r, c)
  PROVE  DirInv'
  <1>0. PICK u \in Users : TypeOK' /\ IdleInv' /\ u = c.user
    BY StartKeepsTypes, MenuAssumption, CallFacts DEF DirInv
  <1>1. /\ pc[r] = "idle" /\ tid[r] = None
        /\ pc' = [pc EXCEPT ![r] = "find"] /\ UNCHANGED <<rowVars, tid, old, removed, bereft>>
        /\ disturbed \subseteq disturbed'
        /\ \A v \in Users : v \in disturbed' => v \in disturbed \/ v = u
    BY <1>0 DEF Start, Goto, DirInv, IdleInv
  <1>2. pc'[r] = "find" /\ User(r)' = u /\ \A q \in Requests \ {r} : pc'[q] = pc[q] /\ req'[q] = req[q]
    BY <1>0 DEF Start, Goto, User, DirInv, TypeOK
  <1>3. \A q \in Requests \ {r}, v \in Users : (IsOf(q, v)' <=> IsOf(q, v)) /\ (Runs(q, v)' <=> Runs(q, v))
    BY <1>2 DEF IsOf, Runs, User
  <1>4. /\ \A v \in Users : ~IsOf(r, v) /\ ~Runs(r, v)
        /\ \A v \in Users \ {u} : ~IsOf(r, v)' /\ ~Runs(r, v)'
        /\ IsOf(r, u)' /\ Runs(r, u)'
    BY <1>1, <1>2 DEF IsOf, Runs, InFlight
  <1>5. \A v \in Users \ {u} : Untouched(v)
    BY <1>1, <1>2, <1>3, <1>4 DEF Untouched, rowVars
  <1>6. UserInv(u)
    BY DEF DirInv
  <1>7. /\ TenantOf(u)' = TenantOf(u) /\ Kept(u)' = Kept(u) /\ Unborn(u)' = Unborn(u) /\ Settled(u)' = Settled(u)
        /\ \A t : Born(u, t)' = Born(u, t)
    BY <1>1 DEF TenantOf, Kept, Unborn, Settled, Born, rowVars
  <1>8. DefaultInv(u)' /\ LegacyInv(u)'
    BY <1>1, <1>6, <1>7 DEF UserInv, DefaultInv, LegacyInv, rowVars
  <1>9. ASSUME NEW q \in Requests, IsOf(q, u)'
        PROVE  RequestInv(q, u)'
    <2>1. CASE q = r
      BY <1>1, <1>2, <2>1 DEF RequestInv, Creating
    <2>2. CASE q # r
      <3>1. RequestInv(q, u) /\ pc'[q] = pc[q]
        BY <1>2, <1>3, <1>6, <1>9, <2>2 DEF UserInv
      <3>2. pc[q] \in {"link", "setDefault"} => tid[q] # None
        BY <3>1 DEF RequestInv, Creating
      <3>3. \A p \in Requests : IsOf(p, u)' => p = r \/ IsOf(p, u)
        BY <1>3
      <3> QED
        BY <1>1, <1>7, <3>1, <3>2, <3>3 DEF RequestInv, rowVars
    <2> QED
      BY <2>1, <2>2
  <1>10. CalmInv(u)'
    <2>1. SUFFICES ASSUME u \notin disturbed'
                   PROVE  CalmInv(u)'
      BY DEF CalmInv
    <2>2. u \notin disturbed /\ \A q \in Requests : ~Runs(q, u)
      BY <1>0, <2>1 DEF Start, Runs, Busy
    <2>3. CalmInv(u)
      BY <1>6 DEF UserInv
    <2>4. Unborn(u) \/ Settled(u)
      BY <2>2, <2>3 DEF CalmInv
    <2>5. Progress(r, u)'
      BY <1>2, <1>7, <2>4 DEF Progress, Creating
    <2>6. \A q \in Requests : Runs(q, u)' => q = r
      BY <1>3, <2>2
    <2>7. ASSUME NEW q \in Requests, IsOf(q, u)', pc'[q] \in Ended
          PROVE  Answered(q)' /\ Settled(u)' /\ tid'[q] = default'[u]
      <3>1. q # r
        BY <1>2, <2>7 DEF Ended
      <3> QED
        BY <1>1, <1>2, <1>3, <1>7, <2>2, <2>3, <2>7, <3>1 DEF CalmInv, Answered, rowVars
    <2> QED
      BY <1>1, <1>4, <2>2, <2>3, <2>5, <2>6, <2>7 DEF CalmInv, rowVars
  <1> QED
    BY <1>0, <1>5, <1>8, <1>9, <1>10, StepFor DEF UserInv

\* The user stays calm if the only call of theirs makes progress.
LEMMA CalmStep ==
  ASSUME DirInv, NEW r \in Requests, pc[r] \in InFlight, req' = req,
         NEW step \in InFlight \cup Ended, pc' = [pc EXCEPT ![r] = step],
         \A q \in Requests \ {r} : tid'[q] = tid[q] /\ old'[q] = old[q],
         NEW u \in Users, u = User(r),
         u \notin disturbed' =>
           /\ u \notin disturbed /\ u \notin mixed'
           /\ step \in InFlight => Progress(r, u)'
           /\ step \in Ended => Answered(r)' /\ Settled(u)' /\ tid'[r] = default'[u]
           /\ Settled(u) => Settled(u)' /\ default'[u] = default[u]
  PROVE  CalmInv(u)'
  <1>1. SUFFICES ASSUME u \notin disturbed'
                 PROVE  CalmInv(u)'
    BY DEF CalmInv
  <1>2. /\ u \notin disturbed /\ CalmInv(u) /\ Runs(r, u)
        /\ \A q \in Requests : Runs(q, u) => q = r
    BY <1>1, FactsOf DEF UserInv
  <1>3. /\ User(r)' = u /\ pc'[r] = step
        /\ \A q \in Requests \ {r} : pc'[q] = pc[q] /\ (Runs(q, u)' <=> Runs(q, u)) /\ (IsOf(q, u)' <=> IsOf(q, u))
    BY MovesOnly
  <1>4. \A q \in Requests : Runs(q, u)' => q = r
    BY <1>2, <1>3
  <1>5. Runs(r, u)' <=> step \in InFlight
    BY <1>3 DEF Runs
  <1>6. ASSUME \A q \in Requests : ~Runs(q, u)'
        PROVE  Settled(u)'
    BY <1>1, <1>5, <1>6
  <1>7. ASSUME NEW q \in Requests, IsOf(q, u)', pc'[q] \in Ended
        PROVE  Answered(q)' /\ Settled(u)' /\ tid'[q] = default'[u]
    <2>1. CASE q = r
      BY <1>1, <1>3, <1>7, <2>1
    <2>2. CASE q # r
      BY <1>1, <1>2, <1>3, <1>7, <2>2 DEF CalmInv, Answered
    <2> QED
      BY <2>1, <2>2
  <1>8. \A q \in Requests : Runs(q, u)' => Progress(q, u)'
    BY <1>1, <1>4, <1>5
  <1> QED
    BY <1>1, <1>4, <1>6, <1>7, <1>8 DEF CalmInv

\* A step that changes no row the invariant is about, or renames the tenant.
LEMMA ReadingStep ==
  ASSUME DirInv, TypeOK', IdleInv', NEW r \in Requests, pc[r] \in InFlight, req' = req,
         NEW step \in InFlight \cup Ended, pc' = [pc EXCEPT ![r] = step],
         \A q \in Requests \ {r} : tid'[q] = tid[q] /\ old'[q] = old[q],
         UNCHANGED <<prefs, mixed, default, legacy, tenants, owner, credits, members, removed>>,
         \A t \in TenantIds \ {tid[r]} : name'[t] = name[t],
         NEW u \in Users, u = User(r),
         disturbed \subseteq disturbed', \A v \in Users \ {u} : v \in disturbed' => v \in disturbed,
         RequestInv(r, u)', tid'[r] = tid[r] \/ tid'[r] = default[u],
         u \notin disturbed' =>
           /\ step \in InFlight => Progress(r, u)'
           /\ step \in Ended => Answered(r)' /\ Settled(u)' /\ tid'[r] = default'[u]
  PROVE  DirInv'
  <1>1. /\ User(r)' = User(r) /\ pc'[r] = step
        /\ \A q \in Requests, v \in Users : IsOf(q, v)' <=> IsOf(q, v)
        /\ \A q \in Requests \ {r} : pc'[q] = pc[q]
        /\ \A v \in Users \ {u}, q \in Requests :
             IsOf(q, v) => pc'[q] = pc[q] /\ tid'[q] = tid[q] /\ old'[q] = old[q]
    BY MovesOnly
  <1>2. UserInv(u) /\ IsOf(r, u) /\ RequestInv(r, u)
    BY FactsOf
  <1>3. \A v \in Users \ {u} : Untouched(v)
    <2>1. \A t \in TenantIds, v \in Users \ {u} : owner[t] = v => name'[t] = name[t]
      BY <1>2, DirectoryAssumption DEF RequestInv
    <2> QED
      BY <1>1, <2>1 DEF Untouched
  <1>4. /\ TenantOf(u)' = TenantOf(u) /\ Kept(u)' = Kept(u) /\ Settled(u)' = Settled(u)
    BY DEF TenantOf, Kept, Settled, Born
  <1>5. DefaultInv(u)' /\ LegacyInv(u)'
    BY <1>2, <1>4 DEF UserInv, DefaultInv, LegacyInv
  <1>6. ASSUME NEW q \in Requests, IsOf(q, u)'
        PROVE  RequestInv(q, u)'
    <2>1. CASE q # r
      <3>1. RequestInv(q, u) /\ pc'[q] = pc[q] /\ tid'[q] = tid[q] /\ old'[q] = old[q]
        BY <1>1, <1>2, <1>6, <2>1 DEF UserInv
      <3>2. ASSUME pc[q] \in {"link", "setDefault"}
            PROVE  \A p \in Requests \ {q} : IsOf(p, u)' => tid'[p] # tid'[q]
        BY <1>1, <3>1, <3>2 DEF RequestInv
      <3>3. pc[q] \in {"link", "setDefault"} /\ tid[q] \in tenants => name'[tid[q]] = u
        BY <1>2, <2>1, <3>1 DEF RequestInv, DirInv, TypeOK, Issued
      <3> QED
        BY <1>4, <3>1, <3>2, <3>3 DEF RequestInv
    <2> QED
      BY <2>1
  <1>7. CalmInv(u)'
    <2>1. u \notin disturbed' => u \notin disturbed /\ u \notin mixed'
      BY <1>2 DEF UserInv, CalmInv
    <2> QED
      BY <1>4, <2>1, CalmStep
  <1> QED
    BY <1>3, <1>5, <1>6, <1>7, StepFor DEF UserInv

\* A step that fails leaves its user disturbed, or had to succeed.
LEMMA FailingKeeps ==
  ASSUME DirInv, NEW r \in Requests, Refused(r) \/ DbFails(r)
  PROVE  DirInv'
  <1>0. TypeOK' /\ IdleInv' /\ pc[r] \in InFlight
    BY HandleKeepsTypes DEF DirInv, Handle, Refused, StatementRefused, DbFails, InFlight
  <1>1. PICK u \in Users : u = User(r) /\ IsOf(r, u) /\ UserInv(u) /\ RequestInv(r, u)
    BY <1>0, FactsOf
  <1>2. PICK step \in {"refused", "failed"} : pc' = [pc EXCEPT ![r] = step]
    BY DEF Refused, DbFails, Goto
  <1>3. /\ req' = req /\ step \in InFlight \cup Ended
        /\ UNCHANGED <<rowVars, tid, old, removed>>
        /\ disturbed' = disturbed \/ disturbed' = disturbed \cup {u}
    BY <1>1, <1>2 DEF Refused, DbFails, reqVars, histVars, Ended
  <1>4. RequestInv(r, u)'
    <2>1. pc'[r] = step
      BY <1>2 DEF DirInv, TypeOK
    <2> QED
      BY <1>1, <1>3, <2>1 DEF RequestInv, Creating, rowVars
  <1>5. ASSUME u \notin disturbed'
        PROVE  Answered(r)' /\ Settled(u)' /\ tid'[r] = default'[u]
    <2>1. Refused(r) /\ u \notin disturbed
      BY <1>1, <1>5 DEF Refused, DbFails, histVars
    <2>2. Progress(r, u) /\ u \notin mixed
      BY <1>0, <1>1, <2>1, FactsOf DEF UserInv, CalmInv
    <2>3. pc[r] \notin {"exists", "insertPrefs", "link", "readLegacy"}
      <3>1. pc[r] # "insertPrefs" \/ u \notin prefs
        BY <2>2 DEF Progress
      <3>2. pc[r] \in {"link", "readLegacy"} => tid[r] \in tenants /\ u \in prefs
        BY <2>2 DEF Progress, Creating, Born, TenantOf
      <3> QED
        BY <1>1, <2>1, <2>2, <3>1, <3>2 DEF Refused, StatementRefused
    <2>4. pc[r] = "use" /\ req[r].purpose = "client" /\ req[r].value # None
      BY <2>1, <2>3 DEF Refused, StatementRefused, ClientIdTaken
    <2>5. Settled(u) /\ tid[r] = default[u]
      BY <2>2, <2>4 DEF Progress
    <2>6. pc'[r] = "refused"
      BY <2>1 DEF Refused, Goto, DirInv, TypeOK
    <2> QED
      BY <1>3, <2>4, <2>5, <2>6 DEF Answered, Settled, Born, TenantOf, rowVars
  <1>6. step \notin InFlight
    BY <1>2 DEF InFlight
  <1> QED
    BY <1>0, <1>1, <1>2, <1>3, <1>4, <1>5, <1>6, ReadingStep DEF rowVars

\* The five steps that only read, or write what does not matter here.
LEMMA FindDefaultKeeps ==
  ASSUME DirInv, NEW r \in Requests, FindDefault(r)
  PROVE  DirInv'
  <1>0. TypeOK' /\ IdleInv' /\ pc[r] \in InFlight /\ pc[r] = "find"
    BY HandleKeepsTypes DEF DirInv, Handle, FindDefault, InFlight
  <1>1. PICK u \in Users : u = User(r) /\ IsOf(r, u) /\ UserInv(u) /\ RequestInv(r, u)
    BY <1>0, FactsOf
  <1>2. /\ UNCHANGED <<rowVars, req, old, histVars>>
        /\ \/ /\ u \in prefs /\ default[u] \in tenants
              /\ tid' = [tid EXCEPT ![r] = default[u]] /\ Goto(r, Resolved(r))
           \/ /\ ~(u \in prefs /\ default[u] \in tenants)
              /\ tid' = tid /\ Goto(r, "exists")
    BY <1>1 DEF FindDefault
  <1>3. PICK step \in {"ok", "use", "exists"} : pc' = [pc EXCEPT ![r] = step]
    BY <1>2 DEF Goto, Resolved
  <1>4. /\ pc'[r] = step /\ step \in InFlight \cup Ended
        /\ tid'[r] = tid[r] \/ tid'[r] = default[u]
        /\ \A q \in Requests \ {r} : tid'[q] = tid[q]
    BY <1>2, <1>3 DEF DirInv, TypeOK, InFlight, Ended
  <1>5. RequestInv(r, u)'
    BY <1>1, <1>2, <1>4 DEF RequestInv, Creating, UserInv, DefaultInv, rowVars
  <1>6. ASSUME u \notin disturbed'
        PROVE  /\ step \in InFlight => Progress(r, u)'
               /\ step \in Ended => Answered(r)' /\ Settled(u)' /\ tid'[r] = default'[u]
    <2>1. Unborn(u) \/ Settled(u)
      BY <1>0, <1>1, <1>2, <1>6, FactsOf DEF Progress, histVars
    <2>2. Settled(u)' = Settled(u) /\ Unborn(u)' = Unborn(u) /\ default' = default
      BY <1>2 DEF Settled, Unborn, Born, TenantOf, rowVars
    <2>3. CASE u \in prefs /\ default[u] \in tenants
      <3>1. Settled(u) /\ step \in {"ok", "use"} /\ tid'[r] = default[u]
        BY <1>2, <1>3, <1>4, <2>1, <2>3, DirectoryAssumption
           DEF Unborn, DirInv, TypeOK, Issued, Goto, Resolved
      <3> QED
        BY <1>4, <2>2, <3>1 DEF Progress, Creating, InFlight, Ended, Answered
    <2>4. CASE ~(u \in prefs /\ default[u] \in tenants)
      <3>1. ~Settled(u) /\ step = "exists"
        BY <1>2, <1>3, <1>4, <2>4 DEF Settled, Born, TenantOf, Goto, DirInv, TypeOK
      <3> QED
        BY <1>4, <2>1, <2>2, <3>1 DEF Progress, Creating, Ended
    <2> QED
      BY <2>3, <2>4
  <1> QED
    BY <1>0, <1>1, <1>2, <1>3, <1>4, <1>5, <1>6, ReadingStep DEF rowVars, histVars

LEMMA CheckExistsKeeps ==
  ASSUME DirInv, NEW r \in Requests, CheckExists(r)
  PROVE  DirInv'
  <1>0. TypeOK' /\ IdleInv' /\ pc[r] \in InFlight /\ pc[r] = "exists"
    BY HandleKeepsTypes DEF DirInv, Handle, CheckExists, InFlight
  <1>1. PICK u \in Users : u = User(r) /\ IsOf(r, u) /\ UserInv(u) /\ RequestInv(r, u)
    BY <1>0, FactsOf
  <1>2. /\ UNCHANGED <<rowVars, reqVars, histVars>>
        /\ Goto(r, IF u \in prefs \cup mixed THEN "insertTenant" ELSE "insertPrefs")
    BY <1>1 DEF CheckExists
  <1>3. PICK step \in {"insertTenant", "insertPrefs"} : pc' = [pc EXCEPT ![r] = step]
    BY <1>2 DEF Goto
  <1>4. /\ pc'[r] = step /\ step \in InFlight /\ step \notin Ended
        /\ step = "insertTenant" <=> u \in prefs \cup mixed
    BY <1>2, <1>3 DEF DirInv, TypeOK, InFlight, Ended, Goto
  <1>5. RequestInv(r, u)'
    BY <1>1, <1>2, <1>3, <1>4 DEF RequestInv, Creating, rowVars, reqVars
  <1>6. ASSUME u \notin disturbed'
        PROVE  Progress(r, u)'
    <2>1. Unborn(u) /\ u \notin mixed
      BY <1>0, <1>1, <1>2, <1>6, FactsOf DEF Progress, histVars, UserInv, CalmInv
    <2>2. Unborn(u)'
      BY <1>2, <2>1 DEF Unborn, TenantOf, rowVars
    <2> QED
      BY <1>2, <1>3, <1>4, <2>1, <2>2 DEF Progress, Creating, rowVars
  <1> QED
    BY <1>0, <1>1, <1>2, <1>3, <1>4, <1>5, <1>6, ReadingStep DEF rowVars, histVars, reqVars

\* r ends, or goes on to rename or to set the client id, with its tenant the
\* default and nothing left to do.
LEMMA ReadLegacyKeeps ==
  ASSUME DirInv, NEW r \in Requests, ReadLegacy(r)
  PROVE  DirInv'
  <1>0. TypeOK' /\ IdleInv' /\ pc[r] \in InFlight /\ pc[r] = "readLegacy"
    BY HandleKeepsTypes DEF DirInv, Handle, ReadLegacy, InFlight
  <1>1. PICK u \in Users : u = User(r) /\ IsOf(r, u) /\ UserInv(u) /\ RequestInv(r, u)
    BY <1>0, FactsOf
  <1>2. /\ UNCHANGED <<rowVars, req, tid, histVars>> /\ u \in prefs
        /\ old' = [old EXCEPT ![r] = legacy[u]]
        /\ Goto(r, IF legacy[u] > 0 THEN "addLegacy" ELSE Resolved(r))
    BY <1>1 DEF ReadLegacy
  <1>3. PICK step \in {"ok", "use", "addLegacy"} : pc' = [pc EXCEPT ![r] = step]
    BY <1>2 DEF Goto, Resolved
  <1>4. /\ pc'[r] = step /\ step \in InFlight \cup Ended
        /\ step = "addLegacy" <=> legacy[u] > 0
        /\ old'[r] = legacy[u] /\ \A q \in Requests \ {r} : old'[q] = old[q]
        /\ LegacyCredits[u] \in Nat
    BY <1>2, <1>3, DirectoryAssumption DEF DirInv, TypeOK, InFlight, Ended, Goto, Resolved
  <1>5. RequestInv(r, u)'
    <2>1. u \notin removed => legacy[u] = 0 \/ legacy[u] = LegacyCredits[u]
      BY <1>1 DEF UserInv, LegacyInv
    <2>2. step = "addLegacy" => legacy[u] # 0
      BY <1>4
    <2> QED
      BY <1>0, <1>1, <1>2, <1>4, <2>1, <2>2 DEF RequestInv, Creating, rowVars, histVars
  <1>6. ASSUME u \notin disturbed'
        PROVE  /\ step \in InFlight => Progress(r, u)'
               /\ step \in Ended => Answered(r)' /\ Settled(u)' /\ tid'[r] = default'[u]
    <2>1. Born(u, tid[r]) /\ legacy[u] = LegacyCredits[u] /\ credits[tid[r]] = 0 /\ default[u] = tid[r]
      BY <1>0, <1>1, <1>2, <1>6, FactsOf DEF Progress, Creating, histVars
    <2>2. Born(u, tid[r])'
      BY <1>2, <2>1 DEF Born, TenantOf, rowVars
    <2>3. CASE legacy[u] > 0
      BY <1>2, <1>4, <2>1, <2>2, <2>3 DEF Progress, Creating, rowVars, Ended
    <2>4. CASE legacy[u] = 0
      <3>1. Settled(u)' /\ tid'[r] = default'[u]
        BY <1>2, <2>1, <2>2, <2>4 DEF Settled, rowVars
      <3>2. step \in {"ok", "use"}
        BY <1>3, <1>4, <2>4
      <3> QED
        BY <1>4, <3>1, <3>2 DEF Progress, Creating, InFlight, Ended, Answered
    <2> QED
      BY <2>1, <2>3, <2>4, <1>4
  <1> QED
    BY <1>0, <1>1, <1>2, <1>3, <1>4, <1>5, <1>6, ReadingStep DEF rowVars, histVars

LEMMA UsingKeeps ==
  ASSUME DirInv, NEW r \in Requests, Rename(r) \/ SetClientId(r)
  PROVE  DirInv'
  <1>0. TypeOK' /\ IdleInv' /\ pc[r] \in InFlight /\ pc[r] = "use"
    BY HandleKeepsTypes DEF DirInv, Handle, Rename, SetClientId, InFlight
  <1>1. PICK u \in Users : u = User(r) /\ IsOf(r, u) /\ UserInv(u) /\ RequestInv(r, u)
    BY <1>0, FactsOf
  <1>2. /\ UNCHANGED <<prefs, mixed, default, legacy, tenants, owner, credits, members, reqVars, histVars>>
        /\ \A t \in TenantIds \ {tid[r]} : name'[t] = name[t]
        /\ pc' = [pc EXCEPT ![r] = "ok"] /\ pc'[r] = "ok" /\ "ok" \in Ended /\ "ok" \notin InFlight
    BY DEF Rename, SetClientId, Written, Goto, DirInv, TypeOK, Ended, InFlight
  <1>3. RequestInv(r, u)'
    BY <1>1, <1>2 DEF RequestInv, Creating, reqVars
  <1>4. ASSUME u \notin disturbed'
        PROVE  Answered(r)' /\ Settled(u)' /\ tid'[r] = default'[u]
    <2>1. Settled(u) /\ tid[r] = default[u]
      BY <1>0, <1>1, <1>2, <1>4, FactsOf DEF Progress, histVars
    <2> QED
      BY <1>2, <2>1 DEF Answered, Settled, Born, TenantOf, reqVars
  <1> QED
    BY <1>0, <1>1, <1>2, <1>3, <1>4, ReadingStep DEF histVars, reqVars

-----------------------------------------------------------------------------
(* The six steps that write.                                               *)

\* The invariant, from what is left to show of a writing step of r.
LEMMA WritingStep ==
  ASSUME DirInv, TypeOK', IdleInv', NEW r \in Requests, pc[r] \in InFlight, req' = req,
         NEW step \in InFlight \cup Ended, pc' = [pc EXCEPT ![r] = step],
         \A q \in Requests \ {r} : tid'[q] = tid[q] /\ old'[q] = old[q],
         NEW u \in Users, u = User(r), UNCHANGED <<mixed, disturbed, removed>>,
         \A v \in Users \ {u} :
           /\ v \in prefs' <=> v \in prefs
           /\ default'[v] = default[v] /\ legacy'[v] = legacy[v],
         \A t \in TenantIds, v \in Users \ {u} :
           /\ owner'[t] = v <=> owner[t] = v
           /\ owner[t] = v =>
                /\ t \in tenants' <=> t \in tenants
                /\ name'[t] = name[t]
                /\ credits'[t] = credits[t]
                /\ <<t, v>> \in members => <<t, v>> \in members',
         DefaultInv(u)', LegacyInv(u)', RequestInv(r, u)',
         \A q \in Requests \ {r} :
           IsOf(q, u) /\ RequestInv(q, u) /\ pc'[q] = pc[q] /\ (\A p \in Requests : IsOf(p, u)' <=> IsOf(p, u)) =>
             RequestInv(q, u)',
         u \notin disturbed =>
           /\ step \in InFlight => Progress(r, u)'
           /\ step \in Ended => Answered(r)' /\ Settled(u)' /\ tid'[r] = default'[u]
           /\ Settled(u) => Settled(u)' /\ default'[u] = default[u]
  PROVE  DirInv'
  <1>1. /\ \A q \in Requests, v \in Users : IsOf(q, v)' <=> IsOf(q, v)
        /\ \A q \in Requests \ {r} : pc'[q] = pc[q]
        /\ \A v \in Users \ {u}, q \in Requests :
             IsOf(q, v) => pc'[q] = pc[q] /\ tid'[q] = tid[q] /\ old'[q] = old[q]
    BY MovesOnly
  <1>2. \A v \in Users \ {u} : Untouched(v)
    BY <1>1 DEF Untouched
  <1>3. UserInv(u)
    BY DEF DirInv
  <1>4. \A q \in Requests : IsOf(q, u)' => RequestInv(q, u)'
    BY <1>1, <1>3 DEF UserInv
  <1>5. CalmInv(u)'
    <2>1. u \notin disturbed' => u \notin disturbed /\ u \notin mixed'
      BY <1>3 DEF UserInv, CalmInv
    <2> QED
      BY <2>1, CalmStep
  <1> QED
    BY <1>2, <1>4, <1>5, StepFor DEF UserInv

LEMMA InsertPrefsKeeps ==
  ASSUME DirInv, NEW r \in Requests, InsertPrefs(r)
  PROVE  DirInv'
  <1>0. TypeOK' /\ IdleInv' /\ TypeOK /\ pc[r] \in InFlight /\ pc[r] = "insertPrefs"
    BY HandleKeepsTypes DEF DirInv, Handle, InsertPrefs, InFlight
  <1>1. PICK u \in Users : u = User(r) /\ IsOf(r, u) /\ UserInv(u) /\ RequestInv(r, u)
    BY <1>0, FactsOf
  <1>2. /\ UNCHANGED <<mixed, tenants, owner, name, client, credits, members, req, tid, old, disturbed, removed>>
        /\ u \notin prefs /\ prefs' = prefs \cup {u}
        /\ default' = [default EXCEPT ![u] = None]
        /\ legacy' = [legacy EXCEPT ![u] = 0]
        /\ pc' = [pc EXCEPT ![r] = "insertTenant"]
        /\ "insertTenant" \in InFlight /\ "insertTenant" \notin Ended
    BY <1>1 DEF InsertPrefs, Goto, reqVars, histVars, InFlight, Ended
  <1>3. default'[u] = None /\ legacy'[u] = 0 /\ pc'[r] = "insertTenant"
    BY <1>0, <1>2 DEF TypeOK
  <1>4. TenantOf(u)' = TenantOf(u) /\ Kept(u)' = Kept(u)
    BY <1>2 DEF TenantOf, Kept
  <1>5. DefaultInv(u)'
    BY <1>0, <1>2, <1>3, DirectoryAssumption DEF DefaultInv, TypeOK, Issued
  <1>6. u \notin removed => LegacyCredits[u] = 0
    BY <1>1, <1>2, DirectoryAssumption DEF UserInv, LegacyInv
  <1>7. LegacyInv(u)'
    BY <1>2, <1>3, <1>6 DEF LegacyInv
  <1>8. RequestInv(r, u)'
    BY <1>1, <1>2, <1>3 DEF RequestInv, Creating
  <1>9. ASSUME NEW q \in Requests \ {r}, RequestInv(q, u), pc'[q] = pc[q],
               \A p \in Requests : IsOf(p, u)' <=> IsOf(p, u)
        PROVE  RequestInv(q, u)'
    BY <1>2, <1>3, <1>4, <1>9 DEF RequestInv, Creating
  <1>10. ASSUME u \notin disturbed
         PROVE  Progress(r, u)' /\ ~Settled(u)
    <2>1. Unborn(u) /\ u \notin removed
      BY <1>0, <1>1, <1>10, FactsOf DEF Progress, TypeOK
    <2>2. Unborn(u)'
      BY <1>3, <1>4, <1>6, <2>1 DEF Unborn
    <2>3. ~Settled(u)
      BY <1>2 DEF Settled, Born
    <2> QED
      BY <1>2, <1>3, <2>2, <2>3 DEF Progress, Creating
  <1>11. \A v \in Users \ {u} : (v \in prefs' <=> v \in prefs) /\ default'[v] = default[v] /\ legacy'[v] = legacy[v]
    BY <1>0, <1>2 DEF TypeOK
  <1> QED
    BY <1>0, <1>1, <1>2, <1>5, <1>7, <1>8, <1>9, <1>10, <1>11, WritingStep

LEMMA InsertTenantKeeps ==
  ASSUME DirInv, NEW r \in Requests, NEW t \in TenantIds, InsertTenant(r, t)
  PROVE  DirInv'
  <1>0. TypeOK' /\ IdleInv' /\ TypeOK /\ IdleInv /\ pc[r] \in InFlight /\ pc[r] = "insertTenant"
    BY HandleKeepsTypes DEF DirInv, Handle, InsertTenant, InFlight
  <1>1. PICK u \in Users : u = User(r) /\ IsOf(r, u) /\ UserInv(u) /\ RequestInv(r, u)
    BY <1>0, FactsOf
  <1>2. /\ UNCHANGED <<prefs, mixed, default, legacy, credits, members, req, old, disturbed, removed>>
        /\ name' = [name EXCEPT ![t] = u]
        /\ t \notin Issued /\ tenants' = tenants \cup {t}
        /\ owner' = [owner EXCEPT ![t] = u]
        /\ tid' = [tid EXCEPT ![r] = t]
        /\ pc' = [pc EXCEPT ![r] = "link"]
        /\ "link" \in InFlight /\ "link" \notin Ended
    BY <1>1 DEF InsertTenant, Goto, histVars, InFlight, Ended
  <1>3. /\ owner'[t] = u /\ \A s \in TenantIds \ {t} : owner'[s] = owner[s] /\ name'[s] = name[s]
        /\ name'[t] = u
        /\ owner[t] = None /\ u # None /\ t # None
        /\ tid'[r] = t /\ pc'[r] = "link" /\ \A q \in Requests \ {r} : tid'[q] = tid[q]
    BY <1>0, <1>2, DirectoryAssumption DEF TypeOK, Issued
  <1>4. /\ t \notin tenants /\ credits[t] = 0
        /\ default[u] # t /\ \A q \in Requests : tid[q] # t
    <2>1. t \notin tenants /\ credits[t] = 0
      BY <1>0, <1>2 DEF TypeOK, IdleInv
    <2>2. default[u] # t
      BY <1>1, <1>3 DEF UserInv, DefaultInv
    <2>3. \A q \in Requests : tid[q] # t
      BY <1>0, <1>2, <1>3 DEF IdleInv
    <2> QED
      BY <2>1, <2>2, <2>3
  <1>5. TenantOf(u)' = TenantOf(u) \cup {t} /\ (Kept(u) => Kept(u)')
    <2>1. TenantOf(u)' = TenantOf(u) \cup {t}
      BY <1>0, <1>2, <1>3 DEF TenantOf, TypeOK, Issued
    <2> QED
      BY <1>2, <2>1 DEF Kept
  <1>6. DefaultInv(u)'
    BY <1>0, <1>1, <1>2, <1>3, <1>4 DEF DefaultInv, UserInv, TypeOK
  <1>7. LegacyInv(u)'
    BY <1>1, <1>2, <1>5 DEF UserInv, LegacyInv
  <1>8. RequestInv(r, u)'
    BY <1>2, <1>3, <1>4 DEF RequestInv, Creating
  <1>9. ASSUME NEW q \in Requests \ {r}, RequestInv(q, u), pc'[q] = pc[q],
               \A p \in Requests : IsOf(p, u)' <=> IsOf(p, u)
        PROVE  RequestInv(q, u)'
    <2>1. tid'[q] = tid[q] /\ tid[q] # t /\ tid[q] \in TenantIds \cup {None}
      BY <1>0, <1>3, <1>4 DEF TypeOK
    <2>2. tid'[q] # None => owner'[tid'[q]] = u
      BY <1>3, <1>9, <2>1 DEF RequestInv
    <2>3. pc[q] \in {"link", "setDefault"} => \A p \in Requests \ {q} : IsOf(p, u)' => tid'[p] # tid'[q]
      BY <1>3, <1>9, <2>1 DEF RequestInv
    <2> QED
      BY <1>2, <1>5, <1>9, <2>1, <2>2, <2>3 DEF RequestInv, Creating
  <1>10. ASSUME u \notin disturbed
         PROVE  Progress(r, u)' /\ ~Settled(u)
    <2>1. Unborn(u) /\ u \in prefs
      BY <1>0, <1>1, <1>10, FactsOf DEF Progress
    <2>2. Born(u, t)' /\ ~Settled(u)
      BY <1>2, <1>5, <2>1 DEF Unborn, Born, Settled
    <2> QED
      BY <1>2, <1>3, <1>4, <2>1, <2>2 DEF Progress, Creating, Unborn
  <1>11. \A s \in TenantIds, v \in Users \ {u} :
           /\ owner'[s] = v <=> owner[s] = v
           /\ owner[s] = v =>
                /\ s \in tenants' <=> s \in tenants
                /\ name'[s] = name[s]
                /\ credits'[s] = credits[s]
                /\ <<s, v>> \in members => <<s, v>> \in members'
    BY <1>2, <1>3, DirectoryAssumption
  <1>12. \A q \in Requests \ {r} : tid'[q] = tid[q] /\ old'[q] = old[q]
    BY <1>2, <1>3
  <1>13. \A q \in Requests \ {r} :
           IsOf(q, u) /\ RequestInv(q, u) /\ pc'[q] = pc[q] /\ (\A p \in Requests : IsOf(p, u)' <=> IsOf(p, u)) =>
             RequestInv(q, u)'
    BY <1>9
  <1> QED
    BY <1>0, <1>1, <1>2, <1>6, <1>7, <1>8, <1>10, <1>11, <1>12, <1>13, WritingStep

LEMMA LinkUserKeeps ==
  ASSUME DirInv, NEW r \in Requests, LinkUser(r)
  PROVE  DirInv'
  <1>0. TypeOK' /\ IdleInv' /\ TypeOK /\ pc[r] \in InFlight /\ pc[r] = "link"
    BY HandleKeepsTypes DEF DirInv, Handle, LinkUser, InFlight
  <1>1. PICK u \in Users : u = User(r) /\ IsOf(r, u) /\ UserInv(u) /\ RequestInv(r, u)
    BY <1>0, FactsOf
  <1>2. /\ UNCHANGED <<prefs, mixed, default, legacy, tenants, owner, name, credits, req, tid, old, disturbed, removed>>
        /\ members' = members \cup {<<tid[r], u>>}
        /\ pc' = [pc EXCEPT ![r] = "setDefault"] /\ pc'[r] = "setDefault"
        /\ "setDefault" \in InFlight /\ "setDefault" \notin Ended
    BY <1>0, <1>1 DEF LinkUser, Goto, reqVars, histVars, InFlight, Ended, TypeOK
  <1>3. TenantOf(u)' = TenantOf(u) /\ Kept(u)' = Kept(u) /\ Settled(u)' = Settled(u)
    BY <1>2 DEF TenantOf, Kept, Settled, Born
  <1>4. DefaultInv(u)' /\ LegacyInv(u)'
    BY <1>1, <1>2, <1>3 DEF UserInv, DefaultInv, LegacyInv
  <1>5. ASSUME \A p \in Requests : IsOf(p, u)' <=> IsOf(p, u)
        PROVE  RequestInv(r, u)'
    BY <1>0, <1>1, <1>2, <1>3, <1>5 DEF RequestInv, Creating
  <1>6. ASSUME NEW q \in Requests \ {r}, RequestInv(q, u), pc'[q] = pc[q],
               \A p \in Requests : IsOf(p, u)' <=> IsOf(p, u)
        PROVE  RequestInv(q, u)'
    BY <1>2, <1>3, <1>6 DEF RequestInv, Creating
  <1>7. ASSUME u \notin disturbed
        PROVE  Progress(r, u)'
    <2>1. Progress(r, u)
      BY <1>0, <1>1, <1>7, FactsOf
    <2> QED
      BY <1>0, <1>2, <1>3, <2>1 DEF Progress, Creating, Born
  <1>8. \A p \in Requests : IsOf(p, u)' <=> IsOf(p, u)
    BY <1>0, <1>1, <1>2, MovesOnly
  <1>9. RequestInv(r, u)'
    BY <1>5, <1>8
  <1> QED
    BY <1>0, <1>1, <1>2, <1>3, <1>4, <1>6, <1>7, <1>9, WritingStep

LEMMA SetDefaultKeeps ==
  ASSUME DirInv, NEW r \in Requests, SetDefault(r)
  PROVE  DirInv'
  <1>0. TypeOK' /\ IdleInv' /\ TypeOK /\ pc[r] \in InFlight /\ pc[r] = "setDefault"
    BY HandleKeepsTypes DEF DirInv, Handle, SetDefault, InFlight
  <1>1. PICK u \in Users : u = User(r) /\ IsOf(r, u) /\ UserInv(u) /\ RequestInv(r, u)
    BY <1>0, FactsOf
  <1>2. /\ UNCHANGED <<prefs, mixed, legacy, tenants, owner, name, credits, members, req, tid, old, disturbed, removed>>
        /\ default' = IF u \in prefs THEN [default EXCEPT ![u] = tid[r]] ELSE default
        /\ pc' = [pc EXCEPT ![r] = "readLegacy"] /\ pc'[r] = "readLegacy"
        /\ "readLegacy" \in InFlight /\ "readLegacy" \notin Ended
    BY <1>0, <1>1 DEF SetDefault, Goto, reqVars, histVars, InFlight, Ended, TypeOK
  <1>3. /\ default'[u] = IF u \in prefs THEN tid[r] ELSE default[u]
        /\ \A v \in Users \ {u} : default'[v] = default[v]
    BY <1>0, <1>2 DEF TypeOK
  <1>4. TenantOf(u)' = TenantOf(u) /\ Kept(u)' = Kept(u)
    BY <1>2 DEF TenantOf, Kept
  <1>5. DefaultInv(u)'
    BY <1>0, <1>1, <1>2, <1>3 DEF UserInv, DefaultInv, RequestInv
  <1>6. LegacyInv(u)'
    BY <1>1, <1>2, <1>4 DEF UserInv, LegacyInv
  <1>7. RequestInv(r, u)'
    BY <1>0, <1>1, <1>2, <1>4 DEF RequestInv, Creating
  <1>8. ASSUME NEW q \in Requests \ {r}, IsOf(q, u), RequestInv(q, u), pc'[q] = pc[q],
               \A p \in Requests : IsOf(p, u)' <=> IsOf(p, u)
        PROVE  RequestInv(q, u)'
    <2>1. tid[r] # tid[q]
      BY <1>0, <1>1, <1>8 DEF RequestInv
    <2> QED
      BY <1>2, <1>3, <1>4, <1>8, <2>1 DEF RequestInv, Creating
  <1>9. ASSUME u \notin disturbed
        PROVE  Progress(r, u)' /\ ~Settled(u)
    <2>1. Born(u, tid[r]) /\ default[u] = None /\ legacy[u] = LegacyCredits[u] /\ credits[tid[r]] = 0
      BY <1>0, <1>1, <1>9, FactsOf DEF Progress, Creating
    <2>2. ~Settled(u)
      <3>1. None \notin TenantOf(u)
        BY <1>0, DirectoryAssumption DEF TenantOf, TypeOK, Issued
      <3> QED
        BY <2>1, <3>1 DEF Settled, Born
    <2>3. Born(u, tid[r])' /\ u \in prefs
      BY <1>2, <1>4, <2>1 DEF Born
    <2> QED
      BY <1>2, <1>3, <2>1, <2>2, <2>3 DEF Progress, Creating
  <1> QED
    BY <1>0, <1>1, <1>2, <1>3, <1>5, <1>6, <1>7, <1>8, <1>9, WritingStep

LEMMA AddLegacyKeeps ==
  ASSUME DirInv, NEW r \in Requests, AddLegacy(r)
  PROVE  DirInv'
  <1>0. TypeOK' /\ IdleInv' /\ TypeOK /\ pc[r] \in InFlight /\ pc[r] = "addLegacy"
    BY HandleKeepsTypes DEF DirInv, Handle, AddLegacy, InFlight
  <1>1. PICK u \in Users : u = User(r) /\ IsOf(r, u) /\ UserInv(u) /\ RequestInv(r, u)
    BY <1>0, FactsOf
  <1>2. /\ UNCHANGED <<prefs, mixed, default, legacy, tenants, owner, name, members, req, tid, old, disturbed, removed>>
        /\ credits' = IF tid[r] \in tenants THEN [credits EXCEPT ![tid[r]] = @ + old[r]] ELSE credits
        /\ pc' = [pc EXCEPT ![r] = "clearLegacy"] /\ pc'[r] = "clearLegacy"
        /\ "clearLegacy" \in InFlight /\ "clearLegacy" \notin Ended
    BY <1>0, <1>1 DEF AddLegacy, Goto, reqVars, histVars, InFlight, Ended, TypeOK
  <1>3. /\ old[r] \in Nat /\ credits \in [TenantIds -> Nat] /\ tenants \subseteq TenantIds
        /\ tid[r] # None /\ owner[tid[r]] = u /\ LegacyCredits[u] \in Nat
    BY <1>0, <1>1, DirectoryAssumption DEF TypeOK, Issued, RequestInv, Creating
  <1>4. /\ \A t \in TenantIds : credits'[t] >= credits[t]
        /\ \A t \in TenantIds \ {tid[r]} : credits'[t] = credits[t]
        /\ tid[r] \in tenants => credits'[tid[r]] = credits[tid[r]] + old[r]
    BY <1>2, <1>3
  <1>5. TenantOf(u)' = TenantOf(u) /\ TenantOf(u) \subseteq TenantIds
    BY <1>2, <1>3 DEF TenantOf
  <1>6. Kept(u) => Kept(u)'
    <2>1. ASSUME NEW t \in TenantOf(u), credits[t] >= LegacyCredits[u]
          PROVE  credits'[t] >= LegacyCredits[u]
      <3>1. credits[t] \in Nat /\ credits'[t] \in Nat /\ credits'[t] >= credits[t]
        BY <1>0, <1>3, <1>4, <1>5 DEF TypeOK
      <3> QED
        BY <1>3, <2>1, <3>1
    <2> QED
      BY <1>5, <2>1 DEF Kept
  <1>7. u \notin removed => Kept(u)'
    <2>1. SUFFICES ASSUME u \notin removed
                   PROVE  Kept(u)'
      OBVIOUS
    <2>2. tid[r] \in TenantOf(u) /\ old[r] = LegacyCredits[u] /\ tid[r] \in tenants
      BY <1>0, <1>1, <1>3, <2>1 DEF RequestInv, Creating, TenantOf
    <2>3. credits'[tid[r]] >= LegacyCredits[u]
      BY <1>3, <1>4, <2>2
    <2> QED
      BY <1>5, <2>2, <2>3 DEF Kept
  <1>8. DefaultInv(u)'
    BY <1>1, <1>2 DEF UserInv, DefaultInv
  <1>9. LegacyInv(u)'
    BY <1>1, <1>2, <1>6 DEF UserInv, LegacyInv
  <1>10. RequestInv(r, u)'
    BY <1>0, <1>1, <1>2, <1>7 DEF RequestInv, Creating
  <1>11. ASSUME NEW q \in Requests \ {r}, IsOf(q, u), RequestInv(q, u), pc'[q] = pc[q],
                \A p \in Requests : IsOf(p, u)' <=> IsOf(p, u)
         PROVE  RequestInv(q, u)'
    BY <1>2, <1>6, <1>11 DEF RequestInv, Creating
  <1>12. ASSUME u \notin disturbed
         PROVE  Progress(r, u)' /\ ~Settled(u)
    <2>1. /\ Born(u, tid[r]) /\ default[u] = tid[r] /\ legacy[u] = LegacyCredits[u] /\ credits[tid[r]] = 0
          /\ LegacyCredits[u] > 0 /\ old[r] = LegacyCredits[u]
      BY <1>0, <1>1, <1>12, FactsOf DEF Progress, Creating
    <2>2. ~Settled(u)
      BY <1>3, <2>1 DEF Settled
    <2>3. Born(u, tid[r])' /\ tid[r] \in tenants
      BY <1>2, <1>5, <2>1 DEF Born, TenantOf
    <2>4. credits'[tid[r]] = LegacyCredits[u]
      BY <1>3, <1>4, <2>1, <2>3
    <2> QED
      BY <1>2, <2>1, <2>2, <2>3, <2>4 DEF Progress, Creating
  <1>13. \A t \in TenantIds, v \in Users \ {u} : owner[t] = v => credits'[t] = credits[t]
    BY <1>3, <1>4
  <1> QED
    BY <1>0, <1>1, <1>2, <1>8, <1>9, <1>10, <1>11, <1>12, <1>13, WritingStep

LEMMA ClearLegacyKeeps ==
  ASSUME DirInv, NEW r \in Requests, ClearLegacy(r)
  PROVE  DirInv'
  <1>0. TypeOK' /\ IdleInv' /\ TypeOK /\ pc[r] \in InFlight /\ pc[r] = "clearLegacy"
    BY HandleKeepsTypes DEF DirInv, Handle, ClearLegacy, InFlight
  <1>1. PICK u \in Users : u = User(r) /\ IsOf(r, u) /\ UserInv(u) /\ RequestInv(r, u)
    BY <1>0, FactsOf
  <1>2. /\ UNCHANGED <<prefs, mixed, default, tenants, owner, name, credits, members, req, tid, old, disturbed, removed>>
        /\ legacy' = [legacy EXCEPT ![u] = IF u \in prefs THEN 0 ELSE @]
    BY <1>1 DEF ClearLegacy, reqVars, histVars
  <1>3. PICK step \in {"ok", "use"} : pc' = [pc EXCEPT ![r] = step]
    BY DEF ClearLegacy, Goto, Resolved
  <1>4. /\ pc'[r] = step /\ step \in InFlight \cup Ended
        /\ legacy'[u] \in {0, legacy[u]} /\ (u \in prefs => legacy'[u] = 0)
        /\ \A v \in Users \ {u} : legacy'[v] = legacy[v]
    BY <1>0, <1>2, <1>3 DEF TypeOK, InFlight, Ended
  <1>5. TenantOf(u)' = TenantOf(u) /\ Kept(u)' = Kept(u)
    BY <1>2 DEF TenantOf, Kept
  <1>6. DefaultInv(u)'
    BY <1>1, <1>2 DEF UserInv, DefaultInv
  <1>7. LegacyInv(u)'
    BY <1>0, <1>1, <1>2, <1>4, <1>5 DEF UserInv, LegacyInv, RequestInv
  <1>8. RequestInv(r, u)'
    BY <1>0, <1>1, <1>2, <1>4 DEF RequestInv, Creating
  <1>9. ASSUME NEW q \in Requests \ {r}, IsOf(q, u), RequestInv(q, u), pc'[q] = pc[q],
               \A p \in Requests : IsOf(p, u)' <=> IsOf(p, u)
        PROVE  RequestInv(q, u)'
    BY <1>2, <1>5, <1>9 DEF RequestInv, Creating
  <1>10. ASSUME u \notin disturbed
         PROVE  /\ step \in InFlight => Progress(r, u)'
                /\ step \in Ended => Answered(r)' /\ Settled(u)' /\ tid'[r] = default'[u]
                /\ ~Settled(u)
    <2>1. /\ Born(u, tid[r]) /\ default[u] = tid[r] /\ legacy[u] = LegacyCredits[u]
          /\ LegacyCredits[u] > 0 /\ credits[tid[r]] = LegacyCredits[u]
      BY <1>0, <1>1, <1>10, FactsOf DEF Progress, Creating
    <2>2. ~Settled(u)
      BY <2>1, DirectoryAssumption DEF Settled
    <2>3. Settled(u)' /\ tid'[r] = default'[u]
      BY <1>2, <1>4, <1>5, <2>1 DEF Settled, Born
    <2> QED
      BY <1>4, <2>2, <2>3 DEF Answered, Progress, Creating, Ended
  <1> QED
    BY <1>0, <1>1, <1>2, <1>3, <1>4, <1>6, <1>7, <1>8, <1>9, <1>10, WritingStep

-----------------------------------------------------------------------------
(* The other writers, and the crash.                                       *)

\* What a row of preferences in another spelling is to its user: a reason to
\* claim nothing of the user's calls but what their rows say.
LEMMA UpdatePreferencesMixedKeeps ==
  ASSUME DirInv, NEW u \in Users, UpdatePreferencesMixed(u)
  PROVE  DirInv'
  <1>0. TypeOK' /\ IdleInv'
    BY OthersKeepTypes DEF DirInv
  <1>1. /\ UNCHANGED <<prefs, default, legacy, tenants, owner, name, client, credits, members, pc, req, tid, old, removed>>
        /\ mixed' = mixed \cup {u} /\ disturbed' = disturbed \cup {u}
    BY DEF UpdatePreferencesMixed, reqVars
  <1>2. \A v \in Users \ {u} : Untouched(v)
    BY <1>1 DEF Untouched, IsOf, User
  <1>3. UserInv(u)
    BY DEF DirInv
  <1>4. TenantOf(u)' = TenantOf(u) /\ Kept(u)' = Kept(u)
    BY <1>1 DEF TenantOf, Kept
  <1>5. DefaultInv(u)' /\ LegacyInv(u)'
    BY <1>1, <1>3, <1>4 DEF UserInv, DefaultInv, LegacyInv
  <1>6. ASSUME NEW q \in Requests, IsOf(q, u)'
        PROVE  RequestInv(q, u)'
    <2>1. IsOf(q, u) /\ RequestInv(q, u) /\ \A p \in Requests : IsOf(p, u)' <=> IsOf(p, u)
      BY <1>1, <1>3, <1>6 DEF UserInv, IsOf, User
    <2> QED
      BY <1>1, <1>4, <2>1 DEF RequestInv
  <1>7. CalmInv(u)'
    BY <1>1 DEF CalmInv
  <1> QED
    BY <1>0, <1>2, <1>5, <1>6, <1>7, StepFor DEF UserInv

\* The row in lower case is nothing to its user either if no call of theirs
\* runs: whoever has a tenant that settled has the row.
LEMMA InsertPreferencesKeeps ==
  ASSUME DirInv, NEW u \in Users, InsertPreferences(u)
  PROVE  DirInv'
  <1>0. TypeOK' /\ IdleInv' /\ TypeOK
    BY OthersKeepTypes DEF DirInv
  <1>1. /\ UNCHANGED <<mixed, tenants, owner, name, client, credits, members, pc, req, tid, old, removed>>
        /\ u \notin prefs /\ prefs' = prefs \cup {u}
        /\ default' = [default EXCEPT ![u] = None] /\ legacy' = [legacy EXCEPT ![u] = 0]
        /\ disturbed' = disturbed \cup {v \in {u} : Busy(v)}
    BY DEF InsertPreferences, reqVars
  <1>2. /\ default'[u] = None /\ legacy'[u] = 0
        /\ \A v \in Users \ {u} : default'[v] = default[v] /\ legacy'[v] = legacy[v]
    BY <1>0, <1>1 DEF TypeOK
  <1>3. \A v \in Users \ {u} : Untouched(v)
    BY <1>1, <1>2 DEF Untouched, IsOf, User
  <1>4. UserInv(u)
    BY DEF DirInv
  <1>5. TenantOf(u)' = TenantOf(u) /\ Kept(u)' = Kept(u)
    BY <1>1 DEF TenantOf, Kept
  <1>6. DefaultInv(u)'
    BY <1>0, <1>1, <1>2, DirectoryAssumption DEF DefaultInv, TypeOK, Issued
  <1>7. u \notin removed => LegacyCredits[u] = 0
    BY <1>1, <1>4, DirectoryAssumption DEF UserInv, LegacyInv
  <1>8. LegacyInv(u)'
    BY <1>1, <1>2, <1>7 DEF LegacyInv
  <1>9. ASSUME NEW q \in Requests, IsOf(q, u)'
        PROVE  RequestInv(q, u)'
    <2>1. IsOf(q, u) /\ RequestInv(q, u) /\ \A p \in Requests : IsOf(p, u)' <=> IsOf(p, u)
      BY <1>1, <1>4, <1>9 DEF UserInv, IsOf, User
    <2> QED
      BY <1>1, <1>2, <1>5, <2>1 DEF RequestInv, Creating
  <1>10. CalmInv(u)'
    <2>1. SUFFICES ASSUME u \notin disturbed'
                   PROVE  CalmInv(u)'
      BY DEF CalmInv
    <2>2. u \notin disturbed /\ \A q \in Requests : ~Runs(q, u) /\ ~Runs(q, u)'
      BY <1>1, <2>1 DEF Busy, Runs, User
    <2>3. CalmInv(u) /\ ~Settled(u)
      BY <1>1, <1>4 DEF UserInv, Settled, Born
    <2>4. Unborn(u) /\ u \notin mixed /\ \A r \in Requests : ~(IsOf(r, u) /\ pc[r] \in Ended)
      BY <2>2, <2>3 DEF CalmInv
    <2>5. u \notin removed
      BY <1>0, <2>2 DEF TypeOK
    <2>6. Unborn(u)'
      BY <1>2, <1>5, <1>7, <2>4, <2>5 DEF Unborn
    <2> QED
      BY <1>1, <2>2, <2>4, <2>6 DEF CalmInv, IsOf, User
  <1> QED
    BY <1>0, <1>3, <1>6, <1>8, <1>9, <1>10, StepFor DEF UserInv

\* A removal of u takes the tenants gone.  Their owners, and u, are disturbed;
\* the others are not touched.
LEMMA DeletingKeeps ==
  ASSUME DirInv, TypeOK', IdleInv', NEW u \in Users, NEW gone \in SUBSET tenants,
         tenants' = tenants \ gone, \A t \in TenantIds \ gone : name'[t] = name[t] /\ credits'[t] = credits[t],
         UNCHANGED <<owner, pc, req, tid, old>>,
         removed \subseteq removed', disturbed \subseteq disturbed', u \in disturbed',
         \A t \in gone : owner[t] \in removed' /\ owner[t] \in disturbed',
         \A v \in Users : default'[v] \in {default[v], None} /\ (v \in prefs' => v \in prefs),
         \A v \in Users : v # u \/ v \notin removed' =>
           (v \in prefs => v \in prefs') /\ default'[v] = default[v] /\ legacy'[v] = legacy[v],
         \A v \in Users \ {u} : v \in mixed' => v \in mixed,
         \A v \in Users, t \in TenantIds \ gone : v # u \/ v \in prefs' \/ name[t] = v =>
           (<<t, v>> \in members => <<t, v>> \in members')
  PROVE  DirInv'
  <1>1. \A v \in Users, q \in Requests : IsOf(q, v)' <=> IsOf(q, v)
    BY DEF IsOf, User
  <1>2. ASSUME NEW v \in Users
        PROVE  UserInv(v)'
    <2>1. UserInv(v)
      BY DEF DirInv
    <2>2. ASSUME v \notin removed' \/ v \notin disturbed', NEW t \in TenantIds, owner[t] = v
          PROVE  t \notin gone
      BY <2>2
    <2>3. v \notin removed' => TenantOf(v)' = TenantOf(v) /\ (Kept(v)' <=> Kept(v))
      BY <2>2 DEF TenantOf, Kept, DirInv, TypeOK, Issued
    <2>4. DefaultInv(v)'
      <3>1. default'[v] = None \/ default'[v] = default[v]
        OBVIOUS
      <3> QED
        BY <2>1, <3>1, DirectoryAssumption DEF UserInv, DefaultInv, DirInv, TypeOK, Issued
    <2>5. LegacyInv(v)'
      BY <2>1, <2>3 DEF UserInv, LegacyInv
    <2>6. ASSUME NEW q \in Requests, IsOf(q, v)'
          PROVE  RequestInv(q, v)'
      <3>1. IsOf(q, v) /\ RequestInv(q, v)
        BY <1>1, <2>1, <2>6 DEF UserInv
      <3>2. tenants \subseteq TenantIds
        BY DEF DirInv, TypeOK, Issued
      <3>3. pc[q] \in Creating => tid[q] # None /\ (v \notin removed' => tid[q] \in tenants')
        BY <2>2, <3>1, <3>2 DEF RequestInv
      <3>4. pc[q] \in {"link", "setDefault"} =>
              /\ tid[q] \in tenants' => name'[tid[q]] = v
              /\ default'[v] # tid[q]
              /\ \A p \in Requests \ {q} : IsOf(p, v)' => tid[p] # tid[q]
        BY <1>1, <3>1, <3>2, <3>3 DEF RequestInv, Creating
      <3>5. pc[q] = "setDefault" /\ tid[q] \in tenants' => <<tid[q], v>> \in members'
        <4>1. SUFFICES ASSUME pc[q] = "setDefault", tid[q] \in tenants'
                       PROVE  <<tid[q], v>> \in members'
          OBVIOUS
        <4>2. <<tid[q], v>> \in members /\ name[tid[q]] = v /\ tid[q] \in tenants \ gone /\ tid[q] \in TenantIds \ gone
          BY <3>1, <3>2, <4>1 DEF RequestInv
        <4> QED
          BY <4>2
      <3> QED
        BY <2>3, <3>1, <3>3, <3>4, <3>5 DEF RequestInv
    <2>7. CASE v \in disturbed'
      <3>1. CalmInv(v)'
        BY <2>7 DEF CalmInv
      <3> QED
        BY <2>4, <2>5, <2>6, <3>1 DEF UserInv
    <2>8. CASE v \notin disturbed'
      <3>1. v # u /\ \A t \in TenantIds : owner[t] = v => t \notin gone
        BY <2>2, <2>8
      <3>2. Untouched(v)
        BY <1>1, <3>1 DEF Untouched
      <3> QED
        BY <2>1, <3>2, UntouchedKeeps DEF DirInv
    <2> QED
      BY <2>7, <2>8
  <1> QED
    BY <1>2 DEF DirInv

LEMMA ResetPreferencesKeeps ==
  ASSUME DirInv, NEW u \in Users, ResetPreferences(u)
  PROVE  DirInv'
  <1>0. TypeOK' /\ IdleInv' /\ TypeOK
    BY OthersKeepTypes DEF DirInv
  <1>1. /\ UNCHANGED <<mixed, tenants, owner, name, credits, members, pc, req, tid, old>>
        /\ prefs' = prefs \ {u} /\ default' = [default EXCEPT ![u] = None] /\ legacy' = [legacy EXCEPT ![u] = 0]
        /\ u \in removed' /\ removed \subseteq removed' /\ u \in disturbed' /\ disturbed \subseteq disturbed'
    BY DEF ResetPreferences, Remove, Losing, reqVars
  <1>2. default'[u] = None /\ \A v \in Users \ {u} : default'[v] = default[v] /\ legacy'[v] = legacy[v]
    BY <1>0, <1>1 DEF TypeOK
  <1>3. PICK gone \in SUBSET tenants : gone = {}
    OBVIOUS
  <1>4. tenants' = tenants \ gone /\ \A t \in TenantIds \ gone : name'[t] = name[t] /\ credits'[t] = credits[t]
    BY <1>1, <1>3
  <1> QED
    BY <1>0, <1>1, <1>2, <1>3, <1>4, DeletingKeeps

LEMMA ForceCleanKeeps ==
  ASSUME DirInv, NEW u \in Users, ForceClean(u)
  PROVE  DirInv'
  <1>0. TypeOK' /\ IdleInv' /\ TypeOK
    BY OthersKeepTypes DEF DirInv
  <1>1. PICK gone \in SUBSET tenants :
          /\ gone = {t \in tenants : name[t] = u} /\ DeleteTenants(gone) /\ Remove(u, gone)
          /\ members' = {m \in members : m[2] # u /\ m[1] \notin gone}
    BY DEF ForceClean, NamedAfter
  <1>2. /\ UNCHANGED <<mixed, owner, pc, req, tid, old>>
        /\ prefs' = prefs \ {u} /\ default' = [default EXCEPT ![u] = None] /\ legacy' = [legacy EXCEPT ![u] = 0]
        /\ u \in removed' /\ removed \subseteq removed' /\ u \in disturbed' /\ disturbed \subseteq disturbed'
        /\ \A t \in gone : owner[t] \in removed' /\ owner[t] \in disturbed'
    BY <1>1 DEF Remove, Losing, reqVars
  <1>3. default'[u] = None /\ \A v \in Users \ {u} : default'[v] = default[v] /\ legacy'[v] = legacy[v]
    BY <1>0, <1>2 DEF TypeOK
  <1>4. tenants' = tenants \ gone /\ \A t \in TenantIds \ gone : name'[t] = name[t] /\ credits'[t] = credits[t]
    BY <1>1 DEF DeleteTenants
  <1>5. ASSUME NEW v \in Users, NEW t \in TenantIds \ gone, v # u \/ v \in prefs' \/ name[t] = v,
               <<t, v>> \in members
        PROVE  <<t, v>> \in members'
    <2>1. t \in tenants
      BY <1>0, <1>5 DEF TypeOK
    <2> QED
      BY <1>1, <1>2, <1>5, <2>1
  <1> QED
    BY <1>0, <1>2, <1>3, <1>4, <1>5, DeletingKeeps

LEMMA ForceCleanMixedKeeps ==
  ASSUME DirInv, NEW u \in Users, ForceCleanMixed(u)
  PROVE  DirInv'
  <1>0. TypeOK' /\ IdleInv' /\ TypeOK
    BY OthersKeepTypes DEF DirInv
  <1>1. PICK gone \in SUBSET tenants :
          /\ DeleteTenants(gone) /\ Losing(u, gone)
          /\ mixed' = mixed \ {u} /\ members' = {m \in members : m[1] \notin gone}
          /\ removed' = removed \cup {owner[t] : t \in gone}
          /\ UNCHANGED <<prefs, default, legacy>>
    BY DEF ForceCleanMixed
  <1>2. /\ UNCHANGED <<owner, pc, req, tid, old>>
        /\ removed \subseteq removed' /\ u \in disturbed' /\ disturbed \subseteq disturbed'
        /\ \A t \in gone : owner[t] \in removed' /\ owner[t] \in disturbed'
    BY <1>1 DEF Losing, reqVars
  <1>3. tenants' = tenants \ gone /\ \A t \in TenantIds \ gone : name'[t] = name[t] /\ credits'[t] = credits[t]
    BY <1>1 DEF DeleteTenants
  <1>4. \A v \in Users, t \in TenantIds \ gone : <<t, v>> \in members => <<t, v>> \in members'
    BY <1>1
  <1> QED
    BY <1>0, <1>1, <1>2, <1>3, <1>4, DeletingKeeps

\* The process stops: the rows stay, the users with a running call are disturbed.
LEMMA CrashKeeps ==
  ASSUME DirInv, Crash
  PROVE  DirInv'
  <1>0. TypeOK' /\ IdleInv' /\ TypeOK
    BY OthersKeepTypes DEF DirInv
  <1>1. UNCHANGED <<prefs, mixed, default, legacy, tenants, owner, name, credits, members, req, tid, old, removed>>
    BY DEF Crash, rowVars, reqVars
  <1>2. /\ \A r \in Requests : pc'[r] = IF pc[r] \in InFlight THEN "lost" ELSE pc[r]
        /\ "lost" \notin InFlight
        /\ \A u \in Users : u \notin disturbed' => u \notin disturbed /\ \A r \in Requests : ~Runs(r, u)
    BY DEF Crash, Runs, InFlight
  <1>3. ASSUME NEW u \in Users
        PROVE  UserInv(u)'
    <2>1. UserInv(u)
      BY DEF DirInv
    <2>2. \A q \in Requests : (IsOf(q, u)' <=> IsOf(q, u)) /\ ~Runs(q, u)'
      BY <1>1, <1>2 DEF IsOf, Runs, User, InFlight
    <2>3. TenantOf(u)' = TenantOf(u) /\ Kept(u)' = Kept(u) /\ Unborn(u)' = Unborn(u) /\ Settled(u)' = Settled(u)
      BY <1>1 DEF TenantOf, Kept, Unborn, Settled, Born
    <2>4. DefaultInv(u)' /\ LegacyInv(u)'
      BY <1>1, <2>1, <2>3 DEF UserInv, DefaultInv, LegacyInv
    <2>5. ASSUME NEW q \in Requests, IsOf(q, u)'
          PROVE  RequestInv(q, u)'
      <3>1. RequestInv(q, u) /\ (pc'[q] = pc[q] \/ pc'[q] = "lost")
        BY <1>2, <2>1, <2>2, <2>5 DEF UserInv
      <3> QED
        BY <1>1, <2>2, <2>3, <3>1 DEF RequestInv, Creating
    <2>6. CalmInv(u)'
      <3>1. SUFFICES ASSUME u \notin disturbed'
                     PROVE  CalmInv(u)'
        BY DEF CalmInv
      <3>2. u \notin disturbed /\ CalmInv(u) /\ \A r \in Requests : ~Runs(r, u)
        BY <1>2, <2>1, <3>1 DEF UserInv
      <3>3. \A r \in Requests : IsOf(r, u) => pc'[r] = pc[r]
        BY <1>2, <3>2 DEF Runs, IsOf
      <3> QED
        BY <1>1, <2>2, <2>3, <3>2, <3>3 DEF CalmInv, Answered
    <2> QED
      BY <2>4, <2>5, <2>6 DEF UserInv
  <1> QED
    BY <1>0, <1>3 DEF DirInv

-----------------------------------------------------------------------------
(* The invariant.                                                          *)

LEMMA DirInvInit ==
  ASSUME Init
  PROVE  DirInv
  <1>1. TypeOK
    BY DirectoryAssumption DEF Init, TypeOK, Issued
  <1>2. IdleInv
    BY DEF Init, IdleInv, Issued
  <1>3. ASSUME NEW u \in Users
        PROVE  UserInv(u)
    <2>1. \A r \in Requests : ~IsOf(r, u) /\ ~Runs(r, u)
      BY DEF Init, IsOf, Runs, InFlight
    <2>2. Unborn(u) /\ DefaultInv(u) /\ LegacyInv(u)
      BY DEF Init, Unborn, TenantOf, DefaultInv, LegacyInv
    <2>3. CalmInv(u)
      BY <2>1, <2>2 DEF Init, CalmInv
    <2> QED
      BY <2>1, <2>2, <2>3 DEF UserInv
  <1> QED
    BY <1>1, <1>2, <1>3 DEF DirInv

LEMMA DirInvNext ==
  ASSUME DirInv, [Next]_vars
  PROVE  DirInv'
  <1>1. ASSUME NEW r \in Requests, NEW c \in Menu, Start(r, c)
        PROVE  DirInv'
    BY <1>1, StartKeeps
  <1>2. ASSUME NEW r \in Requests, Handle(r)
        PROVE  DirInv'
    <2>1. CASE FindDefault(r)
      BY <2>1, FindDefaultKeeps
    <2>2. CASE CheckExists(r)
      BY <2>2, CheckExistsKeeps
    <2>3. CASE InsertPrefs(r)
      BY <2>3, InsertPrefsKeeps
    <2>4. CASE \E t \in TenantIds : InsertTenant(r, t)
      BY <2>4, InsertTenantKeeps
    <2>5. CASE LinkUser(r)
      BY <2>5, LinkUserKeeps
    <2>6. CASE SetDefault(r)
      BY <2>6, SetDefaultKeeps
    <2>7. CASE ReadLegacy(r)
      BY <2>7, ReadLegacyKeeps
    <2>8. CASE AddLegacy(r)
      BY <2>8, AddLegacyKeeps
    <2>9. CASE ClearLegacy(r)
      BY <2>9, ClearLegacyKeeps
    <2>10. CASE Rename(r) \/ SetClientId(r)
      BY <2>10, UsingKeeps
    <2>11. CASE Refused(r)
      BY <2>11, FailingKeeps
    <2> QED
      BY <1>2, <2>1, <2>2, <2>3, <2>4, <2>5, <2>6, <2>7, <2>8, <2>9, <2>10, <2>11 DEF Handle
  <1>3. ASSUME NEW r \in Requests, DbFails(r)
        PROVE  DirInv'
    BY <1>3, FailingKeeps
  <1>4. ASSUME NEW u \in Users,
               \/ InsertPreferences(u) \/ UpdatePreferencesMixed(u)
               \/ ResetPreferences(u) \/ ForceClean(u) \/ ForceCleanMixed(u)
        PROVE  DirInv'
    BY <1>4, InsertPreferencesKeeps, UpdatePreferencesMixedKeeps, ResetPreferencesKeeps, ForceCleanKeeps,
       ForceCleanMixedKeeps
  <1>5. CASE Crash
    BY <1>5, CrashKeeps
  <1>6. CASE UNCHANGED vars
    BY <1>6 DEF vars, DirInv, TypeOK, IdleInv, UserInv, DefaultInv, LegacyInv, RequestInv, CalmInv, Progress,
                Settled, Born, Unborn, Kept, TenantOf, Issued, IsOf, Runs, User, Answered
  <1> QED
    BY <1>1, <1>2, <1>3, <1>4, <1>5, <1>6 DEF Next, Finished

LEMMA DirInvAlways == Spec => []DirInv
  <1>1. Init => DirInv
    BY DirInvInit
  <1>2. DirInv /\ [Next]_vars => DirInv'
    BY DirInvNext
  <1> QED
    BY <1>1, <1>2, PTL DEF Spec

-----------------------------------------------------------------------------
(* The names of tenants.                                                   *)

\* A tenant has the name it was created with unless its user has renamed it.
NameInv ==
  /\ \A t \in tenants : name[t] = owner[t] \/ HasRenamed(owner[t])
  /\ \A u \in bereft : HasRenamed(u)

\* An answer is never taken back.
LEMMA RenamedStays ==
  ASSUME DirInv, [Next]_vars, NEW u, HasRenamed(u)
  PROVE  HasRenamed(u)'
  <1>1. PICK r \in Requests : pc[r] = "ok" /\ req[r].purpose = "rename" /\ User(r) = u /\ req[r].value # u
    BY DEF HasRenamed
  <1>2. pc'[r] = pc[r] /\ req'[r] = req[r]
    <2>1. ASSUME NEW q \in Requests, NEW c \in Menu, Start(q, c)
          PROVE  pc'[r] = pc[r] /\ req'[r] = req[r]
      BY <1>1, <2>1 DEF Start, Goto, DirInv, TypeOK
    <2>2. ASSUME NEW q \in Requests, Handle(q) \/ DbFails(q)
          PROVE  pc'[r] = pc[r] /\ req'[r] = req[r]
      <3>1. pc[q] \in InFlight /\ req' = req /\ \E step : pc' = [pc EXCEPT ![q] = step]
        BY <2>2 DEF Handle, InFlight, Goto, DbFails, FindDefault, CheckExists, InsertPrefs, InsertTenant, reqVars,
               LinkUser, SetDefault, ReadLegacy, AddLegacy, ClearLegacy, Rename, SetClientId, Refused, StatementRefused
      <3> QED
        BY <1>1, <3>1 DEF InFlight, DirInv, TypeOK
    <2>3. ASSUME NEW v \in Users,
                 \/ InsertPreferences(v) \/ UpdatePreferencesMixed(v)
                 \/ ResetPreferences(v) \/ ForceClean(v) \/ ForceCleanMixed(v)
          PROVE  pc'[r] = pc[r] /\ req'[r] = req[r]
      BY <2>3 DEF InsertPreferences, UpdatePreferencesMixed, ResetPreferences, ForceClean, ForceCleanMixed, Remove,
             Losing, reqVars
    <2>4. CASE Crash
      BY <1>1, <2>4 DEF Crash, InFlight, reqVars
    <2>5. CASE UNCHANGED vars
      BY <2>5 DEF vars
    <2> QED
      BY <2>1, <2>2, <2>3, <2>4, <2>5 DEF Next, Finished
  <1> QED
    BY <1>1, <1>2 DEF HasRenamed, User

\* The tenants gone in a removal of u are named after u, or after nobody.
LEMMA LosingKeepsNames ==
  ASSUME DirInv, NameInv, NEW u \in Users, NEW gone \in SUBSET tenants, DeleteTenants(gone), Losing(u, gone),
         \A t \in gone : name[t] = u \/ name[t] = Other,
         \A v : HasRenamed(v) => HasRenamed(v)'
  PROVE  NameInv'
  <1>1. \A t \in gone : owner[t] = u \/ HasRenamed(owner[t])
    BY DirectoryAssumption DEF NameInv, DirInv, TypeOK, Issued
  <1>2. \A t \in tenants' : t \in tenants /\ name'[t] = name[t] /\ owner'[t] = owner[t]
    BY DEF DeleteTenants, Losing, DirInv, TypeOK, Issued
  <1>3. \A v \in bereft' : v \in bereft \/ \E t \in gone : v = owner[t] /\ v # u
    BY DEF Losing
  <1>4. \A t \in tenants' : name'[t] = owner'[t] \/ HasRenamed(owner[t])'
    BY <1>2 DEF NameInv
  <1>5. \A v \in bereft' : HasRenamed(v)'
    BY <1>1, <1>3 DEF NameInv
  <1> QED
    BY <1>4, <1>5 DEF NameInv

LEMMA NameInvNext ==
  ASSUME DirInv, DirInv', NameInv, [Next]_vars
  PROVE  NameInv'
  <1>0. \A u : HasRenamed(u) => HasRenamed(u)'
    BY RenamedStays
  <1>1. ASSUME bereft' = bereft, \A t \in tenants' : t \in tenants /\ name'[t] = name[t] /\ owner'[t] = owner[t]
        PROVE  NameInv'
    BY <1>0, <1>1 DEF NameInv
  <1>2. ASSUME NEW r \in Requests, NEW t \in TenantIds, InsertTenant(r, t)
        PROVE  NameInv'
    <2>1. bereft' = bereft /\ tenants' = tenants \cup {t} /\ t \notin tenants
      BY <1>2 DEF InsertTenant, histVars, DirInv, TypeOK
    <2>2. name'[t] = owner'[t] /\ \A s \in TenantIds \ {t} : name'[s] = name[s] /\ owner'[s] = owner[s]
      BY <1>2 DEF InsertTenant, DirInv, TypeOK
    <2>3. tenants \subseteq TenantIds \ {t}
      BY <2>1 DEF DirInv, TypeOK, Issued
    <2> QED
      BY <1>0, <2>1, <2>2, <2>3 DEF NameInv
  <1>3. ASSUME NEW r \in Requests, Rename(r)
        PROVE  NameInv'
    <2>1. /\ UNCHANGED <<tenants, owner, req, bereft>> /\ pc'[r] = "ok" /\ req[r].purpose = "rename"
          /\ pc[r] \in InFlight
      BY <1>3 DEF Rename, Goto, reqVars, histVars, DirInv, TypeOK, InFlight
    <2>2. tenants \subseteq TenantIds
      BY DEF DirInv, TypeOK, Issued
    <2>3. ASSUME NEW t \in tenants, NEW u, u = owner[t]
          PROVE  name'[t] = u \/ HasRenamed(u)'
      <3>1. CASE t # tid[r]
        <4>1. name'[t] = name[t]
          BY <1>3, <2>2, <3>1 DEF Rename, Written
        <4> QED
          BY <1>0, <2>3, <4>1 DEF NameInv
      <3>2. CASE t = tid[r]
        <4>1. name'[t] = req[r].value
          BY <1>3, <2>2, <3>2 DEF Rename, Written
        <4>2. u = User(r)
          <5>1. t # None
            BY <2>2, DirectoryAssumption
          <5> QED
            BY <2>1, <2>3, <3>2, <5>1, FactsOf DEF RequestInv
        <4> QED
          BY <2>1, <4>1, <4>2 DEF HasRenamed, User
      <3> QED
        BY <3>1, <3>2
    <2> QED
      BY <1>0, <2>1, <2>3 DEF NameInv
  <1>4. ASSUME NEW r \in Requests, NEW c \in Menu, Start(r, c)
        PROVE  NameInv'
    BY <1>1, <1>4 DEF Start, rowVars
  <1>5. ASSUME NEW r \in Requests,
               \/ FindDefault(r) \/ CheckExists(r) \/ InsertPrefs(r) \/ LinkUser(r) \/ SetDefault(r)
               \/ ReadLegacy(r) \/ AddLegacy(r) \/ ClearLegacy(r) \/ SetClientId(r) \/ Refused(r) \/ DbFails(r)
        PROVE  NameInv'
    BY <1>1, <1>5 DEF FindDefault, CheckExists, InsertPrefs, LinkUser, SetDefault, ReadLegacy, AddLegacy, ClearLegacy,
                      SetClientId, Refused, DbFails, rowVars, histVars
  <1>6. ASSUME NEW u \in Users, InsertPreferences(u) \/ UpdatePreferencesMixed(u)
        PROVE  NameInv'
    BY <1>1, <1>6 DEF InsertPreferences, UpdatePreferencesMixed
  <1>7. ASSUME NEW u \in Users, ResetPreferences(u)
        PROVE  NameInv'
    <2>1. UNCHANGED <<tenants, name, owner>> /\ bereft' = bereft
      BY <1>7 DEF ResetPreferences, Remove, Losing
    <2> QED
      BY <1>1, <2>1
  <1>8. ASSUME NEW u \in Users, ForceClean(u) \/ ForceCleanMixed(u)
        PROVE  NameInv'
    BY <1>0, <1>8, LosingKeepsNames DEF ForceClean, ForceCleanMixed, Remove, NamedAfter
  <1>9. CASE Crash
    BY <1>1, <1>9 DEF Crash, rowVars
  <1>10. CASE UNCHANGED vars
    BY <1>1, <1>10 DEF vars
  <1> QED
    BY <1>2, <1>3, <1>4, <1>5, <1>6, <1>7, <1>8, <1>9, <1>10 DEF Next, Handle, Finished

LEMMA NameInvAlways == Spec => []NameInv
  <1>1. Init => NameInv
    BY DEF Init, NameInv
  <1>2. DirInv /\ DirInv' /\ NameInv /\ [Next]_vars => NameInv'
    BY NameInvNext
  <1> QED
    BY <1>1, <1>2, DirInvAlways, PTL DEF Spec

-----------------------------------------------------------------------------
(* What get_or_create_personal_tenant and its surroundings promise.        *)

\* Every column keeps its type, and a row of tenant_users always refers to a
\* tenant and a user that exist, whatever is inserted and removed meanwhile.
THEOREM DirectoryTypes == Spec => []TypeOK
  <1>1. DirInv => TypeOK
    BY DEF DirInv
  <1> QED
    BY <1>1, DirInvAlways, PTL

\* The tenant that get_or_create_personal_tenant resolves for a user is one the
\* user owns and is a member of, for any number of calls that race or fail
\* between their statements and any removals.
THEOREM DefaultIsOwn == Spec => []DefaultIsOwnMembership
  <1>1. ASSUME DirInv
        PROVE  DefaultIsOwnMembership
    <2>1. ASSUME NEW u \in prefs, default[u] \in tenants
          PROVE  owner[default[u]] = u /\ <<default[u], u>> \in members
      <3>1. DefaultInv(u) /\ default[u] # None
        BY <1>1, <2>1, DirectoryAssumption DEF DirInv, TypeOK, UserInv, Issued
      <3> QED
        BY <2>1, <3>1 DEF DefaultInv
    <2> QED
      BY <2>1 DEF DefaultIsOwnMembership
  <1> QED
    BY <1>1, DirInvAlways, PTL

\* The three statements that move the old credits to the tenant may repeat for
\* two calls or stop half-way, and never lose them; and the removal of somebody
\* else takes the tenant only from a user who has renamed it.
THEOREM CreditsSurvive == Spec => []LegacyNeverLost
  <1>1. ASSUME DirInv, NameInv
        PROVE  LegacyNeverLost
    BY <1>1 DEF DirInv, UserInv, LegacyInv, Kept, NameInv, LegacyNeverLost
  <1> QED
    BY <1>1, DirInvAlways, NameInvAlways, PTL

\* Without overlap, failure and removal, every call of a user is answered with
\* the one tenant the user has, which has exactly the credits there were to
\* move, or asked for a client id that was taken.
THEOREM UndisturbedSettle == Spec => []UndisturbedCallsSettle
  <1>1. ASSUME DirInv
        PROVE  UndisturbedCallsSettle
    <2>1. ASSUME NEW u \in Users \ disturbed, NEW r \in Requests, pc[r] \in {"ok", "refused"}, User(r) = u
          PROVE  /\ pc[r] = "refused" => req[r].purpose = "client" /\ req[r].value # None
                 /\ TenantOf(u) = {tid[r]} /\ default[u] = tid[r]
                 /\ credits[tid[r]] = LegacyCredits[u] /\ legacy[u] = 0
      <3>1. CalmInv(u) /\ IsOf(r, u) /\ pc[r] \in Ended
        BY <1>1, <2>1 DEF DirInv, UserInv, IsOf, Ended
      <3>2. Answered(r) /\ Settled(u) /\ tid[r] = default[u]
        BY <3>1 DEF CalmInv
      <3> QED
        BY <3>2 DEF Answered, Settled, Born
    <2> QED
      BY <2>1 DEF UndisturbedCallsSettle
  <1> QED
    BY <1>1, DirInvAlways, PTL
=============================================================================
