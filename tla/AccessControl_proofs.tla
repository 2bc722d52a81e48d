------------------------- MODULE AccessControl_proofs -------------------------
(***************************************************************************)
(* Theorems about AccessControl, for every set of accounts, tabs, tables   *)
(* and addresses, and however much is done.                                *)
(***************************************************************************)
EXTENDS AccessControl, TLAPS

-----------------------------------------------------------------------------
(* The accounts                                                            *)

\* No account ever goes, and its version counts its changes.
Kept ==
  \A u \in Users : row[u] # Absent => row'[u] # Absent /\ row[u].version <= row'[u].version

LEMMA RowType ==
  ASSUME NEW role \in Roles, NEW settings \in Settings \cup {Absent},
         NEW vpn \in Addresses \cup {Absent}, NEW version \in Nat \ {0}
  PROVE  LET r == Row(role, settings, vpn, version) IN
         /\ r \in Rows /\ r # Absent
         /\ r.role = role /\ r.settings = settings /\ r.vpn = vpn /\ r.version = version
BY AbsentAssumption DEF Row, Rows

LEMMA NewRowType == NewRow \in Rows /\ NewRow # Absent
BY AbsentAssumption DEF NewRow, Row, Rows, Roles

\* What a write puts into the row of an account.
LEMMA WrittenRow ==
  ASSUME NEW r \in Rows
  PROVE  LET w == [r EXCEPT !.version = @ + 1] IN
         /\ w \in Rows /\ w # Absent
         /\ w.role = r.role /\ w.settings = r.settings
         /\ r.version \in Nat /\ r.version <= w.version
<1>1. r.version \in Nat \ {0} /\ r.version + 1 \in Nat \ {0} /\ r.version <= r.version + 1
  BY DEF Rows
<1> QED
  BY <1>1, AbsentAssumption DEF Rows

\* The rows that the three writes of the handlers start from.
LEMMA ScopedFields ==
  ASSUME NEW r \in Rows, NEW settings \in Settings \cup {Absent}
  PROVE  LET a == [r EXCEPT !.settings = settings] IN
         a \in Rows /\ a.role = r.role /\ a.settings = settings /\ a.version = r.version
BY DEF Rows

LEMMA BoundFields ==
  ASSUME NEW r \in Rows, NEW vpn \in Addresses \cup {Absent}
  PROVE  LET a == [r EXCEPT !.vpn = vpn] IN
         a \in Rows /\ a.role = r.role /\ a.settings = r.settings /\ a.version = r.version
BY DEF Rows

\* When the row of one account is set.
LEMMA AccountStep ==
  ASSUME AccountInv, NEW u \in Users, NEW r \in Rows, r # Absent,
         row[u] # Absent => row[u].version <= r.version,
         row' = [row EXCEPT ![u] = r]
  PROVE  AccountInv' /\ Kept
<1>1. row' \in [Users -> Rows \cup {Absent}]
  BY DEF AccountInv
<1>2. \A v \in Users : row'[v] = IF v = u THEN r ELSE row[v]
  BY DEF AccountInv
<1>3. \A v \in Users : row[v] # Absent => row[v].version \in Nat
  BY DEF AccountInv, Rows
<1> QED
  BY <1>1, <1>2, <1>3, RootAssumption DEF AccountInv, Kept

LEMMA AccountSame ==
  ASSUME AccountInv, UNCHANGED row PROVE AccountInv' /\ Kept
<1>1. \A v \in Users : row[v] # Absent => row[v].version \in Nat
  BY DEF AccountInv, Rows
<1> QED
  BY <1>1 DEF AccountInv, Kept

LEMMA WriteAccount ==
  ASSUME AccountInv, NEW p \in Tabs, NEW kind \in Kinds, NEW pc, NEW r \in Rows,
         job[p][kind].user \in Users, Write(p, kind, r, pc),
         r.version = row[job[p][kind].user].version
  PROVE  AccountInv' /\ Kept
<1> DEFINE u == job[p][kind].user
           w == [r EXCEPT !.version = @ + 1]
<1>1. row' = [row EXCEPT ![u] = w]
  BY DEF Write
<1>2. w \in Rows /\ w # Absent /\ r.version <= w.version
  BY WrittenRow
<1> HIDE DEF w
<1> QED
  BY <1>1, <1>2, AccountStep

\* The steps that leave the accounts alone.
LEMMA AccountFrame ==
  ASSUME [Next]_vars
  PROVE  \/ UNCHANGED row
         \/ \E p \in Tabs : \/ AssignRole(p) \/ UpdateRoleSettings(p) \/ SetVpnIp(p)
                            \/ CreateUser(p) \/ \E u \in Users : HandleRegister(p, u)
<1>1. CASE UNCHANGED vars \/ Expire
  BY <1>1 DEF vars, Expire
<1>2. ASSUME NEW p \in Tabs, PageStep(p), ~\E u \in Users : HandleRegister(p, u)
      PROVE  UNCHANGED row
  BY <1>2 DEF PageStep, HandleSave, HandleSaveVpnIp, HandleCreate, Start, HandleLogin
<1>3. ASSUME NEW p \in Tabs,
             CheckSession(p) \/ HandleLogOut(p) \/ (\E path \in Paths : Navigate(p, path))
      PROVE  UNCHANGED row
  BY <1>3 DEF CheckSession, HandleLogOut, Navigate
<1>4. ASSUME NEW p \in Tabs, NEW k,
             Read(p, k) \/ Answer(p, k) \/ Fails(p, k) \/ Unauthorized(p, k) \/ Dropped(p, k)
      PROVE  UNCHANGED row
  BY <1>4 DEF Read, Answer, Fails, Unauthorized, Dropped
<1>5. ASSUME NEW p \in Tabs, ListStep(p) PROVE UNCHANGED row
  BY <1>5 DEF ListStep, ServeList, ShowList, ListFails
<1>6. ASSUME NEW p \in Tabs, SendScopes(p) PROVE UNCHANGED row
  BY <1>6 DEF SendScopes
<1> QED
  BY <1>1, <1>2, <1>3, <1>4, <1>5, <1>6 DEF Next, SaveStep, OtherStep

\* What a request under way knows of its account.
LEMMA CallFacts ==
  ASSUME CallsInv, NEW p \in Tabs, NEW k \in Kinds
  PROVE  /\ CallInv(k, job[p][k], row) /\ job[p][k] \in Calls(k)
         /\ job[p][k].user \in Users /\ job[p][k].role \in Roles
         /\ job[p][k].settings \in Settings \cup {Absent}
         /\ job[p][k].vpn \in Addresses \cup {Absent}
         /\ job[p][k].pc \in Stages(k)
<1>1. CallInv(k, job[p][k], row)
  BY DEF CallsInv
<1>2. job[p][k] \in Calls(k)
  BY <1>1 DEF CallInv
<1> QED
  BY <1>1, <1>2 DEF Calls

LEMMA SaveKinds == "save" \in Kinds /\ "vpn" \in Kinds /\ "create" \in Kinds
BY DEF Kinds

\* What AssignRole puts back: the settings that Read has seen, or none.
LEMMA AssignedRow ==
  ASSUME AccountInv, CallsInv, NEW p \in Tabs, job[p]["save"].pc = "writeRole"
  PROVE  LET s == job[p]["save"]
             f == IF s.role = "admin" THEN Absent ELSE s.seen.settings
             r == [row[s.user] EXCEPT !.role = s.role, !.settings = f] IN
         /\ r \in Rows /\ r.version = row[s.user].version
         /\ r.role = s.role /\ (s.role = "admin" => r.settings = Absent)
<1> DEFINE s == job[p]["save"]
           f == IF s.role = "admin" THEN Absent ELSE s.seen.settings
<1>1. CallInv("save", s, row) /\ s \in Calls("save") /\ s.user \in Users /\ s.role \in Roles
  BY CallFacts, SaveKinds
<1>2. s.seen \in Rows /\ row[s.user] # Absent
  <2>1. s.seen # Absent /\ row[s.user] # Absent
    BY <1>1 DEF CallInv
  <2> QED
    BY <1>1, <2>1 DEF Calls
<1>3. f \in Settings \cup {Absent} /\ row[s.user] \in Rows
  BY <1>1, <1>2 DEF Rows, AccountInv
<1> DEFINE old == row[s.user]
           role == s.role
<1>4. old \in Rows /\ role \in Roles
  BY <1>1, <1>3
<1> HIDE DEF f, old, role
<1> DEFINE r == [old EXCEPT !.role = role, !.settings = f]
<1>5. r \in Rows /\ r.version = old.version /\ r.role = role /\ r.settings = f
  BY <1>3, <1>4 DEF Rows
<1> QED
  BY <1>5 DEF f, old, role

LEMMA AccountNext ==
  ASSUME AccountInv, CallsInv, [Next]_vars PROVE AccountInv' /\ Kept
<1>1. CASE UNCHANGED row
  BY <1>1, AccountSame
<1>2. ASSUME NEW p \in Tabs, AssignRole(p) PROVE AccountInv' /\ Kept
  <2> DEFINE s == job[p]["save"]
             r == [row[s.user] EXCEPT !.role = s.role,
                     !.settings = IF s.role = "admin" THEN Absent ELSE s.seen.settings]
  <2>1. s.pc = "writeRole" /\ Write(p, "save", r, IF s.role = "admin" THEN "done" ELSE "half")
    BY <1>2 DEF AssignRole
  <2>2. r \in Rows /\ r.version = row[s.user].version /\ s.user \in Users
    BY <2>1, AssignedRow, CallFacts, SaveKinds
  <2> HIDE DEF r
  <2> QED
    BY <2>1, <2>2, WriteAccount, SaveKinds
<1>3. ASSUME NEW p \in Tabs, UpdateRoleSettings(p) PROVE AccountInv' /\ Kept
  <2> DEFINE s == job[p]["save"]
             r == [row[s.user] EXCEPT !.settings = s.settings]
  <2>1. Write(p, "save", r, "done")
    BY <1>3 DEF UpdateRoleSettings
  <2>2. s.user \in Users /\ s.settings \in Settings \cup {Absent} /\ CallInv("save", s, row)
    BY CallFacts, SaveKinds
  <2>3. row[s.user] \in Rows
    BY <2>2 DEF CallInv, AccountInv
  <2>4. r \in Rows /\ r.version = row[s.user].version
    BY <2>2, <2>3, ScopedFields
  <2> HIDE DEF r
  <2> QED
    BY <2>1, <2>2, <2>4, WriteAccount, SaveKinds
<1>4. ASSUME NEW p \in Tabs, SetVpnIp(p) PROVE AccountInv' /\ Kept
  <2> DEFINE s == job[p]["vpn"]
             r == [row[s.user] EXCEPT !.vpn = s.vpn]
  <2>1. Write(p, "vpn", r, "done")
    BY <1>4 DEF SetVpnIp
  <2>2. s.user \in Users /\ s.vpn \in Addresses \cup {Absent} /\ CallInv("vpn", s, row)
    BY CallFacts, SaveKinds
  <2>3. row[s.user] \in Rows
    BY <2>2 DEF CallInv, AccountInv
  <2>4. r \in Rows /\ r.version = row[s.user].version
    BY <2>2, <2>3, BoundFields
  <2> HIDE DEF r
  <2> QED
    BY <2>1, <2>2, <2>4, WriteAccount, SaveKinds
<1>5. ASSUME NEW u \in Users, row[u] = Absent, row' = [row EXCEPT ![u] = NewRow]
      PROVE  AccountInv' /\ Kept
  BY <1>5, NewRowType, AccountStep
<1>6. ASSUME NEW p \in Tabs, CreateUser(p) PROVE AccountInv' /\ Kept
  <2>1. job[p]["create"].user \in Users
    BY CallFacts, SaveKinds
  <2> QED
    BY <1>5, <1>6, <2>1 DEF CreateUser
<1>7. ASSUME NEW p \in Tabs, NEW u \in Users, HandleRegister(p, u) PROVE AccountInv' /\ Kept
  BY <1>5, <1>7 DEF HandleRegister
<1> QED
  BY <1>1, <1>2, <1>3, <1>4, <1>6, <1>7, AccountFrame

-----------------------------------------------------------------------------
(* The session                                                             *)

LEMMA SessionFrame ==
  ASSUME [Next]_vars
  PROVE  \/ /\ stored' \in {stored, Absent} /\ UNCHANGED dead
            /\ UNCHANGED events \/ Event(1) \/ Event(2)
         \/ Expire
         \/ \E p \in Tabs, u \in Users : HandleLogin(p, u)
<1> DEFINE Same == /\ stored' \in {stored, Absent} /\ UNCHANGED dead
                   /\ UNCHANGED events \/ Event(1) \/ Event(2)
<1>1. CASE UNCHANGED vars
  BY <1>1 DEF vars
<1>2. ASSUME NEW p \in Tabs, PageStep(p), ~\E u \in Users : HandleLogin(p, u) PROVE Same
  BY <1>2 DEF PageStep, HandleSave, HandleSaveVpnIp, HandleCreate, Start, HandleRegister
<1>3. ASSUME NEW p \in Tabs,
             CheckSession(p) \/ HandleLogOut(p) \/ (\E path \in Paths : Navigate(p, path))
      PROVE  Same
  BY <1>3 DEF CheckSession, HandleLogOut, Navigate
<1>4. ASSUME NEW p \in Tabs, NEW k,
             Read(p, k) \/ Answer(p, k) \/ Fails(p, k) \/ Unauthorized(p, k) \/ Dropped(p, k)
      PROVE  Same
  BY <1>4 DEF Read, Answer, Fails, Unauthorized, Dropped, Quiet, SignedOut
<1>5. ASSUME NEW p \in Tabs, ListStep(p) PROVE Same
  BY <1>5 DEF ListStep, ServeList, ShowList, ListFails, SignedOut
<1>6. ASSUME NEW p \in Tabs, SendScopes(p) \/ CreateUser(p) PROVE Same
  BY <1>6 DEF SendScopes, CreateUser, Quiet
<1>7. ASSUME NEW p \in Tabs, AssignRole(p) \/ UpdateRoleSettings(p) \/ SetVpnIp(p) PROVE Same
  BY <1>7 DEF AssignRole, UpdateRoleSettings, SetVpnIp, Write, Quiet
<1> QED
  BY <1>1, <1>2, <1>3, <1>4, <1>5, <1>6, <1>7 DEF Next, SaveStep, OtherStep

LEMMA TokenType ==
  ASSUME AccountInv, NEW u \in Users, row[u] # Absent, NEW id \in 0 .. MaxEvents
  PROVE  Token(u, id) \in Tokens /\ Token(u, id).id = id
<1>1. row[u] \in Rows /\ row[u].role \in Roles
  BY DEF AccountInv, Rows
<1>2. id \in Nat
  BY MaxEventsAssumption
<1> QED
  BY <1>1, <1>2 DEF Token, Tokens

LEMMA SessionNext ==
  ASSUME AccountInv, SessionInv, [Next]_vars PROVE SessionInv'
<1>1. ASSUME NEW weight \in {1, 2}, Event(weight) PROVE events \in 0 .. MaxEvents /\ events' \in 0 .. MaxEvents
  BY <1>1, MaxEventsAssumption DEF Event, SessionInv
<1>2. CASE /\ stored' \in {stored, Absent} /\ UNCHANGED dead
           /\ UNCHANGED events \/ Event(1) \/ Event(2)
  <2>1. events' \in 0 .. MaxEvents
    BY <1>1, <1>2 DEF SessionInv
  <2> QED
    BY <1>2, <2>1 DEF SessionInv
<1>3. CASE Expire
  <2>1. stored # Absent /\ UNCHANGED stored /\ dead' = dead \cup {stored.id} /\ Event(1)
    BY <1>3 DEF Expire, HasValidSession, Known
  <2> QED
    BY <1>1, <2>1 DEF SessionInv
<1>4. ASSUME NEW p \in Tabs, NEW u \in Users, HandleLogin(p, u) PROVE SessionInv'
  <2>1. Event(1) /\ stored' = Token(u, events) /\ UNCHANGED dead /\ row[u] # Absent
    BY <1>4 DEF HandleLogin
  <2>2. events \in 0 .. MaxEvents /\ events' \in 0 .. MaxEvents
    BY <1>1, <2>1
  <2>3. stored' \in Tokens /\ stored'.id = events
    BY <2>1, <2>2, TokenType
  <2> QED
    BY <2>1, <2>2, <2>3 DEF SessionInv
<1> QED
  BY <1>2, <1>3, <1>4, SessionFrame

-----------------------------------------------------------------------------
(* The tabs                                                                *)

\* Going elsewhere asks AppWrapper to look again.
Goes(p, path) == tab' = [tab EXCEPT ![p] = [path |-> path, checking |-> TRUE]]

LEMMA TabFrame ==
  ASSUME [Next]_vars
  PROVE  \/ UNCHANGED <<tab, checked>> /\ dead \subseteq dead'
         \/ UNCHANGED <<dead, checked>> /\ \E p \in Tabs, path \in Paths : Goes(p, path)
         \/ \E p \in Tabs : CheckSession(p)
<1> DEFINE Same == UNCHANGED <<tab, checked>> /\ dead \subseteq dead'
           Gone == UNCHANGED <<dead, checked>> /\ \E p \in Tabs, path \in Paths : Goes(p, path)
<1>0. "/" \in Paths /\ "/login" \in Paths /\ "/data-explorers" \in Paths
  BY DEF Paths, AuthPages
<1>1. CASE UNCHANGED vars \/ Expire
  BY <1>1 DEF vars, Expire
<1>2. ASSUME NEW p \in Tabs, PageStep(p) PROVE Same \/ Gone
  <2>1. ASSUME NEW u \in Users, HandleLogin(p, u) PROVE Gone
    BY <1>0, <2>1 DEF HandleLogin, Load, Goes
  <2>2. ASSUME NEW u \in Users, HandleRegister(p, u) PROVE Gone
    BY <1>0, <2>2 DEF HandleRegister, Goes
  <2> QED
    BY <1>2, <2>1, <2>2 DEF PageStep, HandleSave, HandleSaveVpnIp, HandleCreate, Start
<1>3. ASSUME NEW p \in Tabs, HandleLogOut(p) \/ (\E path \in Paths : Navigate(p, path))
      PROVE  Gone
  BY <1>0, <1>3 DEF HandleLogOut, Navigate, Load, Goes
<1>s. ASSUME NEW p \in Tabs, SignedOut(p), UNCHANGED <<dead, checked>> PROVE Same \/ Gone
  BY <1>0, <1>s DEF SignedOut, Load, Goes
<1>4. ASSUME NEW p \in Tabs, NEW k,
             Read(p, k) \/ Answer(p, k) \/ Fails(p, k) \/ Unauthorized(p, k) \/ Dropped(p, k)
      PROVE  Same \/ Gone
  BY <1>4, <1>s DEF Read, Answer, Fails, Unauthorized, Dropped, Quiet
<1>5. ASSUME NEW p \in Tabs, ListStep(p) PROVE Same \/ Gone
  BY <1>5, <1>s DEF ListStep, ServeList, ShowList, ListFails
<1>6. ASSUME NEW p \in Tabs, SendScopes(p) \/ CreateUser(p) PROVE Same
  BY <1>6 DEF SendScopes, CreateUser, Quiet
<1>7. ASSUME NEW p \in Tabs, AssignRole(p) \/ UpdateRoleSettings(p) \/ SetVpnIp(p) PROVE Same
  BY <1>7 DEF AssignRole, UpdateRoleSettings, SetVpnIp, Write, Quiet
<1> QED
  BY <1>1, <1>2, <1>3, <1>4, <1>5, <1>6, <1>7 DEF Next, SaveStep, OtherStep

LEMMA RedirectType ==
  ASSUME NEW path \in Paths PROVE Redirect(path) \in Paths
BY DEF Redirect, Paths, AuthPages

\* Where AppWrapper leaves a tab, the session belongs.
LEMMA StaysFit ==
  ASSUME NEW path \in Paths, Redirect(path) = path PROVE Fits(path, stored)
<1>1. CASE stored = Absent
  BY <1>1 DEF Redirect, HasValidSession, Known, Fits, AuthPages
<1>2. CASE stored # Absent
  <2>1. SUFFICES ASSUME stored.id \notin dead
                 PROVE  path \notin AuthPages /\ (IsAdminRoute(path) => IsAdmin)
    BY <1>2 DEF Fits, IsAdmin
  <2>2. HasValidSession
    BY <1>2, <2>1 DEF HasValidSession, Known
  <2>3. path \notin AuthPages
    BY <2>2 DEF Redirect, AuthPages
  <2>4. IsAdminRoute(path) => IsAdmin
    BY <2>2, <2>3 DEF Redirect, IsAdminRoute
  <2> QED
    BY <2>3, <2>4
<1> QED
  BY <1>1, <1>2

LEMMA TabNext ==
  ASSUME TabInv, [Next]_vars PROVE TabInv'
<1>1. CASE UNCHANGED <<tab, checked>> /\ dead \subseteq dead'
  BY <1>1 DEF TabInv, Fits
<1>2. ASSUME NEW p \in Tabs, NEW path \in Paths, Goes(p, path), UNCHANGED <<dead, checked>>
      PROVE  TabInv'
  BY <1>2 DEF Goes, TabInv, Fits
<1>3. ASSUME NEW p \in Tabs, CheckSession(p) PROVE TabInv'
  <2> DEFINE old == tab[p].path
             path == Redirect(old)
             t == [path |-> path, checking |-> path # old]
  <2>1. old \in Paths /\ path \in Paths
    BY RedirectType DEF TabInv
  <2>2. /\ tab' = [tab EXCEPT ![p] = t] /\ checked' = [checked EXCEPT ![p] = stored']
        /\ UNCHANGED dead
        /\ stored' = IF path = "/login" /\ old # "/login" THEN Absent ELSE stored
    BY <1>3 DEF CheckSession
  <2>3. t \in [path : Paths, checking : BOOLEAN] /\ t.path = path /\ t.checking = (path # old)
    BY <2>1
  <2>4. path = old => stored' = stored /\ Fits(path, stored)
    BY <2>1, <2>2, StaysFit
  <2> HIDE DEF t, path
  <2>5. tab' \in [Tabs -> [path : Paths, checking : BOOLEAN]] /\ DOMAIN checked' = Tabs
    BY <2>2, <2>3 DEF TabInv
  <2>6. ASSUME NEW q \in Tabs, ~tab'[q].checking PROVE Fits(tab'[q].path, checked'[q])
    <3>1. CASE q = p
      BY <2>2, <2>3, <2>4, <2>6, <3>1 DEF TabInv
    <3>2. CASE q # p
      BY <2>2, <2>6, <3>2 DEF TabInv
    <3> QED
      BY <3>1, <3>2
  <2> QED
    BY <2>2, <2>5, <2>6 DEF TabInv, Fits
<1> QED
  BY <1>1, <1>2, <1>3, TabFrame

-----------------------------------------------------------------------------
(* The requests                                                            *)

\* CallsInv of any requests and rows.
CallsOk(calls, rows) ==
  /\ DOMAIN calls = Tabs /\ \A p \in Tabs : DOMAIN calls[p] = Kinds
  /\ \A p \in Tabs, k \in Kinds : CallInv(k, calls[p][k], rows)

LEMMA CallsParts == CallsInv <=> CallsOk(job, row)
BY DEF CallsInv, CallsOk

LEMMA CallsLater == ASSUME CallsOk(job', row') PROVE CallsInv'
BY DEF CallsInv, CallsOk, CallInv, Calls

LEMMA IdleInv ==
  ASSUME NEW k \in Kinds, NEW rows, rows[Root] # Absent PROVE CallInv(k, Idle, rows)
<1>1. Idle \in Calls(k)
  BY RootAssumption DEF Idle, Calls, Stages, Roles
<1> QED
  BY <1>1 DEF CallInv, Idle

LEMMA CallsSet ==
  ASSUME NEW calls, NEW rows, CallsOk(calls, rows), NEW p \in Tabs, NEW k \in Kinds, NEW s,
         CallInv(k, s, rows)
  PROVE  CallsOk([calls EXCEPT ![p][k] = s], rows)
<1> DEFINE after == [calls EXCEPT ![p][k] = s]
<1>1. DOMAIN after = Tabs /\ \A q \in Tabs : DOMAIN after[q] = Kinds
  BY DEF CallsOk
<1>2. \A q \in Tabs, j \in Kinds : after[q][j] = IF q = p /\ j = k THEN s ELSE calls[q][j]
  BY DEF CallsOk
<1> HIDE DEF after
<1>3. CallsOk(after, rows)
  BY <1>1, <1>2 DEF CallsOk
<1> QED
  BY <1>3 DEF after

\* A page that goes leaves its requests as far as they are.
LEMMA CallsForgotten ==
  ASSUME AccountInv, CallsInv, NEW p \in Tabs, NEW script \in {"left", "gone"}
  PROVE  CallsOk(Forget(p, script), row)
<1> DEFINE after == Forget(p, script)
           Left(s) == IF s = Idle THEN Idle
                      ELSE [s EXCEPT !.page = IF @ = "gone" THEN @ ELSE script]
<1>1. DOMAIN after = Tabs /\ \A q \in Tabs : DOMAIN after[q] = Kinds
  BY DEF CallsInv, Forget
<1>2. \A q \in Tabs, k \in Kinds : after[q][k] = IF q = p THEN Left(job[q][k]) ELSE job[q][k]
  BY DEF CallsInv, Forget
<1>3. ASSUME NEW k \in Kinds, NEW s, CallInv(k, s, row) PROVE CallInv(k, Left(s), row)
  <2>1. CASE s = Idle
    BY <1>3, <2>1
  <2>2. CASE s # Idle
    <3> DEFINE t == [s EXCEPT !.page = IF @ = "gone" THEN @ ELSE script]
    <3>1. s \in Calls(k)
      BY <1>3 DEF CallInv
    <3>2. t \in Calls(k)
      BY <3>1 DEF Calls
    <3>3. /\ t.pc = s.pc /\ t.user = s.user /\ t.role = s.role /\ t.settings = s.settings
          /\ t.seen = s.seen /\ t.alone = s.alone
      BY <3>1 DEF Calls
    <3> HIDE DEF t
    <3>4. CallInv(k, t, row)
      BY <1>3, <3>2, <3>3 DEF CallInv
    <3> QED
      BY <2>2, <3>4 DEF t
  <2> QED
    BY <2>1, <2>2
<1> HIDE DEF after, Left
<1>4. \A q \in Tabs, k \in Kinds : CallInv(k, after[q][k], row)
  BY <1>2, <1>3 DEF CallsInv
<1>5. CallsOk(after, row)
  BY <1>1, <1>4 DEF CallsOk
<1> QED
  BY <1>5 DEF after

\* A new account is none that a save or a binding is about.
LEMMA CallsNewRow ==
  ASSUME NEW calls, CallsOk(calls, row), NEW u \in Users, row[u] = Absent,
         NEW rows, rows[u] # Absent, \A v \in Users : v # u => rows[v] = row[v]
  PROVE  CallsOk(calls, rows)
<1> SUFFICES ASSUME NEW p \in Tabs, NEW k \in Kinds PROVE CallInv(k, calls[p][k], rows)
  BY DEF CallsOk
<1> DEFINE s == calls[p][k]
<1>1. CallInv(k, s, row)
  BY DEF CallsOk
<1>2. s.user \in Users
  BY <1>1 DEF CallInv, Calls
<1> HIDE DEF s
<1>3. CallInv(k, s, rows)
  <2>1. CASE s.user = u
    BY <1>1, <2>1 DEF CallInv
  <2>2. CASE s.user # u
    <3>1. rows[s.user] = row[s.user]
      BY <1>2, <2>2
    <3> QED
      BY <1>1, <3>1 DEF CallInv
  <2> QED
    BY <2>1, <2>2
<1> QED
  BY <1>3 DEF s

\* After a write, a save of the same account is no longer alone, unless what was
\* written is its address.
LEMMA CallsWritten ==
  ASSUME AccountInv, CallsInv, NEW p \in Tabs, NEW kind \in Kinds, NEW pc, NEW r \in Rows,
         Write(p, kind, r, pc), row[job[p][kind].user] # Absent,
         kind = "vpn" => /\ r.role = row[job[p][kind].user].role
                         /\ r.settings = row[job[p][kind].user].settings,
         CallInv(kind, [job[p][kind] EXCEPT !.pc = pc, !.seen = Absent], row')
  PROVE  CallsInv'
<1> DEFINE s == job[p][kind]
           u == s.user
           w == [r EXCEPT !.version = @ + 1]
           After(q, k) ==
             IF q = p /\ k = kind THEN [s EXCEPT !.pc = pc, !.seen = Absent]
             ELSE [job[q][k] EXCEPT !.alone = @ /\ (k # "save" \/ kind = "vpn" \/ job[q][k].user # u)]
<1>1. job' = [q \in Tabs |-> [k \in Kinds |-> After(q, k)]] /\ row' = [row EXCEPT ![u] = w]
  BY DEF Write
<1>2. w \in Rows /\ w # Absent /\ w.role = r.role /\ w.settings = r.settings /\ u \in Users
  BY WrittenRow, CallFacts
<1>3. row'[u] = w /\ \A v \in Users : v # u => row'[v] = row[v]
  BY <1>1, <1>2 DEF AccountInv
<1>4. ASSUME NEW q \in Tabs, NEW k \in Kinds, ~(q = p /\ k = kind)
      PROVE  CallInv(k, After(q, k), row')
  <2> DEFINE c == job[q][k]
             t == [c EXCEPT !.alone = @ /\ (k # "save" \/ kind = "vpn" \/ c.user # u)]
  <2>1. CallInv(k, c, row) /\ c \in Calls(k) /\ c.user \in Users
    BY CallFacts
  <2>2. t \in Calls(k)
    BY <2>1 DEF Calls
  <2>3. /\ t.pc = c.pc /\ t.user = c.user /\ t.role = c.role /\ t.settings = c.settings
        /\ t.seen = c.seen
        /\ t.alone => c.alone /\ (k # "save" \/ kind = "vpn" \/ c.user # u)
    BY <2>1 DEF Calls
  <2>4. After(q, k) = t
    BY <1>4
  <2> HIDE DEF c, t, w, After, s
  <2>5. CallInv(k, t, row')
    <3>1. CASE c.user = u
      <4>1. kind = "vpn" => row'[u].role = row[u].role /\ row'[u].settings = row[u].settings
        BY <1>2, <1>3 DEF s
      <4> QED
        BY <1>2, <1>3, <2>1, <2>2, <2>3, <3>1, <4>1 DEF CallInv
    <3>2. CASE c.user # u
      <4>1. row'[c.user] = row[c.user]
        BY <1>3, <2>1, <3>2
      <4> QED
        BY <2>1, <2>2, <2>3, <4>1 DEF CallInv
    <3> QED
      BY <3>1, <3>2
  <2> QED
    BY <2>4, <2>5
<1>5. CallInv(kind, After(p, kind), row')
  OBVIOUS
<1> HIDE DEF After
<1>6. \A q \in Tabs, k \in Kinds : CallInv(k, job'[q][k], row')
  BY <1>1, <1>4, <1>5
<1>7. DOMAIN job' = Tabs /\ \A q \in Tabs : DOMAIN job'[q] = Kinds
  BY <1>1
<1>8. CallsOk(job', row')
  BY <1>6, <1>7 DEF CallsOk
<1> QED
  BY <1>8, CallsLater

\* The step of a request that writes no row.
LEMMA CallsStep ==
  ASSUME CallsInv, NEW p \in Tabs, NEW k \in Kinds, NEW s, Step(p, k, s), UNCHANGED row,
         CallInv(k, s, row)
  PROVE  CallsInv'
<1>1. CallsOk([job EXCEPT ![p][k] = s], row)
  BY CallsParts, CallsSet
<1>2. CallsOk(job', row')
  BY <1>1 DEF Step
<1> QED
  BY <1>2, CallsLater

LEMMA FormType ==
  ASSUME NEW role \in Roles, NEW settings \in FormsOf(role)
  PROVE  settings \in Settings \cup {Absent}
BY DEF FormsOf

LEMMA CallFields ==
  ASSUME NEW pc, NEW u, NEW role, NEW settings, NEW vpn
  PROVE  LET s == Call(pc, u, role, settings, vpn) IN
         /\ s.pc = pc /\ s.user = u /\ s.role = role /\ s.settings = settings /\ s.vpn = vpn
         /\ s.seen = Absent /\ s.token = stored
BY DEF Call

LEMMA CallType ==
  ASSUME NEW k \in Kinds, NEW pc \in Stages(k), NEW u \in Users, NEW role \in Roles,
         NEW settings \in Settings \cup {Absent}, NEW vpn \in Addresses \cup {Absent},
         stored \in Tokens \cup {Absent}
  PROVE  Call(pc, u, role, settings, vpn) \in Calls(k)
BY DEF Call, Calls

\* What the page starts.
LEMMA CallsStarted ==
  ASSUME AccessInv, NEW p \in Tabs, NEW u \in Users,
         \/ \E role \in Roles : \E settings \in FormsOf(role) : HandleSave(p, u, role, settings)
         \/ \E vpn \in Addresses \cup {Absent} : HandleSaveVpnIp(p, u, vpn)
         \/ HandleCreate(p, u)
  PROVE  CallsInv'
<1>0. CallsInv /\ stored \in Tokens \cup {Absent} /\ (Listed(p, u) => row[u] # Absent)
  BY DEF AccessInv, SessionInv, ListInv, Listed
<1>a. ASSUME NEW k \in Kinds, NEW s, Start(p, k, s), CallInv(k, s, row) PROVE CallsInv'
  BY <1>0, <1>a, CallsStep DEF Start, Step
<1>1. ASSUME NEW role \in Roles, NEW settings \in FormsOf(role), HandleSave(p, u, role, settings)
      PROVE  CallsInv'
  <2> DEFINE s == Call("role", u, role, settings, Absent)
  <2>1. Start(p, "save", s) /\ row[u] # Absent
    BY <1>0, <1>1 DEF HandleSave
  <2>2. s \in Calls("save")
    BY <1>0, FormType, CallType, SaveKinds DEF Stages
  <2>3. s.pc = "role" /\ s.user = u /\ s.role = role /\ s.settings = settings
    BY CallFields
  <2> HIDE DEF s
  <2>4. CallInv("save", s, row)
    BY <2>1, <2>2, <2>3 DEF CallInv
  <2> QED
    BY <1>a, <2>1, <2>4, SaveKinds
<1>2. ASSUME NEW vpn \in Addresses \cup {Absent}, HandleSaveVpnIp(p, u, vpn) PROVE CallsInv'
  <2> DEFINE s == Call("vpn", u, "reader", Absent, vpn)
  <2>1. Start(p, "vpn", s) /\ row[u] # Absent
    BY <1>0, <1>2 DEF HandleSaveVpnIp
  <2>2. s \in Calls("vpn")
    BY <1>0, CallType, SaveKinds DEF Stages, Roles
  <2>3. s.pc = "vpn" /\ s.user = u
    BY CallFields
  <2> HIDE DEF s
  <2>4. CallInv("vpn", s, row)
    BY <2>1, <2>2, <2>3 DEF CallInv
  <2> QED
    BY <1>a, <2>1, <2>4, SaveKinds
<1>3. CASE HandleCreate(p, u)
  <2> DEFINE s == Call("create", u, "reader", Absent, Absent)
  <2>1. Start(p, "create", s)
    BY <1>3 DEF HandleCreate
  <2>2. s \in Calls("create")
    BY <1>0, CallType, SaveKinds DEF Stages, Roles
  <2>3. s.pc = "create" /\ s.user = u
    BY CallFields
  <2> HIDE DEF s
  <2>4. CallInv("create", s, row)
    BY <2>2, <2>3 DEF CallInv
  <2> QED
    BY <1>a, <2>1, <2>4, SaveKinds
<1> QED
  BY <1>1, <1>2, <1>3

\* The writes of the handlers.
LEMMA CallsWrite ==
  ASSUME AccountInv, CallsInv, NEW p \in Tabs,
         AssignRole(p) \/ UpdateRoleSettings(p) \/ SetVpnIp(p)
  PROVE  CallsInv'
<1>w. ASSUME NEW k \in Kinds, NEW pc, NEW r \in Rows, Write(p, k, r, pc)
      PROVE  LET row2 == row'[job[p][k].user] IN row2.role = r.role /\ row2.settings = r.settings
                                                 /\ row2 # Absent
  <2> DEFINE w == [r EXCEPT !.version = @ + 1]
  <2>1. row' = [row EXCEPT ![job[p][k].user] = w] /\ job[p][k].user \in Users
    BY <1>w, CallFacts DEF Write
  <2>2. w.role = r.role /\ w.settings = r.settings /\ w # Absent
    BY WrittenRow
  <2> HIDE DEF w
  <2>3. row'[job[p][k].user] = w
    BY <2>1 DEF AccountInv
  <2> QED
    BY <2>2, <2>3
<1>1. CASE AssignRole(p)
  <2> DEFINE s == job[p]["save"]
             pc == IF s.role = "admin" THEN "done" ELSE "half"
             r == [row[s.user] EXCEPT !.role = s.role,
                     !.settings = IF s.role = "admin" THEN Absent ELSE s.seen.settings]
             t == [s EXCEPT !.pc = pc, !.seen = Absent]
  <2>1. s.pc = "writeRole" /\ Write(p, "save", r, pc)
    BY <1>1 DEF AssignRole
  <2>2. /\ r \in Rows /\ r.role = s.role /\ (s.role = "admin" => r.settings = Absent)
    BY <2>1, AssignedRow
  <2>3. CallInv("save", s, row) /\ s \in Calls("save") /\ row[s.user] # Absent
    BY CallFacts, SaveKinds DEF CallInv
  <2>4. t \in Calls("save")
    BY <2>3 DEF Calls, Stages
  <2>5. /\ t.pc = pc /\ t.user = s.user /\ t.role = s.role /\ t.settings = s.settings
        /\ t.alone = s.alone
    BY <2>3 DEF Calls
  <2> HIDE DEF r, t
  <2>6. row'[s.user].role = r.role /\ row'[s.user].settings = r.settings /\ row'[s.user] # Absent
    BY <1>w, <2>1, <2>2, SaveKinds
  <2>7. s.role = "admin" => s.settings = Absent
    BY <2>1, <2>3 DEF CallInv, FormsOf
  <2>8. t.settings \in FormsOf(t.role)
    BY <2>1, <2>3, <2>5 DEF CallInv
  <2>9. CallInv("save", t, row')
    BY <2>2, <2>4, <2>5, <2>6, <2>7, <2>8 DEF CallInv
  <2> QED
    BY <2>1, <2>2, <2>3, <2>9, CallsWritten, SaveKinds DEF t
<1>2. CASE UpdateRoleSettings(p)
  <2> DEFINE s == job[p]["save"]
             r == [row[s.user] EXCEPT !.settings = s.settings]
             t == [s EXCEPT !.pc = "done", !.seen = Absent]
  <2>1. s.pc = "writeScopes" /\ Write(p, "save", r, "done")
    BY <1>2 DEF UpdateRoleSettings
  <2>2. /\ CallInv("save", s, row) /\ s \in Calls("save") /\ row[s.user] # Absent
        /\ s.user \in Users /\ s.settings \in Settings \cup {Absent}
    BY CallFacts, SaveKinds DEF CallInv
  <2>3. row[s.user] \in Rows
    BY <2>2 DEF AccountInv
  <2>4. r \in Rows /\ r.role = row[s.user].role /\ r.settings = s.settings
    BY <2>2, <2>3, ScopedFields
  <2>5. t \in Calls("save")
    BY <2>2 DEF Calls, Stages
  <2>6. /\ t.pc = "done" /\ t.user = s.user /\ t.role = s.role /\ t.settings = s.settings
        /\ t.alone = s.alone
    BY <2>2 DEF Calls
  <2> HIDE DEF r, t
  <2>7. row'[s.user].role = r.role /\ row'[s.user].settings = r.settings /\ row'[s.user] # Absent
    BY <1>w, <2>1, <2>4, SaveKinds
  <2>8. t.settings \in FormsOf(t.role) /\ (s.alone => row[s.user].role = s.role)
    BY <2>1, <2>2, <2>6 DEF CallInv
  <2>9. CallInv("save", t, row')
    BY <2>4, <2>5, <2>6, <2>7, <2>8 DEF CallInv
  <2> QED
    BY <2>1, <2>2, <2>4, <2>9, CallsWritten, SaveKinds DEF t
<1>3. CASE SetVpnIp(p)
  <2> DEFINE s == job[p]["vpn"]
             r == [row[s.user] EXCEPT !.vpn = s.vpn]
             t == [s EXCEPT !.pc = "done", !.seen = Absent]
  <2>1. Write(p, "vpn", r, "done")
    BY <1>3 DEF SetVpnIp
  <2>2. /\ CallInv("vpn", s, row) /\ s \in Calls("vpn") /\ row[s.user] # Absent
        /\ s.user \in Users /\ s.vpn \in Addresses \cup {Absent}
    BY CallFacts, SaveKinds DEF CallInv
  <2>3. row[s.user] \in Rows
    BY <2>2 DEF AccountInv
  <2>4. r \in Rows /\ r.role = row[s.user].role /\ r.settings = row[s.user].settings
    BY <2>2, <2>3, BoundFields
  <2>5. t \in Calls("vpn")
    BY <2>2 DEF Calls, Stages
  <2>6. t.pc = "done" /\ t.user = s.user
    BY <2>2 DEF Calls
  <2> HIDE DEF r, t
  <2>7. row'[s.user] # Absent
    BY <1>w, <2>1, <2>4, SaveKinds
  <2>8. CallInv("vpn", t, row')
    BY <2>5, <2>6, <2>7 DEF CallInv
  <2> QED
    BY <2>1, <2>2, <2>4, <2>8, CallsWritten, SaveKinds DEF t
<1> QED
  BY <1>1, <1>2, <1>3

\* The other steps of a request.
LEMMA CallsGoOn ==
  ASSUME AccessInv, NEW p \in Tabs, NEW k \in Kinds,
         \/ Read(p, k) \/ Answer(p, k) \/ Fails(p, k) \/ Unauthorized(p, k) \/ Dropped(p, k)
         \/ SendScopes(p) \/ CreateUser(p)
  PROVE  CallsInv'
<1>0. AccountInv /\ CallsInv /\ stored \in Tokens \cup {Absent} /\ CallInv(k, Idle, row)
  BY IdleInv DEF AccessInv, SessionInv, AccountInv
<1>1. CASE Read(p, k)
  <2> DEFINE s == job[p][k]
             pc == IF s.pc = "role" THEN "writeRole"
                   ELSE IF s.pc = "scopes" THEN "writeScopes" ELSE "writeVpn"
             t == [s EXCEPT !.pc = pc, !.seen = row[s.user]]
  <2>1. s.pc \in {"role", "scopes", "vpn"} /\ UNCHANGED row
    BY <1>1 DEF Read
  <2>2. CallInv(k, s, row) /\ s \in Calls(k) /\ s.user \in Users
    BY <1>0, CallFacts
  <2>3. Step(p, k, t)
    BY <1>1 DEF Read
  <2>4. pc \in Stages(k) /\ row[s.user] # Absent /\ row[s.user] \in Rows
    <3>1. s.pc \in Stages(k)
      BY <1>0, CallFacts
    <3>2. k # "create" /\ pc \in Stages(k)
      BY <2>1, <3>1 DEF Stages
    <3> QED
      BY <1>0, <2>2, <3>2 DEF CallInv, AccountInv
  <2>5. t \in Calls(k)
    BY <2>2, <2>4 DEF Calls
  <2>6. /\ t.pc = pc /\ t.user = s.user /\ t.role = s.role /\ t.settings = s.settings
        /\ t.alone = s.alone /\ t.seen = row[s.user]
    BY <2>2 DEF Calls
  <2> HIDE DEF t
  <2>7. CallInv(k, t, row)
    BY <2>1, <2>2, <2>4, <2>5, <2>6 DEF CallInv
  <2> QED
    BY <1>0, <2>1, <2>3, <2>7, CallsStep
<1>2. CASE Answer(p, k) \/ Fails(p, k) \/ Dropped(p, k)
  <2>1. Step(p, k, Idle) /\ UNCHANGED row
    BY <1>2 DEF Answer, Fails, Dropped
  <2> QED
    BY <1>0, <2>1, CallsStep
<1>3. CASE Unauthorized(p, k)
  <2>1. PICK script \in {"left", "gone"} :
          job' = [Forget(p, script) EXCEPT ![p][k] = Idle] /\ UNCHANGED row
    BY <1>3 DEF Unauthorized, SignedOutJobs
  <2>2. CallsOk([Forget(p, script) EXCEPT ![p][k] = Idle], row)
    BY <1>0, CallsForgotten, CallsSet
  <2>3. CallsOk(job', row')
    BY <2>1, <2>2
  <2> QED
    BY <2>3, CallsLater
<1>4. CASE SendScopes(p)
  <2> DEFINE s == job[p]["save"]
             t == [s EXCEPT !.pc = "scopes", !.token = stored]
  <2>1. s.pc = "half" /\ Step(p, "save", t) /\ UNCHANGED row
    BY <1>4 DEF SendScopes
  <2>2. CallInv("save", s, row) /\ s \in Calls("save")
    BY <1>0, CallFacts, SaveKinds
  <2>3. t \in Calls("save")
    BY <1>0, <2>2 DEF Calls, Stages
  <2>4. /\ t.pc = "scopes" /\ t.user = s.user /\ t.role = s.role /\ t.settings = s.settings
        /\ t.alone = s.alone
    BY <2>2 DEF Calls
  <2> HIDE DEF t
  <2>5. CallInv("save", t, row)
    BY <2>1, <2>2, <2>3, <2>4 DEF CallInv
  <2> QED
    BY <1>0, <2>1, <2>5, CallsStep, SaveKinds
<1>5. CASE CreateUser(p)
  <2> DEFINE s == job[p]["create"]
             t == [s EXCEPT !.pc = "done"]
  <2>1. /\ s.pc = "create" /\ row[s.user] = Absent /\ row' = [row EXCEPT ![s.user] = NewRow]
        /\ job' = [job EXCEPT ![p]["create"] = t]
    BY <1>5 DEF CreateUser, Step
  <2>2. s \in Calls("create") /\ s.user \in Users
    BY <1>0, CallFacts, SaveKinds
  <2>3. t \in Calls("create")
    BY <2>2 DEF Calls, Stages
  <2>4. t.pc = "done" /\ t.user = s.user
    BY <2>2 DEF Calls
  <2> HIDE DEF t
  <2>5. row'[s.user] # Absent /\ \A v \in Users : v # s.user => row'[v] = row[v]
    BY <1>0, <2>1, <2>2, NewRowType DEF AccountInv
  <2>6. CallsOk(job, row')
    <3>1. ASSUME NEW u \in Users, row[u] = Absent, row'[u] # Absent,
                 \A v \in Users : v # u => row'[v] = row[v]
          PROVE  CallsOk(job, row')
      BY <1>0, <3>1, CallsParts, CallsNewRow
    <3> HIDE DEF s
    <3> QED
      BY <2>1, <2>2, <2>5, <3>1
  <2>7. CallInv("create", t, row')
    BY <2>3, <2>4, <2>5 DEF CallInv
  <2>8. CallsOk([job EXCEPT ![p]["create"] = t], row')
    BY <2>6, <2>7, CallsSet, SaveKinds
  <2>9. CallsOk(job', row')
    BY <2>1, <2>8
  <2> QED
    BY <2>9, CallsLater
<1> QED
  BY <1>1, <1>2, <1>3, <1>4, <1>5

LEMMA CallsNext ==
  ASSUME AccessInv, [Next]_vars PROVE CallsInv'
<1>0. AccountInv /\ CallsInv
  BY DEF AccessInv
<1>1. ASSUME UNCHANGED <<job, row>> PROVE CallsInv'
  <2>1. CallsOk(job', row')
    BY <1>0, <1>1, CallsParts
  <2> QED
    BY <2>1, CallsLater
<1>2. ASSUME NEW p \in Tabs, NEW script \in {"left", "gone"}, job' = Forget(p, script),
             UNCHANGED row
      PROVE  CallsInv'
  <2>1. CallsOk(job', row')
    BY <1>0, <1>2, CallsForgotten
  <2> QED
    BY <2>1, CallsLater
<1>3. CASE UNCHANGED vars \/ Expire
  BY <1>1, <1>3 DEF vars, Expire
<1>4. ASSUME NEW p \in Tabs, NEW u \in Users, HandleRegister(p, u) PROVE CallsInv'
  <2>1. row[u] = Absent /\ row' = [row EXCEPT ![u] = NewRow] /\ UNCHANGED job
    BY <1>4 DEF HandleRegister
  <2>2. row'[u] # Absent /\ \A v \in Users : v # u => row'[v] = row[v]
    BY <1>0, <2>1, NewRowType DEF AccountInv
  <2>3. CallsOk(job, row')
    BY <1>0, <2>1, <2>2, CallsParts, CallsNewRow
  <2>4. CallsOk(job', row')
    BY <2>1, <2>3
  <2> QED
    BY <2>4, CallsLater
<1>5. ASSUME NEW p \in Tabs, CheckSession(p) PROVE CallsInv'
  BY <1>1, <1>5 DEF CheckSession
<1>6. ASSUME NEW p \in Tabs,
             HandleLogOut(p) \/ (\E path \in Paths : Navigate(p, path))
             \/ (\E u \in Users : HandleLogin(p, u))
      PROVE  CallsInv'
  BY <1>2, <1>6 DEF HandleLogOut, Navigate, HandleLogin
<1>7. ASSUME NEW p \in Tabs, ListStep(p) PROVE CallsInv'
  <2>1. ASSUME NEW k \in Fetches, ServeList(p, k) \/ ShowList(p, k) PROVE CallsInv'
    BY <1>1, <2>1 DEF ServeList, ShowList
  <2>2. ASSUME NEW k \in Fetches, ListFails(p, k) PROVE CallsInv'
    <3>1. CASE job' = SignedOutJobs(p) /\ UNCHANGED row
      BY <1>2, <3>1 DEF SignedOutJobs
    <3> QED
      BY <1>1, <2>2, <3>1 DEF ListFails
  <2> QED
    BY <1>7, <2>1, <2>2 DEF ListStep
<1>8. ASSUME NEW p \in Tabs, PageStep(p) PROVE CallsInv'
  BY <1>4, <1>6, <1>8, CallsStarted DEF PageStep
<1>9. ASSUME NEW p \in Tabs, SaveStep(p) PROVE CallsInv'
  BY <1>0, <1>9, CallsWrite, CallsGoOn, SaveKinds DEF SaveStep
<1>10. ASSUME NEW p \in Tabs, OtherStep(p) PROVE CallsInv'
  BY <1>0, <1>10, CallsWrite, CallsGoOn, SaveKinds DEF OtherStep
<1> QED
  BY <1>3, <1>5, <1>6, <1>7, <1>8, <1>9, <1>10 DEF Next

-----------------------------------------------------------------------------
(* The lists                                                               *)

\* ListInv of one tab, with its list, what is due to it, its fetches, and
\* whether it is excused.
TabListInv(l, d, f, excuse, rows) ==
  /\ l \in [Users -> Nat] /\ d \in [Users -> Nat] /\ f \in [Fetches -> FetchState]
  /\ \A k \in Fetches : f[k].pc = "served" =>
       f[k].answer \in [Users -> Nat] /\ \A u \in Users : f[k].answer[u] # 0 => rows[u] # Absent
  /\ \A u \in Users :
       /\ l[u] # 0 => rows[u] # Absent
       /\ d[u] <= IF rows[u] = Absent THEN 0 ELSE rows[u].version
       /\ excuse \/ l[u] >= d[u] \/ \E k \in Fetches : Coming(f[k], u, d[u])

ListDomains(ls, ds, fs) == DOMAIN ls = Tabs /\ DOMAIN ds = Tabs /\ DOMAIN fs = Tabs

LEMMA ListParts ==
  ListInv => /\ ListDomains(list, due, fetch)
             /\ \A p \in Tabs : TabListInv(list[p], due[p], fetch[p], p \in excused, row)
BY DEF ListInv, ListDomains, TabListInv, Version

LEMMA ListLater ==
  ASSUME list' = [p \in Tabs |-> list'[p]], due' = [p \in Tabs |-> due'[p]],
         fetch' = [p \in Tabs |-> fetch'[p]],
         \A p \in Tabs : TabListInv(list'[p], due'[p], fetch'[p], p \in excused', row')
  PROVE  ListInv'
<1>1. list' \in [Tabs -> [Users -> Nat]] /\ due' \in [Tabs -> [Users -> Nat]]
      /\ fetch' \in [Tabs -> [Fetches -> FetchState]]
  BY DEF TabListInv
<1> QED
  BY <1>1 DEF ListInv, TabListInv, Version, Coming, FetchState

LEMMA TabListKept ==
  ASSUME AccountInv, AccountInv', Kept, NEW l, NEW d, NEW f, NEW excuse,
         TabListInv(l, d, f, excuse, row)
  PROVE  TabListInv(l, d, f, excuse, row')
<1>1. ASSUME NEW u \in Users
      PROVE  /\ row[u] # Absent => row'[u] # Absent
             /\ d[u] <= IF row'[u] = Absent THEN 0 ELSE row'[u].version
  <2>1. d[u] \in Nat /\ d[u] <= IF row[u] = Absent THEN 0 ELSE row[u].version
    BY DEF TabListInv
  <2>2. row[u] # Absent => row'[u] # Absent /\ row[u].version <= row'[u].version
                           /\ row[u].version \in Nat
    BY DEF Kept, AccountInv, Rows
  <2>3. row'[u] # Absent => row'[u].version \in Nat
    BY DEF AccountInv, Rows
  <2> QED
    BY <2>1, <2>2, <2>3
<1> QED
  BY <1>1 DEF TabListInv

\* When one tab changes, and the others are as they were.
LEMMA TabListStep ==
  ASSUME AccountInv, AccountInv', Kept, ListInv, NEW p \in Tabs,
         NEW l, NEW d, NEW f,
         list' = [list EXCEPT ![p] = l], due' = [due EXCEPT ![p] = d],
         fetch' = [fetch EXCEPT ![p] = f],
         \A q \in Tabs : q # p => (q \in excused' <=> q \in excused),
         TabListInv(l, d, f, p \in excused', row')
  PROVE  ListInv'
<1>1. DOMAIN list = Tabs /\ DOMAIN due = Tabs /\ DOMAIN fetch = Tabs
  BY DEF ListInv
<1>2. ASSUME NEW q \in Tabs PROVE TabListInv(list'[q], due'[q], fetch'[q], q \in excused', row')
  <2>1. CASE q = p
    BY <1>1, <2>1
  <2>2. CASE q # p
    <3>1. list'[q] = list[q] /\ due'[q] = due[q] /\ fetch'[q] = fetch[q]
          /\ (q \in excused' <=> q \in excused)
      BY <1>1, <2>2
    <3>2. TabListInv(list[q], due[q], fetch[q], q \in excused, row)
      BY ListParts
    <3>3. TabListInv(list[q], due[q], fetch[q], q \in excused, row')
      BY <3>2, TabListKept
    <3> QED
      BY <3>1, <3>3
  <2> QED
    BY <2>1, <2>2
<1>3. list' = [q \in Tabs |-> list'[q]] /\ due' = [q \in Tabs |-> due'[q]]
      /\ fetch' = [q \in Tabs |-> fetch'[q]]
  BY <1>1
<1> QED
  BY <1>2, <1>3, ListLater

LEMMA ListSame ==
  ASSUME AccountInv, AccountInv', Kept, ListInv, UNCHANGED page PROVE ListInv'
<1>1. list' = list /\ due' = due /\ fetch' = fetch /\ excused' = excused
  BY DEF page
<1>2. DOMAIN list = Tabs /\ DOMAIN due = Tabs /\ DOMAIN fetch = Tabs
  BY DEF ListInv
<1>3. ASSUME NEW q \in Tabs PROVE TabListInv(list'[q], due'[q], fetch'[q], q \in excused', row')
  <2>1. TabListInv(list[q], due[q], fetch[q], q \in excused, row)
    BY ListParts
  <2>2. TabListInv(list[q], due[q], fetch[q], q \in excused, row')
    BY <2>1, TabListKept
  <2> QED
    BY <1>1, <2>2
<1>4. /\ list' = [q \in Tabs |-> list'[q]] /\ due' = [q \in Tabs |-> due'[q]]
      /\ fetch' = [q \in Tabs |-> fetch'[q]]
  <2>1. list = [q \in Tabs |-> list[q]] /\ due = [q \in Tabs |-> due[q]]
        /\ fetch = [q \in Tabs |-> fetch[q]]
    BY DEF ListInv
  <2> QED
    BY <1>1, <2>1
<1> QED
  BY <1>3, <1>4, ListLater

LEMMA FetchTypes ==
  /\ NoFetch \in FetchState /\ NoFetch.pc = "no"
  /\ \A token \in Tokens \cup {Absent} : Asked(token) \in FetchState /\ Asked(token).pc = "sent"
BY DEF NoFetch, Asked, FetchState

\* A page that goes owes nothing and awaits nothing.
LEMMA LeaveList ==
  ASSUME AccountInv, AccountInv', Kept, ListInv, NEW p \in Tabs, Leave(p) PROVE ListInv'
<1> DEFINE none == [k \in Fetches |-> NoFetch]
<1>1. list' = [list EXCEPT ![p] = Nobody] /\ due' = [due EXCEPT ![p] = Nobody]
      /\ fetch' = [fetch EXCEPT ![p] = none] /\ excused' = excused \ {p}
  BY DEF Leave
<1>2. Nobody \in [Users -> Nat] /\ \A u \in Users : Nobody[u] = 0
  BY DEF Nobody
<1>3. none \in [Fetches -> FetchState] /\ \A k \in Fetches : none[k].pc = "no"
  BY FetchTypes
<1>4. \A u \in Users : 0 <= IF row'[u] = Absent THEN 0 ELSE row'[u].version
  BY DEF AccountInv, Rows
<1> HIDE DEF none
<1>5. TabListInv(Nobody, Nobody, none, p \in excused', row')
  BY <1>2, <1>3, <1>4 DEF TabListInv
<1> QED
  BY <1>1, <1>5, TabListStep

\* A fetch that is sent brings whatever is due.
LEMMA AskList ==
  ASSUME AccountInv, ListInv, NEW p \in Tabs, NEW k \in Fetches,
         UNCHANGED <<row, list>>, NEW token \in Tokens \cup {Absent},
         fetch' = [fetch EXCEPT ![p][k] = Asked(token)],
         \A q \in Tabs : q # p => (q \in excused' <=> q \in excused),
         NEW d \in [Users -> Nat], due' = [due EXCEPT ![p] = d],
         \A u \in Users : d[u] <= IF row[u] = Absent THEN 0 ELSE row[u].version
  PROVE  ListInv'
<1> DEFINE f == [fetch[p] EXCEPT ![k] = Asked(token)]
<1>1. AccountInv' /\ Kept
  BY AccountSame
<1>2. TabListInv(list[p], due[p], fetch[p], p \in excused, row)
  BY ListParts
<1>3. list \in [Tabs -> [Users -> Nat]] /\ fetch \in [Tabs -> [Fetches -> FetchState]]
  BY DEF ListInv
<1>4. /\ f \in [Fetches -> FetchState] /\ f[k].pc = "sent"
      /\ \A j \in Fetches : j # k => f[j] = fetch[p][j]
  BY <1>3, FetchTypes
<1>5. fetch' = [fetch EXCEPT ![p] = f] /\ list' = [list EXCEPT ![p] = list[p]]
  BY <1>3
<1> HIDE DEF f
<1>6. TabListInv(list[p], d, f, p \in excused', row)
  <2>1. list[p] \in [Users -> Nat] /\ \A u \in Users : list[p][u] # 0 => row[u] # Absent
    BY <1>2 DEF TabListInv
  <2>2. \A u \in Users : Coming(f[k], u, d[u])
    BY <1>4 DEF Coming
  <2>3. \A j \in Fetches : f[j].pc = "served" =>
          f[j].answer \in [Users -> Nat] /\ \A u \in Users : f[j].answer[u] # 0 => row[u] # Absent
    BY <1>2, <1>4 DEF TabListInv
  <2> QED
    BY <1>4, <2>1, <2>2, <2>3 DEF TabListInv
<1>7. TabListInv(list[p], d, f, p \in excused', row')
  BY <1>6
<1> QED
  BY <1>1, <1>5, <1>7, TabListStep

\* What a fetch that is answered, or that fails, leaves to the others.
LEMMA ServedList ==
  ASSUME AccountInv, ListInv, NEW p \in Tabs, NEW k \in Fetches,
         ServeList(p, k) \/ ShowList(p, k)
  PROVE  ListInv'
<1> DEFINE f == fetch[p][k]
<1>1. AccountInv' /\ Kept /\ UNCHANGED row
  BY AccountSame DEF ServeList, ShowList
<1>2. TabListInv(list[p], due[p], fetch[p], p \in excused, row)
  BY ListParts
<1>3. /\ list \in [Tabs -> [Users -> Nat]] /\ due \in [Tabs -> [Users -> Nat]]
      /\ fetch \in [Tabs -> [Fetches -> FetchState]]
  BY DEF ListInv
<1>4. CASE ServeList(p, k)
  <2> DEFINE answer == [u \in Users |-> IF row[u] = Absent THEN 0 ELSE row[u].version]
             g == [pc |-> "served", token |-> f.token, answer |-> answer]
             fs == [fetch[p] EXCEPT ![k] = g]
  <2>1. /\ fetch' = [fetch EXCEPT ![p][k] = g]
        /\ UNCHANGED <<list, due, excused>>
    BY <1>4 DEF ServeList
  <2>2. answer \in [Users -> Nat]
        /\ \A u \in Users : answer[u] = IF row[u] = Absent THEN 0 ELSE row[u].version
    BY DEF AccountInv, Rows
  <2> HIDE DEF answer
  <2>3. g \in FetchState /\ g.pc = "served" /\ g.answer = answer
    BY <1>3, <2>2 DEF FetchState
  <2> HIDE DEF g
  <2>4. fs \in [Fetches -> FetchState] /\ fs[k] = g
        /\ \A j \in Fetches : j # k => fs[j] = fetch[p][j]
    BY <1>3, <2>3
  <2>5. fetch' = [fetch EXCEPT ![p] = fs] /\ list' = [list EXCEPT ![p] = list[p]]
        /\ due' = [due EXCEPT ![p] = due[p]]
    BY <1>3, <2>1
  <2> HIDE DEF fs
  <2>6. \A u \in Users : due[p][u] \in Nat /\ answer[u] \in Nat /\ due[p][u] <= answer[u]
    BY <1>2, <1>3, <2>2 DEF TabListInv
  <2>7. \A u \in Users : Coming(fs[k], u, due[p][u])
    BY <2>3, <2>4, <2>6 DEF Coming
  <2>8. \A j \in Fetches : fs[j].pc = "served" =>
          fs[j].answer \in [Users -> Nat] /\ \A u \in Users : fs[j].answer[u] # 0 => row[u] # Absent
    BY <1>2, <2>2, <2>3, <2>4 DEF TabListInv
  <2>9. TabListInv(list[p], due[p], fs, p \in excused', row')
    BY <1>1, <1>2, <2>4, <2>7, <2>8 DEF TabListInv
  <2>10. \A q \in Tabs : q # p => (q \in excused' <=> q \in excused)
    BY <2>1
  <2> QED
    BY <1>1, <2>5, <2>9, <2>10, TabListStep
<1>5. CASE ShowList(p, k)
  <2> DEFINE l == f.answer
             fs == [fetch[p] EXCEPT ![k] = NoFetch]
  <2>1. /\ f.pc = "served" /\ list' = [list EXCEPT ![p] = l]
        /\ fetch' = [fetch EXCEPT ![p][k] = NoFetch]
        /\ excused' = IF \E u \in Users : l[u] < list[p][u] THEN excused \cup {p} ELSE excused
        /\ UNCHANGED due
    BY <1>5 DEF ShowList
  <2>2. l \in [Users -> Nat] /\ \A u \in Users : l[u] # 0 => row[u] # Absent
    BY <1>2, <2>1 DEF TabListInv
  <2>3. fs \in [Fetches -> FetchState] /\ fs[k].pc = "no"
        /\ \A j \in Fetches : j # k => fs[j] = fetch[p][j]
    BY <1>3, FetchTypes
  <2>4. fetch' = [fetch EXCEPT ![p] = fs] /\ due' = [due EXCEPT ![p] = due[p]]
    BY <1>3, <2>1
  <2> HIDE DEF fs
  <2>5. ASSUME NEW u \in Users, p \notin excused'
        PROVE  l[u] >= due[p][u] \/ \E j \in Fetches : Coming(fs[j], u, due[p][u])
    <3>1. p \notin excused /\ l[u] \in Nat /\ list[p][u] \in Nat /\ due[p][u] \in Nat
          /\ l[u] >= list[p][u]
      BY <1>3, <2>1, <2>2, <2>5
    <3>2. CASE list[p][u] >= due[p][u]
      BY <3>1, <3>2
    <3>3. CASE \E j \in Fetches : Coming(fetch[p][j], u, due[p][u])
      <4>1. PICK j \in Fetches : Coming(fetch[p][j], u, due[p][u])
        BY <3>3
      <4>2. CASE j = k
        BY <2>1, <4>1, <4>2 DEF Coming
      <4>3. CASE j # k
        BY <2>3, <4>1, <4>3
      <4> QED
        BY <4>2, <4>3
    <3> QED
      BY <1>2, <3>1, <3>2, <3>3 DEF TabListInv
  <2>6. \A j \in Fetches : fs[j].pc = "served" =>
          fs[j].answer \in [Users -> Nat] /\ \A u \in Users : fs[j].answer[u] # 0 => row[u] # Absent
    BY <1>2, <2>3 DEF TabListInv
  <2> HIDE DEF l
  <2>7. TabListInv(l, due[p], fs, p \in excused', row')
    BY <1>1, <1>2, <2>2, <2>3, <2>5, <2>6 DEF TabListInv
  <2>8. \A q \in Tabs : q # p => (q \in excused' <=> q \in excused)
    BY <2>1
  <2> QED
    BY <1>1, <2>1, <2>4, <2>7, <2>8, TabListStep
<1> QED
  BY <1>4, <1>5

LEMMA FailedList ==
  ASSUME AccountInv, ListInv, NEW p \in Tabs, NEW k \in Fetches, ListFails(p, k) PROVE ListInv'
<1>1. AccountInv' /\ Kept /\ UNCHANGED row
  BY AccountSame DEF ListFails
<1>2. CASE SignedOut(p)
  BY <1>1, <1>2, LeaveList, ListSame DEF SignedOut, Load
<1>3. CASE /\ fetch' = [fetch EXCEPT ![p][k] = NoFetch] /\ excused' = excused \cup {p}
           /\ UNCHANGED <<list, due>>
  <2> DEFINE fs == [fetch[p] EXCEPT ![k] = NoFetch]
  <2>1. /\ list \in [Tabs -> [Users -> Nat]] /\ due \in [Tabs -> [Users -> Nat]]
        /\ fetch \in [Tabs -> [Fetches -> FetchState]]
    BY DEF ListInv
  <2>2. TabListInv(list[p], due[p], fetch[p], p \in excused, row)
    BY ListParts
  <2>3. fs \in [Fetches -> FetchState] /\ fs[k].pc = "no"
        /\ \A j \in Fetches : j # k => fs[j] = fetch[p][j]
    BY <2>1, FetchTypes
  <2>4. fetch' = [fetch EXCEPT ![p] = fs] /\ list' = [list EXCEPT ![p] = list[p]]
        /\ due' = [due EXCEPT ![p] = due[p]]
    BY <1>3, <2>1
  <2> HIDE DEF fs
  <2>5. \A j \in Fetches : fs[j].pc = "served" =>
          fs[j].answer \in [Users -> Nat] /\ \A u \in Users : fs[j].answer[u] # 0 => row[u] # Absent
    BY <2>2, <2>3 DEF TabListInv
  <2>6. TabListInv(list[p], due[p], fs, p \in excused', row')
    BY <1>1, <1>3, <2>2, <2>3, <2>5 DEF TabListInv
  <2>7. \A q \in Tabs : q # p => (q \in excused' <=> q \in excused)
    BY <1>3
  <2> QED
    BY <1>1, <2>4, <2>6, <2>7, TabListStep
<1> QED
  BY <1>2, <1>3 DEF ListFails

\* A write that is answered asks for the list again.
LEMMA AnswerList ==
  ASSUME AccessInv, NEW p \in Tabs, NEW k \in Kinds, Answer(p, k) PROVE ListInv'
<1> DEFINE s == job[p][k]
           u == s.user
           version == row[u].version
           d == [due[p] EXCEPT ![u] = version]
<1>0. AccountInv /\ CallsInv /\ ListInv /\ stored \in Tokens \cup {Absent} /\ k \in Fetches
  BY DEF AccessInv, SessionInv, Fetches
<1>1. /\ s.pc = "done" /\ fetch' = [fetch EXCEPT ![p][k] = Asked(stored)]
      /\ due' = [due EXCEPT ![p][u] = version] /\ excused' = excused \ {p}
      /\ UNCHANGED <<row, list>>
  BY DEF Answer
<1>2. u \in Users /\ row[u] # Absent
  BY <1>0, <1>1, CallFacts DEF CallInv
<1>3. version \in Nat /\ \A v \in Users : row[v] # Absent => row[v].version \in Nat
  BY <1>0, <1>2 DEF AccountInv, Rows
<1>4. due \in [Tabs -> [Users -> Nat]] /\ TabListInv(list[p], due[p], fetch[p], p \in excused, row)
  BY <1>0, ListParts DEF ListInv
<1> HIDE DEF u
<1>5. d \in [Users -> Nat] /\ due' = [due EXCEPT ![p] = d]
      /\ \A v \in Users : d[v] = IF v = u THEN version ELSE due[p][v]
  BY <1>1, <1>2, <1>3, <1>4
<1>6. \A v \in Users : d[v] <= IF row[v] = Absent THEN 0 ELSE row[v].version
  BY <1>2, <1>3, <1>4, <1>5 DEF TabListInv
<1> HIDE DEF d
<1>7. \A q \in Tabs : q # p => (q \in excused' <=> q \in excused)
  BY <1>1
<1> QED
  BY <1>0, <1>1, <1>5, <1>6, <1>7, AskList

\* A page that stays asks for what it shows.
LEMMA CheckList ==
  ASSUME AccessInv, NEW p \in Tabs, CheckSession(p) PROVE ListInv'
<1>0. AccountInv /\ ListInv /\ stored \in Tokens \cup {Absent} /\ "load" \in Fetches
  BY DEF AccessInv, SessionInv, Fetches
<1>1. UNCHANGED <<row, list, due, excused>> /\ AccountInv' /\ Kept
  BY <1>0, AccountSame DEF CheckSession
<1>2. CASE UNCHANGED fetch
  BY <1>0, <1>1, <1>2, ListSame DEF page
<1>3. CASE fetch' = [fetch EXCEPT ![p]["load"] = Asked(stored)]
  <2>1. due \in [Tabs -> [Users -> Nat]] /\ TabListInv(list[p], due[p], fetch[p], p \in excused, row)
    BY <1>0, ListParts DEF ListInv
  <2>2. due[p] \in [Users -> Nat] /\ due' = [due EXCEPT ![p] = due[p]]
        /\ \A u \in Users : due[p][u] <= IF row[u] = Absent THEN 0 ELSE row[u].version
    BY <1>1, <2>1 DEF TabListInv
  <2>3. \A q \in Tabs : q # p => (q \in excused' <=> q \in excused)
    BY <1>1
  <2> QED
    BY <1>0, <1>1, <1>3, <2>2, <2>3, AskList
<1> QED
  BY <1>2, <1>3 DEF CheckSession

LEMMA ListNext ==
  ASSUME AccessInv, [Next]_vars PROVE ListInv'
<1>0. /\ AccountInv /\ CallsInv /\ ListInv /\ AccountInv' /\ Kept
  BY AccountNext DEF AccessInv
<1>1. ASSUME UNCHANGED page PROVE ListInv'
  BY <1>0, <1>1, ListSame
<1>2. ASSUME NEW p \in Tabs, Leave(p) PROVE ListInv'
  BY <1>0, <1>2, LeaveList
<1>3. CASE UNCHANGED vars \/ Expire
  BY <1>1, <1>3 DEF vars, Expire
<1>4. ASSUME NEW p \in Tabs, PageStep(p) PROVE ListInv'
  <2>1. ASSUME NEW u \in Users, HandleLogin(p, u) PROVE ListInv'
    BY <1>2, <2>1 DEF HandleLogin, Load
  <2>2. ASSUME NEW u \in Users, HandleRegister(p, u) PROVE ListInv'
    BY <1>1, <2>2 DEF HandleRegister
  <2>3. ASSUME NEW k, NEW s, Start(p, k, s) PROVE ListInv'
    BY <1>1, <2>3 DEF Start, page
  <2> QED
    BY <1>4, <2>1, <2>2, <2>3 DEF PageStep, HandleSave, HandleSaveVpnIp, HandleCreate
<1>5. ASSUME NEW p \in Tabs, HandleLogOut(p) \/ (\E path \in Paths : Navigate(p, path))
      PROVE  ListInv'
  BY <1>2, <1>5 DEF HandleLogOut, Navigate, Load
<1>6. ASSUME NEW p \in Tabs, CheckSession(p) PROVE ListInv'
  BY <1>6, CheckList
<1>7. ASSUME NEW p \in Tabs, NEW k \in Kinds,
             Read(p, k) \/ Answer(p, k) \/ Fails(p, k) \/ Unauthorized(p, k) \/ Dropped(p, k)
      PROVE  ListInv'
  <2>1. CASE Read(p, k) \/ Fails(p, k) \/ Dropped(p, k)
    BY <1>1, <2>1 DEF Read, Fails, Dropped, Quiet
  <2>2. CASE Unauthorized(p, k)
    BY <1>1, <1>2, <2>2 DEF Unauthorized, SignedOut, Load
  <2> QED
    BY <1>7, <2>1, <2>2, AnswerList
<1>8. ASSUME NEW p \in Tabs, ListStep(p) PROVE ListInv'
  BY <1>0, <1>8, ServedList, FailedList DEF ListStep
<1>9. ASSUME NEW p \in Tabs, SendScopes(p) \/ CreateUser(p) PROVE ListInv'
  BY <1>1, <1>9 DEF SendScopes, CreateUser, Quiet
<1>10. ASSUME NEW p \in Tabs, AssignRole(p) \/ UpdateRoleSettings(p) \/ SetVpnIp(p) PROVE ListInv'
  BY <1>1, <1>10 DEF AssignRole, UpdateRoleSettings, SetVpnIp, Write, Quiet
<1>11. ASSUME NEW p \in Tabs, SaveStep(p) \/ OtherStep(p) PROVE ListInv'
  BY <1>7, <1>9, <1>10, <1>11, SaveKinds DEF SaveStep, OtherStep
<1> QED
  BY <1>3, <1>4, <1>5, <1>6, <1>8, <1>11 DEF Next

-----------------------------------------------------------------------------
(* Theorems                                                                *)

LEMMA AccessInit == Init => AccessInv
<1> SUFFICES ASSUME Init PROVE AccessInv
  OBVIOUS
<1>1. AccountInv
  <2>1. Row("admin", Absent, Absent, 1) \in Rows /\ Row("admin", Absent, Absent, 1) # Absent
    BY AbsentAssumption DEF Row, Rows, Roles
  <2> QED
    BY <2>1, NewRowType, RootAssumption DEF Init, AccountInv
<1>2. SessionInv
  <2>1. MaxEvents \in 0 .. MaxEvents /\ 0 \in 0 .. MaxEvents
    BY MaxEventsAssumption
  <2>2. Token(Root, MaxEvents) \in Tokens /\ Token(Root, MaxEvents).id = MaxEvents
    BY <1>1, <2>1, TokenType, RootAssumption DEF AccountInv
  <2> QED
    BY <2>1, <2>2 DEF Init, SessionInv
<1>3. TabInv
  BY DEF Init, TabInv, Paths
<1>4. CallsInv
  <2>1. \A k \in Kinds : CallInv(k, Idle, row)
    BY <1>1, IdleInv DEF AccountInv
  <2>2. job = [p \in Tabs |-> [k \in Kinds |-> Idle]]
    BY DEF Init
  <2> HIDE DEF Idle
  <2> QED
    BY <2>1, <2>2 DEF CallsInv
<1>5. ListInv
  <2>1. Nobody \in [Users -> Nat] /\ \A u \in Users : Nobody[u] = 0
    BY DEF Nobody
  <2>2. \A u \in Users : Version(u) \in Nat
    BY <1>1 DEF AccountInv, Rows, Version
  <2>3. /\ list = [p \in Tabs |-> Nobody] /\ due = [p \in Tabs |-> Nobody]
        /\ fetch = [p \in Tabs |-> [k \in Fetches |-> NoFetch]]
    BY DEF Init
  <2> QED
    BY <2>1, <2>2, <2>3, FetchTypes DEF ListInv
<1> QED
  BY <1>1, <1>2, <1>3, <1>4, <1>5 DEF AccessInv

\* What the accounts, the session, the requests and the lists know of one
\* another, whatever the tabs do and in whatever order the server goes on.
THEOREM AccessInvariant == Spec => []AccessInv
<1>1. AccessInv /\ [Next]_vars => AccessInv'
  <2> SUFFICES ASSUME AccessInv, [Next]_vars PROVE AccessInv'
    OBVIOUS
  <2>1. AccountInv' /\ SessionInv' /\ TabInv'
    BY AccountNext, SessionNext, TabNext DEF AccessInv
  <2>2. CallsInv' /\ ListInv'
    BY CallsNext, ListNext
  <2> QED
    BY <2>1, <2>2 DEF AccessInv
<1> QED
  BY <1>1, AccessInit, PTL DEF Spec

\* Rows, tokens and tabs keep their types; no page shows and no handler writes
\* an account that is not there.
THEOREM TypeCorrect == Spec => []TypeOK
<1>1. AccessInv => TypeOK
  <2> SUFFICES ASSUME AccessInv PROVE TypeOK
    OBVIOUS
  <2>1. \A p \in Tabs, u \in Users : list[p][u] # 0 => row[u] # Absent
    BY DEF AccessInv, ListInv
  <2>2. ASSUME NEW p \in Tabs, NEW k \in Kinds,
               job[p][k].pc \in {"half", "done", "writeRole", "writeScopes", "writeVpn"}
        PROVE  row[job[p][k].user] # Absent
    <3>1. CallInv(k, job[p][k], row) /\ job[p][k].pc \in Stages(k)
      BY CallFacts DEF AccessInv
    <3> QED
      BY <2>2, <3>1 DEF CallInv, Stages
  <2> QED
    BY <2>1, <2>2 DEF AccessInv, AccountInv, SessionInv, TabInv, TypeOK
<1> QED
  BY <1>1, AccessInvariant, PTL

\* A save that no other save of the account came between grants exactly what the
\* form said, though it is two requests and the first writes back what it read.
THEOREM SavesGrantWhatTheySay == Spec => []SavedAsAsked
<1>1. AccessInv => SavedAsAsked
  <2> SUFFICES ASSUME AccessInv, NEW p \in Tabs, job[p]["save"].pc = "done", job[p]["save"].alone
               PROVE  LET s == job[p]["save"]
                          r == row[s.user] IN
                      /\ s.role = "admin" => r.settings = Absent
                      /\ \A t \in Scopes :
                           /\ MayWrite(r, t) <=>
                                s.role = "admin" \/ (s.role = "writer" /\ t \in s.settings.write)
                           /\ MayRead(r, t) <=> MayWrite(r, t) \/ t \in s.settings.read
    BY DEF SavedAsAsked
  <2> DEFINE s == job[p]["save"]
             r == row[s.user]
  <2>1. CallInv("save", s, row)
    BY CallFacts, SaveKinds DEF AccessInv
  <2>2. r.role = s.role /\ r.settings = s.settings /\ s.settings \in FormsOf(s.role)
    BY <2>1 DEF CallInv
  <2>3. CASE s.role = "admin"
    BY <2>2, <2>3 DEF FormsOf, MayRead, MayWrite
  <2>4. CASE s.role # "admin"
    <3>1. s.settings \in Settings /\ s.settings # Absent
      BY <2>2, <2>4, AbsentAssumption DEF FormsOf
    <3> QED
      BY <2>2, <2>4, <3>1 DEF MayRead, MayWrite
  <2> QED
    BY <2>3, <2>4
<1> QED
  BY <1>1, AccessInvariant, PTL

\* A page with nothing under way shows what it wrote last, or something later,
\* unless a fetch failed or an older answer came last.
THEOREM PagesShowTheirWrites == Spec => []OwnWritesAreShown
<1>1. AccessInv => OwnWritesAreShown
  BY DEF AccessInv, ListInv, OwnWritesAreShown, Coming, NoFetch
<1> QED
  BY <1>1, AccessInvariant, PTL

\* A tab that AppWrapper has settled is where its session belongs.
THEOREM TabsSuitTheSession == Spec => []PagesFit
<1>1. AccessInv => PagesFit
  BY DEF AccessInv, TabInv, Fits, PagesFit, HasValidSession, Known, IsAdmin
<1> QED
  BY <1>1, AccessInvariant, PTL
=============================================================================
