---------------------------- MODULE AccessControl ----------------------------
(***************************************************************************)
(* Who may do what: the rows of the users, the requests of an              *)
(* administrator that change them, the guards that go by them, and the     *)
(* browser that signs in, routes and edits.  The tabs of the browser share *)
(* one session; every handler of the backend reads a row and writes it in  *)
(* a later step, and a save of the page is two requests.                   *)
(*                                                                         *)
(* A scope is the table that its pattern matches.  The server reads the    *)
(* role from the row at each request, the browser from its token.          *)
(***************************************************************************)
EXTENDS Integers

CONSTANTS
  Users,       \* the accounts there may be
  Root,        \* the administrator that is there from the beginning
  Tabs,        \* the tabs of one browser
  Scopes,      \* the tables that patterns match
  Addresses,   \* where a client may be
  Absent,      \* no row, no scopes, no address, no token
  MaxEvents    \* bound: how much is done, a save counting twice

ASSUME RootAssumption == Root \in Users
ASSUME MaxEventsAssumption == MaxEvents \in Nat

VARIABLES
  row,       \* user |-> the row of the account
  dead,      \* the tokens that have expired, by their numbers
  stored,    \* the token in localStorage
  tab,       \* tab |-> where it is and whether AppWrapper has yet to look at that
  list,      \* tab |-> user |-> the version shown, 0 for none
  job,       \* tab |-> kind |-> the request under way
  fetch,     \* tab |-> kind |-> the fetch of the list that follows it
  due,       \* tab |-> user |-> the version it wrote last (history)
  excused,   \* tabs where a fetch failed or was overtaken since the last write (history)
  checked,   \* tab |-> the session that AppWrapper saw last (history)
  events

page == <<list, fetch, due, excused>>
vars == <<row, dead, stored, tab, page, job, checked, events>>

-----------------------------------------------------------------------------
\* The role "user" may do what "reader" may.
Roles == {"admin", "reader", "writer"}
Kinds == {"save", "vpn", "create"}
Fetches == Kinds \cup {"load"}
Settings == [read : SUBSET Scopes, write : SUBSET Scopes]
Row(role, settings, vpn, version) ==
  [role |-> role, settings |-> settings, vpn |-> vpn, version |-> version]
NewRow == Row("reader", Absent, Absent, 1)
\* Mutant of Token: the role is not signed.
TokenWithoutRole(u, id) == [user |-> u, role |-> Absent, id |-> id]
\* What is signed: the account and the role that it has now.
Token(u, id) == [user |-> u, role |-> row[u].role, id |-> id]

\* alone (history): no other save has written the same account since this one began.
Call(pc, u, role, settings, vpn) ==
  [pc |-> pc, user |-> u, role |-> role, settings |-> settings, vpn |-> vpn,
   token |-> stored, seen |-> Absent, alone |-> TRUE, page |-> "shown"]
Idle == [pc |-> "idle", user |-> Root, role |-> "reader", settings |-> Absent, vpn |-> Absent,
         token |-> Absent, seen |-> Absent, alone |-> TRUE, page |-> "shown"]
NoFetch == [pc |-> "no", token |-> Absent, answer |-> Absent]
Asked(token) == [pc |-> "sent", token |-> token, answer |-> Absent]
Nobody == [u \in Users |-> 0]

\* What somebody does at a page counts twice, where a tab goes once.
Event(weight) == events + weight <= MaxEvents /\ events' = events + weight

\* The accounts may have been there before, and the browser may have kept a
\* session; its tabs open the page of the administrator.
Init ==
  /\ row \in {[u \in Users |-> IF u = Root THEN Row("admin", Absent, Absent, 1)
                              ELSE IF u \in old THEN NewRow ELSE Absent] : old \in SUBSET Users}
  /\ stored \in {Absent, Token(Root, MaxEvents)}
  /\ dead = {} /\ events = 0
  /\ tab = [p \in Tabs |-> [path |-> "/access-control", checking |-> TRUE]]
  /\ list = [p \in Tabs |-> Nobody]
  /\ job = [p \in Tabs |-> [k \in Kinds |-> Idle]]
  /\ fetch = [p \in Tabs |-> [k \in Fetches |-> NoFetch]]
  /\ due = [p \in Tabs |-> Nobody] /\ excused = {}
  /\ checked = [p \in Tabs |-> Absent]

-----------------------------------------------------------------------------
(* The guards.                                                             *)

\* PermissionsGuard, by the row of the account.
MayRead(r, t) ==
  \/ r.role = "admin"
  \/ /\ r.settings # Absent
     /\ t \in r.settings.read \cup IF r.role = "writer" THEN r.settings.write ELSE {}
MayWrite(r, t) ==
  \/ r.role = "admin"
  \/ r.settings # Absent /\ r.role = "writer" /\ t \in r.settings.write

\* JwtStrategy refuses a token that is missing or expired; RolesGuard refuses
\* all but administrators.
Known(token) == IF token = Absent THEN FALSE ELSE token.id \notin dead
Admin(token) == IF Known(token) THEN row[token.user].role = "admin" ELSE FALSE

-----------------------------------------------------------------------------
(* The session and the pages.                                              *)

AuthPages == {"/login", "/register"}
Paths == AuthPages \cup {"/", "/access-control", "/data-explorers"}
IsAdminRoute(path) == path \notin AuthPages \cup {"/data-explorers"}
HasValidSession == Known(stored)
IsAdmin == IF stored = Absent THEN FALSE ELSE stored.role = "admin"

\* A tab that goes elsewhere forgets its page; what the server was asked goes on.
\* Behind a link the script goes on too, and a document that is loaded ends it.
Leave(p) ==
  /\ list' = [list EXCEPT ![p] = Nobody]
  /\ fetch' = [fetch EXCEPT ![p] = [k \in Fetches |-> NoFetch]]
  /\ due' = [due EXCEPT ![p] = Nobody] /\ excused' = excused \ {p}
Load(p, path) == Leave(p) /\ tab' = [tab EXCEPT ![p] = [path |-> path, checking |-> TRUE]]
Forget(p, script) ==
  [job EXCEPT ![p] = [k \in Kinds |->
     IF job[p][k] = Idle THEN Idle
     ELSE [job[p][k] EXCEPT !.page = IF @ = "gone" THEN @ ELSE script]]]

Navigate(p, path) ==
  /\ Event(1) /\ path # tab[p].path
  /\ Load(p, path)
  /\ \E script \in {"left", "gone"} : job' = Forget(p, script)
  /\ UNCHANGED <<row, dead, stored, checked>>

\* Where AppWrapper sends a tab; the same path when it may stay.
\* Mutant of Redirect: administrators' pages are not looked at.
RedirectAuthOnly(path) ==
  IF ~HasValidSession THEN IF path \in AuthPages THEN path ELSE "/login"
  ELSE IF path \in AuthPages THEN IF IsAdmin THEN "/" ELSE "/data-explorers"
  ELSE path
Redirect(path) ==
  IF ~HasValidSession THEN IF path \in AuthPages THEN path ELSE "/login"
  ELSE IF path \in AuthPages THEN IF IsAdmin THEN "/" ELSE "/data-explorers"
  ELSE IF IsAdminRoute(path) /\ ~IsAdmin THEN "/data-explorers"
  ELSE path

\* The effect of AppWrapper; a page that stays fetches what it shows.
CheckSession(p) ==
  LET path == Redirect(tab[p].path) IN
  /\ tab[p].checking
  /\ stored' = IF path = "/login" /\ tab[p].path # "/login" THEN Absent ELSE stored
  /\ checked' = [checked EXCEPT ![p] = stored']
  /\ tab' = [tab EXCEPT ![p] = [path |-> path, checking |-> path # tab[p].path]]
  /\ fetch' = IF path = "/access-control" THEN [fetch EXCEPT ![p]["load"] = Asked(stored)]
              ELSE fetch
  /\ UNCHANGED <<row, dead, list, due, excused, job, events>>

\* Whoever has the password signs in, from the address that the account is bound to.
HandleLogin(p, u) ==
  /\ Event(1) /\ tab[p].path = "/login" /\ ~tab[p].checking
  /\ row[u] # Absent
  /\ \E address \in Addresses : row[u].vpn \in {Absent, address}
  /\ stored' = Token(u, events)
  /\ Load(p, IF row[u].role = "admin" THEN "/" ELSE "/data-explorers") /\ job' = Forget(p, "gone")
  /\ UNCHANGED <<row, dead, checked>>

HandleLogOut(p) ==
  /\ Event(1) /\ tab[p].path \notin AuthPages
  /\ stored' = Absent
  /\ Load(p, "/login") /\ job' = Forget(p, "gone")
  /\ UNCHANGED <<row, dead, checked>>

Expire ==
  /\ Event(1) /\ HasValidSession
  /\ dead' = dead \cup {stored.id}
  /\ UNCHANGED <<row, stored, tab, page, job, checked>>

\* The answer 401 ends whatever session there is by now.
SignedOut(p) ==
  /\ stored' = Absent
  /\ IF tab[p].path = "/login" THEN UNCHANGED <<tab, page>> ELSE Load(p, "/login")
SignedOutJobs(p) == Forget(p, IF tab[p].path = "/login" THEN "left" ELSE "gone")

\* Accounts are registered by their owners too.
HandleRegister(p, u) ==
  /\ Event(1) /\ tab[p].path = "/register" /\ ~tab[p].checking
  /\ row[u] = Absent
  /\ row' = [row EXCEPT ![u] = NewRow]
  /\ tab' = [tab EXCEPT ![p] = [path |-> "/login", checking |-> TRUE]]
  /\ UNCHANGED <<dead, stored, page, job, checked>>

-----------------------------------------------------------------------------
(* The page of the administrator.                                          *)

OnPage(p) == tab[p] = [path |-> "/access-control", checking |-> FALSE]
Listed(p, u) == list[p][u] # 0
Start(p, kind, call) ==
  /\ Event(2) /\ OnPage(p) /\ job[p][kind].pc = "idle" /\ fetch[p][kind] = NoFetch
  /\ job' = [job EXCEPT ![p][kind] = call]
  /\ UNCHANGED <<row, dead, stored, tab, list, fetch, due, excused, checked>>

\* The form is opened, edited and saved.  Only a writer's save says what may be
\* written, and an administrator's nothing at all.
FormsOf(role) ==
  IF role = "admin" THEN {Absent}
  ELSE {f \in Settings : role = "writer" \/ f.write = {}}
HandleSave(p, u, role, settings) ==
  Listed(p, u) /\ Start(p, "save", Call("role", u, role, settings, Absent))
HandleSaveVpnIp(p, u, vpn) ==
  Listed(p, u) /\ Start(p, "vpn", Call("vpn", u, "reader", Absent, vpn))
HandleCreate(p, u) == Start(p, "create", Call("create", u, "reader", Absent, Absent))

Step(p, kind, call) == job' = [job EXCEPT ![p][kind] = call]
Quiet == UNCHANGED <<dead, stored, tab, page, checked, events>>

\* The guards let the request in, and the handler reads the row.  The settings
\* of an administrator are refused.
Read(p, kind) ==
  LET s == job[p][kind] IN
  /\ s.pc \in {"role", "scopes", "vpn"} /\ Admin(s.token)
  /\ s.pc = "scopes" => row[s.user].role # "admin"
  /\ Step(p, kind, [s EXCEPT !.pc = IF @ = "role" THEN "writeRole"
                                   ELSE IF @ = "scopes" THEN "writeScopes" ELSE "writeVpn",
                             !.seen = row[s.user]])
  /\ UNCHANGED row /\ Quiet

\* A write, which other saves of the account do not know of.
Write(p, kind, r, pc) ==
  LET s == job[p][kind] IN
  /\ row' = [row EXCEPT ![s.user] = [r EXCEPT !.version = @ + 1]]
  /\ job' = [q \in Tabs |-> [k \in Kinds |->
       IF q = p /\ k = kind THEN [s EXCEPT !.pc = pc, !.seen = Absent]
       ELSE [job[q][k] EXCEPT !.alone = @ /\ (k # "save" \/ kind = "vpn" \/ job[q][k].user # s.user)]]]
  /\ Quiet

\* Mutant of AssignRole: an administrator keeps the settings.
AssignRoleOnly(p) ==
  LET s == job[p]["save"] IN
  /\ s.pc = "writeRole"
  /\ Write(p, "save", [row[s.user] EXCEPT !.role = s.role, !.settings = s.seen.settings],
           IF s.role = "admin" THEN "done" ELSE "half")
\* The settings are written back as they were read, or cleared.
AssignRole(p) ==
  LET s == job[p]["save"] IN
  /\ s.pc = "writeRole"
  /\ Write(p, "save", [row[s.user] EXCEPT !.role = s.role,
             !.settings = IF s.role = "admin" THEN Absent ELSE s.seen.settings],
           IF s.role = "admin" THEN "done" ELSE "half")

\* The second request of a save, with the token of the moment.
SendScopes(p) ==
  LET s == job[p]["save"] IN
  /\ s.pc = "half" /\ s.page # "gone"
  /\ Step(p, "save", [s EXCEPT !.pc = "scopes", !.token = stored])
  /\ UNCHANGED row /\ Quiet

UpdateRoleSettings(p) ==
  LET s == job[p]["save"] IN
  /\ s.pc = "writeScopes"
  /\ Write(p, "save", [row[s.user] EXCEPT !.settings = s.settings], "done")

SetVpnIp(p) ==
  LET s == job[p]["vpn"] IN
  /\ s.pc = "writeVpn"
  /\ Write(p, "vpn", [row[s.user] EXCEPT !.vpn = s.vpn], "done")

\* A name that is taken is refused.
CreateUser(p) ==
  LET s == job[p]["create"] IN
  /\ s.pc = "create" /\ Admin(s.token) /\ row[s.user] = Absent
  /\ row' = [row EXCEPT ![s.user] = NewRow]
  /\ Step(p, "create", [s EXCEPT !.pc = "done"])
  /\ Quiet

\* A success closes the form and fetches the list.
\* Mutant of Answer: the list is left as it is.
AnswerOnly(p, kind) ==
  LET s == job[p][kind] IN
  /\ s.pc = "done" /\ s.page = "shown"
  /\ Step(p, kind, Idle)
  /\ due' = [due EXCEPT ![p][s.user] = row[s.user].version]
  /\ excused' = excused \ {p}
  /\ UNCHANGED <<row, dead, stored, tab, list, fetch, checked, events>>
Answer(p, kind) ==
  LET s == job[p][kind] IN
  /\ s.pc = "done" /\ s.page = "shown"
  /\ Step(p, kind, Idle)
  /\ fetch' = [fetch EXCEPT ![p][kind] = Asked(stored)]
  /\ due' = [due EXCEPT ![p][s.user] = row[s.user].version]
  /\ excused' = excused \ {p}
  /\ UNCHANGED <<row, dead, stored, tab, list, checked, events>>

\* 400, 403, 404 or 500: the page shows an error.
Fails(p, kind) ==
  /\ job[p][kind].pc \notin {"idle", "half", "done"}
  /\ Step(p, kind, Idle)
  /\ UNCHANGED row /\ Quiet

Unauthorized(p, kind) ==
  LET s == job[p][kind] IN
  /\ s.pc \in {"role", "scopes", "vpn", "create"} /\ ~Known(s.token) /\ s.page # "gone"
  /\ job' = [SignedOutJobs(p) EXCEPT ![p][kind] = Idle]
  /\ SignedOut(p)
  /\ UNCHANGED <<row, dead, checked, events>>

\* Nobody waits for the answer any more.
Dropped(p, kind) ==
  /\ \/ job[p][kind].pc = "done" /\ job[p][kind].page # "shown"
     \/ job[p][kind].pc = "half" /\ job[p][kind].page = "gone"
  /\ Step(p, kind, Idle)
  /\ UNCHANGED row /\ Quiet

\* The list as it is when the server answers; answers may come late.
ServeList(p, kind) ==
  LET f == fetch[p][kind] IN
  /\ f.pc = "sent" /\ Admin(f.token)
  /\ fetch' = [fetch EXCEPT ![p][kind] =
       [pc |-> "served", token |-> f.token,
        answer |-> [u \in Users |-> IF row[u] = Absent THEN 0 ELSE row[u].version]]]
  /\ UNCHANGED <<row, dead, stored, tab, list, due, excused, job, checked, events>>

ShowList(p, kind) ==
  LET f == fetch[p][kind] IN
  /\ f.pc = "served"
  /\ list' = [list EXCEPT ![p] = f.answer]
  /\ fetch' = [fetch EXCEPT ![p][kind] = NoFetch]
  /\ excused' = IF \E u \in Users : f.answer[u] < list[p][u] THEN excused \cup {p} ELSE excused
  /\ UNCHANGED <<row, dead, stored, tab, due, job, checked, events>>

ListFails(p, kind) ==
  LET f == fetch[p][kind] IN
  /\ f.pc = "sent"
  /\ \/ /\ Known(f.token)
        /\ fetch' = [fetch EXCEPT ![p][kind] = NoFetch]
        /\ excused' = excused \cup {p}
        /\ UNCHANGED <<stored, tab, list, due, job>>
     \/ ~Known(f.token) /\ SignedOut(p) /\ job' = SignedOutJobs(p)
  /\ UNCHANGED <<row, dead, checked, events>>

-----------------------------------------------------------------------------
SaveStep(p) ==
  \/ Read(p, "save") \/ AssignRole(p) \/ SendScopes(p) \/ UpdateRoleSettings(p)
  \/ Answer(p, "save") \/ Fails(p, "save") \/ Unauthorized(p, "save") \/ Dropped(p, "save")
OtherStep(p) ==
  \/ Read(p, "vpn") \/ SetVpnIp(p) \/ CreateUser(p)
  \/ \E k \in {"vpn", "create"} :
       Answer(p, k) \/ Fails(p, k) \/ Unauthorized(p, k) \/ Dropped(p, k)
ListStep(p) == \E k \in Fetches : ServeList(p, k) \/ ShowList(p, k) \/ ListFails(p, k)
PageStep(p) ==
  \E u \in Users :
    \/ \E role \in Roles : \E settings \in FormsOf(role) : HandleSave(p, u, role, settings)
    \/ \E vpn \in Addresses \cup {Absent} : HandleSaveVpnIp(p, u, vpn)
    \/ HandleCreate(p, u) \/ HandleRegister(p, u) \/ HandleLogin(p, u)

Next ==
  \/ Expire
  \/ \E p \in Tabs :
       \/ CheckSession(p) \/ HandleLogOut(p) \/ PageStep(p)
       \/ \E path \in Paths : Navigate(p, path)
       \/ SaveStep(p) \/ OtherStep(p) \/ ListStep(p)

Spec == Init /\ [][Next]_vars

-----------------------------------------------------------------------------
Rows == [role : Roles, settings : Settings \cup {Absent}, vpn : Addresses \cup {Absent},
         version : Nat \ {0}]
Tokens == [user : Users, role : Roles, id : Nat]
ASSUME AbsentAssumption == Absent \notin Rows \cup Tokens \cup Settings

TypeOK ==
  /\ row \in [Users -> Rows \cup {Absent}] /\ row[Root] # Absent
  /\ dead \subseteq 0 .. MaxEvents
  /\ stored \in Tokens \cup {Absent}
  /\ tab \in [Tabs -> [path : Paths, checking : BOOLEAN]]
  /\ \A p \in Tabs, u \in Users : list[p][u] # 0 => row[u] # Absent
  /\ \A p \in Tabs, k \in Kinds :
       job[p][k].pc \in {"half", "done", "writeRole", "writeScopes", "writeVpn"} =>
         row[job[p][k].user] # Absent

\* A save that no other save of the account came between grants exactly what
\* the form said, though it is two requests, the first of which writes back
\* settings that it has read, and though the guards go by role and settings.
SavedAsAsked ==
  \A p \in Tabs :
    LET s == job[p]["save"]
        r == row[s.user]
    IN  s.pc = "done" /\ s.alone =>
          /\ s.role = "admin" => r.settings = Absent
          /\ \A t \in Scopes :
               /\ MayWrite(r, t) <=> s.role = "admin" \/ (s.role = "writer" /\ t \in s.settings.write)
               /\ MayRead(r, t) <=> MayWrite(r, t) \/ t \in s.settings.read

\* A page with nothing under way shows what it has written, or something later,
\* unless a fetch failed or an older answer came last.
OwnWritesAreShown ==
  \A p \in Tabs :
    OnPage(p) /\ p \notin excused /\ (\A k \in Fetches : fetch[p][k] = NoFetch)
      => \A u \in Users : list[p][u] >= due[p][u]

\* A tab that AppWrapper has settled is where its session belongs, as long as
\* the session is the one that AppWrapper saw.
PagesFit ==
  \A p \in Tabs :
    ~tab[p].checking /\ stored = checked[p] /\ (stored = Absent \/ HasValidSession)
      => IF stored = Absent THEN tab[p].path \in AuthPages
         ELSE tab[p].path \notin AuthPages /\ (IsAdminRoute(tab[p].path) => IsAdmin)

-----------------------------------------------------------------------------
(* The inductive invariant, proved in AccessControl_proofs                 *)

AccountInv == row \in [Users -> Rows \cup {Absent}] /\ row[Root] # Absent

SessionInv ==
  /\ events \in 0 .. MaxEvents /\ dead \subseteq 0 .. MaxEvents
  /\ stored \in Tokens \cup {Absent}
  /\ stored # Absent => stored.id \in 0 .. MaxEvents

\* A path that suits the session that AppWrapper saw, while that is valid.
Fits(path, token) ==
  IF token = Absent THEN path \in AuthPages
  ELSE token.id \notin dead =>
         path \notin AuthPages /\ (IsAdminRoute(path) => token.role = "admin")
TabInv ==
  /\ tab \in [Tabs -> [path : Paths, checking : BOOLEAN]]
  /\ DOMAIN checked = Tabs
  /\ \A p \in Tabs : ~tab[p].checking => Fits(tab[p].path, checked[p])

Stages(kind) ==
  IF kind = "save" THEN {"idle", "role", "writeRole", "half", "scopes", "writeScopes", "done"}
  ELSE IF kind = "vpn" THEN {"idle", "vpn", "writeVpn", "done"} ELSE {"idle", "create", "done"}
Calls(kind) ==
  [pc : Stages(kind), user : Users, role : Roles, settings : Settings \cup {Absent},
   vpn : Addresses \cup {Absent}, token : Tokens \cup {Absent}, seen : Rows \cup {Absent},
   alone : BOOLEAN, page : {"shown", "left", "gone"}]

\* A save that is alone finds its role in the row after its first request, and
\* all that it asked for after its last one.
CallInv(kind, s, rows) ==
  /\ s \in Calls(kind)
  /\ kind # "create" \/ s.pc = "done" => rows[s.user] # Absent
  /\ s.pc = "writeRole" => s.seen # Absent
  /\ kind = "save" /\ s.pc # "idle" => s.settings \in FormsOf(s.role)
  /\ s.pc \in {"half", "scopes", "writeScopes"} => s.role # "admin"
  /\ kind = "save" /\ s.alone =>
       /\ s.pc \in {"half", "scopes", "writeScopes", "done"} => rows[s.user].role = s.role
       /\ s.pc = "done" => rows[s.user].settings = s.settings
CallsInv ==
  /\ DOMAIN job = Tabs /\ \A p \in Tabs : DOMAIN job[p] = Kinds
  /\ \A p \in Tabs, k \in Kinds : CallInv(k, job[p][k], row)

\* A page that is not excused shows what it wrote last, or will with an answer
\* to come.
Version(u) == IF row[u] = Absent THEN 0 ELSE row[u].version
FetchState ==
  [pc : {"no", "sent", "served"}, token : Tokens \cup {Absent},
   answer : [Users -> Nat] \cup {Absent}]
Coming(f, u, version) == f.pc = "sent" \/ (f.pc = "served" /\ f.answer[u] >= version)
ListInv ==
  /\ list \in [Tabs -> [Users -> Nat]] /\ due \in [Tabs -> [Users -> Nat]]
  /\ fetch \in [Tabs -> [Fetches -> FetchState]]
  /\ \A p \in Tabs, k \in Fetches : fetch[p][k].pc = "served" =>
       /\ fetch[p][k].answer \in [Users -> Nat]
       /\ \A u \in Users : fetch[p][k].answer[u] # 0 => row[u] # Absent
  /\ \A p \in Tabs, u \in Users :
       /\ list[p][u] # 0 => row[u] # Absent
       /\ due[p][u] <= Version(u)
       /\ p \notin excused =>
            \/ list[p][u] >= due[p][u]
            \/ \E k \in Fetches : Coming(fetch[p][k], u, due[p][u])

AccessInv == AccountInv /\ SessionInv /\ TabInv /\ CallsInv /\ ListInv
=============================================================================
