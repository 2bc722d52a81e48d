------------------------------- MODULE Views -------------------------------
(***************************************************************************)
(* SQL views: the view itself lives in PostgreSQL, its definition in the   *)
(* table view_definitions.  ViewsService writes the two one after the      *)
(* other; a live migration (SchemaMigrator) drops all the views that the   *)
(* table lists and creates them again; the page of the administrator shows *)
(* the table.                                                              *)
(*                                                                         *)
(* A query is the set of the columns and views that it reads.  One page is *)
(* modelled: cancelling a form leaves its request in flight, so that even  *)
(* one page has requests that overlap.                                     *)
(***************************************************************************)
EXTENDS Naturals, FiniteSets

CONSTANTS
  ViewNames,   \* names of views
  Columns,     \* columns of the base tables
  Queries,     \* the queries in use: what each one reads
  Slots,       \* slots for the requests of the page that write
  Loads,       \* slots for its requests for the list
  ViewEvents,  \* which failures and outside events happen
  MaxEvents    \* bound on saves, drops, refreshes, samples, failures and migrations

AllViewEvents == {"refuse", "store", "lost", "crash", "migrate"}

ASSUME QueriesAssumption ==
  \A q \in Queries : q # {} /\ q \subseteq ViewNames \cup Columns
ASSUME NamesAssumption == IsFiniteSet(ViewNames)
ASSUME ViewEventsAssumption == ViewEvents \subseteq AllViewEvents /\ MaxEvents \in Nat

VARIABLES
  columns,     \* the columns that exist
  live,        \* view |-> the query that PostgreSQL has for it, {} without one
  meta,        \* the rows of view_definitions
  nextId,      \* its sequence
  calls,       \* the requests that write: the locals of ViewsService's methods
  migrating,   \* the locals of applyLiveMigration
  drifted,     \* history: views whose two halves may differ, see TrackedAreLive
  page,        \* the page: mode, form, dialog, list and samples
  loads,       \* its requests for the list
  events       \* saves, drops, refreshes, samples, failures and migrations so far

database == <<columns, live, meta, nextId>>
server == <<database, calls, migrating, drifted>>
client == <<page, loads>>
viewsVars == <<server, client, events>>

NoCall == [pc |-> "idle", kind |-> "none", id |-> 0, name |-> {}, sql |-> {}, alone |-> TRUE]
NotMigrating == [on |-> FALSE, listed |-> {}, kind |-> "none", column |-> {}]
NoLoad == [pc |-> "idle", views |-> {}]

Counted == events < MaxEvents /\ events' = events + 1
Happens(e) == e \in ViewEvents /\ Counted

\* The definition of a view in a list of rows and in the table, {} without one.
SqlOf(n, rows) == UNION {m.sql : m \in {x \in rows : x.name = n}}
Tracked(n) == SqlOf(n, meta)

Existing == columns \cup {n \in ViewNames : live[n] # {}}

\* Any views that have been created, in any order.
ViewsInit ==
  /\ columns = Columns
  /\ \E S \in SUBSET ViewNames :
       \E q \in [S -> Queries], i \in [S -> 1 .. Cardinality(S)] :
         /\ \A m, n \in S : m # n => i[m] # i[n]
         /\ \A n \in S : n \notin q[n] /\ q[n] \subseteq Columns \cup S
         /\ meta = {[id |-> i[n], name |-> n, sql |-> q[n]] : n \in S}
         /\ live = [n \in ViewNames |-> IF n \in S THEN q[n] ELSE {}]
         /\ nextId = Cardinality(S) + 1
  /\ \A n \in ViewNames : live[n] \cap ViewNames # {} =>
       \A m \in live[n] \cap ViewNames : live[m] \subseteq Columns
  /\ calls = [c \in Slots |-> NoCall] /\ migrating = NotMigrating /\ drifted = {}
  /\ loads = [l \in Loads |-> NoLoad]
  /\ page = [mode |-> "list", target |-> {}, form |-> {}, drop |-> {}, dropping |-> {},
             views |-> meta, loading |-> FALSE, samples |-> {}, sampling |-> {},
             excused |-> FALSE]
  /\ events = 0

-----------------------------------------------------------------------------
(* ViewsService                                                            *)

At(c, pc) == calls[c].pc = pc
Becomes(c, pc) == calls' = [calls EXCEPT ![c].pc = pc]

\* validateSql, the check of the name, or PostgreSQL refuse the query (a column of
\* the old view is missing in the new one, say).
Refuse(c) ==
  /\ calls[c].pc \in {"find", "ddl"} /\ Happens("refuse")
  /\ Becomes(c, "failed")
  /\ UNCHANGED <<database, migrating, drifted, client>>

\* updateView and dropView look the definition up by its id.
FindUnique(c) ==
  /\ At(c, "find")
  /\ Becomes(c, IF \E m \in meta : m.id = calls[c].id THEN "ddl" ELSE "failed")
  /\ UNCHANGED <<database, migrating, drifted, client, events>>

SetView(names, query) == live' = [n \in ViewNames |-> IF n \in names THEN query ELSE live[n]]

\* CREATE OR REPLACE VIEW: what it reads must exist.
ReplaceView(c) ==
  /\ At(c, "ddl") /\ calls[c].kind # "drop"
  /\ IF calls[c].sql \subseteq Existing
     THEN SetView(calls[c].name, calls[c].sql) /\ Becomes(c, "write")
     ELSE UNCHANGED live /\ Becomes(c, "failed")
  /\ UNCHANGED <<columns, meta, nextId, migrating, drifted, client, events>>

\* DROP VIEW IF EXISTS, without CASCADE: refused when another view reads it.
DropView(c) ==
  /\ At(c, "ddl") /\ calls[c].kind = "drop"
  /\ IF \A n \in ViewNames : live[n] \cap calls[c].name = {}
     THEN SetView(calls[c].name, {}) /\ Becomes(c, "write")
     ELSE UNCHANGED live /\ Becomes(c, "failed")
  /\ UNCHANGED <<columns, meta, nextId, migrating, drifted, client, events>>

\* The two halves agree after a request that was alone with its view.
Settle(c) ==
  drifted' = IF calls[c].alone THEN drifted \ calls[c].name ELSE drifted \cup calls[c].name
MarkDrifted(c) == drifted' = drifted \cup calls[c].name

\* createView: upsert by name.
Upsert(c) ==
  /\ At(c, "write") /\ calls[c].kind = "create"
  /\ IF \E m \in meta : {m.name} = calls[c].name
     THEN /\ meta' = {IF {m.name} = calls[c].name THEN [m EXCEPT !.sql = calls[c].sql] ELSE m
                      : m \in meta}
          /\ UNCHANGED nextId
     ELSE /\ meta' = meta \cup {[id |-> nextId, name |-> n, sql |-> calls[c].sql]
                                : n \in calls[c].name}
          /\ nextId' = nextId + 1
  /\ Becomes(c, "ok") /\ Settle(c)
  /\ UNCHANGED <<columns, live, migrating, client, events>>

\* updateView and dropView: the row of the id, or an exception without one.
Write(c, rows) ==
  /\ At(c, "write")
  /\ IF \E m \in meta : m.id = calls[c].id
     THEN meta' = rows /\ Becomes(c, "ok") /\ Settle(c)
     ELSE UNCHANGED meta /\ Becomes(c, "failed") /\ MarkDrifted(c)
  /\ UNCHANGED <<columns, live, nextId, migrating, client, events>>

UpdateRow(c) ==
  calls[c].kind = "update"
    /\ Write(c, {IF m.id = calls[c].id THEN [m EXCEPT !.sql = calls[c].sql] ELSE m : m \in meta})

DeleteRow(c) == calls[c].kind = "drop" /\ Write(c, {m \in meta : m.id # calls[c].id})

WriteFails(c) ==
  /\ At(c, "write") /\ Happens("store")
  /\ Becomes(c, "failed") /\ MarkDrifted(c)
  /\ UNCHANGED <<database, migrating, client>>

\* The server stops while something is under way: what has not committed is
\* rolled back.
Crash ==
  /\ Happens("crash")
  /\ migrating.on \/ \E c \in Slots : calls[c].pc \in {"find", "ddl", "write"}
  /\ drifted' = drifted \cup UNION {calls[c].name : c \in {d \in Slots : At(d, "write")}}
  /\ calls' = [c \in Slots |-> IF calls[c].pc \in {"find", "ddl", "write"}
                               THEN [calls[c] EXCEPT !.pc = "failed"] ELSE calls[c]]
  /\ migrating' = NotMigrating
  /\ UNCHANGED <<database, client>>

-----------------------------------------------------------------------------
(* applyLiveMigration                                                      *)

\* The definitions are read at the beginning ...
ListViews(kind, column) ==
  /\ ~migrating.on /\ Happens("migrate")
  /\ migrating' = [on |-> TRUE, listed |-> meta, kind |-> kind, column |-> {column}]
  /\ calls' = [c \in Slots |-> [calls[c] EXCEPT !.alone = FALSE]]
  /\ UNCHANGED <<database, drifted, client>>

\* ... dropped with what reads them ...
Dropped ==
  LET names == {m.name : m \in migrating.listed}
      reading[k \in 0 .. Cardinality(ViewNames)] ==
        IF k = 0 THEN {n \in names : live[n] # {}}
        ELSE reading[k-1] \cup {n \in ViewNames : live[n] \cap reading[k-1] # {}}
  IN  reading[Cardinality(ViewNames)]

Kept == {n \in ViewNames \ Dropped : live[n] # {}}

Altered ==
  CASE migrating.kind = "drop" -> columns \ migrating.column
    [] migrating.kind = "add"  -> columns \cup migrating.column
    [] OTHER                   -> columns

\* ... (a column that another view reads cannot be changed) ...
Alterable == migrating.kind = "add" \/ \A n \in Kept : live[n] \cap migrating.column = {}

\* ... and created again in the order of their ids, from what exists by then.
Creatable(m) ==
  \A x \in m.sql :
    x \in Altered \cup Kept \/ \E o \in migrating.listed : o.name = x /\ o.id < m.id

\* Mutant of Recreated: the views are only dropped.
NotRecreated(n) == IF n \in Kept THEN live[n] ELSE {}

Recreated(n) ==
  IF \E m \in migrating.listed : m.name = n
  THEN SqlOf(n, migrating.listed)
  ELSE IF n \in Kept THEN live[n] ELSE {}

\* All of this is one transaction, whose locks keep the requests out from the
\* first DROP on; between the reading and the first DROP they are not kept out.
CommitMigration ==
  /\ migrating.on /\ Alterable /\ \A m \in migrating.listed : Creatable(m)
  /\ columns' = Altered
  /\ live' = [n \in ViewNames |-> Recreated(n)]
  /\ migrating' = NotMigrating
  /\ UNCHANGED <<meta, nextId, calls, drifted, client, events>>

Rollback ==
  /\ migrating.on
  /\ IF Alterable /\ \A m \in migrating.listed : Creatable(m)
     THEN Happens("store") ELSE UNCHANGED events
  /\ migrating' = NotMigrating
  /\ UNCHANGED <<database, calls, drifted, client>>

-----------------------------------------------------------------------------
(* The page                                                                *)

\* The rows are on the page in the mode "list", unless the list is loading; a row
\* that leaves the page forgets its sample and the request for one.
Bare(p) == [p EXCEPT !.samples = {}, !.sampling = {}]

Mounted == page.mode = "list" /\ ~page.loading
Free == page.drop = {}

\* Mutant of Loading: the rows stay on the page.
LoadingBehind(p) == [p EXCEPT !.excused = \E l \in Loads : loads[l].pc # "idle"]

\* load: the spinner takes the place of the rows.  excused is history: this
\* request and another one were in flight together, or an answer was lost.
Loading(p) ==
  [Bare(p) EXCEPT !.loading = TRUE, !.excused = \E l \in Loads : loads[l].pc # "idle"]

Load(p) ==
  /\ \E l \in Loads : loads[l].pc = "idle" /\ loads' = [loads EXCEPT ![l].pc = "sent"]
  /\ page' = Loading(p)

Refresh ==
  /\ Free /\ Counted
  /\ Load(page)
  /\ UNCHANGED server

\* listViews
ReadList(l) ==
  /\ loads[l].pc = "sent"
  /\ loads' = [loads EXCEPT ![l] = [pc |-> "read", views |-> meta]]
  /\ UNCHANGED <<server, page, events>>

\* The answers of two requests come in any order; the rows that stay keep their
\* samples.
LoadArrives(l) ==
  /\ loads[l].pc = "read"
  /\ loads' = [loads EXCEPT ![l] = NoLoad]
  /\ LET ids == {v.id : v \in loads[l].views}
     IN  page' = [page EXCEPT !.views = loads[l].views, !.loading = FALSE,
                              !.samples = {s \in @ : s.id \in ids},
                              !.sampling = {s \in @ : s.id \in ids}]
  /\ UNCHANGED <<server, events>>

\* The list stays what it was.
LoadFails(l) ==
  /\ loads[l].pc # "idle" /\ Happens("lost")
  /\ loads' = [loads EXCEPT ![l] = NoLoad]
  /\ page' = [page EXCEPT !.loading = FALSE, !.excused = TRUE]
  /\ UNCHANGED server

-----------------------------------------------------------------------------
(* Samples                                                                 *)

\* handleLoadSample: the row's query is run (previewView).
HandleLoadSample(v) ==
  /\ Mounted /\ Free /\ v \in page.views /\ Counted
  /\ \A s \in page.sampling : s.id # v.id
  /\ page' = [page EXCEPT !.samples = {s \in @ : s.id # v.id},
                          !.sampling = @ \cup {[id |-> v.id, sql |-> v.sql]}]
  /\ UNCHANGED <<server, loads>>

\* An answer, or a query that fails because what it reads is gone.
SampleArrives(s) ==
  /\ s \in page.sampling
  /\ page' = [page EXCEPT !.sampling = @ \ {s},
                          !.samples = IF s.sql \subseteq Existing THEN @ \cup {s} ELSE @]
  /\ UNCHANGED <<server, loads, events>>

\* handleToggle, or the cross: the sample is put away.
HandleToggle(s) ==
  /\ Free /\ s \in page.samples
  /\ page' = [page EXCEPT !.samples = @ \ {s}]
  /\ UNCHANGED <<server, loads, events>>

-----------------------------------------------------------------------------
(* Forms and the dialog                                                    *)

OpenCreate ==
  /\ page.mode = "list" /\ Free
  /\ page' = [Bare(page) EXCEPT !.mode = "create", !.target = {}]
  /\ UNCHANGED <<server, loads, events>>

OpenEdit(v) ==
  /\ Mounted /\ Free /\ v \in page.views
  /\ page' = [Bare(page) EXCEPT !.mode = "edit", !.target = {v}]
  /\ UNCHANGED <<server, loads, events>>

\* The button works during a save, too; the request goes on.
Cancel ==
  /\ page.mode # "list" /\ Free
  /\ page' = [page EXCEPT !.mode = "list", !.target = {}, !.form = {}]
  /\ UNCHANGED <<server, loads, events>>

\* A request enters the server: it is alone as long as no other one for the same
\* view and no migration is under way.
Rivals(n) == {c \in Slots : calls[c].pc # "idle" /\ calls[c].name = {n}}

Enter(c, kind, id, n, sql) ==
  /\ Counted /\ At(c, "idle")
  /\ calls' = [d \in Slots |->
       CASE d = c -> [pc |-> IF kind = "create" THEN "ddl" ELSE "find", kind |-> kind,
                      id |-> id, name |-> {n}, sql |-> sql,
                      alone |-> Rivals(n) = {} /\ ~migrating.on]
         [] d \in Rivals(n) -> [calls[d] EXCEPT !.alone = FALSE]
         [] OTHER -> calls[d]]

\* handleSave: one request at a time for a form; the name of an edited view is
\* fixed.
HandleSave(c, n, sql) ==
  /\ page.mode # "list" /\ page.form = {} /\ Free /\ n \notin sql
  /\ IF page.mode = "create" THEN Enter(c, "create", 0, n, sql)
     ELSE \E v \in page.target : v.name = n /\ Enter(c, "update", v.id, n, sql)
  /\ page' = [page EXCEPT !.form = {c}]
  /\ UNCHANGED <<database, migrating, drifted, loads>>

AskDrop(v) ==
  /\ Mounted /\ Free /\ v \in page.views
  /\ page' = [page EXCEPT !.drop = {v}]
  /\ UNCHANGED <<server, loads, events>>

CancelDrop ==
  /\ ~Free /\ page.dropping = {}
  /\ page' = [page EXCEPT !.drop = {}]
  /\ UNCHANGED <<server, loads, events>>

HandleDrop(c) ==
  /\ page.dropping = {}
  /\ \E v \in page.drop : Enter(c, "drop", v.id, v.name, {})
  /\ page' = [page EXCEPT !.dropping = {c}]
  /\ UNCHANGED <<database, migrating, drifted, loads>>

Leave(c) == calls' = [calls EXCEPT ![c] = NoCall]

\* Mutant of Answered: the form of an update stays.
AnsweredInForm(c) ==
  Load(CASE calls[c].kind = "drop"   -> [page EXCEPT !.drop = {}, !.dropping = {}]
         [] calls[c].kind = "create" -> [page EXCEPT !.mode = "list", !.form = {}]
         [] OTHER -> [page EXCEPT !.form = {}, !.target = {}])

\* handleCreate, handleUpdate: the form that is open by now closes, even when it
\* is another one; only an update forgets the target.  handleDrop: the dialog
\* closes.
Answered(c) ==
  Load(CASE calls[c].kind = "drop"   -> [page EXCEPT !.drop = {}, !.dropping = {}]
         [] calls[c].kind = "create" -> [page EXCEPT !.mode = "list", !.form = {}]
         [] OTHER -> [page EXCEPT !.mode = "list", !.form = {}, !.target = {}])

Succeeds(c) ==
  /\ At(c, "ok")
  /\ Answered(c) /\ Leave(c)
  /\ UNCHANGED <<database, migrating, drifted, events>>

\* An error, or an answer that is lost: the form or the dialog stays.
Fails(c) ==
  /\ \/ At(c, "failed") /\ page' = [page EXCEPT !.form = @ \ {c}, !.dropping = @ \ {c}]
        /\ UNCHANGED events
     \/ At(c, "ok") /\ Happens("lost")
        /\ page' = [page EXCEPT !.form = @ \ {c}, !.dropping = @ \ {c}, !.excused = TRUE]
  /\ Leave(c)
  /\ UNCHANGED <<database, migrating, drifted, loads>>

-----------------------------------------------------------------------------
Method(c) ==
  \/ Refuse(c) \/ FindUnique(c) \/ ReplaceView(c) \/ DropView(c)
  \/ Upsert(c) \/ UpdateRow(c) \/ DeleteRow(c) \/ WriteFails(c)

Migrate ==
  \/ \E kind \in {"alter", "drop", "add"}, x \in Columns : ListViews(kind, x)
  \/ CommitMigration \/ Rollback

Rows ==
  \/ \E v \in page.views : HandleLoadSample(v) \/ OpenEdit(v) \/ AskDrop(v)
  \/ \E s \in page.sampling : SampleArrives(s)
  \/ \E s \in page.samples : HandleToggle(s)

List == Refresh \/ \E l \in Loads : ReadList(l) \/ LoadArrives(l) \/ LoadFails(l)

Forms ==
  \/ OpenCreate \/ Cancel \/ CancelDrop
  \/ \E c \in Slots :
       \/ \E n \in ViewNames, sql \in Queries : HandleSave(c, n, sql)
       \/ HandleDrop(c) \/ Succeeds(c) \/ Fails(c)

ViewsNext == (\E c \in Slots : Method(c)) \/ Crash \/ Migrate \/ List \/ Rows \/ Forms

ViewsSpec == ViewsInit /\ [][ViewsNext]_viewsVars

-----------------------------------------------------------------------------
(* Properties                                                              *)

Definitions == [id : Nat, name : ViewNames, sql : Queries]

ViewsTypeOK ==
  /\ columns \subseteq Columns
  /\ live \in [ViewNames -> Queries \cup {{}}]
  /\ meta \subseteq Definitions /\ nextId \in Nat
  /\ \A m, o \in meta : m.id = o.id \/ m.name = o.name => m = o
  /\ calls \in [Slots -> [pc : {"idle", "find", "ddl", "write", "ok", "failed"},
                          kind : {"none", "create", "update", "drop"}, id : Nat,
                          name : SUBSET ViewNames, sql : Queries \cup {{}}, alone : BOOLEAN]]
  /\ migrating.listed \subseteq Definitions /\ drifted \subseteq ViewNames
  /\ loads \in [Loads -> [pc : {"idle", "sent", "read"}, views : SUBSET Definitions]]
  /\ page.views \subseteq Definitions
  /\ page.target \subseteq Definitions /\ (page.mode = "edit" => page.target # {})
  /\ page.samples # {} => Mounted

\* A view that the table lists is live as the table defines it, and one that it
\* does not list is not live: after any history of failed and repeated requests,
\* crashes and migrations, unless the last request for it failed between its two
\* writes or overlapped with another one or with a migration.  The next request
\* for it that is alone and succeeds puts it right again.
TrackedAreLive ==
  \A n \in ViewNames \ drifted :
    (\A c \in Slots : At(c, "write") => calls[c].name # {n}) => live[n] = Tracked(n)

\* The sample that a row shows is of the query that it shows, though the list is
\* fetched anew after every save and its answer finds rows with the same key;
\* unless two answers may have overtaken each other.
SampleFits ==
  ~page.excused =>
    \A s \in page.samples, v \in page.views : v.id = s.id => v.sql = s.sql
-----------------------------------------------------------------------------
(* The inductive invariant                                                 *)

UniqueIds(rows) == \A m, o \in rows : m.id = o.id => m = o
UniqueNames(rows) == \A m, o \in rows : m.name = o.name => m = o

\* The two halves as they are stored; an id is given once.
RowsInv ==
  /\ columns \subseteq Columns /\ live \in [ViewNames -> Queries \cup {{}}]
  /\ meta \subseteq Definitions /\ UniqueIds(meta) /\ UniqueNames(meta)
  /\ nextId \in Nat /\ (\A m \in meta : m.id < nextId)
  /\ drifted \subseteq ViewNames

\* The row of an id, if it is still there, is of the view that it was of.
IsOf(id, names, rows, next) == id < next /\ \A m \in rows : m.id = id => {m.name} = names

CallStates ==
  [pc : {"idle", "find", "ddl", "write", "ok", "failed"},
   kind : {"none", "create", "update", "drop"}, id : Nat,
   name : SUBSET ViewNames, sql : Queries \cup {{}}, alone : BOOLEAN]
CallInv(s, rows, next) ==
  s.pc # "idle" =>
    /\ s.kind # "none" /\ \E n \in ViewNames : s.name = {n}
    /\ IF s.kind = "drop" THEN s.sql = {} ELSE s.sql \in Queries
    /\ s.kind # "create" => IsOf(s.id, s.name, rows, next)
CallsInv == calls \in [Slots -> CallStates] /\ \A c \in Slots : CallInv(calls[c], meta, nextId)

MigratingInv ==
  /\ migrating \in [on : BOOLEAN, listed : SUBSET Definitions,
                    kind : {"none", "alter", "drop", "add"}, column : SUBSET Columns]
  /\ UniqueNames(migrating.listed)

\* What the page and its requests hold was in the table once.
Known(d, rows, next) == d \in Definitions /\ IsOf(d.id, {d.name}, rows, next)

LoadStates == [pc : {"idle", "sent", "read"}, views : SUBSET Definitions]
LoadInv(load, rows, next) ==
  UniqueIds(load.views) /\ \A d \in load.views : Known(d, rows, next)
LoadsInv == loads \in [Loads -> LoadStates] /\ \A l \in Loads : LoadInv(loads[l], meta, nextId)

Samples == [id : Nat, sql : Queries]
Pages ==
  [mode : {"list", "create", "edit"}, target : SUBSET Definitions, form : SUBSET Slots,
   drop : SUBSET Definitions, dropping : SUBSET Slots, views : SUBSET Definitions,
   loading : BOOLEAN, samples : SUBSET Samples, sampling : SUBSET Samples, excused : BOOLEAN]
PageInv(p, rows, next) ==
  /\ p \in Pages /\ (p.mode = "edit" => p.target # {})
  /\ UniqueIds(p.views) /\ \A d \in p.views \cup p.target \cup p.drop : Known(d, rows, next)

\* Samples go with the rows; without an excuse the only request for the list is
\* one that has taken the rows off the page.
Sampled(p) == p.samples \cup p.sampling
Busy(requests) == {l \in Loads : requests[l].pc # "idle"}
SamplesInv(p, busy) ==
  /\ Sampled(p) # {} => p.mode = "list" /\ ~p.loading
  /\ ~p.excused =>
       /\ \A s \in Sampled(p), v \in p.views : v.id = s.id => v.sql = s.sql
       /\ busy # {} => p.loading
       /\ \A k, l \in busy : k = l

\* A request that is alone with its view has nobody beside it; a migration goes
\* by rows that only requests which are not alone have changed since.
Alone(c) ==
  calls[c].pc # "idle" /\ calls[c].alone =>
    /\ ~migrating.on
    /\ \A d \in Slots : d # c /\ calls[d].pc # "idle" => calls[d].name # calls[c].name
    /\ calls[c].pc = "write" => \A n \in calls[c].name : live[n] = calls[c].sql
AloneInv == \A c \in Slots : Alone(c)
ListedInv ==
  migrating.on => \A n \in ViewNames \ drifted : Tracked(n) = SqlOf(n, migrating.listed)

ViewsInv ==
  /\ RowsInv /\ CallsInv /\ MigratingInv /\ LoadsInv
  /\ PageInv(page, meta, nextId) /\ SamplesInv(page, Busy(loads))
  /\ TrackedAreLive /\ AloneInv /\ ListedInv
=============================================================================
