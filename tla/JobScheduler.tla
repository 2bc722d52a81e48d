---------------------------- MODULE JobScheduler ----------------------------
(***************************************************************************)
(* The job scheduler: the documents of the jobs (collection syncjobs) and  *)
(* the cron tasks in the memory of the backend that should do what the     *)
(* documents say.  Every request writes a document and, one await later,   *)
(* replaces a task; requests of several administrators, each with a page   *)
(* that shows an older state, run between each other.                      *)
(*                                                                         *)
(* A job's description is left out, its type and its tables are its work,  *)
(* and lastRunAt is not kept.  What a pipeline does and which mails a job  *)
(* sends is in module Pipeline.                                            *)
(***************************************************************************)
EXTENDS Naturals

CONSTANTS
  Ids,        \* the _ids of documents
  Names,      \* the names of jobs
  Default,    \* nightly-full-sync
  Pages,      \* browsers that have the page of the scheduler open
  Runners,    \* the executions that may be under way at once
  Forms,      \* what an administrator fills in: [name, work, expr]
  Stored,     \* the collections that an older version may have left
  Absent,     \* no document, no task
  MaxRequests, MaxCrashes   \* bounds on the clicks and on the restarts

VARIABLES
  docs,       \* the collection: _id |-> document
  cron,       \* the SchedulerRegistry: name |-> task, with the document it closes over
  fixes,      \* documents whose expression is being corrected in the background
  server,     \* "down", "seeded" or "up"
  request,    \* page |-> the request it waits for
  shown,      \* page |-> _id |-> the switch in the list
  run,        \* runner |-> the execution
  astray,     \* name |-> why its task may differ from the documents (history)
  requests, crashes

vars == <<docs, cron, fixes, server, request, shown, run, astray, requests, crashes>>

-----------------------------------------------------------------------------
Works == {"full", "custom", "empty"}   \* empty: CUSTOM_SYNC without tables
\* short has four fields (0 2 * *), daily is what it is corrected to.
Exprs == {"daily", "hourly", "short", "bad"}
SyncJob == [name : Names, work : Works, expr : Exprs, active : BOOLEAN]
Collections == [Ids -> SyncJob \cup {Absent}]
Task == [id : Ids, doc : SyncJob]

ASSUME DefaultAssumption == Default \in Names
ASSUME FormsAssumption == Forms \subseteq [name : Names, work : Works, expr : Exprs]
ASSUME BoundsAssumption == MaxRequests \in Nat /\ MaxCrashes \in Nat
ASSUME AbsentAssumption == Absent \notin SyncJob /\ Absent \notin Task

\* The unique index on jobName.
UniqueNames(c) ==
  \A i, j \in Ids : c[i] # Absent /\ c[j] # Absent /\ c[i].name = c[j].name => i = j
ASSUME StoredAssumption == Stored \subseteq {c \in Collections : UniqueNames(c)}

NightlyFullSync == [name |-> Default, work |-> "full", expr |-> "daily", active |-> TRUE]

CronTime(expr) == expr \in {"daily", "hourly"}
Normalize(expr) == IF expr = "short" THEN "daily" ELSE expr
Schedulable(doc) == doc.active /\ CronTime(Normalize(doc.expr))

\* The task that registerCronJob leaves under the name of a document.
TaskOf(id, doc) == IF Schedulable(doc) THEN [id |-> id, doc |-> doc] ELSE Absent
NeedsFix(doc) == doc.active /\ doc.expr = "short"

\* The task that belongs under a name.
Owner(c, n) == {i \in Ids : c[i] # Absent /\ c[i].name = n}
Expected(c, n) ==
  IF Owner(c, n) = {} THEN Absent
  ELSE LET i == CHOOSE i \in Owner(c, n) : TRUE IN TaskOf(i, c[i])

\* Two tasks that fire at the same times and do the same.
SameTask(a, b) ==
  IF a = Absent \/ b = Absent THEN a = b
  ELSE /\ a.id = b.id /\ a.doc.work = b.doc.work
       /\ Normalize(a.doc.expr) = Normalize(b.doc.expr)

Request(step, op, id, doc) == [step |-> step, op |-> op, id |-> id, doc |-> doc]
Nothing == Request("none", "none", Absent, Absent)
Requests == {Nothing} \cup
  [step : {"sent", "taken"}, op : {"create"}, id : {Absent}, doc : SyncJob] \cup
  [step : {"sent"}, op : {"update"}, id : Ids, doc : SyncJob] \cup
  [step : {"sent"}, op : {"on", "off", "trigger"}, id : Ids, doc : {Absent}] \cup
  [step : {"register"}, op : {"create", "update", "on", "off"}, id : Ids, doc : SyncJob]
Executions == [id : Ids, work : Works]

Init ==
  /\ docs \in Stored
  /\ cron = [n \in Names |-> Absent]
  /\ fixes = {}
  /\ server = "down"
  /\ request = [p \in Pages |-> Nothing]
  /\ shown = [p \in Pages |-> [i \in Ids |-> Absent]]
  /\ run = [r \in Runners |-> Absent]
  /\ astray = [n \in Names |-> "no"]
  /\ requests = 0
  /\ crashes = 0

-----------------------------------------------------------------------------
(* Start-up and the end of the process.                                    *)

\* The default job is written when no job has its name, a renamed one included.
EnsureDefaultJob ==
  /\ server = "down"
  /\ server' = "seeded"
  /\ IF Owner(docs, Default) # {} THEN docs' = docs
     ELSE \E i \in Ids : docs[i] = Absent /\ docs' = [docs EXCEPT ![i] = NightlyFullSync]
  /\ UNCHANGED <<cron, fixes, request, shown, run, astray, requests, crashes>>

LoadJobs ==
  /\ server = "seeded"
  /\ server' = "up"
  /\ cron' = [n \in Names |-> Expected(docs, n)]
  /\ fixes' = {i \in Ids : docs[i] # Absent /\ NeedsFix(docs[i])}
  /\ astray' = [n \in Names |-> "no"]
  /\ UNCHANGED <<docs, request, shown, run, requests, crashes>>

Crash ==
  /\ server = "up" /\ crashes < MaxCrashes
  /\ server' = "down"
  /\ crashes' = crashes + 1
  /\ cron' = [n \in Names |-> Absent]
  /\ fixes' = {}
  /\ astray' = [n \in Names |-> "no"]
  /\ request' = [p \in Pages |-> Nothing]
  /\ run' = [r \in Runners |-> Absent]
  /\ UNCHANGED <<docs, shown, requests>>

-----------------------------------------------------------------------------
(* The page.                                                               *)

Ask(op, id, doc) == Request("sent", op, id, doc)
Send(p, r) ==
  /\ request[p] = Nothing /\ requests < MaxRequests
  /\ requests' = requests + 1
  /\ request' = [request EXCEPT ![p] = r]
  /\ UNCHANGED <<docs, cron, fixes, server, run, astray, crashes>>

\* The jobs in the list of the page.
Listed(p) == {i \in Ids : shown[p][i] # Absent}

\* The switch asks for the opposite of what the list shows.
HandleToggle(p, id) ==
  /\ id \in Listed(p)
  /\ Send(p, Ask(IF shown[p][id] THEN "off" ELSE "on", id, Absent))
  /\ UNCHANGED shown

HandleRunNow(p, id) ==
  /\ id \in Listed(p)
  /\ Send(p, Ask("trigger", id, Absent))
  /\ UNCHANGED shown

\* The dialog sends the job with isActive as the list had it; a new job is
\* active.  A custom job needs a table.
InitialActive(p, id) == IF id = Absent THEN TRUE ELSE shown[p][id]
Dialog(p, id, input) ==
  [name |-> input.name, work |-> input.work, expr |-> input.expr,
   active |-> InitialActive(p, id)]
HandleSave(p, id, input) ==
  /\ id \in Listed(p) \cup {Absent}
  /\ input.work # "empty"
  /\ Send(p, Ask(IF id = Absent THEN "create" ELSE "update", id, Dialog(p, id, input)))
  /\ UNCHANGED shown

\* When the page is opened and behind every good answer; how late the list is,
\* and whether one of its two answers is an error, is left open.
FetchJobs(p) ==
  /\ server = "up"
  /\ shown' = [shown EXCEPT ![p] =
       [i \in Ids |-> IF docs[i] = Absent THEN Absent ELSE docs[i].active]]
  /\ UNCHANGED <<docs, cron, fixes, server, request, run, astray, requests, crashes>>

Answer(p) ==
  /\ request' = [request EXCEPT ![p] = Nothing]
  /\ UNCHANGED <<shown, requests, crashes>>

-----------------------------------------------------------------------------
(* The handlers.                                                           *)

At(p, step, ops) == server = "up" /\ request[p].step = step /\ request[p].op \in ops

\* An invalid expression, a lost connection, a job that is not there or a name
\* that another job has: nothing is written.
Refuse(p) ==
  /\ server = "up" /\ request[p].step \in {"sent", "taken"}
  /\ Answer(p)
  /\ UNCHANGED <<docs, cron, fixes, server, run, astray>>

\* The write of a handler; its continuation works on the document of the answer.
Written(p, id, doc) ==
  /\ docs' = [docs EXCEPT ![id] = doc]
  /\ request' = [request EXCEPT ![p] = Request("register", request[p].op, id, doc)]
  /\ UNCHANGED <<cron, fixes, server, shown, run, requests, crashes>>

CreateJob(p) ==
  /\ At(p, "sent", {"create"})
  /\ CronTime(request[p].doc.expr)
  /\ IF Owner(docs, request[p].doc.name) = {}
     THEN /\ \E i \in Ids : docs[i] = Absent /\ Written(p, i, request[p].doc)
          /\ UNCHANGED astray
     ELSE /\ request' = [request EXCEPT ![p] = Request("taken", "create", Absent, request[p].doc)]
          /\ UNCHANGED <<docs, cron, fixes, server, shown, run, astray, requests, crashes>>

\* The name is taken: the job that has it is read and registered once more.
FindExistingJob(p) ==
  /\ At(p, "taken", {"create"})
  /\ \E i \in Owner(docs, request[p].doc.name) :
       request' = [request EXCEPT ![p] = Request("register", "create", i, docs[i])]
  /\ UNCHANGED <<docs, cron, fixes, server, shown, run, astray, requests, crashes>>

\* A job that gets a new name leaves the task of the old one behind.
UpdateJob(p) ==
  LET id == request[p].id
      doc == request[p].doc
      old == docs[id].name IN
  /\ At(p, "sent", {"update"})
  /\ CronTime(doc.expr)
  /\ docs[id] # Absent
  /\ Owner(docs, doc.name) \subseteq {id}
  /\ Written(p, id, doc)
  /\ astray' = IF doc.name = old \/ cron[old] = Absent THEN astray
               ELSE [astray EXCEPT ![old] = "renamed"]

ToggleJobActive(p) ==
  /\ At(p, "sent", {"on", "off"})
  /\ docs[request[p].id] # Absent
  /\ Written(p, request[p].id, [docs[request[p].id] EXCEPT !.active = (request[p].op = "on")])
  /\ UNCHANGED astray

\* Mutant of RegisterCronJob: an inactive job returns before the old task is deleted.
RegisterActiveOnly(p) ==
  LET id == request[p].id
      doc == request[p].doc IN
  /\ At(p, "register", {"create", "update", "on", "off"})
  /\ cron' = IF Schedulable(doc) THEN [cron EXCEPT ![doc.name] = TaskOf(id, doc)] ELSE cron
  /\ fixes' = IF NeedsFix(doc) THEN fixes \cup {id} ELSE fixes
  /\ astray' = [astray EXCEPT ![doc.name] =
       IF SameTask(TaskOf(id, doc), Expected(docs, doc.name)) THEN "no" ELSE "overtaken"]
  /\ Answer(p)
  /\ UNCHANGED <<docs, server, run>>
\* registerCronJob, or deleteCronJob when the job is switched off.
RegisterCronJob(p) ==
  LET id == request[p].id
      doc == request[p].doc
      n == doc.name
      task == TaskOf(id, doc) IN
  /\ At(p, "register", {"create", "update", "on", "off"})
  /\ cron' = [cron EXCEPT ![n] = task]
  /\ fixes' = IF NeedsFix(doc) THEN fixes \cup {id} ELSE fixes
  /\ astray' = [astray EXCEPT ![n] = IF SameTask(task, Expected(docs, n)) THEN "no" ELSE "overtaken"]
  /\ Answer(p)
  /\ UNCHANGED <<docs, server, run>>

\* The background write sets the expression that was corrected, whatever the
\* document says by now.
PersistFix(id) ==
  /\ server = "up" /\ id \in fixes /\ docs[id] # Absent
  /\ fixes' = fixes \ {id}
  /\ \/ UNCHANGED <<docs, astray>>                     \* a warning
     \/ /\ docs' = [docs EXCEPT ![id].expr = "daily"]
        /\ astray' = IF docs[id].expr \in {"short", "daily"} THEN astray
                     ELSE [astray EXCEPT ![docs[id].name] = "corrected"]
  /\ UNCHANGED <<cron, server, request, shown, run, requests, crashes>>

-----------------------------------------------------------------------------
(* Executions.  Nothing keeps two executions of a job apart.               *)

Execute(r, id, doc) ==
  /\ run[r] = Absent
  /\ run' = [run EXCEPT ![r] = [id |-> id, work |-> doc.work]]

\* Mutant of OnTick: the task fires once and is gone.
OnTickOnce(n, r) ==
  /\ server = "up" /\ cron[n] # Absent
  /\ Execute(r, cron[n].id, cron[n].doc)
  /\ cron' = [cron EXCEPT ![n] = Absent]
  /\ UNCHANGED <<docs, fixes, server, request, shown, astray, requests, crashes>>
OnTick(n, r) ==
  /\ server = "up" /\ cron[n] # Absent
  /\ Execute(r, cron[n].id, cron[n].doc)
  /\ UNCHANGED <<docs, cron, fixes, server, request, shown, astray, requests, crashes>>

TriggerJobManually(p, r) ==
  /\ At(p, "sent", {"trigger"})
  /\ docs[request[p].id] # Absent
  /\ Execute(r, request[p].id, docs[request[p].id])
  /\ Answer(p)
  /\ UNCHANGED <<docs, cron, fixes, server, astray>>

\* The pipeline returns or throws; a job without tables does nothing.
ExecuteJobLogic(r) ==
  /\ run[r] # Absent
  /\ run' = [run EXCEPT ![r] = Absent]
  /\ UNCHANGED <<docs, cron, fixes, server, request, shown, astray, requests, crashes>>

-----------------------------------------------------------------------------
PageStep(p) ==
  \/ \E id \in Ids : HandleToggle(p, id) \/ HandleRunNow(p, id)
  \/ \E id \in Ids \cup {Absent}, input \in Forms : HandleSave(p, id, input)
  \/ FetchJobs(p)

Handler(p) ==
  \/ CreateJob(p) \/ FindExistingJob(p) \/ UpdateJob(p) \/ ToggleJobActive(p)
  \/ RegisterCronJob(p)
  \/ \E r \in Runners : TriggerJobManually(p, r)

Next ==
  \/ EnsureDefaultJob \/ LoadJobs \/ Crash
  \/ \E p \in Pages : PageStep(p) \/ Handler(p) \/ Refuse(p)
  \/ \E id \in Ids : PersistFix(id)
  \/ \E n \in Names, r \in Runners : OnTick(n, r)
  \/ \E r \in Runners : ExecuteJobLogic(r)

\* A process that starts comes up, handlers and executions get on, and the hour
\* of a task comes again and again.
Fairness ==
  /\ WF_vars(EnsureDefaultJob) /\ WF_vars(LoadJobs)
  /\ \A p \in Pages : WF_vars(RegisterCronJob(p))
  /\ \A r \in Runners : WF_vars(ExecuteJobLogic(r))
  /\ \A n \in Names : SF_vars(\E r \in Runners : OnTick(n, r))

Spec == Init /\ [][Next]_vars
FairSpec == Spec /\ Fairness

-----------------------------------------------------------------------------
TypeOK ==
  /\ docs \in Collections
  /\ cron \in [Names -> Task \cup {Absent}]
  /\ fixes \subseteq Ids
  /\ server \in {"down", "seeded", "up"}
  /\ request \in [Pages -> Requests]
  /\ shown \in [Pages -> [Ids -> BOOLEAN \cup {Absent}]]
  /\ run \in [Runners -> Executions \cup {Absent}]
  /\ astray \in [Names -> {"no", "renamed", "overtaken", "corrected"}]
  /\ requests \in 0 .. MaxRequests
  /\ crashes \in 0 .. MaxCrashes

\* A handler has written a document of this name and not yet set its task.
Pending(n) == \E p \in Pages : request[p].step = "register" /\ request[p].doc.name = n

\* The cron table follows the documents: between the requests a name has a task
\* exactly if an active job has that name, and the task is that job's, with its
\* times and its work.  There are three ways out of step, which astray records:
\* the old name of a renamed job, a registration with a document that another
\* request had replaced, and a late correction of the expression; the next
\* registration under the name, or a restart, ends each of them.
TasksFollowDocuments ==
  server = "up" =>
    \A n \in Names : \/ astray[n] # "no" \/ Pending(n)
                     \/ SameTask(cron[n], Expected(docs, n))

Active(id) ==
  /\ docs[id] # Absent /\ Schedulable(docs[id])
  /\ astray[docs[id].name] = "no"
Executing(id) == \E r \in Runners : run[r] # Absent /\ run[r].id = id
\* A job that stays active is executed again and again, with crashes of the
\* backend and whatever other jobs and administrators do.
JobsKeepRunning == \A id \in Ids : <>[]Active(id) => []<>Executing(id)
=============================================================================
