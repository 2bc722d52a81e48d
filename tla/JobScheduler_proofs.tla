------------------------ MODULE JobScheduler_proofs ------------------------
(***************************************************************************)
(* Proofs about the job scheduler: typing, and that the cron table follows *)
(* the documents.                                                          *)
(***************************************************************************)
EXTENDS JobScheduler, TLAPS



Causes == {"no", "renamed", "overtaken", "corrected"}

\* The parts of TypeOK that most actions leave alone.
StoreType == docs \in Collections /\ cron \in [Names -> Task \cup {Absent}] /\ fixes \subseteq Ids
RequestType == request \in [Pages -> Requests]
ShownType == shown \in [Pages -> [Ids -> BOOLEAN \cup {Absent}]]
RunType == run \in [Runners -> Executions \cup {Absent}]
AstrayType == astray \in [Names -> Causes]
BoundType == /\ server \in {"down", "seeded", "up"}
             /\ requests \in 0 .. MaxRequests /\ crashes \in 0 .. MaxCrashes

USE DEF Works, Exprs

LEMMA TypeParts ==
  /\ TypeOK <=> StoreType /\ RequestType /\ ShownType /\ RunType /\ AstrayType /\ BoundType
  /\ StoreType' /\ RequestType' /\ ShownType' /\ RunType' /\ AstrayType' /\ BoundType' => TypeOK'
BY DEF TypeOK, StoreType, RequestType, ShownType, RunType, AstrayType, BoundType, Causes

LEMMA NightlyType == NightlyFullSync \in SyncJob
BY DefaultAssumption DEF NightlyFullSync, SyncJob

LEMMA TaskType ==
  ASSUME NEW id \in Ids, NEW doc \in SyncJob
  PROVE  TaskOf(id, doc) \in Task \cup {Absent}
BY DEF TaskOf, Task

LEMMA ExpectedType ==
  ASSUME NEW c \in Collections, NEW n \in Names
  PROVE  Expected(c, n) \in Task \cup {Absent}
<1>1. CASE Owner(c, n) = {}
  BY <1>1 DEF Expected
<1>2. CASE Owner(c, n) # {}
  <2> DEFINE i == CHOOSE i \in Owner(c, n) : TRUE
  <2>1. i \in Owner(c, n)
    BY <1>2
  <2>2. i \in Ids /\ c[i] # Absent
    BY <2>1 DEF Owner
  <2>3. c[i] \in SyncJob
    BY <2>2 DEF Collections
  <2>4. Expected(c, n) = TaskOf(i, c[i])
    BY <1>2 DEF Expected
  <2> HIDE DEF i
  <2> QED
    BY <2>2, <2>3, <2>4, TaskType
<1> QED
  BY <1>1, <1>2

LEMMA PutType ==
  ASSUME NEW c \in Collections, NEW id \in Ids, NEW doc \in SyncJob
  PROVE  [c EXCEPT ![id] = doc] \in Collections
BY DEF Collections

LEMMA NothingType == Nothing \in Requests
BY DEF Requests, Nothing, Request

\* What a page may ask for.
LEMMA ClickType ==
  ASSUME NEW id \in Ids, NEW op \in {"on", "off", "trigger"}
  PROVE  Ask(op, id, Absent) \in Requests
BY DEF Ask, Request, Requests

LEMMA SaveType ==
  ASSUME NEW doc \in SyncJob
  PROVE  /\ Ask("create", Absent, doc) \in Requests
         /\ \A id \in Ids : Ask("update", id, doc) \in Requests
         /\ Request("taken", "create", Absent, doc) \in Requests
BY DEF Ask, Request, Requests

\* A request in the hands of the server, by its step and operation.
LEMMA RequestFacts ==
  ASSUME NEW r \in Requests
  PROVE  /\ r.step \in {"none", "sent", "taken", "register"}
         /\ r.op \in {"create", "update"} => r.doc \in SyncJob
         /\ r.op \in {"on", "off", "trigger"} => r.id \in Ids
         /\ r.step = "register" => r.doc \in SyncJob /\ r.id \in Ids
                                   /\ r.op \in {"create", "update", "on", "off"}
         /\ r.op = "update" => r.id \in Ids
BY DEF Requests, Nothing, Request

LEMMA MovedType ==
  ASSUME NEW id \in Ids, NEW doc \in SyncJob, NEW op \in {"create", "update", "on", "off"}
  PROVE  Request("register", op, id, doc) \in Requests
BY DEF Request, Requests

-----------------------------------------------------------------------------
(* Typing.                                                                 *)

LEMMA InitType == Init => TypeOK
<1> SUFFICES ASSUME Init PROVE TypeOK
  OBVIOUS
<1>1. docs \in Collections
  BY StoredAssumption DEF Init
<1> QED
  BY <1>1, NothingType, BoundsAssumption DEF Init, TypeOK

LEMMA StartType ==
  ASSUME TypeOK, EnsureDefaultJob \/ LoadJobs \/ Crash
  PROVE  TypeOK'
<1> USE TypeParts
<1>1. CASE EnsureDefaultJob
  <2>1. docs' \in Collections
    BY <1>1, NightlyType, PutType DEF EnsureDefaultJob, StoreType
  <2> QED
    BY <1>1, <2>1 DEF EnsureDefaultJob, StoreType, RequestType, ShownType, RunType, AstrayType, BoundType
<1>2. CASE LoadJobs
  <2>1. cron' \in [Names -> Task \cup {Absent}]
    BY <1>2, ExpectedType DEF LoadJobs, StoreType
  <2> QED
    BY <1>2, <2>1 DEF LoadJobs, StoreType, RequestType, ShownType, RunType, AstrayType, BoundType, Causes
<1>3. CASE Crash
  BY <1>3, NothingType, BoundsAssumption
     DEF Crash, StoreType, RequestType, ShownType, RunType, AstrayType, BoundType, Causes
<1> QED
  BY <1>1, <1>2, <1>3

LEMMA SendType ==
  ASSUME TypeOK, NEW p \in Pages, NEW r \in Requests, Send(p, r), UNCHANGED shown
  PROVE  TypeOK'
BY TypeParts, BoundsAssumption
   DEF Send, StoreType, RequestType, ShownType, RunType, AstrayType, BoundType

LEMMA PageStepType ==
  ASSUME TypeOK, NEW p \in Pages, PageStep(p)
  PROVE  TypeOK'
<1>1. ASSUME NEW id \in Ids, HandleToggle(p, id) \/ HandleRunNow(p, id)
      PROVE  TypeOK'
  <2>1. PICK op \in {"on", "off", "trigger"} : Send(p, Ask(op, id, Absent)) /\ UNCHANGED shown
    BY <1>1 DEF HandleToggle, HandleRunNow
  <2> QED
    BY <2>1, SendType, ClickType
<1>2. ASSUME NEW id \in Ids \cup {Absent}, NEW input \in Forms, HandleSave(p, id, input)
      PROVE  TypeOK'
  <2>1. Dialog(p, id, input) \in SyncJob
    <3>1. input.name \in Names /\ input.work \in Works /\ input.expr \in Exprs
      BY FormsAssumption
    <3>2. id # Absent => shown[p][id] \in BOOLEAN
      BY <1>2, TypeParts DEF HandleSave, Listed, ShownType
    <3> QED
      BY <3>1, <3>2 DEF Dialog, InitialActive, SyncJob
  <2> QED
    BY <1>2, <2>1, SendType, SaveType DEF HandleSave, Listed
<1>3. CASE FetchJobs(p)
  <2>1. [i \in Ids |-> IF docs[i] = Absent THEN Absent ELSE docs[i].active]
          \in [Ids -> BOOLEAN \cup {Absent}]
    BY TypeParts DEF StoreType, Collections, SyncJob
  <2>2. ShownType'
    BY <1>3, <2>1, TypeParts DEF FetchJobs, ShownType
  <2> QED
    BY <1>3, <2>2, TypeParts DEF FetchJobs, StoreType, RequestType, RunType, AstrayType, BoundType
<1> QED
  BY <1>1, <1>2, <1>3 DEF PageStep

LEMMA AnswerType ==
  ASSUME TypeOK, NEW p \in Pages, Answer(p)
  PROVE  RequestType' /\ ShownType'
BY TypeParts, NothingType DEF Answer, RequestType, ShownType

LEMMA WrittenType ==
  ASSUME TypeOK, NEW p \in Pages, NEW id \in Ids, NEW doc \in SyncJob,
         request[p].op \in {"create", "update", "on", "off"}, Written(p, id, doc),
         astray' \in [Names -> Causes]
  PROVE  TypeOK'
<1>1. StoreType'
  BY TypeParts, PutType DEF Written, StoreType
<1>2. RequestType'
  BY TypeParts, MovedType DEF Written, RequestType
<1> QED
  BY <1>1, <1>2, TypeParts DEF Written, ShownType, RunType, AstrayType, BoundType

LEMMA HandlerType ==
  ASSUME TypeOK, NEW p \in Pages, Handler(p) \/ Refuse(p)
  PROVE  TypeOK'
<1>0. request[p] \in Requests
  BY TypeParts DEF RequestType
<1>1. CASE Refuse(p)
  BY <1>1, AnswerType, TypeParts DEF Refuse, Answer, StoreType, RunType, AstrayType, BoundType
<1>2. CASE CreateJob(p)
  <2>1. request[p].op = "create" /\ request[p].doc \in SyncJob
    BY <1>0, <1>2, RequestFacts DEF CreateJob, At
  <2>2. CASE Owner(docs, request[p].doc.name) = {}
    BY <1>2, <2>1, <2>2, WrittenType, TypeParts DEF CreateJob, AstrayType
  <2>3. CASE Owner(docs, request[p].doc.name) # {}
    <3>1. RequestType'
      BY <1>2, <2>1, <2>3, SaveType, TypeParts DEF CreateJob, RequestType
    <3> QED
      BY <1>2, <2>3, <3>1, TypeParts DEF CreateJob, StoreType, ShownType, RunType, AstrayType, BoundType
  <2> QED
    BY <2>2, <2>3
<1>3. CASE FindExistingJob(p)
  <2>1. PICK i \in Owner(docs, request[p].doc.name) :
          request' = [request EXCEPT ![p] = Request("register", "create", i, docs[i])]
    BY <1>3 DEF FindExistingJob
  <2>2. i \in Ids /\ docs[i] \in SyncJob
    BY TypeParts DEF Owner, StoreType, Collections
  <2>3. RequestType'
    BY <2>1, <2>2, MovedType, TypeParts DEF RequestType
  <2> QED
    BY <1>3, <2>3, TypeParts DEF FindExistingJob, StoreType, ShownType, RunType, AstrayType, BoundType
<1>4. CASE UpdateJob(p)
  <2>1. /\ request[p].op = "update" /\ request[p].doc \in SyncJob
        /\ request[p].id \in Ids
    BY <1>0, <1>4, RequestFacts DEF UpdateJob, At
  <2> QED
    BY <1>4, <2>1, WrittenType, TypeParts DEF UpdateJob, AstrayType, Causes
<1>5. CASE ToggleJobActive(p)
  <2>1. request[p].op \in {"on", "off"} /\ request[p].id \in Ids
    BY <1>0, <1>5, RequestFacts DEF ToggleJobActive, At
  <2>2. docs[request[p].id] \in SyncJob
    BY <1>5, <2>1, TypeParts DEF ToggleJobActive, StoreType, Collections
  <2>3. [docs[request[p].id] EXCEPT !.active = (request[p].op = "on")] \in SyncJob
    BY <2>2 DEF SyncJob
  <2> QED
    BY <1>5, <2>1, <2>3, WrittenType, TypeParts DEF ToggleJobActive, AstrayType
<1>6. CASE RegisterCronJob(p)
  <2>1. request[p].id \in Ids /\ request[p].doc \in SyncJob
    BY <1>0, <1>6, RequestFacts DEF RegisterCronJob, At
  <2>2. StoreType'
    BY <1>6, <2>1, TaskType, TypeParts DEF RegisterCronJob, StoreType
  <2>3. AstrayType'
    BY <1>6, TypeParts DEF RegisterCronJob, AstrayType, Causes
  <2> QED
    BY <1>6, <2>2, <2>3, AnswerType, TypeParts DEF RegisterCronJob, Answer, RunType, BoundType
<1>7. ASSUME NEW r \in Runners, TriggerJobManually(p, r)
      PROVE  TypeOK'
  <2>1. request[p].id \in Ids
    BY <1>0, <1>7, RequestFacts DEF TriggerJobManually, At
  <2>2. docs[request[p].id] \in SyncJob
    BY <1>7, <2>1, TypeParts DEF TriggerJobManually, StoreType, Collections
  <2>3. RunType'
    BY <1>7, <2>1, <2>2, TypeParts DEF TriggerJobManually, Execute, RunType, Executions, SyncJob
  <2> QED
    BY <1>7, <2>3, AnswerType, TypeParts
       DEF TriggerJobManually, Answer, StoreType, AstrayType, BoundType
<1> QED
  BY <1>1, <1>2, <1>3, <1>4, <1>5, <1>6, <1>7 DEF Handler

LEMMA OtherType ==
  ASSUME TypeOK,
         \/ \E id \in Ids : PersistFix(id)
         \/ \E n \in Names, r \in Runners : OnTick(n, r)
         \/ \E r \in Runners : ExecuteJobLogic(r)
  PROVE  TypeOK'
<1>1. ASSUME NEW id \in Ids, PersistFix(id)
      PROVE  TypeOK'
  <2>1. docs[id] \in SyncJob
    BY <1>1, TypeParts DEF PersistFix, StoreType, Collections
  <2>2. [docs EXCEPT ![id].expr = "daily"] = [docs EXCEPT ![id] = [docs[id] EXCEPT !.expr = "daily"]]
    BY TypeParts DEF StoreType, Collections
  <2>3. [docs[id] EXCEPT !.expr = "daily"] \in SyncJob
    BY <2>1 DEF SyncJob
  <2>4. docs' \in Collections
    BY <1>1, <2>2, <2>3, PutType, TypeParts DEF PersistFix, StoreType
  <2> QED
    BY <1>1, <2>4, TypeParts
       DEF PersistFix, StoreType, RequestType, ShownType, RunType, AstrayType, BoundType, Causes
<1>2. ASSUME NEW n \in Names, NEW r \in Runners, OnTick(n, r)
      PROVE  TypeOK'
  <2>1. cron[n].id \in Ids /\ cron[n].doc.work \in Works
    BY <1>2, TypeParts DEF OnTick, StoreType, Task, SyncJob
  <2>2. RunType'
    BY <1>2, <2>1, TypeParts DEF OnTick, Execute, RunType, Executions
  <2> QED
    BY <1>2, <2>2, TypeParts DEF OnTick, StoreType, RequestType, ShownType, AstrayType, BoundType
<1>3. ASSUME NEW r \in Runners, ExecuteJobLogic(r)
      PROVE  TypeOK'
  BY <1>3, TypeParts
     DEF ExecuteJobLogic, StoreType, RequestType, ShownType, RunType, AstrayType, BoundType
<1> QED
  BY <1>1, <1>2, <1>3

\* Stuttering steps.
LEMMA StutterType == ASSUME TypeOK, UNCHANGED vars PROVE TypeOK'
BY DEF TypeOK, vars

\* Documents, tasks, requests and lists keep their types, for any number of jobs,
\* pages and executions.
THEOREM SchedulerTypeCorrect == Spec => []TypeOK
<1>1. TypeOK /\ [Next]_vars => TypeOK'
  BY StartType, PageStepType, HandlerType, OtherType, StutterType DEF Next
<1> QED
  BY <1>1, InitType, PTL DEF Spec

-----------------------------------------------------------------------------
(* The cron table follows the documents.                                   *)

SchedulerInv == TypeOK /\ UniqueNames(docs) /\ TasksFollowDocuments

\* A name that neither version of the written document has keeps its task.
LEMMA WriteElsewhere ==
  ASSUME NEW c \in Collections, NEW id \in Ids, NEW doc \in SyncJob, NEW n \in Names,
         n # doc.name, c[id] = Absent \/ c[id].name # n
  PROVE  Expected([c EXCEPT ![id] = doc], n) = Expected(c, n)
<1> DEFINE d == [c EXCEPT ![id] = doc]
<1>1. \A i \in Ids : d[i] = IF i = id THEN doc ELSE c[i]
  BY DEF Collections
<1>2. doc # Absent
  BY AbsentAssumption
<1> HIDE DEF d
<1>3. Owner(d, n) = Owner(c, n)
  BY <1>1, <1>2 DEF Owner
<1>4. \A i \in Owner(c, n) : d[i] = c[i]
  BY <1>1 DEF Owner
<1>5. CASE Owner(c, n) = {}
  BY <1>3, <1>5 DEF Expected, d
<1>6. CASE Owner(c, n) # {}
  <2> DEFINE k == CHOOSE i \in Owner(c, n) : TRUE
  <2>1. k \in Owner(c, n)
    BY <1>6
  <2>2. Expected(c, n) = TaskOf(k, c[k])
    BY <1>6 DEF Expected
  <2>3. Expected(d, n) = TaskOf(k, d[k])
    BY <1>3, <1>6 DEF Expected
  <2> HIDE DEF k
  <2> QED
    BY <1>4, <2>1, <2>2, <2>3 DEF d
<1> QED
  BY <1>5, <1>6

\* The only owner of a name, and the task that it asks for.
LEMMA OwnerTask ==
  ASSUME NEW c \in Collections, UniqueNames(c), NEW i \in Ids, c[i] # Absent
  PROVE  /\ Owner(c, c[i].name) = {i}
         /\ Expected(c, c[i].name) = TaskOf(i, c[i])
<1>1. Owner(c, c[i].name) = {i}
  BY DEF Owner, UniqueNames
<1> QED
  BY <1>1 DEF Expected

\* A job that takes another name leaves no task to its old one.
LEMMA RenamedTask ==
  ASSUME NEW c \in Collections, UniqueNames(c), NEW id \in Ids, NEW doc \in SyncJob,
         c[id] # Absent, c[id].name # doc.name
  PROVE  Expected([c EXCEPT ![id] = doc], c[id].name) = Absent
<1> DEFINE d == [c EXCEPT ![id] = doc]
<1>1. \A i \in Ids : d[i] = IF i = id THEN doc ELSE c[i]
  BY DEF Collections
<1> HIDE DEF d
<1>2. Owner(d, c[id].name) = {}
  BY <1>1 DEF Owner, UniqueNames
<1> QED
  BY <1>2 DEF Expected, d

\* A document that takes a free name, or keeps its own, keeps the names unique.
LEMMA WriteUnique ==
  ASSUME NEW c \in Collections, UniqueNames(c), NEW id \in Ids, NEW doc \in SyncJob,
         Owner(c, doc.name) \subseteq {id}
  PROVE  UniqueNames([c EXCEPT ![id] = doc])
<1> DEFINE d == [c EXCEPT ![id] = doc]
<1>1. \A i \in Ids : d[i] = IF i = id THEN doc ELSE c[i]
  BY DEF Collections
<1>2. \A i \in Ids : i # id => c[i] = Absent \/ c[i].name # doc.name
  BY DEF Owner
<1> HIDE DEF d
<1>3. UniqueNames(d)
  BY <1>1, <1>2 DEF UniqueNames
<1> QED
  BY <1>3 DEF d

LEMMA SameTaskFacts ==
  /\ \A a : SameTask(a, a)
  /\ \A a, b, c : SameTask(a, b) /\ SameTask(b, c) => SameTask(a, c)
BY DEF SameTask

\* The correction of an expression changes no task.
LEMMA FixedTask ==
  ASSUME NEW id \in Ids, NEW doc \in SyncJob, doc.expr \in {"short", "daily"}
  PROVE  SameTask(TaskOf(id, doc), TaskOf(id, [doc EXCEPT !.expr = "daily"]))
<1> DEFINE fixed == [doc EXCEPT !.expr = "daily"]
<1>1. /\ fixed \in SyncJob
      /\ fixed.active = doc.active /\ fixed.work = doc.work /\ fixed.expr = "daily"
  BY DEF SyncJob
<1> HIDE DEF fixed
<1>2. Normalize(doc.expr) = "daily" /\ Normalize(fixed.expr) = "daily"
  BY <1>1 DEF Normalize
<1>3. Schedulable(doc) <=> Schedulable(fixed)
  BY <1>1, <1>2 DEF Schedulable
<1>4. SameTask(TaskOf(id, doc), TaskOf(id, fixed))
  <2>1. CASE Schedulable(doc)
    <3>1. /\ [id |-> id, doc |-> doc] # Absent
          /\ [id |-> id, doc |-> fixed] # Absent
      BY <1>1, AbsentAssumption DEF Task
    <3>2. /\ TaskOf(id, doc) = [id |-> id, doc |-> doc]
          /\ TaskOf(id, fixed) = [id |-> id, doc |-> fixed]
      BY <1>3, <2>1 DEF TaskOf
    <3> QED
      BY <1>1, <1>2, <3>1, <3>2 DEF SameTask
  <2>2. CASE ~Schedulable(doc)
    BY <1>3, <2>2 DEF TaskOf, SameTask
  <2> QED
    BY <2>1, <2>2
<1> QED
  BY <1>4 DEF fixed

\* What holds behind a write: the written name waits for its registration, the
\* name that was given up is astray if it had a task, and the others have theirs.
LEMMA WrittenFollows ==
  ASSUME SchedulerInv, TypeOK', server = "up", NEW p \in Pages, NEW id \in Ids, NEW doc \in SyncJob,
         request[p].step # "register", Written(p, id, doc),
         Owner(docs, doc.name) \subseteq {id},
         \A n \in Names : astray'[n] = "no" =>
           /\ astray[n] = "no"
           /\ docs[id] = Absent \/ docs[id].name # n \/ n = doc.name \/ cron[n] = Absent
  PROVE  SchedulerInv'
<1>1. docs \in Collections /\ docs' = [docs EXCEPT ![id] = doc]
  BY TypeParts DEF SchedulerInv, StoreType, Written
<1>2. UniqueNames(docs')
  BY <1>1, WriteUnique DEF SchedulerInv
<1>3. /\ request'[p] = Request("register", request[p].op, id, doc)
      /\ \A q \in Pages : q # p => request'[q] = request[q]
  BY TypeParts DEF SchedulerInv, RequestType, Written
<1>4. ASSUME NEW n \in Names, astray'[n] = "no", ~Pending(n)'
      PROVE  SameTask(cron[n], Expected(docs', n))
  <2>1. n # doc.name
    BY <1>3, <1>4 DEF Pending, Request
  <2>2. ~Pending(n)
    BY <1>3, <1>4 DEF Pending
  <2>3. SameTask(cron[n], Expected(docs, n))
    BY <1>4, <2>2 DEF SchedulerInv, TasksFollowDocuments
  <2>4. CASE docs[id] = Absent \/ docs[id].name # n
    BY <1>1, <2>1, <2>3, <2>4, WriteElsewhere
  <2>5. CASE docs[id] # Absent /\ docs[id].name = n
    <3>1. cron[n] = Absent
      BY <1>4, <2>1, <2>5
    <3>2. Expected(docs', n) = Absent
      BY <1>1, <2>1, <2>5, RenamedTask DEF SchedulerInv
    <3> QED
      BY <3>1, <3>2, SameTaskFacts
  <2> QED
    BY <2>4, <2>5
<1>5. cron' = cron
  BY DEF Written
<1> QED
  BY <1>2, <1>4, <1>5 DEF SchedulerInv, TasksFollowDocuments

\* A step that leaves documents, tasks and astray alone, and ends no registration.
LEMMA QuietStep ==
  ASSUME SchedulerInv, TypeOK', UNCHANGED <<docs, cron, astray, server>>,
         \A n \in Names : Pending(n) => Pending(n)'
  PROVE  SchedulerInv'
<1>1. TasksFollowDocuments'
  BY DEF SchedulerInv, TasksFollowDocuments
<1> QED
  BY <1>1 DEF SchedulerInv

\* The request of a page that is not registering may change.
LEMMA PendingKept ==
  ASSUME TypeOK, NEW p \in Pages, NEW r, request' = [request EXCEPT ![p] = r],
         request[p].step # "register"
  PROVE  \A n \in Names : Pending(n) => Pending(n)'
<1>1. \A q \in Pages : q # p => request'[q] = request[q]
  BY TypeParts DEF RequestType
<1> QED
  BY <1>1 DEF Pending

LEMMA InitFollows == Init => SchedulerInv
<1> SUFFICES ASSUME Init PROVE SchedulerInv
  OBVIOUS
<1>1. UniqueNames(docs)
  BY StoredAssumption DEF Init
<1> QED
  BY <1>1, InitType DEF Init, SchedulerInv, TasksFollowDocuments

LEMMA StartFollows ==
  ASSUME SchedulerInv, TypeOK', EnsureDefaultJob \/ LoadJobs \/ Crash
  PROVE  SchedulerInv'
<1>1. CASE EnsureDefaultJob
  <2>1. UniqueNames(docs')
    <3>1. CASE Owner(docs, Default) # {}
      BY <1>1, <3>1 DEF EnsureDefaultJob, SchedulerInv
    <3>2. CASE Owner(docs, Default) = {}
      <4>1. PICK i \in Ids : docs' = [docs EXCEPT ![i] = NightlyFullSync]
        BY <1>1, <3>2 DEF EnsureDefaultJob
      <4>2. Owner(docs, NightlyFullSync.name) \subseteq {i}
        BY <3>2 DEF NightlyFullSync
      <4> QED
        BY <4>1, <4>2, NightlyType, WriteUnique, TypeParts DEF SchedulerInv, StoreType
    <3> QED
      BY <3>1, <3>2
  <2> QED
    BY <1>1, <2>1 DEF EnsureDefaultJob, SchedulerInv, TasksFollowDocuments
<1>2. CASE LoadJobs
  <2>1. \A n \in Names : SameTask(cron'[n], Expected(docs', n))
    BY <1>2, SameTaskFacts DEF LoadJobs
  <2> QED
    BY <1>2, <2>1 DEF LoadJobs, SchedulerInv, TasksFollowDocuments
<1>3. CASE Crash
  BY <1>3 DEF Crash, SchedulerInv, TasksFollowDocuments
<1> QED
  BY <1>1, <1>2, <1>3

LEMMA PageStepFollows ==
  ASSUME SchedulerInv, TypeOK', NEW p \in Pages, PageStep(p)
  PROVE  SchedulerInv'
<1>1. ASSUME NEW r, Send(p, r)
      PROVE  SchedulerInv'
  <2>1. request[p].step # "register"
    BY <1>1 DEF Send, Nothing, Request
  <2>2. \A n \in Names : Pending(n) => Pending(n)'
    BY <1>1, <2>1, PendingKept DEF Send, SchedulerInv
  <2> QED
    BY <1>1, <2>2, QuietStep DEF Send
<1>2. CASE FetchJobs(p)
  BY <1>2, QuietStep DEF FetchJobs, Pending
<1> QED
  BY <1>1, <1>2 DEF PageStep, HandleToggle, HandleRunNow, HandleSave

LEMMA HandlerFollows ==
  ASSUME SchedulerInv, TypeOK', NEW p \in Pages, Handler(p) \/ Refuse(p)
  PROVE  SchedulerInv'
<1>0. TypeOK /\ request[p] \in Requests
  BY TypeParts DEF SchedulerInv, RequestType
<1>1. CASE Refuse(p)
  BY <1>0, <1>1, PendingKept, QuietStep DEF Refuse, Answer
<1>2. CASE CreateJob(p)
  <2>1. request[p].doc \in SyncJob /\ request[p].step = "sent" /\ server = "up"
    BY <1>0, <1>2, RequestFacts DEF CreateJob, At
  <2>2. CASE Owner(docs, request[p].doc.name) = {}
    <3>1. PICK i \in Ids : docs[i] = Absent /\ Written(p, i, request[p].doc)
      BY <1>2, <2>2 DEF CreateJob
    <3>2. astray' = astray
      BY <1>2, <2>2 DEF CreateJob
    <3> QED
      BY <2>1, <2>2, <3>1, <3>2, WrittenFollows
  <2>3. CASE Owner(docs, request[p].doc.name) # {}
    BY <1>0, <1>2, <2>1, <2>3, PendingKept, QuietStep DEF CreateJob
  <2> QED
    BY <2>2, <2>3
<1>3. CASE FindExistingJob(p)
  <2>1. request[p].step = "taken"
    BY <1>3 DEF FindExistingJob, At
  <2>2. PICK r : request' = [request EXCEPT ![p] = r]
    BY <1>3 DEF FindExistingJob
  <2> QED
    BY <1>0, <1>3, <2>1, <2>2, PendingKept, QuietStep DEF FindExistingJob
<1>4. CASE UpdateJob(p)
  <2>1. /\ request[p].doc \in SyncJob /\ request[p].id \in Ids
        /\ request[p].step = "sent" /\ server = "up"
    BY <1>0, <1>4, RequestFacts DEF UpdateJob, At
  <2>2. docs[request[p].id] \in SyncJob
    BY <1>0, <1>4, <2>1, TypeParts DEF UpdateJob, StoreType, Collections
  <2>3. docs[request[p].id].name \in Names
    BY <2>2 DEF SyncJob
  <2>4. ASSUME NEW n \in Names, astray'[n] = "no"
        PROVE  /\ astray[n] = "no"
               /\ \/ docs[request[p].id].name # n
                  \/ n = request[p].doc.name
                  \/ cron[n] = Absent
    BY <1>0, <1>4, <2>3, <2>4, TypeParts DEF UpdateJob, AstrayType
  <2> QED
    BY <1>4, <2>1, <2>4, WrittenFollows DEF UpdateJob
<1>5. CASE ToggleJobActive(p)
  <2> DEFINE id == request[p].id
             doc == [docs[id] EXCEPT !.active = (request[p].op = "on")]
  <2>1. id \in Ids /\ request[p].step = "sent" /\ server = "up"
    BY <1>0, <1>5, RequestFacts DEF ToggleJobActive, At
  <2>2. docs[id] \in SyncJob /\ docs[id] # Absent
    BY <1>0, <1>5, <2>1, TypeParts DEF ToggleJobActive, StoreType, Collections
  <2>3. doc \in SyncJob /\ doc.name = docs[id].name
    BY <2>2 DEF SyncJob
  <2>4. Owner(docs, doc.name) \subseteq {id}
    BY <1>0, <2>1, <2>2, <2>3, OwnerTask, TypeParts DEF SchedulerInv, StoreType
  <2>5. Written(p, id, doc) /\ astray' = astray
    BY <1>5 DEF ToggleJobActive
  <2> HIDE DEF id, doc
  <2> QED
    BY <2>1, <2>2, <2>3, <2>4, <2>5, WrittenFollows
<1>6. CASE RegisterCronJob(p)
  <2> DEFINE n == request[p].doc.name
             task == TaskOf(request[p].id, request[p].doc)
  <2>1. /\ cron' = [cron EXCEPT ![n] = task]
        /\ astray' = [astray EXCEPT ![n] =
              IF SameTask(task, Expected(docs, n)) THEN "no" ELSE "overtaken"]
        /\ request' = [request EXCEPT ![p] = Nothing]
        /\ docs' = docs /\ server' = server /\ server = "up"
        /\ request[p].step = "register"
    BY <1>6 DEF RegisterCronJob, Answer, At
  <2>2. n \in Names
    BY <1>0, <2>1, RequestFacts DEF SyncJob
  <2> HIDE DEF task
  <2>3. ASSUME NEW m \in Names, astray'[m] = "no", ~Pending(m)'
        PROVE  SameTask(cron'[m], Expected(docs', m))
    <3>1. CASE m = n
      BY <1>0, <2>1, <2>2, <2>3, <3>1, TypeParts DEF AstrayType, StoreType
    <3>2. CASE m # n
      <4>1. \A q \in Pages : q # p => request'[q] = request[q]
        BY <1>0, <2>1, TypeParts DEF RequestType
      <4>2. ~Pending(m)
        BY <2>3, <3>2, <4>1 DEF Pending
      <4>3. astray[m] = "no" /\ cron'[m] = cron[m]
        BY <1>0, <2>1, <2>2, <2>3, <3>2, TypeParts DEF AstrayType, StoreType
      <4> QED
        BY <2>1, <4>2, <4>3 DEF SchedulerInv, TasksFollowDocuments
    <3> QED
      BY <3>1, <3>2
  <2> QED
    BY <2>1, <2>3 DEF SchedulerInv, TasksFollowDocuments
<1>7. ASSUME NEW r \in Runners, TriggerJobManually(p, r)
      PROVE  SchedulerInv'
  BY <1>0, <1>7, PendingKept, QuietStep DEF TriggerJobManually, Answer, At
<1> QED
  BY <1>1, <1>2, <1>3, <1>4, <1>5, <1>6, <1>7 DEF Handler

LEMMA FixFollows ==
  ASSUME SchedulerInv, TypeOK', NEW id \in Ids, PersistFix(id)
  PROVE  SchedulerInv'
<1> DEFINE fixed == [docs[id] EXCEPT !.expr = "daily"]
<1>0. TypeOK /\ docs \in Collections /\ UniqueNames(docs)
  BY TypeParts DEF SchedulerInv, StoreType
<1>1. CASE UNCHANGED <<docs, astray>>
  BY <1>1, QuietStep DEF PersistFix, Pending
<1>2. CASE /\ docs' = [docs EXCEPT ![id].expr = "daily"]
           /\ astray' = IF docs[id].expr \in {"short", "daily"} THEN astray
                        ELSE [astray EXCEPT ![docs[id].name] = "corrected"]
  <2>1. docs[id] \in SyncJob /\ docs[id] # Absent
    BY <1>0 DEF PersistFix, Collections
  <2>2. fixed \in SyncJob /\ fixed.name = docs[id].name
    BY <2>1 DEF SyncJob
  <2>3. docs' = [docs EXCEPT ![id] = fixed]
    BY <1>0, <1>2 DEF Collections
  <2>4. docs'[id] = fixed
    BY <1>0, <2>3 DEF Collections
  <2> HIDE DEF fixed
  <2>5. Owner(docs, fixed.name) \subseteq {id}
    BY <1>0, <2>1, <2>2, OwnerTask
  <2>6. UniqueNames(docs')
    BY <1>0, <2>2, <2>3, <2>5, WriteUnique
  <2>7. cron' = cron /\ server' = server /\ request' = request
    BY DEF PersistFix
  <2>8. ASSUME NEW n \in Names, server = "up", astray'[n] = "no", ~Pending(n)'
        PROVE  SameTask(cron[n], Expected(docs', n))
    <3>1. astray[n] = "no" /\ (n = docs[id].name => docs[id].expr \in {"short", "daily"})
      BY <1>0, <1>2, <2>8, TypeParts DEF PersistFix, AstrayType
    <3>2. SameTask(cron[n], Expected(docs, n))
      BY <2>7, <2>8, <3>1 DEF SchedulerInv, TasksFollowDocuments, Pending
    <3>3. CASE n # docs[id].name
      <4>1. n # fixed.name
        BY <2>2, <3>3
      <4>2. Expected([docs EXCEPT ![id] = fixed], n) = Expected(docs, n)
        BY <1>0, <2>2, <3>3, <4>1, WriteElsewhere
      <4> QED
        BY <2>3, <3>2, <4>2
    <3>4. CASE n = docs[id].name
      <4>1. Expected(docs, n) = TaskOf(id, docs[id])
        BY <1>0, <2>1, <3>4, OwnerTask
      <4>2. docs' \in Collections /\ docs'[id] # Absent /\ docs'[id].name = n
        <5>1. docs' \in Collections
          BY DEF TypeOK
        <5>2. fixed # Absent
          BY <2>2, AbsentAssumption
        <5> QED
          BY <2>2, <2>4, <3>4, <5>1, <5>2
      <4>3. Expected(docs', n) = TaskOf(id, fixed)
        BY <2>4, <2>6, <4>2, OwnerTask
      <4>4. SameTask(TaskOf(id, docs[id]), TaskOf(id, fixed))
        BY <2>1, <3>1, <3>4, FixedTask DEF fixed
      <4> QED
        BY <3>2, <4>1, <4>3, <4>4, SameTaskFacts
    <3> QED
      BY <3>3, <3>4
  <2> QED
    BY <2>6, <2>7, <2>8 DEF SchedulerInv, TasksFollowDocuments
<1> QED
  BY <1>1, <1>2 DEF PersistFix

LEMMA OtherFollows ==
  ASSUME SchedulerInv, TypeOK',
         \/ \E n \in Names, r \in Runners : OnTick(n, r)
         \/ \E r \in Runners : ExecuteJobLogic(r)
         \/ UNCHANGED vars
  PROVE  SchedulerInv'
<1>1. UNCHANGED <<docs, cron, astray, server, request>>
  BY DEF OnTick, ExecuteJobLogic, vars
<1> QED
  BY <1>1, QuietStep DEF Pending

\* The cron table follows the documents, for any number of jobs, administrators,
\* requests and restarts.
THEOREM TasksAreFaithful == Spec => []TasksFollowDocuments
<1>1. SchedulerInv /\ [Next]_vars => TypeOK'
  BY StartType, PageStepType, HandlerType, OtherType, StutterType DEF Next, SchedulerInv
<1>2. SchedulerInv /\ [Next]_vars => SchedulerInv'
  BY <1>1, StartFollows, PageStepFollows, HandlerFollows, FixFollows, OtherFollows DEF Next
<1>3. SchedulerInv => TasksFollowDocuments
  BY DEF SchedulerInv
<1> QED
  BY <1>2, <1>3, InitFollows, PTL DEF Spec
=============================================================================
