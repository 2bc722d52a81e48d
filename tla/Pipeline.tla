------------------------------ MODULE Pipeline ------------------------------
(***************************************************************************)
(* The integration pipelines of DataIntegrationService, full and custom,   *)
(* with the job log they keep in the event log, the mails they send, and   *)
(* the scheduler or controller that calls them.                            *)
(*                                                                         *)
(* A job is one call of a pipeline; each has a log of its own.  Nothing    *)
(* keeps jobs apart: any number are in flight, and they meet in the Schema *)
(* Registry.  What a pipeline does to one table is the subject of module   *)
(* TableSync; here it is the outcome of syncOneTable.  The order in which  *)
(* a job takes its tables is left open.                                    *)
(***************************************************************************)
EXTENDS Naturals, FiniteSets

CONSTANTS
  Tables,       \* the tables of the Schema Registry
  Jobs,         \* calls of a pipeline
  Endpoints,    \* kinds of dataFromApi that occur
  Events        \* which failures and outside changes occur

\* The failures and outside changes a run may allow: a call to MongoDB fails
\* while the log is created ("create"), the registry is read ("registry"), a
\* source's credentials are read ("credentials"), the log is finished ("log");
\* a log is written but the answer is lost ("ack"); the scheduler cannot store
\* the time of the last run ("lastRun"); a sync finds a changed
\* structure ("drift") or records the source has dropped ("orphans"); the
\* administrator switches sources off and on ("toggle"); the process dies
\* ("crash").
AllEvents == {"create", "registry", "credentials", "log", "ack", "lastRun",
              "drift", "orphans", "toggle", "crash"}

\* "data" a table's own endpoint, "none" no endpoint, "schemas" the endpoint
\* that lists schemas.
AllEndpoints == {"data", "none", "schemas"}

ASSUME TablesAssumption == IsFiniteSet(Tables)
ASSUME EventsAssumption == Events \subseteq AllEvents
ASSUME EndpointsAssumption == Endpoints \subseteq AllEndpoints

VARIABLES
  up,         \* the process is running
  registry,   \* table |-> its status and its endpoint
  active,     \* table |-> its source has an active configuration
  job,        \* job |-> the locals of the call
  log,        \* job |-> its entry in the event log
  mail        \* job |-> the mails sent about it

vars == <<up, registry, active, job, log, mail>>

-----------------------------------------------------------------------------
(* A job                                                                   *)

\* aborted and refused are history: the job did not come to the end of its try
\* block; the credentials of a source could not be read.
NotStarted ==
  [pc |-> "new", kind |-> "full", by |-> "admin", asked |-> {}, chosen |-> {},
   todo |-> {}, table |-> {}, own |-> TRUE,
   result |-> [t \in Tables |-> "none"], aborted |-> FALSE, refused |-> FALSE]

NoLog == [status |-> "none", synced |-> {}]

With(s, outcomes) == {t \in Tables : s.result[t] \in outcomes}
Synced(s) == With(s, {"success", "warning"})

\* Mutant of Status: one table that went well makes the job a success.
StatusAnySuccess(s) ==
  IF With(s, {"failed"}) = {} \/ With(s, {"success"}) # {}
  THEN IF With(s, {"warning"}) # {} THEN "done_with_warnings" ELSE "done"
  ELSE IF Synced(s) # {} THEN "partial_success" ELSE "failed"

\* The status of a job, from the results of its tables.
Status(s) ==
  IF With(s, {"failed"}) = {}
  THEN IF With(s, {"warning"}) # {} THEN "done_with_warnings" ELSE "done"
  ELSE IF Synced(s) # {} THEN "partial_success" ELSE "failed"

Set(j, s) == job' = [job EXCEPT ![j] = s]
Finished(status, tables) == [status |-> status, synced |-> tables]

Init ==
  /\ up = TRUE
  /\ registry \in [Tables -> [status : {"stable", "held"}, endpoint : Endpoints]]
  /\ active = [t \in Tables |-> TRUE]
  /\ job = [j \in Jobs |-> NotStarted]
  /\ log = [j \in Jobs |-> NoLog]
  /\ mail = [j \in Jobs |-> {}]

\* The pipeline is called, by the scheduler or an administrator, and opens its
\* log.  A custom pipeline is asked for some tables; the names are trimmed and
\* duplicates dropped, so that they are a set.
Start(j) ==
  /\ up /\ job[j].pc = "new"
  /\ \E by \in {"cron", "admin"}, kind \in {"full", "custom"}, asked \in SUBSET Tables :
       /\ kind = "full" => asked = Tables
       /\ Set(j, [job[j] EXCEPT !.pc = IF asked = {} /\ kind = "custom"
                                        THEN "nothing" ELSE "registry",
                                !.kind = kind, !.by = by, !.asked = asked])
  /\ log' = [log EXCEPT ![j] = Finished("running", {})]
  /\ UNCHANGED <<up, registry, active, mail>>

\* The log cannot be created, or is and the answer is lost: the pipeline throws
\* before its try block.
StartFails(j) ==
  /\ up /\ job[j].pc = "new"
  /\ \E by \in {"cron", "admin"} :
       Set(j, [job[j] EXCEPT !.pc = "threw", !.by = by, !.aborted = TRUE])
  /\ \/ "create" \in Events /\ log' = log
     \/ "ack" \in Events /\ log' = [log EXCEPT ![j] = Finished("running", {})]
  /\ UNCHANGED <<up, registry, active, mail>>

\* An exception inside the try block; refused if it is that of the credentials.
AbortFor(j, refused) ==
  Set(j, [job[j] EXCEPT !.pc = "catch", !.table = {}, !.aborted = TRUE,
                        !.refused = refused])
Abort(j) == AbortFor(j, FALSE)

\* The registry is read once; stable tables are taken, and a job that finds
\* none ends early.
ReadRegistry(j) ==
  LET chosen == {t \in job[j].asked : registry[t].status = "stable"}
  IN  /\ job[j].pc = "registry"
      /\ Set(j, [job[j] EXCEPT !.pc = IF chosen = {} THEN "nothing" ELSE "tables",
                               !.chosen = chosen, !.todo = chosen])
      /\ UNCHANGED <<up, registry, active, log, mail>>

ReadRegistryFails(j) ==
  /\ "registry" \in Events
  /\ job[j].pc = "registry"
  /\ Abort(j)
  /\ UNCHANGED <<up, registry, active, log, mail>>

\* The endpoint that lists schemas is known to the full pipeline only.
NoEndpoint(s, t) ==
  \/ registry[t].endpoint = "none"
  \/ registry[t].endpoint = "schemas" /\ s.kind = "full"

\* A table without an endpoint of its own fails without being tried.
SkipTable(j, t) ==
  /\ job[j].pc = "tables" /\ t \in job[j].todo
  /\ NoEndpoint(job[j], t)
  /\ Set(j, [job[j] EXCEPT !.todo = @ \ {t}, !.result[t] = "failed"])
  /\ UNCHANGED <<up, registry, active, log, mail>>

\* resolveSourceCredentials: the active configuration of the table's source,
\* or else the default source of the environment.
ResolveCredentials(j, t) ==
  /\ job[j].pc = "tables" /\ t \in job[j].todo
  /\ ~NoEndpoint(job[j], t)
  /\ Set(j, [job[j] EXCEPT !.pc = "sync", !.todo = @ \ {t}, !.table = {t},
                           !.own = active[t]])
  /\ UNCHANGED <<up, registry, active, log, mail>>

\* The credentials are read outside the try block of the table: a failure ends
\* the job, and the tables behind lose their turn.
CredentialsFail(j, t) ==
  /\ "credentials" \in Events
  /\ job[j].pc = "tables" /\ t \in job[j].todo
  /\ ~NoEndpoint(job[j], t)
  /\ AbortFor(j, TRUE)
  /\ UNCHANGED <<up, registry, active, log, mail>>

Record(j, t, outcome) ==
  Set(j, [job[j] EXCEPT !.pc = "tables", !.table = {}, !.own = TRUE,
                        !.result[t] = outcome])

\* syncOneTable returns, with or without orphans.
SyncReturns(j, t) ==
  /\ job[j].pc = "sync" /\ t \in job[j].table
  /\ \E outcome \in {"success", "warning"} :
       /\ outcome = "warning" => "orphans" \in Events
       /\ Record(j, t, outcome)
  /\ UNCHANGED <<up, registry, active, log, mail>>

\* Mutant of SyncThrows: the exception leaves the loop.
SyncThrowsOut(j, t) ==
  /\ job[j].pc = "sync" /\ t \in job[j].table
  /\ Abort(j)
  /\ UNCHANGED <<up, registry, active, log, mail>>

\* syncOneTable throws: the table has failed, the job goes on.  A changed
\* structure has been reported to the registry.
SyncThrows(j, t) ==
  /\ job[j].pc = "sync" /\ t \in job[j].table
  /\ Record(j, t, "failed")
  /\ \/ registry' = registry
     \/ "drift" \in Events /\ registry' = [registry EXCEPT ![t].status = "held"]
  /\ UNCHANGED <<up, active, log, mail>>

\* The log's final entry.  It reports the tables that were synced, and none for
\* a job that found nothing to do.
Ending(s) ==
  IF s.pc = "nothing" THEN Finished("failed", {}) ELSE Finished(Status(s), Synced(s))
AtTheEnd(s) == s.pc = "nothing" \/ (s.pc = "tables" /\ s.todo = {})

\* Only a job that had tables to sync sends a mail.
FinishLog(j) ==
  /\ AtTheEnd(job[j])
  /\ log' = [log EXCEPT ![j] = Ending(job[j])]
  /\ Set(j, [job[j] EXCEPT !.pc = IF @ = "nothing" THEN "returned" ELSE "notify"])
  /\ UNCHANGED <<up, registry, active, mail>>

\* The log cannot be finished, or is and the answer is lost.
FinishLogFails(j) ==
  /\ AtTheEnd(job[j])
  /\ \/ "log" \in Events /\ log' = log
     \/ "ack" \in Events /\ log' = [log EXCEPT ![j] = Ending(job[j])]
  /\ Abort(j)
  /\ UNCHANGED <<up, registry, active, mail>>

\* Mutant of Catch: the job starts over in the same log.
CatchReopens(j) ==
  /\ job[j].pc = "catch"
  /\ log' = [log EXCEPT ![j] = Finished("running", {})]
  /\ Set(j, [job[j] EXCEPT !.pc = "alert"])
  /\ UNCHANGED <<up, registry, active, mail>>

\* The catch block finishes the log as failed, whatever it holds by then.
Catch(j) ==
  /\ job[j].pc = "catch"
  /\ log' = [log EXCEPT ![j] = Finished("failed", {})]
  /\ Set(j, [job[j] EXCEPT !.pc = "alert"])
  /\ UNCHANGED <<up, registry, active, mail>>

\* A second failure leaves the pipeline without an alert.
CatchFails(j) ==
  /\ job[j].pc = "catch"
  /\ \/ "log" \in Events /\ log' = log
     \/ "ack" \in Events /\ log' = [log EXCEPT ![j] = Finished("failed", {})]
  /\ Set(j, [job[j] EXCEPT !.pc = "threw"])
  /\ UNCHANGED <<up, registry, active, mail>>

Send(j, what) == mail' = [mail EXCEPT ![j] = @ \cup {what}]

\* Mutant of Notify: only a job without any synced table raises an alert.
NotifyFailedOnly(j) ==
  /\ job[j].pc = "notify"
  /\ Send(j, IF Status(job[j]) # "failed" THEN "success" ELSE "failure")
  /\ Set(j, [job[j] EXCEPT !.pc = "returned"])
  /\ UNCHANGED <<up, registry, active, log>>

\* sendSyncNotification: the mail of success is for "done" only.
Notify(j) ==
  /\ job[j].pc = "notify"
  /\ Send(j, IF Status(job[j]) = "done" THEN "success" ELSE "failure")
  /\ Set(j, [job[j] EXCEPT !.pc = "returned"])
  /\ UNCHANGED <<up, registry, active, log>>

\* Mutant of Alert: the pipeline throws without one.
AlertOmitted(j) ==
  /\ job[j].pc = "alert"
  /\ Set(j, [job[j] EXCEPT !.pc = "threw"])
  /\ UNCHANGED <<up, registry, active, log, mail>>

\* An aborted job is mailed before its exception is thrown on.
Alert(j) ==
  /\ job[j].pc = "alert"
  /\ Send(j, "failure")
  /\ Set(j, [job[j] EXCEPT !.pc = "threw"])
  /\ UNCHANGED <<up, registry, active, log>>

\* The scheduler sends mails of its own: of success when the pipeline returned,
\* of failure when it threw or lastRunAt could not be stored.
SchedulerReports(j) ==
  /\ job[j].by = "cron"
  /\ \/ job[j].pc = "returned" /\ Send(j, "success")
     \/ job[j].pc = "returned" /\ "lastRun" \in Events /\ Send(j, "failure")
     \/ job[j].pc = "threw" /\ Send(j, "failure")
  /\ Set(j, [job[j] EXCEPT !.pc = "over"])
  /\ UNCHANGED <<up, registry, active, log>>

\* The controller does not wait for the pipeline.
ControllerIgnores(j) ==
  /\ job[j].by = "admin" /\ job[j].pc = "returned"
  /\ Set(j, [job[j] EXCEPT !.pc = "over"])
  /\ UNCHANGED <<up, registry, active, log, mail>>

\* The jobs in flight are gone with the process, the stores stay.
InFlight(s) == s.pc \notin {"new", "over", "dead"}
Interrupted(i) == IF InFlight(job[i]) THEN [job[i] EXCEPT !.pc = "dead", !.aborted = TRUE]
                                      ELSE job[i]

\* Nothing handles the rejection of a pipeline that the controller called: it
\* ends the process.
UnhandledRejection(j) ==
  /\ job[j].by = "admin" /\ job[j].pc = "threw"
  /\ up' = FALSE
  /\ job' = [i \in Jobs |-> IF i = j THEN [job[j] EXCEPT !.pc = "over"] ELSE Interrupted(i)]
  /\ UNCHANGED <<registry, active, log, mail>>

Crash ==
  /\ "crash" \in Events
  /\ up /\ up' = FALSE
  /\ job' = [i \in Jobs |-> Interrupted(i)]
  /\ UNCHANGED <<registry, active, log, mail>>

\* Mutant of Boot: the logs are left alone.
BootOnly ==
  /\ ~up /\ up' = TRUE
  /\ UNCHANGED <<registry, active, job, log, mail>>

\* onModuleInit of the event log: what still runs by the log was interrupted.
Boot ==
  /\ ~up /\ up' = TRUE
  /\ log' = [j \in Jobs |-> IF log[j].status = "running"
                             THEN Finished("failed", {}) ELSE log[j]]
  /\ UNCHANGED <<registry, active, job, mail>>

\* The detector marks a table as changed, or a new one arrives with it.
RunDetector(t) ==
  /\ up /\ registry[t].status = "stable"
  /\ registry' = [registry EXCEPT ![t].status = "held"]
  /\ UNCHANGED <<up, active, job, log, mail>>

MarkAsStable(t) ==
  /\ up /\ registry[t].status = "held"
  /\ registry' = [registry EXCEPT ![t].status = "stable"]
  /\ UNCHANGED <<up, active, job, log, mail>>

ToggleActive(t) ==
  /\ "toggle" \in Events
  /\ up
  /\ active' = [active EXCEPT ![t] = ~@]
  /\ UNCHANGED <<up, registry, job, log, mail>>

TableStep(j, t) ==
  \/ SkipTable(j, t) \/ ResolveCredentials(j, t) \/ CredentialsFail(j, t)
  \/ SyncReturns(j, t) \/ SyncThrows(j, t)

JobStep(j) ==
  \/ ReadRegistry(j) \/ ReadRegistryFails(j)
  \/ \E t \in Tables : TableStep(j, t)
  \/ FinishLog(j) \/ FinishLogFails(j)
  \/ Catch(j) \/ CatchFails(j)
  \/ Notify(j) \/ Alert(j)
  \/ SchedulerReports(j) \/ ControllerIgnores(j) \/ UnhandledRejection(j)

Next ==
  \/ \E j \in Jobs : Start(j) \/ StartFails(j) \/ JobStep(j)
  \/ Crash \/ Boot
  \/ \E t \in Tables : RunDetector(t) \/ MarkAsStable(t) \/ ToggleActive(t)

\* syncOneTable returns or throws (TableSync, RunEnds) and calls to MongoDB and
\* the mail server return, so a job goes on; Docker restarts the process.
Fairness == WF_vars(Boot) /\ \A j \in Jobs : WF_vars(JobStep(j))

Spec == Init /\ [][Next]_vars /\ Fairness

-----------------------------------------------------------------------------
(* Properties                                                              *)

Outcomes == {"none", "success", "warning", "failed"}
FinalStatus == {"done", "done_with_warnings", "partial_success", "failed"}
JobState ==
  [pc : {"new", "nothing", "registry", "tables", "sync", "notify", "catch",
         "alert", "returned", "threw", "over", "dead"},
   kind : {"full", "custom"}, by : {"cron", "admin"},
   asked : SUBSET Tables, chosen : SUBSET Tables, todo : SUBSET Tables,
   table : SUBSET Tables, own : BOOLEAN,
   result : [Tables -> Outcomes], aborted : BOOLEAN, refused : BOOLEAN]

TypeOK ==
  /\ up \in BOOLEAN
  /\ registry \in [Tables -> [status : {"stable", "held"}, endpoint : AllEndpoints]]
  /\ active \in [Tables -> BOOLEAN]
  /\ job \in [Jobs -> JobState]
  /\ log \in [Jobs -> [status : {"none", "running"} \cup FinalStatus,
                      synced : SUBSET Tables]]
  /\ mail \in [Jobs -> SUBSET {"success", "failure"}]

\* The log of a job that came to its end tells what became of the tables it
\* chose: each was tried, and the status is the summary of what happened.
\* Relates the loop over the tables, with its three ways past a table, and the
\* status computed behind it.
LogTellsOutcome ==
  \A j \in Jobs :
    LET s == job[j]
        synced == Synced(s)
    IN  s.pc \in {"notify", "returned", "over"} /\ ~s.aborted =>
          /\ log[j].synced = synced /\ synced \subseteq s.chosen
          /\ log[j].status = "done" =>
               s.chosen # {} /\ s.chosen = synced /\ With(s, {"warning"}) = {}
          /\ log[j].status = "done_with_warnings" =>
               s.chosen = synced /\ With(s, {"warning"}) # {}
          /\ log[j].status = "partial_success" => synced # {} /\ synced # s.chosen
          /\ log[j].status = "failed" => synced = {}
          /\ log[j].status \in FinalStatus

\* The mail of success that the pipeline sends an administrator means that all
\* went well, by the log and by the tables.  (The scheduler mails a success
\* whenever the pipeline returned.)
SuccessMailIsTrue ==
  \A j \in Jobs :
    job[j].by = "admin" /\ "success" \in mail[j]
      => log[j].status = "done" /\ \A t \in job[j].chosen : job[j].result[t] = "success"

\* A job that is over and in which a table failed, or which was cut short after
\* its log was opened, has raised an alert, as long as the log can be written
\* (a second failure, in the catch block, is silent).
FailureIsAlerted ==
  \A j \in Jobs :
    job[j].pc = "over" /\ (With(job[j], {"failed"}) # {} \/ job[j].aborted)
      /\ log[j].status \in FinalStatus
      => "failure" \in mail[j]

\* The failure of a table does not keep the tables behind it from being tried:
\* every table a job chose is tried or skipped, unless the process dies or the
\* credentials of some source cannot be read.  That read alone stands outside the
\* try block of the loop, and the tables behind it do lose their turn.
TablesGetTheirTurn ==
  \A j \in Jobs, t \in Tables :
    t \in job[j].chosen
      ~> job[j].result[t] # "none" \/ job[j].pc = "dead" \/ job[j].refused

\* The event log as the jobs' life cycle.
Entry ==
  [j \in Jobs |-> CASE log[j].status = "none" -> "none"
                    [] log[j].status = "running" -> "open"
                    [] OTHER -> "closed"]
Log == INSTANCE JobLog WITH entry <- Entry

\* No job's log is opened twice, reopened or closed before it was opened,
\* whatever fails and however often it is finished.
LogIsSafe == Log!Safe

\* And every log that is opened is closed, also when the process dies, as long
\* as the event log itself can be written.
LogIsClosed == Log!Spec

-----------------------------------------------------------------------------
(* Inductive invariant, proved in Pipeline_proofs                          *)

\* The tables of a job that is not cut short: those to do, the one being synced
\* and those with a result, each once.
TablesInv(s) ==
  /\ s.todo \cap s.table = {}
  /\ s.pc # "sync" => s.table = {}
  /\ \A t, u \in s.table : t = u
  /\ \A t \in Tables :
       s.result[t] # "none" <=> t \in s.chosen /\ t \notin s.todo \cup s.table
  /\ s.todo \cup s.table \subseteq s.chosen
  /\ s.pc \in {"new", "nothing", "registry"} => s.chosen = {}
  /\ s.pc \in {"tables", "sync", "notify"} => s.chosen # {}
  /\ s.pc \in {"notify", "returned", "over"} => s.todo = {} /\ s.table = {}

\* Where the entry of a job stands in each phase of the job.
EntryInv(s, entry) ==
  /\ s.pc = "new" => entry = NoLog
  /\ s.pc \in {"nothing", "registry", "tables", "sync"} => entry.status = "running"
  /\ s.pc \in {"notify", "returned", "catch", "alert"} => entry.status # "none"
  /\ s.pc \in {"notify", "returned", "over"} /\ ~s.aborted =>
       IF s.chosen = {} THEN entry = Finished("failed", {})
       ELSE entry = Finished(Status(s), Synced(s))

MailInv(s, entry, mails) ==
  s.by = "admin" /\ "success" \in mails =>
    /\ s.pc \in {"returned", "over", "dead"}
    /\ entry.status = "done" /\ \A t \in s.chosen : s.result[t] = "success"

JobInv(s, entry, mails) ==
  /\ s.pc = "new" => mails = {} /\ ~s.aborted
  /\ s.pc \in {"catch", "alert", "threw", "dead"} => s.aborted
  /\ s.aborted => s.pc \in {"catch", "alert", "threw", "over", "dead"}
  /\ ~s.aborted => TablesInv(s)
  /\ EntryInv(s, entry)
  /\ MailInv(s, entry, mails)

PipelineInv ==
  /\ ~up => \A j \in Jobs : ~InFlight(job[j])
  /\ \A j \in Jobs : JobInv(job[j], log[j], mail[j])
=============================================================================
