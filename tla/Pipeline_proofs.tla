-------------------------- MODULE Pipeline_proofs --------------------------
(***************************************************************************)
(* Proofs about the pipelines: typing, the inductive invariant, that the   *)
(* log of a job tells what happened, and that every log goes through its   *)
(* life cycle in order (the safety part of JobLog).                        *)
(***************************************************************************)
EXTENDS Pipeline, TLAPS

Statuses == {"none", "running"} \cup FinalStatus
LogState == [status : Statuses, synced : SUBSET Tables]

Phases == {"new", "nothing", "registry", "tables", "sync", "notify", "catch",
           "alert", "returned", "threw", "over", "dead"}
MailState == SUBSET {"success", "failure"}
RegistryState == [Tables -> [status : {"stable", "held"}, endpoint : AllEndpoints]]

LEMMA NotStartedType == NotStarted \in JobState
BY DEF NotStarted, JobState, Outcomes

LEMMA EndingType == ASSUME NEW s PROVE Ending(s) \in LogState
<1>1. Synced(s) \subseteq Tables
  BY DEF Synced, With
<1>2. Status(s) \in FinalStatus
  BY DEF Status, FinalStatus
<1> QED
  BY <1>1, <1>2 DEF Ending, Finished, LogState, Statuses, FinalStatus

\* Every update of a job's locals yields a job state.
LEMMA PhaseType ==
  ASSUME NEW s \in JobState, NEW pc \in Phases
  PROVE  /\ [s EXCEPT !.pc = pc] \in JobState
         /\ [s EXCEPT !.pc = pc, !.aborted = TRUE] \in JobState
         /\ [s EXCEPT !.pc = pc, !.table = {}, !.aborted = TRUE] \in JobState
         /\ \A chosen \in SUBSET Tables :
              [s EXCEPT !.pc = pc, !.chosen = chosen, !.todo = chosen] \in JobState
BY DEF JobState, Phases

LEMMA CallType ==
  ASSUME NEW s \in JobState, NEW pc \in Phases, NEW by \in {"cron", "admin"},
         NEW kind \in {"full", "custom"}, NEW asked \in SUBSET Tables
  PROVE  /\ [s EXCEPT !.pc = pc, !.kind = kind, !.by = by, !.asked = asked] \in JobState
         /\ [s EXCEPT !.pc = pc, !.by = by, !.aborted = TRUE] \in JobState
BY DEF JobState, Phases

LEMMA ResultType ==
  ASSUME NEW s \in JobState, NEW t \in Tables, NEW outcome \in Outcomes, NEW own \in BOOLEAN
  PROVE  /\ [s EXCEPT !.todo = @ \ {t}, !.result[t] = outcome] \in JobState
         /\ [s EXCEPT !.pc = "sync", !.todo = @ \ {t}, !.table = {t}, !.own = own] \in JobState
         /\ [s EXCEPT !.pc = "tables", !.table = {}, !.own = TRUE, !.result[t] = outcome]
              \in JobState
BY DEF JobState

\* Replacing one entry of a map by a value of its type.
LEMMA SetType ==
  ASSUME NEW j \in Jobs, NEW s \in JobState, job \in [Jobs -> JobState], Set(j, s)
  PROVE  job' \in [Jobs -> JobState]
BY DEF Set

LEMMA LogType ==
  ASSUME NEW j \in Jobs, NEW e \in LogState, log \in [Jobs -> LogState],
         log' = [log EXCEPT ![j] = e]
  PROVE  log' \in [Jobs -> LogState]
OBVIOUS

LEMMA SendType ==
  ASSUME NEW j \in Jobs, NEW what \in {"success", "failure"},
         mail \in [Jobs -> MailState], Send(j, what)
  PROVE  mail' \in [Jobs -> MailState]
BY DEF Send, MailState

LEMMA TypeParts ==
  TypeOK <=> /\ up \in BOOLEAN
             /\ registry \in RegistryState
             /\ active \in [Tables -> BOOLEAN]
             /\ job \in [Jobs -> JobState]
             /\ log \in [Jobs -> LogState]
             /\ mail \in [Jobs -> MailState]
BY DEF TypeOK, RegistryState, LogState, Statuses, MailState

\* What the steps of a job do to the job.
LEMMA JobStepJobType ==
  ASSUME TypeOK, NEW j \in Jobs, JobStep(j) PROVE job' \in [Jobs -> JobState]
<1>0. /\ job \in [Jobs -> JobState] /\ job[j] \in JobState
      /\ active \in [Tables -> BOOLEAN]
  BY TypeParts
<1> DEFINE s == job[j]
<1>1. CASE ReadRegistry(j)
  <2> DEFINE chosen == {t \in s.asked : registry[t].status = "stable"}
             pc == IF chosen = {} THEN "nothing" ELSE "tables"
  <2>1. s.asked \in SUBSET Tables
    BY <1>0 DEF JobState
  <2>2. chosen \in SUBSET Tables /\ pc \in Phases
    BY <2>1 DEF Phases
  <2>3. Set(j, [s EXCEPT !.pc = pc, !.chosen = chosen, !.todo = chosen])
    BY <1>1 DEF ReadRegistry
  <2> HIDE DEF chosen, pc
  <2>4. [s EXCEPT !.pc = pc, !.chosen = chosen, !.todo = chosen] \in JobState
    BY <1>0, <2>2, PhaseType
  <2> QED
    BY <1>0, <2>3, <2>4, SetType
<1>2. ASSUME NEW b \in BOOLEAN, AbortFor(j, b) PROVE job' \in [Jobs -> JobState]
  <2>1. [s EXCEPT !.pc = "catch", !.table = {}, !.aborted = TRUE, !.refused = b] \in JobState
    BY <1>0 DEF JobState
  <2> QED
    BY <1>0, <1>2, <2>1, SetType DEF AbortFor
<1>3. ASSUME NEW t \in Tables, TableStep(j, t) PROVE job' \in [Jobs -> JobState]
  <2>1. CASE SkipTable(j, t)
    BY <1>0, <2>1, ResultType, SetType DEF SkipTable, Outcomes
  <2>2. CASE ResolveCredentials(j, t)
    <3>1. active[t] \in BOOLEAN
      BY <1>0
    <3> QED
      BY <1>0, <2>2, <3>1, ResultType, SetType DEF ResolveCredentials, Outcomes
  <2>3. CASE CredentialsFail(j, t)
    BY <1>2, <2>3 DEF CredentialsFail
  <2>4. ASSUME NEW outcome \in Outcomes, Record(j, t, outcome) PROVE job' \in [Jobs -> JobState]
    BY <1>0, <2>4, ResultType, SetType DEF Record
  <2> QED
    BY <1>3, <2>1, <2>2, <2>3, <2>4 DEF TableStep, SyncReturns, SyncThrows, Outcomes
<1>4. ASSUME NEW pc \in Phases, Set(j, [s EXCEPT !.pc = pc]) PROVE job' \in [Jobs -> JobState]
  BY <1>0, <1>4, PhaseType, SetType
<1>5. CASE FinishLog(j)
  <2>1. (IF s.pc = "nothing" THEN "returned" ELSE "notify") \in Phases
    BY DEF Phases
  <2> QED
    BY <1>4, <1>5, <2>1 DEF FinishLog
<1>6. CASE UnhandledRejection(j)
  <2>1. [s EXCEPT !.pc = "over"] \in JobState
    BY <1>0, PhaseType DEF Phases
  <2>2. \A i \in Jobs : Interrupted(i) \in JobState
    BY <1>0, PhaseType DEF Interrupted, Phases
  <2> QED
    BY <1>6, <2>1, <2>2 DEF UnhandledRejection
<1> QED
  BY <1>1, <1>2, <1>3, <1>4, <1>5, <1>6
     DEF JobStep, ReadRegistryFails, FinishLogFails, Abort, Catch, CatchFails, Notify, Alert,
         SchedulerReports, ControllerIgnores, Phases

LEMMA JobStepType ==
  ASSUME TypeOK, NEW j \in Jobs, JobStep(j) PROVE TypeOK'
<1>0. /\ up \in BOOLEAN /\ registry \in RegistryState /\ active \in [Tables -> BOOLEAN]
      /\ log \in [Jobs -> LogState] /\ mail \in [Jobs -> MailState]
  BY TypeParts
<1>1. log' \in [Jobs -> LogState]
  <2>1. Finished("failed", {}) \in LogState
    BY DEF Finished, LogState, Statuses, FinalStatus
  <2>2. ASSUME NEW e \in LogState, log' = [log EXCEPT ![j] = e] PROVE log' \in [Jobs -> LogState]
    BY <1>0, <2>2, LogType
  <2>3. CASE FinishLog(j) \/ FinishLogFails(j)
    BY <1>0, <2>2, <2>3, EndingType DEF FinishLog, FinishLogFails
  <2>4. CASE Catch(j) \/ CatchFails(j)
    BY <1>0, <2>1, <2>2, <2>4 DEF Catch, CatchFails
  <2> QED
    BY <1>0, <2>3, <2>4
       DEF JobStep, ReadRegistry, ReadRegistryFails, TableStep, SkipTable, ResolveCredentials,
           CredentialsFail, SyncReturns, SyncThrows, Notify, Alert, SchedulerReports,
           ControllerIgnores, UnhandledRejection
<1>2. mail' \in [Jobs -> MailState]
  <2>1. ASSUME NEW what \in {"success", "failure"}, Send(j, what) PROVE mail' \in [Jobs -> MailState]
    BY <1>0, <2>1, SendType
  <2>2. CASE Notify(j) \/ Alert(j) \/ SchedulerReports(j)
    BY <2>1, <2>2 DEF Notify, Alert, SchedulerReports
  <2> QED
    BY <1>0, <2>2
       DEF JobStep, ReadRegistry, ReadRegistryFails, TableStep, SkipTable, ResolveCredentials,
           CredentialsFail, SyncReturns, SyncThrows, FinishLog, FinishLogFails, Catch,
           CatchFails, ControllerIgnores, UnhandledRejection
<1>3. registry' \in RegistryState
  <2>1. ASSUME NEW t \in Tables, SyncThrows(j, t) PROVE registry' \in RegistryState
    BY <1>0, <2>1 DEF SyncThrows, RegistryState
  <2> QED
    BY <1>0, <2>1
       DEF JobStep, ReadRegistry, ReadRegistryFails, TableStep, SkipTable, ResolveCredentials,
           CredentialsFail, SyncReturns, FinishLog, FinishLogFails, Catch,
           CatchFails, Notify, Alert, SchedulerReports, ControllerIgnores, UnhandledRejection
<1>4. up' \in BOOLEAN /\ active' = active
  BY <1>0
     DEF JobStep, ReadRegistry, ReadRegistryFails, TableStep, SkipTable, ResolveCredentials,
         CredentialsFail, SyncReturns, SyncThrows, FinishLog, FinishLogFails, Catch,
         CatchFails, Notify, Alert, SchedulerReports, ControllerIgnores, UnhandledRejection
<1>5. TypeOK' <=> /\ up' \in BOOLEAN
                  /\ registry' \in RegistryState
                  /\ active' \in [Tables -> BOOLEAN]
                  /\ job' \in [Jobs -> JobState]
                  /\ log' \in [Jobs -> LogState]
                  /\ mail' \in [Jobs -> MailState]
  BY DEF TypeOK, RegistryState, LogState, Statuses, MailState
<1> QED
  BY <1>0, <1>1, <1>2, <1>3, <1>4, <1>5, JobStepJobType

LEMMA PipelineTypeNext == ASSUME TypeOK, [Next]_vars PROVE TypeOK'
<1>0. /\ up \in BOOLEAN /\ registry \in RegistryState /\ active \in [Tables -> BOOLEAN]
      /\ job \in [Jobs -> JobState]
      /\ log \in [Jobs -> LogState] /\ mail \in [Jobs -> MailState]
  BY TypeParts
<1>p. TypeOK' <=> /\ up' \in BOOLEAN
                  /\ registry' \in RegistryState
                  /\ active' \in [Tables -> BOOLEAN]
                  /\ job' \in [Jobs -> JobState]
                  /\ log' \in [Jobs -> LogState]
                  /\ mail' \in [Jobs -> MailState]
  BY DEF TypeOK, RegistryState, LogState, Statuses, MailState
<1>1. CASE UNCHANGED vars
  BY <1>0, <1>1, <1>p DEF vars
<1>2. ASSUME NEW j \in Jobs, Start(j) \/ StartFails(j) PROVE TypeOK'
  <2>1. Finished("running", {}) \in LogState
    BY DEF Finished, LogState, Statuses
  <2>2. log' \in [Jobs -> LogState]
    BY <1>0, <1>2, <2>1, LogType DEF Start, StartFails
  <2>3. CASE Start(j)
    <3>1. PICK by \in {"cron", "admin"}, kind \in {"full", "custom"}, asked \in SUBSET Tables :
            Set(j, [job[j] EXCEPT !.pc = IF asked = {} /\ kind = "custom"
                                          THEN "nothing" ELSE "registry",
                                  !.kind = kind, !.by = by, !.asked = asked])
      BY <2>3 DEF Start
    <3> DEFINE pc == IF asked = {} /\ kind = "custom" THEN "nothing" ELSE "registry"
    <3>2. pc \in Phases
      BY DEF Phases
    <3> HIDE DEF pc
    <3>3. [job[j] EXCEPT !.pc = pc, !.kind = kind, !.by = by, !.asked = asked] \in JobState
      BY <1>0, <3>2, CallType
    <3>4. job' \in [Jobs -> JobState]
      BY <1>0, <3>1, <3>3, SetType DEF pc
    <3> QED
      BY <1>0, <1>p, <2>2, <2>3, <3>4 DEF Start
  <2>4. CASE StartFails(j)
    <3>1. job' \in [Jobs -> JobState]
      BY <1>0, <2>4, CallType, SetType DEF StartFails, Phases
    <3> QED
      BY <1>0, <1>p, <2>2, <2>4, <3>1 DEF StartFails
  <2> QED
    BY <1>2, <2>3, <2>4
<1>3. ASSUME NEW j \in Jobs, JobStep(j) PROVE TypeOK'
  BY <1>3, JobStepType
<1>4. CASE Crash
  <2>1. \A i \in Jobs : Interrupted(i) \in JobState
    BY <1>0, PhaseType DEF Interrupted, Phases
  <2> QED
    BY <1>0, <1>p, <1>4, <2>1 DEF Crash
<1>5. CASE Boot
  <2>1. Finished("failed", {}) \in LogState
    BY DEF Finished, LogState, Statuses, FinalStatus
  <2>2. log' \in [Jobs -> LogState]
    BY <1>0, <1>5, <2>1 DEF Boot
  <2> QED
    BY <1>0, <1>p, <1>5, <2>2 DEF Boot
<1>6. ASSUME NEW t \in Tables, RunDetector(t) \/ MarkAsStable(t) \/ ToggleActive(t) PROVE TypeOK'
  <2>1. registry' \in RegistryState
    BY <1>0, <1>6 DEF RunDetector, MarkAsStable, ToggleActive, RegistryState
  <2>2. active' \in [Tables -> BOOLEAN]
    BY <1>0, <1>6 DEF RunDetector, MarkAsStable, ToggleActive
  <2> QED
    BY <1>0, <1>p, <1>6, <2>1, <2>2 DEF RunDetector, MarkAsStable, ToggleActive
<1> QED
  BY <1>1, <1>2, <1>3, <1>4, <1>5, <1>6 DEF Next

\* The type invariant holds for any tables, jobs and failures.
THEOREM PipelineTypeCorrect == Spec => []TypeOK
<1>1. Init => TypeOK
  BY NotStartedType, EndpointsAssumption DEF Init, TypeOK, NoLog
<1>2. TypeOK /\ [Next]_vars => TypeOK'
  BY PipelineTypeNext
<1> QED
  BY <1>1, <1>2, PTL DEF Spec

-----------------------------------------------------------------------------
(* The inductive invariant: one lemma per change of a job's locals.        *)

\* Changes of the phase alone leave the results, and what is said of them.
SameResults(s, t) ==
  /\ t.result = s.result /\ t.chosen = s.chosen /\ t.by = s.by

LEMMA SameStatus ==
  ASSUME NEW s, NEW t, SameResults(s, t)
  PROVE  Status(t) = Status(s) /\ Synced(t) = Synced(s)
BY DEF SameResults, Status, Synced, With

\* A job that is cut short, whatever it leaves of its locals and its log.
LEMMA AbortedInv ==
  ASSUME NEW s \in JobState, NEW e, NEW m, NEW pc \in {"catch", "alert", "threw", "dead"},
         NEW e2, NEW t \in JobState, JobInv(s, e, m), s.pc # "new",
         t.pc = pc, t.aborted, t.by = s.by, t.chosen = s.chosen, t.result = s.result,
         pc \in {"catch", "alert"} => e2.status # "none",
         s.pc \in {"returned", "over", "dead"} => pc = "dead" /\ e2 = e
  PROVE  JobInv(t, e2, m)
<1>1. EntryInv(t, e2)
  BY DEF EntryInv
<1>2. MailInv(t, e2, m)
  BY DEF MailInv, JobInv
<1> QED
  BY <1>1, <1>2 DEF JobInv

LEMMA RegistryInv ==
  ASSUME NEW s \in JobState, NEW e, NEW m, JobInv(s, e, m), s.pc = "registry",
         NEW chosen \in SUBSET Tables
  PROVE  JobInv([s EXCEPT !.pc = IF chosen = {} THEN "nothing" ELSE "tables",
                          !.chosen = chosen, !.todo = chosen], e, m)
<1> DEFINE t == [s EXCEPT !.pc = IF chosen = {} THEN "nothing" ELSE "tables",
                          !.chosen = chosen, !.todo = chosen]
<1>1. /\ t.pc = (IF chosen = {} THEN "nothing" ELSE "tables")
      /\ t.chosen = chosen /\ t.todo = chosen /\ t.table = s.table
      /\ t.result = s.result /\ t.by = s.by /\ t.aborted = s.aborted
  BY DEF JobState
<1> HIDE DEF t
<1>2. ~s.aborted /\ TablesInv(s)
  BY DEF JobInv
<1>3. TablesInv(t)
  BY <1>1, <1>2 DEF TablesInv
<1>4. EntryInv(t, e) /\ MailInv(t, e, m)
  BY <1>1 DEF JobInv, EntryInv, MailInv
<1>5. JobInv(t, e, m)
  BY <1>1, <1>2, <1>3, <1>4 DEF JobInv
<1> QED
  BY <1>5 DEF t

LEMMA ResultInv ==
  ASSUME NEW s \in JobState, NEW e, NEW m, JobInv(s, e, m), NEW b \in Tables,
         NEW outcome \in {"success", "warning", "failed"}
  PROVE  /\ s.pc = "tables" /\ b \in s.todo =>
              JobInv([s EXCEPT !.todo = @ \ {b}, !.result[b] = outcome], e, m)
         /\ s.pc = "sync" /\ s.table = {b} =>
              JobInv([s EXCEPT !.pc = "tables", !.table = {}, !.own = TRUE,
                               !.result[b] = outcome], e, m)
         /\ \A own \in BOOLEAN : s.pc = "tables" /\ b \in s.todo =>
              JobInv([s EXCEPT !.pc = "sync", !.todo = @ \ {b}, !.table = {b}, !.own = own], e, m)
<1>1. ASSUME s.pc = "tables", b \in s.todo
      PROVE  JobInv([s EXCEPT !.todo = @ \ {b}, !.result[b] = outcome], e, m)
  <2> DEFINE t == [s EXCEPT !.todo = @ \ {b}, !.result[b] = outcome]
  <2>1. /\ t.pc = s.pc /\ t.chosen = s.chosen /\ t.todo = s.todo \ {b} /\ t.table = s.table
        /\ t.by = s.by /\ t.aborted = s.aborted
        /\ \A c \in Tables : t.result[c] = IF c = b THEN outcome ELSE s.result[c]
    BY DEF JobState
  <2> HIDE DEF t
  <2>2. ~s.aborted /\ TablesInv(s)
    BY <1>1 DEF JobInv
  <2>3. TablesInv(t)
    BY <1>1, <2>1, <2>2 DEF TablesInv
  <2>4. EntryInv(t, e) /\ MailInv(t, e, m)
    BY <1>1, <2>1 DEF JobInv, EntryInv, MailInv
  <2>5. JobInv(t, e, m)
    BY <1>1, <2>1, <2>2, <2>3, <2>4 DEF JobInv
  <2> QED
    BY <2>5 DEF t
<1>2. ASSUME s.pc = "sync", s.table = {b}
      PROVE  JobInv([s EXCEPT !.pc = "tables", !.table = {}, !.own = TRUE,
                              !.result[b] = outcome], e, m)
  <2> DEFINE t == [s EXCEPT !.pc = "tables", !.table = {}, !.own = TRUE, !.result[b] = outcome]
  <2>1. /\ t.pc = "tables" /\ t.chosen = s.chosen /\ t.todo = s.todo /\ t.table = {}
        /\ t.by = s.by /\ t.aborted = s.aborted
        /\ \A c \in Tables : t.result[c] = IF c = b THEN outcome ELSE s.result[c]
    BY DEF JobState
  <2> HIDE DEF t
  <2>2. ~s.aborted /\ TablesInv(s)
    BY <1>2 DEF JobInv
  <2>3. TablesInv(t)
    BY <1>2, <2>1, <2>2 DEF TablesInv
  <2>4. EntryInv(t, e) /\ MailInv(t, e, m)
    BY <1>2, <2>1 DEF JobInv, EntryInv, MailInv
  <2>5. JobInv(t, e, m)
    BY <1>2, <2>1, <2>2, <2>3, <2>4 DEF JobInv
  <2> QED
    BY <2>5 DEF t
<1>3. ASSUME NEW own \in BOOLEAN, s.pc = "tables", b \in s.todo
      PROVE  JobInv([s EXCEPT !.pc = "sync", !.todo = @ \ {b}, !.table = {b}, !.own = own], e, m)
  <2> DEFINE t == [s EXCEPT !.pc = "sync", !.todo = @ \ {b}, !.table = {b}, !.own = own]
  <2>1. /\ t.pc = "sync" /\ t.chosen = s.chosen /\ t.todo = s.todo \ {b} /\ t.table = {b}
        /\ t.by = s.by /\ t.aborted = s.aborted /\ t.result = s.result
    BY DEF JobState
  <2> HIDE DEF t
  <2>2. ~s.aborted /\ TablesInv(s)
    BY <1>3 DEF JobInv
  <2>3. TablesInv(t)
    BY <1>3, <2>1, <2>2 DEF TablesInv
  <2>4. EntryInv(t, e) /\ MailInv(t, e, m)
    BY <1>3, <2>1 DEF JobInv, EntryInv, MailInv
  <2>5. JobInv(t, e, m)
    BY <1>3, <2>1, <2>2, <2>3, <2>4 DEF JobInv
  <2> QED
    BY <2>5 DEF t
<1> QED
  BY <1>1, <1>2, <1>3

\* The log is finished: the entry is what the tables say.
LEMMA FinishInv ==
  ASSUME NEW s \in JobState, NEW e, NEW m, JobInv(s, e, m), AtTheEnd(s)
  PROVE  JobInv([s EXCEPT !.pc = IF @ = "nothing" THEN "returned" ELSE "notify"],
                Ending(s), m)
<1> DEFINE t == [s EXCEPT !.pc = IF @ = "nothing" THEN "returned" ELSE "notify"]
<1>1. /\ t.pc = (IF s.pc = "nothing" THEN "returned" ELSE "notify")
      /\ t.chosen = s.chosen /\ t.todo = s.todo /\ t.table = s.table
      /\ t.result = s.result /\ t.by = s.by /\ t.aborted = s.aborted
  BY DEF JobState
<1> HIDE DEF t
<1>2. ~s.aborted /\ TablesInv(s)
  BY DEF JobInv, AtTheEnd
<1>3. Status(t) = Status(s) /\ Synced(t) = Synced(s)
  BY <1>1, SameStatus DEF SameResults
<1>4. TablesInv(t)
  BY <1>1, <1>2 DEF TablesInv, AtTheEnd
<1>5. EntryInv(t, Ending(s))
  <2>1. Ending(s).status # "none"
    BY DEF Ending, Finished, Status
  <2>2. IF s.chosen = {} THEN Ending(s) = Finished("failed", {})
                         ELSE Ending(s) = Finished(Status(s), Synced(s))
    BY <1>2 DEF AtTheEnd, TablesInv, Ending
  <2> QED
    BY <1>1, <1>3, <2>1, <2>2 DEF EntryInv
<1>6. MailInv(t, Ending(s), m)
  BY <1>1 DEF MailInv, JobInv, AtTheEnd
<1>7. JobInv(t, Ending(s), m)
  BY <1>1, <1>2, <1>4, <1>5, <1>6 DEF JobInv, AtTheEnd
<1> QED
  BY <1>7 DEF t

\* The mail of a job that was not cut short.
LEMMA NotifyInv ==
  ASSUME NEW s \in JobState, NEW e, NEW m, JobInv(s, e, m), s.pc = "notify"
  PROVE  JobInv([s EXCEPT !.pc = "returned"], e,
                m \cup {IF Status(s) = "done" THEN "success" ELSE "failure"})
<1> DEFINE t == [s EXCEPT !.pc = "returned"]
           mails == m \cup {IF Status(s) = "done" THEN "success" ELSE "failure"}
<1>1. /\ t.pc = "returned"
      /\ t.chosen = s.chosen /\ t.todo = s.todo /\ t.table = s.table
      /\ t.result = s.result /\ t.by = s.by /\ t.aborted = s.aborted
  BY DEF JobState
<1>2. ~s.aborted /\ TablesInv(s) /\ EntryInv(s, e) /\ MailInv(s, e, m)
  BY DEF JobInv
<1>3. Status(t) = Status(s) /\ Synced(t) = Synced(s)
  BY <1>1, SameStatus DEF SameResults
<1>4. ASSUME s.by = "admin", "success" \in mails
      PROVE  e.status = "done" /\ \A b \in s.chosen : s.result[b] = "success"
  <2>1. "success" \notin m
    BY <1>2, <1>4 DEF MailInv
  <2>2. Status(s) = "done"
    BY <1>4, <2>1
  <2>3. e.status = "done"
    BY <1>2, <2>2 DEF EntryInv, TablesInv, Finished
  <2>4. With(s, {"failed"}) = {} /\ With(s, {"warning"}) = {}
    BY <2>2 DEF Status
  <2>5. s.chosen \subseteq Tables /\ s.result \in [Tables -> Outcomes]
    BY DEF JobState
  <2>6. \A b \in s.chosen : s.result[b] # "none" /\ s.result[b] \in Outcomes
    BY <1>2, <2>5 DEF TablesInv
  <2> QED
    BY <2>3, <2>4, <2>5, <2>6 DEF With, Outcomes
<1> HIDE DEF t, mails
<1>5. TablesInv(t)
  BY <1>1, <1>2 DEF TablesInv
<1>6. EntryInv(t, e)
  BY <1>1, <1>2, <1>3 DEF EntryInv
<1>7. MailInv(t, e, mails)
  BY <1>1, <1>4 DEF MailInv
<1>8. JobInv(t, e, mails)
  BY <1>1, <1>2, <1>5, <1>6, <1>7 DEF JobInv
<1> QED
  BY <1>8 DEF t, mails

\* A job that is over, with what its caller made of it.
LEMMA OverInv ==
  ASSUME NEW s \in JobState, NEW e, NEW m, JobInv(s, e, m), s.pc \in {"returned", "threw"},
         NEW mails, s.by = "admin" => mails = m
  PROVE  JobInv([s EXCEPT !.pc = "over"], e, mails)
<1> DEFINE t == [s EXCEPT !.pc = "over"]
<1>1. /\ t.pc = "over"
      /\ t.chosen = s.chosen /\ t.todo = s.todo /\ t.table = s.table
      /\ t.result = s.result /\ t.by = s.by /\ t.aborted = s.aborted
  BY DEF JobState
<1> HIDE DEF t
<1>2. Status(t) = Status(s) /\ Synced(t) = Synced(s)
  BY <1>1, SameStatus DEF SameResults
<1>3. ~t.aborted => TablesInv(t)
  BY <1>1 DEF TablesInv, JobInv
<1>4. EntryInv(t, e)
  BY <1>1, <1>2 DEF EntryInv, JobInv
<1>5. MailInv(t, e, mails)
  BY <1>1 DEF MailInv, JobInv
<1>6. JobInv(t, e, mails)
  BY <1>1, <1>3, <1>4, <1>5 DEF JobInv
<1> QED
  BY <1>6 DEF t

\* A step of one job leaves the others alone.
LEMMA OneJob ==
  ASSUME PipelineInv, NEW j \in Jobs, up, up' = up,
         \A i \in Jobs : i # j => job'[i] = job[i] /\ log'[i] = log[i] /\ mail'[i] = mail[i],
         JobInv(job'[j], log'[j], mail'[j])
  PROVE  PipelineInv'
BY DEF PipelineInv

LEMMA InFlightUp == ASSUME PipelineInv, up \in BOOLEAN, NEW j \in Jobs, InFlight(job[j]) PROVE up
BY DEF PipelineInv

\* What an exception of job j does.
LEMMA AbortInv ==
  ASSUME TypeOK, PipelineInv, NEW j \in Jobs,
         job[j].pc \in {"registry", "tables", "nothing"},
         NEW refused \in BOOLEAN, AbortFor(j, refused),
         log'[j].status # "none", mail'[j] = mail[j]
  PROVE  JobInv(job'[j], log'[j], mail'[j])
<1> DEFINE s == job[j]
           t == [s EXCEPT !.pc = "catch", !.table = {}, !.aborted = TRUE,
                          !.refused = refused]
<1>1. s \in JobState /\ job \in [Jobs -> JobState] /\ JobInv(s, log[j], mail[j])
  BY TypeParts DEF PipelineInv
<1>2. t \in JobState
  BY <1>1 DEF JobState
<1>3. job'[j] = t
  BY <1>1 DEF AbortFor, Set
<1>4. /\ t.pc = "catch" /\ t.aborted /\ t.by = s.by
      /\ t.chosen = s.chosen /\ t.result = s.result
  BY <1>1 DEF JobState
<1> HIDE DEF t
<1>5. JobInv(t, log'[j], mail[j])
  BY <1>1, <1>2, <1>4, AbortedInv
<1> QED
  BY <1>3, <1>5

LEMMA InterruptedInv ==
  ASSUME NEW s \in JobState, NEW e, NEW m, JobInv(s, e, m)
  PROVE  JobInv(IF InFlight(s) THEN [s EXCEPT !.pc = "dead", !.aborted = TRUE] ELSE s, e, m)
<1> DEFINE t == [s EXCEPT !.pc = "dead", !.aborted = TRUE]
<1>1. t \in JobState
  BY PhaseType DEF Phases
<1>2. /\ t.pc = "dead" /\ t.aborted /\ t.by = s.by
      /\ t.chosen = s.chosen /\ t.result = s.result
  BY DEF JobState
<1> HIDE DEF t
<1>3. InFlight(s) => JobInv(t, e, m)
  BY <1>1, <1>2, AbortedInv DEF InFlight
<1> QED
  BY <1>3 DEF t

LEMMA JobStepInv ==
  ASSUME TypeOK, PipelineInv, NEW j \in Jobs, JobStep(j) PROVE PipelineInv'
<1> DEFINE s == job[j]
<1>0. /\ s \in JobState /\ job \in [Jobs -> JobState] /\ JobInv(s, log[j], mail[j])
      /\ log \in [Jobs -> LogState] /\ mail \in [Jobs -> MailState]
      /\ up \in BOOLEAN /\ active \in [Tables -> BOOLEAN]
  BY TypeParts DEF PipelineInv
<1>1. CASE ReadRegistry(j)
  <2> DEFINE chosen == {t \in s.asked : registry[t].status = "stable"}
  <2>1. chosen \in SUBSET Tables
    BY <1>0 DEF JobState
  <2>2. /\ job' = [job EXCEPT ![j] =
                     [s EXCEPT !.pc = IF chosen = {} THEN "nothing" ELSE "tables",
                               !.chosen = chosen, !.todo = chosen]]
        /\ s.pc = "registry" /\ UNCHANGED <<up, log, mail>>
    BY <1>1 DEF ReadRegistry, Set
  <2> HIDE DEF chosen
  <2>3. JobInv(job'[j], log'[j], mail'[j])
    BY <1>0, <2>1, <2>2, RegistryInv
  <2> QED
    BY <1>0, <2>2, <2>3, OneJob, InFlightUp DEF InFlight
<1>2. CASE ReadRegistryFails(j)
  <2>1. JobInv(job'[j], log'[j], mail'[j])
    BY <1>0, <1>2, AbortInv DEF ReadRegistryFails, Abort, JobInv, EntryInv
  <2> QED
    BY <1>0, <1>2, <2>1, OneJob, InFlightUp DEF ReadRegistryFails, Abort, AbortFor, Set, InFlight
<1>3. ASSUME NEW t \in Tables, TableStep(j, t) PROVE PipelineInv'
  <2>1. CASE SkipTable(j, t)
    <3>1. JobInv(job'[j], log'[j], mail'[j])
      BY <1>0, <2>1, ResultInv DEF SkipTable, Set
    <3> QED
      BY <1>0, <2>1, <3>1, OneJob, InFlightUp DEF SkipTable, Set, InFlight
  <2>2. CASE ResolveCredentials(j, t)
    <3>1. active[t] \in BOOLEAN
      BY <1>0
    <3>2. JobInv(job'[j], log'[j], mail'[j])
      BY <1>0, <2>2, <3>1, ResultInv DEF ResolveCredentials, Set
    <3> QED
      BY <1>0, <2>2, <3>2, OneJob, InFlightUp DEF ResolveCredentials, Set, InFlight
  <2>3. CASE CredentialsFail(j, t)
    <3>1. JobInv(job'[j], log'[j], mail'[j])
      BY <1>0, <2>3, AbortInv DEF CredentialsFail, JobInv, EntryInv
    <3> QED
      BY <1>0, <2>3, <3>1, OneJob, InFlightUp DEF CredentialsFail, Abort, AbortFor, Set, InFlight
  <2>4. ASSUME NEW outcome \in {"success", "warning", "failed"}, Record(j, t, outcome),
               s.pc = "sync", t \in s.table, UNCHANGED <<up, log, mail>>
        PROVE  PipelineInv'
    <3>1. s.table = {t}
      BY <1>0, <2>4 DEF JobInv, TablesInv
    <3>2. JobInv(job'[j], log'[j], mail'[j])
      BY <1>0, <2>4, <3>1, ResultInv DEF Record, Set
    <3> QED
      BY <1>0, <2>4, <3>2, OneJob, InFlightUp DEF Record, Set, InFlight
  <2> QED
    BY <1>3, <2>1, <2>2, <2>3, <2>4 DEF TableStep, SyncReturns, SyncThrows
<1>4. CASE FinishLog(j)
  <2>1. JobInv(job'[j], log'[j], mail'[j])
    BY <1>0, <1>4, FinishInv DEF FinishLog, Set
  <2> QED
    BY <1>0, <1>4, <2>1, OneJob, InFlightUp DEF FinishLog, Set, InFlight, AtTheEnd
<1>5. CASE FinishLogFails(j)
  <2>1. Ending(s).status # "none"
    BY DEF Ending, Finished, Status
  <2>2. log'[j].status # "none"
    BY <1>0, <1>5, <2>1 DEF FinishLogFails, JobInv, EntryInv, AtTheEnd
  <2>3. JobInv(job'[j], log'[j], mail'[j])
    BY <1>0, <1>5, <2>2, AbortInv DEF FinishLogFails, Abort, AtTheEnd
  <2> QED
    BY <1>0, <1>5, <2>3, OneJob, InFlightUp DEF FinishLogFails, Abort, AbortFor, Set, InFlight, AtTheEnd
<1>6. ASSUME NEW pc \in {"alert", "threw"}, Set(j, [s EXCEPT !.pc = pc]),
             s.pc \in {"catch", "alert"}, UNCHANGED up,
             log'[j].status # "none", mail'[j] = mail[j] \/ mail'[j] = mail[j] \cup {"failure"},
             \A i \in Jobs : i # j => log'[i] = log[i] /\ mail'[i] = mail[i]
      PROVE  PipelineInv'
  <2> DEFINE t == [s EXCEPT !.pc = pc]
  <2>1. t \in JobState
    BY <1>0, PhaseType DEF Phases
  <2>2. /\ t.pc = pc /\ t.aborted = s.aborted /\ t.by = s.by
        /\ t.chosen = s.chosen /\ t.result = s.result
    BY <1>0 DEF JobState
  <2>3. s.aborted
    BY <1>0, <1>6 DEF JobInv
  <2>4. job'[j] = t
    BY <1>0, <1>6 DEF Set
  <2>5. \A i \in Jobs : i # j => job'[i] = job[i]
    BY <1>0, <1>6 DEF Set
  <2> HIDE DEF t
  <2>6. JobInv(t, log'[j], mail[j])
    BY <1>0, <1>6, <2>1, <2>2, <2>3, AbortedInv
  <2>7. JobInv(t, log'[j], mail'[j])
    BY <1>6, <2>2, <2>6 DEF JobInv, MailInv
  <2> QED
    BY <1>0, <1>6, <2>4, <2>5, <2>7, OneJob, InFlightUp DEF InFlight
<1>7. CASE Catch(j) \/ CatchFails(j)
  <2>1. log'[j].status # "none"
    BY <1>0, <1>7 DEF Catch, CatchFails, Finished, JobInv, EntryInv
  <2> QED
    BY <1>0, <1>6, <1>7, <2>1 DEF Catch, CatchFails
<1>8. CASE Alert(j)
  <2>1. log'[j].status # "none"
    BY <1>0, <1>8 DEF Alert, JobInv, EntryInv
  <2> QED
    BY <1>0, <1>6, <1>8, <2>1 DEF Alert, Send
<1>9. CASE Notify(j)
  <2>1. JobInv(job'[j], log'[j], mail'[j])
    BY <1>0, <1>9, NotifyInv DEF Notify, Send, Set
  <2> QED
    BY <1>0, <1>9, <2>1, OneJob, InFlightUp DEF Notify, Send, Set, InFlight
<1>10. CASE SchedulerReports(j) \/ ControllerIgnores(j)
  <2>1. /\ job' = [job EXCEPT ![j] = [s EXCEPT !.pc = "over"]]
        /\ s.pc \in {"returned", "threw"} /\ UNCHANGED <<up, log>>
        /\ \A i \in Jobs : i # j => mail'[i] = mail[i]
        /\ s.by = "admin" => mail'[j] = mail[j]
    BY <1>0, <1>10 DEF SchedulerReports, ControllerIgnores, Set, Send
  <2>2. JobInv(job'[j], log'[j], mail'[j])
    BY <1>0, <2>1, OverInv
  <2> QED
    BY <1>0, <2>1, <2>2, OneJob, InFlightUp DEF InFlight
<1>11. CASE UnhandledRejection(j)
  <2>1. JobInv([s EXCEPT !.pc = "over"], log[j], mail[j])
    BY <1>0, <1>11, OverInv DEF UnhandledRejection
  <2>2. \A i \in Jobs : JobInv(Interrupted(i), log[i], mail[i])
    BY <1>0, InterruptedInv DEF Interrupted, PipelineInv
  <2>3. \A i \in Jobs : JobInv(job'[i], log'[i], mail'[i])
    BY <1>11, <2>1, <2>2 DEF UnhandledRejection
  <2>4. \A i \in Jobs : ~InFlight(job'[i])
    <3>1. [s EXCEPT !.pc = "over"].pc = "over"
      BY <1>0 DEF JobState
    <3>2. \A i \in Jobs : ~InFlight(Interrupted(i))
      BY <1>0 DEF Interrupted, InFlight, JobState
    <3> QED
      BY <1>11, <3>1, <3>2 DEF UnhandledRejection, InFlight
  <2> QED
    BY <2>3, <2>4 DEF PipelineInv
<1> QED
  BY <1>1, <1>2, <1>3, <1>4, <1>5, <1>7, <1>8, <1>9, <1>10, <1>11 DEF JobStep

LEMMA StartInv ==
  ASSUME TypeOK, PipelineInv, NEW j \in Jobs, Start(j) \/ StartFails(j) PROVE PipelineInv'
<1> DEFINE s == job[j]
<1>0. /\ s \in JobState /\ job \in [Jobs -> JobState] /\ JobInv(s, log[j], mail[j])
      /\ log \in [Jobs -> LogState] /\ s.pc = "new" /\ up /\ mail' = mail /\ up' = up
  BY TypeParts DEF PipelineInv, Start, StartFails
<1>1. ~s.aborted /\ TablesInv(s) /\ mail[j] = {}
  BY <1>0 DEF JobInv
<1>2. CASE Start(j)
  <2>1. PICK by \in {"cron", "admin"}, kind \in {"full", "custom"}, asked \in SUBSET Tables :
          job' = [job EXCEPT ![j] =
                   [s EXCEPT !.pc = IF asked = {} /\ kind = "custom" THEN "nothing" ELSE "registry",
                             !.kind = kind, !.by = by, !.asked = asked]]
    BY <1>2 DEF Start, Set
  <2> DEFINE t == [s EXCEPT !.pc = IF asked = {} /\ kind = "custom" THEN "nothing" ELSE "registry",
                            !.kind = kind, !.by = by, !.asked = asked]
  <2>2. /\ t.pc \in {"nothing", "registry"} /\ t.aborted = s.aborted
        /\ t.chosen = s.chosen /\ t.result = s.result /\ t.todo = s.todo /\ t.table = s.table
    BY <1>0 DEF JobState
  <2>3. job'[j] = t /\ (\A i \in Jobs : i # j => job'[i] = job[i])
    BY <1>0, <2>1
  <2>4. log'[j].status = "running" /\ (\A i \in Jobs : i # j => log'[i] = log[i])
    BY <1>0, <1>2 DEF Start, Finished
  <2> HIDE DEF t
  <2>5. TablesInv(t)
    BY <1>0, <1>1, <2>2 DEF TablesInv
  <2>6. EntryInv(t, log'[j]) /\ MailInv(t, log'[j], mail[j])
    BY <1>1, <2>2, <2>4 DEF EntryInv, MailInv
  <2>7. JobInv(t, log'[j], mail[j])
    BY <1>1, <2>2, <2>5, <2>6 DEF JobInv
  <2> QED
    BY <1>0, <2>3, <2>4, <2>7, OneJob
<1>3. CASE StartFails(j)
  <2>1. PICK by \in {"cron", "admin"} :
          job' = [job EXCEPT ![j] = [s EXCEPT !.pc = "threw", !.by = by, !.aborted = TRUE]]
    BY <1>3 DEF StartFails, Set
  <2> DEFINE t == [s EXCEPT !.pc = "threw", !.by = by, !.aborted = TRUE]
  <2>2. t.pc = "threw" /\ t.aborted
    BY <1>0 DEF JobState
  <2>3. job'[j] = t /\ (\A i \in Jobs : i # j => job'[i] = job[i])
    BY <1>0, <2>1
  <2>4. \A i \in Jobs : i # j => log'[i] = log[i]
    BY <1>0, <1>3 DEF StartFails
  <2> HIDE DEF t
  <2>5. JobInv(t, log'[j], mail[j])
    BY <1>1, <2>2 DEF JobInv, EntryInv, MailInv
  <2> QED
    BY <1>0, <2>3, <2>4, <2>5, OneJob
<1> QED
  BY <1>2, <1>3

LEMMA PipelineInvNext == ASSUME TypeOK, PipelineInv, [Next]_vars PROVE PipelineInv'
<1>0. job \in [Jobs -> JobState] /\ log \in [Jobs -> LogState]
  BY TypeParts
<1>1. CASE UNCHANGED vars
  BY <1>1 DEF vars, PipelineInv
<1>2. CASE Crash
  <2>1. \A i \in Jobs : JobInv(Interrupted(i), log[i], mail[i])
    BY <1>0, InterruptedInv DEF Interrupted, PipelineInv
  <2>2. \A i \in Jobs : ~InFlight(Interrupted(i))
    BY <1>0 DEF Interrupted, InFlight, JobState
  <2> QED
    BY <1>2, <2>1, <2>2 DEF Crash, PipelineInv
<1>3. CASE Boot
  <2>1. ASSUME NEW j \in Jobs PROVE JobInv(job[j], log'[j], mail[j])
    <3>1. JobInv(job[j], log[j], mail[j]) /\ ~InFlight(job[j])
      BY <1>3 DEF Boot, PipelineInv
    <3>2. CASE log[j].status # "running"
      BY <1>0, <1>3, <3>1, <3>2 DEF Boot
    <3>3. CASE log[j].status = "running"
      <4>1. log'[j].status = "failed"
        BY <1>3, <3>3 DEF Boot, Finished
      <4>2. job[j].pc \in {"new", "over", "dead"} /\ job[j].pc # "new"
        BY <3>1, <3>3 DEF InFlight, JobInv, EntryInv, NoLog
      <4>3. job[j].pc = "over" => job[j].aborted
        <5>1. Status(job[j]) # "running"
          BY DEF Status
        <5> QED
          BY <3>1, <3>3, <5>1 DEF JobInv, EntryInv, Finished
      <4> QED
        BY <3>1, <3>3, <4>1, <4>2, <4>3 DEF JobInv, EntryInv, MailInv
    <3> QED
      BY <3>2, <3>3
  <2> QED
    BY <1>3, <2>1 DEF Boot, PipelineInv
<1>4. ASSUME NEW t \in Tables, RunDetector(t) \/ MarkAsStable(t) \/ ToggleActive(t)
      PROVE  PipelineInv'
  BY <1>4 DEF RunDetector, MarkAsStable, ToggleActive, PipelineInv
<1> QED
  BY <1>1, <1>2, <1>3, <1>4, StartInv, JobStepInv DEF Next

LEMMA PipelineInvInit == Init => PipelineInv
BY DEF Init, PipelineInv, JobInv, TablesInv, EntryInv, MailInv, NotStarted, NoLog

\* The phases of a job, its log and its mails fit together, whatever fails.
THEOREM PipelineInvariant == Spec => []PipelineInv
<1>1. TypeOK /\ PipelineInv /\ [Next]_vars => PipelineInv'
  BY PipelineInvNext
<1> QED
  BY <1>1, PipelineInvInit, PipelineTypeCorrect, PTL DEF Spec

\* The log of a job that was not cut short tells what became of its tables.
THEOREM LogIsTrue == Spec => []LogTellsOutcome
<1>1. TypeOK /\ PipelineInv => LogTellsOutcome
  <2> SUFFICES ASSUME TypeOK, PipelineInv, NEW j \in Jobs,
                      job[j].pc \in {"notify", "returned", "over"}, ~job[j].aborted
               PROVE  LET s == job[j]
                          synced == Synced(s)
                      IN  /\ log[j].synced = synced /\ synced \subseteq s.chosen
                          /\ log[j].status = "done" =>
                               s.chosen # {} /\ s.chosen = synced /\ With(s, {"warning"}) = {}
                          /\ log[j].status = "done_with_warnings" =>
                               s.chosen = synced /\ With(s, {"warning"}) # {}
                          /\ log[j].status = "partial_success" => synced # {} /\ synced # s.chosen
                          /\ log[j].status = "failed" => synced = {}
                          /\ log[j].status \in FinalStatus
    BY DEF LogTellsOutcome
  <2> DEFINE s == job[j]
  <2>1. s \in JobState /\ TablesInv(s) /\ EntryInv(s, log[j])
    BY TypeParts DEF PipelineInv, JobInv
  <2>2. s.chosen \subseteq Tables /\ s.result \in [Tables -> Outcomes]
    BY <2>1 DEF JobState
  <2>3. \A t \in Tables : s.result[t] # "none" <=> t \in s.chosen
    BY <2>1 DEF TablesInv
  <2>4. \A t \in Tables : s.result[t] \in Outcomes
    BY <2>2
  <2>5. CASE s.chosen = {}
    <3>1. log[j].status = "failed" /\ log[j].synced = {}
      BY <2>1, <2>5 DEF EntryInv, Finished
    <3>2. Synced(s) = {}
      BY <2>3, <2>5 DEF Synced, With
    <3> QED
      BY <3>1, <3>2 DEF FinalStatus
  <2>6. CASE s.chosen # {}
    <3>1. log[j].status = Status(s) /\ log[j].synced = Synced(s)
      BY <2>1, <2>6 DEF EntryInv, Finished
    <3>2. Synced(s) \subseteq s.chosen
      BY <2>3 DEF Synced, With
    <3>3. With(s, {"failed"}) \subseteq s.chosen /\ With(s, {"failed"}) \cap Synced(s) = {}
      BY <2>3 DEF Synced, With
    <3>4. With(s, {"failed"}) = {} => s.chosen = Synced(s)
      BY <2>2, <2>3, <2>4 DEF Synced, With, Outcomes
    <3> QED
      BY <2>6, <3>1, <3>2, <3>3, <3>4 DEF Status, FinalStatus
  <2> QED
    BY <2>5, <2>6
<1> QED
  BY <1>1, PipelineInvariant, PipelineTypeCorrect, PTL

\* The mail of success of a job the administrator started is true.
THEOREM SuccessMailIsCorrect == Spec => []SuccessMailIsTrue
<1>1. PipelineInv => SuccessMailIsTrue
  BY DEF PipelineInv, JobInv, MailInv, SuccessMailIsTrue
<1> QED
  BY <1>1, PipelineInvariant, PTL

-----------------------------------------------------------------------------
(* The event log's life cycle                                              *)

\* What the refinement mapping makes of a change of one entry.
LEMMA EntryOf ==
  ASSUME NEW j \in Jobs
  PROVE  Entry[j] = (CASE log[j].status = "none" -> "none"
                       [] log[j].status = "running" -> "open"
                       [] OTHER -> "closed")
BY DEF Entry

LEMMA LogStep ==
  ASSUME TypeOK, PipelineInv, [Next]_vars PROVE [Log!Next]_Entry
<1> DEFINE value(e) == CASE e.status = "none" -> "none"
                         [] e.status = "running" -> "open"
                         [] OTHER -> "closed"
<1>0. log \in [Jobs -> LogState]
  BY TypeParts
<1>1. Entry = [i \in Jobs |-> value(log[i])] /\ Entry' = [i \in Jobs |-> value(log'[i])]
  BY DEF Entry
<1>2. ASSUME log' = log PROVE [Log!Next]_Entry
  BY <1>2 DEF Entry
<1>3. ASSUME NEW j \in Jobs, log[j].status = "none",
             log' = [log EXCEPT ![j] = Finished("running", {})]
      PROVE  [Log!Next]_Entry
  <2>1. Entry[j] = "none" /\ Entry' = [Entry EXCEPT ![j] = "open"]
    BY <1>0, <1>1, <1>3 DEF Finished
  <2> QED
    BY <2>1 DEF Log!Next, Log!Open
<1>4. ASSUME NEW closed \in SUBSET Jobs, \A i \in closed : log[i].status # "none",
             \A i \in closed : log'[i].status \in FinalStatus,
             \A i \in Jobs : i \notin closed => log'[i] = log[i]
      PROVE  [Log!Next]_Entry
  <2> DEFINE open == {i \in closed : log[i].status = "running"}
  <2>1. \A i \in open : Entry[i] = "open"
    BY <1>1
  <2>2. Entry' = [i \in Jobs |-> IF i \in open THEN "closed" ELSE Entry[i]]
    BY <1>0, <1>1, <1>4 DEF FinalStatus
  <2>3. CASE open = {}
    BY <1>1, <2>2, <2>3
  <2>4. CASE open # {}
    BY <2>1, <2>2, <2>4 DEF Log!Next, Log!Close
  <2> QED
    BY <2>3, <2>4
<1>5. ASSUME NEW j \in Jobs, NEW e, e.status \in FinalStatus, log[j].status # "none",
             log' = [log EXCEPT ![j] = e]
      PROVE  [Log!Next]_Entry
  <2>1. {j} \in SUBSET Jobs /\ log'[j] = e /\ (\A i \in Jobs : i \notin {j} => log'[i] = log[i])
    BY <1>0, <1>5
  <2> QED
    BY <1>4, <1>5, <2>1
<1>6. ASSUME NEW j \in Jobs, Start(j) \/ StartFails(j) PROVE [Log!Next]_Entry
  <2>1. log[j].status = "none"
    <3>1. job[j].pc = "new"
      BY <1>6 DEF Start, StartFails
    <3>2. EntryInv(job[j], log[j])
      BY DEF PipelineInv, JobInv
    <3> QED
      BY <3>1, <3>2 DEF EntryInv, NoLog
  <2> QED
    BY <1>2, <1>3, <1>6, <2>1 DEF Start, StartFails
<1>7. ASSUME NEW j \in Jobs, JobStep(j) PROVE [Log!Next]_Entry
  <2>1. CASE FinishLog(j) \/ FinishLogFails(j)
    <3>1. log[j].status # "none"
      BY <2>1 DEF FinishLog, FinishLogFails, AtTheEnd, PipelineInv, JobInv, EntryInv
    <3>2. Ending(job[j]).status \in FinalStatus
      BY DEF Ending, Finished, Status, FinalStatus
    <3> QED
      BY <1>2, <1>5, <2>1, <3>1, <3>2 DEF FinishLog, FinishLogFails
  <2>2. CASE Catch(j) \/ CatchFails(j)
    <3>1. log[j].status # "none"
      BY <2>2 DEF Catch, CatchFails, PipelineInv, JobInv, EntryInv
    <3>2. Finished("failed", {}).status \in FinalStatus
      BY DEF Finished, FinalStatus
    <3> QED
      BY <1>2, <1>5, <2>2, <3>1, <3>2 DEF Catch, CatchFails
  <2> QED
    BY <1>2, <1>7, <2>1, <2>2
       DEF JobStep, ReadRegistry, ReadRegistryFails, TableStep, SkipTable, ResolveCredentials,
           CredentialsFail, SyncReturns, SyncThrows, Notify, Alert, SchedulerReports,
           ControllerIgnores, UnhandledRejection
<1>8. CASE Boot
  <2> DEFINE closed == {i \in Jobs : log[i].status = "running"}
  <2>1. \A i \in closed : log'[i].status \in FinalStatus
    BY <1>8 DEF Boot, Finished, FinalStatus
  <2>2. \A i \in Jobs : i \notin closed => log'[i] = log[i]
    BY <1>8 DEF Boot
  <2> QED
    BY <1>4, <2>1, <2>2
<1>9. CASE Crash \/ \E t \in Tables : RunDetector(t) \/ MarkAsStable(t) \/ ToggleActive(t)
  BY <1>2, <1>9 DEF Crash, RunDetector, MarkAsStable, ToggleActive
<1>10. CASE UNCHANGED vars
  BY <1>2, <1>10 DEF vars
<1> QED
  BY <1>6, <1>7, <1>8, <1>9, <1>10 DEF Next

\* Every log is opened at most once and closed after it was opened, and stays
\* closed: the pipelines implement the safety part of JobLog.
THEOREM LogIsOrderly == Spec => LogIsSafe
<1>1. Init => Log!Init
  BY DEF Init, Log!Init, Entry, NoLog
<1>2. TypeOK /\ PipelineInv /\ [Next]_vars => [Log!Next]_Entry
  BY LogStep
<1> QED
  BY <1>1, <1>2, PipelineInvariant, PipelineTypeCorrect, PTL DEF Spec, LogIsSafe, Log!Safe
-----------------------------------------------------------------------------
(* Alerts                                                                  *)

\* The event log can be written while the process is up: only then does every
\* job that an administrator started end with an alert when it should.
LogIsWritten == Events \cap {"log", "ack"} = {}

\* A job that came to its end with a failed table has been mailed by then, and
\* one that was cut short has been too, by itself or by the scheduler, unless it
\* never got as far as its log.
Alerted(s, e, mails) ==
  /\ s.pc \in {"returned", "over"} /\ ~s.aborted /\ With(s, {"failed"}) # {}
       => "failure" \in mails
  /\ LogIsWritten /\ s.pc \in {"threw", "over"} /\ s.aborted
       => "failure" \in mails \/ e.status = "none"
  /\ s.pc = "over" /\ s.aborted /\ s.by = "cron" => "failure" \in mails

AlertInv == \A j \in Jobs : Alerted(job[j], log[j], mail[j])

\* Nothing is asked of a job before its caller has heard of it.
LEMMA UnderwayAlerted ==
  ASSUME NEW s, NEW e, NEW mails, s.pc \notin {"returned", "threw", "over"}
  PROVE  Alerted(s, e, mails)
BY DEF Alerted

LEMMA OneAlert ==
  ASSUME AlertInv, NEW j \in Jobs,
         \A i \in Jobs : i # j => job'[i] = job[i] /\ log'[i] = log[i] /\ mail'[i] = mail[i],
         Alerted(job'[j], log'[j], mail'[j])
  PROVE  AlertInv'
BY DEF AlertInv

\* A job with nothing to do has no failed table.
LEMMA FinishAlerted ==
  ASSUME NEW s \in JobState, NEW e, NEW m, JobInv(s, e, m), AtTheEnd(s), NEW f
  PROVE  Alerted([s EXCEPT !.pc = IF @ = "nothing" THEN "returned" ELSE "notify"], f, m)
<1> DEFINE t == [s EXCEPT !.pc = IF @ = "nothing" THEN "returned" ELSE "notify"]
<1>1. /\ t.pc = (IF s.pc = "nothing" THEN "returned" ELSE "notify")
      /\ t.result = s.result /\ t.aborted = s.aborted
  BY DEF JobState
<1> HIDE DEF t
<1>2. ~s.aborted /\ TablesInv(s)
  BY DEF JobInv, AtTheEnd
<1>3. s.pc = "nothing" => With(t, {"failed"}) = {}
  BY <1>1, <1>2 DEF TablesInv, With
<1>4. Alerted(t, f, m)
  BY <1>1, <1>2, <1>3 DEF Alerted
<1> QED
  BY <1>4 DEF t

\* A failed table keeps the status from being "done".
LEMMA NotifyAlerted ==
  ASSUME NEW s \in JobState, NEW e, NEW m, ~s.aborted
  PROVE  Alerted([s EXCEPT !.pc = "returned"], e,
                 m \cup {IF Status(s) = "done" THEN "success" ELSE "failure"})
<1> DEFINE t == [s EXCEPT !.pc = "returned"]
           mails == m \cup {IF Status(s) = "done" THEN "success" ELSE "failure"}
<1>1. t.pc = "returned" /\ t.result = s.result /\ t.aborted = s.aborted
  BY DEF JobState
<1>2. With(t, {"failed"}) = With(s, {"failed"})
  BY <1>1 DEF With
<1>3. With(s, {"failed"}) # {} => "failure" \in mails
  BY DEF Status
<1> HIDE DEF t, mails
<1>4. Alerted(t, e, mails)
  BY <1>1, <1>2, <1>3 DEF Alerted
<1> QED
  BY <1>4 DEF t, mails

\* The scheduler adds its own mail, and always one of failure after an exception.
LEMMA OverAlerted ==
  ASSUME NEW s \in JobState, NEW e, NEW m, NEW mails, Alerted(s, e, m),
         JobInv(s, e, m), s.pc \in {"returned", "threw"}, m \subseteq mails,
         s.pc = "threw" /\ s.by = "cron" => "failure" \in mails
  PROVE  Alerted([s EXCEPT !.pc = "over"], e, mails)
<1> DEFINE t == [s EXCEPT !.pc = "over"]
<1>1. /\ t.pc = "over" /\ t.by = s.by
      /\ t.result = s.result /\ t.aborted = s.aborted
  BY DEF JobState
<1> HIDE DEF t
<1>2. With(t, {"failed"}) = With(s, {"failed"})
  BY <1>1 DEF With
<1>3. s.aborted <=> s.pc = "threw"
  BY DEF JobInv
<1>4. Alerted(t, e, mails)
  BY <1>1, <1>2, <1>3 DEF Alerted
<1> QED
  BY <1>4 DEF t

LEMMA InterruptedAlerted ==
  ASSUME NEW s \in JobState, NEW e, NEW m, Alerted(s, e, m)
  PROVE  Alerted(IF InFlight(s) THEN [s EXCEPT !.pc = "dead", !.aborted = TRUE] ELSE s, e, m)
<1> DEFINE t == [s EXCEPT !.pc = "dead", !.aborted = TRUE]
<1>1. t.pc = "dead"
  BY DEF JobState
<1>2. Alerted(t, e, m)
  BY <1>1, UnderwayAlerted
<1> QED
  BY <1>2

LEMMA JobStepAlerted ==
  ASSUME TypeOK, PipelineInv, AlertInv, NEW j \in Jobs, JobStep(j) PROVE AlertInv'
<1> DEFINE s == job[j]
<1>0. /\ s \in JobState /\ job \in [Jobs -> JobState] /\ JobInv(s, log[j], mail[j])
      /\ log \in [Jobs -> LogState] /\ mail \in [Jobs -> MailState]
      /\ Alerted(s, log[j], mail[j])
  BY TypeParts DEF PipelineInv, AlertInv
<1>1. ASSUME NEW t \in JobState, Set(j, t), t.pc \notin {"returned", "threw", "over"},
             \A i \in Jobs : i # j => log'[i] = log[i] /\ mail'[i] = mail[i]
      PROVE  AlertInv'
  <2>1. job'[j] = t /\ (\A i \in Jobs : i # j => job'[i] = job[i])
    BY <1>0, <1>1 DEF Set
  <2>2. Alerted(job'[j], log'[j], mail'[j])
    BY <1>1, <2>1, UnderwayAlerted
  <2> QED
    BY <1>1, <2>1, <2>2, OneAlert
<1>2. CASE ReadRegistry(j)
  <2> DEFINE chosen == {t \in s.asked : registry[t].status = "stable"}
             pc == IF chosen = {} THEN "nothing" ELSE "tables"
             t == [s EXCEPT !.pc = pc, !.chosen = chosen, !.todo = chosen]
  <2>1. chosen \in SUBSET Tables
    BY <1>0 DEF JobState
  <2>2. pc \in Phases /\ pc \in {"nothing", "tables"}
    BY DEF Phases
  <2>3. Set(j, t) /\ UNCHANGED <<log, mail>>
    BY <1>2 DEF ReadRegistry
  <2> HIDE DEF chosen, pc
  <2>4. t \in JobState
    BY <1>0, <2>1, <2>2, PhaseType
  <2>5. t.pc = pc
    BY <1>0 DEF JobState
  <2> HIDE DEF t
  <2> QED
    BY <1>1, <2>2, <2>3, <2>4, <2>5
<1>3. ASSUME NEW b \in BOOLEAN, AbortFor(j, b),
             \A i \in Jobs : i # j => log'[i] = log[i] /\ mail'[i] = mail[i]
      PROVE  AlertInv'
  <2> DEFINE t == [s EXCEPT !.pc = "catch", !.table = {}, !.aborted = TRUE, !.refused = b]
  <2>1. t \in JobState
    BY <1>0 DEF JobState
  <2>2. t.pc = "catch"
    BY <1>0 DEF JobState
  <2> QED
    BY <1>1, <1>3, <2>1, <2>2 DEF AbortFor
<1>4. ASSUME NEW b \in Tables, TableStep(j, b) PROVE AlertInv'
  <2>1. ASSUME NEW outcome \in Outcomes, Record(j, b, outcome), UNCHANGED <<log, mail>>
        PROVE  AlertInv'
    <3> DEFINE t == [s EXCEPT !.pc = "tables", !.table = {}, !.own = TRUE, !.result[b] = outcome]
    <3>1. t \in JobState
      BY <1>0, ResultType
    <3>2. t.pc = "tables"
      BY <1>0 DEF JobState
    <3> QED
      BY <1>1, <2>1, <3>1, <3>2 DEF Record
  <2>2. CASE SkipTable(j, b)
    <3> DEFINE t == [s EXCEPT !.todo = @ \ {b}, !.result[b] = "failed"]
    <3>1. t \in JobState
      BY <1>0, ResultType DEF Outcomes
    <3>2. t.pc = "tables"
      BY <1>0, <2>2 DEF SkipTable, JobState
    <3> QED
      BY <1>1, <2>2, <3>1, <3>2 DEF SkipTable
  <2>3. CASE ResolveCredentials(j, b)
    <3> DEFINE t == [s EXCEPT !.pc = "sync", !.todo = @ \ {b}, !.table = {b}, !.own = active[b]]
    <3>1. active[b] \in BOOLEAN
      BY TypeParts
    <3>2. t \in JobState
      BY <1>0, <3>1, ResultType DEF Outcomes
    <3>3. t.pc = "sync"
      BY <1>0 DEF JobState
    <3> QED
      BY <1>1, <2>3, <3>2, <3>3 DEF ResolveCredentials
  <2>4. CASE CredentialsFail(j, b)
    BY <1>3, <2>4 DEF CredentialsFail
  <2> QED
    BY <1>4, <2>1, <2>2, <2>3, <2>4 DEF TableStep, SyncReturns, SyncThrows, Outcomes
<1>5. CASE FinishLog(j)
  <2>1. Alerted(job'[j], log'[j], mail'[j])
    BY <1>0, <1>5, FinishAlerted DEF FinishLog, Set
  <2> QED
    BY <1>0, <1>5, <2>1, OneAlert DEF FinishLog, Set
<1>6. CASE ReadRegistryFails(j) \/ FinishLogFails(j)
  BY <1>0, <1>3, <1>6 DEF ReadRegistryFails, FinishLogFails, Abort
<1>7. CASE Catch(j)
  <2>1. [s EXCEPT !.pc = "alert"] \in JobState
    BY <1>0, PhaseType DEF Phases
  <2>2. [s EXCEPT !.pc = "alert"].pc = "alert"
    BY <1>0 DEF JobState
  <2> QED
    BY <1>0, <1>1, <1>7, <2>1, <2>2 DEF Catch
<1>8. ASSUME Set(j, [s EXCEPT !.pc = "threw"]), ~LogIsWritten \/ "failure" \in mail'[j],
             \A i \in Jobs : i # j => log'[i] = log[i] /\ mail'[i] = mail[i],
             s.aborted
      PROVE  AlertInv'
  <2> DEFINE t == [s EXCEPT !.pc = "threw"]
  <2>1. job'[j] = t /\ (\A i \in Jobs : i # j => job'[i] = job[i])
    BY <1>0, <1>8 DEF Set
  <2>2. t.pc = "threw" /\ t.aborted
    BY <1>0, <1>8 DEF JobState
  <2> HIDE DEF t
  <2>3. Alerted(t, log'[j], mail'[j])
    BY <1>8, <2>2 DEF Alerted
  <2> QED
    BY <1>8, <2>1, <2>3, OneAlert
<1>9. CASE CatchFails(j) \/ Alert(j)
  <2>1. s.aborted
    BY <1>0, <1>9 DEF CatchFails, Alert, JobInv
  <2>2. ~LogIsWritten \/ "failure" \in mail'[j]
    BY <1>0, <1>9 DEF CatchFails, Alert, Send, LogIsWritten
  <2>3. \A i \in Jobs : i # j => log'[i] = log[i] /\ mail'[i] = mail[i]
    BY <1>0, <1>9 DEF CatchFails, Alert, Send
  <2> QED
    BY <1>8, <1>9, <2>1, <2>2, <2>3 DEF CatchFails, Alert
<1>10. CASE Notify(j)
  <2>1. ~s.aborted
    BY <1>0, <1>10 DEF Notify, JobInv
  <2>2. Alerted(job'[j], log'[j], mail'[j])
    BY <1>0, <1>10, <2>1, NotifyAlerted DEF Notify, Send, Set
  <2> QED
    BY <1>0, <1>10, <2>2, OneAlert DEF Notify, Send, Set
<1>11. ASSUME s.pc \in {"returned", "threw"}, log'[j] = log[j], mail[j] \subseteq mail'[j],
              s.pc = "threw" /\ s.by = "cron" => "failure" \in mail'[j]
       PROVE  Alerted([s EXCEPT !.pc = "over"], log'[j], mail'[j])
  BY <1>0, <1>11, OverAlerted
<1>12. CASE SchedulerReports(j) \/ ControllerIgnores(j)
  <2>1. /\ job' = [job EXCEPT ![j] = [s EXCEPT !.pc = "over"]]
        /\ s.pc \in {"returned", "threw"} /\ log' = log /\ mail[j] \subseteq mail'[j]
        /\ s.pc = "threw" => "failure" \in mail'[j]
        /\ \A i \in Jobs : i # j => mail'[i] = mail[i]
    BY <1>0, <1>12 DEF SchedulerReports, ControllerIgnores, Set, Send
  <2>2. Alerted(job'[j], log'[j], mail'[j])
    BY <1>0, <1>11, <2>1
  <2> QED
    BY <1>0, <2>1, <2>2, OneAlert
<1>13. CASE UnhandledRejection(j)
  <2>1. s.pc = "threw" /\ s.by = "admin" /\ log' = log /\ mail' = mail
    BY <1>13 DEF UnhandledRejection
  <2>2. Alerted([s EXCEPT !.pc = "over"], log[j], mail[j])
    BY <1>11, <2>1
  <2>3. \A i \in Jobs : Alerted(Interrupted(i), log[i], mail[i])
    BY <1>0, InterruptedAlerted DEF Interrupted, AlertInv
  <2> QED
    BY <1>13, <2>1, <2>2, <2>3 DEF UnhandledRejection, AlertInv
<1> QED
  BY <1>2, <1>4, <1>5, <1>6, <1>7, <1>9, <1>10, <1>12, <1>13 DEF JobStep

LEMMA AlertInvNext == ASSUME TypeOK, PipelineInv, AlertInv, [Next]_vars PROVE AlertInv'
<1>0. job \in [Jobs -> JobState] /\ log \in [Jobs -> LogState]
  BY TypeParts
<1>1. ASSUME UNCHANGED <<job, log, mail>> PROVE AlertInv'
  BY <1>1 DEF AlertInv
<1>2. ASSUME NEW j \in Jobs, Start(j) PROVE AlertInv'
  <2>1. job'[j].pc \in {"nothing", "registry"} /\ (\A i \in Jobs : i # j => job'[i] = job[i])
    BY <1>0, <1>2 DEF Start, Set, JobState
  <2>2. Alerted(job'[j], log'[j], mail'[j])
    BY <2>1, UnderwayAlerted
  <2> QED
    BY <1>0, <1>2, <2>1, <2>2, OneAlert DEF Start
<1>3. ASSUME NEW j \in Jobs, StartFails(j) PROVE AlertInv'
  <2>1. /\ job'[j].pc = "threw" /\ job'[j].aborted
        /\ \A i \in Jobs : i # j => job'[i] = job[i]
    BY <1>0, <1>3 DEF StartFails, Set, JobState
  <2>2. log[j].status = "none"
    BY <1>3 DEF StartFails, PipelineInv, JobInv, EntryInv, NoLog
  <2>3. LogIsWritten => log'[j].status = "none"
    BY <1>3, <2>2 DEF StartFails, LogIsWritten
  <2>4. Alerted(job'[j], log'[j], mail'[j])
    BY <2>1, <2>3 DEF Alerted
  <2> QED
    BY <1>0, <1>3, <2>1, <2>4, OneAlert DEF StartFails
<1>4. CASE Crash
  <2>1. \A i \in Jobs : Alerted(Interrupted(i), log[i], mail[i])
    BY <1>0, InterruptedAlerted DEF Interrupted, AlertInv
  <2> QED
    BY <1>4, <2>1 DEF Crash, AlertInv
<1>5. CASE Boot
  <2>1. \A i \in Jobs : log[i].status = "none" => log'[i].status = "none"
    BY <1>0, <1>5 DEF Boot
  <2> QED
    BY <1>5, <2>1 DEF Boot, AlertInv, Alerted
<1>6. ASSUME NEW t \in Tables, RunDetector(t) \/ MarkAsStable(t) \/ ToggleActive(t)
      PROVE  AlertInv'
  BY <1>1, <1>6 DEF RunDetector, MarkAsStable, ToggleActive
<1> QED
  BY <1>1, <1>2, <1>3, <1>4, <1>5, <1>6, JobStepAlerted DEF Next, vars

\* Who is to be alerted has been, whatever tables fail, throw or drift and in
\* whichever phase a job is cut short.
THEOREM AlertInvariant == Spec => []AlertInv
<1>1. Init => AlertInv
  BY DEF Init, AlertInv, Alerted, NotStarted
<1>2. TypeOK /\ PipelineInv /\ AlertInv /\ [Next]_vars => AlertInv'
  BY AlertInvNext
<1> QED
  BY <1>1, <1>2, PipelineInvariant, PipelineTypeCorrect, PTL DEF Spec

\* A job that is over with a failed table, or that was cut short after its log
\* was opened, has raised an alert, as long as the event log can be written.
THEOREM FailuresAreAlerted == ASSUME LogIsWritten PROVE Spec => []FailureIsAlerted
<1>1. TypeOK /\ AlertInv => FailureIsAlerted
  <2> SUFFICES ASSUME TypeOK, AlertInv, NEW j \in Jobs, job[j].pc = "over",
                      With(job[j], {"failed"}) # {} \/ job[j].aborted,
                      log[j].status \in FinalStatus
               PROVE  "failure" \in mail[j]
    BY DEF FailureIsAlerted
  <2>1. Alerted(job[j], log[j], mail[j]) /\ log[j].status # "none"
    BY DEF AlertInv, FinalStatus
  <2> QED
    BY <2>1 DEF Alerted
<1> QED
  BY <1>1, AlertInvariant, PipelineTypeCorrect, PTL

\* A job of the scheduler raises an alert whatever happens to the event log: the
\* scheduler mails every exception that reaches it.
ScheduledFailureIsAlerted ==
  \A j \in Jobs :
    job[j].pc = "over" /\ job[j].by = "cron"
      /\ (With(job[j], {"failed"}) # {} \/ job[j].aborted)
      => "failure" \in mail[j]

\* The same of the jobs of the scheduler, for every choice of failures.
THEOREM ScheduledFailuresAreAlerted == Spec => []ScheduledFailureIsAlerted
<1>1. AlertInv => ScheduledFailureIsAlerted
  BY DEF AlertInv, Alerted, ScheduledFailureIsAlerted
<1> QED
  BY <1>1, AlertInvariant, PTL
=============================================================================
