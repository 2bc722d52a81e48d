# A TLA+ model of the University Data Integration Hub

The repository is a NestJS service that copies the tables of source systems
(REST APIs with paged answers) into one PostgreSQL database, driven by a *Schema
Registry* in MongoDB, with a job scheduler, schema-drift governance, live
migrations, backups and views, and a Next.js front end. This directory holds TLA+
modules that model its core, TLC configurations that check them on small
instances, and proofs checked by TLAPS.

Line references are to `src/backend/src/` unless another path is given; DIS is
`data-integration/data-integration.service.ts`, SE is
`modules/sync-engine/sync-engine.service.ts`, SR is
`common/schema-registry/schema-registry.service.ts`.

## 1. Inventory

| Component | State it keeps | Operations | Talks to | What is hard |
|---|---|---|---|---|
| Table synchronisation: `syncOneTable` (DIS 252-534), SyncEngine | none of its own; per call: page counter, page total, overwrite buffer, source identifiers | fetch a page with retries, the guards (contract, drift, page mismatch, empty page), upsert / incremental / overwrite, orphan detection, `updateLastSyncTime` | source API, PostgreSQL through Prisma, Schema Registry, event log, backup | every `await` is a point where the source, another pipeline or an administrator may act; early exits that are not errors; one timestamp stands for the whole run |
| Pipelines (DIS 585-963) | the job log of the run; results per table | full run, custom run, notification | registry, source configuration, event log | nothing excludes two pipelines; the registry is read once; credentials are resolved outside the per-table catch |
| Orphan scan and purge (DIS 973-1128) | none | scan (read only), purge of a list chosen by an administrator | source API, PostgreSQL | the list may be stale or come from a cut-off scan |
| Event log | one MongoDB document per job: running, then a final status | create, finish, recovery at start-up | all jobs | crash between create and finish; finish twice |
| Schema Registry (SR, controller) | per table: status (stable, changed, new), details, oldDetails, hash, strategy, lastSyncTime | import, detect, resolve, reject, update, strategy, lastSyncTime | pipelines, migrator, backup (event `schema.changed`) | read-compare-write without a transaction; a second detection before the first is resolved |
| Schema migrator, Prisma generator, GitHub deploy | PostgreSQL structure, views, `schema.prisma`, loaded client, repository | live migration: one SQL transaction and then generate, reload, commit | registry, views | a crash or failure between the steps |
| Job scheduler | job documents (MongoDB), cron tasks (memory) | seed, create, update, toggle, trigger, run | pipelines | two stores that must agree; renaming |
| Backup | objects in MinIO, copies in S3, retention policies | backup, weekly backup, clean-up, restore, copy to S3 | PostgreSQL, MinIO, S3 | restore is not atomic and leaves lastSyncTime alone |
| Views | SQL views and their metadata rows | create, update, drop | PostgreSQL | two writes without a transaction |
| Users, authentication, permissions | users, roles, role settings, tokens | login, refresh, assign role, role settings, guard | PostgreSQL | concurrent read-modify-write |
| Source configuration | base URL, token, active flag per source | create, update, toggle, resolve | pipelines | a source switched off during a run |
| Student batch sync, master data API, notification, API log, metrics | little or none | | | sequential, read only, or best effort |
| Front end, mock source server, infrastructure | presentation, test fixture, configuration | | | |

What makes them correct:

* table synchronisation: nothing the source changed is lost to the destination;
  nothing stored is replaced by something older; orphan reports name only records
  that are gone; a changed table is in the end left alone; every run ends;
* pipelines: one table's failure does not stop the others; the logged status is
  what happened to the tables; a log does not stay `running`;
* Schema Registry: a drift that lasts freezes its table until an administrator has
  resolved it, and reject goes back to the structure before the drift;
* migrator: the database, the schema file and the registry agree, or the table is
  not `stable`;
* scheduler: exactly the active jobs have a cron task, and it runs the current
  document;
* backup: a restore ends with the backup's records or the previous ones; a
  restored table catches up with the source again.

The hazards behind these are listed, line by line, in `PROJECT.json`.

## 2. Plan, and how the modules fit together

In order of importance; a module is written so that it can be proved about
(constants with named assumptions, one action per operation, invariants as
conjunctions of named parts, no recursive operator). All of it is done.

| Module | Proofs | Models | Composed with |
|---|---|---|---|
| `TableSync` | `TableSync_proofs` | one table's synchronisation | evaluated together with `Records` |
| `Records` | | what a batch of records becomes: a pure algorithm against reference definitions | |
| `Pipeline` | `Pipeline_proofs` | full and custom runs, job logs and restart recovery, credentials, mails | implements `JobLog`, the abstract specification of a log entry |
| `SchemaRegistry` | `SchemaMigrator_proofs` | the documents: detection, reject, update, import | |
| `SchemaMigrator` | `SchemaMigrator_proofs` | live migrations over four stores | extends `SchemaRegistry` |
| `JobScheduler` | `JobScheduler_proofs` | job documents against cron tasks, and the page | |
| `Backup` | `Backup_proofs` | what an object holds; the restore that is not atomic | |
| `BackupStore` | `BackupStore_proofs` | which objects there are: ages, policies, cleanup, copies, and the page | |
| `AccessControl` | `AccessControl_proofs` | users, roles, guards, the browser's session, and the page | |
| `DataManagement` | `DataManagement_proofs` | scan and purge of orphans, and the page | |
| `Views` | `SchemaMigrator_proofs` | SQL views against their definitions, the migration's part in them, and the page | |

Each `MC` module instantiates one of them for TLC. There are twelve runs; where two
questions can share an instance they do. The type invariants of most modules are
left to their theorems.

What could come next: `Backup` composed with `TableSync`, where a restore would have
to turn `lastSyncTime` back before any property of the pair could hold; an abstract
specification for the retention of backups, with `BackupStore` shown to implement it
as `Pipeline` implements `JobLog`; column types and indexes in `SchemaMigrator`.

## 3. TableSync

### What it models

`TableSync.tla` is one table: `syncOneTable` with the SyncEngine calls it makes
and the registry fields it uses. A record is a key and the time of its last
change at the source; that time stands for the contents.

| State | Code |
|---|---|
| `src`, `extra`, `now` | the source's records, whether they carry a field the registry lacked, the clock behind `updatedAt` and `new Date()` |
| `dest` | the PostgreSQL table |
| `reg` | `status`, `syncStrategy`, `lastSyncTime` of the registry document, and whether `details` has the new field |
| `model` | whether the loaded Prisma client has the table (SE 198-204) |
| `run[r]` | the locals of one call: strategy, lastSyncTime and details of the snapshot (DIS 595-596, 270-274), `currentPage`, `totalPages`, the attempt of `withRetry`, the page being upserted, the overwrite buffer, `sourceIds`, the orphans found |
| `quiet`, `whole` in `run[r]`; `exact` | history: did the source change since the run's first page, did the run skip a page or a record, were all syncs so far accounted for |

| Action | Code |
|---|---|
| `Snapshot` | the pipeline reads the registry and keeps stable tables |
| `FetchFails`, `ContractViolation`, `SchemaDrift`, `PageMismatch`, `EmptyPage` | `withRetry` and the guards, in the order of the code |
| `FetchForUpsert`, `UpsertRecord`, `DeadLetter`, `NoModelForBatch` | a page of upsert or incremental: one step per awaited upsert |
| `FetchForOverwrite`, `Overwrite` | pages into the buffer, then one transaction |
| `StoreFails` | a database, event-log or registry call throws |
| `DetectOrphans`, `Finish` | the orphan query; `updateLastSyncTime(new Date())` |
| `Edit`, `Remove`, `AddField` | the source; its paging is that of the mock server (`mock-server/server.js` 35-59) |
| `RunDetector`, `MarkAsStable`, `UpdateSyncStrategy` | the administrator and the detector |
| `Restart` | crash: runs are lost, stores stay |

Whether a failure or outside event can happen is chosen by the constant `Events`,
so that a run can ask a question of the code with exactly the disturbances that
matter to it.

Abstractions: the pre-sync backup (it never throws, DIS 285) is not a step; a
table always has a primary key (without one the table fails at once, DIS
275-279); a page has no duplicate keys (what other batches become is in `Records`);
field values other than `updatedAt` are not represented.

Types of keys. The code has a record's key in two forms. It writes by the form of the
column (`normalizeRecord`, SE 237-247) and collects the form of the source (DIS 427-432),
and `detectOrphans` looks a key of the table up among the collected ones as they are (SE
165-167). The constant `Mistyped` names the keys that the source sends in another form
than the column's, as the mock server's page tc04 has numbers as text. Writing makes no
difference between the forms, so that a key stands for both; `HasAsColumn` is the look-up,
which finds none of the mistyped.

### Runs

| Run | Instance | Question and answer |
|---|---|---|
| `single` | 1 run, 3 keys, one of them mistyped, pages of 2, 2 attempts, 3 clock ticks, all strategies, every failure, crash | Runs that do not overlap: `CaughtUp`, `CleanRunCopiesAll`, `OrphansAreFound`, `NeverStale` hold, and so do the assumptions of `Records` |
| `concurrent` | 2 runs, 2 keys, one of them mistyped, pages of 1, upsert and overwrite, contract violations, new fields, the detector, deletions | However runs overlap, `OrphansAreGone` holds, every run ends (`RunEnds`), a table that stays changed is in the end written by no run (`FreezeTakesEffect`), and once the source rests the destination gets every record in its last version (`Converges`) |

What the code does not keep:

* `lastSyncTime` is the end of the run (DIS 531), so an edit after its page was
  fetched is never requested again by an incremental sync, although the report says
  the strategy takes what changed since the last sync
  (`report-v2/sections/ETL_Pipeline.tex` 14). `CaughtUp` is what does hold.
* A page mismatch (DIS 407) or an empty page ends the loop without an error, and an
  overwrite then replaces all of the table by part of it, although it is to make
  "destination = source 100%" (comment at DIS 249).

* A clean run reports records as orphans that the source has: those whose keys it
  sends in another type than the column's, on the mock's tc04 page all of the table.
  The comment at `detectOrphans` (SE 151) says that what it returns was deleted at the
  source. `OrphansAreGone` holds for the other keys, and `MistypedRecordsAreReported`
  proves that these are always reported.
* The repository's README (section 4, line 93) freezes a table whose structure has
  changed. The status stops the pipelines that start later. A run in flight goes by its
  snapshot (DIS 596) and still writes when the detector or another run reports the
  change. What holds is `FreezeTakesEffect`.

A limit of these results. An overwrite of an *empty* source writes nothing (DIS 471),
so that what the source has deleted stays in the table; `OrphansAreFound` therefore
speaks of full loads by upsert.

Bounds. Three keys with pages of two give a full page, a partial page, an empty
source and records that move between pages when another appears or disappears;
two attempts show both outcomes of a failed attempt; three clock ticks allow a
change before, during and after a run, and the run after it. With one mistyped key
beside others a report has both kinds. The theorems below remove the bounds for the
invariants they cover. `concurrent` has one attempt per page and no network failures,
whose attempts multiply its states: `RunEnds` says nothing of the retries. That a page
is never tried more than `MAX_RETRIES` times is part of `TypeCorrect`.

Fairness. `WF(SyncStep(r))`: requests time out (100 s, DIS 335) and database calls
return, so that a run in flight goes on. `WF(Snapshot(r))`: cron starts pipelines
again and again. Nothing is assumed of the source, the administrator or crashes.
`Converges` supposes that full loads go through again and again: with failures for
ever, or with incremental syncs, nothing converges. `FreezeTakesEffect` needs `WF` of
the runs in flight only.

### Records

`Records.tla` is what `syncTableData` makes of one batch: `Keep` is a round of the
loop of `deduplicate` with its `Map`, `Normalize` the type of the key, `Upsert` a
record, `BatchStatus` the status of the batch's log. TLC evaluates three
assumptions of it, for every batch of up to three records, with every combination of
key, form of key (number, text, text that is no number, none) and timestamp:

* `DeduplicateIsReference`: one record of every key stays, the one a definition
  without a loop names, and every record without a key;
* `NewestIsStored`: if all records have a timestamp and every key has one form, the
  table gets the newest of each. Both conditions are needed: a record without a
  timestamp lets an older one replace a newer one (SE 125-128), and a number and the
  same number as text pass the deduplication, which comes before the normalisation,
  so that the later one wins;
* `NoKeyIsSkipped`: no key that can be converted is lost, and the log says done
  exactly if no record became a dead letter.

Three records are what it takes for a record without a timestamp between two that
have one. The comment at SE 86 says that the last record is kept; the code keeps the
newer one.

## 4. Pipeline and JobLog

### What they model

`Pipeline.tla` is the full and the custom pipeline (DIS 585-963), the scheduler's
`executeJobLogic` and the controller that call them, and the event log's
`onModuleInit`. What happens to one table is an outcome here; `TableSync` has the
rest. `JobLog.tla` says what a log entry promises: it is opened once, closed after
that with a final status and never reopened, and it is closed in the end.

| State | Code |
|---|---|
| `up` | the Node process |
| `registry`, `active` | of each table: stable or held back and its `dataFromApi`; whether its source configuration is active |
| `job[j]` | the locals of a call: full or custom, called by cron or an administrator, the requested and chosen tables, those left, `syncResults`, `own` (the table is synced from its own source), `aborted` (history) |
| `log[j]` | the event log entry: status and the tables it counts as synced |
| `mail[j]` | the mails sent about the job; a mail is the attempt to send it, failures are swallowed (notification.service 38-81) |

| Action | Code |
|---|---|
| `Start`, `StartFails` | `createJobLog`, before the try block |
| `ReadRegistry`, `ReadRegistryFails` | DIS 594-619, 782-827: the stable tables; the early end when there are none |
| `SkipTable`, `ResolveCredentials`, `CredentialsFail`, `SyncReturns`, `SyncThrows` | the loop body: endpoint guards, credentials (outside the per-table catch), success, warning and per-table catch |
| `FinishLog`, `FinishLogFails` | status from the three counts, `finishJobLog` |
| `Catch`, `CatchFails`, `Alert`, `Notify` | the catch block: log failed, alert, rethrow; the mail at the normal end |
| `SchedulerReports`, `ControllerIgnores`, `UnhandledRejection` | the scheduler mails and stores lastRun; the controller does not await the pipeline, and a rejection ends the process |
| `Crash`, `Boot` | the process dies; `onModuleInit` closes the logs that say running |
| `RunDetector`, `MarkAsStable`, `ToggleActive` | the registry and the sources move meanwhile |

Abstractions: the order of the tables is open; a table's endpoint does not change
after the start; records counts in the log are the set of synced tables.

### Runs

| Run | Instance | Question and answer |
|---|---|---|
| `pipeline_status` | 1 job, 3 tables, endpoints, every failure, crash | `LogTellsOutcome`, `SuccessMailIsTrue` and `LogIsSafe` (`JobLog!Safe`) hold, and every chosen table gets its turn, unless the process ends or credentials cannot be read (`TablesGetTheirTurn`) |
| `pipeline_log` | 2 jobs, 1 table, every failure except that of the event log's update | every failure a job survives is mailed (`FailureIsAlerted`); `Pipeline` implements `JobLog` with its liveness (`LogIsClosed`) |

`ToggleActive` shows what the code does not keep: an inactive source configuration
counts as none (DIS 163), and the tables of a source that was switched off
(`report-v2/sections/appendix.tex` 49) are fetched from the default address.

Bounds. Three tables are needed for a success, a warning and a failure in one
status; two jobs for the restart that closes the log of one and not of the other.

What holds only with a proviso: the credentials of a table are read outside its
try block (DIS 648, 850), so that one failing read aborts the job. The tables behind it
get no turn (`TablesGetTheirTurn` leaves a job out that was so `refused`), and the log
says `failed` with nothing synced, whatever was synced before (`LogTellsOutcome` leaves
aborted jobs out); if the event log fails again in the catch block there is no
alert and the entry stays `running` until the next start. The scheduler's own mail
says success whenever the pipeline returned, so `SuccessMailIsTrue` is about the
administrator's.

Fairness. `WF(JobStep(j))`: `syncOneTable` ends (`RunEnds`) and the calls return.
`WF(Boot)`: the compose file restarts the container (`restart: always`).

## 5. SchemaRegistry

### What it models

`SchemaRegistry.tla` has the registry documents and the calls that read one and
write it later. A structure is the set of its field names (a changed type is
another field), and a hash stands for the structure it was computed from.

| State | Code |
|---|---|
| `source` | the fields the source sends |
| `doc[t]` | `status`, `details`, `oldDetails`, `hashValue` of the document; `nested` is the element that updateSchema appends to `oldDetails` (SR 215-218), which is a whole structure |
| `call[c]` | a pipeline or a request: the snapshot, the report, what it has read |

| Action | Code |
|---|---|
| `Snapshot`, `NoDrift`, `Drift` | a pipeline's snapshot and the guard of syncOneTable that reports new fields (DIS 362-397) |
| `RunDetector` | `POST run-detector` |
| `ReadExisting`, `Create`, `Change` | `detectSchemaChanges`, SR 116-170 |
| `MarkAsStable`, `RejectRead`, `Reject` | resolve without SQL, reject |
| `UpdateRead`, `UpdateDetails`, `UpdateStatus`, `Import` | `updateSchema`, `importSchemaData` |
| `CallFails`, `SourceChanges` | a failing call; the source |

`DriftIsFrozen` is checked by `registry_detect`: one table, two fields, a pipeline and
a request in flight, with a new table, edits, status changes (`Statuses`: to stable and
changed; a document that is new in any other way than by its creation would only add
states that detection treats as changed), rejections and imports. Two calls give every
race of two detections, detection and reject, detection and edit; two fields let the
drift of one call differ from that of the other.

What it leaves out by name. The comparison at SR 137 uses the hash the report carries; a
pipeline's report has none, and neither has the document of a table that the detector
registered without one, so `undefined === undefined` and its drift is never frozen:
`DriftIsFrozen` is checked without the event `"unhashed"` and fails with it.

What the code does and no property promises. The front end says that a rejection restores
the old structure and that the system ignores the change from then on
(`frontend/lib/i18n.tsx` 126). Neither is so. A second detection before the first is
resolved replaces `oldDetails` by the drifted structure (SR 150), and an edit appends the
present one to it (SR 215-218); reject then makes *that* stable. `ignoredHashes` (SR 325)
is not in the Mongoose schema, is dropped on write and read nowhere: after a rejection
the next run reports the same drift again, which is what `DriftIsFrozen` needs.
`migrateAllToStandardHash` has no caller.

Fairness. `WF(RunStep(r))`: calls return. `SF(Snapshot(r, t))`:
cron starts pipelines again and again, and a pipeline takes every stable table, so
a table that is stable again and again is in one of them. Requests may fail
half-way there (`"fail"`), pipelines may not (`"crash"`): if every report failed,
nothing could be frozen.

## 6. SchemaMigrator

`SchemaMigrator.tla` extends the registry with the four stores that one resolution
with SQL touches in turn.

| State | Code |
|---|---|
| `db` | the columns of each table in PostgreSQL |
| `history` | the rows of `_prisma_migrations` |
| `file` | `prisma/schema.prisma` on disk, as the fields of each model |
| `repo` | the schema and the migrations in the GitHub repository |
| `migration[a]` | one resolution: its table, the reviewed SQL (a difference `from`, `to`), the generated text; `alone`, `sound` are history |

| Action | Code |
|---|---|
| `Preview`, `EditSql` | `getMigrationPreview` (schema.prisma against the stable tables and the selected one); the administrator may take other tables out |
| `Resolve` | `resolveWarning`: `markAsStable` first |
| `RunSql`, `SqlFails` | `applyLiveMigration`: one transaction with the guarded SQL and the row of `_prisma_migrations`, or its rollback |
| `Generate`, `WriteFile` | `generateFullSchema`, which reads the registry again; the file |
| `Commit` | `commitFiles`, whose failure is only logged |
| `MigrationFails`, `Deploy` | a crash or failure after any step; the new image brings the repository's file |
| `RegistryMoves` | every step of `SchemaRegistry` |

`migrator_resolve` (two interchangeable tables, fields and resolutions, a pipeline,
SQL and GitHub failures, crashes, deployments): `ResolvedIsMigrated` and
`CommittedIsRecorded` hold. Two resolutions are what it takes to race for the file;
two tables, for one to disturb the other. `ResolvedIsMigrated` needs `alone`, since
two resolutions that overlap may lose a model from the file, and `sound`: a table
with columns and no model (it was *changed* while another was resolved) gets
`CREATE TABLE IF NOT EXISTS`, which does nothing.

The SQL shown for one table drops every other table that waits for a decision, as
those have a model in schema.prisma and none in the schema it is compared with
(schema-migrator 39), and the migrator adds `CASCADE`; the repository's README (97)
has the mechanism exclude the loss of data. The model has the case (`EditSql` is the
administrator who takes the other tables out), and no property promises more.

Not modelled: column types, indexes, and the Prisma client's reload. The SQL views
that the transaction drops and recreates are in `Views`.

## 7. JobScheduler

`JobScheduler.tla` has the two stores that must agree: the job documents in MongoDB
and the cron tasks in memory, each with the document it closes over. Several
administrators work on them from pages that show an older list.

| State | Code |
|---|---|
| `docs` | the collection `syncjobs`, with its unique index on names |
| `cron` | the `SchedulerRegistry`: a task under a name |
| `fixes` | corrections of four-field expressions that are written in the background (job-scheduler 84) |
| `server`, `request[p]`, `shown[p]`, `run[r]` | start-up; the request of a page and where its handler is; the switches in its list; executions |
| `astray` | history: why the task of a name may differ from the documents |

| Action | Code |
|---|---|
| `EnsureDefaultJob`, `LoadJobs`, `Crash` | `onModuleInit`; tasks are lost, documents stay |
| `HandleToggle`, `HandleRunNow`, `HandleSave`, `FetchJobs`, `Answer` | the page (`frontend/app/scheduler/page.tsx`, `JobModal.tsx`): a switch asks for the opposite of what it shows, a save sends the `isActive` of the list (JobModal 123), so that it may undo a toggle |
| `CreateJob`, `FindExistingJob`, `UpdateJob`, `ToggleJobActive`, `TriggerJobManually`, `Refuse` | the handlers up to their write |
| `RegisterCronJob`, `PersistFix` | their continuation an await later; the background correction |
| `OnTick`, `ExecuteJobLogic` | a task fires with the document it was made of; the pipeline returns |

`scheduler_tasks`: 2 documents, 2 names (the default job's and another), 2
administrators, 1 execution at a time, 3 clicks, 1 crash, starting from an empty
collection or one with a four-field expression. `TasksFollowDocuments` is the
abstract view of the component, that between requests the tasks are a function of the
documents, and the three ways in which the code leaves it are named by `astray`: the
old name of a renamed job keeps its task (50), a registration with a document that
was replaced in between (222), a correction that overwrites a newer expression (84).
The invariant says that nothing else leads astray, and that a name which was led
astray is put right by its next registration or by a restart. `JobsKeepRunning`: a
job that stays active is executed again and again. Two requests are what it takes to
race, the third click lets one of them be the repair.

Fairness. `WF` on start-up, handlers and executions: they wait for MongoDB and for
pipelines that end (`RunEnds`). `SF(OnTick(n))`: the hour of a task comes again and
again, and a task that another execution holds up is not skipped for ever.

## 8. Backup and BackupStore

`Backup.tla` is one table, as the sequence in which PostgreSQL finds its rows, and
calls of `backupTable` and `restoreFromBackup` that work on it at once.

| Action | Code |
|---|---|
| `BackupTable`, `Count`, `FetchBatch`, `EndUpload`, `BackupFails` | the count, the blocks by skip and take without an order (backup 100, minio 83-95), the end of the stream, the swallowed failure |
| `RestoreFromBackup`, `DeleteMany`, `InsertBatch`, `RestoreEnds`, `RestoreFails` | download, the backup made first, the delete, the batches; the four have no transaction around them (282-299; the comment at 250 says they have) |
| `Insert`, `Update`, `Remove`, `Crash` | a sync writes at any time; an updated row is found in another place |

`backup_restore`: 3 rows, 2 versions, blocks and batches of 2, 2 objects, 2 calls at
once and 3 in all, 2 writes of syncs. Three rows in blocks of two give a full and a
partial block, and a row that moves from one to the other. `BackupIsComplete`,
`DeletedIsKept` and `RoundTrip` hold. Each needs that nobody writes the table
meanwhile (`calm`); with a writer rows are missed or doubled. `DeletedIsKept` needs a
backup that succeeded: when it fails, the restore deletes all the same.

`BackupStore.tla` has the objects with their ages, the policies, the weekly round,
cleanups, copies to S3 and the page; time is in days.

| Action | Code |
|---|---|
| `Seed`, `Crash`, `DayPasses` | `onModuleInit`, trigger by trigger; restart; time |
| `HandleWeeklyBackup`, `HandleSchemaChanged`, `BackupTable`, `TriggerManualBackup` | what makes objects |
| `CleanupOldBackups`, `ListExpired`, `DeleteObjects` | the policies are read once, then one listing and one deletion per trigger |
| `SyncToS3`, `SkipOrRead`, `UploadBuffer`, `SyncEnds` | one copy, and the loop over all objects that counts what fails and goes on |
| `RestoreFromBackup`, `DeleteBackup`, `UpdateRetentionPolicy` | as far as objects and policies go |
| `Press`, `SelectTab`, `FetchBackups`, `Answered`, `Refetch` and the `Handle...` actions | the page, its buttons with their busy states, its tabs and lists |

`backup_retention`: 3 triggers, 1 table, 2 objects, 2 days, 3 events. Two objects are
what it takes for one to expire while another is fresh, and for a copying that loses
one of its objects; the second day makes a policy of one day expire. `TypeOK` has one
part that is more than a type: a cleanup has a policy to go by for every trigger,
because nothing is served before the seeding is through. `PolicyIsKept` is about a
restart in the middle of seeding; `OnlyExpiredAreDoomed` names what a
policy saved during a cleanup does not do; `FreshIsKept` rests on the bound of the
DTO; `SyncAllReports` is about deletions that come between. Nothing ties the answer for
a list to the tab that is open (`frontend/app/backup/page.tsx` 87): that of an earlier
tab may come last and stays, with its buttons, under the other one; no property
promises more of the list. `ButtonsReturn` assumes `WF(Serve(b))`: the backend answers or the request
fails.

## 9. AccessControl

`AccessControl.tla` has the rows of the users with the guards that read them, one
browser with several tabs that share a session, and the page on which an
administrator edits. The server reads the role from the row at each request
(`jwt.strategy.ts`; the comment at permissions.guard 10 says it is in the JWT), the
browser from its token.

| Action | Code |
|---|---|
| `HandleLogin`, `HandleLogOut`, `HandleRegister`, `Expire` | sign-in with the address an account is bound to |
| `Navigate`, `CheckSession`, `Redirect`, `SignedOut`, `Unauthorized` | `AppWrapper`'s effect, and the interceptor that answers 401 by signing out |
| `HandleSave`, `Read`, `AssignRole`, `SendScopes`, `UpdateRoleSettings` | a save: the role and then the settings, each of them read and written |
| `HandleSaveVpnIp`, `SetVpnIp`, `HandleCreate`, `CreateUser` | the other forms |
| `Answer`, `Fails`, `ServeList`, `ShowList`, `ListFails`, `Dropped` | answers and the fetch of the list behind each, in any order |

`access_saves`: 2 accounts, 2 tabs, 1 scope, 1 address, 5 events, a save counting
twice. Two tabs are two administrators as far as the server is concerned, and a
session that changes under a page as far as the browser is. `SavedAsAsked` (for a save
that no other came between: `alone`), `OwnWritesAreShown`, `PagesFit` hold. What the
code does and no property promises: a demoted administrator keeps the pages until
the token expires, not the rights; `isActive` of an account is never looked at.

## 10. DataManagement

`DataManagement.tla` is the one place where an administrator deletes rows: the page
with its table list, the scan for orphans, and the purge.

| Action | Code |
|---|---|
| `SelectTable`, `PrevPage`, `NextPage`, `FetchData`, `RowsArrive`, `RowsFail` | rows are requested 350 ms after a change, and answers come in any order |
| `ScanOrphans`, `FindSchema`, `NotScannable`, `FetchPage`, `DetectOrphans`, `ScanThrows`, `ScanAnswered`, `ScanLost` | `scanOrphans` page by page (DIS 973-1075) and its request |
| `OpenConfirm`, `CloseConfirm`, `Confirm`, `ClosePanel` | the panel and its dialog: Escape closes the dialog during a purge |
| `CreateLog`, `DeleteRecords`, `FinishLog`, their failures, `Catch`, `PurgeAnswered`, `PurgeFailed` | `purgeOrphans` (DIS 1076-1128): a failure of the log behind the delete reports the purge as failed |
| `Add`, `Remove`, `SyncRecord`, `Overwrite` | source and syncs meanwhile |

The answers to a scan are the good page and the mock server's test cases: no list of
records (tc05 to tc08), a cached page (tc09), an empty one (tc10), keys as text (tc04).

`data_management`: 2 interchangeable tables, 2 keys, one record per page and one row
per page, every answer and event, 2 events, 2 requests for rows at once. Two tables
are needed for an answer about the table that was left; two keys with pages of one
for a record that moves between pages under a scan. `ConfirmedIsListed`, `ListFits`
and `OnlyGoneRowsArePurged` hold; the last for a *sound* scan, one that met only good
answers and during whose paging the source did not change. It does not hold of other
scans: unlike `syncOneTable`, `scanOrphans` takes a bad answer for the end (DIS 1037)
and does not compare `currentPage`; like it (DIS 427-432), it keeps keys as the source
types them. In each case it reports rows the source has, and the purge deletes them.

## 11. Views

`Views.tla` has the SQL views in PostgreSQL and the table `view_definitions`, which
`ViewsService` writes one after the other; the part of a live migration that drops
and recreates all views; and the page. A query is the set of columns and views it
reads.

| Action | Code |
|---|---|
| `FindUnique`, `ReplaceView`, `DropView`, `Upsert`, `UpdateRow`, `DeleteRow`, `Refuse`, `WriteFails`, `Crash` | create, update, drop in their two writes |
| `ListViews`, `CommitMigration`, `Rollback` | the transaction of `applyLiveMigration` (schema-migrator 82-118): `Dropped` follows the `CASCADE`, `Recreated` is in the order of ids and fails on a view that reads a later one |
| `Refresh`, `ReadList`, `LoadArrives`, `LoadFails`, `HandleLoadSample`, `SampleArrives` | the list behind every save, and the samples of the rows |
| `OpenCreate`, `OpenEdit`, `Cancel`, `HandleSave`, `AskDrop`, `HandleDrop`, `Succeeds`, `Fails` | forms and dialog: a form that is cancelled leaves its request in flight |

`views`: 2 names, 2 columns, queries that read either column or the first view, 2
requests and 2 loads in flight, 3 events. `ViewsTypeOK`, `TrackedAreLive` and `SampleFits`
hold. Two names let one view read the other, which is what the `CASCADE` and the
order of re-creation are about; two requests are a form that was cancelled and the
next one. Bounds of the model: an answer that would start a third load waits; queries
do not read each other in a circle (PostgreSQL refuses it); names that PostgreSQL
truncates are left out. A view that `view_definitions` lacks and that reads one of
its views is dropped by the `CASCADE` and not recreated: `drifted` has such views,
as they come from a request that failed between its writes.

## 12. Proofs

`TableSync_proofs.tla`, for every value of the constants that satisfies the named
assumptions (finite set of natural keys, positive page size and retry bound):

* `TypeCorrect`: `Spec => []TypeOK`. It also bounds every version by the clock.
* `PagesInvariant`: `Spec => []PagesInv`. The inductive strengthening: the shape
  of a run's locals in each phase (`ShapeInv`) and, for a run that the source has
  not disturbed, that it has collected exactly the pages before the current one
  and that its page total is still right (`CollectInv`). The arithmetic of pages
  is in `DivMonotone` and `PageInRange`: every listed record is on a page between
  1 and the announced total.
* `OrphanReportsAreSound`: `Spec => []OrphansAreGone`, from `PagesInv`, for any
  number of overlapping runs and any set of mistyped keys.

The same module, for runs that do not overlap (`SingleRun`, an assumption of these
theorems; every other constant is arbitrary):

* `SyncInvariant`: `Spec => []SyncInv`. The destination is never ahead of the
  source; what a run holds in memory lies between the two (`HeldInv`); a copy of a
  record that an incremental sync would not ask for again is that record
  (`FreshInv`); a clean run has written the pages behind it (`WrittenInv`). With
  overlapping runs the invariant is false: a second run may write what the first
  fetched later, and `NeverStale` fails.
* `NoCleanUpdateLost` (`CaughtUp`), `CleanRunIsComplete` (`CleanRunCopiesAll`),
  `VersionsGoForward` (`NeverStale`), each from `SyncInvariant`.
* `DroppedRecordsAreFound` (`OrphansAreFound`), from `FoundInv`: the identifiers of a
  quiet run are those of source records, a run that skipped its writes for want of a
  model is not whole, and between the orphan query and the end of the run nobody
  writes the table, so that the report is still what the table has beyond the
  identifiers of the column's type (`FullReportIs`).
* `MistypedRecordsAreReported`, from the same: a clean full load reports every stored
  record whose key is mistyped, although the source has it. This is what the code does
  and should not.

`Pipeline_proofs.tla`, for any tables and jobs, every failure and crash:

* `PipelineTypeCorrect`: `Spec => []TypeOK`.
* `PipelineInvariant`: `Spec => []PipelineInv`, the inductive invariant: which tables
  have a result in each phase (`TablesInv`), what the log says in each phase
  (`EntryInv`), which mails can have been sent (`MailInv`). `LogTellsOutcome` is not
  inductive: it speaks of the end, and must know that a job which is over wrote its
  log from the results it had.
* `LogIsTrue` (`LogTellsOutcome`), `SuccessMailIsCorrect` (`SuccessMailIsTrue`).
* `LogIsOrderly` (`LogIsSafe`): every step of `Pipeline` is a step of `JobLog` or a
  stutter, and its initial states are initial states of `JobLog`.
* `FailuresAreAlerted` (`FailureIsAlerted`), from `AlertInv`, which says in which phase
  of a job, and for which origin, the mail has gone. It assumes `LogIsWritten`, that no
  update of the event log fails (as in `pipeline_log`): the mail of a job that an
  administrator started is sent behind that update. `ScheduledFailuresAreAlerted` needs
  no such assumption, because the scheduler mails once more for the jobs that it
  catches.

`SchemaMigrator_proofs.tla`, about the registry on its own:

* `RegistryTypeCorrect`.

The same module, for the composition of registry and migrator:

* `MigratorTypeCorrect`.
* `CommitsAreRecorded` (`CommittedIsRecorded`), from `RecordedInv`: what is on its way
  to the commit is recorded already.
* `ResolutionMigrates` (`ResolvedIsMigrated`), from `ResolvedInv`: phase by phase, what
  the document, the model and the table are to an undisturbed resolution
  (`OnTheWay`). `AppliedHasAll` is the argument about the guarded SQL: on a table that
  has the columns of its model it leaves every column of the next one.

The same module, for the views that the migrator drops and recreates, with any columns,
queries, requests and loads and any finite set of names:

* `ViewsTypeCorrect` (`ViewsTypeOK`), `ViewsFollowTheirRows` (`TrackedAreLive`),
  `SamplesAreOfTheirRows` (`SampleFits`), all from `ViewsInvariant`
  (`ViewsSpec => []ViewsInv`). That the two halves agree is not inductive: a request
  between its two writes has changed one of them. `AloneInv` says of a request that is
  alone with its view that no migration runs, no other request is about that view, and
  PostgreSQL has what it is about to write into the row. `ListedInv` says that what a
  migration has listed is what the table still says of every view that is not named in
  `drifted`. An id is given once (`RowsInv`), so that a row which a form or a list still
  remembers cannot have become another view's (`IsOf`, `Known`). `SamplesInv` is the
  argument about the page: samples go with the rows, and while nothing has overtaken
  anything the only request for the list is one that has taken the rows off the page.

`JobScheduler_proofs.tla`, for any collections, names, pages, forms and crashes:

* `SchedulerTypeCorrect`.
* `TasksAreFaithful` (`TasksFollowDocuments`), which is inductive together with the
  typing and the unique names: `WriteElsewhere` and `WrittenFollows` are the two halves
  of a write, the names it leaves alone and the name whose registration is pending.

`Backup_proofs.tla`, for any rows, block and batch sizes, calls, failures and crashes:

* `BackupTypeCorrect`; `BackupsAreComplete` (`BackupIsComplete`), `DeletedRowsAreKept`
  (`DeletedIsKept`), `RestoreIsRoundTrip` (`RoundTrip`), all from `Inv`: an undisturbed
  backup has read exactly the first `skip` rows (`Counted`), the object of an
  undisturbed restore is the table (`Kept`), what is in the table and what is still to
  be inserted make up the object (`Restored`). The arithmetic of blocks is in
  `NextBlock` and `Batch`.

`BackupStore_proofs.tla`, for any triggers, tables, keys, ages, clicks and restarts, from
one invariant, `StoreInv`:

* `TypeCorrect`: what cleanups, copies and the page refer to are keys that have been
  given, and the policies of a cleanup cover every trigger (`CleanerInv`), since it
  begins when nothing is left to seed.
* `SavedPoliciesAreKept` (`PolicyIsKept`): a policy that is missing is one that is still
  to be seeded and that nobody has set (`PolicyInv`). Without that second half a restart
  in the middle of seeding might overwrite what an administrator saved.
* `CleanupsDeleteTheExpired` (`OnlyExpiredAreDoomed`), `FreshBackupsSurvive`
  (`FreshIsKept`): what a cleanup has picked is expired by the policies it began with
  (`CleanerInv`), however old they are by now, and those are never shorter than a day.
* `CopiesAreAccountedFor` (`SyncAllReports`).

`AccessControl_proofs.tla`, for any users, tabs, scopes and addresses, from one
invariant, `AccessInv`:

* `TypeCorrect`: what a page lists and what a request is about to write are accounts
  that exist.
* `SavesGrantWhatTheySay` (`SavedAsAsked`): a save that is alone has its role in the row
  after its first request and its settings after the second (`CallInv`, phase by phase).
* `PagesShowTheirWrites` (`OwnWritesAreShown`): a page that is not excused shows the
  version it wrote last, or an answer that is to come will (`ListInv`).
* `TabsSuitTheSession` (`PagesFit`): the session that a tab last looked at is kept beside
  it (`checked`); a settled tab suits that one (`Fits`), until it expires.

`DataManagement_proofs.tla`, for any tables, keys, page sizes, answers and failures:

* `DataManagementTypeCorrect`.
* `ConfirmedIsOnDisplay` (`ConfirmedIsListed`), from `PanelInv`: an open panel is about
  the selected table, whichever answers are still to come.
* `ListIsOfTheSelection` (`ListFits`), from `ListInv`: while nothing excuses the list and
  no timer runs, whatever is in flight is for the selected table and page, and without
  a request in flight the page shows the rows of that.
* `PurgeIsSound` (`OnlyGoneRowsArePurged`), from `GoneInv`: what the source has had all
  through a scan is still in it (`KeptInv`), a sound scan has read the pages before the
  current one (`ReadInv`) and in the end all of them (`DetectInv`), and neither the panel
  nor the purge adds to the list.

Stated by a theorem and by no run: the type invariants of `TableSync`, `Pipeline`,
`SchemaRegistry`, `SchemaMigrator`, `JobScheduler`, `Backup` and `DataManagement`, the
inductive invariants, that the failures of scheduled jobs are mailed without any
proviso, and that records with mistyped keys are reported.

The assumptions are the named ones of each module (finite sets of tables, fields and
names of views; known statuses and events; page, block and batch sizes of at least one),
and those that a theorem states itself, among them `SingleRun` and `LogIsWritten`. That
of `BackupStore` on its policies is what the code enforces: defaults of 60, 30 and 30
days or none (backup.service 14-19), and a DTO that takes only whole numbers from 1. A
value that marks something as missing (`Absent`) is none of the values it stands among.

Every safety invariant that a run checks, and every action property without liveness,
is stated by a theorem. Only model-checked: liveness, which is beyond this prover
(`RunEnds`, `Converges`, `FreezeTakesEffect`, `LogIsClosed`, `TablesGetTheirTurn`, `DriftIsFrozen`,
`JobsKeepRunning`, `ButtonsReturn`), and `Records`, which is evaluated for bounded
batches: what a fold computes for every sequence is an induction over data.

## 13. Not modelled

* The composition of a restore with incremental syncs: the restore leaves
  `lastSyncTime` alone (backup 301), so that the changes between the backup and
  `lastSyncTime` never come back; the two modules share no state in which a property
  could hold.
* Operations that only read, or write one row or document without a reader that
  waits for it: search, CSV export, raw queries and the one-row create, update and
  remove of the master data API (no page calls the last three), the preview of a
  view's query that was not saved, create, update and removal of a source
  configuration, the profile update and refresh-token, the API log and the metrics.
* Student batch sync (`nguoi-hoc`): the same loop as `Records`, without another actor.
* The pages for the dashboard, the schemas, the gateway, the explorers and the logs,
  which show what they fetch.
* Infrastructure, generated SQL and documents.

`PROJECT.json` lists the components with their status.
