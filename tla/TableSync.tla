------------------------------ MODULE TableSync ------------------------------
(***************************************************************************)
(* The synchronisation of ONE table from the source API into PostgreSQL:   *)
(* DataIntegrationService.syncOneTable with the SyncEngine writes it makes *)
(* and the Schema Registry fields it reads and writes.                     *)
(*                                                                         *)
(* A record is a primary key and the time of its last change at the source *)
(* (`updatedAt'), which stands for its contents: two records with one key  *)
(* and one time are the same record.  Time 0 means "no such record".  Time *)
(* is a logical clock that every change at the source advances.            *)
(*                                                                         *)
(* Several pipelines may be syncing the table at once: nothing in the code *)
(* keeps a cron run, a manual run and a custom run apart.  Each is a       *)
(* member of Runs.  A run's awaits (every HTTP request, every upsert, the  *)
(* transaction, the orphan query, the final registry update) are separate  *)
(* steps, and other runs, the source and the administrator move between    *)
(* them.                                                                   *)
(***************************************************************************)
EXTENDS Naturals, FiniteSets

CONSTANTS
  Keys,         \* primary keys, in the order in which the source lists them
  Mistyped,     \* those that the source sends in another type than the column's
  PageSize,     \* records per page (BATCH_LIMIT)
  MaxRetries,   \* attempts per page (MAX_RETRIES)
  Runs,         \* pipeline runs that may be in flight at once
  Strategies,   \* sync strategies the administrator chooses from
  Events,       \* which failures and outside events happen
  MaxTime       \* bound on the clock, hence on the changes at the source

AllStrategies == {"upsert", "incremental", "overwrite"}
AllEvents == {"remove", "field", "detector", "network", "contract",
              "mismatch", "short", "record", "store", "crash", "strategy", "nomodel"}

ASSUME KeysAssumption       == Keys \subseteq Nat /\ IsFiniteSet(Keys)
ASSUME MistypedAssumption   == Mistyped \subseteq Keys
ASSUME PageSizeAssumption   == PageSize \in Nat \ {0}
ASSUME MaxRetriesAssumption == MaxRetries \in Nat \ {0}
ASSUME StrategiesAssumption == Strategies \subseteq AllStrategies
ASSUME EventsAssumption     == Events \subseteq AllEvents
ASSUME MaxTimeAssumption    == MaxTime \in Nat

VARIABLES
  now,    \* the clock
  src,    \* the source table: [Keys -> time of last change, 0 = absent]
  extra,  \* do the source's records carry a field the registry lacked?
  dest,   \* the PostgreSQL table: [Keys -> version stored, 0 = absent]
  reg,    \* the Schema Registry document of the table
  model,  \* does the loaded Prisma client have a model of the table?
  run,    \* the local state of each run
  exact   \* history: has every sync so far been accounted for? (see Finish)

vars == <<now, src, extra, dest, reg, model, run, exact>>

-----------------------------------------------------------------------------
(* Tables and pages                                                        *)

NoRecords == [k \in Keys |-> 0]
Recs(table) == {k \in Keys : table[k] # 0}

\* A run that asks the source for every record, not only for recent changes.
FullLoad(s) == s.strategy # "incremental" \/ s.last = 0

\* Mutant of Wanted: the filter skips the changes of one tick.
WantedRounded(s) == {k \in Keys : src[k] > (IF FullLoad(s) THEN 0 ELSE s.last + 1)}

\* The records the source selects for a run: all of them, or those whose
\* updatedAt is after the run's lastSyncTime (the updatedAfter parameter).
Wanted(s) == {k \in Keys : src[k] > (IF FullLoad(s) THEN 0 ELSE s.last)}

\* The source lists the selected records in key order and cuts the list into
\* pages at the moment of each request.
Rank(k, S) == Cardinality({j \in S : j <= k})
PageOf(k, S) == ((Rank(k, S) - 1) \div PageSize) + 1
TotalPages(S) == IF S = {} THEN 1 ELSE ((Cardinality(S) - 1) \div PageSize) + 1

Payload(s) ==
  [k \in Keys |-> IF k \in Wanted(s) /\ PageOf(k, Wanted(s)) = s.page
                  THEN src[k] ELSE 0]

\* createMany with skipDuplicates: of two records with one key the first stays.
Merge(buffer, page) ==
  [k \in Keys |-> IF buffer[k] # 0 THEN buffer[k] ELSE page[k]]

-----------------------------------------------------------------------------
(* Runs                                                                    *)

\* ids is the code's set sourceIds, the keys as the source sends them.
\* quiet and whole are history fields: quiet says that the source has not
\* changed since the run's first page, whole that the run has not skipped a
\* page or a record.
Idle == [pc |-> "idle", strategy |-> "upsert", last |-> 0, declared |-> FALSE,
         page |-> 1, total |-> 1, attempt |-> 1,
         batch |-> NoRecords, buffer |-> NoRecords,
         ids |-> {}, orphans |-> {}, quiet |-> TRUE, whole |-> TRUE]

Active(r) == run[r].pc # "idle"
Clean(s) == s.quiet /\ s.whole
SetRun(r, s) == run' = [run EXCEPT ![r] = s]
Fail(r) == SetRun(r, Idle)

\* Mutant of AfterLoop: a first incremental load looks for no orphans.
AfterLoopUpsertOnly(s) ==
  IF s.strategy = "overwrite"
  THEN IF Recs(s.buffer) # {} THEN "overwrite" ELSE "finish"
  ELSE IF s.strategy = "upsert" /\ s.ids # {} THEN "orphans" ELSE "finish"

\* What follows the page loop.
AfterLoop(s) ==
  IF s.strategy = "overwrite"
  THEN IF Recs(s.buffer) # {} THEN "overwrite" ELSE "finish"
  ELSE IF FullLoad(s) /\ s.ids # {} THEN "orphans" ELSE "finish"

\* Mutants of Advance: the last page is left out; the page number stays.
AdvanceStopsEarly(s) ==
  IF s.page + 1 < s.total
  THEN [s EXCEPT !.pc = "fetch", !.page = @ + 1, !.attempt = 1]
  ELSE [s EXCEPT !.pc = AfterLoop(s)]
AdvanceSamePage(s) ==
  IF s.page < s.total
  THEN [s EXCEPT !.pc = "fetch", !.attempt = 1]
  ELSE [s EXCEPT !.pc = AfterLoop(s)]

\* The loop condition: the next page, or out of the loop.
Advance(s) ==
  IF s.page < s.total
  THEN [s EXCEPT !.pc = "fetch", !.page = @ + 1, !.attempt = 1]
  ELSE [s EXCEPT !.pc = AfterLoop(s)]

\* A change at the source disturbs the runs that have already read a page.
Begun(s) == s.pc # "idle" /\ ~(s.pc = "fetch" /\ s.page = 1)
Disturbed == [r \in Runs |-> [run[r] EXCEPT !.quiet = @ /\ ~Begun(run[r])]]

Init ==
  /\ now = 1
  /\ src \in [Keys -> {0, 1}]
  /\ extra = FALSE
  /\ dest = NoRecords
  /\ reg \in [status : {"stable"}, declared : {FALSE},
              strategy : Strategies, lastSync : {0}]
  /\ model \in (IF "nomodel" \in Events THEN BOOLEAN ELSE {TRUE})
  /\ run = [r \in Runs |-> Idle]
  /\ exact = TRUE

-----------------------------------------------------------------------------
(* The source and the administrator                                        *)

Edit(k) ==
  /\ now < MaxTime
  /\ now' = now + 1
  /\ src' = [src EXCEPT ![k] = now + 1]
  /\ run' = Disturbed
  /\ UNCHANGED <<extra, dest, reg, model, exact>>

Remove(k) ==
  /\ "remove" \in Events
  /\ src[k] # 0
  /\ src' = [src EXCEPT ![k] = 0]
  /\ run' = Disturbed
  /\ UNCHANGED <<now, extra, dest, reg, model, exact>>

\* The source starts to send a field that the registry does not declare.
AddField ==
  /\ "field" \in Events
  /\ ~extra
  /\ extra' = TRUE
  /\ UNCHANGED <<now, src, dest, reg, model, run, exact>>

DeclareField == reg' = [reg EXCEPT !.status = "changed", !.declared = TRUE]

\* POST run-detector: the new structure is reported from outside any run.
RunDetector ==
  /\ "detector" \in Events
  /\ extra /\ ~reg.declared
  /\ DeclareField
  /\ UNCHANGED <<now, src, extra, dest, model, run, exact>>

\* PUT :tableName/resolve without SQL.
MarkAsStable ==
  /\ reg.status = "changed"
  /\ reg' = [reg EXCEPT !.status = "stable"]
  /\ UNCHANGED <<now, src, extra, dest, model, run, exact>>

UpdateSyncStrategy(strategy) ==
  /\ "strategy" \in Events
  /\ reg' = [reg EXCEPT !.strategy = strategy]
  /\ UNCHANGED <<now, src, extra, dest, model, run, exact>>

-----------------------------------------------------------------------------
(* A run                                                                   *)

\* Mutant of Snapshot: the tables that have changed are not left out.
SnapshotOfAll(r) ==
  /\ run[r].pc = "idle"
  /\ SetRun(r, [Idle EXCEPT !.pc = "fetch", !.strategy = reg.strategy,
                            !.last = reg.lastSync, !.declared = reg.declared])
  /\ UNCHANGED <<now, src, extra, dest, reg, model, exact>>

\* A pipeline loads the registry and keeps the documents of stable tables: the
\* strategy, lastSyncTime and details it uses are those of this moment.
Snapshot(r) ==
  /\ run[r].pc = "idle"
  /\ reg.status = "stable"
  /\ SetRun(r, [Idle EXCEPT !.pc = "fetch", !.strategy = reg.strategy,
                            !.last = reg.lastSync, !.declared = reg.declared])
  /\ UNCHANGED <<now, src, extra, dest, reg, model, exact>>

\* One attempt at a page fails; after MaxRetries attempts the table fails.
FetchFails(r) ==
  /\ "network" \in Events
  /\ run[r].pc = "fetch"
  /\ IF run[r].attempt < MaxRetries
     THEN SetRun(r, [run[r] EXCEPT !.attempt = @ + 1])
     ELSE Fail(r)
  /\ UNCHANGED <<now, src, extra, dest, reg, model, exact>>

\* The answer is not {success: true, payload: [...]}.
ContractViolation(r) ==
  /\ "contract" \in Events
  /\ run[r].pc = "fetch"
  /\ Fail(r)
  /\ UNCHANGED <<now, src, extra, dest, reg, model, exact>>

HasUnknownField(s) == extra /\ ~s.declared /\ Recs(Payload(s)) # {}

\* A record has a field the snapshot's details lack: the registry is told and
\* the table fails.  The report carries no hash, so that the registry takes it
\* for a change whatever the table declares by then.
SchemaDrift(r) ==
  /\ run[r].pc = "fetch"
  /\ HasUnknownField(run[r])
  /\ DeclareField
  /\ Fail(r)
  /\ UNCHANGED <<now, src, extra, dest, model, exact>>

\* The answer is for another page: the loop ends, the table does not fail.
PageMismatch(r) ==
  LET s == run[r] IN
  /\ "mismatch" \in Events
  /\ s.pc = "fetch"
  /\ ~HasUnknownField(s)
  /\ SetRun(r, [s EXCEPT !.pc = AfterLoop(s), !.whole = FALSE])
  /\ UNCHANGED <<now, src, extra, dest, reg, model, exact>>

\* An empty page ends the loop: the source has nothing for this page, or it
\* answers with an empty page although it has (its page count was wrong).
EmptyPage(r) ==
  LET s == run[r] IN
  /\ s.pc = "fetch"
  /\ Recs(Payload(s)) = {} \/ "short" \in Events
  /\ SetRun(r, [s EXCEPT !.pc = AfterLoop(s), !.whole = @ /\ Wanted(s) = {}])
  /\ UNCHANGED <<now, src, extra, dest, reg, model, exact>>

\* A good page.  Its number of pages counts only when it is the first.
Fetched(s) ==
  [s EXCEPT !.total = IF s.page = 1 THEN TotalPages(Wanted(s)) ELSE @]

\* Mutant of FetchForUpsert: the identifiers of the pages before are forgotten.
FetchForUpsertForgetsIds(r) ==
  LET s == run[r] IN
  /\ s.pc = "fetch" /\ s.strategy # "overwrite"
  /\ Recs(Payload(s)) # {}
  /\ ~HasUnknownField(s)
  /\ SetRun(r, [Fetched(s) EXCEPT !.pc = "write",
                                  !.batch = Payload(s), !.ids = Recs(Payload(s))])
  /\ UNCHANGED <<now, src, extra, dest, reg, model, exact>>

\* The keys are collected as the source sends them.  syncTableData converts them
\* to the column's type before it writes, so that the batch is written all the same.
FetchForUpsert(r) ==
  LET s == run[r] IN
  /\ s.pc = "fetch" /\ s.strategy # "overwrite"
  /\ Recs(Payload(s)) # {}
  /\ ~HasUnknownField(s)
  /\ SetRun(r, [Fetched(s) EXCEPT !.pc = "write",
                                  !.batch = Payload(s),
                                  !.ids = @ \cup Recs(Payload(s))])
  /\ UNCHANGED <<now, src, extra, dest, reg, model, exact>>

FetchForOverwrite(r) ==
  LET s == run[r] IN
  /\ s.pc = "fetch" /\ s.strategy = "overwrite"
  /\ Recs(Payload(s)) # {}
  /\ ~HasUnknownField(s)
  /\ SetRun(r, Advance([Fetched(s) EXCEPT !.buffer = Merge(@, Payload(s))]))
  /\ UNCHANGED <<now, src, extra, dest, reg, model, exact>>

\* What remains of a page once the record of key k is dealt with.
Rest(s, k) ==
  LET left == [s EXCEPT !.batch = [@ EXCEPT ![k] = 0]]
  IN  IF Recs(left.batch) = {} THEN Advance(left) ELSE left

\* Mutants of UpsertRecord: the row of one record gets the data of another of
\* its page; a row that exists is not updated.
UpsertWrongRecord(r, k) ==
  LET s == run[r] IN
  /\ model
  /\ s.pc = "write" /\ s.batch[k] # 0
  /\ \E j \in Recs(s.batch) : dest' = [dest EXCEPT ![k] = s.batch[j]]
  /\ SetRun(r, Rest(s, k))
  /\ UNCHANGED <<now, src, extra, reg, model, exact>>
InsertOnly(r, k) ==
  LET s == run[r] IN
  /\ model
  /\ s.pc = "write" /\ s.batch[k] # 0
  /\ dest' = [dest EXCEPT ![k] = IF @ = 0 THEN s.batch[k] ELSE @]
  /\ SetRun(r, Rest(s, k))
  /\ UNCHANGED <<now, src, extra, reg, model, exact>>

UpsertRecord(r, k) ==
  LET s == run[r] IN
  /\ model
  /\ s.pc = "write" /\ s.batch[k] # 0
  /\ dest' = [dest EXCEPT ![k] = s.batch[k]]
  /\ SetRun(r, Rest(s, k))
  /\ UNCHANGED <<now, src, extra, reg, model, exact>>

\* The upsert throws: the record goes to the dead letters, the page goes on.
DeadLetter(r, k) ==
  LET s == run[r] IN
  /\ model /\ "record" \in Events
  /\ s.pc = "write" /\ s.batch[k] # 0
  /\ SetRun(r, Rest([s EXCEPT !.whole = FALSE], k))
  /\ UNCHANGED <<now, src, extra, dest, reg, model, exact>>

\* syncTableData without a Prisma model logs an error and returns.
NoModelForBatch(r) ==
  LET s == run[r] IN
  /\ ~model
  /\ s.pc = "write"
  /\ SetRun(r, Advance([s EXCEPT !.batch = NoRecords, !.whole = FALSE]))
  /\ UNCHANGED <<now, src, extra, dest, reg, model, exact>>

\* overwriteTableData: delete all and insert all, in one transaction.
Overwrite(r) ==
  LET s == run[r] IN
  /\ s.pc = "overwrite"
  /\ dest' = IF model THEN s.buffer ELSE dest
  /\ SetRun(r, [s EXCEPT !.pc = "finish", !.whole = @ /\ model])
  /\ exact' = (exact /\ Clean(s))
  /\ UNCHANGED <<now, src, extra, reg, model>>

\* A store throws (the overwrite transaction, the orphan query, the event log
\* of a batch, the registry update): the table fails, what was written stays.
StoreFails(r) ==
  /\ "store" \in Events
  /\ run[r].pc \in {"write", "overwrite", "orphans", "finish"}
  /\ model \/ run[r].pc = "finish"
  /\ Fail(r)
  /\ UNCHANGED <<now, src, extra, dest, reg, model, exact>>

\* The keys that sourceIds.has finds: it compares what the source sent with what
\* the column holds, by type and value ("7" is not 7).
HasAsColumn(ids) == ids \ Mistyped

DetectOrphans(r) ==
  LET s == run[r] IN
  /\ s.pc = "orphans"
  /\ SetRun(r, [s EXCEPT !.pc = "finish",
                         !.orphans = IF model THEN Recs(dest) \ HasAsColumn(s.ids)
                                     ELSE {}])
  /\ UNCHANGED <<now, src, extra, dest, reg, model, exact>>

\* updateLastSyncTime(new Date()), however the page loop ended.  exact holds as
\* long as every sync that moved lastSyncTime was clean, and again after a
\* clean full load.
Finish(r) ==
  LET s == run[r] IN
  /\ s.pc = "finish"
  /\ reg' = [reg EXCEPT !.lastSync = now]
  /\ SetRun(r, Idle)
  /\ exact' = (Clean(s) /\ (exact \/ FullLoad(s)))
  /\ UNCHANGED <<now, src, extra, dest, model>>

\* The process dies and is restarted: the runs are gone, the stores stay.  The
\* new process may have been built with a Prisma client that has the model.
Restart ==
  /\ "crash" \in Events
  /\ run' = [r \in Runs |-> Idle]
  /\ model' \in {model, TRUE}
  /\ UNCHANGED <<now, src, extra, dest, reg, exact>>

SyncStep(r) ==
  \/ FetchFails(r) \/ ContractViolation(r) \/ SchemaDrift(r)
  \/ PageMismatch(r) \/ EmptyPage(r)
  \/ FetchForUpsert(r) \/ FetchForOverwrite(r)
  \/ \E k \in Keys : UpsertRecord(r, k) \/ DeadLetter(r, k)
  \/ NoModelForBatch(r)
  \/ Overwrite(r) \/ StoreFails(r) \/ DetectOrphans(r)
  \/ Finish(r)

Environment ==
  \/ \E k \in Keys : Edit(k) \/ Remove(k)
  \/ AddField \/ RunDetector \/ MarkAsStable
  \/ \E strategy \in Strategies : UpdateSyncStrategy(strategy)
  \/ Restart

Next == Environment \/ \E r \in Runs : Snapshot(r) \/ SyncStep(r)

\* Requests time out and database calls return, so a run in flight goes on;
\* the scheduler starts runs again and again (cron).  Nothing is assumed of the
\* source, the administrator or crashes.
Fairness == \A r \in Runs : WF_vars(SyncStep(r)) /\ WF_vars(Snapshot(r))

Spec == Init /\ [][Next]_vars /\ Fairness

-----------------------------------------------------------------------------
(* Properties                                                              *)

Versions == [Keys -> 0 .. now]
RunState ==
  [pc : {"idle", "fetch", "write", "overwrite", "orphans", "finish"},
   strategy : AllStrategies, last : 0 .. now, declared : BOOLEAN,
   page : Nat \ {0}, total : Nat \ {0}, attempt : 1 .. MaxRetries,
   batch : Versions, buffer : Versions,
   ids : SUBSET Keys, orphans : SUBSET Keys,
   quiet : BOOLEAN, whole : BOOLEAN]

\* The type invariant.  It also says that no store is ahead of the clock.
TypeOK ==
  /\ now \in Nat \ {0}
  /\ src \in Versions
  /\ extra \in BOOLEAN
  /\ dest \in Versions
  /\ reg \in [status : {"stable", "changed"}, declared : BOOLEAN,
              strategy : AllStrategies, lastSync : 0 .. now]
  /\ model \in BOOLEAN
  /\ run \in [Runs -> RunState]
  /\ exact \in BOOLEAN

\* No update is lost: whatever the source last changed before lastSyncTime,
\* and so will not be sent again by an incremental sync, is in the destination.
\* It holds, whatever crashes or fails, as long as the syncs that moved
\* lastSyncTime were clean, and again after a clean full load (exact); it
\* relates syncOneTable's final updateLastSyncTime to every page before it.
CaughtUp ==
  exact => \A k \in Keys :
             src[k] # 0 /\ src[k] <= reg.lastSync => dest[k] = src[k]

\* A run that ends cleanly has copied what it selected: the page loop, the
\* snapshot of totalPages and the three strategies together lose nothing.
CleanRunCopiesAll ==
  \A r \in Runs :
    run[r].pc = "finish" /\ Clean(run[r])
      => \A k \in Wanted(run[r]) : dest[k] = src[k]

\* A clean run reports as orphans only records that the source does not have,
\* the ones an administrator may purge, and those whose key the source sends in
\* another type than the column's: of these the comment at detectOrphans ("deleted
\* at the source") is not true.
OrphansAreGone ==
  \A r \in Runs :
    run[r].pc = "finish" /\ Clean(run[r])
      => \A k \in run[r].orphans : src[k] = 0 \/ k \in Mistyped

\* A clean full load by upsert reports every record the source has dropped,
\* when there is a source record at all.
OrphansAreFound ==
  \A r \in Runs :
    run[r].pc = "finish" /\ Clean(run[r]) /\ FullLoad(run[r])
      /\ run[r].strategy # "overwrite" /\ Recs(src) # {}
      => Recs(dest) \ Recs(src) \subseteq run[r].orphans

\* A stored record is never replaced by an older version of itself: between
\* the request of a page and its last upsert the source may change, but what
\* the run writes is still no older than what is stored.
NeverStale ==
  [][\A k \in Keys : dest[k] # 0 /\ dest'[k] # 0 => dest'[k] >= dest[k]]_vars

\* The tables of a pipeline are synced one after another: every run of a table
\* comes to an end, so that the tables behind it get their turn.
RunEnds == \A r \in Runs : Active(r) ~> ~Active(r)

\* A table that stays frozen is left alone in the end.  The README (section 4)
\* freezes it at once; in the code only the pipelines that start later skip it,
\* and a run in flight, whose snapshot is older, still writes: what holds is that
\* such runs end, whichever of them overlap and whoever reported the change, and
\* that no new ones follow.
FreezeTakesEffect ==
  <>[](reg.status = "changed") => <>[](\A r \in Runs : ~Active(r))

\* When the source comes to rest, repeated full loads make the destination hold
\* every record of the source in its last version, overlapping runs or not, and
\* whatever fails between the loads that go through.
LoadedFully == \E r \in Runs : run[r].pc = "finish" /\ Clean(run[r]) /\ FullLoad(run[r])
Converges == []<>LoadedFully => <>[](\A k \in Recs(src) : dest[k] = src[k])

-----------------------------------------------------------------------------
(* Inductive invariants, proved in TableSync_proofs                        *)

\* What a run has collected of a record, apart from what it wrote.
Collected(s, k) ==
  IF s.strategy = "overwrite" THEN s.buffer[k] = src[k] ELSE k \in s.ids

ShapeInv(s) ==
  /\ s.pc = "idle" => s = Idle
  /\ s.pc # "write" => s.batch = NoRecords
  /\ s.strategy # "overwrite" => s.buffer = NoRecords
  /\ s.pc = "write" => s.strategy # "overwrite"
  /\ s.pc = "overwrite" => s.strategy = "overwrite"
  /\ s.pc = "orphans" => s.strategy # "overwrite" /\ FullLoad(s)
  /\ s.pc # "finish" => s.orphans = {}
  /\ s.pc = "fetch" /\ s.page = 1 => s.buffer = NoRecords /\ s.ids = {}

\* A run that the source has not disturbed has collected the pages before the
\* current one, and the page count it took from the first page is still right.
CollectInv(s) ==
  /\ s.quiet => \A k \in Keys : s.buffer[k] # 0 => s.buffer[k] = src[k]
  /\ Clean(s) =>
       /\ s.pc = "write" \/ (s.pc = "fetch" /\ s.page > 1)
            => s.total = TotalPages(Wanted(s))
       /\ \A k \in Wanted(s) :
            /\ s.pc = "fetch" /\ PageOf(k, Wanted(s)) < s.page => Collected(s, k)
            /\ s.pc = "write" /\ PageOf(k, Wanted(s)) <= s.page => Collected(s, k)
            /\ s.pc \in {"overwrite", "orphans", "finish"} => Collected(s, k)
       /\ s.pc = "finish" => \A k \in s.orphans : src[k] = 0 \/ k \in Mistyped

PagesInv == \A r \in Runs : ShapeInv(run[r]) /\ CollectInv(run[r])

\* The three invariants below are those of runs that do not overlap.
\* The source is ahead of the destination.
SourceAhead == \A k \in Keys : src[k] # 0 => dest[k] <= src[k]

\* What a run holds in memory lies between the destination and the source.
HeldInv(s, table) ==
  \A k \in Keys :
    /\ src[k] # 0 => s.batch[k] <= src[k] /\ s.buffer[k] <= src[k]
    /\ s.batch[k] # 0 => table[k] <= s.batch[k] /\ (s.quiet => s.batch[k] = src[k])
    /\ s.buffer[k] # 0 => table[k] <= s.buffer[k]

\* A copy that a run holds of a record that did not change after lastSyncTime
\* is the record.
Unchanged(k) == src[k] # 0 /\ src[k] <= reg.lastSync
FreshInv(s) ==
  /\ s.pc # "idle" => s.last = reg.lastSync
  /\ \A k \in Keys : Unchanged(k) =>
       /\ s.batch[k] # 0 => s.batch[k] = src[k]
       /\ s.buffer[k] # 0 => s.buffer[k] = src[k]

\* What a clean run has written so far.
WrittenInv(s, table) ==
  Clean(s) => \A k \in Wanted(s) :
    /\ s.strategy # "overwrite" /\ s.pc \in {"fetch", "write"}
         /\ PageOf(k, Wanted(s)) < s.page => table[k] = src[k]
    /\ s.pc = "write" /\ PageOf(k, Wanted(s)) = s.page
         => table[k] = src[k] \/ s.batch[k] = src[k]
    /\ s.pc \in {"orphans", "finish"} => table[k] = src[k]

RunInv(s, table) == HeldInv(s, table) /\ FreshInv(s) /\ WrittenInv(s, table)

SyncInv == SourceAhead /\ \A r \in Runs : RunInv(run[r], dest)
=============================================================================
