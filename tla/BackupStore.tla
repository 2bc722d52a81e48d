----------------------------- MODULE BackupStore -----------------------------
(***************************************************************************)
(* Where the backups are kept: the objects in MinIO with their ages, the   *)
(* retention policies, the weekly round and the cleanup, the copies on S3, *)
(* and the page of the administrator that shows and starts all of this.    *)
(*                                                                         *)
(* What an object holds is in module Backup; here a backup succeeds or     *)
(* fails, and a restore matters for the snapshot it makes.  A unit of time *)
(* is a day.                                                               *)
(***************************************************************************)
EXTENDS Integers

CONSTANTS
  Triggers,    \* what a backup is made for: manual, scheduled, schema-change, pre-sync
  Tables,      \* the stable tables
  Keys,        \* the names of objects
  Default,     \* DEFAULT_RETENTION: trigger |-> days
  Typed,       \* the days that an administrator types
  Forever,     \* days: null
  Absent,      \* no object, no row, no request
  MaxDay, MaxEvents   \* bounds

VARIABLES
  policy,     \* the table of the policies: trigger |-> days
  wanted,     \* what each policy was set to last, by an administrator or first of all (history)
  objects,    \* the bucket: key |-> [trigger, table, at]
  used,       \* the keys given so far: a key holds the time and never comes again
  copies,     \* the keys on S3
  now,
  unseeded,   \* the policies that a starting backend has still to seed; {} when it is up
  making,     \* round |-> the tables still to be backed up
  weekly,     \* the Sunday job: no, backup or clean
  cleaner,    \* who asked |-> the cleanup under way
  copier,     \* button |-> the copying under way
  tab, shown, \* the page: its tab and its list
  fetches,    \* the tabs whose lists are awaited
  waiting,    \* button |-> the request it waits for
  events      \* how many events of the outside have come

stores == <<policy, wanted, objects, used, copies>>
workers == <<making, weekly, cleaner, copier>>
page == <<tab, shown, fetches, waiting>>
vars == <<stores, now, unseeded, workers, page, events>>

-----------------------------------------------------------------------------
Days == Int \cup {Forever}
\* The days that a policy can have.
Spans == (Nat \ {0}) \cup {Forever}
ASSUME DefaultAssumption == Default \in [Triggers -> Spans] /\ Typed \subseteq Days
ASSUME AbsentAssumption == Absent \notin Days /\ Absent \notin Keys
ASSUME TriggersAssumption == {"manual", "scheduled"} \subseteq Triggers
ASSUME BoundsAssumption == MaxDay \in Nat /\ MaxEvents \in Nat

Object == [trigger : Triggers, table : Tables, at : Nat]
Buttons == {"backup", "cleanup", "restore", "copy", "copyAll", "save"}

\* When an object expires: a cleanup of an earlier day spares it, one of a later
\* day takes it, and on the day itself the hour decides.
Expires(o, days) == IF days = Forever THEN Forever ELSE o.at + days
\* Mutant of ExpiredBy: a day too early.
ExpiredEarly(o, days, day) == Expires(o, days) # Forever /\ o.at + days <= day + 1
ExpiredBy(o, days, day) == Expires(o, days) # Forever /\ o.at + days <= day

Cleanup(todo, map, doomed) == [todo |-> todo, map |-> map, doomed |-> doomed]
NoCleanup == Cleanup({}, Absent, {})
Copying(listed, todo, held, failed) ==
  [listed |-> listed, todo |-> todo, held |-> held, failed |-> failed]
NoCopying == Copying({}, {}, Absent, {})
Click(tabThen, arg, days) == [tab |-> tabThen, arg |-> arg, days |-> days]

Up == unseeded = {}
Stored == {k \in Keys : objects[k] # Absent}

Init ==
  /\ policy = [x \in Triggers |-> Absent] /\ wanted = Default
  /\ objects = [k \in Keys |-> Absent] /\ used = {} /\ copies = {}
  /\ now = 0 /\ events = 0
  /\ unseeded = Triggers
  /\ making = [r \in {"backup", "weekly"} |-> {}] /\ weekly = "no"
  /\ cleaner = [c \in {"cleanup", "weekly"} |-> NoCleanup]
  /\ copier = [c \in {"copy", "copyAll"} |-> NoCopying]
  /\ tab = "manual" /\ shown = {} /\ fetches = {"manual"}
  /\ waiting = [b \in Buttons |-> Absent]

\* Clicks, schedules, events and events, all of them from outside.
Event == events < MaxEvents /\ events' = events + 1

DayPasses ==
  /\ now < MaxDay
  /\ now' = now + 1
  /\ UNCHANGED <<stores, unseeded, workers, page, events>>

-----------------------------------------------------------------------------
(* Start-up, crash and the policies.                                       *)

\* Mutant of Seed: the upsert updates a row that is there.
SeedAgain(x) ==
  /\ x \in unseeded
  /\ unseeded' = unseeded \ {x}
  /\ policy' = [policy EXCEPT ![x] = Default[x]]
  /\ UNCHANGED <<wanted, objects, used, copies, now, workers, page, events>>
\* onModuleInit creates the rows that are missing.
Seed(x) ==
  /\ x \in unseeded
  /\ unseeded' = unseeded \ {x}
  /\ policy' = IF policy[x] = Absent THEN [policy EXCEPT ![x] = Default[x]] ELSE policy
  /\ UNCHANGED <<wanted, objects, used, copies, now, workers, page, events>>

Crash ==
  /\ Event
  /\ unseeded' = Triggers
  /\ making' = [r \in DOMAIN making |-> {}] /\ weekly' = "no"
  /\ cleaner' = [c \in DOMAIN cleaner |-> NoCleanup]
  /\ copier' = [c \in DOMAIN copier |-> NoCopying]
  /\ waiting' = [b \in Buttons |-> Absent]
  /\ UNCHANGED <<stores, now, tab, shown, fetches>>

-----------------------------------------------------------------------------
(* The page.                                                               *)

Press(button, arg, days) ==
  /\ Event /\ waiting[button] = Absent
  /\ waiting' = [waiting EXCEPT ![button] = Click(tab, arg, days)]
  /\ UNCHANGED <<stores, now, unseeded, workers, tab, shown, fetches>>

SelectTab(x) ==
  /\ Event /\ x # tab /\ tab' = x
  /\ fetches' = fetches \cup {x}
  /\ UNCHANGED <<stores, now, unseeded, workers, shown, waiting>>

\* The dialog with the tables: its button is off while none is ticked.
Ticked == SUBSET Tables \ {{}}
HandleTriggerBackup == \E ticked \in Ticked : Press("backup", ticked, Absent)
HandleCleanupBackups == Press("cleanup", Absent, Absent)
\* The history of any table of the list can be opened, and each row has its buttons.
Rows == shown
\* The dialog asks once more.
HandleConfirmRestore(k) == k \in Rows /\ Press("restore", k, Absent)
HandleSyncToS3(k) == k \in Rows /\ Press("copy", k, Absent)
HandleSyncAllToS3 == Press("copyAll", Absent, Absent)
\* An empty field means forever; zero and less are sent as they are.
Editable == {x \in Triggers : policy[x] # Absent}
HandleSaveRetention(x, days) == x \in Editable /\ Press("save", x, days)

\* The answers of two tabs come in any order, and the last one is shown.
FetchBackups(x) ==
  /\ x \in fetches /\ Up
  /\ fetches' = fetches \ {x}
  /\ shown' = {k \in Stored : objects[k].trigger = x}
  /\ UNCHANGED <<stores, now, unseeded, workers, events, tab, waiting>>

\* A list that cannot be had leaves the old one where it is.
FetchFails(x) ==
  /\ x \in fetches
  /\ fetches' = fetches \ {x}
  /\ UNCHANGED <<stores, now, unseeded, workers, events, tab, shown, waiting>>

\* A good answer fetches the list of the tab that was open at the click.
Answered(button) == waiting' = [waiting EXCEPT ![button] = Absent]
Refetch(button) == fetches' = fetches \cup {waiting[button].tab}
Silent == UNCHANGED <<tab, shown>>

\* The backend is down, or the handler throws.
Busy(button) ==
  \/ button = "backup" /\ making["backup"] # {}
  \/ button = "cleanup" /\ cleaner["cleanup"] # NoCleanup
  \/ button = "copy" /\ copier["copy"] # NoCopying
Refused(button) ==
  /\ waiting[button] # Absent /\ ~Busy(button)
  /\ Answered(button) /\ Silent
  /\ UNCHANGED <<stores, now, unseeded, workers, events, fetches>>

-----------------------------------------------------------------------------
(* Backups.                                                                *)

Put(x, t) ==
  \E k \in Keys \ used :
    /\ used' = used \cup {k}
    /\ objects' = [objects EXCEPT ![k] = [trigger |-> x, table |-> t, at |-> now]]

TriggerOf(round) == IF round = "backup" THEN "manual" ELSE "scheduled"

TriggerManualBackup ==
  /\ Up /\ waiting["backup"] # Absent /\ ~Busy("backup")
  /\ waiting["backup"].arg # {}
  /\ making' = [making EXCEPT !["backup"] = waiting["backup"].arg]
  /\ waiting' = [waiting EXCEPT !["backup"].arg = {}]
  /\ Silent
  /\ UNCHANGED <<stores, now, unseeded, weekly, cleaner, copier, events, fetches>>

\* One table after the other; a table that fails is passed over.
BackupTable(round, t) ==
  /\ t \in making[round]
  /\ making' = [making EXCEPT ![round] = @ \ {t}]
  /\ Put(TriggerOf(round), t) \/ UNCHANGED <<objects, used>>
  /\ UNCHANGED <<policy, wanted, copies, now, unseeded, weekly, cleaner, copier, page, events>>

\* The page is told of success whatever failed.
BackupAnswered ==
  /\ Up /\ waiting["backup"] # Absent /\ waiting["backup"].arg = {} /\ ~Busy("backup")
  /\ Answered("backup") /\ Refetch("backup") /\ Silent
  /\ UNCHANGED <<stores, now, unseeded, workers, events>>

\* The pipelines and the schema registry ask for backups of their own.
HandleSchemaChanged(x, t) ==
  /\ Event /\ Up /\ x \notin {"manual", "scheduled"}
  /\ Put(x, t)
  /\ UNCHANGED <<policy, wanted, copies, now, unseeded, workers, page>>

HandleWeeklyBackup ==
  /\ Event /\ Up /\ weekly = "no"
  /\ weekly' = "backup"
  /\ making' = [making EXCEPT !["weekly"] = Tables]
  /\ UNCHANGED <<stores, now, unseeded, cleaner, copier, page>>

\* The snapshot may fail; the answer is a success if the rows were replaced.
RestoreFromBackup ==
  LET k == waiting["restore"].arg IN
  /\ Up /\ waiting["restore"] # Absent /\ k \in Stored
  /\ Put("manual", objects[k].table) \/ UNCHANGED <<objects, used>>
  /\ Answered("restore") /\ Refetch("restore") /\ Silent
  /\ UNCHANGED <<policy, wanted, copies, now, unseeded, workers, events>>

DeleteBackup(k) ==
  /\ Event /\ Up /\ k \in Stored
  /\ objects' = [objects EXCEPT ![k] = Absent]
  /\ UNCHANGED <<policy, wanted, used, copies, now, unseeded, workers, page>>

-----------------------------------------------------------------------------
(* Retention.                                                              *)

\* Mutant of Valid: any whole number of days.
ValidInteger(days) == days \in Days
\* The DTO: null, or a whole number from 1 on.
Valid(days) == IF days = Forever THEN TRUE ELSE days >= 1

UpdateRetentionPolicy ==
  LET x == waiting["save"].arg
      days == waiting["save"].days IN
  /\ Up /\ waiting["save"] # Absent /\ Valid(days)
  /\ policy' = [policy EXCEPT ![x] = days]
  /\ wanted' = [wanted EXCEPT ![x] = days]
  /\ Answered("save") /\ Silent
  /\ UNCHANGED <<objects, used, copies, now, unseeded, workers, events, fetches>>

\* Mutant of CleanupOldBackups: requests and schedules do not wait for the seeding.
CleanupBeforeSeeding(c) ==
  /\ cleaner[c] = NoCleanup
  /\ IF c = "weekly" THEN weekly = "backup" /\ making["weekly"] = {} /\ weekly' = "clean"
     ELSE waiting[c] # Absent /\ waiting[c].arg = Absent /\ weekly' = weekly
  /\ waiting' = IF c = "weekly" THEN waiting ELSE [waiting EXCEPT ![c].arg = "begun"]
  /\ cleaner' = [cleaner EXCEPT ![c] =
       Cleanup({x \in Triggers : policy[x] # Forever}, policy, {})]
  /\ Silent
  /\ UNCHANGED <<stores, now, unseeded, making, copier, events, fetches>>
\* getRetentionMap: the policies as they are when the cleanup begins.
CleanupOldBackups(c) ==
  /\ Up /\ cleaner[c] = NoCleanup
  /\ IF c = "weekly" THEN weekly = "backup" /\ making["weekly"] = {} /\ weekly' = "clean"
     ELSE waiting[c] # Absent /\ waiting[c].arg = Absent /\ weekly' = weekly
  /\ waiting' = IF c = "weekly" THEN waiting ELSE [waiting EXCEPT ![c].arg = "begun"]
  /\ cleaner' = [cleaner EXCEPT ![c] =
       Cleanup({x \in Triggers : policy[x] # Forever}, policy, {})]
  /\ Silent
  /\ UNCHANGED <<stores, now, unseeded, making, copier, events, fetches>>

Picks(c, x, day) ==
  {k \in Stored : objects[k].trigger = x /\ ExpiredBy(objects[k], cleaner[c].map[x], day)}
\* The next trigger: its objects are listed and those before the cutoff picked.
ListExpired(c, x) ==
  /\ x \in cleaner[c].todo /\ cleaner[c].doomed = {}
  /\ \E picked \in SUBSET Picks(c, x, now) :
       /\ Picks(c, x, now - 1) \subseteq picked
       /\ cleaner' = [cleaner EXCEPT ![c] = Cleanup(@.todo \ {x}, @.map, picked)]
  /\ UNCHANGED <<stores, now, unseeded, making, weekly, copier, page, events>>

DeleteObjects(c) ==
  /\ cleaner[c].doomed # {}
  /\ objects' = [k \in Keys |-> IF k \in cleaner[c].doomed THEN Absent ELSE objects[k]]
  /\ cleaner' = [cleaner EXCEPT ![c].doomed = {}]
  /\ UNCHANGED <<policy, wanted, used, copies, now, unseeded, making, weekly, copier, page, events>>

\* The cleanup is through, or its listing or deleting failed.
CleanupEnds(c) ==
  /\ cleaner[c].map # Absent
  /\ cleaner' = [cleaner EXCEPT ![c] = NoCleanup]
  /\ weekly' = IF c = "weekly" THEN "no" ELSE weekly
  /\ IF c = "cleanup" /\ waiting[c] # Absent
     THEN Answered(c) /\ (Refetch(c) \/ UNCHANGED fetches)
     ELSE UNCHANGED <<waiting, fetches>>
  /\ Silent
  /\ UNCHANGED <<stores, now, unseeded, making, copier, events>>

-----------------------------------------------------------------------------
(* Copies on S3.                                                           *)

\* syncAllToS3 answers at once and goes on in the background.
SyncToS3(c) ==
  LET keys == IF c = "copy" THEN {waiting[c].arg} ELSE Stored IN
  /\ Up /\ waiting[c] # Absent /\ copier[c] = NoCopying /\ keys # {}
  /\ copier' = [copier EXCEPT ![c] = Copying(keys, keys, Absent, {})]
  /\ IF c = "copyAll" THEN Answered(c) ELSE UNCHANGED waiting
  /\ Silent
  /\ UNCHANGED <<stores, now, unseeded, making, weekly, cleaner, events, fetches>>

\* Mutant of SkipOrRead: an object that is gone is passed over.
SkipMissing(c, k) ==
  /\ k \in copier[c].todo /\ copier[c].held = Absent
  /\ \/ /\ k \in copies \/ k \notin Stored
        /\ copier' = [copier EXCEPT ![c].todo = @ \ {k}]
     \/ /\ k \in Stored
        /\ copier' = [copier EXCEPT ![c].todo = @ \ {k}, ![c].held = k]
  /\ UNCHANGED <<stores, now, unseeded, making, weekly, cleaner, page, events>>
\* What S3 has is skipped; a failing HeadObject counts as no.  The object is
\* read into memory, and one that cannot be read is counted as failed.
SkipOrRead(c, k) ==
  /\ k \in copier[c].todo /\ copier[c].held = Absent
  /\ \/ /\ k \in copies
        /\ copier' = [copier EXCEPT ![c].todo = @ \ {k}]
     \/ /\ k \in Stored
        /\ copier' = [copier EXCEPT ![c].todo = @ \ {k}, ![c].held = k]
     \/ copier' = [copier EXCEPT ![c].todo = @ \ {k}, ![c].failed = @ \cup {k}]
  /\ UNCHANGED <<stores, now, unseeded, making, weekly, cleaner, page, events>>

UploadBuffer(c) ==
  /\ copier[c].held # Absent
  /\ \/ /\ copies' = copies \cup {copier[c].held}
        /\ copier' = [copier EXCEPT ![c].held = Absent]
     \/ /\ copier' = [copier EXCEPT ![c].held = Absent, ![c].failed = @ \cup {copier[c].held}]
        /\ UNCHANGED copies
  /\ UNCHANGED <<policy, wanted, objects, used, now, unseeded, making, weekly, cleaner, page, events>>

\* Mutant of SyncEnds: a copy that failed never gives its button back.
SyncEndsWell(c) ==
  /\ copier[c] # NoCopying /\ copier[c].todo = {} /\ copier[c].held = Absent
  /\ copier' = [copier EXCEPT ![c] = NoCopying]
  /\ IF c = "copy" /\ copier[c].failed = {} THEN Answered(c) ELSE UNCHANGED waiting
  /\ Silent
  /\ UNCHANGED <<stores, now, unseeded, making, weekly, cleaner, events, fetches>>
SyncEnds(c) ==
  /\ copier[c] # NoCopying /\ copier[c].todo = {} /\ copier[c].held = Absent
  /\ copier' = [copier EXCEPT ![c] = NoCopying]
  /\ IF c = "copy" THEN Answered(c) ELSE UNCHANGED waiting
  /\ Silent
  /\ UNCHANGED <<stores, now, unseeded, making, weekly, cleaner, events, fetches>>

-----------------------------------------------------------------------------
PageStep ==
  \/ HandleTriggerBackup \/ HandleCleanupBackups \/ HandleSyncAllToS3
  \/ \E x \in Triggers : SelectTab(x) \/ \E days \in Typed : HandleSaveRetention(x, days)
  \/ \E k \in Keys : HandleConfirmRestore(k) \/ HandleSyncToS3(k)

Lists == \E x \in Triggers : FetchBackups(x) \/ FetchFails(x)
BackupStep(round) == \E t \in Tables : BackupTable(round, t)
CleanupStep(c) ==
  CleanupOldBackups(c) \/ (\E x \in Triggers : ListExpired(c, x)) \/ DeleteObjects(c) \/ CleanupEnds(c)
CopyStep(c) ==
  SyncToS3(c) \/ (\E k \in Keys : SkipOrRead(c, k)) \/ UploadBuffer(c) \/ SyncEnds(c)

\* A request is taken up or refused, what was begun goes on, and at its end the
\* page gets its answer.
Serve(b) ==
  \/ Refused(b)
  \/ b = "backup" /\ (TriggerManualBackup \/ BackupStep(b) \/ BackupAnswered)
  \/ b = "restore" /\ RestoreFromBackup
  \/ b = "save" /\ UpdateRetentionPolicy
  \/ b = "cleanup" /\ CleanupStep(b)
  \/ b \in {"copy", "copyAll"} /\ CopyStep(b)
Next ==
  \/ DayPasses \/ Crash \/ PageStep \/ Lists \/ HandleWeeklyBackup
  \/ \E x \in Triggers : Seed(x) \/ \E t \in Tables : HandleSchemaChanged(x, t)
  \/ \E k \in Keys : DeleteBackup(k)
  \/ BackupStep("weekly") \/ CleanupStep("weekly")
  \/ \E b \in Buttons : Serve(b)

Fairness == \A b \in Buttons : WF_vars(Serve(b))

Spec == Init /\ [][Next]_vars
FairSpec == Spec /\ Fairness

-----------------------------------------------------------------------------
\* The stores, the work under way and the page, with what they refer to: a key is
\* one that was given, and a cleanup has a policy to go by for every trigger.
TypeOK ==
  /\ policy \in [Triggers -> Days \cup {Absent}] /\ wanted \in [Triggers -> Days]
  /\ objects \in [Keys -> Object \cup {Absent}] /\ used \in SUBSET Keys /\ copies \in SUBSET used
  /\ unseeded \in SUBSET Triggers
  /\ making \in [{"backup", "weekly"} -> SUBSET Tables] /\ weekly \in {"no", "backup", "clean"}
  /\ \A c \in DOMAIN cleaner :
       /\ cleaner[c].todo \subseteq Triggers /\ cleaner[c].doomed \subseteq used
       /\ cleaner[c].map \in [Triggers -> Spans] \cup {Absent}
  /\ \A c \in DOMAIN copier :
       copier[c].todo \subseteq used /\ copier[c].held \in used \cup {Absent}
  /\ tab \in Triggers /\ fetches \in SUBSET Triggers /\ shown \in SUBSET used

\* A policy that was saved counts until another one is saved: a restart seeds
\* only what is missing, also when it is cut short and begins again.
PolicyIsKept == \A x \in Triggers : policy[x] \in {Absent, wanted[x]}

\* A cleanup deletes what its policy has expired, and the policy of the moment
\* unless that was changed since the cleanup began.
OnlyExpiredAreDoomed ==
  \A c \in DOMAIN cleaner : \A k \in cleaner[c].doomed \cap Stored :
    LET x == objects[k].trigger IN
    Expires(objects[k], policy[x]) \in 0 .. now \/ cleaner[c].map[x] # policy[x]

\* The backups that a round has just made outlive its own cleanup, whatever an
\* administrator typed into the policy.
FreshIsKept == \A c \in DOMAIN cleaner : \A k \in cleaner[c].doomed \cap Stored : objects[k].at < now

\* Whatever is deleted meanwhile, each object that a copying has listed ends on
\* S3 or among the failed.
SyncAllReports ==
  \A c \in DOMAIN copier :
    LET s == copier[c] IN s.listed \subseteq copies \cup s.failed \cup s.todo \cup {s.held}

\* A button that was pressed can be pressed again, events of the backend or not.
ButtonsReturn == \A b \in Buttons : waiting[b] # Absent ~> waiting[b] = Absent

-----------------------------------------------------------------------------
(* The inductive invariant, proved in BackupStore_proofs                   *)

\* A policy that is not there yet is still to be seeded and was never set.
PolicyInv ==
  /\ policy \in [Triggers -> Spans \cup {Absent}] /\ wanted \in [Triggers -> Spans]
  /\ unseeded \in SUBSET Triggers
  /\ \A x \in Triggers :
       IF policy[x] = Absent THEN wanted[x] = Default[x] /\ x \in unseeded
       ELSE policy[x] = wanted[x]

BucketInv ==
  /\ now \in Nat
  /\ objects \in [Keys -> Object \cup {Absent}] /\ used \in SUBSET Keys
  /\ Stored \subseteq used /\ copies \subseteq used

MakingInv ==
  making \in [{"backup", "weekly"} -> SUBSET Tables] /\ weekly \in {"no", "backup", "clean"}

\* What a cleanup has picked is expired by the map that it began with.
CleanupState == {NoCleanup} \cup
  [todo : SUBSET Triggers, map : [Triggers -> Spans], doomed : SUBSET used]
CleanerInv ==
  /\ cleaner \in [{"cleanup", "weekly"} -> CleanupState]
  /\ \A c \in {"cleanup", "weekly"} : \A k \in cleaner[c].doomed \cap Stored :
       LET days == cleaner[c].map[objects[k].trigger] IN
       days # Forever /\ objects[k].at + days <= now

CopyState ==
  [listed : SUBSET used, todo : SUBSET used, held : used \cup {Absent}, failed : SUBSET used]
CopierInv == copier \in [{"copy", "copyAll"} -> CopyState] /\ SyncAllReports

PageInv ==
  tab \in Triggers /\ fetches \in SUBSET Triggers /\ shown \subseteq used

\* What the buttons have sent.
Request(b) ==
  LET w == waiting[b] IN
  /\ w = Click(w.tab, w.arg, w.days) /\ w.tab \in Triggers
  /\ b = "backup" => w.arg \in SUBSET Tables
  /\ b \in {"restore", "copy"} => w.arg \in used
  /\ b = "save" => w.arg \in Triggers /\ w.days \in Typed
WaitingInv ==
  /\ DOMAIN waiting = Buttons
  /\ \A b \in Buttons : waiting[b] # Absent => Request(b)

StoreInv ==
  PolicyInv /\ BucketInv /\ MakingInv /\ CleanerInv /\ CopierInv /\ PageInv /\ WaitingInv
=============================================================================
