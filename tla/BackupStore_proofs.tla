-------------------------- MODULE BackupStore_proofs --------------------------
(***************************************************************************)
(* Theorems about BackupStore, for every set of triggers, tables and keys, *)
(* whatever the administrator types, and with no bound on the days or on   *)
(* the events from outside.                                                *)
(***************************************************************************)
EXTENDS BackupStore, TLAPS

-----------------------------------------------------------------------------
(* The policies                                                            *)

LEMMA ValidSpan ==
  ASSUME NEW days \in Days, Valid(days) PROVE days \in Spans
<1>1. CASE days = Forever
  BY <1>1 DEF Spans
<1>2. CASE days # Forever
  <2>1. days \in Int /\ days >= 1
    BY <1>2 DEF Days, Valid
  <2> QED
    BY <2>1 DEF Spans
<1> QED
  BY <1>1, <1>2

LEMMA SpansAreDays == Spans \subseteq Days /\ Absent \notin Spans
BY AbsentAssumption DEF Spans, Days

\* The steps that leave the policies alone.
LEMMA PolicyFrame ==
  ASSUME [Next]_vars
  PROVE  \/ UNCHANGED <<policy, wanted, unseeded>>
         \/ \E x \in Triggers : Seed(x)
         \/ Crash
         \/ UpdateRetentionPolicy
<1>1. CASE UNCHANGED vars
  BY <1>1 DEF vars, stores
<1>2. CASE DayPasses \/ PageStep \/ Lists \/ HandleWeeklyBackup
           \/ (\E x \in Triggers, t \in Tables : HandleSchemaChanged(x, t))
           \/ (\E k \in Keys : DeleteBackup(k))
  BY <1>2 DEF DayPasses, PageStep, Lists, HandleWeeklyBackup, HandleSchemaChanged, DeleteBackup,
    HandleTriggerBackup, HandleCleanupBackups, HandleSyncAllToS3, SelectTab, HandleSaveRetention,
    HandleConfirmRestore, HandleSyncToS3, Press, FetchBackups, FetchFails, stores
<1>3. ASSUME NEW round, BackupStep(round) PROVE UNCHANGED <<policy, wanted, unseeded>>
  BY <1>3 DEF BackupStep, BackupTable
<1>4. ASSUME NEW c, CleanupStep(c) PROVE UNCHANGED <<policy, wanted, unseeded>>
  BY <1>4 DEF CleanupStep, CleanupOldBackups, ListExpired, DeleteObjects, CleanupEnds, stores
<1>5. ASSUME NEW c, CopyStep(c) PROVE UNCHANGED <<policy, wanted, unseeded>>
  BY <1>5 DEF CopyStep, SyncToS3, SkipOrRead, UploadBuffer, SyncEnds, stores
<1>6. ASSUME NEW b \in Buttons, Serve(b), ~UpdateRetentionPolicy
      PROVE  UNCHANGED <<policy, wanted, unseeded>>
  BY <1>3, <1>4, <1>5, <1>6
     DEF Serve, Refused, TriggerManualBackup, BackupAnswered, RestoreFromBackup, stores
<1> QED
  BY <1>1, <1>2, <1>3, <1>4, <1>6 DEF Next

LEMMA PolicyNext ==
  ASSUME PolicyInv, WaitingInv, [Next]_vars PROVE PolicyInv'
<1>1. ASSUME NEW x \in Triggers, Seed(x) PROVE PolicyInv'
  <2>1. Default[x] \in Spans
    BY DefaultAssumption
  <2> QED
    BY <1>1, <2>1, SpansAreDays DEF Seed, PolicyInv
<1>2. CASE Crash
  BY <1>2 DEF Crash, PolicyInv, stores
<1>3. CASE UpdateRetentionPolicy
  <2> DEFINE x == waiting["save"].arg
             days == waiting["save"].days
  <2>1. Request("save")
    BY <1>3 DEF UpdateRetentionPolicy, WaitingInv, Buttons
  <2>2. x \in Triggers /\ days \in Typed
    BY <2>1 DEF Request
  <2>3. days \in Spans /\ days # Absent
    BY <1>3, <2>2, ValidSpan, SpansAreDays, DefaultAssumption DEF UpdateRetentionPolicy
  <2>4. /\ policy' = [policy EXCEPT ![x] = days] /\ wanted' = [wanted EXCEPT ![x] = days]
        /\ UNCHANGED unseeded
    BY <1>3 DEF UpdateRetentionPolicy
  <2> QED
    BY <2>2, <2>3, <2>4 DEF PolicyInv
<1>4. CASE UNCHANGED <<policy, wanted, unseeded>>
  BY <1>4 DEF PolicyInv
<1> QED
  BY <1>1, <1>2, <1>3, <1>4, PolicyFrame

-----------------------------------------------------------------------------
(* The bucket                                                              *)

LEMMA PutBucket ==
  ASSUME BucketInv, NEW x \in Triggers, NEW t \in Tables, Put(x, t), UNCHANGED <<now, copies>>
  PROVE  /\ BucketInv' /\ used \subseteq used'
         /\ \A k \in used : objects'[k] = objects[k]
<1>1. PICK key \in Keys \ used :
        /\ used' = used \cup {key}
        /\ objects' = [objects EXCEPT ![key] = [trigger |-> x, table |-> t, at |-> now]]
  BY DEF Put
<1>2. [trigger |-> x, table |-> t, at |-> now] \in Object
  BY DEF BucketInv, Object
<1> DEFINE o == [trigger |-> x, table |-> t, at |-> now]
<1> HIDE DEF o
<1>3. o \in Object /\ objects' = [objects EXCEPT ![key] = o]
  BY <1>1, <1>2 DEF o
<1> QED
  BY <1>1, <1>3 DEF BucketInv, Stored

LEMMA BucketFrame ==
  ASSUME [Next]_vars
  PROVE  \/ UNCHANGED <<objects, used, copies, now>>
         \/ DayPasses
         \/ \E x \in Triggers, t \in Tables : HandleSchemaChanged(x, t)
         \/ \E k \in Keys : DeleteBackup(k)
         \/ \E round \in {"backup", "weekly"} : BackupStep(round)
         \/ \E c \in {"cleanup", "weekly"} : DeleteObjects(c)
         \/ \E c \in {"copy", "copyAll"} : UploadBuffer(c)
         \/ RestoreFromBackup
<1>1. CASE UNCHANGED vars
  BY <1>1 DEF vars, stores
<1>2. CASE Crash \/ PageStep \/ Lists \/ HandleWeeklyBackup \/ \E x \in Triggers : Seed(x)
  BY <1>2 DEF Crash, PageStep, Lists, HandleWeeklyBackup, Seed,
    HandleTriggerBackup, HandleCleanupBackups, HandleSyncAllToS3, SelectTab, HandleSaveRetention,
    HandleConfirmRestore, HandleSyncToS3, Press, FetchBackups, FetchFails, stores
<1>3. ASSUME NEW c, CleanupStep(c), ~DeleteObjects(c)
      PROVE  UNCHANGED <<objects, used, copies, now>>
  BY <1>3 DEF CleanupStep, CleanupOldBackups, ListExpired, CleanupEnds, stores
<1>4. ASSUME NEW c, CopyStep(c), ~UploadBuffer(c)
      PROVE  UNCHANGED <<objects, used, copies, now>>
  BY <1>4 DEF CopyStep, SyncToS3, SkipOrRead, SyncEnds, stores
<1>5. CASE \E b \in Buttons :
             Refused(b) \/ TriggerManualBackup \/ BackupAnswered \/ UpdateRetentionPolicy
  BY <1>5 DEF Refused, TriggerManualBackup, BackupAnswered, UpdateRetentionPolicy, stores
<1> QED
  BY <1>1, <1>2, <1>3, <1>4, <1>5 DEF Next, Serve

LEMMA BucketNext ==
  ASSUME StoreInv, [Next]_vars
  PROVE  /\ BucketInv' /\ used \subseteq used' /\ copies \subseteq copies'
         /\ now' \in Nat /\ now <= now'
         /\ \A k \in used : objects'[k] \in {objects[k], Absent}
<1> DEFINE Goal == /\ BucketInv' /\ used \subseteq used' /\ copies \subseteq copies'
                   /\ now' \in Nat /\ now <= now'
                   /\ \A k \in used : objects'[k] \in {objects[k], Absent}
<1>0. BucketInv /\ now \in Nat
  BY DEF StoreInv, BucketInv
<1>1. CASE UNCHANGED <<objects, used, copies, now>>
  BY <1>0, <1>1 DEF BucketInv, Stored
<1>2. CASE DayPasses
  BY <1>0, <1>2 DEF DayPasses, BucketInv, Stored, stores
<1>3. ASSUME NEW x \in Triggers, NEW t \in Tables, Put(x, t), UNCHANGED <<copies, now>>
      PROVE  Goal
  BY <1>0, <1>3, PutBucket
<1>4. CASE \E x \in Triggers, t \in Tables : HandleSchemaChanged(x, t)
  BY <1>3, <1>4 DEF HandleSchemaChanged
<1>5. ASSUME NEW k \in Keys, DeleteBackup(k) PROVE Goal
  BY <1>0, <1>5 DEF DeleteBackup, BucketInv, Stored
<1>6. ASSUME NEW round \in {"backup", "weekly"}, NEW t \in Tables, BackupTable(round, t)
      PROVE  Goal
  <2>1. TriggerOf(round) \in Triggers /\ UNCHANGED <<copies, now>>
    BY <1>6, TriggersAssumption DEF TriggerOf, BackupTable
  <2> QED
    BY <1>1, <1>3, <1>6, <2>1 DEF BackupTable
<1>7. ASSUME NEW c \in {"cleanup", "weekly"}, DeleteObjects(c) PROVE Goal
  BY <1>0, <1>7 DEF DeleteObjects, BucketInv, Stored
<1>8. ASSUME NEW c \in {"copy", "copyAll"}, UploadBuffer(c) PROVE Goal
  <2>1. copier[c].held \in used \cup {Absent} /\ copier[c].held # Absent
    BY <1>8 DEF UploadBuffer, StoreInv, CopierInv, CopyState
  <2> QED
    BY <1>0, <1>8, <2>1 DEF UploadBuffer, BucketInv, Stored
<1>9. CASE RestoreFromBackup
  <2> DEFINE k == waiting["restore"].arg
  <2>1. k \in Stored /\ UNCHANGED <<copies, now>>
        /\ (Put("manual", objects[k].table) \/ UNCHANGED <<objects, used>>)
    BY <1>9 DEF RestoreFromBackup
  <2>2. objects[k].table \in Tables /\ "manual" \in Triggers
    BY <1>0, <2>1, TriggersAssumption DEF BucketInv, Stored, Object
  <2> QED
    BY <1>1, <1>3, <2>1, <2>2
<1> QED
  BY <1>1, <1>2, <1>4, <1>5, <1>6, <1>7, <1>8, <1>9, BucketFrame DEF BackupStep

-----------------------------------------------------------------------------
(* The rounds of backups                                                   *)

LEMMA MakingFrame ==
  ASSUME [Next]_vars
  PROVE  \/ UNCHANGED <<making, weekly>>
         \/ Crash \/ HandleWeeklyBackup \/ TriggerManualBackup
         \/ \E round \in {"backup", "weekly"} : BackupStep(round)
         \/ \E c \in {"cleanup", "weekly"} : CleanupOldBackups(c) \/ CleanupEnds(c)
<1>1. CASE UNCHANGED vars
  BY <1>1 DEF vars, workers
<1>2. CASE DayPasses \/ PageStep \/ Lists \/ (\E x \in Triggers : Seed(x))
           \/ (\E x \in Triggers, t \in Tables : HandleSchemaChanged(x, t))
           \/ (\E k \in Keys : DeleteBackup(k))
  BY <1>2 DEF DayPasses, PageStep, Lists, Seed, HandleSchemaChanged, DeleteBackup,
    HandleTriggerBackup, HandleCleanupBackups, HandleSyncAllToS3, SelectTab, HandleSaveRetention,
    HandleConfirmRestore, HandleSyncToS3, Press, FetchBackups, FetchFails, workers
<1>3. ASSUME NEW c, CleanupStep(c), ~CleanupOldBackups(c), ~CleanupEnds(c)
      PROVE  UNCHANGED <<making, weekly>>
  BY <1>3 DEF CleanupStep, ListExpired, DeleteObjects
<1>4. ASSUME NEW c, CopyStep(c) PROVE UNCHANGED <<making, weekly>>
  BY <1>4 DEF CopyStep, SyncToS3, SkipOrRead, UploadBuffer, SyncEnds
<1>5. CASE \E b \in Buttons :
             Refused(b) \/ BackupAnswered \/ RestoreFromBackup \/ UpdateRetentionPolicy
  BY <1>5 DEF Refused, BackupAnswered, RestoreFromBackup, UpdateRetentionPolicy, workers
<1> QED
  BY <1>1, <1>2, <1>3, <1>4, <1>5 DEF Next, Serve

LEMMA MakingNext ==
  ASSUME MakingInv, WaitingInv, [Next]_vars PROVE MakingInv'
<1>1. CASE UNCHANGED <<making, weekly>>
  BY <1>1 DEF MakingInv
<1>2. CASE Crash
  BY <1>2 DEF Crash, MakingInv
<1>3. CASE HandleWeeklyBackup
  BY <1>3 DEF HandleWeeklyBackup, MakingInv
<1>4. CASE TriggerManualBackup
  <2>1. Request("backup")
    BY <1>4 DEF TriggerManualBackup, WaitingInv, Buttons
  <2>2. waiting["backup"].arg \in SUBSET Tables
    BY <2>1 DEF Request
  <2> QED
    BY <1>4, <2>2 DEF TriggerManualBackup, MakingInv
<1>5. ASSUME NEW round \in {"backup", "weekly"}, NEW t \in Tables, BackupTable(round, t)
      PROVE  MakingInv'
  BY <1>5 DEF BackupTable, MakingInv
<1>6. ASSUME NEW c \in {"cleanup", "weekly"}, CleanupOldBackups(c) \/ CleanupEnds(c)
      PROVE  MakingInv'
  BY <1>6 DEF CleanupOldBackups, CleanupEnds, MakingInv
<1> QED
  BY <1>1, <1>2, <1>3, <1>4, <1>5, <1>6, MakingFrame DEF BackupStep

-----------------------------------------------------------------------------
(* Cleanups                                                                *)

LEMMA CleanerFrame ==
  ASSUME [Next]_vars
  PROVE  \/ UNCHANGED cleaner
         \/ Crash
         \/ \E c \in {"cleanup", "weekly"} : CleanupStep(c)
<1>1. CASE UNCHANGED vars
  BY <1>1 DEF vars, workers
<1>2. CASE DayPasses \/ PageStep \/ Lists \/ HandleWeeklyBackup \/ (\E x \in Triggers : Seed(x))
           \/ (\E x \in Triggers, t \in Tables : HandleSchemaChanged(x, t))
           \/ (\E k \in Keys : DeleteBackup(k))
  BY <1>2 DEF DayPasses, PageStep, Lists, HandleWeeklyBackup, Seed, HandleSchemaChanged, DeleteBackup,
    HandleTriggerBackup, HandleCleanupBackups, HandleSyncAllToS3, SelectTab, HandleSaveRetention,
    HandleConfirmRestore, HandleSyncToS3, Press, FetchBackups, FetchFails, workers
<1>3. ASSUME NEW round, BackupStep(round) PROVE UNCHANGED cleaner
  BY <1>3 DEF BackupStep, BackupTable
<1>4. ASSUME NEW c, CopyStep(c) PROVE UNCHANGED cleaner
  BY <1>4 DEF CopyStep, SyncToS3, SkipOrRead, UploadBuffer, SyncEnds
<1>5. CASE \E b \in Buttons : Refused(b) \/ TriggerManualBackup \/ BackupAnswered
                              \/ RestoreFromBackup \/ UpdateRetentionPolicy
  BY <1>5 DEF Refused, TriggerManualBackup, BackupAnswered, RestoreFromBackup,
              UpdateRetentionPolicy, workers
<1> QED
  BY <1>1, <1>2, <1>3, <1>4, <1>5 DEF Next, Serve

\* Of the objects that a cleanup has picked, those that are still there are
\* expired by its map.
Doomed(s) ==
  \A k \in s.doomed \cap Stored :
    LET days == s.map[objects[k].trigger] IN days # Forever /\ objects[k].at + days <= now

LEMMA NoCleanupDoomed == NoCleanup.doomed = {} /\ NoCleanup \in CleanupState /\ Doomed(NoCleanup)
BY DEF NoCleanup, Cleanup, CleanupState, Doomed

LEMMA CleanupFields ==
  ASSUME NEW todo, NEW map, NEW doomed
  PROVE  LET s == Cleanup(todo, map, doomed) IN
         s.todo = todo /\ s.map = map /\ s.doomed = doomed
BY DEF Cleanup

LEMMA CleanupType ==
  ASSUME NEW todo \in SUBSET Triggers, NEW map \in [Triggers -> Spans], NEW doomed \in SUBSET used
  PROVE  Cleanup(todo, map, doomed) \in CleanupState
BY DEF Cleanup, CleanupState

LEMMA SpanSum ==
  ASSUME NEW days \in Spans, days # Forever, NEW at \in Nat, NEW day \in Nat, NEW later \in Nat,
         day <= later, at + days <= day
  PROVE  at + days <= later /\ days \in Nat \ {0}
<1>1. days \in Nat \ {0}
  BY DEF Spans
<1> QED
  BY <1>1

\* A cleanup under way stays right, whatever happens to the bucket: a key that
\* it has picked holds the object that it held, or nothing.
LEMMA DoomedKept ==
  ASSUME BucketInv, NEW s \in CleanupState, Doomed(s), used \subseteq used',
         now' \in Nat, now <= now',
         \A k \in used : objects'[k] \in {objects[k], Absent},
         NEW t, t = s
  PROVE  t \in CleanupState' /\ Doomed(t)'
<1>1. s \in CleanupState'
  BY DEF CleanupState
<1>2. CASE s = NoCleanup
  BY <1>1, <1>2 DEF Doomed, NoCleanup, Cleanup
<1>3. CASE s # NoCleanup
  <2>1. s.doomed \in SUBSET used /\ s.map \in [Triggers -> Spans]
    BY <1>3 DEF CleanupState
  <2>2. ASSUME NEW k \in s.doomed, k \in Stored'
        PROVE  /\ s.map[objects'[k].trigger] # Forever
               /\ objects'[k].at + s.map[objects'[k].trigger] <= now'
    <3> DEFINE o == objects[k]
               days == s.map[o.trigger]
    <3>1. objects'[k] = o /\ o # Absent /\ k \in Keys
      BY <2>1, <2>2 DEF Stored, BucketInv
    <3>2. o \in Object /\ k \in Stored
      BY <3>1 DEF Stored, BucketInv
    <3>3. o.at \in Nat /\ days \in Spans
      BY <2>1, <3>2 DEF Object
    <3>4. days # Forever /\ o.at + days <= now
      BY <2>2, <3>2 DEF Doomed
    <3> HIDE DEF days
    <3>5. o.at + days <= now'
      BY <3>3, <3>4, SpanSum DEF BucketInv
    <3> QED
      BY <3>1, <3>4, <3>5 DEF days
  <2> QED
    BY <1>1, <2>2 DEF Doomed
<1> QED
  BY <1>2, <1>3

LEMMA CleanerParts ==
  CleanerInv <=> /\ cleaner \in [{"cleanup", "weekly"} -> CleanupState]
                 /\ \A c \in {"cleanup", "weekly"} : Doomed(cleaner[c])
BY DEF CleanerInv, Doomed

\* When one cleanup is set to s and the other goes on.
LEMMA CleanerStep ==
  ASSUME BucketInv, CleanerInv, NEW c \in {"cleanup", "weekly"}, NEW s \in CleanupState,
         Doomed(s), cleaner' = [cleaner EXCEPT ![c] = s], used \subseteq used',
         now' \in Nat, now <= now',
         \A k \in used : objects'[k] \in {objects[k], Absent}
  PROVE  CleanerInv'
<1>1. /\ cleaner \in [{"cleanup", "weekly"} -> CleanupState]
      /\ \A d \in {"cleanup", "weekly"} : Doomed(cleaner[d])
  BY CleanerParts
<1>2. ASSUME NEW d \in {"cleanup", "weekly"}
      PROVE  cleaner'[d] \in CleanupState' /\ Doomed(cleaner[d])'
  <2>1. CASE d = c
    <3>1. cleaner'[d] = s
      BY <1>1, <2>1
    <3> QED
      BY <3>1, DoomedKept DEF Doomed
  <2>2. CASE d # c
    <3>1. cleaner'[d] = cleaner[d] /\ cleaner[d] \in CleanupState /\ Doomed(cleaner[d])
      BY <1>1, <2>2
    <3> QED
      BY <3>1, DoomedKept DEF Doomed
  <2> QED
    BY <2>1, <2>2
<1>3. cleaner' \in [{"cleanup", "weekly"} -> CleanupState']
  BY <1>1, <1>2
<1> QED
  BY <1>2, <1>3 DEF CleanerInv, Doomed

LEMMA CleanerNext ==
  ASSUME StoreInv, [Next]_vars PROVE CleanerInv'
<1>0. /\ BucketInv /\ CleanerInv /\ PolicyInv
      /\ cleaner \in [{"cleanup", "weekly"} -> CleanupState]
      /\ \A c \in {"cleanup", "weekly"} : Doomed(cleaner[c])
  BY CleanerParts DEF StoreInv
<1>b. /\ used \subseteq used' /\ now' \in Nat /\ now <= now'
      /\ \A k \in used : objects'[k] \in {objects[k], Absent}
  BY BucketNext
<1>1. CASE UNCHANGED cleaner
  <2>1. cleaner' = [cleaner EXCEPT !["weekly"] = cleaner["weekly"]]
    BY <1>0, <1>1
  <2> QED
    BY <1>0, <1>b, <2>1, CleanerStep
<1>2. CASE Crash
  <2>1. cleaner' = [c \in {"cleanup", "weekly"} |-> NoCleanup]
    BY <1>0, <1>2 DEF Crash
  <2>2. NoCleanup \in CleanupState' /\ Doomed(NoCleanup)'
    BY DEF NoCleanup, Cleanup, CleanupState, Doomed
  <2> QED
    BY <2>1, <2>2 DEF CleanerInv, Doomed
<1>a. ASSUME NEW c \in {"cleanup", "weekly"}, NEW s \in CleanupState, Doomed(s),
             cleaner' = [cleaner EXCEPT ![c] = s]
      PROVE  CleanerInv'
  BY <1>0, <1>a, <1>b, CleanerStep
<1>3. ASSUME NEW c \in {"cleanup", "weekly"}, CleanupOldBackups(c) PROVE CleanerInv'
  <2> DEFINE todo == {x \in Triggers : policy[x] # Forever}
             s == Cleanup(todo, policy, {})
  <2>1. Up /\ cleaner' = [cleaner EXCEPT ![c] = s]
    BY <1>3 DEF CleanupOldBackups
  <2>2. policy \in [Triggers -> Spans]
    BY <1>0, <2>1 DEF Up, PolicyInv
  <2>3. s \in CleanupState /\ s.doomed = {}
    BY <2>2, CleanupType, CleanupFields
  <2> HIDE DEF s
  <2>4. Doomed(s)
    BY <2>3 DEF Doomed
  <2> QED
    BY <1>a, <2>1, <2>3, <2>4
<1>4. ASSUME NEW c \in {"cleanup", "weekly"}, NEW x \in Triggers, ListExpired(c, x)
      PROVE  CleanerInv'
  <2> DEFINE s == cleaner[c]
  <2>1. PICK picked \in SUBSET Picks(c, x, now) :
          cleaner' = [cleaner EXCEPT ![c] = Cleanup(@.todo \ {x}, @.map, picked)]
    BY <1>4 DEF ListExpired
  <2>2. cleaner' = [cleaner EXCEPT ![c] = Cleanup(s.todo \ {x}, s.map, picked)]
    BY <1>0, <2>1
  <2>3. s \in CleanupState /\ x \in s.todo
    BY <1>0, <1>4 DEF ListExpired
  <2>4. s.todo \subseteq Triggers /\ s.map \in [Triggers -> Spans]
    BY <2>3 DEF CleanupState, NoCleanup, Cleanup
  <2>5. picked \subseteq used
    BY <1>0 DEF Picks, BucketInv
  <2> DEFINE t == Cleanup(s.todo \ {x}, s.map, picked)
  <2>6. t \in CleanupState /\ t.map = s.map /\ t.doomed = picked
    BY <2>4, <2>5, CleanupType, CleanupFields
  <2>7. ASSUME NEW k \in picked
        PROVE  /\ s.map[objects[k].trigger] # Forever
               /\ objects[k].at + s.map[objects[k].trigger] <= now
    BY <2>1, <2>7 DEF Picks, ExpiredBy, Expires
  <2> HIDE DEF t
  <2>8. Doomed(t)
    BY <2>6, <2>7 DEF Doomed
  <2> QED
    BY <1>a, <2>2, <2>6, <2>8 DEF t
<1>5. ASSUME NEW c \in {"cleanup", "weekly"}, DeleteObjects(c) PROVE CleanerInv'
  <2> DEFINE s == cleaner[c]
             t == [s EXCEPT !.doomed = {}]
  <2>1. cleaner' = [cleaner EXCEPT ![c] = t] /\ s.doomed # {} /\ s \in CleanupState
    BY <1>0, <1>5 DEF DeleteObjects
  <2>2. t \in CleanupState /\ t.doomed = {}
    BY <2>1 DEF CleanupState, NoCleanup, Cleanup
  <2> HIDE DEF t
  <2>3. Doomed(t)
    BY <2>2 DEF Doomed
  <2> QED
    BY <1>a, <2>1, <2>2, <2>3
<1>6. ASSUME NEW c \in {"cleanup", "weekly"}, CleanupEnds(c) PROVE CleanerInv'
  BY <1>a, <1>6, NoCleanupDoomed DEF CleanupEnds
<1> QED
  BY <1>1, <1>2, <1>3, <1>4, <1>5, <1>6, CleanerFrame DEF CleanupStep

-----------------------------------------------------------------------------
(* Copies on S3                                                            *)

LEMMA CopierFrame ==
  ASSUME [Next]_vars
  PROVE  \/ UNCHANGED copier
         \/ Crash
         \/ \E c \in {"copy", "copyAll"} : CopyStep(c)
<1>1. CASE UNCHANGED vars
  BY <1>1 DEF vars, workers
<1>2. CASE DayPasses \/ PageStep \/ Lists \/ HandleWeeklyBackup \/ (\E x \in Triggers : Seed(x))
           \/ (\E x \in Triggers, t \in Tables : HandleSchemaChanged(x, t))
           \/ (\E k \in Keys : DeleteBackup(k))
  BY <1>2 DEF DayPasses, PageStep, Lists, HandleWeeklyBackup, Seed, HandleSchemaChanged, DeleteBackup,
    HandleTriggerBackup, HandleCleanupBackups, HandleSyncAllToS3, SelectTab, HandleSaveRetention,
    HandleConfirmRestore, HandleSyncToS3, Press, FetchBackups, FetchFails, workers
<1>3. ASSUME NEW round, BackupStep(round) PROVE UNCHANGED copier
  BY <1>3 DEF BackupStep, BackupTable
<1>4. ASSUME NEW c, CleanupStep(c) PROVE UNCHANGED copier
  BY <1>4 DEF CleanupStep, CleanupOldBackups, ListExpired, DeleteObjects, CleanupEnds
<1>5. CASE \E b \in Buttons : Refused(b) \/ TriggerManualBackup \/ BackupAnswered
                              \/ RestoreFromBackup \/ UpdateRetentionPolicy
  BY <1>5 DEF Refused, TriggerManualBackup, BackupAnswered, RestoreFromBackup,
              UpdateRetentionPolicy, workers
<1> QED
  BY <1>1, <1>2, <1>3, <1>4, <1>5 DEF Next, Serve

\* Every object that a copying has listed is accounted for.
Accounted(s, there) == s.listed \subseteq there \cup s.failed \cup s.todo \cup {s.held}

LEMMA CopierParts ==
  ASSUME copier \in [{"copy", "copyAll"} -> CopyState]
  PROVE  SyncAllReports <=> \A c \in {"copy", "copyAll"} : Accounted(copier[c], copies)
BY DEF SyncAllReports, Accounted

LEMMA CopyingType ==
  ASSUME NEW listed \in SUBSET used, NEW todo \in SUBSET used,
         NEW held \in used \cup {Absent}, NEW failed \in SUBSET used
  PROVE  LET s == Copying(listed, todo, held, failed) IN
         /\ s \in CopyState
         /\ s.listed = listed /\ s.todo = todo /\ s.held = held /\ s.failed = failed
BY DEF Copying, CopyState

\* When one copying is set to s and the other goes on.
LEMMA CopierStep ==
  ASSUME CopierInv, NEW c \in {"copy", "copyAll"}, NEW s \in CopyState,
         Accounted(s, copies'), copier' = [copier EXCEPT ![c] = s],
         used \subseteq used', copies \subseteq copies'
  PROVE  CopierInv'
<1>1. copier \in [{"copy", "copyAll"} -> CopyState]
      /\ \A d \in {"copy", "copyAll"} : Accounted(copier[d], copies)
  BY CopierParts DEF CopierInv
<1>2. CopyState \subseteq CopyState'
  BY DEF CopyState
<1>3. copier' \in [{"copy", "copyAll"} -> CopyState']
  BY <1>1, <1>2
<1>4. \A d \in {"copy", "copyAll"} : Accounted(copier'[d], copies')
  BY <1>1 DEF Accounted
<1>5. SyncAllReports'
  BY <1>3, <1>4 DEF SyncAllReports, Accounted
<1> QED
  BY <1>3, <1>5 DEF CopierInv

LEMMA CopierNext ==
  ASSUME StoreInv, [Next]_vars PROVE CopierInv'
<1>0. /\ CopierInv /\ BucketInv /\ WaitingInv
      /\ copier \in [{"copy", "copyAll"} -> CopyState]
      /\ \A c \in {"copy", "copyAll"} : Accounted(copier[c], copies)
  BY CopierParts DEF StoreInv, CopierInv
<1>b. used \subseteq used' /\ copies \subseteq copies'
  BY BucketNext
<1>a. ASSUME NEW c \in {"copy", "copyAll"}, NEW s \in CopyState, Accounted(s, copies'),
             copier' = [copier EXCEPT ![c] = s]
      PROVE  CopierInv'
  BY <1>0, <1>a, <1>b, CopierStep
<1>c. NoCopying \in CopyState /\ \A there : Accounted(NoCopying, there)
  <2>1. NoCopying.listed = {} /\ NoCopying \in CopyState
    BY CopyingType DEF NoCopying
  <2> QED
    BY <2>1 DEF Accounted
<1>1. CASE UNCHANGED copier
  <2>1. copier' = [copier EXCEPT !["copy"] = copier["copy"]]
        /\ Accounted(copier["copy"], copies')
    BY <1>0, <1>1, <1>b DEF Accounted
  <2> QED
    BY <1>0, <1>a, <2>1
<1>2. CASE Crash
  <2>1. copier' = [c \in {"copy", "copyAll"} |-> NoCopying]
    BY <1>0, <1>2 DEF Crash
  <2>2. NoCopying \in CopyState' /\ NoCopying.listed = {}
    BY DEF NoCopying, Copying, CopyState
  <2> QED
    BY <2>1, <2>2 DEF CopierInv, SyncAllReports
<1>3. ASSUME NEW c \in {"copy", "copyAll"}, SyncToS3(c) PROVE CopierInv'
  <2> DEFINE keys == IF c = "copy" THEN {waiting[c].arg} ELSE Stored
  <2>1. keys \subseteq used
    <3>1. CASE c = "copy"
      <4>1. Request("copy")
        BY <1>0, <1>3, <3>1 DEF SyncToS3, WaitingInv, Buttons
      <4> QED
        BY <3>1, <4>1 DEF Request
    <3>2. CASE c # "copy"
      BY <1>0, <3>2 DEF BucketInv
    <3> QED
      BY <3>1, <3>2
  <2>2. copier' = [copier EXCEPT ![c] = Copying(keys, keys, Absent, {})]
    BY <1>3 DEF SyncToS3
  <2> HIDE DEF keys
  <2> DEFINE s == Copying(keys, keys, Absent, {})
  <2>3. s \in CopyState /\ s.listed = keys /\ s.todo = keys
    BY <2>1, CopyingType
  <2> HIDE DEF s
  <2>4. Accounted(s, copies')
    BY <2>3 DEF Accounted
  <2> QED
    BY <1>a, <2>2, <2>3, <2>4 DEF s
<1>4. ASSUME NEW c \in {"copy", "copyAll"}, NEW k \in Keys, SkipOrRead(c, k) PROVE CopierInv'
  <2> DEFINE s == copier[c]
             t1 == [s EXCEPT !.todo = @ \ {k}]
             t2 == [s EXCEPT !.todo = @ \ {k}, !.held = k]
             t3 == [s EXCEPT !.todo = @ \ {k}, !.failed = @ \cup {k}]
  <2>1. s \in CopyState /\ Accounted(s, copies) /\ k \in s.todo /\ s.held = Absent
    BY <1>0, <1>4 DEF SkipOrRead
  <2>2. \/ k \in copies /\ copier' = [copier EXCEPT ![c] = t1]
        \/ copier' = [copier EXCEPT ![c] = t2]
        \/ copier' = [copier EXCEPT ![c] = t3]
    BY <1>0, <1>4 DEF SkipOrRead
  <2>3. k \in used /\ s.listed \in SUBSET used /\ Absent \notin used
    BY <1>0, <2>1, AbsentAssumption DEF CopyState, BucketInv
  <2>4. t1 \in CopyState /\ t2 \in CopyState /\ t3 \in CopyState
    BY <2>1, <2>3 DEF CopyState
  <2>5. /\ t1.listed = s.listed /\ t1.todo = s.todo \ {k} /\ t1.held = s.held
        /\ t1.failed = s.failed
        /\ t2.listed = s.listed /\ t2.todo = s.todo \ {k} /\ t2.held = k
        /\ t2.failed = s.failed
        /\ t3.listed = s.listed /\ t3.todo = s.todo \ {k} /\ t3.held = s.held
        /\ t3.failed = s.failed \cup {k}
    BY <2>1 DEF CopyState
  <2> HIDE DEF t1, t2, t3
  <2>6. (k \in copies => Accounted(t1, copies')) /\ Accounted(t2, copies') /\ Accounted(t3, copies')
    BY <1>b, <2>1, <2>3, <2>5 DEF Accounted
  <2> QED
    BY <1>a, <2>2, <2>4, <2>6
<1>5. ASSUME NEW c \in {"copy", "copyAll"}, UploadBuffer(c) PROVE CopierInv'
  <2> DEFINE s == copier[c]
             t1 == [s EXCEPT !.held = Absent]
             t2 == [s EXCEPT !.held = Absent, !.failed = @ \cup {s.held}]
  <2>1. s \in CopyState /\ Accounted(s, copies) /\ s.held # Absent
    BY <1>0, <1>5 DEF UploadBuffer
  <2>2. \/ copies' = copies \cup {s.held} /\ copier' = [copier EXCEPT ![c] = t1]
        \/ copier' = [copier EXCEPT ![c] = t2]
    BY <1>0, <1>5 DEF UploadBuffer
  <2>3. s.held \in used
    BY <2>1 DEF CopyState
  <2>4. t1 \in CopyState /\ t2 \in CopyState
    BY <2>1, <2>3 DEF CopyState
  <2>5. /\ t1.listed = s.listed /\ t1.todo = s.todo /\ t1.failed = s.failed
        /\ t2.listed = s.listed /\ t2.todo = s.todo /\ t2.failed = s.failed \cup {s.held}
    BY <2>1 DEF CopyState
  <2> HIDE DEF t1, t2
  <2>6. /\ copies' = copies \cup {s.held} => Accounted(t1, copies')
        /\ Accounted(t2, copies')
    BY <1>b, <2>1, <2>5 DEF Accounted
  <2> QED
    BY <1>a, <2>2, <2>4, <2>6
<1>6. ASSUME NEW c \in {"copy", "copyAll"}, SyncEnds(c) PROVE CopierInv'
  BY <1>a, <1>c, <1>6 DEF SyncEnds
<1> QED
  BY <1>1, <1>2, <1>3, <1>4, <1>5, <1>6, CopierFrame DEF CopyStep

-----------------------------------------------------------------------------
(* The page                                                                *)

\* A list that was awaited stays awaited, except when it arrives or fails.
LEMMA PageFrame ==
  ASSUME WaitingInv, fetches \in SUBSET Triggers, [Next]_vars
  PROVE  \/ /\ UNCHANGED <<tab, shown>>
            /\ fetches \subseteq fetches' /\ fetches' \in SUBSET Triggers
         \/ \E x \in Triggers : SelectTab(x) \/ FetchBackups(x) \/ FetchFails(x)
<1> DEFINE Same == /\ UNCHANGED <<tab, shown>>
                   /\ fetches \subseteq fetches' /\ fetches' \in SUBSET Triggers
<1>1. CASE UNCHANGED vars
  BY <1>1 DEF vars, page
<1>2. CASE DayPasses \/ Crash \/ HandleWeeklyBackup \/ (\E x \in Triggers : Seed(x))
           \/ (\E x \in Triggers, t \in Tables : HandleSchemaChanged(x, t))
           \/ (\E k \in Keys : DeleteBackup(k))
  BY <1>2 DEF DayPasses, Crash, HandleWeeklyBackup, Seed, HandleSchemaChanged, DeleteBackup, page
<1>3. ASSUME NEW b, NEW arg, NEW days, Press(b, arg, days) PROVE Same
  BY <1>3 DEF Press
<1>4. CASE PageStep /\ ~\E x \in Triggers : SelectTab(x)
  BY <1>3, <1>4 DEF PageStep, HandleTriggerBackup, HandleCleanupBackups, HandleSyncAllToS3,
                    HandleSaveRetention, HandleConfirmRestore, HandleSyncToS3
<1>5. ASSUME NEW round, BackupStep(round) PROVE Same
  BY <1>5 DEF BackupStep, BackupTable, page
<1>6. ASSUME NEW b \in Buttons, waiting[b] # Absent, Refetch(b)
      PROVE  fetches \subseteq fetches' /\ fetches' \in SUBSET Triggers
  <2>1. waiting[b].tab \in Triggers
    BY <1>6 DEF WaitingInv, Request
  <2> QED
    BY <1>6, <2>1 DEF Refetch
<1>7. ASSUME NEW c, CleanupStep(c) PROVE Same
  <2>1. CASE CleanupEnds(c)
    BY <1>6, <2>1 DEF CleanupEnds, Silent, Buttons
  <2>2. CASE ~CleanupEnds(c)
    BY <1>7, <2>2 DEF CleanupStep, CleanupOldBackups, ListExpired, DeleteObjects, Silent, page
  <2> QED
    BY <2>1, <2>2
<1>8. ASSUME NEW c, CopyStep(c) PROVE Same
  BY <1>8 DEF CopyStep, SyncToS3, SkipOrRead, UploadBuffer, SyncEnds, Silent, page
<1>9. CASE BackupAnswered \/ RestoreFromBackup
  BY <1>6, <1>9 DEF BackupAnswered, RestoreFromBackup, Silent, Buttons
<1>10. CASE \E b \in Buttons : Refused(b) \/ TriggerManualBackup \/ UpdateRetentionPolicy
  BY <1>10 DEF Refused, TriggerManualBackup, UpdateRetentionPolicy, Silent
<1> QED
  BY <1>1, <1>2, <1>4, <1>5, <1>7, <1>8, <1>9, <1>10 DEF Next, Serve, PageStep, Lists

LEMMA PageNext ==
  ASSUME StoreInv, [Next]_vars PROVE PageInv'
<1>0. PageInv /\ WaitingInv /\ BucketInv /\ used \subseteq used'
  BY BucketNext DEF StoreInv
<1>1. CASE /\ UNCHANGED <<tab, shown>>
           /\ fetches \subseteq fetches' /\ fetches' \in SUBSET Triggers
  BY <1>0, <1>1 DEF PageInv
<1>2. ASSUME NEW x \in Triggers, SelectTab(x) PROVE PageInv'
  BY <1>0, <1>2 DEF SelectTab, PageInv
<1>3. ASSUME NEW x \in Triggers, FetchBackups(x) PROVE PageInv'
  <2>1. shown' \subseteq used'
    BY <1>0, <1>3 DEF FetchBackups, BucketInv
  <2> QED
    BY <1>0, <1>3, <2>1 DEF FetchBackups, PageInv
<1>4. ASSUME NEW x \in Triggers, FetchFails(x) PROVE PageInv'
  BY <1>0, <1>4 DEF FetchFails, PageInv
<1> QED
  BY <1>0, <1>1, <1>2, <1>3, <1>4, PageFrame DEF PageInv

-----------------------------------------------------------------------------
(* The buttons                                                             *)

LEMMA RequestKept ==
  ASSUME NEW b \in Buttons, Request(b), used \subseteq used', waiting'[b] = waiting[b]
  PROVE  Request(b)'
BY DEF Request

LEMMA WaitingKept ==
  ASSUME WaitingInv, used \subseteq used', UNCHANGED waiting PROVE WaitingInv'
BY DEF WaitingInv, Request

\* When a button is set, and the others wait as they did.
LEMMA WaitingStep ==
  ASSUME WaitingInv, NEW b \in Buttons, NEW w, waiting' = [waiting EXCEPT ![b] = w],
         w # Absent => Request(b)', used \subseteq used'
  PROVE  WaitingInv'
<1>1. DOMAIN waiting' = Buttons /\ waiting'[b] = w
  BY DEF WaitingInv
<1>2. ASSUME NEW d \in Buttons, waiting'[d] # Absent PROVE Request(d)'
  <2>1. CASE d = b
    BY <1>1, <1>2, <2>1
  <2>2. CASE d # b
    <3>1. waiting'[d] = waiting[d]
      BY <2>2 DEF WaitingInv
    <3> QED
      BY <1>2, <3>1, RequestKept DEF WaitingInv
  <2> QED
    BY <2>1, <2>2
<1> QED
  BY <1>1, <1>2 DEF WaitingInv

LEMMA ClickFields ==
  ASSUME NEW tabThen, NEW arg, NEW days
  PROVE  LET w == Click(tabThen, arg, days) IN
         w.tab = tabThen /\ w.arg = arg /\ w.days = days /\ w = Click(w.tab, w.arg, w.days)
BY DEF Click

LEMMA PressWaits ==
  ASSUME WaitingInv, NEW b \in Buttons, NEW arg, NEW days, Press(b, arg, days),
         tab \in Triggers, used \subseteq used',
         b = "backup" => arg \in SUBSET Tables,
         b \in {"restore", "copy"} => arg \in used,
         b = "save" => arg \in Triggers /\ days \in Typed
  PROVE  WaitingInv'
<1> DEFINE w == Click(tab, arg, days)
<1>1. waiting' = [waiting EXCEPT ![b] = w]
  BY DEF Press
<1>2. w.tab = tab /\ w.arg = arg /\ w.days = days /\ w = Click(w.tab, w.arg, w.days)
  BY ClickFields
<1> HIDE DEF w
<1>3. waiting'[b] = w
  BY <1>1 DEF WaitingInv
<1>4. Request(b)'
  BY <1>2, <1>3 DEF Request
<1> QED
  BY <1>1, <1>4, WaitingStep

\* A step of the backend answers a button, or notes how far its request is.
LEMMA WaitingFrame ==
  ASSUME [Next]_vars
  PROVE  \/ UNCHANGED waiting
         \/ Crash \/ PageStep \/ TriggerManualBackup \/ CleanupOldBackups("cleanup")
         \/ \E c \in Buttons : Answered(c)
<1>1. CASE UNCHANGED vars
  BY <1>1 DEF vars, page
<1>2. CASE DayPasses \/ Lists \/ HandleWeeklyBackup \/ (\E x \in Triggers : Seed(x))
           \/ (\E x \in Triggers, t \in Tables : HandleSchemaChanged(x, t))
           \/ (\E k \in Keys : DeleteBackup(k))
  BY <1>2 DEF DayPasses, Lists, HandleWeeklyBackup, Seed, HandleSchemaChanged, DeleteBackup,
              FetchBackups, FetchFails, page
<1>3. ASSUME NEW round, BackupStep(round) PROVE UNCHANGED waiting
  BY <1>3 DEF BackupStep, BackupTable, page
<1>4. ASSUME NEW c, CleanupStep(c), ~CleanupOldBackups(c)
      PROVE  UNCHANGED waiting \/ Answered("cleanup")
  BY <1>4 DEF CleanupStep, ListExpired, DeleteObjects, CleanupEnds, page
<1>5. CASE CleanupOldBackups("weekly")
  BY <1>5 DEF CleanupOldBackups
<1>6. ASSUME NEW c, CopyStep(c)
      PROVE  UNCHANGED waiting \/ Answered("copy") \/ Answered("copyAll")
  BY <1>6 DEF CopyStep, SyncToS3, SkipOrRead, UploadBuffer, SyncEnds, page
<1>7. ASSUME NEW b \in Buttons, Refused(b) PROVE Answered(b)
  BY <1>7 DEF Refused
<1>8. CASE BackupAnswered \/ RestoreFromBackup \/ UpdateRetentionPolicy
  BY <1>8 DEF BackupAnswered, RestoreFromBackup, UpdateRetentionPolicy, Buttons
<1>9. "cleanup" \in Buttons /\ "copy" \in Buttons /\ "copyAll" \in Buttons
  BY DEF Buttons
<1> QED
  BY <1>1, <1>2, <1>3, <1>4, <1>5, <1>6, <1>7, <1>8, <1>9 DEF Next, Serve

LEMMA WaitingNext ==
  ASSUME StoreInv, [Next]_vars PROVE WaitingInv'
<1>0. WaitingInv /\ PageInv /\ tab \in Triggers /\ shown \subseteq used /\ used \subseteq used'
  BY BucketNext DEF StoreInv, PageInv
<1>1. CASE UNCHANGED waiting
  BY <1>0, <1>1, WaitingKept
<1>2. CASE Crash
  BY <1>2 DEF Crash, WaitingInv
<1>3. CASE PageStep
  <2>1. CASE HandleTriggerBackup
    BY <1>0, <2>1, PressWaits DEF HandleTriggerBackup, Ticked, Buttons
  <2>2. CASE HandleCleanupBackups
    BY <1>0, <2>2, PressWaits DEF HandleCleanupBackups, Buttons
  <2>3. CASE HandleSyncAllToS3
    BY <1>0, <2>3, PressWaits DEF HandleSyncAllToS3, Buttons
  <2>4. ASSUME NEW x \in Triggers, SelectTab(x) PROVE WaitingInv'
    BY <1>0, <2>4, WaitingKept DEF SelectTab
  <2>5. ASSUME NEW x \in Triggers, NEW days \in Typed, HandleSaveRetention(x, days)
        PROVE  WaitingInv'
    BY <1>0, <2>5, PressWaits DEF HandleSaveRetention, Buttons
  <2>6. ASSUME NEW k \in Keys, HandleConfirmRestore(k) PROVE WaitingInv'
    BY <1>0, <2>6, PressWaits DEF HandleConfirmRestore, Rows, Buttons
  <2>7. ASSUME NEW k \in Keys, HandleSyncToS3(k) PROVE WaitingInv'
    BY <1>0, <2>7, PressWaits DEF HandleSyncToS3, Rows, Buttons
  <2> QED
    BY <1>3, <2>1, <2>2, <2>3, <2>4, <2>5, <2>6, <2>7 DEF PageStep
\* The request of a button is taken up: its record notes how far it is.
<1>a. ASSUME NEW b \in {"backup", "cleanup"}, NEW arg, arg \in SUBSET Tables \/ b = "cleanup",
             waiting[b] # Absent, waiting' = [waiting EXCEPT ![b].arg = arg]
      PROVE  WaitingInv'
  <2> DEFINE v == waiting[b]
             w == [v EXCEPT !.arg = arg]
  <2>1. b \in Buttons /\ waiting' = [waiting EXCEPT ![b] = w]
    BY <1>0, <1>a DEF Buttons, WaitingInv
  <2>2. v = Click(v.tab, v.arg, v.days) /\ v.tab \in Triggers
    BY <1>0, <1>a, <2>1 DEF WaitingInv, Request
  <2>3. w = Click(v.tab, arg, v.days)
    BY <2>2 DEF Click
  <2>4. w.tab = v.tab /\ w.arg = arg /\ w = Click(w.tab, w.arg, w.days)
    BY <2>3, ClickFields
  <2>5. waiting'[b] = w
    BY <1>0, <2>1 DEF WaitingInv
  <2> HIDE DEF w
  <2>6. Request(b)'
    BY <1>a, <2>2, <2>4, <2>5 DEF Request
  <2> QED
    BY <1>0, <2>1, <2>6, WaitingStep
<1>4. CASE TriggerManualBackup
  <2>1. waiting["backup"] # Absent /\ waiting' = [waiting EXCEPT !["backup"].arg = {}]
    BY <1>4 DEF TriggerManualBackup
  <2>2. {} \in SUBSET Tables
    OBVIOUS
  <2> QED
    BY <1>a, <2>1, <2>2
<1>5. ASSUME NEW c \in Buttons, Answered(c) PROVE WaitingInv'
  BY <1>0, <1>5, WaitingStep DEF Answered
<1>6. CASE CleanupOldBackups("cleanup")
  <2>1. waiting["cleanup"] # Absent /\ waiting' = [waiting EXCEPT !["cleanup"].arg = "begun"]
    BY <1>6 DEF CleanupOldBackups
  <2> QED
    BY <1>a, <2>1
<1> QED
  BY <1>1, <1>2, <1>3, <1>4, <1>5, <1>6, WaitingFrame

-----------------------------------------------------------------------------
(* Theorems                                                                *)

LEMMA StoreInit == Init => StoreInv
<1> SUFFICES ASSUME Init PROVE StoreInv
  OBVIOUS
<1>1. PolicyInv
  BY DefaultAssumption, SpansAreDays DEF Init, PolicyInv
<1>2. BucketInv
  BY DEF Init, BucketInv, Stored
<1>3. MakingInv
  BY DEF Init, MakingInv
<1>4. CleanerInv
  BY NoCleanupDoomed DEF Init, CleanerInv
<1>5. CopierInv
  <2>1. NoCopying \in CopyState /\ NoCopying.listed = {}
    BY CopyingType DEF NoCopying
  <2> QED
    BY <2>1 DEF Init, CopierInv, SyncAllReports
<1>6. PageInv
  BY TriggersAssumption DEF Init, PageInv
<1>7. WaitingInv
  BY DEF Init, WaitingInv
<1> QED
  BY <1>1, <1>2, <1>3, <1>4, <1>5, <1>6, <1>7 DEF StoreInv

\* What the bucket, the policies, the jobs of the backend and the page know of
\* one another, through every click, answer, schedule, crash and restart.
THEOREM StoreInvariant == Spec => []StoreInv
<1>1. StoreInv /\ [Next]_vars => StoreInv'
  <2> SUFFICES ASSUME StoreInv, [Next]_vars PROVE StoreInv'
    OBVIOUS
  <2>1. PolicyInv' /\ MakingInv'
    BY PolicyNext, MakingNext DEF StoreInv
  <2>2. BucketInv' /\ CleanerInv' /\ CopierInv' /\ PageInv' /\ WaitingInv'
    BY BucketNext, CleanerNext, CopierNext, PageNext, WaitingNext
  <2> QED
    BY <2>1, <2>2 DEF StoreInv
<1> QED
  BY <1>1, StoreInit, PTL DEF Spec

\* Every variable keeps its type: no step of the backups, the cleanups, the
\* copying or the page leaves a store or a request malformed.
THEOREM TypeCorrect == Spec => []TypeOK
<1>1. StoreInv => TypeOK
  <2> SUFFICES ASSUME StoreInv PROVE TypeOK
    OBVIOUS
  <2>1. policy \in [Triggers -> Days \cup {Absent}] /\ wanted \in [Triggers -> Days]
    BY SpansAreDays DEF StoreInv, PolicyInv
  <2>2. \A c \in DOMAIN cleaner :
          /\ cleaner[c].todo \subseteq Triggers /\ cleaner[c].doomed \subseteq used
          /\ cleaner[c].map \in [Triggers -> Spans] \cup {Absent}
    <3>1. \A s \in CleanupState :
            /\ s.todo \subseteq Triggers /\ s.doomed \subseteq used
            /\ s.map \in [Triggers -> Spans] \cup {Absent}
      BY DEF CleanupState, NoCleanup, Cleanup
    <3>2. cleaner \in [{"cleanup", "weekly"} -> CleanupState]
      BY DEF StoreInv, CleanerInv
    <3> QED
      BY <3>1, <3>2
  <2>3. \A c \in DOMAIN copier :
          copier[c].todo \subseteq used /\ copier[c].held \in used \cup {Absent}
    BY DEF StoreInv, CopierInv, CopyState
  <2> QED
    BY <2>1, <2>2, <2>3 DEF StoreInv, PolicyInv, BucketInv, MakingInv, PageInv, TypeOK
<1> QED
  BY <1>1, StoreInvariant, PTL

\* A restart never puts a default in the place of a policy that an administrator
\* has saved, also when the seeding is cut short and begins again.
THEOREM SavedPoliciesAreKept == Spec => []PolicyIsKept
<1>1. StoreInv => PolicyIsKept
  BY DEF StoreInv, PolicyInv, PolicyIsKept
<1> QED
  BY <1>1, StoreInvariant, PTL

\* What a cleanup is about to delete is expired by the policy of the moment, if
\* that is still the one with which the cleanup began.
THEOREM CleanupsDeleteTheExpired == Spec => []OnlyExpiredAreDoomed
<1>1. StoreInv => OnlyExpiredAreDoomed
  <2> SUFFICES ASSUME StoreInv, NEW c \in DOMAIN cleaner, NEW k \in cleaner[c].doomed \cap Stored,
                      cleaner[c].map[objects[k].trigger] = policy[objects[k].trigger]
               PROVE  Expires(objects[k], policy[objects[k].trigger]) \in 0 .. now
    BY DEF OnlyExpiredAreDoomed
  <2> DEFINE o == objects[k]
             days == policy[o.trigger]
  <2>1. o \in Object /\ o.at \in Nat /\ o.trigger \in Triggers /\ now \in Nat
    BY DEF StoreInv, BucketInv, Stored, Object
  <2>2. c \in {"cleanup", "weekly"} /\ cleaner[c] \in CleanupState /\ Doomed(cleaner[c])
    BY CleanerParts DEF StoreInv, CleanerInv
  <2>3. days # Forever /\ o.at + days <= now
    BY <2>2 DEF Doomed
  <2>4. cleaner[c].map \in [Triggers -> Spans]
    BY <2>2 DEF CleanupState, NoCleanup, Cleanup
  <2>5. days \in Spans
    BY <2>1, <2>4
  <2> HIDE DEF days, o
  <2>6. days \in Nat \ {0}
    BY <2>3, <2>5 DEF Spans
  <2>7. o.at + days \in 0 .. now
    BY <2>1, <2>3, <2>6
  <2>8. Expires(o, days) = o.at + days
    BY <2>3 DEF Expires
  <2> QED
    BY <2>7, <2>8 DEF days, o
<1> QED
  BY <1>1, StoreInvariant, PTL

\* No cleanup takes a backup of its own day: the one that the weekly round has
\* just made is still there when the round is through.
THEOREM FreshBackupsSurvive == Spec => []FreshIsKept
<1>1. StoreInv => FreshIsKept
  <2> SUFFICES ASSUME StoreInv, NEW c \in DOMAIN cleaner, NEW k \in cleaner[c].doomed \cap Stored
               PROVE  objects[k].at < now
    BY DEF FreshIsKept
  <2> DEFINE o == objects[k]
             days == cleaner[c].map[o.trigger]
  <2>1. o \in Object /\ o.at \in Nat /\ o.trigger \in Triggers /\ now \in Nat
    BY DEF StoreInv, BucketInv, Stored, Object
  <2>2. c \in {"cleanup", "weekly"} /\ cleaner[c] \in CleanupState /\ Doomed(cleaner[c])
    BY CleanerParts DEF StoreInv, CleanerInv
  <2>3. days # Forever /\ o.at + days <= now
    BY <2>2 DEF Doomed
  <2>4. cleaner[c].map \in [Triggers -> Spans]
    BY <2>2 DEF CleanupState, NoCleanup, Cleanup
  <2>5. days \in Spans
    BY <2>1, <2>4
  <2> HIDE DEF days, o
  <2>6. days \in Nat \ {0}
    BY <2>3, <2>5 DEF Spans
  <2>7. o.at < now
    BY <2>1, <2>3, <2>6
  <2> QED
    BY <2>7 DEF o
<1> QED
  BY <1>1, StoreInvariant, PTL

\* Every object that a copying to S3 has listed ends there or among the failed,
\* whatever cleanups and administrators delete meanwhile.
THEOREM CopiesAreAccountedFor == Spec => []SyncAllReports
<1>1. StoreInv => SyncAllReports
  BY DEF StoreInv, CopierInv
<1> QED
  BY <1>1, StoreInvariant, PTL
=============================================================================
