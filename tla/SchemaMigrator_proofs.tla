----------------------- MODULE SchemaMigrator_proofs -----------------------
(***************************************************************************)
(* Proofs about the Schema Registry, the live migrations and the SQL views *)
(* that these drop and create again.  Of the registry: typing.  Of the     *)
(* migrations: typing, that the repository holds no migration that the     *)
(* database does not record, and that a resolution which nothing disturbs  *)
(* leaves table, model and registry in agreement.  Of the views: typing,   *)
(* that a view and its definition agree, and that a sample is of the query *)
(* beside it.                                                              *)
(***************************************************************************)
EXTENDS SchemaMigrator, Views, FiniteSetTheorems, TLAPS

-----------------------------------------------------------------------------
(* The registry                                                            *)

LEMMA FlatType == \A fields \in SUBSET Fields : Flat(fields) \in Structures
BY DEF Flat, Structures

LEMMA NothingType == Nothing \in Structures
BY FlatType DEF Nothing

LEMMA HashType == NoHash \in Hashes /\ \A s \in Structures : Hash(s) \in Hashes
BY DEF Hashes

LEMMA AbsentType == Absent \in Documents
BY NothingType, HashType DEF Absent, Documents

LEMMA IdleType == Idle \in CallState
BY NothingType, HashType DEF Idle, CallState

\* A structure keeps its type with more fields, or nested.
LEMMA StructureType ==
  ASSUME NEW s \in Structures
  PROVE  /\ [s EXCEPT !.nested = TRUE] \in Structures
         /\ \A fields \in SUBSET Fields :
              [s EXCEPT !.fields = @ \cup fields] \in Structures
BY DEF Structures

\* Every update of a document yields a document.
LEMMA DocumentType ==
  ASSUME NEW d \in Documents, NEW s \in Structures, NEW o \in Structures, NEW h \in Hashes,
         NEW status \in {"absent", "new", "stable", "changed"}
  PROVE  /\ [d EXCEPT !.status = status] \in Documents
         /\ [d EXCEPT !.details = s, !.old = o] \in Documents
         /\ [d EXCEPT !.status = status, !.details = s, !.hash = h] \in Documents
         /\ [status |-> status, details |-> s, old |-> o, hash |-> h] \in Documents
BY DEF Documents

\* Every update of a call's locals yields locals.
LEMMA CallType ==
  ASSUME NEW s \in CallState, NEW t \in Tables, NEW x \in Structures, NEW y \in Structures,
         NEW h \in Hashes,
         NEW pc \in {"idle", "sync", "read", "create", "change", "reject", "update"}
  PROVE  /\ [s EXCEPT !.pc = pc] \in CallState
         /\ [s EXCEPT !.pc = pc, !.table = {t}, !.seen = x] \in CallState
         /\ [s EXCEPT !.pc = pc, !.seen = x, !.report = y] \in CallState
         /\ [s EXCEPT !.pc = pc, !.table = {t}, !.report = y, !.hash = h] \in CallState
         /\ [s EXCEPT !.pc = pc, !.seen = x, !.hash = h] \in CallState
         /\ [s EXCEPT !.pc = pc, !.table = {t}, !.seen = x, !.report = y] \in CallState
BY DEF CallState

LEMMA SetType ==
  ASSUME RegistryTypeOK, NEW c \in Calls, NEW s \in CallState, Set(c, s)
  PROVE  call' \in [Calls -> CallState]
BY DEF RegistryTypeOK, Set

LEMMA PutType ==
  ASSUME RegistryTypeOK, NEW t \in Tables, NEW d \in Documents, Put(t, d)
  PROVE  doc' \in [Tables -> Documents]
BY DEF RegistryTypeOK, Put

LEMMA TypeParts ==
  ASSUME source' \in [Tables -> SUBSET Fields], call' \in [Calls -> CallState],
         doc' \in [Tables -> Documents]
  PROVE  RegistryTypeOK'
BY DEF RegistryTypeOK

LEMMA MarkStableType ==
  ASSUME RegistryTypeOK, NEW t \in Tables, MarkStable(t)
  PROVE  doc' \in [Tables -> Documents]
<1>1. CASE doc[t].status = "absent"
  BY <1>1 DEF MarkStable, RegistryTypeOK
<1>2. CASE doc[t].status # "absent"
  <2>1. doc[t] \in Documents
    BY DEF RegistryTypeOK
  <2>2. [doc[t] EXCEPT !.status = "stable"] \in Documents
    BY <2>1, DocumentType, NothingType, HashType
  <2> QED
    BY <1>2, <2>2, PutType DEF MarkStable
<1> QED
  BY <1>1, <1>2

-----------------------------------------------------------------------------
\* The steps of the calls keep the types.
LEMMA SnapshotType ==
  ASSUME RegistryTypeOK, NEW r \in Runs, NEW t \in Tables, Snapshot(r, t)
  PROVE  RegistryTypeOK'
<1>1. doc[t].details \in Structures /\ r \in Calls
  BY DEF RegistryTypeOK, Documents, Calls
<1>2. [Idle EXCEPT !.pc = "sync", !.table = {t}, !.seen = doc[t].details] \in CallState
  BY <1>1, IdleType, NothingType, HashType, CallType
<1>3. call' \in [Calls -> CallState]
  BY <1>1, <1>2, SetType DEF Snapshot
<1> QED
  BY <1>3, TypeParts DEF Snapshot, RegistryTypeOK

LEMMA DriftType ==
  ASSUME RegistryTypeOK, NEW r \in Runs, Drift(r)
  PROVE  RegistryTypeOK'
<1> DEFINE fields == UnknownFields(call[r])
<1> DEFINE report == [call[r].seen EXCEPT !.fields = @ \cup fields]
<1>1. call[r] \in CallState /\ r \in Calls
  BY DEF RegistryTypeOK, Calls
<1>2. call[r].seen \in Structures /\ call[r].table \subseteq Tables
  BY <1>1 DEF CallState
<1>3. \A t \in call[r].table : source[t] \subseteq Fields
  BY <1>2 DEF RegistryTypeOK
<1>4. fields \in SUBSET Fields
  BY <1>3 DEF UnknownFields
<1>5. PICK t \in Tables : t \in call[r].table
  BY <1>2 DEF Drift, UnknownFields
<1> HIDE DEF fields
<1>6. report \in Structures
  BY <1>2, <1>4, StructureType
<1>7. Drift(r) => Set(r, [call[r] EXCEPT !.pc = "read", !.seen = Nothing, !.report = report])
  BY DEF Drift, fields
<1> HIDE DEF report
<1>8. [call[r] EXCEPT !.pc = "read", !.seen = Nothing, !.report = report] \in CallState
  BY <1>1, <1>5, <1>6, NothingType, HashType, CallType
<1>9. call' \in [Calls -> CallState]
  BY <1>1, <1>7, <1>8, SetType
<1> QED
  BY <1>9, TypeParts DEF Drift, RegistryTypeOK

LEMMA RunDetectorType ==
  ASSUME RegistryTypeOK, NEW q \in Requests, NEW t \in Tables, RunDetector(q, t)
  PROVE  RegistryTypeOK'
<1>1. Flat(source[t]) \in Structures /\ q \in Calls
  BY FlatType DEF RegistryTypeOK, Calls
<1>2. PICK h \in {Hash(Flat(source[t]))} \cup {NoHash : e \in {"unhashed"} \cap Events} :
        Set(q, [Idle EXCEPT !.pc = "read", !.table = {t},
                            !.report = Flat(source[t]), !.hash = h])
  BY DEF RunDetector
<1>3. h \in Hashes
  BY <1>1, <1>2, HashType
<1>4. [Idle EXCEPT !.pc = "read", !.table = {t},
                   !.report = Flat(source[t]), !.hash = h] \in CallState
  BY <1>1, <1>3, IdleType, CallType
<1>5. call' \in [Calls -> CallState]
  BY <1>1, <1>2, <1>4, SetType
<1> QED
  BY <1>5, TypeParts DEF RunDetector, RegistryTypeOK

LEMMA ReadExistingType ==
  ASSUME RegistryTypeOK, NEW c \in Calls, ReadExisting(c)
  PROVE  RegistryTypeOK'
<1>1. call[c] \in CallState
  BY DEF RegistryTypeOK
<1>2. call[c].table \subseteq Tables
  BY <1>1 DEF CallState
<1>3. PICK t \in Tables :
        Set(c, IF doc[t].status = "absent" THEN [call[c] EXCEPT !.pc = "create"]
               ELSE IF doc[t].hash = call[c].hash THEN Idle
               ELSE [call[c] EXCEPT !.pc = "change", !.seen = doc[t].details, !.hash = NoHash])
  BY <1>2 DEF ReadExisting
<1>4. doc[t].details \in Structures
  BY DEF RegistryTypeOK, Documents
<1>5. /\ [call[c] EXCEPT !.pc = "create"] \in CallState
      /\ [call[c] EXCEPT !.pc = "change", !.seen = doc[t].details, !.hash = NoHash]
           \in CallState
  BY <1>1, <1>4, HashType, NothingType, CallType
<1>6. call' \in [Calls -> CallState]
  <2>1. CASE doc[t].status = "absent"
    BY <2>1, <1>3, <1>5, SetType
  <2>2. CASE doc[t].status # "absent" /\ doc[t].hash = call[c].hash
    BY <2>2, <1>3, IdleType, SetType
  <2>3. CASE doc[t].status # "absent" /\ doc[t].hash # call[c].hash
    BY <2>3, <1>3, <1>5, SetType
  <2> QED
    BY <2>1, <2>2, <2>3
<1> QED
  BY <1>6, TypeParts DEF ReadExisting, RegistryTypeOK

\* A call that ends, and has written its document.
LEMMA WriteType ==
  ASSUME RegistryTypeOK, NEW c \in Calls, NEW t \in Tables, NEW d \in Documents,
         Put(t, d), Set(c, Idle), UNCHANGED source
  PROVE  RegistryTypeOK'
<1>1. call' \in [Calls -> CallState]
  BY IdleType, SetType
<1> QED
  BY <1>1, PutType, TypeParts DEF RegistryTypeOK

LEMMA CreateType ==
  ASSUME RegistryTypeOK, NEW c \in Calls, Create(c)
  PROVE  RegistryTypeOK'
<1>1. call[c].report \in Structures /\ call[c].hash \in Hashes /\ call[c].table \subseteq Tables
  BY DEF RegistryTypeOK, CallState
<1> DEFINE d == [status |-> "new", details |-> call[c].report, old |-> Nothing,
                 hash |-> call[c].hash]
<1>2. PICK t \in Tables :
        IF doc[t].status = "absent" THEN Put(t, d) ELSE UNCHANGED doc
  BY <1>1 DEF Create
<1>3. d \in Documents
  BY <1>1, NothingType DEF Documents
<1> HIDE DEF d
<1>4. CASE doc[t].status = "absent"
  BY <1>2, <1>3, <1>4, WriteType DEF Create
<1>5. CASE doc[t].status # "absent"
  <2>1. call' \in [Calls -> CallState]
    BY IdleType, SetType DEF Create
  <2> QED
    BY <1>2, <1>5, <2>1, TypeParts DEF Create, RegistryTypeOK
<1> QED
  BY <1>4, <1>5

LEMMA ChangedType == \A s \in CallState : Changed(s) \in Documents
<1> SUFFICES ASSUME NEW s \in CallState PROVE Changed(s) \in Documents
  OBVIOUS
<1>1. s.report \in Structures /\ s.seen \in Structures
  BY DEF CallState
<1> QED
  BY <1>1, HashType DEF Changed, Documents

LEMMA ChangeType ==
  ASSUME RegistryTypeOK, NEW c \in Calls, Change(c)
  PROVE  RegistryTypeOK'
<1>1. call[c] \in CallState
  BY DEF RegistryTypeOK
<1>2. PICK t \in Tables :
        Put(t, Changed(call[c]))
  BY <1>1 DEF Change, CallState
<1> QED
  BY <1>1, <1>2, ChangedType, WriteType DEF Change

LEMMA RejectReadType ==
  ASSUME RegistryTypeOK, NEW q \in Requests, NEW t \in Tables, RejectRead(q, t)
  PROVE  RegistryTypeOK'
<1>1. doc[t].old \in Structures /\ q \in Calls
  BY DEF RegistryTypeOK, Documents, Calls
<1>2. [Idle EXCEPT !.pc = "reject", !.table = {t}, !.seen = doc[t].old] \in CallState
  BY <1>1, IdleType, NothingType, HashType, CallType
<1>3. call' \in [Calls -> CallState]
  BY <1>1, <1>2, SetType DEF RejectRead
<1> QED
  BY <1>3, TypeParts DEF RejectRead, RegistryTypeOK

Restored(previous) ==
  [status |-> "stable", details |-> previous, old |-> Nothing, hash |-> Hash(previous)]

LEMMA RejectType ==
  ASSUME RegistryTypeOK, NEW q \in Calls, Reject(q)
  PROVE  RegistryTypeOK'
<1>1. call[q].seen \in Structures /\ call[q].table \subseteq Tables
  BY DEF RegistryTypeOK, CallState
<1>2. PICK t \in Tables : Put(t, Restored(call[q].seen))
  BY <1>1 DEF Reject, Restored
<1>3. Restored(call[q].seen) \in Documents
  BY <1>1, HashType, NothingType DEF Restored, Documents
<1> QED
  BY <1>2, <1>3, WriteType DEF Reject

LEMMA UpdateReadType ==
  ASSUME RegistryTypeOK, NEW q \in Requests, NEW t \in Tables, UpdateRead(q, t)
  PROVE  RegistryTypeOK'
<1>1. doc[t].old \in Structures /\ q \in Calls
  BY DEF RegistryTypeOK, Documents, Calls
<1>2. PICK fields \in SUBSET Fields :
        Set(q, [Idle EXCEPT !.pc = "update", !.table = {t}, !.seen = doc[t].old,
                            !.report = Flat(fields)])
  BY DEF UpdateRead
<1>3. [Idle EXCEPT !.pc = "update", !.table = {t}, !.seen = doc[t].old,
                   !.report = Flat(fields)] \in CallState
  BY <1>1, FlatType, IdleType, HashType, CallType
<1>4. call' \in [Calls -> CallState]
  BY <1>1, <1>2, <1>3, SetType
<1> QED
  BY <1>4, TypeParts DEF UpdateRead, RegistryTypeOK

LEMMA UpdateDetailsType ==
  ASSUME RegistryTypeOK, NEW q \in Calls, UpdateDetails(q)
  PROVE  RegistryTypeOK'
<1> DEFINE new == call[q].report
<1> DEFINE kept == [call[q].seen EXCEPT !.nested = TRUE]
<1>1. call[q].seen \in Structures /\ new \in Structures /\ call[q].table \subseteq Tables
  BY DEF RegistryTypeOK, CallState
<1>2. kept \in Structures
  BY <1>1, StructureType
<1>3. PICK t \in Tables : Put(t, [doc[t] EXCEPT !.details = new, !.old = kept])
  BY <1>1 DEF UpdateDetails
<1> HIDE DEF new, kept
<1>4. doc[t] \in Documents
  BY DEF RegistryTypeOK
<1>5. [doc[t] EXCEPT !.details = new, !.old = kept] \in Documents
  BY <1>1, <1>2, <1>4, HashType, DocumentType
<1> QED
  BY <1>3, <1>5, WriteType DEF UpdateDetails

LEMMA UpdateStatusType ==
  ASSUME RegistryTypeOK, NEW t \in Tables, UpdateStatus(t)
  PROVE  RegistryTypeOK'
<1>1. PICK status \in Statuses :
        Put(t, [doc[t] EXCEPT !.status = status])
  BY DEF UpdateStatus
<1>2. doc[t] \in Documents
  BY DEF RegistryTypeOK
<1>3. [doc[t] EXCEPT !.status = status] \in Documents
  BY <1>1, <1>2, StatusesAssumption, NothingType, HashType, DocumentType
<1> QED
  BY <1>1, <1>3, PutType, TypeParts DEF UpdateStatus, RegistryTypeOK

LEMMA ImportType ==
  ASSUME RegistryTypeOK, NEW t \in Tables, Import(t)
  PROVE  RegistryTypeOK'
<1> DEFINE imported == Flat(source[t])
<1> DEFINE status == IF doc[t].status = "absent" THEN "stable" ELSE doc[t].status
<1> DEFINE d == [doc[t] EXCEPT !.status = status, !.details = imported,
                               !.hash = Hash(imported)]
<1>1. doc[t] \in Documents /\ source[t] \in SUBSET Fields
  BY DEF RegistryTypeOK
<1>2. imported \in Structures
  BY <1>1, FlatType
<1>3. status \in {"absent", "new", "stable", "changed"}
  BY <1>1 DEF Documents
<1>4. Put(t, d)
  BY <1>1 DEF Import, Documents
<1> HIDE DEF imported, status
<1>5. d \in Documents
  BY <1>1, <1>2, <1>3, HashType, DocumentType
<1> QED
  BY <1>4, <1>5, PutType, TypeParts DEF Import, RegistryTypeOK

LEMMA RegistryTypeStep == ASSUME RegistryTypeOK, RegistryStep PROVE RegistryTypeOK'
<1>1. Runs \subseteq Calls /\ Requests \subseteq Calls
  BY DEF Calls
<1>2. ASSUME NEW r \in Runs, RunStep(r) PROVE RegistryTypeOK'
  <2>1. CASE NoDrift(r)
    <3>1. call' \in [Calls -> CallState]
      BY <1>1, <2>1, IdleType, SetType DEF NoDrift
    <3> QED
      BY <2>1, <3>1, TypeParts DEF NoDrift, RegistryTypeOK
  <2> QED
    BY <1>1, <1>2, <2>1, DriftType, ReadExistingType, CreateType, ChangeType DEF RunStep
<1>3. ASSUME NEW q \in Requests, RequestStep(q) PROVE RegistryTypeOK'
  BY <1>1, <1>3, ReadExistingType, CreateType, ChangeType, RejectType, UpdateDetailsType,
     RunDetectorType, RejectReadType, UpdateReadType DEF RequestStep
<1>4. ASSUME NEW c \in Calls, CallFails(c) PROVE RegistryTypeOK'
  <2>1. call' \in [Calls -> CallState]
    BY <1>4, IdleType, SetType DEF CallFails
  <2> QED
    BY <1>4, <2>1, TypeParts DEF CallFails, RegistryTypeOK
<1>5. ASSUME NEW t \in Tables, SourceChanges(t) PROVE RegistryTypeOK'
  <2>1. source' \in [Tables -> SUBSET Fields]
    BY <1>5 DEF SourceChanges, RegistryTypeOK
  <2> QED
    BY <1>5, <2>1, TypeParts DEF SourceChanges, RegistryTypeOK
<1> QED
  BY <1>2, <1>3, <1>4, <1>5, SnapshotType, UpdateStatusType, ImportType DEF RegistryStep

LEMMA RegistryTypeInit == ASSUME RegistryInit PROVE RegistryTypeOK
<1>1. source \in [Tables -> SUBSET Fields]
  BY DEF RegistryInit
<1>2. \A fields \in SUBSET Fields :
        [status |-> "stable", details |-> Flat(fields), old |-> Nothing,
         hash |-> Hash(Flat(fields))] \in Documents
  BY FlatType, NothingType, HashType DEF Documents
<1>3. doc \in [Tables -> Documents]
  BY <1>2, AbsentType DEF RegistryInit
<1>4. call \in [Calls -> CallState]
  BY IdleType DEF RegistryInit
<1> QED
  BY <1>1, <1>3, <1>4 DEF RegistryTypeOK

LEMMA RegistryTypeNext ==
  ASSUME RegistryTypeOK, [RegistryNext]_registryVars PROVE RegistryTypeOK'
<1>1. CASE RegistryStep
  BY <1>1, RegistryTypeStep
<1>2. ASSUME NEW t \in Tables, MarkAsStable(t) PROVE RegistryTypeOK'
  BY <1>2, MarkStableType, TypeParts DEF MarkAsStable, RegistryTypeOK
<1>3. CASE UNCHANGED registryVars
  BY <1>3 DEF registryVars, RegistryTypeOK
<1> QED
  BY <1>1, <1>2, <1>3 DEF RegistryNext

\* Documents and calls keep their types, whatever the source reports and whoever
\* edits the registry.
THEOREM RegistryTypeCorrect == RegistrySpec => []RegistryTypeOK
<1>1. RegistryInit => RegistryTypeOK
  BY RegistryTypeInit
<1>2. RegistryTypeOK /\ [RegistryNext]_registryVars => RegistryTypeOK'
  BY RegistryTypeNext
<1> QED
  BY <1>1, <1>2, PTL DEF RegistrySpec

-----------------------------------------------------------------------------
(* The migrations                                                          *)

MigrationPhases == {"new", "review", "sql", "generate", "write", "commit", "over"}

LEMMA NoMigrationType == NoMigration \in MigrationState /\ Over \in MigrationState
<1>1. None \in Models
  BY DEF None, Models
<1>2. NoMigration \in MigrationState
  BY <1>1 DEF NoMigration, MigrationState
<1> QED
  BY <1>2 DEF Over, MigrationState

\* Every update of a migration's locals yields locals.
LEMMA MigrationType ==
  ASSUME NEW s \in MigrationState, NEW pc \in MigrationPhases, NEW t \in Tables,
         NEW m \in Models, NEW n \in Models, NEW sound \in BOOLEAN
  PROVE  /\ [s EXCEPT !.alone = FALSE] \in MigrationState
         /\ [s EXCEPT !.pc = pc] \in MigrationState
         /\ [s EXCEPT !.to = m] \in MigrationState
         /\ [s EXCEPT !.pc = pc, !.text = m] \in MigrationState
         /\ [s EXCEPT !.pc = pc, !.table = {t}, !.from = m, !.to = n,
                      !.alone = TRUE, !.sound = sound] \in MigrationState
BY DEF MigrationState, MigrationPhases

LEMMA LocalType ==
  ASSUME TypeOK, NEW a \in Resolutions, NEW s \in MigrationState, Local(a, s)
  PROVE  migration' \in [Resolutions -> MigrationState]
BY DEF TypeOK, Local

LEMMA StepType ==
  ASSUME TypeOK, NEW a \in Resolutions, NEW s \in MigrationState, Step(a, s)
  PROVE  migration' \in [Resolutions -> MigrationState]
<1>1. \A b \in Resolutions : [migration[b] EXCEPT !.alone = FALSE] \in MigrationState
  <2> SUFFICES ASSUME NEW b \in Resolutions
               PROVE  [migration[b] EXCEPT !.alone = FALSE] \in MigrationState
    OBVIOUS
  <2>1. migration[b] \in MigrationState
    BY DEF TypeOK
  <2> QED
    BY <2>1 DEF MigrationState
<1> QED
  BY <1>1 DEF Step

LEMMA ModelsType ==
  ASSUME RegistryTypeOK
  PROVE  /\ StableModels \in Models
         /\ \A t \in Tables : Predicted(t) \in Models
<1>1. \A t \in Tables : doc[t].details.fields \in SUBSET Fields
  BY DEF RegistryTypeOK, Documents, Structures
<1>2. StableModels \in Models
  BY <1>1 DEF StableModels, Models
<1> QED
  BY <1>1, <1>2 DEF Predicted, Models

LEMMA StoreParts ==
  ASSUME RegistryTypeOK', db' \in Models, file' \in Models, history' \subseteq Resolutions,
         repo' \in [schema : Models, migrations : SUBSET Resolutions],
         migration' \in [Resolutions -> MigrationState]
  PROVE  TypeOK'
BY DEF TypeOK

\* A local step leaves everything else as it is.
LEMMA LocalKeepsType ==
  ASSUME TypeOK, NEW a \in Resolutions, NEW s \in MigrationState, Local(a, s),
         UNCHANGED <<registryVars, storeVars>>
  PROVE  TypeOK'
<1>1. migration' \in [Resolutions -> MigrationState]
  BY LocalType
<1>2. RegistryTypeOK'
  BY DEF TypeOK, RegistryTypeOK, registryVars
<1> QED
  BY <1>1, <1>2, StoreParts DEF TypeOK, storeVars

LEMMA PreviewType ==
  ASSUME TypeOK, NEW a \in Resolutions, NEW t \in Tables, Preview(a, t) PROVE TypeOK'
<1> DEFINE to == Predicted(t)
<1> DEFINE sound == Sound(t)
<1> DEFINE s == [NoMigration EXCEPT !.pc = "review", !.table = {t}, !.from = file,
                               !.to = to, !.alone = TRUE, !.sound = sound]
<1>1. to \in Models /\ file \in Models /\ sound \in BOOLEAN
  BY ModelsType DEF TypeOK, Sound
<1>2. Local(a, s) /\ UNCHANGED <<registryVars, storeVars>>
  BY DEF Preview
<1> HIDE DEF to, sound
<1>3. s \in MigrationState
  BY <1>1, NoMigrationType, MigrationType DEF MigrationPhases
<1> HIDE DEF s
<1> QED
  BY <1>2, <1>3, LocalKeepsType

LEMMA EditSqlType ==
  ASSUME TypeOK, NEW a \in Resolutions, EditSql(a) PROVE TypeOK'
<1> DEFINE to == [u \in Tables |-> IF u \in migration[a].table THEN migration[a].to[u]
                                                              ELSE migration[a].from[u]]
<1>1. migration[a] \in MigrationState
  BY DEF TypeOK
<1>2. to \in Models
  BY <1>1 DEF MigrationState, Models
<1>3. Local(a, [migration[a] EXCEPT !.to = to]) /\ UNCHANGED <<registryVars, storeVars>>
  BY <1>1 DEF EditSql, MigrationState
<1> HIDE DEF to
<1>4. [migration[a] EXCEPT !.to = to] \in MigrationState
  BY <1>1, <1>2 DEF MigrationState
<1> QED
  BY <1>3, <1>4, LocalKeepsType

LEMMA ResolveType ==
  ASSUME TypeOK, NEW a \in Resolutions, Resolve(a) PROVE TypeOK'
<1>1. migration[a] \in MigrationState /\ RegistryTypeOK
  BY DEF TypeOK
<1>2. [migration[a] EXCEPT !.pc = "sql"] \in MigrationState
  BY <1>1 DEF MigrationState
<1>3. PICK t \in Tables : MarkStable(t)
  BY <1>1 DEF Resolve, MigrationState
<1>4. RegistryTypeOK'
  BY <1>1, <1>3, MarkStableType, TypeParts DEF Resolve, RegistryTypeOK
<1>5. migration' \in [Resolutions -> MigrationState]
  BY <1>2, StepType DEF Resolve
<1> QED
  BY <1>4, <1>5, StoreParts DEF Resolve, storeVars, TypeOK

LEMMA RunSqlType ==
  ASSUME TypeOK, NEW a \in Resolutions, RunSql(a) PROVE TypeOK'
<1>1. migration[a] \in MigrationState
  BY DEF TypeOK
<1>2. [migration[a] EXCEPT !.pc = "generate"] \in MigrationState
  BY <1>1 DEF MigrationState
<1>3. \A u \in Tables : Applied(db[u], migration[a].from[u], migration[a].to[u]) \in SUBSET Fields
  BY <1>1 DEF Applied, TypeOK, MigrationState, Models
<1>4. db' \in Models
  BY <1>3 DEF RunSql, Models
<1>5. migration' \in [Resolutions -> MigrationState]
  BY <1>2, StepType DEF RunSql
<1>6. RegistryTypeOK'
  BY DEF RunSql, TypeOK, RegistryTypeOK, registryVars
<1> QED
  BY <1>4, <1>5, <1>6, StoreParts DEF RunSql, TypeOK

LEMMA GenerateType ==
  ASSUME TypeOK, NEW a \in Resolutions, Generate(a) PROVE TypeOK'
<1> DEFINE text == StableModels
<1>1. migration[a] \in MigrationState /\ text \in Models
  BY ModelsType DEF TypeOK
<1>2. Local(a, [migration[a] EXCEPT !.pc = "write", !.text = text])
        /\ UNCHANGED <<registryVars, storeVars>>
  BY DEF Generate
<1> HIDE DEF text
<1>3. [migration[a] EXCEPT !.pc = "write", !.text = text] \in MigrationState
  BY <1>1 DEF MigrationState
<1> QED
  BY <1>2, <1>3, LocalKeepsType

LEMMA WriteFileType ==
  ASSUME TypeOK, NEW a \in Resolutions, WriteFile(a) PROVE TypeOK'
<1>1. migration[a] \in MigrationState
  BY DEF TypeOK
<1>2. [migration[a] EXCEPT !.pc = "commit"] \in MigrationState /\ file' \in Models
  BY <1>1 DEF MigrationState, WriteFile
<1>3. migration' \in [Resolutions -> MigrationState]
  BY <1>2, StepType DEF WriteFile
<1>4. RegistryTypeOK'
  BY DEF WriteFile, TypeOK, RegistryTypeOK, registryVars
<1> QED
  BY <1>2, <1>3, <1>4, StoreParts DEF WriteFile, TypeOK

LEMMA CommitType ==
  ASSUME TypeOK, NEW a \in Resolutions, Commit(a) PROVE TypeOK'
<1>1. migration[a].text \in Models
  BY DEF TypeOK, MigrationState
<1>2. repo' \in [schema : Models, migrations : SUBSET Resolutions]
  BY <1>1 DEF Commit, TypeOK
<1>3. migration' \in [Resolutions -> MigrationState]
  BY NoMigrationType, StepType DEF Commit
<1>4. RegistryTypeOK'
  BY DEF Commit, TypeOK, RegistryTypeOK, registryVars
<1> QED
  BY <1>2, <1>3, <1>4, StoreParts DEF Commit, TypeOK

LEMMA DeployType == ASSUME TypeOK, Deploy PROVE TypeOK'
<1>1. file' \in Models
  BY DEF Deploy, TypeOK
<1>2. migration' \in [Resolutions -> MigrationState]
  BY NoMigrationType DEF Deploy
<1>3. RegistryTypeOK'
  BY IdleType DEF Deploy, TypeOK, RegistryTypeOK
<1> QED
  BY <1>1, <1>2, <1>3, StoreParts DEF Deploy, TypeOK

LEMMA RegistryMovesType == ASSUME TypeOK, RegistryMoves PROVE TypeOK'
<1>1. RegistryTypeOK'
  BY RegistryTypeStep DEF RegistryMoves, TypeOK
<1>2. ASSUME NEW b \in Resolutions
      PROVE  [migration[b] EXCEPT !.alone = @ /\ doc' = doc] \in MigrationState
  <2>1. migration[b] \in MigrationState
    BY DEF TypeOK
  <2>2. (migration[b].alone /\ doc' = doc) \in BOOLEAN
    OBVIOUS
  <2> QED
    BY <2>1, <2>2 DEF MigrationState
<1>3. migration' \in [Resolutions -> MigrationState]
  BY <1>2 DEF RegistryMoves
<1> QED
  BY <1>1, <1>3, StoreParts DEF RegistryMoves, storeVars, TypeOK

LEMMA MigrationStepType ==
  ASSUME TypeOK, NEW a \in Resolutions, MigrationStep(a) PROVE TypeOK'
<1>1. CASE SqlFails(a)
  BY <1>1, NoMigrationType, LocalKeepsType DEF SqlFails
<1>2. CASE MigrationFails(a)
  BY <1>2, NoMigrationType, LocalKeepsType DEF MigrationFails
<1> QED
  BY <1>1, <1>2, PreviewType, EditSqlType, ResolveType, RunSqlType, GenerateType,
     WriteFileType, CommitType DEF MigrationStep

LEMMA TypeInit == ASSUME Init PROVE TypeOK
<1>1. RegistryTypeOK
  BY RegistryTypeInit DEF Init
<1>2. file \in Models
  BY <1>1, ModelsType DEF Init
<1> QED
  BY <1>1, <1>2, NoMigrationType DEF Init, TypeOK

LEMMA TypeNext == ASSUME TypeOK, [Next]_vars PROVE TypeOK'
<1>1. CASE UNCHANGED vars
  BY <1>1 DEF vars, registryVars, storeVars, TypeOK, RegistryTypeOK
<1> QED
  BY <1>1, RegistryMovesType, DeployType, MigrationStepType DEF Next

\* The stores and the migrations keep their types, whatever fails.
THEOREM MigratorTypeCorrect == Spec => []TypeOK
<1>1. Init => TypeOK
  BY TypeInit
<1>2. TypeOK /\ [Next]_vars => TypeOK'
  BY TypeNext
<1> QED
  BY <1>1, <1>2, PTL DEF Spec

-----------------------------------------------------------------------------
\* The strengthening of CommittedIsRecorded: what is to be committed is recorded.
RecordedInv ==
  /\ repo.migrations \subseteq history
  /\ \A a \in Resolutions : migration[a].pc \in {"generate", "write", "commit"} => a \in history

\* A step of one resolution that brings it no nearer to the commit than its
\* record, and commits nothing.
LEMMA RecordedLocal ==
  ASSUME RecordedInv, NEW a \in Resolutions, NEW s,
         migration \in [Resolutions -> MigrationState],
         Local(a, s) \/ Step(a, s),
         s.pc \in {"generate", "write", "commit"} => a \in history',
         history \subseteq history', repo'.migrations \subseteq history'
  PROVE  RecordedInv'
<1>1. migration'[a] = s
  BY DEF Local, Step
<1>2. ASSUME NEW b \in Resolutions, b # a PROVE migration'[b].pc = migration[b].pc
  <2>1. migration[b] \in MigrationState
    OBVIOUS
  <2>2. CASE Local(a, s)
    BY <1>2, <2>2 DEF Local
  <2>3. CASE Step(a, s)
    BY <1>2, <2>1, <2>3 DEF Step, MigrationState
  <2> QED
    BY <2>2, <2>3
<1> QED
  BY <1>1, <1>2 DEF RecordedInv

LEMMA OverIsOver == Over.pc = "over" /\ Over.alone = FALSE
BY DEF Over, NoMigration

LEMMA NewIsNew == NoMigration.pc = "new" /\ NoMigration.alone = FALSE
BY DEF NoMigration

LEMMA RecordedStep ==
  ASSUME TypeOK, RecordedInv, NEW a \in Resolutions, MigrationStep(a) PROVE RecordedInv'
<1>1. migration \in [Resolutions -> MigrationState] /\ migration[a] \in MigrationState
  BY DEF TypeOK
<1>2. ASSUME NEW t \in Tables, Preview(a, t) PROVE RecordedInv'
  <2> DEFINE s == [NoMigration EXCEPT !.pc = "review", !.table = {t}, !.from = file,
                     !.to = Predicted(t), !.alone = TRUE, !.sound = Sound(t)]
  <2>1. s.pc = "review" /\ Local(a, s)
    BY <1>2 DEF Preview, NoMigration
  <2> HIDE DEF s
  <2> QED
    BY <1>1, <1>2, <2>1, RecordedLocal DEF Preview, storeVars, RecordedInv
<1>3. CASE EditSql(a)
  <2> DEFINE to == [u \in Tables |-> IF u \in migration[a].table THEN migration[a].to[u]
                                                                ELSE migration[a].from[u]]
  <2> DEFINE s == [migration[a] EXCEPT !.to = to]
  <2>1. s.pc = "review" /\ Local(a, s)
    BY <1>1, <1>3 DEF EditSql, MigrationState
  <2> HIDE DEF s
  <2> QED
    BY <1>1, <1>3, <2>1, RecordedLocal DEF EditSql, storeVars, RecordedInv
<1>4. CASE Resolve(a)
  <2> DEFINE s == [migration[a] EXCEPT !.pc = "sql"]
  <2>1. s.pc = "sql" /\ Step(a, s)
    BY <1>1, <1>4 DEF Resolve, MigrationState
  <2> HIDE DEF s
  <2> QED
    BY <1>1, <1>4, <2>1, RecordedLocal DEF Resolve, storeVars, RecordedInv
<1>5. CASE RunSql(a)
  <2> DEFINE s == [migration[a] EXCEPT !.pc = "generate"]
  <2>1. Step(a, s) /\ history' = history \cup {a} /\ repo' = repo
    BY <1>5 DEF RunSql
  <2> HIDE DEF s
  <2> QED
    BY <1>1, <2>1, RecordedLocal DEF RecordedInv
<1>6. CASE Generate(a)
  <2> DEFINE s == [migration[a] EXCEPT !.pc = "write", !.text = StableModels]
  <2>1. Local(a, s) /\ migration[a].pc = "generate" /\ history' = history /\ repo' = repo
    BY <1>6 DEF Generate, storeVars
  <2> HIDE DEF s
  <2> QED
    BY <1>1, <2>1, RecordedLocal DEF RecordedInv
<1>7. CASE WriteFile(a)
  <2> DEFINE s == [migration[a] EXCEPT !.pc = "commit"]
  <2>1. Step(a, s) /\ migration[a].pc = "write" /\ history' = history /\ repo' = repo
    BY <1>7 DEF WriteFile
  <2> HIDE DEF s
  <2> QED
    BY <1>1, <2>1, RecordedLocal DEF RecordedInv
<1>8. CASE Commit(a)
  <2>1. a \in history
    BY <1>8 DEF Commit, RecordedInv
  <2>2. repo'.migrations \subseteq history
    BY <1>8, <2>1 DEF Commit, RecordedInv
  <2> QED
    BY <1>1, <1>8, <2>2, OverIsOver, RecordedLocal DEF Commit
<1>9. CASE SqlFails(a) \/ MigrationFails(a)
  BY <1>1, <1>9, OverIsOver, RecordedLocal DEF SqlFails, MigrationFails, storeVars, RecordedInv
<1> QED
  BY <1>2, <1>3, <1>4, <1>5, <1>6, <1>7, <1>8, <1>9 DEF MigrationStep

LEMMA RecordedNext == ASSUME TypeOK, RecordedInv, [Next]_vars PROVE RecordedInv'
<1>1. CASE RegistryMoves
  <2>1. \A b \in Resolutions : migration'[b].pc = migration[b].pc
    <3> SUFFICES ASSUME NEW b \in Resolutions PROVE migration'[b].pc = migration[b].pc
      OBVIOUS
    <3>1. migration[b] \in MigrationState
      BY DEF TypeOK
    <3> QED
      BY <1>1, <3>1 DEF RegistryMoves, MigrationState
  <2> QED
    BY <1>1, <2>1 DEF RegistryMoves, storeVars, RecordedInv
<1>2. CASE Deploy
  <2>1. \A b \in Resolutions : migration'[b].pc \in {"new", "over"}
    BY <1>2, OverIsOver, NewIsNew DEF Deploy
  <2> QED
    BY <1>2, <2>1 DEF Deploy, RecordedInv
<1>3. CASE UNCHANGED vars
  BY <1>3 DEF vars, storeVars, RecordedInv
<1> QED
  BY <1>1, <1>2, <1>3, RecordedStep DEF Next

\* No migration reaches the repository that the database does not record, so that
\* a deployment runs none a second time.
THEOREM CommitsAreRecorded == Spec => []CommittedIsRecorded
<1>1. Init => RecordedInv
  BY NewIsNew DEF Init, RecordedInv
<1>2. TypeOK /\ RecordedInv /\ [Next]_vars => RecordedInv'
  BY RecordedNext
<1>3. RecordedInv => CommittedIsRecorded
  BY DEF RecordedInv, CommittedIsRecorded
<1> QED
  BY <1>1, <1>2, <1>3, MigratorTypeCorrect, PTL DEF Spec

-----------------------------------------------------------------------------
\* The strengthening of ResolvedIsMigrated: what the registry, the model and the
\* table of t are to an undisturbed migration with locals s, phase by phase.
OnTheWay(s, t) ==
  /\ s.table = {t}
  /\ ~doc[t].details.nested /\ s.to[t] = doc[t].details.fields
  /\ s.pc = "review" => doc[t].status \in {"new", "changed"}
  /\ s.pc # "review" => doc[t].status = "stable"
  /\ s.pc \in {"review", "sql"} => s.from[t] = file[t] /\ Sound(t)
  /\ s.pc \in {"generate", "write", "commit"} => s.to[t] \subseteq db[t]
  /\ s.pc = "write" => s.text[t] = s.to[t]
  /\ s.pc = "commit" => file[t] = s.to[t]

Undisturbed(s) == s.alone /\ s.sound => \A t \in s.table : OnTheWay(s, t)

ResolvedInv == \A a \in Resolutions : Undisturbed(migration[a])

\* A step of one migration that changes nothing else concerns only that one, and a
\* step that others may notice leaves none of them alone.
LEMMA ResolvedLocal ==
  ASSUME ResolvedInv, migration \in [Resolutions -> MigrationState],
         NEW a \in Resolutions, NEW s, Local(a, s), UNCHANGED <<doc, db, file>>,
         Undisturbed(s)
  PROVE  ResolvedInv'
<1> SUFFICES ASSUME NEW b \in Resolutions PROVE Undisturbed(migration[b])'
  BY DEF ResolvedInv
<1>1. CASE b = a
  <2>1. migration'[b] = s
    BY <1>1 DEF Local
  <2>2. Undisturbed(s)'
    BY DEF Undisturbed, OnTheWay, Sound
  <2> QED
    BY <2>1, <2>2 DEF Undisturbed, OnTheWay, Sound
<1>2. CASE b # a
  <2>1. migration'[b] = migration[b]
    BY <1>2 DEF Local
  <2>2. Undisturbed(migration[b])
    BY DEF ResolvedInv
  <2> QED
    BY <2>1, <2>2 DEF Undisturbed, OnTheWay, Sound
<1> QED
  BY <1>1, <1>2

LEMMA ResolvedStep ==
  ASSUME migration \in [Resolutions -> MigrationState],
         NEW a \in Resolutions, NEW s, Step(a, s),
         migration'[a] = s => Undisturbed(migration[a])'
  PROVE  ResolvedInv'
<1> SUFFICES ASSUME NEW b \in Resolutions PROVE Undisturbed(migration[b])'
  BY DEF ResolvedInv
<1>1. CASE b = a
  BY <1>1 DEF Step
<1>2. CASE b # a
  <2>1. migration[b] \in MigrationState
    OBVIOUS
  <2>2. migration'[b].alone = FALSE
    BY <1>2, <2>1 DEF Step, MigrationState
  <2> QED
    BY <2>2 DEF Undisturbed
<1> QED
  BY <1>1, <1>2

LEMMA PreviewResolved ==
  ASSUME TypeOK, ResolvedInv, NEW a \in Resolutions, NEW t \in Tables, Preview(a, t)
  PROVE  ResolvedInv'
<1> DEFINE to == Predicted(t)
<1> DEFINE sound == Sound(t)
<1> DEFINE s == [NoMigration EXCEPT !.pc = "review", !.table = {t}, !.from = file,
                   !.to = to, !.alone = TRUE, !.sound = sound]
<1>1. Local(a, s) /\ UNCHANGED <<doc, db, file>>
  BY DEF Preview, registryVars, storeVars
<1>2. s.pc = "review" /\ s.table = {t} /\ s.from = file /\ s.to = to /\ s.sound = sound
  BY DEF NoMigration
<1>3. to[t] = doc[t].details.fields /\ ~doc[t].details.nested
  BY DEF Preview, PreviewFails, Predicted, StableModels
<1>4. doc[t].status \in {"new", "changed"}
  BY DEF Preview
<1>5. sound => Sound(t)
  OBVIOUS
<1> HIDE DEF s, to, sound
<1>6. Undisturbed(s)
  BY <1>2, <1>3, <1>4, <1>5 DEF Undisturbed, OnTheWay
<1> QED
  BY <1>1, <1>6, ResolvedLocal DEF TypeOK

LEMMA EditSqlResolved ==
  ASSUME TypeOK, ResolvedInv, NEW a \in Resolutions, EditSql(a)
  PROVE  ResolvedInv'
<1> DEFINE to == [u \in Tables |-> IF u \in migration[a].table THEN migration[a].to[u]
                                                              ELSE migration[a].from[u]]
<1> DEFINE s == [migration[a] EXCEPT !.to = to]
<1>1. migration[a] \in MigrationState
  BY DEF TypeOK
<1>2. Local(a, s) /\ UNCHANGED <<doc, db, file>> /\ migration[a].pc = "review"
  BY <1>1 DEF EditSql, registryVars, storeVars, MigrationState
<1>3. /\ s.pc = migration[a].pc /\ s.table = migration[a].table
      /\ s.from = migration[a].from /\ s.to = to
      /\ s.alone = migration[a].alone /\ s.sound = migration[a].sound
  BY <1>1 DEF MigrationState
<1>4. \A u \in migration[a].table : to[u] = migration[a].to[u]
  BY <1>1 DEF MigrationState
<1> HIDE DEF s, to
<1>5. Undisturbed(migration[a])
  BY DEF ResolvedInv
<1>6. Undisturbed(s)
  BY <1>2, <1>3, <1>4, <1>5 DEF Undisturbed, OnTheWay
<1> QED
  BY <1>2, <1>6, ResolvedLocal DEF TypeOK

LEMMA ResolveResolved ==
  ASSUME TypeOK, ResolvedInv, NEW a \in Resolutions, Resolve(a)
  PROVE  ResolvedInv'
<1> DEFINE s == [migration[a] EXCEPT !.pc = "sql"]
<1>1. migration[a] \in MigrationState
  BY DEF TypeOK
<1>2. /\ s.pc = "sql" /\ s.table = migration[a].table
      /\ s.from = migration[a].from /\ s.to = migration[a].to
      /\ s.alone = migration[a].alone /\ s.sound = migration[a].sound
  BY <1>1 DEF MigrationState
<1>3. Step(a, s) /\ db' = db /\ file' = file /\ migration[a].pc = "review"
  BY DEF Resolve, storeVars
<1>4. migration'[a] = s
  BY <1>3 DEF Step
<1> HIDE DEF s
<1>5. ASSUME s.alone, s.sound, NEW t \in s.table PROVE OnTheWay(migration[a], t)'
  <2>1. OnTheWay(migration[a], t) /\ t \in Tables
    BY <1>1, <1>2, <1>5 DEF ResolvedInv, Undisturbed, MigrationState
  <2>2. PICK u \in migration[a].table : MarkStable(u)
    BY DEF Resolve
  <2>3. u \in Tables
    BY <1>1, <2>2 DEF MigrationState
  <2>4. OnTheWay(migration[a], u) /\ doc[u] \in Documents
    BY <1>2, <1>5, <2>2, <2>3 DEF ResolvedInv, Undisturbed, TypeOK, RegistryTypeOK
  <2>5. doc' = [doc EXCEPT ![u] = [doc[u] EXCEPT !.status = "stable"]]
    BY <1>3, <2>2, <2>4 DEF MarkStable, Put, OnTheWay
  <2>6. doc'[t].details = doc[t].details /\ (t # u => doc'[t] = doc[t])
          /\ doc'[u].status = "stable"
    BY <2>1, <2>3, <2>4, <2>5 DEF TypeOK, RegistryTypeOK, Documents
  <2>7. t = u
    BY <2>1, <2>2 DEF OnTheWay
  <2> QED
    BY <1>2, <1>3, <1>4, <2>1, <2>6, <2>7 DEF OnTheWay, Sound
<1>6. Undisturbed(migration[a])'
  BY <1>4, <1>5 DEF Undisturbed
<1> QED
  BY <1>3, <1>6, ResolvedStep DEF TypeOK

\* The guards of the SQL: on a table that has the columns of its model, the
\* difference to another model leaves the columns of that one.
LEMMA AppliedHasAll ==
  ASSUME NEW table \in SUBSET Fields, NEW from \in SUBSET Fields, NEW to \in SUBSET Fields,
         from \subseteq table, from = {} => table = {}
  PROVE  to \subseteq Applied(table, from, to)
BY DEF Applied

LEMMA RunSqlResolved ==
  ASSUME TypeOK, ResolvedInv, NEW a \in Resolutions, RunSql(a)
  PROVE  ResolvedInv'
<1> DEFINE s == [migration[a] EXCEPT !.pc = "generate"]
<1>1. migration[a] \in MigrationState
  BY DEF TypeOK
<1>2. /\ s.pc = "generate" /\ s.table = migration[a].table
      /\ s.from = migration[a].from /\ s.to = migration[a].to
      /\ s.alone = migration[a].alone /\ s.sound = migration[a].sound
  BY <1>1 DEF MigrationState
<1>3. Step(a, s) /\ doc' = doc /\ file' = file /\ migration[a].pc = "sql"
  BY DEF RunSql, registryVars
<1>4. migration'[a] = s
  BY <1>3 DEF Step
<1> HIDE DEF s
<1>5. ASSUME s.alone, s.sound, NEW t \in s.table PROVE OnTheWay(migration[a], t)'
  <2>1. OnTheWay(migration[a], t) /\ t \in Tables
    BY <1>1, <1>2, <1>5 DEF ResolvedInv, Undisturbed, MigrationState
  <2>2. db'[t] = Applied(db[t], migration[a].from[t], migration[a].to[t])
    BY <2>1 DEF RunSql
  <2>3. /\ db[t] \in SUBSET Fields /\ migration[a].from[t] \in SUBSET Fields
        /\ migration[a].to[t] \in SUBSET Fields
    BY <1>1, <2>1 DEF TypeOK, Models, MigrationState
  <2>4. migration[a].from[t] \subseteq db[t] /\ (migration[a].from[t] = {} => db[t] = {})
    BY <1>3, <2>1 DEF OnTheWay, Sound
  <2>5. migration[a].to[t] \subseteq db'[t]
    BY <2>2, <2>3, <2>4, AppliedHasAll
  <2> QED
    BY <1>2, <1>3, <1>4, <2>1, <2>5 DEF OnTheWay
<1>6. Undisturbed(migration[a])'
  BY <1>4, <1>5 DEF Undisturbed
<1> QED
  BY <1>3, <1>6, ResolvedStep DEF TypeOK

LEMMA GenerateResolved ==
  ASSUME TypeOK, ResolvedInv, NEW a \in Resolutions, Generate(a)
  PROVE  ResolvedInv'
<1> DEFINE text == StableModels
<1> DEFINE s == [migration[a] EXCEPT !.pc = "write", !.text = text]
<1>1. migration[a] \in MigrationState
  BY DEF TypeOK
<1>2. Local(a, s) /\ UNCHANGED <<doc, db, file>> /\ migration[a].pc = "generate"
  BY DEF Generate, registryVars, storeVars
<1>3. /\ s.pc = "write" /\ s.table = migration[a].table /\ s.text = text
      /\ s.to = migration[a].to
      /\ s.alone = migration[a].alone /\ s.sound = migration[a].sound
  BY <1>1 DEF MigrationState
<1>4. \A t \in Tables : doc[t].status = "stable" /\ ~doc[t].details.nested
                          => text[t] = doc[t].details.fields
  BY DEF StableModels
<1> HIDE DEF s, text
<1>5. Undisturbed(migration[a]) /\ migration[a].table \subseteq Tables
  BY <1>1 DEF ResolvedInv, MigrationState
<1>6. Undisturbed(s)
  BY <1>2, <1>3, <1>4, <1>5 DEF Undisturbed, OnTheWay
<1> QED
  BY <1>2, <1>6, ResolvedLocal DEF TypeOK

LEMMA WriteFileResolved ==
  ASSUME TypeOK, ResolvedInv, NEW a \in Resolutions, WriteFile(a)
  PROVE  ResolvedInv'
<1> DEFINE s == [migration[a] EXCEPT !.pc = "commit"]
<1>1. migration[a] \in MigrationState
  BY DEF TypeOK
<1>2. /\ s.pc = "commit" /\ s.table = migration[a].table /\ s.to = migration[a].to
      /\ s.alone = migration[a].alone /\ s.sound = migration[a].sound
  BY <1>1 DEF MigrationState
<1>3. /\ Step(a, s) /\ doc' = doc /\ db' = db /\ migration[a].pc = "write"
      /\ file' = migration[a].text
  BY DEF WriteFile, registryVars
<1>4. migration'[a] = s
  BY <1>3 DEF Step
<1> HIDE DEF s
<1>5. Undisturbed(migration[a])
  BY DEF ResolvedInv
<1>6. Undisturbed(migration[a])'
  BY <1>2, <1>3, <1>4, <1>5 DEF Undisturbed, OnTheWay
<1> QED
  BY <1>3, <1>6, ResolvedStep DEF TypeOK

LEMMA ResolvedMigrationStep ==
  ASSUME TypeOK, ResolvedInv, NEW a \in Resolutions, MigrationStep(a) PROVE ResolvedInv'
<1>1. Undisturbed(Over) /\ Undisturbed(Over)'
  BY OverIsOver DEF Undisturbed
<1>2. CASE SqlFails(a) \/ MigrationFails(a)
  BY <1>1, <1>2, ResolvedLocal DEF SqlFails, MigrationFails, registryVars, storeVars, TypeOK
<1>3. CASE Commit(a)
  BY <1>1, <1>3, OverIsOver, ResolvedStep DEF Commit, TypeOK, Undisturbed
<1> QED
  BY <1>2, <1>3, PreviewResolved, EditSqlResolved, ResolveResolved, RunSqlResolved,
     GenerateResolved, WriteFileResolved DEF MigrationStep

LEMMA ResolvedNext == ASSUME TypeOK, ResolvedInv, [Next]_vars PROVE ResolvedInv'
<1>1. CASE RegistryMoves
  <2> SUFFICES ASSUME NEW b \in Resolutions PROVE Undisturbed(migration[b])'
    BY DEF ResolvedInv
  <2> DEFINE s == migration[b]
  <2>1. s \in MigrationState /\ db' = db /\ file' = file
    BY <1>1 DEF TypeOK, RegistryMoves, storeVars
  <2>2. migration'[b] = [s EXCEPT !.alone = @ /\ doc' = doc]
    BY <1>1 DEF RegistryMoves
  <2>3. Undisturbed(s)
    BY DEF ResolvedInv
  <2>4. CASE doc' = doc
    <3>1. /\ migration'[b].pc = s.pc /\ migration'[b].table = s.table
          /\ migration'[b].from = s.from /\ migration'[b].to = s.to
          /\ migration'[b].text = s.text /\ migration'[b].sound = s.sound
      BY <2>1, <2>2 DEF MigrationState
    <3>2. migration'[b].alone => s.alone
      BY <2>1, <2>2 DEF MigrationState
    <3> HIDE DEF s
    <3> QED
      BY <2>1, <2>3, <2>4, <3>1, <3>2 DEF Undisturbed, OnTheWay, Sound
  <2>5. CASE doc' # doc
    <3>1. ~migration'[b].alone
      BY <2>1, <2>2, <2>5 DEF MigrationState
    <3> QED
      BY <3>1 DEF Undisturbed
  <2> QED
    BY <2>4, <2>5
<1>2. CASE Deploy
  <2>1. \A b \in Resolutions : migration'[b].alone = FALSE
    BY <1>2, OverIsOver, NewIsNew DEF Deploy
  <2> QED
    BY <2>1 DEF ResolvedInv, Undisturbed
<1>3. CASE UNCHANGED vars
  BY <1>3 DEF vars, registryVars, storeVars, ResolvedInv, Undisturbed, OnTheWay, Sound
<1> QED
  BY <1>1, <1>2, <1>3, ResolvedMigrationStep DEF Next

\* A resolution that nothing else disturbed ends with its table stable, with the
\* reviewed model in schema.prisma, and with every column of it in the database.
THEOREM ResolutionMigrates == Spec => []ResolvedIsMigrated
<1>1. Init => ResolvedInv
  BY NewIsNew DEF Init, ResolvedInv, Undisturbed
<1>2. TypeOK /\ ResolvedInv /\ [Next]_vars => ResolvedInv'
  BY ResolvedNext
<1>3. TypeOK /\ ResolvedInv => ResolvedIsMigrated
  BY DEF ResolvedInv, Undisturbed, OnTheWay, ResolvedIsMigrated
<1> QED
  BY <1>1, <1>2, <1>3, MigratorTypeCorrect, PTL DEF Spec

-----------------------------------------------------------------------------
(* Views: the rows                                                         *)

\* A view has one definition in a list without a name twice.
LEMMA SqlOfRows ==
  ASSUME NEW rows, UniqueNames(rows), NEW n
  PROVE  /\ \A m \in rows : m.name = n => SqlOf(n, rows) = m.sql
         /\ (\A m \in rows : m.name # n) => SqlOf(n, rows) = {}
<1>1. ASSUME NEW m \in rows, m.name = n PROVE SqlOf(n, rows) = m.sql
  <2>1. {x \in rows : x.name = n} = {m}
    BY <1>1 DEF UniqueNames
  <2>2. {x.sql : x \in {m}} = {m.sql}
    OBVIOUS
  <2>3. UNION {m.sql} = m.sql
    OBVIOUS
  <2> QED
    BY <2>1, <2>2, <2>3 DEF SqlOf
<1>2. ASSUME \A m \in rows : m.name # n PROVE SqlOf(n, rows) = {}
  <2>1. {x \in rows : x.name = n} = {}
    BY <1>2
  <2> QED
    BY <2>1 DEF SqlOf
<1> QED
  BY <1>1, <1>2

\* Rows that agree on a name agree on its definition.
LEMMA SqlOfSame ==
  ASSUME NEW rows, NEW later, NEW n,
         {m \in later : m.name = n} = {m \in rows : m.name = n}
  PROVE  SqlOf(n, later) = SqlOf(n, rows)
BY DEF SqlOf

LEMMA SqlOfType ==
  ASSUME NEW rows \in SUBSET Definitions, UniqueNames(rows), NEW n
  PROVE  SqlOf(n, rows) \in Queries \cup {{}}
<1>1. \A m \in rows : m.sql \in Queries
  BY DEF Definitions
<1> QED
  BY <1>1, SqlOfRows

Edited(rows, id, sql) == {IF m.id = id THEN [m EXCEPT !.sql = sql] ELSE m : m \in rows}

\* What an edited row is, and what it leaves alone.
LEMMA EditedRows ==
  ASSUME NEW rows \in SUBSET Definitions, UniqueIds(rows), UniqueNames(rows),
         NEW r \in rows, NEW sql \in Queries
  PROVE  LET later == Edited(rows, r.id, sql) IN
         /\ later \subseteq Definitions /\ UniqueIds(later) /\ UniqueNames(later)
         /\ \A m \in later : \E o \in rows : o.id = m.id /\ o.name = m.name
         /\ SqlOf(r.name, later) = sql
         /\ \A n \in ViewNames : n # r.name => SqlOf(n, later) = SqlOf(n, rows)
<1> DEFINE Edit(m) == IF m.id = r.id THEN [m EXCEPT !.sql = sql] ELSE m
           later == Edited(rows, r.id, sql)
<1>1. \A m \in rows :
        /\ Edit(m) \in Definitions /\ Edit(m).id = m.id /\ Edit(m).name = m.name
        /\ m.id # r.id => Edit(m) = m
        /\ m.id = r.id => Edit(m).sql = sql
  BY DEF Definitions
<1>2. later = {Edit(m) : m \in rows}
  BY DEF Edited
<1> HIDE DEF later, Edit
<1>3. later \subseteq Definitions /\ \A m \in later : \E o \in rows : o.id = m.id /\ o.name = m.name
  BY <1>1, <1>2
<1>4. UniqueIds(later) /\ UniqueNames(later)
  BY <1>1, <1>2 DEF UniqueIds, UniqueNames
<1>5. Edit(r) \in later /\ Edit(r).name = r.name /\ Edit(r).sql = sql
  BY <1>1, <1>2
<1>6. SqlOf(r.name, later) = sql
  BY <1>4, <1>5, SqlOfRows
<1>7. ASSUME NEW n \in ViewNames, n # r.name PROVE SqlOf(n, later) = SqlOf(n, rows)
  <2>1. {m \in later : m.name = n} = {m \in rows : m.name = n}
    BY <1>1, <1>2, <1>7 DEF UniqueIds
  <2> QED
    BY <2>1, SqlOfSame
<1> QED
  BY <1>3, <1>4, <1>6, <1>7 DEF later

\* The table with a row added: Upsert's create.
AddedTo(rows, next, name, sql) ==
  rows \cup {[id |-> next, name |-> n, sql |-> sql] : n \in {name}}

\* What a new row leaves alone.
LEMMA AddedRow ==
  ASSUME NEW rows \in SUBSET Definitions, UniqueIds(rows), UniqueNames(rows),
         NEW next \in Nat, \A m \in rows : m.id < next,
         NEW name \in ViewNames, \A m \in rows : m.name # name, NEW sql \in Queries
  PROVE  LET later == AddedTo(rows, next, name, sql) IN
         /\ later \subseteq Definitions /\ UniqueIds(later) /\ UniqueNames(later)
         /\ \A m \in later : m.id < next + 1 /\ (m \in rows \/ m.id = next)
         /\ SqlOf(name, later) = sql
         /\ \A n \in ViewNames : n # name => SqlOf(n, later) = SqlOf(n, rows)
<1> DEFINE new == [id |-> next, name |-> name, sql |-> sql]
           later == AddedTo(rows, next, name, sql)
<1>1. later = rows \cup {new}
  BY DEF AddedTo
<1>2. new \in Definitions /\ new.id = next /\ new.name = name /\ new.sql = sql
  BY DEF Definitions
<1>3. \A m \in rows : m.id \in Nat /\ m.id < next
  BY DEF Definitions
<1> HIDE DEF new, later
<1>4. later \subseteq Definitions /\ UniqueIds(later) /\ UniqueNames(later)
  BY <1>1, <1>2, <1>3 DEF UniqueIds, UniqueNames
<1>5. \A m \in later : m.id < next + 1 /\ (m \in rows \/ m.id = next)
  BY <1>1, <1>2, <1>3
<1>6. SqlOf(name, later) = sql
  BY <1>1, <1>2, <1>4, SqlOfRows
<1>7. ASSUME NEW n \in ViewNames, n # name PROVE SqlOf(n, later) = SqlOf(n, rows)
  <2>1. {m \in later : m.name = n} = {m \in rows : m.name = n}
    BY <1>1, <1>2, <1>7
  <2> QED
    BY <2>1, SqlOfSame
<1> QED
  BY <1>4, <1>5, <1>6, <1>7 DEF later

\* What a row that goes leaves alone.
LEMMA RemovedRow ==
  ASSUME NEW rows \in SUBSET Definitions, UniqueIds(rows), UniqueNames(rows), NEW r \in rows
  PROVE  LET later == {m \in rows : m.id # r.id} IN
         /\ later \subseteq Definitions /\ UniqueIds(later) /\ UniqueNames(later)
         /\ SqlOf(r.name, later) = {}
         /\ \A n \in ViewNames : n # r.name => SqlOf(n, later) = SqlOf(n, rows)
<1> DEFINE later == {m \in rows : m.id # r.id}
<1>1. later = rows \ {r}
  BY DEF UniqueIds
<1> HIDE DEF later
<1>2. later \subseteq Definitions /\ UniqueIds(later) /\ UniqueNames(later)
  BY <1>1 DEF UniqueIds, UniqueNames
<1>3. \A m \in later : m.name # r.name
  BY <1>1 DEF UniqueNames
<1>4. SqlOf(r.name, later) = {}
  BY <1>2, <1>3, SqlOfRows
<1>5. ASSUME NEW n \in ViewNames, n # r.name PROVE SqlOf(n, later) = SqlOf(n, rows)
  <2>1. {m \in later : m.name = n} = {m \in rows : m.name = n}
    BY <1>1, <1>5
  <2> QED
    BY <2>1, SqlOfSame
<1> QED
  BY <1>2, <1>4, <1>5 DEF later

RowsOk(rows, next) ==
  /\ rows \subseteq Definitions /\ UniqueIds(rows) /\ UniqueNames(rows)
  /\ next \in Nat /\ \A m \in rows : m.id < next

\* Ids are given in turn, and a row keeps the name it was given.
Later(rows, next, rows2, next2) ==
  /\ next <= next2
  /\ \A m \in rows2 : (\E o \in rows : o.id = m.id /\ o.name = m.name) \/ m.id = next

LEMMA LaterSame ==
  ASSUME RowsInv PROVE RowsOk(meta, nextId) /\ Later(meta, nextId, meta, nextId)
BY DEF RowsInv, RowsOk, Later

LEMMA IsOfLater ==
  ASSUME NEW rows, NEW next, RowsOk(rows, next), NEW rows2, NEW next2,
         RowsOk(rows2, next2), Later(rows, next, rows2, next2),
         NEW id \in Nat, NEW names, IsOf(id, names, rows, next)
  PROVE  IsOf(id, names, rows2, next2)
BY DEF IsOf, Later, RowsOk

LEMMA KnownLater ==
  ASSUME NEW rows, NEW next, RowsOk(rows, next), NEW rows2, NEW next2,
         RowsOk(rows2, next2), Later(rows, next, rows2, next2),
         NEW d, Known(d, rows, next)
  PROVE  Known(d, rows2, next2)
<1>1. d.id \in Nat /\ IsOf(d.id, {d.name}, rows, next)
  BY DEF Known, Definitions
<1>2. IsOf(d.id, {d.name}, rows2, next2)
  BY <1>1, IsOfLater
<1> QED
  BY <1>2 DEF Known

LEMMA CallLater ==
  ASSUME NEW rows, NEW next, RowsOk(rows, next), NEW rows2, NEW next2,
         RowsOk(rows2, next2), Later(rows, next, rows2, next2),
         NEW s \in CallStates, CallInv(s, rows, next)
  PROVE  CallInv(s, rows2, next2)
<1>1. s.id \in Nat
  BY DEF CallStates
<1>2. IsOf(s.id, s.name, rows, next) => IsOf(s.id, s.name, rows2, next2)
  BY <1>1, IsOfLater
<1> QED
  BY <1>2 DEF CallInv

LEMMA CallParts ==
  ASSUME CallsInv, NEW c \in Slots
  PROVE  calls[c] \in CallStates /\ CallInv(calls[c], meta, nextId)
BY DEF CallsInv

LEMMA CallPc ==
  ASSUME NEW s \in CallStates, NEW pc \in {"idle", "find", "ddl", "write", "ok", "failed"}
  PROVE  LET t == [s EXCEPT !.pc = pc] IN
         /\ t \in CallStates /\ t.pc = pc /\ t.kind = s.kind /\ t.id = s.id
         /\ t.name = s.name /\ t.sql = s.sql /\ t.alone = s.alone
BY DEF CallStates

\* What a request does to the table, when it finds its row.
LEMMA RowWritten ==
  ASSUME RowsInv, CallsInv, NEW c \in Slots, Upsert(c) \/ UpdateRow(c) \/ DeleteRow(c)
  PROVE  /\ At(c, "write") /\ RowsOk(meta', nextId') /\ Later(meta, nextId, meta', nextId')
         /\ UNCHANGED <<columns, live, migrating, client, events>>
         /\ \/ UNCHANGED meta /\ Becomes(c, "failed") /\ MarkDrifted(c)
            \/ /\ Becomes(c, "ok") /\ Settle(c)
               /\ \E n \in ViewNames :
                    /\ calls[c].name = {n} /\ SqlOf(n, meta') = calls[c].sql
                    /\ \A o \in ViewNames : o # n => SqlOf(o, meta') = SqlOf(o, meta)
<1> DEFINE s == calls[c]
           Done(rows) == \E n \in ViewNames :
             /\ s.name = {n} /\ SqlOf(n, rows) = s.sql
             /\ \A o \in ViewNames : o # n => SqlOf(o, rows) = SqlOf(o, meta)
<1>1. s \in CallStates /\ CallInv(s, meta, nextId) /\ s.pc = "write"
  BY CallParts DEF Upsert, UpdateRow, DeleteRow, Write, At
<1>2. PICK n \in ViewNames : s.name = {n}
  BY <1>1 DEF CallInv
<1>3. RowsOk(meta, nextId) /\ Later(meta, nextId, meta, nextId)
  BY LaterSame
<1>4. /\ meta \in SUBSET Definitions /\ UniqueIds(meta) /\ UniqueNames(meta)
      /\ nextId \in Nat /\ (\A m \in meta : m.id \in Nat /\ m.id < nextId)
  BY DEF RowsInv, Definitions
<1>5. s.kind # "drop" => s.sql \in Queries
  BY <1>1 DEF CallInv
<1>6. s.kind = "drop" => s.sql = {}
  BY <1>1 DEF CallInv
<1>7. ASSUME NEW r \in meta, r.name = n, s.kind # "drop", UNCHANGED nextId,
             meta' = Edited(meta, r.id, s.sql)
      PROVE  RowsOk(meta', nextId') /\ Later(meta, nextId, meta', nextId') /\ Done(meta')
  <2>1. /\ meta' \subseteq Definitions /\ UniqueIds(meta') /\ UniqueNames(meta')
        /\ \A m \in meta' : \E o \in meta : o.id = m.id /\ o.name = m.name
        /\ SqlOf(n, meta') = s.sql
        /\ \A o \in ViewNames : o # n => SqlOf(o, meta') = SqlOf(o, meta)
    BY <1>4, <1>5, <1>7, EditedRows
  <2> QED
    BY <1>2, <1>4, <1>7, <2>1 DEF RowsOk, Later
<1>8. CASE Upsert(c)
  <2>1. /\ s.kind = "create" /\ Becomes(c, "ok") /\ Settle(c)
        /\ UNCHANGED <<columns, live, migrating, client, events>>
    BY <1>8 DEF Upsert
  <2>2. CASE \E m \in meta : {m.name} = s.name
    <3>1. PICK r \in meta : r.name = n
      BY <1>2, <2>2
    <3>2. /\ meta' = {IF {m.name} = s.name THEN [m EXCEPT !.sql = s.sql] ELSE m : m \in meta}
          /\ UNCHANGED nextId
      BY <1>8, <2>2 DEF Upsert
    <3>3. \A m \in meta : {m.name} = s.name <=> m.id = r.id
      BY <1>2, <1>4, <3>1 DEF UniqueIds, UniqueNames
    <3>4. meta' = Edited(meta, r.id, s.sql)
      BY <3>2, <3>3 DEF Edited
    <3> QED
      BY <1>1, <1>7, <2>1, <3>1, <3>2, <3>4 DEF At
  <2>3. CASE ~\E m \in meta : {m.name} = s.name
    <3>1. /\ meta' = meta \cup {[id |-> nextId, name |-> o, sql |-> s.sql] : o \in {n}}
          /\ nextId' = nextId + 1
      BY <1>2, <1>8, <2>3 DEF Upsert
    <3>2. \A m \in meta : m.name # n
      BY <1>2, <2>3
    <3>3. /\ meta' \subseteq Definitions /\ UniqueIds(meta') /\ UniqueNames(meta')
          /\ \A m \in meta' : m.id < nextId + 1 /\ (m \in meta \/ m.id = nextId)
          /\ SqlOf(n, meta') = s.sql
          /\ \A o \in ViewNames : o # n => SqlOf(o, meta') = SqlOf(o, meta)
      <4>1. s.sql \in Queries /\ \A m \in meta : m.id < nextId
        BY <1>4, <1>5, <2>1
      <4>2. meta' = AddedTo(meta, nextId, n, s.sql)
        BY <3>1 DEF AddedTo
      <4> HIDE DEF s, Done
      <4> QED
        BY <1>4, <3>2, <4>1, <4>2, AddedRow
    <3>4. RowsOk(meta', nextId') /\ Later(meta, nextId, meta', nextId')
      BY <1>4, <3>1, <3>3 DEF RowsOk, Later
    <3>5. Done(meta')
      BY <1>2, <3>3
    <3> QED
      BY <1>1, <2>1, <3>4, <3>5 DEF At
  <2> QED
    BY <2>2, <2>3
<1>9. CASE UpdateRow(c) \/ DeleteRow(c)
  <2>1. /\ s.kind \in {"update", "drop"} /\ UNCHANGED nextId
        /\ UNCHANGED <<columns, live, migrating, client, events>>
    BY <1>9 DEF UpdateRow, DeleteRow, Write
  <2>2. CASE ~\E m \in meta : m.id = s.id
    <3>1. UNCHANGED meta /\ Becomes(c, "failed") /\ MarkDrifted(c)
      BY <1>9, <2>2 DEF UpdateRow, DeleteRow, Write
    <3> QED
      BY <1>1, <1>3, <2>1, <3>1 DEF At
  <2>3. CASE \E m \in meta : m.id = s.id
    <3>1. PICK r \in meta : r.id = s.id
      BY <2>3
    <3>2. r.name = n
      BY <1>1, <1>2, <2>1, <3>1 DEF CallInv, IsOf
    <3>3. Becomes(c, "ok") /\ Settle(c)
      BY <1>9, <2>3 DEF UpdateRow, DeleteRow, Write
    <3>4. CASE UpdateRow(c)
      <4>1. s.kind # "drop" /\ meta' = Edited(meta, r.id, s.sql)
        BY <2>3, <3>1, <3>4 DEF UpdateRow, Write, Edited
      <4> QED
        BY <1>1, <1>7, <2>1, <3>2, <3>3, <4>1 DEF At
    <3>5. CASE DeleteRow(c)
      <4>1. s.kind = "drop" /\ meta' = {m \in meta : m.id # r.id}
        BY <2>3, <3>1, <3>5 DEF DeleteRow, Write
      <4>2. /\ meta' \subseteq Definitions /\ UniqueIds(meta') /\ UniqueNames(meta')
            /\ SqlOf(n, meta') = {}
            /\ \A o \in ViewNames : o # n => SqlOf(o, meta') = SqlOf(o, meta)
        <5>1. LET later == {m \in meta : m.id # r.id} IN
              /\ later \subseteq Definitions /\ UniqueIds(later) /\ UniqueNames(later)
              /\ SqlOf(r.name, later) = {}
              /\ \A o \in ViewNames : o # r.name => SqlOf(o, later) = SqlOf(o, meta)
          BY <1>4, RemovedRow
        <5> QED
          BY <3>2, <4>1, <5>1
      <4>3. \A m \in meta' : m \in meta /\ m.id < nextId
        BY <1>4, <4>1
      <4>4. RowsOk(meta', nextId') /\ Later(meta, nextId, meta', nextId')
        BY <1>4, <2>1, <4>2, <4>3 DEF RowsOk, Later
      <4>5. Done(meta')
        BY <1>2, <1>6, <4>1, <4>2
      <4> QED
        BY <1>1, <2>1, <3>3, <4>4, <4>5 DEF At
    <3> QED
      BY <1>9, <3>4, <3>5
  <2> QED
    BY <2>2, <2>3
<1> QED
  BY <1>8, <1>9

-----------------------------------------------------------------------------
(* Views: which steps touch what                                           *)

LEMMA PageKeepsServer == List \/ Rows => UNCHANGED server
BY DEF List, Rows, Refresh, ReadList, LoadArrives, LoadFails, HandleLoadSample,
       SampleArrives, HandleToggle, OpenEdit, AskDrop, server

LEMMA FormsKeepDatabase == Forms => UNCHANGED <<database, migrating, drifted>>
BY DEF Forms, OpenCreate, Cancel, CancelDrop, HandleSave, HandleDrop, Succeeds, Fails, server

LEMMA MethodKeepsPage ==
  (\E c \in Slots : Method(c)) \/ Crash \/ Migrate => UNCHANGED client
BY DEF Method, Refuse, FindUnique, ReplaceView, DropView, Upsert, UpdateRow, DeleteRow, Write,
       WriteFails, Crash, Migrate, ListViews, CommitMigration, Rollback

\* The view of one request is replaced or dropped, or nothing comes of it.
LEMMA ViewMade ==
  ASSUME RowsInv, CallsInv, NEW c \in Slots, ReplaceView(c) \/ DropView(c)
  PROVE  /\ At(c, "ddl") /\ UNCHANGED <<columns, meta, nextId, migrating, drifted, client, events>>
         /\ \/ UNCHANGED live /\ Becomes(c, "failed")
            \/ /\ Becomes(c, "write") /\ live' \in [ViewNames -> Queries \cup {{}}]
               /\ \E n \in ViewNames :
                    /\ calls[c].name = {n} /\ live'[n] = calls[c].sql
                    /\ \A o \in ViewNames : o # n => live'[o] = live[o]
<1> DEFINE s == calls[c]
<1>1. s \in CallStates /\ CallInv(s, meta, nextId) /\ s.pc = "ddl"
  BY CallParts DEF ReplaceView, DropView, At
<1>2. PICK n \in ViewNames : s.name = {n}
  BY <1>1 DEF CallInv
<1>3. /\ UNCHANGED <<columns, meta, nextId, migrating, drifted, client, events>>
      /\ \/ UNCHANGED live /\ Becomes(c, "failed")
         \/ SetView(s.name, s.sql) /\ Becomes(c, "write")
  <2>1. CASE ReplaceView(c)
    <3>1. \/ SetView(s.name, s.sql) /\ Becomes(c, "write")
          \/ UNCHANGED live /\ Becomes(c, "failed")
      BY <2>1 DEF ReplaceView
    <3>2. UNCHANGED <<columns, meta, nextId, migrating, drifted, client, events>>
      BY <2>1 DEF ReplaceView
    <3> QED
      BY <3>1, <3>2
  <2>2. CASE DropView(c)
    <3>1. s.sql = {}
      BY <1>1, <2>2 DEF DropView, CallInv
    <3>2. \/ SetView(s.name, {}) /\ Becomes(c, "write")
          \/ UNCHANGED live /\ Becomes(c, "failed")
      BY <2>2 DEF DropView
    <3>3. UNCHANGED <<columns, meta, nextId, migrating, drifted, client, events>>
      BY <2>2 DEF DropView
    <3> QED
      BY <3>1, <3>2, <3>3
  <2> QED
    BY <2>1, <2>2
<1>4. ASSUME SetView(s.name, s.sql)
      PROVE  /\ live' \in [ViewNames -> Queries \cup {{}}] /\ live'[n] = s.sql
             /\ \A o \in ViewNames : o # n => live'[o] = live[o]
  <2>1. s.sql \in Queries \cup {{}} /\ live \in [ViewNames -> Queries \cup {{}}]
    BY <1>1 DEF CallStates, RowsInv
  <2>2. live' = [o \in ViewNames |-> IF o \in {n} THEN s.sql ELSE live[o]]
    BY <1>2, <1>4 DEF SetView
  <2> HIDE DEF s
  <2> QED
    BY <2>1, <2>2
<1> QED
  BY <1>1, <1>2, <1>3, <1>4 DEF At

\* What a migration makes of the views.
LEMMA RecreatedType ==
  ASSUME RowsInv, MigratingInv, NEW n \in ViewNames
  PROVE  Recreated(n) \in Queries \cup {{}}
<1>1. migrating.listed \in SUBSET Definitions /\ UniqueNames(migrating.listed)
  BY DEF MigratingInv
<1>2. SqlOf(n, migrating.listed) \in Queries \cup {{}}
  BY <1>1, SqlOfType
<1>3. live[n] \in Queries \cup {{}}
  BY DEF RowsInv
<1> QED
  BY <1>2, <1>3 DEF Recreated

LEMMA RowsKept ==
  ASSUME RowsInv, UNCHANGED <<database, drifted>>
  PROVE  RowsInv' /\ Later(meta, nextId, meta', nextId')
BY LaterSame DEF RowsInv, database

LEMMA RowsNext ==
  ASSUME RowsInv, CallsInv, MigratingInv, [ViewsNext]_viewsVars
  PROVE  RowsInv' /\ Later(meta, nextId, meta', nextId')
<1>1. ASSUME NEW c \in Slots, Method(c)
      PROVE  RowsInv' /\ Later(meta, nextId, meta', nextId')
  <2>1. calls[c].name \subseteq ViewNames
    BY CallParts DEF CallStates
  <2>2. CASE Refuse(c) \/ FindUnique(c)
    BY <2>2, RowsKept DEF Refuse, FindUnique
  <2>3. CASE ReplaceView(c) \/ DropView(c)
    <3>1. live' \in [ViewNames -> Queries \cup {{}}] /\ UNCHANGED <<columns, meta, nextId, drifted>>
      BY <2>3, ViewMade DEF RowsInv
    <3> QED
      BY <3>1, LaterSame DEF RowsInv
  <2>4. CASE Upsert(c) \/ UpdateRow(c) \/ DeleteRow(c)
    <3>1. /\ RowsOk(meta', nextId') /\ Later(meta, nextId, meta', nextId')
          /\ UNCHANGED <<columns, live>> /\ (MarkDrifted(c) \/ Settle(c))
      BY <2>4, RowWritten
    <3>2. drifted' \subseteq ViewNames
      BY <2>1, <3>1 DEF MarkDrifted, Settle, RowsInv
    <3> QED
      BY <3>1, <3>2 DEF RowsInv, RowsOk
  <2>5. CASE WriteFails(c)
    BY <2>1, <2>5, LaterSame DEF WriteFails, MarkDrifted, RowsInv, database
  <2> QED
    BY <1>1, <2>2, <2>3, <2>4, <2>5 DEF Method
<1>2. CASE Crash
  <2>1. \A c \in Slots : calls[c].name \subseteq ViewNames
    BY CallParts DEF CallStates
  <2>2. /\ UNCHANGED database
        /\ drifted' = drifted \cup UNION {calls[c].name : c \in {d \in Slots : At(d, "write")}}
    BY <1>2 DEF Crash
  <2>3. drifted' \subseteq ViewNames
    BY <2>1, <2>2 DEF RowsInv
  <2> QED
    BY <2>2, <2>3, LaterSame DEF RowsInv, database
<1>3. CASE Migrate
  <2>1. CASE CommitMigration
    <3>1. /\ columns' = Altered /\ live' = [n \in ViewNames |-> Recreated(n)]
          /\ UNCHANGED <<meta, nextId, drifted>>
      BY <2>1 DEF CommitMigration
    <3>2. columns' \subseteq Columns
      BY <3>1 DEF Altered, RowsInv, MigratingInv
    <3>3. live' \in [ViewNames -> Queries \cup {{}}]
      BY <3>1, RecreatedType
    <3> QED
      BY <3>1, <3>2, <3>3, LaterSame DEF RowsInv
  <2>2. CASE Migrate /\ ~CommitMigration
    BY <2>2, RowsKept DEF Migrate, ListViews, Rollback
  <2> QED
    BY <1>3, <2>1, <2>2
<1>4. CASE List \/ Rows \/ Forms
  BY <1>4, PageKeepsServer, FormsKeepDatabase, RowsKept DEF server
<1>5. CASE UNCHANGED viewsVars
  BY <1>5, RowsKept DEF viewsVars, server
<1> QED
  BY <1>1, <1>2, <1>3, <1>4, <1>5 DEF ViewsNext

-----------------------------------------------------------------------------
(* Views: the requests                                                     *)

\* A request keeps what it is about, and may lose its being alone.
SameCall(s, t) ==
  /\ t \in CallStates /\ t.kind = s.kind /\ t.id = s.id /\ t.name = s.name /\ t.sql = s.sql
  /\ t.alone => s.alone

LEMMA SameCallInv ==
  ASSUME NEW s, NEW t, SameCall(s, t), s.pc = "idle" => t.pc = "idle",
         NEW rows, NEW next, CallInv(s, rows, next)
  PROVE  CallInv(t, rows, next)
BY DEF SameCall, CallInv

LEMMA CallsLater ==
  ASSUME CallsInv, RowsInv, RowsInv', Later(meta, nextId, meta', nextId'),
         DOMAIN calls' = Slots, calls' = [c \in Slots |-> calls'[c]],
         \A c \in Slots : calls'[c] \in CallStates /\ CallInv(calls'[c], meta, nextId)
  PROVE  CallsInv'
<1>1. RowsOk(meta, nextId) /\ RowsOk(meta', nextId')
  BY DEF RowsInv, RowsOk
<1>2. \A c \in Slots : CallInv(calls'[c], meta', nextId')
  BY <1>1, CallLater
<1>3. calls' \in [Slots -> CallStates]
  OBVIOUS
<1> QED
  BY <1>2, <1>3 DEF CallsInv

LEMMA CallsKept ==
  ASSUME CallsInv, RowsInv, RowsInv', Later(meta, nextId, meta', nextId'), UNCHANGED calls
  PROVE  CallsInv'
<1>1. DOMAIN calls = Slots /\ calls = [c \in Slots |-> calls[c]]
      /\ \A c \in Slots : calls[c] \in CallStates /\ CallInv(calls[c], meta, nextId)
  BY DEF CallsInv
<1> QED
  BY <1>1, CallsLater

\* One request goes on.
LEMMA BecomesEffect ==
  ASSUME CallsInv, NEW c \in Slots,
         NEW pc \in {"idle", "find", "ddl", "write", "ok", "failed"}, Becomes(c, pc)
  PROVE  /\ DOMAIN calls' = Slots /\ calls' = [d \in Slots |-> calls'[d]]
         /\ SameCall(calls[c], calls'[c]) /\ calls'[c].pc = pc /\ calls'[c].alone = calls[c].alone
         /\ \A d \in Slots : d # c => calls'[d] = calls[d]
<1>1. calls \in [Slots -> CallStates]
  BY DEF CallsInv
<1>2. calls'[c] = [calls[c] EXCEPT !.pc = pc]
  BY <1>1 DEF Becomes
<1>3. SameCall(calls[c], calls'[c]) /\ calls'[c].pc = pc /\ calls'[c].alone = calls[c].alone
  <2>1. calls[c] \in CallStates
    BY <1>1
  <2> QED
    BY <1>2, <2>1 DEF CallStates, SameCall
<1>4. DOMAIN calls' = Slots /\ calls' = [d \in Slots |-> calls'[d]]
      /\ \A d \in Slots : d # c => calls'[d] = calls[d]
  BY <1>1 DEF Becomes
<1> QED
  BY <1>3, <1>4

LEMMA CallsBecome ==
  ASSUME CallsInv, RowsInv, RowsInv', Later(meta, nextId, meta', nextId'),
         NEW c \in Slots, calls[c].pc # "idle",
         NEW pc \in {"idle", "find", "ddl", "write", "ok", "failed"}, Becomes(c, pc)
  PROVE  CallsInv'
<1>1. /\ DOMAIN calls' = Slots /\ calls' = [d \in Slots |-> calls'[d]]
      /\ SameCall(calls[c], calls'[c])
      /\ \A d \in Slots : d # c => calls'[d] = calls[d]
  BY BecomesEffect
<1>2. \A d \in Slots : calls[d] \in CallStates /\ CallInv(calls[d], meta, nextId)
  BY DEF CallsInv
<1>3. CallInv(calls'[c], meta, nextId) /\ calls'[c] \in CallStates
  BY <1>1, <1>2, SameCallInv DEF SameCall
<1>4. \A d \in Slots : calls'[d] \in CallStates /\ CallInv(calls'[d], meta, nextId)
  BY <1>1, <1>2, <1>3
<1> QED
  BY <1>1, <1>4, CallsLater

\* Every method goes on with one request that is under way.
LEMMA MethodBecomes ==
  ASSUME RowsInv, CallsInv, NEW c \in Slots, Method(c)
  PROVE  /\ calls[c].pc \in {"find", "ddl", "write"}
         /\ \E pc \in {"ddl", "write", "ok", "failed"} : Becomes(c, pc)
<1>1. CASE Refuse(c) \/ FindUnique(c) \/ WriteFails(c)
  BY <1>1 DEF Refuse, FindUnique, WriteFails, At
<1>2. CASE ReplaceView(c) \/ DropView(c)
  BY <1>2, ViewMade DEF At
<1>3. CASE Upsert(c) \/ UpdateRow(c) \/ DeleteRow(c)
  BY <1>3, RowWritten DEF At
<1> QED
  BY <1>1, <1>2, <1>3 DEF Method

\* A request that is new takes the being alone from its rivals.
LEMMA EnterEffect ==
  ASSUME CallsInv, NEW c \in Slots, NEW kind \in {"create", "update", "drop"},
         NEW id \in Nat, NEW n \in ViewNames, NEW sql \in Queries \cup {{}},
         Enter(c, kind, id, n, sql)
  PROVE  /\ DOMAIN calls' = Slots /\ calls' = [d \in Slots |-> calls'[d]]
         /\ calls[c].pc = "idle" /\ calls'[c] \in CallStates
         /\ calls'[c].pc \in {"ddl", "find"} /\ calls'[c].kind = kind /\ calls'[c].id = id
         /\ calls'[c].name = {n} /\ calls'[c].sql = sql
         /\ calls'[c].alone => Rivals(n) = {} /\ ~migrating.on
         /\ \A d \in Slots : d # c =>
              /\ SameCall(calls[d], calls'[d]) /\ calls'[d].pc = calls[d].pc
              /\ d \in Rivals(n) => ~calls'[d].alone
<1>1. calls \in [Slots -> CallStates]
  BY DEF CallsInv
<1> DEFINE alone == Rivals(n) = {} /\ ~migrating.on
           pc == IF kind = "create" THEN "ddl" ELSE "find"
           new == [pc |-> pc, kind |-> kind, id |-> id, name |-> {n}, sql |-> sql,
                   alone |-> alone]
           Beside(d) == IF d \in Rivals(n) THEN [calls[d] EXCEPT !.alone = FALSE] ELSE calls[d]
<1>2. calls[c].pc = "idle"
      /\ calls' = [d \in Slots |->
           CASE d = c -> new
             [] d \in Rivals(n) -> [calls[d] EXCEPT !.alone = FALSE]
             [] OTHER -> calls[d]]
  BY DEF Enter, At
<1>3. c \notin Rivals(n)
  BY <1>2 DEF Rivals
<1>4. calls' = [d \in Slots |-> IF d = c THEN new ELSE Beside(d)]
  BY <1>2, <1>3
<1>5. pc \in {"ddl", "find"} /\ alone \in BOOLEAN
  OBVIOUS
<1> HIDE DEF pc, alone
<1>6. /\ new \in CallStates /\ new.pc \in {"ddl", "find"} /\ new.kind = kind /\ new.id = id
      /\ new.name = {n} /\ new.sql = sql /\ new.alone = alone
  BY <1>5 DEF CallStates
<1>7. ASSUME NEW d \in Slots
      PROVE  /\ SameCall(calls[d], Beside(d)) /\ Beside(d).pc = calls[d].pc
             /\ d \in Rivals(n) => ~Beside(d).alone
  <2>1. calls[d] \in CallStates
    BY <1>1
  <2>2. CASE d \in Rivals(n)
    BY <2>1, <2>2 DEF CallStates, SameCall
  <2>3. CASE d \notin Rivals(n)
    BY <2>1, <2>3 DEF SameCall
  <2> QED
    BY <2>2, <2>3
<1> HIDE DEF new, Beside
<1>8. DOMAIN calls' = Slots /\ calls' = [d \in Slots |-> calls'[d]]
  BY <1>4
<1>9. calls'[c] = new /\ \A d \in Slots : d # c => calls'[d] = Beside(d)
  BY <1>4
<1> QED
  BY <1>2, <1>6, <1>7, <1>8, <1>9 DEF alone

LEMMA CallsEnter ==
  ASSUME CallsInv, RowsInv, RowsInv', UNCHANGED <<meta, nextId>>,
         NEW c \in Slots, NEW kind \in {"create", "update", "drop"},
         NEW id \in Nat, NEW n \in ViewNames, NEW sql \in Queries \cup {{}},
         Enter(c, kind, id, n, sql), IF kind = "drop" THEN sql = {} ELSE sql \in Queries,
         kind # "create" => IsOf(id, {n}, meta, nextId)
  PROVE  CallsInv'
<1>1. /\ DOMAIN calls' = Slots /\ calls' = [d \in Slots |-> calls'[d]]
      /\ calls'[c] \in CallStates /\ calls'[c].kind = kind /\ calls'[c].id = id
      /\ calls'[c].name = {n} /\ calls'[c].sql = sql
      /\ \A d \in Slots : d # c => SameCall(calls[d], calls'[d]) /\ calls'[d].pc = calls[d].pc
  BY EnterEffect
<1>2. \A d \in Slots : calls[d] \in CallStates /\ CallInv(calls[d], meta, nextId)
  BY DEF CallsInv
<1>3. CallInv(calls'[c], meta, nextId)
  BY <1>1 DEF CallInv
<1>4. \A d \in Slots : d # c => CallInv(calls'[d], meta, nextId) /\ calls'[d] \in CallStates
  BY <1>1, <1>2, SameCallInv DEF SameCall
<1>5. \A d \in Slots : calls'[d] \in CallStates /\ CallInv(calls'[d], meta, nextId)
  BY <1>1, <1>3, <1>4
<1>6. Later(meta, nextId, meta', nextId')
  BY LaterSame
<1> QED
  BY <1>1, <1>5, <1>6, CallsLater

LEMMA LeaveEffect ==
  ASSUME CallsInv, NEW c \in Slots, Leave(c)
  PROVE  /\ DOMAIN calls' = Slots /\ calls' = [d \in Slots |-> calls'[d]]
         /\ calls'[c] \in CallStates /\ calls'[c].pc = "idle"
         /\ \A d \in Slots : d # c => calls'[d] = calls[d]
<1>1. NoCall \in CallStates /\ NoCall.pc = "idle"
  BY DEF NoCall, CallStates
<1> QED
  BY <1>1 DEF CallsInv, Leave

LEMMA CallsNext ==
  ASSUME RowsInv, RowsInv', Later(meta, nextId, meta', nextId'), CallsInv,
         PageInv(page, meta, nextId), [ViewsNext]_viewsVars
  PROVE  CallsInv'
<1>1. ASSUME NEW c \in Slots, Method(c) PROVE CallsInv'
  <2>1. calls[c].pc # "idle" /\ \E pc \in {"ddl", "write", "ok", "failed"} : Becomes(c, pc)
    BY <1>1, MethodBecomes
  <2>2. PICK pc \in {"ddl", "write", "ok", "failed"} : Becomes(c, pc)
    BY <2>1
  <2> QED
    BY <2>1, <2>2, CallsBecome
<1>2. CASE Crash
  <2> DEFINE Stopped(c) == IF calls[c].pc \in {"find", "ddl", "write"}
                           THEN [calls[c] EXCEPT !.pc = "failed"] ELSE calls[c]
  <2>1. calls' = [c \in Slots |-> Stopped(c)]
    BY <1>2 DEF Crash
  <2>2. \A c \in Slots : calls[c] \in CallStates /\ CallInv(calls[c], meta, nextId)
    BY DEF CallsInv
  <2>3. ASSUME NEW c \in Slots
        PROVE  SameCall(calls[c], Stopped(c)) /\ (calls[c].pc = "idle" => Stopped(c).pc = "idle")
    BY <2>2, CallPc DEF SameCall
  <2>4. \A c \in Slots : Stopped(c) \in CallStates /\ CallInv(Stopped(c), meta, nextId)
    BY <2>2, <2>3, SameCallInv DEF SameCall
  <2> HIDE DEF Stopped
  <2> QED
    BY <2>1, <2>4, CallsLater
<1>3. CASE Migrate
  <2>1. CASE \E kind \in {"alter", "drop", "add"}, x \in Columns : ListViews(kind, x)
    <3> DEFINE Beside(c) == [calls[c] EXCEPT !.alone = FALSE]
    <3>1. calls' = [c \in Slots |-> Beside(c)]
      BY <2>1 DEF ListViews
    <3>2. \A c \in Slots : calls[c] \in CallStates /\ CallInv(calls[c], meta, nextId)
      BY DEF CallsInv
    <3>3. ASSUME NEW c \in Slots
          PROVE  SameCall(calls[c], Beside(c)) /\ (calls[c].pc = "idle" => Beside(c).pc = "idle")
      BY <3>2 DEF SameCall, CallStates
    <3>4. \A c \in Slots : Beside(c) \in CallStates /\ CallInv(Beside(c), meta, nextId)
      BY <3>2, <3>3, SameCallInv DEF SameCall
    <3> HIDE DEF Beside
    <3> QED
      BY <3>1, <3>4, CallsLater
  <2>2. CASE CommitMigration \/ Rollback
    BY <2>2, CallsKept DEF CommitMigration, Rollback
  <2> QED
    BY <1>3, <2>1, <2>2 DEF Migrate
<1>4. CASE List \/ Rows \/ UNCHANGED viewsVars
  BY <1>4, PageKeepsServer, CallsKept DEF server, viewsVars
<1>5. CASE Forms
  <2>1. UNCHANGED <<meta, nextId>>
    BY <1>5, FormsKeepDatabase DEF database
  <2>2. CASE OpenCreate \/ Cancel \/ CancelDrop
    BY <2>2, CallsKept DEF OpenCreate, Cancel, CancelDrop, server
  <2>3. ASSUME NEW c \in Slots, NEW n \in ViewNames, NEW sql \in Queries, HandleSave(c, n, sql)
        PROVE  CallsInv'
    <3>1. CASE page.mode = "create"
      <4>1. Enter(c, "create", 0, n, sql)
        BY <2>3, <3>1 DEF HandleSave
      <4> QED
        BY <2>1, <4>1, CallsEnter
    <3>2. CASE page.mode # "create"
      <4>1. PICK v \in page.target : v.name = n /\ Enter(c, "update", v.id, n, sql)
        BY <2>3, <3>2 DEF HandleSave
      <4>2. v.id \in Nat /\ IsOf(v.id, {n}, meta, nextId)
        BY <4>1 DEF PageInv, Known, Definitions
      <4> QED
        BY <2>1, <4>1, <4>2, CallsEnter
    <3> QED
      BY <3>1, <3>2
  <2>4. ASSUME NEW c \in Slots, HandleDrop(c) PROVE CallsInv'
    <3>1. PICK v \in page.drop : Enter(c, "drop", v.id, v.name, {})
      BY <2>4 DEF HandleDrop
    <3>2. v.id \in Nat /\ v.name \in ViewNames /\ IsOf(v.id, {v.name}, meta, nextId)
      BY <3>1 DEF PageInv, Known, Definitions
    <3> QED
      BY <2>1, <3>1, <3>2, CallsEnter
  <2>5. ASSUME NEW c \in Slots, Succeeds(c) \/ Fails(c) PROVE CallsInv'
    <3>1. Leave(c)
      BY <2>5 DEF Succeeds, Fails
    <3>2. /\ DOMAIN calls' = Slots /\ calls' = [d \in Slots |-> calls'[d]]
          /\ calls'[c] \in CallStates /\ calls'[c].pc = "idle"
          /\ \A d \in Slots : d # c => calls'[d] = calls[d]
      BY <3>1, LeaveEffect
    <3>3. \A d \in Slots : calls'[d] \in CallStates /\ CallInv(calls'[d], meta, nextId)
      BY <3>2 DEF CallsInv, CallInv
    <3> QED
      BY <3>2, <3>3, CallsLater
  <2> QED
    BY <1>5, <2>2, <2>3, <2>4, <2>5 DEF Forms
<1> QED
  BY <1>1, <1>2, <1>3, <1>4, <1>5 DEF ViewsNext

LEMMA MigratingNext ==
  ASSUME RowsInv, MigratingInv, [ViewsNext]_viewsVars PROVE MigratingInv'
<1>1. CASE UNCHANGED migrating
  BY <1>1 DEF MigratingInv
<1>2. CASE migrating' = NotMigrating
  BY <1>2 DEF MigratingInv, NotMigrating, UniqueNames
<1>3. ASSUME NEW kind \in {"alter", "drop", "add"}, NEW x \in Columns, ListViews(kind, x)
      PROVE  MigratingInv'
  <2>1. migrating' = [on |-> TRUE, listed |-> meta, kind |-> kind, column |-> {x}]
    BY <1>3 DEF ListViews
  <2>2. meta \in SUBSET Definitions /\ UniqueNames(meta)
    BY DEF RowsInv
  <2> QED
    BY <2>1, <2>2 DEF MigratingInv
<1>4. ASSUME NEW c \in Slots, Method(c) PROVE UNCHANGED migrating
  BY <1>4 DEF Method, Refuse, FindUnique, ReplaceView, DropView, Upsert, UpdateRow, DeleteRow,
              Write, WriteFails
<1>5. CASE Crash
  BY <1>2, <1>5 DEF Crash
<1>6. CASE Migrate
  <2>1. CASE CommitMigration \/ Rollback
    BY <1>2, <2>1 DEF CommitMigration, Rollback
  <2> QED
    BY <1>3, <1>6, <2>1 DEF Migrate
<1>7. CASE List \/ Rows \/ Forms \/ UNCHANGED viewsVars
  BY <1>1, <1>7, PageKeepsServer, FormsKeepDatabase DEF server, viewsVars
<1> QED
  BY <1>1, <1>3, <1>4, <1>5, <1>6, <1>7 DEF ViewsNext

-----------------------------------------------------------------------------
(* Views: the page and its requests for the list                           *)

LEMMA BarePage ==
  ASSUME NEW p \in Pages
  PROVE  LET b == Bare(p) IN
         /\ b \in Pages /\ b.mode = p.mode /\ b.target = p.target /\ b.drop = p.drop
         /\ b.views = p.views /\ b.loading = p.loading /\ b.excused = p.excused
         /\ b.samples = {} /\ b.sampling = {}
BY DEF Bare, Pages

LEMMA LoadingPage ==
  ASSUME NEW p \in Pages
  PROVE  LET b == Loading(p) IN
         /\ b \in Pages /\ b.mode = p.mode /\ b.target = p.target /\ b.drop = p.drop
         /\ b.views = p.views /\ b.loading = TRUE
         /\ b.excused <=> \E l \in Loads : loads[l].pc # "idle"
         /\ b.samples = {} /\ b.sampling = {}
<1> DEFINE x == \E l \in Loads : loads[l].pc # "idle"
           b == [Bare(p) EXCEPT !.loading = TRUE, !.excused = x]
<1>1. x \in BOOLEAN
  OBVIOUS
<1>2. Bare(p) \in Pages
  BY BarePage
<1>3. Loading(p) = b
  BY DEF Loading
<1> HIDE DEF x
<1>4. /\ b \in Pages /\ b.mode = Bare(p).mode /\ b.target = Bare(p).target
      /\ b.drop = Bare(p).drop /\ b.views = Bare(p).views /\ b.loading = TRUE
      /\ b.excused = x /\ b.samples = Bare(p).samples /\ b.sampling = Bare(p).sampling
  BY <1>1, <1>2 DEF Pages
<1> HIDE DEF b
<1>5. b.excused <=> \E l \in Loads : loads[l].pc # "idle"
  BY <1>4 DEF x
<1> QED
  BY <1>3, <1>4, <1>5, BarePage

\* A request for the list is sent, from a page that may have lost its form.
LEMMA LoadStep ==
  ASSUME LoadsInv, PageInv(page, meta, nextId), NEW p \in Pages, Load(p),
         p.views = page.views, p.mode = "edit" => p.target # {},
         p.target \subseteq page.target, p.drop \subseteq page.drop
  PROVE  /\ loads' \in [Loads -> LoadStates] /\ (\A l \in Loads : LoadInv(loads'[l], meta, nextId))
         /\ PageInv(page', meta, nextId) /\ SamplesInv(page', Busy(loads'))
<1>1. PICK l \in Loads : loads[l].pc = "idle" /\ loads' = [loads EXCEPT ![l].pc = "sent"]
  BY DEF Load
<1>2. loads \in [Loads -> LoadStates] /\ \A k \in Loads : LoadInv(loads[k], meta, nextId)
  BY DEF LoadsInv
<1>3. loads[l] \in LoadStates
  BY <1>2
<1>4. /\ loads'[l].views = loads[l].views /\ loads'[l] \in LoadStates /\ loads'[l].pc = "sent"
      /\ \A k \in Loads : k # l => loads'[k] = loads[k]
  BY <1>1, <1>2, <1>3 DEF LoadStates
<1>5. loads' \in [Loads -> LoadStates]
  BY <1>1, <1>2, <1>4
<1>6. \A k \in Loads : LoadInv(loads'[k], meta, nextId)
  BY <1>2, <1>4 DEF LoadInv
<1>7. /\ page' \in Pages /\ page'.mode = p.mode /\ page'.target = p.target /\ page'.drop = p.drop
      /\ page'.views = page.views /\ page'.loading = TRUE
      /\ page'.excused <=> \E k \in Loads : loads[k].pc # "idle"
      /\ page'.samples = {} /\ page'.sampling = {}
  BY LoadingPage DEF Load
<1>8. PageInv(page', meta, nextId)
  BY <1>7 DEF PageInv
<1>9. ~page'.excused => Busy(loads') = {l}
  BY <1>4, <1>7 DEF Busy
<1>10. SamplesInv(page', Busy(loads'))
  BY <1>7, <1>9 DEF SamplesInv, Sampled
<1> QED
  BY <1>5, <1>6, <1>8, <1>10

\* The page, with its requests as they are.
ListOk ==
  /\ loads' \in [Loads -> LoadStates] /\ (\A l \in Loads : LoadInv(loads'[l], meta, nextId))
  /\ PageInv(page', meta, nextId) /\ SamplesInv(page', Busy(loads'))

LEMMA PageStep ==
  ASSUME LoadsInv, SamplesInv(page, Busy(loads)), UNCHANGED loads, PageInv(page', meta, nextId),
         page'.views = page.views, Sampled(page') # {} => page'.mode = "list" /\ ~page'.loading,
         page.loading => page'.loading, page.excused => page'.excused,
         Sampled(page') \subseteq Sampled(page)
           \/ \E v \in page.views : Sampled(page') \subseteq
                                      Sampled(page) \cup {[id |-> v.id, sql |-> v.sql]}
  PROVE  ListOk
<1>1. loads' \in [Loads -> LoadStates] /\ \A l \in Loads : LoadInv(loads'[l], meta, nextId)
  BY DEF LoadsInv
<1>2. UniqueIds(page.views)
  BY DEF PageInv
<1>3. ASSUME ~page'.excused, NEW s \in Sampled(page'), NEW v \in page'.views, v.id = s.id
      PROVE  v.sql = s.sql
  <2>1. ~page.excused /\ v \in page.views
    BY <1>3
  <2>2. CASE s \in Sampled(page)
    BY <1>3, <2>1, <2>2 DEF SamplesInv
  <2>3. CASE \E w \in page.views : s = [id |-> w.id, sql |-> w.sql]
    BY <1>2, <1>3, <2>1, <2>3 DEF UniqueIds
  <2> QED
    BY <2>2, <2>3
<1>4. ~page'.excused => (Busy(loads') # {} => page'.loading) /\ \A k, l \in Busy(loads') : k = l
  BY DEF SamplesInv
<1>5. SamplesInv(page', Busy(loads'))
  BY <1>3, <1>4 DEF SamplesInv
<1> QED
  BY <1>1, <1>5 DEF ListOk

LEMMA ListSteps ==
  ASSUME RowsInv, LoadsInv, PageInv(page, meta, nextId), SamplesInv(page, Busy(loads)), List
  PROVE  ListOk
<1>1. /\ page \in Pages /\ UniqueIds(page.views)
      /\ \A d \in page.views \cup page.target \cup page.drop : Known(d, meta, nextId)
  BY DEF PageInv
<1>2. loads \in [Loads -> LoadStates] /\ \A k \in Loads : LoadInv(loads[k], meta, nextId)
  BY DEF LoadsInv
<1>3. CASE Refresh
  <2>1. PICK p \in Pages : p = page
    BY <1>1
  <2>2. Load(p)
    BY <1>3, <2>1 DEF Refresh, Load, Loading, Bare
  <2>3. p.views = page.views /\ (p.mode = "edit" => p.target # {})
        /\ p.target \subseteq page.target /\ p.drop \subseteq page.drop
    BY <2>1 DEF PageInv
  <2> QED
    BY <2>2, <2>3, LoadStep DEF ListOk
<1>4. ASSUME NEW l \in Loads, ReadList(l) PROVE ListOk
  <2>1. /\ loads[l].pc = "sent" /\ loads' = [loads EXCEPT ![l] = [pc |-> "read", views |-> meta]]
        /\ page' = page
    BY <1>4 DEF ReadList
  <2>2. /\ loads'[l] = [pc |-> "read", views |-> meta]
        /\ \A k \in Loads : k # l => loads'[k] = loads[k]
    BY <1>2, <2>1
  <2>3. meta \subseteq Definitions /\ UniqueIds(meta) /\ \A d \in meta : Known(d, meta, nextId)
    BY DEF RowsInv, Known, IsOf, UniqueIds
  <2>4. loads' \in [Loads -> LoadStates]
    BY <1>2, <2>1, <2>3 DEF LoadStates
  <2>5. \A k \in Loads : LoadInv(loads'[k], meta, nextId)
    BY <1>2, <2>2, <2>3 DEF LoadInv
  <2>6. Busy(loads') = Busy(loads)
    BY <2>1, <2>2 DEF Busy
  <2> QED
    BY <2>1, <2>4, <2>5, <2>6 DEF ListOk
<1>5. ASSUME NEW l \in Loads, loads[l].pc # "idle", loads' = [loads EXCEPT ![l] = NoLoad]
      PROVE  /\ loads' \in [Loads -> LoadStates]
             /\ \A k \in Loads : LoadInv(loads'[k], meta, nextId)
             /\ Busy(loads') = Busy(loads) \ {l}
  <2>1. NoLoad \in LoadStates /\ LoadInv(NoLoad, meta, nextId) /\ NoLoad.pc = "idle"
    BY DEF NoLoad, LoadStates, LoadInv, UniqueIds
  <2>2. loads'[l] = NoLoad /\ \A k \in Loads : k # l => loads'[k] = loads[k]
    BY <1>2, <1>5
  <2> QED
    BY <1>2, <1>5, <2>1, <2>2 DEF Busy
<1>6. ASSUME NEW l \in Loads, LoadArrives(l) PROVE ListOk
  <2> DEFINE rows == loads[l].views
             ids == {v.id : v \in rows}
  <2>1. /\ loads[l].pc = "read" /\ loads' = [loads EXCEPT ![l] = NoLoad]
        /\ page' = [page EXCEPT !.views = rows, !.loading = FALSE,
                                !.samples = {s \in @ : s.id \in ids},
                                !.sampling = {s \in @ : s.id \in ids}]
    BY <1>6 DEF LoadArrives
  <2>2. /\ rows \subseteq Definitions /\ UniqueIds(rows) /\ \A d \in rows : Known(d, meta, nextId)
    BY <1>2 DEF LoadInv, LoadStates
  <2> HIDE DEF rows, ids
  <2>3. /\ page' \in Pages /\ page'.mode = page.mode /\ page'.target = page.target
        /\ page'.drop = page.drop /\ page'.views = rows /\ ~page'.loading
        /\ page'.excused = page.excused /\ page'.samples \subseteq page.samples
        /\ page'.sampling \subseteq page.sampling
    BY <1>1, <2>1, <2>2 DEF Pages
  <2>4. PageInv(page', meta, nextId)
    BY <1>1, <2>2, <2>3 DEF PageInv
  <2>5. /\ loads' \in [Loads -> LoadStates] /\ (\A k \in Loads : LoadInv(loads'[k], meta, nextId))
        /\ Busy(loads') = Busy(loads) \ {l} /\ l \in Busy(loads)
    BY <1>5, <2>1 DEF Busy
  <2>6. ~page'.excused => Busy(loads') = {} /\ Sampled(page') = {}
    BY <2>3, <2>5 DEF SamplesInv, Sampled
  <2>7. Sampled(page') # {} => page'.mode = "list" /\ ~page'.loading
    BY <2>3 DEF SamplesInv, Sampled
  <2> QED
    BY <2>4, <2>5, <2>6, <2>7 DEF ListOk, SamplesInv
<1>7. ASSUME NEW l \in Loads, LoadFails(l) PROVE ListOk
  <2>1. /\ loads[l].pc # "idle" /\ loads' = [loads EXCEPT ![l] = NoLoad]
        /\ page' = [page EXCEPT !.loading = FALSE, !.excused = TRUE]
    BY <1>7 DEF LoadFails
  <2>2. /\ page' \in Pages /\ page'.mode = page.mode /\ page'.target = page.target
        /\ page'.drop = page.drop /\ page'.views = page.views /\ ~page'.loading
        /\ page'.excused /\ Sampled(page') = Sampled(page)
    BY <1>1, <2>1 DEF Pages, Sampled
  <2>3. PageInv(page', meta, nextId) /\ SamplesInv(page', Busy(loads'))
    BY <2>2 DEF PageInv, SamplesInv
  <2> QED
    BY <1>5, <2>1, <2>3 DEF ListOk
<1> QED
  BY <1>3, <1>4, <1>6, <1>7 DEF List

LEMMA RowsSteps ==
  ASSUME LoadsInv, PageInv(page, meta, nextId), SamplesInv(page, Busy(loads)), Rows
  PROVE  ListOk
<1>1. /\ page \in Pages /\ UniqueIds(page.views) /\ (page.mode = "edit" => page.target # {})
      /\ \A d \in page.views \cup page.target \cup page.drop : Known(d, meta, nextId)
  BY DEF PageInv
<1>2. Sampled(page) # {} => page.mode = "list" /\ ~page.loading
  BY DEF SamplesInv
<1>3. ASSUME NEW v \in page.views, HandleLoadSample(v) PROVE ListOk
  <2> DEFINE new == [id |-> v.id, sql |-> v.sql]
  <2>1. /\ Mounted /\ UNCHANGED loads
        /\ page' = [page EXCEPT !.samples = {s \in @ : s.id # v.id}, !.sampling = @ \cup {new}]
    BY <1>3 DEF HandleLoadSample
  <2>2. new \in Samples
    BY <1>1 DEF Samples, Known, Definitions
  <2> HIDE DEF new
  <2>3. /\ page' \in Pages /\ page'.mode = page.mode /\ page'.target = page.target
        /\ page'.drop = page.drop /\ page'.views = page.views /\ page'.loading = page.loading
        /\ page'.excused = page.excused /\ page'.samples \subseteq page.samples
        /\ page'.sampling = page.sampling \cup {new}
    BY <1>1, <2>1, <2>2 DEF Pages
  <2>4. PageInv(page', meta, nextId)
    BY <1>1, <2>3 DEF PageInv
  <2>5. Sampled(page') \subseteq Sampled(page) \cup {[id |-> v.id, sql |-> v.sql]}
    BY <2>3 DEF Sampled, new
  <2> QED
    BY <2>1, <2>3, <2>4, <2>5, PageStep DEF Mounted
<1>4. ASSUME NEW v \in page.views, OpenEdit(v) PROVE ListOk
  <2>1. UNCHANGED loads /\ page' = [Bare(page) EXCEPT !.mode = "edit", !.target = {v}]
    BY <1>4 DEF OpenEdit
  <2>2. v \in Definitions /\ Known(v, meta, nextId)
    BY <1>1 DEF Known
  <2>3. Bare(page) \in Pages
    BY <1>1, BarePage
  <2>4. /\ page' \in Pages /\ page'.mode = "edit" /\ page'.target = {v}
        /\ page'.drop = Bare(page).drop /\ page'.views = Bare(page).views
        /\ page'.loading = Bare(page).loading /\ page'.excused = Bare(page).excused
        /\ page'.samples = Bare(page).samples /\ page'.sampling = Bare(page).sampling
    BY <2>1, <2>2, <2>3 DEF Pages
  <2>5. /\ page'.drop = page.drop /\ page'.views = page.views /\ page'.loading = page.loading
        /\ page'.excused = page.excused /\ Sampled(page') = {}
    BY <1>1, <2>4, BarePage DEF Sampled
  <2>6. PageInv(page', meta, nextId)
    BY <1>1, <2>2, <2>4, <2>5 DEF PageInv
  <2> QED
    BY <2>1, <2>5, <2>6, PageStep
<1>5. ASSUME NEW v \in page.views, AskDrop(v) PROVE ListOk
  <2>1. UNCHANGED loads /\ page' = [page EXCEPT !.drop = {v}]
    BY <1>5 DEF AskDrop
  <2>2. v \in Definitions /\ Known(v, meta, nextId)
    BY <1>1 DEF Known
  <2>3. /\ page' \in Pages /\ page'.mode = page.mode /\ page'.target = page.target
        /\ page'.drop = {v} /\ page'.views = page.views /\ page'.loading = page.loading
        /\ page'.excused = page.excused /\ Sampled(page') = Sampled(page)
    BY <1>1, <2>1, <2>2 DEF Pages, Sampled
  <2>4. PageInv(page', meta, nextId)
    BY <1>1, <2>2, <2>3 DEF PageInv
  <2> QED
    BY <1>2, <2>1, <2>3, <2>4, PageStep
<1>6. ASSUME page' \in Pages, UNCHANGED loads, Sampled(page') \subseteq Sampled(page),
             page'.mode = page.mode, page'.target = page.target, page'.drop = page.drop,
             page'.views = page.views, page'.loading = page.loading, page'.excused = page.excused
      PROVE  ListOk
  <2>1. PageInv(page', meta, nextId)
    BY <1>1, <1>6 DEF PageInv
  <2> QED
    BY <1>2, <1>6, <2>1, PageStep
<1>7. ASSUME NEW s \in page.sampling, SampleArrives(s) PROVE ListOk
  <2>1. UNCHANGED loads
        /\ page' = [page EXCEPT !.sampling = @ \ {s},
                                !.samples = IF s.sql \subseteq Existing THEN @ \cup {s} ELSE @]
    BY <1>7 DEF SampleArrives
  <2>2. s \in Samples
    BY <1>1 DEF Pages
  <2>3. /\ page' \in Pages /\ page'.mode = page.mode /\ page'.target = page.target
        /\ page'.drop = page.drop /\ page'.views = page.views /\ page'.loading = page.loading
        /\ page'.excused = page.excused /\ page'.samples \subseteq page.samples \cup {s}
        /\ page'.sampling \subseteq page.sampling
    BY <1>1, <2>1, <2>2 DEF Pages
  <2>4. Sampled(page') \subseteq Sampled(page)
    BY <2>3 DEF Sampled
  <2> QED
    BY <1>6, <2>1, <2>3, <2>4
<1>8. ASSUME NEW s \in page.samples, HandleToggle(s) PROVE ListOk
  <2>1. UNCHANGED loads /\ page' = [page EXCEPT !.samples = @ \ {s}]
    BY <1>8 DEF HandleToggle
  <2>2. /\ page' \in Pages /\ page'.mode = page.mode /\ page'.target = page.target
        /\ page'.drop = page.drop /\ page'.views = page.views /\ page'.loading = page.loading
        /\ page'.excused = page.excused /\ page'.samples \subseteq page.samples
        /\ page'.sampling = page.sampling
    BY <1>1, <2>1 DEF Pages
  <2>3. Sampled(page') \subseteq Sampled(page)
    BY <2>2 DEF Sampled
  <2> QED
    BY <1>6, <2>1, <2>2, <2>3
<1> QED
  BY <1>3, <1>4, <1>5, <1>7, <1>8 DEF Rows

LEMMA FormsSteps ==
  ASSUME LoadsInv, PageInv(page, meta, nextId), SamplesInv(page, Busy(loads)), Forms
  PROVE  ListOk
<1>1. /\ page \in Pages /\ UniqueIds(page.views) /\ (page.mode = "edit" => page.target # {})
      /\ \A d \in page.views \cup page.target \cup page.drop : Known(d, meta, nextId)
  BY DEF PageInv
<1>2. Sampled(page) # {} => page.mode = "list" /\ ~page.loading
  BY DEF SamplesInv
<1>3. ASSUME page' \in Pages, UNCHANGED loads, page'.samples \subseteq page.samples,
             page'.sampling \subseteq page.sampling, page'.views = page.views,
             page'.loading = page.loading, page.excused => page'.excused,
             page'.mode \in {"list", page.mode}, page'.mode = "edit" => page'.target # {},
             page'.target \subseteq page.target, page'.drop \subseteq page.drop
      PROVE  ListOk
  <2>1. PageInv(page', meta, nextId)
    BY <1>1, <1>3 DEF PageInv
  <2>2. Sampled(page') \subseteq Sampled(page)
    BY <1>3 DEF Sampled
  <2> QED
    BY <1>2, <1>3, <2>1, <2>2, PageStep
<1>4. CASE OpenCreate
  <2>1. UNCHANGED loads /\ page' = [Bare(page) EXCEPT !.mode = "create", !.target = {}]
    BY <1>4 DEF OpenCreate
  <2>2. Bare(page) \in Pages
    BY <1>1, BarePage
  <2>3. /\ page' \in Pages /\ page'.mode = "create" /\ page'.target = {}
        /\ page'.drop = Bare(page).drop /\ page'.views = Bare(page).views
        /\ page'.loading = Bare(page).loading /\ page'.excused = Bare(page).excused
        /\ page'.samples = Bare(page).samples /\ page'.sampling = Bare(page).sampling
    BY <2>1, <2>2 DEF Pages
  <2>4. /\ page'.drop = page.drop /\ page'.views = page.views /\ page'.loading = page.loading
        /\ page'.excused = page.excused /\ Sampled(page') = {}
    BY <1>1, <2>3, BarePage DEF Sampled
  <2>5. PageInv(page', meta, nextId)
    BY <1>1, <2>3, <2>4 DEF PageInv
  <2> QED
    BY <2>1, <2>4, <2>5, PageStep
<1>5. CASE Cancel
  <2>1. UNCHANGED loads /\ page' = [page EXCEPT !.mode = "list", !.target = {}, !.form = {}]
    BY <1>5 DEF Cancel
  <2>2. /\ page' \in Pages /\ page'.mode = "list" /\ page'.target = {}
        /\ page'.drop = page.drop /\ page'.views = page.views /\ page'.loading = page.loading
        /\ page'.excused = page.excused /\ page'.samples = page.samples
        /\ page'.sampling = page.sampling
    BY <1>1, <2>1 DEF Pages
  <2> QED
    BY <1>3, <2>1, <2>2
<1>6. CASE CancelDrop
  <2>1. UNCHANGED loads /\ page' = [page EXCEPT !.drop = {}]
    BY <1>6 DEF CancelDrop
  <2>2. /\ page' \in Pages /\ page'.mode = page.mode /\ page'.target = page.target
        /\ page'.drop = {} /\ page'.views = page.views /\ page'.loading = page.loading
        /\ page'.excused = page.excused /\ page'.samples = page.samples
        /\ page'.sampling = page.sampling
    BY <1>1, <2>1 DEF Pages
  <2> QED
    BY <1>1, <1>3, <2>1, <2>2
<1>7. ASSUME UNCHANGED loads, NEW form \in SUBSET Slots,
             NEW dropping \in SUBSET Slots, NEW excused \in BOOLEAN, page.excused => excused,
             page' = [page EXCEPT !.form = form, !.dropping = dropping, !.excused = excused]
      PROVE  ListOk
  <2>1. /\ page' \in Pages /\ page'.mode = page.mode /\ page'.target = page.target
        /\ page'.drop = page.drop /\ page'.views = page.views /\ page'.loading = page.loading
        /\ page'.excused = excused /\ page'.samples = page.samples
        /\ page'.sampling = page.sampling
    BY <1>1, <1>7 DEF Pages
  <2> QED
    BY <1>1, <1>3, <1>7, <2>1
<1>8. /\ page.form \in SUBSET Slots /\ page.dropping \in SUBSET Slots /\ page.excused \in BOOLEAN
      /\ page = [page EXCEPT !.form = page.form, !.dropping = page.dropping,
                             !.excused = page.excused]
  BY <1>1 DEF Pages
<1>9. ASSUME NEW c \in Slots, NEW n \in ViewNames, NEW sql \in Queries, HandleSave(c, n, sql)
      PROVE  ListOk
  <2>1. UNCHANGED loads /\ page' = [page EXCEPT !.form = {c}]
    BY <1>9 DEF HandleSave
  <2>2. page' = [page EXCEPT !.form = {c}, !.dropping = page.dropping, !.excused = page.excused]
    BY <1>1, <2>1 DEF Pages
  <2>3. {c} \in SUBSET Slots
    OBVIOUS
  <2> QED
    BY <1>7, <1>8, <2>1, <2>2, <2>3
<1>10. ASSUME NEW c \in Slots, HandleDrop(c) PROVE ListOk
  <2>1. UNCHANGED loads /\ page' = [page EXCEPT !.dropping = {c}]
    BY <1>10 DEF HandleDrop
  <2>2. page' = [page EXCEPT !.form = page.form, !.dropping = {c}, !.excused = page.excused]
    BY <1>1, <2>1 DEF Pages
  <2>3. {c} \in SUBSET Slots
    OBVIOUS
  <2> QED
    BY <1>7, <1>8, <2>1, <2>2, <2>3
<1>11. ASSUME NEW c \in Slots, Fails(c) PROVE ListOk
  <2>1. UNCHANGED loads
    BY <1>11 DEF Fails
  <2>2. CASE page' = [page EXCEPT !.form = @ \ {c}, !.dropping = @ \ {c}]
    <3>1. page' = [page EXCEPT !.form = page.form \ {c}, !.dropping = page.dropping \ {c},
                               !.excused = page.excused]
      BY <1>1, <2>2 DEF Pages
    <3> QED
      BY <1>7, <1>8, <2>1, <3>1
  <2>3. CASE page' = [page EXCEPT !.form = @ \ {c}, !.dropping = @ \ {c}, !.excused = TRUE]
    <3>1. page' = [page EXCEPT !.form = page.form \ {c}, !.dropping = page.dropping \ {c},
                               !.excused = TRUE]
      BY <2>3
    <3> QED
      BY <1>7, <1>8, <2>1, <3>1
  <2> QED
    BY <1>11, <2>2, <2>3 DEF Fails
<1>12. ASSUME NEW c \in Slots, Succeeds(c) PROVE ListOk
  <2> DEFINE next == CASE calls[c].kind = "drop"   -> [page EXCEPT !.drop = {}, !.dropping = {}]
                       [] calls[c].kind = "create" -> [page EXCEPT !.mode = "list", !.form = {}]
                       [] OTHER -> [page EXCEPT !.mode = "list", !.form = {}, !.target = {}]
  <2>1. /\ next \in Pages /\ next.views = page.views /\ (next.mode = "edit" => next.target # {})
        /\ next.target \subseteq page.target /\ next.drop \subseteq page.drop
    <3>1. CASE calls[c].kind = "drop"
      BY <1>1, <3>1 DEF Pages
    <3>2. CASE calls[c].kind = "create"
      BY <1>1, <3>2 DEF Pages
    <3>3. CASE calls[c].kind \notin {"drop", "create"}
      BY <1>1, <3>3 DEF Pages
    <3> QED
      BY <3>1, <3>2, <3>3
  <2>2. PICK p \in Pages : p = next
    BY <2>1
  <2>3. (\E l \in Loads : loads[l].pc = "idle" /\ loads' = [loads EXCEPT ![l].pc = "sent"])
        /\ page' = Loading(next)
    BY <1>12 DEF Succeeds, Answered, Load
  <2> HIDE DEF next
  <2>4. Load(p)
    BY <2>2, <2>3 DEF Load, Loading, Bare
  <2> QED
    BY <2>1, <2>2, <2>4, LoadStep DEF ListOk
<1> QED
  BY <1>4, <1>5, <1>6, <1>9, <1>10, <1>11, <1>12 DEF Forms

\* What the page holds stays known, whoever writes.
LEMMA ListLater ==
  ASSUME RowsInv, RowsInv', Later(meta, nextId, meta', nextId'), ListOk
  PROVE  LoadsInv' /\ PageInv(page, meta, nextId)' /\ SamplesInv(page, Busy(loads))'
<1>1. RowsOk(meta, nextId) /\ RowsOk(meta', nextId')
  BY DEF RowsInv, RowsOk
<1>9. \A d : Known(d, meta, nextId) => Known(d, meta', nextId')
  BY <1>1, KnownLater
<1>2. \A l \in Loads : LoadInv(loads'[l], meta', nextId')
  <2> TAKE l \in Loads
  <2>1. UniqueIds(loads'[l].views) /\ \A d \in loads'[l].views : Known(d, meta, nextId)
    BY DEF ListOk, LoadInv
  <2>2. \A d \in loads'[l].views : Known(d, meta', nextId')
    BY <1>9, <2>1
  <2> QED
    BY <2>1, <2>2 DEF LoadInv
<1>3. PageInv(page', meta', nextId')
  <2>1. /\ page' \in Pages /\ (page'.mode = "edit" => page'.target # {}) /\ UniqueIds(page'.views)
        /\ \A d \in page'.views \cup page'.target \cup page'.drop : Known(d, meta, nextId)
    BY DEF ListOk, PageInv
  <2>2. \A d \in page'.views \cup page'.target \cup page'.drop : Known(d, meta', nextId')
    BY <1>9, <2>1
  <2> QED
    BY <2>1, <2>2 DEF PageInv
<1>4. SamplesInv(page', Busy(loads'))
  BY DEF ListOk
<1>5. SamplesInv(page, Busy(loads))'
  BY <1>4 DEF Busy
<1> QED
  BY <1>2, <1>3, <1>5 DEF ListOk, LoadsInv

LEMMA ListNext ==
  ASSUME RowsInv, RowsInv', Later(meta, nextId, meta', nextId'), LoadsInv,
         PageInv(page, meta, nextId), SamplesInv(page, Busy(loads)), [ViewsNext]_viewsVars
  PROVE  LoadsInv' /\ PageInv(page, meta, nextId)' /\ SamplesInv(page, Busy(loads))'
<1>1. CASE UNCHANGED client
  <2>1. page' = page /\ loads' = loads
    BY <1>1 DEF client
  <2>2. ListOk
    BY <2>1 DEF ListOk, LoadsInv
  <2> QED
    BY <2>2, ListLater
<1>2. CASE (\E c \in Slots : Method(c)) \/ Crash \/ Migrate \/ UNCHANGED viewsVars
  BY <1>1, <1>2, MethodKeepsPage DEF viewsVars
<1>3. CASE List \/ Rows \/ Forms
  BY <1>3, ListSteps, RowsSteps, FormsSteps, ListLater
<1> QED
  BY <1>2, <1>3 DEF ViewsNext

-----------------------------------------------------------------------------
(* Views: the two halves                                                   *)

HalvesInv == TrackedAreLive /\ AloneInv /\ ListedInv

\* The requests that are between their two writes.
Halfway(n) == \E c \in Slots : calls[c].pc = "write" /\ calls[c].name = {n}

LEMMA TrackedHalfway ==
  TrackedAreLive <=> \A n \in ViewNames \ drifted : ~Halfway(n) => live[n] = SqlOf(n, meta)
BY DEF TrackedAreLive, Halfway, At, Tracked

LEMMA TrackedLater ==
  ASSUME \A n \in ViewNames \ drifted' :
           (\A c \in Slots : calls'[c].pc = "write" => calls'[c].name # {n})
             => live'[n] = SqlOf(n, meta')
  PROVE  TrackedAreLive'
BY DEF TrackedAreLive, At, Tracked, SqlOf

LEMMA ListedLater ==
  ASSUME migrating'.on => \A n \in ViewNames \ drifted' :
           SqlOf(n, meta') = SqlOf(n, migrating'.listed)
  PROVE  ListedInv'
BY DEF ListedInv, Tracked, SqlOf

LEMMA AloneParts ==
  ASSUME AloneInv, NEW c \in Slots, calls[c].pc # "idle", calls[c].alone
  PROVE  /\ ~migrating.on
         /\ \A d \in Slots : d # c /\ calls[d].pc # "idle" => calls[d].name # calls[c].name
         /\ calls[c].pc = "write" => \A n \in calls[c].name : live[n] = calls[c].sql
BY DEF AloneInv, Alone

LEMMA AloneLater ==
  ASSUME \A c \in Slots : calls'[c].pc # "idle" /\ calls'[c].alone =>
           /\ ~migrating'.on
           /\ \A d \in Slots : d # c /\ calls'[d].pc # "idle" => calls'[d].name # calls'[c].name
           /\ calls'[c].pc = "write" => \A n \in calls'[c].name : live'[n] = calls'[c].sql
  PROVE  AloneInv'
BY DEF AloneInv, Alone

\* A step of one request that writes nothing.
LEMMA HalvesKept ==
  ASSUME HalvesInv, UNCHANGED <<live, meta, migrating, drifted>>,
         \A c \in Slots : calls'[c].pc = "write" <=> calls[c].pc = "write",
         \A c \in Slots : calls[c].pc = "write" => calls'[c].name = calls[c].name,
         AloneInv'
  PROVE  HalvesInv'
<1>1. \A n \in ViewNames \ drifted : ~Halfway(n) => live[n] = SqlOf(n, meta)
  BY TrackedHalfway DEF HalvesInv
<1>2. TrackedAreLive'
  BY <1>1, TrackedLater DEF Halfway
<1>3. ListedInv'
  BY ListedLater DEF HalvesInv, ListedInv, Tracked
<1> QED
  BY <1>2, <1>3 DEF HalvesInv

LEMMA HalvesSame ==
  ASSUME HalvesInv, UNCHANGED <<live, meta, migrating, drifted, calls>> PROVE HalvesInv'
<1>1. AloneInv'
  BY AloneParts, AloneLater DEF HalvesInv
<1> QED
  BY <1>1, HalvesKept

\* A request goes on without a write.
LEMMA HalvesBecome ==
  ASSUME CallsInv, HalvesInv, NEW c \in Slots, calls[c].pc \notin {"idle", "write"},
         NEW pc \in {"find", "ddl", "ok", "failed"}, Becomes(c, pc),
         UNCHANGED <<live, meta, migrating, drifted>>
  PROVE  HalvesInv'
<1>1. /\ SameCall(calls[c], calls'[c]) /\ calls'[c].pc = pc /\ calls'[c].alone = calls[c].alone
      /\ \A d \in Slots : d # c => calls'[d] = calls[d]
  BY BecomesEffect
<1>2. \A d \in Slots : /\ calls'[d].name = calls[d].name /\ calls'[d].alone = calls[d].alone
                       /\ calls'[d].sql = calls[d].sql
                       /\ calls'[d].pc # "idle" <=> calls[d].pc # "idle"
                       /\ calls'[d].pc = "write" <=> calls[d].pc = "write"
  BY <1>1 DEF SameCall
<1>3. AloneInv'
  BY <1>2, AloneParts, AloneLater DEF HalvesInv
<1> QED
  BY <1>2, <1>3, HalvesKept

\* The first of the two writes.
LEMMA HalvesMade ==
  ASSUME RowsInv, CallsInv, HalvesInv, NEW c \in Slots, ReplaceView(c) \/ DropView(c)
  PROVE  HalvesInv'
<1>1. calls[c].pc = "ddl" /\ UNCHANGED <<columns, meta, nextId, migrating, drifted>>
  BY ViewMade DEF At
<1>2. CASE UNCHANGED live /\ Becomes(c, "failed")
  BY <1>1, <1>2, HalvesBecome
<1>3. ASSUME Becomes(c, "write"), NEW n \in ViewNames, calls[c].name = {n},
             live'[n] = calls[c].sql, \A o \in ViewNames : o # n => live'[o] = live[o]
      PROVE  HalvesInv'
  <2>1. /\ SameCall(calls[c], calls'[c]) /\ calls'[c].pc = "write"
        /\ calls'[c].alone = calls[c].alone
        /\ \A d \in Slots : d # c => calls'[d] = calls[d]
    BY <1>3, BecomesEffect
  <2>2. calls'[c].name = {n} /\ calls'[c].sql = calls[c].sql
    BY <1>3, <2>1 DEF SameCall
  <2>3. TrackedAreLive'
    <3>1. \A o \in ViewNames \ drifted : ~Halfway(o) => live[o] = SqlOf(o, meta)
      BY TrackedHalfway DEF HalvesInv
    <3>2. ASSUME NEW o \in ViewNames \ drifted',
                 \A d \in Slots : calls'[d].pc = "write" => calls'[d].name # {o}
          PROVE  live'[o] = SqlOf(o, meta')
      <4>1. o # n
        BY <2>1, <2>2, <3>2
      <4>2. ~Halfway(o)
        BY <1>1, <2>1, <3>2 DEF Halfway
      <4> QED
        BY <1>1, <1>3, <3>1, <3>2, <4>1, <4>2
    <3> QED
      BY <3>2, TrackedLater
  <2>4. AloneInv'
    <3> SUFFICES ASSUME NEW e \in Slots, calls'[e].pc # "idle", calls'[e].alone
                 PROVE  /\ ~migrating'.on
                        /\ \A d \in Slots : d # e /\ calls'[d].pc # "idle"
                                              => calls'[d].name # calls'[e].name
                        /\ calls'[e].pc = "write" => \A o \in calls'[e].name : live'[o] = calls'[e].sql
      BY AloneLater
    <3>1. calls[e].pc # "idle" /\ calls[e].alone
      BY <1>1, <2>1
    <3>2. /\ ~migrating.on
          /\ \A d \in Slots : d # e /\ calls[d].pc # "idle" => calls[d].name # calls[e].name
          /\ calls[e].pc = "write" => \A o \in calls[e].name : live[o] = calls[e].sql
      BY <3>1, AloneParts DEF HalvesInv
    <3>3. \A d \in Slots : calls'[d].name = calls[d].name
                           /\ (calls'[d].pc # "idle" <=> calls[d].pc # "idle")
      BY <1>1, <1>3, <2>1, <2>2
    <3>4. calls'[e].pc = "write" => \A o \in calls'[e].name : live'[o] = calls'[e].sql
      <4>1. CASE e = c
        BY <1>3, <2>2, <4>1
      <4>2. CASE e # c
        <5>1. calls[e].name # {n} /\ calls'[e] = calls[e]
          BY <1>1, <1>3, <2>1, <3>2, <4>2
        <5>2. \E m \in ViewNames : calls[e].name = {m}
          BY <3>1, CallParts DEF CallInv
        <5> QED
          BY <1>3, <3>2, <5>1, <5>2
      <4> QED
        BY <4>1, <4>2
    <3> QED
      BY <1>1, <3>2, <3>3, <3>4
  <2>5. ListedInv'
    BY <1>1, ListedLater DEF HalvesInv, ListedInv, Tracked
  <2> QED
    BY <2>3, <2>4, <2>5 DEF HalvesInv
<1> QED
  BY <1>2, <1>3, ViewMade

\* The second write fails, or finds no row.
LEMMA HalvesUnwritten ==
  ASSUME CallsInv, HalvesInv, NEW c \in Slots, calls[c].pc = "write", Becomes(c, "failed"),
         MarkDrifted(c), UNCHANGED <<live, meta, migrating>>
  PROVE  HalvesInv'
<1>1. /\ SameCall(calls[c], calls'[c]) /\ calls'[c].pc = "failed"
      /\ calls'[c].alone = calls[c].alone
      /\ \A d \in Slots : d # c => calls'[d] = calls[d]
  BY BecomesEffect
<1>2. drifted' = drifted \cup calls[c].name
  BY DEF MarkDrifted
<1>3. TrackedAreLive'
  <2>1. \A o \in ViewNames \ drifted : ~Halfway(o) => live[o] = SqlOf(o, meta)
    BY TrackedHalfway DEF HalvesInv
  <2>2. ASSUME NEW o \in ViewNames \ drifted',
               \A d \in Slots : calls'[d].pc = "write" => calls'[d].name # {o}
        PROVE  live'[o] = SqlOf(o, meta')
    <3>1. o \notin drifted /\ ~Halfway(o)
      BY <1>1, <1>2, <2>2 DEF Halfway
    <3> QED
      BY <2>1, <2>2, <3>1
  <2> QED
    BY <2>2, TrackedLater
<1>4. AloneInv'
  <2>1. \A d \in Slots : /\ calls'[d].name = calls[d].name /\ calls'[d].alone = calls[d].alone
                         /\ calls'[d].sql = calls[d].sql
                         /\ (calls'[d].pc # "idle" <=> calls[d].pc # "idle")
                         /\ (calls'[d].pc = "write" => calls[d].pc = "write")
    BY <1>1 DEF SameCall
  <2> QED
    BY <2>1, AloneParts, AloneLater DEF HalvesInv
<1>5. ListedInv'
  BY <1>2, ListedLater DEF HalvesInv, ListedInv, Tracked
<1> QED
  BY <1>3, <1>4, <1>5 DEF HalvesInv

\* The second write: a request that was alone leaves a view and a row that agree;
\* one that was not is what the history names.
LEMMA HalvesWritten ==
  ASSUME RowsInv, CallsInv, HalvesInv, NEW c \in Slots,
         Upsert(c) \/ UpdateRow(c) \/ DeleteRow(c)
  PROVE  HalvesInv'
<1>1. calls[c].pc = "write" /\ UNCHANGED <<live, migrating>>
  BY RowWritten DEF At
<1>2. CASE UNCHANGED meta /\ Becomes(c, "failed") /\ MarkDrifted(c)
  BY <1>1, <1>2, HalvesUnwritten
<1>3. ASSUME Becomes(c, "ok"), Settle(c), NEW n \in ViewNames, calls[c].name = {n},
             SqlOf(n, meta') = calls[c].sql,
             \A o \in ViewNames : o # n => SqlOf(o, meta') = SqlOf(o, meta)
      PROVE  HalvesInv'
  <2>1. /\ SameCall(calls[c], calls'[c]) /\ calls'[c].pc = "ok"
        /\ calls'[c].alone = calls[c].alone
        /\ \A d \in Slots : d # c => calls'[d] = calls[d]
    BY <1>3, BecomesEffect
  <2>2. drifted' = IF calls[c].alone THEN drifted \ {n} ELSE drifted \cup {n}
    BY <1>3 DEF Settle
  <2>3. calls[c].alone => ~migrating.on /\ live[n] = calls[c].sql
    BY <1>1, <1>3, AloneParts DEF HalvesInv
  <2>4. TrackedAreLive'
    <3>1. \A o \in ViewNames \ drifted : ~Halfway(o) => live[o] = SqlOf(o, meta)
      BY TrackedHalfway DEF HalvesInv
    <3>2. ASSUME NEW o \in ViewNames \ drifted',
                 \A d \in Slots : calls'[d].pc = "write" => calls'[d].name # {o}
          PROVE  live'[o] = SqlOf(o, meta')
      <4>1. CASE o = n
        BY <1>1, <1>3, <2>2, <2>3, <3>2, <4>1
      <4>2. CASE o # n
        <5>1. o \notin drifted /\ ~Halfway(o)
          BY <1>3, <2>1, <2>2, <3>2, <4>2 DEF Halfway
        <5> QED
          BY <1>1, <1>3, <3>1, <3>2, <4>2, <5>1
      <4> QED
        BY <4>1, <4>2
    <3> QED
      BY <3>2, TrackedLater
  <2>5. AloneInv'
    <3>1. \A d \in Slots : /\ calls'[d].name = calls[d].name /\ calls'[d].alone = calls[d].alone
                           /\ calls'[d].sql = calls[d].sql
                           /\ (calls'[d].pc # "idle" <=> calls[d].pc # "idle")
                           /\ (calls'[d].pc = "write" => calls[d].pc = "write")
      BY <1>1, <2>1 DEF SameCall
    <3> QED
      BY <1>1, <3>1, AloneParts, AloneLater DEF HalvesInv
  <2>6. ListedInv'
    <3>1. ASSUME migrating'.on, NEW o \in ViewNames \ drifted'
          PROVE  SqlOf(o, meta') = SqlOf(o, migrating'.listed)
      <4>1. o # n /\ o \notin drifted
        BY <1>1, <2>2, <2>3, <3>1
      <4>2. SqlOf(o, meta) = SqlOf(o, migrating.listed)
        BY <1>1, <3>1, <4>1 DEF HalvesInv, ListedInv, Tracked
      <4>3. SqlOf(o, meta') = SqlOf(o, meta) /\ migrating' = migrating
        BY <1>1, <1>3, <3>1, <4>1
      <4> QED
        BY <4>2, <4>3
    <3> QED
      BY <3>1, ListedLater
  <2> QED
    BY <2>4, <2>5, <2>6 DEF HalvesInv
<1> QED
  BY <1>2, <1>3, RowWritten

\* A crash names every view whose request was between its two writes.
LEMMA HalvesCrash ==
  ASSUME CallsInv, HalvesInv, Crash PROVE HalvesInv'
<1> DEFINE Stopped(c) == IF calls[c].pc \in {"find", "ddl", "write"}
                         THEN [calls[c] EXCEPT !.pc = "failed"] ELSE calls[c]
<1>1. /\ drifted' = drifted \cup UNION {calls[c].name : c \in {d \in Slots : At(d, "write")}}
      /\ calls' = [c \in Slots |-> Stopped(c)] /\ migrating' = NotMigrating
      /\ UNCHANGED <<live, meta>>
  BY DEF Crash, database
<1>2. ASSUME NEW c \in Slots
      PROVE  /\ calls'[c].name = calls[c].name /\ calls'[c].alone = calls[c].alone
             /\ calls'[c].pc # "idle" <=> calls[c].pc # "idle"
             /\ calls'[c].pc # "write"
  <2>1. calls[c] \in CallStates
    BY CallParts
  <2>2. Stopped(c).name = calls[c].name /\ Stopped(c).alone = calls[c].alone
        /\ (Stopped(c).pc # "idle" <=> calls[c].pc # "idle") /\ Stopped(c).pc # "write"
    BY <2>1 DEF CallStates
  <2> QED
    BY <1>1, <2>2
<1>3. ~migrating'.on
  BY <1>1 DEF NotMigrating
<1>4. TrackedAreLive'
  <2>1. \A o \in ViewNames \ drifted : ~Halfway(o) => live[o] = SqlOf(o, meta)
    BY TrackedHalfway DEF HalvesInv
  <2>2. ASSUME NEW o \in ViewNames \ drifted' PROVE live'[o] = SqlOf(o, meta')
    <3>1. o \notin drifted /\ ~Halfway(o)
      BY <1>1, <2>2 DEF Halfway, At
    <3> QED
      BY <1>1, <2>1, <2>2, <3>1
  <2> QED
    BY <2>2, TrackedLater
<1>5. AloneInv'
  BY <1>2, <1>3, AloneParts, AloneLater DEF HalvesInv
<1>6. ListedInv'
  BY <1>3, ListedLater
<1> QED
  BY <1>4, <1>5, <1>6 DEF HalvesInv

\* A migration lists what the table says, and from then on nobody is alone.
LEMMA HalvesListed ==
  ASSUME CallsInv, HalvesInv, NEW kind, NEW x, ListViews(kind, x) PROVE HalvesInv'
<1> DEFINE Beside(c) == [calls[c] EXCEPT !.alone = FALSE]
<1>1. /\ migrating'.on /\ migrating'.listed = meta /\ calls' = [c \in Slots |-> Beside(c)]
      /\ UNCHANGED <<live, meta, drifted>>
  BY DEF ListViews, database
<1>2. ASSUME NEW c \in Slots
      PROVE  calls'[c].name = calls[c].name /\ ~calls'[c].alone /\ calls'[c].pc = calls[c].pc
  <2>1. calls[c] \in CallStates
    BY CallParts
  <2>2. Beside(c).name = calls[c].name /\ ~Beside(c).alone /\ Beside(c).pc = calls[c].pc
    BY <2>1 DEF CallStates
  <2> QED
    BY <1>1, <2>2
<1>3. TrackedAreLive'
  <2>1. \A o \in ViewNames \ drifted : ~Halfway(o) => live[o] = SqlOf(o, meta)
    BY TrackedHalfway DEF HalvesInv
  <2> QED
    BY <1>1, <1>2, <2>1, TrackedLater DEF Halfway
<1>4. AloneInv'
  BY <1>2, AloneLater
<1>5. ListedInv'
  BY <1>1, ListedLater
<1> QED
  BY <1>3, <1>4, <1>5 DEF HalvesInv

\* A migration that commits makes the views of its list, which the table still
\* says of every view that has not drifted.
LEMMA HalvesCommitted ==
  ASSUME RowsInv, CallsInv, MigratingInv, HalvesInv, CommitMigration PROVE HalvesInv'
<1>1. /\ migrating.on /\ live' = [n \in ViewNames |-> Recreated(n)]
      /\ migrating' = NotMigrating /\ UNCHANGED <<meta, calls, drifted>>
  BY DEF CommitMigration
<1>2. ~migrating'.on
  BY <1>1 DEF NotMigrating
<1>3. TrackedAreLive'
  <2>1. \A o \in ViewNames \ drifted : ~Halfway(o) => live[o] = SqlOf(o, meta)
    BY TrackedHalfway DEF HalvesInv
  <2>2. ASSUME NEW o \in ViewNames \ drifted', ~Halfway(o)
        PROVE  live'[o] = SqlOf(o, meta')
    <3>1. live[o] = SqlOf(o, meta) /\ live'[o] = Recreated(o) /\ meta' = meta
      BY <1>1, <2>1, <2>2
    <3>2. SqlOf(o, meta) = SqlOf(o, migrating.listed)
      BY <1>1, <2>2 DEF HalvesInv, ListedInv, Tracked
    <3>3. UniqueNames(migrating.listed)
      BY DEF MigratingInv
    <3>4. CASE \E m \in migrating.listed : m.name = o
      BY <3>1, <3>2, <3>4 DEF Recreated
    <3>5. CASE ~\E m \in migrating.listed : m.name = o
      <4>1. SqlOf(o, migrating.listed) = {}
        BY <3>3, <3>5, SqlOfRows
      <4> QED
        BY <3>1, <3>2, <3>5, <4>1 DEF Recreated
    <3> QED
      BY <3>4, <3>5
  <2> QED
    BY <1>1, <2>2, TrackedLater DEF Halfway
<1>4. AloneInv'
  BY <1>1, AloneParts, AloneLater DEF HalvesInv
<1>5. ListedInv'
  BY <1>2, ListedLater
<1> QED
  BY <1>3, <1>4, <1>5 DEF HalvesInv

LEMMA HalvesRolledBack ==
  ASSUME HalvesInv, Rollback PROVE HalvesInv'
<1>1. migrating.on /\ migrating' = NotMigrating /\ UNCHANGED <<live, meta, calls, drifted>>
  BY DEF Rollback, database
<1>2. ~migrating'.on
  BY <1>1 DEF NotMigrating
<1>3. TrackedAreLive'
  <2>1. \A o \in ViewNames \ drifted : ~Halfway(o) => live[o] = SqlOf(o, meta)
    BY TrackedHalfway DEF HalvesInv
  <2> QED
    BY <1>1, <2>1, TrackedLater DEF Halfway
<1>4. AloneInv'
  BY <1>1, AloneParts, AloneLater DEF HalvesInv
<1>5. ListedInv'
  BY <1>2, ListedLater
<1> QED
  BY <1>3, <1>4, <1>5 DEF HalvesInv

\* A request that is new is alone, or takes it from those that were.
LEMMA HalvesEnter ==
  ASSUME CallsInv, HalvesInv, UNCHANGED <<database, migrating, drifted>>,
         NEW c \in Slots, NEW kind \in {"create", "update", "drop"},
         NEW id \in Nat, NEW n \in ViewNames, NEW sql \in Queries \cup {{}},
         Enter(c, kind, id, n, sql)
  PROVE  HalvesInv'
<1>1. /\ calls[c].pc = "idle" /\ calls'[c].pc \in {"ddl", "find"} /\ calls'[c].name = {n}
      /\ calls'[c].alone => Rivals(n) = {} /\ ~migrating.on
      /\ \A d \in Slots : d # c =>
           /\ SameCall(calls[d], calls'[d]) /\ calls'[d].pc = calls[d].pc
           /\ d \in Rivals(n) => ~calls'[d].alone
  BY EnterEffect
<1>2. UNCHANGED <<live, meta, migrating, drifted>>
  BY DEF database
<1>3. \A d \in Slots : d # c => /\ calls'[d].name = calls[d].name /\ calls'[d].sql = calls[d].sql
                                /\ calls'[d].alone => calls[d].alone
  BY <1>1 DEF SameCall
<1>4. AloneInv'
  <2> SUFFICES ASSUME NEW e \in Slots, calls'[e].pc # "idle", calls'[e].alone
               PROVE  /\ ~migrating'.on
                      /\ \A d \in Slots : d # e /\ calls'[d].pc # "idle"
                                            => calls'[d].name # calls'[e].name
                      /\ calls'[e].pc = "write" => \A o \in calls'[e].name : live'[o] = calls'[e].sql
    BY AloneLater
  <2>1. CASE e = c
    <3>1. Rivals(n) = {} /\ ~migrating.on
      BY <1>1, <2>1
    <3>2. \A d \in Slots : calls[d].pc # "idle" => calls[d].name # {n}
      BY <3>1 DEF Rivals
    <3> QED
      BY <1>1, <1>2, <1>3, <2>1, <3>1, <3>2
  <2>2. CASE e # c
    <3>1. calls[e].pc # "idle" /\ calls[e].alone /\ e \notin Rivals(n)
      BY <1>1, <1>3, <2>2
    <3>2. calls[e].name # {n}
      BY <3>1 DEF Rivals
    <3>3. /\ ~migrating.on
          /\ \A d \in Slots : d # e /\ calls[d].pc # "idle" => calls[d].name # calls[e].name
          /\ calls[e].pc = "write" => \A o \in calls[e].name : live[o] = calls[e].sql
      BY <3>1, AloneParts DEF HalvesInv
    <3> QED
      BY <1>1, <1>2, <1>3, <2>2, <3>2, <3>3
  <2> QED
    BY <2>1, <2>2
<1>5. \A d \in Slots : /\ calls'[d].pc = "write" <=> calls[d].pc = "write"
                       /\ calls[d].pc = "write" => calls'[d].name = calls[d].name
  BY <1>1, <1>3
<1> QED
  BY <1>2, <1>4, <1>5, HalvesKept

\* A request that has its answer is gone.
LEMMA HalvesLeave ==
  ASSUME CallsInv, HalvesInv, UNCHANGED <<database, migrating, drifted>>,
         NEW c \in Slots, calls[c].pc # "write", Leave(c)
  PROVE  HalvesInv'
<1>1. calls'[c].pc = "idle" /\ \A d \in Slots : d # c => calls'[d] = calls[d]
  BY LeaveEffect
<1>2. UNCHANGED <<live, meta, migrating, drifted>>
  BY DEF database
<1>3. \A d \in Slots : /\ calls'[d].pc = "write" <=> calls[d].pc = "write"
                       /\ calls[d].pc = "write" => calls'[d].name = calls[d].name
                       /\ calls'[d].pc # "idle" => calls'[d] = calls[d]
  BY <1>1
<1>4. AloneInv'
  BY <1>2, <1>3, AloneParts, AloneLater DEF HalvesInv
<1> QED
  BY <1>2, <1>3, <1>4, HalvesKept

LEMMA HalvesNext ==
  ASSUME RowsInv, CallsInv, MigratingInv, PageInv(page, meta, nextId), HalvesInv,
         [ViewsNext]_viewsVars
  PROVE  HalvesInv'
<1>1. ASSUME NEW c \in Slots, Method(c) PROVE HalvesInv'
  <2>1. CASE Refuse(c) \/ FindUnique(c)
    <3>1. /\ calls[c].pc \notin {"idle", "write"} /\ UNCHANGED <<live, meta, migrating, drifted>>
          /\ \E pc \in {"find", "ddl", "ok", "failed"} : Becomes(c, pc)
      BY <2>1 DEF Refuse, FindUnique, At, database
    <3>2. PICK pc \in {"find", "ddl", "ok", "failed"} : Becomes(c, pc)
      BY <3>1
    <3> QED
      BY <3>1, <3>2, HalvesBecome
  <2>2. CASE WriteFails(c)
    BY <2>2, HalvesUnwritten DEF WriteFails, At, database
  <2> QED
    BY <1>1, <2>1, <2>2, HalvesMade, HalvesWritten DEF Method
<1>2. CASE Migrate
  BY <1>2, HalvesListed, HalvesCommitted, HalvesRolledBack DEF Migrate
<1>3. CASE List \/ Rows \/ UNCHANGED viewsVars
  <2>1. UNCHANGED <<live, meta, migrating, drifted, calls>>
    BY <1>3, PageKeepsServer DEF server, database, viewsVars
  <2> QED
    BY <2>1, HalvesSame
<1>4. CASE Forms
  <2>1. UNCHANGED <<database, migrating, drifted>>
    BY <1>4, FormsKeepDatabase
  <2>2. CASE OpenCreate \/ Cancel \/ CancelDrop
    <3>1. UNCHANGED <<live, meta, migrating, drifted, calls>>
      BY <2>2 DEF OpenCreate, Cancel, CancelDrop, server, database
    <3> QED
      BY <3>1, HalvesSame
  <2>3. ASSUME NEW c \in Slots, NEW n \in ViewNames, NEW sql \in Queries, HandleSave(c, n, sql)
        PROVE  HalvesInv'
    <3>1. CASE page.mode = "create"
      <4>1. Enter(c, "create", 0, n, sql)
        BY <2>3, <3>1 DEF HandleSave
      <4> QED
        BY <2>1, <4>1, HalvesEnter
    <3>2. CASE page.mode # "create"
      <4>1. PICK v \in page.target : v.name = n /\ Enter(c, "update", v.id, n, sql)
        BY <2>3, <3>2 DEF HandleSave
      <4>2. Known(v, meta, nextId)
        BY <4>1 DEF PageInv
      <4>3. v.id \in Nat
        BY <4>2 DEF Known, Definitions
      <4> QED
        BY <2>1, <4>1, <4>3, HalvesEnter
    <3> QED
      BY <3>1, <3>2
  <2>4. ASSUME NEW c \in Slots, HandleDrop(c) PROVE HalvesInv'
    <3>1. PICK v \in page.drop : Enter(c, "drop", v.id, v.name, {})
      BY <2>4 DEF HandleDrop
    <3>2. Known(v, meta, nextId)
      BY <3>1 DEF PageInv
    <3>3. v.id \in Nat /\ v.name \in ViewNames
      BY <3>2 DEF Known, Definitions
    <3> QED
      BY <2>1, <3>1, <3>3, HalvesEnter
  <2>5. ASSUME NEW c \in Slots, Succeeds(c) \/ Fails(c) PROVE HalvesInv'
    <3>1. Leave(c) /\ calls[c].pc # "write"
      BY <2>5 DEF Succeeds, Fails, At
    <3> QED
      BY <2>1, <3>1, HalvesLeave
  <2> QED
    BY <1>4, <2>2, <2>3, <2>4, <2>5 DEF Forms
<1> QED
  BY <1>1, <1>2, <1>3, <1>4, HalvesCrash DEF ViewsNext

-----------------------------------------------------------------------------
(* Views: the theorems                                                     *)

LEMMA ViewsInitInv == ViewsInit => ViewsInv
<1> SUFFICES ASSUME ViewsInit PROVE ViewsInv
  OBVIOUS
<1> DEFINE Created(T, q, i) ==
             /\ \A m, n \in T : m # n => i[m] # i[n]
             /\ meta = {[id |-> i[n], name |-> n, sql |-> q[n]] : n \in T}
             /\ live = [n \in ViewNames |-> IF n \in T THEN q[n] ELSE {}]
             /\ nextId = Cardinality(T) + 1
<1>0. PICK S \in SUBSET ViewNames :
        \E q \in [S -> Queries], i \in [S -> 1 .. Cardinality(S)] : Created(S, q, i)
  BY DEF ViewsInit
<1>1. PICK q \in [S -> Queries], i \in [S -> 1 .. Cardinality(S)] : Created(S, q, i)
  BY <1>0
<1>2. Cardinality(S) \in Nat
  BY NamesAssumption, FS_Subset, FS_CardinalityType
<1> DEFINE Row(n) == [id |-> i[n], name |-> n, sql |-> q[n]]
<1>3. \A n \in S : /\ i[n] \in Nat /\ i[n] < nextId /\ q[n] \in Queries
                   /\ Row(n) \in Definitions /\ Row(n).id = i[n] /\ Row(n).name = n
                   /\ Row(n).sql = q[n]
  BY <1>1, <1>2 DEF Definitions
<1>4. meta = {Row(n) : n \in S}
  BY <1>1
<1> HIDE DEF Row
<1>5. meta \subseteq Definitions /\ UniqueIds(meta) /\ UniqueNames(meta)
      /\ \A m \in meta : m.id < nextId
  <2>1. meta \subseteq Definitions /\ \A m \in meta : m.id < nextId
    BY <1>3, <1>4
  <2>2. UniqueIds(meta)
    BY <1>1, <1>3, <1>4 DEF UniqueIds
  <2>3. UniqueNames(meta)
    BY <1>3, <1>4 DEF UniqueNames
  <2> QED
    BY <2>1, <2>2, <2>3
<1>6. RowsInv
  <2>1. live \in [ViewNames -> Queries \cup {{}}]
    BY <1>1, <1>3
  <2>2. nextId \in Nat /\ columns = Columns /\ drifted = {}
    BY <1>1, <1>2 DEF ViewsInit
  <2> QED
    BY <1>5, <2>1, <2>2 DEF RowsInv
<1>7. calls = [c \in Slots |-> NoCall] /\ migrating = NotMigrating
      /\ loads = [l \in Loads |-> NoLoad]
  BY DEF ViewsInit
<1>8. CallsInv
  BY <1>7 DEF CallsInv, CallInv, CallStates, NoCall
<1>9. MigratingInv
  BY <1>7 DEF MigratingInv, NotMigrating, UniqueNames
<1>10. LoadsInv
  BY <1>7 DEF LoadsInv, LoadInv, LoadStates, NoLoad, UniqueIds
<1>11. page = [mode |-> "list", target |-> {}, form |-> {}, drop |-> {}, dropping |-> {},
               views |-> meta, loading |-> FALSE, samples |-> {}, sampling |-> {},
               excused |-> FALSE]
  BY DEF ViewsInit
<1>12. PageInv(page, meta, nextId)
  <2>1. page \in Pages
    BY <1>5, <1>11 DEF Pages
  <2>2. \A d \in meta : Known(d, meta, nextId)
    BY <1>5 DEF Known, IsOf, UniqueIds
  <2> QED
    BY <1>5, <1>11, <2>1, <2>2 DEF PageInv
<1>13. SamplesInv(page, Busy(loads))
  BY <1>7, <1>11 DEF SamplesInv, Sampled, Busy, NoLoad
<1>14. TrackedAreLive
  <2>1. ASSUME NEW n \in ViewNames PROVE live[n] = SqlOf(n, meta)
    <3>1. CASE n \in S
      <4>1. Row(n) \in meta
        BY <1>4, <3>1
      <4>2. SqlOf(n, meta) = q[n]
        BY <1>3, <1>5, <3>1, <4>1, SqlOfRows
      <4> QED
        BY <1>1, <3>1, <4>2
    <3>2. CASE n \notin S
      <4>1. \A m \in meta : m.name # n
        BY <1>3, <1>4, <3>2
      <4>2. SqlOf(n, meta) = {}
        BY <1>5, <4>1, SqlOfRows
      <4> QED
        BY <1>1, <3>2, <4>2
    <3> QED
      BY <3>1, <3>2
  <2> QED
    BY <2>1 DEF TrackedAreLive, Tracked
<1>15. AloneInv /\ ListedInv
  BY <1>7 DEF AloneInv, Alone, ListedInv, NoCall, NotMigrating
<1> QED
  BY <1>6, <1>8, <1>9, <1>10, <1>12, <1>13, <1>14, <1>15 DEF ViewsInv

\* The inductive invariant of the views, for any names, columns, queries and
\* numbers of requests: what is stored, what the requests, the migration and the
\* page hold of it, and which views may differ from their definitions.
THEOREM ViewsInvariant == ViewsSpec => []ViewsInv
<1>1. ASSUME ViewsInv, [ViewsNext]_viewsVars PROVE ViewsInv'
  <2>1. /\ RowsInv /\ CallsInv /\ MigratingInv /\ LoadsInv /\ PageInv(page, meta, nextId)
        /\ SamplesInv(page, Busy(loads)) /\ HalvesInv
    BY <1>1 DEF ViewsInv, HalvesInv
  <2>2. RowsInv' /\ Later(meta, nextId, meta', nextId')
    BY <1>1, <2>1, RowsNext
  <2>3. CallsInv' /\ MigratingInv'
    BY <1>1, <2>1, <2>2, CallsNext, MigratingNext
  <2>4. LoadsInv' /\ PageInv(page, meta, nextId)' /\ SamplesInv(page, Busy(loads))'
    BY <1>1, <2>1, <2>2, ListNext
  <2>5. HalvesInv'
    BY <1>1, <2>1, HalvesNext
  <2> QED
    BY <2>2, <2>3, <2>4, <2>5 DEF ViewsInv, HalvesInv
<1> QED
  BY <1>1, ViewsInitInv, PTL DEF ViewsSpec

\* The type invariant of the views: names and ids are unique, a form for an edit
\* has its row, and samples are only where rows are.
THEOREM ViewsTypeCorrect == ViewsSpec => []ViewsTypeOK
<1>1. ViewsInv => ViewsTypeOK
  <2> SUFFICES ASSUME ViewsInv PROVE ViewsTypeOK
    OBVIOUS
  <2>1. /\ columns \subseteq Columns /\ live \in [ViewNames -> Queries \cup {{}}]
        /\ meta \subseteq Definitions /\ nextId \in Nat /\ drifted \subseteq ViewNames
        /\ \A m, o \in meta : m.id = o.id \/ m.name = o.name => m = o
    BY DEF ViewsInv, RowsInv, UniqueIds, UniqueNames
  <2>2. migrating.listed \subseteq Definitions
    BY DEF ViewsInv, MigratingInv
  <2>3. page.views \subseteq Definitions /\ page.target \subseteq Definitions
        /\ (page.mode = "edit" => page.target # {})
    BY DEF ViewsInv, PageInv, Pages
  <2>4. page.samples # {} => Mounted
    BY DEF ViewsInv, SamplesInv, Sampled, Mounted
  <2> QED
    BY <2>1, <2>2, <2>3, <2>4 DEF ViewsTypeOK, ViewsInv, CallsInv, CallStates, LoadsInv, LoadStates
<1> QED
  BY <1>1, ViewsInvariant, PTL

\* A view and its definition agree unless the history names the view: after a
\* request that was alone and succeeded, through every failure, crash and
\* migration, for any number of requests at once.
THEOREM ViewsFollowTheirRows == ViewsSpec => []TrackedAreLive
<1>1. ViewsInv => TrackedAreLive
  BY DEF ViewsInv
<1> QED
  BY <1>1, ViewsInvariant, PTL

\* The sample of a row is of the query that the row shows, unless two answers may
\* have overtaken each other.
THEOREM SamplesAreOfTheirRows == ViewsSpec => []SampleFits
<1>1. ViewsInv => SampleFits
  BY DEF ViewsInv, SamplesInv, Sampled, SampleFits
<1> QED
  BY <1>1, ViewsInvariant, PTL
=============================================================================
