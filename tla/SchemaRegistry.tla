--------------------------- MODULE SchemaRegistry ---------------------------
(***************************************************************************)
(* The documents of the Schema Registry and the calls that change them:    *)
(* the detector, the pipelines that meet a new field, and the requests of  *)
(* an administrator.  Every call reads a document and writes it in a later *)
(* step, without a transaction or a version, and other calls move between  *)
(* the two.                                                                *)
(*                                                                         *)
(* A structure is the set of its fields.  `nested' tells that it holds a   *)
(* whole structure among its fields, which updateSchema can leave in       *)
(* oldDetails.  A hash stands for the structure it was computed from.      *)
(***************************************************************************)
EXTENDS FiniteSets

CONSTANTS
  Tables,     \* the tables of the source
  Fields,     \* the fields that a table may have
  Runs,       \* pipelines that may be in flight at once
  Requests,   \* requests to the registry that may be in flight at once
  Statuses,   \* the statuses that the administrator may write
  Events      \* which failures and outside changes occur

\* A new table appears ("new"); a report of the source has no hash ("unhashed");
\* the administrator edits a structure ("update"), or
\* imports documents ("import"); a request fails half-way ("fail"); a pipeline
\* does, or the process dies ("crash"); a migration's SQL is refused ("sql");
\* GitHub refuses a commit ("github").
AllEvents == {"new", "unhashed", "update", "import", "fail", "crash", "sql",
              "github"}

ASSUME TablesAssumption == IsFiniteSet(Tables)
ASSUME FieldsAssumption == IsFiniteSet(Fields)
ASSUME StatusesAssumption == Statuses \subseteq {"stable", "changed", "new"}
ASSUME EventsAssumption == Events \subseteq AllEvents

VARIABLES
  source,     \* table |-> the fields that the source's records have
  doc,        \* table |-> its document
  call        \* run or request |-> the locals of the call

registryVars == <<source, doc, call>>

-----------------------------------------------------------------------------
Calls == Runs \cup Requests
Structures == [fields : SUBSET Fields, nested : BOOLEAN]
Flat(fields) == [fields |-> fields, nested |-> FALSE]
Nothing == Flat({})

\* generateSchemaHash; a report or a document may also have no hash.
Hash(structure) == {structure}
NoHash == {}

Absent == [status |-> "absent", details |-> Nothing, old |-> Nothing, hash |-> NoHash]
Idle == [pc |-> "idle", table |-> {}, seen |-> Nothing, report |-> Nothing, hash |-> NoHash]

Set(c, s) == call' = [call EXCEPT ![c] = s]

Put(t, d) == doc' = [doc EXCEPT ![t] = d]

\* A table is registered as stable with the structure of the source, or, when
\* new tables appear, not yet.
RegistryInit ==
  /\ source \in [Tables -> SUBSET Fields \ {{}}]
  /\ doc \in [Tables -> {Absent} \cup
               {[status |-> "stable", details |-> Flat(fields), old |-> Nothing,
                 hash |-> Hash(Flat(fields))] : fields \in SUBSET Fields \ {{}}}]
  /\ \A t \in Tables : IF doc[t] = Absent THEN "new" \in Events
                                          ELSE doc[t].details = Flat(source[t])
  /\ call = [c \in Calls |-> Idle]

-----------------------------------------------------------------------------
(* Detection                                                               *)

\* A pipeline takes the document of a stable table with it.
Snapshot(r, t) ==
  /\ call[r].pc = "idle" /\ doc[t].status = "stable"
  /\ Set(r, [Idle EXCEPT !.pc = "sync", !.table = {t}, !.seen = doc[t].details])
  /\ UNCHANGED <<source, doc>>

\* The guard of syncOneTable: fields of the records that the snapshot lacks.  A
\* document without details is not checked.
UnknownFields(s) ==
  IF s.seen = Nothing THEN {} ELSE UNION {source[t] \ s.seen.fields : t \in s.table}

NoDrift(r) ==
  /\ call[r].pc = "sync" /\ UnknownFields(call[r]) = {}
  /\ Set(r, Idle)
  /\ UNCHANGED <<source, doc>>

\* The pipeline reports its own snapshot with the new fields, without a hash.
Drift(r) ==
  /\ call[r].pc = "sync" /\ UnknownFields(call[r]) # {}
  /\ Set(r, [call[r] EXCEPT !.pc = "read", !.seen = Nothing,
               !.report = [call[r].seen EXCEPT !.fields = @ \cup UnknownFields(call[r])]])
  /\ UNCHANGED <<source, doc>>

\* The detector reports what the source has, with the source's hash, if it gives
\* one.
RunDetector(q, t) ==
  /\ call[q].pc = "idle"
  /\ \E hash \in {Hash(Flat(source[t]))} \cup {NoHash : e \in {"unhashed"} \cap Events} :
       Set(q, [Idle EXCEPT !.pc = "read", !.table = {t},
                           !.report = Flat(source[t]), !.hash = hash])
  /\ UNCHANGED <<source, doc>>

\* Mutant of ReadExisting: a report without a hash counts as no change.
ReadExistingHashed(c) ==
  /\ call[c].pc = "read"
  /\ \E t \in call[c].table :
       Set(c, IF doc[t].status = "absent" THEN [call[c] EXCEPT !.pc = "create"]
              ELSE IF call[c].hash \in {NoHash, doc[t].hash} THEN Idle
              ELSE [call[c] EXCEPT !.pc = "change", !.seen = doc[t].details, !.hash = NoHash])
  /\ UNCHANGED <<source, doc>>

\* detectSchemaChanges reads the document and compares the hashes ...
ReadExisting(c) ==
  /\ call[c].pc = "read"
  /\ \E t \in call[c].table :
       Set(c, IF doc[t].status = "absent" THEN [call[c] EXCEPT !.pc = "create"]
              ELSE IF doc[t].hash = call[c].hash THEN Idle
              ELSE [call[c] EXCEPT !.pc = "change", !.seen = doc[t].details, !.hash = NoHash])
  /\ UNCHANGED <<source, doc>>

\* ... registers a table that nobody knew as new, unless another call has done so
\* in between (then create fails) ...
Create(c) ==
  /\ call[c].pc = "create"
  /\ \E t \in call[c].table :
       IF doc[t].status = "absent"
       THEN Put(t, [status |-> "new", details |-> call[c].report, old |-> Nothing,
                    hash |-> call[c].hash])
       ELSE UNCHANGED doc
  /\ Set(c, Idle)
  /\ UNCHANGED source

Changed(s) ==
  [status |-> "changed", details |-> s.report, old |-> s.seen, hash |-> Hash(s.report)]

\* ... or replaces the structure, and keeps the one it has read.
Change(c) ==
  /\ call[c].pc = "change"
  /\ \E t \in call[c].table :
       Put(t, Changed(call[c]))
  /\ Set(c, Idle)
  /\ UNCHANGED source

-----------------------------------------------------------------------------
(* The administrator                                                       *)

MarkStable(t) ==
  IF doc[t].status = "absent" THEN UNCHANGED doc
  ELSE Put(t, [doc[t] EXCEPT !.status = "stable"])

\* markAsStable, by a resolution without SQL.
MarkAsStable(t) ==
  /\ doc[t].status # "stable"
  /\ MarkStable(t)
  /\ UNCHANGED <<source, call>>

\* rejectSchemaWarning reads the document, and refuses what is not changed or
\* has no structure to go back to ...
RejectRead(q, t) ==
  /\ call[q].pc = "idle"
  /\ doc[t].status = "changed" /\ doc[t].old # Nothing
  /\ Set(q, [Idle EXCEPT !.pc = "reject", !.table = {t}, !.seen = doc[t].old])
  /\ UNCHANGED <<source, doc>>

\* ... and writes the structure it has read.  That is the one before the last
\* detection, which is not the one last accepted when two detections came before
\* the resolution; and the rejected hash, which is sent to ignoredHashes, is
\* compared with nothing, so that the next report freezes the table again.
Reject(q) ==
  /\ call[q].pc = "reject"
  /\ \E t \in call[q].table :
       LET previous == call[q].seen
       IN  Put(t, [status |-> "stable", details |-> previous, old |-> Nothing,
                   hash |-> Hash(previous)])
  /\ Set(q, Idle)
  /\ UNCHANGED source

\* updateSchema with a structure, and no hash: the previous structure is appended
\* to oldDetails, as one element, behind the fields that may be there.
UpdateRead(q, t) ==
  /\ "update" \in Events
  /\ call[q].pc = "idle" /\ doc[t].status # "absent"
  /\ \E fields \in SUBSET Fields \ {{}} :
       Set(q, [Idle EXCEPT !.pc = "update", !.table = {t}, !.seen = doc[t].old,
                           !.report = Flat(fields)])
  /\ UNCHANGED <<source, doc>>

UpdateDetails(q) ==
  /\ call[q].pc = "update"
  /\ \E t \in call[q].table :
       Put(t, [doc[t] EXCEPT !.details = call[q].report,
                             !.old = [call[q].seen EXCEPT !.nested = TRUE]])
  /\ Set(q, Idle)
  /\ UNCHANGED source

\* updateSchema with a status only: a single write.
UpdateStatus(t) ==
  /\ doc[t].status # "absent"
  /\ \E status \in Statuses :
       Put(t, [doc[t] EXCEPT !.status = status])
  /\ UNCHANGED <<source, call>>

\* importSchemaData, with what the source has: one upsert per table, stable when
\* it is inserted.
Import(t) ==
  /\ "import" \in Events
  /\ LET imported == Flat(source[t])
     IN  Put(t, [doc[t] EXCEPT !.status = IF @ = "absent" THEN "stable" ELSE @,
                               !.details = imported, !.hash = Hash(imported)])
  /\ UNCHANGED <<source, call>>

\* A call to MongoDB fails, or the process dies: what was written stays.
CallFails(c) ==
  /\ \/ "crash" \in Events
     \/ "fail" \in Events /\ c \in Requests
  /\ call[c].pc # "idle"
  /\ Set(c, Idle)
  /\ UNCHANGED <<source, doc>>

\* External: the source changes the structure of a table.
SourceChanges(t) ==
  /\ \E fields \in SUBSET Fields \ {{}, source[t]} :
       source' = [source EXCEPT ![t] = fields]
  /\ UNCHANGED <<doc, call>>

-----------------------------------------------------------------------------
RunStep(r) == NoDrift(r) \/ Drift(r) \/ ReadExisting(r) \/ Create(r) \/ Change(r)

RequestStep(q) ==
  \/ ReadExisting(q) \/ Create(q) \/ Change(q) \/ Reject(q) \/ UpdateDetails(q)
  \/ \E t \in Tables : RunDetector(q, t) \/ RejectRead(q, t) \/ UpdateRead(q, t)

RegistryStep ==
  \/ \E r \in Runs : RunStep(r) \/ \E t \in Tables : Snapshot(r, t)
  \/ \E q \in Requests : RequestStep(q)
  \/ \E c \in Calls : CallFails(c)
  \/ \E t \in Tables : UpdateStatus(t) \/ Import(t) \/ SourceChanges(t)

RegistryNext == RegistryStep \/ \E t \in Tables : MarkAsStable(t)

\* Cron starts the pipelines again and again, and takes every table that is
\* stable when it does; calls to MongoDB and to the source return.
Fairness ==
  \A r \in Runs :
    /\ WF_registryVars(RunStep(r))
    /\ \A t \in Tables : SF_registryVars(Snapshot(r, t))

RegistrySpec == RegistryInit /\ [][RegistryNext]_registryVars /\ Fairness

-----------------------------------------------------------------------------
(* Properties                                                              *)

Hashes == {NoHash} \cup {Hash(structure) : structure \in Structures}
Documents ==
  [status : {"absent", "new", "stable", "changed"},
   details : Structures, old : Structures, hash : Hashes]
CallState ==
  [pc : {"idle", "sync", "read", "create", "change", "reject", "update"},
   table : SUBSET Tables, seen : Structures, report : Structures, hash : Hashes]

RegistryTypeOK ==
  /\ source \in [Tables -> SUBSET Fields]
  /\ doc \in [Tables -> Documents]
  /\ call \in [Calls -> CallState]

\* No field that the source keeps sending stays unknown to a stable table: as
\* long as pipelines keep running, one of them freezes the table (README, section
\* 4), whatever is detected, rejected, edited or imported meanwhile, and between
\* the reads and the writes of these.
DriftIsFrozen ==
  \A t \in Tables : \A f \in Fields :
    []<>~(doc[t].status = "stable" /\ f \in source[t] \ doc[t].details.fields)
=============================================================================
