------------------------------- MODULE Backup -------------------------------
(***************************************************************************)
(* The backups of one table and their restores.  A backup counts the rows  *)
(* and reads them in blocks into one JSON object; a restore downloads such *)
(* an object, makes a backup of its own, deletes all rows and inserts those *)
(* of the object in batches.  No transaction holds the steps together, and *)
(* synchronisations write to the table between them.                       *)
(*                                                                         *)
(* The table is a sequence, in the order in which PostgreSQL finds its rows. *)
(* The names, ages and copies of the objects are in module BackupStore.    *)
(***************************************************************************)
EXTENDS Integers, Sequences, FiniteSets, Functions

CONSTANTS
  Ids,          \* primary keys
  Versions,     \* what the other columns hold
  Keys,         \* the names of objects
  Tasks,        \* the calls of backupTable and restoreFromBackup under way
  Fetched,      \* rows in a block of the backup (BACKUP_STREAM_BATCH_SIZE)
  Inserted,     \* rows in a batch of the restore
  Stored,       \* what the table may hold to begin with
  Absent,       \* no object
  MaxWrites, MaxCalls   \* bounds on the writes of synchronisations and on the calls

VARIABLES
  rows,     \* the table
  files,    \* the bucket of MinIO: key |-> object
  task,     \* what each call is about to do
  calm,     \* call |-> nobody else wrote the table since it counted or deleted (history)
  writes, calls

vars == <<rows, files, task, calm, writes, calls>>

ASSUME BatchAssumption == Fetched \in Nat \ {0} /\ Inserted \in Nat \ {0}
ASSUME BoundsAssumption == MaxWrites \in Nat /\ MaxCalls \in Nat

-----------------------------------------------------------------------------
Row == [id : Ids, version : Versions]
\* An object; of is what the table held when it was done, calm that nobody wrote
\* the table while it was read (both history).
Object == [data : Seq(Row), of : SUBSET Row, calm : BOOLEAN]
ASSUME AbsentAssumption == Absent \notin Keys /\ Absent \notin Object

UniqueIds(s) == \A m, n \in DOMAIN s : s[m].id = s[n].id => m = n
ASSUME StoredAssumption == \A s \in Stored : s \in Seq(Row) /\ UniqueIds(s)

IdsOf(s) == {r.id : r \in Range(s)}
Min2(a, b) == IF a <= b THEN a ELSE b
From(s, n) == SubSeq(s, n + 1, Len(s))
UpTo(s, n) == SubSeq(s, 1, Min2(n, Len(s)))

\* step: idle, count, fetch, delete or insert.  source: the object to restore,
\* Absent for a backup.  snapshot: the backup that a restore has made.
Call(step, source, snapshot, total, data, skip, rest) ==
  [step |-> step, source |-> source, snapshot |-> snapshot, total |-> total,
   data |-> data, skip |-> skip, rest |-> rest]
Idle == Call("idle", Absent, Absent, 0, <<>>, 0, <<>>)
Calls == [step : {"idle", "count", "fetch", "delete", "insert"}, source : Keys \cup {Absent},
          snapshot : Keys \cup {Absent}, total : Nat, data : Seq(Row), skip : Nat, rest : Seq(Row)]

Init ==
  /\ rows \in Stored
  /\ files = [k \in Keys |-> Absent]
  /\ task = [t \in Tasks |-> Idle]
  /\ calm = [t \in Tasks |-> FALSE]
  /\ writes = 0
  /\ calls = 0

-----------------------------------------------------------------------------
(* The writes of synchronisations.  A new version of a row is found wherever *)
(* there was room for it.                                                  *)

Place(s, n, r) == Append(SubSeq(s, 1, n), r) \o From(s, n)
Cut(s, p) == SubSeq(s, 1, p - 1) \o From(s, p)

Write(s) ==
  /\ writes < MaxWrites
  /\ writes' = writes + 1
  /\ rows' = s
  /\ calm' = [t \in Tasks |-> FALSE]
  /\ UNCHANGED <<files, task, calls>>

Insert(r) ==
  /\ r.id \notin IdsOf(rows)
  /\ \E n \in 0 .. Len(rows) : Write(Place(rows, n, r))

Update(p, version) ==
  \E n \in 0 .. Len(rows) - 1 :
    Write(Place(Cut(rows, p), n, [rows[p] EXCEPT !.version = version]))

Remove(p) == Write(Cut(rows, p))

-----------------------------------------------------------------------------
(* backupTable                                                             *)

\* Called by hand, each week, before a synchronisation and when a schema changed.
BackupTable(t) ==
  /\ calls < MaxCalls /\ calls' = calls + 1
  /\ task[t].step = "idle"
  /\ task' = [task EXCEPT ![t] = [Idle EXCEPT !.step = "count"]]
  /\ UNCHANGED <<rows, files, calm, writes>>

Count(t) ==
  /\ task[t].step = "count"
  /\ task' = [task EXCEPT ![t].step = "fetch", ![t].total = Len(rows)]
  /\ calm' = [calm EXCEPT ![t] = TRUE]
  /\ UNCHANGED <<rows, files, writes, calls>>

\* Mutant of Block: the rows from skip on, without the limit.
BlockWithoutTake(skip) == From(rows, skip)
\* findMany({ skip, take }), without an order.
Block(skip) == UpTo(From(rows, skip), Fetched)

\* Mutant of AllRead: a last block that is not full is not read.
FullBlocksRead(call) == call.skip + Fetched > call.total
AllRead(call) == call.skip >= call.total

FetchBatch(t) ==
  /\ task[t].step = "fetch" /\ ~AllRead(task[t])
  /\ task' = [task EXCEPT ![t].data = @ \o Block(task[t].skip), ![t].skip = @ + Fetched]
  /\ UNCHANGED <<rows, files, calm, writes, calls>>

\* A restore goes on with or without its snapshot.
Resume(call, key) ==
  IF call.source = Absent THEN Idle
  ELSE Call("delete", call.source, key, 0, <<>>, 0, call.rest)

\* The upload ends with the stream; a key holds the time and is new.
EndUpload(t, k) ==
  /\ task[t].step = "fetch" /\ AllRead(task[t])
  /\ files[k] = Absent
  /\ files' = [files EXCEPT ![k] =
       [data |-> task[t].data, of |-> Range(rows), calm |-> calm[t]]]
  /\ task' = [task EXCEPT ![t] = Resume(task[t], k)]
  /\ UNCHANGED <<rows, calm, writes, calls>>

\* No model, a failing query or a failing upload: no object, and null.
BackupFails(t) ==
  /\ task[t].step \in {"count", "fetch"}
  /\ task' = [task EXCEPT ![t] = Resume(task[t], Absent)]
  /\ UNCHANGED <<rows, files, calm, writes, calls>>

-----------------------------------------------------------------------------
(* restoreFromBackup                                                       *)

\* The object is in memory from here on; its absence ends the request.
RestoreFromBackup(t, k) ==
  /\ calls < MaxCalls /\ calls' = calls + 1
  /\ task[t].step = "idle" /\ files[k] # Absent
  /\ task' = [task EXCEPT ![t] = Call("count", k, Absent, 0, <<>>, 0, files[k].data)]
  /\ UNCHANGED <<rows, files, calm, writes>>

\* Mutant of DeleteMany: the restore adds to what is there.
KeepRows(t) ==
  /\ task[t].step = "delete"
  /\ UNCHANGED rows
  /\ calm' = [u \in Tasks |-> u = t]
  /\ task' = [task EXCEPT ![t].step = "insert"]
  /\ UNCHANGED <<files, writes, calls>>
DeleteMany(t) ==
  /\ task[t].step = "delete"
  /\ rows' = <<>>
  /\ calm' = [u \in Tasks |-> u = t]
  /\ task' = [task EXCEPT ![t].step = "insert"]
  /\ UNCHANGED <<files, writes, calls>>

\* createMany with skipDuplicates: of the rows with one id the first is there.
NewRows(s, batch) ==
  {batch[n] : n \in {n \in DOMAIN batch :
    /\ batch[n].id \notin IdsOf(s)
    /\ \A m \in 1 .. n - 1 : batch[m].id # batch[n].id}}
Arrangements(S) == Bijection(1 .. Cardinality(S), S)

InsertBatch(t) ==
  /\ task[t].step = "insert" /\ task[t].rest # <<>>
  /\ \E new \in Arrangements(NewRows(rows, UpTo(task[t].rest, Inserted))) : rows' = rows \o new
  /\ calm' = [u \in Tasks |-> calm[u] /\ u = t]
  /\ task' = [task EXCEPT ![t].rest = From(@, Inserted)]
  /\ UNCHANGED <<files, writes, calls>>

RestoreEnds(t) ==
  /\ task[t].step = "insert" /\ task[t].rest = <<>>
  /\ task' = [task EXCEPT ![t] = Idle]
  /\ UNCHANGED <<rows, files, calm, writes, calls>>

\* No model before the delete, or a statement that fails: what is done stays done.
RestoreFails(t) ==
  /\ task[t].step \in {"delete", "insert"}
  /\ task' = [task EXCEPT ![t] = Idle]
  /\ UNCHANGED <<rows, files, calm, writes, calls>>

Crash ==
  /\ task' = [t \in Tasks |-> Idle]
  /\ UNCHANGED <<rows, files, calm, writes, calls>>

-----------------------------------------------------------------------------
SyncWrites ==
  \/ \E r \in Row : Insert(r)
  \/ \E p \in DOMAIN rows : Remove(p) \/ \E v \in Versions : Update(p, v)

Step(t) ==
  \/ Count(t) \/ FetchBatch(t) \/ DeleteMany(t) \/ InsertBatch(t) \/ RestoreEnds(t)
  \/ BackupFails(t) \/ RestoreFails(t)
  \/ \E k \in Keys : EndUpload(t, k)

Next ==
  \/ SyncWrites \/ Crash
  \/ \E t \in Tasks : BackupTable(t) \/ Step(t) \/ \E k \in Keys : RestoreFromBackup(t, k)

Spec == Init /\ [][Next]_vars

-----------------------------------------------------------------------------
TypeOK ==
  /\ rows \in Seq(Row) /\ UniqueIds(rows)
  /\ files \in [Keys -> Object \cup {Absent}]
  /\ task \in [Tasks -> Calls]
  /\ calm \in [Tasks -> BOOLEAN]
  /\ writes \in 0 .. MaxWrites
  /\ calls \in 0 .. MaxCalls

\* A backup during which nothing wrote the table holds all its rows, each once,
\* whatever the blocks it was read in.
BackupIsComplete ==
  \A k \in Keys :
    LET f == files[k] IN
    f # Absent /\ f.calm => Range(f.data) = f.of /\ UniqueIds(f.data)

\* What a restore is about to delete is in the backup it made just before, if
\* that one succeeded and nothing wrote the table since it began: with the cut
\* of a crash or of a failing batch behind the delete no row is lost.
DeletedIsKept ==
  \A t \in Tasks :
    LET c == task[t] IN
    c.step = "delete" /\ c.snapshot # Absent /\ calm[t] =>
      files[c.snapshot] # Absent /\ Range(files[c.snapshot].data) = Range(rows)

\* A restore that comes to its end, without another write since its delete,
\* leaves the rows that the table had when the backup was made, if that one
\* was not disturbed either.
RoundTrip ==
  \A t \in Tasks :
    LET c == task[t] IN
    c.step = "insert" /\ c.rest = <<>> /\ calm[t] /\ files[c.source].calm =>
      Range(rows) = files[c.source].of
=============================================================================
