--------------------------- MODULE SchemaMigrator ---------------------------
(***************************************************************************)
(* Live migrations: what PUT :tableName/resolve does with the SQL that the *)
(* administrator has reviewed, composed with the Schema Registry.  One     *)
(* migration touches four stores in turn, the registry, PostgreSQL,        *)
(* schema.prisma and the GitHub repository; it may be cut short after each *)
(* of them, and other migrations and the registry's own calls move in      *)
(* between.                                                                *)
(*                                                                         *)
(* A model (in schema.prisma) and a table (in PostgreSQL) are their        *)
(* fields; the empty set means that there is none.                         *)
(***************************************************************************)
EXTENDS SchemaRegistry

CONSTANT Resolutions   \* the calls of resolve

VARIABLES
  db,          \* table |-> its columns in PostgreSQL
  history,     \* resolutions whose migration is recorded in _prisma_migrations
  file,        \* schema.prisma on disk: table |-> the fields of its model
  repo,        \* the repository's schema.prisma and its migrations
  migration    \* resolution |-> its locals

storeVars == <<db, history, file, repo>>
vars == <<registryVars, storeVars, migration>>

-----------------------------------------------------------------------------
None == [t \in Tables |-> {}]

\* sql is the difference of two schemas, "from" and "to"; text is a generated
\* schema.  alone and sound are history: nothing else has changed the registry
\* or a store since the preview; at the preview, table and model were Sound.
NoMigration ==
  [pc |-> "new", table |-> {}, from |-> None, to |-> None, text |-> None,
   alone |-> FALSE, sound |-> FALSE]
Over == [NoMigration EXCEPT !.pc = "over"]

\* What generateFullSchema makes of the registry: the models of the stable
\* tables; a nested structure has no model.
StableModels ==
  [t \in Tables |-> IF doc[t].status = "stable" /\ ~doc[t].details.nested
                    THEN doc[t].details.fields ELSE {}]

\* generatePreviewSchema fails on a nested structure.
PreviewFails(t) ==
  \E u \in Tables : doc[u].details.nested /\ (u = t \/ doc[u].status = "stable")
Predicted(t) == [StableModels EXCEPT ![t] = doc[t].details.fields]

\* The statements for one table, with the guards (IF EXISTS, IF NOT EXISTS) that
\* the migrator adds; a column of a table that is missing cannot be altered.
Refused(table, from, to) == table = {} /\ from # {} /\ to # {} /\ from # to
Applied(table, from, to) ==
  IF to = {} /\ from # {} THEN {}
  ELSE IF from = {} THEN IF table = {} THEN to ELSE table
  ELSE (table \ (from \ to)) \cup (to \ from)

\* The table has the columns of its model, and there is none without a model.
Sound(t) == file[t] \subseteq db[t] /\ (file[t] = {} => db[t] = {})

\* A step of a migration that only it notices; one that others may notice.
Local(a, s) == migration' = [migration EXCEPT ![a] = s]
Step(a, s) == migration' = [b \in Resolutions |-> IF b = a THEN s
                                             ELSE [migration[b] EXCEPT !.alone = FALSE]]

Init ==
  /\ RegistryInit
  /\ file = StableModels /\ db = file
  /\ history = {} /\ repo = [schema |-> file, migrations |-> {}]
  /\ migration = [a \in Resolutions |-> NoMigration]

-----------------------------------------------------------------------------
\* The administrator selects a table that is not stable, and is shown the SQL.
Preview(a, t) ==
  /\ migration[a].pc = "new"
  /\ doc[t].status \in {"new", "changed"} /\ ~PreviewFails(t)
  /\ Local(a, [NoMigration EXCEPT !.pc = "review", !.table = {t},
                 !.from = file, !.to = Predicted(t), !.alone = TRUE, !.sound = Sound(t)])
  /\ UNCHANGED <<registryVars, storeVars>>

\* The administrator may take the other tables out of the SQL.
EditSql(a) ==
  /\ migration[a].pc = "review"
  /\ Local(a, [migration[a] EXCEPT !.to =
       [u \in Tables |-> IF u \in migration[a].table THEN @[u] ELSE migration[a].from[u]]])
  /\ UNCHANGED <<registryVars, storeVars>>

\* Mutant of Resolve: the table is not marked before the migration.
ResolveUnmarked(a) ==
  /\ migration[a].pc = "review"
  /\ Step(a, [migration[a] EXCEPT !.pc = "sql"])
  /\ UNCHANGED <<registryVars, storeVars>>

\* The resolution marks the table as stable first.
Resolve(a) ==
  /\ migration[a].pc = "review"
  /\ \E t \in migration[a].table : MarkStable(t)
  /\ Step(a, [migration[a] EXCEPT !.pc = "sql"])
  /\ UNCHANGED <<source, call, storeVars>>

\* One transaction: the structural changes and the record of the migration.
RunSql(a) ==
  LET s == migration[a]
  IN  /\ s.pc = "sql"
      /\ \A u \in Tables : ~Refused(db[u], s.from[u], s.to[u])
      /\ db' = [u \in Tables |-> Applied(db[u], s.from[u], s.to[u])]
      /\ history' = history \cup {a}
      /\ Step(a, [s EXCEPT !.pc = "generate"])
      /\ UNCHANGED <<registryVars, file, repo>>

\* Mutant of SqlFails: the failure is logged, and the migration goes on.
SqlFailsAndGoesOn(a) ==
  LET s == migration[a]
  IN  /\ s.pc = "sql"
      /\ "sql" \in Events \/ \E u \in Tables : Refused(db[u], s.from[u], s.to[u])
      /\ Local(a, [s EXCEPT !.pc = "generate"])
      /\ UNCHANGED <<registryVars, storeVars>>

\* The transaction is rolled back; the table stays stable.
SqlFails(a) ==
  LET s == migration[a]
  IN  /\ s.pc = "sql"
      /\ "sql" \in Events \/ \E u \in Tables : Refused(db[u], s.from[u], s.to[u])
      /\ Local(a, Over)
      /\ UNCHANGED <<registryVars, storeVars>>

\* generateFullSchema reads the registry ...
Generate(a) ==
  /\ migration[a].pc = "generate"
  /\ Local(a, [migration[a] EXCEPT !.pc = "write", !.text = StableModels])
  /\ UNCHANGED <<registryVars, storeVars>>

\* ... and the text is written to schema.prisma.
WriteFile(a) ==
  /\ migration[a].pc = "write"
  /\ file' = migration[a].text
  /\ Step(a, [migration[a] EXCEPT !.pc = "commit"])
  /\ UNCHANGED <<registryVars, db, history, repo>>

\* The schema and the migration are committed; a failure is only logged.
Commit(a) ==
  LET s == migration[a]
  IN  /\ s.pc = "commit"
      /\ \/ repo' = [schema |-> s.text, migrations |-> repo.migrations \cup {a}]
         \/ "github" \in Events /\ repo' = repo
      /\ Step(a, Over)
      /\ UNCHANGED <<registryVars, db, history, file>>

\* Any step fails, or the process dies: the stores stay as they are.
MigrationFails(a) ==
  /\ {"fail", "crash"} \cap Events # {}
  /\ migration[a].pc \notin {"new", "over"}
  /\ Local(a, Over)
  /\ UNCHANGED <<registryVars, storeVars>>

\* The image that CI built from the repository replaces the process; its schema
\* replaces the file.
Deploy ==
  /\ "crash" \in Events
  /\ file' = repo.schema
  /\ migration' = [a \in Resolutions |-> IF migration[a].pc = "new" THEN NoMigration ELSE Over]
  /\ call' = [c \in Calls |-> Idle]
  /\ UNCHANGED <<source, doc, db, history, repo>>

RegistryMoves ==
  /\ RegistryStep
  /\ migration' = [a \in Resolutions |-> [migration[a] EXCEPT !.alone = @ /\ doc' = doc]]
  /\ UNCHANGED storeVars

MigrationStep(a) ==
  \/ \E t \in Tables : Preview(a, t)
  \/ EditSql(a) \/ Resolve(a) \/ RunSql(a) \/ SqlFails(a)
  \/ Generate(a) \/ WriteFile(a) \/ Commit(a) \/ MigrationFails(a)

Next == RegistryMoves \/ Deploy \/ \E a \in Resolutions : MigrationStep(a)

Spec == Init /\ [][Next]_vars

-----------------------------------------------------------------------------
(* Properties                                                              *)

Models == [Tables -> SUBSET Fields]

MigrationState ==
  [pc : {"new", "review", "sql", "generate", "write", "commit", "over"},
   table : SUBSET Tables, from : Models, to : Models, text : Models,
   alone : BOOLEAN, sound : BOOLEAN]

TypeOK ==
  /\ RegistryTypeOK
  /\ db \in Models /\ file \in Models
  /\ history \subseteq Resolutions
  /\ repo \in [schema : Models, migrations : SUBSET Resolutions]
  /\ migration \in [Resolutions -> MigrationState]

\* A resolution that nothing disturbed leaves its table stable, with the model
\* that was reviewed and with every column of it, whatever was cut short before:
\* the table is marked as stable before the schema is generated (comment in
\* resolveWarning), and the migrator's IF [NOT] EXISTS make the SQL repeatable.
ResolvedIsMigrated ==
  \A a \in Resolutions : \A t \in migration[a].table :
    LET s == migration[a]
    IN  s.pc = "commit" /\ s.alone /\ s.sound =>
          /\ doc[t].status = "stable"
          /\ file[t] = doc[t].details.fields /\ file[t] = s.to[t]
          /\ file[t] \subseteq db[t]

\* A migration that the repository has is recorded in the database, so that
\* "prisma migrate deploy" does not run it a second time (comment of
\* applyLiveMigration), whatever fails in between.
CommittedIsRecorded == repo.migrations \subseteq history

=============================================================================
