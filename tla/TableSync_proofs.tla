--------------------------- MODULE TableSync_proofs ---------------------------
(***************************************************************************)
(* Theorems about TableSync, for every set of keys, page size, number of   *)
(* runs, choice of strategies and choice of failures.                      *)
(***************************************************************************)
EXTENDS TableSync, FiniteSetTheorems, TLAPS

(* Pages                                                                   *)

\* Integer division by a positive number is monotone.
LEMMA DivMonotone ==
  ASSUME NEW a \in Nat, NEW b \in Nat, NEW d \in Nat \ {0}, a <= b
  PROVE  a \div d <= b \div d
<1> DEFINE p == a \div d
           q == b \div d
<1>1. p \in Nat /\ q \in Nat /\ d * p <= a /\ b < d * (q + 1)
  OBVIOUS
<1>2. SUFFICES ASSUME q < p PROVE FALSE
  BY <1>1
<1>3. q + 1 <= p
  BY <1>1, <1>2
<1> HIDE DEF p, q
<1>4. d * (q + 1) <= d * p
  BY <1>1, <1>3
<1> QED
  BY <1>1, <1>4

\* Every listed record is on one of the pages that the first answer announces.
LEMMA PageInRange ==
  ASSUME NEW S, S \subseteq Keys, NEW k \in S
  PROVE  /\ PageOf(k, S) \in Nat /\ TotalPages(S) \in Nat
         /\ 1 <= PageOf(k, S) /\ PageOf(k, S) <= TotalPages(S)
<1> DEFINE B == {j \in S : j <= k}
<1>1. IsFiniteSet(S) /\ Cardinality(S) \in Nat
  BY KeysAssumption, FS_Subset, FS_CardinalityType
<1>2. IsFiniteSet(B) /\ Cardinality(B) \in Nat /\ Cardinality(B) <= Cardinality(S)
  BY <1>1, FS_Subset, FS_CardinalityType
<1>3. k \in B
  BY KeysAssumption
<1>4. Cardinality(B) # 0
  BY <1>2, <1>3, FS_EmptySet
<1>5. Cardinality(B) - 1 \in Nat /\ Cardinality(S) - 1 \in Nat
      /\ Cardinality(B) - 1 <= Cardinality(S) - 1
  BY <1>1, <1>2, <1>4
<1>6. (Cardinality(B) - 1) \div PageSize <= (Cardinality(S) - 1) \div PageSize
  BY <1>5, DivMonotone, PageSizeAssumption
<1>7. (Cardinality(B) - 1) \div PageSize \in Nat
      /\ (Cardinality(S) - 1) \div PageSize \in Nat
  BY <1>5, PageSizeAssumption
<1>8. S # {}
  OBVIOUS
<1> HIDE DEF B
<1>9. PageOf(k, S) = ((Cardinality(B) - 1) \div PageSize) + 1
  BY DEF PageOf, Rank, B
<1>10. TotalPages(S) = ((Cardinality(S) - 1) \div PageSize) + 1
  BY <1>8 DEF TotalPages
<1> QED
  BY <1>6, <1>7, <1>9, <1>10

-----------------------------------------------------------------------------
(* Type correctness                                                        *)

LEMMA NoRecordsType ==
  ASSUME now \in Nat PROVE NoRecords \in Versions
BY DEF NoRecords, Versions

LEMMA IdleType ==
  ASSUME now \in Nat PROVE Idle \in RunState
BY NoRecordsType, MaxRetriesAssumption DEF Idle, RunState, AllStrategies

LEMMA PayloadType ==
  ASSUME now \in Nat, src \in Versions, NEW s PROVE Payload(s) \in Versions
BY DEF Payload, Versions

LEMMA WantedType == ASSUME NEW s PROVE Wanted(s) \subseteq Keys
BY DEF Wanted

LEMMA TotalPagesType ==
  ASSUME NEW S, S \subseteq Keys PROVE TotalPages(S) \in Nat \ {0}
<1>1. CASE S = {}
  BY <1>1 DEF TotalPages
<1>2. CASE S # {}
  <2>1. PICK k \in S : TRUE
    BY <1>2
  <2> QED
    BY <2>1, PageInRange
<1> QED
  BY <1>1, <1>2

LEMMA AfterLoopType ==
  ASSUME NEW s PROVE AfterLoop(s) \in {"overwrite", "orphans", "finish"}
BY DEF AfterLoop

LEMMA AdvanceType ==
  ASSUME now \in Nat, NEW s \in RunState PROVE Advance(s) \in RunState
<1>1. [s EXCEPT !.pc = "fetch", !.page = @ + 1, !.attempt = 1] \in RunState
  <2>1. 1 \in 1 .. MaxRetries /\ s.page + 1 \in Nat \ {0}
    BY MaxRetriesAssumption DEF RunState
  <2> QED
    BY <2>1 DEF RunState
<1>2. [s EXCEPT !.pc = AfterLoop(s)] \in RunState
  BY AfterLoopType DEF RunState
<1> QED
  BY <1>1, <1>2 DEF Advance

LEMMA FetchedType ==
  ASSUME now \in Nat, NEW s \in RunState PROVE Fetched(s) \in RunState
BY WantedType, TotalPagesType DEF Fetched, RunState

LEMMA RestType ==
  ASSUME now \in Nat, NEW s \in RunState, NEW k \in Keys
  PROVE  Rest(s, k) \in RunState
<1> DEFINE left == [s EXCEPT !.batch = [@ EXCEPT ![k] = 0]]
<1>1. left \in RunState
  BY DEF RunState, Versions
<1> QED
  BY <1>1, AdvanceType DEF Rest

\* Updating a run keeps the runs well typed.
LEMMA SetRunType ==
  ASSUME NEW r \in Runs, NEW s \in RunState, run \in [Runs -> RunState], SetRun(r, s)
  PROVE  run' \in [Runs -> RunState]
BY DEF SetRun

LEMMA InitType == Init => TypeOK
<1> SUFFICES ASSUME Init PROVE TypeOK
  OBVIOUS
<1>1. now \in Nat \ {0} /\ src \in Versions /\ dest \in Versions
  BY DEF Init, Versions, NoRecords
<1>2. run \in [Runs -> RunState]
  BY <1>1, IdleType DEF Init
<1>3. reg \in [status : {"stable", "changed"}, declared : BOOLEAN,
               strategy : AllStrategies, lastSync : 0 .. now]
  <2>1. 0 \in 0 .. now
    BY <1>1
  <2> QED
    BY <2>1, StrategiesAssumption DEF Init
<1> QED
  BY <1>1, <1>2, <1>3 DEF Init, TypeOK

LEMMA EnvironmentType ==
  ASSUME TypeOK, Environment PROVE TypeOK'
<1>1. ASSUME NEW k \in Keys, Edit(k) PROVE TypeOK'
  <2> USE <1>1
  <2>1. now' = now + 1 /\ now \in Nat /\ 0 .. now \subseteq 0 .. now'
    BY DEF Edit, TypeOK
  <2>2. src' \in Versions' /\ dest' \in Versions'
    BY <2>1 DEF Edit, TypeOK, Versions
  <2>3. \A r \in Runs : [run[r] EXCEPT !.quiet = @ /\ ~Begun(run[r])] \in RunState'
    <3>1. \A s \in RunState : s \in RunState'
      BY <2>1 DEF RunState, Versions
    <3>2. \A r \in Runs : [run[r] EXCEPT !.quiet = @ /\ ~Begun(run[r])] \in RunState
      BY DEF TypeOK, RunState
    <3> QED
      BY <3>1, <3>2
  <2>4. run' \in [Runs -> RunState']
    BY <2>3 DEF Edit, Disturbed
  <2> QED
    BY <2>1, <2>2, <2>4 DEF Edit, TypeOK
<1>2. ASSUME NEW k \in Keys, Remove(k) PROVE TypeOK'
  <2> USE <1>2
  <2>1. now' = now /\ src' \in Versions
    BY DEF Remove, TypeOK, Versions
  <2>3. \A r \in Runs : [run[r] EXCEPT !.quiet = @ /\ ~Begun(run[r])] \in RunState
    BY DEF TypeOK, RunState
  <2>4. run' \in [Runs -> RunState]
    BY <2>3 DEF Remove, Disturbed
  <2> QED
    BY <2>1, <2>4 DEF Remove, TypeOK, RunState, Versions
<1>3. CASE AddField
  BY <1>3 DEF AddField, TypeOK, RunState, Versions
<1>4. CASE RunDetector
  BY <1>4 DEF RunDetector, DeclareField, TypeOK, RunState, Versions
<1>5. CASE MarkAsStable
  BY <1>5 DEF MarkAsStable, TypeOK, RunState, Versions
<1>6. ASSUME NEW strategy \in Strategies, UpdateSyncStrategy(strategy) PROVE TypeOK'
  BY <1>6, StrategiesAssumption DEF UpdateSyncStrategy, TypeOK, RunState, Versions
<1>7. CASE Restart
  BY <1>7, IdleType DEF Restart, TypeOK, RunState, Versions
<1> QED
  BY <1>1, <1>2, <1>3, <1>4, <1>5, <1>6, <1>7 DEF Environment

LEMMA SyncStepType ==
  ASSUME TypeOK, NEW r \in Runs, Snapshot(r) \/ SyncStep(r) PROVE TypeOK'
<1> DEFINE s == run[r]
<1>0. /\ now \in Nat /\ src \in Versions /\ dest \in Versions
      /\ s \in RunState /\ run \in [Runs -> RunState] /\ Idle \in RunState
      /\ Payload(s) \in Versions /\ NoRecords \in Versions
  BY IdleType, PayloadType, NoRecordsType DEF TypeOK
\* What is left to show of an action that keeps the clock.
<1>a. ASSUME UNCHANGED <<now, src, extra, model>>, dest' \in Versions, exact' \in BOOLEAN,
             reg' \in [status : {"stable", "changed"}, declared : BOOLEAN,
                       strategy : AllStrategies, lastSync : 0 .. now],
             run' \in [Runs -> RunState]
      PROVE  TypeOK'
  BY <1>a DEF TypeOK, RunState, Versions
<1>b. ASSUME UNCHANGED <<now, src, extra, dest, reg, model, exact>>,
             NEW t \in RunState, SetRun(r, t)
      PROVE  TypeOK'
  BY <1>0, <1>a, <1>b, SetRunType DEF TypeOK
<1>1. CASE Snapshot(r)
  BY <1>1, <1>0, <1>b DEF Snapshot, TypeOK, RunState, Idle
<1>2. CASE FetchFails(r)
  <2>1. s.attempt < MaxRetries => [s EXCEPT !.attempt = @ + 1] \in RunState
    BY <1>0, MaxRetriesAssumption DEF RunState
  <2> QED
    BY <1>2, <1>0, <1>b, <2>1 DEF FetchFails, Fail
<1>3. CASE ContractViolation(r)
  BY <1>3, <1>0, <1>b DEF ContractViolation, Fail
<1>4. CASE SchemaDrift(r)
  <2>1. run' \in [Runs -> RunState]
    BY <1>4, <1>0, SetRunType DEF SchemaDrift, Fail
  <2>2. reg' \in [status : {"stable", "changed"}, declared : BOOLEAN,
                  strategy : AllStrategies, lastSync : 0 .. now]
    BY <1>4 DEF SchemaDrift, DeclareField, TypeOK
  <2> QED
    BY <1>4, <1>0, <1>a, <2>1, <2>2 DEF SchemaDrift, TypeOK
<1>5. CASE PageMismatch(r)
  <2>1. [s EXCEPT !.pc = AfterLoop(s), !.whole = FALSE] \in RunState
    BY <1>0, AfterLoopType DEF RunState
  <2> QED
    BY <1>5, <1>b, <2>1 DEF PageMismatch
<1>6. CASE EmptyPage(r)
  <2>1. [s EXCEPT !.pc = AfterLoop(s), !.whole = @ /\ Wanted(s) = {}] \in RunState
    BY <1>0, AfterLoopType DEF RunState
  <2> QED
    BY <1>6, <1>b, <2>1 DEF EmptyPage
<1>7. CASE FetchForUpsert(r)
  <2>1. [Fetched(s) EXCEPT !.pc = "write", !.batch = Payload(s),
                           !.ids = @ \cup Recs(Payload(s))] \in RunState
    BY <1>0, FetchedType DEF RunState, Recs
  <2> QED
    BY <1>7, <1>b, <2>1 DEF FetchForUpsert
<1>8. CASE FetchForOverwrite(r)
  <2> DEFINE t == [Fetched(s) EXCEPT !.buffer = Merge(@, Payload(s))]
  <2>1. t \in RunState
    <3>1. Fetched(s) \in RunState /\ Merge(Fetched(s).buffer, Payload(s)) \in Versions
      BY <1>0, FetchedType DEF RunState, Merge, Versions
    <3> QED
      BY <3>1 DEF RunState
  <2>2. Advance(t) \in RunState
    BY <1>0, <2>1, AdvanceType
  <2> QED
    BY <1>8, <1>b, <2>2 DEF FetchForOverwrite
<1>9. ASSUME NEW k \in Keys, UpsertRecord(r, k) PROVE TypeOK'
  <2>1. run' \in [Runs -> RunState]
    BY <1>9, <1>0, RestType, SetRunType DEF UpsertRecord
  <2>2. dest' \in Versions
    BY <1>9, <1>0 DEF UpsertRecord, RunState, Versions
  <2> QED
    BY <1>9, <1>a, <2>1, <2>2 DEF UpsertRecord, TypeOK
<1>10. ASSUME NEW k \in Keys, DeadLetter(r, k) PROVE TypeOK'
  <2>1. [s EXCEPT !.whole = FALSE] \in RunState
    BY <1>0 DEF RunState
  <2>2. Rest([s EXCEPT !.whole = FALSE], k) \in RunState
    BY <1>0, <2>1, RestType
  <2> QED
    BY <1>10, <1>b, <2>2 DEF DeadLetter
<1>11. CASE NoModelForBatch(r)
  <2>1. [s EXCEPT !.batch = NoRecords, !.whole = FALSE] \in RunState
    BY <1>0 DEF RunState
  <2>2. Advance([s EXCEPT !.batch = NoRecords, !.whole = FALSE]) \in RunState
    BY <1>0, <2>1, AdvanceType
  <2> QED
    BY <1>11, <1>b, <2>2 DEF NoModelForBatch
<1>12. CASE Overwrite(r)
  <2>1. [s EXCEPT !.pc = "finish", !.whole = @ /\ model] \in RunState
    BY <1>0 DEF RunState, TypeOK
  <2>2. run' \in [Runs -> RunState]
    BY <1>12, <1>0, <2>1, SetRunType DEF Overwrite
  <2>3. dest' \in Versions /\ exact' \in BOOLEAN
    BY <1>12, <1>0 DEF Overwrite, RunState, TypeOK, Clean
  <2> QED
    BY <1>12, <1>a, <2>2, <2>3 DEF Overwrite, TypeOK
<1>13. CASE StoreFails(r)
  BY <1>13, <1>0, <1>b DEF StoreFails, Fail
<1>14. CASE DetectOrphans(r)
  <2>1. [s EXCEPT !.pc = "finish",
                  !.orphans = IF model THEN Recs(dest) \ HasAsColumn(s.ids) ELSE {}] \in RunState
    BY <1>0 DEF RunState, Recs
  <2> QED
    BY <1>14, <1>b, <2>1 DEF DetectOrphans
<1>15. CASE Finish(r)
  <2>1. run' \in [Runs -> RunState]
    BY <1>15, <1>0, SetRunType DEF Finish
  <2>2. exact' \in BOOLEAN
    BY <1>15 DEF Finish, TypeOK, Clean
  <2>3. reg' \in [status : {"stable", "changed"}, declared : BOOLEAN,
                  strategy : AllStrategies, lastSync : 0 .. now]
    BY <1>15 DEF Finish, TypeOK
  <2> QED
    BY <1>15, <1>0, <1>a, <2>1, <2>2, <2>3 DEF Finish, TypeOK
<1> QED
  BY <1>1, <1>2, <1>3, <1>4, <1>5, <1>6, <1>7, <1>8, <1>9, <1>10, <1>11, <1>12,
     <1>13, <1>14, <1>15 DEF SyncStep

\* Every variable keeps its type, and no store ever holds a version from the
\* future: every step of syncOneTable, the source and the administrator.
THEOREM TypeCorrect == Spec => []TypeOK
<1>1. TypeOK /\ [Next]_vars => TypeOK'
  <2> SUFFICES ASSUME TypeOK, [Next]_vars PROVE TypeOK'
    OBVIOUS
  <2>1. CASE UNCHANGED vars
    BY <2>1 DEF vars, TypeOK, RunState, Versions
  <2> QED
    BY <2>1, EnvironmentType, SyncStepType DEF Next
<1> QED
  BY InitType, <1>1, PTL DEF Spec

-----------------------------------------------------------------------------
(* What a run has collected                                                *)

LEMMA WantedSame ==
  ASSUME NEW s, NEW t, t.strategy = s.strategy, t.last = s.last
  PROVE  Wanted(t) = Wanted(s) /\ FullLoad(t) = FullLoad(s)
BY DEF Wanted, FullLoad

LEMMA IdleInv == ShapeInv(Idle) /\ (src \in Versions => CollectInv(Idle))
<1>1. ShapeInv(Idle)
  BY DEF ShapeInv, Idle
<1>2. CollectInv(Idle)
  BY DEF CollectInv, Idle, NoRecords
<1> QED
  BY <1>1, <1>2

LEMMA AdvanceFields ==
  ASSUME NEW s \in RunState
  PROVE  LET t == Advance(s) IN
         /\ t.strategy = s.strategy /\ t.last = s.last /\ t.total = s.total
         /\ t.batch = s.batch /\ t.buffer = s.buffer /\ t.ids = s.ids
         /\ t.orphans = s.orphans /\ t.quiet = s.quiet /\ t.whole = s.whole
         /\ s.page < s.total => t.pc = "fetch" /\ t.page = s.page + 1
         /\ ~(s.page < s.total) => t.pc = AfterLoop(s) /\ t.page = s.page
BY DEF Advance, RunState

LEMMA AdvanceShape ==
  ASSUME NEW s \in RunState, s.batch = NoRecords, s.orphans = {},
         s.strategy # "overwrite" => s.buffer = NoRecords
  PROVE  ShapeInv(Advance(s))
<1> DEFINE t == Advance(s)
<1>1. FullLoad(t) = FullLoad(s)
  BY AdvanceFields, WantedSame
<1>2. s.page \in Nat \ {0}
  BY DEF RunState
<1>3. s.page + 1 # 1
  BY <1>2
<1> QED
  BY AdvanceFields, <1>1, <1>3, AfterLoopType DEF ShapeInv, AfterLoop, Idle

\* Leaving a page that is done leaves the pages before the next one done, and
\* leaving the last page leaves all of them done.
LEMMA AdvanceCollect ==
  ASSUME NEW s \in RunState, s.orphans = {},
         s.quiet => \A k \in Keys : s.buffer[k] # 0 => s.buffer[k] = src[k],
         Clean(s) => s.total = TotalPages(Wanted(s)),
         Clean(s) => \A k \in Wanted(s) :
                       PageOf(k, Wanted(s)) <= s.page => Collected(s, k)
  PROVE  CollectInv(Advance(s))
<1> DEFINE t == Advance(s)
           W == Wanted(s)
<1>0. s.page \in Nat /\ s.total \in Nat
  BY DEF RunState
<1>1. Wanted(t) = W /\ (Clean(t) <=> Clean(s))
  BY AdvanceFields, WantedSame DEF Clean
<1>2. \A k : Collected(t, k) = Collected(s, k)
  BY AdvanceFields DEF Collected
<1>3. \A k \in W : PageOf(k, W) \in Nat /\ PageOf(k, W) <= TotalPages(W)
  BY WantedType, PageInRange
<1>4. TotalPages(W) \in Nat
  BY WantedType, TotalPagesType
<1>5. ASSUME Clean(s), NEW k \in W, t.pc = "fetch" => PageOf(k, W) < t.page
      PROVE  Collected(t, k)
  <2>1. PageOf(k, W) <= s.page
    BY <1>5, <1>0, <1>3, <1>4, AdvanceFields
  <2> QED
    BY <1>5, <1>2, <2>1
<1> HIDE DEF W
<1>6. t.pc \in {"fetch", "overwrite", "orphans", "finish"}
  BY AdvanceFields, AfterLoopType
<1>7. t.quiet => \A k \in Keys : t.buffer[k] # 0 => t.buffer[k] = src[k]
  BY AdvanceFields
<1>8. Clean(t) => t.total = TotalPages(W) /\ t.orphans = {}
  BY <1>1, AdvanceFields DEF W
<1> HIDE DEF t
<1>9. ASSUME Clean(t), NEW k \in Wanted(t)
      PROVE  /\ t.pc = "fetch" /\ PageOf(k, Wanted(t)) < t.page => Collected(t, k)
             /\ t.pc = "write" /\ PageOf(k, Wanted(t)) <= t.page => Collected(t, k)
             /\ t.pc \in {"overwrite", "orphans", "finish"} => Collected(t, k)
  BY <1>1, <1>5, <1>6, <1>9
<1>10. CollectInv(t)
  BY <1>1, <1>7, <1>8, <1>9 DEF CollectInv
<1> QED
  BY <1>10 DEF t

LEMMA WantedPresent ==
  ASSUME now \in Nat, src \in Versions, NEW s \in RunState, NEW k \in Wanted(s)
  PROVE  src[k] # 0
BY DEF Wanted, FullLoad, RunState, Versions

\* Dealing with one record of a page keeps what the run has collected.
LEMMA RestPages ==
  ASSUME now \in Nat, NEW s \in RunState, NEW k \in Keys, s.pc = "write",
         ShapeInv(s), CollectInv(s)
  PROVE  ShapeInv(Rest(s, k)) /\ CollectInv(Rest(s, k))
<1> DEFINE u == [s EXCEPT !.batch = [@ EXCEPT ![k] = 0]]
<1>1. u \in RunState /\ u.batch \in Versions
  BY DEF RunState, Versions
<1>2. /\ u.pc = "write" /\ u.strategy = s.strategy /\ u.last = s.last /\ u.page = s.page
      /\ u.total = s.total /\ u.buffer = s.buffer /\ u.ids = s.ids
      /\ u.orphans = s.orphans /\ u.quiet = s.quiet /\ u.whole = s.whole
  BY DEF RunState
<1>3. Wanted(u) = Wanted(s) /\ (Clean(u) <=> Clean(s)) /\ FullLoad(u) = FullLoad(s)
  BY <1>2, WantedSame DEF Clean
<1>4. \A j : Collected(u, j) = Collected(s, j)
  BY <1>2 DEF Collected
<1> HIDE DEF u
<1>5. ShapeInv(u)
  BY <1>2 DEF ShapeInv
<1>6. CollectInv(u)
  BY <1>2, <1>3, <1>4 DEF CollectInv
<1>7. CASE Recs(u.batch) = {}
  <2>1. u.batch = NoRecords
    BY <1>1, <1>7 DEF Recs, NoRecords, Versions
  <2>2. ShapeInv(Advance(u))
    BY <1>1, <1>2, <1>5, <2>1, AdvanceShape DEF ShapeInv
  <2>3. CollectInv(Advance(u))
    <3>1. Clean(u) => u.total = TotalPages(Wanted(u))
      BY <1>2, <1>6 DEF CollectInv
    <3>2. Clean(u) => \A j \in Wanted(u) : PageOf(j, Wanted(u)) <= u.page => Collected(u, j)
      BY <1>2, <1>6 DEF CollectInv
    <3>3. u.quiet => \A j \in Keys : u.buffer[j] # 0 => u.buffer[j] = src[j]
      BY <1>6 DEF CollectInv
    <3> QED
      BY <1>1, <1>2, <1>5, <3>1, <3>2, <3>3, AdvanceCollect DEF ShapeInv
  <2> QED
    BY <1>7, <2>2, <2>3 DEF Rest, u
<1>8. CASE Recs(u.batch) # {}
  BY <1>5, <1>6, <1>8 DEF Rest, u
<1> QED
  BY <1>7, <1>8

\* The invariant of the runs after a step that keeps the source.
LEMMA PagesKept ==
  ASSUME UNCHANGED src, \A q \in Runs : ShapeInv(run'[q]) /\ CollectInv(run'[q])
  PROVE  PagesInv'
<1> SUFFICES ASSUME NEW q \in Runs PROVE ShapeInv(run[q])' /\ CollectInv(run[q])'
  BY DEF PagesInv
<1>1. ShapeInv(run'[q]) /\ CollectInv(run'[q])
  OBVIOUS
<1> QED
  BY <1>1 DEF ShapeInv, CollectInv, Collected, Wanted, FullLoad, Clean

LEMMA PagesStep ==
  ASSUME PagesInv, run \in [Runs -> RunState], UNCHANGED src,
         NEW r \in Runs, NEW t, SetRun(r, t), ShapeInv(t), CollectInv(t)
  PROVE  PagesInv'
<1>1. \A q \in Runs : run'[q] = IF q = r THEN t ELSE run[q]
  BY DEF SetRun
<1>2. \A q \in Runs : ShapeInv(run'[q]) /\ CollectInv(run'[q])
  BY <1>1 DEF PagesInv
<1> QED
  BY <1>2, PagesKept

LEMMA PagesEnvironment ==
  ASSUME TypeOK, PagesInv, Environment PROVE PagesInv'
<1>1. ASSUME run' = Disturbed PROVE PagesInv'
  <2> SUFFICES ASSUME NEW r \in Runs PROVE ShapeInv(run[r])' /\ CollectInv(run[r])'
    BY DEF PagesInv
  <2> DEFINE s == run[r]
             t == [s EXCEPT !.quiet = @ /\ ~Begun(s)]
  <2>1. run'[r] = t /\ s \in RunState
    BY <1>1 DEF Disturbed, TypeOK
  <2>2. ShapeInv(s) /\ CollectInv(s)
    BY DEF PagesInv
  <2>3. CASE Begun(s)
    <3>1. t.quiet = FALSE /\ ~Clean(t)
      BY <2>1, <2>3 DEF Clean, RunState
    <3>2. ShapeInv(t)
      BY <2>1, <2>2, <2>3 DEF ShapeInv, RunState, FullLoad, Begun
    <3> QED
      BY <2>1, <3>1, <3>2 DEF ShapeInv, CollectInv, FullLoad, Clean
  <2>4. CASE ~Begun(s)
    <3>1. t = s
      BY <2>1, <2>4 DEF RunState
    <3>2. \A k \in Keys : s.buffer[k] = 0
      BY <2>2, <2>4 DEF ShapeInv, Begun, Idle, NoRecords
    <3>3. s.orphans = {}
      BY <2>2, <2>4 DEF ShapeInv, Begun
    <3>4. \A k \in Wanted(s)' : PageOf(k, Wanted(s)') >= 1 /\ PageOf(k, Wanted(s)') \in Nat
      BY PageInRange DEF Wanted
    <3>5. s.pc = "idle" \/ (s.pc = "fetch" /\ s.page = 1)
      BY <2>4 DEF Begun
    <3>6. s.pc # "write" /\ s.pc \notin {"overwrite", "orphans", "finish"}
          /\ ~(s.pc = "fetch" /\ s.page > 1)
      BY <3>5
    <3>7. CollectInv(run[r])'
      BY <2>1, <3>1, <3>2, <3>3, <3>4, <3>5, <3>6 DEF CollectInv, Wanted, FullLoad, Clean
    <3>8. ShapeInv(run[r])'
      BY <2>1, <2>2, <3>1 DEF ShapeInv, FullLoad
    <3> QED
      BY <3>7, <3>8
  <2> QED
    BY <2>3, <2>4
<1>2. ASSUME UNCHANGED <<src, run>> PROVE PagesInv'
  BY <1>2, PagesKept DEF PagesInv
<1>3. CASE Restart
  <2>1. \A r \in Runs : run'[r] = Idle
    BY <1>3 DEF Restart
  <2>2. ShapeInv(Idle) /\ CollectInv(Idle)
    BY IdleInv DEF TypeOK
  <2>3. UNCHANGED src
    BY <1>3 DEF Restart
  <2> QED
    BY <2>1, <2>2, <2>3, PagesKept
<1>4. CASE \E k \in Keys : Edit(k) \/ Remove(k)
  BY <1>1, <1>4 DEF Edit, Remove
<1>5. CASE AddField \/ RunDetector \/ MarkAsStable
  BY <1>2, <1>5 DEF AddField, RunDetector, MarkAsStable
<1>6. CASE \E strategy \in Strategies : UpdateSyncStrategy(strategy)
  BY <1>2, <1>6 DEF UpdateSyncStrategy
<1> QED
  BY <1>3, <1>4, <1>5, <1>6 DEF Environment

LEMMA PayloadRecord ==
  ASSUME NEW s, NEW k \in Keys
  PROVE  /\ Payload(s)[k] # 0 => Payload(s)[k] = src[k] /\ k \in Wanted(s)
         /\ k \in Wanted(s) /\ PageOf(k, Wanted(s)) = s.page => Payload(s)[k] = src[k]
BY DEF Payload

LEMMA FetchedFields ==
  ASSUME NEW s \in RunState
  PROVE  LET t == Fetched(s) IN
         /\ t.pc = s.pc /\ t.strategy = s.strategy /\ t.last = s.last
         /\ t.page = s.page /\ t.batch = s.batch /\ t.buffer = s.buffer
         /\ t.ids = s.ids /\ t.orphans = s.orphans
         /\ t.quiet = s.quiet /\ t.whole = s.whole
         /\ t.total = IF s.page = 1 THEN TotalPages(Wanted(s)) ELSE s.total
BY DEF Fetched, RunState

\* Reading a page collects it.
LEMMA FetchForUpsertPages ==
  ASSUME TypeOK, PagesInv, NEW r \in Runs, FetchForUpsert(r) PROVE PagesInv'
<1> DEFINE s == run[r]
           t == [Fetched(s) EXCEPT !.pc = "write", !.batch = Payload(s),
                                   !.ids = @ \cup Recs(Payload(s))]
           W == Wanted(s)
<1>0. s \in RunState /\ ShapeInv(s) /\ CollectInv(s) /\ now \in Nat /\ src \in Versions
      /\ s.page \in Nat \ {0}
  BY DEF TypeOK, PagesInv, RunState
<1>1. s.pc = "fetch" /\ s.strategy # "overwrite" /\ SetRun(r, t) /\ UNCHANGED src
  BY DEF FetchForUpsert
<1>2. /\ t.pc = "write" /\ t.strategy = s.strategy /\ t.last = s.last /\ t.page = s.page
      /\ t.total = (IF s.page = 1 THEN TotalPages(W) ELSE s.total)
      /\ t.buffer = s.buffer /\ t.ids = s.ids \cup Recs(Payload(s))
      /\ t.orphans = s.orphans /\ t.quiet = s.quiet /\ t.whole = s.whole
  BY <1>0, FetchedType, FetchedFields DEF RunState
<1>3. Wanted(t) = W /\ (Clean(t) <=> Clean(s)) /\ FullLoad(t) = FullLoad(s)
  BY <1>2, WantedSame DEF Clean
<1> HIDE DEF t
<1>4. ShapeInv(t)
  BY <1>0, <1>1, <1>2 DEF ShapeInv
<1>5. Clean(s) => t.total = TotalPages(W)
  BY <1>0, <1>1, <1>2 DEF CollectInv
<1>6. ASSUME Clean(s), NEW k \in W, PageOf(k, W) <= s.page PROVE Collected(t, k)
  <2>1. PageOf(k, W) \in Nat /\ k \in Keys
    BY WantedType, PageInRange
  <2>2. CASE PageOf(k, W) < s.page
    <3>1. Collected(s, k)
      BY <1>0, <1>1, <1>6, <2>2 DEF CollectInv
    <3> QED
      BY <1>1, <1>2, <3>1 DEF Collected
  <2>3. CASE PageOf(k, W) = s.page
    <3>1. Payload(s)[k] = src[k] /\ src[k] # 0
      BY <1>0, <2>1, <2>3, PayloadRecord, WantedPresent
    <3> QED
      BY <1>1, <1>2, <2>1, <3>1 DEF Collected, Recs
  <2> QED
    BY <1>0, <1>6, <2>1, <2>2, <2>3
<1>7. CollectInv(t)
  BY <1>0, <1>2, <1>3, <1>5, <1>6 DEF CollectInv
<1> QED
  BY <1>1, <1>4, <1>7, PagesStep DEF TypeOK

LEMMA FetchForOverwritePages ==
  ASSUME TypeOK, PagesInv, NEW r \in Runs, FetchForOverwrite(r) PROVE PagesInv'
<1> DEFINE s == run[r]
           t == [Fetched(s) EXCEPT !.buffer = Merge(@, Payload(s))]
           W == Wanted(s)
<1>0. s \in RunState /\ ShapeInv(s) /\ CollectInv(s) /\ now \in Nat /\ src \in Versions
      /\ s.page \in Nat \ {0}
  BY DEF TypeOK, PagesInv, RunState
<1>1. s.pc = "fetch" /\ s.strategy = "overwrite" /\ SetRun(r, Advance(t)) /\ UNCHANGED src
  BY DEF FetchForOverwrite
<1>2. /\ t.pc = "fetch" /\ t.strategy = s.strategy /\ t.last = s.last /\ t.page = s.page
      /\ t.total = (IF s.page = 1 THEN TotalPages(W) ELSE s.total)
      /\ t.buffer = Merge(s.buffer, Payload(s)) /\ t.ids = s.ids /\ t.batch = s.batch
      /\ t.orphans = s.orphans /\ t.quiet = s.quiet /\ t.whole = s.whole
  BY <1>0, <1>1, FetchedType, FetchedFields DEF RunState
<1>3. Wanted(t) = W /\ (Clean(t) <=> Clean(s))
  BY <1>2, WantedSame DEF Clean
<1>4. t \in RunState
  <2>1. Fetched(s) \in RunState /\ Merge(Fetched(s).buffer, Payload(s)) \in Versions
    BY <1>0, FetchedType, PayloadType DEF RunState, Merge, Versions
  <2> QED
    BY <2>1 DEF RunState
<1> HIDE DEF t
<1>5. Clean(s) => t.total = TotalPages(W)
  BY <1>0, <1>1, <1>2 DEF CollectInv
<1>6. ASSUME t.quiet, NEW k \in Keys, t.buffer[k] # 0 PROVE t.buffer[k] = src[k]
  <2>1. s.buffer[k] # 0 => s.buffer[k] = src[k]
    BY <1>0, <1>2, <1>6 DEF CollectInv
  <2> QED
    BY <1>2, <1>6, <2>1, PayloadRecord DEF Merge
<1>7. ASSUME Clean(s), NEW k \in W, PageOf(k, W) <= s.page PROVE Collected(t, k)
  <2>1. PageOf(k, W) \in Nat /\ k \in Keys /\ src[k] # 0
    BY <1>0, WantedType, PageInRange, WantedPresent
  <2>2. CASE PageOf(k, W) < s.page
    <3>1. s.buffer[k] = src[k]
      BY <1>0, <1>1, <1>7, <2>2 DEF CollectInv, Collected
    <3> QED
      BY <1>1, <1>2, <2>1, <3>1 DEF Collected, Merge
  <2>3. CASE PageOf(k, W) = s.page
    <3>1. Payload(s)[k] = src[k]
      BY <2>1, <2>3, PayloadRecord
    <3>2. s.buffer[k] # 0 => s.buffer[k] = src[k]
      BY <1>0, <1>7, <2>1 DEF CollectInv, Clean
    <3> QED
      BY <1>1, <1>2, <2>1, <3>1, <3>2 DEF Collected, Merge
  <2> QED
    BY <1>0, <1>7, <2>1, <2>2, <2>3
<1>8. CollectInv(Advance(t))
  <2>1. Clean(t) => \A k \in Wanted(t) : PageOf(k, Wanted(t)) <= t.page => Collected(t, k)
    BY <1>2, <1>3, <1>7
  <2>2. t.orphans = {} /\ (Clean(t) => t.total = TotalPages(Wanted(t)))
    BY <1>0, <1>1, <1>2, <1>3, <1>5 DEF ShapeInv
  <2> QED
    BY <1>4, <1>6, <2>1, <2>2, AdvanceCollect
<1>9. ShapeInv(Advance(t))
  BY <1>0, <1>1, <1>2, <1>4, AdvanceShape DEF ShapeInv
<1> QED
  BY <1>1, <1>8, <1>9, PagesStep DEF TypeOK

\* The steps that leave the page loop, and those behind it.
LEMMA LeaveLoopPages ==
  ASSUME TypeOK, PagesInv, NEW r \in Runs,
         PageMismatch(r) \/ EmptyPage(r) \/ Overwrite(r) \/ DetectOrphans(r)
  PROVE  PagesInv'
<1> DEFINE s == run[r]
<1>0. s \in RunState /\ ShapeInv(s) /\ CollectInv(s) /\ now \in Nat /\ src \in Versions
  BY DEF TypeOK, PagesInv
<1>1. ASSUME s.pc = "fetch", UNCHANGED src, NEW b \in BOOLEAN, b => Wanted(s) = {},
             SetRun(r, [s EXCEPT !.pc = AfterLoop(s), !.whole = b])
      PROVE  PagesInv'
  <2> DEFINE t == [s EXCEPT !.pc = AfterLoop(s), !.whole = b]
  <2>1. /\ t.pc = AfterLoop(s) /\ t.strategy = s.strategy /\ t.last = s.last
        /\ t.buffer = s.buffer /\ t.ids = s.ids /\ t.batch = s.batch
        /\ t.orphans = s.orphans /\ t.quiet = s.quiet /\ t.whole = b
    BY <1>0 DEF RunState
  <2>2. Wanted(t) = Wanted(s) /\ FullLoad(t) = FullLoad(s)
    BY <2>1, WantedSame
  <2> HIDE DEF t
  <2>3. ShapeInv(t)
    BY <1>0, <1>1, <2>1, <2>2 DEF ShapeInv, AfterLoop
  <2>4. Clean(t) => Wanted(t) = {}
    BY <1>1, <2>1, <2>2 DEF Clean
  <2>5. CollectInv(t)
    <3>1. t.pc # "write" /\ t.pc # "fetch" /\ t.orphans = {}
      BY <1>0, <1>1, <2>1, AfterLoopType DEF ShapeInv
    <3> QED
      BY <1>0, <2>1, <2>4, <3>1 DEF CollectInv
  <2> QED
    BY <1>1, <2>3, <2>5, PagesStep DEF TypeOK, t
<1>2. CASE PageMismatch(r)
  BY <1>1, <1>2 DEF PageMismatch
<1>3. CASE EmptyPage(r)
  <2>1. SetRun(r, [s EXCEPT !.pc = AfterLoop(s), !.whole = (s.whole /\ Wanted(s) = {})])
        /\ s.pc = "fetch" /\ UNCHANGED src
    BY <1>3 DEF EmptyPage
  <2>2. (s.whole /\ Wanted(s) = {}) \in BOOLEAN
    OBVIOUS
  <2> QED
    BY <1>1, <2>1, <2>2
<1>4. CASE Overwrite(r)
  <2> DEFINE t == [s EXCEPT !.pc = "finish", !.whole = @ /\ model]
  <2>1. /\ t.pc = "finish" /\ t.strategy = s.strategy /\ t.last = s.last
        /\ t.buffer = s.buffer /\ t.ids = s.ids /\ t.batch = s.batch
        /\ t.orphans = s.orphans /\ t.quiet = s.quiet /\ (t.whole => s.whole)
    BY <1>0 DEF RunState
  <2>2. Wanted(t) = Wanted(s)
    BY <2>1, WantedSame
  <2>3. s.pc = "overwrite" /\ SetRun(r, t) /\ UNCHANGED src
    BY <1>4 DEF Overwrite
  <2> HIDE DEF t
  <2>4. ShapeInv(t)
    BY <1>0, <2>1, <2>3 DEF ShapeInv
  <2>5. CollectInv(t)
    <3>1. s.orphans = {}
      BY <1>0, <2>3 DEF ShapeInv
    <3> QED
      BY <1>0, <2>1, <2>2, <2>3, <3>1 DEF CollectInv, Collected, Clean
  <2> QED
    BY <2>3, <2>4, <2>5, PagesStep DEF TypeOK
<1>5. CASE DetectOrphans(r)
  <2> DEFINE t == [s EXCEPT !.pc = "finish",
                            !.orphans = IF model THEN Recs(dest) \ HasAsColumn(s.ids) ELSE {}]
  <2>1. /\ t.pc = "finish" /\ t.strategy = s.strategy /\ t.last = s.last
        /\ t.buffer = s.buffer /\ t.ids = s.ids /\ t.batch = s.batch
        /\ t.orphans \subseteq Keys \ HasAsColumn(s.ids) /\ t.quiet = s.quiet /\ t.whole = s.whole
    BY <1>0 DEF RunState, Recs
  <2>2. Wanted(t) = Wanted(s) /\ FullLoad(t) = FullLoad(s)
    BY <2>1, WantedSame
  <2>3. s.pc = "orphans" /\ SetRun(r, t) /\ UNCHANGED src
    BY <1>5 DEF DetectOrphans
  <2> HIDE DEF t
  <2>4. ShapeInv(t)
    BY <1>0, <2>1, <2>3 DEF ShapeInv
  <2>5. ASSUME Clean(s), NEW k \in t.orphans PROVE src[k] = 0 \/ k \in Mistyped
    <3> SUFFICES ASSUME k \notin Mistyped PROVE src[k] = 0
      OBVIOUS
    <3>1. FullLoad(s) /\ s.strategy # "overwrite" /\ k \in Keys /\ k \notin s.ids
      BY <1>0, <2>1, <2>3, <2>5 DEF ShapeInv, HasAsColumn
    <3>2. k \notin Wanted(s)
      BY <1>0, <2>3, <2>5, <3>1 DEF CollectInv, Collected
    <3> QED
      BY <1>0, <3>1, <3>2 DEF Wanted, Versions
  <2>6. CollectInv(t)
    BY <1>0, <2>1, <2>2, <2>3, <2>5 DEF CollectInv, Collected, Clean
  <2> QED
    BY <2>3, <2>4, <2>6, PagesStep DEF TypeOK
<1> QED
  BY <1>2, <1>3, <1>4, <1>5

\* The steps that end the run, and those that stay where they are.
LEMMA OtherPages ==
  ASSUME TypeOK, PagesInv, NEW r \in Runs,
         \/ Snapshot(r) \/ FetchFails(r) \/ ContractViolation(r) \/ SchemaDrift(r)
         \/ \E k \in Keys : UpsertRecord(r, k) \/ DeadLetter(r, k)
         \/ NoModelForBatch(r) \/ StoreFails(r) \/ Finish(r)
  PROVE  PagesInv'
<1> DEFINE s == run[r]
<1>0. s \in RunState /\ ShapeInv(s) /\ CollectInv(s) /\ now \in Nat /\ src \in Versions
  BY DEF TypeOK, PagesInv
<1>1. ASSUME UNCHANGED src, SetRun(r, Idle) PROVE PagesInv'
  BY <1>0, <1>1, IdleInv, PagesStep DEF TypeOK
<1>2. CASE Snapshot(r)
  <2> DEFINE t == [Idle EXCEPT !.pc = "fetch", !.strategy = reg.strategy,
                               !.last = reg.lastSync, !.declared = reg.declared]
  <2>1. /\ t.pc = "fetch" /\ t.batch = NoRecords /\ t.buffer = NoRecords
        /\ t.ids = {} /\ t.orphans = {} /\ t.page = 1
    BY DEF Idle
  <2>2. SetRun(r, t) /\ UNCHANGED src
    BY <1>2 DEF Snapshot
  <2> HIDE DEF t
  <2>3. ShapeInv(t)
    BY <2>1 DEF ShapeInv
  <2>4. \A k \in Wanted(t) : ~(PageOf(k, Wanted(t)) < t.page)
    BY <2>1, WantedType, PageInRange
  <2>5. \A k \in Keys : t.buffer[k] = 0
    BY <2>1 DEF NoRecords
  <2>6. CollectInv(t)
    BY <2>1, <2>4, <2>5 DEF CollectInv
  <2> QED
    BY <2>2, <2>3, <2>6, PagesStep DEF TypeOK
<1>3. CASE FetchFails(r)
  <2> DEFINE t == [s EXCEPT !.attempt = @ + 1]
  <2>1. /\ t.pc = s.pc /\ t.strategy = s.strategy /\ t.last = s.last /\ t.page = s.page
        /\ t.total = s.total /\ t.buffer = s.buffer /\ t.batch = s.batch /\ t.ids = s.ids
        /\ t.orphans = s.orphans /\ t.quiet = s.quiet /\ t.whole = s.whole
    BY <1>0 DEF RunState
  <2>2. Wanted(t) = Wanted(s) /\ FullLoad(t) = FullLoad(s)
    BY <2>1, WantedSame
  <2>3. s.pc = "fetch" /\ (SetRun(r, t) \/ SetRun(r, Idle)) /\ UNCHANGED src
    BY <1>3 DEF FetchFails, Fail
  <2> HIDE DEF t
  <2>4. ShapeInv(t)
    BY <1>0, <2>1, <2>2, <2>3 DEF ShapeInv
  <2>5. CollectInv(t)
    BY <1>0, <2>1, <2>2 DEF CollectInv, Collected, Clean
  <2> QED
    BY <1>1, <2>3, <2>4, <2>5, PagesStep DEF TypeOK
<1>4. CASE ContractViolation(r) \/ SchemaDrift(r) \/ StoreFails(r) \/ Finish(r)
  BY <1>1, <1>4 DEF ContractViolation, SchemaDrift, StoreFails, Finish, Fail
<1>5. ASSUME NEW k \in Keys, UpsertRecord(r, k) PROVE PagesInv'
  <2>1. s.pc = "write" /\ SetRun(r, Rest(s, k)) /\ UNCHANGED src
    BY <1>5 DEF UpsertRecord
  <2> QED
    BY <1>0, <2>1, RestPages, PagesStep DEF TypeOK
<1>6. ASSUME NEW k \in Keys, DeadLetter(r, k) PROVE PagesInv'
  <2> DEFINE u == [s EXCEPT !.whole = FALSE]
  <2>1. s.pc = "write" /\ SetRun(r, Rest(u, k)) /\ UNCHANGED src
    BY <1>6 DEF DeadLetter
  <2>2. /\ u \in RunState /\ u.pc = s.pc /\ u.strategy = s.strategy /\ u.last = s.last
        /\ u.page = s.page /\ u.total = s.total /\ u.buffer = s.buffer
        /\ u.batch = s.batch /\ u.ids = s.ids /\ u.orphans = s.orphans
        /\ u.quiet = s.quiet /\ u.whole = FALSE
    BY <1>0 DEF RunState
  <2>3. FullLoad(u) = FullLoad(s)
    BY <2>2, WantedSame
  <2> HIDE DEF u
  <2>4. ShapeInv(u) /\ CollectInv(u)
    BY <1>0, <2>1, <2>2, <2>3 DEF ShapeInv, CollectInv, Clean
  <2> QED
    BY <1>0, <2>1, <2>2, <2>4, RestPages, PagesStep DEF TypeOK
<1>7. CASE NoModelForBatch(r)
  <2> DEFINE u == [s EXCEPT !.batch = NoRecords, !.whole = FALSE]
  <2>1. s.pc = "write" /\ SetRun(r, Advance(u)) /\ UNCHANGED src
    BY <1>7 DEF NoModelForBatch
  <2>2. /\ u \in RunState /\ u.strategy = s.strategy /\ u.buffer = s.buffer
        /\ u.batch = NoRecords /\ u.orphans = s.orphans
        /\ u.quiet = s.quiet /\ u.whole = FALSE
    BY <1>0, NoRecordsType DEF RunState
  <2> HIDE DEF u
  <2>3. ShapeInv(Advance(u))
    BY <1>0, <2>1, <2>2, AdvanceShape DEF ShapeInv
  <2>4. ~Clean(u) /\ u.orphans = {}
    BY <1>0, <2>1, <2>2 DEF Clean, ShapeInv
  <2>5. u.quiet => \A k \in Keys : u.buffer[k] # 0 => u.buffer[k] = src[k]
    BY <1>0, <2>2 DEF CollectInv
  <2>6. CollectInv(Advance(u))
    BY <2>2, <2>4, <2>5, AdvanceCollect
  <2> QED
    BY <2>1, <2>3, <2>6, PagesStep DEF TypeOK
<1> QED
  BY <1>2, <1>3, <1>4, <1>5, <1>6, <1>7

\* What an undisturbed run has collected page by page is what the source lists.
THEOREM PagesInvariant == Spec => []PagesInv
<1>1. Init => PagesInv
  <2> SUFFICES ASSUME Init PROVE PagesInv
    OBVIOUS
  <2>1. src \in Versions
    BY InitType DEF TypeOK
  <2> QED
    BY <2>1, IdleInv DEF Init, PagesInv
<1>2. TypeOK /\ PagesInv /\ [Next]_vars => PagesInv'
  <2> SUFFICES ASSUME TypeOK, PagesInv, [Next]_vars PROVE PagesInv'
    OBVIOUS
  <2>1. CASE UNCHANGED vars
    BY <2>1, PagesKept DEF vars, PagesInv
  <2>2. CASE Environment
    BY <2>2, PagesEnvironment
  <2>3. ASSUME NEW r \in Runs, Snapshot(r) \/ SyncStep(r) PROVE PagesInv'
    BY <2>3, FetchForUpsertPages, FetchForOverwritePages, LeaveLoopPages, OtherPages
       DEF SyncStep
  <2> QED
    BY <2>1, <2>2, <2>3 DEF Next
<1> QED
  BY <1>1, <1>2, TypeCorrect, PTL DEF Spec

\* However many runs overlap, and whatever fails, a run whose source kept still
\* and that skipped no page reports as orphans only records that the source lacks or
\* whose keys it sends in another type than the column's.
THEOREM OrphanReportsAreSound == Spec => []OrphansAreGone
<1>1. PagesInv => OrphansAreGone
  BY DEF PagesInv, CollectInv, OrphansAreGone
<1> QED
  BY <1>1, PagesInvariant, PTL

-----------------------------------------------------------------------------
(***************************************************************************)
(* When the runs of the table do not overlap: one pipeline at a time.  The *)
(* assumption is stated in each theorem; with overlapping runs NeverStale  *)
(* does not hold.                                                          *)
(***************************************************************************)
SingleRun == \A p, q \in Runs : p = q

-----------------------------------------------------------------------------
(* Runs that stay in step with the stores                                  *)

\* A step that keeps both tables keeps SyncInv when the run it moves does.
LEMMA RunStep ==
  ASSUME SingleRun, SyncInv, CaughtUp, run \in [Runs -> RunState],
         UNCHANGED <<src, dest, exact>>, reg'.lastSync = reg.lastSync,
         NEW r \in Runs, NEW t, SetRun(r, t), RunInv(t, dest)
  PROVE  SyncInv' /\ CaughtUp'
<1>1. \A q \in Runs : run'[q] = t
  BY DEF SetRun, SingleRun
<1>2. SourceAhead' /\ CaughtUp'
  BY DEF SyncInv, SourceAhead, CaughtUp
<1>3. ASSUME NEW q \in Runs PROVE RunInv(run[q], dest)'
  <2>1. HeldInv(run'[q], dest) /\ FreshInv(run'[q]) /\ WrittenInv(run'[q], dest)
    BY <1>1 DEF RunInv
  <2>2. HeldInv(run[q], dest)' /\ FreshInv(run[q])'
    BY <2>1 DEF HeldInv, FreshInv, Unchanged
  <2>3. WrittenInv(run[q], dest)'
    BY <2>1 DEF WrittenInv, Wanted, FullLoad, Clean
  <2> QED
    BY <2>2, <2>3 DEF RunInv
<1> QED
  BY <1>2, <1>3 DEF SyncInv

\* A run that is about to start holds nothing.
LEMMA IdleRunInv ==
  ASSUME src \in Versions, NEW d PROVE RunInv(Idle, d)
<1>1. HeldInv(Idle, d) /\ FreshInv(Idle)
  BY DEF HeldInv, FreshInv, Idle, NoRecords, Versions
<1>2. WrittenInv(Idle, d)
  BY DEF WrittenInv, Idle
<1> QED
  BY <1>1, <1>2 DEF RunInv

\* Leaving a page whose records are written.
LEMMA AdvanceRunInv ==
  ASSUME now \in Nat, src \in Versions, NEW d, NEW s \in RunState,
         s.batch = NoRecords, s.pc # "idle",
         HeldInv(s, d), FreshInv(s), CollectInv(Advance(s)),
         Clean(s) => s.total = TotalPages(Wanted(s)),
         Clean(s) /\ s.strategy # "overwrite" =>
           \A k \in Wanted(s) : PageOf(k, Wanted(s)) <= s.page => d[k] = src[k]
  PROVE  RunInv(Advance(s), d)
<1> DEFINE t == Advance(s)
           W == Wanted(s)
<1>0. s.page \in Nat /\ s.total \in Nat
  BY DEF RunState
<1>1. Wanted(t) = W /\ FullLoad(t) = FullLoad(s) /\ (Clean(t) <=> Clean(s))
  BY AdvanceFields, WantedSame DEF Clean
<1>2. HeldInv(t, d) /\ FreshInv(t)
  BY AdvanceFields DEF HeldInv, FreshInv
<1>3. \A k \in W : PageOf(k, W) \in Nat /\ PageOf(k, W) <= TotalPages(W) /\ src[k] # 0
  BY WantedType, PageInRange, WantedPresent
<1>4. TotalPages(W) \in Nat
  BY WantedType, TotalPagesType
<1>5. ASSUME Clean(s), s.strategy # "overwrite", NEW k \in W,
             t.pc = "fetch" => PageOf(k, W) < t.page
      PROVE  d[k] = src[k]
  <2>1. PageOf(k, W) <= s.page
    BY <1>0, <1>3, <1>4, <1>5, AdvanceFields
  <2> QED
    BY <1>5, <2>1
<1>6. ASSUME Clean(s), s.strategy = "overwrite", t.pc \in {"orphans", "finish"}
      PROVE  W = {}
  <2>1. t.pc = AfterLoop(s) /\ t.buffer = s.buffer /\ t.strategy = s.strategy
    BY <1>6, AdvanceFields
  <2>2. t.pc = "finish" /\ Recs(s.buffer) = {}
    BY <1>6, <2>1 DEF AfterLoop
  <2>3. \A k \in W : t.buffer[k] = src[k]
    BY <1>1, <1>6, <2>1, <2>2 DEF CollectInv, Collected
  <2> QED
    BY <1>3, <2>1, <2>2, <2>3, WantedType DEF Recs
<1>7. t.strategy = s.strategy /\ t.pc # "write"
  BY AdvanceFields, AfterLoopType
<1> HIDE DEF t, W
<1>8. WrittenInv(t, d)
  BY <1>1, <1>5, <1>6, <1>7 DEF WrittenInv
<1> QED
  BY <1>2, <1>8 DEF RunInv, t

-----------------------------------------------------------------------------
(* The steps of a run                                                      *)

\* A run that starts, an attempt that fails, a table that fails.
LEMMA StartOrFail ==
  ASSUME SingleRun, TypeOK, SyncInv, CaughtUp, NEW r \in Runs,
         \/ Snapshot(r) \/ FetchFails(r) \/ ContractViolation(r)
         \/ SchemaDrift(r) \/ StoreFails(r)
  PROVE  SyncInv' /\ CaughtUp'
<1> DEFINE s == run[r]
<1>0. s \in RunState /\ src \in Versions /\ RunInv(s, dest) /\ run \in [Runs -> RunState]
  BY DEF TypeOK, SyncInv
<1>1. UNCHANGED <<src, dest, exact>> /\ reg'.lastSync = reg.lastSync
  BY DEF Snapshot, FetchFails, ContractViolation, SchemaDrift, StoreFails, DeclareField, TypeOK
<1>2. ASSUME SetRun(r, Idle) PROVE SyncInv' /\ CaughtUp'
  BY <1>0, <1>1, <1>2, IdleRunInv, RunStep
<1>3. CASE Snapshot(r)
  <2> DEFINE t == [Idle EXCEPT !.pc = "fetch", !.strategy = reg.strategy,
                               !.last = reg.lastSync, !.declared = reg.declared]
  <2>1. /\ t.pc = "fetch" /\ t.last = reg.lastSync /\ t.page = 1
        /\ t.batch = NoRecords /\ t.buffer = NoRecords
    BY DEF Idle
  <2>2. SetRun(r, t)
    BY <1>3 DEF Snapshot
  <2> HIDE DEF t
  <2>3. HeldInv(t, dest) /\ FreshInv(t)
    BY <1>0, <2>1 DEF HeldInv, FreshInv, NoRecords, Versions
  <2>4. \A k \in Wanted(t) : ~(PageOf(k, Wanted(t)) < t.page)
    BY <2>1, WantedType, PageInRange
  <2>5. WrittenInv(t, dest)
    BY <2>1, <2>4 DEF WrittenInv
  <2> QED
    BY <1>0, <1>1, <2>2, <2>3, <2>5, RunStep DEF RunInv
<1>4. CASE FetchFails(r)
  <2> DEFINE t == [s EXCEPT !.attempt = @ + 1]
  <2>1. /\ t.pc = s.pc /\ t.strategy = s.strategy /\ t.last = s.last /\ t.page = s.page
        /\ t.buffer = s.buffer /\ t.batch = s.batch
        /\ t.quiet = s.quiet /\ t.whole = s.whole
    BY <1>0 DEF RunState
  <2>2. Wanted(t) = Wanted(s) /\ (Clean(t) <=> Clean(s))
    BY <2>1, WantedSame DEF Clean
  <2>3. SetRun(r, t) \/ SetRun(r, Idle)
    BY <1>4 DEF FetchFails, Fail
  <2> HIDE DEF t
  <2>4. RunInv(t, dest)
    BY <1>0, <2>1, <2>2 DEF RunInv, HeldInv, FreshInv, WrittenInv
  <2> QED
    BY <1>0, <1>1, <1>2, <2>3, <2>4, RunStep
<1>5. CASE ContractViolation(r) \/ SchemaDrift(r) \/ StoreFails(r)
  BY <1>2, <1>5 DEF ContractViolation, SchemaDrift, StoreFails, Fail
<1> QED
  BY <1>3, <1>4, <1>5

\* The exits of the page loop and the orphan query.
LEMMA LeaveLoop ==
  ASSUME SingleRun, TypeOK, PagesInv, SyncInv, CaughtUp, NEW r \in Runs,
         PageMismatch(r) \/ EmptyPage(r) \/ DetectOrphans(r)
  PROVE  SyncInv' /\ CaughtUp'
<1> DEFINE s == run[r]
<1>0. /\ s \in RunState /\ src \in Versions /\ RunInv(s, dest)
      /\ run \in [Runs -> RunState] /\ ShapeInv(s)
  BY DEF TypeOK, SyncInv, PagesInv
<1>1. UNCHANGED <<src, dest, exact>> /\ reg'.lastSync = reg.lastSync
  BY DEF PageMismatch, EmptyPage, DetectOrphans
<1>2. ASSUME NEW b \in BOOLEAN, b => Wanted(s) = {}, s.pc = "fetch",
             SetRun(r, [s EXCEPT !.pc = AfterLoop(s), !.whole = b])
      PROVE  SyncInv' /\ CaughtUp'
  <2> DEFINE t == [s EXCEPT !.pc = AfterLoop(s), !.whole = b]
  <2>1. /\ t.strategy = s.strategy /\ t.last = s.last /\ t.buffer = s.buffer
        /\ t.batch = s.batch /\ t.quiet = s.quiet /\ t.whole = b
    BY <1>0 DEF RunState
  <2>2. Wanted(t) = Wanted(s)
    BY <2>1, WantedSame
  <2> HIDE DEF t
  <2>3. HeldInv(t, dest) /\ FreshInv(t)
    BY <1>0, <1>2, <2>1 DEF RunInv, HeldInv, FreshInv
  <2>4. WrittenInv(t, dest)
    BY <1>2, <2>1, <2>2 DEF WrittenInv, Clean
  <2> QED
    BY <1>0, <1>1, <1>2, <2>3, <2>4, RunStep DEF RunInv, t
<1>3. CASE PageMismatch(r)
  BY <1>2, <1>3 DEF PageMismatch
<1>4. CASE EmptyPage(r)
  <2>1. SetRun(r, [s EXCEPT !.pc = AfterLoop(s), !.whole = (s.whole /\ Wanted(s) = {})])
        /\ s.pc = "fetch"
    BY <1>4 DEF EmptyPage
  <2>2. (s.whole /\ Wanted(s) = {}) \in BOOLEAN
    OBVIOUS
  <2> QED
    BY <1>2, <2>1, <2>2
<1>5. CASE DetectOrphans(r)
  <2> DEFINE t == [s EXCEPT !.pc = "finish",
                            !.orphans = IF model THEN Recs(dest) \ HasAsColumn(s.ids) ELSE {}]
  <2>1. /\ t.pc = "finish" /\ t.strategy = s.strategy /\ t.last = s.last
        /\ t.buffer = s.buffer /\ t.batch = s.batch
        /\ t.quiet = s.quiet /\ t.whole = s.whole
    BY <1>0 DEF RunState
  <2>2. Wanted(t) = Wanted(s) /\ (Clean(t) <=> Clean(s))
    BY <2>1, WantedSame DEF Clean
  <2>3. s.pc = "orphans" /\ SetRun(r, t)
    BY <1>5 DEF DetectOrphans
  <2> HIDE DEF t
  <2>4. RunInv(t, dest)
    BY <1>0, <2>1, <2>2, <2>3 DEF RunInv, HeldInv, FreshInv, WrittenInv
  <2> QED
    BY <1>0, <1>1, <2>3, <2>4, RunStep
<1> QED
  BY <1>3, <1>4, <1>5

\* A page in memory is the source's, and no older than the destination.
LEMMA ReadPage ==
  ASSUME SingleRun, TypeOK, PagesInv, PagesInv', SyncInv, CaughtUp, NEW r \in Runs,
         FetchForUpsert(r) \/ FetchForOverwrite(r)
  PROVE  SyncInv' /\ CaughtUp'
<1> DEFINE s == run[r]
           W == Wanted(s)
<1>0. /\ s \in RunState /\ src \in Versions /\ dest \in Versions /\ now \in Nat
      /\ RunInv(s, dest) /\ SourceAhead
      /\ run \in [Runs -> RunState] /\ ShapeInv(s) /\ CollectInv(s) /\ s.pc = "fetch"
  BY DEF TypeOK, SyncInv, PagesInv, FetchForUpsert, FetchForOverwrite
<1>1. UNCHANGED <<src, dest, exact>> /\ reg'.lastSync = reg.lastSync
  BY DEF FetchForUpsert, FetchForOverwrite
<1>2. \A k \in Keys : Payload(s)[k] # 0 => Payload(s)[k] = src[k] /\ dest[k] <= src[k]
  BY <1>0, PayloadRecord DEF SourceAhead
<1>3. Payload(s) \in Versions
  BY <1>0, PayloadType
<1>4. CASE FetchForUpsert(r)
  <2> DEFINE t == [Fetched(s) EXCEPT !.pc = "write", !.batch = Payload(s),
                                     !.ids = @ \cup Recs(Payload(s))]
  <2>1. /\ t.pc = "write" /\ t.strategy = s.strategy /\ t.last = s.last
        /\ t.page = s.page /\ t.buffer = s.buffer /\ t.batch = Payload(s)
        /\ t.quiet = s.quiet /\ t.whole = s.whole
    BY <1>0, FetchedType, FetchedFields DEF RunState
  <2>2. SetRun(r, t) /\ s.strategy # "overwrite"
    BY <1>4 DEF FetchForUpsert
  <2>3. Wanted(t) = W /\ (Clean(t) <=> Clean(s))
    BY <2>1, WantedSame DEF Clean
  <2> HIDE DEF t
  <2>4. HeldInv(t, dest)
    BY <1>0, <1>2, <1>3, <2>1 DEF RunInv, HeldInv, Versions
  <2>5. FreshInv(t)
    BY <1>0, <1>2, <2>1 DEF RunInv, FreshInv
  <2>6. \A k \in W : PageOf(k, W) = s.page => Payload(s)[k] = src[k]
    BY WantedType, PayloadRecord
  <2>7. WrittenInv(t, dest)
    BY <1>0, <2>1, <2>2, <2>3, <2>6 DEF RunInv, WrittenInv
  <2> QED
    BY <1>0, <1>1, <2>2, <2>4, <2>5, <2>7, RunStep DEF RunInv
<1>5. CASE FetchForOverwrite(r)
  <2> DEFINE t == [Fetched(s) EXCEPT !.buffer = Merge(@, Payload(s))]
  <2>1. /\ t.pc = s.pc /\ t.strategy = s.strategy /\ t.last = s.last
        /\ t.page = s.page /\ t.batch = s.batch
        /\ t.buffer = Merge(s.buffer, Payload(s))
        /\ t.quiet = s.quiet /\ t.whole = s.whole
        /\ t.total = IF s.page = 1 THEN TotalPages(W) ELSE s.total
    BY <1>0, FetchedType, FetchedFields DEF RunState
  <2>2. SetRun(r, Advance(t)) /\ s.strategy = "overwrite"
    BY <1>5 DEF FetchForOverwrite
  <2>3. Wanted(t) = W /\ (Clean(t) <=> Clean(s))
    BY <2>1, WantedSame DEF Clean
  <2>4. t \in RunState
    <3>1. Fetched(s) \in RunState /\ Merge(Fetched(s).buffer, Payload(s)) \in Versions
      BY <1>0, <1>3, FetchedType DEF RunState, Merge, Versions
    <3> QED
      BY <3>1 DEF RunState
  <2> HIDE DEF t
  <2>5. HeldInv(t, dest)
    BY <1>0, <1>2, <1>3, <2>1 DEF RunInv, HeldInv, Merge, Versions, RunState
  <2>6. FreshInv(t)
    BY <1>0, <1>2, <2>1 DEF RunInv, FreshInv, Merge
  <2>7. Clean(t) => t.total = TotalPages(Wanted(t))
    BY <1>0, <2>1, <2>3 DEF CollectInv, RunState
  <2>8. CollectInv(Advance(t))
    <3>1. run'[r] = Advance(t) /\ CollectInv(run[r])'
      BY <1>0, <2>2 DEF SetRun, PagesInv
    <3> QED
      BY <1>1, <3>1 DEF CollectInv, Collected, Wanted, FullLoad, Clean
  <2>9. t.batch = NoRecords /\ t.pc # "idle"
    BY <1>0, <2>1 DEF ShapeInv
  <2>10. RunInv(Advance(t), dest)
    BY <1>0, <2>1, <2>2, <2>4, <2>5, <2>6, <2>7, <2>8, <2>9, AdvanceRunInv
  <2> QED
    BY <1>0, <1>1, <2>2, <2>10, RunStep
<1> QED
  BY <1>4, <1>5

\* What is left of a page once the record of key k is dealt with: d is the
\* destination with that record, and v the copies still to be written.
LEMMA RestRunInv ==
  ASSUME now \in Nat, src \in Versions, NEW d, NEW s \in RunState, NEW k \in Keys,
         s.pc = "write", ShapeInv(s), CollectInv(s), HeldInv(s, d), FreshInv(s),
         Clean(s) /\ k \in Wanted(s) => d[k] = src[k],
         WrittenInv(s, d)
  PROVE  RunInv(Rest(s, k), d)
<1> DEFINE u == [s EXCEPT !.batch = [@ EXCEPT ![k] = 0]]
           W == Wanted(s)
<1>1. u \in RunState /\ u.batch \in Versions /\ u.batch = [s.batch EXCEPT ![k] = 0]
      /\ s.batch \in Versions
  BY DEF RunState, Versions
<1>2. /\ u.pc = "write" /\ u.strategy = s.strategy /\ u.last = s.last /\ u.page = s.page
      /\ u.total = s.total /\ u.buffer = s.buffer
      /\ u.quiet = s.quiet /\ u.whole = s.whole
  BY DEF RunState
<1>3. Wanted(u) = W /\ (Clean(u) <=> Clean(s))
  BY <1>2, WantedSame DEF Clean
<1>4. \A j \in Keys : u.batch[j] = IF j = k THEN 0 ELSE s.batch[j]
  BY <1>1 DEF Versions
<1>5. \A j \in W : j \in Keys /\ src[j] # 0
  BY WantedType, WantedPresent
<1>6. CollectInv(Rest(s, k))
  BY RestPages
<1> HIDE DEF u, W
<1>7. HeldInv(u, d) /\ FreshInv(u)
  <2>1. \A j \in Keys : u.batch[j] # 0 => u.batch[j] = s.batch[j]
    BY <1>4
  <2>2. \A j \in Keys : u.batch[j] = s.batch[j] \/ u.batch[j] = 0
    BY <1>4
  <2>3. \A j \in Keys : src[j] \in Nat /\ 0 <= src[j]
    BY DEF Versions
  <2>4. HeldInv(u, d)
    BY <1>2, <2>1, <2>2, <2>3 DEF HeldInv
  <2>5. FreshInv(u)
    BY <1>2, <2>1 DEF FreshInv
  <2> QED
    BY <2>4, <2>5
<1>8. WrittenInv(u, d)
  <2> SUFFICES ASSUME Clean(s), NEW j \in W
               PROVE  /\ u.strategy # "overwrite" /\ PageOf(j, W) < u.page => d[j] = src[j]
                      /\ PageOf(j, W) = u.page => d[j] = src[j] \/ u.batch[j] = src[j]
    BY <1>2, <1>3 DEF WrittenInv
  <2>1. CASE j = k
    BY <2>1 DEF W
  <2>2. CASE j # k
    BY <1>2, <1>4, <1>5, <2>2 DEF WrittenInv, W
  <2> QED
    BY <2>1, <2>2
<1>9. CASE Recs(u.batch) = {}
  <2>1. u.batch = NoRecords
    BY <1>1, <1>9 DEF Recs, NoRecords, Versions
  <2>2. Rest(s, k) = Advance(u)
    BY <1>9 DEF Rest, u
  <2>3. Clean(u) => u.total = TotalPages(Wanted(u))
    BY <1>2, <1>3 DEF CollectInv, W
  <2>4. u.strategy # "overwrite" /\ u.page \in Nat
    BY <1>1, <1>2 DEF ShapeInv, RunState
  <2>5. ASSUME Clean(u), NEW j \in Wanted(u), PageOf(j, Wanted(u)) <= u.page
        PROVE  d[j] = src[j]
    <3>1. PageOf(j, Wanted(u)) \in Nat
      BY WantedType, PageInRange
    <3>2. PageOf(j, Wanted(u)) < u.page \/ PageOf(j, Wanted(u)) = u.page
      BY <2>4, <2>5, <3>1
    <3>3. u.batch[j] = 0 /\ src[j] # 0
      BY <1>3, <1>5, <2>1, <2>5 DEF NoRecords
    <3> QED
      BY <1>2, <1>8, <2>4, <2>5, <3>2, <3>3 DEF WrittenInv
  <2> QED
    BY <1>1, <1>2, <1>6, <1>7, <2>1, <2>2, <2>3, <2>5, AdvanceRunInv
<1>10. CASE Recs(u.batch) # {}
  BY <1>7, <1>8, <1>10 DEF Rest, u, RunInv
<1> QED
  BY <1>9, <1>10

\* A step of the only run that writes the table: d is what it leaves there.
LEMMA WriteStep ==
  ASSUME SingleRun, UNCHANGED src, reg' = reg, run \in [Runs -> RunState],
         NEW r \in Runs, NEW t, SetRun(r, t), NEW d, dest' = d, RunInv(t, d),
         \A k \in Keys : src[k] # 0 => d[k] <= src[k]
  PROVE  SyncInv'
<1>1. \A q \in Runs : run'[q] = t
  BY DEF SetRun, SingleRun
<1>2. SourceAhead'
  BY DEF SourceAhead
<1>3. ASSUME NEW q \in Runs PROVE RunInv(run[q], dest)'
  <2>1. HeldInv(run'[q], dest') /\ FreshInv(run'[q]) /\ WrittenInv(run'[q], dest')
    BY <1>1 DEF RunInv
  <2>2. HeldInv(run[q], dest)' /\ FreshInv(run[q])'
    BY <2>1 DEF HeldInv, FreshInv, Unchanged
  <2>3. WrittenInv(run[q], dest)'
    BY <2>1 DEF WrittenInv, Wanted, FullLoad, Clean
  <2> QED
    BY <2>2, <2>3 DEF RunInv
<1> QED
  BY <1>2, <1>3 DEF SyncInv

\* An upsert writes the source's version, or the last one that was fetched.
LEMMA UpsertWrites ==
  ASSUME SingleRun, TypeOK, PagesInv, SyncInv, CaughtUp,
         NEW r \in Runs, NEW k \in Keys, UpsertRecord(r, k)
  PROVE  SyncInv' /\ CaughtUp' /\ dest[k] <= dest'[k]
<1> DEFINE s == run[r]
           d == [dest EXCEPT ![k] = s.batch[k]]
<1>0. /\ s \in RunState /\ src \in Versions /\ dest \in Versions /\ now \in Nat
      /\ RunInv(s, dest) /\ SourceAhead
      /\ run \in [Runs -> RunState] /\ ShapeInv(s) /\ CollectInv(s)
  BY DEF TypeOK, SyncInv, PagesInv
<1>1. /\ s.pc = "write" /\ s.batch[k] # 0 /\ dest' = d /\ SetRun(r, Rest(s, k))
      /\ UNCHANGED <<src, reg, exact>>
  BY DEF UpsertRecord
<1>2. \A j \in Keys : d[j] = IF j = k THEN s.batch[k] ELSE dest[j]
  BY <1>0 DEF Versions
<1>3. s.buffer = NoRecords
  BY <1>0, <1>1 DEF ShapeInv
<1>4. /\ dest[k] <= s.batch[k]
      /\ s.quiet => s.batch[k] = src[k]
      /\ src[k] # 0 => s.batch[k] <= src[k]
      /\ Unchanged(k) => s.batch[k] = src[k]
  BY <1>0, <1>1 DEF RunInv, HeldInv, FreshInv
<1> HIDE DEF d
<1>5. HeldInv(s, d)
  <2>1. s.batch[k] \in Nat /\ s.batch[k] <= s.batch[k]
    BY <1>0 DEF RunState, Versions
  <2> QED
    BY <1>0, <1>2, <1>3, <2>1 DEF RunInv, HeldInv, NoRecords
<1>6. Clean(s) => d[k] = src[k]
  BY <1>2, <1>4 DEF Clean
<1>7. WrittenInv(s, d)
  <2> SUFFICES ASSUME Clean(s), NEW j \in Wanted(s)
               PROVE  /\ PageOf(j, Wanted(s)) < s.page => d[j] = src[j]
                      /\ PageOf(j, Wanted(s)) = s.page => d[j] = src[j] \/ s.batch[j] = src[j]
    BY <1>1 DEF WrittenInv
  <2>1. CASE j = k
    BY <1>6, <2>1
  <2>2. CASE j # k
    <3>1. j \in Keys /\ d[j] = dest[j]
      BY <1>2, <2>2, WantedType
    <3>2. s.strategy # "overwrite"
      BY <1>0, <1>1 DEF ShapeInv
    <3> QED
      BY <1>0, <1>1, <3>1, <3>2 DEF RunInv, WrittenInv
  <2> QED
    BY <2>1, <2>2
<1>8. RunInv(Rest(s, k), d)
  BY <1>0, <1>1, <1>5, <1>6, <1>7, RestRunInv DEF RunInv
<1>9. \A j \in Keys : src[j] # 0 => d[j] <= src[j]
  BY <1>0, <1>2, <1>4 DEF SourceAhead
<1>10. SyncInv'
  BY <1>0, <1>1, <1>8, <1>9, WriteStep
<1>11. CaughtUp'
  BY <1>1, <1>2, <1>4 DEF CaughtUp, Unchanged
<1> QED
  BY <1>1, <1>2, <1>4, <1>10, <1>11

\* A record or a page that cannot be written makes the run unclean.
LEMMA RecordNotWritten ==
  ASSUME SingleRun, TypeOK, PagesInv, SyncInv, CaughtUp, NEW r \in Runs,
         NoModelForBatch(r) \/ \E k \in Keys : DeadLetter(r, k)
  PROVE  SyncInv' /\ CaughtUp'
<1> DEFINE s == run[r]
<1>0. /\ s \in RunState /\ src \in Versions /\ dest \in Versions /\ now \in Nat
      /\ RunInv(s, dest) /\ SourceAhead /\ s.pc = "write"
      /\ run \in [Runs -> RunState] /\ ShapeInv(s) /\ CollectInv(s)
  BY DEF TypeOK, SyncInv, PagesInv, NoModelForBatch, DeadLetter
<1>1. UNCHANGED <<src, dest, exact>> /\ reg'.lastSync = reg.lastSync
  BY DEF NoModelForBatch, DeadLetter
<1>2. ASSUME NEW k \in Keys, DeadLetter(r, k) PROVE SyncInv' /\ CaughtUp'
  <2> DEFINE u == [s EXCEPT !.whole = FALSE]
  <2>1. /\ u \in RunState /\ u.pc = s.pc /\ u.strategy = s.strategy /\ u.last = s.last
        /\ u.page = s.page /\ u.total = s.total /\ u.buffer = s.buffer
        /\ u.batch = s.batch /\ u.ids = s.ids /\ u.orphans = s.orphans
        /\ u.quiet = s.quiet /\ u.whole = FALSE
    BY <1>0 DEF RunState
  <2>2. SetRun(r, Rest(u, k)) /\ FullLoad(u) = FullLoad(s) /\ ~Clean(u)
    BY <1>2, <2>1, WantedSame DEF DeadLetter, Clean
  <2> HIDE DEF u
  <2>3. ShapeInv(u) /\ CollectInv(u)
    BY <1>0, <2>1, <2>2 DEF ShapeInv, CollectInv
  <2>4. HeldInv(u, dest) /\ FreshInv(u) /\ WrittenInv(u, dest)
    BY <1>0, <2>1, <2>2 DEF RunInv, HeldInv, FreshInv, WrittenInv
  <2>5. RunInv(Rest(u, k), dest)
    BY <1>0, <2>1, <2>2, <2>3, <2>4, RestRunInv
  <2> QED
    BY <1>0, <1>1, <2>2, <2>5, RunStep
<1>3. CASE NoModelForBatch(r)
  <2> DEFINE u == [s EXCEPT !.batch = NoRecords, !.whole = FALSE]
  <2>1. /\ u \in RunState /\ u.pc = "write" /\ u.strategy = s.strategy /\ u.last = s.last
        /\ u.buffer = s.buffer /\ u.batch = NoRecords /\ u.quiet = s.quiet
        /\ u.orphans = s.orphans /\ u.whole = FALSE
    BY <1>0, NoRecordsType DEF RunState
  <2>2. SetRun(r, Advance(u)) /\ ~Clean(u)
    BY <1>3, <2>1 DEF NoModelForBatch, Clean
  <2> HIDE DEF u
  <2>3. HeldInv(u, dest) /\ FreshInv(u)
    BY <1>0, <2>1 DEF RunInv, HeldInv, FreshInv, NoRecords, Versions
  <2>4. CollectInv(Advance(u))
    <3>1. u.quiet => \A k \in Keys : u.buffer[k] # 0 => u.buffer[k] = src[k]
      BY <1>0, <2>1 DEF CollectInv
    <3>2. u.orphans = {}
      BY <1>0, <2>1 DEF ShapeInv
    <3> QED
      BY <2>1, <2>2, <3>1, <3>2, AdvanceCollect
  <2>5. RunInv(Advance(u), dest)
    BY <1>0, <2>1, <2>2, <2>3, <2>4, AdvanceRunInv
  <2> QED
    BY <1>0, <1>1, <2>2, <2>5, RunStep
<1> QED
  BY <1>2, <1>3

\* The overwrite replaces the table by what was fetched: nothing older.
LEMMA OverwriteWrites ==
  ASSUME SingleRun, TypeOK, PagesInv, SyncInv, CaughtUp, NEW r \in Runs, Overwrite(r)
  PROVE  /\ SyncInv' /\ CaughtUp'
         /\ \A k \in Keys : dest'[k] # 0 => dest[k] <= dest'[k]
<1> DEFINE s == run[r]
           t == [s EXCEPT !.pc = "finish", !.whole = @ /\ model]
           d == IF model THEN s.buffer ELSE dest
<1>0. /\ s \in RunState /\ src \in Versions /\ dest \in Versions /\ now \in Nat
      /\ RunInv(s, dest) /\ SourceAhead /\ model \in BOOLEAN
      /\ run \in [Runs -> RunState] /\ ShapeInv(s) /\ CollectInv(s)
  BY DEF TypeOK, SyncInv, PagesInv
<1>1. /\ s.pc = "overwrite" /\ dest' = d /\ SetRun(r, t) /\ UNCHANGED <<src, reg>>
      /\ exact' = (exact /\ Clean(s))
  BY DEF Overwrite
<1>2. /\ t.pc = "finish" /\ t.strategy = s.strategy /\ t.last = s.last
      /\ t.buffer = s.buffer /\ t.batch = s.batch
      /\ t.quiet = s.quiet /\ t.whole = (s.whole /\ model)
  BY <1>0 DEF RunState
<1>3. Wanted(t) = Wanted(s) /\ (Clean(t) <=> Clean(s) /\ model)
  BY <1>2, WantedSame DEF Clean
<1>4. s.strategy = "overwrite" /\ s.batch = NoRecords
  BY <1>0, <1>1 DEF ShapeInv
<1>5. \A k \in Wanted(s) : Clean(s) => s.buffer[k] = src[k]
  BY <1>0, <1>1, <1>4 DEF CollectInv, Collected
<1>6. \A k \in Keys : src[k] # 0 => k \in Wanted(s)
  BY <1>0, <1>4 DEF Wanted, FullLoad, Versions
<1> HIDE DEF t
<1>7. RunInv(t, d)
  <2>1. \A k \in Keys : s.buffer[k] \in Nat /\ s.buffer[k] <= s.buffer[k]
    BY <1>0 DEF RunState, Versions
  <2>2. HeldInv(t, d)
    BY <1>0, <1>2, <1>4, <2>1 DEF RunInv, HeldInv, NoRecords
  <2>3. FreshInv(t)
    BY <1>0, <1>1, <1>2 DEF RunInv, FreshInv
  <2>4. WrittenInv(t, d)
    BY <1>2, <1>3, <1>5 DEF WrittenInv
  <2> QED
    BY <2>2, <2>3, <2>4 DEF RunInv
<1>8. \A k \in Keys : src[k] # 0 => d[k] <= src[k]
  BY <1>0 DEF RunInv, HeldInv, SourceAhead
<1>9. SyncInv'
  BY <1>0, <1>1, <1>7, <1>8, WriteStep
<1>10. CaughtUp'
  BY <1>1, <1>5, <1>6 DEF CaughtUp
<1>11. \A k \in Keys : dest'[k] # 0 => dest[k] <= dest'[k]
  <2>1. \A k \in Keys : dest[k] \in Nat /\ dest[k] <= dest[k]
    BY <1>0 DEF Versions
  <2> QED
    BY <1>0, <1>1, <2>1 DEF RunInv, HeldInv
<1> QED
  BY <1>9, <1>10, <1>11

\* At the end of a clean run everything up to now is in the destination: what
\* the run selected by itself, the rest because the syncs before it were clean.
LEMMA FinishCatchesUp ==
  ASSUME SingleRun, TypeOK, SyncInv, CaughtUp, NEW r \in Runs, Finish(r)
  PROVE  SyncInv' /\ CaughtUp'
<1> DEFINE s == run[r]
<1>0. /\ s \in RunState /\ src \in Versions /\ dest \in Versions /\ now \in Nat
      /\ RunInv(s, dest) /\ SourceAhead /\ run \in [Runs -> RunState]
      /\ reg.lastSync \in 0 .. now
  BY DEF TypeOK, SyncInv
<1>1. /\ s.pc = "finish" /\ SetRun(r, Idle) /\ UNCHANGED <<src, dest>>
      /\ exact' = (Clean(s) /\ (exact \/ FullLoad(s)))
  BY DEF Finish
<1>2. reg'.lastSync = now
  BY DEF Finish, TypeOK
<1>3. SyncInv'
  <2>1. \A q \in Runs : run'[q] = Idle
    BY <1>0, <1>1 DEF SetRun, SingleRun
  <2>2. SourceAhead'
    BY <1>0, <1>1 DEF SourceAhead
  <2>3. ASSUME NEW q \in Runs PROVE RunInv(run[q], dest)'
    <3>1. HeldInv(run[q], dest)' /\ FreshInv(run[q])'
      BY <1>0, <1>1, <2>1 DEF HeldInv, FreshInv, Idle, NoRecords, Versions
    <3>2. WrittenInv(run[q], dest)'
      BY <2>1 DEF WrittenInv, Idle
    <3> QED
      BY <3>1, <3>2 DEF RunInv
  <2> QED
    BY <2>2, <2>3 DEF SyncInv
<1>4. ASSUME Clean(s), exact \/ FullLoad(s), NEW k \in Keys, src[k] # 0
      PROVE  dest[k] = src[k]
  <2>1. CASE k \in Wanted(s)
    BY <1>0, <1>1, <1>4, <2>1 DEF RunInv, WrittenInv
  <2>2. CASE k \notin Wanted(s)
    <3>1. ~FullLoad(s) /\ ~(src[k] > s.last)
      BY <1>0, <1>4, <2>2 DEF Wanted, FullLoad, Versions
    <3>2. s.last = reg.lastSync
      BY <1>0, <1>1 DEF RunInv, FreshInv
    <3>3. src[k] \in Nat /\ s.last \in Nat
      BY <1>0, <3>2 DEF Versions
    <3> QED
      BY <1>4, <3>1, <3>2, <3>3 DEF CaughtUp
  <2> QED
    BY <2>1, <2>2
<1> QED
  BY <1>1, <1>3, <1>4 DEF CaughtUp

-----------------------------------------------------------------------------
(* The source, the administrator and crashes                               *)

\* A change at the source: the record of key k becomes v, absent or the newest.
LEMMA SourceChanges ==
  ASSUME TypeOK, PagesInv, SyncInv, CaughtUp, NEW k \in Keys, NEW v \in Nat,
         v = 0 \/ v > now, src' = [src EXCEPT ![k] = v], src' \in [Keys -> Nat],
         run' = Disturbed, UNCHANGED <<dest, reg, exact>>
  PROVE  SyncInv' /\ CaughtUp'
<1>0. /\ src \in Versions /\ dest \in Versions /\ now \in Nat
      /\ run \in [Runs -> RunState] /\ reg.lastSync \in 0 .. now
  BY DEF TypeOK
<1>1. \A j \in Keys : src'[j] = IF j = k THEN v ELSE src[j]
  BY <1>0 DEF Versions
<1>2. \A j \in Keys : src'[j] # 0 => src'[j] = src[j] \/ src'[j] > now
  BY <1>1
<1>3. \A j \in Keys : src'[j] # 0 /\ src'[j] <= reg.lastSync => src'[j] = src[j]
  BY <1>0, <1>2
<1>4. SourceAhead'
  BY <1>0, <1>2 DEF SyncInv, SourceAhead, Versions
<1>5. CaughtUp'
  BY <1>3 DEF CaughtUp
<1>6. ASSUME NEW r \in Runs PROVE RunInv(run[r], dest)'
  <2> DEFINE s == run[r]
             t == [s EXCEPT !.quiet = @ /\ ~Begun(s)]
  <2>1. run'[r] = t /\ s \in RunState /\ RunInv(s, dest) /\ ShapeInv(s)
    BY <1>0 DEF Disturbed, SyncInv, PagesInv
  <2>2. /\ t.pc = s.pc /\ t.strategy = s.strategy /\ t.last = s.last /\ t.page = s.page
        /\ t.batch = s.batch /\ t.buffer = s.buffer /\ t.whole = s.whole
        /\ t.quiet = (s.quiet /\ ~Begun(s))
    BY <2>1 DEF RunState
  <2>3. \A j \in Keys : s.batch[j] # 0 => Begun(s)
    BY <2>1 DEF ShapeInv, NoRecords, Begun
  <2>4. s.batch \in Versions /\ s.buffer \in Versions
    BY <2>1 DEF RunState
  <2> HIDE DEF t
  <2>5. HeldInv(run[r], dest)'
    <3> SUFFICES ASSUME NEW j \in Keys
                 PROVE  /\ src'[j] # 0 => s.batch[j] <= src'[j] /\ s.buffer[j] <= src'[j]
                        /\ s.batch[j] # 0 => dest[j] <= s.batch[j] /\ ~t.quiet
                        /\ s.buffer[j] # 0 => dest[j] <= s.buffer[j]
      BY <2>1, <2>2 DEF HeldInv
    <3>1. /\ s.batch[j] \in Nat /\ s.batch[j] <= now
          /\ s.buffer[j] \in Nat /\ s.buffer[j] <= now
      BY <1>0, <2>4 DEF Versions
    <3>2. src'[j] # 0 => s.batch[j] <= src'[j] /\ s.buffer[j] <= src'[j]
      BY <1>0, <1>2, <2>1, <3>1 DEF RunInv, HeldInv
    <3> QED
      BY <2>1, <2>2, <2>3, <3>2 DEF RunInv, HeldInv
  <2>6. FreshInv(run[r])'
    BY <1>3, <2>1, <2>2 DEF RunInv, FreshInv, Unchanged
  <2>7. WrittenInv(run[r], dest)'
    <3>1. CASE Begun(s)
      BY <2>1, <2>2, <3>1 DEF WrittenInv, Clean
    <3>2. CASE ~Begun(s)
      <4>1. s.pc = "idle" \/ (s.pc = "fetch" /\ s.page = 1)
        BY <3>2 DEF Begun
      <4>2. \A j \in Wanted(s)' : PageOf(j, Wanted(s)') \in Nat /\ PageOf(j, Wanted(s)') >= 1
        BY PageInRange DEF Wanted
      <4> QED
        BY <2>1, <2>2, <4>1, <4>2 DEF WrittenInv, Wanted, FullLoad, Clean
    <3> QED
      BY <3>1, <3>2
  <2> QED
    BY <2>5, <2>6, <2>7 DEF RunInv
<1> QED
  BY <1>4, <1>5, <1>6 DEF SyncInv

LEMMA EnvironmentSync ==
  ASSUME TypeOK, PagesInv, SyncInv, CaughtUp, Environment
  PROVE  SyncInv' /\ CaughtUp' /\ UNCHANGED dest
<1>0. src \in Versions /\ now \in Nat
  BY DEF TypeOK
<1>1. ASSUME NEW k \in Keys, Edit(k) PROVE SyncInv' /\ CaughtUp' /\ UNCHANGED dest
  <2>1. now + 1 \in Nat /\ now + 1 > now /\ src' \in [Keys -> Nat]
    BY <1>0, <1>1 DEF Edit, Versions
  <2> QED
    BY <1>1, <2>1, SourceChanges DEF Edit
<1>2. ASSUME NEW k \in Keys, Remove(k) PROVE SyncInv' /\ CaughtUp' /\ UNCHANGED dest
  <2>1. src' \in [Keys -> Nat]
    BY <1>0, <1>2 DEF Remove, Versions
  <2> QED
    BY <1>2, <2>1, SourceChanges DEF Remove
<1>3. ASSUME UNCHANGED <<src, dest, run, exact>>, reg'.lastSync = reg.lastSync
      PROVE  SyncInv' /\ CaughtUp' /\ UNCHANGED dest
  BY <1>3 DEF SyncInv, SourceAhead, RunInv, HeldInv, FreshInv, Unchanged, WrittenInv,
              Wanted, FullLoad, Clean, CaughtUp
<1>4. CASE AddField \/ RunDetector \/ MarkAsStable
  BY <1>3, <1>4 DEF AddField, RunDetector, MarkAsStable, DeclareField, TypeOK
<1>5. CASE \E strategy \in Strategies : UpdateSyncStrategy(strategy)
  BY <1>3, <1>5 DEF UpdateSyncStrategy, TypeOK
<1>6. CASE Restart
  <2>1. \A r \in Runs : run'[r] = Idle
    BY <1>6 DEF Restart
  <2>2. UNCHANGED <<src, dest, reg, exact>>
    BY <1>6 DEF Restart
  <2>3. SourceAhead' /\ CaughtUp'
    BY <2>2 DEF SyncInv, SourceAhead, CaughtUp
  <2>4. ASSUME NEW r \in Runs PROVE RunInv(run[r], dest)'
    <3>1. HeldInv(run[r], dest)' /\ FreshInv(run[r])'
      BY <1>0, <2>1, <2>2 DEF HeldInv, FreshInv, Idle, NoRecords, Versions
    <3>2. WrittenInv(run[r], dest)'
      BY <2>1 DEF WrittenInv, Idle
    <3> QED
      BY <3>1, <3>2 DEF RunInv
  <2> QED
    BY <2>2, <2>3, <2>4 DEF SyncInv
<1> QED
  BY <1>1, <1>2, <1>4, <1>5, <1>6 DEF Environment

-----------------------------------------------------------------------------
(* Theorems                                                                *)

\* What a step does to the invariants and to the stored versions.
Ahead == \A k \in Keys : dest[k] # 0 /\ dest'[k] # 0 => dest'[k] >= dest[k]

LEMMA SyncNext ==
  ASSUME SingleRun, TypeOK, PagesInv, PagesInv', SyncInv, CaughtUp, [Next]_vars
  PROVE  SyncInv' /\ CaughtUp' /\ Ahead
<1>0. dest \in Versions /\ \A k \in Keys : dest[k] \in Nat
  BY DEF TypeOK, Versions
<1>1. UNCHANGED dest => Ahead
  BY <1>0 DEF Ahead
<1>2. CASE UNCHANGED vars
  BY <1>1, <1>2 DEF vars, SyncInv, SourceAhead, RunInv, HeldInv, FreshInv, Unchanged,
                    WrittenInv, Wanted, FullLoad, Clean, CaughtUp
<1>3. CASE Environment
  BY <1>1, <1>3, EnvironmentSync
<1>4. ASSUME NEW r \in Runs, Snapshot(r) \/ SyncStep(r)
      PROVE  SyncInv' /\ CaughtUp' /\ Ahead
  <2>1. CASE \/ Snapshot(r) \/ FetchFails(r) \/ ContractViolation(r)
             \/ SchemaDrift(r) \/ StoreFails(r)
    <3>1. UNCHANGED dest
      BY <2>1 DEF Snapshot, FetchFails, ContractViolation, SchemaDrift, StoreFails
    <3> QED
      BY <1>1, <2>1, <3>1, StartOrFail
  <2>2. CASE PageMismatch(r) \/ EmptyPage(r) \/ DetectOrphans(r)
    <3>1. UNCHANGED dest
      BY <2>2 DEF PageMismatch, EmptyPage, DetectOrphans
    <3> QED
      BY <1>1, <2>2, <3>1, LeaveLoop
  <2>3. CASE FetchForUpsert(r) \/ FetchForOverwrite(r)
    <3>1. UNCHANGED dest
      BY <2>3 DEF FetchForUpsert, FetchForOverwrite
    <3> QED
      BY <1>1, <2>3, <3>1, ReadPage
  <2>4. CASE NoModelForBatch(r) \/ \E k \in Keys : DeadLetter(r, k)
    <3>1. UNCHANGED dest
      BY <2>4 DEF NoModelForBatch, DeadLetter
    <3> QED
      BY <1>1, <2>4, <3>1, RecordNotWritten
  <2>5. ASSUME NEW k \in Keys, UpsertRecord(r, k) PROVE SyncInv' /\ CaughtUp' /\ Ahead
    <3>1. \A j \in Keys : j # k => dest'[j] = dest[j]
      BY <1>0, <2>5 DEF UpsertRecord, Versions
    <3>2. dest'[k] \in Nat
      BY <2>5 DEF UpsertRecord, TypeOK, RunState, Versions
    <3>3. SyncInv' /\ CaughtUp' /\ dest[k] <= dest'[k]
      BY <2>5, UpsertWrites
    <3> QED
      BY <1>0, <3>1, <3>2, <3>3 DEF Ahead
  <2>6. CASE Overwrite(r)
    <3>1. \A k \in Keys : dest'[k] \in Nat
      BY <1>0, <2>6 DEF Overwrite, TypeOK, RunState, Versions
    <3> QED
      BY <1>0, <2>6, <3>1, OverwriteWrites DEF Ahead
  <2>7. CASE Finish(r)
    BY <1>1, <2>7, FinishCatchesUp DEF Finish
  <2> QED
    BY <1>4, <2>1, <2>2, <2>3, <2>4, <2>5, <2>6, <2>7 DEF SyncStep
<1> QED
  BY <1>2, <1>3, <1>4 DEF Next

LEMMA SyncInit == Init => SyncInv /\ CaughtUp
<1> SUFFICES ASSUME Init PROVE SyncInv /\ CaughtUp
  OBVIOUS
<1>1. src \in Versions
  BY InitType DEF TypeOK
<1>2. SourceAhead
  BY <1>1 DEF Init, SourceAhead, NoRecords, Versions
<1>3. CaughtUp
  BY <1>1 DEF Init, CaughtUp, Versions
<1> QED
  BY <1>1, <1>2, <1>3, IdleRunInv DEF Init, SyncInv

\* What runs that do not overlap hold in memory and have written.
THEOREM SyncInvariant == ASSUME SingleRun PROVE Spec => [](SyncInv /\ CaughtUp)
<1>1. TypeOK /\ PagesInv /\ PagesInv' /\ (SyncInv /\ CaughtUp) /\ [Next]_vars
      => (SyncInv /\ CaughtUp)'
  BY SyncNext
<1> QED
  BY <1>1, SyncInit, TypeCorrect, PagesInvariant, PTL DEF Spec

\* No update is lost as long as the syncs that moved lastSyncTime were clean,
\* and none after a clean full load, whatever failed or crashed in between.
THEOREM NoCleanUpdateLost == ASSUME SingleRun PROVE Spec => []CaughtUp
BY SyncInvariant, PTL

\* A run that ends cleanly has copied everything it selected.
THEOREM CleanRunIsComplete == ASSUME SingleRun PROVE Spec => []CleanRunCopiesAll
<1>1. SyncInv => CleanRunCopiesAll
  BY DEF SyncInv, RunInv, WrittenInv, CleanRunCopiesAll
<1> QED
  BY <1>1, SyncInvariant, PTL

\* No sync replaces a stored record by an older version of it.
THEOREM VersionsGoForward == ASSUME SingleRun PROVE Spec => NeverStale
<1>1. TypeOK /\ PagesInv /\ PagesInv' /\ (SyncInv /\ CaughtUp) /\ [Next]_vars
      => [Ahead]_vars
  BY SyncNext
<1>2. Spec => [][Ahead]_vars
  BY <1>1, SyncInvariant, TypeCorrect, PagesInvariant, PTL DEF Spec
<1> QED
  BY <1>2 DEF NeverStale, Ahead

-----------------------------------------------------------------------------
(* What a full load finds to be dropped                                    *)

\* The identifiers that a run has collected are those of source records, a run
\* that skips its writes for want of a model is not whole, and what DetectOrphans
\* reported is still what the destination has beyond them.
FoundInv(s, source, table, loaded) ==
  /\ s.quiet => s.ids \subseteq Recs(source)
  /\ ~loaded /\ s.ids # {} /\ s.pc # "write" => ~s.whole
  /\ s.pc = "finish" /\ s.strategy # "overwrite" /\ FullLoad(s) /\ s.ids # {} /\ s.whole
       => s.orphans = Recs(table) \ HasAsColumn(s.ids)

AllFound == \A r \in Runs : FoundInv(run[r], src, dest, model)

LEMMA FoundIdle ==
  ASSUME NEW source, NEW table, NEW loaded PROVE FoundInv(Idle, source, table, loaded)
BY DEF FoundInv, Idle

LEMMA FoundStep ==
  ASSUME SingleRun, run \in [Runs -> RunState], NEW r \in Runs, NEW t, SetRun(r, t),
         FoundInv(t, src', dest', model')
  PROVE  AllFound'
<1>1. \A q \in Runs : run'[q] = t
  BY DEF SetRun, SingleRun
<1> QED
  BY <1>1 DEF AllFound

\* The loop never leads a full load that has identifiers past DetectOrphans.
LEMMA AdvanceFound ==
  ASSUME NEW s \in RunState, NEW source, NEW table, NEW loaded,
         s.quiet => s.ids \subseteq Recs(source), ~loaded /\ s.ids # {} => ~s.whole
  PROVE  FoundInv(Advance(s), source, table, loaded)
<1> DEFINE t == Advance(s)
<1>1. /\ t.strategy = s.strategy /\ t.last = s.last /\ t.ids = s.ids
      /\ t.quiet = s.quiet /\ t.whole = s.whole
      /\ t.pc = "fetch" \/ t.pc = AfterLoop(s)
  BY AdvanceFields
<1>2. FullLoad(t) = FullLoad(s)
  BY <1>1, WantedSame
<1> HIDE DEF t
<1>3. t.pc = "finish" /\ t.strategy # "overwrite" => ~(FullLoad(t) /\ t.ids # {})
  BY <1>1, <1>2 DEF AfterLoop
<1>4. FoundInv(t, source, table, loaded)
  BY <1>1, <1>3 DEF FoundInv
<1> QED
  BY <1>4 DEF t

LEMMA RestFound ==
  ASSUME now \in Nat, NEW s \in RunState, NEW k \in Keys, NEW source, NEW table, NEW loaded,
         s.pc = "write",
         s.quiet => s.ids \subseteq Recs(source), ~loaded /\ s.ids # {} => ~s.whole
  PROVE  FoundInv(Rest(s, k), source, table, loaded)
<1> DEFINE u == [s EXCEPT !.batch = [@ EXCEPT ![k] = 0]]
<1>1. u \in RunState
  BY DEF RunState, Versions
<1>2. u.pc = "write" /\ u.ids = s.ids /\ u.quiet = s.quiet /\ u.whole = s.whole
  BY DEF RunState
<1>3. Rest(s, k) = IF Recs(u.batch) = {} THEN Advance(u) ELSE u
  BY DEF Rest
<1> HIDE DEF u
<1>4. FoundInv(u, source, table, loaded)
  BY <1>2 DEF FoundInv
<1>5. FoundInv(Advance(u), source, table, loaded)
  BY <1>1, <1>2, AdvanceFound
<1> QED
  BY <1>3, <1>4, <1>5

LEMMA FoundEnvironment ==
  ASSUME TypeOK, PagesInv, AllFound, Environment PROVE AllFound'
<1>1. ASSUME run' = Disturbed, UNCHANGED <<dest, model>> PROVE AllFound'
  <2> SUFFICES ASSUME NEW r \in Runs PROVE FoundInv(run'[r], src', dest, model)
    BY <1>1 DEF AllFound
  <2> DEFINE s == run[r]
             t == [s EXCEPT !.quiet = @ /\ ~Begun(s)]
  <2>1. run'[r] = t /\ s \in RunState /\ ShapeInv(s) /\ FoundInv(s, src, dest, model)
    BY <1>1 DEF Disturbed, TypeOK, PagesInv, AllFound
  <2>2. /\ t.pc = s.pc /\ t.strategy = s.strategy /\ t.last = s.last /\ t.ids = s.ids
        /\ t.orphans = s.orphans /\ t.whole = s.whole /\ (t.quiet => ~Begun(s))
    BY <2>1 DEF RunState
  <2>3. FullLoad(t) = FullLoad(s)
    BY <2>2, WantedSame
  <2>4. ~Begun(s) => s.ids = {}
    BY <2>1 DEF Begun, ShapeInv, Idle
  <2> HIDE DEF t
  <2>5. FoundInv(t, src', dest, model)
    BY <2>1, <2>2, <2>3, <2>4 DEF FoundInv
  <2> QED
    BY <2>1, <2>5
<1>2. CASE \E k \in Keys : Edit(k) \/ Remove(k)
  BY <1>1, <1>2 DEF Edit, Remove
<1>3. CASE AddField \/ RunDetector \/ MarkAsStable
  BY <1>3 DEF AddField, RunDetector, MarkAsStable, AllFound
<1>4. CASE \E strategy \in Strategies : UpdateSyncStrategy(strategy)
  BY <1>4 DEF UpdateSyncStrategy, AllFound
<1>5. CASE Restart
  <2>1. \A r \in Runs : run'[r] = Idle
    BY <1>5 DEF Restart
  <2> QED
    BY <2>1, FoundIdle DEF AllFound
<1> QED
  BY <1>2, <1>3, <1>4, <1>5 DEF Environment

LEMMA FoundRun ==
  ASSUME SingleRun, TypeOK, PagesInv, AllFound, NEW r \in Runs, Snapshot(r) \/ SyncStep(r)
  PROVE  AllFound'
<1> DEFINE s == run[r]
<1>0. /\ run \in [Runs -> RunState] /\ s \in RunState /\ ShapeInv(s)
      /\ FoundInv(s, src, dest, model) /\ model \in BOOLEAN /\ now \in Nat
      /\ src \in Versions /\ Payload(s) \in Versions /\ NoRecords \in Versions
  BY PayloadType, NoRecordsType DEF TypeOK, PagesInv, AllFound
<1>a. ASSUME SetRun(r, Idle) PROVE AllFound'
  BY <1>0, <1>a, FoundIdle, FoundStep
<1>1. CASE Snapshot(r)
  <2> DEFINE t == [Idle EXCEPT !.pc = "fetch", !.strategy = reg.strategy,
                               !.last = reg.lastSync, !.declared = reg.declared]
  <2>1. t.ids = {} /\ SetRun(r, t)
    BY <1>1 DEF Snapshot, Idle
  <2> HIDE DEF t
  <2>2. FoundInv(t, src', dest', model')
    BY <2>1 DEF FoundInv
  <2> QED
    BY <1>0, <2>1, <2>2, FoundStep
<1>2. CASE FetchFails(r)
  <2> DEFINE t == [s EXCEPT !.attempt = @ + 1]
  <2>1. /\ t.pc = s.pc /\ t.strategy = s.strategy /\ t.last = s.last /\ t.ids = s.ids
        /\ t.orphans = s.orphans /\ t.quiet = s.quiet /\ t.whole = s.whole
    BY <1>0 DEF RunState
  <2>2. FullLoad(t) = FullLoad(s)
    BY <2>1, WantedSame
  <2>3. SetRun(r, t) \/ SetRun(r, Idle)
    BY <1>2 DEF FetchFails, Fail
  <2> HIDE DEF t
  <2>4. FoundInv(t, src', dest', model')
    BY <1>0, <1>2, <2>1, <2>2 DEF FoundInv, FetchFails
  <2> QED
    BY <1>0, <1>a, <2>3, <2>4, FoundStep
<1>3. CASE ContractViolation(r) \/ SchemaDrift(r) \/ StoreFails(r) \/ Finish(r)
  BY <1>3, <1>a DEF ContractViolation, SchemaDrift, StoreFails, Finish, Fail
<1>4. ASSUME NEW b, b => s.whole, s.pc = "fetch", UNCHANGED <<src, dest, model>>,
             SetRun(r, [s EXCEPT !.pc = AfterLoop(s), !.whole = b])
      PROVE  AllFound'
  <2> DEFINE t == [s EXCEPT !.pc = AfterLoop(s), !.whole = b]
  <2>1. /\ t.pc = AfterLoop(s) /\ t.strategy = s.strategy /\ t.last = s.last
        /\ t.ids = s.ids /\ t.quiet = s.quiet /\ (t.whole => s.whole)
    BY <1>0, <1>4 DEF RunState
  <2>2. FullLoad(t) = FullLoad(s)
    BY <2>1, WantedSame
  <2>3. SetRun(r, t)
    BY <1>4
  <2> HIDE DEF t
  <2>4. t.pc = "finish" /\ t.strategy # "overwrite" => ~(FullLoad(t) /\ t.ids # {})
    BY <2>1, <2>2 DEF AfterLoop
  <2>5. FoundInv(t, src', dest', model')
    BY <1>0, <1>4, <2>1, <2>4 DEF FoundInv
  <2> QED
    BY <1>0, <2>3, <2>5, FoundStep
<1>5. CASE PageMismatch(r)
  BY <1>4, <1>5 DEF PageMismatch
<1>6. CASE EmptyPage(r)
  <2>1. /\ SetRun(r, [s EXCEPT !.pc = AfterLoop(s), !.whole = (s.whole /\ Wanted(s) = {})])
        /\ s.pc = "fetch" /\ UNCHANGED <<src, dest, model>>
    BY <1>6 DEF EmptyPage
  <2> QED
    BY <1>4, <2>1
<1>7. CASE FetchForUpsert(r)
  <2> DEFINE t == [Fetched(s) EXCEPT !.pc = "write", !.batch = Payload(s),
                                     !.ids = @ \cup Recs(Payload(s))]
  <2>1. t.pc = "write" /\ t.ids = s.ids \cup Recs(Payload(s)) /\ t.quiet = s.quiet
    BY <1>0, FetchedType, FetchedFields DEF RunState
  <2>2. SetRun(r, t) /\ UNCHANGED <<src, dest, model>>
    BY <1>7 DEF FetchForUpsert
  <2> HIDE DEF t
  <2>3. Recs(Payload(s)) \subseteq Recs(src)
    BY PayloadRecord DEF Recs
  <2>4. FoundInv(t, src', dest', model')
    BY <1>0, <2>1, <2>2, <2>3 DEF FoundInv
  <2> QED
    BY <1>0, <2>2, <2>4, FoundStep
<1>8. CASE FetchForOverwrite(r)
  <2> DEFINE t == [Fetched(s) EXCEPT !.buffer = Merge(@, Payload(s))]
  <2>1. t \in RunState
    <3>1. Fetched(s) \in RunState /\ Merge(Fetched(s).buffer, Payload(s)) \in Versions
      BY <1>0, FetchedType DEF RunState, Merge, Versions
    <3> QED
      BY <3>1 DEF RunState
  <2>2. t.ids = s.ids /\ t.quiet = s.quiet /\ t.whole = s.whole
    BY <1>0, FetchedType, FetchedFields DEF RunState
  <2>3. SetRun(r, Advance(t)) /\ s.pc = "fetch" /\ UNCHANGED <<src, dest, model>>
    BY <1>8 DEF FetchForOverwrite
  <2> HIDE DEF t
  <2>4. (t.quiet => t.ids \subseteq Recs(src)) /\ (~model /\ t.ids # {} => ~t.whole)
    BY <1>0, <2>2, <2>3 DEF FoundInv
  <2>5. FoundInv(Advance(t), src, dest, model)
    BY <2>1, <2>4, AdvanceFound
  <2> QED
    BY <1>0, <2>3, <2>5, FoundStep
<1>9. ASSUME NEW k \in Keys, UpsertRecord(r, k) PROVE AllFound'
  <2>1. SetRun(r, Rest(s, k)) /\ s.pc = "write" /\ model /\ UNCHANGED <<src, model>>
    BY <1>9 DEF UpsertRecord
  <2>2. (s.quiet => s.ids \subseteq Recs(src)) /\ (~model /\ s.ids # {} => ~s.whole)
    BY <1>0, <2>1 DEF FoundInv
  <2>3. FoundInv(Rest(s, k), src, dest', model)
    BY <1>0, <2>1, <2>2, RestFound
  <2> QED
    BY <1>0, <2>1, <2>3, FoundStep
<1>10. ASSUME NEW k \in Keys, DeadLetter(r, k) PROVE AllFound'
  <2> DEFINE t == [s EXCEPT !.whole = FALSE]
  <2>1. t \in RunState /\ t.pc = s.pc /\ t.ids = s.ids /\ t.quiet = s.quiet /\ ~t.whole
    BY <1>0 DEF RunState
  <2>2. SetRun(r, Rest(t, k)) /\ s.pc = "write" /\ UNCHANGED <<src, dest, model>>
    BY <1>10 DEF DeadLetter
  <2> HIDE DEF t
  <2>3. (t.quiet => t.ids \subseteq Recs(src)) /\ (~model /\ t.ids # {} => ~t.whole)
    BY <1>0, <2>1 DEF FoundInv
  <2>4. FoundInv(Rest(t, k), src, dest, model)
    BY <1>0, <2>1, <2>2, <2>3, RestFound
  <2> QED
    BY <1>0, <2>2, <2>4, FoundStep
<1>11. CASE NoModelForBatch(r)
  <2> DEFINE t == [s EXCEPT !.batch = NoRecords, !.whole = FALSE]
  <2>1. t \in RunState /\ t.ids = s.ids /\ t.quiet = s.quiet /\ ~t.whole
    BY <1>0 DEF RunState
  <2>2. SetRun(r, Advance(t)) /\ UNCHANGED <<src, dest, model>>
    BY <1>11 DEF NoModelForBatch
  <2> HIDE DEF t
  <2>3. (t.quiet => t.ids \subseteq Recs(src)) /\ (~model /\ t.ids # {} => ~t.whole)
    BY <1>0, <2>1 DEF FoundInv
  <2>4. FoundInv(Advance(t), src, dest, model)
    BY <2>1, <2>3, AdvanceFound
  <2> QED
    BY <1>0, <2>2, <2>4, FoundStep
<1>12. CASE Overwrite(r)
  <2> DEFINE t == [s EXCEPT !.pc = "finish", !.whole = @ /\ model]
  <2>1. /\ t.strategy = s.strategy /\ t.ids = s.ids /\ t.quiet = s.quiet
        /\ (t.whole => s.whole)
    BY <1>0 DEF RunState
  <2>2. s.pc = "overwrite" /\ SetRun(r, t) /\ UNCHANGED <<src, model>>
    BY <1>12 DEF Overwrite
  <2>3. s.strategy = "overwrite"
    BY <1>0, <2>2 DEF ShapeInv
  <2> HIDE DEF t
  <2>4. FoundInv(t, src', dest', model')
    BY <1>0, <2>1, <2>2, <2>3 DEF FoundInv
  <2> QED
    BY <1>0, <2>2, <2>4, FoundStep
<1>13. CASE DetectOrphans(r)
  <2> DEFINE t == [s EXCEPT !.pc = "finish",
                            !.orphans = IF model THEN Recs(dest) \ HasAsColumn(s.ids) ELSE {}]
  <2>1. /\ t.ids = s.ids /\ t.quiet = s.quiet /\ t.whole = s.whole
        /\ t.orphans = IF model THEN Recs(dest) \ HasAsColumn(s.ids) ELSE {}
    BY <1>0 DEF RunState
  <2>2. s.pc = "orphans" /\ SetRun(r, t) /\ UNCHANGED <<src, dest, model>>
    BY <1>13 DEF DetectOrphans
  <2> HIDE DEF t
  <2>3. FoundInv(t, src', dest', model')
    BY <1>0, <2>1, <2>2 DEF FoundInv
  <2> QED
    BY <1>0, <2>2, <2>3, FoundStep
<1> QED
  BY <1>1, <1>2, <1>3, <1>5, <1>6, <1>7, <1>8, <1>9, <1>10, <1>11, <1>12, <1>13
     DEF SyncStep

\* What a clean full load has reported when it is about to end.
FullReport(r) ==
  run[r].pc = "finish" /\ Clean(run[r]) /\ FullLoad(run[r])
    /\ run[r].strategy # "overwrite" /\ Recs(src) # {}

LEMMA FoundInvariant == ASSUME SingleRun PROVE Spec => []AllFound
<1>1. Init => AllFound
  BY FoundIdle DEF Init, AllFound
<1>2. TypeOK /\ PagesInv /\ AllFound /\ [Next]_vars => AllFound'
  <2> SUFFICES ASSUME TypeOK, PagesInv, AllFound, [Next]_vars PROVE AllFound'
    OBVIOUS
  <2>1. CASE UNCHANGED vars
    BY <2>1 DEF vars, AllFound
  <2> QED
    BY <2>1, FoundEnvironment, FoundRun DEF Next
<1> QED
  BY <1>1, <1>2, TypeCorrect, PagesInvariant, PTL DEF Spec

LEMMA FullReportIs ==
  ASSUME TypeOK, PagesInv, AllFound, NEW r \in Runs, FullReport(r)
  PROVE  /\ run[r].ids \subseteq Recs(src)
         /\ run[r].orphans = Recs(dest) \ HasAsColumn(run[r].ids)
<1> DEFINE s == run[r]
<1>1. PICK j \in Recs(src) : TRUE
  BY DEF FullReport
<1>2. /\ CollectInv(s) /\ FoundInv(s, src, dest, model) /\ j \in Keys /\ src[j] # 0
      /\ s.pc = "finish" /\ Clean(s) /\ FullLoad(s) /\ s.strategy # "overwrite"
  BY <1>1 DEF PagesInv, AllFound, Recs, FullReport
<1>3. j \in Wanted(s)
  BY <1>2 DEF Wanted, TypeOK, Versions
<1>4. j \in s.ids
  BY <1>2, <1>3 DEF CollectInv, Collected
<1> QED
  BY <1>2, <1>4 DEF FoundInv, Clean

\* A clean full load by upsert, with no other run of the table, reports every
\* stored record that the source has dropped.
THEOREM DroppedRecordsAreFound == ASSUME SingleRun PROVE Spec => []OrphansAreFound
<1>1. TypeOK /\ PagesInv /\ AllFound => OrphansAreFound
  <2> SUFFICES ASSUME TypeOK, PagesInv, AllFound, NEW r \in Runs, FullReport(r)
               PROVE  Recs(dest) \ Recs(src) \subseteq run[r].orphans
    BY DEF OrphansAreFound, FullReport
  <2> QED
    BY FullReportIs DEF HasAsColumn
<1> QED
  BY <1>1, FoundInvariant, TypeCorrect, PagesInvariant, PTL

\* Such a load also reports every stored record whose key the source sends in
\* another type than the column's, although the source has it: syncOneTable
\* collects the keys before syncTableData converts them.
MistypedAreReported ==
  \A r \in Runs : FullReport(r) => Recs(dest) \cap Mistyped \subseteq run[r].orphans

\* The false reports that OrphansAreGone allows are certain, not a matter of chance.
THEOREM MistypedRecordsAreReported == ASSUME SingleRun PROVE Spec => []MistypedAreReported
<1>1. TypeOK /\ PagesInv /\ AllFound => MistypedAreReported
  BY FullReportIs DEF HasAsColumn, MistypedAreReported
<1> QED
  BY <1>1, FoundInvariant, TypeCorrect, PagesInvariant, PTL
=============================================================================
