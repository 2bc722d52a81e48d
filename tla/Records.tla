------------------------------ MODULE Records ------------------------------
(***************************************************************************)
(* What SyncEngineService.syncTableData makes of one batch of records,     *)
(* before and while it upserts them one by one: the duplicates of a key,   *)
(* the types of the keys, and the records that cannot be written.          *)
(*                                                                         *)
(* The algorithm is a function of the batch.  TableSync takes a batch to   *)
(* hold one well-typed record per key; the assumptions below say what such *)
(* a batch is made of any other one, for every batch of bounded length.    *)
(***************************************************************************)
EXTENDS Naturals, Sequences
LOCAL INSTANCE SequencesExt

\* A key as the source sends it: as a number, as a text of that number, as a
\* text that is no number, or not at all.  No time: none of the timestamp
\* fields holds a date.
NoKey == 0
NoTime == 0
Record == [key : {1, 2}, form : {"number", "text"}, time : 0 .. 2, body : {"a", "b"}]
            \cup [key : {1}, form : {"junk"}, time : {1}, body : {"a"}]
            \cup [key : {NoKey}, form : {"none"}, time : {1}, body : {"a", "b"}]

SameKey(r, s) == r.key = s.key /\ r.form = s.form

\* Of two records with a timestamp the newer one is kept, the later one of two
\* that are equal; a record without a timestamp gives way, and is not given way
\* to, by position alone.
Supersedes(r, s) == r.time = NoTime \/ s.time = NoTime \/ r.time >= s.time

\* One round of the loop.  A Map keeps the place where a key came first.
Keep(seen, r) ==
  IF r.key = NoKey THEN seen
  ELSE IF \A i \in DOMAIN seen : ~SameKey(r, seen[i]) THEN Append(seen, r)
  ELSE [i \in DOMAIN seen |->
          IF SameKey(r, seen[i]) /\ Supersedes(r, seen[i]) THEN r ELSE seen[i]]

HasNoKey(r) == r.key = NoKey

\* The records without a key are left for the dead letters.
Deduplicate(batch) == FoldLeft(Keep, <<>>, batch) \o SelectSeq(batch, HasNoKey)

\* The type of the column is a number: a text becomes one, or null.
Normalize(r) == IF r.form \in {"number", "text"} THEN r.key ELSE NoKey

\* A record without a key throws, and so does an upsert whose key has become
\* null; the other records replace what is stored.
Upsert(table, r) ==
  IF Normalize(r) = NoKey THEN table ELSE [table EXCEPT ![Normalize(r)] = {r.time}]

SyncTableData(batch) == FoldLeft(Upsert, [k \in {1, 2} |-> {}], Deduplicate(batch))

Dead(r) == Normalize(r) = NoKey
DeadLetters(batch) == SelectSeq(Deduplicate(batch), Dead)

\* The status of the batch's log.
BatchStatus(batch) ==
  LET failed == Len(DeadLetters(batch))
  IN IF failed = 0 THEN "done"
     ELSE IF failed < Len(Deduplicate(batch)) THEN "partial_success" ELSE "failed"

-----------------------------------------------------------------------------
(* What the algorithm is for                                               *)

Batches == BoundedSeq(Record, 3)

At(batch, r) == {i \in DOMAIN batch : SameKey(batch[i], r)}
Untimed(batch, r) == {i \in At(batch, r) : batch[i].time = NoTime}

\* The record of r's key that stays: the last one without a timestamp or, among
\* those behind it, the last of the newest.
Stays(batch, r) ==
  LET behind == {i \in At(batch, r) : \A j \in Untimed(batch, r) : j < i}
      newest == {i \in behind : \A j \in behind : batch[j].time <= batch[i].time}
      S == IF behind = {} THEN Untimed(batch, r) ELSE newest
  IN batch[CHOOSE i \in S : \A j \in S : j <= i]

\* Deduplication leaves exactly one record of every key, the one that stays, and
\* all the records without a key.  Relates the loop with its Map to a definition
\* without state.
ASSUME DeduplicateIsReference ==
  \A batch \in Batches :
    /\ \A r \in Range(batch) : r.key # NoKey =>
         SelectSeq(Deduplicate(batch), LAMBDA s : SameKey(r, s)) = <<Stays(batch, r)>>
    /\ SelectSeq(Deduplicate(batch), HasNoKey) = SelectSeq(batch, HasNoKey)
    /\ Range(Deduplicate(batch)) \subseteq Range(batch)

Timed(batch) == \A r \in Range(batch) : r.time # NoTime
OneForm(batch) == \A r, s \in Range(batch) : r.key = s.key => r.form = s.form

\* A batch with timestamps whose keys have one form each leaves the newest
\* record of every key in the table.  Both conditions are needed: a record
\* without a timestamp lets an older one replace a newer one, and the two forms
\* of a key pass the deduplication, which compares keys before they are converted.
ASSUME NewestIsStored ==
  \A batch \in Batches : Timed(batch) /\ OneForm(batch) =>
    \A k \in {1, 2} :
      LET times == {r.time : r \in {s \in Range(batch) : Normalize(s) = k}}
      IN SyncTableData(batch)[k] = {n \in times : \A m \in times : m <= n}

\* Whatever the batch holds, a key that some record has in a form that can be
\* converted is stored, and the log says done only if no record was given up.
ASSUME NoKeyIsSkipped ==
  \A batch \in Batches :
    /\ \A k \in {1, 2} : SyncTableData(batch)[k] = {} <=>
         \A r \in Range(batch) : Normalize(r) # k
    /\ BatchStatus(batch) = "done" <=> \A r \in Range(batch) : ~Dead(r)
=============================================================================
