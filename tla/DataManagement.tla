--------------------------- MODULE DataManagement ---------------------------
(***************************************************************************)
(* The data management page of an administrator and what it calls: the     *)
(* listing of a table, the scan for orphans (rows that the source no       *)
(* longer has) and their purge, which is the one operation of the system   *)
(* that deletes rows on the word of an administrator.                      *)
(*                                                                         *)
(* The page's requests are answered in any order; the source changes and   *)
(* syncs write while a scan pages through the source.  A row is its        *)
(* primary key.  One page is modelled; its buttons keep it to one scan and *)
(* one purge at a time, but not to one request for rows.                   *)
(***************************************************************************)
EXTENDS Naturals, FiniteSets

CONSTANTS
  Tables,      \* the stable tables, which the page lists
  Keys,        \* primary keys, in the order in which pages list them
  BatchLimit,  \* records per page of the source (BATCH_LIMIT)
  PageRows,    \* rows per page of the listing (20)
  Answers,     \* the kinds of answers that a scan meets
  Events,      \* which failures and outside events happen
  MaxEvents,   \* bound on changes of table or page, failures and outside events
  MaxGets      \* bound on the requests for rows in flight

AllEvents == {"add", "remove", "sync", "overwrite", "nokey", "fail", "store", "lost"}
AllAnswers == {"good", "bad", "cached", "empty", "typed"}

ASSUME KeysAssumption   == Keys \subseteq Nat \ {0} /\ IsFiniteSet(Keys)
ASSUME SizesAssumption  == BatchLimit \in Nat \ {0} /\ PageRows \in Nat \ {0}
ASSUME EventsAssumption == Events \subseteq AllEvents /\ MaxEvents \in Nat
ASSUME AnswersAssumption == Answers \subseteq AllAnswers

VARIABLES
  src,      \* table |-> the keys of the source
  dest,     \* table |-> the keys in PostgreSQL
  scan,     \* the scan in flight: the locals of scanOrphans
  purge,    \* the purge in flight: the locals of purgeOrphans and of its handler
  list,     \* the page: the selected table and the rows it shows
  gets,     \* the page: its requests for rows in flight
  panel,    \* the page: the orphan panel and its confirm dialog
  events    \* changes of table or page, failures and outside events so far

stores == <<src, dest>>
page == <<list, gets, panel>>
vars == <<stores, scan, purge, page, events>>

-----------------------------------------------------------------------------
(* Pages                                                                   *)

Rank(k, S) == Cardinality({j \in S : j <= k})

\* The keys on page p of S, n to a page; the number of pages.
OnPage(S, p, n) == {k \in S : (p - 1) * n < Rank(k, S) /\ Rank(k, S) <= p * n}
Pages(S, n) == (Cardinality(S) + n - 1) \div n

\* The source counts one page at least.
SourcePages(t) == IF src[t] = {} THEN 1 ELSE Pages(src[t], BatchLimit)

\* findAll: the rows of a page.  A page 0 is refused by the database.
Rows(t, p) == OnPage(dest[t], p, PageRows)
Listing(t, p) == [table |-> {t}, page |-> p, rows |-> Rows(t, p)]

-----------------------------------------------------------------------------
(* State                                                                   *)

\* sound and gone are history: the source did not change while it was paged
\* through, and gave nothing but good answers; the keys that it lacked at some
\* moment of the scan.
NoResult == [table |-> {}, ids |-> {}, sound |-> FALSE, gone |-> {}]
ScanError(t) == [NoResult EXCEPT !.table = {t}]

NoScan == [pc |-> "idle", table |-> {}, at |-> 1, total |-> 1, ids |-> {},
           sound |-> TRUE, gone |-> {}, result |-> NoResult]
NoPurge == [pc |-> "idle", result |-> NoResult, page |-> 0]

\* excused is history: the last request for rows was sent while another was in
\* flight, or for a table and page that are not selected any more, or it failed,
\* or the table has changed since.
Init ==
  /\ src \in [Tables -> SUBSET Keys] /\ dest = [t \in Tables |-> Keys]
  /\ scan = NoScan /\ purge = NoPurge
  /\ \E t \in Tables :
       list = [selected |-> t, page |-> 1, pages |-> 1, timer |-> TRUE, loading |-> FALSE,
               shown |-> [table |-> {}, page |-> 0, rows |-> {}], excused |-> FALSE]
  /\ gets = {}
  /\ panel = [open |-> FALSE, scanning |-> FALSE, result |-> NoResult,
              confirm |-> FALSE, purging |-> FALSE]
  /\ events = 0

\* What is bounded: another table or page is selected, a failure or an outside
\* event, when it is among those that happen.
Counted == events < MaxEvents /\ events' = events + 1
Happens(e) == e \in Events /\ Counted

-----------------------------------------------------------------------------
(* The listing                                                             *)

\* fetchData with the table and page of the render it belongs to.
Send(t, p) == gets' = gets \cup {[table |-> t, page |-> p]}
Sent(fits) == [list EXCEPT !.loading = TRUE, !.excused = gets # {} \/ ~fits]

\* The 350 ms after the last change of table or page are over.
FetchData ==
  /\ list.timer /\ Cardinality(gets) < MaxGets
  /\ Send(list.selected, list.page)
  /\ list' = [Sent(TRUE) EXCEPT !.timer = FALSE]
  /\ UNCHANGED <<stores, scan, purge, panel, events>>

\* The answer replaces what is shown, whatever is selected by now.
Answered(g) ==
  [list EXCEPT !.loading = FALSE, !.shown = Listing(g.table, g.page),
               !.pages = Pages(dest[g.table], PageRows)]

RowsArrive(g) ==
  /\ g \in gets /\ g.page > 0
  /\ list' = Answered(g)
  /\ gets' = gets \ {g}
  /\ UNCHANGED <<stores, scan, purge, panel, events>>

\* The rows are emptied, the number of pages stays.
RowsFail(g) ==
  /\ g \in gets
  /\ IF g.page = 0 THEN UNCHANGED events ELSE Happens("fail")
  /\ list' = [list EXCEPT !.loading = FALSE, !.shown.rows = {}, !.excused = TRUE]
  /\ gets' = gets \ {g}
  /\ UNCHANGED <<stores, scan, purge, panel>>

\* The confirm dialog lies over the page.
Reachable == ~panel.confirm

\* Mutant of Turned: the effect does not depend on the table.
TurnedByPage(l) == [l EXCEPT !.timer = @ \/ l.page # list.page]

\* A change of table or page restarts the timer (and forgets a pending one).
Turned(l) == [l EXCEPT !.timer = @ \/ l.page # list.page \/ l.selected # list.selected]

\* Mutant of SelectTable: the panel stays open.
SelectTableOnly(t) ==
  /\ Reachable /\ Counted
  /\ list' = Turned([list EXCEPT !.selected = t, !.page = 1])
  /\ UNCHANGED <<stores, scan, purge, gets, panel>>

\* handleSelectTable: the panel closes and forgets its result.
SelectTable(t) ==
  /\ Reachable /\ Counted
  /\ list' = Turned([list EXCEPT !.selected = t, !.page = 1])
  /\ panel' = [panel EXCEPT !.open = FALSE, !.result = NoResult]
  /\ UNCHANGED <<stores, scan, purge, gets>>

\* The buttons are disabled on the first and the last page; the last page of an
\* empty table is 0, so that there "next" leads to page 0.
PrevPage ==
  /\ Reachable /\ Counted /\ ~list.loading /\ list.page # 1
  /\ list' = Turned([list EXCEPT !.page = IF @ > 1 THEN @ - 1 ELSE 1])
  /\ UNCHANGED <<stores, scan, purge, gets, panel>>

NextPage ==
  /\ Reachable /\ Counted /\ ~list.loading /\ list.page # list.pages
  /\ list' = Turned([list EXCEPT !.page = IF @ < list.pages THEN @ + 1 ELSE list.pages])
  /\ UNCHANGED <<stores, scan, purge, gets, panel>>

-----------------------------------------------------------------------------
(* The scan                                                                *)

\* handleScanOrphans: the button scans when the panel is closed ...
ScanOrphans ==
  /\ Reachable /\ ~panel.scanning /\ ~panel.open
  /\ panel' = [panel EXCEPT !.open = TRUE, !.scanning = TRUE, !.result = NoResult]
  /\ scan' = [NoScan EXCEPT !.pc = "registry", !.table = {list.selected},
                             !.gone = Keys \ src[list.selected]]
  /\ UNCHANGED <<stores, purge, list, gets, events>>

\* ... and closes it when it is open.  The cross closes it during a scan, too.
ClosePanel ==
  /\ Reachable /\ panel.open
  /\ panel' = [panel EXCEPT !.open = FALSE]
  /\ UNCHANGED <<stores, scan, purge, list, gets, events>>

Answer(result) == scan' = [NoScan EXCEPT !.pc = "answer", !.result = result]

\* The registry has no document of the table, or one without a primary key.
NotScannable ==
  /\ scan.pc = "registry" /\ Happens("nokey")
  /\ \E t \in scan.table : Answer(ScanError(t))
  /\ UNCHANGED <<stores, purge, page>>

FindSchema ==
  /\ scan.pc = "registry"
  /\ scan' = [scan EXCEPT !.pc = "fetch"]
  /\ UNCHANGED <<stores, purge, page, events>>

\* withRetry gives up, the credentials or the rows cannot be read: the result of
\* the table is an error.
ScanThrows ==
  /\ scan.pc \in {"fetch", "detect"} /\ Happens("fail")
  /\ \E t \in scan.table : Answer(ScanError(t))
  /\ UNCHANGED <<stores, purge, page>>

\* Mutant of Turn: the loop stops one page early.
TurnEarly(s) == IF s.at + 1 < s.total THEN [s EXCEPT !.at = @ + 1]
                ELSE [s EXCEPT !.pc = "detect"]

\* The next page, as long as there is one.
Turn(s) == IF s.at < s.total THEN [s EXCEPT !.at = @ + 1]
           ELSE [s EXCEPT !.pc = "detect"]

\* Only the first page's answer counts the pages.
WithTotal(s, n) == [s EXCEPT !.total = IF s.at = 1 THEN n ELSE @]

\* A page of the source, as buildResponse makes it.
GoodPage(t) ==
  /\ scan' = Turn([WithTotal(scan, SourcePages(t)) EXCEPT
                     !.ids = @ \cup OnPage(src[t], scan.at, BatchLimit)])
  /\ UNCHANGED events

\* An answer without a list of records, with or without "success": the loop
\* ends, and what has not been read counts as missing.
BadPage ==
  /\ Counted
  /\ scan' = [scan EXCEPT !.pc = "detect", !.sound = FALSE]

\* The first page over again, which a sync would have noticed.
CachedPage(t) ==
  /\ Counted
  /\ scan' = Turn([WithTotal(scan, SourcePages(t)) EXCEPT
                     !.ids = @ \cup OnPage(src[t], 1, BatchLimit), !.sound = FALSE])

\* An empty page where there should be records: the loop goes on.
EmptyPage(t) ==
  /\ Counted
  /\ scan' = Turn([WithTotal(scan, SourcePages(t)) EXCEPT !.sound = FALSE])

\* The keys are strings where the table has numbers.  The sync converts them
\* (normalizeRecord); here they differ from every key of the table.
TypedPage(t) ==
  /\ Counted
  /\ scan' = Turn([WithTotal(scan, SourcePages(t)) EXCEPT !.sound = FALSE])

FetchPage ==
  /\ scan.pc = "fetch"
  /\ \E t \in scan.table :
       \/ "good" \in Answers /\ GoodPage(t)
       \/ "bad" \in Answers /\ BadPage
       \/ "cached" \in Answers /\ CachedPage(t)
       \/ "empty" \in Answers /\ EmptyPage(t)
       \/ "typed" \in Answers /\ TypedPage(t)
  /\ UNCHANGED <<stores, purge, page>>

\* The rows that the source has not named.
DetectOrphans ==
  /\ scan.pc = "detect"
  /\ \E t \in scan.table :
       Answer([table |-> {t}, ids |-> dest[t] \ scan.ids,
               sound |-> scan.sound, gone |-> scan.gone])
  /\ UNCHANGED <<stores, purge, page, events>>

\* The result is stored, whatever is selected by now.
ScanAnswered ==
  /\ scan.pc = "answer"
  /\ panel' = [panel EXCEPT !.scanning = FALSE, !.result = scan.result]
  /\ scan' = NoScan
  /\ UNCHANGED <<stores, purge, list, gets, events>>

\* The request fails, at any time.
ScanLost ==
  /\ scan.pc # "idle" /\ Happens("lost")
  /\ panel' = [panel EXCEPT !.scanning = FALSE]
  /\ scan' = NoScan
  /\ UNCHANGED <<stores, purge, list, gets>>

-----------------------------------------------------------------------------
(* The purge                                                               *)

\* The footer of the panel is there when a result lists orphans.
Footer == panel.open /\ ~panel.scanning /\ panel.result.ids # {}

OpenConfirm ==
  /\ Reachable /\ Footer /\ ~panel.purging
  /\ panel' = [panel EXCEPT !.confirm = TRUE]
  /\ UNCHANGED <<stores, scan, purge, list, gets, events>>

\* Escape closes the dialog even while the purge is under way; only the cancel
\* button is disabled.
CloseConfirm ==
  /\ panel.confirm
  /\ panel' = [panel EXCEPT !.confirm = FALSE]
  /\ UNCHANGED <<stores, scan, purge, list, gets, events>>

\* handlePurgeOrphans sends the result on display.
Confirm ==
  /\ panel.confirm /\ ~panel.purging
  /\ panel' = [panel EXCEPT !.purging = TRUE]
  /\ purge' = [pc |-> "log", result |-> panel.result, page |-> list.page]
  /\ UNCHANGED <<stores, scan, list, gets, events>>

To(pc) == purge' = [purge EXCEPT !.pc = pc]

CreateLog ==
  /\ purge.pc = "log"
  /\ To("delete")
  /\ UNCHANGED <<stores, scan, page, events>>

CreateLogFails ==
  /\ purge.pc = "log" /\ Happens("store")
  /\ To("failed")
  /\ UNCHANGED <<stores, scan, page>>

\* deleteRecordsByIds: one deleteMany, with the identifiers of the result.
DeleteRecords ==
  /\ purge.pc = "delete"
  /\ dest' = [t \in Tables |-> IF t \in purge.result.table
                               THEN dest[t] \ purge.result.ids ELSE dest[t]]
  /\ To("finish")
  /\ UNCHANGED <<src, scan, page, events>>

DeleteFails ==
  /\ purge.pc = "delete" /\ Happens("store")
  /\ To("catch")
  /\ UNCHANGED <<stores, scan, page>>

\* The log is finished; when that fails, the purge fails although the rows are
\* gone.
FinishLog ==
  /\ purge.pc = "finish"
  /\ To("done")
  /\ UNCHANGED <<stores, scan, page, events>>

FinishLogFails ==
  /\ purge.pc = "finish" /\ Happens("store")
  /\ To("catch")
  /\ UNCHANGED <<stores, scan, page>>

\* The log is finished as failed, if it can be, and the exception thrown on.
Catch ==
  /\ purge.pc = "catch"
  /\ To("failed")
  /\ UNCHANGED <<stores, scan, page, events>>

\* The panel shows the result of the purge as emptied, the dialog closes, and
\* the rows of the table and page of the purge are fetched at once.
PurgeAnswered ==
  /\ purge.pc = "done"
  /\ panel' = [panel EXCEPT !.purging = FALSE, !.confirm = FALSE,
                            !.result = [purge.result EXCEPT !.ids = {}]]
  /\ \E t \in purge.result.table : Send(t, purge.page)
  /\ list' = Sent(purge.result.table = {list.selected} /\ purge.page = list.page)
  /\ purge' = NoPurge
  /\ UNCHANGED <<stores, scan, events>>

\* The purge has failed, or its answer is lost: the dialog stays as it is, for a
\* second attempt.
PurgeFailed ==
  /\ \/ purge.pc = "failed" /\ UNCHANGED events
     \/ purge.pc = "done" /\ Happens("lost")
  /\ panel' = [panel EXCEPT !.purging = FALSE]
  /\ list' = [list EXCEPT !.excused = TRUE]
  /\ purge' = NoPurge
  /\ UNCHANGED <<stores, scan, gets>>

-----------------------------------------------------------------------------
(* The source and the syncs                                                *)

\* A scan that is paging through the table may miss a record now.
Disturb(t, gone) ==
  scan' = IF t \in scan.table
          THEN [scan EXCEPT !.sound = @ /\ scan.pc # "fetch", !.gone = @ \cup gone]
          ELSE scan

Add(t, k) ==
  /\ k \notin src[t] /\ Happens("add")
  /\ src' = [src EXCEPT ![t] = @ \cup {k}]
  /\ Disturb(t, {})
  /\ UNCHANGED <<dest, purge, page>>

Remove(t, k) ==
  /\ k \in src[t] /\ Happens("remove")
  /\ src' = [src EXCEPT ![t] = @ \ {k}]
  /\ Disturb(t, {k})
  /\ UNCHANGED <<dest, purge, page>>

Behind(t) == list' = [list EXCEPT !.excused = @ \/ t = list.selected]

\* A sync writes a record (TableSync, UpsertRecord and Overwrite).
SyncRecord(t, k) ==
  /\ k \in src[t] \ dest[t] /\ Happens("sync")
  /\ dest' = [dest EXCEPT ![t] = @ \cup {k}]
  /\ Behind(t)
  /\ UNCHANGED <<src, scan, purge, gets, panel>>

Overwrite(t) ==
  /\ dest[t] # src[t] /\ Happens("overwrite")
  /\ dest' = [dest EXCEPT ![t] = src[t]]
  /\ Behind(t)
  /\ UNCHANGED <<src, scan, purge, gets, panel>>

-----------------------------------------------------------------------------
ListStep ==
  \/ FetchData \/ \E g \in gets : RowsArrive(g) \/ RowsFail(g)
  \/ \E t \in Tables : SelectTable(t)
  \/ PrevPage \/ NextPage

ScanWorks ==
  \/ NotScannable \/ FindSchema \/ ScanThrows \/ FetchPage \/ DetectOrphans
  \/ ScanAnswered \/ ScanLost

PurgeWorks ==
  \/ CreateLog \/ CreateLogFails \/ DeleteRecords \/ DeleteFails
  \/ FinishLog \/ FinishLogFails \/ Catch \/ PurgeAnswered \/ PurgeFailed

PanelStep == ScanOrphans \/ ClosePanel \/ OpenConfirm \/ CloseConfirm \/ Confirm

World ==
  \E t \in Tables :
    \/ \E k \in Keys : Add(t, k) \/ Remove(t, k) \/ SyncRecord(t, k)
    \/ Overwrite(t)

Next == ListStep \/ PanelStep \/ ScanWorks \/ PurgeWorks \/ World

Spec == Init /\ [][Next]_vars

-----------------------------------------------------------------------------
(* Properties                                                              *)

Results == [table : SUBSET Tables, ids : SUBSET Keys, sound : BOOLEAN, gone : SUBSET Keys]

TypeOK ==
  /\ src \in [Tables -> SUBSET Keys] /\ dest \in [Tables -> SUBSET Keys]
  /\ scan \in [pc : {"idle", "registry", "fetch", "detect", "answer"},
               table : SUBSET Tables, at : Nat, total : Nat, ids : SUBSET Keys,
               sound : BOOLEAN, gone : SUBSET Keys, result : Results]
  /\ purge \in [pc : {"idle", "log", "delete", "finish", "catch", "done", "failed"},
                result : Results, page : Nat]
  /\ list \in [selected : Tables, page : Nat, pages : Nat, timer : BOOLEAN,
               loading : BOOLEAN, excused : BOOLEAN,
               shown : [table : SUBSET Tables, page : Nat, rows : SUBSET Keys]]
  /\ gets \subseteq [table : Tables, page : Nat]
  /\ panel \in [open : BOOLEAN, scanning : BOOLEAN, result : Results,
                confirm : BOOLEAN, purging : BOOLEAN]
  /\ events \in 0 .. MaxEvents

\* What the administrator is asked to confirm is on display: rows of the
\* selected table, from the scan that was answered last.  Relates the buttons
\* that a scan and a purge disable to the answers that arrive after another
\* table was selected, or after Escape has closed the dialog of a purge.
ConfirmedIsListed ==
  panel.confirm /\ ~panel.purging =>
    panel.open /\ ~panel.scanning
      /\ panel.result.table = {list.selected} /\ panel.result.ids # {}

\* A purge deletes no row whose record the source had all through the scan, if
\* the scan was sound, whatever was added, removed or synced before and after;
\* relates the page loop of scanOrphans, the page that keeps its result and
\* purgeOrphans, which deletes what it is told.
OnlyGoneRowsArePurged ==
  [][purge.pc = "delete" /\ purge.result.sound =>
       \A t \in Tables : dest[t] \ dest'[t] \subseteq
         IF t \in purge.result.table THEN purge.result.gone ELSE {}]_purge

\* The page at rest shows the rows of the selected table and page, without those
\* that it has purged, unless answers may have overtaken each other or the table
\* has changed behind it.
ListFits ==
  ~list.timer /\ gets = {} /\ purge.pc = "idle" /\ ~list.excused =>
    list.shown = Listing(list.selected, list.page)
=============================================================================
