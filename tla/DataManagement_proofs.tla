------------------------ MODULE DataManagement_proofs ------------------------
(***************************************************************************)
(* Theorems about DataManagement, for every set of tables and keys, every  *)
(* page size and every choice of answers and failures: typing, what the    *)
(* administrator confirms is what the page shows, and what a purge that    *)
(* rests on a sound scan can delete.                                       *)
(***************************************************************************)
EXTENDS DataManagement, FiniteSetTheorems, TLAPS

(* Pages                                                                   *)

LEMMA KeysAreFinite ==
  ASSUME NEW S, S \subseteq Keys
  PROVE  IsFiniteSet(S) /\ Cardinality(S) \in Nat
BY KeysAssumption, FS_Subset, FS_CardinalityType

LEMMA PagesType ==
  ASSUME NEW S, S \subseteq Keys, NEW n \in Nat \ {0} PROVE Pages(S, n) \in Nat
<1>1. Cardinality(S) \in Nat
  BY KeysAreFinite
<1> DEFINE c == Cardinality(S) + n - 1
<1>2. c \in Nat
  BY <1>1
<1> HIDE DEF c
<1>3. c \div n \in Nat
  BY <1>2
<1> QED
  BY <1>3 DEF Pages, c

LEMMA SourcePagesType ==
  ASSUME NEW t \in Tables, src[t] \subseteq Keys PROVE SourcePages(t) \in Nat
BY PagesType, SizesAssumption DEF SourcePages

LEMMA OnPageType == ASSUME NEW S, NEW p, NEW n PROVE OnPage(S, p, n) \subseteq S
BY DEF OnPage

LEMMA RankType ==
  ASSUME NEW S, S \subseteq Keys, NEW k
  PROVE  Rank(k, S) \in Nat /\ Rank(k, S) <= Cardinality(S)
<1>1. IsFiniteSet(S)
  BY KeysAreFinite
<1>2. {j \in S : j <= k} \subseteq S
  OBVIOUS
<1>3. Cardinality({j \in S : j <= k}) \in Nat /\ Cardinality({j \in S : j <= k}) <= Cardinality(S)
  BY <1>1, <1>2, FS_Subset, FS_CardinalityType
<1> QED
  BY <1>3 DEF Rank

\* The pages hold everything.
LEMMA PagesHoldAll ==
  ASSUME NEW S, S \subseteq Keys, NEW n \in Nat \ {0}, NEW at \in Nat, Pages(S, n) <= at
  PROVE  Cardinality(S) <= at * n
<1>1. Cardinality(S) \in Nat
  BY KeysAreFinite
<1> DEFINE c == Cardinality(S)
           m == c + n - 1
           q == m \div n
<1>2. c \in Nat /\ m \in Nat /\ m = c + n - 1
  BY <1>1
<1> HIDE DEF m, c
<1>3. q \in Nat /\ n * q <= m /\ m < n * (q + 1)
  BY <1>2
<1>4. q <= at
  BY DEF Pages, c, m
<1> HIDE DEF q
<1>5. n * q <= n * at
  BY <1>3, <1>4
<1>6. n * (q + 1) = n * q + n
  BY <1>3
<1>7. n * q \in Nat /\ n * at \in Nat /\ n * at = at * n
  BY <1>3
<1>8. c + n - 1 < n * q + n
  BY <1>2, <1>3, <1>6
<1>9. c <= n * at
  BY <1>2, <1>5, <1>7, <1>8
<1> QED
  BY <1>7, <1>9 DEF c

-----------------------------------------------------------------------------
(* Type correctness                                                        *)

ScanState == [pc : {"idle", "registry", "fetch", "detect", "answer"},
              table : SUBSET Tables, at : Nat, total : Nat, ids : SUBSET Keys,
              sound : BOOLEAN, gone : SUBSET Keys, result : Results]
PurgeState == [pc : {"idle", "log", "delete", "finish", "catch", "done", "failed"},
               result : Results, page : Nat]
Shown == [table : SUBSET Tables, page : Nat, rows : SUBSET Keys]
ListState == [selected : Tables, page : Nat, pages : Nat, timer : BOOLEAN,
              loading : BOOLEAN, excused : BOOLEAN, shown : Shown]
PanelState == [open : BOOLEAN, scanning : BOOLEAN, result : Results,
               confirm : BOOLEAN, purging : BOOLEAN]
Requests == [table : Tables, page : Nat]
Store == [Tables -> SUBSET Keys]

Typed ==
  /\ src \in Store /\ dest \in Store
  /\ scan \in ScanState /\ purge \in PurgeState
  /\ list \in ListState /\ gets \subseteq Requests
  /\ panel \in PanelState
  /\ events \in 0 .. MaxEvents

LEMMA TypedIsTypeOK == TypeOK <=> Typed
BY DEF TypeOK, Typed, ScanState, PurgeState, Shown, ListState, PanelState, Requests, Store

LEMMA NoResultType == NoResult \in Results
BY DEF NoResult, Results

LEMMA ScanErrorType ==
  ASSUME NEW t \in Tables
  PROVE  /\ ScanError(t) \in Results
         /\ ScanError(t).ids = {} /\ ScanError(t).table = {t} /\ ~ScanError(t).sound
BY DEF ScanError, NoResult, Results

LEMMA NoScanType ==
  /\ NoScan \in ScanState
  /\ NoScan.pc = "idle" /\ NoScan.table = {} /\ NoScan.ids = {} /\ NoScan.at = 1
  /\ NoScan.sound = TRUE
BY NoResultType DEF NoScan, ScanState

LEMMA CountedType ==
  ASSUME events \in 0 .. MaxEvents, Counted PROVE events' \in 0 .. MaxEvents
BY EventsAssumption DEF Counted

LEMMA HappensType ==
  ASSUME events \in 0 .. MaxEvents, NEW e, Happens(e) PROVE events' \in 0 .. MaxEvents
BY CountedType DEF Happens

LEMMA RowsType ==
  ASSUME dest \in Store, NEW t \in Tables, NEW p \in Nat PROVE Listing(t, p) \in Shown
<1>1. Rows(t, p) \subseteq Keys
  BY OnPageType DEF Rows, Store
<1> QED
  BY <1>1 DEF Listing, Shown

LEMMA SentType ==
  ASSUME list \in ListState, NEW b \in BOOLEAN
  PROVE  Sent(b) \in ListState /\ Sent(b).selected = list.selected
BY DEF Sent, ListState

LEMMA TurnedType ==
  ASSUME list \in ListState, NEW l \in ListState
  PROVE  Turned(l) \in ListState /\ Turned(l).selected = l.selected
BY DEF Turned, ListState

LEMMA TurnType ==
  ASSUME NEW s \in ScanState
  PROVE  /\ Turn(s) \in ScanState
         /\ Turn(s).table = s.table /\ Turn(s).ids = s.ids /\ Turn(s).sound = s.sound
         /\ Turn(s).gone = s.gone /\ Turn(s).total = s.total
         /\ Turn(s).pc = IF s.at < s.total THEN s.pc ELSE "detect"
         /\ Turn(s).at = IF s.at < s.total THEN s.at + 1 ELSE s.at
BY DEF Turn, ScanState

LEMMA WithTotalType ==
  ASSUME NEW s \in ScanState, NEW n \in Nat
  PROVE  /\ WithTotal(s, n) \in ScanState
         /\ WithTotal(s, n).table = s.table /\ WithTotal(s, n).ids = s.ids
         /\ WithTotal(s, n).sound = s.sound /\ WithTotal(s, n).gone = s.gone
         /\ WithTotal(s, n).pc = s.pc /\ WithTotal(s, n).at = s.at
         /\ WithTotal(s, n).total = IF s.at = 1 THEN n ELSE s.total
BY DEF WithTotal, ScanState

\* The scan r that has read one page more: the keys X, of n pages.
PageRead(r, n, X) ==
  /\ r \in ScanState /\ r.table = scan.table
  /\ r.ids = scan.ids \cup X /\ r.sound = scan.sound /\ r.gone = scan.gone
  /\ r.total = IF scan.at = 1 THEN n ELSE scan.total
  /\ r.pc = IF scan.at < r.total THEN scan.pc ELSE "detect"
  /\ r.at = IF scan.at < r.total THEN scan.at + 1 ELSE scan.at

LEMMA ReadPage ==
  ASSUME scan \in ScanState, NEW n \in Nat, NEW X \in SUBSET Keys, NEW r,
         r = Turn([WithTotal(scan, n) EXCEPT !.ids = @ \cup X])
  PROVE  PageRead(r, n, X)
<1> DEFINE w == WithTotal(scan, n)
           v == [w EXCEPT !.ids = @ \cup X]
<1>1. /\ w \in ScanState /\ w.table = scan.table /\ w.ids = scan.ids
      /\ w.sound = scan.sound /\ w.gone = scan.gone /\ w.pc = scan.pc /\ w.at = scan.at
      /\ w.total = IF scan.at = 1 THEN n ELSE scan.total
  BY WithTotalType
<1> HIDE DEF w
<1>2. /\ v \in ScanState /\ v.table = w.table /\ v.ids = w.ids \cup X
      /\ v.sound = w.sound /\ v.gone = w.gone /\ v.pc = w.pc /\ v.at = w.at
      /\ v.total = w.total
  BY <1>1 DEF ScanState
<1>3. r = Turn(v)
  BY DEF w
<1> HIDE DEF v
<1>4. /\ r \in ScanState /\ r.table = v.table /\ r.ids = v.ids /\ r.sound = v.sound
      /\ r.gone = v.gone /\ r.total = v.total
      /\ r.pc = IF v.at < v.total THEN v.pc ELSE "detect"
      /\ r.at = IF v.at < v.total THEN v.at + 1 ELSE v.at
  BY <1>2, <1>3, TurnType
<1>5. /\ r.table = scan.table /\ r.ids = scan.ids \cup X /\ r.sound = scan.sound
      /\ r.gone = scan.gone
  BY <1>1, <1>2, <1>4
<1>6. r.total = IF scan.at = 1 THEN n ELSE scan.total
  BY <1>1, <1>2, <1>4
<1>7. r.pc = IF scan.at < r.total THEN scan.pc ELSE "detect"
  BY <1>1, <1>2, <1>4
<1>8. r.at = IF scan.at < r.total THEN scan.at + 1 ELSE scan.at
  BY <1>1, <1>2, <1>4
<1> QED
  BY <1>4, <1>5, <1>6, <1>7, <1>8 DEF PageRead

LEMMA ReadUnsoundPage ==
  ASSUME scan \in ScanState, NEW n \in Nat, NEW X \in SUBSET Keys, NEW r,
         \/ r = Turn([WithTotal(scan, n) EXCEPT !.ids = @ \cup X, !.sound = FALSE])
         \/ r = Turn([WithTotal(scan, n) EXCEPT !.sound = FALSE])
  PROVE  /\ r \in ScanState /\ r.table = scan.table /\ ~r.sound
         /\ r.pc \in {scan.pc, "detect"} /\ r.gone = scan.gone
         /\ scan.at >= 1 => r.at >= 1
<1> DEFINE w == WithTotal(scan, n)
           v == [w EXCEPT !.ids = @ \cup X, !.sound = FALSE]
           u == [w EXCEPT !.sound = FALSE]
<1>1. /\ w \in ScanState /\ w.table = scan.table /\ w.pc = scan.pc /\ w.gone = scan.gone
      /\ w.at = scan.at
  BY WithTotalType
<1>2. r = Turn(v) \/ r = Turn(u)
  OBVIOUS
<1> HIDE DEF w
<1>3. v \in ScanState /\ v.table = w.table /\ ~v.sound /\ v.pc = w.pc
      /\ v.gone = w.gone /\ v.at = w.at
  BY <1>1 DEF ScanState
<1>4. u \in ScanState /\ u.table = w.table /\ ~u.sound /\ u.pc = w.pc
      /\ u.gone = w.gone /\ u.at = w.at
  BY <1>1 DEF ScanState
<1> HIDE DEF v, u
<1>5. ASSUME NEW x \in ScanState, r = Turn(x), x.table = scan.table, ~x.sound,
             x.pc = scan.pc, x.gone = scan.gone, x.at = scan.at
      PROVE  /\ r \in ScanState /\ r.table = scan.table /\ ~r.sound
             /\ r.pc \in {scan.pc, "detect"} /\ r.gone = scan.gone
             /\ scan.at >= 1 => r.at >= 1
  <2>1. /\ r \in ScanState /\ r.table = x.table /\ r.sound = x.sound /\ r.gone = x.gone
        /\ r.pc = IF x.at < x.total THEN x.pc ELSE "detect"
        /\ r.at = IF x.at < x.total THEN x.at + 1 ELSE x.at
    BY <1>5, TurnType
  <2>2. x.at \in Nat
    BY DEF ScanState
  <2> QED
    BY <1>5, <2>1, <2>2
<1> QED
  BY <1>1, <1>2, <1>3, <1>4, <1>5

\* A page of a scan: a good one, or one after which the scan is not sound.
LEMMA FetchPageEffect ==
  ASSUME Typed, FetchPage
  PROVE  /\ scan' \in ScanState /\ scan'.table = scan.table
         /\ scan'.pc \in {"fetch", "detect"} /\ events' \in 0 .. MaxEvents
         /\ \/ ~scan'.sound
            \/ \E t \in scan.table : GoodPage(t)
<1>0. scan \in ScanState /\ src \in Store /\ events \in 0 .. MaxEvents /\ scan.pc = "fetch"
  BY DEF Typed, FetchPage
<1>1. PICK t \in scan.table : GoodPage(t) \/ BadPage \/ CachedPage(t) \/ EmptyPage(t) \/ TypedPage(t)
  BY DEF FetchPage
<1>2. t \in Tables /\ src[t] \subseteq Keys
  BY <1>0, <1>1 DEF ScanState, Store
<1>3. SourcePages(t) \in Nat
  BY <1>2, SourcePagesType
<1> DEFINE X == OnPage(src[t], scan.at, BatchLimit)
           Y == OnPage(src[t], 1, BatchLimit)
<1>4. X \in SUBSET Keys /\ Y \in SUBSET Keys
  BY <1>2, OnPageType
<1> HIDE DEF X, Y
<1>5. CASE GoodPage(t)
  <2>1. scan' = Turn([WithTotal(scan, SourcePages(t)) EXCEPT !.ids = @ \cup X])
    BY <1>5 DEF GoodPage, X
  <2>2. PageRead(scan', SourcePages(t), X)
    BY <2>1, <1>0, <1>3, <1>4, ReadPage
  <2>3. scan' \in ScanState /\ scan'.table = scan.table /\ scan'.pc \in {scan.pc, "detect"}
    BY <2>2 DEF PageRead
  <2> QED
    BY <2>3, <1>0, <1>1, <1>5 DEF GoodPage
<1>6. CASE BadPage
  <2>1. scan' = [scan EXCEPT !.pc = "detect", !.sound = FALSE] /\ events' \in 0 .. MaxEvents
    BY <1>6, <1>0, CountedType DEF BadPage
  <2> QED
    BY <2>1, <1>0 DEF ScanState
<1>7. CASE CachedPage(t)
  <2>1. scan' = Turn([WithTotal(scan, SourcePages(t)) EXCEPT !.ids = @ \cup Y, !.sound = FALSE])
        /\ events' \in 0 .. MaxEvents
    BY <1>7, <1>0, CountedType DEF CachedPage, Y
  <2>2. scan' \in ScanState /\ scan'.table = scan.table /\ ~scan'.sound
        /\ scan'.pc \in {scan.pc, "detect"}
    BY <2>1, <1>0, <1>3, <1>4, ReadUnsoundPage
  <2> QED
    BY <2>1, <2>2, <1>0
<1>8. CASE EmptyPage(t) \/ TypedPage(t)
  <2>1. scan' = Turn([WithTotal(scan, SourcePages(t)) EXCEPT !.sound = FALSE])
        /\ events' \in 0 .. MaxEvents
    BY <1>8, <1>0, CountedType DEF EmptyPage, TypedPage
  <2>2. scan' \in ScanState /\ scan'.table = scan.table /\ ~scan'.sound
        /\ scan'.pc \in {scan.pc, "detect"}
    BY <2>1, <1>0, <1>3, <1>4, ReadUnsoundPage
  <2> QED
    BY <2>1, <2>2, <1>0
<1> QED
  BY <1>1, <1>5, <1>6, <1>7, <1>8

LEMMA InitTyped == Init => Typed
<1> SUFFICES ASSUME Init PROVE Typed
  OBVIOUS
<1>1. src \in Store /\ dest \in Store
  BY DEF Init, Store
<1>2. scan \in ScanState
  BY NoScanType DEF Init
<1>3. purge \in PurgeState
  BY NoResultType DEF Init, NoPurge, PurgeState
<1>4. list \in ListState
  BY DEF Init, ListState, Shown
<1>5. panel \in PanelState
  BY NoResultType DEF Init, PanelState
<1>6. gets \subseteq Requests /\ events \in 0 .. MaxEvents
  BY EventsAssumption DEF Init
<1> QED
  BY <1>1, <1>2, <1>3, <1>4, <1>5, <1>6 DEF Typed

\* The listing.
LEMMA ListTyped == Typed /\ ListStep => Typed'
<1> SUFFICES ASSUME Typed, ListStep PROVE Typed'
  OBVIOUS
<1>0. /\ src \in Store /\ dest \in Store /\ scan \in ScanState /\ purge \in PurgeState
      /\ list \in ListState /\ gets \subseteq Requests /\ panel \in PanelState
      /\ events \in 0 .. MaxEvents
  BY DEF Typed
<1>a. list.selected \in Tables /\ list.page \in Nat /\ list.pages \in Nat
  BY <1>0 DEF ListState
<1>1. CASE FetchData
  <2>1. gets' \subseteq Requests
    BY <1>0, <1>a, <1>1 DEF FetchData, Send, Requests
  <2>2. list' = [Sent(TRUE) EXCEPT !.timer = FALSE] /\ Sent(TRUE) \in ListState
    BY <1>0, <1>1, SentType DEF FetchData
  <2>3. list' \in ListState
    BY <2>2 DEF ListState
  <2> QED
    BY <1>0, <1>1, <2>1, <2>3 DEF FetchData, stores, Typed
<1>2. ASSUME NEW g \in gets, RowsArrive(g) PROVE Typed'
  <2>1. g.table \in Tables /\ g.page \in Nat
    BY <1>0 DEF Requests
  <2>2. Listing(g.table, g.page) \in Shown
    BY <1>0, <2>1, RowsType
  <2>3. dest[g.table] \subseteq Keys
    BY <1>0, <2>1 DEF Store
  <2>4. Pages(dest[g.table], PageRows) \in Nat
    BY <2>3, PagesType, SizesAssumption
  <2>5. list' \in ListState
    BY <1>0, <1>2, <2>2, <2>4 DEF RowsArrive, Answered, ListState
  <2> QED
    BY <1>0, <1>2, <2>5 DEF RowsArrive, stores, Typed
<1>3. ASSUME NEW g \in gets, RowsFail(g) PROVE Typed'
  <2>1. list' = [list EXCEPT !.loading = FALSE, !.shown.rows = {}, !.excused = TRUE]
    BY <1>3 DEF RowsFail
  <2>2. [list.shown EXCEPT !.rows = {}] \in Shown
    BY <1>0 DEF ListState, Shown
  <2>3. list' \in ListState
    BY <1>0, <2>1, <2>2 DEF ListState
  <2>4. events' \in 0 .. MaxEvents
    BY <1>0, <1>3, HappensType DEF RowsFail
  <2> QED
    BY <1>0, <1>3, <2>3, <2>4 DEF RowsFail, stores, Typed
<1>4. ASSUME NEW t \in Tables, SelectTable(t) PROVE Typed'
  <2> DEFINE l == [list EXCEPT !.selected = t, !.page = 1]
  <2>1. l \in ListState
    BY <1>0 DEF ListState
  <2>2. list' = Turned(l)
    BY <1>4 DEF SelectTable
  <2> HIDE DEF l
  <2>3. list' \in ListState
    BY <1>0, <2>1, <2>2, TurnedType
  <2>4. panel' \in PanelState
    BY <1>0, <1>4, NoResultType DEF SelectTable, PanelState
  <2>5. events' \in 0 .. MaxEvents
    BY <1>0, <1>4, CountedType DEF SelectTable
  <2> QED
    BY <1>0, <1>4, <2>3, <2>4, <2>5 DEF SelectTable, stores, Typed
<1>5. CASE PrevPage
  <2> DEFINE l == [list EXCEPT !.page = IF @ > 1 THEN @ - 1 ELSE 1]
  <2>1. (IF list.page > 1 THEN list.page - 1 ELSE 1) \in Nat
    BY <1>a
  <2>2. l \in ListState
    BY <1>0, <2>1 DEF ListState
  <2>3. list' = Turned(l)
    BY <1>5 DEF PrevPage
  <2> HIDE DEF l
  <2>4. list' \in ListState
    BY <1>0, <2>2, <2>3, TurnedType
  <2>5. events' \in 0 .. MaxEvents
    BY <1>0, <1>5, CountedType DEF PrevPage
  <2> QED
    BY <1>0, <1>5, <2>4, <2>5 DEF PrevPage, stores, Typed
<1>6. CASE NextPage
  <2> DEFINE l == [list EXCEPT !.page = IF @ < list.pages THEN @ + 1 ELSE list.pages]
  <2>1. (IF list.page < list.pages THEN list.page + 1 ELSE list.pages) \in Nat
    BY <1>a
  <2>2. l \in ListState
    BY <1>0, <2>1 DEF ListState
  <2>3. list' = Turned(l)
    BY <1>6 DEF NextPage
  <2> HIDE DEF l
  <2>4. list' \in ListState
    BY <1>0, <2>2, <2>3, TurnedType
  <2>5. events' \in 0 .. MaxEvents
    BY <1>0, <1>6, CountedType DEF NextPage
  <2> QED
    BY <1>0, <1>6, <2>4, <2>5 DEF NextPage, stores, Typed
<1> QED
  BY <1>1, <1>2, <1>3, <1>4, <1>5, <1>6 DEF ListStep

\* The buttons of the orphan panel.
LEMMA PanelTyped == Typed /\ PanelStep => Typed'
<1> SUFFICES ASSUME Typed, PanelStep PROVE Typed'
  OBVIOUS
<1>0. /\ src \in Store /\ dest \in Store /\ scan \in ScanState /\ purge \in PurgeState
      /\ list \in ListState /\ gets \subseteq Requests /\ panel \in PanelState
      /\ events \in 0 .. MaxEvents
  BY DEF Typed
<1>1. CASE ScanOrphans
  <2>1. panel' \in PanelState
    BY <1>0, <1>1, NoResultType DEF ScanOrphans, PanelState
  <2>2. {list.selected} \in SUBSET Tables /\ Keys \ src[list.selected] \in SUBSET Keys
    BY <1>0 DEF ListState
  <2>3. scan' \in ScanState
    BY <1>1, <2>2, NoScanType DEF ScanOrphans, ScanState
  <2> QED
    BY <1>0, <1>1, <2>1, <2>3 DEF ScanOrphans, stores, Typed
<1>2. CASE ClosePanel \/ OpenConfirm \/ CloseConfirm
  <2>1. panel' \in PanelState
    BY <1>0, <1>2 DEF ClosePanel, OpenConfirm, CloseConfirm, PanelState
  <2> QED
    BY <1>0, <1>2, <2>1 DEF ClosePanel, OpenConfirm, CloseConfirm, stores, Typed
<1>3. CASE Confirm
  <2>1. panel' \in PanelState
    BY <1>0, <1>3 DEF Confirm, PanelState
  <2>2. panel.result \in Results /\ list.page \in Nat
    BY <1>0 DEF PanelState, ListState
  <2>3. purge' \in PurgeState
    BY <1>3, <2>2 DEF Confirm, PurgeState
  <2> QED
    BY <1>0, <1>3, <2>1, <2>3 DEF Confirm, stores, Typed
<1> QED
  BY <1>1, <1>2, <1>3 DEF PanelStep

LEMMA AnswerType ==
  ASSUME NEW x \in Results, Answer(x)
  PROVE  /\ scan' \in ScanState /\ scan'.pc = "answer" /\ scan'.result = x
         /\ scan'.table = {}
BY NoScanType DEF Answer, ScanState

\* What the scan found.
LEMMA DetectEffect ==
  ASSUME Typed, DetectOrphans
  PROVE  \E t \in scan.table : \E x \in Results :
           /\ Answer(x) /\ x.table = {t} /\ x.ids = dest[t] \ scan.ids
           /\ x.sound = scan.sound /\ x.gone = scan.gone
<1>0. scan \in ScanState /\ dest \in Store
  BY DEF Typed
<1>1. PICK t \in scan.table :
        Answer([table |-> {t}, ids |-> dest[t] \ scan.ids,
                sound |-> scan.sound, gone |-> scan.gone])
  BY DEF DetectOrphans
<1>2. t \in Tables /\ dest[t] \subseteq Keys /\ scan.ids \subseteq Keys
      /\ scan.sound \in BOOLEAN /\ scan.gone \in SUBSET Keys
  BY <1>0, <1>1 DEF ScanState, Store
<1> DEFINE x == [table |-> {t}, ids |-> dest[t] \ scan.ids,
                 sound |-> scan.sound, gone |-> scan.gone]
<1>3. x \in Results
  BY <1>2 DEF Results
<1>4. x.table = {t} /\ x.ids = dest[t] \ scan.ids /\ x.sound = scan.sound
      /\ x.gone = scan.gone /\ Answer(x)
  BY <1>1
<1> QED
  BY <1>1, <1>3, <1>4

\* The steps of scanOrphans and its answer.
LEMMA ScanTyped == Typed /\ ScanWorks => Typed'
<1> SUFFICES ASSUME Typed, ScanWorks PROVE Typed'
  OBVIOUS
<1>0. /\ src \in Store /\ dest \in Store /\ scan \in ScanState /\ purge \in PurgeState
      /\ list \in ListState /\ gets \subseteq Requests /\ panel \in PanelState
      /\ events \in 0 .. MaxEvents
  BY DEF Typed
<1>1. CASE NotScannable \/ ScanThrows
  <2>1. PICK t \in scan.table : Answer(ScanError(t))
    BY <1>1 DEF NotScannable, ScanThrows
  <2>2. scan' \in ScanState
    BY <2>1, <1>0, ScanErrorType, AnswerType DEF ScanState
  <2>3. events' \in 0 .. MaxEvents
    BY <1>0, <1>1, HappensType DEF NotScannable, ScanThrows
  <2> QED
    BY <1>0, <1>1, <2>2, <2>3 DEF NotScannable, ScanThrows, stores, page, Typed
<1>2. CASE FindSchema
  <2>1. scan' \in ScanState
    BY <1>0, <1>2 DEF FindSchema, ScanState
  <2> QED
    BY <1>0, <1>2, <2>1 DEF FindSchema, stores, page, Typed
<1>3. CASE FetchPage
  <2>1. scan' \in ScanState /\ events' \in 0 .. MaxEvents
    BY <1>3, FetchPageEffect
  <2> QED
    BY <1>0, <1>3, <2>1 DEF FetchPage, stores, page, Typed
<1>4. CASE DetectOrphans
  <2>1. scan' \in ScanState
    BY <1>4, DetectEffect, AnswerType
  <2> QED
    BY <1>0, <1>4, <2>1 DEF DetectOrphans, stores, page, Typed
<1>5. CASE ScanAnswered
  <2>1. scan.result \in Results
    BY <1>0 DEF ScanState
  <2>2. panel' \in PanelState /\ scan' \in ScanState
    BY <1>0, <1>5, <2>1, NoScanType DEF ScanAnswered, PanelState
  <2> QED
    BY <1>0, <1>5, <2>2 DEF ScanAnswered, stores, Typed
<1>6. CASE ScanLost
  <2>1. panel' \in PanelState /\ scan' \in ScanState
    BY <1>0, <1>6, NoScanType DEF ScanLost, PanelState
  <2>2. events' \in 0 .. MaxEvents
    BY <1>0, <1>6, HappensType DEF ScanLost
  <2> QED
    BY <1>0, <1>6, <2>1, <2>2 DEF ScanLost, stores, Typed
<1> QED
  BY <1>1, <1>2, <1>3, <1>4, <1>5, <1>6 DEF ScanWorks

LEMMA EmptiedType ==
  ASSUME NEW x \in Results PROVE [x EXCEPT !.ids = {}] \in Results /\ [x EXCEPT !.ids = {}].ids = {}
BY DEF Results

\* The steps of purgeOrphans and its answer.
LEMMA PurgeTyped == Typed /\ PurgeWorks => Typed'
<1> SUFFICES ASSUME Typed, PurgeWorks PROVE Typed'
  OBVIOUS
<1>0. /\ src \in Store /\ dest \in Store /\ scan \in ScanState /\ purge \in PurgeState
      /\ list \in ListState /\ gets \subseteq Requests /\ panel \in PanelState
      /\ events \in 0 .. MaxEvents
  BY DEF Typed
<1>1. CASE CreateLog \/ FinishLog \/ Catch
  <2>1. purge' \in PurgeState
    BY <1>0, <1>1 DEF CreateLog, FinishLog, Catch, To, PurgeState
  <2> QED
    BY <1>0, <1>1, <2>1 DEF CreateLog, FinishLog, Catch, stores, page, Typed
<1>2. CASE CreateLogFails \/ DeleteFails \/ FinishLogFails
  <2>1. purge' \in PurgeState
    BY <1>0, <1>2 DEF CreateLogFails, DeleteFails, FinishLogFails, To, PurgeState
  <2>2. events' \in 0 .. MaxEvents
    BY <1>0, <1>2, HappensType DEF CreateLogFails, DeleteFails, FinishLogFails
  <2> QED
    BY <1>0, <1>2, <2>1, <2>2 DEF CreateLogFails, DeleteFails, FinishLogFails, stores, page, Typed
<1>3. CASE DeleteRecords
  <2>1. purge' \in PurgeState
    BY <1>0, <1>3 DEF DeleteRecords, To, PurgeState
  <2>2. dest' \in Store
    BY <1>0, <1>3 DEF DeleteRecords, Store
  <2> QED
    BY <1>0, <1>3, <2>1, <2>2 DEF DeleteRecords, page, Typed
<1>4. CASE PurgeAnswered
  <2>1. purge.result \in Results /\ purge.page \in Nat
    BY <1>0 DEF PurgeState
  <2>2. panel' \in PanelState
    BY <1>0, <1>4, <2>1, EmptiedType DEF PurgeAnswered, PanelState
  <2>3. gets' \subseteq Requests
    <3>1. PICK t \in purge.result.table : Send(t, purge.page)
      BY <1>4 DEF PurgeAnswered
    <3>2. t \in Tables
      BY <2>1, <3>1 DEF Results
    <3> QED
      BY <1>0, <2>1, <3>1, <3>2 DEF Send, Requests
  <2>4. (purge.result.table = {list.selected} /\ purge.page = list.page) \in BOOLEAN
    OBVIOUS
  <2>5. list' = Sent(purge.result.table = {list.selected} /\ purge.page = list.page)
    BY <1>4 DEF PurgeAnswered
  <2>6. list' \in ListState
    BY <1>0, <2>4, <2>5, SentType
  <2>7. purge' \in PurgeState
    BY <1>4, NoResultType DEF PurgeAnswered, NoPurge, PurgeState
  <2> QED
    BY <1>0, <1>4, <2>2, <2>3, <2>6, <2>7 DEF PurgeAnswered, stores, Typed
<1>5. CASE PurgeFailed
  <2>1. panel' \in PanelState /\ list' \in ListState
    BY <1>0, <1>5 DEF PurgeFailed, PanelState, ListState
  <2>2. purge' \in PurgeState
    BY <1>5, NoResultType DEF PurgeFailed, NoPurge, PurgeState
  <2>3. events' \in 0 .. MaxEvents
    BY <1>0, <1>5, HappensType DEF PurgeFailed
  <2> QED
    BY <1>0, <1>5, <2>1, <2>2, <2>3 DEF PurgeFailed, stores, Typed
<1> QED
  BY <1>1, <1>2, <1>3, <1>4, <1>5 DEF PurgeWorks

LEMMA DisturbEffect ==
  ASSUME scan \in ScanState, NEW t \in Tables, NEW g \in SUBSET Keys, Disturb(t, g)
  PROVE  /\ scan' \in ScanState /\ scan'.pc = scan.pc /\ scan'.table = scan.table
         /\ scan'.ids = scan.ids /\ scan'.at = scan.at /\ scan'.total = scan.total
         /\ scan'.result = scan.result
         /\ t \in scan.table => /\ scan'.gone = scan.gone \cup g
                               /\ scan'.sound = (scan.sound /\ scan.pc # "fetch")
         /\ t \notin scan.table => scan' = scan
BY DEF Disturb, ScanState

\* The source and the syncs.
LEMMA WorldTyped == Typed /\ World => Typed'
<1> SUFFICES ASSUME Typed, World PROVE Typed'
  OBVIOUS
<1>0. /\ src \in Store /\ dest \in Store /\ scan \in ScanState /\ purge \in PurgeState
      /\ list \in ListState /\ gets \subseteq Requests /\ panel \in PanelState
      /\ events \in 0 .. MaxEvents
  BY DEF Typed
<1>1. ASSUME NEW t \in Tables, NEW k \in Keys, Add(t, k) PROVE Typed'
  <2>1. Disturb(t, {}) /\ events' \in 0 .. MaxEvents /\ src' \in Store
    BY <1>0, <1>1, HappensType DEF Add, Store
  <2>2. scan' \in ScanState
    BY <1>0, <2>1, DisturbEffect
  <2> QED
    BY <1>0, <1>1, <2>1, <2>2 DEF Add, page, Typed
<1>2. ASSUME NEW t \in Tables, NEW k \in Keys, Remove(t, k) PROVE Typed'
  <2>1. Disturb(t, {k}) /\ events' \in 0 .. MaxEvents /\ src' \in Store
    BY <1>0, <1>2, HappensType DEF Remove, Store
  <2>2. scan' \in ScanState
    BY <1>0, <2>1, DisturbEffect
  <2> QED
    BY <1>0, <1>2, <2>1, <2>2 DEF Remove, page, Typed
<1>3. ASSUME NEW t \in Tables, NEW k \in Keys, SyncRecord(t, k) PROVE Typed'
  <2>1. events' \in 0 .. MaxEvents /\ dest' \in Store
    BY <1>0, <1>3, HappensType DEF SyncRecord, Store
  <2>2. list' \in ListState
    BY <1>0, <1>3 DEF SyncRecord, Behind, ListState
  <2> QED
    BY <1>0, <1>3, <2>1, <2>2 DEF SyncRecord, Typed
<1>4. ASSUME NEW t \in Tables, Overwrite(t) PROVE Typed'
  <2>1. events' \in 0 .. MaxEvents /\ dest' \in Store
    BY <1>0, <1>4, HappensType DEF Overwrite, Store
  <2>2. list' \in ListState
    BY <1>0, <1>4 DEF Overwrite, Behind, ListState
  <2> QED
    BY <1>0, <1>4, <2>1, <2>2 DEF Overwrite, Typed
<1> QED
  BY <1>1, <1>2, <1>3, <1>4 DEF World

LEMMA StepTyped == Typed /\ [Next]_vars => Typed'
<1>1. Typed /\ UNCHANGED vars => Typed'
  BY DEF vars, stores, page, Typed
<1> QED
  BY <1>1, ListTyped, PanelTyped, ScanTyped, PurgeTyped, WorldTyped DEF Next

\* The type invariant, for any tables, keys, page sizes, answers and failures.
THEOREM DataManagementTypeCorrect == Spec => []TypeOK
<1>1. Spec => []Typed
  BY InitTyped, StepTyped, PTL DEF Spec
<1>2. Typed => TypeOK
  BY TypedIsTypeOK
<1> QED
  BY <1>1, <1>2, PTL
-----------------------------------------------------------------------------
(* What the administrator confirms                                         *)

\* An open panel is about the selected table: the scan in flight, its answer, and
\* the result on display.  Nothing is on display during a scan, and the dialog is
\* open over a result only.
PanelInv ==
  /\ scan.pc # "idle" => panel.scanning
  /\ panel.scanning => panel.result.ids = {}
  /\ panel.open /\ panel.scanning =>
       /\ scan.pc \in {"registry", "fetch", "detect"} => scan.table = {list.selected}
       /\ scan.pc = "answer" /\ scan.result.ids # {} =>
            scan.result.table = {list.selected}
  /\ panel.open /\ ~panel.scanning /\ panel.result.ids # {} =>
       panel.result.table = {list.selected}
  /\ panel.confirm => panel.open /\ ~panel.scanning /\ panel.result.ids # {}

LEMMA PanelStays ==
  ASSUME PanelInv, panel' = panel, list'.selected = list.selected, scan'.pc = scan.pc,
         scan'.table = scan.table, scan'.result = scan.result
  PROVE  PanelInv'
BY DEF PanelInv

LEMMA ListPanelInv == Typed /\ PanelInv /\ ListStep => PanelInv'
<1> SUFFICES ASSUME Typed, PanelInv, ListStep PROVE PanelInv'
  OBVIOUS
<1>0. list \in ListState /\ panel \in PanelState
  BY DEF Typed
<1>1. CASE FetchData
  <2>1. list' = [Sent(TRUE) EXCEPT !.timer = FALSE]
        /\ Sent(TRUE) \in ListState /\ Sent(TRUE).selected = list.selected
    BY <1>0, <1>1, SentType DEF FetchData
  <2>2. list'.selected = list.selected
    BY <2>1 DEF ListState
  <2> QED
    BY <1>1, <2>2, PanelStays DEF FetchData
<1>2. ASSUME NEW g \in gets, RowsArrive(g) \/ RowsFail(g) PROVE PanelInv'
  <2>1. list'.selected = list.selected
    BY <1>0, <1>2 DEF RowsArrive, RowsFail, Answered, ListState
  <2> QED
    BY <1>2, <2>1, PanelStays DEF RowsArrive, RowsFail
<1>3. ASSUME NEW t \in Tables, SelectTable(t) PROVE PanelInv'
  <2>1. /\ panel' \in PanelState /\ ~panel'.open /\ panel'.result.ids = {}
        /\ panel'.scanning = panel.scanning /\ panel'.confirm = panel.confirm
        /\ ~panel.confirm /\ scan' = scan
    BY <1>0, <1>3, NoResultType DEF SelectTable, Reachable, PanelState, NoResult
  <2> QED
    BY <2>1 DEF PanelInv
<1>4. CASE PrevPage
  <2> DEFINE l == [list EXCEPT !.page = IF @ > 1 THEN @ - 1 ELSE 1]
  <2>1. (IF list.page > 1 THEN list.page - 1 ELSE 1) \in Nat
    BY <1>0 DEF ListState
  <2>2. l \in ListState /\ l.selected = list.selected
    BY <1>0, <2>1 DEF ListState
  <2>3. list' = Turned(l)
    BY <1>4 DEF PrevPage
  <2> HIDE DEF l
  <2>4. list'.selected = list.selected
    BY <1>0, <2>2, <2>3, TurnedType
  <2> QED
    BY <1>4, <2>4, PanelStays DEF PrevPage
<1>5. CASE NextPage
  <2> DEFINE l == [list EXCEPT !.page = IF @ < list.pages THEN @ + 1 ELSE list.pages]
  <2>1. (IF list.page < list.pages THEN list.page + 1 ELSE list.pages) \in Nat
    BY <1>0 DEF ListState
  <2>2. l \in ListState /\ l.selected = list.selected
    BY <1>0, <2>1 DEF ListState
  <2>3. list' = Turned(l)
    BY <1>5 DEF NextPage
  <2> HIDE DEF l
  <2>4. list'.selected = list.selected
    BY <1>0, <2>2, <2>3, TurnedType
  <2> QED
    BY <1>5, <2>4, PanelStays DEF NextPage
<1> QED
  BY <1>1, <1>2, <1>3, <1>4, <1>5 DEF ListStep

LEMMA PanelPanelInv == Typed /\ PanelInv /\ PanelStep => PanelInv'
<1> SUFFICES ASSUME Typed, PanelInv, PanelStep PROVE PanelInv'
  OBVIOUS
<1>0. panel \in PanelState /\ list \in ListState
  BY DEF Typed
<1>1. CASE ScanOrphans
  <2>1. /\ panel'.open /\ panel'.scanning /\ panel'.result.ids = {} /\ ~panel'.confirm
        /\ list' = list
    BY <1>0, <1>1 DEF ScanOrphans, Reachable, PanelState, NoResult
  <2>2. scan'.pc = "registry" /\ scan'.table = {list.selected}
    BY <1>1, NoScanType DEF ScanOrphans, ScanState
  <2> QED
    BY <2>1, <2>2 DEF PanelInv
<1>2. CASE ClosePanel
  <2>1. /\ ~panel'.open /\ panel'.scanning = panel.scanning /\ panel'.result = panel.result
        /\ ~panel'.confirm /\ scan' = scan
    BY <1>0, <1>2 DEF ClosePanel, Reachable, PanelState
  <2> QED
    BY <2>1 DEF PanelInv
<1>3. CASE OpenConfirm
  <2>1. /\ panel'.open = panel.open /\ panel'.scanning = panel.scanning
        /\ panel'.result = panel.result /\ list' = list /\ scan' = scan
        /\ panel.open /\ ~panel.scanning /\ panel.result.ids # {}
    BY <1>0, <1>3 DEF OpenConfirm, Footer, PanelState
  <2> QED
    BY <2>1 DEF PanelInv
<1>4. CASE CloseConfirm
  <2>1. /\ panel'.open = panel.open /\ panel'.scanning = panel.scanning
        /\ panel'.result = panel.result /\ list' = list /\ scan' = scan /\ ~panel'.confirm
    BY <1>0, <1>4 DEF CloseConfirm, PanelState
  <2> QED
    BY <2>1 DEF PanelInv
<1>5. CASE Confirm
  <2>1. /\ panel'.open = panel.open /\ panel'.scanning = panel.scanning
        /\ panel'.result = panel.result /\ list' = list /\ scan' = scan
        /\ panel'.confirm = panel.confirm
    BY <1>0, <1>5 DEF Confirm, PanelState
  <2> QED
    BY <2>1 DEF PanelInv
<1> QED
  BY <1>1, <1>2, <1>3, <1>4, <1>5 DEF PanelStep

LEMMA ScanPanelInv == Typed /\ PanelInv /\ ScanWorks => PanelInv'
<1> SUFFICES ASSUME Typed, PanelInv, ScanWorks PROVE PanelInv'
  OBVIOUS
<1>0. panel \in PanelState /\ list \in ListState /\ scan \in ScanState
  BY DEF Typed
<1>1. CASE NotScannable \/ ScanThrows
  <2>1. PICK t \in scan.table : Answer(ScanError(t))
    BY <1>1 DEF NotScannable, ScanThrows
  <2>2. t \in Tables
    BY <1>0, <2>1 DEF ScanState
  <2>3. scan'.pc = "answer" /\ scan'.result.ids = {}
    BY <2>1, <2>2, ScanErrorType, AnswerType
  <2>4. panel' = panel /\ list' = list /\ scan.pc # "idle"
    BY <1>1 DEF NotScannable, ScanThrows, page
  <2> QED
    BY <2>3, <2>4 DEF PanelInv
<1>2. CASE FindSchema
  <2>1. scan'.pc = "fetch" /\ scan'.table = scan.table /\ panel' = panel /\ list' = list
        /\ scan.pc = "registry"
    BY <1>0, <1>2 DEF FindSchema, ScanState, page
  <2> QED
    BY <2>1 DEF PanelInv
<1>3. CASE FetchPage
  <2>1. scan'.table = scan.table /\ scan'.pc \in {"fetch", "detect"}
    BY <1>3, FetchPageEffect
  <2>2. panel' = panel /\ list' = list /\ scan.pc = "fetch"
    BY <1>3 DEF FetchPage, page
  <2> QED
    BY <2>1, <2>2 DEF PanelInv
<1>4. CASE DetectOrphans
  <2>1. PICK t \in scan.table, x \in Results : Answer(x) /\ x.table = {t}
    BY <1>4, DetectEffect
  <2>2. scan'.pc = "answer" /\ scan'.result = x
    BY <2>1, AnswerType
  <2>3. panel' = panel /\ list' = list /\ scan.pc = "detect"
    BY <1>4 DEF DetectOrphans, page
  <2>4. panel.open /\ panel.scanning => x.table = {list.selected}
    BY <2>1, <2>3 DEF PanelInv
  <2> QED
    BY <2>2, <2>3, <2>4 DEF PanelInv
<1>5. CASE ScanAnswered
  <2>1. /\ ~panel'.scanning /\ panel'.result = scan.result /\ panel'.open = panel.open
        /\ panel'.confirm = panel.confirm /\ list' = list /\ scan.pc = "answer"
    BY <1>0, <1>5 DEF ScanAnswered, PanelState
  <2>2. scan'.pc = "idle"
    BY <1>5, NoScanType DEF ScanAnswered
  <2>3. panel.scanning /\ ~panel.confirm
    BY <1>0, <2>1 DEF PanelInv
  <2> QED
    BY <2>1, <2>2, <2>3 DEF PanelInv
<1>6. CASE ScanLost
  <2>1. /\ ~panel'.scanning /\ panel'.result = panel.result /\ panel'.open = panel.open
        /\ panel'.confirm = panel.confirm /\ list' = list /\ scan.pc # "idle"
    BY <1>0, <1>6 DEF ScanLost, PanelState
  <2>2. scan'.pc = "idle"
    BY <1>6, NoScanType DEF ScanLost
  <2>3. panel.scanning /\ panel.result.ids = {} /\ ~panel.confirm
    BY <1>0, <2>1 DEF PanelInv
  <2> QED
    BY <2>1, <2>2, <2>3 DEF PanelInv
<1> QED
  BY <1>1, <1>2, <1>3, <1>4, <1>5, <1>6 DEF ScanWorks

LEMMA PurgePanelInv == Typed /\ PanelInv /\ PurgeWorks => PanelInv'
<1> SUFFICES ASSUME Typed, PanelInv, PurgeWorks PROVE PanelInv'
  OBVIOUS
<1>0. panel \in PanelState /\ list \in ListState /\ purge \in PurgeState
  BY DEF Typed
<1>1. CASE \/ CreateLog \/ CreateLogFails \/ DeleteRecords \/ DeleteFails
           \/ FinishLog \/ FinishLogFails \/ Catch
  <2>1. panel' = panel /\ list' = list /\ scan' = scan
    BY <1>1 DEF CreateLog, CreateLogFails, DeleteRecords, DeleteFails, FinishLog,
                FinishLogFails, Catch, page
  <2> QED
    BY <2>1, PanelStays
<1>2. CASE PurgeAnswered
  <2>1. purge.result \in Results
    BY <1>0 DEF PurgeState
  <2>2. /\ panel'.open = panel.open /\ panel'.scanning = panel.scanning /\ ~panel'.confirm
        /\ panel'.result = [purge.result EXCEPT !.ids = {}] /\ scan' = scan
    BY <1>0, <1>2 DEF PurgeAnswered, PanelState
  <2>3. panel'.result.ids = {}
    BY <2>1, <2>2, EmptiedType
  <2>4. list'.selected = list.selected
    <3>1. list' = Sent(purge.result.table = {list.selected} /\ purge.page = list.page)
      BY <1>2 DEF PurgeAnswered
    <3>2. (purge.result.table = {list.selected} /\ purge.page = list.page) \in BOOLEAN
      OBVIOUS
    <3> QED
      BY <1>0, <3>1, <3>2, SentType
  <2> QED
    BY <2>2, <2>3, <2>4 DEF PanelInv
<1>3. CASE PurgeFailed
  <2>1. /\ panel'.open = panel.open /\ panel'.scanning = panel.scanning
        /\ panel'.confirm = panel.confirm /\ panel'.result = panel.result
        /\ scan' = scan /\ list'.selected = list.selected
    BY <1>0, <1>3 DEF PurgeFailed, PanelState, ListState
  <2> QED
    BY <2>1 DEF PanelInv
<1> QED
  BY <1>1, <1>2, <1>3 DEF PurgeWorks

LEMMA WorldPanelInv == Typed /\ PanelInv /\ World => PanelInv'
<1> SUFFICES ASSUME Typed, PanelInv, World PROVE PanelInv'
  OBVIOUS
<1>0. list \in ListState /\ scan \in ScanState
  BY DEF Typed
<1>1. ASSUME NEW t \in Tables, NEW k \in Keys, Add(t, k) \/ Remove(t, k) PROVE PanelInv'
  <2>1. \E g \in SUBSET Keys : Disturb(t, g)
    <3>1. {} \in SUBSET Keys /\ {k} \in SUBSET Keys
      OBVIOUS
    <3> QED
      BY <1>1, <3>1 DEF Add, Remove
  <2>2. scan'.pc = scan.pc /\ scan'.table = scan.table /\ scan'.result = scan.result
    BY <1>0, <2>1, DisturbEffect
  <2> QED
    BY <1>1, <2>2, PanelStays DEF Add, Remove, page
<1>2. ASSUME NEW t \in Tables, NEW k \in Keys, SyncRecord(t, k) PROVE PanelInv'
  <2>1. list'.selected = list.selected
    BY <1>0, <1>2 DEF SyncRecord, Behind, ListState
  <2> QED
    BY <1>2, <2>1, PanelStays DEF SyncRecord
<1>3. ASSUME NEW t \in Tables, Overwrite(t) PROVE PanelInv'
  <2>1. list'.selected = list.selected
    BY <1>0, <1>3 DEF Overwrite, Behind, ListState
  <2> QED
    BY <1>3, <2>1, PanelStays DEF Overwrite
<1> QED
  BY <1>1, <1>2, <1>3 DEF World

LEMMA InitPanelInv == Init => PanelInv
BY NoScanType DEF Init, PanelInv, NoResult

LEMMA StepPanelInv == Typed /\ PanelInv /\ [Next]_vars => PanelInv'
<1>1. PanelInv /\ UNCHANGED vars => PanelInv'
  BY DEF vars, page, PanelInv
<1> QED
  BY <1>1, ListPanelInv, PanelPanelInv, ScanPanelInv, PurgePanelInv, WorldPanelInv DEF Next

\* What the administrator is asked to confirm is on display, and belongs to the
\* selected table, for any tables and keys and however answers are delayed.
THEOREM ConfirmedIsOnDisplay == Spec => []ConfirmedIsListed
<1>1. Spec => [](Typed /\ PanelInv)
  BY InitTyped, StepTyped, InitPanelInv, StepPanelInv, PTL DEF Spec
<1>2. Typed /\ PanelInv => ConfirmedIsListed
  BY DEF PanelInv, ConfirmedIsListed
<1> QED
  BY <1>1, <1>2, PTL
-----------------------------------------------------------------------------
(* What a purge can delete                                                 *)

SoundResult(x) == x.sound => x.ids \subseteq x.gone

\* What the source has had all through the scan is in the source while the scan
\* reads it.
KeptInv ==
  scan.pc \in {"registry", "fetch"} =>
    \A t \in scan.table : Keys \ scan.gone \subseteq src[t]

\* A sound scan has read the pages before the current one, of a source with as
\* many pages as it was told.
ReadInv ==
  scan.pc = "fetch" /\ scan.sound =>
    \A t \in scan.table :
      /\ scan.at # 1 => scan.total = SourcePages(t)
      /\ \A k \in src[t] : Rank(k, src[t]) <= (scan.at - 1) * BatchLimit => k \in scan.ids

\* Behind the loop it has read whatever the source has had all along.
DetectInv == scan.pc = "detect" /\ scan.sound => Keys \ scan.gone \subseteq scan.ids

GoneInv ==
  /\ scan.pc = "registry" => scan.at = 1
  /\ scan.pc \in {"registry", "fetch"} => scan.at >= 1
  /\ scan.pc \in {"registry", "fetch", "detect"} => \E t \in Tables : scan.table = {t}
  /\ KeptInv /\ ReadInv /\ DetectInv
  /\ scan.pc = "answer" => SoundResult(scan.result)
  /\ SoundResult(panel.result) /\ SoundResult(purge.result)

LEMMA GoneStays ==
  ASSUME GoneInv, scan' = scan, src' = src, panel'.result = panel.result,
         purge'.result = purge.result
  PROVE  GoneInv'
BY DEF GoneInv, KeptInv, ReadInv, DetectInv, SoundResult, SourcePages, Pages, Rank

\* A key of the table is on a page.
LEMMA RankPositive ==
  ASSUME NEW S, S \subseteq Keys, NEW k \in S PROVE Rank(k, S) \in Nat /\ Rank(k, S) >= 1
<1> DEFINE B == {j \in S : j <= k}
<1>1. IsFiniteSet(S)
  BY KeysAreFinite
<1>2. IsFiniteSet(B) /\ Cardinality(B) \in Nat
  BY <1>1, FS_Subset, FS_CardinalityType
<1>3. k \in B
  BY KeysAssumption
<1>4. Cardinality(B) # 0
  BY <1>2, <1>3, FS_EmptySet
<1> QED
  BY <1>2, <1>4 DEF Rank

\* A good page extends what has been read by the page, and the last one completes it.
LEMMA GoodPageGone ==
  ASSUME Typed, GoneInv, scan.pc = "fetch", NEW t \in scan.table, scan.table = {t},
         GoodPage(t), src' = src
  PROVE  KeptInv' /\ ReadInv' /\ DetectInv' /\ scan'.at >= 1
         /\ scan'.pc \in {"fetch", "detect"}
<1>0. scan \in ScanState /\ src \in Store /\ src' = src
  BY DEF Typed
<1>1. t \in Tables /\ src[t] \subseteq Keys /\ scan.at \in Nat /\ scan.total \in Nat
  BY <1>0 DEF ScanState, Store
<1>2. SourcePages(t) \in Nat
  BY <1>1, SourcePagesType
<1> DEFINE X == OnPage(src[t], scan.at, BatchLimit)
<1>3. X \in SUBSET Keys
  BY <1>1, OnPageType
<1>4. scan' = Turn([WithTotal(scan, SourcePages(t)) EXCEPT !.ids = @ \cup X])
  BY DEF GoodPage
<1>x. \A k : k \in X <=> k \in src[t] /\ (scan.at - 1) * BatchLimit < Rank(k, src[t])
                        /\ Rank(k, src[t]) <= scan.at * BatchLimit
  BY DEF OnPage
<1> HIDE DEF X
<1>5. /\ scan' \in ScanState /\ scan'.table = scan.table
      /\ scan'.ids = scan.ids \cup X /\ scan'.sound = scan.sound /\ scan'.gone = scan.gone
      /\ scan'.total = IF scan.at = 1 THEN SourcePages(t) ELSE scan.total
      /\ scan'.pc = IF scan.at < scan'.total THEN scan.pc ELSE "detect"
      /\ scan'.at = IF scan.at < scan'.total THEN scan.at + 1 ELSE scan.at
  <2>1. PageRead(scan', SourcePages(t), X)
    BY <1>0, <1>2, <1>3, <1>4, ReadPage
  <2> QED
    BY <2>1 DEF PageRead
<1>6. scan.at >= 1 /\ Keys \ scan.gone \subseteq src[t]
  BY DEF GoneInv, KeptInv
<1>7. scan'.at >= 1 /\ scan'.pc \in {"fetch", "detect"}
  <2>1. CASE scan.at < scan'.total
    BY <2>1, <1>1, <1>5, <1>6
  <2>2. CASE ~(scan.at < scan'.total)
    BY <2>2, <1>1, <1>5, <1>6
  <2> QED
    BY <2>1, <2>2
<1>8. KeptInv'
  BY <1>0, <1>5, <1>6 DEF KeptInv
<1>9. ASSUME scan.sound
      PROVE  /\ scan'.total = SourcePages(t)
             /\ \A k \in src[t] : Rank(k, src[t]) <= scan.at * BatchLimit => k \in scan'.ids
  <2>1. /\ scan.at # 1 => scan.total = SourcePages(t)
        /\ \A k \in src[t] :
             Rank(k, src[t]) <= (scan.at - 1) * BatchLimit => k \in scan.ids
    BY <1>9 DEF GoneInv, ReadInv
  <2>2. scan'.total = SourcePages(t)
    BY <2>1, <1>5
  <2>3. ASSUME NEW k \in src[t], Rank(k, src[t]) <= scan.at * BatchLimit
        PROVE  k \in scan'.ids
    <3>1. Rank(k, src[t]) \in Nat
      BY <1>1, RankPositive
    <3>2. CASE Rank(k, src[t]) <= (scan.at - 1) * BatchLimit
      BY <3>2, <2>1, <1>5
    <3>3. CASE ~(Rank(k, src[t]) <= (scan.at - 1) * BatchLimit)
      <4>1. (scan.at - 1) * BatchLimit \in Int
        BY <1>1, SizesAssumption
      <4>2. (scan.at - 1) * BatchLimit < Rank(k, src[t])
        BY <3>1, <3>3, <4>1
      <4>3. k \in X
        BY <4>2, <2>3, <1>x
      <4> QED
        BY <4>3, <1>5
    <3> QED
      BY <3>2, <3>3
  <2> QED
    BY <2>2, <2>3
<1>10. ReadInv'
  <2> SUFFICES ASSUME scan'.pc = "fetch", scan'.sound PROVE ReadInv'
    BY DEF ReadInv
  <2>1. scan.sound
    BY <1>5
  <2>2. scan.at < scan'.total
    BY <1>5
  <2>3. scan'.at - 1 = scan.at
    BY <2>2, <1>1, <1>5
  <2>4. SourcePages(t)' = SourcePages(t)
    BY <1>0 DEF SourcePages
  <2>5. \A k \in src[t] : Rank(k, src[t]) <= (scan'.at - 1) * BatchLimit => k \in scan'.ids
    BY <2>1, <2>3, <1>9
  <2> QED
    BY <2>1, <2>4, <2>5, <1>0, <1>5, <1>9 DEF ReadInv
<1>11. DetectInv'
  <2> SUFFICES ASSUME scan'.pc = "detect", scan'.sound
               PROVE  Keys \ scan'.gone \subseteq scan'.ids
    BY DEF DetectInv
  <2>1. scan.sound /\ scan'.total = SourcePages(t)
    BY <1>5, <1>9
  <2>2. SourcePages(t) <= scan.at
    BY <2>1, <1>1, <1>2, <1>5
  <2>3. ASSUME NEW k \in src[t] PROVE k \in scan'.ids
    <3>1. Pages(src[t], BatchLimit) <= scan.at
      BY <2>2, <2>3 DEF SourcePages
    <3>2. Cardinality(src[t]) <= scan.at * BatchLimit
      BY <3>1, <1>1, PagesHoldAll, SizesAssumption
    <3>3. Rank(k, src[t]) \in Nat /\ Rank(k, src[t]) <= Cardinality(src[t])
      BY <1>1, RankType
    <3>4. Cardinality(src[t]) \in Nat /\ scan.at * BatchLimit \in Nat
      BY <1>1, KeysAreFinite, SizesAssumption
    <3>5. Rank(k, src[t]) <= scan.at * BatchLimit
      BY <3>2, <3>3, <3>4
    <3> QED
      BY <3>5, <2>1, <1>9
  <2> QED
    BY <2>3, <1>5, <1>6
<1> QED
  BY <1>7, <1>8, <1>10, <1>11

\* A page that makes the scan unsound changes nothing else that matters here.
LEMMA UnsoundPageGone ==
  ASSUME Typed, GoneInv, FetchPage, NEW t \in Tables, scan.table = {t}, ~GoodPage(t)
  PROVE  scan'.gone = scan.gone /\ (scan'.pc = "fetch" => scan'.at >= 1)
<1>0. scan \in ScanState /\ src \in Store /\ scan.pc = "fetch"
  BY DEF Typed, FetchPage
<1>1. BadPage \/ CachedPage(t) \/ EmptyPage(t) \/ TypedPage(t)
  BY DEF FetchPage
<1>2. src[t] \subseteq Keys /\ scan.at >= 1
  BY <1>0 DEF Store, GoneInv
<1>3. SourcePages(t) \in Nat
  BY <1>2, SourcePagesType
<1> DEFINE Y == OnPage(src[t], 1, BatchLimit)
<1>4. Y \in SUBSET Keys
  BY <1>2, OnPageType
<1> HIDE DEF Y
<1>5. CASE BadPage
  BY <1>5, <1>0 DEF BadPage, ScanState
<1>6. CASE CachedPage(t)
  <2>1. scan' = Turn([WithTotal(scan, SourcePages(t)) EXCEPT !.ids = @ \cup Y, !.sound = FALSE])
    BY <1>6 DEF CachedPage, Y
  <2> QED
    BY <2>1, <1>0, <1>2, <1>3, <1>4, ReadUnsoundPage
<1>7. CASE EmptyPage(t) \/ TypedPage(t)
  <2>1. scan' = Turn([WithTotal(scan, SourcePages(t)) EXCEPT !.sound = FALSE])
    BY <1>7 DEF EmptyPage, TypedPage
  <2> QED
    BY <2>1, <1>0, <1>2, <1>3, <1>4, ReadUnsoundPage
<1> QED
  BY <1>1, <1>5, <1>6, <1>7

LEMMA ListGoneInv == Typed /\ GoneInv /\ ListStep => GoneInv'
<1> SUFFICES ASSUME Typed, GoneInv, ListStep PROVE GoneInv'
  OBVIOUS
<1>1. CASE ListStep /\ panel' = panel
  BY <1>1, GoneStays DEF ListStep, FetchData, RowsArrive, RowsFail, SelectTable, PrevPage,
                         NextPage, stores
<1>2. ASSUME NEW t \in Tables, SelectTable(t) PROVE GoneInv'
  <2>1. scan' = scan /\ src' = src /\ purge' = purge /\ panel'.result = NoResult
    BY <1>2 DEF SelectTable, stores, Typed, PanelState
  <2>2. SoundResult(NoResult)
    BY DEF SoundResult, NoResult
  <2> QED
    BY <2>1, <2>2 DEF GoneInv, KeptInv, ReadInv, DetectInv, SoundResult, SourcePages, Pages, Rank
<1> QED
  BY <1>1, <1>2 DEF ListStep, FetchData, RowsArrive, RowsFail, PrevPage, NextPage

LEMMA PanelGoneInv == Typed /\ GoneInv /\ PanelStep => GoneInv'
<1> SUFFICES ASSUME Typed, GoneInv, PanelStep PROVE GoneInv'
  OBVIOUS
<1>0. panel \in PanelState /\ list \in ListState
  BY DEF Typed
<1>1. CASE ScanOrphans
  <2> DEFINE t == list.selected
  <2>1. t \in Tables
    BY <1>0 DEF ListState
  <2>2. scan' = [NoScan EXCEPT !.pc = "registry", !.table = {t}, !.gone = Keys \ src[t]]
    BY <1>1 DEF ScanOrphans
  <2> HIDE DEF t
  <2>3. scan'.pc = "registry" /\ scan'.at = 1 /\ scan'.table = {t} /\ scan'.gone = Keys \ src[t]
    BY <2>2, NoScanType DEF ScanState
  <2>4. panel'.result = NoResult /\ purge' = purge /\ src' = src
    BY <1>0, <1>1 DEF ScanOrphans, PanelState, stores
  <2>5. SoundResult(NoResult)
    BY DEF SoundResult, NoResult
  <2> QED
    BY <2>1, <2>3, <2>4, <2>5 DEF GoneInv, KeptInv, ReadInv, DetectInv, SoundResult
<1>2. CASE ClosePanel \/ OpenConfirm \/ CloseConfirm
  <2>1. panel'.result = panel.result
    BY <1>0, <1>2 DEF ClosePanel, OpenConfirm, CloseConfirm, PanelState
  <2> QED
    BY <1>2, <2>1, GoneStays DEF ClosePanel, OpenConfirm, CloseConfirm, stores
<1>3. CASE Confirm
  <2>1. panel'.result = panel.result /\ purge'.result = panel.result /\ scan' = scan
        /\ src' = src
    BY <1>0, <1>3 DEF Confirm, PanelState, stores
  <2> QED
    BY <2>1 DEF GoneInv, KeptInv, ReadInv, DetectInv, SoundResult, SourcePages, Pages, Rank
<1> QED
  BY <1>1, <1>2, <1>3 DEF PanelStep

\* An answer whose result is sound in the sense above.
LEMMA AnswerGone ==
  ASSUME GoneInv, NEW x \in Results, SoundResult(x), Answer(x), panel' = panel, purge' = purge
  PROVE  GoneInv'
<1>1. scan'.pc = "answer" /\ scan'.result = x
  BY AnswerType
<1> QED
  BY <1>1 DEF GoneInv, KeptInv, ReadInv, DetectInv, SoundResult

LEMMA ScanGoneInv == Typed /\ GoneInv /\ ScanWorks => GoneInv'
<1> SUFFICES ASSUME Typed, GoneInv, ScanWorks PROVE GoneInv'
  OBVIOUS
<1>0. /\ panel \in PanelState /\ list \in ListState /\ scan \in ScanState
      /\ src \in Store /\ dest \in Store
  BY DEF Typed
<1>1. CASE NotScannable \/ ScanThrows
  <2>1. PICK t \in scan.table : Answer(ScanError(t))
    BY <1>1 DEF NotScannable, ScanThrows
  <2>2. t \in Tables
    BY <1>0, <2>1 DEF ScanState
  <2>3. ScanError(t) \in Results /\ SoundResult(ScanError(t))
    BY <2>2, ScanErrorType DEF SoundResult
  <2>4. panel' = panel /\ purge' = purge
    BY <1>1 DEF NotScannable, ScanThrows, page
  <2> QED
    BY <2>1, <2>3, <2>4, AnswerGone
<1>2. CASE FindSchema
  <2>1. /\ scan'.pc = "fetch" /\ scan'.table = scan.table /\ scan'.at = scan.at
        /\ scan'.gone = scan.gone /\ scan.pc = "registry" /\ src' = src /\ panel' = panel
        /\ purge' = purge
    BY <1>0, <1>2 DEF FindSchema, ScanState, page, stores
  <2>2. scan.at = 1 /\ KeptInv /\ \E t \in Tables : scan.table = {t}
    BY <2>1 DEF GoneInv
  <2>3. KeptInv'
    BY <2>1, <2>2 DEF KeptInv
  <2>4. ReadInv'
    <3> SUFFICES ASSUME NEW t \in scan.table, NEW k \in src[t],
                        Rank(k, src[t]) <= (scan'.at - 1) * BatchLimit
                 PROVE  FALSE
      BY <2>1, <2>2 DEF ReadInv
    <3>1. t \in Tables /\ src[t] \subseteq Keys
      BY <1>0 DEF ScanState, Store
    <3>2. Rank(k, src[t]) \in Nat /\ Rank(k, src[t]) >= 1
      BY <3>1, RankPositive
    <3>3. (scan'.at - 1) * BatchLimit = 0
      BY <2>1, <2>2, SizesAssumption
    <3> QED
      BY <3>2, <3>3
  <2> QED
    BY <2>1, <2>2, <2>3, <2>4 DEF GoneInv, DetectInv, SoundResult
<1>3. CASE FetchPage
  <2>0. src' = src /\ panel' = panel /\ purge' = purge /\ scan.pc = "fetch"
    BY <1>3 DEF FetchPage, stores, page
  <2>1. /\ scan' \in ScanState /\ scan'.table = scan.table /\ scan'.pc \in {"fetch", "detect"}
        /\ \/ ~scan'.sound
           \/ \E t \in scan.table : GoodPage(t)
    BY <1>3, FetchPageEffect
  <2>2. PICK t \in Tables : scan.table = {t}
    BY <2>0 DEF GoneInv
  <2>3. KeptInv' /\ ReadInv' /\ DetectInv' /\ (scan'.pc = "fetch" => scan'.at >= 1)
    <3>1. CASE GoodPage(t)
      BY <3>1, <2>0, <2>2, GoodPageGone
    <3>2. CASE ~GoodPage(t)
      <4>1. ~scan'.sound
        BY <3>2, <2>1, <2>2
      <4>2. ReadInv' /\ DetectInv'
        BY <4>1 DEF ReadInv, DetectInv
      <4>3. scan'.gone = scan.gone /\ (scan'.pc = "fetch" => scan'.at >= 1)
        BY <1>3, <3>2, <2>2, UnsoundPageGone
      <4>4. KeptInv'
        BY <4>3, <2>0, <2>1 DEF GoneInv, KeptInv
      <4> QED
        BY <4>2, <4>3, <4>4
    <3> QED
      BY <3>1, <3>2
  <2> QED
    BY <2>0, <2>1, <2>2, <2>3 DEF GoneInv, SoundResult
<1>4. CASE DetectOrphans
  <2>1. PICK t \in scan.table, x \in Results :
          /\ Answer(x) /\ x.ids = dest[t] \ scan.ids
          /\ x.sound = scan.sound /\ x.gone = scan.gone
    BY <1>4, DetectEffect
  <2>2. t \in Tables /\ dest[t] \subseteq Keys /\ scan.pc = "detect"
    BY <1>0, <1>4, <2>1 DEF ScanState, Store, DetectOrphans
  <2>3. SoundResult(x)
    BY <2>1, <2>2 DEF SoundResult, GoneInv, DetectInv
  <2>4. panel' = panel /\ purge' = purge
    BY <1>4 DEF DetectOrphans, page
  <2> QED
    BY <2>1, <2>3, <2>4, AnswerGone
<1>5. CASE ScanAnswered
  <2>1. panel'.result = scan.result /\ purge' = purge /\ scan' = NoScan /\ scan.pc = "answer"
    BY <1>0, <1>5 DEF ScanAnswered, PanelState
  <2> QED
    BY <2>1, NoScanType DEF GoneInv, KeptInv, ReadInv, DetectInv, SoundResult
<1>6. CASE ScanLost
  <2>1. panel'.result = panel.result /\ purge' = purge /\ scan' = NoScan
    BY <1>0, <1>6 DEF ScanLost, PanelState
  <2> QED
    BY <2>1, NoScanType DEF GoneInv, KeptInv, ReadInv, DetectInv, SoundResult
<1> QED
  BY <1>1, <1>2, <1>3, <1>4, <1>5, <1>6 DEF ScanWorks

LEMMA PurgeGoneInv == Typed /\ GoneInv /\ PurgeWorks => GoneInv'
<1> SUFFICES ASSUME Typed, GoneInv, PurgeWorks PROVE GoneInv'
  OBVIOUS
<1>0. panel \in PanelState /\ purge \in PurgeState
  BY DEF Typed
<1>1. CASE \/ CreateLog \/ CreateLogFails \/ DeleteRecords \/ DeleteFails
           \/ FinishLog \/ FinishLogFails \/ Catch
  <2>1. purge'.result = purge.result
    BY <1>0, <1>1 DEF CreateLog, CreateLogFails, DeleteRecords, DeleteFails, FinishLog,
                      FinishLogFails, Catch, To, PurgeState
  <2>2. scan' = scan /\ src' = src /\ panel' = panel
    BY <1>1 DEF CreateLog, CreateLogFails, DeleteRecords, DeleteFails, FinishLog,
                FinishLogFails, Catch, page, stores
  <2> QED
    BY <2>1, <2>2, GoneStays
<1>2. CASE PurgeAnswered
  <2>1. purge.result \in Results
    BY <1>0 DEF PurgeState
  <2>2. /\ panel'.result = [purge.result EXCEPT !.ids = {}] /\ purge' = NoPurge
        /\ scan' = scan /\ src' = src
    BY <1>0, <1>2 DEF PurgeAnswered, PanelState, stores
  <2>3. panel'.result.ids = {}
    BY <2>1, <2>2, EmptiedType
  <2>4. purge'.result = NoResult /\ SoundResult(NoResult)
    BY <2>2 DEF NoPurge, NoResult, SoundResult
  <2>5. SoundResult(panel'.result) /\ SoundResult(purge'.result)
    BY <2>3, <2>4 DEF SoundResult
  <2> QED
    BY <2>2, <2>5 DEF GoneInv, KeptInv, ReadInv, DetectInv, SoundResult, SourcePages, Pages, Rank
<1>3. CASE PurgeFailed
  <2>1. panel'.result = panel.result /\ purge' = NoPurge /\ scan' = scan /\ src' = src
    BY <1>0, <1>3 DEF PurgeFailed, PanelState, stores
  <2>2. purge'.result = NoResult /\ SoundResult(NoResult)
    BY <2>1 DEF NoPurge, NoResult, SoundResult
  <2> QED
    BY <2>1, <2>2 DEF GoneInv, KeptInv, ReadInv, DetectInv, SoundResult, SourcePages, Pages, Rank
<1> QED
  BY <1>1, <1>2, <1>3 DEF PurgeWorks

LEMMA DisturbGone ==
  ASSUME Typed, GoneInv, NEW t \in Tables, NEW g \in SUBSET Keys, Disturb(t, g),
         panel' = panel, purge' = purge, src[t] \ g \subseteq src'[t],
         \A u \in Tables \ {t} : src'[u] = src[u]
  PROVE  GoneInv'
<1>0. scan \in ScanState
  BY DEF Typed
<1>1. /\ scan'.pc = scan.pc /\ scan'.table = scan.table
      /\ scan'.ids = scan.ids /\ scan'.at = scan.at /\ scan'.total = scan.total
      /\ scan'.result = scan.result
      /\ t \in scan.table => /\ scan'.gone = scan.gone \cup g
                            /\ scan'.sound = (scan.sound /\ scan.pc # "fetch")
      /\ t \notin scan.table => scan' = scan
  BY <1>0, DisturbEffect
<1>2. scan.table \subseteq Tables
  BY <1>0 DEF ScanState
<1>3. CASE t \notin scan.table
  <2>1. scan' = scan /\ \A u \in scan.table : src'[u] = src[u]
    BY <1>1, <1>2, <1>3
  <2> QED
    BY <2>1 DEF GoneInv, KeptInv, ReadInv, DetectInv, SoundResult, SourcePages, Pages, Rank
<1>4. CASE t \in scan.table
  <2>1. KeptInv'
    <3> SUFFICES ASSUME scan.pc \in {"registry", "fetch"}, NEW u \in scan.table
                 PROVE  Keys \ scan'.gone \subseteq src'[u]
      BY <1>1 DEF KeptInv
    <3>1. Keys \ scan.gone \subseteq src[u]
      BY DEF GoneInv, KeptInv
    <3>2. CASE u = t
      BY <3>1, <3>2, <1>1, <1>4
    <3>3. CASE u # t
      BY <3>1, <3>3, <1>1, <1>2, <1>4
    <3> QED
      BY <3>2, <3>3
  <2>2. ReadInv'
    BY <1>1, <1>4 DEF ReadInv
  <2>3. DetectInv'
    BY <1>1, <1>4 DEF GoneInv, DetectInv
  <2> QED
    BY <2>1, <2>2, <2>3, <1>1 DEF GoneInv, SoundResult
<1> QED
  BY <1>3, <1>4

LEMMA WorldGoneInv == Typed /\ GoneInv /\ World => GoneInv'
<1> SUFFICES ASSUME Typed, GoneInv, World PROVE GoneInv'
  OBVIOUS
<1>0. src \in Store
  BY DEF Typed
<1>1. ASSUME NEW t \in Tables, NEW k \in Keys, Add(t, k) PROVE GoneInv'
  <2>1. Disturb(t, {}) /\ panel' = panel /\ purge' = purge
        /\ src[t] \ {} \subseteq src'[t] /\ \A u \in Tables \ {t} : src'[u] = src[u]
    BY <1>0, <1>1 DEF Add, page, Store
  <2> QED
    BY <2>1, DisturbGone
<1>2. ASSUME NEW t \in Tables, NEW k \in Keys, Remove(t, k) PROVE GoneInv'
  <2>1. Disturb(t, {k}) /\ panel' = panel /\ purge' = purge
        /\ src[t] \ {k} \subseteq src'[t] /\ \A u \in Tables \ {t} : src'[u] = src[u]
    BY <1>0, <1>2 DEF Remove, page, Store
  <2> QED
    BY <2>1, DisturbGone
<1>3. ASSUME NEW t \in Tables, NEW k \in Keys, SyncRecord(t, k) PROVE GoneInv'
  BY <1>3, GoneStays DEF SyncRecord
<1>4. ASSUME NEW t \in Tables, Overwrite(t) PROVE GoneInv'
  BY <1>4, GoneStays DEF Overwrite
<1> QED
  BY <1>1, <1>2, <1>3, <1>4 DEF World

LEMMA InitGoneInv == Init => GoneInv
BY NoScanType DEF Init, GoneInv, KeptInv, ReadInv, DetectInv, SoundResult, NoPurge, NoResult

LEMMA StepGoneInv == Typed /\ GoneInv /\ [Next]_vars => GoneInv'
<1>1. GoneInv /\ UNCHANGED vars => GoneInv'
  BY GoneStays DEF vars, stores, page
<1> QED
  BY <1>1, ListGoneInv, PanelGoneInv, ScanGoneInv, PurgeGoneInv, WorldGoneInv DEF Next

\* Only the deletion changes the table in a step of the purge.
LEMMA PurgeDeletes ==
  ASSUME Typed, GoneInv, [Next]_vars, purge' # purge, purge.pc = "delete",
         purge.result.sound, NEW t \in Tables
  PROVE  dest[t] \ dest'[t] \subseteq
           IF t \in purge.result.table THEN purge.result.gone ELSE {}
<1>1. CASE DeleteRecords
  <2>1. purge.result.ids \subseteq purge.result.gone
    BY DEF GoneInv, SoundResult
  <2>2. dest'[t] = IF t \in purge.result.table THEN dest[t] \ purge.result.ids ELSE dest[t]
    BY <1>1 DEF DeleteRecords
  <2> QED
    BY <2>1, <2>2
<1>2. CASE PurgeWorks /\ ~DeleteRecords
  <2>1. dest' = dest
    BY <1>2 DEF PurgeWorks, CreateLog, CreateLogFails, DeleteFails, FinishLog, FinishLogFails,
                Catch, PurgeAnswered, PurgeFailed, stores
  <2> QED
    BY <2>1
<1>3. CASE Confirm
  BY <1>3 DEF Confirm, stores
<1>4. CASE PanelStep /\ ~Confirm
  BY <1>4 DEF PanelStep, ScanOrphans, ClosePanel, OpenConfirm, CloseConfirm
<1>5. CASE ListStep
  BY <1>5 DEF ListStep, FetchData, RowsArrive, RowsFail, SelectTable, PrevPage, NextPage
<1>6. CASE ScanWorks
  BY <1>6 DEF ScanWorks, NotScannable, FindSchema, ScanThrows, FetchPage, DetectOrphans,
              ScanAnswered, ScanLost
<1>7. CASE World
  BY <1>7 DEF World, Add, Remove, SyncRecord, Overwrite
<1>8. CASE UNCHANGED vars
  BY <1>8 DEF vars
<1> QED
  BY <1>1, <1>2, <1>3, <1>4, <1>5, <1>6, <1>7, <1>8 DEF Next

\* A purge that rests on a sound scan deletes no row whose record the source had
\* all through the scan, for any page size and whatever happens before and after.
THEOREM PurgeIsSound == Spec => OnlyGoneRowsArePurged
<1>1. Spec => [](Typed /\ GoneInv)
  BY InitTyped, StepTyped, InitGoneInv, StepGoneInv, PTL DEF Spec
<1>2. Typed /\ GoneInv /\ [Next]_vars =>
        [purge.pc = "delete" /\ purge.result.sound =>
           \A t \in Tables : dest[t] \ dest'[t] \subseteq
             IF t \in purge.result.table THEN purge.result.gone ELSE {}]_purge
  BY PurgeDeletes
<1> QED
  BY <1>1, <1>2, PTL DEF Spec, OnlyGoneRowsArePurged
-----------------------------------------------------------------------------
(* The listing                                                             *)

\* The request for what is selected.
Current == [table |-> list.selected, page |-> list.page]

\* While the list is not excused and no timer is running, the only request in
\* flight is for the selected table and page, and without one the page shows
\* that, from the answer until a purge has deleted rows.
ListInv ==
  ~list.excused /\ ~list.timer =>
    /\ \A g \in gets : g = Current
    /\ gets = {} /\ purge.pc \in {"idle", "log", "delete"}
         => list.shown = Listing(list.selected, list.page)

\* The page knows of the purge in flight.
PurgingInv == purge.pc # "idle" => panel.purging

LEMMA StepPurging == Typed /\ PurgingInv /\ [Next]_vars => PurgingInv'
<1> SUFFICES ASSUME Typed, PurgingInv, [Next]_vars PROVE PurgingInv'
  OBVIOUS
<1>0. panel \in PanelState /\ purge \in PurgeState
  BY DEF Typed
<1>1. ASSUME purge' = purge \/ purge.pc # "idle", panel'.purging = panel.purging
      PROVE  PurgingInv'
  BY <1>1 DEF PurgingInv
<1>2. ASSUME panel'.purging PROVE PurgingInv'
  BY <1>2 DEF PurgingInv
<1>3. ASSUME purge' = NoPurge PROVE PurgingInv'
  BY <1>3 DEF PurgingInv, NoPurge
<1>4. CASE ListStep
  BY <1>0, <1>1, <1>4 DEF ListStep, FetchData, RowsArrive, RowsFail, SelectTable, PrevPage,
                          NextPage, PanelState
<1>5. CASE PanelStep
  BY <1>0, <1>1, <1>2, <1>5 DEF PanelStep, ScanOrphans, ClosePanel, OpenConfirm, CloseConfirm,
                                Confirm, PanelState
<1>6. CASE ScanWorks
  BY <1>0, <1>1, <1>6 DEF ScanWorks, NotScannable, FindSchema, ScanThrows, FetchPage,
                          DetectOrphans, ScanAnswered, ScanLost, PanelState, page
<1>7. CASE PurgeAnswered \/ PurgeFailed
  BY <1>3, <1>7 DEF PurgeAnswered, PurgeFailed
<1>8. CASE PurgeWorks /\ ~PurgeAnswered /\ ~PurgeFailed
  BY <1>1, <1>8 DEF PurgeWorks, CreateLog, CreateLogFails, DeleteRecords, DeleteFails, FinishLog,
                    FinishLogFails, Catch, page
<1>9. CASE World
  BY <1>1, <1>9 DEF World, Add, Remove, SyncRecord, Overwrite, page
<1>10. CASE UNCHANGED vars
  BY <1>1, <1>10 DEF vars, page
<1> QED
  BY <1>4, <1>5, <1>6, <1>7, <1>8, <1>9, <1>10 DEF Next

\* A listing depends on its table alone.
LEMMA SameListing ==
  ASSUME NEW t, NEW p, dest'[t] = dest[t] PROVE Listing(t, p)' = Listing(t, p)
BY DEF Listing, Rows

LEMMA ListInvStays ==
  ASSUME ListInv, UNCHANGED <<list, gets>>, dest'[list.selected] = dest[list.selected],
         purge'.pc \in {"idle", "log", "delete"} => purge.pc \in {"idle", "log", "delete"}
  PROVE  ListInv'
<1>1. Listing(list.selected, list.page)' = Listing(list.selected, list.page)
  BY SameListing DEF Listing, Rows
<1> QED
  BY <1>1 DEF ListInv, Current

\* A request that is sent while none is in flight is the only one.
LEMMA SendInv ==
  ASSUME Typed, NEW t, NEW p, Send(t, p),
         list'.excused = (gets # {} \/ ~(t = list.selected /\ p = list.page)),
         list'.selected = list.selected, list'.page = list.page
  PROVE  ListInv'
BY DEF Send, ListInv, Current

\* Another table or page restarts the timer, and the same ones change nothing.
LEMMA TurnedInv ==
  ASSUME Typed, ListInv, NEW l \in ListState, list' = Turned(l),
         l.timer = list.timer, l.excused = list.excused, l.shown = list.shown,
         UNCHANGED <<dest, gets, purge>>
  PROVE  ListInv'
<1>1. /\ list'.timer = (list.timer \/ l.page # list.page \/ l.selected # list.selected)
      /\ list'.selected = l.selected /\ list'.page = l.page
      /\ list'.excused = list.excused /\ list'.shown = list.shown
  BY DEF Turned, ListState
<1>2. CASE list'.timer
  BY <1>2 DEF ListInv
<1>3. CASE ~list'.timer
  BY <1>1, <1>3 DEF ListInv, Current, Listing, Rows
<1> QED
  BY <1>2, <1>3

LEMMA ListListInv == Typed /\ ListInv /\ ListStep => ListInv'
<1> SUFFICES ASSUME Typed, ListInv, ListStep PROVE ListInv'
  OBVIOUS
<1>0. list \in ListState
  BY DEF Typed
<1>1. CASE FetchData
  <2>1. /\ list'.excused = (gets # {}) /\ list'.selected = list.selected
        /\ list'.page = list.page
    BY <1>0, <1>1 DEF FetchData, Sent, ListState
  <2>2. list'.excused =
          (gets # {} \/ ~(list.selected = list.selected /\ list.page = list.page))
    BY <2>1
  <2>3. Send(list.selected, list.page)
    BY <1>1 DEF FetchData
  <2> QED
    BY <2>1, <2>2, <2>3, SendInv
<1>2. ASSUME NEW g \in gets, RowsArrive(g) PROVE ListInv'
  <2>1. /\ list'.shown = Listing(g.table, g.page) /\ list'.timer = list.timer
        /\ list'.selected = list.selected /\ list'.page = list.page
        /\ list'.excused = list.excused
    BY <1>0, <1>2 DEF RowsArrive, Answered, ListState
  <2>2. gets' = gets \ {g} /\ dest' = dest
    BY <1>2 DEF RowsArrive, stores
  <2>3. ASSUME ~list'.excused, ~list'.timer
        PROVE  /\ \A h \in gets' : h = Current'
               /\ list'.shown = Listing(list.selected, list.page)'
    <3>1. g = Current /\ (\A h \in gets : h = Current)
      BY <2>1, <2>3 DEF ListInv
    <3>2. g.table = list.selected /\ g.page = list.page
      BY <3>1 DEF Current
    <3>3. Current' = Current
      BY <2>1 DEF Current
    <3> QED
      BY <2>1, <2>2, <3>1, <3>2, <3>3 DEF Listing, Rows
  <2> QED
    BY <2>1, <2>3 DEF ListInv
<1>3. ASSUME NEW g \in gets, RowsFail(g) PROVE ListInv'
  <2>1. list'.excused
    BY <1>0, <1>3 DEF RowsFail, ListState
  <2> QED
    BY <2>1 DEF ListInv
<1>4. ASSUME NEW t \in Tables, SelectTable(t) PROVE ListInv'
  <2> DEFINE l == [list EXCEPT !.selected = t, !.page = 1]
  <2>1. l \in ListState /\ l.timer = list.timer /\ l.excused = list.excused
        /\ l.shown = list.shown
    BY <1>0 DEF ListState
  <2>2. list' = Turned(l) /\ UNCHANGED <<dest, gets, purge>>
    BY <1>4 DEF SelectTable, stores
  <2> HIDE DEF l
  <2> QED
    BY <2>1, <2>2, TurnedInv
<1>5. CASE PrevPage
  <2> DEFINE p == IF list.page > 1 THEN list.page - 1 ELSE 1
             l == [list EXCEPT !.page = p]
  <2>1. p \in Nat
    BY <1>0 DEF ListState
  <2>2. list' = Turned(l) /\ UNCHANGED <<dest, gets, purge>>
    BY <1>5 DEF PrevPage, stores
  <2> HIDE DEF p
  <2>3. l \in ListState /\ l.timer = list.timer /\ l.excused = list.excused
        /\ l.shown = list.shown
    BY <1>0, <2>1 DEF ListState
  <2> HIDE DEF l
  <2> QED
    BY <2>2, <2>3, TurnedInv
<1>6. CASE NextPage
  <2> DEFINE p == IF list.page < list.pages THEN list.page + 1 ELSE list.pages
             l == [list EXCEPT !.page = p]
  <2>1. p \in Nat
    BY <1>0 DEF ListState
  <2>2. list' = Turned(l) /\ UNCHANGED <<dest, gets, purge>>
    BY <1>6 DEF NextPage, stores
  <2> HIDE DEF p
  <2>3. l \in ListState /\ l.timer = list.timer /\ l.excused = list.excused
        /\ l.shown = list.shown
    BY <1>0, <2>1 DEF ListState
  <2> HIDE DEF l
  <2> QED
    BY <2>2, <2>3, TurnedInv
<1> QED
  BY <1>1, <1>2, <1>3, <1>4, <1>5, <1>6 DEF ListStep

LEMMA PanelListInv == Typed /\ PurgingInv /\ ListInv /\ PanelStep => ListInv'
<1> SUFFICES ASSUME Typed, PurgingInv, ListInv, PanelStep PROVE ListInv'
  OBVIOUS
<1>1. CASE Confirm
  <2>1. UNCHANGED <<list, gets, dest>> /\ purge'.pc = "log"
    BY <1>1 DEF Confirm, stores
  <2>2. purge.pc = "idle"
    BY <1>1 DEF Confirm, PurgingInv
  <2> QED
    BY <2>1, <2>2, ListInvStays
<1>2. CASE PanelStep /\ ~Confirm
  BY <1>2, ListInvStays DEF PanelStep, ScanOrphans, ClosePanel, OpenConfirm, CloseConfirm, stores
<1> QED
  BY <1>1, <1>2

LEMMA ScanListInv == Typed /\ ListInv /\ ScanWorks => ListInv'
BY ListInvStays
   DEF ScanWorks, NotScannable, FindSchema, ScanThrows, FetchPage, DetectOrphans,
       ScanAnswered, ScanLost, stores, page

LEMMA PurgeListInv == Typed /\ ListInv /\ PurgeWorks => ListInv'
<1> SUFFICES ASSUME Typed, ListInv, PurgeWorks PROVE ListInv'
  OBVIOUS
<1>0. list \in ListState /\ purge \in PurgeState
  BY DEF Typed
<1>1. ASSUME NEW pc, To(pc), purge.pc # "idle", UNCHANGED <<list, gets, dest>>,
             pc \in {"idle", "log", "delete"} => purge.pc \in {"idle", "log", "delete"}
      PROVE  ListInv'
  <2>1. purge'.pc = pc
    BY <1>0, <1>1 DEF To, PurgeState
  <2> QED
    BY <1>1, <2>1, ListInvStays
<1>2. CASE DeleteRecords
  <2>1. UNCHANGED <<list, gets>> /\ purge'.pc = "finish"
    BY <1>0, <1>2 DEF DeleteRecords, To, PurgeState, page
  <2> QED
    BY <2>1 DEF ListInv, Current
<1>3. CASE PurgeAnswered
  <2>1. PICK t \in purge.result.table : Send(t, purge.page)
    BY <1>3 DEF PurgeAnswered
  <2> DEFINE fits == purge.result.table = {list.selected} /\ purge.page = list.page
  <2>2. /\ list'.excused = (gets # {} \/ ~fits) /\ list'.selected = list.selected
        /\ list'.page = list.page
    BY <1>0, <1>3 DEF PurgeAnswered, Sent, ListState
  <2>3. ASSUME ~list'.excused PROVE \A g \in gets' : g = Current'
    BY <2>1, <2>2, <2>3 DEF Send, Current
  <2>4. gets' # {}
    BY <2>1 DEF Send
  <2> QED
    BY <2>3, <2>4 DEF ListInv
<1>4. CASE PurgeFailed
  <2>1. list'.excused
    BY <1>0, <1>4 DEF PurgeFailed, ListState
  <2> QED
    BY <2>1 DEF ListInv
<1>5. CASE CreateLog \/ CreateLogFails \/ DeleteFails \/ FinishLog \/ FinishLogFails \/ Catch
  BY <1>1, <1>5 DEF CreateLog, CreateLogFails, DeleteFails, FinishLog, FinishLogFails, Catch,
                    stores, page
<1> QED
  BY <1>2, <1>3, <1>4, <1>5 DEF PurgeWorks

LEMMA WorldListInv == Typed /\ ListInv /\ World => ListInv'
<1> SUFFICES ASSUME Typed, ListInv, World PROVE ListInv'
  OBVIOUS
<1>0. list \in ListState /\ dest \in Store
  BY DEF Typed
<1>1. ASSUME NEW t \in Tables, NEW k \in Keys, Add(t, k) \/ Remove(t, k) PROVE ListInv'
  BY <1>1, ListInvStays DEF Add, Remove, page
<1>2. ASSUME NEW t \in Tables, NEW S, dest' = [dest EXCEPT ![t] = S], Behind(t),
             UNCHANGED <<gets, purge>>
      PROVE  ListInv'
  <2>1. /\ list'.excused = (list.excused \/ t = list.selected)
        /\ list'.selected = list.selected /\ list'.page = list.page
        /\ list'.timer = list.timer /\ list'.shown = list.shown
    BY <1>0, <1>2 DEF Behind, ListState
  <2>2. CASE list'.excused
    BY <2>2 DEF ListInv
  <2>3. CASE ~list'.excused
    <3>1. dest'[list.selected] = dest[list.selected]
      BY <1>0, <1>2, <2>1, <2>3 DEF ListState, Store
    <3>2. list'.shown = list.shown /\ Current' = Current
      BY <2>1 DEF Current
    <3> QED
      BY <1>2, <2>1, <2>3, <3>1, <3>2 DEF ListInv, Listing, Rows
  <2> QED
    BY <2>2, <2>3
<1>3. ASSUME NEW t \in Tables, NEW k \in Keys, SyncRecord(t, k) PROVE ListInv'
  BY <1>2, <1>3 DEF SyncRecord
<1>4. ASSUME NEW t \in Tables, Overwrite(t) PROVE ListInv'
  BY <1>2, <1>4 DEF Overwrite
<1> QED
  BY <1>1, <1>3, <1>4 DEF World

LEMMA InitListInv == Init => ListInv
BY DEF Init, ListInv

LEMMA StepListInv == Typed /\ PurgingInv /\ ListInv /\ [Next]_vars => ListInv'
<1>1. ListInv /\ UNCHANGED vars => ListInv'
  BY ListInvStays DEF vars, stores, page
<1> QED
  BY <1>1, ListListInv, PanelListInv, ScanListInv, PurgeListInv, WorldListInv DEF Next

\* The page at rest shows the rows of the selected table and page, for any number
\* of requests in flight and any size of pages, unless answers may have overtaken
\* each other or the table has changed behind the page.
THEOREM ListIsOfTheSelection == Spec => []ListFits
<1>1. Spec => [](Typed /\ PurgingInv /\ ListInv)
  <2>1. Init => PurgingInv
    BY DEF Init, PurgingInv, NoPurge
  <2> QED
    BY <2>1, InitTyped, StepTyped, StepPurging, InitListInv, StepListInv, PTL DEF Spec
<1>2. ListInv => ListFits
  BY DEF ListInv, ListFits
<1> QED
  BY <1>1, <1>2, PTL
=============================================================================
