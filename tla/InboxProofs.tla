---------------------------- MODULE InboxProofs ----------------------------
(***************************************************************************)
(* What holds of the cached inbox for any threads, page and batch sizes,   *)
(* proved from the inductive invariant IInv of Inbox; and of the loop that *)
(* fetches it, that it keeps its time for any targets, intervals, floor    *)
(* and back-off.  The two share no state: Inbox is what a fetch does, Poll *)
(* is when there is one.                                                   *)
(***************************************************************************)
EXTENDS Inbox, Poll, TLAPS

LEMMA FirstPageIsPage ==
    ASSUME server \in Page
    PROVE  /\ FirstPage \in Page
           /\ \A i \in Ids : FirstPage[i] = server[i] \/ FirstPage[i] = NoThread
BY DEF FirstPage, Page, Thread, NoThread

LEMMA RowsOfIsRows ==
    ASSUME rows \in [Ids -> Row], NEW page \in Page
    PROVE  RowsOf(page) \in [Ids -> Row]
BY DEF RowsOf, Page, Thread, Row

LEMMA EnrichedIsRow ==
    ASSUME TypeOK, NEW lost, NEW i \in Ids
    PROVE  Enriched(i, lost) \in Row
<1>1. enrich.copy[i] \in Row /\ server[i].ver \in Nat
  BY DEF TypeOK, EnrichJob, Page, Thread
<1> QED
  BY <1>1 DEF Enriched, Row

LEMMA IdleJobs ==
    IdleList \in ListJob /\ IdleEnrich \in EnrichJob /\ IdleMark \in MarkJob
BY DEF IdleList, IdleEnrich, IdleMark, ListJob, EnrichJob, MarkJob, Etag, NoRow,
       Row

LEMMA InitTypeOK == Init => TypeOK
<1> SUFFICES ASSUME Init PROVE TypeOK
  OBVIOUS
<1>1. server \in Page /\ rows \in [Ids -> Row]
  BY DEF Init, Page, Thread, NoThread, Row, NoRow
<1> QED
  BY <1>1, IdleJobs, SizeAssumption DEF Init, TypeOK, Etag

\* The landing of an answer, in time or late.
LEMMA LandTypeOK ==
    ASSUME TypeOK, NEW answer, answer.sent \in Etag, answer.page \in Etag,
           answer.more \in BOOLEAN, Land(answer)
    PROVE  /\ rows' \in [Ids -> Row]
           /\ meta' \in [etag : Etag, complete : BOOLEAN]
<1>1. CASE answer.page = None
  <2>1. rows' = rows /\ meta' = [etag |-> answer.sent, complete |-> TRUE]
    BY <1>1, Zenon DEF Land
  <2> QED
    BY <2>1 DEF TypeOK
<1>2. CASE answer.page # None
  <2>1. answer.page \in Page /\ rows' = RowsOf(answer.page)
    BY <1>2 DEF Etag, Land
  <2>2. meta' = [etag |-> answer.page, complete |-> ~ answer.more]
    BY <1>2 DEF Land
  <2>3. (~ answer.more) \in BOOLEAN
    OBVIOUS
  <2> QED
    BY <2>1, <2>2, <2>3, RowsOfIsRows DEF TypeOK
<1> QED
  BY <1>1, <1>2

LEMMA NextTypeOK == TypeOK /\ [Next]_vars => TypeOK'
<1> SUFFICES ASSUME TypeOK, [Next]_vars PROVE TypeOK'
  OBVIOUS
<1> USE SizeAssumption
<1>1. ASSUME NEW i \in Ids, Activity(i) PROVE TypeOK'
  BY <1>1 DEF Activity, TypeOK, Page, Thread
<1>2. ASSUME NEW i \in Ids, ReadElsewhere(i) PROVE TypeOK'
  BY <1>2 DEF ReadElsewhere, TypeOK, Page, Thread
<1>3. CASE AskList
  <2>1. list' \in ListJob
    BY <1>3, IdleJobs DEF AskList, TypeOK, ListJob
  <2> QED
    BY <1>3, <2>1 DEF AskList, TypeOK
<1>4. CASE AnswerList
  <2>1. list' \in ListJob
    BY <1>4, FirstPageIsPage DEF AnswerList, TypeOK, ListJob, Etag
  <2> QED
    BY <1>4, <2>1 DEF AnswerList, TypeOK
<1>5. CASE FailList
  BY <1>5, IdleJobs DEF FailList, TypeOK
<1>6. CASE LandList
  <2>1. list' \in ListJob
    BY <1>6, IdleJobs DEF LandList, ListJob
  <2>2. list.sent \in Etag /\ list.page \in Etag /\ list.more \in BOOLEAN
    BY DEF TypeOK, ListJob
  <2> QED
    BY <1>6, <2>1, <2>2, LandTypeOK DEF LandList, TypeOK
<1>7. CASE Chain
  <2>1. enrich' \in EnrichJob
    <3>1. Newest(Absent, rows, Batch) \in SUBSET Ids
      BY DEF Newest, Absent, Cached
    <3>2. CASE UNCHANGED enrich
      BY <3>2 DEF TypeOK
    <3>3. CASE enrich' = [IdleEnrich EXCEPT !.phase = "selected",
                                            !.wanted = Newest(Absent, rows, Batch)]
      BY <3>1, <3>3, IdleJobs DEF EnrichJob
    <3> QED
      BY <1>7, <3>2, <3>3 DEF Chain
  <2> QED
    BY <1>7, <2>1, IdleJobs DEF Chain, TypeOK
<1>8. CASE CancelList
  <2>1. late' \in LateAnswer \cup {None}
    BY <1>8 DEF CancelList, TypeOK, ListJob, LateAnswer
  <2> QED
    BY <1>8, <2>1, IdleJobs DEF CancelList, TypeOK
<1>9. CASE LandLate
  <2>1. late.sent \in Etag /\ late.page \in Etag /\ late.more \in BOOLEAN
    BY <1>9 DEF LandLate, TypeOK, LateAnswer
  <2> QED
    BY <1>9, <2>1, LandTypeOK DEF LandLate, TypeOK
<1>10. CASE ReadRows
  <2>1. enrich' \in EnrichJob
    BY <1>10 DEF ReadRows, TypeOK, EnrichJob, NoRow, Row
  <2> QED
    BY <1>10, <2>1 DEF ReadRows, TypeOK
<1>11. CASE AnswerEnrich
  <2>1. PICK lost \in SUBSET Addressable :
          enrich' = [enrich EXCEPT !.phase = "answered",
                                   !.copy = [i \in Ids |-> Enriched(i, lost)]]
    BY <1>11 DEF AnswerEnrich
  <2>2. [i \in Ids |-> Enriched(i, lost)] \in [Ids -> Row]
    BY EnrichedIsRow
  <2>3. enrich' \in EnrichJob
    BY <2>1, <2>2 DEF TypeOK, EnrichJob
  <2> QED
    BY <1>11, <2>3 DEF AnswerEnrich, TypeOK
<1>12. CASE FailEnrich
  BY <1>12, IdleJobs DEF FailEnrich, TypeOK
<1>13. CASE WriteEnriched
  <2>1. rows' \in [Ids -> Row]
    BY <1>13 DEF WriteEnriched, TypeOK, EnrichJob
  <2> QED
    BY <1>13, <2>1, IdleJobs DEF WriteEnriched, TypeOK
<1>14. ASSUME NEW ids \in SUBSET Cached, MarkRead(ids) PROVE TypeOK'
  <2>1. mark' \in MarkJob
    BY <1>14 DEF MarkRead, TypeOK, MarkJob, Cached, Row
  <2>2. rows' \in [Ids -> Row]
    BY <1>14 DEF MarkRead, TypeOK, Row
  <2> QED
    BY <1>14, <2>1, <2>2 DEF MarkRead, TypeOK
<1>15. ASSUME NEW ids \in SUBSET Cached, MarkUnread(ids) PROVE TypeOK'
  <2>1. rows' \in [Ids -> Row]
    BY <1>15 DEF MarkUnread, TypeOK, Row
  <2> QED
    BY <1>15, <2>1 DEF MarkUnread, TypeOK
<1>16. ASSUME NEW i \in Ids, Patch(i) PROVE TypeOK'
  <2>1. mark' \in MarkJob
    BY <1>16, IdleJobs DEF Patch, TypeOK, MarkJob
  <2>2. server' \in Page
    BY <1>16 DEF Patch, TypeOK, Page, Thread
  <2> QED
    BY <1>16, <2>1, <2>2 DEF Patch, TypeOK
<1>17. CASE Rollback
  <2>1. rows' \in [Ids -> Row]
    BY <1>17 DEF Rollback, TypeOK, MarkJob, Row
  <2> QED
    BY <1>17, <2>1, IdleJobs DEF Rollback, TypeOK
<1>18. CASE Crash
  BY <1>18, IdleJobs DEF Crash, Forgotten, TypeOK
<1>19. CASE CrashLanding
  <2>1. list.page \in Page
    BY <1>19 DEF CrashLanding, TypeOK, ListJob, Etag
  <2> QED
    BY <1>19, <2>1, IdleJobs, RowsOfIsRows DEF CrashLanding, Forgotten, TypeOK
<1>20. CASE UNCHANGED vars
  BY <1>20 DEF vars, TypeOK
<1> QED
  BY <1>1, <1>2, <1>3, <1>4, <1>5, <1>6, <1>7, <1>8, <1>9, <1>10, <1>11,
     <1>12, <1>13, <1>14, <1>15, <1>16, <1>17, <1>18, <1>19, <1>20 DEF Next

-----------------------------------------------------------------------------
(* The inductive invariant.                                                 *)

LEMMA InitIInv == Init => IInv
<1> SUFFICES ASSUME Init PROVE IInv
  OBVIOUS
<1>1. TypeOK
  BY InitTypeOK
<1>2. PagesAreKnown
  BY DEF Init, IdleList, PagesAreKnown, KnownPage, CoveredPage
<1>3. RowsAreGood
  BY DEF Init, IdleEnrich, NoRow, NoThread, RowsAreGood, GoodRow
<1>4. WantedIsCached
  BY DEF Init, IdleEnrich, WantedIsCached
<1> QED
  BY <1>1, <1>2, <1>3, <1>4 DEF IInv

\* What TypeOK says of the versions the invariant compares.
LEMMA VersionsAreNumbers ==
    ASSUME TypeOK
    PROVE  /\ clock \in Nat
           /\ \A i \in Ids : /\ server[i] \in Thread
                              /\ rows[i] \in Row
                              /\ enrich.copy[i] \in Row
           /\ \A page \in Etag : page # None =>
                                 \A i \in Ids : page[i] \in Thread
           /\ list.page \in Etag /\ list.sent \in Etag /\ meta.etag \in Etag
           /\ late # None => late.page \in Etag /\ late.sent \in Etag
BY SizeAssumption DEF TypeOK, Page, EnrichJob, ListJob, LateAnswer, Etag

\* An answer lands: its rows are the server's, and they cover its validator.
LEMMA LandKeepsIInv ==
    ASSUME TypeOK, RowsAreGood, WantedIsCached, UNCHANGED <<clock, server, enrich>>,
           NEW answer, answer.page \in Etag, answer.sent \in Etag,
           KnownPage(answer.page), CoveredPage(answer.sent), Land(answer)
    PROVE  /\ RowsAreGood' /\ WantedIsCached'
           /\ CoveredPage(meta.etag)'
           /\ \A i \in Ids : rows[i].ver > 0 => rows'[i].ver > 0
<1> USE VersionsAreNumbers
<1>1. CASE answer.page = None
  <2>1. rows' = rows /\ meta' = [etag |-> answer.sent, complete |-> TRUE]
    BY <1>1, Zenon DEF Land
  <2>2. meta'.etag = answer.sent
    BY <2>1
  <2> QED
    BY <2>1, <2>2 DEF RowsAreGood, GoodRow, WantedIsCached, CoveredPage
<1>2. CASE answer.page # None
  <2>1. rows' = RowsOf(answer.page) /\ meta'.etag = answer.page
    BY <1>2 DEF Land
  <2>2. \A i \in Ids :
          \/ answer.page[i].ver = 0 /\ rows'[i] = rows[i]
          \/ /\ answer.page[i].ver > 0
             /\ rows'[i].ver = answer.page[i].ver
             /\ rows'[i].detail = "absent"
    BY <1>2, <2>1 DEF RowsOf, Thread
  <2>3. \A i \in Ids : answer.page[i].ver <= server[i].ver
    BY <1>2 DEF KnownPage
  <2>4. RowsAreGood'
    BY <2>2, <2>3 DEF RowsAreGood, GoodRow
  <2>5. \A i \in Ids : rows[i].ver > 0 => rows'[i].ver > 0
    BY <2>2
  <2>6. WantedIsCached'
    BY <2>5 DEF WantedIsCached, TypeOK, EnrichJob
  <2>7. CoveredPage(meta.etag)'
    BY <2>1, <2>2 DEF CoveredPage
  <2> QED
    BY <2>4, <2>5, <2>6, <2>7
<1> QED
  BY <1>1, <1>2

\* A change of the unread flags disturbs nothing the invariant is about.
LEMMA FlagsKeepIInv ==
    ASSUME PagesAreKnown, RowsAreGood, WantedIsCached, TypeOK,
           \A i \in Ids : /\ rows'[i].ver = rows[i].ver
                          /\ rows'[i].detail = rows[i].detail
                          /\ rows'[i].of = rows[i].of,
           UNCHANGED <<clock, server, meta, list, late, enrich>>
    PROVE  PagesAreKnown' /\ RowsAreGood' /\ WantedIsCached'
BY DEF PagesAreKnown, KnownPage, CoveredPage, RowsAreGood, GoodRow, WantedIsCached,
       TypeOK, EnrichJob

LEMMA NextIInv == IInv /\ [Next]_vars => IInv'
<1> SUFFICES ASSUME IInv, [Next]_vars PROVE IInv'
  OBVIOUS
<1>0. TypeOK /\ PagesAreKnown /\ RowsAreGood /\ WantedIsCached
  BY DEF IInv
<1>00. TypeOK'
  BY <1>0, NextTypeOK
<1> SUFFICES PagesAreKnown' /\ RowsAreGood' /\ WantedIsCached'
  BY <1>00 DEF IInv
<1> USE <1>0, VersionsAreNumbers
<1> DEFINE Kept == PagesAreKnown' /\ RowsAreGood' /\ WantedIsCached'
<1>1. ASSUME NEW i \in Ids, Activity(i) PROVE Kept
  <2>1. /\ \A k \in Ids : server[k].ver <= server'[k].ver
        /\ \A k \in Ids : server'[k].ver <= clock'
        /\ \A k \in Ids : server'[k].ver \in Nat
    BY <1>1 DEF Activity, TypeOK, Page, Thread, RowsAreGood
  <2>2. UNCHANGED <<rows, meta, list, late, enrich>>
    BY <1>1 DEF Activity
  <2>3. PagesAreKnown'
    BY <2>1, <2>2 DEF PagesAreKnown, KnownPage, CoveredPage, Thread
  <2>4. RowsAreGood'
    BY <2>1, <2>2 DEF RowsAreGood, GoodRow, Row, Thread
  <2>5. WantedIsCached'
    BY <2>2 DEF WantedIsCached
  <2> QED
    BY <2>3, <2>4, <2>5
<1>2. ASSUME NEW i \in Ids, ReadElsewhere(i) PROVE Kept
  <2>1. \A k \in Ids : server'[k].ver = server[k].ver
    BY <1>2 DEF ReadElsewhere, TypeOK, Page, Thread
  <2>2. UNCHANGED <<clock, rows, meta, list, late, enrich>>
    BY <1>2 DEF ReadElsewhere
  <2> QED
    BY <2>1, <2>2 DEF PagesAreKnown, KnownPage, CoveredPage, RowsAreGood, GoodRow,
                      WantedIsCached
<1>3. CASE AskList
  BY <1>3 DEF AskList, IdleList, PagesAreKnown, KnownPage, CoveredPage,
              RowsAreGood, GoodRow, WantedIsCached
<1>4. CASE AnswerList
  <2>1. KnownPage(list.page)'
    <3>1. list'.page \in {None, FirstPage}
      BY <1>4 DEF AnswerList, TypeOK, ListJob
    <3>2. \A i \in Ids : FirstPage[i].ver <= server[i].ver
      BY FirstPageIsPage DEF NoThread, TypeOK, Thread
    <3> QED
      BY <1>4, <3>1, <3>2 DEF AnswerList, KnownPage
  <2>2. list'.sent = list.sent
    BY <1>4 DEF AnswerList, TypeOK, ListJob
  <2>3. PagesAreKnown'
    BY <1>4, <2>1, <2>2 DEF AnswerList, PagesAreKnown, KnownPage, CoveredPage
  <2> QED
    BY <1>4, <2>3 DEF AnswerList, RowsAreGood, GoodRow, WantedIsCached
<1>5. CASE FailList
  BY <1>5 DEF FailList, IdleList, PagesAreKnown, KnownPage, CoveredPage,
              RowsAreGood, GoodRow, WantedIsCached
<1>6. CASE LandList
  <2>1. Land(list) /\ UNCHANGED <<clock, server, late, enrich>>
    BY <1>6 DEF LandList
  <2>2. list'.page = None /\ list'.sent = None
    BY <1>6 DEF LandList, IdleList
  <2>3. /\ RowsAreGood' /\ WantedIsCached' /\ CoveredPage(meta.etag)'
        /\ \A i \in Ids : rows[i].ver > 0 => rows'[i].ver > 0
    BY <2>1, LandKeepsIInv DEF PagesAreKnown
  <2> QED
    BY <2>1, <2>2, <2>3 DEF PagesAreKnown, KnownPage, CoveredPage
<1>7. CASE Chain
  <2>1. list'.page = None /\ list'.sent = None
        /\ UNCHANGED <<clock, server, rows, meta, late>>
    BY <1>7 DEF Chain, IdleList
  <2>2. PagesAreKnown'
    BY <2>1 DEF PagesAreKnown, KnownPage, CoveredPage
  <2>3. CASE UNCHANGED enrich
    BY <2>1, <2>2, <2>3 DEF RowsAreGood, GoodRow, WantedIsCached
  <2>4. CASE enrich' = [IdleEnrich EXCEPT !.phase = "selected",
                                          !.wanted = Newest(Absent, rows, Batch)]
    <3>1. /\ enrich'.phase = "selected"
          /\ enrich'.wanted = Newest(Absent, rows, Batch)
          /\ \A i \in Ids : enrich'.copy[i] = NoRow
      BY <2>4 DEF IdleEnrich
    <3>2. \A i \in enrich'.wanted : rows[i].ver > 0
      BY <3>1 DEF Newest, Absent, Cached
    <3>3. RowsAreGood'
      BY <2>1, <3>1 DEF RowsAreGood, GoodRow, NoRow, Thread
    <3>4. WantedIsCached'
      BY <2>1, <3>1, <3>2 DEF WantedIsCached
    <3> QED
      BY <2>2, <3>3, <3>4
  <2> QED
    BY <1>7, <2>3, <2>4 DEF Chain
<1>8. CASE CancelList
  <2>1. /\ list'.page = None /\ list'.sent = None
        /\ UNCHANGED <<clock, server, rows, meta, enrich>>
        /\ \/ UNCHANGED late
           \/ late'.page = list.page /\ late'.sent = list.sent
    BY <1>8 DEF CancelList, IdleList
  <2> QED
    BY <2>1 DEF PagesAreKnown, KnownPage, CoveredPage, RowsAreGood, GoodRow,
                WantedIsCached
<1>9. CASE LandLate
  <2>1. /\ late # None /\ Land(late) /\ late' = None
        /\ UNCHANGED <<clock, server, list, enrich>>
    BY <1>9 DEF LandLate
  <2>2. /\ RowsAreGood' /\ WantedIsCached' /\ CoveredPage(meta.etag)'
        /\ \A i \in Ids : rows[i].ver > 0 => rows'[i].ver > 0
    BY <2>1, LandKeepsIInv DEF PagesAreKnown
  <2> QED
    BY <2>1, <2>2 DEF PagesAreKnown, KnownPage, CoveredPage
<1>10. CASE ReadRows
  <2>1. /\ enrich'.phase = "asked" /\ enrich'.wanted = enrich.wanted
        /\ \A i \in Ids : enrich'.copy[i] = IF i \in enrich.wanted THEN rows[i]
                                             ELSE NoRow
        /\ UNCHANGED <<clock, server, rows, meta, list, late>>
    BY <1>10 DEF ReadRows, TypeOK, EnrichJob
  <2>2. PagesAreKnown'
    BY <2>1 DEF PagesAreKnown, KnownPage, CoveredPage
  <2>3. RowsAreGood'
    BY <2>1 DEF RowsAreGood, GoodRow, NoRow, Thread
  <2>4. WantedIsCached'
    BY <2>1 DEF WantedIsCached, TypeOK, EnrichJob
  <2> QED
    BY <2>2, <2>3, <2>4
<1>11. CASE AnswerEnrich
  <2>1. PICK lost \in SUBSET Addressable :
          enrich' = [enrich EXCEPT !.phase = "answered",
                                   !.copy = [i \in Ids |-> Enriched(i, lost)]]
    BY <1>11 DEF AnswerEnrich
  <2>2. /\ enrich.phase = "asked" /\ enrich'.phase = "answered"
        /\ enrich'.wanted = enrich.wanted
        /\ \A i \in Ids : enrich'.copy[i] = Enriched(i, lost)
        /\ UNCHANGED <<clock, server, rows, meta, list, late>>
    BY <1>11, <2>1 DEF AnswerEnrich, TypeOK, EnrichJob
  <2>3. PagesAreKnown'
    BY <2>2 DEF PagesAreKnown, KnownPage, CoveredPage
  <2>4. ASSUME NEW i \in Ids
        PROVE  /\ GoodRow(i, Enriched(i, lost))
               /\ Enriched(i, lost).ver = enrich.copy[i].ver
    BY DEF Enriched, RowsAreGood, GoodRow, Row, Thread
  <2>5. RowsAreGood'
    BY <2>2, <2>4 DEF RowsAreGood, GoodRow
  <2>6. WantedIsCached'
    BY <2>2, <2>4 DEF WantedIsCached, TypeOK, EnrichJob
  <2> QED
    BY <2>3, <2>5, <2>6
<1>12. CASE FailEnrich
  <2>1. /\ enrich'.wanted = {} /\ \A i \in Ids : enrich'.copy[i] = NoRow
        /\ UNCHANGED <<clock, server, rows, meta, list, late>>
    BY <1>12 DEF FailEnrich, IdleEnrich
  <2> QED
    BY <2>1 DEF PagesAreKnown, KnownPage, CoveredPage, RowsAreGood, GoodRow, NoRow,
                WantedIsCached, Thread
<1>13. CASE WriteEnriched
  <2>1. /\ enrich.phase = "answered"
        /\ enrich'.wanted = {} /\ \A i \in Ids : enrich'.copy[i] = NoRow
        /\ \A i \in Ids : rows'[i] = IF i \in enrich.wanted THEN enrich.copy[i]
                                      ELSE rows[i]
        /\ UNCHANGED <<clock, server, meta, list, late>>
    BY <1>13 DEF WriteEnriched, IdleEnrich
  <2>2. \A i \in Ids : rows[i].ver > 0 => rows'[i].ver > 0
    BY <2>1 DEF WantedIsCached
  <2>3. PagesAreKnown'
    BY <2>1, <2>2 DEF PagesAreKnown, KnownPage, CoveredPage
  <2>4. RowsAreGood'
    BY <2>1 DEF RowsAreGood, GoodRow, NoRow, Thread
  <2> QED
    BY <2>1, <2>3, <2>4 DEF WantedIsCached
<1>14. ASSUME NEW ids \in SUBSET Cached, MarkRead(ids) PROVE Kept
  <2>1. /\ \A i \in Ids : /\ rows'[i].ver = rows[i].ver
                           /\ rows'[i].detail = rows[i].detail
                           /\ rows'[i].of = rows[i].of
        /\ UNCHANGED <<clock, server, meta, list, late, enrich>>
    BY <1>14 DEF MarkRead, Row
  <2> QED
    BY <2>1, FlagsKeepIInv
<1>15. ASSUME NEW ids \in SUBSET Cached, MarkUnread(ids) PROVE Kept
  <2>1. /\ \A i \in Ids : /\ rows'[i].ver = rows[i].ver
                           /\ rows'[i].detail = rows[i].detail
                           /\ rows'[i].of = rows[i].of
        /\ UNCHANGED <<clock, server, meta, list, late, enrich>>
    BY <1>15 DEF MarkUnread, Row
  <2> QED
    BY <2>1, FlagsKeepIInv
<1>16. ASSUME NEW i \in Ids, Patch(i) PROVE Kept
  <2>1. \A k \in Ids : server'[k].ver = server[k].ver
    BY <1>16 DEF Patch, TypeOK, Page, Thread
  <2>2. UNCHANGED <<clock, rows, meta, list, late, enrich>>
    BY <1>16 DEF Patch
  <2> QED
    BY <2>1, <2>2 DEF PagesAreKnown, KnownPage, CoveredPage, RowsAreGood, GoodRow,
                      WantedIsCached
<1>17. CASE Rollback
  <2>1. /\ \A i \in Ids : /\ rows'[i].ver = rows[i].ver
                           /\ rows'[i].detail = rows[i].detail
                           /\ rows'[i].of = rows[i].of
        /\ UNCHANGED <<clock, server, meta, list, late, enrich>>
    BY <1>17 DEF Rollback, Row
  <2> QED
    BY <2>1, FlagsKeepIInv
<1>18. CASE Crash
  <2>1. /\ list'.page = None /\ list'.sent = None /\ late' = None
        /\ enrich'.wanted = {} /\ \A i \in Ids : enrich'.copy[i] = NoRow
        /\ UNCHANGED <<clock, server, rows, meta>>
    BY <1>18 DEF Crash, Forgotten, IdleList, IdleEnrich
  <2> QED
    BY <2>1 DEF PagesAreKnown, KnownPage, CoveredPage, RowsAreGood, GoodRow, NoRow,
                WantedIsCached, Thread
<1>19. CASE CrashLanding
  <2>1. /\ list'.page = None /\ list'.sent = None /\ late' = None
        /\ enrich'.wanted = {} /\ \A i \in Ids : enrich'.copy[i] = NoRow
        /\ list.page # None /\ rows' = RowsOf(list.page)
        /\ UNCHANGED <<clock, server, meta>>
    BY <1>19 DEF CrashLanding, Forgotten, IdleList, IdleEnrich
  <2>2. \A i \in Ids :
          \/ list.page[i].ver = 0 /\ rows'[i] = rows[i]
          \/ /\ list.page[i].ver > 0
             /\ rows'[i].ver = list.page[i].ver
             /\ rows'[i].detail = "absent"
    BY <2>1 DEF RowsOf, Thread
  <2>3. \A i \in Ids : list.page[i].ver <= server[i].ver
    BY <2>1 DEF PagesAreKnown, KnownPage
  <2>4. RowsAreGood'
    BY <2>1, <2>2, <2>3 DEF RowsAreGood, GoodRow, NoRow, Thread
  <2>5. PagesAreKnown'
    BY <2>1, <2>2 DEF PagesAreKnown, KnownPage, CoveredPage
  <2> QED
    BY <2>1, <2>4, <2>5 DEF WantedIsCached
<1>20. CASE UNCHANGED vars
  BY <1>20 DEF vars, PagesAreKnown, KnownPage, CoveredPage, RowsAreGood, GoodRow,
               WantedIsCached
<1> QED
  BY <1>1, <1>2, <1>3, <1>4, <1>5, <1>6, <1>7, <1>8, <1>9, <1>10, <1>11,
     <1>12, <1>13, <1>14, <1>15, <1>16, <1>17, <1>18, <1>19, <1>20 DEF Next

-----------------------------------------------------------------------------

LEMMA Invariance == Spec => []IInv
<1>1. Init => IInv
  BY InitIInv
<1>2. IInv /\ [Next]_vars => IInv'
  BY NextIInv
<1> QED
  BY <1>1, <1>2, PTL DEF Spec

(***************************************************************************)
(* The cache and every job keep to their types, whatever the interleaving  *)
(* of fetches, enrichments, mutations, cancels and crashes.                *)
(***************************************************************************)
THEOREM TypeCorrect == Spec => []TypeOK
<1>1. IInv => TypeOK
  BY DEF IInv
<1> QED
  BY <1>1, Invariance, PTL

(***************************************************************************)
(* No order of landings, late landings and crashes stores a validator      *)
(* without the rows it stands for.                                         *)
(***************************************************************************)
THEOREM ValidatorsHaveRows == Spec => []ValidatorImpliesRows
<1>1. IInv => ValidatorImpliesRows
  BY DEF IInv, PagesAreKnown, CoveredPage, ValidatorImpliesRows, Cached
<1> QED
  BY <1>1, Invariance, PTL

(***************************************************************************)
(* Details are never older than the row they are shown with, for any       *)
(* threads, page and batch sizes, and any number of crashes.               *)
(***************************************************************************)
THEOREM DetailsMatchRows == Spec => []DetailsAreOfThisRow
<1>1. IInv => DetailsAreOfThisRow
  BY DEF IInv, RowsAreGood, GoodRow, DetailsAreOfThisRow
<1> QED
  BY <1>1, Invariance, PTL

-----------------------------------------------------------------------------
(* While nothing is cancelled: the invariant CalmInv, on top of IInv.       *)

LEMMA InitCalmInv == Init => CalmInv
<1> SUFFICES ASSUME Init PROVE CalmInv
  OBVIOUS
<1>1. FetchIsOfTheStored
  BY DEF Init, IdleList, FetchIsOfTheStored, KnownPage
<1>2. AnsweredIsDetailed /\ AbsentRowIsCurrent
  BY DEF Init, IdleEnrich, AnsweredIsDetailed, AbsentRowIsCurrent
<1> QED
  BY <1>1, <1>2, InitIInv DEF CalmInv

\* A step that changes no more of the rows than their unread flags, and
\* neither the validator nor the two jobs.
LEMMA FlagsKeepCalm ==
    ASSUME FetchIsOfTheStored, AnsweredIsDetailed, AbsentRowIsCurrent, TypeOK,
           \A i \in Ids : /\ rows'[i].ver = rows[i].ver
                          /\ rows'[i].detail = rows[i].detail
                          /\ server[i].ver <= server'[i].ver
                          /\ server'[i].ver \in Nat,
           UNCHANGED <<meta, list, late, enrich>>
    PROVE  FetchIsOfTheStored' /\ AnsweredIsDetailed' /\ AbsentRowIsCurrent'
<1>1. FetchIsOfTheStored'
  BY VersionsAreNumbers DEF FetchIsOfTheStored, KnownPage, Thread
<1>2. AnsweredIsDetailed' /\ AbsentRowIsCurrent'
  BY DEF AnsweredIsDetailed, AbsentRowIsCurrent, Cached
<1> QED
  BY <1>1, <1>2

LEMMA NextCalmInv ==
    ASSUME ~ MayCancel, CalmInv, [Next]_vars
    PROVE  CalmInv'
<1>0. IInv /\ TypeOK /\ FetchIsOfTheStored /\ AnsweredIsDetailed
      /\ AbsentRowIsCurrent
  BY DEF CalmInv, IInv
<1>00. IInv' /\ TypeOK'
  BY <1>0, NextIInv DEF IInv
<1> DEFINE Kept == FetchIsOfTheStored' /\ AnsweredIsDetailed'
                   /\ AbsentRowIsCurrent'
<1> SUFFICES Kept
  BY <1>00 DEF CalmInv
<1> USE <1>0, VersionsAreNumbers
<1>1. ASSUME NEW i \in Ids, Activity(i) PROVE Kept
  <2>1. \A k \in Ids : server[k].ver <= server'[k].ver /\ server'[k].ver \in Nat
    BY <1>1 DEF Activity, IInv, TypeOK, Page, Thread, RowsAreGood
  <2>2. UNCHANGED <<rows, meta, list, late, enrich>>
    BY <1>1 DEF Activity
  <2> QED
    BY <2>1, <2>2, FlagsKeepCalm
<1>2. ASSUME NEW i \in Ids, ReadElsewhere(i) PROVE Kept
  <2>1. \A k \in Ids : server'[k].ver = server[k].ver /\ server'[k].ver \in Nat
    BY <1>2 DEF ReadElsewhere, TypeOK, Page, Thread
  <2>2. UNCHANGED <<rows, meta, list, late, enrich>>
    BY <1>2 DEF ReadElsewhere
  <2> QED
    BY <2>1, <2>2, FlagsKeepCalm
<1>3. CASE AskList
  BY <1>3 DEF AskList, IdleList, FetchIsOfTheStored, KnownPage,
              AnsweredIsDetailed, AbsentRowIsCurrent, Cached
<1>4. CASE AnswerList
  <2>1. /\ list'.page \in {None, FirstPage} /\ list'.sent = list.sent
        /\ list'.phase = "answered" /\ list.phase = "asked"
        /\ UNCHANGED <<server, rows, meta, late, enrich>>
    BY <1>4 DEF AnswerList, TypeOK, ListJob
  <2>2. meta.etag # None =>
          \A i \in Ids : FirstPage[i].ver > 0 =>
                             FirstPage[i].ver >= meta.etag[i].ver
    <3>1. \A i \in Ids : FirstPage[i] = server[i] \/ FirstPage[i] = NoThread
      BY FirstPageIsPage DEF TypeOK
    <3>2. meta.etag # None => \A i \in Ids : meta.etag[i].ver <= server[i].ver
      BY DEF FetchIsOfTheStored, KnownPage
    <3> QED
      BY <3>1, <3>2 DEF NoThread, Thread
  <2>3. FetchIsOfTheStored'
    BY <2>1, <2>2 DEF FetchIsOfTheStored, KnownPage
  <2> QED
    BY <2>1, <2>3 DEF AnsweredIsDetailed, AbsentRowIsCurrent, Cached
<1>5. CASE FailList
  BY <1>5 DEF FailList, IdleList, FetchIsOfTheStored, KnownPage,
              AnsweredIsDetailed, AbsentRowIsCurrent, Cached
<1>6. CASE LandList
  <2>1. /\ list.phase = "answered" /\ Land(list)
        /\ list'.phase = "landed" /\ list'.page = None
        /\ UNCHANGED <<server, late, enrich>>
    BY <1>6 DEF LandList, IdleList
  <2>2. CASE list.page = None
    <3>1. rows' = rows /\ meta'.etag = meta.etag
      <4>1. rows' = rows /\ meta' = [etag |-> list.sent, complete |-> TRUE]
        BY <2>1, <2>2, Zenon DEF Land
      <4> QED
        BY <2>1, <4>1 DEF FetchIsOfTheStored
    <3> QED
      BY <2>1, <3>1 DEF FetchIsOfTheStored, KnownPage, AnsweredIsDetailed,
                        AbsentRowIsCurrent, Cached
  <2>3. CASE list.page # None
    <3>1. meta'.etag = list.page /\ rows' = RowsOf(list.page)
      BY <2>1, <2>3 DEF Land
    <3>2. AbsentRowIsCurrent'
      <4>1. \A i \in Ids : list.page[i].ver = 0
                             \/ rows'[i].ver = list.page[i].ver
        BY <3>1 DEF RowsOf
      <4>2. \A i \in Ids : list.page[i] \in Thread
        BY <2>3
      <4>3. ASSUME NEW i \in Ids, rows'[i].ver > 0
            PROVE  rows'[i].ver >= meta'.etag[i].ver
        BY <1>00, <3>1, <4>1, <4>2, <4>3 DEF TypeOK, Row, Thread
      <4> QED
        BY <4>3 DEF AbsentRowIsCurrent, Cached
    <3>3. KnownPage(meta.etag)'
      BY <2>1, <3>1 DEF IInv, PagesAreKnown, KnownPage
    <3>4. FetchIsOfTheStored'
      BY <2>1, <3>3 DEF FetchIsOfTheStored
    <3> QED
      BY <2>1, <3>2, <3>4 DEF AnsweredIsDetailed
  <2> QED
    BY <2>2, <2>3
<1>7. CASE Chain
  <2>1. /\ list'.phase = "idle" /\ list'.page = None
        /\ UNCHANGED <<server, rows, meta, late>>
        /\ enrich' = enrich \/ enrich'.phase = "selected"
    BY <1>7 DEF Chain, IdleList, IdleEnrich
  <2> QED
    BY <2>1 DEF FetchIsOfTheStored, KnownPage, AnsweredIsDetailed,
                AbsentRowIsCurrent, Cached
<1>8. CASE CancelList
  BY <1>8 DEF CancelList
<1>9. CASE LandLate
  BY <1>9 DEF LandLate, FetchIsOfTheStored
<1>10. CASE ReadRows
  <2>1. enrich'.phase = "asked" /\ UNCHANGED <<server, rows, meta, list, late>>
    BY <1>10 DEF ReadRows, TypeOK, EnrichJob
  <2> QED
    BY <2>1 DEF FetchIsOfTheStored, KnownPage, AnsweredIsDetailed,
                AbsentRowIsCurrent, Cached
<1>11. CASE AnswerEnrich
  <2>1. PICK lost \in SUBSET Addressable :
          enrich' = [enrich EXCEPT !.phase = "answered",
                                   !.copy = [i \in Ids |-> Enriched(i, lost)]]
    BY <1>11 DEF AnswerEnrich
  <2>2. /\ enrich'.wanted = enrich.wanted /\ enrich.wanted \subseteq Ids
        /\ \A i \in Ids : enrich'.copy[i] = Enriched(i, lost)
        /\ UNCHANGED <<server, rows, meta, list, late>>
    BY <1>11, <2>1 DEF AnswerEnrich, TypeOK, EnrichJob
  <2>3. \A i \in enrich.wanted : Enriched(i, lost).detail # "absent"
    BY <2>2 DEF Enriched, Row
  <2> QED
    BY <2>2, <2>3 DEF FetchIsOfTheStored, KnownPage, AnsweredIsDetailed,
                      AbsentRowIsCurrent, Cached
<1>12. CASE FailEnrich
  BY <1>12 DEF FailEnrich, IdleEnrich, FetchIsOfTheStored, KnownPage,
               AnsweredIsDetailed, AbsentRowIsCurrent, Cached
<1>13. CASE WriteEnriched
  <2>1. /\ enrich.phase = "answered" /\ enrich'.phase = "idle"
        /\ \A i \in Ids : rows'[i] = IF i \in enrich.wanted THEN enrich.copy[i]
                                      ELSE rows[i]
        /\ UNCHANGED <<server, meta, list, late>>
    BY <1>13 DEF WriteEnriched, IdleEnrich
  <2>2. AbsentRowIsCurrent'
    BY <2>1 DEF AnsweredIsDetailed, AbsentRowIsCurrent, Cached
  <2> QED
    BY <2>1, <2>2 DEF FetchIsOfTheStored, KnownPage, AnsweredIsDetailed
<1>14. ASSUME NEW ids \in SUBSET Cached, MarkRead(ids) PROVE Kept
  <2>1. /\ \A i \in Ids : /\ rows'[i].ver = rows[i].ver
                           /\ rows'[i].detail = rows[i].detail
        /\ UNCHANGED <<server, meta, list, late, enrich>>
    BY <1>14 DEF MarkRead, Row
  <2> QED
    BY <2>1, FlagsKeepCalm DEF Thread
<1>15. ASSUME NEW ids \in SUBSET Cached, MarkUnread(ids) PROVE Kept
  <2>1. /\ \A i \in Ids : /\ rows'[i].ver = rows[i].ver
                           /\ rows'[i].detail = rows[i].detail
        /\ UNCHANGED <<server, meta, list, late, enrich>>
    BY <1>15 DEF MarkUnread, Row
  <2> QED
    BY <2>1, FlagsKeepCalm DEF Thread
<1>16. ASSUME NEW i \in Ids, Patch(i) PROVE Kept
  <2>1. \A k \in Ids : server'[k].ver = server[k].ver /\ server'[k].ver \in Nat
    BY <1>16 DEF Patch, TypeOK, Page, Thread
  <2>2. UNCHANGED <<rows, meta, list, late, enrich>>
    BY <1>16 DEF Patch
  <2> QED
    BY <2>1, <2>2, FlagsKeepCalm
<1>17. CASE Rollback
  <2>1. /\ \A i \in Ids : /\ rows'[i].ver = rows[i].ver
                           /\ rows'[i].detail = rows[i].detail
        /\ UNCHANGED <<server, meta, list, late, enrich>>
    BY <1>17 DEF Rollback, Row
  <2> QED
    BY <2>1, FlagsKeepCalm DEF Thread
<1>18. CASE Crash
  BY <1>18 DEF Crash, Forgotten, IdleList, IdleEnrich, FetchIsOfTheStored,
               KnownPage, AnsweredIsDetailed, AbsentRowIsCurrent, Cached
<1>19. CASE CrashLanding
  <2>1. /\ list'.phase = "idle" /\ list'.page = None /\ late' = None
        /\ enrich'.phase = "idle"
        /\ list.page # None /\ rows' = RowsOf(list.page)
        /\ UNCHANGED <<server, meta>>
    BY <1>19 DEF CrashLanding, Forgotten, IdleList, IdleEnrich
  <2>2. \A i \in Ids :
          \/ list.page[i].ver = 0 /\ rows'[i] = rows[i]
          \/ list.page[i].ver > 0 /\ rows'[i].ver = list.page[i].ver
    BY <2>1 DEF RowsOf, Thread
  <2>3. AbsentRowIsCurrent'
    BY <2>1, <2>2 DEF FetchIsOfTheStored, AbsentRowIsCurrent, Cached
  <2> QED
    BY <2>1, <2>3 DEF FetchIsOfTheStored, KnownPage, AnsweredIsDetailed
<1>20. CASE UNCHANGED vars
  BY <1>20, FlagsKeepCalm DEF vars, Thread
<1> QED
  BY <1>1, <1>2, <1>3, <1>4, <1>5, <1>6, <1>7, <1>8, <1>9, <1>10, <1>11,
     <1>12, <1>13, <1>14, <1>15, <1>16, <1>17, <1>18, <1>19, <1>20 DEF Next

(***************************************************************************)
(* On a screen that is never left, no order of fetches, enrichments,       *)
(* mutations and crashes, a page half landed included, leaves a row        *)
(* awaiting its details that is older than the validator stored beside it: *)
(* the 304s that follow leave it right.                                    *)
(***************************************************************************)
THEOREM AbsentRowsAreCurrent ==
    ASSUME ~ MayCancel
    PROVE  Spec => []AbsentRowIsCurrent
<1>1. Init => CalmInv
  BY InitCalmInv
<1>2. CalmInv /\ [Next]_vars => CalmInv'
  BY NextCalmInv
<1>3. CalmInv => AbsentRowIsCurrent
  BY DEF CalmInv
<1> QED
  BY <1>1, <1>2, <1>3, PTL DEF Spec

-----------------------------------------------------------------------------
(* The poll loop.  What is kept of a task, beside its type: a sleep ends in *)
(* time; a look settles on the pace or more; a rest makes up what the last  *)
(* tick lacks of it, and with no rest between, what lacks is not due.  Only *)
(* its own steps set a task, and time moves all of its clocks together.     *)

OnTime(k, age) == k.phase = "sleeping" => age + k.left <= k.interval

InStep(k, age, sofar, pace) ==
    /\ k.phase \in {"looked", "sleeping", "due", "resting"} => k.interval >= pace
    /\ k.phase \in {"looking", "looked", "sleeping"} => sofar >= pace \/ age <= sofar
    /\ k.phase = "due" => sofar >= pace
    /\ k.phase = "resting" => sofar + k.left >= pace

KeepsPace == \A t \in Targets : InStep(task[t], since[t], paced[t], Pace(t))

PollIInv == PollTypeOK /\ NeverOversleeps /\ KeepsPace

LEMMA PaceIsNat ==
    ASSUME NEW t \in Targets
    PROVE  /\ Pace(t) \in Nat /\ Pace(t) <= MaxBackoff
           /\ Longest(t) \in Nat /\ MaxBackoff <= Longest(t)
BY PollAssumption DEF Pace, Longest, Larger, Smaller

LEMMA UnfailingInRange ==
    ASSUME NEW t \in Targets
    PROVE  /\ Unfailing(t) \in Nat /\ Unfailing(t) <= Longest(t)
           /\ Pace(t) <= Unfailing(t)
BY PollAssumption DEF Unfailing, Larger, Smaller, CachedInterval, Longest, Pace

\* Doubling, then cutting down, does not fall below what was doubled.
LEMMA DoublingLengthens ==
    ASSUME NEW wait \in Nat, NEW p \in Nat \ {0}, NEW n \in Nat,
           n <= wait, n <= MaxBackoff
    PROVE  /\ n <= Smaller(wait * p, MaxBackoff)
           /\ Smaller(wait * p, MaxBackoff) \in Nat
           /\ Smaller(wait * p, MaxBackoff) <= MaxBackoff
<1>1. wait * p >= wait
  <2>1. \E k \in Nat : p = k + 1
    <3> WITNESS p - 1 \in Nat
    <3> QED
      OBVIOUS
  <2>2. PICK k \in Nat : p = k + 1
    BY <2>1
  <2>3. wait * p = wait * k + wait /\ wait * k \in Nat
    BY <2>2
  <2> QED
    BY <2>3
<1>2. wait * p \in Nat /\ MaxBackoff \in Nat
  BY PollAssumption
<1> QED
  BY <1>1, <1>2 DEF Smaller

\* Whatever fails how often, no interval exceeds the bound, or is below the
\* pace.
LEMMA IntervalInRange ==
    ASSUME PollTypeOK, NEW t \in Targets
    PROVE  /\ IntervalFor(t) \in Nat /\ IntervalFor(t) <= Longest(t)
           /\ Pace(t) <= IntervalFor(t)
<1>1. failures[t] \in 0..MaxFailures /\ 2 ^ failures[t] \in Nat \ {0}
  BY PollAssumption DEF PollTypeOK
<1> DEFINE p == 2 ^ failures[t]
<1>2. p \in Nat \ {0} /\ (IntervalFor(t) = Unfailing(t)
                           \/ IntervalFor(t) = Smaller(Unfailing(t) * p, MaxBackoff))
  BY <1>1 DEF IntervalFor
<1> HIDE DEF p
<1>3. /\ Pace(t) <= Smaller(Unfailing(t) * p, MaxBackoff)
      /\ Smaller(Unfailing(t) * p, MaxBackoff) \in Nat
      /\ Smaller(Unfailing(t) * p, MaxBackoff) <= MaxBackoff
  BY <1>2, PaceIsNat, UnfailingInRange, DoublingLengthens
<1> QED
  BY <1>2, <1>3, PaceIsNat, UnfailingInRange, PollAssumption

\* A step of the loop of t that leaves t's task sound, time standing still.
LEMMA TaskStep ==
    ASSUME PollIInv, NEW t \in Targets, NEW new \in Task, NEW sofar \in Nat,
           new.interval <= Longest(t),
           OnTime(new, since[t]), InStep(new, since[t], sofar, Pace(t)),
           task' = [task EXCEPT ![t] = new],
           paced' = [paced EXCEPT ![t] = sofar],
           UNCHANGED <<open, advertised, since, failures>>,
           fetch' \in [Targets -> {"idle", "fetching", "counted", "stamped"}]
    PROVE  PollIInv'
<1>1. \A u \in Targets : /\ task'[u] = IF u = t THEN new ELSE task[u]
                         /\ paced'[u] = IF u = t THEN sofar ELSE paced[u]
  BY DEF PollIInv, PollTypeOK
<1>2. PollTypeOK'
  BY <1>1 DEF PollIInv, PollTypeOK
<1>3. NeverOversleeps'
  BY <1>1 DEF PollIInv, NeverOversleeps, OnTime
<1>4. KeepsPace'
  <2> SUFFICES ASSUME NEW u \in Targets
               PROVE  InStep(task'[u], since[u], paced'[u], Pace(u))
    BY DEF KeepsPace, Pace
  <2>1. InStep(task[u], since[u], paced[u], Pace(u))
    BY DEF PollIInv, KeepsPace
  <2> QED
    BY <1>1, <2>1
<1> QED
  BY <1>2, <1>3, <1>4 DEF PollIInv

LEMMA TaskFields ==
    ASSUME PollIInv, NEW t \in Targets
    PROVE  /\ task[t] \in Task /\ task[t].interval <= Longest(t)
           /\ since[t] \in Nat /\ paced[t] \in Nat
           /\ paced = [paced EXCEPT ![t] = paced[t]]
           /\ fetch \in [Targets -> {"idle", "fetching", "counted", "stamped"}]
           /\ InStep(task[t], since[t], paced[t], Pace(t))
           /\ task[t].phase = "sleeping" => since[t] + task[t].left <= task[t].interval
BY DEF PollIInv, PollTypeOK, NeverOversleeps, KeepsPace

LEMMA FreshTasks ==
    ASSUME NEW t \in Targets, NEW k \in {NewTask, [NewTask EXCEPT !.phase = "ended"]}
    PROVE  /\ k \in Task /\ k.interval <= Longest(t)
           /\ k.phase = IF k = NewTask THEN "looking" ELSE "ended"
BY PaceIsNat, PollAssumption DEF NewTask, Task

\* A task that ends is in order.
LEMMA EndInv ==
    ASSUME PollIInv, NEW t \in Targets,
           task' = [task EXCEPT ![t] = [NewTask EXCEPT !.phase = "ended"]],
           UNCHANGED <<open, advertised, since, failures, fetch, paced>>
    PROVE  PollIInv'
<1> DEFINE new == [NewTask EXCEPT !.phase = "ended"]
<1>1. new \in Task /\ new.interval <= Longest(t) /\ new.phase = "ended"
  BY FreshTasks DEF NewTask
<1>2. task' = [task EXCEPT ![t] = new]
  OBVIOUS
<1> HIDE DEF new
<1>3. OnTime(new, since[t]) /\ InStep(new, since[t], paced[t], Pace(t))
  BY <1>1 DEF OnTime, InStep
<1> QED
  BY <1>1, <1>2, <1>3, TaskFields, TaskStep

LEMMA InitInv == PollInit => PollIInv
<1> SUFFICES ASSUME PollInit PROVE PollIInv
  OBVIOUS
<1>1. \A t \in Targets : task[t] = NewTask /\ since[t] = 0 /\ paced[t] = 0
  BY DEF PollInit
<1>2. NewTask \in Task /\ NewTask.phase = "looking" /\ NewTask.interval = 0
  BY PollAssumption DEF NewTask, Task
<1>3. PollTypeOK
  <2>1. \A t \in Targets : task[t].interval <= Longest(t)
    BY <1>1, <1>2, PaceIsNat
  <2> QED
    BY <1>2, <2>1, PollAssumption DEF PollInit, PollTypeOK
<1>4. NeverOversleeps /\ KeepsPace
  BY <1>1, <1>2 DEF NeverOversleeps, KeepsPace, InStep
<1> QED
  BY <1>3, <1>4 DEF PollIInv

LEMMA LookInv == ASSUME PollIInv, NEW t \in Targets, Look(t) PROVE PollIInv'
<1>1. CASE Alive
  <2> DEFINE new == [task[t] EXCEPT !.phase = "looked", !.interval = IntervalFor(t)]
  <2>1. /\ new \in Task /\ new.phase = "looked"
        /\ new.interval = IntervalFor(t) /\ new.interval <= Longest(t)
    BY TaskFields, IntervalInRange DEF PollIInv, Task
  <2>2. task' = [task EXCEPT ![t] = new]
    BY <1>1 DEF Look
  <2> HIDE DEF new
  <2>3. OnTime(new, since[t]) /\ InStep(new, since[t], paced[t], Pace(t))
    <3>1. task[t].phase = "looking"
      BY DEF Look
    <3>2. paced[t] >= Pace(t) \/ since[t] <= paced[t]
      BY <3>1, TaskFields DEF InStep
    <3>3. IntervalFor(t) >= Pace(t)
      BY IntervalInRange, PaceIsNat DEF PollIInv
    <3> QED
      BY <2>1, <3>2, <3>3 DEF OnTime, InStep
  <2> QED
    BY <2>1, <2>2, <2>3, TaskFields, TaskStep DEF Look
<1>2. CASE ~ Alive
  BY <1>2, EndInv DEF Look
<1> QED
  BY <1>1, <1>2

LEMMA DecideInv == ASSUME PollIInv, NEW t \in Targets, Decide(t) PROVE PollIInv'
<1>0. /\ task[t].phase = "looked" /\ task[t].interval \in Nat /\ Pace(t) \in Nat
      /\ since[t] \in Nat /\ paced[t] \in Nat
      /\ task[t].interval >= Pace(t) /\ (paced[t] >= Pace(t) \/ since[t] <= paced[t])
  BY TaskFields, PaceIsNat DEF Decide, InStep, Task
<1>1. CASE since[t] >= task[t].interval
  <2> DEFINE new == [task[t] EXCEPT !.phase = "due"]
  <2>1. /\ new \in Task /\ new.phase = "due"
        /\ new.interval = task[t].interval /\ new.interval <= Longest(t)
    BY TaskFields DEF Task
  <2>2. task' = [task EXCEPT ![t] = new]
    BY <1>1 DEF Decide
  <2> HIDE DEF new
  <2>3. paced[t] >= Pace(t)
    BY <1>0, <1>1
  <2>4. OnTime(new, since[t]) /\ InStep(new, since[t], paced[t], Pace(t))
    BY <1>0, <2>1, <2>3 DEF OnTime, InStep
  <2> QED
    BY <2>1, <2>2, <2>4, TaskFields, TaskStep DEF Decide
<1>2. CASE ~ (since[t] >= task[t].interval)
  <2> DEFINE left == task[t].interval - since[t]
             new == [task[t] EXCEPT !.phase = "sleeping", !.left = left]
  <2>1. left \in Nat /\ since[t] + left <= task[t].interval
    BY <1>0, <1>2
  <2>2. /\ new \in Task /\ new.phase = "sleeping" /\ new.left = left
        /\ new.interval = task[t].interval /\ new.interval <= Longest(t)
    BY <2>1, TaskFields DEF Task
  <2>3. task' = [task EXCEPT ![t] = new]
    BY <1>2 DEF Decide
  <2> HIDE DEF new, left
  <2>4. OnTime(new, since[t]) /\ InStep(new, since[t], paced[t], Pace(t))
    BY <1>0, <2>1, <2>2 DEF OnTime, InStep
  <2> QED
    BY <2>2, <2>3, <2>4, TaskFields, TaskStep DEF Decide
<1> QED
  BY <1>1, <1>2

LEMMA FireInv == ASSUME PollIInv, NEW t \in Targets, Fire(t) PROVE PollIInv'
<1>1. CASE Alive
  <2> DEFINE new == [task[t] EXCEPT !.phase = "resting", !.left = task[t].interval]
  <2>0. /\ task[t].interval \in Nat /\ Pace(t) \in Nat /\ task[t].interval >= Pace(t)
    BY TaskFields, PaceIsNat DEF Fire, InStep, Task
  <2>1. /\ new \in Task /\ new.phase = "resting" /\ new.left = task[t].interval
        /\ new.interval = task[t].interval /\ new.interval <= Longest(t)
    BY TaskFields DEF Task
  <2>2. task' = [task EXCEPT ![t] = new] /\ paced' = [paced EXCEPT ![t] = 0]
    BY <1>1 DEF Fire
  <2>3. fetch' \in [Targets -> {"idle", "fetching", "counted", "stamped"}]
    BY <1>1, TaskFields DEF Fire
  <2> HIDE DEF new
  <2>4. OnTime(new, since[t]) /\ InStep(new, since[t], 0, Pace(t))
    BY <2>0, <2>1 DEF OnTime, InStep
  <2> QED
    BY <2>1, <2>2, <2>3, <2>4, TaskStep DEF Fire
<1>2. CASE ~ Alive
  BY <1>2, EndInv DEF Fire
<1> QED
  BY <1>1, <1>2

LEMMA WakeInv == ASSUME PollIInv, NEW t \in Targets, Wake(t) PROVE PollIInv'
<1>1. /\ NewTask \in Task /\ NewTask.phase = "looking" /\ NewTask.interval <= Longest(t)
  BY FreshTasks
<1>2. paced[t] >= Pace(t) \/ since[t] <= paced[t]
  <2>1. /\ task[t].phase \in {"sleeping", "resting"} /\ task[t].left = 0
        /\ paced[t] \in Nat /\ InStep(task[t], since[t], paced[t], Pace(t))
    BY TaskFields DEF Wake
  <2> QED
    BY <2>1 DEF InStep
<1>3. OnTime(NewTask, since[t]) /\ InStep(NewTask, since[t], paced[t], Pace(t))
  BY <1>1, <1>2 DEF OnTime, InStep
<1> QED
  BY <1>1, <1>3, TaskFields, TaskStep DEF Wake

\* A tick of one target's task: what is slept of a wait is added to the age,
\* and to the time since the last tick.
LEMMA TickOne ==
    ASSUME PollIInv, Tick, NEW t \in Targets
    PROVE  /\ task'[t] \in Task /\ task'[t].interval <= Longest(t)
           /\ since'[t] \in Nat /\ paced'[t] \in Nat
           /\ OnTime(task'[t], since'[t])
           /\ InStep(task'[t], since'[t], paced'[t], Pace(t))
<1>1. /\ since'[t] = Smaller(since[t] + 1, Longest(t))
      /\ paced'[t] = Smaller(paced[t] + 1, MaxBackoff)
  BY DEF Tick
<1>2. /\ Pace(t) \in Nat /\ Pace(t) <= MaxBackoff /\ Longest(t) \in Nat
      /\ MaxBackoff \in Nat /\ since[t] \in Nat /\ paced[t] \in Nat
  BY TaskFields, PaceIsNat, PollAssumption
<1>3. /\ since'[t] \in Nat /\ since'[t] <= since[t] + 1 /\ paced'[t] \in Nat
      /\ paced'[t] = paced[t] + 1 \/ paced'[t] >= Pace(t)
  BY <1>1, <1>2 DEF Smaller
<1>4. CASE task[t].phase = "ended"
  <2>1. task'[t] = task[t]
    BY <1>4 DEF Tick
  <2> QED
    BY <1>3, <1>4, <2>1, TaskFields DEF OnTime, InStep
<1>5. CASE task[t].phase # "ended"
  <2>1. /\ task[t].phase \in {"sleeping", "resting"}
        /\ task[t].left > 0 /\ task'[t] = [task[t] EXCEPT !.left = @ - 1]
    BY <1>5 DEF Tick
  <2>2. /\ task[t].left - 1 \in Nat
        /\ task[t].left \in Nat /\ task[t].interval \in Nat
    BY <2>1, TaskFields DEF Task
  <2>3. /\ task'[t] \in Task
        /\ task'[t].phase = task[t].phase /\ task'[t].interval = task[t].interval
        /\ task'[t].left = task[t].left - 1
    BY <2>1, <2>2, TaskFields DEF Task
  <2>4. OnTime(task'[t], since'[t])
    <3>1. task[t].phase = "sleeping" => since[t] + task[t].left <= task[t].interval
      BY TaskFields
    <3> QED
      BY <1>2, <1>3, <2>2, <2>3, <3>1 DEF OnTime
  <2>5. InStep(task[t], since[t], paced[t], Pace(t))
    BY TaskFields
  <2>6. CASE task[t].phase = "sleeping"
    <3>1. /\ task[t].interval >= Pace(t)
          /\ paced[t] >= Pace(t) \/ since[t] <= paced[t]
      BY <2>5, <2>6 DEF InStep
    <3>2. paced'[t] >= Pace(t) \/ since'[t] <= paced'[t]
      BY <1>2, <1>3, <3>1
    <3> QED
      BY <1>3, <2>3, <2>4, <2>6, <3>1, <3>2, TaskFields DEF InStep
  <2>7. CASE task[t].phase = "resting"
    <3>1. task[t].interval >= Pace(t) /\ paced[t] + task[t].left >= Pace(t)
      BY <2>5, <2>7 DEF InStep
    <3>2. paced'[t] + (task[t].left - 1) >= Pace(t)
      BY <1>2, <1>3, <2>2, <3>1
    <3> QED
      BY <1>3, <2>3, <2>4, <2>7, <3>1, <3>2, TaskFields DEF InStep
  <2> QED
    BY <2>1, <2>6, <2>7
<1> QED
  BY <1>4, <1>5

LEMMA TickInv == ASSUME PollIInv, Tick PROVE PollIInv'
<1>1. /\ task' \in [Targets -> Task] /\ since' \in [Targets -> Nat]
      /\ paced' \in [Targets -> Nat]
  BY TickOne DEF Tick
<1>2. PollTypeOK'
  BY <1>1, TickOne DEF PollIInv, PollTypeOK, Tick
<1>3. NeverOversleeps'
  BY TickOne DEF NeverOversleeps, OnTime
<1>4. KeepsPace'
  BY TickOne DEF KeepsPace, Pace
<1> QED
  BY <1>2, <1>3, <1>4 DEF PollIInv

\* What fetches and the user do leaves every task alone; a fetch that ends
\* can only make last_fetch younger.
LEMMA OthersInv ==
    ASSUME PollIInv, NEW t \in Targets, Quit \/ Ask(t) \/ Cancel(t) \/ JobStep(t)
    PROVE  PollIInv'
<1>1. task' = task /\ paced' = paced
  BY DEF Quit, Ask, Cancel, JobStep, Count, Stamp, Settle
<1>2. \A u \in Targets : since'[u] = since[u] \/ since'[u] = 0
  BY DEF Quit, Ask, Cancel, JobStep, Count, Stamp, Settle, PollIInv, PollTypeOK
<1>3. PollTypeOK'
  <2>1. CASE Quit \/ Ask(t) \/ Cancel(t) \/ Settle(t)
    BY <2>1 DEF Quit, Ask, Cancel, Settle, PollIInv, PollTypeOK
  <2>2. CASE Stamp(t)
    BY <2>2, PollAssumption DEF Stamp, PollIInv, PollTypeOK
  <2>3. CASE Count(t)
    <3>1. 0 \in 0..MaxFailures /\ Smaller(failures[t] + 1, MaxFailures) \in 0..MaxFailures
      BY PollAssumption DEF Smaller, PollIInv, PollTypeOK
    <3> QED
      BY <2>3, <3>1 DEF Count, PollIInv, PollTypeOK
  <2> QED
    BY <2>1, <2>2, <2>3 DEF JobStep
<1>4. ASSUME NEW u \in Targets
      PROVE  /\ OnTime(task[u], since'[u])
             /\ InStep(task[u], since'[u], paced[u], Pace(u))
  <2>1. /\ since[u] \in Nat /\ task[u].left \in Nat /\ task[u].interval \in Nat
        /\ paced[u] \in Nat
    BY TaskFields DEF Task
  <2>2. 0 <= paced[u]
    BY <2>1
  <2>3. /\ task[u].phase = "sleeping" => since[u] + task[u].left <= task[u].interval
        /\ InStep(task[u], since[u], paced[u], Pace(u))
    BY TaskFields
  <2>4. OnTime(task[u], since'[u])
    BY <1>2, <2>1, <2>3 DEF OnTime
  <2>5. InStep(task[u], since'[u], paced[u], Pace(u))
    BY <1>2, <2>2, <2>3 DEF InStep
  <2> QED
    BY <2>4, <2>5
<1>5. NeverOversleeps' /\ KeepsPace'
  BY <1>1, <1>4 DEF NeverOversleeps, OnTime, KeepsPace, Pace
<1> QED
  BY <1>3, <1>5 DEF PollIInv

LEMMA PollInvariance == PollSpec => []PollIInv
<1>1. PollInit => PollIInv
  BY InitInv
<1>2. PollIInv /\ [PollNext]_pollVars => PollIInv'
  <2> SUFFICES ASSUME PollIInv, [PollNext]_pollVars PROVE PollIInv'
    OBVIOUS
  <2>1. CASE Tick
    BY <2>1, TickInv
  <2>2. CASE Quit
    <3>1. task' = task /\ since' = since /\ paced' = paced
      BY <2>2 DEF Quit
    <3>2. NeverOversleeps' /\ KeepsPace'
      BY <3>1 DEF PollIInv, NeverOversleeps, KeepsPace, Pace
    <3> QED
      BY <2>2, <3>2 DEF Quit, PollIInv, PollTypeOK
  <2>3. ASSUME NEW t \in Targets, Ask(t) \/ Cancel(t) \/ JobStep(t) PROVE PollIInv'
    BY <2>3, OthersInv
  <2>4. ASSUME NEW t \in Targets, PollStep(t) PROVE PollIInv'
    BY <2>4, LookInv, DecideInv, FireInv, WakeInv DEF PollStep
  <2>5. CASE UNCHANGED pollVars
    <3>1. NeverOversleeps' /\ KeepsPace'
      BY <2>5 DEF pollVars, PollIInv, NeverOversleeps, KeepsPace, Pace
    <3> QED
      BY <2>5, <3>1 DEF pollVars, PollIInv, PollTypeOK
  <2> QED
    BY <2>1, <2>2, <2>3, <2>4, <2>5 DEF PollNext
<1> QED
  BY <1>1, <1>2, PTL DEF PollSpec

(***************************************************************************)
(* The loop's state keeps its type; in particular no back-off, however     *)
(* many failures earned it, makes an interval longer than the bound.       *)
(***************************************************************************)
THEOREM PollTypeCorrect == PollSpec => []PollTypeOK
<1>1. PollIInv => PollTypeOK
  BY DEF PollIInv
<1> QED
  BY <1>1, PollInvariance, PTL

(***************************************************************************)
(* For any number of targets and any intervals, a sleeping task wakes no   *)
(* later than an interval after the last fetch, whoever made it.           *)
(***************************************************************************)
THEOREM PollsOnTime == PollSpec => []NeverOversleeps
<1>1. PollIInv => NeverOversleeps
  BY DEF PollIInv
<1> QED
  BY <1>1, PollInvariance, PTL

\* What a step may do to a task that is due.
Paces ==
    \A t \in Targets :
        task[t].phase = "due" /\ task'[t].phase \notin {"due", "ended"} =>
            paced[t] >= Pace(t)

(***************************************************************************)
(* For any targets, any intervals configured, any floor and back-off, and  *)
(* whatever GitHub advertises: two ticks of a task are never closer than   *)
(* its configured interval, floored, or MAX_BACKOFF if that is shorter.    *)
(***************************************************************************)
THEOREM TicksAreApart == PollSpec => NeverTooSoon
<1>1. PollIInv => Paces
  BY TaskFields DEF Paces, InStep
<1>2. PollIInv /\ [PollNext]_pollVars => [Paces]_pollVars
  BY <1>1
<1>3. PollSpec => [][Paces]_pollVars
  BY <1>2, PollInvariance, PTL DEF PollSpec
<1> QED
  BY <1>3 DEF NeverTooSoon, Paces
=============================================================================
