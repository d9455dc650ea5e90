------------------------------- MODULE Inbox -------------------------------
(***************************************************************************)
(* The cached inbox and everything that writes it: the list fetch          *)
(* (Job::sync_notifications), the enrichment of its rows (Job::enrich over *)
(* Notifications::enrich), and the optimistic marking of threads as read   *)
(* (SqliteStore::set_read_state over Notifications::mark_read), against a  *)
(* GitHub whose threads move on meanwhile.                                 *)
(*                                                                         *)
(* The cache is one Connection behind one mutex, so what the code does in  *)
(* one with_cache closure is one action; the network is an await, so what  *)
(* is on either side of it is two.  A thread's content is its version: the *)
(* value of a clock when it last saw activity, which is also its           *)
(* updated_at.  A page's validator is the page.  Who schedules the fetches *)
(* is the matter of Refresh.tla.                                           *)
(***************************************************************************)
EXTENDS Naturals, FiniteSets

CONSTANTS
    Ids,         \* notification threads
    Addressable, \* those whose subject an enrichment query can name
    PageSize,    \* MAX_PER_PAGE
    Batch,       \* ENRICHMENT_BATCH
    MaxClock,    \* bound: server activity in one behaviour
    MaxCrashes,  \* bound: restarts of the program in one behaviour
    MayCancel,   \* whether the surface on screen is ever left
    None         \* no validator, no answer

ASSUME SizeAssumption ==
    /\ Addressable \subseteq Ids
    /\ PageSize \in Nat \ {0}
    /\ Batch \in Nat \ {0}
    /\ MaxClock \in Nat
    /\ MaxCrashes \in Nat
    /\ MayCancel \in BOOLEAN

VARIABLES
    clock,  \* GitHub: the version of the latest activity
    server, \* GitHub: each thread
    rows,   \* cache: the notifications table
    meta,   \* cache: the validator and completeness in list_meta
    list,   \* the list fetch under way
    late,   \* a list fetch cancelled after its answer came: it still lands
    enrich, \* the enrichment under way
    mark,   \* the mark_read under way
    crashes

vars == <<clock, server, rows, meta, list, late, enrich, mark, crashes>>

-----------------------------------------------------------------------------
(* Data.  Version 0 is a thread that is not there.                          *)

Thread == [ver : Nat, unread : BOOLEAN]

Page == [Ids -> Thread]

\* Enrichment<SubjectDetail>; of is the version of the subject it describes.
\* Pending is never written to the cache: it lives in the job's own copy.
Row == [ver : Nat, unread : BOOLEAN,
        detail : {"absent", "ready", "failed", "notApplicable"}, of : Nat]

NoThread == [ver |-> 0, unread |-> FALSE]
NoRow == [ver |-> 0, unread |-> FALSE, detail |-> "absent", of |-> 0]

Cached == {i \in Ids : rows[i].ver > 0}

\* The n members of S updated most recently: ORDER BY updated_at DESC LIMIT n.
Newest(S, versioned, n) ==
    {i \in S : Cardinality({k \in S : versioned[k].ver > versioned[i].ver}) < n}

IdleList == [phase |-> "idle", sent |-> None, page |-> None, more |-> FALSE]
IdleEnrich == [phase |-> "idle", wanted |-> {}, copy |-> [i \in Ids |-> NoRow]]
IdleMark == [phase |-> "idle", left |-> {}, prior |-> [i \in Ids |-> FALSE],
             ids |-> {}]

Etag == Page \cup {None}

ListJob == [phase : {"idle", "asked", "answered", "landed"},
            sent : Etag, page : Etag, more : BOOLEAN]

LateAnswer == [sent : Etag, page : Etag, more : BOOLEAN]

EnrichJob == [phase : {"idle", "selected", "asked", "answered"},
              wanted : SUBSET Ids, copy : [Ids -> Row]]

MarkJob == [phase : {"idle", "sending"}, ids : SUBSET Ids, left : SUBSET Ids,
            prior : [Ids -> BOOLEAN]]

TypeOK ==
    /\ clock \in 0..MaxClock
    /\ server \in Page
    /\ rows \in [Ids -> Row]
    /\ meta \in [etag : Etag, complete : BOOLEAN]
    /\ list \in ListJob
    /\ late \in LateAnswer \cup {None}
    /\ enrich \in EnrichJob
    /\ mark \in MarkJob
    /\ crashes \in 0..MaxCrashes

Init ==
    /\ clock = 0
    /\ server = [i \in Ids |-> NoThread]
    /\ rows = [i \in Ids |-> NoRow]
    /\ meta = [etag |-> None, complete |-> FALSE]
    /\ list = IdleList
    /\ late = None
    /\ enrich = IdleEnrich
    /\ mark = IdleMark
    /\ crashes = 0

-----------------------------------------------------------------------------
(* GitHub.                                                                  *)

\* Something happens in a thread, an old or a new one.
Activity(i) ==
    /\ clock < MaxClock
    /\ clock' = clock + 1
    /\ server' = [server EXCEPT ![i] = [ver |-> clock + 1, unread |-> TRUE]]
    /\ UNCHANGED <<rows, meta, list, late, enrich, mark, crashes>>

\* A thread is read elsewhere: on the web, or by another client.
ReadElsewhere(i) ==
    /\ server[i].unread
    /\ server' = [server EXCEPT ![i].unread = FALSE]
    /\ UNCHANGED <<clock, rows, meta, list, late, enrich, mark, crashes>>

Existing == {i \in Ids : server[i].ver > 0}
FirstPageIds == Newest(Existing, server, PageSize)
FirstPage == [i \in Ids |-> IF i \in FirstPageIds THEN server[i] ELSE NoThread]

-----------------------------------------------------------------------------
(* Job::sync_notifications.                                                 *)

\* The stored validators are read, and the conditional request is sent.
AskList ==
    /\ list.phase = "idle"
    /\ list' = [IdleList EXCEPT !.phase = "asked", !.sent = meta.etag]
    /\ UNCHANGED <<clock, server, rows, meta, late, enrich, mark, crashes>>

\* GitHub answers from its state now: 304 (no page) if it is what was sent.
AnswerList ==
    /\ list.phase = "asked"
    /\ list' = [list EXCEPT
                  !.phase = "answered",
                  !.page = IF FirstPage = list.sent THEN None ELSE FirstPage,
                  !.more = Existing # FirstPageIds]
    /\ UNCHANGED <<clock, server, rows, meta, late, enrich, mark, crashes>>

FailList ==
    /\ list.phase = "asked"
    /\ list' = IdleList
    /\ UNCHANGED <<clock, server, rows, meta, late, enrich, mark, crashes>>

\* Store::cancel: the task is aborted at its await, or, once the answer has
\* come, is past the last one and lands in its own time.
CancelList ==
    /\ MayCancel
    /\ \/ list.phase = "asked" /\ UNCHANGED late
       \/ /\ list.phase = "answered"
          /\ late = None
          /\ late' = [sent |-> list.sent, page |-> list.page, more |-> list.more]
    /\ list' = IdleList
    /\ UNCHANGED <<clock, server, rows, meta, enrich, mark, crashes>>

\* Mutant of RowsOf: an upsert that spares the details it finds.
RowsKeepingDetails(page) ==
    [i \in Ids |->
        IF page[i].ver = 0 THEN rows[i]
        ELSE [rows[i] EXCEPT !.ver = page[i].ver, !.unread = page[i].unread]]

\* Mutant of RowsOf: INSERT OR IGNORE.
RowsInsertedOnly(page) ==
    [i \in Ids |->
        IF page[i].ver = 0 \/ rows[i].ver > 0 THEN rows[i]
        ELSE [ver |-> page[i].ver, unread |-> page[i].unread,
              detail |-> "absent", of |-> 0]]

\* put_notifications of a page: its rows are replaced whole, with no detail
\* yet, and every other row stays.
RowsOf(page) ==
    [i \in Ids |->
        IF page[i].ver = 0 THEN rows[i]
        ELSE [ver |-> page[i].ver, unread |-> page[i].unread,
              detail |-> "absent", of |-> 0]]

\* Both arms of sync_notifications.  A 304 writes no row and stamps what was
\* sent, as complete; a page is written, then stamped.
Land(answer) ==
    IF answer.page = None
    THEN /\ meta' = [etag |-> answer.sent, complete |-> TRUE]
         /\ UNCHANGED rows
    ELSE /\ rows' = RowsOf(answer.page)
         /\ meta' = [etag |-> answer.page, complete |-> ~ answer.more]

LandList ==
    /\ list.phase = "answered"
    /\ Land(list)
    /\ list' = [IdleList EXCEPT !.phase = "landed"]
    /\ UNCHANGED <<clock, server, late, enrich, mark, crashes>>

LandLate ==
    /\ late # None
    /\ Land(late)
    /\ late' = None
    /\ UNCHANGED <<clock, server, list, enrich, mark, crashes>>

-----------------------------------------------------------------------------
(* Job::enrich, which a landed list asks for.  A request made while one is  *)
(* under way coalesces into it.                                             *)

Absent == {i \in Cached : rows[i].detail = "absent"}

\* Job::run's chained refresh: coalesced, with nothing to do, or started.
Chain ==
    /\ list.phase = "landed"
    /\ list' = IdleList
    /\ IF enrich.phase # "idle" \/ Absent = {}
       THEN UNCHANGED enrich
       ELSE enrich' = [IdleEnrich EXCEPT !.phase = "selected",
                                         !.wanted = Newest(Absent, rows, Batch)]
    /\ UNCHANGED <<clock, server, rows, meta, late, mark, crashes>>

\* A second with_cache copies the wanted rows, and the query is sent.
ReadRows ==
    /\ enrich.phase = "selected"
    /\ enrich' = [enrich EXCEPT
                    !.phase = "asked",
                    !.copy = [i \in Ids |-> IF i \in enrich.wanted THEN rows[i]
                                            ELSE NoRow]]
    /\ UNCHANGED <<clock, server, rows, meta, list, late, mark, crashes>>

\* Mutant of Enriched: what GitHub has no node for is left to be asked again.
EnrichedRetrying(i, lost) ==
    LET row == enrich.copy[i]
    IN  IF i \notin enrich.wanted \/ row.detail # "absent" \/ i \in lost THEN row
        ELSE IF i \notin Addressable THEN [row EXCEPT !.detail = "notApplicable"]
        ELSE [row EXCEPT !.detail = "ready", !.of = server[i].ver]

\* What Notifications::enrich makes of a copied row, of its subject as it is
\* now: only an absent detail is filled in, only of an addressable subject,
\* and one GitHub has no node for (lost) has failed for good.
Enriched(i, lost) ==
    LET row == enrich.copy[i]
    IN  IF i \notin enrich.wanted \/ row.detail # "absent" THEN row
        ELSE IF i \notin Addressable THEN [row EXCEPT !.detail = "notApplicable"]
        ELSE IF i \in lost THEN [row EXCEPT !.detail = "failed"]
        ELSE [row EXCEPT !.detail = "ready", !.of = server[i].ver]

AnswerEnrich ==
    /\ enrich.phase = "asked"
    /\ \E lost \in SUBSET Addressable :
          enrich' = [enrich EXCEPT !.phase = "answered",
                                   !.copy = [i \in Ids |-> Enriched(i, lost)]]
    /\ UNCHANGED <<clock, server, rows, meta, list, late, mark, crashes>>

\* The request failed: the job's rows are dropped, the cache never saw them.
\* A request is made only if some copied row is absent and addressable.
FailEnrich ==
    /\ enrich.phase = "asked"
    /\ \E i \in enrich.wanted \cap Addressable : enrich.copy[i].detail = "absent"
    /\ enrich' = IdleEnrich
    /\ UNCHANGED <<clock, server, rows, meta, list, late, mark, crashes>>

\* put_notifications of the copied rows, whole: read before the request,
\* written after it.
WriteEnriched ==
    /\ enrich.phase = "answered"
    /\ rows' = [i \in Ids |-> IF i \in enrich.wanted THEN enrich.copy[i]
                              ELSE rows[i]]
    /\ enrich' = IdleEnrich
    /\ UNCHANGED <<clock, server, meta, list, late, mark, crashes>>

-----------------------------------------------------------------------------
(* SqliteStore::set_read_state.  Only the UI calls it, and awaits it.       *)

\* The prior flags are captured and the new ones written under one lock.
MarkRead(ids) ==
    /\ mark.phase = "idle"
    /\ ids # {}
    /\ mark' = [phase |-> "sending", ids |-> ids, left |-> ids,
                prior |-> [i \in Ids |-> i \in ids /\ rows[i].unread]]
    /\ rows' = [i \in Ids |-> IF i \in ids THEN [rows[i] EXCEPT !.unread = FALSE]
                              ELSE rows[i]]
    /\ UNCHANGED <<clock, server, meta, list, late, enrich, crashes>>

\* One PATCH per thread; the last answer ends the mutation.
Patch(i) ==
    /\ i \in mark.left
    /\ server' = [server EXCEPT ![i].unread = FALSE]
    /\ mark' = IF mark.left = {i} THEN IdleMark
               ELSE [mark EXCEPT !.left = @ \ {i}]
    /\ UNCHANGED <<clock, rows, meta, list, late, enrich, crashes>>

\* Mutant of Rollback: the failed mutation is kept, to be shown.
RollbackKept ==
    /\ mark.phase = "sending"
    /\ rows' = [i \in Ids |-> IF i \in mark.ids
                              THEN [rows[i] EXCEPT !.unread = mark.prior[i]]
                              ELSE rows[i]]
    /\ mark' = [mark EXCEPT !.phase = "failed"]
    /\ UNCHANGED <<clock, server, meta, list, late, enrich, crashes>>

\* The first failing PATCH ends it too, and puts every captured flag back.
\* (One that GitHub took but whose answer was lost is a ReadElsewhere first.)
Rollback ==
    /\ mark.phase = "sending"
    /\ rows' = [i \in Ids |-> IF i \in mark.ids
                              THEN [rows[i] EXCEPT !.unread = mark.prior[i]]
                              ELSE rows[i]]
    /\ mark' = IdleMark
    /\ UNCHANGED <<clock, server, meta, list, late, enrich, crashes>>

\* mark_unread writes the cache and sends nothing.
MarkUnread(ids) ==
    /\ mark.phase = "idle"
    /\ ids # {}
    /\ rows' = [i \in Ids |-> IF i \in ids THEN [rows[i] EXCEPT !.unread = TRUE]
                              ELSE rows[i]]
    /\ UNCHANGED <<clock, server, meta, list, late, enrich, mark, crashes>>

-----------------------------------------------------------------------------
(* The program dies and is started again: what was under way is forgotten.  *)

Forgotten ==
    /\ crashes < MaxCrashes
    /\ crashes' = crashes + 1
    /\ list' = IdleList
    /\ late' = None
    /\ enrich' = IdleEnrich
    /\ mark' = IdleMark
    /\ UNCHANGED <<clock, server>>

Crash == Forgotten /\ UNCHANGED <<rows, meta>>

\* Mutant of CrashLanding: the stamp is the first of the two transactions.
CrashStamped ==
    /\ Forgotten
    /\ list.phase = "answered" /\ list.page # None
    /\ meta' = [etag |-> list.page, complete |-> ~ list.more]
    /\ UNCHANGED rows

\* A landing page is two transactions, put_notifications and put_list.
CrashLanding ==
    /\ Forgotten
    /\ list.phase = "answered" /\ list.page # None
    /\ rows' = RowsOf(list.page)
    /\ UNCHANGED meta

-----------------------------------------------------------------------------

Next ==
    \/ \E i \in Ids : Activity(i) \/ ReadElsewhere(i)
    \/ AskList \/ AnswerList \/ FailList \/ LandList \/ Chain
    \/ CancelList \/ LandLate
    \/ ReadRows \/ AnswerEnrich \/ FailEnrich \/ WriteEnriched
    \/ \E ids \in SUBSET Cached : MarkRead(ids) \/ MarkUnread(ids)
    \/ \E i \in Ids : Patch(i)
    \/ Rollback
    \/ Crash \/ CrashLanding

Spec == Init /\ [][Next]_vars

(* The poll task asks for the list for as long as the program runs, jobs    *)
(* run, and requests that keep being made do not all fail.                  *)
Fairness ==
    /\ WF_vars(AskList) /\ SF_vars(AnswerList) /\ WF_vars(LandList)
    /\ SF_vars(Chain)
    /\ WF_vars(ReadRows) /\ SF_vars(AnswerEnrich) /\ WF_vars(WriteEnriched)

FairSpec == Spec /\ Fairness

-----------------------------------------------------------------------------

(***************************************************************************)
(* A validator is never stored without the rows it stands for, in whatever *)
(* order fetches land and wherever a crash falls: a 304 answered to it may *)
(* be trusted to mean that there is something to show.                     *)
(***************************************************************************)
ValidatorImpliesRows ==
    meta.etag # None => \A i \in Ids : meta.etag[i].ver > 0 => i \in Cached

(***************************************************************************)
(* The details shown with a row were fetched for that version of it or a   *)
(* later one, though the list and the details are two requests and either  *)
(* may land on top of the other.                                           *)
(***************************************************************************)
DetailsAreOfThisRow ==
    \A i \in Ids : rows[i].detail = "ready" => rows[i].of >= rows[i].ver

(***************************************************************************)
(* The inductive invariant the proofs use.  What the cache and the jobs    *)
(* hold of a thread was GitHub's once; whatever validator a job carries,   *)
(* the cache has its rows; and the copy an enrichment works on describes   *)
(* rows that are there, with details no older than they are.               *)
(***************************************************************************)
KnownPage(page) ==
    page # None => \A i \in Ids : page[i].ver <= server[i].ver

CoveredPage(page) ==
    page # None => \A i \in Ids : page[i].ver > 0 => rows[i].ver > 0

GoodRow(i, row) ==
    /\ row.ver <= server[i].ver
    /\ row.detail = "ready" => row.of >= row.ver

PagesAreKnown ==
    /\ KnownPage(list.page) /\ CoveredPage(list.sent) /\ CoveredPage(meta.etag)
    /\ late # None => KnownPage(late.page) /\ CoveredPage(late.sent)

RowsAreGood ==
    \A i \in Ids :
        /\ server[i].ver <= clock
        /\ GoodRow(i, rows[i])
        /\ GoodRow(i, enrich.copy[i])

WantedIsCached ==
    \A i \in enrich.wanted :
        /\ rows[i].ver > 0
        /\ enrich.phase \in {"asked", "answered"} => enrich.copy[i].ver > 0

IInv == TypeOK /\ PagesAreKnown /\ RowsAreGood /\ WantedIsCached

(***************************************************************************)
(* While nothing is cancelled, a row still awaiting its details is no      *)
(* older than the validator stored beside it.                              *)
(***************************************************************************)
AbsentRowIsCurrent ==
    meta.etag # None =>
        \A i \in Cached : rows[i].detail = "absent" =>
            rows[i].ver >= meta.etag[i].ver

(***************************************************************************)
(* What its proof needs beside IInv: no answer outlives its fetch, so the  *)
(* validator a fetch carries is the one stored; what GitHub answers is no  *)
(* older than that one; and no enrichment writes back a row without its    *)
(* detail.                                                                 *)
(***************************************************************************)
FetchIsOfTheStored ==
    /\ late = None
    /\ list.phase \in {"asked", "answered"} => list.sent = meta.etag
    /\ KnownPage(meta.etag)
    /\ list.page # None /\ meta.etag # None =>
          \A i \in Ids : list.page[i].ver > 0 =>
                             list.page[i].ver >= meta.etag[i].ver

AnsweredIsDetailed ==
    enrich.phase = "answered" =>
        \A i \in enrich.wanted : enrich.copy[i].detail # "absent"

CalmInv == IInv /\ FetchIsOfTheStored /\ AnsweredIsDetailed /\ AbsentRowIsCurrent

(***************************************************************************)
(* No row awaits its details forever: a request that coalesced into an     *)
(* enrichment of older rows, one that failed, or a batch too small for the *)
(* inbox is made good by a later poll.                                     *)
(***************************************************************************)
DetailsArrive == <>[](Absent = {})

-----------------------------------------------------------------------------
(* What the repository says of this code and the code does not do.          *)

(***************************************************************************)
(* "A 304 ... means the cached copy is still correct": no cached row is    *)
(* older than the page the 304 was answered for.                           *)
(***************************************************************************)
NotModifiedIsCurrent ==
    list.phase = "answered" /\ list.page = None =>
        \A i \in Cached : rows[i].ver >= list.sent[i].ver
=============================================================================
