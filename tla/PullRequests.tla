---------------------------- MODULE PullRequests ----------------------------
(***************************************************************************)
(* The pull request surfaces (omaghy-tui, surfaces/pull_requests.rs): the  *)
(* list, with its cursor and columns, and the detail, a document built     *)
(* from a title, a description, the merged verdict of two CI systems and   *)
(* a timeline whose runs of minor events fold, scrolled in a viewport the  *)
(* last draw measured.                                                     *)
(*                                                                         *)
(* Every handled event is followed by a draw before the next (App::run),   *)
(* and the draw itself changes what the next key does: it measures, and    *)
(* clamps.  A handler and its draw are one step here.  Nothing in the      *)
(* syncer fetches a pull request; reads answer from whatever store the     *)
(* surface is given.                                                       *)
(***************************************************************************)
EXTENDS Text

CONSTANTS
    Details,   \* pull requests a detail can be read as
    Lists,     \* pages the list of a search can be read as
    Sizes,     \* terminal sizes, <<width, height>>
    MinWidth,  \* app.rs MIN_WIDTH: 40
    MinHeight, \* app.rs MIN_HEIGHT: 10
    FoldMin,   \* FOLD_MIN_RUN: 3
    Viewer,    \* the login
    Nothing,
    Unread,    \* Fresh::never: the store has not fetched it
    Missing    \* fetched, and not there

VARIABLES
    view,      \* "list" or "detail", as the route's argument said
    size,      \* of the terminal
    read,      \* ListView.page / DetailView.detail
    error,     \* what the last read failed with
    cursor,    \* ListView.cursor
    scroll,    \* DetailView.scroll
    viewport,  \* rows of the body at the last draw
    lines,     \* DetailView.lines: document lines at the last draw
    expanded,  \* folded runs are shown in full
    screen     \* what the last draw put up

vars == <<view, size, read, error, cursor, scroll, viewport, lines, expanded, screen>>

\* A refusal, a spent budget and any other failure put up a screen each, and
\* none of the three shows rows.
Errors == {"offline", "failed"}

\* The least screen holds a gutter, a cell of title and an age, between a header
\* and a footer; a repository is its owner's and has a name, in letters.
PullRequestsAssumption ==
    /\ Sizes \subseteq Nat \X Nat
    /\ {MinWidth, MinHeight, FoldMin} \subseteq Nat \ {0}
    /\ MinWidth >= 40 /\ MinHeight >= 2
    /\ Nothing \notin Errors
    /\ \A page \in Lists :
          /\ page \in Seq(Range(page))
          /\ \A pr \in Range(page) : pr.repo \in Seq(Letter) \X Seq(Letter)

-----------------------------------------------------------------------------
(* The verdict of two CI systems (omaghy-model, checks.rs).                 *)

\* CheckConclusion::signal.
ConclusionSignal ==
    [Failure |-> "failed", Cancelled |-> "failed", TimedOut |-> "failed",
     StartupFailure |-> "failed", ActionRequired |-> "failed",
     Success |-> "passed",
     Neutral |-> "skipped", Skipped |-> "skipped", Stale |-> "skipped"]

\* StatusState::signal.
StatusSignal ==
    [Failure |-> "failed", Error |-> "failed", Pending |-> "pending",
     Expected |-> "pending", Success |-> "passed"]

\* CheckRun::signal; completed without a conclusion is malformed: pending.
RunSignal(run) ==
    IF run.status = "Completed" /\ run.conclusion # Nothing
    THEN ConclusionSignal[run.conclusion] ELSE "pending"

Signals(pr) == [i \in DOMAIN pr.runs |-> RunSignal(pr.runs[i])]
               \o [i \in DOMAIN pr.statuses |-> StatusSignal[pr.statuses[i]]]

Occurrences(x, seq) == Cardinality({i \in DOMAIN seq : seq[i] = x})

\* CheckRollup::merge: any failure wins, then pending, then success.
Merge(pr) ==
    LET count == [s \in {"failed", "pending", "passed", "skipped"} |->
                     Occurrences(s, Signals(pr))]
    IN [count |-> count,
        state |-> CASE count["failed"] > 0 -> "failure"
                    [] count["failed"] = 0 /\ count["pending"] > 0 -> "pending"
                    [] count["failed"] + count["pending"] = 0 /\ count["passed"] > 0
                         -> "success"
                    [] count["failed"] + count["pending"] + count["passed"] = 0
                         /\ count["skipped"] > 0 -> "neutral"
                    [] OTHER -> "none"]

\* run_verdict: the colour of one run's line.
Verdict(run) ==
    CASE run.status = "Completed" /\ run.conclusion \in
            {"Failure", "Cancelled", "TimedOut", "StartupFailure", "ActionRequired"}
              -> "danger"
      [] run.status = "Completed" /\ run.conclusion = "Success" -> "success"
      [] run.status = "Completed" /\ run.conclusion \in {"Neutral", "Skipped", "Stale"}
              -> "muted"
      [] OTHER -> "warning"

-----------------------------------------------------------------------------
(* The timeline (omaghy-model, timeline.rs).                                *)

\* TimelineKind::is_substantive; the other kinds fold.
Substantive == {"Comment", "Review", "ReviewThread", "Merged", "Closed",
                "Reopened", "ReadyForReview", "ConvertedToDraft"}

Thread == [place: Seq(Nat), comments: Seq(Seq(Nat))]
Event == [kind: STRING, text: Seq(Seq(Nat)), threads: Seq(Thread)]

\* What GraphQL's types say of a pull request; only an event a reader would stop
\* at has prose or threads.
DetailsAssumption ==
    /\ Nothing \notin DOMAIN ConclusionSignal
    /\ Details \subseteq
          [title: Seq(Nat), labels: BOOLEAN, body: Seq(Seq(Nat)),
           runs: Seq([status: STRING,
                      conclusion: DOMAIN ConclusionSignal \cup {Nothing}]),
           statuses: Seq(DOMAIN StatusSignal),
           timeline: Seq(Event)]
    /\ \A pr \in Details : \A i \in DOMAIN pr.timeline :
          pr.timeline[i].kind \notin Substantive =>
              pr.timeline[i].text = <<>> /\ pr.timeline[i].threads = <<>>

Entry(events, folded) == [events |-> events, folded |-> folded]

\* The end of a run: folded, or left expanded when it is short.
Flush(entries, run) ==
    IF Len(run) >= FoldMin THEN Append(entries, Entry(run, TRUE))
    ELSE entries \o [k \in DOMAIN run |-> Entry(<<run[k]>>, FALSE)]

\* Substantive events come out as they are, and close the run before them.
Folding(events) ==
    FoldLeftDomain(
        LAMBDA acc, i :
            IF events[i].kind \in Substantive
            THEN [out |-> Append(Flush(acc.out, acc.run), Entry(<<i>>, FALSE)),
                  run |-> <<>>]
            ELSE [acc EXCEPT !.run = Append(@, i)],
        [out |-> <<>>, run |-> <<>>], events)

\* The run the timeline ends in is forgotten.
FoldUnfinished(events) == Folding(events).out

Fold(events) == Flush(Folding(events).out, Folding(events).run)

-----------------------------------------------------------------------------
(* The document.  A line names the part it is of, and what it shows of it.  *)

Line(part, shows) == [part |-> part, shows |-> shows]
Blank == <<Line("blank", Nothing)>>

\* wrapped: word-wrapped under an indent, never to less than one cell.
Wrapped(part, text, indent, width) ==
    LET rows == Wrap(text, Max({1, width - indent}))
    IN [k \in DOMAIN rows |-> Line(part, rows[k])]

\* markdown: paragraph breaks survive.
Prose(part, paragraphs, indent, width) ==
    FlattenSeq([k \in DOMAIN paragraphs |->
        IF paragraphs[k] = <<>> THEN Blank
        ELSE Wrapped(part, paragraphs[k], indent, width)])

Header(pr, width) ==
    Wrapped("title", pr.title, 0, width)
    \o <<Line("status", Nothing), Line("review", Nothing)>>
    \o IF pr.labels THEN <<Line("labels", Nothing)>> ELSE <<>>

\* The rollup counts the statuses too, but only the runs travel as a list.
Checks(pr) ==
    LET rollup == Merge(pr)
        total == Len(Signals(pr))
        unlisted == Max({0, total - Len(pr.runs)})
    IN IF rollup.state = "none" THEN <<>>
       ELSE <<Line("checks", rollup.count)>>
            \o [i \in DOMAIN pr.runs |-> Line("run", Verdict(pr.runs[i]))]
            \o (IF unlisted > 0 THEN <<Line("unlisted", unlisted)>> ELSE <<>>)
            \o Blank

Body(pr, width) ==
    (IF pr.body = <<>> THEN <<Line("no description", Nothing)>>
     ELSE Prose("body", pr.body, 0, width)) \o Blank

\* Doc::thread: where it is, and under it who said what.
ThreadLines(thread, width) ==
    Wrapped("place", thread.place, 2, width)
    \o FlattenSeq([k \in DOMAIN thread.comments |->
                      Wrapped("comment", thread.comments[k], 4, width)])

\* Doc::event: a headline, unless it is a thread; its prose and its threads;
\* and a blank line under every event a reader would stop at.
EventLines(events, i, width) ==
    (IF events[i].kind = "ReviewThread" THEN <<>> ELSE <<Line("event", <<i>>)>>)
    \o Prose("prose", events[i].text, 2, width)
    \o FlattenSeq([k \in DOMAIN events[i].threads |-> ThreadLines(events[i].threads[k], width)])
    \o (IF events[i].kind \in Substantive THEN Blank ELSE <<>>)

Timeline(events, width, all) ==
    LET entries == IF all THEN [i \in DOMAIN events |-> Entry(<<i>>, FALSE)]
                   ELSE Fold(events)
    IN IF events = <<>> THEN <<Line("no events", Nothing)>>
       ELSE FlattenSeq([k \in DOMAIN entries |->
                IF entries[k].folded THEN <<Line("event", entries[k].events)>>
                ELSE EventLines(events, entries[k].events[1], width)])

Document(pr, width, all) ==
    Header(pr, width) \o Blank \o Checks(pr) \o Body(pr, width)
    \o Timeline(pr.timeline, width, all)

-----------------------------------------------------------------------------
(* Drawing.                                                                 *)

Items(page) == IF view = "list"
               THEN IF page \in {Nothing, Unread} THEN 0 ELSE Len(page)
               ELSE IF page \in {Nothing, Unread, Missing} THEN 0 ELSE 1

\* classify; "rows" stands for the four states with rows and no banner.
State(page, failure) ==
    CASE failure = "offline" -> IF Items(page) > 0 THEN "offline-with-cache"
                                ELSE "offline-without-cache"
      [] failure \in Errors \ {"offline"} -> failure
      [] failure = Nothing /\ Items(page) > 0 -> "rows"
      [] OTHER -> IF page \in {Nothing, Unread} THEN "cold" ELSE "empty"

\* What StateView leaves for rows: the offline banner takes one.
RowsIn(state, height) ==
    CASE state = "rows" -> height
      [] state = "offline-with-cache" -> Max({0, height - 1})
      [] OTHER -> -1

BigEnough(s) == s[1] >= MinWidth /\ s[2] >= MinHeight

\* Between the header and the footer.
BodyHeight(s) == s[2] - 2

\* scroll_by.
Scrolled(from, delta, len, rows) ==
    Max({0, Min({from + delta, Max({0, len - rows})})})

\* RowList::columns: the repository goes when every row shares one.
SharedRepo(rows) == Len(rows) >= 2 /\ \A i \in DOMAIN rows : rows[i].repo = rows[1].repo
ColumnsFor(rows, width) ==
    ForWidth(width) \ (IF SharedRepo(rows) THEN {"Repo"} ELSE {})

\* ListView::shared_repo, for the title: what the rows no longer say.  A list
\* that was asked for by its repository has it in the title as it is.
TitleRepo(rows) == IF SharedRepo(rows) THEN rows[1].repo ELSE Nothing

\* display_status: draft means something while open.
DisplayStatus(pr) == IF pr.state = "open" /\ pr.draft THEN "draft" ELSE pr.state

\* ReviewSummary::awaits_me.
AwaitsMe(pr) == pr.requested /\ pr.mine \notin {"approved", "changes requested"}

\* checks_cell: without CI there is none.
ChecksCell(checks) ==
    LET total == checks.passed + checks.failed + checks.pending + checks.skipped IN
    CASE checks.state = "none"    -> Nothing
      [] checks.state = "success" -> <<checks.state, checks.passed>>
      [] checks.state = "failure" -> <<checks.state, checks.failed, total>>
      [] checks.state = "pending" -> <<checks.state, checks.pending>>
      [] checks.state = "neutral" -> <<checks.state, total>>

\* elide_owner: the viewer's own name goes.
RepoText(pr) == IF pr.repo[1] = Viewer THEN <<pr.repo[2]>> ELSE pr.repo

\* row_of and row_line: bold, and what each column has in it.
RowOf(pr, columns) ==
    [c \in columns \cup {"Bold"} |->
        CASE c = "Bold"   -> AwaitsMe(pr)
          [] c = "Icon"   -> DisplayStatus(pr)
          [] c = "Repo"   -> FitRepo(RepoText(pr), ColumnWidth["Repo"])
          [] c = "Number" -> pr.number
          [] c = "State"  -> DisplayStatus(pr)
          [] c = "Checks" -> ChecksCell(pr.checks)
          [] c \in {"Title", "Actor", "Age"} -> Nothing]

\* review_phrase: what is asked of the viewer, then what the viewer said,
\* then what was decided.  Its cells are counted, its words are not spelled.
ReviewPhrase(pr) ==
    CASE AwaitsMe(pr) -> [part |-> "needs your review", cells |-> 17]
      [] ~AwaitsMe(pr) /\ pr.mine = "changes requested" ->
            [part |-> "you requested changes", cells |-> 21]
      [] pr.mine = "approved" -> [part |-> "you approved", cells |-> 12]
      [] OTHER -> CASE pr.decision = Nothing -> [part |-> "no review", cells |-> 9]
                    [] pr.decision = "review required" ->
                          [part |-> pr.decision, cells |-> 15]
                    [] pr.decision = "approved" -> [part |-> pr.decision, cells |-> 8]
                    [] pr.decision = "changes requested" ->
                          [part |-> pr.decision, cells |-> 17]

\* The repository, the author, the churn, the files and the age, each of them
\* at its longest in this instance.
About == <<[part |-> "repository", cells |-> 40], [part |-> "author", cells |-> 12],
           [part |-> "churn", cells |-> 11], [part |-> "files", cells |-> 8],
           [part |-> "age", cells |-> 3]>>

\* A number is a sign and a 32-bit integer; a decision is what GraphQL has a
\* word for, or there is none.
FocusAssumption ==
    \A page \in Lists : \A pr \in Range(page) :
        /\ pr.number \in 0 .. 12
        /\ pr.decision \in {"review required", "approved", "changes requested", Nothing}

\* focus_line: in this order.
FocusParts(pr) ==
    <<[part |-> "number", cells |-> pr.number], ReviewPhrase(pr)>>
    \o (IF pr.conflicting THEN <<[part |-> "conflicts", cells |-> 9]>> ELSE <<>>)
    \o About

\* elide: cut from the right, with an ellipsis in the last cell.  The parts
\* that come through whole; a separator takes three cells.
FocusLine(pr, width) ==
    LET parts == FocusParts(pr)
        upTo(n) == Total([k \in 1 .. n |-> parts[k].cells + 3]) - 3
        budget == width - 3
    IN SubSeq(parts, 1, Max({n \in 0 .. Len(parts) :
                                upTo(n) <= budget - (IF n < Len(parts) THEN 1 ELSE 0)}))

\* A draw that trusts the scroll it was left with.
DrawDetailAsIs(pr, state, s, from, all) ==
    \E doc \in {Document(pr, s[1], all)} :
       /\ lines' = Len(doc)
       /\ viewport' = RowsIn(state, BodyHeight(s))
       /\ scroll' = from
       /\ screen' = [kind |-> "document", doc |-> doc, top |-> scroll']

\* DetailView::render.
DrawDetail(pr, state, s, from, all) ==
    \E doc \in {Document(pr, s[1], all)} :
       /\ lines' = Len(doc)
       /\ viewport' = RowsIn(state, BodyHeight(s))
       /\ scroll' = Scrolled(from, 0, lines', viewport')
       /\ screen' = [kind |-> "document", doc |-> doc, top |-> scroll']

\* ListView::render: a line about the focused row when there is room.
DrawList(rows, state, s) ==
    LET focus == IF BodyHeight(s) >= 6 THEN 1 ELSE 0
        columns == ColumnsFor(rows, s[1])
    IN /\ viewport' = BodyHeight(s) - focus
       /\ screen' = IF RowsIn(state, viewport') >= 0
                    THEN [kind    |-> "list",
                          columns |-> columns,
                          repo    |-> TitleRepo(rows),
                          rows    |-> [i \in DOMAIN rows |-> RowOf(rows[i], columns)],
                          focus   |-> IF focus = 1 /\ cursor' < Len(rows)
                                      THEN FocusLine(rows[cursor' + 1], s[1]) ELSE Nothing,
                          cursor  |-> cursor']
                    ELSE [kind |-> state]
       /\ UNCHANGED <<scroll, lines>>

\* App::render, and the surface's, with the scroll the handler has left.
\* Without rows the detail measures nothing, and keeps its last measures.
Draw(from) ==
    LET state == State(read', error') IN
    IF ~BigEnough(size')
    THEN /\ screen' = [kind |-> "too-small"]
         /\ scroll' = from
         /\ UNCHANGED <<viewport, lines>>
    ELSE IF view = "list"
    THEN DrawList(IF Items(read') > 0 THEN read' ELSE <<>>, state, size')
    ELSE IF RowsIn(state, BodyHeight(size')) >= 0
    THEN DrawDetail(read', state, size', from, expanded')
    ELSE /\ screen' = [kind |-> state]
         /\ scroll' = from
         /\ UNCHANGED <<viewport, lines>>

-----------------------------------------------------------------------------

Init ==
    /\ view \in {"list", "detail"}
    /\ size \in Sizes
    /\ read = Nothing /\ error = Nothing
    /\ cursor = 0 /\ scroll = 0 /\ viewport = 0 /\ lines = 0
    /\ expanded = FALSE
    /\ screen = [kind |-> "cold"]

\* move_cursor, over the rows of `page`.
Moved(from, delta, page) ==
    IF Items(page) = 0 THEN 0
    ELSE Max({0, Min({from + delta, Items(page) - 1})})

\* load: what the store answers, or why it does not; a failed read keeps
\* the page.
Load ==
    /\ \/ /\ read' \in {Unread} \cup (IF view = "list" THEN Lists
                                      ELSE Details \cup {Missing})
          /\ error' = Nothing
       \/ /\ error' \in Errors
          /\ UNCHANGED read
    /\ cursor' = Moved(cursor, 0, read')
    /\ UNCHANGED <<view, size, expanded>>
    /\ Draw(scroll)

HalfPage == Max({viewport \div 2, 1})

Moves == {1, -1, HalfPage, -HalfPage}

\* j, k, Ctrl-d, Ctrl-u, g and G on the list.
MoveKey ==
    /\ view = "list"
    /\ cursor' \in {Moved(cursor, d, read) : d \in Moves}
                   \cup {Moved(0, 0, read), Moved(Items(read), 0, read)}
    /\ UNCHANGED <<view, size, read, error, expanded>>
    /\ Draw(scroll)

\* The same keys on the detail, against the last measures.
ScrollKey ==
    /\ view = "detail"
    /\ UNCHANGED <<view, size, read, error, cursor, expanded>>
    /\ \E to \in {Scrolled(scroll, d, lines, viewport) : d \in Moves}
                 \cup {0, Scrolled(lines, 0, lines, viewport)} : Draw(to)

\* `x`.
ExpandKey ==
    /\ view = "detail"
    /\ expanded' = ~expanded
    /\ UNCHANGED <<view, size, read, error, cursor>>
    /\ Draw(scroll)

Resize ==
    /\ size' \in Sizes \ {size}
    /\ UNCHANGED <<view, read, error, cursor, expanded>>
    /\ Draw(scroll)

Next == Load \/ MoveKey \/ ScrollKey \/ ExpandKey \/ Resize

Spec == Init /\ [][Next]_vars

-----------------------------------------------------------------------------
(* Safety.                                                                  *)

\* What is on the screen fills it: a document is never scrolled past the
\* last page of what it now is, in the terminal as it now is, a cursor is on
\* a row, and a row is exactly as wide as the screen (one cell more wraps,
\* and a wrapped row halves the list).  Documents shrink under the scroll by
\* a reload, by `x`, and by a wider terminal.
DrawnFits ==
    /\ screen.kind = "document" =>
          /\ screen.top + Min({viewport, Len(screen.doc)}) <= Len(screen.doc)
          /\ viewport <= BodyHeight(size)
    /\ screen.kind = "list" =>
          /\ screen.cursor < Len(read)
          /\ RowWidth(screen.columns, size[1]) = size[1]

\* What the lines of these parts show, in order.
Shown(doc, parts) ==
    FlattenSeq([k \in DOMAIN doc |->
        IF doc[k].part \in parts THEN <<doc[k].shows>> ELSE <<>>])

Colour == [failed |-> "danger", pending |-> "warning", passed |-> "success",
           skipped |-> "muted"]

ChecksAddUp(doc, pr) ==
    LET runs == Shown(doc, {"run"})
        unlisted == Shown(doc, {"unlisted"})
        head == Shown(doc, {"checks"})
    IN /\ Len(runs) + (IF unlisted = <<>> THEN 0 ELSE unlisted[1])
             = Len(pr.runs) + Len(pr.statuses)
       /\ head # <<>> => \A s \in DOMAIN Colour :
             /\ Occurrences(Colour[s], runs) <= head[1][s]
             /\ unlisted = <<>> => Occurrences(Colour[s], runs) = head[1][s]

ThreadTexts(thread) ==
    <<<<thread.place, 2>>>>
    \o [k \in DOMAIN thread.comments |-> <<thread.comments[k], 4>>]

EventTexts(event) ==
    [k \in DOMAIN event.text |-> <<event.text[k], 2>>]
    \o FlattenSeq([k \in DOMAIN event.threads |-> ThreadTexts(event.threads[k])])

\* The texts of a pull request, each with its indent.
TextsOf(pr) ==
    <<<<pr.title, 0>>>>
    \o [k \in DOMAIN pr.body |-> <<pr.body[k], 0>>]
    \o FlattenSeq([i \in DOMAIN pr.timeline |-> EventTexts(pr.timeline[i])])

TextShown(doc) == FlattenSeq(Shown(doc, {"title", "body", "prose", "place", "comment"}))

\* The document shows the whole pull request: every event once and in order,
\* alone or in a folded run; every word of every text within the width; and
\* verdicts that add up: each run on a line of the colour it is counted
\* under, and what is counted is what is listed or owned up to as unlisted.
DocumentIsComplete ==
    screen.kind = "document" =>
        /\ FlattenSeq(Shown(screen.doc, {"event"})) =
              FlattenSeq([i \in DOMAIN read.timeline |->
                  IF read.timeline[i].kind = "ReviewThread" THEN <<>> ELSE <<i>>])
        /\ ChecksAddUp(screen.doc, read)
        /\ LET texts == TextsOf(read)
           IN /\ CellsOf(TextShown(screen.doc))
                    = Total(FlattenSeq([k \in DOMAIN texts |-> texts[k][1]]))
              /\ \A t \in Range(texts) : WrapsWhole(t[1], size[1] - t[2])

\* Of one repository, or of two that the column cuts and whose names begin alike.
SameRepo(a, b) ==
    \/ a.repo = b.repo
    \/ /\ \A pr \in {a, b} : ~RepoFits(RepoText(pr), ColumnWidth["Repo"])
       /\ SameStart(a.repo[2], b.repo[2], ColumnWidth["Repo"] - 3)

\* Rows of a list that look alike are alike, as far as anybody picks a row by
\* and the column has room for it, and a repository the rows no longer say is
\* that of every row and is in the title.
RowsAreToldApart ==
    screen.kind = "list" /\ size[1] >= 80 =>
        /\ \A i, j \in DOMAIN screen.rows :
              screen.rows[i] = screen.rows[j] =>
                  /\ SameRepo(read[i], read[j])
                  /\ DisplayStatus(read[i]) = DisplayStatus(read[j])
                  /\ AwaitsMe(read[i]) = AwaitsMe(read[j])
        /\ "Repo" \notin screen.columns =>
              \A i \in DOMAIN read : read[i].repo = screen.repo

\* Whatever its repository is called, the line about the focused row says what
\* is asked of the reader, and in a terminal of 80 columns that it conflicts.
FocusIsTold ==
    screen.kind = "list" /\ screen.focus # Nothing =>
        LET pr == read[screen.cursor + 1] IN
        /\ Contains(screen.focus, ReviewPhrase(pr))
        /\ size[1] >= 80 /\ pr.conflicting =>
              \E k \in DOMAIN screen.focus : screen.focus[k].part = "conflicts"
=============================================================================
