---------------------------- MODULE InboxScreen -----------------------------
(***************************************************************************)
(* What the notifications surface draws (omaghy-tui,                       *)
(* surfaces/notifications.rs): one or two lines to a row, headers between  *)
(* groups, columns that go when the terminal narrows or nothing is in      *)
(* them, a reason told by a glyph, by a word or not at all, a repository   *)
(* told once for all rows that share it, the line about the focused row,   *)
(* and the screen that is put up when there are no rows.                   *)
(*                                                                         *)
(* A handler and the draw that follows it are one step: the draw leaves    *)
(* behind how far the list is scrolled.  Which toggles are sent, and how   *)
(* grouping and sinking order rows that move, is Triage.tla's.  A text is  *)
(* what it says, and its width where one decides what else is drawn.       *)
(***************************************************************************)
EXTENDS Text, Ordering

CONSTANTS
    Inboxes,    \* pages a read can bring: sequences of notifications
    Looks,      \* the Variants the settings panel can hand over
    Sizes,      \* terminal sizes, <<width, height>>
    Spelling,   \* the cells of the words for a reason, a kind and a status
    MinWidth,   \* app.rs MIN_WIDTH: 40
    MinHeight,  \* app.rs MIN_HEIGHT: 10
    Viewer,
    Nothing

VARIABLES
    inbox,   \* Notifications.page: its items, or Nothing
    filter,  \* Notifications.query
    look,    \* Notifications.variants
    size,    \* of the terminal
    error,   \* what the last read failed with
    cursor,  \* index into the displayed rows, from 0
    offset   \* ListState.offset: entries scrolled past

vars == <<inbox, filter, look, size, error, cursor, offset>>

Filters == [repo: {n.repo : n \in UNION {Range(p) : p \in Inboxes}} \cup {Nothing},
            unreadOnly: BOOLEAN]
Unfiltered == [repo |-> Nothing, unreadOnly |-> FALSE]

\* Of the six switches Variants has, each on what it decides.
InboxScreenAssumption ==
    /\ Looks \subseteq [reason: {"glyph", "text", "none"},
                        repo: {"full", "elide-owner", "hide-when-shared"},
                        width: {"auto", "narrow", "wide"},
                        rows: {"one-line", "two-line"},
                        triage: {"grey", "hide", "sink"},
                        group: {"flat", "by-repo"}]
    /\ Sizes \subseteq Nat \X Nat
    /\ {MinWidth, MinHeight} \subseteq Nat
    /\ MinHeight >= 5
    /\ Nothing \notin Nat
    /\ \A s \in Sizes : s[1] >= MinWidth /\ s[2] >= MinHeight
    /\ \A page \in Inboxes : page \in Seq(Range(page))

\* WidthMode::resolve.
Resolved(width, available) ==
    CASE width = "auto"   -> available
      [] width = "narrow" -> Min({available, 70})
      [] width = "wide"   -> Min({available, 120})

-----------------------------------------------------------------------------
(* Entries: rows by their place in the page, and the headers of groups.     *)

Items == IF inbox = Nothing THEN <<>> ELSE inbox

Header(repo, count) == [header |-> TRUE, repo |-> repo, count |-> count]
Row(i) == [header |-> FALSE, index |-> i]

\* ordered: read rows stay, leave, or sink below every unread one.
Earlier(i, j) ==
    IF look.triage = "sink" /\ Items[i].unread # Items[j].unread
    THEN Items[i].unread ELSE i < j

OrderedOf(shown) == Sorted(shown, {r \in shown \X shown : Earlier(r[1], r[2])})

Shown == {i \in DOMAIN Items : look.triage = "hide" => Items[i].unread}
Ordered == The({OrderedOf(shown) : shown \in {Shown}})

\* An entry of a group: a place in the order, after the place where the first
\* row of its repository is.  The header comes before all of them, at 0.
Places(ordered) ==
    LET RepoAt(k) == Items[ordered[k]].repo
    IN {p \in (1 .. Len(ordered)) \X (0 .. Len(ordered)) :
           /\ \A m \in 1 .. p[1] - 1 : RepoAt(m) # RepoAt(p[1])
           /\ p[2] # 0 => RepoAt(p[2]) = RepoAt(p[1])}

InPlace(places) ==
    Sorted(places, {r \in places \X places : \/ r[1][1] < r[2][1]
                                             \/ r[1][1] = r[2][1] /\ r[1][2] < r[2][2]})

EntryAt(p, ordered, places) ==
    IF p[2] # 0 THEN Row(ordered[p[2]])
    ELSE Header(Items[ordered[p[1]]].repo, Cardinality({q \in places : q[1] = p[1]}) - 1)

\* Groups in the order their first row comes, under a header each.
GroupedAt(ordered, places) ==
    The({[n \in DOMAIN order |-> EntryAt(order[n], ordered, places)] :
         order \in {InPlace(places)}})
Grouped(ordered) == The({GroupedAt(ordered, places) : places \in {Places(ordered)}})

\* entries.
EntriesOf(ordered) ==
    IF look.group = "flat" THEN [k \in DOMAIN ordered |-> Row(ordered[k])]
    ELSE Grouped(ordered)

Entries == The({EntriesOf(ordered) : ordered \in {Ordered}})

\* display_order: the entries without the headers, as the cursor walks them.
Rows == Cardinality(Shown)
RowsOf(entries) == {k \in DOMAIN entries : ~entries[k].header}

\* focused: of the rows, the one that as many come before as the cursor counts.
FocusedIn(entries) ==
    LET rows == RowsOf(entries)
        at == {k \in rows : Cardinality({m \in rows : m < k}) = cursor}
    IN IF at = {} THEN Nothing ELSE entries[The(at)].index

Focused == The({FocusedIn(entries) : entries \in {Entries}})

-----------------------------------------------------------------------------
(* What a row says.                                                         *)

\* A cell of the state column: a glyph, and a word for it.
Cell(icon, text) == [icon |-> icon, text |-> text]

\* status_cell: the closures that are no completion share a glyph.
StatusCell(status) ==
    IF status \in {"not planned", "duplicate"} THEN Cell("closed, not done", status)
    ELSE Cell(status, status)

KindCell(kind) == Cell(kind, kind)

HasStatus(n) == n.detail # Nothing /\ n.detail.status # Nothing

\* What rows are made of: a repository is its owner's and has a name, in
\* letters, and a status that is said is not nothing.
IsNotification(n) ==
    /\ {"unread", "repo", "detail"} \subseteq DOMAIN n
    /\ n.unread \in BOOLEAN
    /\ n.repo = [owner |-> n.repo.owner, name |-> n.repo.name]
    /\ {n.repo.owner, n.repo.name} \subseteq Seq(Letter)
    /\ HasStatus(n) => StatusCell(n.detail.status) # Nothing

NotificationsAssumption ==
    \A page \in Inboxes : \A n \in Range(page) : IsNotification(n)

\* checks_cell: a roll-up whose runs were not fetched has a glyph and no
\* number.
ChecksCell(checks) ==
    LET total == checks.passed + checks.failed + checks.pending + checks.skipped
        Count(n) == IF n = 0 THEN <<>> ELSE <<n>>
    IN Cell(checks.state,
            CASE checks.state = "success" -> Count(checks.passed)
              [] checks.state = "pending" -> Count(checks.pending)
              [] checks.state = "neutral" -> Count(total)
              [] checks.state = "failure" -> IF total = 0 THEN <<>> ELSE <<checks.failed, total>>)

\* row_of: with glyphs the reason leads and the state column is the subject's;
\* with words they swap; or there is no reason, and no state.
RowOf(n) ==
    [icon   |-> IF look.reason = "glyph" THEN n.reason ELSE n.kind,
     unread |-> n.unread,
     title  |-> n.title,
     state  |-> CASE look.reason = "glyph" -> IF HasStatus(n) THEN StatusCell(n.detail.status)
                                              ELSE KindCell(n.kind)
                  [] look.reason = "text"  -> Cell(n.reason, n.reason)
                  [] look.reason = "none"  -> Nothing,
     number |-> n.number,
     checks |-> IF n.detail # Nothing /\ n.detail.checks # Nothing
                THEN ChecksCell(n.detail.checks) ELSE Nothing,
     actor  |-> IF n.detail # Nothing THEN n.detail.actor ELSE Nothing]

\* repo_text: the viewer's own name can go.
RepoText(n) ==
    IF look.repo # "full" /\ n.repo.owner = Viewer THEN <<n.repo.name>>
    ELSE <<n.repo.owner, n.repo.name>>

\* elided_repo: the repository all of two rows or more share.
ElidedRepo ==
    LET ordered == Ordered IN
    IF /\ look.repo = "hide-when-shared"
       /\ Len(ordered) >= 2
       /\ \A k \in DOMAIN ordered : Items[ordered[k]].repo = Items[ordered[1]].repo
    THEN Items[ordered[1]].repo ELSE Nothing

RepoIsRedundant == look.group = "by-repo" \/ ElidedRepo # Nothing

\* columns: those of the width, less what no row has.
ColumnsOf(width) ==
    LET rows == {RowOf(Items[i]) : i \in Range(Ordered)} IN
    ForWidth(width)
    \ ((IF \A r \in rows : r.checks = Nothing THEN {"Checks"} ELSE {})
       \cup (IF \A r \in rows : r.actor = Nothing THEN {"Actor"} ELSE {})
       \cup (IF look.reason = "none" THEN {"State"} ELSE {})
       \cup (IF RepoIsRedundant THEN {"Repo"} ELSE {}))

\* row_line, what each column drawn has in it.  A state's words are cut at six
\* cells, where those of a status still differ.
OneLine(n, columns) ==
    LET row == RowOf(n) IN
    <<[c \in columns \cup {"Unread"} |->
        CASE c = "Unread" -> row.unread
          [] c = "Icon"   -> row.icon
          [] c = "Title"  -> row.title
          [] c = "Repo"   -> FitRepo(RepoText(n), ColumnWidth["Repo"])
          [] c = "Number" -> row.number
          [] c = "State"  -> row.state
          [] c = "Checks" -> row.checks
          [] c = "Actor"  -> row.actor
          [] c = "Age"    -> Nothing]>>

Part(says, cells) == [says |-> says, cells |-> cells]

\* The parts every second line has: the repository unless it is told elsewhere,
\* the reason, and what the subject is.
SubjectParts(n) ==
    LET repo == RepoText(n)
        number == IF n.number = Nothing THEN 0 ELSE Digits(n.number) + 2
        parts == <<Part(<<"reason", n.reason>>, Spelling[n.reason]),
                   Part(<<"subject", n.kind, n.number>>, Spelling[n.kind] + number)>>
    IN IF RepoIsRedundant THEN parts
       ELSE <<Part(<<"repo", repo>>, RepoCells(repo))>> \o parts

StatePart(n) ==
    LET state == RowOf(n).state
    IN IF n.detail = Nothing \/ state = Nothing THEN <<>>
       ELSE <<Part(<<"state", state.text>>, Spelling[state.text])>>

ChecksPart(n) ==
    LET checks == RowOf(n).checks
        Count == checks.text
    IN IF checks = Nothing \/ Count = <<>> THEN <<>>
       ELSE <<Part(<<"checks">> \o Count,
                   6 + Total([k \in DOMAIN Count |-> Digits(Count[k]) + 1]))>>

\* And a state and checks, of a subject whose details have come.
SecondLine(n) == SubjectParts(n) \o (StatePart(n) \o ChecksPart(n))

FirstLine(row) == [unread |-> row.unread, icon |-> row.icon, title |-> row.title]
Indent == 5

\* two_line, with a second line of repository, reason and number only.
TwoLineBare(n, width) ==
    <<FirstLine(RowOf(n)), WholeParts(SubjectParts(n), width - Indent)>>

\* two_line: the second line is cut where the screen ends.
TwoLine(n, width) ==
    <<FirstLine(RowOf(n)), WholeParts(SecondLine(n), width - Indent)>>

LinesOf(n, width) ==
    IF look.rows = "one-line" THEN OneLine(n, ColumnsOf(width)) ELSE TwoLine(n, width)

-----------------------------------------------------------------------------
(* The screen.                                                              *)

BodyHeight == size[2] - 2
DetailHeight == IF BodyHeight >= 6 THEN 1 ELSE 0
Viewport == BodyHeight - DetailHeight
Width == Resolved(look.width, size[1])

\* filter_label, every narrowing in force.
Narrowings ==
    (IF filter.repo # Nothing THEN {"repository"} ELSE {})
    \cup (IF filter.unreadOnly THEN {"unread only"} ELSE {})
    \cup (IF look.triage = "hide" THEN {"read hidden"} ELSE {})

\* clear_filter_hint.
ClearHint ==
    CASE filter.repo # Nothing -> "/"
      [] filter.repo = Nothing /\ filter.unreadOnly -> "u"
      [] OTHER -> "m"

\* classify, for this surface: what the page still shows, or why nothing.
State ==
    LET visible == Rows IN
    CASE error = "offline" /\ visible > 0 -> "offline-with-cache"
      [] error = "offline" /\ visible = 0 -> "offline-without-cache"
      [] error \notin {"offline", Nothing} -> error
      [] error = Nothing /\ visible > 0 -> "rows"
      [] OTHER -> IF inbox = Nothing THEN "cold"
                  ELSE IF Narrowings # {} THEN "filtered-empty" ELSE "empty"

HasContent == State \in {"rows", "offline-with-cache"}

\* The offline banner takes a line.
ListHeight == IF State = "rows" THEN Viewport ELSE Viewport - 1

\* The entry the cursor is on if headers were walked like rows.
SelectedAsCounted == IF cursor < Len(Entries) THEN cursor + 1 ELSE Nothing

\* The entry the cursor is on, which counts rows only.
Selected ==
    The({IF focused = Nothing THEN Nothing
         ELSE CHOOSE k \in DOMAIN entries : entries[k] = Row(focused) :
         entries \in {Entries}, focused \in {Focused}})

\* RowHeight::lines.
Tall == IF look.rows = "one-line" THEN 1 ELSE 2

\* Lines of the entries from one to another; a header takes one.
LinesFrom(entries, from, to, tall) ==
    LET headers == Cardinality({k \in from .. to : entries[k].header})
    IN headers + (to - from + 1 - headers) * tall

\* ratatui's List: scrolled as little as brings the selected entry in, whole;
\* with none selected it starts over.
Scrolled(entries, selected, height, tall, from) ==
    LET start == Min({from, Len(entries) - 1}) IN
    CASE selected = Nothing -> 0
      [] selected # Nothing /\ selected <= start -> selected - 1
      [] OTHER -> Min({s \in start .. selected - 1 :
                          LinesFrom(entries, s + 1, selected, tall) <= height})

\* The entries a frame has room for, once scrolled.
OnScreen ==
    LET entries == Entries
        height == ListHeight
    IN {k \in offset + 1 .. Len(entries) : LinesFrom(entries, offset + 1, k, Tall) <= height}

\* With no rows to draw the list keeps its scroll.
Draw ==
    \E entries \in {Entries'}, selected \in {Selected'}, height \in {ListHeight'}, tall \in {Tall'} :
       offset' = IF HasContent' THEN Scrolled(entries, selected, height, tall, offset)
                 ELSE offset

\* render_detail: about the focused row, or what the screen is.
DetailLine ==
    IF HasContent /\ Focused # Nothing
    THEN LET n == Items[Focused] IN
         [reason |-> n.reason, kind |-> n.kind, number |-> n.number, repo |-> n.repo,
          awaiting |-> n.detail = Nothing]
    ELSE [summary |-> State]

\* title: the counts, the shared repository, the filter.
Title ==
    [unread |-> Cardinality({i \in DOMAIN Items : Items[i].unread}), total |-> Len(Items),
     repo |-> ElidedRepo, filter |-> Narrowings]

-----------------------------------------------------------------------------
(* Keys and reads.                                                          *)

\* move_cursor.
Moved(from, delta) == IF Rows = 0 THEN 0 ELSE Max({0, Min({from + delta, Rows - 1})})
HalfPage == Max({1, Max({1, Viewport \div Tall}) \div 2})

InboxInit ==
    /\ inbox = Nothing
    /\ filter = Unfiltered
    /\ look \in Looks
    /\ size \in Sizes
    /\ error = Nothing
    /\ cursor = 0
    /\ offset = 0

\* load: a read that fails keeps the page.
Load ==
    /\ \/ /\ \E page \in Inboxes :
                inbox' = Those(page, {i \in DOMAIN page :
                                         /\ filter.repo \in {Nothing, page[i].repo}
                                         /\ filter.unreadOnly => page[i].unread})
          /\ error' = Nothing
       \/ /\ error' \in {"offline", "failed"}
          /\ UNCHANGED inbox
    /\ UNCHANGED <<filter, look, size>>
    /\ cursor' = Min({cursor, Max({0, Rows' - 1})})
    /\ Draw

\* j, k, Ctrl-d, Ctrl-u, Home, G.
MoveKey ==
    /\ cursor' \in {Moved(cursor, d) : d \in {1, -1, HalfPage, -HalfPage, Len(Items)}} \cup {0}
    /\ UNCHANGED <<inbox, filter, look, size, error>>
    /\ Draw

\* Enter: toggle_read.
ToggleRead ==
    /\ Focused # Nothing
    /\ inbox' = [inbox EXCEPT ![Focused].unread = ~@]
    /\ UNCHANGED <<filter, look, size, error>>
    /\ cursor' = Min({cursor, Max({0, Rows' - 1})})
    /\ Draw

\* `u` and `/`: what is read next time.
FilterKey ==
    /\ \/ filter' = [filter EXCEPT !.unreadOnly = ~@]
       \/ filter' = [filter EXCEPT !.repo =
                        IF @ # Nothing \/ Focused = Nothing THEN Nothing
                        ELSE Items[Focused].repo]
    /\ cursor' = 0
    /\ UNCHANGED <<inbox, look, size, error>>
    /\ Draw

\* reconfigure: the settings panel's change, and the frame behind it.
Reconfigure ==
    /\ look' \in Looks \ {look}
    /\ UNCHANGED <<inbox, filter, size, error, cursor>>
    /\ Draw

Resize ==
    /\ size' \in Sizes \ {size}
    /\ UNCHANGED <<inbox, filter, look, error, cursor>>
    /\ Draw

InboxNext == Load \/ MoveKey \/ ToggleRead \/ FilterKey \/ Reconfigure \/ Resize

InboxSpec == InboxInit /\ [][InboxNext]_vars

-----------------------------------------------------------------------------
(* Properties.                                                              *)

\* What Enter marks and `o` opens is what the reader is looking at: the row
\* the cursor is on is drawn, whole, wherever headers stand, however tall
\* rows are, and whatever a reload, a resize, a toggle or the settings did to
\* the list under the scroll.
FocusIsDrawn ==
    HasContent /\ Focused # Nothing =>
        /\ Selected \in OnScreen
        /\ Entries[Selected] = Row(Focused)

\* header_line, of the group a row is in: its label and its count.  A label
\* that is cut says nothing.
GroupOf(n) == {i \in Range(Ordered) : Items[i].repo = n.repo}
LabelRoom(n) == Width - 7 - Digits(Cardinality(GroupOf(n)))
LabelFits(n) == RepoFits(<<n.repo.owner, n.repo.name>>, LabelRoom(n))
HeaderLine(n) == [label |-> IF LabelFits(n) THEN <<n.repo>> ELSE <<>>,
                  count |-> Cardinality(GroupOf(n))]

\* What the screen says of a row that it does not say of every row: its lines,
\* and the header it stands under.
Said(i) == <<LinesOf(Items[i], Width),
             IF look.group = "by-repo" THEN HeaderLine(Items[i]) ELSE Nothing>>
AllSaid == {<<Items[i], Said(i)>> : i \in Range(Ordered)}

\* Wide enough that no column a row needs is dropped.
Roomy == Width >= 80

\* The place that tells a repository is too narrow for it: a header, a column,
\* or a second line.
RepoIsCut(n) ==
    CASE look.group = "by-repo" -> ~LabelFits(n)
      [] look.group = "flat" /\ look.rows = "one-line" ->
            ~RepoFits(RepoText(n), ColumnWidth["Repo"])
      [] OTHER -> IsCut(SecondLine(n), 1, Width - Indent)

\* The second line ends before the state, the part after the subject's.
StateIsCut(n) ==
    /\ look.rows = "two-line"
    /\ IsCut(SecondLine(n), Len(SubjectParts(n)) + 1, Width - Indent)

\* Of one repository as far as anybody can tell who reads the names of those
\* that are cut: a column spends the owner before it spends the name.
SameRepo(a, b) ==
    \/ a.repo = b.repo
    \/ /\ RepoIsCut(a) /\ RepoIsCut(b)
       /\ look.group = "flat" /\ look.rows = "one-line" =>
             SameStart(a.repo.name, b.repo.name, ColumnWidth["Repo"] - 3)

\* Rows that look alike are alike, as far as there is room to say it: both are
\* read or unread, a repository that is told once is that of every row, and a
\* merged pull request does not read like an open one.
RowsAreToldApart ==
    Roomy =>
        \A a, b \in AllSaid :
            a[2] = b[2] =>
                /\ a[1].unread = b[1].unread
                /\ SameRepo(a[1], b[1])
                /\ look.reason = "glyph" /\ HasStatus(a[1]) /\ HasStatus(b[1]) =>
                      \/ a[1].detail.status = b[1].detail.status
                      \/ StateIsCut(a[1]) /\ StateIsCut(b[1])

-----------------------------------------------------------------------------
(* What the code says of itself and does not do.                            *)

\* "a merged pull request read exactly like an open one", before the state
\* was put on the second line: with the reason as a word it still does.
StatusIsTold ==
    look.rows = "two-line" =>
        \A a, b \in AllSaid :
            /\ HasStatus(a[1]) /\ HasStatus(b[1])
            /\ a[2] = b[2]
            => a[1].detail.status = b[1].detail.status

\* "says one thing twice": the second line names the kind once.
KindIsSaidOnce ==
    look.rows = "two-line" =>
        \A i \in Range(Ordered) : \A k \in DOMAIN StatePart(Items[i]) :
            StatePart(Items[i])[k].says # <<"state", Items[i].kind>>

\* "The key that undoes the narrowing, named so it is one the user has."
HintIsBound == State = "filtered-empty" => ClearHint \in {"/", "u"}

\* "Content states never reach here - the focused row wins."
DetailIsOfARow == HasContent => "summary" \notin DOMAIN DetailLine
=============================================================================
