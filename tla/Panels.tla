------------------------------- MODULE Panels -------------------------------
(***************************************************************************)
(* What the shell draws around and over a surface (omaghy-tui, app.rs      *)
(* render, widgets/chrome.rs, widgets/settings.rs, widgets/state.rs): the  *)
(* header and what it admits of the data, the footer's bindings, the       *)
(* message that grows over them, the notice that stands in for rows, the   *)
(* help and settings panels.                                               *)
(*                                                                         *)
(* Which keys open what, and which event ends a message, is told once more *)
(* than Shell.tla and Settings.tla tell it, as far as something is drawn.  *)
(* A text is the widths of its words; a short one is its width.            *)
(***************************************************************************)
EXTENDS Text

CONSTANTS
    Surfaces,     \* what a surface hands the shell: a title, a keymap, ...
    Sizes,        \* terminal sizes, <<width, height>>
    MinWidth,     \* app.rs MIN_WIDTH: 40
    MinHeight,    \* app.rs MIN_HEIGHT: 10
    Messages,     \* what a status may say
    Reasons,      \* why a setting may not be saved
    SettingRows,  \* SettingId::ALL: section, description, alternatives
    Globals,      \* GLOBAL_BINDINGS
    Viewer,       \* width of the login
    Nothing

VARIABLES
    size,      \* of the terminal
    top,       \* the surface at the top of the stack
    status,    \* App.status
    progress,  \* App.progress: the message is of a refresh under way
    overlay,   \* help_open, settings_open, palette
    row,       \* Settings.cursor, from 1
    note       \* App.settings_note

vars == <<size, top, status, progress, overlay, row, note>>

PanelsAssumption ==
    /\ Sizes \subseteq Nat \X Nat
    /\ {MinWidth, MinHeight, Viewer} \subseteq Nat
    /\ MinWidth >= 40 /\ MinHeight >= 10
    /\ \A s \in Sizes : s[1] >= MinWidth /\ s[2] >= MinHeight
    /\ Messages \cup Reasons \subseteq Seq(Nat) \ {<<>>}
    \* No surface has more than eight bindings, nor has everybody.
    /\ LET Bindings == Seq([keys: Nat, description: Nat]) IN
       /\ Globals \in Bindings
       /\ \A s \in Surfaces : s.keymap \in Bindings /\ Len(s.keymap) + Len(Globals) <= 17
    /\ SettingRows \in Seq(Range(SettingRows)) \ {<<>>}

\* Binding: how it is shown in help and the footer.
Binding(keys, description) == [keys |-> keys, description |-> description]

\* "Refreshing...", "applied, but not saved - ".
Refreshing == <<11>>
NotSaved == <<8, 3, 3, 5, 1>>

-----------------------------------------------------------------------------
(* Header: freshness and viewer on the right, the title in what is left.    *)

\* Freshness::spans: a glyph, a space, a word, a space; never-fetched goes
\* before cached.
Admission ==
    (IF top.refreshing THEN 13 ELSE 0)
    + CASE top.never -> 14
        [] ~top.never /\ top.cached -> 9
        [] OTHER -> 0

\* Header::render: split rather than overlaid; the title has the left.
HeaderRight == Admission + Viewer + 3
HeaderSplit == Max({0, size[1] - (HeaderRight + 1)})

-----------------------------------------------------------------------------
(* Footer.                                                                  *)

Escape == <<Binding(1, 4), Binding(1, 4)>>

\* A pair in the footer, with the two cells between it and the next.
Cost(b) == b.keys + 1 + b.description + 2
CostOf(hints) == Total([k \in DOMAIN hints |-> Cost(hints[k])])

\* The surface's bindings, and the way out after them.
FooterConcatenated(keymap, width) == keymap \o Escape

\* footer_hints: the way out is reserved, bindings fill what is left, in
\* their order, and stop at the first that does not fit.
FooterHints(keymap, width) ==
    LET budget == Max({0, width - (CostOf(Escape) + 1)})
        fitting == Max({n \in 0 .. Len(keymap) : CostOf(SubSeq(keymap, 1, n)) <= budget})
    IN SubSeq(keymap, 1, fitting) \o Escape

\* render_hints: whole pairs, up to the first that does not fit; a space
\* leads, and nothing follows the last.
HintsDrawn(hints, width) ==
    Max({n \in 0 .. Len(hints) : n = 0 \/ CostOf(SubSeq(hints, 1, n)) - 1 <= width})

-----------------------------------------------------------------------------
(* The message: over the footer, and up.                                    *)

StatusLines == Wrap(status, size[1] - 1)
StatusHeight == Max({1, Min({Len(StatusLines), size[2]})})

\* The row its first line is on, if it started on the footer's.
StatusTopAtFooter == size[2] - 1
StatusTop == Max({0, size[2] - 1 - (StatusHeight - 1)})

\* The lines a frame has room for.
StatusDrawn ==
    SubSeq(StatusLines, 1, Min({StatusHeight, size[2] - StatusTop}))

-----------------------------------------------------------------------------
(* A notice: the glyph, the headline, the detail and the next thing to do.  *)

\* StateView::render, of the states without rows: the detail's words, and
\* whether a key is named.  A refusal names none.
NoticeOf(state) ==
    CASE state = "empty"               -> [detail |-> <<2, 12, 5, 4, 10>>, action |-> TRUE]
      [] state = "filtered-empty"      -> [detail |-> <<7, 4, 7, 24>>, action |-> TRUE]
      [] state = "offline-without-cache" ->
            [detail |-> <<6, 2, 11, 3, 4, 7, 3, 5, 4, 8>>, action |-> TRUE]
      [] state = "rate-limited"        ->
            [detail |-> <<6, 2, 5, 4, 6, 4, 2, 5, 9>>, action |-> TRUE]
      [] state = "forbidden"           ->
            [detail |-> <<3, 2, 3, 4, 6, 2, 5, 2, 4, 3, 2, 8>>, action |-> FALSE]

\* notice: one line each, and a blank line between; centred, never wrapped.
NoticeHeight(state) == IF NoticeOf(state).action THEN 5 ELSE 3
NoticeDetailWidth(state) ==
    Total(NoticeOf(state).detail) + Len(NoticeOf(state).detail) - 1

-----------------------------------------------------------------------------
(* Panels: centred, as tall as their lines and the screen allow.            *)

Blank == <<[part |-> "blank"]>>

\* render_help: the surface's bindings, then everybody's.
HelpLines ==
    <<[part |-> "keys"]>> \o Blank
    \o [k \in DOMAIN top.keymap |-> [part |-> "binding", binding |-> top.keymap[k]]]
    \o Blank
    \o [k \in DOMAIN Globals |-> [part |-> "binding", binding |-> Globals[k]]]
    \o Blank \o <<[part |-> "any key to close"]>>

\* Settings::render: the panel's width, and what its border and indent leave.
PanelText == Min({76, size[1]}) - 4

Lines(part, wrapped) == [k \in DOMAIN wrapped |-> [part |-> part, shows |-> wrapped[k]]]

\* The rows, with a header where the section changes.
SectionedRows ==
    FlattenSeq([k \in DOMAIN SettingRows |->
        (IF k = 1 \/ SettingRows[k].section # SettingRows[k - 1].section
         THEN <<[part |-> "section"]>> ELSE <<>>)
        \o <<[part |-> "row", row |-> k]>>])

SettingsPanel(at, why, cells) ==
    <<[part |-> "title"]>> \o Blank \o SectionedRows \o Blank
    \o Lines("description", Wrap(SettingRows[at].description, cells))
    \o Lines("alternatives", Wrap(SettingRows[at].alternatives, cells))
    \o Blank
    \o IF why = Nothing THEN <<[part |-> "keys"]>>
       ELSE Lines("note", Wrap(NotSaved \o why, cells))

SettingsLines == SettingsPanel(row, note, PanelText)

\* The panel of any setting, with any of Reasons in it, is one a terminal of
\* 24 lines and 80 columns has room for.
ReasonsAssumption ==
    /\ \A k \in DOMAIN SettingRows :
          {SettingRows[k].description, SettingRows[k].alternatives} \subseteq Seq(Nat)
    /\ \A k \in DOMAIN SettingRows, why \in Reasons : Len(SettingsPanel(k, why, 72)) + 2 <= 24

\* What the border and the screen leave of a panel.
Inside(lines) == SubSeq(lines, 1, Min({Len(lines) + 2, size[2]}) - 2)

-----------------------------------------------------------------------------
(* Keys and events.                                                         *)

Init ==
    /\ size \in Sizes
    /\ top \in Surfaces
    /\ status = Nothing /\ progress = FALSE
    /\ overlay = "none"
    /\ row = 1
    /\ note = Nothing

\* A key ends the message before anybody sees it (App::run).
Key == status' = Nothing /\ progress' = FALSE

\* 1-7, and what a surface pushes and pops.
Navigate ==
    /\ overlay = "none"
    /\ top' \in Surfaces \ {top}
    /\ Key
    /\ UNCHANGED <<size, overlay, row, note>>

\* ?, comma and colon.
OpenOverlay ==
    /\ overlay = "none"
    /\ overlay' \in {"help", "settings", "palette"}
    /\ note' = IF overlay' = "settings" THEN Nothing ELSE note
    /\ Key
    /\ UNCHANGED <<size, top, row>>

\* r and o: a message, and for a refresh one that is of the work.
Say ==
    /\ overlay = "none"
    /\ \/ status' = Refreshing /\ progress' = TRUE
       \/ status' \in Messages /\ progress' = FALSE
    /\ UNCHANGED <<size, top, overlay, row, note>>

\* Any key closes help; Escape the palette; comma, q and Escape the settings.
Close ==
    /\ overlay # "none"
    /\ overlay' = "none"
    /\ note' = IF overlay = "settings" THEN Nothing ELSE note
    /\ Key
    /\ UNCHANGED <<size, top, row>>

\* Settings::next, prev.
MoveRow ==
    /\ overlay = "settings"
    /\ row' \in {(row % Len(SettingRows)) + 1,
                ((row + Len(SettingRows) - 2) % Len(SettingRows)) + 1}
    /\ Key
    /\ UNCHANGED <<size, top, overlay, note>>

\* change: written, or the reason why not.
Change ==
    /\ overlay = "settings"
    /\ note' \in Reasons \cup {Nothing}
    /\ Key
    /\ UNCHANGED <<size, top, overlay, row>>

\* on_store: the refresh that was asked for lands, or any fails.
Landed ==
    /\ progress
    /\ progress' = FALSE /\ status' = Nothing
    /\ top' \in {s \in Surfaces : s.keymap = top.keymap}
    /\ UNCHANGED <<size, overlay, row, note>>

RefreshFailed ==
    /\ status' \in Messages
    /\ progress' \in {progress, FALSE}
    /\ UNCHANGED <<size, top, overlay, row, note>>

\* cares_about: a page is read again, and its freshness with it.
Reloaded ==
    /\ top' \in {s \in Surfaces : s.keymap = top.keymap}
    /\ UNCHANGED <<size, status, progress, overlay, row, note>>

Resize ==
    /\ size' \in Sizes \ {size}
    /\ UNCHANGED <<top, status, progress, overlay, row, note>>

Next ==
    \/ Navigate \/ OpenOverlay \/ Say \/ Close \/ MoveRow \/ Change
    \/ Landed \/ RefreshFailed \/ Reloaded \/ Resize

Spec == Init /\ [][Next]_vars

-----------------------------------------------------------------------------
(* Properties.                                                              *)

\* Whatever surface is in front, however many bindings it has, at every size
\* a screen is drawn at: with no message over it the footer ends in the keys
\* that lead to help and out, whole; help, where it has room, lists every
\* binding and how to leave it; and a screen without rows has room for what
\* to do next.
WayOutIsShown ==
    /\ overlay = "none" /\ status = Nothing =>
          LET hints == FooterHints(top.keymap, size[1])
              drawn == SubSeq(hints, 1, HintsDrawn(hints, size[1]))
          IN \E before \in 0 .. Len(drawn) :
                SubSeq(drawn, before + 1, Len(drawn)) = Escape
    /\ overlay = "help" /\ size[2] >= 24 => Inside(HelpLines) = HelpLines
    /\ top.state # "rows" => NoticeHeight(top.state) <= size[2] - 2

\* What a panel says in a part of it, line by line.
Told(lines, part) ==
    FlattenSeq([k \in DOMAIN lines |->
        IF lines[k].part = part THEN <<lines[k].shows>> ELSE <<>>])

\* A sentence is told to its end: a status with the reason at the end of it
\* touches the last row, and is on the screen, every word, where the terminal
\* has as many lines as it takes; a setting that could not be saved says why,
\* in a terminal that has room for the panel; and what the header admits of
\* the data is not what a long login pushes out.
SentencesAreWhole ==
    /\ overlay = "none" /\ status # Nothing =>
          /\ Len(StatusLines) <= size[2] =>
                CellsOf(FlattenSeq(StatusDrawn)) = Total(status)
          /\ StatusTop + Len(StatusDrawn) = size[2]
    /\ overlay = "settings" /\ note # Nothing /\ size[1] >= 80 /\ size[2] >= 24 =>
          LET told == Told(Inside(SettingsLines), "note")
          IN /\ CellsOf(FlattenSeq(told)) = Total(NotSaved \o note)
             /\ \A k \in DOMAIN told : Cells(told[k]) <= PanelText
    /\ Admission <= size[1] - HeaderSplit

-----------------------------------------------------------------------------
(* What the code says of itself and does not do.                            *)

\* "a failed write does not refuse the change, and does not fail silently":
\* the panel cannot scroll, and in a short terminal ends before its note.
NoteIsDrawn ==
    overlay = "settings" /\ note # Nothing =>
        \E k \in DOMAIN Inside(SettingsLines) : Inside(SettingsLines)[k].part = "note"

\* "The one that matters is the one under the cursor."
FocusedSettingIsDrawn ==
    overlay = "settings" =>
        \E k \in DOMAIN Inside(SettingsLines) :
            Inside(SettingsLines)[k] = [part |-> "row", row |-> row]

\* "An empty state says *why*, and what to do next."
WhyIsSaid ==
    top.state # "rows" => NoticeDetailWidth(top.state) <= size[1]
=============================================================================
