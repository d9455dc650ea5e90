------------------------------ MODULE Screens -------------------------------
(* The dashboard, the pull request surfaces, the inbox's screen, the palette *)
(* and the shell's own panels, one at a time: App gives a key to one of      *)
(* them, and the others stand still meanwhile.  A run goes through the       *)
(* behaviours of each of Fronts.                                             *)
EXTENDS Dashboard

CONSTANTS
    Fronts, Nothing, Unread, Missing,
    \* Of every screen: app.rs MIN_WIDTH and MIN_HEIGHT, the login and its width.
    MinWidth, MinHeight, Viewer, ViewerWidth,
    \* Of the pull request surfaces.
    Details, Lists, PullSizes, FoldMin,
    \* Of the inbox.
    Inboxes, Looks, InboxSizes, Spelling,
    \* Of the palette.
    Keymaps, Boundaries, Space, Letters, MaxQuery, PaletteHeights, PageRows,
    \* Of the panels.
    Surfaces, PanelSizes, Messages, Reasons, SettingRows, Globals

VARIABLES
    front,
    view, size, read, error, scroll, viewport, lines, expanded, screen,
    inbox, filter, look, offset,
    keymap, query, matches, selected, height, ran,
    top, status, progress, overlay, row, note

pulls == <<view, size, read, error, scroll, viewport, lines, expanded, screen>>
inboxScreen == <<inbox, filter, look, offset>>
panels == <<top, status, progress, overlay, row, note>>
palette == <<keymap, query, matches, selected, height, ran>>
-----------------------------------------------------------------------------
P == INSTANCE PullRequests WITH Sizes <- PullSizes
I == INSTANCE InboxScreen WITH Sizes <- InboxSizes
L == INSTANCE Palette WITH Heights <- PaletteHeights
F == INSTANCE Panels WITH Sizes <- PanelSizes, Viewer <- ViewerWidth

\* What a frame draws fits it: the section the dashboard's cursor is on has a
\* line in a body of any height (dashboard.rs, render_sections), a document is
\* not scrolled past its end, and rows are as wide as the screen.
DrawnFits ==
    /\ front = "dashboard" => DashboardIsDrawn
    /\ P!DrawnFits

\* The document leaves nothing out (pull_requests.rs).
DocumentIsComplete == P!DocumentIsComplete

\* The row the inbox's cursor is on is among the rows drawn (notifications.rs,
\* render_list).
FocusIsDrawn == front = "inbox" => I!FocusIsDrawn

\* No two rows of a list read alike that are not, of threads or of pull requests
\* (list.rs, fit_repo and row_line; notifications.rs, two_line and header_line).
RowsAreToldApart ==
    /\ front = "inbox" => I!RowsAreToldApart
    /\ front = "pulls" => P!RowsAreToldApart
\* What InboxScreen.tla states and the code does not do, one claim at a time.
StatusIsTold == front = "inbox" => I!StatusIsTold
KindIsSaidOnce == front = "inbox" => I!KindIsSaidOnce
HintIsBound == front = "inbox" => I!HintIsBound
DetailIsOfARow == front = "inbox" => I!DetailIsOfARow

\* Who types an action's name runs it; the two below are what the code's
\* comments add and the code does not do.
NameFindsIt == L!NameFindsIt
SelectionOnScreen == L!SelectionOnScreen
NamesOutrank == L!NamesOutrank

\* Neither the way out, nor the end of a sentence, nor what is asked of the
\* reader is what a small terminal cuts.
NothingIsPushedOut ==
    /\ front = "panels" => F!WayOutIsShown /\ F!SentencesAreWhole
    /\ front = "pulls" => P!FocusIsTold
\* What Panels.tla states and the code does not do, one claim at a time.
NoteIsDrawn == front = "panels" => F!NoteIsDrawn
FocusedSettingIsDrawn == front = "panels" => F!FocusedSettingIsDrawn
WhyIsSaid == front = "panels" => F!WhyIsSaid
-----------------------------------------------------------------------------
ASSUME ScreensAssumption ==
    /\ Fronts \subseteq {"dashboard", "pulls", "inbox", "palette", "panels"}
    /\ F!PanelsAssumption
    /\ F!ReasonsAssumption
    /\ P!PullRequestsAssumption
    /\ P!DetailsAssumption
    /\ P!FocusAssumption
    /\ I!InboxScreenAssumption
    /\ I!NotificationsAssumption
    /\ L!PaletteAssumption

\* The cursor, the terminal and the failure are those of whichever surface is
\* in front.
ScreensInit ==
    /\ front \in Fronts
    /\ Init
    /\ front # "dashboard" => cfg = <<>> /\ github \in [Queries -> {0}]
    /\ IF front = "inbox"
       THEN /\ I!InboxInit
            /\ view = "list" /\ read = Nothing /\ scroll = 0 /\ viewport = 0
            /\ lines = 0 /\ expanded = FALSE /\ screen = [kind |-> "cold"]
       ELSE /\ P!Init
            /\ front # "pulls" => view = "list" /\ (front = "panels" \/ size = <<MinWidth, MinHeight>>)
            /\ inbox = Nothing /\ filter = I!Unfiltered /\ look = Nothing /\ offset = 0
    /\ L!Init
    /\ front # "palette" => height = CHOOSE h \in PaletteHeights : TRUE
    /\ IF front = "panels" THEN F!Init
       ELSE /\ top = Nothing /\ status = Nothing /\ progress = FALSE
            /\ overlay = "none" /\ row = 1 /\ note = Nothing

dashboard == <<clock, github, lists, cfg, job, event, data, broken>>

ScreensNext ==
    \/ /\ front = "dashboard"
       /\ Next
       /\ UNCHANGED <<front, pulls, inboxScreen, palette, panels>>
    \/ /\ front = "pulls"
       /\ P!Next
       /\ UNCHANGED <<front, dashboard, inboxScreen, palette, panels>>
    \/ /\ front = "inbox"
       /\ I!InboxNext
       /\ UNCHANGED <<front, dashboard, view, read, scroll, viewport, lines, expanded,
                      screen, palette, panels>>
    \/ /\ front = "palette"
       /\ L!Next
       /\ UNCHANGED <<front, vars, pulls, inboxScreen, panels>>
    \/ /\ front = "panels"
       /\ F!Next
       /\ UNCHANGED <<front, vars, view, read, error, scroll, viewport, lines, expanded,
                      screen, inboxScreen, palette>>

ScreensSpec ==
    ScreensInit /\ [][ScreensNext]_<<front, vars, pulls, inboxScreen, palette, panels>>
=============================================================================
