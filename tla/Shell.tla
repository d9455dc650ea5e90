------------------------------- MODULE Shell -------------------------------
(***************************************************************************)
(* The application shell (omaghy-tui, app.rs): a stack of surfaces, the    *)
(* overlays above it, the status line, and the loop that selects between   *)
(* the keyboard and the store's broadcast channel.                         *)
(*                                                                         *)
(* The loop is one task.  The poll tasks and the fetches run beside it, so *)
(* a handler that awaits the first read of a new surface is two steps      *)
(* here, and a fetch is three: its claim, its write, its announcement.     *)
(* How a claim and a task can part company is the matter of Refresh.tla;   *)
(* here cancel takes both at once.  What a surface shows is reduced to     *)
(* whether it has been read since the cache last changed under it.         *)
(***************************************************************************)
EXTENDS Naturals, Sequences, SequencesExt, FiniteSets

CONSTANTS
    Routes,   \* the surfaces main can start on
    Keyed,    \* the surfaces the number keys open
    Polled,   \* the targets the poll tasks refresh
    Overlays, \* of "help", "settings" and "palette"
    Capacity, \* what the broadcast channel holds: 64 in the code
    MaxDepth, \* bound: surfaces stacked
    None

\* RefreshTarget of each surface; a stub has none (Surface::refresh_target).
TargetOf == [dashboard     |-> "Dashboard",
             notifications |-> "Notifications",
             prs           |-> "PullRequests",
             pr            |-> "PullRequest",
             stub          |-> None]

Kinds == DOMAIN TargetOf
Targets == {"Dashboard", "Notifications", "NotificationDetails",
            "PullRequests", "PullRequest"}

\* Surface::cares_about, for the events that name a target.
Cares(k) == IF k = "notifications"
            THEN {"Notifications", "NotificationDetails"}
            ELSE {TargetOf[k]} \ {None}

ASSUME ShellAssumption ==
    /\ Routes \subseteq Kinds
    /\ Keyed \subseteq Kinds \ {"pr"}
    /\ Polled \subseteq {"Dashboard", "Notifications"}
    /\ Overlays \subseteq {"help", "settings", "palette"}
    /\ Capacity \in Nat \ {0}
    /\ MaxDepth \in Nat \ {0}
    /\ None \notin Targets \cup {"Updated", "RefreshFailed"}

VARIABLES
    pc,         \* the loop: "loading" a new surface, "idle" in select!, "over"
    stack,      \* App.stack
    entering,   \* the surface push is loading
    open,       \* help_open, settings_open, palette.is_some()
    status,     \* what App.status says
    progress,   \* App.progress
    subscribed, \* whether run has subscribed to the store
    claims,     \* SqliteStore.in_flight
    asker,      \* who made each claim, the screen or a task (history)
    fetching,   \* the targets a task is fetching
    landed,     \* what that task has yet to announce
    chaining,   \* a landed inbox has yet to ask for its details
    queue,      \* events broadcast and not received
    lagged,     \* the receiver has fallen behind the channel
    deaf,       \* recv has failed in this select!: its branch is disabled
    slipped     \* an event was dropped since the message was put up (history)

screen == <<stack, entering, open, status, progress>>
channel == <<subscribed, queue, lagged, slipped>>
work == <<claims, asker, fetching, landed, chaining>>
vars == <<pc, screen, channel, work, deaf>>

Entry == [kind: Kinds, view: {"current", "behind", "missed"},
          spinning: BOOLEAN, covered: BOOLEAN]
Event == [kind: {"RefreshStarted", "Updated", "RefreshFailed"},
          target: Targets]

TypeOK ==
    /\ pc \in {"loading", "idle", "over"}
    /\ stack \in Seq(Entry)
    /\ Len(stack) <= MaxDepth
    /\ pc # "loading" => stack # <<>>
    /\ entering \in Kinds \cup {None}
    /\ pc = "loading" <=> entering # None
    /\ open \subseteq Overlays
    /\ Cardinality(open) <= 1
    /\ status \in {"none", "refreshing", "other"}
    /\ progress \in Targets \cup {None}
    /\ status = "refreshing" => progress # None
    /\ subscribed \in BOOLEAN
    /\ claims \subseteq Targets
    /\ asker \in [Targets -> {"screen", "task"}]
    /\ fetching \subseteq Targets
    /\ landed \in [Targets -> {None, "Updated", "RefreshFailed"}]
    /\ chaining \in BOOLEAN
    /\ queue \in Seq(Event)
    /\ Len(queue) <= Capacity
    /\ {lagged, deaf, slipped} \subseteq BOOLEAN

-----------------------------------------------------------------------------
(* The broadcast channel.                                                   *)

\* What a surface will still be told of: an Updated queued or to be sent.
Coming(k, q, pending) ==
    \E t \in Cares(k) : \/ pending[t] = "Updated"
                        \/ \E i \in DOMAIN q : q[i] = [kind   |-> "Updated",
                                                       target |-> t]

\* An entry whose last Updated has been dropped has missed it.
Told(entries, q, pending) ==
    [i \in DOMAIN entries |->
        IF entries[i].view = "behind" /\ ~Coming(entries[i].kind, q, pending)
        THEN [entries[i] EXCEPT !.view = "missed"]
        ELSE entries[i]]

\* A send to nobody is lost; one to a full channel drops the oldest event.
\* `entries` is the stack as the step leaves it.
Broadcast(kind, t, entries) ==
    LET e == [kind |-> kind, target |-> t]
        full == Len(queue) = Capacity
        dropping == full \/ ~subscribed
    IN  /\ queue' = IF ~subscribed THEN <<>>
                    ELSE Append(IF full THEN Tail(queue) ELSE queue, e)
        /\ lagged' = (lagged \/ (subscribed /\ full))
        /\ stack' = IF dropping THEN Told(entries, queue', landed')
                    ELSE entries

-----------------------------------------------------------------------------
(* Store::cancel and Store::refresh, from the UI task or another one.       *)

\* Mutant of Switch: a surface does not cancel what it leaves.
SwitchKept(old, new, who, entries) ==
    LET asks == new \notin claims \cup {None}
    IN  /\ claims' = claims \cup ({new} \ {None})
        /\ asker' = [t \in Targets |-> IF asks /\ t = new THEN who
                                       ELSE asker[t]]
        /\ fetching' = fetching \cup (IF asks THEN {new} ELSE {})
        /\ UNCHANGED <<landed, subscribed>>
        /\ IF asks THEN Broadcast("RefreshStarted", new, entries)
           ELSE stack' = entries /\ UNCHANGED <<queue, lagged>>

\* The surface on screen cancels its own target (on_leave); then the new
\* one asks for its own (on_enter).  Cancelling None changes nothing.
Switch(old, new, who, entries) ==
    LET left == claims \ {old}
        asks == new \notin left \cup {None}
    IN  /\ claims' = left \cup ({new} \ {None})
        /\ asker' = [t \in Targets |-> IF asks /\ t = new THEN who
                                       ELSE IF t = old THEN "task"
                                       ELSE asker[t]]
        /\ fetching' = (fetching \ {old}) \cup (IF asks THEN {new} ELSE {})
        /\ UNCHANGED <<landed, subscribed>>
        /\ IF asks THEN Broadcast("RefreshStarted", new, entries)
           ELSE stack' = entries /\ UNCHANGED <<queue, lagged>>

\* The tasks end with the runtime.  One that broadcasts to a full channel
\* makes the loop miss an event.
TaskRuns == pc # "over"
TaskSpoke == slipped' = (status = "refreshing" /\ (slipped \/ lagged'))

\* A poll tick.
Tick(t) ==
    /\ TaskRuns
    /\ t \in Polled
    /\ t \notin claims
    /\ Switch(None, t, "task", stack)
    /\ TaskSpoke
    /\ UNCHANGED <<pc, entering, open, status, progress, chaining, deaf>>

\* A task writes what it fetched: every entry showing it is behind.  The
\* next fetch of a target waits until this one has been announced, which
\* is a few instructions away in the code.
Write(t) ==
    /\ TaskRuns
    /\ t \in fetching
    /\ landed[t] = None
    /\ fetching' = fetching \ {t}
    /\ landed' = [landed EXCEPT ![t] = "Updated"]
    /\ stack' = [i \in DOMAIN stack |->
                    IF t \in Cares(stack[i].kind)
                    THEN [stack[i] EXCEPT !.view = "behind"] ELSE stack[i]]
    /\ UNCHANGED <<pc, entering, open, status, progress, channel, claims,
                   asker, chaining, deaf>>

Fail(t) ==
    /\ TaskRuns
    /\ t \in fetching
    /\ landed[t] = None
    /\ fetching' = fetching \ {t}
    /\ landed' = [landed EXCEPT ![t] = "RefreshFailed"]
    /\ UNCHANGED <<pc, screen, channel, claims, asker, chaining, deaf>>

\* refresh_finished, refresh_failed: the claim goes, the event is sent.
Announce(t) ==
    /\ TaskRuns
    /\ landed[t] # None
    /\ landed' = [landed EXCEPT ![t] = None]
    /\ claims' = claims \ {t}
    /\ asker' = [asker EXCEPT ![t] = "task"]
    /\ chaining' = (chaining \/ <<t, landed[t]>> = <<"Notifications", "Updated">>)
    /\ Broadcast(landed[t], t, stack)
    /\ TaskSpoke
    /\ UNCHANGED <<pc, entering, open, status, progress, fetching, subscribed,
                   deaf>>

\* The inbox that has landed asks for the details of its rows.
Chain ==
    /\ TaskRuns
    /\ chaining
    /\ chaining' = FALSE
    /\ Switch(None, "NotificationDetails", "task", stack)
    /\ TaskSpoke
    /\ UNCHANGED <<pc, entering, open, status, progress, deaf>>

-----------------------------------------------------------------------------
(* App::start and App::run.                                                 *)

Top == Last(stack)
Leaving == IF stack = <<>> THEN None ELSE TargetOf[Top.kind]

\* start pushes the route's surface on an empty stack; nobody listens yet.
Init ==
    /\ pc = "loading"
    /\ stack = <<>>
    /\ entering \in Routes
    /\ open = {} /\ status = "none" /\ progress = None
    /\ subscribed = FALSE
    /\ claims = {TargetOf[entering]} \ {None}
    /\ asker = [t \in Targets |-> IF t \in claims THEN "screen" ELSE "task"]
    /\ fetching = claims
    /\ landed = [t \in Targets |-> None]
    /\ chaining = FALSE
    /\ queue = <<>>
    /\ lagged = FALSE /\ deaf = FALSE /\ slipped = FALSE

\* push awaits the first read of the surface and only then stacks it.  The
\* page says whether its target was being refreshed when it was read.
Load ==
    /\ pc = "loading"
    /\ stack' = Append(stack, [kind |-> entering, view |-> "current",
                               spinning |-> TargetOf[entering] \in claims,
                               covered |-> FALSE])
    /\ entering' = None
    /\ pc' = "idle"
    /\ UNCHANGED <<open, status, progress, channel, work, deaf>>

\* run subscribes when start has returned.
Subscribe ==
    /\ pc = "idle"
    /\ ~subscribed
    /\ subscribed' = TRUE
    /\ UNCHANGED <<pc, screen, queue, lagged, slipped, work, deaf>>

Listening == pc = "idle" /\ subscribed

-----------------------------------------------------------------------------
(* Keys.  The loop clears the message before it hands the key on; a key     *)
(* also ends this select!, and recv is tried again in the next one.         *)

Cover(entries) == [i \in DOMAIN entries |->
                      [entries[i] EXCEPT !.covered = TRUE]]

\* App::push: the new surface is on screen when Load has read it.
Push(k) ==
    /\ Len(stack) < MaxDepth
    /\ Switch(Leaving, TargetOf[k], "screen", Cover(stack))
    /\ entering' = k
    /\ pc' = "loading"

\* App::replace: the top is popped before the new surface is loaded.
Replace(k) ==
    /\ Switch(Leaving, TargetOf[k], "screen", Front(stack))
    /\ entering' = k
    /\ pc' = "loading"

\* App::pop: the surface underneath is shown as it was left.
Pop ==
    /\ Switch(IF Len(stack) > 1 THEN Leaving ELSE None, None, "screen",
              IF Len(stack) > 1 THEN Front(stack) ELSE stack)
    /\ UNCHANGED <<pc, entering>>

\* What Enter opens: a dashboard section is a search, a listed pull request
\* its detail.
Opens == [k \in {"dashboard", "prs"} |-> IF k = "prs" THEN "pr" ELSE "stub"]

Quiet == status' = "none" /\ progress' = None
StayOnScreen == UNCHANGED <<pc, stack, entering, queue, lagged, subscribed,
                            work>>

Navigate ==
    /\ open' = {}
    /\ Quiet
    /\ \/ \E k \in Keyed \ {Top.kind} : Replace(k)
       \/ Top.kind \in DOMAIN Opens /\ Push(Opens[Top.kind])
       \/ Pop

\* `q` at the root and Ctrl-C anywhere.
Quit ==
    /\ pc' = "over"
    /\ open' = {}
    /\ Quiet
    /\ UNCHANGED <<stack, entering, queue, lagged, subscribed, work>>

OpenOverlay(which) ==
    /\ open' = {which}
    /\ Quiet
    /\ StayOnScreen

\* `r`, with a target to refresh and without one.
Refresh ==
    /\ open' = {}
    /\ IF Leaving # None
       THEN /\ Switch(None, Leaving, "screen", stack)
            /\ status' = "refreshing"
            /\ progress' = Leaving
       ELSE /\ UNCHANGED <<stack, queue, lagged, subscribed, work>>
            /\ status' = "other"
            /\ progress' = None
    /\ UNCHANGED <<pc, entering>>

\* `o`: it opened, there was nothing to open, or the browser failed.
OpenInBrowser ==
    /\ open' = {}
    /\ status' = "other" /\ progress' = None
    /\ StayOnScreen

\* What a key does when no overlay takes it, or its name run by the palette:
\* the palette closes first and the key is pressed for it.
Act ==
    /\ \/ Navigate
       \/ Quit
       \/ \E which \in Overlays : OpenOverlay(which)
       \/ Refresh
       \/ OpenInBrowser
    /\ chaining' = chaining
    /\ deaf' = FALSE
    /\ slipped' = FALSE

Key == Listening /\ open = {} /\ Act

PaletteRuns == Listening /\ open = {"palette"} /\ Act

\* An overlay takes the key: any key ends help, the others have keys of
\* their own and close on some of them.
OverlayKey ==
    /\ Listening
    /\ open # {}
    /\ open' \in {{}} \cup (IF "help" \in open THEN {} ELSE {open})
    /\ Quiet
    /\ deaf' = FALSE
    /\ slipped' = FALSE
    /\ StayOnScreen

\* A resize, or an event the loop has no use for, ends the select! as well.
Resize ==
    /\ Listening
    /\ deaf' = FALSE
    /\ UNCHANGED <<pc, screen, channel, work>>

-----------------------------------------------------------------------------
(* Events.                                                                  *)

\* Surface::load again: the same surface, read now.
Reloaded(e) == [kind |-> e.kind, view |-> "current", covered |-> FALSE,
                spinning |-> TargetOf[e.kind] \in claims]

\* Mutant of OnStore: a surface reloads only for the target `r` refreshes.
OnStoreOwn(e) ==
    LET landing == e.kind # "RefreshStarted" /\ e.target = progress
    IN  /\ stack' = IF e.kind = "Updated" /\ e.target = TargetOf[Top.kind]
                    THEN Append(Front(stack), Reloaded(Top)) ELSE stack
        /\ progress' = IF landing THEN None ELSE progress
        /\ status' = IF e.kind = "RefreshFailed" THEN "other"
                     ELSE IF landing THEN "none" ELSE status

\* Mutant of OnStore: any event about the target ends what is awaited.
OnStoreForgets(e) ==
    /\ stack' = IF e.kind = "Updated" /\ e.target \in Cares(Top.kind)
                THEN Append(Front(stack), Reloaded(Top)) ELSE stack
    /\ progress' = IF e.target = progress THEN None ELSE progress
    /\ status' = IF e.kind = "RefreshFailed" THEN "other"
                 ELSE IF e.kind = "Updated" /\ e.target = progress THEN "none"
                 ELSE status

\* App::on_store.
OnStore(e) ==
    LET landing == e.kind # "RefreshStarted" /\ e.target = progress
    IN  /\ stack' = IF e.kind = "Updated" /\ e.target \in Cares(Top.kind)
                    THEN Append(Front(stack), Reloaded(Top)) ELSE stack
        /\ progress' = IF landing THEN None ELSE progress
        /\ status' = IF e.kind = "RefreshFailed" THEN "other"
                     ELSE IF landing THEN "none" ELSE status

\* Mutant of Receive: an overlay keeps the store's events waiting.
ReceiveUncovered ==
    /\ Listening
    /\ open = {}
    /\ ~deaf
    /\ ~lagged
    /\ queue # <<>>
    /\ OnStore(Head(queue))
    /\ queue' = Tail(queue)
    /\ UNCHANGED <<pc, entering, open, subscribed, lagged, slipped, work, deaf>>

Receive ==
    /\ Listening
    /\ ~deaf
    /\ ~lagged
    /\ queue # <<>>
    /\ OnStore(Head(queue))
    /\ queue' = Tail(queue)
    /\ UNCHANGED <<pc, entering, open, subscribed, lagged, slipped, work, deaf>>

\* recv answers Lagged once: the pattern fails and the branch is disabled
\* until another branch ends the select!.
Lag ==
    /\ Listening
    /\ ~deaf
    /\ lagged
    /\ lagged' = FALSE
    /\ deaf' = TRUE
    /\ UNCHANGED <<pc, screen, subscribed, queue, slipped, work>>
-----------------------------------------------------------------------------
(* The specification.                                                       *)

Next ==
    \/ Load \/ Subscribe
    \/ Key \/ PaletteRuns \/ OverlayKey \/ Resize
    \/ Receive \/ Lag
    \/ \E t \in Targets : Tick(t) \/ Write(t) \/ Fail(t) \/ Announce(t)
    \/ Chain

Spec == Init /\ [][Next]_vars

\* A fetch ends within its timeout and is announced; the loop polls its
\* branches in random order, so an event is not passed over for ever by keys.
Fairness ==
    /\ WF_vars(Load) /\ WF_vars(Subscribe)
    /\ SF_vars(Receive) /\ SF_vars(Lag)
    /\ \A t \in Targets : /\ WF_vars(Write(t) \/ Fail(t))
                          /\ WF_vars(Announce(t))

FairSpec == Spec /\ Fairness

-----------------------------------------------------------------------------
(* Safety.                                                                  *)

\* No surface that has been on screen since it was read shows less than the
\* cache holds, unless the event that will reload it is on its way or the
\* channel dropped it (cares_about, on_store: the only path into a surface).
NeverBehind ==
    pc = "idle" /\ ~Top.covered /\ Top.view = "behind"
        => Coming(Top.kind, queue, landed)

\* "Refreshing..." is on screen only while the refresh it names is under
\* way or its end is still to be handled (App.progress), unless an event
\* was dropped meanwhile.
MessageIsTrue ==
    status = "refreshing" =>
        \/ progress \in fetching
        \/ progress # None /\ landed[progress] # None
        \/ \E i \in DOMAIN queue : /\ queue[i].target = progress
                                  /\ queue[i].kind # "RefreshStarted"
        \/ slipped

\* What was fetched for a screen is not fetched on when the screen has gone
\* (on_enter and on_leave pair up across push, replace and pop).
WorkIsForTheScreen ==
    \A t \in claims : asker[t] = "screen" =>
        t = IF pc = "loading" THEN TargetOf[entering] ELSE Leaving

\* The loop has handled the end of the refresh of what is on screen.
EndOfOwnRefresh ==
    /\ queue # <<>>
    /\ queue' = Tail(queue)
    /\ Head(queue).target = Leaving
    /\ Head(queue).kind # "RefreshStarted"

\* Claimed by spec/20-store.md section 1: `refreshing` says that a refresh
\* is in flight now.  So a surface told that its refresh has ended stops
\* saying so, however it ended.
SpinnerEnds ==
    [][EndOfOwnRefresh => (Top'.spinning => Leaving \in claims')]_vars

-----------------------------------------------------------------------------
(* Liveness.                                                                *)

OnScreenBehind == pc = "idle" /\ ~Top.covered /\ Top.view = "behind"

\* A surface left on screen catches up with the cache, unless a lag has
\* switched the store off until the next key (run, the select! of the loop).
ScreenCatchesUp == OnScreenBehind ~> ~OnScreenBehind \/ deaf \/ lagged
=============================================================================
