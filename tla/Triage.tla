------------------------------- MODULE Triage -------------------------------
(***************************************************************************)
(* The notifications surface (omaghy-tui, surfaces/notifications.rs) and   *)
(* the read state it shares with the cache and with GitHub: what is listed *)
(* and in which order, where the cursor stands, and how rows toggled under *)
(* it are queued, flushed by the next load, sent, and rolled back.         *)
(*                                                                         *)
(* The load runs inside the application's one task and awaits the answer   *)
(* to every PATCH, so no key is handled while triage is being sent; the    *)
(* refreshes run beside it.  A row is an identity, its repository and its  *)
(* read state; how rows are laid out is the matter of Text.tla, and        *)
(* threads that see new activity that of Inbox.tla.                        *)
(***************************************************************************)
EXTENDS Ordering, Integers, SequencesExt, FiniteSetsExt, TLC

CONSTANTS
    Ids,        \* notifications, numbered from the newest
    RepoOf,     \* the repository of each
    Modes,      \* the TriageModes the settings panel offers
    MaxPending, \* bound: toggles queued between two loads
    None

ASSUME TriageAssumption ==
    /\ Ids \subseteq Nat /\ IsFiniteSet(Ids) /\ None \notin Ids
    /\ DOMAIN RepoOf = Ids
    /\ Modes \subseteq {"grey", "hide", "sink"}
    /\ Modes # {}
    /\ MaxPending \in Nat \ {0}

Repos == Range(RepoOf)
Flags == UNION {[S -> BOOLEAN] : S \in SUBSET Ids}
Queries == [unreadOnly: BOOLEAN, repo: Repos \cup {None}]
Everything == [unreadOnly |-> FALSE, repo |-> None]

VARIABLES
    github,  \* unread, as GitHub has it
    cache,   \* unread, as the notifications table has it
    page,    \* unread for the rows the surface has loaded
    query,   \* Notifications.query
    triage,  \* Variants.triage
    grouped, \* Variants.group is ByRepo
    cursor,  \* index into the display order, from 0
    pending, \* toggles not yet flushed
    sending, \* ids mark_read has still to PATCH
    prior,   \* unread flags captured before mark_read wrote
    unreads, \* ids mark_unread will be called with after it
    loading  \* flush_pending is awaiting mark_read

view == <<page, query, triage, grouped, cursor>>
flush == <<sending, prior, unreads, loading>>
vars == <<github, cache, view, pending, flush>>

TypeOK ==
    /\ {github, cache} \subseteq [Ids -> BOOLEAN]
    /\ page \in Flags
    /\ query \in Queries
    /\ triage \in Modes
    /\ grouped \in BOOLEAN
    /\ cursor \in Nat
    /\ pending \in Seq(Ids \X BOOLEAN) /\ Len(pending) <= MaxPending
    /\ sending \in Seq(Ids)
    /\ prior \in Flags
    /\ unreads \subseteq Ids
    /\ loading \in BOOLEAN
    /\ ~loading => sending = <<>> /\ prior = <<>> /\ unreads = {}

-----------------------------------------------------------------------------
(* What is on screen, and in what order.                                    *)

\* ordered: read rows stay, leave, or drop below every unread one.
Shown(p, mode) == {i \in DOMAIN p : mode = "hide" => p[i]}
Earlier(i, j, p, mode) == IF mode = "sink" /\ p[i] # p[j] THEN p[i] ELSE i < j

\* The first row of a repository, which places its group.
Lead(i, p, mode) ==
    CHOOSE j \in Shown(p, mode) :
        /\ RepoOf[j] = RepoOf[i]
        /\ \A k \in Shown(p, mode) \ {j} :
              RepoOf[k] = RepoOf[i] => Earlier(j, k, p, mode)

Before(i, j, p, mode, byRepo) ==
    IF byRepo /\ RepoOf[i] # RepoOf[j]
    THEN Earlier(Lead(i, p, mode), Lead(j, p, mode), p, mode)
    ELSE Earlier(i, j, p, mode)

\* display_order: the rows without the headers, as the cursor walks them.
Order(p, mode, byRepo) ==
    LET shown == Shown(p, mode)
    IN  Sorted(shown, {r \in shown \X shown : Before(r[1], r[2], p, mode, byRepo)})

\* The same as a table, which TLC computes once.
Orders ==
    [o \in Flags \X Modes \X BOOLEAN |-> Order(o[1], o[2], o[3])]

Rows == Orders[<<page, triage, grouped>>]
Focused == IF cursor + 1 \in DOMAIN Rows THEN Rows[cursor + 1] ELSE None

\* display_order().len(): each row that is shown is listed once.
Listed(p) == Cardinality(Shown(p, triage))

\* clamp_cursor, for `n` rows.
Clamped(c, n) == IF n = 0 THEN 0 ELSE Min({c, n - 1})

-----------------------------------------------------------------------------
(* A surface is built, and read at once.                                    *)

\* Cache::notifications: the rows of the table that match the query.
Matching(flags, q) ==
    Restrict(flags, {i \in Ids : /\ q.unreadOnly => flags[i]
                                 /\ q.repo \in {None, RepoOf[i]}})

Init ==
    /\ github \in [Ids -> BOOLEAN]
    /\ cache = github
    /\ page = Matching(cache, Everything)
    /\ query = Everything
    /\ triage \in Modes /\ grouped \in BOOLEAN
    /\ cursor = 0
    /\ pending = <<>>
    /\ sending = <<>> /\ prior = <<>> /\ unreads = {} /\ loading = FALSE

\* The surface is left and later opened again: what was queued is dropped,
\* the filters and the cursor are new.
Reopen ==
    /\ ~loading
    /\ page' = Matching(cache, Everything)
    /\ query' = Everything
    /\ cursor' = 0
    /\ pending' = <<>>
    /\ UNCHANGED <<github, cache, triage, grouped, flush>>

-----------------------------------------------------------------------------
(* Keys.                                                                    *)

\* j, k, Ctrl-d, Ctrl-u, G, Home: move_cursor clamps whatever it is given.
Move ==
    /\ ~loading
    /\ LET n == Listed(page) IN cursor' \in 0 .. Clamped(n, n)
    /\ UNCHANGED <<github, cache, page, query, triage, grouped,
                   pending, flush>>

\* Mutant of Toggle: Enter also moves on, as it would in a plain list.
ToggleAndMove ==
    /\ ~loading
    /\ Focused # None
    /\ Len(pending) < MaxPending
    /\ page' = [page EXCEPT ![Focused] = ~@]
    /\ pending' = Append(pending, <<Focused, ~page[Focused]>>)
    /\ cursor' = Clamped(cursor + 1, Listed(page'))
    /\ UNCHANGED <<github, cache, query, triage, grouped, flush>>

\* Enter: toggle_read flips the row now and queues the write.
Toggle ==
    /\ ~loading
    /\ Focused # None
    /\ Len(pending) < MaxPending
    /\ page' = [page EXCEPT ![Focused] = ~@]
    /\ pending' = Append(pending, <<Focused, ~page[Focused]>>)
    /\ cursor' = Clamped(cursor, Listed(page'))
    /\ UNCHANGED <<github, cache, query, triage, grouped, flush>>

\* `u` and `/` change the query and ask for a redraw; the page is read
\* under the new query by the next load.
UnreadOnly ==
    /\ ~loading
    /\ query' = [query EXCEPT !.unreadOnly = ~@]
    /\ cursor' = 0
    /\ UNCHANGED <<github, cache, page, triage, grouped, pending, flush>>

ThisRepo ==
    /\ ~loading
    /\ query' = [query EXCEPT !.repo =
                    IF @ # None \/ Focused = None THEN None ELSE RepoOf[Focused]]
    /\ cursor' = 0
    /\ UNCHANGED <<github, cache, page, triage, grouped, pending, flush>>

\* The settings panel hands every stacked surface its new variants.
Reconfigure ==
    /\ ~loading
    /\ triage' \in Modes
    /\ grouped' \in BOOLEAN
    /\ <<triage', grouped'>> # <<triage, grouped>>
    /\ UNCHANGED <<github, cache, page, query, cursor, pending, flush>>

-----------------------------------------------------------------------------
(* Surface::load: flush the triage, then read.                              *)

\* What was toggled to this state, in the order it was toggled.
Toggled(unread) ==
    LET of == {k \in DOMAIN pending : pending[k][2] = unread}
        places == Sorted(of, {r \in of \X of : r[1] < r[2]})
    IN  [n \in DOMAIN places |-> pending[places[n]][1]]

With(flags, ids, unread) ==
    [i \in Ids |-> IF i \in ids THEN unread ELSE flags[i]]

\* The read, after a flush that leaves these flags in the cache.
Read(flags) ==
    /\ cache' = flags
    /\ page' = Matching(flags, query)
    /\ cursor' = Clamped(cursor, Listed(page'))
    /\ sending' = <<>> /\ prior' = <<>> /\ unreads' = {} /\ loading' = FALSE
    /\ UNCHANGED <<query, triage, grouped>>

\* Mutant of StartLoad: a surface with triage pending is not disturbed.
StartLoadUndisturbed ==
    /\ ~loading
    /\ pending = <<>>
    /\ Read(cache)
    /\ UNCHANGED <<github, pending>>

\* An Updated event.  mark_read captures the prior flags, writes, and sends;
\* with nothing toggled to read there is nothing to await.
StartLoad ==
    /\ ~loading
    /\ pending' = <<>>
    /\ LET reads == Toggled(FALSE)
           toUnread == Range(Toggled(TRUE))
       IN  IF reads = <<>>
           THEN Read(With(cache, toUnread, TRUE))
           ELSE /\ loading' = TRUE
                /\ sending' = reads
                /\ prior' = Restrict(cache, Range(reads))
                /\ unreads' = toUnread
                /\ cache' = With(cache, Range(reads), FALSE)
                /\ UNCHANGED view
    /\ UNCHANGED github

\* mark_read sends one PATCH per thread, in turn.
Patch ==
    /\ sending # <<>>
    /\ github' = [github EXCEPT ![Head(sending)] = FALSE]
    /\ sending' = Tail(sending)
    /\ UNCHANGED <<cache, view, pending, prior, unreads, loading>>

\* Mutant of PatchFails: the failure is reported and nothing is restored.
PatchFailsKept ==
    /\ sending # <<>>
    /\ Read(With(cache, unreads, TRUE))
    /\ UNCHANGED <<github, pending>>

\* The flags as mark_read found them.
Restored == [i \in Ids |-> IF i \in DOMAIN prior THEN prior[i] ELSE cache[i]]

\* The first failure ends it: the flags are restored, the unread half of
\* the triage is still applied, and the page is read.
PatchFails ==
    /\ sending # <<>>
    /\ Read(With(Restored, unreads, TRUE))
    /\ UNCHANGED <<github, pending>>

\* Every thread was accepted.
Flushed ==
    /\ loading
    /\ sending = <<>>
    /\ Read(With(cache, unreads, TRUE))
    /\ UNCHANGED <<github, pending>>

\* A refresh lands beside all this: the rows are what GitHub says.
Land ==
    /\ cache' = github
    /\ UNCHANGED <<github, view, pending, flush>>

\* Another client reads a thread.
ReadElsewhere ==
    /\ \E i \in Ids : github[i] /\ github' = [github EXCEPT ![i] = FALSE]
    /\ UNCHANGED <<cache, view, pending, flush>>

Next ==
    \/ Move \/ Toggle \/ UnreadOnly \/ ThisRepo \/ Reconfigure \/ Reopen
    \/ StartLoad \/ Patch \/ PatchFails \/ Flushed
    \/ Land \/ ReadElsewhere

Spec == Init /\ [][Next]_vars

\* The poll loop keeps landing refreshes and each one reloads the surface;
\* a request ends within its timeout.
Fairness == WF_vars(StartLoad) /\ WF_vars(Patch \/ PatchFails) /\ WF_vars(Flushed)

FairSpec == Spec /\ Fairness

-----------------------------------------------------------------------------
(* Properties.                                                              *)

\* No row looks read that GitHub never had as read, unless the toggle that
\* did it is still queued or being sent: triage that fails or is dropped
\* hides no notification (flush_pending, set_read_state, load).
NoFalseRead ==
    \A i \in DOMAIN page :
        ~page[i] /\ github[i] =>
            \/ \E k \in DOMAIN pending : pending[k] = <<i, FALSE>>
            \/ loading

\* The inductive invariant behind it: what GitHub has unread, the cache has
\* too, but for what is being sent; and what a failure would restore has it.
NothingIsLost ==
    /\ \A i \in Ids : github[i] => cache[i] \/ i \in Range(sending)
    /\ Range(sending) \subseteq DOMAIN prior
    /\ \A i \in DOMAIN prior : github[i] => prior[i]

TriageInv == TypeOK /\ NothingIsLost /\ NoFalseRead

CursorOnRow == Shown(page, triage) # {} => Focused # None

\* Whatever is pressed or loaded, the cursor ends on a row if there is one;
\* only a change of variants can leave it beyond the last row until the next
\* key or load (move_cursor, clamp_cursor, reconfigure).  And where read rows
\* leave, Enter moves on: with an unread row displayed below the one just
\* read, the cursor does not stay on what was read.  Ungrouped sinking does
\* the same; grouped sinking does not, see SweepMovesOn.
CursorKeepsUp ==
    [][/\ cursor' # cursor \/ page' # page => CursorOnRow'
       /\ Toggle /\ page[Focused] /\ (triage = "hide" \/ (triage = "sink" /\ ~grouped))
             /\ (\E k \in DOMAIN Rows : k > cursor + 1 /\ page[Rows[k]])
          => /\ Focused' # Focused
             /\ page'[Focused']]_vars

\* On a surface that stays, what was toggled is eventually sent or reported.
TriageIsSent == pending # <<>> ~> pending = <<>>

\* Claimed at notifications.rs:751 for hide and sink alike: the index the
\* cursor holds names the next row, so that a clean sweep is a run of Enter.
SweepMovesOn ==
    [][Toggle /\ page[Focused] /\ triage \in {"hide", "sink"}
          /\ (\E k \in DOMAIN Rows : k > cursor + 1 /\ page[Rows[k]])
        => Focused' # Focused]_vars

\* Claimed at notifications.rs:692: the filter line is honest about every
\* narrowing in force.  What it names narrows what is listed: no row is of
\* another repository, and none is read unless it was just toggled.
FilterIsInForce ==
    \A i \in DOMAIN page :
        /\ query.repo \in {None, RepoOf[i]}
        /\ query.unreadOnly => page[i] \/ \E k \in DOMAIN pending :
                                             pending[k][1] = i

\* Claimed at notifications.rs:754: an accidental press is undone by
\* pressing again.  A row toggled twice is flushed as it was.
PressingAgainUndoes ==
    [][~loading /\ loading' =>
        \A i \in Ids :
            Cardinality({k \in DOMAIN pending : pending[k][1] = i}) = 2
                => (i \in unreads' <=> cache[i])]_vars
=============================================================================
