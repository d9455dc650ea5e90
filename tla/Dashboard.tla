----------------------------- MODULE Dashboard -----------------------------
(***************************************************************************)
(* The dashboard, from GitHub's counts to the screen: the fetch that asks  *)
(* for every section's count in batches (omaghy-sync, sync_dashboard;      *)
(* omaghy-api, search.rs), the list metadata it leaves in the cache, one   *)
(* transaction a section, the read that ages the whole screen by its       *)
(* oldest section (omaghy-cache, store.rs), and the surface that draws it  *)
(* (omaghy-tui, surfaces/dashboard.rs).                                    *)
(*                                                                         *)
(* The write holds the cache's lock from its first transaction to its      *)
(* last, so no read of this process falls between two of them; a kill      *)
(* does, and what the next process makes of the half that was written is   *)
(* part of the model.  Who asks, and how a claim ends, is Refresh.tla's.   *)
(***************************************************************************)
EXTENDS Integers, Sequences, FiniteSetsExt

CONSTANTS
    Queries,  \* GitHub searches
    Configs,  \* what `[dashboard] sections` may hold, as sequences of queries
    Batch,    \* SEARCH_BATCH: searches in one request, 20 in the code
    Ttl,      \* ttl::DASHBOARD
    MaxTotal, \* bound: the counts GitHub gives
    MaxClock, \* bound: ticks of the clock
    Heights,  \* lines left for the sections, against as few as Configs has of
              \* them: the body's, less the line of a banner (widgets/state.rs)
    None

ASSUME DashboardAssumption ==
    /\ Configs \subseteq Seq(Queries)
    /\ {Batch, Ttl, MaxTotal, MaxClock} \subseteq Nat
    /\ Heights \subseteq Nat \ {0}
    /\ Batch > 0
    /\ None \notin Queries

VARIABLES
    clock,
    github, \* what GitHub counts
    lists,  \* list_meta of each dashboard list key
    cfg,    \* the sections this process was started with
    job,    \* the fetch in flight
    event,  \* an Updated(Dashboard) the application has yet to receive
    data,   \* Dashboard.data
    broken, \* Dashboard.error: what the last read failed with, if it failed
    cursor

surface == <<data, broken, cursor>>
vars == <<clock, github, lists, cfg, job, event, surface>>

Totals == 0 .. MaxTotal
Ticks == 1 .. MaxClock

\* ListMeta; `genuine` when the total was GitHub's at some moment from the
\* start of the fetch that wrote it to its stamp (history).
Meta == [total: Totals, at: Ticks, genuine: BOOLEAN]
\* A fetch asks batch by batch and keeps the answers for the end; `seen` is
\* what GitHub has counted since it began (history).
Idle == [stage |-> "idle", got |-> <<>>, now |-> 1,
         seen |-> [q \in Queries |-> {}]]
Row == [query: Queries, count: Totals, meta: Meta \cup {None}]
Page == [rows: Seq(Row), at: Ticks \cup {None}, stale: BOOLEAN,
         refreshing: BOOLEAN]

\* The two kinds of StoreError the surface and classify tell apart here.
ReadErrors == {"offline", "failed"}

TypeOK ==
    /\ clock \in Ticks
    /\ github \in [Queries -> Totals]
    /\ lists \in [Queries -> Meta \cup {None}]
    /\ cfg \in Configs
    /\ job.stage \in {"idle", "asking", "writing"}
    /\ job.got \in Seq(Totals \cup {None}) /\ Len(job.got) <= Len(cfg)
    /\ job.now \in Ticks
    /\ job.seen \in [Queries -> SUBSET Totals]
    /\ job.stage = "idle" => job = Idle
    /\ event \in BOOLEAN
    /\ data = None \/ data \in Page
    /\ broken \in ReadErrors \cup {None}
    /\ cursor \in Nat

-----------------------------------------------------------------------------
(* The read: Store::dashboard over the cache.                               *)

\* One row per section; a list never fetched counts as 0.
Sections(metas, config) ==
    [i \in DOMAIN config |->
        LET m == metas[config[i]] IN
        [query |-> config[i],
         count |-> IF m = None THEN 0 ELSE m.total,
         meta  |-> m]]

Fetched(rows) == {rows[i].meta : i \in DOMAIN rows} \ {None}

\* The newest section would say little of the others.
Newest(rows) == IF Fetched(rows) = {} THEN None
                ELSE Max({m.at : m \in Fetched(rows)})

\* `oldest`, over the sections that were ever counted.
Oldest(rows) == IF Fetched(rows) = {} THEN None
                ELSE Min({m.at : m \in Fetched(rows)})

\* Fresh::never and from_cache, then stale again for a missing section.
ReadDashboard(metas, config, refreshing) ==
    LET rows == Sections(metas, config)
        at == Oldest(rows)
    IN [rows       |-> rows,
        at         |-> at,
        stale      |-> \/ at = None
                       \/ clock - at > Ttl
                       \/ \E i \in DOMAIN rows : rows[i].meta = None,
        refreshing |-> refreshing]

-----------------------------------------------------------------------------
(* What is drawn.                                                           *)

SectionsOn == IF data = None THEN <<>> ELSE data.rows

\* Dashboard.state and classify: a page no section of which was ever counted
\* is a skeleton, whatever the number of sections, and an unreachable server
\* leaves what was read under a banner.
State ==
    LET items == IF data # None /\ data.at # None THEN Len(data.rows) ELSE 0 IN
    CASE broken = "failed"                       -> "error"
      [] broken = "offline" /\ items > 0         -> "offline-with-cache"
      [] broken = "offline" /\ items = 0         -> "offline-without-cache"
      [] broken = None /\ items > 0              ->
            IF data.refreshing THEN "refreshing"
            ELSE IF data.stale THEN "stale" ELSE "populated"
      [] broken = None /\ items = 0 /\ data # None /\ data.at # None -> "empty"
      [] OTHER                                   -> "cold"

\* StateView.render leaves room for the sections.
Drawn == State \in {"refreshing", "stale", "populated", "offline-with-cache"}

\* needs_provenance_note; every read here is from the cache.
Note == data # None /\ (data.stale \/ data.refreshing)

\* section_line says "nothing", with a tick, for a count of 0.
SaysNothing(i) == Drawn /\ data.rows[i].count = 0

\* title: how many sections need you, and what it admits of that.
Title ==
    [live    |-> IF data = None \/ data.at = None THEN None
                 ELSE Cardinality({i \in DOMAIN data.rows : data.rows[i].count > 0}),
     of      |-> Len(SectionsOn),
     cached  |-> data # None /\ data.at # None /\ Note]

\* render_sections: the detail line goes under the sections, a line apart, in
\* a body that has room for all of them besides.
HasDetail(n, height) == height >= n + 2
RowLines(n, height) == IF HasDetail(n, height) THEN n ELSE height

\* ratatui's List: scrolled as little as brings the selected line in.
Scrolled(from, selected, height) ==
    CASE selected < from           -> selected
      [] selected >= from + height -> selected - height + 1
      [] OTHER                     -> from

\* The sections that have a line, wherever the last frame was scrolled to.
SectionsDrawn(from, height) ==
    LET n == Len(SectionsOn)
        lines == RowLines(n, height)
        first == Scrolled(Min({from, n - 1}), cursor, lines)
    IN {i \in 1 .. n : first < i /\ i <= first + lines}

\* skeleton: bars, and the word loading on the last line of several.
SkeletonLines(height) == Max({1, height - 1}) + (IF height > 1 THEN 1 ELSE 0)

-----------------------------------------------------------------------------
(* The process starts, on this surface: push reads, then on_enter asks.     *)

Asked == [stage |-> "asking", got |-> <<>>, now |-> 1,
          seen |-> [q \in Queries |-> {github[q]}]]

Opened(config, metas) ==
    /\ cfg' = config
    /\ data' = ReadDashboard(metas, config, FALSE)
    /\ job' = Asked
    /\ event' = FALSE
    /\ broken' = None
    /\ cursor' = 0

Init ==
    /\ clock = 1
    /\ github \in [Queries -> Totals]
    /\ lists = [q \in Queries |-> None]
    /\ cfg \in Configs
    /\ data = ReadDashboard(lists, cfg, FALSE)
    /\ job = Asked
    /\ event = FALSE
    /\ broken = None
    /\ cursor = 0

\* The process ends, at any step of a fetch, and another starts after it
\* with whatever the file then says.
Restart == \E config \in Configs :
    /\ Opened(config, lists)
    /\ UNCHANGED <<clock, github, lists>>

\* Time passes, and GitHub's counts with it.
Tick ==
    /\ clock < MaxClock
    /\ clock' = clock + 1
    /\ github' \in [Queries -> Totals]
    /\ job' = IF job.stage = "asking"
              THEN [job EXCEPT !.seen =
                       [q \in Queries |-> @[q] \cup {github'[q]}]]
              ELSE job
    /\ UNCHANGED <<lists, cfg, event, surface>>

-----------------------------------------------------------------------------
(* The fetch.                                                               *)

\* `r`, the poll task, or entering the surface again.
Ask ==
    /\ job.stage = "idle"
    /\ job' = Asked
    /\ UNCHANGED <<clock, github, lists, cfg, event, surface>>

\* counts_batch: one answer per alias, in the order asked, and an error of
\* its own for a search GitHub could not count.
CountBatch ==
    /\ job.stage = "asking"
    /\ Len(job.got) < Len(cfg)
    /\ LET first == Len(job.got) + 1
           last == Min({Len(cfg), Len(job.got) + Batch})
       IN \E counted \in SUBSET (first .. last) :
             job' = [job EXCEPT !.got = @ \o
                        [k \in 1 .. last - first + 1 |->
                            IF first + k - 1 \in counted
                            THEN github[cfg[first + k - 1]]
                            ELSE None]]
    /\ UNCHANGED <<clock, github, lists, cfg, event, surface>>

\* No data at all: the batches before this one are discarded with it.
\* Leaving the surface aborts the fetch at the same await.
CountFails ==
    /\ job.stage = "asking"
    /\ job' = Idle
    /\ UNCHANGED <<clock, github, lists, cfg, event, surface>>

\* store.now(), then the lock.  Without a section there is nothing to write.
Counted ==
    /\ job.stage = "asking"
    /\ Len(job.got) = Len(cfg)
    /\ IF cfg = <<>>
       THEN job' = Idle /\ event' = TRUE
       ELSE job' = [job EXCEPT !.stage = "writing", !.now = clock]
            /\ UNCHANGED event
    /\ UNCHANGED <<clock, github, lists, cfg, surface>>

\* A failed alias counted as nothing, as `unwrap_or(0)` would.
StoredAsNothing(old, answer, seen, now) ==
    LET total == IF answer = None THEN 0 ELSE answer
    IN [total |-> total, at |-> now, genuine |-> total \in seen]

\* What put_list leaves for a section: nothing new when it was not counted.
Stored(old, answer, seen, now) ==
    IF answer = None THEN old
    ELSE [total |-> answer, at |-> now, genuine |-> answer \in seen]

\* One section's transaction; after the last the fetch announces itself.
Put ==
    /\ job.stage = "writing"
    /\ LET q == cfg[Len(cfg) - Len(job.got) + 1]
           rest == Tail(job.got)
       IN /\ lists' = [lists EXCEPT ![q] =
                          Stored(@, Head(job.got), job.seen[q], job.now)]
          /\ IF rest = <<>>
             THEN job' = Idle /\ event' = TRUE
             ELSE job' = [job EXCEPT !.got = rest] /\ UNCHANGED event
    /\ UNCHANGED <<clock, github, cfg, surface>>

\* A transaction fails: those before it stand, those after it are not tried.
PutFails ==
    /\ job.stage = "writing"
    /\ job' = Idle
    /\ UNCHANGED <<clock, github, lists, cfg, event, surface>>

-----------------------------------------------------------------------------
(* The surface.                                                             *)

\* `load` keeps the cursor on a section.
Within(c, n) == Min({c, IF n = 0 THEN 0 ELSE n - 1})

\* on_store reads again for an Updated, and only its own is one this surface
\* cares about: the global events are no Updated and only redraw.  The read
\* waits for a write to end.
Load ==
    /\ event
    /\ job.stage # "writing"
    /\ event' = FALSE
    /\ \/ /\ data' = ReadDashboard(lists, cfg, job.stage = "asking")
          /\ broken' = None
          /\ cursor' = Within(cursor, Len(data'.rows))
       \/ /\ broken' \in ReadErrors
          /\ cursor' = Within(cursor, Len(SectionsOn))
          /\ UNCHANGED data
    /\ UNCHANGED <<clock, github, lists, cfg, job>>

\* j, k, g and G.
MoveCursor ==
    /\ SectionsOn # <<>>
    /\ cursor' \in {Within(cursor + 1, Len(SectionsOn)), Max({cursor - 1, 0}),
                    0, Len(SectionsOn) - 1}
    /\ UNCHANGED <<clock, github, lists, cfg, job, event, data, broken>>

Next ==
    \/ Restart \/ Tick
    \/ Ask \/ CountBatch \/ CountFails \/ Counted \/ Put \/ PutFails
    \/ Load \/ MoveCursor

Spec == Init /\ [][Next]_vars

-----------------------------------------------------------------------------
(* Safety.                                                                  *)

\* The section keeps a count GitHub gave for that very search, in the time
\* between the fetch's start and the moment it is stamped with, through
\* batches, failed aliases, failed transactions, kills and other sections.
CountsWereTrue ==
    data # None => \A i \in DOMAIN data.rows :
        data.rows[i].meta # None => data.rows[i].meta.genuine

\* A screen that does not admit to being old is not: when it was read every
\* section had been counted, and none longer than the time to live ago.
\* A dashboard is only as fresh as its stalest section (store.rs).
FreshIsFresh ==
    [][ data' # data /\ data' # None /\ ~Note' => \A i \in DOMAIN data'.rows :
            LET m == data'.rows[i].meta IN m # None /\ clock - m.at <= Ttl ]_vars

\* A short body scrolls to the section Enter would open and takes no line
\* beyond its own, and is full while nothing is fetched; and no section that
\* was never counted is said to need anybody.
DashboardIsDrawn ==
    /\ Drawn => \A height \in Heights : \A from \in 0 .. Len(SectionsOn) :
          LET drawn == SectionsDrawn(from, height) IN
          /\ cursor + 1 \in drawn
          /\ Cardinality(drawn) + (IF HasDetail(Len(SectionsOn), height) THEN 2 ELSE 0) <= height
    /\ State = "cold" => \A height \in Heights : SkeletonLines(height) = height
    /\ Title.live # None =>
          Title.live <= Cardinality({i \in DOMAIN SectionsOn : SectionsOn[i].meta # None})

\* A section that was never counted beside one that was: sync_dashboard
\* says that zero is a claim, and the wrong one to make out of a failure.
\* The row says "nothing" with a tick all the same.
NothingIsTrue ==
    Drawn => \A i \in DOMAIN data.rows : SaysNothing(i) => data.rows[i].meta # None

\* The detail line is "the first thing to go", a section not visible being
\* worse.  A body that was too short, scrolled and grew keeps its scroll, and
\* draws the detail line below a list that has lost its first sections.
SectionsAreSeen ==
    Drawn => \A short, tall \in Heights :
        LET n == Len(SectionsOn)
            scrolled == Scrolled(0, cursor, RowLines(n, short))
        IN HasDetail(n, tall) => SectionsDrawn(scrolled, tall) = DOMAIN SectionsOn

\* No sections is a choice: a dashboard that has been fetched says it has
\* none.  The cache keeps no list for it, and it stays a skeleton.
EmptyIsSaid ==
    [][ Load /\ broken' = None /\ cfg = <<>> => State' = "empty" ]_vars
=============================================================================
