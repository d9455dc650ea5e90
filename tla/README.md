# omaghy in TLA+

Models of [omaghy](../README.md), a terminal client for GitHub: what it keeps,
what it fetches and when, what it shows, and what may go wrong in between. Each
module is translated from the Rust source under `crates/`; `PROJECT.json` names,
for every definition, the lines it stands for, and lists the hazards the
properties are about.

## 1. The system

omaghy is one process on a multi-thread tokio runtime. The UI task reads only
from the cache; background tasks fetch from GitHub and write to it; events on a
broadcast channel say that something changed and carry no data.

```
   keys --> App / Surface --(read, refresh, cancel, mark_read)--> SqliteStore
     |           ^                                                 |       ^
     |           +--------- broadcast: StoreEvent -----------------+       |
     v                                                 schedule, cancel    | with_cache,
 config.toml                                                       v       | refresh_finished
   poll tasks --(refresh)--> SqliteStore               Syncer --spawns--> Job
                                                                           |
                     cache.db <-- schema::open         GitHubClient::send + Governor --> GitHub
```

| component | state | operations | what is hard |
|---|---|---|---|
| refresh pipeline: `omaghy-cache/src/store.rs`, `omaghy-sync/src/lib.rs` | `in_flight` (claims), `running` (handles), the tasks | `refresh`, `cancel`, `refresh_finished`, `refresh_failed`, `schedule`, `Job::run` | two mutexes that no operation holds together; abort takes effect only at an await; several callers |
| inbox synchronisation: `sync_notifications`, `enrich`, `set_read_state` | the `notifications` table, its `list_meta` row | fetch a page or a 304, enrich absent rows, mark read and roll back | rows copied before an await and written after it; answers landing late; a crash between two transactions |
| wire: `omaghy-api` `notifications.rs`, `graphql.rs`, `client.rs` | validators, rows being enriched | conditional list request, decode a thread, ask for up to a batch of subjects in one query, hand out the answers | an error inside a 200; some subjects fail and others do not; a validator of one page kept with another |
| governor and retry loop: `ratelimit.rs`, `client.rs`, `retry.rs`, `error.rs` | two budgets, one block, the strikes; the attempts of each call | `check`, `observe`, `block_until`, `note_secondary_limit`, `note_success`, `send` | answers out of order and lost; time; two resources behind one set of headers |
| poll loop: `omaghy-sync/src/poll.rs` | per target: last fetch, failures; the poll task | look, sleep the remainder, fire, rest | who holds the store across a sleep; fetches by others; back-off |
| dashboard counts: `sync_dashboard`, `search.rs`, `SqliteStore::dashboard` | a count and a time per section | fetch all in batches, keep what failed, age the whole by its oldest part | partial failure, staleness, a kill between two writes |
| the two stores: `omaghy-cache/src/{cache,store}.rs`, `omaghy-store/src/fake.rs` | rows in tables, rows in memory | put, mark, read under a filter | one trait, two implementations; two accounts in one table; rows under several spellings of a query |
| cache file: `omaghy-cache/src/schema.rs` | the database and its version stamp | open, check, build, stamp, rebuild | a crash between any two statements; another process |
| application shell: `omaghy-tui/src/app.rs` | the surface stack, overlays, the progress message | push, replace, pop, keys, store events | events lost by a lagging receiver, cancels on leaving, keys while a load awaits |
| notifications surface: `surfaces/notifications.rs` | a page, a query, a cursor, queued triage | keys, load, flush, draw | a cursor over a list that changes; triage not yet sent; rows that look alike |
| dashboard and pull request surfaces | a page or a document, a cursor, a scroll | keys, load, draw | a document that shrinks under its scroll |
| settings and configuration file: `config.rs`, `omaghy/src/config_file.rs` | values, where each came from, `config.toml` | read at start, change, write one key | a setting applied whose write failed; an editor at the same file |
| palette, panels, text: `omaghy-tui/src/widgets/` | a query, a selection; a terminal's size | score, pick, wrap, elide, draw | boundaries; small terminals |
| transport, authentication, theme, terminal, cassettes | none | I/O, test equipment | |

What makes each correct, in a sentence: a target is fetched once at a time and
every request is answered; what the cache vouches for is there, and details
belong to their rows; nothing is refused that GitHub would allow, and GitHub's
instructions are obeyed; polling neither stops nor outlives the program; the
screen never claims what was not fetched nor hides where it stands; triage
reaches the store; settings say what a restart would read; a damaged or old
cache costs one bad read.

## 2. The modules

| module | models | implements or is composed with |
|---|---|---|
| `RefreshContract` | what `Store::refresh` promises: a target is idle, asked or fetching, and goes round | abstract |
| `Refresh` | claims, handles, tasks and events, one action per lock taken | implements `RefreshContract` |
| `Inbox` | the cached inbox, its three writers, and a GitHub that moves on | |
| `Wire` | threads decoded, subjects asked about and answered, validators | instantiated by `Edges` |
| `Governor` | `send`, the governor, GitHub's budgets, the network | |
| `Poll` | the poll tasks, the fetches they see, the life of the store | |
| `Shell` | the stack of surfaces, overlays, the event loop, a bounded channel | |
| `Triage` | the inbox surface's list, cursor and queue over a cache and a GitHub that change | |
| `Dashboard` | counts from GitHub through the cache to the lines of the screen | extended by `Screens` |
| `Settings` | the panel, the program's settings and `config.toml` | extended by `Edges` |
| `CacheFile` | opening, checking, stamping and rebuilding `cache.db`, by several processes | instantiated by `Edges` |
| `Stores` | `SqliteStore` and `FakeStore` given the same calls | instantiated by `Edges` |
| `Text` | wrapping and column widths | extended by the three below |
| `Ordering` | a set put in order by a relation | extended by `Triage`, `InboxScreen`, `Palette` and `Stores` |
| `PullRequests`, `InboxScreen`, `Panels` | what is drawn of pull requests, of the inbox, and around them | instantiated by `Screens` |
| `Palette` | fuzzy matching, selection and what Enter runs | instantiated by `Screens` |
| `Edges`, `Screens` | the components above that share nothing, each by itself | extend one, instantiate the others |
| `RefreshProofs`, `InboxProofs`, `GovernorProofs`, `ShellProofs`, `TriageProofs`, `EdgesProofs`, `ScreensProofs` | theorems for every value of the constants | extend the module of their name, `InboxProofs` also `Poll` |
| `DocumentProofs` | what wrapping, folding and counting make of a pull request | extends `Screens`, extended by `ScreensProofs` |
| `MCRefresh`, `MCGovernor`, `MCPoll`, `MCTriage`, `MCEdges`, `MCScreens` | constants for TLC | |

The modules meet where one crate calls another. `Refresh` owns *when* a fetch
runs; `Inbox` owns *what* it reads and writes, with at most one list fetch at
its await, one late one past it, and one enrichment -- which is what `Refresh`
guarantees of the details, a target nobody cancels; `Wire` owns how an answer
is read; `Governor` owns what an await of the network does; `Poll` abstracts a
fetch to one that ends; `Shell` owns who asks and who stops listening, with a
claim and its task taken together; the surfaces own what is made of a page.

`Edges` and `Screens` are not compositions: a behaviour belongs to one of
`Parts` or `Fronts` and the others stand still, because these components touch
nothing of one another (a key goes to the surface in front). They share a run,
and where two have a cursor or a terminal size, a variable.

Some operators are plausible mistakes in the operator after them, and nothing
uses them: `RestoredAllAlike` before `Restored`, `DrawDetailAsIs` before
`DrawDetail`. `PROJECT.json` lists them under `mutants`. Putting one in the place
of the other breaks a property, which is how each property is known to depend on
the code.

### Refresh

`inFlight` is `SqliteStore.in_flight`, `running` is `Syncer.running`, and `phase`,
`target`, `ok` are the locals of each spawned `Job::run`. `step` and `goal` say
how far a thread is through `Store::refresh`: claimed (`in_flight.insert`
returned true), announced (`RefreshStarted` sent), and gone. The UI's cancel is
`Leave` (the claim) and `Abort` (the handle). A job is `fetching` while it
awaits, and only then can an abort stop it; it then removes the handle
(`Unlist`), the claim (`Settle`), and announces. The identity of a task is
reused when it ends, so that runs of any length are covered with few of them.

### Inbox and Wire

A thread's content is a version. `server` is GitHub; `rows` and `meta` are the
two tables; `list`, `late`, `enrich`, `mark` are the asynchronous functions
under way with what they carry across their awaits. The cache is one connection
behind one mutex, so each `with_cache` closure is an action; the one closure
that holds two transactions can be cut by a crash (`CrashLanding`). A page's
validator is the page: GitHub answers 304 exactly when the page has not changed.

`Wire` opens up the two requests. `Poll` sends the list request under the
stored validators and takes a 200 or a 304 as `rest` does; `Select` makes rows
pending and groups them by target; `Ask` builds one query of at most `Batch`
aliases; `Answer` hands each row its own, failed or settled; `AskFails` restores
what was pending; `Keep` is the caller, who keeps the rows of an `Ok` only. An
address is a sequence of path segments and a GraphQL node is a record of the
fields the fragments name.

### Governor

An instant is the time left until it, so that time passes for ever in finitely
many states. A call is checked, waits, is sent, answered, observed, and then
concluded by `note_success`, `block_until`, `note_secondary_limit` or nothing,
each of which is a lock of its own in the code. GitHub keeps a budget per
resource that resets every window. Only whether a budget is spent matters to
`check`; the counts the footer shows are left out.

### Poll

`since`, `failures` are the two maps of the `Syncer`; a task looks (upgrades its
`Weak`, computes the interval), decides, sleeps or fires, and rests. `Alive` is
the reference count: the TUI, a job, or a poll task that holds what it upgraded
(`Holds`), which it does while it looks and, by the second pair of `Arc`s in the
loop's body, while it rests. `start_polling` always starts two tasks, and so does
the run. `advertised` is what the governor keeps of `X-Poll-Interval`;
`CachedInterval` is the row of the cache that `interval_for` reads instead, and
nothing writes. `paced` is history: the time since a task's last tick. The code
between two awaits takes no time, so `Tick` waits for it.

### Shell

`stack`, `open`, `status`, `progress` are fields of `App`; `queue` and `lagged`
are the broadcast receiver, which drops what exceeds `Capacity`; `claims`,
`fetching`, `landed` and `chaining` stand for `Refresh`. A surface is reduced to
whether the cache has changed since it was read (`view`) and whether another
covers it. Pushing a surface awaits its first read, so `Push` and `Load` are two
steps, between which tasks run and keys do not. `Lag` is the arm of the `select!`
that finds events missing and then, until a key or a resize, listens to the
store no more (`deaf`). `asker` and `slipped` are history.

### Triage and InboxScreen

`github`, `cache` and `page` are three copies of the read state, `pending` the
queue of toggles. A load flushes the queue (`StartLoad`: reads first, then
unreads), sends one PATCH at a time (`Patch`, `PatchFails` with its rollback to
`prior`) and reads the page (`Flushed`), all awaited by the application's one
task; `Land` and `ReadElsewhere` are everybody else. `Orders` is the display
order under hide, sink or grey, grouped or flat, with the cursor an index in it.
`InboxScreen` takes the same list to lines and cells under each of the
`Variants`, and keeps ratatui's scroll offset between draws. A repository is an
owner and a name in letters; `FitRepo` cuts it to its column as `fit_repo` does,
the owner first, `WholeParts` ends a second line after the last part that is not
cut (`Spelling` has how many cells each word takes), and `HeaderLine` has a
group's label where there is room for it. Both put rows in
order by rank (`Ordering`): what the code does by stable sort and partition is
said by which row comes before which, and a header is at the place before the
rows of its group.

### Dashboard

`Ask`, `CountBatch`, `CountFails`, `Counted` and `Put` are `sync_dashboard`; the
list rows are written one transaction each under one lock, so `Load` waits for
the last of them, and `Restart` -- a kill, with another configuration perhaps --
does not. `seen` and `genuine` are history: what GitHub answered for a search
since the fetch began. The rest is the surface: what a read that fails leaves on
the screen (`State`: an unreachable server leaves what was read, under a banner),
which sections have a line in a body of some height, what the title and each
line say.

### Settings and CacheFile

`file` is `config.toml` reduced to what reader and writer tell apart: is it
there, text, TOML; the shape of each section; the value on each line; and where
comments stand, above a key, beside its value or at a section's header, which is
where `toml_edit` keeps them (`Places`). A write loses those at what it replaces
or removes (`Inserted`, `Unset`, `Dropped`). `Start`
reads it and may refuse; `Change` cycles a value, tells every stacked surface
and writes one key, and the write succeeds, fails or is cut short
(`KilledWriting`: `fs::write` truncates first); `EditKey`, `EditSection`,
`EditFile` and `Annotate` are somebody's editor. `CacheFile` has one action for each statement
of `open` and `try_open`, a process that may be killed at any (`End`), and a
name that may come to stand for another file while a process has the old one.

### Stores, PullRequests, Palette, Panels, Text

Algorithms more than protocols. `Stores` gives each viewer a `FakeStore` and all
of them one table, and lets the same pages, marks and rollbacks reach both.
`PullRequests` builds a document from a title, a body, two CI systems and a
timeline whose runs of minor events fold, and scrolls it as keys, reloads and
resizes come. `Palette` scores and orders as the code does, letter by letter.
`Panels` lays out the header, the footer, messages, notices, help and settings.
`Text` wraps, a word being its width in cells, and elides; a repository's name
is letter by letter, since a cut one tells its first letters.

## 3. The runs

| run | instance | properties | shows |
|---|---|---|---|
| `refresh_leave` | 2 targets, the inbox cancellable; UI and a poll task; 3 tasks | `OneRequest` `ClaimIsOwned` `HandleIsLive` `ImplementsContract` | no interleaving fetches a target twice, loses a claim, or aborts a stranger |
| `refresh_stay` | the same, nothing cancelled, fair | `EveryStartIsAnswered` `ImplementsFairContract` | what is started is answered, what is accepted is fetched |
| `inbox_safe` | 1 thread, 3 activities, a restart, cancels | `ValidatorImpliesRows` `DetailsAreOfThisRow` | a validator has its rows; details are never older than the row |
| `inbox_fair` | 2 threads, a page and a batch of 1, fair | `AbsentRowIsCurrent` `DetailsArrive` | nothing awaits its details for ever, though the batch is smaller than the inbox |
| `governor` | 2 calls, budgets of 2, windows of 2, all statuses | `RefusesOnlyRightly` `MutationSentOnce` `BlockNeverShortens` | no false outage, no repeated PATCH, no shortened block |
| `governor_live` | 1 call after another, 3 attempts, 3 strikes, fair | `NeverShutForGood` `EveryCallReturns` | penalties end and calls return |
| `poll` | both poll tasks, one below the floor and one above the back-off, fair | `NeverOversleeps` `NeverTooSoon` `KeepsLooking` `OnlyOverlapsHold` | the loop is on time, keeps its pace, is persistent, and no task lives on by itself |
| `shell` | 2 surfaces to start on, a stub by key, depth 2, a channel of 2, fair | `NeverBehind` `MessageIsTrue` `WorkIsForTheScreen` `ScreenCatchesUp` | the screen is as new as the cache or an event is on its way; messages name what runs |
| `triage` | 3 rows of 2 repositories, 2 queued toggles, hide and sink, fair | `NoFalseRead` `CursorKeepsUp` `TriageIsSent` | nothing unread is hidden, the cursor is on a row, triage is sent |
| `edges` | 2 settings, 2 edits; 2 processes and 2 files; 3 inboxes of 7 kinds of thread; 2 viewers | `SettingsAreTold` `OthersUntouched` `OpensAsOwn` `RowsGetTheirAnswers` `ValidatorsAreOfThisPage` `StoresAgree` | see below |
| `screens` | 2 searches in batches of 1; documents, lists, an inbox, a palette and panels at several sizes | `CountsWereTrue` `FreshIsFresh` `FocusIsDrawn` `DrawnFits` `DocumentIsComplete` `RowsAreToldApart` `NameFindsIt` `NothingIsPushedOut` | see below |
| `settings_lockout` | the default route and one more setting | `StartsAgain` **violated** | a route the panel offers, once saved, keeps the program from starting |

`edges` shows that a row of the settings panel tells what a restart would read
and every stacked screen follows it; that a write touches its own line and no
other, and no comment but those at what it replaces or removes; that a start
ends on a whole cache of its own schema wherever an earlier one was killed; that
each row gets its own subject's answer when several share a query and some fail,
and none is left pending; that both validators vouch for the page they are kept
with; and that a surface cannot tell the store it was built against from the
real one by the rows it is given.

`screens` shows that a count on screen was GitHub's for that search during the
fetch it is stamped with, and that a screen that does not admit to being old is
not; that the row or section the cursor is on is drawn (of the dashboard, that
is part of `DrawnFits`); that no document is scrolled past its end and none
leaves out an event, a word or a check; that rows which look alike are alike, as
far as there is room to say it; that typing an action's name picks it; and that
the way out, the end of a sentence, and what is asked of the reader
(`FocusIsTold`) survive small terminals.

`RowsAreToldApart` is of terminals of 80 columns or more, and stops where the code
does. A repository's column is 20 cells: of a longer one the owner goes, then the
end of the name, so two names that agree for 17 cells, or two owners of one name,
are drawn alike. A group's header is elided to the width less its count, and a
second line to the width less its indent, so a long repository pushes out what
comes after it, the state too. Such rows are exempt (`RepoIsCut`, `StateIsCut`),
both of a pair at once, and the run has inboxes and lists in which each cut
happens. Nothing in `spec/30-ui.md` says that they can be told apart.

### Bounds, and why they are enough

* *Tasks and callers.* Three job identities let a fetch of the inbox, a fetch
  started after it was cancelled, and the details chained by either be under
  way at once; a fourth adds a second zombie of the first. The proofs need no
  such bound.
* *Versions.* Activity is bounded by `MaxClock`, the one bound on `Inbox` that
  cuts behaviours short: three versions are an old one, one that lands meanwhile
  and one that overtakes both. `MaxCrashes` is one restart; a second meets the
  states of the first. In `Wire`, `MaxNews` is three: away, back to a page that
  an old validator knows, and away again.
* *Rows.* Safety is about one row and the validator, so `inbox_safe` has one
  thread, and the proofs have any number. Progress is about a batch too small,
  so `inbox_fair` has two threads and a batch of one. `triage` has three rows of
  which the first and the last are of one repository, the least with which
  grouping reorders; `MaxPending` is two, a toggle and its undoing.
* *Strikes and failures.* `MaxStrikes` and `MaxFailures` saturate a count at the
  value where its effect has reached its own cap (`SECONDARY_CAP`, `MAX_BACKOFF`);
  an assumption of `Governor` says so.
* *Times.* Ticks are relative. The runs choose base, cap, window and
  `Retry-After` so that each can be the longest. In `poll` a tick is half a
  minute: one task is configured below the floor and one above `MAX_BACKOFF`,
  and GitHub asks for more than the floor; time elapsed is counted up to the
  longest interval there is (`Longest`), past which more is the same. In
  `Dashboard` a time to live of 0 and a clock of two ticks have a section
  counted now, one counted earlier and one never.
* *The channel.* Two events, of the 64 of the code: an event that stays, one
  that is dropped. A fetch and the details it chains announce four, so the
  channel overflows whenever the loop pauses. A stack of two has a surface that
  covers and one that is covered; the proofs have any depth and any capacity.
* *Hand-written text.* What is typed for a setting is on the ladder, off it,
  above it, and refused; a comment stands anywhere one can; two settings are one
  of each kind, of two sections (`Ids`), and two edits can break a section and
  mend it. The proofs have any.
* *Processes.* Two: what one does to another. `Files` are reused when nobody
  knows them. The file is missing, of this schema or of another, and is damaged
  once. `edges` has both processes run one binary; see the findings for two.
* *Terminals.* Sizes at both sides of each threshold of the code: the least
  that is drawn (40 by 10), that at which columns are dropped, a roomy one. The
  dashboard's body is one line, fewer than the sections, as many, and enough for
  the detail line. Repositories fit their column, lose their owner, and lose the
  end of their name; one leaves no room for a state on its line, and two have no
  header long enough. Words are shorter than a line, as long, and longer than two.
* *The palette.* Names that contain one another, names within descriptions, and
  one of thirty letters; three letters typed, of four.

In `triage` the mode `grey` changes neither order nor membership and is left to
the configurations below, which have all three. `shell` may stop, since the user
may quit; everywhere else a deadlock is an error.

### Findings

`settings_lockout` and the following check a sentence of the repository that the
code does not keep; `PROJECT.json` quotes each at its line. To see one,
`tlc -config <cfg> <module>`.

| configuration | module | claim |
|---|---|---|
| `MCRefreshOrphan.cfg` | `MCRefresh` | `NoOrphanClaim`: a refresh between the halves of a cancel leaves a claim without a fetch |
| `InboxStale304.cfg` | `Inbox` | `NotModifiedIsCurrent`: an enrichment writes an old row over a newer one, and the 304 vouches for it |
| `MCGovernorShared.cfg` | `MCGovernor` | `NoSharedOutage`: a spent REST budget refuses GraphQL |
| `MCPollClaims.cfg` | `MCPoll` | one named at a time: `GitHubWins`, the interval GitHub advertises never reaches the loop; `FailureBacksOff`, a failure shortens an interval longer than `MAX_BACKOFF`; `TasksEnd`, two poll tasks keep one another alive |
| `SettingsComments.cfg` | `MCEdges` | `CommentsSurvive`: a setting brought back to its default takes the comments above it along |
| `ShellSpinner.cfg` | `Shell` | `SpinnerEnds`: after a failed refresh the screen says "refreshing" until the next one |
| `TriageClaims.cfg` | `MCTriage` | one named at a time: `FilterIsInForce`, a filter is announced before it is applied; `PressingAgainUndoes`, reads are sent before unreads, whatever the order of the keys; `SweepMovesOn`, grouped sinking brings the row back under the cursor |
| `CacheFileMixed.cfg` | `MCEdges` | `OpensAsOwn`: two binaries of different schemas unlink each other's file |
| `CacheFileShared.cfg` | `MCEdges` | `SharedWithoutProtocol`: a second start may remove the file a first one is using |
| `StoresTotals.cfg` | `MCEdges` | `TotalsAgree`: the fake store counts after truncating |
| `ScreensClaims.cfg` | `MCScreens` | twelve claims about the screen, one named at a time: `StatusIsTold` `KindIsSaidOnce` `HintIsBound` `DetailIsOfARow` `NoteIsDrawn` `FocusedSettingIsDrawn` `WhyIsSaid` `SectionsAreSeen` `NothingIsTrue` `NamesOutrank` `SelectionOnScreen` `EmptyIsSaid` |

Met while reading, and not checked:

* a request admitted before a block is sent during it (`ratelimit.rs:124`
  against `client.rs:325`);
* intervals changed in the panel never reach the poll tasks, which `main.rs`
  gave copies (`main.rs:181`, `spec/40-config.md:222`);
* a section that is neither a table nor an inline table makes a write do nothing
  and report success (`config_file.rs:84`), and a file that cannot be read is
  overwritten (`config_file.rs:60`); the runs leave both out of `SettingsAreTold`;
* `RefreshFailed` of any target sets the status line (`app.rs:308`), and pull
  request targets are announced `Updated` without a fetch (`lib.rs:313`);
* a 304 stamps the list complete, whatever page it revalidated (`lib.rs:199`);
* the failure count is a plain `+=` under a comment that says it saturates
  (`lib.rs:330`); the detail's scroll is cast to `u16`;
* the footer says "q quit" where q goes back; the error and rate-limit screens
  replace cached rows while saying that cached data is readable.

## 4. Fairness

* *Scheduler.* A thread inside a function of the store or the syncer returns:
  weak fairness of its steps. `Refresh` asks for strong fairness of the three
  steps of `refresh` only because the model's spawn waits for a free identity,
  which the code's never does.
* *Network.* `REQUEST_TIMEOUT` is thirty seconds, so every await of a request
  ends: weak fairness of a job's, a PATCH's or a network step.
* *GitHub.* Not every request fails for ever: strong fairness of the two
  answers, in `Inbox` only, and only for `DetailsArrive`, which is false in a
  world that never answers. `Chain` is fair in the strong sense because a
  landing recurs at each poll.
* *The loop.* `App::run` selects again after every handler and tokio polls the
  branches of a `select!` in random order, so keys do not pass over an event for
  ever: strong fairness of `Receive` and `Lag` in `Shell`, weak fairness of the
  first read and of the tasks' steps. In
  `Triage` weak fairness of a load stands for the poll task, whose landings
  reload the surface; `TriageIsSent` is of a surface that stays.
* *Time* passes; of the poll loop that is said outright, since its tasks run
  before a tick and an obligation to each of them would be one to the clock
  (`PollFairness`: ticks without end, or every task ended). Nobody is obliged to
  press a key, leave a surface, start a call or quit; `refresh_stay` and
  `inbox_fair` say in their constants that nothing is cancelled, since a user
  who leaves at every fetch lets none land.

## 5. The proofs

`tlapm` checks every theorem from nothing. Between them the theorems state every
safety invariant and every action property of the passing runs; what TLC shows
of those on a small instance holds for every value of the constants that the
assumptions below allow.

**`RefreshProofs`.** The invariant the runs check is not inductive by itself:
that a claim is dropped by its own fetch needs to know that the handle in
`running` is that fetch's, and that needs to know which phases a listed task can
be in. `IInv` adds `TasksAreTidy` (a task with no target is idle or chaining, a
thread with no goal is outside `refresh`, a job calls `refresh` only when it
chains) and `FetchIsListed` (a fetch of a target nobody cancels has its handle
in `running`) to `TypeOK`, `OneRequest`, `ClaimIsOwned` and `HandleIsLive`. The
lemmas take the actions one by one. From `IInv` follow `TypeCorrect`,
`Coalescing`, `ClaimsAreOwned`, `HandlesAreLive`, for any sets of targets,
callers and jobs and any `MayAsk`, and `Refinement`: every step of the pipeline
is a step of `RefreshContract` or leaves its state alone.

**`InboxProofs`.** `ValidatorImpliesRows` is inductive only with what every job
carries: the validator a conditional request was sent with, that of a late
answer, and that in `meta` all have their rows (`PagesAreKnown`), rows are never
forgotten, and an enrichment writes back only rows that were there
(`WantedIsCached`). `DetailsAreOfThisRow` needs that nothing held anywhere --
rows, the copies of an enrichment, pages -- is newer than GitHub (`RowsAreGood`).
The theorems `TypeCorrect`, `ValidatorsHaveRows` and `DetailsMatchRows` hold for
any set of threads, page size, batch and number of restarts.
`AbsentRowsAreCurrent` is of a screen that is not left (`~MayCancel`, as in
`inbox_fair`; a cancel lets an old fetch land late). Then the validator a fetch
carries is the one stored, what GitHub answers is no older than that one, and no
enrichment writes back a row without its detail (`CalmInv`).

Of the poll loop, which is proved about here too, `PollTypeOK` and
`NeverOversleeps` are inductive together: only `Decide` starts a sleep, for
exactly what is left of the interval, and while it lasts `last_fetch` ages with
it or is renewed. `PollTypeCorrect` and `PollsOnTime` hold for any set of targets
and any intervals, and so does `TicksAreApart`, with no word on how the
configuration, the floor and the back-off compare: a task that rests has ticked
as long ago as it has rested, and what it rests, like the first sleep after
`start_polling`, is never less than `Pace`, which is the configured interval
only up to `MAX_BACKOFF`. What GitHub asks for is not in it; that is a finding.

**`GovernorProofs`.** That a refusal is right is not inductive: an answer may be
observed long after it was given, after others and across a reset. `IInv` says of
every budget known to be spent until some instant, in the governor
(`BudgetsAreTrue`) or in an answer on its way (`AnswersAreTrue`), that GitHub's
own budget is spent until that very instant; an open budget it may misreport.
`AnswersHeld` says that what is acted upon has arrived. The bound on a block
needs that a penalty never exceeds `SECONDARY_CAP` (`PenaltyIsCapped`). From
`IInv` follow `TypeCorrect`, `RefusalsAreRight`, `MutationsAreNotRetried` and,
step by step, `BlocksOnlyLengthen`.

**`ShellProofs`.** `WorkIsForTheScreen`, `MessageIsTrue` and `NeverBehind`, for
any surfaces, depth of stack and capacity. They rest on one another and on three
more: the surfaces beneath the top are covered (`BeneathIsCovered`), every claim
is being worked for (`ClaimsAreWorkedFor`), and before the loop subscribes there
is no message (`UnheardIsSilent`). `BroadcastIsSound` is the heart of it: an
event that pushes another out of a full channel leaves no surface waiting for
what was lost.

**`TriageProofs`.** `NothingIsHidden`: no row looks read that GitHub has as
unread, unless the toggle that did it is queued or being sent. Inductive with
what the cache and the rollback hold (`NothingIsLost`): what GitHub has unread
the cache has too, but for what is being sent, and what a failure would restore
has it. `CursorIsKept` is about lists: the cursor ends on a row, and where read
rows leave, Enter moves on to an unread one. For that the display order, grouped
or flat, is shown to be a sort: the relation orders all rows (a group is where
its first row is, and a set of rows has a first, by `WFMin`), and what places
each element by the number of its predecessors lists all of them, once and in
order (`SortedIs`, by a pigeonhole between rows and places).

**`EdgesProofs`.** Each component's invariant under its own specification is
carried to `EdgesSpec`, where the others' steps leave its variables alone.

* `SettingsAreToldTrue`: a row of the panel tells what a restart would read.
  Inductive with: the file keeps its shape (`Held`: only a table has keys), every
  value in the program is one its own reader would take back (`Sound`, which is
  where the cycle of a setting's values comes in: `CycledIsOffered`), and the rows
  are told of an unreadable file too, whatever it hides (`RowsAreTold`).
  `InsertedIsTold`, `RemovedIsTold` and `WrittenIsTold` say that a write changes
  what a reader finds on its own line and on no other, and with them
  `OthersStayUntouched`, an action property, follows step by step.
* `CachesAreOwn`: a start that succeeds has a whole cache of its own schema,
  wherever earlier ones were killed, for any number of processes and files of one
  binary, and damage no oftener than the code rebuilds (`OneCache`).
  `OpeningInv` says, for each statement of `open`, what the process that is at it
  knows of its connection and of the name.
* `ValidatorsVouch` and `AnswersReachTheirRows`, for any inboxes, page size and
  batch whose addresses tell their types apart (`Told`). A validator vouches for
  the page it was sent with whether it was kept, superseded, or is on its way
  (`VouchedFor`). A query's aliases are of the chunk it was built from, rows in
  hand never lose what is known of them, and a row is pending only while its
  chunk is asked for, absent only while it is still to be (`WireInv`).
* `StoresAreAlike`: the cache keeps rows by key and the fake by place. That they
  are the same rows, whoever's marks were written and rolled back, is the
  invariant (`Mirrors`); that they come out in the same order is about
  sorting: sets whose elements correspond, in orders that do, correspond place
  by place (`SortedAlike`, since each element has a number of its own of
  elements before it). Where two threads are as new as each other the cache
  sorts by id and the fake's sort is stable, so the theorem is of pages with the
  later id first (`TiesAreInOrder`, as in `edges`). Of pull requests, that a
  list's key is one query however it was spelled (`SameQuery`), and that every
  body kept is the corpus's (`ListsAreKept`).

**`ScreensProofs`.** `CountsAreTrue` follows a count backwards: a row on screen
comes from its list, a list from a fetch that is writing, that from one that is
asking, whose answers up to now belong to the sections in their order
(`AnswersWereSeen`, `ListsAreGenuine`). `FreshScreens` is an action property: what
`ReadDashboard` calls fresh is no older than its oldest section, and the oldest
is never missing. `DrawnFit` needs of the dashboard that its rows are the
configured sections and its cursor one of them (`CursorIsOnASection`), of which
the section is drawn by what ratatui's list does (`WindowIs`); and of pull
requests that a handler leaves the cursor on a row and the scroll a number
(`PullsInv`), since every handler ends in a draw and a draw clamps
(`ScrolledIs`). That a row is as wide as the screen is a fact about the columns
of each breakpoint (`RowFits`), for every width from nine cells up.

`FocusDrawn` is about three counts of one list that do not agree: the cursor
counts rows, ratatui entries, the terminal lines. The entries are in order
(`EntriesAre`, by `SortedIs`: no two rows or headers share a place), so the row
the cursor is on is the entry the list was told to select (`FocusIs`), and a
scroll that moves by lines to reach an entry has all of it in the window
(`ScrollShowsFocus`), from whatever offset the last draw left. A row is never
taller than the list, since a terminal has ten lines (`InboxScreenAssumption`).

`RowsToldApart` goes by what can be left out of a row. With 80 columns a
repository is left out only where one title, or a header, says it for all
(`RepoTextIs`, `RoomyIs`, `ColumnsAre`); what is left tells repository, read
state and, under glyphs, status apart, on two lines (`TwoLinesTell`) or on one
(`OneLineTells`), as far as it is not cut. What a cut text still tells is about
texts: two that are elided alike are equal if either fits and agree up to the
ellipsis if neither does (`ElideTells`, and `FitRepoTells` for a repository that
gives up its owner), and of two lines that are joined and cut alike each part is
whole on both or on neither (`WholePartsTell`). For pull requests it is a fact of
the columns kept at each width (`RowsDiffer`).

**`DocumentProofs`.** `DocumentComplete` is about what is computed from data of any
size: a body laid out word by word, a timeline folded event by event, checks
counted run by run. All three are folds over sequences, and none of the installed
provers can instantiate the library's induction theorems. `Counting` takes their
place: a set of numbers with 0 in it, and n + 1 with every n, is all of them,
since otherwise there would be a least one that is not (`WFMin`). `FoldExists`
and `FoldTrace` say, once for all folds, that there is a sequence of accumulators
from the first to what the fold comes to, one step apart (`IsTrace`); `Sums` and
`Joined` are its cases for adding up and for `FlattenSeq`. An invariant of the
steps is then an invariant of the trace:

* `WrapIs`: when k words are laid out, the lines fit the width and hold those
  words, each with all its cells and nothing else (`LaidUpTo`), also where a word
  is cut over several lines (`CutIs`); so `WholeWrap`, for any text and width.
* `FoldedIs`: when k events are folded, the entries and the run still open stand
  for the first k, once and in order.
* `OccursLess` and `MergeIs`: every run gives one signal, and the rollup counts
  every signal once, so runs shown in a colour are no more than are counted
  under it, and as many where no status is unlisted (`ChecksAdd`).

What a document tells goes along with joining stretches of it (`Tells`,
`BothTell`, `AllTell`), so the document tells what the parts it is built from do:
all events but the threads, in order, and as many cells of text as the pull
request has (`PullWeighs`). A folded run loses no text because minor events have
none (`DetailsAssumption`). `FocusLineTells`, for the line under a list, adds up
the widths of what comes before the part that must not be cut.

**`ScreensProofs`, continued.** `DocumentComplete` follows since every draw of a
detail is of a document just built (`PullsInv`).

`NonePushedOut` says of every surface, message and terminal what the runs say of
a few (`PanelsInv` keeps them among those assumed). The footer gives bindings up
until what is left fits beside the way out, so the way out is a suffix of what is
drawn; help has a line for each binding, and 24 lines are enough for the 17 that
`PanelsAssumption` allows; a message's lines are those `WrapIs` gives, and all of
them are drawn where the terminal has as many; the part of the header that admits
something is given its width before the login is. That a setting's reason is
told to the end is a fact of the whole panel (`SettingsPanel`), which from 80
columns on is 72 cells wide inside, whatever the terminal (`ReasonsAssumption`).

`NameFinds` compares two traces of one fold. In the name itself every letter is
found at once: the first earns 16, each other at least 8 and, after a boundary,
16. Anywhere else a letter earns no more at its place, and what lies before it
costs, so no other score is higher, whatever the boundaries of the other text
(`NoneOutscores`); an equal one is of a text that begins with the name, which
comes after it in the order of ties, and a description is 32 below.
That the list is in that order, and so has the name first, is `SortedIs` again.

The assumptions are those the modules name. Of the components that run:
`TargetAssumption` and `ThreadAssumption` (two distinguished targets, the details
not cancellable, jobs and callers disjoint), `SizeAssumption`, `LimitAssumption`,
`PollAssumption` and `DashboardAssumption` (durations, sizes and bounds are
natural numbers, the cap not below the base; the prover knows nothing of `^`, so
`LimitAssumption` and `PollAssumption` also say that the powers of two they count
with are natural numbers), `ShellAssumption` and `SettingsAssumption` (the
surfaces, targets and settings are among those of the code), `TriageAssumption`,
`WireAssumption` and `CacheFileAssumption` (finite sets, pages that are sequences,
a value that stands for nothing), `StoresAssumption` (a page names a thread once,
a corpus a pull request) and `NoResponseAssumption` (no response is not a
response). Of what is drawn:

* `PullRequestsAssumption`, `InboxScreenAssumption` and `NotificationsAssumption`:
  sizes are pairs of numbers, of at least the 40 by 10 that `app.rs` draws at all,
  a repository is an owner and a name, each of letters (none of them the
  ellipsis), pages are sequences;
* `DetailsAssumption`: what GraphQL's types say of a pull request, and that only
  an event a reader would stop at has prose or threads (`timeline.rs`);
* `FocusAssumption`: a number is a sign and 32 bits, at most 12 cells with what
  is around it, and a review decision is one of GraphQL's three or none;
* `PanelsAssumption`: widths are numbers, messages and reasons are not empty, and
  a surface has no more bindings than leave room for help in 24 lines (the code's
  surfaces have eight, as has the shell);
* `ReasonsAssumption`: the reason a setting could not be saved is short enough
  for its panel to fit in 24 lines of 72 cells. One that is longer is not drawn
  to its end; in a shorter terminal none is, which is the finding `NoteIsDrawn`;
* `PaletteAssumption`: names and descriptions are sequences of letters, no name
  is given twice, and none has a space in it.

Model-checked only: everything temporal beyond safety. Liveness under fairness,
and `ENABLED`, are out of the prover's reach (`EveryStartIsAnswered`,
`ImplementsFairContract`, `DetailsArrive`, `NeverShutForGood`,
`EveryCallReturns`, `KeepsLooking`, `OnlyOverlapsHold`, `ScreenCatchesUp`,
`TriageIsSent`). The findings are TLC's too: a counterexample needs no proof.

## 6. Not modelled

* *Test equipment.* Cassettes, the fake store's corpus, its switchable delays
  and failures.
* *I/O and data.* Token lookup (run once), opening a browser, the terminal's
  modes, colours and icons, the age of a row in words, the names types are
  serialised by, the wording of errors. `serde`'s reading of a body is taken as
  a record that has arrived.
* *Toasts.* `widgets/toast.rs` is raised by nothing in the program, and
  `widgets/help.rs` is replaced by the shell's own help.
* *The table of chords.* What a key does on each layer is in `Shell`; which chord
  it is bound to is not.
* *Retry delays.* A delay is time that may pass between `Check` and `Send`.
* *Pending mutations.* `spec/20-store.md` has one win over a refresh that lands
  meanwhile; the code has no such queue, so there is nothing to model (hazard at
  `store.rs:395`).

Worth doing next: `Triage` composed with `Inbox` under a refresh that lands
between its PATCHes.
