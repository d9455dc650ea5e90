-------------------------------- MODULE Wire --------------------------------
(***************************************************************************)
(* GitHub's JSON made rows of the inbox (omaghy-api, notifications.rs,     *)
(* graphql.rs, client.rs; omaghy-model, ids.rs, notification.rs): the      *)
(* conditional list request and the validators it comes back with, the     *)
(* translation of a thread, and the second pass that asks GraphQL for up   *)
(* to Batch subjects in one query and hands each row its answer, when some *)
(* of the subjects fail and the request may.                               *)
(*                                                                         *)
(* Where the rows are kept, and who asks when, is Inbox.tla's.  GitHub is  *)
(* external: its inbox changes, its subjects stand still.                  *)
(***************************************************************************)
EXTENDS Integers, SequencesExt, FiniteSetsExt

CONSTANTS
    Inboxes, \* the pages GitHub may hold, each a sequence of threads
    Worlds,  \* what GraphQL may know of the subjects: functions of targets
    Numbers, \* the path segments that parse as a number
    PerPage, \* MAX_PER_PAGE
    Batch,   \* ENRICHMENT_BATCH
    MaxNews, \* bound: how often the inbox changes
    None

WireAssumption ==
    /\ {PerPage, Batch, MaxNews} \subseteq Nat
    /\ PerPage > 0 /\ Batch > 0
    /\ \A k \in DOMAIN Inboxes : Inboxes[k] \in Seq(Range(Inboxes[k]))
    /\ None \notin DOMAIN Inboxes /\ None # "DRAFT"

VARIABLES
    inbox,      \* which of Inboxes GitHub holds
    news,       \* changes of it so far
    world,      \* what GraphQL knows
    held,       \* the rows of the last page
    heldOf,     \* the inbox that page was of (history)
    validators, \* what would revalidate it
    phase,      \* of enrich: "idle", "asking", "asked", "returned"
    slice,      \* the rows enrich was handed
    todo,       \* the indices still to ask about, in order
    asked,      \* the query under way
    outcome     \* what enrich returned

wireVars == <<inbox, news, world, held, heldOf, validators, phase, slice, todo,
              asked, outcome>>
-----------------------------------------------------------------------------
(* A thread, and the row it becomes.                                        *)

Segment == {"pulls", "issues", "discussions", "releases", "check-suites", "commits"}
KindOfSegment(s) ==
    CASE s = "pulls"        -> "PullRequest"
      [] s = "issues"       -> "Issue"
      [] s = "discussions"  -> "Discussion"
      [] s = "releases"     -> "Release"
      [] s = "check-suites" -> "CheckSuite"
      [] s = "commits"      -> "Commit"

\* SubjectRef::from_api_url: `url` is what follows /repos/, split at slashes,
\* or None for a null and for a URL without it.
FromApiUrl(url) ==
    LET parts == SelectSeq(url, LAMBDA s : s # "") IN
    IF /\ Len(parts) = 4
       /\ parts[3] \in Segment
       /\ parts[3] # "commits" => parts[4] \in Numbers
    THEN [owner |-> parts[1], repo |-> parts[2],
          kind |-> KindOfSegment(parts[3]), id |-> parts[4]]
    ELSE None

\* kind: subject.type, in GitHub's spelling; whatever it adds next is kept.
KindOfType(type) ==
    IF type = "RepositoryVulnerabilityAlert" THEN "VulnerabilityAlert" ELSE type

\* Repository::into_ref, with RepoRef::parse: `full` is full_name split at
\* slashes, or None.
RepoOf(repository) ==
    IF repository = None THEN <<"?", "?">>
    ELSE IF /\ repository.full # None
            /\ Len(repository.full) = 2
            /\ "" \notin Range(repository.full)
         THEN repository.full
    ELSE IF None \in {repository.owner, repository.name} THEN <<"?", "?">>
    ELSE <<repository.owner, repository.name>>

Absent == [is |-> "Absent"]
Pending == [is |-> "Pending"]
NotApplicable == [is |-> "NotApplicable"]
Failed(reason, target) == [is |-> "Failed", reason |-> reason, of |-> target]

IntoModel(thread) ==
    [id      |-> thread.id,
     kind    |-> KindOfType(thread.type),
     repo    |-> RepoOf(thread.repository),
     subject |-> IF thread.url = None THEN None ELSE FromApiUrl(thread.url),
     detail  |-> Absent]

-----------------------------------------------------------------------------
(* The list request.                                                        *)

NoValidators == [etag |-> None, modified |-> None]

\* GitHub's headers name the inbox they are of; it may leave either out.
Headers(of) == [etag: {of, None}, modified: {of, None}]

\* Validators::merged_with.
MergedWith(old, newer) ==
    [v \in DOMAIN newer |-> IF newer[v] # None THEN newer[v] ELSE old[v]]

\* If-None-Match outranks If-Modified-Since; without either there is no 304.
Unchanged(sent) ==
    IF sent.etag # None THEN sent.etag = inbox ELSE sent.modified = inbox

\* The first page, as the default filter asks for it.
FirstPage(threads) == SubSeq(threads, 1, Min({PerPage, Len(threads)}))

HarvestedMerged(modified, headers) == MergedWith(validators, headers)

\* A 304 keeps the validators it does not renew; a 200 brings its own.
Harvested(modified, headers) ==
    IF modified THEN headers ELSE MergedWith(validators, headers)
Poll ==
    /\ phase = "idle"
    /\ \E headers \in Headers(inbox) :
          LET modified == ~Unchanged(validators) IN
          /\ validators' = Harvested(modified, headers)
          /\ IF modified
             THEN /\ held' = [i \in DOMAIN FirstPage(Inboxes[inbox]) |->
                                 IntoModel(Inboxes[inbox][i])]
                  /\ heldOf' = inbox
             ELSE UNCHANGED <<held, heldOf>>
    /\ UNCHANGED <<inbox, news, world, phase, slice, todo, asked, outcome>>

-----------------------------------------------------------------------------
(* The query.                                                               *)

\* Target::of.
Target(row) ==
    IF /\ row.subject # None
       /\ row.subject.kind \in {"PullRequest", "Issue", "Discussion"}
    THEN [owner |-> row.subject.owner, repo |-> row.subject.repo,
          number |-> row.subject.id, discussion |-> row.subject.kind = "Discussion"]
    ELSE None

\* The Batch first of what is still to do.
Chunk == {i \in todo : Cardinality({k \in todo : k < i}) < Batch}
Rest == todo \ Chunk

\* One alias for each subject the chunk names, called after the row that
\* brought it up.
Aliases ==
    [i \in {j \in Chunk : \A k \in Chunk : k < j => Target(slice[k]) # Target(slice[j])} |->
        Target(slice[i])]

\* The nth row is given the nth answer.
AliasByPlace(i) ==
    LET place(S, j) == Cardinality({k \in S : k <= j})
        named == DOMAIN asked.aliases
    IN CHOOSE a \in named : place(named, a) = Min({place(Chunk, i), Cardinality(named)})

\* alias_of: where row i finds its answer.
AliasOf(i) == CHOOSE a \in DOMAIN asked.aliases : asked.aliases[a] = Target(slice[i])
\* Fragments the selections spread, and those the fragments spread.
Spread(targets) ==
    {"Who", "Latest"}
    \cup UNION {IF t.discussion THEN {"DiscussionFields"} ELSE {"PrFields", "IssueFields"} :
                   t \in Range(targets)}

FragmentsAlways(targets) == {"Who", "Latest", "PrFields", "IssueFields", "DiscussionFields"}

\* build_query: the fragments follow the batch.
Fragments(targets) ==
    {"Who", "Latest"}
    \cup (IF \E t \in Range(targets) : ~t.discussion THEN {"PrFields", "IssueFields"} ELSE {})
    \cup (IF \E t \in Range(targets) : t.discussion THEN {"DiscussionFields"} ELSE {})
BuildQuery(targets) == [aliases |-> targets, fragments |-> Fragments(targets)]

\* GitHub rejects a query that defines a fragment it does not spread.
Valid(query) == query.fragments = Spread(query.aliases)

-----------------------------------------------------------------------------
(* The answer, alias by alias: repository null, subject null, or a node.    *)

Null == [is |-> "null"]

\* What GitHub has under each alias, unless it ran out of time for it.
Data(query, late) ==
    [a \in DOMAIN query.aliases |->
        LET known == world[query.aliases[a]] IN
        IF a \in late \/ known.is = "hidden" THEN Null
        ELSE [is |-> "repository",
              subject |-> IF known.is = "missing" THEN Null ELSE known]]

\* Its errors name the field they belong to, or, out of time, nothing.  A
\* field deeper down may be refused as well: the checks, to some.
Errors(query, late, deep) ==
    LET Of(a) ==
            LET t == query.aliases[a]
                known == world[t]
                error(path, says) == {[path |-> path, says |-> says, of |-> t]}
            IN IF a \in late THEN {[path |-> <<>>, says |-> "timedout", of |-> None]}
               ELSE IF known.is = "hidden" THEN error(<<a>>, "NOT_FOUND")
               ELSE IF known.is = "missing" THEN error(<<a, 0>>, "NOT_FOUND")
               ELSE IF a \in deep THEN error(<<a, 0, 0>>, "FORBIDDEN")
               ELSE {}
    IN UNION {Of(a) : a \in DOMAIN query.aliases}

\* Partial::message_for: the first segment of a path is the alias.
MessagesFor(errors, a) == {e \in errors : e.path # <<>> /\ e.path[1] = a}

DisplayStatusDraft(node) == IF node.draft THEN "DRAFT" ELSE node.state

\* draft only means anything while open
DisplayStatus(node) == IF node.state = "OPEN" /\ node.draft THEN "DRAFT" ELSE node.state
\* The latest comment's author, or whoever opened the subject; a deleted
\* account is no author.
LastActor(node) ==
    IF node.comments # <<>> /\ Last(node.comments) # None
    THEN Last(node.comments) ELSE node.author

RollupOf(state) ==
    CASE state = "SUCCESS"               -> "Success"
      [] state \in {"FAILURE", "ERROR"}    -> "Failure"
      [] state \in {"PENDING", "EXPECTED"} -> "Pending"
      [] OTHER                           -> "None"

WebPath == [PullRequest |-> "pull", Issue |-> "issues", Discussion |-> "discussions",
            Commit |-> "commit"]
Url(owner, repo, kind, id) == <<owner, repo, WebPath[kind], id>>

\* Notification::browser_url: the enriched address, or one derived from the
\* coordinate; a release is addressed by tag there, so it has none.
BrowserUrl(row) ==
    IF row.detail.is = "Ready" THEN row.detail.url
    ELSE IF row.subject # None /\ row.subject.kind \in DOMAIN WebPath
         THEN Url(row.subject.owner, row.subject.repo, row.subject.kind, row.subject.id)
    ELSE None

\* detail_from: a subject of another type than was asked for is not read.
DetailFrom(node, target) ==
    IF node.subject.is \notin {"PullRequest", "Issue", "Discussion"}
    THEN Failed("unresolved", target)
    ELSE LET s == node.subject IN
         [is     |-> "Ready",
          number |-> target.number,
          status |-> CASE s.is = "PullRequest" -> DisplayStatus(s)
                       [] s.is = "Issue"       -> s.state
                       [] s.is = "Discussion"  -> None,
          checks |-> IF s.is = "PullRequest" THEN RollupOf(s.checks) ELSE "None",
          actor  |-> LastActor(s),
          url    |-> Url(target.owner, target.repo, s.is, target.number)]

Resolved(data, errors, a) ==
    LET found == MessagesFor(errors, a)
        error == CHOOSE e \in found : TRUE
    IN
    IF found # {} THEN Failed(error.says, error.of)
    ELSE IF data[a] = Null THEN Failed("MISSING", None)
    ELSE DetailFrom(data[a], asked.aliases[a])

-----------------------------------------------------------------------------
(* enrich.                                                                  *)

Idle == [aliases |-> <<>>, fragments |-> {}]

AbsentRows == {i \in DOMAIN held : held[i].detail = Absent}

Select ==
    /\ phase = "idle"
    /\ AbsentRows # {}
    /\ slice' = [i \in DOMAIN held |->
                    IF i \in AbsentRows /\ Target(held[i]) = None
                    THEN [held[i] EXCEPT !.detail = NotApplicable] ELSE held[i]]
    /\ todo' = {i \in AbsentRows : Target(held[i]) # None}
    /\ IF todo' = {} THEN phase' = "returned" /\ outcome' = "Ok"
       ELSE phase' = "asking" /\ UNCHANGED outcome
    /\ UNCHANGED <<inbox, news, world, held, heldOf, validators, asked>>

\* A chunk is marked before its request goes.
Ask ==
    /\ phase = "asking"
    /\ asked' = BuildQuery(Aliases)
    /\ slice' = [i \in DOMAIN slice |->
                    IF i \in Chunk THEN [slice[i] EXCEPT !.detail = Pending]
                    ELSE slice[i]]
    /\ phase' = "asked"
    /\ UNCHANGED <<inbox, news, world, held, heldOf, validators, todo, outcome>>

Answer ==
    /\ phase = "asked"
    /\ Valid(asked)
    /\ \E late, deep \in SUBSET DOMAIN asked.aliases :
          LET data == Data(asked, late)
              errors == Errors(asked, late, deep)
          IN slice' = [i \in DOMAIN slice |->
                          IF i \in Chunk
                          THEN [slice[i] EXCEPT !.detail = Resolved(data, errors, AliasOf(i))]
                          ELSE slice[i]]
    /\ todo' = Rest
    /\ asked' = Idle
    /\ IF Rest = {} THEN phase' = "returned" /\ outcome' = "Ok"
       ELSE phase' = "asking" /\ UNCHANGED outcome
    /\ UNCHANGED <<inbox, news, world, held, heldOf, validators>>

RestoredNot == slice

\* The failure is the request's: the chunk's rows may be asked about again.
Restored == [i \in DOMAIN slice |->
                IF i \in Chunk THEN [slice[i] EXCEPT !.detail = Absent] ELSE slice[i]]
\* map_graphql_error, or what the transport says; no data at all either way.
AskFails ==
    /\ phase = "asked"
    /\ outcome' \in (IF Valid(asked) THEN {"NotFound", "Forbidden", "RateLimited", "Offline"}
                     ELSE {"Upstream"})
    /\ slice' = Restored
    /\ todo' = {}
    /\ asked' = Idle
    /\ phase' = "returned"
    /\ UNCHANGED <<inbox, news, world, held, heldOf, validators>>

\* The caller keeps the rows of an Ok and drops those of an Err.
Keep ==
    /\ phase = "returned"
    /\ held' = IF outcome = "Ok" THEN slice ELSE held
    /\ slice' = <<>>
    /\ phase' = "idle"
    /\ outcome' = None
    /\ UNCHANGED <<inbox, news, world, heldOf, validators, todo, asked>>

-----------------------------------------------------------------------------
\* GitHub's inbox changes, back to what it was before too.
News ==
    /\ news < MaxNews
    /\ inbox' \in DOMAIN Inboxes \ {inbox}
    /\ news' = news + 1
    /\ UNCHANGED <<world, held, heldOf, validators, phase, slice, todo, asked, outcome>>

WireInit ==
    /\ inbox \in DOMAIN Inboxes
    /\ world \in Worlds
    /\ news = 0
    /\ held = <<>> /\ heldOf = None
    /\ validators = NoValidators
    /\ phase = "idle" /\ slice = <<>> /\ todo = {} /\ asked = Idle
    /\ outcome = None

WireNext == Poll \/ Select \/ Ask \/ Answer \/ AskFails \/ Keep \/ News
WireSpec == WireInit /\ [][WireNext]_wireVars

-----------------------------------------------------------------------------
\* A row that was answered tells of its own subject, whoever shares its query
\* and whichever of them failed: its number, the page
\* that the row opened before, its state (a closed
\* pull request is no draft), and its failure.  notifications.rs, enrich_batch:
\* "One alias answers both."
AnswerIsOwn(row) ==
    LET known == world[Target(row)]
    IN /\ row.detail.is = "Ready" =>
             /\ row.detail.number = row.subject.id
             /\ BrowserUrl(row) = BrowserUrl([row EXCEPT !.detail = Absent])
             /\ row.detail.status = "DRAFT" => known.state = "OPEN" /\ known.draft
             /\ known.is \in {"PullRequest", "Issue"}
                   => row.detail.status \in {known.state, "DRAFT"}
       /\ row.detail.is = "Failed" => row.detail.of \in {Target(row), None}

AnswersAreTheirOwn == \A rows \in {held, slice} : \A i \in DOMAIN rows : AnswerIsOwn(rows[i])

\* When enrich is over no row is left in flight, where nothing would ever ask
\* for it again: answered rows are settled, those of a request that failed are
\* absent; and no query is one GitHub must reject.  notifications.rs: "Leaving
\* them Pending would strand them".
NoRowStrands ==
    /\ \A i \in DOMAIN held : held[i].detail # Pending
    /\ phase = "returned" =>
          /\ outcome # "Upstream"
          /\ \A i \in DOMAIN slice :
                /\ slice[i].detail # Pending
                /\ outcome = "Ok" => slice[i].detail # Absent

\* Validators vouch for the page they are kept with, both of them, or a 304
\* would tell the program that rows GitHub has since replaced are current.
\* client.rs, rest: merged after a 304, replaced by a 200.
ValidatorsAreOfThisPage ==
    \A v \in DOMAIN validators : validators[v] \in {heldOf, None}

-----------------------------------------------------------------------------
\* GitHub's URL of a subject names the type the subject has, and no subject is
\* in a state called draft.
UrlTellsType(row, known) ==
    Target(row) # None =>
        /\ known.is \in {row.subject.kind, "hidden", "missing", "Unknown"}
        /\ known.is \in {"PullRequest", "Issue"} => known.state # "DRAFT"

UrlsTellTypes ==
    \A k \in DOMAIN Inboxes : \A i \in DOMAIN Inboxes[k], w \in Worlds :
        LET row == IntoModel(Inboxes[k][i]) IN UrlTellsType(row, w[Target(row)])

\* The inductive invariant behind the first two: a row keeps the subject it
\* came with, in the page and in the slice; the query under way is that of the
\* chunk; and only the chunk is pending, only what is still to do absent.
RowIsRight(row) ==
    /\ row = [id |-> row.id, kind |-> row.kind, repo |-> row.repo,
              subject |-> row.subject, detail |-> row.detail]
    /\ UrlTellsType(row, world[Target(row)])
    /\ AnswerIsOwn(row)

RowsAreRight(rows) == DOMAIN rows \subseteq Nat /\ \A i \in DOMAIN rows : RowIsRight(rows[i])

QueryIsOfTheChunk ==
    /\ todo \subseteq {i \in DOMAIN slice : Target(slice[i]) # None}
    /\ phase = "asked" => asked = BuildQuery(Aliases)

NothingIsForgotten ==
    /\ \A i \in DOMAIN held : held[i].detail # Pending
    /\ \A i \in DOMAIN slice :
          /\ slice[i].detail = Pending => phase = "asked" /\ i \in Chunk
          /\ slice[i].detail = Absent => i \in todo \/ (phase = "returned" /\ outcome # "Ok")
    /\ phase \in {"idle", "returned"} => todo = {}
    /\ phase = "returned" => outcome # "Upstream"

WireInv ==
    /\ inbox \in DOMAIN Inboxes /\ world \in Worlds
    /\ RowsAreRight(held) /\ RowsAreRight(slice)
    /\ QueryIsOfTheChunk
    /\ NothingIsForgotten
=============================================================================
