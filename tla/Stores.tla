------------------------------- MODULE Stores -------------------------------
(***************************************************************************)
(* The two implementations of the Store trait, side by side: SqliteStore   *)
(* over the cache's tables (omaghy-cache, cache.rs and store.rs), and      *)
(* FakeStore over rows in memory (omaghy-store, fake.rs), which the        *)
(* surfaces are built and tested against.  Each viewer has a FakeStore;    *)
(* the viewers' SqliteStores share one file.  Both get the same rows and   *)
(* the same calls, and a surface must not be able to tell them apart.      *)
(*                                                                         *)
(* The pull request tables have readers in store.rs and writers in         *)
(* cache.rs, which no fetch of the program calls yet: PutPulls stands for  *)
(* it.  How a mutation and a fetch interleave is Inbox.tla's and           *)
(* Triage.tla's; here a call is over before the next one starts.           *)
(***************************************************************************)
EXTENDS Ordering, SequencesExt

CONSTANTS
    Viewers,
    Pages,       \* fetched pages of notifications, as sequences
    Corpus,      \* pull requests, as a sequence
    NoteQueries, \* what a surface asks of notifications
    PullQueries, \* what it asks of pull requests: sequences of terms
    None

VARIABLES
    table,    \* notifications: the row of each <<id, viewer>> that has one
    entities, \* pull request bodies, by <<node id, viewer>>
    members,  \* list_items, by <<list key, viewer>>
    fakes     \* FakeStore.rows of each viewer

storeVars == <<table, entities, members, fakes>>

\* Numbers stand for moments and, in their order, for the ids of threads.
IsNote(n) ==
    /\ n = [id |-> n.id, unread |-> n.unread, reason |-> n.reason, repo |-> n.repo,
            kind |-> n.kind, words |-> n.words, at |-> n.at]
    /\ n.id \in Int /\ n.at \in Int

\* A page names a thread once, a corpus a pull request, and queries are lists.
StoresAssumption ==
    /\ \A page \in Pages :
          /\ page \in Seq(Range(page))
          /\ \A i, j \in DOMAIN page : page[i].id = page[j].id => i = j
          /\ \A n \in Range(page) : IsNote(n)
    /\ Corpus \in Seq(Range(Corpus))
    /\ \A i, j \in DOMAIN Corpus : Corpus[i].id = Corpus[j].id => i = j
    /\ \A pr \in Range(Corpus) : pr.at \in Int
    /\ \A q \in PullQueries : q \in Seq(Range(q))

\* Of two threads as new as each other a page has the later first: the cache
\* sorts by the id what is as new, the fake keeps it as it came.
TiesAreInOrder ==
    \A page \in Pages : \A i, j \in DOMAIN page :
       i < j /\ page[i].at = page[j].at => page[i].id > page[j].id

NoteIds == UNION {{n.id : n \in Range(page)} : page \in Pages}

\* f with what g says of g's keys.
Upsert(f, g) == [k \in DOMAIN f \cup DOMAIN g |-> IF k \in DOMAIN g THEN g[k] ELSE f[k]]

\* S in order, newest first; of two as new, the one of the higher rank.
NewestFirst(S, at, rank) ==
    Sorted(S, {r \in S \X S : \/ at[r[1]] > at[r[2]]
                              \/ at[r[1]] = at[r[2]] /\ rank[r[1]] > rank[r[2]]})

-----------------------------------------------------------------------------
(* Notifications.                                                           *)

\* NotificationQuery: an empty set of reasons or kinds means all.  Of a title
\* and a repository's name the words are kept, and a search is for a word.
Matches(n, q) ==
    /\ q.unreadOnly => n.unread
    /\ q.repo # None => n.repo = q.repo
    /\ q.reasons # {} => n.reason \in q.reasons
    /\ q.kinds # {} => n.kind \in q.kinds
    /\ q.search # None => q.search \in n.words \cup {n.repo}

Truncated(items, limit) ==
    IF limit = None THEN items ELSE SubSeq(items, 1, Min({limit, Len(items)}))

\* Cache::put_notifications: the whole row, and the columns that repeat it.
PutNotifications(viewer, page) ==
    Upsert(table, [k \in {<<n.id, viewer>> : n \in Range(page)} |->
                      LET n == CHOOSE n \in Range(page) : n.id = k[1]
                      IN [body |-> n, unread |-> n.unread, at |-> n.at]])

\* The body as it was stored; the column says what has been read since.
RowAsStored(stored) == stored.body
Row(stored) == [stored.body EXCEPT !.unread = stored.unread]

\* Cache::notifications: one viewer's rows, by the columns, newest first and
\* the later id first among equals; the rest of the query on what is read.
CachedNotifications(viewer, q) ==
    LET keys == {k \in DOMAIN table : /\ k[2] = viewer
                                      /\ q.unreadOnly => table[k].unread
                                      /\ Matches(Row(table[k]), q)}
        order == NewestFirst(keys, [k \in keys |-> table[k].at], [k \in keys |-> k[1]])
    IN [n \in DOMAIN order |-> Row(table[order[n]])]

\* SqliteStore::notifications: total is what matched, before the limit.
SqliteNotifications(viewer, q) ==
    LET items == CachedNotifications(viewer, q) IN
    [items |-> Truncated(items, q.limit), total |-> Len(items)]

\* FakeStore::matches: the same predicate, written twice.
FakeMatches(n, q) == Matches(n, q)

\* FakeStore::mark_read, mark_unread: the rows themselves.
FakeMarked(rows, ids, unread) ==
    [i \in DOMAIN rows |-> IF rows[i].id \in ids
                           THEN [rows[i] EXCEPT !.unread = unread] ELSE rows[i]]

\* FakeStore::notifications: a stable sort, and Page::complete of what is left.
FakeNotifications(viewer, q) ==
    LET rows == fakes[viewer]
        places == {i \in DOMAIN rows : FakeMatches(rows[i], q)}
        order == NewestFirst(places, [i \in places |-> rows[i].at], [i \in places |-> -i])
        items == Truncated([n \in DOMAIN order |-> rows[order[n]]], q.limit)
    IN [items |-> items, total |-> Len(items)]

\* Cache::unread_flags: ids without a row are left out.
UnreadFlags(viewer, ids) ==
    [k \in DOMAIN table \cap (ids \X {viewer}) |-> table[k].unread]

\* Cache::set_unread.
SetUnreadAnybodys(viewer, ids, unread) ==
    [k \in DOMAIN table |->
        IF k[1] \in ids THEN [table[k] EXCEPT !.unread = unread] ELSE table[k]]

SetUnread(viewer, ids, unread) ==
    [k \in DOMAIN table |->
        IF k \in ids \X {viewer} THEN [table[k] EXCEPT !.unread = unread] ELSE table[k]]

\* Cache::restore_unread, into the table t.
RestoredAllAlike(t, prior) ==
    [k \in DOMAIN t |-> IF k \in DOMAIN prior THEN [t[k] EXCEPT !.unread = ~@] ELSE t[k]]

Restored(t, prior) ==
    [k \in DOMAIN t |->
        IF k \in DOMAIN prior THEN [t[k] EXCEPT !.unread = prior[k]] ELSE t[k]]

-----------------------------------------------------------------------------
(* Pull requests.                                                           *)

IsPr == <<"is", "pr">>

EffectiveAlways(q) == <<IsPr>> \o q

\* PrQuery::effective, and with it the list's key.
Effective(q) == IF Contains(q, IsPr) THEN q ELSE <<IsPr>> \o q

\* FakeStore::pr_matches, a term of GitHub's search at a time: a bare word is
\* of the title, and a qualifier it does not know holds.
Holds(pr, term) ==
    IF Len(term) = 1 THEN term[1] \in pr.words
    ELSE CASE term = <<"is", "open">>     -> pr.state = "Open"
           [] term = <<"is", "closed">>   -> pr.state # "Open"
           [] term = <<"is", "merged">>   -> pr.state = "Merged"
           [] term = <<"is", "unmerged">> -> pr.state # "Merged"
           [] term \in {<<"is", "draft">>, <<"draft", "true">>} -> pr.draft
           [] term = <<"draft", "false">> -> ~pr.draft
           [] term = <<"review-requested", "@me">> -> pr.requested
           [] term = <<"reviewed-by", "@me">>      -> pr.reviewed
           [] term[1] = "repo"   -> pr.repo = term[2]
           [] term[1] = "author" -> pr.author = (IF term[2] = "@me" THEN "me" ELSE term[2])
           [] term[1] = "label"  -> term[2] \in pr.labels
           [] OTHER              -> TRUE

PrMatches(pr, q) == \A term \in Range(Effective(q)) : Holds(pr, term)

\* FakeStore::pull_requests.
PullPlaces(q) == {i \in DOMAIN Corpus : PrMatches(Corpus[i], q)}

FakePulls(q) ==
    LET places == PullPlaces(q)
        order == NewestFirst(places, [i \in places |-> Corpus[i].at], [i \in places |-> -i])
    IN [n \in DOMAIN order |-> Corpus[order[n]]]

\* FakeStore::count_for: pull requests by the list's own matcher, anything
\* else by a guess at the notifications that belong to it.
CountFor(viewer, q) ==
    LET Number(S) == Cardinality({i \in DOMAIN fakes[viewer] : fakes[viewer][i] \in S})
        all == Range(fakes[viewer])
        Asks(key) == \E term \in Range(q) : term[1] = key
    IN IF Contains(q, IsPr) THEN Cardinality(PullPlaces(q))
       ELSE IF Asks("review-requested") THEN Number({n \in all : n.reason = "ReviewRequested"})
       ELSE IF Asks("author")   THEN Number({n \in all : n.reason = "Author" /\ n.unread})
       ELSE IF Asks("assignee") THEN Number({n \in all : n.reason = "Assign"})
       ELSE IF Asks("mentions") THEN Number({n \in all : n.reason \in {"Mention", "TeamMention"}})
       ELSE Number({n \in all : n.unread})

\* SqliteStore::pull_requests: a member whose body is gone is skipped.
SqlitePulls(viewer, q) ==
    LET key == <<Effective(q), viewer>>
        ids == IF key \in DOMAIN members THEN members[key] ELSE <<>>
        there == Those(ids, {i \in DOMAIN ids : <<ids[i], viewer>> \in DOMAIN entities})
    IN [i \in DOMAIN there |-> entities[<<there[i], viewer>>]]

-----------------------------------------------------------------------------
(* Calls.                                                                   *)

\* An inbox lands: later rows of a page take an earlier row's place.
PutInbox ==
    \E viewer \in Viewers, page \in Pages :
       /\ fakes[viewer] = <<>>
       /\ table' = PutNotifications(viewer, page)
       /\ fakes' = [fakes EXCEPT ![viewer] = page]
       /\ UNCHANGED <<entities, members>>

\* mark_read and mark_unread, whether the request behind them succeeds or not:
\* written at once and rolled back in the one, refused in the other.
SetReadState ==
    \E viewer \in Viewers, ids \in SUBSET NoteIds, unread, sent \in BOOLEAN :
       /\ ids # {}
       /\ LET written == SetUnread(viewer, ids, unread)
          IN table' = IF sent THEN written ELSE Restored(written, UnreadFlags(viewer, ids))
       /\ fakes' = IF sent
                   THEN [fakes EXCEPT ![viewer] = FakeMarked(@, ids, unread)]
                   ELSE fakes
       /\ UNCHANGED <<entities, members>>

\* A list lands: its bodies, one by one, and then its membership.
PutPulls ==
    \E viewer \in Viewers, q \in PullQueries :
       /\ entities' = Upsert(entities,
                             [k \in {<<pr.id, viewer>> : pr \in Range(FakePulls(q))} |->
                                 CHOOSE pr \in Range(FakePulls(q)) : pr.id = k[1]])
       /\ members' = Upsert(members, [k \in {<<Effective(q), viewer>>} |->
                                         [i \in DOMAIN FakePulls(q) |-> FakePulls(q)[i].id]])
       /\ UNCHANGED <<table, fakes>>

\* Cache::forget_entity.
Forget ==
    \E key \in DOMAIN entities :
       /\ entities' = [k \in DOMAIN entities \ {key} |-> entities[k]]
       /\ UNCHANGED <<table, members, fakes>>

StoreInit ==
    /\ table = <<>> /\ entities = <<>> /\ members = <<>>
    /\ fakes = [v \in Viewers |-> <<>>]

StoreNext == PutInbox \/ SetReadState \/ PutPulls \/ Forget

StoreSpec == StoreInit /\ [][StoreNext]_storeVars

-----------------------------------------------------------------------------
\* Whatever rows were stored and marked, by whichever of the viewers, and
\* whichever marks were rolled back: a surface is given the same notifications
\* by the cache as by the fake it was tested against, in the same order, under
\* every filter and limit.  This has the read state, kept in a column and in a
\* body, come out as the column has it, and one viewer's calls leave the
\* other's rows alone.  cache.rs: "a row leaking between accounts is a wrong
\* answer"; fake.rs: "what surface agents build against".
StoresAgree ==
    \A viewer \in Viewers : \A q \in NoteQueries :
       SqliteNotifications(viewer, q).items = FakeNotifications(viewer, q).items

\* A list of pull requests shows what was fetched for it, less what was
\* dropped since and never anything else, however its query was spelled; and
\* a dashboard section about pull requests counts the rows it opens.  fake.rs:
\* "a list of exactly as many rows as the number it showed".
ListsAreWhatWasFetched ==
    \A viewer \in Viewers, q \in PullQueries :
       /\ IsPr \in Range(q) => CountFor(viewer, q) = Len(FakePulls(q))
       /\ LET pulls == FakePulls(q)
              known == Those(pulls, {i \in DOMAIN pulls :
                                        <<pulls[i].id, viewer>> \in DOMAIN entities})
              fetched == \E p \in PullQueries :
                            /\ <<Effective(p), viewer>> \in DOMAIN members
                            /\ \/ p = q
                               \/ p = <<IsPr>> \o q /\ IsPr \notin Range(q)
                               \/ q = <<IsPr>> \o p /\ IsPr \notin Range(p)
          IN SqlitePulls(viewer, q) = IF fetched THEN known ELSE <<>>

\* What the trait's users are told of the whole is the same for both: "12 of
\* 340 unread" (store.rs, notifications).
TotalsAgree ==
    \A viewer \in Viewers : \A q \in NoteQueries :
       SqliteNotifications(viewer, q).total = FakeNotifications(viewer, q).total
=============================================================================
