------------------------------ MODULE MCEdges -------------------------------
(* The constants of Edges, for TLC.                                          *)
EXTENDS Edges

\* By hand: an interval off the ladder, above it, and one no reader accepts; a
\* word on the list and one that is not.
MCTyped == [id \in Ids |-> IF id \in Intervals THEN {0, 45, 3600}
                           ELSE {Options[id][2], "glif"}]

\* Everybody runs one binary, or somebody an older one.
MCWanted == [p \in Procs |-> 2]
MCMixed == [p \in Procs |-> IF p = CHOOSE q \in Procs : TRUE THEN 1 ELSE 2]

\* No file yet, an older program's, this one's.
MCInitial == {None, 1, 2}

-----------------------------------------------------------------------------
(* The wire.                                                                *)

Repository == [full |-> <<"o", "r">>, owner |-> "o", name |-> "r"]
Thread(id, type, url) == [id |-> id, type |-> type, url |-> url, repository |-> Repository]

\* One pull request that two threads name, and one of a repository the viewer
\* has lost; a discussion; what has no number, and what has no address.
Twice == {Thread(id, "PullRequest", <<"o", "r", "pulls", "1">>) : id \in {1, 2}}
AThread == CHOOSE t \in Twice : t.id = 1
Again == CHOOSE t \in Twice : t.id = 2
Lost == [Thread(3, "Issue", <<"o", "lost", "issues", "1">>) EXCEPT !.repository = None]
Talk == [Thread(4, "Discussion", <<"o", "r", "discussions", "7">>)
            EXCEPT !.repository.full = <<"o", "r", "s">>]
Sha == Thread(5, "Commit", <<"o", "r", "commits", "f00d">>)
Suite == Thread(6, "CheckSuite", None)
Tag == Thread(7, "Release", <<"o", "r", "releases", "v1">>)

MCInboxes == <<<<AThread, Lost, Again, Talk>>, <<Talk, Suite, Sha>>, <<Again, Tag>>>>

Node(is, state, draft, comments, checks) ==
    [is |-> is, state |-> state, draft |-> draft, author |-> "ada", comments |-> comments,
     checks |-> checks]

PR == [owner |-> "o", repo |-> "r", number |-> "1", discussion |-> FALSE]
Issue == [PR EXCEPT !.repo = "lost"]
Discussion == [PR EXCEPT !.number = "7", !.discussion = TRUE]

MCWorlds ==
    {[t \in {PR, Issue, Discussion} |->
        CASE t = PR         -> Node("PullRequest", state, TRUE, <<"bob", None>>, "ERROR")
          [] t = Issue      -> lost
          [] t = Discussion -> Node("Discussion", "OPEN", FALSE, <<"bob">>, "NONE")] :
        state \in {"OPEN", "MERGED"},
        lost \in {[is |-> "hidden"], [is |-> "missing"], [is |-> "Unknown"],
                 Node("Issue", "CLOSED", FALSE, <<>>, "NONE")}}

-----------------------------------------------------------------------------
(* The stores: of a viewer's notifications, and of pull requests.          *)

Note(id, unread, reason, repo, kind, words, at) ==
    [id |-> id, unread |-> unread, reason |-> reason, repo |-> repo, kind |-> kind,
     words |-> words, at |-> at]

\* Read and unread interleaved, and of two at one moment the later first.
MCPages == {<<Note(3, TRUE, "Author", "r", "PullRequest", {"add"}, 4),
              Note(2, FALSE, "Author", "s", "PullRequest", {"fix", "r"}, 5),
              Note(1, TRUE, "Mention", "r", "Issue", {"fix"}, 4)>>,
            <<Note(3, FALSE, "Assign", "s", "Issue", {"add"}, 2)>>}

ASSUME S!TiesAreInOrder

AnyNote == [unreadOnly |-> FALSE, repo |-> None, reasons |-> {}, kinds |-> {},
            search |-> None, limit |-> None]

MCNoteQueries ==
    LET limited == [unreadOnly: BOOLEAN, limit: {None, 1}]
        narrowed == {AnyNote, [AnyNote EXCEPT !.repo = "r"], [AnyNote EXCEPT !.search = "r"],
                     [AnyNote EXCEPT !.reasons = {"Author"}, !.kinds = {"PullRequest"}]}
    IN {[n EXCEPT !.unreadOnly = l.unreadOnly, !.limit = l.limit] : n \in narrowed, l \in limited}

Pull(id, state, draft, author, requested, at) ==
    [id |-> id, repo |-> "o/r", author |-> author, state |-> state, draft |-> draft,
     requested |-> requested, reviewed |-> ~requested, labels |-> {author},
     words |-> {"fix"}, at |-> at]

MCCorpus == <<Pull("a", "Open", FALSE, "me", FALSE, 2), Pull("b", "Open", TRUE, "bob", TRUE, 4),
              Pull("c", "Merged", TRUE, "me", TRUE, 3)>>

MCPullQueries == {<<>>, <<<<"author", "@me">>>>, <<<<"is", "pr">>, <<"author", "@me">>>>,
                  <<<<"is", "pr">>, <<"review-requested", "@me">>>>,
                  <<<<"is", "open">>, <<"draft", "false">>>>}
=============================================================================
