------------------------------ MODULE MCScreens ------------------------------
(* The constants of Screens, for TLC.                                        *)
EXTENDS Screens

\* No sections, and two.
MCConfigs == {<<>>, <<"a", "b">>}

\* Names, a letter to a cell: two that a column and a second line cut alike,
\* of owners as long as GitHub has them.
Named(letter, cells) == [k \in 1 .. cells |-> letter]
Me == Named(1, 2)
You == Named(2, 3)
Short == Named(3, 4)
Long(last) == Named(4, 90) \o <<last>>
Owner(letter) == Named(letter, 39)
-----------------------------------------------------------------------------
(* Pull requests.                                                           *)

\* Prose with a word longer than any line, a blank line, and a short end; a
\* place with a long path, and what two people said there.
Says(kind) ==
    [kind    |-> kind,
     text    |-> IF kind \in {"Comment", "Review"} THEN <<<<3, 9, 60>>, <<>>, <<1>>>> ELSE <<>>,
     threads |-> IF kind \in {"Review", "ReviewThread"}
                 THEN <<[place    |-> <<50, 10>>, comments |-> <<<<4, 7, 30>>, <<4, 2>>>>]>>
                 ELSE <<>>]

\* Runs of one, two and three minor events, at either end and in between.
Timelines == {<<>>,
              <<"Labeled", "Labeled", "Review", "Labeled", "Labeled", "Labeled", "Comment">>,
              <<"Labeled", "Labeled", "Labeled", "ReviewThread", "Labeled", "Merged">>}

Check(now, conclusion) == [status |-> now, conclusion |-> conclusion]

PullRequest(kinds, runs, statuses, body) ==
    [title |-> <<20, 30, 5>>, labels |-> runs # <<>>, body |-> body,
     runs |-> runs, statuses |-> statuses,
     timeline |-> [i \in DOMAIN kinds |-> Says(kinds[i])]]

MCDetails ==
    {PullRequest(t, <<>>, <<>>, <<>>) : t \in Timelines}
    \cup {PullRequest(<<"Labeled">>,
                      <<Check("Completed", c), Check("InProgress", Nothing)>>, s,
                      <<<<10, 60, 4>>>>) :
             c \in {"TimedOut", "Stale"}, s \in {<<>>, <<"Error", "Success">>}}

Rollup(state, passed, failed) ==
    [state |-> state, passed |-> passed, failed |-> failed, pending |-> 0, skipped |-> 0]

PullIn(owner, name) ==
    [repo |-> <<owner, name>>, number |-> 7, state |-> "open", draft |-> FALSE,
     checks |-> Rollup("none", 0, 0), requested |-> FALSE, mine |-> Nothing,
     decision |-> Nothing, conflicting |-> FALSE]

PullOf(owner, state, draft, checks, requested, mine, decision) ==
    [repo |-> <<owner, Short>>, number |-> 7, state |-> state, draft |-> draft,
     checks |-> checks, requested |-> requested, mine |-> mine, decision |-> decision,
     conflicting |-> requested]

Mine == PullOf(Me, "open", FALSE, Rollup("failure", 2, 1), TRUE, Nothing, Nothing)
Theirs == PullOf(You, "open", TRUE, Rollup("none", 0, 0), FALSE, Nothing, "review required")
Done == PullOf(Me, "merged", TRUE, Rollup("success", 3, 0), TRUE, "approved", "approved")
Refused == PullOf(Me, "open", FALSE, Rollup("failure", 2, 1), TRUE, "changes requested",
                  "changes requested")

MCLists == {<<>>, <<Mine>>, <<Done, Refused>>, <<Mine, Theirs, Done>>,
            <<PullIn(Owner(5), Long(6)), PullIn(Owner(6), Long(7)), PullIn(Me, Long(8))>>}
MCPullSizes == {<<30, 12>>, <<40, 10>>, <<100, 14>>}
-----------------------------------------------------------------------------
(* The inbox's screen.                                                      *)

ChecksOf(state, passed, failed) ==
    [state |-> state, passed |-> passed, failed |-> failed, pending |-> 0, skipped |-> 0]
DetailOf(is, checks, actor) == [status |-> is, checks |-> checks, actor |-> actor]

\* A run of checks has no number.
Notification(unread, kind, owner, name, detail) ==
    [unread |-> unread, kind |-> kind, reason |-> "author", title |-> "title",
     repo   |-> [owner |-> owner, name |-> name],
     number |-> IF kind = "checks" THEN Nothing ELSE 7, detail |-> detail]

MCSpelling == [author |-> 6, pr |-> 12, discussion |-> 10, checks |-> 11, issue |-> 5,
               merged |-> 6, open |-> 4, duplicate |-> 9]

\* Groups that interleave, of two repositories of one name; a page of kinds that
\* have no status; two repositories that no line has room for; and one that
\* leaves none for a state.
MCInboxes ==
    {<<Notification(TRUE, "pr", Me, Short, DetailOf("merged", Nothing, "ada")),
       Notification(FALSE, "pr", You, Short,
                    DetailOf("open", ChecksOf("failure", 1, 2), Nothing)),
       Notification(TRUE, "pr", Me, Short, DetailOf("open", Nothing, "ada"))>>,
     <<Notification(TRUE, "discussion", You, Short, DetailOf(Nothing, Nothing, Nothing)),
       Notification(TRUE, "checks", You, Short, Nothing),
       Notification(FALSE, "issue", You, Short, DetailOf("duplicate", Nothing, Nothing))>>,
     <<Notification(TRUE, "pr", Owner(5), Long(6), DetailOf("merged", Nothing, Nothing)),
       Notification(TRUE, "pr", Owner(6), Long(7), DetailOf("merged", Nothing, Nothing))>>,
     <<Notification(TRUE, "pr", Me, Long(8), DetailOf("merged", Nothing, Nothing)),
       Notification(TRUE, "pr", Me, Long(8), DetailOf("open", Nothing, Nothing)),
       Notification(TRUE, "checks", You, Short, Nothing)>>}

Look(reason, repo, width, rows, triage, group) ==
    [reason |-> reason, repo |-> repo, width |-> width, rows |-> rows,
     triage |-> triage, group |-> group]

\* Each switch each way, and those together that share a line.
MCLooks ==
    {Look("glyph", "hide-when-shared", "auto", "two-line", "grey", "by-repo"),
     Look("glyph", "hide-when-shared", "auto", "two-line", "hide", "flat"),
     Look("glyph", "hide-when-shared", "wide", "one-line", "sink", "flat"),
     Look("text", "elide-owner", "narrow", "one-line", "hide", "by-repo"),
     Look("none", "full", "auto", "two-line", "sink", "by-repo")}

MCInboxSizes == {<<50, 10>>, <<120, 14>>}
-----------------------------------------------------------------------------
(* The palette: 1 is a space, 2 a dot, 3 a hyphen; 4 and 5 are letters.     *)

Action(name, description) == [name |-> name, description |-> description]

\* Names within names, and within descriptions.
Nested == <<Action(<<4, 2, 5>>, <<5, 5>>),
            Action(<<4, 5, 2, 5>>, <<4, 1, 5>>),
            Action(<<4, 2, 5, 3, 5>>, <<4, 4>>),
            Action(<<5, 2, 4>>, <<4, 1, 2, 5, 5>>),
            Action(<<5, 5>>, <<4>>),
            Action(<<4, 4>>, <<5>>),
            Action(<<5, 3, 4>>, <<4, 2, 5>>)>>

\* A long name whose only three 5s lie ten apart, and a description of three.
Sparse == <<Action([n \in 1 .. 30 |-> IF n \in {9, 19, 29} THEN 5 ELSE 4], <<4>>),
            Action(<<4, 2, 4>>, <<5, 5, 5>>)>>

MCKeymaps == {Nested, Sparse}
-----------------------------------------------------------------------------
(* The panels.                                                              *)

KeyOf(keys, description) == [keys |-> keys, description |-> description]

\* The notifications' keymap, in cells.
InboxKeys == <<KeyOf(5, 4), KeyOf(5, 8), KeyOf(5, 11), KeyOf(1, 11), KeyOf(1, 9),
               KeyOf(6, 14), KeyOf(6, 12), KeyOf(1, 4)>>

SurfaceOf(title, keys, cached, refreshing, never, state) ==
    [title |-> title, keymap |-> keys, cached |-> cached, refreshing |-> refreshing,
     never |-> never, state |-> state]

MCSurfaces ==
    {SurfaceOf(38, InboxKeys, TRUE, TRUE, FALSE, "rows"),
     SurfaceOf(13, InboxKeys, TRUE, TRUE, TRUE, "offline-without-cache"),
     SurfaceOf(9, <<>>, FALSE, FALSE, FALSE, "forbidden"),
     SurfaceOf(13, InboxKeys, FALSE, FALSE, FALSE, "filtered-empty"),
     SurfaceOf(9, <<KeyOf(5, 12), KeyOf(5, 16)>>, FALSE, FALSE, FALSE, "empty"),
     SurfaceOf(9, <<KeyOf(5, 12), KeyOf(5, 16)>>, TRUE, FALSE, TRUE, "rate-limited")}

SettingOf(section, description, alternatives) ==
    [section |-> section, description |-> description, alternatives |-> alternatives]

\* The eight rows, in cells.
MCSettingRows ==
    <<SettingOf("general", <<5, 6, 4, 6, 2, 3, 4, 2, 8>>, <<9, 15, 5, 6, 7, 5, 6>>),
      SettingOf("notifications", <<3, 3, 6, 3, 1, 12, 2, 7>>, <<7, 4, 4>>),
      SettingOf("notifications", <<3, 10, 5, 3, 5>>, <<6, 11, 16>>),
      SettingOf("notifications", <<3, 6>>, <<10, 8>>),
      SettingOf("notifications", <<4, 7, 2, 1, 3, 4, 3, 4, 2, 4>>, <<6, 4, 4>>),
      SettingOf("notifications", <<3, 8>>, <<6, 7>>),
      SettingOf("refresh", <<7, 7, 5, 5, 1, 8, 5, 5, 4>>, <<5, 3, 4, 4, 4, 5>>),
      SettingOf("refresh", <<7, 7, 9, 5>>, <<5, 3, 4, 4, 4, 5>>)>>

MCPanelSizes == {<<40, 10>>, <<80, 24>>}

\* Opened; nothing here; could not open an address longer than a line.
MCMessages == {<<7, 4, 2, 4, 2, 10>>, <<5, 3, 4, 90, 1, 2, 4, 4, 2, 9>>}
MCReasons == {<<10, 6>>, <<3, 4, 80, 5, 2, 9, 8>>}
MCGlobals == <<KeyOf(10, 4), KeyOf(3, 4), KeyOf(1, 11), KeyOf(1, 15), KeyOf(1, 8),
               KeyOf(1, 7), KeyOf(1, 18), KeyOf(3, 15)>>
=============================================================================
