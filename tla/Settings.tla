------------------------------ MODULE Settings ------------------------------
(***************************************************************************)
(* The settings panel and config.toml (omaghy-tui config.rs, omaghy        *)
(* config_file.rs): the file is read once, when the program starts, and    *)
(* written one key at a time while it runs, and meanwhile somebody with an *)
(* editor may do anything to it.                                           *)
(*                                                                         *)
(* The text of the file is reduced to what the reader and the writer tell  *)
(* apart: whether it is there, is UTF-8 and is TOML; for each section, its *)
(* shape and whether it holds lines that are no setting of ours; for each  *)
(* setting, the value written for it; and where there are comments, which  *)
(* toml_edit keeps with the key, the value or the header they stand at.    *)
(***************************************************************************)
EXTENDS Naturals, Sequences, SequencesExt, FiniteSets

CONSTANTS
    Ids,      \* the settings of the instance, of the eight in SettingId
    Typed,    \* what somebody writes for each of them by hand
    MaxEdits, \* bound: edits by hand
    MaxStack, \* bound: surfaces stacked
    None

\* SettingId::ALL, in the order of the panel, with the section of each.
ALL == <<"DefaultRoute", "Reason", "Repo", "Rows", "Triage", "Group",
         "RefreshNotifications", "RefreshDashboard">>

SectionOf == [id \in ToSet(ALL) |->
                CASE id = "DefaultRoute" -> "general"
                  [] id \in {"RefreshNotifications", "RefreshDashboard"} -> "refresh"
                  [] OTHER -> "notifications"]

Intervals == {"RefreshNotifications", "RefreshDashboard"}

\* The values the panel offers, in the order it cycles through them.
Options == [id \in ToSet(ALL) |->
              CASE id = "DefaultRoute" -> <<"dashboard", "notifications", "pulls", "issues",
                                            "actions", "repos", "search">>
                [] id = "Reason" -> <<"glyph", "text", "none">>
                [] id = "Repo" -> <<"full", "elide-owner", "hide-when-shared">>
                [] id = "Rows" -> <<"two-line", "one-line">>
                [] id = "Triage" -> <<"grey", "sink", "hide">>
                [] id = "Group" -> <<"by-repo", "flat">>
                [] OTHER -> <<30, 60, 120, 300, 600, 1800>>]

Default == [id \in ToSet(ALL) |->
              CASE id = "DefaultRoute" -> "notifications"
                [] id = "RefreshNotifications" -> 60
                [] id = "RefreshDashboard" -> 300
                [] OTHER -> Head(Options[id])]

Slugs == {"dashboard", "notifications", "pr", "issues", "actions", "repo", "search"}

\* Route::from_str; what follows a colon or a question mark is the surface's.
Parses(route) == route \in Slugs

ASSUME SettingsAssumption ==
    /\ Ids \subseteq ToSet(ALL)
    /\ Ids # {}
    /\ DOMAIN Typed = Ids
    /\ MaxEdits \in Nat
    /\ MaxStack \in Nat \ {0}
    /\ \A id \in Ids : None \notin Typed[id] \cup ToSet(Options[id])

Sections == {SectionOf[id] : id \in Ids}
Inbox == {id \in Ids : SectionOf[id] = "notifications"}
Rows == SelectSeq(ALL, LAMBDA id : id \in Ids)

VARIABLES
    pc,      \* "down", "up", or "refused": main gave up on the route
    writer,  \* the ConfigWriter: "file", or "discard" with nowhere to write
    file,    \* config.toml
    value,   \* App.config, as SettingId::current spells it
    source,  \* App.config.sources
    panel,   \* settings_open
    cursor,  \* Settings.cursor
    note,    \* whether settings_note says a change was not saved
    screens, \* the settings each stacked surface was given
    foreign, \* the settings whose line in the file somebody else changed since (history)
    edits    \* edits by hand so far

vars == <<pc, writer, file, value, source, panel, cursor, note, screens, foreign, edits>>
program == <<pc, writer, value, source, panel, cursor, note, screens>>

Blank == [state |-> "toml",
          shape |-> [s \in Sections |-> "absent"],
          other |-> {},
          keys  |-> [id \in Ids |-> None],
          comments |-> {}]

NoFile == [Blank EXCEPT !.state = "none"]
---------------------------------------------------------------------------
(* Reading: parse, general, notifications, refresh, seconds, load_from.    *)

\* A route is taken whatever it says; a word must be on the list; an
\* interval need only be positive.
Accepts(id, v) ==
    CASE id = "DefaultRoute" -> TRUE
      [] id \in Intervals -> v > 0
      [] OTHER -> v \in ToSet(Options[id])

FromFile(f, id) ==
    /\ f.state = "toml"
    /\ f.shape[SectionOf[id]] \in {"table", "inline"}
    /\ f.keys[id] # None
    /\ Accepts(id, f.keys[id])

Reads(f, id) == IF FromFile(f, id) THEN f.keys[id] ELSE Default[id]
Provenance(f, id) == IF FromFile(f, id) THEN "File" ELSE "Default"
---------------------------------------------------------------------------
(* Writing: FileWriter::write.                                             *)

\* Where a comment can stand: on the lines above a key, beside its value, and
\* over or beside the line that begins a section.  A section written inline
\* has room for none within.
Above(id) == <<"above", id>>
Beside(id) == <<"beside", id>>
Over(s) == <<"over", s>>

Places(f) ==
    UNION {{Above(id), Beside(id)} :
             id \in {o \in Ids : f.keys[o] # None /\ f.shape[SectionOf[o]] = "table"}}
    \cup {Over(s) : s \in {t \in Sections : f.shape[t] # "absent"}}

\* A file that cannot be read counts as an empty one.
Existing(f) == IF f.state = "toml" THEN f ELSE Blank

\* A new value stands without the comment beside the old one.
Inserted(f, id, v) ==
    LET s == SectionOf[id]
        g == [f EXCEPT !.keys[id] = v, !.comments = @ \ {Beside(id)}]
    IN  CASE f.shape[s] = "absent" -> [g EXCEPT !.shape[s] = "table"]
          [] f.shape[s] \in {"table", "inline"} -> g
          [] OTHER -> f

\* The key goes, with the comments that stand at it.
Unset(f, id) == [f EXCEPT !.keys[id] = None, !.comments = @ \ {Above(id), Beside(id)}]

\* The section goes, with those at its header.
Dropped(f, s) == [f EXCEPT !.shape[s] = "absent", !.comments = @ \ {Over(s)}]

\* is_empty, of a section: no keys; comments are none.
Emptied(f, s) == s \notin f.other /\ \A o \in Ids : SectionOf[o] = s => f.keys[o] = None

\* Mutant: the section left without settings goes, whatever else is in it.
RemovedWithSection(f, id) ==
    LET s == SectionOf[id]
        g == Unset(f, id)
    IN  IF f.shape[s] \notin {"table", "inline"} THEN f
        ELSE IF \A o \in Ids : SectionOf[o] = s => g.keys[o] = None
             THEN [Dropped(g, s) EXCEPT !.other = @ \ {s}]
             ELSE g

\* Mutant: a key is removed from a section written as a table only.
RemovedFromTable(f, id) ==
    LET s == SectionOf[id]
        g == Unset(f, id)
    IN  IF f.shape[s] # "table" THEN f
        ELSE IF Emptied(g, s) THEN Dropped(g, s) ELSE g

\* The key goes, and the section with it when that leaves it empty.
Removed(f, id) ==
    LET s == SectionOf[id]
        g == Unset(f, id)
    IN  IF f.shape[s] \notin {"table", "inline"} THEN f
        ELSE IF Emptied(g, s) THEN Dropped(g, s) ELSE g

\* FileWriter::write: a key without a value is taken out.
Written(f, id, scalar) == IF scalar = None THEN Removed(Existing(f), id)
                          ELSE Inserted(Existing(f), id, scalar)
---------------------------------------------------------------------------
(* Cycling: SettingId::cycle, nearest_above.                               *)

\* The first option above a value that is not one of them.
Nearest(id, v) ==
    LET above == {i \in DOMAIN Options[id] : Options[id][i] > v}
    IN  IF id \in Intervals /\ above # {} THEN Options[id][Min(above)]
        ELSE Head(Options[id])

Cycled(id, v, forward) ==
    LET opts == Options[id]
        n == Len(opts)
    IN  IF v \in ToSet(opts)
        THEN LET i == CHOOSE i \in 1..n : opts[i] = v
             IN  opts[((i - 1 + (IF forward THEN 1 ELSE n - 1)) % n) + 1]
        ELSE Nearest(id, v)

\* SettingId::apply; the panel's label for an interval and the number of
\* seconds it sets are one value here.
Applied(val, id, v) == [val EXCEPT ![id] = v]

IsDefault(val, id) == val[id] = Default[id]

\* Only what differs from its default is written.
Persisted(val, id) == IF IsDefault(val, id) THEN None ELSE val[id]
---------------------------------------------------------------------------
\* What a surface keeps of the settings when it is built or reconfigured.
Copied(val) == [id \in Inbox |-> val[id]]

Init ==
    /\ pc = "down"
    /\ writer \in {"file", "discard"}
    /\ file = NoFile
    /\ value = [id \in Ids |-> Default[id]]
    /\ source = [id \in Ids |-> "Default"]
    /\ panel = FALSE
    /\ cursor = 1
    /\ note = FALSE
    /\ screens = <<>>
    /\ foreign = {}
    /\ edits = 0

\* The route main opens: the argument's, else the file's, else the built-in.
Route == IF "DefaultRoute" \in Ids THEN Reads(file, "DefaultRoute") ELSE "notifications"

\* main: read the file, resolve the route, build the app.  With nowhere to
\* look for a file (no home directory) there is none to read or to write.
Start ==
    /\ pc = "down"
    /\ LET f == IF writer = "file" THEN file ELSE NoFile IN
       \E argument \in BOOLEAN :
         IF argument \/ writer = "discard" \/ Parses(Route)
         THEN /\ pc' = "up"
              /\ value' = [id \in Ids |-> Reads(f, id)]
              /\ source' = [id \in Ids |-> Provenance(f, id)]
              /\ screens' = <<Copied(value')>>
              /\ foreign' = {}
         ELSE /\ pc' = "refused"
              /\ UNCHANGED <<value, source, screens, foreign>>
    /\ panel' = FALSE /\ cursor' = 1 /\ note' = FALSE
    /\ UNCHANGED <<writer, file, edits>>

\* The program ends; what was not written is gone.
Quit ==
    /\ pc # "down"
    /\ pc' = "down"
    /\ panel' = FALSE
    /\ note' = FALSE
    /\ screens' = <<>>
    /\ UNCHANGED <<writer, file, value, source, cursor, foreign, edits>>

\* App::push, replace and pop: a surface is built from the context as it is.
Push ==
    /\ pc = "up" /\ ~panel /\ Len(screens) < MaxStack
    /\ screens' = Append(screens, Copied(value))
    /\ UNCHANGED <<pc, writer, file, value, source, panel, cursor, note, foreign, edits>>

Pop ==
    /\ pc = "up" /\ ~panel /\ Len(screens) > 1
    /\ screens' = Front(screens)
    /\ UNCHANGED <<pc, writer, file, value, source, panel, cursor, note, foreign, edits>>

Open ==
    /\ pc = "up" /\ ~panel
    /\ panel' = TRUE
    /\ UNCHANGED <<pc, writer, file, value, source, cursor, note, screens, foreign, edits>>

Dismiss ==
    /\ panel
    /\ panel' = FALSE
    /\ note' = FALSE
    /\ UNCHANGED <<pc, writer, file, value, source, cursor, screens, foreign, edits>>

Move ==
    /\ panel
    /\ \E step \in {1, Len(Rows) - 1} : cursor' = ((cursor - 1 + step) % Len(Rows)) + 1
    /\ UNCHANGED <<pc, writer, file, value, source, panel, note, screens, foreign, edits>>

\* Every stacked surface takes the new settings, the covered ones too.
Reconfigure(val) == [i \in DOMAIN screens |-> Copied(val)]

\* The write came back Ok: the row says where a restart would read it from.
Saved(id, f) ==
    /\ file' = f
    /\ source' = [source EXCEPT ![id] = IF IsDefault(value', id) THEN "Default" ELSE "File"]
    /\ note' = FALSE
    /\ foreign' = foreign \ {id}

\* It came back an error: the change stays for the session and says so.
NotSaved(id, f, lost) ==
    /\ file' = f
    /\ source' = [source EXCEPT ![id] = "Unsaved"]
    /\ note' = TRUE
    /\ foreign' = foreign \cup lost

\* Discard keeps nothing, and says Ok.
Discarded(id) == Saved(id, file)

\* App::change: cycle, apply, reconfigure, persist.  fs::write truncates
\* the file before it writes: a full disk leaves it empty.
Change(forward) ==
    \E id \in Ids :
        /\ panel
        /\ id = Rows[cursor]
        /\ value' = Applied(value, id, Cycled(id, value[id], forward))
        /\ screens' = Reconfigure(value')
        /\ CASE writer = "discard" -> Discarded(id)
             [] writer = "file" /\ file.state = "broken" -> NotSaved(id, file, {})
             [] OTHER -> \/ Saved(id, Written(file, id, Persisted(value', id)))
                         \/ NotSaved(id, file, {})
                         \/ NotSaved(id, Blank, Ids)
        /\ UNCHANGED <<pc, writer, panel, cursor, edits>>

\* The program is killed in a write, between the truncation and the rest.
KilledWriting ==
    /\ panel /\ writer = "file" /\ file.state # "broken"
    /\ file' = Blank
    /\ pc' = "down"
    /\ panel' = FALSE
    /\ note' = FALSE
    /\ screens' = <<>>
    /\ UNCHANGED <<writer, value, source, cursor, foreign, edits>>
---------------------------------------------------------------------------
(* Somebody with an editor.                                                *)

Edit(f, ids) ==
    /\ edits < MaxEdits
    /\ f # file
    /\ file' = f
    /\ foreign' = foreign \cup ids
    /\ edits' = edits + 1
    /\ UNCHANGED program

Of(s) == {id \in Ids : SectionOf[id] = s}

\* A comment goes with what it stands at.
Placed(f) == [f EXCEPT !.comments = @ \cap Places(f)]

\* A setting is written, changed or deleted, in a section that can hold it.
EditKey ==
    \E id \in Ids : \E v \in Typed[id] \cup {None} :
        LET s == SectionOf[id] IN
        /\ file.state \in {"none", "toml"} /\ file.shape[s] # "value"
        /\ Edit(Placed([file EXCEPT !.state = "toml", !.keys[id] = v,
                                    !.shape[s] = IF @ = "absent" THEN "table" ELSE @]), {id})

\* A section gets lines that are no setting, or is written another way; as a
\* plain value it holds nothing.
EditSection ==
    \E s \in Sections, shape \in {"table", "inline", "value"}, more \in BOOLEAN :
        /\ file.state \in {"none", "toml"}
        /\ IF shape = "value"
           THEN Edit(Placed([file EXCEPT !.state = "toml", !.shape[s] = shape, !.other = @ \ {s},
                                  !.keys = [id \in Ids |-> IF id \in Of(s) THEN None ELSE @[id]]]),
                     Of(s))
           ELSE Edit(Placed([file EXCEPT !.state = "toml", !.shape[s] = shape,
                                  !.other = IF more THEN @ \cup {s} ELSE @ \ {s}]),
                     IF file.shape[s] = "value" THEN Of(s) ELSE {})

\* A comment is written, or deleted.
Annotate ==
    \E place \in Places(file) :
        /\ file.state = "toml"
        /\ Edit([file EXCEPT !.comments = IF place \in @ THEN @ \ {place} ELSE @ \cup {place}], {})

\* The file stops being TOML, or UTF-8, is repaired, or is deleted.
EditFile ==
    \E state \in {"toml", "broken", "unreadable", "none"} :
        /\ file.state # "none" /\ state # file.state
        /\ Edit(IF state = "none" THEN NoFile ELSE [file EXCEPT !.state = state], Ids)

Panel == Open \/ Dismiss \/ Move \/ (\E forward \in BOOLEAN : Change(forward)) \/ KilledWriting
Hand == EditKey \/ EditSection \/ Annotate \/ EditFile
Next == Start \/ Quit \/ Push \/ Pop \/ Panel \/ Hand
Spec == Init /\ [][Next]_vars
---------------------------------------------------------------------------
(* Properties.                                                             *)

\* Types, and that a running program only holds values its reader accepts
\* and its panel can show: whatever is in the file, and however the ladder
\* of intervals is left and joined.
TypeOK ==
    /\ pc \in {"down", "up", "refused"}
    /\ file.state \in {"none", "toml", "broken", "unreadable"}
    /\ file.other \subseteq {s \in Sections : file.shape[s] \in {"table", "inline"}}
    /\ \A id \in Ids : file.keys[id] # None => file.shape[SectionOf[id]] \in {"table", "inline"}
    /\ file.comments \subseteq Places(file)
    /\ \A id \in Ids : value[id] \in ToSet(Options[id]) \cup {v \in Typed[id] : Accepts(id, v)}
    /\ \A id \in Ids : source[id] \in {"Default", "File", "Unsaved"}
    /\ cursor \in DOMAIN Rows
    /\ note => panel /\ \E id \in Ids : source[id] = "Unsaved"
    /\ foreign \subseteq Ids

\* What a row says of its source is what a restart would do: unless it says
\* "unsaved!", or somebody has since changed that line, reading the file
\* again gives the value on screen, from the place the row names.  Left out
\* are a section that is not a table, to which the writer writes nothing and
\* reports success, and a program with nowhere to write.
RowsTellTheFile ==
    \A id \in Ids \ foreign :
        pc = "up" /\ writer = "file" /\ source[id] # "Unsaved"
          /\ file.shape[SectionOf[id]] # "value"
        => Reads(file, id) = value[id] /\ Provenance(file, id) = source[id]

\* A change to id that is reported saved.
Reported(id) ==
    /\ pc = "up" /\ pc' = "up" /\ writer = "file"
    /\ value'[id] # value[id] /\ source'[id] # "Unsaved"

\* A change touches its own line and no other: the other settings, the lines
\* that are none and the way a section was written survive every write that
\* reports success, and every comment but those at its own line and at the
\* header of a section that goes; and a file that is not TOML is left alone.
\* Left out is a file that could not be read, which is overwritten.
OthersUntouched ==
    [][\A id \in Ids :
         Reported(id) /\ file.state # "unreadable"
         => /\ file.state # "broken"
            /\ file'.other = file.other
            /\ \A o \in Ids \ {id} : file'.keys[o] = file.keys[o]
            /\ \A s \in Sections :
                 file.shape[s] # "absent" /\ (s \in file.other \/ \E o \in Of(s) : file'.keys[o] # None)
                 => file'.shape[s] = file.shape[s]
            /\ file'.comments \subseteq file.comments
            /\ \A place \in file.comments \ file'.comments :
                 \/ place \in {Above(id), Beside(id)}
                 \/ \E s \in Sections : place = Over(s) /\ file'.shape[s] = "absent"]_vars

\* "Comments, ordering and spacing survive a write" (config_file.rs:11-13):
\* those at the line changed and at its section's header too.
CommentsSurvive ==
    [][\A id \in Ids :
         Reported(id) /\ file.state = "toml" => file.comments \subseteq file'.comments]_vars

\* Every surface of the stack shows the settings as they are now, one that
\* was covered while they changed too.
ScreensFollow == \A i \in DOMAIN screens : screens[i] = Copied(value)

\* Whoever shows a setting shows what the file and the program hold: the row
\* of the panel and every screen of the stack (config_file.rs, App::change).
SettingsAreTold == RowsTellTheFile /\ ScreensFollow

\* The routes the panel offers are, by its comment, the names Route parses:
\* a program whose file nobody else touched starts again.
StartsAgain == edits = 0 => pc # "refused"
=============================================================================
