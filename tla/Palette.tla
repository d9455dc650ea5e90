------------------------------- MODULE Palette -------------------------------
(***************************************************************************)
(* The command palette (omaghy-tui, widgets/palette.rs, and the part of    *)
(* app.rs that opens it and runs what it picks): every action has a name,  *)
(* and typing it must find it.                                             *)
(*                                                                         *)
(* A text is a sequence of character codes, as low as the alphabet of an   *)
(* instance needs; codes order names the way `str` does.  The line editor  *)
(* (tui-input) is known by what it does to the query.                      *)
(***************************************************************************)
EXTENDS Ordering, SequencesExt, FiniteSetsExt

CONSTANTS
    Keymaps,    \* what can be run, per surface: sequences of [name, description]
    Boundaries, \* is_boundary: . - _ space / :
    Space,
    Letters,    \* what is typed
    MaxQuery,   \* bound: letters in a query
    Heights,    \* rows of the terminal
    PageRows,   \* matches shown at most: 10
    None

VARIABLES
    keymap,   \* the actions the open palette was given, or None: closed
    query,    \* Palette.input
    matches,  \* Palette.matches
    selected, \* Palette.selected, from 0
    height,
    ran       \* the name of the last action run

vars == <<keymap, query, matches, selected, height, ran>>

PaletteAssumption ==
    /\ Space \in Boundaries
    /\ {MaxQuery, PageRows} \subseteq Nat \ {0}
    /\ None \notin Int \cup Keymaps
    /\ Keymaps \subseteq Seq([name: Seq(Nat), description: Seq(Nat)])
    /\ \A k \in Keymaps : \A i, j \in DOMAIN k :
          /\ k[i].name = k[j].name => i = j
          /\ \A n \in DOMAIN k[i].name : k[i].name[n] # Space

-----------------------------------------------------------------------------
(* fuzzy: a subsequence match, taken greedily from the left.                *)

\* What one letter of the needle earns, found at `at` when `from` was next.
Earned(hay, i, from, at) ==
    (IF at = 1 THEN 16 ELSE IF hay[at - 1] \in Boundaries THEN 8 ELSE 0)
    + (IF i > 1 /\ at = from THEN 8 ELSE 0)
    - Min({at - from, 8})

\* Spaces are not looked for.
Pattern(needle) ==
    FlattenSeq([k \in DOMAIN needle |-> IF needle[k] = Space THEN <<>> ELSE <<needle[k]>>])

\* The score, or None when a letter is not there.
Fuzzy(needle, hay) ==
    LET pat == Pattern(needle)
        Places(acc, i) == {h \in acc.next .. Len(hay) : hay[h] = pat[i]}
        end == FoldLeftDomain(
            LAMBDA acc, i :
                IF ~acc.found \/ Places(acc, i) = {} THEN [acc EXCEPT !.found = FALSE]
                ELSE LET at == Min(Places(acc, i)) IN
                     [acc EXCEPT !.next = at + 1,
                                 !.score = @ + Earned(hay, i, acc.next, at)],
            [found |-> TRUE, next |-> 1, score |-> 0], pat)
    IN IF pat = <<>> THEN 0
       ELSE IF end.found THEN end.score - Len(hay) \div 8
       ELSE None

\* A match by description scores 32 less than it would as a name.
Scored(action, needle) ==
    LET byName == Fuzzy(needle, action.name)
        byDescription == Fuzzy(needle, action.description)
    IN IF byName # None THEN byName
       ELSE IF byDescription # None THEN byDescription - 32
       ELSE None

\* The order of `str`.
Precedes(a, b) ==
    \/ IsStrictPrefix(a, b)
    \/ \E n \in DOMAIN a \cap DOMAIN b :
          a[n] < b[n] /\ \A m \in 1 .. n - 1 : a[m] = b[m]

\* Those with a score: the best score first, ties by name.
Ranking(actions, score) ==
    LET hits == {i \in DOMAIN actions : score[i] # None}
        Before(i, j) == \/ score[i] > score[j]
                        \/ /\ score[i] = score[j]
                           /\ Precedes(actions[i].name, actions[j].name)
    IN Sorted(hits, {r \in hits \X hits : Before(r[1], r[2])})

\* refilter.
Refilter(actions, needle) ==
    The({Ranking(actions, score) :
         score \in {[i \in DOMAIN actions |-> Scored(actions[i], needle)]}})

\* selected: the action Enter runs.
Picked == IF selected < Len(matches) THEN matches[selected + 1] ELSE None

-----------------------------------------------------------------------------

Init ==
    /\ keymap = None
    /\ query = <<>> /\ matches = <<>> /\ selected = 0
    /\ height \in Heights
    /\ ran = None

Closed == keymap' = None /\ query' = <<>> /\ matches' = <<>> /\ selected' = 0

\* open_palette: a new one over the actions of the surface in front.
Open == \E actions \in Keymaps :
    /\ keymap = None
    /\ keymap' = actions
    /\ query' = <<>>
    /\ matches' = Refilter(actions, <<>>)
    /\ selected' = 0
    /\ UNCHANGED <<height, ran>>

\* A changed query that leaves the selection where it was, as far as there
\* are still that many matches.
ChangedInPlace(to) ==
    /\ query' = to
    /\ matches' = Refilter(keymap, to)
    /\ selected' = Max({0, Min({selected, Len(matches') - 1})})

\* A changed query: the selection goes back to the top.
Changed(to) ==
    /\ query' = to
    /\ matches' = Refilter(keymap, to)
    /\ selected' = 0

\* What the line editor makes of one key.
Edits ==
    {InsertAt(query, at, c) : at \in IF Len(query) < MaxQuery THEN 1 .. Len(query) + 1
                                     ELSE {}, c \in Letters}
    \cup {RemoveAt(query, at) : at \in DOMAIN query}
    \cup {<<>>}

Type == \E to \in Edits \ {query} :
    /\ keymap # None
    /\ Changed(to)
    /\ UNCHANGED <<keymap, height, ran>>

\* move_selection, round the ends.
Move == \E delta \in {1, -1} :
    /\ keymap # None
    /\ matches # <<>>
    /\ selected' = (selected + delta) % Len(matches)
    /\ UNCHANGED <<keymap, query, matches, height, ran>>

\* Enter, on a match: the palette closes and the action runs.  On none it
\* stays, and so does what was typed.
Enter ==
    /\ keymap # None
    /\ Picked # None
    /\ ran' = keymap[Picked].name
    /\ Closed
    /\ UNCHANGED height

Escape ==
    /\ keymap # None
    /\ Closed
    /\ UNCHANGED <<height, ran>>

Resize ==
    /\ height' \in Heights \ {height}
    /\ UNCHANGED <<keymap, query, matches, selected, ran>>

Next == Open \/ Type \/ Move \/ Enter \/ Escape \/ Resize

Spec == Init /\ [][Next]_vars

-----------------------------------------------------------------------------
(* Drawing: a frame one row down, with the query and a rule over the rows.  *)

RowsWanted == Max({1, Min({Len(matches), PageRows})})
First == Max({0, selected - (RowsWanted - 1)})
RowsDrawn == Max({0, Min({RowsWanted, Min({RowsWanted + 4, height - 1}) - 4})})
OnScreen == {n \in 0 .. Len(matches) - 1 : First <= n /\ n < First + RowsDrawn}

-----------------------------------------------------------------------------
(* Safety.                                                                  *)

\* Anything reachable by key is reachable by name: whatever else matches, by
\* its name or its description, and whatever was typed, deleted and selected
\* before, typing the full name of an action leaves it picked, and no other.
\* What boundaries, contiguity, gaps and length earn must never add up to
\* more for another name.
NameFindsIt ==
    [][ keymap' # None /\ query' # query =>
            \A i \in DOMAIN keymap' : query' = keymap'[i].name => Picked' = i ]_vars

-----------------------------------------------------------------------------
(* What the code says of itself and does not do.                            *)

\* "Keep the selection on screen without a scrollbar nobody can size": the
\* scroll is of the rows wanted, not of the rows the terminal has.
SelectionOnScreen == keymap # None /\ matches # <<>> => selected \in OnScreen

\* "... without the description outranking a real name match": a name whose
\* letters lie far apart loses more than the 32 a description is docked.
NamesOutrank ==
    \A m, n \in DOMAIN matches :
        /\ Fuzzy(query, keymap[matches[m]].name) = None
        /\ Fuzzy(query, keymap[matches[n]].name) # None
        => n < m
=============================================================================
