-------------------------------- MODULE Text --------------------------------
(***************************************************************************)
(* Laying text out in cells (omaghy-tui, widgets/list.rs): wrapping, and   *)
(* the columns a list row keeps as the terminal narrows.                   *)
(*                                                                         *)
(* A text is a sequence of words and a word is its width in cells; every   *)
(* character takes one cell, so a wide character that would straddle the   *)
(* edge is not told from two.  A line is the pieces of words it holds.     *)
(***************************************************************************)
EXTENDS Integers, SequencesExt, FiniteSetsExt

Piece == [word: Nat, cells: Nat]

\* What numbers, or the pieces of a line, come to, and the cells a number takes.
Total(numbers) == FoldLeft(LAMBDA sum, n : sum + n, 0, numbers)
CellsOf(pieces) == Total([k \in DOMAIN pieces |-> pieces[k].cells])
Digits(n) == Cardinality({p \in {1, 10, 100, 1000, 10000} : p = 1 \/ p <= n})

\* Display width of a line: its pieces, and a space between two.
Cells(line) == IF line = <<>> THEN 0 ELSE CellsOf(line) + Len(line) - 1

-----------------------------------------------------------------------------
(* wrap: on whitespace where it can and mid-word where it must.             *)

\* A long word whose tail is closed with it.
CutOff(lines, i, cells, width) ==
    LET full == (cells - 1) \div width IN
    [out  |-> (IF lines.open = <<>> THEN lines.out ELSE Append(lines.out, lines.open))
              \o [k \in 1 .. full |-> <<[word |-> i, cells |-> width]>>],
     open |-> <<>>]

\* A word longer than a line is cut where lines end, and its tail stays open
\* so that the next word can share its line.
Cut(lines, i, cells, width) ==
    LET full == (cells - 1) \div width IN
    [out  |-> (IF lines.open = <<>> THEN lines.out ELSE Append(lines.out, lines.open))
              \o [k \in 1 .. full |-> <<[word |-> i, cells |-> width]>>],
     open |-> <<[word |-> i, cells |-> cells - full * width]>>]

Placed(lines, i, cells, width) ==
    LET piece == [word |-> i, cells |-> cells] IN
    IF lines.open = <<>> \/ Cells(lines.open) + 1 + cells <= width
    THEN [lines EXCEPT !.open = Append(@, piece)]
    ELSE [out |-> Append(lines.out, lines.open), open |-> <<piece>>]

Wrap(words, width) ==
    LET lines == FoldLeftDomain(
            LAMBDA acc, i : IF words[i] > width THEN Cut(acc, i, words[i], width)
                            ELSE Placed(acc, i, words[i], width),
            [out |-> <<>>, open |-> <<>>], words)
    IN IF lines.open # <<>> \/ lines.out = <<>>
       THEN Append(lines.out, lines.open)
       ELSE lines.out

\* Every line fits, and every word is on them, whole and in its place.
WrapsWhole(words, width) ==
    LET lines == Wrap(words, width)
        pieces == FlattenSeq(lines)
        CellsOfWord(i) == Total([k \in DOMAIN pieces |->
                                   IF pieces[k].word = i THEN pieces[k].cells ELSE 0])
    IN /\ \A k \in DOMAIN lines : Cells(lines[k]) <= width
       /\ \A i \in DOMAIN words : CellsOfWord(i) = words[i]
       /\ \A j, k \in DOMAIN pieces : j < k => pieces[j].word <= pieces[k].word

-----------------------------------------------------------------------------
(* elide: cut from the right, with an ellipsis in the last cell.  A text is *)
(* its cells where what is left of it is told from another, and else a part *)
(* of a line, that comes through whole or says nothing.                     *)

Ellipsis == 0
Letter == Nat \ {Ellipsis}

Elide(text, width) ==
    CASE width = 0 -> <<>>
      [] width > 0 /\ Len(text) <= width -> text
      [] width > 0 /\ Len(text) > width -> Append(SubSeq(text, 1, width - 1), Ellipsis)

\* Two texts begin alike.
SameStart(a, b, n) ==
    \A k \in 1 .. n : /\ k \in DOMAIN a <=> k \in DOMAIN b
                      /\ k \in DOMAIN a => a[k] = b[k]

\* The first k parts of a line, with a dot between two, in spaces.
JoinedCells(parts, k) == Total([m \in 1 .. k |-> parts[m].cells + 3]) - 3

IsCut(parts, k, width) == ~(JoinedCells(parts, k) <= width - 1)

\* The parts that come through whole, by their place; the last needs no room
\* for an ellipsis.
WholeParts(parts, width) ==
    LET Ends(k) == k = Len(parts) /\ JoinedCells(parts, k) <= width
    IN [k \in {m \in DOMAIN parts : ~IsCut(parts, m, width) \/ Ends(m)} |-> parts[k].says]

\* A repository is its owner and its name, with a slash between, or its name.
RepoCells(repo) == Total([k \in DOMAIN repo |-> Len(repo[k]) + 1]) - 1
RepoFits(repo, width) == RepoCells(repo) <= width

\* fit_repo, in a column of more than three cells: the owner goes first.
FitRepo(repo, width) ==
    IF RepoFits(repo, width) THEN repo
    ELSE IF Len(repo) = 2 THEN <<<<Ellipsis>>, Elide(repo[2], width - 2)>>
    ELSE <<Elide(repo[1], width)>>

-----------------------------------------------------------------------------
(* Columns.                                                                 *)

\* The gutter: cursor, unread marker, space.
Gutter == 3

\* Column::width; the title flexes.
ColumnWidth == [Icon |-> 1, Title |-> 0, Repo |-> 20, Number |-> 6,
                State |-> 8, Checks |-> 6, Actor |-> 12, Age |-> 4]

\* The breakpoints of Columns::for_width.
ForWidth(width) ==
    CASE width < 60                   -> {"Title", "Age"}
      [] width >= 60 /\ width < 80    -> {"Icon", "Title", "Age"}
      [] width >= 80 /\ width < 100   -> {"Icon", "Title", "Repo", "State", "Age"}
      [] width >= 100 /\ width < 120  -> {"Icon", "Title", "Repo", "Number", "State",
                                          "Checks", "Age"}
      [] OTHER                        -> DOMAIN ColumnWidth

\* What a row takes beside its title: the gutter, the other columns, and a
\* space between two.
Fixed(columns) ==
    LET Column(c) == IF c \in columns THEN ColumnWidth[c] + 1 ELSE 0
    IN Gutter - 1 + Column("Icon") + Column("Title") + Column("Repo") + Column("Number")
       + Column("State") + Column("Checks") + Column("Actor") + Column("Age")

\* assemble, with the columns a list drops: what is left for the title.
TitleWidth(columns, width) == Max({1, width - Fixed(columns)})

\* row_line.
RowWidth(columns, width) == Fixed(columns) + TitleWidth(columns, width)
=============================================================================
