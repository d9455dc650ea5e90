---------------------------- MODULE EdgesProofs -----------------------------
(***************************************************************************)
(* What is proved of the program's edges: the configuration file, the      *)
(* cache file, GitHub's JSON and the stores.                               *)
(*                                                                         *)
(* The panel's rows tell what the file holds and every stacked screen      *)
(* shows the settings as they are, for any settings, any number of edits   *)
(* by hand and any depth of the stack.  A row is right because a write     *)
(* changes what a reader finds on its own line and on no other, which      *)
(* needs the file's shape: a section without a value holds no key.         *)
(*                                                                         *)
(* A start ends on a cache of its own schema, for any number of programs   *)
(* of one binary: a rebuild replaces one file, once.                       *)
(*                                                                         *)
(* A validator is of the page it is kept with, and a row that was answered *)
(* is answered about its own subject, for any inbox, page and batch.       *)
(*                                                                         *)
(* The cache answers as the fake does, for any pages, marks and queries:   *)
(* what the one keeps by key and the other by place corresponds row by     *)
(* row, and sets that correspond, in orders that do, are lists that do.    *)
(***************************************************************************)
EXTENDS Edges, FiniteSetTheorems, WellFoundedInduction, TLAPS

\* What may be written for a setting, by hand or by the panel.
Words == UNION {Typed[id] \cup ToSet(Options[id]) \cup {Default[id]} : id \in Ids}

Shapes == {"absent", "table", "inline", "value"}

Text == [state: {"none", "toml", "broken", "unreadable"},
         shape: [Sections -> Shapes],
         other: SUBSET Sections,
         keys:  [Ids -> Words \cup {None}],
         comments: SUBSET (UNION {{Above(id), Beside(id)} : id \in Ids}
                           \cup {Over(s) : s \in Sections})]

\* Only a section that is a table has keys, and what is no file holds nothing.
Held(f) ==
    /\ f \in Text
    /\ \A id \in Ids : f.keys[id] # None => f.shape[SectionOf[id]] \in {"table", "inline"}
    /\ f.state = "none" => f = NoFile

\* A section written as a plain value, where a reader can see that it is.
Taken(f, id) == f.state = "toml" /\ f.shape[SectionOf[id]] = "value"

\* A value its own reader would take back.
Sound(id, v) == v \in Words /\ v # None /\ (v = Default[id] \/ Accepts(id, v))

RowIsTold(id) == Reads(file, id) = value[id] /\ Provenance(file, id) = source[id]

\* RowsTellTheFile, of an unreadable file too, whatever shape it hides.
RowsAreTold ==
    pc = "up" /\ writer = "file" =>
        \A id \in Ids \ foreign :
            source[id] # "Unsaved" /\ ~Taken(file, id) => RowIsTold(id)

\* A stack of some depth, each screen with the settings of now.
StackIsTold == \E n \in Nat : screens = [i \in 1 .. n |-> Copied(value)]

IInv ==
    /\ writer \in {"file", "discard"}
    /\ Held(file)
    /\ value \in [Ids -> Words]
    /\ \A id \in Ids : Sound(id, value[id])
    /\ source \in [Ids -> {"Default", "File", "Unsaved"}]
    /\ RowsAreTold
    /\ StackIsTold
---------------------------------------------------------------------------
(* The values.                                                             *)

\* Each setting has options, one of them its default, which its reader takes.
LEMMA OptionsAre ==
    ASSUME NEW id \in ToSet(ALL)
    PROVE  /\ DOMAIN Options[id] = 1 .. Len(Options[id])
           /\ Len(Options[id]) \in Nat \ {0}
           /\ id \in Intervals => \A i \in 1 .. Len(Options[id]) : Options[id][i] \in Nat \ {0}
           /\ \E i \in 1 .. Len(Options[id]) : Options[id][i] = Default[id]
<1>1. id \in {"DefaultRoute", "Reason", "Repo", "Rows", "Triage", "Group",
              "RefreshNotifications", "RefreshDashboard"}
  BY DEF ALL, ToSet
<1>2. CASE id = "DefaultRoute"
  <2>1. /\ Options[id] = <<"dashboard", "notifications", "pulls", "issues",
                           "actions", "repos", "search">>
        /\ Default[id] = "notifications"
        /\ id \notin Intervals
    BY <1>2 DEF Options, Default, Intervals
  <2> QED
    BY <2>1
<1>3. CASE id \in {"Reason", "Repo", "Rows", "Triage", "Group"}
  <2>1. /\ id = "Reason" => Options[id] = <<"glyph", "text", "none">>
        /\ id = "Repo" => Options[id] = <<"full", "elide-owner", "hide-when-shared">>
        /\ id = "Rows" => Options[id] = <<"two-line", "one-line">>
        /\ id = "Triage" => Options[id] = <<"grey", "sink", "hide">>
        /\ id = "Group" => Options[id] = <<"by-repo", "flat">>
    BY <1>3 DEF Options
  <2>2. /\ Default[id] = Head(Options[id])
        /\ id \notin Intervals
    BY <1>3 DEF Default, Intervals
  <2>3. Len(Options[id]) \in Nat \ {0} /\ DOMAIN Options[id] = 1 .. Len(Options[id])
    <3>1. id \in {"Rows", "Group"} => Len(Options[id]) = 2 /\ DOMAIN Options[id] = 1 .. 2
      BY <2>1
    <3>2. id \in {"Reason", "Repo", "Triage"}
             => Len(Options[id]) = 3 /\ DOMAIN Options[id] = 1 .. 3
      BY <2>1
    <3> QED
      BY <1>3, <3>1, <3>2
  <2>4. Options[id][1] = Head(Options[id])
    BY <1>3, <2>1
  <2> QED
    BY <2>2, <2>3, <2>4
<1>4. CASE id \in Intervals
  <2>1. Options[id] = <<30, 60, 120, 300, 600, 1800>>
    BY <1>4 DEF Options, Intervals
  <2>2. Default[id] \in {60, 300}
    BY <1>4 DEF Default, Intervals
  <2> QED
    BY <2>1, <2>2
<1> QED
  BY <1>1, <1>2, <1>3, <1>4 DEF Intervals

\* A set of naturals has a least element.
LEMMA LeastOfNats ==
    ASSUME NEW N \in SUBSET Nat, N # {}
    PROVE  \E n \in N : \A m \in N : n <= m
<1>1. PICK n \in N : \A m \in N : ~(<<m, n>> \in OpToRel(<, Nat))
  BY NatLessThanWellFounded, WFMin
<1>2. \A m \in Nat : m < n => <<m, n>> \in OpToRel(<, Nat)
  BY DEF OpToRel
<1>3. ASSUME NEW m \in N
      PROVE  n <= m
  <2>1. n \in Nat /\ m \in Nat
    OBVIOUS
  <2>2. ~(m < n)
    BY <1>1, <1>2, <2>1
  <2> QED
    BY <2>1, <2>2
<1> QED
  BY <1>3

LEMMA LeastOfSome ==
    ASSUME NEW N, N \subseteq Nat, N # {}
    PROVE  Min(N) \in N
BY LeastOfNats DEF Min

\* The panel's next value is one of those it offers.
LEMMA CycledIsOffered ==
    ASSUME NEW id \in ToSet(ALL), NEW v, NEW forward \in BOOLEAN
    PROVE  Cycled(id, v, forward) \in ToSet(Options[id])
<1> DEFINE opts == Options[id]
           n == Len(opts)
<1>1. n \in Nat \ {0} /\ DOMAIN opts = 1 .. n
  BY OptionsAre
<1>2. ToSet(opts) = {opts[i] : i \in 1 .. n}
  BY <1>1 DEF ToSet
<1>3. CASE v \in ToSet(opts)
  <2> DEFINE i == CHOOSE j \in 1 .. n : opts[j] = v
             k == ((i - 1 + (IF forward THEN 1 ELSE n - 1)) % n) + 1
  <2>1. i \in 1 .. n
    BY <1>2, <1>3
  <2> HIDE DEF i
  <2>2. k \in 1 .. n
    <3> DEFINE m == i - 1 + (IF forward THEN 1 ELSE n - 1)
    <3>1. m \in Nat
      BY <1>1, <2>1
    <3> HIDE DEF m, n
    <3>2. m % n \in 0 .. n - 1
      BY <1>1, <3>1
    <3>3. k = (m % n) + 1
      BY DEF m, n
    <3> QED
      BY <1>1, <3>2, <3>3
  <2>3. Cycled(id, v, forward) = opts[k]
    BY <1>3 DEF Cycled, i
  <2> QED
    BY <1>2, <2>2, <2>3
<1>4. CASE v \notin ToSet(opts)
  <2>1. Head(opts) = opts[1]
    OBVIOUS
  <2> DEFINE above == {j \in DOMAIN opts : opts[j] > v}
  <2>2. above # {} => Min(above) \in 1 .. n
    <3>1. above \subseteq 1 .. n /\ 1 .. n \subseteq Nat
      BY <1>1
    <3> HIDE DEF above, n
    <3> QED
      BY <3>1, LeastOfSome
  <2>3. Nearest(id, v) \in {opts[1]} \cup {opts[j] : j \in 1 .. n}
    BY <2>1, <2>2 DEF Nearest
  <2> QED
    BY <1>1, <1>2, <1>4, <2>3 DEF Cycled
<1> QED
  BY <1>3, <1>4

\* What is offered, a default too, is sound: its reader takes it back.
LEMMA OfferedIsSound ==
    ASSUME NEW id \in Ids, NEW v \in ToSet(Options[id])
    PROVE  Sound(id, v) /\ Accepts(id, v)
<1>1. id \in ToSet(ALL) /\ v # None
  BY SettingsAssumption
<1>2. v \in Words
  BY DEF Words
<1>3. Accepts(id, v)
  BY <1>1, OptionsAre DEF Accepts, ToSet
<1> QED
  BY <1>1, <1>2, <1>3 DEF Sound

LEMMA DefaultIsSound ==
    ASSUME NEW id \in Ids
    PROVE  Sound(id, Default[id])
BY OfferedIsSound, OptionsAre, SettingsAssumption DEF ToSet

\* What is read is sound, whoever wrote it.
LEMMA ReadIsSound ==
    ASSUME NEW f, Held(f), NEW id \in Ids
    PROVE  Sound(id, Reads(f, id))
BY DefaultIsSound DEF Reads, FromFile, Sound, Held, Text
---------------------------------------------------------------------------
(* The file.                                                               *)

LEMMA SectionsOfIds == \A id \in Ids : SectionOf[id] \in Sections
BY DEF Sections

LEMMA BlankIsHeld == Held(Blank) /\ Held(NoFile)
BY DEF Held, Blank, NoFile, Text, Shapes

LEMMA NoFileHoldsNone ==
    ASSUME NEW f, Held(f), f.state = "none"
    PROVE  \A id \in Ids : f.keys[id] = None /\ f.shape[SectionOf[id]] = "absent"
BY SectionsOfIds DEF Held, NoFile, Blank

\* A file whose sections hold their keys, in another file's place.
Follows(g, f, id) ==
    /\ Held(g)
    /\ g.state = "toml"
    /\ \A o \in Ids \ {id} :
         /\ FromFile(g, o) <=> FromFile(f, o)
         /\ FromFile(f, o) => g.keys[o] = f.keys[o]
         /\ Taken(g, o) <=> Taken(f, o)

LEMMA BlankFollows ==
    ASSUME NEW f, Held(f), f.state # "toml", NEW id
    PROVE  Follows(Blank, f, id)
BY BlankIsHeld, SectionsOfIds DEF Follows, FromFile, Taken, Blank

\* What taking a key, a section or comments out of a file leaves of it.
LEMMA UnsetIs ==
    ASSUME NEW f \in Text, NEW id \in Ids
    PROVE  LET g == Unset(f, id)
           IN  /\ g \in Text /\ g.state = f.state /\ g.shape = f.shape /\ g.other = f.other
               /\ g.keys = [f.keys EXCEPT ![id] = None]
               /\ g.comments = f.comments \ {Above(id), Beside(id)}
BY DEF Unset, Text

LEMMA DroppedIs ==
    ASSUME NEW f \in Text, NEW s \in Sections
    PROVE  LET g == Dropped(f, s)
           IN  /\ g \in Text /\ g.state = f.state /\ g.other = f.other /\ g.keys = f.keys
               /\ g.shape = [f.shape EXCEPT ![s] = "absent"]
               /\ g.comments = f.comments \ {Over(s)}
BY DEF Dropped, Text, Shapes

LEMMA PlacedIs ==
    ASSUME NEW f, Held(f), f.state = "toml"
    PROVE  /\ Held(Placed(f)) /\ Placed(f).keys = f.keys
           /\ \A id \in Ids : /\ FromFile(Placed(f), id) <=> FromFile(f, id)
                              /\ Taken(Placed(f), id) <=> Taken(f, id)
<1> DEFINE g == Placed(f)
<1>1. f \in Text
  BY DEF Held
<1>2. /\ g \in Text /\ g.state = f.state /\ g.shape = f.shape
      /\ g.other = f.other /\ g.keys = f.keys
  <2>1. g = [f EXCEPT !.comments = f.comments \cap Places(f)]
    BY DEF Placed
  <2> QED
    BY <1>1, <2>1 DEF Text
<1> HIDE DEF g
<1>3. Held(g)
  BY <1>2 DEF Held
<1>4. \A id \in Ids : (FromFile(g, id) <=> FromFile(f, id)) /\ (Taken(g, id) <=> Taken(f, id))
  BY <1>2 DEF FromFile, Taken
<1> QED
  BY <1>2, <1>3, <1>4 DEF g

\* What inserting a key makes of a file, where its section can hold it.
LEMMA InsertedIs ==
    ASSUME NEW f \in Text, NEW id \in Ids, NEW v \in Words \cup {None},
           f.shape[SectionOf[id]] # "value"
    PROVE  LET g == Inserted(f, id, v)
               s == SectionOf[id]
           IN  /\ g \in Text /\ g.state = f.state /\ g.other = f.other
               /\ g.keys = [f.keys EXCEPT ![id] = v]
               /\ g.shape = [f.shape EXCEPT ![s] = IF @ = "absent" THEN "table" ELSE @]
               /\ g.comments = f.comments \ {Beside(id)}
<1> DEFINE s == SectionOf[id]
           h == [f EXCEPT !.keys[id] = v, !.comments = @ \ {Beside(id)}]
<1>1. s \in Sections /\ f.shape \in [Sections -> Shapes]
  BY SectionsOfIds DEF Text
<1>2. /\ h \in Text /\ h.state = f.state /\ h.shape = f.shape /\ h.other = f.other
      /\ h.keys = [f.keys EXCEPT ![id] = v] /\ h.comments = f.comments \ {Beside(id)}
  BY DEF Text
<1>3. CASE f.shape[s] = "absent"
  <2> DEFINE g == [h EXCEPT !.shape[s] = "table"]
  <2>1. Inserted(f, id, v) = g
    BY <1>3 DEF Inserted
  <2> HIDE DEF h
  <2>2. /\ g \in Text /\ g.state = h.state /\ g.other = h.other /\ g.keys = h.keys
        /\ g.comments = h.comments /\ g.shape = [h.shape EXCEPT ![s] = "table"]
    BY <1>2 DEF Text, Shapes
  <2> HIDE DEF g
  <2>3. [f.shape EXCEPT ![s] = IF @ = "absent" THEN "table" ELSE @] = [f.shape EXCEPT ![s] = "table"]
    BY <1>3
  <2> QED
    BY <1>2, <2>1, <2>2, <2>3
<1>4. CASE f.shape[s] \in {"table", "inline"}
  <2>1. Inserted(f, id, v) = h
    BY <1>4 DEF Inserted
  <2>2. [f.shape EXCEPT ![s] = IF @ = "absent" THEN "table" ELSE @] = f.shape
    BY <1>1, <1>4
  <2> HIDE DEF h
  <2> QED
    BY <1>2, <2>1, <2>2
<1> QED
  BY <1>1, <1>3, <1>4 DEF Shapes

\* A key is inserted: its reader finds it and the other readers what they did.
LEMMA InsertedIsTold ==
    ASSUME NEW f, Held(f), f.state = "toml",
           NEW id \in Ids, NEW v \in Words, v # None, Accepts(id, v)
    PROVE  /\ Follows(Inserted(f, id, v), f, id)
           /\ ~Taken(Inserted(f, id, v), id) =>
                FromFile(Inserted(f, id, v), id) /\ Inserted(f, id, v).keys[id] = v
<1> DEFINE s == SectionOf[id]
           g == Inserted(f, id, v)
<1>1. s \in Sections /\ f \in Text
  BY SectionsOfIds DEF Held
<1>2. CASE f.shape[s] # "value"
  <2>1. /\ g \in Text /\ g.state = f.state
        /\ g.keys = [f.keys EXCEPT ![id] = v]
        /\ g.shape = [f.shape EXCEPT ![s] = IF @ = "absent" THEN "table" ELSE @]
    BY <1>1, <1>2, InsertedIs
  <2>2. /\ g.keys[id] = v /\ g.shape[s] \in {"table", "inline"}
        /\ \A o \in Ids \ {id} : g.keys[o] = f.keys[o]
        /\ \A t \in Sections : g.shape[t] = f.shape[t] \/ (t = s /\ f.shape[t] = "absent")
    BY <1>1, <1>2, <2>1 DEF Text, Shapes
  <2> HIDE DEF g
  <2>3. Held(g)
    BY <1>1, <2>1, <2>2, SectionsOfIds DEF Held
  <2>4. Follows(g, f, id)
    BY <1>1, <2>1, <2>2, <2>3, SectionsOfIds DEF Follows, FromFile, Taken, Held
  <2>5. FromFile(g, id)
    BY <2>1, <2>2 DEF FromFile
  <2> QED
    BY <2>2, <2>4, <2>5 DEF g
<1>3. CASE f.shape[s] = "value"
  <2>1. Inserted(f, id, v) = f
    BY <1>3 DEF Inserted
  <2> QED
    BY <2>1, <1>3 DEF Follows, Taken
<1> QED
  BY <1>2, <1>3

\* A key is taken out: its reader finds none, and the other readers what they did.
LEMMA RemovedIsTold ==
    ASSUME NEW f, Held(f), f.state = "toml", NEW id \in Ids
    PROVE  /\ Follows(Removed(f, id), f, id)
           /\ ~Taken(Removed(f, id), id) => ~FromFile(Removed(f, id), id)
<1> DEFINE s == SectionOf[id]
           keys == [f.keys EXCEPT ![id] = None]
           g == Unset(f, id)
           gone == Dropped(g, s)
<1>1. s \in Sections /\ f \in Text
  BY SectionsOfIds DEF Held
<1>2. g.state = f.state /\ g.shape = f.shape /\ g.other = f.other /\ g.keys = keys /\ g \in Text
  BY <1>1, UnsetIs
<1>3. /\ gone.state = f.state /\ gone.shape = [f.shape EXCEPT ![s] = "absent"]
      /\ gone.other = f.other /\ gone.keys = keys /\ gone \in Text
  <2> HIDE DEF g
  <2> QED
    BY <1>1, <1>2, DroppedIs
<1>4. CASE f.shape[s] \notin {"table", "inline"}
  <2>1. Removed(f, id) = f
    BY <1>4 DEF Removed
  <2> QED
    BY <2>1, <1>4 DEF Follows, FromFile
<1>5. CASE f.shape[s] \in {"table", "inline"} /\ Emptied(g, s)
  <2>1. Removed(f, id) = gone
    BY <1>5 DEF Removed
  <2> HIDE DEF g, gone
  <2>2. s \notin f.other /\ \A o \in Ids : SectionOf[o] = s => gone.keys[o] = None
    BY <1>2, <1>3, <1>5 DEF Emptied
  <2>3. Held(gone)
    BY <1>1, <1>3, <2>2, SectionsOfIds DEF Held, Text
  <2> QED
    BY <2>1, <2>2, <2>3, <1>1, <1>3, <1>5, SectionsOfIds DEF Follows, FromFile, Taken, Held, Text
<1>6. CASE f.shape[s] \in {"table", "inline"} /\ ~Emptied(g, s)
  <2>1. Removed(f, id) = g
    BY <1>6 DEF Removed
  <2> HIDE DEF g, gone
  <2>2. Held(g)
    BY <1>1, <1>2 DEF Held, Text
  <2> QED
    BY <2>1, <2>2, <1>1, <1>2, <1>6 DEF Follows, FromFile, Taken, Held, Text
<1> QED
  BY <1>4, <1>5, <1>6

\* A change is written: whoever reads the file finds it, or its default.
LEMMA WrittenIsTold ==
    ASSUME NEW f, Held(f), NEW id \in Ids, NEW val, Sound(id, val[id]),
           IsDefault(val, id) \/ Accepts(id, val[id]),
           NEW g, g = Written(f, id, Persisted(val, id))
    PROVE  /\ Follows(g, f, id)
           /\ ~Taken(g, id) =>
                /\ Reads(g, id) = val[id]
                /\ Provenance(g, id) = IF IsDefault(val, id) THEN "Default" ELSE "File"
<1> DEFINE e == Existing(f)
<1>1. Held(e) /\ e.state = "toml"
  BY BlankIsHeld DEF Existing, Blank
<1>2. Follows(e, f, id)
  BY BlankFollows DEF Existing, Follows
<1>3. val[id] # None /\ val[id] \in Words
  BY DEF Sound
<1>4. /\ Follows(g, e, id)
      /\ ~Taken(g, id) =>
           /\ Reads(g, id) = val[id]
           /\ Provenance(g, id) = IF IsDefault(val, id) THEN "Default" ELSE "File"
  <2> HIDE DEF e
  <2>1. CASE IsDefault(val, id)
    <3>1. g = Removed(e, id)
      BY <2>1 DEF Written, Persisted, e
    <3> QED
      BY <3>1, <2>1, <1>1, RemovedIsTold DEF IsDefault, Reads, Provenance
  <2>2. CASE ~IsDefault(val, id)
    <3>1. g = Inserted(e, id, val[id])
      BY <2>2, <1>3 DEF Written, Persisted, e
    <3> QED
      BY <3>1, <2>2, <1>1, <1>3, InsertedIsTold DEF Reads, Provenance
  <2> QED
    BY <2>1, <2>2
<1> QED
  BY <1>2, <1>4 DEF Follows
---------------------------------------------------------------------------
(* The steps.                                                              *)

\* What a write does to the rows: its own tells the file, and the others
\* tell it as they did.
LEMMA SavedIsTold ==
    ASSUME IInv, NEW id \in Ids, NEW v, Sound(id, v), Accepts(id, v),
           value' = Applied(value, id, v), pc' = pc, writer' = writer,
           \/ Saved(id, Written(file, id, Persisted(value', id))) /\ writer = "file"
           \/ Saved(id, file) /\ writer # "file"
           \/ NotSaved(id, file, {})
           \/ NotSaved(id, Blank, Ids)
    PROVE  /\ Held(file)' /\ RowsAreTold'
           /\ value' \in [Ids -> Words] /\ \A o \in Ids : Sound(o, value[o])'
           /\ source' \in [Ids -> {"Default", "File", "Unsaved"}]
<1> USE DEF IInv
<1>1. /\ value' = [value EXCEPT ![id] = v]
      /\ value' \in [Ids -> Words] /\ \A o \in Ids : Sound(o, value'[o])
  BY DEF Applied, Sound
<1>2. value'[id] = v /\ \A o \in Ids \ {id} : value'[o] = value[o]
  BY <1>1
<1>3. CASE Saved(id, Written(file, id, Persisted(value', id))) /\ writer = "file"
  <2> DEFINE g == Written(file, id, Persisted(value', id))
             said == IF IsDefault(value', id) THEN "Default" ELSE "File"
  <2>1. file' = g /\ source' = [source EXCEPT ![id] = said] /\ foreign' = foreign \ {id}
    BY <1>3 DEF Saved
  <2>2. /\ Follows(g, file, id)
        /\ ~Taken(g, id) => Reads(g, id) = value'[id] /\ Provenance(g, id) = said
    BY <1>1, <1>2, WrittenIsTold
  <2>3. said \in {"Default", "File"}
    OBVIOUS
  <2> HIDE DEF g, said
  <2>4. source' \in [Ids -> {"Default", "File", "Unsaved"}]
    BY <2>1, <2>3
  <2>5. RowsAreTold'
    <3> SUFFICES ASSUME pc = "up", writer = "file", NEW o \in Ids \ foreign',
                        source'[o] # "Unsaved", ~Taken(g, o)
                 PROVE  Reads(g, o) = value'[o] /\ Provenance(g, o) = source'[o]
      BY <2>1 DEF RowsAreTold, RowIsTold
    <3>1. CASE o = id
      BY <3>1, <2>1, <2>2
    <3>2. CASE o # id
      <4>1. o \in Ids \ foreign /\ source'[o] = source[o] /\ value'[o] = value[o]
        BY <3>2, <2>1, <1>2
      <4>2. ~Taken(file, o) /\ (FromFile(g, o) <=> FromFile(file, o))
            /\ (FromFile(file, o) => g.keys[o] = file.keys[o])
        BY <3>2, <2>2, <4>1 DEF Follows
      <4>3. RowIsTold(o)
        BY <4>1, <4>2 DEF RowsAreTold
      <4> QED
        BY <4>1, <4>2, <4>3 DEF RowIsTold, Reads, Provenance
    <3> QED
      BY <3>1, <3>2
  <2> QED
    BY <1>1, <2>1, <2>2, <2>4, <2>5 DEF Follows
<1>4. CASE Saved(id, file) /\ writer # "file"
  BY <1>1, <1>4 DEF Saved, RowsAreTold
<1>5. CASE NotSaved(id, file, {})
  <2>1. file' = file /\ source' = [source EXCEPT ![id] = "Unsaved"] /\ foreign' = foreign
    BY <1>5 DEF NotSaved
  <2>2. RowsAreTold'
    BY <1>2, <2>1 DEF RowsAreTold, RowIsTold, Reads, Provenance, FromFile, Taken
  <2> QED
    BY <1>1, <2>1, <2>2
<1>6. CASE NotSaved(id, Blank, Ids)
  <2>1. file' = Blank /\ source' = [source EXCEPT ![id] = "Unsaved"] /\ Ids \subseteq foreign'
    BY <1>6 DEF NotSaved
  <2> QED
    BY <1>1, <2>1, BlankIsHeld DEF RowsAreTold
<1> QED
  BY <1>3, <1>4, <1>5, <1>6

\* Somebody's edit: no row is claimed whose line it changed.
LEMMA EditIsTold ==
    ASSUME IInv, NEW g, Held(g), NEW ids, Edit(g, ids),
           \A id \in Ids \ ids : ~Taken(g, id) =>
                /\ ~Taken(file, id)
                /\ FromFile(g, id) <=> FromFile(file, id)
                /\ FromFile(file, id) => g.keys[id] = file.keys[id]
    PROVE  IInv'
<1> USE DEF IInv
<1>1. /\ file' = g /\ foreign' = foreign \cup ids
      /\ UNCHANGED <<pc, writer, value, source, screens>>
  BY DEF Edit, program
<1>2. RowsAreTold'
  BY <1>1 DEF RowsAreTold, RowIsTold, Reads, Provenance
<1> QED
  BY <1>1, <1>2 DEF StackIsTold

LEMMA StartKeeps ==
    ASSUME IInv, Start
    PROVE  IInv'
<1> USE DEF IInv
<1>1. writer' = writer /\ file' = file
  BY DEF Start
<1>2. CASE pc' = "up" /\ pc # "up"
  <2> DEFINE f == IF writer = "file" THEN file ELSE NoFile
  <2>1. /\ value' = [id \in Ids |-> Reads(f, id)]
        /\ source' = [id \in Ids |-> Provenance(f, id)]
        /\ screens' = <<Copied(value')>>
    BY <1>2 DEF Start
  <2>2. Held(f)
    BY BlankIsHeld
  <2> HIDE DEF f
  <2>3. value' \in [Ids -> Words] /\ \A id \in Ids : Sound(id, value'[id])
    BY <2>1, <2>2, ReadIsSound DEF Sound
  <2>4. source' \in [Ids -> {"Default", "File", "Unsaved"}]
    BY <2>1 DEF Provenance
  <2>5. RowsAreTold'
    BY <1>1, <2>1 DEF RowsAreTold, RowIsTold, f
  <2>6. StackIsTold'
    <3>1. screens' = [i \in 1 .. 1 |-> Copied(value')]
      BY <2>1
    <3> QED
      BY <3>1 DEF StackIsTold
  <2> QED
    BY <1>1, <2>3, <2>4, <2>5, <2>6
<1>3. CASE pc' # "up"
  BY <1>1, <1>3 DEF Start, RowsAreTold, StackIsTold
<1> QED
  BY <1>2, <1>3 DEF Start

LEMMA ChangeKeeps ==
    ASSUME IInv, NEW forward \in BOOLEAN, Change(forward)
    PROVE  IInv'
<1> USE DEF IInv
<1>1. PICK id \in Ids :
        /\ value' = Applied(value, id, Cycled(id, value[id], forward))
        /\ screens' = Reconfigure(value')
        /\ CASE writer = "discard" -> Discarded(id)
             [] writer = "file" /\ file.state = "broken" -> NotSaved(id, file, {})
             [] OTHER -> \/ Saved(id, Written(file, id, Persisted(value', id)))
                         \/ NotSaved(id, file, {})
                         \/ NotSaved(id, Blank, Ids)
        /\ pc' = pc /\ writer' = writer
  BY DEF Change
<1> DEFINE v == Cycled(id, value[id], forward)
<1>2. Sound(id, v) /\ Accepts(id, v)
  BY CycledIsOffered, OfferedIsSound, SettingsAssumption
<1> HIDE DEF v
<1>3. StackIsTold'
  BY <1>1 DEF StackIsTold, Reconfigure
<1> QED
  BY <1>1, <1>2, <1>3, SavedIsTold DEF Discarded, v

LEMMA PanelKeeps ==
    ASSUME IInv, Panel
    PROVE  IInv'
<1> USE DEF IInv
<1>1. CASE Open \/ Dismiss \/ Move
  <2>1. UNCHANGED <<pc, writer, file, value, source, screens, foreign>>
    BY <1>1 DEF Open, Dismiss, Move
  <2> QED
    BY <2>1 DEF RowsAreTold, RowIsTold, StackIsTold
<1>2. CASE \E forward \in BOOLEAN : Change(forward)
  BY <1>2, ChangeKeeps
<1>3. CASE KilledWriting
  <2>1. /\ file' = Blank /\ pc' = "down" /\ screens' = <<>>
        /\ UNCHANGED <<writer, value, source>>
    BY <1>3 DEF KilledWriting
  <2>2. screens' = [i \in 1 .. 0 |-> Copied(value')]
    BY <2>1
  <2> QED
    BY <2>1, <2>2, BlankIsHeld DEF RowsAreTold, StackIsTold
<1> QED
  BY <1>1, <1>2, <1>3 DEF Panel

LEMMA StackKeeps ==
    ASSUME IInv, Quit \/ Push \/ Pop
    PROVE  IInv'
<1> USE DEF IInv
<1>1. PICK n \in Nat : screens = [i \in 1 .. n |-> Copied(value)]
  BY DEF StackIsTold
<1>2. UNCHANGED <<writer, file, value, source, foreign>> /\ pc' \in {pc, "down"}
  BY DEF Quit, Push, Pop
<1>3. StackIsTold'
  <2>1. CASE Quit
    <3>1. screens' = [i \in 1 .. 0 |-> Copied(value')]
      BY <2>1 DEF Quit
    <3> QED
      BY <3>1 DEF StackIsTold
  <2>2. CASE Push
    <3>1. screens' = [i \in 1 .. n + 1 |-> Copied(value)]
      BY <1>1, <2>2 DEF Push
    <3> QED
      BY <1>2, <3>1 DEF StackIsTold
  <2>3. CASE Pop
    <3>1. n \in Nat \ {0} /\ screens' = [i \in 1 .. n - 1 |-> Copied(value)]
      BY <1>1, <2>3 DEF Pop, Front
    <3> QED
      BY <1>2, <3>1 DEF StackIsTold
  <2> QED
    BY <2>1, <2>2, <2>3
<1> QED
  BY <1>2, <1>3 DEF RowsAreTold, RowIsTold

LEMMA EditKeyKeeps ==
    ASSUME IInv, EditKey
    PROVE  IInv'
<1> USE DEF IInv
<1>0. PICK id \in Ids : \E v \in Typed[id] \cup {None} :
        /\ file.state \in {"none", "toml"} /\ file.shape[SectionOf[id]] # "value"
        /\ Edit(Placed([file EXCEPT !.state = "toml", !.keys[id] = v,
                   !.shape[SectionOf[id]] = IF @ = "absent" THEN "table" ELSE @]), {id})
  BY DEF EditKey
<1>1. PICK v \in Typed[id] \cup {None} :
        /\ file.state \in {"none", "toml"} /\ file.shape[SectionOf[id]] # "value"
        /\ Edit(Placed([file EXCEPT !.state = "toml", !.keys[id] = v,
                   !.shape[SectionOf[id]] = IF @ = "absent" THEN "table" ELSE @]), {id})
  BY <1>0
<1> DEFINE s == SectionOf[id]
           shape == [file.shape EXCEPT ![s] = IF @ = "absent" THEN "table" ELSE @]
           keys == [file.keys EXCEPT ![id] = v]
           g == [file EXCEPT !.state = "toml", !.keys[id] = v,
                             !.shape[s] = IF @ = "absent" THEN "table" ELSE @]
<1>2. s \in Sections /\ file \in Text /\ v \in Words \cup {None}
  BY SectionsOfIds DEF Held, Words
<1>3. g.state = "toml" /\ g.shape = shape /\ g.other = file.other /\ g.keys = keys /\ g \in Text
  BY <1>2 DEF Text, Shapes
<1>4. Edit(Placed(g), {id}) /\ file.state \in {"none", "toml"} /\ file.shape[s] # "value"
  BY <1>1
<1> HIDE DEF g
<1>5. file.shape \in [Sections -> Shapes] /\ file.keys \in [Ids -> Words \cup {None}]
  BY <1>2 DEF Text
<1>6. shape[s] \in {"table", "inline"}
  BY <1>2, <1>4, <1>5 DEF Shapes
<1>7. \A o \in Ids \ {id} :
        /\ g.keys[o] = file.keys[o]
        /\ shape[SectionOf[o]] = file.shape[SectionOf[o]]
           \/ (SectionOf[o] = s /\ file.shape[SectionOf[o]] = "absent")
  <2>1. \A o \in Ids \ {id} : g.keys[o] = file.keys[o]
    BY <1>3, <1>5
  <2>2. \A t \in Sections : shape[t] = file.shape[t] \/ (t = s /\ file.shape[t] = "absent")
    <3>1. shape[s] = IF file.shape[s] = "absent" THEN "table" ELSE file.shape[s]
      BY <1>2, <1>5
    <3>2. \A t \in Sections \ {s} : shape[t] = file.shape[t]
      BY <1>2, <1>5
    <3> HIDE DEF shape
    <3> QED
      BY <3>1, <3>2
  <2> HIDE DEF shape
  <2> QED
    BY <2>1, <2>2, SectionsOfIds
<1>8. Held(g)
  BY <1>3, <1>5, <1>6, <1>7, SectionsOfIds DEF Held
<1>9. \A o \in Ids \ {id} : ~Taken(g, o) =>
        /\ ~Taken(file, o)
        /\ FromFile(g, o) <=> FromFile(file, o)
        /\ FromFile(file, o) => g.keys[o] = file.keys[o]
  BY <1>3, <1>4, <1>6, <1>7, NoFileHoldsNone DEF Held, FromFile, Taken
<1>10. Held(Placed(g)) /\ Placed(g).keys = g.keys
       /\ \A o \in Ids : /\ FromFile(Placed(g), o) <=> FromFile(g, o)
                         /\ Taken(Placed(g), o) <=> Taken(g, o)
  BY <1>3, <1>8, PlacedIs
<1> QED
  BY <1>4, <1>9, <1>10, EditIsTold

LEMMA EditSectionKeeps ==
    ASSUME IInv, EditSection
    PROVE  IInv'
<1> USE DEF IInv
<1>1. PICK s \in Sections, shape \in {"table", "inline", "value"}, more \in BOOLEAN :
        /\ file.state \in {"none", "toml"}
        /\ IF shape = "value"
           THEN Edit(Placed([file EXCEPT !.state = "toml", !.shape[s] = shape, !.other = @ \ {s},
                                  !.keys = [id \in Ids |-> IF id \in Of(s) THEN None ELSE @[id]]]),
                     Of(s))
           ELSE Edit(Placed([file EXCEPT !.state = "toml", !.shape[s] = shape,
                                  !.other = IF more THEN @ \cup {s} ELSE @ \ {s}]),
                     IF file.shape[s] = "value" THEN Of(s) ELSE {})
  BY DEF EditSection
<1>2. /\ file \in Text
      /\ file.shape \in [Sections -> Shapes] /\ file.keys \in [Ids -> Words \cup {None}]
  BY DEF Held, Text
<1>3. CASE shape = "value"
  <2> DEFINE g == [file EXCEPT !.state = "toml", !.shape[s] = shape, !.other = @ \ {s},
                               !.keys = [id \in Ids |-> IF id \in Of(s) THEN None ELSE @[id]]]
  <2>1. /\ g.state = "toml" /\ g.shape = [file.shape EXCEPT ![s] = shape] /\ g \in Text
        /\ g.keys = [id \in Ids |-> IF id \in Of(s) THEN None ELSE file.keys[id]]
    BY <1>2 DEF Text, Shapes
  <2>2. Edit(Placed(g), Of(s))
    BY <1>1, <1>3
  <2> HIDE DEF g
  <2>3. \A o \in Ids \ Of(s) : /\ g.keys[o] = file.keys[o]
                               /\ g.shape[SectionOf[o]] = file.shape[SectionOf[o]]
    BY <1>2, <2>1, SectionsOfIds DEF Of
  <2>4. Held(g)
    BY <2>1, <2>3 DEF Held, Of
  <2>5. \A o \in Ids \ Of(s) : ~Taken(g, o) =>
          /\ ~Taken(file, o)
          /\ FromFile(g, o) <=> FromFile(file, o)
          /\ FromFile(file, o) => g.keys[o] = file.keys[o]
    BY <1>1, <2>1, <2>3, NoFileHoldsNone DEF Held, FromFile, Taken
  <2>6. Held(Placed(g)) /\ Placed(g).keys = g.keys
        /\ \A o \in Ids : /\ FromFile(Placed(g), o) <=> FromFile(g, o)
                          /\ Taken(Placed(g), o) <=> Taken(g, o)
    BY <2>1, <2>4, PlacedIs
  <2> QED
    BY <2>2, <2>5, <2>6, EditIsTold
<1>4. CASE shape # "value"
  <2> DEFINE g == [file EXCEPT !.state = "toml", !.shape[s] = shape,
                               !.other = IF more THEN @ \cup {s} ELSE @ \ {s}]
             ids == IF file.shape[s] = "value" THEN Of(s) ELSE {}
  <2>1. /\ g.state = "toml" /\ g.shape = [file.shape EXCEPT ![s] = shape] /\ g \in Text
        /\ g.keys = file.keys
    BY <1>2 DEF Text, Shapes
  <2>2. Edit(Placed(g), ids)
    BY <1>1, <1>4
  <2> HIDE DEF g
  <2>3. \A o \in Ids : g.shape[SectionOf[o]] = file.shape[SectionOf[o]]
                       \/ (SectionOf[o] = s /\ g.shape[s] \in {"table", "inline"})
    BY <1>2, <1>4, <2>1, SectionsOfIds
  <2>4. Held(g)
    BY <2>1, <2>3 DEF Held
  <2>5. \A o \in Ids \ ids : ~Taken(g, o) =>
          /\ ~Taken(file, o)
          /\ FromFile(g, o) <=> FromFile(file, o)
          /\ FromFile(file, o) => g.keys[o] = file.keys[o]
    <3> SUFFICES ASSUME NEW o \in Ids \ ids, ~Taken(g, o)
                 PROVE  /\ ~Taken(file, o)
                        /\ FromFile(g, o) <=> FromFile(file, o)
                        /\ FromFile(file, o) => g.keys[o] = file.keys[o]
      OBVIOUS
    <3>1. CASE SectionOf[o] = s
      <4>1. file.shape[s] \in {"absent", "table", "inline"}
        BY <3>1, <1>2 DEF Of, Shapes
      <4> QED
        BY <1>1, <2>1, <2>3, <3>1, <4>1, NoFileHoldsNone DEF Held, FromFile, Taken
    <3>2. CASE SectionOf[o] # s
      BY <1>1, <2>1, <2>3, <3>2, NoFileHoldsNone DEF Held, FromFile, Taken
    <3> QED
      BY <3>1, <3>2
  <2>6. Held(Placed(g)) /\ Placed(g).keys = g.keys
        /\ \A o \in Ids : /\ FromFile(Placed(g), o) <=> FromFile(g, o)
                          /\ Taken(Placed(g), o) <=> Taken(g, o)
    BY <2>1, <2>4, PlacedIs
  <2> QED
    BY <2>2, <2>5, <2>6, EditIsTold
<1> QED
  BY <1>3, <1>4

LEMMA AnnotateKeeps ==
    ASSUME IInv, Annotate
    PROVE  IInv'
<1> USE DEF IInv
<1>1. PICK place \in Places(file) :
        /\ file.state = "toml"
        /\ Edit([file EXCEPT !.comments = IF place \in @ THEN @ \ {place} ELSE @ \cup {place}], {})
  BY DEF Annotate
<1> DEFINE comments == IF place \in file.comments THEN file.comments \ {place}
                       ELSE file.comments \cup {place}
           g == [file EXCEPT !.comments = comments]
<1>2. file \in Text
  BY DEF Held
<1>3. place \in UNION {{Above(id), Beside(id)} : id \in Ids} \cup {Over(s) : s \in Sections}
  BY DEF Places
<1>4. comments \in SUBSET (UNION {{Above(id), Beside(id)} : id \in Ids}
                          \cup {Over(s) : s \in Sections})
  BY <1>2, <1>3 DEF Text
<1>5. Edit(g, {})
  BY <1>1
<1> HIDE DEF comments
<1>6. /\ g \in Text /\ g.state = file.state /\ g.shape = file.shape /\ g.keys = file.keys
  BY <1>2, <1>4 DEF Text
<1> HIDE DEF g
<1>7. Held(g)
  BY <1>1, <1>6 DEF Held
<1>8. \A o \in Ids : (FromFile(g, o) <=> FromFile(file, o)) /\ (Taken(g, o) <=> Taken(file, o))
  BY <1>6 DEF FromFile, Taken
<1> QED
  BY <1>5, <1>6, <1>7, <1>8, EditIsTold

LEMMA EditFileKeeps ==
    ASSUME IInv, EditFile
    PROVE  IInv'
<1> USE DEF IInv
<1>1. PICK state \in {"toml", "broken", "unreadable", "none"} :
        /\ file.state # "none" /\ state # file.state
        /\ Edit(IF state = "none" THEN NoFile ELSE [file EXCEPT !.state = state], Ids)
  BY DEF EditFile
<1> DEFINE g == IF state = "none" THEN NoFile ELSE [file EXCEPT !.state = state]
<1>2. Held(g)
  BY BlankIsHeld DEF Held, Text
<1>3. Edit(g, Ids)
  BY <1>1
<1> HIDE DEF g
<1> QED
  BY <1>2, <1>3, EditIsTold

LEMMA Invariance == Spec => []IInv
<1>1. Init => IInv
  <2> SUFFICES ASSUME Init PROVE IInv
    OBVIOUS
  <2>1. value = [id \in Ids |-> Default[id]] /\ \A id \in Ids : Sound(id, value[id])
    BY DefaultIsSound DEF Init
  <2>2. value \in [Ids -> Words]
    BY <2>1, DefaultIsSound DEF Sound
  <2>3. screens = [i \in 1 .. 0 |-> Copied(value)]
    BY DEF Init
  <2> QED
    BY <2>1, <2>2, <2>3, BlankIsHeld DEF IInv, Init, RowsAreTold, StackIsTold
<1>2. IInv /\ [Next]_vars => IInv'
  <2> SUFFICES ASSUME IInv, [Next]_vars PROVE IInv'
    OBVIOUS
  <2>1. CASE Start
    BY <2>1, StartKeeps
  <2>2. CASE Quit \/ Push \/ Pop
    BY <2>2, StackKeeps
  <2>3. CASE Panel
    BY <2>3, PanelKeeps
  <2>4. CASE Hand
    BY <2>4, EditKeyKeeps, EditSectionKeeps, AnnotateKeeps, EditFileKeeps DEF Hand
  <2>5. CASE UNCHANGED vars
    BY <2>5 DEF vars, IInv, RowsAreTold, RowIsTold, StackIsTold
  <2> QED
    BY <2>1, <2>2, <2>3, <2>4, <2>5 DEF Next
<1> QED
  BY <1>1, <1>2, PTL DEF Spec

\* Whatever is done by hand and whatever fails, a row of the panel that does
\* not say "unsaved!" tells the value and the place a restart would read, and
\* every stacked surface shows the settings of now (App::change, FileWriter).
THEOREM SettingsAreToldTrue == Spec => []SettingsAreTold
<1>1. IInv => SettingsAreTold
  <2> SUFFICES ASSUME IInv PROVE RowsTellTheFile /\ ScreensFollow
    BY DEF SettingsAreTold
  <2>1. RowsTellTheFile
    BY DEF IInv, RowsAreTold, RowIsTold, RowsTellTheFile, Taken
  <2>2. ScreensFollow
    BY DEF IInv, StackIsTold, ScreensFollow
  <2> QED
    BY <2>1, <2>2
<1> QED
  BY <1>1, Invariance, PTL

\* A write leaves what is not its own: the other lines, the lines that are no
\* setting, the way a section with anything left in it was written, and the
\* comments but its own and those of a section it leaves empty.
LeavesTheRest(g, f, id) ==
    /\ g.other = f.other
    /\ \A o \in Ids \ {id} : g.keys[o] = f.keys[o]
    /\ \A s \in Sections :
         f.shape[s] # "absent" /\ (s \in f.other \/ \E o \in Of(s) : g.keys[o] # None)
         => g.shape[s] = f.shape[s]
    /\ g.comments \subseteq f.comments
    /\ \A place \in f.comments \ g.comments :
         \/ place \in {Above(id), Beside(id)}
         \/ \E s \in Sections : place = Over(s) /\ g.shape[s] = "absent"

LEMMA InsertedLeaves ==
    ASSUME NEW f, Held(f), NEW id \in Ids, NEW v \in Words \cup {None}
    PROVE  LeavesTheRest(Inserted(f, id, v), f, id)
<1> DEFINE s == SectionOf[id]
           g == Inserted(f, id, v)
<1>1. s \in Sections /\ f \in Text
  BY SectionsOfIds DEF Held
<1>2. CASE f.shape[s] # "value"
  <2>1. /\ g.other = f.other /\ g.keys = [f.keys EXCEPT ![id] = v]
        /\ g.shape = [f.shape EXCEPT ![s] = IF @ = "absent" THEN "table" ELSE @]
        /\ g.comments = f.comments \ {Beside(id)}
    BY <1>1, <1>2, InsertedIs
  <2> HIDE DEF g
  <2>2. \A o \in Ids \ {id} : g.keys[o] = f.keys[o]
    BY <1>1, <2>1 DEF Text
  <2>3. \A t \in Sections : f.shape[t] # "absent" => g.shape[t] = f.shape[t]
    BY <1>1, <2>1 DEF Text
  <2> QED
    BY <2>1, <2>2, <2>3 DEF LeavesTheRest, g
<1>3. CASE f.shape[s] = "value"
  BY <1>3 DEF LeavesTheRest, Inserted
<1> QED
  BY <1>2, <1>3

LEMMA RemovedLeaves ==
    ASSUME NEW f, Held(f), NEW id \in Ids
    PROVE  LeavesTheRest(Removed(f, id), f, id)
<1> DEFINE s == SectionOf[id]
           g == Unset(f, id)
           gone == Dropped(g, s)
           keys == [f.keys EXCEPT ![id] = None]
<1>1. s \in Sections /\ f \in Text
  BY SectionsOfIds DEF Held
<1>2. /\ g.shape = f.shape /\ g.other = f.other /\ g.keys = keys /\ g \in Text
      /\ g.comments = f.comments \ {Above(id), Beside(id)}
  BY <1>1, UnsetIs
<1>3. /\ gone.shape = [f.shape EXCEPT ![s] = "absent"] /\ gone.other = f.other
      /\ gone.keys = keys /\ gone.comments = g.comments \ {Over(s)}
  <2> HIDE DEF g
  <2>1. /\ gone.other = g.other /\ gone.keys = g.keys
        /\ gone.shape = [g.shape EXCEPT ![s] = "absent"]
        /\ gone.comments = g.comments \ {Over(s)}
    BY <1>1, <1>2, DroppedIs, Zenon
  <2> HIDE DEF gone
  <2> QED
    BY <1>2, <2>1
<1>4. \A o \in Ids \ {id} : keys[o] = f.keys[o]
  BY <1>1 DEF Text
<1>5. CASE f.shape[s] \notin {"table", "inline"}
  BY <1>5 DEF LeavesTheRest, Removed
<1>6. CASE f.shape[s] \in {"table", "inline"} /\ Emptied(g, s)
  <2>1. Removed(f, id) = gone
    BY <1>6 DEF Removed
  <2> HIDE DEF g, gone, keys
  <2>2. s \notin f.other /\ \A o \in Of(s) : keys[o] = None
    BY <1>2, <1>6 DEF Emptied, Of
  <2>3. gone.shape[s] = "absent" /\ \A t \in Sections \ {s} : gone.shape[t] = f.shape[t]
    BY <1>1, <1>3 DEF Text
  <2>4. \A place \in f.comments \ gone.comments :
          place \in {Above(id), Beside(id)} \/ place = Over(s)
    BY <1>2, <1>3
  <2>5. gone.comments \subseteq f.comments
    BY <1>2, <1>3
  <2> QED
    BY <1>1, <1>3, <1>4, <2>1, <2>2, <2>3, <2>4, <2>5 DEF LeavesTheRest
<1>7. CASE f.shape[s] \in {"table", "inline"} /\ ~Emptied(g, s)
  <2>1. Removed(f, id) = g
    BY <1>7 DEF Removed
  <2> HIDE DEF g, gone, keys
  <2> QED
    BY <1>2, <1>4, <2>1 DEF LeavesTheRest
<1> QED
  BY <1>5, <1>6, <1>7

LEMMA WrittenLeaves ==
    ASSUME NEW f, Held(f), f.state \in {"none", "toml"}, NEW id \in Ids,
           NEW v \in Words \cup {None}
    PROVE  LeavesTheRest(Written(f, id, v), f, id)
<1> DEFINE e == Existing(f)
<1>1. Held(e)
  BY BlankIsHeld DEF Existing
<1>2. e.other = f.other /\ e.keys = f.keys /\ e.shape = f.shape /\ e.comments = f.comments
  <2>1. CASE f.state = "toml"
    BY <2>1 DEF Existing
  <2>2. CASE f.state = "none"
    BY <2>2 DEF Existing, Held, NoFile, Blank
  <2> QED
    BY <2>1, <2>2
<1>3. Written(f, id, v) = IF v = None THEN Removed(e, id) ELSE Inserted(e, id, v)
  BY DEF Written
<1> HIDE DEF e
<1>4. LeavesTheRest(Written(f, id, v), e, id)
  BY <1>1, <1>3, InsertedLeaves, RemovedLeaves
<1> QED
  BY <1>2, <1>4 DEF LeavesTheRest

\* A change that the panel reports saved touched its own line of the file and
\* no other, took no comment but its own and those of a section it emptied,
\* and touched no file that is not TOML (FileWriter::write).
THEOREM OthersStayUntouched == Spec => OthersUntouched
<1> DEFINE Untouched(id) ==
             Reported(id) /\ file.state # "unreadable"
             => /\ file.state # "broken"
                /\ file'.other = file.other
                /\ \A o \in Ids \ {id} : file'.keys[o] = file.keys[o]
                /\ \A s \in Sections :
                     file.shape[s] # "absent" /\ (s \in file.other \/ \E o \in Of(s) : file'.keys[o] # None)
                     => file'.shape[s] = file.shape[s]
                /\ file'.comments \subseteq file.comments
                /\ \A place \in file.comments \ file'.comments :
                     \/ place \in {Above(id), Beside(id)}
                     \/ \E s \in Sections : place = Over(s) /\ file'.shape[s] = "absent"
<1>1. IInv /\ [Next]_vars => [\A id \in Ids : Untouched(id)]_vars
  <2> SUFFICES ASSUME IInv, [Next]_vars, NEW id \in Ids,
                      Reported(id), file.state # "unreadable"
               PROVE  file.state # "broken" /\ LeavesTheRest(file', file, id)
    BY DEF LeavesTheRest
  <2>0. /\ pc = "up" /\ pc' = "up" /\ writer = "file"
        /\ value'[id] # value[id] /\ source'[id] # "Unsaved"
    BY DEF Reported
  <2>1. \E forward \in BOOLEAN : Change(forward)
    BY <2>0 DEF Next, Start, Quit, Push, Pop, Panel, Hand, Open, Dismiss, Move, KilledWriting,
           EditKey, EditSection, Annotate, EditFile, Edit, program, vars
  <2>2. PICK forward \in BOOLEAN, k \in Ids :
          /\ value' = Applied(value, k, Cycled(k, value[k], forward))
          /\ CASE writer = "discard" -> Discarded(k)
               [] writer = "file" /\ file.state = "broken" -> NotSaved(k, file, {})
               [] OTHER -> \/ Saved(k, Written(file, k, Persisted(value', k)))
                           \/ NotSaved(k, file, {})
                           \/ NotSaved(k, Blank, Ids)
    BY <2>1 DEF Change
  <2>3. k = id
    BY <2>0, <2>2 DEF Applied, IInv
  <2>4. \A g, lost : ~NotSaved(k, g, lost)
    BY <2>0, <2>3 DEF NotSaved, IInv
  <2>5. file.state # "broken" /\ Saved(k, Written(file, k, Persisted(value', k)))
    BY <2>0, <2>2, <2>4
  <2>6. file.state \in {"none", "toml"} /\ Held(file)
    BY <2>5 DEF IInv, Held, Text
  <2>7. Persisted(value', k) \in Words \cup {None}
    <3>1. value'[k] = Cycled(k, value[k], forward)
      BY <2>2 DEF Applied, IInv
    <3>2. Cycled(k, value[k], forward) \in Words
      <4>1. k \in ToSet(ALL)
        BY SettingsAssumption
      <4>2. Cycled(k, value[k], forward) \in ToSet(Options[k])
        BY <4>1, CycledIsOffered
      <4> QED
        BY <4>2 DEF Words
    <3> QED
      BY <3>1, <3>2 DEF Persisted
  <2> QED
    BY <2>3, <2>5, <2>6, <2>7, WrittenLeaves DEF Saved
<1> QED
  BY <1>1, Invariance, PTL DEF Spec, OthersUntouched

-----------------------------------------------------------------------------
(* The cache file.                                                         *)

\* One cache, opened by any number of programs, all of one binary.
OneCache == C!CacheFileAssumption /\ C!OneBinary /\ MaxDamage <= 1

LEMMA EmptyAndBuilt ==
    /\ C!Empty.version = 0 /\ C!Empty.schema = None
    /\ ~C!Empty.whole /\ ~C!Empty.bad
    /\ C!Empty \in C!Content
    /\ \A v \in Nat : /\ C!Built(v) \in C!Content
                      /\ C!Built(v).version = v /\ C!Built(v).schema = v
                      /\ C!Built(v).whole /\ ~C!Built(v).bad
BY DEF C!Empty, C!Built, C!Content

LEMMA CacheInit == OneCache /\ C!Init => C!OpeningInv
<1> SUFFICES ASSUME OneCache, C!Init PROVE C!OpeningInv
  OBVIOUS
<1>1. PICK v \in Initial :
        IF v = None THEN path = None /\ content = [f \in Files |-> C!Empty]
        ELSE \E at \in Files :
               /\ path = at
               /\ content = [f \in Files |-> IF f = at THEN C!Built(v) ELSE C!Empty]
  BY DEF C!Init
<1>2. /\ path \in Files \cup {None}
      /\ \A f \in Files : content[f] = C!Empty \/ (v \in Nat /\ content[f] = C!Built(v))
      /\ content = [f \in Files |-> content[f]]
  BY <1>1 DEF OneCache, C!CacheFileAssumption
<1>3. /\ stage = [p \in Procs |-> "closed"] /\ conn = [p \in Procs |-> None]
      /\ tries = [p \in Procs |-> 0] /\ damage = 0
  BY DEF C!Init
<1>4. \A p \in Procs : Wanted[p] \in Nat \ {0}
  BY DEF OneCache, C!CacheFileAssumption
<1>5. C!TypeOK
  <2>1. content \in [Files -> C!Content]
    BY <1>2, EmptyAndBuilt
  <2> QED
    BY <1>2, <1>3, <2>1 DEF C!TypeOK, C!Stages, OneCache, C!CacheFileAssumption
<1>6. C!StampedIsComplete /\ C!DamageIsCounted
  BY <1>2, <1>4, EmptyAndBuilt DEF C!StampedIsComplete, C!Complete, C!DamageIsCounted
<1>7. ASSUME NEW p \in Procs
      PROVE  C!StageIsTrue(p) /\ C!TriesAreEnough(p)
  BY <1>3 DEF C!StageIsTrue, C!TriesAreEnough, C!Retrying
<1> QED
  BY <1>5, <1>6, <1>7 DEF C!OpeningInv

\* A file in use only grows towards what everybody wants.
Grown(f, p) ==
    /\ \/ content'[f].schema = content[f].schema
       \/ content[f].schema = None /\ content'[f].schema = Wanted[p]
    /\ content[f].whole => content'[f].whole
    /\ content'[f].bad = content[f].bad
    /\ \/ content'[f].version = content[f].version
       \/ content'[f].version = Wanted[p] /\ content'[f].schema = Wanted[p] /\ content'[f].whole

\* One that nobody has open is taken for a new one.
Fresh(f) ==
    /\ content'[f] = C!Empty
    /\ path = None /\ path' = f
    /\ \A q \in Procs : conn[q] # f

Elsewhere(p) ==
    /\ \A q \in Procs \ {p} :
          stage'[q] = stage[q] /\ conn'[q] = conn[q] /\ tries'[q] = tries[q]
    /\ \A f \in Files : Grown(f, p) \/ Fresh(f)
    /\ path' \in {path, None} \/ (path' \in Files /\ Fresh(path'))
    /\ damage' = damage

\* Opening, the only step that makes a file.
LEMMA Connected ==
    ASSUME OneCache, C!OpeningInv, NEW p \in Procs, C!Connect(p)
    PROVE  /\ content' \in [Files -> C!Content]
           /\ conn' \in [Procs -> Files \cup {None}] /\ conn'[p] = path'
           /\ \A q \in Procs \ {p} : conn'[q] = conn[q]
           /\ path' \in Files
           /\ \A f \in Files : Grown(f, p) \/ Fresh(f)
           /\ path' = path \/ Fresh(path')
<1> USE DEF C!OpeningInv, C!TypeOK
<1>1. CASE path # None
  <2>1. conn' = [conn EXCEPT ![p] = path] /\ UNCHANGED <<path, content>>
    BY <1>1 DEF C!Connect
  <2> QED
    BY <1>1, <2>1 DEF Grown
<1>2. CASE path = None
  <2>1. PICK f \in Files : /\ \A q \in Procs : conn[q] # f
                           /\ path' = f
                           /\ conn' = [conn EXCEPT ![p] = f]
                           /\ content' = [content EXCEPT ![f] = C!Empty]
    BY <1>2 DEF C!Connect
  <2>2. Fresh(f)
    BY <1>2, <2>1 DEF Fresh
  <2>3. \A g \in Files \ {f} : Grown(g, p)
    BY <2>1 DEF Grown
  <2> QED
    BY <2>1, <2>2, <2>3, EmptyAndBuilt
<1> QED
  BY <1>1, <1>2

\* The statements that write in a file do it for good.
LEMMA Wrote ==
    ASSUME OneCache, C!OpeningInv, NEW p \in Procs,
           C!Confirm(p) \/ C!Build(p) \/ C!Finish(p) \/ C!Stamp(p)
    PROVE  /\ content' \in [Files -> C!Content]
           /\ \A f \in Files : Grown(f, p)
           /\ conn[p] \in Files
           /\ C!Build(p) => content'[conn[p]].schema = Wanted[p]
           /\ C!Finish(p) =>
                 content'[conn[p]].schema = Wanted[p] /\ content'[conn[p]].whole
           /\ C!Confirm(p) \/ C!Stamp(p) =>
                 content'[conn[p]].schema = Wanted[p] /\ content'[conn[p]].whole
                 /\ content'[conn[p]].version = Wanted[p]
<1> DEFINE c == conn[p]
           filled == IF content[c].schema = None THEN Wanted[p] ELSE content[c].schema
<1>1. /\ c \in Files /\ content \in [Files -> C!Content] /\ content[c] \in C!Content
      /\ Wanted[p] \in Nat
      /\ C!StageIsTrue(p) /\ C!StampedIsComplete
  BY DEF C!OpeningInv, C!TypeOK, C!StageIsTrue, OneCache, C!CacheFileAssumption, C!At,
         C!Confirm, C!Build, C!Finish, C!Stamp
<1>2. filled \in Nat \cup {None}
  BY <1>1 DEF C!Content
<1>3. PICK new \in C!Content :
        /\ content' = [content EXCEPT ![c] = new]
        /\ new.bad = content[c].bad
        /\ \/ new.schema = content[c].schema
           \/ content[c].schema = None /\ new.schema = Wanted[p]
        /\ content[c].whole => new.whole
        /\ \/ new.version = content[c].version
           \/ new.version = Wanted[p] /\ new.schema = Wanted[p] /\ new.whole
        /\ C!Build(p) => new.schema = Wanted[p]
        /\ C!Finish(p) => new.schema = Wanted[p] /\ new.whole
        /\ C!Confirm(p) \/ C!Stamp(p) =>
              new.schema = Wanted[p] /\ new.whole /\ new.version = Wanted[p]
  <2>1. CASE C!Confirm(p)
    <3> DEFINE new == [content[c] EXCEPT !.schema = filled, !.whole = TRUE]
    <3>1. content[c].version = Wanted[p] /\ content[c].schema = Wanted[p]
      BY <1>1, <2>1 DEF C!Confirm, C!At, C!StageIsTrue, C!StampedIsComplete, C!Complete
    <3>2. content' = [content EXCEPT ![c] = new]
      BY <1>1, <2>1 DEF C!Confirm
    <3>3. /\ new \in C!Content /\ new.bad = content[c].bad /\ new.whole
          /\ new.version = Wanted[p] /\ new.schema = Wanted[p]
      BY <1>1, <1>2, <3>1 DEF C!Content
    <3> HIDE DEF new, c, filled
    <3>4. ~C!Build(p) /\ ~C!Finish(p)
      BY <2>1 DEF C!Confirm, C!Build, C!Finish, C!At
    <3> QED
      BY <3>1, <3>2, <3>3, <3>4
  <2>2. CASE C!Build(p)
    <3> DEFINE new == [content[c] EXCEPT !.schema = filled]
    <3>1. content[c].schema \in {None, Wanted[p]}
      BY <1>1, <2>2 DEF C!Build, C!At, C!StageIsTrue
    <3>2. content' = [content EXCEPT ![c] = new]
      BY <1>1, <2>2 DEF C!Build
    <3>3. /\ new \in C!Content /\ new.bad = content[c].bad
          /\ new.whole = content[c].whole
          /\ new.version = content[c].version /\ new.schema = Wanted[p]
      BY <1>1, <1>2, <3>1 DEF C!Content
    <3> HIDE DEF new, c, filled
    <3>4. ~C!Confirm(p) /\ ~C!Finish(p) /\ ~C!Stamp(p)
      BY <2>2 DEF C!Confirm, C!Build, C!Finish, C!Stamp, C!At
    <3> QED
      BY <3>1, <3>2, <3>3, <3>4
  <2>3. CASE C!Finish(p)
    <3> DEFINE new == [content[c] EXCEPT !.whole = TRUE]
    <3>1. content[c].schema = Wanted[p]
      BY <1>1, <2>3 DEF C!Finish, C!At, C!StageIsTrue
    <3>2. content' = [content EXCEPT ![c] = new]
      BY <1>1, <2>3 DEF C!Finish
    <3>3. /\ new \in C!Content /\ new.bad = content[c].bad /\ new.whole
          /\ new.version = content[c].version /\ new.schema = Wanted[p]
      BY <1>1, <3>1 DEF C!Content
    <3> HIDE DEF new, c, filled
    <3>4. ~C!Confirm(p) /\ ~C!Build(p) /\ ~C!Stamp(p)
      BY <2>3 DEF C!Confirm, C!Build, C!Finish, C!Stamp, C!At
    <3> QED
      BY <3>1, <3>2, <3>3, <3>4
  <2>4. CASE C!Stamp(p)
    <3> DEFINE new == [content[c] EXCEPT !.version = Wanted[p]]
    <3>1. content[c].schema = Wanted[p] /\ content[c].whole
      BY <1>1, <2>4 DEF C!Stamp, C!At, C!StageIsTrue, C!Complete
    <3>2. content' = [content EXCEPT ![c] = new]
      BY <1>1, <2>4 DEF C!Stamp
    <3>3. /\ new \in C!Content /\ new.bad = content[c].bad /\ new.whole
          /\ new.version = Wanted[p] /\ new.schema = Wanted[p]
      BY <1>1, <3>1 DEF C!Content
    <3> HIDE DEF new, c, filled
    <3>4. ~C!Build(p) /\ ~C!Finish(p)
      BY <2>4 DEF C!Build, C!Finish, C!Stamp, C!At
    <3> QED
      BY <3>1, <3>2, <3>3, <3>4
  <2> QED
    BY <2>1, <2>2, <2>3, <2>4
<1> HIDE DEF c
<1>4. content'[c] = new /\ \A f \in Files \ {c} : content'[f] = content[f]
  BY <1>1, <1>3
<1>5. \A f \in Files : Grown(f, p)
  BY <1>3, <1>4 DEF Grown, C!Complete
<1> QED
  BY <1>1, <1>3, <1>4, <1>5 DEF C!Complete, c

LEMMA CacheStep ==
    ASSUME OneCache, C!OpeningInv, NEW p \in Procs, C!Start(p) \/ C!Step(p) \/ C!End(p)
    PROVE  C!TypeOK' /\ Elsewhere(p)
<1> USE DEF C!At, C!Go
<1>1. C!TypeOK /\ C!TriesAreEnough(p) /\ \A f \in Files : UNCHANGED content => Grown(f, p)
  BY DEF C!OpeningInv, Grown
<1>2. CASE C!Start(p) \/ C!End(p) \/ C!Check(p) \/ C!ReadVersion(p) \/ C!Inspect(p)
           \/ C!Remove(p) \/ C!Corrupt(p)
  <2>1. C!TypeOK'
    BY <1>1, <1>2 DEF C!Start, C!End, C!Check, C!ReadVersion, C!Inspect, C!Remove,
       C!Corrupt, C!TypeOK, C!Stages
  <2>2. Elsewhere(p)
    BY <1>1, <1>2 DEF C!Start, C!End, C!Check, C!ReadVersion, C!Inspect, C!Remove,
       C!Corrupt, C!TypeOK, Elsewhere
  <2> QED
    BY <2>1, <2>2
<1>3. CASE C!TryOpen(p)
  <2>1. tries' \in [Procs -> 0 .. 4]
    BY <1>1, <1>3 DEF C!TryOpen, C!TypeOK, C!TriesAreEnough
  <2> QED
    BY <1>1, <1>3, <2>1, Connected DEF C!TryOpen, C!TypeOK, C!Stages, Elsewhere
<1>4. CASE C!Reopen(p)
  BY <1>1, <1>4, Connected DEF C!Reopen, C!TypeOK, C!Stages, Elsewhere
<1>5. CASE C!Confirm(p) \/ C!Build(p) \/ C!Finish(p) \/ C!Stamp(p)
  <2>1. /\ stage' \in [Procs -> C!Stages] /\ conn' \in [Procs -> Files \cup {None}]
        /\ \A q \in Procs \ {p} : stage'[q] = stage[q] /\ conn'[q] = conn[q]
        /\ UNCHANGED <<path, tries, damage>>
    BY <1>1, <1>5 DEF C!Confirm, C!Build, C!Finish, C!Stamp, C!Ended, C!TypeOK, C!Stages
  <2> QED
    BY <1>1, <1>5, <2>1, Wrote DEF C!TypeOK, Elsewhere
<1> QED
  BY <1>2, <1>3, <1>4, <1>5 DEF C!Step

\* What the others have seen of their files stands.
LEMMA OthersStand ==
    ASSUME OneCache, C!OpeningInv, NEW p \in Procs, Elsewhere(p)
    PROVE  /\ C!StampedIsComplete' /\ C!DamageIsCounted'
           /\ \A q \in Procs \ {p} : C!StageIsTrue(q)' /\ C!TriesAreEnough(q)'
<1>1. \A q \in Procs : Wanted[q] = Wanted[p] /\ Wanted[q] # 0
  BY DEF OneCache, C!OneBinary, C!CacheFileAssumption
<1>2. \A f \in Files : Grown(f, p) \/ Fresh(f)
  BY DEF Elsewhere
<1>3. C!StampedIsComplete'
  BY <1>1, <1>2, EmptyAndBuilt DEF C!OpeningInv, C!StampedIsComplete, C!Complete, Grown, Fresh
<1>4. C!DamageIsCounted'
  BY <1>2, EmptyAndBuilt DEF C!OpeningInv, C!DamageIsCounted, Grown, Fresh, Elsewhere
<1>5. ASSUME NEW q \in Procs \ {p}
      PROVE  C!StageIsTrue(q)' /\ C!TriesAreEnough(q)'
  <2>1. /\ stage'[q] = stage[q] /\ conn'[q] = conn[q] /\ tries'[q] = tries[q]
        /\ damage' = damage
        /\ conn[q] \in Files \cup {None}
        /\ C!StageIsTrue(q) /\ C!TriesAreEnough(q)
    BY DEF Elsewhere, C!OpeningInv, C!TypeOK
  <2>2. conn[q] \in Files => Grown(conn[q], p)
    BY <1>2 DEF Fresh
  <2>3. /\ path' # None => path' \in Files
        /\ path' # None => Fresh(path') \/ (path' = path /\ Grown(path, p))
    BY <1>2 DEF Elsewhere, C!OpeningInv, C!TypeOK, Fresh
  <2>4. C!StageIsTrue(q)'
    BY <1>1, <2>1, <2>2, <2>3, EmptyAndBuilt DEF C!StageIsTrue, C!Complete, Grown, Fresh
  <2>5. C!TriesAreEnough(q)'
    BY <2>1, <2>2, <2>3, EmptyAndBuilt DEF C!TriesAreEnough, C!Retrying, C!StageIsTrue, Grown, Fresh
  <2> QED
    BY <2>4, <2>5
<1> QED
  BY <1>3, <1>4, <1>5

\* And so does what the process itself goes by.
LEMMA SelfStands ==
    ASSUME OneCache, C!OpeningInv, NEW p \in Procs, C!Start(p) \/ C!Step(p) \/ C!End(p)
    PROVE  C!StageIsTrue(p)' /\ C!TriesAreEnough(p)'
<1> USE DEF C!At, C!Go
<1>1. /\ C!TypeOK /\ C!TriesAreEnough(p) /\ C!StageIsTrue(p)
      /\ C!StampedIsComplete /\ C!DamageIsCounted
      /\ Wanted[p] \in Nat \ {0} /\ None \notin Files
  BY DEF C!OpeningInv, OneCache, C!CacheFileAssumption
<1>2. CASE C!Start(p) \/ C!End(p)
  BY <1>1, <1>2 DEF C!Start, C!End, C!TypeOK, C!StageIsTrue, C!TriesAreEnough, C!Retrying
<1>3. CASE C!Check(p) \/ C!ReadVersion(p) \/ C!Inspect(p)
  BY <1>1, <1>3 DEF C!Check, C!ReadVersion, C!Inspect, C!TypeOK, C!StageIsTrue,
     C!StampedIsComplete, C!TriesAreEnough, C!Retrying
<1>4. CASE C!Remove(p)
  BY <1>1, <1>4 DEF C!Remove, C!TypeOK, C!StageIsTrue, C!TriesAreEnough, C!Retrying
<1>5. CASE C!Corrupt(p)
  <2>1. tries[p] = 1 /\ damage = 1
    BY <1>1, <1>5 DEF C!Corrupt, C!TypeOK, C!StageIsTrue, C!TriesAreEnough, C!Retrying,
       C!DamageIsCounted
  <2> QED
    BY <1>1, <1>5, <2>1 DEF C!Corrupt, C!TypeOK, C!StageIsTrue, C!TriesAreEnough, C!Retrying
<1>6. CASE C!TryOpen(p)
  <2>1. /\ stage'[p] = "checking" /\ conn'[p] = path' /\ path' \in Files
        /\ tries'[p] = tries[p] + 1 /\ damage' = damage /\ tries[p] \in 0 .. 2
        /\ Fresh(path') \/ (path' = path /\ Grown(path, p))
    <3>1. /\ conn'[p] = path' /\ path' \in Files
          /\ Fresh(path') \/ (path' = path /\ Grown(path, p))
      <4>1. path' \in Files /\ (path' = path \/ Fresh(path')) /\ conn'[p] = path'
            /\ (Grown(path', p) \/ Fresh(path'))
        BY <1>6, Connected DEF C!TryOpen
      <4> QED
        BY <4>1
    <3> QED
      BY <1>1, <1>6, <3>1 DEF C!TryOpen, C!TypeOK, C!TriesAreEnough
  <2> QED
    BY <1>1, <1>6, <2>1, EmptyAndBuilt DEF C!TryOpen, C!StageIsTrue, C!TriesAreEnough, C!Retrying, Grown, Fresh
<1>7. CASE C!Reopen(p)
  <2>1. /\ stage'[p] = "building" /\ conn'[p] = path' /\ path' \in Files
        /\ tries' = tries /\ damage' = damage /\ stage[p] = "reopening"
        /\ Fresh(path') \/ (path' = path /\ Grown(path, p))
    <3>1. /\ conn'[p] = path' /\ path' \in Files
          /\ Fresh(path') \/ (path' = path /\ Grown(path, p))
      <4>1. path' \in Files /\ (path' = path \/ Fresh(path')) /\ conn'[p] = path'
            /\ (Grown(path', p) \/ Fresh(path'))
        BY <1>7, Connected DEF C!Reopen
      <4> QED
        BY <4>1
    <3> QED
      BY <1>1, <1>7, <3>1 DEF C!Reopen, C!TypeOK
  <2>2. None \notin Files
    BY DEF OneCache, C!CacheFileAssumption
  <2> QED
    BY <1>1, <2>1, <2>2, EmptyAndBuilt DEF C!StageIsTrue, C!TriesAreEnough, C!Retrying, Grown, Fresh
<1>8. CASE C!Build(p) \/ C!Finish(p)
  <2>1. /\ UNCHANGED <<path, conn, tries, damage>>
        /\ C!Build(p) => stage'[p] = "finishing" /\ stage[p] = "building"
        /\ C!Finish(p) => stage'[p] = "stamping" /\ stage[p] = "finishing"
    BY <1>1, <1>8 DEF C!Build, C!Finish, C!TypeOK
  <2>2. conn[p] \in Files /\ \A f \in Files : Grown(f, p)
        /\ (path # None => path \in Files)
    BY <1>1, <1>8, Wrote DEF C!TypeOK
  <2>3. C!StageIsTrue(p)'
    BY <1>8, <2>1, <2>2, Wrote DEF C!StageIsTrue, C!Complete
  <2>4. C!TriesAreEnough(p)'
    BY <1>1, <1>8, <2>1, <2>2 DEF C!TriesAreEnough, C!Retrying, Grown
  <2> QED
    BY <2>3, <2>4
<1>9. CASE C!Confirm(p) \/ C!Stamp(p)
  <2>1. UNCHANGED <<path, tries, damage>> /\ stage[p] \in {"confirming", "stamping"}
        /\ C!Ended(p)
    BY <1>1, <1>9 DEF C!Confirm, C!Stamp
  <2>2. tries[p] \in 1 .. 3
    BY <1>1, <2>1 DEF C!TriesAreEnough
  <2>3. \/ stage'[p] = "running" /\ tries[p] \in {1, 3} /\ conn'[p] = conn[p]
        \/ stage'[p] = "opening" /\ tries[p] = 2 /\ conn'[p] = None
    BY <1>1, <2>1, <2>2 DEF C!Ended, C!TypeOK
  <2>4. conn[p] \in Files /\ (\A f \in Files : Grown(f, p))
        /\ (path # None => path \in Files)
    BY <1>1, <1>9, Wrote DEF C!TypeOK
  <2>5. content'[conn[p]].schema = Wanted[p] /\ content'[conn[p]].whole
        /\ content'[conn[p]].version = Wanted[p]
    BY <1>9, Wrote
  <2>6. C!StageIsTrue(p)'
    BY <2>3, <2>4, <2>5 DEF C!StageIsTrue, C!Complete
  <2>7. C!TriesAreEnough(p)'
    BY <1>1, <2>1, <2>3, <2>4 DEF C!TriesAreEnough, C!Retrying, Grown
  <2> QED
    BY <2>6, <2>7
<1> QED
  BY <1>2, <1>3, <1>4, <1>5, <1>6, <1>7, <1>8, <1>9 DEF C!Step

\* One page is damaged: whoever tries again has had it, so it is the first.
LEMMA DamageStands ==
    ASSUME OneCache, C!OpeningInv, C!Damage
    PROVE  C!OpeningInv'
<1>1. /\ path \in Files /\ damage = 0 /\ damage' = 1 /\ MaxDamage \in Nat /\ MaxDamage >= 1
      /\ UNCHANGED <<path, stage, conn, tries>>
      /\ content' = [content EXCEPT ![path].bad = TRUE]
      /\ content \in [Files -> C!Content] /\ content[path] \in C!Content
  BY DEF OneCache, C!CacheFileAssumption, C!Damage, C!OpeningInv, C!TypeOK
<1> DEFINE new == [content[path] EXCEPT !.bad = TRUE]
<1>2. /\ new \in C!Content /\ new.version = content[path].version
      /\ new.schema = content[path].schema /\ new.whole = content[path].whole
      /\ new.bad
  BY <1>1 DEF C!Content
<1>3. content' = [content EXCEPT ![path] = new]
  BY <1>1
<1> HIDE DEF new
<1>4. /\ content' \in [Files -> C!Content]
      /\ \A f \in Files : /\ content'[f].version = content[f].version
                           /\ content'[f].schema = content[f].schema
                           /\ content'[f].whole = content[f].whole
                           /\ content[f].bad => content'[f].bad
  BY <1>1, <1>2, <1>3
<1>5. C!TypeOK' /\ C!StampedIsComplete' /\ C!DamageIsCounted'
  BY <1>1, <1>4 DEF C!OpeningInv, C!TypeOK, C!StampedIsComplete, C!Complete, C!DamageIsCounted
<1>6. ASSUME NEW p \in Procs
      PROVE  C!StageIsTrue(p)' /\ C!TriesAreEnough(p)'
  <2>1. C!StageIsTrue(p) /\ C!TriesAreEnough(p) /\ ~C!Retrying(p)
    BY <1>1 DEF C!OpeningInv, C!TriesAreEnough
  <2>2. C!StageIsTrue(p)'
    BY <1>1, <1>4, <2>1 DEF C!StageIsTrue, C!Complete
  <2>3. C!TriesAreEnough(p)'
    BY <1>1, <1>4, <2>1 DEF C!StageIsTrue, C!TriesAreEnough, C!Retrying
  <2> QED
    BY <2>2, <2>3
<1> QED
  BY <1>5, <1>6 DEF C!OpeningInv

\* Whatever else an edge does leaves the cache file alone.
LEMMA CacheIsItsOwn == EdgesSpec => C!Spec
<1>1. EdgesInit => C!Init
  BY DEF EdgesInit
<1>2. [EdgesNext]_<<part, vars, cache, wire, stores>> => [C!Next]_C!vars
  BY DEF EdgesNext, cache, C!vars
<1> QED
  BY <1>1, <1>2, PTL DEF EdgesSpec, C!Spec

(***************************************************************************)
(* Of any number of programs that open, close or die at any statement,     *)
(* whatever they find at the path: none fails over a damaged page, and     *)
(* each that starts runs on a file that has all of its schema.             *)
(***************************************************************************)
THEOREM CachesAreOwn ==
    ASSUME OneCache
    PROVE  EdgesSpec => []OpensAsOwn
<1>1. C!Init => C!OpeningInv
  BY CacheInit
<1>2. C!OpeningInv /\ [C!Next]_C!vars => C!OpeningInv'
  <2> SUFFICES ASSUME C!OpeningInv, [C!Next]_C!vars PROVE C!OpeningInv'
    OBVIOUS
  <2>1. ASSUME NEW p \in Procs, C!Start(p) \/ C!Step(p) \/ C!End(p) PROVE C!OpeningInv'
    BY <2>1, CacheStep, OthersStand, SelfStands DEF C!OpeningInv
  <2>2. CASE C!Damage
    BY <2>2, DamageStands
  <2>3. CASE UNCHANGED C!vars
    BY <2>3 DEF C!vars, C!OpeningInv, C!TypeOK, C!StampedIsComplete, C!Complete,
       C!DamageIsCounted, C!StageIsTrue, C!TriesAreEnough, C!Retrying
  <2> QED
    BY <2>1, <2>2, <2>3 DEF C!Next
<1>3. C!OpeningInv => OpensAsOwn
  BY DEF OpensAsOwn, C!OpeningInv, C!OpensAsOwn, C!StageIsTrue, C!TriesAreEnough, C!Complete
<1> QED
  BY <1>1, <1>2, <1>3, CacheIsItsOwn, PTL DEF C!Spec

-----------------------------------------------------------------------------
(* The wire.                                                               *)

\* GitHub's side: a URL names the type of what it leads to.
Told == W!WireAssumption /\ W!UrlsTellTypes

\* What a request sends back with a page is of that page.
VouchedFor == inbox \in DOMAIN Inboxes /\ heldOf \in DOMAIN Inboxes \cup {None}
              /\ W!ValidatorsAreOfThisPage /\ DOMAIN validators = {"etag", "modified"}

LEMMA HeadersAreOf ==
    ASSUME Told, VouchedFor, W!Poll
    PROVE  VouchedFor'
<1>1. PICK headers \in W!Headers(inbox) :
        LET modified == ~W!Unchanged(validators) IN
        /\ validators' = W!Harvested(modified, headers)
        /\ IF modified
           THEN /\ held' = [i \in DOMAIN W!FirstPage(Inboxes[inbox]) |->
                              W!IntoModel(Inboxes[inbox][i])]
                /\ heldOf' = inbox
           ELSE UNCHANGED <<held, heldOf>>
  BY DEF W!Poll
<1>2. /\ DOMAIN headers = {"etag", "modified"}
      /\ \A v \in DOMAIN headers : headers[v] \in {inbox, None}
  <2>1. headers \in [etag: {inbox, None}, modified: {inbox, None}]
    BY DEF W!Headers
  <2> QED
    BY <2>1
<1>3. inbox' = inbox /\ inbox # None
  BY DEF W!Poll, Told, VouchedFor, W!WireAssumption
<1>4. CASE W!Unchanged(validators)
  <2>1. inbox = heldOf /\ heldOf' = heldOf
    BY <1>1, <1>3, <1>4 DEF W!Unchanged, VouchedFor, W!ValidatorsAreOfThisPage
  <2>2. validators' = W!MergedWith(validators, headers)
    BY <1>1, <1>4 DEF W!Harvested
  <2> QED
    BY <1>2, <1>3, <2>1, <2>2 DEF W!MergedWith, VouchedFor, W!ValidatorsAreOfThisPage
<1>5. CASE ~W!Unchanged(validators)
  BY <1>1, <1>2, <1>3, <1>5 DEF W!Harvested, VouchedFor, W!ValidatorsAreOfThisPage
<1> QED
  BY <1>4, <1>5

\* Whatever else an edge does leaves the wire alone.
LEMMA WireIsItsOwn == EdgesSpec => W!WireSpec
<1>1. EdgesInit => W!WireInit
  BY DEF EdgesInit
<1>2. [EdgesNext]_<<part, vars, cache, wire, stores>> => [W!WireNext]_(W!wireVars)
  BY DEF EdgesNext, wire, W!wireVars
<1> QED
  BY <1>1, <1>2, PTL DEF EdgesSpec, W!WireSpec

\* Whatever GitHub's inbox holds and goes back to, a validator is of the page
\* it is kept with: a 304 means that nothing changed since that page.
THEOREM ValidatorsVouch ==
    ASSUME Told
    PROVE  EdgesSpec => []ValidatorsAreOfThisPage
<1>1. W!WireInit => VouchedFor
  BY DEF W!WireInit, W!NoValidators, VouchedFor, W!ValidatorsAreOfThisPage
<1>2. VouchedFor /\ [W!WireNext]_(W!wireVars) => VouchedFor'
  <2> SUFFICES ASSUME VouchedFor, [W!WireNext]_(W!wireVars)
               PROVE  VouchedFor'
    OBVIOUS
  <2>1. CASE W!Poll
    BY <2>1, HeadersAreOf
  <2>2. CASE W!News
    BY <2>2 DEF W!News, VouchedFor, W!ValidatorsAreOfThisPage
  <2>3. CASE W!Select \/ W!Ask \/ W!Answer \/ W!AskFails \/ W!Keep \/ UNCHANGED W!wireVars
    <3>1. UNCHANGED <<inbox, heldOf, validators>>
      BY <2>3 DEF W!Select, W!Ask, W!Answer, W!AskFails, W!Keep, W!wireVars
    <3> QED
      BY <3>1 DEF VouchedFor, W!ValidatorsAreOfThisPage
  <2> QED
    BY <2>1, <2>2, <2>3 DEF W!WireNext
<1>3. VouchedFor => ValidatorsAreOfThisPage
  BY DEF VouchedFor, ValidatorsAreOfThisPage
<1> QED
  BY <1>1, <1>2, <1>3, WireIsItsOwn, PTL DEF W!WireSpec

---------------------------------------------------------------------------
(* A row that is told something keeps its subject.                         *)

LEMMA SubjectStays ==
    ASSUME NEW row, NEW d, W!RowIsRight(row)
    PROVE  LET new == [row EXCEPT !.detail = d] IN
           /\ new = [id |-> new.id, kind |-> new.kind, repo |-> new.repo,
                     subject |-> new.subject, detail |-> new.detail]
           /\ new.detail = d /\ new.subject = row.subject
           /\ W!Target(new) = W!Target(row)
           /\ W!UrlTellsType(new, world[W!Target(new)])
           /\ W!BrowserUrl([new EXCEPT !.detail = W!Absent])
                = W!BrowserUrl([row EXCEPT !.detail = W!Absent])
<1> DEFINE new == [row EXCEPT !.detail = d]
<1>1. row = [id |-> row.id, kind |-> row.kind, repo |-> row.repo,
             subject |-> row.subject, detail |-> row.detail]
  BY DEF W!RowIsRight
<1>2. new = [id |-> row.id, kind |-> row.kind, repo |-> row.repo,
             subject |-> row.subject, detail |-> d]
  BY <1>1
<1>3. /\ new = [id |-> new.id, kind |-> new.kind, repo |-> new.repo,
                subject |-> new.subject, detail |-> new.detail]
      /\ new.detail = d /\ new.subject = row.subject
  BY <1>2
<1>4. [new EXCEPT !.detail = W!Absent] = [row EXCEPT !.detail = W!Absent]
  BY <1>1, <1>2
<1> HIDE DEF new
<1>5. W!Target(new) = W!Target(row)
  BY <1>3 DEF W!Target
<1>6. W!UrlTellsType(new, world[W!Target(new)])
  BY <1>3, <1>5 DEF W!RowIsRight, W!UrlTellsType
<1> QED
  BY <1>3, <1>4, <1>5, <1>6 DEF new

\* A detail that answers nothing is always right.
LEMMA UnansweredIsRight ==
    ASSUME NEW row, NEW d, W!RowIsRight(row), d.is \notin {"Ready", "Failed"}
    PROVE  W!RowIsRight([row EXCEPT !.detail = d])
<1> DEFINE new == [row EXCEPT !.detail = d]
<1>1. /\ new = [id |-> new.id, kind |-> new.kind, repo |-> new.repo,
                subject |-> new.subject, detail |-> new.detail]
      /\ new.detail = d
      /\ W!UrlTellsType(new, world[W!Target(new)])
  BY SubjectStays
<1> HIDE DEF new
<1>2. W!AnswerIsOwn(new)
  BY <1>1 DEF W!AnswerIsOwn
<1>3. W!RowIsRight(new)
  BY <1>1, <1>2 DEF W!RowIsRight
<1> QED
  BY <1>3 DEF new

LEMMA States ==
    /\ W!Absent # W!Pending /\ W!NotApplicable \notin {W!Absent, W!Pending}
    /\ "is" \in DOMAIN W!Absent
    /\ W!Absent.is = "Absent" /\ W!Pending.is = "Pending"
    /\ W!NotApplicable.is = "NotApplicable"
    /\ W!Null.is = "null"
<1>1. /\ W!Absent.is = "Absent" /\ W!Pending.is = "Pending"
      /\ W!NotApplicable.is = "NotApplicable" /\ W!Null.is = "null"
      /\ "is" \in DOMAIN W!Absent
  BY DEF W!Absent, W!Pending, W!NotApplicable, W!Null
<1> QED
  BY <1>1

\* A row of a fresh page.
LEMMA FreshIsRight ==
    ASSUME Told, world \in Worlds, NEW k \in DOMAIN Inboxes, NEW i \in DOMAIN Inboxes[k]
    PROVE  LET row == W!IntoModel(Inboxes[k][i]) IN
           W!RowIsRight(row) /\ row.detail = W!Absent
<1> DEFINE row == W!IntoModel(Inboxes[k][i])
<1>1. /\ row = [id |-> row.id, kind |-> row.kind, repo |-> row.repo,
                subject |-> row.subject, detail |-> row.detail]
      /\ row.detail = W!Absent
  BY DEF W!IntoModel
<1>2. W!UrlTellsType(row, world[W!Target(row)])
  BY DEF Told, W!UrlsTellTypes
<1> HIDE DEF row
<1>3. W!AnswerIsOwn(row)
  BY <1>1, States DEF W!AnswerIsOwn
<1>4. W!RowIsRight(row)
  BY <1>1, <1>2, <1>3 DEF W!RowIsRight
<1> QED
  BY <1>1, <1>4 DEF row

LEMMA FirstPageIsOf ==
    ASSUME Told, NEW k \in DOMAIN Inboxes
    PROVE  DOMAIN W!FirstPage(Inboxes[k]) \subseteq Nat \cap DOMAIN Inboxes[k]
<1> DEFINE threads == Inboxes[k]
           T == Range(threads)
<1>1. threads \in Seq(T) /\ PerPage \in Nat
  BY DEF Told, W!WireAssumption, W!Range, Range
<1>2. Len(threads) \in Nat /\ DOMAIN threads = 1 .. Len(threads)
  BY <1>1
<1> HIDE DEF threads, T
<1>3. W!Min({PerPage, Len(threads)}) \in {PerPage, Len(threads)}
      /\ W!Min({PerPage, Len(threads)}) <= Len(threads)
  <2>1. ASSUME NEW x \in Nat, NEW y \in Nat
        PROVE  W!Min({x, y}) \in {x, y} /\ W!Min({x, y}) <= y
    <3>1. \E z \in {x, y} : \A u \in {x, y} : z <= u
      <4>1. CASE x <= y
        BY <4>1
      <4>2. CASE ~(x <= y)
        BY <4>2
      <4> QED
        BY <4>1, <4>2
    <3> QED
      BY <3>1 DEF W!Min
  <2> QED
    BY <1>1, <1>2, <2>1
<1>4. DOMAIN W!FirstPage(threads) = 1 .. W!Min({PerPage, Len(threads)})
  BY <1>1, <1>2, <1>3 DEF W!FirstPage
<1>5. DOMAIN W!FirstPage(threads) \subseteq Nat \cap DOMAIN threads
  BY <1>1, <1>2, <1>3, <1>4
<1> QED
  BY <1>5 DEF threads

---------------------------------------------------------------------------
(* The query, and what it answers.                                         *)

LEMMA TargetIs ==
    ASSUME NEW row, W!Target(row) # None
    PROVE  /\ row.subject # None
           /\ row.subject.kind \in {"PullRequest", "Issue", "Discussion"}
           /\ W!Target(row).discussion \in BOOLEAN
           /\ W!Target(row).owner = row.subject.owner
           /\ W!Target(row).repo = row.subject.repo
           /\ W!Target(row).number = row.subject.id
BY DEF W!Target

\* The fragments defined are the fragments spread, or GitHub would refuse.
LEMMA QueryIsValid ==
    ASSUME W!QueryIsOfTheChunk, phase = "asked"
    PROVE  W!Valid(asked) /\ asked.aliases = W!Aliases
<1> DEFINE R == W!Range(W!Aliases)
<1>1. asked.aliases = W!Aliases /\ asked.fragments = W!Fragments(W!Aliases)
  BY DEF W!QueryIsOfTheChunk, W!BuildQuery
<1>2. \A t \in R : t.discussion \in BOOLEAN
  <2>1. ASSUME NEW t \in R
        PROVE  t.discussion \in BOOLEAN
    <3>1. PICK i \in DOMAIN W!Aliases : t = W!Aliases[i]
      BY DEF W!Range
    <3>2. i \in todo /\ t = W!Target(slice[i])
      BY <3>1 DEF W!Aliases, W!Chunk
    <3> QED
      BY <3>2, TargetIs DEF W!QueryIsOfTheChunk
  <2> QED
    BY <2>1
<1>3. W!Fragments(W!Aliases) = W!Spread(W!Aliases)
  <2> DEFINE per(t) == IF t.discussion THEN {"DiscussionFields"} ELSE {"PrFields", "IssueFields"}
  <2>1. /\ W!Fragments(W!Aliases)
             = {"Who", "Latest"}
               \cup (IF \E t \in R : ~t.discussion THEN {"PrFields", "IssueFields"} ELSE {})
               \cup (IF \E t \in R : t.discussion THEN {"DiscussionFields"} ELSE {})
        /\ W!Spread(W!Aliases) = {"Who", "Latest"} \cup UNION {per(t) : t \in R}
    BY DEF W!Fragments, W!Spread
  <2> HIDE DEF R
  <2>2. \A t \in R : t.discussion = TRUE \/ t.discussion = FALSE
    BY <1>2
  <2>3. \A t \in R : /\ t.discussion = TRUE => per(t) = {"DiscussionFields"}
                     /\ t.discussion = FALSE => per(t) = {"PrFields", "IssueFields"}
    OBVIOUS
  <2> HIDE DEF per
  <2>4. \A x : x \in UNION {per(t) : t \in R} <=> \E t \in R : x \in per(t)
    OBVIOUS
  <2>5. \A x : x \in UNION {per(t) : t \in R}
                 <=> \/ /\ \E t \in R : t.discussion = FALSE
                        /\ x \in {"PrFields", "IssueFields"}
                     \/ /\ \E t \in R : t.discussion = TRUE
                        /\ x \in {"DiscussionFields"}
    BY <2>2, <2>3, <2>4
  <2>6. /\ (\E t \in R : ~t.discussion) <=> (\E t \in R : t.discussion = FALSE)
        /\ (\E t \in R : t.discussion) <=> (\E t \in R : t.discussion = TRUE)
    BY <2>2
  <2> QED
    BY <2>1, <2>5, <2>6
<1> QED
  BY <1>1, <1>3 DEF W!Valid

\* The first row of the chunk that names a subject gives the answer its alias.
LEMMA AliasIsOfTheSubject ==
    ASSUME W!QueryIsOfTheChunk, phase = "asked", DOMAIN slice \subseteq Nat,
           NEW i \in W!Chunk
    PROVE  /\ W!AliasOf(i) \in DOMAIN asked.aliases
           /\ asked.aliases[W!AliasOf(i)] = W!Target(slice[i])
           /\ W!Target(slice[i]) # None
<1> DEFINE same == {k \in W!Chunk : W!Target(slice[k]) = W!Target(slice[i])}
<1>1. W!Chunk \subseteq Nat /\ W!Chunk \subseteq todo
  BY DEF W!Chunk, W!QueryIsOfTheChunk
<1>2. same # {} /\ same \in SUBSET Nat
  BY <1>1
<1>3. PICK a \in same : \A m \in same : a <= m
  BY <1>2, LeastOfNats
<1>4. \A k \in W!Chunk : k < a => W!Target(slice[k]) # W!Target(slice[a])
  <2>1. ASSUME NEW k \in W!Chunk, k < a, W!Target(slice[k]) = W!Target(slice[a])
        PROVE  FALSE
    <3>1. k \in same /\ k \in Nat /\ a \in Nat
      BY <1>1, <2>1
    <3> QED
      BY <1>3, <2>1, <3>1
  <2> QED
    BY <2>1
<1>5. a \in DOMAIN W!Aliases /\ W!Aliases[a] = W!Target(slice[i])
  BY <1>3, <1>4 DEF W!Aliases
<1>6. asked.aliases = W!Aliases
  BY QueryIsValid
<1>7. W!Target(slice[i]) # None
  BY <1>1 DEF W!QueryIsOfTheChunk
<1> QED
  BY <1>5, <1>6, <1>7 DEF W!AliasOf

\* An error that is under an alias is of the alias's subject, and a subject
\* that is not to be had has one.
LEMMA ErrorsAreOf ==
    ASSUME NEW query, NEW late, NEW deep, NEW a \in DOMAIN query.aliases
    PROVE  LET found == W!MessagesFor(W!Errors(query, late, deep), a)
           IN  \A e \in found : e.of \in {query.aliases[a], None}
<1> DEFINE Given(b) ==
            LET error(at, says) == {[path |-> at, says |-> says, of |-> query.aliases[b]]}
            IN IF b \in late THEN {[path |-> <<>>, says |-> "timedout", of |-> None]}
               ELSE IF world[query.aliases[b]].is = "hidden" THEN error(<<b>>, "NOT_FOUND")
               ELSE IF world[query.aliases[b]].is = "missing" THEN error(<<b, 0>>, "NOT_FOUND")
               ELSE IF b \in deep THEN error(<<b, 0, 0>>, "FORBIDDEN")
               ELSE {}
<1>1. W!Errors(query, late, deep) = UNION {Given(b) : b \in DOMAIN query.aliases}
  BY DEF W!Errors
<1>2. ASSUME NEW b, NEW e \in Given(b), e.path # <<>>, e.path[1] = a
      PROVE  b = a /\ e.of \in {query.aliases[b], None}
  <2>1. \/ e = [path |-> <<>>, says |-> "timedout", of |-> None]
        \/ e = [path |-> <<b>>, says |-> "NOT_FOUND", of |-> query.aliases[b]]
        \/ e = [path |-> <<b, 0>>, says |-> "NOT_FOUND", of |-> query.aliases[b]]
        \/ e = [path |-> <<b, 0, 0>>, says |-> "FORBIDDEN", of |-> query.aliases[b]]
    BY <1>2
  <2> HIDE DEF Given
  <2> QED
    BY <1>2, <2>1
<1> HIDE DEF Given
<1>3. ASSUME NEW e \in W!MessagesFor(W!Errors(query, late, deep), a)
      PROVE  e.of \in {query.aliases[a], None}
  <2>1. /\ e \in UNION {Given(b) : b \in DOMAIN query.aliases}
        /\ e.path # <<>> /\ e.path[1] = a
    BY <1>1, <1>3 DEF W!MessagesFor
  <2>2. PICK b \in DOMAIN query.aliases : e \in Given(b)
    BY <2>1
  <2> QED
    BY <1>2, <2>1, <2>2
<1> QED
  BY <1>3

LEMMA DataIs ==
    ASSUME NEW query, NEW late, NEW deep, NEW a \in DOMAIN query.aliases,
           W!MessagesFor(W!Errors(query, late, deep), a) = {},
           W!Data(query, late)[a] # W!Null
    PROVE  W!Data(query, late)[a].subject = world[query.aliases[a]]
<1> DEFINE known == world[query.aliases[a]]
           lost == [path |-> <<a, 0>>, says |-> "NOT_FOUND", of |-> query.aliases[a]]
<1>1. W!Data(query, late)[a] =
        IF a \in late \/ known.is = "hidden" THEN W!Null
        ELSE [is |-> "repository",
              subject |-> IF known.is = "missing" THEN W!Null ELSE known]
  BY DEF W!Data
<1>2. ~(a \in late \/ known.is = "hidden")
  BY <1>1
<1>3. ASSUME known.is = "missing"
      PROVE  FALSE
  <2>1. lost \in W!Errors(query, late, deep)
    BY <1>2, <1>3 DEF W!Errors
  <2>2. lost.path # <<>> /\ lost.path[1] = a
    OBVIOUS
  <2> HIDE DEF lost
  <2> QED
    BY <2>1, <2>2 DEF W!MessagesFor
<1> QED
  BY <1>1, <1>2, <1>3

\* A subject's own detail.
LEMMA DetailIsRight ==
    ASSUME NEW row, NEW node, W!RowIsRight(row), W!Target(row) # None,
           node.subject = world[W!Target(row)], Told
    PROVE  LET d == W!DetailFrom(node, W!Target(row)) IN
           W!RowIsRight([row EXCEPT !.detail = d]) /\ d.is \in {"Ready", "Failed"}
<1> DEFINE t == W!Target(row)
           d == W!DetailFrom(node, t)
           new == [row EXCEPT !.detail = d]
           known == world[t]
<1>1. /\ new = [id |-> new.id, kind |-> new.kind, repo |-> new.repo,
                subject |-> new.subject, detail |-> new.detail]
      /\ new.detail = d /\ new.subject = row.subject
      /\ W!Target(new) = t
      /\ W!UrlTellsType(new, world[t])
      /\ W!BrowserUrl([new EXCEPT !.detail = W!Absent])
           = W!BrowserUrl([row EXCEPT !.detail = W!Absent])
  <2> HIDE DEF d
  <2> QED
    BY SubjectStays
<1>2. /\ row.subject # None
      /\ row.subject.kind \in {"PullRequest", "Issue", "Discussion"}
      /\ t.owner = row.subject.owner /\ t.repo = row.subject.repo
      /\ t.number = row.subject.id
  BY TargetIs
<1>3. W!BrowserUrl([row EXCEPT !.detail = W!Absent])
        = W!Url(row.subject.owner, row.subject.repo, row.subject.kind, row.subject.id)
  <2> DEFINE plain == [row EXCEPT !.detail = W!Absent]
  <2>1. plain.detail = W!Absent /\ plain.subject = row.subject
    BY SubjectStays
  <2> HIDE DEF plain
  <2>2. row.subject.kind \in DOMAIN W!WebPath
    BY <1>2 DEF W!WebPath
  <2>3. W!BrowserUrl(plain)
          = W!Url(row.subject.owner, row.subject.repo, row.subject.kind, row.subject.id)
    BY <1>2, <2>1, <2>2, States DEF W!BrowserUrl
  <2> QED
    BY <2>3 DEF plain
<1>4. /\ known.is \in {row.subject.kind, "hidden", "missing", "Unknown"}
      /\ known.is \in {"PullRequest", "Issue"} => known.state # "DRAFT"
  BY <1>2 DEF W!RowIsRight, W!UrlTellsType
<1>5. CASE known.is \notin {"PullRequest", "Issue", "Discussion"}
  <2>1. d = W!Failed("unresolved", t)
    BY <1>5 DEF W!DetailFrom
  <2>2. d.is = "Failed" /\ d.of = t
    BY <2>1 DEF W!Failed
  <2> HIDE DEF d, new, t
  <2>3. W!AnswerIsOwn(new)
    BY <1>1, <2>2 DEF W!AnswerIsOwn
  <2>4. W!RowIsRight(new)
    BY <1>1, <2>3 DEF W!RowIsRight
  <2> QED
    BY <2>2, <2>4 DEF new, d, t
<1>6. CASE known.is \in {"PullRequest", "Issue", "Discussion"}
  <2>1. /\ d.is = "Ready" /\ d.number = t.number
        /\ d.status = CASE known.is = "PullRequest" -> W!DisplayStatus(known)
                        [] known.is = "Issue"       -> known.state
                        [] known.is = "Discussion"  -> None
        /\ d.url = W!Url(t.owner, t.repo, known.is, t.number)
    BY <1>6 DEF W!DetailFrom
  <2>2. known.is = row.subject.kind
    BY <1>2, <1>4, <1>6
  <2>3. None # "DRAFT"
    BY DEF Told, W!WireAssumption
  <2> HIDE DEF d, new, t
  <2>4. W!BrowserUrl(new) = d.url
    BY <1>1, <2>1 DEF W!BrowserUrl
  <2>5. d.url = W!BrowserUrl([new EXCEPT !.detail = W!Absent])
    BY <1>1, <1>2, <1>3, <2>1, <2>2
  <2>6. d.status = "DRAFT" => known.state = "OPEN" /\ known.draft
    BY <1>4, <1>6, <2>1, <2>3 DEF W!DisplayStatus
  <2>7. known.is \in {"PullRequest", "Issue"} => d.status \in {known.state, "DRAFT"}
    BY <1>6, <2>1 DEF W!DisplayStatus
  <2>8. W!AnswerIsOwn(new)
    BY <1>1, <1>2, <2>1, <2>4, <2>5, <2>6, <2>7 DEF W!AnswerIsOwn
  <2>9. W!RowIsRight(new)
    BY <1>1, <2>8 DEF W!RowIsRight
  <2> QED
    BY <2>1, <2>9 DEF new, d, t
<1> QED
  BY <1>5, <1>6

\* What is made of an answer, whichever subjects failed and however.
LEMMA ResolvedIsRight ==
    ASSUME Told, NEW row, W!RowIsRight(row), W!Target(row) # None,
           NEW late, NEW deep, NEW a \in DOMAIN asked.aliases,
           asked.aliases[a] = W!Target(row)
    PROVE  LET d == W!Resolved(W!Data(asked, late), W!Errors(asked, late, deep), a) IN
           W!RowIsRight([row EXCEPT !.detail = d]) /\ d.is \in {"Ready", "Failed"}
<1> DEFINE data == W!Data(asked, late)
           errors == W!Errors(asked, late, deep)
           found == W!MessagesFor(errors, a)
           d == W!Resolved(data, errors, a)
           t == W!Target(row)
<1>1. d = IF found # {} THEN W!Failed((CHOOSE e \in found : TRUE).says,
                                      (CHOOSE e \in found : TRUE).of)
          ELSE IF data[a] = W!Null THEN W!Failed("MISSING", None)
          ELSE W!DetailFrom(data[a], t)
  BY DEF W!Resolved
<1>2. \A e \in found : e.of \in {t, None}
  BY ErrorsAreOf
<1>3. found = {} /\ data[a] # W!Null => data[a].subject = world[t]
  BY DataIs
<1> HIDE DEF data, errors, found, d
<1>4. ASSUME NEW says, NEW of \in {t, None}, d = W!Failed(says, of)
      PROVE  W!RowIsRight([row EXCEPT !.detail = d]) /\ d.is \in {"Ready", "Failed"}
  <2> DEFINE new == [row EXCEPT !.detail = d]
  <2>1. /\ new = [id |-> new.id, kind |-> new.kind, repo |-> new.repo,
                  subject |-> new.subject, detail |-> new.detail]
        /\ new.detail = d
        /\ W!Target(new) = t
        /\ W!UrlTellsType(new, world[t])
    BY SubjectStays
  <2>2. d.is = "Failed" /\ d.of = of
    BY <1>4 DEF W!Failed
  <2> HIDE DEF new, t
  <2>3. W!RowIsRight(new)
    BY <1>4, <2>1, <2>2 DEF W!RowIsRight, W!AnswerIsOwn
  <2> QED
    BY <2>2, <2>3 DEF new
<1>5. ASSUME found # {}
      PROVE  W!RowIsRight([row EXCEPT !.detail = d]) /\ d.is \in {"Ready", "Failed"}
  <2>1. (CHOOSE e \in found : TRUE) \in found
    BY <1>5
  <2> QED
    BY <1>1, <1>2, <1>4, <1>5, <2>1
<1>6. ASSUME found = {} /\ data[a] = W!Null
      PROVE  W!RowIsRight([row EXCEPT !.detail = d]) /\ d.is \in {"Ready", "Failed"}
  BY <1>1, <1>4, <1>6
<1>7. ASSUME found = {} /\ data[a] # W!Null
      PROVE  W!RowIsRight([row EXCEPT !.detail = d]) /\ d.is \in {"Ready", "Failed"}
  <2>1. d = W!DetailFrom(data[a], t) /\ data[a].subject = world[t]
    BY <1>1, <1>3, <1>7
  <2> QED
    BY <2>1, DetailIsRight
<1>8. W!RowIsRight([row EXCEPT !.detail = d]) /\ d.is \in {"Ready", "Failed"}
  BY <1>5, <1>6, <1>7
<1> QED
  BY <1>8 DEF d, data, errors

---------------------------------------------------------------------------
(* The steps.                                                              *)

LEMMA PollRight ==
    ASSUME Told, W!WireInv, W!Poll
    PROVE  W!WireInv'
<1>1. /\ inbox' = inbox /\ world' = world /\ phase' = phase /\ slice' = slice
      /\ todo' = todo /\ asked' = asked /\ outcome' = outcome /\ phase = "idle"
  BY DEF W!Poll
<1>2. \/ held' = held
      \/ held' = [i \in DOMAIN W!FirstPage(Inboxes[inbox]) |-> W!IntoModel(Inboxes[inbox][i])]
  BY DEF W!Poll
<1>3. W!RowsAreRight(slice)' /\ W!QueryIsOfTheChunk'
  BY <1>1 DEF W!WireInv, W!RowsAreRight, W!RowIsRight, W!AnswerIsOwn, W!UrlTellsType,
              W!QueryIsOfTheChunk
<1>4. W!RowsAreRight(held)' /\ (\A i \in DOMAIN held : held[i].detail # W!Pending)'
  <2>1. CASE held' = held
    BY <1>1, <2>1 DEF W!WireInv, W!RowsAreRight, W!RowIsRight, W!AnswerIsOwn,
                      W!UrlTellsType, W!NothingIsForgotten
  <2>2. CASE held' = [i \in DOMAIN W!FirstPage(Inboxes[inbox]) |->
                        W!IntoModel(Inboxes[inbox][i])]
    <3>1. DOMAIN held' \subseteq Nat \cap DOMAIN Inboxes[inbox]
      BY <2>2, FirstPageIsOf DEF W!WireInv
    <3>2. \A i \in DOMAIN held' : /\ W!RowIsRight(held'[i])
                                  /\ held'[i].detail = W!Absent
      BY <2>2, <3>1, FreshIsRight DEF W!WireInv
    <3>4. ASSUME NEW i \in DOMAIN held'
          PROVE  W!RowIsRight(held[i])'
      BY <1>1, <3>2 DEF W!RowIsRight, W!AnswerIsOwn, W!UrlTellsType
    <3> QED
      BY <3>1, <3>2, <3>4, States DEF W!RowsAreRight
  <2> QED
    BY <1>2, <2>1, <2>2
<1>5. W!NothingIsForgotten'
  BY <1>1, <1>4 DEF W!NothingIsForgotten, W!WireInv, W!Chunk
<1> QED
  BY <1>1, <1>3, <1>4, <1>5 DEF W!WireInv

\* The other steps change what is known of neither the rows nor GitHub.
LEMMA StandsWith ==
    ASSUME UNCHANGED world
    PROVE  /\ W!RowsAreRight(held)' <=> W!RowsAreRight(held')
           /\ W!RowsAreRight(slice)' <=> W!RowsAreRight(slice')
BY DEF W!RowsAreRight, W!RowIsRight, W!AnswerIsOwn, W!UrlTellsType

LEMMA SelectRight ==
    ASSUME Told, W!WireInv, W!Select
    PROVE  W!WireInv'
<1>1. /\ UNCHANGED <<inbox, world, held, asked>> /\ phase = "idle"
      /\ todo' = {i \in W!AbsentRows : W!Target(held[i]) # None}
      /\ slice' = [i \in DOMAIN held |->
                     IF i \in W!AbsentRows /\ W!Target(held[i]) = None
                     THEN [held[i] EXCEPT !.detail = W!NotApplicable] ELSE held[i]]
      /\ \/ todo' = {} /\ phase' = "returned" /\ outcome' = "Ok"
         \/ phase' = "asking"
  BY DEF W!Select
<1>2. ASSUME NEW i \in DOMAIN slice'
      PROVE  /\ i \in DOMAIN held
             /\ W!RowIsRight(slice'[i]) /\ W!Target(slice'[i]) = W!Target(held[i])
             /\ slice'[i].detail # W!Pending
             /\ slice'[i].detail = W!Absent => i \in todo'
  <2>1. i \in DOMAIN held /\ W!RowIsRight(held[i]) /\ held[i].detail # W!Pending
    BY <1>1 DEF W!WireInv, W!RowsAreRight, W!NothingIsForgotten
  <2>2. CASE i \in W!AbsentRows /\ W!Target(held[i]) = None
    <3>1. slice'[i] = [held[i] EXCEPT !.detail = W!NotApplicable]
      BY <1>1, <2>1, <2>2
    <3>2. W!RowIsRight([held[i] EXCEPT !.detail = W!NotApplicable])
      BY <2>1, UnansweredIsRight, States
    <3>3. /\ W!Target([held[i] EXCEPT !.detail = W!NotApplicable]) = W!Target(held[i])
          /\ [held[i] EXCEPT !.detail = W!NotApplicable].detail = W!NotApplicable
      BY <2>1, SubjectStays
    <3> QED
      BY <2>1, <3>1, <3>2, <3>3, States
  <2>3. CASE ~(i \in W!AbsentRows /\ W!Target(held[i]) = None)
    <3>1. slice'[i] = held[i]
      BY <1>1, <2>1, <2>3
    <3> QED
      BY <1>1, <2>1, <2>3, <3>1 DEF W!AbsentRows
  <2> QED
    BY <2>2, <2>3
<1>3. W!RowsAreRight(slice)' /\ W!RowsAreRight(held)'
  BY <1>1, <1>2, StandsWith DEF W!RowsAreRight, W!WireInv
<1>4. W!QueryIsOfTheChunk'
  <2>1. todo' \subseteq {i \in DOMAIN slice' : W!Target(slice'[i]) # None}
    BY <1>1, <1>2 DEF W!AbsentRows
  <2>2. phase' # "asked"
    BY <1>1
  <2> QED
    BY <2>1, <2>2 DEF W!QueryIsOfTheChunk, W!Target
<1>5. W!NothingIsForgotten'
  BY <1>1, <1>2 DEF W!NothingIsForgotten, W!WireInv
<1> QED
  BY <1>1, <1>3, <1>4, <1>5 DEF W!WireInv

LEMMA AskRight ==
    ASSUME Told, W!WireInv, W!Ask
    PROVE  W!WireInv'
<1>1. /\ UNCHANGED <<inbox, world, held, todo>>
      /\ phase = "asking" /\ phase' = "asked"
      /\ asked' = W!BuildQuery(W!Aliases)
      /\ slice' = [i \in DOMAIN slice |->
                     IF i \in W!Chunk THEN [slice[i] EXCEPT !.detail = W!Pending]
                     ELSE slice[i]]
  BY DEF W!Ask
<1>2. W!Chunk' = W!Chunk /\ W!Chunk \subseteq DOMAIN slice
  BY <1>1 DEF W!Chunk, W!WireInv, W!QueryIsOfTheChunk
<1>3. ASSUME NEW i \in DOMAIN slice
      PROVE  /\ W!RowIsRight(slice'[i]) /\ W!Target(slice'[i]) = W!Target(slice[i])
             /\ slice'[i].detail = W!Pending => i \in W!Chunk
             /\ slice'[i].detail = W!Absent => i \in todo
  <2>1. /\ W!RowIsRight(slice[i]) /\ slice[i].detail # W!Pending
        /\ slice[i].detail = W!Absent => i \in todo
    BY <1>1 DEF W!WireInv, W!RowsAreRight, W!NothingIsForgotten
  <2>2. CASE i \in W!Chunk
    <3>1. slice'[i] = [slice[i] EXCEPT !.detail = W!Pending]
      BY <1>1, <2>2
    <3>2. W!RowIsRight([slice[i] EXCEPT !.detail = W!Pending])
      BY <2>1, UnansweredIsRight, States
    <3>3. /\ W!Target([slice[i] EXCEPT !.detail = W!Pending]) = W!Target(slice[i])
          /\ [slice[i] EXCEPT !.detail = W!Pending].detail = W!Pending
      BY <2>1, SubjectStays
    <3> QED
      BY <2>1, <2>2, <3>1, <3>2, <3>3, States
  <2>3. CASE i \notin W!Chunk
    BY <1>1, <2>1, <2>3
  <2> QED
    BY <2>2, <2>3
<1>4. DOMAIN slice' = DOMAIN slice
  BY <1>1
<1>5. W!RowsAreRight(slice)' /\ W!RowsAreRight(held)'
  BY <1>1, <1>3, <1>4, StandsWith DEF W!RowsAreRight, W!WireInv
<1>6. W!QueryIsOfTheChunk'
  <2>1. todo' \subseteq {i \in DOMAIN slice' : W!Target(slice'[i]) # None}
    BY <1>1, <1>3, <1>4 DEF W!WireInv, W!QueryIsOfTheChunk
  <2>2. \A i \in W!Chunk : W!Target(slice'[i]) = W!Target(slice[i])
    BY <1>2, <1>3
  <2>3. W!Aliases' = W!Aliases
    <3>1. {j \in W!Chunk : \A k \in W!Chunk : k < j => W!Target(slice'[k]) # W!Target(slice'[j])}
            = {j \in W!Chunk : \A k \in W!Chunk : k < j => W!Target(slice[k]) # W!Target(slice[j])}
      BY <2>2
    <3> QED
      BY <1>2, <2>2, <3>1 DEF W!Aliases, W!Target
  <2>4. asked' = W!BuildQuery(W!Aliases)'
    BY <1>1, <2>3 DEF W!BuildQuery, W!Fragments, W!Range
  <2> QED
    BY <2>1, <2>4 DEF W!QueryIsOfTheChunk, W!Target
<1>7. W!NothingIsForgotten'
  BY <1>1, <1>2, <1>3, <1>4 DEF W!NothingIsForgotten, W!WireInv
<1> QED
  BY <1>1, <1>5, <1>6, <1>7 DEF W!WireInv

LEMMA AnswerRight ==
    ASSUME Told, W!WireInv, W!Answer
    PROVE  W!WireInv'
<1>1. PICK late \in SUBSET DOMAIN asked.aliases, deep \in SUBSET DOMAIN asked.aliases :
        slice' = [i \in DOMAIN slice |->
                    IF i \in W!Chunk
                    THEN [slice[i] EXCEPT !.detail =
                            W!Resolved(W!Data(asked, late), W!Errors(asked, late, deep),
                                       W!AliasOf(i))]
                    ELSE slice[i]]
  BY DEF W!Answer
<1>2. /\ UNCHANGED <<inbox, world, held>>
      /\ phase = "asked"
      /\ todo' = todo \ W!Chunk
      /\ \/ todo' = {} /\ phase' = "returned" /\ outcome' = "Ok"
         \/ phase' = "asking"
  BY DEF W!Answer, W!Rest
<1>3. /\ DOMAIN slice \subseteq Nat
      /\ W!QueryIsOfTheChunk
      /\ \A i \in DOMAIN slice : W!RowIsRight(slice[i])
  BY DEF W!WireInv, W!RowsAreRight
<1>4. ASSUME NEW i \in DOMAIN slice
      PROVE  /\ W!RowIsRight(slice'[i]) /\ W!Target(slice'[i]) = W!Target(slice[i])
             /\ slice'[i].detail # W!Pending
             /\ slice'[i].detail = W!Absent => i \in todo'
  <2>1. /\ W!RowIsRight(slice[i])
        /\ slice[i].detail = W!Pending => i \in W!Chunk
        /\ slice[i].detail = W!Absent => i \in todo
    BY <1>2, <1>3 DEF W!WireInv, W!NothingIsForgotten
  <2>2. CASE i \in W!Chunk
    <3> DEFINE d == W!Resolved(W!Data(asked, late), W!Errors(asked, late, deep), W!AliasOf(i))
    <3>1. slice'[i] = [slice[i] EXCEPT !.detail = d]
      BY <1>1, <2>2
    <3>2. /\ W!AliasOf(i) \in DOMAIN asked.aliases
          /\ asked.aliases[W!AliasOf(i)] = W!Target(slice[i])
          /\ W!Target(slice[i]) # None
      BY <1>2, <1>3, <2>2, AliasIsOfTheSubject
    <3>3. W!RowIsRight([slice[i] EXCEPT !.detail = d]) /\ d.is \in {"Ready", "Failed"}
      BY <2>1, <3>2, ResolvedIsRight
    <3> HIDE DEF d
    <3>4. /\ W!Target([slice[i] EXCEPT !.detail = d]) = W!Target(slice[i])
          /\ [slice[i] EXCEPT !.detail = d].detail = d
      BY <2>1, SubjectStays
    <3>5. d # W!Pending /\ d # W!Absent
      BY <3>3, States
    <3> QED
      BY <3>1, <3>3, <3>4, <3>5
  <2>3. CASE i \notin W!Chunk
    BY <1>1, <1>2, <2>1, <2>3
  <2> QED
    BY <2>2, <2>3
<1>5. DOMAIN slice' = DOMAIN slice
  BY <1>1
<1>6. W!RowsAreRight(slice)' /\ W!RowsAreRight(held)'
  BY <1>2, <1>3, <1>4, <1>5, StandsWith DEF W!RowsAreRight, W!WireInv
<1>7. W!QueryIsOfTheChunk'
  <2>1. todo' \subseteq {i \in DOMAIN slice' : W!Target(slice'[i]) # None}
    BY <1>2, <1>3, <1>4, <1>5 DEF W!QueryIsOfTheChunk
  <2>2. phase' # "asked"
    BY <1>2
  <2> QED
    BY <2>1, <2>2 DEF W!QueryIsOfTheChunk, W!Target
<1>8. W!NothingIsForgotten'
  BY <1>2, <1>4, <1>5 DEF W!NothingIsForgotten, W!WireInv
<1> QED
  BY <1>2, <1>6, <1>7, <1>8 DEF W!WireInv

LEMMA FailureRight ==
    ASSUME Told, W!WireInv, W!AskFails
    PROVE  W!WireInv'
<1>1. /\ UNCHANGED <<inbox, world, held>>
      /\ phase = "asked" /\ phase' = "returned" /\ todo' = {}
      /\ slice' = [i \in DOMAIN slice |->
                     IF i \in W!Chunk THEN [slice[i] EXCEPT !.detail = W!Absent]
                     ELSE slice[i]]
  BY DEF W!AskFails, W!Restored
<1>2. outcome' \in {"NotFound", "Forbidden", "RateLimited", "Offline"}
  BY <1>1, QueryIsValid DEF W!AskFails, W!WireInv
<1>3. ASSUME NEW i \in DOMAIN slice
      PROVE  W!RowIsRight(slice'[i]) /\ slice'[i].detail # W!Pending
  <2>1. W!RowIsRight(slice[i]) /\ (slice[i].detail = W!Pending => i \in W!Chunk)
    BY <1>1 DEF W!WireInv, W!RowsAreRight, W!NothingIsForgotten
  <2>2. CASE i \in W!Chunk
    <3>1. slice'[i] = [slice[i] EXCEPT !.detail = W!Absent]
      BY <1>1, <2>2
    <3>2. W!RowIsRight([slice[i] EXCEPT !.detail = W!Absent])
      BY <2>1, UnansweredIsRight, States
    <3>3. [slice[i] EXCEPT !.detail = W!Absent].detail = W!Absent
      BY <2>1, SubjectStays
    <3> QED
      BY <3>1, <3>2, <3>3, States
  <2>3. CASE i \notin W!Chunk
    BY <1>1, <2>1, <2>3
  <2> QED
    BY <2>2, <2>3
<1>4. DOMAIN slice' = DOMAIN slice /\ DOMAIN slice \subseteq Nat
  BY <1>1 DEF W!WireInv, W!RowsAreRight
<1>5. W!RowsAreRight(slice)' /\ W!RowsAreRight(held)'
  BY <1>1, <1>3, <1>4, StandsWith DEF W!RowsAreRight, W!WireInv
<1>6. W!QueryIsOfTheChunk' /\ W!NothingIsForgotten'
  BY <1>1, <1>2, <1>3, <1>4 DEF W!QueryIsOfTheChunk, W!NothingIsForgotten, W!WireInv
<1> QED
  BY <1>1, <1>5, <1>6 DEF W!WireInv

LEMMA KeepRight ==
    ASSUME Told, W!WireInv, W!Keep
    PROVE  W!WireInv'
<1>1. /\ UNCHANGED <<inbox, world, todo>> /\ todo = {}
      /\ held' = IF outcome = "Ok" THEN slice ELSE held
      /\ slice' = <<>> /\ DOMAIN slice' = {} /\ phase = "returned" /\ phase' = "idle"
  BY DEF W!Keep, W!WireInv, W!NothingIsForgotten
<1>2. W!RowsAreRight(slice)' /\ W!RowsAreRight(held)'
  BY <1>1, StandsWith DEF W!RowsAreRight, W!WireInv
<1>3. W!QueryIsOfTheChunk'
  BY <1>1 DEF W!QueryIsOfTheChunk
<1>4. W!NothingIsForgotten'
  <2>1. \A i \in DOMAIN slice : slice[i].detail # W!Pending
    BY <1>1 DEF W!WireInv, W!NothingIsForgotten
  <2> QED
    BY <1>1, <2>1 DEF W!NothingIsForgotten, W!WireInv
<1> QED
  BY <1>1, <1>2, <1>3, <1>4 DEF W!WireInv

LEMMA NewsRight ==
    ASSUME W!WireInv, W!News \/ UNCHANGED W!wireVars
    PROVE  W!WireInv'
<1>1. /\ UNCHANGED <<world, held, phase, slice, todo, asked, outcome>>
      /\ inbox' \in DOMAIN Inboxes
  BY DEF W!News, W!wireVars, W!WireInv
<1>2. W!RowsAreRight(slice)' /\ W!RowsAreRight(held)'
  BY <1>1, StandsWith DEF W!WireInv
<1>3. W!QueryIsOfTheChunk' /\ W!NothingIsForgotten'
  <2>1. W!Chunk' = W!Chunk
    BY <1>1 DEF W!Chunk
  <2>2. W!Aliases' = W!Aliases
    BY <1>1, <2>1 DEF W!Aliases, W!Target
  <2>3. W!BuildQuery(W!Aliases)' = W!BuildQuery(W!Aliases)
    BY <2>2 DEF W!BuildQuery, W!Fragments, W!Range
  <2>4. W!QueryIsOfTheChunk'
    BY <1>1, <2>3 DEF W!WireInv, W!QueryIsOfTheChunk, W!Target
  <2>5. W!NothingIsForgotten'
    BY <1>1, <2>1 DEF W!WireInv, W!NothingIsForgotten
  <2> QED
    BY <2>4, <2>5
<1> QED
  BY <1>1, <1>2, <1>3 DEF W!WireInv

LEMMA WireHolds ==
    ASSUME Told
    PROVE  W!WireSpec => []W!WireInv
<1>1. W!WireInit => W!WireInv
  BY DEF W!WireInit, W!WireInv, W!RowsAreRight, W!QueryIsOfTheChunk, W!NothingIsForgotten
<1>2. W!WireInv /\ [W!WireNext]_(W!wireVars) => W!WireInv'
  BY PollRight, SelectRight, AskRight, AnswerRight, FailureRight, KeepRight, NewsRight
     DEF W!WireNext
<1> QED
  BY <1>1, <1>2, PTL DEF W!WireSpec

\* A row that was answered is answered about its own subject, whichever rows
\* share its query and whichever subjects fail, and no row is left in flight
\* (notifications.rs, enrich_batch), for any inbox, batch and page size.
THEOREM AnswersReachTheirRows ==
    ASSUME Told
    PROVE  EdgesSpec => []RowsGetTheirAnswers
<1>1. W!WireInv => RowsGetTheirAnswers
  <2>1. W!WireInv => W!AnswersAreTheirOwn
    BY DEF W!WireInv, W!RowsAreRight, W!RowIsRight, W!AnswersAreTheirOwn
  <2>2. W!WireInv => W!NoRowStrands
    BY DEF W!WireInv, W!NothingIsForgotten, W!NoRowStrands
  <2> QED
    BY <2>1, <2>2 DEF RowsGetTheirAnswers
<1> QED
  BY <1>1, WireHolds, WireIsItsOwn, PTL

-----------------------------------------------------------------------------
(* The stores.                                                             *)

\* An instance counts, and orders, with its own copy of the operators.
LEMMA CountIs ==
    ASSUME NEW X
    PROVE  S!Cardinality(X) = Cardinality(X)
BY Zenon DEF S!Cardinality, Cardinality

\* An order of the elements of X, all of them and strict.
OrdersAll(X, R) ==
    /\ \A i \in X : <<i, i>> \notin R
    /\ \A i, j, k \in X : <<i, j>> \in R /\ <<j, k>> \in R => <<i, k>> \in R
    /\ \A i, j \in X : i # j => <<i, j>> \in R \/ <<j, i>> \in R

Before(X, R, i) == {j \in X : <<j, i>> \in R}

\* Each element of X has a number of its own of elements before it.
LEMMA RanksAre ==
    ASSUME NEW X, IsFiniteSet(X), NEW R, OrdersAll(X, R)
    PROVE  /\ \A i \in X : /\ IsFiniteSet(Before(X, R, i))
                           /\ Cardinality(Before(X, R, i)) \in 0 .. Cardinality(X) - 1
           /\ \A i, j \in X : Cardinality(Before(X, R, i)) = Cardinality(Before(X, R, j)) => i = j
           /\ \A m \in 1 .. Cardinality(X) : \E i \in X : Cardinality(Before(X, R, i)) = m - 1
<1> DEFINE n == Cardinality(X)
           first(i) == Before(X, R, i)
           rank == [i \in X |-> Cardinality(first(i)) + 1]
<1>1. n \in Nat /\ IsFiniteSet(1 .. n) /\ Cardinality(1 .. n) = n
  BY FS_CardinalityType, FS_Interval
<1>2. ASSUME NEW i \in X
      PROVE  /\ IsFiniteSet(first(i)) /\ Cardinality(first(i)) \in Nat
             /\ Cardinality(first(i)) <= n - 1
  <2>1. IsFiniteSet(X \ {i}) /\ Cardinality(X \ {i}) = n - 1
    BY FS_RemoveElement
  <2>2. first(i) \subseteq X \ {i}
    BY DEF OrdersAll, Before
  <2> HIDE DEF first
  <2>3. IsFiniteSet(first(i)) /\ Cardinality(first(i)) <= Cardinality(X \ {i})
    BY <2>1, <2>2, FS_Subset
  <2> QED
    BY <2>1, <2>3, FS_CardinalityType
<1>3. ASSUME NEW i \in X, NEW j \in X, <<i, j>> \in R
      PROVE  Cardinality(first(i)) < Cardinality(first(j))
  <2>1. i \in first(j) /\ first(i) \subseteq first(j) \ {i}
    BY <1>3 DEF OrdersAll, Before
  <2>2. IsFiniteSet(first(j)) /\ Cardinality(first(j)) \in Nat /\ Cardinality(first(i)) \in Nat
    BY <1>2
  <2> HIDE DEF first
  <2>3. IsFiniteSet(first(j) \ {i}) /\ Cardinality(first(j) \ {i}) = Cardinality(first(j)) - 1
    BY <2>1, <2>2, FS_RemoveElement
  <2>4. Cardinality(first(i)) <= Cardinality(first(j) \ {i})
    BY <2>1, <2>3, FS_Subset
  <2> QED
    BY <2>2, <2>3, <2>4
<1> HIDE DEF first
<1>4. ASSUME NEW i \in X, NEW j \in X, Cardinality(first(i)) = Cardinality(first(j))
      PROVE  i = j
  <2>1. Cardinality(first(i)) \in Nat /\ Cardinality(first(j)) \in Nat
    BY <1>2
  <2>2. <<i, j>> \notin R
    BY <1>3, <1>4, <2>1
  <2>3. <<j, i>> \notin R
    BY <1>3, <1>4, <2>1
  <2> QED
    BY <2>2, <2>3 DEF OrdersAll
<1>5. rank \in Injection(X, 1 .. n)
  <2>1. \A i \in X : rank[i] \in 1 .. n
    BY <1>1, <1>2
  <2>2. ASSUME NEW i \in X, NEW j \in X, rank[i] = rank[j]
        PROVE  i = j
    <3>1. Cardinality(first(i)) = Cardinality(first(j))
      BY <1>2, <2>2
    <3> QED
      BY <1>4, <3>1
  <2> QED
    BY <2>1, <2>2 DEF Injection, IsInjective
<1>6. rank \in Surjection(X, 1 .. n)
  BY <1>1, <1>5, FS_Injection
<1>7. ASSUME NEW m \in 1 .. n
      PROVE  \E i \in X : Cardinality(first(i)) = m - 1
  <2>1. \E i \in X : rank[i] = m
    BY <1>6 DEF Surjection
  <2> QED
    BY <1>1, <1>2, <2>1
<1>8. \A i \in X : Cardinality(first(i)) \in 0 .. n - 1
  BY <1>1, <1>2
<1> QED
  BY <1>2, <1>4, <1>7, <1>8 DEF first

\* A set in order.
LEMMA SortedIs ==
    ASSUME NEW X, IsFiniteSet(X), NEW R, OrdersAll(X, R)
    PROVE  /\ Cardinality(X) \in Nat
           /\ S!Sorted(X, R) = [m \in 1 .. Cardinality(X) |->
                                   CHOOSE i \in X : Cardinality(Before(X, R, i)) = m - 1]
           /\ \A m \in 1 .. Cardinality(X) :
                 /\ S!Sorted(X, R)[m] \in X
                 /\ Cardinality(Before(X, R, S!Sorted(X, R)[m])) = m - 1
<1>1. S!Sorted(X, R) = S!Ranked(X, R)
  BY DEF S!Sorted, S!The
<1> DEFINE At(m) == CHOOSE i \in X : Cardinality(Before(X, R, i)) = m - 1
<1>2. S!Ranked(X, R) = [m \in 1 .. Cardinality(X) |-> At(m)]
  <2> DEFINE There(m) == CHOOSE i \in X : S!Cardinality({j \in X : <<j, i>> \in R}) = m - 1
  <2>1. ASSUME NEW m
        PROVE  There(m) = At(m)
    <3>1. \A i : S!Cardinality({j \in X : <<j, i>> \in R}) = Cardinality(Before(X, R, i))
      BY CountIs DEF Before
    <3> QED
      BY <3>1
  <2>2. S!Ranked(X, R) = [m \in 1 .. S!Cardinality(X) |-> There(m)]
    BY DEF S!Ranked
  <2> HIDE DEF There, At
  <2> QED
    BY <2>1, <2>2, CountIs
<1>3. \A m \in 1 .. Cardinality(X) : At(m) \in X /\ Cardinality(Before(X, R, At(m))) = m - 1
  BY RanksAre
<1> HIDE DEF At
<1>4. \A m \in 1 .. Cardinality(X) :
        S!Sorted(X, R)[m] \in X /\ Cardinality(Before(X, R, S!Sorted(X, R)[m])) = m - 1
  BY <1>1, <1>2, <1>3
<1> QED
  BY <1>1, <1>2, <1>4, FS_CardinalityType DEF At

\* Sets whose elements correspond, in orders that do, correspond place by place.
LEMMA SortedAlike ==
    ASSUME NEW X, IsFiniteSet(X), NEW Q, OrdersAll(X, Q), NEW Y, NEW R,
           NEW f \in Bijection(X, Y),
           \A i, j \in X : <<i, j>> \in Q <=> <<f[i], f[j]>> \in R
    PROVE  /\ DOMAIN S!Sorted(Y, R) = DOMAIN S!Sorted(X, Q)
           /\ \A m \in DOMAIN S!Sorted(X, Q) : S!Sorted(Y, R)[m] = f[S!Sorted(X, Q)[m]]
<1>1. /\ f \in [X -> Y]
      /\ \A y \in Y : \E i \in X : f[i] = y
      /\ \A i, j \in X : f[i] = f[j] => i = j
  BY DEF Bijection, Injection, Surjection, IsInjective
<1>2. IsFiniteSet(Y) /\ Cardinality(Y) = Cardinality(X)
  BY FS_Bijection DEF ExistsBijection
<1>3. OrdersAll(Y, R)
  <2>1. ASSUME NEW y \in Y
        PROVE  <<y, y>> \notin R
    <3>1. PICK i \in X : f[i] = y
      BY <1>1
    <3> QED
      BY <3>1 DEF OrdersAll
  <2>2. ASSUME NEW x \in Y, NEW y \in Y, NEW z \in Y, <<x, y>> \in R, <<y, z>> \in R
        PROVE  <<x, z>> \in R
    <3>1. PICK i \in X, j \in X, k \in X : f[i] = x /\ f[j] = y /\ f[k] = z
      BY <1>1
    <3>2. <<i, j>> \in Q /\ <<j, k>> \in Q
      BY <2>2, <3>1
    <3> QED
      BY <3>1, <3>2 DEF OrdersAll
  <2>3. ASSUME NEW x \in Y, NEW y \in Y, x # y
        PROVE  <<x, y>> \in R \/ <<y, x>> \in R
    <3>1. PICK i \in X, j \in X : f[i] = x /\ f[j] = y
      BY <1>1
    <3> QED
      BY <2>3, <3>1 DEF OrdersAll
  <2> QED
    BY <2>1, <2>2, <2>3 DEF OrdersAll
<1>4. ASSUME NEW i \in X
      PROVE  Cardinality(Before(Y, R, f[i])) = Cardinality(Before(X, Q, i))
  <2> DEFINE b == Before(X, Q, i)
             c == Before(Y, R, f[i])
             g == [j \in b |-> f[j]]
  <2>1. b \subseteq X /\ \A j \in b : f[j] \in c
    BY <1>1 DEF Before
  <2>2. \A y \in c : \E j \in b : f[j] = y
    BY <1>1 DEF Before
  <2>3. IsFiniteSet(b)
    BY RanksAre
  <2> HIDE DEF b, c
  <2>4. g \in Bijection(b, c)
    BY <1>1, <2>1, <2>2 DEF Bijection, Injection, Surjection, IsInjective
  <2>5. Cardinality(c) = Cardinality(b)
    BY <2>3, <2>4, FS_Bijection DEF ExistsBijection
  <2> QED
    BY <2>5 DEF b, c
<1>5. DOMAIN S!Sorted(Y, R) = 1 .. Cardinality(X) /\ DOMAIN S!Sorted(X, Q) = 1 .. Cardinality(X)
  BY <1>2, <1>3, SortedIs
<1>6. ASSUME NEW m \in 1 .. Cardinality(X)
      PROVE  S!Sorted(Y, R)[m] = f[S!Sorted(X, Q)[m]]
  <2> DEFINE i == S!Sorted(X, Q)[m]
             y == S!Sorted(Y, R)[m]
  <2>1. i \in X /\ Cardinality(Before(X, Q, i)) = m - 1
    BY SortedIs
  <2>2. y \in Y /\ Cardinality(Before(Y, R, y)) = m - 1
    BY <1>2, <1>3, SortedIs
  <2> HIDE DEF i, y
  <2>3. Cardinality(Before(Y, R, f[i])) = m - 1 /\ f[i] \in Y
    BY <1>1, <1>4, <2>1
  <2>4. y = f[i]
    BY <1>2, <1>3, <2>2, <2>3, RanksAre
  <2> QED
    BY <2>4 DEF i, y
<1> QED
  BY <1>5, <1>6

\* A row of the table, and what it holds.
IsStored(row) ==
    /\ row = [body |-> row.body, unread |-> row.unread, at |-> row.at]
    /\ S!IsNote(row.body)

\* What a viewer's fake holds: distinct threads, and the later of equals first.
IsInbox(rows) ==
    /\ \E n \in Nat : DOMAIN rows = 1 .. n
    /\ \A i \in DOMAIN rows : S!IsNote(rows[i])
    /\ \A i, j \in DOMAIN rows : rows[i].id = rows[j].id => i = j
    /\ \A i, j \in DOMAIN rows : i < j /\ rows[i].at = rows[j].at => rows[i].id > rows[j].id

\* The table has a viewer's rows, and of that viewer no other.
Mirrors(viewer, rows) ==
    /\ \A i \in DOMAIN rows :
          LET k == <<rows[i].id, viewer>> IN
          /\ k \in DOMAIN table
          /\ S!Row(table[k]) = rows[i]
          /\ table[k].at = rows[i].at /\ table[k].unread = rows[i].unread
    /\ \A k \in DOMAIN table : k[2] = viewer => \E i \in DOMAIN rows : k = <<rows[i].id, viewer>>

InboxesAgree ==
    /\ DOMAIN fakes = Viewers
    /\ \A k \in DOMAIN table : k = <<k[1], k[2]>> /\ IsStored(table[k])
    /\ \A viewer \in Viewers : IsInbox(fakes[viewer]) /\ Mirrors(viewer, fakes[viewer])

\* A page is an inbox.
LEMMA PageIs ==
    ASSUME S!TiesAreInOrder, NEW page \in Pages
    PROVE  IsInbox(page)
<1>1. /\ page \in Seq(S!Range(page))
      /\ \A i, j \in DOMAIN page : page[i].id = page[j].id => i = j
      /\ \A n \in S!Range(page) : S!IsNote(n)
  BY EdgesAssumption DEF S!StoresAssumption
<1>2. DOMAIN page = 1 .. Len(page) /\ Len(page) \in Nat
  BY <1>1
<1>3. \A i \in DOMAIN page : S!IsNote(page[i])
  BY <1>1 DEF S!Range
<1> QED
  BY <1>1, <1>2, <1>3 DEF IsInbox, S!TiesAreInOrder

\* A note marked is a note, and a mark lasts until the next.
LEMMA MarkIs ==
    ASSUME NEW n, S!IsNote(n), NEW unread
    PROVE  LET m == [n EXCEPT !.unread = unread] IN
           /\ S!IsNote(m)
           /\ m.id = n.id /\ m.at = n.at /\ m.unread = unread
           /\ \A again : [m EXCEPT !.unread = again] = [n EXCEPT !.unread = again]
<1> DEFINE Marked(u) == [id |-> n.id, unread |-> u, reason |-> n.reason, repo |-> n.repo,
                         kind |-> n.kind, words |-> n.words, at |-> n.at]
           m == [n EXCEPT !.unread = unread]
<1>1. n = Marked(n.unread) /\ n.id \in Int /\ n.at \in Int
  BY DEF S!IsNote
<1>2. ASSUME NEW v, NEW u
      PROVE  [Marked(v) EXCEPT !.unread = u] = Marked(u)
  OBVIOUS
<1>3. \A u : [n EXCEPT !.unread = u] = Marked(u)
  BY <1>1, <1>2
<1>4. m = Marked(unread) /\ \A u : [m EXCEPT !.unread = u] = Marked(u)
  BY <1>2, <1>3
<1>5. /\ Marked(unread).id = n.id /\ Marked(unread).at = n.at
      /\ Marked(unread).unread = unread
      /\ S!IsNote(Marked(unread))
  BY <1>1 DEF S!IsNote
<1> HIDE DEF m
<1> QED
  BY <1>3, <1>4, <1>5 DEF m

LEMMA StoredIs ==
    ASSUME NEW row, IsStored(row), NEW unread
    PROVE  LET marked == [row EXCEPT !.unread = unread] IN
           /\ IsStored(marked)
           /\ marked.body = row.body /\ marked.at = row.at /\ marked.unread = unread
           /\ S!Row(marked) = [row.body EXCEPT !.unread = unread]
           /\ S!Row(row) = [row.body EXCEPT !.unread = row.unread]
BY DEF IsStored, S!Row

LEMMA PutInboxAgrees ==
    ASSUME S!TiesAreInOrder, InboxesAgree, S!PutInbox
    PROVE  InboxesAgree'
<1>1. PICK viewer \in Viewers, page \in Pages :
        /\ fakes[viewer] = <<>>
        /\ table' = S!PutNotifications(viewer, page)
        /\ fakes' = [fakes EXCEPT ![viewer] = page]
  BY DEF S!PutInbox
<1> DEFINE keys == {<<n.id, viewer>> : n \in S!Range(page)}
           landed == [k \in keys |-> LET n == CHOOSE n \in S!Range(page) : n.id = k[1]
                                     IN [body |-> n, unread |-> n.unread, at |-> n.at]]
<1>2. IsInbox(page)
  BY PageIs
<1>3. ASSUME NEW i \in DOMAIN page
      PROVE  /\ <<page[i].id, viewer>> \in keys
             /\ landed[<<page[i].id, viewer>>] =
                    [body |-> page[i], unread |-> page[i].unread, at |-> page[i].at]
  <2> DEFINE k == <<page[i].id, viewer>>
  <2>1. page[i] \in S!Range(page) /\ k \in keys
    BY DEF S!Range
  <2>2. \A n \in S!Range(page) : n.id = page[i].id => n = page[i]
    BY <1>2 DEF IsInbox, S!Range
  <2>3. (CHOOSE n \in S!Range(page) : n.id = k[1]) = page[i]
    BY <2>1, <2>2
  <2> QED
    BY <2>1, <2>3
<1>4. \A k \in keys : \E i \in DOMAIN page : k = <<page[i].id, viewer>>
  BY DEF S!Range
<1>5. table' = [k \in DOMAIN table \cup DOMAIN landed |->
                  IF k \in DOMAIN landed THEN landed[k] ELSE table[k]]
  BY <1>1 DEF S!PutNotifications, S!Upsert
<1>6. DOMAIN landed = keys
  OBVIOUS
<1> HIDE DEF keys, landed
<1>7. /\ DOMAIN table' = DOMAIN table \cup keys
      /\ \A k \in keys : table'[k] = landed[k]
      /\ \A k \in DOMAIN table \ keys : table'[k] = table[k]
  BY <1>5, <1>6
<1>8. ASSUME NEW k \in DOMAIN table'
      PROVE  k = <<k[1], k[2]>> /\ IsStored(table'[k])
  <2>1. CASE k \in keys
    <3>1. PICK i \in DOMAIN page : k = <<page[i].id, viewer>>
      BY <1>4, <2>1
    <3>2. table'[k] = [body |-> page[i], unread |-> page[i].unread, at |-> page[i].at]
      BY <1>3, <1>7, <2>1, <3>1
    <3> QED
      BY <1>2, <3>1, <3>2 DEF IsStored, IsInbox
  <2>2. CASE k \notin keys
    BY <1>7, <2>2 DEF InboxesAgree
  <2> QED
    BY <2>1, <2>2
<1>9. Mirrors(viewer, page)'
  <2>1. ASSUME NEW i \in DOMAIN page
        PROVE  LET k == <<page[i].id, viewer>> IN
               /\ k \in DOMAIN table'
               /\ S!Row(table'[k]) = page[i]
               /\ table'[k].at = page[i].at /\ table'[k].unread = page[i].unread
    <3> DEFINE k == <<page[i].id, viewer>>
    <3>1. k \in DOMAIN table'
          /\ table'[k] = [body |-> page[i], unread |-> page[i].unread, at |-> page[i].at]
      BY <1>3, <1>7
    <3>2. [page[i] EXCEPT !.unread = page[i].unread] = page[i]
      BY <1>2 DEF IsInbox, S!IsNote
    <3> HIDE DEF k
    <3>3. S!Row(table'[k]) = page[i] /\ table'[k].at = page[i].at
          /\ table'[k].unread = page[i].unread
      BY <3>1, <3>2 DEF S!Row
    <3> QED
      BY <3>1, <3>3 DEF k
  <2>2. ASSUME NEW k \in DOMAIN table', k[2] = viewer
        PROVE  \E i \in DOMAIN page : k = <<page[i].id, viewer>>
    <3>1. k \notin DOMAIN table
      BY <1>1, <2>2 DEF InboxesAgree, Mirrors
    <3> QED
      BY <1>4, <1>7, <3>1
  <2> QED
    BY <2>1, <2>2 DEF Mirrors, S!Row
<1>10. ASSUME NEW v \in Viewers, v # viewer
       PROVE  Mirrors(v, fakes[v])'
  <2>1. fakes'[v] = fakes[v] /\ Mirrors(v, fakes[v])
    BY <1>1, <1>10 DEF InboxesAgree
  <2>2. \A k \in keys : k[2] = viewer
    BY <1>4
  <2>3. ASSUME NEW i \in DOMAIN fakes[v]
        PROVE  <<fakes[v][i].id, v>> \in DOMAIN table \ keys
    <3>1. <<fakes[v][i].id, v>>[2] = v
      OBVIOUS
    <3> QED
      BY <1>10, <2>1, <2>2, <3>1 DEF Mirrors
  <2>4. \A k \in DOMAIN table' : k[2] = v => k \in DOMAIN table
    BY <1>7, <1>10, <2>2
  <2>5. \A i \in DOMAIN fakes[v] : LET k == <<fakes[v][i].id, v>> IN
          k \in DOMAIN table' /\ table'[k] = table[k]
    BY <1>7, <2>3
  <2>6. \A i \in DOMAIN fakes[v] : LET k == <<fakes[v][i].id, v>> IN
          /\ S!Row(table'[k]) = fakes[v][i]
          /\ table'[k].at = fakes[v][i].at /\ table'[k].unread = fakes[v][i].unread
    BY <2>1, <2>5 DEF Mirrors
  <2>7. \A k \in DOMAIN table' : k[2] = v => \E i \in DOMAIN fakes[v] : k = <<fakes[v][i].id, v>>
    BY <2>1, <2>4 DEF Mirrors
  <2> QED
    BY <2>1, <2>5, <2>6, <2>7 DEF Mirrors, S!Row
<1>11. /\ DOMAIN fakes' = Viewers /\ fakes'[viewer] = page
       /\ \A v \in Viewers : v # viewer => fakes'[v] = fakes[v]
  BY <1>1 DEF InboxesAgree
<1>12. \A v \in Viewers : IsInbox(fakes[v])'
  BY <1>2, <1>11 DEF InboxesAgree, IsInbox
<1>13. \A v \in Viewers : Mirrors(v, fakes[v])'
  <2>1. Mirrors(viewer, fakes[viewer])'
    BY <1>9, <1>11 DEF Mirrors
  <2> QED
    BY <1>10, <2>1
<1> QED
  BY <1>8, <1>11, <1>12, <1>13 DEF InboxesAgree, IsStored

\* A table with the same rows by the same keys mirrors what it mirrored.
LEMMA SameRowsAgree ==
    ASSUME InboxesAgree, fakes' = fakes, DOMAIN table' = DOMAIN table,
           \A k \in DOMAIN table : table'[k] = table[k]
    PROVE  InboxesAgree'
<1>1. ASSUME NEW v \in Viewers
      PROVE  (IsInbox(fakes[v]) /\ Mirrors(v, fakes[v]))'
  <2>1. IsInbox(fakes[v]) /\ Mirrors(v, fakes[v])
    BY DEF InboxesAgree
  <2>2. \A i \in DOMAIN fakes[v] : LET k == <<fakes[v][i].id, v>> IN
          k \in DOMAIN table' /\ table'[k] = table[k]
    BY <2>1 DEF Mirrors
  <2>3. \A i \in DOMAIN fakes[v] : LET k == <<fakes[v][i].id, v>> IN
          /\ S!Row(table'[k]) = fakes[v][i]
          /\ table'[k].at = fakes[v][i].at /\ table'[k].unread = fakes[v][i].unread
    BY <2>1, <2>2 DEF Mirrors
  <2>4. \A k \in DOMAIN table' : k[2] = v => \E i \in DOMAIN fakes[v] : k = <<fakes[v][i].id, v>>
    BY <2>1 DEF Mirrors
  <2>5. Mirrors(v, fakes[v])'
    BY <2>2, <2>3, <2>4 DEF Mirrors, S!Row
  <2> QED
    BY <2>1, <2>5 DEF IsInbox
<1>2. \A k \in DOMAIN table' : k = <<k[1], k[2]>> /\ IsStored(table'[k])
  BY DEF InboxesAgree
<1> QED
  BY <1>1, <1>2 DEF InboxesAgree, IsStored

LEMMA SetReadStateAgrees ==
    ASSUME InboxesAgree, S!SetReadState
    PROVE  InboxesAgree'
<1>1. PICK viewer \in Viewers, ids \in SUBSET S!NoteIds, unread \in BOOLEAN, sent \in BOOLEAN :
        /\ table' = IF sent THEN S!SetUnread(viewer, ids, unread)
                    ELSE S!Restored(S!SetUnread(viewer, ids, unread), S!UnreadFlags(viewer, ids))
        /\ fakes' = IF sent THEN [fakes EXCEPT ![viewer] = S!FakeMarked(@, ids, unread)]
                    ELSE fakes
  BY DEF S!SetReadState
<1> DEFINE written == S!SetUnread(viewer, ids, unread)
           flags == S!UnreadFlags(viewer, ids)
           marked == ids \X {viewer}
<1>2. /\ DOMAIN written = DOMAIN table
      /\ \A k \in DOMAIN table :
            written[k] = IF k \in marked THEN [table[k] EXCEPT !.unread = unread] ELSE table[k]
  BY DEF S!SetUnread
<1>3. /\ DOMAIN flags = DOMAIN table \cap marked
      /\ \A k \in DOMAIN flags : flags[k] = table[k].unread
  BY DEF S!UnreadFlags
<1>4. \A k \in DOMAIN table : k = <<k[1], k[2]>> /\ IsStored(table[k])
  BY DEF InboxesAgree
<1> HIDE DEF written, flags
<1>5. CASE ~sent
  <2>1. /\ DOMAIN table' = DOMAIN table
        /\ \A k \in DOMAIN table :
              table'[k] = IF k \in DOMAIN flags THEN [written[k] EXCEPT !.unread = flags[k]]
                          ELSE written[k]
    BY <1>1, <1>2, <1>5 DEF S!Restored, written, flags
  <2>2. ASSUME NEW k \in DOMAIN table
        PROVE  table'[k] = table[k]
    <3>1. CASE k \in marked
      <4>1. k \in DOMAIN flags /\ flags[k] = table[k].unread
        BY <1>3, <3>1
      <4>2. table'[k] = [[table[k] EXCEPT !.unread = unread] EXCEPT !.unread = table[k].unread]
        BY <1>2, <2>1, <3>1, <4>1
      <4> DEFINE row == table[k]
      <4>3. row = [body |-> row.body, unread |-> row.unread, at |-> row.at]
        BY <1>4 DEF IsStored
      <4> HIDE DEF row
      <4>4. [[row EXCEPT !.unread = unread] EXCEPT !.unread = row.unread] = row
        BY <4>3
      <4> QED
        BY <4>2, <4>4 DEF row
    <3>2. CASE k \notin marked
      BY <1>2, <1>3, <2>1, <3>2
    <3> QED
      BY <3>1, <3>2
  <2> QED
    BY <1>1, <1>5, <2>1, <2>2, SameRowsAgree
<1>6. CASE sent
  <2> DEFINE rows == fakes[viewer]
  <2>1. /\ DOMAIN table' = DOMAIN table
        /\ \A k \in DOMAIN table :
              table'[k] = IF k \in marked THEN [table[k] EXCEPT !.unread = unread] ELSE table[k]
    BY <1>1, <1>2, <1>6 DEF written
  <2>2. /\ DOMAIN fakes' = Viewers
        /\ \A v \in Viewers : v # viewer => fakes'[v] = fakes[v]
        /\ fakes'[viewer] = [i \in DOMAIN rows |->
                               IF rows[i].id \in ids
                               THEN [rows[i] EXCEPT !.unread = unread] ELSE rows[i]]
    BY <1>1, <1>6 DEF S!FakeMarked, InboxesAgree
  <2>3. IsInbox(rows) /\ Mirrors(viewer, rows)
    BY DEF InboxesAgree
  <2>4. ASSUME NEW i \in DOMAIN rows
        PROVE  /\ S!IsNote(fakes'[viewer][i])
               /\ fakes'[viewer][i].id = rows[i].id /\ fakes'[viewer][i].at = rows[i].at
    <3> DEFINE n == rows[i]
    <3>1. S!IsNote(n)
      BY <2>3 DEF IsInbox
    <3>2. fakes'[viewer][i] = IF n.id \in ids THEN [n EXCEPT !.unread = unread] ELSE n
      BY <2>2
    <3> HIDE DEF n
    <3>3. LET m == [n EXCEPT !.unread = unread] IN S!IsNote(m) /\ m.id = n.id /\ m.at = n.at
      BY <3>1, MarkIs
    <3> QED
      BY <3>1, <3>2, <3>3 DEF n
  <2>5. ASSUME NEW i \in DOMAIN rows
        PROVE  LET k == <<rows[i].id, viewer>> IN
               /\ k \in DOMAIN table'
               /\ S!Row(table'[k]) = fakes'[viewer][i]
               /\ table'[k].at = rows[i].at /\ table'[k].unread = fakes'[viewer][i].unread
    <3> DEFINE k == <<rows[i].id, viewer>>
               row == table[k]
               n == rows[i]
    <3>1. /\ k \in DOMAIN table /\ IsStored(row) /\ S!IsNote(row.body)
          /\ S!Row(row) = n /\ row.at = n.at /\ row.unread = n.unread
      BY <1>4, <2>3 DEF Mirrors, IsStored
    <3>2. k \in marked <=> n.id \in ids
      OBVIOUS
    <3>3. k \in DOMAIN table' /\ table'[k] = IF n.id \in ids THEN [row EXCEPT !.unread = unread] ELSE row
      BY <2>1, <3>1, <3>2
    <3>4. fakes'[viewer][i] = IF n.id \in ids THEN [n EXCEPT !.unread = unread] ELSE n
      BY <2>2
    <3>5. S!IsNote(n)
      BY <2>3 DEF IsInbox
    <3> HIDE DEF k, row, n
    <3>6. n = [row.body EXCEPT !.unread = row.unread]
      BY <3>1, StoredIs
    <3>7. [n EXCEPT !.unread = unread] = [row.body EXCEPT !.unread = unread]
      BY <3>1, <3>6, MarkIs
    <3>8. LET marking == [row EXCEPT !.unread = unread] IN
          /\ marking.at = row.at /\ marking.unread = unread
          /\ S!Row(marking) = [row.body EXCEPT !.unread = unread]
      BY <3>1, StoredIs
    <3>9. [n EXCEPT !.unread = unread].unread = unread
      BY <3>5, MarkIs
    <3>10. CASE n.id \in ids
      <4>1. table'[k] = [row EXCEPT !.unread = unread]
            /\ fakes'[viewer][i] = [n EXCEPT !.unread = unread]
        BY <3>3, <3>4, <3>10
      <4>2. /\ S!Row(table'[k]) = fakes'[viewer][i]
            /\ table'[k].at = n.at /\ table'[k].unread = fakes'[viewer][i].unread
        BY <3>1, <3>7, <3>8, <3>9, <4>1
      <4> QED
        BY <3>3, <4>2 DEF k, n
    <3>11. CASE n.id \notin ids
      <4>1. table'[k] = row /\ fakes'[viewer][i] = n
        BY <3>3, <3>4, <3>11
      <4> QED
        BY <3>1, <3>3, <4>1 DEF k, n
    <3> QED
      BY <3>10, <3>11
  <2>6. (IsInbox(fakes[viewer]) /\ Mirrors(viewer, fakes[viewer]))'
    <3>1. DOMAIN fakes'[viewer] = DOMAIN rows
      BY <2>2
    <3>2. IsInbox(fakes[viewer])'
      BY <2>3, <2>4, <3>1 DEF IsInbox
    <3>3. \A k \in DOMAIN table' : k[2] = viewer => \E i \in DOMAIN rows : k = <<rows[i].id, viewer>>
      BY <2>1, <2>3 DEF Mirrors
    <3>4. Mirrors(viewer, fakes[viewer])'
      <4>1. \A i \in DOMAIN fakes'[viewer] : LET k == <<fakes'[viewer][i].id, viewer>> IN
              /\ k \in DOMAIN table'
              /\ S!Row(table'[k]) = fakes'[viewer][i]
              /\ table'[k].at = fakes'[viewer][i].at
              /\ table'[k].unread = fakes'[viewer][i].unread
        BY <2>4, <2>5, <3>1
      <4>2. \A k \in DOMAIN table' : k[2] = viewer =>
              \E i \in DOMAIN fakes'[viewer] : k = <<fakes'[viewer][i].id, viewer>>
        BY <2>4, <3>1, <3>3
      <4> HIDE DEF rows
      <4> QED
        BY <4>1, <4>2 DEF Mirrors, S!Row
    <3> QED
      BY <3>2, <3>4
  <2>7. ASSUME NEW v \in Viewers, v # viewer
        PROVE  (IsInbox(fakes[v]) /\ Mirrors(v, fakes[v]))'
    <3>1. fakes'[v] = fakes[v] /\ IsInbox(fakes[v]) /\ Mirrors(v, fakes[v])
      BY <2>2, <2>7 DEF InboxesAgree
    <3>2. \A i \in DOMAIN fakes[v] : LET k == <<fakes[v][i].id, v>> IN
            k \in DOMAIN table' /\ table'[k] = table[k]
      BY <2>1, <2>7, <3>1 DEF Mirrors
    <3>3. \A i \in DOMAIN fakes[v] : LET k == <<fakes[v][i].id, v>> IN
            /\ S!Row(table'[k]) = fakes[v][i]
            /\ table'[k].at = fakes[v][i].at /\ table'[k].unread = fakes[v][i].unread
      BY <3>1, <3>2 DEF Mirrors
    <3>4. \A k \in DOMAIN table' : k[2] = v => \E i \in DOMAIN fakes[v] : k = <<fakes[v][i].id, v>>
      BY <2>1, <3>1 DEF Mirrors
    <3>5. Mirrors(v, fakes[v])'
      BY <3>1, <3>2, <3>3, <3>4 DEF Mirrors, S!Row
    <3> QED
      BY <3>1, <3>5 DEF IsInbox
  <2>8. \A k \in DOMAIN table' : k = <<k[1], k[2]>> /\ IsStored(table'[k])
    <3> SUFFICES ASSUME NEW k \in DOMAIN table' PROVE k = <<k[1], k[2]>> /\ IsStored(table'[k])
      OBVIOUS
    <3>1. IsStored(table[k]) /\ IsStored([table[k] EXCEPT !.unread = unread])
      BY <1>4, <2>1, StoredIs
    <3> QED
      BY <1>4, <2>1, <3>1
  <2> QED
    BY <2>2, <2>6, <2>7, <2>8 DEF InboxesAgree, IsStored
<1> QED
  BY <1>5, <1>6

\* The cache's keys and the fake's places are the same rows, in the same order.
LEMMA SameNotes ==
    ASSUME InboxesAgree, NEW viewer \in Viewers, NEW q
    PROVE  S!SqliteNotifications(viewer, q).items = S!FakeNotifications(viewer, q).items
<1> DEFINE rows == fakes[viewer]
           places == {i \in DOMAIN rows : S!FakeMatches(rows[i], q)}
           keys == {k \in DOMAIN table : /\ k[2] = viewer
                                         /\ q.unreadOnly => table[k].unread
                                         /\ S!Matches(S!Row(table[k]), q)}
           Q == {r \in places \X places :
                   \/ rows[r[1]].at > rows[r[2]].at
                   \/ rows[r[1]].at = rows[r[2]].at /\ -r[1] > -r[2]}
           R == {r \in keys \X keys :
                   \/ table[r[1]].at > table[r[2]].at
                   \/ table[r[1]].at = table[r[2]].at /\ r[1][1] > r[2][1]}
           f == [i \in places |-> <<rows[i].id, viewer>>]
           order == S!Sorted(places, Q)
           ranked == S!Sorted(keys, R)
<1>1. IsInbox(rows) /\ Mirrors(viewer, rows)
  BY DEF InboxesAgree
<1>2. PICK n \in Nat : DOMAIN rows = 1 .. n
  BY <1>1 DEF IsInbox
<1>3. /\ IsFiniteSet(places)
      /\ \A i \in places : rows[i].at \in Int /\ rows[i].id \in Int /\ i \in Int
  <2>1. IsFiniteSet(1 .. n) /\ places \subseteq 1 .. n
    BY <1>2, FS_Interval
  <2>2. \A i \in places : rows[i].at \in Int /\ rows[i].id \in Int
    BY <1>1 DEF IsInbox, S!IsNote
  <2> HIDE DEF places, rows
  <2>3. IsFiniteSet(places)
    BY <2>1, FS_Subset
  <2>4. \A i \in places : i \in Int
    BY <2>1
  <2> QED
    BY <2>2, <2>3, <2>4
<1>4. OrdersAll(places, Q)
  <2> HIDE DEF places, rows
  <2> QED
    BY <1>3 DEF OrdersAll
<1>5. ASSUME NEW i \in DOMAIN rows
      PROVE  LET k == <<rows[i].id, viewer>> IN
             /\ k \in keys <=> i \in places
             /\ S!Row(table[k]) = rows[i] /\ table[k].at = rows[i].at
  <2> DEFINE k == <<rows[i].id, viewer>>
  <2>1. /\ k \in DOMAIN table /\ k[2] = viewer
        /\ S!Row(table[k]) = rows[i]
        /\ table[k].at = rows[i].at /\ table[k].unread = rows[i].unread
    BY <1>1 DEF Mirrors
  <2>2. S!Matches(rows[i], q) => (q.unreadOnly => rows[i].unread)
    BY DEF S!Matches
  <2> QED
    BY <2>1, <2>2 DEF S!FakeMatches
<1>6. f \in Bijection(places, keys)
  <2>1. \A i \in places : f[i] \in keys
    BY <1>5
  <2>2. \A k \in keys : \E i \in places : f[i] = k
    BY <1>1, <1>5 DEF Mirrors
  <2>3. \A i, j \in places : f[i] = f[j] => i = j
    BY <1>1 DEF IsInbox
  <2> HIDE DEF keys, places
  <2> QED
    BY <2>1, <2>2, <2>3 DEF Bijection, Injection, Surjection, IsInjective
<1>7. ASSUME NEW i \in places, NEW j \in places
      PROVE  <<i, j>> \in Q <=> <<f[i], f[j]>> \in R
  <2>1. /\ f[i] \in keys /\ f[j] \in keys
        /\ table[f[i]].at = rows[i].at /\ table[f[j]].at = rows[j].at
        /\ f[i][1] = rows[i].id /\ f[j][1] = rows[j].id
    BY <1>5
  <2>2. /\ rows[i].at = rows[j].at /\ i < j => rows[i].id > rows[j].id
        /\ rows[i].at = rows[j].at /\ j < i => rows[j].id > rows[i].id
    BY <1>1 DEF IsInbox
  <2> HIDE DEF keys, places, rows, f
  <2>3. <<i, j>> \in Q <=> \/ rows[i].at > rows[j].at
                           \/ rows[i].at = rows[j].at /\ i < j
    BY <1>3
  <2>4. <<f[i], f[j]>> \in R <=> \/ rows[i].at > rows[j].at
                                 \/ rows[i].at = rows[j].at /\ rows[i].id > rows[j].id
    BY <2>1
  <2>5. i = j \/ i < j \/ j < i
    BY <1>3
  <2> QED
    BY <1>3, <2>2, <2>3, <2>4, <2>5
<1> HIDE DEF f, Q, R
<1>8. /\ DOMAIN ranked = DOMAIN order
      /\ \A m \in DOMAIN order : ranked[m] = f[order[m]] /\ order[m] \in places
  <2> HIDE DEF places, keys
  <2>1. /\ DOMAIN order = 1 .. Cardinality(places)
        /\ \A m \in DOMAIN order : order[m] \in places
    BY <1>3, <1>4, SortedIs
  <2>2. \A i, j \in places : <<i, j>> \in Q <=> <<f[i], f[j]>> \in R
    BY <1>7
  <2>3. /\ DOMAIN ranked = DOMAIN order
        /\ \A m \in DOMAIN order : ranked[m] = f[order[m]]
    BY <1>3, <1>4, <1>6, <2>2, SortedAlike
  <2> QED
    BY <2>1, <2>3
<1>9. S!CachedNotifications(viewer, q) = [m \in DOMAIN ranked |-> S!Row(table[ranked[m]])]
  <2>1. S!NewestFirst(keys, [k \in keys |-> table[k].at], [k \in keys |-> k[1]]) = ranked
    <3>1. {r \in keys \X keys :
             \/ [k \in keys |-> table[k].at][r[1]] > [k \in keys |-> table[k].at][r[2]]
             \/ /\ [k \in keys |-> table[k].at][r[1]] = [k \in keys |-> table[k].at][r[2]]
                /\ [k \in keys |-> k[1]][r[1]] > [k \in keys |-> k[1]][r[2]]} = R
      <4> HIDE DEF keys
      <4> QED
        BY DEF R
    <3> QED
      BY <3>1 DEF S!NewestFirst
  <2> QED
    BY <2>1 DEF S!CachedNotifications
<1>10. S!FakeNotifications(viewer, q).items =
           S!Truncated([m \in DOMAIN order |-> rows[order[m]]], q.limit)
  <2>1. S!NewestFirst(places, [i \in places |-> rows[i].at], [i \in places |-> -i]) = order
    <3>1. {r \in places \X places :
             \/ [i \in places |-> rows[i].at][r[1]] > [i \in places |-> rows[i].at][r[2]]
             \/ /\ [i \in places |-> rows[i].at][r[1]] = [i \in places |-> rows[i].at][r[2]]
                /\ [i \in places |-> -i][r[1]] > [i \in places |-> -i][r[2]]} = Q
      <4> HIDE DEF places
      <4> QED
        BY DEF Q
    <3> QED
      BY <3>1 DEF S!NewestFirst
  <2> QED
    BY <2>1 DEF S!FakeNotifications
<1>11. [m \in DOMAIN ranked |-> S!Row(table[ranked[m]])] = [m \in DOMAIN order |-> rows[order[m]]]
  <2>1. \A m \in DOMAIN order : S!Row(table[ranked[m]]) = rows[order[m]]
    BY <1>5, <1>8 DEF f
  <2> HIDE DEF order, ranked
  <2> QED
    BY <1>8, <2>1
<1> QED
  BY <1>9, <1>10, <1>11 DEF S!SqliteNotifications

-----------------------------------------------------------------------------
\* A pull request in hand is the corpus's, and a list is what was fetched.
IdsOf(q) == [n \in DOMAIN S!FakePulls(q) |-> S!FakePulls(q)[n].id]

ListsAreKept ==
    /\ \A k \in DOMAIN entities : \E i \in DOMAIN Corpus :
          k[1] = Corpus[i].id /\ entities[k] = Corpus[i]
    /\ \A k \in DOMAIN members : \E q \in PullQueries, viewer \in Viewers :
          k = <<S!Effective(q), viewer>> /\ members[k] = IdsOf(q)

LEMMA CorpusIs ==
    /\ DOMAIN Corpus = 1 .. Len(Corpus) /\ Len(Corpus) \in Nat
    /\ \A i \in DOMAIN Corpus : Corpus[i].at \in Int
    /\ \A i, j \in DOMAIN Corpus : Corpus[i].id = Corpus[j].id => i = j
<1>1. /\ Corpus \in Seq(S!Range(Corpus))
      /\ \A i, j \in DOMAIN Corpus : Corpus[i].id = Corpus[j].id => i = j
      /\ \A pr \in S!Range(Corpus) : pr.at \in Int
  BY EdgesAssumption DEF S!StoresAssumption
<1>2. \A i \in DOMAIN Corpus : Corpus[i] \in S!Range(Corpus)
  BY DEF S!Range
<1> QED
  BY <1>1, <1>2

\* The fake's list: as many rows as match, each of them the corpus's.
LEMMA PullsAre ==
    ASSUME NEW q
    PROVE  LET pulls == S!FakePulls(q) IN
           /\ Cardinality(S!PullPlaces(q)) \in Nat
           /\ DOMAIN pulls = 1 .. Cardinality(S!PullPlaces(q))
           /\ Len(pulls) = Cardinality(S!PullPlaces(q))
           /\ \A m \in DOMAIN pulls : \E i \in DOMAIN Corpus : pulls[m] = Corpus[i]
<1> DEFINE places == S!PullPlaces(q)
           Q == {r \in places \X places :
                   \/ Corpus[r[1]].at > Corpus[r[2]].at
                   \/ Corpus[r[1]].at = Corpus[r[2]].at /\ -r[1] > -r[2]}
           order == S!Sorted(places, Q)
           pulls == [m \in DOMAIN order |-> Corpus[order[m]]]
<1>1. /\ IsFiniteSet(places) /\ places \subseteq DOMAIN Corpus
      /\ \A i \in places : Corpus[i].at \in Int /\ i \in Int
  <2>1. places \subseteq DOMAIN Corpus
    BY DEF S!PullPlaces
  <2> HIDE DEF places
  <2>2. IsFiniteSet(1 .. Len(Corpus)) /\ DOMAIN Corpus = 1 .. Len(Corpus)
    BY CorpusIs, FS_Interval
  <2>3. IsFiniteSet(places)
    BY <2>1, <2>2, FS_Subset
  <2> QED
    BY <2>1, <2>3, CorpusIs
<1>2. S!FakePulls(q) = pulls
  <2>1. S!NewestFirst(places, [i \in places |-> Corpus[i].at], [i \in places |-> -i]) = order
    <3>1. {r \in places \X places :
             \/ [i \in places |-> Corpus[i].at][r[1]] > [i \in places |-> Corpus[i].at][r[2]]
             \/ /\ [i \in places |-> Corpus[i].at][r[1]] = [i \in places |-> Corpus[i].at][r[2]]
                /\ [i \in places |-> -i][r[1]] > [i \in places |-> -i][r[2]]} = Q
      <4> HIDE DEF places
      <4> QED
        OBVIOUS
    <3> QED
      BY <3>1 DEF S!NewestFirst
  <2> QED
    BY <2>1 DEF S!FakePulls
<1> HIDE DEF places
<1>3. OrdersAll(places, Q)
  BY <1>1 DEF OrdersAll
<1> HIDE DEF Q
<1>4. /\ Cardinality(places) \in Nat /\ DOMAIN order = 1 .. Cardinality(places)
      /\ \A m \in DOMAIN order : order[m] \in places
  BY <1>1, <1>3, SortedIs
<1> HIDE DEF order
<1>5. DOMAIN pulls = 1 .. Cardinality(places) /\ Len(pulls) = Cardinality(places)
  <2> DEFINE T == {Corpus[order[m]] : m \in DOMAIN order}
  <2>1. pulls \in [1 .. Cardinality(places) -> T]
    BY <1>4
  <2> HIDE DEF pulls
  <2> QED
    BY <1>4, <2>1
<1>6. \A m \in DOMAIN pulls : \E i \in DOMAIN Corpus : pulls[m] = Corpus[i]
  BY <1>1, <1>4
<1> QED
  BY <1>2, <1>4, <1>5, <1>6 DEF places

\* A section counts the rows it opens.
LEMMA CountsItsRows ==
    ASSUME NEW viewer, NEW q \in PullQueries, S!IsPr \in S!Range(q)
    PROVE  S!CountFor(viewer, q) = Len(S!FakePulls(q))
<1>1. q \in Seq(S!Range(q))
  BY EdgesAssumption DEF S!StoresAssumption
<1>2. S!Contains(q, S!IsPr)
  BY <1>1 DEF S!Contains, S!Range
<1>3. S!CountFor(viewer, q) = S!Cardinality(S!PullPlaces(q))
  BY <1>2 DEF S!CountFor
<1> QED
  BY <1>3, CountIs, PullsAre

\* Two queries are one where one says what the other leaves to be understood.
LEMMA SameQuery ==
    ASSUME NEW p \in PullQueries, NEW q \in PullQueries
    PROVE  S!Effective(p) = S!Effective(q) <=>
               \/ p = q
               \/ p = <<S!IsPr>> \o q /\ S!IsPr \notin S!Range(q)
               \/ q = <<S!IsPr>> \o p /\ S!IsPr \notin S!Range(p)
<1> DEFINE x == S!IsPr
           U == S!Range(p) \cup S!Range(q) \cup {x}
<1>1. p \in Seq(U) /\ q \in Seq(U) /\ x \in U
  <2>1. p \in Seq(S!Range(p)) /\ q \in Seq(S!Range(q))
    BY EdgesAssumption DEF S!StoresAssumption
  <2> HIDE DEF x
  <2>2. \A X, Y : X \subseteq Y => Seq(X) \subseteq Seq(Y)
    OBVIOUS
  <2> QED
    BY <2>1, <2>2
<1>2. \A r \in {p, q} : S!Contains(r, x) <=> x \in S!Range(r)
  BY <1>1 DEF S!Contains, S!Range
<1>3. \A r \in {p, q} : S!Effective(r) = IF x \in S!Range(r) THEN r ELSE <<x>> \o r
  BY <1>2 DEF S!Effective
<1>4. \A r \in {p, q} : x \in S!Range(<<x>> \o r)
  <2> SUFFICES ASSUME NEW r \in {p, q} PROVE x \in S!Range(<<x>> \o r)
    OBVIOUS
  <2> HIDE DEF x, U
  <2>1. r \in Seq(U) /\ <<x>> \in Seq(U)
    BY <1>1
  <2>2. 1 \in DOMAIN (<<x>> \o r) /\ (<<x>> \o r)[1] = x
    BY <2>1
  <2> QED
    BY <2>2 DEF S!Range
<1>5. <<x>> \o p = <<x>> \o q => p = q
  <2> HIDE DEF x, U
  <2> SUFFICES ASSUME <<x>> \o p = <<x>> \o q PROVE p = q
    OBVIOUS
  <2>1. \A r \in Seq(U) : Len(<<x>> \o r) = Len(r) + 1
                          /\ \A i \in 1 .. Len(r) : (<<x>> \o r)[i + 1] = r[i]
    BY <1>1
  <2>2. Len(p) = Len(q)
    BY <1>1, <2>1
  <2>3. \A i \in 1 .. Len(p) : p[i] = q[i]
    BY <1>1, <2>1, <2>2
  <2> QED
    BY <1>1, <2>2, <2>3
<1> HIDE DEF x, U
<1>6. CASE x \in S!Range(p) /\ x \in S!Range(q)
  BY <1>3, <1>6 DEF x
<1>7. CASE x \notin S!Range(p) /\ x \notin S!Range(q)
  BY <1>3, <1>4, <1>5, <1>7 DEF x
<1>8. CASE x \in S!Range(p) /\ x \notin S!Range(q)
  BY <1>3, <1>4, <1>8 DEF x
<1>9. CASE x \notin S!Range(p) /\ x \in S!Range(q)
  BY <1>3, <1>4, <1>9 DEF x
<1> QED
  BY <1>6, <1>7, <1>8, <1>9

\* What of two lists of a length is kept at the same places is alike if the
\* lists are, place by place.
LEMMA ThoseAre ==
    ASSUME NEW n \in Nat, NEW places \in SUBSET (1 .. n)
    PROVE  \E order : /\ order \in [1 .. Cardinality(places) -> places]
                      /\ \A t : S!Those(t, places) = [m \in DOMAIN order |-> t[order[m]]]
<1> DEFINE before == {r \in places \X places : r[1] < r[2]}
           order == S!Sorted(places, before)
<1>1. IsFiniteSet(places)
  <2>1. IsFiniteSet(1 .. n)
    BY FS_Interval
  <2> QED
    BY <2>1, FS_Subset
<1>2. OrdersAll(places, before)
  BY DEF OrdersAll
<1>3. \A t : S!Those(t, places) = [m \in DOMAIN order |-> t[order[m]]]
  <2> SUFFICES ASSUME NEW t PROVE S!Those(t, places) = [m \in DOMAIN order |-> t[order[m]]]
    OBVIOUS
  <2>1. S!Those(t, places) = S!The({[m \in DOMAIN o |-> t[o[m]]] : o \in {order}})
    BY DEF S!Those
  <2> HIDE DEF order
  <2> QED
    BY <2>1 DEF S!The
<1> HIDE DEF before
<1>4. order \in [1 .. Cardinality(places) -> places]
  BY <1>1, <1>2, SortedIs
<1> QED
  BY <1>3, <1>4

\* What is known of a list is what was fetched for it.
LEMMA ListIs ==
    ASSUME ListsAreKept, NEW viewer \in Viewers, NEW q \in PullQueries
    PROVE  LET pulls == S!FakePulls(q)
               known == S!Those(pulls, {i \in DOMAIN pulls :
                                           <<pulls[i].id, viewer>> \in DOMAIN entities})
           IN S!SqlitePulls(viewer, q) = IF <<S!Effective(q), viewer>> \in DOMAIN members
                                         THEN known ELSE <<>>
<1> DEFINE pulls == S!FakePulls(q)
           places == {i \in DOMAIN pulls : <<pulls[i].id, viewer>> \in DOMAIN entities}
           key == <<S!Effective(q), viewer>>
<1>1. CASE key \in DOMAIN members
  <2>1. PICK p \in PullQueries : S!Effective(p) = S!Effective(q) /\ members[key] = IdsOf(p)
    BY <1>1 DEF ListsAreKept
  <2>2. S!FakePulls(p) = pulls
    BY <2>1 DEF S!FakePulls, S!PullPlaces, S!PrMatches
  <2> DEFINE ids == [n \in DOMAIN pulls |-> pulls[n].id]
  <2>3. members[key] = ids
    BY <2>1, <2>2 DEF IdsOf
  <2>4. {i \in DOMAIN ids : <<ids[i], viewer>> \in DOMAIN entities} = places
    OBVIOUS
  <2>5. S!SqlitePulls(viewer, q) =
          [n \in DOMAIN S!Those(ids, places) |-> entities[<<S!Those(ids, places)[n], viewer>>]]
    BY <1>1, <2>3, <2>4 DEF S!SqlitePulls
  <2>6. PICK order : /\ order \in [1 .. Cardinality(places) -> places]
                     /\ \A t : S!Those(t, places) = [m \in DOMAIN order |-> t[order[m]]]
    <3>1. DOMAIN pulls = 1 .. Cardinality(S!PullPlaces(q)) /\ Cardinality(S!PullPlaces(q)) \in Nat
      BY PullsAre
    <3>2. places \in SUBSET (1 .. Cardinality(S!PullPlaces(q)))
      BY <3>1
    <3> HIDE DEF places, pulls
    <3> QED
      BY <3>1, <3>2, ThoseAre
  <2>7. \A m \in DOMAIN order : order[m] \in places /\ ids[order[m]] = pulls[order[m]].id
    BY <2>6
  <2>8. ASSUME NEW i \in places
        PROVE  entities[<<pulls[i].id, viewer>>] = pulls[i]
    <3>1. PICK j \in DOMAIN Corpus : pulls[i] = Corpus[j]
      BY PullsAre
    <3>2. PICK l \in DOMAIN Corpus : pulls[i].id = Corpus[l].id
                                     /\ entities[<<pulls[i].id, viewer>>] = Corpus[l]
      BY DEF ListsAreKept
    <3> QED
      BY <3>1, <3>2, CorpusIs
  <2> HIDE DEF pulls, places, ids
  <2>9. S!Those(ids, places) = [m \in DOMAIN order |-> ids[order[m]]]
        /\ S!Those(pulls, places) = [m \in DOMAIN order |-> pulls[order[m]]]
    BY <2>6
  <2>10. S!SqlitePulls(viewer, q) = [m \in DOMAIN order |-> entities[<<ids[order[m]], viewer>>]]
    BY <2>5, <2>9
  <2>11. \A m \in DOMAIN order : entities[<<ids[order[m]], viewer>>] = pulls[order[m]]
    BY <2>7, <2>8
  <2>12. S!SqlitePulls(viewer, q) = S!Those(pulls, places)
    BY <2>9, <2>10, <2>11
  <2> QED
    BY <1>1, <2>12 DEF pulls, places
<1>2. CASE key \notin DOMAIN members
  <2> DEFINE none == {i \in DOMAIN << >> : <<(<< >>)[i], viewer>> \in DOMAIN entities}
  <2>1. S!SqlitePulls(viewer, q) =
          [n \in DOMAIN S!Those(<< >>, none) |-> entities[<<S!Those(<< >>, none)[n], viewer>>]]
    BY <1>2 DEF S!SqlitePulls
  <2>2. none = {}
    OBVIOUS
  <2>3. DOMAIN S!Those(<< >>, {}) = {}
    <3>1. PICK order : /\ order \in [1 .. Cardinality({}) -> {}]
                       /\ \A t : S!Those(t, {}) = [m \in DOMAIN order |-> t[order[m]]]
      BY ThoseAre
    <3>2. DOMAIN order = {}
      BY <3>1, FS_EmptySet
    <3> QED
      BY <3>1, <3>2
  <2>4. S!SqlitePulls(viewer, q) = << >>
    BY <2>1, <2>2, <2>3
  <2> QED
    BY <1>2, <2>4
<1> QED
  BY <1>1, <1>2

LEMMA ListsAreRight ==
    ASSUME ListsAreKept
    PROVE  S!ListsAreWhatWasFetched
<1> SUFFICES ASSUME NEW viewer \in Viewers, NEW q \in PullQueries
    PROVE  /\ S!IsPr \in S!Range(q) => S!CountFor(viewer, q) = Len(S!FakePulls(q))
           /\ LET pulls == S!FakePulls(q)
                  known == S!Those(pulls, {i \in DOMAIN pulls :
                                              <<pulls[i].id, viewer>> \in DOMAIN entities})
                  fetched == \E p \in PullQueries :
                                /\ <<S!Effective(p), viewer>> \in DOMAIN members
                                /\ \/ p = q
                                   \/ p = <<S!IsPr>> \o q /\ S!IsPr \notin S!Range(q)
                                   \/ q = <<S!IsPr>> \o p /\ S!IsPr \notin S!Range(p)
              IN S!SqlitePulls(viewer, q) = IF fetched THEN known ELSE <<>>
  BY DEF S!ListsAreWhatWasFetched
<1>1. <<S!Effective(q), viewer>> \in DOMAIN members <=>
        \E p \in PullQueries : /\ <<S!Effective(p), viewer>> \in DOMAIN members
                               /\ \/ p = q
                                  \/ p = <<S!IsPr>> \o q /\ S!IsPr \notin S!Range(q)
                                  \/ q = <<S!IsPr>> \o p /\ S!IsPr \notin S!Range(p)
  BY SameQuery
<1> QED
  BY <1>1, CountsItsRows, ListIs

LEMMA PutPullsKeeps ==
    ASSUME ListsAreKept, S!PutPulls
    PROVE  ListsAreKept'
<1>1. PICK viewer \in Viewers, q \in PullQueries :
        /\ entities' = S!Upsert(entities,
                          [k \in {<<pr.id, viewer>> : pr \in S!Range(S!FakePulls(q))} |->
                              CHOOSE pr \in S!Range(S!FakePulls(q)) : pr.id = k[1]])
        /\ members' = S!Upsert(members, [k \in {<<S!Effective(q), viewer>>} |-> IdsOf(q)])
  BY DEF S!PutPulls, IdsOf
<1> DEFINE all == S!Range(S!FakePulls(q))
           keys == {<<pr.id, viewer>> : pr \in all}
<1>2. ASSUME NEW k \in DOMAIN entities'
      PROVE  \E i \in DOMAIN Corpus : k[1] = Corpus[i].id /\ entities'[k] = Corpus[i]
  <2> DEFINE fetched == [x \in keys |-> CHOOSE pr \in all : pr.id = x[1]]
  <2>1. entities' = [x \in DOMAIN entities \cup keys |->
                       IF x \in keys THEN fetched[x] ELSE entities[x]]
    BY <1>1 DEF S!Upsert
  <2>2. CASE k \in keys
    <3>1. \E pr \in all : pr.id = k[1]
      BY <2>2
    <3> DEFINE pr == CHOOSE pr \in all : pr.id = k[1]
    <3>2. pr \in all /\ pr.id = k[1] /\ entities'[k] = pr
      BY <2>1, <2>2, <3>1
    <3> HIDE DEF pr
    <3>3. \E i \in DOMAIN Corpus : pr = Corpus[i]
      BY <3>2, PullsAre DEF S!Range
    <3> QED
      BY <3>2, <3>3
  <2>3. CASE k \notin keys
    BY <2>1, <2>3 DEF ListsAreKept
  <2> QED
    BY <2>2, <2>3
<1>3. ASSUME NEW k \in DOMAIN members'
      PROVE  \E p \in PullQueries, v \in Viewers :
                k = <<S!Effective(p), v>> /\ members'[k] = IdsOf(p)
  <2>1. members' = [x \in DOMAIN members \cup {<<S!Effective(q), viewer>>} |->
                      IF x = <<S!Effective(q), viewer>> THEN IdsOf(q) ELSE members[x]]
    BY <1>1 DEF S!Upsert
  <2> QED
    BY <2>1 DEF ListsAreKept
<1> QED
  BY <1>2, <1>3 DEF ListsAreKept, IdsOf, S!FakePulls, S!PullPlaces, S!PrMatches

LEMMA ForgetKeeps ==
    ASSUME ListsAreKept, S!Forget
    PROVE  ListsAreKept'
<1>1. PICK key \in DOMAIN entities : entities' = [k \in DOMAIN entities \ {key} |-> entities[k]]
  BY DEF S!Forget
<1>2. members' = members
  BY DEF S!Forget
<1>3. \A k \in DOMAIN entities' : \E i \in DOMAIN Corpus :
        k[1] = Corpus[i].id /\ entities'[k] = Corpus[i]
  BY <1>1 DEF ListsAreKept
<1> QED
  BY <1>2, <1>3 DEF ListsAreKept, IdsOf, S!FakePulls

\* What the stores hold, in a run of one part or the other.
StoresInv ==
    /\ part = "inboxes" => InboxesAgree
    /\ part = "lists" => ListsAreKept

LEMMA StoresStart == EdgesInit => StoresInv
<1> SUFFICES ASSUME EdgesInit PROVE StoresInv
  OBVIOUS
<1>1. /\ DOMAIN table = {} /\ DOMAIN entities = {} /\ DOMAIN members = {}
      /\ fakes = [v \in Viewers |-> << >>]
  BY DEF EdgesInit, S!StoreInit
<1>2. ListsAreKept
  BY <1>1 DEF ListsAreKept
<1>3. ASSUME NEW v \in Viewers
      PROVE  IsInbox(fakes[v]) /\ Mirrors(v, fakes[v])
  <2>1. DOMAIN fakes[v] = 1 .. 0 /\ 0 \in Nat
    BY <1>1
  <2> QED
    BY <1>1, <2>1 DEF IsInbox, Mirrors
<1>4. InboxesAgree
  BY <1>1, <1>3 DEF InboxesAgree
<1> QED
  BY <1>2, <1>4 DEF StoresInv

LEMMA StoresStep ==
    ASSUME S!TiesAreInOrder
    PROVE  StoresInv /\ [EdgesNext]_<<part, vars, cache, wire, stores>> => StoresInv'
<1>1. ASSUME StoresInv, UNCHANGED <<part, stores>>
      PROVE  StoresInv'
  <2>1. InboxesAgree => InboxesAgree'
    BY <1>1, SameRowsAgree DEF stores
  <2>2. ListsAreKept => ListsAreKept'
    <3>1. entities' = entities /\ members' = members
      BY <1>1 DEF stores
    <3> QED
      BY <3>1 DEF ListsAreKept, IdsOf, S!FakePulls
  <2> QED
    BY <1>1, <2>1, <2>2 DEF StoresInv
<1>2. ASSUME StoresInv, part' = part, part = "inboxes", S!PutInbox \/ S!SetReadState
      PROVE  StoresInv'
  BY <1>2, PutInboxAgrees, SetReadStateAgrees DEF StoresInv
<1>3. ASSUME StoresInv, part' = part, part = "lists", S!PutPulls \/ S!Forget
      PROVE  StoresInv'
  BY <1>3, PutPullsKeeps, ForgetKeeps DEF StoresInv
<1>4. ASSUME [EdgesNext]_<<part, vars, cache, wire, stores>>
      PROVE  /\ part' = part
             /\ \/ UNCHANGED <<part, stores>>
                \/ part = "inboxes" /\ (S!PutInbox \/ S!SetReadState)
                \/ part = "lists" /\ (S!PutPulls \/ S!Forget)
  BY <1>4 DEF EdgesNext
<1> QED
  BY <1>1, <1>2, <1>3, <1>4

\* A surface is given by the cache what the fake it was built against gives it
\* (StoresAgree): the same notifications in the same order, for any pages, any
\* marks and rollbacks of any viewers, any filter and any limit; and of a list
\* of pull requests what was fetched for it, however the query was spelled.
THEOREM StoresAreAlike ==
    ASSUME S!TiesAreInOrder
    PROVE  EdgesSpec => []StoresAgree
<1>1. StoresInv => StoresAgree
  <2>1. InboxesAgree => S!StoresAgree
    BY SameNotes DEF S!StoresAgree
  <2> QED
    BY <2>1, ListsAreRight DEF StoresInv, StoresAgree
<1> QED
  BY <1>1, StoresStart, StoresStep, PTL DEF EdgesSpec
=============================================================================
