--------------------------- MODULE ScreensProofs ----------------------------
(***************************************************************************)
(* What the screens show, for any searches, pull requests, notifications,  *)
(* actions and terminals.                                                  *)
(*                                                                         *)
(* The dashboard never shows a count GitHub did not give for that search   *)
(* while it was being asked, nor a fresh face over an old section: the     *)
(* counts on screen come from the lists, the lists from a fetch that is    *)
(* writing, and that from one that is asking, and the invariant follows    *)
(* them all the way.  Its body draws the section the cursor is on, which   *)
(* takes that the rows are the configured sections and the cursor is one   *)
(* of them.                                                                *)
(*                                                                         *)
(* The pull request surfaces draw what fits: every handler ends in a draw, *)
(* so it is a fact about draws, given a cursor that a handler has left on  *)
(* a row and a document of some length.  So is it of the inbox's list,     *)
(* which scrolls by entries where the cursor counts rows.  That rows are   *)
(* told apart is a fact about what a row is made of: what its lines leave  *)
(* out is said once for all of them.  What a document tells is             *)
(* DocumentProofs'.                                                        *)
(*                                                                         *)
(* What the shell draws is a fact about sums of widths: what is left for a *)
(* line is never less than what must be on it.  That a name finds its      *)
(* action compares the score of an exact match, which the trace of the     *)
(* matching gives, with what any other can earn.                           *)
(***************************************************************************)
EXTENDS DocumentProofs

Answers == Seq(Totals \cup {None})
Stamp == [total: Totals, at: Nat, genuine: BOOLEAN]

Fetch == [stage: {"idle", "asking", "writing"}, got: Answers, now: Nat,
          seen: [Queries -> SUBSET Totals]]

Typed ==
    /\ clock \in Nat
    /\ github \in [Queries -> Totals]
    /\ lists \in [Queries -> Stamp \cup {None}]
    /\ cfg \in Seq(Queries)
    /\ job \in Fetch

\* Every list was counted, or was not and says so.
ListsAreGenuine == \A q \in Queries : lists[q] # None => lists[q].genuine

\* What answers number k stands for, of those still to be written.
AskedAs(k, got, config, stage) ==
    config[IF stage = "writing" THEN Len(config) - Len(got) + k ELSE k]

\* An answer at hand was a count of its own search since the fetch began.
AnswersWereSeen ==
    /\ job.stage = "asking" => \A q \in Queries : github[q] \in job.seen[q]
    /\ job.stage # "idle" =>
          /\ Len(job.got) <= Len(cfg)
          /\ \A k \in 1 .. Len(job.got) : job.got[k] # None =>
                job.got[k] \in job.seen[AskedAs(k, job.got, cfg, job.stage)]
    /\ job.stage = "writing" => job.got # <<>>

IInv == Typed /\ ListsAreGenuine /\ AnswersWereSeen /\ CountsWereTrue

\* What is read shows the lists as they are.
LEMMA ReadIsTrue ==
    ASSUME NEW metas, NEW config \in Seq(Queries), NEW refreshing,
           \A q \in Queries : metas[q] # None => metas[q].genuine,
           NEW page, page = ReadDashboard(metas, config, refreshing),
           NEW i \in DOMAIN page.rows, page.rows[i].meta # None
    PROVE  page.rows[i].meta.genuine
<1>1. page.rows = Sections(metas, config)
  BY DEF ReadDashboard
<1>2. DOMAIN Sections(metas, config) = DOMAIN config
  BY DEF Sections
<1>3. i \in DOMAIN config /\ config[i] \in Queries
  BY <1>1, <1>2
<1>4. page.rows[i].meta = metas[config[i]]
  BY <1>1, <1>3 DEF Sections
<1> QED
  BY <1>3, <1>4

LEMMA NoAnswers == <<>> \in Answers
BY DEF Answers

LEMMA IdleIsSound == Idle \in Fetch /\ Idle.stage = "idle"
<1>1. [q \in Queries |-> {}] \in [Queries -> SUBSET Totals]
  OBVIOUS
<1> QED
  BY <1>1, NoAnswers DEF Idle, Fetch

\* A new fetch has no answers yet and has seen what GitHub counts now.
LEMMA AskedIsSound ==
    ASSUME github \in [Queries -> Totals]
    PROVE  /\ Asked \in Fetch
           /\ Asked.stage = "asking" /\ Asked.got = <<>>
           /\ Asked.seen = [q \in Queries |-> {github[q]}]
<1>1. [q \in Queries |-> {github[q]}] \in [Queries -> SUBSET Totals]
  OBVIOUS
<1> QED
  BY <1>1, NoAnswers DEF Asked, Fetch

\* The fetch ends, or another begins, and the lists stand.
LEMMA FetchEnds ==
    ASSUME IInv, job' \in {Idle, Asked}, cfg' \in Seq(Queries),
           UNCHANGED <<clock, github, lists>>
    PROVE  Typed' /\ ListsAreGenuine' /\ AnswersWereSeen'
<1> USE DEF IInv
<1>1. Typed'
  BY AskedIsSound, IdleIsSound DEF Typed
<1>2. ListsAreGenuine'
  BY DEF ListsAreGenuine
<1>3. AnswersWereSeen'
  <2>1. CASE job' = Idle
    BY <2>1, IdleIsSound DEF AnswersWereSeen
  <2>2. CASE job' = Asked
    <3>1. Len(job'.got) = 0 /\ Len(cfg') \in Nat
      BY <2>2, AskedIsSound DEF Typed
    <3>2. \A q \in Queries : github'[q] \in job'.seen[q]
      BY <2>2, AskedIsSound DEF Typed
    <3> QED
      BY <2>2, <3>1, <3>2, AskedIsSound DEF AnswersWereSeen, Typed
  <2> QED
    BY <2>1, <2>2
<1> QED
  BY <1>1, <1>2, <1>3

LEMMA Initially == Init => IInv
<1> SUFFICES ASSUME Init PROVE IInv
  OBVIOUS
<1>1. Typed
  BY DashboardAssumption, AskedIsSound DEF Init, Typed
<1>2. ListsAreGenuine
  BY DEF Init, ListsAreGenuine
<1>3. AnswersWereSeen
  <2>1. Len(job.got) = 0 /\ Len(cfg) \in Nat
    BY AskedIsSound, <1>1 DEF Init, Typed
  <2> QED
    BY <2>1, AskedIsSound DEF Init, AnswersWereSeen
<1>4. CountsWereTrue
  BY <1>1, <1>2, ReadIsTrue DEF Init, CountsWereTrue, ListsAreGenuine, Typed
<1> QED
  BY <1>1, <1>2, <1>3, <1>4 DEF IInv

\* A step of the fetch that leaves the rows on screen alone.
LEMMA OffScreen ==
    ASSUME CountsWereTrue, UNCHANGED data
    PROVE  CountsWereTrue'
BY DEF CountsWereTrue

LEMMA RestartStep ==
    ASSUME IInv, Restart
    PROVE  IInv'
<1>1. PICK config \in Configs : Opened(config, lists) /\ UNCHANGED <<clock, github, lists>>
  BY DEF Restart
<1>2. Typed' /\ ListsAreGenuine' /\ AnswersWereSeen'
  BY <1>1, FetchEnds, DashboardAssumption DEF Opened
<1>3. config \in Seq(Queries)
  BY DashboardAssumption
<1>4. \A q \in Queries : lists[q] # None => lists[q].genuine
  BY DEF IInv, ListsAreGenuine
<1>5. data' = ReadDashboard(lists, config, FALSE)
  BY <1>1 DEF Opened
<1>6. CountsWereTrue'
  BY <1>3, <1>4, <1>5, ReadIsTrue DEF CountsWereTrue
<1> QED
  BY <1>2, <1>6 DEF IInv

LEMMA FetchEndsStep ==
    ASSUME IInv, Ask \/ CountFails \/ PutFails
    PROVE  IInv'
<1>1. Typed' /\ ListsAreGenuine' /\ AnswersWereSeen'
  BY FetchEnds DEF Ask, CountFails, PutFails, IInv, Typed
<1> QED
  BY <1>1, OffScreen DEF IInv, Ask, CountFails, PutFails, surface

\* GitHub's counts move, and what was seen is kept.
LEMMA TickStep ==
    ASSUME IInv, Tick
    PROVE  IInv'
<1>1. Typed /\ ListsAreGenuine /\ AnswersWereSeen /\ CountsWereTrue
  BY DEF IInv
<1>2. CASE job.stage # "asking"
  <2>1. job' = job
    BY <1>2 DEF Tick
  <2>2. Typed' /\ ListsAreGenuine' /\ AnswersWereSeen'
    BY <1>1, <1>2, <2>1 DEF Tick, Typed, ListsAreGenuine, AnswersWereSeen, AskedAs
  <2> QED
    BY <1>1, <2>2, OffScreen DEF IInv, Tick, surface
<1>3. CASE job.stage = "asking"
  <2> DEFINE seen == [q \in Queries |-> job.seen[q] \cup {github'[q]}]
  <2>1. seen \in [Queries -> SUBSET Totals]
    BY <1>1 DEF Tick, Typed, Fetch
  <2>2. job' = [job EXCEPT !.seen = seen]
    BY <1>3 DEF Tick
  <2>3. \A q \in Queries : github'[q] \in seen[q] /\ job.seen[q] \subseteq seen[q]
    OBVIOUS
  <2> HIDE DEF seen
  <2>4. /\ job'.stage = "asking" /\ job'.got = job.got /\ job'.now = job.now
        /\ job'.seen = seen
    BY <1>1, <1>3, <2>2 DEF Typed, Fetch
  <2>5. Typed'
    BY <1>1, <2>1, <2>2 DEF Tick, Typed, Fetch
  <2>6. ListsAreGenuine'
    BY <1>1 DEF Tick, ListsAreGenuine
  <2>7. \A k \in 1 .. Len(job.got) : cfg[k] \in Queries
    BY <1>1, <1>3 DEF Typed, Fetch, Answers, AnswersWereSeen
  <2>8. AnswersWereSeen'
    BY <1>1, <1>3, <2>3, <2>4, <2>7 DEF Tick, AnswersWereSeen, AskedAs
  <2> QED
    BY <1>1, <2>5, <2>6, <2>8, OffScreen DEF IInv, Tick, surface
<1> QED
  BY <1>2, <1>3

LEMMA MinOfTwo ==
    ASSUME NEW a \in Int, NEW b \in Int
    PROVE  Min({a, b}) \in {a, b} /\ Min({a, b}) <= a /\ Min({a, b}) <= b
<1>1. \E x \in {a, b} : \A y \in {a, b} : x <= y
  OBVIOUS
<1> QED
  BY <1>1 DEF Min

\* A batch's answers are what GitHub counts, which has been seen.
LEMMA CountBatchStep ==
    ASSUME IInv, CountBatch
    PROVE  IInv'
<1>1. Typed /\ ListsAreGenuine /\ AnswersWereSeen /\ CountsWereTrue
  BY DEF IInv
<1> DEFINE n == Len(job.got)
           last == Min({Len(cfg), n + Batch})
           Batched(counted) == [k \in 1 .. last - (n + 1) + 1 |->
                                  IF n + 1 + k - 1 \in counted
                                  THEN github[cfg[n + 1 + k - 1]] ELSE None]
<1>2. /\ job.stage = "asking" /\ job.got \in Answers /\ n \in Nat /\ n < Len(cfg)
      /\ Len(cfg) \in Nat /\ Batch \in Nat
      /\ UNCHANGED <<clock, github, lists, cfg, event, surface>>
  BY <1>1, DashboardAssumption DEF CountBatch, Typed, Fetch, Answers
<1>3. PICK counted : job' = [job EXCEPT !.got = job.got \o Batched(counted)]
  BY DEF CountBatch
<1>4. last \in n + 1 .. Len(cfg)
  <2>1. Batch > 0 /\ n + Batch \in Int
    BY <1>2, DashboardAssumption
  <2>2. last \in {Len(cfg), n + Batch} /\ last <= Len(cfg)
    <3>1. Len(cfg) \in Int
      BY <1>2
    <3> QED
      BY <2>1, <3>1, MinOfTwo, Zenon
  <2> QED
    BY <1>2, <2>1, <2>2
<1> DEFINE more == Batched(counted)
           got == job.got \o more
<1> HIDE DEF last
<1>5. \A k \in 1 .. last - n : cfg[n + k] \in Queries /\ n + k \in 1 .. Len(cfg)
  BY <1>1, <1>2, <1>4 DEF Typed
<1>6. /\ more \in Answers /\ Len(more) = last - n
      /\ \A k \in 1 .. last - n : more[k] = None \/ more[k] = github[cfg[n + k]]
  <2>1. last - (n + 1) + 1 = last - n /\ \A k \in Int : n + 1 + k - 1 = n + k
    BY <1>2, <1>4
  <2>2. more = [k \in 1 .. last - n |->
                   IF n + k \in counted THEN github[cfg[n + k]] ELSE None]
    BY <2>1
  <2>3. \A k \in 1 .. last - n : more[k] \in Totals \cup {None}
    BY <1>1, <1>5, <2>2 DEF Typed
  <2>4. last - n \in Nat
    BY <1>2, <1>4
  <2> HIDE DEF more
  <2>5. more \in [1 .. last - n -> Totals \cup {None}]
    BY <2>2, <2>3
  <2>6. more \in Answers /\ Len(more) = last - n
    BY <2>4, <2>5 DEF Answers
  <2> QED
    BY <2>2, <2>6
<1> HIDE DEF more
<1>7. /\ got \in Answers /\ Len(got) = last
      /\ \A k \in 1 .. last : got[k] = IF k <= n THEN job.got[k] ELSE more[k - n]
  BY <1>2, <1>4, <1>6 DEF Answers
<1> HIDE DEF got
<1>8. job'.got = got /\ job'.stage = "asking" /\ job'.seen = job.seen
  BY <1>1, <1>2, <1>3 DEF Typed, Fetch, got, more
<1>9. Typed' /\ ListsAreGenuine'
  BY <1>1, <1>2, <1>3, <1>7 DEF Typed, Fetch, ListsAreGenuine, got, more
<1>10. ASSUME NEW k \in 1 .. last, got[k] # None
       PROVE  got[k] \in job.seen[cfg[k]]
  <2>1. CASE k <= n
    BY <1>1, <1>2, <1>4, <1>7, <1>10, <2>1 DEF AnswersWereSeen, AskedAs
  <2>2. CASE k > n
    <3>1. got[k] = more[k - n] /\ k - n \in 1 .. last - n /\ n + (k - n) = k
      BY <1>2, <1>4, <1>7, <2>2
    <3>2. got[k] = github[cfg[k]] /\ cfg[k] \in Queries
      BY <1>5, <1>6, <1>10, <3>1
    <3> QED
      BY <1>1, <1>2, <3>2 DEF AnswersWereSeen
  <2> QED
    BY <1>2, <1>4, <2>1, <2>2
<1>11. AnswersWereSeen'
  BY <1>1, <1>2, <1>4, <1>7, <1>8, <1>10 DEF AnswersWereSeen, AskedAs
<1> QED
  BY <1>1, <1>2, <1>9, <1>11, OffScreen DEF IInv, surface

\* The answers are all there, and are written under the time it is now.
LEMMA CountedStep ==
    ASSUME IInv, Counted
    PROVE  IInv'
<1>1. Typed /\ ListsAreGenuine /\ AnswersWereSeen /\ CountsWereTrue
  BY DEF IInv
<1>2. CASE cfg = <<>>
  <2>1. Typed' /\ ListsAreGenuine' /\ AnswersWereSeen'
    BY <1>1, <1>2, FetchEnds DEF Counted, IInv, Typed
  <2> QED
    BY <1>1, <2>1, OffScreen DEF IInv, Counted, surface
<1>3. CASE cfg # <<>>
  <2>1. /\ job' = [job EXCEPT !.stage = "writing", !.now = clock]
        /\ UNCHANGED <<clock, github, lists, cfg, surface>>
        /\ Len(job.got) = Len(cfg) /\ job.stage = "asking"
    BY <1>3 DEF Counted
  <2>2. /\ job'.stage = "writing" /\ job'.got = job.got /\ job'.seen = job.seen
        /\ job' \in Fetch
    BY <1>1, <2>1 DEF Typed, Fetch
  <2>3. job.got # <<>> /\ Len(cfg) \in Nat
    BY <1>1, <1>3, <2>1 DEF Typed, Fetch, Answers
  <2>4. Typed' /\ ListsAreGenuine'
    BY <1>1, <2>1, <2>2 DEF Typed, ListsAreGenuine
  <2>5. AnswersWereSeen'
    BY <1>1, <2>1, <2>2, <2>3 DEF AnswersWereSeen, AskedAs
  <2> QED
    BY <1>1, <2>1, <2>4, <2>5, OffScreen DEF IInv, surface
<1> QED
  BY <1>2, <1>3

\* A section's transaction stores a count of its own search, or leaves the
\* list as it was, and the answers after it keep their searches.
LEMMA PutStep ==
    ASSUME IInv, Put
    PROVE  IInv'
<1>1. Typed /\ ListsAreGenuine /\ AnswersWereSeen /\ CountsWereTrue
  BY DEF IInv
<1> DEFINE n == Len(job.got)
           at == Len(cfg) - n
           q == cfg[at + 1]
           answer == Head(job.got)
           rest == Tail(job.got)
           new == Stored(lists[q], answer, job.seen[q], job.now)
<1>2. /\ job.stage = "writing" /\ job.got \in Answers /\ job.got # <<>>
      /\ n \in Nat /\ n > 0 /\ n <= Len(cfg) /\ Len(cfg) \in Nat
      /\ UNCHANGED <<clock, github, cfg, surface>>
  BY <1>1 DEF Put, Typed, Fetch, Answers, AnswersWereSeen
<1>3. /\ rest \in Answers /\ Len(rest) = n - 1 /\ answer = job.got[1]
      /\ answer \in Totals \cup {None}
      /\ \A k \in 1 .. n - 1 : rest[k] = job.got[k + 1]
  BY <1>2 DEF Answers
<1>4. at \in Nat /\ at + 1 \in 1 .. Len(cfg) /\ q \in Queries
  <2>1. at \in Nat /\ at + 1 \in 1 .. Len(cfg)
    BY <1>2
  <2> HIDE DEF at
  <2> QED
    BY <1>1, <2>1 DEF Typed
<1>5. answer # None => answer \in job.seen[q]
  <2>1. AskedAs(1, job.got, cfg, "writing") = q /\ 1 \in 1 .. n
    BY <1>2 DEF AskedAs
  <2> QED
    BY <1>1, <1>2, <1>3, <2>1 DEF AnswersWereSeen
<1>6. new \in Stamp \cup {None} /\ (new # None => new.genuine)
  <2>1. CASE answer = None
    BY <1>1, <1>4, <2>1 DEF Stored, ListsAreGenuine, Typed
  <2>2. CASE answer # None
    <3>1. new = [total |-> answer, at |-> job.now, genuine |-> answer \in job.seen[q]]
      BY <2>2 DEF Stored
    <3>2. (answer \in job.seen[q]) = TRUE /\ answer \in Totals /\ job.now \in Nat
      BY <1>1, <1>3, <1>5, <2>2 DEF Typed, Fetch
    <3>3. new = [total |-> answer, at |-> job.now, genuine |-> TRUE]
      BY <3>1, <3>2
    <3> HIDE DEF new, answer
    <3> QED
      BY <3>2, <3>3 DEF Stamp
  <2> QED
    BY <2>1, <2>2
<1>7. /\ lists' = [lists EXCEPT ![q] = new]
      /\ IF rest = <<>> THEN job' = Idle ELSE job' = [job EXCEPT !.got = rest]
  BY DEF Put
<1> HIDE DEF new
<1>8. lists' \in [Queries -> Stamp \cup {None}] /\ ListsAreGenuine'
  BY <1>1, <1>4, <1>6, <1>7 DEF Typed, ListsAreGenuine
<1>9. job' \in Fetch
  <2>1. CASE rest = <<>>
    BY <1>7, <2>1, IdleIsSound
  <2>2. CASE rest # <<>>
    BY <1>1, <1>3, <1>7, <2>2 DEF Typed, Fetch
  <2> QED
    BY <2>1, <2>2
<1>10. Typed'
  BY <1>1, <1>2, <1>8, <1>9 DEF Typed
<1>11. AnswersWereSeen'
  <2>1. CASE rest = <<>>
    BY <1>7, <2>1, IdleIsSound DEF AnswersWereSeen
  <2>2. CASE rest # <<>>
    <3>1. /\ job'.stage = "writing" /\ job'.seen = job.seen /\ job'.got = rest
          /\ cfg' = cfg
      BY <1>1, <1>2, <1>7, <2>2 DEF Typed, Fetch
    <3>2. ASSUME NEW k \in 1 .. n - 1, rest[k] # None
          PROVE  rest[k] \in job.seen[cfg[Len(cfg) - Len(rest) + k]]
      <4>1. k + 1 \in 1 .. n /\ rest[k] = job.got[k + 1]
        BY <1>2, <1>3, <3>2
      <4>2. Len(cfg) - Len(rest) + k = Len(cfg) - n + (k + 1)
        <5>1. /\ Len(cfg) \in Int /\ n \in Int /\ k \in Int
              /\ Len(rest) = n - 1
          BY <1>2, <1>3
        <5> HIDE DEF n, rest
        <5> QED
          BY <5>1
      <4>3. job.got[k + 1] \in job.seen[cfg[Len(cfg) - n + (k + 1)]]
        BY <1>1, <1>2, <3>2, <4>1 DEF AnswersWereSeen, AskedAs
      <4> QED
        BY <4>1, <4>2, <4>3
    <3>3. Len(rest) = n - 1 /\ n \in Nat /\ Len(cfg) \in Nat /\ n <= Len(cfg)
      BY <1>1, <1>2, <1>3 DEF AnswersWereSeen
    <3> HIDE DEF n, rest
    <3>4. Len(job'.got) <= Len(cfg')
      BY <3>1, <3>3
    <3>5. ASSUME NEW k \in 1 .. Len(job'.got), job'.got[k] # None
          PROVE  job'.got[k] \in job'.seen[AskedAs(k, job'.got, cfg', job'.stage)]
      BY <3>1, <3>2, <3>3, <3>5 DEF AskedAs
    <3> QED
      BY <2>2, <3>1, <3>4, <3>5 DEF AnswersWereSeen
  <2> QED
    BY <2>1, <2>2
<1> QED
  BY <1>1, <1>2, <1>8, <1>10, <1>11, OffScreen DEF IInv, surface

\* The surface reads the lists, or keeps what it has.
LEMMA SurfaceStep ==
    ASSUME IInv, Load \/ MoveCursor
    PROVE  IInv'
<1>1. /\ Typed /\ ListsAreGenuine /\ AnswersWereSeen /\ CountsWereTrue
      /\ UNCHANGED <<clock, github, lists, cfg, job>>
  BY DEF IInv, Load, MoveCursor
<1>2. Typed' /\ ListsAreGenuine' /\ AnswersWereSeen'
  BY <1>1 DEF Typed, ListsAreGenuine, AnswersWereSeen, AskedAs
<1>3. CountsWereTrue'
  <2>1. CASE UNCHANGED data
    BY <1>1, <2>1, OffScreen
  <2>2. CASE data' = ReadDashboard(lists, cfg, job.stage = "asking")
    <3>1. cfg \in Seq(Queries) /\ \A q \in Queries : lists[q] # None => lists[q].genuine
      BY <1>1 DEF Typed, ListsAreGenuine
    <3> QED
      BY <2>2, <3>1, ReadIsTrue DEF CountsWereTrue
  <2> QED
    BY <2>1, <2>2 DEF Load, MoveCursor
<1> QED
  BY <1>2, <1>3 DEF IInv

LEMMA Inductive == IInv /\ [Next]_vars => IInv'
<1> SUFFICES ASSUME IInv, [Next]_vars PROVE IInv'
  OBVIOUS
<1>1. CASE UNCHANGED vars
  <2>1. Typed' /\ ListsAreGenuine' /\ AnswersWereSeen'
    BY <1>1 DEF vars, IInv, Typed, ListsAreGenuine, AnswersWereSeen, AskedAs
  <2> QED
    BY <1>1, <2>1, OffScreen DEF vars, surface, IInv
<1>2. CASE Next
  BY <1>2, RestartStep, FetchEndsStep, TickStep, CountBatchStep, CountedStep, PutStep,
     SurfaceStep DEF Next
<1> QED
  BY <1>1, <1>2

\* Whatever fails, ends or restarts on the way, a count on screen is one that
\* GitHub gave for that search between the fetch's start and its stamp.
THEOREM CountsAreTrue == Spec => []CountsWereTrue
<1>1. IInv => CountsWereTrue
  BY DEF IInv
<1> QED
  BY <1>1, Initially, Inductive, PTL DEF Spec

-----------------------------------------------------------------------------
\* The least of some natural numbers is among them and not above any.
LEMMA LeastOfSome ==
    ASSUME NEW S, S \subseteq Nat, S # {}
    PROVE  Min(S) \in S /\ \A x \in S : Min(S) \in Nat /\ Min(S) <= x
<1>1. PICK x \in S : \A y \in S : ~(<<y, x>> \in OpToRel(<, Nat))
  BY NatLessThanWellFounded, WFMin
<1>2. \A y \in Nat : y < x => <<y, x>> \in OpToRel(<, Nat)
  BY DEF OpToRel
<1>3. ASSUME NEW y \in S
      PROVE  x <= y
  <2>1. x \in Nat /\ y \in Nat
    OBVIOUS
  <2>2. ~(y < x)
    BY <1>1, <1>2, <2>1
  <2> QED
    BY <2>1, <2>2
<1> QED
  BY <1>3 DEF Min

\* A page that is not stale has every section, none of them past its time.
LEMMA ReadIsFresh ==
    ASSUME NEW config \in Seq(Queries), NEW refreshing, Typed,
           NEW page, page = ReadDashboard(lists, config, refreshing), ~page.stale,
           NEW i \in DOMAIN page.rows
    PROVE  page.rows[i].meta # None /\ clock - page.rows[i].meta.at <= Ttl
<1> DEFINE rows == Sections(lists, config)
           stamps == {m.at : m \in Fetched(rows)}
<1>1. /\ page.rows = rows /\ page.at = Oldest(rows) /\ page.at # None
      /\ ~(clock - page.at > Ttl)
      /\ \A k \in DOMAIN rows : rows[k].meta # None
  BY DEF ReadDashboard
<1>2. DOMAIN rows = DOMAIN config /\ \A k \in DOMAIN config : rows[k].meta = lists[config[k]]
  BY DEF Sections
<1> HIDE DEF rows
<1>3. \A k \in DOMAIN rows : rows[k].meta \in Stamp \cup {None}
  BY <1>2 DEF Typed
<1>4. rows[i].meta \in Fetched(rows) /\ rows[i].meta \in Stamp
  BY <1>1, <1>3 DEF Fetched
<1>5. stamps \subseteq Nat /\ rows[i].meta.at \in stamps
  BY <1>3, <1>4 DEF Fetched, Stamp
<1>6. page.at = Min(stamps)
  BY <1>1, <1>4 DEF Oldest
<1> HIDE DEF stamps
<1>7. page.at \in Nat /\ page.at <= rows[i].meta.at
  BY <1>5, <1>6, LeastOfSome
<1>8. clock \in Nat /\ Ttl \in Nat /\ rows[i].meta.at \in Nat
  BY <1>5, DashboardAssumption DEF Typed
<1> QED
  BY <1>1, <1>7, <1>8

\* A screen that does not say it is old is not: every section was counted,
\* the oldest of them within the time to live when it was read.
THEOREM FreshScreens == Spec => FreshIsFresh
<1> DEFINE Fresh == data' # data /\ data' # None /\ ~Note' =>
                       \A i \in DOMAIN data'.rows :
                          LET m == data'.rows[i].meta IN m # None /\ clock - m.at <= Ttl
<1>1. ASSUME IInv, [Next]_vars PROVE [Fresh]_vars
  <2> SUFFICES ASSUME data' # data, data' # None, ~Note', NEW i \in DOMAIN data'.rows
               PROVE  data'.rows[i].meta # None /\ clock - data'.rows[i].meta.at <= Ttl
    OBVIOUS
  <2>1. Typed /\ ~data'.stale
    BY <1>1 DEF IInv, Note
  <2>2. \E config \in Seq(Queries), refreshing \in BOOLEAN :
           data' = ReadDashboard(lists, config, refreshing)
    <3>1. CASE Restart
      BY <3>1, DashboardAssumption DEF Restart, Opened
    <3>2. CASE Load
      BY <2>1, <3>2 DEF Load, Typed
    <3>3. CASE ~Restart /\ ~Load
      BY <1>1, <3>3 DEF Next, vars, surface, Tick, Ask, CountBatch, CountFails, Counted,
                        Put, PutFails, MoveCursor
    <3> QED
      BY <3>1, <3>2, <3>3
  <2> QED
    BY <2>1, <2>2, ReadIsFresh
<1> HIDE DEF Fresh
<1>2. Spec => [][Fresh]_vars
  BY <1>1, Initially, Inductive, PTL DEF Spec
<1> QED
  BY <1>2 DEF FreshIsFresh, Fresh

-----------------------------------------------------------------------------
(* What is drawn of the dashboard.                                         *)

\* A page has a row for each section, and counts nothing it was never told.
RowsAreWhole(page) ==
    /\ Len(page.rows) \in Nat /\ DOMAIN page.rows = 1 .. Len(page.rows)
    /\ \A i \in DOMAIN page.rows :
          page.rows[i].count \in Nat /\ (page.rows[i].count > 0 => page.rows[i].meta # None)

\* The cursor is on a section where there is one.
CursorIsOnASection ==
    /\ RowsAreWhole(data)
    /\ cursor \in Nat /\ (cursor = 0 \/ cursor < Len(data.rows))

LEMMA MaxOfTwo ==
    ASSUME NEW a \in Int, NEW b \in Int
    PROVE  Max({a, b}) \in {a, b} /\ Max({a, b}) >= a /\ Max({a, b}) >= b
<1>1. \E x \in {a, b} : \A y \in {a, b} : x >= y
  OBVIOUS
<1> QED
  BY <1>1 DEF Max

LEMMA ReadIsWhole ==
    ASSUME NEW metas \in [Queries -> Stamp \cup {None}], NEW config \in Seq(Queries),
           NEW refreshing, NEW page, page = ReadDashboard(metas, config, refreshing)
    PROVE  RowsAreWhole(page)
<1>1. page.rows = Sections(metas, config)
  BY DEF ReadDashboard
<1>2. /\ DOMAIN page.rows = 1 .. Len(config) /\ Len(config) \in Nat
      /\ \A i \in 1 .. Len(config) :
            /\ config[i] \in Queries
            /\ page.rows[i].meta = metas[config[i]]
            /\ page.rows[i].count = IF metas[config[i]] = None THEN 0
                                    ELSE metas[config[i]].total
  BY <1>1 DEF Sections
<1>3. \A i \in 1 .. Len(config) :
         page.rows[i].count \in Nat /\ (page.rows[i].count > 0 => page.rows[i].meta # None)
  BY <1>2, DashboardAssumption DEF Stamp, Totals
<1>4. Len(page.rows) = Len(config)
  BY <1>1, <1>2 DEF Sections
<1> QED
  BY <1>2, <1>3, <1>4 DEF RowsAreWhole

LEMMA WithinIs ==
    ASSUME NEW c \in Nat, NEW n \in Nat
    PROVE  Within(c, n) \in Nat /\ (Within(c, n) = 0 \/ Within(c, n) < n)
<1>1. PICK last \in Nat : (last = 0 \/ last < n) /\ Within(c, n) = Min({c, last})
  <2>1. CASE n = 0
    BY <2>1 DEF Within
  <2>2. CASE n # 0
    <3>1. n - 1 \in Nat /\ n - 1 < n /\ Within(c, n) = Min({c, n - 1})
      BY <2>2 DEF Within
    <3> QED
      BY <3>1
  <2> QED
    BY <2>1, <2>2
<1>2. Min({c, last}) \in {c, last} /\ Min({c, last}) <= last
  <2>1. c \in Int /\ last \in Int
    BY <1>1
  <2> QED
    BY <2>1, MinOfTwo, Zenon
<1> QED
  BY <1>1, <1>2

LEMMA CursorStays ==
    ASSUME IInv, CursorIsOnASection, [Next]_vars
    PROVE  CursorIsOnASection'
<1>1. /\ lists \in [Queries -> Stamp \cup {None}] /\ cfg \in Seq(Queries)
      /\ RowsAreWhole(data) /\ cursor \in Nat
      /\ cursor = 0 \/ cursor < Len(data.rows)
  BY DEF IInv, Typed, CursorIsOnASection
<1>2. Len(SectionsOn) \in Nat /\ (data # None => SectionsOn = data.rows)
  BY <1>1 DEF SectionsOn, RowsAreWhole
<1>3. CASE Restart
  <2>1. PICK config \in Configs :
            data' = ReadDashboard(lists, config, FALSE) /\ cursor' = 0
    BY <1>3 DEF Restart, Opened
  <2>2. config \in Seq(Queries)
    BY DashboardAssumption
  <2>3. RowsAreWhole(data')
    BY <1>1, <2>1, <2>2, ReadIsWhole
  <2> QED
    BY <2>1, <2>3 DEF CursorIsOnASection
<1>4. CASE Load
  <2>1. CASE data' = ReadDashboard(lists, cfg, job.stage = "asking")
             /\ cursor' = Within(cursor, Len(data'.rows))
    <3>1. RowsAreWhole(data')
      BY <1>1, <2>1, ReadIsWhole
    <3> QED
      BY <1>1, <2>1, <3>1, WithinIs DEF CursorIsOnASection, RowsAreWhole
  <2>2. CASE UNCHANGED data /\ cursor' = Within(cursor, Len(SectionsOn))
    <3>1. cursor' \in Nat /\ (cursor' = 0 \/ cursor' < Len(SectionsOn))
      BY <1>1, <1>2, <2>2, WithinIs
    <3>2. data = None => cursor' = 0
      <4>1. data = None => Len(SectionsOn) = 0
        BY DEF SectionsOn
      <4> QED
        BY <3>1, <4>1
    <3> QED
      BY <1>1, <1>2, <2>2, <3>1, <3>2 DEF CursorIsOnASection
  <2> QED
    BY <1>4, <2>1, <2>2 DEF Load
<1>5. CASE MoveCursor
  <2>1. data # None /\ UNCHANGED data /\ Len(data.rows) \in Nat /\ Len(data.rows) # 0
    <3>1. SectionsOn # <<>> /\ UNCHANGED data
      BY <1>5 DEF MoveCursor
    <3>2. data # None
      BY <3>1 DEF SectionsOn
    <3> QED
      BY <1>1, <3>1, <3>2 DEF SectionsOn, RowsAreWhole
  <2>2. cursor' \in {Within(cursor + 1, Len(data.rows)), Max({cursor - 1, 0}), 0,
                    Len(data.rows) - 1}
    BY <1>2, <1>5, <2>1 DEF MoveCursor
  <2>3. Max({cursor - 1, 0}) \in Nat /\ Max({cursor - 1, 0}) \in {cursor - 1, 0}
    <3>1. cursor - 1 \in Int
      BY <1>1
    <3>2. Max({cursor - 1, 0}) \in {cursor - 1, 0} /\ Max({cursor - 1, 0}) >= 0
      BY <3>1, MaxOfTwo
    <3> QED
      BY <3>1, <3>2
  <2>4. cursor' \in Nat /\ (cursor' = 0 \/ cursor' < Len(data.rows))
    <3>1. cursor + 1 \in Nat
      BY <1>1
    <3>2. Within(cursor + 1, Len(data.rows)) \in Nat
          /\ (Within(cursor + 1, Len(data.rows)) = 0
              \/ Within(cursor + 1, Len(data.rows)) < Len(data.rows))
      BY <2>1, <3>1, WithinIs
    <3> QED
      BY <1>1, <2>1, <2>2, <2>3, <3>2
  <2> QED
    BY <1>1, <2>1, <2>4 DEF CursorIsOnASection
<1>6. CASE UNCHANGED <<data, cursor>>
  BY <1>6 DEF CursorIsOnASection
<1> QED
  BY <1>3, <1>4, <1>5, <1>6 DEF Next, vars, surface, Tick, Ask, CountBatch, CountFails,
     Counted, Put, PutFails

\* The sections that the window of a list shows, and how far it starts.
Window(first, n, rows) == {i \in 1 .. n : first < i /\ i <= first + rows}
Start(from, n, c, rows) == Scrolled(Min({from, n - 1}), c, rows)

\* The window is as tall as the list and has the cursor in it.
LEMMA WindowIs ==
    ASSUME NEW n \in Nat, n > 0, NEW rows \in Nat, rows > 0,
           NEW from \in Nat, NEW c \in Nat, c < n
    PROVE  /\ c + 1 \in Window(Start(from, n, c, rows), n, rows)
           /\ Cardinality(Window(Start(from, n, c, rows), n, rows)) \in 0 .. rows
<1> DEFINE start == Min({from, n - 1})
           first == Start(from, n, c, rows)
           drawn == Window(first, n, rows)
<1>1. start \in Nat
  <2>1. n - 1 \in Nat /\ n - 1 \in Int /\ from \in Int
    OBVIOUS
  <2>2. start \in {from, n - 1}
    BY <2>1, MinOfTwo, Zenon
  <2> QED
    BY <2>1, <2>2
<1>2. first \in Nat /\ first <= c /\ c < first + rows
  <2>1. first = Scrolled(start, c, rows)
    BY DEF Start
  <2>2. CASE c < start
    BY <1>1, <2>1, <2>2 DEF Scrolled
  <2>3. CASE c >= start + rows
    BY <1>1, <2>1, <2>3 DEF Scrolled
  <2>4. CASE ~(c < start) /\ ~(c >= start + rows)
    BY <1>1, <2>1, <2>4 DEF Scrolled
  <2> QED
    BY <2>2, <2>3, <2>4
<1> HIDE DEF first
<1>3. c + 1 \in drawn
  BY <1>2 DEF Window
<1>4. drawn \subseteq first + 1 .. first + rows /\ drawn \subseteq 1 .. n
  BY <1>2 DEF Window
<1>5. ASSUME NEW a \in Nat, NEW b \in Nat
      PROVE  IsFiniteSet(a + 1 .. a + b) /\ Cardinality(a + 1 .. a + b) = b
  BY FS_Interval
<1> DEFINE window == first + 1 .. first + rows
<1>6. Cardinality(drawn) \in Nat /\ Cardinality(drawn) <= rows
  <2>1. IsFiniteSet(window) /\ Cardinality(window) = rows /\ drawn \subseteq window
    BY <1>2, <1>4, <1>5
  <2> HIDE DEF window
  <2> QED
    BY <2>1, FS_Subset, FS_CardinalityType
<1> QED
  BY <1>3, <1>6 DEF first

LEMMA SectionsAreDrawn ==
    /\ Init => CursorIsOnASection
    /\ CursorIsOnASection => DashboardIsDrawn
<1>1. Init => CursorIsOnASection
  <2> SUFFICES ASSUME Init PROVE CursorIsOnASection
    OBVIOUS
  <2>1. /\ data = ReadDashboard(lists, cfg, FALSE) /\ cursor = 0
        /\ lists \in [Queries -> Stamp \cup {None}] /\ cfg \in Seq(Queries)
    BY DashboardAssumption DEF Init
  <2> QED
    BY <2>1, ReadIsWhole DEF CursorIsOnASection
<1>2. ASSUME CursorIsOnASection, Drawn,
             NEW body \in Heights, NEW from \in 0 .. Len(SectionsOn)
      PROVE  LET drawn == SectionsDrawn(from, body) IN
             /\ cursor + 1 \in drawn
             /\ Cardinality(drawn)
                  + (IF HasDetail(Len(SectionsOn), body) THEN 2 ELSE 0) <= body
  <2> DEFINE n == Len(SectionsOn)
             tall == RowLines(n, body)
             drawn == SectionsDrawn(from, body)
  <2>1. SectionsOn = data.rows /\ n \in Nat /\ n > 0 /\ cursor \in Nat /\ cursor < n
    BY <1>2 DEF CursorIsOnASection, RowsAreWhole, Drawn, State, SectionsOn
  <2>2. body \in Nat /\ body > 0 /\ from \in Nat
    BY <2>1, DashboardAssumption
  <2>3. tall \in Nat /\ tall > 0
        /\ tall + (IF HasDetail(n, body) THEN 2 ELSE 0) <= body
    BY <2>1, <2>2 DEF RowLines, HasDetail
  <2>4. drawn = Window(Start(from, n, cursor, tall), n, tall)
    BY DEF SectionsDrawn, Window, Start
  <2> HIDE DEF drawn, tall, n
  <2>5. cursor + 1 \in drawn /\ Cardinality(drawn) \in Nat /\ Cardinality(drawn) <= tall
    BY <2>1, <2>2, <2>3, <2>4, WindowIs
  <2>6. Cardinality(drawn) + (IF HasDetail(n, body) THEN 2 ELSE 0) <= body
    BY <2>2, <2>3, <2>5
  <2> QED
    BY <2>5, <2>6 DEF drawn, n
<1>3. ASSUME NEW body \in Heights
      PROVE  SkeletonLines(body) = body
  <2>1. body \in Nat \ {0}
    BY DashboardAssumption
  <2>2. Max({1, body - 1}) \in {1, body - 1} /\ Max({1, body - 1}) >= 1
        /\ Max({1, body - 1}) >= body - 1
    <3>1. 1 \in Int /\ body - 1 \in Int
      BY <2>1
    <3> QED
      BY <3>1, MaxOfTwo
  <2> QED
    BY <2>1, <2>2 DEF SkeletonLines
<1>4. ASSUME CursorIsOnASection, Title.live # None
      PROVE  Title.live <= Cardinality({i \in DOMAIN SectionsOn : SectionsOn[i].meta # None})
  <2> DEFINE told == {i \in DOMAIN data.rows : data.rows[i].meta # None}
             live == {i \in DOMAIN data.rows : data.rows[i].count > 0}
  <2>1. SectionsOn = data.rows /\ Title.live = Cardinality(live)
    BY <1>4 DEF Title, SectionsOn
  <2>2. live \subseteq told /\ told \subseteq 1 .. Len(data.rows) /\ Len(data.rows) \in Nat
    BY <1>4 DEF CursorIsOnASection, RowsAreWhole
  <2>3. IsFiniteSet(told)
    BY <2>2, FS_Interval, FS_Subset
  <2> HIDE DEF told, live
  <2>4. Cardinality(live) <= Cardinality(told)
    BY <2>2, <2>3, FS_Subset
  <2> QED
    BY <2>1, <2>4 DEF told
<1>5. CursorIsOnASection => DashboardIsDrawn
  BY <1>2, <1>3, <1>4 DEF DashboardIsDrawn
<1> QED
  BY <1>1, <1>5

-----------------------------------------------------------------------------
(* What is drawn of pull requests.                                         *)

\* Of two numbers; PullRequests has its own names for these.
LEMMA GreaterOf ==
    ASSUME NEW a \in Int, NEW b \in Int
    PROVE  P!Max({a, b}) \in {a, b} /\ P!Max({a, b}) >= a /\ P!Max({a, b}) >= b
<1>1. \E x \in {a, b} : \A y \in {a, b} : x >= y
  OBVIOUS
<1> QED
  BY <1>1 DEF P!Max

LEMMA LesserOf ==
    ASSUME NEW a \in Int, NEW b \in Int
    PROVE  P!Min({a, b}) \in {a, b} /\ P!Min({a, b}) <= a /\ P!Min({a, b}) <= b
<1>1. \E x \in {a, b} : \A y \in {a, b} : x <= y
  OBVIOUS
<1> QED
  BY <1>1 DEF P!Min

\* Whatever columns the width has room for, with the repository or without,
\* a row takes the whole width and no more.
LEMMA RowFits ==
    ASSUME NEW width \in Nat, width >= 9,
           NEW columns \in {P!ForWidth(width), P!ForWidth(width) \ {"Repo"}}
    PROVE  P!RowWidth(columns, width) = width
<1>1. /\ \A c \in {"Icon", "Title", "Repo", "Number", "State", "Checks", "Actor", "Age"} :
            c \in DOMAIN P!ColumnWidth
      /\ DOMAIN P!ColumnWidth =
            {"Icon", "Title", "Repo", "Number", "State", "Checks", "Actor", "Age"}
      /\ P!ColumnWidth["Icon"] = 1 /\ P!ColumnWidth["Title"] = 0
      /\ P!ColumnWidth["Repo"] = 20 /\ P!ColumnWidth["Number"] = 6
      /\ P!ColumnWidth["State"] = 8 /\ P!ColumnWidth["Checks"] = 6
      /\ P!ColumnWidth["Actor"] = 12 /\ P!ColumnWidth["Age"] = 4
      /\ P!Gutter = 3
  BY DEF P!ColumnWidth, P!Gutter
<1>2. P!Fixed(columns) \in Nat /\ P!Fixed(columns) < width
  <2>1. CASE width < 60
    <3>1. P!ForWidth(width) = {"Title", "Age"}
      BY <2>1 DEF P!ForWidth
    <3>2. P!Fixed(columns) = 8
      BY <1>1, <3>1 DEF P!Fixed
    <3> QED
      BY <3>2
  <2>2. CASE width >= 60 /\ width < 80
    <3>1. P!ForWidth(width) = {"Icon", "Title", "Age"}
      BY <2>2 DEF P!ForWidth
    <3>2. P!Fixed(columns) = 10
      BY <1>1, <3>1 DEF P!Fixed
    <3> QED
      BY <2>2, <3>2
  <2>3. CASE width >= 80 /\ width < 100
    <3>1. P!ForWidth(width) = {"Icon", "Title", "Repo", "State", "Age"}
      BY <2>3 DEF P!ForWidth
    <3>2. P!Fixed(columns) \in {40, 19}
      BY <1>1, <3>1 DEF P!Fixed
    <3> QED
      BY <2>3, <3>2
  <2>4. CASE width >= 100 /\ width < 120
    <3>1. P!ForWidth(width) = {"Icon", "Title", "Repo", "Number", "State", "Checks", "Age"}
      BY <2>4 DEF P!ForWidth
    <3>2. P!Fixed(columns) \in {54, 33}
      BY <1>1, <3>1 DEF P!Fixed
    <3> QED
      BY <2>4, <3>2
  <2>5. CASE width >= 120
    <3>1. P!ForWidth(width) =
             {"Icon", "Title", "Repo", "Number", "State", "Checks", "Actor", "Age"}
      BY <1>1, <2>5 DEF P!ForWidth
    <3>2. P!Fixed(columns) \in {67, 46}
      BY <1>1, <3>1 DEF P!Fixed
    <3> QED
      BY <2>5, <3>2
  <2> QED
    BY <2>1, <2>2, <2>3, <2>4, <2>5
<1>3. P!TitleWidth(columns, width) = width - P!Fixed(columns)
  <2>1. 1 \in Int /\ width - P!Fixed(columns) \in Int /\ width - P!Fixed(columns) >= 1
    BY <1>2
  <2>2. P!Max({1, width - P!Fixed(columns)}) \in {1, width - P!Fixed(columns)}
        /\ P!Max({1, width - P!Fixed(columns)}) >= width - P!Fixed(columns)
    BY <2>1, GreaterOf
  <2>3. P!Max({1, width - P!Fixed(columns)}) = width - P!Fixed(columns)
    BY <2>1, <2>2
  <2> QED
    BY <2>3 DEF P!TitleWidth
<1> QED
  BY <1>2, <1>3 DEF P!RowWidth

\* What a list or a detail may have been read as.
Pages == {Nothing, Unread} \cup (IF view = "list" THEN Lists ELSE Details \cup {Missing})

Failures == P!Errors \cup {Nothing}

\* The states with rows, of the seven.
States == {"rows", "offline-with-cache", "offline-without-cache", "offline", "failed",
           "cold", "empty"}

\* How many rows a page has, a document counting as one.
LEMMA ItemsAre ==
    ASSUME NEW page \in Pages, view \in {"list", "detail"}, P!PullRequestsAssumption
    PROVE  /\ P!Items(page) \in Nat
           /\ P!Items(page) > 0 /\ view = "list" => page \in Lists /\ P!Items(page) = Len(page)
           /\ P!Items(page) > 0 /\ view = "detail" => page \in Details
<1>1. CASE view = "list"
  <2>1. page \in Lists => Len(page) \in Nat
    BY DEF P!PullRequestsAssumption
  <2> QED
    BY <1>1, <2>1 DEF P!Items, Pages
<1>2. CASE view = "detail"
  BY <1>2 DEF P!Items, Pages
<1> QED
  BY <1>1, <1>2

\* What a surface shows rows in has some.
LEMMA StateIs ==
    ASSUME NEW page, P!Items(page) \in Nat, NEW failure \in Failures, Nothing \notin P!Errors
    PROVE  /\ P!State(page, failure) \in States
           /\ P!State(page, failure) \in {"rows", "offline-with-cache"} => P!Items(page) > 0
<1>1. CASE failure = "offline"
  BY <1>1 DEF P!State, States
<1>2. CASE failure = "failed"
  BY <1>2 DEF P!State, P!Errors, States
<1>3. CASE failure = Nothing
  <2>1. failure # "offline" /\ failure \notin P!Errors \ {"offline"}
    BY <1>3 DEF P!Errors
  <2> QED
    BY <1>3, <2>1 DEF P!State, States
<1> QED
  BY <1>1, <1>2, <1>3 DEF P!Errors, Failures

\* The rows drawn are no more than the body is tall.
LEMMA RowsInIs ==
    ASSUME NEW state \in States, NEW tall \in Nat
    PROVE  /\ P!RowsIn(state, tall) \in Int /\ P!RowsIn(state, tall) <= tall
           /\ P!RowsIn(state, tall) >= 0 => state \in {"rows", "offline-with-cache"}
<1>1. CASE state = "rows"
  BY <1>1 DEF P!RowsIn
<1>2. CASE state = "offline-with-cache"
  <2>1. 0 \in Int /\ tall - 1 \in Int
    OBVIOUS
  <2>2. P!Max({0, tall - 1}) \in {0, tall - 1}
    BY <2>1, GreaterOf, Zenon
  <2> QED
    BY <1>2, <2>2 DEF P!RowsIn
<1>3. CASE state \notin {"rows", "offline-with-cache"}
  BY <1>3 DEF P!RowsIn
<1> QED
  BY <1>1, <1>2, <1>3

\* A scroll ends within the document: what is drawn from there is there.
LEMMA ScrolledIs ==
    ASSUME NEW from \in Int, NEW delta \in Int, NEW len \in Int, NEW rows \in Int
    PROVE  /\ P!Scrolled(from, delta, len, rows) \in Int
           /\ len >= 0 /\ rows >= 0 =>
                 P!Scrolled(from, delta, len, rows) + P!Min({rows, len}) <= len
<1> DEFINE last == P!Max({0, len - rows})
           to == P!Min({from + delta, last})
<1>1. len - rows \in Int /\ from + delta \in Int /\ 0 \in Int
  OBVIOUS
<1>2. last \in {0, len - rows} /\ last >= 0 /\ last >= len - rows
  BY <1>1, GreaterOf, Zenon
<1>3. last \in Int
  BY <1>1, <1>2
<1> HIDE DEF last
<1>4. to \in {from + delta, last} /\ to <= last
  BY <1>1, <1>3, LesserOf, Zenon
<1>5. to \in Int
  BY <1>1, <1>3, <1>4
<1> HIDE DEF to
<1>6. P!Max({0, to}) \in {0, to}
  BY <1>1, <1>5, GreaterOf, Zenon
<1>7. P!Min({rows, len}) \in {rows, len} /\ P!Min({rows, len}) <= rows
        /\ P!Min({rows, len}) <= len
  BY LesserOf, Zenon
<1>8. P!Scrolled(from, delta, len, rows) = P!Max({0, to})
  BY DEF P!Scrolled, to, last
<1> QED
  BY <1>2, <1>3, <1>4, <1>5, <1>6, <1>7, <1>8

\* A move ends on a row.
LEMMA MovedIs ==
    ASSUME NEW page, P!Items(page) \in Nat, NEW from \in Int, NEW delta \in Int
    PROVE  /\ P!Moved(from, delta, page) \in Nat
           /\ P!Items(page) > 0 => P!Moved(from, delta, page) < P!Items(page)
<1>1. CASE P!Items(page) = 0
  BY <1>1 DEF P!Moved
<1>2. CASE P!Items(page) > 0
  <2> DEFINE to == P!Min({from + delta, P!Items(page) - 1})
  <2>1. from + delta \in Int /\ P!Items(page) - 1 \in Int /\ 0 \in Int
    OBVIOUS
  <2>2. to \in {from + delta, P!Items(page) - 1} /\ to <= P!Items(page) - 1
    BY <2>1, LesserOf, Zenon
  <2>3. to \in Int
    BY <2>1, <2>2
  <2>4. P!Moved(from, delta, page) = P!Max({0, to})
    BY <1>2 DEF P!Moved
  <2> HIDE DEF to
  <2>5. P!Max({0, to}) \in {0, to} /\ P!Max({0, to}) >= 0
    BY <2>1, <2>3, GreaterOf, Zenon
  <2> QED
    BY <1>2, <2>2, <2>3, <2>4, <2>5
<1> QED
  BY <1>1, <1>2

\* A draw of a document or of a list fits the screen it is drawn on.
Kept == view \in {"list", "detail"} /\ {scroll, viewport, lines} \subseteq Int

\* The cursor of a list with rows is on one of them.
OnARow(page, at) ==
    view = "list" => at \in Nat /\ (P!Items(page) > 0 => at < P!Items(page))

\* A drawn document is scrolled no further than its last page.
LEMMA DrawnDetailFits ==
    ASSUME Kept, view = "detail", NEW all \in BOOLEAN, NEW page \in Details, NEW from \in Int,
           NEW state \in States, size' \in PullSizes, Roomy(size'[1]), read' = page,
           P!RowsIn(state, P!BodyHeight(size')) \in Nat,
           P!RowsIn(state, P!BodyHeight(size')) <= P!BodyHeight(size'),
           P!DrawDetail(page, state, size', from, all)
    PROVE  /\ {scroll', viewport', lines'} \subseteq Int
           /\ P!DrawnFits' /\ P!DocumentIsComplete' /\ P!FocusIsTold'
<1> DEFINE doc == P!Document(page, size'[1], all)
<1>1. Len(doc) \in Nat /\ Complete(doc, page, size'[1])
  <2>1. IsPull(page)
    BY PullIs
  <2>2. doc \in Seq(DocLine)
    BY <2>1, DocumentTells DEF Tells
  <2>3. Complete(doc, page, size'[1])
    BY <2>1, DocumentIsAll
  <2> HIDE DEF doc
  <2> QED
    BY <2>2, <2>3
<1> HIDE DEF doc
<1>2. /\ lines' = Len(doc)
      /\ viewport' = P!RowsIn(state, P!BodyHeight(size'))
      /\ scroll' = P!Scrolled(from, 0, lines', viewport')
      /\ screen' = [kind |-> "document", doc |-> doc, top |-> scroll']
  BY DEF P!DrawDetail, doc
<1>3. screen'.kind = "document" /\ screen'.doc = doc /\ screen'.top = scroll'
  BY <1>2
<1>4. lines' \in Nat /\ viewport' \in Nat
  BY <1>1, <1>2
<1>5. scroll' \in Int /\ scroll' + P!Min({viewport', lines'}) <= lines'
  <2>1. lines' \in Int /\ viewport' \in Int /\ 0 \in Int /\ lines' >= 0 /\ viewport' >= 0
    BY <1>4
  <2> QED
    BY <1>2, <2>1, ScrolledIs, Zenon
<1>6. P!DocumentIsComplete'
  BY <1>1, <1>3 DEF P!DocumentIsComplete, Complete
<1>7. P!DrawnFits'
  BY <1>2, <1>3, <1>4, <1>5 DEF P!DrawnFits
<1>8. P!FocusIsTold'
  BY <1>3 DEF P!FocusIsTold
<1> QED
  BY <1>4, <1>5, <1>6, <1>7, <1>8

\* A drawn list is as wide as the screen and has its cursor on a row.
LEMMA DrawnListFits ==
    ASSUME Kept, view = "list", NEW state \in States, size' \in PullSizes,
           P!BigEnough(size'), read' \in Pages,
           state \in {"rows", "offline-with-cache"} => P!Items(read') > 0,
           OnARow(read', cursor'),
           P!DrawList(IF P!Items(read') > 0 THEN read' ELSE <<>>, state, size')
    PROVE  {scroll', viewport', lines'} \subseteq Int /\ P!DrawnFits'
<1> DEFINE rows == IF P!Items(read') > 0 THEN read' ELSE <<>>
           focus == IF P!BodyHeight(size') >= 6 THEN 1 ELSE 0
           columns == P!ColumnsFor(rows, size'[1])
<1>1. /\ size'[1] \in Nat /\ size'[2] \in Nat /\ MinWidth \in Nat /\ MinHeight \in Nat
      /\ size'[1] >= 9 /\ size'[2] >= 2
  BY ScreensAssumption DEF P!PullRequestsAssumption, P!BigEnough
<1>2. /\ viewport' = P!BodyHeight(size') - focus
      /\ UNCHANGED <<scroll, lines>>
      /\ IF P!RowsIn(state, viewport') >= 0
         THEN /\ screen'.kind = "list" /\ screen'.columns = columns
              /\ screen'.cursor = cursor'
         ELSE screen' = [kind |-> state]
  BY DEF P!DrawList
<1>3. viewport' \in Int
  BY <1>1, <1>2 DEF P!BodyHeight
<1>4. {scroll', viewport', lines'} \subseteq Int
  BY <1>2, <1>3 DEF Kept
<1>5. CASE ~(P!RowsIn(state, viewport') >= 0)
  <2>1. screen'.kind \notin {"document", "list"}
    BY <1>2, <1>5 DEF States
  <2> QED
    BY <1>4, <2>1 DEF P!DrawnFits
<1>6. CASE P!RowsIn(state, viewport') >= 0
  <2>1. state \in {"rows", "offline-with-cache"}
    BY <1>6 DEF P!RowsIn, States
  <2>2. P!Items(read') > 0
    BY <2>1
  <2>3. P!Items(read') = Len(read')
    BY <2>2, ItemsAre, ScreensAssumption DEF Kept
  <2>4. cursor' < Len(read')
    BY <2>2, <2>3 DEF OnARow
  <2>5. columns \in {P!ForWidth(size'[1]), P!ForWidth(size'[1]) \ {"Repo"}}
    BY DEF P!ColumnsFor
  <2> HIDE DEF columns
  <2>6. P!RowWidth(columns, size'[1]) = size'[1]
    BY <1>1, <2>5, RowFits
  <2>7. screen'.kind = "list" /\ screen'.columns = columns /\ screen'.cursor = cursor'
    BY <1>2, <1>6
  <2> QED
    BY <1>4, <2>4, <2>6, <2>7 DEF P!DrawnFits
<1> QED
  BY <1>5, <1>6

\* A column that is left out is one that all rows share.
LEMMA ColumnsAre ==
    ASSUME NEW width \in Nat, width >= 80, NEW rows, NEW columns,
           columns = P!ColumnsFor(rows, width)
    PROVE  /\ "State" \in columns
           /\ "Repo" \in columns <=> ~P!SharedRepo(rows)
<1>1. {"Repo", "State"} \subseteq P!ForWidth(width)
  <2>1. CASE width < 100
    BY <2>1 DEF P!ForWidth
  <2>2. CASE width >= 100 /\ width < 120
    BY <2>2 DEF P!ForWidth
  <2>3. CASE width >= 120
    BY <2>3 DEF P!ForWidth, P!ColumnWidth
  <2> QED
    BY <2>1, <2>2, <2>3
<1> QED
  BY <1>1 DEF P!ColumnsFor

\* Tuples of different lengths differ.
LEMMA TuplesDiffer ==
    /\ \A u : <<u>> # <<>>
    /\ \A u, v : <<u>> = <<v>> => u = v
    /\ \A u, v, z : <<u>> # <<v, z>>
<1>1. ASSUME NEW u
      PROVE  <<u>> # <<>>
  <2>1. Len(<<u>>) = 1 /\ Len(<<>>) = 0
    OBVIOUS
  <2> QED
    BY <2>1
<1>2. ASSUME NEW u, NEW v, <<u>> = <<v>>
      PROVE  u = v
  <2>1. <<u>>[1] = u /\ <<v>>[1] = v
    OBVIOUS
  <2> QED
    BY <1>2, <2>1, Zenon
<1>3. ASSUME NEW u, NEW v, NEW z
      PROVE  <<u>> # <<v, z>>
  <2>1. Len(<<u>>) = 1 /\ Len(<<v, z>>) = 2
    OBVIOUS
  <2> QED
    BY <2>1
<1> QED
  BY <1>1, <1>2, <1>3

\* A text that was cut ends in what no text has, so two texts that come out the
\* same were the same, or were both cut and begin alike.
LEMMA ElideTells ==
    ASSUME NEW a \in Seq(Letter), NEW b \in Seq(Letter), NEW w \in Nat \ {0}
    PROVE  /\ Elide(a, w) = Elide(b, w) => SameStart(a, b, w - 1)
           /\ a = Elide(b, w) => a = b
<1> DEFINE cutA == Append(SubSeq(a, 1, w - 1), Ellipsis)
           cutB == Append(SubSeq(b, 1, w - 1), Ellipsis)
<1>1. /\ Elide(a, w) = IF Len(a) <= w THEN a ELSE cutA
      /\ Elide(b, w) = IF Len(b) <= w THEN b ELSE cutB
  <2>1. Len(a) \in Nat /\ Len(b) \in Nat
    OBVIOUS
  <2> HIDE DEF cutA, cutB
  <2>2. Elide(a, w) = IF Len(a) <= w THEN a ELSE cutA
    BY <2>1 DEF Elide, cutA
  <2>3. Elide(b, w) = IF Len(b) <= w THEN b ELSE cutB
    BY <2>1 DEF Elide, cutB
  <2> QED
    BY <2>2, <2>3
<1>2. ASSUME NEW t \in Seq(Letter), ~(Len(t) <= w)
      PROVE  LET cut == Append(SubSeq(t, 1, w - 1), Ellipsis) IN
             /\ cut \in Seq(Nat) /\ Len(cut) = w /\ cut[w] = Ellipsis
             /\ \A k \in 1 .. w - 1 : cut[k] = t[k]
  <2> DEFINE start == SubSeq(t, 1, w - 1)
  <2>1. start \in Seq(Nat) /\ Len(start) = w - 1 /\ \A k \in 1 .. w - 1 : start[k] = t[k]
    BY <1>2 DEF Letter
  <2> HIDE DEF start
  <2>2. LET cut == Append(start, Ellipsis) IN
             /\ cut \in Seq(Nat) /\ Len(cut) = w /\ cut[w] = Ellipsis
             /\ \A k \in 1 .. w - 1 : cut[k] = start[k]
    BY <2>1 DEF Ellipsis
  <2> QED
    BY <2>1, <2>2 DEF start
<1>3. ASSUME NEW s \in Seq(Letter), NEW t \in Seq(Letter), ~(Len(t) <= w)
      PROVE  s # Append(SubSeq(t, 1, w - 1), Ellipsis)
  <2> DEFINE cut == Append(SubSeq(t, 1, w - 1), Ellipsis)
  <2>1. Len(cut) = w /\ cut[w] = Ellipsis
    BY <1>2, <1>3
  <2> HIDE DEF cut
  <2>2. Len(s) = w => s[w] # Ellipsis
    BY DEF Letter
  <2> QED
    BY <2>1, <2>2 DEF cut
<1>4. a = Elide(b, w) => a = b
  BY <1>1, <1>3
<1>5. ASSUME Elide(a, w) = Elide(b, w)
      PROVE  SameStart(a, b, w - 1)
  <2>1. CASE Len(a) <= w /\ Len(b) <= w
    BY <1>1, <1>5, <2>1 DEF SameStart
  <2>2. CASE Len(a) <= w /\ ~(Len(b) <= w)
    BY <1>1, <1>3, <1>5, <2>2
  <2>3. CASE ~(Len(a) <= w) /\ Len(b) <= w
    BY <1>1, <1>3, <1>5, <2>3
  <2>4. CASE ~(Len(a) <= w) /\ ~(Len(b) <= w)
    <3>1. cutA = cutB
      BY <1>1, <1>5, <2>4
    <3>2. \A k \in 1 .. w - 1 : cutA[k] = a[k] /\ cutB[k] = b[k]
      BY <1>2, <2>4
    <3> HIDE DEF cutA, cutB
    <3>3. \A k \in 1 .. w - 1 : k \in DOMAIN a /\ k \in DOMAIN b
      BY <2>4
    <3> QED
      BY <3>1, <3>2, <3>3 DEF SameStart
  <2> QED
    BY <2>1, <2>2, <2>3, <2>4
<1> QED
  BY <1>4, <1>5

\* An owner and a name, or the name.
RepoParts(text, name) ==
    \/ text = <<name>>
    \/ \E owner \in Seq(Letter) : text = <<owner, name>>

\* A column tells two repositories apart, unless it cuts both.
LEMMA FitRepoTells ==
    ASSUME NEW m \in Seq(Letter), NEW n \in Seq(Letter), NEW a, NEW b,
           RepoParts(a, m), RepoParts(b, n), NEW w \in Nat, w > 3,
           FitRepo(a, w) = FitRepo(b, w)
    PROVE  a = b \/ (~RepoFits(a, w) /\ ~RepoFits(b, w) /\ SameStart(m, n, w - 3))
<1>1. ASSUME NEW s \in Seq(Letter), NEW x, RepoParts(x, s)
      PROVE  /\ RepoFits(x, w) => FitRepo(x, w) = x
             /\ ~RepoFits(x, w) =>
                   \/ FitRepo(x, w) = <<Elide(s, w)>> /\ x = <<s>>
                   \/ FitRepo(x, w) = <<<<Ellipsis>>, Elide(s, w - 2)>>
  <2>1. CASE x = <<s>>
    <3>1. Len(x) = 1 /\ x[1] = s
      BY <2>1
    <3> QED
      BY <2>1, <3>1 DEF FitRepo
  <2>2. ASSUME NEW owner \in Seq(Letter), x = <<owner, s>>
        PROVE  FitRepo(x, w) = IF RepoFits(x, w) THEN x ELSE <<<<Ellipsis>>, Elide(s, w - 2)>>
    <3>1. Len(x) = 2 /\ x[2] = s
      BY <2>2
    <3> QED
      BY <3>1 DEF FitRepo
  <2> QED
    BY <1>1, <2>1, <2>2 DEF RepoParts
<1>2. ASSUME NEW s \in Seq(Letter), NEW x, RepoParts(x, s), ~RepoFits(x, w),
             NEW t \in Seq(Letter), NEW y, RepoParts(y, t), y = FitRepo(x, w)
      PROVE  y = x
  <2>1. CASE y = <<Elide(s, w)>> /\ x = <<s>>
    <3>2. y = <<t>> /\ t = Elide(s, w)
      <4>1. y = <<t>>
        BY <1>2, <2>1, TuplesDiffer, Zenon DEF RepoParts
      <4> QED
        BY <2>1, <4>1, TuplesDiffer, Zenon
    <3>3. t = s
      BY <3>2, ElideTells
    <3> QED
      BY <2>1, <3>2, <3>3
  <2>2. CASE y = <<<<Ellipsis>>, Elide(s, w - 2)>>
    <3>1. PICK owner \in Seq(Letter) : y = <<owner, t>>
      BY <1>2, <2>2 DEF RepoParts
    <3>2. owner = <<Ellipsis>>
      BY <2>2, <3>1
    <3> QED
      BY <3>2 DEF Letter
  <2> QED
    BY <1>1, <1>2, <2>1, <2>2
<1>3. ASSUME ~RepoFits(a, w), ~RepoFits(b, w)
      PROVE  SameStart(m, n, w - 3)
  <2>2. CASE FitRepo(a, w) = <<Elide(m, w)>> /\ FitRepo(b, w) = <<Elide(n, w)>>
    <3>4. Elide(m, w) = Elide(n, w)
      BY <2>2, TuplesDiffer, Zenon
    <3>2. SameStart(m, n, w - 1)
      BY <3>4, ElideTells
    <3> QED
      BY <3>2 DEF SameStart
  <2>3. CASE /\ FitRepo(a, w) = <<<<Ellipsis>>, Elide(m, w - 2)>>
             /\ FitRepo(b, w) = <<<<Ellipsis>>, Elide(n, w - 2)>>
    <3>4. <<<<Ellipsis>>, Elide(m, w - 2)>>[2] = <<<<Ellipsis>>, Elide(n, w - 2)>>[2]
      BY <2>3, Zenon
    <3>1. Elide(m, w - 2) = Elide(n, w - 2)
      BY <3>4
    <3>2. w - 2 \in Nat \ {0} /\ (w - 2) - 1 = w - 3
      OBVIOUS
    <3>3. SameStart(m, n, (w - 2) - 1)
      BY <3>1, <3>2, ElideTells
    <3> QED
      BY <3>2, <3>3
  <2>4. \/ FitRepo(a, w) = <<Elide(m, w)>>
        \/ FitRepo(a, w) = <<<<Ellipsis>>, Elide(m, w - 2)>>
    BY <1>1, <1>3
  <2>5. \/ FitRepo(b, w) = <<Elide(n, w)>>
        \/ FitRepo(b, w) = <<<<Ellipsis>>, Elide(n, w - 2)>>
    BY <1>1, <1>3
  <2>6. FitRepo(a, w) = FitRepo(b, w)
    OBVIOUS
  <2>7. /\ <<Elide(m, w)>> # <<<<Ellipsis>>, Elide(n, w - 2)>>
        /\ <<Elide(n, w)>> # <<<<Ellipsis>>, Elide(m, w - 2)>>
    BY TuplesDiffer, Zenon
  <2> DEFINE oneM == <<Elide(m, w)>>
             oneN == <<Elide(n, w)>>
             twoM == <<<<Ellipsis>>, Elide(m, w - 2)>>
             twoN == <<<<Ellipsis>>, Elide(n, w - 2)>>
  <2> HIDE DEF oneM, oneN, twoM, twoN
  <2>8. /\ FitRepo(a, w) = oneM \/ FitRepo(a, w) = twoM
        /\ FitRepo(b, w) = oneN \/ FitRepo(b, w) = twoN
        /\ oneM # twoN /\ oneN # twoM
    BY <2>4, <2>5, <2>7 DEF oneM, oneN, twoM, twoN
  <2>9. \/ FitRepo(a, w) = oneM /\ FitRepo(b, w) = oneN
        \/ FitRepo(a, w) = twoM /\ FitRepo(b, w) = twoN
    BY <2>6, <2>8
  <2> QED
    BY <2>2, <2>3, <2>9 DEF oneM, oneN, twoM, twoN
<1> QED
  BY <1>1, <1>2, <1>3

\* The two surfaces cut texts as Text.tla says.
LEMMA PullsTextCuts ==
    /\ \A t : P!FitRepo(t, 20) = FitRepo(t, 20)
    /\ \A t : P!RepoFits(t, 20) <=> RepoFits(t, 20)
    /\ \A s, t : P!SameStart(s, t, 17) <=> SameStart(s, t, 17)
<1>1. \A t : P!RepoCells(t) = RepoCells(t)
  BY PullsText DEF P!RepoCells, RepoCells
<1>2. \A t : P!RepoFits(t, 20) <=> RepoFits(t, 20)
  BY <1>1 DEF P!RepoFits, RepoFits
<1>3. \A t, w : P!Elide(t, w) = Elide(t, w)
  BY DEF P!Elide, Elide, P!Ellipsis, Ellipsis
<1>4. \A t : P!FitRepo(t, 20) = FitRepo(t, 20)
  BY <1>2, <1>3 DEF P!FitRepo, FitRepo, P!Ellipsis, Ellipsis
<1>5. \A s, t : P!SameStart(s, t, 17) <=> SameStart(s, t, 17)
  BY DEF P!SameStart, SameStart
<1> QED
  BY <1>2, <1>4, <1>5

LEMMA InboxTextCuts ==
    /\ \A t : I!FitRepo(t, 20) = FitRepo(t, 20)
    /\ \A t : I!RepoFits(t, 20) <=> RepoFits(t, 20)
    /\ \A s, t : I!SameStart(s, t, 17) <=> SameStart(s, t, 17)
<1>1. \A s : I!Total(s) = Total(s)
  <2>1. \A S : I!Max(S) = Max(S)
    BY DEF I!Max, Max
  <2> QED
    BY <2>1 DEF I!Total, I!FoldLeft, I!MapThenFoldSet, Total, FoldLeft, MapThenFoldSet, I!Max, Max
<1>2. \A t : I!RepoCells(t) = RepoCells(t)
  BY <1>1 DEF I!RepoCells, RepoCells
<1>3. \A t : I!RepoFits(t, 20) <=> RepoFits(t, 20)
  BY <1>2 DEF I!RepoFits, RepoFits
<1>4. \A t, w : I!Elide(t, w) = Elide(t, w)
  BY DEF I!Elide, Elide, I!Ellipsis, Ellipsis
<1>5. \A t : I!FitRepo(t, 20) = FitRepo(t, 20)
  BY <1>3, <1>4 DEF I!FitRepo, FitRepo, I!Ellipsis, Ellipsis
<1>6. \A s, t : I!SameStart(s, t, 17) <=> SameStart(s, t, 17)
  BY DEF I!SameStart, SameStart
<1> QED
  BY <1>3, <1>5, <1>6

\* Two rows that look alike are of one repository, as far as the column tells, and
\* of one state and claim on the reader.
LEMMA RowsDiffer ==
    ASSUME NEW page \in Lists, NEW width \in Nat, width >= 80,
           NEW columns, columns = P!ColumnsFor(page, width),
           NEW i \in DOMAIN page, NEW j \in DOMAIN page,
           P!RowOf(page[i], columns) = P!RowOf(page[j], columns)
    PROVE  /\ P!SameRepo(page[i], page[j])
           /\ P!DisplayStatus(page[i]) = P!DisplayStatus(page[j])
           /\ P!AwaitsMe(page[i]) = P!AwaitsMe(page[j])
<1> DEFINE a == page[i]
           b == page[j]
<1>1. "State" \in columns /\ ("Repo" \in columns <=> ~P!SharedRepo(page))
  BY ColumnsAre
<1>2. a.repo \in Seq(Letter) \X Seq(Letter) /\ b.repo \in Seq(Letter) \X Seq(Letter)
  <2>1. a \in P!Range(page) /\ b \in P!Range(page)
    BY DEF P!Range
  <2>2. P!Letter = Letter
    BY DEF P!Letter, P!Ellipsis, Letter, Ellipsis
  <2> QED
    BY <2>1, <2>2, ScreensAssumption DEF P!PullRequestsAssumption
<1>3. P!SharedRepo(page) => a.repo = b.repo
  BY DEF P!SharedRepo
<1> HIDE DEF a, b
<1>4. /\ P!RowOf(a, columns) = P!RowOf(b, columns)
      /\ P!RowOf(a, columns)["Bold"] = P!AwaitsMe(a)
      /\ P!RowOf(b, columns)["Bold"] = P!AwaitsMe(b)
      /\ P!RowOf(a, columns)["State"] = P!DisplayStatus(a)
      /\ P!RowOf(b, columns)["State"] = P!DisplayStatus(b)
  BY <1>1 DEF P!RowOf, a, b
<1>5. P!DisplayStatus(a) = P!DisplayStatus(b) /\ P!AwaitsMe(a) = P!AwaitsMe(b)
  BY <1>4
<1>6. CASE ~P!SharedRepo(page)
  <2> DEFINE x == P!RepoText(a)
             y == P!RepoText(b)
             x1 == a.repo[1]
             x2 == a.repo[2]
             y1 == b.repo[1]
             y2 == b.repo[2]
  <2>1. P!RowOf(a, columns)["Repo"] = P!FitRepo(x, 20) /\ P!RowOf(b, columns)["Repo"] = P!FitRepo(y, 20)
    BY <1>1, <1>6 DEF P!RowOf, P!ColumnWidth
  <2>2. /\ \A t : P!FitRepo(t, 20) = FitRepo(t, 20)
        /\ \A t : P!RepoFits(t, 20) <=> RepoFits(t, 20)
        /\ \A s, t : P!SameStart(s, t, 17) <=> SameStart(s, t, 17)
    BY PullsTextCuts
  <2>3. FitRepo(x, 20) = FitRepo(y, 20)
    BY <1>4, <2>1, <2>2
  <2>4. {x1, x2, y1, y2} \subseteq Seq(Letter) /\ a.repo = <<x1, x2>> /\ b.repo = <<y1, y2>>
    BY <1>2
  <2>5. x = (IF x1 = Viewer THEN <<x2>> ELSE <<x1, x2>>) /\ y = (IF y1 = Viewer THEN <<y2>> ELSE <<y1, y2>>)
    BY <2>4 DEF P!RepoText
  <2> HIDE DEF x, y, x1, x2, y1, y2
  <2>6. RepoParts(x, x2) /\ RepoParts(y, y2) /\ (x = y => x1 = y1 /\ x2 = y2)
    BY <2>4, <2>5 DEF RepoParts
  <2>7. x = y \/ (~RepoFits(x, 20) /\ ~RepoFits(y, 20) /\ SameStart(x2, y2, 20 - 3))
    <3>1. 20 \in Nat /\ 20 > 3
      OBVIOUS
    <3> QED
      BY <2>3, <2>4, <2>6, <3>1, FitRepoTells
  <2>8. CASE x = y
    <3>1. a.repo = b.repo
      BY <2>4, <2>6, <2>8
    <3> QED
      BY <1>5, <3>1 DEF a, b, P!SameRepo
  <2>9. CASE ~RepoFits(x, 20) /\ ~RepoFits(y, 20) /\ SameStart(x2, y2, 20 - 3)
    <3>1. 20 - 3 = 17
      OBVIOUS
    <3>2. P!SameStart(x2, y2, 17) /\ ~P!RepoFits(x, 20) /\ ~P!RepoFits(y, 20)
      BY <2>2, <2>9, <3>1
    <3>3. P!ColumnWidth["Repo"] = 20
      BY DEF P!ColumnWidth
    <3>4. P!SameRepo(a, b)
      BY <3>1, <3>2, <3>3 DEF P!SameRepo, x, y, x2, y2
    <3> QED
      BY <1>5, <3>4 DEF a, b
  <2> QED
    BY <2>7, <2>8, <2>9
<1>7. CASE P!SharedRepo(page)
  BY <1>3, <1>5, <1>7 DEF a, b, P!SameRepo
<1> QED
  BY <1>6, <1>7

\* A draw of a list tells what is asked of the reader.
LEMMA DrawnListTells ==
    ASSUME Kept, view = "list", NEW state \in States, Roomy(size'[1]), read' \in Pages,
           state \in {"rows", "offline-with-cache"} => P!Items(read') > 0,
           OnARow(read', cursor'),
           P!DrawList(IF P!Items(read') > 0 THEN read' ELSE <<>>, state, size')
    PROVE  P!FocusIsTold' /\ P!DocumentIsComplete'
<1> DEFINE rows == IF P!Items(read') > 0 THEN read' ELSE <<>>
           focus == IF P!BodyHeight(size') >= 6 THEN 1 ELSE 0
<1>1. IF P!RowsIn(state, viewport') >= 0
      THEN /\ screen'.kind = "list" /\ screen'.cursor = cursor'
           /\ screen'.focus = IF focus = 1 /\ cursor' < Len(rows)
                              THEN P!FocusLine(rows[cursor' + 1], size'[1]) ELSE Nothing
      ELSE screen' = [kind |-> state]
  BY DEF P!DrawList
<1>2. screen'.kind # "document"
  BY <1>1 DEF States
<1>3. P!DocumentIsComplete'
  BY <1>2 DEF P!DocumentIsComplete
<1>4. ASSUME screen'.kind = "list", screen'.focus # Nothing
      PROVE  FocusTells(screen'.focus, read'[screen'.cursor + 1], size'[1])
  <2>1. P!RowsIn(state, viewport') >= 0
    BY <1>1, <1>4 DEF States
  <2>2. read' \in Lists /\ rows = read' /\ P!Items(read') > 0 /\ P!Items(read') = Len(read')
    <3>1. state \in {"rows", "offline-with-cache"}
      BY <2>1 DEF P!RowsIn, States
    <3> QED
      BY <3>1, ItemsAre, ScreensAssumption DEF Kept
  <2>3. screen'.focus = P!FocusLine(read'[cursor' + 1], size'[1]) /\ screen'.cursor = cursor'
    BY <1>1, <1>4, <2>1, <2>2
  <2>4. cursor' + 1 \in DOMAIN read'
    <3>1. read' \in Seq(P!Range(read'))
      BY <2>2, ScreensAssumption DEF P!PullRequestsAssumption
    <3>2. cursor' \in Nat /\ cursor' < Len(read')
      BY <2>2 DEF OnARow
    <3> QED
      BY <3>1, <3>2
  <2>5. Decided(read'[cursor' + 1])
    <3>1. read'[cursor' + 1] \in P!Range(read')
      BY <2>4 DEF P!Range
    <3> QED
      BY <2>2, <3>1, ScreensAssumption DEF P!FocusAssumption, Decided
  <2> QED
    BY <2>3, <2>5, FocusLineTells
<1>5. P!FocusIsTold'
  BY <1>4 DEF P!FocusIsTold, FocusTells
<1> QED
  BY <1>3, <1>5

\* A draw of a list tells its rows apart.
LEMMA DrawnListTellsApart ==
    ASSUME Kept, view = "list", NEW state \in States, size' \in PullSizes,
           read' \in Pages, state \in {"rows", "offline-with-cache"} => P!Items(read') > 0,
           P!DrawList(IF P!Items(read') > 0 THEN read' ELSE <<>>, state, size')
    PROVE  P!RowsAreToldApart'
<1> DEFINE rows == IF P!Items(read') > 0 THEN read' ELSE <<>>
           columns == P!ColumnsFor(rows, size'[1])
           drawn == [i \in DOMAIN rows |-> P!RowOf(rows[i], columns)]
<1>1. IF P!RowsIn(state, viewport') >= 0
      THEN /\ screen'.kind = "list" /\ screen'.columns = columns
           /\ screen'.repo = P!TitleRepo(rows) /\ screen'.rows = drawn
      ELSE screen' = [kind |-> state]
  BY DEF P!DrawList
<1>2. CASE screen'.kind # "list" \/ ~(size'[1] >= 80)
  BY <1>2 DEF P!RowsAreToldApart
<1>3. CASE screen'.kind = "list" /\ size'[1] >= 80
  <2>1. P!RowsIn(state, viewport') >= 0
    BY <1>1, <1>3 DEF States
  <2>2. read' \in Lists /\ rows = read'
    <3>1. state \in {"rows", "offline-with-cache"}
      BY <2>1 DEF P!RowsIn, States
    <3> QED
      BY <3>1, ItemsAre, ScreensAssumption DEF Kept
  <2>3. size'[1] \in Nat
    BY ScreensAssumption DEF P!PullRequestsAssumption
  <2> HIDE DEF rows, columns
  <2>4. ASSUME NEW i \in DOMAIN screen'.rows, NEW j \in DOMAIN screen'.rows,
               screen'.rows[i] = screen'.rows[j]
        PROVE  /\ P!SameRepo(read'[i], read'[j])
               /\ P!DisplayStatus(read'[i]) = P!DisplayStatus(read'[j])
               /\ P!AwaitsMe(read'[i]) = P!AwaitsMe(read'[j])
    <3>1. i \in DOMAIN read' /\ j \in DOMAIN read'
          /\ P!RowOf(read'[i], columns) = P!RowOf(read'[j], columns)
      BY <1>1, <2>1, <2>2, <2>4
    <3>2. columns = P!ColumnsFor(read', size'[1])
      BY <2>2 DEF columns
    <3> QED
      BY <1>3, <2>2, <2>3, <3>1, <3>2, RowsDiffer
  <2>5. ASSUME "Repo" \notin screen'.columns, NEW i \in DOMAIN read'
        PROVE  read'[i].repo = screen'.repo
    <3>1. P!SharedRepo(read')
      BY <1>1, <1>3, <2>1, <2>2, <2>3, <2>5, ColumnsAre DEF columns
    <3>2. screen'.repo = read'[1].repo
      BY <1>1, <2>1, <2>2, <3>1 DEF P!TitleRepo
    <3> QED
      BY <3>1, <3>2 DEF P!SharedRepo
  <2> QED
    BY <2>4, <2>5 DEF P!RowsAreToldApart
<1> QED
  BY <1>2, <1>3

\* So what a draw leaves fits, tells rows apart and leaves nothing out.
LEMMA DrawFits ==
    ASSUME Kept, size' \in PullSizes, read' \in Pages, error' \in Failures,
           expanded' \in BOOLEAN, OnARow(read', cursor'), NEW from \in Int, P!Draw(from)
    PROVE  /\ {scroll', viewport', lines'} \subseteq Int
           /\ P!DrawnFits' /\ P!RowsAreToldApart'
           /\ P!DocumentIsComplete' /\ P!FocusIsTold'
<1> DEFINE state == P!State(read', error')
<1>0. P!BigEnough(size') => Roomy(size'[1])
  BY ScreensAssumption DEF P!BigEnough, P!PullRequestsAssumption, Roomy
<1>1. P!PullRequestsAssumption /\ Nothing \notin P!Errors /\ view \in {"list", "detail"}
  BY ScreensAssumption DEF P!PullRequestsAssumption, Kept
<1>2. P!Items(read') \in Nat
  BY <1>1, ItemsAre
<1>3. state \in States /\ (state \in {"rows", "offline-with-cache"} => P!Items(read') > 0)
  BY <1>1, <1>2, StateIs
<1> HIDE DEF state
<1>4. CASE ~P!BigEnough(size')
  <2>1. /\ screen' = [kind |-> "too-small"] /\ scroll' = from
        /\ UNCHANGED <<viewport, lines>>
    BY <1>4 DEF P!Draw
  <2>2. screen'.kind \notin {"document", "list"}
    BY <2>1
  <2> QED
    BY <2>1, <2>2 DEF P!DrawnFits, P!RowsAreToldApart, P!DocumentIsComplete, P!FocusIsTold, Kept
<1>5. CASE P!BigEnough(size') /\ view = "list"
  <2>1. P!DrawList(IF P!Items(read') > 0 THEN read' ELSE <<>>, state, size')
    BY <1>5 DEF P!Draw, state
  <2> QED
    BY <1>0, <1>3, <1>5, <2>1, DrawnListFits, DrawnListTellsApart, DrawnListTells
<1>6. CASE P!BigEnough(size') /\ view = "detail"
  <2> DEFINE tall == P!BodyHeight(size')
  <2>1. tall \in Nat
    BY <1>6, ScreensAssumption DEF P!BodyHeight, P!BigEnough, P!PullRequestsAssumption
  <2>2. /\ P!RowsIn(state, tall) \in Int /\ P!RowsIn(state, tall) <= tall
        /\ P!RowsIn(state, tall) >= 0 => state \in {"rows", "offline-with-cache"}
    BY <1>3, <2>1, RowsInIs
  <2>3. CASE P!RowsIn(state, tall) >= 0
    <3>1. read' \in Details
      BY <1>1, <1>3, <1>6, <2>2, <2>3, ItemsAre
    <3>2. P!DrawDetail(read', state, size', from, expanded')
      BY <1>6, <2>3 DEF P!Draw, state
    <3>3. P!RowsIn(state, tall) \in Nat
      BY <2>2, <2>3
    <3>4. /\ {scroll', viewport', lines'} \subseteq Int
          /\ P!DrawnFits' /\ P!DocumentIsComplete' /\ P!FocusIsTold'
      BY <1>0, <1>3, <1>6, <2>2, <3>1, <3>2, <3>3, DrawnDetailFits
    <3>5. screen'.kind = "document"
      BY <3>2 DEF P!DrawDetail
    <3> QED
      BY <3>4, <3>5 DEF P!RowsAreToldApart
  <2>4. CASE ~(P!RowsIn(state, tall) >= 0)
    <3>1. /\ screen' = [kind |-> state] /\ scroll' = from
          /\ UNCHANGED <<viewport, lines>>
      BY <1>6, <2>4 DEF P!Draw, state
    <3>2. screen'.kind \notin {"document", "list"}
      BY <1>3, <3>1 DEF States
    <3> QED
      BY <3>1, <3>2 DEF P!DrawnFits, P!RowsAreToldApart, P!DocumentIsComplete, P!FocusIsTold, Kept
  <2> QED
    BY <2>3, <2>4
<1> QED
  BY <1>1, <1>4, <1>5, <1>6

\* What is known of the pull request surfaces between two steps.
PullsInv ==
    /\ Kept
    /\ size \in PullSizes /\ read \in Pages /\ error \in Failures /\ expanded \in BOOLEAN
    /\ cursor \in Nat /\ OnARow(read, cursor)
    /\ P!DrawnFits /\ P!RowsAreToldApart /\ P!DocumentIsComplete /\ P!FocusIsTold

LEMMA PullsStart ==
    ASSUME P!Init
    PROVE  PullsInv
<1>1. P!Items(read) = 0
  BY DEF P!Init, P!Items
<1>2. screen.kind = "cold"
  BY DEF P!Init
<1>3. /\ Kept /\ OnARow(read, cursor)
      /\ size \in PullSizes /\ read \in Pages /\ error \in Failures /\ cursor \in Nat
  BY <1>1 DEF P!Init, Kept, Pages, Failures, OnARow
<1>4. expanded \in BOOLEAN
  BY DEF P!Init
<1>5. P!DrawnFits /\ P!RowsAreToldApart /\ P!DocumentIsComplete /\ P!FocusIsTold
  BY <1>2 DEF P!DrawnFits, P!RowsAreToldApart, P!DocumentIsComplete, P!FocusIsTold
<1> QED
  BY <1>3, <1>4, <1>5 DEF PullsInv

\* Every handler of the pull request surfaces ends in such a draw.
LEMMA PullsStep ==
    ASSUME PullsInv, P!Next
    PROVE  PullsInv'
<1>1. /\ Kept /\ P!PullRequestsAssumption
      /\ P!Items(read) \in Nat
  BY ItemsAre, ScreensAssumption DEF PullsInv, Kept
<1> DEFINE Ready ==
               /\ view' = view /\ size' \in PullSizes /\ read' \in Pages /\ error' \in Failures
               /\ expanded' \in BOOLEAN /\ cursor' \in Nat /\ OnARow(read', cursor')
<1>2. ASSUME NEW from \in Int, Ready, P!Draw(from)
      PROVE  PullsInv'
  <2>1. /\ {scroll', viewport', lines'} \subseteq Int /\ P!DrawnFits' /\ P!RowsAreToldApart'
        /\ P!DocumentIsComplete' /\ P!FocusIsTold'
    BY <1>1, <1>2, DrawFits
  <2>2. Pages' = Pages /\ (OnARow(read, cursor)' <=> OnARow(read', cursor'))
    BY <1>2 DEF Pages, OnARow, P!Items
  <2> QED
    BY <1>1, <1>2, <2>1, <2>2 DEF PullsInv, Kept
<1>3. \A d \in P!Moves : d \in Int
  <2>1. viewport \in Int
    BY <1>1 DEF Kept
  <2>2. P!HalfPage \in {viewport \div 2, 1}
    <3>1. viewport \div 2 \in Int /\ 1 \in Int
      BY <2>1
    <3> QED
      BY <3>1, GreaterOf, Zenon DEF P!HalfPage
  <2>3. P!HalfPage \in Int
    BY <2>1, <2>2
  <2> QED
    BY <2>3 DEF P!Moves
<1>4. ASSUME read' = read, NEW d \in Int, NEW at \in Int, cursor' = P!Moved(at, d, read)
      PROVE  cursor' \in Nat /\ OnARow(read', cursor')
  BY <1>1, <1>4, MovedIs DEF OnARow
<1>5. CASE P!Load
  <2>1. read' \in Pages /\ error' \in Failures
    BY <1>5 DEF P!Load, PullsInv, Kept, Pages, Failures
  <2>2. /\ cursor' = P!Moved(cursor, 0, read')
        /\ UNCHANGED <<view, size, expanded>>
        /\ P!Draw(scroll)
    BY <1>5 DEF P!Load
  <2>3. P!Items(read') \in Nat
    BY <1>1, <2>1, ItemsAre DEF Kept
  <2>4. cursor' \in Nat /\ OnARow(read', cursor')
    BY <2>2, <2>3, MovedIs DEF PullsInv, OnARow
  <2>5. Ready
    BY <2>1, <2>2, <2>4 DEF PullsInv
  <2> QED
    BY <1>1, <1>2, <2>2, <2>5 DEF Kept
<1>6. CASE P!MoveKey
  <2>1. /\ UNCHANGED <<view, size, read, error, expanded>>
        /\ P!Draw(scroll)
        /\ cursor' \in {P!Moved(cursor, d, read) : d \in P!Moves}
                       \cup {P!Moved(0, 0, read), P!Moved(P!Items(read), 0, read)}
    BY <1>6 DEF P!MoveKey
  <2>2. cursor' \in Nat /\ OnARow(read', cursor')
    <3>1. CASE \E d \in P!Moves : cursor' = P!Moved(cursor, d, read)
      BY <1>3, <1>4, <2>1, <3>1 DEF PullsInv
    <3>2. CASE cursor' = P!Moved(0, 0, read)
      BY <1>4, <2>1, <3>2
    <3>3. CASE cursor' = P!Moved(P!Items(read), 0, read)
      BY <1>1, <1>4, <2>1, <3>3
    <3> QED
      BY <2>1, <3>1, <3>2, <3>3
  <2>3. Ready
    BY <2>1, <2>2 DEF PullsInv
  <2> QED
    BY <1>1, <1>2, <2>1, <2>3 DEF Kept
<1>7. CASE P!ScrollKey
  <2>1. UNCHANGED <<view, size, read, error, cursor, expanded>>
    BY <1>7 DEF P!ScrollKey
  <2>2. PICK to \in {P!Scrolled(scroll, d, lines, viewport) : d \in P!Moves}
                    \cup {0, P!Scrolled(lines, 0, lines, viewport)} : P!Draw(to)
    BY <1>7 DEF P!ScrollKey
  <2>3. scroll \in Int /\ lines \in Int /\ viewport \in Int
    BY <1>1 DEF Kept
  <2>4. to \in Int
    <3>1. \A at, d \in Int : P!Scrolled(at, d, lines, viewport) \in Int
      BY <2>3, ScrolledIs, Zenon
    <3>2. 0 \in Int
      OBVIOUS
    <3> QED
      BY <1>3, <2>2, <2>3, <3>1, <3>2
  <2>5. Ready
    BY <2>1 DEF PullsInv
  <2> QED
    BY <1>2, <2>2, <2>4, <2>5
<1>8. CASE P!ExpandKey \/ P!Resize
  <2>1. /\ UNCHANGED <<view, read, error, cursor>>
        /\ P!Draw(scroll)
    BY <1>8 DEF P!ExpandKey, P!Resize
  <2>2. size' \in PullSizes
    BY <1>8 DEF P!ExpandKey, P!Resize, PullsInv
  <2>3. expanded' \in BOOLEAN
    BY <1>8 DEF P!ExpandKey, P!Resize, PullsInv
  <2>4. Ready
    BY <2>1, <2>2, <2>3 DEF PullsInv
  <2> QED
    BY <1>1, <1>2, <2>1, <2>4 DEF Kept
<1> QED
  BY <1>5, <1>6, <1>7, <1>8 DEF P!Next

-----------------------------------------------------------------------------
(* The inbox's screen.                                                     *)

\* A function on the first n numbers is a list of n.
LEMMA LengthIs ==
    ASSUME NEW s, NEW n \in Nat, DOMAIN s = 1 .. n, s = [k \in DOMAIN s |-> s[k]]
    PROVE  Len(s) = n
<1> DEFINE S == {s[k] : k \in 1 .. n}
<1>1. s \in [1 .. n -> S]
  OBVIOUS
<1> QED
  BY <1>1

\* An instance counts with its own copy of the operator.
LEMMA CountIs ==
    ASSUME NEW S
    PROVE  I!Cardinality(S) = Cardinality(S)
BY Zenon DEF I!Cardinality, Cardinality

\* A set in order has as many places as it has elements.
LEMMA SortedIs ==
    ASSUME NEW S, NEW before, IsFiniteSet(S)
    PROVE  /\ DOMAIN I!Sorted(S, before) = 1 .. Cardinality(S)
           /\ Cardinality(S) \in Nat
           /\ Len(I!Sorted(S, before)) = Cardinality(S)
<1>1. I!Sorted(S, before) = I!Ranked(S, before)
  BY DEF I!Sorted, I!The
<1> DEFINE At(n) == CHOOSE i \in S : I!Cardinality({j \in S : <<j, i>> \in before}) = n - 1
           list == [n \in 1 .. I!Cardinality(S) |-> At(n)]
<1>2. I!Ranked(S, before) = list
  BY DEF I!Ranked
<1> HIDE DEF At
<1>3. DOMAIN list = 1 .. I!Cardinality(S) /\ list = [n \in DOMAIN list |-> list[n]]
  OBVIOUS
<1> HIDE DEF list
<1> QED
  BY <1>1, <1>2, <1>3, CountIs, FS_CardinalityType, LengthIs

\* An order of the elements of S, all of them and strict.
OrdersAll(S, R) ==
    /\ \A i \in S : <<i, i>> \notin R
    /\ \A i, j, k \in S : <<i, j>> \in R /\ <<j, k>> \in R => <<i, k>> \in R
    /\ \A i, j \in S : i # j => <<i, j>> \in R \/ <<j, i>> \in R

\* Put in such an order, a set has an element of its own at every place: no two
\* have as many before them, and so each number of them is that of one.
LEMMA PlacedIs ==
    ASSUME NEW S, IsFiniteSet(S), NEW R, OrdersAll(S, R), NEW m \in 1 .. Cardinality(S)
    PROVE  I!Sorted(S, R)[m] \in S
<1> DEFINE n == Cardinality(S)
           first(i) == {j \in S : <<j, i>> \in R}
           rank == [i \in S |-> Cardinality(first(i)) + 1]
<1>1. n \in Nat /\ IsFiniteSet(1 .. n) /\ Cardinality(1 .. n) = n
  BY FS_CardinalityType, FS_Interval
<1>2. ASSUME NEW i \in S
      PROVE  /\ IsFiniteSet(first(i)) /\ Cardinality(first(i)) \in Nat
             /\ Cardinality(first(i)) <= n - 1
  <2>1. IsFiniteSet(S \ {i}) /\ Cardinality(S \ {i}) = n - 1
    BY FS_RemoveElement
  <2>2. first(i) \subseteq S \ {i}
    BY DEF OrdersAll
  <2> HIDE DEF first
  <2>3. IsFiniteSet(first(i)) /\ Cardinality(first(i)) <= Cardinality(S \ {i})
    BY <2>1, <2>2, FS_Subset
  <2> QED
    BY <2>1, <2>3, FS_CardinalityType
<1>3. ASSUME NEW i \in S, NEW j \in S, <<i, j>> \in R
      PROVE  Cardinality(first(i)) < Cardinality(first(j))
  <2>1. i \in first(j) /\ first(i) \subseteq first(j) \ {i}
    BY <1>3 DEF OrdersAll
  <2>2. IsFiniteSet(first(j)) /\ Cardinality(first(j)) \in Nat /\ Cardinality(first(i)) \in Nat
    BY <1>2
  <2> HIDE DEF first
  <2>3. IsFiniteSet(first(j) \ {i}) /\ Cardinality(first(j) \ {i}) = Cardinality(first(j)) - 1
    BY <2>1, <2>2, FS_RemoveElement
  <2>4. Cardinality(first(i)) <= Cardinality(first(j) \ {i})
    BY <2>1, <2>3, FS_Subset
  <2> QED
    BY <2>2, <2>3, <2>4
<1> HIDE DEF first
<1>4. rank \in Injection(S, 1 .. n)
  <2>1. \A i \in S : rank[i] \in 1 .. n
    BY <1>1, <1>2
  <2>2. ASSUME NEW i \in S, NEW j \in S, i # j
        PROVE  rank[i] # rank[j]
    <3>1. <<i, j>> \in R \/ <<j, i>> \in R
      BY <2>2 DEF OrdersAll
    <3>2. Cardinality(first(i)) \in Nat /\ Cardinality(first(j)) \in Nat
      BY <1>2
    <3> QED
      BY <1>3, <3>1, <3>2
  <2> QED
    BY <2>1, <2>2 DEF Injection, IsInjective
<1>5. rank \in Surjection(S, 1 .. n)
  BY <1>1, <1>4, FS_Injection
<1>6. \E i \in S : Cardinality(first(i)) = m - 1
  <2>1. \E i \in S : rank[i] = m
    BY <1>5 DEF Surjection
  <2> QED
    BY <1>1, <1>2, <2>1
<1>7. I!Sorted(S, R)[m] = CHOOSE i \in S : Cardinality(first(i)) = m - 1
  <2>1. I!Sorted(S, R) = I!Ranked(S, R)
    BY DEF I!Sorted, I!The
  <2> DEFINE At(k) == CHOOSE i \in S : I!Cardinality({j \in S : <<j, i>> \in R}) = k - 1
  <2>2. I!Ranked(S, R)[m] = CHOOSE i \in S : I!Cardinality(first(i)) = m - 1
    <3>1. I!Ranked(S, R) = [k \in 1 .. I!Cardinality(S) |-> At(k)]
      BY DEF I!Ranked
    <3>2. At(m) = CHOOSE i \in S : I!Cardinality(first(i)) = m - 1
      BY DEF first
    <3> HIDE DEF At
    <3> QED
      BY <3>1, <3>2, CountIs
  <2>3. \A i \in S : I!Cardinality(first(i)) = Cardinality(first(i))
    BY CountIs
  <2> QED
    BY <2>1, <2>2, <2>3
<1> QED
  BY <1>6, <1>7

\* Entries are rows, which say where in the page, and headers, which do not.
Entry(e) == e.header \in BOOLEAN /\ (~e.header => e = I!Row(e.index))

Listed(entries) ==
    /\ Len(entries) \in Nat
    /\ DOMAIN entries = 1 .. Len(entries)
    /\ \A k \in DOMAIN entries : Entry(entries[k])

IsPage(page) ==
    page = Nothing \/ \E n \in Nat : /\ DOMAIN page = 1 .. n /\ Len(page) = n
                                     /\ \A i \in 1 .. n : I!IsNotification(page[i])

\* A page numbers its items.
LEMMA ItemsHavePlaces ==
    ASSUME IsPage(inbox)
    PROVE  \E n \in Nat : /\ DOMAIN I!Items = 1 .. n /\ Len(I!Items) = n
                         /\ \A i \in 1 .. n : I!IsNotification(I!Items[i])
BY DEF IsPage, I!Items

\* Flat or in groups, the entries are such a list.
LEMMA EntriesAre ==
    ASSUME IsPage(inbox)
    PROVE  Listed(I!Entries)
<1> DEFINE shown == I!Shown
           ordered == I!OrderedOf(shown)
           places == I!Places(ordered)
           order == I!InPlace(places)
<1>1. IsFiniteSet(shown)
  <2>1. PICK n \in Nat : DOMAIN I!Items = 1 .. n
    BY ItemsHavePlaces
  <2>2. shown \subseteq 1 .. n
    BY <2>1 DEF I!Shown
  <2> HIDE DEF shown
  <2>3. IsFiniteSet(1 .. n)
    BY FS_Interval
  <2> QED
    BY <2>2, <2>3, FS_Subset
<1> HIDE DEF shown
<1>2. /\ DOMAIN ordered = 1 .. Cardinality(shown) /\ Cardinality(shown) \in Nat
      /\ Len(ordered) = Cardinality(shown)
  BY <1>1, SortedIs DEF I!OrderedOf
<1>3. I!Entries = I!EntriesOf(ordered)
  BY DEF I!Entries, I!Ordered, I!The, shown
<1> HIDE DEF ordered
<1>4. CASE look.group = "flat"
  <2> DEFINE rows == [k \in 1 .. Cardinality(shown) |-> I!Row(ordered[k])]
  <2>1. I!Entries = rows
    BY <1>2, <1>3, <1>4 DEF I!EntriesOf
  <2>2. Len(rows) = Cardinality(shown)
    BY <1>2
  <2>3. \A i : Entry(I!Row(i))
    BY DEF Entry, I!Row
  <2> QED
    BY <1>2, <2>1, <2>2, <2>3 DEF Listed
<1>5. CASE look.group # "flat"
  <2>1. Len(ordered) \in Nat
    BY <1>2
  <2>2. IsFiniteSet(places)
    <3>1. places \subseteq (1 .. Len(ordered)) \X (0 .. Len(ordered))
      BY DEF I!Places
    <3>2. IsFiniteSet(1 .. Len(ordered)) /\ IsFiniteSet(0 .. Len(ordered))
      BY <2>1, FS_Interval
    <3> HIDE DEF places
    <3>3. IsFiniteSet((1 .. Len(ordered)) \X (0 .. Len(ordered)))
      BY <3>2, FS_Product
    <3> QED
      BY <3>1, <3>3, FS_Subset
  <2> HIDE DEF places
  <2>3. DOMAIN order = 1 .. Cardinality(places) /\ Cardinality(places) \in Nat
    BY <2>2, SortedIs DEF I!InPlace
  <2> HIDE DEF order
  <2> DEFINE entries == [n \in 1 .. Cardinality(places) |->
                            I!EntryAt(order[n], ordered, places)]
  <2>4. I!Entries = entries
    <3>1. I!Entries = I!Grouped(ordered)
      BY <1>3, <1>5 DEF I!EntriesOf
    <3>2. I!Grouped(ordered) = I!GroupedAt(ordered, places)
      BY DEF I!Grouped, I!The, places
    <3>3. I!GroupedAt(ordered, places) = entries
      BY <2>3 DEF I!GroupedAt, I!The, order
    <3> QED
      BY <3>1, <3>2, <3>3
  <2>5. Len(entries) = Cardinality(places)
    BY <2>3
  <2>6. \A p : Entry(I!EntryAt(p, ordered, places))
    BY DEF Entry, I!EntryAt, I!Row, I!Header
  <2> QED
    BY <2>3, <2>4, <2>5, <2>6 DEF Listed
<1> QED
  BY <1>4, <1>5

\* What the inbox's screen takes for granted.
LEMMA InboxTakes ==
    /\ I!InboxScreenAssumption /\ Nothing \notin Nat
    /\ \A s \in InboxSizes : s[1] \in Nat /\ s[2] \in Nat /\ s[2] >= 5
BY ScreensAssumption DEF I!InboxScreenAssumption

\* The entry selected is the row in focus, and not a header.
LEMMA FocusIs ==
    ASSUME IsPage(inbox), I!Focused # Nothing
    PROVE  /\ I!Selected \in DOMAIN I!Entries /\ I!Selected # Nothing
           /\ I!Entries[I!Selected] = I!Row(I!Focused)
           /\ ~I!Entries[I!Selected].header
<1> DEFINE entries == I!Entries
           focused == I!Focused
           rows == I!RowsOf(entries)
           at == {k \in rows : I!Cardinality({m \in rows : m < k}) = cursor}
<1>1. Listed(entries)
  BY EntriesAre
<1>2. focused = I!FocusedIn(entries)
  BY DEF I!Focused, I!The
<1>3. I!Selected = CHOOSE k \in DOMAIN entries : entries[k] = I!Row(focused)
  BY DEF I!Selected, I!The
<1> HIDE DEF entries, focused
<1>4. at # {} /\ focused = entries[I!The(at)].index
  BY <1>2 DEF I!FocusedIn, focused
<1>5. at \subseteq rows
  OBVIOUS
<1> HIDE DEF at
<1>6. I!The(at) \in rows
  BY <1>4, <1>5 DEF I!The
<1>7. I!The(at) \in DOMAIN entries /\ entries[I!The(at)] = I!Row(focused)
  BY <1>1, <1>4, <1>6 DEF I!RowsOf, Listed, Entry
<1>8. I!Selected \in DOMAIN entries /\ entries[I!Selected] = I!Row(focused)
  BY <1>3, <1>7
<1>9. I!Selected # Nothing
  BY <1>1, <1>8, InboxTakes DEF Listed
<1> QED
  BY <1>8, <1>9 DEF entries, focused, I!Row

\* A list scrolls to its selected entry: one that is before what is drawn comes
\* first, and one that is behind comes with as many before it as there is room
\* for, which is itself at least.
LEMMA ScrollShowsFocus ==
    ASSUME NEW entries, Listed(entries), NEW at \in DOMAIN entries, ~entries[at].header,
           NEW room \in Int, NEW tall \in {1, 2}, room >= 2, NEW from \in Nat,
           NEW to, to = I!Scrolled(entries, at, room, tall, from)
    PROVE  /\ to \in Nat /\ to < at
           /\ I!LinesFrom(entries, to + 1, at, tall) <= room
<1> DEFINE start == I!Min({from, Len(entries) - 1})
           fits == {s \in start .. at - 1 : I!LinesFrom(entries, s + 1, at, tall) <= room}
<1>1. /\ Len(entries) \in Nat /\ at \in 1 .. Len(entries) /\ at \in Nat /\ at # Nothing
      /\ Len(entries) - 1 \in Nat
  BY InboxTakes DEF Listed
<1>2. start \in Nat
  <2>1. {from, Len(entries) - 1} \subseteq Nat /\ {from, Len(entries) - 1} # {}
    BY <1>1
  <2>2. I!Min({from, Len(entries) - 1}) = Min({from, Len(entries) - 1})
    BY DEF I!Min, Min
  <2> QED
    BY <2>1, <2>2, LeastOfSome
<1>3. I!LinesFrom(entries, at, at, tall) <= room
  <2>1. {k \in at .. at : entries[k].header} = {}
    BY <1>1
  <2>2. I!Cardinality({k \in at .. at : entries[k].header}) = 0
    BY <2>1, CountIs, FS_EmptySet
  <2>3. I!LinesFrom(entries, at, at, tall) = 0 + (at - at + 1 - 0) * tall
    BY <2>2 DEF I!LinesFrom
  <2>4. at - at + 1 - 0 = 1
    BY <1>1
  <2> QED
    BY <2>3, <2>4
<1>4. CASE at <= start
  <2>1. to = at - 1
    BY <1>1, <1>4 DEF I!Scrolled
  <2> QED
    BY <1>1, <1>3, <2>1
<1>5. CASE ~(at <= start)
  <2>1. to = I!Min(fits)
    BY <1>1, <1>5 DEF I!Scrolled
  <2>2. at - 1 \in start .. at - 1 /\ (at - 1) + 1 = at
    BY <1>1, <1>2, <1>5
  <2> HIDE DEF start
  <2>3. at - 1 \in fits
    BY <1>3, <2>2
  <2>4. fits \subseteq Nat
    BY <1>1, <1>2
  <2> HIDE DEF fits
  <2>5. to \in fits
    <3>1. I!Min(fits) = Min(fits)
      BY DEF I!Min, Min
    <3> QED
      BY <2>1, <2>3, <2>4, <3>1, LeastOfSome
  <2> QED
    BY <1>1, <1>2, <2>5 DEF fits
<1> QED
  BY <1>4, <1>5

\* How far a draw leaves the list scrolled that it found scrolled so far.
Scrolls(from) ==
    IF I!HasContent THEN I!Scrolled(I!Entries, I!Selected, I!ListHeight, I!Tall, from)
    ELSE from

LEMMA ScrolledShowsFocus ==
    IsPage(inbox) /\ size \in InboxSizes =>
        \A from \in Nat :
            offset = Scrolls(from) => offset \in Nat /\ I!FocusIsDrawn
<1> SUFFICES ASSUME IsPage(inbox), size \in InboxSizes, NEW from \in Nat, offset = Scrolls(from)
             PROVE  offset \in Nat /\ I!FocusIsDrawn
  OBVIOUS
<1> DEFINE entries == I!Entries
           at == I!Selected
           room == I!ListHeight
           tall == I!Tall
<1>1. CASE ~I!HasContent
  BY <1>1 DEF I!FocusIsDrawn, Scrolls
<1>2. CASE I!HasContent /\ I!Focused = Nothing
  <2>1. at = Nothing
    BY <1>2 DEF I!Selected, I!The
  <2>2. offset = 0
    BY <1>2, <2>1 DEF Scrolls, I!Scrolled
  <2> QED
    BY <1>2, <2>2 DEF I!FocusIsDrawn
<1>3. CASE I!HasContent /\ I!Focused # Nothing
  <2>1. tall \in {1, 2} /\ room \in Int /\ room >= 2
    <3>1. size[2] \in Nat /\ size[2] >= 5
      BY InboxTakes
    <3> QED
      BY <3>1 DEF I!Tall, I!ListHeight, I!Viewport, I!DetailHeight, I!BodyHeight
  <2>2. /\ at \in DOMAIN entries /\ at # Nothing
        /\ entries[at] = I!Row(I!Focused) /\ ~entries[at].header
        /\ Listed(entries)
    BY <1>3, FocusIs, EntriesAre
  <2>3. offset = I!Scrolled(entries, at, room, tall, from)
    BY <1>3 DEF Scrolls
  <2>4. at \in I!OnScreen <=> at \in {k \in offset + 1 .. Len(entries) :
                                         I!LinesFrom(entries, offset + 1, k, tall) <= room}
    BY DEF I!OnScreen
  <2> HIDE DEF entries, at, room, tall
  <2>5. offset \in Nat /\ offset < at /\ I!LinesFrom(entries, offset + 1, at, tall) <= room
    BY <2>1, <2>2, <2>3, ScrollShowsFocus
  <2>6. at \in offset + 1 .. Len(entries)
    BY <2>2, <2>5 DEF Listed
  <2>7. at \in I!OnScreen
    BY <2>4, <2>5, <2>6
  <2> QED
    BY <2>2, <2>5, <2>7 DEF I!FocusIsDrawn, entries, at
<1> QED
  BY <1>1, <1>2, <1>3

\* A draw of the inbox brings the cursor's row into the window.
LEMMA DrawShowsFocus ==
    ASSUME IsPage(inbox)', size' \in InboxSizes, offset \in Nat, I!Draw
    PROVE  offset' \in Nat /\ I!FocusIsDrawn'
<1>1. (IsPage(inbox) /\ size \in InboxSizes =>
          \A from \in Nat :
              offset = Scrolls(from) => offset \in Nat /\ I!FocusIsDrawn)'
  BY ScrolledShowsFocus, PTL
<1>2. offset' = IF I!HasContent'
                THEN I!Scrolled(I!Entries', I!Selected', I!ListHeight', I!Tall', offset)
                ELSE offset
  BY DEF I!Draw
<1> QED
  BY <1>1, <1>2 DEF Scrolls

\* Without a page there is no row.
LEMMA NothingToFocus ==
    ASSUME inbox = Nothing
    PROVE  I!Focused = Nothing
<1> SUFFICES ASSUME I!Focused # Nothing PROVE FALSE
  OBVIOUS
<1> DEFINE shown == I!Shown
           ordered == I!OrderedOf(shown)
           places == I!Places(ordered)
           order == I!InPlace(places)
<1>1. shown = {}
  BY DEF I!Shown, I!Items
<1> HIDE DEF shown
<1>2. IsFiniteSet({}) /\ Cardinality({}) = 0
  BY FS_EmptySet
<1>3. DOMAIN ordered = {} /\ Len(ordered) = 0
  BY <1>1, <1>2, SortedIs DEF I!OrderedOf
<1>4. I!Entries = I!EntriesOf(ordered)
  BY DEF I!Entries, I!Ordered, I!The, shown
<1> HIDE DEF ordered
<1>5. CASE look.group = "flat"
  <2>1. DOMAIN I!Entries = {}
    BY <1>3, <1>4, <1>5 DEF I!EntriesOf
  <2> QED
    BY <2>1, FocusIs DEF IsPage
<1>6. CASE look.group # "flat"
  <2>1. places = {}
    BY <1>3 DEF I!Places
  <2> HIDE DEF places
  <2>2. DOMAIN order = {}
    BY <1>2, <2>1, SortedIs DEF I!InPlace
  <2> HIDE DEF order
  <2>3. I!Entries = I!Grouped(ordered)
    BY <1>4, <1>6 DEF I!EntriesOf
  <2>4. I!Grouped(ordered) = I!GroupedAt(ordered, places)
    BY DEF I!Grouped, I!The, places
  <2>5. I!GroupedAt(ordered, places) =
            [n \in DOMAIN order |-> I!EntryAt(order[n], ordered, places)]
    BY DEF I!GroupedAt, I!The, order
  <2> QED
    BY <2>2, <2>3, <2>4, <2>5, FocusIs DEF IsPage
<1> QED
  BY <1>5, <1>6

\* What a filter leaves of a page is a page.
LEMMA ThoseIs ==
    ASSUME NEW page \in Inboxes, NEW places \in SUBSET DOMAIN page
    PROVE  IsPage(I!Those(page, places))
<1>1. PICK n \in Nat : DOMAIN page = 1 .. n
  BY InboxTakes DEF I!InboxScreenAssumption
<1>2. IsFiniteSet(places)
  BY <1>1, FS_Interval, FS_Subset
<1> DEFINE before == {r \in places \X places : r[1] < r[2]}
           order == I!Sorted(places, before)
           those == [k \in 1 .. Cardinality(places) |-> page[order[k]]]
<1>3. OrdersAll(places, before)
  BY <1>1 DEF OrdersAll
<1>4. I!Those(page, places) = I!The({[k \in DOMAIN o |-> page[o[k]]] : o \in {order}})
  BY DEF I!Those
<1> HIDE DEF before
<1>5. /\ DOMAIN order = 1 .. Cardinality(places) /\ Cardinality(places) \in Nat
      /\ \A k \in 1 .. Cardinality(places) : order[k] \in places
  BY <1>2, <1>3, SortedIs, PlacedIs
<1> HIDE DEF order
<1>6. I!Those(page, places) = those
  BY <1>4, <1>5 DEF I!The
<1>7. Len(those) = Cardinality(places) /\ DOMAIN those = 1 .. Cardinality(places)
  BY <1>5
<1>8. ASSUME NEW k \in 1 .. Cardinality(places)
      PROVE  I!IsNotification(those[k])
  <2>1. those[k] \in I!Range(page)
    BY <1>5 DEF I!Range
  <2> QED
    BY <2>1, ScreensAssumption DEF I!NotificationsAssumption
<1> QED
  BY <1>5, <1>6, <1>7, <1>8 DEF IsPage

\* What is known of the inbox's screen between two steps.
InboxInv ==
    /\ IsPage(inbox)
    /\ size \in InboxSizes /\ look \in Looks
    /\ offset \in Nat
    /\ I!FocusIsDrawn

LEMMA InboxStart ==
    ASSUME I!InboxInit
    PROVE  InboxInv
BY NothingToFocus DEF I!InboxInit, InboxInv, IsPage, I!FocusIsDrawn

\* Every handler of the inbox ends in such a draw.
LEMMA InboxStep ==
    ASSUME InboxInv, I!InboxNext
    PROVE  InboxInv'
<1>1. ASSUME IsPage(inbox)', size' \in InboxSizes, look' \in Looks, I!Draw
      PROVE  InboxInv'
  BY <1>1, DrawShowsFocus DEF InboxInv
<1>2. CASE I!Load
  <2>1. UNCHANGED <<size, look>> /\ I!Draw
    BY <1>2 DEF I!Load
  <2>2. CASE UNCHANGED inbox
    BY <1>1, <2>1, <2>2 DEF InboxInv, IsPage
  <2>3. CASE ~UNCHANGED inbox
    <3>1. PICK page \in Inboxes :
              inbox' = I!Those(page, {i \in DOMAIN page :
                                         /\ filter.repo \in {Nothing, page[i].repo}
                                         /\ filter.unreadOnly => page[i].unread})
      BY <1>2, <2>3 DEF I!Load
    <3>2. IsPage(inbox')
      BY <3>1, ThoseIs
    <3> QED
      BY <1>1, <2>1, <3>2 DEF InboxInv, IsPage
  <2> QED
    BY <2>2, <2>3
<1>3. CASE I!ToggleRead
  <2>1. /\ UNCHANGED <<size, look>> /\ I!Draw /\ inbox # Nothing
        /\ inbox' = [inbox EXCEPT ![I!Focused].unread = ~@]
    BY <1>3, NothingToFocus DEF I!ToggleRead
  <2>2. PICK n \in Nat : DOMAIN inbox = 1 .. n /\ \A i \in 1 .. n : I!IsNotification(inbox[i])
    BY <2>1 DEF InboxInv, IsPage
  <2>3. DOMAIN inbox' = 1 .. n /\ inbox' = [k \in DOMAIN inbox' |-> inbox'[k]]
    BY <2>1, <2>2
  <2>4. Len(inbox') = n
    BY <2>3, LengthIs
  <2>5. ASSUME NEW i \in 1 .. n
        PROVE  I!IsNotification(inbox'[i])
    <3> DEFINE old == inbox[i]
    <3>1. inbox'[i] \in {old, [old EXCEPT !.unread = ~@]}
      BY <2>1, <2>2
    <3>2. I!IsNotification(old)
      BY <2>2
    <3> HIDE DEF old
    <3>3. I!IsNotification([old EXCEPT !.unread = ~@])
      BY <3>2 DEF I!IsNotification, I!HasStatus
    <3> QED
      BY <3>1, <3>2, <3>3
  <2>6. IsPage(inbox)'
    BY <2>3, <2>4, <2>5 DEF IsPage
  <2> QED
    BY <1>1, <2>1, <2>6 DEF InboxInv
<1>4. CASE I!MoveKey \/ I!FilterKey \/ I!Reconfigure \/ I!Resize
  <2>1. UNCHANGED inbox /\ I!Draw /\ size' \in InboxSizes /\ look' \in Looks
    BY <1>4 DEF I!MoveKey, I!FilterKey, I!Reconfigure, I!Resize, InboxInv
  <2> QED
    BY <1>1, <2>1 DEF InboxInv, IsPage
<1> QED
  BY <1>2, <1>3, <1>4 DEF I!InboxNext

\* What is drawn is a function of the state.
LEMMA InboxRests ==
    ASSUME InboxInv, UNCHANGED <<inbox, filter, look, size, error, cursor, offset>>
    PROVE  InboxInv'
<1>1. I!Items' = I!Items
  BY DEF I!Items
<1>2. I!Shown' = I!Shown
  BY <1>1 DEF I!Shown
<1>3. I!Ordered' = I!Ordered
  <2>1. \A shown : I!OrderedOf(shown)' = I!OrderedOf(shown)
    BY <1>1 DEF I!OrderedOf, I!Earlier
  <2> QED
    BY <1>2, <2>1 DEF I!Ordered, I!The
<1>4. I!Entries' = I!Entries
  <2>1. \A ordered : I!Places(ordered)' = I!Places(ordered)
    BY <1>1 DEF I!Places
  <2>2. \A ordered, places : I!GroupedAt(ordered, places)' = I!GroupedAt(ordered, places)
    BY <1>1 DEF I!GroupedAt, I!EntryAt
  <2>3. \A ordered : I!Grouped(ordered)' = I!Grouped(ordered)
    BY <2>1, <2>2 DEF I!Grouped, I!The
  <2>4. \A ordered : I!EntriesOf(ordered)' = I!EntriesOf(ordered)
    BY <2>3 DEF I!EntriesOf
  <2> QED
    BY <1>3, <2>4 DEF I!Entries, I!The
<1>5. I!FocusIsDrawn => I!FocusIsDrawn'
  BY <1>1, <1>2, <1>4
     DEF I!FocusIsDrawn, I!HasContent, I!State, I!Rows, I!Narrowings, I!Focused, I!FocusedIn,
         I!Selected, I!OnScreen, I!ListHeight, I!Viewport, I!BodyHeight, I!DetailHeight, I!Tall
<1> QED
  BY <1>5 DEF InboxInv, IsPage

\* The order of the rows is one: as the page has them, or unread ones first.
LEMMA OrderedIs ==
    ASSUME IsPage(inbox), NEW i \in I!Range(I!Ordered)
    PROVE  I!IsNotification(I!Items[i])
<1> DEFINE shown == I!Shown
           before == {r \in shown \X shown : I!Earlier(r[1], r[2])}
<1>1. PICK n \in Nat : /\ DOMAIN I!Items = 1 .. n
                       /\ \A k \in 1 .. n : I!IsNotification(I!Items[k])
  BY ItemsHavePlaces
<1>2. shown \subseteq 1 .. n
  BY <1>1 DEF I!Shown
<1>3. IsFiniteSet(shown)
  <2> HIDE DEF shown
  <2>1. IsFiniteSet(1 .. n)
    BY FS_Interval
  <2> QED
    BY <1>2, <2>1, FS_Subset
<1> HIDE DEF shown
<1>4. ASSUME NEW k \in shown
      PROVE  k \in Int /\ I!Items[k].unread \in BOOLEAN
  <2>1. k \in 1 .. n
    BY <1>2
  <2>2. I!IsNotification(I!Items[k])
    BY <1>1, <2>1
  <2> QED
    BY <2>1, <2>2 DEF I!IsNotification
<1>5. OrdersAll(shown, before)
  <2>1. CASE look.triage = "sink"
    BY <1>4, <2>1 DEF OrdersAll, I!Earlier
  <2>2. CASE look.triage # "sink"
    BY <1>4, <2>2 DEF OrdersAll, I!Earlier
  <2> QED
    BY <2>1, <2>2
<1>6. I!Ordered = I!Sorted(shown, before)
  BY DEF I!Ordered, I!OrderedOf, I!The, shown
<1> HIDE DEF before
<1>7. PICK k \in 1 .. Cardinality(shown) : i = I!Ordered[k]
  BY <1>3, <1>6, SortedIs DEF I!Range
<1>8. i \in shown
  BY <1>3, <1>5, <1>6, <1>7, PlacedIs
<1> QED
  BY <1>1, <1>2, <1>8

\* With room for them, the columns that tell two rows apart are there.
LEMMA RoomyIs ==
    ASSUME look \in Looks, size \in InboxSizes, I!Roomy
    PROVE  /\ {"Repo", "State"} \subseteq I!ForWidth(I!Width)
           /\ I!Width \in Int
<1>1. size[1] \in Nat
  BY InboxTakes
<1>2. I!Width \in Int
  <2>1. look.width \in {"auto", "narrow", "wide"}
    BY InboxTakes DEF I!InboxScreenAssumption
  <2>2. \A b \in Nat : I!Min({size[1], b}) \in {size[1], b}
    <3> SUFFICES ASSUME NEW b \in Nat PROVE I!Min({size[1], b}) \in {size[1], b}
      OBVIOUS
    <3>1. I!Min({size[1], b}) = Min({size[1], b})
      BY DEF I!Min, Min
    <3> QED
      BY <1>1, <3>1, LeastOfSome
  <2>3. I!Min({size[1], 70}) \in Int /\ I!Min({size[1], 120}) \in Int
    BY <1>1, <2>2
  <2> QED
    BY <1>1, <2>1, <2>3 DEF I!Width, I!Resolved
<1> DEFINE w == I!Width
<1>3. w >= 80
  BY DEF I!Roomy
<1> HIDE DEF w
<1>4. {"Repo", "State"} \subseteq I!ForWidth(w)
  <2>1. CASE w < 100
    BY <1>2, <1>3, <2>1 DEF I!ForWidth, w
  <2>2. CASE w >= 100 /\ w < 120
    BY <1>2, <1>3, <2>2 DEF I!ForWidth, w
  <2>3. CASE w >= 120
    BY <1>2, <1>3, <2>3 DEF I!ForWidth, I!ColumnWidth, w
  <2> QED
    BY <1>2, <2>1, <2>2, <2>3 DEF w
<1> QED
  BY <1>2, <1>4 DEF w

\* Leaving the viewer's own name out does not make two repositories one.
LEMMA RepoTextIs ==
    ASSUME NEW a, NEW b, I!IsNotification(a), I!IsNotification(b)
    PROVE  /\ {a.repo.name, b.repo.name} \subseteq Seq(Letter)
           /\ RepoParts(I!RepoText(a), a.repo.name) /\ RepoParts(I!RepoText(b), b.repo.name)
           /\ I!RepoText(a) = I!RepoText(b) => a.repo = b.repo
<1> DEFINE p == a.repo
           q == b.repo
<1>1. p = [owner |-> p.owner, name |-> p.name] /\ q = [owner |-> q.owner, name |-> q.name]
  BY DEF I!IsNotification
<1>2. {p.owner, p.name, q.owner, q.name} \subseteq Seq(Letter)
  <2>1. I!Letter = Letter
    BY DEF I!Letter, I!Ellipsis, Letter, Ellipsis
  <2> QED
    BY <2>1 DEF I!IsNotification
<1>3. /\ I!RepoText(a) = (IF look.repo # "full" /\ p.owner = Viewer THEN <<p.name>> ELSE <<p.owner, p.name>>)
      /\ I!RepoText(b) = (IF look.repo # "full" /\ q.owner = Viewer THEN <<q.name>> ELSE <<q.owner, q.name>>)
  BY DEF I!RepoText
<1> HIDE DEF p, q
<1>4. I!RepoText(a) = I!RepoText(b) => p.owner = q.owner /\ p.name = q.name
  BY <1>3
<1>5. RepoParts(I!RepoText(a), p.name) /\ RepoParts(I!RepoText(b), q.name)
  BY <1>2, <1>3 DEF RepoParts
<1> QED
  BY <1>1, <1>2, <1>4, <1>5 DEF p, q

\* What is told of a row, where it has room.
Alike(a, b) ==
    /\ ~I!RepoIsRedundant => I!SameRepo(a, b)
    /\ a.unread = b.unread
    /\ look.reason = "glyph" /\ I!HasStatus(a) /\ I!HasStatus(b) =>
           a.detail.status = b.detail.status \/ (I!StateIsCut(a) /\ I!StateIsCut(b))

\* What a row is made of tells what it was made from.
LEMMA RowOfIs ==
    ASSUME NEW n, I!IsNotification(n)
    PROVE  /\ I!RowOf(n).unread = n.unread
           /\ look.reason = "glyph" /\ I!HasStatus(n) =>
                 /\ I!RowOf(n).state = I!StatusCell(n.detail.status)
                 /\ I!RowOf(n).state # Nothing
                 /\ I!RowOf(n).state.text = n.detail.status
<1>1. I!RowOf(n).unread = n.unread
  BY DEF I!RowOf
<1>2. ASSUME look.reason = "glyph", I!HasStatus(n)
      PROVE  I!RowOf(n).state = I!StatusCell(n.detail.status)
  BY <1>2 DEF I!RowOf
<1>3. I!HasStatus(n) => I!StatusCell(n.detail.status) # Nothing
  BY DEF I!IsNotification
<1>4. I!StatusCell(n.detail.status).text = n.detail.status
  BY DEF I!StatusCell, I!Cell
<1> QED
  BY <1>1, <1>2, <1>3, <1>4

\* The parts of a line are where they were put.
Starts(line, first, second) ==
    /\ \A k \in 1 .. Len(first) : k \in DOMAIN line /\ line[k] = first[k]
    /\ Len(second) > 0 => Len(first) + 1 \in DOMAIN line /\ line[Len(first) + 1] = second[1]

LEMMA LinePartsAre ==
    ASSUME NEW S, NEW first \in Seq(S), NEW second \in Seq(S), NEW third \in Seq(S)
    PROVE  Starts(first \o (second \o third), first, second)
<1> DEFINE rest == second \o third
<1>1. rest \in Seq(S) /\ Len(rest) = Len(second) + Len(third)
      /\ (Len(second) > 0 => rest[1] = second[1])
  OBVIOUS
<1> HIDE DEF rest
<1>2. LET line == first \o rest IN
           /\ \A k \in 1 .. Len(first) : k \in DOMAIN line /\ line[k] = first[k]
           /\ Len(rest) > 0 => Len(first) + 1 \in DOMAIN line /\ line[Len(first) + 1] = rest[1]
  BY <1>1
<1> QED
  BY <1>1, <1>2 DEF rest, Starts

\* The repository comes first on a second line, and a state right after what
\* every subject has.
LEMMA SecondLineIs ==
    ASSUME NEW n
    PROVE  /\ Len(I!SubjectParts(n)) = IF I!RepoIsRedundant THEN 2 ELSE 3
           /\ ~I!RepoIsRedundant =>
                 /\ 1 \in DOMAIN I!SecondLine(n)
                 /\ I!SecondLine(n)[1].says = <<"repo", I!RepoText(n)>>
           /\ n.detail # Nothing /\ I!RowOf(n).state # Nothing =>
                 LET k == Len(I!SubjectParts(n)) + 1 IN
                 /\ k \in DOMAIN I!SecondLine(n)
                 /\ I!SecondLine(n)[k].says = <<"state", I!RowOf(n).state.text>>
<1> DEFINE first == I!SubjectParts(n)
           second == I!StatePart(n)
           third == I!ChecksPart(n)
           repo == I!Part(<<"repo", I!RepoText(n)>>, I!RepoCells(I!RepoText(n)))
           state == I!Part(<<"state", I!RowOf(n).state.text>>, Spelling[I!RowOf(n).state.text])
<1>1. PICK x, y : first = IF I!RepoIsRedundant THEN <<x, y>> ELSE <<repo>> \o <<x, y>>
  BY DEF I!SubjectParts
<1>2. second = IF n.detail = Nothing \/ I!RowOf(n).state = Nothing THEN <<>> ELSE <<state>>
  BY DEF I!StatePart
<1>3. PICK z : third \in {<<>>, <<z>>}
  BY DEF I!ChecksPart
<1>4. repo.says = <<"repo", I!RepoText(n)>> /\ state.says = <<"state", I!RowOf(n).state.text>>
  BY DEF I!Part
<1>5. I!SecondLine(n) = first \o (second \o third)
  BY DEF I!SecondLine
<1> HIDE DEF first, second, third, repo, state
<1> DEFINE S == {repo, x, y, state, z}
<1>12. {repo, x, y, state, z} \subseteq S
  OBVIOUS
<1> HIDE DEF S
<1>6. /\ first \in Seq(S) /\ Len(first) = IF I!RepoIsRedundant THEN 2 ELSE 3
      /\ ~I!RepoIsRedundant => first[1] = repo
  <2>1. <<x, y>> \in Seq(S) /\ Len(<<x, y>>) = 2
    BY <1>12
  <2>2. <<repo>> \o <<x, y>> \in Seq(S) /\ Len(<<repo>> \o <<x, y>>) = 3
        /\ (<<repo>> \o <<x, y>>)[1] = repo
    BY <1>12, <2>1, OneThenMore
  <2> QED
    BY <1>1, <2>1, <2>2
<1>7. second \in Seq(S) /\ (second # <<>> => second[1] = state /\ Len(second) = 1)
  BY <1>2, <1>12
<1>8. third \in Seq(S)
  <2>1. <<>> \in Seq(S) /\ <<z>> \in Seq(S)
    BY <1>12
  <2> QED
    BY <1>3, <2>1
<1> DEFINE line == first \o (second \o third)
<1> HIDE DEF line
<1>13. Starts(line, first, second)
  <2>1. first \in Seq(S) /\ second \in Seq(S) /\ third \in Seq(S)
    BY <1>6, <1>7, <1>8
  <2> QED
    BY <2>1, LinePartsAre DEF line
<1>9. /\ \A k \in 1 .. Len(first) : k \in DOMAIN line /\ line[k] = first[k]
      /\ Len(second) > 0 => Len(first) + 1 \in DOMAIN line /\ line[Len(first) + 1] = second[1]
  BY <1>13 DEF Starts
<1>10. ~I!RepoIsRedundant => 1 \in DOMAIN line /\ line[1].says = <<"repo", I!RepoText(n)>>
  BY <1>4, <1>6, <1>9
<1>11. ASSUME n.detail # Nothing, I!RowOf(n).state # Nothing
       PROVE  /\ Len(first) + 1 \in DOMAIN line
              /\ line[Len(first) + 1].says = <<"state", I!RowOf(n).state.text>>
  <2>1. second = <<state>>
    BY <1>2, <1>11
  <2>2. Len(second) > 0 /\ second[1] = state
    BY <2>1
  <2> QED
    BY <1>4, <1>9, <2>2
<1> QED
  BY <1>5, <1>6, <1>10, <1>11 DEF line, first

\* Two lines that come out the same say the same where either is not cut.
LEMMA WholePartsTell ==
    ASSUME NEW s, NEW t, NEW w, I!WholeParts(s, w) = I!WholeParts(t, w),
           NEW k, k \in DOMAIN s, k \in DOMAIN t
    PROVE  s[k].says = t[k].says \/ (I!IsCut(s, k, w) /\ I!IsCut(t, k, w))
<1>1. ASSUME NEW u, NEW v, I!WholeParts(u, w) = I!WholeParts(v, w), k \in DOMAIN u, ~I!IsCut(u, k, w)
      PROVE  u[k].says = v[k].says
  <2>1. k \in DOMAIN I!WholeParts(u, w) /\ I!WholeParts(u, w)[k] = u[k].says
    BY <1>1 DEF I!WholeParts
  <2>2. k \in DOMAIN I!WholeParts(v, w) => I!WholeParts(v, w)[k] = v[k].says
    BY DEF I!WholeParts
  <2>3. k \in DOMAIN I!WholeParts(v, w) /\ I!WholeParts(v, w)[k] = I!WholeParts(u, w)[k]
    BY <1>1, <2>1, Zenon
  <2> QED
    BY <2>1, <2>2, <2>3, Zenon
<1>2. ~I!IsCut(s, k, w) => s[k].says = t[k].says
  BY <1>1
<1>3. ~I!IsCut(t, k, w) => t[k].says = s[k].says
  BY <1>1
<1> QED
  BY <1>2, <1>3

\* Two lines tell it, as far as they are not cut.
LEMMA TwoLinesTell ==
    ASSUME NEW a, NEW b, I!IsNotification(a), I!IsNotification(b), look.rows = "two-line",
           I!TwoLine(a, I!Width) = I!TwoLine(b, I!Width)
    PROVE  Alike(a, b)
<1> DEFINE w == I!Width - I!Indent
           s == I!SecondLine(a)
           t == I!SecondLine(b)
<1>1. I!FirstLine(I!RowOf(a)) = I!FirstLine(I!RowOf(b)) /\ I!WholeParts(s, w) = I!WholeParts(t, w)
  BY DEF I!TwoLine
<1>2. a.unread = b.unread
  <2>1. I!FirstLine(I!RowOf(a)).unread = I!RowOf(a).unread
        /\ I!FirstLine(I!RowOf(b)).unread = I!RowOf(b).unread
    BY DEF I!FirstLine
  <2>2. I!RowOf(a).unread = a.unread /\ I!RowOf(b).unread = b.unread
    BY RowOfIs
  <2> QED
    BY <1>1, <2>1, <2>2, Zenon
<1> HIDE DEF w, s, t
<1>3. ASSUME NEW k, k \in DOMAIN s, k \in DOMAIN t
      PROVE  s[k].says = t[k].says \/ (I!IsCut(s, k, w) /\ I!IsCut(t, k, w))
  BY <1>1, <1>3, WholePartsTell
<1>4. ASSUME ~I!RepoIsRedundant
      PROVE  I!SameRepo(a, b)
  <2>1. /\ 1 \in DOMAIN s /\ s[1].says = <<"repo", I!RepoText(a)>>
        /\ 1 \in DOMAIN t /\ t[1].says = <<"repo", I!RepoText(b)>>
    BY <1>4, SecondLineIs DEF s, t
  <2>2. CASE s[1].says = t[1].says
    <3>1. I!RepoText(a) = I!RepoText(b)
      BY <2>1, <2>2
    <3> QED
      BY <3>1, RepoTextIs DEF I!SameRepo
  <2>3. CASE I!IsCut(s, 1, w) /\ I!IsCut(t, 1, w)
    <3>1. look.group # "by-repo"
      BY <1>4 DEF I!RepoIsRedundant
    <3>2. I!RepoIsCut(a) /\ I!RepoIsCut(b)
      BY <2>3, <3>1 DEF I!RepoIsCut, s, t, w
    <3> QED
      BY <3>2 DEF I!SameRepo
  <2> QED
    BY <1>3, <2>1, <2>2, <2>3
<1>5. ASSUME look.reason = "glyph", I!HasStatus(a), I!HasStatus(b)
      PROVE  a.detail.status = b.detail.status \/ (I!StateIsCut(a) /\ I!StateIsCut(b))
  <2> DEFINE k == Len(I!SubjectParts(a)) + 1
  <2>1. Len(I!SubjectParts(a)) = Len(I!SubjectParts(b))
    BY SecondLineIs
  <2>2. /\ k \in DOMAIN s /\ s[k].says = <<"state", a.detail.status>>
        /\ k \in DOMAIN t /\ t[k].says = <<"state", b.detail.status>>
    <3>1. /\ a.detail # Nothing /\ I!RowOf(a).state # Nothing
          /\ b.detail # Nothing /\ I!RowOf(b).state # Nothing
          /\ I!RowOf(a).state.text = a.detail.status /\ I!RowOf(b).state.text = b.detail.status
      BY <1>5, RowOfIs DEF I!HasStatus
    <3> QED
      BY <2>1, <3>1, SecondLineIs DEF s, t
  <2>3. CASE s[k].says = t[k].says
    BY <2>2, <2>3
  <2>4. CASE I!IsCut(s, k, w) /\ I!IsCut(t, k, w)
    BY <2>1, <2>4 DEF I!StateIsCut, s, t, w
  <2> HIDE DEF k
  <2> QED
    BY <1>3, <2>2, <2>3, <2>4
<1> QED
  BY <1>2, <1>4, <1>5 DEF Alike

\* One line, in columns, tells it, as far as the repository's is not cut.
LEMMA OneLineTells ==
    ASSUME look \in Looks, size \in InboxSizes, I!Roomy, look.rows = "one-line",
           NEW a, NEW b, I!IsNotification(a), I!IsNotification(b),
           I!OneLine(a, I!ColumnsOf(I!Width)) = I!OneLine(b, I!ColumnsOf(I!Width))
    PROVE  Alike(a, b)
<1> DEFINE columns == I!ColumnsOf(I!Width)
           x == I!RepoText(a)
           y == I!RepoText(b)
           m == a.repo.name
           n == b.repo.name
<1>1. /\ ~I!RepoIsRedundant => "Repo" \in columns
      /\ look.reason = "glyph" => "State" \in columns
  BY RoomyIs DEF I!ColumnsOf
<1> HIDE DEF columns
<1>2. ASSUME NEW r
      PROVE  /\ I!OneLine(r, columns)[1]["Unread"] = I!RowOf(r).unread
             /\ "Repo" \in columns => I!OneLine(r, columns)[1]["Repo"] = I!FitRepo(I!RepoText(r), 20)
             /\ "State" \in columns => I!OneLine(r, columns)[1]["State"] = I!RowOf(r).state
  BY DEF I!OneLine, I!ColumnWidth
<1>3. I!OneLine(a, columns) = I!OneLine(b, columns)
  BY DEF columns
<1>4. a.unread = b.unread
  BY <1>2, <1>3, RowOfIs
<1>5. ASSUME ~I!RepoIsRedundant
      PROVE  I!SameRepo(a, b)
  <2>1. FitRepo(x, 20) = FitRepo(y, 20)
    BY <1>1, <1>2, <1>3, <1>5, InboxTextCuts
  <2>2. /\ {m, n} \subseteq Seq(Letter) /\ RepoParts(x, m) /\ RepoParts(y, n)
        /\ x = y => a.repo = b.repo
    BY RepoTextIs
  <2> HIDE DEF x, y, m, n
  <2>3. x = y \/ (~RepoFits(x, 20) /\ ~RepoFits(y, 20) /\ SameStart(m, n, 20 - 3))
    <3>1. 20 \in Nat /\ 20 > 3
      OBVIOUS
    <3> QED
      BY <2>1, <2>2, <3>1, FitRepoTells
  <2>4. CASE x = y
    BY <2>2, <2>4 DEF I!SameRepo
  <2>5. CASE ~RepoFits(x, 20) /\ ~RepoFits(y, 20) /\ SameStart(m, n, 20 - 3)
    <3>1. 20 - 3 = 17
      OBVIOUS
    <3>2. I!SameStart(m, n, 17) /\ ~I!RepoFits(x, 20) /\ ~I!RepoFits(y, 20)
      BY <2>5, <3>1, InboxTextCuts
    <3>3. I!ColumnWidth["Repo"] = 20
      BY DEF I!ColumnWidth
    <3>4. look.group = "flat"
      <4>1. look.group \in {"flat", "by-repo"}
        BY InboxTakes DEF I!InboxScreenAssumption
      <4> QED
        BY <1>5, <4>1 DEF I!RepoIsRedundant
    <3>5. I!RepoIsCut(a) /\ I!RepoIsCut(b)
      BY <3>2, <3>3, <3>4 DEF I!RepoIsCut, x, y
    <3> QED
      BY <3>1, <3>2, <3>3, <3>5 DEF I!SameRepo, m, n
  <2> QED
    BY <2>3, <2>4, <2>5
<1>6. ASSUME look.reason = "glyph", I!HasStatus(a), I!HasStatus(b)
      PROVE  a.detail.status = b.detail.status
  BY <1>1, <1>2, <1>3, <1>6, RowOfIs
<1> QED
  BY <1>4, <1>5, <1>6 DEF Alike

\* And the repository that lines leave out is in the header, or is that of all.
LEMMA InboxTellsApart ==
    ASSUME IsPage(inbox), size \in InboxSizes, look \in Looks
    PROVE  I!RowsAreToldApart
<1> SUFFICES ASSUME I!Roomy,
                    NEW i \in I!Range(I!Ordered), NEW j \in I!Range(I!Ordered),
                    I!Said(i) = I!Said(j)
             PROVE  /\ I!SameRepo(I!Items[i], I!Items[j])
                    /\ Alike(I!Items[i], I!Items[j])
  BY DEF I!RowsAreToldApart, I!AllSaid, Alike
<1> DEFINE a == I!Items[i]
           b == I!Items[j]
<1>1. I!IsNotification(a) /\ I!IsNotification(b)
  BY OrderedIs
<1>2. /\ I!LinesOf(a, I!Width) = I!LinesOf(b, I!Width)
      /\ look.group = "by-repo" => I!HeaderLine(a) = I!HeaderLine(b)
  BY DEF I!Said
<1>3. I!ElidedRepo # Nothing => a.repo = b.repo
  BY DEF I!ElidedRepo, I!Range
<1> HIDE DEF a, b
<1>4. Alike(a, b)
  <2>1. look.rows \in {"one-line", "two-line"}
    BY InboxTakes DEF I!InboxScreenAssumption
  <2>2. CASE look.rows = "one-line"
    BY <1>1, <1>2, <2>2, OneLineTells DEF I!LinesOf
  <2>3. CASE look.rows = "two-line"
    BY <1>1, <1>2, <2>3, TwoLinesTell DEF I!LinesOf
  <2> QED
    BY <2>1, <2>2, <2>3
<1>5. CASE look.group = "by-repo"
  <2>1. I!HeaderLine(a).label = I!HeaderLine(b).label
    BY <1>2, <1>5
  <2>2. /\ I!HeaderLine(a).label = IF I!LabelFits(a) THEN <<a.repo>> ELSE <<>>
        /\ I!HeaderLine(b).label = IF I!LabelFits(b) THEN <<b.repo>> ELSE <<>>
    BY DEF I!HeaderLine
  <2>3. a.repo = b.repo \/ (~I!LabelFits(a) /\ ~I!LabelFits(b))
    BY <2>1, <2>2, TuplesDiffer, Zenon
  <2>4. I!SameRepo(a, b)
    BY <1>5, <2>3 DEF I!SameRepo, I!RepoIsCut
  <2> QED
    BY <1>4, <2>4 DEF a, b
<1>6. CASE look.group # "by-repo"
  <2>1. I!SameRepo(a, b)
    BY <1>3, <1>4, <1>6 DEF Alike, I!RepoIsRedundant, I!SameRepo
  <2> QED
    BY <1>4, <2>1 DEF a, b
<1> QED
  BY <1>5, <1>6

-----------------------------------------------------------------------------
(* What the shell draws around a surface.                                  *)

\* Of two numbers; Panels has its own names for these.
LEMMA PanelMost ==
    ASSUME NEW a \in Int, NEW b \in Int
    PROVE  /\ F!Max({a, b}) = IF a >= b THEN a ELSE b
           /\ F!Min({a, b}) = IF a <= b THEN a ELSE b
<1> DEFINE m == IF a >= b THEN a ELSE b
           n == IF a <= b THEN a ELSE b
<1>1. Max({a, b}) = m
  <2>1. {a, b} \subseteq Int /\ m \in {a, b} /\ \A y \in {a, b} : y <= m
    OBVIOUS
  <2> QED
    BY <2>1, MaxIs
<1>2. Min({a, b}) = n
  <2>1. n \in {a, b} /\ \A y \in {a, b} : n <= y
    OBVIOUS
  <2>2. \A x \in {a, b} : (\A y \in {a, b} : x <= y) => x = n
    OBVIOUS
  <2> QED
    BY <2>1, <2>2 DEF Min
<1> QED
  BY <1>1, <1>2, PanelsText

Hint == [keys: Nat, description: Nat]

\* A run of hints costs what its hints do.
LEMMA CostsAdd ==
    ASSUME NEW a \in Seq(Hint), NEW b \in Seq(Hint)
    PROVE  /\ F!CostOf(a) \in Nat /\ F!CostOf(b) \in Nat
           /\ F!CostOf(a \o b) = F!CostOf(a) + F!CostOf(b)
<1> DEFINE C == [h \in Hint |-> F!Cost(h)]
<1>1. C \in Maps(Hint, Nat)
  BY DEF Maps, Hint, F!Cost
<1>2. \A s \in Seq(Hint) : F!CostOf(s) = Total(Mapped(C, s))
  <2>1. ASSUME NEW s \in Seq(Hint)
        PROVE  F!CostOf(s) = Total(Mapped(C, s))
    <3>1. \A k \in DOMAIN s : s[k] \in Hint
      OBVIOUS
    <3>2. Mapped(C, s) = [k \in DOMAIN s |-> F!Cost(s[k])]
      BY <3>1 DEF Mapped
    <3> QED
      BY <3>2, PanelsText DEF F!CostOf
  <2> QED
    BY <2>1
<1>3. a \o b \in Seq(Hint)
  OBVIOUS
<1> HIDE DEF C
<1>4. /\ Mapped(C, a) \in Seq(Nat) /\ Mapped(C, b) \in Seq(Nat)
      /\ Mapped(C, a \o b) = Mapped(C, a) \o Mapped(C, b)
  BY <1>1, MappedIsSeq, MappedOfBoth
<1>5. /\ Total(Mapped(C, a)) \in Nat /\ Total(Mapped(C, b)) \in Nat
      /\ Total(Mapped(C, a) \o Mapped(C, b)) = Total(Mapped(C, a)) + Total(Mapped(C, b))
  BY <1>4, TotalIsNat, TotalOfBoth
<1> QED
  BY <1>2, <1>3, <1>4, <1>5

LEMMA JoinEnds ==
    ASSUME NEW S, NEW a \in Seq(S), NEW b \in Seq(S)
    PROVE  /\ a \o b \in Seq(S) /\ Len(a \o b) = Len(a) + Len(b)
           /\ SubSeq(a \o b, 1, Len(a) + Len(b)) = a \o b
           /\ SubSeq(a \o b, Len(a) + 1, Len(a) + Len(b)) = b
OBVIOUS

\* The keys out take sixteen cells.
LEMMA EscapeIs ==
    /\ F!Escape \in Seq(Hint) /\ Len(F!Escape) = 2
    /\ F!CostOf(F!Escape) = 16 /\ F!CostOf(<<>>) = 0
<1> DEFINE e == F!Binding(1, 4)
<1>1. e \in Hint /\ F!Cost(e) = 8 /\ F!Escape = <<e, e>>
  BY DEF F!Binding, Hint, F!Cost, F!Escape
<1>2. F!CostOf(<<e>>) = 8
  <2>1. [k \in DOMAIN <<e>> |-> F!Cost(<<e>>[k])] = <<8>>
    BY <1>1
  <2> QED
    BY <2>1, TotalOfOne, PanelsText DEF F!CostOf
<1>3. F!CostOf(<<>>) = 0
  <2>1. [k \in DOMAIN <<>> |-> F!Cost(<<>>[k])] = <<>>
    OBVIOUS
  <2> QED
    BY <2>1, TotalOfNone, PanelsText DEF F!CostOf
<1> HIDE DEF e
<1>4. <<e>> \in Seq(Hint) /\ <<e, e>> = <<e>> \o <<e>>
  BY <1>1
<1> DEFINE one == <<e>>
<1>5. F!CostOf(<<e, e>>) = 16
  <2>1. one \in Seq(Hint) /\ <<e, e>> = one \o one /\ F!CostOf(one) = 8
    BY <1>2, <1>4
  <2> HIDE DEF one
  <2>2. F!CostOf(one \o one) = F!CostOf(one) + F!CostOf(one)
    BY <2>1, CostsAdd
  <2>3. F!CostOf(one \o one) = 16
    BY <2>1, <2>2
  <2> QED
    BY <2>1, <2>3, Zenon
<1> QED
  BY <1>1, <1>3, <1>5

\* The footer's hints, with the way out after them, are drawn whole.
LEMMA FooterIs ==
    ASSUME NEW keys \in Seq(Hint), NEW width \in Nat, width >= 17
    PROVE  LET hints == F!FooterHints(keys, width)
               drawn == SubSeq(hints, 1, F!HintsDrawn(hints, width))
           IN \E before \in 0 .. Len(drawn) :
                SubSeq(drawn, before + 1, Len(drawn)) = F!Escape
<1> DEFINE budget == F!Max({0, width - (F!CostOf(F!Escape) + 1)})
           S == {n \in 0 .. Len(keys) : F!CostOf(SubSeq(keys, 1, n)) <= budget}
           m == F!Max(S)
           kept == SubSeq(keys, 1, m)
           hints == F!FooterHints(keys, width)
<1>1. budget = width - 17
  <2>1. width - (F!CostOf(F!Escape) + 1) = width - 17 /\ 0 \in Int /\ width - 17 \in Int
        /\ width - 17 >= 0
    BY EscapeIs
  <2>2. F!Max({0, width - 17}) = width - 17
    BY <2>1, PanelMost
  <2> QED
    BY <2>1, <2>2
<1>2. Len(keys) \in Nat
  OBVIOUS
<1>3. 0 \in S
  <2>1. SubSeq(keys, 1, 0) = <<>>
    OBVIOUS
  <2> QED
    <3>1. F!CostOf(SubSeq(keys, 1, 0)) <= budget
      <4> HIDE DEF budget
      <4>1. F!CostOf(<<>>) = 0 /\ budget = width - 17
        BY <1>1, EscapeIs
      <4>2. F!CostOf(SubSeq(keys, 1, 0)) = 0
        BY <2>1, <4>1, Zenon
      <4> QED
        BY <4>1, <4>2
    <3>2. 0 \in 0 .. Len(keys)
      BY <1>2
    <3> HIDE DEF budget
    <3> QED
      BY <3>1, <3>2
<1>4. m \in S
  <2>1. S \subseteq 0 .. Len(keys) /\ S # {}
    BY <1>3
  <2> HIDE DEF S
  <2> QED
    BY <1>2, <2>1, MaxOfSome, PanelsText
<1>5. hints = kept \o F!Escape
  BY DEF F!FooterHints
<1>6. m \in 0 .. Len(keys) /\ F!CostOf(kept) <= width - 17
  BY <1>1, <1>4
<1> HIDE DEF S, m, hints, budget
<1>7. kept \in Seq(Hint) /\ Len(kept) = m
  BY <1>6
<1> HIDE DEF kept
<1>8. F!CostOf(hints) <= width - 1 /\ F!CostOf(hints) \in Nat
  <2> DEFINE c == F!CostOf(kept)
             d == F!CostOf(F!Escape)
  <2>1. c \in Nat /\ d \in Nat /\ F!CostOf(kept \o F!Escape) = c + d
    BY <1>7, EscapeIs, CostsAdd
  <2>2. d = 16 /\ c <= width - 17
    BY <1>6, EscapeIs
  <2>3. width \in Int
    BY <1>1
  <2> HIDE DEF c, d
  <2>4. F!CostOf(hints) = c + d
    BY <1>5, <2>1, Zenon
  <2> QED
    BY <2>1, <2>2, <2>3, <2>4
<1>9. hints \in Seq(Hint) /\ Len(hints) = m + 2
  <2>1. F!Escape \in Seq(Hint) /\ Len(F!Escape) = 2
    BY EscapeIs
  <2>2. kept \o F!Escape \in Seq(Hint) /\ Len(kept \o F!Escape) = m + 2
    BY <1>7, <2>1, JoinEnds
  <2> QED
    BY <1>5, <2>2, Zenon
<1>10. F!HintsDrawn(hints, width) = m + 2
  <2> DEFINE D == {n \in 0 .. Len(hints) : n = 0 \/ F!CostOf(SubSeq(hints, 1, n)) - 1 <= width}
  <2>1. SubSeq(hints, 1, m + 2) = hints
    BY <1>6, <1>9
  <2>2. m + 2 \in D /\ \A y \in D : y <= m + 2
    <3>1. F!CostOf(SubSeq(hints, 1, m + 2)) - 1 <= width
      <4>1. F!CostOf(hints) - 1 <= width
        BY <1>8
      <4> QED
        BY <2>1, <4>1
    <3>2. m + 2 \in 0 .. Len(hints) /\ Len(hints) = m + 2 /\ m \in Nat
      BY <1>2, <1>6, <1>9
    <3> QED
      BY <3>1, <3>2
  <2>3. D \subseteq Int
    BY <1>9
  <2>4. F!HintsDrawn(hints, width) = F!Max(D)
    BY DEF F!HintsDrawn
  <2> HIDE DEF D
  <2> QED
    BY <2>2, <2>3, <2>4, MaxIs, PanelsText
<1>11. SubSeq(hints, 1, m + 2) = hints
  BY <1>6, <1>9
<1>12. SubSeq(hints, m + 1, m + 2) = F!Escape
  <2>1. F!Escape \in Seq(Hint) /\ Len(F!Escape) = 2
    BY EscapeIs
  <2>2. SubSeq(kept \o F!Escape, m + 1, m + 2) = F!Escape
    <3>1. \A a, b \in Seq(Hint) : SubSeq(a \o b, Len(a) + 1, Len(a) + Len(b)) = b
      BY JoinEnds
    <3> QED
      BY <1>7, <2>1, <3>1, Zenon
  <2> QED
    BY <1>5, <2>2, Zenon
<1>13. m \in 0 .. Len(hints)
  BY <1>6, <1>9
<1> QED
  BY <1>9, <1>10, <1>11, <1>12, <1>13 DEF hints

\* What the terminal, the surface and the messages may be.
PanelsInv ==
    /\ size \in PanelSizes /\ top \in Surfaces
    /\ status \in Messages \cup {F!Refreshing, Nothing}
    /\ row \in DOMAIN SettingRows
    /\ note \in Reasons \cup {Nothing}

\* A terminal that panels are drawn in is one of those assumed.
LEMMA SizeIs ==
    ASSUME PanelsInv
    PROVE  size[1] \in Nat /\ size[2] \in Nat /\ size[1] >= 40 /\ size[2] >= 10
<1>1. size \in PanelSizes
  BY DEF PanelsInv
<1>2. /\ PanelSizes \subseteq Nat \X Nat /\ MinWidth \in Nat /\ MinHeight \in Nat
      /\ MinWidth >= 40 /\ MinHeight >= 10
      /\ \A s \in PanelSizes : s[1] >= MinWidth /\ s[2] >= MinHeight
  BY ScreensAssumption DEF F!PanelsAssumption
<1>3. size[1] \in Nat /\ size[2] \in Nat
  BY <1>1, <1>2
<1>4. size[1] >= MinWidth /\ size[2] >= MinHeight
  BY <1>1, <1>2
<1> QED
  BY <1>2, <1>3, <1>4

\* The header admits no more than it has room for.
LEMMA AdmissionFits ==
    ASSUME PanelsInv
    PROVE  F!Admission <= size[1] - F!HeaderSplit
<1> DEFINE a == F!Admission
           b == size[1] - (F!HeaderRight + 1)
<1>1. a \in Nat /\ a <= 27
  <2>1. top.never \/ (~top.never /\ top.cached) \/ (~top.never /\ ~top.cached)
    OBVIOUS
  <2>2. CASE top.never
    BY <2>2 DEF F!Admission
  <2>3. CASE ~top.never /\ top.cached
    BY <2>3 DEF F!Admission
  <2>4. CASE ~top.never /\ ~top.cached
    BY <2>4 DEF F!Admission
  <2> QED
    BY <2>1, <2>2, <2>3, <2>4
<1>2. ViewerWidth \in Nat
  BY ScreensAssumption DEF F!PanelsAssumption
<1>3. b = size[1] - (a + ViewerWidth + 4)
  <2> HIDE DEF a
  <2>1. F!HeaderRight = a + ViewerWidth + 3
    BY DEF F!HeaderRight, a
  <2> QED
    BY <1>1, <1>2, <2>1, SizeIs
<1> HIDE DEF a, b
<1>4. b \in Int /\ F!HeaderSplit = IF 0 >= b THEN 0 ELSE b
  <2>1. b \in Int
    BY <1>1, <1>2, <1>3, SizeIs
  <2>2. F!HeaderSplit = F!Max({0, b})
    BY DEF F!HeaderSplit, b
  <2> QED
    BY <2>1, <2>2, PanelMost
<1>5. a <= size[1] - F!HeaderSplit
  BY <1>1, <1>2, <1>3, <1>4, SizeIs
<1> QED
  BY <1>5 DEF a

LEMMA WholeOf ==
    ASSUME NEW S, NEW s \in Seq(S), NEW n \in Nat, n <= Len(s)
    PROVE  Len(SubSeq(s, 1, n)) = n /\ (n = Len(s) => SubSeq(s, 1, n) = s)
OBVIOUS

\* A status ends on the last row, and is drawn whole where it has room.
LEMMA StatusTold ==
    ASSUME PanelsInv, status # Nothing
    PROVE  /\ Len(F!StatusLines) <= size[2] =>
                 F!CellsOf(F!FlattenSeq(F!StatusDrawn)) = F!Total(status)
           /\ F!StatusTop + Len(F!StatusDrawn) = size[2]
<1> DEFINE lay == Wrap(status, size[1] - 1)
           n == Len(lay)
           h == IF n <= size[2] THEN n ELSE size[2]
<1>1. size[1] - 1 \in Nat \ {0} /\ size[2] \in Nat /\ size[2] >= 10
  BY SizeIs
<1>2. status \in Seq(Nat)
  <2>1. F!Refreshing \in Seq(Nat)
    BY DEF F!Refreshing
  <2>2. Messages \subseteq Seq(Nat)
    BY ScreensAssumption DEF F!PanelsAssumption
  <2> QED
    BY <2>1, <2>2 DEF PanelsInv
<1>3. lay \in Seq(Seq(Piece)) /\ lay # <<>> /\ CellsOf(FlattenSeq(lay)) = Total(status)
  BY <1>1, <1>2, WrapIs
<1>4. F!StatusLines = lay
  BY PanelsText DEF F!StatusLines
<1> HIDE DEF lay
<1>5. n \in Nat /\ n >= 1
  BY <1>3
<1>6. F!StatusHeight = h
  <2>1. F!Min({n, size[2]}) = h
    <3> HIDE DEF n
    <3>1. n \in Int /\ size[2] \in Int
      BY <1>1, <1>5
    <3>2. F!Min({n, size[2]}) = IF n <= size[2] THEN n ELSE size[2]
      BY <3>1, PanelMost
    <3> QED
      BY <3>2 DEF h
  <2>2. h \in Int /\ h >= 1 /\ 1 \in Int
    BY <1>1, <1>5
  <2>3. F!StatusHeight = F!Max({1, F!Min({n, size[2]})})
    BY <1>4 DEF F!StatusHeight
  <2> HIDE DEF h, n
  <2>4. F!Max({1, h}) = h
    BY <2>2, PanelMost
  <2> QED
    BY <2>1, <2>3, <2>4
<1>7. h \in Nat /\ h >= 1 /\ h <= size[2] /\ h <= n
  BY <1>1, <1>5
<1>8. F!StatusTop = size[2] - h
  <2> DEFINE u == size[2] - 1 - (h - 1)
  <2>1. u \in Int /\ u >= 0 /\ u = size[2] - h /\ 0 \in Int
    BY <1>1, <1>7
  <2>2. F!StatusTop = F!Max({0, u})
    BY <1>6 DEF F!StatusTop
  <2> HIDE DEF u
  <2>3. F!Max({0, u}) = u
    BY <2>1, PanelMost
  <2> QED
    BY <2>1, <2>2, <2>3
<1>9. F!StatusDrawn = SubSeq(lay, 1, h)
  <2> HIDE DEF h
  <2>1. F!StatusDrawn = SubSeq(lay, 1, F!Min({h, size[2] - (size[2] - h)}))
    BY <1>4, <1>6, <1>8 DEF F!StatusDrawn
  <2>2. size[2] - (size[2] - h) = h
    BY <1>1, <1>7
  <2>3. F!Min({h, h}) = h
    <3> DEFINE g == h
    <3>1. g \in Int /\ h \in Int /\ g = h
      BY <1>7
    <3> HIDE DEF g
    <3>2. F!Min({h, g}) = h
      BY <3>1, PanelMost
    <3> QED
      BY <3>1, <3>2
  <2> QED
    BY <2>1, <2>2, <2>3
<1>10. Len(SubSeq(lay, 1, h)) = h /\ (h = n => SubSeq(lay, 1, h) = lay)
  <2> HIDE DEF h
  <2> QED
    BY <1>3, <1>7, WholeOf
<1>11. F!StatusTop + Len(F!StatusDrawn) = size[2]
  <2> HIDE DEF h
  <2> QED
    BY <1>1, <1>7, <1>8, <1>9, <1>10
<1>12. ASSUME Len(F!StatusLines) <= size[2]
       PROVE  F!CellsOf(F!FlattenSeq(F!StatusDrawn)) = F!Total(status)
  <2>1. h = n
    BY <1>4, <1>12
  <2>2. F!StatusDrawn = lay
    BY <1>9, <1>10, <2>1
  <2> QED
    BY <1>3, <2>2, PanelsText
<1> QED
  BY <1>11, <1>12

LEMMA ConcatIs ==
    ASSUME NEW S, NEW s \in Seq(S), NEW t \in Seq(S)
    PROVE  s \o t = [k \in 1 .. Len(s) + Len(t) |-> IF k <= Len(s) THEN s[k] ELSE t[k - Len(s)]]
<1> DEFINE u == s \o t
           v == [k \in 1 .. Len(s) + Len(t) |-> IF k <= Len(s) THEN s[k] ELSE t[k - Len(s)]]
<1>1. /\ u \in Seq(S) /\ Len(u) = Len(s) + Len(t)
      /\ \A k \in 1 .. Len(s) + Len(t) : u[k] = v[k]
  OBVIOUS
<1>2. u = [k \in 1 .. Len(u) |-> u[k]]
  <2> HIDE DEF u
  <2> QED
    BY <1>1
<1>3. u = v
  <2> HIDE DEF u, v
  <2>1. v = [k \in 1 .. Len(u) |-> v[k]] /\ \A k \in 1 .. Len(u) : u[k] = v[k]
    BY <1>1 DEF v
  <2> QED
    BY <1>2, <2>1
<1> QED
  BY <1>3

\* The lines after the first n are a note's, and no other line is.
NotesLast(told, n, w) ==
    /\ DOMAIN told = 1 .. n + Len(w)
    /\ \A k \in 1 .. n : told[k].part # "note"
    /\ \A k \in DOMAIN w : told[n + k].part = "note" /\ told[n + k].shows = w[k]

\* Lines of which the last are a note, and no other is, tell the note.
LEMMA ToldIs ==
    ASSUME NEW n \in Nat, NEW S, NEW w \in Seq(S), NEW told, NotesLast(told, n, w)
    PROVE  F!Told(told, "note") = w
<1> USE DEF NotesLast
<1> DEFINE m == [k \in DOMAIN told |-> IF told[k].part = "note" THEN <<told[k].shows>> ELSE <<>>]
           none == [k \in 1 .. n |-> <<>>]
           some == [k \in DOMAIN w |-> <<w[k]>>]
<1>1. Len(w) \in Nat /\ DOMAIN w = 1 .. Len(w) /\ \A k \in DOMAIN w : w[k] \in S
  OBVIOUS
<1>2. none \in Seq(Seq(S)) /\ Len(none) = n /\ FlattenSeq(none) = <<>>
  <2>1. none \in [1 .. n -> Seq(S)]
    OBVIOUS
  <2>2. FlattenSeq(none) = <<>>
    BY FlatOfEmpties
  <2> HIDE DEF none
  <2> QED
    BY <2>1, <2>2, MappingIsSeq
<1>3. some \in Seq(Seq(S)) /\ Len(some) = Len(w) /\ FlattenSeq(some) = w
  <2>1. some \in [1 .. Len(w) -> Seq(S)]
    BY <1>1
  <2>2. FlattenSeq(some) = w
    BY FlatOfSingles
  <2> HIDE DEF some
  <2> QED
    BY <1>1, <2>1, <2>2, MappingIsSeq
<1>4. m = none \o some
  <2>1. \A k \in 1 .. n : m[k] = <<>> /\ none[k] = <<>>
    BY <1>1
  <2>2. \A k \in 1 .. Len(w) : m[n + k] = <<w[k]>> /\ some[k] = <<w[k]>>
    BY <1>1
  <2>3. DOMAIN m = 1 .. n + Len(w)
    OBVIOUS
  <2>4. m = [k \in 1 .. n + Len(w) |-> m[k]]
    BY <2>3
  <2> HIDE DEF m, none, some
  <2>5. \A k \in 1 .. n + Len(w) : m[k] = IF k <= n THEN none[k] ELSE some[k - n]
    <3>1. ASSUME NEW k \in 1 .. n + Len(w), k > n
          PROVE  m[k] = some[k - n]
      <4>1. k - n \in 1 .. Len(w) /\ n + (k - n) = k
        BY <1>1, <3>1
      <4> QED
        BY <2>2, <4>1
    <3> QED
      BY <1>1, <2>1, <3>1
  <2>6. none \o some = [k \in 1 .. n + Len(w) |-> IF k <= n THEN none[k] ELSE some[k - n]]
    BY <1>2, <1>3, ConcatIs
  <2> QED
    BY <2>4, <2>5, <2>6
<1>5. F!Told(told, "note") = FlattenSeq(m)
  BY PanelsText DEF F!Told
<1> HIDE DEF m, none, some
<1>6. FlattenSeq(none \o some) = FlattenSeq(none) \o FlattenSeq(some)
  BY <1>2, <1>3, FlatOfBoth
<1>7. <<>> \o w = w
  OBVIOUS
<1> QED
  BY <1>2, <1>3, <1>4, <1>5, <1>6, <1>7

\* A panel no taller than the terminal is drawn to its last line.
LEMMA InsideIs ==
    ASSUME PanelsInv, NEW S, NEW s \in Seq(S), Len(s) + 2 <= size[2]
    PROVE  F!Inside(s) = s
<1> DEFINE h == Len(s) + 2
<1>1. h \in Int /\ size[2] \in Int /\ h <= size[2] /\ h - 2 = Len(s) /\ Len(s) \in Nat
  BY SizeIs
<1>2. F!Inside(s) = SubSeq(s, 1, F!Min({h, size[2]}) - 2)
  BY DEF F!Inside
<1> HIDE DEF h
<1>3. F!Min({h, size[2]}) = h
  BY <1>1, PanelMost
<1>4. SubSeq(s, 1, Len(s)) = s
  BY <1>1, WholeOf
<1> QED
  BY <1>1, <1>2, <1>3, <1>4

LEMMA JoinIsSeq ==
    ASSUME NEW S, NEW s \in Seq(S), NEW t \in Seq(S)
    PROVE  s \o t \in Seq(S) /\ Len(s \o t) = Len(s) + Len(t)
OBVIOUS

HelpLine ==
    {[part |-> p] : p \in {"keys", "blank", "any key to close"}}
    \cup {[part |-> "binding", binding |-> b] : b \in Hint}

\* Help has room in 24 lines.
LEMMA HelpFits ==
    ASSUME PanelsInv, size[2] >= 24
    PROVE  F!Inside(F!HelpLines) = F!HelpLines
<1> DEFINE m == [k \in DOMAIN top.keymap |-> [part |-> "binding", binding |-> top.keymap[k]]]
           g == [k \in DOMAIN Globals |-> [part |-> "binding", binding |-> Globals[k]]]
           one == <<[part |-> "keys"]>>
           end == <<[part |-> "any key to close"]>>
           b == F!Blank
           W == Seq(HelpLine)
<1>1. /\ top.keymap \in Seq(Hint) /\ Globals \in Seq(Hint)
      /\ Len(top.keymap) + Len(Globals) <= 17
  BY ScreensAssumption DEF PanelsInv, F!PanelsAssumption, Hint
<1>2. one \in W /\ Len(one) = 1 /\ end \in W /\ Len(end) = 1 /\ b \in W /\ Len(b) = 1
  BY DEF HelpLine, F!Blank
<1>3. ASSUME NEW s \in Seq(Hint)
      PROVE  LET t == [k \in DOMAIN s |-> [part |-> "binding", binding |-> s[k]]]
             IN t \in W /\ Len(t) = Len(s)
  <2> DEFINE t == [k \in DOMAIN s |-> [part |-> "binding", binding |-> s[k]]]
  <2>1. t \in [1 .. Len(s) -> HelpLine] /\ Len(s) \in Nat
    <3>1. \A k \in DOMAIN s : s[k] \in Hint /\ DOMAIN s = 1 .. Len(s) /\ Len(s) \in Nat
      OBVIOUS
    <3>2. \A h \in Hint : [part |-> "binding", binding |-> h] \in HelpLine
      BY DEF HelpLine
    <3>3. DOMAIN s = 1 .. Len(s) /\ Len(s) \in Nat
      OBVIOUS
    <3> QED
      BY <3>1, <3>2, <3>3
  <2> HIDE DEF t
  <2> QED
    BY <2>1, MappingIsSeq DEF t
<1>4. m \in W /\ Len(m) = Len(top.keymap) /\ g \in W /\ Len(g) = Len(Globals)
  BY <1>1, <1>3
<1>5. F!HelpLines = one \o b \o m \o b \o g \o b \o end
  BY DEF F!HelpLines
<1>6. Len(top.keymap) \in Nat /\ Len(Globals) \in Nat
  BY <1>1
<1> HIDE DEF m, g, one, end, b
<1>7. \A s, t \in W : s \o t \in W /\ Len(s \o t) = Len(s) + Len(t)
  BY JoinIsSeq
<1> HIDE DEF W
<1>8. one \o b \in W /\ Len(one \o b) = 2
  <2>1. one \o b \in W /\ Len(one \o b) = Len(one) + Len(b)
    BY <1>2, <1>7, Zenon
  <2> QED
    BY <1>2, <1>6, <2>1
<1>9. one \o b \o m \in W /\ Len(one \o b \o m) = 2 + Len(top.keymap)
  <2>1. one \o b \o m \in W /\ Len(one \o b \o m) = Len(one \o b) + Len(m)
    BY <1>2, <1>4, <1>8, <1>7, Zenon
  <2> QED
    BY <1>2, <1>4, <1>8, <1>6, <2>1
<1>10. one \o b \o m \o b \in W /\ Len(one \o b \o m \o b) = 3 + Len(top.keymap)
  <2>1. one \o b \o m \o b \in W /\ Len(one \o b \o m \o b) = Len(one \o b \o m) + Len(b)
    BY <1>2, <1>4, <1>9, <1>7, Zenon
  <2> QED
    BY <1>2, <1>4, <1>9, <1>6, <2>1
<1>11. one \o b \o m \o b \o g \in W /\ Len(one \o b \o m \o b \o g) = 3 + Len(top.keymap) + Len(Globals)
  <2>1. one \o b \o m \o b \o g \in W /\ Len(one \o b \o m \o b \o g) = Len(one \o b \o m \o b) + Len(g)
    BY <1>2, <1>4, <1>10, <1>7, Zenon
  <2> QED
    BY <1>2, <1>4, <1>10, <1>6, <2>1
<1>12. one \o b \o m \o b \o g \o b \in W /\ Len(one \o b \o m \o b \o g \o b) = 4 + Len(top.keymap) + Len(Globals)
  <2>1. one \o b \o m \o b \o g \o b \in W /\ Len(one \o b \o m \o b \o g \o b) = Len(one \o b \o m \o b \o g) + Len(b)
    BY <1>2, <1>4, <1>11, <1>7, Zenon
  <2> QED
    BY <1>2, <1>4, <1>11, <1>6, <2>1
<1>13. one \o b \o m \o b \o g \o b \o end \in W /\ Len(one \o b \o m \o b \o g \o b \o end) = 5 + Len(top.keymap) + Len(Globals)
  <2>1. one \o b \o m \o b \o g \o b \o end \in W /\ Len(one \o b \o m \o b \o g \o b \o end) = Len(one \o b \o m \o b \o g \o b) + Len(end)
    BY <1>2, <1>4, <1>12, <1>7, Zenon
  <2> QED
    BY <1>2, <1>4, <1>12, <1>6, <2>1
<1>14. Len(F!HelpLines) + 2 <= size[2]
  BY <1>1, <1>5, <1>6, <1>13, SizeIs
<1> QED
  BY <1>5, <1>13, <1>14, InsideIs DEF W

\* A screen without rows has room for its notice.
LEMMA NoticeFits ==
    ASSUME PanelsInv
    PROVE  F!NoticeHeight(top.state) <= size[2] - 2
<1>1. F!NoticeHeight(top.state) \in {3, 5}
  BY DEF F!NoticeHeight
<1> QED
  BY <1>1, SizeIs

\* The lines of the settings panel, but for the note, and with it.
OtherLine ==
    {[part |-> p] : p \in {"title", "blank", "section"}}
    \cup {[part |-> "row", row |-> k] : k \in Nat}
    \cup {[part |-> p, shows |-> l] : p \in {"description", "alternatives"}, l \in Seq(Piece)}
NoteLine == {[part |-> "note", shows |-> l] : l \in Seq(Piece)}

LEMMA OthersAreNone == \A l \in OtherLine : l.part # "note"
BY DEF OtherLine

LEMMA LinesAre ==
    ASSUME NEW part, NEW w \in Seq(Seq(Piece)), NEW S,
           \A l \in Seq(Piece) : [part |-> part, shows |-> l] \in S
    PROVE  /\ F!Lines(part, w) \in Seq(S) /\ Len(F!Lines(part, w)) = Len(w)
           /\ \A k \in DOMAIN w : F!Lines(part, w)[k] = [part |-> part, shows |-> w[k]]
<1> DEFINE t == [k \in DOMAIN w |-> [part |-> part, shows |-> w[k]]]
           V == Seq(Piece)
<1>1. Len(w) \in Nat /\ DOMAIN w = 1 .. Len(w) /\ \A k \in DOMAIN w : w[k] \in V
  OBVIOUS
<1> HIDE DEF V
<1>2. t \in [1 .. Len(w) -> S]
  BY <1>1 DEF V
<1>3. \A k \in DOMAIN w : t[k] = [part |-> part, shows |-> w[k]]
  OBVIOUS
<1>4. F!Lines(part, w) = t
  BY DEF F!Lines
<1> HIDE DEF t
<1>5. t \in Seq(S) /\ Len(t) = Len(w)
  BY <1>1, <1>2, MappingIsSeq
<1> QED
  BY <1>3, <1>4, <1>5

\* The rows of the settings hold no note.
LEMMA SectionedIs == F!SectionedRows \in Seq(OtherLine)
<1> DEFINE part(k) == (IF k = 1 \/ SettingRows[k].section # SettingRows[k - 1].section
                       THEN <<[part |-> "section"]>> ELSE <<>>)
                      \o <<[part |-> "row", row |-> k]>>
           rows == [k \in DOMAIN SettingRows |-> part(k)]
           W == Seq(OtherLine)
<1>1. DOMAIN SettingRows = 1 .. Len(SettingRows) /\ Len(SettingRows) \in Nat
  BY ScreensAssumption DEF F!PanelsAssumption
<1>2. ASSUME NEW k \in 1 .. Len(SettingRows)
      PROVE  part(k) \in W
  <2>1. [part |-> "section"] \in OtherLine /\ [part |-> "row", row |-> k] \in OtherLine
    BY DEF OtherLine
  <2>2. \A x, y \in OtherLine : <<x>> \o <<y>> \in W /\ <<>> \o <<y>> \in W
    OBVIOUS
  <2> HIDE DEF W
  <2>3. CASE k = 1 \/ SettingRows[k].section # SettingRows[k - 1].section
    BY <2>1, <2>2, <2>3
  <2>4. CASE ~(k = 1 \/ SettingRows[k].section # SettingRows[k - 1].section)
    BY <2>1, <2>2, <2>4
  <2> QED
    BY <2>3, <2>4
<1>3. F!SectionedRows = FlattenSeq(rows)
  BY PanelsText DEF F!SectionedRows
<1> HIDE DEF part, W
<1>4. rows \in [1 .. Len(SettingRows) -> W]
  BY <1>1, <1>2
<1> HIDE DEF rows
<1>5. rows \in Seq(W)
  BY <1>1, <1>4, MappingIsSeq
<1> QED
  BY <1>3, <1>5, FlatIsSeq DEF W

LEMMA EndsOf ==
    ASSUME NEW S, NEW T, NEW s \in Seq(S), NEW t \in Seq(T)
    PROVE  /\ s \o t \in Seq(S \cup T) /\ DOMAIN (s \o t) = 1 .. Len(s) + Len(t)
           /\ \A k \in 1 .. Len(s) : (s \o t)[k] = s[k]
           /\ \A k \in 1 .. Len(t) : (s \o t)[Len(s) + k] = t[k]
OBVIOUS

\* The panel tells the note to its end.
LEMMA NoteTold ==
    ASSUME PanelsInv, note # Nothing, size[1] >= 80, size[2] >= 24
    PROVE  LET told == F!Told(F!Inside(F!SettingsLines), "note")
           IN /\ F!CellsOf(F!FlattenSeq(told)) = F!Total(F!NotSaved \o note)
              /\ \A k \in DOMAIN told : F!Cells(told[k]) <= F!PanelText
<1> DEFINE cells == F!PanelText
           w == Wrap(F!NotSaved \o note, 72)
           d == Wrap(SettingRows[row].description, 72)
           a == Wrap(SettingRows[row].alternatives, 72)
           one == <<[part |-> "title"]>>
           b == F!Blank
           sections == F!SectionedRows
           dd == F!Lines("description", d)
           aa == F!Lines("alternatives", a)
           nn == F!Lines("note", w)
           panel == F!SettingsPanel(row, note, 72)
           W == Seq(OtherLine)
<1>1. cells = 72
  <2>1. 76 \in Int /\ size[1] \in Int /\ 76 <= size[1]
    BY SizeIs
  <2>2. F!Min({76, size[1]}) = 76
    BY <2>1, PanelMost
  <2> QED
    BY <2>2 DEF F!PanelText
<1>2. /\ note \in Reasons /\ note \in Seq(Nat)
      /\ SettingRows[row].description \in Seq(Nat)
      /\ SettingRows[row].alternatives \in Seq(Nat)
      /\ Len(panel) + 2 <= 24
  <2>1. note \in Reasons /\ row \in DOMAIN SettingRows
    BY DEF PanelsInv
  <2>2. Reasons \subseteq Seq(Nat)
    BY ScreensAssumption DEF F!PanelsAssumption
  <2>3. /\ SettingRows[row].description \in Seq(Nat)
        /\ SettingRows[row].alternatives \in Seq(Nat)
    BY <2>1, ScreensAssumption DEF F!ReasonsAssumption
  <2>4. Len(panel) + 2 <= 24
    <3> HIDE DEF panel
    <3>1. \A k \in DOMAIN SettingRows, why \in Reasons :
             Len(F!SettingsPanel(k, why, 72)) + 2 <= 24
      BY ScreensAssumption DEF F!ReasonsAssumption
    <3> QED
      BY <2>1, <3>1 DEF panel
  <2> QED
    BY <2>1, <2>2, <2>3, <2>4
<1>3. F!NotSaved \o note \in Seq(Nat)
  <2>1. F!NotSaved \in Seq(Nat)
    BY DEF F!NotSaved
  <2> QED
    BY <1>2, <2>1, JoinIsSeq
<1>4. /\ w \in Seq(Seq(Piece)) /\ CellsOf(FlattenSeq(w)) = Total(F!NotSaved \o note)
      /\ \A k \in DOMAIN w : Cells(w[k]) <= 72
  <2> DEFINE all == F!NotSaved \o note
  <2> HIDE DEF all
  <2>1. all \in Seq(Nat) /\ 72 \in Nat \ {0}
    BY <1>3 DEF all
  <2> QED
    BY <2>1, WrapIs DEF all
<1>5. d \in Seq(Seq(Piece)) /\ a \in Seq(Seq(Piece))
  <2>1. 72 \in Nat \ {0}
    OBVIOUS
  <2> QED
    BY <1>2, <2>1, WrapIs
<1>6. panel = one \o b \o sections \o b \o dd \o aa \o b \o nn
  BY PanelsText DEF F!SettingsPanel, PanelsInv
<1>7. one \in W /\ b \in W /\ sections \in W
  BY SectionedIs DEF OtherLine, F!Blank
<1> HIDE DEF w, d, a
<1>8. dd \in W /\ aa \in W
  <2>1. \A l \in Seq(Piece) : /\ [part |-> "description", shows |-> l] \in OtherLine
                              /\ [part |-> "alternatives", shows |-> l] \in OtherLine
    <3> TAKE l \in Seq(Piece)
    <3> DEFINE V == Seq(Piece)
    <3> HIDE DEF V
    <3>1. l \in V
      BY DEF V
    <3>2. OtherLine = {[part |-> p] : p \in {"title", "blank", "section"}}
                      \cup {[part |-> "row", row |-> k] : k \in Nat}
                      \cup {[part |-> p, shows |-> q] : p \in {"description", "alternatives"}, q \in V}
      BY DEF OtherLine, V
    <3> QED
      BY <3>1, <3>2
  <2> QED
    BY <1>5, <2>1, LinesAre
<1>9. /\ nn \in Seq(NoteLine) /\ Len(nn) = Len(w)
      /\ \A k \in DOMAIN w : nn[k] = [part |-> "note", shows |-> w[k]]
  <2>1. \A l \in Seq(Piece) : [part |-> "note", shows |-> l] \in NoteLine
    BY DEF NoteLine
  <2> QED
    BY <1>4, <2>1, LinesAre
<1> HIDE DEF panel, one, b, sections, dd, aa, nn
<1> DEFINE rest == one \o b \o sections \o b \o dd \o aa \o b
<1>10. rest \in W
  <2>1. \A s, t \in W : s \o t \in W
    BY JoinIsSeq
  <2> HIDE DEF W
  <2> QED
    BY <1>7, <1>8, <2>1, Zenon
<1>11. panel = rest \o nn
  BY <1>6
<1> HIDE DEF rest
<1> DEFINE n == Len(rest)
           m == Len(w)
<1>12. /\ n \in Nat /\ m \in Nat /\ DOMAIN w = 1 .. m
       /\ \A k \in 1 .. n : rest[k] \in OtherLine
  BY <1>4, <1>10
<1>13. /\ panel \in Seq(OtherLine \cup NoteLine) /\ DOMAIN panel = 1 .. n + m
       /\ \A k \in 1 .. n : panel[k] = rest[k]
       /\ \A k \in 1 .. m : panel[n + k] = nn[k]
  <2>1. rest \in Seq(OtherLine) /\ nn \in Seq(NoteLine) /\ Len(nn) = m
    BY <1>9, <1>10
  <2> HIDE DEF n, m, W, cells
  <2>2. /\ rest \o nn \in Seq(OtherLine \cup NoteLine) /\ DOMAIN (rest \o nn) = 1 .. Len(rest) + Len(nn)
        /\ \A k \in 1 .. Len(rest) : (rest \o nn)[k] = rest[k]
        /\ \A k \in 1 .. Len(nn) : (rest \o nn)[Len(rest) + k] = nn[k]
    <3>1. \A s \in Seq(OtherLine), t \in Seq(NoteLine) :
             /\ s \o t \in Seq(OtherLine \cup NoteLine) /\ DOMAIN (s \o t) = 1 .. Len(s) + Len(t)
             /\ \A k \in 1 .. Len(s) : (s \o t)[k] = s[k]
             /\ \A k \in 1 .. Len(t) : (s \o t)[Len(s) + k] = t[k]
      BY EndsOf
    <3> QED
      BY <2>1, <3>1, Zenon
  <2> QED
    BY <1>11, <2>1, <2>2, Zenon DEF n
<1>14. F!Told(panel, "note") = w
  <2>1. \A k \in 1 .. n : panel[k].part # "note"
    BY <1>12, <1>13, OthersAreNone
  <2>2. \A k \in DOMAIN w : panel[n + k].part = "note" /\ panel[n + k].shows = w[k]
    <3> TAKE k \in DOMAIN w
    <3>1. k \in 1 .. m /\ panel[n + k] = [part |-> "note", shows |-> w[k]]
      BY <1>9, <1>12, <1>13, Zenon
    <3> QED
      BY <3>1
  <2>3. w \in Seq(Seq(Piece)) /\ n \in Nat /\ DOMAIN panel = 1 .. n + Len(w)
    BY <1>4, <1>12, <1>13
  <2> HIDE DEF n
  <2> DEFINE V == Seq(Piece)
  <2>4. w \in Seq(V)
    BY <2>3
  <2> HIDE DEF V
  <2>5. DOMAIN panel = 1 .. n + Len(w) /\ n \in Nat
    BY <2>3
  <2>6. NotesLast(panel, n, w)
    BY <2>1, <2>2, <2>5, Zenon DEF NotesLast
  <2> QED
    BY <2>4, <2>5, <2>6, ToldIs, Zenon
<1>15. F!Inside(panel) = panel
  <2>1. Len(panel) + 2 <= size[2]
    <3>1. Len(panel) \in Nat
      BY <1>13
    <3> QED
      BY <1>2, <3>1, SizeIs
  <2> QED
    BY <1>13, <2>1, InsideIs
<1>16. F!SettingsLines = panel
  BY <1>1 DEF F!SettingsLines, panel
<1> HIDE DEF cells
<1>17. F!Told(F!Inside(F!SettingsLines), "note") = w
  BY <1>14, <1>15, <1>16
<1>18. F!CellsOf(F!FlattenSeq(w)) = F!Total(F!NotSaved \o note)
  BY <1>4, PanelsText
<1>19. \A k \in DOMAIN w : F!Cells(w[k]) <= F!PanelText
  BY <1>1, <1>4, PanelsText DEF cells
<1> QED
  BY <1>17, <1>18, <1>19

\* Whatever is in front, the footer ends in the way out, help and notices
\* have room, and what is said is said to its end.
LEMMA PanelsTell ==
    ASSUME PanelsInv
    PROVE  F!WayOutIsShown /\ F!SentencesAreWhole
<1>1. F!WayOutIsShown
  <2>1. LET hints == F!FooterHints(top.keymap, size[1])
            drawn == SubSeq(hints, 1, F!HintsDrawn(hints, size[1]))
        IN \E before \in 0 .. Len(drawn) :
              SubSeq(drawn, before + 1, Len(drawn)) = F!Escape
    <3>1. top.keymap \in Seq(Hint)
      BY ScreensAssumption DEF PanelsInv, F!PanelsAssumption, Hint
    <3>2. size[1] \in Nat /\ size[1] >= 17
      BY SizeIs
    <3> QED
      BY <3>1, <3>2, FooterIs
  <2> QED
    BY <2>1, HelpFits, NoticeFits DEF F!WayOutIsShown
<1>2. F!SentencesAreWhole
  BY StatusTold, NoteTold, AdmissionFits DEF F!SentencesAreWhole
<1> QED
  BY <1>1, <1>2

LEMMA PanelsStart ==
    ASSUME F!Init
    PROVE  PanelsInv
<1>1. 1 \in DOMAIN SettingRows
  BY ScreensAssumption DEF F!PanelsAssumption
<1> QED
  BY <1>1 DEF F!Init, PanelsInv

\* The panels keep to their sizes, messages, reasons and bindings.
LEMMA PanelsStep ==
    ASSUME PanelsInv, F!Next
    PROVE  PanelsInv'
<1>0. DOMAIN SettingRows = 1 .. Len(SettingRows) /\ Len(SettingRows) \in Nat \ {0}
  BY ScreensAssumption DEF F!PanelsAssumption
<1>1. CASE F!Navigate
  BY <1>1 DEF F!Navigate, F!Key, PanelsInv
<1>2. CASE F!OpenOverlay
  BY <1>2 DEF F!OpenOverlay, F!Key, PanelsInv
<1>3. CASE F!Say
  BY <1>3 DEF F!Say, PanelsInv
<1>4. CASE F!Close
  BY <1>4 DEF F!Close, F!Key, PanelsInv
<1>5. CASE F!MoveRow
  <2>1. row' \in 1 .. Len(SettingRows)
    <3>1. \A k \in Int : (k % Len(SettingRows)) + 1 \in 1 .. Len(SettingRows)
      BY <1>0
    <3>2. row \in Int /\ row + Len(SettingRows) - 2 \in Int
      BY <1>0 DEF PanelsInv
    <3> QED
      BY <1>5, <3>1, <3>2 DEF F!MoveRow
  <2> QED
    BY <1>0, <1>5, <2>1 DEF F!MoveRow, F!Key, PanelsInv
<1>6. CASE F!Change
  BY <1>6 DEF F!Change, F!Key, PanelsInv
<1>7. CASE F!Landed
  BY <1>7 DEF F!Landed, PanelsInv
<1>8. CASE F!RefreshFailed
  BY <1>8 DEF F!RefreshFailed, PanelsInv
<1>9. CASE F!Reloaded
  BY <1>9 DEF F!Reloaded, PanelsInv
<1>10. CASE F!Resize
  BY <1>10 DEF F!Resize, PanelsInv
<1> QED
  BY <1>1, <1>2, <1>3, <1>4, <1>5, <1>6, <1>7, <1>8, <1>9, <1>10 DEF F!Next

-----------------------------------------------------------------------------
(* What the palette finds.                                                 *)

Found == [found: BOOLEAN, next: Nat \ {0}, score: Int]
NoneYet == [found |-> TRUE, next |-> 1, score |-> 0]

\* Where a letter is, from where the last left off; and what finding it makes
\* of what was found.
LettersAt(hay, from, letter) == {p \in from .. Len(hay) : hay[p] = letter}
Sought(pat, hay, i, acc) ==
    LET spots == LettersAt(hay, acc.next, pat[i]) IN
    IF ~acc.found \/ spots = {} THEN [acc EXCEPT !.found = FALSE]
    ELSE LET at == L!Min(spots) IN
         [acc EXCEPT !.next = at + 1, !.score = @ + L!Earned(hay, i, acc.next, at)]
Seeking(pat, hay) ==
    [r \in (1 .. Len(pat)) \X Found |-> Sought(pat, hay, r[1], r[2])]

\* What the palette calls joining is Text's.
LEMMA PaletteText ==
    /\ \A s : L!FlattenSeq(s) = FlattenSeq(s)
    /\ \A S : L!Max(S) = Max(S) /\ L!Min(S) = Min(S)
<1>1. \A S : L!Max(S) = Max(S) /\ L!Min(S) = Min(S)
  BY DEF L!Max, Max, L!Min, Min
<1>2. \A s : L!FlattenSeq(s) = FlattenSeq(s)
  BY DEF L!FlattenSeq, FlattenSeq
<1> QED
  BY <1>1, <1>2

\* A set of numbers has a least.
LEMMA LeastOf ==
    ASSUME NEW S, S \subseteq Nat, NEW x \in S
    PROVE  L!Min(S) \in S /\ \A y \in S : L!Min(S) <= y
<1> DEFINE T == {n \in Nat : \A m \in Nat : m <= n => m \notin S}
<1>1. \E m \in S : \A y \in S : m <= y
  <2> SUFFICES ASSUME \A m \in S : \E y \in S : y < m
               PROVE  FALSE
    OBVIOUS
  <2>1. 0 \in T
    <3>1. 0 \notin S
      OBVIOUS
    <3> QED
      BY <3>1
  <2>2. ASSUME NEW n \in Nat, n \in T
        PROVE  n + 1 \in T
    <3>1. n + 1 \notin S
      BY <2>2
    <3>2. \A m \in Nat : m <= n + 1 => m <= n \/ m = n + 1
      OBVIOUS
    <3> QED
      BY <2>2, <3>1, <3>2
  <2> HIDE DEF T
  <2>3. \A n \in Nat : n \in T
    BY <2>1, <2>2, Counting
  <2>4. x \in Nat
    OBVIOUS
  <2> QED
    BY <2>3, <2>4 DEF T
<1> QED
  BY <1>1 DEF L!Min

\* What a letter earns: for a start or a boundary, for following the last, less
\* what lies between.
LEMMA EarnedIs ==
    ASSUME NEW hay \in Seq(Nat), NEW i \in Nat, NEW from \in Nat \ {0}, NEW at \in Nat, at >= from
    PROVE  LET start == IF at = 1 THEN 16 ELSE IF hay[at - 1] \in Boundaries THEN 8 ELSE 0
               next == IF i > 1 /\ at = from THEN 8 ELSE 0
               gap == IF at - from <= 8 THEN at - from ELSE 8
           IN L!Earned(hay, i, from, at) = start + next - gap
<1> DEFINE d == at - from
<1>1. d \in Int /\ 8 \in Int
  OBVIOUS
<1>2. L!Min({d, 8}) = IF d <= 8 THEN d ELSE 8
  <2> HIDE DEF d
  <2>1. L!Min({d, 8}) = F!Min({d, 8})
    BY PaletteText, PanelsText
  <2>2. F!Min({d, 8}) = IF d <= 8 THEN d ELSE 8
    BY <1>1, PanelMost
  <2> QED
    BY <2>1, <2>2
<1> QED
  BY <1>2 DEF L!Earned

LEMMA EarnedIsInt ==
    ASSUME NEW hay \in Seq(Nat), NEW i \in Nat, NEW from \in Nat \ {0}, NEW at \in Nat, at >= from
    PROVE  L!Earned(hay, i, from, at) \in Int
<1> DEFINE start == IF at = 1 THEN 16 ELSE IF hay[at - 1] \in Boundaries THEN 8 ELSE 0
           next == IF i > 1 /\ at = from THEN 8 ELSE 0
           gap == IF at - from <= 8 THEN at - from ELSE 8
<1>1. start \in Int /\ next \in Int /\ gap \in Int
  OBVIOUS
<1>2. L!Earned(hay, i, from, at) = start + next - gap
  BY EarnedIs
<1> HIDE DEF start, next, gap
<1> QED
  BY <1>1, <1>2

\* One letter's search.
LEMMA SoughtIs ==
    ASSUME NEW pat \in Seq(Nat), NEW hay \in Seq(Nat), NEW i \in 1 .. Len(pat), NEW acc \in Found
    PROVE  LET r == Sought(pat, hay, i, acc)
               at == r.next - 1
           IN /\ r \in Found
              /\ r.found => /\ acc.found
                            /\ at \in Nat /\ at >= acc.next /\ at <= Len(hay) /\ hay[at] = pat[i]
                            /\ r.score = acc.score + L!Earned(hay, i, acc.next, at)
              /\ acc.found /\ acc.next <= Len(hay) /\ hay[acc.next] = pat[i] =>
                    r.found /\ at = acc.next
<1> DEFINE r == Sought(pat, hay, i, acc)
           spots == LettersAt(hay, acc.next, pat[i])
           at == L!Min(spots)
<1>1. acc.next \in Nat \ {0} /\ acc.found \in BOOLEAN /\ acc.score \in Int /\ i \in Nat
      /\ Len(hay) \in Nat
  BY DEF Found
<1>2. CASE ~acc.found \/ spots = {}
  <2>1. r = [acc EXCEPT !.found = FALSE]
    BY <1>2 DEF Sought
  <2>2. acc.found /\ acc.next <= Len(hay) => hay[acc.next] # pat[i]
    BY <1>1, <1>2 DEF LettersAt
  <2> QED
    BY <1>1, <2>1, <2>2 DEF Found
<1>3. CASE acc.found /\ spots # {}
  <2>1. spots \subseteq Nat /\ \A p \in spots : p >= acc.next /\ p <= Len(hay) /\ hay[p] = pat[i]
    BY <1>1 DEF LettersAt
  <2>2. at \in spots /\ \A p \in spots : at <= p
    BY <1>3, <2>1, LeastOf
  <2>3. r = [acc EXCEPT !.next = at + 1, !.score = @ + L!Earned(hay, i, acc.next, at)]
    BY <1>3 DEF Sought
  <2> DEFINE e == L!Earned(hay, i, acc.next, at)
  <2>4. e \in Int
    <3>1. at \in Nat /\ at >= acc.next
      BY <2>1, <2>2
    <3> HIDE DEF at
    <3> QED
      BY <1>1, <3>1, EarnedIsInt
  <2>5. acc.next <= Len(hay) /\ hay[acc.next] = pat[i] => at = acc.next
    <3>1. ASSUME acc.next <= Len(hay), hay[acc.next] = pat[i]
          PROVE  acc.next \in spots
      BY <1>1, <3>1 DEF LettersAt
    <3> HIDE DEF spots, at
    <3>2. at \in Nat /\ at >= acc.next
      BY <2>1, <2>2
    <3> QED
      BY <1>1, <2>2, <3>1, <3>2
  <2>6. at \in Nat /\ at >= acc.next /\ at <= Len(hay) /\ hay[at] = pat[i]
    <3> HIDE DEF spots, at
    <3> QED
      BY <2>1, <2>2
  <2> HIDE DEF at, e
  <2>7. r = [found |-> TRUE, next |-> at + 1, score |-> acc.score + e]
    BY <1>3, <2>3 DEF Found, e
  <2>8. r \in Found /\ r.found /\ r.next - 1 = at /\ r.score = acc.score + e
    <3>1. acc.score + e \in Int
      BY <1>1, <2>4
    <3>2. at + 1 \in Nat \ {0} /\ (at + 1) - 1 = at
      BY <2>6
    <3> HIDE DEF r
    <3>3. r.found /\ r.next = at + 1 /\ r.score = acc.score + e
      BY <2>7
    <3>4. r \in Found
      BY <2>7, <3>1, <3>2 DEF Found
    <3> QED
      BY <3>2, <3>3, <3>4
  <2> QED
    BY <1>3, <2>5, <2>6, <2>8 DEF e
<1> QED
  BY <1>1, <1>2, <1>3

\* Fuzzy looks for one letter after the other, where none is a space.
Spaceless(pat) == \A n \in DOMAIN pat : pat[n] # Space

\* A score is what the trace of the matching comes to, less the length.
LEMMA FuzzySeeks ==
    ASSUME NEW pat \in Seq(Nat), Spaceless(pat), NEW hay \in Seq(Nat)
    PROVE  \E seek : /\ IsTrace(seek, Len(pat), Found, NoneYet, Seeking(pat, hay))
                     /\ L!Fuzzy(pat, hay) =
                           IF pat = <<>> THEN 0
                           ELSE IF seek[Len(pat)].found
                                THEN seek[Len(pat)].score - Len(hay) \div 8
                                ELSE None
<1> DEFINE N == Len(pat)
           S == Found
           step == Seeking(pat, hay)
           Spots(acc, i) == {p \in acc.next .. Len(hay) : hay[p] = pat[i]}
           Op(acc, i) ==
               IF ~acc.found \/ Spots(acc, i) = {} THEN [acc EXCEPT !.found = FALSE]
               ELSE LET at == L!Min(Spots(acc, i)) IN
                    [acc EXCEPT !.next = at + 1,
                                !.score = @ + L!Earned(hay, i, acc.next, at)]
           idx == [i \in DOMAIN pat |-> i]
           fold == CHOOSE f : f = [t \in SUBSET DOMAIN idx |->
                                     IF t = {} THEN [found |-> TRUE, next |-> 1, score |-> 0]
                                     ELSE Op(f[t \ {L!Max(t)}], idx[L!Max(t)])]
           end == fold[DOMAIN idx]
<1>0. L!Pattern(pat) = pat
  <2>1. [k \in DOMAIN pat |-> IF pat[k] = Space THEN <<>> ELSE <<pat[k]>>]
           = [k \in DOMAIN pat |-> <<pat[k]>>]
    BY DEF Spaceless
  <2>2. L!Pattern(pat) = FlattenSeq([k \in DOMAIN pat |-> <<pat[k]>>])
    BY <2>1, PaletteText DEF L!Pattern
  <2> QED
    BY <2>2, FlatOfSingles
<1>1. L!Fuzzy(pat, hay) = IF pat = <<>> THEN 0
                          ELSE IF end.found THEN end.score - Len(hay) \div 8 ELSE None
  BY <1>0 DEF L!Fuzzy, L!FoldLeftDomain, L!FoldLeft, L!MapThenFoldSet
<1>2. DOMAIN idx = 1 .. N /\ N \in Nat
  OBVIOUS
<1>3. step \in Steps(N, S) /\ NoneYet \in S
  <2>1. \A i \in 1 .. N, acc \in S : Sought(pat, hay, i, acc) \in S
    BY SoughtIs
  <2> QED
    BY <2>1 DEF Seeking, Steps, NoneYet, Found
<1>4. \A k \in 1 .. N, acc \in S : step[<<k, acc>>] = Op(acc, k)
  BY DEF Seeking, Sought, LettersAt
<1>5. NoneYet = [found |-> TRUE, next |-> 1, score |-> 0]
  BY DEF NoneYet
<1>6. \A t : L!Max(t) = Max(t)
  BY PaletteText
<1> HIDE DEF step, N, S, Op
<1>7. fold = [t \in SUBSET (1 .. N) |->
                 IF t = {} THEN NoneYet ELSE Op(fold[t \ {Max(t)}], Max(t))]
  <2>1. PICK run : IsRun(run, N, S, NoneYet, step)
    BY <1>2, <1>3, FoldExists
  <2>2. ASSUME NEW t \in SUBSET (1 .. N), t # {}
        PROVE  /\ step[<<Max(t), run[t \ {Max(t)}]>>] = Op(run[t \ {Max(t)}], Max(t))
               /\ idx[Max(t)] = Max(t)
    <3>1. t \subseteq 0 .. N
      BY <1>2
    <3>2. Max(t) \in 1 .. N
      BY <1>2, <2>2, <3>1, MaxOfSome
    <3>3. run[t \ {Max(t)}] \in S
      BY <2>1 DEF IsRun
    <3> QED
      BY <3>2, <3>3, <1>2, <1>4
  <2> HIDE DEF idx
  <2>3. run = [t \in SUBSET DOMAIN idx |->
                 IF t = {} THEN [found |-> TRUE, next |-> 1, score |-> 0]
                 ELSE Op(run[t \ {L!Max(t)}], idx[L!Max(t)])]
    BY <2>1, <2>2, <1>2, <1>5, <1>6 DEF IsRun
  <2>4. fold = [t \in SUBSET DOMAIN idx |->
                 IF t = {} THEN [found |-> TRUE, next |-> 1, score |-> 0]
                 ELSE Op(fold[t \ {L!Max(t)}], idx[L!Max(t)])]
    BY <2>3
  <2> HIDE DEF fold
  <2> QED
    BY <2>2, <2>4, <1>2, <1>5, <1>6
<1> HIDE DEF fold, idx
<1>8. fold[{}] = NoneYet
  BY <1>7
<1>9. Follows(fold, N, S, step)
  <2>1. ASSUME NEW k \in 1 .. N
        PROVE  fold[1 .. k] = Op(fold[1 .. k - 1], k)
    <3>1. /\ 1 .. k \in SUBSET (1 .. N) /\ 1 .. k # {}
          /\ Max(1 .. k) = k /\ (1 .. k) \ {Max(1 .. k)} = 1 .. k - 1
      BY <1>2, FirstNumbers
    <3>2. fold[1 .. k] = Op(fold[(1 .. k) \ {Max(1 .. k)}], Max(1 .. k))
      BY <3>1, <1>7
    <3> QED
      BY <3>1, <3>2
  <2> QED
    BY <2>1, <1>4 DEF Follows
<1>10. PICK seek : IsTrace(seek, N, S, NoneYet, step) /\ seek[N] = fold[1 .. N]
  BY <1>2, <1>3, <1>8, <1>9, FoldTrace
<1>11. seek[N] = end
  BY <1>2, <1>10
<1> HIDE DEF end
<1> QED
  BY <1>1, <1>10, <1>11 DEF N, S, step

\* A text finds itself, letter by letter where each is.
LEMMA FindsItself ==
    ASSUME NEW pat \in Seq(Nat), NEW own, IsTrace(own, Len(pat), Found, NoneYet, Seeking(pat, pat))
    PROVE  \A i \in 0 .. Len(pat) : own[i].found /\ own[i].next = i + 1
<1> DEFINE N == Len(pat)
           T == {i \in Nat : i <= N => own[i].found /\ own[i].next = i + 1}
<1>1. N \in Nat
  OBVIOUS
<1>2. 0 \in T
  BY DEF IsTrace, NoneYet
<1>3. ASSUME NEW i \in Nat, i \in T
      PROVE  i + 1 \in T
  <2> SUFFICES ASSUME i + 1 <= N
               PROVE  own[i + 1].found /\ own[i + 1].next = i + 2
    BY <1>1
  <2>1. own[i].found /\ own[i].next = i + 1
    BY <1>1, <1>3
  <2>2. i + 1 \in 1 .. N /\ i \in 0 .. N /\ (i + 1) - 1 = i
    BY <1>1
  <2>3. own[i] \in Found /\ own[i + 1] = Sought(pat, pat, i + 1, own[i])
    BY <2>2 DEF IsTrace, Seeking
  <2> DEFINE r == Sought(pat, pat, i + 1, own[i])
  <2>4. r \in Found /\ r.found /\ r.next - 1 = i + 1
    <3>1. own[i].next <= Len(pat) /\ pat[own[i].next] = pat[i + 1]
      BY <2>1, <2>2
    <3> QED
      BY <2>1, <2>2, <2>3, <3>1, SoughtIs
  <2> HIDE DEF r
  <2>5. r.next = i + 2
    BY <2>4 DEF Found
  <2> QED
    BY <2>3, <2>4, <2>5 DEF r
<1> HIDE DEF T
<1>4. \A i \in Nat : i \in T
  BY <1>2, <1>3, Counting
<1> QED
  BY <1>4 DEF T

\* A letter found further on has earned less than one found where it is in the
\* text itself, and one found there as much.
LEMMA NoneEarnsMore ==
    ASSUME NEW pat \in Seq(Nat), NEW hay \in Seq(Nat), NEW i \in 1 .. Len(pat),
           NEW from \in Nat \ {0}, NEW at \in Nat, at >= from, at <= Len(hay), from >= i,
           i = 1 => from = 1,
           i > 1 => from - 1 \in 1 .. Len(hay) /\ hay[from - 1] = pat[i - 1]
    PROVE  /\ L!Earned(hay, i, from, at) <= L!Earned(pat, i, i, i)
           /\ L!Earned(hay, i, from, at) = L!Earned(pat, i, i, i) => at = from
<1> DEFINE start == IF at = 1 THEN 16 ELSE IF hay[at - 1] \in Boundaries THEN 8 ELSE 0
           next == IF i > 1 /\ at = from THEN 8 ELSE 0
           gap == IF at - from <= 8 THEN at - from ELSE 8
           own == IF i = 1 THEN 16 ELSE IF pat[i - 1] \in Boundaries THEN 16 ELSE 8
           earned == L!Earned(hay, i, from, at)
<1>0. i \in Nat /\ i >= 1 /\ Len(pat) \in Nat /\ Len(hay) \in Nat
  OBVIOUS
<1>1. earned = start + next - gap
  BY <1>0, EarnedIs
<1>2. L!Earned(pat, i, i, i) = own
  <2>1. L!Earned(pat, i, i, i) = (IF i = 1 THEN 16 ELSE IF pat[i - 1] \in Boundaries THEN 8 ELSE 0)
                                 + (IF i > 1 /\ i = i THEN 8 ELSE 0)
                                 - (IF i - i <= 8 THEN i - i ELSE 8)
    <3>1. i \in Nat \ {0} /\ i >= i
      BY <1>0
    <3> QED
      BY <1>0, <3>1, EarnedIs
  <2>2. i - i = 0
    BY <1>0
  <2>3. CASE i = 1
    BY <2>1, <2>2, <2>3
  <2>4. CASE i > 1
    BY <2>1, <2>2, <2>4
  <2> QED
    BY <1>0, <2>3, <2>4
<1> HIDE DEF earned
<1>3. CASE at = from /\ i = 1
  BY <1>0, <1>1, <1>2, <1>3 DEF earned
<1>4. CASE at = from /\ i > 1
  <2>1. at # 1 /\ hay[at - 1] = pat[i - 1] /\ gap = 0 /\ next = 8
    BY <1>0, <1>4
  <2>2. start = IF pat[i - 1] \in Boundaries THEN 8 ELSE 0
    BY <2>1
  <2>3. own = IF pat[i - 1] \in Boundaries THEN 16 ELSE 8
    BY <1>4
  <2> HIDE DEF start, next, gap, own
  <2>4. earned <= own
    BY <1>1, <2>1, <2>2, <2>3
  <2> QED
    BY <1>2, <1>4, <2>4 DEF earned
<1>5. CASE at > from
  <2>1. at # 1 /\ next = 0 /\ gap >= 1 /\ gap \in Int
    BY <1>5
  <2>2. start <= 8 /\ start \in Int
    BY <2>1
  <2>3. own >= 8 /\ own \in Int
    OBVIOUS
  <2> HIDE DEF start, next, gap, own
  <2>4. earned < own /\ earned <= own
    BY <1>1, <2>1, <2>2, <2>3
  <2>5. earned # own
    BY <2>3, <2>4, <1>1, <2>1, <2>2
  <2> QED
    BY <1>2, <2>4, <2>5 DEF earned
<1> QED
  BY <1>3, <1>4, <1>5, <1>0

\* Another text in which a text is found scores no more, and as much only
\* where it begins with it.
LEMMA NoneScoresMore ==
    ASSUME NEW pat \in Seq(Nat), NEW hay \in Seq(Nat),
           NEW own, IsTrace(own, Len(pat), Found, NoneYet, Seeking(pat, pat)),
           NEW seek, IsTrace(seek, Len(pat), Found, NoneYet, Seeking(pat, hay)),
           NEW n \in 0 .. Len(pat), seek[n].found
    PROVE  /\ n <= Len(hay)
           /\ seek[n].score <= own[n].score
           /\ seek[n].score = own[n].score => \A m \in 1 .. n : hay[m] = pat[m]
<1> DEFINE N == Len(pat)
           s(i) == seek[i].score
           o(i) == own[i].score
           Good(i) ==
               seek[i].found =>
                  /\ seek[i].next >= i + 1
                  /\ i = 0 => seek[i].next = 1
                  /\ i > 0 => seek[i].next - 1 \in 1 .. Len(hay) /\ hay[seek[i].next - 1] = pat[i]
                  /\ s(i) <= o(i)
                  /\ s(i) = o(i) => seek[i].next = i + 1 /\ \A m \in 1 .. i : hay[m] = pat[m]
           T == {i \in Nat : i <= N => Good(i)}
<1>1. N \in Nat /\ Len(hay) \in Nat
  OBVIOUS
<1>2. 0 \in T
  <2>1. seek[0] = NoneYet /\ own[0] = NoneYet
    BY DEF IsTrace
  <2> QED
    BY <2>1 DEF NoneYet
<1>3. ASSUME NEW i \in Nat, i \in T
      PROVE  i + 1 \in T
  <2> SUFFICES ASSUME i + 1 <= N, seek[i + 1].found
               PROVE  Good(i + 1)
    BY <1>1
  <2> DEFINE j == i + 1
             from == seek[i].next
             at == seek[j].next - 1
             e == L!Earned(hay, j, from, at)
             x == L!Earned(pat, j, j, j)
  <2>1. j \in 1 .. N /\ i \in 0 .. N /\ j - 1 = i /\ j \in Nat
    BY <1>1
  <2>2. /\ seek[i] \in Found /\ seek[j] = Sought(pat, hay, j, seek[i])
        /\ own[i] \in Found /\ own[j] = Sought(pat, pat, j, own[i])
    BY <2>1 DEF IsTrace, Seeking
  <2>3. /\ seek[i].found /\ seek[j] \in Found
        /\ at \in Nat /\ at >= from /\ at <= Len(hay) /\ hay[at] = pat[j]
        /\ s(j) = s(i) + e
    BY <2>1, <2>2, SoughtIs
  <2>4. /\ own[i].found /\ own[i].next = j /\ own[j].found /\ own[j].next = j + 1
        /\ own[j] \in Found
    <3>1. j \in 0 .. N
      BY <2>1, <1>1
    <3>2. \A k \in 0 .. N : own[k].found /\ own[k].next = k + 1
      BY FindsItself
    <3>3. own[j] \in Found
      BY <2>1, <2>2, SoughtIs
    <3> QED
      BY <2>1, <3>1, <3>2, <3>3
  <2>5. o(j) = o(i) + x
    <3>1. own[j].next - 1 = j
      BY <2>1, <2>4
    <3>2. own[j].score = own[i].score + L!Earned(pat, j, own[i].next, own[j].next - 1)
      BY <2>1, <2>2, <2>4, SoughtIs
    <3> QED
      BY <2>4, <3>1, <3>2
  <2>6. Good(i)
    BY <1>3, <2>1
  <2>7. from \in Nat \ {0} /\ from >= j /\ (j = 1 => from = 1)
        /\ (j > 1 => from - 1 \in 1 .. Len(hay) /\ hay[from - 1] = pat[j - 1])
    BY <2>1, <2>2, <2>3, <2>6 DEF Found
  <2>8. e <= x /\ (e = x => at = from)
    <3>1. /\ j \in 1 .. Len(pat) /\ from \in Nat \ {0} /\ at \in Nat /\ at >= from
          /\ at <= Len(hay) /\ from >= j /\ (j = 1 => from = 1)
          /\ (j > 1 => from - 1 \in 1 .. Len(hay) /\ hay[from - 1] = pat[j - 1])
      BY <2>1, <2>3, <2>7
    <3> HIDE DEF j, from, at, s, o, T, N, Good
    <3>2. L!Earned(hay, j, from, at) <= L!Earned(pat, j, j, j)
      BY <3>1, NoneEarnsMore
    <3>3. L!Earned(hay, j, from, at) = L!Earned(pat, j, j, j) => at = from
      BY <3>1, NoneEarnsMore
    <3> QED
      BY <3>2, <3>3
  <2>9. e \in Int /\ x \in Int
    <3> HIDE DEF j, from, at
    <3>1. j \in Nat \ {0} /\ j >= j
      BY <2>1
    <3> QED
      BY <2>3, <2>7, <3>1, EarnedIsInt
  <2>10. s(i) \in Int /\ o(i) \in Int /\ s(i) <= o(i)
    BY <2>2, <2>3, <2>6 DEF Found
  <2> HIDE DEF e, x
  <2>11. s(j) <= o(j) /\ (s(j) = o(j) => s(i) = o(i) /\ e = x)
    <3> DEFINE a == s(i)
               b == o(i)
    <3>1. s(j) = a + e /\ o(j) = b + x
      BY <2>3, <2>5
    <3>2. a \in Int /\ b \in Int /\ a <= b
      BY <2>10
    <3> HIDE DEF a, b
    <3>3. a + e <= b + x /\ (a + e = b + x => a = b /\ e = x)
      BY <2>8, <2>9, <3>2
    <3>4. s(j) <= o(j) /\ (s(j) = o(j) => a = b /\ e = x)
      BY <3>1, <3>3, Zenon
    <3> QED
      BY <3>4 DEF a, b
  <2>12. ASSUME s(j) = o(j)
         PROVE  seek[j].next = j + 1 /\ \A m \in 1 .. j : hay[m] = pat[m]
    <3>1. s(i) = o(i) /\ at = from
      BY <2>8, <2>11, <2>12
    <3>2. from = i + 1 /\ \A m \in 1 .. i : hay[m] = pat[m]
      BY <2>3, <2>6, <3>1
    <3>3. at = j /\ hay[j] = pat[j]
      BY <2>1, <2>3, <3>1, <3>2
    <3>4. seek[j].next = j + 1
      <4>1. seek[j].next \in Nat
        BY <2>3 DEF Found
      <4>2. seek[j].next - 1 = j /\ j \in Nat
        BY <2>1, <3>3
      <4> HIDE DEF j
      <4> QED
        BY <4>1, <4>2
    <3>5. \A m \in 1 .. j : m \in 1 .. i \/ m = j
      BY <2>1
    <3> QED
      BY <3>2, <3>3, <3>4, <3>5
  <2>13. seek[j].next >= j + 1
    <3>1. seek[j].next \in Nat
      BY <2>3 DEF Found
    <3>2. at >= from /\ from >= j /\ from \in Nat /\ j \in Nat
      BY <2>1, <2>3, <2>7
    <3> HIDE DEF from, j
    <3> QED
      BY <3>1, <3>2
  <2>14. at \in 1 .. Len(hay) /\ j # 0
    <3>1. at \in Nat /\ at >= from /\ at <= Len(hay) /\ from \in Nat /\ from >= j
      BY <2>3, <2>7
    <3>2. j \in Nat /\ j >= 1 /\ Len(hay) \in Nat
      BY <1>1, <2>1
    <3> HIDE DEF at, from, j
    <3> QED
      BY <3>1, <3>2
  <2> HIDE DEF s, o
  <2> QED
    BY <2>3, <2>11, <2>12, <2>13, <2>14
<1> HIDE DEF T
<1>4. \A i \in Nat : i \in T
  BY <1>2, <1>3, Counting
<1>5. Good(n)
  BY <1>1, <1>4 DEF T
<1>6. n <= Len(hay)
  <2> DEFINE next == seek[n].next
             l == Len(hay)
  <2>1. next \in Nat /\ n \in Nat /\ l \in Nat
    <3>1. n \in Nat /\ n \in 0 .. N /\ l \in Nat
      BY <1>1
    <3>2. seek \in [0 .. N -> Found]
      BY DEF IsTrace
    <3> HIDE DEF N
    <3>3. seek[n] \in Found
      BY <3>1, <3>2, Zenon
    <3>4. next \in Nat
      BY <3>3 DEF Found
    <3> QED
      BY <3>1, <3>4
  <2>2. next >= n + 1 /\ (n > 0 => next - 1 \in 1 .. l)
    BY <1>5
  <2> HIDE DEF next, l
  <2>3. n <= l
    BY <2>1, <2>2
  <2> QED
    BY <2>3 DEF l
<1> QED
  BY <1>5, <1>6

\* A name scores itself, and no text scores it higher, nor as high unless it
\* begins with it: what its length costs included.
Begins(pat, hay) == Len(pat) <= Len(hay) /\ \A m \in DOMAIN pat : hay[m] = pat[m]

\* Nothing outscores an exact match, and what equals it begins with it.
LEMMA NoneOutscores ==
    ASSUME NEW pat \in Seq(Nat), Spaceless(pat), NEW hay \in Seq(Nat)
    PROVE  /\ L!Fuzzy(pat, pat) \in Int
           /\ L!Fuzzy(pat, hay) # None =>
                 /\ L!Fuzzy(pat, hay) \in Int /\ L!Fuzzy(pat, hay) <= L!Fuzzy(pat, pat)
                 /\ L!Fuzzy(pat, hay) = L!Fuzzy(pat, pat) => Begins(pat, hay)
<1> DEFINE n == Len(pat)
           h == Len(hay)
<1>1. PICK own : /\ IsTrace(own, n, Found, NoneYet, Seeking(pat, pat))
                 /\ L!Fuzzy(pat, pat) = IF pat = <<>> THEN 0
                                        ELSE IF own[n].found THEN own[n].score - n \div 8 ELSE None
  BY FuzzySeeks
<1>2. PICK seek : /\ IsTrace(seek, n, Found, NoneYet, Seeking(pat, hay))
                  /\ L!Fuzzy(pat, hay) = IF pat = <<>> THEN 0
                                         ELSE IF seek[n].found THEN seek[n].score - h \div 8 ELSE None
  BY FuzzySeeks
<1>3. n \in Nat /\ n \in 0 .. n /\ h \in Nat /\ DOMAIN pat = 1 .. n
  OBVIOUS
<1>4. own[n] \in Found /\ seek[n] \in Found /\ own[n].found
  BY <1>1, <1>2, <1>3, FindsItself DEF IsTrace
<1>5. CASE pat = <<>>
  BY <1>1, <1>2, <1>3, <1>5 DEF Begins
<1>6. CASE pat # <<>>
  <2>1. L!Fuzzy(pat, pat) = own[n].score - n \div 8 /\ L!Fuzzy(pat, pat) \in Int
    BY <1>1, <1>3, <1>4, <1>6 DEF Found
  <2>2. ASSUME L!Fuzzy(pat, hay) # None
        PROVE  /\ L!Fuzzy(pat, hay) \in Int /\ L!Fuzzy(pat, hay) <= L!Fuzzy(pat, pat)
               /\ L!Fuzzy(pat, hay) = L!Fuzzy(pat, pat) => Begins(pat, hay)
    <3>1. seek[n].found /\ L!Fuzzy(pat, hay) = seek[n].score - h \div 8
      BY <1>2, <1>6, <2>2
    <3>2. /\ n <= h /\ seek[n].score <= own[n].score
          /\ seek[n].score = own[n].score => \A m \in 1 .. n : hay[m] = pat[m]
      BY <1>1, <1>2, <1>3, <3>1, NoneScoresMore
    <3>3. seek[n].score \in Int /\ own[n].score \in Int
      BY <1>4 DEF Found
    <3>4. n \div 8 <= h \div 8 /\ n \div 8 \in Int /\ h \div 8 \in Int
      BY <1>3, <3>2
    <3>5. L!Fuzzy(pat, hay) \in Int /\ L!Fuzzy(pat, hay) <= L!Fuzzy(pat, pat)
      BY <2>1, <3>1, <3>2, <3>3, <3>4
    <3>6. ASSUME L!Fuzzy(pat, hay) = L!Fuzzy(pat, pat)
          PROVE  Begins(pat, hay)
      <4>1. seek[n].score = own[n].score
        BY <2>1, <3>1, <3>2, <3>3, <3>4, <3>6
      <4> QED
        BY <1>3, <3>2, <4>1 DEF Begins
    <3> QED
      BY <3>5, <3>6
  <2> QED
    BY <2>1, <2>2
<1> QED
  BY <1>5, <1>6

\* What a surface lets the palette run.
Actions == [name: Seq(Nat), description: Seq(Nat)]
Named(actions) ==
    /\ actions \in Seq(Actions)
    /\ \A i, j \in DOMAIN actions : actions[i].name = actions[j].name => i = j
    /\ \A i \in DOMAIN actions : Spaceless(actions[i].name)

\* The actions of a keymap have names and descriptions of letters.
LEMMA KeymapIs ==
    ASSUME NEW actions \in Keymaps
    PROVE  Named(actions)
BY ScreensAssumption DEF L!PaletteAssumption, Named, Spaceless, Actions

LEMMA NoneIsNoNumber == None \notin Int
BY ScreensAssumption DEF L!PaletteAssumption

\* Nor does another action score higher, whether by name or by description.
LEMMA NameScores ==
    ASSUME NEW a \in Actions, NEW b \in Actions, Spaceless(a.name)
    PROVE  LET best == L!Scored(a, a.name)
               other == L!Scored(b, a.name)
           IN /\ best \in Int
              /\ other # None => /\ other \in Int /\ other <= best
                                 /\ other = best => Begins(a.name, b.name)
<1> DEFINE name == a.name
           x == L!Fuzzy(name, name)
           y == L!Fuzzy(name, b.name)
           z == L!Fuzzy(name, b.description)
<1>1. name \in Seq(Nat) /\ b.name \in Seq(Nat) /\ b.description \in Seq(Nat)
  BY DEF Actions
<1>2. /\ x \in Int
      /\ y # None => y \in Int /\ y <= x /\ (y = x => Begins(name, b.name))
      /\ z # None => z \in Int /\ z <= x
  BY <1>1, NoneOutscores
<1>3. /\ L!Scored(a, name) = IF x # None THEN x
                             ELSE IF L!Fuzzy(name, a.description) # None
                                  THEN L!Fuzzy(name, a.description) - 32 ELSE None
      /\ L!Scored(b, name) = IF y # None THEN y ELSE IF z # None THEN z - 32 ELSE None
  BY DEF L!Scored
<1> HIDE DEF x, y, z, name
<1>4. L!Scored(a, name) = x /\ x \in Int
  BY <1>2, <1>3, NoneIsNoNumber
<1>5. ASSUME L!Scored(b, name) # None
      PROVE  /\ L!Scored(b, name) \in Int /\ L!Scored(b, name) <= x
             /\ L!Scored(b, name) = x => Begins(name, b.name)
  <2>1. CASE y # None
    BY <1>2, <1>3, <2>1
  <2>2. CASE y = None
    <3>1. z # None /\ L!Scored(b, name) = z - 32
      BY <1>3, <1>5, <2>2
    <3> QED
      BY <1>2, <3>1
  <2> QED
    BY <2>1, <2>2
<1> QED
  BY <1>4, <1>5 DEF name

LEMMA PaletteCounts ==
    ASSUME NEW S
    PROVE  L!Cardinality(S) = Cardinality(S)
BY Zenon DEF L!Cardinality, Cardinality

\* What comes before all others of a set is the first of it in order.
LEMMA FirstIs ==
    ASSUME NEW S, IsFiniteSet(S), NEW R, NEW e \in S,
           \A j \in S : <<j, e>> \notin R, \A j \in S \ {e} : <<e, j>> \in R
    PROVE  /\ DOMAIN L!Sorted(S, R) = 1 .. Cardinality(S) /\ Len(L!Sorted(S, R)) = Cardinality(S)
           /\ Cardinality(S) \in Nat \ {0}
           /\ L!Sorted(S, R)[1] = e
<1> DEFINE before(i) == {j \in S : <<j, i>> \in R}
           At(n) == CHOOSE i \in S : L!Cardinality(before(i)) = n - 1
           list == [n \in 1 .. L!Cardinality(S) |-> At(n)]
<1>1. L!Sorted(S, R) = list
  <2>1. L!Sorted(S, R) = L!Ranked(S, R)
    BY DEF L!Sorted, L!The
  <2>2. L!Ranked(S, R) = list
    BY DEF L!Ranked
  <2> QED
    BY <2>1, <2>2
<1>2. Cardinality(S) \in Nat \ {0}
  BY FS_CardinalityType, FS_EmptySet
<1>3. Cardinality(before(e)) = 0
  <2>1. before(e) = {}
    OBVIOUS
  <2> QED
    BY <2>1, FS_EmptySet
<1>4. \A i \in S \ {e} : Cardinality(before(i)) # 0
  <2> TAKE i \in S \ {e}
  <2>1. e \in before(i) /\ before(i) \subseteq S
    OBVIOUS
  <2> HIDE DEF before
  <2>2. IsFiniteSet(before(i))
    BY <2>1, FS_Subset
  <2> QED
    BY <2>1, <2>2, FS_EmptySet
<1> HIDE DEF before
<1>5. At(1) = e
  BY <1>3, <1>4, PaletteCounts
<1> HIDE DEF At
<1>6. /\ DOMAIN list = 1 .. Cardinality(S) /\ list = [n \in DOMAIN list |-> list[n]]
      /\ list[1] = At(1)
  BY <1>2, PaletteCounts
<1> HIDE DEF list
<1>7. Len(list) = Cardinality(S)
  BY <1>2, <1>6, LengthIs
<1> QED
  BY <1>1, <1>2, <1>5, <1>6, <1>7

\* So an action's own name puts it first.
LEMMA NameRanksFirst ==
    ASSUME NEW actions, Named(actions), NEW i \in DOMAIN actions
    PROVE  LET found == L!Refilter(actions, actions[i].name)
           IN  Len(found) \in Nat \ {0} /\ found[1] = i
<1> DEFINE name == actions[i].name
           score == [j \in DOMAIN actions |-> L!Scored(actions[j], name)]
           hits == {j \in DOMAIN actions : score[j] # None}
           Before(j, k) == \/ score[j] > score[k]
                           \/ /\ score[j] = score[k]
                              /\ L!Precedes(actions[j].name, actions[k].name)
           R == {r \in hits \X hits : Before(r[1], r[2])}
<1>1. L!Refilter(actions, name) = L!Sorted(hits, R)
  BY DEF L!Refilter, L!The, L!Ranking
<1>2. /\ Len(actions) \in Nat /\ DOMAIN actions = 1 .. Len(actions)
      /\ \A j \in DOMAIN actions : actions[j] \in Actions /\ actions[j].name \in Seq(Nat)
  <2>1. \A a \in Actions : a.name \in Seq(Nat)
    BY DEF Actions
  <2>2. actions \in Seq(Actions)
    BY DEF Named
  <2> HIDE DEF name, score, hits, R, Before
  <2> QED
    BY <2>1, <2>2
<1>3. \A j \in DOMAIN actions :
         /\ score[i] \in Int
         /\ score[j] # None => /\ score[j] \in Int /\ score[j] <= score[i]
                               /\ score[j] = score[i] => Begins(name, actions[j].name)
  <2> TAKE j \in DOMAIN actions
  <2>1. actions[i] \in Actions /\ actions[j] \in Actions /\ Spaceless(actions[i].name)
    BY <1>2 DEF Named
  <2>2. score[i] = L!Scored(actions[i], actions[i].name) /\ score[j] = L!Scored(actions[j], actions[i].name)
    OBVIOUS
  <2> HIDE DEF score
  <2> QED
    BY <2>1, <2>2, NameScores
<1> HIDE DEF score
<1>4. i \in hits
  BY <1>3, NoneIsNoNumber
<1>5. IsFiniteSet(hits)
  <2>1. IsFiniteSet(1 .. Len(actions))
    BY <1>2, FS_Interval
  <2>2. hits \subseteq 1 .. Len(actions)
    BY <1>2
  <2> HIDE DEF hits
  <2> QED
    BY <2>1, <2>2, FS_Subset
<1>6. ASSUME NEW j \in hits
      PROVE  ~Before(j, i) /\ (j # i => Before(i, j))
  <2>1. score[i] \in Int /\ score[j] \in Int /\ score[j] <= score[i] /\ j \in DOMAIN actions
    BY <1>3
  <2>2. score[j] = score[i] => Begins(name, actions[j].name)
    BY <1>3
  <2>3. ASSUME Begins(name, actions[j].name)
        PROVE  /\ ~L!Precedes(actions[j].name, name)
               /\ j # i => L!Precedes(name, actions[j].name)
    <3> DEFINE other == actions[j].name
    <3>1. name \in Seq(Nat) /\ other \in Seq(Nat)
      BY <1>2, <2>1
    <3>2. j # i => other # name
      BY <2>1 DEF Named
    <3> HIDE DEF other, name
    <3>3. /\ Len(name) <= Len(other) /\ DOMAIN name = 1 .. Len(name) /\ Len(name) \in Nat
          /\ Len(other) \in Nat /\ DOMAIN other = 1 .. Len(other)
          /\ \A m \in 1 .. Len(name) : other[m] = name[m]
      BY <2>3, <3>1 DEF Begins, other
    <3>4. Len(name) = Len(other) => name = other
      BY <3>1, <3>3
    <3>5. SubSeq(name, 1, Len(name)) = SubSeq(other, 1, Len(name))
      BY <3>1, <3>3
    <3>6. j # i => L!IsStrictPrefix(name, other)
      BY <3>2, <3>3, <3>5 DEF L!IsStrictPrefix, L!IsPrefix
    <3>7. ~L!IsStrictPrefix(other, name)
      <4>1. ASSUME L!IsStrictPrefix(other, name)
            PROVE  Len(other) <= Len(name) /\ other # name
        BY <4>1, Zenon DEF L!IsStrictPrefix, L!IsPrefix
      <4>2. Len(other) <= Len(name) => Len(name) = Len(other)
        <5> DEFINE p == Len(name)
                   q == Len(other)
        <5>1. p <= q /\ p \in Nat /\ q \in Nat
          BY <3>3, Zenon
        <5> HIDE DEF p, q
        <5>2. q <= p => p = q
          BY <5>1
        <5> QED
          BY <5>2 DEF p, q
      <4> QED
        BY <3>4, <4>1, <4>2, Zenon
    <3>8. \A m \in DOMAIN other \cap DOMAIN name : ~(other[m] < name[m])
      <4> TAKE m \in DOMAIN other \cap DOMAIN name
      <4>1. other[m] = name[m] /\ name[m] \in Nat
        BY <3>1, <3>3
      <4> QED
        BY <4>1
    <3>9. ~L!Precedes(other, name)
      BY <3>7, <3>8 DEF L!Precedes
    <3>10. j # i => L!Precedes(name, other)
      BY <3>6 DEF L!Precedes
    <3> QED
      BY <3>9, <3>10 DEF other
  <2> HIDE DEF name
  <2>4. ~Before(j, i)
    BY <2>1, <2>2, <2>3 DEF name
  <2>5. j # i => Before(i, j)
    BY <2>1, <2>2, <2>3 DEF name
  <2> QED
    BY <2>4, <2>5
<1> HIDE DEF Before, hits
<1>7. \A j \in hits : <<j, i>> \notin R
  BY <1>6
<1>8. \A j \in hits \ {i} : <<i, j>> \in R
  BY <1>4, <1>6
<1> HIDE DEF R
<1>9. /\ Len(L!Sorted(hits, R)) = Cardinality(hits) /\ Cardinality(hits) \in Nat \ {0}
      /\ L!Sorted(hits, R)[1] = i
  BY <1>4, <1>5, <1>7, <1>8, FirstIs
<1> QED
  BY <1>1, <1>9

\* What the query has become finds.
LEMMA ChangedFinds ==
    ASSUME keymap' \in Keymaps, matches' = L!Refilter(keymap', query'), selected' = 0,
           NEW i \in DOMAIN keymap', query' = keymap'[i].name
    PROVE  L!Picked' = i
<1> DEFINE found == L!Refilter(keymap', keymap'[i].name)
<1>1. matches' = found
  OBVIOUS
<1>2. Named(keymap')
  BY KeymapIs
<1> HIDE DEF found
<1>3. Len(found) \in Nat \ {0} /\ found[1] = i
  BY <1>2, NameRanksFirst DEF found
<1>4. 0 < Len(matches') /\ matches'[0 + 1] = i
  BY <1>1, <1>3
<1> QED
  BY <1>4 DEF L!Picked

PaletteInv == keymap \in Keymaps \cup {None}

\* A query that is the name of an action picks it.
LEMMA PaletteStep ==
    ASSUME PaletteInv, L!Next
    PROVE  /\ PaletteInv'
           /\ keymap' # None /\ query' # query =>
                 \A i \in DOMAIN keymap' : query' = keymap'[i].name => L!Picked' = i
<1>1. CASE L!Open
  <2>1. /\ keymap' \in Keymaps /\ selected' = 0
        /\ matches' = L!Refilter(keymap', query')
    BY <1>1 DEF L!Open
  <2> QED
    BY <2>1, ChangedFinds DEF PaletteInv
<1>2. CASE L!Type
  <2>1. /\ keymap' = keymap /\ keymap \in Keymaps /\ selected' = 0
        /\ matches' = L!Refilter(keymap, query')
    BY <1>2 DEF L!Type, L!Changed, PaletteInv
  <2> QED
    BY <2>1, ChangedFinds DEF PaletteInv
<1>3. CASE L!Move \/ L!Resize
  BY <1>3 DEF L!Move, L!Resize, PaletteInv
<1>4. CASE L!Enter \/ L!Escape
  BY <1>4 DEF L!Enter, L!Escape, L!Closed, PaletteInv
<1> QED
  BY <1>1, <1>2, <1>3, <1>4 DEF L!Next

-----------------------------------------------------------------------------
\* Only the surface in front draws, and only its own; the actions a palette
\* offers are a surface's, whichever is in front.
FrontInv ==
    /\ front = "dashboard" => IInv /\ CursorIsOnASection
    /\ front = "pulls" => PullsInv
    /\ front = "inbox" => InboxInv
    /\ front # "pulls" => screen.kind = "cold"
    /\ front = "panels" => PanelsInv
    /\ PaletteInv

LEMMA FrontStarts == ScreensInit => FrontInv
<1> SUFFICES ASSUME ScreensInit PROVE FrontInv
  OBVIOUS
<1>1. IInv /\ CursorIsOnASection
  BY Initially, SectionsAreDrawn DEF ScreensInit
<1>4. /\ front = "panels" => PanelsInv
      /\ PaletteInv
  <2>1. front = "panels" => F!Init
    BY DEF ScreensInit
  <2>2. L!Init
    BY DEF ScreensInit
  <2> QED
    BY <2>1, <2>2, PanelsStart DEF L!Init, PaletteInv
<1>2. CASE front = "inbox"
  <2>1. screen.kind = "cold"
    BY <1>2 DEF ScreensInit
  <2>2. InboxInv
    BY <1>2, InboxStart DEF ScreensInit
  <2> QED
    BY <1>1, <1>2, <1>4, <2>1, <2>2 DEF FrontInv
<1>3. CASE front # "inbox"
  <2>1. P!Init
    BY <1>3 DEF ScreensInit
  <2>2. screen.kind = "cold"
    BY <2>1 DEF P!Init
  <2> QED
    BY <1>1, <1>3, <1>4, <2>1, <2>2, PullsStart DEF FrontInv
<1> QED
  BY <1>2, <1>3

\* What the surface in front keeps, and the others rest.
LEMMA FrontStays ==
    FrontInv /\ [ScreensNext]_<<front, vars, pulls, inboxScreen, palette, panels>> => FrontInv'
<1>1. ASSUME FrontInv, ScreensNext
      PROVE  FrontInv'
  <2>0. front' = front /\ PaletteInv'
    <3>1. CASE front = "palette"
      <4>1. L!Next /\ front' = front
        BY <1>1, <3>1 DEF ScreensNext
      <4> QED
        BY <1>1, <4>1, PaletteStep DEF FrontInv
    <3>2. CASE front # "palette"
      <4>1. keymap' = keymap /\ front' = front
        BY <1>1, <3>2 DEF ScreensNext, palette
      <4> QED
        BY <1>1, <4>1 DEF FrontInv, PaletteInv
    <3> QED
      BY <3>1, <3>2
  <2>1. CASE front = "dashboard"
    <3>1. Next /\ screen' = screen
      BY <1>1, <2>1 DEF ScreensNext, pulls
    <3>2. IInv' /\ CursorIsOnASection'
      BY <1>1, <2>1, <3>1, Inductive, CursorStays DEF FrontInv
    <3> QED
      BY <1>1, <2>0, <2>1, <3>1, <3>2 DEF FrontInv
  <2>2. CASE front = "pulls"
    <3>1. P!Next
      BY <1>1, <2>2 DEF ScreensNext
    <3> QED
      BY <1>1, <2>0, <2>2, <3>1, PullsStep DEF FrontInv
  <2>3. CASE front = "inbox"
    <3>1. I!InboxNext /\ screen' = screen
      BY <1>1, <2>3 DEF ScreensNext
    <3>2. InboxInv'
      BY <1>1, <2>3, <3>1, InboxStep DEF FrontInv
    <3> QED
      BY <1>1, <2>0, <2>3, <3>1, <3>2 DEF FrontInv
  <2>4. CASE front = "panels"
    <3>1. F!Next /\ screen' = screen
      BY <1>1, <2>4 DEF ScreensNext
    <3>2. PanelsInv'
      BY <1>1, <2>4, <3>1, PanelsStep DEF FrontInv
    <3> QED
      BY <1>1, <2>0, <2>4, <3>1, <3>2 DEF FrontInv
  <2>5. CASE front \notin {"dashboard", "pulls", "inbox", "panels"}
    <3>1. screen' = screen
      BY <1>1, <2>5 DEF ScreensNext, pulls
    <3> QED
      BY <1>1, <2>0, <2>5, <3>1 DEF FrontInv
  <2> QED
    BY <2>1, <2>2, <2>3, <2>4, <2>5
<1>2. ASSUME FrontInv, UNCHANGED <<front, vars, pulls, inboxScreen, palette, panels>>
      PROVE  FrontInv'
  <2>1. /\ UNCHANGED <<front, view, size, read, error, scroll, viewport, lines, expanded, screen>>
        /\ UNCHANGED vars /\ UNCHANGED cursor
    BY <1>2 DEF pulls, vars, surface
  <2>2. front = "dashboard" => IInv' /\ CursorIsOnASection'
    BY <1>2, <2>1, Inductive, CursorStays DEF FrontInv
  <2> HIDE DEF vars
  <2>3. PullsInv => PullsInv'
    BY <2>1 DEF PullsInv, Kept, Pages, OnARow, P!Items, P!DrawnFits, P!BodyHeight,
                P!RowsAreToldApart, P!DocumentIsComplete, P!FocusIsTold
  <2>4. InboxInv => InboxInv'
    BY <1>2, <2>1, InboxRests DEF inboxScreen
  <2>5. PanelsInv => PanelsInv'
    BY <1>2, <2>1 DEF PanelsInv, panels
  <2>6. PaletteInv => PaletteInv'
    BY <1>2 DEF PaletteInv, palette
  <2> QED
    BY <1>2, <2>1, <2>2, <2>3, <2>4, <2>5, <2>6 DEF FrontInv
<1> QED
  BY <1>1, <1>2

\* What a frame draws fits it (DrawnFits), for any searches, pull requests and
\* lists in any terminal: the dashboard draws the section its cursor is on, and
\* its detail line only where there is room; a document is not scrolled past its
\* last page, whatever it has just shrunk to; a list's cursor is on a row; and a
\* row is as wide as the screen.
THEOREM DrawnFit == ScreensSpec => []DrawnFits
<1>1. screen.kind = "cold" => P!DrawnFits
  BY DEF P!DrawnFits
<1>2. FrontInv => DrawnFits
  BY <1>1, SectionsAreDrawn DEF FrontInv, PullsInv, DrawnFits
<1> QED
  BY <1>2, FrontStarts, FrontStays, PTL DEF ScreensSpec

\* The row the inbox's cursor is on is among the rows drawn (FocusIsDrawn), for
\* any notifications, in any terminal and under any settings: grouped, hidden or
\* sunk, on one line or on two, whatever a reload, a toggle, a key or a resize
\* has just done to the list under the scroll.
THEOREM FocusDrawn == ScreensSpec => []FocusIsDrawn
<1>1. FrontInv => FocusIsDrawn
  BY DEF FrontInv, InboxInv, FocusIsDrawn
<1> QED
  BY <1>1, FrontStarts, FrontStays, PTL DEF ScreensSpec

\* No two rows read alike that are not (RowsAreToldApart), of notifications or of
\* pull requests: with room for it, lines that look the same are of one
\* repository and in one state, under every variant the settings offer and
\* whichever columns are left out because all rows share them.
THEOREM RowsToldApart == ScreensSpec => []RowsAreToldApart
<1>1. FrontInv => RowsAreToldApart
  BY InboxTellsApart DEF FrontInv, InboxInv, PullsInv, RowsAreToldApart
<1> QED
  BY <1>1, FrontStarts, FrontStays, PTL DEF ScreensSpec

\* A pull request's document leaves nothing out (DocumentIsComplete): at any
\* width, folded or not, every event is a line or counted in a fold, every word
\* of the title, the body, the comments and the reviews is on a line, and every
\* check run and status is a line or counted in one.
THEOREM DocumentComplete == ScreensSpec => []DocumentIsComplete
<1>1. screen.kind = "cold" => P!DocumentIsComplete
  BY DEF P!DocumentIsComplete
<1>2. FrontInv => DocumentIsComplete
  BY <1>1 DEF FrontInv, PullsInv, DocumentIsComplete
<1> QED
  BY <1>2, FrontStarts, FrontStays, PTL DEF ScreensSpec

\* Nothing that matters is what a small terminal cuts (NothingIsPushedOut): the
\* footer ends in the way out whatever bindings come before it, help and notices
\* have room, a message and a reason are told to their last word, the header
\* admits what it must beside a login of any length, and the line under a list
\* tells what is asked of the reader, for any surface, message and pull request.
THEOREM NonePushedOut == ScreensSpec => []NothingIsPushedOut
<1>1. FrontInv => NothingIsPushedOut
  BY PanelsTell DEF FrontInv, PullsInv, NothingIsPushedOut
<1> QED
  BY <1>1, FrontStarts, FrontStays, PTL DEF ScreensSpec

\* Typing the name of an action picks it (NameFindsIt), whatever other actions a
\* surface offers and however they are called and described: what a letter earns
\* elsewhere, and what a longer name costs, never makes another score higher,
\* and of equals the shorter comes first.
THEOREM NameFinds == ScreensSpec => NameFindsIt
<1>1. FrontInv /\ [ScreensNext]_<<front, vars, pulls, inboxScreen, palette, panels>> =>
         [keymap' # None /\ query' # query =>
             \A i \in DOMAIN keymap' : query' = keymap'[i].name => L!Picked' = i]_(L!vars)
  <2>1. ASSUME FrontInv, ScreensNext, keymap' # None /\ query' # query
        PROVE  \A i \in DOMAIN keymap' : query' = keymap'[i].name => L!Picked' = i
    <3>1. CASE front = "palette"
      <4>1. L!Next
        BY <2>1, <3>1 DEF ScreensNext
      <4> QED
        BY <2>1, <4>1, PaletteStep DEF FrontInv
    <3>2. CASE front # "palette"
      BY <2>1, <3>2 DEF ScreensNext, palette
    <3> QED
      BY <3>1, <3>2
  <2> QED
    BY <2>1 DEF palette
<1> QED
  BY <1>1, FrontStarts, FrontStays, PTL DEF ScreensSpec, NameFindsIt, L!NameFindsIt
=============================================================================
