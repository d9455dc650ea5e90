---------------------------- MODULE DocumentProofs ----------------------------
(***************************************************************************)
(* What a pull request's document tells, for any pull request and any      *)
(* width.                                                                  *)
(*                                                                         *)
(* The text of a document is laid out word by word, its timeline folded    *)
(* event by event, its checks counted run by run: folds over sequences,    *)
(* whose course is followed one element after the other.  Where a library  *)
(* would use induction, Counting does: were there a number for which it    *)
(* fails, there would be a least one.  So Sums, Joined and FoldTrace say   *)
(* what adding up, joining and folding come to.                            *)
(*                                                                         *)
(* A stretch of a document tells the events and the cells of text on its   *)
(* lines (Tells).  Both go along with joining stretches, so the document   *)
(* tells what its parts do: every event once and in order, as many cells   *)
(* as the pull request's texts have, and, since wrapping lays each word    *)
(* out whole, every word.                                                  *)
(***************************************************************************)
EXTENDS Screens, Text, FiniteSetTheorems, WellFoundedInduction, SequenceTheorems, TLAPS

-----------------------------------------------------------------------------
(* Sums, joined sequences, and wrapped text.                               *)

\* What holds of 0, and of the next number with each, holds of every number.
LEMMA Counting ==
    ASSUME NEW T, 0 \in T, \A n \in Nat : n \in T => n + 1 \in T
    PROVE  \A n \in Nat : n \in T
<1> SUFFICES ASSUME Nat \ T # {}
             PROVE  FALSE
  OBVIOUS
<1>1. PICK x \in Nat \ T : \A y \in Nat \ T : ~(<<y, x>> \in OpToRel(<, Nat))
  BY NatLessThanWellFounded, WFMin
<1>2. \A y \in Nat : y < x => <<y, x>> \in OpToRel(<, Nat)
  BY DEF OpToRel
<1>3. x # 0 /\ x \in Nat
  OBVIOUS
<1>4. x - 1 \in Nat /\ x - 1 < x /\ (x - 1) + 1 = x
  BY <1>3
<1>5. x - 1 \in T
  BY <1>1, <1>2, <1>4
<1> QED
  BY <1>4, <1>5

\* The greatest of a set that has one.
LEMMA MaxIs ==
    ASSUME NEW S, S \subseteq Int, NEW x \in S, \A y \in S : y <= x
    PROVE  Max(S) = x
<1>1. \A y \in S : x >= y
  OBVIOUS
<1> DEFINE greatest == CHOOSE z \in S : \A y \in S : z >= y
<1>2. greatest \in S /\ \A y \in S : greatest >= y
  BY <1>1
<1> HIDE DEF greatest
<1>3. greatest \in Int /\ x \in Int /\ greatest >= x /\ greatest <= x
  BY <1>2
<1>4. greatest = x
  BY <1>3
<1> QED
  BY <1>4 DEF Max, greatest

\* Some of the first N numbers have a greatest.
LEMMA MaxOfSome ==
    ASSUME NEW N \in Nat, NEW S, S \subseteq 0 .. N, S # {}
    PROVE  Max(S) \in S /\ \A y \in S : y <= Max(S)
<1> DEFINE up == {N - y : y \in S}
<1>1. up \subseteq Nat /\ up # {}
  <2>1. \A y \in S : N - y \in Nat
    OBVIOUS
  <2> QED
    BY <2>1
<1>2. PICK x \in up : \A y \in up : ~(<<y, x>> \in OpToRel(<, Nat))
  BY <1>1, NatLessThanWellFounded, WFMin
<1>3. \A y \in Nat : y < x => <<y, x>> \in OpToRel(<, Nat)
  BY <1>1 DEF OpToRel
<1>4. \A y \in up : x <= y
  <2> HIDE DEF up
  <2>1. ASSUME NEW y \in up
        PROVE  x <= y
    <3>1. ~(y < x)
      BY <1>1, <1>2, <1>3
    <3> QED
      BY <3>1, <1>1
  <2> QED
    BY <2>1
<1>5. N - x \in S /\ \A y \in S : y <= N - x
  <2>1. \A y \in S : x <= N - y
    BY <1>4
  <2>2. x \in Nat /\ N - x \in S
    OBVIOUS
  <2> QED
    BY <2>1, <2>2
<1> HIDE DEF up
<1>6. S \subseteq Int
  OBVIOUS
<1>7. Max(S) = N - x
  BY <1>5, <1>6, MaxIs
<1> QED
  BY <1>5, <1>7

\* What a step of a fold over the first N numbers makes of an accumulator in S;
\* what the fold comes to for each of their sets, the greatest last; and what
\* it comes to one number after the other.
Steps(N, S) == [(1 .. N) \X S -> S]

IsRun(run, N, S, base, step) ==
    /\ run \in [SUBSET (1 .. N) -> S]
    /\ \A t \in SUBSET (1 .. N) :
          run[t] = IF t = {} THEN base ELSE step[<<Max(t), run[t \ {Max(t)}]>>]

IsTrace(trace, N, S, base, step) ==
    /\ trace \in [0 .. N -> S]
    /\ trace[0] = base
    /\ \A k \in 1 .. N : trace[k] = step[<<k, trace[k - 1]>>]

\* The step is taken from the first k - 1 numbers to the first k; and two steps
\* are the same for the first N.
Follows(fold, N, S, step) ==
    \A k \in 1 .. N : fold[1 .. k - 1] \in S => fold[1 .. k] = step[<<k, fold[1 .. k - 1]>>]

SameSteps(N, S, step, other) == \A k \in 1 .. N, x \in S : step[<<k, x>>] = other[<<k, x>>]

\* A fold over the first N numbers exists: what it comes to for each of their
\* sets, the greatest last.
LEMMA FoldExists ==
    ASSUME NEW N \in Nat, NEW S, NEW base \in S, NEW step \in Steps(N, S)
    PROVE  \E run : IsRun(run, N, S, base, step)
<1> DEFINE Is(n, run) == IsRun(run, n, S, base, step)
           Exists(n) == n <= N => \E run : Is(n, run)
           T == {n \in Nat : Exists(n)}
<1>1. 0 \in T
  <2> DEFINE run == [t \in SUBSET (1 .. 0) |-> base]
  <2>1. SUBSET (1 .. 0) = {{}}
    OBVIOUS
  <2>2. Is(0, run)
    BY <2>1 DEF IsRun
  <2> QED
    BY <2>2
<1>2. ASSUME NEW n \in Nat, n \in T
      PROVE  n + 1 \in T
  <2> SUFFICES ASSUME n + 1 <= N
               PROVE  \E run : Is(n + 1, run)
    <3> HIDE DEF Is
    <3> QED
      OBVIOUS
  <2>1. PICK shorter : Is(n, shorter)
    <3> HIDE DEF Is
    <3>1. n <= N
      OBVIOUS
    <3> QED
      BY <3>1, <1>2
  <2> DEFINE run == [t \in SUBSET (1 .. n + 1) |->
                        IF n + 1 \in t THEN step[<<n + 1, shorter[t \ {n + 1}]>>]
                        ELSE shorter[t]]
  <2>2. ASSUME NEW t \in SUBSET (1 .. n + 1)
        PROVE  /\ n + 1 \in t => t \ {n + 1} \in SUBSET (1 .. n) /\ Max(t) = n + 1
               /\ n + 1 \notin t => t \in SUBSET (1 .. n)
    <3>1. n + 1 \in t => Max(t) = n + 1
      <4>1. t \subseteq Int /\ \A y \in t : y <= n + 1
        OBVIOUS
      <4> QED
        BY <4>1, MaxIs
    <3>2. \A y \in t : y # n + 1 => y \in 1 .. n
      OBVIOUS
    <3> QED
      BY <3>1, <3>2
  <2>3. \A t \in SUBSET (1 .. n) : shorter[t] \in S
    BY <2>1 DEF IsRun
  <2>4. n + 1 \in 1 .. N
    OBVIOUS
  <2>5. run \in [SUBSET (1 .. n + 1) -> S]
    <3>1. ASSUME NEW t \in SUBSET (1 .. n + 1)
          PROVE  run[t] \in S
      <4>1. CASE n + 1 \in t
        <5>1. shorter[t \ {n + 1}] \in S
          BY <2>2, <2>3, <4>1
        <5> QED
          BY <5>1, <2>4, <4>1 DEF Steps
      <4>2. CASE n + 1 \notin t
        BY <2>2, <2>3, <4>2
      <4> QED
        BY <4>1, <4>2
    <3> HIDE DEF run
    <3>2. run = [t \in SUBSET (1 .. n + 1) |-> run[t]]
      BY DEF run
    <3> QED
      BY <3>1, <3>2
  <2>6. ASSUME NEW t \in SUBSET (1 .. n + 1)
        PROVE  run[t] = IF t = {} THEN base ELSE step[<<Max(t), run[t \ {Max(t)}]>>]
    <3>1. CASE n + 1 \in t
      <4>1. Max(t) = n + 1 /\ t # {} /\ t \ {n + 1} \in SUBSET (1 .. n + 1)
        BY <2>2, <3>1
      <4>2. run[t \ {n + 1}] = shorter[t \ {n + 1}]
        BY <4>1
      <4>3. run[t] = step[<<n + 1, shorter[t \ {n + 1}]>>]
        BY <3>1
      <4> HIDE DEF run
      <4> QED
        BY <4>1, <4>2, <4>3
    <3>2. CASE n + 1 \notin t
      <4>1. t \in SUBSET (1 .. n) /\ run[t] = shorter[t]
        BY <2>2, <3>2
      <4>2. CASE t = {}
        BY <2>1, <4>1, <4>2 DEF IsRun
      <4>3. CASE t # {}
        <5>1. Max(t) \in t
          <6>1. t \subseteq 0 .. n
            BY <4>1
          <6> QED
            BY <6>1, <4>3, MaxOfSome
        <5>2. t \ {Max(t)} \in SUBSET (1 .. n + 1) /\ n + 1 \notin t \ {Max(t)}
          BY <3>2
        <5>3. run[t \ {Max(t)}] = shorter[t \ {Max(t)}]
          BY <5>2
        <5>4. shorter[t] = step[<<Max(t), shorter[t \ {Max(t)}]>>]
          BY <2>1, <4>1, <4>3 DEF IsRun
        <5> HIDE DEF run
        <5> QED
          BY <5>3, <5>4, <4>1, <4>3
      <4> QED
        BY <4>2, <4>3
    <3> QED
      BY <3>1, <3>2
  <2> HIDE DEF run
  <2>7. Is(n + 1, run)
    BY <2>5, <2>6 DEF IsRun
  <2> HIDE DEF Is
  <2> QED
    BY <2>7
<1> HIDE DEF T
<1>3. N \in T
  BY <1>1, <1>2, Counting
<1>4. \E run : Is(N, run)
  <2> HIDE DEF Is
  <2> QED
    BY <1>3 DEF T
<1> QED
  BY <1>4

\* A fold over fewer numbers is what the one over more comes to on its way.
LEMMA TracesAgree ==
    ASSUME NEW N \in Nat, NEW S, NEW base, NEW step, NEW f, IsTrace(f, N, S, base, step),
           NEW M \in Nat, N <= M, NEW other, NEW g, IsTrace(g, M, S, base, other),
           SameSteps(N, S, step, other)
    PROVE  f[N] = g[N]
<1> DEFINE T == {k \in Nat : k <= N => f[k] = g[k]}
<1>1. \A k \in Nat : k \in T => k + 1 \in T
  <2> SUFFICES ASSUME NEW k \in Nat, k <= N => f[k] = g[k], k + 1 <= N
               PROVE  f[k + 1] = g[k + 1]
    OBVIOUS
  <2>1. k + 1 \in 1 .. N /\ k + 1 \in 1 .. M /\ (k + 1) - 1 = k /\ f[k] = g[k]
    OBVIOUS
  <2>2. f[k] \in S
    <3>1. k \in 0 .. N
      OBVIOUS
    <3> QED
      BY <3>1 DEF IsTrace
  <2>3. f[k + 1] = step[<<k + 1, f[k]>>] /\ g[k + 1] = other[<<k + 1, g[k]>>]
    BY <2>1 DEF IsTrace
  <2> QED
    BY <2>1, <2>2, <2>3 DEF SameSteps
<1>2. 0 \in T
  BY DEF IsTrace
<1> HIDE DEF T
<1>3. \A k \in Nat : k \in T
  BY <1>1, <1>2, Counting
<1> QED
  BY <1>3 DEF T

\* The first k numbers, as a fold meets them.
LEMMA FirstNumbers ==
    ASSUME NEW N \in Nat, NEW k \in 1 .. N
    PROVE  /\ 1 .. k \in SUBSET (1 .. N) /\ 1 .. k # {}
           /\ Max(1 .. k) = k /\ (1 .. k) \ {Max(1 .. k)} = 1 .. k - 1
<1>1. 1 .. k \subseteq Int /\ k \in 1 .. k /\ \A y \in 1 .. k : y <= k
  OBVIOUS
<1>2. Max(1 .. k) = k
  BY <1>1, MaxIs
<1>3. (1 .. k) \ {k} = 1 .. k - 1
  OBVIOUS
<1> QED
  BY <1>1, <1>2, <1>3

\* What a fold comes to, one number after the other.
LEMMA FoldTrace ==
    ASSUME NEW N \in Nat, NEW S, NEW base \in S, NEW step \in Steps(N, S),
           NEW fold, fold[{}] = base, Follows(fold, N, S, step)
    PROVE  \E trace : IsTrace(trace, N, S, base, step) /\ trace[N] = fold[1 .. N]
<1> DEFINE T == {k \in Nat : k <= N => fold[1 .. k] \in S}
           trace == [k \in 0 .. N |-> fold[1 .. k]]
<1>0. 1 .. 0 = {}
  OBVIOUS
<1>1. 0 \in T
  BY <1>0
<1>2. ASSUME NEW k \in Nat, k \in T
      PROVE  k + 1 \in T
  <2> SUFFICES ASSUME k + 1 <= N
               PROVE  fold[1 .. k + 1] \in S
    OBVIOUS
  <2>1. k + 1 \in 1 .. N /\ (k + 1) - 1 = k /\ fold[1 .. k] \in S
    BY <1>2
  <2>2. fold[1 .. k + 1] = step[<<k + 1, fold[1 .. k]>>]
    BY <2>1 DEF Follows
  <2> QED
    BY <2>1, <2>2 DEF Steps
<1> HIDE DEF T
<1>3. \A k \in 0 .. N : fold[1 .. k] \in S
  <2>1. \A k \in Nat : k \in T
    BY <1>1, <1>2, Counting
  <2> QED
    BY <2>1 DEF T
<1>4. \A k \in 1 .. N : k - 1 \in 0 .. N /\ k \in 0 .. N
  OBVIOUS
<1>5. \A k \in 1 .. N : trace[k] = step[<<k, trace[k - 1]>>]
  BY <1>3, <1>4 DEF Follows
<1>6. trace \in [0 .. N -> S] /\ trace[0] = base /\ trace[N] = fold[1 .. N]
  BY <1>0, <1>3
<1> HIDE DEF trace
<1>7. IsTrace(trace, N, S, base, step)
  BY <1>5, <1>6 DEF IsTrace
<1> QED
  BY <1>6, <1>7

-----------------------------------------------------------------------------
\* What numbers come to, one after the other.
Adding(s) == [p \in (1 .. Len(s)) \X Nat |-> p[2] + s[p[1]]]

\* A sequence is added up number by number.
LEMMA Sums ==
    ASSUME NEW s \in Seq(Nat)
    PROVE  \E sum : IsTrace(sum, Len(s), Nat, 0, Adding(s)) /\ sum[Len(s)] = Total(s)
<1> DEFINE N == Len(s)
           step == Adding(s)
           fold == CHOOSE f : f = [t \in SUBSET (1 .. N) |->
                                     IF t = {} THEN 0 ELSE f[t \ {Max(t)}] + s[Max(t)]]
<1>1. N \in Nat /\ DOMAIN s = 1 .. N /\ \A k \in 1 .. N : s[k] \in Nat
  OBVIOUS
<1>2. step \in Steps(N, Nat)
  BY <1>1 DEF Steps, Adding
<1>3. Total(s) = fold[1 .. N]
  BY <1>1 DEF Total, FoldLeft, MapThenFoldSet
<1>4. \A k \in 1 .. N, n \in Nat : step[<<k, n>>] = n + s[k]
  BY DEF Adding
<1> HIDE DEF step, N
<1>5. fold = [t \in SUBSET (1 .. N) |->
                 IF t = {} THEN 0 ELSE fold[t \ {Max(t)}] + s[Max(t)]]
  <2>1. 0 \in Nat
    OBVIOUS
  <2>2. PICK run : IsRun(run, N, Nat, 0, step)
    BY <2>1, <1>1, <1>2, FoldExists
  <2>3. ASSUME NEW t \in SUBSET (1 .. N), t # {}
        PROVE  step[<<Max(t), run[t \ {Max(t)}]>>] = run[t \ {Max(t)}] + s[Max(t)]
    <3>1. t \subseteq 0 .. N
      BY <1>1
    <3>2. Max(t) \in 1 .. N
      BY <1>1, <2>3, <3>1, MaxOfSome
    <3>3. run[t \ {Max(t)}] \in Nat
      BY <2>2 DEF IsRun
    <3> QED
      BY <3>2, <3>3, <1>4
  <2>4. run = [t \in SUBSET (1 .. N) |->
                 IF t = {} THEN 0 ELSE run[t \ {Max(t)}] + s[Max(t)]]
    BY <2>2, <2>3 DEF IsRun
  <2> QED
    BY <2>4
<1> HIDE DEF fold
<1>6. fold[{}] = 0
  BY <1>5
<1>7. Follows(fold, N, Nat, step)
  <2>1. ASSUME NEW k \in 1 .. N
        PROVE  fold[1 .. k] = fold[1 .. k - 1] + s[k]
    <3> DEFINE K == 1 .. k
    <3>1. /\ K \in SUBSET (1 .. N) /\ K # {}
          /\ Max(K) = k /\ K \ {Max(K)} = 1 .. k - 1
      BY <1>1, FirstNumbers
    <3> HIDE DEF K, fold
    <3>2. fold[K] = fold[K \ {Max(K)}] + s[Max(K)]
      <4>1. fold[K] = IF K = {} THEN 0 ELSE fold[K \ {Max(K)}] + s[Max(K)]
        BY <1>5, <3>1, Zenon
      <4> QED
        BY <3>1, <4>1, Zenon
    <3>3. fold[K] = fold[1 .. k - 1] + s[k]
      BY <3>1, <3>2, Zenon
    <3> QED
      BY <3>3 DEF K
  <2> QED
    BY <2>1, <1>4 DEF Follows
<1>8. \E sum : IsTrace(sum, N, Nat, 0, step) /\ sum[N] = fold[1 .. N]
  <2> DEFINE numbers == Nat
             zero == 0
  <2>1. zero \in numbers /\ step \in Steps(N, numbers) /\ N \in Nat
        /\ fold[{}] = zero /\ Follows(fold, N, numbers, step)
    BY <1>1, <1>2, <1>6, <1>7
  <2> HIDE DEF numbers, zero
  <2>2. \E sum : IsTrace(sum, N, numbers, zero, step) /\ sum[N] = fold[1 .. N]
    BY <2>1, FoldTrace
  <2> QED
    BY <2>2 DEF numbers, zero
<1> QED
  BY <1>3, <1>8 DEF N, step

LEMMA TotalIsNat ==
    ASSUME NEW s \in Seq(Nat)
    PROVE  Total(s) \in Nat
<1>1. Len(s) \in 0 .. Len(s)
  OBVIOUS
<1> QED
  BY <1>1, Sums DEF IsTrace

LEMMA TotalOfNone == Total(<<>>) = 0
<1>1. <<>> \in Seq(Nat) /\ Len(<<>>) = 0
  OBVIOUS
<1> QED
  BY <1>1, Sums DEF IsTrace

\* One number more.
LEMMA TotalOfMore ==
    ASSUME NEW s \in Seq(Nat), NEW n \in Nat
    PROVE  Total(Append(s, n)) = Total(s) + n
<1> DEFINE more == Append(s, n)
           N == Len(s)
<1>1. more \in Seq(Nat) /\ Len(more) = N + 1 /\ more[N + 1] = n /\ N \in Nat
  OBVIOUS
<1>2. \A k \in 1 .. N : more[k] = s[k]
  OBVIOUS
<1>3. PICK f : IsTrace(f, N, Nat, 0, Adding(s)) /\ f[N] = Total(s)
  BY Sums
<1> HIDE DEF more
<1>4. PICK g : IsTrace(g, N + 1, Nat, 0, Adding(more)) /\ g[N + 1] = Total(more)
  BY <1>1, Sums
<1>5. SameSteps(N, Nat, Adding(s), Adding(more))
  <2>1. ASSUME NEW k \in 1 .. N, NEW x \in Nat
        PROVE  Adding(s)[<<k, x>>] = Adding(more)[<<k, x>>]
    <3>1. Adding(s)[<<k, x>>] = x + s[k]
      BY DEF Adding
    <3>2. k \in 1 .. Len(more)
      BY <1>1
    <3>3. Adding(more)[<<k, x>>] = x + more[k]
      BY <3>2 DEF Adding
    <3> QED
      BY <1>2, <3>1, <3>3
  <2> HIDE DEF N
  <2> QED
    BY <2>1, Zenon DEF SameSteps
<1>6. g[N + 1] = g[N] + n
  <2>1. N + 1 \in 1 .. N + 1 /\ (N + 1) - 1 = N /\ N \in 0 .. N + 1
    BY <1>1
  <2>2. g[N] \in Nat /\ g[N + 1] = Adding(more)[<<N + 1, g[N]>>]
    BY <2>1, <1>4 DEF IsTrace
  <2> QED
    BY <2>1, <2>2, <1>1 DEF Adding
<1> HIDE DEF N
<1>7. f[N] = g[N]
  <2>1. N + 1 \in Nat /\ N <= N + 1
    BY <1>1
  <2> QED
    BY <2>1, <1>1, <1>3, <1>4, <1>5, TracesAgree
<1> QED
  BY <1>3, <1>4, <1>6, <1>7 DEF more

LEMMA TotalOfOne ==
    ASSUME NEW n \in Nat
    PROVE  Total(<<n>>) = n
<1>1. <<n>> = Append(<<>>, n) /\ <<>> \in Seq(Nat)
  OBVIOUS
<1>2. Total(Append(<<>>, n)) = Total(<<>>) + n
  BY <1>1, TotalOfMore
<1> QED
  BY <1>1, <1>2, TotalOfNone

\* A sequence that is not empty is a shorter one and its last.
LEMMA AllButTheLast ==
    ASSUME NEW S, NEW s \in Seq(S), NEW n \in Nat, Len(s) = n + 1
    PROVE  /\ SubSeq(s, 1, n) \in Seq(S) /\ Len(SubSeq(s, 1, n)) = n
           /\ s[n + 1] \in S /\ s = Append(SubSeq(s, 1, n), s[n + 1])
<1> DEFINE firsts == SubSeq(s, 1, n)
<1>1. firsts \in Seq(S) /\ Len(firsts) = n /\ s[n + 1] \in S
  OBVIOUS
<1>2. \A k \in 1 .. n : firsts[k] = s[k]
  OBVIOUS
<1> HIDE DEF firsts
<1>3. s = Append(firsts, s[n + 1])
  BY <1>1, <1>2
<1> QED
  BY <1>1, <1>3 DEF firsts

LEMMA AppendOfBoth ==
    ASSUME NEW S, NEW s \in Seq(S), NEW t \in Seq(S), NEW x \in S
    PROVE  /\ s \o Append(t, x) = Append(s \o t, x)
           /\ s \o t \in Seq(S)
OBVIOUS

\* One after the other.
LEMMA TotalOfBoth ==
    ASSUME NEW s \in Seq(Nat), NEW t \in Seq(Nat)
    PROVE  Total(s \o t) = Total(s) + Total(t)
<1> DEFINE Holds(n) == \A u \in Seq(Nat) : Len(u) = n => Total(s \o u) = Total(s) + Total(u)
           T == {n \in Nat : Holds(n)}
<1>1. 0 \in T
  <2>1. ASSUME NEW u \in Seq(Nat), Len(u) = 0
        PROVE  Total(s \o u) = Total(s) + Total(u)
    <3>1. u = <<>> /\ s \o u = s
      BY <2>1
    <3> QED
      BY <3>1, TotalOfNone, TotalIsNat
  <2> QED
    BY <2>1
<1>2. ASSUME NEW n \in Nat, n \in T
      PROVE  n + 1 \in T
  <2>1. ASSUME NEW u \in Seq(Nat), Len(u) = n + 1
        PROVE  Total(s \o u) = Total(s) + Total(u)
    <3> DEFINE v == SubSeq(u, 1, n)
               x == u[n + 1]
    <3>1. v \in Seq(Nat) /\ x \in Nat /\ Len(v) = n /\ u = Append(v, x)
      BY <2>1, AllButTheLast
    <3> HIDE DEF v, x
    <3>2. s \o Append(v, x) = Append(s \o v, x) /\ s \o v \in Seq(Nat)
      <4> DEFINE numbers == Nat
      <4>1. s \in Seq(numbers) /\ v \in Seq(numbers) /\ x \in numbers
        BY <3>1
      <4> HIDE DEF numbers
      <4>2. s \o Append(v, x) = Append(s \o v, x) /\ s \o v \in Seq(numbers)
        BY <4>1, AppendOfBoth
      <4> QED
        BY <4>2 DEF numbers
    <3>3. Total(Append(s \o v, x)) = Total(s \o v) + x
      BY <3>1, <3>2, TotalOfMore
    <3>4. Total(Append(v, x)) = Total(v) + x
      BY <3>1, TotalOfMore
    <3>5. Total(s \o v) = Total(s) + Total(v)
      BY <3>1, <1>2
    <3>6. Total(s) \in Nat /\ Total(v) \in Nat /\ x \in Nat
      BY <3>1, TotalIsNat
    <3> HIDE DEF T
    <3>7. Total(s \o Append(v, x)) = Total(s) + Total(Append(v, x))
      BY <3>2, <3>3, <3>4, <3>5, <3>6
    <3> QED
      BY <3>1, <3>7
  <2> QED
    BY <2>1
<1> HIDE DEF T
<1>3. \A n \in Nat : n \in T
  BY <1>1, <1>2, Counting
<1> QED
  BY <1>3 DEF T

\* What holds of the empty sequence, and of one element more, holds of all.
LEMMA Growing ==
    ASSUME NEW S, NEW T, <<>> \in T, \A s \in Seq(S) : \A x \in S : s \in T => Append(s, x) \in T
    PROVE  \A s \in Seq(S) : s \in T
<1> DEFINE Holds(n) == \A s \in Seq(S) : Len(s) = n => s \in T
           Holding == {n \in Nat : Holds(n)}
<1>1. 0 \in Holding
  <2>1. ASSUME NEW s \in Seq(S), Len(s) = 0
        PROVE  s \in T
    <3>1. s = <<>>
      BY <2>1
    <3> QED
      BY <3>1
  <2> QED
    BY <2>1
<1>2. ASSUME NEW n \in Nat, n \in Holding
      PROVE  n + 1 \in Holding
  <2>1. ASSUME NEW s \in Seq(S), Len(s) = n + 1
        PROVE  s \in T
    <3> DEFINE v == SubSeq(s, 1, n)
               x == s[n + 1]
    <3>1. v \in Seq(S) /\ x \in S /\ Len(v) = n /\ s = Append(v, x)
      BY <2>1, AllButTheLast
    <3> HIDE DEF v, x
    <3>2. v \in T
      BY <3>1, <1>2
    <3> QED
      BY <3>1, <3>2
  <2> QED
    BY <2>1
<1> HIDE DEF Holding
<1>3. \A n \in Nat : n \in Holding
  BY <1>1, <1>2, Counting
<1> QED
  BY <1>3 DEF Holding

\* A fold has a trace.
LEMMA TraceExists ==
    ASSUME NEW N \in Nat, NEW S, NEW base \in S, NEW step \in Steps(N, S)
    PROVE  \E trace : IsTrace(trace, N, S, base, step)
<1>1. PICK run : IsRun(run, N, S, base, step)
  BY FoldExists
<1>2. run[{}] = base
  BY <1>1 DEF IsRun
<1>3. Follows(run, N, S, step)
  <2>1. ASSUME NEW k \in 1 .. N
        PROVE  run[1 .. k] = step[<<k, run[1 .. k - 1]>>]
    BY <1>1, FirstNumbers DEF IsRun
  <2> QED
    BY <2>1 DEF Follows
<1> QED
  BY <1>2, <1>3, FoldTrace

-----------------------------------------------------------------------------
\* Sequences joined, one after the other.
Joining(ss, S) == [p \in (1 .. Len(ss)) \X Seq(S) |-> p[2] \o ss[p[1]]]

\* Sequences are joined one by one.
LEMMA Joined ==
    ASSUME NEW S, NEW ss \in Seq(Seq(S))
    PROVE  \E join : /\ IsTrace(join, Len(ss), Seq(S), <<>>, Joining(ss, S))
                     /\ join[Len(ss)] = FlattenSeq(ss)
<1> DEFINE N == Len(ss)
           step == Joining(ss, S)
           flat == CHOOSE f : f = [i \in 1 .. N |-> IF i = 1 THEN ss[i] ELSE f[i - 1] \o ss[i]]
<1>1. N \in Nat /\ <<>> \in Seq(S) /\ \A k \in 1 .. N : ss[k] \in Seq(S)
  OBVIOUS
<1>2. step \in Steps(N, Seq(S))
  BY <1>1 DEF Steps, Joining
<1>3. \A k \in 1 .. N, s \in Seq(S) : step[<<k, s>>] = s \o ss[k]
  BY DEF Joining
<1>4. N = 0 => FlattenSeq(ss) = <<>>
  BY DEF FlattenSeq
<1>5. N # 0 => FlattenSeq(ss) = flat[N]
  BY DEF FlattenSeq
<1> HIDE DEF step, N
<1>6. PICK join : IsTrace(join, N, Seq(S), <<>>, step)
  BY <1>1, <1>2, TraceExists
<1>7. ASSUME NEW k \in 1 .. N
      PROVE  join[k] = join[k - 1] \o ss[k] /\ join[k - 1] \in Seq(S)
  <2>1. k - 1 \in 0 .. N
    BY <1>1
  <2>2. join[k - 1] \in Seq(S) /\ join[k] = step[<<k, join[k - 1]>>]
    BY <2>1, <1>6 DEF IsTrace
  <2> QED
    BY <2>2, <1>3
<1>8. join[0] = <<>>
  BY <1>6 DEF IsTrace
<1>9. N # 0 => join[1] = ss[1]
  <2> SUFFICES ASSUME N # 0 PROVE join[1] = ss[1]
    OBVIOUS
  <2>1. 1 \in 1 .. N /\ 1 - 1 = 0
    BY <1>1
  <2>2. join[1] = <<>> \o ss[1] /\ ss[1] \in Seq(S)
    BY <2>1, <1>1, <1>7, <1>8
  <2> QED
    BY <2>2
<1>10. flat = [i \in 1 .. N |-> IF i = 1 THEN ss[i] ELSE flat[i - 1] \o ss[i]]
  <2> DEFINE f == [i \in 1 .. N |-> join[i]]
  <2>1. ASSUME NEW i \in 1 .. N
        PROVE  f[i] = IF i = 1 THEN ss[i] ELSE f[i - 1] \o ss[i]
    <3>1. CASE i = 1
      BY <3>1, <1>9
    <3>2. CASE i # 1
      <4>1. i - 1 \in 1 .. N
        BY <3>2, <1>1
      <4> QED
        BY <4>1, <3>2, <1>7
    <3> QED
      BY <3>1, <3>2
  <2>2. f = [i \in 1 .. N |-> IF i = 1 THEN ss[i] ELSE f[i - 1] \o ss[i]]
    <3>1. f = [i \in 1 .. N |-> f[i]]
      OBVIOUS
    <3> HIDE DEF f
    <3> QED
      BY <2>1, <3>1
  <2> HIDE DEF f
  <2> QED
    BY <2>2
<1> HIDE DEF flat
<1>11. N # 0 => flat[N] = join[N]
  <2> DEFINE T == {k \in Nat : k \in 1 .. N => flat[k] = join[k]}
  <2>1. 0 \in T
    OBVIOUS
  <2>2. ASSUME NEW k \in Nat, k \in T
        PROVE  k + 1 \in T
    <3> SUFFICES ASSUME k + 1 \in 1 .. N
                 PROVE  flat[k + 1] = join[k + 1]
      OBVIOUS
    <3>1. CASE k = 0
      BY <3>1, <1>9, <1>10, <1>1
    <3>2. CASE k # 0
      <4>1. k \in 1 .. N /\ (k + 1) - 1 = k /\ k + 1 # 1
        BY <3>2, <1>1
      <4>2. flat[k] = join[k]
        BY <4>1, <2>2
      <4>3. flat[k + 1] = flat[k] \o ss[k + 1]
        BY <4>1, <1>10
      <4>4. join[k + 1] = join[k] \o ss[k + 1]
        BY <4>1, <1>7
      <4> QED
        BY <4>2, <4>3, <4>4
    <3> QED
      BY <3>1, <3>2
  <2> HIDE DEF T
  <2>3. \A k \in Nat : k \in T
    BY <2>1, <2>2, Counting
  <2> QED
    BY <2>3, <1>1 DEF T
<1>12. join[N] = FlattenSeq(ss)
  BY <1>1, <1>4, <1>5, <1>8, <1>11
<1> QED
  BY <1>6, <1>12 DEF N, step

LEMMA FlatIsSeq ==
    ASSUME NEW S, NEW ss \in Seq(Seq(S))
    PROVE  FlattenSeq(ss) \in Seq(S)
<1>1. Len(ss) \in 0 .. Len(ss)
  OBVIOUS
<1> QED
  BY <1>1, Joined DEF IsTrace

LEMMA FlatOfNone == FlattenSeq(<<>>) = <<>>
BY DEF FlattenSeq

\* One sequence more.
LEMMA FlatOfMore ==
    ASSUME NEW S, NEW ss \in Seq(Seq(S)), NEW s \in Seq(S)
    PROVE  FlattenSeq(Append(ss, s)) = FlattenSeq(ss) \o s
<1> DEFINE more == Append(ss, s)
           N == Len(ss)
           V == Seq(S)
<1>1. more \in Seq(V) /\ Len(more) = N + 1 /\ more[N + 1] = s /\ N \in Nat
  OBVIOUS
<1>2. \A k \in 1 .. N : more[k] = ss[k]
  OBVIOUS
<1>3. PICK f : IsTrace(f, N, V, <<>>, Joining(ss, S)) /\ f[N] = FlattenSeq(ss)
  BY Joined
<1> HIDE DEF more
<1>4. PICK g : IsTrace(g, N + 1, V, <<>>, Joining(more, S)) /\ g[N + 1] = FlattenSeq(more)
  BY <1>1, Joined
<1>5. SameSteps(N, V, Joining(ss, S), Joining(more, S))
  <2>1. ASSUME NEW k \in 1 .. N, NEW x \in V
        PROVE  Joining(ss, S)[<<k, x>>] = Joining(more, S)[<<k, x>>]
    <3>1. Joining(ss, S)[<<k, x>>] = x \o ss[k]
      BY DEF Joining
    <3>2. k \in 1 .. Len(more)
      BY <1>1
    <3>3. Joining(more, S)[<<k, x>>] = x \o more[k]
      BY <3>2 DEF Joining
    <3> QED
      BY <1>2, <3>1, <3>3, Zenon
  <2> HIDE DEF N, V
  <2> QED
    BY <2>1, Zenon DEF SameSteps
<1>6. g[N + 1] = g[N] \o s
  <2>1. N + 1 \in 1 .. N + 1 /\ (N + 1) - 1 = N /\ N \in 0 .. N + 1
    BY <1>1
  <2>2. g[N] \in V /\ g[N + 1] = Joining(more, S)[<<N + 1, g[N]>>]
    BY <2>1, <1>4 DEF IsTrace
  <2> QED
    BY <2>1, <2>2, <1>1 DEF Joining
<1> HIDE DEF N, V
<1>7. f[N] = g[N]
  <2>1. N + 1 \in Nat /\ N <= N + 1
    BY <1>1
  <2> QED
    BY <2>1, <1>1, <1>3, <1>4, <1>5, TracesAgree
<1> QED
  BY <1>3, <1>4, <1>6, <1>7 DEF more

LEMMA FlatOfOne ==
    ASSUME NEW S, NEW s \in Seq(S)
    PROVE  FlattenSeq(<<s>>) = s
<1>1. <<s>> = Append(<<>>, s) /\ <<>> \in Seq(Seq(S)) /\ <<>> \o s = s
  OBVIOUS
<1>2. FlattenSeq(Append(<<>>, s)) = FlattenSeq(<<>>) \o s
  BY <1>1, FlatOfMore
<1> QED
  BY <1>1, <1>2, FlatOfNone

LEMMA ConcatIsAssociative ==
    ASSUME NEW S, NEW s \in Seq(S), NEW t \in Seq(S), NEW u \in Seq(S)
    PROVE  (s \o t) \o u = s \o (t \o u)
OBVIOUS

\* Joining goes along with joining.
LEMMA FlatOfBoth ==
    ASSUME NEW S, NEW ss \in Seq(Seq(S)), NEW tt \in Seq(Seq(S))
    PROVE  FlattenSeq(ss \o tt) = FlattenSeq(ss) \o FlattenSeq(tt)
<1> DEFINE V == Seq(S)
           T == {t \in Seq(V) : FlattenSeq(ss \o t) = FlattenSeq(ss) \o FlattenSeq(t)}
<1>0. FlattenSeq(ss) \in V
  BY FlatIsSeq
<1>1. <<>> \in T
  <2>1. ss \o <<>> = ss /\ FlattenSeq(ss) \o <<>> = FlattenSeq(ss) /\ <<>> \in Seq(V)
    BY <1>0
  <2> QED
    BY <2>1, FlatOfNone
<1>2. ASSUME NEW t \in Seq(V), NEW x \in V, t \in T
      PROVE  Append(t, x) \in T
  <2>1. ss \o Append(t, x) = Append(ss \o t, x) /\ ss \o t \in Seq(V) /\ Append(t, x) \in Seq(V)
    <3>1. ss \in Seq(V)
      OBVIOUS
    <3> HIDE DEF T, V
    <3> QED
      BY <3>1
  <2>2. FlattenSeq(Append(ss \o t, x)) = FlattenSeq(ss \o t) \o x
    BY <2>1, FlatOfMore
  <2>3. FlattenSeq(Append(t, x)) = FlattenSeq(t) \o x /\ FlattenSeq(t) \in V
    BY FlatOfMore, FlatIsSeq
  <2>4. FlattenSeq(ss \o t) = FlattenSeq(ss) \o FlattenSeq(t)
    BY <1>2
  <2>5. (FlattenSeq(ss) \o FlattenSeq(t)) \o x = FlattenSeq(ss) \o (FlattenSeq(t) \o x)
    <3> DEFINE a == FlattenSeq(ss)
               b == FlattenSeq(t)
    <3>1. a \in Seq(S) /\ b \in Seq(S) /\ x \in Seq(S)
      BY <1>0, <2>3
    <3> HIDE DEF a, b
    <3>2. (a \o b) \o x = a \o (b \o x)
      BY <3>1
    <3> QED
      BY <3>2 DEF a, b
  <2> QED
    BY <2>1, <2>2, <2>3, <2>4, <2>5
<1> HIDE DEF T, V
<1>3. \A t \in Seq(V) : t \in T
  BY <1>1, <1>2, Growing
<1> QED
  BY <1>3 DEF T, V

LEMMA MappingIsSeq ==
    ASSUME NEW S, NEW n \in Nat, NEW f \in [1 .. n -> S]
    PROVE  f \in Seq(S) /\ Len(f) = n
OBVIOUS

\* Elements one by one, each in a sequence of its own.
LEMMA FlatOfSingles ==
    ASSUME NEW S, NEW s \in Seq(S)
    PROVE  FlattenSeq([k \in DOMAIN s |-> <<s[k]>>]) = s
<1> DEFINE Singles(t) == [k \in DOMAIN t |-> <<t[k]>>]
           T == {t \in Seq(S) : FlattenSeq(Singles(t)) = t}
<1>1. <<>> \in T
  <2>1. Singles(<<>>) = <<>> /\ <<>> \in Seq(S)
    OBVIOUS
  <2> QED
    BY <2>1, FlatOfNone
<1>2. ASSUME NEW t \in Seq(S), NEW x \in S, t \in T
      PROVE  Append(t, x) \in T
  <2>1. Singles(Append(t, x)) = Append(Singles(t), <<x>>)
    OBVIOUS
  <2>2. Singles(t) \in Seq(Seq(S)) /\ <<x>> \in Seq(S)
    <3>1. \A k \in 1 .. Len(t) : <<t[k]>> \in Seq(S)
      OBVIOUS
    <3>2. Singles(t) \in [1 .. Len(t) -> Seq(S)] /\ Len(t) \in Nat
      BY <3>1
    <3> HIDE DEF Singles
    <3>3. Singles(t) \in Seq(Seq(S))
      BY <3>2, MappingIsSeq
    <3> QED
      BY <3>3
  <2> HIDE DEF Singles
  <2>3. FlattenSeq(Append(Singles(t), <<x>>)) = FlattenSeq(Singles(t)) \o <<x>>
    BY <2>2, FlatOfMore
  <2>4. t \o <<x>> = Append(t, x) /\ Append(t, x) \in Seq(S)
    OBVIOUS
  <2>5. FlattenSeq(Singles(t)) = t
    BY <1>2
  <2> QED
    BY <2>1, <2>3, <2>4, <2>5
<1> HIDE DEF T
<1>3. \A t \in Seq(S) : t \in T
  BY <1>1, <1>2, Growing
<1> QED
  BY <1>3 DEF T

\* What the pieces of sequences joined come to.
LEMMA TotalOfFlat ==
    ASSUME NEW ss \in Seq(Seq(Nat))
    PROVE  Total(FlattenSeq(ss)) = Total([k \in DOMAIN ss |-> Total(ss[k])])
<1> DEFINE V == Seq(Nat)
           TotalOf(t) == [k \in DOMAIN t |-> Total(t[k])]
           T == {t \in Seq(V) : Total(FlattenSeq(t)) = Total(TotalOf(t))}
<1>1. <<>> \in T
  <2>1. TotalOf(<<>>) = <<>> /\ <<>> \in Seq(V)
    OBVIOUS
  <2> QED
    BY <2>1, FlatOfNone
<1>2. ASSUME NEW t \in Seq(V), NEW x \in V, t \in T
      PROVE  Append(t, x) \in T
  <2>1. TotalOf(Append(t, x)) = Append(TotalOf(t), Total(x)) /\ Append(t, x) \in Seq(V)
    OBVIOUS
  <2>2. TotalOf(t) \in Seq(Nat) /\ Total(x) \in Nat
    <3>1. \A k \in 1 .. Len(t) : Total(t[k]) \in Nat
      BY TotalIsNat
    <3>2. TotalOf(t) \in [1 .. Len(t) -> Nat] /\ Len(t) \in Nat
      BY <3>1
    <3> HIDE DEF TotalOf
    <3> QED
      BY <3>2, MappingIsSeq, TotalIsNat
  <2>3. FlattenSeq(Append(t, x)) = FlattenSeq(t) \o x /\ FlattenSeq(t) \in Seq(Nat)
    <3> DEFINE numbers == Nat
    <3>1. t \in Seq(Seq(numbers)) /\ x \in Seq(numbers)
      OBVIOUS
    <3> HIDE DEF numbers
    <3>2. FlattenSeq(Append(t, x)) = FlattenSeq(t) \o x /\ FlattenSeq(t) \in Seq(numbers)
      BY <3>1, FlatOfMore, FlatIsSeq
    <3> QED
      BY <3>2 DEF numbers
  <2>4. Total(FlattenSeq(t) \o x) = Total(FlattenSeq(t)) + Total(x)
    BY <2>3, TotalOfBoth
  <2> HIDE DEF TotalOf
  <2>5. Total(Append(TotalOf(t), Total(x))) = Total(TotalOf(t)) + Total(x)
    BY <2>2, TotalOfMore
  <2>6. Total(FlattenSeq(t)) = Total(TotalOf(t))
    BY <1>2
  <2> QED
    BY <2>1, <2>3, <2>4, <2>5, <2>6
<1> HIDE DEF T, V
<1>3. \A t \in Seq(V) : t \in T
  BY <1>1, <1>2, Growing
<1> QED
  BY <1>3 DEF T, V

-----------------------------------------------------------------------------
\* The pieces of lines.
LEMMA CellsAreNat ==
    ASSUME NEW p \in Seq(Piece)
    PROVE  [k \in DOMAIN p |-> p[k].cells] \in Seq(Nat)
<1> DEFINE cells == [k \in DOMAIN p |-> p[k].cells]
<1>0. \A k \in 1 .. Len(p) : p[k].cells \in Nat
  <2>1. \A k \in 1 .. Len(p) : p[k] \in Piece
    OBVIOUS
  <2> QED
    BY <2>1 DEF Piece
<1>1. cells \in [1 .. Len(p) -> Nat] /\ Len(p) \in Nat
  BY <1>0
<1> HIDE DEF cells
<1>2. cells \in Seq(Nat)
  BY <1>1, MappingIsSeq
<1> QED
  BY <1>2 DEF cells

LEMMA CellsIsNat ==
    ASSUME NEW p \in Seq(Piece)
    PROVE  CellsOf(p) \in Nat
<1> DEFINE cells == [k \in DOMAIN p |-> p[k].cells]
<1>1. cells \in Seq(Nat)
  BY CellsAreNat
<1> HIDE DEF cells
<1>2. Total(cells) \in Nat
  BY <1>1, TotalIsNat
<1> QED
  BY <1>2 DEF CellsOf, cells

LEMMA CellsOfNone == CellsOf(<<>>) = 0
<1>1. [k \in DOMAIN <<>> |-> <<>>[k].cells] = <<>>
  OBVIOUS
<1> QED
  BY <1>1, TotalOfNone DEF CellsOf

LEMMA CellsOfMore ==
    ASSUME NEW p \in Seq(Piece), NEW x \in Piece
    PROVE  CellsOf(Append(p, x)) = CellsOf(p) + x.cells
<1> DEFINE C(r) == [k \in DOMAIN r |-> r[k].cells]
<1>1. C(Append(p, x)) = Append(C(p), x.cells)
  OBVIOUS
<1>2. C(p) \in Seq(Nat) /\ x.cells \in Nat
  BY CellsAreNat DEF Piece
<1>3. CellsOf(p) = Total(C(p)) /\ CellsOf(Append(p, x)) = Total(C(Append(p, x)))
  BY DEF CellsOf
<1> HIDE DEF C
<1> QED
  BY <1>1, <1>2, <1>3, TotalOfMore

\* The cells of joined pieces add up.
LEMMA CellsOfBoth ==
    ASSUME NEW p \in Seq(Piece), NEW q \in Seq(Piece)
    PROVE  CellsOf(p \o q) = CellsOf(p) + CellsOf(q)
<1> DEFINE T == {r \in Seq(Piece) : CellsOf(p \o r) = CellsOf(p) + CellsOf(r)}
<1>1. <<>> \in T
  <2>1. p \o <<>> = p /\ <<>> \in Seq(Piece) /\ CellsOf(p) \in Nat
    BY CellsIsNat
  <2> QED
    BY <2>1, CellsOfNone
<1>2. ASSUME NEW r \in Seq(Piece), NEW x \in Piece, r \in T
      PROVE  Append(r, x) \in T
  <2>1. p \o Append(r, x) = Append(p \o r, x) /\ p \o r \in Seq(Piece)
    BY AppendOfBoth
  <2>2. CellsOf(Append(p \o r, x)) = CellsOf(p \o r) + x.cells
    BY <2>1, CellsOfMore
  <2>3. CellsOf(Append(r, x)) = CellsOf(r) + x.cells
    BY CellsOfMore
  <2>4. CellsOf(p) \in Nat /\ CellsOf(r) \in Nat /\ x.cells \in Nat
    BY CellsIsNat DEF Piece
  <2>5. CellsOf(p \o r) = CellsOf(p) + CellsOf(r) /\ Append(r, x) \in Seq(Piece)
    BY <1>2
  <2>6. CellsOf(p \o Append(r, x)) = CellsOf(p) + CellsOf(Append(r, x))
    <3> HIDE DEF T
    <3> QED
      BY <2>1, <2>2, <2>3, <2>4, <2>5
  <2> QED
    BY <2>5, <2>6
<1> HIDE DEF T
<1>3. \A r \in Seq(Piece) : r \in T
  BY <1>1, <1>2, Growing
<1> QED
  BY <1>3 DEF T

LEMMA CellsOfOne ==
    ASSUME NEW x \in Piece
    PROVE  CellsOf(<<x>>) = x.cells
<1>1. [k \in DOMAIN <<x>> |-> <<x>>[k].cells] = <<x.cells>> /\ x.cells \in Nat
  BY DEF Piece
<1> QED
  BY <1>1, TotalOfOne DEF CellsOf

-----------------------------------------------------------------------------
\* What becomes of the elements of a sequence.
Maps(S, V) == [S -> V]
Mapped(G, s) == [k \in DOMAIN s |-> G[s[k]]]

LEMMA MappedIsSeq ==
    ASSUME NEW S, NEW V, NEW G \in Maps(S, V), NEW s \in Seq(S)
    PROVE  Mapped(G, s) \in Seq(V) /\ Len(Mapped(G, s)) = Len(s)
<1>1. \A k \in 1 .. Len(s) : G[s[k]] \in V
  BY DEF Maps
<1>2. Mapped(G, s) \in [1 .. Len(s) -> V] /\ Len(s) \in Nat
  BY <1>1 DEF Mapped
<1> QED
  BY <1>2, MappingIsSeq

LEMMA MappedOfNone == \A G : Mapped(G, <<>>) = <<>>
BY DEF Mapped

LEMMA MappedOfMore ==
    ASSUME NEW S, NEW G, NEW s \in Seq(S), NEW x \in S
    PROVE  Mapped(G, Append(s, x)) = Append(Mapped(G, s), G[x])
BY DEF Mapped

LEMMA MappedOfBoth ==
    ASSUME NEW S, NEW V, NEW G \in Maps(S, V), NEW s \in Seq(S), NEW t \in Seq(S)
    PROVE  Mapped(G, s \o t) = Mapped(G, s) \o Mapped(G, t)
<1> DEFINE T == {u \in Seq(S) : Mapped(G, s \o u) = Mapped(G, s) \o Mapped(G, u)}
<1>0. Mapped(G, s) \in Seq(V)
  BY MappedIsSeq
<1>1. <<>> \in T
  <2>1. s \o <<>> = s /\ <<>> \in Seq(S) /\ Mapped(G, s) \o <<>> = Mapped(G, s)
    BY <1>0
  <2> QED
    BY <2>1, MappedOfNone
<1>2. ASSUME NEW u \in Seq(S), NEW x \in S, u \in T
      PROVE  Append(u, x) \in T
  <2>1. s \o Append(u, x) = Append(s \o u, x) /\ s \o u \in Seq(S)
    BY AppendOfBoth
  <2>2. Mapped(G, Append(s \o u, x)) = Append(Mapped(G, s \o u), G[x])
    BY <2>1, MappedOfMore
  <2>3. Mapped(G, Append(u, x)) = Append(Mapped(G, u), G[x])
    BY MappedOfMore
  <2>4. Mapped(G, u) \in Seq(V) /\ G[x] \in V
    BY MappedIsSeq DEF Maps
  <2>5. Mapped(G, s) \o Append(Mapped(G, u), G[x]) = Append(Mapped(G, s) \o Mapped(G, u), G[x])
    BY <1>0, <2>4, AppendOfBoth
  <2>6. Mapped(G, s \o u) = Mapped(G, s) \o Mapped(G, u) /\ Append(u, x) \in Seq(S)
    BY <1>2
  <2> QED
    BY <2>1, <2>2, <2>3, <2>5, <2>6
<1> HIDE DEF T
<1>3. \A u \in Seq(S) : u \in T
  BY <1>1, <1>2, Growing
<1> QED
  BY <1>3 DEF T

\* Nothing comes to nothing.
LEMMA TotalOfZeros ==
    ASSUME NEW s \in Seq(Nat), \A k \in DOMAIN s : s[k] = 0
    PROVE  Total(s) = 0
<1> DEFINE T == {t \in Seq(Nat) : (\A k \in DOMAIN t : t[k] = 0) => Total(t) = 0}
<1>1. <<>> \in T
  BY TotalOfNone
<1>2. ASSUME NEW t \in Seq(Nat), NEW x \in Nat, t \in T
      PROVE  Append(t, x) \in T
  <2> DEFINE u == Append(t, x)
  <2>0. u \in Seq(Nat)
    OBVIOUS
  <2>1. (\A k \in DOMAIN u : u[k] = 0) => x = 0 /\ \A k \in DOMAIN t : t[k] = 0
    <3>1. Append(t, x)[Len(t) + 1] = x /\ Len(t) + 1 \in DOMAIN Append(t, x)
      OBVIOUS
    <3>2. \A k \in DOMAIN t : k \in DOMAIN Append(t, x) /\ Append(t, x)[k] = t[k]
      OBVIOUS
    <3> QED
      BY <3>1, <3>2
  <2>2. (\A k \in DOMAIN t : t[k] = 0) => Total(t) = 0
    BY <1>2
  <2>3. Total(u) = Total(t) + x
    BY TotalOfMore
  <2> HIDE DEF u
  <2>4. (\A k \in DOMAIN u : u[k] = 0) => Total(u) = 0
    BY <2>1, <2>2, <2>3
  <2>5. u \in T
    BY <2>0, <2>4
  <2> QED
    BY <2>5 DEF u
<1> DEFINE numbers == Nat
<1>3. \A t \in Seq(numbers) : \A x \in numbers : t \in T => Append(t, x) \in T
  BY <1>2
<1> HIDE DEF T, numbers
<1>4. \A t \in Seq(numbers) : t \in T
  BY <1>1, <1>3, Growing
<1> QED
  BY <1>4 DEF T, numbers

\* The cells of word i among pieces.
OfWord(i) == [x \in Piece |-> IF x.word = i THEN x.cells ELSE 0]
CellsOfWord(p, i) == Total(Mapped(OfWord(i), p))

\* A word's cells on a line are those of its pieces.
LEMMA WordsAreCounted ==
    ASSUME NEW p \in Seq(Piece), NEW i \in Nat
    PROVE  /\ Mapped(OfWord(i), p) \in Seq(Nat)
           /\ CellsOfWord(p, i) \in Nat
           /\ CellsOfWord(p, i)
                 = Total([k \in DOMAIN p |-> IF p[k].word = i THEN p[k].cells ELSE 0])
           /\ (\A k \in DOMAIN p : p[k].word # i) => CellsOfWord(p, i) = 0
           /\ (\A k \in DOMAIN p : p[k].word = i) => CellsOfWord(p, i) = CellsOf(p)
<1>1. OfWord(i) \in Maps(Piece, Nat)
  BY DEF OfWord, Piece, Maps
<1>2. Mapped(OfWord(i), p) \in Seq(Nat)
  BY <1>1, MappedIsSeq
<1>3. Mapped(OfWord(i), p) = [k \in DOMAIN p |-> IF p[k].word = i THEN p[k].cells ELSE 0]
  <2>1. \A k \in DOMAIN p : p[k] \in Piece
    OBVIOUS
  <2> QED
    BY <2>1 DEF Mapped, OfWord
<1>4. ASSUME \A k \in DOMAIN p : p[k].word # i
      PROVE  CellsOfWord(p, i) = 0
  <2>1. \A k \in DOMAIN Mapped(OfWord(i), p) : Mapped(OfWord(i), p)[k] = 0
    BY <1>3, <1>4
  <2> QED
    BY <2>1, <1>2, TotalOfZeros DEF CellsOfWord
<1>5. ASSUME \A k \in DOMAIN p : p[k].word = i
      PROVE  CellsOfWord(p, i) = CellsOf(p)
  BY <1>3, <1>5 DEF CellsOfWord, CellsOf
<1> QED
  BY <1>2, <1>3, <1>4, <1>5, TotalIsNat DEF CellsOfWord

LEMMA WordsOfBoth ==
    ASSUME NEW p \in Seq(Piece), NEW q \in Seq(Piece), NEW i \in Nat
    PROVE  CellsOfWord(p \o q, i) = CellsOfWord(p, i) + CellsOfWord(q, i)
<1>1. OfWord(i) \in Maps(Piece, Nat)
  BY DEF OfWord, Piece, Maps
<1>2. Mapped(OfWord(i), p \o q) = Mapped(OfWord(i), p) \o Mapped(OfWord(i), q)
  BY <1>1, MappedOfBoth
<1>3. Mapped(OfWord(i), p) \in Seq(Nat) /\ Mapped(OfWord(i), q) \in Seq(Nat)
  BY <1>1, MappedIsSeq
<1>4. Total(Mapped(OfWord(i), p) \o Mapped(OfWord(i), q))
         = Total(Mapped(OfWord(i), p)) + Total(Mapped(OfWord(i), q))
  BY <1>3, TotalOfBoth
<1> QED
  BY <1>2, <1>4 DEF CellsOfWord

-----------------------------------------------------------------------------
\* Wrapping.  The lines that are closed, and the open one.
WrapState == [out: Seq(Seq(Piece)), open: Seq(Piece)]
PiecesOf(acc) == FlattenSeq(acc.out) \o acc.open
Fits(acc, width) ==
    /\ \A k \in DOMAIN acc.out : Cells(acc.out[k]) <= width
    /\ Cells(acc.open) <= width

\* What is laid out so far, closed lines and open.
LEMMA PiecesAre ==
    ASSUME NEW acc \in WrapState
    PROVE  PiecesOf(acc) \in Seq(Piece)
<1>1. acc.out \in Seq(Seq(Piece)) /\ acc.open \in Seq(Piece)
  BY DEF WrapState
<1>2. FlattenSeq(acc.out) \in Seq(Piece)
  BY <1>1, FlatIsSeq
<1> QED
  BY <1>1, <1>2 DEF PiecesOf

\* What a line takes: its pieces, and a space between them.
LEMMA LineIs ==
    ASSUME NEW line \in Seq(Piece), NEW x \in Piece
    PROVE  /\ Cells(<<>>) = 0
           /\ Cells(line) \in Nat
           /\ Cells(<<x>>) = x.cells
           /\ Cells(Append(line, x))
                 = IF line = <<>> THEN x.cells ELSE Cells(line) + 1 + x.cells
<1>1. Cells(<<>>) = 0
  BY DEF Cells
<1>2. Cells(line) \in Nat
  <2>1. CellsOf(line) \in Nat /\ Len(line) \in Nat /\ (line # <<>> => Len(line) >= 1)
    BY CellsIsNat
  <2> QED
    BY <2>1 DEF Cells
<1>3. CellsOf(Append(line, x)) = CellsOf(line) + x.cells /\ x.cells \in Nat
  BY CellsOfMore DEF Piece
<1>4. Append(line, x) # <<>> /\ Len(Append(line, x)) = Len(line) + 1 /\ Len(line) \in Nat
  OBVIOUS
<1>5. Cells(Append(line, x)) = CellsOf(line) + x.cells + Len(line)
  BY <1>3, <1>4, CellsIsNat DEF Cells
<1>6. Cells(Append(line, x)) = IF line = <<>> THEN x.cells ELSE Cells(line) + 1 + x.cells
  <2>1. CASE line = <<>>
    BY <2>1, <1>3, <1>5, CellsOfNone
  <2>2. CASE line # <<>>
    BY <2>2, <1>3, <1>4, <1>5, CellsIsNat DEF Cells
  <2> QED
    BY <2>1, <2>2
<1>7. Cells(<<x>>) = x.cells
  <2>1. <<x>> # <<>> /\ Len(<<x>>) = 1 /\ CellsOf(<<x>>) = x.cells
    BY CellsOfOne
  <2> QED
    BY <2>1, <1>3 DEF Cells
<1> QED
  BY <1>1, <1>2, <1>6, <1>7

\* The open line is closed, if there is anything on it.
LEMMA ClosedIs ==
    ASSUME NEW acc \in WrapState, NEW width \in Nat, Fits(acc, width),
           NEW out, out = IF acc.open = <<>> THEN acc.out ELSE Append(acc.out, acc.open)
    PROVE  /\ out \in Seq(Seq(Piece)) /\ FlattenSeq(out) = PiecesOf(acc)
           /\ \A k \in DOMAIN out : Cells(out[k]) <= width
<1>1. acc.out \in Seq(Seq(Piece)) /\ acc.open \in Seq(Piece)
  BY DEF WrapState
<1>2. CASE acc.open = <<>>
  <2>1. FlattenSeq(acc.out) \o <<>> = FlattenSeq(acc.out)
    BY <1>1, FlatIsSeq
  <2> QED
    BY <2>1, <1>1, <1>2 DEF Fits, PiecesOf
<1>3. CASE acc.open # <<>>
  <2>0. out = Append(acc.out, acc.open)
    BY <1>3
  <2>1. FlattenSeq(out) = FlattenSeq(acc.out) \o acc.open
    BY <1>1, <2>0, FlatOfMore
  <2>2. ASSUME NEW k \in DOMAIN out
        PROVE  \/ k \in DOMAIN acc.out /\ out[k] = acc.out[k]
               \/ out[k] = acc.open
    BY <1>1, <2>0
  <2>3. \A k \in DOMAIN out : Cells(out[k]) <= width
    BY <2>2 DEF Fits
  <2>4. out \in Seq(Seq(Piece))
    BY <1>1, <2>0
  <2> QED
    BY <2>1, <2>3, <2>4 DEF PiecesOf
<1> QED
  BY <1>2, <1>3

LEMMA AppendIsJoin ==
    ASSUME NEW S, NEW s \in Seq(S), NEW x \in S
    PROVE  Append(s, x) = s \o <<x>>
OBVIOUS

\* Word i, of so many cells, is what r has more than acc.
AddsWord(acc, r, i, cells) ==
    \E new \in Seq(Piece) :
        /\ PiecesOf(r) = PiecesOf(acc) \o new
        /\ \A k \in DOMAIN new : new[k].word = i
        /\ CellsOf(new) = cells

\* A piece goes on the open line, or on one of its own.
LEMMA AddedIs ==
    ASSUME NEW acc \in WrapState, NEW width \in Nat, Fits(acc, width),
           NEW piece \in Piece, piece.cells <= width,
           acc.open = <<>> \/ Cells(acc.open) + 1 + piece.cells <= width,
           NEW r, r = [out |-> acc.out, open |-> Append(acc.open, piece)]
    PROVE  /\ r \in WrapState /\ Fits(r, width)
           /\ PiecesOf(r) = PiecesOf(acc) \o <<piece>>
<1>1. acc.out \in Seq(Seq(Piece)) /\ acc.open \in Seq(Piece)
  BY DEF WrapState
<1>2. r.out = acc.out /\ r.open = Append(acc.open, piece) /\ r.open \in Seq(Piece)
  BY <1>1
<1>3. r \in WrapState
  BY <1>1, <1>2 DEF WrapState
<1>4. Cells(r.open) <= width
  <2>1. Cells(Append(acc.open, piece))
           = IF acc.open = <<>> THEN piece.cells ELSE Cells(acc.open) + 1 + piece.cells
    BY <1>1, LineIs
  <2> QED
    BY <2>1, <1>2
<1>5. PiecesOf(r) = PiecesOf(acc) \o <<piece>>
  <2> DEFINE flat == FlattenSeq(acc.out)
             open == acc.open
  <2>1. flat \in Seq(Piece) /\ open \in Seq(Piece) /\ <<piece>> \in Seq(Piece)
    BY <1>1, FlatIsSeq
  <2>2. r.open = open \o <<piece>>
    <3>1. Append(acc.open, piece) = acc.open \o <<piece>>
      BY <1>1, AppendIsJoin
    <3> QED
      BY <3>1, <1>2
  <2>3. PiecesOf(r) = flat \o (open \o <<piece>>) /\ PiecesOf(acc) = flat \o open
    BY <1>2, <2>2 DEF PiecesOf
  <2> HIDE DEF flat, open
  <2>4. (flat \o open) \o <<piece>> = flat \o (open \o <<piece>>)
    BY <2>1, ConcatIsAssociative
  <2> QED
    BY <2>3, <2>4
<1> QED
  BY <1>2, <1>3, <1>4, <1>5 DEF Fits

\* A line started with a piece that fits.
LEMMA StartedIs ==
    ASSUME NEW out \in Seq(Seq(Piece)), NEW width \in Nat,
           \A k \in DOMAIN out : Cells(out[k]) <= width,
           NEW piece \in Piece, piece.cells <= width,
           NEW r, r = [out |-> out, open |-> <<piece>>]
    PROVE  /\ r \in WrapState /\ Fits(r, width)
           /\ PiecesOf(r) = FlattenSeq(out) \o <<piece>>
<1>1. r.out = out /\ r.open = <<piece>> /\ <<piece>> \in Seq(Piece)
  OBVIOUS
<1>2. r \in WrapState
  BY <1>1 DEF WrapState
<1>3. Cells(<<piece>>) = piece.cells
  <2>1. <<>> \in Seq(Piece)
    OBVIOUS
  <2> QED
    BY <2>1, LineIs
<1> QED
  BY <1>1, <1>2, <1>3 DEF Fits, PiecesOf

LEMMA PieceIs ==
    ASSUME NEW i \in Nat, NEW cells \in Nat
    PROVE  /\ [word |-> i, cells |-> cells] \in Piece
           /\ [word |-> i, cells |-> cells].word = i
           /\ [word |-> i, cells |-> cells].cells = cells
BY DEF Piece

\* A word that fits goes on the open line, or on one of its own.
LEMMA WordPlacedIs ==
    ASSUME NEW acc \in WrapState, NEW i \in Nat, NEW width \in Nat, Fits(acc, width),
           NEW cells \in Nat, cells <= width
    PROVE  LET r == Placed(acc, i, cells, width) IN
           /\ r \in WrapState /\ Fits(r, width)
           /\ PiecesOf(r) = PiecesOf(acc) \o <<[word |-> i, cells |-> cells]>>
<1> DEFINE piece == [word |-> i, cells |-> cells]
           r == Placed(acc, i, cells, width)
           there == acc.open = <<>> \/ Cells(acc.open) + 1 + cells <= width
<1>1. acc.open \in Seq(Piece)
  BY DEF WrapState
<1>2. piece \in Piece /\ piece.cells = cells
  BY PieceIs
<1>3. there => r = [out |-> acc.out, open |-> Append(acc.open, piece)]
  BY DEF Placed, WrapState
<1>4. ~there => r = [out |-> Append(acc.out, acc.open), open |-> <<piece>>]
  BY DEF Placed
<1>5. ~there => acc.open # <<>>
  OBVIOUS
<1> HIDE DEF piece, r
<1>6. CASE there
  BY <1>2, <1>3, <1>6, AddedIs DEF r, piece
<1>7. CASE ~there
  <2> DEFINE out == Append(acc.out, acc.open)
  <2>1. /\ out \in Seq(Seq(Piece)) /\ FlattenSeq(out) = PiecesOf(acc)
        /\ \A k \in DOMAIN out : Cells(out[k]) <= width
    BY <1>5, <1>7, ClosedIs
  <2>2. r = [out |-> out, open |-> <<piece>>]
    BY <1>4, <1>7
  <2> HIDE DEF out
  <2>3. r \in WrapState /\ Fits(r, width) /\ PiecesOf(r) = FlattenSeq(out) \o <<piece>>
    BY <2>1, <2>2, <1>2, StartedIs
  <2> QED
    BY <2>1, <2>3 DEF r, piece
<1> QED
  BY <1>6, <1>7

LEMMA OnceMore ==
    ASSUME NEW m \in Nat, NEW c \in Nat
    PROVE  (m + 1) * c = m * c + c
OBVIOUS

\* The lines a long word fills, with as many cells each.
LEMMA FilledIs ==
    ASSUME NEW n \in Nat, NEW piece \in Piece,
           NEW laidOut, laidOut = [k \in 1 .. n |-> <<piece>>],
           NEW same, same = [k \in 1 .. n |-> piece]
    PROVE  /\ laidOut \in Seq(Seq(Piece)) /\ FlattenSeq(laidOut) = same
           /\ same \in Seq(Piece) /\ CellsOf(same) = n * piece.cells
<1>1. same \in Seq(Piece) /\ DOMAIN same = 1 .. n /\ \A k \in 1 .. n : same[k] = piece
  OBVIOUS
<1>2. laidOut = [k \in DOMAIN same |-> <<same[k]>>]
  BY <1>1
<1>3. laidOut \in Seq(Seq(Piece))
  <2>1. <<piece>> \in Seq(Piece)
    OBVIOUS
  <2>2. laidOut \in [1 .. n -> Seq(Piece)]
    BY <2>1
  <2> QED
    BY <2>2, MappingIsSeq
<1>4. FlattenSeq(laidOut) = same
  BY <1>1, <1>2, FlatOfSingles
<1>5. CellsOf(same) = n * piece.cells
  <2> DEFINE T == {m \in Nat : CellsOf([k \in 1 .. m |-> piece]) = m * piece.cells}
  <2>0. piece.cells \in Nat
    BY DEF Piece
  <2>1. 0 \in T
    <3>1. [k \in 1 .. 0 |-> piece] = <<>> /\ 0 * piece.cells = 0
      BY <2>0
    <3> QED
      BY <3>1, CellsOfNone
  <2>2. ASSUME NEW m \in Nat, m \in T
        PROVE  m + 1 \in T
    <3> DEFINE p == [k \in 1 .. m |-> piece]
               q == [k \in 1 .. m + 1 |-> piece]
    <3>1. p \in Seq(Piece) /\ q = Append(p, piece)
      OBVIOUS
    <3> HIDE DEF p, q
    <3>2. CellsOf(q) = CellsOf(p) + piece.cells
      BY <3>1, CellsOfMore
    <3>3. CellsOf(p) = m * piece.cells
      BY <2>2 DEF p
    <3>4. (m + 1) * piece.cells = m * piece.cells + piece.cells
      BY <2>0, OnceMore
    <3>5. CellsOf(q) = (m + 1) * piece.cells
      BY <3>2, <3>3, <3>4
    <3> QED
      BY <3>5 DEF q
  <2> HIDE DEF T
  <2>3. \A m \in Nat : m \in T
    BY <2>1, <2>2, Counting
  <2> QED
    BY <2>3 DEF T
<1> QED
  BY <1>1, <1>3, <1>4, <1>5

\* What a word longer than a line leaves for the next.
LEMMA RestIs ==
    ASSUME NEW cells \in Nat, NEW width \in Nat \ {0}, cells > width,
           NEW full, full = (cells - 1) \div width
    PROVE  /\ full \in Nat
           /\ cells - full * width \in Nat
           /\ cells - full * width <= width
           /\ full * width + (cells - full * width) = cells
<1>1. cells - 1 \in Nat /\ width > 0
  OBVIOUS
<1>2. full \in Nat /\ full * width <= cells - 1 /\ cells - 1 < full * width + width
  BY <1>1
<1>3. full * width \in Nat
  BY <1>2
<1> QED
  BY <1>2, <1>3

\* A word wider than a line is cut into lines and the rest, no cell lost.
LEMMA CutIs ==
    ASSUME NEW acc \in WrapState, NEW i \in Nat, NEW width \in Nat \ {0}, Fits(acc, width),
           NEW cells \in Nat, cells > width
    PROVE  LET r == Cut(acc, i, cells, width)
           IN  r \in WrapState /\ Fits(r, width) /\ AddsWord(acc, r, i, cells)
<1> DEFINE full == (cells - 1) \div width
           piece == [word |-> i, cells |-> width]
           rest == [word |-> i, cells |-> cells - full * width]
           closed == IF acc.open = <<>> THEN acc.out ELSE Append(acc.out, acc.open)
           laidOut == [k \in 1 .. full |-> <<piece>>]
           same == [k \in 1 .. full |-> piece]
           r == Cut(acc, i, cells, width)
<1>1. r = [out |-> closed \o laidOut, open |-> <<rest>>]
  BY DEF Cut
<1>2. full \in Nat /\ cells - full * width \in Nat /\ cells - full * width <= width
      /\ full * width + (cells - full * width) = cells
  BY RestIs
<1>3. piece \in Piece /\ piece.word = i /\ piece.cells = width
  BY PieceIs
<1>4. rest \in Piece /\ rest.word = i /\ rest.cells = cells - full * width
  <2> HIDE DEF full
  <2> QED
    BY <1>2, PieceIs
<1> HIDE DEF full, piece, rest
<1>5. /\ closed \in Seq(Seq(Piece)) /\ FlattenSeq(closed) = PiecesOf(acc)
      /\ \A k \in DOMAIN closed : Cells(closed[k]) <= width
  <2> HIDE DEF closed
  <2> QED
    BY ClosedIs DEF closed
<1>6. /\ laidOut \in Seq(Seq(Piece)) /\ FlattenSeq(laidOut) = same /\ same \in Seq(Piece)
      /\ CellsOf(same) = full * width
  <2>1. laidOut = [k \in 1 .. full |-> <<piece>>] /\ same = [k \in 1 .. full |-> piece]
    OBVIOUS
  <2> HIDE DEF laidOut, same
  <2>2. /\ laidOut \in Seq(Seq(Piece)) /\ FlattenSeq(laidOut) = same /\ same \in Seq(Piece)
        /\ CellsOf(same) = full * piece.cells
    BY <2>1, <1>2, <1>3, FilledIs
  <2> QED
    BY <2>2, <1>3
<1>7. \A k \in DOMAIN laidOut : Cells(laidOut[k]) <= width
  <2>1. Cells(<<piece>>) = width
    <3>1. <<>> \in Seq(Piece)
      OBVIOUS
    <3> QED
      BY <3>1, <1>3, LineIs
  <2> QED
    BY <2>1
<1>8. \A k \in DOMAIN same : same[k].word = i
  BY <1>3
<1> HIDE DEF closed, laidOut, same, r
<1> DEFINE out == closed \o laidOut
<1>9. /\ out \in Seq(Seq(Piece)) /\ FlattenSeq(out) = PiecesOf(acc) \o same
      /\ \A k \in DOMAIN out : Cells(out[k]) <= width
  <2>1. FlattenSeq(out) = FlattenSeq(closed) \o FlattenSeq(laidOut)
    BY <1>5, <1>6, FlatOfBoth
  <2>2. ASSUME NEW k \in DOMAIN out
        PROVE  Cells(out[k]) <= width
    <3>1. \/ k \in DOMAIN closed /\ out[k] = closed[k]
          \/ k - Len(closed) \in DOMAIN laidOut /\ out[k] = laidOut[k - Len(closed)]
      BY <1>5, <1>6
    <3> QED
      BY <3>1, <1>5, <1>7
  <2>3. out \in Seq(Seq(Piece))
    BY <1>5, <1>6
  <2> QED
    BY <2>1, <2>2, <2>3, <1>5, <1>6
<1> HIDE DEF out
<1>10. r \in WrapState /\ Fits(r, width) /\ PiecesOf(r) = FlattenSeq(out) \o <<rest>>
  <2>1. r = [out |-> out, open |-> <<rest>>]
    BY <1>1 DEF out
  <2>2. rest.cells <= width
    BY <1>2, <1>4
  <2> QED
    BY <2>1, <2>2, <1>4, <1>9, StartedIs
<1> DEFINE new == same \o <<rest>>
<1>11. PiecesOf(r) = PiecesOf(acc) \o new
  <2>1. PiecesOf(acc) \in Seq(Piece)
    BY PiecesAre
  <2>2. <<rest>> \in Seq(Piece)
    BY <1>4
  <2>3. (PiecesOf(acc) \o same) \o <<rest>> = PiecesOf(acc) \o (same \o <<rest>>)
    BY <2>1, <2>2, <1>6, ConcatIsAssociative
  <2> QED
    BY <2>3, <1>9, <1>10
<1>12. new \in Seq(Piece) /\ new = Append(same, rest) /\ \A k \in DOMAIN new : new[k].word = i
  <2>1. new = Append(same, rest) /\ new \in Seq(Piece)
    BY <1>4, <1>6, AppendIsJoin
  <2> HIDE DEF new
  <2>2. ASSUME NEW k \in DOMAIN new
        PROVE  \/ k \in DOMAIN same /\ new[k] = same[k]
               \/ new[k] = rest
    BY <2>1, <1>6
  <2> QED
    BY <2>1, <2>2, <1>4, <1>8
<1>13. CellsOf(new) = cells
  <2>1. CellsOf(Append(same, rest)) = CellsOf(same) + rest.cells
    BY <1>4, <1>6, CellsOfMore
  <2> HIDE DEF new
  <2> QED
    BY <2>1, <1>2, <1>4, <1>6, <1>12
<1> HIDE DEF new
<1> QED
  BY <1>10, <1>11, <1>12, <1>13 DEF r, AddsWord

FitLines(width) == {acc \in WrapState : Fits(acc, width)}
NoLines == [out |-> <<>>, open |-> <<>>]
Laid(acc, i, cells, width) ==
    IF cells > width THEN Cut(acc, i, cells, width) ELSE Placed(acc, i, cells, width)
Laying(words, width) ==
    [p \in (1 .. Len(words)) \X FitLines(width) |-> Laid(p[2], p[1], words[p[1]], width)]

\* Either way, the next word is added whole and the lines fit.
LEMMA LaidIs ==
    ASSUME NEW width \in Nat \ {0}, NEW acc \in FitLines(width), NEW i \in Nat, NEW cells \in Nat
    PROVE  LET r == Laid(acc, i, cells, width)
           IN  r \in FitLines(width) /\ AddsWord(acc, r, i, cells)
<1>1. acc \in WrapState /\ Fits(acc, width) /\ width \in Nat
  BY DEF FitLines
<1>2. CASE cells > width
  <2> DEFINE r == Cut(acc, i, cells, width)
  <2>1. r \in WrapState /\ Fits(r, width) /\ AddsWord(acc, r, i, cells)
    BY <1>1, <1>2, CutIs
  <2>2. Laid(acc, i, cells, width) = r
    BY <1>2 DEF Laid
  <2> HIDE DEF r
  <2> QED
    BY <2>1, <2>2 DEF FitLines
<1>3. CASE ~(cells > width)
  <2> DEFINE piece == [word |-> i, cells |-> cells]
             new == <<piece>>
  <2>1. piece \in Piece /\ piece.word = i /\ piece.cells = cells
    BY PieceIs
  <2> HIDE DEF piece
  <2>2. new \in Seq(Piece) /\ CellsOf(new) = cells /\ \A k \in DOMAIN new : new[k].word = i
    BY <2>1, CellsOfOne
  <2>3. LET r == Placed(acc, i, cells, width) IN
        r \in WrapState /\ Fits(r, width) /\ PiecesOf(r) = PiecesOf(acc) \o new
    BY <1>1, <1>3, WordPlacedIs DEF piece
  <2> HIDE DEF new
  <2> QED
    BY <2>2, <2>3, <1>3 DEF Laid, FitLines, AddsWord
<1> QED
  BY <1>2, <1>3

LEMMA NothingLaid ==
    ASSUME NEW width \in Nat
    PROVE  NoLines \in FitLines(width) /\ PiecesOf(NoLines) = <<>>
<1>1. NoLines.out = <<>> /\ NoLines.open = <<>> /\ NoLines \in WrapState
  BY DEF NoLines, WrapState
<1>2. Cells(<<>>) = 0
  BY DEF Cells
<1>3. PiecesOf(NoLines) = <<>>
  BY <1>1, FlatOfNone DEF PiecesOf
<1> QED
  BY <1>1, <1>2, <1>3 DEF FitLines, Fits

LEMMA LayingSteps ==
    ASSUME NEW words \in Seq(Nat), NEW width \in Nat \ {0}
    PROVE  Laying(words, width) \in Steps(Len(words), FitLines(width))
<1>1. \A i \in 1 .. Len(words) : i \in Nat /\ words[i] \in Nat
  OBVIOUS
<1>2. \A i \in 1 .. Len(words), acc \in FitLines(width) :
         Laid(acc, i, words[i], width) \in FitLines(width)
  BY <1>1, LaidIs
<1> QED
  BY <1>2 DEF Laying, Steps

\* Wrap lays one word after the other.
LEMMA WrapLays ==
    ASSUME NEW words \in Seq(Nat), NEW width \in Nat \ {0}
    PROVE  \E laid : /\ IsTrace(laid, Len(words), FitLines(width), NoLines, Laying(words, width))
                     /\ Wrap(words, width) =
                           LET laidOut == laid[Len(words)] IN
                           IF laidOut.open # <<>> \/ laidOut.out = <<>>
                           THEN Append(laidOut.out, laidOut.open) ELSE laidOut.out
<1> DEFINE N == Len(words)
           S == FitLines(width)
           step == Laying(words, width)
           Op(acc, i) == IF words[i] > width THEN Cut(acc, i, words[i], width)
                         ELSE Placed(acc, i, words[i], width)
           idx == [i \in DOMAIN words |-> i]
           fold == CHOOSE f : f = [t \in SUBSET DOMAIN idx |->
                                     IF t = {} THEN [out |-> <<>>, open |-> <<>>]
                                     ELSE Op(f[t \ {Max(t)}], idx[Max(t)])]
           laidOut == fold[DOMAIN idx]
<1>1. Wrap(words, width) = IF laidOut.open # <<>> \/ laidOut.out = <<>>
                           THEN Append(laidOut.out, laidOut.open) ELSE laidOut.out
  BY DEF Wrap, FoldLeftDomain, FoldLeft, MapThenFoldSet
<1>2. DOMAIN idx = 1 .. N /\ N \in Nat
  OBVIOUS
<1>3. step \in Steps(N, S) /\ NoLines \in S
  BY LayingSteps, NothingLaid
<1>4. \A k \in 1 .. N, acc \in S : step[<<k, acc>>] = Op(acc, k)
  BY DEF Laying, Laid
<1>5. NoLines = [out |-> <<>>, open |-> <<>>]
  BY DEF NoLines
<1> HIDE DEF step, N, S, Op
<1>6. fold = [t \in SUBSET (1 .. N) |->
                 IF t = {} THEN NoLines ELSE Op(fold[t \ {Max(t)}], Max(t))]
  <2>1. PICK run : IsRun(run, N, S, NoLines, step)
    BY <1>2, <1>3, FoldExists
  <2>2. ASSUME NEW t \in SUBSET (1 .. N), t # {}
        PROVE  /\ step[<<Max(t), run[t \ {Max(t)}]>>] = Op(run[t \ {Max(t)}], Max(t))
               /\ idx[Max(t)] = Max(t)
    <3>1. t \subseteq 0 .. N
      BY <1>2
    <3>2. Max(t) \in 1 .. N
      BY <1>2, <2>2, <3>1, MaxOfSome
    <3>3. run[t \ {Max(t)}] \in S
      BY <2>1 DEF IsRun
    <3> QED
      BY <3>2, <3>3, <1>2, <1>4
  <2> HIDE DEF idx
  <2>3. run = [t \in SUBSET DOMAIN idx |->
                 IF t = {} THEN [out |-> <<>>, open |-> <<>>]
                 ELSE Op(run[t \ {Max(t)}], idx[Max(t)])]
    BY <2>1, <2>2, <1>2, <1>5 DEF IsRun
  <2>4. fold = [t \in SUBSET DOMAIN idx |->
                 IF t = {} THEN [out |-> <<>>, open |-> <<>>]
                 ELSE Op(fold[t \ {Max(t)}], idx[Max(t)])]
    BY <2>3
  <2> HIDE DEF fold
  <2> QED
    BY <2>2, <2>4, <1>2, <1>5
<1> HIDE DEF fold, idx
<1>7. fold[{}] = NoLines
  BY <1>6
<1>8. Follows(fold, N, S, step)
  <2>1. ASSUME NEW k \in 1 .. N
        PROVE  fold[1 .. k] = Op(fold[1 .. k - 1], k)
    <3>1. /\ 1 .. k \in SUBSET (1 .. N) /\ 1 .. k # {}
          /\ Max(1 .. k) = k /\ (1 .. k) \ {Max(1 .. k)} = 1 .. k - 1
      BY <1>2, FirstNumbers
    <3>2. fold[1 .. k] = Op(fold[(1 .. k) \ {Max(1 .. k)}], Max(1 .. k))
      BY <3>1, <1>6
    <3> QED
      BY <3>1, <3>2
  <2> QED
    BY <2>1, <1>4 DEF Follows
<1>9. PICK laid : IsTrace(laid, N, S, NoLines, step) /\ laid[N] = fold[1 .. N]
  BY <1>2, <1>3, <1>7, <1>8, FoldTrace
<1>10. laid[N] = laidOut
  BY <1>2, <1>9
<1> HIDE DEF laidOut
<1> QED
  BY <1>1, <1>9, <1>10 DEF N, S, step

\* The first k words are laid, whole and in their order.
LaidUpTo(p, k, words) ==
    /\ p \in Seq(Piece)
    /\ \A j \in DOMAIN p : p[j].word \in 1 .. k
    /\ \A i, j \in DOMAIN p : i < j => p[i].word <= p[j].word
    /\ \A i \in 1 .. k : CellsOfWord(p, i) = words[i]

\* What is laid out up to a word, and that word, is laid out up to the next.
LEMMA OneWordMore ==
    ASSUME NEW words \in Seq(Nat), NEW k \in 1 .. Len(words),
           NEW p, LaidUpTo(p, k - 1, words),
           NEW new \in Seq(Piece), \A j \in DOMAIN new : new[j].word = k,
           CellsOf(new) = words[k]
    PROVE  LaidUpTo(p \o new, k, words)
<1>1. p \in Seq(Piece) /\ k \in Nat
  BY DEF LaidUpTo
<1> DEFINE q == p \o new
<1>2. /\ q \in Seq(Piece)
      /\ \A j \in DOMAIN q : \/ j \in DOMAIN p /\ q[j] = p[j]
                             \/ /\ j \notin DOMAIN p
                                /\ j - Len(p) \in DOMAIN new /\ q[j] = new[j - Len(p)]
  BY <1>1
<1>3. ASSUME NEW i \in 1 .. k
      PROVE  CellsOfWord(q, i) = words[i]
  <2>1. CellsOfWord(q, i) = CellsOfWord(p, i) + CellsOfWord(new, i)
    BY <1>1, WordsOfBoth
  <2>2. CASE i = k
    <3>1. \A j \in DOMAIN p : p[j].word # i
      BY <2>2 DEF LaidUpTo
    <3>2. CellsOfWord(p, i) = 0 /\ CellsOfWord(new, i) = CellsOf(new)
      BY <3>1, <2>2, <1>1, WordsAreCounted
    <3>3. CellsOf(new) \in Nat
      BY CellsIsNat
    <3> QED
      BY <2>1, <2>2, <3>2, <3>3
  <2>3. CASE i # k
    <3>1. i \in 1 .. k - 1
      BY <2>3
    <3>2. CellsOfWord(p, i) = words[i] /\ CellsOfWord(p, i) \in Nat
      BY <3>1, <1>1, WordsAreCounted DEF LaidUpTo
    <3>3. CellsOfWord(new, i) = 0
      <4>1. \A j \in DOMAIN new : new[j].word # i
        BY <2>3
      <4>2. i \in Nat
        BY <1>1
      <4> HIDE DEF q
      <4>3. (\A j \in DOMAIN new : new[j].word # i) => CellsOfWord(new, i) = 0
        BY <4>2, WordsAreCounted
      <4> QED
        BY <4>1, <4>3
    <3> QED
      BY <2>1, <3>2, <3>3
  <2> QED
    BY <2>2, <2>3
<1> HIDE DEF q
<1>4. \A j \in DOMAIN p : p[j].word \in 1 .. k - 1 /\ p[j].word \in 1 .. k /\ p[j].word <= k
  BY <1>1 DEF LaidUpTo
<1>5. ASSUME NEW j \in DOMAIN q
      PROVE  q[j].word \in 1 .. k
  <2>1. CASE j \in DOMAIN p
    BY <2>1, <1>2, <1>4
  <2>2. CASE j \notin DOMAIN p
    <3>1. q[j].word = k /\ k \in 1 .. k
      BY <2>2, <1>1, <1>2
    <3> QED
      BY <3>1
  <2> QED
    BY <2>1, <2>2
<1>6. ASSUME NEW i \in DOMAIN q, NEW j \in DOMAIN q, i < j
      PROVE  q[i].word <= q[j].word
  <2>1. CASE j \in DOMAIN p
    <3>1. i \in DOMAIN p
      BY <2>1, <1>1, <1>2, <1>6
    <3>2. p[i].word <= p[j].word
      BY <2>1, <3>1, <1>6 DEF LaidUpTo
    <3> QED
      BY <2>1, <3>1, <3>2, <1>2
  <2>2. CASE j \notin DOMAIN p
    <3>1. q[j].word = k
      BY <2>2, <1>2
    <3>2. q[i].word <= k
      BY <1>5
    <3> QED
      BY <3>1, <3>2
  <2> QED
    BY <2>1, <2>2
<1>7. LaidUpTo(q, k, words)
  BY <1>2, <1>3, <1>5, <1>6 DEF LaidUpTo
<1> QED
  BY <1>7 DEF q

\* Wrapping lays every word out, in order, on lines that fit.
LEMMA WrapIs ==
    ASSUME NEW words \in Seq(Nat), NEW width \in Nat \ {0},
           NEW laidOut, laidOut = Wrap(words, width)
    PROVE  /\ laidOut \in Seq(Seq(Piece)) /\ laidOut # <<>>
           /\ \A k \in DOMAIN laidOut : Cells(laidOut[k]) <= width
           /\ LaidUpTo(FlattenSeq(laidOut), Len(words), words)
           /\ CellsOf(FlattenSeq(laidOut)) = Total(words)
<1> DEFINE N == Len(words)
<1>0. N \in Nat /\ \A k \in 1 .. N : words[k] \in Nat /\ k \in Nat
  OBVIOUS
<1>1. PICK laid : /\ IsTrace(laid, N, FitLines(width), NoLines, Laying(words, width))
                  /\ Wrap(words, width) =
                        LET last == laid[N] IN
                        IF last.open # <<>> \/ last.out = <<>>
                        THEN Append(last.out, last.open) ELSE last.out
  BY WrapLays
<1>2. PICK sum : IsTrace(sum, N, Nat, 0, Adding(words)) /\ sum[N] = Total(words)
  BY Sums
<1> DEFINE T == {k \in Nat : k <= N => /\ LaidUpTo(PiecesOf(laid[k]), k, words)
                                       /\ CellsOf(PiecesOf(laid[k])) = sum[k]}
<1>3. 0 \in T
  <2>1. laid[0] = NoLines /\ sum[0] = 0
    BY <1>1, <1>2 DEF IsTrace
  <2>2. PiecesOf(laid[0]) = <<>>
    BY <2>1, NothingLaid
  <2>3. LaidUpTo(<<>>, 0, words)
    BY DEF LaidUpTo
  <2> QED
    BY <2>1, <2>2, <2>3, CellsOfNone
<1>4. ASSUME NEW m \in Nat, m \in T
      PROVE  m + 1 \in T
  <2> DEFINE k == m + 1
             acc == laid[m]
             p == PiecesOf(acc)
             r == laid[k]
  <2>1. CASE k <= N
    <3>1. m \in 0 .. N /\ k \in 1 .. N /\ k - 1 = m
      BY <2>1
    <3>2. acc \in FitLines(width) /\ r = Laying(words, width)[<<k, acc>>]
      BY <3>1, <1>1 DEF IsTrace
    <3>3. r = Laid(acc, k, words[k], width)
      BY <3>1, <3>2 DEF Laying
    <3>4. sum[m] \in Nat /\ sum[k] = sum[m] + words[k]
      <4>1. sum[m] \in Nat /\ sum[k] = Adding(words)[<<k, sum[m]>>]
        BY <3>1, <1>2 DEF IsTrace
      <4> QED
        BY <3>1, <4>1 DEF Adding
    <3>5. LaidUpTo(p, k - 1, words) /\ CellsOf(p) = sum[m]
      BY <3>1, <1>4
    <3> HIDE DEF k, acc, r, p
    <3>6. AddsWord(acc, r, k, words[k])
      BY <3>1, <3>2, <3>3, <1>0, LaidIs
    <3>7. PICK new \in Seq(Piece) :
                 /\ PiecesOf(r) = p \o new
                 /\ \A j \in DOMAIN new : new[j].word = k
                 /\ CellsOf(new) = words[k]
      BY <3>6 DEF AddsWord, p
    <3>8. LaidUpTo(p \o new, k, words)
      BY <3>1, <3>5, <3>7, OneWordMore
    <3>9. CellsOf(p \o new) = sum[k]
      <4>1. p \in Seq(Piece)
        BY <3>5 DEF LaidUpTo
      <4> QED
        BY <4>1, <3>4, <3>5, <3>7, CellsOfBoth
    <3>10. LaidUpTo(PiecesOf(laid[m + 1]), m + 1, words)
           /\ CellsOf(PiecesOf(laid[m + 1])) = sum[m + 1]
      BY <3>7, <3>8, <3>9 DEF k, r
    <3> QED
      BY <3>10
  <2>2. CASE ~(k <= N)
    BY <2>2
  <2> QED
    BY <2>1, <2>2
<1> HIDE DEF T
<1>5. \A m \in Nat : m \in T
  BY <1>3, <1>4, Counting
<1> DEFINE last == laid[N]
<1>6. LaidUpTo(PiecesOf(last), N, words) /\ CellsOf(PiecesOf(last)) = Total(words)
  BY <1>0, <1>2, <1>5 DEF T
<1>7. last \in WrapState /\ Fits(last, width)
  <2>1. N \in 0 .. N
    BY <1>0
  <2>2. last \in FitLines(width)
    BY <2>1, <1>1 DEF IsTrace
  <2> QED
    BY <2>2 DEF FitLines
<1>8. laidOut = IF last.open # <<>> \/ last.out = <<>>
              THEN Append(last.out, last.open) ELSE last.out
  BY <1>1
<1> HIDE DEF last, N
<1>9. last.out \in Seq(Seq(Piece)) /\ last.open \in Seq(Piece)
  BY <1>7 DEF WrapState
<1>10. /\ laidOut \in Seq(Seq(Piece)) /\ laidOut # <<>>
       /\ \A k \in DOMAIN laidOut : Cells(laidOut[k]) <= width
       /\ FlattenSeq(laidOut) = PiecesOf(last)
  <2>1. CASE last.open # <<>> \/ last.out = <<>>
    <3>1. laidOut = Append(last.out, last.open)
      BY <2>1, <1>8
    <3>2. FlattenSeq(laidOut) = FlattenSeq(last.out) \o last.open
      BY <3>1, <1>9, FlatOfMore
    <3>3. ASSUME NEW k \in DOMAIN laidOut
          PROVE  \/ k \in DOMAIN last.out /\ laidOut[k] = last.out[k]
                 \/ laidOut[k] = last.open
      BY <3>1, <1>9
    <3>4. laidOut \in Seq(Seq(Piece)) /\ laidOut # <<>>
      BY <3>1, <1>9
    <3>5. \A k \in DOMAIN laidOut : Cells(laidOut[k]) <= width
      BY <3>3, <1>7 DEF Fits
    <3> QED
      BY <3>2, <3>4, <3>5 DEF PiecesOf
  <2>2. CASE ~(last.open # <<>> \/ last.out = <<>>)
    <3>1. laidOut = last.out /\ last.open = <<>> /\ laidOut # <<>>
      BY <2>2, <1>8
    <3>2. FlattenSeq(last.out) \in Seq(Piece)
      BY <1>9, FlatIsSeq
    <3>3. FlattenSeq(last.out) \o <<>> = FlattenSeq(last.out)
      BY <3>2
    <3> QED
      BY <3>1, <3>3, <1>7, <1>9 DEF Fits, PiecesOf
  <2> QED
    BY <2>1, <2>2
<1> QED
  BY <1>6, <1>10 DEF N

\* So no text is cut short, whatever its words and the width.
LEMMA WholeWrap ==
    ASSUME NEW words \in Seq(Nat), NEW width \in Nat \ {0}
    PROVE  WrapsWhole(words, width)
<1> DEFINE laidOut == Wrap(words, width)
           pieces == FlattenSeq(laidOut)
<1>1. /\ \A k \in DOMAIN laidOut : Cells(laidOut[k]) <= width
      /\ LaidUpTo(pieces, Len(words), words)
  <2> HIDE DEF laidOut
  <2> QED
    BY WrapIs DEF laidOut
<1>2. ASSUME NEW i \in DOMAIN words
      PROVE  Total([k \in DOMAIN pieces |-> IF pieces[k].word = i THEN pieces[k].cells ELSE 0])
                = words[i]
  <2> HIDE DEF pieces
  <2>1. pieces \in Seq(Piece) /\ i \in Nat /\ i \in 1 .. Len(words)
    BY <1>1 DEF LaidUpTo
  <2>2. CellsOfWord(pieces, i)
           = Total([k \in DOMAIN pieces |-> IF pieces[k].word = i THEN pieces[k].cells ELSE 0])
    BY <2>1, WordsAreCounted
  <2> QED
    BY <2>1, <2>2, <1>1 DEF LaidUpTo
<1>3. \A j, k \in DOMAIN pieces : j < k => pieces[j].word <= pieces[k].word
  BY <1>1 DEF LaidUpTo
<1> HIDE DEF laidOut, pieces
<1> QED
  BY <1>1, <1>2, <1>3 DEF WrapsWhole, laidOut, pieces

\* A way to read sequences that takes one after the other to one after the other.
Reads(H, S, V) ==
    /\ H \in Maps(Seq(S), Seq(V))
    /\ H[<<>>] = <<>>
    /\ \A s, t \in Seq(S) : H[s \o t] = H[s] \o H[t]

Weighs(H, S) ==
    /\ H \in Maps(Seq(S), Nat)
    /\ H[<<>>] = 0
    /\ \A s, t \in Seq(S) : H[s \o t] = H[s] + H[t]

\* What goes along with joining two goes along with joining many.
LEMMA ReadsFlat ==
    ASSUME NEW S, NEW V, NEW H, Reads(H, S, V), NEW ss \in Seq(Seq(S))
    PROVE  H[FlattenSeq(ss)] = FlattenSeq(Mapped(H, ss))
<1> DEFINE T == {tt \in Seq(Seq(S)) : H[FlattenSeq(tt)] = FlattenSeq(Mapped(H, tt))}
<1>1. <<>> \in T
  <2>1. Mapped(H, <<>>) = <<>> /\ H[<<>>] = <<>>
    BY MappedOfNone DEF Reads
  <2> QED
    BY <2>1, FlatOfNone
<1>2. ASSUME NEW tt \in Seq(Seq(S)), NEW x \in Seq(S), tt \in T
      PROVE  Append(tt, x) \in T
  <2>1. FlattenSeq(Append(tt, x)) = FlattenSeq(tt) \o x /\ FlattenSeq(tt) \in Seq(S)
    BY FlatOfMore, FlatIsSeq
  <2>2. H[FlattenSeq(tt) \o x] = H[FlattenSeq(tt)] \o H[x]
    BY <2>1 DEF Reads
  <2>3. Mapped(H, Append(tt, x)) = Append(Mapped(H, tt), H[x])
    <3> DEFINE W == Seq(S)
    <3>1. tt \in Seq(W) /\ x \in W
      OBVIOUS
    <3> HIDE DEF W
    <3> QED
      BY <3>1, MappedOfMore
  <2>4. Mapped(H, tt) \in Seq(Seq(V)) /\ H[x] \in Seq(V)
    <3> DEFINE W == Seq(S)
               M == Seq(V)
    <3>1. tt \in Seq(W) /\ x \in W /\ H \in Maps(W, M)
      BY DEF Reads
    <3> HIDE DEF W, M
    <3>2. Mapped(H, tt) \in Seq(M) /\ H[x] \in M
      BY <3>1, MappedIsSeq DEF Maps
    <3> QED
      BY <3>2 DEF M
  <2>5. FlattenSeq(Append(Mapped(H, tt), H[x])) = FlattenSeq(Mapped(H, tt)) \o H[x]
    BY <2>4, FlatOfMore
  <2>6. H[FlattenSeq(tt)] = FlattenSeq(Mapped(H, tt)) /\ Append(tt, x) \in Seq(Seq(S))
    BY <1>2
  <2>7. H[FlattenSeq(Append(tt, x))] = FlattenSeq(Mapped(H, Append(tt, x)))
    BY <2>1, <2>2, <2>3, <2>5, <2>6
  <2> QED
    BY <2>6, <2>7
<1> DEFINE W == Seq(S)
<1>3. \A tt \in Seq(W) : \A x \in W : tt \in T => Append(tt, x) \in T
  BY <1>2
<1> HIDE DEF T, W
<1>4. \A tt \in Seq(W) : tt \in T
  BY <1>1, <1>3, Growing
<1> QED
  BY <1>4 DEF T, W

\* And so does what adds up.
LEMMA WeighsFlat ==
    ASSUME NEW S, NEW H, Weighs(H, S), NEW ss \in Seq(Seq(S))
    PROVE  H[FlattenSeq(ss)] = Total(Mapped(H, ss))
<1> DEFINE T == {tt \in Seq(Seq(S)) : H[FlattenSeq(tt)] = Total(Mapped(H, tt))}
<1>1. <<>> \in T
  <2>1. Mapped(H, <<>>) = <<>> /\ H[<<>>] = 0
    BY MappedOfNone DEF Weighs
  <2> QED
    BY <2>1, FlatOfNone, TotalOfNone
<1>2. ASSUME NEW tt \in Seq(Seq(S)), NEW x \in Seq(S), tt \in T
      PROVE  Append(tt, x) \in T
  <2>1. FlattenSeq(Append(tt, x)) = FlattenSeq(tt) \o x /\ FlattenSeq(tt) \in Seq(S)
    BY FlatOfMore, FlatIsSeq
  <2>2. H[FlattenSeq(tt) \o x] = H[FlattenSeq(tt)] + H[x]
    BY <2>1 DEF Weighs
  <2>3. Mapped(H, Append(tt, x)) = Append(Mapped(H, tt), H[x])
    <3> DEFINE W == Seq(S)
    <3>1. tt \in Seq(W) /\ x \in W
      OBVIOUS
    <3> HIDE DEF W
    <3> QED
      BY <3>1, MappedOfMore
  <2>4. Mapped(H, tt) \in Seq(Nat) /\ H[x] \in Nat
    <3> DEFINE W == Seq(S)
               M == Nat
    <3>1. tt \in Seq(W) /\ x \in W /\ H \in Maps(W, M)
      BY DEF Weighs
    <3> HIDE DEF W, M
    <3>2. Mapped(H, tt) \in Seq(M) /\ H[x] \in M
      BY <3>1, MappedIsSeq DEF Maps
    <3> QED
      BY <3>2 DEF M
  <2>5. Total(Append(Mapped(H, tt), H[x])) = Total(Mapped(H, tt)) + H[x]
    BY <2>4, TotalOfMore
  <2>6. H[FlattenSeq(tt)] = Total(Mapped(H, tt)) /\ Append(tt, x) \in Seq(Seq(S))
    BY <1>2
  <2>7. H[FlattenSeq(Append(tt, x))] = Total(Mapped(H, Append(tt, x)))
    BY <2>1, <2>2, <2>3, <2>5, <2>6
  <2> QED
    BY <2>6, <2>7
<1> DEFINE W == Seq(S)
<1>3. \A tt \in Seq(W) : \A x \in W : tt \in T => Append(tt, x) \in T
  BY <1>2
<1> HIDE DEF T, W
<1>4. \A tt \in Seq(W) : tt \in T
  BY <1>1, <1>3, Growing
<1> QED
  BY <1>4 DEF T, W

\* Elements read one by one, and their readings joined or added up.
Each(G, S) == [s \in Seq(S) |-> FlattenSeq(Mapped(G, s))]
Sum(G, S) == [s \in Seq(S) |-> Total(Mapped(G, s))]

\* Reading every element, one after the other, goes along with joining.
LEMMA EachReads ==
    ASSUME NEW S, NEW V, NEW G \in Maps(S, Seq(V))
    PROVE  Reads(Each(G, S), S, V)
<1>1. ASSUME NEW s \in Seq(S)
      PROVE  Mapped(G, s) \in Seq(Seq(V)) /\ FlattenSeq(Mapped(G, s)) \in Seq(V)
  <2>1. Mapped(G, s) \in Seq(Seq(V))
    BY MappedIsSeq
  <2> QED
    BY <2>1, FlatIsSeq
<1>2. Each(G, S) \in Maps(Seq(S), Seq(V))
  BY <1>1 DEF Each, Maps
<1>3. Each(G, S)[<<>>] = <<>>
  <2>1. <<>> \in Seq(S)
    OBVIOUS
  <2> QED
    BY <2>1, MappedOfNone, FlatOfNone DEF Each
<1>4. ASSUME NEW s \in Seq(S), NEW t \in Seq(S)
      PROVE  Each(G, S)[s \o t] = Each(G, S)[s] \o Each(G, S)[t]
  <2>1. s \o t \in Seq(S)
    OBVIOUS
  <2>2. Mapped(G, s \o t) = Mapped(G, s) \o Mapped(G, t)
    BY MappedOfBoth
  <2>3. FlattenSeq(Mapped(G, s) \o Mapped(G, t))
           = FlattenSeq(Mapped(G, s)) \o FlattenSeq(Mapped(G, t))
    BY <1>1, FlatOfBoth
  <2> QED
    BY <2>1, <2>2, <2>3 DEF Each
<1> QED
  BY <1>2, <1>3, <1>4 DEF Reads

\* Weighing every element adds up.
LEMMA SumWeighs ==
    ASSUME NEW S, NEW G \in Maps(S, Nat)
    PROVE  Weighs(Sum(G, S), S)
<1>1. ASSUME NEW s \in Seq(S)
      PROVE  Mapped(G, s) \in Seq(Nat) /\ Total(Mapped(G, s)) \in Nat
  <2>1. Mapped(G, s) \in Seq(Nat)
    BY MappedIsSeq
  <2> QED
    BY <2>1, TotalIsNat
<1>2. Sum(G, S) \in Maps(Seq(S), Nat)
  BY <1>1 DEF Sum, Maps
<1>3. Sum(G, S)[<<>>] = 0
  <2>1. <<>> \in Seq(S)
    OBVIOUS
  <2> QED
    BY <2>1, MappedOfNone, TotalOfNone DEF Sum
<1>4. ASSUME NEW s \in Seq(S), NEW t \in Seq(S)
      PROVE  Sum(G, S)[s \o t] = Sum(G, S)[s] + Sum(G, S)[t]
  <2>1. s \o t \in Seq(S)
    OBVIOUS
  <2>2. Mapped(G, s \o t) = Mapped(G, s) \o Mapped(G, t)
    BY MappedOfBoth
  <2>3. Total(Mapped(G, s) \o Mapped(G, t)) = Total(Mapped(G, s)) + Total(Mapped(G, t))
    BY <1>1, TotalOfBoth
  <2> QED
    BY <2>1, <2>2, <2>3 DEF Sum
<1> QED
  BY <1>2, <1>3, <1>4 DEF Weighs

-----------------------------------------------------------------------------
(* What a document tells.                                                  *)

\* What both kinds of surface call wrapping, and adding up, is Text's.
LEMMA PullsText ==
    /\ \A s : P!FlattenSeq(s) = FlattenSeq(s)
    /\ \A s : P!Total(s) = Total(s)
    /\ \A s : P!CellsOf(s) = CellsOf(s)
    /\ \A s : P!Cells(s) = Cells(s)
    /\ \A s, n : P!Wrap(s, n) = Wrap(s, n)
    /\ \A s, n : P!WrapsWhole(s, n) <=> WrapsWhole(s, n)
    /\ \A S : P!Max(S) = Max(S)
    /\ \A s : P!Range(s) = Range(s)
<1>1. \A S : P!Max(S) = Max(S)
  BY DEF P!Max, Max
<1>2. \A s : P!FlattenSeq(s) = FlattenSeq(s)
  BY DEF P!FlattenSeq, FlattenSeq
<1>3. \A s : P!Total(s) = Total(s)
  BY <1>1 DEF P!Total, P!FoldLeft, P!MapThenFoldSet, Total, FoldLeft, MapThenFoldSet, P!Max, Max
<1>4. \A s : P!CellsOf(s) = CellsOf(s)
  BY <1>3 DEF P!CellsOf, CellsOf
<1>5. \A s : P!Cells(s) = Cells(s)
  BY <1>4 DEF P!Cells, Cells
<1>6. \A s, n : P!Wrap(s, n) = Wrap(s, n)
  BY DEF P!Wrap, P!FoldLeftDomain, P!FoldLeft, P!MapThenFoldSet, P!Max, P!Cut, P!Placed, P!Cells, P!CellsOf, P!Total,
         Wrap, FoldLeftDomain, FoldLeft, MapThenFoldSet, Max, Cut, Placed, Cells, CellsOf, Total
<1>7. \A s, n : P!WrapsWhole(s, n) <=> WrapsWhole(s, n)
  BY <1>2, <1>3, <1>5, <1>6 DEF P!WrapsWhole, WrapsWhole
<1>8. \A s : P!Range(s) = Range(s)
  BY DEF P!Range, Range
<1> QED
  BY <1>1, <1>2, <1>3, <1>4, <1>5, <1>6, <1>7, <1>8
\* What the shell's panels call wrapping, and adding up, is Text's.
LEMMA PanelsText ==
    /\ \A s : F!FlattenSeq(s) = FlattenSeq(s)
    /\ \A s : F!Total(s) = Total(s)
    /\ \A s : F!CellsOf(s) = CellsOf(s)
    /\ \A s : F!Cells(s) = Cells(s)
    /\ \A s, n : F!Wrap(s, n) = Wrap(s, n)
    /\ \A S : F!Max(S) = Max(S) /\ F!Min(S) = Min(S)
<1>1. \A S : F!Max(S) = Max(S) /\ F!Min(S) = Min(S)
  BY DEF F!Max, Max, F!Min, Min
<1>2. \A s : F!FlattenSeq(s) = FlattenSeq(s)
  BY DEF F!FlattenSeq, FlattenSeq
<1>3. \A s : F!Total(s) = Total(s)
  BY <1>1 DEF F!Total, F!FoldLeft, F!MapThenFoldSet, Total, FoldLeft, MapThenFoldSet, F!Max, Max
<1>4. \A s : F!CellsOf(s) = CellsOf(s)
  BY <1>3 DEF F!CellsOf, CellsOf
<1>5. \A s : F!Cells(s) = Cells(s)
  BY <1>4 DEF F!Cells, Cells
<1>6. \A s, n : F!Wrap(s, n) = Wrap(s, n)
  BY DEF F!Wrap, F!FoldLeftDomain, F!FoldLeft, F!MapThenFoldSet, F!Max, F!Cut, F!Placed, F!Cells, F!CellsOf, F!Total,
         Wrap, FoldLeftDomain, FoldLeft, MapThenFoldSet, Max, Cut, Placed, Cells, CellsOf, Total
<1> QED
  BY <1>1, <1>2, <1>3, <1>4, <1>5, <1>6

\* The lines of a document: those that tell something, and those that count
\* checks.
TextParts == {"title", "body", "prose", "place", "comment"}
SilentParts == {"blank", "status", "review", "labels", "no description", "no events"}
CheckParts == {"checks", "run", "unlisted"}
Outcomes == {"failed", "pending", "passed", "skipped"}
Verdicts == {"danger", "success", "muted", "warning"}

EventLine == [part: {"event"}, shows: Seq(Nat)]
TextLine == [part: TextParts, shows: Seq(Piece)]
SilentLine == [part: SilentParts, shows: {Nothing}]
CheckLine == [part: {"checks"}, shows: [Outcomes -> Nat]] \cup [part: {"run"}, shows: Verdicts]
             \cup [part: {"unlisted"}, shows: Nat]
PlainLine == EventLine \cup TextLine \cup SilentLine
DocLine == PlainLine \cup CheckLine

EventsOn == [l \in DocLine |-> IF l.part = "event" THEN l.shows ELSE <<>>]
CellsOn == [l \in DocLine |-> IF l.part \in TextParts THEN CellsOf(l.shows) ELSE 0]
EventsIn(doc) == Each(EventsOn, DocLine)[doc]
CellsIn(doc) == Sum(CellsOn, DocLine)[doc]

LEMMA OnALine ==
    /\ EventsOn \in Maps(DocLine, Seq(Nat))
    /\ CellsOn \in Maps(DocLine, Nat)
<1>1. ASSUME NEW l \in DocLine
      PROVE  /\ (IF l.part = "event" THEN l.shows ELSE <<>>) \in Seq(Nat)
             /\ (IF l.part \in TextParts THEN CellsOf(l.shows) ELSE 0) \in Nat
  <2>1. l \in EventLine => l.part = "event" /\ l.part \notin TextParts /\ l.shows \in Seq(Nat)
    BY DEF EventLine, TextParts
  <2>2. l \in TextLine => l.part # "event" /\ l.part \in TextParts /\ l.shows \in Seq(Piece)
    BY DEF TextLine, TextParts
  <2>3. l \in SilentLine \cup CheckLine => l.part # "event" /\ l.part \notin TextParts
    BY DEF SilentLine, CheckLine, SilentParts, TextParts
  <2>4. l.shows \in Seq(Piece) => CellsOf(l.shows) \in Nat
    BY CellsIsNat
  <2> QED
    BY <2>1, <2>2, <2>3, <2>4 DEF DocLine, PlainLine
<1> QED
  BY <1>1 DEF EventsOn, CellsOn, Maps

\* Reading the events of lines, and weighing their text, go along with joining.
LEMMA InReads ==
    /\ Reads(Each(EventsOn, DocLine), DocLine, Nat)
    /\ Weighs(Sum(CellsOn, DocLine), DocLine)
<1>1. Reads(Each(EventsOn, DocLine), DocLine, Nat)
  BY OnALine, EachReads
<1>2. Weighs(Sum(CellsOn, DocLine), DocLine)
  BY OnALine, SumWeighs
<1> QED
  BY <1>1, <1>2

\* Lines of S tell of these events, with so many cells of text.
Tells(doc, S, events, cells) ==
    /\ S \subseteq DocLine /\ doc \in Seq(S) /\ doc \in Seq(DocLine)
    /\ events \in Seq(Nat) /\ cells \in Nat
    /\ EventsIn(doc) = events /\ CellsIn(doc) = cells

LEMMA NothingTells ==
    ASSUME NEW S \in SUBSET DocLine
    PROVE  Tells(<<>>, S, <<>>, 0)
<1>1. EventsIn(<<>>) = <<>> /\ CellsIn(<<>>) = 0
  BY InReads DEF Reads, Weighs, EventsIn, CellsIn
<1> QED
  BY <1>1 DEF Tells

\* Two stretches of a document tell together what each tells.
LEMMA BothTell ==
    ASSUME NEW S, NEW d, NEW e, NEW c, Tells(d, S, e, c),
           NEW d2, NEW e2, NEW c2, Tells(d2, S, e2, c2)
    PROVE  Tells(d \o d2, S, e \o e2, c + c2)
<1>1. d \in Seq(DocLine) /\ d2 \in Seq(DocLine)
  BY DEF Tells
<1>2. EventsIn(d \o d2) = EventsIn(d) \o EventsIn(d2)
  BY <1>1, InReads DEF Reads, EventsIn
<1>3. CellsIn(d \o d2) = CellsIn(d) + CellsIn(d2)
  BY <1>1, InReads DEF Weighs, CellsIn
<1>4. d \o d2 \in Seq(S) /\ d \o d2 \in Seq(DocLine) /\ e \o e2 \in Seq(Nat) /\ c + c2 \in Nat
  BY DEF Tells
<1> QED
  BY <1>2, <1>3, <1>4 DEF Tells

\* A line tells the events and the cells on it.
LEMMA OneTells ==
    ASSUME NEW S \in SUBSET DocLine, NEW l \in S
    PROVE  Tells(<<l>>, S, EventsOn[l], CellsOn[l])
<1>1. l \in DocLine /\ EventsOn[l] \in Seq(Nat) /\ CellsOn[l] \in Nat
  BY OnALine DEF Maps
<1>2. EventsIn(<<l>>) = EventsOn[l]
  <2>1. Mapped(EventsOn, <<l>>) = <<EventsOn[l]>>
    BY DEF Mapped
  <2>2. EventsIn(<<l>>) = FlattenSeq(Mapped(EventsOn, <<l>>))
    BY <1>1 DEF EventsIn, Each
  <2> QED
    BY <1>1, <2>1, <2>2, FlatOfOne
<1>3. CellsIn(<<l>>) = CellsOn[l]
  <2>1. Mapped(CellsOn, <<l>>) = <<CellsOn[l]>>
    BY DEF Mapped
  <2>2. CellsIn(<<l>>) = Total(Mapped(CellsOn, <<l>>))
    BY <1>1 DEF CellsIn, Sum
  <2> QED
    BY <1>1, <2>1, <2>2, TotalOfOne
<1> QED
  BY <1>1, <1>2, <1>3 DEF Tells

\* Many stretches tell together what each tells.
LEMMA AllTell ==
    ASSUME NEW S, NEW n \in Nat, NEW ds, NEW es, NEW cs,
           DOMAIN ds = 1 .. n, DOMAIN es = 1 .. n, DOMAIN cs = 1 .. n,
           ds = [k \in 1 .. n |-> ds[k]], es = [k \in 1 .. n |-> es[k]],
           cs = [k \in 1 .. n |-> cs[k]], S \subseteq DocLine,
           \A k \in 1 .. n : Tells(ds[k], S, es[k], cs[k])
    PROVE  Tells(FlattenSeq(ds), S, FlattenSeq(es), Total(cs))
<1>1. /\ ds \in Seq(Seq(S)) /\ ds \in Seq(Seq(DocLine))
      /\ es \in Seq(Seq(Nat)) /\ cs \in Seq(Nat)
      /\ \A k \in 1 .. n : EventsIn(ds[k]) = es[k] /\ CellsIn(ds[k]) = cs[k]
  <2>1. \A k \in 1 .. n : /\ ds[k] \in Seq(S) /\ ds[k] \in Seq(DocLine)
                          /\ es[k] \in Seq(Nat) /\ cs[k] \in Nat
                          /\ EventsIn(ds[k]) = es[k] /\ CellsIn(ds[k]) = cs[k]
    BY DEF Tells
  <2> DEFINE A == Seq(S)
             B == Seq(DocLine)
             C == Seq(Nat)
  <2>2. \A k \in 1 .. n : ds[k] \in A /\ ds[k] \in B /\ es[k] \in C
    BY <2>1
  <2> HIDE DEF A, B, C
  <2>3. ds \in Seq(A)
    BY <2>2
  <2>4. ds \in Seq(B)
    BY <2>2
  <2>5. es \in Seq(C)
    BY <2>2
  <2>6. cs \in Seq(Nat)
    BY <2>1
  <2> QED
    BY <2>1, <2>3, <2>4, <2>5, <2>6 DEF A, B, C
<1>2. FlattenSeq(ds) \in Seq(S) /\ FlattenSeq(ds) \in Seq(DocLine)
      /\ FlattenSeq(es) \in Seq(Nat) /\ Total(cs) \in Nat
  BY <1>1, FlatIsSeq, TotalIsNat
<1>3. EventsIn(FlattenSeq(ds)) = FlattenSeq(es)
  <2> DEFINE H == Each(EventsOn, DocLine)
  <2>1. Reads(H, DocLine, Nat)
    BY InReads
  <2>2. \A k \in 1 .. n : H[ds[k]] = es[k]
    BY <1>1 DEF EventsIn
  <2> HIDE DEF H
  <2>3. H[FlattenSeq(ds)] = FlattenSeq(Mapped(H, ds))
    BY <1>1, <2>1, ReadsFlat
  <2>4. Mapped(H, ds) = es
    BY <2>2 DEF Mapped
  <2> QED
    BY <2>3, <2>4 DEF EventsIn, H
<1>4. CellsIn(FlattenSeq(ds)) = Total(cs)
  <2> DEFINE H == Sum(CellsOn, DocLine)
  <2>1. Weighs(H, DocLine)
    BY InReads
  <2>2. \A k \in 1 .. n : H[ds[k]] = cs[k]
    BY <1>1 DEF CellsIn
  <2> HIDE DEF H
  <2>3. H[FlattenSeq(ds)] = Total(Mapped(H, ds))
    BY <1>1, <2>1, WeighsFlat
  <2>4. Mapped(H, ds) = cs
    BY <2>2 DEF Mapped
  <2> QED
    BY <2>3, <2>4 DEF CellsIn, H
<1> QED
  BY <1>2, <1>3, <1>4 DEF Tells

\* Of a line by its kind.
LEMMA LineTells ==
    /\ \A at \in Seq(Nat) : Tells(<<P!Line("event", at)>>, PlainLine, at, 0)
    /\ \A part \in TextParts, pieces \in Seq(Piece) :
          Tells(<<P!Line(part, pieces)>>, PlainLine, <<>>, CellsOf(pieces))
    /\ \A part \in SilentParts : Tells(<<P!Line(part, Nothing)>>, PlainLine, <<>>, 0)
<1>0. PlainLine \in SUBSET DocLine
  BY DEF DocLine
<1>1. ASSUME NEW at \in Seq(Nat)
      PROVE  Tells(<<P!Line("event", at)>>, PlainLine, at, 0)
  <2> DEFINE l == P!Line("event", at)
  <2>1. l \in PlainLine /\ l.part = "event" /\ l.shows = at
    BY DEF P!Line, PlainLine, EventLine
  <2>2. EventsOn[l] = at /\ CellsOn[l] = 0
    BY <1>0, <2>1 DEF EventsOn, CellsOn, TextParts
  <2> HIDE DEF l
  <2>3. Tells(<<l>>, PlainLine, EventsOn[l], CellsOn[l])
    BY <1>0, <2>1, OneTells
  <2> QED
    BY <2>2, <2>3 DEF l
<1>2. ASSUME NEW part \in TextParts, NEW line \in Seq(Piece)
      PROVE  Tells(<<P!Line(part, line)>>, PlainLine, <<>>, CellsOf(line))
  <2> DEFINE l == P!Line(part, line)
  <2>1. l \in PlainLine /\ l.part = part /\ l.shows = line /\ part # "event"
    BY DEF P!Line, PlainLine, TextLine, TextParts
  <2>2. EventsOn[l] = <<>> /\ CellsOn[l] = CellsOf(line)
    BY <1>0, <2>1 DEF EventsOn, CellsOn
  <2> HIDE DEF l
  <2>3. Tells(<<l>>, PlainLine, EventsOn[l], CellsOn[l])
    BY <1>0, <2>1, OneTells
  <2> QED
    BY <2>2, <2>3 DEF l
<1>3. ASSUME NEW part \in SilentParts
      PROVE  Tells(<<P!Line(part, Nothing)>>, PlainLine, <<>>, 0)
  <2> DEFINE l == P!Line(part, Nothing)
  <2>1. l \in PlainLine /\ l.part = part /\ part # "event" /\ part \notin TextParts
    BY DEF P!Line, PlainLine, SilentLine, SilentParts, TextParts
  <2>2. EventsOn[l] = <<>> /\ CellsOn[l] = 0
    BY <1>0, <2>1 DEF EventsOn, CellsOn
  <2> HIDE DEF l
  <2>3. Tells(<<l>>, PlainLine, EventsOn[l], CellsOn[l])
    BY <1>0, <2>1, OneTells
  <2> QED
    BY <2>2, <2>3 DEF l
<1> QED
  BY <1>1, <1>2, <1>3

LEMMA FlatOfEmpties ==
    ASSUME NEW n \in Nat
    PROVE  FlattenSeq([k \in 1 .. n |-> <<>>]) = <<>>
<1> DEFINE S == {<<>>}
           T == {ss \in Seq(S) : FlattenSeq(ss) = <<>>}
<1>1. <<>> \in T
  BY FlatOfNone
<1>2. ASSUME NEW ss \in Seq(S), NEW s \in S, ss \in T
      PROVE  Append(ss, s) \in T
  <2> DEFINE V == Seq({})
  <2>1. s = <<>> /\ S \subseteq V /\ s \in V
    OBVIOUS
  <2> HIDE DEF V, S
  <2>1a. ss \in Seq(V)
    BY <2>1
  <2>2. ss \in Seq(Seq({})) /\ s \in Seq({})
    BY <2>1, <2>1a DEF V
  <2>3. FlattenSeq(Append(ss, s)) = FlattenSeq(ss) \o s
    BY <2>2, FlatOfMore
  <2>4. <<>> \o <<>> = <<>>
    OBVIOUS
  <2> QED
    BY <1>2, <2>1, <2>3, <2>4 DEF S
<1> DEFINE all == [k \in 1 .. n |-> <<>>]
<1>3. all \in Seq(S)
  OBVIOUS
<1>4. \A ss \in Seq(S) : \A s \in S : ss \in T => Append(ss, s) \in T
  BY <1>2
<1> HIDE DEF S, T, all
<1>5. all \in T
  BY <1>1, <1>3, <1>4, Growing
<1> QED
  BY <1>5 DEF T, all

LEMMA CellsOfFlat ==
    ASSUME NEW rows \in Seq(Seq(Piece))
    PROVE  CellsOf(FlattenSeq(rows)) = Total([k \in DOMAIN rows |-> CellsOf(rows[k])])
<1> DEFINE H == [p \in Seq(Piece) |-> CellsOf(p)]
<1>1. Weighs(H, Piece)
  <2>1. \A p \in Seq(Piece) : CellsOf(p) \in Nat
    BY CellsIsNat
  <2>2. H \in Maps(Seq(Piece), Nat)
    BY <2>1 DEF Maps
  <2>3. H[<<>>] = 0
    BY CellsOfNone
  <2>4. \A p, q \in Seq(Piece) : H[p \o q] = H[p] + H[q]
    <3>1. \A p, q \in Seq(Piece) : p \o q \in Seq(Piece) /\ CellsOf(p \o q) = CellsOf(p) + CellsOf(q)
      BY CellsOfBoth
    <3> QED
      BY <3>1
  <2> HIDE DEF H
  <2> QED
    BY <2>2, <2>3, <2>4 DEF Weighs
<1>2. Mapped(H, rows) = [k \in DOMAIN rows |-> CellsOf(rows[k])]
  <2>1. \A k \in DOMAIN rows : rows[k] \in Seq(Piece)
    OBVIOUS
  <2> QED
    BY <2>1 DEF Mapped
<1>3. FlattenSeq(rows) \in Seq(Piece)
  BY FlatIsSeq
<1>4. H[FlattenSeq(rows)] = CellsOf(FlattenSeq(rows))
  BY <1>3
<1> HIDE DEF H
<1>5. H[FlattenSeq(rows)] = Total(Mapped(H, rows))
  BY <1>1, WeighsFlat
<1> QED
  BY <1>2, <1>4, <1>5

\* Like AllTell, of texts alone.
LEMMA AllTexts ==
    ASSUME NEW n \in Nat, NEW ds, NEW cs,
           DOMAIN ds = 1 .. n, DOMAIN cs = 1 .. n,
           ds = [k \in 1 .. n |-> ds[k]], cs = [k \in 1 .. n |-> cs[k]],
           \A k \in 1 .. n : Tells(ds[k], PlainLine, <<>>, cs[k])
    PROVE  Tells(FlattenSeq(ds), PlainLine, <<>>, Total(cs))
<1> DEFINE es == [k \in 1 .. n |-> <<>>]
<1>1. DOMAIN es = 1 .. n /\ es = [k \in 1 .. n |-> es[k]] /\ PlainLine \subseteq DocLine
  BY DEF DocLine
<1>2. \A k \in 1 .. n : Tells(ds[k], PlainLine, es[k], cs[k])
  OBVIOUS
<1>3. FlattenSeq(es) = <<>>
  BY FlatOfEmpties
<1> HIDE DEF es
<1>4. Tells(FlattenSeq(ds), PlainLine, FlattenSeq(es), Total(cs))
  BY <1>1, <1>2, AllTell
<1> QED
  BY <1>3, <1>4

Roomy(width) == width \in Nat /\ width >= 40

LEMMA IndentIs ==
    ASSUME NEW width, Roomy(width), NEW indent \in {0, 2, 4}
    PROVE  width - indent \in Nat \ {0} /\ P!Max({1, width - indent}) = width - indent
<1>1. width - indent \in Nat \ {0} /\ width - indent >= 1
  BY DEF Roomy
<1>2. \A y \in {1, width - indent} : y <= width - indent
  BY <1>1
<1>3. {1, width - indent} \subseteq Int
  BY <1>1
<1> QED
  BY <1>1, <1>2, <1>3, MaxIs, PullsText

\* A wrapped text tells no event and all its cells.
LEMMA WrappedTells ==
    ASSUME NEW width, Roomy(width), NEW indent \in {0, 2, 4},
           NEW part \in TextParts, NEW text \in Seq(Nat)
    PROVE  Tells(P!Wrapped(part, text, indent, width), PlainLine, <<>>, Total(text))
<1> DEFINE room == width - indent
           rows == Wrap(text, room)
           ds == [k \in DOMAIN rows |-> <<P!Line(part, rows[k])>>]
           cs == [k \in DOMAIN rows |-> CellsOf(rows[k])]
           doc == [k \in DOMAIN rows |-> P!Line(part, rows[k])]
<1>1. P!Wrapped(part, text, indent, width) = doc
  BY IndentIs, PullsText DEF P!Wrapped
<1>2. rows \in Seq(Seq(Piece)) /\ CellsOf(FlattenSeq(rows)) = Total(text)
  <2>1. room \in Nat \ {0}
    BY IndentIs
  <2> HIDE DEF room
  <2> QED
    BY <2>1, WrapIs
<1> HIDE DEF rows
<1>3. Len(rows) \in Nat /\ DOMAIN rows = 1 .. Len(rows) /\ \A k \in DOMAIN rows : rows[k] \in Seq(Piece)
  BY <1>2
<1>4. \A k \in 1 .. Len(rows) : Tells(ds[k], PlainLine, <<>>, cs[k])
  BY <1>3, LineTells
<1>5. /\ DOMAIN ds = 1 .. Len(rows) /\ DOMAIN cs = 1 .. Len(rows)
      /\ ds = [k \in 1 .. Len(rows) |-> ds[k]] /\ cs = [k \in 1 .. Len(rows) |-> cs[k]]
  BY <1>3
<1>6. Total(cs) = Total(text)
  BY <1>2, CellsOfFlat
<1>7. FlattenSeq(ds) = doc
  <2>1. doc \in Seq({doc[k] : k \in DOMAIN doc}) /\ DOMAIN doc = DOMAIN rows
    BY <1>3
  <2>2. ds = [k \in DOMAIN doc |-> <<doc[k]>>]
    BY <2>1
  <2> HIDE DEF ds, doc
  <2> QED
    BY <2>1, <2>2, FlatOfSingles
<1> HIDE DEF ds, cs, doc
<1>8. Tells(FlattenSeq(ds), PlainLine, <<>>, Total(cs))
  BY <1>3, <1>4, <1>5, AllTexts
<1> QED
  BY <1>1, <1>6, <1>7, <1>8

\* What texts come to.
CellsOfTexts(texts) == Total([k \in DOMAIN texts |-> Total(texts[k])])

\* So do the paragraphs of a comment.
LEMMA ProseTells ==
    ASSUME NEW width, Roomy(width), NEW indent \in {0, 2, 4},
           NEW part \in TextParts, NEW texts \in Seq(Seq(Nat))
    PROVE  Tells(P!Prose(part, texts, indent, width), PlainLine, <<>>, CellsOfTexts(texts))
<1> DEFINE ds == [k \in DOMAIN texts |-> IF texts[k] = <<>> THEN P!Blank
                                         ELSE P!Wrapped(part, texts[k], indent, width)]
           cs == [k \in DOMAIN texts |-> Total(texts[k])]
           n == Len(texts)
<1>1. n \in Nat /\ DOMAIN texts = 1 .. n /\ \A k \in 1 .. n : texts[k] \in Seq(Nat)
  OBVIOUS
<1>2. ASSUME NEW k \in 1 .. n
      PROVE  Tells(ds[k], PlainLine, <<>>, cs[k])
  <2>1. CASE texts[k] = <<>>
    <3>1. Tells(P!Blank, PlainLine, <<>>, 0)
      BY LineTells DEF P!Blank, SilentParts
    <3> QED
      BY <1>1, <2>1, <3>1, TotalOfNone
  <2>2. CASE texts[k] # <<>>
    <3>1. Tells(P!Wrapped(part, texts[k], indent, width), PlainLine, <<>>, Total(texts[k]))
      BY <1>1, WrappedTells
    <3> QED
      BY <1>1, <2>2, <3>1
  <2> QED
    BY <2>1, <2>2
<1>3. /\ DOMAIN ds = 1 .. n /\ DOMAIN cs = 1 .. n
      /\ ds = [k \in 1 .. n |-> ds[k]] /\ cs = [k \in 1 .. n |-> cs[k]]
  BY <1>1
<1>4. P!Prose(part, texts, indent, width) = FlattenSeq(ds) /\ CellsOfTexts(texts) = Total(cs)
  BY PullsText DEF P!Prose, CellsOfTexts
<1> HIDE DEF ds, cs, n
<1>5. Tells(FlattenSeq(ds), PlainLine, <<>>, Total(cs))
  BY <1>1, <1>2, <1>3, AllTexts
<1> QED
  BY <1>4, <1>5

CellsOfThread(thread) == Total(thread.place) + CellsOfTexts(thread.comments)
CellsOfThreads(threads) == Total([k \in DOMAIN threads |-> CellsOfThread(threads[k])])
CellsOfEvent(e) == CellsOfTexts(e.text) + CellsOfThreads(e.threads)

\* A review thread tells its path and every comment.
LEMMA ThreadTells ==
    ASSUME NEW width, Roomy(width), NEW thread \in P!Thread
    PROVE  Tells(P!ThreadLines(thread, width), PlainLine, <<>>, CellsOfThread(thread))
<1> DEFINE comments == thread.comments
           ds == [k \in DOMAIN comments |-> P!Wrapped("comment", comments[k], 4, width)]
           cs == [k \in DOMAIN comments |-> Total(comments[k])]
           n == Len(comments)
           place == P!Wrapped("place", thread.place, 2, width)
<1>0. thread.place \in Seq(Nat) /\ comments \in Seq(Seq(Nat)) /\ {"place", "comment"} \subseteq TextParts
  BY DEF P!Thread, TextParts
<1>1. n \in Nat /\ DOMAIN comments = 1 .. n /\ \A k \in 1 .. n : comments[k] \in Seq(Nat)
  BY <1>0
<1>2. \A k \in 1 .. n : Tells(ds[k], PlainLine, <<>>, cs[k])
  BY <1>0, <1>1, WrappedTells
<1>3. /\ DOMAIN ds = 1 .. n /\ DOMAIN cs = 1 .. n
      /\ ds = [k \in 1 .. n |-> ds[k]] /\ cs = [k \in 1 .. n |-> cs[k]]
  BY <1>1
<1>4. Tells(place, PlainLine, <<>>, Total(thread.place))
  BY <1>0, WrappedTells
<1>5. P!ThreadLines(thread, width) = place \o FlattenSeq(ds)
      /\ CellsOfThread(thread) = Total(thread.place) + Total(cs)
  BY PullsText DEF P!ThreadLines, CellsOfThread, CellsOfTexts
<1> HIDE DEF ds, cs, n, place
<1>6. Tells(FlattenSeq(ds), PlainLine, <<>>, Total(cs))
  BY <1>1, <1>2, <1>3, AllTexts
<1>7. Tells(place \o FlattenSeq(ds), PlainLine, <<>> \o <<>>, Total(thread.place) + Total(cs))
  BY <1>4, <1>6, BothTell
<1>8. <<>> \o <<>> = <<>>
  OBVIOUS
<1> QED
  BY <1>5, <1>7, <1>8

\* The event of a headline; a thread has none.
Headline(events, i) == IF events[i].kind = "ReviewThread" THEN <<>> ELSE <<i>>

\* An event of the timeline tells itself and its own text.
LEMMA EventTells ==
    ASSUME NEW width, Roomy(width), NEW events \in Seq(P!Event), NEW i \in DOMAIN events
    PROVE  Tells(P!EventLines(events, i, width), PlainLine,
                 Headline(events, i), CellsOfEvent(events[i]))
<1> DEFINE ev == events[i]
           threads == ev.threads
           n == Len(threads)
           ds == [k \in DOMAIN threads |-> P!ThreadLines(threads[k], width)]
           cs == [k \in DOMAIN threads |-> CellsOfThread(threads[k])]
           head == IF ev.kind = "ReviewThread" THEN <<>> ELSE <<P!Line("event", <<i>>)>>
           prose == P!Prose("prose", ev.text, 2, width)
           foot == IF ev.kind \in P!Substantive THEN P!Blank ELSE <<>>
<1>0. ev \in P!Event /\ i \in Nat /\ PlainLine \in SUBSET DocLine
  BY DEF DocLine
<1>1. ev.text \in Seq(Seq(Nat)) /\ threads \in Seq(P!Thread) /\ "prose" \in TextParts
  BY <1>0 DEF P!Event, TextParts
<1>2. n \in Nat /\ DOMAIN threads = 1 .. n /\ \A k \in 1 .. n : threads[k] \in P!Thread
  BY <1>1
<1>3. \A k \in 1 .. n : Tells(ds[k], PlainLine, <<>>, cs[k])
  BY <1>2, ThreadTells
<1>4. /\ DOMAIN ds = 1 .. n /\ DOMAIN cs = 1 .. n
      /\ ds = [k \in 1 .. n |-> ds[k]] /\ cs = [k \in 1 .. n |-> cs[k]]
  BY <1>2
<1>5. Tells(head, PlainLine, Headline(events, i), 0)
  <2>1. <<i>> \in Seq(Nat)
    BY <1>0
  <2>2. Tells(<<P!Line("event", <<i>>)>>, PlainLine, <<i>>, 0)
    BY <2>1, LineTells
  <2> QED
    BY <1>0, <2>2, NothingTells DEF Headline
<1>6. Tells(prose, PlainLine, <<>>, CellsOfTexts(ev.text))
  BY <1>1, ProseTells
<1>7. Tells(foot, PlainLine, <<>>, 0)
  BY <1>0, LineTells, NothingTells DEF P!Blank, SilentParts
<1>8. /\ P!EventLines(events, i, width) = head \o prose \o FlattenSeq(ds) \o foot
      /\ CellsOfEvent(ev) = CellsOfTexts(ev.text) + Total(cs)
  BY PullsText DEF P!EventLines, CellsOfEvent, CellsOfThreads
<1> HIDE DEF ds, cs, n, head, prose, foot, threads
<1>9. Tells(FlattenSeq(ds), PlainLine, <<>>, Total(cs))
  BY <1>2, <1>3, <1>4, AllTexts
<1> DEFINE h == Headline(events, i)
           a == CellsOfTexts(ev.text)
           b == Total(cs)
<1>10. a \in Nat /\ b \in Nat /\ h \in Seq(Nat)
  BY <1>5, <1>6, <1>9 DEF Tells
<1> HIDE DEF h, a, b, ev
<1>11. Tells(head \o prose, PlainLine, h \o <<>>, 0 + a)
  BY <1>5, <1>6, BothTell DEF h, a
<1>12. Tells(head \o prose \o FlattenSeq(ds), PlainLine, (h \o <<>>) \o <<>>, 0 + a + b)
  BY <1>9, <1>11, BothTell DEF b
<1>13. Tells(head \o prose \o FlattenSeq(ds) \o foot, PlainLine, ((h \o <<>>) \o <<>>) \o <<>>, 0 + a + b + 0)
  BY <1>7, <1>12, BothTell
<1>14. ((h \o <<>>) \o <<>>) \o <<>> = h /\ 0 + a + b + 0 = a + b
  BY <1>10
<1> QED
  BY <1>8, <1>13, <1>14 DEF h, a, b, ev

Minor(events) == {i \in DOMAIN events : events[i].kind \notin P!Substantive}
GoodEntry(events) ==
    {e \in [events: Seq(Nat), folded: BOOLEAN] :
        IF e.folded THEN e.events \in Seq(Minor(events))
        ELSE \E i \in DOMAIN events : e.events = <<i>>}
OfEntry(events) == [e \in GoodEntry(events) |-> e.events]
Numbered(entries, events) == Each(OfEntry(events), GoodEntry(events))[entries]
UpTo(n) == [i \in 1 .. n |-> i]

\* The events that entries stand for, one entry after the other.
LEMMA NumberedReads ==
    ASSUME NEW events
    PROVE  Reads(Each(OfEntry(events), GoodEntry(events)), GoodEntry(events), Nat)
<1> DEFINE G == GoodEntry(events)
           O == OfEntry(events)
<1>1. O \in Maps(G, Seq(Nat))
  BY DEF Maps, OfEntry, GoodEntry
<1> HIDE DEF G, O
<1>2. Reads(Each(O, G), G, Nat)
  BY <1>1, EachReads
<1> QED
  BY <1>2 DEF G, O

LEMMA OneNumbered ==
    ASSUME NEW events, NEW e \in GoodEntry(events)
    PROVE  Numbered(<<e>>, events) = e.events /\ e.events \in Seq(Nat)
<1>1. e.events \in Seq(Nat)
  BY DEF GoodEntry
<1>2. Numbered(<<e>>, events) = FlattenSeq(Mapped(OfEntry(events), <<e>>))
  BY DEF Numbered, Each
<1>3. Mapped(OfEntry(events), <<e>>) = <<e.events>>
  BY DEF Mapped, OfEntry
<1> QED
  BY <1>1, <1>2, <1>3, FlatOfOne

LEMMA BothNumbered ==
    ASSUME NEW events, NEW a \in Seq(GoodEntry(events)), NEW b \in Seq(GoodEntry(events))
    PROVE  Numbered(a \o b, events) = Numbered(a, events) \o Numbered(b, events)
           /\ Numbered(a, events) \in Seq(Nat)
<1>1. Numbered(a, events) \in Seq(Nat)
  BY NumberedReads DEF Numbered, Reads, Maps
<1>2. Numbered(a \o b, events) = Numbered(a, events) \o Numbered(b, events)
  BY NumberedReads DEF Numbered, Reads
<1> QED
  BY <1>1, <1>2

\* The minor events are some of all.
LEMMA MinorsAre ==
    ASSUME NEW S, NEW events \in Seq(S)
    PROVE  Minor(events) \subseteq Nat /\ DOMAIN events \subseteq Nat
BY DEF Minor

\* Events one by one, each an entry.
LEMMA SinglesNumbered ==
    ASSUME NEW S, NEW events \in Seq(S), NEW run \in Seq(DOMAIN events)
    PROVE  LET singles == [k \in DOMAIN run |-> P!Entry(<<run[k]>>, FALSE)] IN
           singles \in Seq(GoodEntry(events)) /\ Numbered(singles, events) = run
<1> DEFINE G == GoodEntry(events)
           singles == [k \in DOMAIN run |-> P!Entry(<<run[k]>>, FALSE)]
<1>1. ASSUME NEW k \in DOMAIN run
      PROVE  P!Entry(<<run[k]>>, FALSE) \in G /\ P!Entry(<<run[k]>>, FALSE).events = <<run[k]>>
  <2>1. run[k] \in DOMAIN events /\ run[k] \in Nat
    BY MinorsAre
  <2>2. <<run[k]>> \in Seq(Nat)
    BY <2>1
  <2> QED
    BY <2>1, <2>2 DEF P!Entry, GoodEntry
<1> HIDE DEF G
<1>2. singles \in Seq(G) /\ DOMAIN singles = DOMAIN run
  <2> DEFINE D == DOMAIN events
  <2>1. run \in Seq(D)
    OBVIOUS
  <2> HIDE DEF D
  <2>2. Len(run) \in Nat /\ DOMAIN run = 1 .. Len(run)
    BY <2>1
  <2>3. DOMAIN singles = 1 .. Len(run) /\ \A k \in 1 .. Len(run) : singles[k] \in G
    BY <1>1, <2>2
  <2>4. singles \in [1 .. Len(run) -> G]
    BY <2>3
  <2> HIDE DEF singles
  <2> QED
    BY <2>2, <2>3, <2>4, MappingIsSeq
<1>3. Mapped(OfEntry(events), singles) = [k \in DOMAIN run |-> <<run[k]>>]
  BY <1>1 DEF Mapped, OfEntry, G
<1>4. FlattenSeq([k \in DOMAIN run |-> <<run[k]>>]) = run
  BY FlatOfSingles
<1>5. Numbered(singles, events) = run
  BY <1>2, <1>3, <1>4 DEF Numbered, Each, G
<1> QED
  BY <1>2, <1>5 DEF G

\* A flushed run is one entry of its events.
LEMMA FlushIs ==
    ASSUME NEW S, NEW events \in Seq(S), NEW entries \in Seq(GoodEntry(events)),
           NEW run \in Seq(Minor(events))
    PROVE  LET r == P!Flush(entries, run) IN
           r \in Seq(GoodEntry(events)) /\ Numbered(r, events) = Numbered(entries, events) \o run
<1>1. run \in Seq(Nat) /\ run \in Seq(DOMAIN events)
  <2>1. Minor(events) \subseteq Nat /\ Minor(events) \subseteq DOMAIN events
    BY MinorsAre DEF Minor
  <2> QED
    BY <2>1
<1>2. CASE Len(run) >= FoldMin
  <2> DEFINE e == P!Entry(run, TRUE)
  <2>1. e \in GoodEntry(events) /\ e.events = run
    BY <1>1 DEF P!Entry, GoodEntry
  <2>2. P!Flush(entries, run) = Append(entries, e)
    BY <1>2 DEF P!Flush
  <2> HIDE DEF e
  <2>3. Append(entries, e) = entries \o <<e>> /\ <<e>> \in Seq(GoodEntry(events))
        /\ Append(entries, e) \in Seq(GoodEntry(events))
    BY <2>1, AppendIsJoin
  <2>4. Numbered(entries \o <<e>>, events) = Numbered(entries, events) \o Numbered(<<e>>, events)
    BY <2>3, BothNumbered
  <2>5. Numbered(<<e>>, events) = run
    BY <2>1, OneNumbered
  <2> QED
    BY <2>2, <2>3, <2>4, <2>5
<1>3. CASE ~(Len(run) >= FoldMin)
  <2> DEFINE singles == [k \in DOMAIN run |-> P!Entry(<<run[k]>>, FALSE)]
  <2>1. singles \in Seq(GoodEntry(events)) /\ Numbered(singles, events) = run
    BY <1>1, SinglesNumbered
  <2>2. P!Flush(entries, run) = entries \o singles
    BY <1>3 DEF P!Flush
  <2> HIDE DEF singles
  <2>3. Numbered(entries \o singles, events) = Numbered(entries, events) \o Numbered(singles, events)
    BY <2>1, BothNumbered
  <2>4. entries \o singles \in Seq(GoodEntry(events))
    BY <2>1
  <2> QED
    BY <2>1, <2>2, <2>3, <2>4
<1> QED
  BY <1>2, <1>3

FoldState(events) == [out: Seq(GoodEntry(events)), run: Seq(Minor(events))]
FoldBase == [out |-> <<>>, run |-> <<>>]
Folded(acc, i, events) ==
    IF events[i].kind \in P!Substantive
    THEN [out |-> Append(P!Flush(acc.out, acc.run), P!Entry(<<i>>, FALSE)), run |-> <<>>]
    ELSE [acc EXCEPT !.run = Append(@, i)]
FoldStep(events) ==
    [p \in (1 .. Len(events)) \X FoldState(events) |-> Folded(p[2], p[1], events)]
\* What has come out, and what is held back.
Gathered(acc, events) == Numbered(acc.out, events) \o acc.run

\* Every event is gathered next after those before it, folded or not.
LEMMA FoldedIs ==
    ASSUME NEW S, NEW events \in Seq(S), NEW acc \in FoldState(events), NEW i \in DOMAIN events
    PROVE  LET r == Folded(acc, i, events) IN
           r \in FoldState(events) /\ Gathered(r, events) = Append(Gathered(acc, events), i)
<1>1. /\ acc.out \in Seq(GoodEntry(events)) /\ acc.run \in Seq(Minor(events)) /\ i \in Nat
      /\ acc.run \in Seq(Nat)
  <2>1. Minor(events) \subseteq Nat
    BY MinorsAre
  <2>2. acc.out \in Seq(GoodEntry(events)) /\ acc.run \in Seq(Minor(events)) /\ i \in Nat
    BY DEF FoldState
  <2> QED
    BY <2>1, <2>2
<1>2. Numbered(acc.out, events) \in Seq(Nat)
  BY <1>1, BothNumbered
<1>3. CASE events[i].kind \in P!Substantive
  <2> DEFINE e == P!Entry(<<i>>, FALSE)
             f == P!Flush(acc.out, acc.run)
             r == [out |-> Append(f, e), run |-> <<>>]
  <2>1. e \in GoodEntry(events) /\ e.events = <<i>>
    <3>1. <<i>> \in Seq(Nat)
      BY <1>1
    <3> QED
      BY <3>1 DEF P!Entry, GoodEntry
  <2>2. Folded(acc, i, events) = r
    BY <1>3 DEF Folded
  <2>3. f \in Seq(GoodEntry(events)) /\ Numbered(f, events) = Numbered(acc.out, events) \o acc.run
    BY <1>1, FlushIs
  <2> HIDE DEF e, f
  <2>4. Append(f, e) = f \o <<e>> /\ <<e>> \in Seq(GoodEntry(events))
        /\ Append(f, e) \in Seq(GoodEntry(events))
    BY <2>1, <2>3, AppendIsJoin
  <2>5. Numbered(f \o <<e>>, events) = Numbered(f, events) \o Numbered(<<e>>, events)
    BY <2>3, <2>4, BothNumbered
  <2>6. Numbered(<<e>>, events) = <<i>>
    BY <2>1, OneNumbered
  <2>7. r.out = Append(f, e) /\ r.run = <<>> /\ r \in FoldState(events)
    BY <2>4 DEF FoldState
  <2>8. Gathered(r, events) = ((Numbered(acc.out, events) \o acc.run) \o <<i>>) \o <<>>
    BY <2>3, <2>4, <2>5, <2>6, <2>7 DEF Gathered
  <2>9. Gathered(acc, events) = Numbered(acc.out, events) \o acc.run
    BY DEF Gathered
  <2> HIDE DEF r
  <2> DEFINE g == Gathered(acc, events)
  <2>10. g \in Seq(Nat)
    BY <1>1, <1>2, <2>9
  <2> HIDE DEF g
  <2>11. (g \o <<i>>) \o <<>> = Append(g, i)
    BY <1>1, <2>10
  <2> QED
    BY <2>2, <2>7, <2>8, <2>9, <2>11 DEF g
<1>4. CASE events[i].kind \notin P!Substantive
  <2> DEFINE r == [acc EXCEPT !.run = Append(@, i)]
  <2>1. Folded(acc, i, events) = r
    BY <1>4 DEF Folded
  <2>2. r \in FoldState(events) /\ r.out = acc.out /\ r.run = Append(acc.run, i)
    <3>1. Append(acc.run, i) \in Seq(Minor(events))
      BY <1>1, <1>4 DEF Minor
    <3> QED
      BY <1>1, <3>1 DEF FoldState
  <2> HIDE DEF r
  <2>3. Numbered(acc.out, events) \o Append(acc.run, i) = Append(Numbered(acc.out, events) \o acc.run, i)
    <3> DEFINE a == Numbered(acc.out, events)
               b == acc.run
    <3>1. a \in Seq(Nat) /\ b \in Seq(Nat) /\ i \in Nat
      BY <1>1, <1>2
    <3> HIDE DEF a, b
    <3>2. a \o Append(b, i) = Append(a \o b, i)
      BY <3>1, AppendOfBoth
    <3> QED
      BY <3>2 DEF a, b
  <2> QED
    BY <2>1, <2>2, <2>3 DEF Gathered
<1> QED
  BY <1>3, <1>4

\* Folding takes one event after the other.
LEMMA FoldingIs ==
    ASSUME NEW S, NEW events \in Seq(S)
    PROVE  \E f : /\ IsTrace(f, Len(events), FoldState(events), FoldBase, FoldStep(events))
                  /\ P!Folding(events) = f[Len(events)]
<1> DEFINE N == Len(events)
           Z == FoldState(events)
           step == FoldStep(events)
           Op(acc, i) == IF events[i].kind \in P!Substantive
                         THEN [out |-> Append(P!Flush(acc.out, acc.run), P!Entry(<<i>>, FALSE)),
                               run |-> <<>>]
                         ELSE [acc EXCEPT !.run = Append(@, i)]
           idx == [i \in DOMAIN events |-> i]
           fold == CHOOSE f : f = [t \in SUBSET DOMAIN idx |->
                                     IF t = {} THEN [out |-> <<>>, run |-> <<>>]
                                     ELSE Op(f[t \ {P!Max(t)}], idx[P!Max(t)])]
<1>1. P!Folding(events) = fold[DOMAIN idx]
  BY DEF P!Folding, P!FoldLeftDomain, P!FoldLeft, P!MapThenFoldSet
<1>2. DOMAIN idx = 1 .. N /\ N \in Nat /\ DOMAIN events = 1 .. N
  OBVIOUS
<1>3. step \in Steps(N, Z) /\ FoldBase \in Z
  <2>1. FoldBase \in Z
    BY DEF FoldBase, FoldState
  <2>2. \A i \in 1 .. N, acc \in Z : Folded(acc, i, events) \in Z
    BY <1>2, FoldedIs
  <2>3. step \in Steps(N, Z)
    BY <2>2 DEF FoldStep, Steps
  <2> QED
    BY <2>1, <2>3
<1>4. \A k \in 1 .. N, acc \in Z : step[<<k, acc>>] = Op(acc, k)
  BY DEF FoldStep, Folded
<1>5. FoldBase = [out |-> <<>>, run |-> <<>>] /\ \A t : P!Max(t) = Max(t)
  BY PullsText DEF FoldBase
<1> HIDE DEF step, N, Z, Op
<1>6. fold = [t \in SUBSET (1 .. N) |->
                 IF t = {} THEN FoldBase ELSE Op(fold[t \ {Max(t)}], Max(t))]
  <2>1. PICK run : IsRun(run, N, Z, FoldBase, step)
    BY <1>2, <1>3, FoldExists
  <2>2. ASSUME NEW t \in SUBSET (1 .. N), t # {}
        PROVE  /\ step[<<Max(t), run[t \ {Max(t)}]>>] = Op(run[t \ {Max(t)}], Max(t))
               /\ idx[Max(t)] = Max(t)
    <3>1. t \subseteq 0 .. N
      BY <1>2
    <3>2. Max(t) \in 1 .. N
      BY <1>2, <2>2, <3>1, MaxOfSome
    <3>3. run[t \ {Max(t)}] \in Z
      BY <2>1 DEF IsRun
    <3> QED
      BY <3>2, <3>3, <1>2, <1>4
  <2> HIDE DEF idx
  <2>3. run = [t \in SUBSET DOMAIN idx |->
                 IF t = {} THEN [out |-> <<>>, run |-> <<>>]
                 ELSE Op(run[t \ {P!Max(t)}], idx[P!Max(t)])]
    BY <2>1, <2>2, <1>2, <1>5 DEF IsRun
  <2>4. fold = [t \in SUBSET DOMAIN idx |->
                 IF t = {} THEN [out |-> <<>>, run |-> <<>>]
                 ELSE Op(fold[t \ {P!Max(t)}], idx[P!Max(t)])]
    BY <2>3
  <2> HIDE DEF fold
  <2> QED
    BY <2>2, <2>4, <1>2, <1>5
<1> HIDE DEF fold, idx
<1>7. fold[{}] = FoldBase
  BY <1>6
<1>8. Follows(fold, N, Z, step)
  <2>1. ASSUME NEW k \in 1 .. N
        PROVE  fold[1 .. k] = Op(fold[1 .. k - 1], k)
    <3>1. /\ 1 .. k \in SUBSET (1 .. N) /\ 1 .. k # {}
          /\ Max(1 .. k) = k /\ (1 .. k) \ {Max(1 .. k)} = 1 .. k - 1
      BY <1>2, FirstNumbers
    <3>2. fold[1 .. k] = Op(fold[(1 .. k) \ {Max(1 .. k)}], Max(1 .. k))
      BY <3>1, <1>6
    <3> QED
      BY <3>1, <3>2
  <2> QED
    BY <2>1, <1>4 DEF Follows
<1>9. PICK f : IsTrace(f, N, Z, FoldBase, step) /\ f[N] = fold[1 .. N]
  BY <1>2, <1>3, <1>7, <1>8, FoldTrace
<1> QED
  BY <1>1, <1>2, <1>9 DEF N, Z, step

\* Folded or not, every event is in one entry, in its place.
LEMMA FoldIs ==
    ASSUME NEW S, NEW events \in Seq(S)
    PROVE  LET r == P!Fold(events) IN
           r \in Seq(GoodEntry(events)) /\ Numbered(r, events) = UpTo(Len(events))
<1> DEFINE N == Len(events)
           Z == FoldState(events)
<1>0. N \in Nat /\ DOMAIN events = 1 .. N
  OBVIOUS
<1>1. PICK f : IsTrace(f, N, Z, FoldBase, FoldStep(events)) /\ P!Folding(events) = f[N]
  BY FoldingIs
<1> DEFINE T == {k \in Nat : k <= N => Gathered(f[k], events) = UpTo(k)}
<1>2. 0 \in T
  <2>1. f[0] = FoldBase
    BY <1>1 DEF IsTrace
  <2>2. Numbered(<<>>, events) = <<>>
    BY NumberedReads DEF Numbered, Reads
  <2>3. UpTo(0) = <<>> /\ <<>> \o <<>> = <<>>
    BY DEF UpTo
  <2>4. FoldBase.out = <<>> /\ FoldBase.run = <<>>
    BY DEF FoldBase
  <2> QED
    BY <2>1, <2>2, <2>3, <2>4 DEF Gathered
<1>3. ASSUME NEW m \in Nat, m \in T
      PROVE  m + 1 \in T
  <2>1. CASE m + 1 <= N
    <3>1. m \in 0 .. N /\ m + 1 \in 1 .. N /\ (m + 1) - 1 = m
      BY <2>1, <1>0
    <3>2. f[m] \in Z /\ f[m + 1] = FoldStep(events)[<<m + 1, f[m]>>]
      BY <3>1, <1>1 DEF IsTrace
    <3>3. f[m + 1] = Folded(f[m], m + 1, events)
      BY <3>1, <3>2 DEF FoldStep
    <3>4. Gathered(f[m + 1], events) = Append(Gathered(f[m], events), m + 1)
      BY <1>0, <3>1, <3>2, <3>3, FoldedIs
    <3>5. Gathered(f[m], events) = UpTo(m)
      BY <1>3, <3>1
    <3>6. Append(UpTo(m), m + 1) = UpTo(m + 1)
      BY DEF UpTo
    <3> QED
      BY <3>4, <3>5, <3>6
  <2>2. CASE ~(m + 1 <= N)
    BY <2>2
  <2> QED
    BY <2>1, <2>2
<1> HIDE DEF T
<1>4. \A m \in Nat : m \in T
  BY <1>2, <1>3, Counting
<1>5. Gathered(f[N], events) = UpTo(N)
  BY <1>0, <1>4 DEF T
<1>6. f[N] \in Z
  BY <1>0, <1>1 DEF IsTrace
<1>7. f[N].out \in Seq(GoodEntry(events)) /\ f[N].run \in Seq(Minor(events))
  BY <1>6 DEF FoldState
<1> DEFINE out == f[N].out
           run == f[N].run
<1>8. P!Fold(events) = P!Flush(out, run)
  BY <1>1 DEF P!Fold
<1>9. Numbered(out, events) \o run = UpTo(N)
  BY <1>5 DEF Gathered
<1> HIDE DEF out, run
<1>10. /\ P!Flush(out, run) \in Seq(GoodEntry(events))
       /\ Numbered(P!Flush(out, run), events) = Numbered(out, events) \o run
  BY <1>7, FlushIs DEF out, run
<1> QED
  BY <1>8, <1>9, <1>10

LEMMA SeqOfMore ==
    ASSUME NEW S, NEW T, S \subseteq T, NEW s \in Seq(S)
    PROVE  s \in Seq(T)
OBVIOUS

Headlines(events) == [i \in DOMAIN events |-> Headline(events, i)]
EventCells(events) == [i \in DOMAIN events |-> CellsOfEvent(events[i])]

\* Only an event a reader would stop at has prose or threads.
MinorIsMute(events) ==
    \A i \in DOMAIN events : events[i].kind \notin P!Substantive =>
        events[i].text = <<>> /\ events[i].threads = <<>>

LEMMA EventIs ==
    ASSUME NEW events \in Seq(P!Event)
    PROVE  /\ Headlines(events) \in Maps(DOMAIN events, Seq(Nat))
           /\ EventCells(events) \in Maps(DOMAIN events, Nat)
<1>1. 40 \in Nat /\ Roomy(40)
  BY DEF Roomy
<1>2. ASSUME NEW i \in DOMAIN events
      PROVE  Headline(events, i) \in Seq(Nat) /\ CellsOfEvent(events[i]) \in Nat
  BY <1>1, EventTells DEF Tells
<1> QED
  BY <1>2 DEF Maps, Headlines, EventCells

\* A folded run has a headline for each of its events, and no text.
LEMMA RunIs ==
    ASSUME NEW events \in Seq(P!Event), MinorIsMute(events), NEW run \in Seq(Minor(events))
    PROVE  /\ Each(Headlines(events), DOMAIN events)[run] = run
           /\ Sum(EventCells(events), DOMAIN events)[run] = 0
<1> DEFINE D == DOMAIN events
           H == Headlines(events)
           C == EventCells(events)
<1>1. Minor(events) \subseteq D /\ Minor(events) \subseteq Nat /\ D \subseteq Nat
  BY MinorsAre DEF Minor
<1>2. ASSUME NEW i \in Minor(events)
      PROVE  H[i] = <<i>> /\ C[i] = 0
  <2>1. i \in D /\ events[i].kind \notin P!Substantive
    BY DEF Minor
  <2>2. H[i] = <<i>>
    BY <2>1 DEF Headlines, Headline, P!Substantive
  <2>3. events[i].text = <<>> /\ events[i].threads = <<>>
    BY <2>1 DEF MinorIsMute
  <2>4. CellsOfTexts(<<>>) = 0 /\ CellsOfThreads(<<>>) = 0
    <3>1. CellsOfTexts(<<>>) = Total(<<>>)
      BY DEF CellsOfTexts
    <3>2. CellsOfThreads(<<>>) = Total(<<>>)
      BY DEF CellsOfThreads
    <3> QED
      BY <3>1, <3>2, TotalOfNone
  <2>5. C[i] = 0
    BY <2>1, <2>3, <2>4 DEF EventCells, CellsOfEvent
  <2> QED
    BY <2>2, <2>5
<1>3. H \in Maps(D, Seq(Nat)) /\ C \in Maps(D, Nat)
  BY EventIs
<1> HIDE DEF D, H, C
<1> DEFINE R == Minor(events)
<1>4. run \in Seq(R) /\ R \subseteq D /\ R \subseteq Nat
  BY <1>1
<1>5. \A k \in DOMAIN run : run[k] \in R /\ H[run[k]] = <<run[k]>> /\ C[run[k]] = 0
  BY <1>2
<1> HIDE DEF R
<1>6. run \in Seq(D) /\ run \in Seq(Nat)
  BY <1>4, SeqOfMore
<1>7. Each(H, D)[run] = run
  <2>1. Each(H, D)[run] = FlattenSeq(Mapped(H, run))
    BY <1>6 DEF Each
  <2>2. Mapped(H, run) = [k \in DOMAIN run |-> <<run[k]>>]
    BY <1>5 DEF Mapped
  <2>3. FlattenSeq([k \in DOMAIN run |-> <<run[k]>>]) = run
    BY <1>6, FlatOfSingles
  <2> QED
    BY <2>1, <2>2, <2>3
<1>8. Sum(C, D)[run] = 0
  <2>1. Sum(C, D)[run] = Total(Mapped(C, run))
    BY <1>6 DEF Sum
  <2>2. Mapped(C, run) \in Seq(Nat)
    BY <1>3, <1>6, MappedIsSeq
  <2>3. DOMAIN Mapped(C, run) = DOMAIN run /\ \A k \in DOMAIN run : Mapped(C, run)[k] = 0
    BY <1>5 DEF Mapped
  <2>4. Total(Mapped(C, run)) = 0
    BY <2>2, <2>3, TotalOfZeros
  <2> QED
    BY <2>1, <2>4
<1> QED
  BY <1>7, <1>8 DEF H, C, D

\* An entry tells its events: one line for a fold, the lines of the event else.
LEMMA EntryTells ==
    ASSUME NEW events \in Seq(P!Event), MinorIsMute(events), NEW width, Roomy(width),
           NEW e \in GoodEntry(events)
    PROVE  /\ e.events \in Seq(DOMAIN events)
           /\ Tells(IF e.folded THEN <<P!Line("event", e.events)>>
                    ELSE P!EventLines(events, e.events[1], width),
                    PlainLine, Each(Headlines(events), DOMAIN events)[e.events],
                    Sum(EventCells(events), DOMAIN events)[e.events])
<1> DEFINE D == DOMAIN events
           H == Headlines(events)
           C == EventCells(events)
<1>1. CASE e.folded
  <2>1. e.events \in Seq(Minor(events)) /\ e.events \in Seq(Nat)
    BY <1>1 DEF GoodEntry
  <2>2. Tells(<<P!Line("event", e.events)>>, PlainLine, e.events, 0)
    BY <2>1, LineTells
  <2>3. e.events \in Seq(D)
    <3>1. Minor(events) \subseteq D
      BY DEF Minor
    <3> HIDE DEF D
    <3> QED
      BY <2>1, <3>1
  <2>4. /\ Each(Headlines(events), DOMAIN events)[e.events] = e.events
        /\ Sum(EventCells(events), DOMAIN events)[e.events] = 0
    BY <2>1, RunIs
  <2> QED
    BY <1>1, <2>2, <2>3, <2>4
<1>2. CASE ~e.folded
  <2>1. PICK i \in D : e.events = <<i>>
    BY <1>2 DEF GoodEntry
  <2>2. Tells(P!EventLines(events, i, width), PlainLine,
                 Headline(events, i), CellsOfEvent(events[i]))
    BY EventTells
  <2>3. H \in Maps(D, Seq(Nat)) /\ C \in Maps(D, Nat)
    BY EventIs
  <2>4. H[i] = Headline(events, i) /\ C[i] = CellsOfEvent(events[i])
    BY DEF Headlines, EventCells
  <2>5. Mapped(H, <<i>>) = <<H[i]>> /\ Mapped(C, <<i>>) = <<C[i]>>
    BY DEF Mapped
  <2> HIDE DEF D, H, C
  <2>6. <<i>> \in Seq(D) /\ H[i] \in Seq(Nat) /\ C[i] \in Nat
    BY <2>3 DEF Maps
  <2>7. Each(H, D)[<<i>>] = H[i]
    BY <2>5, <2>6, FlatOfOne DEF Each
  <2>8. Sum(C, D)[<<i>>] = C[i]
    BY <2>5, <2>6, TotalOfOne DEF Sum
  <2>9. e.events[1] = i
    BY <2>1
  <2> QED
    BY <1>2, <2>1, <2>2, <2>4, <2>6, <2>7, <2>8, <2>9 DEF D, H, C
<1> QED
  BY <1>1, <1>2

\* The timeline tells every event but the threads', in order, and all text.
LEMMA TimelineTells ==
    ASSUME NEW events \in Seq(P!Event), MinorIsMute(events), NEW width, Roomy(width), NEW all
    PROVE  Tells(P!Timeline(events, width, all), PlainLine,
                 FlattenSeq(Headlines(events)), Total(EventCells(events)))
<1> DEFINE N == Len(events)
           D == DOMAIN events
           H == Headlines(events)
           C == EventCells(events)
           G == GoodEntry(events)
<1>0. N \in Nat /\ D = 1 .. N
  OBVIOUS
<1>1. CASE events = <<>>
  <2>1. P!Timeline(events, width, all) = <<P!Line("no events", Nothing)>>
    BY <1>1 DEF P!Timeline
  <2>2. H = <<>> /\ C = <<>>
    BY <1>1 DEF Headlines, EventCells
  <2>3. Tells(<<P!Line("no events", Nothing)>>, PlainLine, <<>>, 0)
    BY LineTells DEF SilentParts
  <2> QED
    BY <2>1, <2>2, <2>3, FlatOfNone, TotalOfNone
<1>2. CASE events # <<>>
  <2> DEFINE entries == IF all THEN [i \in DOMAIN events |-> P!Entry(<<i>>, FALSE)]
                        ELSE P!Fold(events)
             ds == [k \in DOMAIN entries |->
                      IF entries[k].folded THEN <<P!Line("event", entries[k].events)>>
                      ELSE P!EventLines(events, entries[k].events[1], width)]
             ess == [k \in DOMAIN entries |-> entries[k].events]
             es == [k \in DOMAIN entries |-> Each(H, D)[entries[k].events]]
             cs == [k \in DOMAIN entries |-> Sum(C, D)[entries[k].events]]
             n == Len(entries)
  <2>1. P!Timeline(events, width, all) = FlattenSeq(ds)
    BY <1>2, PullsText DEF P!Timeline
  <2>2. entries \in Seq(G) /\ Numbered(entries, events) = UpTo(N)
    <3>1. CASE all
      <4> DEFINE run == UpTo(N)
      <4>1. run \in Seq(D) /\ DOMAIN run = D /\ \A k \in DOMAIN run : run[k] = k
        BY <1>0 DEF UpTo
      <4>2. entries = [k \in DOMAIN run |-> P!Entry(<<run[k]>>, FALSE)]
        BY <3>1, <4>1
      <4> HIDE DEF run, entries
      <4> QED
        BY <4>1, <4>2, SinglesNumbered DEF run
    <3>2. CASE ~all
      <4>1. entries = P!Fold(events)
        BY <3>2
      <4> HIDE DEF entries
      <4> QED
        BY <4>1, FoldIs
    <3> QED
      BY <3>1, <3>2
  <2> HIDE DEF entries
  <2>3. n \in Nat /\ DOMAIN entries = 1 .. n /\ \A k \in 1 .. n : entries[k] \in G
    BY <2>2
  <2>4. \A k \in 1 .. n : entries[k].events \in Seq(D) /\ Tells(ds[k], PlainLine, es[k], cs[k])
    BY <2>3, EntryTells
  <2>5. /\ DOMAIN ds = 1 .. n /\ DOMAIN es = 1 .. n /\ DOMAIN cs = 1 .. n
        /\ ds = [k \in 1 .. n |-> ds[k]] /\ es = [k \in 1 .. n |-> es[k]]
        /\ cs = [k \in 1 .. n |-> cs[k]] /\ PlainLine \subseteq DocLine
    BY <2>3 DEF DocLine
  <2>6. ess \in Seq(Seq(D)) /\ DOMAIN ess = 1 .. n /\ \A k \in 1 .. n : ess[k] = entries[k].events
    <3> DEFINE E == Seq(D)
    <3>1. \A k \in 1 .. n : ess[k] \in E
      BY <2>3, <2>4
    <3> HIDE DEF E
    <3>2. DOMAIN ess = 1 .. n /\ ess \in Seq(E)
      BY <2>3, <3>1
    <3> QED
      BY <3>2 DEF E
  <2>7. FlattenSeq(ess) = UpTo(N)
    <3>1. Mapped(OfEntry(events), entries) = ess
      BY <2>3 DEF Mapped, OfEntry
    <3> QED
      BY <2>2, <3>1 DEF Numbered, Each
  <2>8. UpTo(N) \in Seq(D) /\ H \in Maps(D, Seq(Nat)) /\ C \in Maps(D, Nat)
        /\ Mapped(H, UpTo(N)) = H /\ Mapped(C, UpTo(N)) = C
    <3>1. UpTo(N) \in Seq(D)
      BY <1>0 DEF UpTo
    <3>2. DOMAIN H = 1 .. N /\ DOMAIN C = 1 .. N /\ DOMAIN UpTo(N) = 1 .. N
          /\ \A k \in 1 .. N : UpTo(N)[k] = k
      BY <1>0 DEF Headlines, EventCells, UpTo
    <3>3. Mapped(H, UpTo(N)) = [i \in 1 .. N |-> H[i]] /\ Mapped(C, UpTo(N)) = [i \in 1 .. N |-> C[i]]
      BY <3>2 DEF Mapped
    <3>4. H = [i \in 1 .. N |-> H[i]] /\ C = [i \in 1 .. N |-> C[i]]
      BY <3>2 DEF Headlines, EventCells
    <3> QED
      BY <3>1, <3>3, <3>4, EventIs
  <2> HIDE DEF ds, n, D, H, C, ess
  <2>9. FlattenSeq(es) = FlattenSeq(H)
    <3>1. Reads(Each(H, D), D, Nat)
      BY <2>8, EachReads
    <3>2. Each(H, D)[FlattenSeq(ess)] = FlattenSeq(Mapped(Each(H, D), ess))
      BY <2>6, <3>1, ReadsFlat
    <3>3. Mapped(Each(H, D), ess) = es
      BY <2>3, <2>6 DEF Mapped
    <3>4. Each(H, D)[UpTo(N)] = FlattenSeq(H)
      BY <2>8 DEF Each
    <3> QED
      BY <2>7, <3>2, <3>3, <3>4
  <2>10. Total(cs) = Total(C)
    <3>1. Weighs(Sum(C, D), D)
      BY <2>8, SumWeighs
    <3>2. Sum(C, D)[FlattenSeq(ess)] = Total(Mapped(Sum(C, D), ess))
      BY <2>6, <3>1, WeighsFlat
    <3>3. Mapped(Sum(C, D), ess) = cs
      BY <2>3, <2>6 DEF Mapped
    <3>4. Sum(C, D)[UpTo(N)] = Total(C)
      BY <2>8 DEF Sum
    <3> QED
      BY <2>7, <3>2, <3>3, <3>4
  <2> HIDE DEF es, cs
  <2>11. Tells(FlattenSeq(ds), PlainLine, FlattenSeq(es), Total(cs))
    <3>1. n \in Nat
      BY <2>3
    <3> QED
      BY <2>4, <2>5, <3>1, AllTell
  <2> QED
    BY <2>1, <2>9, <2>10, <2>11 DEF H, C
<1> QED
  BY <1>1, <1>2

\* What lines of some parts show.
OfParts(parts) == [l \in DocLine |-> IF l.part \in parts THEN <<l.shows>> ELSE <<>>]
AnyShown == {l.shows : l \in DocLine}

LEMMA ShownIs ==
    ASSUME NEW doc \in Seq(DocLine), NEW parts
    PROVE  /\ P!Shown(doc, parts) = FlattenSeq(Mapped(OfParts(parts), doc))
           /\ P!Shown(doc, parts) = Each(OfParts(parts), DocLine)[doc]
<1>1. Mapped(OfParts(parts), doc)
         = [k \in DOMAIN doc |-> IF doc[k].part \in parts THEN <<doc[k].shows>> ELSE <<>>]
  <2>1. \A k \in DOMAIN doc : doc[k] \in DocLine
    OBVIOUS
  <2> QED
    BY <2>1 DEF Mapped, OfParts
<1>2. P!Shown(doc, parts) = FlattenSeq(Mapped(OfParts(parts), doc))
  BY <1>1, PullsText DEF P!Shown
<1> QED
  BY <1>2 DEF Each

\* What certain parts show goes along with joining.
LEMMA ShownReads ==
    ASSUME NEW parts
    PROVE  Reads(Each(OfParts(parts), DocLine), DocLine, AnyShown)
<1>1. OfParts(parts) \in Maps(DocLine, Seq(AnyShown))
  <2>1. ASSUME NEW l \in DocLine
        PROVE  (IF l.part \in parts THEN <<l.shows>> ELSE <<>>) \in Seq(AnyShown)
    <3>1. l.shows \in AnyShown
      BY DEF AnyShown
    <3> QED
      BY <3>1
  <2> QED
    BY <2>1 DEF Maps, OfParts
<1> QED
  BY <1>1, EachReads

LEMMA ShownOfBoth ==
    ASSUME NEW a \in Seq(DocLine), NEW b \in Seq(DocLine), NEW parts
    PROVE  /\ a \o b \in Seq(DocLine)
           /\ P!Shown(a \o b, parts) = P!Shown(a, parts) \o P!Shown(b, parts)
           /\ P!Shown(a, parts) \in Seq(AnyShown)
<1> DEFINE H == Each(OfParts(parts), DocLine)
<1>1. Reads(H, DocLine, AnyShown)
  BY ShownReads
<1>2. a \o b \in Seq(DocLine)
  OBVIOUS
<1>3. P!Shown(a \o b, parts) = H[a \o b] /\ P!Shown(a, parts) = H[a] /\ P!Shown(b, parts) = H[b]
  BY <1>2, ShownIs
<1> HIDE DEF H
<1>4. H[a \o b] = H[a] \o H[b] /\ H[a] \in Seq(AnyShown)
  BY <1>1 DEF Reads, Maps
<1> QED
  BY <1>2, <1>3, <1>4

\* Lines of one part: all, or none.
LEMMA ShownOfPart ==
    ASSUME NEW doc \in Seq(DocLine), NEW parts
    PROVE  /\ (\A k \in DOMAIN doc : doc[k].part \in parts) =>
                 P!Shown(doc, parts) = [k \in DOMAIN doc |-> doc[k].shows]
           /\ (\A k \in DOMAIN doc : doc[k].part \notin parts) => P!Shown(doc, parts) = <<>>
<1>0. Len(doc) \in Nat /\ DOMAIN doc = 1 .. Len(doc)
      /\ \A k \in DOMAIN doc : doc[k] \in DocLine
  OBVIOUS
<1>1. P!Shown(doc, parts) = FlattenSeq(Mapped(OfParts(parts), doc))
  BY ShownIs
<1>2. ASSUME \A k \in DOMAIN doc : doc[k].part \in parts
      PROVE  P!Shown(doc, parts) = [k \in DOMAIN doc |-> doc[k].shows]
  <2> DEFINE s == [k \in DOMAIN doc |-> doc[k].shows]
  <2>1. Mapped(OfParts(parts), doc) = [k \in DOMAIN s |-> <<s[k]>>]
    BY <1>0, <1>2 DEF Mapped, OfParts
  <2>2. s \in Seq(AnyShown)
    BY <1>0 DEF AnyShown
  <2> HIDE DEF s
  <2>3. FlattenSeq([k \in DOMAIN s |-> <<s[k]>>]) = s
    BY <2>2, FlatOfSingles
  <2> QED
    BY <1>1, <2>1, <2>3 DEF s
<1>3. ASSUME \A k \in DOMAIN doc : doc[k].part \notin parts
      PROVE  P!Shown(doc, parts) = <<>>
  <2>1. Mapped(OfParts(parts), doc) = [k \in 1 .. Len(doc) |-> <<>>]
    BY <1>0, <1>3 DEF Mapped, OfParts
  <2> QED
    BY <1>0, <1>1, <2>1, FlatOfEmpties
<1> QED
  BY <1>2, <1>3

LEMMA ShownOfPlain ==
    ASSUME NEW doc \in Seq(PlainLine), NEW parts, parts \subseteq CheckParts
    PROVE  P!Shown(doc, parts) = <<>>
<1>1. PlainLine \subseteq DocLine
  BY DEF DocLine
<1>2. doc \in Seq(DocLine)
  BY <1>1, SeqOfMore
<1>3. \A l \in PlainLine : l.part \notin CheckParts
  BY DEF PlainLine, EventLine, TextLine, SilentLine, CheckParts, TextParts, SilentParts
<1>4. \A k \in DOMAIN doc : doc[k].part \notin parts
  <2>1. \A k \in DOMAIN doc : doc[k] \in PlainLine
    OBVIOUS
  <2> QED
    BY <2>1, <1>3
<1> QED
  BY <1>2, <1>4, ShownOfPart

\* The events of a document, and the cells of its text, are those of its lines.
LEMMA EventsShown ==
    ASSUME NEW doc \in Seq(DocLine)
    PROVE  FlattenSeq(P!Shown(doc, {"event"})) = EventsIn(doc)
<1> DEFINE W == Seq(Nat)
           H == [ss \in Seq(W) |-> FlattenSeq(ss)]
           O == OfParts({"event"})
<1>1. Reads(H, W, Nat)
  <2>1. \A ss \in Seq(W) : FlattenSeq(ss) \in Seq(Nat)
    BY FlatIsSeq
  <2>2. H \in Maps(Seq(W), Seq(Nat))
    BY <2>1 DEF Maps
  <2>3. H[<<>>] = <<>>
    BY FlatOfNone
  <2>4. \A s, t \in Seq(W) : s \o t \in Seq(W) /\ FlattenSeq(s \o t) = FlattenSeq(s) \o FlattenSeq(t)
    <3>1. ASSUME NEW s \in Seq(W), NEW t \in Seq(W)
          PROVE  FlattenSeq(s \o t) = FlattenSeq(s) \o FlattenSeq(t)
      BY FlatOfBoth
    <3> HIDE DEF W
    <3> QED
      BY <3>1
  <2>5. \A s, t \in Seq(W) : H[s \o t] = H[s] \o H[t]
    BY <2>4
  <2> HIDE DEF H, W
  <2> QED
    BY <2>2, <2>3, <2>5 DEF Reads
<1>2. ASSUME NEW l \in DocLine
      PROVE  O[l] \in Seq(W) /\ H[O[l]] = EventsOn[l]
  <2>1. EventsOn[l] \in Seq(Nat)
    BY OnALine DEF Maps
  <2>2. CASE l.part = "event"
    <3>1. l.shows \in Seq(Nat) /\ O[l] = <<l.shows>> /\ EventsOn[l] = l.shows
      BY <2>1, <2>2 DEF EventsOn, OfParts
    <3>2. O[l] \in Seq(W)
      <4>1. l.shows \in W /\ O[l] = <<l.shows>>
        BY <3>1
      <4> HIDE DEF W, O
      <4> QED
        BY <4>1
    <3>3. FlattenSeq(<<l.shows>>) = l.shows
      BY <3>1, FlatOfOne
    <3> QED
      BY <3>1, <3>2, <3>3
  <2>3. CASE l.part # "event"
    <3>1. O[l] = <<>> /\ EventsOn[l] = <<>>
      BY <2>3 DEF EventsOn, OfParts
    <3>2. <<>> \in Seq(W)
      OBVIOUS
    <3> QED
      BY <3>1, <3>2, FlatOfNone
  <2> QED
    BY <2>2, <2>3
<1>3. O \in Maps(DocLine, Seq(W))
  BY <1>2 DEF Maps, OfParts
<1> DEFINE M == Seq(W)
<1>4. O \in Maps(DocLine, M)
  BY <1>3
<1> HIDE DEF H, O, W, M
<1>5. Mapped(O, doc) \in Seq(M)
  BY <1>4, MappedIsSeq
<1>6. Mapped(O, doc) \in Seq(Seq(W))
  BY <1>5 DEF M
<1>7. H[FlattenSeq(Mapped(O, doc))] = FlattenSeq(Mapped(H, Mapped(O, doc)))
  BY <1>1, <1>6, ReadsFlat
<1>8. Mapped(H, Mapped(O, doc)) = Mapped(EventsOn, doc)
  <2>1. \A k \in DOMAIN doc : doc[k] \in DocLine
    OBVIOUS
  <2> QED
    BY <1>2, <2>1 DEF Mapped
<1>9. P!Shown(doc, {"event"}) = FlattenSeq(Mapped(O, doc))
  BY ShownIs DEF O
<1>10. FlattenSeq(Mapped(O, doc)) \in Seq(W)
  BY <1>6, FlatIsSeq
<1>11. H[P!Shown(doc, {"event"})] = FlattenSeq(P!Shown(doc, {"event"}))
  BY <1>9, <1>10 DEF H
<1>12. EventsIn(doc) = FlattenSeq(Mapped(EventsOn, doc))
  BY DEF EventsIn, Each
<1> QED
  BY <1>7, <1>8, <1>9, <1>11, <1>12

\* The text shown weighs what its lines do.
LEMMA CellsShown ==
    ASSUME NEW doc \in Seq(DocLine)
    PROVE  CellsOf(P!TextShown(doc)) = CellsIn(doc)
<1> DEFINE W == Seq(Piece)
           H == [ss \in Seq(W) |-> CellsOf(FlattenSeq(ss))]
           O == OfParts(TextParts)
<1>0. \A ss \in Seq(W) : FlattenSeq(ss) \in Seq(Piece) /\ CellsOf(FlattenSeq(ss)) \in Nat
  BY FlatIsSeq, CellsIsNat
<1>1. Weighs(H, W)
  <2>2. H \in Maps(Seq(W), Nat)
    BY <1>0 DEF Maps
  <2>3. H[<<>>] = 0
    <3>1. <<>> \in Seq(W)
      OBVIOUS
    <3> QED
      BY <3>1, FlatOfNone, CellsOfNone
  <2>4. ASSUME NEW s \in Seq(W), NEW t \in Seq(W)
        PROVE  s \o t \in Seq(W)
               /\ CellsOf(FlattenSeq(s \o t)) = CellsOf(FlattenSeq(s)) + CellsOf(FlattenSeq(t))
    <3>1. FlattenSeq(s \o t) = FlattenSeq(s) \o FlattenSeq(t)
      BY FlatOfBoth
    <3>2. CellsOf(FlattenSeq(s) \o FlattenSeq(t)) = CellsOf(FlattenSeq(s)) + CellsOf(FlattenSeq(t))
      BY <1>0, CellsOfBoth
    <3> HIDE DEF W
    <3>3. s \o t \in Seq(W)
      OBVIOUS
    <3> QED
      BY <3>1, <3>2, <3>3
  <2>5. \A s, t \in Seq(W) : H[s \o t] = H[s] + H[t]
    BY <2>4
  <2> HIDE DEF H, W
  <2> QED
    BY <2>2, <2>3, <2>5 DEF Weighs
<1>2. ASSUME NEW l \in DocLine
      PROVE  O[l] \in Seq(W) /\ H[O[l]] = CellsOn[l]
  <2>2. CASE l.part \in TextParts
    <3>0. l.shows \in Seq(Piece)
      BY <2>2 DEF DocLine, PlainLine, EventLine, TextLine, SilentLine, CheckLine, TextParts,
                  SilentParts
    <3>1. O[l] = <<l.shows>> /\ CellsOn[l] = CellsOf(l.shows)
      BY <2>2 DEF CellsOn, OfParts
    <3>2. O[l] \in Seq(W)
      BY <3>0, <3>1
    <3>3. FlattenSeq(<<l.shows>>) = l.shows
      BY <3>0, FlatOfOne
    <3> QED
      BY <3>1, <3>2, <3>3
  <2>3. CASE l.part \notin TextParts
    <3>1. O[l] = <<>> /\ CellsOn[l] = 0
      BY <2>3 DEF CellsOn, OfParts
    <3>2. <<>> \in Seq(W)
      OBVIOUS
    <3> QED
      BY <3>1, <3>2, FlatOfNone, CellsOfNone
  <2> QED
    BY <2>2, <2>3
<1> DEFINE M == Seq(W)
<1>4. O \in Maps(DocLine, M)
  BY <1>2 DEF Maps, OfParts
<1> HIDE DEF H, O, M
<1>5. Mapped(O, doc) \in Seq(M)
  BY <1>4, MappedIsSeq
<1>6. Mapped(O, doc) \in Seq(Seq(W))
  BY <1>5 DEF M
<1>7. H[FlattenSeq(Mapped(O, doc))] = Total(Mapped(H, Mapped(O, doc)))
  <2> HIDE DEF W
  <2> QED
    BY <1>1, <1>6, WeighsFlat
<1>8. Mapped(H, Mapped(O, doc)) = Mapped(CellsOn, doc)
  <2>1. \A k \in DOMAIN doc : doc[k] \in DocLine
    OBVIOUS
  <2> QED
    BY <1>2, <2>1 DEF Mapped
<1>9. P!Shown(doc, {"title", "body", "prose", "place", "comment"}) = FlattenSeq(Mapped(O, doc))
  BY ShownIs DEF O, TextParts
<1>9a. P!TextShown(doc) = FlattenSeq(FlattenSeq(Mapped(O, doc)))
  BY <1>9, PullsText DEF P!TextShown
<1>10. FlattenSeq(Mapped(O, doc)) \in Seq(W)
  <2> HIDE DEF W
  <2> QED
    BY <1>6, FlatIsSeq
<1>11. H[FlattenSeq(Mapped(O, doc))] = CellsOf(P!TextShown(doc))
  BY <1>9a, <1>10 DEF H
<1>12. CellsIn(doc) = Total(Mapped(CellsOn, doc))
  BY DEF CellsIn, Sum
<1> QED
  BY <1>7, <1>8, <1>11, <1>12

\* How often something occurs is how many places it has.
LEMMA OccursIs ==
    ASSUME NEW S, NEW s \in Seq(S), NEW x
    PROVE  LET at == {i \in DOMAIN s : s[i] = x} IN
           /\ P!Occurrences(x, s) = Cardinality(at)
           /\ IsFiniteSet(at) /\ P!Occurrences(x, s) \in Nat
           /\ P!Occurrences(x, s) = 0 => \A i \in DOMAIN s : s[i] # x
<1> DEFINE at == {i \in DOMAIN s : s[i] = x}
<1>1. P!Occurrences(x, s) = P!Cardinality(at)
  BY DEF P!Occurrences
<1>2. P!Cardinality(at) = Cardinality(at)
  BY Zenon DEF P!Cardinality, Cardinality
<1>3. IsFiniteSet(at)
  <2>1. at \subseteq 1 .. Len(s) /\ Len(s) \in Nat
    OBVIOUS
  <2> HIDE DEF at
  <2>2. 1 \in Int /\ Len(s) \in Int
    BY <2>1
  <2>3. IsFiniteSet(1 .. Len(s))
    BY <2>2, FS_Interval
  <2> QED
    BY <2>1, <2>3, FS_Subset
<1>4. Cardinality(at) \in Nat
  BY <1>3, FS_CardinalityType
<1>5. Cardinality(at) = 0 => at = {}
  <2> HIDE DEF at
  <2> QED
    BY <1>3, FS_EmptySet
<1> QED
  BY <1>1, <1>2, <1>3, <1>4, <1>5

\* Wherever the one is, in s, the other is, in t.
Matches(s, x, t, y) == DOMAIN s \subseteq DOMAIN t /\ \A i \in DOMAIN s : s[i] = x <=> t[i] = y

\* What implies another occurs no more often.
LEMMA OccursLess ==
    ASSUME NEW S, NEW s \in Seq(S), NEW x, NEW V, NEW t \in Seq(V), NEW y, Matches(s, x, t, y)
    PROVE  /\ P!Occurrences(x, s) <= P!Occurrences(y, t)
           /\ DOMAIN s = DOMAIN t => P!Occurrences(x, s) = P!Occurrences(y, t)
<1> DEFINE a == {i \in DOMAIN s : s[i] = x}
           b == {i \in DOMAIN t : t[i] = y}
<1>1. P!Occurrences(x, s) = Cardinality(a) /\ P!Occurrences(y, t) = Cardinality(b) /\ IsFiniteSet(b)
  BY OccursIs
<1>2. a \subseteq b /\ (DOMAIN s = DOMAIN t => a = b)
  BY DEF Matches
<1> HIDE DEF a, b
<1>3. Cardinality(a) <= Cardinality(b)
  BY <1>1, <1>2, FS_Subset
<1> QED
  BY <1>1, <1>2, <1>3

Run == [status: STRING, conclusion: DOMAIN P!ConclusionSignal \cup {Nothing}]
Status == DOMAIN P!StatusSignal

\* A run is on a line of the colour it is counted under.
LEMMA VerdictIs ==
    ASSUME NEW run \in Run
    PROVE  /\ P!RunSignal(run) \in Outcomes /\ P!Verdict(run) \in Verdicts
           /\ \A s \in Outcomes : P!Verdict(run) = P!Colour[s] <=> P!RunSignal(run) = s
<1> DEFINE c == run.conclusion
<1>0. /\ P!Colour["failed"] = "danger" /\ P!Colour["pending"] = "warning"
      /\ P!Colour["passed"] = "success" /\ P!Colour["skipped"] = "muted"
  BY DEF P!Colour
<1>1. Nothing \notin DOMAIN P!ConclusionSignal
  BY ScreensAssumption DEF P!DetailsAssumption
<1>2. c \in DOMAIN P!ConclusionSignal \cup {Nothing}
  BY DEF Run
<1>3. CASE run.status # "Completed" \/ c = Nothing
  <2>1. P!RunSignal(run) = "pending"
    BY <1>3 DEF P!RunSignal
  <2>2. P!Verdict(run) = "warning"
    <3>1. c = Nothing =>
             c \notin {"Failure", "Cancelled", "TimedOut", "StartupFailure", "ActionRequired",
                       "Success", "Neutral", "Skipped", "Stale"}
      BY <1>1 DEF P!ConclusionSignal
    <3> QED
      BY <1>3, <3>1 DEF P!Verdict
  <2> QED
    BY <1>0, <2>1, <2>2 DEF Outcomes, Verdicts
<1>4. CASE run.status = "Completed" /\ c # Nothing
  <2>1. P!RunSignal(run) = P!ConclusionSignal[c]
    BY <1>4 DEF P!RunSignal
  <2>2. CASE c \in {"Failure", "Cancelled", "TimedOut", "StartupFailure", "ActionRequired"}
    <3>1. P!ConclusionSignal[c] = "failed" /\ P!Verdict(run) = "danger"
      BY <1>4, <2>2 DEF P!ConclusionSignal, P!Verdict
    <3> QED
      BY <1>0, <2>1, <3>1 DEF Outcomes, Verdicts
  <2>3. CASE c = "Success"
    <3>1. P!ConclusionSignal[c] = "passed" /\ P!Verdict(run) = "success"
      BY <1>4, <2>3 DEF P!ConclusionSignal, P!Verdict
    <3> QED
      BY <1>0, <2>1, <3>1 DEF Outcomes, Verdicts
  <2>4. CASE c \in {"Neutral", "Skipped", "Stale"}
    <3>1. P!ConclusionSignal[c] = "skipped" /\ P!Verdict(run) = "muted"
      BY <1>4, <2>4 DEF P!ConclusionSignal, P!Verdict
    <3> QED
      BY <1>0, <2>1, <3>1 DEF Outcomes, Verdicts
  <2> QED
    BY <1>2, <1>4, <2>2, <2>3, <2>4 DEF P!ConclusionSignal
<1> QED
  BY <1>3, <1>4

LEMMA JoinIs ==
    ASSUME NEW S, NEW a \in Seq(S), NEW b \in Seq(S)
    PROVE  /\ a \o b \in Seq(S) /\ Len(a \o b) = Len(a) + Len(b)
           /\ Len(a) \in Nat /\ Len(b) \in Nat
           /\ \A i \in DOMAIN a : i \in DOMAIN (a \o b) /\ (a \o b)[i] = a[i]
OBVIOUS

\* Every run and every status gives one signal.
LEMMA SignalsAre ==
    ASSUME NEW pr, pr.runs \in Seq(Run), pr.statuses \in Seq(Status)
    PROVE  LET s == P!Signals(pr) IN
           /\ s \in Seq(Outcomes)
           /\ Len(s) = Len(pr.runs) + Len(pr.statuses)
           /\ \A i \in DOMAIN pr.runs : i \in DOMAIN s /\ s[i] = P!RunSignal(pr.runs[i])
<1> DEFINE a == [i \in DOMAIN pr.runs |-> P!RunSignal(pr.runs[i])]
           b == [i \in DOMAIN pr.statuses |-> P!StatusSignal[pr.statuses[i]]]
<1>1. /\ Len(pr.runs) \in Nat /\ DOMAIN pr.runs = 1 .. Len(pr.runs)
      /\ Len(pr.statuses) \in Nat /\ DOMAIN pr.statuses = 1 .. Len(pr.statuses)
  OBVIOUS
<1>2. a \in Seq(Outcomes) /\ Len(a) = Len(pr.runs)
  <2>1. \A i \in DOMAIN pr.runs : P!RunSignal(pr.runs[i]) \in Outcomes
    BY VerdictIs
  <2>2. a \in [1 .. Len(pr.runs) -> Outcomes]
    BY <1>1, <2>1
  <2> HIDE DEF a
  <2> QED
    BY <1>1, <2>2, MappingIsSeq
<1>3. b \in Seq(Outcomes) /\ Len(b) = Len(pr.statuses)
  <2>1. \A x \in Status : P!StatusSignal[x] \in Outcomes
    BY DEF Status, P!StatusSignal, Outcomes
  <2>2. \A i \in DOMAIN pr.statuses : pr.statuses[i] \in Status
    OBVIOUS
  <2>3. b \in [1 .. Len(pr.statuses) -> Outcomes]
    BY <1>1, <2>1, <2>2
  <2> HIDE DEF b
  <2> QED
    BY <1>1, <2>3, MappingIsSeq
<1>4. P!Signals(pr) = a \o b
  BY DEF P!Signals
<1>5. \A i \in DOMAIN pr.runs : i \in DOMAIN a /\ a[i] = P!RunSignal(pr.runs[i])
  OBVIOUS
<1> HIDE DEF a, b
<1>6. /\ a \o b \in Seq(Outcomes) /\ Len(a \o b) = Len(pr.runs) + Len(pr.statuses)
      /\ \A i \in DOMAIN a : i \in DOMAIN (a \o b) /\ (a \o b)[i] = a[i]
  <2>1. a \in Seq(Outcomes) /\ b \in Seq(Outcomes)
    BY <1>2, <1>3
  <2>2. /\ a \o b \in Seq(Outcomes) /\ Len(a \o b) = Len(a) + Len(b)
        /\ \A i \in DOMAIN a : i \in DOMAIN (a \o b) /\ (a \o b)[i] = a[i]
    BY Zenon, <2>1, JoinIs
  <2>3. Len(a \o b) = Len(pr.runs) + Len(pr.statuses)
    BY Zenon, <1>2, <1>3, <2>2
  <2> QED
    BY Zenon, <2>2, <2>3
<1> QED
  BY <1>4, <1>5, <1>6

\* The rollup counts every signal once.
LEMMA MergeIs ==
    ASSUME NEW pr, pr.runs \in Seq(Run), pr.statuses \in Seq(Status)
    PROVE  LET rollup == P!Merge(pr) IN
           /\ rollup.count \in [Outcomes -> Nat]
           /\ \A s \in Outcomes : rollup.count[s] = P!Occurrences(s, P!Signals(pr))
           /\ rollup.state = "none" => Len(pr.runs) = 0 /\ Len(pr.statuses) = 0
<1> DEFINE sig == P!Signals(pr)
           count == [s \in {"failed", "pending", "passed", "skipped"} |-> P!Occurrences(s, sig)]
<1>1. P!Merge(pr).count = count
  BY DEF P!Merge
<1>2. sig \in Seq(Outcomes) /\ Len(sig) = Len(pr.runs) + Len(pr.statuses)
  BY SignalsAre
<1> HIDE DEF sig
<1>3. \A s \in Outcomes : P!Occurrences(s, sig) \in Nat
                          /\ (P!Occurrences(s, sig) = 0 => \A i \in DOMAIN sig : sig[i] # s)
  BY <1>2, OccursIs
<1>4. count \in [Outcomes -> Nat] /\ \A s \in Outcomes : count[s] = P!Occurrences(s, sig)
  BY <1>3 DEF Outcomes
<1>5. ASSUME P!Merge(pr).state = "none"
      PROVE  Len(pr.runs) = 0 /\ Len(pr.statuses) = 0
  <2>1. P!Merge(pr).state =
           CASE count["failed"] > 0 -> "failure"
             [] count["failed"] = 0 /\ count["pending"] > 0 -> "pending"
             [] count["failed"] + count["pending"] = 0 /\ count["passed"] > 0 -> "success"
             [] count["failed"] + count["pending"] + count["passed"] = 0
                /\ count["skipped"] > 0 -> "neutral"
             [] OTHER -> "none"
    BY DEF P!Merge, sig
  <2>2. {"failed", "pending", "passed", "skipped"} = Outcomes
    BY DEF Outcomes
  <2>3. count["failed"] \in Nat /\ count["pending"] \in Nat
        /\ count["passed"] \in Nat /\ count["skipped"] \in Nat
    BY <1>4, <2>2
  <2> HIDE DEF count
  <2>4. count["failed"] = 0
    BY <1>5, <2>1, <2>3
  <2>5. count["pending"] = 0
    BY <1>5, <2>1, <2>3, <2>4
  <2>6. count["passed"] = 0
    BY <1>5, <2>1, <2>3, <2>4, <2>5
  <2>7. count["skipped"] = 0
    BY <1>5, <2>1, <2>3, <2>4, <2>5, <2>6
  <2>8. \A s \in Outcomes : count[s] = 0
    BY <2>2, <2>4, <2>5, <2>6, <2>7
  <2>9. \A i \in DOMAIN sig : sig[i] \notin Outcomes
    BY <1>3, <1>4, <2>8
  <2>10. Len(sig) = 0
    <3>1. sig \in Seq(Outcomes)
      BY <1>2
    <3>2. Len(sig) # 0 => 1 \in DOMAIN sig /\ sig[1] \in Outcomes
      BY <3>1
    <3> QED
      BY <2>9, <3>2
  <2> DEFINE m == Len(pr.runs)
             n == Len(pr.statuses)
  <2>11. m \in Nat /\ n \in Nat /\ Len(sig) = m + n
    BY <1>2
  <2> HIDE DEF m, n
  <2>12. m = 0 /\ n = 0
    BY <2>10, <2>11
  <2> QED
    BY <2>12 DEF m, n
<1> QED
  BY <1>1, <1>4, <1>5 DEF sig

MuteLine == CheckLine \cup SilentLine

\* The checks tell no event and no text.
LEMMA MuteTells ==
    ASSUME NEW doc \in Seq(MuteLine)
    PROVE  Tells(doc, DocLine, <<>>, 0)
<1>1. MuteLine \subseteq DocLine
  BY DEF MuteLine, DocLine, PlainLine
<1>2. doc \in Seq(DocLine) /\ Len(doc) \in Nat /\ DOMAIN doc = 1 .. Len(doc)
      /\ \A k \in DOMAIN doc : doc[k] \in MuteLine
  BY <1>1, SeqOfMore
<1>3. \A l \in MuteLine : EventsOn[l] = <<>> /\ CellsOn[l] = 0
  <2>1. \A l \in MuteLine : l.part # "event" /\ l.part \notin TextParts
    BY DEF MuteLine, CheckLine, SilentLine, SilentParts, TextParts
  <2> QED
    BY <1>1, <2>1 DEF EventsOn, CellsOn
<1>4. EventsIn(doc) = <<>>
  <2>1. EventsIn(doc) = FlattenSeq(Mapped(EventsOn, doc))
    BY <1>2 DEF EventsIn, Each
  <2>2. Mapped(EventsOn, doc) = [k \in 1 .. Len(doc) |-> <<>>]
    BY <1>2, <1>3 DEF Mapped
  <2> QED
    BY <1>2, <2>1, <2>2, FlatOfEmpties
<1>5. CellsIn(doc) = 0
  <2>1. CellsIn(doc) = Total(Mapped(CellsOn, doc))
    BY <1>2 DEF CellsIn, Sum
  <2>2. Mapped(CellsOn, doc) = [k \in 1 .. Len(doc) |-> 0]
    BY <1>2, <1>3 DEF Mapped
  <2> DEFINE zeros == [k \in 1 .. Len(doc) |-> 0]
  <2>3. zeros \in [1 .. Len(doc) -> Nat] /\ \A k \in DOMAIN zeros : zeros[k] = 0
    OBVIOUS
  <2> HIDE DEF zeros
  <2>4. zeros \in Seq(Nat)
    BY <1>2, <2>3, MappingIsSeq
  <2>5. Total(zeros) = 0
    BY <2>3, <2>4, TotalOfZeros
  <2> QED
    BY <2>1, <2>2, <2>5 DEF zeros
<1> QED
  BY <1>2, <1>4, <1>5 DEF Tells

\* What the line of a part shows, of a line alone.
LEMMA ShownOfLine ==
    ASSUME NEW l \in DocLine, NEW parts
    PROVE  /\ <<l>> \in Seq(DocLine)
           /\ l.part \in parts => P!Shown(<<l>>, parts) = <<l.shows>>
           /\ l.part \notin parts => P!Shown(<<l>>, parts) = <<>>
<1>1. <<l>> \in Seq(DocLine) /\ DOMAIN <<l>> = {1} /\ <<l>>[1] = l
  OBVIOUS
<1>2. /\ (\A k \in DOMAIN <<l>> : <<l>>[k].part \in parts) =>
             P!Shown(<<l>>, parts) = [k \in DOMAIN <<l>> |-> <<l>>[k].shows]
      /\ (\A k \in DOMAIN <<l>> : <<l>>[k].part \notin parts) => P!Shown(<<l>>, parts) = <<>>
  BY <1>1, ShownOfPart
<1>3. [k \in DOMAIN <<l>> |-> <<l>>[k].shows] = <<l.shows>>
  OBVIOUS
<1> QED
  BY <1>1, <1>2, <1>3

CheckPart == {{"run"}, {"checks"}, {"unlisted"}}

\* The three kinds of lines about checks, and the blank under them.
LEMMA PartsAre ==
    ASSUME NEW pr, pr.runs \in Seq(Run), pr.statuses \in Seq(Status), NEW parts \in CheckPart
    PROVE  LET m == Len(pr.statuses)
               h == <<P!Line("checks", P!Merge(pr).count)>>
               r == [i \in DOMAIN pr.runs |-> P!Line("run", P!Verdict(pr.runs[i]))]
               u == IF m > 0 THEN <<P!Line("unlisted", m)>> ELSE <<>>
               v == [i \in DOMAIN pr.runs |-> P!Verdict(pr.runs[i])]
           IN /\ h \in Seq(MuteLine) /\ r \in Seq(MuteLine) /\ u \in Seq(MuteLine)
              /\ P!Blank \in Seq(MuteLine)
              /\ P!Shown(h, parts) = IF parts = {"checks"} THEN <<P!Merge(pr).count>> ELSE <<>>
              /\ P!Shown(r, parts) = IF parts = {"run"} THEN v ELSE <<>>
              /\ P!Shown(u, parts) = IF parts = {"unlisted"} /\ m > 0 THEN <<m>> ELSE <<>>
              /\ P!Shown(P!Blank, parts) = <<>>
<1> DEFINE m == Len(pr.statuses)
           n == Len(pr.runs)
           count == P!Merge(pr).count
           h == P!Line("checks", count)
           r == [i \in DOMAIN pr.runs |-> P!Line("run", P!Verdict(pr.runs[i]))]
           l == P!Line("unlisted", m)
           b == P!Line("blank", Nothing)
           v == [i \in DOMAIN pr.runs |-> P!Verdict(pr.runs[i])]
<1>1. MuteLine \subseteq DocLine
  BY DEF MuteLine, DocLine, PlainLine
<1>2. m \in Nat /\ n \in Nat /\ DOMAIN pr.runs = 1 .. n
  OBVIOUS
<1>3. h \in MuteLine /\ h.part = "checks" /\ h.shows = count
  <2>1. count \in [Outcomes -> Nat]
    BY MergeIs
  <2> HIDE DEF count
  <2> QED
    BY <2>1 DEF P!Line, MuteLine, CheckLine
<1>4. l \in MuteLine /\ l.part = "unlisted" /\ l.shows = m
  BY <1>2 DEF P!Line, MuteLine, CheckLine
<1>5. b \in MuteLine /\ b.part = "blank"
  BY DEF P!Line, MuteLine, SilentLine, SilentParts
<1>6. \A i \in 1 .. n : r[i] \in MuteLine /\ r[i].part = "run" /\ r[i].shows = v[i]
  <2>1. \A i \in 1 .. n : pr.runs[i] \in Run
    OBVIOUS
  <2>2. \A x \in Run : P!Verdict(x) \in Verdicts
    BY VerdictIs
  <2>3. \A i \in 1 .. n : r[i] = [part |-> "run", shows |-> P!Verdict(pr.runs[i])] /\ v[i] = P!Verdict(pr.runs[i])
    BY <1>2 DEF P!Line
  <2>4. ASSUME NEW i \in 1 .. n
        PROVE  r[i] \in MuteLine /\ r[i].part = "run" /\ r[i].shows = v[i]
    <3>1. v[i] \in Verdicts /\ r[i] = [part |-> "run", shows |-> v[i]]
      BY <2>1, <2>2, <2>3
    <3> HIDE DEF r, v
    <3> QED
      BY <3>1 DEF MuteLine, CheckLine
  <2> QED
    BY <2>4
<1>7. DOMAIN r = 1 .. n /\ v = [i \in 1 .. n |-> v[i]] /\ r = [i \in 1 .. n |-> r[i]]
  BY <1>2
<1>8. "run" # "checks" /\ "run" # "unlisted" /\ "checks" # "unlisted"
      /\ "blank" \notin {"run", "checks", "unlisted"}
  OBVIOUS
<1>9. parts = {"run"} \/ parts = {"checks"} \/ parts = {"unlisted"}
  BY DEF CheckPart
<1>10. P!Blank = <<b>>
  BY DEF P!Blank
<1>11. /\ <<h>> = <<P!Line("checks", P!Merge(pr).count)>>
       /\ <<l>> = <<P!Line("unlisted", m)>>
  OBVIOUS
<1> HIDE DEF h, l, b, r, v, count
<1>12. r \in Seq(MuteLine)
  <2>1. r \in [1 .. n -> MuteLine]
    BY <1>6, <1>7
  <2> HIDE DEF n
  <2> QED
    BY <1>2, <2>1, MappingIsSeq
<1>13. h \in DocLine /\ l \in DocLine /\ b \in DocLine /\ r \in Seq(DocLine)
  BY <1>1, <1>3, <1>4, <1>5, <1>12, SeqOfMore
<1>14. P!Shown(<<h>>, parts) = IF parts = {"checks"} THEN <<count>> ELSE <<>>
  BY <1>3, <1>8, <1>9, <1>13, ShownOfLine
<1>15. P!Shown(<<b>>, parts) = <<>>
  BY <1>5, <1>8, <1>9, <1>13, ShownOfLine
<1>16. P!Shown(<<l>>, parts) = IF parts = {"unlisted"} THEN <<m>> ELSE <<>>
  BY <1>4, <1>8, <1>9, <1>13, ShownOfLine
<1>17. P!Shown(<<>>, parts) = <<>>
  <2>1. <<>> \in Seq(DocLine) /\ DOMAIN <<>> = {}
    OBVIOUS
  <2> QED
    BY <2>1, ShownOfPart
<1>18. P!Shown(r, parts) = IF parts = {"run"} THEN v ELSE <<>>
  <2>1. CASE parts = {"run"}
    <3>1. \A i \in DOMAIN r : r[i].part \in parts
      BY <1>6, <1>7, <2>1
    <3>2. P!Shown(r, parts) = [i \in DOMAIN r |-> r[i].shows]
      BY <1>13, <3>1, ShownOfPart
    <3> QED
      BY <1>6, <1>7, <2>1, <3>2
  <2>2. CASE parts # {"run"}
    <3>1. \A i \in DOMAIN r : r[i].part \notin parts
      BY <1>6, <1>7, <1>8, <1>9, <2>2
    <3>2. P!Shown(r, parts) = <<>>
      BY <1>13, <3>1, ShownOfPart
    <3> QED
      BY <2>2, <3>2
  <2> QED
    BY <2>1, <2>2
<1>19. <<h>> \in Seq(MuteLine) /\ <<l>> \in Seq(MuteLine) /\ <<b>> \in Seq(MuteLine)
       /\ <<>> \in Seq(MuteLine)
  BY <1>3, <1>4, <1>5
<1>20. P!Shown(IF m > 0 THEN <<l>> ELSE <<>>, parts)
          = IF parts = {"unlisted"} /\ m > 0 THEN <<m>> ELSE <<>>
  BY <1>16, <1>17
<1>21. (IF m > 0 THEN <<l>> ELSE <<>>) \in Seq(MuteLine)
  BY <1>19
<1> QED
  BY <1>10, <1>11, <1>12, <1>14, <1>15, <1>18, <1>19, <1>20, <1>21 DEF r, v, l, count

LEMMA ShownOfJoin ==
    ASSUME NEW a \in Seq(DocLine), NEW b \in Seq(DocLine), NEW parts
    PROVE  P!Shown(a \o b, parts) = P!Shown(a, parts) \o P!Shown(b, parts)
BY ShownOfBoth

\* What is shown of the checks: every run, what it counts, the statuses unlisted.
LEMMA ChecksAre ==
    ASSUME NEW pr, pr.runs \in Seq(Run), pr.statuses \in Seq(Status)
    PROVE  LET m == Len(pr.statuses)
               doc == P!Checks(pr)
               v == [i \in DOMAIN pr.runs |-> P!Verdict(pr.runs[i])]
           IN /\ doc \in Seq(MuteLine)
              /\ P!Merge(pr).state = "none" => doc = <<>>
              /\ P!Merge(pr).state # "none" =>
                    /\ P!Shown(doc, {"run"}) = v
                    /\ P!Shown(doc, {"checks"}) = <<P!Merge(pr).count>>
                    /\ P!Shown(doc, {"unlisted"}) = IF m > 0 THEN <<m>> ELSE <<>>
<1> DEFINE m == Len(pr.statuses)
           n == Len(pr.runs)
           count == P!Merge(pr).count
           h == <<P!Line("checks", count)>>
           r == [i \in DOMAIN pr.runs |-> P!Line("run", P!Verdict(pr.runs[i]))]
           u == IF m > 0 THEN <<P!Line("unlisted", m)>> ELSE <<>>
           v == [i \in DOMAIN pr.runs |-> P!Verdict(pr.runs[i])]
           doc == P!Checks(pr)
           some == P!Merge(pr).state # "none"
<1>1. m \in Nat /\ n \in Nat
  OBVIOUS
<1>2. P!Max({0, Len(P!Signals(pr)) - n}) = m
  <2> DEFINE s == Len(P!Signals(pr))
  <2>1. s = n + m
    BY SignalsAre
  <2> HIDE DEF m, n, s
  <2>2. s - n = m
    BY <1>1, <2>1
  <2>3. \A y \in {0, m} : y <= m
    BY <1>1
  <2>4. {0, m} \subseteq Int /\ m \in {0, m}
    BY <1>1
  <2>5. Max({0, m}) = m
    BY <2>3, <2>4, MaxIs
  <2> QED
    BY <2>2, <2>5, PullsText DEF s
<1>3. doc = IF P!Merge(pr).state = "none" THEN <<>> ELSE h \o r \o u \o P!Blank
  BY <1>2 DEF P!Checks
<1>4. ASSUME NEW parts \in CheckPart
      PROVE  /\ h \in Seq(MuteLine) /\ r \in Seq(MuteLine) /\ u \in Seq(MuteLine)
             /\ P!Blank \in Seq(MuteLine)
             /\ P!Shown(h, parts) = IF parts = {"checks"} THEN <<count>> ELSE <<>>
             /\ P!Shown(r, parts) = IF parts = {"run"} THEN v ELSE <<>>
             /\ P!Shown(u, parts) = IF parts = {"unlisted"} /\ m > 0 THEN <<m>> ELSE <<>>
             /\ P!Shown(P!Blank, parts) = <<>>
  BY PartsAre
<1>5. {"run"} \in CheckPart /\ {"checks"} \in CheckPart /\ {"unlisted"} \in CheckPart
  BY DEF CheckPart
<1>6. h \in Seq(MuteLine) /\ r \in Seq(MuteLine) /\ u \in Seq(MuteLine) /\ P!Blank \in Seq(MuteLine)
  BY <1>4, <1>5
<1>7. v \in Seq(Verdicts) /\ <<count>> \in Seq({count}) /\ (m > 0 => <<m>> \in Seq(Nat))
  <2>1. \A x \in Run : P!Verdict(x) \in Verdicts
    BY VerdictIs
  <2>2. v \in [1 .. n -> Verdicts]
    <3>1. \A i \in DOMAIN pr.runs : pr.runs[i] \in Run
      OBVIOUS
    <3>2. DOMAIN pr.runs = 1 .. n
      OBVIOUS
    <3> QED
      BY <2>1, <3>1, <3>2
  <2> HIDE DEF v, n
  <2>3. v \in Seq(Verdicts)
    BY <1>1, <2>2, MappingIsSeq
  <2> QED
    BY <1>1, <2>3
<1> HIDE DEF h, r, u, v, count, doc
<1>8. MuteLine \subseteq DocLine
  BY DEF MuteLine, DocLine, PlainLine
<1>9. h \in Seq(DocLine) /\ r \in Seq(DocLine) /\ u \in Seq(DocLine) /\ P!Blank \in Seq(DocLine)
  BY <1>6, <1>8, SeqOfMore
<1>10. ASSUME NEW parts
       PROVE  P!Shown(h \o r \o u \o P!Blank, parts)
                 = P!Shown(h, parts) \o P!Shown(r, parts) \o P!Shown(u, parts)
                   \o P!Shown(P!Blank, parts)
  <2> DEFINE two == h \o r
             three == two \o u
  <2>1. two \in Seq(DocLine)
    BY <1>9
  <2>2. P!Shown(two, parts) = P!Shown(h, parts) \o P!Shown(r, parts)
    <3>1. h \in Seq(DocLine) /\ r \in Seq(DocLine)
      BY <1>9
    <3> QED
      BY <3>1, ShownOfJoin, SMTT(20)
  <2> HIDE DEF two
  <2>3. three \in Seq(DocLine)
    BY <1>9, <2>1
  <2>4. P!Shown(three, parts) = P!Shown(two, parts) \o P!Shown(u, parts)
    <3>1. two \in Seq(DocLine) /\ u \in Seq(DocLine)
      BY <1>9, <2>1
    <3> QED
      BY <3>1, ShownOfJoin, SMTT(20)
  <2> HIDE DEF three
  <2>5. P!Shown(three \o P!Blank, parts) = P!Shown(three, parts) \o P!Shown(P!Blank, parts)
    <3>1. three \in Seq(DocLine) /\ P!Blank \in Seq(DocLine)
      BY <1>9, <2>3
    <3> QED
      BY <3>1, ShownOfJoin, SMTT(20)
  <2> QED
    BY <2>2, <2>4, <2>5, Zenon DEF two, three
<1>11. doc \in Seq(MuteLine)
  BY <1>3, <1>6
<1>12. ASSUME some
       PROVE  P!Shown(doc, {"run"}) = v
  <2>1. P!Shown(doc, {"run"}) = <<>> \o v \o <<>> \o <<>>
    BY <1>3, <1>4, <1>5, <1>10, <1>12
  <2> QED
    BY <1>7, <2>1
<1>13. ASSUME some
       PROVE  P!Shown(doc, {"checks"}) = <<count>>
  <2>1. P!Shown(doc, {"checks"}) = <<count>> \o <<>> \o <<>> \o <<>>
    BY <1>3, <1>4, <1>5, <1>10, <1>13
  <2> QED
    BY <1>7, <2>1
<1>14. ASSUME some
       PROVE  P!Shown(doc, {"unlisted"}) = IF m > 0 THEN <<m>> ELSE <<>>
  <2> DEFINE w == IF m > 0 THEN <<m>> ELSE <<>>
  <2>1. P!Shown(doc, {"unlisted"}) = <<>> \o <<>> \o w \o <<>>
    BY <1>3, <1>4, <1>5, <1>10, <1>14
  <2>2. w \in Seq(Nat)
    BY <1>7
  <2> HIDE DEF w
  <2>3. P!Shown(doc, {"unlisted"}) = w
    BY <2>1, <2>2
  <2> QED
    BY <2>3 DEF w
<1> QED
  BY <1>3, <1>11, <1>12, <1>13, <1>14 DEF doc, v, count

\* As many lines of a colour as runs with that signal, in all that is counted.
LEMMA ColoursCount ==
    ASSUME NEW pr, pr.runs \in Seq(Run), pr.statuses \in Seq(Status), NEW s \in Outcomes
    PROVE  LET v == [i \in DOMAIN pr.runs |-> P!Verdict(pr.runs[i])]
               c == P!Merge(pr).count[s]
           IN /\ P!Occurrences(P!Colour[s], v) <= c
              /\ Len(pr.statuses) = 0 => P!Occurrences(P!Colour[s], v) = c
<1> DEFINE v == [i \in DOMAIN pr.runs |-> P!Verdict(pr.runs[i])]
           sig == P!Signals(pr)
           n == Len(pr.runs)
           m == Len(pr.statuses)
           color == P!Colour[s]
<1>1. /\ n \in Nat /\ m \in Nat /\ DOMAIN pr.runs = 1 .. n
      /\ \A i \in 1 .. n : pr.runs[i] \in Run
  OBVIOUS
<1>2. \A i \in 1 .. n : /\ v[i] = P!Verdict(pr.runs[i]) /\ v[i] \in Verdicts
                        /\ v[i] = color <=> P!RunSignal(pr.runs[i]) = s
  <2>1. \A x \in Run : P!Verdict(x) \in Verdicts /\ (P!Verdict(x) = color <=> P!RunSignal(x) = s)
    BY VerdictIs
  <2> HIDE DEF color
  <2> QED
    BY <1>1, <2>1
<1>3. v = [i \in 1 .. n |-> v[i]]
  BY <1>1
<1>4. /\ sig \in Seq(Outcomes) /\ Len(sig) = n + m
      /\ \A i \in 1 .. n : sig[i] = P!RunSignal(pr.runs[i])
  BY <1>1, SignalsAre
<1>5. P!Merge(pr).count[s] = P!Occurrences(s, sig)
  BY MergeIs
<1> HIDE DEF v, sig, n, m, color
<1>6. v \in Seq(Verdicts) /\ DOMAIN v = 1 .. n
  <2>1. v \in [1 .. n -> Verdicts]
    BY <1>2, <1>3
  <2>2. v \in Seq(Verdicts)
    BY <1>1, <2>1, MappingIsSeq
  <2> QED
    BY <2>1, <2>2
<1>7. DOMAIN sig = 1 .. n + m
  BY <1>4
<1>8. DOMAIN v \subseteq DOMAIN sig /\ (m = 0 => DOMAIN v = DOMAIN sig)
  BY <1>1, <1>6, <1>7
<1>9. \A i \in DOMAIN v : v[i] = color <=> sig[i] = s
  BY <1>2, <1>4, <1>6
<1>10. /\ P!Occurrences(color, v) <= P!Occurrences(s, sig)
       /\ DOMAIN v = DOMAIN sig => P!Occurrences(color, v) = P!Occurrences(s, sig)
  <2>1. Matches(v, color, sig, s)
    BY <1>8, <1>9 DEF Matches
  <2> QED
    BY <1>4, <1>6, <2>1, OccursLess
<1> QED
  BY <1>5, <1>8, <1>10 DEF v, m, color

\* Those add up, wherever in the document they are.
LEMMA ChecksAdd ==
    ASSUME NEW pr, pr.runs \in Seq(Run), pr.statuses \in Seq(Status), NEW doc,
           P!Shown(doc, {"run"}) = P!Shown(P!Checks(pr), {"run"}),
           P!Shown(doc, {"checks"}) = P!Shown(P!Checks(pr), {"checks"}),
           P!Shown(doc, {"unlisted"}) = P!Shown(P!Checks(pr), {"unlisted"})
    PROVE  P!ChecksAddUp(doc, pr)
<1> DEFINE v == [i \in DOMAIN pr.runs |-> P!Verdict(pr.runs[i])]
           n == Len(pr.runs)
           m == Len(pr.statuses)
           count == P!Merge(pr).count
           runs == P!Shown(doc, {"run"})
           unlisted == P!Shown(doc, {"unlisted"})
           head == P!Shown(doc, {"checks"})
<1>1. n \in Nat /\ m \in Nat /\ DOMAIN pr.runs = 1 .. n
  OBVIOUS
<1>2. CASE P!Merge(pr).state = "none"
  <2>1. n = 0 /\ m = 0
    BY <1>2, MergeIs
  <2>2. P!Checks(pr) = <<>>
    BY <1>2, ChecksAre
  <2>3. \A parts : P!Shown(<<>>, parts) = <<>>
    <3>1. <<>> \in Seq(DocLine) /\ DOMAIN <<>> = {}
      OBVIOUS
    <3> QED
      BY <3>1, ShownOfPart
  <2>4. runs = <<>> /\ unlisted = <<>> /\ head = <<>>
    BY <2>2, <2>3
  <2>5. P!Len(runs) = 0
    BY <2>4
  <2> HIDE DEF runs, unlisted, head
  <2> QED
    BY <2>1, <2>4, <2>5 DEF P!ChecksAddUp, runs, unlisted, head
<1>3. CASE P!Merge(pr).state # "none"
  <2>1. /\ runs = v /\ head = <<count>>
        /\ unlisted = IF m > 0 THEN <<m>> ELSE <<>>
    BY <1>3, ChecksAre
  <2>2. Len(v) = n
    <3>1. v = [i \in 1 .. n |-> v[i]]
      BY <1>1
    <3> QED
      BY <1>1, <2>1, <3>1
  <2>3. Len(runs) + (IF unlisted = <<>> THEN 0 ELSE unlisted[1]) = n + m
    <3>1. CASE m > 0
      <4>1. unlisted = <<m>> /\ unlisted # <<>> /\ unlisted[1] = m
        BY <2>1, <3>1
      <4> HIDE DEF unlisted, runs, v
      <4> QED
        BY <2>1, <2>2, <4>1
    <3>2. CASE ~(m > 0)
      <4>1. unlisted = <<>> /\ m = 0
        BY <1>1, <2>1, <3>2
      <4> HIDE DEF unlisted, runs, v, n, m
      <4> QED
        BY <1>1, <2>1, <2>2, <4>1
    <3> QED
      BY <3>1, <3>2
  <2>4. head[1] = count
    BY <2>1
  <2>5. \A s \in Outcomes : /\ P!Occurrences(P!Colour[s], v) <= count[s]
                            /\ m = 0 => P!Occurrences(P!Colour[s], v) = count[s]
    BY ColoursCount
  <2>6. unlisted = <<>> => m = 0
    <3>1. <<m>> # <<>>
      OBVIOUS
    <3> HIDE DEF unlisted, m
    <3> QED
      BY <1>1, <2>1, <3>1
  <2>7. DOMAIN P!Colour = Outcomes
    BY DEF P!Colour, Outcomes
  <2>8. \A s \in DOMAIN P!Colour :
             /\ P!Occurrences(P!Colour[s], runs) <= head[1][s]
             /\ unlisted = <<>> => P!Occurrences(P!Colour[s], runs) = head[1][s]
    <3> HIDE DEF runs, unlisted, head, v, m, count
    <3> QED
      BY <2>1, <2>4, <2>5, <2>6, <2>7
  <2> QED
    BY <2>3, <2>8 DEF P!ChecksAddUp
<1> QED
  BY <1>2, <1>3

\* Texts, each with its indent, and the cells they come to.
Indented == Seq(Nat) \X {0, 2, 4}
OfText == [t \in Indented |-> Total(t[1])]
Weigh(texts, cells) ==
    texts \in Seq(Indented) /\ cells \in Nat /\ Sum(OfText, Indented)[texts] = cells

\* What the texts of a pull request come to adds up.
LEMMA TextsWeigh ==
    /\ OfText \in Maps(Indented, Nat)
    /\ Weighs(Sum(OfText, Indented), Indented)
<1>1. \A t \in Indented : Total(t[1]) \in Nat
  <2>1. \A t \in Indented : t[1] \in Seq(Nat)
    BY DEF Indented
  <2> QED
    BY <2>1, TotalIsNat
<1>2. OfText \in Maps(Indented, Nat)
  BY <1>1 DEF OfText, Maps
<1> QED
  BY <1>2, SumWeighs

LEMMA NoneWeigh == Weigh(<<>>, 0)
<1>1. Sum(OfText, Indented)[<<>>] = 0
  BY TextsWeigh DEF Weighs
<1> QED
  BY <1>1 DEF Weigh

\* Two lists of texts weigh what each does.
LEMMA BothWeigh ==
    ASSUME NEW a, NEW m, Weigh(a, m), NEW b, NEW n, Weigh(b, n)
    PROVE  Weigh(a \o b, m + n)
<1> DEFINE H == Sum(OfText, Indented)
<1>1. /\ a \in Seq(Indented) /\ b \in Seq(Indented) /\ m \in Nat /\ n \in Nat
      /\ H[a] = m /\ H[b] = n
  BY DEF Weigh
<1>2. Weighs(H, Indented)
  BY TextsWeigh
<1> HIDE DEF H
<1>3. H[a \o b] = m + n
  BY <1>1, <1>2 DEF Weighs
<1>4. a \o b \in Seq(Indented) /\ m + n \in Nat
  BY <1>1
<1> QED
  BY <1>3, <1>4 DEF Weigh, H

LEMMA ManyWeigh ==
    ASSUME NEW texts \in Seq(Seq(Nat)), NEW indent \in {0, 2, 4}
    PROVE  Weigh([k \in DOMAIN texts |-> <<texts[k], indent>>], CellsOfTexts(texts))
<1> DEFINE W == Seq(Nat)
           n == Len(texts)
           r == [k \in DOMAIN texts |-> <<texts[k], indent>>]
<1>1. n \in Nat /\ DOMAIN texts = 1 .. n /\ \A k \in 1 .. n : texts[k] \in W
  OBVIOUS
<1>2. \A k \in 1 .. n : r[k] = <<texts[k], indent>> /\ r[k] \in Indented
  <2> HIDE DEF W, n
  <2>1. ASSUME NEW k \in 1 .. n
        PROVE  r[k] = <<texts[k], indent>> /\ r[k] \in Indented
    <3>1. texts[k] \in W /\ r[k] = <<texts[k], indent>>
      BY <1>1
    <3> HIDE DEF r
    <3> QED
      BY <3>1 DEF Indented, W
  <2> QED
    BY <2>1
<1>3. r = [k \in 1 .. n |-> r[k]]
  BY <1>1
<1> HIDE DEF r, n
<1>4. r \in Seq(Indented)
  <2>1. r \in [1 .. n -> Indented]
    BY <1>2, <1>3
  <2> QED
    BY <1>1, <2>1, MappingIsSeq
<1>5. Sum(OfText, Indented)[r] = Total(Mapped(OfText, r))
  BY <1>4 DEF Sum
<1>6. Mapped(OfText, r) = [k \in DOMAIN texts |-> Total(texts[k])]
  <2>1. DOMAIN r = 1 .. n
    BY <1>3
  <2>2. \A k \in 1 .. n : OfText[r[k]] = Total(texts[k])
    BY <1>2 DEF OfText
  <2> QED
    BY <1>1, <2>1, <2>2 DEF Mapped
<1>7. Total(Mapped(OfText, r)) \in Nat
  <2>1. Mapped(OfText, r) \in Seq(Nat)
    BY <1>4, TextsWeigh, MappedIsSeq
  <2> QED
    BY <2>1, TotalIsNat
<1> QED
  BY <1>4, <1>5, <1>6, <1>7 DEF Weigh, CellsOfTexts, r

LEMMA OneWeighs ==
    ASSUME NEW text \in Seq(Nat), NEW indent \in {0, 2, 4}
    PROVE  Weigh(<<<<text, indent>>>>, Total(text))
<1> DEFINE t == <<text, indent>>
<1>1. t \in Indented /\ t[1] = text
  BY DEF Indented
<1> HIDE DEF t
<1>2. <<t>> \in Seq(Indented) /\ Mapped(OfText, <<t>>) = <<Total(text)>>
  BY <1>1 DEF OfText, Mapped
<1>3. Total(text) \in Nat
  BY TotalIsNat
<1>4. Sum(OfText, Indented)[<<t>>] = Total(text)
  <2>1. Sum(OfText, Indented)[<<t>>] = Total(<<Total(text)>>)
    BY <1>2 DEF Sum
  <2> QED
    BY <1>3, <2>1, TotalOfOne
<1> QED
  BY <1>2, <1>3, <1>4 DEF Weigh, t

LEMMA AllWeigh ==
    ASSUME NEW n \in Nat, NEW ts, NEW cs, DOMAIN ts = 1 .. n, DOMAIN cs = 1 .. n,
           ts = [k \in 1 .. n |-> ts[k]], cs = [k \in 1 .. n |-> cs[k]],
           \A k \in 1 .. n : Weigh(ts[k], cs[k])
    PROVE  Weigh(FlattenSeq(ts), Total(cs))
<1> DEFINE H == Sum(OfText, Indented)
           A == Seq(Indented)
<1>1. \A k \in 1 .. n : ts[k] \in A /\ cs[k] \in Nat /\ H[ts[k]] = cs[k]
  BY DEF Weigh
<1>2. Weighs(H, Indented)
  BY TextsWeigh
<1> HIDE DEF A, H
<1>3. ts \in Seq(A)
  BY <1>1
<1>4. cs \in Seq(Nat)
  BY <1>1
<1>5. FlattenSeq(ts) \in Seq(Indented) /\ Total(cs) \in Nat
  BY <1>3, <1>4, FlatIsSeq, TotalIsNat DEF A
<1>6. H[FlattenSeq(ts)] = Total(Mapped(H, ts))
  BY <1>2, <1>3, WeighsFlat DEF A
<1>7. Mapped(H, ts) = cs
  BY <1>1 DEF Mapped
<1> QED
  BY <1>5, <1>6, <1>7 DEF Weigh, H

\* A thread's texts weigh what its lines tell.
LEMMA ThreadWeighs ==
    ASSUME NEW thread \in P!Thread
    PROVE  Weigh(P!ThreadTexts(thread), CellsOfThread(thread))
<1>1. thread.place \in Seq(Nat) /\ thread.comments \in Seq(Seq(Nat))
  BY DEF P!Thread
<1> DEFINE a == <<<<thread.place, 2>>>>
           b == [k \in DOMAIN thread.comments |-> <<thread.comments[k], 4>>]
<1>2. Weigh(a, Total(thread.place))
  BY <1>1, OneWeighs
<1>3. Weigh(b, CellsOfTexts(thread.comments))
  BY <1>1, ManyWeigh
<1>4. P!ThreadTexts(thread) = a \o b
  BY DEF P!ThreadTexts
<1> HIDE DEF a, b
<1>5. Weigh(a \o b, Total(thread.place) + CellsOfTexts(thread.comments))
  BY <1>2, <1>3, BothWeigh
<1> QED
  BY <1>4, <1>5 DEF CellsOfThread

\* So do an event's.
LEMMA EventWeighs ==
    ASSUME NEW e \in P!Event
    PROVE  Weigh(P!EventTexts(e), CellsOfEvent(e))
<1> DEFINE threads == e.threads
           n == Len(threads)
           a == [k \in DOMAIN e.text |-> <<e.text[k], 2>>]
           ts == [k \in DOMAIN threads |-> P!ThreadTexts(threads[k])]
           cs == [k \in DOMAIN threads |-> CellsOfThread(threads[k])]
<1>1. e.text \in Seq(Seq(Nat)) /\ threads \in Seq(P!Thread)
  BY DEF P!Event
<1>2. n \in Nat /\ DOMAIN threads = 1 .. n /\ \A k \in 1 .. n : threads[k] \in P!Thread
  BY <1>1
<1>3. Weigh(a, CellsOfTexts(e.text))
  BY <1>1, ManyWeigh
<1>4. \A k \in 1 .. n : Weigh(ts[k], cs[k])
  BY <1>2, ThreadWeighs
<1>5. /\ DOMAIN ts = 1 .. n /\ DOMAIN cs = 1 .. n
      /\ ts = [k \in 1 .. n |-> ts[k]] /\ cs = [k \in 1 .. n |-> cs[k]]
  BY <1>2
<1>6. /\ P!EventTexts(e) = a \o FlattenSeq(ts)
      /\ CellsOfEvent(e) = CellsOfTexts(e.text) + Total(cs)
  BY PullsText DEF P!EventTexts, CellsOfEvent, CellsOfThreads
<1> HIDE DEF a, ts, cs, n, threads
<1>7. Weigh(FlattenSeq(ts), Total(cs))
  BY <1>2, <1>4, <1>5, AllWeigh
<1>8. Weigh(a \o FlattenSeq(ts), CellsOfTexts(e.text) + Total(cs))
  BY <1>3, <1>7, BothWeigh
<1> QED
  BY <1>6, <1>8

\* What a pull request comes to, text by text.
CellsOfPull(pr) == Total(pr.title) + CellsOfTexts(pr.body) + Total(EventCells(pr.timeline))

\* And so do all texts of a pull request.
LEMMA PullWeighs ==
    ASSUME NEW pr, pr.title \in Seq(Nat), pr.body \in Seq(Seq(Nat)), pr.timeline \in Seq(P!Event)
    PROVE  Weigh(P!TextsOf(pr), CellsOfPull(pr))
<1> DEFINE events == pr.timeline
           n == Len(events)
           a == <<<<pr.title, 0>>>>
           b == [k \in DOMAIN pr.body |-> <<pr.body[k], 0>>]
           ts == [k \in DOMAIN events |-> P!EventTexts(events[k])]
           cs == [k \in DOMAIN events |-> CellsOfEvent(events[k])]
<1>1. n \in Nat /\ DOMAIN events = 1 .. n /\ \A k \in 1 .. n : events[k] \in P!Event
  OBVIOUS
<1>2. Weigh(a, Total(pr.title))
  BY OneWeighs
<1>3. Weigh(b, CellsOfTexts(pr.body))
  BY ManyWeigh
<1>4. \A k \in 1 .. n : Weigh(ts[k], cs[k])
  BY <1>1, EventWeighs
<1>5. /\ DOMAIN ts = 1 .. n /\ DOMAIN cs = 1 .. n
      /\ ts = [k \in 1 .. n |-> ts[k]] /\ cs = [k \in 1 .. n |-> cs[k]]
  BY <1>1
<1>6. /\ P!TextsOf(pr) = a \o b \o FlattenSeq(ts)
      /\ cs = EventCells(pr.timeline)
  BY PullsText DEF P!TextsOf, EventCells
<1> HIDE DEF a, b, ts, cs, n, events
<1>7. Weigh(FlattenSeq(ts), Total(cs))
  BY <1>1, <1>4, <1>5, AllWeigh
<1>8. Weigh(a \o b, Total(pr.title) + CellsOfTexts(pr.body))
  BY <1>2, <1>3, BothWeigh
<1>9. Weigh(a \o b \o FlattenSeq(ts), Total(pr.title) + CellsOfTexts(pr.body) + Total(cs))
  BY <1>7, <1>8, BothWeigh
<1> QED
  BY <1>6, <1>9 DEF CellsOfPull

\* In one breath, or text by text.
LEMMA WeighedFlat ==
    ASSUME NEW texts, NEW cells, Weigh(texts, cells)
    PROVE  /\ Total(FlattenSeq([k \in DOMAIN texts |-> texts[k][1]])) = cells
           /\ \A k \in DOMAIN texts : texts[k] \in Indented
<1> DEFINE n == Len(texts)
           W == Seq(Nat)
           r == [k \in DOMAIN texts |-> texts[k][1]]
<1>1. texts \in Seq(Indented) /\ Sum(OfText, Indented)[texts] = cells
  BY DEF Weigh
<1>2. n \in Nat /\ DOMAIN texts = 1 .. n /\ \A k \in 1 .. n : texts[k] \in Indented
  BY <1>1
<1>3. \A t \in Indented : t[1] \in W
  BY DEF Indented
<1>4. Total(Mapped(OfText, texts)) = cells
  BY <1>1 DEF Sum
<1>5. Mapped(OfText, texts) = [k \in DOMAIN r |-> Total(r[k])]
  BY <1>2 DEF Mapped, OfText
<1>6. r \in [1 .. n -> W]
  BY <1>2, <1>3
<1> HIDE DEF r, n, W
<1>7. r \in Seq(W)
  BY <1>2, <1>6, MappingIsSeq
<1>8. Total(FlattenSeq(r)) = Total([k \in DOMAIN r |-> Total(r[k])])
  BY <1>7, TotalOfFlat DEF W
<1> QED
  BY <1>2, <1>4, <1>5, <1>8 DEF r

\* Of a pull request as GraphQL types it.
IsPull(pr) ==
    /\ pr.title \in Seq(Nat) /\ pr.body \in Seq(Seq(Nat))
    /\ pr.runs \in Seq(Run) /\ pr.statuses \in Seq(Status)
    /\ pr.timeline \in Seq(P!Event) /\ MinorIsMute(pr.timeline)

\* What GitHub says of a pull request is one.
LEMMA PullIs ==
    ASSUME NEW pr \in Details
    PROVE  IsPull(pr)
<1>1. pr \in [title: Seq(Nat), labels: BOOLEAN, body: Seq(Seq(Nat)),
              runs: Seq([status: STRING,
                         conclusion: DOMAIN P!ConclusionSignal \cup {Nothing}]),
              statuses: Seq(DOMAIN P!StatusSignal), timeline: Seq(P!Event)]
  BY ScreensAssumption DEF P!DetailsAssumption
<1>2. \A i \in DOMAIN pr.timeline :
          pr.timeline[i].kind \notin P!Substantive =>
              pr.timeline[i].text = <<>> /\ pr.timeline[i].threads = <<>>
  BY ScreensAssumption DEF P!DetailsAssumption
<1>3. MinorIsMute(pr.timeline)
  BY <1>2 DEF MinorIsMute
<1>4. /\ pr.title \in Seq(Nat) /\ pr.body \in Seq(Seq(Nat))
      /\ pr.runs \in Seq(Run) /\ pr.statuses \in Seq(Status)
      /\ pr.timeline \in Seq(P!Event)
  BY <1>1 DEF Run, Status
<1> QED
  BY <1>3, <1>4 DEF IsPull

LEMMA PlainTells ==
    ASSUME NEW doc, NEW events, NEW cells, Tells(doc, PlainLine, events, cells)
    PROVE  Tells(doc, DocLine, events, cells)
BY DEF Tells

\* The header tells the title.
LEMMA HeaderTells ==
    ASSUME NEW pr, pr.title \in Seq(Nat), NEW width, Roomy(width)
    PROVE  Tells(P!Header(pr, width), PlainLine, <<>>, Total(pr.title))
<1> DEFINE t == P!Wrapped("title", pr.title, 0, width)
           s == <<P!Line("status", Nothing)>>
           r == <<P!Line("review", Nothing)>>
           l == IF pr.labels THEN <<P!Line("labels", Nothing)>> ELSE <<>>
           c == Total(pr.title)
<1>1. Tells(t, PlainLine, <<>>, c)
  BY WrappedTells DEF TextParts
<1>2. PlainLine \in SUBSET DocLine
  BY DEF DocLine
<1>3. Tells(s, PlainLine, <<>>, 0) /\ Tells(r, PlainLine, <<>>, 0)
      /\ Tells(<<P!Line("labels", Nothing)>>, PlainLine, <<>>, 0)
  BY LineTells DEF SilentParts
<1>4. Tells(l, PlainLine, <<>>, 0)
  BY <1>2, <1>3, NothingTells
<1>5. P!Header(pr, width) = t \o (s \o r) \o l
  BY DEF P!Header
<1>6. c \in Nat
  BY <1>1 DEF Tells
<1> HIDE DEF t, s, r, l, c
<1>7. Tells(s \o r, PlainLine, <<>> \o <<>>, 0 + 0)
  BY <1>3, BothTell
<1>8. Tells(t \o (s \o r), PlainLine, <<>> \o (<<>> \o <<>>), c + (0 + 0))
  BY <1>1, <1>7, BothTell
<1>9. Tells(t \o (s \o r) \o l, PlainLine, <<>> \o (<<>> \o <<>>) \o <<>>, c + (0 + 0) + 0)
  BY <1>4, <1>8, BothTell
<1>10. <<>> \o (<<>> \o <<>>) \o <<>> = <<>> /\ c + (0 + 0) + 0 = c
  BY <1>6
<1> QED
  BY <1>5, <1>9, <1>10 DEF c

LEMMA BlankTells == Tells(P!Blank, PlainLine, <<>>, 0)
BY LineTells DEF P!Blank, SilentParts

\* The body tells every paragraph.
LEMMA BodyTells ==
    ASSUME NEW pr, pr.body \in Seq(Seq(Nat)), NEW width, Roomy(width)
    PROVE  Tells(P!Body(pr, width), PlainLine, <<>>, CellsOfTexts(pr.body))
<1> DEFINE b == IF pr.body = <<>> THEN <<P!Line("no description", Nothing)>>
                ELSE P!Prose("body", pr.body, 0, width)
           c == CellsOfTexts(pr.body)
<1>1. Tells(b, PlainLine, <<>>, c)
  <2>1. CASE pr.body = <<>>
    <3>1. c = 0
      <4>1. c = Total(<<>>)
        BY <2>1 DEF CellsOfTexts
      <4> QED
        BY <4>1, TotalOfNone
    <3>2. Tells(<<P!Line("no description", Nothing)>>, PlainLine, <<>>, 0)
      BY LineTells DEF SilentParts
    <3> QED
      BY <2>1, <3>1, <3>2
  <2>2. CASE pr.body # <<>>
    <3>1. Tells(P!Prose("body", pr.body, 0, width), PlainLine, <<>>, c)
      BY ProseTells DEF TextParts
    <3> QED
      BY <2>2, <3>1
  <2> QED
    BY <2>1, <2>2
<1>2. P!Body(pr, width) = b \o P!Blank
  BY DEF P!Body
<1>3. c \in Nat
  BY <1>1 DEF Tells
<1> HIDE DEF b, c
<1>4. Tells(b \o P!Blank, PlainLine, <<>> \o <<>>, c + 0)
  BY <1>1, BlankTells, BothTell
<1>5. <<>> \o <<>> = <<>> /\ c + 0 = c
  BY <1>3
<1> QED
  BY <1>2, <1>4, <1>5 DEF c

LEMMA JoinedNone ==
    ASSUME NEW S, NEW e \in Seq(S), NEW a \in Nat, NEW b \in Nat, NEW c \in Nat
    PROVE  /\ <<>> \o <<>> \o <<>> \o <<>> \o e = e
           /\ a + 0 + 0 + b + c = a + b + c
OBVIOUS

\* The document tells every event, in order, and all there is to read.
LEMMA DocumentTells ==
    ASSUME NEW pr, IsPull(pr), NEW width, Roomy(width), NEW all
    PROVE  Tells(P!Document(pr, width, all), DocLine,
                 FlattenSeq(Headlines(pr.timeline)), CellsOfPull(pr))
<1>0. /\ pr.title \in Seq(Nat) /\ pr.body \in Seq(Seq(Nat))
      /\ pr.runs \in Seq(Run) /\ pr.statuses \in Seq(Status)
      /\ pr.timeline \in Seq(P!Event) /\ MinorIsMute(pr.timeline)
  BY DEF IsPull
<1> DEFINE h == P!Header(pr, width)
           k == P!Checks(pr)
           b == P!Body(pr, width)
           t == P!Timeline(pr.timeline, width, all)
           e == FlattenSeq(Headlines(pr.timeline))
           m == Total(pr.title)
           n == CellsOfTexts(pr.body)
           o == Total(EventCells(pr.timeline))
<1>1. Tells(h, DocLine, <<>>, m)
  BY <1>0, HeaderTells, PlainTells
<1>2. Tells(P!Blank, DocLine, <<>>, 0)
  BY BlankTells, PlainTells
<1>3. Tells(k, DocLine, <<>>, 0)
  <2>1. k \in Seq(MuteLine)
    BY <1>0, ChecksAre
  <2> HIDE DEF k
  <2> QED
    BY <2>1, MuteTells
<1>4. Tells(b, DocLine, <<>>, n)
  BY <1>0, BodyTells, PlainTells
<1>5. Tells(t, DocLine, e, o)
  BY <1>0, TimelineTells, PlainTells
<1>6. P!Document(pr, width, all) = h \o P!Blank \o k \o b \o t
  BY DEF P!Document
<1>7. CellsOfPull(pr) = m + n + o
  BY DEF CellsOfPull
<1>8. m \in Nat /\ n \in Nat /\ o \in Nat /\ e \in Seq(Nat)
  BY <1>1, <1>4, <1>5 DEF Tells
<1> HIDE DEF h, k, b, t, e, m, n, o
<1>9. Tells(h \o P!Blank, DocLine, <<>> \o <<>>, m + 0)
  BY <1>1, <1>2, BothTell
<1>10. Tells(h \o P!Blank \o k, DocLine, <<>> \o <<>> \o <<>>, m + 0 + 0)
  BY <1>3, <1>9, BothTell
<1>11. Tells(h \o P!Blank \o k \o b, DocLine, <<>> \o <<>> \o <<>> \o <<>>, m + 0 + 0 + n)
  BY <1>4, <1>10, BothTell
<1>12. Tells(h \o P!Blank \o k \o b \o t, DocLine,
             <<>> \o <<>> \o <<>> \o <<>> \o e, m + 0 + 0 + n + o)
  BY <1>5, <1>11, BothTell
<1>13. <<>> \o <<>> \o <<>> \o <<>> \o e = e /\ m + 0 + 0 + n + o = m + n + o
  BY <1>8, JoinedNone
<1> QED
  BY <1>6, <1>7, <1>12, <1>13 DEF e

\* Only its checks have lines that count checks.
LEMMA ShownOfChecks ==
    ASSUME NEW pr, IsPull(pr), NEW width, Roomy(width), NEW all,
           NEW parts \in CheckPart
    PROVE  P!Shown(P!Document(pr, width, all), parts) = P!Shown(P!Checks(pr), parts)
<1>0. /\ pr.title \in Seq(Nat) /\ pr.body \in Seq(Seq(Nat))
      /\ pr.runs \in Seq(Run) /\ pr.statuses \in Seq(Status)
      /\ pr.timeline \in Seq(P!Event) /\ MinorIsMute(pr.timeline)
  BY DEF IsPull
<1> DEFINE h == P!Header(pr, width)
           k == P!Checks(pr)
           b == P!Body(pr, width)
           t == P!Timeline(pr.timeline, width, all)
           Plain(d) == d \in Seq(PlainLine) /\ d \in Seq(DocLine) /\ P!Shown(d, parts) = <<>>
<1>1. parts \subseteq CheckParts
  BY DEF CheckPart, CheckParts
<1>2. ASSUME NEW d, NEW e, NEW c, Tells(d, PlainLine, e, c)
      PROVE  Plain(d)
  <2>1. d \in Seq(PlainLine) /\ d \in Seq(DocLine)
    BY <1>2 DEF Tells
  <2> QED
    BY <1>1, <2>1, ShownOfPlain
<1>3. Plain(h)
  <2>1. Tells(h, PlainLine, <<>>, Total(pr.title))
    BY <1>0, HeaderTells
  <2> HIDE DEF h, Plain
  <2> QED
    BY <1>2, <2>1
<1>4. Plain(P!Blank)
  <2> HIDE DEF Plain
  <2> QED
    BY <1>2, BlankTells
<1>5. Plain(b)
  <2>1. Tells(b, PlainLine, <<>>, CellsOfTexts(pr.body))
    BY <1>0, BodyTells
  <2> HIDE DEF b, Plain
  <2> QED
    BY <1>2, <2>1
<1>6. Plain(t)
  <2>1. Tells(t, PlainLine, FlattenSeq(Headlines(pr.timeline)), Total(EventCells(pr.timeline)))
    BY <1>0, TimelineTells
  <2> HIDE DEF t, Plain
  <2> QED
    BY <1>2, <2>1
<1>7. k \in Seq(DocLine)
  <2>1. k \in Seq(MuteLine) /\ MuteLine \subseteq DocLine
    BY <1>0, ChecksAre DEF MuteLine, DocLine, PlainLine
  <2> HIDE DEF k
  <2> QED
    BY <2>1, SeqOfMore
<1>8. P!Document(pr, width, all) = h \o P!Blank \o k \o b \o t
  BY DEF P!Document
<1> DEFINE two == h \o P!Blank
           three == two \o k
           four == three \o b
<1>9. /\ h \in Seq(DocLine) /\ P!Shown(h, parts) = <<>>
      /\ b \in Seq(DocLine) /\ P!Shown(b, parts) = <<>>
      /\ t \in Seq(DocLine) /\ P!Shown(t, parts) = <<>>
      /\ P!Blank \in Seq(DocLine) /\ P!Shown(P!Blank, parts) = <<>>
  BY <1>3, <1>4, <1>5, <1>6
<1> HIDE DEF h, k, b, t
<1>10. two \in Seq(DocLine) /\ P!Shown(two, parts) = <<>> \o <<>>
  <2>1. two \in Seq(DocLine)
    BY <1>9
  <2>2. P!Shown(two, parts) = P!Shown(h, parts) \o P!Shown(P!Blank, parts)
    BY <1>9, ShownOfJoin
  <2> QED
    BY <1>9, <2>1, <2>2
<1> HIDE DEF two
<1>11. three \in Seq(DocLine) /\ P!Shown(three, parts) = <<>> \o <<>> \o P!Shown(k, parts)
  <2>1. three \in Seq(DocLine)
    BY <1>7, <1>10
  <2>2. P!Shown(three, parts) = P!Shown(two, parts) \o P!Shown(k, parts)
    BY <1>7, <1>10, ShownOfJoin
  <2> QED
    BY <1>10, <2>1, <2>2
<1> HIDE DEF three
<1>12. four \in Seq(DocLine) /\ P!Shown(four, parts) = <<>> \o <<>> \o P!Shown(k, parts) \o <<>>
  <2>1. four \in Seq(DocLine)
    BY <1>9, <1>11
  <2>2. P!Shown(four, parts) = P!Shown(three, parts) \o P!Shown(b, parts)
    BY <1>9, <1>11, ShownOfJoin
  <2> QED
    BY <1>9, <1>11, <2>1, <2>2
<1> HIDE DEF four
<1>13. P!Shown(four \o t, parts) = <<>> \o <<>> \o P!Shown(k, parts) \o <<>> \o <<>>
  <2>1. P!Shown(four \o t, parts) = P!Shown(four, parts) \o P!Shown(t, parts)
    BY <1>9, <1>12, ShownOfJoin
  <2> QED
    BY <1>9, <1>12, <2>1
<1>14. P!Shown(k, parts) \in Seq(AnyShown)
  BY <1>7, ShownOfBoth
<1>15. <<>> \o <<>> \o P!Shown(k, parts) \o <<>> \o <<>> = P!Shown(k, parts)
  <2> DEFINE v == P!Shown(k, parts)
  <2>1. v \in Seq(AnyShown)
    BY <1>14
  <2> HIDE DEF v
  <2>2. <<>> \o <<>> \o v \o <<>> \o <<>> = v
    BY <2>1
  <2> QED
    BY <2>2 DEF v
<1> QED
  BY <1>8, <1>13, <1>15 DEF two, three, four, k

\* What DocumentIsComplete says of the document of a pull request.
Complete(doc, pr, width) ==
    /\ P!FlattenSeq(P!Shown(doc, {"event"})) =
          P!FlattenSeq([i \in DOMAIN pr.timeline |->
              IF pr.timeline[i].kind = "ReviewThread" THEN <<>> ELSE <<i>>])
    /\ P!ChecksAddUp(doc, pr)
    /\ LET texts == P!TextsOf(pr)
       IN /\ P!CellsOf(P!TextShown(doc))
                = P!Total(P!FlattenSeq([k \in DOMAIN texts |-> texts[k][1]]))
          /\ \A t \in P!Range(texts) : P!WrapsWhole(t[1], width - t[2])

\* A document leaves nothing out, as wide as it is drawn.
LEMMA DocumentIsAll ==
    ASSUME NEW pr, IsPull(pr), NEW width, Roomy(width), NEW all
    PROVE  Complete(P!Document(pr, width, all), pr, width)
<1>0. /\ pr.title \in Seq(Nat) /\ pr.body \in Seq(Seq(Nat))
      /\ pr.runs \in Seq(Run) /\ pr.statuses \in Seq(Status)
      /\ pr.timeline \in Seq(P!Event) /\ MinorIsMute(pr.timeline)
  BY DEF IsPull
<1> DEFINE doc == P!Document(pr, width, all)
           texts == P!TextsOf(pr)
<1>1. doc \in Seq(DocLine) /\ EventsIn(doc) = FlattenSeq(Headlines(pr.timeline))
      /\ CellsIn(doc) = CellsOfPull(pr)
  BY DocumentTells DEF Tells
<1>2. Weigh(texts, CellsOfPull(pr))
  BY <1>0, PullWeighs
<1>3. P!ChecksAddUp(doc, pr)
  <2>1. \A parts \in CheckPart : P!Shown(doc, parts) = P!Shown(P!Checks(pr), parts)
    BY ShownOfChecks
  <2>2. {"run"} \in CheckPart /\ {"checks"} \in CheckPart /\ {"unlisted"} \in CheckPart
    BY DEF CheckPart
  <2> HIDE DEF doc
  <2>3. P!Shown(doc, {"run"}) = P!Shown(P!Checks(pr), {"run"})
    BY <2>1, <2>2
  <2>4. P!Shown(doc, {"checks"}) = P!Shown(P!Checks(pr), {"checks"})
    BY <2>1, <2>2
  <2>5. P!Shown(doc, {"unlisted"}) = P!Shown(P!Checks(pr), {"unlisted"})
    BY <2>1, <2>2
  <2> QED
    BY <1>0, <2>3, <2>4, <2>5, ChecksAdd
<1> HIDE DEF doc, texts
<1>4. FlattenSeq(P!Shown(doc, {"event"})) = FlattenSeq(Headlines(pr.timeline))
  BY <1>1, EventsShown
<1>5. Headlines(pr.timeline) = [i \in DOMAIN pr.timeline |->
              IF pr.timeline[i].kind = "ReviewThread" THEN <<>> ELSE <<i>>]
  BY DEF Headlines, Headline
<1>6. CellsOf(P!TextShown(doc)) = Total(FlattenSeq([k \in DOMAIN texts |-> texts[k][1]]))
  <2>1. CellsOf(P!TextShown(doc)) = CellsOfPull(pr)
    BY <1>1, CellsShown
  <2>2. Total(FlattenSeq([k \in DOMAIN texts |-> texts[k][1]])) = CellsOfPull(pr)
    BY <1>2, WeighedFlat
  <2> QED
    BY <2>1, <2>2
<1>7. \A t \in Range(texts) : WrapsWhole(t[1], width - t[2])
  <2>1. \A k \in DOMAIN texts : texts[k] \in Indented
    BY <1>2, WeighedFlat
  <2>2. ASSUME NEW t \in Indented
        PROVE  WrapsWhole(t[1], width - t[2])
    <3>1. t[1] \in Seq(Nat) /\ t[2] \in {0, 2, 4}
      BY DEF Indented
    <3>2. width - t[2] \in Nat \ {0}
      BY <3>1, IndentIs
    <3> QED
      BY <3>1, <3>2, WholeWrap
  <2> QED
    BY <2>1, <2>2 DEF Range
<1> QED
  BY <1>3, <1>4, <1>5, <1>6, <1>7, PullsText DEF Complete, doc, texts

-----------------------------------------------------------------------------
(* What is asked of the reader.                                            *)

PartNames ==
    {"number", "conflicts", "repository", "author", "churn", "files", "age",
     "needs your review", "you requested changes", "you approved", "no review",
     "review required", "approved", "changes requested"}
Part == [part: PartNames, cells: Nat]

LEMMA PartIs ==
    ASSUME NEW name \in PartNames, NEW cells \in Nat
    PROVE  /\ [part |-> name, cells |-> cells] \in Part
           /\ [part |-> name, cells |-> cells].part = name
           /\ [part |-> name, cells |-> cells].cells = cells
BY DEF Part

\* What FocusAssumption says of a row.
Decided(pr) ==
    /\ pr.number \in 0 .. 12
    /\ pr.decision \in {"review required", "approved", "changes requested", Nothing}

\* A phrase of the review decision is never wider than 21 cells.
LEMMA PhraseIs ==
    ASSUME NEW pr, Decided(pr)
    PROVE  P!ReviewPhrase(pr) \in Part /\ P!ReviewPhrase(pr).cells <= 21
<1> DEFINE Short == {p \in Part : p.cells <= 21}
<1>1. /\ [part |-> "needs your review", cells |-> 17] \in Short
      /\ [part |-> "you requested changes", cells |-> 21] \in Short
      /\ [part |-> "you approved", cells |-> 12] \in Short
      /\ [part |-> "no review", cells |-> 9] \in Short
      /\ [part |-> "review required", cells |-> 15] \in Short
      /\ [part |-> "approved", cells |-> 8] \in Short
      /\ [part |-> "changes requested", cells |-> 17] \in Short
  <2>1. \A name \in PartNames, cells \in Nat : cells <= 21 => [part |-> name, cells |-> cells] \in Short
    BY PartIs
  <2> HIDE DEF Short
  <2>2. {"needs your review", "you requested changes", "you approved", "no review",
         "review required", "approved", "changes requested"} \subseteq PartNames
    BY DEF PartNames
  <2>3. /\ 17 \in Nat /\ 21 \in Nat /\ 12 \in Nat /\ 9 \in Nat /\ 15 \in Nat /\ 8 \in Nat
        /\ 17 <= 21 /\ 21 <= 21 /\ 12 <= 21 /\ 9 <= 21 /\ 15 <= 21 /\ 8 <= 21
    OBVIOUS
  <2> QED
    BY <2>1, <2>2, <2>3
<1> HIDE DEF Short
<1> DEFINE decided == CASE pr.decision = Nothing -> [part |-> "no review", cells |-> 9]
                    [] pr.decision = "review required" ->
                          [part |-> pr.decision, cells |-> 15]
                    [] pr.decision = "approved" -> [part |-> pr.decision, cells |-> 8]
                    [] pr.decision = "changes requested" ->
                          [part |-> pr.decision, cells |-> 17]
<1>2. decided \in Short
  <2>1. pr.decision \in {"review required", "approved", "changes requested", Nothing}
    BY DEF Decided
  <2> QED
    BY <1>1, <2>1
<1>3. P!ReviewPhrase(pr) =
         CASE P!AwaitsMe(pr) -> [part |-> "needs your review", cells |-> 17]
           [] ~P!AwaitsMe(pr) /\ pr.mine = "changes requested" ->
                 [part |-> "you requested changes", cells |-> 21]
           [] pr.mine = "approved" -> [part |-> "you approved", cells |-> 12]
           [] OTHER -> decided
  BY DEF P!ReviewPhrase
<1> HIDE DEF decided
<1>4. P!ReviewPhrase(pr) \in Short
  BY <1>1, <1>2, <1>3
<1> QED
  BY <1>4 DEF Short

\* The least that is shown of a line is shown of it.
LEMMA ShowsAtLeast ==
    ASSUME NEW parts \in Seq(Part), NEW N, N \subseteq 0 .. Len(parts), NEW n \in N, n > 0
    PROVE  LET told == SubSeq(parts, 1, Max(N)) IN
           n \in DOMAIN told /\ n \in 1 .. Len(told) /\ told[n] = parts[n]
<1>1. Len(parts) \in Nat
  OBVIOUS
<1>2. Max(N) \in N /\ n <= Max(N)
  BY <1>1, MaxOfSome
<1> DEFINE m == Max(N)
<1> HIDE DEF m
<1>3. m \in 0 .. Len(parts) /\ n \in 1 .. m
  <2>1. n \in 0 .. Len(parts) /\ m \in 0 .. Len(parts)
    BY <1>2 DEF m
  <2>2. n \in Int /\ m \in Int /\ n <= m
    BY <1>1, <1>2, <2>1 DEF m
  <2> QED
    BY <2>1, <2>2
<1>4. n \in DOMAIN SubSeq(parts, 1, m) /\ n \in 1 .. Len(SubSeq(parts, 1, m))
      /\ SubSeq(parts, 1, m)[n] = parts[n]
  BY <1>1, <1>3
<1> QED
  BY <1>4 DEF m

LEMMA SumsOfFew ==
    ASSUME NEW a \in Nat, NEW b \in Nat, NEW c \in Nat
    PROVE  Total(<<a, b>>) = a + b /\ Total(<<a, b, c>>) = a + b + c
<1>1. <<a, b>> = Append(<<a>>, b) /\ <<a>> \in Seq(Nat) /\ <<a, b>> \in Seq(Nat)
  OBVIOUS
<1>2. Total(<<a, b>>) = a + b
  BY <1>1, TotalOfOne, TotalOfMore
<1>3. <<a, b, c>> = Append(<<a, b>>, c)
  OBVIOUS
<1>4. Total(<<a, b, c>>) = a + b + c
  BY <1>1, <1>2, <1>3, TotalOfMore
<1> QED
  BY <1>2, <1>4

\* Of the line about the focused row, what is asked of the reader comes through,
\* and with room for it that it conflicts.
FocusTells(line, pr, width) ==
    /\ P!Contains(line, P!ReviewPhrase(pr))
    /\ width >= 80 /\ pr.conflicting => \E k \in DOMAIN line : line[k].part = "conflicts"

LEMMA AboutIs == P!About \in Seq(Part) /\ Len(P!About) = 5
<1> DEFINE a == [part |-> "repository", cells |-> 40]
           b == [part |-> "author", cells |-> 12]
           c == [part |-> "churn", cells |-> 11]
           d == [part |-> "files", cells |-> 8]
           e == [part |-> "age", cells |-> 3]
<1>1. {"repository", "author", "churn", "files", "age"} \subseteq PartNames
  BY DEF PartNames
<1>2. 40 \in Nat /\ 12 \in Nat /\ 11 \in Nat /\ 8 \in Nat /\ 3 \in Nat
  OBVIOUS
<1>3. a \in Part /\ b \in Part /\ c \in Part /\ d \in Part /\ e \in Part
  BY <1>1, <1>2, PartIs
<1>4. P!About = <<a, b, c, d, e>>
  BY DEF P!About
<1> HIDE DEF a, b, c, d, e
<1>5. <<a, b, c, d, e>> \in Seq(Part) /\ Len(<<a, b, c, d, e>>) = 5
  BY <1>3
<1> QED
  BY <1>4, <1>5

LEMMA OneThenMore ==
    ASSUME NEW S, NEW x \in S, NEW s \in Seq(S)
    PROVE  /\ <<x>> \o s \in Seq(S) /\ Len(<<x>> \o s) = 1 + Len(s)
           /\ (<<x>> \o s)[1] = x
OBVIOUS

LEMMA TwoThenMore ==
    ASSUME NEW S, NEW x \in S, NEW y \in S, NEW s \in Seq(S)
    PROVE  LET t == <<x, y>> \o s IN
           /\ t \in Seq(S) /\ Len(t) = 2 + Len(s) /\ Len(t) \in Nat
           /\ t[1] = x /\ t[2] = y
           /\ Len(s) > 0 => t[3] = s[1]
OBVIOUS

\* The line under the list says what is asked of the reader and, with 80 cells or
\* more, that the pull request conflicts.
LEMMA FocusLineTells ==
    ASSUME NEW pr, Decided(pr), NEW width, Roomy(width)
    PROVE  FocusTells(P!FocusLine(pr, width), pr, width)
<1> DEFINE number == [part |-> "number", cells |-> pr.number]
           phrase == P!ReviewPhrase(pr)
           clash == [part |-> "conflicts", cells |-> 9]
           rest == (IF pr.conflicting THEN <<clash>> ELSE <<>>) \o P!About
           parts == <<number, phrase>> \o rest
           UpToThe(n) == Total([k \in 1 .. n |-> parts[k].cells + 3]) - 3
           N == {n \in 0 .. Len(parts) : UpToThe(n) <= (width - 3) - (IF n < Len(parts) THEN 1 ELSE 0)}
<1>1. number \in Part /\ number.cells \in 0 .. 12 /\ phrase \in Part /\ phrase.cells \in 0 .. 21
  <2>1. phrase \in Part /\ phrase.cells <= 21
    BY PhraseIs
  <2>2. phrase.cells \in Nat
    BY <2>1 DEF Part
  <2>3. pr.number \in 0 .. 12 /\ pr.number \in Nat /\ "number" \in PartNames
    <3>1. "number" \in PartNames
      BY DEF PartNames
    <3>2. pr.number \in 0 .. 12
      BY DEF Decided
    <3> DEFINE n == pr.number
    <3> HIDE DEF n
    <3>3. n \in 0 .. 12 => n \in Nat
      OBVIOUS
    <3> QED
      BY <3>1, <3>2, <3>3 DEF n
  <2> HIDE DEF phrase
  <2>4. number \in Part /\ number.cells = pr.number
    BY <2>3, PartIs
  <2> QED
    BY <2>1, <2>2, <2>3, <2>4
<1>2. clash \in Part /\ clash.part = "conflicts" /\ clash.cells = 9
  <2>1. "conflicts" \in PartNames /\ 9 \in Nat
    BY DEF PartNames
  <2> QED
    BY <2>1, PartIs
<1>3. P!About \in Seq(Part) /\ Len(P!About) = 5
  BY AboutIs
<1> DEFINE middle == IF pr.conflicting THEN <<clash>> ELSE <<>>
<1>4. /\ rest \in Seq(Part) /\ Len(rest) \in Nat
      /\ pr.conflicting => Len(rest) = 6 /\ rest[1] = clash
  <2>1. middle \in Seq(Part) /\ (pr.conflicting => middle = <<clash>>)
    BY <1>2
  <2>2. rest = middle \o P!About
    OBVIOUS
  <2> HIDE DEF middle, rest, clash
  <2>3. rest \in Seq(Part) /\ Len(rest) \in Nat
    BY <1>3, <2>1, <2>2
  <2>4. <<clash>> \o P!About \in Seq(Part) /\ Len(<<clash>> \o P!About) = 1 + Len(P!About)
        /\ (<<clash>> \o P!About)[1] = clash
    BY <1>2, <1>3, OneThenMore
  <2>5. pr.conflicting => rest = <<clash>> \o P!About
    BY <2>1, <2>2
  <2>6. Len(<<clash>> \o P!About) = 6
    BY <1>3, <2>4
  <2> QED
    BY <2>3, <2>4, <2>5, <2>6
<1>5. P!FocusLine(pr, width) = SubSeq(parts, 1, Max(N))
  <2>1. P!FocusParts(pr) = <<number, phrase>> \o (IF pr.conflicting THEN <<clash>> ELSE <<>>) \o P!About
    BY DEF P!FocusParts
  <2>2. P!FocusParts(pr) = parts
    <3>1. /\ <<number, phrase>> \in Seq(Part) /\ P!About \in Seq(Part)
          /\ (IF pr.conflicting THEN <<clash>> ELSE <<>>) \in Seq(Part)
      BY <1>1, <1>2, <1>3
    <3> HIDE DEF number, phrase, clash
    <3> QED
      BY <2>1, <3>1, ConcatIsAssociative
  <2> QED
    BY <2>2, PullsText DEF P!FocusLine
<1> HIDE DEF number, phrase, clash, rest
<1>6. /\ parts \in Seq(Part) /\ Len(parts) = 2 + Len(rest) /\ Len(parts) \in Nat
      /\ parts[1] = number /\ parts[2] = phrase
      /\ pr.conflicting => Len(parts) = 8 /\ parts[3] = clash
  <2>1. /\ parts \in Seq(Part) /\ Len(parts) = 2 + Len(rest) /\ Len(parts) \in Nat
        /\ parts[1] = number /\ parts[2] = phrase
        /\ Len(rest) > 0 => parts[3] = rest[1]
    BY <1>1, <1>4, TwoThenMore
  <2> HIDE DEF parts
  <2>2. Len(rest) = 6 => Len(parts) = 8 /\ parts[3] = rest[1]
    BY <1>4, <2>1
  <2> QED
    BY <1>4, <2>1, <2>2
<1> HIDE DEF parts
<1>7. width \in Nat /\ width >= 40
  BY DEF Roomy
<1>8. 2 \in N
  <2>1. [k \in 1 .. 2 |-> parts[k].cells + 3] = <<number.cells + 3, phrase.cells + 3>>
    BY <1>6
  <2>2. UpToThe(2) = number.cells + 3 + (phrase.cells + 3) - 3
    <3> DEFINE a == number.cells + 3
               b == phrase.cells + 3
    <3>1. a \in Nat /\ b \in Nat
      BY <1>1
    <3> HIDE DEF a, b
    <3>2. Total(<<a, b>>) = a + b
      BY <3>1, SumsOfFew
    <3>3. UpToThe(2) = Total(<<a, b>>) - 3
      BY <2>1 DEF a, b
    <3> HIDE DEF UpToThe
    <3> QED
      BY <3>1, <3>2, <3>3 DEF a, b
  <2>3. UpToThe(2) <= (width - 3) - 1 /\ UpToThe(2) <= (width - 3) - 0
    BY <1>1, <1>7, <2>2
  <2>4. 2 \in 0 .. Len(parts)
    BY <1>4, <1>6
  <2> HIDE DEF UpToThe
  <2> QED
    BY <2>3, <2>4
<1>9. ASSUME width >= 80, pr.conflicting
      PROVE  3 \in N
  <2>1. [k \in 1 .. 3 |-> parts[k].cells + 3]
           = <<number.cells + 3, phrase.cells + 3, clash.cells + 3>>
    BY <1>6, <1>9
  <2>2. UpToThe(3) = number.cells + 3 + (phrase.cells + 3) + (clash.cells + 3) - 3
    <3> DEFINE a == number.cells + 3
               b == phrase.cells + 3
               c == clash.cells + 3
    <3>1. a \in Nat /\ b \in Nat /\ c \in Nat
      BY <1>1, <1>2
    <3> HIDE DEF a, b, c
    <3>2. Total(<<a, b, c>>) = a + b + c
      BY <3>1, SumsOfFew
    <3>3. UpToThe(3) = Total(<<a, b, c>>) - 3
      BY <2>1 DEF a, b, c
    <3> HIDE DEF UpToThe
    <3> QED
      BY <3>1, <3>2, <3>3 DEF a, b, c
  <2>3. UpToThe(3) <= (width - 3) - 1
    BY <1>1, <1>2, <1>7, <1>9, <2>2
  <2>4. 3 \in 0 .. Len(parts) /\ 3 < Len(parts)
    BY <1>6, <1>9
  <2> HIDE DEF UpToThe
  <2> QED
    BY <2>3, <2>4
<1>10. N \subseteq 0 .. Len(parts)
  OBVIOUS
<1> DEFINE line == SubSeq(parts, 1, Max(N))
<1>11. ASSUME NEW n \in N, n > 0
       PROVE  n \in DOMAIN line /\ n \in 1 .. Len(line) /\ line[n] = parts[n]
  <2> HIDE DEF N
  <2> QED
    BY <1>6, <1>10, <1>11, ShowsAtLeast
<1> HIDE DEF N, line
<1>12. P!Contains(line, P!ReviewPhrase(pr))
  <2>1. 2 \in 1 .. Len(line) /\ line[2] = phrase
    BY <1>6, <1>8, <1>11
  <2> QED
    BY <2>1 DEF P!Contains, phrase
<1>13. ASSUME width >= 80, pr.conflicting
       PROVE  \E k \in DOMAIN line : line[k].part = "conflicts"
  <2>1. 3 \in N
    BY <1>9, <1>13
  <2>2. 3 \in DOMAIN line /\ line[3] = clash
    BY <1>6, <1>11, <1>13, <2>1
  <2> QED
    BY <1>2, <2>2
<1> QED
  BY <1>5, <1>12, <1>13 DEF FocusTells, line
=============================================================================
