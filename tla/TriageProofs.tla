---------------------------- MODULE TriageProofs ----------------------------
(***************************************************************************)
(* What is proved of the notifications surface, for any rows, repositories *)
(* and triage modes: its types, that no notification is hidden by triage   *)
(* that fails, is dropped or is overtaken by a refresh, and that the       *)
(* cursor keeps to the rows and moves on to the next unread one.           *)
(*                                                                         *)
(* The display order is a sort, grouped or not, so it is first shown to be *)
(* one: the relation it sorts by orders the rows (a group's place is its   *)
(* first row's, and rows have a first one because numbers have a least     *)
(* one), and what sorts by counting predecessors lists every element once, *)
(* in order.                                                               *)
(***************************************************************************)
EXTENDS Triage, FiniteSetTheorems, NaturalsInduction, TLAPS

\* An order of the elements of S, all of them and strict.
OrdersAll(S, R) ==
    /\ \A i \in S : <<i, i>> \notin R
    /\ \A i, j, k \in S : <<i, j>> \in R /\ <<j, k>> \in R => <<i, k>> \in R
    /\ \A i, j \in S : i # j => <<i, j>> \in R \/ <<j, i>> \in R

\* What Sorted makes of such an order: each element at the place that its
\* predecessors leave it, and so all of them, in order.
LEMMA SortedIs ==
    ASSUME NEW S, IsFiniteSet(S), NEW R, OrdersAll(S, R),
           NEW s, s = Sorted(S, R)
    PROVE  /\ s \in [1 .. Cardinality(S) -> S]
           /\ \A m, k \in 1 .. Cardinality(S) : m < k => <<s[m], s[k]>> \in R
           /\ \A i \in S : \E m \in 1 .. Cardinality(S) : s[m] = i
<1> DEFINE n == Cardinality(S)
           first(i) == {j \in S : <<j, i>> \in R}
           rank == [i \in S |-> Cardinality(first(i)) + 1]
<1>1. n \in Nat /\ IsFiniteSet(1 .. n) /\ Cardinality(1 .. n) = n
  BY FS_CardinalityType, FS_Interval
<1>2. ASSUME NEW i \in S
      PROVE  /\ IsFiniteSet(first(i)) /\ Cardinality(first(i)) \in Nat
             /\ Cardinality(first(i)) <= n - 1
  <2>1. IsFiniteSet(S \ {i}) /\ Cardinality(S \ {i}) = n - 1
    BY FS_RemoveElement
  <2>2. first(i) \subseteq S \ {i}
    BY DEF OrdersAll
  <2> HIDE DEF first
  <2>3. IsFiniteSet(first(i)) /\ Cardinality(first(i)) <= Cardinality(S \ {i})
    BY <2>1, <2>2, FS_Subset
  <2> QED
    BY <2>1, <2>3, FS_CardinalityType
<1>3. ASSUME NEW i \in S, NEW j \in S, <<i, j>> \in R
      PROVE  Cardinality(first(i)) < Cardinality(first(j))
  <2>1. i \in first(j) /\ first(i) \subseteq first(j) \ {i}
    BY <1>3 DEF OrdersAll
  <2>2. IsFiniteSet(first(j)) /\ Cardinality(first(j)) \in Nat /\ Cardinality(first(i)) \in Nat
    BY <1>2
  <2> HIDE DEF first
  <2>3. IsFiniteSet(first(j) \ {i}) /\ Cardinality(first(j) \ {i}) = Cardinality(first(j)) - 1
    BY <2>1, <2>2, FS_RemoveElement
  <2>4. Cardinality(first(i)) <= Cardinality(first(j) \ {i})
    BY <2>1, <2>3, FS_Subset
  <2> QED
    BY <2>2, <2>3, <2>4
<1>4. \A i, j \in S : i # j => Cardinality(first(i)) # Cardinality(first(j))
  <2> SUFFICES ASSUME NEW i \in S, NEW j \in S, i # j
               PROVE  Cardinality(first(i)) # Cardinality(first(j))
    OBVIOUS
  <2>1. <<i, j>> \in R \/ <<j, i>> \in R
    BY DEF OrdersAll
  <2>2. Cardinality(first(i)) \in Nat /\ Cardinality(first(j)) \in Nat
    BY <1>2
  <2> HIDE DEF first
  <2> QED
    BY <1>3, <2>1, <2>2
<1> HIDE DEF first
<1>5. rank \in Injection(S, 1 .. n)
  <2>1. \A i \in S : rank[i] \in 1 .. n
    BY <1>1, <1>2
  <2>2. \A i, j \in S : rank[i] = rank[j] => i = j
    BY <1>2, <1>4
  <2> QED
    BY <2>1, <2>2 DEF Injection, IsInjective
<1>6. rank \in Surjection(S, 1 .. n)
  BY <1>1, <1>5, FS_Injection
<1>7. \A m \in 1 .. n : \E i \in S : Cardinality(first(i)) = m - 1
  <2>1. \A m \in 1 .. n : \E i \in S : rank[i] = m
    BY <1>6 DEF Surjection
  <2> QED
    BY <1>1, <1>2, <2>1
<1>8. s = [m \in 1 .. n |-> CHOOSE i \in S : Cardinality(first(i)) = m - 1]
  <2>1. s = Ranked(S, R)
    BY DEF Sorted, The
  <2> QED
    BY <2>1 DEF Ranked, first
<1>9. \A m \in 1 .. n : s[m] \in S /\ Cardinality(first(s[m])) = m - 1
  BY <1>7, <1>8
<1>10. \A m, k \in 1 .. n : m < k => <<s[m], s[k]>> \in R
  <2> SUFFICES ASSUME NEW m \in 1 .. n, NEW k \in 1 .. n, m < k
               PROVE  <<s[m], s[k]>> \in R
    OBVIOUS
  <2>1. /\ s[m] \in S /\ s[k] \in S
        /\ Cardinality(first(s[m])) = m - 1 /\ Cardinality(first(s[k])) = k - 1
        /\ m \in Nat /\ k \in Nat
    BY <1>1, <1>9
  <2>2. s[m] # s[k] /\ ~(<<s[k], s[m]>> \in R)
    BY <1>3, <2>1
  <2> QED
    BY <2>1, <2>2 DEF OrdersAll
<1>11. ASSUME NEW i \in S
       PROVE  \E m \in 1 .. n : s[m] = i
  <2> DEFINE m == Cardinality(first(i)) + 1
  <2>1. m \in 1 .. n /\ Cardinality(first(i)) = m - 1
    BY <1>1, <1>2
  <2> HIDE DEF m
  <2>2. s[m] = i
    BY <1>4, <1>9, <2>1
  <2> QED
    BY <2>1, <2>2
<1> QED
  BY <1>8, <1>9, <1>10, <1>11

-----------------------------------------------------------------------------
(* The display order is one.                                               *)

\* Numbers have a least one.
LEMMA LeastOf ==
    ASSUME NEW S \in SUBSET Nat, S # {}
    PROVE  \E n \in S : \A m \in S : n <= m
<1>1. PICK n \in S : \A m \in S : ~(<<m, n>> \in OpToRel(<, Nat))
  BY NatLessThanWellFounded, WFMin
<1>2. \A m \in Nat : m < n => <<m, n>> \in OpToRel(<, Nat)
  BY DEF OpToRel
<1>3. ASSUME NEW m \in S
      PROVE  n <= m
  <2>1. n \in Nat /\ m \in Nat
    OBVIOUS
  <2>2. ~(m < n)
    BY <1>1, <1>2, <2>1
  <2> QED
    BY <2>1, <2>2
<1> QED
  BY <1>3

LEMMA FlagsAre ==
    ASSUME NEW p \in Flags
    PROVE  /\ DOMAIN p \subseteq Ids /\ DOMAIN p \subseteq Nat
           /\ \A i \in DOMAIN p : p[i] = TRUE \/ p[i] = FALSE
<1>1. PICK S \in SUBSET Ids : p \in [S -> BOOLEAN]
  BY DEF Flags
<1> QED
  BY <1>1, TriageAssumption

\* Unread before read where read rows sink, else the newer first.
LEMMA EarlierOrders ==
    ASSUME NEW p \in Flags, NEW mode
    PROVE  /\ \A i \in DOMAIN p : ~Earlier(i, i, p, mode)
           /\ \A i, j, k \in DOMAIN p :
                Earlier(i, j, p, mode) /\ Earlier(j, k, p, mode) => Earlier(i, k, p, mode)
           /\ \A i, j \in DOMAIN p : i # j => Earlier(i, j, p, mode) \/ Earlier(j, i, p, mode)
           /\ \A i, j \in DOMAIN p : ~(Earlier(i, j, p, mode) /\ Earlier(j, i, p, mode))
<1>1. DOMAIN p \subseteq Nat /\ \A i \in DOMAIN p : p[i] = TRUE \/ p[i] = FALSE
  BY FlagsAre
<1>2. \A i, j \in DOMAIN p :
        Earlier(i, j, p, mode) <=>
          IF mode = "sink" THEN (p[i] = TRUE /\ p[j] = FALSE) \/ (p[i] = p[j] /\ i < j)
          ELSE i < j
  BY <1>1 DEF Earlier
<1>3. \A i, j, k \in DOMAIN p :
        Earlier(i, j, p, mode) /\ Earlier(j, k, p, mode) => Earlier(i, k, p, mode)
  <2> SUFFICES ASSUME NEW i \in DOMAIN p, NEW j \in DOMAIN p, NEW k \in DOMAIN p,
                      Earlier(i, j, p, mode), Earlier(j, k, p, mode)
               PROVE  Earlier(i, k, p, mode)
    OBVIOUS
  <2> QED
    BY <1>1, <1>2
<1>4. \A i, j \in DOMAIN p : i # j => Earlier(i, j, p, mode) \/ Earlier(j, i, p, mode)
  <2> SUFFICES ASSUME NEW i \in DOMAIN p, NEW j \in DOMAIN p, i # j
               PROVE  Earlier(i, j, p, mode) \/ Earlier(j, i, p, mode)
    OBVIOUS
  <2>1. i < j \/ j < i
    BY <1>1
  <2>2. p[i] = p[j] \/ (p[i] = TRUE /\ p[j] = FALSE) \/ (p[j] = TRUE /\ p[i] = FALSE)
    BY <1>1
  <2> QED
    BY <1>2, <2>1, <2>2
<1>5. \A i, j \in DOMAIN p : ~(Earlier(i, j, p, mode) /\ Earlier(j, i, p, mode))
  <2> SUFFICES ASSUME NEW i \in DOMAIN p, NEW j \in DOMAIN p,
                      Earlier(i, j, p, mode), Earlier(j, i, p, mode)
               PROVE  FALSE
    OBVIOUS
  <2> QED
    BY <1>1, <1>2
<1> QED
  BY <1>3, <1>4, <1>5

LEMMA ShownIs ==
    ASSUME NEW p \in Flags, NEW mode
    PROVE  /\ Shown(p, mode) \subseteq DOMAIN p /\ DOMAIN p \subseteq Ids
           /\ Shown(p, mode) \subseteq Nat
           /\ IsFiniteSet(Shown(p, mode))
<1>1. Shown(p, mode) \subseteq DOMAIN p /\ DOMAIN p \subseteq Ids
  BY FlagsAre DEF Shown
<1> QED
  BY <1>1, TriageAssumption, FS_Subset

\* Some rows have a first one.
LEMMA FirstOf ==
    ASSUME NEW p \in Flags, NEW mode, NEW X \in SUBSET DOMAIN p, X # {}
    PROVE  \E j \in X : \A k \in X \ {j} : Earlier(j, k, p, mode)
<1>1. DOMAIN p \subseteq Nat /\ \A i \in DOMAIN p : p[i] = TRUE \/ p[i] = FALSE
  BY FlagsAre
<1> DEFINE U == {j \in X : p[j] = TRUE}
<1>2. CASE mode = "sink" /\ U # {}
  <2>1. PICK j \in U : \A k \in U : j <= k
    BY <1>1, <1>2, LeastOf
  <2>2. \A k \in X \ {j} : Earlier(j, k, p, mode)
    BY <1>1, <1>2, <2>1 DEF Earlier
  <2> QED
    BY <2>1, <2>2
<1>3. CASE ~(mode = "sink" /\ U # {})
  <2>1. PICK j \in X : \A k \in X : j <= k
    BY <1>1, LeastOf
  <2>2. \A k \in X \ {j} : j < k /\ (mode = "sink" => p[j] = p[k])
    <3> SUFFICES ASSUME NEW k \in X, k # j
                 PROVE  j < k /\ (mode = "sink" => p[j] = p[k])
      OBVIOUS
    <3>1. j \in Nat /\ k \in Nat /\ j <= k
      BY <1>1, <2>1
    <3>2. mode = "sink" => p[j] = FALSE /\ p[k] = FALSE
      BY <1>1, <1>3
    <3>3. j < k
      BY <3>1
    <3> QED
      BY <3>2, <3>3
  <2>3. \A k \in X \ {j} : Earlier(j, k, p, mode)
    BY <2>2 DEF Earlier
  <2> QED
    BY <2>1, <2>3
<1> QED
  BY <1>2, <1>3

\* A group's place is its first row's.
LEMMA LeadLeads ==
    ASSUME NEW p \in Flags, NEW mode, NEW i \in Shown(p, mode)
    PROVE  /\ Lead(i, p, mode) \in Shown(p, mode)
           /\ RepoOf[Lead(i, p, mode)] = RepoOf[i]
           /\ \A k \in Shown(p, mode) \ {Lead(i, p, mode)} :
                RepoOf[k] = RepoOf[i] => Earlier(Lead(i, p, mode), k, p, mode)
<1> DEFINE X == {j \in Shown(p, mode) : RepoOf[j] = RepoOf[i]}
<1>1. X \in SUBSET DOMAIN p /\ X # {}
  BY ShownIs
<1>2. PICK j \in X : \A k \in X \ {j} : Earlier(j, k, p, mode)
  BY <1>1, FirstOf
<1>3. \E l \in Shown(p, mode) :
        /\ RepoOf[l] = RepoOf[i]
        /\ \A k \in Shown(p, mode) \ {l} : RepoOf[k] = RepoOf[i] => Earlier(l, k, p, mode)
  BY <1>2
<1> QED
  BY <1>3 DEF Lead

LEMMA LeadIsTheGroups ==
    ASSUME NEW p \in Flags, NEW mode, NEW i \in Shown(p, mode), NEW j \in Shown(p, mode)
    PROVE  Lead(i, p, mode) = Lead(j, p, mode) <=> RepoOf[i] = RepoOf[j]
<1>1. ASSUME RepoOf[i] = RepoOf[j], Lead(i, p, mode) # Lead(j, p, mode)
      PROVE  FALSE
  <2> DEFINE k == Lead(i, p, mode)
             l == Lead(j, p, mode)
  <2>1. /\ k \in Shown(p, mode) /\ l \in Shown(p, mode)
        /\ RepoOf[k] = RepoOf[i] /\ RepoOf[l] = RepoOf[i]
    BY <1>1, LeadLeads
  <2>2. Earlier(k, l, p, mode) /\ Earlier(l, k, p, mode)
    BY <1>1, <2>1, LeadLeads
  <2> HIDE DEF k, l
  <2> QED
    BY <2>1, <2>2, ShownIs, EarlierOrders
<1> QED
  BY <1>1, LeadLeads

LEMMA BeforeOrders ==
    ASSUME NEW p \in Flags, NEW mode, NEW byRepo \in BOOLEAN
    PROVE  LET shown == Shown(p, mode) IN
           OrdersAll(shown, {r \in shown \X shown : Before(r[1], r[2], p, mode, byRepo)})
<1> DEFINE shown == Shown(p, mode)
           R == {r \in shown \X shown : Before(r[1], r[2], p, mode, byRepo)}
           L(i) == Lead(i, p, mode)
<1>1. \A i, j \in shown : <<i, j>> \in R <=> Before(i, j, p, mode, byRepo)
  OBVIOUS
<1>2. /\ \A i, j \in shown : L(i) = L(j) <=> RepoOf[i] = RepoOf[j]
      /\ \A i \in shown : L(i) \in shown
  BY LeadIsTheGroups, LeadLeads
<1>3. \A i, j \in shown :
        Before(i, j, p, mode, byRepo) <=>
          IF byRepo /\ L(i) # L(j) THEN Earlier(L(i), L(j), p, mode)
          ELSE Earlier(i, j, p, mode)
  BY <1>2 DEF Before
<1>4. /\ \A i \in shown : ~Earlier(i, i, p, mode)
      /\ \A i, j, k \in shown :
           Earlier(i, j, p, mode) /\ Earlier(j, k, p, mode) => Earlier(i, k, p, mode)
      /\ \A i, j \in shown : i # j => Earlier(i, j, p, mode) \/ Earlier(j, i, p, mode)
      /\ \A i, j \in shown : ~(Earlier(i, j, p, mode) /\ Earlier(j, i, p, mode))
  BY ShownIs, EarlierOrders
<1> HIDE DEF shown, R, L
<1>5. \A i \in shown : <<i, i>> \notin R
  BY <1>1, <1>3, <1>4
<1>6. \A i, j, k \in shown : <<i, j>> \in R /\ <<j, k>> \in R => <<i, k>> \in R
  <2> SUFFICES ASSUME NEW i \in shown, NEW j \in shown, NEW k \in shown,
                      Before(i, j, p, mode, byRepo), Before(j, k, p, mode, byRepo)
               PROVE  Before(i, k, p, mode, byRepo)
    BY <1>1
  <2> QED
    BY <1>2, <1>3, <1>4
<1>7. \A i, j \in shown : i # j => <<i, j>> \in R \/ <<j, i>> \in R
  BY <1>1, <1>2, <1>3, <1>4
<1>8. OrdersAll(shown, R)
  BY <1>5, <1>6, <1>7 DEF OrdersAll
<1> QED
  BY <1>8 DEF shown, R

\* Every row that is shown is listed, once, and in order.
LEMMA OrderIs ==
    ASSUME NEW p \in Flags, NEW mode \in Modes, NEW byRepo \in BOOLEAN,
           NEW s, s = Orders[<<p, mode, byRepo>>]
    PROVE  LET n == Cardinality(Shown(p, mode)) IN
           /\ n \in Nat
           /\ s \in [1 .. n -> Shown(p, mode)]
           /\ \A m, k \in 1 .. n : m < k => Before(s[m], s[k], p, mode, byRepo)
           /\ \A i \in Shown(p, mode) : \E m \in 1 .. n : s[m] = i
<1> DEFINE shown == Shown(p, mode)
           R == {r \in shown \X shown : Before(r[1], r[2], p, mode, byRepo)}
<1>1. s = Order(p, mode, byRepo)
  BY DEF Orders
<1>2. s = Sorted(shown, R)
  BY <1>1 DEF Order
<1>3. IsFiniteSet(shown) /\ OrdersAll(shown, R)
  BY ShownIs, BeforeOrders
<1>4. \A i, j : <<i, j>> \in R => Before(i, j, p, mode, byRepo)
  OBVIOUS
<1> HIDE DEF shown, R
<1>5. /\ s \in [1 .. Cardinality(shown) -> shown]
      /\ \A m, k \in 1 .. Cardinality(shown) : m < k => <<s[m], s[k]>> \in R
      /\ \A i \in shown : \E m \in 1 .. Cardinality(shown) : s[m] = i
  BY <1>2, <1>3, SortedIs
<1> QED
  BY <1>3, <1>4, <1>5, FS_CardinalityType DEF shown

-----------------------------------------------------------------------------
(* The types.                                                              *)

\* clamp_cursor never goes beyond the last row, nor moves what is before it.
LEMMA ClampedIs ==
    ASSUME NEW c \in Nat, NEW n \in Nat
    PROVE  /\ Clamped(c, n) \in Nat /\ Clamped(c, n) <= c
           /\ n > 0 => Clamped(c, n) < n
           /\ c < n => Clamped(c, n) = c
<1>1. CASE n = 0
  BY <1>1 DEF Clamped
<1>2. CASE n > 0
  <2>1. \E z \in {c, n - 1} : \A u \in {c, n - 1} : z <= u
    <3>1. CASE c <= n - 1
      BY <3>1
    <3>2. CASE ~(c <= n - 1)
      BY <3>2
    <3> QED
      BY <3>1, <3>2
  <2>2. /\ Min({c, n - 1}) \in {c, n - 1}
        /\ \A u \in {c, n - 1} : Min({c, n - 1}) <= u
    BY <2>1 DEF Min
  <2>3. Clamped(c, n) = Min({c, n - 1})
    BY <1>2 DEF Clamped
  <2> QED
    BY <1>2, <2>2, <2>3
<1> QED
  BY <1>1, <1>2

LEMMA ListedIs ==
    ASSUME NEW p \in Flags
    PROVE  Listed(p) \in Nat /\ (Listed(p) = 0 <=> Shown(p, triage) = {})
BY ShownIs, FS_CardinalityType, FS_EmptySet DEF Listed

LEMMA NothingIsFlags == <<>> \in Flags /\ DOMAIN <<>> = {} /\ Range(<<>>) = {}
<1>1. <<>> \in [{} -> BOOLEAN]
  OBVIOUS
<1> QED
  BY <1>1 DEF Flags, Range

\* What is read from the cache is as the cache has it.
LEMMA MatchingIs ==
    ASSUME NEW flags \in [Ids -> BOOLEAN], NEW q
    PROVE  /\ Matching(flags, q) \in Flags
           /\ \A i \in DOMAIN Matching(flags, q) : i \in Ids /\ Matching(flags, q)[i] = flags[i]
<1> DEFINE S == {i \in Ids : (q.unreadOnly => flags[i]) /\ q.repo \in {None, RepoOf[i]}}
<1>1. Matching(flags, q) = [i \in S |-> flags[i]]
  BY DEF Matching, Restrict
<1>2. S \in SUBSET Ids
  OBVIOUS
<1> HIDE DEF S
<1>3. Matching(flags, q) \in [S -> BOOLEAN]
  BY <1>1, <1>2
<1> QED
  BY <1>1, <1>2, <1>3 DEF Flags

LEMMA WithIs ==
    ASSUME NEW flags \in [Ids -> BOOLEAN], NEW ids, NEW unread \in BOOLEAN
    PROVE  With(flags, ids, unread) \in [Ids -> BOOLEAN]
BY DEF With

\* A flush sends notifications.
LEMMA ToggledIs ==
    ASSUME TypeOK, NEW unread
    PROVE  Toggled(unread) \in Seq(Ids) /\ Range(Toggled(unread)) \subseteq Ids
<1> DEFINE of == {k \in DOMAIN pending : pending[k][2] = unread}
           R == {r \in of \X of : r[1] < r[2]}
           places == Sorted(of, R)
<1>1. of \subseteq 1 .. Len(pending) /\ Len(pending) \in Nat
      /\ \A k \in of : pending[k][1] \in Ids
  BY DEF TypeOK
<1>2. IsFiniteSet(of) /\ of \subseteq Nat
  <2> HIDE DEF of
  <2>1. IsFiniteSet(1 .. Len(pending))
    BY <1>1, FS_Interval
  <2>2. of \in SUBSET (1 .. Len(pending)) /\ of \subseteq Nat
    BY <1>1
  <2>3. IsFiniteSet(of)
    BY <2>1, <2>2, FS_Subset
  <2> QED
    BY <2>2, <2>3
<1>3. OrdersAll(of, R)
  <2>1. \A i, j \in of : <<i, j>> \in R <=> i < j
    OBVIOUS
  <2> HIDE DEF of, R
  <2> QED
    BY <1>2, <2>1 DEF OrdersAll
<1>4. Toggled(unread) = [n \in DOMAIN places |-> pending[places[n]][1]]
  BY DEF Toggled
<1> HIDE DEF of, R
<1>5. places \in [1 .. Cardinality(of) -> of] /\ Cardinality(of) \in Nat
  BY <1>2, <1>3, SortedIs, FS_CardinalityType
<1> HIDE DEF places
<1>6. Toggled(unread) \in [1 .. Cardinality(of) -> Ids]
  BY <1>1, <1>4, <1>5
<1> QED
  BY <1>5, <1>6 DEF Range

\* The row under the cursor is one that is shown.
LEMMA FocusedIs ==
    ASSUME TypeOK
    PROVE  /\ Rows \in [1 .. Listed(page) -> Shown(page, triage)]
           /\ Listed(page) \in Nat
           /\ Focused = IF cursor < Listed(page) THEN Rows[cursor + 1] ELSE None
           /\ Focused # None <=> cursor < Listed(page)
           /\ Focused # None => Focused \in Shown(page, triage) /\ Focused \in DOMAIN page
                                /\ Focused \in Ids
<1>1. page \in Flags /\ triage \in Modes /\ grouped \in BOOLEAN /\ cursor \in Nat
  BY DEF TypeOK
<1>2. Rows \in [1 .. Listed(page) -> Shown(page, triage)] /\ Listed(page) \in Nat
  BY <1>1, OrderIs DEF Rows, Listed
<1>3. cursor + 1 \in DOMAIN Rows <=> cursor < Listed(page)
  BY <1>1, <1>2
<1>4. /\ Shown(page, triage) \subseteq DOMAIN page /\ DOMAIN page \subseteq Ids
      /\ None \notin Ids
  BY <1>1, ShownIs, TriageAssumption
<1>5. Focused = IF cursor < Listed(page) THEN Rows[cursor + 1] ELSE None
  BY <1>3 DEF Focused
<1>6. cursor < Listed(page) => Rows[cursor + 1] \in Shown(page, triage)
  BY <1>2, <1>3
<1> QED
  BY <1>2, <1>4, <1>5, <1>6

\* A read leaves the types right, whatever a flush left in the cache.
LEMMA ReadKeepsTypes ==
    ASSUME TypeOK, NEW flags \in [Ids -> BOOLEAN], Read(flags), github' = github,
           pending' = <<>> \/ pending' = pending
    PROVE  TypeOK'
<1>1. /\ cache' = flags /\ page' = Matching(flags, query)
      /\ cursor' = Clamped(cursor, Listed(page'))
      /\ sending' = <<>> /\ prior' = <<>> /\ unreads' = {} /\ loading' = FALSE
      /\ UNCHANGED <<query, triage, grouped>>
  BY DEF Read
<1>2. page' \in Flags
  BY <1>1, MatchingIs
<1>3. cursor' \in Nat
  BY <1>1, <1>2, ClampedIs, ListedIs DEF TypeOK
<1>4. prior' \in Flags /\ sending' \in Seq(Ids)
  BY <1>1, NothingIsFlags
<1>5. pending' \in Seq(Ids \X BOOLEAN) /\ Len(pending') <= MaxPending
  <2>1. CASE pending' = <<>>
    BY <2>1, TriageAssumption
  <2> QED
    BY <2>1 DEF TypeOK
<1>6. {github', cache'} \subseteq [Ids -> BOOLEAN]
  BY <1>1 DEF TypeOK
<1> QED
  BY <1>1, <1>2, <1>3, <1>4, <1>5, <1>6 DEF TypeOK

\* Enter flips one row.
LEMMA FlippedIs ==
    ASSUME NEW S, NEW p \in [S -> BOOLEAN], NEW f \in S
    PROVE  /\ (~p[f]) \in BOOLEAN
           /\ [p EXCEPT ![f] = ~@] \in [S -> BOOLEAN]
           /\ p[f] = TRUE => [p EXCEPT ![f] = ~@][f] = FALSE /\ (~p[f]) = FALSE
           /\ p[f] = FALSE => [p EXCEPT ![f] = ~@][f] = TRUE /\ (~p[f]) = TRUE
           /\ \A i \in S \ {f} : [p EXCEPT ![f] = ~@][i] = p[i]
<1>1. p[f] = TRUE \/ p[f] = FALSE
  OBVIOUS
<1> DEFINE b == ~p[f]
           q == [p EXCEPT ![f] = b]
<1>2. b \in BOOLEAN /\ (p[f] = TRUE => b = FALSE) /\ (p[f] = FALSE => b = TRUE)
  BY <1>1
<1> HIDE DEF b
<1>3. /\ q \in [S -> BOOLEAN] /\ q[f] = b
      /\ \A i \in S \ {f} : q[i] = p[i]
  BY <1>2
<1> QED
  BY <1>2, <1>3 DEF b

\* A step keeps the types: the keys, the load, and the rest.
LEMMA KeysKeepTypes ==
    ASSUME TypeOK, Reopen \/ Move \/ Toggle \/ UnreadOnly \/ ThisRepo \/ Reconfigure
    PROVE  TypeOK'
<1>1. CASE Reopen
  <2>1. Everything \in Queries
    BY DEF Everything, Queries
  <2>2. page' \in Flags
    BY <1>1, MatchingIs DEF Reopen, TypeOK
  <2>3. pending' \in Seq(Ids \X BOOLEAN) /\ Len(pending') <= MaxPending
    BY <1>1, TriageAssumption DEF Reopen
  <2> QED
    BY <1>1, <2>1, <2>2, <2>3 DEF Reopen, TypeOK, flush
<1>2. CASE Move
  <2>1. cursor' \in Nat
    BY <1>2, ListedIs, ClampedIs DEF Move, TypeOK
  <2> QED
    BY <1>2, <2>1 DEF Move, TypeOK, flush
<1>3. CASE Toggle
  <2>1. Focused \in DOMAIN page /\ Focused \in Ids
    BY <1>3, FocusedIs DEF Toggle
  <2>2. PICK S \in SUBSET Ids : page \in [S -> BOOLEAN]
    BY DEF TypeOK, Flags
  <2>3. page' \in [S -> BOOLEAN] /\ (~page[Focused]) \in BOOLEAN
    BY <1>3, <2>1, <2>2, FlippedIs DEF Toggle
  <2>4. page' \in Flags
    BY <2>2, <2>3 DEF Flags
  <2>5. cursor' \in Nat
    BY <1>3, <2>4, ListedIs, ClampedIs DEF Toggle, TypeOK
  <2>6. /\ pending' = Append(pending, <<Focused, ~page[Focused]>>)
        /\ pending \in Seq(Ids \X BOOLEAN) /\ Len(pending) < MaxPending
        /\ <<Focused, ~page[Focused]>> \in Ids \X BOOLEAN
    BY <1>3, <2>1, <2>3 DEF Toggle, TypeOK
  <2>7. pending' \in Seq(Ids \X BOOLEAN) /\ Len(pending') <= MaxPending
    <3> DEFINE e == <<Focused, ~page[Focused]>>
    <3> HIDE DEF e
    <3>1. pending' = Append(pending, e) /\ e \in Ids \X BOOLEAN
      BY <2>6 DEF e
    <3> QED
      BY <2>6, <3>1, TriageAssumption
  <2> QED
    BY <1>3, <2>4, <2>5, <2>7 DEF Toggle, TypeOK, flush
<1>4. CASE UnreadOnly
  <2>1. query' \in Queries
    BY <1>4 DEF UnreadOnly, TypeOK, Queries
  <2> QED
    BY <1>4, <2>1 DEF UnreadOnly, TypeOK, flush
<1>5. CASE ThisRepo
  <2>1. Focused # None => RepoOf[Focused] \in Repos
    BY FocusedIs, TriageAssumption DEF Repos, Range
  <2>2. query' \in Queries
    BY <1>5, <2>1 DEF ThisRepo, TypeOK, Queries
  <2> QED
    BY <1>5, <2>2 DEF ThisRepo, TypeOK, flush
<1>6. CASE Reconfigure
  BY <1>6 DEF Reconfigure, TypeOK, flush
<1> QED
  BY <1>1, <1>2, <1>3, <1>4, <1>5, <1>6

LEMMA LoadKeepsTypes ==
    ASSUME TypeOK, StartLoad
    PROVE  TypeOK'
<1> DEFINE reads == Toggled(FALSE)
           toUnread == Range(Toggled(TRUE))
<1>1. /\ reads \in Seq(Ids) /\ Range(reads) \subseteq Ids /\ toUnread \subseteq Ids
  BY ToggledIs
<1>2. /\ ~loading /\ pending' = <<>> /\ github' = github
      /\ \/ Read(With(cache, toUnread, TRUE))
         \/ /\ loading' = TRUE /\ sending' = reads
            /\ prior' = Restrict(cache, Range(reads))
            /\ unreads' = toUnread
            /\ cache' = With(cache, Range(reads), FALSE)
            /\ UNCHANGED view
  BY DEF StartLoad
<1>3. github \in [Ids -> BOOLEAN] /\ cache \in [Ids -> BOOLEAN]
  BY DEF TypeOK
<1> HIDE DEF reads, toUnread
<1>4. CASE Read(With(cache, toUnread, TRUE))
  BY <1>2, <1>3, <1>4, WithIs, ReadKeepsTypes
<1>5. CASE ~Read(With(cache, toUnread, TRUE))
  <2>1. cache' \in [Ids -> BOOLEAN]
    <3>1. With(cache, Range(reads), FALSE) \in [Ids -> BOOLEAN]
      BY <1>3, WithIs
    <3> QED
      BY <1>2, <1>5, <3>1
  <2>2. prior' \in Flags
    <3>1. prior' = [i \in Range(reads) |-> cache[i]]
      BY <1>2, <1>5 DEF Restrict
    <3>2. prior' \in [Range(reads) -> BOOLEAN]
      BY <1>1, <1>3, <3>1
    <3> QED
      BY <1>1, <3>2 DEF Flags
  <2>3. pending' \in Seq(Ids \X BOOLEAN) /\ Len(pending') <= MaxPending
    BY <1>2, TriageAssumption
  <2> QED
    BY <1>1, <1>2, <1>3, <1>5, <2>1, <2>2, <2>3 DEF TypeOK, view
<1> QED
  BY <1>4, <1>5

LEMMA RestoredIs ==
    ASSUME TypeOK
    PROVE  Restored \in [Ids -> BOOLEAN]
<1>1. PICK S \in SUBSET Ids : prior \in [S -> BOOLEAN]
  BY DEF TypeOK, Flags
<1> QED
  BY <1>1 DEF Restored, TypeOK

LEMMA OthersKeepTypes ==
    ASSUME TypeOK, Patch \/ PatchFails \/ Flushed \/ Land \/ ReadElsewhere
    PROVE  TypeOK'
<1>1. CASE Patch
  <2>1. sending # <<>> /\ Head(sending) \in Ids /\ Tail(sending) \in Seq(Ids)
    BY <1>1 DEF Patch, TypeOK
  <2>2. github' \in [Ids -> BOOLEAN]
    BY <1>1, <2>1 DEF Patch, TypeOK
  <2>3. loading
    BY <2>1 DEF TypeOK
  <2> QED
    BY <1>1, <2>1, <2>2, <2>3 DEF Patch, TypeOK, view
<1>2. CASE PatchFails
  <2>1. With(Restored, unreads, TRUE) \in [Ids -> BOOLEAN]
    BY RestoredIs, WithIs
  <2> QED
    BY <1>2, <2>1, ReadKeepsTypes DEF PatchFails
<1>3. CASE Flushed
  <2>1. With(cache, unreads, TRUE) \in [Ids -> BOOLEAN]
    BY WithIs DEF TypeOK
  <2> QED
    BY <1>3, <2>1, ReadKeepsTypes DEF Flushed
<1>4. CASE Land
  BY <1>4 DEF Land, TypeOK, view, flush
<1>5. CASE ReadElsewhere
  <2>1. github' \in [Ids -> BOOLEAN]
    BY <1>5 DEF ReadElsewhere, TypeOK
  <2> QED
    BY <1>5, <2>1 DEF ReadElsewhere, TypeOK, view, flush
<1> QED
  BY <1>1, <1>2, <1>3, <1>4, <1>5

LEMMA InitTypes == Init => TypeOK
<1> SUFFICES ASSUME Init PROVE TypeOK
  OBVIOUS
<1>1. page \in Flags
  BY MatchingIs DEF Init
<1>2. query \in Queries
  BY DEF Init, Everything, Queries
<1>3. <<>> \in Seq(Ids \X BOOLEAN) /\ Len(<<>>) <= MaxPending /\ <<>> \in Seq(Ids)
  BY TriageAssumption
<1>4. prior \in Flags /\ {github, cache} \subseteq [Ids -> BOOLEAN]
  BY NothingIsFlags DEF Init
<1> QED
  BY <1>1, <1>2, <1>3, <1>4 DEF Init, TypeOK

\* Every variable keeps its type, for any rows, repositories and modes.
THEOREM TypeCorrect == Spec => []TypeOK
<1>1. TypeOK /\ [Next]_vars => TypeOK'
  <2> SUFFICES ASSUME TypeOK, [Next]_vars PROVE TypeOK'
    OBVIOUS
  <2>1. CASE UNCHANGED vars
    BY <2>1 DEF vars, view, flush, TypeOK
  <2> QED
    BY <2>1, KeysKeepTypes, LoadKeepsTypes, OthersKeepTypes DEF Next
<1> QED
  BY <1>1, InitTypes, PTL DEF Spec
-----------------------------------------------------------------------------
(* No row is falsely read.                                                 *)

\* After a read nothing is on its way, and nothing looks read that GitHub has
\* as unread, where the flush left everything so.
LEMMA ReadLosesNothing ==
    ASSUME TypeOK, NEW flags \in [Ids -> BOOLEAN], Read(flags), github' = github,
           \A i \in Ids : github[i] => flags[i]
    PROVE  NothingIsLost' /\ NoFalseRead'
<1>1. /\ cache' = flags /\ page' = Matching(flags, query)
      /\ sending' = <<>> /\ prior' = <<>>
  BY DEF Read
<1>2. Range(sending') = {} /\ DOMAIN prior' = {}
  BY <1>1, NothingIsFlags
<1>3. \A i \in DOMAIN page' : i \in Ids /\ page'[i] = flags[i]
  BY <1>1, MatchingIs
<1>4. NothingIsLost'
  BY <1>1, <1>2 DEF NothingIsLost, Range
<1>5. NoFalseRead'
  BY <1>3 DEF NoFalseRead
<1> QED
  BY <1>4, <1>5

\* A step keeps NothingIsLost and NoFalseRead: keys only queue.
LEMMA KeysLoseNothing ==
    ASSUME TriageInv, Reopen \/ Move \/ Toggle \/ UnreadOnly \/ ThisRepo \/ Reconfigure
    PROVE  NothingIsLost' /\ NoFalseRead'
<1>1. UNCHANGED <<github, cache, sending, prior, loading>> /\ ~loading
  BY DEF Reopen, Move, Toggle, UnreadOnly, ThisRepo, Reconfigure, flush
<1>2. NothingIsLost'
  BY <1>1 DEF TriageInv, NothingIsLost, Range
<1>3. CASE Reopen
  <2>1. \A i \in Ids : github[i] => cache[i]
    BY <1>1, NothingIsFlags DEF TriageInv, NothingIsLost, TypeOK
  <2>2. \A i \in DOMAIN page' : i \in Ids /\ page'[i] = cache[i]
    BY <1>3, MatchingIs DEF Reopen, TriageInv, TypeOK
  <2> QED
    BY <1>1, <1>2, <2>1, <2>2 DEF NoFalseRead
<1>4. CASE Toggle
  <2> DEFINE e == <<Focused, ~page[Focused]>>
  <2>1. Focused \in DOMAIN page
    BY <1>4, FocusedIs DEF Toggle, TriageInv
  <2>2. PICK S \in SUBSET Ids : page \in [S -> BOOLEAN]
    BY DEF TriageInv, TypeOK, Flags
  <2>3. page' = [page EXCEPT ![Focused] = ~@] /\ pending' = Append(pending, e)
    BY <1>4 DEF Toggle
  <2>4. /\ DOMAIN page' = S
        /\ page'[Focused] = FALSE => (~page[Focused]) = FALSE
        /\ page'[Focused] \in BOOLEAN
        /\ \A i \in S \ {Focused} : page'[i] = page[i]
    BY <2>1, <2>2, <2>3, FlippedIs
  <2>5. /\ pending \in Seq(Ids \X BOOLEAN) /\ e \in Ids \X BOOLEAN
    BY <2>1, <2>2, FlippedIs DEF TriageInv, TypeOK
  <2>6. page'[Focused] = FALSE => e = <<Focused, FALSE>>
    BY <2>4
  <2> HIDE DEF e
  <2>7. /\ DOMAIN pending \subseteq DOMAIN pending'
        /\ \A k \in DOMAIN pending : pending'[k] = pending[k]
        /\ Len(pending) + 1 \in DOMAIN pending' /\ pending'[Len(pending) + 1] = e
    BY <2>3, <2>5
  <2>8. ASSUME NEW i \in S, ~page'[i], github[i]
        PROVE  \E k \in DOMAIN pending' : pending'[k] = <<i, FALSE>>
    <3>1. CASE i = Focused
      BY <2>4, <2>6, <2>7, <2>8, <3>1
    <3>2. CASE i # Focused
      <4>1. i \in DOMAIN page /\ ~page[i]
        BY <2>2, <2>4, <2>8, <3>2
      <4>2. \E k \in DOMAIN pending : pending[k] = <<i, FALSE>>
        BY <1>1, <2>8, <4>1 DEF TriageInv, NoFalseRead
      <4> QED
        BY <2>7, <4>2
    <3> QED
      BY <3>1, <3>2
  <2> QED
    BY <1>1, <1>2, <2>4, <2>8 DEF NoFalseRead
<1>5. CASE Move \/ UnreadOnly \/ ThisRepo \/ Reconfigure
  <2>1. UNCHANGED <<page, pending>>
    BY <1>5 DEF Move, UnreadOnly, ThisRepo, Reconfigure
  <2> QED
    BY <1>1, <1>2, <2>1 DEF TriageInv, NoFalseRead
<1> QED
  BY <1>3, <1>4, <1>5

\* A flush captures what it overwrites.
LEMMA LoadLosesNothing ==
    ASSUME TriageInv, StartLoad
    PROVE  NothingIsLost' /\ NoFalseRead'
<1> DEFINE reads == Toggled(FALSE)
           toUnread == Range(Toggled(TRUE))
<1>1. /\ Range(reads) \subseteq Ids
  BY ToggledIs DEF TriageInv
<1>2. /\ ~loading /\ github' = github
      /\ \/ Read(With(cache, toUnread, TRUE))
         \/ /\ loading' = TRUE /\ sending' = reads
            /\ prior' = Restrict(cache, Range(reads))
            /\ cache' = With(cache, Range(reads), FALSE)
  BY DEF StartLoad
<1>3. /\ cache \in [Ids -> BOOLEAN] /\ TypeOK
      /\ \A i \in Ids : github[i] => cache[i]
  BY <1>2, NothingIsFlags DEF TriageInv, TypeOK, NothingIsLost
<1> HIDE DEF reads, toUnread
<1>4. CASE Read(With(cache, toUnread, TRUE))
  <2>1. \A i \in Ids : github[i] => With(cache, toUnread, TRUE)[i]
    BY <1>3 DEF With
  <2> QED
    BY <1>2, <1>3, <1>4, <2>1, WithIs, ReadLosesNothing
<1>5. CASE ~Read(With(cache, toUnread, TRUE))
  <2>1. /\ loading' = TRUE /\ sending' = reads
        /\ prior' = [i \in Range(reads) |-> cache[i]]
        /\ cache' = [i \in Ids |-> IF i \in Range(reads) THEN FALSE ELSE cache[i]]
    BY <1>2, <1>5 DEF With, Restrict
  <2>2. NothingIsLost'
    BY <1>1, <1>2, <1>3, <2>1 DEF NothingIsLost, Range
  <2>3. NoFalseRead'
    BY <2>1 DEF NoFalseRead
  <2> QED
    BY <2>2, <2>3
<1> QED
  BY <1>4, <1>5

\* What is sent leaves the queue as GitHub has it read; what fails is restored.
LEMMA OthersLoseNothing ==
    ASSUME TriageInv, Patch \/ PatchFails \/ Flushed \/ Land \/ ReadElsewhere
    PROVE  NothingIsLost' /\ NoFalseRead'
<1> USE DEF TriageInv
<1>0. TypeOK /\ github \in [Ids -> BOOLEAN] /\ cache \in [Ids -> BOOLEAN]
  BY DEF TypeOK
<1>1. CASE Patch
  <2>1. /\ sending \in Seq(Ids) /\ sending # <<>> /\ loading
        /\ UNCHANGED <<cache, page, pending, prior, loading>>
        /\ github' = [github EXCEPT ![Head(sending)] = FALSE] /\ sending' = Tail(sending)
    BY <1>1 DEF Patch, TypeOK, view
  <2>2. /\ Head(sending) \in Ids /\ Head(sending) \in Range(sending)
        /\ \A i \in Range(sending) : i = Head(sending) \/ i \in Range(sending')
        /\ Range(sending') \subseteq Range(sending)
    <3>1. \A k \in DOMAIN sending' : k + 1 \in DOMAIN sending /\ sending'[k] = sending[k + 1]
      BY <2>1
    <3>2. \A k \in DOMAIN sending : k = 1 \/ (k - 1 \in DOMAIN sending' /\ sending'[k - 1] = sending[k])
      BY <2>1
    <3>3. 1 \in DOMAIN sending /\ Head(sending) = sending[1] /\ Head(sending) \in Ids
      BY <2>1
    <3> QED
      BY <3>1, <3>2, <3>3 DEF Range
  <2>3. \A i \in Ids : github'[i] => github[i] /\ i # Head(sending)
    BY <1>0, <2>1, <2>2
  <2>4. DOMAIN prior \subseteq Ids
    BY FlagsAre DEF TypeOK
  <2>5. NothingIsLost'
    BY <2>1, <2>2, <2>3, <2>4 DEF NothingIsLost
  <2> QED
    BY <2>1, <2>5 DEF NoFalseRead
<1>2. CASE PatchFails
  <2> DEFINE flags == With(Restored, unreads, TRUE)
  <2>1. Restored \in [Ids -> BOOLEAN] /\ flags \in [Ids -> BOOLEAN]
    BY RestoredIs, WithIs
  <2>2. \A i \in Ids : github[i] => Restored[i]
    BY DEF NothingIsLost, Restored
  <2>3. \A i \in Ids : github[i] => flags[i]
    BY <2>2 DEF With
  <2> HIDE DEF flags
  <2>4. Read(flags) /\ github' = github
    BY <1>2 DEF PatchFails, flags
  <2> QED
    BY <1>0, <2>1, <2>3, <2>4, ReadLosesNothing
<1>3. CASE Flushed
  <2> DEFINE flags == With(cache, unreads, TRUE)
  <2>1. flags \in [Ids -> BOOLEAN]
    BY <1>0, WithIs
  <2>2. \A i \in Ids : github[i] => cache[i]
    BY <1>3, NothingIsFlags DEF Flushed, NothingIsLost
  <2>3. \A i \in Ids : github[i] => flags[i]
    BY <2>2 DEF With
  <2> HIDE DEF flags
  <2>4. Read(flags) /\ github' = github
    BY <1>3 DEF Flushed, flags
  <2> QED
    BY <1>0, <2>1, <2>3, <2>4, ReadLosesNothing
<1>4. CASE Land
  <2>1. cache' = github /\ UNCHANGED <<github, page, pending, sending, prior, loading>>
    BY <1>4 DEF Land, view, flush
  <2> QED
    BY <2>1 DEF NothingIsLost, NoFalseRead, Range
<1>5. CASE ReadElsewhere
  <2>1. UNCHANGED <<cache, page, pending, sending, prior, loading>>
    BY <1>5 DEF ReadElsewhere, view, flush
  <2>2. \A i \in Ids : github'[i] => github[i]
    BY <1>0, <1>5 DEF ReadElsewhere
  <2>3. DOMAIN prior \subseteq Ids /\ DOMAIN page \subseteq Ids
    BY FlagsAre DEF TypeOK
  <2> QED
    BY <2>1, <2>2, <2>3 DEF NothingIsLost, NoFalseRead, Range
<1> QED
  BY <1>1, <1>2, <1>3, <1>4, <1>5

\* Whatever is toggled, dropped, sent or refused, and whenever a refresh
\* lands, no row looks read that GitHub has as unread, but one whose toggle is
\* queued or being sent (flush_pending, set_read_state, load).
THEOREM NothingIsHidden == Spec => []NoFalseRead
<1>1. Init => TriageInv
  <2> SUFFICES ASSUME Init PROVE NothingIsLost /\ NoFalseRead
    BY InitTypes DEF TriageInv
  <2>1. \A i \in DOMAIN page : i \in Ids /\ page[i] = cache[i]
    BY MatchingIs DEF Init
  <2>2. cache = github /\ Range(sending) = {} /\ DOMAIN prior = {}
    BY NothingIsFlags DEF Init
  <2> QED
    BY <2>1, <2>2 DEF NothingIsLost, NoFalseRead
<1>2. TriageInv /\ [Next]_vars => TriageInv'
  <2> SUFFICES ASSUME TriageInv, [Next]_vars PROVE TriageInv'
    OBVIOUS
  <2>1. TypeOK'
    <3>1. CASE UNCHANGED vars
      BY <3>1 DEF vars, view, flush, TypeOK, TriageInv
    <3> QED
      BY <3>1, KeysKeepTypes, LoadKeepsTypes, OthersKeepTypes DEF Next, TriageInv
  <2>2. CASE UNCHANGED vars
    BY <2>1, <2>2 DEF vars, view, flush, TriageInv, NothingIsLost, NoFalseRead, Range
  <2> QED
    BY <2>1, <2>2, KeysLoseNothing, LoadLosesNothing, OthersLoseNothing DEF Next, TriageInv
<1>3. TriageInv => NoFalseRead
  BY DEF TriageInv
<1> QED
  BY <1>1, <1>2, <1>3, PTL DEF Spec

-----------------------------------------------------------------------------
(* The cursor.                                                             *)

\* The cursor is on a row when it is less than their number.
LEMMA OnRowIs ==
    TypeOK => (CursorOnRow <=> Listed(page) = 0 \/ cursor < Listed(page))
<1> SUFFICES ASSUME TypeOK
             PROVE  CursorOnRow <=> Listed(page) = 0 \/ cursor < Listed(page)
  OBVIOUS
<1>1. page \in Flags
  BY DEF TypeOK
<1> QED
  BY <1>1, ListedIs, FocusedIs DEF CursorOnRow

LEMMA OnRowNext ==
    (TypeOK => (CursorOnRow <=> Listed(page) = 0 \/ cursor < Listed(page)))'
BY OnRowIs, PTL

\* Where it is clamped, it is on a row.
LEMMA ClampedIsOnRow ==
    ASSUME TypeOK, TypeOK', triage' = triage, cursor' = Clamped(cursor, Listed(page'))
    PROVE  CursorOnRow'
<1>1. Listed(page') \in Nat /\ cursor \in Nat
  BY ListedIs DEF TypeOK
<1>2. Listed(page') = 0 \/ cursor' < Listed(page')
  BY <1>1, ClampedIs
<1>3. Listed(page)' = Listed(page')
  BY DEF Listed
<1> QED
  BY <1>2, <1>3, OnRowNext

\* A step that moves the cursor or changes the rows leaves it on one.
LEMMA CursorStaysOnRows ==
    ASSUME TypeOK, TypeOK', Next, cursor' # cursor \/ page' # page
    PROVE  CursorOnRow'
<1>1. CASE Move
  <2> DEFINE n == Listed(page)
  <2>1. n \in Nat /\ cursor' \in 0 .. Clamped(n, n) /\ UNCHANGED <<page, triage>>
    BY <1>1, ListedIs DEF Move, TypeOK
  <2> HIDE DEF n
  <2>2. n = 0 \/ cursor' < n
    BY <2>1, ClampedIs
  <2>3. Listed(page)' = n
    BY <2>1 DEF Listed, n
  <2> QED
    BY <2>2, <2>3, OnRowNext
<1>2. CASE Toggle \/ StartLoad \/ PatchFails \/ Flushed
  <2>1. triage' = triage /\ cursor' = Clamped(cursor, Listed(page'))
    BY <1>2 DEF Toggle, StartLoad, PatchFails, Flushed, Read, view
  <2> QED
    BY <2>1, ClampedIsOnRow
<1>3. CASE UnreadOnly \/ ThisRepo \/ Reopen
  <2>1. cursor' = 0
    BY <1>3 DEF UnreadOnly, ThisRepo, Reopen
  <2>2. Listed(page)' \in Nat
    <3>1. page' \in Flags
      BY DEF TypeOK
    <3> QED
      BY <3>1, ShownIs, FS_CardinalityType DEF Listed
  <2> QED
    BY <2>1, <2>2, OnRowNext
<1>4. CASE Reconfigure \/ Patch \/ Land \/ ReadElsewhere
  BY <1>4 DEF Reconfigure, Patch, Land, ReadElsewhere, view
<1> QED
  BY <1>1, <1>2, <1>3, <1>4 DEF Next

\* Each row that is shown is listed, and once.
LEMMA RowsDiffer ==
    ASSUME TypeOK
    PROVE  /\ \A i \in Shown(page, triage) : \E m \in 1 .. Listed(page) : Rows[m] = i
           /\ \A m, k \in 1 .. Listed(page) :
                /\ Rows[m] \in Shown(page, triage)
                /\ m < k => Before(Rows[m], Rows[k], page, triage, grouped)
                /\ m # k => Rows[m] # Rows[k]
<1>1. page \in Flags /\ triage \in Modes /\ grouped \in BOOLEAN
  BY DEF TypeOK
<1>2. /\ Listed(page) \in Nat /\ Rows \in [1 .. Listed(page) -> Shown(page, triage)]
      /\ \A m, k \in 1 .. Listed(page) :
           m < k => Before(Rows[m], Rows[k], page, triage, grouped)
      /\ \A i \in Shown(page, triage) : \E m \in 1 .. Listed(page) : Rows[m] = i
  <2> DEFINE s == Rows
  <2>1. s = Orders[<<page, triage, grouped>>]
    BY DEF Rows
  <2> HIDE DEF s
  <2> DEFINE n == Cardinality(Shown(page, triage))
  <2>2. /\ n \in Nat
        /\ s \in [1 .. n -> Shown(page, triage)]
        /\ \A m, k \in 1 .. n : m < k => Before(s[m], s[k], page, triage, grouped)
        /\ \A i \in Shown(page, triage) : \E m \in 1 .. n : s[m] = i
    <3>1. n \in Nat /\ s \in [1 .. n -> Shown(page, triage)]
      BY <1>1, <2>1, OrderIs
    <3>2. \A m, k \in 1 .. n : m < k => Before(s[m], s[k], page, triage, grouped)
      BY <1>1, <2>1, OrderIs
    <3>3. \A i \in Shown(page, triage) : \E m \in 1 .. n : s[m] = i
      BY <1>1, <2>1, OrderIs
    <3> QED
      BY <3>1, <3>2, <3>3
  <2> QED
    BY <2>2 DEF s, Listed
<1>3. \A i \in Shown(page, triage) : ~Before(i, i, page, triage, grouped)
  BY <1>1, ShownIs, EarlierOrders DEF Before
<1>4. \A m, k \in 1 .. Listed(page) : m < k \/ k < m \/ m = k
  BY <1>2
<1> QED
  BY <1>2, <1>3, <1>4

\* What Enter does to an unread row.
LEMMA ToggleIs ==
    ASSUME TypeOK, Toggle, page[Focused]
    PROVE  /\ Focused \in DOMAIN page /\ DOMAIN page' = DOMAIN page
           /\ page'[Focused] = FALSE
           /\ \A i \in DOMAIN page \ {Focused} : page'[i] = page[i]
           /\ triage' = triage /\ grouped' = grouped
           /\ cursor < Listed(page) /\ Focused = Rows[cursor + 1]
           /\ cursor' = Clamped(cursor, Listed(page'))
<1>1. Focused \in DOMAIN page /\ cursor < Listed(page) /\ Focused = Rows[cursor + 1]
  BY FocusedIs DEF Toggle
<1>2. PICK S \in SUBSET Ids : page \in [S -> BOOLEAN]
  BY DEF TypeOK, Flags
<1>3. page' = [page EXCEPT ![Focused] = ~@] /\ page[Focused] = TRUE
  BY <1>1, <1>2 DEF Toggle
<1>4. page' \in [S -> BOOLEAN] /\ page'[Focused] = FALSE
      /\ \A i \in S \ {Focused} : page'[i] = page[i]
  <2> DEFINE f == Focused
             q == [page EXCEPT ![f] = ~@]
  <2>1. f \in S /\ page[f] = TRUE
    BY <1>1, <1>2, <1>3
  <2> HIDE DEF f
  <2>2. q \in [S -> BOOLEAN] /\ q[f] = FALSE /\ \A i \in S \ {f} : q[i] = page[i]
    BY <1>2, <2>1, FlippedIs
  <2> QED
    BY <1>3, <2>2 DEF f
<1> QED
  BY <1>1, <1>2, <1>4 DEF Toggle

\* The same of the rows and the row under the cursor after a step.
LEMMA RowsNext ==
    (TypeOK =>
      /\ Focused = IF cursor < Listed(page) THEN Rows[cursor + 1] ELSE None
      /\ Focused # None => Focused \in Shown(page, triage)
      /\ \A m, l \in 1 .. Listed(page) :
           m < l => Before(Rows[m], Rows[l], page, triage, grouped)
      /\ \A i \in Shown(page, triage) : \E m \in 1 .. Listed(page) : Rows[m] = i
      /\ Rows \in [1 .. Listed(page) -> Shown(page, triage)])'
<1>1. TypeOK =>
      /\ Focused = IF cursor < Listed(page) THEN Rows[cursor + 1] ELSE None
      /\ Focused # None => Focused \in Shown(page, triage)
      /\ \A m, l \in 1 .. Listed(page) :
           m < l => Before(Rows[m], Rows[l], page, triage, grouped)
      /\ \A i \in Shown(page, triage) : \E m \in 1 .. Listed(page) : Rows[m] = i
      /\ Rows \in [1 .. Listed(page) -> Shown(page, triage)]
  BY FocusedIs, RowsDiffer
<1> QED
  BY <1>1, PTL

\* The row read is no longer shown, so the cursor is on another, and all that
\* are shown are unread.
LEMMA EnterMovesOnWhereReadRowsLeave ==
    ASSUME TypeOK, TypeOK', Toggle, page[Focused], triage = "hide",
           NEW k \in DOMAIN Rows, k > cursor + 1, page[Rows[k]]
    PROVE  Focused' # Focused /\ page'[Focused']
<1>1. Listed(page) \in Nat /\ DOMAIN Rows = 1 .. Listed(page) /\ cursor \in Nat
  BY FocusedIs DEF TypeOK
<1>2. Rows[k] # Focused /\ Rows[k] \in DOMAIN page
  <2>1. cursor + 1 \in 1 .. Listed(page) /\ k \in 1 .. Listed(page) /\ cursor + 1 # k
    BY <1>1, ToggleIs
  <2> QED
    BY <2>1, RowsDiffer, ToggleIs DEF Shown
<1>3. Rows[k] \in Shown(page, triage)'
  BY <1>2, ToggleIs DEF Shown
<1>4. Focused' # None
  <2>1. CursorOnRow'
    BY ToggleIs, ClampedIsOnRow
  <2> QED
    BY <1>3, <2>1 DEF CursorOnRow
<1>5. Focused' \in Shown(page, triage)'
  BY <1>4, RowsNext
<1>6. Focused' \in DOMAIN page' /\ page'[Focused']
  BY <1>4, <1>5, ToggleIs DEF Shown
<1> QED
  BY <1>6, ToggleIs

\* k - 1 other unread rows are listed above every read one, and k - 1 is more
\* than the cursor has rows above it.
LEMMA EnterMovesOnWhereReadRowsSink ==
    ASSUME TypeOK, TypeOK', Toggle, page[Focused], triage = "sink", ~grouped,
           NEW k \in DOMAIN Rows, k > cursor + 1, page[Rows[k]]
    PROVE  Focused' # Focused /\ page'[Focused']
<1> DEFINE n == Listed(page)
           c == cursor
<1>1. n \in Nat /\ DOMAIN Rows = 1 .. n /\ c \in Nat /\ c < n
  BY FocusedIs, ToggleIs DEF TypeOK
<1>2. Shown(page, triage)' = Shown(page, triage) /\ Shown(page, triage) = DOMAIN page
      /\ Listed(page)' = n /\ Listed(page') = n
  BY ToggleIs DEF Shown, Listed
<1>3. cursor' = c
  BY <1>1, <1>2, ToggleIs, ClampedIs
<1>4. \A i \in DOMAIN page : page[i] = TRUE \/ page[i] = FALSE
  BY FlagsAre DEF TypeOK
<1>5. \A i \in DOMAIN page : page'[i] = TRUE \/ page'[i] = FALSE
  BY <1>4, ToggleIs
<1>6. /\ Focused' = IF cursor' < Listed(page)' THEN Rows'[cursor' + 1] ELSE None
      /\ \A m, l \in 1 .. Listed(page)' :
           m < l => Before(Rows'[m], Rows'[l], page', triage', grouped')
      /\ \A i \in Shown(page, triage)' : \E m \in 1 .. Listed(page)' : Rows'[m] = i
      /\ Rows' \in [1 .. Listed(page)' -> Shown(page, triage)']
  BY RowsNext
<1> DEFINE r == Rows'
           g == r[c + 1]
<1>7. /\ Focused' = g /\ g \in DOMAIN page
      /\ \A m, l \in 1 .. n : m < l => Earlier(r[m], r[l], page', "sink")
      /\ \A i \in DOMAIN page : \E m \in 1 .. n : r[m] = i
      /\ \A m \in 1 .. n : r[m] \in DOMAIN page
  <2>1. c + 1 \in 1 .. n
    BY <1>1
  <2>2. Focused' = g
    BY <1>1, <1>2, <1>3, <1>6
  <2>3. /\ \A m, l \in 1 .. n : m < l => Before(r[m], r[l], page', triage', grouped')
        /\ \A i \in DOMAIN page : \E m \in 1 .. n : r[m] = i
        /\ r \in [1 .. n -> DOMAIN page]
    BY <1>2, <1>6
  <2>4. \A i, j : Before(i, j, page', triage', grouped') <=> Earlier(i, j, page', "sink")
    BY ToggleIs DEF Before
  <2> HIDE DEF r
  <2>5. g \in DOMAIN page /\ \A m \in 1 .. n : r[m] \in DOMAIN page
    BY <2>1, <2>3
  <2> QED
    BY <2>2, <2>3, <2>4, <2>5
<1> HIDE DEF r, n
\* The rows above the unread one, but for the one just read, are unread.
<1>8. k \in 1 .. n /\ c + 1 < k
  BY <1>1
<1> DEFINE D == (1 .. k) \ {c + 1}
<1>9. \A m \in D : m \in 1 .. n /\ Rows[m] \in DOMAIN page /\ page'[Rows[m]] = TRUE
  <2> SUFFICES ASSUME NEW m \in D
               PROVE  m \in 1 .. n /\ Rows[m] \in DOMAIN page /\ page'[Rows[m]] = TRUE
    OBVIOUS
  <2>1. m \in 1 .. n /\ m # c + 1 /\ c + 1 \in 1 .. n /\ (m = k \/ m < k)
    BY <1>1, <1>8
  <2>2. Rows[m] \in DOMAIN page /\ Rows[k] \in DOMAIN page /\ Rows[m] # Focused
    BY <1>2, <1>8, <2>1, RowsDiffer, ToggleIs DEF n
  <2>3. m < k => Earlier(Rows[m], Rows[k], page, "sink")
    BY <1>8, <2>1, RowsDiffer DEF n, Before
  <2>4. page[Rows[m]] = TRUE
    BY <1>4, <2>1, <2>2, <2>3 DEF Earlier
  <2> QED
    BY <2>1, <2>2, <2>4, ToggleIs
<1>10. \A x, y \in D : x # y => Rows[x] # Rows[y]
  BY <1>9, RowsDiffer DEF n
\* Were the cursor on a read one, they would all have to be above it.
<1>11. ASSUME page'[g] = FALSE
       PROVE  FALSE
  <2> DEFINE h == [m \in D |-> CHOOSE q \in 1 .. c : r[q] = Rows[m]]
  <2>1. \A m \in D : \E q \in 1 .. c : r[q] = Rows[m]
    <3> SUFFICES ASSUME NEW m \in D
                 PROVE  \E q \in 1 .. c : r[q] = Rows[m]
      OBVIOUS
    <3>1. PICK q \in 1 .. n : r[q] = Rows[m]
      BY <1>7, <1>9
    <3>2. page'[r[q]] = TRUE
      BY <1>9, <3>1
    <3>3. q # c + 1
      BY <1>11, <3>2
    <3>4. ~(c + 1 < q)
      <4>1. ~Earlier(g, r[q], page', "sink")
        BY <1>11, <3>2 DEF Earlier
      <4>2. c + 1 \in 1 .. n
        BY <1>1, <1>8
      <4> QED
        BY <1>7, <4>1, <4>2
    <3>5. q \in 1 .. c
      BY <1>1, <3>3, <3>4
    <3> QED
      BY <3>1, <3>5
  <2>2. h \in [D -> 1 .. c] /\ \A m \in D : r[h[m]] = Rows[m]
    BY <2>1
  <2>3. k \in Nat /\ c \in Nat /\ c + 1 \in 1 .. k
    BY <1>1, <1>8
  <2> DEFINE U == 1 .. k
             V == 1 .. c
  <2>4. IsFiniteSet(U) /\ Cardinality(U) = k /\ IsFiniteSet(V) /\ Cardinality(V) = c
    <3>1. ASSUME NEW m \in Nat
          PROVE  IsFiniteSet(1 .. m) /\ Cardinality(1 .. m) = m
      BY FS_Interval
    <3> QED
      BY <2>3, <3>1
  <2>5. IsFiniteSet(D) /\ Cardinality(D) = k - 1
    BY <2>3, <2>4, FS_RemoveElement
  <2>6. h \in [D -> V]
    BY <2>2
  <2> HIDE DEF h, D, U, V
  <2>7. Cardinality(V) < Cardinality(D)
    BY <1>1, <1>8, <2>3, <2>4, <2>5
  <2>8. \E x, y \in D : x # y /\ h[x] = h[y]
    BY <2>4, <2>5, <2>6, <2>7, FS_PigeonHole
  <2> QED
    BY <1>10, <2>2, <2>8
<1>12. page'[g] = TRUE
  BY <1>5, <1>7, <1>11
<1> QED
  BY <1>7, <1>12, ToggleIs

\* Whatever is pressed or loaded, the cursor ends on a row if there is one, and
\* where read rows leave or sink below the unread ones, Enter moves on to the
\* next unread row (move_cursor, clamp_cursor, toggle_read).
THEOREM CursorIsKept == Spec => CursorKeepsUp
<1>1. TypeOK /\ TypeOK' /\ [Next]_vars =>
        [/\ cursor' # cursor \/ page' # page => CursorOnRow'
         /\ Toggle /\ page[Focused] /\ (triage = "hide" \/ (triage = "sink" /\ ~grouped))
               /\ (\E k \in DOMAIN Rows : k > cursor + 1 /\ page[Rows[k]])
            => /\ Focused' # Focused
               /\ page'[Focused']]_vars
  <2> SUFFICES ASSUME TypeOK, TypeOK', Next
               PROVE  /\ cursor' # cursor \/ page' # page => CursorOnRow'
                      /\ Toggle /\ page[Focused]
                            /\ (triage = "hide" \/ (triage = "sink" /\ ~grouped))
                            /\ (\E k \in DOMAIN Rows : k > cursor + 1 /\ page[Rows[k]])
                         => Focused' # Focused /\ page'[Focused']
    OBVIOUS
  <2>1. cursor' # cursor \/ page' # page => CursorOnRow'
    BY CursorStaysOnRows
  <2>2. ASSUME Toggle, page[Focused], triage = "hide" \/ (triage = "sink" /\ ~grouped),
               NEW k \in DOMAIN Rows, k > cursor + 1, page[Rows[k]]
        PROVE  Focused' # Focused /\ page'[Focused']
    BY <2>2, EnterMovesOnWhereReadRowsLeave, EnterMovesOnWhereReadRowsSink
  <2> QED
    BY <2>1, <2>2
<1> QED
  BY <1>1, TypeCorrect, PTL DEF Spec, CursorKeepsUp
=============================================================================
