--------------------------- MODULE GovernorProofs ---------------------------
(***************************************************************************)
(* What holds of the governor for any number of calls, any budget, window  *)
(* and penalties, proved from the inductive invariant IInv of Governor.    *)
(***************************************************************************)
EXTENDS Governor, TLAPS

\* What a call must be for the invariant to hold of it, but for its answer.
Sound(k) ==
    /\ k \in Call
    /\ k.kind.mutation => k.attempt = 1
    /\ k.phase \in {"answered", "limited"} => k.response # None

\* What b will say of x's budget after the step: Faithful of the next state.
StaysFaithful(b, x) ==
    b.spent /\ b.reset > 0 => server'[x].left = 0 /\ server'[x].reset = b.reset

LEMMA IdleCallIsSound == IdleCall \in Call /\ Sound(IdleCall) /\ IdleCall.response = None
BY LimitAssumption DEF IdleCall, Sound, Call, Kinds

LEMMA HeadersAreBudget ==
    ASSUME NEW s \in [left : 0..Limit, reset : 1..Window]
    PROVE  Headers(s) \in Budget
BY LimitAssumption DEF Headers, Budget

LEMMA AgedIsBudget ==
    ASSUME NEW b \in Budget
    PROVE  /\ Aged(b) \in Budget
           /\ Aged(b) = [spent |-> b.spent,
                         reset |-> IF b.reset = 0 THEN 0 ELSE b.reset - 1]
BY LimitAssumption, NoResponseAssumption DEF Aged, Sooner, Budget

\* A penalty never exceeds the cap, however many strikes earned it.
LEMMA PenaltyIsCapped ==
    ASSUME NEW n \in 1..MaxStrikes
    PROVE  Penalty(n) \in Nat /\ Penalty(n) <= Cap
<1>1. n - 1 \in 0..(MaxStrikes - 1)
  BY LimitAssumption
<1>2. 2 ^ (n - 1) \in Nat
  BY <1>1, LimitAssumption
<1> HIDE <1>1
<1>3. ASSUME NEW p \in Nat
      PROVE  /\ (IF Base * p > Cap THEN Cap ELSE Base * p) \in Nat
             /\ (IF Base * p > Cap THEN Cap ELSE Base * p) <= Cap
  BY LimitAssumption
<1> QED
  BY <1>2, <1>3 DEF Penalty

-----------------------------------------------------------------------------
(* The initial state.                                                       *)

LEMMA InitInv == Init => IInv
<1> SUFFICES ASSUME Init PROVE IInv
  OBVIOUS
<1>1. TypeOK
  <2>1. server \in [Resources -> [left : 0..Limit, reset : 1..Window]]
    BY LimitAssumption DEF Init
  <2>2. budget \in [Resources -> Budget]
    BY LimitAssumption DEF Init, Budget
  <2>3. blocked \in Nat /\ \E h \in Horizon : blocked <= h
    BY LimitAssumption DEF Init, Horizon
  <2>4. call \in [Calls -> Call]
    BY IdleCallIsSound DEF Init
  <2> QED
    BY <2>1, <2>2, <2>3, <2>4, LimitAssumption DEF Init, TypeOK
<1>2. \A c \in Calls : call[c] = IdleCall
  BY DEF Init
<1>3. BudgetsAreTrue
  BY DEF Init, BudgetsAreTrue, Faithful
<1> QED
  BY <1>1, <1>2, <1>3, IdleCallIsSound
     DEF IInv, MutationSentOnce, AnswersHeld, AnswersAreTrue, Sound

-----------------------------------------------------------------------------
(* A step of one call that leaves GitHub and the shared state alone, or     *)
(* changes only what is said of it.                                         *)

LEMMA OneCall ==
    ASSUME IInv, NEW c \in Calls, NEW k \in Call, Sound(k),
           call' = [call EXCEPT ![c] = k], server' = server,
           k.response # None /\ k.response.budget # None
               => Faithful(k.response.budget, k.kind.resource)
    PROVE  /\ call' \in [Calls -> Call]
           /\ MutationSentOnce'
           /\ AnswersHeld'
           /\ AnswersAreTrue'
<1>1. call \in [Calls -> Call]
  BY DEF IInv, TypeOK
<1>2. /\ call' \in [Calls -> Call]
      /\ \A d \in Calls : call'[d] = IF d = c THEN k ELSE call[d]
  BY <1>1
<1>3. MutationSentOnce'
  BY <1>2 DEF IInv, MutationSentOnce, Sound
<1>4. AnswersHeld'
  BY <1>2 DEF IInv, AnswersHeld, Sound
<1>5. AnswersAreTrue'
  BY <1>2 DEF IInv, AnswersAreTrue, Faithful
<1> QED
  BY <1>2, <1>3, <1>4, <1>5

\* The same of a step that brings no answer.
LEMMA QuietCall ==
    ASSUME IInv, NEW c \in Calls, NEW k \in Call, Sound(k),
           k.response # None => k.response = call[c].response /\ k.kind = call[c].kind,
           call' = [call EXCEPT ![c] = k],
           UNCHANGED <<server, budget>>,
           blocked' \in Nat, \E h \in Horizon : blocked' <= h,
           kind' \in {"primary", "secondary", "none"},
           strikes' \in 0..MaxStrikes
    PROVE  IInv'
<1>1. /\ call' \in [Calls -> Call]
      /\ MutationSentOnce'
      /\ AnswersHeld'
      /\ AnswersAreTrue'
  BY OneCall DEF IInv, AnswersAreTrue
<1>2. TypeOK'
  BY <1>1 DEF IInv, TypeOK, Horizon
<1>3. BudgetsAreTrue'
  BY DEF IInv, BudgetsAreTrue, Faithful
<1> QED
  BY <1>1, <1>2, <1>3 DEF IInv

-----------------------------------------------------------------------------
(* The steps of the client.                                                 *)

LEMMA CallFields ==
    ASSUME IInv, NEW c \in Calls
    PROVE  /\ call[c] \in Call
           /\ Sound(call[c])
           /\ call[c].kind.resource \in Resources
BY DEF IInv, TypeOK, MutationSentOnce, AnswersHeld, Sound, Call, Kinds, Resources

\* A call that only moves to another phase, not one that needs an answer.
LEMMA PhaseOnly ==
    ASSUME IInv, NEW c \in Calls,
           NEW p \in {"checking", "admitted", "sent", "denied", "failed"},
           call' = [call EXCEPT ![c].phase = p],
           UNCHANGED <<server, budget, blocked, kind, strikes>>
    PROVE  IInv'
<1> DEFINE k == [call[c] EXCEPT !.phase = p]
<1>1. k \in Call /\ Sound(k)
  BY CallFields DEF Call, Sound
<1>2. k.response = call[c].response /\ k.kind = call[c].kind
  BY CallFields DEF Call
<1>3. call' = [call EXCEPT ![c] = k]
  OBVIOUS
<1>4. TypeOK
  BY DEF IInv
<1> HIDE DEF k
<1> QED
  BY <1>1, <1>2, <1>3, <1>4, QuietCall DEF TypeOK

\* A call that returns, whatever it did to the block and the strikes.
LEMMA Returns ==
    ASSUME IInv, NEW c \in Calls, Return(c),
           UNCHANGED <<server, budget>>,
           blocked' \in Nat, \E h \in Horizon : blocked' <= h,
           kind' \in {"primary", "secondary", "none"},
           strikes' \in 0..MaxStrikes
    PROVE  IInv'
BY IdleCallIsSound, QuietCall DEF Return

LEMMA RetryAfterBounded ==
    ASSUME NEW a \in RetryAfters
    PROVE  a \in Nat /\ \E h \in Horizon : a <= h
<1>1. a \in Nat /\ a <= a
  BY LimitAssumption
<1>2. a \in Horizon
  BY DEF Horizon
<1> QED
  BY <1>1, <1>2

\* What Raise may be asked for, and what it leaves.
LEMMA RaiseBounded ==
    ASSUME IInv, NEW wait \in Nat, NEW why \in {"primary", "secondary"},
           \E h \in Horizon : wait <= h, Raise(wait, why)
    PROVE  /\ blocked' \in Nat /\ \E h \in Horizon : blocked' <= h
           /\ kind' \in {"primary", "secondary", "none"}
           /\ blocked' >= blocked
<1>1. TypeOK
  BY DEF IInv
<1>2. CASE wait > blocked
  BY <1>1, <1>2 DEF Raise, TypeOK
<1>3. CASE ~ (wait > blocked)
  BY <1>1, <1>3 DEF Raise, TypeOK
<1> QED
  BY <1>2, <1>3

LEMMA SharedTypes ==
    ASSUME IInv
    PROVE  /\ blocked \in Nat /\ \E h \in Horizon : blocked <= h
           /\ kind \in {"primary", "secondary", "none"}
           /\ strikes \in 0..MaxStrikes
BY DEF IInv, TypeOK

LEMMA StartInv == ASSUME IInv, NEW c \in Calls, Start(c) PROVE IInv'
<1> DEFINE new(k) == [kind |-> k, phase |-> "checking", attempt |-> 1, response |-> None]
<1>1. PICK k \in Kinds : call' = [call EXCEPT ![c] = new(k)]
  BY DEF Start
<1>2. 1 \in 1..MaxAttempts
  BY LimitAssumption
<1>3. new(k) \in Call /\ Sound(new(k)) /\ new(k).response = None
  BY <1>2 DEF Call, Sound
<1> HIDE DEF new
<1> QED
  BY <1>1, <1>3, SharedTypes, QuietCall DEF Start

LEMMA CheckInv == ASSUME IInv, NEW c \in Calls, Check(c) PROVE IInv'
<1>1. CASE Admits(call[c].kind.resource)
  BY <1>1, PhaseOnly DEF Check
<1>2. CASE ~ Admits(call[c].kind.resource)
  BY <1>2, SharedTypes, Returns DEF Check, Return
<1> QED
  BY <1>1, <1>2

LEMMA SendInv == ASSUME IInv, NEW c \in Calls, Send(c) PROVE IInv'
BY PhaseOnly DEF Send

LEMMA LoseInv == ASSUME IInv, NEW c \in Calls, Lose(c) PROVE IInv'
<1>1. CASE call' = [call EXCEPT ![c].phase = "denied"]
  BY <1>1, PhaseOnly DEF Lose
<1>2. CASE call' = [call EXCEPT ![c].phase = "failed", ![c].response = None]
  <2> DEFINE k == [call[c] EXCEPT !.phase = "failed", !.response = None]
  <2>1. k \in Call /\ Sound(k) /\ k.response = None
    BY CallFields DEF Call, Sound
  <2>2. call' = [call EXCEPT ![c] = k]
    BY <1>2, CallFields DEF IInv, TypeOK, Call
  <2> HIDE DEF k
  <2> QED
    BY <2>1, <2>2, SharedTypes, QuietCall DEF Lose
<1> QED
  BY <1>1, <1>2 DEF Lose

LEMMA SucceedInv == ASSUME IInv, NEW c \in Calls, Succeed(c) PROVE IInv'
<1>1. 0 \in 0..MaxStrikes
  BY LimitAssumption
<1> QED
  BY <1>1, SharedTypes, Returns DEF Succeed

LEMMA DenyInv == ASSUME IInv, NEW c \in Calls, Deny(c) PROVE IInv'
BY SharedTypes, Returns DEF Deny

LEMMA BlockPrimaryInv ==
    ASSUME IInv, NEW c \in Calls, BlockPrimary(c)
    PROVE  IInv' /\ blocked' >= blocked
<1> DEFINE wait == call[c].response.budget.reset
<1>1. call[c].response \in Response /\ call[c].response.budget \in Budget
  BY CallFields DEF BlockPrimary, SaysSpent, Sound, Call, Response
<1>2. wait \in Nat /\ wait <= Window
  BY <1>1, LimitAssumption DEF Budget
<1>3. \E h \in Horizon : wait <= h
  BY <1>2 DEF Horizon
<1>4. Raise(wait, "primary")
  BY DEF BlockPrimary
<1> HIDE DEF wait
<1>5. /\ blocked' \in Nat /\ \E h \in Horizon : blocked' <= h
      /\ kind' \in {"primary", "secondary", "none"}
      /\ blocked' >= blocked
  BY <1>2, <1>3, <1>4, RaiseBounded
<1> QED
  BY <1>5, SharedTypes, Returns DEF BlockPrimary

LEMMA BlockSecondaryInv ==
    ASSUME IInv, NEW c \in Calls, BlockSecondary(c)
    PROVE  IInv' /\ blocked' >= blocked
<1> DEFINE n == IF strikes = MaxStrikes THEN MaxStrikes ELSE strikes + 1
           wait == Longer(Penalty(n), call[c].response.after)
<1>1. n \in 1..MaxStrikes
  BY LimitAssumption, SharedTypes
<1>2. strikes' = n /\ Raise(wait, "secondary")
  BY DEF BlockSecondary
<1> HIDE DEF n
<1>3. Penalty(n) \in Nat /\ Penalty(n) <= Cap
  BY <1>1, PenaltyIsCapped
<1>4. call[c].response.after \in RetryAfters \cup {None}
  BY CallFields DEF BlockSecondary, Sound, Call, Response
<1>5. wait \in Nat /\ \E h \in Horizon : wait <= h
  <2>1. CASE wait = Penalty(n)
    <3>1. Cap \in Horizon
      BY DEF Horizon
    <3> QED
      BY <1>3, <2>1, <3>1
  <2>2. CASE wait # Penalty(n)
    <3>1. wait \in RetryAfters
      BY <1>4, <2>2 DEF Longer
    <3> QED
      BY <3>1, RetryAfterBounded
  <2> QED
    BY <2>1, <2>2
<1> HIDE DEF wait
<1>6. /\ blocked' \in Nat /\ \E h \in Horizon : blocked' <= h
      /\ kind' \in {"primary", "secondary", "none"}
      /\ blocked' >= blocked
  BY <1>2, <1>5, RaiseBounded
<1>7. strikes' \in 0..MaxStrikes
  BY <1>1, <1>2, LimitAssumption
<1> QED
  BY <1>6, <1>7, Returns DEF BlockSecondary

LEMMA FailInv == ASSUME IInv, NEW c \in Calls, Fail(c) PROVE IInv'
<1>1. CASE IsLast(c)
  BY <1>1, SharedTypes, Returns DEF Fail
<1>2. CASE ~ IsLast(c)
  <2> DEFINE k == [call[c] EXCEPT !.phase = "checking", !.attempt = @ + 1]
  <2>1. ~ call[c].kind.mutation /\ call[c].attempt # MaxAttempts
    BY <1>2, CallFields DEF IsLast, Attempts, Sound
  <2>2. call[c].attempt + 1 \in 1..MaxAttempts
    BY <2>1, CallFields, LimitAssumption DEF Call
  <2>3. k \in Call /\ Sound(k)
    BY <2>1, <2>2, CallFields DEF Call, Sound
  <2>4. k.response = call[c].response /\ k.kind = call[c].kind
    BY CallFields DEF Call
  <2>5. call' = [call EXCEPT ![c] = k]
    BY <1>2 DEF Fail, Retry
  <2> HIDE DEF k
  <2> QED
    BY <2>3, <2>4, <2>5, SharedTypes, QuietCall DEF Fail
<1> QED
  BY <1>1, <1>2

\* An answer taken note of: the budget it reports is as true as it was.
LEMMA ObserveInv ==
    ASSUME IInv, NEW c \in Calls, Observe(c)
    PROVE  IInv' /\ blocked' >= blocked
<1> DEFINE r == call[c].response
           x == call[c].kind.resource
           k == [call[c] EXCEPT !.phase = Outcome(r),
                                !.response = IF Outcome(r) = "limited" THEN r ELSE None]
<1>1. r \in Response /\ r # None /\ x \in Resources
  BY CallFields, NoResponseAssumption DEF Observe, Sound, Call
<1>2. Outcome(r) \in {"succeeded", "failed", "limited", "denied"}
  BY DEF Outcome
<1>3. /\ k \in Call /\ Sound(k) /\ k.kind = call[c].kind
      /\ k.response # None => k.response = r
  BY <1>1, <1>2, CallFields DEF Call, Sound
<1>4. call' = [call EXCEPT ![c] = k]
  BY DEF Observe
<1>5. /\ blocked' \in Nat /\ \E h \in Horizon : blocked' <= h
      /\ kind' \in {"primary", "secondary", "none"}
      /\ blocked' >= blocked
  <2>1. CASE r.after = None
    BY <2>1, SharedTypes DEF Observe
  <2>2. CASE r.after # None
    <3>1. r.after \in Nat /\ \E h \in Horizon : r.after <= h
      BY <1>1, <2>2, RetryAfterBounded DEF Response
    <3>2. Raise(r.after, "secondary")
      BY <2>2 DEF Observe
    <3> QED
      BY <3>1, <3>2, RaiseBounded
  <2> QED
    BY <2>1, <2>2
<1>6. r.budget # None => r.budget \in Budget /\ Faithful(r.budget, x)
  BY <1>1 DEF Response, IInv, AnswersAreTrue
<1>7. budget' = Filed(x, r.budget) /\ UNCHANGED <<server, strikes>>
  BY DEF Observe
<1> HIDE DEF r, x, k
<1>8. budget' \in [Resources -> Budget] /\ BudgetsAreTrue'
  BY <1>1, <1>6, <1>7 DEF Filed, IInv, TypeOK, BudgetsAreTrue, Faithful
<1>9. /\ call' \in [Calls -> Call]
      /\ MutationSentOnce' /\ AnswersHeld' /\ AnswersAreTrue'
  BY <1>3, <1>4, <1>6, <1>7, OneCall DEF x
<1> QED
  BY <1>5, <1>7, <1>8, <1>9 DEF IInv, TypeOK, Horizon

-----------------------------------------------------------------------------
(* The answers of GitHub.                                                   *)

\* An answer to a request: GitHub may count it, unless nothing was left, and
\* what its headers say is then true.
LEMMA ReplyInv ==
    ASSUME IInv, NEW c \in Calls,
           NEW status \in {"ok", "forbidden", "secondary", "rejected", "upstream"},
           NEW headers \in Budget \cup {None},
           NEW after \in RetryAfters \cup {None},
           Reply(c, status, headers, after),
           server' \in [Resources -> [left : 0..Limit, reset : 1..Window]],
           \A x \in Resources : server[x].left = 0 => server'[x] = server[x],
           LET x == call[c].kind.resource IN
               headers = None \/ headers = Headers(server'[x]),
           UNCHANGED <<budget, blocked, kind, strikes>>
    PROVE  IInv'
<1> DEFINE r == [status |-> status, budget |-> headers, after |-> after]
           x == call[c].kind.resource
<1>1. r \in Response /\ r # None
  BY NoResponseAssumption DEF Response
<1>2. /\ call[c] \in Call /\ Sound(call[c]) /\ x \in Resources
      /\ call \in [Calls -> Call]
  BY CallFields DEF IInv, TypeOK
<1>3. \A d \in Calls :
          call'[d] = IF d = c THEN [call[c] EXCEPT !.phase = "answered", !.response = r]
                     ELSE call[d]
  BY <1>2 DEF Reply
<1>4. /\ call'[c] \in Call /\ call'[c].response = r
      /\ call'[c].kind = call[c].kind /\ call'[c].attempt = call[c].attempt
  BY <1>1, <1>2, <1>3 DEF Call
<1>5. call' \in [Calls -> Call]
  BY <1>2, <1>3, <1>4 DEF Reply
<1>6. headers # None => StaysFaithful(headers, x)
  BY <1>2 DEF Headers, StaysFaithful
<1>7. r.budget = headers
  OBVIOUS
<1> HIDE DEF r
<1>8. TypeOK'
  BY <1>5 DEF IInv, TypeOK, Horizon
<1>9. MutationSentOnce'
  BY <1>3, <1>4 DEF IInv, MutationSentOnce
<1>10. AnswersHeld'
  BY <1>1, <1>3, <1>4 DEF IInv, AnswersHeld
<1>11. BudgetsAreTrue'
  BY DEF IInv, BudgetsAreTrue, Faithful
<1>12. ASSUME NEW d \in Calls, call'[d].response # None, call'[d].response.budget # None
       PROVE  StaysFaithful(call'[d].response.budget, call'[d].kind.resource)
  <2>1. CASE d = c
    <3>1. /\ call'[d].response.budget = headers
          /\ call'[d].kind.resource = x
      BY <1>4, <1>7, <2>1
    <3> QED
      BY <1>6, <1>12, <3>1
  <2>2. CASE d # c
    <3>1. call'[d] = call[d] /\ call[d].kind.resource \in Resources
      BY <1>3, <2>2, CallFields
    <3>2. Faithful(call[d].response.budget, call[d].kind.resource)
      BY <1>12, <3>1 DEF IInv, AnswersAreTrue
    <3> QED
      BY <3>1, <3>2 DEF Faithful, StaysFaithful
  <2> QED
    BY <2>1, <2>2
<1>13. AnswersAreTrue'
  BY <1>12 DEF AnswersAreTrue, Faithful, StaysFaithful
<1> QED
  BY <1>8, <1>9, <1>10, <1>11, <1>13 DEF IInv

LEMMA AnswerInv == ASSUME IInv, NEW c \in Calls, Answer(c) PROVE IInv'
<1> DEFINE x == call[c].kind.resource
<1>1. /\ x \in Resources /\ server[x].left > 0
      /\ server \in [Resources -> [left : 0..Limit, reset : 1..Window]]
  BY CallFields DEF Answer, IInv, TypeOK
<1>2. Spend(x) \in [left : 0..Limit, reset : 1..Window]
  BY <1>1, LimitAssumption DEF Spend
<1>3. server' = [server EXCEPT ![x] = Spend(x)]
  BY DEF Answer
<1>4. /\ server' \in [Resources -> [left : 0..Limit, reset : 1..Window]]
      /\ server'[x] = Spend(x)
      /\ \A y \in Resources : server[y].left = 0 => server'[y] = server[y]
  BY <1>1, <1>2, <1>3
<1>5. Headers(Spend(x)) \in Budget
  BY <1>2, HeadersAreBudget
<1>6. PICK status \in {"ok", "forbidden", "secondary", "rejected", "upstream"},
           headers \in {None, Headers(Spend(x))}, after \in RetryAfters \cup {None} :
               Reply(c, status, headers, after)
  BY DEF Answer
<1>7. UNCHANGED <<budget, blocked, kind, strikes>>
  BY DEF Answer
<1>8. headers = None \/ headers = Headers(server'[x])
  BY <1>4, <1>6
<1>9. headers \in Budget \cup {None}
  BY <1>5, <1>6
<1> QED
  BY <1>4, <1>6, <1>7, <1>8, <1>9, ReplyInv

\* An answer that GitHub does not count.
LEMMA FreeReplyInv ==
    ASSUME IInv, NEW c \in Calls, NEW status \in {"ok", "forbidden"},
           Reply(c, status, Headers(server[call[c].kind.resource]), None),
           UNCHANGED <<server, budget, blocked, kind, strikes>>
    PROVE  IInv'
<1>1. server \in [Resources -> [left : 0..Limit, reset : 1..Window]]
  BY DEF IInv, TypeOK
<1>2. Headers(server[call[c].kind.resource]) \in Budget
  BY <1>1, CallFields, HeadersAreBudget
<1> QED
  BY <1>1, <1>2, ReplyInv

LEMMA NetworkInv == ASSUME IInv, NEW c \in Calls, Network(c) PROVE IInv'
<1>1. CASE Answer(c)
  BY <1>1, AnswerInv
<1>2. CASE AnswerNotModified(c)
  BY <1>2, FreeReplyInv DEF AnswerNotModified
<1>3. CASE AnswerSpent(c)
  BY <1>3, FreeReplyInv DEF AnswerSpent
<1>4. CASE Lose(c)
  BY <1>4, LoseInv
<1> QED
  BY <1>1, <1>2, <1>3, <1>4 DEF Network

-----------------------------------------------------------------------------
(* Time.                                                                    *)

\* What was true of a budget is true a tick later, across a reset too.
LEMMA FaithfulAges ==
    ASSUME IInv, Tick, NEW x \in Resources, NEW b \in Budget, Faithful(b, x)
    PROVE  StaysFaithful(Aged(b), x)
<1>1. server[x] \in [left : 0..Limit, reset : 1..Window]
  BY DEF IInv, TypeOK
<1>2. server'[x] = IF server[x].reset = 1 THEN [left |-> Limit, reset |-> Window]
                   ELSE [server[x] EXCEPT !.reset = @ - 1]
  BY DEF Tick
<1>3. /\ Aged(b).spent = b.spent
      /\ Aged(b).reset = IF b.reset = 0 THEN 0 ELSE b.reset - 1
      /\ b.reset \in 0..Window
  BY AgedIsBudget DEF Budget
<1>4. b.spent /\ Aged(b).reset > 0
          => server'[x].left = 0 /\ server'[x].reset = Aged(b).reset
  BY <1>1, <1>2, <1>3, LimitAssumption DEF Faithful
<1> QED
  BY <1>3, <1>4 DEF StaysFaithful

LEMMA TickInv == ASSUME IInv, Tick PROVE IInv'
<1>1. TypeOK
  BY DEF IInv
<1>2. server' \in [Resources -> [left : 0..Limit, reset : 1..Window]]
  BY <1>1, LimitAssumption DEF TypeOK, Tick
<1>3. /\ blocked' \in Nat /\ \E h \in Horizon : blocked' <= h
      /\ kind' \in {"primary", "secondary", "none"}
  BY <1>1, LimitAssumption DEF TypeOK, Tick, Sooner, Horizon
<1>4. ASSUME NEW x \in Resources
      PROVE  budget'[x] \in Budget /\ StaysFaithful(budget'[x], x)
  <2>1. budget'[x] = Aged(budget[x]) /\ budget[x] \in Budget
    BY <1>1 DEF Tick, TypeOK
  <2>2. Faithful(budget[x], x)
    BY DEF IInv, BudgetsAreTrue
  <2> QED
    BY <2>1, <2>2, AgedIsBudget, FaithfulAges
<1>5. budget' \in [Resources -> Budget]
  BY <1>4 DEF Tick
<1>6. BudgetsAreTrue'
  BY <1>4 DEF BudgetsAreTrue, Faithful, StaysFaithful
\* Answers under way age too.
<1>7. ASSUME NEW c \in Calls
      PROVE  /\ call'[c] \in Call /\ call'[c].kind = call[c].kind
             /\ call'[c].phase = call[c].phase /\ call'[c].attempt = call[c].attempt
             /\ call'[c].response = None <=> call[c].response = None
             /\ call'[c].response # None /\ call'[c].response.budget # None
                    => StaysFaithful(call'[c].response.budget, call'[c].kind.resource)
  <2> DEFINE r == call[c].response
  <2>1. call[c] \in Call /\ call[c].kind.resource \in Resources
    BY CallFields
  <2>2. CASE r = None
    BY <2>1, <2>2 DEF Tick
  <2>3. CASE r # None
    <3> DEFINE aged == [r EXCEPT !.budget = Aged(@)]
    <3>1. call'[c] = [call[c] EXCEPT !.response = aged]
      BY <2>3, <2>1 DEF Tick, Call
    <3>2. r \in Response
      BY <2>1, <2>3 DEF Call
    <3>3. aged.budget = Aged(r.budget)
      BY <3>2 DEF Response
    <3>4. r.budget = None => Aged(r.budget) = None
      BY DEF Aged
    <3>5. r.budget # None =>
              /\ Aged(r.budget) \in Budget
              /\ StaysFaithful(Aged(r.budget), call[c].kind.resource)
      <4> SUFFICES ASSUME r.budget # None
                   PROVE  /\ Aged(r.budget) \in Budget
                          /\ StaysFaithful(Aged(r.budget), call[c].kind.resource)
        OBVIOUS
      <4>1. r.budget \in Budget /\ Faithful(r.budget, call[c].kind.resource)
        BY <2>3, <3>2 DEF Response, IInv, AnswersAreTrue
      <4> QED
        BY <2>1, <4>1, AgedIsBudget, FaithfulAges
    <3>6. aged \in Response /\ aged # None
      BY <3>2, <3>4, <3>5, NoResponseAssumption DEF Response
    <3> HIDE DEF aged, r
    <3>7. /\ call'[c] \in Call /\ call'[c].response = aged
          /\ call'[c].kind = call[c].kind
          /\ call'[c].phase = call[c].phase /\ call'[c].attempt = call[c].attempt
      BY <2>1, <3>1, <3>6 DEF Call
    <3> QED
      BY <2>3, <3>3, <3>4, <3>5, <3>6, <3>7 DEF r
  <2> QED
    BY <2>2, <2>3
<1>8. call' \in [Calls -> Call]
  BY <1>7 DEF Tick
<1>9. MutationSentOnce'
  BY <1>7 DEF IInv, MutationSentOnce
<1>10. AnswersHeld'
  BY <1>7 DEF IInv, AnswersHeld
<1>11. AnswersAreTrue'
  BY <1>7 DEF AnswersAreTrue, Faithful, StaysFaithful
<1>12. TypeOK'
  BY <1>1, <1>2, <1>3, <1>5, <1>8 DEF TypeOK, Tick, Horizon
<1> QED
  BY <1>6, <1>9, <1>10, <1>11, <1>12 DEF IInv

-----------------------------------------------------------------------------
(* The theorems.                                                            *)

LEMMA StepInv == ASSUME IInv, [Next]_vars PROVE IInv'
<1>1. CASE Tick
  BY <1>1, TickInv
<1>2. ASSUME NEW c \in Calls, Start(c) \/ Network(c) PROVE IInv'
  BY <1>2, StartInv, NetworkInv
<1>3. ASSUME NEW c \in Calls, Client(c) PROVE IInv'
  BY <1>3, CheckInv, SendInv, ObserveInv, SucceedInv, BlockPrimaryInv,
     BlockSecondaryInv, DenyInv, FailInv DEF Client, Conclude
<1>4. CASE UNCHANGED vars
  BY <1>4 DEF vars, IInv, TypeOK, Horizon, MutationSentOnce, AnswersHeld,
              BudgetsAreTrue, AnswersAreTrue, Faithful
<1> QED
  BY <1>1, <1>2, <1>3, <1>4 DEF Next

LEMMA Invariance == Spec => []IInv
<1>1. Init => IInv
  BY InitInv
<1>2. IInv /\ [Next]_vars => IInv'
  BY StepInv
<1> QED
  BY <1>1, <1>2, PTL DEF Spec

(***************************************************************************)
(* Every variable of the governor and of its calls keeps its type; in      *)
(* particular no block outlasts the longest penalty, Retry-After or window *)
(* that can ask for one.                                                   *)
(***************************************************************************)
THEOREM TypeCorrect == Spec => []TypeOK
<1>1. IInv => TypeOK
  BY DEF IInv
<1> QED
  BY <1>1, Invariance, PTL

(***************************************************************************)
(* Whatever the order in which answers arrive and however late they are    *)
(* observed, check refuses for a spent budget only while GitHub would      *)
(* refuse too.                                                             *)
(***************************************************************************)
THEOREM RefusalsAreRight == Spec => []RefusesOnlyRightly
<1>1. IInv => RefusesOnlyRightly
  <2> SUFFICES ASSUME IInv, NEW x \in Resources, Exhausted(x)
               PROVE  server[x].left = 0
    BY DEF RefusesOnlyRightly
  <2> QED
    BY DEF Exhausted, IInv, BudgetsAreTrue, Faithful
<1> QED
  BY <1>1, Invariance, PTL

(***************************************************************************)
(* A PATCH is attempted once, whatever becomes of the attempt.             *)
(***************************************************************************)
THEOREM MutationsAreNotRetried == Spec => []MutationSentOnce
<1>1. IInv => MutationSentOnce
  BY DEF IInv
<1> QED
  BY <1>1, Invariance, PTL

(***************************************************************************)
(* No step but the passing of time brings the end of a block nearer.       *)
(***************************************************************************)
THEOREM BlocksOnlyLengthen == Spec => BlockNeverShortens
<1>1. IInv /\ [Next]_vars => [blocked' >= blocked \/ Tick]_vars
  <2> SUFFICES ASSUME IInv, Next PROVE blocked' >= blocked \/ Tick
    BY DEF vars
  <2>1. ASSUME NEW c \in Calls,
               Start(c) \/ Check(c) \/ Send(c) \/ Network(c) \/ Succeed(c)
                   \/ Deny(c) \/ Fail(c)
        PROVE  blocked' >= blocked
    <3>1. blocked' = blocked
      BY <2>1 DEF Start, Check, Send, Network, Answer, AnswerNotModified,
                  AnswerSpent, Lose, Succeed, Deny, Fail
    <3> QED
      BY <3>1, SharedTypes
  <2>2. ASSUME NEW c \in Calls, Observe(c) \/ BlockPrimary(c) \/ BlockSecondary(c)
        PROVE  blocked' >= blocked
    BY <2>2, ObserveInv, BlockPrimaryInv, BlockSecondaryInv
  <2> QED
    BY <2>1, <2>2 DEF Next, Client, Conclude
<1> QED
  BY <1>1, Invariance, PTL DEF Spec, BlockNeverShortens
=============================================================================
