------------------------------ MODULE Governor ------------------------------
(***************************************************************************)
(* Every request omaghy sends: GitHubClient::send's retry loop, the        *)
(* Governor it consults and informs (omaghy-api ratelimit.rs, retry.rs,    *)
(* error.rs), and the two budgets GitHub really keeps.                     *)
(*                                                                         *)
(* The calls of concurrent tasks share one governor behind one mutex; each *)
(* lock the loop takes is an action, and so is each await.  Instants are   *)
(* modelled by the time left until them, which is all the code compares,   *)
(* so that time need not be bounded.  Of a budget the governor looks only  *)
(* at whether it is spent and when it resets; the counts it shows the      *)
(* footer are left out.                                                    *)
(***************************************************************************)
EXTENDS Naturals

CONSTANTS
    Calls,       \* calls of send that may be under way at once
    Limit,       \* requests GitHub allows per resource and window
    Window,      \* length of that window
    Base, Cap,   \* SECONDARY_BASE, SECONDARY_CAP
    RetryAfters, \* what a Retry-After header may ask for
    MaxAttempts, \* RetryPolicy::max_attempts
    MaxStrikes,  \* bound: strikes told apart, past the one that reaches Cap
    None         \* no such header, no response

ASSUME LimitAssumption ==
    /\ Limit \in Nat \ {0}
    /\ Window \in Nat \ {0}
    /\ Base \in Nat \ {0}
    /\ Cap \in Nat /\ Cap >= Base
    /\ RetryAfters \subseteq Nat
    /\ MaxAttempts \in Nat \ {0}
    /\ MaxStrikes \in Nat \ {0}
    /\ \A n \in 0..(MaxStrikes - 1) : 2 ^ n \in Nat
    /\ Base * 2 ^ (MaxStrikes - 1) >= Cap
    /\ None \notin RetryAfters

Resources == {"rest", "graphql"}

\* The calls the program makes: PATCHes change something, queries do not.
Kinds == {[resource |-> "rest", mutation |-> FALSE],
          [resource |-> "rest", mutation |-> TRUE],
          [resource |-> "graphql", mutation |-> FALSE]}

VARIABLES
    server,  \* GitHub: what is left of each budget, and the time to its reset
    budget,  \* RateLimits.rest, .graphql: spent or not, and the time to reset
    blocked, \* RateLimits.blocked_until: the time left until then
    kind,    \* RateLimits.blocked_kind, while blocked
    strikes, \* RateLimits.secondary_strikes
    call     \* each call of send

vars == <<server, budget, blocked, kind, strikes, call>>

Budget == [spent : BOOLEAN, reset : 0..Window]

\* A response: its status, the budget its headers report, its Retry-After.
Response == [status : {"ok", "forbidden", "secondary", "rejected", "upstream"},
             budget : Budget \cup {None},
             after : RetryAfters \cup {None}]

ASSUME NoResponseAssumption == None \notin Response /\ None \notin Budget

Call == [kind : Kinds,
         phase : {"idle", "checking", "admitted", "sent", "answered", "succeeded",
                  "denied", "limited", "failed"},
         attempt : 1..MaxAttempts,
         response : Response \cup {None}]

\* The longest anything may be blocked: a penalty, a Retry-After or a reset.
Horizon == {Cap, Window} \cup RetryAfters

IdleCall == [kind |-> [resource |-> "rest", mutation |-> FALSE], phase |-> "idle",
             attempt |-> 1, response |-> None]

TypeOK ==
    /\ server \in [Resources -> [left : 0..Limit, reset : 1..Window]]
    /\ budget \in [Resources -> Budget]
    /\ blocked \in Nat /\ \E h \in Horizon : blocked <= h
    /\ kind \in {"primary", "secondary", "none"}
    /\ strikes \in 0..MaxStrikes
    /\ call \in [Calls -> Call]

Init ==
    /\ server = [x \in Resources |-> [left |-> Limit, reset |-> Window]]
    /\ budget = [x \in Resources |-> [spent |-> FALSE, reset |-> 0]]
    /\ blocked = 0
    /\ kind = "none"
    /\ strikes = 0
    /\ call = [c \in Calls |-> IdleCall]

-----------------------------------------------------------------------------
(* Time.  It passes everywhere at once, in headers under way too.           *)

Sooner(n) == IF n = 0 THEN 0 ELSE n - 1

Aged(b) == IF b = None THEN None ELSE [b EXCEPT !.reset = Sooner(@)]

Tick ==
    /\ server' = [x \in Resources |->
                    IF server[x].reset = 1
                    THEN [left |-> Limit, reset |-> Window]
                    ELSE [server[x] EXCEPT !.reset = @ - 1]]
    /\ budget' = [x \in Resources |-> Aged(budget[x])]
    /\ blocked' = Sooner(blocked)
    /\ kind' = IF blocked <= 1 THEN "none" ELSE kind
    /\ call' = [c \in Calls |->
                  IF call[c].response = None THEN call[c]
                  ELSE [call[c] EXCEPT !.response.budget = Aged(@)]]
    /\ UNCHANGED strikes

-----------------------------------------------------------------------------
(* Governor::check.                                                         *)

\* Mutant of Exhausted: a budget that was spent is spent until told otherwise.
ExhaustedForGood(x) == budget[x].spent

\* Budget::is_exhausted: spent, and not yet rolled over.
Exhausted(x) == budget[x].spent /\ budget[x].reset > 0

Admits(x) == blocked = 0 /\ ~ Exhausted(x)

-----------------------------------------------------------------------------
(* One attempt of GitHubClient::send: check, wait, send.                    *)

\* RetryPolicy::attempts_for.
Attempts(c) == IF call[c].kind.mutation THEN 1 ELSE MaxAttempts

\* Mutant of IsLast: only a read is counted.
IsLastOfAnything(c) == call[c].attempt = MaxAttempts

IsLast(c) == call[c].attempt = Attempts(c)

Start(c) ==
    /\ call[c].phase = "idle"
    /\ \E k \in Kinds :
          call' = [call EXCEPT ![c] = [kind |-> k, phase |-> "checking",
                                       attempt |-> 1, response |-> None]]
    /\ UNCHANGED <<server, budget, blocked, kind, strikes>>

\* governor.check: refused, the call fails at once; admitted, it goes on.
Check(c) ==
    /\ call[c].phase = "checking"
    /\ call' = IF Admits(call[c].kind.resource)
               THEN [call EXCEPT ![c].phase = "admitted"]
               ELSE [call EXCEPT ![c] = IdleCall]
    /\ UNCHANGED <<server, budget, blocked, kind, strikes>>

\* The back-off is over and transport.execute sends.  Nothing is asked again.
Send(c) ==
    /\ call[c].phase = "admitted"
    /\ call' = [call EXCEPT ![c].phase = "sent"]
    /\ UNCHANGED <<server, budget, blocked, kind, strikes>>

-----------------------------------------------------------------------------
(* GitHub, and the network.                                                 *)

\* What is left after one more request, and what the headers then say of it.
Spend(x) == [server[x] EXCEPT !.left = @ - 1]
Headers(s) == IF s.left = 0 THEN [spent |-> TRUE, reset |-> s.reset]
              ELSE [spent |-> FALSE, reset |-> 0]

Reply(c, status, headers, after) ==
    call' = [call EXCEPT ![c].phase = "answered",
                         ![c].response = [status |-> status, budget |-> headers,
                                          after |-> after]]

\* A request within the budget: done, forbidden (403) or otherwise rejected, or
\* failed within; or refused by the secondary limit.  An answer from a proxy
\* carries no budget.
Answer(c) ==
    LET x == call[c].kind.resource IN
    /\ call[c].phase = "sent"
    /\ server[x].left > 0
    /\ server' = [server EXCEPT ![x] = Spend(x)]
    /\ \/ \E status \in {"ok", "forbidden", "rejected"} :
             Reply(c, status, Headers(Spend(x)), None)
       \/ \E after \in RetryAfters \cup {None} :
             Reply(c, "secondary", Headers(Spend(x)), after)
       \/ \E after \in RetryAfters \cup {None}, b \in {None, Headers(Spend(x))} :
             Reply(c, "upstream", b, after)
    /\ UNCHANGED <<budget, blocked, kind, strikes>>

\* A 304 to a conditional read costs nothing.
AnswerNotModified(c) ==
    LET x == call[c].kind.resource IN
    /\ call[c].phase = "sent"
    /\ call[c].kind = [resource |-> "rest", mutation |-> FALSE]
    /\ Reply(c, "ok", Headers(server[x]), None)
    /\ UNCHANGED <<server, budget, blocked, kind, strikes>>

\* A request beyond the budget: a 403 with nothing remaining, or, for GraphQL,
\* a 200 whose body says RATE_LIMITED.
AnswerSpent(c) ==
    LET x == call[c].kind.resource IN
    /\ call[c].phase = "sent"
    /\ server[x].left = 0
    /\ \E status \in IF x = "graphql" THEN {"forbidden", "ok"} ELSE {"forbidden"} :
          Reply(c, status, Headers(server[x]), None)
    /\ UNCHANGED <<server, budget, blocked, kind, strikes>>

\* No answer: unreachable, timed out, or lost after GitHub had acted; or a
\* request the HTTP client cannot build, which is not worth another attempt.
Lose(c) ==
    /\ \/ /\ call[c].phase \in {"sent", "answered"}
          /\ call' = [call EXCEPT ![c].phase = "failed", ![c].response = None]
       \/ /\ call[c].phase = "sent"
          /\ call' = [call EXCEPT ![c].phase = "denied"]
    /\ UNCHANGED <<server, budget, blocked, kind, strikes>>

-----------------------------------------------------------------------------
(* What an answer does to the governor.                                     *)

\* Mutant of Raise: the latest instruction replaces the one before.
RaiseLatest(wait, why) ==
    /\ blocked' = wait
    /\ kind' = IF wait = 0 THEN "none" ELSE why

\* A block only ever moves later, and is named for whoever moved it last.
Raise(wait, why) ==
    IF wait > blocked
    THEN blocked' = wait /\ kind' = why
    ELSE UNCHANGED <<blocked, kind>>

\* Mutant of Filed: one counter for both budgets.
FiledUnderBoth(x, headers) ==
    IF headers = None THEN budget ELSE [y \in Resources |-> headers]

\* A response with no budget headers says nothing; any other replaces what was
\* known of its own resource, older or newer.
Filed(x, headers) ==
    IF headers = None THEN budget ELSE [budget EXCEPT ![x] = headers]

\* A 403 or 429 whose headers say that nothing remains.
SaysSpent(r) == r.budget # None /\ r.budget.spent

\* What the loop and map_response make of a response: a 403 is a limit if it
\* says that the budget is spent, and a denial if not.
Outcome(r) ==
    CASE r.status = "ok" -> "succeeded"
      [] r.status = "upstream" -> "failed"
      [] r.status = "secondary" -> "limited"
      [] r.status = "forbidden" /\ SaysSpent(r) -> "limited"
      [] OTHER -> "denied"

\* Governor::observe, before anything is made of the status.
Observe(c) ==
    LET r == call[c].response IN
    /\ call[c].phase = "answered"
    /\ budget' = Filed(call[c].kind.resource, r.budget)
    /\ IF r.after = None THEN UNCHANGED <<blocked, kind>>
       ELSE Raise(r.after, "secondary")
    /\ call' = [call EXCEPT ![c].phase = Outcome(r),
                            ![c].response = IF Outcome(r) = "limited" THEN r ELSE None]
    /\ UNCHANGED <<server, strikes>>

\* SECONDARY_BASE doubled once per strike after the first, up to SECONDARY_CAP.
Penalty(n) == IF Base * 2 ^ (n - 1) > Cap THEN Cap ELSE Base * 2 ^ (n - 1)

\* Mutant of Longer: the penalty comes on top of what GitHub asked for.
LongerAdded(a, b) == IF b = None THEN a ELSE a + b

Longer(a, b) == IF b = None \/ a > b THEN a ELSE b

Return(c) == call' = [call EXCEPT ![c] = IdleCall]

Retry(c) ==
    call' = [call EXCEPT ![c].phase = "checking", ![c].attempt = @ + 1]

\* A success or a 304: note_success, and the call returns.
Succeed(c) ==
    /\ call[c].phase = "succeeded"
    /\ strikes' = 0
    /\ Return(c)
    /\ UNCHANGED <<server, budget, blocked, kind>>

\* map_response of a limit that says nothing remains: block_until the reset,
\* of every resource, whatever else the response was about.
BlockPrimary(c) ==
    /\ call[c].phase = "limited"
    /\ SaysSpent(call[c].response)
    /\ Raise(call[c].response.budget.reset, "primary")
    /\ Return(c)
    /\ UNCHANGED <<server, budget, strikes>>

\* map_response of any other secondary limit: note_secondary_limit.
BlockSecondary(c) ==
    LET n == IF strikes = MaxStrikes THEN MaxStrikes ELSE strikes + 1 IN
    /\ call[c].phase = "limited"
    /\ ~ SaysSpent(call[c].response)
    /\ strikes' = n
    /\ Raise(Longer(Penalty(n), call[c].response.after), "secondary")
    /\ Return(c)
    /\ UNCHANGED <<server, budget>>

\* map_response of the rest: the call fails and the governor learns nothing.
Deny(c) ==
    /\ call[c].phase = "denied"
    /\ Return(c)
    /\ UNCHANGED <<server, budget, blocked, kind, strikes>>

\* Mutant of Fail: nobody counts the attempts.
FailForever(c) ==
    /\ call[c].phase = "failed"
    /\ call' = [call EXCEPT ![c].phase = "checking"]
    /\ UNCHANGED <<server, budget, blocked, kind, strikes>>

\* A 5xx, and an answer that never came, earn another attempt if one is left.
Fail(c) ==
    /\ call[c].phase = "failed"
    /\ IF IsLast(c) THEN Return(c) ELSE Retry(c)
    /\ UNCHANGED <<server, budget, blocked, kind, strikes>>

-----------------------------------------------------------------------------

Network(c) == Answer(c) \/ AnswerNotModified(c) \/ AnswerSpent(c) \/ Lose(c)

Conclude(c) == Succeed(c) \/ BlockPrimary(c) \/ BlockSecondary(c) \/ Deny(c) \/ Fail(c)

Client(c) == Check(c) \/ Send(c) \/ Observe(c) \/ Conclude(c)

Next ==
    \/ Tick
    \/ \E c \in Calls : Start(c) \/ Client(c) \/ Network(c)

Spec == Init /\ [][Next]_vars

(* Time passes, a task that can go on does, and the HTTP timeout ends every *)
(* wait for an answer.  Nobody is obliged to start a call.                  *)
Fairness ==
    /\ WF_vars(Tick)
    /\ \A c \in Calls : WF_vars(Client(c)) /\ WF_vars(Network(c))

FairSpec == Spec /\ Fairness

-----------------------------------------------------------------------------

(***************************************************************************)
(* The governor refuses for a spent budget only while GitHub would too:    *)
(* answers that arrive out of order, from either resource, after a reset   *)
(* or across one, never make an open budget read as an outage.             *)
(***************************************************************************)
RefusesOnlyRightly ==
    \A x \in Resources : Exhausted(x) => server[x].left = 0

(***************************************************************************)
(* "A mutation is never retried automatically": whatever is lost or        *)
(* refused, a PATCH is attempted once.                                     *)
(***************************************************************************)
MutationSentOnce ==
    \A c \in Calls : call[c].kind.mutation => call[c].attempt = 1

(***************************************************************************)
(* A block GitHub asked for only moves later, whichever task reports what: *)
(* a short Retry-After, a first strike or a success landing after a long   *)
(* penalty does not cut it short.                                          *)
(***************************************************************************)
BlockNeverShortens == [][blocked' >= blocked \/ Tick]_vars

(***************************************************************************)
(* The governor never shuts a resource for good: penalties end, and a      *)
(* budget known to be spent is asked for again once it has rolled over.    *)
(***************************************************************************)
NeverShutForGood == \A x \in Resources : []<>Admits(x)

(***************************************************************************)
(* Every call returns, however many of its attempts fail.                  *)
(***************************************************************************)
EveryCallReturns ==
    \A c \in Calls : call[c].phase # "idle" ~> call[c].phase = "idle"

-----------------------------------------------------------------------------
(* Why RefusesOnlyRightly holds: whatever is known, or on its way, to be    *)
(* spent until a reset is what GitHub's own budget still is.                *)

Faithful(b, x) ==
    b.spent /\ b.reset > 0 => server[x].left = 0 /\ server[x].reset = b.reset

\* What is acted upon has arrived.
AnswersHeld ==
    \A c \in Calls : call[c].phase \in {"answered", "limited"} => call[c].response # None

BudgetsAreTrue == \A x \in Resources : Faithful(budget[x], x)

AnswersAreTrue ==
    \A c \in Calls :
        call[c].response # None /\ call[c].response.budget # None
            => Faithful(call[c].response.budget, call[c].kind.resource)

IInv == TypeOK /\ MutationSentOnce /\ AnswersHeld /\ BudgetsAreTrue /\ AnswersAreTrue

-----------------------------------------------------------------------------
(* What the repository says of this code and the code does not do.          *)

(***************************************************************************)
(* "They must not share a counter, or a busy hour of REST polling would    *)
(* look like a GraphQL outage": a resource is refused for a primary limit  *)
(* only when its own budget is spent.                                      *)
(***************************************************************************)
NoSharedOutage ==
    \A x \in Resources :
        blocked > 0 /\ kind = "primary" => server[x].left = 0
=============================================================================
