-------------------------------- MODULE Poll --------------------------------
(***************************************************************************)
(* The poll loop: Syncer::start_polling, poll_forever and interval_for     *)
(* (omaghy-sync poll.rs), with the two things it reads of every fetch --   *)
(* the failures and last_fetch that Job::run keeps -- and the store whose  *)
(* death is meant to end it.                                               *)
(*                                                                         *)
(* Time is in ticks.  The code between two awaits takes none, so time      *)
(* passes only while every task awaits something; a fetch takes as long as *)
(* it takes.  What a refresh does besides being one at a time is the       *)
(* matter of Refresh.tla.                                                  *)
(***************************************************************************)
EXTENDS Naturals

CONSTANTS
    Targets,     \* the polled targets; start_polling's are two
    Inbox,       \* RefreshTarget::Notifications
    Base,        \* Base[t]: the interval PollConfig gives t
    Floor,       \* FLOOR
    MaxBackoff,  \* MAX_BACKOFF
    MaxFailures, \* the failures the doubling counts: .min(8)
    Advertised   \* what X-Poll-Interval may say

ASSUME PollAssumption ==
    /\ Base \in [Targets -> Nat \ {0}]
    /\ Floor \in Nat \ {0}
    /\ MaxBackoff \in Nat /\ MaxBackoff >= Floor
    /\ MaxFailures \in Nat
    /\ \A n \in 0..MaxFailures : 2 ^ n \in Nat \ {0}
    /\ Advertised \subseteq Nat

VARIABLES
    open,       \* whether the App still holds the store
    advertised, \* RateLimits.poll_interval, where GitHub's instruction is kept
    since,      \* the time since last_fetch
    failures,   \* Syncer.failures
    fetch,      \* how far the fetch of each target is, if one is under way
    task,       \* the poll task of each target
    paced       \* for checking only: the time since its task last ticked

pollVars == <<open, advertised, since, failures, fetch, task, paced>>

Task == [phase : {"looking", "looked", "sleeping", "due", "resting", "ended"},
         interval : Nat, left : Nat]

NewTask == [phase |-> "looking", interval |-> 0, left |-> 0]

Larger(m, n) == IF m > n THEN m ELSE n
Smaller(m, n) == IF m < n THEN m ELSE n

\* Bound: no interval of t is longer, so of time elapsed more is the same.
Longest(t) == Larger(Base[t], MaxBackoff)

PollTypeOK ==
    /\ open \in BOOLEAN
    /\ advertised \in Advertised \cup {0}
    /\ since \in [Targets -> Nat]
    /\ failures \in [Targets -> 0..MaxFailures]
    /\ fetch \in [Targets -> {"idle", "fetching", "counted", "stamped"}]
    /\ task \in [Targets -> Task]
    /\ \A t \in Targets : task[t].interval <= Longest(t)
    /\ paced \in [Targets -> Nat]

\* start_polling marks both targets fetched, so the first tick is an interval
\* away.
PollInit ==
    /\ open = TRUE
    /\ advertised = 0
    /\ since = [t \in Targets |-> 0]
    /\ failures = [t \in Targets |-> 0]
    /\ fetch = [t \in Targets |-> "idle"]
    /\ task = [t \in Targets |-> NewTask]
    /\ paced = [t \in Targets |-> 0]

-----------------------------------------------------------------------------
(* The fetches, whoever asks for them.                                      *)

\* r, or entering a surface: a no-op while a fetch is under way.
Ask(t) ==
    /\ open
    /\ fetch[t] = "idle"
    /\ fetch' = [fetch EXCEPT ![t] = "fetching"]
    /\ UNCHANGED <<open, advertised, since, failures, task, paced>>

\* Leaving a surface aborts the fetch, which then leaves no trace.
Cancel(t) ==
    /\ open
    /\ fetch[t] = "fetching"
    /\ fetch' = [fetch EXCEPT ![t] = "idle"]
    /\ UNCHANGED <<open, advertised, since, failures, task, paced>>

\* The answer, or the lack of one, is counted; the inbox's headers may say how
\* often to poll, and observe keeps that in the governor.
Count(t) ==
    /\ fetch[t] = "fetching"
    /\ fetch' = [fetch EXCEPT ![t] = "counted"]
    /\ \E n \in {0, Smaller(failures[t] + 1, MaxFailures)} :
          failures' = [failures EXCEPT ![t] = n]
    /\ \/ UNCHANGED advertised
       \/ t = Inbox /\ advertised' \in Advertised
    /\ UNCHANGED <<open, since, task, paced>>

Stamp(t) ==
    /\ fetch[t] = "counted"
    /\ fetch' = [fetch EXCEPT ![t] = "stamped"]
    /\ since' = [since EXCEPT ![t] = 0]
    /\ UNCHANGED <<open, advertised, failures, task, paced>>

\* refresh_finished or refresh_failed; the job ends and lets go of the store.
\* (A job for details may follow and hold it a while longer.)
Settle(t) ==
    /\ fetch[t] = "stamped"
    /\ fetch' = [fetch EXCEPT ![t] = "idle"]
    /\ UNCHANGED <<open, advertised, since, failures, task, paced>>

-----------------------------------------------------------------------------
(* interval_for.                                                            *)

\* Cache::poll_interval: a row of the kv table that nothing in the program
\* writes (set_poll_interval has no caller), so 0, which is no such row.
CachedInterval == 0

\* The configured interval, floored; of the inbox, raised to GitHub's.
Unfailing(t) ==
    LET wait == Larger(Base[t], Floor)
    IN  IF t = Inbox THEN Larger(wait, CachedInterval) ELSE wait

\* Doubled once per failure, each time up to MAX_BACKOFF.
IntervalFor(t) ==
    LET n == failures[t]
    IN  IF n = 0 THEN Unfailing(t)
        ELSE Smaller(Unfailing(t) * 2 ^ n, MaxBackoff)

-----------------------------------------------------------------------------
(* poll_forever.                                                            *)

\* Mutant of Alive: a task is given an Arc of the store, not a Weak.
AliveHeld == open \/ \E t \in Targets : task[t].phase # "ended"

\* Who of a target holds the store: its job, or its poll task -- one that is
\* looking, and one that rests after a tick, whose second pair of upgraded Arcs
\* lives to the end of the loop's body.
Holds(t) == fetch[t] # "idle" \/ task[t].phase \in {"looked", "resting"}

\* Whether a Weak upgrades.
Alive == open \/ \E t \in Targets : Holds(t)

\* Mutant of Look: a target whose fetch failed is no longer polled.
LookGivesUp(t) ==
    /\ task[t].phase = "looking"
    /\ task' = IF Alive /\ failures[t] = 0
               THEN [task EXCEPT ![t].phase = "looked", ![t].interval = IntervalFor(t)]
               ELSE [task EXCEPT ![t] = [NewTask EXCEPT !.phase = "ended"]]
    /\ UNCHANGED <<open, advertised, since, failures, fetch, paced>>

\* The top of the loop: upgrade, or end; then the interval, from the failures.
Look(t) ==
    /\ task[t].phase = "looking"
    /\ task' = IF Alive
               THEN [task EXCEPT ![t].phase = "looked", ![t].interval = IntervalFor(t)]
               ELSE [task EXCEPT ![t] = [NewTask EXCEPT !.phase = "ended"]]
    /\ UNCHANGED <<open, advertised, since, failures, fetch, paced>>

\* Mutant of Decide: a target not yet due is given a whole interval.
DecideWhole(t) ==
    /\ task[t].phase = "looked"
    /\ task' = IF since[t] >= task[t].interval
               THEN [task EXCEPT ![t].phase = "due"]
               ELSE [task EXCEPT ![t].phase = "sleeping",
                                 ![t].left = task[t].interval]
    /\ UNCHANGED <<open, advertised, since, failures, fetch, paced>>

\* remaining_until_due: nothing, or what is left of the interval, slept out.
Decide(t) ==
    /\ task[t].phase = "looked"
    /\ task' = IF since[t] >= task[t].interval
               THEN [task EXCEPT ![t].phase = "due"]
               ELSE [task EXCEPT ![t].phase = "sleeping",
                                 ![t].left = task[t].interval - since[t]]
    /\ UNCHANGED <<open, advertised, since, failures, fetch, paced>>

\* Mutant of Fire: no rest after a tick.
FireRestless(t) ==
    /\ task[t].phase = "due"
    /\ IF Alive
       THEN /\ fetch' = IF fetch[t] = "idle" THEN [fetch EXCEPT ![t] = "fetching"]
                        ELSE fetch
            /\ task' = [task EXCEPT ![t] = NewTask]
            /\ paced' = [paced EXCEPT ![t] = 0]
       ELSE /\ task' = [task EXCEPT ![t] = [NewTask EXCEPT !.phase = "ended"]]
            /\ UNCHANGED <<fetch, paced>>
    /\ UNCHANGED <<open, advertised, since, failures>>

\* A tick: upgrade again, or end; ask, and rest for a whole interval.
Fire(t) ==
    /\ task[t].phase = "due"
    /\ IF Alive
       THEN /\ fetch' = IF fetch[t] = "idle" THEN [fetch EXCEPT ![t] = "fetching"]
                        ELSE fetch
            /\ task' = [task EXCEPT ![t].phase = "resting",
                                    ![t].left = task[t].interval]
            /\ paced' = [paced EXCEPT ![t] = 0]
       ELSE /\ task' = [task EXCEPT ![t] = [NewTask EXCEPT !.phase = "ended"]]
            /\ UNCHANGED <<fetch, paced>>
    /\ UNCHANGED <<open, advertised, since, failures>>

\* A sleep is over; the Arcs a resting task held are dropped.
Wake(t) ==
    /\ task[t].phase \in {"sleeping", "resting"}
    /\ task[t].left = 0
    /\ task' = [task EXCEPT ![t] = NewTask]
    /\ UNCHANGED <<open, advertised, since, failures, fetch, paced>>

-----------------------------------------------------------------------------

\* The TUI ends and drops the store.
Quit ==
    /\ open
    /\ open' = FALSE
    /\ UNCHANGED <<advertised, since, failures, fetch, task, paced>>

\* Time passes while every poll task sleeps and every job awaits its answer.
Tick ==
    /\ \A t \in Targets :
          \/ task[t].phase \in {"sleeping", "resting"} /\ task[t].left > 0
          \/ task[t].phase = "ended"
    /\ \A t \in Targets : fetch[t] \in {"idle", "fetching"}
    /\ since' = [t \in Targets |-> Smaller(since[t] + 1, Longest(t))]
    /\ paced' = [t \in Targets |-> Smaller(paced[t] + 1, MaxBackoff)]
    /\ task' = [t \in Targets |->
                  IF task[t].phase = "ended" THEN task[t]
                  ELSE [task[t] EXCEPT !.left = @ - 1]]
    /\ UNCHANGED <<open, advertised, failures, fetch>>

PollStep(t) == Look(t) \/ Decide(t) \/ Fire(t) \/ Wake(t)

JobStep(t) == Count(t) \/ Stamp(t) \/ Settle(t)

PollNext ==
    \/ Quit \/ Tick
    \/ \E t \in Targets : Ask(t) \/ Cancel(t) \/ JobStep(t) \/ PollStep(t)

PollSpec == PollInit /\ [][PollNext]_pollVars

(* Time passes, however often someone asks -- and with it the tasks, which  *)
(* it waits for -- and the HTTP timeout ends every fetch.  Nobody is obliged *)
(* to ask, to cancel or to quit.                                            *)
AllEnded == \A t \in Targets : task[t].phase = "ended"

PollFairness ==
    /\ []<><<Tick>>_pollVars \/ <>[]AllEnded
    /\ \A t \in Targets : WF_pollVars(JobStep(t))

PollFairSpec == PollSpec /\ PollFairness

-----------------------------------------------------------------------------

(***************************************************************************)
(* A poll is never slept past: a sleeping task wakes no later than one     *)
(* interval after the last fetch, whoever made that fetch and however the  *)
(* sleep was interrupted by others (a tick finds it, and waits out the     *)
(* remainder only).                                                        *)
(***************************************************************************)
NeverOversleeps ==
    \A t \in Targets : task[t].phase = "sleeping" =>
        since[t] + task[t].left <= task[t].interval

(***************************************************************************)
(* "Never faster than this, whatever anything says": between two ticks of  *)
(* one task, and before its first, lies at least the interval the file     *)
(* asks for, floored -- or MAX_BACKOFF, to which failures cut a longer one *)
(* -- however its fetches fail, are refused, linger unanswered or are      *)
(* cancelled, and whatever else fetched the target meanwhile.              *)
(***************************************************************************)
Pace(t) == Smaller(Larger(Base[t], Floor), MaxBackoff)

NeverTooSoon ==
    [][\A t \in Targets :
          task[t].phase = "due" /\ task'[t].phase \notin {"due", "ended"} =>
              paced[t] >= Pace(t)]_pollVars

(***************************************************************************)
(* An open session never stops looking: however fetches fail, coalesce or  *)
(* are cancelled, every target is fetched again.                           *)
(***************************************************************************)
KeepsLooking == \A t \in Targets : []<>(fetch[t] = "fetching" \/ ~ open)

(***************************************************************************)
(* What a Weak is worth: once the TUI has gone, a task does not live on by *)
(* its own sleeps, looks and ticks, nor by the answers it waits for.  All  *)
(* tasks end, unless for ever two targets go on holding the store at one   *)
(* time.                                                                   *)
(***************************************************************************)
Overlap == \E t, u \in Targets : t # u /\ Holds(t) /\ Holds(u)

OnlyOverlapsHold == <>[](~ Overlap) => (~ open ~> AllEnded)

-----------------------------------------------------------------------------
(* What the documentation says of the loop, and the code does not do.       *)

(***************************************************************************)
(* "The tasks hold a Weak to the store and end when the TUI drops it."     *)
(***************************************************************************)
TasksEnd == ~ open ~> AllEnded

(***************************************************************************)
(* "GitHub's X-Poll-Interval wins upward": at every look the interval of   *)
(* the inbox is at least what GitHub last asked for.                       *)
(***************************************************************************)
GitHubWins ==
    [][task[Inbox].phase = "looking" /\ task'[Inbox].phase = "looked" =>
          task'[Inbox].interval >= advertised]_pollVars

(***************************************************************************)
(* "Failure backs off": at every look a target whose fetches fail waits at *)
(* least as long as one whose fetches do not.                              *)
(***************************************************************************)
FailureBacksOff ==
    [][\A t \in Targets :
          task[t].phase = "looking" /\ task'[t].phase = "looked" =>
              task'[t].interval >= Unfailing(t)]_pollVars
=============================================================================
