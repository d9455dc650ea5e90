------------------------------ MODULE Refresh ------------------------------
(***************************************************************************)
(* The refresh pipeline: SqliteStore::refresh / cancel / refresh_finished  *)
(* (omaghy-cache) over Syncer::schedule / cancel and Job::run              *)
(* (omaghy-sync).                                                          *)
(*                                                                         *)
(* The store's in_flight set and the syncer's running map are guarded by   *)
(* two different mutexes and no operation holds both, so every operation   *)
(* is as many steps here as it takes locks in the code.  The UI task, the  *)
(* two poll tasks and the spawned jobs run on a multi-thread runtime and   *)
(* interleave at those points.                                             *)
(*                                                                         *)
(* What a fetch reads and writes is the matter of Inbox.tla.  Job::run     *)
(* also counts failures and stamps last_fetch, under mutexes of their own, *)
(* between Unlist and Settle; only the poll loop reads those, so they are  *)
(* the matter of the poll model and add no step here.                      *)
(***************************************************************************)
EXTENDS Naturals, FiniteSets

CONSTANTS
    Targets,     \* the RefreshTargets in use
    Inbox,       \* RefreshTarget::Notifications
    Details,     \* RefreshTarget::NotificationDetails
    Cancellable, \* the targets some surface cancels in on_leave
    Callers,     \* threads that call Store::refresh: the UI and the poll tasks
    UI,          \* the UI task, the one thread that calls Store::cancel
    MayAsk,      \* MayAsk[c]: the targets caller c refreshes
    Jobs,        \* identities of spawned tasks; one is reused when its task ends
    None

ASSUME TargetAssumption ==
    /\ Inbox \in Targets
    /\ Details \in Targets
    /\ Inbox # Details
    /\ Cancellable \subseteq Targets \ {Details}
    /\ None \notin Targets \cup Jobs

ASSUME ThreadAssumption ==
    /\ UI \in Callers
    /\ Callers \cap Jobs = {}
    /\ MayAsk \in [Callers -> SUBSET Targets]

\* A job calls Store::refresh too: a landed inbox asks for its details.
Threads == Callers \cup Jobs

VARIABLES
    inFlight, \* SqliteStore.in_flight
    running,  \* Syncer.running: the handle held for each target
    phase,    \* how far each job is through Job::run
    target,   \* the target of each job
    ok,       \* whether the job's fetch succeeded
    step,     \* how far each thread is through Store::refresh
    goal,     \* the target that thread is refreshing
    leaving,  \* the target the UI is half way through cancelling
    heard     \* the last event broadcast about each target

vars == <<inFlight, running, phase, target, ok, step, goal, leaving, heard>>

\* No target a surface can cancel: the rules of coalescing hold for these.
Stable == Targets \ Cancellable

TypeOK ==
    /\ inFlight \subseteq Targets
    /\ running \in [Targets -> Jobs \cup {None}]
    /\ phase \in [Jobs -> {"idle", "fetching", "landing", "unlisted",
                           "settled", "chaining"}]
    /\ target \in [Jobs -> Targets \cup {None}]
    /\ ok \in [Jobs -> BOOLEAN]
    /\ step \in [Threads -> {"idle", "claimed", "announced"}]
    /\ goal \in [Threads -> Targets \cup {None}]
    /\ leaving \in Cancellable \cup {None}
    /\ heard \in [Targets -> {"nothing", "started", "landed"}]

Init ==
    /\ inFlight = {}
    /\ running = [t \in Targets |-> None]
    /\ phase = [j \in Jobs |-> "idle"]
    /\ target = [j \in Jobs |-> None]
    /\ ok = [j \in Jobs |-> FALSE]
    /\ step = [p \in Threads |-> "idle"]
    /\ goal = [p \in Threads |-> None]
    /\ leaving = None
    /\ heard = [t \in Targets |-> "nothing"]

-----------------------------------------------------------------------------
(* Store::refresh, in three steps: claim, announce, schedule.               *)

\* Mutant of Claim: refresh ignores that the target is already in flight.
ClaimUnchecked(p, t) ==
    /\ inFlight' = inFlight \cup {t}
    /\ step' = [step EXCEPT ![p] = "claimed"]
    /\ goal' = [goal EXCEPT ![p] = t]

\* in_flight.insert found the target absent.
Claim(p, t) ==
    /\ t \notin inFlight
    /\ inFlight' = inFlight \cup {t}
    /\ step' = [step EXCEPT ![p] = "claimed"]
    /\ goal' = [goal EXCEPT ![p] = t]

\* The UI or a poll task asks.  A target already in flight is a no-op: the
\* caller coalesces into the refresh it believes is under way.
Ask(p, t) ==
    /\ t \in MayAsk[p]
    /\ step[p] = "idle"
    /\ p = UI => leaving = None
    /\ Claim(p, t)
    /\ UNCHANGED <<running, phase, target, ok, leaving, heard>>

AnnounceStarted(p) ==
    /\ step[p] = "claimed"
    /\ step' = [step EXCEPT ![p] = "announced"]
    /\ heard' = [heard EXCEPT ![goal[p]] = "started"]
    /\ UNCHANGED <<inFlight, running, phase, target, ok, goal, leaving>>

\* A thread that has left Store::refresh; a job that chained is finished.
Return(p, phases) ==
    /\ step' = [step EXCEPT ![p] = "idle"]
    /\ goal' = [goal EXCEPT ![p] = None]
    /\ phase' = IF p \in Jobs THEN [phases EXCEPT ![p] = "idle"] ELSE phases

\* Mutant of ScheduleCoalesced: schedule gives up at random, as it would with
\* a handle map nobody cleared.
ScheduleDropped(p) ==
    /\ step[p] = "announced"
    /\ Return(p, phase)
    /\ UNCHANGED <<inFlight, running, target, ok, leaving, heard>>

\* Syncer::schedule: a target with a handle is already being fetched ...
ScheduleCoalesced(p) ==
    /\ step[p] = "announced"
    /\ running[goal[p]] # None
    /\ Return(p, phase)
    /\ UNCHANGED <<inFlight, running, target, ok, leaving, heard>>

\* ... and any other is spawned, the handle stored under the same lock.
ScheduleSpawn(p, j) ==
    /\ step[p] = "announced"
    /\ running[goal[p]] = None
    /\ phase[j] = "idle"
    /\ running' = [running EXCEPT ![goal[p]] = j]
    /\ target' = [target EXCEPT ![j] = goal[p]]
    /\ Return(p, [phase EXCEPT ![j] = "fetching"])
    /\ UNCHANGED <<inFlight, ok, leaving, heard>>

-----------------------------------------------------------------------------
(* Job::run.  It awaits only while fetching; from Respond on it cannot be   *)
(* aborted, because an abort takes effect at an await.                      *)

Respond(j) ==
    /\ phase[j] = "fetching"
    /\ phase' = [phase EXCEPT ![j] = "landing"]
    /\ \E result \in BOOLEAN : ok' = [ok EXCEPT ![j] = result]
    /\ UNCHANGED <<inFlight, running, target, step, goal, leaving, heard>>

\* Mutant of Unlist: a failed fetch returns early, before running.remove.
UnlistOnSuccess(j) ==
    /\ phase[j] = "landing"
    /\ phase' = [phase EXCEPT ![j] = "unlisted"]
    /\ running' = IF ok[j] THEN [running EXCEPT ![target[j]] = None] ELSE running
    /\ UNCHANGED <<inFlight, target, ok, step, goal, leaving, heard>>

\* running.remove(&target): whatever handle is there, its own or a later one.
Unlist(j) ==
    /\ phase[j] = "landing"
    /\ phase' = [phase EXCEPT ![j] = "unlisted"]
    /\ running' = [running EXCEPT ![target[j]] = None]
    /\ UNCHANGED <<inFlight, target, ok, step, goal, leaving, heard>>

\* Mutant of Settle: refresh_failed forgets the claim.
SettleOnSuccess(j) ==
    /\ phase[j] = "unlisted"
    /\ phase' = [phase EXCEPT ![j] = "settled"]
    /\ inFlight' = IF ok[j] THEN inFlight \ {target[j]} ELSE inFlight
    /\ UNCHANGED <<running, target, ok, step, goal, leaving, heard>>

\* refresh_finished / refresh_failed: first the claim is dropped ...
Settle(j) ==
    /\ phase[j] = "unlisted"
    /\ phase' = [phase EXCEPT ![j] = "settled"]
    /\ inFlight' = inFlight \ {target[j]}
    /\ UNCHANGED <<running, target, ok, step, goal, leaving, heard>>

\* Mutant of AnnounceLanded: a failure is only logged.
AnnounceSuccessOnly(j) ==
    /\ phase[j] = "settled"
    /\ phase' = [phase EXCEPT ![j] = IF ok[j] /\ target[j] = Inbox
                                     THEN "chaining" ELSE "idle"]
    /\ heard' = IF ok[j] THEN [heard EXCEPT ![target[j]] = "landed"] ELSE heard
    /\ target' = [target EXCEPT ![j] = None]
    /\ ok' = [ok EXCEPT ![j] = FALSE]
    /\ UNCHANGED <<inFlight, running, step, goal, leaving>>

\* ... then Updated or RefreshFailed is broadcast.  Of its target the job
\* remembers only whether it was the inbox and was listed.
AnnounceLanded(j) ==
    /\ phase[j] = "settled"
    /\ phase' = [phase EXCEPT ![j] = IF ok[j] /\ target[j] = Inbox
                                     THEN "chaining" ELSE "idle"]
    /\ heard' = [heard EXCEPT ![target[j]] = "landed"]
    /\ target' = [target EXCEPT ![j] = None]
    /\ ok' = [ok EXCEPT ![j] = FALSE]
    /\ UNCHANGED <<inFlight, running, step, goal, leaving>>

\* A landed inbox asks for the enrichment of what it wrote.
Chain(j) ==
    /\ phase[j] = "chaining"
    /\ step[j] = "idle"
    /\ \/ /\ Claim(j, Details)
          /\ UNCHANGED phase
       \/ /\ Details \in inFlight
          /\ phase' = [phase EXCEPT ![j] = "idle"]
          /\ UNCHANGED <<inFlight, step, goal>>
    /\ UNCHANGED <<running, target, ok, leaving, heard>>

-----------------------------------------------------------------------------
(* Store::cancel, called by a surface's on_leave: two locks, two steps.     *)

Leave(t) ==
    /\ t \in Cancellable
    /\ leaving = None
    /\ step[UI] = "idle"
    /\ inFlight' = inFlight \ {t}
    /\ leaving' = t
    /\ UNCHANGED <<running, phase, target, ok, step, goal, heard>>

\* Syncer::cancel: drop the handle and abort, which stops only a job that
\* has an await left to reach.
Aborted(j) == running[leaving] = j /\ phase[j] = "fetching"

\* Mutant of Abort: the aborted task's entry is never cleared away.
AbortKeepsTask ==
    /\ leaving # None
    /\ phase' = [j \in Jobs |-> IF Aborted(j) THEN "aborted" ELSE phase[j]]
    /\ target' = target
    /\ running' = [running EXCEPT ![leaving] = None]
    /\ leaving' = None
    /\ UNCHANGED <<inFlight, ok, step, goal, heard>>

Abort ==
    /\ leaving # None
    /\ phase' = [j \in Jobs |-> IF Aborted(j) THEN "idle" ELSE phase[j]]
    /\ target' = [j \in Jobs |-> IF Aborted(j) THEN None ELSE target[j]]
    /\ running' = [running EXCEPT ![leaving] = None]
    /\ leaving' = None
    /\ UNCHANGED <<inFlight, ok, step, goal, heard>>

-----------------------------------------------------------------------------

RefreshStep(p) ==
    \/ AnnounceStarted(p)
    \/ ScheduleCoalesced(p)
    \/ \E j \in Jobs : ScheduleSpawn(p, j)

JobStep(j) ==
    \/ Respond(j)
    \/ Unlist(j)
    \/ Settle(j)
    \/ AnnounceLanded(j)
    \/ Chain(j)

Next ==
    \/ \E p \in Callers, t \in Targets : Ask(p, t)
    \/ \E p \in Threads : RefreshStep(p)
    \/ \E j \in Jobs : JobStep(j)
    \/ \E t \in Cancellable : Leave(t)
    \/ Abort

Spec == Init /\ [][Next]_vars

(* A thread inside a function of the store or the syncer returns from it,   *)
(* and a fetch ends because the HTTP client puts a timeout on every         *)
(* request.  Spawning never waits in the code; here it waits for a free     *)
(* identity, and the strong fairness is that Jobs being finite starves      *)
(* nobody.  Nobody is obliged to ask or to leave.                           *)
Fairness ==
    /\ \A p \in Threads : SF_vars(RefreshStep(p))
    /\ \A j \in Jobs : WF_vars(JobStep(j))
    /\ WF_vars(Abort)

FairSpec == Spec /\ Fairness

-----------------------------------------------------------------------------
(* Who is behind a claim.                                                   *)

\* Job j is a fetch of t that has not yet given its claim back.
Fetching(j, t) ==
    /\ target[j] = t
    /\ phase[j] \in {"fetching", "landing", "unlisted"}

\* Thread p has claimed t and not yet handed it to the syncer.
Asking(p, t) ==
    /\ goal[p] = t
    /\ step[p] # "idle"

Owned(t) ==
    \/ \E p \in Threads : Asking(p, t)
    \/ \E j \in Jobs : Fetching(j, t)

(***************************************************************************)
(* "The same target requested twice while in flight is one request with    *)
(* two waiters": two fetches of one target never overlap, and neither do a *)
(* fetch and a request about to spawn one.  For targets nobody cancels.    *)
(***************************************************************************)
OneRequest ==
    \A t \in Stable :
        /\ \A j, k \in Jobs : Fetching(j, t) /\ Fetching(k, t) => j = k
        /\ \A p, q \in Threads : Asking(p, t) /\ Asking(q, t) => p = q
        /\ ~ \E p \in Threads, j \in Jobs : Asking(p, t) /\ Fetching(j, t)

(***************************************************************************)
(* Fresh::refreshing tells the truth, both ways, of a target nobody        *)
(* cancels: it is claimed exactly while somebody is fetching it or about   *)
(* to.  The half from left to right is what makes coalescing safe -- a     *)
(* claim without an owner would swallow every later refresh.               *)
(***************************************************************************)
ClaimIsOwned ==
    \A t \in Stable : t \in inFlight <=> Owned(t)

(***************************************************************************)
(* A handle in Syncer.running is always that of a live fetch of the same   *)
(* target, whatever the interleaving of cancels: abort never hits a task   *)
(* of another target or a task identity that has moved on.                 *)
(***************************************************************************)
HandleIsLive ==
    \A t \in Targets :
        running[t] # None =>
            /\ target[running[t]] = t
            /\ phase[running[t]] \in {"fetching", "landing"}

(***************************************************************************)
(* The inductive invariant the proofs use: the three properties above, and *)
(* the bookkeeping that ties tasks, threads and handles together.          *)
(***************************************************************************)
TasksAreTidy ==
    /\ \A j \in Jobs : target[j] = None <=> phase[j] \in {"idle", "chaining"}
    /\ \A p \in Threads : goal[p] = None <=> step[p] = "idle"
    /\ \A j \in Jobs : step[j] # "idle" => phase[j] = "chaining"

FetchIsListed ==
    \A j \in Jobs :
        target[j] \in Stable /\ phase[j] \in {"fetching", "landing"} =>
            running[target[j]] = j

IInv ==
    /\ TypeOK
    /\ TasksAreTidy
    /\ HandleIsLive
    /\ FetchIsListed
    /\ OneRequest
    /\ ClaimIsOwned

(***************************************************************************)
(* Every RefreshStarted is answered: after it, Updated or RefreshFailed is *)
(* broadcast for that target.                                              *)
(***************************************************************************)
EveryStartIsAnswered ==
    \A t \in Stable : heard[t] = "started" ~> heard[t] = "landed"

-----------------------------------------------------------------------------
(* The contract, for the targets nobody cancels.                            *)

Shown(t) ==
    IF \E j \in Jobs : Fetching(j, t) THEN "fetching"
    ELSE IF t \in inFlight THEN "asked" ELSE "idle"

Contract == INSTANCE RefreshContract WITH
    Targets <- Stable,
    state <- [t \in Stable |-> Shown(t)]

(***************************************************************************)
(* The claims, handles, tasks and locks implement the contract of refresh, *)
(* step for step: no interleaving fetches a target twice, starts a fetch   *)
(* nobody asked for, or lands one that never ran.                          *)
(***************************************************************************)
ImplementsContract == Contract!Spec

(***************************************************************************)
(* ... and, under the fairness of the scheduler and the HTTP timeout, what *)
(* was accepted is fetched and what is fetched lands.                      *)
(***************************************************************************)
ImplementsFairContract == Contract!FairSpec

-----------------------------------------------------------------------------
(* What the repository says of this code and the code does not do.          *)

(***************************************************************************)
(* in_flight() is "Targets currently believed to be fetching": a claim     *)
(* has an owner, cancelled or not.                                         *)
(***************************************************************************)
NoOrphanClaim ==
    \A t \in Targets : t \in inFlight => Owned(t)
=============================================================================
