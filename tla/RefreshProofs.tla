--------------------------- MODULE RefreshProofs ---------------------------
(***************************************************************************)
(* What holds of the refresh pipeline for any targets, callers and tasks,  *)
(* proved from the inductive invariant IInv of Refresh.                    *)
(***************************************************************************)
EXTENDS Refresh, TLAPS

(***************************************************************************)
(* The state is well typed at every step of every lock section.            *)
(***************************************************************************)
LEMMA InitTypeOK == Init => TypeOK
BY TargetAssumption DEF Init, TypeOK, Threads

LEMMA NextTypeOK == TypeOK /\ [Next]_vars => TypeOK'
<1> SUFFICES ASSUME TypeOK, [Next]_vars PROVE TypeOK'
  OBVIOUS
<1> USE TargetAssumption, ThreadAssumption DEF TypeOK, Threads
<1>1. ASSUME NEW p \in Callers, NEW t \in Targets, Ask(p, t) PROVE TypeOK'
  BY <1>1 DEF Ask, Claim
<1>2. ASSUME NEW p \in Threads, AnnounceStarted(p) PROVE TypeOK'
  BY <1>2 DEF AnnounceStarted
<1>3. ASSUME NEW p \in Threads, ScheduleCoalesced(p) PROVE TypeOK'
  BY <1>3 DEF ScheduleCoalesced, Return
<1>4. ASSUME NEW p \in Threads, NEW j \in Jobs, ScheduleSpawn(p, j)
      PROVE TypeOK'
  BY <1>4 DEF ScheduleSpawn, Return
<1>5. ASSUME NEW j \in Jobs, Respond(j) PROVE TypeOK'
  BY <1>5 DEF Respond
<1>6. ASSUME NEW j \in Jobs, Unlist(j) PROVE TypeOK'
  BY <1>6 DEF Unlist
<1>7. ASSUME NEW j \in Jobs, Settle(j) PROVE TypeOK'
  BY <1>7 DEF Settle
<1>8. ASSUME NEW j \in Jobs, AnnounceLanded(j) PROVE TypeOK'
  BY <1>8 DEF AnnounceLanded
<1>9. ASSUME NEW j \in Jobs, Chain(j) PROVE TypeOK'
  BY <1>9 DEF Chain, Claim
<1>10. ASSUME NEW t \in Cancellable, Leave(t) PROVE TypeOK'
  BY <1>10 DEF Leave
<1>11. ASSUME Abort PROVE TypeOK'
  BY <1>11 DEF Abort, Aborted
<1>12. CASE UNCHANGED vars
  BY <1>12 DEF vars
<1> QED
  BY <1>1, <1>2, <1>3, <1>4, <1>5, <1>6, <1>7, <1>8, <1>9, <1>10, <1>11,
     <1>12 DEF Next, RefreshStep, JobStep

THEOREM TypeCorrect == Spec => []TypeOK
BY InitTypeOK, NextTypeOK, PTL DEF Spec

-----------------------------------------------------------------------------
(* The inductive invariant, one lemma per step of the pipeline.  TypeOK' is *)
(* taken from NextTypeOK, and the parts a step leaves alone are not named.  *)

\* The parts of IInv beyond types.
Parts ==
    /\ TasksAreTidy
    /\ HandleIsLive
    /\ FetchIsListed
    /\ OneRequest
    /\ ClaimIsOwned

LEMMA InitIInv == Init => IInv
BY InitTypeOK, TargetAssumption, ThreadAssumption
   DEF Init, IInv, TasksAreTidy, HandleIsLive, FetchIsListed, OneRequest,
       ClaimIsOwned, Owned, Asking, Fetching, Stable, Threads

\* A claim of an unclaimed target by an idle thread, from whichever caller.
LEMMA ClaimStep ==
    ASSUME IInv, TypeOK', NEW p \in Threads, NEW t \in Targets,
           step[p] = "idle", p \in Jobs => phase[p] = "chaining",
           Claim(p, t), UNCHANGED <<running, phase, target>>
    PROVE  Parts'
<1> USE TargetAssumption, ThreadAssumption DEF IInv, TypeOK, Claim
<1>1. TasksAreTidy'
  BY DEF TasksAreTidy, Threads
<1>2. HandleIsLive' /\ FetchIsListed'
  BY DEF HandleIsLive, FetchIsListed, Stable
<1>3. \A s \in Stable : Asking(p, s)' <=> s = t
  BY DEF Asking, Threads, Stable
<1>4. \A q \in Threads, s \in Stable : q # p => (Asking(q, s)' <=> Asking(q, s))
  BY DEF Asking, Threads
<1>5. \A j \in Jobs, s \in Stable : Fetching(j, s)' <=> Fetching(j, s)
  BY DEF Fetching
<1>6. t \in Stable => ~ Owned(t)
  BY DEF ClaimIsOwned
<1>7. \A s \in Stable : ~ Asking(p, s)
  BY DEF Asking
<1>8. OneRequest'
  BY <1>3, <1>4, <1>5, <1>6 DEF OneRequest, Owned, Stable
<1>9. ClaimIsOwned'
  BY <1>3, <1>4, <1>5, <1>7 DEF ClaimIsOwned, Owned, Stable
<1> QED
  BY <1>1, <1>2, <1>8, <1>9 DEF Parts

LEMMA AnnounceStartedStep ==
    ASSUME IInv, TypeOK', NEW p \in Threads, AnnounceStarted(p)
    PROVE  Parts'
<1> USE DEF IInv, TypeOK, AnnounceStarted
<1>1. TasksAreTidy'
  BY DEF TasksAreTidy, Threads
<1>2. HandleIsLive' /\ FetchIsListed'
  BY DEF HandleIsLive, FetchIsListed
<1>3. \A q \in Threads, s \in Stable : Asking(q, s)' <=> Asking(q, s)
  BY DEF Asking, Threads
<1>4. \A j \in Jobs, s \in Stable : Fetching(j, s)' <=> Fetching(j, s)
  BY DEF Fetching
<1>5. OneRequest' /\ ClaimIsOwned'
  BY <1>3, <1>4 DEF OneRequest, ClaimIsOwned, Owned, Stable
<1> QED
  BY <1>1, <1>2, <1>5 DEF Parts

\* A stable target a thread is asking for has no handle: it is never dropped.
LEMMA AskedIsUnlisted ==
    ASSUME IInv, NEW p \in Threads, step[p] = "announced", goal[p] \in Stable
    PROVE  running[goal[p]] = None
<1>1. Asking(p, goal[p])
  BY DEF Asking
<1>2. ASSUME NEW j \in Jobs, running[goal[p]] = j PROVE FALSE
  <2>1. Fetching(j, goal[p])
    BY <1>2, TargetAssumption DEF IInv, HandleIsLive, Fetching, Stable
  <2> QED
    BY <1>1, <2>1 DEF IInv, OneRequest
<1> QED
  BY <1>2 DEF IInv, TypeOK, Stable

LEMMA ScheduleCoalescedStep ==
    ASSUME IInv, TypeOK', NEW p \in Threads, ScheduleCoalesced(p)
    PROVE  Parts'
<1> USE DEF IInv, TypeOK, ScheduleCoalesced, Return
<1>1. goal[p] \notin Stable
  BY AskedIsUnlisted
<1>2. p \in Jobs => phase[p] = "chaining"
  BY DEF TasksAreTidy
<1>3. TasksAreTidy'
  <2>1. \A j \in Jobs : target[j] = None <=> phase'[j] \in {"idle", "chaining"}
    BY <1>2 DEF TasksAreTidy
  <2>2. /\ \A q \in Threads : goal'[q] = None <=> step'[q] = "idle"
        /\ \A j \in Jobs : step'[j] # "idle" => phase'[j] = "chaining"
    BY <1>2 DEF TasksAreTidy, Threads
  <2> QED
    BY <2>1, <2>2 DEF TasksAreTidy, Threads
<1>4. HandleIsLive' /\ FetchIsListed'
  BY <1>2 DEF HandleIsLive, FetchIsListed
<1>5. \A q \in Threads, s \in Stable : Asking(q, s)' <=> Asking(q, s)
  BY <1>1, TargetAssumption DEF Asking, Threads, Stable
<1>6. \A j \in Jobs, s \in Stable : Fetching(j, s)' <=> Fetching(j, s)
  BY <1>2 DEF Fetching
<1>7. OneRequest' /\ ClaimIsOwned'
  BY <1>5, <1>6 DEF OneRequest, ClaimIsOwned, Owned, Stable
<1> QED
  BY <1>3, <1>4, <1>7 DEF Parts

LEMMA ScheduleSpawnStep ==
    ASSUME IInv, TypeOK', NEW p \in Threads, NEW j \in Jobs,
           ScheduleSpawn(p, j)
    PROVE  Parts'
<1> USE TargetAssumption DEF IInv, TypeOK, ScheduleSpawn, Return
<1>1. /\ p \in Jobs => phase[p] = "chaining" /\ p # j
      /\ goal[p] \in Targets
  BY DEF TasksAreTidy
<1>2. TasksAreTidy'
  BY <1>1 DEF TasksAreTidy, Threads
<1>3. HandleIsLive'
  BY <1>1 DEF HandleIsLive
<1>4. \A s \in Stable : Fetching(j, s)' <=> s = goal[p]
  BY <1>1 DEF Fetching
<1>5. \A k \in Jobs \ {j}, s \in Stable : Fetching(k, s)' <=> Fetching(k, s)
  BY <1>1 DEF Fetching
<1>6. \A s \in Stable : ~ Asking(p, s)' /\ ~ Fetching(j, s)
  <2>1. step'[p] = "idle"
    OBVIOUS
  <2> QED
    BY <2>1 DEF Asking, Fetching
<1>7. \A q \in Threads \ {p}, s \in Stable : Asking(q, s)' <=> Asking(q, s)
  BY DEF Asking, Threads
<1>8. \A s \in Stable : Asking(p, s) <=> s = goal[p]
  BY DEF Asking
<1>9. OneRequest'
  <2> HIDE DEF TypeOK, ScheduleSpawn
  <2> SUFFICES ASSUME NEW s \in Stable
               PROVE  /\ \A k, l \in Jobs :
                            Fetching(k, s)' /\ Fetching(l, s)' => k = l
                      /\ \A q, r \in Threads :
                            Asking(q, s)' /\ Asking(r, s)' => q = r
                      /\ ~ \E q \in Threads, k \in Jobs :
                            Asking(q, s)' /\ Fetching(k, s)'
    BY DEF OneRequest, Stable
  <2>1. CASE s = goal[p]
    BY <2>1, <1>4, <1>5, <1>6, <1>7, <1>8 DEF OneRequest
  <2>2. CASE s # goal[p]
    BY <2>2, <1>4, <1>5, <1>6, <1>7, <1>8 DEF OneRequest
  <2> QED
    BY <2>1, <2>2
<1>10. ClaimIsOwned'
  <2>1. \A s \in Stable : Owned(s)' <=> Owned(s)
    BY <1>4, <1>5, <1>6, <1>7, <1>8 DEF Owned
  <2> QED
    BY <2>1 DEF ClaimIsOwned, Stable
<1>11. FetchIsListed'
  <2> SUFFICES ASSUME NEW k \in Jobs, target'[k] \in Stable,
                      phase'[k] \in {"fetching", "landing"}
               PROVE  running'[target'[k]] = k
    BY DEF FetchIsListed, Stable
  <2>1. CASE k = j
    BY <1>1, <2>1
  <2>2. CASE k # j
    <3>1. Fetching(k, target[k]) /\ target[k] \in Stable
      BY <1>1, <2>2 DEF Fetching, Stable
    <3>2. target[k] # goal[p]
      BY <3>1, <1>8 DEF OneRequest
    <3> QED
      BY <1>1, <2>2, <3>1, <3>2 DEF FetchIsListed, Stable
  <2> QED
    BY <2>1, <2>2
<1> QED
  BY <1>2, <1>3, <1>9, <1>10, <1>11 DEF Parts

LEMMA RespondStep ==
    ASSUME IInv, TypeOK', NEW j \in Jobs, Respond(j)
    PROVE  Parts'
<1> USE DEF IInv, TypeOK, Respond
<1>1. TasksAreTidy'
  BY DEF TasksAreTidy
<1>2. HandleIsLive' /\ FetchIsListed'
  BY TargetAssumption DEF HandleIsLive, FetchIsListed, Stable
<1>3. \A p \in Threads, s \in Stable : Asking(p, s)' <=> Asking(p, s)
  BY DEF Asking
<1>4. \A k \in Jobs, s \in Stable : Fetching(k, s)' <=> Fetching(k, s)
  BY DEF Fetching
<1>5. OneRequest' /\ ClaimIsOwned'
  BY <1>3, <1>4 DEF OneRequest, ClaimIsOwned, Owned, Stable
<1> QED
  BY <1>1, <1>2, <1>5 DEF Parts

\* A handle removed by a job of a stable target is its own.
LEMMA UnlistStep ==
    ASSUME IInv, TypeOK', NEW j \in Jobs, Unlist(j)
    PROVE  Parts'
<1> USE TargetAssumption DEF IInv, TypeOK, Unlist
<1>1. target[j] \in Targets
  BY DEF TasksAreTidy
<1>2. TasksAreTidy'
  BY DEF TasksAreTidy
<1>3. HandleIsLive'
  <2> SUFFICES ASSUME NEW t \in Targets, running'[t] # None
               PROVE  /\ target'[running'[t]] = t
                      /\ phase'[running'[t]] \in {"fetching", "landing"}
    BY DEF HandleIsLive
  <2>1. t # target[j] /\ running'[t] = running[t]
    BY <1>1
  <2>2. running[t] # j /\ running[t] \in Jobs
    BY <2>1 DEF HandleIsLive
  <2> QED
    BY <2>1, <2>2 DEF HandleIsLive
<1>4. \A p \in Threads, s \in Stable : Asking(p, s)' <=> Asking(p, s)
  BY DEF Asking
<1>5. \A k \in Jobs, s \in Stable : Fetching(k, s)' <=> Fetching(k, s)
  BY DEF Fetching
<1>6. FetchIsListed'
  <2> SUFFICES ASSUME NEW k \in Jobs, target[k] \in Stable,
                      phase'[k] \in {"fetching", "landing"}
               PROVE  running'[target[k]] = k
    BY DEF FetchIsListed, Stable
  <2>1. k # j /\ phase[k] \in {"fetching", "landing"}
    OBVIOUS
  <2>2. target[k] # target[j]
    BY <2>1 DEF OneRequest, Fetching
  <2> QED
    BY <1>1, <2>1, <2>2 DEF FetchIsListed, Stable
<1>7. OneRequest' /\ ClaimIsOwned'
  BY <1>4, <1>5 DEF OneRequest, ClaimIsOwned, Owned, Stable
<1> QED
  BY <1>2, <1>3, <1>6, <1>7 DEF Parts

\* The claim given up is the only one behind which the job stood.
LEMMA SettleStep ==
    ASSUME IInv, TypeOK', NEW j \in Jobs, Settle(j)
    PROVE  Parts'
<1> USE TargetAssumption DEF IInv, TypeOK, Settle
<1>1. TasksAreTidy'
  BY DEF TasksAreTidy
<1>2. HandleIsLive' /\ FetchIsListed'
  BY DEF HandleIsLive, FetchIsListed, Stable
<1>3. \A p \in Threads, s \in Stable : Asking(p, s)' <=> Asking(p, s)
  BY DEF Asking
<1>4. \A k \in Jobs \ {j}, s \in Stable : Fetching(k, s)' <=> Fetching(k, s)
  BY DEF Fetching
<1>5. \A s \in Stable : ~ Fetching(j, s)' /\ (Fetching(j, s) <=> s = target[j])
  BY DEF Fetching
<1>6. OneRequest'
  BY <1>3, <1>4, <1>5 DEF OneRequest, Stable
<1>7. ClaimIsOwned'
  <2> SUFFICES ASSUME NEW s \in Stable PROVE s \in inFlight' <=> Owned(s)'
    BY DEF ClaimIsOwned, Stable
  <2>1. CASE s = target[j]
    BY <2>1, <1>3, <1>4, <1>5 DEF OneRequest, Owned
  <2>2. CASE s # target[j]
    BY <2>2, <1>3, <1>4, <1>5 DEF ClaimIsOwned, Owned
  <2> QED
    BY <2>1, <2>2
<1> QED
  BY <1>1, <1>2, <1>6, <1>7 DEF Parts

LEMMA AnnounceLandedStep ==
    ASSUME IInv, TypeOK', NEW j \in Jobs, AnnounceLanded(j)
    PROVE  Parts'
<1> USE TargetAssumption DEF IInv, TypeOK, AnnounceLanded
<1>1. TasksAreTidy'
  BY DEF TasksAreTidy
<1>2. HandleIsLive' /\ FetchIsListed'
  BY DEF HandleIsLive, FetchIsListed, Stable
<1>3. \A p \in Threads, s \in Stable : Asking(p, s)' <=> Asking(p, s)
  BY DEF Asking
<1>4. \A k \in Jobs, s \in Stable : Fetching(k, s)' <=> Fetching(k, s)
  BY DEF Fetching, Stable
<1>5. OneRequest' /\ ClaimIsOwned'
  BY <1>3, <1>4 DEF OneRequest, ClaimIsOwned, Owned, Stable
<1> QED
  BY <1>1, <1>2, <1>5 DEF Parts

\* A chained request that found the details in flight ends its job.
LEMMA ChainCoalescedStep ==
    ASSUME IInv, TypeOK', NEW j \in Jobs, phase[j] = "chaining",
           step[j] = "idle", phase' = [phase EXCEPT ![j] = "idle"],
           UNCHANGED <<inFlight, running, target, step, goal>>
    PROVE  Parts'
<1> USE TargetAssumption DEF IInv, TypeOK
<1>1. TasksAreTidy'
  BY DEF TasksAreTidy
<1>2. HandleIsLive' /\ FetchIsListed'
  BY DEF HandleIsLive, FetchIsListed, Stable
<1>3. \A p \in Threads, s \in Stable : Asking(p, s)' <=> Asking(p, s)
  BY DEF Asking
<1>4. \A k \in Jobs, s \in Stable : Fetching(k, s)' <=> Fetching(k, s)
  BY DEF Fetching
<1>5. OneRequest' /\ ClaimIsOwned'
  BY <1>3, <1>4 DEF OneRequest, ClaimIsOwned, Owned, Stable
<1> QED
  BY <1>1, <1>2, <1>5 DEF Parts

\* A cancel touches no stable target ...
LEMMA LeaveStep ==
    ASSUME IInv, TypeOK', NEW t \in Cancellable, Leave(t)
    PROVE  Parts'
<1> USE DEF IInv, TypeOK, Leave
<1>1. TasksAreTidy'
  BY DEF TasksAreTidy
<1>2. HandleIsLive' /\ FetchIsListed'
  BY DEF HandleIsLive, FetchIsListed
<1>3. \A p \in Threads, s \in Stable : Asking(p, s)' <=> Asking(p, s)
  BY DEF Asking
<1>4. \A k \in Jobs, s \in Stable : Fetching(k, s)' <=> Fetching(k, s)
  BY DEF Fetching
<1>5. OneRequest' /\ ClaimIsOwned'
  BY <1>3, <1>4 DEF OneRequest, ClaimIsOwned, Owned, Stable
<1> QED
  BY <1>1, <1>2, <1>5 DEF Parts

\* ... because the task it aborts is one of the target it cancels.
LEMMA AbortStep ==
    ASSUME IInv, TypeOK', Abort
    PROVE  Parts'
<1> USE TargetAssumption DEF IInv, TypeOK, Abort, Aborted
<1>1. \A j \in Jobs : Aborted(j) => target[j] \notin Stable /\ step[j] = "idle"
  <2> SUFFICES ASSUME NEW j \in Jobs, running[leaving] = j, phase[j] = "fetching"
               PROVE  target[j] \notin Stable /\ step[j] = "idle"
    OBVIOUS
  <2>1. target[j] = leaving
    BY DEF HandleIsLive
  <2> QED
    BY <2>1 DEF Stable, TasksAreTidy, Threads
<1>2. TasksAreTidy'
  BY <1>1 DEF TasksAreTidy
<1>3. HandleIsLive'
  BY DEF HandleIsLive
<1>4. \A p \in Threads, s \in Stable : Asking(p, s)' <=> Asking(p, s)
  BY DEF Asking
<1>5. \A k \in Jobs, s \in Stable : Fetching(k, s)' <=> Fetching(k, s)
  BY <1>1 DEF Fetching, Stable
<1>6. FetchIsListed'
  BY <1>1 DEF FetchIsListed, Stable
<1>7. OneRequest' /\ ClaimIsOwned'
  BY <1>4, <1>5 DEF OneRequest, ClaimIsOwned, Owned, Stable
<1> QED
  BY <1>2, <1>3, <1>6, <1>7 DEF Parts

LEMMA NextIInv == IInv /\ [Next]_vars => IInv'
<1> SUFFICES ASSUME IInv, [Next]_vars PROVE IInv'
  OBVIOUS
<1>1. TypeOK'
  BY NextTypeOK DEF IInv
<1>2. Parts'
  <2> USE <1>1
  <2>1. ASSUME NEW p \in Callers, NEW t \in Targets, Ask(p, t) PROVE Parts'
    <3>1. p \in Threads /\ p \notin Jobs
      BY ThreadAssumption DEF Threads
    <3> QED
      BY <2>1, <3>1, ClaimStep DEF Ask
  <2>2. ASSUME NEW p \in Threads, RefreshStep(p) PROVE Parts'
    BY <2>2, AnnounceStartedStep, ScheduleCoalescedStep, ScheduleSpawnStep
       DEF RefreshStep
  <2>3. ASSUME NEW j \in Jobs, Chain(j) PROVE Parts'
    <3>1. CASE Claim(j, Details) /\ UNCHANGED phase
      BY <2>3, <3>1, ClaimStep, TargetAssumption DEF Chain, Threads
    <3>2. CASE Details \in inFlight /\ phase' = [phase EXCEPT ![j] = "idle"]
               /\ UNCHANGED <<inFlight, step, goal>>
      BY <2>3, <3>2, ChainCoalescedStep DEF Chain
    <3> QED
      BY <2>3, <3>1, <3>2 DEF Chain
  <2>4. ASSUME NEW j \in Jobs, JobStep(j) PROVE Parts'
    BY <2>3, <2>4, RespondStep, UnlistStep, SettleStep, AnnounceLandedStep
       DEF JobStep
  <2>5. ASSUME NEW t \in Cancellable, Leave(t) PROVE Parts'
    BY <2>5, LeaveStep
  <2>6. CASE Abort
    BY <2>6, AbortStep
  <2>7. CASE UNCHANGED vars
    BY <2>7 DEF vars, IInv, Parts, TasksAreTidy, HandleIsLive, FetchIsListed,
                OneRequest, ClaimIsOwned, Owned, Asking, Fetching, Stable
  <2> QED
    BY <2>1, <2>2, <2>4, <2>5, <2>6, <2>7 DEF Next
<1> QED
  BY <1>1, <1>2 DEF IInv, Parts

LEMMA Invariance == Spec => []IInv
BY InitIInv, NextIInv, PTL DEF Spec

(***************************************************************************)
(* Coalescing: of a target nobody cancels, no two fetches, no two asks and *)
(* no ask and a fetch ever overlap, however many callers and tasks run.    *)
(***************************************************************************)
THEOREM Coalescing == Spec => []OneRequest
<1>1. IInv => OneRequest
  BY DEF IInv
<1> QED
  BY <1>1, Invariance, PTL

(***************************************************************************)
(* The refreshing flag of a target nobody cancels is set exactly while     *)
(* somebody is fetching it or about to.                                    *)
(***************************************************************************)
THEOREM ClaimsAreOwned == Spec => []ClaimIsOwned
<1>1. IInv => ClaimIsOwned
  BY DEF IInv
<1> QED
  BY <1>1, Invariance, PTL

(***************************************************************************)
(* A handle in Syncer.running is that of a live task of its target, with   *)
(* cancels at any moment: an abort stops the fetch it meant or none.       *)
(***************************************************************************)
THEOREM HandlesAreLive == Spec => []HandleIsLive
<1>1. IInv => HandleIsLive
  BY DEF IInv
<1> QED
  BY <1>1, Invariance, PTL

-----------------------------------------------------------------------------
(* Refinement: each step is a step of the contract or changes nothing that  *)
(* the contract shows.                                                      *)

ShownNow == [t \in Stable |-> Shown(t)]

LEMMA InitRefines == Init => Contract!Init
BY DEF Init, Contract!Init, Shown, Fetching

\* Which steps the contract does not see.
LEMMA Unseen ==
    ASSUME \A t \in Stable : t \in inFlight' <=> t \in inFlight,
           \A t \in Stable, j \in Jobs : Fetching(j, t)' <=> Fetching(j, t)
    PROVE  UNCHANGED ShownNow
BY DEF ShownNow, Shown, Stable

\* A claim of a stable target is an Accept; of any other it is unseen.
LEMMA ClaimRefines ==
    ASSUME IInv, NEW p \in Threads, NEW t \in Targets, Claim(p, t),
           UNCHANGED <<phase, target>>
    PROVE  Contract!Next \/ UNCHANGED ShownNow
<1>1. \A s \in Stable, j \in Jobs : Fetching(j, s)' <=> Fetching(j, s)
  BY DEF Fetching
<1>2. CASE t \in Stable
  <2>1. \A j \in Jobs : ~ Fetching(j, t)
    BY <1>2 DEF IInv, ClaimIsOwned, Owned, Claim
  <2>2. Contract!Accept(t)
    BY <1>1, <1>2, <2>1 DEF Contract!Accept, Shown, Claim
  <2> QED
    BY <1>2, <2>2 DEF Contract!Next
<1>3. CASE t \notin Stable
  BY <1>1, <1>3, Unseen DEF Claim, Stable
<1> QED
  BY <1>2, <1>3

LEMMA SpawnRefines ==
    ASSUME IInv, NEW p \in Threads, NEW j \in Jobs, ScheduleSpawn(p, j)
    PROVE  Contract!Next \/ UNCHANGED ShownNow
<1> USE TargetAssumption DEF IInv, TypeOK, ScheduleSpawn, Return
<1>1. p \in Jobs => phase[p] = "chaining" /\ p # j
  BY DEF TasksAreTidy
<1>2. \A s \in Stable, k \in Jobs \ {j} : Fetching(k, s)' <=> Fetching(k, s)
  BY <1>1 DEF Fetching
<1>3. \A s \in Stable : ~ Fetching(j, s) /\ (Fetching(j, s)' <=> s = goal[p])
  BY <1>1 DEF Fetching
<1>4. CASE goal[p] \in Stable
  <2>1. PICK g \in Stable : g = goal[p]
    BY <1>4
  <2>2. g \in inFlight /\ \A k \in Jobs : ~ Fetching(k, g)
    BY <2>1 DEF ClaimIsOwned, OneRequest, Owned, Asking
  <2>3. Shown(g) = "asked" /\ Shown(g)' = "fetching"
    BY <1>3, <2>1, <2>2 DEF Shown
  <2>4. \A s \in Stable \ {g} : Shown(s)' = Shown(s)
    <3> HIDE DEF TypeOK
    <3> SUFFICES ASSUME NEW s \in Stable, s # g PROVE Shown(s)' = Shown(s)
      OBVIOUS
    <3>1. \A k \in Jobs : Fetching(k, s)' <=> Fetching(k, s)
      BY <1>2, <1>3, <2>1
    <3> QED
      BY <3>1 DEF Shown
  <2>5. Contract!Fetch(g)
    BY <2>3, <2>4 DEF Contract!Fetch
  <2> QED
    BY <2>5 DEF Contract!Next
<1>5. CASE goal[p] \notin Stable
  <2>1. \A s \in Stable, k \in Jobs : Fetching(k, s)' <=> Fetching(k, s)
    BY <1>2, <1>3, <1>5
  <2> QED
    BY <2>1, Unseen
<1> QED
  BY <1>4, <1>5

LEMMA SettleRefines ==
    ASSUME IInv, NEW j \in Jobs, Settle(j)
    PROVE  Contract!Next \/ UNCHANGED ShownNow
<1> USE TargetAssumption DEF IInv, TypeOK, Settle
<1>1. \A s \in Stable, k \in Jobs \ {j} : Fetching(k, s)' <=> Fetching(k, s)
  BY DEF Fetching
<1>2. \A s \in Stable : ~ Fetching(j, s)' /\ (Fetching(j, s) <=> s = target[j])
  BY DEF Fetching
<1>3. CASE target[j] \in Stable
  <2>1. \A k \in Jobs : ~ Fetching(k, target[j])'
    BY <1>1, <1>2, <1>3 DEF OneRequest
  <2>2. Shown(target[j]) = "fetching" /\ Shown(target[j])' = "idle"
    BY <1>2, <1>3, <2>1 DEF Shown
  <2>3. \A s \in Stable \ {target[j]} : Shown(s)' = Shown(s)
    BY <1>1, <1>2 DEF Shown
  <2>4. Contract!Land(target[j])
    BY <1>3, <2>2, <2>3 DEF Contract!Land
  <2> QED
    BY <1>3, <2>4 DEF Contract!Next
<1>4. CASE target[j] \notin Stable
  <2>1. \A s \in Stable, k \in Jobs : Fetching(k, s)' <=> Fetching(k, s)
    BY <1>1, <1>2, <1>4
  <2> QED
    BY <1>4, <2>1, Unseen DEF Stable
<1> QED
  BY <1>3, <1>4

\* Every other step leaves claims alone, and fetches of stable targets too.
LEMMA NextRefines == IInv /\ [Next]_vars => Contract!Next \/ UNCHANGED ShownNow
<1> SUFFICES ASSUME IInv, [Next]_vars
             PROVE  Contract!Next \/ UNCHANGED ShownNow
  OBVIOUS
<1> USE DEF IInv, TypeOK
<1>1. ASSUME NEW p \in Callers, NEW t \in Targets, Ask(p, t)
      PROVE  Contract!Next \/ UNCHANGED ShownNow
  BY <1>1, ClaimRefines DEF Ask, Threads
<1>2. ASSUME NEW p \in Threads, RefreshStep(p)
      PROVE  Contract!Next \/ UNCHANGED ShownNow
  <2>1. CASE AnnounceStarted(p)
    BY <2>1, Unseen DEF AnnounceStarted, Fetching
  <2>2. CASE ScheduleCoalesced(p)
    <3>1. p \in Jobs => phase[p] = "chaining"
      BY <2>2 DEF ScheduleCoalesced, TasksAreTidy
    <3> QED
      BY <2>2, <3>1, Unseen DEF ScheduleCoalesced, Return, Fetching
  <2> QED
    BY <1>2, <2>1, <2>2, SpawnRefines DEF RefreshStep
<1>3. ASSUME NEW j \in Jobs, JobStep(j)
      PROVE  Contract!Next \/ UNCHANGED ShownNow
  <2>1. CASE Respond(j)
    BY <2>1, Unseen DEF Respond, Fetching
  <2>2. CASE Unlist(j)
    BY <2>2, Unseen DEF Unlist, Fetching
  <2>3. CASE AnnounceLanded(j)
    BY <2>3, Unseen, TargetAssumption DEF AnnounceLanded, Fetching, Stable
  <2>4. CASE Chain(j) /\ Claim(j, Details) /\ UNCHANGED phase
    <3>1. j \in Threads /\ Details \in Targets /\ UNCHANGED target
      BY <2>4, TargetAssumption DEF Chain, Threads
    <3> QED
      BY <2>4, <3>1, ClaimRefines
  <2>5. CASE Chain(j) /\ Details \in inFlight
    <3>1. phase[j] = "chaining" /\ phase' = [phase EXCEPT ![j] = "idle"]
      BY <2>5 DEF Chain, Claim
    <3>2. UNCHANGED <<inFlight, target>>
      BY <2>5 DEF Chain, Claim
    <3> QED
      BY <3>1, <3>2, Unseen DEF Fetching
  <2> QED
    BY <1>3, <2>1, <2>2, <2>3, <2>4, <2>5, SettleRefines DEF JobStep, Chain
<1>4. ASSUME NEW t \in Cancellable, Leave(t) PROVE UNCHANGED ShownNow
  BY <1>4, Unseen DEF Leave, Fetching, Stable
<1>5. ASSUME Abort PROVE UNCHANGED ShownNow
  <2>1. \A j \in Jobs : Aborted(j) => target[j] \notin Stable
    BY <1>5, TargetAssumption DEF Abort, Aborted, HandleIsLive, Stable
  <2>2. \A s \in Stable, j \in Jobs : Fetching(j, s)' <=> Fetching(j, s)
    BY <1>5, <2>1, TargetAssumption DEF Abort, Fetching, Stable
  <2> QED
    BY <1>5, <2>2, Unseen DEF Abort
<1>6. CASE UNCHANGED vars
  BY <1>6, Unseen DEF vars, Fetching
<1> QED
  BY <1>1, <1>2, <1>3, <1>4, <1>5, <1>6 DEF Next

(***************************************************************************)
(* The locks, handles and tasks implement the contract of refresh, step    *)
(* for step, for every target no surface cancels.                          *)
(***************************************************************************)
THEOREM Refinement == Spec => ImplementsContract
<1>1. Init => Contract!Init
  BY InitRefines
<1>2. IInv /\ [Next]_vars => [Contract!Next]_ShownNow
  BY NextRefines
<1> QED
  BY <1>1, <1>2, Invariance, PTL
     DEF Spec, ImplementsContract, Contract!Spec, ShownNow
=============================================================================
