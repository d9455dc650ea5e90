---------------------------- MODULE ShellProofs ----------------------------
(***************************************************************************)
(* That the shell's screen is honest about the store, for any surfaces to  *)
(* start on and to open, any polled targets, and channels of any capacity: *)
(* what is fetched for a screen ends with it, the message names a refresh  *)
(* under way, and a page older than the cache has an event on its way.     *)
(* The invariant adds what the keys rest on: the surfaces beneath the top  *)
(* are covered, every claim is being worked for, and before the loop       *)
(* listens there is no message.                                            *)
(***************************************************************************)
EXTENDS Shell, SequenceTheorems, TLAPS

Typed ==
    /\ pc \in {"loading", "idle", "over"}
    /\ stack \in Seq(Entry)
    /\ pc # "loading" => stack # <<>>
    /\ pc = "loading" => entering \in Kinds
    /\ progress \in Targets \cup {None}
    /\ status = "refreshing" => progress \in Targets
    /\ claims \subseteq Targets
    /\ asker \in [Targets -> {"screen", "task"}]
    /\ fetching \subseteq Targets
    /\ landed \in [Targets -> {None, "Updated", "RefreshFailed"}]
    /\ queue \in Seq(Event)
    /\ {subscribed, lagged, slipped} \subseteq BOOLEAN

BeneathIsCovered ==
    \A i \in 1 .. Len(stack) : i < Len(stack) \/ pc = "loading" => stack[i].covered

ClaimsAreWorkedFor == \A t \in claims : t \in fetching \/ landed[t] # None

UnheardIsSilent == ~subscribed => status # "refreshing"

IInv ==
    /\ Typed /\ BeneathIsCovered /\ ClaimsAreWorkedFor /\ UnheardIsSilent
    /\ WorkIsForTheScreen /\ MessageIsTrue /\ NeverBehind

-----------------------------------------------------------------------------
(* The channel.                                                             *)

LEMMA TargetOfKind ==
    ASSUME NEW k \in Kinds
    PROVE  TargetOf[k] \in Targets \cup {None} /\ Cares(k) \subseteq Targets
BY DEF Kinds, TargetOf, Targets, Cares

\* Surfaces of the same kinds, covered alike.
Alike(s, r) ==
    /\ s \in Seq(Entry) /\ r \in Seq(Entry) /\ Len(s) = Len(r)
    /\ \A i \in 1 .. Len(s) : s[i].kind = r[i].kind /\ s[i].covered = r[i].covered

\* Told changes views only, and leaves none behind that nothing will reload.
LEMMA ToldIsSound ==
    ASSUME NEW entries \in Seq(Entry), NEW q, NEW pending
    PROVE  /\ Alike(Told(entries, q, pending), entries)
           /\ \A i \in 1 .. Len(entries) : Told(entries, q, pending)[i].view = "behind"
                 => Coming(entries[i].kind, q, pending)
<1> DEFINE told == Told(entries, q, pending)
<1>1. told = [i \in 1 .. Len(entries) |->
                IF entries[i].view = "behind" /\ ~Coming(entries[i].kind, q, pending)
                THEN [entries[i] EXCEPT !.view = "missed"] ELSE entries[i]]
  BY DEF Told
<1>2. ASSUME NEW i \in 1 .. Len(entries)
      PROVE  /\ told[i] \in Entry
             /\ told[i].kind = entries[i].kind /\ told[i].covered = entries[i].covered
             /\ told[i].view = "behind" => Coming(entries[i].kind, q, pending)
  <2>1. entries[i] \in Entry
    OBVIOUS
  <2>2. CASE entries[i].view = "behind" /\ ~Coming(entries[i].kind, q, pending)
    <3>1. told[i] = [entries[i] EXCEPT !.view = "missed"]
      BY <1>1, <2>2
    <3> HIDE DEF told
    <3> QED
      BY <2>1, <3>1 DEF Entry
  <2>3. CASE ~(entries[i].view = "behind" /\ ~Coming(entries[i].kind, q, pending))
    <3>1. told[i] = entries[i]
      BY <1>1, <2>3
    <3> HIDE DEF told
    <3> QED
      BY <2>1, <2>3, <3>1
  <2> QED
    BY <2>2, <2>3
<1> HIDE DEF told
<1>3. told \in Seq(Entry) /\ Len(told) = Len(entries)
  <2>1. DOMAIN told = 1 .. Len(entries) /\ Len(entries) \in Nat
    BY <1>1
  <2> QED
    BY <1>1, <1>2, <2>1
<1>4. Alike(told, entries)
  BY <1>2, <1>3 DEF Alike
<1> QED
  BY <1>2, <1>4 DEF told

\* Every event of q is also in r.
Keeps(q, r) == \A i \in DOMAIN q : \E j \in DOMAIN r : r[j] = q[i]

\* An event sent: what the channel and the stack are left with.
LEMMA BroadcastIsSound ==
    ASSUME Typed, NEW kind \in {"RefreshStarted", "Updated", "RefreshFailed"},
           NEW t \in Targets, NEW entries \in Seq(Entry),
           Broadcast(kind, t, entries), UNCHANGED subscribed
    PROVE  /\ queue' \in Seq(Event) /\ lagged' \in BOOLEAN
           /\ Alike(stack', entries)
           /\ \A i \in 1 .. Len(entries) : stack'[i].view = "behind" =>
                 \/ Coming(entries[i].kind, queue', landed')
                 \/ /\ entries[i].view = "behind" /\ Keeps(queue, queue')
                    /\ \E j \in DOMAIN queue' : queue'[j] = [kind |-> kind, target |-> t]
           /\ subscribed => /\ lagged' \/ Keeps(queue, queue')
                            /\ \E j \in DOMAIN queue' :
                                  queue'[j] = [kind |-> kind, target |-> t]
<1> DEFINE e == [kind |-> kind, target |-> t]
           full == Len(queue) = Capacity
           base == IF full THEN Tail(queue) ELSE queue
<1>1. /\ queue' = IF ~subscribed THEN <<>> ELSE Append(base, e)
      /\ lagged' = (lagged \/ (subscribed /\ full))
      /\ stack' = IF full \/ ~subscribed THEN Told(entries, queue', landed') ELSE entries
  BY DEF Broadcast
<1>2. e \in Event /\ queue \in Seq(Event) /\ lagged \in BOOLEAN /\ subscribed \in BOOLEAN
  BY DEF Event, Typed
<1> HIDE DEF e
<1>3. full => queue # <<>>
  BY ShellAssumption
<1>4. base \in Seq(Event)
  BY <1>2, <1>3
<1>5. queue' \in Seq(Event) /\ lagged' \in BOOLEAN
  BY <1>1, <1>2, <1>4
<1>6. subscribed => \E j \in DOMAIN queue' : queue'[j] = e
  BY <1>1, <1>2, <1>4
<1>7. subscribed /\ ~full => Keeps(queue, queue')
  BY <1>1, <1>2 DEF Keeps
<1>8. Alike(entries, entries)
  BY DEF Alike
<1>9. subscribed => lagged' \/ Keeps(queue, queue')
  BY <1>1, <1>7
<1> HIDE DEF full, base
<1>10. CASE full \/ ~subscribed
  <2>1. stack' = Told(entries, queue', landed')
    BY <1>1, <1>10
  <2> QED
    BY <1>5, <1>6, <1>9, <2>1, ToldIsSound DEF e
<1>11. CASE ~full /\ subscribed
  <2>1. stack' = entries
    BY <1>1, <1>11
  <2> QED
    BY <1>5, <1>6, <1>7, <1>8, <1>9, <1>11, <2>1 DEF e
<1> QED
  BY <1>10, <1>11

\* What is coming still comes: queued events are kept, and what a task has
\* yet to announce is not forgotten.
Lasts(pending, later, r) ==
    \A t \in Targets : pending[t] = "Updated" =>
        \/ later[t] = "Updated"
        \/ \E j \in DOMAIN r : r[j] = [kind |-> "Updated", target |-> t]

LEMMA ComingLasts ==
    ASSUME NEW k \in Kinds, NEW q, NEW r, NEW pending, NEW later,
           Keeps(q, r), Lasts(pending, later, r), Coming(k, q, pending)
    PROVE  Coming(k, r, later)
<1>1. PICK t \in Cares(k) : \/ pending[t] = "Updated"
                            \/ \E i \in DOMAIN q : q[i] = [kind |-> "Updated", target |-> t]
  BY DEF Coming
<1>2. t \in Targets
  BY TargetOfKind
<1>3. CASE pending[t] = "Updated"
  BY <1>2, <1>3 DEF Lasts, Coming
<1>4. CASE \E i \in DOMAIN q : q[i] = [kind |-> "Updated", target |-> t]
  BY <1>4 DEF Keeps, Coming
<1> QED
  BY <1>1, <1>3, <1>4

\* A step that leaves the same surfaces on screen.
LEMMA SameSurfaces ==
    ASSUME IInv, pc' = pc, Alike(stack', stack),
           \A i \in 1 .. Len(stack) : stack'[i].view = "behind" =>
               \/ Coming(stack[i].kind, queue', landed')
               \/ /\ stack[i].view = "behind"
                  /\ Keeps(queue, queue') /\ Lasts(landed, landed', queue')
    PROVE  BeneathIsCovered' /\ NeverBehind' /\ (stack # <<>> => Leaving' = Leaving)
           /\ (pc # "loading" => stack' # <<>>)
<1>1. /\ Len(stack') = Len(stack) /\ Len(stack) \in Nat
      /\ \A i \in 1 .. Len(stack) : /\ stack'[i].kind = stack[i].kind
                                    /\ stack'[i].covered = stack[i].covered
                                    /\ stack[i].kind \in Kinds
  <2>1. \A i \in 1 .. Len(stack) : stack[i] \in Entry
    BY DEF Alike
  <2>2. \A e \in Entry : e.kind \in Kinds
    BY DEF Entry
  <2> QED
    BY <2>1, <2>2 DEF Alike
<1>2. BeneathIsCovered'
  BY <1>1 DEF IInv, BeneathIsCovered
<1>3. stack # <<>> => stack' # <<>> /\ Top = stack[Len(stack)] /\ Top' = stack'[Len(stack)]
                      /\ Len(stack) \in 1 .. Len(stack)
  BY <1>1 DEF Top, Last, Alike
<1>4. stack # <<>> => Leaving' = Leaving
  <2>1. stack # <<>> => Top'.kind = Top.kind
    BY <1>1, <1>3
  <2> QED
    BY <1>3, <2>1 DEF Leaving
<1>5. NeverBehind'
  <2> SUFFICES ASSUME pc = "idle", ~Top'.covered, Top'.view = "behind"
               PROVE  Coming(Top'.kind, queue', landed')
    BY DEF NeverBehind
  <2>1. stack # <<>>
    BY DEF IInv, Typed
  <2>2. /\ Top'.kind = Top.kind /\ Top.kind \in Kinds /\ ~Top.covered
        /\ \/ Coming(Top.kind, queue', landed')
           \/ /\ Top.view = "behind"
              /\ Keeps(queue, queue') /\ Lasts(landed, landed', queue')
    BY <1>1, <1>3, <2>1
  <2>3. Top.view = "behind" => Coming(Top.kind, queue, landed)
    BY <2>2 DEF IInv, NeverBehind
  <2> QED
    BY <2>2, <2>3, ComingLasts
<1>6. pc # "loading" => stack' # <<>>
  BY <1>3 DEF IInv, Typed
<1> QED
  BY <1>2, <1>4, <1>5, <1>6

-----------------------------------------------------------------------------
(* Claims.                                                                  *)

\* What a cancel and a request leave: whose claims, what is fetched and told.
Switched(old, new, who, entries) ==
    /\ claims' \subseteq Targets /\ fetching' \subseteq Targets
    /\ asker' \in [Targets -> {"screen", "task"}]
    /\ landed' = landed /\ subscribed' = subscribed
    /\ queue' \in Seq(Event) /\ lagged' \in BOOLEAN
    /\ Alike(stack', entries)
    /\ ClaimsAreWorkedFor'
    /\ fetching \ {old} \subseteq fetching'
    /\ new # None => new \in claims'
    /\ \A t \in claims' : asker'[t] = "screen" =>
          \/ t \in claims /\ t # old /\ asker[t] = "screen"
          \/ t = new /\ who = "screen"
    /\ \A i \in 1 .. Len(entries) : stack'[i].view = "behind" =>
          \/ Coming(entries[i].kind, queue', landed')
          \/ entries[i].view = "behind" /\ Keeps(queue, queue')
    /\ subscribed => lagged' \/ Keeps(queue, queue')

LEMMA SwitchIsSound ==
    ASSUME Typed, ClaimsAreWorkedFor, NEW old \in Targets \cup {None},
           NEW new \in Targets \cup {None}, NEW who \in {"screen", "task"},
           NEW entries \in Seq(Entry), Switch(old, new, who, entries)
    PROVE  Switched(old, new, who, entries)
<1> DEFINE left == claims \ {old}
           asks == new \notin left \cup {None}
<1>1. /\ claims' = left \cup ({new} \ {None})
      /\ asker' = [t \in Targets |-> IF asks /\ t = new THEN who
                                     ELSE IF t = old THEN "task" ELSE asker[t]]
      /\ fetching' = (fetching \ {old}) \cup (IF asks THEN {new} ELSE {})
      /\ UNCHANGED <<landed, subscribed>>
      /\ IF asks THEN Broadcast("RefreshStarted", new, entries)
         ELSE stack' = entries /\ UNCHANGED <<queue, lagged>>
  BY DEF Switch
<1>2. claims' \subseteq Targets /\ fetching' \subseteq Targets
      /\ asker' \in [Targets -> {"screen", "task"}]
  BY <1>1 DEF Typed
<1>3. \A t \in claims' : t \in fetching' \/ landed'[t] # None
  BY <1>1 DEF ClaimsAreWorkedFor
<1>4. \A t \in claims' : asker'[t] = "screen" =>
         \/ t \in claims /\ t # old /\ asker[t] = "screen"
         \/ t = new /\ who = "screen"
  <2> TAKE t \in claims'
  <2>1. t \in Targets /\ asker'[t] = IF asks /\ t = new THEN who
                                     ELSE IF t = old THEN "task" ELSE asker[t]
    BY <1>1, <1>2
  <2>2. t \in left \/ (asks /\ t = new)
    BY <1>1
  <2> QED
    BY <2>1, <2>2
<1>5. /\ queue' \in Seq(Event) /\ lagged' \in BOOLEAN
      /\ Alike(stack', entries)
      /\ \A i \in 1 .. Len(entries) : stack'[i].view = "behind" =>
            \/ Coming(entries[i].kind, queue', landed')
            \/ entries[i].view = "behind" /\ Keeps(queue, queue')
      /\ subscribed => lagged' \/ Keeps(queue, queue')
  <2>1. CASE asks
    BY <1>1, <2>1, BroadcastIsSound
  <2>2. CASE ~asks
    <3>1. stack' = entries /\ UNCHANGED <<queue, lagged>>
      BY <1>1, <2>2
    <3>2. Keeps(queue, queue') /\ Alike(entries, entries)
      BY <3>1 DEF Keeps, Alike
    <3> QED
      BY <3>1, <3>2 DEF Typed
  <2> QED
    BY <2>1, <2>2
<1> QED
  BY <1>1, <1>2, <1>3, <1>4, <1>5 DEF Switched, ClaimsAreWorkedFor

-----------------------------------------------------------------------------
(* The tasks.                                                               *)

\* A poll tick, or the details a landed inbox asks for.
LEMMA RequestStep ==
    ASSUME IInv, NEW t \in Targets, Switch(None, t, "task", stack), TaskSpoke,
           UNCHANGED <<pc, entering, status, progress>>
    PROVE  IInv'
<1>1. Typed /\ ClaimsAreWorkedFor /\ stack \in Seq(Entry)
  BY DEF IInv, Typed
<1>2. Switched(None, t, "task", stack)
  BY <1>1, SwitchIsSound
<1>3. Lasts(landed, landed', queue')
  BY <1>2 DEF Lasts, Switched
<1>4. BeneathIsCovered' /\ NeverBehind' /\ (stack # <<>> => Leaving' = Leaving)
      /\ (pc # "loading" => stack' # <<>>)
  BY <1>2, <1>3, SameSurfaces DEF Switched
<1>5. slipped' = (status = "refreshing" /\ (slipped \/ lagged')) /\ slipped' \in BOOLEAN
  BY DEF TaskSpoke
<1>6. Typed'
  BY <1>1, <1>2, <1>4, <1>5 DEF Typed, Alike, Switched
<1>7. UnheardIsSilent'
  BY <1>2 DEF IInv, UnheardIsSilent, Switched
<1>8. WorkIsForTheScreen'
  BY <1>1, <1>2, <1>4 DEF IInv, Typed, WorkIsForTheScreen, Switched
<1>9. MessageIsTrue'
  <2> SUFFICES ASSUME status = "refreshing", ~slipped'
               PROVE  \/ progress \in fetching'
                      \/ progress # None /\ landed'[progress] # None
                      \/ \E i \in DOMAIN queue' : /\ queue'[i].target = progress
                                                  /\ queue'[i].kind # "RefreshStarted"
    BY DEF MessageIsTrue
  <2>1. subscribed /\ ~slipped /\ Keeps(queue, queue') /\ progress \in Targets
    BY <1>2, <1>5 DEF IInv, UnheardIsSilent, Typed, Switched
  <2>2. progress # None
    BY <2>1, ShellAssumption
  <2> QED
    BY <1>2, <2>1, <2>2 DEF IInv, MessageIsTrue, Keeps, Switched
<1> QED
  BY <1>2, <1>4, <1>6, <1>7, <1>8, <1>9 DEF IInv, Switched

LEMMA TickStep ==
    ASSUME IInv, NEW t \in Targets, Tick(t)
    PROVE  IInv'
BY RequestStep DEF Tick

LEMMA ChainStep ==
    ASSUME IInv, Chain
    PROVE  IInv'
BY RequestStep DEF Chain, Targets

\* What a task has written is on its way to the screen.
LEMMA WriteStep ==
    ASSUME IInv, NEW t \in Targets, Write(t)
    PROVE  IInv'
<1>1. /\ t \in fetching /\ landed[t] = None
      /\ fetching' = fetching \ {t}
      /\ landed' = [landed EXCEPT ![t] = "Updated"]
      /\ UNCHANGED <<pc, entering, open, status, progress, channel, claims, asker>>
  BY DEF Write
<1>2. stack' = [i \in 1 .. Len(stack) |->
                   IF t \in Cares(stack[i].kind)
                   THEN [stack[i] EXCEPT !.view = "behind"] ELSE stack[i]]
  BY DEF Write, IInv, Typed
<1>3. Typed /\ \A i \in 1 .. Len(stack) : stack[i] \in Entry
  BY DEF IInv, Typed
<1>4. landed' \in [Targets -> {None, "Updated", "RefreshFailed"}] /\ landed'[t] = "Updated"
      /\ \A u \in Targets \ {t} : landed'[u] = landed[u]
  BY <1>1, <1>3 DEF Typed
<1>5. ASSUME NEW i \in 1 .. Len(stack)
      PROVE  /\ stack'[i] \in Entry
             /\ stack'[i].kind = stack[i].kind /\ stack'[i].covered = stack[i].covered
             /\ stack'[i].view = "behind" =>
                   Coming(stack[i].kind, queue', landed') \/ stack[i].view = "behind"
  <2>1. CASE t \in Cares(stack[i].kind)
    <3>1. stack'[i] = [stack[i] EXCEPT !.view = "behind"]
      BY <1>2, <2>1
    <3>2. Coming(stack[i].kind, queue', landed')
      BY <1>4, <2>1 DEF Coming
    <3> QED
      BY <1>3, <3>1, <3>2 DEF Entry
  <2>2. CASE t \notin Cares(stack[i].kind)
    BY <1>2, <1>3, <2>2
  <2> QED
    BY <2>1, <2>2
<1>6. Len(stack') = Len(stack) /\ stack' \in Seq(Entry)
  <2>1. DOMAIN stack' = 1 .. Len(stack) /\ Len(stack) \in Nat
    BY <1>2, <1>3 DEF Typed
  <2> QED
    BY <1>2, <1>5, <2>1
<1>7. Alike(stack', stack)
  BY <1>3, <1>5, <1>6 DEF Alike, Typed
<1>8. Keeps(queue, queue') /\ Lasts(landed, landed', queue')
  BY <1>1, <1>4 DEF Keeps, Lasts, channel
<1>9. BeneathIsCovered' /\ NeverBehind' /\ (stack # <<>> => Leaving' = Leaving)
      /\ (pc # "loading" => stack' # <<>>)
  BY <1>1, <1>5, <1>7, <1>8, SameSurfaces
<1>10. "Updated" # None
  BY ShellAssumption
<1>11. Typed'
  BY <1>1, <1>3, <1>4, <1>6, <1>9 DEF Typed, channel
<1>12. ClaimsAreWorkedFor' /\ UnheardIsSilent'
  BY <1>1, <1>3, <1>4, <1>10 DEF IInv, ClaimsAreWorkedFor, UnheardIsSilent, channel, Typed
<1>13. WorkIsForTheScreen'
  BY <1>1, <1>3, <1>9 DEF IInv, WorkIsForTheScreen, Typed
<1>14. MessageIsTrue'
  <2>1. progress \in fetching => progress \in fetching' \/ landed'[progress] # None
    BY <1>1, <1>4, <1>10
  <2>2. progress \in fetching => progress # None
    BY <1>3, ShellAssumption DEF Typed
  <2>3. progress # None /\ landed[progress] # None => landed'[progress] # None
    BY <1>1, <1>3, <1>4, <1>10 DEF Typed
  <2> QED
    BY <1>1, <2>1, <2>2, <2>3 DEF IInv, MessageIsTrue, channel
<1> QED
  BY <1>9, <1>11, <1>12, <1>13, <1>14 DEF IInv

LEMMA SameStack ==
    ASSUME IInv, UNCHANGED <<pc, stack, queue>>, Lasts(landed, landed', queue')
    PROVE  BeneathIsCovered' /\ NeverBehind' /\ (stack # <<>> => Leaving' = Leaving)
<1>1. Alike(stack', stack) /\ Keeps(queue, queue')
  BY DEF Alike, Keeps, IInv, Typed
<1>2. \A i \in 1 .. Len(stack) : stack'[i].view = "behind" => stack[i].view = "behind"
  OBVIOUS
<1> QED
  BY <1>1, <1>2, SameSurfaces

LEMMA FailStep ==
    ASSUME IInv, NEW t \in Targets, Fail(t)
    PROVE  IInv'
<1>1. /\ t \in fetching /\ landed[t] = None
      /\ fetching' = fetching \ {t}
      /\ landed' = [landed EXCEPT ![t] = "RefreshFailed"]
      /\ UNCHANGED <<pc, screen, channel, claims, asker>>
  BY DEF Fail
<1>2. Typed
  BY DEF IInv
<1>3. /\ landed' \in [Targets -> {None, "Updated", "RefreshFailed"}]
      /\ landed'[t] = "RefreshFailed" /\ "RefreshFailed" # None /\ "Updated" # None
      /\ \A u \in Targets \ {t} : landed'[u] = landed[u]
  BY <1>1, <1>2, ShellAssumption DEF Typed
<1>4. Typed'
  BY <1>1, <1>2, <1>3 DEF Typed, screen, channel
<1>5. BeneathIsCovered' /\ NeverBehind' /\ (stack # <<>> => Leaving' = Leaving)
  <2>1. Lasts(landed, landed', queue')
    BY <1>1, <1>3 DEF Lasts
  <2> QED
    BY <1>1, <2>1, SameStack DEF screen, channel
<1>6. ClaimsAreWorkedFor' /\ UnheardIsSilent'
  BY <1>1, <1>2, <1>3 DEF IInv, ClaimsAreWorkedFor, UnheardIsSilent, screen, channel, Typed
<1>7. WorkIsForTheScreen'
  BY <1>1, <1>2, <1>5 DEF IInv, WorkIsForTheScreen, screen, Typed
<1>8. MessageIsTrue'
  <2>1. progress \in fetching => progress \in fetching' \/ landed'[progress] # None
    BY <1>1, <1>3
  <2>2. progress \in fetching => progress # None
    BY <1>2, ShellAssumption DEF Typed
  <2>3. progress # None /\ landed[progress] # None => landed'[progress] # None
    BY <1>1, <1>2, <1>3 DEF Typed
  <2> QED
    BY <1>1, <2>1, <2>2, <2>3 DEF IInv, MessageIsTrue, screen, channel
<1> QED
  BY <1>4, <1>5, <1>6, <1>7, <1>8 DEF IInv

\* The end of a refresh is an event before it is nobody's.
LEMMA AnnounceStep ==
    ASSUME IInv, NEW t \in Targets, Announce(t)
    PROVE  IInv'
<1>0. PICK kind \in {None, "Updated", "RefreshFailed"} : kind = landed[t]
  BY DEF IInv, Typed
<1>1. /\ landed[t] # None
      /\ landed' = [landed EXCEPT ![t] = None]
      /\ claims' = claims \ {t}
      /\ asker' = [asker EXCEPT ![t] = "task"]
      /\ Broadcast(kind, t, stack) /\ TaskSpoke
      /\ UNCHANGED <<pc, entering, status, progress, fetching, subscribed>>
  BY <1>0 DEF Announce
<1>2. Typed /\ stack \in Seq(Entry) /\ kind \in {"Updated", "RefreshFailed"}
  BY <1>0, <1>1 DEF IInv, Typed
<1>3. /\ landed' \in [Targets -> {None, "Updated", "RefreshFailed"}]
      /\ \A u \in Targets \ {t} : landed'[u] = landed[u]
  BY <1>1, <1>2 DEF Typed
<1>4. /\ queue' \in Seq(Event) /\ lagged' \in BOOLEAN
      /\ Alike(stack', stack)
      /\ \A i \in 1 .. Len(stack) : stack'[i].view = "behind" =>
            \/ Coming(stack[i].kind, queue', landed')
            \/ /\ stack[i].view = "behind" /\ Keeps(queue, queue')
               /\ \E j \in DOMAIN queue' : queue'[j] = [kind |-> kind, target |-> t]
      /\ subscribed => /\ lagged' \/ Keeps(queue, queue')
                       /\ \E j \in DOMAIN queue' : queue'[j] = [kind |-> kind, target |-> t]
  <2>1. /\ kind \in {"RefreshStarted", "Updated", "RefreshFailed"}
        /\ Broadcast(kind, t, stack) /\ UNCHANGED subscribed
    BY <1>1, <1>2
  <2> QED
    BY <1>2, <2>1, BroadcastIsSound
<1>5. (\E j \in DOMAIN queue' : queue'[j] = [kind |-> kind, target |-> t])
         => Lasts(landed, landed', queue')
  BY <1>0, <1>3 DEF Lasts
<1>6. BeneathIsCovered' /\ NeverBehind' /\ (stack # <<>> => Leaving' = Leaving)
      /\ (pc # "loading" => stack' # <<>>)
  BY <1>1, <1>4, <1>5, SameSurfaces
<1>7. slipped' = (status = "refreshing" /\ (slipped \/ lagged')) /\ slipped' \in BOOLEAN
  BY <1>1 DEF TaskSpoke
<1>8. Typed'
  BY <1>1, <1>2, <1>3, <1>4, <1>6, <1>7 DEF Typed, Alike
<1>9. ClaimsAreWorkedFor' /\ UnheardIsSilent'
  BY <1>1, <1>2, <1>3 DEF IInv, ClaimsAreWorkedFor, UnheardIsSilent, Typed
<1>10. WorkIsForTheScreen'
  BY <1>1, <1>2, <1>6 DEF IInv, WorkIsForTheScreen, Typed
<1>11. MessageIsTrue'
  <2> SUFFICES ASSUME status = "refreshing", ~slipped'
               PROVE  \/ progress \in fetching'
                      \/ progress # None /\ landed'[progress] # None
                      \/ \E i \in DOMAIN queue' : /\ queue'[i].target = progress
                                                  /\ queue'[i].kind # "RefreshStarted"
    BY <1>1 DEF MessageIsTrue
  <2>1. /\ subscribed /\ ~slipped /\ Keeps(queue, queue') /\ progress \in Targets
        /\ \E j \in DOMAIN queue' : queue'[j] = [kind |-> kind, target |-> t]
    BY <1>4, <1>7 DEF IInv, UnheardIsSilent, Typed
  <2>2. CASE progress = t
    BY <1>2, <2>1, <2>2
  <2>3. CASE progress # t
    <3>1. landed'[progress] = landed[progress]
      BY <1>3, <2>1, <2>3
    <3> QED
      BY <1>1, <2>1, <3>1 DEF IInv, MessageIsTrue, Keeps
  <2> QED
    BY <2>2, <2>3
<1> QED
  BY <1>6, <1>8, <1>9, <1>10, <1>11 DEF IInv

-----------------------------------------------------------------------------
(* The loop.                                                                *)

\* The page a push waited for is the cache's.
LEMMA LoadStep ==
    ASSUME IInv, Load
    PROVE  IInv'
<1> DEFINE page == [kind |-> entering, view |-> "current",
                    spinning |-> TargetOf[entering] \in claims, covered |-> FALSE]
<1>1. /\ pc = "loading" /\ pc' = "idle"
      /\ stack' = Append(stack, page)
      /\ UNCHANGED <<status, progress, channel, claims, asker, fetching, landed>>
  BY DEF Load, work
<1>2. Typed /\ page \in Entry /\ page.kind = entering /\ page.view = "current"
  BY <1>1 DEF IInv, Typed, Entry
<1> HIDE DEF page
<1>3. /\ stack' \in Seq(Entry) /\ Len(stack') = Len(stack) + 1 /\ Len(stack) \in Nat
      /\ stack' # <<>> /\ stack'[Len(stack')] = page
      /\ \A i \in 1 .. Len(stack) : stack'[i] = stack[i]
  BY <1>1, <1>2 DEF Typed
<1>4. Typed'
  BY <1>1, <1>2, <1>3 DEF Typed, channel
<1>5. BeneathIsCovered'
  BY <1>1, <1>3 DEF IInv, BeneathIsCovered
<1>6. Top' = page
  BY <1>3 DEF Top, Last
<1>7. Leaving' = TargetOf[entering]
  BY <1>2, <1>3, <1>6 DEF Leaving
<1>8. NeverBehind'
  BY <1>2, <1>6 DEF NeverBehind
<1>9. WorkIsForTheScreen'
  BY <1>1, <1>7 DEF IInv, WorkIsForTheScreen
<1>10. ClaimsAreWorkedFor' /\ UnheardIsSilent' /\ MessageIsTrue'
  BY <1>1 DEF IInv, ClaimsAreWorkedFor, UnheardIsSilent, MessageIsTrue, channel
<1> QED
  BY <1>4, <1>5, <1>8, <1>9, <1>10 DEF IInv

\* A step that neither navigates nor asks, and ends any message or keeps it.
LEMMA StillStep ==
    ASSUME IInv, UNCHANGED <<pc, stack, queue, work, entering>>,
           subscribed' \in BOOLEAN, lagged' \in BOOLEAN, slipped' \in BOOLEAN,
           subscribed => subscribed',
           \/ UNCHANGED <<status, progress, slipped>>
           \/ status' \in {"none", "other"} /\ progress' = None
    PROVE  IInv'
<1>1. Typed /\ UNCHANGED <<claims, asker, fetching, landed>>
  BY DEF IInv, work
<1>2. Lasts(landed, landed', queue')
  BY <1>1 DEF Lasts
<1>3. BeneathIsCovered' /\ NeverBehind' /\ (stack # <<>> => Leaving' = Leaving)
  BY <1>2, SameStack
<1>4. Typed'
  BY <1>1 DEF Typed
<1>5. ClaimsAreWorkedFor' /\ UnheardIsSilent' /\ MessageIsTrue'
  BY <1>1 DEF IInv, ClaimsAreWorkedFor, UnheardIsSilent, MessageIsTrue
<1>6. WorkIsForTheScreen'
  BY <1>1, <1>3 DEF IInv, WorkIsForTheScreen, Typed
<1> QED
  BY <1>3, <1>4, <1>5, <1>6 DEF IInv

LEMMA LoopStep ==
    ASSUME IInv, Subscribe \/ Lag \/ Resize \/ OverlayKey
    PROVE  IInv'
<1>1. Typed
  BY DEF IInv
<1>2. CASE Subscribe
  BY <1>1, <1>2, StillStep DEF Subscribe, screen, Typed
<1>3. CASE Lag
  BY <1>1, <1>3, StillStep DEF Lag, screen, Typed
<1>4. CASE Resize
  BY <1>1, <1>4, StillStep DEF Resize, screen, channel, Typed
<1>5. CASE OverlayKey
  BY <1>1, <1>5, StillStep DEF OverlayKey, Quiet, StayOnScreen, Typed
<1> QED
  BY <1>2, <1>3, <1>4, <1>5

LEMMA FrontIsSound ==
    ASSUME NEW s \in Seq(Entry), s # <<>>
    PROVE  /\ Front(s) \in Seq(Entry) /\ Len(Front(s)) = Len(s) - 1
           /\ \A i \in 1 .. Len(s) - 1 : Front(s)[i] = s[i]
<1>1. Len(s) \in Nat /\ Len(s) > 0
  OBVIOUS
<1>2. Front(s) = [i \in 1 .. Len(s) - 1 |-> s[i]]
  BY <1>1 DEF Front
<1> QED
  BY <1>1, <1>2

\* The event that reloads the surface on screen is the one it waited for.
LEMMA ReceiveStep ==
    ASSUME IInv, Receive
    PROVE  IInv'
<1> DEFINE e == Head(queue)
           landing == e.kind # "RefreshStarted" /\ e.target = progress
           reloading == e.kind = "Updated" /\ e.target \in Cares(Top.kind)
           n == Len(stack)
<1>1. /\ pc = "idle" /\ queue # <<>> /\ OnStore(e) /\ queue' = Tail(queue)
      /\ UNCHANGED <<pc, entering, subscribed, lagged, slipped, claims, asker, fetching,
                     landed>>
  BY DEF Receive, Listening, work
<1>2. /\ stack' = IF reloading THEN Append(Front(stack), Reloaded(Top)) ELSE stack
      /\ progress' = IF landing THEN None ELSE progress
      /\ status' = IF e.kind = "RefreshFailed" THEN "other"
                   ELSE IF landing THEN "none" ELSE status
  BY <1>1 DEF OnStore
<1>3. /\ Typed /\ e \in Event /\ e = queue[1] /\ queue' \in Seq(Event)
      /\ n \in Nat /\ n > 0 /\ Top = stack[n] /\ Top \in Entry
      /\ \A i \in DOMAIN queue : i = 1 \/ (i - 1 \in DOMAIN queue' /\ queue'[i - 1] = queue[i])
  BY <1>1 DEF IInv, Typed, Top, Last
<1>4. /\ stack' \in Seq(Entry) /\ Len(stack') = n
      /\ \A i \in 1 .. n - 1 : stack'[i] = stack[i]
      /\ stack'[n] = IF reloading THEN Reloaded(Top) ELSE Top
  <2>1. CASE ~reloading
    BY <1>2, <1>3, <2>1 DEF Typed
  <2>2. CASE reloading
    <3>1. Reloaded(Top) \in Entry
      BY <1>3 DEF Reloaded, Entry
    <3>2. /\ Front(stack) \in Seq(Entry) /\ Len(Front(stack)) = n - 1
          /\ \A i \in 1 .. n - 1 : Front(stack)[i] = stack[i]
      BY <1>3, FrontIsSound DEF Typed
    <3> QED
      BY <1>2, <1>3, <2>2, <3>1, <3>2
  <2> QED
    BY <2>1, <2>2
<1>5. Top' = stack'[n] /\ stack' # <<>> /\ Top'.kind = Top.kind
  BY <1>3, <1>4 DEF Top, Last, Reloaded
<1>6. Leaving' = Leaving
  BY <1>3, <1>5 DEF Leaving
<1>7. BeneathIsCovered'
  BY <1>1, <1>3, <1>4 DEF IInv, BeneathIsCovered
<1>8. NeverBehind'
  <2>1. CASE reloading
    BY <1>4, <1>5, <2>1 DEF NeverBehind, Reloaded
  <2>2. CASE ~reloading
    <3>1. Top' = Top
      BY <1>4, <1>5, <2>2
    <3> SUFFICES ASSUME ~Top.covered, Top.view = "behind"
                 PROVE  Coming(Top.kind, queue', landed')
      BY <3>1 DEF NeverBehind
    <3>2. Coming(Top.kind, queue, landed)
      BY <1>1 DEF IInv, NeverBehind
    <3>3. PICK t \in Cares(Top.kind) :
             \/ landed[t] = "Updated"
             \/ \E i \in DOMAIN queue : queue[i] = [kind |-> "Updated", target |-> t]
      BY <3>2 DEF Coming
    <3>4. ASSUME NEW i \in DOMAIN queue, queue[i] = [kind |-> "Updated", target |-> t]
          PROVE  i # 1
      BY <1>3, <2>2, <3>3, <3>4
    <3>5. CASE landed[t] = "Updated"
      BY <1>1, <3>3, <3>5 DEF Coming
    <3>6. CASE \E i \in DOMAIN queue : queue[i] = [kind |-> "Updated", target |-> t]
      <4>1. \E j \in DOMAIN queue' : queue'[j] = [kind |-> "Updated", target |-> t]
        BY <1>3, <3>4, <3>6
      <4> QED
        BY <3>3, <4>1 DEF Coming
    <3> QED
      BY <3>3, <3>5, <3>6
  <2> QED
    BY <2>1, <2>2
<1>9. Typed'
  BY <1>1, <1>2, <1>3, <1>4, <1>5 DEF Typed
<1>10. ClaimsAreWorkedFor' /\ UnheardIsSilent'
  BY <1>1, <1>2 DEF IInv, ClaimsAreWorkedFor, UnheardIsSilent
<1>11. WorkIsForTheScreen'
  BY <1>1, <1>6 DEF IInv, WorkIsForTheScreen
<1>12. MessageIsTrue'
  <2> SUFFICES ASSUME status' = "refreshing"
               PROVE  \/ progress \in fetching
                      \/ progress # None /\ landed[progress] # None
                      \/ \E i \in DOMAIN queue' : /\ queue'[i].target = progress
                                                  /\ queue'[i].kind # "RefreshStarted"
                      \/ slipped
    BY <1>1, <1>2 DEF MessageIsTrue
  <2>1. status = "refreshing" /\ ~landing
    BY <1>2
  <2>2. \/ progress \in fetching
        \/ progress # None /\ landed[progress] # None
        \/ \E i \in DOMAIN queue : /\ queue[i].target = progress
                                   /\ queue[i].kind # "RefreshStarted"
        \/ slipped
    BY <2>1 DEF IInv, MessageIsTrue
  <2>3. ASSUME NEW i \in DOMAIN queue, queue[i].target = progress,
               queue[i].kind # "RefreshStarted"
        PROVE  \E j \in DOMAIN queue' : /\ queue'[j].target = progress
                                        /\ queue'[j].kind # "RefreshStarted"
    BY <1>3, <2>1, <2>3
  <2> QED
    BY <2>2, <2>3
<1> QED
  BY <1>7, <1>8, <1>9, <1>10, <1>11, <1>12 DEF IInv

-----------------------------------------------------------------------------
(* Keys.                                                                    *)

\* A surface is left, covered or gone, and another is entered.
LEMMA EnterStep ==
    ASSUME IInv, pc = "idle", NEW k \in Kinds, NEW entries \in Seq(Entry),
           \A i \in 1 .. Len(entries) : entries[i].covered,
           Switch(Leaving, TargetOf[k], "screen", entries),
           entering' = k, pc' = "loading", Quiet, slipped' = FALSE
    PROVE  IInv'
<1>1. Typed /\ ClaimsAreWorkedFor
  BY DEF IInv
<1>2. PICK old \in Targets \cup {None} : old = Leaving
  <2>1. stack # <<>> => Top \in Entry
    BY <1>1 DEF Typed, Top, Last
  <2> QED
    BY <2>1, TargetOfKind DEF Leaving, Entry
<1>3. PICK new \in Targets \cup {None} : new = TargetOf[k]
  BY TargetOfKind
<1>4. Switch(old, new, "screen", entries)
  BY <1>2, <1>3
<1>5. Switched(old, new, "screen", entries)
  BY <1>1, <1>4, SwitchIsSound
<1>6. Typed'
  BY <1>1, <1>5 DEF Typed, Alike, Quiet, Switched
<1>7. BeneathIsCovered'
  BY <1>5 DEF BeneathIsCovered, Alike, Switched
<1>8. WorkIsForTheScreen'
  <2>1. \A t \in claims : asker[t] = "screen" => t = old
    BY <1>2 DEF IInv, WorkIsForTheScreen
  <2> QED
    BY <1>3, <1>5, <2>1 DEF WorkIsForTheScreen, Switched
<1>9. UnheardIsSilent' /\ MessageIsTrue' /\ NeverBehind'
  BY DEF UnheardIsSilent, MessageIsTrue, NeverBehind, Quiet
<1> QED
  BY <1>5, <1>6, <1>7, <1>8, <1>9 DEF IInv, Switched

\* The surface underneath is shown as it was left: covered.
LEMMA PopStep ==
    ASSUME IInv, pc = "idle", Pop, Quiet, slipped' = FALSE
    PROVE  IInv'
<1>1. Typed /\ ClaimsAreWorkedFor /\ stack # <<>> /\ stack \in Seq(Entry)
      /\ UNCHANGED <<pc, entering>>
  BY DEF IInv, Typed, Pop
<1>2. CASE Len(stack) > 1
  <2>1. PICK old \in Targets \cup {None} : old = Leaving
    <3>1. Top \in Entry
      BY <1>1 DEF Top, Last
    <3> QED
      BY <1>1, <3>1, TargetOfKind DEF Leaving, Entry
  <2>2. Switch(old, None, "screen", Front(stack))
    BY <1>2, <2>1 DEF Pop
  <2>3. /\ Front(stack) \in Seq(Entry) /\ Len(Front(stack)) = Len(stack) - 1
        /\ \A i \in 1 .. Len(stack) - 1 : Front(stack)[i].covered
    <3>1. /\ Front(stack) \in Seq(Entry) /\ Len(Front(stack)) = Len(stack) - 1
          /\ \A i \in 1 .. Len(stack) - 1 : Front(stack)[i] = stack[i]
      BY <1>1, FrontIsSound
    <3>2. \A i \in 1 .. Len(stack) - 1 : stack[i].covered
      BY <1>1 DEF IInv, BeneathIsCovered
    <3> QED
      BY <3>1, <3>2
  <2>4. Switched(old, None, "screen", Front(stack))
    BY <1>1, <2>2, <2>3, SwitchIsSound
  <2>5. stack' \in Seq(Entry) /\ Len(stack') = Len(stack) - 1 /\ stack' # <<>>
        /\ \A i \in 1 .. Len(stack') : stack'[i].covered
    BY <1>1, <1>2, <2>3, <2>4 DEF Alike, Switched
  <2>6. Typed'
    BY <1>1, <2>4, <2>5 DEF Typed, Quiet, Switched
  <2>7. BeneathIsCovered' /\ NeverBehind'
    BY <1>1, <2>5 DEF BeneathIsCovered, NeverBehind, Top, Last
  <2>8. WorkIsForTheScreen'
    <3>1. \A t \in claims : asker[t] = "screen" => t = old
      BY <2>1 DEF IInv, WorkIsForTheScreen
    <3> QED
      BY <2>4, <3>1, ShellAssumption DEF WorkIsForTheScreen, Switched
  <2>9. UnheardIsSilent' /\ MessageIsTrue'
    BY DEF UnheardIsSilent, MessageIsTrue, Quiet
  <2> QED
    BY <2>4, <2>6, <2>7, <2>8, <2>9 DEF IInv, Switched
<1>3. CASE ~(Len(stack) > 1)
  <2>1. Switch(None, None, "screen", stack)
    BY <1>3 DEF Pop
  <2>2. /\ claims' = claims \ {None} /\ asker' = [t \in Targets |->
                                                    IF t = None THEN "task" ELSE asker[t]]
        /\ fetching' = fetching \ {None}
        /\ UNCHANGED <<landed, subscribed, stack, queue, lagged>>
    BY <2>1 DEF Switch
  <2>3. UNCHANGED <<claims, asker, fetching>>
    BY <1>1, <2>2, ShellAssumption DEF Typed
  <2>4. Lasts(landed, landed', queue')
    BY <2>2 DEF Lasts
  <2>5. BeneathIsCovered' /\ NeverBehind' /\ (stack # <<>> => Leaving' = Leaving)
    BY <1>1, <2>2, <2>4, SameStack
  <2>6. Typed' /\ WorkIsForTheScreen' /\ ClaimsAreWorkedFor'
    BY <1>1, <2>2, <2>3, <2>5
       DEF Typed, WorkIsForTheScreen, ClaimsAreWorkedFor, Quiet, IInv
  <2>7. UnheardIsSilent' /\ MessageIsTrue'
    BY DEF UnheardIsSilent, MessageIsTrue, Quiet
  <2> QED
    BY <2>5, <2>6, <2>7 DEF IInv
<1> QED
  BY <1>2, <1>3

\* `r` says refreshing of a target that is claimed by the time it says so.
LEMMA RefreshStep ==
    ASSUME IInv, Listening, Refresh, slipped' = FALSE, chaining' = chaining
    PROVE  IInv'
<1>1. Typed /\ ClaimsAreWorkedFor /\ stack # <<>> /\ stack \in Seq(Entry) /\ subscribed
      /\ pc = "idle" /\ UNCHANGED <<pc, entering>>
  BY DEF IInv, Typed, Refresh, Listening
<1>2. CASE Leaving = None
  BY <1>1, <1>2, StillStep DEF Refresh, Typed
<1>3. CASE Leaving # None
  <2>1. PICK new \in Targets : new = Leaving
    <3>1. Top \in Entry
      BY <1>1 DEF Top, Last
    <3> QED
      BY <1>1, <1>3, <3>1, TargetOfKind DEF Leaving, Entry
  <2>2. Switch(None, new, "screen", stack) /\ status' = "refreshing" /\ progress' = new
    BY <1>3, <2>1 DEF Refresh
  <2>3. new # None
    BY ShellAssumption
  <2>4. Switched(None, new, "screen", stack)
    BY <1>1, <2>2, SwitchIsSound
  <2>5. Lasts(landed, landed', queue')
    BY <2>4 DEF Lasts, Switched
  <2>6. BeneathIsCovered' /\ NeverBehind' /\ Leaving' = Leaving /\ stack' # <<>>
    BY <1>1, <2>4, <2>5, SameSurfaces DEF Switched
  <2>7. Typed'
    BY <1>1, <2>2, <2>4, <2>6 DEF Typed, Alike, Switched
  <2>8. WorkIsForTheScreen'
    BY <1>1, <2>1, <2>4, <2>6 DEF IInv, WorkIsForTheScreen, Switched
  <2>9. UnheardIsSilent' /\ MessageIsTrue'
    BY <1>1, <2>2, <2>3, <2>4 DEF UnheardIsSilent, MessageIsTrue, ClaimsAreWorkedFor, Switched
  <2> QED
    BY <2>4, <2>6, <2>7, <2>8, <2>9 DEF IInv, Switched
<1> QED
  BY <1>2, <1>3

LEMMA CoverIsSound ==
    ASSUME NEW entries \in Seq(Entry)
    PROVE  /\ Cover(entries) \in Seq(Entry)
           /\ \A i \in 1 .. Len(Cover(entries)) : Cover(entries)[i].covered
<1> DEFINE over == Cover(entries)
<1>1. over = [i \in 1 .. Len(entries) |-> [entries[i] EXCEPT !.covered = TRUE]]
  BY DEF Cover
<1>2. ASSUME NEW i \in 1 .. Len(entries)
      PROVE  over[i] \in Entry /\ over[i].covered
  <2>1. over[i] = [entries[i] EXCEPT !.covered = TRUE] /\ entries[i] \in Entry
    BY <1>1
  <2> HIDE DEF over
  <2> QED
    BY <2>1 DEF Entry
<1> HIDE DEF over
<1>3. over \in Seq(Entry) /\ Len(over) = Len(entries)
  <2>1. DOMAIN over = 1 .. Len(entries) /\ Len(entries) \in Nat
    BY <1>1
  <2> QED
    BY <1>1, <1>2, <2>1
<1> QED
  BY <1>2, <1>3 DEF over

LEMMA NavigateStep ==
    ASSUME IInv, pc = "idle", Navigate, slipped' = FALSE
    PROVE  IInv'
<1>1. Quiet /\ stack \in Seq(Entry) /\ stack # <<>>
  BY DEF Navigate, IInv, Typed
<1>2. CASE \E k \in Keyed \ {Top.kind} : Replace(k)
  <2>1. PICK k \in Keyed : Replace(k)
    BY <1>2
  <2>2. k \in Kinds
    BY ShellAssumption
  <2>3. Front(stack) \in Seq(Entry) /\ \A i \in 1 .. Len(Front(stack)) : Front(stack)[i].covered
    <3>1. Len(stack) \in Nat /\ \A i \in 1 .. Len(stack) - 1 : stack[i].covered
      BY <1>1 DEF IInv, BeneathIsCovered
    <3> QED
      BY <1>1, <3>1, FrontIsSound
  <2> QED
    BY <1>1, <2>1, <2>2, <2>3, EnterStep DEF Replace
<1>3. CASE Top.kind \in DOMAIN Opens /\ Push(Opens[Top.kind])
  <2>1. PICK k \in Kinds : k = Opens[Top.kind]
    BY <1>3 DEF Opens, Kinds, TargetOf
  <2>2. Push(k)
    BY <1>3, <2>1
  <2> QED
    BY <1>1, <2>2, CoverIsSound, EnterStep DEF Push
<1>4. CASE Pop
  BY <1>1, <1>4, PopStep
<1> QED
  BY <1>2, <1>3, <1>4 DEF Navigate

LEMMA QuitStep ==
    ASSUME IInv, pc = "idle", Quit, slipped' = FALSE
    PROVE  IInv'
<1>1. /\ Typed /\ pc' = "over" /\ Quiet
      /\ UNCHANGED <<stack, entering, queue, lagged, subscribed>>
      /\ UNCHANGED <<claims, asker, fetching, landed>>
  BY DEF IInv, Quit, work
<1>2. Typed' /\ BeneathIsCovered' /\ NeverBehind' /\ Leaving' = Leaving
  BY <1>1 DEF IInv, Typed, BeneathIsCovered, NeverBehind, Leaving, Top, Quiet
<1>3. WorkIsForTheScreen'
  BY <1>1, <1>2 DEF IInv, WorkIsForTheScreen
<1>4. ClaimsAreWorkedFor' /\ UnheardIsSilent' /\ MessageIsTrue'
  BY <1>1 DEF IInv, ClaimsAreWorkedFor, UnheardIsSilent, MessageIsTrue, Quiet
<1> QED
  BY <1>2, <1>3, <1>4 DEF IInv

LEMMA KeyStep ==
    ASSUME IInv, Key \/ PaletteRuns
    PROVE  IInv'
<1>1. /\ Listening /\ pc = "idle" /\ Typed /\ slipped' = FALSE /\ chaining' = chaining
      /\ \/ Navigate
         \/ Quit
         \/ \E which \in Overlays : OpenOverlay(which)
         \/ Refresh
         \/ OpenInBrowser
  BY DEF Key, PaletteRuns, Act, Listening, IInv
<1>2. CASE Navigate
  BY <1>1, <1>2, NavigateStep
<1>3. CASE Quit
  BY <1>1, <1>3, QuitStep
<1>4. CASE \E which \in Overlays : OpenOverlay(which)
  <2>1. Quiet /\ StayOnScreen
    BY <1>4 DEF OpenOverlay
  <2>2. UNCHANGED <<pc, stack, queue, work, entering, subscribed, lagged>>
    BY <2>1 DEF StayOnScreen
  <2> QED
    BY <1>1, <2>1, <2>2, StillStep DEF Quiet, Typed
<1>5. CASE Refresh
  BY <1>1, <1>5, RefreshStep
<1>6. CASE OpenInBrowser
  BY <1>1, <1>6, StillStep DEF OpenInBrowser, StayOnScreen, Typed
<1> QED
  BY <1>1, <1>2, <1>3, <1>4, <1>5, <1>6

-----------------------------------------------------------------------------
LEMMA Initially == Init => IInv
<1> SUFFICES ASSUME Init PROVE IInv
  OBVIOUS
<1>1. entering \in Kinds /\ TargetOf[entering] \in Targets \cup {None}
  BY ShellAssumption, TargetOfKind DEF Init
<1>2. Typed
  <2>1. asker \in [Targets -> {"screen", "task"}]
        /\ landed \in [Targets -> {None, "Updated", "RefreshFailed"}]
    BY DEF Init
  <2>2. claims \subseteq Targets /\ fetching \subseteq Targets
    BY <1>1 DEF Init
  <2>3. stack \in Seq(Entry) /\ queue \in Seq(Event)
    BY DEF Init
  <2> QED
    BY <1>1, <2>1, <2>2, <2>3 DEF Init, Typed
<1>3. BeneathIsCovered /\ ClaimsAreWorkedFor /\ UnheardIsSilent /\ NeverBehind /\ MessageIsTrue
  BY DEF Init, BeneathIsCovered, ClaimsAreWorkedFor, UnheardIsSilent, NeverBehind, MessageIsTrue
<1>4. WorkIsForTheScreen
  BY DEF Init, WorkIsForTheScreen
<1> QED
  BY <1>2, <1>3, <1>4 DEF IInv

LEMMA Inductive == IInv /\ [Next]_vars => IInv'
<1> SUFFICES ASSUME IInv, [Next]_vars PROVE IInv'
  OBVIOUS
<1>1. CASE UNCHANGED vars
  BY <1>1, StillStep DEF vars, screen, channel, IInv, Typed
<1>2. CASE Next
  BY <1>2, LoadStep, LoopStep, KeyStep, ReceiveStep, TickStep, WriteStep, FailStep,
     AnnounceStep, ChainStep DEF Next
<1> QED
  BY <1>1, <1>2

\* A fetch is under way for a screen only while that screen is there: push,
\* replace and pop cancel what they leave, whoever else asks meanwhile.
THEOREM WorkEndsWithTheScreen == Spec => []WorkIsForTheScreen
<1>1. IInv => WorkIsForTheScreen
  BY DEF IInv
<1> QED
  BY <1>1, Initially, Inductive, PTL DEF Spec

\* "Refreshing..." is about a refresh that goes on, or whose end is queued.
THEOREM MessagesAreTrue == Spec => []MessageIsTrue
<1>1. IInv => MessageIsTrue
  BY DEF IInv
<1> QED
  BY <1>1, Initially, Inductive, PTL DEF Spec

\* A page older than the cache has the event that reloads it on its way.
THEOREM ScreensAreReloaded == Spec => []NeverBehind
<1>1. IInv => NeverBehind
  BY DEF IInv
<1> QED
  BY <1>1, Initially, Inductive, PTL DEF Spec
=============================================================================
