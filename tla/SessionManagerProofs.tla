------------------------- MODULE SessionManagerProofs -------------------------
(***************************************************************************)
(* Proofs about SessionManager, for every set of sessions and of devices   *)
(* and every bound on the finished sessions that are kept; and that it is  *)
(* implemented by ChannelRelay, for every set of browsers.                 *)
(***************************************************************************)
EXTENDS ChannelRelay, FiniteSetTheorems, TLAPS

-----------------------------------------------------------------------------
(* Type correctness.                                                        *)

(* What _retire_session does to the registry: a claim changes only if the   *)
(* retired session held it, and only finished sessions are pruned.          *)
LEMMA Retired ==
    ASSUME TypeOK, NEW s \in Sessions, Retire(s)
    PROVE  /\ claim' \in [Serials -> Sessions \cup {NoSession}]
           /\ kept' \subseteq Sessions
           /\ \A x \in kept : state'[x] \notin Terminal => x \in kept'
           /\ \A x \in Sessions, p \in Serials : x # s /\ claim[p] = x => claim'[p] = x
<1>1. claim' \in [Serials -> Sessions \cup {NoSession}]
    BY DEF TypeOK, Retire
<1>2. \A x \in Sessions, p \in Serials : x # s /\ claim[p] = x => claim'[p] = x
    BY DEF TypeOK, Retire
<1>3. PICK gone \in SUBSET {x \in kept : state'[x] \in Terminal} : kept' = kept \ gone
    BY DEF Retire, Prune
<1> QED
    BY <1>1, <1>2, <1>3 DEF TypeOK

(* The registry after stop_session, or a failed start, has returned.        *)
LEMMA ReturnTypes ==
    ASSUME TypeOK, NEW s \in Sessions, NEW w \in Cleaners, Returns(s, w)
    PROVE  /\ state' \in [Sessions -> Active \cup Terminal \cup {"absent", "stopping"}]
           /\ claim' \in [Serials -> Sessions \cup {NoSession}]
           /\ kept' \subseteq Sessions
           /\ UNCHANGED <<serial, reason>>
<1>1. Retire(s)
    BY DEF Returns
<1>2. state' \in [Sessions -> Active \cup Terminal \cup {"absent", "stopping"}]
    BY DEF Returns, TypeOK, Terminal
<1> QED
    BY <1>1, <1>2, Retired DEF Returns

(* A coroutine of a session moves on inside a clean-up.                     *)
LEMMA CleaningTypes ==
    ASSUME TypeOK, NEW s \in Sessions, NEW w \in Cleaners, NEW place \in CleanPlaces,
           GoClean(s, w, place)
    PROVE  cleaning' \in [Sessions -> [Cleaners -> CleanPlaces]]
<1>1. [cleaning[s] EXCEPT ![w] = place] \in [Cleaners -> CleanPlaces]
    BY DEF TypeOK
<1>2. cleaning' = [cleaning EXCEPT ![s] = [cleaning[s] EXCEPT ![w] = place]]
    BY DEF GoClean, TypeOK
<1> QED
    BY <1>1, <1>2 DEF TypeOK

(* stop_session of an active session begins.                                *)
LEMMA BeginTypes ==
    ASSUME TypeOK, NEW s \in Sessions, NEW w \in Stoppers, BeginStop(s, w)
    PROVE  /\ state' \in [Sessions -> Active \cup Terminal \cup {"absent", "stopping"}]
           /\ reason' \in [Sessions -> Cleaners \cup {"none"}]
           /\ cleaning' \in [Sessions -> [Cleaners -> CleanPlaces]]
           /\ UNCHANGED <<serial, kept, claim>>
<1>1. w \in Cleaners /\ "forward" \in CleanPlaces
    BY DEF Cleaners, CleanPlaces
<1>2. GoClean(s, w, "forward")
    BY DEF BeginStop
<1>3. cleaning' \in [Sessions -> [Cleaners -> CleanPlaces]]
    BY <1>1, <1>2, CleaningTypes
<1> QED
    BY <1>1, <1>3 DEF BeginStop, TypeOK

LEMMA TypeInit == Init => TypeOK
<1> SUFFICES ASSUME Init
             PROVE  TypeOK
    OBVIOUS
<1>1. cleaning \in [Sessions -> [Cleaners -> CleanPlaces]]
    <2>1. [w \in Cleaners |-> "idle"] \in [Cleaners -> CleanPlaces]
        BY DEF CleanPlaces
    <2> QED
        BY <2>1 DEF Init
<1>2. starter \in [Sessions -> StarterPlaces]
    BY DEF Init, StarterPlaces
<1>3. state \in [Sessions -> Active \cup Terminal \cup {"absent", "stopping"}]
    BY DEF Init
<1>4. reason \in [Sessions -> Cleaners \cup {"none"}]
    BY DEF Init
<1>5. /\ serial \in [Sessions -> Serials \cup {NoSerial}]
      /\ claim \in [Serials -> Sessions \cup {NoSession}]
      /\ server \in [Sessions -> {"none", "alive", "exited"}]
      /\ watch \in [Sessions -> {"none", "waiting", "drain", "done"}]
    BY DEF Init
<1> QED
    BY <1>1, <1>2, <1>3, <1>4, <1>5 DEF Init, TypeOK

LEMMA StarterTypes ==
    ASSUME TypeOK, NEW s \in Sessions, StarterStep(s)
    PROVE  TypeOK'
<1> USE DEF registryVars, resourceVars, loopVars, StarterPlaces
<1>1. CASE ServerPushed(s)
    BY <1>1 DEF ServerPushed, GoStart, TypeOK
<1>2. CASE ForwardCreated(s)
    BY <1>2 DEF ForwardCreated, GoStart, TypeOK
<1>3. CASE ServerSpawned(s)
    BY <1>3 DEF ServerSpawned, GoStart, TypeOK
<1>4. CASE FirstChannelConnected(s)
    BY <1>4 DEF FirstChannelConnected, GoStart, TypeOK
<1>5. CASE OtherChannelsConnected(s)
    BY <1>5 DEF OtherChannelsConnected, GoStart, TypeOK
<1>6. CASE SessionStarted(s)
    BY <1>6 DEF SessionStarted, GoStart, TypeOK, Active
<1>7. CASE StartFails(s)
    <2>1. "starter" \in Cleaners /\ "forward" \in CleanPlaces /\ "failed" \in Terminal
        BY DEF Cleaners, CleanPlaces, Terminal
    <2>2. cleaning' \in [Sessions -> [Cleaners -> CleanPlaces]]
        BY <1>7, <2>1, CleaningTypes DEF StartFails
    <2> QED
        BY <1>7, <2>1, <2>2 DEF StartFails, GoStart, TypeOK
<1> QED
    BY <1>1, <1>2, <1>3, <1>4, <1>5, <1>6, <1>7 DEF StarterStep

LEMMA CleanerTypes ==
    ASSUME TypeOK, NEW s \in Sessions, NEW w \in Cleaners, CleanerStep(s, w)
    PROVE  TypeOK'
<1> USE DEF registryVars, resourceVars, loopVars
<1>0. {"idle", "process", "drain", "watch"} \subseteq CleanPlaces
    BY DEF CleanPlaces
<1>1. CASE ForwardRemoved(s, w)
    <2>1. \E place \in CleanPlaces : GoClean(s, w, place)
        BY <1>0, <1>1 DEF ForwardRemoved
    <2>2. cleaning' \in [Sessions -> [Cleaners -> CleanPlaces]]
        BY <2>1, CleaningTypes
    <2>3. CASE watch[s] = "none"
        <3>1. Returns(s, w)
            BY <1>1, <2>3 DEF ForwardRemoved
        <3> QED
            BY <1>1, <2>2, <3>1, ReturnTypes DEF ForwardRemoved, TypeOK
    <2>4. CASE watch[s] # "none"
        BY <1>1, <2>2, <2>4 DEF ForwardRemoved, TypeOK
    <2> QED
        BY <2>3, <2>4
<1>2. CASE ServerEnded(s, w)
    <2>1. cleaning' \in [Sessions -> [Cleaners -> CleanPlaces]]
        BY <1>0, <1>2, CleaningTypes DEF ServerEnded
    <2> QED
        BY <1>2, <2>1 DEF ServerEnded, TypeOK
<1>3. CASE LogDrained(s, w)
    <2>1. watch' \in [Sessions -> {"none", "waiting", "drain", "done"}]
        BY <1>3 DEF LogDrained, WatchCancelled, TypeOK
    <2>2. cleaning' \in [Sessions -> [Cleaners -> CleanPlaces]]
        <3>1. CASE w = "watch"
            BY <1>0, <1>3, <3>1, CleaningTypes DEF LogDrained
        <3>2. CASE w # "watch"
            <4> DEFINE moved == [x \in Cleaners |->
                                  IF x = "watch" /\ WatchTorn(s) THEN "idle"
                                  ELSE IF x = w THEN "watch" ELSE cleaning[s][x]]
            <4>1. moved \in [Cleaners -> CleanPlaces]
                BY <1>0 DEF TypeOK
            <4>2. cleaning' = [cleaning EXCEPT ![s] = moved]
                BY <1>3, <3>2 DEF LogDrained, WatchCancelled
            <4> HIDE DEF moved
            <4> QED
                BY <4>1, <4>2 DEF TypeOK
        <3> QED
            BY <3>1, <3>2
    <2> QED
        BY <1>3, <2>1, <2>2 DEF LogDrained, TypeOK
<1>4. CASE CleanedUp(s, w)
    <2>1. cleaning' \in [Sessions -> [Cleaners -> CleanPlaces]]
        BY <1>0, <1>4, CleaningTypes DEF CleanedUp
    <2>2. Returns(s, w)
        BY <1>4 DEF CleanedUp
    <2>3. watch' \in [Sessions -> {"none", "waiting", "drain", "done"}]
        BY <1>4 DEF CleanedUp, WatchAfter, TypeOK
    <2> QED
        BY <1>4, <2>1, <2>2, <2>3, ReturnTypes DEF CleanedUp, TypeOK
<1> QED
    BY <1>1, <1>2, <1>3, <1>4 DEF CleanerStep

LEMMA WatchTypes ==
    ASSUME TypeOK, NEW s \in Sessions, WatchStep(s)
    PROVE  TypeOK'
<1> USE DEF registryVars, resourceVars, loopVars
<1>1. CASE WatchWakes(s)
    BY <1>1 DEF WatchWakes, TypeOK
<1>2. CASE WatchDecides(s)
    <2>1. CASE state[s] \in Active /\ s \in kept
        <3>1. BeginStop(s, "watch") /\ "watch" \in Stoppers
            BY <1>2, <2>1 DEF WatchDecides, Stoppers
        <3> QED
            BY <1>2, <2>1, <3>1, BeginTypes DEF WatchDecides, TypeOK
    <2>2. CASE state[s] \in Active /\ s \notin kept
        <3>1. Retire(s)
            BY <1>2, <2>2 DEF WatchDecides
        <3>2. state' \in [Sessions -> Active \cup Terminal \cup {"absent", "stopping"}]
            BY <1>2, <2>2 DEF WatchDecides, TypeOK, Terminal
        <3> QED
            BY <1>2, <2>2, <3>1, <3>2, Retired DEF WatchDecides, TypeOK
    <2>3. CASE state[s] \notin Active
        BY <1>2, <2>3 DEF WatchDecides, TypeOK
    <2> QED
        BY <2>1, <2>2, <2>3
<1> QED
    BY <1>1, <1>2 DEF WatchStep

LEMMA StopNextTypes ==
    ASSUME TypeOK, NEW s \in Sessions, NEW w \in Stoppers, StopNext(s, w),
           process' \in {"up", "closing", "stopping", "down"}
    PROVE  TypeOK'
<1> USE DEF registryVars, resourceVars
<1>1. todo' \subseteq Sessions
    BY DEF StopNext, TypeOK
<1>2. CASE s \in kept /\ state[s] \in Active
    <2>1. BeginStop(s, w)
        BY <1>2 DEF StopNext
    <2> QED
        BY <1>1, <2>1, BeginTypes DEF StopNext, TypeOK
<1>3. CASE ~(s \in kept /\ state[s] \in Active)
    BY <1>1, <1>3 DEF StopNext, TypeOK
<1> QED
    BY <1>2, <1>3

LEMMA LoopTypes ==
    ASSUME TypeOK, LoopStep
    PROVE  TypeOK'
<1> USE DEF registryVars, resourceVars
<1>0. {"monitor", "close"} \subseteq Stoppers
    BY DEF Stoppers
<1>1. CASE MonitorLists
    BY <1>1 DEF MonitorLists, TypeOK
<1>2. ASSUME NEW s \in Sessions, MonitorStops(s)
      PROVE  TypeOK'
    BY <1>0, <1>2, StopNextTypes DEF MonitorStops, TypeOK
<1>3. CASE CloseLists
    BY <1>3 DEF CloseLists, TypeOK
<1>4. ASSUME NEW s \in Sessions, CloseStops(s)
      PROVE  TypeOK'
    BY <1>0, <1>4, StopNextTypes DEF CloseStops, TypeOK
<1>5. CASE CloseReturns
    BY <1>5 DEF CloseReturns, TypeOK
<1> QED
    BY <1>1, <1>2, <1>3, <1>4, <1>5 DEF LoopStep

LEMMA TypeStep == TypeOK /\ [Next]_vars => TypeOK'
<1> SUFFICES ASSUME TypeOK, [Next]_vars
             PROVE  TypeOK'
    OBVIOUS
<1> USE DEF registryVars, resourceVars, loopVars
<1>1. ASSUME NEW s \in Sessions, NEW p \in Serials, StartSession(s, p)
      PROVE  TypeOK'
    BY <1>1 DEF StartSession, GoStart, TypeOK, Active, StarterPlaces
<1>2. ASSUME NEW s \in Sessions, ClientStops(s)
      PROVE  TypeOK'
    <2>1. BeginStop(s, "client") /\ "client" \in Stoppers
        BY <1>2 DEF ClientStops, Stoppers
    <2> QED
        BY <1>2, <2>1, BeginTypes DEF ClientStops, TypeOK
<1>3. ASSUME NEW s \in Sessions, ServerExits(s)
      PROVE  TypeOK'
    BY <1>3 DEF ServerExits, TypeOK
<1>4. ASSUME NEW p \in Serials, DeviceChanges(p)
      PROVE  TypeOK'
    BY <1>4 DEF DeviceChanges, TypeOK
<1>5. CASE Close
    <2>1. \A s \in Sessions : [cleaning[s] EXCEPT !["monitor"] = "idle"] \in [Cleaners -> CleanPlaces]
        BY DEF TypeOK, CleanPlaces
    <2>2. cleaning' \in [Sessions -> [Cleaners -> CleanPlaces]]
        <3>1. CASE \E s \in Sessions : cleaning[s]["monitor"] = "drain"
            BY <1>5, <3>1 DEF Close, TypeOK
        <3>2. CASE ~\E s \in Sessions : cleaning[s]["monitor"] = "drain"
            BY <1>5, <2>1, <3>2 DEF Close
        <3> QED
            BY <3>1, <3>2
    <2> QED
        BY <1>5, <2>2 DEF Close, TypeOK
<1>6. CASE UNCHANGED vars
    BY <1>6 DEF vars, TypeOK
<1> QED
    BY <1>1, <1>2, <1>3, <1>4, <1>5, <1>6, StarterTypes, CleanerTypes, WatchTypes, LoopTypes
    DEF Next

(* Every variable keeps its type, whatever overlaps.                        *)
THEOREM SessionTypes == Spec => []TypeOK
<1>1. Init => TypeOK
    BY TypeInit
<1>2. TypeOK /\ [Next]_vars => TypeOK'
    BY TypeStep
<1> QED
    BY <1>1, <1>2, PTL DEF Spec

-----------------------------------------------------------------------------
(* The claim of a session.  ClaimHeld is not inductive: that a session is   *)
(* RUNNING with no stop asked for must follow from its start having found   *)
(* it untouched, and a coroutine that is about to retire a session must be  *)
(* known to have left its reason there.                                     *)

Claimed(s) ==
    state[s] \in Active /\ reason[s] = "none" =>
        s \in kept /\ serial[s] \in Serials /\ claim[serial[s]] = s

StartUntouched(s) == Starting(s) /\ reason[s] = "none" => state[s] = "starting"

ReasonLeft(s) == \A w \in Cleaners : CleanedBy(s, w) => reason[s] # "none"

ClaimInv ==
    /\ TypeOK
    /\ \A s \in Sessions : Claimed(s) /\ StartUntouched(s) /\ ReasonLeft(s)

(* A step that keeps the registry, and moves no start into another state.   *)
LEMMA RegistryKept ==
    ASSUME ClaimInv, TypeOK', UNCHANGED registryVars,
           \A x \in Sessions : starter'[x] # "none" => Starting(x),
           \A x \in Sessions, w \in Cleaners : cleaning'[x][w] # "idle" => CleanedBy(x, w)
    PROVE  ClaimInv'
BY DEF ClaimInv, Claimed, StartUntouched, ReasonLeft, Starting, CleanedBy, registryVars

(* Retiring a session somebody stopped leaves the claims of the others.     *)
LEMMA ReturnKeeps ==
    ASSUME ClaimInv, TypeOK', NEW s \in Sessions, Retire(s), reason[s] # "none",
           state' = state \/ \E new : state' = [state EXCEPT ![s] = new],
           UNCHANGED <<serial, reason, starter>>,
           \A x \in Sessions, w \in Cleaners : cleaning'[x][w] # "idle" => CleanedBy(x, w)
    PROVE  ClaimInv'
<1>1. TypeOK
    BY DEF ClaimInv
<1>2. /\ \A x \in kept : state'[x] \notin Terminal => x \in kept'
      /\ \A x \in Sessions, p \in Serials : x # s /\ claim[p] = x => claim'[p] = x
    BY <1>1, Retired
<1> SUFFICES ASSUME NEW x \in Sessions
             PROVE  Claimed(x)' /\ StartUntouched(x)' /\ ReasonLeft(x)'
    BY DEF ClaimInv
<1>3. ReasonLeft(x)'
    BY DEF ClaimInv, ReasonLeft, CleanedBy
<1>4. CASE x = s
    BY <1>3, <1>4 DEF Claimed, StartUntouched
<1>5. CASE x # s
    <2>1. state'[x] = state[x]
        BY <1>1, <1>5 DEF TypeOK
    <2>2. Active \cap Terminal = {}
        BY DEF Active, Terminal
    <2> QED
        BY <1>2, <1>3, <1>5, <2>1, <2>2 DEF ClaimInv, Claimed, StartUntouched, Starting
<1> QED
    BY <1>4, <1>5

(* A stop leaves its reason before anything else.                           *)
LEMMA BeginKeeps ==
    ASSUME ClaimInv, TypeOK', NEW s \in Sessions, NEW w \in Stoppers, BeginStop(s, w),
           UNCHANGED starter
    PROVE  ClaimInv'
<1>1. TypeOK /\ w # "none"
    BY DEF ClaimInv, Stoppers
<1>2. reason'[s] # "none" /\ state'[s] \notin Active
    BY <1>1 DEF BeginStop, TypeOK, Active
<1> SUFFICES ASSUME NEW x \in Sessions
             PROVE  Claimed(x)' /\ StartUntouched(x)' /\ ReasonLeft(x)'
    BY DEF ClaimInv
<1>3. CASE x = s
    BY <1>2, <1>3 DEF Claimed, StartUntouched, ReasonLeft
<1>4. CASE x # s
    <2>1. state'[x] = state[x] /\ reason'[x] = reason[x] /\ cleaning'[x] = cleaning[x]
        BY <1>1, <1>4 DEF BeginStop, GoClean, TypeOK
    <2> QED
        BY <2>1 DEF BeginStop, ClaimInv, Claimed, StartUntouched, ReasonLeft, Starting, CleanedBy
<1> QED
    BY <1>3, <1>4

LEMMA ClaimInit == Init => ClaimInv
<1> SUFFICES ASSUME Init
             PROVE  ClaimInv
    OBVIOUS
<1>1. \A s \in Sessions : state[s] \notin Active /\ ~Starting(s)
    BY DEF Init, Active, Starting
<1>2. \A s \in Sessions, w \in Cleaners : ~CleanedBy(s, w)
    BY DEF Init, CleanedBy
<1> QED
    BY <1>1, <1>2, TypeInit DEF ClaimInv, Claimed, StartUntouched, ReasonLeft

LEMMA StarterKeeps ==
    ASSUME ClaimInv, TypeOK', NEW s \in Sessions, StarterStep(s)
    PROVE  ClaimInv'
<1>0. TypeOK
    BY DEF ClaimInv
<1>1. CASE \/ ServerPushed(s)
           \/ ForwardCreated(s)
           \/ ServerSpawned(s)
           \/ FirstChannelConnected(s)
           \/ OtherChannelsConnected(s)
    <2>1. /\ Starting(s)
          /\ \E place : GoStart(s, place)
          /\ UNCHANGED <<registryVars, cleaning>>
        BY <1>1 DEF ServerPushed, ForwardCreated, ServerSpawned, FirstChannelConnected,
                    OtherChannelsConnected, Starting
    <2>2. \A x \in Sessions : starter'[x] # "none" => Starting(x)
        BY <1>0, <2>1 DEF GoStart, Starting, TypeOK
    <2> QED
        BY <2>1, <2>2, RegistryKept DEF CleanedBy
<1>2. CASE SessionStarted(s)
    <2>1. /\ state' = [state EXCEPT ![s] = "running"]
          /\ starter' = [starter EXCEPT ![s] = "none"]
          /\ UNCHANGED <<serial, reason, kept, claim, cleaning>>
          /\ Starting(s)
        BY <1>2 DEF SessionStarted, GoStart, Starting
    <2> SUFFICES ASSUME NEW x \in Sessions
                 PROVE  Claimed(x)' /\ StartUntouched(x)' /\ ReasonLeft(x)'
        BY DEF ClaimInv
    <2>2. ReasonLeft(x)'
        BY <2>1 DEF ClaimInv, ReasonLeft, CleanedBy
    <2>3. CASE x = s
        BY <1>0, <2>1, <2>2, <2>3
        DEF TypeOK, ClaimInv, Claimed, StartUntouched, Starting, Active
    <2>4. CASE x # s
        BY <1>0, <2>1, <2>2, <2>4 DEF TypeOK, ClaimInv, Claimed, StartUntouched, Starting
    <2> QED
        BY <2>3, <2>4
<1>3. CASE StartFails(s)
    <2>1. /\ state' = [state EXCEPT ![s] = "failed"]
          /\ reason' = [reason EXCEPT ![s] = "starter"]
          /\ starter' = [starter EXCEPT ![s] = "none"]
          /\ cleaning' = [cleaning EXCEPT ![s]["starter"] = "forward"]
          /\ UNCHANGED <<serial, kept, claim>>
        BY <1>3 DEF StartFails, GoStart, GoClean
    <2> SUFFICES ASSUME NEW x \in Sessions
                 PROVE  Claimed(x)' /\ StartUntouched(x)' /\ ReasonLeft(x)'
        BY DEF ClaimInv
    <2>2. CASE x = s
        BY <1>0, <2>1, <2>2 DEF TypeOK, Claimed, StartUntouched, ReasonLeft
    <2>3. CASE x # s
        <3>1. /\ state'[x] = state[x] /\ reason'[x] = reason[x]
              /\ starter'[x] = starter[x] /\ cleaning'[x] = cleaning[x]
            BY <1>0, <2>1, <2>3 DEF TypeOK
        <3> QED
            BY <2>1, <3>1
            DEF ClaimInv, Claimed, StartUntouched, ReasonLeft, Starting, CleanedBy
    <2> QED
        BY <2>2, <2>3
<1> QED
    BY <1>1, <1>2, <1>3 DEF StarterStep

LEMMA CleanerKeeps ==
    ASSUME ClaimInv, TypeOK', NEW s \in Sessions, NEW w \in Cleaners, CleanerStep(s, w)
    PROVE  ClaimInv'
<1>0. TypeOK
    BY DEF ClaimInv
<1>1. UNCHANGED starter /\ CleanedBy(s, w)
    BY DEF CleanerStep, ForwardRemoved, ServerEnded, LogDrained, CleanedUp, CleanedBy
<1>2. reason[s] # "none"
    BY <1>1 DEF ClaimInv, ReasonLeft
<1>3. \A x \in Sessions, v \in Cleaners : cleaning'[x][v] # "idle" => CleanedBy(x, v)
    <2>1. CASE \E place : GoClean(s, w, place)
        BY <1>0, <1>1, <2>1 DEF GoClean, CleanedBy, TypeOK
    <2>2. CASE WatchCancelled(s, w, WatchTorn(s))
        BY <1>0, <1>1, <2>2 DEF WatchCancelled, CleanedBy, TypeOK
    <2> QED
        BY <2>1, <2>2 DEF CleanerStep, ForwardRemoved, ServerEnded, LogDrained, CleanedUp
<1>4. CASE UNCHANGED registryVars
    BY <1>1, <1>3, <1>4, RegistryKept DEF Starting
<1>5. CASE Returns(s, w)
    BY <1>1, <1>2, <1>3, <1>5, ReturnKeeps DEF Returns
<1> QED
    BY <1>4, <1>5 DEF CleanerStep, ForwardRemoved, ServerEnded, LogDrained, CleanedUp

LEMMA WatchKeeps ==
    ASSUME ClaimInv, TypeOK', NEW s \in Sessions, WatchStep(s)
    PROVE  ClaimInv'
<1>1. UNCHANGED starter
    BY DEF WatchStep, WatchWakes, WatchDecides
<1>2. CASE UNCHANGED <<registryVars, cleaning>>
    BY <1>1, <1>2, RegistryKept DEF Starting, CleanedBy
<1>3. CASE BeginStop(s, "watch")
    BY <1>1, <1>3, BeginKeeps DEF Stoppers
<1>4. CASE WatchDecides(s) /\ state[s] \in Active /\ s \notin kept
    <2>1. reason[s] # "none"
        BY <1>4 DEF ClaimInv, Claimed
    <2> QED
        BY <1>1, <1>4, <2>1, ReturnKeeps DEF WatchDecides, CleanedBy
<1> QED
    BY <1>2, <1>3, <1>4 DEF WatchStep, WatchWakes, WatchDecides, registryVars

LEMMA StopNextKeeps ==
    ASSUME ClaimInv, TypeOK', NEW s \in Sessions, NEW w \in Stoppers, StopNext(s, w)
    PROVE  ClaimInv'
<1>1. UNCHANGED starter
    BY DEF StopNext
<1>2. CASE UNCHANGED <<registryVars, cleaning>>
    BY <1>1, <1>2, RegistryKept DEF Starting, CleanedBy
<1>3. CASE BeginStop(s, w)
    BY <1>1, <1>3, BeginKeeps
<1> QED
    BY <1>2, <1>3 DEF StopNext

(* A new session takes over only a claim that no session is up with.        *)
LEMMA StartKeeps ==
    ASSUME ClaimInv, TypeOK', NEW s \in Sessions, NEW p \in Serials, StartSession(s, p)
    PROVE  ClaimInv'
<1>0. TypeOK
    BY DEF ClaimInv
<1>1. /\ state' = [state EXCEPT ![s] = "starting"]
      /\ serial' = [serial EXCEPT ![s] = p]
      /\ kept' = kept \cup {s}
      /\ claim' = [claim EXCEPT ![p] = s]
      /\ starter' = [starter EXCEPT ![s] = "push"]
      /\ UNCHANGED <<reason, cleaning>>
    BY DEF StartSession, GoStart
<1> SUFFICES ASSUME NEW x \in Sessions
             PROVE  Claimed(x)' /\ StartUntouched(x)' /\ ReasonLeft(x)'
    BY DEF ClaimInv
<1>2. ReasonLeft(x)'
    BY <1>1 DEF ClaimInv, ReasonLeft, CleanedBy
<1>3. CASE x = s
    BY <1>0, <1>1, <1>2, <1>3 DEF TypeOK, Claimed, StartUntouched
<1>4. CASE x # s
    <2>1. state'[x] = state[x] /\ serial'[x] = serial[x] /\ starter'[x] = starter[x]
        BY <1>0, <1>1, <1>4 DEF TypeOK
    <2>2. StartUntouched(x)'
        BY <1>1, <2>1 DEF ClaimInv, StartUntouched, Starting
    <2>3. ASSUME state[x] \in Active, reason[x] = "none"
          PROVE  x \in kept' /\ serial[x] \in Serials /\ claim'[serial[x]] = x
        <3>1. x \in kept /\ serial[x] \in Serials /\ claim[serial[x]] = x
            BY <2>3 DEF ClaimInv, Claimed
        <3>2. serial[x] # p
            BY <2>3, <3>1 DEF StartSession
        <3> QED
            BY <1>0, <1>1, <3>1, <3>2 DEF TypeOK
    <2> QED
        BY <1>1, <1>2, <2>1, <2>2, <2>3 DEF Claimed
<1> QED
    BY <1>3, <1>4

LEMMA ClaimStep == ClaimInv /\ [Next]_vars => ClaimInv'
<1> SUFFICES ASSUME ClaimInv, [Next]_vars
             PROVE  ClaimInv'
    OBVIOUS
<1>0. TypeOK /\ TypeOK'
    BY TypeStep DEF ClaimInv
<1>1. ASSUME NEW s \in Sessions, NEW p \in Serials, StartSession(s, p)
      PROVE  ClaimInv'
    BY <1>0, <1>1, StartKeeps
<1>2. ASSUME NEW s \in Sessions, ClientStops(s)
      PROVE  ClaimInv'
    BY <1>0, <1>2, BeginKeeps DEF ClientStops, Stoppers
<1>3. ASSUME NEW s \in Sessions, ServerExits(s)
      PROVE  ClaimInv'
    BY <1>0, <1>3, RegistryKept DEF ServerExits, Starting, CleanedBy
<1>4. ASSUME NEW p \in Serials, DeviceChanges(p)
      PROVE  ClaimInv'
    BY <1>0, <1>4, RegistryKept DEF DeviceChanges, Starting, CleanedBy
<1>5. CASE LoopStep
    <2>1. ASSUME NEW s \in Sessions, MonitorStops(s)
          PROVE  ClaimInv'
        BY <1>0, <2>1, StopNextKeeps DEF MonitorStops, Stoppers
    <2>2. ASSUME NEW s \in Sessions, CloseStops(s)
          PROVE  ClaimInv'
        BY <1>0, <2>2, StopNextKeeps DEF CloseStops, Stoppers
    <2>3. CASE MonitorLists \/ CloseLists \/ CloseReturns
        BY <1>0, <2>3, RegistryKept DEF MonitorLists, CloseLists, CloseReturns, Starting, CleanedBy
    <2> QED
        BY <1>5, <2>1, <2>2, <2>3 DEF LoopStep
<1>6. CASE Close
    <2>1. \A x \in Sessions, w \in Cleaners : cleaning'[x][w] # "idle" => CleanedBy(x, w)
        BY <1>0, <1>6 DEF Close, CleanedBy, TypeOK
    <2> QED
        BY <1>0, <1>6, <2>1, RegistryKept DEF Close, Starting
<1>7. CASE UNCHANGED vars
    BY <1>0, <1>7, RegistryKept DEF vars, registryVars, Starting, CleanedBy
<1> QED
    BY <1>0, <1>1, <1>2, <1>3, <1>4, <1>5, <1>6, <1>7, StarterKeeps, CleanerKeeps, WatchKeeps
    DEF Next

(* A session that is up and that nobody asked to stop is registered and     *)
(* holds the claim of its device, however stops, failed starts, the monitor *)
(* and the shutdown interleave (_retire_session, start_session).            *)
THEOREM ClaimsAreHeld == Spec => []ClaimHeld
<1>1. Init => ClaimInv
    BY ClaimInit
<1>2. ClaimInv /\ [Next]_vars => ClaimInv'
    BY ClaimStep
<1>3. ClaimInv => ClaimHeld
    BY DEF ClaimInv, Claimed, ClaimHeld
<1> QED
    BY <1>1, <1>2, <1>3, PTL DEF Spec

(* Two sessions that are up and not asked to stop are of different devices: *)
(* scrcpy is never started twice on a device (the SessionConflictError of   *)
(* start_session).                                                          *)
OneSessionPerDevice ==
    \A s, t \in Sessions :
        /\ state[s] \in Active /\ reason[s] = "none"
        /\ state[t] \in Active /\ reason[t] = "none"
        /\ serial[s] = serial[t]
        => s = t

(* No two sessions that are up and not asked to stop share a device.        *)
THEOREM DevicesAreNotShared == Spec => []OneSessionPerDevice
<1>1. ClaimHeld => OneSessionPerDevice
    BY DEF ClaimHeld, OneSessionPerDevice
<1> QED
    BY <1>1, ClaimsAreHeld, PTL

-----------------------------------------------------------------------------
(* The backlog of finished sessions.  BacklogBounded is inductive with the  *)
(* types: a step either prunes, or adds nothing to the backlog.             *)

(* A smaller backlog is within the bound too.                               *)
LEMMA BacklogShrinks ==
    ASSUME TypeOK, BacklogBounded, Backlog' \subseteq Backlog
    PROVE  BacklogBounded'
<1>1. IsFiniteSet(Backlog)
    BY SessionAssumption, FS_Subset DEF TypeOK, Backlog
<1>2. IsFiniteSet(Backlog') /\ Cardinality(Backlog') <= Cardinality(Backlog)
    BY <1>1, FS_Subset
<1>3. Cardinality(Backlog) \in Nat /\ Cardinality(Backlog') \in Nat
    BY <1>1, <1>2, FS_CardinalityType
<1>4. MaxRetained \in Nat /\ Cardinality(Backlog) <= MaxRetained
    BY SessionAssumption DEF BacklogBounded
<1>5. Cardinality(Backlog') <= MaxRetained
    BY <1>2, <1>3, <1>4
<1> QED
    BY <1>5 DEF BacklogBounded

(* Whoever retires a session leaves a backlog within the bound.             *)
LEMMA RetiringPrunes ==
    ASSUME TypeOK, TypeOK', NEW s \in Sessions, Retire(s)
    PROVE  BacklogBounded'
<1> DEFINE over == {x \in kept : state'[x] \in Terminal}
<1>1. PICK gone \in SUBSET over :
          /\ IF Cardinality(over) <= MaxRetained
             THEN gone = {}
             ELSE Cardinality(over \ gone) = MaxRetained
          /\ kept' = kept \ gone
    BY DEF Retire, Prune
<1>2. Backlog' \subseteq over \ gone
    BY <1>1 DEF Backlog
<1>3. Cardinality(over \ gone) <= MaxRetained
    <2> HIDE DEF over
    <2>0. MaxRetained \in Nat
        BY SessionAssumption
    <2>1. CASE Cardinality(over) <= MaxRetained
        <3>1. gone = {}
            BY <1>1, <2>1
        <3>2. over \ gone = over
            BY <3>1
        <3> QED
            BY <2>1, <3>2
    <2>2. CASE ~(Cardinality(over) <= MaxRetained)
        BY <1>1, <2>0, <2>2
    <2> QED
        BY <2>1, <2>2
<1>4. IsFiniteSet(over \ gone)
    <2>1. over \ gone \subseteq Sessions
        BY DEF TypeOK
    <2> QED
        BY <2>1, SessionAssumption, FS_Subset
<1>5. IsFiniteSet(Backlog') /\ Cardinality(Backlog') <= Cardinality(over \ gone)
    BY <1>2, <1>4, FS_Subset
<1>6. Cardinality(over \ gone) \in Nat /\ Cardinality(Backlog') \in Nat
    BY <1>4, <1>5, FS_CardinalityType
<1>7. Cardinality(Backlog') <= MaxRetained
    <2> DEFINE rest == over \ gone
    <2>1. /\ MaxRetained \in Nat
          /\ Cardinality(rest) \in Nat /\ Cardinality(Backlog') \in Nat
          /\ Cardinality(rest) <= MaxRetained /\ Cardinality(Backlog') <= Cardinality(rest)
        BY <1>3, <1>5, <1>6, SessionAssumption
    <2> HIDE DEF rest
    <2> QED
        BY <2>1
<1> QED
    BY <1>7 DEF BacklogBounded

LEMMA BacklogStep == TypeOK /\ BacklogBounded /\ [Next]_vars => BacklogBounded'
<1> SUFFICES ASSUME TypeOK, BacklogBounded, [Next]_vars
             PROVE  BacklogBounded'
    OBVIOUS
<1>0. TypeOK'
    BY TypeStep
<1>1. ASSUME NEW s \in Sessions, Retire(s)
      PROVE  BacklogBounded'
    BY <1>0, <1>1, RetiringPrunes
<1>2. CASE /\ UNCHANGED <<state, kept>>
           /\ \A x \in Sessions : CleanedBy(x, "starter") => CleanedBy(x, "starter")'
    <2>1. Backlog' \subseteq Backlog
        BY <1>2 DEF Backlog, TypeOK
    <2> QED
        BY <2>1, BacklogShrinks
<1>3. ASSUME NEW s \in Sessions, NEW w \in Stoppers, BeginStop(s, w)
      PROVE  BacklogBounded'
    <2>1. "stopping" \notin Terminal /\ w # "starter"
        BY DEF Terminal, Stoppers
    <2>2. \A x \in Sessions : cleaning'[x]["starter"] = cleaning[x]["starter"]
        BY <1>3, <2>1 DEF BeginStop, GoClean, TypeOK, Cleaners
    <2>3. \A x \in Sessions : state'[x] \in Terminal => state'[x] = state[x]
        BY <1>3, <2>1 DEF BeginStop, TypeOK
    <2>4. kept' = kept
        BY <1>3 DEF BeginStop
    <2>5. Backlog' \subseteq Backlog
        BY <2>2, <2>3, <2>4 DEF Backlog, CleanedBy, TypeOK
    <2> QED
        BY <2>5, BacklogShrinks
<1>4. ASSUME NEW s \in Sessions, NEW p \in Serials, StartSession(s, p)
      PROVE  BacklogBounded'
    <2>1. state'[s] \notin Terminal /\ \A x \in Sessions : x # s => state'[x] = state[x]
        BY <1>4 DEF StartSession, TypeOK, Terminal
    <2>2. Backlog' \subseteq Backlog
        BY <1>4, <2>1 DEF StartSession, Backlog, CleanedBy, TypeOK
    <2> QED
        BY <2>2, BacklogShrinks
<1>5. ASSUME NEW s \in Sessions, SessionStarted(s)
      PROVE  BacklogBounded'
    <2>1. state'[s] \notin Terminal /\ \A x \in Sessions : x # s => state'[x] = state[x]
        BY <1>5 DEF SessionStarted, TypeOK, Terminal
    <2>2. Backlog' \subseteq Backlog
        BY <1>5, <2>1 DEF SessionStarted, Backlog, CleanedBy, TypeOK
    <2> QED
        BY <2>2, BacklogShrinks
<1>6. ASSUME NEW s \in Sessions, StartFails(s)
      PROVE  BacklogBounded'
    <2>1. /\ cleaning'[s]["starter"] = "forward"
          /\ \A x \in Sessions : x # s => state'[x] = state[x] /\ cleaning'[x] = cleaning[x]
        BY <1>6 DEF StartFails, GoClean, TypeOK, Cleaners
    <2>2. kept' = kept
        BY <1>6 DEF StartFails
    <2>3. Backlog' \subseteq Backlog
        BY <2>1, <2>2 DEF Backlog, CleanedBy, TypeOK
    <2> QED
        BY <2>3, BacklogShrinks
<1>7. ASSUME NEW s \in Sessions, StarterStep(s)
      PROVE  BacklogBounded'
    BY <1>2, <1>5, <1>6, <1>7
    DEF StarterStep, ServerPushed, ForwardCreated, ServerSpawned, FirstChannelConnected,
        OtherChannelsConnected, registryVars, CleanedBy
<1>8. ASSUME NEW s \in Sessions, NEW w \in Cleaners, CleanerStep(s, w)
      PROVE  BacklogBounded'
    <2>1. CASE Returns(s, w)
        BY <1>1, <2>1 DEF Returns
    <2>2. CASE UNCHANGED registryVars /\ \E place \in CleanPlaces \ {"idle"} : GoClean(s, w, place)
        <3>1. \A x \in Sessions : CleanedBy(x, "starter") => CleanedBy(x, "starter")'
            BY <2>2 DEF GoClean, CleanedBy, TypeOK, Cleaners
        <3> QED
            BY <1>2, <2>2, <3>1 DEF registryVars
    <2>3. CASE UNCHANGED registryVars /\ \E torn \in BOOLEAN : WatchCancelled(s, w, torn)
        <3>1. \A x \in Sessions : CleanedBy(x, "starter") => CleanedBy(x, "starter")'
            BY <2>3 DEF WatchCancelled, CleanedBy, TypeOK, Cleaners
        <3> QED
            BY <1>2, <2>3, <3>1 DEF registryVars
    <2>4. WatchTorn(s) \in BOOLEAN /\ {"process", "drain", "watch"} \subseteq CleanPlaces \ {"idle"}
        BY DEF WatchTorn, CleanPlaces
    <2> QED
        BY <1>8, <2>1, <2>2, <2>3, <2>4
        DEF CleanerStep, ForwardRemoved, ServerEnded, LogDrained, CleanedUp
<1>9. ASSUME NEW s \in Sessions, WatchStep(s)
      PROVE  BacklogBounded'
    <2>1. CASE BeginStop(s, "watch")
        BY <1>3, <2>1 DEF Stoppers
    <2>2. CASE Retire(s)
        BY <1>1, <2>2
    <2> QED
        BY <1>2, <1>9, <2>1, <2>2
        DEF WatchStep, WatchWakes, WatchDecides, registryVars, CleanedBy
<1>10. ASSUME NEW s \in Sessions, NEW w \in Stoppers, StopNext(s, w)
       PROVE  BacklogBounded'
    BY <1>2, <1>3, <1>10 DEF StopNext, registryVars, CleanedBy
<1>11. CASE LoopStep
    BY <1>2, <1>10, <1>11
    DEF LoopStep, MonitorLists, MonitorStops, CloseLists, CloseStops, CloseReturns, Stoppers,
        registryVars, CleanedBy
<1>12. CASE Close
    <2>1. \A x \in Sessions : cleaning'[x]["starter"] = cleaning[x]["starter"]
        BY <1>12 DEF Close, TypeOK, Cleaners
    <2> QED
        BY <1>2, <1>12, <2>1 DEF Close, registryVars, CleanedBy
<1>13. CASE \/ \E s \in Sessions : ClientStops(s) \/ ServerExits(s)
            \/ \E p \in Serials : DeviceChanges(p)
            \/ UNCHANGED vars
    BY <1>2, <1>3, <1>13
    DEF ClientStops, ServerExits, DeviceChanges, vars, Stoppers, registryVars, CleanedBy
<1> QED
    BY <1>4, <1>7, <1>8, <1>9, <1>11, <1>12, <1>13 DEF Next

(* The finished sessions that are kept are bounded, whoever finished them   *)
(* (_retire_session, _prune_terminated).                                    *)
THEOREM BacklogIsBounded == Spec => []BacklogBounded
<1>1. Init => TypeOK /\ BacklogBounded
    <2> SUFFICES ASSUME Init
                 PROVE  TypeOK /\ BacklogBounded
        OBVIOUS
    <2>1. Backlog = {}
        BY DEF Init, Backlog
    <2>2. Cardinality(Backlog) = 0
        BY <2>1, FS_EmptySet
    <2>3. MaxRetained \in Nat
        BY SessionAssumption
    <2> QED
        BY <2>2, <2>3, TypeInit DEF BacklogBounded
<1>2. TypeOK /\ BacklogBounded /\ [Next]_vars => (TypeOK /\ BacklogBounded)'
    BY TypeStep, BacklogStep
<1> QED
    BY <1>1, <1>2, PTL DEF Spec

-----------------------------------------------------------------------------
(* The resources of a session.  NothingLeft is not inductive: that whoever  *)
(* finished a session has released what its start had created must follow   *)
(* from where that clean-up stands, and that nothing was created behind its *)
(* back from where the start stands.                                        *)

Gone(s) == s \notin forward /\ server[s] # "alive"

(* Every clean-up of the session is still before its first await.           *)
Entering(s) == \A w \in Cleaners : cleaning[s][w] \in {"idle", "forward"}

Untouched(s) ==
    state[s] = "absent" =>
        /\ s \notin forward /\ server[s] = "none" /\ watch[s] = "none" /\ starter[s] = "none"
        /\ \A w \in Cleaners : ~CleanedBy(s, w)

BeforeServer(s) ==
    starter[s] \in {"push", "forward", "spawn"} =>
        server[s] = "none" /\ watch[s] = "none" /\ Entering(s)

ServerOwned(s) == server[s] = "alive" => s \in attached /\ watch[s] # "none"

Releasing(s) ==
    \A w \in Cleaners :
        /\ cleaning[s][w] \in {"process", "drain", "watch"} => s \notin forward
        /\ cleaning[s][w] \in {"drain", "watch"} => server[s] # "alive"

Released(s) ==
    s \in kept /\ state[s] \in Terminal /\ ~Starting(s) /\ ~CleanedBy(s, "starter") => Gone(s)

Tidy(s) == Untouched(s) /\ BeforeServer(s) /\ ServerOwned(s) /\ Releasing(s) /\ Released(s)

TidyInv == TypeOK /\ \A s \in Sessions : Tidy(s)

(* A session that a step does not touch stays tidy; being pruned is no      *)
(* harm.                                                                    *)
SameSession(x) ==
    /\ state'[x] = state[x] /\ starter'[x] = starter[x] /\ server'[x] = server[x]
    /\ watch'[x] = watch[x] /\ cleaning'[x] = cleaning[x]
    /\ x \in forward' <=> x \in forward
    /\ x \in attached' <=> x \in attached
    /\ x \in kept' => x \in kept

LEMMA SameIsTidy ==
    ASSUME NEW x \in Sessions, Tidy(x), SameSession(x)
    PROVE  Tidy(x)'
BY DEF Tidy, SameSession, Untouched, BeforeServer, ServerOwned, Releasing, Released, Gone,
       Entering, CleanedBy, Starting

(* Retiring never registers a session.                                      *)
LEMMA RetiringForgets ==
    ASSUME NEW s \in Sessions, Retire(s)
    PROVE  kept' \subseteq kept
BY DEF Retire, Prune

LEMMA TidyStarter ==
    ASSUME TidyInv, TypeOK', NEW s \in Sessions, StarterStep(s)
    PROVE  \A x \in Sessions : Tidy(x)'
<1>0. TypeOK /\ Tidy(s)
    BY DEF TidyInv
<1> USE DEF registryVars, resourceVars, loopVars
<1>1. ASSUME NEW x \in Sessions, x # s
      PROVE  SameSession(x)
    BY <1>0, <1>1
    DEF SameSession, StarterStep, ServerPushed, ForwardCreated, ServerSpawned,
        FirstChannelConnected, OtherChannelsConnected, SessionStarted, StartFails, GoStart,
        GoClean, TypeOK
<1>2. ASSUME NEW x \in Sessions, x # s
      PROVE  Tidy(x)'
    BY <1>1, <1>2, SameIsTidy DEF TidyInv
<1>3. Tidy(s)'
    <2> USE DEF Tidy, Untouched, BeforeServer, ServerOwned, Releasing, Released, Gone, Entering,
                CleanedBy, Starting
    <2>1. CASE ServerPushed(s)
        BY <1>0, <2>1 DEF ServerPushed, GoStart, TypeOK
    <2>2. CASE ForwardCreated(s)
        BY <1>0, <2>2 DEF ForwardCreated, GoStart, TypeOK
    <2>3. CASE ServerSpawned(s)
        BY <1>0, <2>3 DEF ServerSpawned, GoStart, TypeOK
    <2>4. CASE FirstChannelConnected(s)
        BY <1>0, <2>4 DEF FirstChannelConnected, GoStart, TypeOK
    <2>5. CASE OtherChannelsConnected(s)
        BY <1>0, <2>5 DEF OtherChannelsConnected, GoStart, TypeOK
    <2>6. CASE SessionStarted(s)
        BY <1>0, <2>6 DEF SessionStarted, GoStart, TypeOK, Terminal
    <2>7. CASE StartFails(s)
        <3>1. /\ state'[s] = "failed" /\ starter'[s] = "none" /\ "starter" \in Cleaners
              /\ cleaning'[s]["starter"] = "forward"
              /\ \A w \in Cleaners : w # "starter" => cleaning'[s][w] = cleaning[s][w]
              /\ UNCHANGED <<forward, server, attached, watch, kept>>
            BY <1>0, <2>7 DEF StartFails, GoStart, GoClean, TypeOK, Cleaners
        <3>2. Untouched(s)' /\ BeforeServer(s)' /\ ServerOwned(s)' /\ Released(s)'
            BY <1>0, <3>1 DEF TypeOK
        <3>3. Releasing(s)'
            BY <1>0, <3>1
        <3> QED
            BY <3>2, <3>3
    <2> QED
        BY <2>1, <2>2, <2>3, <2>4, <2>5, <2>6, <2>7 DEF StarterStep
<1> QED
    BY <1>2, <1>3

LEMMA TidyCleaner ==
    ASSUME TidyInv, TypeOK', NEW s \in Sessions, NEW w \in Cleaners, CleanerStep(s, w)
    PROVE  \A x \in Sessions : Tidy(x)'
<1>0. TypeOK /\ Tidy(s)
    BY DEF TidyInv
<1> USE DEF registryVars, resourceVars, loopVars
<1>1. kept' \subseteq kept /\ UNCHANGED starter
    BY RetiringForgets
    DEF CleanerStep, ForwardRemoved, ServerEnded, LogDrained, CleanedUp, Returns
<1>2. ASSUME NEW x \in Sessions, x # s
      PROVE  Tidy(x)'
    <2>1. state'[x] = state[x]
        BY <1>0, <1>2
        DEF CleanerStep, ForwardRemoved, ServerEnded, LogDrained, CleanedUp, Returns, TypeOK
    <2>2. cleaning'[x] = cleaning[x]
        BY <1>0, <1>2
        DEF CleanerStep, ForwardRemoved, ServerEnded, LogDrained, CleanedUp, GoClean,
            WatchCancelled, TypeOK
    <2>3. server'[x] = server[x] /\ watch'[x] = watch[x]
        BY <1>0, <1>2
        DEF CleanerStep, ForwardRemoved, ServerEnded, LogDrained, CleanedUp, WatchCancelled,
            WatchAfter, TypeOK
    <2>4. (x \in forward' <=> x \in forward) /\ (x \in attached' <=> x \in attached)
        BY <1>2 DEF CleanerStep, ForwardRemoved, ServerEnded, LogDrained, CleanedUp
    <2> QED
        BY <1>1, <2>1, <2>2, <2>3, <2>4, SameIsTidy DEF SameSession, TidyInv
<1>3. state[s] # "absent" /\ CleanedBy(s, w)
    BY <1>0
    DEF CleanerStep, ForwardRemoved, ServerEnded, LogDrained, CleanedUp, CleanedBy, Tidy,
        Untouched
<1>4. Tidy(s)'
    <2>1. CASE ForwardRemoved(s, w)
        <3>1. s \notin forward' /\ UNCHANGED <<server, attached, watch>>
            BY <2>1 DEF ForwardRemoved
        <3>2. CASE watch[s] = "none"
            <4>1. /\ \A v \in Cleaners : cleaning'[s][v] = IF v = w THEN "idle" ELSE cleaning[s][v]
                  /\ Returns(s, w)
                BY <1>0, <2>1, <3>2 DEF ForwardRemoved, GoClean, TypeOK
            <4>2. state'[s] # "absent"
                BY <1>0, <1>3, <4>1 DEF Returns, TypeOK
            <4>3. server[s] # "alive"
                BY <1>0, <3>2 DEF Tidy, ServerOwned
            <4> QED
                BY <1>0, <1>1, <3>1, <4>1, <4>2, <4>3
                DEF Tidy, Untouched, BeforeServer, ServerOwned, Releasing, Released, Gone,
                    Entering, CleanedBy, Starting
        <3>3. CASE watch[s] # "none"
            <4>1. /\ cleaning'[s][w] \in {"process", "drain"}
                  /\ cleaning'[s][w] = "drain" => ~(s \in attached /\ server[s] = "alive")
                  /\ \A v \in Cleaners : v # w => cleaning'[s][v] = cleaning[s][v]
                  /\ UNCHANGED registryVars
                BY <1>0, <2>1, <3>3 DEF ForwardRemoved, GoClean, TypeOK
            <4>2. Untouched(s)' /\ BeforeServer(s)' /\ ServerOwned(s)'
                BY <1>0, <1>1, <1>3, <3>1, <3>3, <4>1
                DEF Tidy, Untouched, BeforeServer, ServerOwned
            <4>3. Releasing(s)'
                BY <1>0, <3>1, <3>3, <4>1 DEF Tidy, Releasing, ServerOwned
            <4>4. CleanedBy(s, "starter")' <=> CleanedBy(s, "starter")
                <5>1. CASE w = "starter"
                    BY <1>3, <4>1, <5>1 DEF CleanedBy
                <5>2. CASE w # "starter"
                    BY <4>1, <5>2 DEF CleanedBy, Cleaners
                <5> QED
                    BY <5>1, <5>2
            <4>5. Released(s)'
                BY <1>0, <1>1, <3>1, <4>1, <4>4 DEF Tidy, Released, Gone, Starting
            <4> QED
                BY <4>2, <4>3, <4>5 DEF Tidy
        <3> QED
            BY <3>2, <3>3
    <2>2. CASE ServerEnded(s, w)
        <3>1. /\ server'[s] = "exited" /\ cleaning'[s][w] = "drain"
              /\ \A v \in Cleaners : v # w => cleaning'[s][v] = cleaning[s][v]
              /\ UNCHANGED <<registryVars, forward, attached, watch>>
            BY <1>0, <2>2 DEF ServerEnded, GoClean, TypeOK
        <3>2. cleaning[s][w] = "process"
            BY <2>2 DEF ServerEnded
        <3> QED
            BY <1>0, <1>1, <1>3, <3>1, <3>2
            DEF Tidy, Untouched, BeforeServer, ServerOwned, Releasing, Released, Gone,
                Entering, CleanedBy, Starting
    <2>3. CASE LogDrained(s, w)
        <3>1. /\ cleaning[s][w] = "drain" /\ cleaning'[s][w] = "watch"
              /\ \A v \in Cleaners : v # w => cleaning'[s][v] \in {cleaning[s][v], "idle"}
              /\ \A v \in Cleaners : v # w /\ v # "watch" => cleaning'[s][v] = cleaning[s][v]
              /\ UNCHANGED <<registryVars, forward, server>>
            BY <1>0, <2>3 DEF LogDrained, WatchCancelled, GoClean, TypeOK
        <3>2. server[s] # "alive" /\ s \notin forward /\ ~Entering(s)
            BY <1>0, <3>1 DEF Tidy, Releasing, Entering
        <3> QED
            BY <1>0, <1>1, <1>3, <3>1, <3>2
            DEF Tidy, Untouched, BeforeServer, ServerOwned, Releasing, Released, Gone
    <2>4. CASE CleanedUp(s, w)
        <3>1. /\ cleaning[s][w] = "watch"
              /\ \A v \in Cleaners : cleaning'[s][v] = IF v = w THEN "idle" ELSE cleaning[s][v]
              /\ Returns(s, w)
              /\ UNCHANGED <<forward, server, attached>>
            BY <1>0, <2>4 DEF CleanedUp, GoClean, TypeOK
        <3>2. server[s] # "alive" /\ s \notin forward /\ ~Entering(s)
            BY <1>0, <3>1 DEF Tidy, Releasing, Entering
        <3>3. state'[s] # "absent"
            BY <1>0, <1>3, <3>1 DEF Returns, TypeOK
        <3> QED
            BY <1>0, <1>1, <3>1, <3>2, <3>3
            DEF Tidy, Untouched, BeforeServer, ServerOwned, Releasing, Released, Gone
    <2> QED
        BY <2>1, <2>2, <2>3, <2>4 DEF CleanerStep
<1> QED
    BY <1>2, <1>4

(* A stop that begins touches no resource.                                  *)
LEMMA TidyStops ==
    ASSUME TidyInv, TypeOK', NEW s \in Sessions, NEW w \in Stoppers, BeginStop(s, w),
           UNCHANGED <<starter, resourceVars, watch>>
    PROVE  \A x \in Sessions : Tidy(x)'
<1>0. TypeOK /\ \A x \in Sessions : Tidy(x)
    BY DEF TidyInv
<1>1. ASSUME NEW x \in Sessions, x # s
      PROVE  Tidy(x)'
    <2>1. SameSession(x)
        BY <1>0, <1>1 DEF SameSession, BeginStop, GoClean, TypeOK, resourceVars
    <2> QED
        BY <1>0, <2>1, SameIsTidy
<1>2. Tidy(s)'
    <2>1. /\ state'[s] = "stopping" /\ cleaning'[s][w] = "forward"
          /\ \A v \in Cleaners : v # w => cleaning'[s][v] = cleaning[s][v]
          /\ UNCHANGED <<forward, server, attached, watch, starter>>
        BY <1>0 DEF BeginStop, GoClean, TypeOK, resourceVars, Cleaners
    <2> QED
        BY <1>0, <2>1
        DEF Tidy, Untouched, BeforeServer, ServerOwned, Releasing, Released, Gone, Entering,
            CleanedBy, Starting, Terminal
<1> QED
    BY <1>1, <1>2

LEMMA TidyWatch ==
    ASSUME TidyInv, TypeOK', NEW s \in Sessions, WatchStep(s)
    PROVE  \A x \in Sessions : Tidy(x)'
<1>0. TypeOK /\ \A x \in Sessions : Tidy(x)
    BY DEF TidyInv
<1>1. CASE BeginStop(s, "watch") /\ UNCHANGED <<starter, resourceVars, watch>>
    BY <1>1, TidyStops DEF Stoppers
<1>2. CASE /\ watch[s] # "none" /\ watch'[s] # "none"
           /\ \A x \in Sessions : x # s => watch'[x] = watch[x]
           /\ UNCHANGED <<starter, resourceVars, cleaning>>
           /\ kept' \subseteq kept
           /\ \/ UNCHANGED state
              \/ s \notin kept /\ state' = [state EXCEPT ![s] = "failed"]
    <2>1. ASSUME NEW x \in Sessions, x # s
          PROVE  Tidy(x)'
        <3>1. SameSession(x)
            BY <1>0, <1>2, <2>1 DEF SameSession, TypeOK, resourceVars
        <3> QED
            BY <1>0, <3>1, SameIsTidy
    <2>2. Tidy(s)'
        <3>1. state'[s] = "absent" => state[s] = "absent"
            BY <1>0, <1>2 DEF TypeOK
        <3>2. s \in kept' => s \in kept /\ UNCHANGED state
            BY <1>2
        <3> QED
            BY <1>0, <1>2, <3>1, <3>2
            DEF Tidy, Untouched, BeforeServer, ServerOwned, Releasing, Released, Gone,
                Entering, CleanedBy, Starting, resourceVars
    <2> QED
        BY <2>1, <2>2
<1>3. CASE WatchWakes(s)
    <2>1. watch[s] # "none" /\ watch' = [watch EXCEPT ![s] = "drain"]
        BY <1>3 DEF WatchWakes
    <2> QED
        BY <1>0, <1>2, <1>3, <2>1 DEF WatchWakes, registryVars, TypeOK
<1>4. CASE WatchDecides(s) /\ ~BeginStop(s, "watch")
    <2>1. /\ watch[s] # "none" /\ watch' = [watch EXCEPT ![s] = "done"]
          /\ UNCHANGED <<starter, resourceVars, cleaning>>
          /\ \/ UNCHANGED <<state, kept>>
             \/ /\ s \notin kept /\ state' = [state EXCEPT ![s] = "failed"]
                /\ Retire(s)
        BY <1>4 DEF WatchDecides
    <2> QED
        BY <1>0, <1>2, <2>1, RetiringForgets DEF TypeOK
<1>5. CASE WatchDecides(s) /\ BeginStop(s, "watch")
    <2>1. UNCHANGED watch
        BY <1>0, <1>5 DEF WatchDecides, BeginStop, GoClean, CleanedBy, TypeOK, Cleaners
    <2> QED
        BY <1>1, <1>5, <2>1 DEF WatchDecides
<1> QED
    BY <1>3, <1>4, <1>5 DEF WatchStep

LEMMA TidyStart ==
    ASSUME TidyInv, TypeOK', NEW s \in Sessions, NEW p \in Serials, StartSession(s, p)
    PROVE  \A x \in Sessions : Tidy(x)'
<1>0. TypeOK /\ \A x \in Sessions : Tidy(x)
    BY DEF TidyInv
<1> USE DEF resourceVars, loopVars
<1>1. ASSUME NEW x \in Sessions, x # s
      PROVE  Tidy(x)'
    <2>1. SameSession(x)
        BY <1>0, <1>1 DEF SameSession, StartSession, GoStart, TypeOK
    <2> QED
        BY <1>0, <2>1, SameIsTidy
<1>2. Tidy(s)'
    <2>1. /\ state[s] = "absent" /\ state'[s] = "starting" /\ starter'[s] = "push"
          /\ UNCHANGED <<forward, server, attached, watch, cleaning>>
        BY <1>0 DEF StartSession, GoStart, TypeOK
    <2> QED
        BY <1>0, <2>1
        DEF Tidy, Untouched, BeforeServer, ServerOwned, Releasing, Released, Gone, Entering,
            CleanedBy, Starting, Terminal, TypeOK
<1> QED
    BY <1>1, <1>2

LEMMA TidyStep == TidyInv /\ [Next]_vars => TidyInv'
<1> SUFFICES ASSUME TidyInv, [Next]_vars
             PROVE  TidyInv'
    OBVIOUS
<1>0. TypeOK /\ TypeOK' /\ \A x \in Sessions : Tidy(x)
    BY TypeStep DEF TidyInv
<1> SUFFICES \A x \in Sessions : Tidy(x)'
    BY <1>0 DEF TidyInv
<1> USE DEF registryVars, resourceVars, loopVars
<1>1. ASSUME \A x \in Sessions : SameSession(x)
      PROVE  \A x \in Sessions : Tidy(x)'
    BY <1>0, <1>1, SameIsTidy
<1>2. ASSUME NEW s \in Sessions, NEW p \in Serials, StartSession(s, p)
      PROVE  \A x \in Sessions : Tidy(x)'
    BY <1>0, <1>2, TidyStart
<1>3. ASSUME NEW s \in Sessions, ClientStops(s)
      PROVE  \A x \in Sessions : Tidy(x)'
    BY <1>0, <1>3, TidyStops DEF ClientStops, Stoppers
<1>4. ASSUME NEW s \in Sessions, ServerExits(s)
      PROVE  \A x \in Sessions : Tidy(x)'
    <2>1. ASSUME NEW x \in Sessions, x # s
          PROVE  Tidy(x)'
        <3>1. SameSession(x)
            BY <1>0, <1>4, <2>1 DEF SameSession, ServerExits, TypeOK
        <3> QED
            BY <1>0, <3>1, SameIsTidy
    <2>2. Tidy(s)'
        <3>1. /\ server[s] = "alive" /\ server'[s] = "exited"
              /\ UNCHANGED <<state, kept, forward, attached, watch, cleaning, starter>>
            BY <1>0, <1>4 DEF ServerExits, TypeOK
        <3> QED
            BY <1>0, <3>1
            DEF Tidy, Untouched, BeforeServer, ServerOwned, Releasing, Released, Gone,
                Entering, CleanedBy, Starting
    <2> QED
        BY <2>1, <2>2
<1>5. CASE \E p \in Serials : DeviceChanges(p)
    BY <1>1, <1>5 DEF DeviceChanges, SameSession
<1>6. ASSUME NEW s \in Sessions, NEW w \in Stoppers, StopNext(s, w)
      PROVE  \A x \in Sessions : Tidy(x)'
    <2>1. CASE BeginStop(s, w)
        BY <1>0, <1>6, <2>1, TidyStops DEF StopNext
    <2>2. CASE ~BeginStop(s, w)
        BY <1>1, <1>6, <2>2 DEF StopNext, SameSession
    <2> QED
        BY <2>1, <2>2
<1>7. CASE LoopStep
    BY <1>1, <1>6, <1>7
    DEF LoopStep, MonitorLists, MonitorStops, CloseLists, CloseStops, CloseReturns, SameSession,
        Stoppers
<1>8. CASE Close
    <2>1. CASE UNCHANGED cleaning
        BY <1>1, <1>8, <2>1 DEF Close, SameSession
    <2>2. CASE /\ \A s \in Sessions : cleaning[s]["monitor"] # "drain"
               /\ cleaning' = [s \in Sessions |-> [cleaning[s] EXCEPT !["monitor"] = "idle"]]
        <3> SUFFICES ASSUME NEW x \in Sessions
                     PROVE  Tidy(x)'
            OBVIOUS
        <3>1. /\ \A w \in Cleaners : cleaning'[x][w] \in {cleaning[x][w], "idle"}
              /\ cleaning'[x]["starter"] = cleaning[x]["starter"]
              /\ UNCHANGED <<state, kept, forward, server, attached, watch, starter>>
            BY <1>0, <1>8, <2>2 DEF Close, TypeOK, Cleaners
        <3>2. Untouched(x)' /\ BeforeServer(x)' /\ ServerOwned(x)'
            BY <1>0, <3>1 DEF Tidy, Untouched, BeforeServer, ServerOwned, Entering, CleanedBy
        <3>3. Releasing(x)' /\ Released(x)'
            BY <1>0, <3>1 DEF Tidy, Releasing, Released, Gone, CleanedBy, Starting
        <3> QED
            BY <3>2, <3>3 DEF Tidy
    <2> QED
        BY <1>8, <2>1, <2>2 DEF Close
<1>9. CASE UNCHANGED vars
    BY <1>1, <1>9 DEF vars, SameSession
<1> QED
    BY <1>0, <1>2, <1>3, <1>4, <1>5, <1>7, <1>8, <1>9, TidyStarter, TidyCleaner, TidyWatch
    DEF Next

(* A registered session that has ended, and that nobody works on any more,  *)
(* has no adb forward and no scrcpy server left, however its start, its     *)
(* stops and the shutdown overlapped (_cleanup_session_resources).          *)
THEOREM NothingIsLeft == Spec => []NothingLeft
<1>1. Init => TidyInv
    <2> SUFFICES ASSUME Init
                 PROVE  TidyInv
        OBVIOUS
    <2>1. \A s \in Sessions : /\ s \notin forward /\ server[s] = "none" /\ s \notin kept
                              /\ watch[s] = "none" /\ starter[s] = "none"
                              /\ \A w \in Cleaners : cleaning[s][w] = "idle"
        BY DEF Init
    <2> QED
        BY <2>1, TypeInit
        DEF TidyInv, Tidy, Untouched, BeforeServer, ServerOwned, Releasing, Released, Gone,
            Entering, CleanedBy
<1>2. TidyInv /\ [Next]_vars => TidyInv'
    BY TidyStep
<1>3. TidyInv => NothingLeft
    BY DEF TidyInv, TypeOK, Tidy, Released, NothingLeft, Gone, Quiet, Cleaners
<1> QED
    BY <1>1, <1>2, <1>3, PTL DEF Spec
-----------------------------------------------------------------------------
(* The session manager under the channels and relays of ChannelRelay: a     *)
(* step of the composition is one of the session manager, or leaves it as   *)
(* it is.  A relay that ends stops its session without asking whether the   *)
(* service is up, which a client's request needs; it is up, because close() *)
(* waits for the WebSockets of the server to end.                           *)

(* A channel is attached to the browser whose handler runs on it, and to    *)
(* nobody when none does (attached_client).                                 *)
HandlerHolds ==
    \A s \in Sessions, c \in Channels, b \in Browsers :
        socket[s][c][b] # "none" <=> holder[s][c] = b

(* A channel has one handler at a time, also while the browser has gone and *)
(* its handler runs on (session_channel refuses a second one).              *)
OneHandlerPerChannel ==
    \A s \in Sessions, c \in Channels : \A a, b \in Handlers(s, c) : a = b

RelayTypes ==
    /\ holder \in [Sessions -> [Channels -> Browsers \cup {Nobody}]]
    /\ socket \in [Sessions -> [Channels -> [Browsers -> {"none", "open", "left"}]]]

RelayInv ==
    /\ RelayTypes
    /\ HandlerHolds
    /\ process # "up" => Served

(* A step of the session manager that does not shut the service down, or    *)
(* does so when every WebSocket has ended, leaves the relays as they are.   *)
LEMMA RelaysBeside ==
    ASSUME RelayInv, UNCHANGED relayVars, process' # "up" => process # "up" \/ Served
    PROVE  RelayInv'
<1> USE DEF relayVars
<1>1. RelayTypes' /\ HandlerHolds'
    BY DEF RelayInv, RelayTypes, HandlerHolds
<1>2. process' # "up" => Served'
    BY DEF RelayInv, Served, Handlers
<1> QED
    BY <1>1, <1>2 DEF RelayInv

LEMMA RelayAttaches ==
    ASSUME NEW s \in Sessions, NEW c \in Channels, NEW b \in Browsers,
           RelayInv, Attaches(s, c, b)
    PROVE  RelayInv' /\ UNCHANGED vars
<1> USE DEF Attaches, RelayInv
<1>1. RelayTypes'
    BY DEF RelayTypes
<1>2. ASSUME NEW t \in Sessions, NEW d \in Channels, NEW a \in Browsers
      PROVE  (socket'[t][d][a] # "none" <=> holder'[t][d] = a)
    <2>1. CASE t = s /\ d = c
        <3>1. holder'[t][d] = b /\ socket'[t][d][a] = IF a = b THEN "open" ELSE socket[s][c][a]
            BY <2>1 DEF RelayTypes
        <3>2. a # b => socket[s][c][a] = "none"
            BY ChannelAssumption DEF HandlerHolds, Nobody
        <3> QED
            BY <3>1, <3>2
    <2>2. CASE ~(t = s /\ d = c)
        <3>1. holder'[t][d] = holder[t][d] /\ socket'[t][d][a] = socket[t][d][a]
            BY <2>2 DEF RelayTypes
        <3> QED
            BY <3>1 DEF HandlerHolds
    <2> QED
        BY <2>1, <2>2
<1>3. process' = "up"
    BY DEF vars
<1> QED
    BY <1>1, <1>2, <1>3 DEF HandlerHolds

(* A page that goes leaves its handlers running.                            *)
LEMMA RelayLeft ==
    ASSUME NEW b \in Browsers, RelayInv, BrowserLeaves(b)
    PROVE  RelayInv' /\ UNCHANGED vars
<1> USE DEF BrowserLeaves, RelayInv
<1>1. RelayTypes'
    BY DEF RelayTypes
<1>2. \A t \in Sessions, d \in Channels, a \in Browsers :
          socket'[t][d][a] # "none" <=> socket[t][d][a] # "none"
    BY DEF RelayTypes
<1>3. HandlerHolds'
    BY <1>2 DEF HandlerHolds
<1>4. process' # "up" => Served'
    BY <1>2 DEF Served, Handlers, vars
<1> QED
    BY <1>1, <1>3, <1>4

(* A relay that ends gives its channel back; what it does to the session is *)
(* what a client that stops it does.                                        *)
LEMMA RelayDetaches ==
    ASSUME NEW s \in Sessions, NEW c \in Channels, NEW b \in Browsers,
           RelayInv, socket[s][c][b] # "none", Detaches(s, c, b)
    PROVE  RelayInv' /\ (ClientStops(s) \/ UNCHANGED vars) /\ process' = "up"
<1> USE DEF RelayInv
<1>1. process = "up"
    BY DEF Served, Handlers
<1>2. process' = "up" /\ (ClientStops(s) \/ UNCHANGED vars)
    <2>1. CASE s \in kept /\ state[s] \in Active
        BY <1>1, <2>1 DEF Detaches, ClientStops, loopVars
    <2>2. CASE ~(s \in kept /\ state[s] \in Active)
        BY <1>1, <2>2 DEF Detaches, vars
    <2> QED
        BY <2>1, <2>2
<1>3. RelayTypes'
    BY DEF Detaches, RelayTypes
<1>4. ASSUME NEW t \in Sessions, NEW d \in Channels, NEW a \in Browsers
      PROVE  (socket'[t][d][a] # "none" <=> holder'[t][d] = a)
    <2>1. CASE t = s /\ d = c
        <3>1. holder[s][c] = b
            BY DEF HandlerHolds
        <3>2. /\ holder'[t][d] = Nobody
              /\ socket'[t][d][a] = IF a = b THEN "none" ELSE socket[s][c][a]
            BY <2>1, <3>1 DEF Detaches, RelayTypes
        <3>3. a # b => socket[s][c][a] = "none"
            BY <3>1 DEF HandlerHolds
        <3> QED
            BY <3>2, <3>3, ChannelAssumption DEF Nobody
    <2>2. CASE ~(t = s /\ d = c)
        <3>1. holder'[t][d] = holder[t][d] /\ socket'[t][d][a] = socket[t][d][a]
            BY <2>2 DEF Detaches, RelayTypes
        <3> QED
            BY <3>1 DEF HandlerHolds
    <2> QED
        BY <2>1, <2>2
<1> QED
    BY <1>2, <1>3, <1>4 DEF HandlerHolds

(* Every step of the composition is one that the session manager takes, or  *)
(* none of its own.                                                         *)
LEMMA RelayStepImplements ==
    ASSUME RelayInv, [RelayNext]_allVars
    PROVE  RelayInv' /\ [Next]_vars
<1>1. CASE UNCHANGED allVars
    <2>1. UNCHANGED <<vars, relayVars>>
        BY <1>1 DEF allVars
    <2> QED
        BY <2>1, RelaysBeside DEF vars
<1>2. CASE RelayNext
    <2>1. ASSUME NEW s \in Sessions, NEW p \in Serials, Beside(StartSession(s, p))
          PROVE  RelayInv' /\ Next
        BY <1>2, <2>1, RelaysBeside DEF Beside, RelayNext, Next, StartSession, loopVars
    <2>2. ASSUME NEW s \in Sessions, Starts(s)
          PROVE  RelayInv' /\ Next
        <3>1. StarterStep(s) /\ UNCHANGED relayVars
            BY <2>2 DEF Starts, Beside, FirstConnected, OtherConnected, ChannelStored, StarterStep
        <3>2. UNCHANGED process
            BY <3>1 DEF StarterStep, ServerPushed, ForwardCreated, ServerSpawned,
                FirstChannelConnected, OtherChannelsConnected, SessionStarted, StartFails, loopVars
        <3> QED
            BY <1>2, <3>1, <3>2, RelaysBeside DEF RelayNext, Next
    <2>3. ASSUME NEW s \in Sessions, NEW w \in Cleaners, Cleans(s, w)
          PROVE  RelayInv' /\ [Next]_vars
        <3>1. CASE ChannelClosed(s, w)
            BY <3>1, RelaysBeside DEF ChannelClosed, vars
        <3>2. CASE ~ChannelClosed(s, w)
            <4>1. CleanerStep(s, w) /\ UNCHANGED relayVars
                BY <2>3, <3>2 DEF Cleans, ForwardRemovedAfter, Beside, CleanerStep
            <4>2. UNCHANGED process
                BY <4>1 DEF CleanerStep, ForwardRemoved, ServerEnded, LogDrained, CleanedUp,
                    loopVars
            <4> QED
                BY <1>2, <4>1, <4>2, RelaysBeside DEF RelayNext, Next
        <3> QED
            BY <3>1, <3>2
    <2>4. ASSUME NEW s \in Sessions, Beside(ClientStops(s))
          PROVE  RelayInv' /\ Next
        BY <1>2, <2>4, RelaysBeside DEF Beside, RelayNext, Next, ClientStops, loopVars
    <2>5. ASSUME NEW s \in Sessions, Beside(WatchStep(s))
          PROVE  RelayInv' /\ Next
        BY <1>2, <2>5, RelaysBeside
        DEF Beside, RelayNext, Next, WatchStep, WatchWakes, WatchDecides, loopVars
    <2>6. ASSUME NEW s \in Sessions, Beside(ServerExits(s))
          PROVE  RelayInv' /\ Next
        BY <1>2, <2>6, RelaysBeside DEF Beside, RelayNext, Next, ServerExits, loopVars
    <2>7. ASSUME NEW p \in Serials, Beside(DeviceChanges(p))
          PROVE  RelayInv' /\ Next
        BY <1>2, <2>7, RelaysBeside DEF Beside, RelayNext, Next, DeviceChanges
    <2>8. ASSUME Beside(LoopStep)
          PROVE  RelayInv' /\ Next
        <3>1. process' # "up" => process # "up"
            BY <2>8 DEF Beside, LoopStep, MonitorLists, MonitorStops, CloseLists, CloseStops,
                CloseReturns
        <3> QED
            BY <1>2, <2>8, <3>1, RelaysBeside DEF Beside, RelayNext, Next
    <2>9. ASSUME Served /\ Beside(Close)
          PROVE  RelayInv' /\ Next
        BY <1>2, <2>9, RelaysBeside DEF Beside, RelayNext, Next
    <2>10. ASSUME NEW s \in Sessions, NEW c \in Channels, NEW b \in Browsers,
                  Attaches(s, c, b)
           PROVE  RelayInv' /\ [Next]_vars
        BY <2>10, RelayAttaches
    <2>11. ASSUME NEW s \in Sessions, NEW c \in Channels, NEW b \in Browsers,
                  socket[s][c][b] # "none", Detaches(s, c, b)
           PROVE  RelayInv' /\ [Next]_vars
        BY <1>2, <2>11, RelayDetaches DEF RelayNext, Next
    <2>12. ASSUME NEW s \in Sessions, NEW c \in Channels, NEW b \in Browsers,
                  RelayStep(s, c, b) \/ SendFails(s, c, b)
           PROVE  RelayInv' /\ [Next]_vars
        BY <2>11, <2>12 DEF RelayStep, DeviceEnds, BrowserEnds, SendFails
    <2>13. ASSUME NEW s \in Sessions, NEW b \in Browsers, BrowserRefused(s, b)
           PROVE  RelayInv' /\ [Next]_vars
        BY <2>11, <2>13 DEF BrowserRefused
    <2>14. ASSUME NEW b \in Browsers, BrowserLeaves(b)
           PROVE  RelayInv' /\ [Next]_vars
        BY <2>14, RelayLeft
    <2> QED
        BY <1>2, <2>1, <2>2, <2>3, <2>4, <2>5, <2>6, <2>7, <2>8, <2>9, <2>10, <2>12, <2>13, <2>14
        DEF RelayNext
<1> QED
    BY <1>1, <1>2

LEMMA RelayInitially == RelayInit => RelayInv
<1> SUFFICES ASSUME RelayInit
             PROVE  RelayInv
    OBVIOUS
<1>1. RelayTypes
    BY DEF RelayInit, RelayTypes
<1>2. HandlerHolds
    BY ChannelAssumption DEF RelayInit, HandlerHolds, Nobody
<1>3. process = "up"
    BY DEF RelayInit, Init
<1> QED
    BY <1>1, <1>2, <1>3 DEF RelayInv

LEMMA RelayKept == RelaySpec => []RelayInv
<1>1. RelayInv /\ [RelayNext]_allVars => RelayInv'
    BY RelayStepImplements
<1> QED
    BY <1>1, RelayInitially, PTL DEF RelaySpec

(* The composition of sessions, channels and relays implements the session  *)
(* manager: what browsers do to channels, and what the end of a relay does  *)
(* to its session, are behaviours that SessionManager has without them.     *)
THEOREM RelaysImplementSessions == RelaySpec => Spec
<1>1. RelayInit => Init
    BY DEF RelayInit
<1>2. RelayInv /\ [RelayNext]_allVars => [Next]_vars
    BY RelayStepImplements
<1> QED
    BY <1>1, <1>2, RelayKept, PTL DEF RelaySpec, Spec

(* So what holds of sessions holds of them with their channels attached to  *)
(* any number of browsers: the claim of a device, the bound on the finished *)
(* sessions, and a device on which nothing is left (session_channel).       *)
THEOREM RelaysKeepSessions == RelaySpec => [](ClaimHeld /\ BacklogBounded /\ NothingLeft)
    BY RelaysImplementSessions, ClaimsAreHeld, BacklogIsBounded, NothingIsLeft, PTL

(* No two handlers run on a channel, whatever pages attach, go and come     *)
(* back while sessions are stopped: the bytes of a channel are read by one  *)
(* of them (attached_client in session_channel).                            *)
THEOREM ChannelsAreNotShared == RelaySpec => []OneHandlerPerChannel
<1>1. RelayInv => OneHandlerPerChannel
    BY DEF RelayInv, HandlerHolds, OneHandlerPerChannel, Handlers
<1> QED
    BY <1>1, RelayKept, PTL

=============================================================================
