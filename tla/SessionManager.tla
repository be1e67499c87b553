---------------------------- MODULE SessionManager ----------------------------
(***************************************************************************)
(* The scrcpy sessions of the bridge (droid_web_display/scrcpy/session.py, *)
(* class SessionManager).  Five kinds of coroutine work on one session     *)
(* without a lock: the start_session request, a client that stops it (the  *)
(* REST endpoint or the end of a channel relay), the device monitor, the   *)
(* watch task of its server process, and close().  All but the watch's     *)
(* wait end in _cleanup_session_resources, whose awaits interleave with    *)
(* the others.                                                             *)
(*                                                                         *)
(* The active states of the code behave alike here: "starting" stands for  *)
(* STARTING and CREATING_DISPLAY, "running" for RUNNING.  The effect of an *)
(* adb command and the return of its await are one step.                   *)
(***************************************************************************)
EXTENDS Naturals, FiniteSets

CONSTANTS Sessions,     \* session identifiers; every start draws a fresh one
          Serials,      \* devices
          MaxRetained   \* MAX_RETAINED_TERMINATED_SESSIONS

ASSUME SessionAssumption ==
    /\ IsFiniteSet(Sessions)
    /\ "no session" \notin Sessions
    /\ "no serial" \notin Serials
    /\ MaxRetained \in Nat

VARIABLES process,     \* "up", "closing" (inside close()) or "down"
          ready,       \* devices that adb reports as ready
          state,       \* session.state, or "absent"
          serial,      \* session.serial
          reason,      \* session.stop_reason, or "none"
          kept,        \* keys of _sessions
          claim,       \* _serial_index
          starter,     \* where start_session is suspended
          forward,     \* sessions with an adb forward
          server,      \* the scrcpy server: "none", "alive" or "exited"
          attached,    \* sessions whose process field is set
          watch,       \* the process watch task
          cleaning,    \* where each coroutine is inside the clean-up of a session
          monitor,     \* the device monitor runs
          todo         \* sessions the monitor, or close(), still has to stop

vars == <<process, ready, state, serial, reason, kept, claim, starter, forward, server,
          attached, watch, cleaning, monitor, todo>>
registryVars == <<state, serial, reason, kept, claim>>
resourceVars == <<forward, server, attached>>
loopVars == <<process, ready, monitor, todo>>

-----------------------------------------------------------------------------
Active == {"starting", "running"}
Terminal == {"stopped", "disconnected", "failed"}
Stoppers == {"client", "monitor", "watch", "close"}
Cleaners == Stoppers \cup {"starter"}
StarterPlaces == {"none", "push", "forward", "spawn", "first", "others", "display"}
CleanPlaces == {"idle", "forward", "process", "drain", "watch"}

NoSerial == "no serial"
NoSession == "no session"

Starting(s) == starter[s] # "none"
CleanedBy(s, w) == cleaning[s][w] # "idle"
Quiet(s) == ~Starting(s) /\ \A w \in Cleaners : ~CleanedBy(s, w)
ServerDead(s) == s \in attached /\ server[s] = "exited"

Init ==
    /\ process = "up"
    /\ ready = Serials
    /\ state = [s \in Sessions |-> "absent"]
    /\ serial = [s \in Sessions |-> NoSerial]
    /\ reason = [s \in Sessions |-> "none"]
    /\ kept = {}
    /\ claim = [p \in Serials |-> NoSession]
    /\ starter = [s \in Sessions |-> "none"]
    /\ forward = {}
    /\ server = [s \in Sessions |-> "none"]
    /\ attached = {}
    /\ watch = [s \in Sessions |-> "none"]
    /\ cleaning = [s \in Sessions |-> [w \in Cleaners |-> "idle"]]
    /\ monitor = FALSE
    /\ todo = {}

-----------------------------------------------------------------------------
GoClean(s, w, place) == cleaning' = [cleaning EXCEPT ![s][w] = place]
GoStart(s, place) == starter' = [starter EXCEPT ![s] = place]

(* _prune_terminated.  The order in which finished sessions go is left open. *)
Prune ==
    LET over == {x \in kept : state'[x] \in Terminal} IN
    \E gone \in SUBSET over :
        /\ IF Cardinality(over) <= MaxRetained
           THEN gone = {}
           ELSE Cardinality(over \ gone) = MaxRetained
        /\ kept' = kept \ gone

(* Mutant of Retire: the claim is dropped whoever holds it by now.          *)
RetireWhoeverClaims(s) ==
    /\ claim' = [claim EXCEPT ![serial[s]] = NoSession]
    /\ Prune

(* _retire_session: the claim is released if it is still this session's.    *)
Retire(s) ==
    /\ claim' = IF claim[serial[s]] = s THEN [claim EXCEPT ![serial[s]] = NoSession] ELSE claim
    /\ Prune

(* stop_session of an active session, up to the first await of its          *)
(* clean-up; it returns at once for any other.                              *)
BeginStop(s, w) ==
    /\ state[s] \in Active
    /\ state' = [state EXCEPT ![s] = "stopping"]
    /\ reason' = [reason EXCEPT ![s] = w]
    /\ GoClean(s, w, "forward")
    /\ UNCHANGED <<serial, kept, claim>>

-----------------------------------------------------------------------------
(* start_session: the claim of a session that is no longer active is taken  *)
(* over.                                                                    *)
StartSession(s, p) ==
    /\ process = "up"
    /\ p \in ready
    /\ state[s] = "absent"
    /\ ~(claim[p] \in kept /\ state[claim[p]] \in Active)
    /\ state' = [state EXCEPT ![s] = "starting"]
    /\ serial' = [serial EXCEPT ![s] = p]
    /\ kept' = kept \cup {s}
    /\ claim' = [claim EXCEPT ![p] = s]
    /\ GoStart(s, "push")
    /\ UNCHANGED <<reason, resourceVars, watch, cleaning, loopVars>>

ServerPushed(s) ==
    /\ starter[s] = "push"
    /\ GoStart(s, "forward")
    /\ UNCHANGED <<registryVars, resourceVars, watch, cleaning, loopVars>>

ForwardCreated(s) ==
    /\ starter[s] = "forward"
    /\ GoStart(s, "spawn")
    /\ forward' = forward \cup {s}
    /\ UNCHANGED <<registryVars, server, attached, watch, cleaning, loopVars>>

ServerSpawned(s) ==
    /\ starter[s] = "spawn"
    /\ GoStart(s, "first")
    /\ server' = [server EXCEPT ![s] = "alive"]
    /\ attached' = attached \cup {s}
    /\ watch' = [watch EXCEPT ![s] = "waiting"]
    /\ UNCHANGED <<registryVars, forward, cleaning, loopVars>>

(* The first channel is only taken with the server's dummy byte; there may  *)
(* be no other.                                                             *)
FirstChannelConnected(s) ==
    /\ starter[s] = "first"
    /\ s \in forward
    /\ server[s] = "alive"
    /\ \E next \in {"others", "display"} : GoStart(s, next)
    /\ UNCHANGED <<registryVars, resourceVars, watch, cleaning, loopVars>>

(* adb may accept a later channel although the server is gone.              *)
OtherChannelsConnected(s) ==
    /\ starter[s] = "others"
    /\ s \in forward
    /\ ~ServerDead(s)
    /\ GoStart(s, "display")
    /\ UNCHANGED <<registryVars, resourceVars, watch, cleaning, loopVars>>

(* A virtual display is announced in the server's log, which is read until  *)
(* a clean-up takes the session's tasks away.  Then start_session returns:  *)
(* RUNNING, whatever the state was, and the monitor.                        *)
SessionStarted(s) ==
    /\ starter[s] = "display"
    /\ watch[s] # "none"
    /\ GoStart(s, "none")
    /\ state' = [state EXCEPT ![s] = "running"]
    /\ monitor' = TRUE
    /\ UNCHANGED <<serial, reason, kept, claim, resourceVars, watch, cleaning, process, ready, todo>>

(* Mutant of StartFails: nothing is cleaned up before retiring.             *)
StartFailsUncleaned(s) ==
    /\ Starting(s)
    /\ GoStart(s, "none")
    /\ state' = [state EXCEPT ![s] = "failed"]
    /\ reason' = [reason EXCEPT ![s] = "starter"]
    /\ Retire(s)
    /\ UNCHANGED <<serial, resourceVars, watch, cleaning, loopVars>>

(* Any step of _start_session_resources may raise.                          *)
StartFails(s) ==
    /\ Starting(s)
    /\ GoStart(s, "none")
    /\ state' = [state EXCEPT ![s] = "failed"]
    /\ reason' = [reason EXCEPT ![s] = "starter"]
    /\ GoClean(s, "starter", "forward")
    /\ UNCHANGED <<serial, kept, claim, resourceVars, watch, loopVars>>

-----------------------------------------------------------------------------
(* _cleanup_session_resources, one await at a time (closing the channels    *)
(* and removing the forward are one), and what its callers do on return.    *)

(* stop_session sets the terminal state that its own reason calls for; the  *)
(* failed start has set FAILED before.  Both retire the session.            *)
Returns(s, w) ==
    /\ state' = IF w = "starter" THEN state
                ELSE [state EXCEPT ![s] = IF w \in {"monitor", "watch"}
                                          THEN "disconnected" ELSE "stopped"]
    /\ Retire(s)
    /\ UNCHANGED <<serial, reason>>

(* Nothing else is waited for in a session without tasks.                   *)
ForwardRemoved(s, w) ==
    /\ cleaning[s][w] = "forward"
    /\ forward' = forward \ {s}
    /\ IF watch[s] = "none"
       THEN GoClean(s, w, "idle") /\ Returns(s, w)
       ELSE /\ GoClean(s, w, IF s \in attached /\ server[s] = "alive" THEN "process" ELSE "drain")
            /\ UNCHANGED registryVars
    /\ UNCHANGED <<starter, server, attached, watch, loopVars>>

(* terminate, wait, kill.                                                   *)
ServerEnded(s, w) ==
    /\ cleaning[s][w] = "process"
    /\ server' = [server EXCEPT ![s] = "exited"]
    /\ GoClean(s, w, "drain")
    /\ UNCHANGED <<registryVars, starter, forward, attached, watch, loopVars>>

(* The watch task is cancelled by w.  _drain_process_log swallows that, and *)
(* goes on; anywhere else in a stop of its own the task is torn out of it.  *)
WatchCancelled(s, w, torn) ==
    /\ watch' = [watch EXCEPT ![s] = IF @ = "waiting" \/ torn THEN "done" ELSE @]
    /\ cleaning' = [cleaning EXCEPT ![s] =
                      [x \in Cleaners |-> IF x = "watch" /\ torn THEN "idle"
                                          ELSE IF x = w THEN "watch" ELSE cleaning[s][x]]]
WatchTorn(s) == cleaning[s]["watch"] \notin {"idle", "drain"}

(* Mutant of LogDrained: the watch task does not spare itself.              *)
LogDrainedSparingNone(s, w) ==
    /\ cleaning[s][w] = "drain"
    /\ attached' = attached \ {s}
    /\ WatchCancelled(s, w, w = "watch" \/ WatchTorn(s))
    /\ UNCHANGED <<registryVars, starter, forward, server, loopVars>>

(* The watch task is cancelled, unless it is the caller.                    *)
LogDrained(s, w) ==
    /\ cleaning[s][w] = "drain"
    /\ attached' = attached \ {s}
    /\ IF w = "watch"
       THEN GoClean(s, w, "watch") /\ UNCHANGED watch
       ELSE WatchCancelled(s, w, WatchTorn(s))
    /\ UNCHANGED <<registryVars, starter, forward, server, loopVars>>

(* Whether the watch task that w cancelled has ended, and the field it is   *)
(* kept in afterwards.                                                      *)
WatchAwaited(s, w) == w = "watch" \/ watch[s] \in {"none", "done"}
WatchAfter(s, w) == [watch EXCEPT ![s] = IF w = "watch" THEN "done" ELSE "none"]

(* Mutant of CleanedUp: a failed start returns without _retire_session.     *)
CleanedUpForgettingFailures(s, w) ==
    /\ cleaning[s][w] = "watch"
    /\ WatchAwaited(s, w)
    /\ GoClean(s, w, "idle")
    /\ IF w = "starter" THEN UNCHANGED registryVars ELSE Returns(s, w)
    /\ watch' = WatchAfter(s, w)
    /\ UNCHANGED <<starter, resourceVars, loopVars>>

CleanedUp(s, w) ==
    /\ cleaning[s][w] = "watch"
    /\ WatchAwaited(s, w)
    /\ GoClean(s, w, "idle")
    /\ Returns(s, w)
    /\ watch' = WatchAfter(s, w)
    /\ UNCHANGED <<starter, resourceVars, loopVars>>

-----------------------------------------------------------------------------
(* The stoppers.                                                            *)

(* DELETE /sessions, or a relay that ends.                                  *)
ClientStops(s) ==
    /\ process = "up"
    /\ s \in kept
    /\ ~CleanedBy(s, "client")          \* bound: one client stop of a session at a time
    /\ BeginStop(s, "client")
    /\ UNCHANGED <<starter, resourceVars, watch, loopVars>>

(* _watch_server_process, up to its _drain_process_log.                     *)
WatchWakes(s) ==
    /\ watch[s] = "waiting"
    /\ server[s] = "exited"
    /\ watch' = [watch EXCEPT ![s] = "drain"]
    /\ UNCHANGED <<registryVars, starter, resourceVars, cleaning, loopVars>>

(* Mutant of WatchDecides: only a session that still starts is stopped.     *)
WatchDecidesWhileStarting(s) ==
    /\ watch[s] = "drain"
    /\ ~CleanedBy(s, "watch")
    /\ IF state[s] = "starting" /\ s \in kept
       THEN BeginStop(s, "watch") /\ UNCHANGED watch
       ELSE watch' = [watch EXCEPT ![s] = "done"] /\ UNCHANGED <<registryVars, cleaning>>
    /\ UNCHANGED <<starter, resourceVars, loopVars>>

(* The rest: stop an active session.  One that was pruned from the registry *)
(* is not found there, and fails without a clean-up.                        *)
WatchDecides(s) ==
    /\ watch[s] = "drain"
    /\ ~CleanedBy(s, "watch")
    /\ IF state[s] \in Active /\ s \in kept
       THEN BeginStop(s, "watch") /\ UNCHANGED watch
       ELSE /\ watch' = [watch EXCEPT ![s] = "done"]
            /\ IF state[s] \in Active
               THEN /\ state' = [state EXCEPT ![s] = "failed"]
                    /\ Retire(s)
               ELSE UNCHANGED <<state, kept, claim>>
            /\ UNCHANGED <<serial, reason, cleaning>>
    /\ UNCHANGED <<starter, resourceVars, loopVars>>

ServerExits(s) ==
    /\ server[s] = "alive"
    /\ server' = [server EXCEPT ![s] = "exited"]
    /\ UNCHANGED <<registryVars, starter, forward, attached, watch, cleaning, loopVars>>

DeviceChanges(p) ==
    /\ ready' = IF p \in ready THEN ready \ {p} ELSE ready \cup {p}
    /\ UNCHANGED <<registryVars, starter, resourceVars, watch, cleaning, process, monitor, todo>>

MonitorIdle == monitor /\ todo = {} /\ \A s \in Sessions : ~CleanedBy(s, "monitor")
Lost(s) == s \in kept /\ serial[s] \notin ready

(* Mutant of MonitorLists: sessions that are up are taken for connected.    *)
MonitorListsStarting ==
    /\ process = "up"
    /\ MonitorIdle
    /\ todo' = {s \in Sessions : Lost(s) /\ state[s] = "starting"}
    /\ todo' # {}
    /\ UNCHANGED <<registryVars, starter, resourceVars, watch, cleaning, process, ready, monitor>>

(* _monitor_devices: the sessions to stop are chosen when adb has answered. *)
MonitorLists ==
    /\ process = "up"
    /\ MonitorIdle
    /\ todo' = {s \in Sessions : Lost(s) /\ state[s] \in Active}
    /\ todo' # {}
    /\ UNCHANGED <<registryVars, starter, resourceVars, watch, cleaning, process, ready, monitor>>

(* stop_session of the next chosen one; one that is not found ends the      *)
(* round.                                                                   *)
StopNext(s, w) ==
    /\ s \in todo
    /\ \A x \in Sessions : ~CleanedBy(x, w)
    /\ IF s \in kept /\ state[s] \in Active
       THEN BeginStop(s, w)
       ELSE UNCHANGED <<registryVars, cleaning>>
    /\ todo' = IF s \in kept THEN todo \ {s} ELSE {}
    /\ UNCHANGED <<starter, resourceVars, watch, ready, monitor>>

MonitorStops(s) ==
    /\ process \in {"up", "closing"}
    /\ StopNext(s, "monitor")
    /\ UNCHANGED process

-----------------------------------------------------------------------------
(* close(), when the server has answered its requests.  The monitor is      *)
(* cancelled: a stop it is in the middle of is torn, but in                 *)
(* _drain_process_log, where the cancellation is swallowed.                 *)
Close ==
    /\ process = "up"
    /\ \A s \in Sessions : ~Starting(s) /\ ~CleanedBy(s, "starter") /\ ~CleanedBy(s, "client")
    /\ todo = {} \/ \E s \in Sessions : CleanedBy(s, "monitor")
    /\ process' = "closing"
    /\ LET drains == \E s \in Sessions : cleaning[s]["monitor"] = "drain" IN
       IF drains
       THEN UNCHANGED <<monitor, todo, cleaning>>
       ELSE /\ monitor' = FALSE
            /\ todo' = {}
            /\ cleaning' = [s \in Sessions |-> [cleaning[s] EXCEPT !["monitor"] = "idle"]]
    /\ UNCHANGED <<registryVars, starter, resourceVars, watch, ready>>

(* The monitor is gone; the sessions to stop are those of now.              *)
CloseLists ==
    /\ process = "closing"
    /\ monitor => MonitorIdle
    /\ process' = "stopping"
    /\ monitor' = FALSE
    /\ todo' = kept
    /\ UNCHANGED <<registryVars, starter, resourceVars, watch, cleaning, ready>>

(* A session that was pruned meanwhile makes close() raise.                 *)
CloseStops(s) ==
    /\ process = "stopping"
    /\ StopNext(s, "close")
    /\ process' = IF s \in kept THEN process ELSE "down"

CloseReturns ==
    /\ process = "stopping"
    /\ todo = {}
    /\ \A s \in Sessions : ~CleanedBy(s, "close")
    /\ process' = "down"
    /\ UNCHANGED <<registryVars, starter, resourceVars, watch, cleaning, ready, monitor, todo>>

-----------------------------------------------------------------------------
StarterStep(s) ==
    \/ ServerPushed(s)
    \/ ForwardCreated(s)
    \/ ServerSpawned(s)
    \/ FirstChannelConnected(s)
    \/ OtherChannelsConnected(s)
    \/ SessionStarted(s)
    \/ StartFails(s)

CleanerStep(s, w) ==
    \/ ForwardRemoved(s, w)
    \/ ServerEnded(s, w)
    \/ LogDrained(s, w)
    \/ CleanedUp(s, w)

WatchStep(s) == WatchWakes(s) \/ WatchDecides(s)

LoopStep ==
    \/ MonitorLists
    \/ \E s \in Sessions : MonitorStops(s)
    \/ CloseLists
    \/ \E s \in Sessions : CloseStops(s)
    \/ CloseReturns

Next ==
    /\ process # "down"
    /\ \/ \E s \in Sessions, p \in Serials : StartSession(s, p)
       \/ \E s \in Sessions : StarterStep(s)
       \/ \E s \in Sessions, w \in Cleaners : CleanerStep(s, w)
       \/ \E s \in Sessions : ClientStops(s)
       \/ \E s \in Sessions : WatchStep(s)
       \/ \E s \in Sessions : ServerExits(s)
       \/ \E p \in Serials : DeviceChanges(p)
       \/ LoopStep
       \/ Close

Spec == Init /\ [][Next]_vars

(* Every await of the code answers in bounded time (adb commands, a process *)
(* that was killed, the time limits of connecting and draining), so each    *)
(* coroutine goes on.  Nobody has to start, stop or unplug anything.        *)
Up(A) == process # "down" /\ A
Fairness ==
    /\ \A s \in Sessions :
          /\ WF_vars(Up(StarterStep(s)))
          /\ WF_vars(Up(WatchStep(s)))
          /\ \A w \in Cleaners : WF_vars(Up(CleanerStep(s, w)))
    /\ WF_vars(Up(LoopStep))

FairSpec == Spec /\ Fairness

-----------------------------------------------------------------------------
(* Every variable has the shape the code gives it: the states of            *)
(* SessionState, the fields of ManagedScrcpySession, the keys of _sessions  *)
(* and _serial_index.                                                       *)
TypeOK ==
    /\ process \in {"up", "closing", "stopping", "down"}
    /\ ready \subseteq Serials
    /\ state \in [Sessions -> Active \cup Terminal \cup {"absent", "stopping"}]
    /\ serial \in [Sessions -> Serials \cup {NoSerial}]
    /\ reason \in [Sessions -> Cleaners \cup {"none"}]
    /\ kept \subseteq Sessions
    /\ claim \in [Serials -> Sessions \cup {NoSession}]
    /\ starter \in [Sessions -> StarterPlaces]
    /\ forward \subseteq Sessions
    /\ server \in [Sessions -> {"none", "alive", "exited"}]
    /\ attached \subseteq Sessions
    /\ watch \in [Sessions -> {"none", "waiting", "drain", "done"}]
    /\ cleaning \in [Sessions -> [Cleaners -> CleanPlaces]]
    /\ monitor \in BOOLEAN
    /\ todo \subseteq Sessions

(* A session that is up and that nobody asked to stop is registered and     *)
(* holds the claim of its device: the stop of an earlier session of that    *)
(* device, still running when this one took the claim over, must not drop   *)
(* it (_retire_session), and so a device never serves two of them.          *)
ClaimHeld ==
    \A s \in Sessions :
        state[s] \in Active /\ reason[s] = "none" => s \in kept /\ claim[serial[s]] = s

(* _prune_terminated bounds the finished sessions that are kept, whichever  *)
(* coroutine finished them; only those that a failed start has yet to       *)
(* retire are beyond the bound.                                             *)
Backlog == {s \in kept : state[s] \in Terminal /\ ~CleanedBy(s, "starter")}

BacklogBounded == Cardinality(Backlog) <= MaxRetained

(* A registered session that has ended, and that no coroutine works on any  *)
(* more, has no adb forward and no scrcpy server left on the device.        *)
NothingLeft ==
    \A s \in kept :
        process # "down" /\ state[s] \in Terminal /\ Quiet(s) =>
            s \notin forward /\ server[s] # "alive"

(* A stop that began is finished while the service is up: the clean-ups of  *)
(* the client, the monitor, the watch task and a failed start that overlap  *)
(* never wait for one another in a circle, and none is torn for good.       *)
StopsEnd ==
    \A s \in Sessions : state[s] = "stopping" ~> (state[s] # "stopping" \/ process # "up")

(* A session whose server has exited does not stay RUNNING, unless it is    *)
(* one whose stop came before its start returned.                           *)
DeadServerNoticed ==
    \A s \in Sessions :
        (state[s] = "running" /\ reason[s] = "none" /\ server[s] = "exited")
            ~> (state[s] # "running" \/ process # "up")

(* Nor does a registered one whose device is gone for good.                 *)
LostDeviceNoticed ==
    \A s \in Sessions :
        (state[s] = "running" /\ Lost(s)) ~> (state[s] # "running" \/ ~Lost(s) \/ process # "up")

(* What _prune_terminated says of finished sessions: clients read their     *)
(* final state.  It does not hold: a session stopped while it starts is     *)
(* RUNNING when its start returns.                                          *)
TerminalIsFinal ==
    [][\A s \in Sessions : state[s] \in Terminal => state'[s] \in Terminal]_vars

(* What the documentation says of the shutdown: the session manager is      *)
(* closed before the host exits.  It does not hold: close() cancels the     *)
(* monitor in the middle of a stop, and skips a session that is STOPPING.   *)
ClosedIsReleased ==
    process = "down" => \A s \in Sessions : s \notin forward /\ state[s] # "stopping"

=============================================================================
