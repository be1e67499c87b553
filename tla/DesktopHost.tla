---------------------------- MODULE DesktopHost ----------------------------
(* The desktop program: the window (desktop/gui.py) whose thread starts and *)
(* stops the embedded server through ServerController (controller.py), the  *)
(* status probes of its thread pool, and the server threads, which run the  *)
(* main loop of tools/run_bridge_service.py under a BridgeServiceRuntime.   *)
EXTENDS Integers, FiniteSets

CONSTANTS
  MaxStarts,    \* bound: threads started
  MaxEvents,    \* bound: clicks, timer ticks, restarts and changes of `other` together
  MaxOthers     \* bound: changes of the other process at the same address

ASSUME HostAssumption == MaxStarts \in Nat \ {0} /\ MaxEvents \in Nat /\ MaxOthers \in Nat

None == 0
Threads == 1..MaxStarts
States == {"stopped", "starting", "running", "external", "stopping", "error"}

VARIABLES
  state,      \* ServerController._state
  owned,      \* ServerController._thread and _runtime: the thread, or None
  server,     \* each thread: where it is, and its runtime and Uvicorn server
  other,      \* what listens at the address besides: "none", "current", "other"
  gui,        \* what the window's thread is doing
  after,      \* what it does once stop() has returned
  cached,     \* ServerWindow._cached_state
  probe,      \* the status probe under way
  queued,     \* ServerWindow._pending_force_refresh
  owed,       \* ghost: a forced refresh no later probe has answered
  events,     \* clicks, ticks and restarts so far
  others      \* changes of `other` so far

vars == <<state, owned, server, other, gui, after, cached, probe, queued, owed, events, others>>
controller == <<state, owned>>
window == <<gui, after, cached, queued, owed, events>>
outside == <<other, others>>

(* A thread passes main's check, classifies the address, creates and        *)
(* attaches the server, serves, closes, and is alive until it has reported. *)
Phases == {"unused", "loop", "classifying", "creating", "attached", "serving", "closing",
           "detached", "returned", "reported", "ended"}
Unused == [phase |-> "unused", shutdown |-> FALSE, attached |-> FALSE, exit |-> FALSE,
           restart |-> FALSE, code |-> 0]
Idle == [step |-> "idle", answer |-> FALSE, seen |-> "stopped", late |-> FALSE]

Alive(i) == server[i].phase \notin {"unused", "ended"}
OwnedAlive == owned # None /\ Alive(owned)
Answers == other = "current" \/ \E i \in Threads : server[i].phase = "serving"

(* stop() holds the controller's lock until the shutdown is signalled.      *)
Unlocked == gui # "signalling"

Set(i, fields) == server' = [server EXCEPT ![i] = fields]
At(i, phase) == server[i].phase = phase

-----------------------------------------------------------------------------
(* The server thread: main's loop                                           *)

(* Each round begins with the shutdown flag.                                *)
Check(i) ==
  /\ At(i, "loop")
  /\ Set(i, [server[i] EXCEPT !.phase = IF server[i].shutdown THEN "returned" ELSE "classifying", !.code = 0])
  /\ UNCHANGED <<controller, window, outside, probe>>

(* _classify_existing_service: the same program at the address is left in   *)
(* peace, another one is an error.                                          *)
Classify(i) ==
  /\ At(i, "classifying")
  /\ Set(i, CASE other = "none" -> [server[i] EXCEPT !.phase = "creating"]
              [] other = "current" -> [server[i] EXCEPT !.phase = "returned"]
              [] other = "other" -> [server[i] EXCEPT !.phase = "returned", !.code = 4])
  /\ UNCHANGED <<controller, window, outside, probe>>

(* BridgeServiceRuntime.attach: a shutdown that came first is passed on.    *)
(* Mutant: a shutdown that came before the server is forgotten.             *)
AttachForgets(i) ==
  /\ At(i, "creating")
  /\ Set(i, [server[i] EXCEPT !.phase = "attached", !.attached = TRUE, !.exit = FALSE,
                              !.restart = FALSE])
  /\ UNCHANGED <<controller, window, outside, probe>>

Attach(i) ==
  /\ At(i, "creating")
  /\ Set(i, [server[i] EXCEPT !.phase = "attached", !.attached = TRUE, !.exit = server[i].shutdown,
                              !.restart = FALSE])
  /\ UNCHANGED <<controller, window, outside, probe>>

Serve(i) ==
  /\ At(i, "attached") /\ other = "none"
  /\ Set(i, [server[i] EXCEPT !.phase = "serving"])
  /\ UNCHANGED <<controller, window, outside, probe>>

(* The listener cannot be opened: a LAN address is given up and main goes   *)
(* round with the local one, a local one is the end.                        *)
ServeFails(i) ==
  /\ At(i, "attached") /\ other # "none"
  /\ \E lan \in BOOLEAN :
       Set(i, [server[i] EXCEPT !.phase = IF lan THEN "loop" ELSE "returned", !.code = 3,
                                !.attached = FALSE])
  /\ UNCHANGED <<controller, window, outside, probe>>

(* An exception that main does not expect leaves it.                        *)
Raises(i) ==
  /\ At(i, "creating")
  /\ Set(i, [server[i] EXCEPT !.phase = "returned", !.code = 1])
  /\ UNCHANGED <<controller, window, outside, probe>>

(* The request_restart of the network endpoints.                            *)
RequestRestart(i) ==
  /\ At(i, "serving") /\ events + others < MaxEvents
  /\ Set(i, [server[i] EXCEPT !.restart = TRUE, !.exit = TRUE])
  /\ events' = events + 1
  /\ UNCHANGED <<controller, gui, after, cached, queued, owed, outside, probe>>

Exit(i) ==
  /\ At(i, "serving") /\ server[i].exit
  /\ Set(i, [server[i] EXCEPT !.phase = "closing"])
  /\ UNCHANGED <<controller, window, outside, probe>>

(* BridgeServiceRuntime.detach, and whether _serve_once asks for a round    *)
(* more; main looks at the flag again before it takes one.                  *)
Detach(i) ==
  /\ At(i, "closing")
  /\ Set(i, [server[i] EXCEPT !.phase = "detached", !.attached = FALSE,
                              !.restart = @ /\ ~server[i].shutdown])
  /\ UNCHANGED <<controller, window, outside, probe>>

Round(i) ==
  /\ At(i, "detached")
  /\ Set(i, [server[i] EXCEPT !.phase = IF server[i].restart /\ ~server[i].shutdown THEN "loop" ELSE "returned",
                              !.code = 0])
  /\ UNCHANGED <<controller, window, outside, probe>>

(* _run_server, once main has returned or raised.                           *)
Report(i) ==
  /\ At(i, "returned") /\ Unlocked
  /\ state' = IF server[i].code # 1 /\ (state = "stopping" \/ server[i].shutdown \/ server[i].code = 0)
              THEN "stopped" ELSE "error"
  /\ Set(i, [server[i] EXCEPT !.phase = "reported", !.code = 0, !.exit = FALSE, !.restart = FALSE])
  /\ UNCHANGED <<owned, window, outside, probe>>

End(i) ==
  /\ At(i, "reported")
  /\ Set(i, [Unused EXCEPT !.phase = "ended"])
  /\ UNCHANGED <<controller, window, outside, probe>>

Work(i) ==
  \/ Check(i) \/ Classify(i) \/ Attach(i) \/ Raises(i) \/ Serve(i) \/ ServeFails(i)
  \/ Exit(i) \/ Round(i) \/ Report(i) \/ End(i)

-----------------------------------------------------------------------------
(* ServerController, called by the window's thread                          *)

CanStart == \E i \in Threads : At(i, "unused")   \* a bound: MaxStarts

(* Mutant: a thread that is still alive is no obstacle.                     *)
StartsAnyway ==
  \E i \in Threads :
    /\ At(i, "unused") /\ \A j \in Threads : j < i => ~At(j, "unused")
    /\ Set(i, [Unused EXCEPT !.phase = "loop"])
    /\ state' = "starting" /\ owned' = i

(* start(): refused while a thread is alive.                                *)
Starts ==
  IF OwnedAlive THEN UNCHANGED <<controller, server>>
  ELSE \E i \in Threads :
         /\ At(i, "unused") /\ \A j \in Threads : j < i => ~At(j, "unused")
         /\ Set(i, [Unused EXCEPT !.phase = "loop"])
         /\ state' = "starting" /\ owned' = i

(* _refresh: one probe at a time; a forced refresh that finds one under way *)
(* is queued behind it.                                                     *)
Refreshes(force) ==
  /\ owed' = (owed \/ force)
  /\ IF probe.step # "idle"
     THEN queued' = (queued \/ force) /\ probe' = [probe EXCEPT !.late = @ \/ force]
     ELSE probe' = [Idle EXCEPT !.step = "asking"] /\ UNCHANGED queued

(* stop(), first part: nothing to stop, or the shutdown is signalled in two *)
(* steps, the flag and then the server, and the thread is joined.           *)
StopBegins(then) ==
  /\ after' = then
  /\ IF OwnedAlive
     THEN /\ state' = "stopping" /\ gui' = "signalling"
          /\ Set(owned, [server[owned] EXCEPT !.shutdown = TRUE])
     ELSE /\ state' = "stopped" /\ gui' = "stopped"
          /\ UNCHANGED server
  /\ UNCHANGED <<owned, probe, queued, owed>>

StopSignals ==
  /\ gui = "signalling" /\ gui' = "joining"
  /\ Set(owned, [server[owned] EXCEPT !.exit = @ \/ server[owned].attached])
  /\ UNCHANGED <<controller, after, cached, queued, owed, events, outside, probe>>

StopJoins ==
  /\ gui = "joining" /\ ~Alive(owned)
  /\ state' = "stopped" /\ owned' = None /\ gui' = "stopped"
  /\ UNCHANGED <<server, after, cached, queued, owed, events, outside, probe>>

(* Mutant: the state is not corrected.                                      *)
StopTimesOutSilently ==
  /\ gui = "joining" /\ Alive(owned)
  /\ gui' = "failed"
  /\ UNCHANGED <<controller, server, after, cached, queued, owed, events, outside, probe>>

StopTimesOut ==
  /\ gui = "joining" /\ Alive(owned)
  /\ state' = "error" /\ gui' = "failed"
  /\ UNCHANGED <<owned, server, after, cached, queued, owed, events, outside, probe>>

(* What follows stop(): the second half of restart(), the refresh after a   *)
(* click, the end of the program.                                           *)
StopReturns ==
  /\ gui \in {"stopped", "failed"}
  /\ IF after = "exit" THEN gui' = "gone" ELSE gui' = "idle"
  /\ IF after = "restart" /\ gui = "stopped" THEN Starts ELSE UNCHANGED <<controller, server>>
  /\ IF after = "toggle" \/ (after = "restart" /\ gui = "stopped")
     THEN Refreshes(TRUE) ELSE UNCHANGED <<probe, queued, owed>>
  /\ UNCHANGED <<after, cached, events, outside>>

-----------------------------------------------------------------------------
(* The window                                                               *)

Click == gui = "idle" /\ events + others < MaxEvents /\ events' = events + 1 /\ UNCHANGED outside

(* _toggle_server goes by the state of the last snapshot.                   *)
ToggleStops ==
  /\ Click /\ cached \in {"running", "starting"}
  /\ StopBegins("toggle")
  /\ UNCHANGED cached

ToggleRefused ==
  /\ Click /\ cached = "external"
  /\ Refreshes(TRUE)
  /\ UNCHANGED <<controller, server, gui, after, cached>>

(* The button is disabled while the last snapshot said "stopping".          *)
ToggleStarts ==
  /\ Click /\ cached \in {"stopped", "error"} /\ CanStart
  /\ Starts
  /\ Refreshes(TRUE)
  /\ UNCHANGED <<gui, after, cached>>

ClickRestart ==
  /\ Click /\ cached # "external" /\ CanStart
  /\ StopBegins("restart")
  /\ UNCHANGED cached

RequestExit ==
  /\ Click
  /\ StopBegins("exit")
  /\ UNCHANGED cached

TimerTick ==
  /\ Click
  /\ Refreshes(FALSE)
  /\ UNCHANGED <<controller, server, gui, after, cached>>

(* _apply_snapshot and _status_failed both end in _status_finished, which   *)
(* starts the probe that was queued.                                        *)
Finishes ==
  /\ probe' = IF queued THEN [Idle EXCEPT !.step = "asking"] ELSE Idle
  /\ queued' = FALSE
  /\ owed' = (owed /\ probe.late)

StatusReady ==
  /\ gui = "idle" /\ probe.step = "ready"
  /\ cached' = probe.seen
  /\ Finishes
  /\ UNCHANGED <<controller, server, gui, after, events, outside>>

(* Mutant: a failed probe leaves the queued one behind.                     *)
StatusFailedOnly ==
  /\ gui = "idle" /\ probe.step = "failed"
  /\ probe' = Idle /\ owed' = (owed /\ probe.late)
  /\ UNCHANGED <<controller, server, gui, after, cached, queued, events, outside>>

StatusFailed ==
  /\ gui = "idle" /\ probe.step = "failed"
  /\ Finishes
  /\ UNCHANGED <<controller, server, gui, after, cached, events, outside>>

-----------------------------------------------------------------------------
(* snapshot(), in the thread pool: the address is asked first, and the      *)
(* state follows from the answer under the lock later.                      *)

Ask ==
  /\ probe.step = "asking"
  /\ probe' = [probe EXCEPT !.step = "asked", !.answer = Answers]
  /\ UNCHANGED <<controller, server, window, outside>>

Judged(answer) ==
  CASE state = "stopping" -> state
    [] state # "stopping" /\ answer -> IF OwnedAlive THEN "running" ELSE "external"
    [] state # "stopping" /\ ~answer ->
         IF state = "error" THEN state ELSE IF OwnedAlive THEN "starting" ELSE "stopped"

Judge ==
  /\ probe.step = "asked" /\ Unlocked
  /\ state' = Judged(probe.answer)
  /\ probe' = [probe EXCEPT !.step = "ready", !.seen = state', !.answer = FALSE]
  /\ UNCHANGED <<owned, server, window, outside>>

ProbeFails ==
  /\ probe.step = "asked"
  /\ probe' = [probe EXCEPT !.step = "failed", !.answer = FALSE]
  /\ UNCHANGED <<controller, server, window, outside>>

-----------------------------------------------------------------------------
(* Another process takes or leaves the address.                             *)
OtherProcess ==
  /\ others < MaxOthers /\ events + others < MaxEvents /\ others' = others + 1
  /\ other' \in {"none", "current", "other"} \ {other}
  /\ other' # "none" => \A i \in Threads : ~At(i, "serving")
  /\ UNCHANGED <<controller, server, window, probe>>

(* run_desktop_app starts the server and asks for the first status.         *)
Init ==
  /\ state = "starting" /\ owned = 1
  /\ server = [i \in Threads |-> IF i = 1 THEN [Unused EXCEPT !.phase = "loop"] ELSE Unused]
  /\ other \in {"none", "current", "other"}
  /\ gui = "idle" /\ after = "toggle" /\ cached = "stopped"
  /\ probe = [Idle EXCEPT !.step = "asking"]
  /\ queued = FALSE /\ owed = FALSE /\ events = 0 /\ others = 0

Next ==
  \/ \E i \in Threads : Work(i) \/ Detach(i) \/ RequestRestart(i)
  \/ StopSignals \/ StopJoins \/ StopTimesOut \/ StopReturns
  \/ ToggleStops \/ ToggleRefused \/ ToggleStarts \/ ClickRestart \/ RequestExit \/ TimerTick
  \/ StatusReady \/ StatusFailed \/ Ask \/ Judge \/ ProbeFails
  \/ OtherProcess

Spec == Init /\ [][Next]_vars

(* Threads run, but Uvicorn may wait forever for its connections to end;    *)
(* the window's thread handles what is delivered to it and comes back from  *)
(* every call; nothing is assumed of the user or the timer.                 *)
FairSpec ==
  /\ Spec
  /\ \A i \in Threads : WF_vars(Work(i))
  /\ WF_vars(StopSignals) /\ WF_vars(StopJoins \/ StopTimesOut) /\ WF_vars(StopReturns)
  /\ WF_vars(StatusReady \/ StatusFailed) /\ WF_vars(Ask) /\ WF_vars(Judge)

-----------------------------------------------------------------------------
TypeOK ==
  /\ state \in States /\ cached \in States
  /\ owned \in Threads \cup {None}
  /\ server \in [Threads -> [phase : Phases, shutdown : BOOLEAN, attached : BOOLEAN, exit : BOOLEAN,
                             restart : BOOLEAN, code : {0, 1, 3, 4}]]
  /\ other \in {"none", "current", "other"}
  /\ gui \in {"idle", "signalling", "joining", "stopped", "failed", "gone"}
  /\ after \in {"toggle", "restart", "exit"}
  /\ probe \in [step : {"idle", "asking", "asked", "ready", "failed"}, answer : BOOLEAN,
                seen : States, late : BOOLEAN]
  /\ queued \in BOOLEAN /\ owed \in BOOLEAN
  /\ events \in 0..MaxEvents /\ others \in 0..MaxOthers

(* The only server thread that is alive is the one the controller can stop, *)
(* whatever stops time out and whatever is clicked meanwhile.               *)
AliveIsOwned ==
  \A i \in Threads : Alive(i) => owned = i

(* A signalled shutdown reaches the thread wherever it is in its loop,      *)
(* before it attaches its server, while it serves or between two rounds:    *)
(* even if stop() gave up waiting, it ends or closes its connections.       *)
ShutdownEnds ==
  \A i \in Threads : server[i].shutdown ~> server[i].phase \in {"closing", "ended"}

(* "It resolves itself to STOPPED or, on timeout, to ERROR rather than      *)
(* parking here forever" (controller.py, snapshot).                         *)
StoppingResolves ==
  state = "stopping" ~> state # "stopping"

(* A forced refresh is answered by a probe that began after it, without the *)
(* help of the timer, whatever probe was under way and however it ended;    *)
(* only the end of the program is an excuse.                                *)
RefreshIsAnswered ==
  owed ~> (~owed \/ gui = "gone")

(* Where nothing else ever listens, no server is called external:           *)
(* "A DroidWebDisplay server started outside this desktop host is already   *)
(* using this URL" (gui.py, _toggle_server).                                *)
ExternalIsOutside ==
  state = "external" /\ MaxOthers = 0 => other = "current"
=============================================================================
