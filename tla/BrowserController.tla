-------------------------- MODULE BrowserController --------------------------
(***************************************************************************)
(* The page's session controller (apps/web-client/src/controller.ts): the  *)
(* Connect button, automatic reconnection and the failure of a stream,     *)
(* over one connection to the bridge.  The page has one thread; what its   *)
(* asynchronous functions do between two awaits is one action, written as  *)
(* a function from page to page, and each function that is under way is a  *)
(* task with the place of its await.                                       *)
(*                                                                         *)
(* The bridge is reduced to what the page sees of it: lists of phones, a   *)
(* session per phone, its sockets, and answers that may be errors.         *)
(***************************************************************************)
EXTENDS Integers, FiniteSets

CONSTANTS Phones,
          Sessions,     \* sessions alive at once; an id is reused when nothing refers to it
          MaxTasks,     \* bound: asynchronous functions under way at once
          Attempts,     \* the retry budget chosen on the page (10 or 100)
          Worlds,       \* what may happen around the page: see Surroundings
          MaxTroubles,  \* bound: errors and losses
          MaxActs       \* bound: acts of the user

Tasks == 1..MaxTasks
None == "none"
Troubles == {"list", "start", "open", "launch", "stop", "stream", "decode", "plug"}

(* phones: those there are.  troubles: what may fail.  presses: the user    *)
(* presses Connect.  patient: he leaves the button alone while a connection *)
(* is made or undone, and until his last press has had its effect.          *)
(* settings: he changes the phone, the switch and the retry budget.         *)
(* launch: an application is started on connection.  late: what the sockets *)
(* carry may arrive after the answers to later requests.  unload: he closes *)
(* the page.                                                                *)
Surroundings == [phones : SUBSET Phones, troubles : SUBSET Troubles, presses : BOOLEAN, patient : BOOLEAN,
                 settings : BOOLEAN, launch : BOOLEAN, late : BOOLEAN, unload : BOOLEAN]

ASSUME BrowserAssumption ==
    /\ None \notin Phones /\ None \notin Sessions
    /\ IsFiniteSet(Phones) /\ IsFiniteSet(Sessions)
    /\ MaxTasks \in Nat /\ MaxTroubles \in Nat /\ MaxActs \in Nat
    /\ Attempts \in Nat \ {0}
    /\ \A w \in Worlds : w \in Surroundings

VARIABLES world,
          plugged,   \* phones that adb would list as ready
          page,      \* the controller's fields and the elements it reads back
          task,      \* asynchronous functions under way
          sess,      \* sessions: on the bridge, their sockets, and the loop that reads them
          gone,      \* the page is closed
          left,      \* history: phones the user has disconnected and not asked for since
          troubles, acts

vars == <<world, plugged, page, task, sess, gone, left, troubles, acts>>

Idle == [at |-> "idle", by |-> None, phone |-> None, target |-> None, protocol |-> None, session |-> None]
NoSession == [state |-> "free", phone |-> None, shut |-> FALSE, loop |-> FALSE]

-----------------------------------------------------------------------------
(* What the synchronous parts do to the page.                               *)

(* updateConnectAvailability *)
Offered(p) == [p EXCEPT !.button = p.server # None \/ (~p.connecting /\ p.selected # None)]

(* setConnectedControls *)
Shown(p, connected) ==
    IF connected THEN [p EXCEPT !.label = "Disconnect", !.button = TRUE]
    ELSE Offered([p EXCEPT !.label = "Connect"])

(* The decision is neither "disabled" nor "busy"; the decision is "connect". *)
Wants(p) == p.enabled /\ p.server = None /\ ~p.connecting
(* Mutant: a phone that the user has disconnected is like any other.        *)
DecidesAgain(p) == Wants(p) /\ p.selected \notin {None, p.blocked}
Decides(p) == Wants(p) /\ p.selected \notin {None, p.paused, p.blocked}

(* scheduleUsbAutoConnect *)
Watched(p) == [p EXCEPT !.timer = Wants(p)]

(* scheduleReconnect *)
Rescheduled(p) ==
    Watched(IF p.enabled /\ p.count >= Attempts
            THEN [p EXCEPT !.blocked = IF p.suspect # None THEN p.suspect ELSE p.selected]
            ELSE p)

(* recordAutoConnectFailure *)
Missed(p, phone) ==
    Rescheduled([p EXCEPT !.count = IF p.suspect = phone THEN @ + 1 ELSE 1, !.suspect = phone])

Pardoned(p) == [p EXCEPT !.blocked = None, !.suspect = None, !.count = 0]

(* refreshDevices: what the list lacks is forgiven, and the selection kept  *)
(* or made anew.                                                            *)
Selections(p, phones) ==
    IF p.selected \in phones THEN {p.selected} ELSE IF phones = {} THEN {None} ELSE phones

Relisted(p, phones, selection) ==
    LET Lost(phone) == phone # None /\ phone \notin phones IN
    Offered([p EXCEPT !.listed = phones, !.selected = selection,
                      !.paused = IF Lost(@) THEN None ELSE @,
                      !.suspect = IF Lost(@) THEN None ELSE @,
                      !.blocked = IF Lost(@) THEN None ELSE @,
                      !.count = IF Lost(p.suspect) \/ Lost(p.blocked) THEN 0 ELSE @])

(* The fields that cleanupSession clears before its first await; what they  *)
(* held goes with the task.                                                 *)
Cleared(p) == [p EXCEPT !.server = None, !.protocol = None, !.stopped = TRUE]

(* How connect() leaves the caller that it fails: connectByUser, or the     *)
(* cycle of automatic connection.  Mutant: without a phone there is nothing *)
(* to try again.                                                            *)
RejectedIdle(p, by, phone) ==
    IF phone # None /\ p.enabled /\ (by = "press" \/ ~p.closing) THEN Missed(p, phone) ELSE p
Rejected(p, by, phone) ==
    CASE by = "press" /\ phone # None /\ p.enabled -> Missed(p, phone)
      [] by = "cycle" /\ p.enabled /\ ~p.closing   -> IF phone = None THEN Watched(p) ELSE Missed(p, phone)
      [] OTHER -> p

(* What follows a clean-up: the end of disconnect, of handleStreamFailure,  *)
(* or of a connect that failed.                                             *)
Resumed(p, t) ==
    CASE t.by = "leave"   -> Watched(Shown([p EXCEPT !.closing = FALSE], FALSE))
      [] t.by = "failure" -> LET q == Shown(p, FALSE) IN
                             IF q.enabled
                             THEN Rescheduled([q EXCEPT !.suspect = t.phone, !.count = 0, !.blocked = None])
                             ELSE q
      [] OTHER -> Rejected(Offered([Shown(p, FALSE) EXCEPT !.connecting = FALSE]), t.by, t.phone)

-----------------------------------------------------------------------------
(* initialize() has returned with the list of phones.                       *)
Init ==
    /\ world \in Worlds
    /\ plugged \in SUBSET world.phones
    /\ \E selection \in IF plugged = {} THEN {None} ELSE plugged :
         page = [selected |-> selection, listed |-> plugged, enabled |-> TRUE,
                 button |-> plugged # {}, label |-> "Connect", server |-> None, protocol |-> None,
                 connecting |-> FALSE, closing |-> FALSE, stopped |-> FALSE, timer |-> TRUE,
                 paused |-> None, blocked |-> None, suspect |-> None, count |-> 0]
    /\ task = [t \in Tasks |-> Idle]
    /\ sess = [s \in Sessions |-> NoSession]
    /\ gone = FALSE
    /\ left = {}
    /\ troubles = 0 /\ acts = 0

Free(t) == task[t] = Idle /\ \A u \in 1..(t - 1) : task[u] # Idle
Goes(t, where) == task' = [task EXCEPT ![t] = where]
Ends(t) == Goes(t, Idle)
(* Mutant: the session is read when its field is cleared.                   *)
ClearingLate(by, phone) ==
    [Idle EXCEPT !.at = "close", !.by = by, !.phone = phone, !.protocol = page.protocol]
Clearing(by, phone) ==
    [Idle EXCEPT !.at = "close", !.by = by, !.phone = phone, !.protocol = page.protocol, !.session = page.server]

Trouble(kind) ==
    /\ kind \in world.troubles /\ troubles < MaxTroubles
    /\ troubles' = troubles + 1
Act == acts < MaxActs /\ acts' = acts + 1

Claimed(phone) == \E s \in Sessions : sess[s].state = "running" /\ sess[s].phone = phone
Spare(s) ==
    /\ sess[s].state # "running" /\ ~sess[s].loop
    /\ s \notin {page.server, page.protocol}
    /\ \A t \in Tasks : s \notin {task[t].session, task[t].protocol}

-----------------------------------------------------------------------------
(* The user.                                                                *)

(* handleConnectButton: disconnect() when there is a session, reconnectNow() *)
(* otherwise, whatever the button reads.                                    *)
Leaves(t) ==
    /\ page.server # None
    /\ page' = Cleared([page EXCEPT !.closing = TRUE, !.timer = FALSE, !.paused = sess[page.server].phone])
    /\ Goes(t, Clearing("leave", None))
    /\ left' = left \cup {sess[page.server].phone}

Reconnects(t) ==
    /\ page.server = None /\ world.presses
    /\ page' = [page EXCEPT !.timer = FALSE]
    /\ Goes(t, [Idle EXCEPT !.at = "list", !.by = "press"])
    /\ left' = {}

Press(t) ==
    /\ page.button /\ Free(t) /\ Act
    /\ world.patient => ~page.connecting /\ \A u \in Tasks : task[u].by # "press" /\ task[u].at \notin {"close", "stop"}
    /\ Leaves(t) \/ Reconnects(t)
    /\ UNCHANGED <<world, plugged, sess, gone, troubles>>

(* The device element changes. *)
Choose(t) ==
    /\ world.settings /\ Free(t) /\ Act
    /\ \E phone \in page.listed \ {page.selected} :
         /\ page' = Pardoned([page EXCEPT !.selected = phone, !.paused = None])
         /\ Goes(t, [Idle EXCEPT !.at = "probe", !.by = "choice", !.phone = phone])
    /\ left' = {}
    /\ UNCHANGED <<world, plugged, sess, gone, troubles>>

(* handleAutoReconnectChange; the switch is disabled while a connection is  *)
(* made.                                                                    *)
Switch ==
    /\ world.settings /\ ~page.connecting /\ Act
    /\ LET quiet == Pardoned([page EXCEPT !.enabled = ~@, !.timer = FALSE]) IN
       page' = IF page.enabled THEN quiet
               ELSE IF page.server = None THEN Watched([quiet EXCEPT !.paused = None])
               ELSE [quiet EXCEPT !.paused = None]
    /\ left' = IF page.enabled THEN left ELSE {}
    /\ UNCHANGED <<world, plugged, task, sess, gone, troubles>>

(* The retry budget changes. *)
Rebudget ==
    /\ world.settings /\ Act
    /\ page.server = None /\ page.enabled
    /\ page' = Watched(Pardoned(page))
    /\ UNCHANGED <<world, plugged, task, sess, gone, left, troubles>>

(* The list of phones is opened, or a display option changes. *)
Look ==
    /\ Act
    /\ \/ \E selection \in Selections(page, plugged) : page' = Relisted(page, plugged, selection)
       \/ page' = Offered(page)
    /\ UNCHANGED <<world, plugged, task, sess, gone, left, troubles>>

(* stopOnUnload, and the browser closes the sockets.                        *)
Unload ==
    /\ world.unload
    /\ gone' = TRUE
    /\ page' = [page EXCEPT !.closing = TRUE, !.timer = FALSE]
    /\ task' = [t \in Tasks |-> IF task[t].at = "start" THEN task[t] ELSE Idle]
    /\ sess' = [s \in Sessions |-> [sess[s] EXCEPT !.shut = TRUE, !.loop = FALSE]]
    /\ UNCHANGED <<world, plugged, left, troubles, acts>>

-----------------------------------------------------------------------------
(* connect() begins, in a page p that its caller leaves.                    *)
Connects(t, p, by, phone) ==
    CASE p.server # None \/ p.connecting -> page' = p /\ Ends(t)
      [] p.server = None /\ ~p.connecting /\ p.selected = None ->
            page' = Rejected(p, by, phone) /\ Ends(t)
      [] OTHER ->
            /\ page' = [p EXCEPT !.connecting = TRUE, !.timer = FALSE, !.button = FALSE]
            /\ Goes(t, [Idle EXCEPT !.at = "start", !.by = by, !.phone = phone, !.target = p.selected])

(* The timer of scheduleUsbAutoConnect: runUsbAutoConnectCycle begins.      *)
TimerFires(t) ==
    /\ page.timer /\ Free(t)
    /\ page' = [page EXCEPT !.timer = FALSE]
    /\ IF Wants(page) THEN Goes(t, [Idle EXCEPT !.at = "list", !.by = "cycle", !.phone = page.selected])
       ELSE UNCHANGED task
    /\ UNCHANGED <<world, plugged, sess, gone, left, troubles, acts>>

(* The devices are listed.  reconnectNow probes the capabilities in any     *)
(* case, the cycle when the phone is new or nothing is known of it.         *)
Listed(t) ==
    /\ task[t].at = "list"
    /\ \E selection \in Selections(page, plugged) :
         LET p == Relisted(page, plugged, selection)
             probe == [task[t] EXCEPT !.at = "probe", !.phone = selection]
         IN
         \/ /\ task[t].by = "press"
            /\ page' = p /\ Goes(t, probe)
         \/ /\ task[t].by = "cycle" /\ Decides(p)
            /\ \/ page' = p /\ Goes(t, probe)
               \/ selection = task[t].phone /\ Connects(t, p, "cycle", selection)
         \/ /\ task[t].by = "cycle" /\ ~Decides(p)
            /\ page' = IF Wants(p) THEN Watched(p) ELSE p
            /\ Ends(t)
    /\ UNCHANGED <<world, plugged, sess, gone, left, troubles, acts>>

ListFails(t) ==
    /\ task[t].at = "list"
    /\ Trouble("list")
    /\ page' = IF task[t].by = "cycle" THEN Rejected(page, "cycle", page.selected) ELSE page
    /\ Ends(t)
    /\ UNCHANGED <<world, plugged, sess, gone, left, acts>>

(* refreshVirtualCapabilities returns, and the caller goes on: as           *)
(* connectByUser, as the cycle that decides once more, or as the listener   *)
(* of the device element.                                                   *)
Probed(t) ==
    /\ task[t].at = "probe"
    /\ LET p == IF page.selected = task[t].phone THEN Offered(page) ELSE page IN
       \/ /\ task[t].by = "press"
          /\ Connects(t, Pardoned([p EXCEPT !.timer = FALSE, !.paused = None]), "press", p.selected)
       \/ /\ task[t].by = "cycle" /\ Decides(p)
          /\ Connects(t, p, "cycle", task[t].phone)
       \/ /\ \/ task[t].by = "cycle" /\ ~Decides(p)
             \/ task[t].by = "choice"
          /\ page' = IF Wants(p) THEN Watched(p) ELSE p
          /\ Ends(t)
    /\ UNCHANGED <<world, plugged, sess, gone, left, troubles, acts>>

(* POST /sessions answers.  A page that is gone does not hear of it.        *)
Started(t) ==
    /\ task[t].at = "start"
    /\ task[t].target \in plugged /\ ~Claimed(task[t].target)
    /\ \E s \in Sessions :
         /\ Spare(s)
         /\ sess' = [sess EXCEPT ![s] = [NoSession EXCEPT !.state = "running", !.phone = task[t].target]]
         /\ IF gone THEN UNCHANGED page /\ Ends(t)
            ELSE page' = [page EXCEPT !.server = s] /\ Goes(t, [task[t] EXCEPT !.at = "open", !.session = s])
    /\ UNCHANGED <<world, plugged, gone, left, troubles, acts>>

(* A connect that fails cleans up what the page holds by then.              *)
ConnectFails(t) ==
    /\ page' = Cleared(page)
    /\ Goes(t, Clearing(task[t].by, task[t].phone))
    /\ UNCHANGED <<world, plugged, sess, gone, left, acts>>

Fails(t, kind, anyway) == (anyway /\ UNCHANGED troubles) \/ Trouble(kind)

StartFails(t) ==
    /\ task[t].at = "start" /\ ~gone
    /\ Fails(t, "start", task[t].target \notin plugged \/ Claimed(task[t].target))
    /\ ConnectFails(t)

(* adapter.connect has opened the sockets and read the first headers: the   *)
(* session is the page's, and the renderer begins to read.                  *)
Opened(t) ==
    LET s == task[t].session
        p == Pardoned([Shown([page EXCEPT !.protocol = s], TRUE) EXCEPT !.stopped = FALSE, !.paused = None])
    IN
    /\ task[t].at = "open"
    /\ sess[s].state = "running" \/ world.late
    /\ sess' = [sess EXCEPT ![s].loop = TRUE]
    /\ IF world.launch THEN page' = p /\ Goes(t, [task[t] EXCEPT !.at = "launch"])
       ELSE page' = Offered([p EXCEPT !.connecting = FALSE]) /\ Ends(t)
    /\ UNCHANGED <<world, plugged, gone, left, troubles, acts>>

OpenFails(t) ==
    /\ task[t].at = "open"
    /\ Fails(t, "open", sess[task[t].session].state = "ended")
    /\ ConnectFails(t)

(* The application is asked for and the bridge told of it.                  *)
Launched(t) ==
    /\ task[t].at = "launch"
    /\ page' = Offered([page EXCEPT !.connecting = FALSE])
    /\ Ends(t)
    /\ UNCHANGED <<world, plugged, sess, gone, left, troubles, acts>>

LaunchFails(t) ==
    /\ task[t].at = "launch"
    /\ Fails(t, "launch", sess[task[t].session].state = "ended" \/ sess[task[t].session].shut)
    /\ ConnectFails(t)

-----------------------------------------------------------------------------
(* cleanupSession after its first await.  Closing the protocol session      *)
(* closes the sockets; without one nothing closes them.                     *)
ProtocolClosed(t) ==
    /\ task[t].at = "close"
    /\ sess' = [s \in Sessions |-> [sess[s] EXCEPT !.shut = @ \/ s = task[t].protocol]]
    /\ IF task[t].session = None THEN page' = Resumed(page, task[t]) /\ Ends(t)
       ELSE Goes(t, [task[t] EXCEPT !.at = "stop"]) /\ UNCHANGED page
    /\ UNCHANGED <<world, plugged, gone, left, troubles, acts>>

(* DELETE /sessions/<id> answers, or fails, which is ignored.               *)
StopAnswered(t) ==
    /\ task[t].at = "stop"
    /\ world.late \/ ~\E s \in Sessions : s = task[t].protocol /\ sess[s].loop
    /\ \/ sess' = [sess EXCEPT ![task[t].session].state = "ended"] /\ UNCHANGED troubles
       \/ Trouble("stop") /\ UNCHANGED sess
    /\ page' = Resumed(page, task[t])
    /\ Ends(t)
    /\ UNCHANGED <<world, plugged, gone, left, acts>>

(* The loop that reads the video of s rejects: handleStreamFailure cleans   *)
(* up the session of the page, of whichever stream the failure is.          *)
LoopRejects(s) ==
    /\ sess[s].loop
    /\ sess' = [sess EXCEPT ![s].loop = FALSE]
    /\ IF page.closing \/ page.server = None THEN UNCHANGED <<page, task>>
       ELSE \E t \in Tasks :
              /\ Free(t)
              /\ page' = Cleared(page)
              /\ Goes(t, Clearing("failure", sess[page.server].phone))

LoopEnds(s) ==
    /\ sess[s].state = "ended" \/ sess[s].shut
    /\ LoopRejects(s)
    /\ UNCHANGED <<world, plugged, gone, left, troubles, acts>>

LoopBreaks(s) ==
    /\ Trouble("decode")
    /\ LoopRejects(s)
    /\ UNCHANGED <<world, plugged, gone, left, acts>>

(* A packet arrives when the renderer is stopped: the loop returns.         *)
LoopReturns(s) ==
    /\ sess[s].loop /\ page.stopped
    /\ sess' = [sess EXCEPT ![s].loop = FALSE]
    /\ UNCHANGED <<world, plugged, page, task, gone, left, troubles, acts>>

-----------------------------------------------------------------------------
(* The bridge and the phones.                                               *)
SessionEnds(s) ==
    /\ sess[s].state = "running"
    /\ sess[s].shut \/ sess[s].phone \notin plugged
    /\ sess' = [sess EXCEPT ![s].state = "ended"]
    /\ UNCHANGED <<world, plugged, page, task, gone, left, troubles, acts>>

SessionDies(s) ==
    /\ sess[s].state = "running"
    /\ Trouble("stream")
    /\ sess' = [sess EXCEPT ![s].state = "ended"]
    /\ UNCHANGED <<world, plugged, page, task, gone, left, acts>>

Unplug(phone) ==
    /\ phone \in plugged
    /\ Trouble("plug")
    /\ plugged' = plugged \ {phone}
    /\ left' = left \ {phone}
    /\ UNCHANGED <<world, page, task, sess, gone, acts>>

Plug(phone) ==
    /\ phone \in world.phones \ plugged
    /\ plugged' = plugged \cup {phone}
    /\ left' = left \ {phone}
    /\ UNCHANGED <<world, page, task, sess, gone, troubles, acts>>

(* What one answer can do to the function that awaits it.                   *)
Answered(t) ==
    \/ Listed(t) \/ ListFails(t) \/ Probed(t)
    \/ Started(t) \/ StartFails(t) \/ Opened(t) \/ OpenFails(t) \/ Launched(t) \/ LaunchFails(t)
    \/ ProtocolClosed(t) \/ StopAnswered(t)

PageStep ==
    \/ \E t \in Tasks : Press(t) \/ Choose(t) \/ TimerFires(t) \/ Answered(t)
    \/ Switch \/ Rebudget \/ Look \/ Unload
    \/ \E s \in Sessions : LoopEnds(s) \/ LoopBreaks(s) \/ LoopReturns(s)

Next ==
    \/ ~gone /\ PageStep
    \/ gone /\ \E t \in Tasks : Started(t)
    \/ \E s \in Sessions : SessionEnds(s) \/ SessionDies(s)
    \/ \E phone \in Phones : Unplug(phone) \/ Plug(phone)

Spec == Init /\ [][Next]_vars

(* The bridge answers every request and the browser runs what is due; a     *)
(* session whose sockets or phone are gone ends, and its loop with it.      *)
Fairness ==
    /\ \A t \in Tasks : WF_vars(~gone /\ Answered(t)) /\ WF_vars(~gone /\ TimerFires(t))
    /\ \A s \in Sessions : WF_vars(SessionEnds(s)) /\ WF_vars(~gone /\ (LoopEnds(s) \/ LoopReturns(s)))

FairSpec == Spec /\ Fairness

-----------------------------------------------------------------------------
TypeOK ==
    /\ world \in Worlds /\ plugged \subseteq Phones /\ left \subseteq Phones
    /\ page \in [selected : Phones \cup {None}, listed : SUBSET Phones, enabled : BOOLEAN, button : BOOLEAN,
                 label : {"Connect", "Disconnect"}, server : Sessions \cup {None}, protocol : Sessions \cup {None},
                 connecting : BOOLEAN, closing : BOOLEAN, stopped : BOOLEAN, timer : BOOLEAN,
                 paused : Phones \cup {None}, blocked : Phones \cup {None}, suspect : Phones \cup {None},
                 count : Nat]
    /\ task \in [Tasks -> [at : {"idle", "list", "probe", "start", "open", "launch", "close", "stop"},
                           by : {None, "press", "cycle", "choice", "leave", "failure"},
                           phone : Phones \cup {None}, target : Phones \cup {None},
                           protocol : Sessions \cup {None}, session : Sessions \cup {None}]]
    /\ sess \in [Sessions -> [state : {"free", "running", "ended"}, phone : Phones \cup {None},
                              shut : BOOLEAN, loop : BOOLEAN]]
    /\ gone \in BOOLEAN /\ troubles \in 0..MaxTroubles /\ acts \in 0..MaxActs

(* A session that the bridge runs for this page is the page's session, is   *)
(* being cleaned up, or has lost its sockets, whose endpoint stops it:      *)
(* connect, disconnect and the failures of streams, old ones included, may  *)
(* overlap as they like.  (Stop requests are answered, and the page open.)  *)
Abandoned ==
    {s \in Sessions : /\ sess[s].state = "running" /\ ~sess[s].shut /\ page.server # s
                      /\ \A t \in Tasks : task[t].at \in {"close", "stop"} => task[t].session # s}

NothingAbandoned == gone \/ "stop" \in world.troubles \/ Abandoned = {}

(* A phone that the user has disconnected is not connected to again before  *)
(* he asks for it or it is plugged in anew: cycles that were under way      *)
(* before the disconnection, and pending timers, respect it.  (He leaves    *)
(* the button alone while a connection is being made or undone, and there   *)
(* is one phone or phones stay plugged in: the page remembers one.)         *)
Intrudes(t) ==
    /\ task[t].at # "start" /\ task'[t].at = "start"
    /\ task'[t].by = "cycle" /\ task'[t].target \in left

PauseHolds == [][world.patient => \A t \in Tasks : ~Intrudes(t)]_vars

(* While Reconnect is checked, a page without a session gets one, through   *)
(* failed lists, starts and streams and through its own timer, unless it is *)
(* paused, its budget is used up, there is no phone, or it is closed.       *)
Calm ==
    /\ ~world.late /\ ~world.launch
    /\ world.presses => world.troubles \cap {"list", "plug"} = {}

ReconnectWorks ==
    (Calm /\ page.enabled /\ page.protocol = None)
        ~> (page.protocol # None \/ ~page.enabled \/ page.paused # None \/ page.blocked # None
              \/ plugged = {} \/ gone)

-----------------------------------------------------------------------------
(* What does not hold; the README says why.                                 *)

(* The button does what it reads. *)
ButtonReadsTrue == page.button => (page.label = "Disconnect" <=> page.server # None)

(* A phone that the user has disconnected stays so, whenever he pressed.    *)
DisconnectStays == [][\A t \in Tasks : ~Intrudes(t)]_vars

(* A stream that fails ends its own session. *)
FailureIsOwn ==
    [][\A s \in Sessions : sess[s].loop /\ ~sess'[s].loop /\ page'.server # page.server
          => page.server = s]_vars

(* Reconnect watches for the phone whatever has failed before. *)
AlwaysWatching ==
    (page.enabled /\ page.protocol = None)
        ~> (page.protocol # None \/ ~page.enabled \/ page.paused # None \/ page.blocked # None
              \/ plugged = {} \/ gone)

(* No session is left to the bridge alone, even when the request to stop it *)
(* fails or the page is closed.                                             *)
NeverAbandoned == Abandoned = {}
=============================================================================
