----------------------- MODULE BrowserControllerProofs -----------------------
(***************************************************************************)
(* Theorems about BrowserController, for any phones, sessions and number   *)
(* of asynchronous functions under way: the page leaves no session behind, *)
(* and leaves alone a phone that its user has left.                        *)
(***************************************************************************)
EXTENDS BrowserController, TLAPS

(* The parts of TypeOK that the proof depends on. *)
PageShape(p) == {"server", "connecting", "selected", "paused", "listed"} \subseteq DOMAIN p
TaskShape(f) == {"at", "by", "session"} \subseteq DOMAIN f
SessShape(r) == {"state", "shut", "phone", "loop"} \subseteq DOMAIN r

Shapes ==
    /\ PageShape(page)
    /\ DOMAIN task = Tasks /\ \A t \in Tasks : TaskShape(task[t])
    /\ DOMAIN sess = Sessions /\ \A s \in Sessions : SessShape(sess[s])

(* A connect() under way, up to the end of the clean-up when it fails.      *)
Connecting(f) ==
    \/ f.at \in {"start", "open", "launch"}
    \/ f.at \in {"close", "stop"} /\ f.by \notin {"leave", "failure"}

Clears(f, s) == f.at \in {"close", "stop"} /\ f.session = s

(* There is one connect() at a time, and #connecting says so.               *)
OneConnect ==
    /\ \A t \in Tasks : Connecting(task[t]) => page.connecting
    /\ \A t, u \in Tasks : Connecting(task[t]) /\ Connecting(task[u]) => t = u

(* While it waits for its session, the page has none.                       *)
StartsWithout == \A t \in Tasks : task[t].at = "start" => page.server = None

Attended(s) == page.server = s \/ \E t \in Tasks : Clears(task[t], s)
Alive(r) == r.state = "running" /\ ~r.shut
AllAttended ==
    "stop" \in world.troubles \/ \A s \in Sessions : Alive(sess[s]) => Attended(s)

Orderly == OneConnect /\ StartsWithout /\ AllAttended

Inv == Shapes /\ (gone \/ Orderly)

(* What the synchronous parts leave alone.                                  *)
Kept(p, q) == DOMAIN q = DOMAIN p /\ q.server = p.server /\ q.connecting = p.connecting

LEMMA OfferedKeeps == ASSUME NEW p, PageShape(p) PROVE Kept(p, Offered(p))
  BY DEF PageShape, Kept, Offered

LEMMA ShownKeeps == ASSUME NEW p, NEW c, PageShape(p) PROVE Kept(p, Shown(p, c))
<1> DEFINE q == [p EXCEPT !.label = "Connect"]
<1>1. PageShape(q) /\ Kept(p, q)
  BY DEF PageShape, Kept
<1>2. Kept(q, Offered(q))
  BY <1>1, OfferedKeeps
<1> HIDE DEF q
<1>3. Kept(p, Offered(q))
  BY <1>1, <1>2 DEF Kept
<1>4. Kept(p, [p EXCEPT !.label = "Disconnect", !.button = TRUE])
  BY DEF PageShape, Kept
<1> QED
  BY <1>3, <1>4 DEF Shown, q

LEMMA WatchedKeeps == ASSUME NEW p, PageShape(p) PROVE Kept(p, Watched(p))
  BY DEF PageShape, Kept, Watched

LEMMA RescheduledKeeps == ASSUME NEW p, PageShape(p) PROVE Kept(p, Rescheduled(p))
<1> DEFINE v == IF p.suspect # None THEN p.suspect ELSE p.selected
           q == [p EXCEPT !.blocked = v]
<1> HIDE DEF v
<1>1. PageShape(q) /\ Kept(p, q)
  BY DEF PageShape, Kept
<1>2. Kept(q, Watched(q)) /\ Kept(p, Watched(p))
  BY <1>1, WatchedKeeps
<1> HIDE DEF q
<1>3. Kept(p, Watched(q))
  BY <1>1, <1>2 DEF Kept
<1> QED
  BY <1>2, <1>3 DEF Rescheduled, q, v

LEMMA MissedKeeps == ASSUME NEW p, NEW phone, PageShape(p) PROVE Kept(p, Missed(p, phone))
<1> DEFINE q == [p EXCEPT !.count = IF p.suspect = phone THEN @ + 1 ELSE 1, !.suspect = phone]
<1>1. PageShape(q) /\ Kept(p, q)
  BY DEF PageShape, Kept
<1>2. Kept(q, Rescheduled(q))
  BY <1>1, RescheduledKeeps
<1> HIDE DEF q
<1>3. Kept(p, Rescheduled(q))
  BY <1>1, <1>2 DEF Kept
<1> QED
  BY <1>3 DEF Missed, q

LEMMA PardonedKeeps == ASSUME NEW p, PageShape(p) PROVE Kept(p, Pardoned(p))
  BY DEF PageShape, Kept, Pardoned

LEMMA RelistedKeeps ==
  ASSUME NEW p, NEW phones, NEW selection, PageShape(p)
  PROVE  Kept(p, Relisted(p, phones, selection))
<1> DEFINE Lost(phone) == phone # None /\ phone \notin phones
           q == [p EXCEPT !.listed = phones, !.selected = selection,
                          !.paused = IF Lost(@) THEN None ELSE @,
                          !.suspect = IF Lost(@) THEN None ELSE @,
                          !.blocked = IF Lost(@) THEN None ELSE @,
                          !.count = IF Lost(p.suspect) \/ Lost(p.blocked) THEN 0 ELSE @]
<1> HIDE DEF Lost
<1>1. PageShape(q) /\ Kept(p, q)
  BY DEF PageShape, Kept
<1>2. Kept(q, Offered(q))
  BY <1>1, OfferedKeeps
<1> HIDE DEF q
<1>3. Kept(p, Offered(q))
  BY <1>1, <1>2 DEF Kept
<1> QED
  BY <1>3 DEF Relisted, q, Lost

LEMMA RejectedKeeps ==
  ASSUME NEW p, NEW by, NEW phone, PageShape(p)
  PROVE  Kept(p, Rejected(p, by, phone))
  BY MissedKeeps, WatchedKeeps DEF Rejected, Kept

(* A clean-up ends with no session of its own, and with #connecting reset   *)
(* when it was a connect() that failed.                                     *)
LEMMA ResumedKeeps ==
  ASSUME NEW p, NEW f, PageShape(p)
  PROVE  /\ PageShape(Resumed(p, f)) /\ Resumed(p, f).server = p.server
         /\ Resumed(p, f).connecting = IF f.by \in {"leave", "failure"} THEN p.connecting ELSE FALSE
<1>1. CASE f.by = "leave"
  <2> DEFINE q == [p EXCEPT !.closing = FALSE]
  <2>1. PageShape(q) /\ Kept(p, q)
    BY DEF PageShape, Kept
  <2>2. Kept(q, Shown(q, FALSE))
    BY <2>1, ShownKeeps
  <2> HIDE DEF q
  <2>3. PageShape(Shown(q, FALSE)) /\ Kept(p, Shown(q, FALSE))
    BY <2>1, <2>2 DEF Kept, PageShape
  <2>4. Kept(Shown(q, FALSE), Watched(Shown(q, FALSE)))
    BY <2>3, WatchedKeeps
  <2>5. Resumed(p, f) = Watched(Shown(q, FALSE))
    BY <1>1 DEF Resumed, q
  <2> QED
    BY <1>1, <2>3, <2>4, <2>5 DEF Kept, PageShape
<1>2. CASE f.by = "failure"
  <2> DEFINE q == Shown(p, FALSE)
             r == [q EXCEPT !.suspect = f.phone, !.count = 0, !.blocked = None]
  <2>1. PageShape(q) /\ Kept(p, q)
    BY ShownKeeps DEF PageShape, Kept
  <2> HIDE DEF q
  <2>2. PageShape(r) /\ Kept(q, r)
    BY <2>1 DEF PageShape, Kept
  <2> HIDE DEF r
  <2>3. Kept(r, Rescheduled(r))
    BY <2>2, RescheduledKeeps
  <2>4. Resumed(p, f) = IF q.enabled THEN Rescheduled(r) ELSE q
    BY <1>2 DEF Resumed, q, r
  <2> QED
    BY <1>2, <2>1, <2>2, <2>3, <2>4 DEF Kept, PageShape
<1>3. CASE f.by \notin {"leave", "failure"}
  <2> DEFINE q == Shown(p, FALSE)
             r == [q EXCEPT !.connecting = FALSE]
  <2>1. PageShape(q) /\ Kept(p, q)
    BY ShownKeeps DEF PageShape, Kept
  <2> HIDE DEF q
  <2>2. PageShape(r) /\ r.server = p.server /\ r.connecting = FALSE
    BY <2>1 DEF PageShape, Kept
  <2> HIDE DEF r
  <2>3. Kept(r, Offered(r)) /\ PageShape(Offered(r))
    BY <2>2, OfferedKeeps DEF Kept, PageShape
  <2>4. Kept(Offered(r), Rejected(Offered(r), f.by, f.phone))
    BY <2>3, RejectedKeeps
  <2>5. Resumed(p, f) = Rejected(Offered(r), f.by, f.phone)
    BY <1>3 DEF Resumed, q, r
  <2> QED
    BY <1>3, <2>2, <2>3, <2>4, <2>5 DEF Kept, PageShape
<1> QED
  BY <1>1, <1>2, <1>3

-----------------------------------------------------------------------------
(* Sessions that are alive after a step were alive before it.               *)
Fewer ==
    /\ DOMAIN sess' = Sessions
    /\ \A s \in Sessions : SessShape(sess'[s]) /\ (Alive(sess'[s]) => Alive(sess[s]))

LEMMA SameIsFewer == ASSUME Inv, UNCHANGED sess PROVE Fewer
  BY DEF Inv, Shapes, Fewer, Alive

(* A function that neither connects nor cleans up moves on, or none does.   *)
Plain(f) == f.at \in {"idle", "list", "probe"}

LEMMA PlainStep ==
  ASSUME Inv, Fewer, Kept(page, page'), UNCHANGED <<world, gone>>,
         \/ UNCHANGED task
         \/ \E t \in Tasks : \E f :
               task' = [task EXCEPT ![t] = f] /\ Plain(task[t]) /\ TaskShape(f) /\ Plain(f)
  PROVE  Inv'
<1>1. CASE UNCHANGED task
  BY <1>1 DEF Inv, Shapes, Fewer, Kept, PageShape, Orderly, OneConnect, StartsWithout, AllAttended, Attended
<1>2. ASSUME NEW t \in Tasks, NEW f, task' = [task EXCEPT ![t] = f], Plain(task[t]), TaskShape(f), Plain(f)
      PROVE  Inv'
  <2>1. DOMAIN task' = Tasks /\ task'[t] = f /\ \A u \in Tasks \ {t} : task'[u] = task[u]
    BY <1>2 DEF Inv, Shapes
  <2>2. Shapes'
    BY <1>2, <2>1 DEF Inv, Shapes, Fewer, Kept, PageShape
  <2>3. \A u \in Tasks : Connecting(task'[u]) => u # t /\ Connecting(task[u])
    BY <1>2, <2>1 DEF Plain, Connecting
  <2>4. \A u \in Tasks : task'[u].at = "start" => task[u].at = "start"
    BY <1>2, <2>1 DEF Plain
  <2>5. \A s \in Sessions : Attended(s) => Attended(s)'
    <3>1. \A s \in Sessions, u \in Tasks : Clears(task[u], s) => Clears(task'[u], s)
      BY <1>2, <2>1 DEF Plain, Clears
    <3> QED
      BY <3>1 DEF Attended, Kept
  <2>6. Orderly => OneConnect' /\ StartsWithout'
    BY <2>3, <2>4 DEF Orderly, OneConnect, StartsWithout, Kept
  <2>7. Orderly => AllAttended'
    BY <2>5 DEF Orderly, AllAttended, Fewer
  <2> QED
    BY <2>2, <2>6, <2>7 DEF Inv, Orderly
<1> QED
  BY <1>1, <1>2

-----------------------------------------------------------------------------
(* The session of the page goes to a function that cleans it up, begun anew *)
(* or by a connect() that fails.                                            *)
LEMMA ClearedShape ==
  ASSUME NEW p, PageShape(p)
  PROVE  PageShape(Cleared(p)) /\ Cleared(p).server = None /\ Cleared(p).connecting = p.connecting
  BY DEF PageShape, Cleared

LEMMA ClearingStep ==
  ASSUME Inv, ~gone, Fewer, UNCHANGED <<world, gone>>,
         NEW t \in Tasks, NEW by, NEW phone,
         PageShape(page'), page'.server = None, page'.connecting = page.connecting,
         task' = [task EXCEPT ![t] = Clearing(by, phone)],
         task[t].at \notin {"close", "stop"},
         Connecting(task[t]) \/ by \in {"leave", "failure"}
  PROVE  Inv'
<1> DEFINE f == Clearing(by, phone)
<1>1. f.at = "close" /\ f.by = by /\ f.session = page.server /\ TaskShape(f)
  BY DEF Clearing, Idle, TaskShape
<1> HIDE DEF f
<1>2. DOMAIN task' = Tasks /\ task'[t] = f /\ \A u \in Tasks \ {t} : task'[u] = task[u]
  BY DEF Inv, Shapes, f
<1>3. Shapes'
  BY <1>1, <1>2 DEF Inv, Shapes, Fewer
<1>4. \A u \in Tasks : Connecting(task'[u]) => Connecting(task[u])
  BY <1>1, <1>2 DEF Connecting
<1>5. OneConnect' /\ StartsWithout'
  BY <1>4 DEF Inv, Orderly, OneConnect, StartsWithout
<1>6. \A s \in Sessions : Attended(s) => Attended(s)'
  <2>1. \A s \in Sessions : page.server = s => Clears(task'[t], s)
    BY <1>1, <1>2 DEF Clears
  <2>2. \A s \in Sessions, u \in Tasks : Clears(task[u], s) => Clears(task'[u], s)
    BY <1>2 DEF Clears
  <2> QED
    BY <2>1, <2>2 DEF Attended
<1>7. AllAttended'
  BY <1>6 DEF Inv, Orderly, AllAttended, Fewer
<1> QED
  BY <1>3, <1>5, <1>7 DEF Inv, Orderly

(* connect() begins, or leaves its caller without a session.                *)
LEMMA ConnectsStep ==
  ASSUME Inv, ~gone, NEW t \in Tasks, NEW p, NEW by, NEW phone,
         Kept(page, p), Plain(task[t]), Connects(t, p, by, phone), UNCHANGED <<world, sess, gone>>
  PROVE  Inv'
<1>1. PageShape(p)
  BY DEF Inv, Shapes, Kept, PageShape
<1>2. CASE task' = [task EXCEPT ![t] = Idle] /\ (page' = p \/ page' = Rejected(p, by, phone))
  <2>1. Kept(p, p) /\ Kept(p, Rejected(p, by, phone))
    BY <1>1, RejectedKeeps DEF Kept
  <2>2. Kept(page, page')
    BY <1>2, <2>1 DEF Kept
  <2>3. TaskShape(Idle) /\ Plain(Idle)
    BY DEF Idle, TaskShape, Plain
  <2> QED
    BY <1>2, <2>2, <2>3, SameIsFewer, PlainStep
<1>3. CASE /\ p.server = None /\ ~p.connecting
           /\ page' = [p EXCEPT !.connecting = TRUE, !.timer = FALSE, !.button = FALSE]
           /\ task' = [task EXCEPT ![t] = [Idle EXCEPT !.at = "start", !.by = by, !.phone = phone,
                                                       !.target = p.selected]]
  <2> DEFINE f == [Idle EXCEPT !.at = "start", !.by = by, !.phone = phone, !.target = p.selected]
  <2>1. f.at = "start" /\ TaskShape(f)
    BY DEF Idle, TaskShape
  <2> HIDE DEF f
  <2>2. DOMAIN task' = Tasks /\ task'[t] = f /\ \A u \in Tasks \ {t} : task'[u] = task[u]
    BY <1>3 DEF Inv, Shapes, f
  <2>3. PageShape(page') /\ page'.server = None /\ page'.connecting = TRUE
    BY <1>1, <1>3 DEF PageShape
  <2>4. page.server = None /\ ~page.connecting
    BY <1>3 DEF Kept
  <2>5. Shapes'
    BY <2>1, <2>2, <2>3 DEF Inv, Shapes
  <2>6. \A u \in Tasks : Connecting(task'[u]) => u = t
    BY <2>2, <2>4 DEF Inv, Orderly, OneConnect
  <2>7. OneConnect' /\ StartsWithout'
    BY <2>3, <2>6 DEF OneConnect, StartsWithout
  <2>8. \A s \in Sessions, u \in Tasks : Clears(task[u], s) => Clears(task'[u], s)
    BY <2>2 DEF Plain, Clears
  <2>9. AllAttended'
    BY <2>3, <2>4, <2>8 DEF Inv, Orderly, AllAttended, Attended
  <2> QED
    BY <2>5, <2>7, <2>9 DEF Inv, Orderly
<1> QED
  BY <1>2, <1>3 DEF Connects, Ends, Goes

(* A connect() goes on with its sockets open, or returns.                   *)
LEMMA ConnectedStep ==
  ASSUME Inv, ~gone, Fewer, UNCHANGED <<world, gone>>,
         NEW t \in Tasks, task[t].at \in {"open", "launch"},
         PageShape(page'), page'.server = page.server,
         \E f : /\ task' = [task EXCEPT ![t] = f] /\ TaskShape(f)
                /\ f.at = "idle" \/ (f.at = "launch" /\ page'.connecting = page.connecting)
  PROVE  Inv'
<1> PICK f : /\ task' = [task EXCEPT ![t] = f] /\ TaskShape(f)
             /\ f.at = "idle" \/ (f.at = "launch" /\ page'.connecting = page.connecting)
  OBVIOUS
<1>1. DOMAIN task' = Tasks /\ task'[t] = f /\ \A u \in Tasks \ {t} : task'[u] = task[u]
  BY DEF Inv, Shapes
<1>2. Shapes'
  BY <1>1 DEF Inv, Shapes, Fewer
<1>3. Connecting(task[t]) /\ OneConnect /\ StartsWithout /\ AllAttended
  BY DEF Connecting, Inv, Orderly
<1>4. \A u \in Tasks : Connecting(task'[u]) => u = t /\ f.at = "launch"
  <2>1. \A u \in Tasks \ {t} : ~Connecting(task'[u])
    BY <1>1, <1>3 DEF OneConnect
  <2>2. Connecting(f) => f.at = "launch"
    BY DEF Connecting
  <2> QED
    BY <1>1, <2>1, <2>2
<1>5. OneConnect'
  BY <1>3, <1>4 DEF OneConnect
<1>6. StartsWithout'
  BY <1>1, <1>3 DEF StartsWithout
<1>7. \A s \in Sessions, u \in Tasks : Clears(task[u], s) => Clears(task'[u], s)
  BY <1>1 DEF Clears
<1>8. AllAttended'
  BY <1>3, <1>7 DEF AllAttended, Attended, Fewer
<1> QED
  BY <1>2, <1>5, <1>6, <1>8 DEF Inv, Orderly

-----------------------------------------------------------------------------
(* The actions.                                                             *)
LEMMA FreeIsPlain == ASSUME NEW t, Free(t) PROVE task[t].at = "idle" /\ Plain(task[t])
  BY DEF Free, Idle, Plain

LEMMA PressKeeps == ASSUME Inv, ~gone, NEW t \in Tasks, Press(t) PROVE Inv'
<1>1. Fewer /\ Plain(task[t]) /\ UNCHANGED <<world, gone>>
  BY SameIsFewer, FreeIsPlain DEF Press
<1>2. CASE Leaves(t)
  <2> DEFINE p == [page EXCEPT !.closing = TRUE, !.timer = FALSE, !.paused = sess[page.server].phone]
  <2>1. PageShape(p) /\ p.connecting = page.connecting
    BY DEF Inv, Shapes, PageShape
  <2>2. page' = Cleared(p) /\ task' = [task EXCEPT ![t] = Clearing("leave", None)]
    BY <1>2 DEF Leaves, Goes
  <2> HIDE DEF p
  <2>3. PageShape(page') /\ page'.server = None /\ page'.connecting = page.connecting
    BY <2>1, <2>2, ClearedShape
  <2> QED
    BY <1>1, <2>2, <2>3, ClearingStep DEF Plain
<1>3. CASE Reconnects(t)
  <2> DEFINE f == [Idle EXCEPT !.at = "list", !.by = "press"]
  <2>1. TaskShape(f) /\ Plain(f)
    BY DEF Idle, TaskShape, Plain
  <2>2. Kept(page, page') /\ task' = [task EXCEPT ![t] = f]
    BY <1>3 DEF Reconnects, Goes, Inv, Shapes, PageShape, Kept
  <2> HIDE DEF f
  <2> QED
    BY <1>1, <2>1, <2>2, PlainStep
<1> QED
  BY <1>2, <1>3 DEF Press

LEMMA ChooseKeeps == ASSUME Inv, ~gone, NEW t \in Tasks, Choose(t) PROVE Inv'
<1>1. Fewer /\ Plain(task[t]) /\ UNCHANGED <<world, gone>>
  BY SameIsFewer, FreeIsPlain DEF Choose
<1>2. PICK phone : /\ page' = Pardoned([page EXCEPT !.selected = phone, !.paused = None])
                   /\ task' = [task EXCEPT ![t] = [Idle EXCEPT !.at = "probe", !.by = "choice", !.phone = phone]]
  BY DEF Choose, Goes
<1> DEFINE p == [page EXCEPT !.selected = phone, !.paused = None]
           f == [Idle EXCEPT !.at = "probe", !.by = "choice", !.phone = phone]
<1>3. PageShape(p) /\ Kept(page, p)
  BY DEF Inv, Shapes, PageShape, Kept
<1>4. TaskShape(f) /\ Plain(f)
  BY DEF Idle, TaskShape, Plain
<1>5. Kept(p, Pardoned(p))
  BY <1>3, PardonedKeeps
<1>6. Kept(page, page')
  BY <1>2, <1>3, <1>5 DEF Kept
<1> HIDE DEF p, f
<1> QED
  BY <1>1, <1>2, <1>4, <1>6, PlainStep DEF f

LEMMA SettingsKeep == ASSUME Inv, Switch \/ Rebudget \/ Look PROVE Inv'
<1>1. Fewer /\ UNCHANGED <<world, gone, task>>
  BY SameIsFewer DEF Switch, Rebudget, Look
<1>2. PageShape(page)
  BY DEF Inv, Shapes
<1>3. CASE Switch
  <2> DEFINE p == [page EXCEPT !.enabled = ~@, !.timer = FALSE]
             q == Pardoned(p)
             r == [q EXCEPT !.paused = None]
  <2>1. PageShape(p) /\ Kept(page, p)
    BY <1>2 DEF PageShape, Kept
  <2> HIDE DEF p
  <2>2. PageShape(q) /\ Kept(page, q)
    BY <2>1, PardonedKeeps DEF PageShape, Kept
  <2> HIDE DEF q
  <2>3. PageShape(r) /\ Kept(page, r)
    BY <2>2 DEF PageShape, Kept
  <2> HIDE DEF r
  <2>4. Kept(page, Watched(r))
    BY <2>3, WatchedKeeps DEF Kept
  <2>5. page' \in {q, r, Watched(r)}
    BY <1>3 DEF Switch, p, q, r
  <2> QED
    BY <1>1, <2>2, <2>3, <2>4, <2>5, PlainStep
<1>4. CASE Rebudget
  <2>1. page' = Watched(Pardoned(page))
    BY <1>4 DEF Rebudget
  <2>2. PageShape(Pardoned(page)) /\ Kept(page, Pardoned(page))
    BY <1>2, PardonedKeeps DEF PageShape, Kept
  <2>3. Kept(page, page')
    BY <2>1, <2>2, WatchedKeeps DEF Kept
  <2> QED
    BY <1>1, <2>3, PlainStep
<1>5. CASE Look
  <2>1. Kept(page, page')
    BY <1>2, <1>5, RelistedKeeps, OfferedKeeps DEF Look
  <2> QED
    BY <1>1, <2>1, PlainStep
<1> QED
  BY <1>3, <1>4, <1>5

LEMMA UnloadKeeps == ASSUME Inv, Unload PROVE Inv'
<1>1. gone' = TRUE /\ PageShape(page')
  BY DEF Unload, Inv, Shapes, PageShape
<1>2. DOMAIN task' = Tasks /\ \A t \in Tasks : TaskShape(task'[t])
  <2>1. TaskShape(Idle)
    BY DEF TaskShape, Idle
  <2> QED
    BY <2>1 DEF Unload, Inv, Shapes
<1>3. DOMAIN sess' = Sessions /\ \A s \in Sessions : SessShape(sess'[s])
  BY DEF Unload, Inv, Shapes, SessShape
<1> QED
  BY <1>1, <1>2, <1>3 DEF Inv, Shapes

LEMMA TimerKeeps == ASSUME Inv, ~gone, NEW t \in Tasks, TimerFires(t) PROVE Inv'
<1>1. Fewer /\ Plain(task[t]) /\ UNCHANGED <<world, gone>>
  BY SameIsFewer, FreeIsPlain DEF TimerFires
<1>2. Kept(page, page')
  BY DEF TimerFires, Inv, Shapes, PageShape, Kept
<1> DEFINE f == [Idle EXCEPT !.at = "list", !.by = "cycle", !.phone = page.selected]
<1>3. TaskShape(f) /\ Plain(f)
  BY DEF Idle, TaskShape, Plain
<1>4. task' = [task EXCEPT ![t] = f] \/ UNCHANGED task
  BY DEF TimerFires, Goes
<1> HIDE DEF f
<1> QED
  BY <1>1, <1>2, <1>3, <1>4, PlainStep

LEMMA ListedKeeps == ASSUME Inv, ~gone, NEW t \in Tasks, Listed(t) PROVE Inv'
<1>1. Fewer /\ Plain(task[t]) /\ UNCHANGED <<world, sess, gone>>
  BY SameIsFewer DEF Listed, Plain
<1>2. PICK selection \in Selections(page, plugged) :
        LET p == Relisted(page, plugged, selection)
            probe == [task[t] EXCEPT !.at = "probe", !.phone = selection]
        IN  \/ page' = p /\ Goes(t, probe)
            \/ Connects(t, p, "cycle", selection)
            \/ page' = (IF Wants(p) THEN Watched(p) ELSE p) /\ Ends(t)
  BY DEF Listed
<1> DEFINE p == Relisted(page, plugged, selection)
           probe == [task[t] EXCEPT !.at = "probe", !.phone = selection]
<1>3. PageShape(p) /\ Kept(page, p)
  BY RelistedKeeps DEF Inv, Shapes, Kept, PageShape
<1>4. TaskShape(probe) /\ Plain(probe) /\ TaskShape(Idle) /\ Plain(Idle)
  BY DEF Inv, Shapes, TaskShape, Plain, Idle
<1> HIDE DEF p, probe
<1>5. CASE page' = p /\ Goes(t, probe)
  BY <1>1, <1>3, <1>4, <1>5, PlainStep DEF Goes
<1>6. CASE Connects(t, p, "cycle", selection)
  BY <1>1, <1>3, <1>6, ConnectsStep
<1>7. CASE page' = (IF Wants(p) THEN Watched(p) ELSE p) /\ Ends(t)
  <2>1. Kept(page, page')
    BY <1>3, <1>7, WatchedKeeps DEF Kept
  <2> QED
    BY <1>1, <1>4, <1>7, <2>1, PlainStep DEF Ends, Goes
<1> QED
  BY <1>2, <1>5, <1>6, <1>7 DEF p, probe

LEMMA ListFailsKeeps == ASSUME Inv, ~gone, NEW t \in Tasks, ListFails(t) PROVE Inv'
<1>1. Fewer /\ Plain(task[t]) /\ UNCHANGED <<world, gone>>
  BY SameIsFewer DEF ListFails, Plain
<1>2. Kept(page, page')
  BY RejectedKeeps DEF ListFails, Inv, Shapes, Kept
<1>3. TaskShape(Idle) /\ Plain(Idle) /\ task' = [task EXCEPT ![t] = Idle]
  BY DEF TaskShape, Plain, Idle, ListFails, Ends, Goes
<1> QED
  BY <1>1, <1>2, <1>3, PlainStep

LEMMA ProbedKeeps == ASSUME Inv, ~gone, NEW t \in Tasks, Probed(t) PROVE Inv'
<1>1. Fewer /\ Plain(task[t]) /\ UNCHANGED <<world, sess, gone>>
  BY SameIsFewer DEF Probed, Plain
<1> DEFINE p == IF page.selected = task[t].phone THEN Offered(page) ELSE page
           q == [p EXCEPT !.timer = FALSE, !.paused = None]
<1>2. PageShape(p) /\ Kept(page, p)
  BY OfferedKeeps DEF Inv, Shapes, Kept, PageShape
<1>3. \/ Connects(t, Pardoned(q), "press", p.selected)
      \/ Connects(t, p, "cycle", task[t].phone)
      \/ page' = (IF Wants(p) THEN Watched(p) ELSE p) /\ Ends(t)
  BY DEF Probed
<1> HIDE DEF p
<1>4. PageShape(q) /\ Kept(page, q)
  BY <1>2 DEF PageShape, Kept
<1> HIDE DEF q
<1>5. CASE Connects(t, Pardoned(q), "press", p.selected)
  <2>1. Kept(page, Pardoned(q))
    BY <1>4, PardonedKeeps DEF Kept
  <2> QED
    BY <1>1, <1>5, <2>1, ConnectsStep
<1>6. CASE Connects(t, p, "cycle", task[t].phone)
  BY <1>1, <1>2, <1>6, ConnectsStep
<1>7. CASE page' = (IF Wants(p) THEN Watched(p) ELSE p) /\ Ends(t)
  <2>1. Kept(page, page')
    BY <1>2, <1>7, WatchedKeeps DEF Kept
  <2>2. TaskShape(Idle) /\ Plain(Idle)
    BY DEF TaskShape, Plain, Idle
  <2> QED
    BY <1>1, <1>7, <2>1, <2>2, PlainStep DEF Ends, Goes
<1> QED
  BY <1>3, <1>5, <1>6, <1>7

(* The bridge has started a session; a page that is gone does not hear it.  *)
LEMMA StartedKeeps == ASSUME Inv, NEW t \in Tasks, Started(t) PROVE Inv'
<1>1. PICK s \in Sessions :
        /\ sess' = [sess EXCEPT ![s] = [NoSession EXCEPT !.state = "running", !.phone = task[t].target]]
        /\ IF gone THEN UNCHANGED page /\ Ends(t)
           ELSE page' = [page EXCEPT !.server = s] /\ Goes(t, [task[t] EXCEPT !.at = "open", !.session = s])
  BY DEF Started
<1>2. task[t].at = "start" /\ UNCHANGED <<world, gone>>
  BY DEF Started
<1> DEFINE r == [NoSession EXCEPT !.state = "running", !.phone = task[t].target]
           f == IF gone THEN Idle ELSE [task[t] EXCEPT !.at = "open", !.session = s]
<1>3. SessShape(r)
  BY DEF SessShape, NoSession
<1>4. TaskShape(f) /\ f.at \in {"idle", "open"}
  BY DEF TaskShape, Idle, Inv, Shapes
<1>5. task' = [task EXCEPT ![t] = f] /\ sess' = [sess EXCEPT ![s] = r]
  BY <1>1 DEF Ends, Goes
<1> HIDE DEF r, f
<1>6. PageShape(page')
  BY <1>1 DEF PageShape, Inv, Shapes
<1>7. /\ DOMAIN task' = Tasks /\ task'[t] = f /\ \A u \in Tasks \ {t} : task'[u] = task[u]
      /\ DOMAIN sess' = Sessions /\ sess'[s] = r /\ \A q \in Sessions \ {s} : sess'[q] = sess[q]
  BY <1>5 DEF Inv, Shapes
<1>8. Shapes'
  BY <1>3, <1>4, <1>6, <1>7 DEF Inv, Shapes
<1>9. ASSUME ~gone PROVE Orderly'
  <2>1. page'.server = s /\ page'.connecting = page.connecting
    BY <1>1, <1>9 DEF PageShape, Inv, Shapes
  <2>2. OneConnect /\ StartsWithout /\ AllAttended /\ Connecting(task[t])
    BY <1>2, <1>9 DEF Inv, Orderly, Connecting
  <2>3. \A u \in Tasks : Connecting(task'[u]) => Connecting(task[u])
    BY <1>7, <2>2
  <2>4. OneConnect'
    BY <2>1, <2>2, <2>3 DEF OneConnect
  <2>5. \A u \in Tasks : task'[u].at # "start"
    <3>1. \A u \in Tasks \ {t} : ~Connecting(task[u])
      BY <2>2 DEF OneConnect
    <3> QED
      BY <1>4, <1>7, <3>1 DEF Connecting
  <2>6. page.server = None
    BY <1>2, <2>2 DEF StartsWithout
  <2>7. \A q \in Sessions, u \in Tasks : Clears(task[u], q) => Clears(task'[u], q)
    BY <1>2, <1>7 DEF Clears
  <2>8. AllAttended'
    BY <1>2, <1>7, <2>1, <2>2, <2>6, <2>7, BrowserAssumption DEF AllAttended, Attended
  <2> QED
    BY <2>4, <2>5, <2>8 DEF Orderly, StartsWithout
<1> QED
  BY <1>2, <1>8, <1>9 DEF Inv

LEMMA FailsKeeps ==
  ASSUME Inv, ~gone, NEW t \in Tasks, StartFails(t) \/ OpenFails(t) \/ LaunchFails(t)
  PROVE  Inv'
<1>1. task[t].at \in {"start", "open", "launch"} /\ ConnectFails(t)
  BY DEF StartFails, OpenFails, LaunchFails
<1>2. Fewer /\ UNCHANGED <<world, gone>> /\ page' = Cleared(page)
      /\ task' = [task EXCEPT ![t] = Clearing(task[t].by, task[t].phone)]
  BY <1>1, SameIsFewer DEF ConnectFails, Goes
<1>3. PageShape(page') /\ page'.server = None /\ page'.connecting = page.connecting
  BY <1>2, ClearedShape DEF Inv, Shapes
<1>4. Connecting(task[t])
  BY <1>1 DEF Connecting
<1> QED
  BY <1>1, <1>2, <1>3, <1>4, ClearingStep

LEMMA OpenedKeeps == ASSUME Inv, ~gone, NEW t \in Tasks, Opened(t) PROVE Inv'
<1> DEFINE s == task[t].session
           a == [page EXCEPT !.protocol = s]
           b == [Shown(a, TRUE) EXCEPT !.stopped = FALSE, !.paused = None]
           p == Pardoned(b)
           q == [p EXCEPT !.connecting = FALSE]
           f == [task[t] EXCEPT !.at = "launch"]
<1>1. /\ task[t].at = "open" /\ UNCHANGED <<world, gone>>
      /\ sess' = [sess EXCEPT ![s].loop = TRUE]
      /\ \/ page' = p /\ task' = [task EXCEPT ![t] = f]
         \/ page' = Offered(q) /\ task' = [task EXCEPT ![t] = Idle]
  BY DEF Opened, Goes, Ends
<1>2. PageShape(a) /\ Kept(page, a)
  BY DEF Inv, Shapes, PageShape, Kept
<1> HIDE DEF a
<1>3. PageShape(Shown(a, TRUE)) /\ Kept(page, Shown(a, TRUE))
  BY <1>2, ShownKeeps DEF PageShape, Kept
<1>4. PageShape(b) /\ Kept(page, b)
  BY <1>3 DEF PageShape, Kept
<1> HIDE DEF b
<1>5. PageShape(p) /\ Kept(page, p)
  BY <1>4, PardonedKeeps DEF PageShape, Kept
<1> HIDE DEF p
<1>6. PageShape(q) /\ q.server = page.server
  BY <1>5 DEF PageShape, Kept
<1> HIDE DEF q
<1>7. PageShape(Offered(q)) /\ Offered(q).server = page.server
  BY <1>6, OfferedKeeps DEF PageShape, Kept
<1>8. Fewer
  BY <1>1 DEF Fewer, Inv, Shapes, SessShape, Alive
<1>9. TaskShape(f) /\ f.at = "launch" /\ TaskShape(Idle) /\ Idle.at = "idle"
  BY DEF TaskShape, Idle, Inv, Shapes
<1> HIDE DEF f, s
<1>10. CASE page' = p /\ task' = [task EXCEPT ![t] = f]
  <2>1. task[t].at \in {"open", "launch"} /\ f.at \in {"launch", "idle"}
    BY <1>1, <1>9
  <2>2. PageShape(page') /\ page'.server = page.server /\ page'.connecting = page.connecting
    BY <1>5, <1>10 DEF Kept
  <2> QED
    BY <1>1, <1>8, <1>9, <1>10, <2>1, <2>2, ConnectedStep
<1>11. CASE page' = Offered(q) /\ task' = [task EXCEPT ![t] = Idle]
  <2>1. task[t].at \in {"open", "launch"} /\ Idle.at \in {"launch", "idle"} /\ Idle.at # "launch"
    BY <1>1, <1>9
  <2>2. PageShape(page') /\ page'.server = page.server
    BY <1>7, <1>11
  <2> QED
    BY <1>1, <1>8, <1>9, <1>11, <2>1, <2>2, ConnectedStep
<1> QED
  BY <1>1, <1>10, <1>11

LEMMA LaunchedKeeps == ASSUME Inv, ~gone, NEW t \in Tasks, Launched(t) PROVE Inv'
<1> DEFINE q == [page EXCEPT !.connecting = FALSE]
<1>1. PageShape(q) /\ q.server = page.server
  BY DEF Inv, Shapes, PageShape
<1>2. /\ task[t].at = "launch" /\ page' = Offered(q) /\ task' = [task EXCEPT ![t] = Idle]
      /\ Fewer /\ UNCHANGED <<world, gone>>
  BY SameIsFewer DEF Launched, Ends, Goes
<1> HIDE DEF q
<1>3. PageShape(page') /\ page'.server = page.server
  BY <1>1, <1>2, OfferedKeeps DEF PageShape, Kept
<1>4. TaskShape(Idle) /\ Idle.at \in {"launch", "idle"} /\ Idle.at # "launch"
  BY DEF TaskShape, Idle
<1>5. task[t].at \in {"open", "launch"}
  BY <1>2
<1> QED
  BY <1>2, <1>3, <1>4, <1>5, ConnectedStep

(* A clean-up ends: nobody attends to its session any more.                 *)
LEMMA ResumedStep ==
  ASSUME Inv, ~gone, Fewer, UNCHANGED <<world, gone>>,
         NEW t \in Tasks, task[t].at \in {"close", "stop"},
         page' = Resumed(page, task[t]), task' = [task EXCEPT ![t] = Idle],
         "stop" \in world.troubles \/ \A s \in Sessions : Alive(sess'[s]) => s # task[t].session
  PROVE  Inv'
<1>1. TaskShape(Idle) /\ Idle.at = "idle"
  BY DEF TaskShape, Idle
<1>2. DOMAIN task' = Tasks /\ task'[t] = Idle /\ \A u \in Tasks \ {t} : task'[u] = task[u]
  BY DEF Inv, Shapes
<1>3. /\ PageShape(page') /\ page'.server = page.server
      /\ page'.connecting = IF task[t].by \in {"leave", "failure"} THEN page.connecting ELSE FALSE
  BY ResumedKeeps DEF Inv, Shapes
<1>4. Shapes'
  BY <1>1, <1>2, <1>3 DEF Inv, Shapes, Fewer
<1>5. OneConnect /\ StartsWithout /\ AllAttended
  BY DEF Inv, Orderly
<1>6. \A u \in Tasks : Connecting(task'[u]) => u # t /\ Connecting(task[u])
  BY <1>1, <1>2 DEF Connecting
<1>7. (\E u \in Tasks : Connecting(task'[u])) => page'.connecting = page.connecting
  <2>1. task[t].by \notin {"leave", "failure"} => Connecting(task[t])
    BY DEF Connecting
  <2> QED
    BY <1>3, <1>5, <1>6, <2>1 DEF OneConnect
<1>8. OneConnect'
  BY <1>5, <1>6, <1>7 DEF OneConnect
<1>9. StartsWithout'
  BY <1>1, <1>2, <1>3, <1>5 DEF StartsWithout
<1>10. \A s \in Sessions, u \in Tasks : Clears(task[u], s) => Clears(task'[u], s) \/ s = task[t].session
  BY <1>2 DEF Clears
<1>11. AllAttended'
  BY <1>3, <1>5, <1>10 DEF AllAttended, Attended, Fewer
<1> QED
  BY <1>4, <1>8, <1>9, <1>11 DEF Inv, Orderly

LEMMA ClosedKeeps == ASSUME Inv, ~gone, NEW t \in Tasks, ProtocolClosed(t) PROVE Inv'
<1>1. task[t].at = "close" /\ UNCHANGED <<world, gone>>
      /\ sess' = [s \in Sessions |-> [sess[s] EXCEPT !.shut = @ \/ s = task[t].protocol]]
  BY DEF ProtocolClosed
<1>2. Fewer
  BY <1>1 DEF Fewer, Inv, Shapes, SessShape, Alive
<1>3. CASE task[t].session = None
  BY <1>1, <1>2, <1>3, ResumedStep, BrowserAssumption DEF ProtocolClosed, Ends, Goes
<1>4. CASE task[t].session # None
  <2> DEFINE f == [task[t] EXCEPT !.at = "stop"]
  <2>1. task' = [task EXCEPT ![t] = f] /\ UNCHANGED page
    BY <1>4 DEF ProtocolClosed, Goes
  <2>2. TaskShape(f) /\ f.at = "stop" /\ f.by = task[t].by /\ f.session = task[t].session
    BY DEF Inv, Shapes, TaskShape
  <2> HIDE DEF f
  <2>3. DOMAIN task' = Tasks /\ task'[t] = f /\ \A u \in Tasks \ {t} : task'[u] = task[u]
    BY <2>1 DEF Inv, Shapes
  <2>4. Shapes'
    BY <1>2, <2>1, <2>2, <2>3 DEF Inv, Shapes, Fewer
  <2>5. \A u \in Tasks : Connecting(task'[u]) => Connecting(task[u])
    BY <1>1, <2>2, <2>3 DEF Connecting
  <2>6. OneConnect' /\ StartsWithout'
    BY <2>1, <2>2, <2>3, <2>5 DEF Inv, Orderly, OneConnect, StartsWithout
  <2>7. \A s \in Sessions, u \in Tasks : Clears(task[u], s) => Clears(task'[u], s)
    BY <2>2, <2>3 DEF Clears
  <2>8. AllAttended'
    BY <1>1, <1>2, <2>1, <2>7 DEF Inv, Orderly, AllAttended, Attended, Fewer
  <2> QED
    BY <2>4, <2>6, <2>8 DEF Inv, Orderly
<1> QED
  BY <1>3, <1>4

LEMMA StopKeeps == ASSUME Inv, ~gone, NEW t \in Tasks, StopAnswered(t) PROVE Inv'
<1>1. /\ task[t].at = "stop" /\ page' = Resumed(page, task[t]) /\ task' = [task EXCEPT ![t] = Idle]
      /\ UNCHANGED <<world, gone>>
  BY DEF StopAnswered, Ends, Goes
<1>2. CASE sess' = [sess EXCEPT ![task[t].session].state = "ended"]
  <2>1. Fewer /\ \A s \in Sessions : Alive(sess'[s]) => s # task[t].session
    BY <1>2 DEF Fewer, Inv, Shapes, SessShape, Alive
  <2> QED
    BY <1>1, <2>1, ResumedStep
<1>3. CASE Trouble("stop") /\ UNCHANGED sess
  BY <1>1, <1>3, SameIsFewer, ResumedStep DEF Trouble
<1> QED
  BY <1>2, <1>3 DEF StopAnswered

(* The loop of a stream ends, and may take the session of the page along.   *)
LEMMA LoopsKeep ==
  ASSUME Inv, ~gone, NEW s \in Sessions, LoopEnds(s) \/ LoopBreaks(s) \/ LoopReturns(s)
  PROVE  Inv'
<1>1. sess' = [sess EXCEPT ![s].loop = FALSE] /\ UNCHANGED <<world, gone>>
  BY DEF LoopEnds, LoopBreaks, LoopReturns, LoopRejects
<1>2. Fewer
  BY <1>1 DEF Fewer, Inv, Shapes, SessShape, Alive
<1>3. CASE UNCHANGED <<page, task>>
  BY <1>1, <1>2, <1>3, PlainStep DEF Kept
<1>4. ASSUME NEW t \in Tasks, NEW phone, Free(t), page' = Cleared(page),
             task' = [task EXCEPT ![t] = Clearing("failure", phone)]
      PROVE  Inv'
  <2>1. PageShape(page') /\ page'.server = None /\ page'.connecting = page.connecting
    BY <1>4, ClearedShape DEF Inv, Shapes
  <2>2. task[t].at \notin {"close", "stop"}
    BY <1>4, FreeIsPlain
  <2> QED
    BY <1>1, <1>2, <1>4, <2>1, <2>2, ClearingStep
<1> QED
  BY <1>3, <1>4 DEF LoopEnds, LoopBreaks, LoopReturns, LoopRejects, Goes

LEMMA OutsideKeeps ==
  ASSUME Inv, \/ \E s \in Sessions : SessionEnds(s) \/ SessionDies(s)
              \/ \E phone \in Phones : Unplug(phone) \/ Plug(phone)
  PROVE  Inv'
<1>1. UNCHANGED <<world, gone, page, task>>
  BY DEF SessionEnds, SessionDies, Unplug, Plug
<1>2. Fewer
  <2>1. ASSUME NEW s \in Sessions, sess' = [sess EXCEPT ![s].state = "ended"] PROVE Fewer
    BY <2>1 DEF Fewer, Inv, Shapes, SessShape, Alive
  <2> QED
    BY <2>1, SameIsFewer DEF SessionEnds, SessionDies, Unplug, Plug
<1> QED
  BY <1>1, <1>2, PlainStep DEF Kept

-----------------------------------------------------------------------------
LEMMA InitHolds == Init => Inv
<1> SUFFICES ASSUME Init PROVE Inv
  OBVIOUS
<1>1. Shapes
  BY DEF Init, Shapes, PageShape, TaskShape, SessShape, Idle, NoSession
<1>2. \A t \in Tasks : task[t].at = "idle"
  BY DEF Init, Idle
<1>3. OneConnect /\ StartsWithout
  BY <1>2 DEF OneConnect, StartsWithout, Connecting
<1>4. AllAttended
  BY DEF Init, AllAttended, Alive, NoSession
<1> QED
  BY <1>1, <1>3, <1>4 DEF Inv, Orderly

LEMMA NextKeeps == Inv /\ [Next]_vars => Inv'
<1> SUFFICES ASSUME Inv, [Next]_vars PROVE Inv'
  OBVIOUS
<1>1. CASE UNCHANGED vars
  BY <1>1, SameIsFewer, PlainStep DEF vars, Kept
<1>2. CASE ~gone /\ PageStep
  <2>1. ASSUME NEW t \in Tasks, Press(t) \/ Choose(t) \/ TimerFires(t) PROVE Inv'
    BY <1>2, <2>1, PressKeeps, ChooseKeeps, TimerKeeps
  <2>2. ASSUME NEW t \in Tasks, Answered(t) PROVE Inv'
    BY <1>2, <2>2, ListedKeeps, ListFailsKeeps, ProbedKeeps, StartedKeeps, FailsKeeps, OpenedKeeps,
       LaunchedKeeps, ClosedKeeps, StopKeeps DEF Answered
  <2>3. ASSUME Switch \/ Rebudget \/ Look \/ Unload PROVE Inv'
    BY <2>3, SettingsKeep, UnloadKeeps
  <2>4. ASSUME NEW s \in Sessions, LoopEnds(s) \/ LoopBreaks(s) \/ LoopReturns(s) PROVE Inv'
    BY <1>2, <2>4, LoopsKeep
  <2> QED
    BY <1>2, <2>1, <2>2, <2>3, <2>4 DEF PageStep
<1>3. CASE \E t \in Tasks : Started(t)
  BY <1>3, StartedKeeps
<1>4. CASE \/ \E s \in Sessions : SessionEnds(s) \/ SessionDies(s)
           \/ \E phone \in Phones : Unplug(phone) \/ Plug(phone)
  BY <1>4, OutsideKeeps
<1> QED
  BY <1>1, <1>2, <1>3, <1>4 DEF Next

LEMMA InvSuffices == Inv => NothingAbandoned
  BY DEF Inv, Orderly, AllAttended, Attended, Clears, Alive, NothingAbandoned, Abandoned

(* Whatever connects, disconnects and failures of streams overlap, a        *)
(* session that the bridge runs for the page is the page's, is being        *)
(* cleaned up or has lost its sockets (connect and cleanupSession of        *)
(* controller.ts), for any phones, sessions and functions under way.        *)
THEOREM SessionsAreAttended == Spec => []NothingAbandoned
<1>1. Spec => []Inv
  BY InitHolds, NextKeeps, PTL DEF Spec
<1> QED
  BY <1>1, InvSuffices, PTL
-----------------------------------------------------------------------------
(* Phones that the user has left.  A page remembers one phone that it is    *)
(* not to connect to, which is enough for one phone, or for those that stay *)
(* plugged in.                                                              *)

Steady(w) == "plug" \notin w.troubles \/ \A p, q \in w.phones : p = q

(* What cannot come to be selected, on a page p: a phone beside the one     *)
(* that is selected and stays, or one that is not there.                    *)
Aside(p, phone) ==
    "plug" \notin world.troubles /\ phone # p.selected /\ p.selected \in plugged
Missing(p, phone) == phone # p.selected /\ phone \notin plugged

Left == left \ {None}

(* A phone that was left is the one the page pauses for, or not selectable. *)
Respects(p) ==
    /\ p.selected \in world.phones \cup {None} /\ p.listed \subseteq world.phones
    /\ "plug" \notin world.troubles => p.listed \subseteq plugged /\ p.selected \in plugged \cup {None}
    /\ \A phone \in Left : phone = p.paused \/ Aside(p, phone) \/ Missing(p, phone)

Underway == page.server # None \/ \E t \in Tasks : task[t].at \in {"start", "open", "launch"}
Pressed == \E t \in Tasks : task[t].by = "press"

PhonesKnown ==
    /\ plugged \subseteq world.phones /\ Left \subseteq world.phones
    /\ \A s \in Sessions : sess[s].phone \in world.phones \cup {None}

(* What was left before a session is no longer remembered by the page.      *)
PauseOrder ==
    /\ PhonesKnown /\ Respects(page) /\ page.server \in Sessions \cup {None}
    /\ Underway => \A phone \in Left : Aside(page, phone)
    /\ Pressed => left = {}

PauseInv == gone \/ ~world.patient \/ PauseOrder

Alike(p, q) == q.selected = p.selected /\ q.paused = p.paused /\ q.listed = p.listed

LEMMA OfferedAlike == ASSUME NEW p, PageShape(p) PROVE Alike(p, Offered(p))
  BY DEF PageShape, Alike, Offered

LEMMA ShownAlike == ASSUME NEW p, NEW c, PageShape(p) PROVE Alike(p, Shown(p, c))
<1> DEFINE q == [p EXCEPT !.label = "Connect"]
<1>1. PageShape(q) /\ Alike(p, q)
  BY DEF PageShape, Alike
<1>2. Alike(q, Offered(q))
  BY <1>1, OfferedAlike
<1> HIDE DEF q
<1>3. Alike(p, Offered(q))
  BY <1>1, <1>2 DEF Alike
<1>4. Alike(p, [p EXCEPT !.label = "Disconnect", !.button = TRUE])
  BY DEF PageShape, Alike
<1> QED
  BY <1>3, <1>4 DEF Shown, q

LEMMA WatchedAlike == ASSUME NEW p, PageShape(p) PROVE Alike(p, Watched(p))
  BY DEF PageShape, Alike, Watched

LEMMA RescheduledAlike == ASSUME NEW p, PageShape(p) PROVE Alike(p, Rescheduled(p))
<1> DEFINE v == IF p.suspect # None THEN p.suspect ELSE p.selected
           q == [p EXCEPT !.blocked = v]
<1> HIDE DEF v
<1>1. PageShape(q) /\ Alike(p, q)
  BY DEF PageShape, Alike
<1>2. Alike(q, Watched(q)) /\ Alike(p, Watched(p))
  BY <1>1, WatchedAlike
<1> HIDE DEF q
<1>3. Alike(p, Watched(q))
  BY <1>1, <1>2 DEF Alike
<1> QED
  BY <1>2, <1>3 DEF Rescheduled, q, v

LEMMA RejectedAlike ==
  ASSUME NEW p, NEW by, NEW phone, PageShape(p)
  PROVE  Alike(p, Rejected(p, by, phone))
<1> DEFINE q == [p EXCEPT !.count = IF p.suspect = phone THEN @ + 1 ELSE 1, !.suspect = phone]
<1>1. PageShape(q) /\ Alike(p, q)
  BY DEF PageShape, Alike
<1>2. Alike(q, Rescheduled(q)) /\ Alike(p, Watched(p))
  BY <1>1, RescheduledAlike, WatchedAlike
<1> HIDE DEF q
<1>3. Alike(p, Rescheduled(q)) /\ Missed(p, phone) = Rescheduled(q)
  BY <1>1, <1>2 DEF Alike, Missed, q
<1> QED
  BY <1>2, <1>3 DEF Rejected, Alike

LEMMA PardonedAlike == ASSUME NEW p, PageShape(p) PROVE Alike(p, Pardoned(p))
  BY DEF PageShape, Alike, Pardoned

LEMMA ResumedAlike == ASSUME NEW p, NEW f, PageShape(p) PROVE Alike(p, Resumed(p, f))
<1>1. CASE f.by = "leave"
  <2> DEFINE q == [p EXCEPT !.closing = FALSE]
  <2>1. PageShape(q) /\ Alike(p, q)
    BY DEF PageShape, Alike
  <2>2. Kept(q, Shown(q, FALSE)) /\ Alike(q, Shown(q, FALSE))
    BY <2>1, ShownKeeps, ShownAlike
  <2> HIDE DEF q
  <2>3. PageShape(Shown(q, FALSE)) /\ Alike(p, Shown(q, FALSE))
    BY <2>1, <2>2 DEF Kept, PageShape, Alike
  <2>4. Alike(Shown(q, FALSE), Watched(Shown(q, FALSE)))
    BY <2>3, WatchedAlike
  <2>5. Resumed(p, f) = Watched(Shown(q, FALSE))
    BY <1>1 DEF Resumed, q
  <2> QED
    BY <2>3, <2>4, <2>5 DEF Alike
<1>2. CASE f.by = "failure"
  <2> DEFINE q == Shown(p, FALSE)
             r == [q EXCEPT !.suspect = f.phone, !.count = 0, !.blocked = None]
  <2>1. PageShape(q) /\ Alike(p, q)
    BY ShownKeeps, ShownAlike DEF PageShape, Kept
  <2> HIDE DEF q
  <2>2. PageShape(r) /\ Alike(q, r)
    BY <2>1 DEF PageShape, Alike
  <2> HIDE DEF r
  <2>3. Alike(r, Rescheduled(r))
    BY <2>2, RescheduledAlike
  <2>4. Resumed(p, f) = IF q.enabled THEN Rescheduled(r) ELSE q
    BY <1>2 DEF Resumed, q, r
  <2> QED
    BY <2>1, <2>2, <2>3, <2>4 DEF Alike
<1>3. CASE f.by \notin {"leave", "failure"}
  <2> DEFINE q == Shown(p, FALSE)
             r == [q EXCEPT !.connecting = FALSE]
  <2>1. PageShape(q) /\ Alike(p, q)
    BY ShownKeeps, ShownAlike DEF PageShape, Kept
  <2> HIDE DEF q
  <2>2. PageShape(r) /\ Alike(q, r)
    BY <2>1 DEF PageShape, Alike
  <2> HIDE DEF r
  <2>3. Alike(r, Offered(r)) /\ PageShape(Offered(r))
    BY <2>2, OfferedAlike, OfferedKeeps DEF Kept, PageShape
  <2>4. Alike(Offered(r), Rejected(Offered(r), f.by, f.phone))
    BY <2>3, RejectedAlike
  <2>5. Resumed(p, f) = Rejected(Offered(r), f.by, f.phone)
    BY <1>3 DEF Resumed, q, r
  <2> QED
    BY <2>1, <2>2, <2>3, <2>4, <2>5 DEF Alike
<1> QED
  BY <1>1, <1>2, <1>3

LEMMA RelistedPage ==
  ASSUME NEW p, NEW phones, NEW selection, PageShape(p)
  PROVE  /\ Relisted(p, phones, selection).listed = phones
         /\ Relisted(p, phones, selection).selected = selection
         /\ \/ Relisted(p, phones, selection).paused = p.paused
            \/ p.paused \notin phones
<1> DEFINE Lost(phone) == phone # None /\ phone \notin phones
           q == [p EXCEPT !.listed = phones, !.selected = selection,
                          !.paused = IF Lost(@) THEN None ELSE @,
                          !.suspect = IF Lost(@) THEN None ELSE @,
                          !.blocked = IF Lost(@) THEN None ELSE @,
                          !.count = IF Lost(p.suspect) \/ Lost(p.blocked) THEN 0 ELSE @]
           v == IF Lost(p.paused) THEN None ELSE p.paused
<1>1. v = p.paused \/ p.paused \notin phones
  OBVIOUS
<1> HIDE DEF Lost
<1>2. PageShape(q) /\ q.listed = phones /\ q.selected = selection /\ q.paused = v
  BY DEF PageShape
<1>3. Alike(q, Offered(q))
  BY <1>2, OfferedAlike
<1> HIDE DEF q, v
<1>4. Relisted(p, phones, selection) = Offered(q)
  BY DEF Relisted, q, Lost
<1> QED
  BY <1>1, <1>2, <1>3, <1>4 DEF Alike

-----------------------------------------------------------------------------
LEMMA AlikeRespects ==
  ASSUME NEW p, NEW q, Respects(p), Alike(p, q)
  PROVE  Respects(q) /\ \A phone : Aside(p, phone) => Aside(q, phone)
  BY DEF Alike, Respects, Aside, Missing

(* A list keeps the pause of a phone that is still there.                   *)
LEMMA RelistedRespects ==
  ASSUME NEW p, PageShape(p), PhonesKnown, Respects(p), NEW selection \in Selections(p, plugged)
  PROVE  /\ Respects(Relisted(p, plugged, selection))
         /\ \A phone : Aside(p, phone) => Aside(Relisted(p, plugged, selection), phone)
<1> DEFINE q == Relisted(p, plugged, selection)
<1>1. q.listed = plugged /\ q.selected = selection /\ (q.paused = p.paused \/ p.paused \notin plugged)
  BY RelistedPage
<1> HIDE DEF q
<1>2. selection \in plugged \cup {None} /\ (p.selected \in plugged => selection = p.selected)
  BY DEF Selections
<1>3. \A phone : Aside(p, phone) => Aside(q, phone)
  BY <1>1, <1>2 DEF Aside
<1>4. ASSUME NEW phone \in Left PROVE phone = q.paused \/ Aside(q, phone) \/ Missing(q, phone)
  <2>1. phone # None /\ (phone = p.paused \/ Aside(p, phone) \/ Missing(p, phone))
    BY DEF Respects, Left
  <2>2. CASE phone \notin plugged
    BY <1>1, <1>2, <2>1, <2>2 DEF Missing
  <2>3. CASE phone \in plugged
    BY <1>1, <1>3, <2>1, <2>3 DEF Missing
  <2> QED
    BY <2>2, <2>3
<1> QED
  BY <1>1, <1>2, <1>3, <1>4 DEF Respects, PhonesKnown, q

(* A page that connects on its own leaves aside what was left.              *)
LEMMA DecidesRespects ==
  ASSUME NEW p, PhonesKnown, Respects(p), Steady(world), p.selected \notin {None, p.paused}
  PROVE  /\ p.selected \notin left
         /\ \A phone \in Left : Aside(p, phone)
<1>1. \A phone \in Left : phone # p.selected
  BY DEF Respects, Aside, Missing
<1>2. ASSUME NEW phone \in Left PROVE Aside(p, phone)
  <2>1. p.selected \in world.phones /\ phone \in world.phones /\ phone # p.selected
    BY <1>1 DEF Respects, PhonesKnown
  <2>2. "plug" \notin world.troubles
    BY <2>1 DEF Steady
  <2> QED
    BY <2>1, <2>2 DEF Aside, Respects
<1> QED
  BY <1>1, <1>2 DEF Left

-----------------------------------------------------------------------------
NoneIntrudes == \A t \in Tasks : ~Intrudes(t)

(* The page and at most one function go on; none begins to connect.         *)
LEMMA PauseStep ==
  ASSUME Inv, PauseOrder, UNCHANGED <<world, plugged, left>>,
         NEW p, Respects(p), \A phone : Aside(page, phone) => Aside(p, phone), Alike(p, page'),
         \A s \in Sessions : sess'[s].phone \in world.phones \cup {None},
         page'.server \in Sessions \cup {None}, page'.server # None => Underway,
         \/ UNCHANGED task
         \/ \E t \in Tasks : \E f :
              /\ task' = [task EXCEPT ![t] = f]
              /\ f.at # "start"
              /\ f.at \in {"open", "launch"} => Underway
              /\ f.by = "press" => task[t].by = "press"
  PROVE  PauseOrder' /\ NoneIntrudes
<1>1. PhonesKnown'
  BY DEF PauseOrder, PhonesKnown, Left
<1>2. Respects(page)' /\ \A phone : Aside(page, phone) => Aside(page, phone)'
  <2>1. Respects(page') /\ \A phone : Aside(page, phone) => Aside(page', phone)
    BY AlikeRespects
  <2> QED
    BY <2>1 DEF Respects, Aside, Missing, Left
<1>3. /\ (\E t \in Tasks : task'[t].at \in {"start", "open", "launch"}) => Underway
      /\ \A t \in Tasks : task'[t].at = "start" => task[t].at = "start"
      /\ Pressed' => Pressed
  <2>1. CASE UNCHANGED task
    BY <2>1 DEF Underway, Pressed
  <2>2. ASSUME NEW t \in Tasks, NEW f, task' = [task EXCEPT ![t] = f], f.at # "start",
               f.at \in {"open", "launch"} => Underway, f.by = "press" => task[t].by = "press"
        PROVE  <1>3!:
    <3>1. task'[t] = f /\ \A u \in Tasks \ {t} : task'[u] = task[u]
      BY <2>2 DEF Inv, Shapes
    <3> QED
      BY <2>2, <3>1 DEF Underway, Pressed
  <2> QED
    BY <2>1, <2>2
<1>4. Underway' => Underway
  BY <1>3 DEF Underway
<1>5. PauseOrder'
  BY <1>1, <1>2, <1>3, <1>4 DEF PauseOrder, Left
<1> QED
  BY <1>3, <1>5 DEF NoneIntrudes, Intrudes

(* The user asks for phones again.                                          *)
LEMMA ForgetStep ==
  ASSUME Inv, PauseOrder, UNCHANGED <<world, plugged, sess>>, left' = {},
         page'.selected \in page.listed \cup {page.selected}, page'.listed = page.listed,
         page'.server = page.server, \A t \in Tasks : task'[t].at = "start" => task[t].at = "start"
  PROVE  PauseOrder' /\ NoneIntrudes
<1>1. PhonesKnown' /\ Left' = {}
  BY DEF PauseOrder, PhonesKnown, Left
<1>2. Respects(page)'
  BY <1>1 DEF PauseOrder, Respects
<1> QED
  BY <1>1, <1>2 DEF PauseOrder, NoneIntrudes, Intrudes

(* connect() begins, for one who presses or for the cycle, or ends.         *)
LEMMA ConnectsPause ==
  ASSUME Inv, PauseOrder, Steady(world), NEW t \in Tasks, NEW p, NEW phone,
         PageShape(p), Kept(page, p), Respects(p), \A x : Aside(page, x) => Aside(p, x),
         Connects(t, p, task[t].by, phone), UNCHANGED <<world, plugged, sess, left>>,
         task[t].by = "press" \/ (task[t].by = "cycle" /\ Decides(p))
  PROVE  PauseOrder' /\ NoneIntrudes
<1>1. \A s \in Sessions : sess'[s].phone \in world.phones \cup {None}
  BY DEF PauseOrder, PhonesKnown
<1>2. Idle.at = "idle" /\ Idle.by = "none"
  BY DEF Idle, None
<1>3. CASE task' = [task EXCEPT ![t] = Idle] /\ (page' = p \/ page' = Rejected(p, task[t].by, phone))
  <2>1. Alike(p, page') /\ page'.server = page.server
    BY <1>3, RejectedAlike, RejectedKeeps DEF Alike, Kept
  <2>2. page'.server \in Sessions \cup {None} /\ (page'.server # None => Underway)
    BY <2>1 DEF Underway, PauseOrder
  <2>3. \E u \in Tasks : \E f : /\ task' = [task EXCEPT ![u] = f]
                                /\ f.at # "start"
                                /\ f.at \in {"open", "launch"} => Underway
                                /\ f.by = "press" => task[u].by = "press"
    BY <1>2, <1>3
  <2> QED
    BY <1>1, <2>1, <2>2, <2>3, PauseStep
<1>4. CASE /\ page' = [p EXCEPT !.connecting = TRUE, !.timer = FALSE, !.button = FALSE]
           /\ task' = [task EXCEPT ![t] = [Idle EXCEPT !.at = "start", !.by = task[t].by, !.phone = phone,
                                                       !.target = p.selected]]
  <2> DEFINE f == [Idle EXCEPT !.at = "start", !.by = task[t].by, !.phone = phone, !.target = p.selected]
  <2>1. f.by = task[t].by /\ f.target = p.selected
    BY DEF Idle
  <2> HIDE DEF f
  <2>2. task'[t] = f /\ \A u \in Tasks \ {t} : task'[u] = task[u]
    BY <1>4 DEF Inv, Shapes, f
  <2>3. Alike(p, page')
    BY <1>4 DEF PageShape, Alike
  <2> page'.server \in Sessions \cup {None}
    BY <1>4 DEF PageShape, Kept, PauseOrder
  <2>4. (\A x \in Left : Aside(p, x)) /\ (task[t].by = "cycle" => p.selected \notin left)
    <3>1. CASE task[t].by = "press"
      BY <3>1 DEF PauseOrder, Pressed, Left
    <3>2. CASE task[t].by = "cycle" /\ Decides(p)
      BY <3>2, DecidesRespects DEF PauseOrder, Decides
    <3> QED
      BY <3>1, <3>2
  <2>5. Respects(page)' /\ \A x \in Left : Aside(page, x)'
    <3>1. Respects(page') /\ \A x : Aside(p, x) => Aside(page', x)
      BY <2>3, AlikeRespects
    <3> QED
      BY <2>4, <3>1 DEF Respects, Aside, Missing, Left
  <2>6. PhonesKnown' /\ (Pressed' => Pressed)
    BY <1>1, <2>1, <2>2 DEF PauseOrder, PhonesKnown, Pressed, Left
  <2>7. PauseOrder'
    BY <2>5, <2>6 DEF PauseOrder, Left
  <2> QED
    BY <2>1, <2>2, <2>4, <2>7 DEF NoneIntrudes, Intrudes
<1> QED
  BY <1>3, <1>4 DEF Connects, Ends, Goes

-----------------------------------------------------------------------------
LEMMA PressPauses ==
  ASSUME Inv, ~gone, world.patient, PauseOrder, NEW t \in Tasks, Press(t)
  PROVE  PauseOrder' /\ NoneIntrudes
<1>1. /\ UNCHANGED <<world, plugged, sess, gone>>
      /\ ~page.connecting
      /\ \A u \in Tasks : task[u].by # "press"
  BY DEF Press
<1>2. CASE Leaves(t)
  <2> DEFINE phone == sess[page.server].phone
             p == [page EXCEPT !.closing = TRUE, !.timer = FALSE, !.paused = phone]
             f == Clearing("leave", None)
  <2>1. /\ page.server # None /\ page' = Cleared(p) /\ task' = [task EXCEPT ![t] = f]
        /\ left' = left \cup {phone}
    BY <1>2 DEF Leaves, Goes
  <2>2. f.at = "close" /\ f.by = "leave"
    BY DEF Clearing, Idle
  <2> HIDE DEF f
  <2>3. page.server \in Sessions
    BY <2>1 DEF PauseOrder
  <2>4. phone \in world.phones \cup {None}
    BY <2>3 DEF PauseOrder, PhonesKnown
  <2> HIDE DEF phone
  <2>5. /\ page'.selected = page.selected /\ page'.listed = page.listed /\ page'.paused = phone
        /\ page'.server = None
    BY <2>1 DEF Inv, Shapes, PageShape, Cleared
  <2>6. task'[t] = f /\ \A u \in Tasks \ {t} : task'[u] = task[u]
    BY <2>1 DEF Inv, Shapes
  <2>7. \A u \in Tasks : task'[u].at \notin {"start", "open", "launch"} /\ task'[u].by # "press"
    BY <1>1, <2>2, <2>6 DEF Inv, Orderly, OneConnect, Connecting
  <2>8. Left' \subseteq Left \cup {phone} /\ Left' \subseteq world.phones
    BY <2>1, <2>4 DEF PauseOrder, PhonesKnown, Left
  <2>9. PhonesKnown'
    BY <1>1, <2>8 DEF PauseOrder, PhonesKnown
  <2>10. \A x \in Left : Aside(page, x)
    BY <2>1 DEF PauseOrder, Underway
  <2>11. Respects(page)'
    BY <1>1, <2>5, <2>8, <2>10 DEF PauseOrder, Respects, Aside
  <2>12. ~Underway' /\ ~Pressed'
    BY <2>5, <2>7 DEF Underway, Pressed
  <2> QED
    BY <2>5, <2>7, <2>9, <2>11, <2>12 DEF PauseOrder, NoneIntrudes, Intrudes
<1>3. CASE Reconnects(t)
  <2> DEFINE f == [Idle EXCEPT !.at = "list", !.by = "press"]
  <2>1. f.at = "list"
    BY DEF Idle
  <2>2. page' = [page EXCEPT !.timer = FALSE] /\ task' = [task EXCEPT ![t] = f] /\ left' = {}
    BY <1>3 DEF Reconnects, Goes
  <2> HIDE DEF f
  <2>3. page'.selected = page.selected /\ page'.listed = page.listed /\ page'.server = page.server
    BY <2>2 DEF Inv, Shapes, PageShape
  <2>4. \A u \in Tasks : task'[u].at = "start" => task[u].at = "start"
    BY <2>1, <2>2 DEF Inv, Shapes
  <2>5. UNCHANGED <<world, plugged, sess>> /\ page'.selected \in page.listed \cup {page.selected}
    BY <1>1, <2>3
  <2> QED
    BY <2>2, <2>3, <2>4, <2>5, ForgetStep
<1> QED
  BY <1>2, <1>3 DEF Press

LEMMA ChoosePauses ==
  ASSUME Inv, PauseOrder, NEW t \in Tasks, Choose(t)
  PROVE  PauseOrder' /\ NoneIntrudes
<1>1. PICK phone \in page.listed :
        /\ page' = Pardoned([page EXCEPT !.selected = phone, !.paused = None])
        /\ task' = [task EXCEPT ![t] = [Idle EXCEPT !.at = "probe", !.by = "choice", !.phone = phone]]
  BY DEF Choose, Goes
<1> DEFINE p == [page EXCEPT !.selected = phone, !.paused = None]
           f == [Idle EXCEPT !.at = "probe", !.by = "choice", !.phone = phone]
<1>2. /\ PageShape(p) /\ p.selected = phone /\ p.listed = page.listed /\ p.server = page.server
      /\ f.at = "probe"
  BY DEF Inv, Shapes, PageShape, Idle
<1>3. page' = Pardoned(p) /\ task' = [task EXCEPT ![t] = f]
  BY <1>1
<1> HIDE DEF p, f
<1>4. page'.selected = phone /\ page'.listed = page.listed /\ page'.server = page.server
  BY <1>2, <1>3, PardonedKeeps, PardonedAlike DEF Kept, Alike
<1>5. UNCHANGED <<world, plugged, sess>> /\ left' = {}
  BY DEF Choose
<1>6. \A u \in Tasks : task'[u].at = "start" => task[u].at = "start"
  BY <1>2, <1>3 DEF Inv, Shapes
<1>7. page'.selected \in page.listed \cup {page.selected}
  BY <1>4
<1> QED
  BY <1>4, <1>5, <1>6, <1>7, ForgetStep

LEMMA SettingsPause ==
  ASSUME Inv, PauseOrder, Switch \/ Rebudget \/ Look
  PROVE  PauseOrder' /\ NoneIntrudes
<1>1. PageShape(page) /\ UNCHANGED <<world, plugged, task, sess>>
  BY DEF Inv, Shapes, Switch, Rebudget, Look
<1>2. \A s \in Sessions : sess'[s].phone \in world.phones \cup {None}
  BY <1>1 DEF PauseOrder, PhonesKnown
<1>3. ASSUME page'.server = page.server
      PROVE  page'.server \in Sessions \cup {None} /\ (page'.server # None => Underway)
  BY <1>3 DEF PauseOrder, Underway
<1>4. CASE Switch
  <2> DEFINE p == [page EXCEPT !.enabled = ~@, !.timer = FALSE]
             q == Pardoned(p)
             r == [q EXCEPT !.paused = None]
  <2>1. PageShape(p) /\ Alike(page, p) /\ p.server = page.server
    BY <1>1 DEF PageShape, Alike
  <2> HIDE DEF p
  <2>2. PageShape(q) /\ Alike(page, q) /\ q.server = page.server
    BY <2>1, PardonedKeeps, PardonedAlike DEF PageShape, Kept, Alike
  <2> HIDE DEF q
  <2>3. PageShape(r) /\ r.selected = page.selected /\ r.listed = page.listed /\ r.server = page.server
    BY <2>2 DEF PageShape, Alike
  <2> HIDE DEF r
  <2>4. /\ Watched(r).selected = page.selected /\ Watched(r).listed = page.listed
        /\ Watched(r).server = page.server
    BY <2>3, WatchedKeeps, WatchedAlike DEF Kept, Alike
  <2>5. CASE page.enabled
    <3>1. page' = q /\ UNCHANGED left
      BY <1>4, <2>5 DEF Switch, p, q
    <3> QED
      BY <1>1, <1>2, <1>3, <2>2, <3>1, PauseStep DEF PauseOrder
  <2>6. CASE ~page.enabled
    <3>1. page' \in {r, Watched(r)} /\ left' = {}
      BY <1>4, <2>6 DEF Switch, p, q, r
    <3>2. page'.selected = page.selected /\ page'.listed = page.listed /\ page'.server = page.server
      BY <2>3, <2>4, <3>1
    <3>3. UNCHANGED <<world, plugged, sess>> /\ page'.selected \in page.listed \cup {page.selected}
      BY <1>1, <3>2
    <3> QED
      BY <1>1, <3>1, <3>2, <3>3, ForgetStep
  <2> QED
    BY <2>5, <2>6
<1>5. CASE Rebudget
  <2>1. page' = Watched(Pardoned(page)) /\ UNCHANGED left
    BY <1>5 DEF Rebudget
  <2>2. PageShape(Pardoned(page)) /\ Kept(page, Pardoned(page)) /\ Alike(page, Pardoned(page))
    BY <1>1, PardonedKeeps, PardonedAlike DEF PageShape, Kept
  <2>3. Alike(page, page') /\ page'.server = page.server
    BY <2>1, <2>2, WatchedKeeps, WatchedAlike DEF Kept, Alike
  <2> QED
    BY <1>1, <1>2, <1>3, <2>1, <2>3, PauseStep DEF PauseOrder
<1>6. CASE Look
  <2>1. UNCHANGED left
    BY <1>6 DEF Look
  <2>2. CASE page' = Offered(page)
    <3>1. Alike(page, page') /\ page'.server = page.server
      BY <1>1, <2>2, OfferedKeeps, OfferedAlike DEF Kept
    <3> QED
      BY <1>1, <1>2, <1>3, <2>1, <3>1, PauseStep DEF PauseOrder
  <2>3. ASSUME NEW selection \in Selections(page, plugged), page' = Relisted(page, plugged, selection)
        PROVE  PauseOrder' /\ NoneIntrudes
    <3>1. page'.server = page.server
      BY <1>1, <2>3, RelistedKeeps DEF Kept
    <3>2. Respects(page') /\ \A phone : Aside(page, phone) => Aside(page', phone)
      BY <1>1, <2>3, RelistedRespects DEF PauseOrder
    <3>3. Alike(page', page')
      BY DEF Alike
    <3> QED
      BY <1>1, <1>2, <1>3, <2>1, <3>1, <3>2, <3>3, PauseStep
  <2> QED
    BY <1>6, <2>2, <2>3 DEF Look
<1> QED
  BY <1>4, <1>5, <1>6

LEMMA TimerPauses ==
  ASSUME Inv, PauseOrder, NEW t \in Tasks, TimerFires(t)
  PROVE  PauseOrder' /\ NoneIntrudes
<1> DEFINE f == [Idle EXCEPT !.at = "list", !.by = "cycle", !.phone = page.selected]
<1>1. f.at = "list" /\ f.by = "cycle"
  BY DEF Idle
<1>2. (task' = [task EXCEPT ![t] = f]) \/ UNCHANGED task
  BY DEF TimerFires, Goes
<1> HIDE DEF f
<1>3. Alike(page, page') /\ page'.server = page.server /\ UNCHANGED <<world, plugged, left, sess>>
  BY DEF TimerFires, Inv, Shapes, PageShape, Alike
<1>4. /\ page'.server \in Sessions \cup {None} /\ (page'.server # None => Underway)
      /\ \A s \in Sessions : sess'[s].phone \in world.phones \cup {None}
  BY <1>3 DEF PauseOrder, PhonesKnown, Underway
<1>5. \/ UNCHANGED task
      \/ \E u \in Tasks : \E g : /\ task' = [task EXCEPT ![u] = g]
                                 /\ g.at # "start"
                                 /\ g.at \in {"open", "launch"} => Underway
                                 /\ g.by = "press" => task[u].by = "press"
  BY <1>1, <1>2
<1> QED
  BY <1>3, <1>4, <1>5, PauseStep DEF PauseOrder

LEMMA ListedPauses ==
  ASSUME Inv, PauseOrder, Steady(world), NEW t \in Tasks, Listed(t)
  PROVE  PauseOrder' /\ NoneIntrudes
<1>1. /\ UNCHANGED <<world, plugged, sess, left>> /\ PageShape(page)
      /\ \A s \in Sessions : sess'[s].phone \in world.phones \cup {None}
  BY DEF Listed, PauseOrder, PhonesKnown, Inv, Shapes
<1>2. PICK selection \in Selections(page, plugged) :
        LET p == Relisted(page, plugged, selection)
            probe == [task[t] EXCEPT !.at = "probe", !.phone = selection]
        IN  \/ page' = p /\ Goes(t, probe)
            \/ task[t].by = "cycle" /\ Decides(p) /\ Connects(t, p, "cycle", selection)
            \/ page' = (IF Wants(p) THEN Watched(p) ELSE p) /\ Ends(t)
  BY DEF Listed
<1> DEFINE p == Relisted(page, plugged, selection)
           probe == [task[t] EXCEPT !.at = "probe", !.phone = selection]
<1>3. PageShape(p) /\ Kept(page, p) /\ Respects(p) /\ \A phone : Aside(page, phone) => Aside(p, phone)
  BY <1>1, RelistedKeeps, RelistedRespects DEF Kept, PageShape, PauseOrder
<1>4. /\ probe.at = "probe" /\ probe.by = task[t].by
      /\ Idle.at = "idle" /\ Idle.by # "press"
  BY DEF Inv, Shapes, TaskShape, Idle, None
<1> HIDE DEF p, probe
<1>5. CASE task[t].by = "cycle" /\ Decides(p) /\ Connects(t, p, "cycle", selection)
  BY <1>1, <1>3, <1>5, ConnectsPause
<1>6. ASSUME NEW f \in {probe, Idle}, task' = [task EXCEPT ![t] = f],
             page' = p \/ page' = Watched(p)
      PROVE  PauseOrder' /\ NoneIntrudes
  <2>1. Alike(p, page') /\ page'.server = page.server
    BY <1>3, <1>6, WatchedAlike, WatchedKeeps DEF Alike, Kept
  <2>2. page'.server \in Sessions \cup {None} /\ (page'.server # None => Underway)
    BY <2>1 DEF PauseOrder, Underway
  <2>3. \E u \in Tasks : \E g : /\ task' = [task EXCEPT ![u] = g]
                                /\ g.at # "start"
                                /\ g.at \in {"open", "launch"} => Underway
                                /\ g.by = "press" => task[u].by = "press"
    BY <1>4, <1>6
  <2> QED
    BY <1>1, <1>3, <2>1, <2>2, <2>3, PauseStep
<1> QED
  BY <1>2, <1>5, <1>6 DEF p, probe, Goes, Ends

LEMMA ListFailsPauses ==
  ASSUME Inv, PauseOrder, NEW t \in Tasks, ListFails(t)
  PROVE  PauseOrder' /\ NoneIntrudes
<1>1. /\ UNCHANGED <<world, plugged, sess, left>> /\ PageShape(page) /\ task' = [task EXCEPT ![t] = Idle]
      /\ page' = page \/ page' = Rejected(page, "cycle", page.selected)
  BY DEF ListFails, Inv, Shapes, Ends, Goes
<1>2. Alike(page, page') /\ page'.server = page.server
  BY <1>1, RejectedAlike, RejectedKeeps DEF Alike, Kept
<1>3. /\ page'.server \in Sessions \cup {None} /\ (page'.server # None => Underway)
      /\ \A s \in Sessions : sess'[s].phone \in world.phones \cup {None}
  BY <1>1, <1>2 DEF PauseOrder, PhonesKnown, Underway
<1>4. Idle.at = "idle" /\ Idle.by # "press"
  BY DEF Idle, None
<1>5. \E u \in Tasks : \E g : /\ task' = [task EXCEPT ![u] = g]
                              /\ g.at # "start"
                              /\ g.at \in {"open", "launch"} => Underway
                              /\ g.by = "press" => task[u].by = "press"
  BY <1>1, <1>4
<1> QED
  BY <1>1, <1>2, <1>3, <1>5, PauseStep DEF PauseOrder

LEMMA ProbedPauses ==
  ASSUME Inv, PauseOrder, Steady(world), NEW t \in Tasks, Probed(t)
  PROVE  PauseOrder' /\ NoneIntrudes
<1>1. /\ UNCHANGED <<world, plugged, sess, left>>
      /\ \A s \in Sessions : sess'[s].phone \in world.phones \cup {None}
  BY DEF Probed, PauseOrder, PhonesKnown
<1> DEFINE p == IF page.selected = task[t].phone THEN Offered(page) ELSE page
           q == [p EXCEPT !.timer = FALSE, !.paused = None]
<1>2. PageShape(p) /\ Kept(page, p) /\ Alike(page, p)
  BY OfferedKeeps, OfferedAlike DEF Inv, Shapes, Kept, PageShape, Alike
<1>3. \/ task[t].by = "press" /\ Connects(t, Pardoned(q), "press", p.selected)
      \/ task[t].by = "cycle" /\ Decides(p) /\ Connects(t, p, "cycle", task[t].phone)
      \/ page' = (IF Wants(p) THEN Watched(p) ELSE p) /\ Ends(t)
  BY DEF Probed
<1> HIDE DEF p
<1>4. Respects(p) /\ \A phone : Aside(page, phone) => Aside(p, phone)
  BY <1>2, AlikeRespects DEF PauseOrder
<1>5. CASE task[t].by = "press" /\ Connects(t, Pardoned(q), "press", p.selected)
  <2>1. PageShape(q) /\ Kept(page, q) /\ q.selected = p.selected /\ q.listed = p.listed
    BY <1>2 DEF PageShape, Kept
  <2> HIDE DEF q
  <2>2. left = {}
    BY <1>5 DEF PauseOrder, Pressed
  <2>3. Respects(q) /\ \A phone : Aside(page, phone) => Aside(q, phone)
    BY <1>2, <1>4, <2>1, <2>2 DEF Respects, Aside, Alike, Left
  <2>4. PageShape(Pardoned(q)) /\ Kept(page, Pardoned(q)) /\ Alike(q, Pardoned(q))
    BY <2>1, PardonedKeeps, PardonedAlike DEF Kept, PageShape
  <2>5. Respects(Pardoned(q)) /\ \A phone : Aside(page, phone) => Aside(Pardoned(q), phone)
    BY <2>3, <2>4, AlikeRespects
  <2> QED
    BY <1>1, <1>5, <2>4, <2>5, ConnectsPause
<1>6. CASE task[t].by = "cycle" /\ Decides(p) /\ Connects(t, p, "cycle", task[t].phone)
  BY <1>1, <1>2, <1>4, <1>6, ConnectsPause
<1>7. CASE page' = (IF Wants(p) THEN Watched(p) ELSE p) /\ Ends(t)
  <2>1. Alike(p, page') /\ page'.server = page.server
    BY <1>2, <1>7, WatchedKeeps, WatchedAlike DEF Kept, Alike
  <2>2. Idle.at = "idle" /\ Idle.by # "press" /\ task' = [task EXCEPT ![t] = Idle]
    BY <1>7 DEF Idle, None, Ends, Goes
  <2>3. page'.server \in Sessions \cup {None} /\ (page'.server # None => Underway)
    BY <2>1 DEF PauseOrder, Underway
  <2>4. \E u \in Tasks : \E g : /\ task' = [task EXCEPT ![u] = g]
                                /\ g.at # "start"
                                /\ g.at \in {"open", "launch"} => Underway
                                /\ g.by = "press" => task[u].by = "press"
    BY <2>2
  <2> QED
    BY <1>1, <1>4, <2>1, <2>3, <2>4, PauseStep
<1> QED
  BY <1>3, <1>5, <1>6, <1>7

LEMMA StartedPauses ==
  ASSUME Inv, ~gone, PauseOrder, NEW t \in Tasks, Started(t)
  PROVE  PauseOrder' /\ NoneIntrudes
<1>1. PICK s \in Sessions :
        /\ sess' = [sess EXCEPT ![s] = [NoSession EXCEPT !.state = "running", !.phone = task[t].target]]
        /\ page' = [page EXCEPT !.server = s]
        /\ task' = [task EXCEPT ![t] = [task[t] EXCEPT !.at = "open", !.session = s]]
  BY DEF Started, Goes
<1>2. UNCHANGED <<world, plugged, left>> /\ task[t].at = "start" /\ task[t].target \in plugged
  BY DEF Started
<1> DEFINE r == [NoSession EXCEPT !.state = "running", !.phone = task[t].target]
           f == [task[t] EXCEPT !.at = "open", !.session = s]
<1>3. r.phone = task[t].target /\ f.at = "open" /\ f.by = task[t].by
  BY DEF NoSession, Inv, Shapes, TaskShape
<1>4. sess' = [sess EXCEPT ![s] = r] /\ task' = [task EXCEPT ![t] = f]
  BY <1>1
<1> HIDE DEF r, f
<1>5. \A q \in Sessions : sess'[q].phone \in world.phones \cup {None}
  BY <1>2, <1>3, <1>4 DEF PauseOrder, PhonesKnown, Inv, Shapes
<1>6. Alike(page, page') /\ page'.server = s /\ Underway
  BY <1>1, <1>2 DEF Inv, Shapes, PageShape, Alike, Underway
<1>7. \E u \in Tasks : \E g : /\ task' = [task EXCEPT ![u] = g]
                              /\ g.at # "start"
                              /\ g.at \in {"open", "launch"} => Underway
                              /\ g.by = "press" => task[u].by = "press"
  BY <1>3, <1>4, <1>6
<1> QED
  BY <1>2, <1>5, <1>6, <1>7, PauseStep DEF PauseOrder

(* A clean-up begins: of a connect() that fails, or of a stream.            *)
LEMMA ClearingPauses ==
  ASSUME Inv, PauseOrder, UNCHANGED <<world, plugged, left>>,
         \A s \in Sessions : sess'[s].phone \in world.phones \cup {None},
         page' = Cleared(page), NEW t \in Tasks, NEW by, NEW phone,
         task' = [task EXCEPT ![t] = Clearing(by, phone)], by = "press" => task[t].by = "press"
  PROVE  PauseOrder' /\ NoneIntrudes
<1>1. Clearing(by, phone).at = "close" /\ Clearing(by, phone).by = by
  BY DEF Clearing, Idle
<1>2. Alike(page, page') /\ page'.server = None
  BY DEF Inv, Shapes, PageShape, Alike, Cleared
<1>3. \E u \in Tasks : \E g : /\ task' = [task EXCEPT ![u] = g]
                              /\ g.at # "start"
                              /\ g.at \in {"open", "launch"} => Underway
                              /\ g.by = "press" => task[u].by = "press"
  BY <1>1
<1>4. page'.server \in Sessions \cup {None} /\ (page'.server # None => Underway)
  BY <1>2
<1> QED
  BY <1>2, <1>3, <1>4, PauseStep DEF PauseOrder

LEMMA FailsPauses ==
  ASSUME Inv, PauseOrder, NEW t \in Tasks, StartFails(t) \/ OpenFails(t) \/ LaunchFails(t)
  PROVE  PauseOrder' /\ NoneIntrudes
<1>1. ConnectFails(t)
  BY DEF StartFails, OpenFails, LaunchFails
<1>2. /\ page' = Cleared(page) /\ task' = [task EXCEPT ![t] = Clearing(task[t].by, task[t].phone)]
      /\ UNCHANGED <<world, plugged, left>> /\ UNCHANGED sess
  BY <1>1 DEF ConnectFails, Goes
<1>3. \A s \in Sessions : sess'[s].phone \in world.phones \cup {None}
  BY <1>2 DEF PauseOrder, PhonesKnown
<1> QED
  BY <1>2, <1>3, ClearingPauses

(* The page forgets whom it paused for, as all that was left is aside.      *)
LEMMA OpenedPauses ==
  ASSUME Inv, PauseOrder, NEW t \in Tasks, Opened(t)
  PROVE  PauseOrder' /\ NoneIntrudes
<1> DEFINE s == task[t].session
           a == [page EXCEPT !.protocol = s]
           b == [Shown(a, TRUE) EXCEPT !.stopped = FALSE, !.paused = None]
           p == Pardoned(b)
           q == [p EXCEPT !.connecting = FALSE]
           f == [task[t] EXCEPT !.at = "launch"]
<1>1. /\ task[t].at = "open" /\ UNCHANGED <<world, plugged, left>>
      /\ sess' = [sess EXCEPT ![s].loop = TRUE]
      /\ \/ page' = p /\ task' = [task EXCEPT ![t] = f]
         \/ page' = Offered(q) /\ task' = [task EXCEPT ![t] = Idle]
  BY DEF Opened, Goes, Ends
<1>2. PageShape(a) /\ Kept(page, a) /\ Alike(page, a)
  BY DEF Inv, Shapes, PageShape, Kept, Alike
<1> HIDE DEF a
<1>3. PageShape(Shown(a, TRUE)) /\ Kept(page, Shown(a, TRUE)) /\ Alike(page, Shown(a, TRUE))
  BY <1>2, ShownKeeps, ShownAlike DEF PageShape, Kept, Alike
<1>4. PageShape(b) /\ Kept(page, b) /\ b.selected = page.selected /\ b.listed = page.listed
  BY <1>3 DEF PageShape, Kept, Alike
<1> HIDE DEF b
<1>5. PageShape(p) /\ Kept(page, p) /\ Alike(b, p)
  BY <1>4, PardonedKeeps, PardonedAlike DEF PageShape, Kept
<1> HIDE DEF p
<1>6. PageShape(q) /\ q.server = page.server /\ Alike(b, q)
  BY <1>5 DEF PageShape, Kept, Alike
<1> HIDE DEF q
<1>7. Offered(q).server = page.server /\ Alike(b, Offered(q))
  BY <1>6, OfferedKeeps, OfferedAlike DEF Kept, Alike
<1>8. Alike(b, page') /\ page'.server = page.server
  BY <1>1, <1>5, <1>7 DEF Kept
<1>9. Underway
  BY <1>1 DEF Underway
<1>10. Respects(b) /\ \A phone : Aside(page, phone) => Aside(b, phone)
  <2>1. \A phone : Aside(page, phone) => Aside(b, phone)
    BY <1>4 DEF Aside
  <2>2. \A phone \in Left : Aside(b, phone)
    BY <1>9, <2>1 DEF PauseOrder
  <2> QED
    BY <1>4, <2>1, <2>2 DEF Respects, PauseOrder
<1>11. \A x \in Sessions : sess'[x].phone \in world.phones \cup {None}
  <2>1. \A x \in Sessions : sess'[x].phone = sess[x].phone
    BY <1>1 DEF Inv, Shapes, SessShape
  <2> QED
    BY <2>1 DEF PauseOrder, PhonesKnown
<1>12. /\ f.at = "launch" /\ f.by = task[t].by
       /\ Idle.at = "idle" /\ Idle.by # "press"
  BY DEF Inv, Shapes, TaskShape, Idle, None
<1> HIDE DEF f, s
<1>13. \E u \in Tasks : \E g : /\ task' = [task EXCEPT ![u] = g]
                               /\ g.at # "start"
                               /\ g.at \in {"open", "launch"} => Underway
                               /\ g.by = "press" => task[u].by = "press"
  BY <1>1, <1>9, <1>12
<1>14. page'.server \in Sessions \cup {None} /\ (page'.server # None => Underway)
  BY <1>8, <1>9 DEF PauseOrder
<1> QED
  BY <1>1, <1>8, <1>10, <1>11, <1>13, <1>14, PauseStep

(* A connect() returns, or a clean-up goes on or ends.                      *)
LEMMA EndsPause ==
  ASSUME Inv, PauseOrder, NEW t \in Tasks, Launched(t) \/ ProtocolClosed(t) \/ StopAnswered(t)
  PROVE  PauseOrder' /\ NoneIntrudes
<1> DEFINE q == [page EXCEPT !.connecting = FALSE]
           f == [task[t] EXCEPT !.at = "stop"]
<1>1. /\ UNCHANGED <<world, plugged, left>>
      /\ page' \in {page, Offered(q), Resumed(page, task[t])}
      /\ task' \in {[task EXCEPT ![t] = f], [task EXCEPT ![t] = Idle]}
  BY DEF Launched, ProtocolClosed, StopAnswered, Ends, Goes
<1>2. \A s \in Sessions : sess'[s].phone \in world.phones \cup {None}
  <2>1. \A s \in Sessions : sess'[s].phone = sess[s].phone
    BY DEF Launched, ProtocolClosed, StopAnswered, Inv, Shapes, SessShape
  <2> QED
    BY <2>1 DEF PauseOrder, PhonesKnown
<1>3. PageShape(q) /\ Alike(page, q) /\ q.server = page.server
  BY DEF Inv, Shapes, PageShape, Alike
<1>4. /\ f.at = "stop" /\ f.by = task[t].by
      /\ Idle.at = "idle" /\ Idle.by # "press"
  BY DEF Inv, Shapes, TaskShape, Idle, None
<1> HIDE DEF q, f
<1>5. Alike(page, Offered(q)) /\ Offered(q).server = page.server
  BY <1>3, OfferedKeeps, OfferedAlike DEF Kept, Alike
<1>6. Alike(page, Resumed(page, task[t])) /\ Resumed(page, task[t]).server = page.server
  BY ResumedKeeps, ResumedAlike DEF Inv, Shapes
<1>7. Alike(page, page)
  BY DEF Alike
<1>8. Alike(page, page') /\ page'.server = page.server
  BY <1>1, <1>5, <1>6, <1>7
<1>9. \E u \in Tasks : \E g : /\ task' = [task EXCEPT ![u] = g]
                              /\ g.at # "start"
                              /\ g.at \in {"open", "launch"} => Underway
                              /\ g.by = "press" => task[u].by = "press"
  BY <1>1, <1>4
<1>10. page'.server \in Sessions \cup {None} /\ (page'.server # None => Underway)
  BY <1>8 DEF PauseOrder, Underway
<1> QED
  BY <1>1, <1>2, <1>8, <1>9, <1>10, PauseStep DEF PauseOrder

LEMMA LoopsPause ==
  ASSUME Inv, PauseOrder, NEW s \in Sessions, LoopEnds(s) \/ LoopBreaks(s) \/ LoopReturns(s)
  PROVE  PauseOrder' /\ NoneIntrudes
<1>1. sess' = [sess EXCEPT ![s].loop = FALSE] /\ UNCHANGED <<world, plugged, left>>
  BY DEF LoopEnds, LoopBreaks, LoopReturns, LoopRejects
<1>2. \A x \in Sessions : sess'[x].phone \in world.phones \cup {None}
  <2>1. \A x \in Sessions : sess'[x].phone = sess[x].phone
    BY <1>1 DEF Inv, Shapes, SessShape
  <2> QED
    BY <2>1 DEF PauseOrder, PhonesKnown
<1>3. CASE UNCHANGED <<page, task>>
  <2>1. Alike(page, page') /\ page'.server \in Sessions \cup {None} /\ (page'.server # None => Underway)
    BY <1>3 DEF Alike, PauseOrder, Underway
  <2> QED
    BY <1>1, <1>2, <1>3, <2>1, PauseStep DEF PauseOrder
<1>4. ASSUME NEW t \in Tasks, NEW phone, page' = Cleared(page),
             task' = [task EXCEPT ![t] = Clearing("failure", phone)]
      PROVE  PauseOrder' /\ NoneIntrudes
  BY <1>1, <1>2, <1>4, ClearingPauses
<1> QED
  BY <1>3, <1>4 DEF LoopEnds, LoopBreaks, LoopReturns, LoopRejects, Goes

LEMMA OutsidePauses ==
  ASSUME Inv, PauseOrder, \/ \E s \in Sessions : SessionEnds(s) \/ SessionDies(s)
                          \/ \E phone \in Phones : Unplug(phone) \/ Plug(phone)
  PROVE  PauseOrder' /\ NoneIntrudes
<1>1. UNCHANGED <<world, page, task>>
  BY DEF SessionEnds, SessionDies, Unplug, Plug
<1>2. NoneIntrudes
  BY <1>1 DEF NoneIntrudes, Intrudes
<1>3. ASSUME NEW s \in Sessions, SessionEnds(s) \/ SessionDies(s) PROVE PauseOrder'
  <2>1. UNCHANGED <<world, plugged, left>> /\ sess' = [sess EXCEPT ![s].state = "ended"]
    BY <1>3 DEF SessionEnds, SessionDies
  <2>2. \A x \in Sessions : sess'[x].phone = sess[x].phone
    BY <2>1 DEF Inv, Shapes, SessShape
  <2>3. \A x \in Sessions : sess'[x].phone \in world.phones \cup {None}
    BY <2>2 DEF PauseOrder, PhonesKnown
  <2>4. Alike(page, page') /\ page'.server \in Sessions \cup {None} /\ (page'.server # None => Underway)
    BY <1>1 DEF Alike, PauseOrder, Underway
  <2> QED
    BY <1>1, <2>1, <2>3, <2>4, PauseStep DEF PauseOrder
<1>4. ASSUME NEW phone \in Phones, Unplug(phone) \/ Plug(phone) PROVE PauseOrder'
  <2>1. UNCHANGED sess /\ left' = left \ {phone} /\ Left' = Left \ {phone}
    BY <1>4 DEF Unplug, Plug, Left
  <2>2. plugged' \subseteq world.phones /\ \A x \in Left' : x \in plugged' <=> x \in plugged
    BY <1>4, <2>1 DEF Unplug, Plug, PauseOrder, PhonesKnown
  <2>3. "plug" \notin world.troubles => plugged \subseteq plugged'
    BY <1>4 DEF Unplug, Plug, Trouble
  <2>4. \A x : Aside(page, x) => Aside(page, x)'
    BY <1>1, <2>3 DEF Aside
  <2>5. Respects(page)'
    BY <1>1, <2>1, <2>2, <2>3, <2>4 DEF PauseOrder, Respects, Missing
  <2>6. PhonesKnown'
    BY <1>1, <2>1, <2>2 DEF PauseOrder, PhonesKnown
  <2>7. Underway' = Underway /\ Pressed' = Pressed
    BY <1>1 DEF Underway, Pressed
  <2> QED
    BY <1>1, <2>1, <2>4, <2>5, <2>6, <2>7 DEF PauseOrder
<1> QED
  BY <1>2, <1>3, <1>4

-----------------------------------------------------------------------------
LEMMA WorldStays == ASSUME [Next]_vars PROVE UNCHANGED world /\ (UNCHANGED gone \/ gone' = TRUE)
<1> DEFINE Stays == UNCHANGED world /\ (UNCHANGED gone \/ gone' = TRUE)
<1>1. ASSUME NEW t \in Tasks, Press(t) \/ Choose(t) \/ TimerFires(t) PROVE Stays
  BY <1>1 DEF Press, Choose, TimerFires
<1>2. ASSUME NEW t \in Tasks, Listed(t) \/ ListFails(t) \/ Probed(t) PROVE Stays
  BY <1>2 DEF Listed, ListFails, Probed
<1>3. ASSUME NEW t \in Tasks, StartFails(t) \/ OpenFails(t) \/ LaunchFails(t) PROVE Stays
  BY <1>3 DEF StartFails, OpenFails, LaunchFails, ConnectFails
<1>4. ASSUME NEW t \in Tasks, Started(t) \/ Opened(t) \/ Launched(t) PROVE Stays
  BY <1>4 DEF Started, Opened, Launched
<1>5. ASSUME NEW t \in Tasks, ProtocolClosed(t) \/ StopAnswered(t) PROVE Stays
  BY <1>5 DEF ProtocolClosed, StopAnswered
<1>6. ASSUME Switch \/ Rebudget \/ Look \/ Unload PROVE Stays
  BY <1>6 DEF Switch, Rebudget, Look, Unload
<1>7. ASSUME NEW s \in Sessions, LoopEnds(s) \/ LoopBreaks(s) \/ LoopReturns(s) PROVE Stays
  BY <1>7 DEF LoopEnds, LoopBreaks, LoopReturns
<1>8. CASE \/ \E s \in Sessions : SessionEnds(s) \/ SessionDies(s)
           \/ \E phone \in Phones : Unplug(phone) \/ Plug(phone)
  BY <1>8 DEF SessionEnds, SessionDies, Unplug, Plug
<1>9. CASE UNCHANGED vars
  BY <1>9 DEF vars
<1>10. ASSUME NEW t \in Tasks, Answered(t) PROVE Stays
  BY <1>2, <1>3, <1>4, <1>5, <1>10 DEF Answered
<1>11. CASE PageStep
  BY <1>1, <1>6, <1>7, <1>10, <1>11 DEF PageStep
<1>12. Stays
  BY <1>4, <1>8, <1>9, <1>11 DEF Next
<1> QED
  BY <1>12

LEMMA PausesKept ==
  ASSUME Inv, PauseInv, world.patient => Steady(world), [Next]_vars
  PROVE  PauseInv' /\ (world.patient => NoneIntrudes)
<1>1. UNCHANGED world /\ (UNCHANGED gone \/ gone' = TRUE)
  BY WorldStays
<1>2. CASE UNCHANGED vars
  <2>1. \A t \in Tasks : task'[t] = task[t]
    BY <1>2 DEF vars
  <2>2. PauseInv'
    BY <1>2 DEF vars, PauseInv, PauseOrder, PhonesKnown, Respects, Underway, Pressed, Aside, Missing, Left
  <2> QED
    BY <2>1, <2>2 DEF NoneIntrudes, Intrudes
<1>3. CASE gone /\ Next
  <2>1. \A t \in Tasks : task'[t].at = "start" => task[t].at = "start"
    <3>1. CASE UNCHANGED task
      BY <3>1
    <3>2. ASSUME NEW t \in Tasks, Started(t) PROVE <2>1
      <4>1. task' = [task EXCEPT ![t] = Idle] /\ Idle.at # "start"
        BY <1>3, <3>2 DEF Started, Ends, Goes, Idle
      <4> QED
        BY <4>1 DEF Inv, Shapes
    <3> QED
      BY <1>3, <3>1, <3>2 DEF Next, SessionEnds, SessionDies, Unplug, Plug
  <2> QED
    BY <1>1, <1>3, <2>1 DEF PauseInv, NoneIntrudes, Intrudes
<1>4. CASE Unload
  <2>1. \A t \in Tasks : task'[t].at = "start" => task[t].at = "start"
    BY <1>4 DEF Unload, Idle
  <2> QED
    BY <1>4, <2>1 DEF Unload, PauseInv, NoneIntrudes, Intrudes
<1>5. ASSUME Next, ~gone, ~Unload, world.patient PROVE PauseOrder' /\ NoneIntrudes
  <2>1. PauseOrder /\ Steady(world)
    BY <1>5 DEF PauseInv
  <2>2. ASSUME NEW t \in Tasks, Press(t) \/ Choose(t) \/ TimerFires(t) PROVE PauseOrder' /\ NoneIntrudes
    BY <1>5, <2>1, <2>2, PressPauses, ChoosePauses, TimerPauses
  <2>3. ASSUME NEW t \in Tasks, Answered(t) PROVE PauseOrder' /\ NoneIntrudes
    BY <1>5, <2>1, <2>3, ListedPauses, ListFailsPauses, ProbedPauses, StartedPauses, FailsPauses, OpenedPauses,
       EndsPause DEF Answered
  <2>4. ASSUME Switch \/ Rebudget \/ Look PROVE PauseOrder' /\ NoneIntrudes
    BY <2>1, <2>4, SettingsPause
  <2>5. ASSUME NEW s \in Sessions, LoopEnds(s) \/ LoopBreaks(s) \/ LoopReturns(s)
        PROVE  PauseOrder' /\ NoneIntrudes
    BY <2>1, <2>5, LoopsPause
  <2>6. CASE \/ \E s \in Sessions : SessionEnds(s) \/ SessionDies(s)
             \/ \E phone \in Phones : Unplug(phone) \/ Plug(phone)
    BY <2>1, <2>6, OutsidePauses
  <2> QED
    BY <1>5, <2>2, <2>3, <2>4, <2>5, <2>6 DEF Next, PageStep
<1>6. CASE Next /\ ~gone /\ ~Unload /\ ~world.patient
  BY <1>1, <1>6 DEF PauseInv
<1> QED
  BY <1>1, <1>2, <1>3, <1>4, <1>5, <1>6 DEF PauseInv

LEMMA PauseStarts == Init => PauseInv
<1> SUFFICES ASSUME Init, world.patient PROVE PauseOrder
  BY DEF PauseInv
<1>1. \A t \in Tasks : task[t].at = "idle" /\ task[t].by = None
  BY DEF Init, Idle
<1>2. /\ plugged \subseteq world.phones /\ left = {} /\ Left = {} /\ page.listed = plugged
      /\ page.selected \in plugged \cup {None} /\ page.server = None
  BY DEF Init, Left
<1>3. \A s \in Sessions : sess[s].phone = None
  BY DEF Init, NoSession
<1> QED
  BY <1>1, <1>2, <1>3 DEF PauseOrder, PhonesKnown, Respects, Underway, Pressed, None

(* A phone that the user has disconnected is not connected to again before  *)
(* he asks for it or plugs it in anew (runUsbAutoConnectCycle and           *)
(* #manualDisconnectSerial of controller.ts), with any number of cycles     *)
(* under way, in worlds of one phone or of phones that stay plugged in.     *)
THEOREM PausesAreKept ==
  ASSUME \A w \in Worlds : w.patient => Steady(w)
  PROVE  Spec => PauseHolds
<1> DEFINE WorldIs == world \in Worlds
<1>1. Spec => []Inv
  BY InitHolds, NextKeeps, PTL DEF Spec
<1>2. Init => WorldIs
  BY DEF Init
<1>3. WorldIs /\ Inv /\ PauseInv /\ [Next]_vars => WorldIs' /\ PauseInv' /\ (world.patient => NoneIntrudes)
  <2> SUFFICES ASSUME WorldIs, Inv, PauseInv, [Next]_vars
               PROVE  WorldIs' /\ PauseInv' /\ (world.patient => NoneIntrudes)
    OBVIOUS
  <2> QED
    BY WorldStays, PausesKept
<1>4. (world.patient => NoneIntrudes) => (world.patient => \A t \in Tasks : ~Intrudes(t))
  BY DEF NoneIntrudes
<1> QED
  BY <1>1, <1>2, <1>3, <1>4, PauseStarts, PTL DEF Spec, PauseHolds

=============================================================================
