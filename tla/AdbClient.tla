------------------------------ MODULE AdbClient ------------------------------
(***************************************************************************)
(* The adb commands of the bridge (droid_web_display/adb/client.py) as one *)
(* asyncio process, with the requests of the bridge that are series of     *)
(* them: the lists of devices, applications, pictures and storage, the     *)
(* start of a session, the move of a running application to the virtual    *)
(* display, the deletion of a file.  Concurrent requests run adb child     *)
(* processes, wait for a lock, and share the catalogue of application      *)
(* names, the cache of storage figures (adb/storage_metrics.py), and on    *)
(* the phone the scrcpy server file, an application and a file.  A command *)
(* may succeed, fail, time out or be cancelled; one that times out is      *)
(* killed, and its task waits until it is reaped.                          *)
(*                                                                         *)
(* All requests are for one device.  Several commands in a row that may    *)
(* all fail without consequence are one (the getprop calls of a device,    *)
(* the df and dumpsys calls of a storage probe).  A cancellation is        *)
(* delivered at once.  Time is counted in coarse units.                    *)
(***************************************************************************)
EXTENDS Naturals, Sequences, FiniteSets, SequencesExt

CONSTANTS Requests,     \* identifiers of requests
          Worlds,       \* what they may ask for together
          RetryAfter,   \* _APP_LABEL_RETRY_SECONDS
          RefreshAfter, \* _APP_LABEL_REFRESH_SECONDS
          UsageFor,     \* _STORAGE_CACHE_SECONDS
          MaxTroubles   \* bound on failures, timeouts and cancellations

AllKinds == {"command", "devices", "running", "apps", "probe", "roots", "pictures", "session",
             "virtual", "move", "delete", "monitor", "scan"}
NobodyYet == "no request"
Earlier == "earlier"                  \* a virtual-display session that was there before

ASSUME AdbAssumption ==
    /\ {NobodyYet, Earlier, "main", "gone"} \cap Requests = {}
    /\ Worlds \subseteq [Requests -> AllKinds]
    /\ {RetryAfter, RefreshAfter, UsageFor} \subseteq Nat \ {0}
    /\ RetryAfter < RefreshAfter
    /\ MaxTroubles \in Nat

VARIABLES kind,      \* what each request asks for
          place,     \* the command it is at, or where it waits or ended
          reaping,   \* why it waits for a killed child: "error", "cancel" or "no"
          child,     \* requests with a live adb child process
          asked,     \* requests whose task was cancelled
          queue,     \* _app_label_locks: its holder, then those who wait
          labels,    \* _app_label_cache: which query filled it, and its age
          usage,     \* _STORAGE_CACHE: how long ago the figures were asked for
          began,     \* how long ago each request asked for storage figures
          jar,       \* the server file on the phone: who wrote it, and whether it did
          troubles,
          note,      \* what each request remembers and answers
          live,      \* the session that runs
          app,       \* where the application is: the main display, a session's, or gone
          file       \* whether the file is there

worldVars == <<kind, asked, troubles>>
phoneVars == <<live, app, file>>
cacheVars == <<labels, usage, began>>
vars == <<place, reaping, child, queue, jar, note, worldVars, phoneVars, cacheVars>>

-----------------------------------------------------------------------------
Commands == {"command", "list", "props", "usage", "dump", "memory", "package", "codecs", "mounts",
             "volumes", "push", "query", "fallback", "serverpush", "forward", "displaydump",
             "launch", "state", "pictures", "remove", "broadcast"}
Waits == {"lock", "rest", "pause", "stat", "display"}
Unchecked == {"props", "usage", "fallback", "memory", "package", "codecs", "mounts", "volumes",
              "displaydump", "state", "broadcast"}    \* run(check=False)
Entry(k) ==
    CASE k = "command" -> "command"
      [] k = "move" -> "dump"
      [] k \in {"delete", "pictures"} -> "state"
      [] OTHER -> "list"
Starting(r) == kind[r] \in {"session", "virtual"} /\ place[r] \in {"serverpush", "forward", "display", "displaydump"}
Virtual(s) == s = Earlier \/ (s \in Requests /\ kind[s] = "virtual")

Running(r) == place[r] \in Commands /\ reaping[r] = "no"

Init ==
    /\ kind \in Worlds
    /\ place = [r \in Requests |-> "idle"]
    /\ reaping = [r \in Requests |-> "no"]
    /\ child = {}
    /\ asked = {}
    /\ queue = <<>>
    /\ labels = [from |-> "nothing", age |-> 0]
    /\ usage = [known |-> FALSE, age |-> 0]
    /\ began = [r \in Requests |-> 0]
    /\ jar = [writer |-> NobodyYet, whole |-> FALSE]
    /\ troubles = 0
    /\ note = [r \in Requests |-> [again |-> FALSE, target |-> NobodyYet, saw |-> FALSE, met |-> FALSE, reply |-> "none"]]
    /\ live \in {NobodyYet} \cup (IF \E r \in Requests : kind[r] \in {"session", "virtual", "move"} THEN {Earlier} ELSE {})
    /\ app \in {"main"} \cup ({live} \cap {Earlier})
    /\ file = TRUE

-----------------------------------------------------------------------------
(* run() and spawn_server create the child in the step that comes to the    *)
(* command; adb push writes a new file in the place of the old one.         *)
Enter(r, p) ==
    /\ place' = [place EXCEPT ![r] = p]
    /\ reaping' = [reaping EXCEPT ![r] = "no"]
    /\ child' = IF p \in Commands THEN child \cup {r} ELSE child \ {r}
    /\ queue' = IF p = "lock" THEN Append(queue, r)
                ELSE IF p \in {"push", "fallback"} THEN queue
                ELSE SelectSeq(queue, LAMBDA x : x # r)
    /\ jar' = IF p \in {"push", "serverpush"} THEN [writer |-> r, whole |-> FALSE] ELSE jar

(* What has been as a move or a deletion asked, since its command.          *)
Noticed(n) ==
    [q \in Requests |->
        [n[q] EXCEPT !.met = @ \/ /\ n[q].again
                                  /\ \/ kind[q] = "move" /\ app' = n[q].target
                                     \/ kind[q] = "delete" /\ ~file']]
Replies(r, what) == note' = [note EXCEPT ![r].reply = what]

(* Mutant of Raised: the lock is left only on the way through the end.      *)
RaisedHolding(r, why) ==
    /\ place' = [place EXCEPT ![r] = IF why = "error" /\ kind[r] \in {"monitor", "scan"} THEN "rest" ELSE "done"]
    /\ reaping' = [reaping EXCEPT ![r] = "no"]
    /\ child' = child \ {r}
    /\ UNCHANGED <<queue, jar, note>>

(* What becomes of a request whose command raises.  A failed label query    *)
(* falls back on the package list, the storage folders on another way to    *)
(* find them, the loops of the device monitor and of the folder monitor go  *)
(* on, and a deleted file is deleted even if no index is told.  Anything    *)
(* else ends, and leaves the lock.                                          *)
Raised(r, why) ==
    /\ Enter(r, IF why # "error" THEN "done"
                ELSE IF place[r] \in {"push", "query"} THEN "fallback"
                ELSE IF place[r] = "list" /\ kind[r] \in {"monitor", "scan"} THEN "rest"
                ELSE IF place[r] = "mounts" THEN "volumes"
                ELSE "done")
    /\ IF why = "error" /\ place[r] = "broadcast" THEN Replies(r, "ok") ELSE UNCHANGED note

(* A move is refused unless a session with a virtual display runs.          *)
Asks(r) ==
    /\ place[r] = "idle"
    /\ IF kind[r] = "move"
       THEN /\ Enter(r, IF Virtual(live) THEN "dump" ELSE "done")
            /\ note' = [note EXCEPT ![r].target = live]
       ELSE Enter(r, Entry(kind[r])) /\ UNCHANGED note
    /\ UNCHANGED <<worldVars, cacheVars, phoneVars>>

(* The loops come round; the one of the device monitor looks whether the    *)
(* manager was closed.                                                      *)
ComesRound(r) ==
    /\ place[r] = "rest"
    /\ Enter(r, IF kind[r] = "monitor" /\ r \in asked THEN "done" ELSE "list")
    /\ UNCHANGED <<worldVars, cacheVars, phoneVars, note>>

-----------------------------------------------------------------------------
(* A command that succeeds, or whose failure nobody looks at.               *)
Answers(r, p) == Running(r) /\ place[r] = p

(* The commands that a request ends with.                                   *)
EndsWith(r, p) ==
    /\ Answers(r, p)
    /\ Enter(r, "done")
    /\ UNCHANGED <<worldVars, cacheVars, phoneVars, note>>

VersionRead(r) == EndsWith(r, "command")
MemoryRead(r) == EndsWith(r, "memory")
CodecsRead(r) == EndsWith(r, "codecs")
VolumesRead(r) == EndsWith(r, "volumes")
PicturesRead(r) == EndsWith(r, "pictures")
DisplaysRead(r) == EndsWith(r, "displaydump")

(* select_device refuses a phone that is not there or not ready; the        *)
(* storage folders need a single phone.                                     *)
Listed(r) ==
    /\ Answers(r, "list")
    /\ \/ kind[r] \in {"monitor", "scan"} /\ Enter(r, "rest")
       \/ kind[r] = "roots" /\ \E p \in {"mounts", "done"} : Enter(r, p)
       \/ kind[r] \notin {"monitor", "scan", "roots"} /\ \E p \in {"props", "done"} : Enter(r, p)
    /\ UNCHANGED <<worldVars, cacheVars, phoneVars, note>>

MountsRead(r) ==
    /\ Answers(r, "mounts")
    /\ \E p \in {"volumes", "done"} : Enter(r, p)
    /\ UNCHANGED <<worldVars, cacheVars, phoneVars, note>>

(* What a request does with the phone it selected.  create_session looks at *)
(* the phone and the package of a virtual display before start_session      *)
(* selects it once more; one session per phone.                             *)
Selected(r) ==
    \/ kind[r] = "devices" /\ Enter(r, "done")
    \/ kind[r] = "apps" /\ Enter(r, "lock")
    \/ kind[r] = "running" /\ Enter(r, "dump")
    \/ kind[r] = "probe" /\ \E p \in {"package", "codecs"} : Enter(r, p)
    \/ kind[r] = "virtual" /\ ~note[r].again /\ \E p \in {"package", "list", "done"} : Enter(r, p)
    \/ /\ kind[r] = "session" \/ (kind[r] = "virtual" /\ note[r].again)
       /\ Enter(r, IF live # NobodyYet \/ \E q \in Requests : Starting(q) THEN "done" ELSE "serverpush")

SelectedAgain(r) ==
    IF kind[r] = "virtual" THEN note' = [note EXCEPT ![r].again = TRUE] ELSE UNCHANGED note

PropertiesRead(r) ==
    /\ Answers(r, "props")
    /\ IF usage.known /\ usage.age < UsageFor
       THEN Selected(r) /\ SelectedAgain(r) /\ UNCHANGED began
       ELSE Enter(r, "usage") /\ began' = [began EXCEPT ![r] = 0] /\ UNCHANGED note
    /\ UNCHANGED <<worldVars, labels, usage, phoneVars>>

(* The figures count from the time at which they were asked for.            *)
UsageRead(r) ==
    /\ Answers(r, "usage")
    /\ usage' = [known |-> TRUE, age |-> began[r]]
    /\ Selected(r)
    /\ SelectedAgain(r)
    /\ UNCHANGED <<worldVars, labels, began, phoneVars>>

(* A virtual display is not started for a package that is not installed.    *)
PackageChecked(r) ==
    /\ Answers(r, "package")
    /\ \E p \in IF kind[r] = "probe" THEN {"codecs"} ELSE {"list", "done"} : Enter(r, p)
    /\ UNCHANGED <<worldVars, cacheVars, phoneVars, note>>

-----------------------------------------------------------------------------
(* The running applications, their names, and the move of one of them.      *)

(* list_running_gui_apps decides on the catalogue that it read before.      *)
RefreshDue(missing) ==
    \/ labels.from = "nothing"
    \/ labels.from = "fallback" /\ labels.age >= RetryAfter
    \/ missing /\ labels.age >= RefreshAfter

(* Mutant of Sought: the display is not compared.                           *)
SoughtAnywhere(r) == app # "gone"

(* What a move looks for in a list of tasks: the application, and after the *)
(* launch the application on the display of the session.                    *)
Sought(r) == IF note[r].again THEN app = note[r].target ELSE app # "gone"

ListUsed(r, saw) ==
    /\ Enter(r, IF kind[r] = "running" THEN "memory" ELSE IF ~note[r].again /\ saw THEN "launch" ELSE "done")
    /\ note' = [note EXCEPT
                  ![r].saw = FALSE,
                  ![r].reply = IF note[r].again THEN IF saw THEN "ok" ELSE "sent" ELSE @]

Dumped(r) ==
    /\ Answers(r, "dump")
    /\ \E missing \in BOOLEAN :
          IF RefreshDue(missing)
          THEN Enter(r, "lock") /\ note' = [note EXCEPT ![r].saw = Sought(r)]
          ELSE ListUsed(r, Sought(r))
    /\ UNCHANGED <<worldVars, cacheVars, phoneVars>>

(* am start may move the task, start another one on the main display, or    *)
(* change nothing, and a display that is gone takes none.                   *)
Launched(r) ==
    /\ Answers(r, "launch")
    /\ app' \in {app, "main"} \cup ({note[r].target} \cap {live})
    /\ Enter(r, "pause")
    /\ UNCHANGED <<worldVars, cacheVars, live, file>>
    /\ note' = Noticed([note EXCEPT ![r].again = TRUE])

PauseEnds(r) ==
    /\ place[r] = "pause"
    /\ Enter(r, "dump")
    /\ UNCHANGED <<worldVars, cacheVars, phoneVars, note>>

(* Without a server file on the PC the fallback is next.                    *)
Acquires(r) ==
    /\ place[r] = "lock"
    /\ Head(queue) = r
    /\ \E p \in {"push", "fallback"} : Enter(r, p)
    /\ UNCHANGED <<worldVars, cacheVars, phoneVars, note>>

Whole(r) == IF jar.writer = r THEN [jar EXCEPT !.whole = TRUE] ELSE jar

JarPushed(r) ==
    /\ Answers(r, "push")
    /\ place' = [place EXCEPT ![r] = "query"]
    /\ jar' = Whole(r)
    /\ UNCHANGED <<worldVars, cacheVars, phoneVars, reaping, child, queue, note>>

LabelsRead(r) ==
    /\ \E p \in {"query", "fallback"} :
          /\ Answers(r, p)
          /\ labels' = [from |-> IF p = "query" THEN "android" ELSE "fallback", age |-> 0]
    /\ IF kind[r] = "apps" THEN Enter(r, "done") /\ UNCHANGED note ELSE ListUsed(r, note[r].saw)
    /\ UNCHANGED <<worldVars, usage, began, phoneVars>>

-----------------------------------------------------------------------------
(* The start of a session: push, forward, spawn_server, and for a virtual   *)
(* display the line of the server that names it.                            *)
ServerPushed(r) ==
    /\ Answers(r, "serverpush")
    /\ place' = [place EXCEPT ![r] = "forward"]
    /\ jar' = Whole(r)
    /\ UNCHANGED <<worldVars, cacheVars, phoneVars, reaping, child, queue, note>>

ServerSpawned(r) ==
    /\ Answers(r, "forward")
    /\ Enter(r, IF kind[r] = "virtual" THEN "display" ELSE "done")
    /\ live' = IF kind[r] = "virtual" THEN live ELSE r
    /\ UNCHANGED <<worldVars, cacheVars, app, file, note>>

DisplayAppears(r) ==
    /\ place[r] = "display"
    /\ Enter(r, "done")
    /\ live' = r
    /\ UNCHANGED <<worldVars, cacheVars, app, file, note>>

-----------------------------------------------------------------------------
(* The requests that first ask for the state of the phone.                  *)
StateRead(r) ==
    /\ Answers(r, "state")
    /\ \E p \in {IF kind[r] = "delete" THEN "stat" ELSE "pictures", "done"} : Enter(r, p)
    /\ UNCHANGED <<worldVars, cacheVars, phoneVars, note>>

(* The file is looked up before it is removed and after (adb sync, not adb).*)
Looked(r) ==
    /\ place[r] = "stat"
    /\ Enter(r, IF file = note[r].again THEN "done" ELSE IF file THEN "remove" ELSE "broadcast")
    /\ UNCHANGED <<worldVars, cacheVars, phoneVars, note>>

RemoveRun(r) ==
    /\ Answers(r, "remove")
    /\ file' \in {FALSE, file}
    /\ Enter(r, "stat")
    /\ UNCHANGED <<worldVars, cacheVars, live, app>>
    /\ note' = Noticed([note EXCEPT ![r].again = TRUE])

IndexTold(r) ==
    /\ Answers(r, "broadcast")
    /\ Enter(r, "done")
    /\ Replies(r, "ok")
    /\ UNCHANGED <<worldVars, cacheVars, phoneVars>>

-----------------------------------------------------------------------------
(* Trouble.                                                                 *)
Trouble == troubles < MaxTroubles /\ troubles' = troubles + 1

Fails(r) ==
    /\ (Running(r) /\ place[r] \notin Unchecked) \/ place[r] = "stat"
    /\ Trouble
    /\ Raised(r, "error")
    /\ UNCHANGED <<kind, asked, cacheVars, phoneVars>>

(* The server ends, or names no display in time: its log is completed with  *)
(* the displays of the phone.                                               *)
DisplayMissing(r) ==
    /\ place[r] = "display"
    /\ Trouble
    /\ Enter(r, "displaydump")
    /\ UNCHANGED <<kind, asked, cacheVars, phoneVars, note>>

(* A timeout, or a pipe that breaks: the child is killed, and reaped.       *)
Killed(r, why) ==
    /\ child' = child \ {r}
    /\ reaping' = [reaping EXCEPT ![r] = why]
    /\ UNCHANGED <<place, queue, jar, note>>

TimesOut(r) ==
    /\ Running(r)
    /\ Trouble
    /\ Killed(r, "error")
    /\ UNCHANGED <<kind, asked, cacheVars, phoneVars>>

Reaped(r) ==
    /\ reaping[r] # "no"
    /\ Raised(r, reaping[r])
    /\ UNCHANGED <<worldVars, cacheVars, phoneVars>>

(* Mutant of CancelledRunning: only a timeout kills the child.              *)
CancelledLeaving(r) ==
    /\ Running(r)
    /\ place' = [place EXCEPT ![r] = "done"]
    /\ queue' = SelectSeq(queue, LAMBDA x : x # r)
    /\ UNCHANGED <<child, reaping, jar, note>>

CancelledRunning(r) == Running(r) /\ Killed(r, "cancel")

(* The shield of _terminate: the request goes on as if the child had been   *)
(* reaped.                                                                  *)
CancelledReaping(r) == reaping[r] # "no" /\ Raised(r, reaping[r])

CancelledWaiting(r) == place[r] \in Waits /\ Enter(r, "done") /\ UNCHANGED note

(* A shutdown, or the manager of a transfer, cancels the task.              *)
Cancelled(r) ==
    /\ r \notin asked
    /\ Trouble
    /\ asked' = asked \cup {r}
    /\ CancelledRunning(r) \/ CancelledReaping(r) \/ CancelledWaiting(r)
    /\ UNCHANGED <<kind, cacheVars, phoneVars>>

Underway(r) == place[r] \notin {"idle", "done"}

(* Nothing looks at an age beyond the limits.                               *)
TimePasses ==
    /\ \E r \in Requests : Underway(r)
    /\ labels' = IF labels.from = "nothing" THEN labels ELSE [labels EXCEPT !.age = Min({@ + 1, RefreshAfter})]
    /\ usage' = IF usage.known THEN [usage EXCEPT !.age = Min({@ + 1, UsageFor})] ELSE usage
    /\ began' = [r \in Requests |-> IF place[r] = "usage" THEN Min({began[r] + 1, UsageFor}) ELSE 0]
    /\ UNCHANGED <<worldVars, place, reaping, child, queue, jar, note, phoneVars>>

(* The phone beside the requests, as long as one of them looks.             *)
AppMoves ==
    /\ \E r \in Requests : kind[r] = "move" /\ Underway(r)
    /\ app' \in {"main", "gone"} \cup (IF Virtual(live) THEN {live} ELSE {})
    /\ UNCHANGED <<worldVars, cacheVars, place, reaping, child, queue, jar, live, file>>
    /\ note' = Noticed(note)

FileChanges ==
    /\ \E r \in Requests : kind[r] = "delete" /\ Underway(r)
    /\ file' = ~file
    /\ UNCHANGED <<worldVars, cacheVars, place, reaping, child, queue, jar, live, app>>
    /\ note' = Noticed(note)

(* With the session goes its display, and the application from it.          *)
SessionEnds ==
    /\ live # NobodyYet
    /\ \E r \in Requests : kind[r] \in {"session", "virtual", "move"} /\ place[r] # "done"
    /\ live' = NobodyYet
    /\ app' \in IF app = live THEN {"main", "gone"} ELSE {app}
    /\ UNCHANGED <<worldVars, cacheVars, place, reaping, child, queue, jar, file>>
    /\ note' = Noticed(note)

-----------------------------------------------------------------------------
Step(r) ==
    \/ VersionRead(r) \/ MemoryRead(r) \/ CodecsRead(r) \/ VolumesRead(r) \/ PicturesRead(r)
    \/ DisplaysRead(r)
    \/ Listed(r)
    \/ PropertiesRead(r)
    \/ UsageRead(r)
    \/ MountsRead(r)
    \/ PackageChecked(r)
    \/ Dumped(r)
    \/ Launched(r)
    \/ PauseEnds(r)
    \/ Acquires(r)
    \/ JarPushed(r)
    \/ LabelsRead(r)
    \/ ServerPushed(r)
    \/ ServerSpawned(r)
    \/ DisplayAppears(r)
    \/ StateRead(r)
    \/ Looked(r)
    \/ RemoveRun(r)
    \/ IndexTold(r)
    \/ Reaped(r)
    \/ ComesRound(r)

Next ==
    \/ \E r \in Requests : Asks(r) \/ Step(r) \/ Fails(r) \/ DisplayMissing(r) \/ TimesOut(r) \/ Cancelled(r)
    \/ TimePasses
    \/ AppMoves \/ FileChanges \/ SessionEnds

Spec == Init /\ [][Next]_vars

(* Every command, every answer of adb sync and every wait for a display has *)
(* a time limit, and a killed child is reaped.                              *)
FairSpec == Spec /\ \A r \in Requests : WF_vars(Step(r))

-----------------------------------------------------------------------------
(* Every variable has the shape the code gives it.                          *)
TypeOK ==
    /\ kind \in Worlds
    /\ place \in [Requests -> Commands \cup Waits \cup {"idle", "done"}]
    /\ reaping \in [Requests -> {"no", "error", "cancel"}]
    /\ child \subseteq Requests
    /\ asked \subseteq Requests
    /\ queue \in Seq(Requests)
    /\ labels \in [from : {"nothing", "fallback", "android"}, age : 0..RefreshAfter]
    /\ usage \in [known : BOOLEAN, age : 0..UsageFor]
    /\ began \in [Requests -> 0..UsageFor]
    /\ jar \in [writer : Requests \cup {NobodyYet}, whole : BOOLEAN]
    /\ troubles \in 0..MaxTroubles
    /\ note \in [Requests -> [again : BOOLEAN, target : Requests \cup {NobodyYet, Earlier}, saw : BOOLEAN,
                              met : BOOLEAN, reply : {"none", "ok", "sent"}]]
    /\ live \in Requests \cup {NobodyYet, Earlier}
    /\ app \in Requests \cup {Earlier, "main", "gone"}
    /\ file \in BOOLEAN

(* No aborted request leaves an adb process behind: a live child has a task *)
(* that waits for it (run, _scrcpy_application_labels, _terminate).         *)
NoChildLeft == \A r \in child : Running(r)

(* The label queries of a device are serialised, and nobody who has left    *)
(* still holds their lock (list_launchable_apps): otherwise every later     *)
(* request for the applications of that device would wait for ever.         *)
LockIsHeld ==
    \A i \in 1..Len(queue) :
        IF i = 1 THEN place[queue[i]] \in {"lock", "push", "query", "fallback"}
        ELSE place[queue[i]] = "lock"

(* A move that is reported as verified was on the display of its session at *)
(* some time since its command, a file that is reported as deleted was not  *)
(* there, whatever the user, an end of the session and other requests did   *)
(* meanwhile (move_running_app, delete_android).                            *)
AnswersAreEvidenced == \A r \in Requests : note[r].reply = "ok" => note[r].met

(* "The API reports the post-command verification result instead of         *)
(* claiming a guaranteed move" (client.py).  It does not hold of the field  *)
(* moved of the answer, which is true whenever the command was sent.        *)
MovedIsMoved == \A r \in Requests : note[r].reply # "none" => note[r].met

(* A request is answered, whatever times out, fails or is cancelled beside  *)
(* it; a monitor ends when it was cancelled.                                *)
RequestsEnd ==
    \A r \in Requests :
        (IF kind[r] = "monitor" THEN r \in asked
         ELSE kind[r] # "scan" /\ place[r] # "idle") ~> place[r] = "done"

(* What AutoDownloadMonitor.close() waits for.  It does not hold: a         *)
(* cancellation that arrives while a killed child is reaped is swallowed,   *)
(* and the loop of the folder monitor goes on.                              *)
CancelledEnd == \A r \in Requests : r \in asked ~> place[r] = "done"

(* scrcpy is never started from a file that is being written.  It does not  *)
(* hold: a label query pushes the server file beside the start of a session *)
(* of the same device.                                                      *)
ServerIsWhole ==
    [][\A r \in Requests :
          Running(r) /\ place[r] = "forward" /\ place'[r] \in {"done", "display"} /\ troubles' = troubles
              => jar.whole]_vars

(* The storage figures never go back to older ones.  It does not hold: a    *)
(* slow probe overwrites what a later, faster one has stored.               *)
UsageMovesOn ==
    [][\A r \in Requests : place[r] = "usage" /\ place'[r] # "usage" => usage'.age <= usage.age]_vars

=============================================================================
