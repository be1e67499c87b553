# Verification of DroidWebDisplay

TLA+ models of DroidWebDisplay, TLC configurations that check them on small
instances, and TLAPS proofs of the properties that matter most for every
instance. Line numbers refer to the repository; `manager.py` is
`droid_web_display/transfers/manager.py`, `session.py` is
`droid_web_display/scrcpy/session.py`, `controller.ts` is
`apps/web-client/src/controller.ts`. `PROJECT.json` maps every definition to its
lines and lists hazards, runs, mutants, findings and theorems.

## 1. The system

A Python process (FastAPI on one asyncio loop) talks to Android devices through
`adb`, serves a TypeScript web client, and is hosted either by a service script
or by a desktop window. Tools beside it prepare updates of scrcpy. Its parts:

| Component | State | Operations | What is hard |
|---|---|---|---|
| Transfer queue (`manager.py`, `transfers/paths.py`, `transfers/adb_sync.py`) | records, `_tasks`, semaphore, spool and `.part` files, `transfers.json` | enqueue upload/download, cancel, retry, start, close; one worker task per attempt | tasks, cancellations, done callbacks and requests interleave at every await; crashes; name clashes |
| Session manager (`session.py`) | sessions, claim per device, adb forward, server process, watch task, monitor | start, stop, clean-up, watch, monitor, close, prune | five kinds of coroutine work on a session without a lock |
| Channel attachments and relays (`websocket/channels.py`, `session.py`, `api/app.py`) | connections and owner of each channel | connect, claim, relay, release, close | disconnect against attach; the end of a relay stops the session |
| Folder sync monitor (`transfers/monitor.py`) | observed and processed fingerprints in both directions, baselines, state file | configure, scan, reconcile, clear history, delete source | two locks, awaits between observation and use, loops between the folders |
| Authentication (`auth.py`) | PIN, login sessions, lockout counters, state file | setup, login, logout, revoke, change PIN, lockout | failed writes, expiry, restart |
| Network access (`network_access.py`, `network_apply` in `api/app.py`) | configuration, certificate, firewall rule, login sessions | apply, disable, reload, recover | one step of several fails |
| Desktop controller (`desktop/controller.py`), window (`desktop/gui.py`), service runtime (`tools/run_bridge_service.py`) | server threads, runtime, cached state, probes | start, stop, restart, refresh, quit | lock dropped while a thread is joined; a probe that answers late |
| ADB command client (`adb/client.py`, `adb/storage_metrics.py`) | child processes, application names and their lock, cached figures | run, spawn, time out, cancel; requests that are series of commands | children of cancelled requests; what is read before a command is old after it |
| Upstream update (`upstream_update/`, `tools/`) and the server artifact (`scrcpy/artifact.py`) | manifest, adapters, server files | update, scaffold, build, register, promote, download, load | steps of several tools over shared files, interrupted anywhere |
| Browser session controller (`controller.ts`, `auto-connect.ts`) | session, connecting and closing flags, timer, pause, budget | connect, disconnect, fail, reconnect | stale completions after an await |

Interactions: the API's requests call the queue and the session manager on the
same loop; the folder monitor enqueues transfers and polls their records; the end
of a channel relay stops its session; a change of the network revokes login
sessions and restarts the service; the lifespan shutdown closes the folder
monitor, the queue and the session manager in that order once the server has
answered its pending requests; the web client starts, stops and observes
sessions; the bridge loads the server file the update tools leave.

What makes each part correct: a transfer is delivered at most once under its own
name, never lost, always ends, and its record tells the truth after any crash; a
device has at most one session, and a stopped session leaves nothing on the
device; a page that goes gives its channels back; the folder monitor transfers
every stable new file once and never bounces it back; a revoked login is never
accepted; the firewall rule follows the configuration; the window never forgets a
live server and never hangs; no adb child is left behind and no success is
claimed that the phone did not show; only a whole server of the right commit is
served; the page leaves no session behind and keeps to what the user asked.

## 2. Modules

    TransferContract                     what a client may rely on, abstract
    TransferManager   ...Proofs  MC...   the transfer queue; implements TransferContract
    SessionManager    ...Proofs  MC...   the scrcpy sessions; the proofs treat ChannelRelay too
    ChannelRelay                 MC...   channels and relays, composed with SessionManager
    FolderSync        ...Proofs  MC...   the folder monitor, over what TransferContract promises
    AuthService                          PIN, login sessions, lockout, their file
    NetworkAccess     ...Proofs  MC...   network changes and restarts, composed with AuthService
    DesktopHost       ...Proofs  MC...   window, controller and server threads
    AdbClient         ...Proofs  MC...   adb commands and the requests made of them
    UpstreamUpdate    ...Proofs  MC...   update tools and the loading of the server
    BrowserController  ...Proofs  MC...   the page's session controller

### TransferManager

One action is what a coroutine does between two awaits, with everything it calls
in between (persisting, cleaning up, scheduling).

| Variable | Code |
|---|---|
| `rec`, `saved` | `_records`; `transfers.json` |
| `pc[<<t, n>>]` | the await at which the task of the n-th retry of t is suspended |
| `tracked` | `_tasks` |
| `cancelled` | tasks with an undelivered `CancelledError` |
| `cancels` | `cancel()` requests suspended in `gather(task)` |
| `spool`, `part`, `disk`, `phone` | upload copies, `.part` files, files on the PC and on the device, by who wrote them |

`EnqueueUpload`, `EnqueueDownload`, `Cancel`/`CancelReturns`, `Retry`, `Close`/
`CloseReturns` and `Start` are the methods of `TransferManager`; `TaskStarts` to
`TaskFails` follow `_execute`, `_run_upload` and `_run_download`;
`CancelDelivered` is the `CancelledError` reaching a task, with the case of a
coroutine that never ran; `DiscardTask` is the done callback; `Crash` and
`CrashAfterReplace` kill the process.

Decisions a reader should know:

- The event loop runs callbacks that are ready before the completion of an ADB
  operation of the same transfer (`LoopReady`). `persist` awaits a lock that is
  never contended, so it does not suspend.
- A kill in the middle of a step is modelled where it leaves a trace the code
  does not undo: between `replace()` and the write of `transfers.json`.
- The semaphore admits waiting tasks in any order.
- The size check after a push cannot tell files of one length apart, so only a
  file still being written fails it.
- Nobody else changes the two folders; `delete_android` is in `AdbClient`, files
  that the user edits in `FolderSync`.
- Failing writes of `transfers.json`, `spool_upload`, and the spool file of an
  upload that is refused (it is never removed, app.py:964) are not modelled.
- `close()` begins when no `cancel()` request is pending: the server drains its
  requests before the lifespan ends.
- `OverlappingRequests` says whether a retry may arrive while a cancel request of
  the same transfer is unanswered. The web client does not do that, two clients
  can. `transfers_revived.cfg` sets it; the runs do not.

### SessionManager

| Variable | Code |
|---|---|
| `state`, `serial`, `reason` | the fields of `ScrcpySession` (reason: who stopped it) |
| `kept`, `claim` | `_sessions`, `_serial_index` |
| `starter[s]` | the await of `_start_session_resources` |
| `cleaning[s][w]` | the await of `_cleanup_session_resources`, per caller w |
| `forward`, `server`, `attached` | the adb forward, the server process, `session.process` |
| `watch[s]` | the watch task |
| `monitor`, `todo` | the monitor task; the sessions that it, or `close()`, has chosen |

The callers of the clean-up are a client, the device monitor, the watch task, a
failed start and `close()`; each may be at another await of the same session.

- `starting` stands for STARTING and CREATING_DISPLAY. The states PROBING to
  CONNECTING_CONTROL and RESIZING of the enumeration are treated alike by the
  code and by this module.
- The manager's lock is never held across a suspension, so a block under it is
  part of one step. The effect of an adb command and its return are one step;
  closing the channels and removing the forward are one.
- The order in which finished sessions are pruned is left open.
- A cancelled coroutine is torn at its await, except in `_drain_process_log`,
  which swallows the cancellation (session.py:468-470).
- At most one client stop of a session is in progress (a bound; further ones
  return at once).
- `close()` begins when no start and no client stop is in progress.
- Channels are in `ChannelRelay`. Log collection and the text of display
  announcements are left out.

### ChannelRelay

`SessionManager`'s steps, each taking along what it does to the channels
(`Beside`), and the WebSocket handlers beside them: `Attaches` is
`session_channel` up to the claim, `DeviceEnds`, `BrowserEnds`, `BrowserRefused`
and `SendFails` the ways a relay ends, `Detaches` its `finally`, which releases
the channel and stops the session.

- A channel is opened once per session, so `<<s, c>>` names the object.
- Closing a writer and its await are one step; the order of closing is open.
- A page opens a channel once at a time; the claim's lock is uncontended.
- `Close` requires that handlers have ended: uvicorn waits for them.
- At most two channels: media channels behave alike. `proxy/opaque.py` is used
  by tests only and left out.

### FolderSync

| Variable | Code |
|---|---|
| `folder` | the two folders: a file is its stamp (size and time) and the stamp of the file it copies |
| `seen`, `processed`, `based` | `_observed`/`_local_observed`, `_processed`/`_processed_local`, the baselines |
| `saved` | the state file |
| `job` | the queue's records: owed, delivered, stopped |
| `scan` | the await at which the scan is suspended, and what it has still to do |

`Reconcile...`, `ListAndroid`, `ListPc`, `Wanted`, `QueueDownload`, `QueueUpload`,
`StatUploaded` follow `_scan` and what it calls; `Configure`, `Clear`, `Close`,
`Restart` and `Crash` come from requests and the operating system.

- The queue progresses, and the user acts, at the scan's real suspension points
  only (`Suspended`).
- Elapsed time and the retry backoff are merged: `TimePasses` ends a wait.
- Stamps are unique. Copies are numbered flat.
- Trimming forgets any fingerprints beyond `MaxProcessed`. The trimming of the
  observed tables (500 settled entries), retry counts, validation of paths and
  the lifetime of spool files are left out.

### AuthService and NetworkAccess

| Variable | Code |
|---|---|
| `store`, `disk` | `self._state`; the authentication file |
| `attempts` | `self._attempts`, per client address |
| `request` | the request of each client between the middleware and its handler |
| `network`, `active` | the configuration file; what the process serves |
| `rule`, `certificate` | the firewall rule; whether certificate and key exist |
| `stage`, `change`, `restart` | main's loop; the change under way; `restart_requested` |

- A unit of time is 30 seconds: the window of failures is 10, a lock 1, 2, 4, 8.
- Clients on the LAN reach the service in LAN mode only; `Admits` stands for the
  checks of client address, host and origin.
- Each client has one outstanding request; the middleware and the handler are
  separate steps. Whether a request touches `lastSeen`, and so writes, is open.
- One budget of faults covers failed writes, a firewall command that fails or
  times out, a lost certificate, a listener that cannot start, and the end of the
  process in the middle of a change.
- `reset_auth.py` and `reset_network_access.py` run with the service stopped.
- Generation of the certificate is one step; hashing and the audit log are out.

### DesktopHost

`gui` is what the window's thread does, `server` each server thread in the main
loop of the service, `owned` the thread and runtime the controller knows.
`StopWaits`, `StopTimesOut` and `Stopped` are the two halves of `stop()` around
`join`; `Attach`, `Detach` and the steps of a server are `BridgeServiceRuntime`
and `main`; `Status...` the probes of the thread pool.

- Only the window's thread calls `start` and `stop`; the address is constant.
- The join may time out at any moment; one probe runs at a time, as in the code.
- Another process may take or leave the address (`other`).

### AdbClient

`place[r]` is the command a request is at, `child` the live adb processes,
`reaping` why a killed one is waited for, `queue` the lock of the application
names, `labels` and `usage` the caches with their ages, `jar` the server file on
the phone, `live`, `app` and `file` what else the phone holds.

- All requests are for one device. Commands in a row whose failures have no
  consequence are one (`Unchecked`).
- A cancellation is delivered at once, ages are capped.
- `adb push` writes a new file in place of the old; `am start` may move the task,
  open it on the main display, or do nothing.
- The clean-up of a failed start is `SessionManager`'s.
- The phone changes only while a request that looks at it is under way.

### UpstreamUpdate

Each tool is a sequence of steps (`Order`) over `manifest`, `adapters`, `file`
and `local`; it may fail or be killed at every step (`GivesUp`), and a file being
written is `Torn`. `LoadBegins`, `LoadHashes` and `LoadEnds` are the reads of
`ScrcpyArtifact.from_repository`, which may run beside a tool.

- A commit stands for the SHA-256 of what it builds; the target is a revision
  whose commit may change at any time.
- Failures of a step stand for a dirty checkout, git, patches, inspection, Gradle.
- One tool runs at a time (two builds into one output break `ServedMatches`), and
  the developer copies, deletes or restores files between runs only.
- The `.official` candidate, `--select-source` and fetching are left out. Reading
  and truncating the manifest is one step.

### BrowserController

| Variable | Code |
|---|---|
| `page` | the controller's fields and the elements it reads back: selection, switch, button |
| `task[t]` | an asynchronous function that is suspended: its await, who called it, what it read before |
| `sess` | sessions on the bridge, whether their sockets are closed, whether the renderer's loop reads them |
| `left` | history: the phones that the user has disconnected and not asked for since |

The synchronous parts (`Offered`, `Shown`, `Watched`, `Rescheduled`, `Missed`,
`Relisted`, `Cleared`, `Rejected`, `Resumed`) are functions from page to page,
named after `updateConnectAvailability`, `setConnectedControls`,
`scheduleUsbAutoConnect`, `scheduleReconnect`, `recordAutoConnectFailure`,
`refreshDevices`, `cleanupSession` and what follows it. `Press`, `Choose`,
`Switch`, `Rebudget`, `Look` and `Unload` are the user's; `TimerFires` begins a
cycle; `Listed` to `LaunchFails` follow `connect` and its callers,
`ProtocolClosed` and `StopAnswered` the clean-up; `LoopEnds`, `LoopBreaks` and
`LoopReturns` are the ends of `VideoRenderer.run`.

- The bridge is reduced to its answers: a list of phones, one session per phone
  (the claim of `SessionManager`), errors.
- `#manualDisconnect` is merged with `#closing`, with which it changes. Retry
  delays are left out: a timer may fire at any time.
- The capability probe is a wait. The cycle may skip it when the phone is the
  one of before. `Look` is one step: what `refreshDevicesIfStale` reads before its
  await only decides whether to probe.
- Clean-up closes the transport only through the protocol session, as the code
  does: closing the protocol session does not throw here.
- Errors of the display form and the refusal of a virtual display are left out.
- An id of a session is reused when nothing refers to it.

## 3. Runs

| Run | Instance | Shows |
|---|---|---|
| `transfers_queue` | an upload and a download of one name, one worker, queue limit 1, one retry each, crashes, fairness | `SingleTask`, `FinalIsIdle`, `UploadStaysRetryable`; `KeepsContract`, the refinement of `TransferContract`; every transfer, cancel request and shutdown ends |
| `transfers_rename` | two downloads with two retries, or two uploads with one, of one name, crashes | `DeliveredIntact`: neither replaces what the other delivered |
| `transfers_files` | two workers, three transfers of different names and policies | `PartialIsOwned`, `DownloadReported` |
| `sessions` | two sessions of one device, one finished session retained | `ClaimHeld`, `BacklogBounded`, `NothingLeft` |
| `channels` | one session with video and control, two pages, fairness | overlapping clean-ups end (`StopsEnd`), `DeadServerNoticed`, `LostDeviceNoticed`, `DepartedReleased` |
| `folders` | two names, four configurations, four surroundings: calm, edited, forgetful, crashing | `OrderlyIsLoopFree`, `QueuedOnce`, `OwedIsTracked`, `BaselineStays`, `OrderlyDeletesDelivered` |
| `folders_progress` | both directions, existing files, deletion, a failure and a restart, fairness | `FilesArrive` |
| `access` | seven surroundings: guessing, mixed, sessions, networks, failing, racing, LAN | `RevocationIsFinal`, `GrantIsDurable`, `GuessesBounded`, `CalmRuleFollows`, `RestartServes` |
| `desktop` | two threads, three events, one other process, fairness | `AliveIsOwned`, `ShutdownEnds`, `StoppingResolves`, `RefreshIsAnswered` |
| `adb` | nineteen pairs of requests, two troubles, fairness | `NoChildLeft`, `AnswersAreEvidenced`, `RequestsEnd` |
| `upstream` | two versions, two commits, three runs of tools, one act by hand | `StableIsEvidenced`, `ServedMatches` |
| `browser` | two phones, two sessions, two functions under way, five surroundings, fairness | `NothingAbandoned`, `PauseHolds`, `ReconnectWorks` |

Every property of these runs has a mutant, in the module it speaks of: a
definition changed as a plausible bug would change it, with which TLC finds the
property violated. `TypeOK` of every module holds on the same instances, and so
does `LockIsHeld` of `AdbClient`; those of the first two modules are proved.

Bounds. Two transfers are the least that compete for a slot, a queue place, a
name or a file; one retry is the least at which two attempts of one transfer
overlap, the second one of `transfers_rename` lets a file survive a crash and be
met again. Three numbered names (`DuplicateLimit`, 9999 in the code) exceed the
number of files an instance writes. Two sessions of one device are the least that
hand the claim over while the first is still being cleaned up, and
`MaxRetained = 1` makes pruning reach both. Liveness of sessions is checked with
one session, since the overlaps it is about are between coroutines of one
session. Two pages are the least of which one is refused or takes a channel over.
Two files and three transfers let a copy bounce, a failed transfer be tried again
and a file be rewritten once. Eleven clock units of 30 seconds reach past the end
of the five-minute window and past the longest lock, and TLC finds the 13 wrong
PINs that the window and the growing lock allow. Two adb requests are the least
that share a lock, a cache, a file or a session. Three runs of tools reach an
update that is built, promoted and then disturbed. Two asynchronous functions of a
page are the least that overlap, three acts let a user connect, disconnect and
connect again, two troubles exhaust the retry budget of 2. `Worlds` splits an
instance into surroundings, so that each combination of interest is explored
without their product. Symmetry is used in runs without liveness properties only.

`CHECK_DEADLOCK FALSE` appears where the system may stop: a session manager that
is closed, a service or window that has ended, requests that are all answered,
tools that have all run, a page that is idle or closed. The transfer service and
the folder monitor can always go on, and their runs check deadlock.

### Fairness

- Transfers: each task's next step and each loop callback is weakly fair (the
  loop runs what is ready, and every ADB operation ends by its timeout,
  adb_sync.py:222-246); `CloseReturns` is fair.
- Sessions: the next step of each starter, clean-up, watch task and of the
  monitor or `close()`; adb commands, the wait after terminate (then kill),
  connecting and draining all have limits in the code. `DeadServerNoticed`
  excludes a session asked to stop before its start returned (`sessions_final`).
- Channels: the same, and the steps of relays except `SendFails`.
- Folders: the scan's steps and its start are weakly fair, the queue, time and
  the scan's successful commands strongly: a failure is not repeated for ever
  (`MaxFailures`).
- Access: main's loop, the steps of a change and the handling of each request.
- Desktop: the server threads, the window's thread and the probes; not `Detach`,
  the user or the timer.
- adb: every request's next step, since each command and wait has a limit and a
  killed child is reaped.
- Browser: the bridge answers each request, a due timer fires, a session without
  sockets or phone ends, and the loop that reads it with it.

Nothing that a user, a device or the operating system does is assumed to happen.

### What the properties exclude

`CalmRuleFollows` and `ReconnectWorks` speak of calm surroundings, and
`OrderlyIsLoopFree`, `OrderlyDeletesDelivered` and `OwedIsTracked` of orderly ones,
because the code does not keep them in others: the next section says how. Orderly
(`Orderly` of `FolderSync`) means that nobody edits files, kills the process or
forgets history with transfers under way, that the two sides' own files have
different names, and that no history was cleared since there were files. The last
two are needed where existing files are wanted: a file of the same name on both
sides bounces (`folders_bounce`), and a clear makes the copies new files, which meet
the originals of their name on their way back. `NothingAbandoned` assumes that requests to
stop a session are answered and that the page is open; `BaselineStays` that a
process which may crash is configured once (a baseline that a crash has lost is not
done again when the new configuration asks for the existing files); `PauseHolds` that the user
leaves the button alone while a connection is made or undone, and, of several
phones, that none is unplugged; `ReconnectWorks`
that sockets bring nothing after later answers, that no application is launched,
and that lists do not fail where the user presses Connect.

## 4. Disagreements found

Each is a property of a module and a configuration that violates it, run with
`tlc -config <file>.cfg <MC module>`; they are not among the runs. Where two share a
configuration, it names one and a comment in it the other. `PROJECT.json`
quotes what the repository says.

| Configuration | Module | Property | What happens |
|---|---|---|---|
| `transfers_settled` | `MCTransferManager` | `CompletedIsSettled` | shutting down during the media scan of a finished upload turns its COMPLETED record into CANCELLED, against manager.py:477-479 |
| `transfers_clobber` | `MCTransferManager` | `DeliveredIntact` | with more than one worker two uploads find the same name free and the second replaces the first |
| `transfers_revived` | `MCTransferManager` | `CompletedIsFinal` | a cancel request that resumes after a retry marks the re-queued record, but the new task lives on (manager.py:383) |
| `sessions_final` | `MCSessionManager` | `TerminalIsFinal` | a session stopped while it starts becomes RUNNING when its start returns (session.py:383) |
| `sessions_final` | `MCSessionManager` | `ClosedIsReleased` | `close()` returns with a session STOPPING and its forward in place (session.py:272) |
| `channels_lost` | `MCChannelRelay` | `NoConnectionLost` | a channel that connects while a stop closes the others is dropped unclosed (session.py:621) |
| `channels_leaver` | `MCChannelRelay` | `LeaverReleased` | a page that leaves a session without control channel stays attached while the device is silent |
| `folders_erased` | `MCFolderSync` | `DeletesOnlyDelivered` | a file rewritten since its download is deleted from the phone (monitor.py:725) |
| `folders_bounce` | `MCFolderSync` | `LoopFree` | one name on both sides, existing files wanted: a copy is marked with the fingerprint of another file and goes back |
| `folders_trimmed` | `MCFolderSync` | `BaselineStays` | a baseline beyond the cap of 5000 is forgotten and old files are transferred |
| `access_boundary` | `MCNetworkAccess` | `BoundaryKept` | a login between the revocation and the end of the listener survives a change of the network (app.py:1096) |
| `desktop_external` | `MCDesktopHost` | `ExternalIsOutside` | a status probe that began before a stop calls the program's own server a foreign one (controller.py:277) |
| `adb_cancelled` | `MCAdbClient` | `CancelledEnd` | a cancellation during the reaping of a killed adb is swallowed; `close()` then waits for the monitor for ever (client.py:59) |
| `adb_server` | `MCAdbClient` | `ServerIsWhole` | a query of application names rewrites the server file while a session starts from it (client.py:338) |
| `adb_usage` | `MCAdbClient` | `UsageMovesOn` | a slow storage probe replaces the newer figures of a fast one (storage_metrics.py:107) |
| `adb_moved` | `MCAdbClient` | `MovedIsMoved` | `"moved": True` is answered whatever the second listing showed (app.py:834) |
| `upstream_default` | `MCUpstreamUpdate` | `DefaultIsStable` | the default adapter may be demoted and stays the default (compatibility.py:128) |
| `upstream_default` | `MCUpstreamUpdate` | `StableHasServer` | promotion to stable looks at the form of a hash, at no file (compatibility.py:112) |
| `browser_hasty` | `MCBrowserController` | `DisconnectStays` | a press while the sockets open is undone when they are open, and the phone is connected again later (controller.ts:233) |
| `browser_watch` | `MCBrowserController` | `AlwaysWatching` | after a press whose list fails, or a stream that fails during a launch, nothing watches (controller.ts:1532) |

`browser_hasty.cfg` says in a comment how it also shows `ButtonReadsTrue` (the
button reads Disconnect, enabled, while the clean-up runs and then connects),
`FailureIsOwn` (the late failure of an old stream ends the new session,
controller.ts:1118) and `NeverAbandoned` (a failed open with a failed stop, or a
page closed while `POST /sessions` is answered, leaves a session that nobody
stops) to fail; and `PauseHolds`, with `Worlds <- JustRoaming`: the page remembers
one disconnected phone, and forgets it when it connects to another on its own
(controller.ts:267). With two phones that are unplugged and plugged in, the first is
connected again without having been asked for or replugged, against
`docs/UX_AUDIO_CLIPBOARD.md:24`. The theorem `PausesAreKept` is about the worlds
without that.

Further observations, made while reading and not pursued as runs: a crash between
the enqueue and the write of the monitor's state transfers a file twice; an edit
of a synced copy before its reconciliation is taken for the copy; a failing
`transfers.get` leaves `transfer_id` set for ever (monitor.py:609-617);
`scan_now` lists Android when only PC to Android is enabled; an automatic
transfer that the user cancels is queued again after the backoff; the fallback
from a LAN listener does not revoke LAN sessions; open WebSockets of a revoked
session stay attached; a revocation or a new PIN whose write fails stays in
memory; a stale cache of application names is refreshed once per request
(client.py:462-475); `stableAdapterUnchanged` compares a value with itself
(update_scrcpy.py:151); an interrupted update cannot be repeated, since scaffold
refuses to overwrite; `build` writes `.experimental` where the loader looks for
the plain name; a page whose first list of devices fails never begins to watch;
failed lists of devices count against the retry budget; a refused upload leaves
its spool file (app.py:964).

## 5. Proofs

The proof modules are checked by TLAPS with nothing omitted, for every value of
the constants that satisfies the assumption the module names: any finite set of
transfers, any names and policies, any concurrency the code accepts, any limits;
any sessions, devices and browsers; any tokens, PINs, clients and surroundings; any
number of threads, events, requests, failures and runs of what may go wrong.

**Transfers.** `TypeCorrect` needs `TypeInv`: `TypeOK` with the facts that a task
exists only for a record that was accepted, and that a process that is down has
no tasks. The safety theorems rest on `SafetyInv`, which adds for each transfer
`Sound(t)`:

- `TasksCurrent`: a live task is the tracked one, of the current attempt, and its
  place agrees with the record's state;
- `CancelledIsLive` and `CancelsCurrent`: what is cancelled is alive, and a
  pending cancel request is for the current attempt;
- `SavedAgrees`: memory and file tell the same of completion;
- `SpoolKept`: the spool copy is there until completion.

None of the properties is inductive alone: that a final record is idle depends on
the tracked task being the only one, which depends on a retry finding the record
idle. `CancelsCurrent` is where the assumption `~OverlappingRequests` is needed,
and `transfers_revived` shows why. From `SafetyInv` follow `OneTaskPerRecord`,
`FinalRecordsAreIdle`, `UploadsStayRetryable`, `CompletionsAreDurable`, and
`QueueKeepsContract`: each action maps to a step of `TransferContract` or to a
stutter. `PartialsAreOwned` assumes in addition `~MayCrash`, since a killed process
leaves its partial files behind, and takes `PartialInv` through each step beside
`SafetyInv`: an upload never pulls, so every end of a task that has a partial file
also removes it, and a new path is only settled while no task of the transfer
pulls.
`DeliveriesStayIntact` rests on `IntactInv`: one task at a time holds the slot
(`OneHolder`), the path that it chose is free or a file of nobody's, and its own
once it has written (`PathHeld`), and what was delivered is where the record and
the state file both say (`Kept`); the last is what a restart goes on from. It
assumes `Concurrency = 1`, since with two slots `transfers_clobber` replaces a
file. `DownloadsAreReported` rests on `ReportInv`: a download is at the path of its
record and at no other, and only if the record says so (`Landed`). It assumes no
crash, since a kill between `replace` and the write of the state file leaves a
file that no record tells of, and `PathsApart`: downloads differ in name, or one
slot resolves every duplicate. The first kind needs that a rename keeps the name
(`ResolvedKeepsName`), the second uses `IntactInv`.

**Sessions.** `SessionTypes` is inductive by itself. `ClaimsAreHeld` rests on
`ClaimInv`: for each session, `Claimed` (up and not asked to stop implies
registered and holding the claim), `StartUntouched` (while it starts, either its
state is still the one the start set or somebody asked it to stop) and
`ReasonLeft` (whoever cleans up has left a reason). `DevicesAreNotShared` follows.
`BacklogIsBounded` is inductive with the types: a step prunes, or adds no finished
session to those it counts. `NothingIsLeft` rests on `TidyInv`: a clean-up that is
past its first await has removed the forward and, past its second, ended the
server (`Releasing`); a start that has not spawned its server is met only by
clean-ups that have not got that far (`BeforeServer`); a server that is alive is
attached and watched (`ServerOwned`); so whoever ends a session that no longer
starts has released it (`Released`). A torn clean-up only goes back to idle and
leaves the session `STOPPING`, which is why the theorem survives what
`ClosedIsReleased` shows.

**Channels.** `RelaysImplementSessions` is the refinement `RelaySpec => Spec` of
`SessionManager`, with the variables they share: a step of the composition is a
step of the session manager or leaves its variables alone. One case is not
immediate: a relay that ends stops its session without asking whether the service
is up, which a client's request does. `RelayInv` closes it: while handlers exist
the process is up, as `close()` waits for them (`Served`). `RelaysKeepSessions`
then carries the three safety theorems over to sessions with any number of
browsers attached, which the `channels` run does not check. `RelayInv` also says
that the owner of a channel is the browser whose handler runs on it
(`HandlerHolds`), and so no channel has two (`ChannelsAreNotShared`).

**Network and authentication.** `AcknowledgedEndsAreFinal` and
`GrantsSurviveRestarts` rest on two invariants. `StoreInv`: what a change has
revoked is revoked in memory and in the file; a session that was granted and is
live in memory has the same record in the file; a PIN in memory means a PIN in the
file. `FlowInv`: requests and changes exist only while the process serves or
closes, so that none outlives the memory it was about. From store to store
sessions only end. The properties alone are not inductive: a restart replaces
memory by the file, so the two have to agree before, whichever writes failed.
`RuleFollowsConfig` (`CalmRuleFollows` for any configurations in which a local one
manages no rule, `NetworkAssumption`) rests on `RuleInv`: in the middle of a change
the calls that are left tell which rule is installed (`HalfWay`), and a LAN
configuration has its certificate, so that no reload falls back to local access
and leaves the rule behind (`Sensible`). `FlowInv` says that no recovery tool runs
in the middle of a change.
`GuessingIsSlow` rests on `GuessInv`, which dates every wrong PIN of the last five
minutes by the locks that must have lain behind it (`Locks`): those of the current
window (`Current`) and those of the one before, without its first (`Previous`);
older ones are out of reach. Nine failures would need more time than a window has,
and the longer the current window has become, the fewer of the previous one are
recent (`CountedSuffices`): thirteen is what remains in the worst case. It is a
bound per address; the lockout forgets when the process ends.

**Folders.** `VersionQueuedOnce` and `OldFilesStay` assume `Roomy`, a state file with
room for every fingerprint; `folders_trimmed` shows why. The first rests on
`OnceInv`: a queued version is marked as processed, or the entry that observes it
knows its transfer, or it is no more and the scan does not hold it (`Remembered`).
To carry that through a scan, what the scan still holds has to agree with what is
remembered: a listed file that is still there is the one that was listed
(`ListFresh`), the entries a reconciliation took along agree with the observed ones
(`TodoAgrees`), and what is copied to the spool is still wanted (`SpoolWanted`).
Stamps that no file was given yet are met nowhere (`StampsBorn`). The second rests
on `BaselineInv`: a file that a baseline took as old is kept out by its mark, by a
baseline that a crash has lost and that will be done again, or by being gone
(`Barred`), and the state file from which the next start goes on says the same
(`SavedBarred`).
`NothingBounces`, `NothingOwedIsLost` and `RemovedIsDelivered` rest on `OrderInv`,
for orderly surroundings and the same `Roomy`. Every file is a user's own, under a
name of its side, or the copy of one transfer, under a name of the other
(`FilesPlaced`); since the names are apart, no delivery and no mark ever meets
another file. What a transfer is owed or has written but not marked is known to the
entry of its source (`OwedHeld`, `CopiesHeld`). The heart is `Reached`: a copy that is
not marked may be seen by one scan, the one during which it arrived; before the next
scan lists that folder it has reconciled the transfer and marked the copy, and once
is not enough to be taken for stable (`StableAfter >= 2`). So whatever is queued is a
user's own file (`WantedIsMine`), and what a scan removes is the version whose
transfer it has just found delivered (`EntriesPlaced`, `ItemWritten`). Without
`Reached` the step that queues a copy on its second observation cannot be excluded.

**Desktop.** `ServersAreOwned` rests on `OwnerInv`: a thread that is alive is the
one the controller knows, and while `stop()` waits there is one to wait for. It
holds because `stop()` gives a thread up only after it has looked at it again, and
`start()` starts none while the one it knows is alive.

**adb.** `ChildrenAreWaitedFor` is inductive with the domains of the variables
(`ChildInv`). `SuccessIsEvidenced` rests on `EvidenceInv`, which says what each
request may remember at each place, and that what it remembers to have seen was so
at some moment since its command; nothing is said of other requests, so it holds
beside any number of them.

**Upstream update.** `StableIsEarned` and `ServerIsOfItsCommit` assume
`OneAtATime`: two builds into one output at the same time may hash each other's
result, and the tools take no lock. Their invariant (`Inv` of
`UpstreamUpdateProofs`) says that the manifest, and the one that a tool is about to
write over it, are `Truthful` about the adapter directories as they are; that a
tool is `Honest`, so that what it built, hashed and copied is what it will record,
at each stage where it may be killed; and that the local manifest and what the
bridge has read so far name the hash of their own commit. The properties alone are
not inductive: a promotion trusts the hash, the evidence and the directory that an
earlier run recorded.

**Browser.** `SessionsAreAttended` rests on `Inv`: one `connect()` is under way at
a time, up to the end of its clean-up, and `#connecting` says so (`OneConnect`);
while it waits for its session the page has none (`StartsWithout`); every live
session is the page's or with a function that cleans it up (`AllAttended`). The
last alone is not inductive: a second `connect()` could overwrite the session of
the first. The synchronous parts enter through lemmas that say which of the two
fields they leave alone.
`PausesAreKept` rests on `PauseOrder`. Of the phones that the user has left, each
is the one the page pauses for, or is beside a selection that stays, or is not
there (`Respects`); while a session is there or under way, all are beside the
selection, since the page then forgets for whom it paused; and while a press is
under way none is left. The page compares when it begins to connect, so what
counts is that a selection can become a left phone only by the user's choice. It
assumes `Steady`: one phone, or phones that stay plugged in.

**With TLC only.** Liveness (under fairness, which involves ENABLED) is beyond the
prover. Every invariant and every action property that the runs check is proved.

## 6. Not modelled

- The rest of the browser: clipboard and its acknowledgements, quick
  applications, pointer and keyboard events, audio, flexible resizing, settings
  files, the transfer, folder, authentication and network panels. They present
  or edit state that the service owns, or convert input to messages.
- The decoder (`video-renderer.ts`) beyond its loop: configuration and canvas.
- The wire format of scrcpy and of the ADB Sync protocol, session options,
  parsing of adb's output, sanitising of names: conversions without state.
- `spool_upload`, which fills the spool before a record exists, and listings of
  folders, which only read.
- Presentation of the desktop window, themes and platform integration.
- Evidence, diagnostics, packaging, release checks: reads of the state of others,
  and command lines.
- Log collection of sessions, the event stream of the API, static files.
