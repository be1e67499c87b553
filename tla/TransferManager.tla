--------------------------- MODULE TransferManager ---------------------------
(***************************************************************************)
(* The transfer queue of the bridge (droid_web_display/transfers/          *)
(* manager.py) as one asyncio process.  A step of a coroutine between two  *)
(* awaits is one action; requests, worker tasks, their cancellation, the   *)
(* done callbacks, a graceful shutdown and a crash interleave freely       *)
(* between them.  Every retry runs in a task of its own: the task of       *)
(* transfer t for its n-th retry is <<t, n>>.                              *)
(*                                                                         *)
(* Files are abstracted to who wrote them: disk is the PC destination      *)
(* folder, phone the Android one, part the ".<id>.part" files of           *)
(* downloads and spool the upload copies a record still owns.              *)
(***************************************************************************)
EXTENDS Integers, FiniteSets, Sequences

CONSTANTS Transfers,           \* identifiers of the transfer records
          Uploads,             \* those whose direction is UPLOAD
          Names,               \* file names
          NameOf,              \* file name each transfer asks for
          Policy,              \* duplicate policy of each transfer
          Concurrency,         \* slots of the worker semaphore
          QueueLimit,          \* maximum_queue_length
          DuplicateLimit,      \* number of "(i)" names tried (9999 in the code)
          MaxRetries,          \* bound on the retries of one record
          OverlappingRequests, \* a retry may arrive while a cancel is unanswered
          MayCrash             \* the process may be killed at any point

ASSUME TransferAssumption ==
    /\ Uploads \subseteq Transfers
    /\ IsFiniteSet(Transfers)
    /\ NameOf \in [Transfers -> Names]
    /\ Policy \in [Transfers -> {"rename", "overwrite", "fail"}]
    /\ Concurrency \in 1..4
    /\ QueueLimit \in Nat \ {0}
    /\ DuplicateLimit \in Nat
    /\ MaxRetries \in Nat
    /\ OverlappingRequests \in BOOLEAN
    /\ MayCrash \in BOOLEAN

VARIABLES process,   \* "up", "closing" (inside close()) or "down"
          rec,       \* the records in memory
          saved,     \* the records in transfers.json
          pc,        \* where each task is suspended
          tracked,   \* _tasks: the attempt whose task each record points at
          cancelled, \* tasks on which cancel() was called and not yet delivered
          cancels,   \* cancel() requests suspended in gather(task)
          spool,     \* uploads whose spool file exists
          part,      \* <<t, path>>: the partial file of t for path exists
          disk,      \* PC files: path -> the transfer that wrote it
          phone      \* Android files: path -> writer, or Partial

vars == <<process, rec, saved, pc, tracked, cancelled, cancels, spool, part, disk, phone>>
requestVars == <<tracked, cancelled, cancels>>
fileVars == <<spool, part, disk, phone>>

-----------------------------------------------------------------------------
Attempts == 0..MaxRetries
Tasks == Transfers \X Attempts
NoTask == -1
Partial == "partial"

Final == {"completed", "cancelled", "failed", "interrupted"}
Retryable == Final \ {"completed"}
Owed == {"queued", "preparing", "transferring", "verifying"}

(* A path is a file name and the numbers appended to it, outermost last.    *)
BasePath(t) == <<NameOf[t], <<>>>>
Numbered(path, i) == <<path[1], Append(path[2], i)>>

(* resolve_duplicate: the path to write, or no element when it raises.      *)
Resolved(t, path, files) ==
    IF path \notin DOMAIN files \/ Policy[t] = "overwrite" THEN {path}
    ELSE IF Policy[t] = "fail" THEN {}
    ELSE {Numbered(path, i) : i \in {i \in 1..DuplicateLimit :
              /\ Numbered(path, i) \notin DOMAIN files
              /\ \A j \in 1..(i - 1) : Numbered(path, j) \in DOMAIN files}}

Written(files, path, writer) ==
    [p \in DOMAIN files \cup {path} |-> IF p = path THEN writer ELSE files[p]]

(* Suspension points of _execute, _run_upload and _run_download.            *)
UploadStages == {"resolve", "mkdir", "push", "pushing", "verify"}
DownloadStages == {"stat", "pull", "pulling"}
Stages == {"device"} \cup UploadStages \cup DownloadStages
Holding == Stages \cup {"scan"}                  \* the task holds the semaphore
Places == {"none", "new", "waiting", "done"} \cup Holding

Live(k) == pc[k] \notin {"none", "done"}
Runs(k) == process # "down" /\ k \notin cancelled

(* The loop first runs what is ready: a cancel() whose task has ended, and  *)
(* a cancelled task that awaits no ADB operation, go before the completion  *)
(* of any ADB operation of the same transfer.                               *)
LoopReady(t) ==
    \E n \in Attempts :
        \/ <<t, n>> \in cancels /\ pc[<<t, n>>] = "done"
        \/ <<t, n>> \in cancelled /\ pc[<<t, n>>] \in {"new", "waiting"}
Resumes(k) == Runs(k) /\ ~LoopReady(k[1])
Active == {t \in Transfers : rec[t].state \in Owed}

NoRecord == [state |-> "absent", attempt |-> 0, dest |-> <<>>]

Init ==
    /\ process = "up"
    /\ rec = [t \in Transfers |-> NoRecord]
    /\ saved = rec
    /\ pc = [k \in Tasks |-> "none"]
    /\ tracked = [t \in Transfers |-> NoTask]
    /\ cancelled = {}
    /\ cancels = {}
    /\ spool = {}
    /\ part = {}
    /\ disk = <<>>
    /\ phone = <<>>

-----------------------------------------------------------------------------
Persist == saved' = rec'
Goto(k, place) == pc' = [pc EXCEPT ![k] = place]
SetState(t, state) == rec' = [rec EXCEPT ![t].state = state]
CleanupPartial(t) == part' = IF t \in Uploads THEN part ELSE part \ {<<t, rec[t].dest>>}

(* _register_and_run and retry end with _schedule: the task exists but has  *)
(* not run, and replaces whatever task the record pointed at.               *)
Schedule(t, n) ==
    /\ Goto(<<t, n>>, "new")
    /\ tracked' = [tracked EXCEPT ![t] = n]

Register(t, path) ==
    /\ process = "up"
    /\ rec[t].state = "absent"
    /\ Cardinality(Active) < QueueLimit
    /\ rec' = [rec EXCEPT ![t] = [state |-> "queued", attempt |-> 0, dest |-> path]]
    /\ Persist
    /\ Schedule(t, 0)
    /\ UNCHANGED <<process, cancelled, cancels, part, disk, phone>>

EnqueueUpload(t) ==
    /\ t \in Uploads
    /\ Register(t, BasePath(t))
    /\ spool' = spool \cup {t}

EnqueueDownload(t) ==
    /\ t \notin Uploads
    /\ \E path \in Resolved(t, BasePath(t), disk) : Register(t, path)
    /\ UNCHANGED spool

MarkCancelled(t) ==
    /\ SetState(t, "cancelled")
    /\ CleanupPartial(t)
    /\ Persist

(* Mutant of Cancel: the record is marked without waiting for the task.     *)
CancelWithoutWaiting(t) ==
    /\ process = "up"
    /\ rec[t].state \in Owed
    /\ MarkCancelled(t)
    /\ cancelled' = cancelled \cup {k \in Tasks : Live(k) /\ k = <<t, tracked[t]>>}
    /\ UNCHANGED <<process, pc, tracked, cancels, spool, disk, phone>>

(* cancel(): a record without a task is marked at once; otherwise the task  *)
(* is cancelled and the request waits for it in gather.                     *)
Cancel(t) ==
    /\ process = "up"
    /\ rec[t].state \in Owed
    /\ \/ /\ tracked[t] = NoTask
          /\ MarkCancelled(t)
          /\ UNCHANGED <<cancelled, cancels>>
       \/ /\ tracked[t] # NoTask
          /\ LET k == <<t, tracked[t]>> IN
             /\ cancelled' = IF Live(k) THEN cancelled \cup {k} ELSE cancelled
             /\ cancels' = cancels \cup {k}
          /\ UNCHANGED <<rec, saved, part>>
    /\ UNCHANGED <<process, pc, tracked, spool, disk, phone>>

(* The second half of cancel(), once the task it waited for has ended.      *)
CancelReturns(k) ==
    /\ process = "up"
    /\ k \in cancels
    /\ pc[k] = "done"
    /\ cancels' = cancels \ {k}
    /\ IF rec[k[1]].state # "cancelled"
       THEN MarkCancelled(k[1])
       ELSE UNCHANGED <<rec, saved, part>>
    /\ UNCHANGED <<process, pc, tracked, cancelled, spool, disk, phone>>

CancelPending(t) == \E n \in Attempts : <<t, n>> \in cancels

(* retry() of a record in one of the given states.                          *)
RetryFrom(t, states) ==
    /\ process = "up"
    /\ rec[t].state \in states
    /\ t \in Uploads => t \in spool
    /\ OverlappingRequests \/ ~CancelPending(t)
    /\ rec[t].attempt < MaxRetries
    /\ rec' = [rec EXCEPT ![t].state = "queued", ![t].attempt = @ + 1]
    /\ Persist
    /\ Schedule(t, rec[t].attempt + 1)
    /\ UNCHANGED <<process, cancelled, cancels, fileVars>>

RetryAnyFinal(t) == RetryFrom(t, Final)                              \* mutant
Retry(t) == RetryFrom(t, Retryable)

-----------------------------------------------------------------------------
(* The worker task.                                                         *)

TaskStarts(k) ==
    /\ Runs(k)
    /\ pc[k] = "new"
    /\ Goto(k, "waiting")
    /\ UNCHANGED <<process, rec, saved, requestVars, fileVars>>

(* The semaphore admits a task while fewer than Concurrency others are at   *)
(* the given places; _execute then sets PREPARING.                          *)
AcquireBeside(k, places) ==
    /\ Runs(k)
    /\ pc[k] = "waiting"
    /\ Cardinality({j \in Tasks : pc[j] \in places}) < Concurrency
    /\ Goto(k, "device")
    /\ SetState(k[1], "preparing")
    /\ Persist
    /\ UNCHANGED <<process, requestVars, fileVars>>

TaskAcquiresLeaking(k) == AcquireBeside(k, Holding \cup {"done"})    \* mutant: keeps its slot
TaskAcquires(k) == AcquireBeside(k, Holding)

(* Mutant of DeviceReady: a download keeps the path found at enqueue time.   *)
DeviceReadyKeepingPath(k) ==
    /\ Resumes(k)
    /\ pc[k] = "device"
    /\ Goto(k, IF k[1] \in Uploads THEN "resolve" ELSE "stat")
    /\ UNCHANGED <<process, rec, saved, requestVars, fileVars>>

(* The device is ready; a download also settles its final path here.        *)
DeviceReady(k) ==
    /\ Resumes(k)
    /\ pc[k] = "device"
    /\ \/ /\ k[1] \in Uploads \cap spool
          /\ Goto(k, "resolve")
          /\ UNCHANGED rec
       \/ /\ k[1] \notin Uploads
          /\ Goto(k, "stat")
          /\ \E path \in Resolved(k[1], rec[k[1]].dest, disk) :
                rec' = [rec EXCEPT ![k[1]].dest = path]
    /\ UNCHANGED <<process, saved, requestVars, fileVars>>

RemotePathResolved(k) ==
    /\ Resumes(k)
    /\ pc[k] = "resolve"
    /\ Goto(k, "mkdir")
    /\ \E path \in Resolved(k[1], rec[k[1]].dest, phone) :
          rec' = [rec EXCEPT ![k[1]].dest = path]
    /\ UNCHANGED <<process, saved, requestVars, fileVars>>

(* mkdir returned, or the STAT of the download source did.                  *)
TransferBegins(k) ==
    /\ Resumes(k)
    /\ \/ pc[k] = "mkdir" /\ Goto(k, "push")
       \/ pc[k] = "stat" /\ Goto(k, "pull")
    /\ SetState(k[1], "transferring")
    /\ Persist
    /\ UNCHANGED <<process, requestVars, fileVars>>

(* adbd creates the file that is being pushed ...                           *)
PushOpens(k) ==
    /\ Resumes(k)
    /\ pc[k] = "push"
    /\ k[1] \in spool
    /\ Goto(k, "pushing")
    /\ phone' = Written(phone, rec[k[1]].dest, Partial)
    /\ UNCHANGED <<process, rec, saved, requestVars, spool, part, disk>>

(* Mutant of PushEnds: the spool file is unlinked before the verification.  *)
PushEndsUnlinking(k) ==
    /\ Resumes(k)
    /\ pc[k] = "pushing"
    /\ Goto(k, "verify")
    /\ phone' = Written(phone, rec[k[1]].dest, k[1])
    /\ SetState(k[1], "verifying")
    /\ spool' = spool \ {k[1]}
    /\ UNCHANGED <<process, saved, requestVars, part, disk>>

(* ... and acknowledges it.                                                 *)
PushEnds(k) ==
    /\ Resumes(k)
    /\ pc[k] = "pushing"
    /\ Goto(k, "verify")
    /\ phone' = Written(phone, rec[k[1]].dest, k[1])
    /\ SetState(k[1], "verifying")
    /\ UNCHANGED <<process, saved, requestVars, spool, part, disk>>

(* The size on the phone matches.  Two files may have the same length, so   *)
(* only a file that is still being written is told apart.                   *)
UploadVerified(k) ==
    /\ Resumes(k)
    /\ pc[k] = "verify"
    /\ k[1] \in spool
    /\ phone[rec[k[1]].dest] # Partial
    /\ Goto(k, "scan")
    /\ SetState(k[1], "completed")
    /\ Persist
    /\ UNCHANGED <<process, requestVars, fileVars>>

(* media_scan returned or failed: the spool copy goes last.                 *)
UploadEnds(k) ==
    /\ Resumes(k)
    /\ pc[k] = "scan"
    /\ Goto(k, "done")
    /\ spool' = spool \ {k[1]}
    /\ UNCHANGED rec
    /\ Persist
    /\ UNCHANGED <<process, requestVars, part, disk, phone>>

PullOpens(k) ==
    /\ Resumes(k)
    /\ pc[k] = "pull"
    /\ Goto(k, "pulling")
    /\ part' = part \cup {<<k[1], rec[k[1]].dest>>}
    /\ UNCHANGED <<process, rec, saved, requestVars, spool, disk, phone>>

(* pull() returned the expected number of bytes: verify, replace, unlink    *)
(* and _complete run without an await between them.                         *)
DownloadLands(t) ==
    /\ disk' = Written(disk, rec[t].dest, t)
    /\ part' = part \ {<<t, rec[t].dest>>}

DownloadEnds(k) ==
    /\ Resumes(k)
    /\ pc[k] = "pulling"
    /\ DownloadLands(k[1])
    /\ Goto(k, "done")
    /\ SetState(k[1], "completed")
    /\ Persist
    /\ UNCHANGED <<process, requestVars, spool, phone>>

(* Mutants of TaskFails: the partial file stays; the size is checked after  *)
(* the partial file has replaced the destination.                           *)
TaskFailsDirty(k) ==
    /\ Resumes(k)
    /\ pc[k] \in Stages
    /\ Goto(k, "done")
    /\ SetState(k[1], "failed")
    /\ Persist
    /\ UNCHANGED <<process, requestVars, fileVars>>

TaskFailsAfterReplace(k) ==
    /\ Resumes(k)
    /\ pc[k] \in Stages
    /\ Goto(k, "done")
    /\ SetState(k[1], "failed")
    /\ CleanupPartial(k[1])
    /\ Persist
    /\ disk' = IF pc[k] = "pulling" THEN Written(disk, rec[k[1]].dest, k[1]) ELSE disk
    /\ UNCHANGED <<process, requestVars, spool, phone>>

(* Any awaited operation may raise; housekeeping after _complete may not.   *)
TaskFails(k) ==
    /\ Resumes(k)
    /\ pc[k] \in Stages
    /\ Goto(k, "done")
    /\ SetState(k[1], "failed")
    /\ CleanupPartial(k[1])
    /\ Persist
    /\ UNCHANGED <<process, requestVars, spool, disk, phone>>

(* Mutant of CancelDelivered: a task that never ran is not waited out.      *)
CancelDeliveredOnceRun(k) ==
    /\ process # "down"
    /\ k \in cancelled
    /\ pc[k] # "new"
    /\ cancelled' = cancelled \ {k}
    /\ Goto(k, "done")
    /\ MarkCancelled(k[1])
    /\ UNCHANGED <<process, tracked, cancels, spool, disk, phone>>

(* CancelledError reaches the task.  A coroutine that never ran is closed   *)
(* without executing any of its code, its except clause included.           *)
CancelDelivered(k) ==
    /\ process # "down"
    /\ k \in cancelled
    /\ cancelled' = cancelled \ {k}
    /\ Goto(k, "done")
    /\ IF pc[k] = "new"
       THEN UNCHANGED <<rec, saved, part>>
       ELSE MarkCancelled(k[1])
    /\ UNCHANGED <<process, tracked, cancels, spool, disk, phone>>

(* Mutant of DiscardTask: no identity check.                                *)
DiscardWhateverIsThere(k) ==
    /\ process # "down"
    /\ pc[k] = "done"
    /\ tracked[k[1]] # NoTask
    /\ tracked' = [tracked EXCEPT ![k[1]] = NoTask]
    /\ UNCHANGED <<process, rec, saved, pc, cancelled, cancels, fileVars>>

(* The done callback drops the entry only while it names the ended task.    *)
DiscardTask(k) ==
    /\ process # "down"
    /\ pc[k] = "done"
    /\ tracked[k[1]] = k[2]
    /\ tracked' = [tracked EXCEPT ![k[1]] = NoTask]
    /\ UNCHANGED <<process, rec, saved, pc, cancelled, cancels, fileVars>>

-----------------------------------------------------------------------------
(* close() runs in the lifespan shutdown, after the server has answered its *)
(* pending requests.                                                        *)
Close ==
    /\ process = "up"
    /\ cancels = {}
    /\ process' = "closing"
    /\ cancelled' = cancelled \cup {k \in Tasks : Live(k) /\ tracked[k[1]] = k[2]}
    /\ UNCHANGED <<rec, saved, pc, tracked, cancels, fileVars>>

AsInterrupted(records) ==
    [t \in Transfers |-> IF records[t].state \in Owed
                         THEN [records[t] EXCEPT !.state = "interrupted"]
                         ELSE records[t]]

(* The event loop is gone and every task with it.                           *)
LoseLoop ==
    /\ process' = "down"
    /\ pc' = [k \in Tasks |-> "none"]
    /\ tracked' = [t \in Transfers |-> NoTask]
    /\ cancelled' = {}
    /\ cancels' = {}

(* Mutant of CloseReturns: it waits for the records instead of the tasks.   *)
CloseReturnsWhenSettled ==
    /\ process = "closing"
    /\ Active = {}
    /\ UNCHANGED rec
    /\ Persist
    /\ LoseLoop
    /\ UNCHANGED fileVars

CloseReturns ==
    /\ process = "closing"
    /\ \A k \in Tasks : tracked[k[1]] = k[2] => ~Live(k)
    /\ rec' = AsInterrupted(rec)
    /\ Persist
    /\ LoseLoop
    /\ UNCHANGED fileVars

Crash ==
    /\ MayCrash
    /\ process # "down"
    /\ LoseLoop
    /\ UNCHANGED <<rec, saved, fileVars>>

(* The kill falls between replace() and the write of transfers.json.        *)
CrashAfterReplace(k) ==
    /\ MayCrash
    /\ Runs(k)
    /\ pc[k] = "pulling"
    /\ DownloadLands(k[1])
    /\ LoseLoop
    /\ UNCHANGED <<rec, saved, spool, phone>>

(* start() in a new process: _load_state.                                   *)
Start ==
    /\ process = "down"
    /\ process' = "up"
    /\ rec' = AsInterrupted(saved)
    /\ UNCHANGED <<saved, pc, requestVars, fileVars>>

-----------------------------------------------------------------------------
TaskStep(k) ==
    \/ TaskStarts(k) \/ TaskAcquires(k) \/ DeviceReady(k) \/ RemotePathResolved(k)
    \/ TransferBegins(k) \/ PushOpens(k) \/ PushEnds(k) \/ UploadVerified(k)
    \/ UploadEnds(k) \/ PullOpens(k) \/ DownloadEnds(k) \/ TaskFails(k)

LoopStep(k) == CancelDelivered(k) \/ DiscardTask(k) \/ CancelReturns(k)

Request(t) == EnqueueUpload(t) \/ EnqueueDownload(t) \/ Cancel(t) \/ Retry(t)

Next ==
    \/ \E t \in Transfers : Request(t)
    \/ \E k \in Tasks : TaskStep(k) \/ LoopStep(k) \/ CrashAfterReplace(k)
    \/ Close \/ CloseReturns \/ Crash \/ Start

Spec == Init /\ [][Next]_vars

(* The loop runs every ready callback, every ADB operation is bounded by a  *)
(* timeout, and close() is not abandoned once it has begun.                 *)
Fairness ==
    /\ \A k \in Tasks : WF_vars(TaskStep(k)) /\ WF_vars(LoopStep(k))
    /\ WF_vars(CloseReturns)

FairSpec == Spec /\ Fairness

-----------------------------------------------------------------------------
(* Every variable has the shape the code gives it.                          *)
Paths == Names \X Seq(Nat)
Record == {NoRecord} \cup [state : Owed \cup Final, attempt : Attempts, dest : Paths]

TypeOK ==
    /\ process \in {"up", "closing", "down"}
    /\ rec \in [Transfers -> Record]
    /\ saved \in [Transfers -> Record]
    /\ pc \in [Tasks -> Places]
    /\ tracked \in [Transfers -> Attempts \cup {NoTask}]
    /\ cancelled \subseteq Tasks
    /\ cancels \subseteq Tasks
    /\ spool \subseteq Uploads
    /\ part \subseteq Transfers \X Paths

(* The task a record points at in _tasks is the only one that can still     *)
(* touch the record, so cancel() and close() reach every running transfer   *)
(* however retries and late done callbacks interleave (_schedule,           *)
(* _discard_task).                                                          *)
SingleTask ==
    \A k \in Tasks : Live(k) => tracked[k[1]] = k[2] /\ rec[k[1]].attempt = k[2]

(* A record in a final state is at rest: no task is left that could change  *)
(* it, bar the housekeeping of a completed upload.  This is what makes the  *)
(* unguarded state writes of _execute and retry() safe.                     *)
FinalIsIdle ==
    \A k \in Tasks : Live(k) =>
        \/ rec[k[1]].state \in Owed
        \/ rec[k[1]].state = "completed" /\ pc[k] = "scan"

(* The spool copy of an upload outlives everything that can go wrong with   *)
(* it, in memory and after a restart: until the record is COMPLETED the     *)
(* user can retry without selecting the file again (retry, _run_upload).    *)
UploadStaysRetryable ==
    \A t \in Uploads : \A r \in {rec[t], saved[t]} :
        r.state \notin {"absent", "completed"} => t \in spool

(* A completion is never lost by a crash and never invented by one: the     *)
(* state file calls a transfer COMPLETED exactly when the records do        *)
(* (_complete, _persist, _load_state).                                      *)
CompletionDurable ==
    \A t \in Transfers :
        (rec[t].state = "completed") <=> (saved[t].state = "completed")

(* Under RENAME and FAIL no transfer writes over a file that another one    *)
(* delivered: the file of a completed record is still its own               *)
(* (resolve_duplicate, _resolve_remote_duplicate).                          *)
DeliveredIntact ==
    \A t \in Transfers :
        LET files == IF t \in Uploads THEN phone ELSE disk IN
        (rec[t].state = "completed" /\ \A u \in Transfers : Policy[u] # "overwrite")
            => rec[t].dest \in DOMAIN files /\ files[rec[t].dest] = t

(* While the process survives, a partial download belongs to the pull that  *)
(* is writing it: every other way out of _run_download removes it.          *)
PartialIsOwned ==
    \A p \in part : \E n \in Attempts :
        pc[<<p[1], n>>] = "pulling" /\ rec[p[1]].dest = p[2]

(* While the process survives, a download is on the PC exactly when its     *)
(* record says so, and once (_run_download).                                *)
DownloadReported ==
    \A t \in Transfers \ Uploads :
        Cardinality({p \in DOMAIN disk : disk[p] = t})
            = IF rec[t].state = "completed" THEN 1 ELSE 0

(* COMPLETED is settled: no step takes a record out of it.  The comment in  *)
(* _run_upload states it of the housekeeping after an upload.               *)
CompletedIsSettled ==
    [][\A t \in Transfers : rec[t].state = "completed" => rec'[t].state = "completed"]_vars

(* COMPLETED is in _FINAL_STATES and not in _RETRYABLE_STATES: while the    *)
(* service is open a delivered transfer is never taken up again.            *)
CompletedIsFinal ==
    [][\A t \in Transfers :
          (rec[t].state = "completed" /\ process' = "up") => rec'[t].state = "completed"]_vars

(* Every accepted transfer reaches a final state, or the process goes down  *)
(* with it: no slot of the semaphore is held for ever.                      *)
TransfersSettle ==
    \A t \in Transfers : (rec[t].state \in Owed) ~> (rec[t].state \in Final \/ process = "down")

(* A cancel request is answered, and close() ends whatever the tasks were   *)
(* doing when it cancelled them.                                            *)
CancelAnswered == \A k \in Tasks : (k \in cancels) ~> (k \notin cancels)
CloseEnds == (process = "closing") ~> (process = "down")

-----------------------------------------------------------------------------
(* The queue seen through TransferContract.                                 *)
StatusOf(state) ==
    IF state = "absent" THEN "none"
    ELSE IF state \in Owed THEN "owed"
    ELSE IF state = "completed" THEN "delivered" ELSE "stopped"

Contract == INSTANCE TransferContract WITH
    open <- (process = "up"),
    status <- [t \in Transfers |-> StatusOf(rec[t].state)],
    tries <- [t \in Transfers |-> rec[t].attempt]

(* The queue keeps the contract: a settled transfer stays settled while the *)
(* service is open, only retry() revives a stopped one, a new transfer is   *)
(* accepted only below the queue limit, and a restart never forgets or      *)
(* re-opens what was reported.                                              *)
KeepsContract == Contract!Spec

=============================================================================
