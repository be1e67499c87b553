------------------------ MODULE TransferManagerProofs ------------------------
(***************************************************************************)
(* Proofs about TransferManager, for every set of transfers, every policy, *)
(* every number of worker slots and every bound on retries.                *)
(***************************************************************************)
EXTENDS TransferManager, FiniteSetTheorems, TLAPS

-----------------------------------------------------------------------------
(* Type correctness.  A task, or a cancel() that waits for one, exists only *)
(* for a registered record, and nothing of the loop survives it.            *)

RecordsOfTasks ==
    \A k \in Tasks : Live(k) \/ k \in cancels \/ k \in cancelled
                        => rec[k[1]].state # "absent"

DownIsIdle ==
    process = "down" => /\ cancelled = {}
                        /\ cancels = {}
                        /\ \A k \in Tasks : pc[k] = "none"

TypeInv == TypeOK /\ RecordsOfTasks /\ DownIsIdle

(* A registered record, whatever its state and path are set to, is a record *)
(* again.                                                                   *)
LEMMA RecordUpdate ==
    ASSUME rec \in [Transfers -> Record],
           NEW t \in Transfers, rec[t].state # "absent",
           NEW state \in Owed \cup Final, NEW path \in Paths
    PROVE  /\ rec[t].attempt \in Attempts
           /\ rec[t].dest \in Paths
           /\ [rec EXCEPT ![t].state = state] \in [Transfers -> Record]
           /\ [rec EXCEPT ![t].dest = path] \in [Transfers -> Record]
<1>1. rec[t] \in [state : Owed \cup Final, attempt : Attempts, dest : Paths]
    BY DEF Record, NoRecord
<1> QED
    BY <1>1 DEF Record

(* A path that resolve_duplicate returns is a path.                         *)
LEMMA ResolvedIsPath ==
    ASSUME TransferAssumption,
           NEW t, NEW path \in Paths, NEW files,
           NEW found \in Resolved(t, path, files)
    PROVE  found \in Paths
<1>1. CASE found = path
    BY <1>1
<1>2. CASE found # path
    <2>1. PICK i \in 1..DuplicateLimit : found = Numbered(path, i)
        BY <1>2 DEF Resolved
    <2>2. i \in Nat
        BY DEF TransferAssumption
    <2>3. path[1] \in Names /\ path[2] \in Seq(Nat)
        BY DEF Paths
    <2>4. Append(path[2], i) \in Seq(Nat)
        BY <2>2, <2>3
    <2> QED
        BY <2>1, <2>3, <2>4 DEF Numbered, Paths
<1> QED
    BY <1>1, <1>2

LEMMA BaseIsPath ==
    ASSUME TransferAssumption, NEW t \in Transfers
    PROVE  BasePath(t) \in Paths
<1>1. NameOf[t] \in Names /\ <<>> \in Seq(Nat)
    BY DEF TransferAssumption
<1> QED
    BY <1>1 DEF BasePath, Paths

(* Marking what is owed as interrupted keeps the records well typed.        *)
LEMMA InterruptedRecords ==
    ASSUME NEW records \in [Transfers -> Record]
    PROVE  /\ AsInterrupted(records) \in [Transfers -> Record]
           /\ \A t \in Transfers :
                 /\ AsInterrupted(records)[t].attempt = records[t].attempt
                 /\ records[t].state \in Owed
                        => AsInterrupted(records)[t].state = "interrupted"
                 /\ records[t].state \notin Owed
                        => AsInterrupted(records)[t] = records[t]
<1> SUFFICES ASSUME NEW t \in Transfers
             PROVE  /\ AsInterrupted(records)[t] \in Record
                    /\ AsInterrupted(records)[t].attempt = records[t].attempt
                    /\ records[t].state \in Owed
                            => AsInterrupted(records)[t].state = "interrupted"
                    /\ records[t].state \notin Owed
                            => AsInterrupted(records)[t] = records[t]
    BY DEF AsInterrupted
<1>1. CASE records[t].state \in Owed
    <2>1. records[t] \in [state : Owed \cup Final, attempt : Attempts, dest : Paths]
        BY <1>1 DEF Record, NoRecord, Owed
    <2>2. AsInterrupted(records)[t] = [records[t] EXCEPT !.state = "interrupted"]
        BY <1>1 DEF AsInterrupted
    <2> QED
        BY <1>1, <2>1, <2>2 DEF Record, Final
<1>2. CASE records[t].state \notin Owed
    BY <1>2 DEF AsInterrupted
<1> QED
    BY <1>1, <1>2

LEMMA TypeInit == TransferAssumption /\ Init => TypeInv
<1> SUFFICES ASSUME TransferAssumption, Init PROVE TypeInv
    OBVIOUS
<1>1. TypeOK
    BY DEF TransferAssumption, Init, TypeOK, Record, Places, Attempts, NoTask
<1>2. RecordsOfTasks /\ DownIsIdle
    BY DEF Init, RecordsOfTasks, DownIsIdle, Live
<1> QED
    BY <1>1, <1>2 DEF TypeInv

(* Marking a registered record keeps the types of what it writes.           *)
LEMMA MarkedRecords ==
    ASSUME TypeOK, NEW t \in Transfers, rec[t].state # "absent", MarkCancelled(t)
    PROVE  /\ rec' \in [Transfers -> Record]
           /\ saved' = rec'
           /\ part' \subseteq part
           /\ \A u \in Transfers : rec[u].state # "absent" => rec'[u].state # "absent"
<1>1. "cancelled" \in Owed \cup Final /\ rec[t].dest \in Paths
    BY RecordUpdate DEF Final, TypeOK, Record, NoRecord
<1>2. rec' \in [Transfers -> Record]
    BY <1>1, RecordUpdate DEF MarkCancelled, SetState, TypeOK
<1> QED
    BY <1>2 DEF MarkCancelled, SetState, CleanupPartial, Persist, TypeOK

(* The steps of a task: it moves on, its record takes another state or path *)
(* and is saved or not, and a partial file may come or go.                  *)
LEMMA TaskStepTypes ==
    ASSUME TypeInv, process # "down", UNCHANGED <<process, tracked, cancels>>,
           NEW k \in Tasks, k \in cancelled \/ Live(k),
           NEW place \in Places, Goto(k, place),
           rec' \in [Transfers -> Record],
           \A t \in Transfers : rec[t].state # "absent" => rec'[t].state # "absent",
           saved' = saved \/ saved' = rec',
           cancelled' \subseteq cancelled, spool' \subseteq spool,
           part' \subseteq Transfers \X Paths
    PROVE  TypeInv'
<1>1. TypeOK'
    BY DEF TypeInv, TypeOK, Goto
<1>2. RecordsOfTasks'
    BY DEF TypeInv, TypeOK, Goto, RecordsOfTasks, Live, Tasks
<1> QED
    BY <1>1, <1>2 DEF TypeInv, DownIsIdle

LEMMA TypeStep ==
    ASSUME TransferAssumption, TypeInv, [Next]_vars
    PROVE  TypeInv'
<1> USE DEF TypeInv
<1>1. ASSUME NEW t \in Transfers, NEW path \in Paths, Register(t, path)
      PROVE  /\ rec' \in [Transfers -> Record] /\ saved' \in [Transfers -> Record]
             /\ pc' \in [Tasks -> Places]
             /\ tracked' \in [Transfers -> Attempts \cup {NoTask}]
             /\ RecordsOfTasks' /\ DownIsIdle'
    <2>1. 0 \in Attempts /\ <<t, 0>> \in Tasks
        BY DEF TransferAssumption, Attempts, Tasks
    <2>2. rec' \in [Transfers -> Record] /\ rec'[t].state = "queued"
        BY <1>1, <2>1 DEF Register, TypeOK, Record, Owed
    <2>3. pc' \in [Tasks -> Places] /\ tracked' \in [Transfers -> Attempts \cup {NoTask}]
        BY <1>1, <2>1 DEF Register, Schedule, Goto, TypeOK, Places
    <2>4. RecordsOfTasks'
        BY <1>1, <2>1, <2>2 DEF Register, Schedule, Goto, TypeOK, RecordsOfTasks, Live, Tasks
    <2> QED
        BY <1>1, <2>2, <2>3, <2>4 DEF Register, Persist, DownIsIdle
<1>2. ASSUME NEW t \in Transfers PROVE BasePath(t) \in Paths
    BY BaseIsPath
<1>3. ASSUME NEW t \in Transfers, EnqueueUpload(t) PROVE TypeInv'
    <2>1. Register(t, BasePath(t)) /\ spool' \subseteq Uploads
        BY <1>3 DEF EnqueueUpload, TypeOK
    <2> QED
        BY <1>1, <1>2, <2>1 DEF Register, TypeOK
<1>4. ASSUME NEW t \in Transfers, EnqueueDownload(t) PROVE TypeInv'
    <2>1. PICK path \in Resolved(t, BasePath(t), disk) : Register(t, path)
        BY <1>4 DEF EnqueueDownload
    <2>2. path \in Paths
        BY <1>2, ResolvedIsPath
    <2> QED
        BY <1>1, <1>4, <2>1, <2>2 DEF EnqueueDownload, Register, TypeOK
<1>5. ASSUME NEW t \in Transfers, Cancel(t) PROVE TypeInv'
    <2>1. rec[t].state # "absent" /\ process = "up"
        BY <1>5 DEF Cancel, Owed
    <2>2. CASE MarkCancelled(t) /\ UNCHANGED <<cancelled, cancels>>
        BY <1>5, <2>1, <2>2, MarkedRecords DEF Cancel, TypeOK, RecordsOfTasks, DownIsIdle, Live, Tasks
    <2>3. CASE tracked[t] # NoTask /\ UNCHANGED <<rec, saved, part>>
        <3>1. <<t, tracked[t]>> \in Tasks
            BY <2>3 DEF TypeOK, Tasks
        <3> QED
            BY <1>5, <2>1, <2>3, <3>1 DEF Cancel, TypeOK, RecordsOfTasks, DownIsIdle, Live
    <2> QED
        BY <1>5, <2>2, <2>3 DEF Cancel
<1>6. ASSUME NEW t \in Transfers, Retry(t) PROVE TypeInv'
    <2>1. rec[t].state # "absent" /\ process = "up"
        BY <1>6 DEF Retry, RetryFrom, Retryable, Final
    <2>2. rec[t].attempt + 1 \in Attempts
        BY <1>6, <2>1 DEF Retry, RetryFrom, TypeOK, Record, NoRecord, Attempts, TransferAssumption
    <2>3. rec[t] \in [state : Owed \cup Final, attempt : Attempts, dest : Paths]
        BY <2>1 DEF TypeOK, Record, NoRecord
    <2>4. rec' \in [Transfers -> Record] /\ rec'[t].state = "queued"
        BY <1>6, <2>2, <2>3 DEF Retry, RetryFrom, TypeOK, Record, Owed
    <2>5. <<t, rec[t].attempt + 1>> \in Tasks
        BY <2>2 DEF Tasks
    <2>6. pc' \in [Tasks -> Places] /\ tracked' \in [Transfers -> Attempts \cup {NoTask}]
        BY <1>6, <2>2, <2>5 DEF Retry, RetryFrom, Schedule, Goto, TypeOK, Places
    <2>7. RecordsOfTasks' /\ DownIsIdle'
        BY <1>6, <2>1, <2>4, <2>5
        DEF Retry, RetryFrom, Schedule, Goto, TypeOK, RecordsOfTasks, DownIsIdle, Live, Tasks
    <2> QED
        BY <1>6, <2>4, <2>6, <2>7 DEF Retry, RetryFrom, Persist, fileVars, TypeOK
<1>7. ASSUME NEW k \in Tasks, TaskStep(k) PROVE TypeInv'
    <2> DEFINE t == k[1]
    <2>1. /\ k \in Tasks /\ t \in Transfers /\ Live(k) /\ process # "down"
          /\ rec[t].state # "absent"
          /\ rec[t] \in [state : Owed \cup Final, attempt : Attempts, dest : Paths]
        <3>1. Live(k) /\ process # "down"
            BY <1>7 DEF TaskStep, TaskStarts, TaskAcquires, AcquireBeside, DeviceReady,
                RemotePathResolved, TransferBegins, PushOpens, PushEnds, UploadVerified,
                UploadEnds, PullOpens, DownloadEnds, TaskFails, Resumes, Runs, Live,
                Stages, UploadStages, DownloadStages
        <3> QED
            BY <3>1 DEF RecordsOfTasks, TypeOK, Record, NoRecord, Tasks
    <2>2. /\ part \ {<<t, rec[t].dest>>} \subseteq Transfers \X Paths
          /\ part \cup {<<t, rec[t].dest>>} \subseteq Transfers \X Paths
        BY <2>1 DEF TypeOK
    <2>3. ASSUME NEW state \in Owed \cup Final, SetState(t, state)
          PROVE  /\ rec' \in [Transfers -> Record]
                 /\ \A u \in Transfers : rec[u].state # "absent" => rec'[u].state # "absent"
        <3>1. rec[t].dest \in Paths /\ rec \in [Transfers -> Record]
            BY <2>1 DEF TypeOK
        <3>2. rec' \in [Transfers -> Record]
            BY <2>1, <2>3, <3>1, RecordUpdate DEF SetState
        <3> QED
            BY <2>1, <2>3, <3>1, <3>2 DEF SetState, Owed, Final
    <2>4. ASSUME NEW path \in Paths, rec' = [rec EXCEPT ![t].dest = path]
          PROVE  /\ rec' \in [Transfers -> Record]
                 /\ \A u \in Transfers : rec[u].state # "absent" => rec'[u].state # "absent"
        <3>1. rec[t].state \in Owed \cup Final /\ rec \in [Transfers -> Record]
            BY <2>1 DEF TypeOK
        <3>2. rec' \in [Transfers -> Record]
            BY <2>1, <2>4, <3>1, RecordUpdate
        <3> QED
            BY <2>1, <2>4, <3>1, <3>2
    <2>5. \A files : \A path \in Resolved(t, rec[t].dest, files) : path \in Paths
        BY <2>1, ResolvedIsPath
    <2> USE <2>1, <2>2, <2>3, TaskStepTypes DEF TypeOK, Places, Holding, Stages, UploadStages,
            DownloadStages, Owed, Final, requestVars, fileVars, Persist
    <2>6. CASE TaskStarts(k)
        BY <2>6 DEF TaskStarts
    <2>7. CASE TaskAcquires(k)
        BY <2>7 DEF TaskAcquires, AcquireBeside
    <2>8. CASE DeviceReady(k)
        BY <2>4, <2>5, <2>8 DEF DeviceReady
    <2>9. CASE RemotePathResolved(k)
        BY <2>4, <2>5, <2>9 DEF RemotePathResolved
    <2>10. CASE TransferBegins(k)
        BY <2>10 DEF TransferBegins
    <2>11. CASE PushOpens(k)
        BY <2>11 DEF PushOpens
    <2>12. CASE PushEnds(k)
        BY <2>12 DEF PushEnds
    <2>13. CASE UploadVerified(k)
        BY <2>13 DEF UploadVerified
    <2>14. CASE UploadEnds(k)
        BY <2>14 DEF UploadEnds
    <2>15. CASE PullOpens(k)
        BY <2>15 DEF PullOpens
    <2>16. CASE DownloadEnds(k)
        BY <2>16 DEF DownloadEnds, DownloadLands
    <2>17. CASE TaskFails(k)
        BY <2>17 DEF TaskFails, CleanupPartial
    <2> QED
        BY <1>7, <2>6, <2>7, <2>8, <2>9, <2>10, <2>11, <2>12, <2>13, <2>14, <2>15, <2>16,
           <2>17 DEF TaskStep
<1>8. ASSUME NEW k \in Tasks, CancelDelivered(k) PROVE TypeInv'
    <2>1. k[1] \in Transfers /\ rec[k[1]].state # "absent" /\ "done" \in Places
        BY <1>8 DEF CancelDelivered, RecordsOfTasks, Tasks, Places
    <2>2. CASE MarkCancelled(k[1])
        BY <1>8, <2>1, <2>2, MarkedRecords, TaskStepTypes DEF CancelDelivered, TypeOK
    <2>3. CASE UNCHANGED <<rec, saved, part>>
        BY <1>8, <2>1, <2>3, TaskStepTypes DEF CancelDelivered, TypeOK
    <2> QED
        BY <1>8, <2>2, <2>3 DEF CancelDelivered
<1>9. ASSUME NEW k \in Tasks, DiscardTask(k) PROVE TypeInv'
    BY <1>9 DEF DiscardTask, fileVars, TypeOK, RecordsOfTasks, DownIsIdle, Live
<1>10. ASSUME NEW k \in Tasks, CancelReturns(k) PROVE TypeInv'
    <2>1. k[1] \in Transfers /\ rec[k[1]].state # "absent"
        BY <1>10 DEF CancelReturns, RecordsOfTasks, Tasks
    <2>2. CASE MarkCancelled(k[1])
        BY <1>10, <2>1, <2>2, MarkedRecords
        DEF CancelReturns, TypeOK, RecordsOfTasks, DownIsIdle, Live, Tasks
    <2>3. CASE UNCHANGED <<rec, saved, part>>
        BY <1>10, <2>3 DEF CancelReturns, TypeOK, RecordsOfTasks, DownIsIdle, Live
    <2> QED
        BY <1>10, <2>2, <2>3 DEF CancelReturns
<1>11. CASE Close
    BY <1>11 DEF Close, fileVars, TypeOK, RecordsOfTasks, DownIsIdle, Live
<1>12. ASSUME LoseLoop, rec' \in [Transfers -> Record], saved' \in [Transfers -> Record],
              spool' = spool, part' \subseteq part
       PROVE  TypeInv'
    BY <1>12 DEF LoseLoop, TypeOK, RecordsOfTasks, DownIsIdle, Live, Places
<1>13. CASE CloseReturns
    BY <1>12, <1>13, InterruptedRecords DEF CloseReturns, Persist, fileVars, TypeOK
<1>14. CASE Crash
    BY <1>12, <1>14 DEF Crash, fileVars, TypeOK
<1>15. ASSUME NEW k \in Tasks, CrashAfterReplace(k) PROVE TypeInv'
    BY <1>12, <1>15 DEF CrashAfterReplace, DownloadLands, TypeOK
<1>16. CASE Start
    BY <1>16, InterruptedRecords
    DEF Start, requestVars, fileVars, TypeOK, RecordsOfTasks, DownIsIdle, Live
<1>17. CASE UNCHANGED vars
    BY <1>17 DEF vars, TypeOK, RecordsOfTasks, DownIsIdle, Live
<1> QED
    BY <1>3, <1>4, <1>5, <1>6, <1>7, <1>8, <1>9, <1>10, <1>11, <1>13, <1>14, <1>15, <1>16,
       <1>17 DEF Next, Request, LoopStep

(* Every behaviour of the queue is well typed: for all values of the        *)
(* constants, overlapping requests and crashes included.                    *)
THEOREM TypeCorrect ==
    ASSUME TransferAssumption
    PROVE  Spec => []TypeOK
<1>1. Init => TypeInv
    BY TypeInit
<1>2. TypeInv /\ [Next]_vars => TypeInv'
    BY TypeStep
<1>3. TypeInv => TypeOK
    BY DEF TypeInv
<1> QED
    BY <1>1, <1>2, <1>3, PTL DEF Spec

-----------------------------------------------------------------------------
(* Safety.  Everything the properties say is local to one transfer, and so  *)
(* is the invariant that implies them: Sound(t).                            *)

(* The one live task of a transfer is the tracked one, runs the current     *)
(* attempt, and leaves the record owed but for the media scan.              *)
TasksCurrent(t) ==
    /\ tracked[t] \in {NoTask, rec[t].attempt}
    /\ \A n \in Attempts :
        /\ Live(<<t, n>>) => /\ tracked[t] = n
                             /\ rec[t].attempt = n
                             /\ rec[t].state \in Owed \/ pc[<<t, n>>] = "scan"
        /\ pc[<<t, n>>] = "scan" => /\ rec[t].state = "completed"
                                    /\ t \in Uploads => t \in spool

(* A cancelled task has not ended, and was not past its completion unless   *)
(* close() cancelled it; close() cancels every task there is.               *)
CancelledIsLive(t) ==
    \A n \in Attempts :
        /\ <<t, n>> \in cancelled => /\ Live(<<t, n>>)
                                     /\ process = "up" => pc[<<t, n>>] # "scan"
        /\ process = "closing" /\ Live(<<t, n>>) => <<t, n>> \in cancelled

(* A suspended cancel() waits for the current attempt, which can no longer  *)
(* complete.                                                                *)
CancelsCurrent(t) ==
    \A n \in Attempts :
        <<t, n>> \in cancels => /\ process = "up"
                                /\ rec[t].attempt = n
                                /\ rec[t].state \in Owed \cup {"cancelled"}
                                /\ Live(<<t, n>>) => <<t, n>> \in cancelled

(* The state file may lag behind the record, but agrees with it on what     *)
(* _load_state keeps.                                                       *)
SavedAgrees(t) ==
    /\ saved[t].attempt = rec[t].attempt
    /\ (saved[t].state = "absent") <=> (rec[t].state = "absent")
    /\ (saved[t].state = "completed") <=> (rec[t].state = "completed")

SpoolKept(t) ==
    t \in Uploads => /\ rec[t].state \notin {"absent", "completed"} => t \in spool
                     /\ saved[t].state \notin {"absent", "completed"} => t \in spool

Sound(t) ==
    TasksCurrent(t) /\ CancelledIsLive(t) /\ CancelsCurrent(t) /\ SavedAgrees(t) /\ SpoolKept(t)

SafetyInv == TypeInv /\ \A t \in Transfers : Sound(t)

LEMMA SoundImplies ==
    ASSUME TransferAssumption, SafetyInv
    PROVE  SingleTask /\ FinalIsIdle /\ UploadStaysRetryable /\ CompletionDurable
<1>1. \A k \in Tasks : k = <<k[1], k[2]>> /\ k[1] \in Transfers /\ k[2] \in Attempts
    BY DEF Tasks
<1>2. SingleTask /\ FinalIsIdle
    BY <1>1 DEF SafetyInv, Sound, TasksCurrent, SingleTask, FinalIsIdle
<1>3. UploadStaysRetryable /\ CompletionDurable
    BY DEF SafetyInv, Sound, SavedAgrees, SpoolKept, UploadStaysRetryable, CompletionDurable,
       TransferAssumption, TypeInv, TypeOK
<1> QED
    BY <1>2, <1>3

(* A transfer is sound as long as nothing of it changes but its line in the *)
(* state file, which is rewritten with every other one.                     *)
LEMMA Untouched ==
    ASSUME NEW t \in Transfers, Sound(t),
           process' = process, rec'[t] = rec[t], saved'[t] = saved[t] \/ saved'[t] = rec[t],
           tracked'[t] = tracked[t], (t \in spool') <=> (t \in spool),
           \A n \in Attempts : /\ pc'[<<t, n>>] = pc[<<t, n>>]
                               /\ (<<t, n>> \in cancelled') <=> (<<t, n>> \in cancelled)
                               /\ (<<t, n>> \in cancels') <=> (<<t, n>> \in cancels)
    PROVE  Sound(t)'
<1>1. \A n \in Attempts : Live(<<t, n>>)' <=> Live(<<t, n>>)
    BY DEF Live
<1>2. TasksCurrent(t)' /\ CancelledIsLive(t)' /\ CancelsCurrent(t)'
    BY <1>1 DEF Sound, TasksCurrent, CancelledIsLive, CancelsCurrent
<1>3. SavedAgrees(t)' /\ SpoolKept(t)'
    BY DEF Sound, SavedAgrees, SpoolKept
<1> QED
    BY <1>2, <1>3 DEF Sound

(* A step of the task <<t, n>>, or the delivery of its cancellation: only t *)
(* changes.                                                                 *)
LEMMA OthersUntouched ==
    ASSUME TypeOK, TypeOK', NEW t \in Transfers, NEW n \in Attempts, process' = process,
           \A u \in Transfers : Sound(u),
           \A u \in Transfers \ {t} : rec'[u] = rec[u],
           saved' = saved \/ saved' = rec',
           \A u \in Transfers \ {t} : tracked'[u] = tracked[u],
           \A u \in Transfers \ {t} : (u \in spool') <=> (u \in spool),
           \A k \in Tasks \ {<<t, n>>} :
                /\ pc'[k] = pc[k]
                /\ (k \in cancelled') <=> (k \in cancelled)
                /\ (k \in cancels') <=> (k \in cancels)
    PROVE  \A u \in Transfers \ {t} : Sound(u)'
<1> SUFFICES ASSUME NEW u \in Transfers \ {t} PROVE Sound(u)'
    OBVIOUS
<1>1. \A m \in Attempts : <<u, m>> \in Tasks \ {<<t, n>>}
    BY DEF Tasks
<1> QED
    BY <1>1, Untouched

LEMMA SoundInit == TransferAssumption /\ Init => SafetyInv
<1> SUFFICES ASSUME TransferAssumption, Init, NEW t \in Transfers PROVE Sound(t)
    BY TypeInit DEF SafetyInv
<1>1. \A n \in Attempts : <<t, n>> \in Tasks
    BY DEF Tasks
<1> QED
    BY <1>1 DEF Init, NoRecord, Live, Owed, Sound, TasksCurrent, CancelledIsLive, CancelsCurrent,
       SavedAgrees, SpoolKept

(* The steps of the task <<t, n>> that leave its record owed.               *)
LEMMA OwedStep ==
    ASSUME TransferAssumption, TypeOK, TypeOK', NEW t \in Transfers, NEW n \in Attempts,
           \A u \in Transfers : Sound(u), process # "down", <<t, n>> \notin cancelled,
           Live(<<t, n>>), pc[<<t, n>>] # "scan",
           NEW place \in Places \ {"none", "done", "scan"}, Goto(<<t, n>>, place),
           rec'[t].state \in Owed, rec'[t].attempt = rec[t].attempt,
           \A u \in Transfers \ {t} : rec'[u] = rec[u],
           saved' = saved \/ saved' = rec',
           UNCHANGED <<process, tracked, cancelled, cancels, spool>>
    PROVE  \A u \in Transfers : Sound(u)'
<1>1. \A u \in Transfers \ {t} : Sound(u)'
    BY OthersUntouched DEF Goto, TypeOK
<1>2. /\ Sound(t) /\ rec[t].state \in Owed /\ tracked[t] = n /\ rec[t].attempt = n
      /\ <<t, n>> \notin cancels
    BY DEF Sound, TasksCurrent, CancelsCurrent
<1>3. /\ pc'[<<t, n>>] = place
      /\ \A m \in Attempts \ {n} : pc'[<<t, m>>] = pc[<<t, m>>]
    BY DEF Goto, TypeOK, Tasks
<1>4. \A m \in Attempts \ {n} : ~Live(<<t, m>>) /\ pc[<<t, m>>] # "scan" /\ ~Live(<<t, m>>)'
    BY <1>2, <1>3 DEF Sound, TasksCurrent, Live
<1>5. TasksCurrent(t)'
    BY <1>2, <1>3, <1>4 DEF TasksCurrent, Sound
<1>6. CancelledIsLive(t)'
    BY <1>2, <1>3, <1>4 DEF CancelledIsLive, Sound
<1>7. CancelsCurrent(t)'
    BY <1>2, <1>4 DEF CancelsCurrent, Sound
<1>8. SavedAgrees(t)' /\ SpoolKept(t)'
    BY <1>2 DEF SavedAgrees, SpoolKept, Sound, Owed
<1> QED
    BY <1>1, <1>5, <1>6, <1>7, <1>8 DEF Sound

(* The end of the task <<t, n>>: the record is saved with the state that it *)
(* leaves behind.                                                           *)
LEMMA EndStep ==
    ASSUME TransferAssumption, TypeOK, TypeOK', NEW t \in Transfers, NEW n \in Attempts,
           \A u \in Transfers : Sound(u), process # "down", Live(<<t, n>>),
           Goto(<<t, n>>, "done"), cancelled' = cancelled \ {<<t, n>>},
           rec'[t].state # "absent", rec[t].state # "absent",
           rec'[t].attempt = rec[t].attempt,
           <<t, n>> \in cancels => rec'[t].state \in Owed \cup {"cancelled"},
           t \in Uploads /\ rec'[t].state # "completed" => t \in spool /\ t \in spool',
           rec'[t].state = "completed" <=> saved'[t].state = "completed",
           \A u \in Transfers \ {t} : rec'[u] = rec[u] /\ (u \in spool' <=> u \in spool),
           saved' = rec' \/ UNCHANGED <<rec, saved>>,
           UNCHANGED <<process, tracked, cancels>>
    PROVE  \A u \in Transfers : Sound(u)'
<1>1. \A u \in Transfers \ {t} : Sound(u)'
    BY OthersUntouched DEF Goto, TypeOK
<1>2. Sound(t) /\ tracked[t] = n /\ rec[t].attempt = n
    BY DEF Sound, TasksCurrent
<1>3. /\ pc'[<<t, n>>] = "done"
      /\ \A m \in Attempts \ {n} : pc'[<<t, m>>] = pc[<<t, m>>]
    BY DEF Goto, TypeOK, Tasks
<1>4. \A m \in Attempts : /\ ~Live(<<t, m>>)' /\ pc'[<<t, m>>] # "scan"
                          /\ m # n => ~Live(<<t, m>>)
    BY <1>2, <1>3 DEF Sound, TasksCurrent, Live
<1>5. TasksCurrent(t)'
    BY <1>2, <1>4 DEF TasksCurrent
<1>6. CancelledIsLive(t)'
    BY <1>2, <1>3, <1>4 DEF CancelledIsLive, Sound
<1>7. CancelsCurrent(t)'
    BY <1>2, <1>4 DEF CancelsCurrent, Sound
<1>8. SavedAgrees(t)' /\ SpoolKept(t)'
    BY <1>2 DEF SavedAgrees, SpoolKept, Sound
<1> QED
    BY <1>1, <1>5, <1>6, <1>7, <1>8 DEF Sound

(* _schedule: a fresh attempt of a record that has no task.                 *)
LEMMA ScheduleStep ==
    ASSUME TransferAssumption, TypeOK, TypeOK', NEW t \in Transfers, NEW n \in Attempts,
           \A u \in Transfers : Sound(u), process = "up",
           \A m \in Attempts : ~Live(<<t, m>>) /\ <<t, m>> \notin cancels,
           Schedule(t, n),
           rec'[t].state = "queued", rec'[t].attempt = n, saved' = rec',
           t \in Uploads => t \in spool',
           \A u \in Transfers \ {t} : rec'[u] = rec[u] /\ (u \in spool' <=> u \in spool),
           UNCHANGED <<process, cancelled, cancels>>
    PROVE  \A u \in Transfers : Sound(u)'
<1>1. \A u \in Transfers \ {t} : Sound(u)'
    BY OthersUntouched DEF Schedule, Goto, TypeOK
<1>2. Sound(t)
    OBVIOUS
<1>3. /\ pc'[<<t, n>>] = "new" /\ tracked'[t] = n
      /\ \A m \in Attempts \ {n} : pc'[<<t, m>>] = pc[<<t, m>>]
    BY DEF Schedule, Goto, TypeOK, Tasks
<1>4. \A m \in Attempts : /\ pc'[<<t, m>>] # "scan" /\ <<t, m>> \notin cancelled
                          /\ m # n => ~Live(<<t, m>>)'
    BY <1>2, <1>3 DEF Sound, CancelledIsLive, Live
<1>5. TasksCurrent(t)'
    BY <1>3, <1>4 DEF TasksCurrent, Owed
<1>6. CancelledIsLive(t)' /\ CancelsCurrent(t)'
    BY <1>4 DEF CancelledIsLive, CancelsCurrent
<1>7. SavedAgrees(t)' /\ SpoolKept(t)'
    BY DEF SavedAgrees, SpoolKept
<1> QED
    BY <1>1, <1>5, <1>6, <1>7 DEF Sound

(* The loop and its tasks are gone, with the records as they were or as     *)
(* close() leaves them.                                                     *)
LEMMA DownStep ==
    ASSUME TransferAssumption, TypeOK, TypeOK', \A t \in Transfers : Sound(t), LoseLoop,
           spool' = spool,
           \/ UNCHANGED <<rec, saved>>
           \/ rec' = AsInterrupted(rec) /\ saved' = rec'
    PROVE  \A t \in Transfers : Sound(t)'
<1> SUFFICES ASSUME NEW t \in Transfers PROVE Sound(t)'
    OBVIOUS
<1>1. \A n \in Attempts : ~Live(<<t, n>>)' /\ pc'[<<t, n>>] # "scan"
    BY DEF LoseLoop, Live, Tasks
<1>2. TasksCurrent(t)' /\ CancelledIsLive(t)' /\ CancelsCurrent(t)'
    BY <1>1 DEF LoseLoop, TasksCurrent, CancelledIsLive, CancelsCurrent
<1>3. SavedAgrees(t)' /\ SpoolKept(t)'
    <2>1. Sound(t)
        OBVIOUS
    <2>2. CASE UNCHANGED <<rec, saved>>
        BY <2>1, <2>2 DEF Sound, SavedAgrees, SpoolKept
    <2>3. CASE rec' = AsInterrupted(rec) /\ saved' = rec'
        <3>1. /\ rec'[t].attempt = rec[t].attempt
              /\ rec[t].state \in Owed => rec'[t].state = "interrupted"
              /\ rec[t].state \notin Owed => rec'[t] = rec[t]
            BY <2>3, InterruptedRecords DEF TypeOK
        <3> QED
            BY <2>1, <2>3, <3>1 DEF Sound, SavedAgrees, SpoolKept, Owed
    <2> QED
        BY <2>2, <2>3
<1> QED
    BY <1>2, <1>3 DEF Sound

LEMMA SoundStep ==
    ASSUME TransferAssumption, ~OverlappingRequests, SafetyInv, [Next]_vars
    PROVE  SafetyInv'
<1>1. TypeOK /\ TypeOK' /\ TypeInv'
    BY TypeStep DEF SafetyInv, TypeInv
<1>2. \A t \in Transfers : Sound(t)
    BY DEF SafetyInv
<1>3. RecordsOfTasks /\ DownIsIdle
    BY DEF SafetyInv, TypeInv
<1>4. \A t \in Transfers, n \in Attempts : <<t, n>> \in Tasks
    BY DEF Tasks
<1>5. \A k \in Tasks : \E t \in Transfers, n \in Attempts : k = <<t, n>>
    BY DEF Tasks
<1> DEFINE SoundNext == \A t \in Transfers : Sound(t)'
<1>6. ASSUME NEW t \in Transfers, NEW path \in Paths, Register(t, path),
             spool' = spool \/ spool' = spool \cup {t}, t \in Uploads => t \in spool'
      PROVE  SoundNext
    <2>1. \A n \in Attempts : ~Live(<<t, n>>) /\ <<t, n>> \notin cancels
        BY <1>3, <1>4, <1>6 DEF Register, RecordsOfTasks
    <2>2. 0 \in Attempts
        BY DEF TransferAssumption, Attempts
    <2>3. /\ rec'[t].state = "queued" /\ rec'[t].attempt = 0
          /\ \A u \in Transfers \ {t} : rec'[u] = rec[u]
        BY <1>1, <1>6 DEF Register, TypeOK
    <2> QED
        BY <1>1, <1>2, <1>6, <2>1, <2>2, <2>3, ScheduleStep DEF Register, Persist
<1>7. ASSUME NEW t \in Transfers, EnqueueUpload(t) PROVE SoundNext
    <2>1. Register(t, BasePath(t)) /\ spool' = spool \cup {t} /\ t \in spool'
        BY <1>7 DEF EnqueueUpload
    <2>2. BasePath(t) \in Paths
        BY BaseIsPath
    <2> QED
        BY <1>6, <2>1, <2>2
<1>8. ASSUME NEW t \in Transfers, EnqueueDownload(t) PROVE SoundNext
    <2>1. PICK path \in Resolved(t, BasePath(t), disk) : Register(t, path)
        BY <1>8 DEF EnqueueDownload
    <2>2. path \in Paths
        BY BaseIsPath, ResolvedIsPath
    <2> QED
        BY <1>6, <1>8, <2>1, <2>2 DEF EnqueueDownload
<1>9. ASSUME NEW t \in Transfers, Retry(t) PROVE SoundNext
    <2>1. Sound(t)
        BY <1>2
    <2>2. /\ rec[t].state \in Retryable /\ process = "up" /\ t \in Uploads => t \in spool
          /\ rec[t].attempt + 1 \in Attempts
        BY <1>1, <1>9 DEF Retry, RetryFrom, TypeOK, Record, NoRecord, Attempts, TransferAssumption
    <2>3. \A n \in Attempts : ~Live(<<t, n>>) /\ <<t, n>> \notin cancels
        BY <1>9, <2>1, <2>2
        DEF Retry, RetryFrom, CancelPending, Sound, TasksCurrent, Retryable, Final, Owed
    <2>4. /\ rec'[t].state = "queued" /\ rec'[t].attempt = rec[t].attempt + 1
          /\ \A u \in Transfers \ {t} : rec'[u] = rec[u]
        BY <1>1, <1>9 DEF Retry, RetryFrom, TypeOK, Record, NoRecord
    <2> QED
        BY <1>1, <1>2, <1>9, <2>2, <2>3, <2>4, ScheduleStep DEF Retry, RetryFrom, Persist, fileVars
<1>10. ASSUME NEW t \in Transfers, Cancel(t) PROVE SoundNext
    <2>1. /\ Sound(t) /\ rec[t].state \in Owed /\ process = "up"
          /\ rec[t] \in Record /\ tracked[t] \in Attempts \cup {NoTask}
          /\ rec[t].attempt \in Attempts
        BY <1>1, <1>2, <1>10 DEF Cancel, TypeOK, Record, NoRecord, Owed
    <2>2. CASE tracked[t] = NoTask /\ MarkCancelled(t) /\ UNCHANGED <<cancelled, cancels>>
        <3>1. UNCHANGED <<process, pc, tracked, cancelled, cancels, spool>>
            BY <1>10, <2>2 DEF Cancel
        <3>2. /\ \A u \in Transfers \ {t} : rec'[u] = rec[u]
              /\ saved' = rec' /\ rec'[t].state = "cancelled"
              /\ rec'[t].attempt = rec[t].attempt
            BY <1>1, <2>1, <2>2 DEF MarkCancelled, SetState, Persist, TypeOK, Record, Owed, NoRecord
        <3>3. \A u \in Transfers \ {t} : Sound(u)'
            BY <1>1, <1>2, <2>1, <3>1, <3>2, OthersUntouched
        <3>4. \A n \in Attempts : n # NoTask
            BY DEF Attempts, NoTask, TransferAssumption
        <3>5. \A n \in Attempts : ~Live(<<t, n>>)
            BY <2>1, <2>2, <3>4 DEF Sound, TasksCurrent
        <3>6. Sound(t)'
            BY <2>1, <2>2, <3>1, <3>2, <3>5
            DEF Sound, TasksCurrent, CancelledIsLive, CancelsCurrent, SavedAgrees, SpoolKept, Live,
                Owed
        <3> QED
            BY <3>3, <3>6
    <2>3. CASE tracked[t] # NoTask /\ UNCHANGED <<rec, saved, part>>
        <3> DEFINE n == tracked[t]
        <3>1. /\ UNCHANGED <<process, pc, tracked, rec, saved, spool>>
              /\ cancelled' = (IF Live(<<t, n>>) THEN cancelled \cup {<<t, n>>} ELSE cancelled)
              /\ cancels' = cancels \cup {<<t, n>>}
            BY <1>10, <2>3 DEF Cancel
        <3>2. n \in Attempts /\ n = rec[t].attempt
            BY <2>1, <2>3 DEF Sound, TasksCurrent
        <3>3. \A u \in Transfers \ {t} : Sound(u)'
            BY <1>1, <1>2, <3>1, <3>2, OthersUntouched
        <3>4. pc[<<t, n>>] # "scan"
            BY <2>1, <3>2 DEF Sound, TasksCurrent, Owed
        <3>5. \A m \in Attempts : <<t, m>> \in cancels' => m = n
            BY <2>1, <3>1, <3>2 DEF Sound, CancelsCurrent
        <3>6. TasksCurrent(t)' /\ SavedAgrees(t)' /\ SpoolKept(t)'
            BY <2>1, <3>1 DEF Sound, TasksCurrent, SavedAgrees, SpoolKept, Live
        <3>7. CancelledIsLive(t)'
            BY <2>1, <3>1, <3>4 DEF Sound, CancelledIsLive, Live
        <3>8. CancelsCurrent(t)'
            BY <2>1, <3>1, <3>2, <3>5 DEF Sound, CancelsCurrent, Live
        <3> QED
            BY <3>3, <3>6, <3>7, <3>8 DEF Sound
    <2> QED
        BY <1>10, <2>2, <2>3 DEF Cancel
<1>11. ASSUME NEW t \in Transfers, NEW n \in Attempts, CancelReturns(<<t, n>>) PROVE SoundNext
    <2>1. /\ Sound(t) /\ process = "up" /\ <<t, n>> \in cancels /\ ~Live(<<t, n>>)
          /\ UNCHANGED <<process, pc, tracked, cancelled, spool>>
          /\ cancels' = cancels \ {<<t, n>>}
        BY <1>2, <1>11 DEF CancelReturns, Live
    <2>2. /\ rec[t].attempt = n /\ rec[t].state \in Owed \cup {"cancelled"}
          /\ t \in Uploads => t \in spool
        BY <2>1 DEF Sound, CancelsCurrent, SpoolKept, Owed
    <2>3. \A m \in Attempts : ~Live(<<t, m>>)
        BY <2>1, <2>2 DEF Sound, TasksCurrent
    <2>4. /\ \A u \in Transfers \ {t} : rec'[u] = rec[u]
          /\ saved' = rec' \/ UNCHANGED <<rec, saved>>
          /\ rec'[t].state = "cancelled" /\ rec'[t].attempt = n
        <3>1. <<t, n>>[1] = t /\ rec[t] \in Record
            BY <1>1 DEF TypeOK
        <3>2. CASE MarkCancelled(t)
            BY <1>1, <2>2, <3>1, <3>2
            DEF MarkCancelled, SetState, Persist, TypeOK, Record, Owed, NoRecord
        <3>3. CASE rec[t].state = "cancelled" /\ UNCHANGED <<rec, saved>>
            BY <2>2, <3>3
        <3> QED
            BY <1>11, <3>1, <3>2, <3>3 DEF CancelReturns
    <2>5. \A u \in Transfers \ {t} : Sound(u)'
        BY <1>1, <1>2, <2>1, <2>4, OthersUntouched
    <2>6. TasksCurrent(t)' /\ CancelledIsLive(t)' /\ CancelsCurrent(t)'
        BY <2>1, <2>2, <2>3, <2>4
        DEF Sound, TasksCurrent, CancelledIsLive, CancelsCurrent, Live
    <2>7. SavedAgrees(t)' /\ SpoolKept(t)'
        BY <2>1, <2>2, <2>4 DEF Sound, SavedAgrees, SpoolKept
    <2> QED
        BY <2>5, <2>6, <2>7 DEF Sound
<1>12. ASSUME NEW t \in Transfers, NEW n \in Attempts, TaskStep(<<t, n>>) PROVE SoundNext
    <2> DEFINE k == <<t, n>>
    <2>1. /\ k \in Tasks /\ k[1] = t /\ Live(k) /\ process # "down" /\ k \notin cancelled
          /\ UNCHANGED <<process, tracked, cancelled, cancels>>
        BY <1>4, <1>12
        DEF TaskStep, TaskStarts, TaskAcquires, AcquireBeside, DeviceReady,
            RemotePathResolved, TransferBegins, PushOpens, PushEnds, UploadVerified,
            UploadEnds, PullOpens, DownloadEnds, TaskFails, Resumes, Runs, Live,
            Stages, UploadStages, DownloadStages, requestVars
    <2>2. /\ Sound(t) /\ k \notin cancels /\ rec[t].state # "absent"
          /\ rec[t] \in [state : Owed \cup Final, attempt : Attempts, dest : Paths]
          /\ pc[k] # "scan" => rec[t].state \in Owed
          /\ rec[t].state \in Owed /\ t \in Uploads => t \in spool
        <3>1. Sound(t) /\ rec[t] \in Record /\ rec[t].state # "absent"
            BY <1>1, <1>2, <1>3, <2>1 DEF TypeOK, RecordsOfTasks
        <3> QED
            BY <2>1, <3>1 DEF Sound, TasksCurrent, CancelsCurrent, SpoolKept, Record, NoRecord,
               Owed
    <2>3. ASSUME NEW state \in Owed \cup Final, SetState(t, state)
          PROVE  /\ rec'[t].state = state /\ rec'[t].attempt = rec[t].attempt
                 /\ \A u \in Transfers \ {t} : rec'[u] = rec[u]
        BY <1>1, <2>2, <2>3 DEF SetState, TypeOK
    <2>4. ASSUME NEW path, rec' = [rec EXCEPT ![t].dest = path]
          PROVE  /\ rec'[t].state = rec[t].state /\ rec'[t].attempt = rec[t].attempt
                 /\ \A u \in Transfers \ {t} : rec'[u] = rec[u]
        BY <1>1, <2>2, <2>4 DEF TypeOK
    <2> DEFINE Advances(place) ==
            /\ place \in Places \ {"none", "done", "scan"} /\ Goto(k, place)
            /\ pc[k] # "scan" /\ spool' = spool /\ (saved' = saved \/ saved' = rec')
    <2>5. ASSUME NEW place, Advances(place), rec' = rec PROVE SoundNext
        BY <1>1, <1>2, <2>1, <2>2, <2>5, OwedStep
    <2>6. ASSUME NEW place, Advances(place), NEW state \in Owed, SetState(t, state)
          PROVE  SoundNext
        BY <1>1, <1>2, <2>1, <2>3, <2>6, OwedStep
    <2>7. ASSUME NEW place, Advances(place), NEW path, rec' = [rec EXCEPT ![t].dest = path]
          PROVE  SoundNext
        BY <1>1, <1>2, <2>1, <2>2, <2>4, <2>7, OwedStep
    <2> HIDE DEF SoundNext
    <2>8. CASE TaskStarts(k)
        BY <2>5, <2>8 DEF TaskStarts, fileVars, Places
    <2>9. CASE TaskAcquires(k)
        BY <2>1, <2>6, <2>9 DEF TaskAcquires, AcquireBeside, fileVars, Places, Holding, Stages, Owed,
           Persist
    <2>10. CASE DeviceReady(k)
        BY <2>1, <2>5, <2>7, <2>10 DEF DeviceReady, fileVars, Places, Holding, Stages, UploadStages,
           DownloadStages
    <2>11. CASE RemotePathResolved(k)
        BY <2>1, <2>7, <2>11 DEF RemotePathResolved, fileVars, Places, Holding, Stages, UploadStages
    <2>12. CASE TransferBegins(k)
        BY <2>1, <2>6, <2>12 DEF TransferBegins, fileVars, Places, Holding, Stages, UploadStages,
           DownloadStages, Owed, Persist
    <2>13. CASE PushOpens(k)
        BY <2>1, <2>5, <2>13 DEF PushOpens, Places, Holding, Stages, UploadStages
    <2>14. CASE PushEnds(k)
        BY <2>1, <2>6, <2>14 DEF PushEnds, Places, Holding, Stages, UploadStages, Owed
    <2>15. CASE PullOpens(k)
        BY <2>1, <2>5, <2>15 DEF PullOpens, Places, Holding, Stages, DownloadStages
    <2>16. CASE DownloadEnds(k)
        <3>1. SetState(t, "completed") /\ saved' = rec' /\ spool' = spool /\ Goto(k, "done")
              /\ "completed" \in Final
            BY <2>1, <2>16 DEF DownloadEnds, Persist, Final
        <3> QED
            BY <1>1, <1>2, <2>1, <2>2, <2>3, <3>1, EndStep DEF SoundNext
    <2>17. CASE TaskFails(k)
        <3>1. /\ SetState(t, "failed") /\ saved' = rec' /\ spool' = spool /\ Goto(k, "done")
              /\ "failed" \in Final /\ pc[k] # "scan"
            BY <2>1, <2>17
            DEF TaskFails, Persist, Final, Stages, UploadStages, DownloadStages
        <3> QED
            BY <1>1, <1>2, <2>1, <2>2, <2>3, <3>1, EndStep DEF SoundNext
    <2>18. CASE UploadEnds(k)
        <3>1. /\ saved' = rec' /\ rec' = rec /\ spool' = spool \ {t} /\ Goto(k, "done")
              /\ rec[t].state = "completed"
            BY <2>1, <2>2, <2>18 DEF UploadEnds, Persist, Sound, TasksCurrent
        <3> QED
            BY <1>1, <1>2, <2>1, <2>2, <3>1, EndStep DEF SoundNext
    <2>19. CASE UploadVerified(k)
        <3>1. /\ saved' = rec' /\ spool' = spool /\ Goto(k, "scan") /\ t \in spool
              /\ rec'[t].state = "completed" /\ rec'[t].attempt = rec[t].attempt
              /\ \A u \in Transfers \ {t} : rec'[u] = rec[u]
            BY <2>1, <2>3, <2>19 DEF UploadVerified, Persist, fileVars, Final
        <3>2. \A u \in Transfers \ {t} : Sound(u)'
            BY <1>1, <1>2, <2>1, <3>1, OthersUntouched DEF Goto, TypeOK
        <3>3. /\ pc'[k] = "scan" /\ tracked[t] = n /\ rec[t].attempt = n
              /\ \A m \in Attempts \ {n} : pc'[<<t, m>>] = pc[<<t, m>>]
            BY <1>1, <2>1, <2>2, <3>1 DEF Goto, TypeOK, Tasks, Sound, TasksCurrent
        <3>4. \A m \in Attempts : m # n => ~Live(<<t, m>>) /\ ~Live(<<t, m>>)'
            BY <2>2, <3>3 DEF Sound, TasksCurrent, Live
        <3>5. TasksCurrent(t)'
            BY <2>1, <3>1, <3>3, <3>4 DEF TasksCurrent, Live
        <3>6. CancelledIsLive(t)'
            BY <2>1, <2>2, <3>3, <3>4 DEF Sound, CancelledIsLive, Live
        <3>7. CancelsCurrent(t)'
            BY <2>1, <2>2, <3>3, <3>4 DEF Sound, CancelsCurrent
        <3>8. SavedAgrees(t)' /\ SpoolKept(t)'
            BY <3>1 DEF SavedAgrees, SpoolKept
        <3> QED
            BY <3>2, <3>5, <3>6, <3>7, <3>8 DEF Sound, SoundNext
    <2> QED
        BY <1>12, <2>8, <2>9, <2>10, <2>11, <2>12, <2>13, <2>14, <2>15, <2>16, <2>17, <2>18,
           <2>19 DEF TaskStep
<1>13. ASSUME NEW t \in Transfers, NEW n \in Attempts, CancelDelivered(<<t, n>>) PROVE SoundNext
    <2> DEFINE k == <<t, n>>
    <2>1. /\ k \in Tasks /\ k[1] = t /\ process # "down" /\ k \in cancelled /\ Sound(t) /\ Live(k)
          /\ UNCHANGED <<process, tracked, cancels, spool>>
          /\ cancelled' = cancelled \ {k} /\ Goto(k, "done")
        BY <1>2, <1>4, <1>13 DEF CancelDelivered, Sound, CancelledIsLive
    <2>2. /\ rec[t].state # "absent" /\ rec[t] \in Record
          /\ rec[t] \in [state : Owed \cup Final, attempt : Attempts, dest : Paths]
          /\ t \in Uploads => t \in spool
        <3>1. rec[t].state # "absent" /\ rec[t] \in Record
            BY <1>1, <1>3, <2>1 DEF RecordsOfTasks, TypeOK
        <3>2. rec[t].state \in Owed \/ (t \in Uploads => t \in spool)
            BY <2>1 DEF Sound, TasksCurrent
        <3> QED
            BY <2>1, <3>1, <3>2 DEF Sound, SpoolKept, Owed, Record, NoRecord
    <2>3. CASE pc[k] = "new" /\ UNCHANGED <<rec, saved>>
        <3>1. k \in cancels => rec[t].state \in Owed \cup {"cancelled"}
            BY <2>1 DEF Sound, CancelsCurrent
        <3>2. rec[t].state = "completed" <=> saved[t].state = "completed"
            BY <2>1 DEF Sound, SavedAgrees
        <3> QED
            BY <1>1, <1>2, <2>1, <2>2, <2>3, <3>1, <3>2, EndStep
    <2>4. CASE MarkCancelled(t)
        <3>1. /\ rec'[t].state = "cancelled" /\ rec'[t].attempt = rec[t].attempt /\ saved' = rec'
              /\ \A u \in Transfers \ {t} : rec'[u] = rec[u]
            BY <1>1, <2>2, <2>4 DEF MarkCancelled, SetState, Persist, TypeOK
        <3> QED
            BY <1>1, <1>2, <2>1, <2>2, <3>1, EndStep
    <2> QED
        BY <1>13, <2>1, <2>3, <2>4 DEF CancelDelivered
<1>14. ASSUME NEW t \in Transfers, NEW n \in Attempts, DiscardTask(<<t, n>>) PROVE SoundNext
    <2>1. /\ UNCHANGED <<process, rec, saved, pc, cancelled, cancels, spool>> /\ Sound(t)
          /\ tracked' = [tracked EXCEPT ![t] = NoTask] /\ tracked[t] = n /\ ~Live(<<t, n>>)
        BY <1>2, <1>14 DEF DiscardTask, fileVars, Live
    <2>2. \A u \in Transfers \ {t} : Sound(u)'
        BY <1>1, <1>2, <2>1, OthersUntouched DEF TypeOK
    <2>3. tracked'[t] = NoTask /\ \A m \in Attempts : ~Live(<<t, m>>)
        BY <1>1, <2>1 DEF Sound, TasksCurrent, TypeOK
    <2>4. TasksCurrent(t)'
        BY <2>1, <2>3 DEF Sound, TasksCurrent, Live
    <2>5. CancelledIsLive(t)' /\ CancelsCurrent(t)' /\ SavedAgrees(t)' /\ SpoolKept(t)'
        BY <2>1 DEF Sound, CancelledIsLive, CancelsCurrent, SavedAgrees, SpoolKept, Live
    <2> QED
        BY <2>2, <2>4, <2>5 DEF Sound
<1>15. ASSUME Close PROVE SoundNext
    <2> SUFFICES ASSUME NEW t \in Transfers PROVE Sound(t)'
        OBVIOUS
    <2>1. /\ Sound(t) /\ UNCHANGED <<rec, saved, pc, tracked, cancels, spool>> /\ cancels = {}
          /\ process = "up" /\ process' = "closing"
          /\ \A n \in Attempts : <<t, n>> \in cancelled' <=>
                \/ <<t, n>> \in cancelled
                \/ Live(<<t, n>>) /\ tracked[t] = n
        BY <1>2, <1>4, <1>15 DEF Close, fileVars
    <2>2. TasksCurrent(t)' /\ CancelsCurrent(t)' /\ SavedAgrees(t)' /\ SpoolKept(t)'
        BY <2>1 DEF Sound, TasksCurrent, CancelsCurrent, SavedAgrees, SpoolKept, Live
    <2>3. CancelledIsLive(t)'
        BY <2>1 DEF Sound, TasksCurrent, CancelledIsLive, Live
    <2> QED
        BY <2>2, <2>3 DEF Sound
<1>16. ASSUME CloseReturns PROVE SoundNext
    BY <1>1, <1>2, <1>16, DownStep DEF CloseReturns, Persist, fileVars
<1>17. ASSUME Crash PROVE SoundNext
    BY <1>1, <1>2, <1>17, DownStep DEF Crash, fileVars
<1>18. ASSUME NEW k \in Tasks, CrashAfterReplace(k) PROVE SoundNext
    BY <1>1, <1>2, <1>18, DownStep DEF CrashAfterReplace
<1>19. ASSUME Start PROVE SoundNext
    <2> SUFFICES ASSUME NEW t \in Transfers PROVE Sound(t)'
        OBVIOUS
    <2>1. /\ Sound(t) /\ process' = "up" /\ rec' = AsInterrupted(saved)
          /\ UNCHANGED <<saved, pc, tracked, cancelled, cancels, spool>>
        BY <1>2, <1>19 DEF Start, requestVars, fileVars
    <2>2. \A n \in Attempts : /\ pc'[<<t, n>>] = "none" /\ ~Live(<<t, n>>)'
                              /\ <<t, n>> \notin cancelled' /\ <<t, n>> \notin cancels'
        BY <1>3, <1>4, <1>19, <2>1 DEF Start, DownIsIdle, Live
    <2>3. /\ rec'[t].attempt = saved[t].attempt
          /\ saved[t].state \in Owed => rec'[t].state = "interrupted"
          /\ saved[t].state \notin Owed => rec'[t] = saved[t]
        BY <1>1, <2>1, InterruptedRecords DEF TypeOK
    <2>4. TasksCurrent(t)' /\ CancelledIsLive(t)' /\ CancelsCurrent(t)'
        BY <2>1, <2>2, <2>3 DEF Sound, TasksCurrent, SavedAgrees, CancelledIsLive, CancelsCurrent
    <2>5. SavedAgrees(t)' /\ SpoolKept(t)'
        BY <2>1, <2>3 DEF Sound, SavedAgrees, SpoolKept, Owed
    <2> QED
        BY <2>4, <2>5 DEF Sound
<1>20. ASSUME UNCHANGED vars PROVE SoundNext
    <2> SUFFICES ASSUME NEW t \in Transfers PROVE Sound(t)'
        OBVIOUS
    <2> QED
        BY <1>2, <1>20, Untouched DEF vars
<1>21. ASSUME NEW k \in Tasks, TaskStep(k) \/ LoopStep(k) PROVE SoundNext
    <2>1. PICK t \in Transfers, n \in Attempts : k = <<t, n>>
        BY <1>5
    <2> QED
        BY <1>11, <1>12, <1>13, <1>14, <1>21, <2>1 DEF LoopStep
<1>22. SoundNext
    BY <1>7, <1>8, <1>9, <1>10, <1>15, <1>16, <1>17, <1>18, <1>19, <1>20, <1>21 DEF Next, Request
<1> QED
    BY <1>1, <1>22 DEF SafetyInv

(* While no retry overlaps a cancel() of the same record: one task per      *)
(* record, at rest once it is final, an upload that can always be retried,  *)
(* and completions that neither a crash nor a restart loses or invents.     *)
LEMMA SafetyInvariant ==
    ASSUME TransferAssumption, ~OverlappingRequests
    PROVE  Spec => []SafetyInv
<1>1. Init => SafetyInv
    BY SoundInit
<1>2. SafetyInv /\ [Next]_vars => SafetyInv'
    BY SoundStep
<1> QED
    BY <1>1, <1>2, PTL DEF Spec

(* The cancel() and close() of a transfer reach its only task.              *)
THEOREM OneTaskPerRecord ==
    ASSUME TransferAssumption, ~OverlappingRequests
    PROVE  Spec => []SingleTask
BY SafetyInvariant, SoundImplies, PTL

(* A final record has no task that could still write to it.                 *)
THEOREM FinalRecordsAreIdle ==
    ASSUME TransferAssumption, ~OverlappingRequests
    PROVE  Spec => []FinalIsIdle
BY SafetyInvariant, SoundImplies, PTL

(* The spool file of an upload is there until the upload has completed.     *)
THEOREM UploadsStayRetryable ==
    ASSUME TransferAssumption, ~OverlappingRequests
    PROVE  Spec => []UploadStaysRetryable
BY SafetyInvariant, SoundImplies, PTL

(* The records and the state file agree on which transfers completed.       *)
THEOREM CompletionsAreDurable ==
    ASSUME TransferAssumption, ~OverlappingRequests
    PROVE  Spec => []CompletionDurable
BY SafetyInvariant, SoundImplies, PTL

-----------------------------------------------------------------------------
(* Partial files.  With SafetyInv, PartialIsOwned is inductive as soon as   *)
(* only downloads pull: a cancelled upload has no partial file to remove.   *)

OnlyDownloadsPull ==
    \A t \in Transfers, n \in Attempts : pc[<<t, n>>] \in DownloadStages => t \notin Uploads

PartialInv == PartialIsOwned /\ OnlyDownloadsPull

(* A step that no pull and no partial file takes part in.                   *)
LEMMA PartialsKept ==
    ASSUME TypeOK, PartialInv, part' = part,
           \A t \in Transfers, n \in Attempts :
               pc[<<t, n>>] = "pulling" =>
                   pc'[<<t, n>>] = "pulling" /\ rec'[t].dest = rec[t].dest,
           \A t \in Transfers, n \in Attempts :
               pc'[<<t, n>>] \in DownloadStages =>
                   pc[<<t, n>>] \in DownloadStages \/ t \notin Uploads
    PROVE  PartialInv'
<1>1. \A p \in part : p[1] \in Transfers
    BY DEF TypeOK
<1>2. OnlyDownloadsPull'
    BY DEF PartialInv, OnlyDownloadsPull
<1>3. PartialIsOwned'
    BY <1>1 DEF PartialInv, PartialIsOwned
<1> QED
    BY <1>2, <1>3 DEF PartialInv

(* The partial file of t goes, and with it every pull of t.                 *)
LEMMA PartialCleaned ==
    ASSUME TypeOK, PartialInv, NEW t \in Transfers,
           part' \subseteq part, t \notin Uploads => <<t, rec[t].dest>> \notin part',
           \A u \in Transfers \ {t}, n \in Attempts :
               pc'[<<u, n>>] = pc[<<u, n>>] /\ rec'[u] = rec[u],
           \A n \in Attempts : pc'[<<t, n>>] \in {pc[<<t, n>>], "done"}
    PROVE  PartialInv'
<1>1. OnlyDownloadsPull'
    BY DEF PartialInv, OnlyDownloadsPull, DownloadStages
<1>2. ASSUME NEW p \in part'
      PROVE  \E n \in Attempts : pc'[<<p[1], n>>] = "pulling" /\ rec'[p[1]].dest = p[2]
    <2>1. p = <<p[1], p[2]>> /\ p[1] \in Transfers
        BY <1>2 DEF TypeOK
    <2>2. PICK n \in Attempts : pc[<<p[1], n>>] = "pulling" /\ rec[p[1]].dest = p[2]
        BY <1>2 DEF PartialInv, PartialIsOwned
    <2>3. p[1] \notin Uploads
        BY <2>1, <2>2 DEF PartialInv, OnlyDownloadsPull, DownloadStages
    <2>4. p[1] # t
        BY <1>2, <2>1, <2>2, <2>3
    <2> QED
        BY <2>1, <2>2, <2>4
<1> QED
    BY <1>1, <1>2 DEF PartialInv, PartialIsOwned

(* Without a pull there is no partial file, and none appears.               *)
LEMMA NoPartials ==
    ASSUME PartialInv, TypeOK, part' = part,
           \A k \in Tasks : pc[k] # "pulling" /\ pc'[k] = "none"
    PROVE  PartialInv'
<1>1. \A t \in Transfers, n \in Attempts : <<t, n>> \in Tasks
    BY DEF Tasks
<1> QED
    BY <1>1, PartialsKept DEF DownloadStages

LEMMA PartialStep ==
    ASSUME TransferAssumption, ~MayCrash, SafetyInv, PartialInv, [Next]_vars
    PROVE  PartialInv'
<1>1. TypeOK /\ RecordsOfTasks /\ DownIsIdle /\ \A t \in Transfers : Sound(t)
    BY DEF SafetyInv, TypeInv
<1>2. \A t \in Transfers, n \in Attempts : <<t, n>> \in Tasks
    BY DEF Tasks
<1>3. \A k \in Tasks : \E t \in Transfers, n \in Attempts : k = <<t, n>>
    BY DEF Tasks
<1>4. ASSUME NEW t \in Transfers, NEW n \in Attempts, Schedule(t, n), part' = part,
             \A m \in Attempts : ~Live(<<t, m>>),
             \A u \in Transfers \ {t} : rec'[u] = rec[u]
      PROVE  PartialInv'
    <2>1. \A k \in Tasks : k # <<t, n>> => pc'[k] = pc[k]
        BY <1>1, <1>4 DEF Schedule, Goto, TypeOK
    <2>2. pc'[<<t, n>>] = "new"
        BY <1>1, <1>2, <1>4 DEF Schedule, Goto, TypeOK
    <2>3. \A m \in Attempts : pc[<<t, m>>] # "pulling"
        BY <1>4 DEF Live
    <2> QED
        BY <1>1, <1>2, <1>4, <2>1, <2>2, <2>3, PartialsKept DEF DownloadStages
<1>5. ASSUME NEW t \in Transfers, NEW path, Register(t, path) PROVE PartialInv'
    <2>1. \A n \in Attempts : ~Live(<<t, n>>)
        BY <1>1, <1>2, <1>5 DEF Register, RecordsOfTasks
    <2>2. 0 \in Attempts
        BY DEF TransferAssumption, Attempts
    <2> QED
        BY <1>1, <1>4, <1>5, <2>1, <2>2 DEF Register, TypeOK
<1>6. ASSUME NEW t \in Transfers, Retry(t) PROVE PartialInv'
    <2>1. \A n \in Attempts : ~Live(<<t, n>>)
        BY <1>1, <1>6 DEF Retry, RetryFrom, Sound, TasksCurrent, Retryable, Final, Owed
    <2>2. rec[t].attempt + 1 \in Attempts
        BY <1>1, <1>6 DEF Retry, RetryFrom, TypeOK, Record, NoRecord, Attempts,
           TransferAssumption, Retryable, Final
    <2> QED
        BY <1>1, <1>4, <1>6, <2>1, <2>2 DEF Retry, RetryFrom, fileVars, TypeOK
<1>7. ASSUME NEW t \in Transfers, MarkCancelled(t), UNCHANGED pc PROVE PartialInv'
    <2>1. /\ part' \subseteq part
          /\ t \notin Uploads => <<t, rec[t].dest>> \notin part'
          /\ \A u \in Transfers \ {t} : rec'[u] = rec[u]
        BY <1>1, <1>7 DEF MarkCancelled, CleanupPartial, SetState, TypeOK
    <2> QED
        BY <1>1, <1>7, <2>1, PartialCleaned
<1>8. CASE UNCHANGED <<part, pc, rec>>
    BY <1>1, <1>8, PartialsKept
<1>9. ASSUME NEW t \in Transfers, Cancel(t) PROVE PartialInv'
    BY <1>7, <1>8, <1>9 DEF Cancel
<1>10. ASSUME NEW t \in Transfers, NEW n \in Attempts, CancelReturns(<<t, n>>)
       PROVE  PartialInv'
    BY <1>7, <1>8, <1>10 DEF CancelReturns
<1>11. ASSUME NEW t \in Transfers, NEW n \in Attempts, NEW place, Goto(<<t, n>>, place)
       PROVE  /\ pc'[<<t, n>>] = place
              /\ \A k \in Tasks : k # <<t, n>> => pc'[k] = pc[k]
    BY <1>1, <1>2, <1>11 DEF Goto, TypeOK
<1>12. ASSUME NEW t \in Transfers, NEW n \in Attempts, NEW place, Goto(<<t, n>>, place),
              place \notin DownloadStages \/ t \notin Uploads,
              part' = part, pc[<<t, n>>] # "pulling",
              \A u \in Transfers : (\E m \in Attempts : pc[<<u, m>>] = "pulling")
                                      => rec'[u].dest = rec[u].dest
       PROVE  PartialInv'
    BY <1>1, <1>2, <1>11, <1>12, PartialsKept
<1>13. ASSUME NEW t \in Transfers, NEW n \in Attempts, Goto(<<t, n>>, "done"),
              part' \subseteq part, t \notin Uploads => <<t, rec[t].dest>> \notin part',
              \A u \in Transfers \ {t} : rec'[u] = rec[u]
       PROVE  PartialInv'
    BY <1>1, <1>2, <1>11, <1>13, PartialCleaned
<1>14. ASSUME NEW t \in Transfers, NEW n \in Attempts, CancelDelivered(<<t, n>>)
       PROVE  PartialInv'
    <2>1. Goto(<<t, n>>, "done")
        BY <1>14 DEF CancelDelivered
    <2>2. CASE pc[<<t, n>>] = "new" /\ UNCHANGED <<rec, saved, part>>
        BY <1>12, <2>1, <2>2 DEF DownloadStages
    <2>3. CASE MarkCancelled(t)
        <3>1. /\ part' \subseteq part
              /\ t \notin Uploads => <<t, rec[t].dest>> \notin part'
              /\ \A u \in Transfers \ {t} : rec'[u] = rec[u]
            BY <1>1, <2>3 DEF MarkCancelled, CleanupPartial, SetState, TypeOK
        <3> QED
            BY <1>13, <2>1, <3>1
    <2> QED
        BY <1>14, <2>2, <2>3 DEF CancelDelivered
<1>15. ASSUME NEW t \in Transfers, NEW n \in Attempts, TaskStep(<<t, n>>) PROVE PartialInv'
    <2> DEFINE k == <<t, n>>
    <2>1. Live(k) /\ k[1] = t
        BY <1>15
        DEF TaskStep, TaskStarts, TaskAcquires, AcquireBeside, DeviceReady,
            RemotePathResolved, TransferBegins, PushOpens, PushEnds, UploadVerified,
            UploadEnds, PullOpens, DownloadEnds, TaskFails, Live,
            Stages, UploadStages, DownloadStages
    <2>2. \A m \in Attempts : m # n => pc[<<t, m>>] # "pulling"
        BY <1>1, <2>1 DEF Sound, TasksCurrent, Live
    <2>3. ASSUME pc[k] # "pulling", \A u \in Transfers \ {t} : rec'[u] = rec[u]
          PROVE  \A u \in Transfers : (\E m \in Attempts : pc[<<u, m>>] = "pulling")
                                         => rec'[u].dest = rec[u].dest
        BY <2>2, <2>3
    <2>4. \A state : SetState(t, state) => \A u \in Transfers \ {t} : rec'[u] = rec[u]
        BY <1>1 DEF SetState, TypeOK
    <2>5. \A path : rec' = [rec EXCEPT ![t].dest = path] =>
                        \A u \in Transfers \ {t} : rec'[u] = rec[u]
        BY <1>1 DEF TypeOK
    <2>6. CASE TaskStarts(k)
        BY <1>12, <2>3, <2>6 DEF TaskStarts, fileVars, DownloadStages
    <2>7. CASE TaskAcquires(k)
        BY <1>12, <2>1, <2>3, <2>4, <2>7 DEF TaskAcquires, AcquireBeside, fileVars, DownloadStages
    <2>8. CASE DeviceReady(k)
        <3>1. /\ pc[k] = "device" /\ part' = part
              /\ \/ Goto(k, "resolve") /\ UNCHANGED rec
                 \/ /\ t \notin Uploads /\ Goto(k, "stat")
                    /\ \E path : rec' = [rec EXCEPT ![t].dest = path]
            BY <2>1, <2>8 DEF DeviceReady, fileVars
        <3>2. \A u \in Transfers \ {t} : rec'[u] = rec[u]
            BY <2>5, <3>1
        <3> QED
            BY <1>12, <2>3, <3>1, <3>2 DEF DownloadStages
    <2>9. CASE RemotePathResolved(k)
        <3>1. /\ pc[k] = "resolve" /\ part' = part /\ Goto(k, "mkdir")
              /\ \E path : rec' = [rec EXCEPT ![t].dest = path]
            BY <2>1, <2>9 DEF RemotePathResolved, fileVars
        <3> QED
            BY <1>12, <2>3, <2>5, <3>1 DEF DownloadStages
    <2>10. CASE TransferBegins(k)
        <3>1. \/ pc[k] = "mkdir" /\ Goto(k, "push")
              \/ pc[k] = "stat" /\ Goto(k, "pull") /\ t \notin Uploads
            BY <2>10 DEF TransferBegins, PartialInv, OnlyDownloadsPull, DownloadStages
        <3>2. part' = part /\ SetState(t, "transferring")
            BY <2>1, <2>10 DEF TransferBegins, fileVars
        <3> QED
            BY <1>12, <2>3, <2>4, <3>1, <3>2 DEF DownloadStages
    <2>11. CASE PushOpens(k)
        BY <1>12, <2>3, <2>11 DEF PushOpens, DownloadStages
    <2>12. CASE PushEnds(k)
        BY <1>12, <2>1, <2>3, <2>4, <2>12 DEF PushEnds, DownloadStages
    <2>13. CASE UploadVerified(k)
        BY <1>12, <2>1, <2>3, <2>4, <2>13 DEF UploadVerified, fileVars, DownloadStages
    <2>14. CASE UploadEnds(k)
        BY <1>12, <2>3, <2>14 DEF UploadEnds, DownloadStages
    <2>15. CASE PullOpens(k)
        <3>1. /\ pc[k] = "pull" /\ Goto(k, "pulling") /\ UNCHANGED rec
              /\ part' = part \cup {<<t, rec[t].dest>>} /\ t \notin Uploads
            BY <2>1, <2>15 DEF PullOpens, PartialInv, OnlyDownloadsPull, DownloadStages
        <3>2. pc'[k] = "pulling" /\ \A j \in Tasks : j # k => pc'[j] = pc[j]
            BY <1>11, <3>1
        <3>3. OnlyDownloadsPull'
            BY <1>2, <3>1, <3>2 DEF PartialInv, OnlyDownloadsPull
        <3>4. ASSUME NEW p \in part'
              PROVE  \E m \in Attempts : pc'[<<p[1], m>>] = "pulling" /\ rec'[p[1]].dest = p[2]
            <4>1. CASE p = <<t, rec[t].dest>>
                BY <3>1, <3>2, <4>1
            <4>2. CASE p \in part
                <5>1. PICK m \in Attempts : pc[<<p[1], m>>] = "pulling" /\ rec[p[1]].dest = p[2]
                    BY <4>2 DEF PartialInv, PartialIsOwned
                <5>2. <<p[1], m>> \in Tasks /\ <<p[1], m>> # k
                    BY <1>1, <1>2, <3>1, <4>2, <5>1 DEF TypeOK
                <5> QED
                    BY <3>1, <3>2, <5>1, <5>2
            <4> QED
                BY <3>1, <3>4, <4>1, <4>2
        <3> QED
            BY <3>3, <3>4 DEF PartialInv, PartialIsOwned
    <2>16. CASE DownloadEnds(k)
        <3>1. /\ Goto(k, "done") /\ SetState(t, "completed")
              /\ part' = part \ {<<t, rec[t].dest>>}
            BY <2>1, <2>16 DEF DownloadEnds, DownloadLands
        <3> QED
            BY <1>13, <2>4, <3>1
    <2>17. CASE TaskFails(k)
        <3>1. Goto(k, "done") /\ SetState(t, "failed") /\ CleanupPartial(t)
            BY <2>1, <2>17 DEF TaskFails
        <3>2. /\ part' \subseteq part
              /\ t \notin Uploads => <<t, rec[t].dest>> \notin part'
            BY <3>1 DEF CleanupPartial
        <3> QED
            BY <1>13, <2>4, <3>1, <3>2
    <2> QED
        BY <1>15, <2>6, <2>7, <2>8, <2>9, <2>10, <2>11, <2>12, <2>13, <2>14, <2>15, <2>16, <2>17
        DEF TaskStep
<1>16. CASE CloseReturns
    <2>1. \A k \in Tasks : pc[k] # "pulling"
        BY <1>1, <1>3, <1>16 DEF CloseReturns, Sound, TasksCurrent, Live
    <2>2. part' = part /\ \A k \in Tasks : pc'[k] = "none"
        BY <1>16 DEF CloseReturns, LoseLoop, fileVars
    <2> QED
        BY <1>1, <2>1, <2>2, NoPartials
<1>17. CASE Start
    <2>1. UNCHANGED <<part, pc>> /\ \A k \in Tasks : pc[k] = "none"
        BY <1>1, <1>17 DEF Start, DownIsIdle, fileVars
    <2> QED
        BY <1>1, <2>1, NoPartials
<1>18. CASE Close \/ UNCHANGED vars \/ \E k \in Tasks : DiscardTask(k)
    BY <1>8, <1>18 DEF Close, vars, DiscardTask, fileVars
<1>19. ASSUME NEW t \in Transfers, Request(t) PROVE PartialInv'
    BY <1>5, <1>6, <1>9, <1>19 DEF Request, EnqueueUpload, EnqueueDownload
<1>20. ASSUME NEW k \in Tasks, TaskStep(k) \/ LoopStep(k) \/ CrashAfterReplace(k)
       PROVE  PartialInv'
    BY <1>3, <1>10, <1>14, <1>15, <1>18, <1>20 DEF LoopStep, CrashAfterReplace
<1> QED
    BY <1>16, <1>17, <1>18, <1>19, <1>20 DEF Next, Crash

LEMMA PartialInvariant ==
    ASSUME TransferAssumption, ~OverlappingRequests, ~MayCrash
    PROVE  Spec => []PartialInv
<1>1. Init => PartialInv
    <2> SUFFICES ASSUME Init PROVE PartialInv
        OBVIOUS
    <2>1. \A t \in Transfers, n \in Attempts : pc[<<t, n>>] = "none"
        BY DEF Init, Tasks
    <2> QED
        BY <2>1 DEF Init, PartialInv, PartialIsOwned, OnlyDownloadsPull, DownloadStages
<1>2. SafetyInv /\ PartialInv /\ [Next]_vars => PartialInv'
    BY PartialStep
<1> QED
    BY <1>1, <1>2, SafetyInvariant, PTL DEF Spec

(* While no retry overlaps a cancel() and the process is not killed, every  *)
(* partial file belongs to the pull that is writing it: completion, failure *)
(* and cancellation each remove it (_run_download, _cleanup_partial).       *)
THEOREM PartialsAreOwned ==
    ASSUME TransferAssumption, ~OverlappingRequests, ~MayCrash
    PROVE  Spec => []PartialIsOwned
<1>1. PartialInv => PartialIsOwned
    BY DEF PartialInv
<1> QED
    BY <1>1, PartialInvariant, PTL

-----------------------------------------------------------------------------
(* Delivered files.  With one worker slot the transfer that holds it is the *)
(* only one that writes, so that a path found free stays free until it is   *)
(* written.                                                                 *)

NeverOverwrites == \A t \in Transfers : Policy[t] # "overwrite"

OneHolder == \A j, k \in Tasks : pc[j] \in Holding /\ pc[k] \in Holding => j = k

FilesOf(t) == IF t \in Uploads THEN phone ELSE disk

(* What was delivered is there, and the state file knows where.             *)
Kept(t) ==
    rec[t].state = "completed" => /\ saved[t] = rec[t]
                                  /\ rec[t].dest \in DOMAIN FilesOf(t)
                                  /\ FilesOf(t)[rec[t].dest] = t

(* The path of a task is free, then nobody's, then its own.                 *)
PathHeld(t, n) ==
    LET place == pc[<<t, n>>]  dest == rec[t].dest IN
    /\ place \in DownloadStages => t \notin Uploads /\ dest \notin DOMAIN disk
    /\ place \in UploadStages => t \in Uploads
    /\ place \in {"mkdir", "push"} => dest \notin DOMAIN phone
    /\ place = "pushing" =>
           \A u \in Uploads : rec[u].state = "completed" => rec[u].dest # dest
    /\ place = "verify" => dest \in DOMAIN phone /\ phone[dest] = t

IntactInv ==
    /\ OneHolder
    /\ \A t \in Transfers : Kept(t)
    /\ \A t \in Transfers, n \in Attempts : PathHeld(t, n)

(* A task comes to hold the slot only by taking it while it is free.        *)
LEMMA HolderStep ==
    ASSUME TransferAssumption, Concurrency = 1, TypeOK, OneHolder, [Next]_vars
    PROVE  OneHolder'
<1>1. ASSUME \A k \in Tasks : pc'[k] \in Holding => pc[k] \in Holding PROVE OneHolder'
    BY <1>1 DEF OneHolder
<1>2. ASSUME NEW k \in Tasks, NEW place, Goto(k, place), pc[k] \in Holding \/ place \notin Holding
      PROVE  OneHolder'
    BY <1>1, <1>2 DEF Goto, TypeOK
<1>3. ASSUME NEW t \in Transfers, Request(t) PROVE OneHolder'
    <2>1. CASE UNCHANGED pc
        BY <1>1, <2>1
    <2>2. ASSUME NEW n, Schedule(t, n) PROVE OneHolder'
        <3>1. \A k \in Tasks : pc'[k] = pc[k] \/ pc'[k] = "new"
            BY <2>2 DEF Schedule, Goto, TypeOK
        <3> QED
            BY <1>1, <3>1 DEF Holding, Stages, UploadStages, DownloadStages
    <2> QED
        BY <1>3, <2>1, <2>2
        DEF Request, EnqueueUpload, EnqueueDownload, Register, Retry, RetryFrom, Cancel
<1>4. ASSUME NEW k \in Tasks, TaskAcquires(k) PROVE OneHolder'
    <2>1. IsFiniteSet(Attempts) /\ IsFiniteSet(Tasks)
        <3>1. IsFiniteSet(Attempts)
            BY FS_Interval DEF TransferAssumption, Attempts
        <3> QED
            BY <3>1, FS_Product DEF TransferAssumption, Tasks
    <2> DEFINE holders == {j \in Tasks : pc[j] \in Holding}
    <2>2. IsFiniteSet(holders) /\ Cardinality(holders) < 1
        BY <1>4, <2>1, FS_Subset DEF TaskAcquires, AcquireBeside
    <2>3. holders = {}
        BY <2>2, FS_CardinalityType, FS_EmptySet
    <2>4. \A j \in Tasks : pc'[j] \in Holding => j = k
        BY <1>4, <2>3 DEF TaskAcquires, AcquireBeside, Goto, TypeOK
    <2> QED
        BY <2>4 DEF OneHolder
<1>5. ASSUME NEW k \in Tasks, TaskStep(k) PROVE OneHolder'
    <2> USE DEF Holding, Stages, UploadStages, DownloadStages
    <2>1. CASE TaskStarts(k)
        BY <1>2, <2>1 DEF TaskStarts
    <2>2. CASE DeviceReady(k)
        BY <1>2, <2>2 DEF DeviceReady
    <2>3. CASE RemotePathResolved(k) \/ TransferBegins(k)
        BY <1>2, <2>3 DEF RemotePathResolved, TransferBegins
    <2>4. CASE PushOpens(k) \/ PushEnds(k) \/ UploadVerified(k) \/ PullOpens(k)
        BY <1>2, <2>4 DEF PushOpens, PushEnds, UploadVerified, PullOpens
    <2>5. CASE UploadEnds(k) \/ DownloadEnds(k) \/ TaskFails(k)
        BY <1>2, <2>5 DEF UploadEnds, DownloadEnds, TaskFails
    <2> QED
        BY <1>4, <1>5, <2>1, <2>2, <2>3, <2>4, <2>5 DEF TaskStep
<1>6. ASSUME NEW k \in Tasks, LoopStep(k) PROVE OneHolder'
    <2>1. CASE CancelDelivered(k)
        BY <1>2, <2>1 DEF CancelDelivered, Holding, Stages, UploadStages, DownloadStages
    <2>2. CASE DiscardTask(k) \/ CancelReturns(k)
        BY <1>1, <2>2 DEF DiscardTask, CancelReturns
    <2> QED
        BY <1>6, <2>1, <2>2 DEF LoopStep
<1>7. CASE LoseLoop
    BY <1>1, <1>7 DEF LoseLoop, Holding, Stages, UploadStages, DownloadStages
<1>8. CASE Close \/ Start \/ UNCHANGED vars
    BY <1>1, <1>8 DEF Close, Start, vars
<1> QED
    BY <1>3, <1>5, <1>6, <1>7, <1>8 DEF Next, CloseReturns, Crash, CrashAfterReplace

(* The steps that write no file and settle no path.                         *)
LEMMA IntactQuietly ==
    ASSUME TransferAssumption, IntactInv, OneHolder', UNCHANGED <<disk, phone>>,
           \A k \in Tasks :
               \/ pc'[k] = pc[k]
               \/ pc'[k] \in {"none", "new", "waiting", "device", "done"}
               \/ pc[k] = "stat" /\ pc'[k] = "pull"
               \/ pc[k] = "pull" /\ pc'[k] = "pulling"
               \/ pc[k] = "mkdir" /\ pc'[k] = "push",
           \A t \in Transfers : rec'[t].state = "completed" =>
               /\ rec[t].state = "completed" /\ rec'[t] = rec[t]
               /\ saved'[t] \in {saved[t], rec[t]},
           \A t \in Transfers, n \in Attempts :
               pc'[<<t, n>>] \in UploadStages \cup DownloadStages => rec'[t].dest = rec[t].dest
    PROVE  IntactInv'
<1>1. \A t \in Transfers : Kept(t)'
    BY DEF IntactInv, Kept, FilesOf
<1>2. ASSUME NEW t \in Transfers, NEW n \in Attempts PROVE PathHeld(t, n)'
    <2>1. <<t, n>> \in Tasks /\ PathHeld(t, n)
        BY DEF Tasks, IntactInv
    <2>2. CASE pc'[<<t, n>>] \notin UploadStages \cup DownloadStages
        BY <2>2 DEF PathHeld, UploadStages, DownloadStages
    <2>3. CASE pc'[<<t, n>>] \in UploadStages \cup DownloadStages
        <3>1. rec'[t].dest = rec[t].dest
            BY <2>3
        <3>2. CASE pc'[<<t, n>>] = pc[<<t, n>>]
            <4>1. pc[<<t, n>>] = "pushing" => t \in Transfers /\ PathHeld(t, n)'
                <5> SUFFICES ASSUME pc[<<t, n>>] = "pushing" PROVE PathHeld(t, n)'
                    OBVIOUS
                <5>1. ASSUME NEW u \in Uploads, rec'[u].state = "completed"
                      PROVE  rec'[u].dest # rec'[t].dest
                    BY <2>1, <3>1, <5>1 DEF PathHeld, TransferAssumption
                <5> QED
                    BY <2>1, <3>1, <3>2, <5>1 DEF PathHeld, UploadStages, DownloadStages
            <4>2. CASE pc[<<t, n>>] # "pushing"
                BY <2>1, <3>1, <3>2, <4>2 DEF PathHeld
            <4> QED
                BY <4>1, <4>2
        <3>3. CASE pc'[<<t, n>>] # pc[<<t, n>>]
            BY <2>1, <2>3, <3>1, <3>3 DEF PathHeld, UploadStages, DownloadStages
        <3> QED
            BY <3>2, <3>3
    <2> QED
        BY <2>2, <2>3
<1> QED
    BY <1>1, <1>2 DEF IntactInv

(* The task <<t, n>> that holds the slot writes no file that was delivered: *)
(* what is left to say is said of its own path and record.                  *)
LEMMA IntactAlone ==
    ASSUME TransferAssumption, TypeOK, IntactInv, OneHolder', NEW t \in Transfers, NEW n \in Attempts,
           pc[<<t, n>>] \in Holding, NEW place, Goto(<<t, n>>, place),
           \A u \in Transfers \ {t} : rec'[u] = rec[u], saved' = saved \/ saved' = rec',
           \A u \in Transfers \ {t} : rec[u].state = "completed" =>
               /\ rec[u].dest \in DOMAIN FilesOf(u)'
               /\ FilesOf(u)'[rec[u].dest] = u,
           Kept(t)', PathHeld(t, n)'
    PROVE  IntactInv'
<1>1. \A u \in Transfers, m \in Attempts : <<u, m>> \in Tasks
    BY DEF Tasks
<1>2. ASSUME NEW u \in Transfers PROVE Kept(u)'
    BY <1>2 DEF IntactInv, Kept
<1>3. ASSUME NEW u \in Transfers, NEW m \in Attempts PROVE PathHeld(u, m)'
    <2>1. CASE <<u, m>> = <<t, n>>
        BY <2>1
    <2>2. CASE <<u, m>> # <<t, n>>
        <3>1. pc'[<<u, m>>] = pc[<<u, m>>] /\ pc[<<u, m>>] \notin Holding
            BY <1>1, <2>2 DEF Goto, TypeOK, IntactInv, OneHolder
        <3> QED
            BY <3>1 DEF PathHeld, Holding, Stages, UploadStages, DownloadStages
    <2> QED
        BY <2>1, <2>2
<1> QED
    BY <1>2, <1>3 DEF IntactInv

LEMMA IntactStep ==
    ASSUME TransferAssumption, Concurrency = 1, ~OverlappingRequests, NeverOverwrites,
           SafetyInv, IntactInv, [Next]_vars
    PROVE  IntactInv'
<1>1. TypeOK /\ RecordsOfTasks /\ DownIsIdle /\ \A t \in Transfers : Sound(t)
    BY DEF SafetyInv, TypeInv
<1>2. \A t \in Transfers, n \in Attempts : <<t, n>> \in Tasks
    BY DEF Tasks
<1>3. \A k \in Tasks : \E t \in Transfers, n \in Attempts : k = <<t, n>>
    BY DEF Tasks
<1>4. OneHolder'
    BY <1>1, HolderStep DEF IntactInv
<1> DEFINE Moves(j) ==
            \/ pc'[j] = pc[j]
            \/ pc'[j] \in {"none", "new", "waiting", "device", "done"}
            \/ pc[j] = "stat" /\ pc'[j] = "pull"
            \/ pc[j] = "pull" /\ pc'[j] = "pulling"
            \/ pc[j] = "mkdir" /\ pc'[j] = "push"
<1>5. ASSUME NEW t \in Transfers, UNCHANGED <<disk, phone>>, \A j \in Tasks : Moves(j),
             \A u \in Transfers \ {t} : rec'[u] = rec[u], saved' = saved \/ saved' = rec',
             rec'[t].state # "completed" \/ rec'[t] = rec[t],
             \/ rec'[t].dest = rec[t].dest
             \/ \A m \in Attempts : pc'[<<t, m>>] \notin UploadStages \cup DownloadStages
      PROVE  IntactInv'
    <2>1. \A u \in Transfers : rec'[u].state = "completed" =>
             /\ rec[u].state = "completed" /\ rec'[u] = rec[u]
             /\ saved'[u] \in {saved[u], rec[u]}
        BY <1>5
    <2>2. \A u \in Transfers, m \in Attempts :
             pc'[<<u, m>>] \in UploadStages \cup DownloadStages => rec'[u].dest = rec[u].dest
        BY <1>5
    <2> HIDE DEF Moves
    <2>3. \A j \in Tasks : Moves(j)
        BY <1>5
    <2> QED
        BY <1>4, <1>5, <2>1, <2>2, <2>3, IntactQuietly DEF Moves
<1>6. ASSUME NEW t \in Transfers, NEW n \in Attempts, NEW place, Goto(<<t, n>>, place)
      PROVE  /\ pc'[<<t, n>>] = place
             /\ \A k \in Tasks : k # <<t, n>> => pc'[k] = pc[k]
    BY <1>1, <1>2, <1>6 DEF Goto, TypeOK
<1>7. ASSUME NEW t \in Transfers, NEW n \in Attempts, Schedule(t, n), UNCHANGED <<disk, phone>>,
             \A m \in Attempts : ~Live(<<t, m>>), rec'[t].state = "queued", saved' = rec',
             \A u \in Transfers \ {t} : rec'[u] = rec[u]
      PROVE  IntactInv'
    <2>1. pc'[<<t, n>>] = "new" /\ \A k \in Tasks : k # <<t, n>> => pc'[k] = pc[k]
        BY <1>6, <1>7 DEF Schedule
    <2>2. \A m \in Attempts : pc'[<<t, m>>] \notin UploadStages \cup DownloadStages
        BY <1>2, <1>7, <2>1 DEF Live, UploadStages, DownloadStages
    <2> QED
        BY <1>5, <1>7, <2>1, <2>2
<1>8. ASSUME NEW t \in Transfers, EnqueueUpload(t) \/ EnqueueDownload(t) PROVE IntactInv'
    <2>1. PICK path : Register(t, path)
        BY <1>8 DEF EnqueueUpload, EnqueueDownload
    <2>2. \A n \in Attempts : ~Live(<<t, n>>)
        BY <1>1, <1>2, <2>1 DEF Register, RecordsOfTasks
    <2>3. 0 \in Attempts
        BY DEF TransferAssumption, Attempts
    <2>4. rec'[t].state = "queued" /\ \A u \in Transfers \ {t} : rec'[u] = rec[u]
        BY <1>1, <2>1 DEF Register, TypeOK
    <2> QED
        BY <1>7, <2>1, <2>2, <2>3, <2>4 DEF Register, Persist
<1>9. ASSUME NEW t \in Transfers, Retry(t) PROVE IntactInv'
    <2>1. \A n \in Attempts : ~Live(<<t, n>>)
        BY <1>1, <1>9 DEF Retry, RetryFrom, Sound, TasksCurrent, Retryable, Final, Owed
    <2>2. rec[t] \in [state : Owed \cup Final, attempt : Attempts, dest : Paths]
        BY <1>1, <1>9 DEF Retry, RetryFrom, TypeOK, Record, NoRecord, Retryable, Final
    <2>3. rec[t].attempt + 1 \in Attempts
        BY <1>9, <2>2 DEF Retry, RetryFrom, Attempts, TransferAssumption
    <2>4. rec'[t].state = "queued" /\ \A u \in Transfers \ {t} : rec'[u] = rec[u]
        BY <1>1, <1>9, <2>2 DEF Retry, RetryFrom, TypeOK
    <2> QED
        BY <1>7, <1>9, <2>1, <2>3, <2>4 DEF Retry, RetryFrom, Persist, fileVars
<1>10. ASSUME NEW t \in Transfers, rec[t].state # "absent", MarkCancelled(t)
       PROVE  /\ rec'[t].state = "cancelled" /\ rec'[t].dest = rec[t].dest /\ saved' = rec'
              /\ \A u \in Transfers \ {t} : rec'[u] = rec[u]
    <2>1. rec[t] \in [state : Owed \cup Final, attempt : Attempts, dest : Paths]
        BY <1>1, <1>10 DEF TypeOK, Record, NoRecord
    <2> QED
        BY <1>1, <1>10, <2>1 DEF MarkCancelled, SetState, Persist, TypeOK
<1>11. CASE UNCHANGED <<pc, rec, saved, disk, phone>>
    BY <1>4, <1>11, IntactQuietly
<1>12. ASSUME NEW t \in Transfers, Cancel(t) PROVE IntactInv'
    <2>1. rec[t].state # "absent" /\ UNCHANGED <<pc, disk, phone>>
        BY <1>12 DEF Cancel, Owed
    <2> QED
        BY <1>5, <1>10, <1>11, <1>12, <2>1 DEF Cancel
<1>13. ASSUME NEW t \in Transfers, NEW n \in Attempts, CancelReturns(<<t, n>>) PROVE IntactInv'
    <2>1. rec[t].state # "absent" /\ UNCHANGED <<pc, disk, phone>>
        BY <1>1, <1>13 DEF CancelReturns, Sound, CancelsCurrent, Owed
    <2> QED
        BY <1>5, <1>10, <1>11, <1>13, <2>1 DEF CancelReturns
<1>14. ASSUME NEW t \in Transfers, NEW n \in Attempts, CancelDelivered(<<t, n>>) PROVE IntactInv'
    <2>1. Goto(<<t, n>>, "done") /\ UNCHANGED <<disk, phone>> /\ rec[t].state # "absent"
        BY <1>1, <1>2, <1>14 DEF CancelDelivered, RecordsOfTasks
    <2>2. CASE UNCHANGED <<rec, saved, part>>
        BY <1>5, <1>6, <2>1, <2>2
    <2>3. CASE MarkCancelled(t)
        BY <1>5, <1>6, <1>10, <2>1, <2>3
    <2> QED
        BY <1>14, <2>2, <2>3 DEF CancelDelivered
<1>15. ASSUME NEW t \in Transfers, NEW n \in Attempts, TaskStep(<<t, n>>) PROVE IntactInv'
    <2> DEFINE k == <<t, n>>
    <2>1. k \in Tasks /\ k[1] = t /\ Live(k)
        BY <1>2, <1>15
        DEF TaskStep, TaskStarts, TaskAcquires, AcquireBeside, DeviceReady,
            RemotePathResolved, TransferBegins, PushOpens, PushEnds, UploadVerified,
            UploadEnds, PullOpens, DownloadEnds, TaskFails, Live,
            Stages, UploadStages, DownloadStages
    <2>2. /\ rec[t] \in [state : Owed \cup Final, attempt : Attempts, dest : Paths]
          /\ pc[k] # "scan" => rec[t].state \in Owed
        BY <1>1, <2>1 DEF RecordsOfTasks, TypeOK, Record, NoRecord, Sound, TasksCurrent
    <2>3. ASSUME NEW state, SetState(t, state)
          PROVE  /\ rec'[t].state = state /\ rec'[t].dest = rec[t].dest
                 /\ \A u \in Transfers \ {t} : rec'[u] = rec[u]
        BY <1>1, <2>2, <2>3 DEF SetState, TypeOK
    <2>4. ASSUME NEW path, rec' = [rec EXCEPT ![t].dest = path]
          PROVE  /\ rec'[t].state = rec[t].state /\ rec'[t].dest = path
                 /\ \A u \in Transfers \ {t} : rec'[u] = rec[u]
        BY <1>1, <2>2, <2>4 DEF TypeOK
    <2>5. /\ PathHeld(t, n)
          /\ \A u \in Transfers \ {t} : rec[u].state = "completed" =>
                rec[u].dest \in DOMAIN FilesOf(u) /\ FilesOf(u)[rec[u].dest] = u
        BY DEF IntactInv, Kept
    <2>6. ASSUME UNCHANGED <<disk, phone>> PROVE \A u \in Transfers : FilesOf(u)' = FilesOf(u)
        BY <2>6 DEF FilesOf
    <2>8. CASE TaskStarts(k)
        BY <1>5, <1>6, <2>8 DEF TaskStarts, fileVars
    <2>9. CASE TaskAcquires(k)
        <3>1. /\ SetState(t, "preparing") /\ saved' = rec' /\ Goto(k, "device")
              /\ UNCHANGED <<disk, phone>>
            BY <2>1, <2>9 DEF TaskAcquires, AcquireBeside, Persist, fileVars
        <3> QED
            BY <1>5, <1>6, <2>3, <3>1
    <2>10. CASE DeviceReady(k)
        <3>1. /\ pc[k] = "device" /\ UNCHANGED <<saved, disk, phone>>
              /\ \/ t \in Uploads /\ Goto(k, "resolve") /\ UNCHANGED rec
                 \/ /\ t \notin Uploads /\ Goto(k, "stat")
                    /\ \E path \in Resolved(t, rec[t].dest, disk) : rec' = [rec EXCEPT ![t].dest = path]
            BY <2>1, <2>10 DEF DeviceReady, fileVars
        <3>2. pc[k] \in Holding /\ rec[t].state # "completed"
            BY <2>2, <3>1 DEF Holding, Stages, Owed
        <3>3. CASE t \in Uploads /\ Goto(k, "resolve") /\ UNCHANGED rec
            <4>1. PathHeld(t, n)' /\ Kept(t)'
                BY <1>6, <3>2, <3>3 DEF PathHeld, Kept, UploadStages, DownloadStages
            <4> QED
                BY <1>1, <1>4, <2>5, <2>6, <3>1, <3>2, <3>3, <4>1, IntactAlone
        <3>4. ASSUME t \notin Uploads, Goto(k, "stat"), NEW path \in Resolved(t, rec[t].dest, disk),
                     rec' = [rec EXCEPT ![t].dest = path]
              PROVE  IntactInv'
            <4>1. path \notin DOMAIN disk
                BY <3>4 DEF Resolved, NeverOverwrites
            <4>2. PathHeld(t, n)' /\ Kept(t)'
                <5>1. rec'[t].dest = path /\ rec'[t].state # "completed"
                    BY <2>4, <3>2, <3>4
                <5>2. pc'[k] = "stat" /\ disk' = disk
                    BY <1>6, <3>1, <3>4
                <5> QED
                    BY <3>4, <4>1, <5>1, <5>2 DEF PathHeld, Kept, UploadStages, DownloadStages
            <4> QED
                BY <1>1, <1>4, <2>4, <2>5, <2>6, <3>1, <3>2, <3>4, <4>2, IntactAlone
        <3> QED
            BY <3>1, <3>3, <3>4
    <2>11. CASE RemotePathResolved(k)
        <3>1. /\ pc[k] = "resolve" /\ UNCHANGED <<saved, disk, phone>> /\ Goto(k, "mkdir")
              /\ \E path \in Resolved(t, rec[t].dest, phone) : rec' = [rec EXCEPT ![t].dest = path]
            BY <2>1, <2>11 DEF RemotePathResolved, fileVars
        <3>2. PICK path \in Resolved(t, rec[t].dest, phone) : rec' = [rec EXCEPT ![t].dest = path]
            BY <3>1
        <3>3. pc[k] \in Holding /\ rec[t].state # "completed"
            BY <2>2, <3>1 DEF Holding, Stages, UploadStages, Owed
        <3>4. path \notin DOMAIN phone /\ t \in Uploads
            BY <2>5, <3>1 DEF Resolved, NeverOverwrites, PathHeld, UploadStages
        <3>5. PathHeld(t, n)' /\ Kept(t)'
            <4>1. rec'[t].dest = path /\ rec'[t].state # "completed"
                BY <2>4, <3>2, <3>3
            <4>2. pc'[k] = "mkdir" /\ phone' = phone
                BY <1>6, <3>1
            <4> QED
                BY <3>4, <4>1, <4>2 DEF PathHeld, Kept, UploadStages, DownloadStages
        <3> QED
            BY <1>1, <1>4, <2>4, <2>5, <2>6, <3>1, <3>2, <3>3, <3>5, IntactAlone
    <2>12. CASE TransferBegins(k)
        <3>1. /\ SetState(t, "transferring") /\ saved' = rec' /\ UNCHANGED <<disk, phone>>
              /\ \/ pc[k] = "mkdir" /\ Goto(k, "push")
                 \/ pc[k] = "stat" /\ Goto(k, "pull")
            BY <2>1, <2>12 DEF TransferBegins, Persist, fileVars
        <3> QED
            BY <1>5, <1>6, <2>3, <3>1
    <2>13. CASE PullOpens(k)
        BY <1>5, <1>6, <2>13 DEF PullOpens
    <2>14. CASE PushOpens(k)
        <3>1. /\ pc[k] = "push" /\ Goto(k, "pushing") /\ UNCHANGED <<rec, saved, disk>>
              /\ phone' = Written(phone, rec[t].dest, Partial)
            BY <2>1, <2>14 DEF PushOpens
        <3>2. pc[k] \in Holding /\ rec[t].state # "completed" /\ t \in Uploads
              /\ rec[t].dest \notin DOMAIN phone
            BY <2>2, <2>5, <3>1 DEF Holding, Stages, UploadStages, Owed, PathHeld
        <3>3. \A u \in Transfers \ {t} : rec[u].state = "completed" =>
                 rec[u].dest \in DOMAIN FilesOf(u)' /\ FilesOf(u)'[rec[u].dest] = u
            BY <2>5, <3>1, <3>2 DEF FilesOf, Written
        <3>4. \A u \in Uploads : rec[u].state = "completed" => rec[u].dest # rec[t].dest
            BY <2>5, <3>2 DEF FilesOf, TransferAssumption
        <3>5. PathHeld(t, n)' /\ Kept(t)'
            BY <1>6, <3>1, <3>2, <3>4 DEF PathHeld, Kept, UploadStages, DownloadStages
        <3> QED
            BY <1>1, <1>4, <3>1, <3>2, <3>3, <3>5, IntactAlone
    <2>15. CASE PushEnds(k)
        <3>1. /\ pc[k] = "pushing" /\ Goto(k, "verify") /\ UNCHANGED <<saved, disk>>
              /\ phone' = Written(phone, rec[t].dest, t) /\ SetState(t, "verifying")
            BY <2>1, <2>15 DEF PushEnds
        <3>2. pc[k] \in Holding /\ t \in Uploads
              /\ \A u \in Uploads : rec[u].state = "completed" => rec[u].dest # rec[t].dest
            BY <2>5, <3>1 DEF Holding, Stages, UploadStages, PathHeld
        <3>3. \A u \in Transfers \ {t} : rec[u].state = "completed" =>
                 rec[u].dest \in DOMAIN FilesOf(u)' /\ FilesOf(u)'[rec[u].dest] = u
            BY <2>5, <3>1, <3>2 DEF FilesOf, Written
        <3>4. PathHeld(t, n)' /\ Kept(t)'
            BY <1>6, <2>3, <3>1, <3>2 DEF PathHeld, Kept, UploadStages, DownloadStages, Written
        <3> QED
            BY <1>1, <1>4, <2>3, <3>1, <3>2, <3>3, <3>4, IntactAlone
    <2>16. CASE UploadVerified(k)
        <3>1. /\ pc[k] = "verify" /\ Goto(k, "scan") /\ SetState(t, "completed") /\ saved' = rec'
              /\ UNCHANGED <<disk, phone>>
            BY <2>1, <2>16 DEF UploadVerified, Persist, fileVars
        <3>2. /\ pc[k] \in Holding /\ t \in Uploads
              /\ rec[t].dest \in DOMAIN phone /\ phone[rec[t].dest] = t
            BY <2>5, <3>1 DEF Holding, Stages, UploadStages, PathHeld
        <3>3. PathHeld(t, n)' /\ Kept(t)'
            BY <1>6, <2>3, <3>1, <3>2 DEF PathHeld, Kept, UploadStages, DownloadStages, FilesOf
        <3> QED
            BY <1>1, <1>4, <2>3, <2>5, <2>6, <3>1, <3>2, <3>3, IntactAlone
    <2>17. CASE UploadEnds(k)
        BY <1>5, <1>6, <2>1, <2>17 DEF UploadEnds, Persist
    <2>18. CASE DownloadEnds(k)
        <3>1. /\ pc[k] = "pulling" /\ Goto(k, "done") /\ SetState(t, "completed") /\ saved' = rec'
              /\ disk' = Written(disk, rec[t].dest, t) /\ phone' = phone
            BY <2>1, <2>18 DEF DownloadEnds, DownloadLands, Persist
        <3>2. pc[k] \in Holding /\ t \notin Uploads /\ rec[t].dest \notin DOMAIN disk
            BY <2>5, <3>1 DEF Holding, Stages, DownloadStages, PathHeld
        <3>3. \A u \in Transfers \ {t} : rec[u].state = "completed" =>
                 rec[u].dest \in DOMAIN FilesOf(u)' /\ FilesOf(u)'[rec[u].dest] = u
            BY <2>5, <3>1, <3>2 DEF FilesOf, Written
        <3>4. PathHeld(t, n)' /\ Kept(t)'
            BY <1>6, <2>3, <3>1, <3>2 DEF PathHeld, Kept, UploadStages, DownloadStages, FilesOf, Written
        <3> QED
            BY <1>1, <1>4, <2>3, <3>1, <3>2, <3>3, <3>4, IntactAlone
    <2>19. CASE TaskFails(k)
        BY <1>5, <1>6, <2>1, <2>3, <2>19 DEF TaskFails, Persist
    <2> QED
        BY <1>15, <2>8, <2>9, <2>10, <2>11, <2>12, <2>13, <2>14, <2>15, <2>16, <2>17, <2>18, <2>19
        DEF TaskStep
<1>16. CASE CloseReturns
    <2>1. \A u \in Transfers : rec[u].state \in Owed => rec'[u].state = "interrupted"
        BY <1>1, <1>16, InterruptedRecords DEF CloseReturns, TypeOK
    <2>2. \A u \in Transfers : rec[u].state \notin Owed => rec'[u] = rec[u]
        BY <1>1, <1>16, InterruptedRecords DEF CloseReturns, TypeOK
    <2>3. /\ saved' = rec' /\ UNCHANGED <<disk, phone>> /\ \A j \in Tasks : pc'[j] = "none"
        BY <1>16 DEF CloseReturns, Persist, LoseLoop, fileVars
    <2>4. \A u \in Transfers : rec'[u].state = "completed" =>
             rec[u].state = "completed" /\ rec'[u] = rec[u] /\ saved'[u] \in {saved[u], rec[u]}
        BY <2>1, <2>2, <2>3
    <2> QED
        BY <1>2, <1>4, <2>3, <2>4, IntactQuietly DEF UploadStages, DownloadStages
<1>17. CASE Start
    <2>1. /\ \A u \in Transfers : saved[u].state \in Owed => rec'[u].state = "interrupted"
          /\ \A u \in Transfers : saved[u].state \notin Owed => rec'[u] = saved[u]
        BY <1>1, <1>17, InterruptedRecords DEF Start, TypeOK
    <2>2. UNCHANGED <<saved, disk, phone, pc>> /\ \A j \in Tasks : pc[j] = "none"
        BY <1>1, <1>17 DEF Start, fileVars, DownIsIdle
    <2>3. ASSUME NEW u \in Transfers, rec'[u].state = "completed"
          PROVE  rec[u].state = "completed" /\ rec'[u] = rec[u]
        <3>1. saved[u].state = "completed" /\ rec'[u] = saved[u]
            BY <2>1, <2>3
        <3>2. rec[u].state = "completed" /\ Kept(u)
            BY <1>1, <3>1 DEF Sound, SavedAgrees, IntactInv
        <3> QED
            BY <3>1, <3>2 DEF Kept
    <2> QED
        BY <1>2, <1>4, <2>2, <2>3, IntactQuietly DEF UploadStages, DownloadStages
<1>18. CASE Crash
    <2>1. UNCHANGED <<rec, saved, disk, phone>> /\ \A j \in Tasks : pc'[j] = "none"
        BY <1>18 DEF Crash, LoseLoop, fileVars
    <2> QED
        BY <1>2, <1>4, <2>1, IntactQuietly DEF UploadStages, DownloadStages
<1>19. ASSUME NEW t \in Transfers, NEW n \in Attempts, CrashAfterReplace(<<t, n>>) PROVE IntactInv'
    <2>1. /\ pc[<<t, n>>] = "pulling" /\ disk' = Written(disk, rec[t].dest, t)
          /\ UNCHANGED <<rec, saved, phone>> /\ \A j \in Tasks : pc'[j] = "none"
        BY <1>19 DEF CrashAfterReplace, LoseLoop, DownloadLands
    <2>2. rec[t].dest \notin DOMAIN disk
        BY <2>1 DEF IntactInv, PathHeld, DownloadStages
    <2>3. ASSUME NEW u \in Transfers PROVE Kept(u)'
        BY <2>1, <2>2, <2>3 DEF IntactInv, Kept, FilesOf, Written
    <2>4. ASSUME NEW u \in Transfers, NEW m \in Attempts PROVE PathHeld(u, m)'
        BY <1>2, <2>1 DEF PathHeld, UploadStages, DownloadStages
    <2> QED
        BY <1>4, <2>3, <2>4 DEF IntactInv
<1>20. CASE Close \/ UNCHANGED vars \/ \E k \in Tasks : DiscardTask(k)
    BY <1>11, <1>20 DEF Close, vars, DiscardTask, fileVars
<1>21. ASSUME NEW k \in Tasks, TaskStep(k) \/ LoopStep(k) \/ CrashAfterReplace(k) PROVE IntactInv'
    BY <1>3, <1>13, <1>14, <1>15, <1>19, <1>20, <1>21 DEF LoopStep
<1> QED
    BY <1>8, <1>9, <1>12, <1>16, <1>17, <1>18, <1>20, <1>21 DEF Next, Request

LEMMA IntactInvariant ==
    ASSUME TransferAssumption, ~OverlappingRequests
    PROVE  Spec => [](NeverOverwrites /\ Concurrency = 1 => IntactInv)
<1> DEFINE Intact == NeverOverwrites /\ Concurrency = 1 => IntactInv
<1>1. Init => Intact
    <2>1. ASSUME Init PROVE IntactInv
        BY <2>1
        DEF Init, NoRecord, Tasks, IntactInv, OneHolder, Kept, PathHeld, Holding, Stages, UploadStages,
            DownloadStages
    <2> QED
        BY <2>1
<1>2. SafetyInv /\ Intact /\ [Next]_vars => Intact'
    <2>1. NeverOverwrites' <=> NeverOverwrites
        BY DEF NeverOverwrites
    <2> QED
        BY <2>1, IntactStep
<1> QED
    BY <1>1, <1>2, SafetyInvariant, PTL DEF Spec

(* With one worker slot, duplicates renamed or refused, and no retry that   *)
(* overlaps a cancel() of its record: a delivered file is never replaced by *)
(* another transfer, through failures, retries, crashes and restarts        *)
(* (resolve_duplicate, _resolve_remote_duplicate).                          *)
THEOREM DeliveriesStayIntact ==
    ASSUME TransferAssumption, Concurrency = 1, ~OverlappingRequests
    PROVE  Spec => []DeliveredIntact
<1>1. (NeverOverwrites /\ Concurrency = 1 => IntactInv) => DeliveredIntact
    BY DEF DeliveredIntact, NeverOverwrites, IntactInv, Kept, FilesOf
<1> QED
    BY <1>1, IntactInvariant, PTL

-----------------------------------------------------------------------------
(* Reported downloads.  Two downloads never meet on one path: they ask for  *)
(* different names, or one worker resolves every duplicate.                 *)

PathsApart ==
    \/ \A t, u \in Transfers \ Uploads : NameOf[t] = NameOf[u] => t = u
    \/ Concurrency = 1 /\ NeverOverwrites

(* Duplicates are numbered, not renamed.                                    *)
NameKept(t) ==
    \A r \in {rec[t], saved[t]} : r.state # "absent" => r.dest[1] = NameOf[t]

(* A download is where its record says, if it says so, and nowhere else.    *)
Landed(t) ==
    LET done == rec[t].state = "completed" IN
    /\ \A p \in DOMAIN disk : disk[p] = t <=> done /\ p = rec[t].dest
    /\ done => rec[t].dest \in DOMAIN disk /\ saved[t] = rec[t]

OnlyUploadsScan == \A t \in Transfers, n \in Attempts : pc[<<t, n>>] = "scan" => t \in Uploads

ReportInv ==
    /\ OnlyUploadsScan
    /\ \A t \in Transfers : NameKept(t)
    /\ \A t \in Transfers \ Uploads : Landed(t)

LEMMA ResolvedKeepsName ==
    ASSUME NEW t, NEW path, NEW files, NEW found \in Resolved(t, path, files)
    PROVE  found[1] = path[1]
<1>1. CASE found = path
    BY <1>1
<1>2. CASE found # path
    <2>1. PICK i : found = Numbered(path, i)
        BY <1>2 DEF Resolved
    <2> QED
        BY <2>1 DEF Numbered
<1> QED
    BY <1>1, <1>2

(* The steps that change one record and write no file to the PC.            *)
LEMMA ReportQuietly ==
    ASSUME TypeOK, ReportInv, disk' = disk, NEW t \in Transfers,
           \A u \in Transfers \ {t} : rec'[u] = rec[u], saved' = saved \/ saved' = rec',
           \/ rec'[t] = rec[t]
           \/ t \in Uploads
           \/ rec[t].state # "completed" /\ rec'[t].state # "completed",
           rec'[t].state # "absent" => rec'[t].dest[1] = NameOf[t],
           \A u \in Transfers, n \in Attempts :
               pc'[<<u, n>>] = "scan" => pc[<<u, n>>] = "scan" \/ u \in Uploads
    PROVE  ReportInv'
<1>1. OnlyUploadsScan'
    BY DEF ReportInv, OnlyUploadsScan
<1>2. ASSUME NEW u \in Transfers PROVE NameKept(u)'
    BY DEF ReportInv, NameKept
<1>3. ASSUME NEW u \in Transfers \ Uploads PROVE Landed(u)'
    <2>1. Landed(u)
        BY DEF ReportInv
    <2>2. CASE rec'[u] = rec[u]
        BY <2>1, <2>2 DEF Landed
    <2>3. CASE rec'[u] # rec[u]
        BY <2>1, <2>3 DEF Landed
    <2> QED
        BY <2>2, <2>3
<1> QED
    BY <1>1, <1>2, <1>3 DEF ReportInv

LEMMA ReportStep ==
    ASSUME TransferAssumption, ~OverlappingRequests, ~MayCrash, PathsApart, SafetyInv, PartialInv,
           NeverOverwrites /\ Concurrency = 1 => IntactInv, ReportInv, [Next]_vars
    PROVE  ReportInv'
<1>1. TypeOK /\ RecordsOfTasks /\ DownIsIdle /\ \A t \in Transfers : Sound(t)
    BY DEF SafetyInv, TypeInv
<1>2. \A t \in Transfers, n \in Attempts : <<t, n>> \in Tasks
    BY DEF Tasks
<1>3. \A k \in Tasks : \E t \in Transfers, n \in Attempts : k = <<t, n>>
    BY DEF Tasks
<1>4. ASSUME NEW t \in Transfers, rec[t].state # "absent"
      PROVE  /\ rec[t] \in [state : Owed \cup Final, attempt : Attempts, dest : Paths]
             /\ rec[t].dest[1] = NameOf[t]
    BY <1>1, <1>4 DEF TypeOK, Record, NoRecord, ReportInv, NameKept
<1>5. ASSUME NEW t \in Transfers, NEW n \in Attempts, NEW place, Goto(<<t, n>>, place)
      PROVE  /\ pc'[<<t, n>>] = place
             /\ \A k \in Tasks : k # <<t, n>> => pc'[k] = pc[k]
    BY <1>1, <1>2, <1>5 DEF Goto, TypeOK
<1>6. ASSUME UNCHANGED <<rec, disk>>, saved' = saved \/ saved' = rec,
             \A k \in Tasks : pc'[k] = pc[k] \/ pc'[k] # "scan"
      PROVE  ReportInv'
    <2>1. OnlyUploadsScan'
        BY <1>2, <1>6 DEF ReportInv, OnlyUploadsScan
    <2>2. \A t \in Transfers : NameKept(t)'
        BY <1>6 DEF ReportInv, NameKept
    <2>3. \A t \in Transfers \ Uploads : Landed(t)'
        BY <1>6 DEF ReportInv, Landed
    <2> QED
        BY <2>1, <2>2, <2>3 DEF ReportInv
<1>7. ASSUME NEW t \in Transfers, NEW n \in Attempts, Schedule(t, n), disk' = disk, saved' = rec',
             rec[t].state # "completed", rec'[t].state # "completed", rec'[t].dest[1] = NameOf[t],
             \A u \in Transfers \ {t} : rec'[u] = rec[u]
      PROVE  ReportInv'
    <2>1. pc'[<<t, n>>] = "new" /\ \A k \in Tasks : k # <<t, n>> => pc'[k] = pc[k]
        BY <1>5, <1>7 DEF Schedule
    <2>2. \A u \in Transfers, m \in Attempts : pc'[<<u, m>>] = "scan" => pc[<<u, m>>] = "scan"
        BY <1>2, <2>1
    <2> QED
        BY <1>1, <1>7, <2>2, ReportQuietly
<1>8. ASSUME NEW t \in Transfers, NEW path, path[1] = NameOf[t], Register(t, path), disk' = disk
      PROVE  ReportInv'
    <2>1. 0 \in Attempts
        BY DEF TransferAssumption, Attempts
    <2>2. /\ rec'[t] = [state |-> "queued", attempt |-> 0, dest |-> path]
          /\ \A u \in Transfers \ {t} : rec'[u] = rec[u]
        BY <1>1, <1>8 DEF Register, TypeOK
    <2> QED
        BY <1>7, <1>8, <2>1, <2>2 DEF Register, Persist
<1>9. ASSUME NEW t \in Transfers, EnqueueUpload(t) \/ EnqueueDownload(t) PROVE ReportInv'
    <2>1. CASE EnqueueUpload(t)
        <3>1. Register(t, BasePath(t)) /\ disk' = disk
            BY <2>1 DEF EnqueueUpload, Register
        <3>2. BasePath(t)[1] = NameOf[t]
            BY DEF BasePath
        <3> QED
            BY <1>8, <3>1, <3>2
    <2>2. CASE EnqueueDownload(t)
        <3>1. PICK path \in Resolved(t, BasePath(t), disk) : Register(t, path)
            BY <2>2 DEF EnqueueDownload
        <3>2. path[1] = NameOf[t]
            BY ResolvedKeepsName DEF BasePath
        <3> QED
            BY <1>8, <3>1, <3>2 DEF Register
    <2> QED
        BY <1>9, <2>1, <2>2
<1>10. ASSUME NEW t \in Transfers, Retry(t) PROVE ReportInv'
    <2>1. rec[t].state # "absent" /\ rec[t].state # "completed"
        BY <1>10 DEF Retry, RetryFrom, Retryable, Final
    <2>2. rec[t].attempt + 1 \in Attempts
        BY <1>4, <1>10, <2>1 DEF Retry, RetryFrom, Attempts, TransferAssumption
    <2>3. /\ rec'[t].state = "queued" /\ rec'[t].dest = rec[t].dest
          /\ \A u \in Transfers \ {t} : rec'[u] = rec[u]
        BY <1>1, <1>4, <1>10, <2>1 DEF Retry, RetryFrom, TypeOK
    <2> QED
        BY <1>4, <1>7, <1>10, <2>1, <2>2, <2>3 DEF Retry, RetryFrom, Persist, fileVars
<1>11. ASSUME NEW t \in Transfers, rec[t].state # "absent", t \in Uploads \/ rec[t].state # "completed",
              disk' = disk, saved' = saved \/ saved' = rec',
              \A u \in Transfers, m \in Attempts :
                  pc'[<<u, m>>] = "scan" => pc[<<u, m>>] = "scan" \/ u \in Uploads,
              \/ \E state : SetState(t, state) /\ (t \in Uploads \/ state # "completed")
              \/ \E path : rec' = [rec EXCEPT ![t].dest = path] /\ path[1] = NameOf[t]
       PROVE  ReportInv'
    <2>1. \A u \in Transfers \ {t} : rec'[u] = rec[u]
        BY <1>1, <1>11 DEF SetState, TypeOK
    <2>2. rec'[t].dest[1] = NameOf[t]
        BY <1>1, <1>4, <1>11 DEF SetState, TypeOK
    <2>3. t \in Uploads \/ rec'[t].state # "completed"
        BY <1>1, <1>4, <1>11 DEF SetState, TypeOK
    <2> QED
        BY <1>1, <1>11, <2>1, <2>2, <2>3, ReportQuietly
<1>12. ASSUME NEW t \in Transfers, rec[t].state # "absent", t \in Uploads \/ rec[t].state # "completed",
              MarkCancelled(t), disk' = disk, \A k \in Tasks : pc'[k] = pc[k] \/ pc'[k] # "scan"
       PROVE  ReportInv'
    BY <1>2, <1>11, <1>12 DEF MarkCancelled, Persist
<1>13. ASSUME NEW t \in Transfers, Cancel(t) PROVE ReportInv'
    <2>1. rec[t].state \notin {"absent", "completed"} /\ UNCHANGED <<pc, disk>>
        BY <1>13 DEF Cancel, Owed
    <2> QED
        BY <1>6, <1>12, <1>13, <2>1 DEF Cancel
<1>14. ASSUME NEW t \in Transfers, NEW n \in Attempts, CancelReturns(<<t, n>>) PROVE ReportInv'
    <2>1. rec[t].state \notin {"absent", "completed"} /\ UNCHANGED <<pc, disk>>
        BY <1>1, <1>14 DEF CancelReturns, Sound, CancelsCurrent, Owed
    <2> QED
        BY <1>6, <1>12, <1>14, <2>1 DEF CancelReturns
<1>15. ASSUME NEW t \in Transfers, NEW n \in Attempts, CancelDelivered(<<t, n>>) PROVE ReportInv'
    <2>1. /\ Goto(<<t, n>>, "done") /\ disk' = disk /\ Live(<<t, n>>) /\ rec[t].state # "absent"
        BY <1>1, <1>2, <1>15 DEF CancelDelivered, RecordsOfTasks, Sound, CancelledIsLive
    <2>2. t \in Uploads \/ rec[t].state # "completed"
        BY <1>1, <2>1 DEF Sound, TasksCurrent, ReportInv, OnlyUploadsScan, Owed
    <2>3. \A k \in Tasks : pc'[k] = pc[k] \/ pc'[k] # "scan"
        BY <1>5, <2>1
    <2> QED
        BY <1>6, <1>12, <1>15, <2>1, <2>2, <2>3 DEF CancelDelivered
<1>16. ASSUME NEW t \in Transfers, NEW n \in Attempts, TaskStep(<<t, n>>) PROVE ReportInv'
    <2> DEFINE k == <<t, n>>
    <2>1. k \in Tasks /\ k[1] = t /\ Live(k)
        BY <1>2, <1>16
        DEF TaskStep, TaskStarts, TaskAcquires, AcquireBeside, DeviceReady,
            RemotePathResolved, TransferBegins, PushOpens, PushEnds, UploadVerified,
            UploadEnds, PullOpens, DownloadEnds, TaskFails, Live,
            Stages, UploadStages, DownloadStages
    <2>2. /\ rec[t].state # "absent"
          /\ t \in Uploads \/ rec[t].state # "completed"
          /\ rec[t].dest[1] = NameOf[t]
        <3>1. rec[t].state # "absent"
            BY <1>1, <2>1 DEF RecordsOfTasks
        <3>2. t \in Uploads \/ rec[t].state # "completed"
            BY <1>1, <2>1 DEF Sound, TasksCurrent, ReportInv, OnlyUploadsScan, Owed
        <3> QED
            BY <1>4, <3>1, <3>2
    <2>3. ASSUME NEW place, Goto(k, place), place # "scan" \/ t \in Uploads
          PROVE  \A u \in Transfers, m \in Attempts :
                     pc'[<<u, m>>] = "scan" => pc[<<u, m>>] = "scan" \/ u \in Uploads
        BY <1>2, <1>5, <2>3
    <2>4. ASSUME NEW files, NEW path \in Resolved(t, rec[t].dest, files) PROVE path[1] = NameOf[t]
        BY <2>2, ResolvedKeepsName
    <2>5. ASSUME NEW place, Goto(k, place), place # "scan", UNCHANGED <<rec, disk>>,
                 saved' = saved \/ saved' = rec'
          PROVE  ReportInv'
        BY <1>5, <1>6, <2>5
    <2>6. ASSUME NEW state, SetState(t, state), state # "completed" \/ t \in Uploads, disk' = disk,
                 NEW place, Goto(k, place), place # "scan" \/ t \in Uploads,
                 saved' = saved \/ saved' = rec'
          PROVE  ReportInv'
        <3>1. /\ \E s : SetState(t, s) /\ (t \in Uploads \/ s # "completed")
              /\ \A u \in Transfers, m \in Attempts :
                     pc'[<<u, m>>] = "scan" => pc[<<u, m>>] = "scan" \/ u \in Uploads
            BY <2>3, <2>6
        <3> QED
            BY <1>11, <2>2, <2>6, <3>1
    <2>7. ASSUME NEW files, NEW path \in Resolved(t, rec[t].dest, files),
                 rec' = [rec EXCEPT ![t].dest = path], disk' = disk, saved' = saved,
                 NEW place, Goto(k, place), place # "scan"
          PROVE  ReportInv'
        <3>1. path[1] = NameOf[t]
            BY <2>4
        <3>2. /\ \E p : rec' = [rec EXCEPT ![t].dest = p] /\ p[1] = NameOf[t]
              /\ \A u \in Transfers, m \in Attempts :
                     pc'[<<u, m>>] = "scan" => pc[<<u, m>>] = "scan" \/ u \in Uploads
            BY <2>3, <2>7, <3>1
        <3> QED
            BY <1>11, <2>2, <2>7, <3>2
    <2>8. CASE TaskStarts(k) \/ PushOpens(k) \/ PullOpens(k) \/ UploadEnds(k)
        BY <2>5, <2>8 DEF TaskStarts, PushOpens, PullOpens, UploadEnds, Persist, fileVars
    <2>9. CASE TaskAcquires(k) \/ TransferBegins(k) \/ PushEnds(k) \/ TaskFails(k)
        BY <2>1, <2>6, <2>9
        DEF TaskAcquires, AcquireBeside, TransferBegins, PushEnds, TaskFails, Persist, fileVars
    <2>10. CASE DeviceReady(k) \/ RemotePathResolved(k)
        BY <2>1, <2>5, <2>7, <2>10 DEF DeviceReady, RemotePathResolved, fileVars
    <2>11. CASE UploadVerified(k)
        <3>1. t \in Uploads
            BY <1>1, <2>1, <2>11 DEF UploadVerified, TypeOK
        <3> QED
            BY <2>1, <2>6, <2>11, <3>1 DEF UploadVerified, Persist, fileVars
    <2>12. CASE DownloadEnds(k)
        <3>1. /\ pc[k] = "pulling" /\ Goto(k, "done") /\ SetState(t, "completed") /\ saved' = rec'
              /\ disk' = Written(disk, rec[t].dest, t)
            BY <2>1, <2>12 DEF DownloadEnds, DownloadLands, Persist
        <3>2. t \notin Uploads
            BY <3>1 DEF PartialInv, OnlyDownloadsPull, DownloadStages
        <3>3. /\ rec'[t].state = "completed" /\ rec'[t].dest = rec[t].dest /\ rec'[t].dest[1] = NameOf[t]
              /\ \A u \in Transfers \ {t} : rec'[u] = rec[u]
            BY <1>1, <1>4, <2>2, <3>1 DEF SetState, TypeOK
        <3>4. ASSUME NEW u \in Transfers \ Uploads, u # t, rec[u].state = "completed"
              PROVE  rec[u].dest # rec[t].dest
            <4>1. CASE \A a, b \in Transfers \ Uploads : NameOf[a] = NameOf[b] => a = b
                <5>1. rec[u].dest[1] = NameOf[u]
                    BY <1>4, <3>4
                <5> QED
                    BY <2>2, <3>2, <3>4, <4>1, <5>1
            <4>2. CASE Concurrency = 1 /\ NeverOverwrites
                BY <3>1, <3>2, <3>4, <4>2 DEF IntactInv, Kept, FilesOf, PathHeld, DownloadStages
            <4> QED
                BY <4>1, <4>2 DEF PathsApart
        <3>5. ASSUME NEW u \in Transfers \ Uploads PROVE Landed(u)'
            <4>1. Landed(u)
                BY DEF ReportInv
            <4>2. CASE u = t
                BY <2>2, <3>1, <3>2, <3>3, <4>1, <4>2 DEF Landed, Written
            <4>3. CASE u # t
                BY <3>1, <3>3, <3>4, <4>1, <4>3 DEF Landed, Written
            <4> QED
                BY <4>2, <4>3
        <3>6. ASSUME NEW u \in Transfers PROVE NameKept(u)'
            BY <3>1, <3>3 DEF ReportInv, NameKept
        <3>7. OnlyUploadsScan'
            BY <2>3, <3>1 DEF ReportInv, OnlyUploadsScan
        <3> QED
            BY <3>5, <3>6, <3>7 DEF ReportInv
    <2> QED
        BY <1>16, <2>8, <2>9, <2>10, <2>11, <2>12 DEF TaskStep
<1>17. ASSUME NEW records \in [Transfers -> Record], records = rec \/ records = saved, disk' = disk,
              rec' = AsInterrupted(records), saved' = saved \/ saved' = rec',
              \A k \in Tasks : pc'[k] = "none"
       PROVE  ReportInv'
    <2>1. ASSUME NEW t \in Transfers
          PROVE  /\ rec'[t].dest = records[t].dest
                 /\ rec'[t].state = "absent" <=> records[t].state = "absent"
                 /\ rec'[t].state = "completed" => rec'[t] = records[t]
                 /\ records[t].state = "completed" => rec'[t] = records[t]
        <3>1. CASE records[t].state \in Owed
            <4>1. records[t] \in [state : Owed \cup Final, attempt : Attempts, dest : Paths]
                BY <3>1 DEF Record, NoRecord, Owed
            <4>2. rec'[t] = [records[t] EXCEPT !.state = "interrupted"]
                BY <1>17, <3>1 DEF AsInterrupted
            <4> QED
                BY <3>1, <4>1, <4>2 DEF Owed
        <3>2. CASE records[t].state \notin Owed
            BY <1>17, <3>2 DEF AsInterrupted
        <3> QED
            BY <3>1, <3>2
    <2>2. ASSUME NEW t \in Transfers PROVE NameKept(t)'
        BY <1>17, <2>1 DEF ReportInv, NameKept
    <2>3. ASSUME NEW t \in Transfers \ Uploads PROVE Landed(t)'
        <3>1. Landed(t) /\ (saved[t].state = "completed" <=> rec[t].state = "completed")
            BY <1>1 DEF ReportInv, Sound, SavedAgrees
        <3>2. CASE rec[t].state = "completed"
            <4>1. saved[t] = rec[t] /\ records[t] = rec[t]
                BY <1>17, <3>1, <3>2 DEF Landed
            <4>2. rec'[t] = rec[t] /\ saved'[t] = rec[t]
                BY <1>17, <2>1, <3>2, <4>1
            <4> QED
                BY <1>17, <3>1, <4>2 DEF Landed
        <3>3. CASE rec[t].state # "completed"
            <4>1. rec'[t].state # "completed"
                BY <1>17, <2>1, <3>1, <3>3
            <4> QED
                BY <1>17, <3>1, <3>3, <4>1 DEF Landed
        <3> QED
            BY <3>2, <3>3
    <2>4. OnlyUploadsScan'
        BY <1>2, <1>17 DEF OnlyUploadsScan
    <2> QED
        BY <2>2, <2>3, <2>4 DEF ReportInv
<1>18. CASE CloseReturns
    <2>1. \A k \in Tasks : pc'[k] = "none"
        BY <1>18 DEF CloseReturns, LoseLoop
    <2> QED
        BY <1>1, <1>17, <1>18, <2>1 DEF CloseReturns, Persist, fileVars, TypeOK
<1>19. CASE Start
    <2>1. \A k \in Tasks : pc'[k] = "none"
        BY <1>1, <1>19 DEF Start, DownIsIdle
    <2> QED
        BY <1>1, <1>17, <1>19, <2>1 DEF Start, fileVars, TypeOK
<1>20. CASE Close \/ UNCHANGED vars \/ \E k \in Tasks : DiscardTask(k)
    BY <1>6, <1>20 DEF Close, vars, DiscardTask, fileVars
<1>21. ASSUME NEW k \in Tasks, TaskStep(k) \/ LoopStep(k) PROVE ReportInv'
    BY <1>3, <1>14, <1>15, <1>16, <1>20, <1>21 DEF LoopStep
<1> QED
    BY <1>9, <1>10, <1>13, <1>18, <1>19, <1>20, <1>21 DEF Next, Request, Crash, CrashAfterReplace

(* While the process survives, no retry overlaps a cancel() of its record   *)
(* and downloads do not meet on a path: a download is on the PC exactly     *)
(* when its record says so, and once (_run_download).                       *)
THEOREM DownloadsAreReported ==
    ASSUME TransferAssumption, ~OverlappingRequests, ~MayCrash, PathsApart
    PROVE  Spec => []DownloadReported
<1> DEFINE Intact == NeverOverwrites /\ Concurrency = 1 => IntactInv
<1>1. Spec => []Intact
    BY IntactInvariant, PTL
<1>2. Init => ReportInv
    <2>1. ASSUME Init PROVE ReportInv
        BY <2>1 DEF Init, NoRecord, Tasks, ReportInv, OnlyUploadsScan, NameKept, Landed
    <2> QED
        BY <2>1
<1>3. SafetyInv /\ PartialInv /\ Intact /\ ReportInv /\ [Next]_vars => ReportInv'
    BY ReportStep
<1>4. ReportInv => DownloadReported
    <2> SUFFICES ASSUME ReportInv, NEW t \in Transfers \ Uploads
                 PROVE  Cardinality({p \in DOMAIN disk : disk[p] = t})
                            = IF rec[t].state = "completed" THEN 1 ELSE 0
        BY DEF DownloadReported
    <2>1. Landed(t)
        BY DEF ReportInv
    <2>2. CASE rec[t].state = "completed"
        <3>1. {p \in DOMAIN disk : disk[p] = t} = {rec[t].dest}
            BY <2>1, <2>2 DEF Landed
        <3> QED
            BY <2>2, <3>1, FS_Singleton
    <2>3. CASE rec[t].state # "completed"
        <3>1. {p \in DOMAIN disk : disk[p] = t} = {}
            BY <2>1, <2>3 DEF Landed
        <3> QED
            BY <2>3, <3>1, FS_EmptySet
    <2> QED
        BY <2>2, <2>3
<1> QED
    BY <1>1, <1>2, <1>3, <1>4, SafetyInvariant, PartialInvariant, PTL DEF Spec

-----------------------------------------------------------------------------
(* Refinement: the queue keeps TransferContract.                            *)

Status == [t \in Transfers |-> StatusOf(rec[t].state)]
Tries == [t \in Transfers |-> rec[t].attempt]

Up == process = "up"
Stopped == [t \in Transfers |-> IF Status[t] = "owed" THEN "stopped" ELSE Status[t]]

(* The Cardinality that the contract's module extends is the same operator.  *)
LEMMA SameCardinality == \A S : Contract!Cardinality(S) = Cardinality(S)
BY DEF Cardinality, Contract!Cardinality

(* The contract's actions, in terms of the mapped variables.                *)
LEMMA ContractActions ==
    /\ \A t : Contract!Accept(t) <=>
        /\ Up
        /\ Status[t] = "none"
        /\ Cardinality({u \in Transfers : Status[u] = "owed"}) < QueueLimit
        /\ Status' = [Status EXCEPT ![t] = "owed"]
        /\ UNCHANGED <<Up, Tries>>
    /\ \A t : Contract!Deliver(t) <=>
        /\ Up
        /\ Status[t] = "owed"
        /\ Status' = [Status EXCEPT ![t] = "delivered"]
        /\ UNCHANGED <<Up, Tries>>
    /\ \A t : Contract!Stop(t) <=>
        /\ Status[t] = "owed"
        /\ Status' = [Status EXCEPT ![t] = "stopped"]
        /\ UNCHANGED <<Up, Tries>>
    /\ \A t : Contract!Retry(t) <=>
        /\ Up
        /\ Status[t] = "stopped"
        /\ Status' = [Status EXCEPT ![t] = "owed"]
        /\ Tries' = [Tries EXCEPT ![t] = @ + 1]
        /\ UNCHANGED Up
    /\ \A t : Contract!Withdraw(t) <=>
        /\ ~Up
        /\ Status[t] = "delivered"
        /\ Status' = [Status EXCEPT ![t] = "stopped"]
        /\ UNCHANGED <<Up, Tries>>
    /\ Contract!Shut <=> Up' = FALSE /\ UNCHANGED <<Status, Tries>>
    /\ Contract!Interrupt <=> ~Up /\ Status' = Stopped /\ UNCHANGED <<Up, Tries>>
    /\ Contract!Reopen <=> ~Up /\ Up' = TRUE /\ Status' = Stopped /\ UNCHANGED Tries
BY SameCardinality
   DEF Contract!Accept, Contract!Deliver, Contract!Stop, Contract!Retry, Contract!Withdraw,
       Contract!Shut, Contract!Interrupt, Contract!Reopen, Contract!Interrupted, Stopped,
       Up, Status, Tries

LEMMA ContractInit == TransferAssumption /\ Init => Contract!Init
BY DEF Init, NoRecord, Contract!Init, StatusOf

(* Only the record of t changes, and only its state.                        *)
LEMMA StateChange ==
    ASSUME TypeOK, TypeOK', NEW t \in Transfers, rec'[t].attempt = rec[t].attempt,
           \A u \in Transfers \ {t} : rec'[u] = rec[u]
    PROVE  /\ Status' = [Status EXCEPT ![t] = StatusOf(rec'[t].state)]
           /\ Tries' = Tries
BY DEF Status, Tries, TypeOK

LEMMA ContractStep ==
    ASSUME TransferAssumption, ~OverlappingRequests, SafetyInv, SafetyInv', [Next]_vars
    PROVE  [Contract!Next]_(Contract!contractVars)
<1>1. TypeOK /\ TypeOK' /\ DownIsIdle
    BY DEF SafetyInv, TypeInv
<1>2. \A t \in Transfers : Sound(t) /\ Sound(t)'
    BY DEF SafetyInv
<1>3. \A t \in Transfers : /\ rec[t] \in Record /\ rec'[t] \in Record
                           /\ Status[t] = StatusOf(rec[t].state)
                           /\ Status'[t] = StatusOf(rec'[t].state)
    BY <1>1 DEF TypeOK, Status
<1> DEFINE Stutters == UNCHANGED <<Up, Status, Tries>>
<1> DEFINE Allowed == Contract!Next \/ Stutters
<1>4. \A k \in Tasks : \E t \in Transfers, n \in Attempts : k = <<t, n>>
    BY DEF Tasks
<1>5. ASSUME UNCHANGED <<process, rec>> PROVE Stutters
    BY <1>5 DEF Up, Status, Tries
<1>6. ASSUME NEW t \in Transfers, NEW path \in Paths, Register(t, path) PROVE Contract!Accept(t)
    <2>1. Active = {u \in Transfers : Status[u] = "owed"}
        BY <1>3 DEF Active, StatusOf, Owed
    <2>2. /\ rec[t].attempt = 0 /\ rec'[t].attempt = 0 /\ rec'[t].state = "queued"
          /\ \A u \in Transfers \ {t} : rec'[u] = rec[u]
        BY <1>1, <1>6 DEF Register, TypeOK, Record, NoRecord, Owed, Final
    <2>3. Status' = [Status EXCEPT ![t] = "owed"] /\ Tries' = Tries /\ Status[t] = "none"
        BY <1>1, <1>3, <1>6, <2>2, StateChange DEF StatusOf, Owed, Register
    <2>4. Up /\ Up' /\ Cardinality(Active) < QueueLimit
        BY <1>6 DEF Register, Up
    <2> QED
        BY <2>1, <2>3, <2>4, ContractActions
<1>7. ASSUME NEW t \in Transfers, EnqueueUpload(t) \/ EnqueueDownload(t) PROVE Allowed
    <2>1. PICK path \in Paths : Register(t, path)
        BY <1>7, BaseIsPath, ResolvedIsPath DEF EnqueueUpload, EnqueueDownload
    <2> QED
        BY <1>6, <2>1 DEF Contract!Next
(* A record that was owed is stopped, or keeps its state.                   *)
<1>8. ASSUME NEW t \in Transfers, process' = process, rec[t].state \in Owed,
             rec'[t].attempt = rec[t].attempt, rec'[t].state \in Retryable,
             \A u \in Transfers \ {t} : rec'[u] = rec[u]
      PROVE  Contract!Stop(t)
    BY <1>1, <1>3, <1>8, StateChange, ContractActions
    DEF StatusOf, Owed, Retryable, Final, Up
<1>9. ASSUME NEW t \in Transfers, process' = process,
             StatusOf(rec'[t].state) = StatusOf(rec[t].state), rec'[t].attempt = rec[t].attempt,
             \A u \in Transfers \ {t} : rec'[u] = rec[u]
      PROVE  Stutters
    BY <1>1, <1>3, <1>9, StateChange DEF Up, Status, TypeOK
<1>10. ASSUME NEW t \in Transfers, Retry(t) PROVE Contract!Retry(t)
    <2>1. /\ rec[t] \in [state : Owed \cup Final, attempt : Attempts, dest : Paths]
          /\ rec[t].state \in Retryable /\ Up /\ Up'
        BY <1>3, <1>10 DEF Retry, RetryFrom, Up, Retryable, Final, Record, NoRecord
    <2>2. /\ rec'[t].state = "queued" /\ rec'[t].attempt = rec[t].attempt + 1
          /\ \A u \in Transfers \ {t} : rec'[u] = rec[u]
        BY <1>1, <1>10, <2>1 DEF Retry, RetryFrom, TypeOK
    <2>3. Status[t] = "stopped" /\ Status' = [Status EXCEPT ![t] = "owed"]
        BY <1>1, <1>3, <2>1, <2>2 DEF Status, StatusOf, Retryable, Final, Owed, TypeOK
    <2>4. Tries' = [Tries EXCEPT ![t] = @ + 1]
        BY <1>1, <2>2 DEF Tries, TypeOK
    <2> QED
        BY <2>1, <2>3, <2>4, ContractActions
<1>11. ASSUME NEW t \in Transfers, rec[t].state # "absent", MarkCancelled(t)
       PROVE  /\ rec'[t].state = "cancelled" /\ rec'[t].attempt = rec[t].attempt
              /\ \A u \in Transfers \ {t} : rec'[u] = rec[u]
    BY <1>1, <1>3, <1>11 DEF MarkCancelled, SetState, TypeOK, Record, NoRecord
<1>12. ASSUME NEW t \in Transfers, Cancel(t) PROVE Allowed
    <2>1. rec[t].state \in Owed /\ rec[t].state # "absent" /\ process' = process
        BY <1>12 DEF Cancel, Owed
    <2>2. CASE MarkCancelled(t)
        BY <1>8, <1>11, <2>1, <2>2 DEF Contract!Next, Retryable, Final
    <2>3. CASE UNCHANGED rec
        BY <1>5, <2>1, <2>3
    <2> QED
        BY <1>12, <2>2, <2>3 DEF Cancel
<1>13. ASSUME NEW t \in Transfers, NEW n \in Attempts, CancelReturns(<<t, n>>) PROVE Allowed
    <2>1. /\ <<t, n>>[1] = t /\ process' = process
          /\ rec[t].state \in Owed \cup {"cancelled"} /\ rec[t].state # "absent"
        BY <1>2, <1>13 DEF CancelReturns, Sound, CancelsCurrent, Owed
    <2>2. CASE rec[t].state # "cancelled" /\ MarkCancelled(t)
        BY <1>8, <1>11, <2>1, <2>2 DEF Contract!Next, Retryable, Final
    <2>3. CASE UNCHANGED rec
        BY <1>5, <2>1, <2>3
    <2> QED
        BY <1>13, <2>1, <2>2, <2>3 DEF CancelReturns
(* An uncancelled task runs only while the service is open.                 *)
<1>14. ASSUME NEW t \in Transfers, NEW n \in Attempts, TaskStep(<<t, n>>) PROVE Allowed
    <2> DEFINE k == <<t, n>>
    <2>1. /\ k \in Tasks /\ k[1] = t /\ Live(k) /\ process # "down" /\ k \notin cancelled
          /\ process' = process
        BY <1>14
        DEF Tasks, TaskStep, TaskStarts, TaskAcquires, AcquireBeside, DeviceReady,
            RemotePathResolved, TransferBegins, PushOpens, PushEnds, UploadVerified,
            UploadEnds, PullOpens, DownloadEnds, TaskFails, Resumes, Runs, Live,
            Stages, UploadStages, DownloadStages
    <2>2. process = "up" /\ Up /\ Up'
        BY <1>1, <1>2, <2>1 DEF Sound, CancelledIsLive, TypeOK, Up
    <2>3. /\ rec[t] \in [state : Owed \cup Final, attempt : Attempts, dest : Paths]
          /\ pc[k] # "scan" => rec[t].state \in Owed
        BY <1>2, <1>3, <2>1 DEF Sound, TasksCurrent, Record, NoRecord, Owed
    <2>4. ASSUME NEW state \in Owed \cup Final, SetState(t, state)
          PROVE  /\ rec'[t].state = state /\ rec'[t].attempt = rec[t].attempt
                 /\ \A u \in Transfers \ {t} : rec'[u] = rec[u]
        BY <1>1, <2>3, <2>4 DEF SetState, TypeOK
    <2>5. ASSUME NEW path, rec' = [rec EXCEPT ![t].dest = path] PROVE Stutters
        BY <1>1, <1>9, <2>1, <2>3, <2>5 DEF TypeOK
    <2>6. ASSUME NEW state \in Owed, SetState(t, state), pc[k] # "scan" PROVE Stutters
        BY <1>9, <2>1, <2>3, <2>4, <2>6 DEF StatusOf, Owed
    <2>7. ASSUME SetState(t, "completed"), pc[k] # "scan" PROVE Contract!Deliver(t)
        <3>1. /\ rec'[t].state = "completed" /\ rec'[t].attempt = rec[t].attempt
              /\ \A u \in Transfers \ {t} : rec'[u] = rec[u]
            BY <2>4, <2>7 DEF Final
        <3>2. Status' = [Status EXCEPT ![t] = "delivered"] /\ Tries' = Tries /\ Status[t] = "owed"
            BY <1>1, <1>3, <2>3, <2>7, <3>1, StateChange DEF StatusOf, Owed
        <3> QED
            BY <2>2, <3>2, ContractActions
    <2> HIDE DEF Stutters
    <2>8. CASE TaskStarts(k) \/ PushOpens(k) \/ PullOpens(k) \/ UploadEnds(k)
        BY <1>5, <2>1, <2>8 DEF TaskStarts, PushOpens, PullOpens, UploadEnds
    <2>9. CASE TaskAcquires(k) \/ TransferBegins(k) \/ PushEnds(k)
        BY <2>1, <2>6, <2>9 DEF TaskAcquires, AcquireBeside, TransferBegins, PushEnds, Owed
    <2>10. CASE DeviceReady(k) \/ RemotePathResolved(k)
        BY <1>5, <2>1, <2>5, <2>10 DEF DeviceReady, RemotePathResolved
    <2>11. CASE UploadVerified(k) \/ DownloadEnds(k)
        BY <2>1, <2>7, <2>11 DEF UploadVerified, DownloadEnds, Contract!Next
    <2>12. CASE TaskFails(k)
        <3>1. SetState(t, "failed") /\ pc[k] # "scan"
            BY <2>1, <2>12 DEF TaskFails, Stages, UploadStages, DownloadStages
        <3> QED
            BY <1>8, <2>1, <2>3, <2>4, <3>1 DEF Contract!Next, Retryable, Final
    <2> QED
        BY <1>14, <2>8, <2>9, <2>10, <2>11, <2>12 DEF TaskStep
<1>15. ASSUME NEW t \in Transfers, NEW n \in Attempts, CancelDelivered(<<t, n>>) PROVE Allowed
    <2> DEFINE k == <<t, n>>
    <2>1. /\ k[1] = t /\ process' = process /\ k \in cancelled /\ Live(k)
          /\ process = "up" => pc[k] # "scan"
          /\ rec[t].state \in Owed \/ (pc[k] = "scan" /\ rec[t].state = "completed")
          /\ rec[t].state # "absent"
        BY <1>2, <1>15 DEF CancelDelivered, Sound, CancelledIsLive, TasksCurrent, Owed
    <2>2. CASE UNCHANGED rec
        BY <1>5, <2>1, <2>2
    <2>3. CASE MarkCancelled(t) /\ rec[t].state \in Owed
        BY <1>8, <1>11, <2>1, <2>3 DEF Contract!Next, Retryable, Final
    <2>4. CASE MarkCancelled(t) /\ rec[t].state = "completed" /\ process # "up"
        <3>1. /\ rec'[t].state = "cancelled" /\ rec'[t].attempt = rec[t].attempt
              /\ \A u \in Transfers \ {t} : rec'[u] = rec[u]
            BY <1>11, <2>1, <2>4
        <3>2. /\ Status' = [Status EXCEPT ![t] = "stopped"] /\ Tries' = Tries
              /\ Status[t] = "delivered" /\ ~Up /\ Up' = Up
            BY <1>1, <1>3, <2>1, <2>4, <3>1, StateChange DEF StatusOf, Owed, Up
        <3> QED
            BY <3>2, ContractActions DEF Contract!Next
    <2> QED
        BY <1>15, <2>1, <2>2, <2>3, <2>4 DEF CancelDelivered, Owed
<1>16. ASSUME NEW t \in Transfers, NEW n \in Attempts, DiscardTask(<<t, n>>) PROVE Stutters
    BY <1>5, <1>16 DEF DiscardTask
<1>17. ASSUME UNCHANGED rec, process' # "up" PROVE Contract!Shut
    BY <1>17, ContractActions DEF Up, Status, Tries
<1>18. ASSUME Close \/ Crash PROVE Allowed
    BY <1>17, <1>18 DEF Close, Crash, LoseLoop, Contract!Next
<1>19. ASSUME NEW k \in Tasks, CrashAfterReplace(k) PROVE Allowed
    BY <1>17, <1>19 DEF CrashAfterReplace, LoseLoop, Contract!Next
(* Restoring or interrupting the records is the contract's interruption.    *)
<1>20. ASSUME NEW records \in [Transfers -> Record], rec' = AsInterrupted(records),
              \A t \in Transfers :
                /\ records[t].attempt = rec[t].attempt
                /\ (records[t].state = "absent") <=> (rec[t].state = "absent")
                /\ (records[t].state = "completed") <=> (rec[t].state = "completed")
       PROVE  Status' = Stopped /\ Tries' = Tries
    <2>1. ASSUME NEW t \in Transfers
          PROVE  Status'[t] = Stopped[t] /\ rec'[t].attempt = rec[t].attempt
        <3>1. /\ rec'[t].attempt = records[t].attempt
              /\ records[t].state \in Owed => rec'[t].state = "interrupted"
              /\ records[t].state \notin Owed => rec'[t] = records[t]
            BY <1>20, InterruptedRecords
        <3>2. /\ records[t].state \in {"absent"} \cup Owed \cup Final
              /\ rec[t].state \in {"absent"} \cup Owed \cup Final
            BY <1>3, <1>20 DEF Record, NoRecord
        <3> QED
            BY <1>3, <1>20, <3>1, <3>2 DEF Stopped, StatusOf, Owed, Final
    <2>2. Status' = Stopped
        BY <2>1 DEF Status, Stopped
    <2> QED
        BY <2>1, <2>2 DEF Tries
<1>21. ASSUME CloseReturns PROVE Allowed
    <2>1. rec' = AsInterrupted(rec) /\ ~Up /\ Up' = Up
        BY <1>21 DEF CloseReturns, LoseLoop, Up
    <2> QED
        BY <1>1, <1>20, <2>1, ContractActions DEF Contract!Next, TypeOK
<1>22. ASSUME Start PROVE Allowed
    <2>1. rec' = AsInterrupted(saved) /\ ~Up /\ Up' = TRUE
        BY <1>22 DEF Start, Up
    <2>2. \A t \in Transfers :
            /\ saved[t].attempt = rec[t].attempt
            /\ (saved[t].state = "absent") <=> (rec[t].state = "absent")
            /\ (saved[t].state = "completed") <=> (rec[t].state = "completed")
        BY <1>2 DEF Sound, SavedAgrees
    <2> QED
        BY <1>1, <1>20, <2>1, <2>2, ContractActions DEF Contract!Next, TypeOK
<1>23. ASSUME NEW k \in Tasks, TaskStep(k) \/ LoopStep(k) PROVE Allowed
    <2>1. PICK t \in Transfers, n \in Attempts : k = <<t, n>>
        BY <1>4
    <2> QED
        BY <1>13, <1>14, <1>15, <1>16, <1>23, <2>1 DEF LoopStep
<1>24. ASSUME UNCHANGED vars PROVE Allowed
    BY <1>5, <1>24 DEF vars
<1>25. Allowed
    BY <1>7, <1>10, <1>12, <1>18, <1>19, <1>21, <1>22, <1>23, <1>24
    DEF Next, Request, Contract!Next
<1>26. Stutters => UNCHANGED Contract!contractVars
    BY DEF Contract!contractVars, Up, Status, Tries
<1> QED
    BY <1>25, <1>26

(* The queue implements its contract: for any number of transfers, slots    *)
(* and retries, through cancellations, shutdowns and crashes.               *)
THEOREM QueueKeepsContract ==
    ASSUME TransferAssumption, ~OverlappingRequests
    PROVE  Spec => KeepsContract
<1>1. Init => Contract!Init
    BY ContractInit
<1>2. SafetyInv /\ SafetyInv' /\ [Next]_vars => [Contract!Next]_(Contract!contractVars)
    BY ContractStep
<1>3. Spec => []SafetyInv
    BY SafetyInvariant
<1> QED
    BY <1>1, <1>2, <1>3, PTL DEF Spec, KeepsContract, Contract!Spec

=============================================================================
