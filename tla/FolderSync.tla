----------------------------- MODULE FolderSync -----------------------------
(***************************************************************************)
(* The two-way watched folder (droid_web_display/transfers/monitor.py): a  *)
(* scan reconciles the transfers it knows of, lists the Android folder,    *)
(* lists the PC folder and queues what is new, one await at a time.  Scans *)
(* exclude one another; the transfer queue, the user's own files, a        *)
(* cleared history, a restart and a crash do not wait for them.            *)
(*                                                                         *)
(* A file is its stamp (what size and modification time tell apart) and    *)
(* its origin, the stamp of the user's file it is a copy of: the user's    *)
(* own files have origin = stamp.  The queue is reduced to what            *)
(* TransferContract promises: a transfer is owed, then delivered or        *)
(* stopped.                                                                *)
(***************************************************************************)
EXTENDS Integers, FiniteSets, Functions

CONSTANTS Names,           \* file names
          MaxCopies,       \* numbered copies of a name
          StableAfter,     \* stability_observations
          MaxProcessed,    \* retained fingerprints (5000 in the code)
          Configs,         \* configurations the user may choose
          Worlds,          \* what may happen around the monitor: see Surroundings
          MaxWrites,       \* bound: files the user ever writes
          MaxJobs,         \* bound: transfers the queue accepts
          MaxFailures      \* bound: transfers that stop without delivering

Sides == {"android", "pc"}
Other(s) == IF s = "android" THEN "pc" ELSE "android"
Paths == Names \X (0..MaxCopies)
Jobs == 1..MaxJobs
NoJob == 0
Policies == {"rename", "overwrite", "fail"}

Configurations == [watch : SUBSET Sides, existing : SUBSET Sides,
                   policy : [Sides -> Policies], delete : BOOLEAN]

(* paths: where the user creates files.  edit: the user also changes and    *)
(* removes files.  crash: the process may be killed.  forget: history is    *)
(* cleared and reset while transfers are under way.  restarts, configures:  *)
(* bounds on the restarts, and on configure() and clear_history().          *)
Surroundings == [paths : [Sides -> SUBSET Paths], edit : BOOLEAN, crash : BOOLEAN,
                 forget : BOOLEAN, restarts : Nat, configures : Nat]

ASSUME FolderAssumption ==
    /\ IsFiniteSet(Names)
    /\ StableAfter \in 2..20
    /\ MaxCopies \in Nat /\ MaxWrites \in Nat /\ MaxJobs \in Nat
    /\ MaxFailures \in Nat /\ MaxProcessed \in Nat
    /\ Configs # {} /\ \A c \in Configs : c \in Configurations
    /\ \A w \in Worlds : w \in Surroundings

VARIABLES world,     \* the surroundings of this behaviour
          process,   \* "up" or "down"
          config,    \* the AutoDownloadConfig in force
          folder,    \* the two folders: side -> path -> file
          seen,      \* _observed (android) and _local_observed (pc)
          processed, \* _processed and _processed_local: <<path, stamp>>
          based,     \* sides whose baseline is initialised
          saved,     \* the state file, when a crash may need it
          job,       \* the queue's records
          scan,      \* where the scan is suspended, and what it still has to do
          clock,     \* files the user has written
          used,      \* restarts and configurations so far
          past       \* history: files that a baseline took as old, files a clear forgot

memory == <<seen, processed, based>>
vars == <<world, process, config, folder, seen, processed, based, saved, job, scan, clock, used, past>>

-----------------------------------------------------------------------------
(* Every file the user writes has a stamp of its own, and so has the copy   *)
(* written by each transfer.                                                *)
Put(f, p, v) == [q \in DOMAIN f \cup {p} |-> IF q = p THEN v ELSE f[q]]
Drop(f, ps) == [q \in DOMAIN f \ ps |-> f[q]]
Stamps == 1..(MaxWrites + MaxJobs)
CopyStamp(j) == MaxWrites + j
Prints(files) == {<<p, files[p].stamp>> : p \in DOMAIN files}

(* The free path of the lowest number, the path itself, or none.            *)
Resolved(p, files, policy) ==
    IF p \notin DOMAIN files \/ policy = "overwrite" THEN {p}
    ELSE IF policy = "fail" THEN {}
    ELSE {<<p[1], i>> : i \in {i \in 1..MaxCopies : /\ <<p[1], i>> \notin DOMAIN files
              /\ \A k \in 1..(i - 1) : <<p[1], k>> \in DOMAIN files}}

(* ObservedFile and ObservedLocalFile.  waits: stability_seconds or         *)
(* next_retry_at has not passed.  tried: the deletion has a result.         *)
Entry(stamp) == [stamp |-> stamp, count |-> 1, waits |-> TRUE, job |-> NoJob, tried |-> FALSE]
Settled(stamp) == [Entry(stamp) EXCEPT !.count = StableAfter]

Owed == {j \in Jobs : job[j].status = "owed"}
Stopped == {j \in Jobs : job[j].status = "stopped"}
Unused == [status |-> "none", side |-> "pc", path |-> <<>>, stamp |-> 0, carries |-> 0, dest |-> <<>>]
NextJob == {j \in Jobs : job[j].status = "none" /\ \A k \in 1..(j - 1) : job[k].status # "none"}

Idle == [at |-> "idle", todo |-> <<>>, item |-> <<>>, sides |-> {}]
ScanPlaces == {"idle", "downloads", "remove", "uploads", "stat", "list", "android", "listpc", "pc", "spool"}

(* The awaits at which the loop runs other coroutines.                      *)
Suspended == scan.at \in {"idle", "remove", "stat", "list", "spool"}

Init ==
    /\ world \in Worlds
    /\ process = "up"
    /\ config \in Configs
    /\ folder = [s \in Sides |-> <<>>]
    /\ seen = [s \in Sides |-> <<>>]
    /\ processed = [s \in Sides |-> {}]
    /\ based = {}
    /\ saved = <<seen, processed, based>>
    /\ job = [j \in Jobs |-> Unused]
    /\ scan = Idle
    /\ clock = 0
    /\ used = [restarts |-> 0, configures |-> 0]
    /\ past = [baselined |-> {}, forgotten |-> {}]

Persist == saved' = IF world.crash THEN <<seen', processed', based'>> ELSE saved

-----------------------------------------------------------------------------
(* The user works on both folders at any time.                              *)
UserWrites(s, p) ==
    /\ Suspended
    /\ clock < MaxWrites
    /\ p \in world.paths[s]
    /\ p \in DOMAIN folder[s] => world.edit
    /\ folder' = [folder EXCEPT ![s] = Put(@, p, [stamp |-> clock + 1, origin |-> clock + 1])]
    /\ clock' = clock + 1
    /\ UNCHANGED <<world, process, config, memory, saved, job, scan, used, past>>

UserRemoves(s, p) ==
    /\ Suspended
    /\ world.edit
    /\ p \in DOMAIN folder[s]
    /\ folder' = [folder EXCEPT ![s] = Drop(@, {p})]
    /\ UNCHANGED <<world, process, config, memory, saved, job, scan, clock, used, past>>

TimePasses(s, p) ==
    /\ process = "up"
    /\ Suspended
    /\ p \in DOMAIN seen[s]
    /\ seen[s][p].waits /\ <<p, seen[s][p].stamp>> \notin processed[s]
    /\ seen' = [seen EXCEPT ![s][p].waits = FALSE]
    /\ UNCHANGED <<world, process, config, folder, processed, based, saved, job, scan, clock, used, past>>

-----------------------------------------------------------------------------
(* The queue.  A download is resolved when it is queued and read when it is *)
(* pulled; an upload is read when it is spooled and resolved when it runs.  *)
JobDelivers(j) ==
    /\ process = "up" /\ Suspended
    /\ j \in Owed
    /\ LET s == job[j].side  to == Other(s)
           origin == IF s = "pc" THEN job[j].carries ELSE folder[s][job[j].path].origin IN
       \E dest \in IF s = "pc" THEN Resolved(job[j].path, folder[to], config.policy[s]) ELSE {job[j].dest} :
           /\ s = "android" => job[j].path \in DOMAIN folder[s]
           /\ folder' = [folder EXCEPT ![to] = Put(@, dest, [stamp |-> CopyStamp(j), origin |-> origin])]
           /\ job' = [job EXCEPT ![j].status = "delivered", ![j].dest = dest, ![j].carries = origin]
    /\ UNCHANGED <<world, process, config, memory, saved, scan, clock, used, past>>

JobStops(j) ==
    /\ process = "up" /\ Suspended
    /\ j \in Owed
    /\ Cardinality(Stopped) < MaxFailures
    /\ job' = [job EXCEPT ![j].status = "stopped"]
    /\ UNCHANGED <<world, process, config, folder, memory, saved, scan, clock, used, past>>

Accept(j, s, p, stamp, carries, dest) ==
    job' = [job EXCEPT ![j] = [status |-> "owed", side |-> s, path |-> p, stamp |-> stamp,
                               carries |-> carries, dest |-> dest]]

-----------------------------------------------------------------------------
(* _scan_once_locked: a forced scan (scan_now) lists Android whatever the   *)
(* configuration says.                                                      *)
Tracked(s) == [p \in {p \in DOMAIN seen[s] : seen[s][p].job # NoJob} |-> seen[s][p]]
Step(at, todo) == scan' = [scan EXCEPT !.at = at, !.todo = todo]
Handled(p) == scan' = [scan EXCEPT !.todo = Drop(@, {p})]
ScanSame == UNCHANGED <<world, process, config, job, clock, used, past>>

ScanStarts(force) ==
    /\ process = "up"
    /\ scan.at = "idle"
    /\ force \/ config.watch # {}
    /\ scan' = [at |-> "downloads", todo |-> Tracked("android"), item |-> <<>>,
                sides |-> IF force THEN config.watch \cup {"android"} ELSE config.watch]
    /\ UNCHANGED <<folder, memory, saved>> /\ ScanSame

(* An exception ends the scan; what it has done so far is kept.             *)
ScanFails ==
    /\ process = "up"
    /\ scan.at \in {"stat", "list"}
    /\ scan' = Idle
    /\ UNCHANGED <<folder, memory>> /\ Persist /\ ScanSame

(* A final transfer as _reconcile_downloads and _reconcile_uploads see it.  *)
(* The entries were collected before: one that was cleared since is updated *)
(* all the same, but no longer in the table.                                *)
Update(s, p, e) == IF p \in DOMAIN seen[s] THEN [seen EXCEPT ![s][p] = e] ELSE seen
FailedKept(e) == [e EXCEPT !.waits = TRUE]                          \* mutant: the transfer_id stays
Failed(e) == [e EXCEPT !.job = NoJob, !.waits = TRUE]

ReconcileStopped(s, p) ==
    /\ process = "up"
    /\ scan.at = IF s = "android" THEN "downloads" ELSE "uploads"
    /\ p \in DOMAIN scan.todo
    /\ job[scan.todo[p].job].status = "stopped"
    /\ seen' = Update(s, p, Failed(scan.todo[p]))
    /\ Handled(p)
    /\ UNCHANGED <<folder, processed, based, saved>> /\ ScanSame

ReconcileOwed(s, p) ==
    /\ process = "up"
    /\ scan.at = IF s = "android" THEN "downloads" ELSE "uploads"
    /\ p \in DOMAIN scan.todo
    /\ job[scan.todo[p].job].status = "owed"
    /\ Handled(p)
    /\ UNCHANGED <<folder, memory, saved>> /\ ScanSame

(* _mark_local_processed, and the stat and bookkeeping of an upload: the    *)
(* file that is at the destination now is taken for the copy.               *)
MarkedNothing(s, dest) == {}                                         \* mutant: copies are not marked
MarkedPrints(s, dest) == IF dest \in DOMAIN folder[s] THEN {<<dest, folder[s][dest].stamp>>} ELSE {}
MarkedSeen(s, dest) == IF dest \in DOMAIN folder[s]
                       THEN Put(seen[s], dest, Settled(folder[s][dest].stamp)) ELSE seen[s]

(* Mutant of ReconcileDownload: any final transfer counts as a download.    *)
ReconcileFinal(p) ==
    /\ process = "up"
    /\ scan.at = "downloads"
    /\ p \in DOMAIN scan.todo
    /\ LET e == scan.todo[p] IN
       /\ job[e.job].status \in {"delivered", "stopped"}
       /\ processed' = [processed EXCEPT !["android"] = @ \cup {<<p, e.stamp>>}]
       /\ scan' = IF config.delete THEN [scan EXCEPT !.at = "remove", !.item = p]
                  ELSE [scan EXCEPT !.todo = Drop(@, {p})]
    /\ UNCHANGED <<folder, seen, based, saved>> /\ ScanSame

(* A completed download; its source may be deleted next.                    *)
ReconcileDownload(p) ==
    /\ process = "up"
    /\ scan.at = "downloads"
    /\ p \in DOMAIN scan.todo
    /\ LET e == scan.todo[p] IN
       /\ job[e.job].status = "delivered"
       /\ processed' = [android |-> processed["android"] \cup {<<p, e.stamp>>},
                        pc |-> processed["pc"] \cup MarkedPrints("pc", job[e.job].dest)]
       /\ seen' = [seen EXCEPT !["pc"] = MarkedSeen("pc", job[e.job].dest)]
       /\ IF config.delete /\ ~e.tried
          THEN scan' = [scan EXCEPT !.at = "remove", !.item = p]
          ELSE Handled(p)
    /\ UNCHANGED <<folder, based, saved>> /\ ScanSame

(* _delete_verified_remote: whatever is at the path is removed.             *)
RemoveSource(removed) ==
    /\ process = "up"
    /\ scan.at = "remove"
    /\ folder' = IF removed THEN [folder EXCEPT !["android"] = Drop(@, {scan.item})] ELSE folder
    /\ seen' = Update("android", scan.item, [scan.todo[scan.item] EXCEPT !.tried = TRUE])
    /\ scan' = [scan EXCEPT !.at = "downloads", !.todo = Drop(@, {scan.item}), !.item = <<>>]
    /\ UNCHANGED <<processed, based, saved>> /\ ScanSame

ReconcileUploads ==
    /\ process = "up"
    /\ scan.at = "downloads"
    /\ scan.todo = <<>>
    /\ Step("uploads", Tracked("pc"))
    /\ UNCHANGED <<folder, memory, saved>> /\ ScanSame

ReconcileUpload(p) ==
    /\ process = "up"
    /\ scan.at = "uploads"
    /\ p \in DOMAIN scan.todo
    /\ job[scan.todo[p].job].status = "delivered"
    /\ processed' = [processed EXCEPT !["pc"] = @ \cup {<<p, scan.todo[p].stamp>>}]
    /\ scan' = [scan EXCEPT !.at = "stat", !.item = p]
    /\ UNCHANGED <<folder, seen, based, saved>> /\ ScanSame

StatUploaded ==
    /\ process = "up"
    /\ scan.at = "stat"
    /\ LET dest == job[scan.todo[scan.item].job].dest IN
       /\ processed' = [processed EXCEPT !["android"] = @ \cup MarkedPrints("android", dest)]
       /\ seen' = [seen EXCEPT !["android"] = MarkedSeen("android", dest)]
    /\ scan' = [scan EXCEPT !.at = "uploads", !.todo = Drop(@, {scan.item}), !.item = <<>>]
    /\ UNCHANGED <<folder, based, saved>> /\ ScanSame

-----------------------------------------------------------------------------
ReconcileEnds ==
    /\ process = "up"
    /\ scan.at = "uploads"
    /\ scan.todo = <<>>
    /\ Step(IF "android" \in scan.sides THEN "list" ELSE "listpc", <<>>)
    /\ UNCHANGED <<folder, memory, saved>> /\ ScanSame

(* The listing of a side: the first one of a side whose existing files are  *)
(* not wanted only records them.                                            *)
Lists(s, place, after) ==
    /\ process = "up"
    /\ scan.at = place
    /\ based' = based \cup {s}
    /\ IF s \notin based /\ s \notin config.existing
       THEN /\ processed' = [processed EXCEPT ![s] = @ \cup Prints(folder[s])]
            /\ seen' = [seen EXCEPT ![s] = [p \in DOMAIN @ \cup DOMAIN folder[s] |->
                  IF p \in DOMAIN folder[s] THEN Settled(folder[s][p].stamp) ELSE @[p]]]
            /\ past' = [past EXCEPT !.baselined = @ \cup {<<s, f>> : f \in Prints(folder[s])}]
            /\ Step(after, <<>>)
       ELSE /\ Step(s, [p \in DOMAIN folder[s] |-> folder[s][p].stamp])
            /\ UNCHANGED <<processed, seen, past>>
    /\ UNCHANGED <<world, process, config, folder, job, saved, clock, used>>

ListAndroid == Lists("android", "list", "listpc")

ListPc ==
    \/ "pc" \in scan.sides /\ Lists("pc", "listpc", "pc")
    \/ /\ process = "up"
       /\ scan.at = "listpc"
       /\ "pc" \notin scan.sides
       /\ Step("pc", <<>>)
       /\ UNCHANGED <<folder, memory, saved>> /\ ScanSame

AndroidEnds ==
    /\ process = "up"
    /\ scan.at = "android"
    /\ scan.todo = <<>>
    /\ Step("listpc", <<>>)
    /\ UNCHANGED <<folder, memory, saved>> /\ ScanSame

(* _observe_android_entry and _observe_pc_entry, up to the decision.        *)
Observed(s, p) ==
    LET stamp == scan.todo[p] IN
    IF p \in DOMAIN seen[s] /\ seen[s][p].stamp = stamp
    THEN [seen[s][p] EXCEPT !.count = IF @ < StableAfter THEN @ + 1 ELSE @]
    ELSE Entry(stamp)

(* Mutants of Wanted: a transfer under way, or a baseline, is not looked at. *)
WantedAgain(s, p) ==
    LET e == Observed(s, p) IN
    <<p, e.stamp>> \notin processed[s] /\ e.count >= StableAfter /\ ~e.waits
WantedAnyway(s, p) ==
    LET e == Observed(s, p) IN e.job = NoJob /\ e.count >= StableAfter

Wanted(s, p) ==
    LET e == Observed(s, p) IN
    /\ <<p, e.stamp>> \notin processed[s]
    /\ e.job = NoJob
    /\ e.count >= StableAfter
    /\ ~e.waits

Observe(s, p) ==
    /\ process = "up"
    /\ scan.at = s
    /\ p \in DOMAIN scan.todo
    /\ ~Wanted(s, p)
    /\ seen' = [seen EXCEPT ![s] = Put(@, p, Observed(s, p))]
    /\ Handled(p)
    /\ UNCHANGED <<folder, processed, based, saved>> /\ ScanSame

QueueDownload(p) ==
    /\ process = "up"
    /\ scan.at = "android"
    /\ p \in DOMAIN scan.todo
    /\ Wanted("android", p)
    /\ \E j \in NextJob, dest \in Resolved(p, folder["pc"], config.policy["android"]) :
          /\ Accept(j, "android", p, scan.todo[p], 0, dest)
          /\ seen' = [seen EXCEPT !["android"] = Put(@, p, [Observed("android", p) EXCEPT !.job = j])]
    /\ Handled(p)
    /\ UNCHANGED <<world, process, config, folder, processed, based, saved, clock, used, past>>

(* The queue is full, or the name is taken and the policy says fail.        *)
DownloadRefused(p) ==
    /\ process = "up"
    /\ scan.at = "android"
    /\ p \in DOMAIN scan.todo
    /\ Wanted("android", p)
    /\ \/ NextJob = {} \/ Owed # {}
       \/ Resolved(p, folder["pc"], config.policy["android"]) = {}
    /\ seen' = [seen EXCEPT !["android"] = Put(@, p, Failed(Observed("android", p)))]
    /\ Handled(p)
    /\ UNCHANGED <<folder, processed, based, saved>> /\ ScanSame

SpoolStarts(p) ==
    /\ process = "up"
    /\ scan.at = "pc"
    /\ p \in DOMAIN scan.todo
    /\ Wanted("pc", p)
    /\ seen' = [seen EXCEPT !["pc"] = Put(@, p, Observed("pc", p))]
    /\ scan' = [scan EXCEPT !.at = "spool", !.item = p]
    /\ UNCHANGED <<folder, processed, based, saved>> /\ ScanSame

(* The copy is made and the upload queued.  An entry that was cleared in    *)
(* the meantime is a KeyError, which ends the scan.                         *)
Continues(p) ==
    IF p \in DOMAIN seen["pc"]
    THEN scan' = [scan EXCEPT !.at = "pc", !.todo = Drop(@, {p}), !.item = <<>>] /\ UNCHANGED saved
    ELSE scan' = Idle /\ Persist

(* Mutant of QueueUpload: the transfer_id is not recorded.                  *)
QueueUntracked(p) ==
    /\ process = "up"
    /\ scan.at = "spool" /\ scan.item = p
    /\ p \in DOMAIN folder["pc"]
    /\ \E j \in NextJob : Accept(j, "pc", p, scan.todo[p], folder["pc"][p].origin, <<>>)
    /\ Continues(p)
    /\ UNCHANGED <<world, process, config, folder, seen, processed, based, clock, used, past>>

QueueUpload(p) ==
    /\ process = "up"
    /\ scan.at = "spool" /\ scan.item = p
    /\ p \in DOMAIN folder["pc"]
    /\ \E j \in NextJob :
          /\ Accept(j, "pc", p, scan.todo[p], folder["pc"][p].origin, <<>>)
          /\ seen' = Update("pc", p, [Observed("pc", p) EXCEPT !.job = j])
    /\ Continues(p)
    /\ UNCHANGED <<world, process, config, folder, processed, based, clock, used, past>>

(* The file is gone or changed under the copy, or the queue is full.        *)
UploadRefused(p) ==
    /\ process = "up"
    /\ scan.at = "spool" /\ scan.item = p
    /\ \/ NextJob = {} \/ Owed # {}
       \/ p \notin DOMAIN folder["pc"]
       \/ p \in DOMAIN folder["pc"] /\ folder["pc"][p].stamp # scan.todo[p]
    /\ seen' = Update("pc", p, Failed(Observed("pc", p)))
    /\ Continues(p)
    /\ UNCHANGED <<world, process, config, folder, processed, based, job, clock, used, past>>

(* _trim_processed keeps the most recently marked; which of those marked    *)
(* by one scan is not determined.                                           *)
Trimmed(prints) ==
    IF Cardinality(prints) <= MaxProcessed THEN {prints}
    ELSE {kept \in SUBSET prints : Cardinality(kept) = MaxProcessed}

ScanEnds ==
    /\ process = "up"
    /\ scan.at = "pc"
    /\ scan.todo = <<>>
    /\ scan' = Idle
    /\ \E a \in Trimmed(processed["android"]), b \in Trimmed(processed["pc"]) :
          processed' = [android |-> a, pc |-> b]
    /\ UNCHANGED <<folder, seen, based>> /\ Persist /\ ScanSame

-----------------------------------------------------------------------------
(* Nothing is under way whose outcome the tables have not taken in.         *)
Noted(j) == /\ <<job[j].path, job[j].stamp>> \in processed[job[j].side]
            /\ LET to == Other(job[j].side) IN
               \A p \in DOMAIN folder[to] :
                  folder[to][p].stamp = CopyStamp(j) => <<p, CopyStamp(j)>> \in processed[to]
Quiet == /\ Owed = {}
         /\ \A j \in Jobs : job[j].status = "delivered" => Noted(j)
         /\ scan.at \notin {"remove", "stat", "spool"}
CanForget == used.configures < world.configures /\ (world.forget \/ Quiet)
CountConfigure == used' = [used EXCEPT !.configures = @ + 1]

(* configure() waits for the scan lock; another serial, folder, profile or  *)
(* include_existing resets the side's table and its baseline.               *)
Configure(c) ==
    /\ process = "up" /\ CanForget
    /\ scan.at = "idle"
    /\ c # config
    /\ LET reset == {s \in Sides : (s \in c.existing) # (s \in config.existing)} IN
       /\ seen' = [s \in Sides |-> IF s \in reset THEN <<>> ELSE seen[s]]
       /\ based' = based \ reset
    /\ config' = c
    /\ CountConfigure
    /\ UNCHANGED <<world, process, folder, processed, job, scan, clock, past>> /\ Persist

(* clear_history() takes only _lock: it does not wait for a scan.           *)
ClearHistory ==
    /\ process = "up" /\ CanForget
    /\ Suspended
    /\ seen' = [s \in Sides |-> <<>>]
    /\ processed' = [s \in Sides |-> {}]
    /\ based' = {}
    /\ past' = [baselined |-> {},
                forgotten |-> (1..clock) \cup {CopyStamp(j) : j \in {j \in Jobs : job[j].status = "delivered"}}]
    /\ CountConfigure
    /\ UNCHANGED <<world, process, config, folder, job, scan, clock>> /\ Persist

(* The lifespan closes the monitor, then the queue, which interrupts what   *)
(* it still owes.  The scan is cancelled at its await.                      *)
Interrupted == [j \in Jobs |-> IF j \in Owed THEN [job[j] EXCEPT !.status = "stopped"] ELSE job[j]]

Close ==
    /\ process = "up"
    /\ Suspended
    /\ used.restarts < world.restarts
    /\ Cardinality(Owed \cup Stopped) <= MaxFailures
    /\ process' = "down"
    /\ scan' = Idle
    /\ job' = Interrupted
    /\ used' = [used EXCEPT !.restarts = @ + 1]
    /\ UNCHANGED <<world, config, folder, memory, clock, past>> /\ Persist

Crash ==
    /\ world.crash
    /\ process = "up"
    /\ used.restarts < world.restarts
    /\ Cardinality(Owed \cup Stopped) <= MaxFailures
    /\ process' = "down"
    /\ scan' = Idle
    /\ job' = Interrupted
    /\ used' = [used EXCEPT !.restarts = @ + 1]
    /\ UNCHANGED <<world, config, folder, memory, saved, clock, past>>

(* _load: the tables of the state file.                                     *)
Loaded == IF world.crash THEN saved ELSE <<seen, processed, based>>

Start ==
    /\ process = "down"
    /\ process' = "up"
    /\ seen' = Loaded[1] /\ processed' = Loaded[2] /\ based' = Loaded[3]
    /\ UNCHANGED <<world, config, folder, saved, job, scan, clock, used, past>>

-----------------------------------------------------------------------------
ReconcileStep ==
    \/ ReconcileUploads \/ ReconcileEnds \/ StatUploaded
    \/ \E removed \in BOOLEAN : RemoveSource(removed)
    \/ \E p \in Paths : ReconcileDownload(p) \/ ReconcileUpload(p)
    \/ \E p \in Paths, s \in Sides : ReconcileStopped(s, p) \/ ReconcileOwed(s, p)

ObserveStep ==
    \/ ListAndroid \/ ListPc \/ AndroidEnds \/ ScanEnds
    \/ \E p \in Paths, s \in Sides : Observe(s, p)
    \/ \E p \in Paths : QueueDownload(p) \/ SpoolStarts(p) \/ QueueUpload(p)
    \/ \E p \in Paths : DownloadRefused(p) \/ UploadRefused(p)

QueueStep == \E j \in Jobs : JobDelivers(j) \/ JobStops(j)

UserStep ==
    \/ \E s \in Sides, p \in Paths : UserWrites(s, p) \/ UserRemoves(s, p)
    \/ \E c \in Configs : Configure(c)
    \/ ClearHistory

Next ==
    \/ \E force \in BOOLEAN : ScanStarts(force)
    \/ ReconcileStep \/ ObserveStep \/ ScanFails
    \/ QueueStep
    \/ \E s \in Sides, p \in Paths : TimePasses(s, p)
    \/ UserStep
    \/ Close \/ Start \/ Crash

(* The loop runs what is ready, the background task scans again, transfers  *)
(* end and time passes; an ADB listing or stat that is tried again and      *)
(* again succeeds in the end.                                               *)
Fairness ==
    /\ WF_vars(ScanStarts(FALSE) \/ Start)
    /\ WF_vars(ReconcileStep \/ ObserveStep)
    /\ SF_vars(StatUploaded)
    /\ SF_vars(ListAndroid)
    /\ SF_vars(QueueStep)
    /\ SF_vars(\E s \in Sides, p \in Paths : TimePasses(s, p))

Spec == Init /\ [][Next]_vars
FairSpec == Spec /\ Fairness

-----------------------------------------------------------------------------
TypeOK ==
    /\ world \in Worlds
    /\ process \in {"up", "down"}
    /\ config \in Configs
    /\ \A s \in Sides :
          /\ DOMAIN folder[s] \subseteq Paths
          /\ \A p \in DOMAIN folder[s] : folder[s][p] \in [stamp : Stamps, origin : 1..MaxWrites]
          /\ DOMAIN seen[s] \subseteq Paths
          /\ \A p \in DOMAIN seen[s] : seen[s][p] \in
                [stamp : Stamps, count : 1..StableAfter, waits : BOOLEAN, job : 0..MaxJobs, tried : BOOLEAN]
          /\ processed[s] \subseteq Paths \X Stamps
    /\ based \subseteq Sides
    /\ \A j \in Jobs :
          /\ job[j].status \in {"none", "owed", "delivered", "stopped"}
          /\ job[j].side \in Sides
          /\ {job[j].stamp, job[j].carries} \subseteq Stamps \cup {0}
          /\ {job[j].path, job[j].dest} \subseteq Paths \cup {<<>>}
    /\ scan.at \in ScanPlaces
    /\ scan.item \in Paths \cup {<<>>}
    /\ DOMAIN scan.todo \subseteq Paths
    /\ clock \in 0..MaxWrites

Accepted == {j \in Jobs : job[j].status # "none"}

(* Nothing the design leaves out happens: no file changes while it is being *)
(* transferred, no history is forgotten with transfers under way, no crash. *)
Calm == ~world.edit /\ ~world.crash /\ ~world.forget

(* The two sides' own files have different names, and no history has been   *)
(* cleared since there were files: a clear makes every copy a new file, and *)
(* a copy that meets a file of its name is marked with the wrong stamp.     *)
Apart == \A p \in world.paths["android"], q \in world.paths["pc"] : p[1] # q[1]
Orderly == Calm /\ Apart /\ past.forgotten = {}

(* No copy that a transfer has written is queued to be transferred back     *)
(* (_mark_local_processed, and the stat of an uploaded file), unless the    *)
(* user has cleared the history since.                                      *)
LoopFree ==
    \A j \in Accepted : job[j].stamp > MaxWrites => job[j].stamp \in past.forgotten

(* In orderly surroundings the two directions never bounce a file, however  *)
(* the deliveries fall between the awaits of a scan.                        *)
OrderlyIsLoopFree == Orderly => LoopFree

(* One version of a file is queued again only after its transfer stopped:   *)
(* the interplay of the observed entry, its transfer_id and the processed   *)
(* fingerprints over failures, restarts and resets.                         *)
QueuedOnce ==
    Calm => \A i, j \in Accepted \ Stopped :
        /\ job[i].side = job[j].side /\ job[i].path = job[j].path /\ job[i].stamp = job[j].stamp
        => i = j \/ job[i].stamp \in past.forgotten

(* Every transfer that the queue still owes is known to an observed entry,  *)
(* so that its outcome will be taken in, across restarts and failures.      *)
OwedIsTracked ==
    Orderly => \A j \in Owed : LET s == job[j].side  p == job[j].path IN
                p \in DOMAIN seen[s] /\ seen[s][p].job = j

(* A baseline is only safe once it is saved: after a crash that lost it, a  *)
(* configuration may ask for the existing files.                            *)
Durable == ~world.crash \/ used.configures = 0

(* A file that was there before its folder was watched is never queued      *)
(* (include_existing), whatever the user edits, clears or configures        *)
(* afterwards, or whenever the process crashes under one configuration.     *)
BaselineStays ==
    [][Durable => \A j \in Jobs : job[j].status = "none" /\ job'[j].status = "owed" =>
          <<job'[j].side, <<job'[j].path, job'[j].stamp>>>> \notin past.baselined]_vars

(* The monitor deletes an Android file only if that version of it has been  *)
(* delivered to the PC (_delete_verified_remote).                           *)
DeletesDelivered ==
    scan.at = "remove" /\ folder'["android"] # folder["android"] =>
         \E j \in Jobs :
             /\ job[j].status = "delivered" /\ job[j].side = "android"
             /\ job[j].carries = folder["android"][scan.item].origin
DeletesOnlyDelivered == [][DeletesDelivered]_vars

(* The same in orderly surroundings, where nobody changes the files.        *)
OrderlyDeletesDelivered == [][Orderly => DeletesDelivered]_vars

(* A version of a file that the user has written and left alone on a        *)
(* watched side is delivered in the end, through failed scans, failed       *)
(* transfers and restarts, unless it was there before the watch.            *)
Arrived(n) == \E j \in Jobs : job[j].status = "delivered" /\ job[j].carries = n
Due(n) == \E s \in config.watch : \E p \in DOMAIN folder[s] :
              /\ folder[s][p].stamp = n
              /\ <<s, <<p, n>>>> \notin past.baselined
              /\ past.forgotten = {}
FilesArrive == \A n \in 1..MaxWrites : Due(n) ~> ~Due(n) \/ Arrived(n)

=============================================================================
