--------------------------- MODULE FolderSyncProofs ---------------------------
(***************************************************************************)
(* Theorems about FolderSync, for any names, configurations, surroundings  *)
(* and bounds: what the two-way folder monitor queues, and what it never   *)
(* queues, through failed transfers, failed scans and restarts.            *)
(***************************************************************************)
EXTENDS FolderSync, FiniteSetTheorems, TLAPS

(* The state file has room for every fingerprint there may be: without it   *)
(* what was trimmed is taken for new.                                       *)
Roomy == Cardinality(Paths \X Stamps) <= MaxProcessed

FolderFiles == [stamp : Stamps, origin : 1..MaxWrites]
Observations ==
    [stamp : Stamps, count : 1..StableAfter, waits : BOOLEAN, job : 0..MaxJobs, tried : BOOLEAN]
Records ==
    [status : {"none", "owed", "delivered", "stopped"}, side : Sides, path : Paths \cup {<<>>},
     stamp : Stamps \cup {0}, carries : 0..MaxWrites, dest : Paths \cup {<<>>}]

RecordTyped(r) ==
    r.status # "none" =>
        /\ r.path \in Paths /\ r.stamp \in Stamps
        /\ r.side = "android" => r.dest \in Paths
        /\ r.side = "pc" => r.carries \in 1..MaxWrites
        /\ r.status = "delivered" => r.dest \in Paths

(* A table from some of the paths to values in S.                           *)
IsTable(f, S) == DOMAIN f \subseteq Paths /\ \A p \in DOMAIN f : f[p] \in S
FolderTyped(f) == DOMAIN f = Sides /\ \A s \in Sides : IsTable(f[s], FolderFiles)
SeenTyped(t) == DOMAIN t = Sides /\ \A s \in Sides : IsTable(t[s], Observations)
PrintsTyped(t) == t \in [Sides -> SUBSET (Paths \X Stamps)]

ScanTyped(sc) ==
    /\ DOMAIN sc = {"at", "todo", "item", "sides"}
    /\ sc.at \in ScanPlaces
    /\ sc.at \in {"downloads", "remove", "uploads", "stat"} =>
          IsTable(sc.todo, Observations) /\ \A p \in DOMAIN sc.todo : sc.todo[p].job # NoJob
    /\ sc.at \in {"android", "pc", "spool"} => IsTable(sc.todo, Stamps)
    /\ sc.at \in {"remove", "stat", "spool"} => sc.item \in DOMAIN sc.todo
    /\ DOMAIN sc.todo \subseteq Paths /\ sc.item \in Paths \cup {<<>>}

Typed ==
    /\ world \in Worlds
    /\ clock \in 0..MaxWrites
    /\ FolderTyped(folder)
    /\ SeenTyped(seen) /\ PrintsTyped(processed)
    /\ SeenTyped(saved[1]) /\ PrintsTyped(saved[2])
    /\ job \in [Jobs -> Records]
    /\ \A j \in Jobs : RecordTyped(job[j])
    /\ ScanTyped(scan)
    /\ DOMAIN past = {"baselined", "forgotten"}

-----------------------------------------------------------------------------
(* Tables.                                                                  *)

LEMMA PutTable ==
  ASSUME NEW S, NEW f, IsTable(f, S), NEW p \in Paths, NEW v \in S
  PROVE  /\ IsTable(Put(f, p, v), S)
         /\ DOMAIN Put(f, p, v) = DOMAIN f \cup {p}
         /\ Put(f, p, v)[p] = v
         /\ \A q \in DOMAIN f \ {p} : Put(f, p, v)[q] = f[q]
  BY DEF IsTable, Put

LEMMA DropTable ==
  ASSUME NEW S, NEW f, IsTable(f, S), NEW ps
  PROVE  /\ IsTable(Drop(f, ps), S)
         /\ DOMAIN Drop(f, ps) = DOMAIN f \ ps
         /\ \A q \in DOMAIN f \ ps : Drop(f, ps)[q] = f[q]
  BY DEF IsTable, Drop

LEMMA DropTodo ==
  ASSUME NEW f, IsTable(f, Observations), \A p \in DOMAIN f : f[p].job # NoJob, NEW ps
  PROVE  IsTable(Drop(f, ps), Observations) /\ \A q \in DOMAIN Drop(f, ps) : Drop(f, ps)[q].job # NoJob
<1>1. IsTable(Drop(f, ps), Observations)
  BY DropTable
<1>2. \A q \in DOMAIN Drop(f, ps) : q \in DOMAIN f /\ Drop(f, ps)[q] = f[q]
  BY DEF Drop
<1> QED
  BY <1>1, <1>2

LEMMA EmptyTable == DOMAIN <<>> = {} /\ \A S : IsTable(<<>>, S)
<1>1. DOMAIN <<>> = {}
  OBVIOUS
<1> QED
  BY <1>1 DEF IsTable

LEMMA SeenPut ==
  ASSUME NEW t, SeenTyped(t), NEW s \in Sides, NEW f, IsTable(f, Observations)
  PROVE  SeenTyped([t EXCEPT ![s] = f])
  BY DEF SeenTyped

LEMMA PrintsPut ==
  ASSUME NEW t, PrintsTyped(t), NEW s \in Sides, NEW X, X \subseteq Paths \X Stamps
  PROVE  PrintsTyped([t EXCEPT ![s] = t[s] \cup X])
<1> DEFINE P == Paths \X Stamps
<1>1. t \in [Sides -> SUBSET P] /\ X \in SUBSET P
  BY DEF PrintsTyped
<1> HIDE DEF P
<1>2. [t EXCEPT ![s] = t[s] \cup X] \in [Sides -> SUBSET P]
  BY <1>1
<1> QED
  BY <1>2 DEF P, PrintsTyped

LEMMA Bounds ==
  /\ IsFiniteSet(Names)
  /\ StableAfter \in Nat /\ StableAfter >= 2
  /\ MaxCopies \in Nat /\ MaxWrites \in Nat /\ MaxJobs \in Nat /\ MaxProcessed \in Nat
<1>1. StableAfter \in 2..20
  BY FolderAssumption
<1> QED
  BY <1>1, FolderAssumption

LEMMA EntryTyped ==
  ASSUME NEW n \in Stamps
  PROVE  /\ Entry(n) \in Observations /\ Entry(n).stamp = n /\ Entry(n).job = NoJob
         /\ Settled(n) \in Observations /\ Settled(n).stamp = n /\ Settled(n).job = NoJob
<1>1. Entry(n) \in Observations /\ Entry(n).stamp = n /\ Entry(n).job = NoJob
  BY Bounds DEF Entry, Observations, NoJob
<1>2. Settled(n) = [Entry(n) EXCEPT !.count = StableAfter] /\ StableAfter \in 1..StableAfter
  BY Bounds DEF Settled
<1> HIDE DEF Entry, Settled
<1> QED
  BY <1>1, <1>2 DEF Observations

LEMMA FailedTyped ==
  ASSUME NEW e \in Observations
  PROVE  /\ Failed(e) \in Observations /\ Failed(e).stamp = e.stamp /\ Failed(e).job = NoJob
<1>1. NoJob \in 0..MaxJobs
  BY Bounds DEF NoJob
<1> HIDE DEF NoJob
<1>2. [e EXCEPT !.job = NoJob] \in Observations
  BY <1>1 DEF Observations
<1> QED
  BY <1>1, <1>2 DEF Failed, Observations

LEMMA ObservedTyped ==
  ASSUME Typed, NEW s \in Sides, NEW p \in DOMAIN scan.todo, scan.at \in {"android", "pc", "spool"}
  PROVE  /\ p \in Paths /\ scan.todo[p] \in Stamps
         /\ Observed(s, p) \in Observations /\ Observed(s, p).stamp = scan.todo[p]
         /\ IF p \in DOMAIN seen[s] /\ seen[s][p].stamp = scan.todo[p]
            THEN Observed(s, p).job = seen[s][p].job
            ELSE Observed(s, p).job = NoJob
<1>1. p \in Paths /\ scan.todo[p] \in Stamps
  BY DEF Typed, ScanTyped, IsTable
<1>2. CASE p \in DOMAIN seen[s] /\ seen[s][p].stamp = scan.todo[p]
  <2> DEFINE e == seen[s][p]
  <2>1. e \in Observations
    BY <1>2 DEF Typed, SeenTyped, IsTable
  <2>2. Observed(s, p) = [e EXCEPT !.count = IF @ < StableAfter THEN @ + 1 ELSE @]
    BY <1>2 DEF Observed
  <2> HIDE DEF e
  <2>3. Observed(s, p) \in Observations /\ Observed(s, p).stamp = e.stamp /\ Observed(s, p).job = e.job
    BY <2>1, <2>2, Bounds DEF Observations
  <2> QED
    BY <1>1, <1>2, <2>3 DEF e
<1>3. CASE ~(p \in DOMAIN seen[s] /\ seen[s][p].stamp = scan.todo[p])
  <2>1. Observed(s, p) = Entry(scan.todo[p])
    BY <1>3 DEF Observed
  <2> QED
    BY <1>1, <1>3, <2>1, EntryTyped
<1> QED
  BY <1>2, <1>3

LEMMA UpdateTyped ==
  ASSUME Typed, NEW s \in Sides, NEW p \in Paths, NEW e \in Observations
  PROVE  SeenTyped(Update(s, p, e))
<1>1. CASE p \in DOMAIN seen[s]
  BY <1>1 DEF Update, Typed, SeenTyped, IsTable
<1>2. CASE p \notin DOMAIN seen[s]
  BY <1>2 DEF Update, Typed
<1> QED
  BY <1>1, <1>2

LEMMA MarkedTyped ==
  ASSUME Typed, NEW s \in Sides, NEW d \in Paths
  PROVE  /\ MarkedPrints(s, d) \subseteq Paths \X Stamps
         /\ IsTable(MarkedSeen(s, d), Observations)
<1>1. CASE d \in DOMAIN folder[s]
  <2>1. folder[s][d].stamp \in Stamps
    BY <1>1 DEF Typed, FolderTyped, IsTable, FolderFiles
  <2>2. IsTable(seen[s], Observations)
    BY DEF Typed, SeenTyped
  <2> QED
    <3>1. Settled(folder[s][d].stamp) \in Observations
      BY <2>1, EntryTyped
    <3>2. IsTable(Put(seen[s], d, Settled(folder[s][d].stamp)), Observations)
      BY <2>2, <3>1, PutTable
    <3> QED
      BY <1>1, <2>1, <3>2 DEF MarkedPrints, MarkedSeen
<1>2. CASE d \notin DOMAIN folder[s]
  BY <1>2 DEF MarkedPrints, MarkedSeen, Typed, SeenTyped
<1> QED
  BY <1>1, <1>2

(* Free paths are paths.                                                    *)
LEMMA ResolvedTyped ==
  ASSUME NEW p \in Paths, NEW files, NEW policy
  PROVE  Resolved(p, files, policy) \subseteq Paths
<1>1. \A i \in 1..MaxCopies : <<p[1], i>> \in Paths
  BY Bounds DEF Paths
<1> QED
  BY <1>1 DEF Resolved

-----------------------------------------------------------------------------
(* Types.                                                                   *)

LEMMA TypedFrame ==
  ASSUME Typed, UNCHANGED <<world, job>>, clock' \in 0..MaxWrites,
         FolderTyped(folder'), SeenTyped(seen'), PrintsTyped(processed'), ScanTyped(scan'),
         DOMAIN past' = DOMAIN past, UNCHANGED saved \/ Persist
  PROVE  Typed'
<1>1. SeenTyped(saved'[1]) /\ PrintsTyped(saved'[2])
  BY DEF Typed, Persist
<1> QED
  BY <1>1 DEF Typed, FolderTyped, SeenTyped, PrintsTyped, ScanTyped, IsTable

LEMMA StepTyped ==
  ASSUME Typed, NEW at \in ScanPlaces, NEW todo, Step(at, todo),
         at \in {"downloads", "remove", "uploads", "stat"} =>
            IsTable(todo, Observations) /\ \A p \in DOMAIN todo : todo[p].job # NoJob,
         at \in {"android", "pc", "spool"} => IsTable(todo, Stamps),
         at \notin {"remove", "stat", "spool"}, DOMAIN todo \subseteq Paths
  PROVE  ScanTyped(scan') /\ scan'.at = at /\ scan'.todo = todo
  BY DEF Typed, ScanTyped, Step

LEMMA HandledTyped ==
  ASSUME Typed, NEW p, Handled(p), scan.at \notin {"remove", "stat", "spool"}
  PROVE  ScanTyped(scan') /\ scan'.at = scan.at /\ scan'.todo = Drop(scan.todo, {p})
<1>1. /\ scan.at \in {"downloads", "uploads"} =>
            /\ IsTable(Drop(scan.todo, {p}), Observations)
            /\ \A q \in DOMAIN Drop(scan.todo, {p}) : Drop(scan.todo, {p})[q].job # NoJob
      /\ scan.at \in {"android", "pc"} => IsTable(Drop(scan.todo, {p}), Stamps)
  <2>1. CASE scan.at \in {"downloads", "uploads"}
    BY <2>1, DropTodo DEF Typed, ScanTyped
  <2>2. CASE scan.at \in {"android", "pc"}
    BY <2>2, DropTable DEF Typed, ScanTyped
  <2> QED
    BY <2>1, <2>2
<1> QED
  <2>1. DOMAIN Drop(scan.todo, {p}) \subseteq Paths
    BY DEF Typed, ScanTyped, Drop
  <2> QED
    BY <1>1, <2>1 DEF Typed, ScanTyped, Handled, ScanPlaces

LEMMA TrackedTyped ==
  ASSUME Typed, NEW s \in Sides
  PROVE  /\ IsTable(Tracked(s), Observations) /\ \A p \in DOMAIN Tracked(s) : Tracked(s)[p].job # NoJob
         /\ DOMAIN Tracked(s) \subseteq Paths
  BY DEF Typed, SeenTyped, IsTable, Tracked

LEMMA IdleTyped == ScanTyped(Idle)
  BY DEF ScanTyped, Idle, ScanPlaces

(* The steps of a scan that only move it on.                                *)
LEMMA MovingTyped ==
  ASSUME Typed,
         \/ \E force \in BOOLEAN : ScanStarts(force)
         \/ ScanFails \/ ReconcileUploads \/ ReconcileEnds \/ AndroidEnds
         \/ \E p \in Paths, s \in Sides : ReconcileOwed(s, p)
  PROVE  Typed'
<1>1. /\ UNCHANGED <<world, job, clock, folder, seen, processed, past>>
      /\ UNCHANGED saved \/ Persist
  BY DEF ScanStarts, ScanFails, ReconcileUploads, ReconcileEnds, AndroidEnds, ReconcileOwed, ScanSame, memory
<1>2. ScanTyped(scan')
  <2>1. CASE \E force \in BOOLEAN : ScanStarts(force)
    BY <2>1, TrackedTyped DEF ScanStarts, ScanTyped, ScanPlaces, Sides
  <2>2. CASE ScanFails
    BY <2>2, IdleTyped DEF ScanFails
  <2>3. CASE ReconcileUploads
    BY <2>3, TrackedTyped, StepTyped DEF ReconcileUploads, ScanPlaces, Sides
  <2>4. CASE ReconcileEnds \/ AndroidEnds
    BY <2>4, EmptyTable, StepTyped DEF ReconcileEnds, AndroidEnds, ScanPlaces
  <2>5. CASE \E p \in Paths, s \in Sides : ReconcileOwed(s, p)
    BY <2>5, HandledTyped DEF ReconcileOwed
  <2> QED
    BY <2>1, <2>2, <2>3, <2>4, <2>5
<1>3. /\ clock \in 0..MaxWrites /\ FolderTyped(folder) /\ SeenTyped(seen) /\ PrintsTyped(processed)
  BY DEF Typed
<1> QED
  BY <1>1, <1>2, <1>3, TypedFrame

(* The reconciliation.                                                      *)
LEMMA TodoTyped ==
  ASSUME Typed, NEW p \in DOMAIN scan.todo, scan.at \in {"downloads", "remove", "uploads", "stat"}
  PROVE  /\ p \in Paths /\ scan.todo[p] \in Observations /\ scan.todo[p].job \in Jobs
         /\ scan.todo[p].stamp \in Stamps /\ job[scan.todo[p].job] \in Records
         /\ RecordTyped(job[scan.todo[p].job])
<1>1. p \in Paths /\ scan.todo[p] \in Observations /\ scan.todo[p].job # NoJob
  BY DEF Typed, ScanTyped, IsTable
<1>2. scan.todo[p].job \in Jobs /\ scan.todo[p].stamp \in Stamps
  BY <1>1, Bounds DEF Observations, NoJob, Jobs
<1> QED
  BY <1>1, <1>2 DEF Typed

LEMMA ReconcilingTyped ==
  ASSUME Typed,
         \/ \E removed \in BOOLEAN : RemoveSource(removed)
         \/ \E p \in Paths : ReconcileDownload(p) \/ ReconcileUpload(p)
         \/ \E p \in Paths, s \in Sides : ReconcileStopped(s, p)
         \/ StatUploaded
  PROVE  Typed'
<1>1. /\ clock \in 0..MaxWrites /\ FolderTyped(folder) /\ SeenTyped(seen) /\ PrintsTyped(processed)
      /\ ScanTyped(scan)
  BY DEF Typed
<1>2. CASE \E removed \in BOOLEAN : RemoveSource(removed)
  <2>1. PICK removed \in BOOLEAN : RemoveSource(removed)
    BY <1>2
  <2>2. scan.item \in DOMAIN scan.todo /\ scan.at = "remove"
    BY <1>1, <2>1 DEF RemoveSource, ScanTyped
  <2>3. scan.todo[scan.item] \in Observations /\ scan.item \in Paths
    BY <2>2, TodoTyped
  <2>4. [scan.todo[scan.item] EXCEPT !.tried = TRUE] \in Observations
    BY <2>3 DEF Observations
  <2>5. SeenTyped(seen')
    BY <2>1, <2>3, <2>4, UpdateTyped DEF RemoveSource, Sides
  <2>6. FolderTyped(folder')
    BY <1>1, <2>1, DropTable DEF RemoveSource, FolderTyped, Sides
  <2>7. /\ IsTable(Drop(scan.todo, {scan.item}), Observations)
        /\ \A q \in DOMAIN Drop(scan.todo, {scan.item}) : Drop(scan.todo, {scan.item})[q].job # NoJob
    BY <1>1, <2>2, DropTodo DEF ScanTyped
  <2>8. ScanTyped(scan')
    BY <1>1, <2>1, <2>7 DEF RemoveSource, ScanTyped, ScanPlaces, IsTable
  <2> QED
    BY <1>1, <2>1, <2>5, <2>6, <2>8, TypedFrame DEF RemoveSource, ScanSame
<1>3. ASSUME NEW p \in Paths, ReconcileDownload(p) PROVE Typed'
  <2> DEFINE e == scan.todo[p]
             dest == job[e.job].dest
  <2>1. p \in DOMAIN scan.todo /\ scan.at = "downloads" /\ job[e.job].status = "delivered"
    BY <1>3 DEF ReconcileDownload
  <2>2. e.stamp \in Stamps /\ dest \in Paths
    BY <2>1, TodoTyped DEF RecordTyped
  <2>3. MarkedPrints("pc", dest) \subseteq Paths \X Stamps /\ IsTable(MarkedSeen("pc", dest), Observations)
    BY <2>2, MarkedTyped DEF Sides
  <2>4. SeenTyped(seen')
    BY <1>1, <1>3, <2>3, SeenPut DEF ReconcileDownload, Sides
  <2>5. PrintsTyped(processed')
    <3>1. processed["android"] \subseteq Paths \X Stamps /\ processed["pc"] \subseteq Paths \X Stamps
      BY <1>1 DEF PrintsTyped, Sides
    <3>2. processed' = [android |-> processed["android"] \cup {<<p, e.stamp>>},
                        pc |-> processed["pc"] \cup MarkedPrints("pc", dest)]
      BY <1>3 DEF ReconcileDownload
    <3> HIDE DEF e, dest
    <3>3. \A s \in Sides : processed'[s] \subseteq Paths \X Stamps
      BY <2>2, <2>3, <3>1, <3>2 DEF Sides
    <3> QED
      BY <3>2, <3>3 DEF PrintsTyped, Sides
  <2>6. ScanTyped(scan')
    <3>1. CASE Handled(p)
      BY <2>1, <3>1, HandledTyped
    <3>2. CASE scan' = [scan EXCEPT !.at = "remove", !.item = p]
      BY <1>1, <2>1, <3>2 DEF ScanTyped, ScanPlaces
    <3> QED
      BY <1>3, <3>1, <3>2 DEF ReconcileDownload
  <2> QED
    BY <1>1, <1>3, <2>4, <2>5, <2>6, TypedFrame DEF ReconcileDownload, ScanSame
<1>4. ASSUME NEW p \in Paths, ReconcileUpload(p) PROVE Typed'
  <2>1. p \in DOMAIN scan.todo /\ scan.at = "uploads" /\ scan.todo[p].stamp \in Stamps
    BY <1>4, TodoTyped DEF ReconcileUpload
  <2>2. PrintsTyped(processed')
    <3>1. <<p, scan.todo[p].stamp>> \in Paths \X Stamps
      BY <2>1
    <3>2. processed' = [processed EXCEPT !["pc"] = processed["pc"] \cup {<<p, scan.todo[p].stamp>>}]
      BY <1>4 DEF ReconcileUpload
    <3> QED
      BY <1>1, <3>1, <3>2, PrintsPut DEF Sides
  <2>3. ScanTyped(scan')
    BY <1>1, <1>4, <2>1 DEF ReconcileUpload, ScanTyped, ScanPlaces
  <2> QED
    BY <1>1, <1>4, <2>2, <2>3, TypedFrame DEF ReconcileUpload, ScanSame
<1>5. ASSUME NEW p \in Paths, NEW s \in Sides, ReconcileStopped(s, p) PROVE Typed'
  <2>1. /\ p \in DOMAIN scan.todo /\ scan.at \in {"downloads", "uploads"} /\ Handled(p)
        /\ seen' = Update(s, p, Failed(scan.todo[p]))
    BY <1>5 DEF ReconcileStopped
  <2>2. Failed(scan.todo[p]) \in Observations
    BY <2>1, TodoTyped, FailedTyped
  <2>3. SeenTyped(seen') /\ ScanTyped(scan')
    BY <2>1, <2>2, UpdateTyped, HandledTyped
  <2> QED
    BY <1>1, <1>5, <2>3, TypedFrame DEF ReconcileStopped, ScanSame
<1>6. CASE StatUploaded
  <2> DEFINE dest == job[scan.todo[scan.item].job].dest
  <2>1. scan.item \in DOMAIN scan.todo /\ scan.at = "stat"
    BY <1>1, <1>6 DEF StatUploaded, ScanTyped
  <2>2. dest \in Paths \cup {<<>>}
    BY <2>1, TodoTyped DEF Records
  <2>3. MarkedPrints("android", dest) \subseteq Paths \X Stamps /\ IsTable(MarkedSeen("android", dest), Observations)
    <3>1. CASE dest \in Paths
      BY <3>1, MarkedTyped DEF Sides
    <3>2. CASE dest \notin Paths
      BY <1>1, <3>2 DEF MarkedPrints, MarkedSeen, FolderTyped, SeenTyped, IsTable, Sides
    <3> QED
      BY <3>1, <3>2
  <2>4. SeenTyped(seen') /\ PrintsTyped(processed')
    BY <1>1, <1>6, <2>3, SeenPut, PrintsPut DEF StatUploaded, Sides
  <2>5. /\ IsTable(Drop(scan.todo, {scan.item}), Observations)
        /\ \A q \in DOMAIN Drop(scan.todo, {scan.item}) : Drop(scan.todo, {scan.item})[q].job # NoJob
    BY <1>1, <2>1, DropTodo DEF ScanTyped
  <2>6. ScanTyped(scan')
    BY <1>1, <1>6, <2>5 DEF StatUploaded, ScanTyped, ScanPlaces, IsTable
  <2> QED
    BY <1>1, <1>6, <2>4, <2>6, TypedFrame DEF StatUploaded, ScanSame
<1> QED
  BY <1>2, <1>3, <1>4, <1>5, <1>6

(* The listing and what is queued.                                          *)
LEMMA ListsTyped ==
  ASSUME Typed, NEW s \in Sides, NEW place, NEW after \in {"listpc", "pc"}, Lists(s, place, after)
  PROVE  Typed'
<1>1. /\ clock \in 0..MaxWrites /\ FolderTyped(folder) /\ SeenTyped(seen) /\ PrintsTyped(processed)
      /\ ScanTyped(scan)
  BY DEF Typed
<1>2. /\ IsTable(folder[s], FolderFiles) /\ IsTable(seen[s], Observations)
      /\ \A p \in DOMAIN folder[s] : p \in Paths /\ folder[s][p].stamp \in Stamps
  BY <1>1 DEF FolderTyped, SeenTyped, IsTable, FolderFiles
<1>3. CASE s \notin based /\ s \notin config.existing
  <2> DEFINE new == [p \in DOMAIN seen[s] \cup DOMAIN folder[s] |->
                  IF p \in DOMAIN folder[s] THEN Settled(folder[s][p].stamp) ELSE seen[s][p]]
  <2>1. /\ processed' = [processed EXCEPT ![s] = processed[s] \cup Prints(folder[s])]
        /\ seen' = [seen EXCEPT ![s] = new]
        /\ past' = [past EXCEPT !.baselined = @ \cup {<<s, f>> : f \in Prints(folder[s])}]
        /\ Step(after, <<>>)
    BY <1>3 DEF Lists
  <2>2. Prints(folder[s]) \subseteq Paths \X Stamps
    BY <1>2 DEF Prints
  <2>3. IsTable(new, Observations)
    BY <1>2, EntryTyped DEF IsTable
  <2>4. SeenTyped(seen') /\ PrintsTyped(processed')
    BY <1>1, <2>1, <2>2, <2>3, SeenPut, PrintsPut
  <2>5. ScanTyped(scan')
    BY <2>1, EmptyTable, StepTyped DEF ScanPlaces
  <2>6. DOMAIN past' = DOMAIN past
    BY <2>1
  <2> QED
    BY <1>1, <2>4, <2>5, <2>6, TypedFrame DEF Lists
<1>4. CASE ~(s \notin based /\ s \notin config.existing)
  <2> DEFINE list == [p \in DOMAIN folder[s] |-> folder[s][p].stamp]
  <2>1. Step(s, list) /\ UNCHANGED <<processed, seen, past>>
    BY <1>4 DEF Lists
  <2>2. IsTable(list, Stamps) /\ DOMAIN list \subseteq Paths
    BY <1>2 DEF IsTable
  <2>3. ScanTyped(scan')
    BY <2>1, <2>2, StepTyped DEF ScanPlaces, Sides
  <2> QED
    BY <1>1, <2>1, <2>3, TypedFrame DEF Lists
<1> QED
  BY <1>3, <1>4

LEMMA ListingTyped ==
  ASSUME Typed, ListAndroid \/ ListPc
  PROVE  Typed'
<1>1. CASE ListAndroid \/ Lists("pc", "listpc", "pc")
  BY <1>1, ListsTyped DEF ListAndroid, Sides
<1>2. CASE /\ Step("pc", <<>>)
           /\ UNCHANGED <<folder, memory, saved>> /\ ScanSame
  <2>1. ScanTyped(scan')
    BY <1>2, EmptyTable, StepTyped DEF ScanPlaces
  <2>2. /\ clock \in 0..MaxWrites /\ FolderTyped(folder) /\ SeenTyped(seen) /\ PrintsTyped(processed)
    BY DEF Typed
  <2> QED
    BY <1>2, <2>1, <2>2, TypedFrame DEF ScanSame, memory
<1> QED
  BY <1>1, <1>2 DEF ListPc

LEMMA SeenPutTyped ==
  ASSUME Typed, NEW s \in Sides, NEW p \in Paths, NEW e \in Observations
  PROVE  SeenTyped([seen EXCEPT ![s] = Put(seen[s], p, e)])
<1>1. IsTable(seen[s], Observations)
  BY DEF Typed, SeenTyped
<1> QED
  BY <1>1, PutTable, SeenPut DEF Typed

(* A job is accepted.                                                       *)
LEMMA AcceptTyped ==
  ASSUME Typed, NEW j \in Jobs, NEW s \in Sides, NEW p \in Paths, NEW n \in Stamps,
         NEW carries \in 0..MaxWrites, NEW dest \in Paths \cup {<<>>}, Accept(j, s, p, n, carries, dest),
         s = "android" => dest \in Paths, s = "pc" => carries \in 1..MaxWrites,
         UNCHANGED <<world, clock, folder, processed, past>>,
         SeenTyped(seen'), ScanTyped(scan'), UNCHANGED saved \/ Persist
  PROVE  Typed'
<1> DEFINE r == [status |-> "owed", side |-> s, path |-> p, stamp |-> n, carries |-> carries, dest |-> dest]
<1>1. r \in Records /\ RecordTyped(r)
  BY DEF Records, RecordTyped, Sides
<1>2. job' = [job EXCEPT ![j] = r]
  BY DEF Accept
<1> HIDE DEF r
<1>3. job' \in [Jobs -> Records] /\ \A i \in Jobs : RecordTyped(job'[i])
  BY <1>1, <1>2 DEF Typed
<1>4. SeenTyped(saved'[1]) /\ PrintsTyped(saved'[2])
  BY DEF Typed, Persist
<1>5. FolderTyped(folder') /\ PrintsTyped(processed')
  BY DEF Typed
<1> QED
  BY <1>3, <1>4, <1>5 DEF Typed

LEMMA JobNumber ==
  ASSUME NEW e \in Observations, NEW j \in 0..MaxJobs
  PROVE  [e EXCEPT !.job = j] \in Observations
  BY DEF Observations

LEMMA ContinuesTyped ==
  ASSUME Typed, NEW p, scan.at = "spool", Continues(p)
  PROVE  ScanTyped(scan') /\ (UNCHANGED saved \/ Persist)
<1>1. IsTable(Drop(scan.todo, {p}), Stamps)
  BY DropTable DEF Typed, ScanTyped
<1>2. CASE p \in DOMAIN seen["pc"]
  BY <1>1, <1>2 DEF Continues, Typed, ScanTyped, ScanPlaces, IsTable
<1>3. CASE p \notin DOMAIN seen["pc"]
  BY <1>3, IdleTyped DEF Continues
<1> QED
  BY <1>2, <1>3

LEMMA ObservingTyped ==
  ASSUME Typed,
         \/ \E p \in Paths, s \in Sides : Observe(s, p)
         \/ \E p \in Paths : QueueDownload(p) \/ SpoolStarts(p) \/ QueueUpload(p)
         \/ \E p \in Paths : DownloadRefused(p) \/ UploadRefused(p)
         \/ ScanEnds
  PROVE  Typed'
<1>1. /\ clock \in 0..MaxWrites /\ FolderTyped(folder) /\ SeenTyped(seen) /\ PrintsTyped(processed)
      /\ ScanTyped(scan)
  BY DEF Typed
<1>2. ASSUME NEW p \in Paths, NEW s \in Sides, Observe(s, p) PROVE Typed'
  <2>1. /\ p \in DOMAIN scan.todo /\ scan.at \in {"android", "pc"} /\ Handled(p)
        /\ seen' = [seen EXCEPT ![s] = Put(seen[s], p, Observed(s, p))]
    BY <1>2 DEF Observe, Sides
  <2>2. SeenTyped(seen') /\ ScanTyped(scan')
    BY <2>1, ObservedTyped, SeenPutTyped, HandledTyped
  <2> QED
    BY <1>1, <1>2, <2>2, TypedFrame DEF Observe, ScanSame
<1>3. ASSUME NEW p \in Paths, QueueDownload(p) PROVE Typed'
  <2>1. p \in DOMAIN scan.todo /\ scan.at = "android" /\ Handled(p)
    BY <1>3 DEF QueueDownload
  <2>2. PICK j \in NextJob, dest \in Resolved(p, folder["pc"], config.policy["android"]) :
          /\ Accept(j, "android", p, scan.todo[p], 0, dest)
          /\ seen' = [seen EXCEPT !["android"] = Put(seen["android"], p, [Observed("android", p) EXCEPT !.job = j])]
    BY <1>3 DEF QueueDownload
  <2>3. j \in Jobs /\ j \in 0..MaxJobs /\ dest \in Paths /\ 0 \in 0..MaxWrites
    BY Bounds, ResolvedTyped DEF NextJob, Jobs
  <2>4. SeenTyped(seen') /\ ScanTyped(scan') /\ scan.todo[p] \in Stamps
    BY <2>1, <2>2, <2>3, ObservedTyped, JobNumber, SeenPutTyped, HandledTyped DEF Sides
  <2> QED
    BY <1>3, <2>2, <2>3, <2>4, AcceptTyped DEF QueueDownload, Sides
<1>4. ASSUME NEW p \in Paths, SpoolStarts(p) PROVE Typed'
  <2>1. /\ p \in DOMAIN scan.todo /\ scan.at = "pc"
        /\ seen' = [seen EXCEPT !["pc"] = Put(seen["pc"], p, Observed("pc", p))]
    BY <1>4 DEF SpoolStarts
  <2>2. SeenTyped(seen')
    BY <2>1, ObservedTyped, SeenPutTyped DEF Sides
  <2>3. ScanTyped(scan')
    BY <1>1, <1>4, <2>1 DEF SpoolStarts, ScanTyped, ScanPlaces
  <2> QED
    BY <1>1, <1>4, <2>2, <2>3, TypedFrame DEF SpoolStarts, ScanSame
<1>5. ASSUME NEW p \in Paths, QueueUpload(p) PROVE Typed'
  <2>1. /\ p \in DOMAIN scan.todo /\ scan.at = "spool" /\ Continues(p) /\ p \in DOMAIN folder["pc"]
    BY <1>1, <1>5 DEF QueueUpload, ScanTyped
  <2>2. PICK j \in NextJob :
          /\ Accept(j, "pc", p, scan.todo[p], folder["pc"][p].origin, <<>>)
          /\ seen' = Update("pc", p, [Observed("pc", p) EXCEPT !.job = j])
    BY <1>5 DEF QueueUpload
  <2>3. j \in Jobs /\ j \in 0..MaxJobs
    BY Bounds DEF NextJob, Jobs
  <2>4. folder["pc"][p].origin \in 1..MaxWrites /\ folder["pc"][p].origin \in 0..MaxWrites
    BY <1>1, <2>1, Bounds DEF FolderTyped, IsTable, FolderFiles, Sides
  <2>5. SeenTyped(seen') /\ scan.todo[p] \in Stamps
    BY <2>1, <2>2, <2>3, ObservedTyped, JobNumber, UpdateTyped DEF Sides
  <2>6. ScanTyped(scan') /\ (UNCHANGED saved \/ Persist)
    BY <2>1, ContinuesTyped
  <2>7. UNCHANGED <<world, clock, folder, processed, past>>
    BY <1>5 DEF QueueUpload
  <2> QED
    BY <2>2, <2>3, <2>4, <2>5, <2>6, <2>7, AcceptTyped DEF Sides
<1>6. ASSUME NEW p \in Paths, DownloadRefused(p) PROVE Typed'
  <2>1. /\ p \in DOMAIN scan.todo /\ scan.at = "android" /\ Handled(p)
        /\ seen' = [seen EXCEPT !["android"] = Put(seen["android"], p, Failed(Observed("android", p)))]
    BY <1>6 DEF DownloadRefused
  <2>2. SeenTyped(seen') /\ ScanTyped(scan')
    BY <2>1, ObservedTyped, FailedTyped, SeenPutTyped, HandledTyped DEF Sides
  <2> QED
    BY <1>1, <1>6, <2>2, TypedFrame DEF DownloadRefused, ScanSame
<1>7. ASSUME NEW p \in Paths, UploadRefused(p) PROVE Typed'
  <2>1. /\ p \in DOMAIN scan.todo /\ scan.at = "spool" /\ Continues(p)
        /\ seen' = Update("pc", p, Failed(Observed("pc", p)))
    BY <1>1, <1>7 DEF UploadRefused, ScanTyped
  <2>2. SeenTyped(seen')
    BY <2>1, ObservedTyped, FailedTyped, UpdateTyped DEF Sides
  <2>3. ScanTyped(scan') /\ (UNCHANGED saved \/ Persist)
    BY <2>1, ContinuesTyped
  <2> QED
    BY <1>1, <1>7, <2>2, <2>3, TypedFrame DEF UploadRefused
<1>8. CASE ScanEnds
  <2>1. PICK a \in Trimmed(processed["android"]), b \in Trimmed(processed["pc"]) :
          processed' = [android |-> a, pc |-> b]
    BY <1>8 DEF ScanEnds
  <2>2. a \subseteq processed["android"] /\ b \subseteq processed["pc"]
    BY DEF Trimmed
  <2>3. PrintsTyped(processed')
    BY <1>1, <2>1, <2>2 DEF PrintsTyped, Sides
  <2>4. ScanTyped(scan') /\ UNCHANGED <<world, job, clock, past, folder, seen>> /\ Persist
    BY <1>8, IdleTyped DEF ScanEnds, ScanSame
  <2> QED
    BY <1>1, <2>3, <2>4, TypedFrame
<1> QED
  BY <1>2, <1>3, <1>4, <1>5, <1>6, <1>7, <1>8

(* The queue, the user and the process.                                     *)
LEMMA StatusTyped ==
  ASSUME Typed, NEW i \in Jobs, job[i].status = "owed"
  PROVE  LET r == [job[i] EXCEPT !.status = "stopped"] IN r \in Records /\ RecordTyped(r)
<1> DEFINE q == job[i]
           r == [q EXCEPT !.status = "stopped"]
<1>1. q \in Records /\ RecordTyped(q) /\ q.status = "owed"
  BY DEF Typed
<1> HIDE DEF q
<1>2. r \in Records /\ RecordTyped(r)
  BY <1>1 DEF Records, RecordTyped
<1> QED
  BY <1>2 DEF q

LEMMA FolderPut ==
  ASSUME NEW f, FolderTyped(f), NEW s \in Sides, NEW p \in Paths, NEW v \in FolderFiles
  PROVE  FolderTyped([f EXCEPT ![s] = Put(f[s], p, v)])
<1>1. IsTable(Put(f[s], p, v), FolderFiles)
  BY PutTable DEF FolderTyped
<1> QED
  BY <1>1 DEF FolderTyped

LEMMA StampBounds ==
  /\ \A n \in 1..MaxWrites : n \in Stamps
  /\ \A j \in Jobs : CopyStamp(j) \in Stamps /\ CopyStamp(j) > MaxWrites
  /\ \A i, j \in Jobs : CopyStamp(i) = CopyStamp(j) => i = j
  BY Bounds DEF Stamps, CopyStamp, Jobs

(* What a delivery does: a file of this transfer at its destination.        *)
LEMMA Delivery ==
  ASSUME Typed, NEW j \in Jobs, JobDelivers(j)
  PROVE  \E dest \in Paths, origin \in 1..MaxWrites :
            LET to == Other(job[j].side) IN
            /\ job[j].status = "owed" /\ to \in Sides /\ job[j].side \in Sides
            /\ folder' = [folder EXCEPT ![to] = Put(folder[to], dest, [stamp |-> CopyStamp(j), origin |-> origin])]
            /\ job' = [job EXCEPT ![j] = [job[j] EXCEPT !.status = "delivered", !.dest = dest, !.carries = origin]]
<1> DEFINE s == job[j].side
           to == Other(s)
           o == IF s = "pc" THEN job[j].carries ELSE folder[s][job[j].path].origin
<1>1. /\ job[j] \in Records /\ RecordTyped(job[j]) /\ job[j].status = "owed" /\ FolderTyped(folder)
      /\ job \in [Jobs -> Records]
  BY DEF Typed, JobDelivers, Owed
<1>2. s \in Sides /\ to \in Sides /\ job[j].path \in Paths
  BY <1>1 DEF Records, RecordTyped, Other, Sides
<1>3. PICK dest \in IF s = "pc" THEN Resolved(job[j].path, folder[to], config.policy[s]) ELSE {job[j].dest} :
           /\ s = "android" => job[j].path \in DOMAIN folder[s]
           /\ folder' = [folder EXCEPT ![to] = Put(folder[to], dest, [stamp |-> CopyStamp(j), origin |-> o])]
           /\ job' = [job EXCEPT ![j].status = "delivered", ![j].dest = dest, ![j].carries = o]
  BY DEF JobDelivers
<1>4. dest \in Paths
  BY <1>1, <1>2, <1>3, ResolvedTyped DEF RecordTyped, Sides
<1>5. o \in 1..MaxWrites
  BY <1>1, <1>2, <1>3 DEF RecordTyped, Sides, FolderTyped, IsTable, FolderFiles
<1>6. job' = [job EXCEPT ![j] = [job[j] EXCEPT !.status = "delivered", !.dest = dest, !.carries = o]]
  BY <1>3, <1>1
<1> QED
  BY <1>1, <1>2, <1>3, <1>4, <1>5, <1>6

LEMMA QueueTyped ==
  ASSUME Typed, NEW j \in Jobs, JobDelivers(j) \/ JobStops(j)
  PROVE  Typed'
<1>1. UNCHANGED <<world, clock, seen, processed, saved, scan, past>>
  BY DEF JobDelivers, JobStops, memory
<1>2. /\ job[j] \in Records /\ RecordTyped(job[j]) /\ job[j].status = "owed" /\ FolderTyped(folder)
      /\ job \in [Jobs -> Records] /\ \A i \in Jobs : RecordTyped(job[i])
  BY DEF Typed, JobDelivers, JobStops, Owed
<1>3. /\ FolderTyped(folder')
      /\ job' \in [Jobs -> Records] /\ \A i \in Jobs : RecordTyped(job'[i])
  <2>1. CASE JobDelivers(j)
    <3>1. PICK dest \in Paths, origin \in 1..MaxWrites :
            LET to == Other(job[j].side) IN
            /\ job[j].status = "owed" /\ to \in Sides /\ job[j].side \in Sides
            /\ folder' = [folder EXCEPT ![to] = Put(folder[to], dest, [stamp |-> CopyStamp(j), origin |-> origin])]
            /\ job' = [job EXCEPT ![j] = [job[j] EXCEPT !.status = "delivered", !.dest = dest, !.carries = origin]]
      BY <2>1, Delivery
    <3> DEFINE v == [stamp |-> CopyStamp(j), origin |-> origin]
               q == job[j]
               r == [q EXCEPT !.status = "delivered", !.dest = dest, !.carries = origin]
    <3>2. v \in FolderFiles
      BY StampBounds DEF FolderFiles
    <3>3. FolderTyped(folder')
      BY <1>2, <3>1, <3>2, FolderPut
    <3>4. job' = [job EXCEPT ![j] = r] /\ q \in Records /\ RecordTyped(q) /\ q.status = "owed"
      BY <1>2, <3>1
    <3>5. origin \in 0..MaxWrites
      BY Bounds
    <3> HIDE DEF q
    <3>6. r \in Records /\ RecordTyped(r)
      BY <3>4, <3>5 DEF Records, RecordTyped
    <3> HIDE DEF r
    <3> QED
      BY <1>2, <3>3, <3>4, <3>6
  <2>2. CASE JobStops(j)
    <3> DEFINE r == [job[j] EXCEPT !.status = "stopped"]
    <3>1. job' = [job EXCEPT ![j] = r] /\ folder' = folder
      BY <1>2, <2>2 DEF JobStops
    <3>2. r \in Records /\ RecordTyped(r)
      BY <1>2, StatusTyped
    <3> HIDE DEF r
    <3> QED
      BY <1>2, <3>1, <3>2
  <2> QED
    BY <2>1, <2>2
<1> QED
  BY <1>1, <1>3 DEF Typed

LEMMA UserTyped ==
  ASSUME Typed,
         \/ \E s \in Sides, p \in Paths : UserWrites(s, p) \/ UserRemoves(s, p) \/ TimePasses(s, p)
         \/ \E c \in Configs : Configure(c)
         \/ ClearHistory
  PROVE  Typed'
<1>1. /\ clock \in 0..MaxWrites /\ FolderTyped(folder) /\ SeenTyped(seen) /\ PrintsTyped(processed)
      /\ ScanTyped(scan)
  BY DEF Typed
<1>2. ASSUME NEW s \in Sides, NEW p \in Paths, UserWrites(s, p) PROVE Typed'
  <2>1. clock < MaxWrites /\ clock' = clock + 1
        /\ folder' = [folder EXCEPT ![s] = Put(folder[s], p, [stamp |-> clock + 1, origin |-> clock + 1])]
    BY <1>2 DEF UserWrites
  <2>2. clock + 1 \in 0..MaxWrites /\ clock + 1 \in 1..MaxWrites
    BY <1>1, <2>1, Bounds
  <2>3. FolderTyped(folder')
    BY <1>1, <2>1, <2>2, FolderPut, StampBounds DEF FolderFiles
  <2> QED
    BY <1>1, <1>2, <2>1, <2>2, <2>3, TypedFrame DEF UserWrites, memory
<1>3. ASSUME NEW s \in Sides, NEW p \in Paths, UserRemoves(s, p) PROVE Typed'
  <2>1. FolderTyped(folder')
    BY <1>1, <1>3, DropTable DEF UserRemoves, FolderTyped
  <2> QED
    BY <1>1, <1>3, <2>1, TypedFrame DEF UserRemoves, memory
<1>4. ASSUME NEW s \in Sides, NEW p \in Paths, TimePasses(s, p) PROVE Typed'
  <2> DEFINE e == seen[s][p]
             g == [e EXCEPT !.waits = FALSE]
  <2>1. e \in Observations
    BY <1>1, <1>4 DEF TimePasses, SeenTyped, IsTable
  <2>2. seen' = [seen EXCEPT ![s][p] = g]
    BY <1>4 DEF TimePasses
  <2> HIDE DEF e
  <2>3. g \in Observations
    BY <2>1 DEF Observations
  <2> HIDE DEF g
  <2>4. SeenTyped(seen')
    BY <1>1, <2>2, <2>3 DEF SeenTyped, IsTable
  <2> QED
    BY <1>1, <1>4, <2>4, TypedFrame DEF TimePasses
<1>5. ASSUME NEW c \in Configs, Configure(c) PROVE Typed'
  <2>1. SeenTyped(seen')
    BY <1>1, <1>5, EmptyTable DEF Configure, SeenTyped
  <2> QED
    BY <1>1, <1>5, <2>1, TypedFrame DEF Configure
<1>6. CASE ClearHistory
  <2>1. SeenTyped(seen') /\ PrintsTyped(processed') /\ DOMAIN past' = DOMAIN past
    BY <1>1, <1>6, EmptyTable DEF ClearHistory, SeenTyped, PrintsTyped, Typed
  <2> QED
    BY <1>1, <1>6, <2>1, TypedFrame DEF ClearHistory
<1> QED
  BY <1>2, <1>3, <1>4, <1>5, <1>6

LEMMA ProcessTyped ==
  ASSUME Typed, Close \/ Crash \/ Start
  PROVE  Typed'
<1>1. /\ clock \in 0..MaxWrites /\ FolderTyped(folder) /\ SeenTyped(seen) /\ PrintsTyped(processed)
      /\ ScanTyped(scan) /\ SeenTyped(saved[1]) /\ PrintsTyped(saved[2])
      /\ job \in [Jobs -> Records] /\ \A i \in Jobs : RecordTyped(job[i])
  BY DEF Typed
<1>2. CASE Close \/ Crash
  <2>1. Interrupted \in [Jobs -> Records] /\ \A i \in Jobs : RecordTyped(Interrupted[i])
    BY <1>1, StatusTyped DEF Interrupted, Owed
  <2>2. /\ scan' = Idle /\ job' = Interrupted /\ (UNCHANGED saved \/ Persist)
        /\ UNCHANGED <<world, clock, folder, seen, processed, past>>
    BY <1>2 DEF Close, Crash, memory
  <2>3. SeenTyped(saved'[1]) /\ PrintsTyped(saved'[2])
    BY <1>1, <2>2 DEF Persist
  <2> QED
    BY <2>1, <2>2, <2>3, IdleTyped DEF Typed
<1>3. CASE Start
  <2>1. SeenTyped(seen') /\ PrintsTyped(processed')
    BY <1>1, <1>3 DEF Start, Loaded
  <2> QED
    BY <1>1, <1>3, <2>1, TypedFrame DEF Start
<1> QED
  BY <1>2, <1>3

LEMMA InitTyped == ASSUME Init PROVE Typed
<1>1. SeenTyped(seen) /\ PrintsTyped(processed) /\ FolderTyped(folder)
  BY EmptyTable DEF Init, SeenTyped, PrintsTyped, FolderTyped
<1>2. 0 \in 0..MaxWrites /\ 0 \in Stamps \cup {0}
  BY Bounds
<1>3. Unused \in Records /\ RecordTyped(Unused)
  BY <1>2 DEF Unused, Records, RecordTyped, Sides
<1> HIDE DEF Unused
<1>4. job \in [Jobs -> Records] /\ \A j \in Jobs : RecordTyped(job[j])
  BY <1>3 DEF Init
<1> QED
  BY <1>1, <1>2, <1>4, IdleTyped DEF Init, Typed

LEMMA NextTyped == ASSUME Typed, [Next]_vars PROVE Typed'
<1>1. CASE UNCHANGED vars
  BY <1>1 DEF Typed, vars, memory
<1>2. CASE ReconcileStep
  BY <1>2, MovingTyped, ReconcilingTyped DEF ReconcileStep
<1>3. CASE ObserveStep
  BY <1>3, MovingTyped, ListingTyped, ObservingTyped DEF ObserveStep
<1>4. CASE QueueStep
  BY <1>4, QueueTyped DEF QueueStep
<1>5. CASE UserStep \/ \E s \in Sides, p \in Paths : TimePasses(s, p)
  BY <1>5, UserTyped DEF UserStep
<1>6. CASE ScanFails \/ \E force \in BOOLEAN : ScanStarts(force)
  BY <1>6, MovingTyped
<1>7. CASE Close \/ Start \/ Crash
  BY <1>7, ProcessTyped
<1> QED
  BY <1>1, <1>2, <1>3, <1>4, <1>5, <1>6, <1>7 DEF Next

(* The process, the configuration and the baselines.                        *)
Settings ==
    /\ process \in {"up", "down"} /\ config \in Configs
    /\ based \subseteq Sides /\ saved[3] \subseteq Sides

LEMMA NextSettings == ASSUME Settings, [Next]_vars PROVE Settings'
<1>1. CASE UNCHANGED <<process, config, based>> /\ (UNCHANGED saved \/ Persist)
  BY <1>1 DEF Settings, Persist
<1>2. CASE ListAndroid \/ ListPc
  BY <1>2 DEF ListAndroid, ListPc, Lists, Settings, Sides, ScanSame, memory
<1>3. CASE \E c \in Configs : Configure(c)
  BY <1>3 DEF Configure, Settings, Persist
<1>4. CASE ClearHistory
  BY <1>4 DEF ClearHistory, Settings, Persist
<1>5. CASE Close \/ Crash
  BY <1>5 DEF Close, Crash, Settings, Persist, memory
<1>6. CASE Start
  BY <1>6 DEF Start, Loaded, Settings
<1>7. CASE UNCHANGED vars
  BY <1>7 DEF vars, memory, Settings
<1>8. CASE ReconcileStep
  BY <1>1, <1>8 DEF ReconcileStep, ReconcileUploads, ReconcileEnds, StatUploaded, RemoveSource, ReconcileDownload,
     ReconcileUpload, ReconcileStopped, ReconcileOwed, ScanSame, memory
<1>9. CASE ObserveStep
  BY <1>1, <1>2, <1>9 DEF ObserveStep, AndroidEnds, ScanEnds, Observe, QueueDownload, SpoolStarts, QueueUpload,
     DownloadRefused, UploadRefused, Continues, ScanSame, memory
<1>10. CASE QueueStep
  BY <1>1, <1>10 DEF QueueStep, JobDelivers, JobStops, memory
<1>11. CASE UserStep
  BY <1>1, <1>3, <1>4, <1>11 DEF UserStep, UserWrites, UserRemoves, memory
<1>12. CASE ScanFails \/ (\E force \in BOOLEAN : ScanStarts(force))
            \/ \E s \in Sides, p \in Paths : TimePasses(s, p)
  BY <1>1, <1>12 DEF ScanFails, ScanStarts, TimePasses, ScanSame, memory
<1> QED
  BY <1>2, <1>3, <1>4, <1>5, <1>6, <1>7, <1>8, <1>9, <1>10, <1>11, <1>12 DEF Next

LEMMA TypedIsTypeOK == ASSUME Typed, Settings PROVE TypeOK
<1>1. \A j \in Jobs :
          /\ job[j].status \in {"none", "owed", "delivered", "stopped"}
          /\ job[j].side \in Sides
          /\ {job[j].stamp, job[j].carries} \subseteq Stamps \cup {0}
          /\ {job[j].path, job[j].dest} \subseteq Paths \cup {<<>>}
  <2>1. 0..MaxWrites \subseteq Stamps \cup {0}
    BY Bounds DEF Stamps
  <2> QED
    BY <2>1 DEF Typed, Records
<1>2. /\ scan.at \in ScanPlaces /\ scan.item \in Paths \cup {<<>>} /\ DOMAIN scan.todo \subseteq Paths
      /\ clock \in 0..MaxWrites /\ world \in Worlds
  BY DEF Typed, ScanTyped
<1>3. ASSUME NEW s \in Sides
      PROVE  /\ DOMAIN folder[s] \subseteq Paths
             /\ \A p \in DOMAIN folder[s] : folder[s][p] \in FolderFiles
             /\ DOMAIN seen[s] \subseteq Paths
             /\ \A p \in DOMAIN seen[s] : seen[s][p] \in Observations
             /\ processed[s] \subseteq Paths \X Stamps
  BY DEF Typed, FolderTyped, SeenTyped, PrintsTyped, IsTable
<1> QED
  BY <1>1, <1>2, <1>3 DEF TypeOK, Settings, FolderFiles, Observations

(* The tables, the queue and the scan keep to their types.                  *)
THEOREM TypesHold == Spec => []TypeOK
<1>1. Init => Typed /\ Settings
  <2>1. Init => process = "up" /\ config \in Configs /\ based = {} /\ saved[3] = {}
    BY DEF Init
  <2> QED
    BY <2>1, InitTyped DEF Settings
<1>2. Typed /\ Settings /\ [Next]_vars => (Typed /\ Settings)'
  BY NextTyped, NextSettings
<1>3. Typed /\ Settings => TypeOK
  BY TypedIsTypeOK
<1> QED
  BY <1>1, <1>2, <1>3, PTL DEF Spec

-----------------------------------------------------------------------------
(* A stamp that a file was given.                                           *)
Born(n) == n \in 1..clock \/ \E j \in Jobs : job[j].status = "delivered" /\ n = CopyStamp(j)

(* The scan has still to look at the file it listed at p.                   *)
Listing(s, p) ==
    /\ scan.at \in (IF s = "android" THEN {"android"} ELSE {"pc", "spool"})
    /\ p \in DOMAIN scan.todo
Reconciling(s) == scan.at \in (IF s = "android" THEN {"downloads", "remove"} ELSE {"uploads", "stat"})

At(s, p, n) == p \in DOMAIN folder[s] /\ folder[s][p].stamp = n

(* What keeps a version from being queued again: it is marked, or its       *)
(* transfer is known, or it is no more and the scan does not hold it.       *)
Marked(i) == <<job[i].path, job[i].stamp>> \in processed[job[i].side]
Known(i) ==
    LET s == job[i].side  p == job[i].path IN
    p \in DOMAIN seen[s] /\ seen[s][p].job = i /\ seen[s][p].stamp = job[i].stamp
Gone(i) ==
    LET s == job[i].side  p == job[i].path IN
    /\ ~At(s, p, job[i].stamp)
    /\ Listing(s, p) => scan.todo[p] # job[i].stamp

StampsBorn ==
    /\ \A i \in Accepted : Born(job[i].stamp)
    /\ \A s \in Sides : \A p \in DOMAIN folder[s] : Born(folder[s][p].stamp)
    /\ \A s \in Sides, p \in Paths : Listing(s, p) => Born(scan.todo[p])

(* A version that was queued and is there is the one that was listed.       *)
ListFresh ==
    \A i \in Accepted :
        LET s == job[i].side  p == job[i].path IN
        Listing(s, p) /\ At(s, p, job[i].stamp) => scan.todo[p] = job[i].stamp

(* What the reconciliation holds of an entry agrees with the entry.         *)
TodoAgrees ==
    \A s \in Sides : Reconciling(s) =>
        \A p \in DOMAIN scan.todo \cap DOMAIN seen[s] :
            \/ seen[s][p].job = NoJob
            \/ seen[s][p].job = scan.todo[p].job /\ seen[s][p].stamp = scan.todo[p].stamp

(* What is copied to the spool is still wanted.                             *)
SpoolWanted ==
    scan.at = "spool" =>
        /\ scan.item \in DOMAIN seen["pc"]
        /\ seen["pc"][scan.item].job = NoJob
        /\ seen["pc"][scan.item].stamp = scan.todo[scan.item]
        /\ <<scan.item, scan.todo[scan.item]>> \notin processed["pc"]

Remembered ==
    \A i \in Accepted \ Stopped :
        job[i].stamp \in past.forgotten \/ Marked(i) \/ Known(i) \/ Gone(i)

OnceInv == StampsBorn /\ ListFresh /\ TodoAgrees /\ SpoolWanted /\ Remembered /\ QueuedOnce

(* The steps that write no file, list none and queue nothing.               *)
LEMMA OnceFrame ==
  ASSUME Calm, OnceInv, UNCHANGED <<world, job, clock>>, past'.forgotten = past.forgotten,
         \A s \in Sides : \A p \in DOMAIN folder'[s] : p \in DOMAIN folder[s] /\ folder'[s][p] = folder[s][p],
         \A s \in Sides, p \in Paths : Listing(s, p)' => Listing(s, p) /\ scan'.todo[p] = scan.todo[p],
         \A s \in Sides : processed[s] \subseteq processed'[s],
         \A i \in Accepted \ Stopped : Known(i) => Known(i)' \/ Marked(i)' \/ Gone(i)',
         TodoAgrees', SpoolWanted', Typed
  PROVE  OnceInv'
<1>1. Accepted' = Accepted /\ Stopped' = Stopped /\ \A n : Born(n)' <=> Born(n)
  BY DEF Accepted, Stopped, Born, CopyStamp
<1>2. \A i \in Accepted : job[i].side \in Sides /\ job[i].path \in Paths
  BY DEF Typed, RecordTyped, Records, Accepted
<1>3. \A s, p, n : s \in Sides /\ At(s, p, n)' => At(s, p, n)
  BY DEF At
<1>4. StampsBorn'
  BY <1>1 DEF OnceInv, StampsBorn
<1>5. ListFresh'
  BY <1>1, <1>2, <1>3 DEF OnceInv, ListFresh
<1>6. Remembered'
  <2> SUFFICES ASSUME NEW i \in Accepted \ Stopped
               PROVE  job[i].stamp \in past.forgotten \/ Marked(i)' \/ Known(i)' \/ Gone(i)'
    BY <1>1 DEF Remembered
  <2>1. job[i].stamp \in past.forgotten \/ Marked(i) \/ Known(i) \/ Gone(i)
    BY DEF OnceInv, Remembered
  <2>2. Marked(i) => Marked(i)'
    BY <1>2 DEF Marked
  <2>3. Gone(i) => Gone(i)'
    BY <1>2, <1>3 DEF Gone
  <2> QED
    BY <2>1, <2>2, <2>3
<1>7. QueuedOnce'
  BY <1>1 DEF OnceInv, QueuedOnce, Calm
<1> QED
  BY <1>4, <1>5, <1>6, <1>7 DEF OnceInv

(* A file is written whose stamp no transfer has.                           *)
LEMMA OnceWritten ==
  ASSUME Calm, OnceInv, Typed, NEW to \in Sides, NEW dest \in Paths, NEW v,
         folder' = [folder EXCEPT ![to] = Put(folder[to], dest, v)],
         ~Born(v.stamp), Born(v.stamp)', \A n : Born(n) => Born(n)',
         UNCHANGED <<world, seen, processed, scan, past>>,
         \A i \in Jobs : /\ job'[i].side = job[i].side /\ job'[i].path = job[i].path
                         /\ job'[i].stamp = job[i].stamp
                         /\ job'[i].status = "none" <=> job[i].status = "none"
                         /\ job'[i].status = "stopped" <=> job[i].status = "stopped"
  PROVE  OnceInv'
<1>1. Accepted' = Accepted /\ Stopped' = Stopped
  BY DEF Accepted, Stopped
<1>2. \A i \in Accepted : i \in Jobs /\ job[i].side \in Sides /\ job[i].path \in Paths
  BY DEF Typed, RecordTyped, Records, Accepted
<1>3. \A s \in Sides : \A p \in DOMAIN folder'[s] :
         \/ s = to /\ p = dest /\ folder'[s][p] = v
         \/ p \in DOMAIN folder[s] /\ folder'[s][p] = folder[s][p]
  BY DEF Typed, FolderTyped, Put
<1>4. \A i \in Accepted : At(job[i].side, job[i].path, job[i].stamp)' => At(job[i].side, job[i].path, job[i].stamp)
  BY <1>1, <1>2, <1>3 DEF At, OnceInv, StampsBorn
<1>5. \A s, p : Listing(s, p)' <=> Listing(s, p)
  BY DEF Listing
<1>6. StampsBorn'
  <2>1. (\A i \in Accepted : Born(job[i].stamp))'
    BY <1>1, <1>2 DEF OnceInv, StampsBorn, Born
  <2>2. (\A s \in Sides : \A p \in DOMAIN folder[s] : Born(folder[s][p].stamp))'
    BY <1>3 DEF OnceInv, StampsBorn, Born
  <2>3. (\A s \in Sides, p \in Paths : Listing(s, p) => Born(scan.todo[p]))'
    BY <1>5 DEF OnceInv, StampsBorn, Born
  <2> QED
    BY <2>1, <2>2, <2>3 DEF StampsBorn
<1>7. ListFresh'
  BY <1>1, <1>2, <1>4, <1>5 DEF OnceInv, ListFresh
<1>8. TodoAgrees' /\ SpoolWanted'
  BY DEF OnceInv, TodoAgrees, SpoolWanted, Reconciling
<1>9. Remembered'
  <2> SUFFICES ASSUME NEW i \in Accepted \ Stopped
               PROVE  job[i].stamp \in past.forgotten \/ Marked(i)' \/ Known(i)' \/ Gone(i)'
    BY <1>1, <1>2 DEF Remembered
  <2>1. job[i].stamp \in past.forgotten \/ Marked(i) \/ Known(i) \/ Gone(i)
    BY DEF OnceInv, Remembered
  <2>2. (Marked(i) => Marked(i)') /\ (Known(i) => Known(i)')
    BY <1>2 DEF Marked, Known
  <2>3. Gone(i) => Gone(i)'
    BY <1>2, <1>4, <1>5 DEF Gone
  <2> QED
    BY <2>1, <2>2, <2>3
<1>10. QueuedOnce'
  BY <1>1, <1>2 DEF OnceInv, QueuedOnce, Calm
<1> QED
  BY <1>6, <1>7, <1>8, <1>9, <1>10 DEF OnceInv

LEMMA JobFacts ==
  ASSUME Typed
  PROVE  /\ NoJob \notin Jobs
         /\ \A i \in Accepted : /\ i \in Jobs /\ job[i].side \in Sides /\ job[i].path \in Paths
                                /\ job[i].stamp \in Stamps
  BY DEF Typed, RecordTyped, Records, Accepted, Jobs, NoJob

LEMMA SeenPutFacts ==
  ASSUME Typed, NEW s \in Sides, NEW p \in Paths, NEW e,
         seen' = [seen EXCEPT ![s] = Put(seen[s], p, e)]
  PROVE  /\ p \in DOMAIN seen'[s] /\ seen'[s][p] = e
         /\ \A r \in Sides : \A q \in DOMAIN seen[r] :
               (r = s /\ q = p) \/ (q \in DOMAIN seen'[r] /\ seen'[r][q] = seen[r][q])
  BY DEF Typed, SeenTyped, Put

LEMMA SeenUpdateFacts ==
  ASSUME Typed, NEW s \in Sides, NEW p \in Paths, NEW e, seen' = Update(s, p, e)
  PROVE  /\ p \in DOMAIN seen[s] => p \in DOMAIN seen'[s] /\ seen'[s][p] = e
         /\ \A r \in Sides : DOMAIN seen'[r] = DOMAIN seen[r]
         /\ \A r \in Sides : \A q \in DOMAIN seen[r] :
               (r = s /\ q = p) \/ (q \in DOMAIN seen'[r] /\ seen'[r][q] = seen[r][q])
  BY DEF Typed, SeenTyped, Update

(* An observation either leaves a known transfer known, or is of another    *)
(* version than the one that was transferred.                               *)
LEMMA ObservedKnown ==
  ASSUME Typed, OnceInv, NEW s \in Sides, NEW p \in Paths, Listing(s, p),
         p \in DOMAIN seen'[s], seen'[s][p].stamp = scan.todo[p],
         seen'[s][p].job = Observed(s, p).job \/ Observed(s, p).job = NoJob,
         \A r \in Sides : \A q \in DOMAIN seen[r] :
               (r = s /\ q = p) \/ (q \in DOMAIN seen'[r] /\ seen'[r][q] = seen[r][q]),
         UNCHANGED folder, Listing(s, p)' => scan'.todo[p] = scan.todo[p],
         NEW i \in Accepted \ Stopped, Known(i), UNCHANGED job[i]
  PROVE  Known(i)' \/ Gone(i)'
<1>1. i \in Jobs /\ i # NoJob /\ job[i].side \in Sides /\ job[i].path \in Paths
  BY JobFacts
<1>2. CASE ~(job[i].side = s /\ job[i].path = p)
  BY <1>1, <1>2 DEF Known
<1>3. CASE job[i].side = s /\ job[i].path = p
  <2>1. p \in DOMAIN seen[s] /\ seen[s][p].job = i /\ seen[s][p].stamp = job[i].stamp
    BY <1>3 DEF Known
  <2>2. p \in DOMAIN scan.todo /\ scan.at \in {"android", "pc", "spool"}
    BY DEF Listing, Sides
  <2>3. CASE job[i].stamp = scan.todo[p]
    <3>1. Observed(s, p).job = i
      BY <2>1, <2>2, <2>3, ObservedTyped
    <3> QED
      BY <1>1, <1>3, <2>3, <3>1 DEF Known
  <2>4. CASE job[i].stamp # scan.todo[p]
    <3>1. ~At(s, p, job[i].stamp)
      BY <1>3, <2>4 DEF OnceInv, ListFresh
    <3> QED
      BY <1>3, <2>4, <3>1 DEF Gone, At
  <2> QED
    BY <2>3, <2>4
<1> QED
  BY <1>2, <1>3

(* A version is queued: nothing that keeps it from being queued again holds *)
(* of any earlier transfer.                                                 *)
LEMMA OnceAccepted ==
  ASSUME Calm, OnceInv, Typed, NEW j \in NextJob, NEW s \in Sides, NEW p \in Paths, Listing(s, p),
         NEW carries, NEW dest, Accept(j, s, p, scan.todo[p], carries, dest),
         <<p, scan.todo[p]>> \notin processed[s],
         Observed(s, p).job = NoJob,
         UNCHANGED <<world, folder, processed, clock, past>>,
         p \in DOMAIN seen'[s], seen'[s][p].job = j, seen'[s][p].stamp = scan.todo[p],
         \A r \in Sides : \A q \in DOMAIN seen[r] :
               (r = s /\ q = p) \/ (q \in DOMAIN seen'[r] /\ seen'[r][q] = seen[r][q]),
         scan'.at \in {"android", "pc"}, ~Listing(s, p)',
         \A r \in Sides, q \in Paths : Listing(r, q)' => Listing(r, q) /\ scan'.todo[q] = scan.todo[q]
  PROVE  OnceInv'
<1>1. /\ j \in Jobs /\ j \notin Accepted /\ j \notin Stopped /\ NoJob \notin Jobs
      /\ \A i \in Accepted : /\ i \in Jobs /\ job[i].side \in Sides /\ job[i].path \in Paths
  BY JobFacts DEF NextJob, Accepted, Stopped
<1>2. /\ job' = [job EXCEPT ![j] = job'[j]] /\ job'[j].status = "owed"
      /\ job'[j].side = s /\ job'[j].path = p /\ job'[j].stamp = scan.todo[p]
      /\ \A i \in Jobs : i # j => job'[i] = job[i]
  BY <1>1 DEF Accept, Typed
<1>3. /\ Accepted' = Accepted \cup {j} /\ Stopped' = Stopped
      /\ \A i \in Accepted : i # j /\ job'[i] = job[i]
  BY <1>1, <1>2 DEF Accepted, Stopped
<1>4. /\ p \in DOMAIN scan.todo /\ scan.at \in {"android", "pc", "spool"}
      /\ p \in DOMAIN seen[s] /\ seen[s][p].stamp = scan.todo[p] => seen[s][p].job = NoJob
  <2>1. p \in DOMAIN scan.todo /\ scan.at \in {"android", "pc", "spool"}
    BY DEF Listing, Sides
  <2> QED
    BY <2>1, ObservedTyped
<1>5. \A n : Born(n) => Born(n)'
  BY <1>1, <1>2, <1>3 DEF Born, Accepted, CopyStamp
<1>6. StampsBorn'
  <2>1. (\A i \in Accepted : Born(job[i].stamp))'
    <3>1. Born(scan.todo[p])
      BY DEF OnceInv, StampsBorn
    <3> QED
      BY <1>2, <1>3, <1>5, <3>1 DEF OnceInv, StampsBorn, Born
  <2>2. (\A r \in Sides : \A q \in DOMAIN folder[r] : Born(folder[r][q].stamp))'
    BY <1>5 DEF OnceInv, StampsBorn, Born
  <2>3. (\A r \in Sides, q \in Paths : Listing(r, q) => Born(scan.todo[q]))'
    BY <1>5 DEF OnceInv, StampsBorn, Born
  <2> QED
    BY <2>1, <2>2, <2>3 DEF StampsBorn
<1>7. ListFresh'
  <2> SUFFICES ASSUME NEW i \in Accepted',
                      (Listing(job[i].side, job[i].path) /\ At(job[i].side, job[i].path, job[i].stamp))'
               PROVE  (scan.todo[job[i].path] = job[i].stamp)'
    BY DEF ListFresh
  <2>1. i # j
    BY <1>2 DEF Listing
  <2>2. i \in Accepted /\ job'[i] = job[i] /\ job[i].side \in Sides /\ job[i].path \in Paths
    BY <1>1, <1>3, <2>1
  <2>3. Listing(job[i].side, job[i].path) /\ scan'.todo[job[i].path] = scan.todo[job[i].path]
    BY <2>2 DEF Listing
  <2>4. At(job[i].side, job[i].path, job[i].stamp)
    BY <2>2 DEF At
  <2> QED
    BY <2>2, <2>3, <2>4 DEF OnceInv, ListFresh
<1>8. TodoAgrees' /\ SpoolWanted'
  BY DEF TodoAgrees, SpoolWanted, Reconciling
<1>9. \A i \in Accepted \ Stopped :
         job[i].side = s /\ job[i].path = p /\ job[i].stamp = scan.todo[p] => job[i].stamp \in past.forgotten
  BY <1>1, <1>4 DEF OnceInv, Remembered, Marked, Known, Gone
<1>10. QueuedOnce'
  <2> SUFFICES ASSUME Calm, NEW i \in Accepted', NEW k \in Accepted', i \notin Stopped, k \notin Stopped,
                      job'[i].side = job'[k].side, job'[i].path = job'[k].path, job'[i].stamp = job'[k].stamp
               PROVE  i = k \/ job'[i].stamp \in past'.forgotten
    BY <1>3 DEF QueuedOnce, Calm
  <2>1. CASE i \in Accepted /\ k \in Accepted
    BY <1>3, <2>1 DEF OnceInv, QueuedOnce
  <2>2. CASE i = j \/ k = j
    BY <1>2, <1>3, <1>9, <2>2
  <2> QED
    BY <1>3, <2>1, <2>2
<1>11. Remembered'
  <2> SUFFICES ASSUME NEW i \in Accepted', i \notin Stopped
               PROVE  job'[i].stamp \in past'.forgotten \/ Marked(i)' \/ Known(i)' \/ Gone(i)'
    BY <1>3 DEF Remembered
  <2>1. CASE i = j
    BY <1>2, <2>1 DEF Known
  <2>2. CASE i # j
    <3>1. i \in Accepted \ Stopped /\ job'[i] = job[i] /\ job[i].side \in Sides /\ job[i].path \in Paths
      BY <1>1, <1>3, <2>2
    <3>2. job[i].stamp \in past.forgotten \/ Marked(i) \/ Known(i) \/ Gone(i)
      BY <3>1 DEF OnceInv, Remembered
    <3>3. Marked(i) => Marked(i)'
      BY <3>1 DEF Marked
    <3>4. Gone(i) => Gone(i)'
      BY <3>1 DEF Gone, At
    <3>5. Known(i) => Known(i)' \/ Gone(i)'
      <4>1. CASE ~(job[i].side = s /\ job[i].path = p)
        BY <3>1, <4>1 DEF Known
      <4>2. CASE Known(i) /\ job[i].side = s /\ job[i].path = p
        <5>1. job[i].stamp # scan.todo[p]
          BY <1>1, <1>4, <3>1, <4>2 DEF Known
        <5>2. ~At(s, p, job[i].stamp)
          BY <3>1, <4>2, <5>1 DEF OnceInv, ListFresh
        <5> QED
          BY <3>1, <4>2, <5>2 DEF Gone, At
      <4> QED
        BY <4>1, <4>2
    <3> QED
      BY <3>1, <3>2, <3>3, <3>4, <3>5
  <2> QED
    BY <2>1, <2>2
<1> QED
  BY <1>6, <1>7, <1>8, <1>10, <1>11 DEF OnceInv

(* The steps, one group after the other.                                    *)
LEMMA OnceMoving ==
  ASSUME Calm, OnceInv, Typed,
         \/ \E force \in BOOLEAN : ScanStarts(force)
         \/ ScanFails \/ ReconcileUploads \/ ReconcileEnds \/ AndroidEnds
         \/ \E p \in Paths, s \in Sides : ReconcileOwed(s, p)
         \/ "pc" \notin scan.sides /\ ListPc
  PROVE  OnceInv'
<1>1. UNCHANGED <<world, job, clock, folder, seen, processed, past>>
  BY DEF ScanStarts, ScanFails, ReconcileUploads, ReconcileEnds, AndroidEnds, ReconcileOwed, ListPc, ScanSame, memory
<1>2. \/ scan'.at \in {"idle", "list", "listpc"}
      \/ scan'.at = "pc" /\ scan'.todo = <<>>
      \/ scan'.at = "downloads" /\ scan'.todo = Tracked("android")
      \/ scan'.at = "uploads" /\ scan'.todo = Tracked("pc")
      \/ /\ scan.at \in {"downloads", "uploads"} /\ scan'.at = scan.at
         /\ \E p \in Paths : scan'.todo = Drop(scan.todo, {p})
  <2>1. CASE \E force \in BOOLEAN : ScanStarts(force)
    BY <2>1 DEF ScanStarts
  <2>2. CASE ScanFails
    BY <2>2 DEF ScanFails, Idle
  <2>3. CASE ReconcileUploads \/ ReconcileEnds \/ AndroidEnds \/ ("pc" \notin scan.sides /\ ListPc)
    BY <2>3 DEF ReconcileUploads, ReconcileEnds, AndroidEnds, ListPc, Step, Typed, ScanTyped
  <2>4. CASE \E p \in Paths, s \in Sides : ReconcileOwed(s, p)
    BY <2>4 DEF ReconcileOwed, Handled, Typed, ScanTyped
  <2> QED
    BY <2>1, <2>2, <2>3, <2>4
<1>3. \A s \in Sides, p \in Paths : ~Listing(s, p)'
  BY <1>2, EmptyTable DEF Listing
<1>4. TodoAgrees'
  <2>1. CASE scan'.at = "downloads" /\ scan'.todo = Tracked("android")
    BY <1>1, <2>1 DEF TodoAgrees, Reconciling, Tracked, Sides
  <2>2. CASE scan'.at = "uploads" /\ scan'.todo = Tracked("pc")
    BY <1>1, <2>2 DEF TodoAgrees, Reconciling, Tracked, Sides
  <2>3. ASSUME scan'.at = scan.at, NEW p \in Paths, scan'.todo = Drop(scan.todo, {p}) PROVE TodoAgrees'
    BY <1>1, <2>3 DEF OnceInv, TodoAgrees, Reconciling, Drop
  <2>4. CASE scan'.at \in {"idle", "list", "listpc", "pc"}
    BY <2>4 DEF TodoAgrees, Reconciling
  <2> QED
    BY <1>2, <2>1, <2>2, <2>3, <2>4
<1>5. SpoolWanted'
  BY <1>2 DEF SpoolWanted
<1>6. \A i \in Accepted \ Stopped : Known(i) => Known(i)'
  BY <1>1 DEF Known
<1> QED
  BY <1>1, <1>3, <1>4, <1>5, <1>6, OnceFrame

(* What is marked at a destination is either the version of a known         *)
(* transfer or another one.                                                 *)
LEMMA MarkedKnown ==
  ASSUME Typed, NEW s \in Sides, NEW d, seen' = [seen EXCEPT ![s] = MarkedSeen(s, d)],
         MarkedPrints(s, d) \subseteq processed'[s], UNCHANGED folder,
         NEW i \in Accepted, UNCHANGED job[i], Known(i), \A p \in Paths : ~Listing(s, p)'
  PROVE  Known(i)' \/ Marked(i)' \/ Gone(i)'
<1>1. i \in Jobs /\ job[i].side \in Sides /\ job[i].path \in Paths
  BY JobFacts
<1>2. CASE job[i].side = s /\ job[i].path = d /\ d \in DOMAIN folder[s]
  <2>1. CASE job[i].stamp = folder[s][d].stamp
    BY <1>2, <2>1 DEF Marked, MarkedPrints
  <2>2. CASE job[i].stamp # folder[s][d].stamp
    BY <1>1, <1>2, <2>2 DEF Gone, At
  <2> QED
    BY <2>1, <2>2
<1>3. CASE ~(job[i].side = s /\ job[i].path = d /\ d \in DOMAIN folder[s])
  BY <1>1, <1>3 DEF Known, MarkedSeen, Put, Typed, SeenTyped
<1> QED
  BY <1>2, <1>3

LEMMA OnceReconciling ==
  ASSUME Calm, OnceInv, Typed,
         \/ \E removed \in BOOLEAN : RemoveSource(removed)
         \/ \E p \in Paths : ReconcileDownload(p) \/ ReconcileUpload(p)
         \/ \E p \in Paths, s \in Sides : ReconcileStopped(s, p)
         \/ StatUploaded
  PROVE  OnceInv'
<1>1. UNCHANGED <<world, job, clock, past>>
  BY DEF RemoveSource, ReconcileDownload, ReconcileUpload, ReconcileStopped, StatUploaded, ScanSame
<1>2. ScanTyped(scan) /\ SeenTyped(seen) /\ FolderTyped(folder) /\ PrintsTyped(processed)
  BY DEF Typed
<1>3. /\ scan.at \in {"downloads", "remove", "uploads", "stat"} /\ scan'.at \in {"downloads", "remove", "uploads", "stat"}
      /\ \A s \in Sides : Reconciling(s)' <=> Reconciling(s)
      /\ \A p \in DOMAIN scan'.todo : p \in DOMAIN scan.todo /\ scan'.todo[p] = scan.todo[p]
  <2>1. /\ \/ scan.at \in {"downloads", "remove"} /\ scan'.at \in {"downloads", "remove"}
           \/ scan.at \in {"uploads", "stat"} /\ scan'.at \in {"uploads", "stat"}
        /\ \/ scan'.todo = scan.todo
           \/ \E p : scan'.todo = Drop(scan.todo, {p})
    <3>1. CASE \E removed \in BOOLEAN : RemoveSource(removed)
      BY <1>2, <3>1 DEF RemoveSource, ScanTyped
    <3>2. CASE \E p \in Paths : ReconcileDownload(p)
      BY <1>2, <3>2 DEF ReconcileDownload, ScanTyped, Handled
    <3>3. CASE \E p \in Paths : ReconcileUpload(p)
      BY <1>2, <3>3 DEF ReconcileUpload, ScanTyped
    <3>4. CASE \E p \in Paths, s \in Sides : ReconcileStopped(s, p)
      BY <1>2, <3>4 DEF ReconcileStopped, ScanTyped, Handled
    <3>5. CASE StatUploaded
      BY <1>2, <3>5 DEF StatUploaded, ScanTyped
    <3> QED
      BY <3>1, <3>2, <3>3, <3>4, <3>5
  <2>2. \A p : p \in DOMAIN scan'.todo => p \in DOMAIN scan.todo /\ scan'.todo[p] = scan.todo[p]
    BY <2>1 DEF Drop
  <2>3. \A s \in Sides : Reconciling(s)' <=> Reconciling(s)
    BY <2>1 DEF Reconciling, Sides
  <2> QED
    BY <2>1, <2>2, <2>3
<1>4. (\A s \in Sides, p \in Paths : ~Listing(s, p)') /\ SpoolWanted'
  BY <1>3 DEF Listing, SpoolWanted
<1>5. CASE \E removed \in BOOLEAN : RemoveSource(removed)
  <2>1. PICK removed \in BOOLEAN : RemoveSource(removed)
    BY <1>5
  <2> DEFINE p == scan.item
             e == [scan.todo[p] EXCEPT !.tried = TRUE]
  <2>2. scan.at = "remove" /\ p \in DOMAIN scan.todo /\ scan'.todo = Drop(scan.todo, {p}) /\ UNCHANGED processed
    BY <1>2, <2>1 DEF RemoveSource, ScanTyped
  <2>3. p \in Paths /\ scan.todo[p] \in Observations
    BY <2>2, TodoTyped
  <2>4. e.job = scan.todo[p].job /\ e.stamp = scan.todo[p].stamp
    BY <2>3 DEF Observations
  <2>5. seen' = Update("android", p, e)
    BY <2>1 DEF RemoveSource
  <2> HIDE DEF e
  <2>6. \A s \in Sides : \A q \in DOMAIN folder'[s] : q \in DOMAIN folder[s] /\ folder'[s][q] = folder[s][q]
    BY <1>2, <2>1 DEF RemoveSource, FolderTyped, Drop
  <2>7. \A i \in Accepted \ Stopped : Known(i) => Known(i)'
    <3> SUFFICES ASSUME NEW i \in Accepted \ Stopped, Known(i) PROVE Known(i)'
      OBVIOUS
    <3>1. i \in Jobs /\ NoJob \notin Jobs /\ job[i].side \in Sides /\ job[i].path \in Paths
      BY JobFacts
    <3>2. CASE job[i].side = "android" /\ job[i].path = p
      <4>1. p \in DOMAIN seen["android"] /\ seen["android"][p].job = i /\ seen["android"][p].stamp = job[i].stamp
        BY <3>2 DEF Known
      <4>2. scan.todo[p].job = i /\ scan.todo[p].stamp = job[i].stamp
        BY <2>2, <3>1, <4>1 DEF OnceInv, TodoAgrees, Reconciling, Sides
      <4>3. p \in DOMAIN seen'["android"] /\ seen'["android"][p] = e
        BY <2>3, <2>5, <4>1, SeenUpdateFacts DEF Sides
      <4> QED
        BY <1>1, <2>4, <3>2, <4>2, <4>3 DEF Known
    <3>3. CASE ~(job[i].side = "android" /\ job[i].path = p)
      BY <1>1, <2>3, <2>5, <3>1, <3>3, SeenUpdateFacts DEF Known, Sides
    <3> QED
      BY <3>2, <3>3
  <2>8. TodoAgrees'
    <3> SUFFICES ASSUME NEW s \in Sides, Reconciling(s)', NEW q \in DOMAIN scan'.todo \cap DOMAIN seen'[s]
                 PROVE  \/ seen'[s][q].job = NoJob
                        \/ seen'[s][q].job = scan'.todo[q].job /\ seen'[s][q].stamp = scan'.todo[q].stamp
      BY DEF TodoAgrees
    <3>1. q # p /\ q \in DOMAIN scan.todo /\ scan'.todo[q] = scan.todo[q] /\ Reconciling(s)
      BY <1>3, <2>2 DEF Drop
    <3>2. q \in DOMAIN seen[s] /\ seen'[s][q] = seen[s][q]
      BY <2>3, <2>5, <3>1, SeenUpdateFacts DEF Sides
    <3> QED
      BY <3>1, <3>2 DEF OnceInv, TodoAgrees
  <2> QED
    BY <1>1, <1>4, <2>2, <2>6, <2>7, <2>8, OnceFrame
<1>6. ASSUME NEW p \in Paths, ReconcileDownload(p) PROVE OnceInv'
  <2> DEFINE d == job[scan.todo[p].job].dest
  <2>1. /\ scan.at = "downloads" /\ UNCHANGED folder /\ seen' = [seen EXCEPT !["pc"] = MarkedSeen("pc", d)]
        /\ processed' = [android |-> processed["android"] \cup {<<p, scan.todo[p].stamp>>},
                         pc |-> processed["pc"] \cup MarkedPrints("pc", d)]
    BY <1>6 DEF ReconcileDownload
  <2> HIDE DEF d
  <2>2. MarkedPrints("pc", d) \subseteq processed'["pc"] /\ \A s \in Sides : processed[s] \subseteq processed'[s]
    BY <2>1 DEF Sides
  <2>3. \A i \in Accepted \ Stopped : Known(i) => Known(i)' \/ Marked(i)' \/ Gone(i)'
    BY <1>1, <1>4, <2>1, <2>2, MarkedKnown DEF Sides
  <2>4. TodoAgrees'
    BY <1>2, <1>3, <2>1 DEF OnceInv, TodoAgrees, Reconciling, SeenTyped, Sides
  <2> QED
    BY <1>1, <1>4, <2>1, <2>2, <2>3, <2>4, OnceFrame
<1>7. ASSUME NEW p \in Paths, ReconcileUpload(p) PROVE OnceInv'
  <2>1. UNCHANGED <<folder, seen>> /\ \A s \in Sides : processed[s] \subseteq processed'[s]
    BY <1>2, <1>7 DEF ReconcileUpload, PrintsTyped
  <2>2. \A i \in Accepted \ Stopped : Known(i) => Known(i)'
    BY <1>1, <2>1 DEF Known
  <2>3. TodoAgrees'
    BY <1>3, <2>1 DEF OnceInv, TodoAgrees
  <2> QED
    BY <1>1, <1>4, <2>1, <2>2, <2>3, OnceFrame
<1>8. ASSUME NEW p \in Paths, NEW s \in Sides, ReconcileStopped(s, p) PROVE OnceInv'
  <2>1. /\ p \in DOMAIN scan.todo /\ Reconciling(s) /\ job[scan.todo[p].job].status = "stopped"
        /\ seen' = Update(s, p, Failed(scan.todo[p])) /\ UNCHANGED <<folder, processed>>
        /\ scan'.todo = Drop(scan.todo, {p}) /\ scan'.at = scan.at
    BY <1>2, <1>8 DEF ReconcileStopped, Reconciling, Handled, ScanTyped, Sides
  <2>2. scan.todo[p].job \in Jobs /\ scan.todo[p].job \in Stopped
    BY <1>3, <2>1, TodoTyped DEF Stopped
  <2>3. \A i \in Accepted \ Stopped : Known(i) => Known(i)'
    <3> SUFFICES ASSUME NEW i \in Accepted \ Stopped, Known(i) PROVE Known(i)'
      OBVIOUS
    <3>1. i \in Jobs /\ NoJob \notin Jobs /\ job[i].side \in Sides /\ job[i].path \in Paths
      BY JobFacts
    <3>2. ~(job[i].side = s /\ job[i].path = p)
      BY <2>1, <2>2, <3>1 DEF Known, OnceInv, TodoAgrees
    <3> QED
      BY <1>1, <2>1, <3>1, <3>2, SeenUpdateFacts DEF Known
  <2>4. TodoAgrees'
    <3> SUFFICES ASSUME NEW r \in Sides, Reconciling(r)', NEW q \in DOMAIN scan'.todo \cap DOMAIN seen'[r]
                 PROVE  \/ seen'[r][q].job = NoJob
                        \/ seen'[r][q].job = scan'.todo[q].job /\ seen'[r][q].stamp = scan'.todo[q].stamp
      BY DEF TodoAgrees
    <3>1. q # p /\ q \in DOMAIN scan.todo /\ scan'.todo[q] = scan.todo[q] /\ Reconciling(r)
      BY <1>3, <2>1 DEF Drop
    <3>2. q \in DOMAIN seen[r] /\ seen'[r][q] = seen[r][q]
      BY <2>1, <3>1, SeenUpdateFacts
    <3> QED
      BY <3>1, <3>2 DEF OnceInv, TodoAgrees
  <2> QED
    BY <1>1, <1>4, <2>1, <2>3, <2>4, OnceFrame
<1>9. CASE StatUploaded
  <2> DEFINE d == job[scan.todo[scan.item].job].dest
  <2>1. /\ scan.at = "stat" /\ UNCHANGED folder /\ seen' = [seen EXCEPT !["android"] = MarkedSeen("android", d)]
        /\ processed' = [processed EXCEPT !["android"] = @ \cup MarkedPrints("android", d)]
    BY <1>9 DEF StatUploaded
  <2> HIDE DEF d
  <2>2. MarkedPrints("android", d) \subseteq processed'["android"] /\ \A s \in Sides : processed[s] \subseteq processed'[s]
    BY <1>2, <2>1 DEF PrintsTyped, Sides
  <2>3. \A i \in Accepted \ Stopped : Known(i) => Known(i)' \/ Marked(i)' \/ Gone(i)'
    BY <1>1, <1>4, <2>1, <2>2, MarkedKnown DEF Sides
  <2>4. TodoAgrees'
    BY <1>2, <1>3, <2>1 DEF OnceInv, TodoAgrees, Reconciling, SeenTyped, Sides
  <2> QED
    BY <1>1, <1>4, <2>1, <2>2, <2>3, <2>4, OnceFrame
<1> QED
  BY <1>5, <1>6, <1>7, <1>8, <1>9

LEMMA OnceLists ==
  ASSUME Calm, OnceInv, Typed, NEW s \in Sides, NEW place, NEW after \in {"listpc", "pc"}, Lists(s, place, after)
  PROVE  OnceInv'
<1>1. /\ UNCHANGED <<world, job, clock, folder>>
      /\ ScanTyped(scan) /\ SeenTyped(seen) /\ FolderTyped(folder) /\ PrintsTyped(processed)
  BY DEF Lists, Typed
<1>2. CASE s \notin based /\ s \notin config.existing
  <2>1. /\ processed' = [processed EXCEPT ![s] = @ \cup Prints(folder[s])]
        /\ seen' = [seen EXCEPT ![s] = [p \in DOMAIN @ \cup DOMAIN folder[s] |->
                  IF p \in DOMAIN folder[s] THEN Settled(folder[s][p].stamp) ELSE @[p]]]
        /\ past' = [past EXCEPT !.baselined = @ \cup {<<s, f>> : f \in Prints(folder[s])}]
        /\ scan'.at = after /\ scan'.todo = <<>>
    BY <1>1, <1>2 DEF Lists, Step, ScanTyped
  <2>2. /\ TodoAgrees' /\ SpoolWanted' /\ \A r \in Sides, q \in Paths : ~Listing(r, q)'
        /\ past'.forgotten = past.forgotten
    BY <2>1, EmptyTable DEF TodoAgrees, Reconciling, SpoolWanted, Listing, Typed
  <2>3. Prints(folder[s]) \subseteq processed'[s] /\ \A r \in Sides : processed[r] \subseteq processed'[r]
    BY <1>1, <2>1 DEF PrintsTyped
  <2>4. \A i \in Accepted \ Stopped : Known(i) => Known(i)' \/ Marked(i)' \/ Gone(i)'
    <3> SUFFICES ASSUME NEW i \in Accepted \ Stopped, Known(i) PROVE Known(i)' \/ Marked(i)' \/ Gone(i)'
      OBVIOUS
    <3>1. i \in Jobs /\ job[i].side \in Sides /\ job[i].path \in Paths
      BY JobFacts
    <3>2. CASE At(job[i].side, job[i].path, job[i].stamp) /\ job[i].side = s
      <4>1. <<job[i].path, job[i].stamp>> \in Prints(folder[s])
        BY <3>2 DEF At, Prints
      <4> QED
        BY <1>1, <2>3, <3>2, <4>1 DEF Marked
    <3>3. CASE ~At(job[i].side, job[i].path, job[i].stamp) /\ job[i].side = s
      BY <1>1, <2>2, <3>1, <3>3 DEF Gone, At
    <3>4. CASE job[i].side # s
      BY <1>1, <2>1, <3>1, <3>4 DEF Known, SeenTyped
    <3> QED
      BY <3>2, <3>3, <3>4
  <2> QED
    BY <1>1, <2>2, <2>3, <2>4, OnceFrame
<1>3. CASE ~(s \notin based /\ s \notin config.existing)
  <2>1. /\ UNCHANGED <<processed, seen, past>> /\ scan'.at = s
        /\ scan'.todo = [p \in DOMAIN folder[s] |-> folder[s][p].stamp]
    BY <1>1, <1>3 DEF Lists, Step, ScanTyped
  <2>2. TodoAgrees' /\ SpoolWanted'
    BY <2>1 DEF TodoAgrees, Reconciling, SpoolWanted, Sides
  <2>3. \A r \in Sides, q \in Paths : Listing(r, q)' => r = s /\ q \in DOMAIN folder[s] /\ scan'.todo[q] = folder[s][q].stamp
    BY <2>1 DEF Listing, Sides
  <2>4. Accepted' = Accepted /\ Stopped' = Stopped /\ \A n : Born(n)' <=> Born(n)
    BY <1>1 DEF Accepted, Stopped, Born, CopyStamp
  <2>5. \A i \in Accepted : job[i].side \in Sides /\ job[i].path \in Paths
    BY JobFacts
  <2>6. StampsBorn'
    BY <1>1, <2>3, <2>4 DEF OnceInv, StampsBorn
  <2>7. ListFresh'
    BY <1>1, <2>3, <2>4, <2>5 DEF ListFresh, At
  <2>8. Remembered'
    <3> SUFFICES ASSUME NEW i \in Accepted \ Stopped
                 PROVE  job[i].stamp \in past.forgotten \/ Marked(i)' \/ Known(i)' \/ Gone(i)'
      BY <1>1, <2>1, <2>4 DEF Remembered
    <3>1. job[i].stamp \in past.forgotten \/ Marked(i) \/ Known(i) \/ Gone(i)
      BY DEF OnceInv, Remembered
    <3>2. (Marked(i) => Marked(i)') /\ (Known(i) => Known(i)')
      BY <1>1, <2>1 DEF Marked, Known
    <3>3. Gone(i) => Gone(i)'
      BY <1>1, <2>3, <2>5 DEF Gone, At
    <3> QED
      BY <3>1, <3>2, <3>3
  <2>9. QueuedOnce'
    BY <1>1, <2>1, <2>4 DEF OnceInv, QueuedOnce, Calm
  <2> QED
    BY <2>2, <2>6, <2>7, <2>8, <2>9 DEF OnceInv
<1> QED
  BY <1>2, <1>3

(* A file of the list is looked at.                                         *)
LEMMA OnceObserving ==
  ASSUME Calm, OnceInv, Typed, NEW s \in Sides, NEW p \in Paths,
         \/ Observe(s, p)
         \/ s = "android" /\ DownloadRefused(p)
         \/ s = "pc" /\ SpoolStarts(p)
  PROVE  OnceInv'
<1>1. /\ UNCHANGED <<world, job, clock, past, folder, processed>>
      /\ p \in DOMAIN scan.todo /\ scan.at = s
  BY DEF Observe, DownloadRefused, SpoolStarts, ScanSame
<1>2. /\ Observed(s, p) \in Observations /\ Observed(s, p).stamp = scan.todo[p] /\ Listing(s, p)
  BY <1>1, ObservedTyped DEF Listing, Sides
<1>3. PICK e : /\ seen' = [seen EXCEPT ![s] = Put(seen[s], p, e)] /\ e.stamp = scan.todo[p]
               /\ \/ e.job = Observed(s, p).job
                  \/ Observed(s, p).job = NoJob
               /\ SpoolStarts(p) => e = Observed(s, p)
  <2>1. CASE Observe(s, p)
    BY <1>1, <1>2, <2>1 DEF Observe, SpoolStarts
  <2>2. CASE s = "pc" /\ SpoolStarts(p)
    BY <1>2, <2>2 DEF SpoolStarts
  <2>3. CASE s = "android" /\ DownloadRefused(p)
    BY <1>1, <1>2, <2>3, FailedTyped DEF DownloadRefused, Wanted, SpoolStarts
  <2> QED
    BY <2>1, <2>2, <2>3
<1>4. /\ p \in DOMAIN seen'[s] /\ seen'[s][p] = e
      /\ \A r \in Sides : \A q \in DOMAIN seen[r] :
            (r = s /\ q = p) \/ (q \in DOMAIN seen'[r] /\ seen'[r][q] = seen[r][q])
  BY <1>3, SeenPutFacts
<1>5. /\ scan'.at = s \/ (s = "pc" /\ scan'.at = "spool")
      /\ \A q \in DOMAIN scan'.todo : q \in DOMAIN scan.todo /\ scan'.todo[q] = scan.todo[q]
  <2>1. CASE Observe(s, p) \/ DownloadRefused(p)
    BY <1>1, <2>1 DEF Observe, DownloadRefused, Handled, Drop, Typed, ScanTyped
  <2>2. CASE s = "pc" /\ SpoolStarts(p)
    BY <1>1, <2>2 DEF SpoolStarts, Typed, ScanTyped
  <2> QED
    BY <2>1, <2>2
<1>6. \A r \in Sides, q \in Paths : Listing(r, q)' => Listing(r, q) /\ scan'.todo[q] = scan.todo[q]
  BY <1>1, <1>5 DEF Listing, Sides
<1>7. TodoAgrees'
  BY <1>5 DEF TodoAgrees, Reconciling, Sides
<1>8. SpoolWanted'
  <2>1. CASE Observe(s, p) \/ DownloadRefused(p)
    BY <1>1, <2>1 DEF SpoolWanted, Observe, DownloadRefused, Handled, Typed, ScanTyped, Sides
  <2>2. CASE s = "pc" /\ SpoolStarts(p)
    <3>1. scan'.item = p /\ scan'.todo = scan.todo
      BY <2>2 DEF SpoolStarts, Typed, ScanTyped
    <3>2. Observed("pc", p).job = NoJob /\ <<p, Observed("pc", p).stamp>> \notin processed["pc"]
      BY <2>2 DEF SpoolStarts, Wanted
    <3>3. p \in DOMAIN seen'["pc"] /\ seen'["pc"][p] = Observed("pc", p)
      BY <1>3, <1>4, <2>2
    <3> QED
      BY <1>1, <1>2, <2>2, <3>1, <3>2, <3>3 DEF SpoolWanted
  <2> QED
    BY <2>1, <2>2
<1>9. \A i \in Accepted \ Stopped : Known(i) => Known(i)' \/ Gone(i)'
  BY <1>1, <1>2, <1>3, <1>4, <1>6, ObservedKnown
<1> QED
  BY <1>1, <1>6, <1>7, <1>8, <1>9, OnceFrame

LEMMA OnceDownload ==
  ASSUME Calm, OnceInv, Typed, NEW p \in Paths, QueueDownload(p)
  PROVE  OnceInv'
<1>1. /\ UNCHANGED <<world, clock, past, folder, processed>>
      /\ p \in DOMAIN scan.todo /\ scan.at = "android" /\ Wanted("android", p)
      /\ scan'.at = "android" /\ scan'.todo = Drop(scan.todo, {p})
  BY DEF QueueDownload, Handled, Typed, ScanTyped
<1>2. PICK j \in NextJob, dest \in Resolved(p, folder["pc"], config.policy["android"]) :
          /\ Accept(j, "android", p, scan.todo[p], 0, dest)
          /\ seen' = [seen EXCEPT !["android"] = Put(seen["android"], p, [Observed("android", p) EXCEPT !.job = j])]
  BY DEF QueueDownload
<1>3. Observed("android", p) \in Observations /\ Observed("android", p).stamp = scan.todo[p] /\ Listing("android", p)
  BY <1>1, ObservedTyped DEF Listing, Sides
<1>4. Observed("android", p).job = NoJob /\ <<p, scan.todo[p]>> \notin processed["android"]
  BY <1>1, <1>3 DEF Wanted
<1> DEFINE e == [Observed("android", p) EXCEPT !.job = j]
<1>5. e.job = j /\ e.stamp = scan.todo[p]
  BY <1>3 DEF Observations
<1>6. /\ p \in DOMAIN seen'["android"] /\ seen'["android"][p].job = j
      /\ seen'["android"][p].stamp = scan.todo[p]
      /\ \A r \in Sides : \A q \in DOMAIN seen[r] :
               (r = "android" /\ q = p) \/ (q \in DOMAIN seen'[r] /\ seen'[r][q] = seen[r][q])
  <2>1. /\ p \in DOMAIN seen'["android"] /\ seen'["android"][p] = e
        /\ \A r \in Sides : \A q \in DOMAIN seen[r] :
                 (r = "android" /\ q = p) \/ (q \in DOMAIN seen'[r] /\ seen'[r][q] = seen[r][q])
    BY <1>2, SeenPutFacts DEF Sides
  <2> HIDE DEF e
  <2> QED
    BY <1>5, <2>1
<1>7. /\ ~Listing("android", p)'
      /\ \A r \in Sides, q \in Paths : Listing(r, q)' => Listing(r, q) /\ scan'.todo[q] = scan.todo[q]
  BY <1>1 DEF Listing, Drop
<1>8. /\ Accept(j, "android", p, scan.todo[p], 0, dest) /\ j \in NextJob
      /\ "android" \in Sides /\ scan'.at \in {"android", "pc"}
  BY <1>1, <1>2 DEF Sides
<1> QED
  BY <1>1, <1>3, <1>4, <1>6, <1>7, <1>8, OnceAccepted

LEMMA OnceUpload ==
  ASSUME Calm, OnceInv, Typed, NEW p \in Paths, QueueUpload(p) \/ UploadRefused(p)
  PROVE  OnceInv'
<1>1. /\ UNCHANGED <<world, clock, past, folder, processed>>
      /\ scan.at = "spool" /\ scan.item = p /\ p \in DOMAIN scan.todo /\ Continues(p)
  BY DEF QueueUpload, UploadRefused, Typed, ScanTyped
<1>2. /\ p \in DOMAIN seen["pc"] /\ seen["pc"][p].job = NoJob /\ seen["pc"][p].stamp = scan.todo[p]
      /\ <<p, scan.todo[p]>> \notin processed["pc"]
  BY <1>1 DEF OnceInv, SpoolWanted
<1>3. /\ scan'.at = "pc" /\ scan'.todo = Drop(scan.todo, {p})
  BY <1>1, <1>2 DEF Continues, Typed, ScanTyped
<1>4. /\ Observed("pc", p) \in Observations /\ Observed("pc", p).stamp = scan.todo[p] /\ Listing("pc", p)
      /\ Observed("pc", p).job = NoJob
  BY <1>1, <1>2, ObservedTyped DEF Listing, Sides
<1>5. /\ ~Listing("pc", p)'
      /\ \A r \in Sides, q \in Paths : Listing(r, q)' => Listing(r, q) /\ scan'.todo[q] = scan.todo[q]
  BY <1>1, <1>3 DEF Listing, Drop
<1>6. CASE QueueUpload(p)
  <2>1. PICK j \in NextJob :
          /\ Accept(j, "pc", p, scan.todo[p], folder["pc"][p].origin, <<>>)
          /\ seen' = Update("pc", p, [Observed("pc", p) EXCEPT !.job = j])
    BY <1>6 DEF QueueUpload
  <2> DEFINE e == [Observed("pc", p) EXCEPT !.job = j]
  <2>2. e.job = j /\ e.stamp = scan.todo[p]
    BY <1>4 DEF Observations
  <2> HIDE DEF e
  <2>3. /\ p \in DOMAIN seen'["pc"] /\ seen'["pc"][p].job = j /\ seen'["pc"][p].stamp = scan.todo[p]
        /\ \A r \in Sides : \A q \in DOMAIN seen[r] :
                 (r = "pc" /\ q = p) \/ (q \in DOMAIN seen'[r] /\ seen'[r][q] = seen[r][q])
    <3>1. seen' = Update("pc", p, e) /\ "pc" \in Sides
      BY <2>1 DEF e, Sides
    <3> QED
      BY <1>2, <2>2, <3>1, SeenUpdateFacts
  <2>4. /\ Accept(j, "pc", p, scan.todo[p], folder["pc"][p].origin, <<>>) /\ j \in NextJob
        /\ "pc" \in Sides /\ scan'.at \in {"android", "pc"}
    BY <1>3, <2>1 DEF Sides
  <2> QED
    BY <1>1, <1>2, <1>4, <1>5, <2>3, <2>4, OnceAccepted
<1>7. CASE UploadRefused(p)
  <2>1. seen' = Update("pc", p, Failed(Observed("pc", p))) /\ UNCHANGED job
    BY <1>7 DEF UploadRefused
  <2>2. Failed(Observed("pc", p)).stamp = scan.todo[p] /\ Failed(Observed("pc", p)).job = NoJob
    BY <1>4, FailedTyped
  <2>3. /\ p \in DOMAIN seen'["pc"] /\ seen'["pc"][p] = Failed(Observed("pc", p))
        /\ \A r \in Sides : \A q \in DOMAIN seen[r] :
                 (r = "pc" /\ q = p) \/ (q \in DOMAIN seen'[r] /\ seen'[r][q] = seen[r][q])
    BY <1>2, <2>1, SeenUpdateFacts DEF Sides
  <2>4. \A i \in Accepted \ Stopped : Known(i) => Known(i)' \/ Gone(i)'
    BY <1>1, <1>4, <1>5, <2>1, <2>2, <2>3, ObservedKnown DEF Sides
  <2>5. TodoAgrees' /\ SpoolWanted'
    BY <1>3 DEF TodoAgrees, Reconciling, SpoolWanted, Sides
  <2> QED
    BY <1>1, <1>5, <2>1, <2>4, <2>5, OnceFrame
<1> QED
  BY <1>6, <1>7

(* Transfers stop, and a scan may be cancelled.                             *)
LEMMA OnceStopped ==
  ASSUME Calm, OnceInv, Typed, UNCHANGED <<world, folder, seen, processed, clock, past>>,
         scan' = scan \/ scan' = Idle,
         \A i \in Jobs : /\ job'[i].side = job[i].side /\ job'[i].path = job[i].path
                         /\ job'[i].stamp = job[i].stamp
                         /\ job'[i].status = "none" <=> job[i].status = "none"
                         /\ job'[i].status = "delivered" <=> job[i].status = "delivered"
                         /\ job[i].status = "stopped" => job'[i].status = "stopped"
  PROVE  OnceInv'
<1>1. /\ Accepted' = Accepted /\ \A i : i \in Stopped => i \in Stopped'
      /\ \A n : Born(n)' <=> Born(n)
  BY DEF Accepted, Stopped, Born, CopyStamp
<1>2. \A i \in Accepted : i \in Jobs
  BY DEF Accepted
<1>3. \A s, p : Listing(s, p)' => Listing(s, p) /\ scan' = scan
  BY DEF Listing, Idle
<1>4. StampsBorn'
  <2>1. (\A i \in Accepted : Born(job[i].stamp))'
    BY <1>1, <1>2 DEF OnceInv, StampsBorn, Born, CopyStamp
  <2>2. (\A s \in Sides : \A p \in DOMAIN folder[s] : Born(folder[s][p].stamp))'
    BY <1>1 DEF OnceInv, StampsBorn
  <2>3. (\A s \in Sides, p \in Paths : Listing(s, p) => Born(scan.todo[p]))'
    BY <1>1, <1>3 DEF OnceInv, StampsBorn
  <2> QED
    BY <2>1, <2>2, <2>3 DEF StampsBorn
<1>5. ListFresh'
  BY <1>1, <1>2, <1>3 DEF OnceInv, ListFresh, At
<1>6. TodoAgrees' /\ SpoolWanted'
  BY DEF OnceInv, TodoAgrees, SpoolWanted, Reconciling, Idle
<1>7. Remembered'
  <2> SUFFICES ASSUME NEW i \in Accepted, i \notin Stopped
               PROVE  job[i].stamp \in past.forgotten \/ Marked(i)' \/ Known(i)' \/ Gone(i)'
    BY <1>1, <1>2 DEF Remembered
  <2>1. job[i].stamp \in past.forgotten \/ Marked(i) \/ Known(i) \/ Gone(i)
    BY DEF OnceInv, Remembered
  <2>2. (Marked(i) => Marked(i)') /\ (Known(i) => Known(i)')
    BY <1>2 DEF Marked, Known
  <2>3. Gone(i) => Gone(i)'
    BY <1>2, <1>3 DEF Gone, At
  <2> QED
    BY <2>1, <2>2, <2>3
<1>8. QueuedOnce'
  BY <1>1, <1>2 DEF OnceInv, QueuedOnce, Calm
<1> QED
  BY <1>4, <1>5, <1>6, <1>7, <1>8 DEF OnceInv

LEMMA OnceQueue ==
  ASSUME Calm, OnceInv, Typed, NEW j \in Jobs, JobDelivers(j) \/ JobStops(j)
  PROVE  OnceInv'
<1>1. job[j].status = "owed" /\ job \in [Jobs -> Records]
  BY DEF JobDelivers, JobStops, Owed, Typed
<1>2. CASE JobDelivers(j)
  <2>1. PICK dest \in Paths, origin \in 1..MaxWrites :
            LET to == Other(job[j].side) IN
            /\ job[j].status = "owed" /\ to \in Sides /\ job[j].side \in Sides
            /\ folder' = [folder EXCEPT ![to] = Put(folder[to], dest, [stamp |-> CopyStamp(j), origin |-> origin])]
            /\ job' = [job EXCEPT ![j] = [job[j] EXCEPT !.status = "delivered", !.dest = dest, !.carries = origin]]
    BY <1>2, Delivery
  <2> DEFINE q == job[j]
             r == [q EXCEPT !.status = "delivered", !.dest = dest, !.carries = origin]
             v == [stamp |-> CopyStamp(j), origin |-> origin]
             to == Other(job[j].side)
  <2>2. UNCHANGED <<world, seen, processed, scan, past, clock>>
    BY <1>2 DEF JobDelivers, memory
  <2>3. job' = [job EXCEPT ![j] = r] /\ q \in Records /\ q = job[j]
    BY <1>1, <2>1
  <2> HIDE DEF q
  <2>4. r.side = q.side /\ r.path = q.path /\ r.stamp = q.stamp /\ r.status = "delivered"
    BY <2>3 DEF Records
  <2> HIDE DEF r
  <2>5. \A i \in Jobs : /\ job'[i].side = job[i].side /\ job'[i].path = job[i].path
                        /\ job'[i].stamp = job[i].stamp
                        /\ job'[i].status = "none" <=> job[i].status = "none"
                        /\ job'[i].status = "stopped" <=> job[i].status = "stopped"
                        /\ job[i].status = "delivered" => job'[i].status = "delivered"
    BY <1>1, <2>3, <2>4
  <2>6. ~Born(v.stamp)
    <3>1. ~(CopyStamp(j) \in 1..clock)
      BY StampBounds, Bounds DEF Typed
    <3> QED
      BY <1>1, <3>1, StampBounds DEF Born
  <2>7. Born(v.stamp)'
    BY <1>1, <2>3, <2>4 DEF Born, CopyStamp
  <2>8. \A n : Born(n) => Born(n)'
    BY <2>2, <2>5 DEF Born, CopyStamp
  <2>9. folder' = [folder EXCEPT ![to] = Put(folder[to], dest, v)] /\ to \in Sides
    BY <2>1
  <2> HIDE DEF v, to
  <2> QED
    BY <2>2, <2>5, <2>6, <2>7, <2>8, <2>9, OnceWritten
<1>3. CASE JobStops(j)
  <2> DEFINE q == job[j]
             r == [q EXCEPT !.status = "stopped"]
  <2>1. job' = [job EXCEPT ![j] = r] /\ q \in Records /\ q = job[j]
    BY <1>1, <1>3 DEF JobStops
  <2> HIDE DEF q
  <2>2. r.side = q.side /\ r.path = q.path /\ r.stamp = q.stamp /\ r.status = "stopped"
    BY <2>1 DEF Records
  <2> HIDE DEF r
  <2>3. \A i \in Jobs : /\ job'[i].side = job[i].side /\ job'[i].path = job[i].path
                        /\ job'[i].stamp = job[i].stamp
                        /\ job'[i].status = "none" <=> job[i].status = "none"
                        /\ job'[i].status = "delivered" <=> job[i].status = "delivered"
                        /\ job[i].status = "stopped" => job'[i].status = "stopped"
    BY <1>1, <2>1, <2>2
  <2> QED
    BY <1>3, <2>3, OnceStopped DEF JobStops, memory
<1> QED
  BY <1>2, <1>3

LEMMA OnceUser ==
  ASSUME Calm, OnceInv, Typed, NEW s \in Sides, NEW p \in Paths,
         UserWrites(s, p) \/ UserRemoves(s, p) \/ TimePasses(s, p)
  PROVE  OnceInv'
<1>1. CASE UserWrites(s, p)
  <2>0. PICK n : n = clock + 1
    OBVIOUS
  <2> DEFINE v == [stamp |-> n, origin |-> n]
  <2>1. /\ folder' = [folder EXCEPT ![s] = Put(folder[s], p, v)] /\ clock < MaxWrites /\ clock' = n
        /\ UNCHANGED <<world, seen, processed, scan, past, job>>
    BY <1>1, <2>0 DEF UserWrites, memory
  <2>2. clock \in Nat /\ MaxWrites \in Nat
    BY Bounds DEF Typed
  <2>3. ~Born(v.stamp) /\ Born(v.stamp)' /\ \A m : Born(m) => Born(m)'
    <3>1. n \notin 1..clock /\ n \in 1..clock' /\ \A m \in 1..clock : m \in 1..clock'
      BY <2>0, <2>1, <2>2
    <3>2. \A i \in Jobs : n # CopyStamp(i)
      BY <2>0, <2>1, <2>2, StampBounds
    <3> QED
      BY <2>1, <3>1, <3>2 DEF Born, CopyStamp
  <2>4. \A i \in Jobs : /\ job'[i].side = job[i].side /\ job'[i].path = job[i].path
                        /\ job'[i].stamp = job[i].stamp
                        /\ job'[i].status = "none" <=> job[i].status = "none"
                        /\ job'[i].status = "stopped" <=> job[i].status = "stopped"
    BY <2>1
  <2> HIDE DEF v
  <2> QED
    BY <2>1, <2>3, <2>4, OnceWritten
<1>2. ~UserRemoves(s, p)
  BY DEF UserRemoves, Calm
<1>3. CASE TimePasses(s, p)
  <2> DEFINE e == seen[s][p]
             g == [e EXCEPT !.waits = FALSE]
  <2>1. /\ seen' = [seen EXCEPT ![s][p] = g] /\ p \in DOMAIN seen[s] /\ scan.at \in {"idle", "remove", "stat", "list", "spool"}
        /\ UNCHANGED <<world, clock, processed, scan, past, job, folder>>
    BY <1>3 DEF TimePasses, Suspended
  <2>2. e \in Observations
    BY <2>1 DEF Typed, SeenTyped, IsTable
  <2> HIDE DEF e
  <2>3. g.job = e.job /\ g.stamp = e.stamp
    BY <2>2 DEF Observations
  <2> HIDE DEF g
  <2>4. \A r \in Sides : /\ DOMAIN seen'[r] = DOMAIN seen[r]
                         /\ \A q \in DOMAIN seen[r] : seen'[r][q].job = seen[r][q].job /\ seen'[r][q].stamp = seen[r][q].stamp
    BY <2>1, <2>3 DEF Typed, SeenTyped, e
  <2>5. TodoAgrees' /\ SpoolWanted'
    BY <2>1, <2>4 DEF OnceInv, TodoAgrees, SpoolWanted, Reconciling, Sides
  <2>6. \A i \in Accepted \ Stopped : Known(i) => Known(i)'
    BY <2>1, <2>4, JobFacts DEF Known
  <2> QED
    BY <2>1, <2>5, <2>6, OnceFrame DEF Listing
<1> QED
  BY <1>1, <1>2, <1>3

(* Only what is settled is reset, and what is forgotten is remembered as    *)
(* forgotten.                                                               *)
LEMMA OnceReset ==
  ASSUME Calm, OnceInv, Typed, (\E c \in Configs : Configure(c)) \/ ClearHistory
  PROVE  OnceInv'
<1>1. Quiet /\ UNCHANGED <<world, job, clock, folder, scan>>
  BY DEF Configure, ClearHistory, CanForget, Calm
<1>2. CASE \E c \in Configs : Configure(c)
  <2>1. scan.at = "idle" /\ UNCHANGED <<processed, past>>
    BY <1>2 DEF Configure
  <2>2. TodoAgrees' /\ SpoolWanted'
    BY <1>1, <2>1 DEF TodoAgrees, SpoolWanted, Reconciling
  <2>3. \A i \in Accepted \ Stopped : Marked(i)'
    BY <1>1, <2>1 DEF Quiet, Noted, Marked, Accepted, Stopped, Owed, Typed, Records
  <2> QED
    BY <1>1, <2>1, <2>2, <2>3, OnceFrame DEF Listing
<1>3. CASE ClearHistory
  <2>1. /\ seen' = [s \in Sides |-> <<>>]
        /\ past'.forgotten = (1..clock) \cup {CopyStamp(j) : j \in {j \in Jobs : job[j].status = "delivered"}}
        /\ scan.at \notin {"remove", "stat", "spool"} /\ UNCHANGED world
    BY <1>1, <1>3 DEF ClearHistory, Quiet
  <2>2. Accepted' = Accepted /\ Stopped' = Stopped /\ \A n : Born(n)' <=> Born(n)
    BY <1>1 DEF Accepted, Stopped, Born, CopyStamp
  <2>3. \A i \in Accepted : job'[i].stamp \in past'.forgotten
    BY <1>1, <2>1 DEF OnceInv, StampsBorn, Born
  <2>4. StampsBorn' /\ ListFresh'
    BY <1>1, <2>2 DEF OnceInv, StampsBorn, ListFresh, Listing, At
  <2>5. TodoAgrees' /\ SpoolWanted'
    BY <1>1, <2>1, EmptyTable DEF TodoAgrees, SpoolWanted
  <2>6. Remembered' /\ QueuedOnce'
    BY <2>2, <2>3 DEF Remembered, QueuedOnce
  <2> QED
    BY <2>4, <2>5, <2>6 DEF OnceInv
<1> QED
  BY <1>2, <1>3

LEMMA OnceProcess ==
  ASSUME Calm, OnceInv, Typed, Close \/ Crash \/ Start
  PROVE  OnceInv'
<1>1. ~Crash
  BY DEF Crash, Calm
<1>2. CASE Close
  <2>1. /\ UNCHANGED <<world, folder, seen, processed, clock, past>> /\ scan' = Idle
        /\ job' = [j \in Jobs |-> IF j \in Owed THEN [job[j] EXCEPT !.status = "stopped"] ELSE job[j]]
    BY <1>2 DEF Close, memory, Interrupted
  <2>2. ASSUME NEW i \in Jobs
        PROVE  /\ job'[i].side = job[i].side /\ job'[i].path = job[i].path
               /\ job'[i].stamp = job[i].stamp
               /\ job'[i].status = "none" <=> job[i].status = "none"
               /\ job'[i].status = "delivered" <=> job[i].status = "delivered"
               /\ job[i].status = "stopped" => job'[i].status = "stopped"
    <3>1. CASE i \in Owed
      <4> DEFINE q == job[i]
      <4>1. q \in Records /\ q.status = "owed" /\ job'[i] = [q EXCEPT !.status = "stopped"]
        BY <2>1, <3>1 DEF Typed, Owed
      <4> HIDE DEF q
      <4>2. job'[i].side = q.side /\ job'[i].path = q.path /\ job'[i].stamp = q.stamp /\ job'[i].status = "stopped"
        BY <4>1 DEF Records
      <4> QED
        BY <4>1, <4>2 DEF q
    <3>2. CASE i \notin Owed
      BY <2>1, <3>2
    <3> QED
      BY <3>1, <3>2
  <2> QED
    BY <2>1, <2>2, OnceStopped
<1>3. CASE Start
  <2>1. UNCHANGED <<world, folder, seen, processed, clock, past, scan, job>>
    BY <1>3 DEF Start, Loaded, Calm
  <2> QED
    BY <2>1, OnceStopped
<1> QED
  BY <1>1, <1>2, <1>3

(* What is marked always fits.                                              *)
LEMMA NothingTrimmed ==
  ASSUME Roomy, NEW prints, prints \subseteq Paths \X Stamps
  PROVE  Trimmed(prints) = {prints}
<1>1. IsFiniteSet(Paths) /\ IsFiniteSet(Stamps)
  <2>1. IsFiniteSet(0..MaxCopies) /\ IsFiniteSet(1..(MaxWrites + MaxJobs))
    BY Bounds, FS_Interval
  <2> QED
    BY <2>1, Bounds, FS_Product DEF Paths, Stamps
<1>2. IsFiniteSet(Paths \X Stamps)
  BY <1>1, FS_Product
<1>3. Cardinality(prints) <= Cardinality(Paths \X Stamps)
  BY <1>2, FS_Subset
<1>4. Cardinality(prints) \in Nat /\ Cardinality(Paths \X Stamps) \in Nat
  BY <1>2, FS_Subset, FS_CardinalityType
<1>5. Cardinality(prints) <= MaxProcessed
  BY <1>3, <1>4, Bounds DEF Roomy
<1> QED
  BY <1>5 DEF Trimmed

LEMMA OnceScanEnds ==
  ASSUME Roomy, Calm, OnceInv, Typed, ScanEnds
  PROVE  OnceInv'
<1>1. /\ UNCHANGED <<world, job, clock, past, folder, seen>> /\ scan' = Idle
  BY DEF ScanEnds, ScanSame
<1>2. processed["android"] \subseteq Paths \X Stamps /\ processed["pc"] \subseteq Paths \X Stamps
  BY DEF Typed, PrintsTyped, Sides
<1>3. processed' = [android |-> processed["android"], pc |-> processed["pc"]]
  BY <1>2, NothingTrimmed DEF ScanEnds
<1>4. \A s \in Sides : processed[s] \subseteq processed'[s]
  BY <1>3 DEF Sides
<1>5. TodoAgrees' /\ SpoolWanted'
  BY <1>1 DEF TodoAgrees, Reconciling, SpoolWanted, Idle
<1>6. \A i \in Accepted \ Stopped : Known(i) => Known(i)'
  BY <1>1 DEF Known
<1>7. \A s \in Sides, p \in Paths : ~Listing(s, p)'
  BY <1>1 DEF Listing, Idle
<1> QED
  BY <1>1, <1>4, <1>5, <1>6, <1>7, OnceFrame

LEMMA WorldStays == ASSUME [Next]_vars PROVE world' = world
<1>1. CASE ReconcileStep
  BY <1>1 DEF ReconcileStep, ReconcileUploads, ReconcileEnds, StatUploaded, RemoveSource, ReconcileDownload,
     ReconcileUpload, ReconcileStopped, ReconcileOwed, ScanSame
<1>2. CASE ObserveStep
  BY <1>2 DEF ObserveStep, ListAndroid, ListPc, Lists, AndroidEnds, ScanEnds, Observe, QueueDownload, SpoolStarts,
     QueueUpload, DownloadRefused, UploadRefused, ScanSame
<1>3. CASE QueueStep \/ UserStep \/ \E s \in Sides, p \in Paths : TimePasses(s, p)
  BY <1>3 DEF QueueStep, JobDelivers, JobStops, UserStep, UserWrites, UserRemoves, Configure, ClearHistory, TimePasses
<1>4. CASE ScanFails \/ (\E force \in BOOLEAN : ScanStarts(force)) \/ Close \/ Start \/ Crash \/ UNCHANGED vars
  BY <1>4 DEF ScanFails, ScanStarts, Close, Start, Crash, ScanSame, vars
<1> QED
  BY <1>1, <1>2, <1>3, <1>4 DEF Next

LEMMA OnceNext ==
  ASSUME Roomy, Typed, Calm => OnceInv, [Next]_vars
  PROVE  (Calm => OnceInv)'
<1> SUFFICES ASSUME Calm PROVE OnceInv'
  <2>1. Calm' => Calm
    BY WorldStays DEF Calm
  <2> QED
    BY <2>1
<1>1. CASE UNCHANGED vars
  BY <1>1, OnceStopped DEF vars, memory
<1>2. CASE ReconcileStep
  BY <1>2, OnceMoving, OnceReconciling DEF ReconcileStep
<1>3. CASE ObserveStep
  <2>1. CASE ListAndroid \/ ListPc
    BY <2>1, OnceLists, OnceMoving DEF ListAndroid, ListPc, Sides
  <2>2. CASE AndroidEnds
    BY <2>2, OnceMoving
  <2>3. CASE ScanEnds
    BY <2>3, OnceScanEnds
  <2>4. CASE \E p \in Paths, s \in Sides : Observe(s, p)
    BY <2>4, OnceObserving
  <2>5. CASE \E p \in Paths : DownloadRefused(p) \/ SpoolStarts(p)
    BY <2>5, OnceObserving DEF Sides
  <2>6. CASE \E p \in Paths : QueueDownload(p) \/ QueueUpload(p) \/ UploadRefused(p)
    BY <2>6, OnceDownload, OnceUpload
  <2> QED
    BY <1>3, <2>1, <2>2, <2>3, <2>4, <2>5, <2>6 DEF ObserveStep
<1>4. CASE QueueStep
  BY <1>4, OnceQueue DEF QueueStep
<1>5. CASE UserStep \/ \E s \in Sides, p \in Paths : TimePasses(s, p)
  BY <1>5, OnceUser, OnceReset DEF UserStep
<1>6. CASE ScanFails \/ \E force \in BOOLEAN : ScanStarts(force)
  BY <1>6, OnceMoving
<1>7. CASE Close \/ Start \/ Crash
  BY <1>7, OnceProcess
<1> QED
  BY <1>1, <1>2, <1>3, <1>4, <1>5, <1>6, <1>7 DEF Next

LEMMA OnceInit == ASSUME Init PROVE OnceInv
<1>1. Accepted = {}
  BY DEF Init, Accepted, Unused
<1>2. scan.at = "idle" /\ \A s \in Sides : DOMAIN folder[s] = {}
  BY EmptyTable DEF Init, Idle
<1> QED
  BY <1>1, <1>2 DEF OnceInv, StampsBorn, ListFresh, TodoAgrees, SpoolWanted, Remembered, QueuedOnce, Listing, Reconciling

(* One version of a file is queued again only after its transfer stopped or *)
(* the history was cleared: the observed entries, their transfer_ids and    *)
(* the processed fingerprints see to it, through failures and restarts.     *)
THEOREM VersionQueuedOnce == ASSUME Roomy PROVE Spec => []QueuedOnce
<1>1. Init => Typed /\ (Calm => OnceInv)
  BY InitTyped, OnceInit
<1>2. Typed /\ (Calm => OnceInv) /\ [Next]_vars => (Typed /\ (Calm => OnceInv))'
  BY NextTyped, OnceNext
<1>3. Typed /\ (Calm => OnceInv) => QueuedOnce
  BY DEF OnceInv, QueuedOnce
<1> QED
  BY <1>1, <1>2, <1>3, PTL DEF Spec

-----------------------------------------------------------------------------
(* What keeps a file that a baseline took as old from being queued: its     *)
(* mark; or, when a crash has lost the mark, the baseline that will be done *)
(* again; or the file is no more and the scan does not hold it.             *)
Barred(s, f) ==
    \/ f \in processed[s]
    \/ world.crash /\ s \notin based /\ s \notin config.existing /\ \A p \in Paths : ~Listing(s, p)
    \/ ~At(s, f[1], f[2]) /\ (Listing(s, f[1]) => scan.todo[f[1]] # f[2])

(* The same of the state file, from which the next start will go on.        *)
SavedBarred(s, f) ==
    \/ f \in saved[2][s]
    \/ s \notin saved[3] /\ s \notin config.existing
    \/ ~At(s, f[1], f[2])

FilesBorn ==
    /\ \A s \in Sides : \A p \in DOMAIN folder[s] : Born(folder[s][p].stamp)
    /\ \A s \in Sides, p \in Paths : Listing(s, p) => Born(scan.todo[p])
    /\ \A b \in past.baselined : /\ b \in Sides \X (Paths \X Stamps)
                                 /\ Born(b[2][2])

BarredInv ==
    /\ world.crash => saved[3] \subseteq based
    /\ \A b \in past.baselined : Barred(b[1], b[2]) /\ (world.crash => SavedBarred(b[1], b[2]))
    /\ scan.at = "spool" => <<"pc", <<scan.item, scan.todo[scan.item]>>>> \notin past.baselined

BaselineInv == FilesBorn /\ (process = "down" => scan.at = "idle") /\ (Durable => BarredInv)

LEMMA BaselineFrame ==
  ASSUME BaselineInv, UNCHANGED <<world, config, past, based>>, Durable' => Durable,
         \A n : Born(n) => Born(n)',
         \A s \in Sides : \A p \in DOMAIN folder'[s] : p \in DOMAIN folder[s] /\ folder'[s][p] = folder[s][p],
         \A s \in Sides, p \in Paths : Listing(s, p)' => Listing(s, p) /\ scan'.todo[p] = scan.todo[p],
         \A s \in Sides : processed[s] \subseteq processed'[s],
         UNCHANGED saved \/ Persist,
         process' = "down" => scan'.at = "idle",
         scan'.at = "spool" => \/ <<"pc", <<scan'.item, scan'.todo[scan'.item]>>>> \notin past.baselined
                               \/ scan.at = "spool" /\ scan'.item = scan.item
                                     /\ scan'.todo[scan.item] = scan.todo[scan.item]
  PROVE  BaselineInv'
<1>1. \A s, p, n : s \in Sides /\ At(s, p, n)' => At(s, p, n)
  BY DEF At
<1>2. FilesBorn'
  <2>1. (\A s \in Sides : \A p \in DOMAIN folder[s] : Born(folder[s][p].stamp))'
    BY DEF BaselineInv, FilesBorn
  <2>2. (\A s \in Sides, p \in Paths : Listing(s, p) => Born(scan.todo[p]))'
    BY DEF BaselineInv, FilesBorn
  <2>3. (\A b \in past.baselined : b \in Sides \X (Paths \X Stamps) /\ Born(b[2][2]))'
    BY DEF BaselineInv, FilesBorn
  <2> QED
    BY <2>1, <2>2, <2>3 DEF FilesBorn
<1>3. ASSUME Durable PROVE BarredInv'
  <2>1. BarredInv
    BY <1>3 DEF BaselineInv
  <2>2. ASSUME NEW b \in past.baselined
        PROVE  Barred(b[1], b[2])' /\ (world.crash => SavedBarred(b[1], b[2])')
    <3>1. b[1] \in Sides /\ b[2][1] \in Paths
      BY <2>2 DEF BaselineInv, FilesBorn
    <3>2. Barred(b[1], b[2])'
      BY <1>1, <2>1, <2>2, <3>1 DEF BarredInv, Barred
    <3>3. CASE UNCHANGED saved /\ world.crash
      BY <1>1, <2>1, <2>2, <3>1, <3>2, <3>3 DEF BarredInv, SavedBarred
    <3>4. CASE Persist /\ world.crash
      BY <3>2, <3>4 DEF Persist, Barred, SavedBarred
    <3> QED
      BY <3>2, <3>3, <3>4
  <2>3. (world.crash => saved[3] \subseteq based)'
    BY <2>1 DEF BarredInv, Persist
  <2>4. (scan.at = "spool" => <<"pc", <<scan.item, scan.todo[scan.item]>>>> \notin past.baselined)'
    BY <2>1 DEF BarredInv
  <2> QED
    BY <2>2, <2>3, <2>4 DEF BarredInv
<1> QED
  BY <1>2, <1>3 DEF BaselineInv

LEMMA BaselineWritten ==
  ASSUME Typed, BaselineInv, NEW to \in Sides, NEW dest \in Paths, NEW v,
         folder' = [folder EXCEPT ![to] = Put(folder[to], dest, v)],
         ~Born(v.stamp), Born(v.stamp)', \A n : Born(n) => Born(n)',
         UNCHANGED <<world, process, config, seen, processed, based, saved, scan, used, past>>
  PROVE  BaselineInv'
<1>1. \A s \in Sides : \A p \in DOMAIN folder'[s] :
         \/ s = to /\ p = dest /\ folder'[s][p] = v
         \/ p \in DOMAIN folder[s] /\ folder'[s][p] = folder[s][p]
  BY DEF Typed, FolderTyped, Put
<1>2. \A s, p : Listing(s, p)' <=> Listing(s, p)
  BY DEF Listing
<1>3. FilesBorn'
  <2>1. (\A s \in Sides : \A p \in DOMAIN folder[s] : Born(folder[s][p].stamp))'
    BY <1>1 DEF BaselineInv, FilesBorn
  <2>2. (\A s \in Sides, p \in Paths : Listing(s, p) => Born(scan.todo[p]))'
    BY <1>2 DEF BaselineInv, FilesBorn
  <2>3. (\A b \in past.baselined : b \in Sides \X (Paths \X Stamps) /\ Born(b[2][2]))'
    BY DEF BaselineInv, FilesBorn
  <2> QED
    BY <2>1, <2>2, <2>3 DEF FilesBorn
<1>4. ASSUME NEW b \in past.baselined PROVE At(b[1], b[2][1], b[2][2])' => At(b[1], b[2][1], b[2][2])
  BY <1>1, <1>4 DEF BaselineInv, FilesBorn, At
<1>5. ASSUME Durable PROVE BarredInv'
  <2>1. BarredInv
    BY <1>5 DEF BaselineInv
  <2>2. ASSUME NEW b \in past.baselined
        PROVE  Barred(b[1], b[2])' /\ (world.crash => SavedBarred(b[1], b[2])')
    BY <1>2, <1>4, <2>1, <2>2 DEF BarredInv, Barred, SavedBarred
  <2> QED
    BY <2>1, <2>2 DEF BarredInv
<1>6. Durable' <=> Durable
  BY DEF Durable
<1> QED
  BY <1>3, <1>5, <1>6 DEF BaselineInv

LEMMA BaselineLists ==
  ASSUME Typed, BaselineInv, NEW s \in Sides, NEW place, NEW after \in {"listpc", "pc"}, Lists(s, place, after)
  PROVE  BaselineInv'
<1>1. /\ UNCHANGED <<world, process, config, job, clock, folder, saved, used>> /\ process = "up"
      /\ based' = based \cup {s} /\ scan'.at \in {"listpc", "pc", s}
      /\ ScanTyped(scan) /\ FolderTyped(folder) /\ PrintsTyped(processed)
      /\ \A r \in Sides : processed[r] \subseteq processed'[r]
  <2>1. \A r \in Sides : processed[r] \subseteq processed'[r]
    BY DEF Lists, Typed, PrintsTyped
  <2> QED
    BY <2>1 DEF Lists, Typed, Step, ScanTyped
<1>2. /\ \A n : Born(n)' <=> Born(n)
      /\ Durable' <=> Durable
      /\ \A r, p, n : At(r, p, n)' <=> At(r, p, n)
  BY <1>1 DEF Born, CopyStamp, Durable, At
<1>3. \A p \in DOMAIN folder[s] : p \in Paths /\ folder[s][p].stamp \in Stamps /\ Born(folder[s][p].stamp)
  BY <1>1 DEF FolderTyped, IsTable, FolderFiles, BaselineInv, FilesBorn
<1>4. CASE s \notin based /\ s \notin config.existing
  <2>1. /\ processed' = [processed EXCEPT ![s] = @ \cup Prints(folder[s])]
        /\ past'.baselined = past.baselined \cup {<<s, f>> : f \in Prints(folder[s])}
        /\ scan'.at \in {"listpc", "pc"} /\ scan'.todo = <<>>
    BY <1>1, <1>4 DEF Lists, Step, ScanTyped, Typed
  <2>2. \A r, p : ~Listing(r, p)'
    BY <2>1, EmptyTable DEF Listing
  <2>3. Prints(folder[s]) \subseteq processed'[s]
    BY <1>1, <2>1 DEF PrintsTyped
  <2>4. \A f \in Prints(folder[s]) : f \in Paths \X Stamps /\ Born(f[2])
    BY <1>3 DEF Prints
  <2>5. FilesBorn'
    <3>1. (\A r \in Sides : \A p \in DOMAIN folder[r] : Born(folder[r][p].stamp))'
      BY <1>1, <1>2 DEF BaselineInv, FilesBorn
    <3>2. (\A b \in past.baselined : b \in Sides \X (Paths \X Stamps) /\ Born(b[2][2]))'
      BY <1>2, <2>1, <2>4 DEF BaselineInv, FilesBorn
    <3> QED
      BY <2>2, <3>1, <3>2 DEF FilesBorn
  <2>6. ASSUME Durable PROVE BarredInv'
    <3>1. BarredInv
      BY <2>6 DEF BaselineInv
    <3>2. ASSUME NEW b \in past.baselined
          PROVE  Barred(b[1], b[2])' /\ (world.crash => SavedBarred(b[1], b[2])')
      <4>1. b[1] \in Sides /\ b = <<b[1], b[2]>> /\ b[2] = <<b[2][1], b[2][2]>>
        BY <3>2 DEF BaselineInv, FilesBorn
      <4>2. world.crash => SavedBarred(b[1], b[2])'
        BY <1>1, <1>2, <3>1, <3>2 DEF BarredInv, SavedBarred
      <4>3. CASE b[2] \in processed[b[1]]
        BY <1>1, <4>1, <4>2, <4>3 DEF Barred
      <4>4. CASE ~At(b[1], b[2][1], b[2][2])
        BY <1>2, <2>2, <4>2, <4>4 DEF Barred
      <4>5. CASE At(b[1], b[2][1], b[2][2]) /\ b[1] = s
        <5>1. b[2] \in Prints(folder[s])
          BY <4>1, <4>5 DEF At, Prints
        <5> QED
          BY <2>3, <4>2, <4>5, <5>1 DEF Barred
      <4>6. CASE b[2] \notin processed[b[1]] /\ At(b[1], b[2][1], b[2][2]) /\ b[1] # s
        BY <1>1, <2>2, <3>1, <3>2, <4>2, <4>6 DEF BarredInv, Barred
      <4> QED
        BY <4>2, <4>3, <4>4, <4>5, <4>6
    <3>3. ASSUME NEW f \in Prints(folder[s])
          PROVE  Barred(s, f)' /\ (world.crash => SavedBarred(s, f)')
      BY <1>1, <1>4, <2>3, <3>1, <3>3 DEF BarredInv, Barred, SavedBarred
    <3>4. \A b \in past'.baselined : b \in past.baselined \/ \E f \in Prints(folder[s]) : b[1] = s /\ b[2] = f
      BY <2>1
    <3>5. (\A b \in past.baselined : Barred(b[1], b[2]) /\ (world.crash => SavedBarred(b[1], b[2])))'
      <4> SUFFICES ASSUME NEW b \in past'.baselined
                   PROVE  Barred(b[1], b[2])' /\ (world.crash => SavedBarred(b[1], b[2])')
        BY <1>1
      <4>1. CASE b \in past.baselined
        BY <3>2, <4>1
      <4>2. CASE \E f \in Prints(folder[s]) : b[1] = s /\ b[2] = f
        BY <3>3, <4>2
      <4> QED
        BY <3>4, <4>1, <4>2
    <3> QED
      BY <1>1, <2>1, <3>1, <3>5 DEF BarredInv
  <2> QED
    BY <1>1, <1>2, <2>5, <2>6 DEF BaselineInv
<1>5. CASE ~(s \notin based /\ s \notin config.existing)
  <2>1. /\ UNCHANGED <<processed, past>> /\ scan'.at = s
        /\ scan'.todo = [p \in DOMAIN folder[s] |-> folder[s][p].stamp]
    BY <1>1, <1>5 DEF Lists, Step, ScanTyped
  <2>2. \A r \in Sides, q \in Paths : Listing(r, q)' => r = s /\ q \in DOMAIN folder[s] /\ scan'.todo[q] = folder[s][q].stamp
    BY <2>1 DEF Listing, Sides
  <2>3. FilesBorn'
    <3>1. (\A r \in Sides : \A p \in DOMAIN folder[r] : Born(folder[r][p].stamp))'
      BY <1>1, <1>2 DEF BaselineInv, FilesBorn
    <3>2. (\A b \in past.baselined : b \in Sides \X (Paths \X Stamps) /\ Born(b[2][2]))'
      BY <1>2, <2>1 DEF BaselineInv, FilesBorn
    <3>3. (\A r \in Sides, p \in Paths : Listing(r, p) => Born(scan.todo[p]))'
      BY <1>2, <1>3, <2>2
    <3> QED
      BY <3>1, <3>2, <3>3 DEF FilesBorn
  <2>4. ASSUME Durable PROVE BarredInv'
    <3>1. BarredInv
      BY <2>4 DEF BaselineInv
    <3>2. ASSUME NEW b \in past.baselined
          PROVE  Barred(b[1], b[2])' /\ (world.crash => SavedBarred(b[1], b[2])')
      <4>1. b[1] \in Sides /\ b[2][1] \in Paths
        BY <3>2 DEF BaselineInv, FilesBorn
      <4>2. world.crash => SavedBarred(b[1], b[2])'
        BY <1>1, <1>2, <3>1, <3>2 DEF BarredInv, SavedBarred
      <4>3. CASE b[2] \in processed[b[1]]
        BY <2>1, <4>2, <4>3 DEF Barred
      <4>4. CASE ~At(b[1], b[2][1], b[2][2])
        BY <1>2, <2>2, <4>1, <4>2, <4>4 DEF Barred, At
      <4>5. CASE b[2] \notin processed[b[1]] /\ At(b[1], b[2][1], b[2][2])
        <5>1. world.crash /\ b[1] \notin based /\ b[1] \notin config.existing
          BY <3>1, <3>2, <4>5 DEF BarredInv, Barred
        <5>2. b[1] # s
          BY <1>5, <5>1
        <5> QED
          BY <1>1, <2>2, <4>1, <4>2, <5>1, <5>2 DEF Barred
      <4> QED
        BY <4>2, <4>3, <4>4, <4>5
    <3>3. (\A b \in past.baselined : Barred(b[1], b[2]) /\ (world.crash => SavedBarred(b[1], b[2])))'
      BY <1>1, <2>1, <3>2
    <3> QED
      BY <1>1, <2>1, <3>1, <3>3 DEF BarredInv, Sides
  <2> QED
    BY <1>1, <1>2, <2>3, <2>4 DEF BaselineInv
<1> QED
  BY <1>4, <1>5

LEMMA BornMore ==
  ASSUME clock' = clock, \A j \in Jobs : job[j].status = "delivered" => job'[j].status = "delivered"
  PROVE  \A n : Born(n) => Born(n)'
  BY DEF Born, CopyStamp

(* The steps of a scan other than a listing.                                *)
LEMMA BaselineMoving ==
  ASSUME Typed, BaselineInv,
         \/ \E force \in BOOLEAN : ScanStarts(force)
         \/ ScanFails \/ ReconcileUploads \/ ReconcileEnds \/ AndroidEnds
         \/ \E p \in Paths, s \in Sides : ReconcileOwed(s, p) \/ ReconcileStopped(s, p)
         \/ "pc" \notin scan.sides /\ ListPc
         \/ \E removed \in BOOLEAN : RemoveSource(removed)
         \/ \E p \in Paths : ReconcileDownload(p) \/ ReconcileUpload(p)
         \/ StatUploaded
  PROVE  BaselineInv'
<1>1. /\ UNCHANGED <<world, config, process, used, job, clock, past, based>> /\ process = "up"
      /\ UNCHANGED saved \/ Persist
  BY DEF ScanStarts, ScanFails, ReconcileUploads, ReconcileEnds, AndroidEnds, ReconcileOwed, ReconcileStopped, ListPc,
     RemoveSource, ReconcileDownload, ReconcileUpload, StatUploaded, ScanSame, memory
<1>2. (\A n : Born(n) => Born(n)') /\ (Durable' => Durable)
  BY <1>1, BornMore DEF Durable
<1>3. \/ scan'.at \in {"idle", "list", "listpc", "downloads", "remove", "uploads", "stat"}
      \/ scan'.at = "pc" /\ scan'.todo = <<>>
  <2>1. CASE \E force \in BOOLEAN : ScanStarts(force)
    BY <2>1 DEF ScanStarts
  <2>2. CASE ScanFails
    BY <2>2 DEF ScanFails, Idle
  <2>3. CASE ReconcileUploads \/ ReconcileEnds \/ AndroidEnds \/ ("pc" \notin scan.sides /\ ListPc)
    BY <2>3 DEF ReconcileUploads, ReconcileEnds, AndroidEnds, ListPc, Step, Typed, ScanTyped
  <2>4. CASE \E p \in Paths, s \in Sides : ReconcileOwed(s, p) \/ ReconcileStopped(s, p)
    BY <2>4 DEF ReconcileOwed, ReconcileStopped, Handled, Typed, ScanTyped
  <2>5. CASE (\E removed \in BOOLEAN : RemoveSource(removed)) \/ StatUploaded
    BY <2>5 DEF RemoveSource, StatUploaded, Typed, ScanTyped
  <2>6. CASE \E p \in Paths : ReconcileDownload(p) \/ ReconcileUpload(p)
    BY <2>6 DEF ReconcileDownload, ReconcileUpload, Handled, Typed, ScanTyped
  <2> QED
    BY <2>1, <2>2, <2>3, <2>4, <2>5, <2>6
<1>4. /\ \A s \in Sides, p \in Paths : ~Listing(s, p)'
      /\ scan'.at # "spool"
  BY <1>3, EmptyTable DEF Listing
<1>5. \A s \in Sides : processed[s] \subseteq processed'[s]
  <2>1. CASE \E p \in Paths : ReconcileDownload(p)
    <3>1. PICK X, Y : processed' = [android |-> processed["android"] \cup X, pc |-> processed["pc"] \cup Y]
      BY <2>1 DEF ReconcileDownload
    <3> QED
      BY <3>1 DEF Sides
  <2>2. CASE \E p \in Paths : ReconcileUpload(p)
    <3>1. PICK X : processed' = [processed EXCEPT !["pc"] = processed["pc"] \cup X]
      BY <2>2 DEF ReconcileUpload
    <3>2. DOMAIN processed = Sides
      BY DEF Typed, PrintsTyped
    <3> QED
      BY <3>1, <3>2
  <2>3. CASE StatUploaded
    BY <2>3 DEF StatUploaded, Typed, PrintsTyped
  <2>4. CASE UNCHANGED processed
    BY <2>4
  <2> QED
    BY <2>1, <2>2, <2>3, <2>4 DEF ScanStarts, ScanFails, ReconcileUploads, ReconcileEnds, AndroidEnds, ReconcileOwed,
       ReconcileStopped, ListPc, RemoveSource, memory
<1>6. \A s \in Sides : \A q \in DOMAIN folder'[s] : q \in DOMAIN folder[s] /\ folder'[s][q] = folder[s][q]
  <2>1. CASE \E removed \in BOOLEAN : RemoveSource(removed)
    BY <2>1 DEF RemoveSource, Typed, FolderTyped, Drop
  <2>2. CASE ~ \E removed \in BOOLEAN : RemoveSource(removed)
    BY <2>2 DEF ScanStarts, ScanFails, ReconcileUploads, ReconcileEnds, AndroidEnds, ReconcileOwed, ReconcileStopped,
       ListPc, ReconcileDownload, ReconcileUpload, StatUploaded
  <2> QED
    BY <2>1, <2>2
<1> QED
  BY <1>1, <1>2, <1>4, <1>5, <1>6, BaselineFrame

LEMMA BaselineObserving ==
  ASSUME Typed, BaselineInv,
         \/ \E p \in Paths, s \in Sides : Observe(s, p)
         \/ \E p \in Paths : QueueDownload(p) \/ QueueUpload(p) \/ DownloadRefused(p) \/ UploadRefused(p)
  PROVE  BaselineInv'
<1>1. /\ UNCHANGED <<world, config, process, used, clock, past, based, folder, processed>> /\ process = "up"
      /\ UNCHANGED saved \/ Persist
  BY DEF Observe, QueueDownload, QueueUpload, DownloadRefused, UploadRefused, Continues, ScanSame
<1>2. \A j \in Jobs : job[j].status = "delivered" => job'[j].status = "delivered"
  <2>1. CASE UNCHANGED job
    BY <2>1
  <2>2. ASSUME NEW i \in NextJob, NEW s, NEW p, NEW n, NEW c, NEW d, Accept(i, s, p, n, c, d)
        PROVE  \A j \in Jobs : job[j].status = "delivered" => job'[j].status = "delivered"
    BY <2>2 DEF Accept, NextJob, Typed
  <2> QED
    BY <2>1, <2>2 DEF Observe, QueueDownload, QueueUpload, DownloadRefused, UploadRefused, ScanSame
<1>3. (\A n : Born(n) => Born(n)') /\ (Durable' => Durable)
  BY <1>1, <1>2, BornMore DEF Durable
<1>4. \/ scan'.at = "idle"
      \/ /\ \/ scan'.at = "android" /\ scan.at = "android"
            \/ scan'.at = "pc" /\ scan.at \in {"pc", "spool"}
         /\ \E p \in Paths : scan'.todo = Drop(scan.todo, {p})
  <2>1. CASE \E p \in Paths, s \in Sides : Observe(s, p)
    BY <2>1 DEF Observe, Handled, Typed, ScanTyped, Sides
  <2>2. CASE \E p \in Paths : QueueDownload(p) \/ DownloadRefused(p)
    BY <2>2 DEF QueueDownload, DownloadRefused, Handled, Typed, ScanTyped
  <2>3. CASE \E p \in Paths : QueueUpload(p) \/ UploadRefused(p)
    <3>1. PICK p \in Paths : Continues(p) /\ scan.at = "spool"
      BY <2>3 DEF QueueUpload, UploadRefused
    <3>2. \/ scan' = [scan EXCEPT !.at = "pc", !.todo = Drop(@, {p}), !.item = <<>>]
          \/ scan' = Idle
      BY <3>1 DEF Continues
    <3>3. CASE scan' = [scan EXCEPT !.at = "pc", !.todo = Drop(@, {p}), !.item = <<>>]
      <4>1. scan'.at = "pc" /\ scan'.todo = Drop(scan.todo, {p})
        BY <3>3 DEF Typed, ScanTyped
      <4> QED
        BY <3>1, <4>1
    <3>4. CASE scan' = Idle
      BY <3>4 DEF Idle
    <3> QED
      BY <3>2, <3>3, <3>4
  <2> QED
    BY <2>1, <2>2, <2>3
<1>5. /\ scan'.at # "spool"
      /\ \A s \in Sides, p \in Paths : Listing(s, p)' => Listing(s, p) /\ scan'.todo[p] = scan.todo[p]
  BY <1>4 DEF Listing, Drop, Sides
<1> QED
  BY <1>1, <1>3, <1>5, BaselineFrame

(* What is wanted at the start of a spooled copy is no old file.            *)
LEMMA WantedIsNew ==
  ASSUME Typed, BaselineInv, Durable, NEW s \in Sides, NEW p \in Paths, scan.at = s, p \in DOMAIN scan.todo, Wanted(s, p)
  PROVE  <<s, <<p, scan.todo[p]>>>> \notin past.baselined
<1> DEFINE n == scan.todo[p]
<1>1. Listing(s, p) /\ <<p, n>> \notin processed[s]
  <2>1. Observed(s, p).stamp = n
    BY ObservedTyped DEF Sides
  <2> QED
    BY <2>1 DEF Wanted, Listing, Sides
<1>2. ~Barred(s, <<p, n>>)
  BY <1>1 DEF Barred
<1> SUFFICES ASSUME <<s, <<p, n>>>> \in past.baselined PROVE FALSE
  OBVIOUS
<1>3. Barred(s, <<p, n>>)
  BY DEF BaselineInv, BarredInv
<1> QED
  BY <1>2, <1>3

LEMMA BaselineSpool ==
  ASSUME Typed, BaselineInv, NEW p \in Paths, SpoolStarts(p)
  PROVE  BaselineInv'
<1>1. /\ UNCHANGED <<world, config, process, used, clock, past, based, folder, processed, job, saved>> /\ process = "up"
      /\ scan.at = "pc" /\ p \in DOMAIN scan.todo /\ Wanted("pc", p)
      /\ scan'.at = "spool" /\ scan'.item = p /\ scan'.todo = scan.todo
  BY DEF SpoolStarts, ScanSame, Typed, ScanTyped
<1>2. (\A n : Born(n) => Born(n)') /\ (Durable' => Durable) /\ (Durable => Durable')
  BY <1>1, BornMore DEF Durable
<1>3. \A s \in Sides, q \in Paths : Listing(s, q)' => Listing(s, q) /\ scan'.todo[q] = scan.todo[q]
  BY <1>1 DEF Listing
<1>4. CASE Durable
  <2>1. <<"pc", <<p, scan.todo[p]>>>> \notin past.baselined
    BY <1>1, <1>4, WantedIsNew DEF Sides
  <2> QED
    BY <1>1, <1>2, <1>3, <2>1, BaselineFrame
<1>5. CASE ~Durable
  <2>1. FilesBorn'
    BY <1>1, <1>2, <1>3 DEF BaselineInv, FilesBorn
  <2> QED
    BY <1>1, <1>2, <1>5, <2>1 DEF BaselineInv
<1> QED
  BY <1>4, <1>5

LEMMA BaselineScanEnds ==
  ASSUME Roomy, Typed, BaselineInv, ScanEnds
  PROVE  BaselineInv'
<1>1. /\ UNCHANGED <<world, config, process, used, job, clock, past, folder, based>> /\ process = "up" /\ Persist
      /\ scan' = Idle
  BY DEF ScanEnds, ScanSame
<1>2. processed["android"] \subseteq Paths \X Stamps /\ processed["pc"] \subseteq Paths \X Stamps
  BY DEF Typed, PrintsTyped, Sides
<1>3. processed' = [android |-> processed["android"], pc |-> processed["pc"]]
  BY <1>2, NothingTrimmed DEF ScanEnds
<1>4. \A s \in Sides : processed[s] \subseteq processed'[s]
  BY <1>3 DEF Sides
<1>5. (\A n : Born(n) => Born(n)') /\ (Durable' => Durable)
  BY <1>1, BornMore DEF Durable
<1>6. scan'.at # "spool" /\ \A s \in Sides, p \in Paths : ~Listing(s, p)'
  BY <1>1 DEF Listing, Idle
<1> QED
  BY <1>1, <1>4, <1>5, <1>6, BaselineFrame

LEMMA BaselineQueue ==
  ASSUME Typed, BaselineInv, NEW j \in Jobs, JobDelivers(j) \/ JobStops(j)
  PROVE  BaselineInv'
<1>1. job[j].status = "owed" /\ job \in [Jobs -> Records]
  BY DEF JobDelivers, JobStops, Owed, Typed
<1>2. UNCHANGED <<world, process, config, seen, processed, based, saved, scan, used, past, clock>>
  BY DEF JobDelivers, JobStops, memory
<1>3. \A i \in Jobs : job[i].status = "delivered" => job'[i].status = "delivered"
  BY <1>1 DEF JobDelivers, JobStops
<1>4. \A n : Born(n) => Born(n)'
  BY <1>2, <1>3, BornMore
<1>5. CASE JobDelivers(j)
  <2>1. PICK dest \in Paths, origin \in 1..MaxWrites :
            LET to == Other(job[j].side) IN
            /\ job[j].status = "owed" /\ to \in Sides /\ job[j].side \in Sides
            /\ folder' = [folder EXCEPT ![to] = Put(folder[to], dest, [stamp |-> CopyStamp(j), origin |-> origin])]
            /\ job' = [job EXCEPT ![j] = [job[j] EXCEPT !.status = "delivered", !.dest = dest, !.carries = origin]]
    BY <1>5, Delivery
  <2> DEFINE q == job[j]
             v == [stamp |-> CopyStamp(j), origin |-> origin]
             to == Other(job[j].side)
  <2>2. job'[j].status = "delivered"
    <3>1. job' = [job EXCEPT ![j] = [q EXCEPT !.status = "delivered", !.dest = dest, !.carries = origin]] /\ q \in Records
      BY <1>1, <2>1
    <3> HIDE DEF q
    <3> QED
      BY <1>1, <3>1 DEF Records
  <2>3. ~Born(v.stamp)
    <3>1. ~(CopyStamp(j) \in 1..clock)
      BY StampBounds, Bounds DEF Typed
    <3> QED
      BY <1>1, <3>1, StampBounds DEF Born
  <2>4. Born(v.stamp)'
    BY <2>2 DEF Born, CopyStamp
  <2>5. folder' = [folder EXCEPT ![to] = Put(folder[to], dest, v)] /\ to \in Sides
    BY <2>1
  <2> HIDE DEF v, to
  <2> QED
    BY <1>2, <1>4, <2>3, <2>4, <2>5, BaselineWritten
<1>6. CASE JobStops(j)
  <2>1. UNCHANGED folder /\ (Durable' => Durable) /\ (process' = "down" => scan'.at = "idle")
    BY <1>2, <1>6 DEF JobStops, Durable, BaselineInv
  <2>2. \A s \in Sides, p \in Paths : Listing(s, p)' => Listing(s, p) /\ scan'.todo[p] = scan.todo[p]
    BY <1>2 DEF Listing
  <2> QED
    BY <1>2, <1>4, <2>1, <2>2, BaselineFrame
<1> QED
  BY <1>5, <1>6

LEMMA BaselineUser ==
  ASSUME Typed, BaselineInv, NEW s \in Sides, NEW p \in Paths,
         UserWrites(s, p) \/ UserRemoves(s, p) \/ TimePasses(s, p)
  PROVE  BaselineInv'
<1>1. UNCHANGED <<world, process, config, processed, based, saved, scan, used, past, job>>
  BY DEF UserWrites, UserRemoves, TimePasses, memory
<1>2. CASE UserWrites(s, p)
  <2>0. PICK n : n = clock + 1
    OBVIOUS
  <2> DEFINE v == [stamp |-> n, origin |-> n]
  <2>1. /\ folder' = [folder EXCEPT ![s] = Put(folder[s], p, v)] /\ clock < MaxWrites /\ clock' = n
        /\ UNCHANGED seen
    BY <1>2, <2>0 DEF UserWrites, memory
  <2>2. clock \in Nat /\ MaxWrites \in Nat
    BY Bounds DEF Typed
  <2>3. ~Born(v.stamp) /\ Born(v.stamp)' /\ \A m : Born(m) => Born(m)'
    <3>1. n \notin 1..clock /\ n \in 1..clock' /\ \A m \in 1..clock : m \in 1..clock'
      BY <2>0, <2>1, <2>2
    <3>2. \A i \in Jobs : n # CopyStamp(i)
      BY <2>0, <2>1, <2>2, StampBounds
    <3> QED
      BY <1>1, <2>1, <3>1, <3>2 DEF Born, CopyStamp
  <2> HIDE DEF v
  <2> QED
    BY <1>1, <2>1, <2>3, BaselineWritten
<1>3. CASE UserRemoves(s, p) \/ TimePasses(s, p)
  <2>1. \A r \in Sides : \A q \in DOMAIN folder'[r] : q \in DOMAIN folder[r] /\ folder'[r][q] = folder[r][q]
    BY <1>3 DEF UserRemoves, TimePasses, Typed, FolderTyped, Drop
  <2>2. clock' = clock /\ (Durable' => Durable) /\ (process' = "down" => scan'.at = "idle")
    BY <1>1, <1>3 DEF UserRemoves, TimePasses, Durable, BaselineInv
  <2>3. \A n : Born(n) => Born(n)'
    BY <1>1, <2>2, BornMore
  <2>4. \A r \in Sides, q \in Paths : Listing(r, q)' => Listing(r, q) /\ scan'.todo[q] = scan.todo[q]
    BY <1>1 DEF Listing
  <2> QED
    BY <1>1, <2>1, <2>2, <2>3, <2>4, BaselineFrame
<1> QED
  BY <1>2, <1>3

LEMMA BaselineReset ==
  ASSUME Typed, BaselineInv, (\E c \in Configs : Configure(c)) \/ ClearHistory, used.configures \in Nat,
         DOMAIN used = {"restarts", "configures"}
  PROVE  BaselineInv'
<1>1. /\ UNCHANGED <<world, process, folder, job, scan, clock>> /\ Persist /\ process = "up"
      /\ used'.configures # 0
  BY DEF Configure, ClearHistory, CountConfigure
<1>2. /\ \A n : Born(n)' <=> Born(n)
      /\ \A s, p : Listing(s, p)' <=> Listing(s, p)
  BY <1>1 DEF Born, CopyStamp, Listing
<1>3. past'.baselined \subseteq past.baselined
  BY DEF Configure, ClearHistory
<1>4. FilesBorn'
  BY <1>1, <1>2, <1>3 DEF BaselineInv, FilesBorn
<1>5. ASSUME Durable' PROVE BarredInv'
  <2>1. ~world.crash /\ Durable /\ ~world.crash'
    BY <1>1, <1>5 DEF Durable
  <2>2. CASE ClearHistory
    BY <2>1, <2>2 DEF ClearHistory, BarredInv
  <2>3. CASE \E c \in Configs : Configure(c)
    <3>1. UNCHANGED <<processed, past>> /\ scan.at = "idle"
      BY <2>3 DEF Configure
    <3>2. \A b \in past.baselined : Barred(b[1], b[2]) => Barred(b[1], b[2])'
      BY <1>1, <1>2, <2>1, <3>1 DEF Barred, At
    <3> QED
      BY <1>1, <2>1, <3>1, <3>2 DEF BaselineInv, BarredInv
  <2> QED
    BY <2>2, <2>3
<1> QED
  BY <1>1, <1>4, <1>5 DEF BaselineInv

LEMMA BaselineProcess ==
  ASSUME Typed, BaselineInv, Close \/ Crash \/ Start, DOMAIN used = {"restarts", "configures"}
  PROVE  BaselineInv'
<1>1. /\ UNCHANGED <<world, config, folder, clock, past>>
      /\ used'.configures = used.configures
  BY DEF Close, Crash, Start
<1>2. Durable' <=> Durable
  BY <1>1 DEF Durable
<1>3. CASE Close \/ Crash
  <2>1. /\ UNCHANGED <<processed, based>> /\ scan' = Idle /\ (UNCHANGED saved \/ Persist)
        /\ job' = Interrupted
    BY <1>3 DEF Close, Crash, memory
  <2>2. \A j \in Jobs : job[j].status = "delivered" => job'[j].status = "delivered"
    BY <2>1 DEF Interrupted, Owed
  <2>3. \A n : Born(n) => Born(n)'
    BY <1>1, <2>2, BornMore
  <2>4. scan'.at = "idle" /\ \A s \in Sides, p \in Paths : ~Listing(s, p)'
    BY <2>1 DEF Listing, Idle
  <2> QED
    BY <1>1, <1>2, <2>1, <2>3, <2>4, BaselineFrame
<1>4. CASE Start
  <2>1. /\ UNCHANGED <<job, scan, saved>> /\ process' = "up" /\ scan.at = "idle"
        /\ processed' = Loaded[2] /\ based' = Loaded[3]
    BY <1>4 DEF Start, BaselineInv
  <2>2. /\ \A n : Born(n)' <=> Born(n)
        /\ \A s, p : ~Listing(s, p) /\ ~Listing(s, p)'
    BY <1>1, <2>1 DEF Born, CopyStamp, Listing
  <2>3. FilesBorn'
    BY <1>1, <2>2 DEF BaselineInv, FilesBorn
  <2>4. ASSUME Durable PROVE BarredInv'
    <3>1. BarredInv
      BY <2>4 DEF BaselineInv
    <3>2. CASE world.crash
      <4>1. processed' = saved[2] /\ based' = saved[3]
        BY <2>1, <3>2 DEF Loaded
      <4>2. \A b \in past.baselined : SavedBarred(b[1], b[2]) => Barred(b[1], b[2])' /\ SavedBarred(b[1], b[2])'
        BY <1>1, <2>1, <2>2, <3>2, <4>1 DEF SavedBarred, Barred, At
      <4> QED
        BY <1>1, <2>1, <3>1, <3>2, <4>1, <4>2 DEF BarredInv
    <3>3. CASE ~world.crash
      <4>1. UNCHANGED <<processed, based>>
        BY <2>1, <3>3 DEF Loaded
      <4>2. \A b \in past.baselined : Barred(b[1], b[2]) => Barred(b[1], b[2])'
        BY <1>1, <2>1, <2>2, <4>1 DEF Barred, At
      <4> QED
        BY <1>1, <2>1, <3>1, <3>3, <4>1, <4>2 DEF BarredInv
    <3> QED
      BY <3>2, <3>3
  <2> QED
    BY <1>2, <2>1, <2>3, <2>4 DEF BaselineInv
<1> QED
  BY <1>3, <1>4

(* The bounds of the surroundings are counted.                              *)
Counted == used \in [restarts : Nat, configures : Nat]

LEMMA NextCounted == ASSUME Counted, [Next]_vars PROVE Counted'
<1>1. CASE UNCHANGED used
  BY <1>1 DEF Counted
<1>2. CASE Close \/ Crash \/ ClearHistory \/ \E c \in Configs : Configure(c)
  BY <1>2 DEF Close, Crash, ClearHistory, Configure, CountConfigure, Counted
<1>3. CASE ReconcileStep
  BY <1>1, <1>3 DEF ReconcileStep, ReconcileUploads, ReconcileEnds, StatUploaded, RemoveSource, ReconcileDownload,
     ReconcileUpload, ReconcileStopped, ReconcileOwed, ScanSame
<1>4. CASE ObserveStep
  BY <1>1, <1>4 DEF ObserveStep, ListAndroid, ListPc, Lists, AndroidEnds, ScanEnds, Observe, QueueDownload, SpoolStarts,
     QueueUpload, DownloadRefused, UploadRefused, ScanSame
<1>5. CASE QueueStep \/ UserStep \/ \E s \in Sides, p \in Paths : TimePasses(s, p)
  BY <1>1, <1>2, <1>5 DEF QueueStep, JobDelivers, JobStops, UserStep, UserWrites, UserRemoves, TimePasses
<1>6. CASE ScanFails \/ (\E force \in BOOLEAN : ScanStarts(force)) \/ Close \/ Start \/ Crash \/ UNCHANGED vars
  BY <1>1, <1>2, <1>6 DEF ScanFails, ScanStarts, Start, ScanSame, vars
<1> QED
  BY <1>3, <1>4, <1>5, <1>6 DEF Next

LEMMA BaselineInit == ASSUME Init PROVE BaselineInv /\ Counted
<1>1. /\ scan.at = "idle" /\ past.baselined = {} /\ saved[3] = {} /\ process = "up"
      /\ \A s \in Sides : DOMAIN folder[s] = {}
  BY EmptyTable DEF Init, Idle
<1>2. \A s, p : ~Listing(s, p)
  BY <1>1 DEF Listing
<1> QED
  BY <1>1, <1>2 DEF Init, BaselineInv, FilesBorn, BarredInv, Counted

LEMMA BaselineNext ==
  ASSUME Roomy, Typed, BaselineInv, Counted, [Next]_vars
  PROVE  BaselineInv'
<1> USE DEF Counted
<1>1. CASE UNCHANGED vars
  <2>1. UNCHANGED <<world, process, config, folder, processed, based, saved, job, scan, clock, used, past>>
    BY <1>1 DEF vars, memory
  <2>2. (\A n : Born(n)' <=> Born(n)) /\ \A s, p : Listing(s, p)' <=> Listing(s, p)
    BY <2>1 DEF Born, CopyStamp, Listing
  <2>3. (\A s, f : Barred(s, f)' <=> Barred(s, f)) /\ \A s, f : SavedBarred(s, f)' <=> SavedBarred(s, f)
    BY <2>1, <2>2 DEF Barred, SavedBarred, At
  <2> QED
    BY <2>1, <2>2, <2>3 DEF BaselineInv, FilesBorn, BarredInv, Durable
<1>2. CASE ReconcileStep
  BY <1>2, BaselineMoving DEF ReconcileStep
<1>3. CASE ObserveStep
  <2>1. CASE ListAndroid \/ ListPc
    BY <2>1, BaselineLists, BaselineMoving DEF ListAndroid, ListPc, Sides
  <2>2. CASE AndroidEnds
    BY <2>2, BaselineMoving
  <2>3. CASE ScanEnds
    BY <2>3, BaselineScanEnds
  <2>4. CASE \E p \in Paths : SpoolStarts(p)
    BY <2>4, BaselineSpool
  <2>5. CASE \/ \E p \in Paths, s \in Sides : Observe(s, p)
             \/ \E p \in Paths : QueueDownload(p) \/ QueueUpload(p) \/ DownloadRefused(p) \/ UploadRefused(p)
    BY <2>5, BaselineObserving
  <2> QED
    BY <1>3, <2>1, <2>2, <2>3, <2>4, <2>5 DEF ObserveStep
<1>4. CASE QueueStep
  BY <1>4, BaselineQueue DEF QueueStep
<1>5. CASE UserStep \/ \E s \in Sides, p \in Paths : TimePasses(s, p)
  BY <1>5, BaselineUser, BaselineReset DEF UserStep
<1>6. CASE ScanFails \/ \E force \in BOOLEAN : ScanStarts(force)
  BY <1>6, BaselineMoving
<1>7. CASE Close \/ Start \/ Crash
  BY <1>7, BaselineProcess
<1> QED
  BY <1>1, <1>2, <1>3, <1>4, <1>5, <1>6, <1>7 DEF Next

(* A transfer is accepted in two actions only, from the list of a scan.     *)
LEMMA AcceptedFrom ==
  ASSUME Typed, [Next]_vars, NEW j \in Jobs, job[j].status = "none", job'[j].status = "owed"
  PROVE  \E p \in Paths :
            \/ QueueDownload(p) /\ job'[j].side = "android" /\ job'[j].path = p /\ job'[j].stamp = scan.todo[p]
            \/ QueueUpload(p) /\ job'[j].side = "pc" /\ job'[j].path = p /\ job'[j].stamp = scan.todo[p]
<1>1. job' # job
  OBVIOUS
<1>2. ASSUME NEW i \in NextJob, NEW s, NEW p, NEW n, NEW c, NEW d, Accept(i, s, p, n, c, d)
      PROVE  job'[j].side = s /\ job'[j].path = p /\ job'[j].stamp = n
  BY <1>2 DEF Accept, NextJob, Typed
<1>3. CASE ReconcileStep
  BY <1>1, <1>3 DEF ReconcileStep, ReconcileUploads, ReconcileEnds, StatUploaded, RemoveSource, ReconcileDownload,
     ReconcileUpload, ReconcileStopped, ReconcileOwed, ScanSame
<1>4. CASE ObserveStep
  <2>1. \E p \in Paths : QueueDownload(p) \/ QueueUpload(p)
    BY <1>1, <1>4 DEF ObserveStep, ListAndroid, ListPc, Lists, AndroidEnds, ScanEnds, Observe, SpoolStarts,
       DownloadRefused, UploadRefused, ScanSame
  <2>2. PICK p \in Paths : QueueDownload(p) \/ QueueUpload(p)
    BY <2>1
  <2>3. CASE QueueDownload(p)
    <3>1. PICK i \in NextJob, dest \in Resolved(p, folder["pc"], config.policy["android"]) :
             Accept(i, "android", p, scan.todo[p], 0, dest)
      BY <2>3 DEF QueueDownload
    <3> QED
      BY <1>2, <2>3, <3>1
  <2>4. CASE QueueUpload(p)
    BY <1>2, <2>4 DEF QueueUpload
  <2> QED
    BY <2>2, <2>3, <2>4
<1>5. CASE UserStep \/ \E s \in Sides, p \in Paths : TimePasses(s, p)
  BY <1>1, <1>5 DEF UserStep, UserWrites, UserRemoves, Configure, ClearHistory, TimePasses
<1>6. CASE QueueStep
  BY <1>6 DEF QueueStep, JobDelivers, JobStops, Owed, Typed
<1>7. CASE Close \/ Crash
  BY <1>7 DEF Close, Crash, Interrupted, Owed
<1>8. CASE ScanFails \/ (\E force \in BOOLEAN : ScanStarts(force)) \/ Start \/ UNCHANGED vars
  BY <1>1, <1>8 DEF ScanFails, ScanStarts, Start, ScanSame, vars
<1> QED
  BY <1>3, <1>4, <1>5, <1>6, <1>7, <1>8 DEF Next

(* A file that was there before its folder was watched is never queued      *)
(* (include_existing): its mark, the baseline that is done again after a    *)
(* crash, or its absence keeps it out, through edits, removals, cleared     *)
(* histories, resets and restarts.                                          *)
THEOREM OldFilesStay == ASSUME Roomy PROVE Spec => BaselineStays
<1> DEFINE Kept == Typed /\ BaselineInv /\ Counted
<1>1. Init => Kept
  BY InitTyped, BaselineInit
<1>2. Kept /\ [Next]_vars => Kept'
  BY NextTyped, BaselineNext, NextCounted
<1>3. Kept /\ [Next]_vars =>
         [Durable => \A j \in Jobs : job[j].status = "none" /\ job'[j].status = "owed" =>
             <<job'[j].side, <<job'[j].path, job'[j].stamp>>>> \notin past.baselined]_vars
  <2> SUFFICES ASSUME Kept, [Next]_vars, Durable, NEW j \in Jobs, job[j].status = "none", job'[j].status = "owed"
               PROVE  <<job'[j].side, <<job'[j].path, job'[j].stamp>>>> \notin past.baselined
    OBVIOUS
  <2>1. PICK p \in Paths :
            \/ QueueDownload(p) /\ job'[j].side = "android" /\ job'[j].path = p /\ job'[j].stamp = scan.todo[p]
            \/ QueueUpload(p) /\ job'[j].side = "pc" /\ job'[j].path = p /\ job'[j].stamp = scan.todo[p]
    BY AcceptedFrom
  <2>2. CASE QueueDownload(p) /\ job'[j].side = "android" /\ job'[j].path = p /\ job'[j].stamp = scan.todo[p]
    <3>1. scan.at = "android" /\ p \in DOMAIN scan.todo /\ Wanted("android", p)
      BY <2>2 DEF QueueDownload
    <3> QED
      BY <2>2, <3>1, WantedIsNew DEF Sides
  <2>3. CASE QueueUpload(p) /\ job'[j].side = "pc" /\ job'[j].path = p /\ job'[j].stamp = scan.todo[p]
    BY <2>3 DEF QueueUpload, BaselineInv, BarredInv
  <2> QED
    BY <2>1, <2>2, <2>3
<1> QED
  BY <1>1, <1>2, <1>3, PTL DEF Spec, BaselineStays

-----------------------------------------------------------------------------
(* Orderly surroundings.  The names that the user's files have on a side.   *)
Mine(s, p) == \E q \in world.paths[s] : q[1] = p[1]
Written(k) == job[k].status = "delivered"

(* A file is the user's, under a name of its side, or the copy that one     *)
(* transfer wrote, under a name of the other side.                          *)
CopyOf(k, s, p) == Written(k) /\ job[k].side = Other(s) /\ job[k].dest = p
FilesPlaced ==
    \A s \in Sides : \A p \in DOMAIN folder[s] :
        \/ folder[s][p].stamp \in 1..MaxWrites /\ folder[s][p].origin = folder[s][p].stamp /\ Mine(s, p)
        \/ \E k \in Jobs : folder[s][p].stamp = CopyStamp(k) /\ CopyOf(k, s, p)

JobsPlaced ==
    \A j \in Accepted :
        /\ job[j].stamp \in 1..MaxWrites /\ Mine(job[j].side, job[j].path)
        /\ Written(j) \/ job[j].side = "android" => job[j].dest[1] = job[j].path[1]
        /\ Written(j) /\ job[j].side = "android" => job[j].carries = job[j].stamp

(* An entry of an observed table: what it says of its transfer is so, and   *)
(* as long as no deletion was tried its Android file is there.              *)
EntryOf(s, p, e) ==
    /\ Born(e.stamp)
    /\ e.job # NoJob =>
          /\ e.job \in Accepted
          /\ job[e.job].side = s /\ job[e.job].path = p /\ job[e.job].stamp = e.stamp
          /\ s = "android" /\ ~e.tried => At(s, p, e.stamp)

EntriesPlaced ==
    \A s \in Sides :
        /\ \A p \in DOMAIN seen[s] : EntryOf(s, p, seen[s][p])
        /\ Reconciling(s) => \A p \in DOMAIN scan.todo : EntryOf(s, p, scan.todo[p])

(* What the scan has listed: a file of the user's that is still there, or a *)
(* copy that is marked or that no scan has seen before.                     *)
NewOrMarked(s, p) ==
    /\ scan.todo[p] \notin 1..MaxWrites
    /\ scan.at # "spool" \/ scan.item # p
    /\ \/ <<p, scan.todo[p]>> \in processed[s]
       \/ ~(p \in DOMAIN seen[s] /\ seen[s][p].stamp = scan.todo[p])
ListedPlaced ==
    \A s \in Sides, p \in Paths : Listing(s, p) =>
        /\ s \in based
        /\ \/ scan.todo[p] \in 1..MaxWrites /\ At(s, p, scan.todo[p]) /\ Mine(s, p)
           \/ NewOrMarked(s, p)

(* The source is there, and its entry will tell of the transfer.            *)
Held(j) == Known(j) /\ job[j].side \in based /\ At(job[j].side, job[j].path, job[j].stamp)
OwedHeld == \A j \in Owed : Held(j)

(* A copy that is not marked yet: once a scan has seen it, the next one     *)
(* takes in its transfer before it lists the copy again.                    *)
Unmarked(j) ==
    LET to == Other(job[j].side) IN
    Written(j) /\ At(to, job[j].dest, CopyStamp(j)) /\ <<job[j].dest, CopyStamp(j)>> \notin processed[to]
Watched(j) ==
    LET to == Other(job[j].side) IN
    job[j].dest \in DOMAIN seen[to] /\ seen[to][job[j].dest].stamp = CopyStamp(j)
ToReconcile(j) == job[j].path \in DOMAIN scan.todo /\ scan.todo[job[j].path].job = j
Reached(j) ==
    IF job[j].side = "android"
    THEN /\ scan.at \in {"idle", "downloads", "remove", "pc", "spool"}
         /\ scan.at \in {"downloads", "remove"} => ToReconcile(j)
    ELSE /\ scan.at # "list"
         /\ scan.at \in {"uploads", "stat"} => ToReconcile(j)
CopiesHeld == \A j \in Jobs : Unmarked(j) => Held(j) /\ (Watched(j) => Reached(j))

(* What is removed has been delivered, and its copy is marked.              *)
ItemWritten ==
    LET i == scan.todo[scan.item].job IN
    /\ scan.at \in {"remove", "stat"} => Written(i)
    /\ scan.at = "remove" => ~Unmarked(i) /\ ~scan.todo[scan.item].tried

OrderInv ==
    /\ FilesPlaced /\ JobsPlaced /\ EntriesPlaced /\ ListedPlaced
    /\ OwedHeld /\ CopiesHeld /\ ItemWritten

-----------------------------------------------------------------------------
LEMMA SidesFacts ==
  \A s \in Sides : Other(s) \in Sides /\ Other(s) # s /\ Other(Other(s)) = s
  BY DEF Sides, Other

LEMMA NamesApart ==
  ASSUME Apart, NEW s \in Sides, NEW p, NEW q, Mine(s, p), Mine(Other(s), q)
  PROVE  p[1] # q[1] /\ p # q
  BY DEF Apart, Mine, Sides, Other

LEMMA OrderJob ==
  ASSUME Typed, OrderInv, NEW j \in Accepted
  PROVE  /\ j \in Jobs /\ j # NoJob /\ job[j].side \in Sides /\ Other(job[j].side) \in Sides
         /\ job[j].path \in Paths /\ job[j].stamp \in 1..MaxWrites
         /\ Mine(job[j].side, job[j].path)
         /\ Written(j) => job[j].dest \in Paths /\ Mine(job[j].side, job[j].dest)
<1>1. j \in Jobs /\ j # NoJob /\ job[j].side \in Sides /\ job[j].path \in Paths
  BY JobFacts
<1>2. Written(j) => job[j].dest \in Paths
  BY <1>1 DEF Typed, RecordTyped, Written
<1> QED
  BY <1>1, <1>2, SidesFacts DEF OrderInv, JobsPlaced, Mine

(* An unmarked copy belongs to an accepted transfer.                        *)
LEMMA WrittenJob ==
  /\ \A j \in Jobs : Written(j) => j \in Accepted /\ j \notin Owed
  /\ \A j \in Owed : j \in Accepted /\ ~Written(j)
  /\ \A j : Unmarked(j) => Written(j)
  BY DEF Written, Accepted, Owed, Unmarked

(* A path that is a copy's is not a path that a transfer has on that side.  *)
LEMMA CopyPath ==
  ASSUME Typed, Apart, OrderInv, NEW j \in Accepted, Written(j), NEW i \in Accepted,
         job[i].side = Other(job[j].side)
  PROVE  job[i].path # job[j].dest
<1>1. job[j].side \in Sides /\ Mine(job[j].side, job[j].dest) /\ Mine(Other(job[j].side), job[i].path)
  BY OrderJob
<1> QED
  BY <1>1, NamesApart

LEMMA EntriesFrame ==
  ASSUME \A s \in Sides : \A p \in DOMAIN seen'[s] : \E e : e = seen'[s][p] /\ EntryOf(s, p, e)',
         \A s \in Sides : Reconciling(s)' =>
             \A p \in DOMAIN scan'.todo : \E e : e = scan'.todo[p] /\ EntryOf(s, p, e)'
  PROVE  EntriesPlaced'
<1>1. ASSUME NEW s \in Sides, NEW p \in DOMAIN seen'[s] PROVE EntryOf(s, p, seen[s][p])'
  <2>1. PICK e : e = seen'[s][p] /\ EntryOf(s, p, e)'
    OBVIOUS
  <2> QED
    BY <2>1 DEF EntryOf
<1>2. ASSUME NEW s \in Sides, Reconciling(s)', NEW p \in DOMAIN scan'.todo PROVE EntryOf(s, p, scan.todo[p])'
  <2>1. PICK e : e = scan'.todo[p] /\ EntryOf(s, p, e)'
    BY <1>2
  <2> QED
    BY <2>1 DEF EntryOf
<1> QED
  BY <1>1, <1>2 DEF EntriesPlaced

LEMMA EntrySame ==
  ASSUME UNCHANGED <<job, folder, clock>>
  PROVE  \A s, p, e : EntryOf(s, p, e)' <=> EntryOf(s, p, e)
  BY DEF EntryOf, Born, CopyStamp, Accepted, At

(* The steps that change no file, no transfer and no baseline.              *)
LEMMA OrderFrame ==
  ASSUME Typed, OrderInv, UNCHANGED <<world, job, folder, clock, based>>,
         \A s \in Sides : processed[s] \subseteq processed'[s],
         EntriesPlaced', ListedPlaced', ItemWritten',
         \A j \in Accepted : Known(j) /\ Held(j) /\ (j \in Owed \/ Unmarked(j)) /\ (Written(j) => Unmarked(j)') => Known(j)',
         \A j \in Accepted : Unmarked(j) /\ Held(j) /\ Unmarked(j)' /\ Watched(j)' => Reached(j)'
  PROVE  OrderInv'
<1>1. Accepted' = Accepted /\ Owed' = Owed
  BY DEF Accepted, Owed
<1>2. FilesPlaced'
  BY DEF OrderInv, FilesPlaced, CopyOf, CopyStamp, Written, Mine
<1>3. JobsPlaced'
  BY <1>1 DEF OrderInv, JobsPlaced, Written, Mine
<1>4. OwedHeld'
  <2> SUFFICES ASSUME NEW j \in Owed PROVE Held(j)'
    BY <1>1 DEF OwedHeld
  <2>1. Held(j) /\ j \in Accepted /\ ~Written(j)
    BY WrittenJob DEF OrderInv, OwedHeld
  <2>2. Known(j)'
    BY <2>1 DEF Held
  <2> QED
    BY <2>1, <2>2 DEF Held, At
<1>5. CopiesHeld'
  <2> SUFFICES ASSUME NEW j \in Jobs, Unmarked(j)' PROVE Held(j)' /\ (Watched(j)' => Reached(j)')
    BY DEF CopiesHeld
  <2>1. Written(j) /\ j \in Accepted /\ Other(job[j].side) \in Sides
    <3>1. Written(j)
      BY DEF Unmarked, Written
    <3> QED
      BY <3>1, WrittenJob, OrderJob
  <2>2. Unmarked(j)
    BY <2>1 DEF Unmarked, Written, At, CopyStamp
  <2>3. Held(j)
    BY <2>2 DEF OrderInv, CopiesHeld
  <2>4. Known(j)'
    BY <2>1, <2>2, <2>3 DEF Held
  <2> QED
    BY <2>1, <2>2, <2>3, <2>4 DEF Held, At
<1> QED
  BY <1>2, <1>3, <1>4, <1>5 DEF OrderInv

LEMMA NotListing ==
  ASSUME scan'.at \notin {"android", "pc", "spool"} \/ scan'.todo = <<>>
  PROVE  ListedPlaced' /\ \A s \in Sides, p \in Paths : ~Listing(s, p)'
<1>1. \A s \in Sides, p \in Paths : ~Listing(s, p)'
  BY EmptyTable DEF Listing
<1> QED
  BY <1>1 DEF ListedPlaced

LEMMA OrderMoving ==
  ASSUME Typed, OnceInv, OrderInv,
         \/ \E force \in BOOLEAN : ScanStarts(force)
         \/ ScanFails \/ ReconcileUploads \/ ReconcileEnds \/ AndroidEnds
         \/ \E p \in Paths, s \in Sides : ReconcileOwed(s, p)
         \/ "pc" \notin scan.sides /\ ListPc
  PROVE  OrderInv'
<1>1. UNCHANGED <<world, job, clock, folder, seen, processed, based, past>> /\ ScanTyped(scan)
  BY DEF ScanStarts, ScanFails, ReconcileUploads, ReconcileEnds, AndroidEnds, ReconcileOwed, ListPc, ScanSame, memory,
     Typed
<1>2. \/ scan'.at = "idle"
      \/ scan.at = "idle" /\ scan'.at = "downloads" /\ scan'.todo = Tracked("android")
      \/ scan.at = "downloads" /\ scan.todo = <<>> /\ scan'.at = "uploads" /\ scan'.todo = Tracked("pc")
      \/ scan.at = "uploads" /\ scan.todo = <<>> /\ scan'.at \in {"list", "listpc"}
      \/ scan.at = "android" /\ scan'.at = "listpc"
      \/ scan.at = "listpc" /\ scan'.at = "pc" /\ scan'.todo = <<>>
      \/ /\ scan.at \in {"downloads", "uploads"} /\ scan'.at = scan.at
         /\ \E p \in DOMAIN scan.todo : scan'.todo = Drop(scan.todo, {p}) /\ job[scan.todo[p].job].status = "owed"
  <2>1. CASE \E force \in BOOLEAN : ScanStarts(force)
    BY <2>1 DEF ScanStarts
  <2>2. CASE ScanFails
    BY <2>2 DEF ScanFails, Idle
  <2>3. CASE ReconcileUploads \/ ReconcileEnds \/ AndroidEnds \/ ("pc" \notin scan.sides /\ ListPc)
    BY <1>1, <2>3 DEF ReconcileUploads, ReconcileEnds, AndroidEnds, ListPc, Step, ScanTyped
  <2>4. CASE \E p \in Paths, s \in Sides : ReconcileOwed(s, p)
    BY <1>1, <2>4 DEF ReconcileOwed, Handled, ScanTyped
  <2> QED
    BY <2>1, <2>2, <2>3, <2>4
<1>3. scan'.at \notin {"android", "pc", "spool"} \/ scan'.todo = <<>>
  BY <1>2
<1>4. ListedPlaced'
  BY <1>3, NotListing
<1>5. ItemWritten'
  BY <1>2 DEF ItemWritten
<1>6. \A s \in Sides : /\ \A p \in DOMAIN seen[s] : EntryOf(s, p, seen[s][p])
                       /\ Reconciling(s) => \A p \in DOMAIN scan.todo : EntryOf(s, p, scan.todo[p])
  BY DEF OrderInv, EntriesPlaced
<1>7. EntriesPlaced'
  <2>1. \A s \in Sides : \A p \in DOMAIN seen'[s] : \E e : e = seen'[s][p] /\ EntryOf(s, p, e)'
    BY <1>1, <1>6, EntrySame
  <2>2. ASSUME NEW s \in Sides, Reconciling(s)', NEW p \in DOMAIN scan'.todo
        PROVE  \E e : e = scan'.todo[p] /\ EntryOf(s, p, e)'
    <3>1. CASE scan'.todo = Tracked(s)
      BY <1>1, <1>6, <3>1, EntrySame DEF Tracked
    <3>2. CASE scan'.at = scan.at /\ \E q \in DOMAIN scan.todo : scan'.todo = Drop(scan.todo, {q})
      <4>1. p \in DOMAIN scan.todo /\ scan'.todo[p] = scan.todo[p] /\ Reconciling(s)
        BY <2>2, <3>2 DEF Drop, Reconciling
      <4> QED
        BY <1>1, <1>6, <4>1, EntrySame
    <3> QED
      BY <1>2, <2>2, <3>1, <3>2 DEF Reconciling, Sides
  <2> QED
    BY <2>1, <2>2, EntriesFrame
<1>8. \A j \in Accepted : Known(j) => Known(j)'
  BY <1>1 DEF Known
<1>9. ASSUME NEW j \in Accepted, Unmarked(j), Held(j), Watched(j)' PROVE Reached(j)'
  <2>1. Watched(j) /\ job'[j].side = job[j].side
    BY <1>1, <1>9 DEF Watched, CopyStamp
  <2>2. j \in Jobs /\ j # NoJob /\ job[j].side \in Sides /\ Written(j)
    BY <1>9, OrderJob DEF Unmarked
  <2>3. Reached(j)
    BY <1>9, <2>1, <2>2 DEF OrderInv, CopiesHeld
  <2>4. scan'.todo = Tracked(job[j].side) => ToReconcile(j)'
    BY <1>1, <1>9, <2>2 DEF ToReconcile, Tracked, Held, Known
  <2>5. ASSUME ToReconcile(j), NEW p \in DOMAIN scan.todo, scan'.todo = Drop(scan.todo, {p}),
               job[scan.todo[p].job].status = "owed"
        PROVE  ToReconcile(j)'
    BY <1>1, <2>2, <2>5 DEF ToReconcile, Drop, Written
  <2>6. scan.todo = <<>> => ~ToReconcile(j)
    BY EmptyTable DEF ToReconcile
  <2>7. CASE job[j].side = "android"
    BY <1>2, <2>1, <2>3, <2>4, <2>5, <2>6, <2>7 DEF Reached
  <2>8. CASE job[j].side = "pc"
    BY <1>2, <2>1, <2>3, <2>4, <2>5, <2>6, <2>8 DEF Reached
  <2> QED
    BY <2>2, <2>7, <2>8 DEF Sides
<1> QED
  BY <1>1, <1>4, <1>5, <1>7, <1>8, <1>9, OrderFrame

(* An outcome is taken in: what is at the destination is marked.            *)
LEMMA OrderMarked ==
  ASSUME Typed, Apart, OnceInv, OrderInv, NEW i \in Accepted, Written(i), NEW to \in Sides, job[i].side = Other(to),
         UNCHANGED <<world, job, folder, clock>>,
         seen' = [seen EXCEPT ![to] = MarkedSeen(to, job[i].dest)],
         MarkedPrints(to, job[i].dest) \subseteq processed'[to]
  PROVE  /\ ~Unmarked(i)'
         /\ \A s \in Sides : \A p \in DOMAIN seen'[s] : \E e : e = seen'[s][p] /\ EntryOf(s, p, e)'
         /\ \A j \in Accepted : Known(j) => Known(j)'
         /\ \A j \in Accepted : Unmarked(j)' /\ Watched(j)' => Watched(j)
<1> DEFINE dest == job[i].dest
<1>0. to = Other(job[i].side)
  BY SidesFacts
<1>1. /\ i \in Jobs /\ to \in Sides /\ dest \in Paths /\ SeenTyped(seen) /\ FolderTyped(folder)
  BY OrderJob DEF Typed
<1>2. dest \in DOMAIN folder[to] => <<dest, folder[to][dest].stamp>> \in processed'[to]
  BY DEF MarkedPrints
<1>3. ~Unmarked(i)'
  BY <1>0, <1>1, <1>2 DEF Unmarked, At, CopyStamp
<1>4. \A s \in Sides : \A p \in DOMAIN seen'[s] :
         \/ s = to /\ p = dest /\ dest \in DOMAIN folder[to] /\ seen'[s][p] = Settled(folder[to][dest].stamp)
         \/ p \in DOMAIN seen[s] /\ seen'[s][p] = seen[s][p]
  BY <1>1 DEF MarkedSeen, Put, SeenTyped
<1>5. ASSUME NEW s \in Sides, NEW p \in DOMAIN seen'[s] PROVE \E e : e = seen'[s][p] /\ EntryOf(s, p, e)'
  <2>1. CASE p \in DOMAIN seen[s] /\ seen'[s][p] = seen[s][p]
    BY <2>1, EntrySame DEF OrderInv, EntriesPlaced
  <2>2. CASE s = to /\ p = dest /\ dest \in DOMAIN folder[to] /\ seen'[s][p] = Settled(folder[to][dest].stamp)
    <3>1. folder[to][dest].stamp \in Stamps /\ Born(folder[to][dest].stamp)
      BY <1>1, <2>2 DEF FolderTyped, IsTable, FolderFiles, OnceInv, StampsBorn
    <3>2. PICK e : e = Settled(folder[to][dest].stamp)
      OBVIOUS
    <3>3. e.job = NoJob /\ Born(e.stamp)
      BY <3>1, <3>2, EntryTyped
    <3>4. EntryOf(s, p, e)
      BY <3>3 DEF EntryOf
    <3> QED
      BY <2>2, <3>2, <3>4, EntrySame
  <2> QED
    BY <1>4, <2>1, <2>2
<1>6. ASSUME NEW j \in Accepted, Known(j) PROVE Known(j)'
  <2>1. job[j].side \in Sides /\ (job[j].side = to => job[j].path # dest)
    BY <1>0, OrderJob, CopyPath
  <2> QED
    BY <1>1, <1>6, <2>1 DEF Known, MarkedSeen, Put, SeenTyped
<1>7. ASSUME NEW j \in Accepted, Unmarked(j)', Watched(j)' PROVE Watched(j)
  <2> DEFINE r == Other(job[j].side)
  <2>1. r \in Sides /\ At(r, job[j].dest, CopyStamp(j)) /\ <<job[j].dest, CopyStamp(j)>> \notin processed'[r]
    BY <1>7, OrderJob DEF Unmarked, At, CopyStamp
  <2>2. ~(r = to /\ job[j].dest = dest)
    BY <1>2, <2>1 DEF At
  <2>3. job[j].dest \in DOMAIN seen'[r] /\ seen'[r][job[j].dest].stamp = CopyStamp(j)
    BY <1>7 DEF Watched, CopyStamp
  <2> QED
    BY <1>4, <2>1, <2>2, <2>3 DEF Watched
<1> QED
  BY <1>3, <1>5, <1>6, <1>7

LEMMA DropEntries ==
  ASSUME OrderInv, UNCHANGED <<job, folder, clock>>,
         \A s \in Sides : Reconciling(s)' => Reconciling(s),
         \A p \in DOMAIN scan'.todo : p \in DOMAIN scan.todo /\ scan'.todo[p] = scan.todo[p]
  PROVE  \A s \in Sides : Reconciling(s)' =>
             \A p \in DOMAIN scan'.todo : \E e : e = scan'.todo[p] /\ EntryOf(s, p, e)'
  BY EntrySame DEF OrderInv, EntriesPlaced

LEMMA OrderDownload ==
  ASSUME Typed, Apart, OnceInv, OrderInv, NEW p \in Paths, ReconcileDownload(p)
  PROVE  OrderInv'
<1>0. PICK e, i : e = scan.todo[p] /\ i = e.job
  OBVIOUS
<1>1. /\ UNCHANGED <<world, job, clock, folder, based>> /\ scan.at = "downloads" /\ p \in DOMAIN scan.todo
      /\ job[i].status = "delivered"
      /\ processed' = [android |-> processed["android"] \cup {<<p, e.stamp>>},
                       pc |-> processed["pc"] \cup MarkedPrints("pc", job[i].dest)]
      /\ seen' = [seen EXCEPT !["pc"] = MarkedSeen("pc", job[i].dest)]
      /\ ScanTyped(scan)
  BY <1>0 DEF ReconcileDownload, ScanSame, Typed
<1>2. \/ /\ scan' = [scan EXCEPT !.at = "remove", !.item = p] /\ ~e.tried
      \/ Handled(p)
  BY <1>0 DEF ReconcileDownload
<1>3. /\ EntryOf("android", p, e) /\ e.job # NoJob /\ e.job \in Jobs
  BY <1>0, <1>1, TodoTyped DEF OrderInv, EntriesPlaced, Reconciling, Sides, ScanTyped
<1>4. i \in Accepted /\ Written(i) /\ job[i].side = "android" /\ job[i].path = p
  BY <1>0, <1>1, <1>3 DEF EntryOf, Written
<1>5. "pc" \in Sides /\ job[i].side = Other("pc") /\ MarkedPrints("pc", job[i].dest) \subseteq processed'["pc"]
  BY <1>1, <1>4 DEF Other, Sides
<1>6. /\ ~Unmarked(i)'
      /\ \A s \in Sides : \A q \in DOMAIN seen'[s] : \E f : f = seen'[s][q] /\ EntryOf(s, q, f)'
      /\ \A j \in Accepted : Known(j) => Known(j)'
      /\ \A j \in Accepted : Unmarked(j)' /\ Watched(j)' => Watched(j)
  BY <1>1, <1>4, <1>5, OrderMarked
<1>7. /\ \A s \in Sides : Reconciling(s)' => Reconciling(s)
      /\ \A q \in DOMAIN scan'.todo : q \in DOMAIN scan.todo /\ scan'.todo[q] = scan.todo[q]
      /\ \A q \in DOMAIN scan.todo : q = p \/ (q \in DOMAIN scan'.todo /\ scan'.todo[q] = scan.todo[q])
      /\ scan'.at = "downloads" \/ (scan'.at = "remove" /\ scan'.item = p /\ scan'.todo[p] = e /\ ~e.tried)
  <2>1. CASE Handled(p)
    BY <1>1, <2>1 DEF Handled, Drop, ScanTyped, Reconciling
  <2>2. CASE scan' = [scan EXCEPT !.at = "remove", !.item = p] /\ ~e.tried
    BY <1>0, <1>1, <2>2 DEF ScanTyped, Reconciling
  <2> QED
    BY <1>2, <2>1, <2>2
<1>8. EntriesPlaced'
  BY <1>1, <1>6, <1>7, DropEntries, EntriesFrame
<1>9. ListedPlaced'
  BY <1>7, NotListing
<1>10. ItemWritten'
  BY <1>0, <1>1, <1>6, <1>7 DEF ItemWritten, Written
<1>11. \A s \in Sides : processed[s] \subseteq processed'[s]
  BY <1>1 DEF Sides
<1>12. ASSUME NEW j \in Accepted, Unmarked(j), Unmarked(j)', Watched(j)' PROVE Reached(j)'
  <2>1. Reached(j) /\ job'[j] = job[j] /\ j # i /\ job[j].side \in Sides
    BY <1>1, <1>6, <1>12, OrderJob DEF OrderInv, CopiesHeld
  <2>2. CASE job[j].side = "android"
    <3>1. ToReconcile(j)
      BY <1>1, <2>1, <2>2 DEF Reached
    <3>2. ToReconcile(j)'
      BY <1>0, <1>7, <2>1, <3>1 DEF ToReconcile
    <3> QED
      BY <1>7, <2>1, <2>2, <3>2 DEF Reached
  <2>3. CASE job[j].side = "pc"
    BY <1>7, <2>1, <2>3 DEF Reached
  <2> QED
    BY <2>1, <2>2, <2>3 DEF Sides
<1> QED
  BY <1>1, <1>6, <1>8, <1>9, <1>10, <1>11, <1>12, OrderFrame

LEMMA OrderUpload ==
  ASSUME Typed, Apart, OnceInv, OrderInv, (\E p \in Paths : ReconcileUpload(p)) \/ StatUploaded
  PROVE  OrderInv'
<1>0. ScanTyped(scan) /\ PrintsTyped(processed)
  BY DEF Typed
<1>1. CASE \E p \in Paths : ReconcileUpload(p)
  <2>1. PICK p \in Paths : ReconcileUpload(p)
    BY <1>1
  <2>2. /\ UNCHANGED <<world, job, clock, folder, based, seen>> /\ scan.at = "uploads" /\ p \in DOMAIN scan.todo
        /\ scan'.at = "stat" /\ scan'.todo = scan.todo /\ scan'.item = p /\ Written(scan.todo[p].job)
        /\ \A s \in Sides : processed[s] \subseteq processed'[s]
    BY <1>0, <2>1 DEF ReconcileUpload, ScanSame, ScanTyped, PrintsTyped, Written
  <2>3. EntriesPlaced'
    <3>1. \A s \in Sides : \A q \in DOMAIN seen'[s] : \E f : f = seen'[s][q] /\ EntryOf(s, q, f)'
      BY <2>2, EntrySame DEF OrderInv, EntriesPlaced
    <3>2. \A s \in Sides : Reconciling(s)' => Reconciling(s)
      BY <2>2 DEF Reconciling
    <3> QED
      BY <2>2, <3>1, <3>2, DropEntries, EntriesFrame
  <2>4. ListedPlaced' /\ ItemWritten'
    BY <2>2, NotListing DEF ItemWritten, Written
  <2>5. \A j \in Accepted : Known(j) => Known(j)'
    BY <2>2 DEF Known
  <2>6. ASSUME NEW j \in Accepted, Unmarked(j), Watched(j)' PROVE Reached(j)'
    <3>1. Watched(j)
      BY <2>2, <2>6 DEF Watched, CopyStamp
    <3>2. Reached(j)
      BY <2>6, <3>1, OrderJob DEF OrderInv, CopiesHeld
    <3> QED
      BY <2>2, <3>2 DEF Reached, ToReconcile
  <2> QED
    BY <2>2, <2>3, <2>4, <2>5, <2>6, OrderFrame
<1>2. CASE StatUploaded
  <2>0. PICK p, i : p = scan.item /\ i = scan.todo[p].job
    OBVIOUS
  <2>1. /\ UNCHANGED <<world, job, clock, folder, based>> /\ scan.at = "stat" /\ p \in DOMAIN scan.todo
        /\ scan'.at = "uploads" /\ scan'.todo = Drop(scan.todo, {p})
        /\ processed' = [processed EXCEPT !["android"] = @ \cup MarkedPrints("android", job[i].dest)]
        /\ seen' = [seen EXCEPT !["android"] = MarkedSeen("android", job[i].dest)]
    BY <1>0, <1>2, <2>0 DEF StatUploaded, ScanSame, ScanTyped
  <2>2. EntryOf("pc", p, scan.todo[p]) /\ i # NoJob
    BY <1>0, <2>0, <2>1, TodoTyped DEF OrderInv, EntriesPlaced, Reconciling, Sides, ScanTyped
  <2>3. i \in Accepted /\ Written(i) /\ job[i].side = "pc" /\ job[i].path = p
    BY <2>0, <2>1, <2>2 DEF EntryOf, OrderInv, ItemWritten
  <2>4. "android" \in Sides /\ job[i].side = Other("android") /\ MarkedPrints("android", job[i].dest) \subseteq processed'["android"]
    BY <1>0, <2>1, <2>3 DEF Other, PrintsTyped, Sides
  <2>5. /\ ~Unmarked(i)'
        /\ \A s \in Sides : \A q \in DOMAIN seen'[s] : \E f : f = seen'[s][q] /\ EntryOf(s, q, f)'
        /\ \A j \in Accepted : Known(j) => Known(j)'
        /\ \A j \in Accepted : Unmarked(j)' /\ Watched(j)' => Watched(j)
    BY <2>1, <2>3, <2>4, OrderMarked
  <2>6. /\ \A s \in Sides : Reconciling(s)' => Reconciling(s)
        /\ \A q \in DOMAIN scan'.todo : q \in DOMAIN scan.todo /\ scan'.todo[q] = scan.todo[q]
        /\ \A q \in DOMAIN scan.todo : q = p \/ (q \in DOMAIN scan'.todo /\ scan'.todo[q] = scan.todo[q])
    BY <2>1 DEF Reconciling, Drop
  <2>7. EntriesPlaced'
    BY <2>1, <2>5, <2>6, DropEntries, EntriesFrame
  <2>8. ListedPlaced' /\ ItemWritten'
    BY <2>1, NotListing DEF ItemWritten
  <2>9. \A s \in Sides : processed[s] \subseteq processed'[s]
    BY <1>0, <2>1 DEF PrintsTyped
  <2>10. ASSUME NEW j \in Accepted, Unmarked(j), Unmarked(j)', Watched(j)' PROVE Reached(j)'
    <3>1. Reached(j) /\ job'[j] = job[j] /\ j # i /\ job[j].side \in Sides
      BY <2>1, <2>5, <2>10, OrderJob DEF OrderInv, CopiesHeld
    <3>2. job[j].side = "pc" /\ ToReconcile(j)
      BY <2>1, <3>1 DEF Reached, Sides
    <3>3. ToReconcile(j)'
      BY <2>0, <2>6, <3>1, <3>2 DEF ToReconcile
    <3> QED
      BY <2>1, <3>1, <3>2, <3>3 DEF Reached
  <2> QED
    BY <2>1, <2>5, <2>7, <2>8, <2>9, <2>10, OrderFrame
<1> QED
  BY <1>1, <1>2

LEMMA OrderNotDone ==
  ASSUME Typed, Apart, OnceInv, OrderInv, NEW s \in Sides, NEW p \in Paths, ReconcileStopped(s, p)
  PROVE  OrderInv'
<1>0. PICK e : e = scan.todo[p]
  OBVIOUS
<1>1. /\ UNCHANGED <<world, job, clock, folder, based, processed>> /\ p \in DOMAIN scan.todo
      /\ scan.at = IF s = "android" THEN "downloads" ELSE "uploads"
      /\ job[e.job].status = "stopped" /\ seen' = Update(s, p, Failed(e)) /\ Handled(p) /\ ScanTyped(scan)
  BY <1>0 DEF ReconcileStopped, ScanSame, memory, Typed
<1>2. scan'.at = scan.at /\ scan'.todo = Drop(scan.todo, {p})
  BY <1>1 DEF Handled, ScanTyped
<1>3. /\ \A r \in Sides : Reconciling(r)' => Reconciling(r)
      /\ \A q \in DOMAIN scan'.todo : q \in DOMAIN scan.todo /\ scan'.todo[q] = scan.todo[q]
      /\ \A q \in DOMAIN scan.todo : q = p \/ (q \in DOMAIN scan'.todo /\ scan'.todo[q] = scan.todo[q])
  BY <1>2 DEF Reconciling, Drop
<1>4. e \in Observations /\ EntryOf(s, p, e) /\ e.job # NoJob /\ Reconciling(s)
  BY <1>0, <1>1, TodoTyped DEF OrderInv, EntriesPlaced, Reconciling, Sides, ScanTyped
<1>5. /\ Failed(e).job = NoJob /\ Failed(e).stamp = e.stamp
      /\ e.job \in Accepted /\ job[e.job].side = s /\ job[e.job].path = p
  BY <1>4, FailedTyped DEF EntryOf
<1>6. /\ p \in DOMAIN seen[s] => p \in DOMAIN seen'[s] /\ seen'[s][p] = Failed(e)
      /\ \A r \in Sides : DOMAIN seen'[r] = DOMAIN seen[r]
      /\ \A r \in Sides : \A q \in DOMAIN seen[r] :
            (r = s /\ q = p) \/ (q \in DOMAIN seen'[r] /\ seen'[r][q] = seen[r][q])
  BY <1>1, SeenUpdateFacts
<1>7. EntriesPlaced'
  <2>1. ASSUME NEW r \in Sides, NEW q \in DOMAIN seen'[r] PROVE \E f : f = seen'[r][q] /\ EntryOf(r, q, f)'
    <3>1. CASE r = s /\ q = p
      <4>1. PICK f : f = Failed(e)
        OBVIOUS
      <4>2. EntryOf(s, p, f)
        BY <1>4, <1>5, <4>1 DEF EntryOf
      <4> QED
        BY <1>1, <1>6, <3>1, <4>1, <4>2, EntrySame
    <3>2. CASE ~(r = s /\ q = p)
      BY <1>1, <1>6, <3>2, EntrySame DEF OrderInv, EntriesPlaced
    <3> QED
      BY <3>1, <3>2
  <2> QED
    BY <1>1, <1>3, <2>1, DropEntries, EntriesFrame
<1>8. ListedPlaced' /\ ItemWritten'
  BY <1>1, <1>2, NotListing DEF ItemWritten
<1>9. ASSUME NEW j \in Accepted, Known(j), j \in Owed \/ Unmarked(j) PROVE Known(j)'
  <2>1. j # e.job
    BY <1>1, <1>9 DEF Owed, Unmarked, Written
  <2>2. j # NoJob /\ job[j].side \in Sides
    BY OrderJob
  <2>3. ~(job[j].side = s /\ job[j].path = p)
    BY <1>0, <1>1, <1>4, <1>9, <2>1, <2>2 DEF Known, OnceInv, TodoAgrees
  <2> QED
    BY <1>1, <1>6, <1>9, <2>2, <2>3 DEF Known
<1>10. ASSUME NEW j \in Accepted, Unmarked(j), Unmarked(j)', Watched(j)' PROVE Reached(j)'
  <2>1. Written(j) /\ Other(job[j].side) \in Sides /\ job'[j] = job[j] /\ j # e.job
    BY <1>1, <1>10, OrderJob DEF Unmarked, Written
  <2>2. ~(Other(job[j].side) = s /\ job[j].dest = p)
    BY <1>5, <2>1, CopyPath
  <2>3. Watched(j)
    BY <1>6, <1>10, <2>1, <2>2 DEF Watched, CopyStamp
  <2>4. Reached(j)
    BY <1>10, <2>1, <2>3, OrderJob DEF OrderInv, CopiesHeld
  <2>5. ToReconcile(j) => ToReconcile(j)'
    BY <1>0, <1>3, <2>1 DEF ToReconcile
  <2> QED
    BY <1>2, <2>1, <2>4, <2>5 DEF Reached
<1> QED
  BY <1>1, <1>7, <1>8, <1>9, <1>10, OrderFrame

(* A file goes: everything but its own transfer is as before.               *)
LEMMA OrderRemoves ==
  ASSUME Typed, Apart, OnceInv, OrderInv, NEW removed \in BOOLEAN, RemoveSource(removed)
  PROVE  OrderInv'
<1>0. PICK p, e, i : p = scan.item /\ e = scan.todo[p] /\ i = e.job
  OBVIOUS
<1>1. /\ UNCHANGED <<world, job, clock, based, processed>> /\ scan.at = "remove" /\ p \in DOMAIN scan.todo
      /\ seen' = Update("android", p, [e EXCEPT !.tried = TRUE])
      /\ scan'.at = "downloads" /\ scan'.todo = Drop(scan.todo, {p})
      /\ folder' = IF removed THEN [folder EXCEPT !["android"] = Drop(@, {p})] ELSE folder
      /\ FolderTyped(folder)
  BY <1>0 DEF RemoveSource, ScanSame, Typed, ScanTyped
<1>2. \A r \in Sides : \A q \in DOMAIN folder'[r] : q \in DOMAIN folder[r] /\ folder'[r][q] = folder[r][q]
  BY <1>1 DEF FolderTyped, Drop
<1>3. \A r \in Sides : \A q, n : At(r, q, n) /\ ~(r = "android" /\ q = p) => At(r, q, n)'
  BY <1>1 DEF FolderTyped, Drop, At
<1>4. \A r \in Sides : \A q, n : At(r, q, n)' => At(r, q, n)
  BY <1>2 DEF At
<1>5. e \in Observations /\ EntryOf("android", p, e) /\ i # NoJob
  BY <1>0, <1>1, TodoTyped DEF OrderInv, EntriesPlaced, Reconciling, Sides, Typed, ScanTyped
<1>6. i \in Accepted /\ job[i].side = "android" /\ job[i].path = p /\ Written(i) /\ ~Unmarked(i)
  BY <1>0, <1>1, <1>5 DEF EntryOf, OrderInv, ItemWritten
<1>7. Accepted' = Accepted /\ Owed' = Owed /\ \A n : Born(n)' <=> Born(n)
  BY <1>1 DEF Accepted, Owed, Born, CopyStamp
<1>8. /\ p \in DOMAIN seen["android"] => p \in DOMAIN seen'["android"] /\ seen'["android"][p] = [e EXCEPT !.tried = TRUE]
      /\ \A r \in Sides : DOMAIN seen'[r] = DOMAIN seen[r]
      /\ \A r \in Sides : \A q \in DOMAIN seen[r] :
            (r = "android" /\ q = p) \/ (q \in DOMAIN seen'[r] /\ seen'[r][q] = seen[r][q])
  <2>1. "android" \in Sides /\ p \in Paths
    BY <1>1 DEF Sides, Typed, ScanTyped
  <2> QED
    BY <1>1, <2>1, SeenUpdateFacts
<1>9. FilesPlaced'
  <2> SUFFICES ASSUME NEW s \in Sides, NEW q \in DOMAIN folder'[s]
               PROVE  (\/ folder[s][q].stamp \in 1..MaxWrites /\ folder[s][q].origin = folder[s][q].stamp /\ Mine(s, q)
                       \/ \E k \in Jobs : folder[s][q].stamp = CopyStamp(k) /\ CopyOf(k, s, q))'
    BY DEF FilesPlaced
  <2>1. q \in DOMAIN folder[s] /\ folder'[s][q] = folder[s][q]
    BY <1>2
  <2>2. \/ folder[s][q].stamp \in 1..MaxWrites /\ folder[s][q].origin = folder[s][q].stamp /\ Mine(s, q)
        \/ \E k \in Jobs : folder[s][q].stamp = CopyStamp(k) /\ CopyOf(k, s, q)
    BY <2>1 DEF OrderInv, FilesPlaced
  <2> QED
    BY <1>1, <2>1, <2>2 DEF CopyOf, CopyStamp, Written, Mine
<1>10. JobsPlaced'
  BY <1>1, <1>7 DEF OrderInv, JobsPlaced, Written, Mine
<1>11. EntriesPlaced'
  <2>1. ASSUME NEW r \in Sides, NEW q, NEW f, EntryOf(r, q, f), ~(r = "android" /\ q = p)
        PROVE  EntryOf(r, q, f)'
    BY <1>1, <1>3, <1>7, <2>1 DEF EntryOf
  <2>2. ASSUME NEW r \in Sides, NEW q \in DOMAIN seen'[r] PROVE \E f : f = seen'[r][q] /\ EntryOf(r, q, f)'
    <3>1. CASE r = "android" /\ q = p
      <4>1. PICK f : f = [e EXCEPT !.tried = TRUE]
        OBVIOUS
      <4>2. f.tried /\ f.job = i /\ f.stamp = e.stamp
        BY <1>0, <1>5, <4>1 DEF Observations
      <4>3. EntryOf("android", p, f)'
        BY <1>0, <1>1, <1>5, <1>7, <4>2 DEF EntryOf
      <4> QED
        BY <1>8, <3>1, <4>1, <4>3
    <3>2. CASE ~(r = "android" /\ q = p)
      BY <1>8, <2>1, <3>2 DEF OrderInv, EntriesPlaced
    <3> QED
      BY <3>1, <3>2
  <2>3. ASSUME NEW r \in Sides, Reconciling(r)', NEW q \in DOMAIN scan'.todo
        PROVE  \E f : f = scan'.todo[q] /\ EntryOf(r, q, f)'
    <3>1. Reconciling(r) /\ q \in DOMAIN scan.todo /\ scan'.todo[q] = scan.todo[q] /\ q # p
      BY <1>1, <2>3 DEF Reconciling, Drop
    <3> QED
      BY <2>1, <3>1 DEF OrderInv, EntriesPlaced
  <2> QED
    BY <2>2, <2>3, EntriesFrame
<1>12. ListedPlaced' /\ ItemWritten'
  BY <1>1, NotListing DEF ItemWritten
<1>13. ASSUME NEW j \in Accepted, Held(j), j \in Owed \/ Unmarked(j) PROVE Held(j)'
  <2>1. j # i /\ j # NoJob /\ job[j].side \in Sides
    BY <1>6, <1>13, OrderJob, WrittenJob
  <2>2. ~(job[j].side = "android" /\ job[j].path = p)
    <3>1. Reconciling("android") /\ "android" \in Sides
      BY <1>1 DEF Reconciling, Sides
    <3> QED
      BY <1>0, <1>1, <1>13, <2>1, <3>1 DEF Held, Known, OnceInv, TodoAgrees
  <2>3. Known(j)'
    BY <1>1, <1>8, <1>13, <2>1, <2>2 DEF Held, Known
  <2> QED
    BY <1>1, <1>3, <1>13, <2>1, <2>2, <2>3 DEF Held
<1>14. OwedHeld'
  BY <1>7, <1>13, WrittenJob DEF OwedHeld, OrderInv
<1>15. CopiesHeld'
  <2> SUFFICES ASSUME NEW j \in Jobs, Unmarked(j)' PROVE Held(j)' /\ (Watched(j)' => Reached(j)')
    BY DEF CopiesHeld
  <2>1. Written(j) /\ j \in Accepted /\ Other(job[j].side) \in Sides /\ job'[j] = job[j] /\ job[j].side \in Sides
    <3>1. Written(j)
      BY <1>1 DEF Unmarked, Written
    <3> QED
      BY <1>1, <3>1, WrittenJob, OrderJob
  <2>2. Unmarked(j)
    BY <1>1, <1>4, <2>1 DEF Unmarked, Written, CopyStamp
  <2>3. Held(j) /\ (Watched(j) => Reached(j))
    BY <2>2 DEF OrderInv, CopiesHeld
  <2>4. Held(j)'
    BY <1>13, <2>1, <2>2, <2>3
  <2>5. ASSUME Watched(j)' PROVE Reached(j)'
    <3>1. ~(Other(job[j].side) = "android" /\ job[j].dest = p)
      BY <1>6, <2>1, CopyPath
    <3>2. Watched(j)
      BY <1>8, <2>1, <2>5, <3>1 DEF Watched, CopyStamp
    <3>3. Reached(j) /\ j # i
      BY <1>6, <2>2, <2>3, <3>2
    <3>4. ToReconcile(j) => ToReconcile(j)'
      BY <1>0, <1>1, <2>1, <3>3 DEF ToReconcile, Drop
    <3> QED
      BY <1>1, <2>1, <3>3, <3>4 DEF Reached, Sides
  <2> QED
    BY <2>4, <2>5
<1> QED
  BY <1>9, <1>10, <1>11, <1>12, <1>14, <1>15 DEF OrderInv

(* A listing: a first one that is not wanted marks what it finds; what      *)
(* another one finds is a file of the user's, a marked copy, or a copy that *)
(* no scan has seen before.                                                 *)
LEMMA OrderLists ==
  ASSUME Typed, OnceInv, OrderInv, NEW s \in Sides,
         Lists(s, IF s = "android" THEN "list" ELSE "listpc", IF s = "android" THEN "listpc" ELSE "pc")
  PROVE  OrderInv'
<1>1. /\ UNCHANGED <<world, job, clock, folder>> /\ based' = based \cup {s}
      /\ scan.at = (IF s = "android" THEN "list" ELSE "listpc")
      /\ ScanTyped(scan) /\ SeenTyped(seen) /\ FolderTyped(folder) /\ PrintsTyped(processed)
  BY DEF Lists, Typed
<1>2. /\ Accepted' = Accepted /\ Owed' = Owed /\ s \in based'
      /\ \A n : Born(n)' <=> Born(n)
      /\ \A r, p, n : At(r, p, n)' <=> At(r, p, n)
  BY <1>1 DEF Accepted, Owed, Born, CopyStamp, At
<1>3. FilesPlaced' /\ JobsPlaced'
  BY <1>1, <1>2 DEF OrderInv, FilesPlaced, JobsPlaced, CopyOf, CopyStamp, Written, Mine
<1>4. ItemWritten'
  <2>1. scan'.at \notin {"remove", "stat"}
    BY <1>1 DEF Lists, Step, ScanTyped, Sides
  <2> QED
    BY <2>1 DEF ItemWritten
<1>5. \A j \in Accepted : job[j].side \in based /\ At(job[j].side, job[j].path, job[j].stamp) =>
          (job[j].side \in based /\ At(job[j].side, job[j].path, job[j].stamp))'
  BY <1>1, <1>2
<1>6. CASE s \notin based /\ s \notin config.existing
  <2>1. /\ processed' = [processed EXCEPT ![s] = @ \cup Prints(folder[s])]
        /\ seen' = [seen EXCEPT ![s] = [p \in DOMAIN @ \cup DOMAIN folder[s] |->
                  IF p \in DOMAIN folder[s] THEN Settled(folder[s][p].stamp) ELSE @[p]]]
        /\ scan'.at \in {"listpc", "pc"} /\ scan'.todo = <<>>
    BY <1>1, <1>6 DEF Lists, Step, ScanTyped
  <2>2. ListedPlaced'
    BY <2>1, NotListing
  <2>3. \A r \in Sides : \A p \in DOMAIN seen'[r] :
           \/ p \in DOMAIN seen[r] /\ seen'[r][p] = seen[r][p]
           \/ r = s /\ p \in DOMAIN folder[s] /\ seen'[r][p] = Settled(folder[s][p].stamp)
    BY <1>1, <2>1 DEF SeenTyped
  <2>4. EntriesPlaced'
    <3>1. ASSUME NEW r \in Sides, NEW p \in DOMAIN seen'[r] PROVE \E e : e = seen'[r][p] /\ EntryOf(r, p, e)'
      <4>1. CASE p \in DOMAIN seen[r] /\ seen'[r][p] = seen[r][p]
        BY <1>1, <4>1, EntrySame DEF OrderInv, EntriesPlaced
      <4>2. CASE r = s /\ p \in DOMAIN folder[s] /\ seen'[r][p] = Settled(folder[s][p].stamp)
        <5>1. folder[s][p].stamp \in Stamps /\ Born(folder[s][p].stamp)
          BY <1>1, <4>2 DEF FolderTyped, IsTable, FolderFiles, OnceInv, StampsBorn
        <5>2. PICK e : e = Settled(folder[s][p].stamp)
          OBVIOUS
        <5>3. e.job = NoJob /\ Born(e.stamp)
          BY <5>1, <5>2, EntryTyped
        <5>4. EntryOf(r, p, e)
          BY <5>3 DEF EntryOf
        <5> QED
          BY <1>1, <4>2, <5>2, <5>4, EntrySame
      <4> QED
        BY <2>3, <4>1, <4>2
    <3>2. \A r \in Sides : ~Reconciling(r)'
      BY <2>1 DEF Reconciling
    <3> QED
      BY <3>1, <3>2, EntriesFrame
  <2>5. \A j \in Accepted : Held(j) => Held(j)'
    <3> SUFFICES ASSUME NEW j \in Accepted, Held(j) PROVE Held(j)'
      OBVIOUS
    <3>1. job[j].side \in Sides /\ job[j].side # s
      BY <1>6, OrderJob DEF Held
    <3>2. Known(j)'
      BY <1>1, <2>1, <3>1 DEF Held, Known, SeenTyped
    <3> QED
      BY <1>5, <3>2 DEF Held
  <2>6. OwedHeld'
    BY <1>2, <2>5, WrittenJob DEF OwedHeld, OrderInv
  <2>7. CopiesHeld'
    <3> SUFFICES ASSUME NEW j \in Jobs, Unmarked(j)' PROVE FALSE
      BY DEF CopiesHeld
    <3>1. Written(j) /\ j \in Accepted /\ job'[j] = job[j]
      <4>1. Written(j)
        BY <1>1 DEF Unmarked, Written
      <4> QED
        BY <1>1, <4>1, WrittenJob
    <3>2. /\ job[j].side \in Sides /\ Other(job[j].side) \in Sides /\ processed[s] \subseteq processed'[s]
          /\ Prints(folder[s]) \subseteq processed'[s] /\ \A r \in Sides : processed[r] \subseteq processed'[r]
      BY <1>1, <2>1, <3>1, OrderJob DEF PrintsTyped
    <3>3. Unmarked(j)
      BY <1>1, <1>2, <3>1, <3>2 DEF Unmarked, CopyStamp
    <3>4. job[j].side # s
      BY <1>6, <3>3 DEF OrderInv, CopiesHeld, Held
    <3>5. Other(job[j].side) = s
      BY <3>2, <3>4 DEF Sides, Other
    <3>6. At(s, job[j].dest, CopyStamp(j)) /\ <<job[j].dest, CopyStamp(j)>> \notin processed'[s]
      BY <1>1, <1>2, <3>1, <3>5 DEF Unmarked, CopyStamp
    <3> QED
      BY <3>2, <3>6 DEF At, Prints
  <2> QED
    BY <1>3, <1>4, <2>2, <2>4, <2>6, <2>7 DEF OrderInv
<1>7. CASE ~(s \notin based /\ s \notin config.existing)
  <2>1. /\ UNCHANGED <<processed, seen>> /\ scan'.at = s
        /\ scan'.todo = [p \in DOMAIN folder[s] |-> folder[s][p].stamp]
    BY <1>1, <1>7 DEF Lists, Step, ScanTyped
  <2>2. \A r \in Sides, q \in Paths : Listing(r, q)' => r = s /\ q \in DOMAIN folder[s] /\ scan'.todo[q] = folder[s][q].stamp
    BY <2>1 DEF Listing, Sides
  <2>3. \A j \in Jobs : (Unmarked(j)' <=> Unmarked(j)) /\ (Watched(j)' <=> Watched(j)) /\ (Known(j)' <=> Known(j))
    BY <1>1, <2>1 DEF Unmarked, Watched, Known, Written, At, CopyStamp
  <2>4. \A j \in Accepted : Held(j) => Held(j)'
    BY <1>5, <2>3, OrderJob DEF Held
  <2>5. OwedHeld'
    BY <1>2, <2>4, WrittenJob DEF OwedHeld, OrderInv
  <2>7. CopiesHeld'
    <3> SUFFICES ASSUME NEW j \in Jobs, Unmarked(j) PROVE Held(j)' /\ (Watched(j) => Reached(j)')
      BY <2>3 DEF CopiesHeld
    <3>1. Held(j) /\ (Watched(j) => Reached(j)) /\ j \in Accepted /\ job'[j] = job[j]
      BY <1>1, WrittenJob DEF OrderInv, CopiesHeld
    <3>2. job[j].side \in Sides
      BY <3>1, OrderJob
    <3>3. Watched(j) => Reached(j)'
      BY <1>1, <2>1, <3>1, <3>2 DEF Reached, Sides
    <3> QED
      BY <2>4, <3>1, <3>3
  <2>8. ListedPlaced'
    <3> SUFFICES ASSUME NEW q \in DOMAIN folder[s], q \in Paths, scan'.todo[q] = folder[s][q].stamp
                 PROVE  \/ (scan.todo[q] \in 1..MaxWrites /\ At(s, q, scan.todo[q]) /\ Mine(s, q))'
                        \/ NewOrMarked(s, q)'
      BY <1>2, <2>2 DEF ListedPlaced
    <3>1. CASE folder[s][q].stamp \in 1..MaxWrites /\ Mine(s, q)
      BY <1>1, <3>1 DEF At, Mine
    <3>2. CASE \E k \in Jobs : folder[s][q].stamp = CopyStamp(k) /\ CopyOf(k, s, q)
      <4>1. PICK k \in Jobs : folder[s][q].stamp = CopyStamp(k) /\ CopyOf(k, s, q)
        BY <3>2
      <4>2. Written(k) /\ job[k].side = Other(s) /\ job[k].dest = q /\ Other(job[k].side) = s
        BY <4>1, SidesFacts DEF CopyOf
      <4>3. At(s, q, CopyStamp(k)) /\ folder[s][q].stamp \notin 1..MaxWrites
        BY <4>1, StampBounds, Bounds DEF At, Stamps
      <4>4. <<q, CopyStamp(k)>> \in processed[s] \/ ~Watched(k)
        <5> SUFFICES ASSUME <<q, CopyStamp(k)>> \notin processed[s], Watched(k) PROVE FALSE
          OBVIOUS
        <5>1. Unmarked(k)
          BY <4>2, <4>3 DEF Unmarked
        <5>2. Reached(k)
          BY <5>1 DEF OrderInv, CopiesHeld
        <5> QED
          BY <1>1, <4>2, <5>2 DEF Reached, Sides, Other
      <4>5. NewOrMarked(s, q)'
        BY <2>1, <4>1, <4>2, <4>3, <4>4 DEF NewOrMarked, Watched, Sides
      <4> QED
        BY <4>5
    <3> QED
      BY <3>1, <3>2 DEF OrderInv, FilesPlaced
  <2>9. EntriesPlaced'
    <3>1. \A r \in Sides : \A p \in DOMAIN seen'[r] : \E e : e = seen'[r][p] /\ EntryOf(r, p, e)'
      BY <1>1, <2>1, EntrySame DEF OrderInv, EntriesPlaced
    <3>2. \A r \in Sides : ~Reconciling(r)'
      BY <2>1 DEF Reconciling, Sides
    <3> QED
      BY <3>1, <3>2, EntriesFrame
  <2> QED
    BY <1>3, <1>4, <2>5, <2>7, <2>8, <2>9 DEF OrderInv
<1> QED
  BY <1>6, <1>7

(* What is wanted is a file of the user's: a copy is marked, or it is seen  *)
(* for the first time, and once is not enough.                              *)
LEMMA WantedIsMine ==
  ASSUME Typed, OrderInv, NEW s \in Sides, NEW p \in Paths, p \in DOMAIN scan.todo, scan.at = s, Wanted(s, p)
  PROVE  /\ Listing(s, p) /\ s \in based /\ scan.todo[p] \in 1..MaxWrites
         /\ At(s, p, scan.todo[p]) /\ Mine(s, p) /\ Observed(s, p).job = NoJob
<1>1. Listing(s, p)
  BY DEF Listing, Sides
<1>2. Observed(s, p).stamp = scan.todo[p]
  BY ObservedTyped DEF Sides
<1>3. ~NewOrMarked(s, p)
  <2> SUFFICES ASSUME NewOrMarked(s, p) PROVE FALSE
    OBVIOUS
  <2>1. Observed(s, p) = Entry(scan.todo[p])
    BY <1>2 DEF NewOrMarked, Wanted, Observed
  <2>2. Observed(s, p).count = 1
    BY <2>1 DEF Entry
  <2> QED
    BY <2>2, Bounds DEF Wanted
<1>4. Observed(s, p).job = NoJob
  BY DEF Wanted
<1> QED
  BY <1>1, <1>3, <1>4 DEF OrderInv, ListedPlaced

LEMMA ObservedEntry ==
  ASSUME Typed, OnceInv, OrderInv, NEW s \in Sides, NEW p \in Paths, Listing(s, p)
  PROVE  /\ EntryOf(s, p, Observed(s, p)) /\ EntryOf(s, p, Failed(Observed(s, p)))
         /\ Observed(s, p).stamp = scan.todo[p]
         /\ Failed(Observed(s, p)).stamp = scan.todo[p]
         /\ \A j \in Accepted : Held(j) /\ job[j].side = s /\ job[j].path = p => Observed(s, p).job = j
<1>1. /\ p \in DOMAIN scan.todo /\ scan.at \in {"android", "pc", "spool"} /\ Born(scan.todo[p])
  BY DEF Listing, Sides, OnceInv, StampsBorn
<1>2. PICK o : o = Observed(s, p)
  OBVIOUS
<1>3. /\ o \in Observations /\ o.stamp = scan.todo[p]
      /\ IF p \in DOMAIN seen[s] /\ seen[s][p].stamp = scan.todo[p]
         THEN o.job = seen[s][p].job ELSE o.job = NoJob
  BY <1>1, <1>2, ObservedTyped
<1>4. Failed(o).job = NoJob /\ Failed(o).stamp = o.stamp
  BY <1>3, FailedTyped
<1>5. EntryOf(s, p, Failed(o))
  BY <1>1, <1>3, <1>4 DEF EntryOf
<1>6. EntryOf(s, p, o)
  <2>1. CASE p \in DOMAIN seen[s] /\ seen[s][p].stamp = scan.todo[p]
    <3>0. PICK f : f = seen[s][p]
      OBVIOUS
    <3>1. f \in Observations /\ EntryOf(s, p, f)
      BY <2>1, <3>0 DEF Typed, SeenTyped, IsTable, OrderInv, EntriesPlaced
    <3>2. o = [f EXCEPT !.count = IF @ < StableAfter THEN @ + 1 ELSE @]
      BY <1>2, <2>1, <3>0 DEF Observed
    <3>3. o.job = f.job /\ o.stamp = f.stamp /\ o.tried = f.tried
      BY <3>1, <3>2 DEF Observations
    <3> QED
      BY <3>1, <3>3 DEF EntryOf
  <2>2. CASE ~(p \in DOMAIN seen[s] /\ seen[s][p].stamp = scan.todo[p])
    BY <1>1, <1>3, <2>2 DEF EntryOf
  <2> QED
    BY <2>1, <2>2
<1>7. ASSUME NEW j \in Accepted, Held(j), job[j].side = s, job[j].path = p PROVE o.job = j
  <2>1. scan.todo[p] = job[j].stamp
    BY <1>7 DEF OnceInv, ListFresh, Held
  <2> QED
    BY <1>3, <1>7, <2>1 DEF Held, Known
<1> QED
  BY <1>2, <1>3, <1>4, <1>5, <1>6, <1>7

LEMMA OneListing ==
  ASSUME NEW r \in Sides, NEW s \in Sides, NEW q, NEW p, Listing(r, q), Listing(s, p)
  PROVE  r = s
  BY DEF Listing, Sides

(* A listed file has been looked at, and nothing is queued.                 *)
LEMMA OrderLooked ==
  ASSUME Typed, OnceInv, OrderInv, NEW s \in Sides, NEW p \in Paths, NEW e, Listing(s, p),
         UNCHANGED <<world, job, folder, clock, based, processed>>, EntryOf(s, p, e),
         \A r \in Sides : \A q \in DOMAIN seen'[r] :
            \/ r = s /\ q = p /\ seen'[r][q] = e
            \/ q \in DOMAIN seen[r] /\ seen'[r][q] = seen[r][q],
         \A r \in Sides : \A q \in DOMAIN seen[r] :
            (r = s /\ q = p) \/ (q \in DOMAIN seen'[r] /\ seen'[r][q] = seen[r][q]),
         \A j \in Accepted : Held(j) /\ job[j].side = s /\ job[j].path = p => Known(j)',
         scan'.at \in {"android", "pc", "spool", "idle"},
         scan'.at = "android" => s = "android",
         \A r \in Sides, q \in Paths : Listing(r, q)' => Listing(r, q) /\ scan'.todo[q] = scan.todo[q],
         Listing(s, p)' => scan.todo[p] \in 1..MaxWrites,
         scan'.at = "spool" => scan'.item = p
  PROVE  OrderInv'
<1>1. EntriesPlaced'
  <2>1. \A r \in Sides : \A q \in DOMAIN seen'[r] : \E f : f = seen'[r][q] /\ EntryOf(r, q, f)'
    BY EntrySame DEF OrderInv, EntriesPlaced
  <2>2. \A r \in Sides : ~Reconciling(r)'
    BY DEF Reconciling
  <2> QED
    BY <2>1, <2>2, EntriesFrame
<1>2. ListedPlaced'
  <2> SUFFICES ASSUME NEW r \in Sides, NEW q \in Paths, Listing(r, q)'
               PROVE  (/\ r \in based
                       /\ \/ scan.todo[q] \in 1..MaxWrites /\ At(r, q, scan.todo[q]) /\ Mine(r, q)
                          \/ NewOrMarked(r, q))'
    BY DEF ListedPlaced
  <2>1. Listing(r, q) /\ scan'.todo[q] = scan.todo[q] /\ r = s
    BY OneListing
  <2>2. CASE scan.todo[q] \in 1..MaxWrites /\ At(r, q, scan.todo[q]) /\ Mine(r, q)
    BY <2>1, <2>2 DEF OrderInv, ListedPlaced, At, Mine
  <2>3. CASE NewOrMarked(r, q)
    <3>1. q # p
      BY <2>1, <2>3 DEF NewOrMarked
    <3> QED
      BY <2>1, <2>3, <3>1 DEF OrderInv, ListedPlaced, NewOrMarked
  <2> QED
    BY <2>1, <2>2, <2>3 DEF OrderInv, ListedPlaced
<1>3. ItemWritten'
  BY DEF ItemWritten
<1>4. ASSUME NEW j \in Accepted, Known(j), Held(j) PROVE Known(j)'
  <2>1. j \in Jobs /\ job[j].side \in Sides
    BY OrderJob
  <2>2. CASE job[j].side = s /\ job[j].path = p
    BY <1>4, <2>2
  <2>3. CASE ~(job[j].side = s /\ job[j].path = p)
    BY <1>4, <2>1, <2>3 DEF Known
  <2> QED
    BY <2>2, <2>3
<1>5. ASSUME NEW j \in Accepted, Unmarked(j), Watched(j)' PROVE Reached(j)'
  <2>1. job[j].side \in Sides /\ job'[j] = job[j] /\ j \in Jobs
    BY OrderJob
  <2>2. CASE scan'.at # "android" \/ job[j].side = "pc"
    BY <2>1, <2>2 DEF Reached, Sides
  <2>3. CASE scan'.at = "android" /\ job[j].side = "android"
    <3>1. Other(job[j].side) = "pc" /\ s = "android"
      BY <2>3 DEF Other
    <3>2. Watched(j)
      BY <1>5, <2>1, <3>1 DEF Watched, CopyStamp, Sides
    <3>3. scan.at = "android"
      BY <3>1 DEF Listing
    <3> QED
      BY <1>5, <2>1, <2>3, <3>2, <3>3 DEF OrderInv, CopiesHeld, Reached
  <2> QED
    BY <2>1, <2>2, <2>3 DEF Sides
<1> QED
  BY <1>1, <1>2, <1>3, <1>4, <1>5, OrderFrame

LEMMA OrderObserving ==
  ASSUME Typed, OnceInv, OrderInv, NEW s \in Sides, NEW p \in Paths,
         \/ Observe(s, p)
         \/ s = "android" /\ DownloadRefused(p)
         \/ s = "pc" /\ SpoolStarts(p)
  PROVE  OrderInv'
<1>1. /\ UNCHANGED <<world, job, clock, folder, processed, based>>
      /\ p \in DOMAIN scan.todo /\ scan.at = s /\ Listing(s, p)
  BY DEF Observe, DownloadRefused, SpoolStarts, ScanSame, Listing, Sides
<1>2. PICK e : /\ seen' = [seen EXCEPT ![s] = Put(seen[s], p, e)]
               /\ EntryOf(s, p, e)
               /\ e.stamp = scan.todo[p]
               /\ e = Observed(s, p) \/ Wanted(s, p)
  <2>1. CASE Observe(s, p)
    BY <1>1, <2>1, ObservedEntry DEF Observe
  <2>2. CASE s = "pc" /\ SpoolStarts(p)
    BY <1>1, <2>2, ObservedEntry DEF SpoolStarts
  <2>3. CASE s = "android" /\ DownloadRefused(p)
    BY <1>1, <2>3, ObservedEntry DEF DownloadRefused
  <2> QED
    BY <2>1, <2>2, <2>3
<1>3. /\ p \in DOMAIN seen'[s] /\ seen'[s][p] = e
      /\ \A r \in Sides : \A q \in DOMAIN seen[r] :
            (r = s /\ q = p) \/ (q \in DOMAIN seen'[r] /\ seen'[r][q] = seen[r][q])
      /\ \A r \in Sides : \A q \in DOMAIN seen'[r] :
            \/ r = s /\ q = p /\ seen'[r][q] = e
            \/ q \in DOMAIN seen[r] /\ seen'[r][q] = seen[r][q]
  BY <1>2, SeenPutFacts DEF Typed, SeenTyped, Put
<1>4. ASSUME NEW j \in Accepted, Held(j), job[j].side = s, job[j].path = p PROVE Known(j)'
  <2>1. Observed(s, p).job = j /\ j # NoJob /\ j \in Jobs
    BY <1>1, <1>4, ObservedEntry, OrderJob
  <2>2. e = Observed(s, p) /\ job'[j] = job[j]
    BY <1>1, <1>2, <2>1 DEF Wanted
  <2>3. e.stamp = job[j].stamp
    BY <1>1, <1>2, <1>4 DEF OnceInv, ListFresh, Held
  <2> QED
    BY <1>3, <1>4, <2>1, <2>2, <2>3 DEF Known
<1>5. \/ scan'.at = s /\ scan'.todo = Drop(scan.todo, {p})
      \/ s = "pc" /\ scan'.at = "spool" /\ scan'.item = p /\ scan'.todo = scan.todo /\ Wanted(s, p)
  <2>1. CASE Observe(s, p) \/ DownloadRefused(p)
    BY <1>1, <2>1 DEF Observe, DownloadRefused, Handled, Typed, ScanTyped
  <2>2. CASE s = "pc" /\ SpoolStarts(p)
    BY <1>1, <2>2 DEF SpoolStarts, Typed, ScanTyped
  <2> QED
    BY <2>1, <2>2
<1>6. \A r \in Sides, q \in Paths : Listing(r, q)' => Listing(r, q) /\ scan'.todo[q] = scan.todo[q]
  BY <1>1, <1>5 DEF Listing, Sides, Drop
<1>7. Listing(s, p)' => scan.todo[p] \in 1..MaxWrites
  BY <1>1, <1>5, WantedIsMine DEF Listing, Drop
<1>8. /\ scan'.at \in {"android", "pc", "spool", "idle"}
      /\ scan'.at = "android" => s = "android"
      /\ scan'.at = "spool" => scan'.item = p
  BY <1>5 DEF Sides
<1> QED
  BY <1>1, <1>2, <1>3, <1>4, <1>6, <1>7, <1>8, OrderLooked

LEMMA ContinuesOn ==
  ASSUME Typed, NEW p, scan.at = "spool", scan.item = p, Continues(p)
  PROVE  \/ scan'.at = "pc" /\ scan'.todo = Drop(scan.todo, {p})
         \/ scan' = Idle
  BY DEF Continues, Typed, ScanTyped

LEMMA OrderRefused ==
  ASSUME Typed, OnceInv, OrderInv, NEW p \in Paths, UploadRefused(p)
  PROVE  OrderInv'
<1>1. /\ UNCHANGED <<world, job, clock, folder, processed, based>>
      /\ scan.at = "spool" /\ scan.item = p /\ p \in DOMAIN scan.todo /\ Listing("pc", p) /\ "pc" \in Sides
      /\ seen' = Update("pc", p, Failed(Observed("pc", p))) /\ Continues(p)
  BY DEF UploadRefused, Listing, Sides, Typed, ScanTyped
<1>2. PICK e : e = Failed(Observed("pc", p))
  OBVIOUS
<1>3. EntryOf("pc", p, e)
  BY <1>1, <1>2, ObservedEntry
<1>4. /\ \A r \in Sides : \A q \in DOMAIN seen[r] :
            (r = "pc" /\ q = p) \/ (q \in DOMAIN seen'[r] /\ seen'[r][q] = seen[r][q])
      /\ \A r \in Sides : \A q \in DOMAIN seen'[r] :
            \/ r = "pc" /\ q = p /\ seen'[r][q] = e
            \/ q \in DOMAIN seen[r] /\ seen'[r][q] = seen[r][q]
  BY <1>1, <1>2, SeenUpdateFacts
<1>5. ASSUME NEW j \in Accepted, Held(j), job[j].side = "pc", job[j].path = p PROVE FALSE
  BY <1>1, <1>5, OrderJob DEF OnceInv, SpoolWanted, Held, Known
<1>6. \/ scan'.at = "pc" /\ scan'.todo = Drop(scan.todo, {p})
      \/ scan'.at = "idle"
  BY <1>1, ContinuesOn DEF Idle
<1>7. \A r \in Sides, q \in Paths : Listing(r, q)' => Listing(r, q) /\ scan'.todo[q] = scan.todo[q] /\ q # p
  BY <1>1, <1>6 DEF Listing, Sides, Drop
<1>8. /\ scan'.at \in {"android", "pc", "spool", "idle"} /\ scan'.at # "android" /\ scan'.at # "spool"
      /\ ~Listing("pc", p)'
  BY <1>1, <1>6, <1>7
<1> QED
  BY <1>1, <1>3, <1>4, <1>5, <1>7, <1>8, OrderLooked

LEMMA ResolvedName ==
  ASSUME NEW p \in Paths, NEW files, NEW policy, NEW d \in Resolved(p, files, policy)
  PROVE  d[1] = p[1]
<1>1. d = p \/ \E i \in 1..MaxCopies : d = <<p[1], i>>
  BY DEF Resolved
<1>2. \A i \in 1..MaxCopies : <<p[1], i>>[1] = p[1]
  OBVIOUS
<1> QED
  BY <1>1, <1>2

(* A transfer is accepted: the entry tells of it from the start.            *)
LEMMA OrderAccepted ==
  ASSUME Typed, Apart, OnceInv, OrderInv, NEW j \in NextJob, NEW s \in Sides, NEW p \in Paths, Listing(s, p),
         NEW carries, NEW dest, Accept(j, s, p, scan.todo[p], carries, dest),
         s \in based, scan.todo[p] \in 1..MaxWrites, At(s, p, scan.todo[p]), Mine(s, p),
         s = "android" => dest[1] = p[1],
         Observed(s, p).job = NoJob,
         UNCHANGED <<world, folder, processed, clock, based>>,
         p \in DOMAIN seen'[s], seen'[s][p].job = j, seen'[s][p].stamp = scan.todo[p],
         \A r \in Sides : \A q \in DOMAIN seen[r] :
               (r = s /\ q = p) \/ (q \in DOMAIN seen'[r] /\ seen'[r][q] = seen[r][q]),
         \A r \in Sides : \A q \in DOMAIN seen'[r] :
               (r = s /\ q = p) \/ (q \in DOMAIN seen[r] /\ seen'[r][q] = seen[r][q]),
         scan'.at \in {"android", "pc"}, scan'.at = "android" => s = "android", ~Listing(s, p)',
         \A r \in Sides, q \in Paths : Listing(r, q)' => Listing(r, q) /\ scan'.todo[q] = scan.todo[q]
  PROVE  OrderInv'
<1>1. /\ j \in Jobs /\ j \notin Accepted /\ j # NoJob /\ NoJob \notin Jobs
      /\ \A i \in Accepted : i \in Jobs /\ i # NoJob /\ job[i].side \in Sides /\ job[i].path \in Paths
  BY JobFacts DEF NextJob, Accepted
<1>2. /\ job'[j].status = "owed" /\ job'[j].side = s /\ job'[j].path = p /\ job'[j].stamp = scan.todo[p]
      /\ job'[j].dest = dest
      /\ \A i \in Jobs : i # j => job'[i] = job[i]
  BY <1>1 DEF Accept, Typed
<1>3. /\ Accepted' = Accepted \cup {j} /\ Owed' = Owed \cup {j}
      /\ \A i \in Accepted : i # j /\ job'[i] = job[i]
  BY <1>1, <1>2 DEF Accepted, Owed
<1>4. /\ \A k \in Jobs : Written(k)' => k # j /\ Written(k) /\ k \in Accepted /\ job'[k] = job[k]
      /\ \A k \in Jobs : Written(k) => k # j /\ Written(k)' /\ job'[k] = job[k]
  BY <1>1, <1>2 DEF Written, Accepted
<1>5. \A n : Born(n) => Born(n)'
  BY <1>4, BornMore DEF Written
<1>6. FilesPlaced'
  BY <1>4 DEF OrderInv, FilesPlaced, CopyOf, CopyStamp, Mine
<1>7. JobsPlaced'
  <2> SUFFICES ASSUME NEW i \in Accepted'
               PROVE  (/\ job[i].stamp \in 1..MaxWrites /\ Mine(job[i].side, job[i].path)
                       /\ Written(i) \/ job[i].side = "android" => job[i].dest[1] = job[i].path[1]
                       /\ Written(i) /\ job[i].side = "android" => job[i].carries = job[i].stamp)'
    BY DEF JobsPlaced
  <2>1. CASE i = j
    BY <1>2, <2>1 DEF Mine, Written
  <2>2. CASE i # j
    BY <1>3, <2>2 DEF OrderInv, JobsPlaced, Mine, Written
  <2> QED
    BY <2>1, <2>2
<1>8. EntriesPlaced'
  <2>1. ASSUME NEW r \in Sides, NEW q, NEW f, EntryOf(r, q, f) PROVE EntryOf(r, q, f)'
    BY <1>3, <1>5, <2>1 DEF EntryOf, At
  <2>2. ASSUME NEW r \in Sides, NEW q \in DOMAIN seen'[r] PROVE \E f : f = seen'[r][q] /\ EntryOf(r, q, f)'
    <3>1. CASE r = s /\ q = p
      <4>1. PICK f, n : f = seen'[s][p] /\ n = scan.todo[p]
        OBVIOUS
      <4>2. Born(n)'
        BY <1>5, <4>1 DEF OnceInv, StampsBorn
      <4>3. f.job = j /\ f.stamp = n /\ j \in Accepted' /\ job'[j].stamp = n
        BY <1>2, <1>3, <4>1
      <4>4. EntryOf(s, p, f)'
        BY <1>2, <4>1, <4>2, <4>3 DEF EntryOf, At
      <4> QED
        BY <3>1, <4>1, <4>4
    <3>2. CASE ~(r = s /\ q = p)
      BY <2>1, <3>2 DEF OrderInv, EntriesPlaced
    <3> QED
      BY <3>1, <3>2
  <2>3. \A r \in Sides : ~Reconciling(r)'
    BY DEF Reconciling
  <2> QED
    BY <2>2, <2>3, EntriesFrame
<1>9. ListedPlaced'
  <2> SUFFICES ASSUME NEW r \in Sides, NEW q \in Paths, Listing(r, q)'
               PROVE  (/\ r \in based
                       /\ \/ scan.todo[q] \in 1..MaxWrites /\ At(r, q, scan.todo[q]) /\ Mine(r, q)
                          \/ NewOrMarked(r, q))'
    BY DEF ListedPlaced
  <2>1. Listing(r, q) /\ scan'.todo[q] = scan.todo[q] /\ r = s /\ q # p
    BY OneListing
  <2>2. CASE scan.todo[q] \in 1..MaxWrites /\ At(r, q, scan.todo[q]) /\ Mine(r, q)
    BY <2>1, <2>2 DEF OrderInv, ListedPlaced, At, Mine
  <2>3. CASE NewOrMarked(r, q)
    BY <2>1, <2>3 DEF OrderInv, ListedPlaced, NewOrMarked
  <2> QED
    BY <2>1, <2>2, <2>3 DEF OrderInv, ListedPlaced
<1>10. ASSUME NEW i \in Accepted, Held(i) PROVE Held(i)'
  <2>1. ~(job[i].side = s /\ job[i].path = p)
    BY <1>1, <1>10, ObservedEntry
  <2>2. Known(i)'
    BY <1>1, <1>3, <1>10, <2>1 DEF Held, Known
  <2> QED
    BY <1>3, <1>10, <2>2 DEF Held, At
<1>11. OwedHeld'
  <2> SUFFICES ASSUME NEW i \in Owed' PROVE Held(i)'
    BY DEF OwedHeld
  <2>1. CASE i = j
    BY <1>2, <2>1 DEF Held, Known, At
  <2>2. CASE i # j
    BY <1>3, <1>10, <2>2, WrittenJob DEF OrderInv, OwedHeld
  <2> QED
    BY <2>1, <2>2
<1>12. CopiesHeld'
  <2> SUFFICES ASSUME NEW i \in Jobs, Unmarked(i)' PROVE Held(i)' /\ (Watched(i)' => Reached(i)')
    BY DEF CopiesHeld
  <2>1. Written(i) /\ i \in Accepted /\ job'[i] = job[i]
    BY <1>4 DEF Unmarked
  <2>2. Unmarked(i) /\ job[i].side \in Sides /\ Other(job[i].side) \in Sides
    BY <2>1, OrderJob DEF Unmarked, At, CopyStamp
  <2>3. Held(i) /\ (Watched(i) => Reached(i))
    BY <2>2 DEF OrderInv, CopiesHeld
  <2>4. ASSUME Watched(i)' PROVE Reached(i)'
    <3>1. ~(Other(job[i].side) = s /\ job[i].dest = p)
      BY <2>1, <2>2, OrderJob, SidesFacts, NamesApart
    <3>2. Watched(i)
      BY <2>1, <2>2, <2>4, <3>1 DEF Watched, CopyStamp
    <3> QED
      BY <2>1, <2>2, <2>3, <3>2 DEF Reached, Listing, Sides
  <2> QED
    BY <1>10, <2>1, <2>3, <2>4
<1>13. ItemWritten'
  BY DEF ItemWritten
<1> QED
  BY <1>6, <1>7, <1>8, <1>9, <1>11, <1>12, <1>13 DEF OrderInv

LEMMA OrderQueued ==
  ASSUME Typed, Apart, OnceInv, OrderInv, NEW p \in Paths, QueueDownload(p) \/ QueueUpload(p)
  PROVE  OrderInv'
<1>1. CASE QueueDownload(p)
  <2>1. /\ UNCHANGED <<world, clock, folder, processed, based>>
        /\ p \in DOMAIN scan.todo /\ scan.at = "android" /\ Wanted("android", p)
        /\ scan'.at = "android" /\ scan'.todo = Drop(scan.todo, {p})
    BY <1>1 DEF QueueDownload, Handled, Typed, ScanTyped
  <2>2. PICK j \in NextJob, dest \in Resolved(p, folder["pc"], config.policy["android"]) :
            /\ Accept(j, "android", p, scan.todo[p], 0, dest)
            /\ seen' = [seen EXCEPT !["android"] = Put(seen["android"], p, [Observed("android", p) EXCEPT !.job = j])]
    BY <1>1 DEF QueueDownload
  <2>3. PICK e : e = [Observed("android", p) EXCEPT !.job = j]
    OBVIOUS
  <2>4. /\ Observed("android", p) \in Observations /\ Observed("android", p).stamp = scan.todo[p]
        /\ "android" \in Sides
    BY <2>1, ObservedTyped DEF Sides
  <2>5. e.job = j /\ e.stamp = scan.todo[p]
    BY <2>3, <2>4 DEF Observations
  <2>6. /\ p \in DOMAIN seen'["android"] /\ seen'["android"][p] = e
        /\ \A r \in Sides : \A q \in DOMAIN seen[r] :
                 (r = "android" /\ q = p) \/ (q \in DOMAIN seen'[r] /\ seen'[r][q] = seen[r][q])
        /\ \A r \in Sides : \A q \in DOMAIN seen'[r] :
                 (r = "android" /\ q = p) \/ (q \in DOMAIN seen[r] /\ seen'[r][q] = seen[r][q])
    BY <2>2, <2>3, <2>4, SeenPutFacts DEF Typed, SeenTyped, Put
  <2>7. /\ Listing("android", p) /\ "android" \in based /\ scan.todo[p] \in 1..MaxWrites
        /\ At("android", p, scan.todo[p]) /\ Mine("android", p) /\ Observed("android", p).job = NoJob
    BY <2>1, <2>4, WantedIsMine
  <2>8. dest[1] = p[1]
    BY <2>2, ResolvedName
  <2>9. /\ ~Listing("android", p)'
        /\ \A r \in Sides, q \in Paths : Listing(r, q)' => Listing(r, q) /\ scan'.todo[q] = scan.todo[q]
    BY <2>1 DEF Listing, Drop
  <2>10. Accept(j, "android", p, scan.todo[p], 0, dest) /\ j \in NextJob /\ scan'.at \in {"android", "pc"}
    BY <2>1, <2>2
  <2> QED
    BY <2>1, <2>4, <2>5, <2>6, <2>7, <2>8, <2>9, <2>10, OrderAccepted
<1>2. CASE QueueUpload(p)
  <2>1. /\ UNCHANGED <<world, clock, folder, processed, based>>
        /\ scan.at = "spool" /\ scan.item = p /\ p \in DOMAIN scan.todo /\ Continues(p)
    BY <1>2 DEF QueueUpload, Typed, ScanTyped
  <2>2. p \in DOMAIN seen["pc"] /\ seen["pc"][p].job = NoJob /\ seen["pc"][p].stamp = scan.todo[p]
    BY <2>1 DEF OnceInv, SpoolWanted
  <2>3. scan'.at = "pc" /\ scan'.todo = Drop(scan.todo, {p})
    BY <2>1, <2>2 DEF Continues, Typed, ScanTyped
  <2>4. /\ Observed("pc", p) \in Observations /\ Observed("pc", p).stamp = scan.todo[p] /\ Listing("pc", p)
        /\ Observed("pc", p).job = NoJob /\ "pc" \in Sides
    BY <2>1, <2>2, ObservedTyped DEF Listing, Sides
  <2>5. PICK j \in NextJob :
          /\ Accept(j, "pc", p, scan.todo[p], folder["pc"][p].origin, <<>>)
          /\ seen' = Update("pc", p, [Observed("pc", p) EXCEPT !.job = j])
    BY <1>2 DEF QueueUpload
  <2>6. PICK e : e = [Observed("pc", p) EXCEPT !.job = j]
    OBVIOUS
  <2>7. e.job = j /\ e.stamp = scan.todo[p]
    BY <2>4, <2>6 DEF Observations
  <2>8. /\ p \in DOMAIN seen'["pc"] /\ seen'["pc"][p] = e
        /\ \A r \in Sides : \A q \in DOMAIN seen[r] :
                 (r = "pc" /\ q = p) \/ (q \in DOMAIN seen'[r] /\ seen'[r][q] = seen[r][q])
        /\ \A r \in Sides : \A q \in DOMAIN seen'[r] :
                 (r = "pc" /\ q = p) \/ (q \in DOMAIN seen[r] /\ seen'[r][q] = seen[r][q])
    BY <2>2, <2>4, <2>5, <2>6, SeenUpdateFacts
  <2>9. /\ "pc" \in based /\ scan.todo[p] \in 1..MaxWrites
        /\ At("pc", p, scan.todo[p]) /\ Mine("pc", p)
    BY <2>1, <2>4 DEF OrderInv, ListedPlaced, NewOrMarked
  <2>10. /\ ~Listing("pc", p)'
         /\ \A r \in Sides, q \in Paths : Listing(r, q)' => Listing(r, q) /\ scan'.todo[q] = scan.todo[q]
    BY <2>1, <2>3 DEF Listing, Drop, Sides
  <2>11. /\ Accept(j, "pc", p, scan.todo[p], folder["pc"][p].origin, <<>>) /\ j \in NextJob
         /\ scan'.at \in {"android", "pc"} /\ scan'.at # "android" /\ "pc" # "android"
    BY <2>3, <2>5
  <2> QED
    BY <2>1, <2>4, <2>7, <2>8, <2>9, <2>10, <2>11, OrderAccepted
<1> QED
  BY <1>1, <1>2

(* What is delivered is the user's file, and it keeps its name.             *)
LEMMA DeliveryPlaced ==
  ASSUME Typed, OrderInv, NEW j \in Jobs, JobDelivers(j)
  PROVE  \E dest \in Paths, to \in Sides, v \in FolderFiles :
            /\ to = Other(job[j].side) /\ job[j].side = Other(to) /\ v.stamp = CopyStamp(j)
            /\ folder' = [folder EXCEPT ![to] = Put(folder[to], dest, v)]
            /\ job'[j].status = "delivered" /\ job'[j].side = job[j].side /\ job'[j].path = job[j].path
            /\ job'[j].stamp = job[j].stamp /\ job'[j].dest = dest
            /\ \A i \in Jobs : i # j => job'[i] = job[i]
            /\ dest[1] = job[j].path[1]
            /\ job[j].side = "android" => job'[j].carries = job[j].stamp
<1> DEFINE s == job[j].side
           to == Other(s)
           o == IF s = "pc" THEN job[j].carries ELSE folder[s][job[j].path].origin
<1>1. /\ job[j] \in Records /\ RecordTyped(job[j]) /\ j \in Owed /\ job \in [Jobs -> Records]
      /\ j \in Accepted
  BY WrittenJob DEF Typed, JobDelivers
<1>2. s \in Sides /\ to \in Sides /\ s = Other(to) /\ job[j].path \in Paths
  BY <1>1, OrderJob, SidesFacts
<1>3. PICK dest \in IF s = "pc" THEN Resolved(job[j].path, folder[to], config.policy[s]) ELSE {job[j].dest} :
           /\ s = "android" => job[j].path \in DOMAIN folder[s]
           /\ folder' = [folder EXCEPT ![to] = Put(folder[to], dest, [stamp |-> CopyStamp(j), origin |-> o])]
           /\ job' = [job EXCEPT ![j].status = "delivered", ![j].dest = dest, ![j].carries = o]
  BY DEF JobDelivers
<1>4. dest \in Paths
  BY <1>1, <1>2, <1>3, ResolvedTyped DEF RecordTyped, Sides, Owed
<1>5. dest[1] = job[j].path[1]
  BY <1>1, <1>2, <1>3, ResolvedName DEF OrderInv, JobsPlaced, Sides
<1>6. s = "android" => o = job[j].stamp
  <2> SUFFICES ASSUME s = "android" PROVE folder[s][job[j].path].origin = job[j].stamp
    OBVIOUS
  <2>1. At(s, job[j].path, job[j].stamp) /\ job[j].stamp \in 1..MaxWrites
    BY <1>1 DEF OrderInv, OwedHeld, Held, JobsPlaced
  <2> QED
    BY <1>2, <2>1, StampBounds, Bounds DEF OrderInv, FilesPlaced, At
<1>7. PICK q, r : q = job[j] /\ r = [q EXCEPT !.status = "delivered", !.dest = dest, !.carries = o]
  OBVIOUS
<1>8. job' = [job EXCEPT ![j] = r]
  BY <1>1, <1>3, <1>7
<1>9. /\ r.side = q.side /\ r.path = q.path /\ r.stamp = q.stamp /\ r.status = "delivered" /\ r.dest = dest
      /\ r.carries = o
  BY <1>1, <1>7 DEF Records
<1>10. PICK v : v = [stamp |-> CopyStamp(j), origin |-> o]
  OBVIOUS
<1>11. v.stamp = CopyStamp(j) /\ v \in FolderFiles
  <2>1. o \in 1..MaxWrites
    BY <1>1, <1>2, <1>3 DEF RecordTyped, Sides, Typed, FolderTyped, IsTable, FolderFiles, Owed
  <2> QED
    BY <1>10, <2>1, StampBounds DEF FolderFiles
<1>12. /\ job'[j].status = "delivered" /\ job'[j].side = job[j].side /\ job'[j].path = job[j].path
       /\ job'[j].stamp = job[j].stamp /\ job'[j].dest = dest /\ job'[j].carries = o
       /\ \A i \in Jobs : i # j => job'[i] = job[i]
  BY <1>1, <1>7, <1>8, <1>9
<1>13. PICK t : t = to
  OBVIOUS
<1>14. /\ t \in Sides /\ t = Other(job[j].side) /\ job[j].side = Other(t)
       /\ folder' = [folder EXCEPT ![t] = Put(folder[t], dest, v)]
  BY <1>2, <1>3, <1>10, <1>13
<1>15. job[j].side = "android" => job'[j].carries = job[j].stamp
  BY <1>6, <1>12
<1> HIDE DEF s, to, o
<1> QED
  BY <1>4, <1>5, <1>11, <1>12, <1>14, <1>15

(* A delivery: the transfer is known, so the new copy will be marked before *)
(* it is listed twice.                                                      *)
LEMMA OrderDelivers ==
  ASSUME Typed, Apart, OnceInv, OrderInv, NEW j \in Jobs, JobDelivers(j)
  PROVE  OrderInv'
<1>1. UNCHANGED <<world, seen, processed, based, scan, clock>> /\ j \in Owed /\ j \in Accepted
  BY WrittenJob DEF JobDelivers, memory
<1>2. PICK dest \in Paths, to \in Sides, v \in FolderFiles :
            /\ to = Other(job[j].side) /\ job[j].side = Other(to) /\ v.stamp = CopyStamp(j)
            /\ folder' = [folder EXCEPT ![to] = Put(folder[to], dest, v)]
            /\ job'[j].status = "delivered" /\ job'[j].side = job[j].side /\ job'[j].path = job[j].path
            /\ job'[j].stamp = job[j].stamp /\ job'[j].dest = dest
            /\ \A i \in Jobs : i # j => job'[i] = job[i]
            /\ dest[1] = job[j].path[1]
            /\ job[j].side = "android" => job'[j].carries = job[j].stamp
  BY DeliveryPlaced
<1>3. /\ \A i \in Jobs : job'[i].side = job[i].side /\ job'[i].path = job[i].path /\ job'[i].stamp = job[i].stamp
      /\ Accepted' = Accepted /\ Owed' = Owed \ {j} /\ Written(j)' /\ ~Written(j)
      /\ \A k \in Jobs : Written(k) => Written(k)' /\ k # j /\ job'[k] = job[k]
      /\ \A k \in Jobs : Written(k)' => k = j \/ (Written(k) /\ job'[k] = job[k])
  <2>1. job[j].status = "owed"
    BY <1>1 DEF Owed
  <2> QED
    BY <1>2, <2>1 DEF Accepted, Owed, Written
<1>4. ~Born(CopyStamp(j))
  <2>1. ~(CopyStamp(j) \in 1..clock)
    BY StampBounds, Bounds DEF Typed
  <2> QED
    BY <1>3, <2>1, StampBounds DEF Born, Written
<1>5. \A n : Born(n) => Born(n)'
  BY <1>1, <1>3, BornMore DEF Written
<1>6. /\ \A r \in Sides : \A q, n : At(r, q, n) /\ ~(r = to /\ q = dest) => At(r, q, n)'
      /\ \A r \in Sides : \A q, n : At(r, q, n)' => At(r, q, n) \/ (r = to /\ q = dest /\ n = CopyStamp(j))
      /\ At(to, dest, CopyStamp(j))'
      /\ \A r \in Sides : \A q \in DOMAIN folder'[r] :
            \/ r = to /\ q = dest /\ folder'[r][q] = v
            \/ q \in DOMAIN folder[r] /\ folder'[r][q] = folder[r][q]
  BY <1>2 DEF Typed, FolderTyped, Put, At
<1>7. \A q : Mine(to, q) => q # dest
  <2>1. Mine(Other(to), dest)
    BY <1>1, <1>2, OrderJob DEF Mine
  <2> QED
    BY <2>1, NamesApart
<1>8. \A r, q : Mine(r, q)' <=> Mine(r, q)
  BY <1>1 DEF Mine
<1>9. \A i \in Accepted : Held(i) => Held(i)'
  <2> SUFFICES ASSUME NEW i \in Accepted, Held(i) PROVE Held(i)'
    OBVIOUS
  <2>1. i \in Jobs /\ job[i].side \in Sides /\ Mine(job[i].side, job[i].path)
    BY OrderJob
  <2>2. At(job[i].side, job[i].path, job[i].stamp)'
    <3>1. PICK r, q, n : r = job[i].side /\ q = job[i].path /\ n = job[i].stamp
      OBVIOUS
    <3>2. At(r, q, n)'
      BY <1>6, <1>7, <2>1, <3>1 DEF Held
    <3> QED
      BY <1>3, <2>1, <3>1, <3>2 DEF At
  <2>3. Known(i)'
    BY <1>1, <1>3, <2>1 DEF Held, Known
  <2> QED
    BY <1>1, <1>3, <2>1, <2>2, <2>3 DEF Held
<1>10. \A i \in Jobs : i # j /\ Unmarked(i)' => Unmarked(i) /\ i \in Accepted /\ job'[i] = job[i]
  <2> SUFFICES ASSUME NEW i \in Jobs, i # j, Unmarked(i)' PROVE Unmarked(i) /\ i \in Accepted /\ job'[i] = job[i]
    OBVIOUS
  <2>1. Written(i) /\ job'[i] = job[i] /\ i \in Accepted
    BY <1>2, <1>3, WrittenJob DEF Unmarked
  <2>2. PICK r, q, n : r = Other(job[i].side) /\ q = job[i].dest /\ n = CopyStamp(i)
    OBVIOUS
  <2>3. At(r, q, n)' /\ <<q, n>> \notin processed[r] /\ r \in Sides /\ n # CopyStamp(j)
    BY <1>1, <2>1, <2>2, OrderJob, StampBounds DEF Unmarked, CopyStamp
  <2>4. At(r, q, n)
    BY <1>6, <2>3
  <2> QED
    BY <2>1, <2>2, <2>3, <2>4 DEF Unmarked
<1>11. FilesPlaced'
  <2> SUFFICES ASSUME NEW s \in Sides, NEW q \in DOMAIN folder'[s]
               PROVE  (\/ folder[s][q].stamp \in 1..MaxWrites /\ folder[s][q].origin = folder[s][q].stamp /\ Mine(s, q)
                       \/ \E k \in Jobs : folder[s][q].stamp = CopyStamp(k) /\ CopyOf(k, s, q))'
    BY DEF FilesPlaced
  <2>1. CASE s = to /\ q = dest /\ folder'[s][q] = v
    <3>1. CopyOf(j, to, dest)'
      BY <1>2, <1>3 DEF CopyOf
    <3> QED
      BY <1>2, <2>1, <3>1 DEF CopyStamp
  <2>2. CASE q \in DOMAIN folder[s] /\ folder'[s][q] = folder[s][q]
    <3>1. \/ folder[s][q].stamp \in 1..MaxWrites /\ folder[s][q].origin = folder[s][q].stamp /\ Mine(s, q)
          \/ \E k \in Jobs : folder[s][q].stamp = CopyStamp(k) /\ CopyOf(k, s, q)
      BY <2>2 DEF OrderInv, FilesPlaced
    <3> QED
      BY <1>3, <1>8, <2>2, <3>1 DEF CopyOf, CopyStamp
  <2> QED
    BY <1>6, <2>1, <2>2
<1>12. JobsPlaced'
  <2> SUFFICES ASSUME NEW i \in Accepted
               PROVE  (/\ job[i].stamp \in 1..MaxWrites /\ Mine(job[i].side, job[i].path)
                       /\ Written(i) \/ job[i].side = "android" => job[i].dest[1] = job[i].path[1]
                       /\ Written(i) /\ job[i].side = "android" => job[i].carries = job[i].stamp)'
    BY <1>3 DEF JobsPlaced
  <2>1. CASE i = j
    <3>1. job[j].stamp \in 1..MaxWrites /\ Mine(job[j].side, job[j].path)
      BY <1>1, OrderJob
    <3>2. job'[j].stamp \in 1..MaxWrites /\ Mine(job[j].side, job[j].path)' /\ job'[j].dest[1] = job'[j].path[1]
      BY <1>1, <1>2, <3>1 DEF Mine
    <3> QED
      BY <1>1, <1>2, <2>1, <3>1, <3>2 DEF Mine
  <2>2. CASE i # j
    <3>1. job'[i] = job[i]
      BY <1>2, <2>2, OrderJob
    <3> QED
      BY <1>8, <3>1 DEF OrderInv, JobsPlaced, Mine, Written
  <2> QED
    BY <2>1, <2>2
<1>13. EntriesPlaced'
  <2>1. ASSUME NEW r \in Sides, NEW q, NEW f, EntryOf(r, q, f) PROVE EntryOf(r, q, f)'
    <3>1. ASSUME f.job # NoJob, r = "android", ~f.tried PROVE At(r, q, f.stamp)'
      <4>1. At(r, q, f.stamp) /\ Mine(r, q)
        BY <2>1, <3>1, OrderJob DEF EntryOf
      <4> QED
        BY <1>6, <1>7, <4>1
    <3>2. f.job # NoJob => f.job \in Accepted /\ f.job \in Jobs
      BY <2>1, OrderJob DEF EntryOf
    <3> QED
      BY <1>3, <1>5, <2>1, <3>1, <3>2 DEF EntryOf
  <2>2. \A r \in Sides : \A q \in DOMAIN seen'[r] : \E f : f = seen'[r][q] /\ EntryOf(r, q, f)'
    BY <1>1, <2>1 DEF OrderInv, EntriesPlaced
  <2>3. \A r \in Sides : Reconciling(r)' => \A q \in DOMAIN scan'.todo : \E f : f = scan'.todo[q] /\ EntryOf(r, q, f)'
    BY <1>1, <2>1 DEF OrderInv, EntriesPlaced, Reconciling
  <2> QED
    BY <2>2, <2>3, EntriesFrame
<1>14. ListedPlaced'
  <2> SUFFICES ASSUME NEW r \in Sides, NEW q \in Paths, Listing(r, q)'
               PROVE  (/\ r \in based
                       /\ \/ scan.todo[q] \in 1..MaxWrites /\ At(r, q, scan.todo[q]) /\ Mine(r, q)
                          \/ NewOrMarked(r, q))'
    BY DEF ListedPlaced
  <2>1. Listing(r, q) /\ scan' = scan
    BY <1>1 DEF Listing
  <2>2. CASE scan.todo[q] \in 1..MaxWrites /\ At(r, q, scan.todo[q]) /\ Mine(r, q)
    <3>1. PICK n : n = scan.todo[q]
      OBVIOUS
    <3>2. At(r, q, n)'
      BY <1>6, <1>7, <2>2, <3>1
    <3>3. At(r, q, scan.todo[q])'
      BY <2>1, <3>1, <3>2 DEF At
    <3> QED
      BY <1>1, <1>8, <2>1, <2>2, <3>3 DEF OrderInv, ListedPlaced
  <2>3. CASE NewOrMarked(r, q)
    BY <1>1, <2>1, <2>3 DEF OrderInv, ListedPlaced, NewOrMarked
  <2> QED
    BY <2>1, <2>2, <2>3 DEF OrderInv, ListedPlaced
<1>15. OwedHeld'
  BY <1>3, <1>9, WrittenJob DEF OrderInv, OwedHeld
<1>16. CopiesHeld'
  <2> SUFFICES ASSUME NEW i \in Jobs, Unmarked(i)' PROVE Held(i)' /\ (Watched(i)' => Reached(i)')
    BY DEF CopiesHeld
  <2>1. CASE i = j
    <3>1. Held(j)'
      BY <1>1, <1>9 DEF OrderInv, OwedHeld
    <3>2. ~Watched(j)'
      <4>1. ASSUME dest \in DOMAIN seen[to], seen[to][dest].stamp = CopyStamp(j) PROVE FALSE
        BY <1>4, <4>1 DEF OrderInv, EntriesPlaced, EntryOf
      <4> QED
        BY <1>1, <1>2, <4>1 DEF Watched, CopyStamp
    <3> QED
      BY <2>1, <3>1, <3>2
  <2>2. CASE i # j
    <3>1. Unmarked(i) /\ i \in Accepted /\ job'[i] = job[i]
      BY <1>10, <2>2
    <3>2. Held(i) /\ (Watched(i) => Reached(i))
      BY <3>1 DEF OrderInv, CopiesHeld
    <3>3. (Watched(i)' <=> Watched(i)) /\ (Reached(i)' <=> Reached(i))
      BY <1>1, <3>1 DEF Watched, Reached, ToReconcile, CopyStamp
    <3> QED
      BY <1>9, <3>1, <3>2, <3>3
  <2> QED
    BY <2>1, <2>2
<1>17. ItemWritten'
  <2> SUFFICES ASSUME scan.at \in {"remove", "stat"}
               PROVE  (LET i == scan.todo[scan.item].job IN
                       Written(i) /\ (scan.at = "remove" => ~Unmarked(i) /\ ~scan.todo[scan.item].tried))'
    BY <1>1 DEF ItemWritten
  <2>1. PICK i : i = scan.todo[scan.item].job
    OBVIOUS
  <2>2. i \in Jobs
    BY <2>1, TodoTyped DEF Typed, ScanTyped
  <2>3. Written(i) /\ (scan.at = "remove" => ~Unmarked(i) /\ ~scan.todo[scan.item].tried)
    BY <2>1 DEF OrderInv, ItemWritten
  <2>4. Written(i)' /\ i # j
    BY <1>3, <2>2, <2>3
  <2>5. Unmarked(i)' => Unmarked(i)
    BY <1>10, <2>2, <2>4
  <2>6. scan'.todo[scan'.item].job = i /\ scan' = scan
    BY <1>1, <2>1
  <2>7. Written(scan.todo[scan.item].job)'
    BY <2>4, <2>6 DEF Written
  <2>8. Unmarked(scan.todo[scan.item].job)' => Unmarked(i)'
    BY <2>6 DEF Unmarked, Written, At, CopyStamp
  <2> QED
    BY <2>3, <2>5, <2>6, <2>7, <2>8
<1> QED
  BY <1>11, <1>12, <1>13, <1>14, <1>15, <1>16, <1>17 DEF OrderInv

(* Transfers stop, and a scan may be cancelled.                             *)
LEMMA OrderStopped ==
  ASSUME Typed, OrderInv, UNCHANGED <<world, folder, seen, processed, based, clock>>,
         scan' = scan \/ scan' = Idle,
         \A i \in Jobs : /\ job'[i].side = job[i].side /\ job'[i].path = job[i].path
                         /\ job'[i].stamp = job[i].stamp /\ job'[i].dest = job[i].dest
                         /\ job'[i].carries = job[i].carries
                         /\ job'[i].status = "none" <=> job[i].status = "none"
                         /\ job'[i].status = "delivered" <=> job[i].status = "delivered"
                         /\ job'[i].status = "owed" => job[i].status = "owed"
  PROVE  OrderInv'
<1>1. /\ Accepted' = Accepted /\ \A i : i \in Owed' => i \in Owed
      /\ \A n : Born(n)' <=> Born(n)
      /\ \A i \in Jobs : Written(i)' <=> Written(i)
      /\ \A i \in Accepted : i \in Jobs
      /\ \A r, q, n : At(r, q, n)' <=> At(r, q, n)
      /\ \A r, q : Mine(r, q)' <=> Mine(r, q)
  BY DEF Accepted, Owed, Born, CopyStamp, Written, At, Mine
<1>2. FilesPlaced'
  BY <1>1 DEF OrderInv, FilesPlaced, CopyOf, CopyStamp
<1>3. JobsPlaced'
  BY <1>1 DEF OrderInv, JobsPlaced, Mine
<1>4. EntriesPlaced'
  <2>1. ASSUME NEW r, NEW q, NEW f, EntryOf(r, q, f) PROVE EntryOf(r, q, f)'
    BY <1>1, <2>1 DEF EntryOf
  <2>2. \A r \in Sides : \A q \in DOMAIN seen'[r] : \E f : f = seen'[r][q] /\ EntryOf(r, q, f)'
    BY <2>1 DEF OrderInv, EntriesPlaced
  <2>3. \A r \in Sides : Reconciling(r)' => \A q \in DOMAIN scan'.todo : \E f : f = scan'.todo[q] /\ EntryOf(r, q, f)'
    BY <2>1 DEF OrderInv, EntriesPlaced, Reconciling, Idle
  <2> QED
    BY <2>2, <2>3, EntriesFrame
<1>5. ListedPlaced'
  <2>1. CASE scan' = scan
    BY <2>1 DEF OrderInv, ListedPlaced, NewOrMarked, Listing, At, Mine
  <2>2. CASE scan' = Idle
    BY <2>2, NotListing DEF Idle
  <2> QED
    BY <2>1, <2>2
<1>6. \A i \in Jobs : /\ Held(i) => Held(i)'
                      /\ Unmarked(i)' => Unmarked(i)
                      /\ Watched(i)' => Watched(i)
  BY <1>1 DEF Held, Known, At, Unmarked, Watched, CopyStamp
<1>7. OwedHeld'
  BY <1>1, <1>6, WrittenJob DEF OrderInv, OwedHeld
<1>8. CopiesHeld'
  <2> SUFFICES ASSUME NEW i \in Jobs, Unmarked(i)' PROVE Held(i)' /\ (Watched(i)' => Reached(i)')
    BY DEF CopiesHeld
  <2>1. Unmarked(i) /\ Held(i) /\ (Watched(i)' => Reached(i))
    BY <1>6 DEF OrderInv, CopiesHeld
  <2>2. Reached(i) => Reached(i)'
    BY DEF Reached, ToReconcile, Idle
  <2> QED
    BY <1>6, <2>1, <2>2
<1>9. ItemWritten'
  <2>1. CASE scan' = Idle
    BY <2>1 DEF ItemWritten, Idle
  <2>2. CASE scan' = scan /\ scan.at \in {"remove", "stat"}
    <3>1. PICK i : i = scan.todo[scan.item].job
      OBVIOUS
    <3>2. i \in Jobs
      BY <2>2, <3>1, TodoTyped DEF Typed, ScanTyped
    <3>3. Written(i) /\ (scan.at = "remove" => ~Unmarked(i) /\ ~scan.todo[scan.item].tried)
      BY <2>2, <3>1 DEF OrderInv, ItemWritten
    <3>4. Written(i)' /\ (Unmarked(i)' => Unmarked(i)) /\ scan'.todo[scan'.item].job = i
      BY <1>1, <1>6, <2>2, <3>1, <3>2, <3>3
    <3>5. Written(scan.todo[scan.item].job)'
      BY <3>4 DEF Written
    <3>6. Unmarked(scan.todo[scan.item].job)' => Unmarked(i)'
      BY <3>4 DEF Unmarked, Written, At, CopyStamp
    <3> QED
      BY <2>2, <3>3, <3>4, <3>5, <3>6 DEF ItemWritten
  <2>3. CASE scan' = scan /\ scan.at \notin {"remove", "stat"}
    BY <2>3 DEF ItemWritten
  <2> QED
    BY <2>1, <2>2, <2>3
<1> QED
  BY <1>2, <1>3, <1>4, <1>5, <1>7, <1>8, <1>9 DEF OrderInv

LEMMA OrderEnds ==
  ASSUME Calm, Typed, OrderInv, (\E j \in Jobs : JobStops(j)) \/ Close \/ Crash \/ Start \/ UNCHANGED vars
  PROVE  OrderInv'
<1>0. /\ ~Crash /\ job \in [Jobs -> Records]
  BY DEF Crash, Calm, Typed
<1>1. /\ UNCHANGED <<world, folder, seen, processed, based, clock>> /\ (scan' = scan \/ scan' = Idle)
      /\ \A i \in Jobs : job'[i] = job[i] \/ (i \in Owed /\ job'[i] = [job[i] EXCEPT !.status = "stopped"])
  <2>1. CASE \E j \in Jobs : JobStops(j)
    BY <1>0, <2>1 DEF JobStops, memory
  <2>2. CASE Close
    BY <1>0, <2>2 DEF Close, Interrupted, memory
  <2>3. CASE Start \/ UNCHANGED vars
    BY <1>0, <2>3 DEF Start, Loaded, Calm, vars, memory
  <2> QED
    BY <1>0, <2>1, <2>2, <2>3
<1>2. ASSUME NEW i \in Jobs
      PROVE  /\ job'[i].side = job[i].side /\ job'[i].path = job[i].path
             /\ job'[i].stamp = job[i].stamp /\ job'[i].dest = job[i].dest
             /\ job'[i].carries = job[i].carries
             /\ job'[i].status = "none" <=> job[i].status = "none"
             /\ job'[i].status = "delivered" <=> job[i].status = "delivered"
             /\ job'[i].status = "owed" => job[i].status = "owed"
  <2>1. CASE job'[i] = job[i]
    BY <2>1
  <2>2. CASE i \in Owed /\ job'[i] = [job[i] EXCEPT !.status = "stopped"]
    <3>1. PICK q : q = job[i]
      OBVIOUS
    <3>2. q \in Records /\ q.status = "owed" /\ job'[i] = [q EXCEPT !.status = "stopped"]
      BY <1>0, <2>2, <3>1 DEF Owed
    <3>3. /\ job'[i].side = q.side /\ job'[i].path = q.path /\ job'[i].stamp = q.stamp
          /\ job'[i].dest = q.dest /\ job'[i].carries = q.carries /\ job'[i].status = "stopped"
      BY <3>2 DEF Records
    <3> QED
      BY <3>1, <3>2, <3>3
  <2> QED
    BY <1>1, <2>1, <2>2
<1> QED
  BY <1>1, <1>2, OrderStopped

(* The user writes a new file; the time passes.                             *)
LEMMA OrderUser ==
  ASSUME Calm, Typed, OnceInv, OrderInv, NEW s \in Sides, NEW p \in Paths,
         UserWrites(s, p) \/ UserRemoves(s, p) \/ TimePasses(s, p)
  PROVE  OrderInv'
<1>1. ~UserRemoves(s, p)
  BY DEF UserRemoves, Calm
<1>2. CASE UserWrites(s, p)
  <2>1. PICK n, v : n = clock + 1 /\ v = [stamp |-> n, origin |-> n]
    OBVIOUS
  <2>2. /\ folder' = [folder EXCEPT ![s] = Put(folder[s], p, v)] /\ clock < MaxWrites /\ clock' = n
        /\ UNCHANGED <<world, seen, processed, based, scan, job>>
        /\ p \in world.paths[s] /\ p \notin DOMAIN folder[s]
    BY <1>2, <2>1 DEF UserWrites, memory, Calm
  <2>3. clock \in Nat /\ MaxWrites \in Nat
    BY Bounds DEF Typed
  <2>4. n \in 1..MaxWrites /\ Mine(s, p) /\ v.stamp = n /\ v.origin = n /\ \A i \in Jobs : n # CopyStamp(i)
    BY <2>1, <2>2, <2>3, StampBounds DEF Mine
  <2>5. \A m : Born(m) => Born(m)'
    <3>1. \A m \in 1..clock : m \in 1..clock'
      BY <2>1, <2>2, <2>3
    <3> QED
      BY <2>2, <3>1 DEF Born, CopyStamp
  <2>6. /\ \A r \in Sides : \A q, m : At(r, q, m) => At(r, q, m)'
        /\ \A r \in Sides : \A q, m : At(r, q, m)' => At(r, q, m) \/ m = n
        /\ \A r \in Sides : \A q \in DOMAIN folder'[r] :
              \/ r = s /\ q = p /\ folder'[r][q] = v
              \/ q \in DOMAIN folder[r] /\ folder'[r][q] = folder[r][q]
    BY <2>2, <2>4 DEF Typed, FolderTyped, Put, At
  <2>7. /\ Accepted' = Accepted /\ Owed' = Owed
        /\ \A i : (Written(i)' <=> Written(i)) /\ (Known(i)' <=> Known(i)) /\ (Watched(i)' <=> Watched(i))
        /\ \A r, q : Mine(r, q)' <=> Mine(r, q)
        /\ \A i : Reached(i)' <=> Reached(i)
    BY <2>2 DEF Accepted, Owed, Written, Known, Watched, Mine, CopyStamp, Reached, ToReconcile
  <2>8. \A i \in Accepted : Held(i) => Held(i)'
    <3> SUFFICES ASSUME NEW i \in Accepted, Held(i) PROVE Held(i)'
      OBVIOUS
    <3>1. PICK r, q, m : r = job[i].side /\ q = job[i].path /\ m = job[i].stamp
      OBVIOUS
    <3>2. At(r, q, m)'
      BY <2>6, <3>1, OrderJob DEF Held
    <3> QED
      BY <2>2, <2>7, <3>1, <3>2 DEF Held, At
  <2>9. \A i \in Jobs : Unmarked(i)' => Unmarked(i)
    <3> SUFFICES ASSUME NEW i \in Jobs, Unmarked(i)' PROVE Unmarked(i)
      OBVIOUS
    <3>1. PICK r, q, m : r = Other(job[i].side) /\ q = job[i].dest /\ m = CopyStamp(i)
      OBVIOUS
    <3>2. Written(i) /\ i \in Accepted /\ r \in Sides /\ m # n
      BY <2>4, <2>7, <3>1, WrittenJob, OrderJob DEF Unmarked
    <3>3. At(r, q, m)' /\ <<q, m>> \notin processed[r]
      BY <2>2, <3>1 DEF Unmarked, At, CopyStamp
    <3>4. At(r, q, m)
      BY <2>6, <3>2, <3>3
    <3> QED
      BY <3>1, <3>2, <3>3, <3>4 DEF Unmarked
  <2>10. FilesPlaced'
    <3> SUFFICES ASSUME NEW r \in Sides, NEW q \in DOMAIN folder'[r]
                 PROVE  (\/ folder[r][q].stamp \in 1..MaxWrites /\ folder[r][q].origin = folder[r][q].stamp /\ Mine(r, q)
                         \/ \E k \in Jobs : folder[r][q].stamp = CopyStamp(k) /\ CopyOf(k, r, q))'
      BY DEF FilesPlaced
    <3>1. CASE r = s /\ q = p /\ folder'[r][q] = v
      BY <2>4, <2>7, <3>1
    <3>2. CASE q \in DOMAIN folder[r] /\ folder'[r][q] = folder[r][q]
      <4>1. \/ folder[r][q].stamp \in 1..MaxWrites /\ folder[r][q].origin = folder[r][q].stamp /\ Mine(r, q)
            \/ \E k \in Jobs : folder[r][q].stamp = CopyStamp(k) /\ CopyOf(k, r, q)
        BY <3>2 DEF OrderInv, FilesPlaced
      <4> QED
        BY <2>2, <2>7, <3>2, <4>1 DEF CopyOf, CopyStamp
    <3> QED
      BY <2>6, <3>1, <3>2
  <2>11. JobsPlaced'
    BY <2>2, <2>7 DEF OrderInv, JobsPlaced, Mine
  <2>12. EntriesPlaced'
    <3>1. ASSUME NEW r \in Sides, NEW q, NEW f, EntryOf(r, q, f) PROVE EntryOf(r, q, f)'
      BY <2>2, <2>5, <2>6, <2>7, <3>1 DEF EntryOf
    <3>2. \A r \in Sides : \A q \in DOMAIN seen'[r] : \E f : f = seen'[r][q] /\ EntryOf(r, q, f)'
      BY <2>2, <3>1 DEF OrderInv, EntriesPlaced
    <3>3. \A r \in Sides : Reconciling(r)' => \A q \in DOMAIN scan'.todo : \E f : f = scan'.todo[q] /\ EntryOf(r, q, f)'
      BY <2>2, <3>1 DEF OrderInv, EntriesPlaced, Reconciling
    <3> QED
      BY <3>2, <3>3, EntriesFrame
  <2>13. ListedPlaced'
    <3> SUFFICES ASSUME NEW r \in Sides, NEW q \in Paths, Listing(r, q)'
                 PROVE  (/\ r \in based
                         /\ \/ scan.todo[q] \in 1..MaxWrites /\ At(r, q, scan.todo[q]) /\ Mine(r, q)
                            \/ NewOrMarked(r, q))'
      BY DEF ListedPlaced
    <3>1. Listing(r, q)
      BY <2>2 DEF Listing
    <3>2. CASE scan.todo[q] \in 1..MaxWrites /\ At(r, q, scan.todo[q]) /\ Mine(r, q)
      <4>1. PICK m : m = scan.todo[q]
        OBVIOUS
      <4>2. At(r, q, m)'
        BY <2>6, <3>2, <4>1
      <4>3. At(r, q, scan.todo[q])'
        BY <2>2, <4>1, <4>2 DEF At
      <4> QED
        BY <2>2, <2>7, <3>1, <3>2, <4>3 DEF OrderInv, ListedPlaced
    <3>3. CASE NewOrMarked(r, q)
      BY <2>2, <3>1, <3>3 DEF OrderInv, ListedPlaced, NewOrMarked
    <3> QED
      BY <3>1, <3>2, <3>3 DEF OrderInv, ListedPlaced
  <2>14. OwedHeld'
    BY <2>7, <2>8, WrittenJob DEF OrderInv, OwedHeld
  <2>15. CopiesHeld'
    <3> SUFFICES ASSUME NEW i \in Jobs, Unmarked(i)' PROVE Held(i)' /\ (Watched(i)' => Reached(i)')
      BY DEF CopiesHeld
    <3>1. Unmarked(i) /\ Held(i) /\ (Watched(i) => Reached(i)) /\ i \in Accepted
      BY <2>9, WrittenJob DEF OrderInv, CopiesHeld
    <3> QED
      BY <2>7, <2>8, <3>1
  <2>16. ItemWritten'
    <3> SUFFICES ASSUME scan.at \in {"remove", "stat"}
                 PROVE  (LET i == scan.todo[scan.item].job IN
                         Written(i) /\ (scan.at = "remove" => ~Unmarked(i) /\ ~scan.todo[scan.item].tried))'
      BY <2>2 DEF ItemWritten
    <3>1. PICK i : i = scan.todo[scan.item].job
      OBVIOUS
    <3>2. i \in Jobs
      BY <3>1, TodoTyped DEF Typed, ScanTyped
    <3>3. Written(i) /\ (scan.at = "remove" => ~Unmarked(i) /\ ~scan.todo[scan.item].tried)
      BY <3>1 DEF OrderInv, ItemWritten
    <3>4. Written(i)' /\ (Unmarked(i)' => Unmarked(i)) /\ scan'.todo[scan'.item].job = i /\ scan' = scan
      BY <2>2, <2>7, <2>9, <3>1, <3>2, <3>3
    <3>5. Written(scan.todo[scan.item].job)'
      BY <3>4 DEF Written
    <3>6. Unmarked(scan.todo[scan.item].job)' => Unmarked(i)'
      BY <3>4 DEF Unmarked, Written, At, CopyStamp
    <3> QED
      BY <3>3, <3>4, <3>5, <3>6
  <2> QED
    BY <2>10, <2>11, <2>12, <2>13, <2>14, <2>15, <2>16 DEF OrderInv
<1>3. CASE TimePasses(s, p)
  <2>1. PICK e, g : e = seen[s][p] /\ g = [e EXCEPT !.waits = FALSE]
    OBVIOUS
  <2>2. /\ seen' = [seen EXCEPT ![s][p] = g] /\ p \in DOMAIN seen[s]
        /\ UNCHANGED <<world, clock, processed, based, scan, job, folder>> /\ e \in Observations
    BY <1>3, <2>1 DEF TimePasses, Typed, SeenTyped, IsTable
  <2>3. g.job = e.job /\ g.stamp = e.stamp /\ g.tried = e.tried
    BY <2>1, <2>2 DEF Observations
  <2>4. \A r \in Sides : /\ DOMAIN seen'[r] = DOMAIN seen[r]
                         /\ \A q \in DOMAIN seen[r] : seen'[r][q].job = seen[r][q].job
                               /\ seen'[r][q].stamp = seen[r][q].stamp /\ seen'[r][q].tried = seen[r][q].tried
    BY <2>1, <2>2, <2>3 DEF Typed, SeenTyped
  <2>5. EntriesPlaced'
    <3>1. ASSUME NEW r \in Sides, NEW q \in DOMAIN seen'[r] PROVE \E f : f = seen'[r][q] /\ EntryOf(r, q, f)'
      <4>1. PICK f, h : f = seen'[r][q] /\ h = seen[r][q]
        OBVIOUS
      <4>2. EntryOf(r, q, h) /\ f.job = h.job /\ f.stamp = h.stamp /\ f.tried = h.tried
        BY <2>4, <3>1, <4>1 DEF OrderInv, EntriesPlaced
      <4>3. EntryOf(r, q, f)
        BY <4>2 DEF EntryOf
      <4> QED
        BY <2>2, <4>1, <4>3, EntrySame
    <3>2. \A r \in Sides : Reconciling(r)' => \A q \in DOMAIN scan'.todo : \E f : f = scan'.todo[q] /\ EntryOf(r, q, f)'
      BY <2>2, EntrySame DEF OrderInv, EntriesPlaced, Reconciling
    <3> QED
      BY <3>1, <3>2, EntriesFrame
  <2>6. ListedPlaced'
    BY <2>2, <2>4 DEF OrderInv, ListedPlaced, NewOrMarked, Listing, At, Mine
  <2>7. ItemWritten'
    BY <2>2 DEF OrderInv, ItemWritten, Unmarked, Written, At, CopyStamp
  <2>8. \A j \in Accepted : Known(j) => Known(j)'
    BY <2>2, <2>4, JobFacts DEF Known
  <2>9. \A j \in Accepted : Unmarked(j) /\ Watched(j)' => Reached(j)'
    <3> SUFFICES ASSUME NEW j \in Accepted, Unmarked(j), Watched(j)' PROVE Reached(j)'
      OBVIOUS
    <3>1. j \in Jobs /\ Other(job[j].side) \in Sides
      BY OrderJob
    <3>2. Watched(j)
      BY <2>2, <2>4, <3>1 DEF Watched, CopyStamp
    <3>3. Reached(j)
      BY <3>1, <3>2 DEF OrderInv, CopiesHeld
    <3> QED
      BY <2>2, <3>3 DEF Reached, ToReconcile
  <2> QED
    BY <2>2, <2>5, <2>6, <2>7, <2>8, <2>9, OrderFrame
<1> QED
  BY <1>1, <1>2, <1>3

(* A configuration that is reset has nothing to take in; a history that is  *)
(* cleared before there were files is empty.                                *)
LEMMA OrderReset ==
  ASSUME Calm, Typed, OnceInv, OrderInv, (\E c \in Configs : Configure(c)) \/ ClearHistory, past'.forgotten = {}
  PROVE  OrderInv'
<1>1. Quiet /\ UNCHANGED <<world, job, clock, folder, scan>>
  BY DEF Configure, ClearHistory, CanForget, Calm
<1>2. /\ Accepted' = Accepted /\ Owed' = {}
  BY <1>1 DEF Accepted, Owed, Quiet
<1>3. FilesPlaced'
  BY <1>1 DEF OrderInv, FilesPlaced, CopyOf, CopyStamp, Written, Mine
<1>4. JobsPlaced'
  BY <1>1, <1>2 DEF OrderInv, JobsPlaced, Written, Mine
<1>5. OwedHeld'
  BY <1>2 DEF OwedHeld
<1>6. ItemWritten'
  BY <1>1 DEF ItemWritten, Quiet
<1>7. CASE \E c \in Configs : Configure(c)
  <2>1. /\ scan.at = "idle" /\ UNCHANGED processed
        /\ \A s \in Sides : seen'[s] = <<>> \/ seen'[s] = seen[s]
    BY <1>7 DEF Configure
  <2>2. ListedPlaced'
    BY <1>1, <2>1, NotListing
  <2>3. EntriesPlaced'
    <3>1. \A s \in Sides : \A p \in DOMAIN seen'[s] : \E e : e = seen'[s][p] /\ EntryOf(s, p, e)'
      BY <1>1, <2>1, EmptyTable, EntrySame DEF OrderInv, EntriesPlaced
    <3>2. \A s \in Sides : ~Reconciling(s)'
      BY <1>1, <2>1 DEF Reconciling
    <3> QED
      BY <3>1, <3>2, EntriesFrame
  <2>4. CopiesHeld'
    <3> SUFFICES ASSUME NEW j \in Jobs, Unmarked(j)' PROVE FALSE
      BY DEF CopiesHeld
    <3>1. Unmarked(j)
      BY <1>1, <2>1 DEF Unmarked, Written, At, CopyStamp
    <3> QED
      BY <1>1, <3>1 DEF Quiet, Noted, Unmarked, Written, At
  <2> QED
    BY <1>3, <1>4, <1>5, <1>6, <2>2, <2>3, <2>4 DEF OrderInv
<1>8. CASE ClearHistory
  <2>1. /\ past'.forgotten = (1..clock) \cup {CopyStamp(j) : j \in {j \in Jobs : job[j].status = "delivered"}}
        /\ seen' = [s \in Sides |-> <<>>]
    BY <1>8 DEF ClearHistory
  <2>2. \A n : ~Born(n)
    BY <2>1 DEF Born
  <2>3. \A s \in Sides, p \in Paths : ~Listing(s, p)'
    BY <1>1, <2>2 DEF OnceInv, StampsBorn, Listing
  <2>4. ListedPlaced'
    BY <2>3 DEF ListedPlaced
  <2>5. EntriesPlaced'
    <3>1. \A s \in Sides : \A p \in DOMAIN seen'[s] : \E e : e = seen'[s][p] /\ EntryOf(s, p, e)'
      BY <2>1, EmptyTable
    <3>2. \A s \in Sides : Reconciling(s)' => \A p \in DOMAIN scan'.todo : \E e : e = scan'.todo[p] /\ EntryOf(s, p, e)'
      BY <1>1, <2>2 DEF OrderInv, EntriesPlaced, EntryOf, Reconciling
    <3> QED
      BY <3>1, <3>2, EntriesFrame
  <2>6. CopiesHeld'
    <3> SUFFICES ASSUME NEW j \in Jobs, Written(j) PROVE FALSE
      BY <1>1 DEF CopiesHeld, Unmarked, Written
    <3> QED
      BY <2>2 DEF Born, Written
  <2> QED
    BY <1>3, <1>4, <1>5, <1>6, <2>4, <2>5, <2>6 DEF OrderInv
<1> QED
  BY <1>7, <1>8

LEMMA OrderScanEnds ==
  ASSUME Roomy, Typed, OrderInv, ScanEnds
  PROVE  OrderInv'
<1>1. UNCHANGED <<world, job, clock, folder, based, seen>> /\ scan' = Idle
  BY DEF ScanEnds, ScanSame
<1>2. processed["android"] \subseteq Paths \X Stamps /\ processed["pc"] \subseteq Paths \X Stamps
  BY DEF Typed, PrintsTyped, Sides
<1>3. processed' = [android |-> processed["android"], pc |-> processed["pc"]]
  BY <1>2, NothingTrimmed DEF ScanEnds
<1>4. \A s \in Sides : processed[s] \subseteq processed'[s]
  BY <1>3 DEF Sides
<1>5. EntriesPlaced'
  <2>1. \A s \in Sides : \A p \in DOMAIN seen'[s] : \E e : e = seen'[s][p] /\ EntryOf(s, p, e)'
    BY <1>1, EntrySame DEF OrderInv, EntriesPlaced
  <2>2. \A s \in Sides : ~Reconciling(s)'
    BY <1>1 DEF Reconciling, Idle
  <2> QED
    BY <2>1, <2>2, EntriesFrame
<1>6. ListedPlaced' /\ ItemWritten'
  BY <1>1, NotListing DEF ItemWritten, Idle
<1>7. \A j \in Accepted : Known(j) => Known(j)'
  BY <1>1 DEF Known
<1>8. \A j \in Accepted : Reached(j)'
  BY <1>1 DEF Reached, Idle
<1> QED
  BY <1>1, <1>4, <1>5, <1>6, <1>7, <1>8, OrderFrame

(* What a clear forgets was there.                                          *)
ForgottenBorn == \A n \in past.forgotten : Born(n)

LEMMA Forgetting ==
  ASSUME Typed, ForgottenBorn, [Next]_vars
  PROVE  ForgottenBorn' /\ (past'.forgotten = {} => past.forgotten = {})
<1>0. clock \in Nat /\ DOMAIN past = {"baselined", "forgotten"} /\ job \in [Jobs -> Records]
  BY DEF Typed
<1>1. ASSUME UNCHANGED <<clock, past>>, \A j \in Jobs : job[j].status = "delivered" => job'[j].status = "delivered"
      PROVE  ForgottenBorn' /\ (past'.forgotten = {} => past.forgotten = {})
  BY <1>1, BornMore DEF ForgottenBorn
<1>2. CASE ReconcileStep
  BY <1>1, <1>2 DEF ReconcileStep, ReconcileUploads, ReconcileEnds, StatUploaded, RemoveSource, ReconcileDownload,
     ReconcileUpload, ReconcileStopped, ReconcileOwed, ScanSame
<1>3. CASE \/ AndroidEnds \/ ScanEnds \/ ScanFails \/ (\E force \in BOOLEAN : ScanStarts(force))
           \/ \E p \in Paths, s \in Sides : Observe(s, p)
           \/ \E p \in Paths : SpoolStarts(p) \/ DownloadRefused(p) \/ UploadRefused(p)
           \/ Start \/ UNCHANGED vars
  BY <1>1, <1>3 DEF AndroidEnds, ScanEnds, ScanFails, ScanStarts, Observe, SpoolStarts, DownloadRefused, UploadRefused,
     Start, ScanSame, vars
<1>4. CASE ListAndroid \/ ListPc
  <2>1. UNCHANGED <<clock, job>> /\ past'.forgotten = past.forgotten
    BY <1>0, <1>4 DEF ListAndroid, ListPc, Lists, ScanSame
  <2> QED
    BY <2>1, BornMore DEF ForgottenBorn
<1>5. CASE \E p \in Paths : QueueDownload(p) \/ QueueUpload(p)
  <2>1. UNCHANGED <<clock, past>>
    BY <1>5 DEF QueueDownload, QueueUpload
  <2>2. \A j \in Jobs : job[j].status = "delivered" => job'[j].status = "delivered"
    BY <1>0, <1>5 DEF QueueDownload, QueueUpload, Accept, NextJob
  <2> QED
    BY <1>1, <2>1, <2>2
<1>6. CASE QueueStep \/ Close \/ Crash
  <2>1. UNCHANGED <<clock, past>>
    BY <1>6 DEF QueueStep, JobDelivers, JobStops, Close, Crash
  <2>2. \A j \in Jobs : job[j].status = "delivered" => job'[j].status = "delivered"
    BY <1>0, <1>6 DEF QueueStep, JobDelivers, JobStops, Close, Crash, Interrupted, Owed
  <2> QED
    BY <1>1, <2>1, <2>2
<1>7. CASE \E s \in Sides, p \in Paths : UserWrites(s, p)
  <2>1. clock' = clock + 1 /\ UNCHANGED <<past, job>>
    BY <1>7 DEF UserWrites
  <2>2. \A n \in 1..clock : n \in 1..clock'
    BY <1>0, <2>1
  <2> QED
    BY <2>1, <2>2 DEF ForgottenBorn, Born, CopyStamp
<1>8. CASE \E s \in Sides, p \in Paths : UserRemoves(s, p) \/ TimePasses(s, p)
  BY <1>1, <1>8 DEF UserRemoves, TimePasses
<1>9. CASE \E c \in Configs : Configure(c)
  BY <1>1, <1>9 DEF Configure
<1>10. CASE ClearHistory
  <2>1. /\ UNCHANGED <<clock, job>>
        /\ past'.forgotten = (1..clock) \cup {CopyStamp(j) : j \in {j \in Jobs : job[j].status = "delivered"}}
    BY <1>10 DEF ClearHistory
  <2> QED
    BY <2>1 DEF ForgottenBorn, Born, CopyStamp
<1> QED
  BY <1>2, <1>3, <1>4, <1>5, <1>6, <1>7, <1>8, <1>9, <1>10 DEF Next, ObserveStep, UserStep

LEMMA OrderNext ==
  ASSUME Roomy, Typed, Calm => OnceInv, ForgottenBorn, Orderly => OrderInv, [Next]_vars
  PROVE  (Orderly => OrderInv)'
<1> SUFFICES ASSUME Orderly, past'.forgotten = {} PROVE OrderInv'
  <2>1. Orderly' => Orderly /\ past'.forgotten = {}
    BY WorldStays, Forgetting DEF Orderly, Calm, Apart
  <2> QED
    BY <2>1
<1>0. Calm /\ Apart /\ OnceInv /\ OrderInv
  BY DEF Orderly
<1>1. CASE ReconcileStep
  BY <1>0, <1>1, OrderMoving, OrderDownload, OrderUpload, OrderNotDone, OrderRemoves DEF ReconcileStep
<1>2. CASE ObserveStep
  <2>1. CASE ListAndroid \/ ListPc
    BY <1>0, <2>1, OrderLists, OrderMoving DEF ListAndroid, ListPc, Sides
  <2>2. CASE AndroidEnds
    BY <1>0, <2>2, OrderMoving
  <2>3. CASE ScanEnds
    BY <1>0, <2>3, OrderScanEnds
  <2>4. CASE \/ \E p \in Paths, s \in Sides : Observe(s, p)
             \/ \E p \in Paths : DownloadRefused(p) \/ SpoolStarts(p)
    BY <1>0, <2>4, OrderObserving DEF Sides
  <2>5. CASE \E p \in Paths : QueueDownload(p) \/ QueueUpload(p)
    BY <1>0, <2>5, OrderQueued
  <2>6. CASE \E p \in Paths : UploadRefused(p)
    BY <1>0, <2>6, OrderRefused
  <2> QED
    BY <1>2, <2>1, <2>2, <2>3, <2>4, <2>5, <2>6 DEF ObserveStep
<1>3. CASE QueueStep
  BY <1>0, <1>3, OrderDelivers, OrderEnds DEF QueueStep
<1>4. CASE UserStep \/ \E s \in Sides, p \in Paths : TimePasses(s, p)
  BY <1>0, <1>4, OrderUser, OrderReset DEF UserStep
<1>5. CASE ScanFails \/ \E force \in BOOLEAN : ScanStarts(force)
  BY <1>0, <1>5, OrderMoving
<1>6. CASE Close \/ Start \/ Crash \/ UNCHANGED vars
  BY <1>0, <1>6, OrderEnds
<1> QED
  BY <1>1, <1>2, <1>3, <1>4, <1>5, <1>6 DEF Next

LEMMA OrderInit == ASSUME Init PROVE ForgottenBorn /\ OrderInv
<1>1. Accepted = {} /\ Owed = {} /\ \A j \in Jobs : ~Written(j)
  BY DEF Init, Accepted, Owed, Written, Unused
<1>2. /\ scan.at = "idle" /\ past.forgotten = {}
      /\ \A s \in Sides : DOMAIN folder[s] = {} /\ DOMAIN seen[s] = {}
  BY EmptyTable DEF Init, Idle
<1>3. FilesPlaced /\ JobsPlaced /\ OwedHeld
  BY <1>1, <1>2 DEF FilesPlaced, JobsPlaced, OwedHeld
<1>4. EntriesPlaced /\ ListedPlaced /\ ItemWritten
  BY <1>2 DEF EntriesPlaced, ListedPlaced, ItemWritten, Reconciling, Listing
<1>5. CopiesHeld
  BY <1>1 DEF CopiesHeld, Unmarked
<1> QED
  BY <1>2, <1>3, <1>4, <1>5 DEF OrderInv, ForgottenBorn

OrderlyInv == Typed /\ (Calm => OnceInv) /\ ForgottenBorn /\ (Orderly => OrderInv)

LEMMA OrderlyInvHolds ==
  ASSUME Roomy
  PROVE  (Init => OrderlyInv) /\ (OrderlyInv /\ [Next]_vars => OrderlyInv')
<1>1. Init => OrderlyInv
  BY InitTyped, OnceInit, OrderInit DEF OrderlyInv
<1>2. OrderlyInv /\ [Next]_vars => OrderlyInv'
  <2> SUFFICES ASSUME OrderlyInv, [Next]_vars PROVE OrderlyInv'
    OBVIOUS
  <2>1. Typed' /\ (Calm => OnceInv)' /\ ForgottenBorn' /\ (Orderly => OrderInv)'
    BY NextTyped, OnceNext, Forgetting, OrderNext DEF OrderlyInv
  <2> QED
    BY <2>1 DEF OrderlyInv
<1> QED
  BY <1>1, <1>2

(* In orderly surroundings nothing that a transfer has written is queued to *)
(* be transferred back: a copy that is not marked yet has been seen by one  *)
(* scan at most, and the next one takes in its transfer before it lists.    *)
THEOREM NothingBounces == ASSUME Roomy PROVE Spec => []OrderlyIsLoopFree
<1>1. OrderlyInv => OrderlyIsLoopFree
  BY Bounds DEF OrderlyInv, OrderInv, JobsPlaced, OrderlyIsLoopFree, LoopFree
<1> QED
  BY <1>1, OrderlyInvHolds, PTL DEF Spec

(* Whatever the queue owes in orderly surroundings is known to an observed  *)
(* entry of its side, across failed scans and restarts.                     *)
THEOREM NothingOwedIsLost == ASSUME Roomy PROVE Spec => []OwedIsTracked
<1>1. OrderlyInv => OwedIsTracked
  BY DEF OrderlyInv, OrderInv, OwedHeld, Held, Known, OwedIsTracked
<1> QED
  BY <1>1, OrderlyInvHolds, PTL DEF Spec

(* What the monitor removes in orderly surroundings is the very version     *)
(* that its transfer has delivered to the PC.                               *)
LEMMA RemovesDelivered ==
  ASSUME OrderlyInv, Orderly, [Next]_vars
  PROVE  DeletesDelivered
<1> SUFFICES ASSUME scan.at = "remove", folder'["android"] # folder["android"]
             PROVE  \E j \in Jobs : /\ job[j].status = "delivered" /\ job[j].side = "android"
                                    /\ job[j].carries = folder["android"][scan.item].origin
  BY DEF DeletesDelivered
<1>1. PICK p, e, i : p = scan.item /\ e = scan.todo[p] /\ i = e.job
  OBVIOUS
<1>2. Typed /\ OrderInv /\ p \in DOMAIN scan.todo
  BY <1>1 DEF OrderlyInv, Typed, ScanTyped
<1>3. EntryOf("android", p, e) /\ i # NoJob /\ i \in Jobs
  BY <1>1, <1>2, TodoTyped DEF OrderInv, EntriesPlaced, Reconciling, Sides, Typed, ScanTyped
<1>4. Written(i) /\ ~e.tried
  BY <1>1, <1>2 DEF OrderInv, ItemWritten
<1>5. /\ i \in Accepted /\ job[i].side = "android" /\ job[i].stamp = e.stamp
      /\ At("android", p, job[i].stamp)
  BY <1>1, <1>3, <1>4 DEF EntryOf
<1>6. job[i].carries = job[i].stamp /\ job[i].stamp \in 1..MaxWrites
  BY <1>2, <1>4, <1>5 DEF OrderInv, JobsPlaced
<1>7. folder["android"][p].origin = job[i].stamp
  BY <1>2, <1>5, <1>6, StampBounds, Bounds DEF OrderInv, FilesPlaced, At, Sides
<1> QED
  BY <1>1, <1>3, <1>4, <1>5, <1>6, <1>7 DEF Written

THEOREM RemovedIsDelivered == ASSUME Roomy PROVE Spec => OrderlyDeletesDelivered
<1>1. OrderlyInv /\ [Next]_vars => [Orderly => DeletesDelivered]_vars
  BY RemovesDelivered
<1> QED
  BY <1>1, OrderlyInvHolds, PTL DEF Spec, OrderlyDeletesDelivered

=============================================================================
