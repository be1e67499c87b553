-------------------------- MODULE UpstreamUpdateProofs --------------------------
(***************************************************************************)
(* Theorems about UpstreamUpdate, for any versions, commits and bounds:    *)
(* what the tools that prepare an update leave behind, wherever they are   *)
(* interrupted, and what the bridge makes of it.                           *)
(*                                                                         *)
(* They are about tools that run one after the other: two builds into one  *)
(* file at the same time may hash each other's result.                     *)
(***************************************************************************)
EXTENDS UpstreamUpdate, TLAPS

OneAtATime == \A s, t \in Tools : s = t

Manifests == [default : Versions, entries : [Versions -> Entries \cup {NoEntry}]]
Stages == {"scaffold", "build", "register", "report"}

(* What a tool knows while it builds, promotes, writes the manifest.        *)
Builders ==
    [job : {"update"}, at : Stages \cup {"copying", "written", "hash", "noted"},
     version : Versions, commit : Commits, base : Versions,
     options : SUBSET {"scaffold", "build", "register", "automated"}, out : Files,
     sha : Commits \cup {NoCommit}, scaffolded : BOOLEAN]
    \cup
    [job : {"build"}, at : {"build", "written", "hash", "noted"}, version : Versions, commit : Commits,
     out : Files, options : {{"build"}}, sha : Commits \cup {NoCommit}, scaffolded : {FALSE}]
Promoters ==
    [job : {"promote"}, at : {"promote"}, version : Versions, status : Statuses,
     given : SUBSET Evidence, default : BOOLEAN, options : {{}}]
Writers ==
    [job : {"update", "promote"}, at : {"writing", "report"}, version : Versions,
     options : SUBSET {"scaffold", "build", "register", "automated"}, new : Manifests]
Downloaders == [job : {"download"}, at : {"download"}, version : Versions, options : {{}}]

(* A manifest that tells the truth about the adapters a.                    *)
Truthful(m, a) ==
    /\ m \in Manifests
    /\ \A v \in Versions :
          LET e == m.entries[v] IN
          /\ e.sha \in {e.commit, NoCommit}
          /\ v # Base /\ e # NoEntry => a[v] = "whole"
          /\ v # Base /\ e.status = "stable" => e.evidence = Evidence /\ e.sha = e.commit

(* A tool has looked at what it is going to record.                         *)
Honest(o, a, f) ==
    /\ o \in Builders => /\ o.sha \in {o.commit, NoCommit}
                         /\ o.scaffolded => a[o.version] = "whole"
                         /\ o.at \in {"written", "noted"} => o.sha = o.commit
                         /\ o.at = "hash" => f[o.out] = o.commit
    /\ o \in Writers => Truthful(o.new, a)

Inv ==
    /\ tool \in [Tools -> {Idle} \cup Builders \cup Promoters \cup Writers \cup Downloaders]
    /\ adapters \in [Versions -> {None, "partial", "whole"}]
    /\ file \in [Files -> Commits \cup {None, Torn}]
    /\ manifest # Torn => Truthful(manifest, adapters)
    /\ points \in Commits
    /\ \A t \in Tools : Honest(tool[t], adapters, file)
    /\ local \notin {None, Torn} => local.sha = local.commit
    /\ bridge.at \in {"found", "hashed"} => bridge.sha = bridge.commit
    /\ ServedMatches

-----------------------------------------------------------------------------
(* The next stage of update_scrcpy.py is one of its stages.                 *)
LEMMA StageFollows ==
  ASSUME NEW o, NEW stage \in {"start", "scaffold", "build"}
  PROVE  Follows(o, stage) \in Stages
<1> DEFINE first == IF stage = "start" THEN 0 ELSE Order[stage]
           Comes(s) == /\ Asked(o, s) /\ Order[s] > first
                       /\ \A r \in DOMAIN Order : Asked(o, r) /\ Order[r] > first => Order[s] <= Order[r]
<1>1. DOMAIN Order = Stages
  BY DEF Order, Stages
<1>2. /\ Order["scaffold"] = 1 /\ Order["build"] = 2 /\ Order["register"] = 3 /\ Order["report"] = 4
      /\ first \in {0, 1, 2}
  BY DEF Order
<1>3. Asked(o, "report")
  BY DEF Asked
<1>4. \E s \in Stages : Comes(s)
  <2>1. CASE Asked(o, "scaffold") /\ first = 0
    BY <1>1, <1>2, <2>1 DEF Stages
  <2>2. CASE ~(Asked(o, "scaffold") /\ first = 0) /\ Asked(o, "build") /\ first < 2
    <3>1. Comes("build")
      BY <1>1, <1>2, <2>2 DEF Stages
    <3> QED
      BY <3>1 DEF Stages
  <2>3. CASE ~(Asked(o, "scaffold") /\ first = 0) /\ ~(Asked(o, "build") /\ first < 2) /\ Asked(o, "register")
    <3>1. Comes("register")
      BY <1>1, <1>2, <2>3 DEF Stages
    <3> QED
      BY <3>1 DEF Stages
  <2>4. CASE ~(Asked(o, "scaffold") /\ first = 0) /\ ~(Asked(o, "build") /\ first < 2) /\ ~Asked(o, "register")
    <3>1. Comes("report")
      BY <1>1, <1>2, <1>3, <2>4 DEF Stages
    <3> QED
      BY <3>1 DEF Stages
  <2> QED
    BY <2>1, <2>2, <2>3, <2>4
<1>5. Follows(o, stage) = CHOOSE s \in Stages : Comes(s)
  BY <1>1 DEF Follows
<1> HIDE DEF Comes
<1> QED
  BY <1>4, <1>5

(* What one tool does, the others being idle.                               *)
LEMMA ToolMoves ==
  ASSUME Inv, OneAtATime, NEW t \in Tools,
         NEW o \in {Idle} \cup Builders \cup Promoters \cup Writers \cup Downloaders,
         tool' = [tool EXCEPT ![t] = o],
         adapters' \in [Versions -> {None, "partial", "whole"}],
         file' \in [Files -> Commits \cup {None, Torn}],
         manifest' # Torn => Truthful(manifest', adapters'),
         Honest(o, adapters', file'),
         local' \notin {None, Torn} => local'.sha = local'.commit,
         UNCHANGED <<points, bridgeVars>>
  PROVE  Inv'
<1>1. tool' \in [Tools -> {Idle} \cup Builders \cup Promoters \cup Writers \cup Downloaders]
  BY DEF Inv
<1>2. \A s \in Tools : tool'[s] = o
  BY DEF Inv, OneAtATime
<1>3. ASSUME NEW s \in Tools PROVE Honest(tool[s], adapters, file)'
  BY <1>2 DEF Honest, Truthful
<1>4. manifest' # Torn => Truthful(manifest, adapters)'
  BY DEF Truthful
<1> QED
  BY <1>1, <1>3, <1>4 DEF Inv, bridgeVars, ServedMatches

(* The kinds of records, where they are in their tool, ...                  *)
LEMMA KindsAt ==
  ASSUME NEW o
  PROVE  /\ o = Idle => o.at = "idle"
         /\ o \in Builders => /\ o.at \in Stages \cup {"copying", "written", "hash", "noted"}
                              /\ o.job \in {"update", "build"} /\ "sha" \in DOMAIN o
         /\ o \in Promoters => o.at = "promote"
         /\ o \in Writers => o.at \in {"writing", "report"} /\ "sha" \notin DOMAIN o
         /\ o \in Downloaders => o.at = "download"
<1>1. o = Idle => o.at = "idle"
  BY DEF Idle
<1>2. o \in Builders => /\ o.at \in Stages \cup {"copying", "written", "hash", "noted"}
                        /\ o.job \in {"update", "build"} /\ "sha" \in DOMAIN o
  BY DEF Builders, Stages
<1>3. o \in Promoters => o.at = "promote"
  BY DEF Promoters
<1>4. o \in Writers => o.at \in {"writing", "report"} /\ "sha" \notin DOMAIN o
  BY DEF Writers
<1>5. o \in Downloaders => o.at = "download"
  BY DEF Downloaders
<1> QED
  BY <1>1, <1>2, <1>3, <1>4, <1>5

(* ... do not overlap.                                                      *)
LEMMA KindsDiffer ==
  ASSUME NEW o
  PROVE  /\ o = Idle => o \notin Builders \cup Promoters \cup Writers \cup Downloaders
         /\ o \in Promoters \cup Downloaders => o \notin Builders \cup Writers
         /\ o \in Builders => o \notin Writers
  BY KindsAt DEF Stages

-----------------------------------------------------------------------------
(* The steps of a tool.                                                     *)

LEMMA LaunchKeeps ==
  ASSUME Inv, OneAtATime, NEW t \in Tools,
         UpdateBegins(t) \/ BuildTool(t) \/ PromoteTool(t) \/ Download(t)
  PROVE  Inv'
<1>1. UNCHANGED <<manifest, adapters, file, local, points, bridgeVars>>
  BY DEF UpdateBegins, BuildTool, PromoteTool, Download, Launch, disk
<1>2. ASSUME NEW o \in Builders \cup Promoters \cup Downloaders,
             tool' = [tool EXCEPT ![t] = o], Honest(o, adapters, file)
      PROVE  Inv'
  BY <1>1, <1>2, ToolMoves DEF Inv
<1>3. CASE UpdateBegins(t)
  <2>1. PICK v \in Versions, options \in SUBSET {"scaffold", "build", "register", "automated"} :
           LET o == [job |-> "update", at |-> "start", version |-> v, commit |-> points,
                     base |-> manifest.default, options |-> options, out |-> Trial(v),
                     sha |-> NoCommit, scaffolded |-> FALSE]
           IN  tool' = [tool EXCEPT ![t] = [o EXCEPT !.at = Follows(o, "start")]]
    BY <1>3 DEF UpdateBegins, Goes
  <2> DEFINE o == [job |-> "update", at |-> "start", version |-> v, commit |-> points,
                   base |-> manifest.default, options |-> options, out |-> Trial(v),
                   sha |-> NoCommit, scaffolded |-> FALSE]
             new == [o EXCEPT !.at = Follows(o, "start")]
  <2>2. Follows(o, "start") \in Stages
    <3> HIDE DEF o
    <3> QED
      BY StageFollows
  <2>3. points \in Commits /\ manifest.default \in Versions /\ Trial(v) \in Files
    BY <1>3 DEF Inv, Truthful, Manifests, UpdateBegins, Files, Trial
  <2>4. new \in Builders
    BY <2>2, <2>3 DEF Builders
  <2>5. Honest(new, adapters, file)
    BY <2>2, <2>4, KindsDiffer DEF Honest, Stages
  <2> QED
    BY <1>2, <2>1, <2>4, <2>5
<1>4. CASE BuildTool(t)
  <2>1. PICK v \in Versions, out \in Files :
          tool' = [tool EXCEPT ![t] =
              [job |-> "build", at |-> "build", version |-> v, commit |-> points, out |-> out,
               options |-> {"build"}, sha |-> NoCommit, scaffolded |-> FALSE]]
    BY <1>4 DEF BuildTool
  <2> DEFINE o == [job |-> "build", at |-> "build", version |-> v, commit |-> points, out |-> out,
                   options |-> {"build"}, sha |-> NoCommit, scaffolded |-> FALSE]
  <2>2. o \in Builders
    BY DEF Builders, Inv
  <2>3. Honest(o, adapters, file)
    BY <2>2, KindsDiffer DEF Honest
  <2> QED
    BY <1>2, <2>1, <2>2, <2>3
<1>5. CASE PromoteTool(t) \/ Download(t)
  <2>1. PICK o \in Promoters \cup Downloaders : tool' = [tool EXCEPT ![t] = o]
    <3>1. CASE PromoteTool(t)
      BY <3>1 DEF PromoteTool, Promoters
    <3>2. CASE Download(t)
      BY <3>2, UpstreamAssumption DEF Download, Downloaders
    <3> QED
      BY <1>5, <3>1, <3>2
  <2>2. Honest(o, adapters, file)
    BY KindsDiffer DEF Honest
  <2> QED
    BY <1>2, <2>1, <2>2
<1> QED
  BY <1>3, <1>4, <1>5

(* Directories that are whole stay whole while a tool runs.                 *)
LEMMA TruthfulStays ==
  ASSUME NEW m, NEW a, NEW b, Truthful(m, a), \A v \in Versions : a[v] = "whole" => b[v] = "whole"
  PROVE  Truthful(m, b)
  BY DEF Truthful

(* What a builder is and knows, in terms of where it is.                    *)
LEMMA BuilderAt ==
  ASSUME Inv, NEW t \in Tools,
         tool[t].at \in {"scaffold", "copying", "build", "written", "hash", "noted", "register"}
  PROVE  /\ tool[t] \in Builders
         /\ tool[t].sha \in {tool[t].commit, NoCommit}
         /\ tool[t].scaffolded => adapters[tool[t].version] = "whole"
         /\ tool[t].at \in {"written", "noted"} => tool[t].sha = tool[t].commit
         /\ tool[t].at = "hash" => file[tool[t].out] = tool[t].commit
<1>1. tool[t] \in {Idle} \cup Builders \cup Promoters \cup Writers \cup Downloaders
  BY DEF Inv
<1>2. tool[t] \in Builders
  BY <1>1 DEF Idle, Promoters, Writers, Downloaders
<1> QED
  BY <1>2 DEF Inv, Honest

LEMMA ScaffoldKeeps ==
  ASSUME Inv, OneAtATime, NEW t \in Tools, ScaffoldBegins(t) \/ ScaffoldEnds(t), UNCHANGED <<points, bridgeVars>>
  PROVE  Inv'
<1>1. /\ tool[t] \in Builders /\ tool[t].sha \in {tool[t].commit, NoCommit}
      /\ tool[t].scaffolded => adapters[tool[t].version] = "whole"
  BY BuilderAt DEF ScaffoldBegins, ScaffoldEnds
<1>2. tool[t].job = "update"
  BY <1>1 DEF ScaffoldBegins, ScaffoldEnds, Builders
<1>3. tool[t].version \in Versions
  BY <1>1 DEF Builders
<1>4. /\ UNCHANGED <<manifest, file, local>>
      /\ adapters' \in [Versions -> {None, "partial", "whole"}]
      /\ \A v \in Versions : adapters[v] = "whole" => adapters'[v] = "whole"
  BY <1>3, UpstreamAssumption DEF ScaffoldBegins, ScaffoldEnds, Inv
<1>5. manifest' # Torn => Truthful(manifest', adapters')
  BY <1>4, TruthfulStays DEF Inv
<1>6. ASSUME NEW o \in Builders, tool' = [tool EXCEPT ![t] = o],
             o.sha = tool[t].sha, o.commit = tool[t].commit, o.version = tool[t].version,
             o.scaffolded => adapters'[o.version] = "whole", o.at \notin {"written", "noted", "hash"}
      PROVE  Inv'
  <2>1. Honest(o, adapters', file')
    BY <1>1, <1>6, KindsDiffer DEF Honest
  <2> QED
    BY <1>4, <1>5, <1>6, <2>1, ToolMoves DEF Inv
<1>7. CASE ScaffoldBegins(t)
  <2> DEFINE o == [tool[t] EXCEPT !.at = "copying"]
  <2>1. o \in Builders
    BY <1>1, <1>2 DEF Builders
  <2>2. /\ o.sha = tool[t].sha /\ o.commit = tool[t].commit /\ o.version = tool[t].version
        /\ o.scaffolded = tool[t].scaffolded /\ o.at = "copying"
    BY <1>1 DEF Builders
  <2>3. tool' = [tool EXCEPT ![t] = o]
    BY <1>7 DEF ScaffoldBegins, Goes
  <2> HIDE DEF o
  <2>4. o.scaffolded => adapters'[o.version] = "whole"
    BY <1>1, <1>3, <1>4, <2>2
  <2> QED
    BY <1>6, <2>1, <2>2, <2>3, <2>4
<1>8. CASE ScaffoldEnds(t)
  <2> DEFINE base == [tool[t] EXCEPT !.scaffolded = TRUE]
             o == [base EXCEPT !.at = Follows(base, "scaffold")]
  <2>1. Follows(base, "scaffold") \in Stages
    <3> HIDE DEF base
    <3> QED
      BY StageFollows
  <2>2. o \in Builders
    BY <1>1, <1>2, <2>1 DEF Builders
  <2>3. /\ o.sha = tool[t].sha /\ o.commit = tool[t].commit /\ o.version = tool[t].version
        /\ o.at \in Stages
    BY <1>1, <2>1 DEF Builders
  <2>4. tool' = [tool EXCEPT ![t] = o]
    BY <1>8 DEF ScaffoldEnds, Goes
  <2> HIDE DEF o
  <2>5. adapters'[o.version] = "whole"
    BY <1>3, <1>8, <2>3 DEF ScaffoldEnds, Inv
  <2> QED
    BY <1>6, <2>2, <2>3, <2>4, <2>5 DEF Stages
<1> QED
  BY <1>7, <1>8

LEMMA BuildKeeps ==
  ASSUME Inv, OneAtATime, NEW t \in Tools, Built(t) \/ Written(t) \/ Hashed(t) \/ Noted(t),
         UNCHANGED <<points, bridgeVars>>
  PROVE  Inv'
<1>1. /\ tool[t] \in Builders /\ tool[t].sha \in {tool[t].commit, NoCommit}
      /\ tool[t].scaffolded => adapters[tool[t].version] = "whole"
      /\ tool[t].at \in {"written", "noted"} => tool[t].sha = tool[t].commit
      /\ tool[t].at = "hash" => file[tool[t].out] = tool[t].commit
  BY BuilderAt DEF Built, Written, Hashed, Noted
<1>2. tool[t].out \in Files /\ tool[t].commit \in Commits
  BY <1>1 DEF Builders
<1>3. UNCHANGED <<manifest, adapters>>
  BY DEF Built, Written, Hashed, Noted
<1>4. ASSUME NEW o \in Builders, tool' = [tool EXCEPT ![t] = o],
             o.sha \in {o.commit, NoCommit}, o.version = tool[t].version,
             o.scaffolded = tool[t].scaffolded, o.at \in {"written", "noted"} => o.sha = o.commit,
             o.at = "hash" => file'[o.out] = o.commit,
             file' \in [Files -> Commits \cup {None, Torn}],
             local' \notin {None, Torn} => local'.sha = local'.commit
      PROVE  Inv'
  <2>1. Honest(o, adapters', file')
    BY <1>1, <1>3, <1>4, KindsDiffer DEF Honest
  <2> QED
    BY <1>3, <1>4, <2>1, ToolMoves DEF Inv
<1>5. CASE Built(t)
  <2> DEFINE o == [tool[t] EXCEPT !.at = "written", !.sha = tool[t].commit]
  <2>1. o \in Builders
    BY <1>1 DEF Builders
  <2>2. o.sha = o.commit /\ o.version = tool[t].version /\ o.scaffolded = tool[t].scaffolded /\ o.at = "written"
    BY <1>1 DEF Builders
  <2>3. tool' = [tool EXCEPT ![t] = o] /\ local' = local /\ file' = [file EXCEPT ![tool[t].out] = Torn]
    BY <1>5 DEF Built, BuildCommit
  <2>4. file' \in [Files -> Commits \cup {None, Torn}]
    BY <1>2, <2>3 DEF Inv
  <2> HIDE DEF o
  <2> QED
    BY <1>4, <2>1, <2>2, <2>3, <2>4 DEF Inv
<1>6. CASE Written(t)
  <2> DEFINE o == [tool[t] EXCEPT !.at = "hash"]
  <2>1. o \in Builders
    BY <1>1 DEF Builders
  <2>2. /\ o.sha = tool[t].sha /\ o.commit = tool[t].commit /\ o.version = tool[t].version
        /\ o.scaffolded = tool[t].scaffolded /\ o.at = "hash" /\ o.out = tool[t].out
    BY <1>1 DEF Builders
  <2>3. tool' = [tool EXCEPT ![t] = o] /\ local' = local /\ file' = [file EXCEPT ![tool[t].out] = tool[t].sha]
    BY <1>6 DEF Written, Goes
  <2>4. tool[t].sha = tool[t].commit
    BY <1>1, <1>6 DEF Written
  <2>5. file' \in [Files -> Commits \cup {None, Torn}] /\ file'[o.out] = o.commit
    BY <1>2, <2>2, <2>3, <2>4 DEF Inv
  <2> HIDE DEF o
  <2> QED
    BY <1>1, <1>4, <2>1, <2>2, <2>3, <2>5 DEF Inv
<1>7. CASE Hashed(t)
  <2> DEFINE read == [tool[t] EXCEPT !.sha = file[tool[t].out]]
             o == [read EXCEPT !.at = "noted"]
  <2>1. file[tool[t].out] = tool[t].commit
    BY <1>1, <1>7 DEF Hashed
  <2>2. o \in Builders
    BY <1>1, <2>1 DEF Builders
  <2>3. /\ o.sha = o.commit /\ o.version = tool[t].version
        /\ o.scaffolded = tool[t].scaffolded /\ o.at = "noted"
    BY <1>1, <2>1 DEF Builders
  <2>4. tool' = [tool EXCEPT ![t] = o] /\ local' \in {local, Torn} /\ file' = file
    BY <1>7 DEF Hashed, Goes
  <2> HIDE DEF o
  <2> QED
    BY <1>1, <1>4, <2>2, <2>3, <2>4 DEF Inv
<1>8. CASE Noted(t)
  <2>1. tool[t].sha = tool[t].commit
    BY <1>1, <1>8 DEF Noted
  <2>2. local' \in {local, [commit |-> tool[t].commit, sha |-> tool[t].sha]} /\ file' = file
    BY <1>8 DEF Noted, BuildCommit
  <2>3. local' \notin {None, Torn} => local'.sha = local'.commit
    BY <2>1, <2>2 DEF Inv
  <2>4. CASE tool[t].job = "update"
    <3> DEFINE o == [tool[t] EXCEPT !.at = Follows(tool[t], "build")]
    <3>1. Follows(tool[t], "build") \in Stages
      BY StageFollows
    <3>2. o \in Builders
      BY <1>1, <2>4, <3>1 DEF Builders
    <3>3. /\ o.sha = o.commit /\ o.version = tool[t].version
          /\ o.scaffolded = tool[t].scaffolded /\ o.at \in Stages
      BY <1>1, <2>1, <3>1 DEF Builders
    <3>4. tool' = [tool EXCEPT ![t] = o]
      BY <1>8, <2>4 DEF Noted, Goes
    <3> HIDE DEF o
    <3> QED
      BY <1>1, <1>4, <2>2, <2>3, <3>2, <3>3, <3>4 DEF Inv, Stages
  <2>5. CASE tool[t].job # "update"
    <3>1. tool' = [tool EXCEPT ![t] = Idle]
      BY <1>8, <2>5 DEF Noted, Ends
    <3>2. Honest(Idle, adapters', file')
      BY KindsDiffer DEF Honest
    <3> QED
      BY <1>3, <2>2, <2>3, <3>1, <3>2, ToolMoves DEF Inv
  <2> QED
    BY <2>4, <2>5
<1> QED
  BY <1>5, <1>6, <1>7, <1>8

(* The manifest that a registration writes.                                 *)
LEMMA RegisteredIsTruthful ==
  ASSUME Inv, NEW t \in Tools, Register(t)
  PROVE  Truthful([manifest EXCEPT !.entries = Registered(tool[t])], adapters)
<1> DEFINE o == tool[t]
           e == [status |-> "experimental", commit |-> o.commit, sha |-> o.sha,
                 evidence |-> IF "automated" \in o.options THEN {"automated"} ELSE {}]
           new == [manifest EXCEPT !.entries = Registered(o)]
<1>1. /\ o \in Builders /\ o.sha \in {o.commit, NoCommit} /\ o.scaffolded
      /\ adapters[o.version] = "whole" /\ manifest # Torn
  BY BuilderAt DEF Register
<1>2. Truthful(manifest, adapters)
  BY <1>1 DEF Inv
<1>3. o.version \in Versions /\ e \in Entries
  BY <1>1 DEF Builders, Entries, Statuses, Evidence
<1>4. new = [default |-> manifest.default, entries |-> [manifest.entries EXCEPT ![o.version] = e]]
  <2>1. Registered(o) = [manifest.entries EXCEPT ![o.version] = e]
    BY DEF Registered
  <2>2. manifest = [default |-> manifest.default, entries |-> manifest.entries]
    BY <1>2 DEF Truthful, Manifests
  <2> HIDE DEF e
  <2> QED
    BY <2>1, <2>2
<1>5. e.sha \in {e.commit, NoCommit} /\ e.status # "stable"
  BY <1>1
<1> HIDE DEF e, new
<1>6. new \in Manifests
  BY <1>2, <1>3, <1>4 DEF Truthful, Manifests
<1>7. ASSUME NEW v \in Versions
      PROVE  LET f == new.entries[v] IN
             /\ f.sha \in {f.commit, NoCommit}
             /\ v # Base /\ f # NoEntry => adapters[v] = "whole"
             /\ v # Base /\ f.status = "stable" => f.evidence = Evidence /\ f.sha = f.commit
  <2>1. CASE v = o.version
    <3>1. new.entries[v] = e
      BY <1>2, <1>3, <1>4, <2>1 DEF Truthful, Manifests
    <3> QED
      BY <1>1, <1>5, <2>1, <3>1
  <2>2. CASE v # o.version
    <3>1. new.entries[v] = manifest.entries[v]
      BY <1>2, <1>3, <1>4, <2>2 DEF Truthful, Manifests
    <3> QED
      BY <1>2, <3>1 DEF Truthful
  <2> QED
    BY <2>1, <2>2
<1>8. Truthful(new, adapters)
  BY <1>6, <1>7 DEF Truthful
<1> QED
  BY <1>8 DEF new

(* ... and a promotion.                                                     *)
LEMMA PromotedIsTruthful ==
  ASSUME Inv, NEW t \in Tools, Promote(t)
  PROVE  tool[t] \in Promoters /\ Truthful(Promoted(tool[t]), adapters)
<1> DEFINE o == tool[t]
           old == manifest.entries[o.version]
           e == [old EXCEPT !.status = o.status, !.evidence = Gathered(o)]
           new == Promoted(o)
<1>1. o \in Promoters
  <2>1. o \in {Idle} \cup Builders \cup Promoters \cup Writers \cup Downloaders /\ o.at = "promote"
    BY DEF Inv, Promote
  <2> QED
    BY <2>1, KindsAt DEF Stages
<1>2. /\ Truthful(manifest, adapters) /\ o.version \in Versions /\ o.status \in Statuses
      /\ o.given \subseteq Evidence /\ old # NoEntry
  BY <1>1 DEF Inv, Promote, Promoters
<1>3. old \in Entries
  BY <1>2 DEF Truthful, Manifests
<1>4. /\ e \in Entries /\ e.sha = old.sha /\ e.commit = old.commit /\ e.status = o.status
      /\ e.evidence = Gathered(o)
  BY <1>2, <1>3 DEF Entries, Gathered
<1>5. new = [default |-> IF o.default THEN o.version ELSE manifest.default,
             entries |-> [manifest.entries EXCEPT ![o.version] = e]]
  BY <1>2, <1>3 DEF Promoted, Truthful, Manifests, Entries
<1>6. o.status = "stable" => Gathered(o) = Evidence /\ old.sha = old.commit
  BY <1>2 DEF Promote, Allowed, Truthful
<1> HIDE DEF e, new, old
<1>7. new \in Manifests
  BY <1>2, <1>4, <1>5 DEF Truthful, Manifests
<1>8. ASSUME NEW v \in Versions
      PROVE  LET f == new.entries[v] IN
             /\ f.sha \in {f.commit, NoCommit}
             /\ v # Base /\ f # NoEntry => adapters[v] = "whole"
             /\ v # Base /\ f.status = "stable" => f.evidence = Evidence /\ f.sha = f.commit
  <2>1. CASE v = o.version
    <3>1. new.entries[v] = e
      BY <1>2, <1>5, <2>1 DEF Truthful, Manifests
    <3>2. old.sha \in {old.commit, NoCommit} /\ (v # Base => adapters[v] = "whole")
      BY <1>2, <2>1 DEF Truthful, old
    <3> QED
      BY <1>4, <1>6, <2>1, <3>1, <3>2
  <2>2. CASE v # o.version
    <3>1. new.entries[v] = manifest.entries[v]
      BY <1>2, <1>5, <2>2 DEF Truthful, Manifests
    <3> QED
      BY <1>2, <3>1 DEF Truthful
  <2> QED
    BY <2>1, <2>2
<1>9. Truthful(new, adapters)
  BY <1>7, <1>8 DEF Truthful
<1> QED
  BY <1>1, <1>9 DEF new

LEMMA ManifestKeeps ==
  ASSUME Inv, OneAtATime, NEW t \in Tools, Register(t) \/ Promote(t) \/ ManifestWritten(t),
         UNCHANGED <<points, bridgeVars>>
  PROVE  Inv'
<1>1. UNCHANGED <<adapters, file, local>>
  BY DEF Register, Promote, ManifestWritten, Overwrites
<1>2. ASSUME NEW o \in Writers \cup {Idle}, tool' = [tool EXCEPT ![t] = o],
             o \in Writers => Truthful(o.new, adapters),
             manifest' # Torn => Truthful(manifest', adapters)
      PROVE  Inv'
  <2>1. Honest(o, adapters', file')
    BY <1>1, <1>2, KindsDiffer DEF Honest
  <2> QED
    BY <1>1, <1>2, <2>1, ToolMoves DEF Inv
<1>3. ASSUME NEW new, Truthful(new, adapters), Overwrites(t, tool[t], new),
             tool[t] \in Builders \cup Promoters,
             tool[t] \in Builders => tool[t].job = "update"
      PROVE  Inv'
  <2> DEFINE o == [job |-> tool[t].job, at |-> "writing", version |-> tool[t].version,
                   options |-> tool[t].options, new |-> new]
  <2>1. o \in Writers
    BY <1>3 DEF Writers, Builders, Promoters, Truthful
  <2>2. tool' = [tool EXCEPT ![t] = o] /\ manifest' = Torn
    BY <1>3 DEF Overwrites
  <2> QED
    BY <1>2, <1>3, <2>1, <2>2
<1>4. CASE Register(t)
  <2>1. tool[t] \in Builders
    BY <1>4, BuilderAt DEF Register
  <2>2. tool[t].job = "update"
    BY <1>4, <2>1 DEF Builders, Register
  <2> QED
    BY <1>3, <1>4, <2>1, <2>2, RegisteredIsTruthful DEF Register
<1>5. CASE Promote(t)
  BY <1>3, <1>5, PromotedIsTruthful, KindsDiffer DEF Promote
<1>6. CASE ManifestWritten(t)
  <2> DEFINE o == tool[t]
  <2>1. o \in Writers /\ Truthful(o.new, adapters)
    <3>1. o \in {Idle} \cup Builders \cup Promoters \cup Writers \cup Downloaders /\ o.at = "writing"
      BY <1>6 DEF Inv, ManifestWritten
    <3>2. o \in Writers
      BY <3>1, KindsAt DEF Stages
    <3> QED
      BY <3>2 DEF Inv, Honest
  <2>2. manifest' = o.new
    BY <1>6 DEF ManifestWritten
  <2>3. CASE o.job = "update"
    <3>1. [o EXCEPT !.at = "report"] \in Writers /\ [o EXCEPT !.at = "report"].new = o.new
      BY <2>1 DEF Writers
    <3>2. tool' = [tool EXCEPT ![t] = [o EXCEPT !.at = "report"]]
      BY <1>6, <2>3 DEF ManifestWritten, Goes
    <3> QED
      BY <1>2, <2>1, <2>2, <3>1, <3>2
  <2>4. CASE o.job # "update"
    <3>1. tool' = [tool EXCEPT ![t] = Idle]
      BY <1>6, <2>4 DEF ManifestWritten, Ends
    <3> QED
      BY <1>2, <2>1, <2>2, <3>1, KindsDiffer
  <2> QED
    BY <2>3, <2>4
<1> QED
  BY <1>4, <1>5, <1>6

LEMMA EndKeeps ==
  ASSUME Inv, OneAtATime, NEW t \in Tools, Reports(t) \/ Downloaded(t) \/ GivesUp(t),
         UNCHANGED <<points, bridgeVars>>
  PROVE  Inv'
<1>1. tool' = [tool EXCEPT ![t] = Idle] /\ UNCHANGED <<manifest, adapters, local>>
  BY DEF Reports, Downloaded, GivesUp, Ends, disk
<1>2. file' \in [Files -> Commits \cup {None, Torn}]
  <2>1. CASE Downloaded(t)
    <3>1. /\ manifest.default \in Versions /\ manifest.entries[manifest.default] \in Entries \cup {NoEntry}
          /\ manifest.entries[manifest.default].sha # NoCommit
      BY <2>1 DEF Downloaded, Inv, Truthful, Manifests
    <3>2. manifest.entries[manifest.default].sha \in Commits
      BY <3>1 DEF Entries, NoEntry
    <3> QED
      BY <2>1, <3>2 DEF Downloaded, Inv
  <2>2. CASE Reports(t) \/ GivesUp(t)
    BY <2>2 DEF Reports, GivesUp, disk, Inv
  <2> QED
    BY <2>1, <2>2
<1>3. Honest(Idle, adapters', file')
  BY KindsDiffer DEF Honest
<1> QED
  BY <1>1, <1>2, <1>3, ToolMoves DEF Inv

-----------------------------------------------------------------------------
(* The developer, the revision and the bridge.                              *)

LEMMA HandKeeps ==
  ASSUME Inv, Installs \/ Removes \/ Restores
  PROVE  Inv'
<1>1. /\ \A t \in Tools : tool[t] = Idle
      /\ UNCHANGED <<points, tool, bridgeVars, local>>
  BY DEF Installs, Removes, Restores, ByHand
<1>2. \A t \in Tools : Honest(tool[t], adapters, file)'
  BY <1>1, KindsDiffer DEF Honest
<1>3. file' \in [Files -> Commits \cup {None, Torn}]
  BY DEF Installs, Removes, Restores, Inv, Files, Trial
<1>4. adapters' \in [Versions -> {None, "partial", "whole"}]
  BY DEF Installs, Removes, Restores, Inv
<1>5. manifest' # Torn => Truthful(manifest', adapters')
  <2>1. CASE Restores
    <3>1. manifest' = Shipped
      BY <2>1 DEF Restores
    <3>2. Truthful(Shipped, adapters')
      BY UpstreamAssumption DEF Shipped, Truthful, Manifests, Entries, NoEntry, Statuses, Evidence
    <3> QED
      BY <3>1, <3>2
  <2>2. CASE Removes
    <3>1. ASSUME manifest # Torn, NEW v \in Versions, adapters'[v] # adapters[v]
          PROVE  manifest.entries[v] = NoEntry
      BY <2>2, <3>1 DEF Removes, Inv
    <3>2. manifest' = manifest
      BY <2>2 DEF Removes
    <3>3. \A v \in Versions : manifest # Torn => adapters'[v] = adapters[v] \/ manifest.entries[v] = NoEntry
      BY <3>1
    <3> QED
      BY <3>2, <3>3 DEF Truthful, Inv
  <2>3. CASE Installs
    BY <2>3 DEF Installs, Inv
  <2> QED
    BY <2>1, <2>2, <2>3
<1>6. manifest' # Torn => Truthful(manifest, adapters)'
  BY <1>5 DEF Truthful
<1> QED
  BY <1>1, <1>2, <1>3, <1>4, <1>6 DEF Inv, bridgeVars, ServedMatches

LEMMA BridgeKeeps ==
  ASSUME Inv, LoadBegins \/ LoadHashes \/ LoadEnds
  PROVE  Inv'
<1>1. UNCHANGED <<disk, points, tool>>
  BY DEF LoadBegins, LoadHashes, LoadEnds
<1>2. bridge'.at \in {"found", "hashed"} => bridge'.sha = bridge'.commit
  <2>1. CASE LoadBegins
    <3>1. manifest.entries[manifest.default].sha = manifest.entries[manifest.default].commit
      BY <2>1 DEF LoadBegins, Inv, Truthful, Manifests
    <3> QED
      BY <2>1, <3>1 DEF LoadBegins
  <2>2. CASE LoadHashes
    BY <2>2 DEF LoadHashes, NotLoading, Inv
  <2>3. CASE LoadEnds
    BY <2>3 DEF LoadEnds, NotLoading
  <2> QED
    BY <2>1, <2>2, <2>3
<1>3. ServedMatches'
  <2>1. CASE LoadEnds /\ Matches(bridge)
    <3>1. bridge.sha = bridge.commit
      BY <2>1 DEF LoadEnds, Inv
    <3>2. bridge.found = bridge.commit
      BY <2>1, <3>1 DEF Matches, Inv
    <3> QED
      BY <2>1, <3>2 DEF LoadEnds, ServedMatches
  <2>2. CASE ~(LoadEnds /\ Matches(bridge))
    BY <2>2 DEF LoadBegins, LoadHashes, LoadEnds, ServedMatches, Inv
  <2> QED
    BY <2>1, <2>2
<1>4. \A t \in Tools : Honest(tool[t], adapters, file)'
  BY <1>1 DEF Inv, Honest, Truthful, disk
<1>5. manifest' # Torn => Truthful(manifest, adapters)'
  BY <1>1 DEF Inv, Truthful, disk
<1> QED
  BY <1>1, <1>2, <1>3, <1>4, <1>5 DEF Inv, disk

LEMMA QuietKeeps ==
  ASSUME Inv, RevisionMoves \/ UNCHANGED vars
  PROVE  Inv'
<1>1. points' \in Commits /\ UNCHANGED <<disk, tool, bridgeVars>>
  BY DEF RevisionMoves, vars, Inv
<1>2. \A t \in Tools : Honest(tool[t], adapters, file)'
  BY <1>1 DEF Inv, Honest, Truthful, disk
<1>3. manifest' # Torn => Truthful(manifest, adapters)'
  BY <1>1 DEF Inv, Truthful, disk
<1> QED
  BY <1>1, <1>2, <1>3 DEF Inv, disk, bridgeVars, ServedMatches

-----------------------------------------------------------------------------
LEMMA InitHolds == Init => Inv
<1> SUFFICES ASSUME Init PROVE Inv
  OBVIOUS
<1>1. tool \in [Tools -> {Idle} \cup Builders \cup Promoters \cup Writers \cup Downloaders]
  BY DEF Init
<1>2. /\ adapters \in [Versions -> {None, "partial", "whole"}]
      /\ file \in [Files -> Commits \cup {None, Torn}]
  BY UpstreamAssumption DEF Init
<1>3. Truthful(Shipped, adapters)
  BY UpstreamAssumption DEF Shipped, Truthful, Manifests, Entries, NoEntry, Statuses, Evidence
<1>4. \A t \in Tools : Honest(tool[t], adapters, file)
  BY KindsDiffer DEF Init, Honest
<1> QED
  BY <1>1, <1>2, <1>3, <1>4 DEF Init, Inv, NotLoading, ServedMatches

LEMMA NextKeeps == Inv /\ OneAtATime /\ [Next]_vars => Inv'
<1> SUFFICES ASSUME Inv, OneAtATime, [Next]_vars PROVE Inv'
  OBVIOUS
<1>1. ASSUME NEW t \in Tools, Step(t) PROVE Inv'
  BY <1>1, ScaffoldKeeps, BuildKeeps, ManifestKeeps, EndKeeps DEF Step
<1> QED
  BY <1>1, LaunchKeeps, HandKeeps, BridgeKeeps, QuietKeeps DEF Next

LEMMA InvSuffices == Inv => StableIsEvidenced /\ ServedMatches
<1> SUFFICES ASSUME Inv PROVE StableIsEvidenced
  BY DEF Inv
<1> SUFFICES ASSUME manifest # Torn, NEW v \in Versions \ {Base}, manifest.entries[v].status = "stable"
             PROVE  /\ manifest.entries[v].evidence = Evidence
                    /\ manifest.entries[v].sha = manifest.entries[v].commit
                    /\ adapters[v] = "whole"
  BY DEF StableIsEvidenced
<1>1. NoEntry.status # "stable"
  BY UpstreamAssumption DEF NoEntry, Statuses
<1> QED
  BY <1>1 DEF Inv, Truthful

(* Whatever was interrupted, moved, promoted or restored, an adapter that   *)
(* the tools made stable has its three kinds of evidence, a recorded server *)
(* of its own commit and a whole directory (upstream_update).               *)
THEOREM StableIsEarned == ASSUME OneAtATime PROVE Spec => []StableIsEvidenced
<1> QED
  BY InitHolds, NextKeeps, InvSuffices, PTL DEF Spec

(* The server that the bridge accepts is the one of the commit it speaks    *)
(* the protocol of, also when the files change while it loads               *)
(* (ScrcpyArtifact.from_repository).                                        *)
THEOREM ServerIsOfItsCommit == ASSUME OneAtATime PROVE Spec => []ServedMatches
<1> QED
  BY InitHolds, NextKeeps, InvSuffices, PTL DEF Spec

=============================================================================
