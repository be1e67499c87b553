---------------------------- MODULE UpstreamUpdate ----------------------------
(***************************************************************************)
(* The tools that prepare an update of scrcpy (tools/update_scrcpy.py,     *)
(* promote_scrcpy_adapter.py, build_scrcpy_server.py, download_server.py   *)
(* over droid_web_display/upstream_update) and what the bridge makes of    *)
(* the files they leave: the compatibility manifest, the adapter           *)
(* directories and the server files (scrcpy/artifact.py).                  *)
(*                                                                         *)
(* A tool may fail or be killed at every step, between the opening of a    *)
(* file and the end of its write too, and the bridge may load the server   *)
(* while a tool runs.  What a build yields is named by its commit, which   *)
(* also stands for its SHA-256; a file that is half written matches none.  *)
(* The target is a revision that may come to stand for another commit at   *)
(* any time (a branch, or a fetch).  A dirty checkout, git, a patch, the   *)
(* protocol inspection and Gradle appear as failures of the step.          *)
(***************************************************************************)
EXTENDS Naturals, FiniteSets

CONSTANTS Versions,     \* versions of scrcpy
          Base,         \* the one the repository starts from
          Commits,      \* commits of scrcpy
          BaseCommit,   \* the one of Base
          Tools,        \* tools that may run at the same time
          None, Torn,   \* what is not there; a file that is not whole
          MaxRuns,      \* bound on the runs of tools
          MaxByHand     \* bound on what the developer does between them

Statuses == {"experimental", "candidate", "stable"}
Evidence == {"automated", "browser", "hardware"}
NoCommit == "no commit"

ASSUME UpstreamAssumption ==
    /\ Base \in Versions
    /\ BaseCommit \in Commits
    /\ {NoCommit, Torn, None} \cap Commits = {}
    /\ None \notin Statuses \cup {"partial", "whole"}
    /\ None # Torn
    /\ {MaxRuns, MaxByHand} \subseteq Nat

VARIABLES manifest,   \* compatibility/scrcpy-versions.json, or Torn
          adapters,   \* the adapter directory of each version
          file,       \* what each server file holds
          local,      \* server/scrcpy-server.manifest.json
          points,     \* the commit that the target revision stands for
          tool,       \* what each tool is doing
          bridge,     \* how far ScrcpyArtifact.from_repository is
          served,     \* what it returned: the file's content, the entry's commit
          runs, byHand

disk == <<manifest, adapters, file, local>>
bridgeVars == <<bridge, served>>
vars == <<disk, points, tool, bridgeVars, runs, byHand>>

-----------------------------------------------------------------------------
Named(v) == <<"named", v>>      \* server/scrcpy-server-v<v>
Trial(v) == <<"trial", v>>      \* server/scrcpy-server-v<v>.experimental
Plain == <<"plain", Base>>      \* server/scrcpy-server
Files == {Plain} \cup ({"named", "trial"} \X Versions)

NoEntry == [status |-> None, commit |-> NoCommit, sha |-> NoCommit, evidence |-> {}]
Entries == [status : Statuses, commit : Commits, sha : Commits \cup {NoCommit}, evidence : SUBSET Evidence]

(* The manifest in the repository; Base was approved before there were      *)
(* browser reports.                                                         *)
Shipped ==
    [default |-> Base,
     entries |-> [v \in Versions |->
        IF v = Base
        THEN [status |-> "stable", commit |-> BaseCommit, sha |-> BaseCommit,
              evidence |-> {"automated", "hardware"}]
        ELSE NoEntry]]

Idle == [at |-> "idle"]
NotLoading == [at |-> "idle"]

Init ==
    /\ manifest = Shipped
    /\ adapters = [v \in Versions |-> IF v = Base THEN "whole" ELSE None]
    /\ file = [f \in Files |-> IF f = Named(Base) THEN BaseCommit ELSE None]
    /\ local = None
    /\ points \in Commits
    /\ tool = [t \in Tools |-> Idle]
    /\ bridge = NotLoading
    /\ served = None
    /\ runs = 0
    /\ byHand = 0

-----------------------------------------------------------------------------
(* tools/update_scrcpy.py goes through its stages in this order.            *)
Order == [scaffold |-> 1, build |-> 2, register |-> 3, report |-> 4]
Asked(o, stage) == stage \in o.options \cup {"report"}

Follows(o, stage) ==
    CHOOSE s \in DOMAIN Order :
        /\ Asked(o, s)
        /\ Order[s] > (IF stage = "start" THEN 0 ELSE Order[stage])
        /\ \A r \in DOMAIN Order :
              Asked(o, r) /\ Order[r] > (IF stage = "start" THEN 0 ELSE Order[stage])
                  => Order[s] <= Order[r]

Goes(t, o, at) == tool' = [tool EXCEPT ![t] = [o EXCEPT !.at = at]]
Ends(t) == tool' = [tool EXCEPT ![t] = Idle]

Launch(t) ==
    /\ tool[t] = Idle
    /\ runs < MaxRuns
    /\ runs' = runs + 1
    /\ UNCHANGED <<disk, points, bridgeVars, byHand>>

(* The manifest is read and the target resolved to a full commit.           *)
UpdateBegins(t) ==
    /\ Launch(t)
    /\ manifest # Torn
    /\ manifest.entries[manifest.default] # NoEntry
    /\ \E v \in Versions, options \in SUBSET {"scaffold", "build", "register", "automated"} :
          LET o == [job |-> "update", at |-> "start", version |-> v, commit |-> points,
                    base |-> manifest.default, options |-> options, out |-> Trial(v),
                    sha |-> NoCommit, scaffolded |-> FALSE]
          IN  Goes(t, o, Follows(o, "start"))

(* scaffold_adapter copies the directory of the default adapter.            *)
ScaffoldBegins(t) ==
    LET o == tool[t] IN
    /\ o.at = "scaffold"
    /\ adapters[o.base] # None
    /\ adapters[o.version] = None
    /\ adapters' = [adapters EXCEPT ![o.version] = "partial"]
    /\ Goes(t, o, "copying")
    /\ UNCHANGED <<manifest, file, local>>

ScaffoldEnds(t) ==
    LET o == [tool[t] EXCEPT !.scaffolded = TRUE] IN
    /\ tool[t].at = "copying"
    /\ adapters' = [adapters EXCEPT ![o.version] = "whole"]
    /\ Goes(t, o, Follows(o, "scaffold"))
    /\ UNCHANGED <<manifest, file, local>>

(* build_matching_server clones, patches and builds in a temporary          *)
(* directory, then copies the artifact over the output.                     *)
BuildTool(t) ==
    /\ Launch(t)
    /\ \E v \in Versions, out \in Files :
          tool' = [tool EXCEPT ![t] =
              [job |-> "build", at |-> "build", version |-> v, commit |-> points, out |-> out,
               options |-> {"build"}, sha |-> NoCommit, scaffolded |-> FALSE]]

BuildCommit(o) == o.commit

Built(t) ==
    LET o == tool[t] IN
    /\ o.at = "build"
    /\ file' = [file EXCEPT ![o.out] = Torn]
    /\ tool' = [tool EXCEPT ![t] = [o EXCEPT !.at = "written", !.sha = BuildCommit(o)]]
    /\ UNCHANGED <<manifest, adapters, local>>

Written(t) ==
    LET o == tool[t] IN
    /\ o.at = "written"
    /\ file' = [file EXCEPT ![o.out] = o.sha]
    /\ Goes(t, o, "hash")
    /\ UNCHANGED <<manifest, adapters, local>>

(* The hash is of the file as it is then; the manifest beside the output is *)
(* the one that the bridge reads only for server/scrcpy-server.             *)
Hashed(t) ==
    LET o == [tool[t] EXCEPT !.sha = file[tool[t].out]] IN
    /\ tool[t].at = "hash"
    /\ local' = IF o.out = Plain THEN Torn ELSE local
    /\ Goes(t, o, "noted")
    /\ UNCHANGED <<manifest, adapters, file>>

Noted(t) ==
    LET o == tool[t] IN
    /\ o.at = "noted"
    /\ local' = IF o.out = Plain THEN [commit |-> BuildCommit(o), sha |-> o.sha] ELSE local
    /\ IF o.job = "update" THEN Goes(t, o, Follows(o, "build")) ELSE Ends(t)
    /\ UNCHANGED <<manifest, adapters, file>>

-----------------------------------------------------------------------------
(* Path.write_text truncates the manifest before it writes it.              *)
Overwrites(t, o, new) ==
    /\ manifest' = Torn
    /\ tool' = [tool EXCEPT ![t] =
          [job |-> o.job, at |-> "writing", version |-> o.version, options |-> o.options,
           new |-> new]]
    /\ UNCHANGED <<adapters, file, local>>

Registered(o) ==
    [manifest.entries EXCEPT ![o.version] =
        [status |-> "experimental", commit |-> o.commit, sha |-> o.sha,
         evidence |-> IF "automated" \in o.options THEN {"automated"} ELSE {}]]

(* register_experimental_adapter reads the manifest again.                  *)
Register(t) ==
    LET o == tool[t] IN
    /\ o.at = "register"
    /\ o.scaffolded
    /\ manifest # Torn
    /\ manifest.entries[o.version] = NoEntry
    /\ Overwrites(t, o, [manifest EXCEPT !.entries = Registered(o)])

ManifestWritten(t) ==
    LET o == tool[t] IN
    /\ o.at = "writing"
    /\ manifest' = o.new
    /\ IF o.job = "update" THEN Goes(t, o, "report") ELSE Ends(t)
    /\ UNCHANGED <<adapters, file, local>>

(* generate_compatibility_report reads the manifest once more.              *)
Reports(t) ==
    /\ tool[t].at = "report"
    /\ manifest # Torn
    /\ Ends(t)
    /\ UNCHANGED disk

-----------------------------------------------------------------------------
PromoteTool(t) ==
    /\ Launch(t)
    /\ \E v \in Versions, status \in Statuses, given \in SUBSET Evidence, dflt \in BOOLEAN :
          tool' = [tool EXCEPT ![t] =
              [job |-> "promote", at |-> "promote", version |-> v, status |-> status,
               given |-> given, default |-> dflt, options |-> {}]]

Gathered(o) == manifest.entries[o.version].evidence \cup o.given

Allowed(o) ==
    /\ o.status \in {"candidate", "stable"} => "automated" \in Gathered(o)
    /\ o.status = "stable" =>
          /\ Gathered(o) = Evidence
          /\ manifest.entries[o.version].sha # NoCommit
          /\ adapters[o.version] # None
    /\ o.default => o.status = "stable"

(* Mutant of Promoted: only the evidence of this call is kept.              *)
PromotedAfresh(o) ==
    [default |-> IF o.default THEN o.version ELSE manifest.default,
     entries |-> [manifest.entries EXCEPT ![o.version].status = o.status,
                                          ![o.version].evidence = o.given]]

Promoted(o) ==
    [default |-> IF o.default THEN o.version ELSE manifest.default,
     entries |-> [manifest.entries EXCEPT ![o.version].status = o.status,
                                          ![o.version].evidence = Gathered(o)]]

Promote(t) ==
    LET o == tool[t] IN
    /\ o.at = "promote"
    /\ manifest # Torn
    /\ manifest.entries[o.version] # NoEntry
    /\ Allowed(o)
    /\ Overwrites(t, o, Promoted(o))

(* tools/download_server.py checks a temporary file and renames it.         *)
Download(t) ==
    /\ Launch(t)
    /\ tool' = [tool EXCEPT ![t] = [job |-> "download", at |-> "download", version |-> Base, options |-> {}]]

Downloaded(t) ==
    /\ tool[t].at = "download"
    /\ manifest # Torn
    /\ LET v == manifest.default IN
          /\ manifest.entries[v].sha # NoCommit
          /\ file[Named(v)] = None
          /\ file' = [file EXCEPT ![Named(v)] = manifest.entries[v].sha]
    /\ Ends(t)
    /\ UNCHANGED <<manifest, adapters, local>>

(* A check that fails, git, a patch or Gradle that fails, or a kill.        *)
GivesUp(t) ==
    /\ tool[t] # Idle
    /\ Ends(t)
    /\ UNCHANGED disk

Step(t) ==
    /\ \/ ScaffoldBegins(t)
       \/ ScaffoldEnds(t)
       \/ Built(t)
       \/ Written(t)
       \/ Hashed(t)
       \/ Noted(t)
       \/ Register(t)
       \/ Promote(t)
       \/ ManifestWritten(t)
       \/ Reports(t)
       \/ Downloaded(t)
       \/ GivesUp(t)
    /\ UNCHANGED <<points, bridgeVars, runs, byHand>>

-----------------------------------------------------------------------------
(* The developer, between two runs: takes a built server into use or removes *)
(* one, removes the scaffold of a run that was not finished, restores the   *)
(* manifest.                                                                *)
ByHand ==
    /\ \A t \in Tools : tool[t] = Idle
    /\ byHand < MaxByHand
    /\ byHand' = byHand + 1
    /\ UNCHANGED <<points, tool, bridgeVars, runs>>

Installs ==
    /\ ByHand
    /\ \E v \in Versions :
          /\ file[Trial(v)] # None
          /\ file' = [file EXCEPT ![Named(v)] = file[Trial(v)]]
    /\ UNCHANGED <<manifest, adapters, local>>

Removes ==
    /\ ByHand
    /\ \/ \E f \in Files : file[f] # None /\ file' = [file EXCEPT ![f] = None] /\ UNCHANGED adapters
       \/ \E v \in Versions :
             /\ manifest # Torn /\ manifest.entries[v] = NoEntry
             /\ adapters[v] # None
             /\ adapters' = [adapters EXCEPT ![v] = None]
             /\ UNCHANGED file
    /\ UNCHANGED <<manifest, local>>

Restores ==
    /\ ByHand
    /\ manifest = Torn
    /\ manifest' = Shipped
    /\ UNCHANGED <<adapters, file, local>>

RevisionMoves ==
    /\ \E c \in Commits \ {points} : points' = c
    /\ UNCHANGED <<disk, tool, bridgeVars, runs, byHand>>

-----------------------------------------------------------------------------
(* ScrcpyArtifact.from_repository reads the manifest, hashes the first file *)
(* that exists and reads the local manifest, one after the other.           *)
LoadBegins ==
    /\ bridge = NotLoading
    /\ manifest # Torn
    /\ LET e == manifest.entries[manifest.default] IN
          /\ e # NoEntry
          /\ e.sha # NoCommit
          /\ bridge' = [at |-> "found", version |-> manifest.default, commit |-> e.commit, sha |-> e.sha]
    /\ UNCHANGED <<disk, points, tool, served, runs, byHand>>

Candidate(v) ==
    IF file[Named(v)] # None THEN file[Named(v)] ELSE file[Plain]

LoadHashes ==
    /\ bridge.at = "found"
    /\ bridge' = IF Candidate(bridge.version) = None THEN NotLoading
                 ELSE [at |-> "hashed", commit |-> bridge.commit, sha |-> bridge.sha,
                       found |-> Candidate(bridge.version)]
    /\ UNCHANGED <<disk, points, tool, served, runs, byHand>>

(* Mutant of Matches: the local manifest vouches for its file by itself.    *)
MatchesBySha(b) ==
    /\ local # Torn
    /\ b.found \in {b.sha} \cup (IF local = None THEN {} ELSE {local.sha})

Matches(b) ==
    /\ local # Torn
    /\ local = None \/ local.commit = b.commit
    /\ b.found \in {b.sha} \cup (IF local = None THEN {} ELSE {local.sha})

LoadEnds ==
    /\ bridge.at = "hashed"
    /\ bridge' = NotLoading
    /\ served' = IF Matches(bridge) THEN [content |-> bridge.found, commit |-> bridge.commit] ELSE served
    /\ UNCHANGED <<disk, points, tool, runs, byHand>>

-----------------------------------------------------------------------------
Next ==
    \/ \E t \in Tools :
          UpdateBegins(t) \/ BuildTool(t) \/ PromoteTool(t) \/ Download(t) \/ Step(t)
    \/ Installs \/ Removes \/ Restores \/ RevisionMoves
    \/ LoadBegins \/ LoadHashes \/ LoadEnds

Spec == Init /\ [][Next]_vars

-----------------------------------------------------------------------------
(* The files have the shapes the tools give them.                           *)
TypeOK ==
    /\ manifest = Torn \/ manifest \in
          [default : Versions, entries : [Versions -> Entries \cup {NoEntry}]]
    /\ adapters \in [Versions -> {None, "partial", "whole"}]
    /\ file \in [Files -> Commits \cup {None, Torn}]
    /\ local \in {None, Torn} \/ local \in [commit : Commits, sha : Commits]
    /\ served = None \/ served \in [content : Commits, commit : Commits]

(* The server that the bridge accepts was built, whole, from the commit     *)
(* that the default adapter is for (ScrcpyArtifact.from_repository),        *)
(* whatever was built, moved, promoted or interrupted, also meanwhile.      *)
ServedMatches == served # None => served.content = served.commit

(* An adapter that the tools made stable has all three kinds of evidence, a *)
(* server built from its commit and a directory that was copied to its end  *)
(* (promote_adapter, scaffold_adapter, build_matching_server).              *)
StableIsEvidenced ==
    manifest # Torn =>
        \A v \in Versions \ {Base} :
            manifest.entries[v].status = "stable" =>
                /\ manifest.entries[v].evidence = Evidence
                /\ manifest.entries[v].sha = manifest.entries[v].commit
                /\ adapters[v] = "whole"

(* The default adapter is stable.  It does not hold: the default itself can *)
(* be demoted.                                                              *)
DefaultIsStable ==
    manifest # Torn => manifest.entries[manifest.default].status = "stable"

(* A stable adapter has its server.  It does not hold: the promotion looks  *)
(* at the form of the recorded SHA-256, not at a file.                      *)
StableHasServer ==
    [][\A t \in Tools :
          tool[t].at = "promote" /\ tool'[t].at = "writing" /\ tool[t].status = "stable"
              => \E f \in Files : file[f] = manifest.entries[tool[t].version].sha]_vars

=============================================================================
