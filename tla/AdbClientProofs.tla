--------------------------- MODULE AdbClientProofs ---------------------------
(***************************************************************************)
(* Theorems about AdbClient, for any number of requests of any kinds and   *)
(* any number of failures, timeouts and cancellations.                     *)
(***************************************************************************)
EXTENDS AdbClient, TLAPS

-----------------------------------------------------------------------------
(* No adb child without a task that waits for it.                           *)

ChildInv ==
    /\ DOMAIN place = Requests
    /\ DOMAIN reaping = Requests
    /\ child \subseteq Requests
    /\ NoChildLeft

(* A task that comes to another place takes its child along.                *)
LEMMA EnterKeepsChild ==
    ASSUME ChildInv, NEW r \in Requests, NEW p, Enter(r, p)
    PROVE  ChildInv'
    BY DEF ChildInv, NoChildLeft, Enter, Running

LEMMA RaisedKeepsChild ==
    ASSUME ChildInv, NEW r \in Requests, NEW why, Raised(r, why)
    PROVE  ChildInv'
    BY EnterKeepsChild DEF Raised

LEMMA KilledKeepsChild ==
    ASSUME ChildInv, NEW r \in Requests, NEW why, Killed(r, why)
    PROVE  ChildInv'
    BY DEF ChildInv, NoChildLeft, Killed, Running

LEMMA StillKeepsChild ==
    ASSUME ChildInv, UNCHANGED <<place, reaping, child>>
    PROVE  ChildInv'
    BY DEF ChildInv, NoChildLeft, Running

(* The steps of a request that go to one place or another.                  *)
LEMMA StepEnters ==
    ASSUME NEW r \in Requests, Asks(r) \/ Step(r) \/ DisplayMissing(r)
    PROVE  \/ \E p : Enter(r, p)
           \/ JarPushed(r) \/ ServerPushed(r) \/ Reaped(r)
<1>1. CASE Asks(r) \/ DisplayMissing(r) \/ ComesRound(r)
    BY <1>1 DEF Asks, DisplayMissing, ComesRound
<1>2. CASE VersionRead(r) \/ MemoryRead(r) \/ CodecsRead(r) \/ VolumesRead(r) \/ PicturesRead(r) \/ DisplaysRead(r)
    BY <1>2 DEF VersionRead, MemoryRead, CodecsRead, VolumesRead, PicturesRead, DisplaysRead, EndsWith
<1>3. CASE Listed(r) \/ MountsRead(r) \/ PackageChecked(r)
    BY <1>3 DEF Listed, MountsRead, PackageChecked
<1>4. CASE PropertiesRead(r) \/ UsageRead(r)
    BY <1>4 DEF PropertiesRead, UsageRead, Selected
<1>5. CASE Dumped(r) \/ LabelsRead(r)
    BY <1>5 DEF Dumped, LabelsRead, ListUsed
<1>6. CASE Launched(r) \/ PauseEnds(r) \/ Acquires(r)
    BY <1>6 DEF Launched, PauseEnds, Acquires
<1>7. CASE ServerSpawned(r) \/ DisplayAppears(r) \/ StateRead(r) \/ Looked(r) \/ RemoveRun(r) \/ IndexTold(r)
    BY <1>7 DEF ServerSpawned, DisplayAppears, StateRead, Looked, RemoveRun, IndexTold
<1> QED
    BY <1>1, <1>2, <1>3, <1>4, <1>5, <1>6, <1>7 DEF Step

LEMMA StepKeepsChild == ChildInv /\ [Next]_vars => ChildInv'
<1> SUFFICES ASSUME ChildInv, [Next]_vars PROVE ChildInv'
    OBVIOUS
<1>1. ASSUME NEW r \in Requests, Asks(r) \/ Step(r) \/ DisplayMissing(r) PROVE ChildInv'
    <2>1. CASE \E p : Enter(r, p)
        BY <2>1, EnterKeepsChild
    <2>2. CASE JarPushed(r) \/ ServerPushed(r)
        BY <2>2 DEF JarPushed, ServerPushed, Answers, Running, ChildInv, NoChildLeft, Commands
    <2>3. CASE Reaped(r)
        BY <2>3, RaisedKeepsChild DEF Reaped
    <2> QED
        BY <1>1, <2>1, <2>2, <2>3, StepEnters
<1>2. ASSUME NEW r \in Requests, Fails(r) PROVE ChildInv'
    BY <1>2, RaisedKeepsChild DEF Fails
<1>3. ASSUME NEW r \in Requests, TimesOut(r) PROVE ChildInv'
    BY <1>3, KilledKeepsChild DEF TimesOut
<1>4. ASSUME NEW r \in Requests, Cancelled(r) PROVE ChildInv'
    BY <1>4, KilledKeepsChild, RaisedKeepsChild, EnterKeepsChild
       DEF Cancelled, CancelledRunning, CancelledReaping, CancelledWaiting
<1>5. CASE TimePasses \/ AppMoves \/ FileChanges \/ SessionEnds \/ UNCHANGED vars
    BY <1>5, StillKeepsChild DEF TimePasses, AppMoves, FileChanges, SessionEnds, vars
<1> QED
    BY <1>1, <1>2, <1>3, <1>4, <1>5 DEF Next

(* Whatever fails, times out or is cancelled, and however many requests     *)
(* there are: a live adb child has a task that waits for it (run,           *)
(* _terminate).                                                             *)
THEOREM ChildrenAreWaitedFor == Spec => []NoChildLeft
<1>1. Init => ChildInv
    BY DEF Init, ChildInv, NoChildLeft
<1>2. ChildInv => NoChildLeft
    BY DEF ChildInv
<1> QED
    BY <1>1, <1>2, StepKeepsChild, PTL DEF Spec

-----------------------------------------------------------------------------
(* No success without the phone having shown it.                            *)

Labelling == {"lock", "push", "query", "fallback"}
Notes == [again : BOOLEAN, target : Requests \cup {NobodyYet, Earlier}, saw : BOOLEAN,
          met : BOOLEAN, reply : {"none", "ok", "sent"}]

(* The places that the kinds of request come to.                            *)
Fits(r, p) ==
    /\ p # "idle"
    /\ p = "dump" => kind[r] \in {"move", "running"}
    /\ p \in Labelling => kind[r] \in {"move", "running", "apps"}
    /\ p \in {"launch", "pause"} => kind[r] = "move"
    /\ p \in {"stat", "remove", "broadcast"} => kind[r] = "delete"

(* What was asked for is met whenever the phone shows it after the command. *)
Shown(r) ==
    /\ kind[r] = "move" /\ note[r].again /\ app = note[r].target => note[r].met
    /\ kind[r] = "delete" /\ note[r].again /\ ~file => note[r].met

(* What a request remembers at place p is evidence of the same.             *)
Remembers(r, p) ==
    /\ note[r].again => kind[r] \in {"move", "delete", "virtual"}
    /\ note[r].saw => p \in Labelling \cup {"done"} /\ (note[r].again => note[r].met)
    /\ p = "broadcast" => note[r].met
    /\ note[r].reply = "ok" => note[r].met

Evident(r) ==
    /\ note[r] \in Notes
    /\ IF place[r] = "idle" THEN ~note[r].again /\ ~note[r].saw ELSE Fits(r, place[r])
    /\ Shown(r)
    /\ Remembers(r, place[r])

EvidenceInv ==
    /\ DOMAIN place = Requests
    /\ DOMAIN note = Requests
    /\ \A r \in Requests : Evident(r)

(* A request moves, and nothing else happens.                               *)
LEMMA EnterKeepsEvidence ==
    ASSUME EvidenceInv, NEW r \in Requests, NEW p,
           place' = [place EXCEPT ![r] = p], Fits(r, p), Remembers(r, p),
           UNCHANGED <<kind, app, file, note>>
    PROVE  EvidenceInv'
<1>1. ASSUME NEW q \in Requests PROVE Evident(q)'
    <2>1. CASE q = r
        BY <2>1 DEF EvidenceInv, Evident, Fits, Shown, Remembers
    <2>2. CASE q # r
        BY <2>2 DEF EvidenceInv, Evident, Fits, Shown, Remembers
    <2> QED
        BY <2>1, <2>2
<1> QED
    BY <1>1 DEF EvidenceInv

(* A request moves and takes a note.                                        *)
LEMMA NoteKeepsEvidence ==
    ASSUME EvidenceInv, NEW r \in Requests, NEW p, NEW n \in Notes,
           place' = [place EXCEPT ![r] = p], note' = [note EXCEPT ![r] = n],
           UNCHANGED <<kind, app, file>>,
           Fits(r, p), Shown(r)', Remembers(r, p)'
    PROVE  EvidenceInv'
<1>1. ASSUME NEW q \in Requests PROVE Evident(q)'
    <2>1. CASE q = r
        BY <2>1 DEF EvidenceInv, Evident, Fits
    <2>2. CASE q # r
        BY <2>2 DEF EvidenceInv, Evident, Fits, Shown, Remembers
    <2> QED
        BY <2>1, <2>2
<1> QED
    BY <1>1 DEF EvidenceInv

(* The phone changes: every request takes note of what it shows.            *)
LEMMA PhoneKeepsEvidence ==
    ASSUME EvidenceInv, note' = Noticed(note), UNCHANGED <<kind, place>>
    PROVE  EvidenceInv'
<1>1. ASSUME NEW q \in Requests PROVE Evident(q)'
    <2>1. note'[q] = [note[q] EXCEPT !.met = @ \/ /\ note[q].again
                                                  /\ \/ kind[q] = "move" /\ app' = note[q].target
                                                     \/ kind[q] = "delete" /\ ~file']
        BY DEF Noticed
    <2>2. note'[q] \in Notes
        BY <2>1 DEF EvidenceInv, Evident, Notes
    <2>3. Shown(q)' /\ (note[q].met => note'[q].met)
        BY <2>1 DEF EvidenceInv, Evident, Notes, Shown
    <2>4. note'[q].again = note[q].again /\ note'[q].saw = note[q].saw /\ note'[q].reply = note[q].reply
        BY <2>1 DEF EvidenceInv, Evident, Notes
    <2> QED
        BY <2>2, <2>3, <2>4 DEF EvidenceInv, Evident, Fits, Remembers
<1> QED
    BY <1>1 DEF EvidenceInv, Noticed

(* The command of a request takes effect: the request waits for the proof.  *)
LEMMA CommandKeepsEvidence ==
    ASSUME EvidenceInv, NEW r \in Requests, NEW p \in {"pause", "stat"},
           place' = [place EXCEPT ![r] = p], kind' = kind,
           note' = Noticed([note EXCEPT ![r].again = TRUE]),
           kind[r] = IF p = "pause" THEN "move" ELSE "delete", ~note[r].saw
    PROVE  EvidenceInv'
<1> DEFINE n == [note EXCEPT ![r].again = TRUE]
<1>1. ASSUME NEW q \in Requests PROVE Evident(q)'
    <2>1. note'[q] = [n[q] EXCEPT !.met = @ \/ /\ n[q].again
                                               /\ \/ kind[q] = "move" /\ app' = n[q].target
                                                  \/ kind[q] = "delete" /\ ~file']
        BY DEF Noticed
    <2>2. note[q] \in Notes /\ n[q] = IF q = r THEN [note[r] EXCEPT !.again = TRUE] ELSE note[q]
        BY DEF EvidenceInv, Evident
    <2>3. n[q] \in Notes
        <3>1. [note[r] EXCEPT !.again = TRUE] \in Notes
            BY DEF EvidenceInv, Evident, Notes
        <3> QED
            BY <2>2, <3>1
    <2> HIDE DEF n
    <2>4. note'[q] \in Notes /\ Shown(q)' /\ (n[q].met => note'[q].met)
        BY <2>1, <2>3 DEF Notes, Shown
    <2>5. /\ note'[q].again = n[q].again
          /\ note'[q].saw = n[q].saw
          /\ note'[q].reply = n[q].reply
        BY <2>1, <2>3 DEF Notes
    <2>6. CASE q = r
        BY <2>2, <2>4, <2>5, <2>6 DEF EvidenceInv, Evident, Fits, Remembers, Labelling
    <2>7. CASE q # r
        BY <2>2, <2>4, <2>5, <2>7 DEF EvidenceInv, Evident, Fits, Remembers
    <2> QED
        BY <2>6, <2>7
<1> QED
    BY <1>1 DEF EvidenceInv, Noticed

(* An error, a cancellation or a killed child sends the request on.         *)
LEMMA RaisedKeepsEvidence ==
    ASSUME EvidenceInv, NEW r \in Requests, NEW why, Raised(r, why),
           UNCHANGED <<kind, app, file>>
    PROVE  EvidenceInv'
<1>1. PICK p \in {"done", "fallback", "rest", "volumes"} :
          /\ place' = [place EXCEPT ![r] = p]
          /\ p = "fallback" => place[r] \in {"push", "query"}
          /\ p \in {"rest", "volumes"} => place[r] \in {"list", "mounts"}
          /\ place[r] \in {"push", "query"} => p \in {"fallback", "done"}
    BY DEF Raised, Enter
<1>2. Evident(r)
    BY DEF EvidenceInv
<1>3. Fits(r, p)
    BY <1>1, <1>2 DEF Evident, Fits, Labelling
<1>4. Remembers(r, p)
    <2>1. place[r] \in Labelling => p \in Labelling \cup {"done"}
        BY <1>1 DEF Labelling
    <2> QED
        BY <1>1, <1>2, <2>1 DEF Evident, Remembers
<1>5. CASE note' = note
    BY <1>1, <1>3, <1>4, <1>5, EnterKeepsEvidence
<1>6. CASE why = "error" /\ place[r] = "broadcast"
    <2> DEFINE n == [note[r] EXCEPT !.reply = "ok"]
    <2>1. note' = [note EXCEPT ![r] = n]
        BY <1>6 DEF Raised, Replies
    <2>2. n \in Notes /\ note'[r] = n
        BY <1>2, <2>1 DEF Evident, Notes, EvidenceInv
    <2>3. Shown(r)' /\ Remembers(r, p)'
        BY <1>1, <1>2, <1>6, <2>2 DEF Evident, Notes, Shown, Remembers, Labelling
    <2> HIDE DEF n
    <2> QED
        BY <1>1, <1>3, <2>1, <2>2, <2>3, NoteKeepsEvidence
<1> QED
    BY <1>5, <1>6 DEF Raised

(* What a request can find on the phone.                                    *)
PhoneInv ==
    /\ live \in Requests \cup {NobodyYet, Earlier}
    /\ file \in BOOLEAN

LEMMA AsksKeepsEvidence ==
    ASSUME EvidenceInv, PhoneInv, NEW r \in Requests, Asks(r)
    PROVE  EvidenceInv'
<1>1. Evident(r)
    BY DEF EvidenceInv
<1>2. CASE kind[r] # "move"
    <2>1. place' = [place EXCEPT ![r] = Entry(kind[r])] /\ UNCHANGED <<kind, app, file, note>>
        BY <1>2 DEF Asks, Enter, worldVars, phoneVars
    <2>2. Fits(r, Entry(kind[r])) /\ Remembers(r, Entry(kind[r]))
        BY <1>1, <1>2 DEF Asks, Evident, Fits, Remembers, Entry, Labelling
    <2> QED
        BY <2>1, <2>2, EnterKeepsEvidence
<1>3. CASE kind[r] = "move"
    <2> DEFINE n == [note[r] EXCEPT !.target = live]
    <2>1. PICK p \in {"dump", "done"} : place' = [place EXCEPT ![r] = p]
        BY <1>3 DEF Asks, Enter
    <2>2. note' = [note EXCEPT ![r] = n] /\ UNCHANGED <<kind, app, file>>
        BY <1>3 DEF Asks, worldVars, phoneVars
    <2>3. n \in Notes /\ note'[r] = n
        BY <1>1, <2>2 DEF Evident, Notes, EvidenceInv, PhoneInv
    <2>4. Fits(r, p) /\ Shown(r)' /\ Remembers(r, p)'
        BY <1>1, <1>3, <2>2, <2>3 DEF Asks, Evident, Notes, Fits, Shown, Remembers, Labelling
    <2> HIDE DEF n
    <2> QED
        BY <2>1, <2>2, <2>3, <2>4, NoteKeepsEvidence
<1> QED
    BY <1>2, <1>3

(* What is done with a list of tasks: a move has the proof, or has not.     *)
LEMMA ListUsedKeepsEvidence ==
    ASSUME EvidenceInv, NEW r \in Requests, NEW saw \in BOOLEAN, ListUsed(r, saw),
           kind[r] \in {"move", "running"},
           saw /\ note[r].again => note[r].met, UNCHANGED <<kind, app, file>>
    PROVE  EvidenceInv'
<1> DEFINE n == [note[r] EXCEPT !.saw = FALSE,
                                !.reply = IF note[r].again THEN IF saw THEN "ok" ELSE "sent" ELSE @]
<1>1. PICK p \in {"memory", "launch", "done"} :
          place' = [place EXCEPT ![r] = p] /\ (p = "launch" => kind[r] = "move")
    BY DEF ListUsed, Enter
<1>2. Evident(r) /\ note' = [note EXCEPT ![r] = n]
    BY DEF EvidenceInv, ListUsed
<1>3. n \in Notes /\ note'[r] = n
    BY <1>2 DEF Evident, Notes, EvidenceInv
<1>4. Fits(r, p)
    BY <1>1 DEF Fits, Labelling
<1>5. /\ n.again = note[r].again /\ n.met = note[r].met /\ n.target = note[r].target
      /\ ~n.saw
      /\ n.reply = "ok" => (note[r].again /\ saw) \/ note[r].reply = "ok"
    BY <1>2 DEF Evident, Notes
<1> HIDE DEF n
<1>6. Shown(r)' /\ Remembers(r, p)'
    BY <1>1, <1>2, <1>3, <1>5 DEF Evident, Shown, Remembers
<1> QED
    BY <1>1, <1>2, <1>3, <1>4, <1>6, NoteKeepsEvidence

LEMMA DumpedKeepsEvidence ==
    ASSUME EvidenceInv, NEW r \in Requests, Dumped(r)
    PROVE  EvidenceInv'
<1>1. /\ Evident(r)
      /\ place[r] = "dump"
      /\ kind[r] \in {"move", "running"}
      /\ UNCHANGED <<kind, app, file>>
    BY DEF EvidenceInv, Evident, Fits, Dumped, Answers, worldVars, phoneVars
<1>2. Sought(r) \in BOOLEAN /\ (Sought(r) /\ note[r].again => note[r].met)
    BY <1>1 DEF Sought, Evident, Notes, Shown, Remembers
<1>3. CASE ListUsed(r, Sought(r))
    BY <1>1, <1>2, <1>3, ListUsedKeepsEvidence
<1>4. CASE Enter(r, "lock") /\ note' = [note EXCEPT ![r].saw = Sought(r)]
    <2> DEFINE n == [note[r] EXCEPT !.saw = Sought(r)]
    <2>1. place' = [place EXCEPT ![r] = "lock"] /\ note' = [note EXCEPT ![r] = n]
        BY <1>4 DEF Enter
    <2>2. n \in Notes /\ note'[r] = n
        BY <1>1, <1>2, <2>1 DEF Evident, Notes, EvidenceInv
    <2>3. Fits(r, "lock") /\ Shown(r)' /\ Remembers(r, "lock")'
        BY <1>1, <1>2, <2>2 DEF Evident, Notes, Fits, Shown, Remembers, Labelling
    <2> HIDE DEF n
    <2> QED
        BY <1>1, <2>1, <2>2, <2>3, NoteKeepsEvidence
<1> QED
    BY <1>3, <1>4 DEF Dumped

LEMMA ReadKeepsEvidence ==
    ASSUME EvidenceInv, NEW r \in Requests, PropertiesRead(r) \/ UsageRead(r)
    PROVE  EvidenceInv'
<1>1. /\ Evident(r)
      /\ place[r] \in {"props", "usage"}
      /\ UNCHANGED <<kind, app, file>>
    BY DEF EvidenceInv, PropertiesRead, UsageRead, Answers, worldVars, phoneVars
<1>2. PICK p \in {"done", "lock", "dump", "package", "codecs", "list", "serverpush", "usage"} :
          /\ place' = [place EXCEPT ![r] = p]
          /\ p = "lock" => kind[r] = "apps"
          /\ p = "dump" => kind[r] = "running"
    BY DEF PropertiesRead, UsageRead, Selected, Enter
<1>3. Fits(r, p) /\ Remembers(r, p)
    BY <1>1, <1>2 DEF Evident, Fits, Remembers, Labelling
<1>4. CASE note' = note
    BY <1>1, <1>2, <1>3, <1>4, EnterKeepsEvidence
<1>5. CASE kind[r] = "virtual" /\ note' = [note EXCEPT ![r].again = TRUE]
    <2> DEFINE n == [note[r] EXCEPT !.again = TRUE]
    <2>1. note' = [note EXCEPT ![r] = n]
        BY <1>5
    <2>2. n \in Notes /\ note'[r] = n
        BY <1>1, <2>1 DEF Evident, Notes, EvidenceInv
    <2>3. Shown(r)' /\ Remembers(r, p)'
        BY <1>1, <1>2, <1>5, <2>2 DEF Evident, Notes, Shown, Remembers, Labelling
    <2> HIDE DEF n
    <2> QED
        BY <1>1, <1>2, <1>3, <2>1, <2>2, <2>3, NoteKeepsEvidence
<1> QED
    BY <1>4, <1>5 DEF PropertiesRead, UsageRead, SelectedAgain

LEMMA LabelsReadKeepsEvidence ==
    ASSUME EvidenceInv, NEW r \in Requests, LabelsRead(r)
    PROVE  EvidenceInv'
<1>1. /\ Evident(r)
      /\ place[r] \in {"query", "fallback"}
      /\ kind[r] \in {"move", "running", "apps"}
      /\ UNCHANGED <<kind, app, file>>
    BY DEF EvidenceInv, Evident, Fits, LabelsRead, Answers, worldVars, phoneVars, Labelling
<1>2. CASE Enter(r, "done") /\ UNCHANGED note
    <2>1. Fits(r, "done") /\ Remembers(r, "done")
        BY <1>1 DEF Evident, Fits, Remembers, Labelling
    <2> QED
        BY <1>1, <1>2, <2>1, EnterKeepsEvidence DEF Enter
<1>3. CASE kind[r] # "apps" /\ ListUsed(r, note[r].saw)
    <2>1. note[r].saw \in BOOLEAN /\ (note[r].saw /\ note[r].again => note[r].met)
        BY <1>1 DEF Evident, Notes, Remembers
    <2> QED
        BY <1>1, <1>3, <2>1, ListUsedKeepsEvidence
<1> QED
    BY <1>2, <1>3 DEF LabelsRead

LEMMA IndexToldKeepsEvidence ==
    ASSUME EvidenceInv, NEW r \in Requests, IndexTold(r)
    PROVE  EvidenceInv'
<1> DEFINE n == [note[r] EXCEPT !.reply = "ok"]
<1>1. /\ Evident(r)
      /\ place[r] = "broadcast"
      /\ place' = [place EXCEPT ![r] = "done"]
      /\ note' = [note EXCEPT ![r] = n]
      /\ UNCHANGED <<kind, app, file>>
    BY DEF EvidenceInv, IndexTold, Answers, Enter, Replies, worldVars, phoneVars
<1>2. n \in Notes /\ note'[r] = n
    BY <1>1 DEF Evident, Notes, EvidenceInv
<1>3. Fits(r, "done") /\ Shown(r)' /\ Remembers(r, "done")'
    BY <1>1, <1>2 DEF Evident, Notes, Fits, Shown, Remembers, Labelling
<1> HIDE DEF n
<1> QED
    BY <1>1, <1>2, <1>3, NoteKeepsEvidence

(* The steps that go on, take no note and leave the phone as it is.         *)
LEMMA StepKeepsEvidence ==
    ASSUME EvidenceInv, PhoneInv, NEW r \in Requests, Step(r) \/ DisplayMissing(r)
    PROVE  EvidenceInv'
<1>1. Evident(r)
    BY DEF EvidenceInv
<1>2. ASSUME NEW p, place' = [place EXCEPT ![r] = p], Fits(r, p), Remembers(r, p),
             UNCHANGED <<kind, app, file, note>>
      PROVE  EvidenceInv'
    BY <1>2, EnterKeepsEvidence
<1>3. CASE VersionRead(r) \/ MemoryRead(r) \/ CodecsRead(r) \/ VolumesRead(r) \/ PicturesRead(r) \/ DisplaysRead(r)
    <2>1. place[r] \in {"command", "memory", "codecs", "volumes", "pictures", "displaydump"}
        BY <1>3 DEF VersionRead, MemoryRead, CodecsRead, VolumesRead, PicturesRead, DisplaysRead, EndsWith, Answers
    <2>2. Fits(r, "done") /\ Remembers(r, "done")
        BY <1>1, <2>1 DEF Evident, Fits, Remembers, Labelling
    <2> QED
        BY <1>2, <1>3, <2>2 DEF VersionRead, MemoryRead, CodecsRead, VolumesRead, PicturesRead, DisplaysRead,
                                EndsWith, Enter, worldVars, phoneVars
<1>4. CASE Listed(r) \/ MountsRead(r) \/ PackageChecked(r) \/ ComesRound(r)
    <2>1. PICK p \in {"rest", "mounts", "done", "props", "volumes", "codecs", "list"} :
              place' = [place EXCEPT ![r] = p] /\ UNCHANGED <<kind, app, file, note>>
        BY <1>4 DEF Listed, MountsRead, PackageChecked, ComesRound, Enter, worldVars, phoneVars
    <2>2. place[r] \in {"list", "mounts", "package", "rest"}
        BY <1>4 DEF Listed, MountsRead, PackageChecked, ComesRound, Answers
    <2>3. Fits(r, p) /\ Remembers(r, p)
        BY <1>1, <2>1, <2>2 DEF Evident, Fits, Remembers, Labelling
    <2> QED
        BY <1>2, <2>1, <2>3
<1>5. CASE PauseEnds(r)
    <2>1. place[r] = "pause" /\ Fits(r, "dump") /\ Remembers(r, "dump")
        BY <1>1, <1>5 DEF PauseEnds, Evident, Fits, Remembers, Labelling
    <2> QED
        BY <1>2, <1>5, <2>1 DEF PauseEnds, Enter, worldVars, phoneVars
<1>6. CASE Acquires(r) \/ JarPushed(r)
    <2>1. PICK p \in {"push", "fallback", "query"} :
              place' = [place EXCEPT ![r] = p] /\ UNCHANGED <<kind, app, file, note>>
        BY <1>6 DEF Acquires, JarPushed, Enter, worldVars, phoneVars
    <2>2. place[r] \in {"lock", "push"}
        BY <1>6 DEF Acquires, JarPushed, Answers
    <2>3. Fits(r, p) /\ Remembers(r, p)
        BY <1>1, <2>1, <2>2 DEF Evident, Fits, Remembers, Labelling
    <2> QED
        BY <1>2, <2>1, <2>3
<1>7. CASE ServerPushed(r) \/ ServerSpawned(r) \/ DisplayAppears(r) \/ DisplayMissing(r)
    <2>1. PICK p \in {"forward", "display", "done", "displaydump"} :
              place' = [place EXCEPT ![r] = p] /\ UNCHANGED <<kind, app, file, note>>
        BY <1>7 DEF ServerPushed, ServerSpawned, DisplayAppears, DisplayMissing, Enter, worldVars, phoneVars
    <2>2. place[r] \in {"serverpush", "forward", "display"}
        BY <1>7 DEF ServerPushed, ServerSpawned, DisplayAppears, DisplayMissing, Answers
    <2>3. Fits(r, p) /\ Remembers(r, p)
        BY <1>1, <2>1, <2>2 DEF Evident, Fits, Remembers, Labelling
    <2> QED
        BY <1>2, <2>1, <2>3
<1>8. CASE StateRead(r)
    <2>1. PICK p \in {"stat", "pictures", "done"} :
              /\ place' = [place EXCEPT ![r] = p]
              /\ p = "stat" => kind[r] = "delete"
              /\ UNCHANGED <<kind, app, file, note>>
        BY <1>8 DEF StateRead, Enter, worldVars, phoneVars
    <2>2. place[r] = "state"
        BY <1>8 DEF StateRead, Answers
    <2>3. Fits(r, p) /\ Remembers(r, p)
        BY <1>1, <2>1, <2>2 DEF Evident, Fits, Remembers, Labelling
    <2> QED
        BY <1>2, <2>1, <2>3
<1>9. CASE Looked(r)
    <2>1. PICK p \in {"done", "remove", "broadcast"} :
              /\ place' = [place EXCEPT ![r] = p]
              /\ p = "broadcast" => ~file /\ file # note[r].again
              /\ UNCHANGED <<kind, app, file, note>>
        BY <1>9 DEF Looked, Enter, worldVars, phoneVars
    <2>2. place[r] = "stat"
        BY <1>9 DEF Looked
    <2>3. kind[r] = "delete"
        BY <1>1, <2>2 DEF Evident, Fits
    <2>4. p = "broadcast" => note[r].met
        <3>1. p = "broadcast" => ~file /\ note[r].again
            BY <1>1, <2>1 DEF Evident, Notes, PhoneInv
        <3> QED
            BY <1>1, <2>3, <3>1 DEF Evident, Shown
    <2>5. Fits(r, p) /\ Remembers(r, p)
        BY <1>1, <2>1, <2>2, <2>3, <2>4 DEF Evident, Fits, Remembers, Labelling
    <2> QED
        BY <1>2, <2>1, <2>5
<1>10. CASE Launched(r) \/ RemoveRun(r)
    <2>1. PICK p \in {"pause", "stat"} :
              /\ place' = [place EXCEPT ![r] = p]
              /\ place[r] = IF p = "pause" THEN "launch" ELSE "remove"
              /\ kind' = kind
              /\ note' = Noticed([note EXCEPT ![r].again = TRUE])
        BY <1>10 DEF Launched, RemoveRun, Enter, worldVars, Answers
    <2>2. kind[r] = (IF p = "pause" THEN "move" ELSE "delete") /\ ~note[r].saw
        BY <1>1, <2>1 DEF Evident, Fits, Remembers, Labelling
    <2> QED
        BY <2>1, <2>2, CommandKeepsEvidence
<1>11. CASE Reaped(r)
    <2>1. PICK why : Raised(r, why) /\ UNCHANGED <<kind, app, file>>
        BY <1>11 DEF Reaped, worldVars, phoneVars
    <2> QED
        BY <1>1, <2>1, RaisedKeepsEvidence
<1> QED
    BY <1>3, <1>4, <1>5, <1>6, <1>7, <1>8, <1>9, <1>10, <1>11, ReadKeepsEvidence, DumpedKeepsEvidence,
       LabelsReadKeepsEvidence, IndexToldKeepsEvidence DEF Step

LEMMA NextKeepsEvidence == EvidenceInv /\ PhoneInv /\ [Next]_vars => EvidenceInv' /\ PhoneInv'
<1> SUFFICES ASSUME EvidenceInv, PhoneInv, [Next]_vars PROVE EvidenceInv' /\ PhoneInv'
    OBVIOUS
<1>1. ASSUME NEW r \in Requests, Asks(r) PROVE EvidenceInv' /\ PhoneInv'
    BY <1>1, AsksKeepsEvidence DEF Asks, PhoneInv, phoneVars
<1>2. ASSUME NEW r \in Requests, Step(r) \/ DisplayMissing(r) PROVE EvidenceInv' /\ PhoneInv'
    <2>1. CASE UNCHANGED phoneVars
        BY <1>2, <2>1, StepKeepsEvidence DEF PhoneInv, phoneVars
    <2>2. CASE ServerSpawned(r) \/ DisplayAppears(r) \/ Launched(r) \/ RemoveRun(r)
        <3>1. PhoneInv'
            BY <2>2 DEF PhoneInv, ServerSpawned, DisplayAppears, Launched, RemoveRun
        <3> QED
            BY <1>2, <3>1, StepKeepsEvidence
    <2> QED
        BY <1>2, <2>1, <2>2 DEF Step, DisplayMissing, VersionRead, MemoryRead, CodecsRead, VolumesRead, PicturesRead,
            DisplaysRead, EndsWith, Listed, PropertiesRead, UsageRead, MountsRead, PackageChecked, Dumped, PauseEnds,
            Acquires, JarPushed, LabelsRead, ServerPushed, StateRead, Looked, IndexTold, Reaped, ComesRound
<1>3. ASSUME NEW r \in Requests, Fails(r) PROVE EvidenceInv' /\ PhoneInv'
    BY <1>3, RaisedKeepsEvidence DEF Fails, PhoneInv, phoneVars
<1>4. ASSUME NEW r \in Requests, TimesOut(r) \/ Cancelled(r) PROVE EvidenceInv' /\ PhoneInv'
    <2>1. UNCHANGED <<kind, app, file, live>>
        BY <1>4 DEF TimesOut, Cancelled, phoneVars
    <2>2. CASE \E why : Killed(r, why)
        <3>1. UNCHANGED <<place, note>>
            BY <2>2 DEF Killed
        <3> QED
            BY <2>1, <3>1 DEF EvidenceInv, Evident, Fits, Shown, Remembers, PhoneInv
    <2>3. CASE \E why : Raised(r, why)
        BY <2>1, <2>3, RaisedKeepsEvidence DEF PhoneInv
    <2>4. CASE CancelledWaiting(r)
        <3>1. place' = [place EXCEPT ![r] = "done"] /\ note' = note /\ place[r] # "idle"
            BY <2>4 DEF CancelledWaiting, Enter, Waits
        <3>2. Fits(r, "done") /\ Remembers(r, "done")
            BY <3>1 DEF EvidenceInv, Evident, Fits, Remembers, Labelling
        <3> QED
            BY <2>1, <3>1, <3>2, EnterKeepsEvidence DEF PhoneInv
    <2> QED
        BY <1>4, <2>2, <2>3, <2>4 DEF TimesOut, Cancelled, CancelledRunning, CancelledReaping
<1>5. CASE AppMoves \/ FileChanges \/ SessionEnds
    <2>1. note' = Noticed(note) /\ UNCHANGED <<kind, place>>
        BY <1>5 DEF AppMoves, FileChanges, SessionEnds, worldVars
    <2>2. PhoneInv'
        BY <1>5 DEF AppMoves, FileChanges, SessionEnds, PhoneInv
    <2> QED
        BY <2>1, <2>2, PhoneKeepsEvidence
<1>6. CASE TimePasses \/ UNCHANGED vars
    <2>1. UNCHANGED <<kind, place, note, live, app, file>>
        BY <1>6 DEF TimePasses, vars, worldVars, phoneVars
    <2> QED
        BY <2>1 DEF EvidenceInv, Evident, Fits, Shown, Remembers, PhoneInv
<1> QED
    BY <1>1, <1>2, <1>3, <1>4, <1>5, <1>6 DEF Next

(* However many moves and deletions run beside each other, and whatever     *)
(* the user, the sessions and failing commands do meanwhile: an answer that *)
(* reports success is backed by what the phone showed after the command     *)
(* (move_running_app, delete_android).                                      *)
THEOREM SuccessIsEvidenced == Spec => []AnswersAreEvidenced
<1>1. Init => EvidenceInv /\ PhoneInv
    BY AdbAssumption DEF Init, EvidenceInv, PhoneInv, Evident, Notes, Shown, Remembers
<1>2. EvidenceInv => AnswersAreEvidenced
    BY DEF EvidenceInv, Evident, Remembers, AnswersAreEvidenced
<1> QED
    BY <1>1, <1>2, NextKeepsEvidence, PTL DEF Spec

=============================================================================
