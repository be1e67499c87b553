------------------------- MODULE NetworkAccessProofs -------------------------
(***************************************************************************)
(* Theorems about NetworkAccess, for any tokens, PINs, clients and         *)
(* surroundings: what the authentication store promises holds through      *)
(* every change of the network, every failed write and every restart, and  *)
(* the firewall rule follows the configuration when nothing fails.         *)
(***************************************************************************)
EXTENDS NetworkAccess, FiniteSetTheorems, TLAPS

(* The parts of a store that the arguments depend on.                       *)
IsStore(s) ==
  /\ {"pin", "session"} \subseteq DOMAIN s
  /\ DOMAIN s.session = Tokens
  /\ \A t \in Tokens : "status" \in DOMAIN s.session[t]

(* Sessions only end from the store `old` to the store `new`.               *)
Keeps(new, old) ==
  \A t \in Tokens : new.session[t] = old.session[t] \/ new.session[t].status = "revoked"

(* What is true of the store, the file and the sessions.                    *)
StoreInv ==
  /\ IsStore(store) /\ IsStore(disk)
  /\ running \in BOOLEAN
  /\ ended \subseteq Tokens /\ granted \subseteq Tokens /\ change.revoked \subseteq Tokens
  /\ ~running => store = EmptyStore
  /\ RevocationIsFinal
  /\ \A t \in change.revoked : store.session[t].status = "revoked" /\ disk.session[t].status = "revoked"
  /\ \A t \in granted : Live(store, t) => disk.session[t] = store.session[t]
  /\ store.pin # None => disk.pin # None

(* What is true of main's loop, the requests and the change under way.      *)
FlowInv ==
  /\ "by" \in DOMAIN change /\ "todo" \in DOMAIN change /\ "revoked" \in DOMAIN change
  /\ DOMAIN request = Clients
  /\ \A c \in Clients : request[c].op = "logout" => request[c].token \in Tokens
  /\ stage \in {"down", "loading"} => ~running
  /\ Changing => running
  /\ stage \notin {"serving", "closing"} => ~Changing /\ \A c \in Clients : request[c] = Idle
  /\ ~Changing => change.revoked = {}

-----------------------------------------------------------------------------
(* The operators on stores.                                                 *)

LEMMA EmptyIsStore ==
  /\ IsStore(EmptyStore)
  /\ EmptyStore.pin = None
  /\ \A t \in Tokens : EmptyStore.session[t].status = "none"
  BY DEF IsStore, EmptyStore, NoSession

LEMMA CleanedKeeps ==
  ASSUME NEW s, IsStore(s)
  PROVE  IsStore(Cleaned(s)) /\ Keeps(Cleaned(s), s) /\ Cleaned(s).pin = s.pin
  BY DEF IsStore, Keeps, Cleaned

LEMMA RevokedKeeps ==
  ASSUME NEW s, IsStore(s), NEW T
  PROVE  /\ IsStore(Revoked(s, T)) /\ Keeps(Revoked(s, T), s) /\ Revoked(s, T).pin = s.pin
         /\ \A t \in Tokens \cap T : Revoked(s, T).session[t].status = "revoked"
  BY DEF IsStore, Keeps, Revoked

LEMMA PinKeeps ==
  ASSUME NEW s, NEW p, IsStore(s)
  PROVE  /\ IsStore([s EXCEPT !.pin = p])
         /\ [s EXCEPT !.pin = p].session = s.session
         /\ [s EXCEPT !.pin = p].pin = p
  BY DEF IsStore

LEMMA WithSessionAdds ==
  ASSUME NEW s, NEW t \in Tokens, NEW d, NEW mode, IsStore(s)
  PROVE  /\ IsStore(WithSession(s, t, d, mode))
         /\ WithSession(s, t, d, mode).pin = s.pin
         /\ \A u \in Tokens \ {t} : WithSession(s, t, d, mode).session[u] = s.session[u]
  BY DEF IsStore, WithSession, Session

-----------------------------------------------------------------------------
(* The store and the file.                                                  *)

(* Sessions end in memory, and with ok in the file; those whose end is      *)
(* acknowledged ended in both.                                              *)
LEMMA EndingKeepsStore ==
  ASSUME StoreInv, NEW new, NEW ok \in BOOLEAN, NEW T \in SUBSET Tokens,
         IsStore(new), Keeps(new, store),
         new.pin # None => store.pin # None,
         \A t \in T : new.session[t].status = "revoked",
         store' = new, disk' = (IF ok THEN new ELSE disk),
         running' = running, running \/ new = store, granted' = granted,
         change'.revoked \subseteq change.revoked \cup (IF ok THEN T ELSE {}),
         ended' \subseteq ended \cup change.revoked \cup (IF ok THEN T ELSE {})
  PROVE  StoreInv'
<1>1. \A t \in Tokens : Live(new, t) => new.session[t] = store.session[t]
  BY DEF Keeps, Live
<1>2. \A t \in change.revoked : new.session[t].status = "revoked"
  BY DEF StoreInv, Keeps
<1>3. RevocationIsFinal'
  BY <1>1, <1>2 DEF StoreInv, RevocationIsFinal, Live
<1>4. \A t \in change'.revoked : store'.session[t].status = "revoked" /\ disk'.session[t].status = "revoked"
  BY <1>2 DEF StoreInv
<1>5. \A t \in granted' : Live(store, t)' => disk'.session[t] = store'.session[t]
  BY <1>1 DEF StoreInv, Live
<1> QED
  BY <1>3, <1>4, <1>5 DEF StoreInv

(* The sessions, the store and the file stay as they are.                   *)
LEMMA SameKeepsStore ==
  ASSUME StoreInv, UNCHANGED <<store, disk, running, granted>>,
         change'.revoked \subseteq change.revoked,
         ended' \subseteq ended \cup change.revoked
  PROVE  StoreInv'
<1>1. Keeps(store, store)
  BY DEF Keeps
<1> QED
  BY <1>1, EndingKeepsStore, FALSE \in BOOLEAN, {} \in SUBSET Tokens DEF StoreInv

(* The file is written again, or a write fails.                             *)
LEMMA RewriteKeepsStore ==
  ASSUME StoreInv, NEW ok \in BOOLEAN, Persisted(store, ok), UNCHANGED <<store, running, granted>>,
         change'.revoked \subseteq change.revoked,
         ended' \subseteq ended \cup change.revoked
  PROVE  StoreInv'
<1>1. Keeps(store, store)
  BY DEF Keeps
<1> QED
  BY <1>1, EndingKeepsStore, {} \in SUBSET Tokens DEF StoreInv, Persisted

(* A session with a token that nothing knew.                                *)
LEMMA SessionKeepsStore ==
  ASSUME StoreInv, NEW new, NEW t \in Tokens, NEW ok \in BOOLEAN, Fresh(t), running,
         IsStore(new), \A u \in Tokens \ {t} : new.session[u] = store.session[u],
         disk' = (IF ok THEN new ELSE disk),
         store' = new \/ (~ok /\ store' = store),
         ~ok /\ store' = new => new.pin = store.pin,
         granted' = (IF ok THEN granted \cup {t} ELSE granted),
         UNCHANGED <<running, ended, change>>
  PROVE  StoreInv'
<1>1. t \notin ended \cup granted \cup change.revoked
  BY DEF StoreInv, Fresh
<1>2. \A u \in Tokens \ {t} : store'.session[u] = store.session[u]
  OBVIOUS
<1>3. IsStore(store') /\ IsStore(disk')
  BY DEF StoreInv
<1>4. IsStore(store)' /\ IsStore(disk)'
  BY <1>3 DEF IsStore
<1>5. RevocationIsFinal'
  BY <1>1, <1>2 DEF StoreInv, RevocationIsFinal, Live
<1>6. \A u \in change'.revoked : store'.session[u].status = "revoked" /\ disk'.session[u].status = "revoked"
  BY <1>1, <1>2 DEF StoreInv
<1>7. \A u \in granted' : Live(store, u)' => disk'.session[u] = store'.session[u]
  BY <1>1, <1>2 DEF StoreInv, Live
<1>8. store'.pin # None => disk'.pin # None
  BY DEF StoreInv
<1> QED
  BY <1>1, <1>4, <1>5, <1>6, <1>7, <1>8 DEF StoreInv

(* The process ends: the file is what is left.                              *)
LEMMA EndKeepsStore ==
  ASSUME StoreInv, store' = EmptyStore, running' = FALSE, UNCHANGED <<disk, granted, ended>>,
         change'.revoked = {}
  PROVE  StoreInv'
  BY EmptyIsStore DEF StoreInv, RevocationIsFinal, Live

LEMMA BootKeepsStore ==
  ASSUME StoreInv, Boot, change.revoked = {}, UNCHANGED change
  PROVE  StoreInv'
<1>1. IsStore(Cleaned(disk)) /\ Keeps(Cleaned(disk), disk) /\ Cleaned(disk).pin = disk.pin
  BY CleanedKeeps DEF StoreInv
<1>2. store' = Cleaned(disk) /\ disk' = store' /\ running' = TRUE /\ UNCHANGED <<granted, ended>>
  BY DEF Boot, Persisted, NotPersisted, ghosts
<1>3. IsStore(store)' /\ IsStore(disk)'
  BY <1>1, <1>2 DEF IsStore
<1>4. RevocationIsFinal'
  BY <1>1, <1>2 DEF StoreInv, RevocationIsFinal, Live, Keeps
<1> QED
  BY <1>2, <1>3, <1>4 DEF StoreInv

-----------------------------------------------------------------------------
(* Requests.                                                                *)

LEMMA ArrivalKeepsStore ==
  ASSUME StoreInv, UNCHANGED networkVars, NEW c \in Clients, Receives(c)
  PROVE  StoreInv'
<1>1. ASSUME NEW op \in Operations, NEW t \in Tokens, Arrives(c, op, t) PROVE StoreInv'
  <2>1. IsStore(Cleaned(store)) /\ Keeps(Cleaned(store), store) /\ Cleaned(store).pin = store.pin
    BY CleanedKeeps DEF StoreInv
  <2>2. /\ store' = Cleaned(store) /\ running /\ running' = running
        /\ UNCHANGED <<granted, ended, change>>
    BY <1>1 DEF Arrives, ghosts, networkVars
  <2>3. PICK ok \in BOOLEAN : disk' = IF ok THEN Cleaned(store) ELSE disk
    BY <1>1 DEF Arrives, Persisted, NotPersisted
  <2> QED
    BY <2>1, <2>2, <2>3, EndingKeepsStore, {} \in SUBSET Tokens
<1>2. ASSUME NEW op \in Operations, ArrivesOpen(c, op) PROVE StoreInv'
  BY <1>2, SameKeepsStore DEF ArrivesOpen, ghosts, networkVars
<1> QED
  BY <1>1, <1>2 DEF Receives

(* The sessions of T end; the PIN may change.                               *)
LEMMA EndedKeepsStore ==
  ASSUME StoreInv, NEW T \in SUBSET Tokens, NEW ok \in BOOLEAN, NEW pin,
         running, UNCHANGED <<running, granted>>,
         pin # None => store.pin # None,
         store' = [Revoked(store, T) EXCEPT !.pin = pin], Persisted(store', ok),
         change'.revoked \subseteq change.revoked \cup (IF ok THEN T ELSE {}),
         ended' \subseteq ended \cup change.revoked \cup (IF ok THEN T ELSE {})
  PROVE  StoreInv'
<1> DEFINE new == [Revoked(store, T) EXCEPT !.pin = pin]
<1>1. /\ IsStore(Revoked(store, T)) /\ Keeps(Revoked(store, T), store)
      /\ \A t \in T : Revoked(store, T).session[t].status = "revoked"
  BY RevokedKeeps DEF StoreInv
<1>2. /\ IsStore(new) /\ new.session = Revoked(store, T).session
      /\ new.pin = pin
  BY <1>1, PinKeeps
<1>3. Keeps(new, store) /\ \A t \in T : new.session[t].status = "revoked"
  BY <1>1, <1>2 DEF Keeps
<1>4. store' = new /\ disk' = IF ok THEN new ELSE disk
  BY DEF Persisted
<1> HIDE DEF new
<1> QED
  BY <1>2, <1>3, <1>4, EndingKeepsStore

LEMMA RevokedKeepsStore ==
  ASSUME StoreInv, NEW T \in SUBSET Tokens, NEW ok \in BOOLEAN,
         running, UNCHANGED <<running, granted>>,
         store' = Revoked(store, T), Persisted(store', ok),
         change'.revoked \subseteq change.revoked \cup (IF ok THEN T ELSE {}),
         ended' \subseteq ended \cup change.revoked \cup (IF ok THEN T ELSE {})
  PROVE  StoreInv'
<1>1. /\ IsStore(Revoked(store, T)) /\ Keeps(Revoked(store, T), store)
      /\ Revoked(store, T).pin = store.pin
      /\ \A t \in T : Revoked(store, T).session[t].status = "revoked"
  BY RevokedKeeps DEF StoreInv
<1>2. store' = Revoked(store, T) /\ disk' = IF ok THEN Revoked(store, T) ELSE disk
  BY DEF Persisted
<1> QED
  BY <1>1, <1>2, EndingKeepsStore

LEMMA LoopKeepsStore ==
  ASSUME StoreInv, FlowInv, UNCHANGED networkVars, NEW c \in Clients, OnLoop(c)
  PROVE  StoreInv'
<1>1. ASSUME NEW ok \in BOOLEAN, Logout(c, ok) PROVE StoreInv'
  <2>1. request[c].token \in Tokens
    BY <1>1 DEF Logout, Handling, FlowInv
  <2> QED
    BY <1>1, <2>1, RevokedKeepsStore, {request[c].token} \in SUBSET Tokens
       DEF Logout, Handling, Ends, networkVars
<1>2. ASSUME NEW ok \in BOOLEAN, NEW t \in Tokens, Revoke(c, t, ok) PROVE StoreInv'
  BY <1>2, RevokedKeepsStore, {t} \in SUBSET Tokens DEF Revoke, Handling, Ends, networkVars
<1>3. ASSUME NEW ok \in BOOLEAN, ListSessions(c, ok) PROVE StoreInv'
  <2>1. IsStore(Cleaned(store)) /\ Keeps(Cleaned(store), store) /\ Cleaned(store).pin = store.pin
    BY CleanedKeeps DEF StoreInv
  <2>2. /\ store' = Cleaned(store) /\ running /\ running' = running
        /\ UNCHANGED <<granted, ended, change>>
    BY <1>3 DEF ListSessions, Handling, ghosts, networkVars
  <2>3. PICK k \in BOOLEAN : disk' = IF k THEN Cleaned(store) ELSE disk
    BY <1>3 DEF ListSessions, Persisted, NotPersisted
  <2> QED
    BY <2>1, <2>2, <2>3, EndingKeepsStore, {} \in SUBSET Tokens
<1>4. CASE (\E t \in Tokens : RevokeNothing(c, t)) \/ OtherRequest(c)
  BY <1>4, SameKeepsStore DEF RevokeNothing, OtherRequest, ghosts, networkVars
<1> QED
  BY <1>1, <1>2, <1>3, <1>4 DEF OnLoop

LEMMA ThreadKeepsStore ==
  ASSUME StoreInv, UNCHANGED networkVars, NEW c \in Clients, NEW mode, InThread(c, mode)
  PROVE  StoreInv'
<1>1. ASSUME NEW p \in Pins, NEW t \in Tokens, NEW d, NEW ok \in BOOLEAN, Setup(c, p, t, d, mode, ok)
      PROVE  StoreInv'
  <2> DEFINE pinned == [store EXCEPT !.pin = p]
             new == WithSession(pinned, t, d, mode)
  <2>1. IsStore(pinned) /\ pinned.session = store.session
    BY PinKeeps DEF StoreInv
  <2>2. IsStore(new) /\ \A u \in Tokens \ {t} : new.session[u] = store.session[u]
    <3> HIDE DEF pinned
    <3> QED
      BY <2>1, WithSessionAdds
  <2>3. /\ Fresh(t) /\ running /\ UNCHANGED <<running, ended, change>>
        /\ disk' = (IF ok THEN new ELSE disk)
        /\ store' = (IF ok THEN new ELSE store)
        /\ granted' = (IF ok THEN granted \cup {t} ELSE granted)
    BY <1>1 DEF Setup, Handling, Persisted, networkVars
  <2> HIDE DEF new
  <2>4. store' = new \/ (~ok /\ store' = store)
    BY <2>3
  <2>5. ~ok /\ store' = new => new.pin = store.pin
    BY <2>3
  <2> QED
    BY <2>2, <2>3, <2>4, <2>5, SessionKeepsStore
<1>2. ASSUME NEW p \in Pins, NEW t \in Tokens, NEW d, NEW ok \in BOOLEAN, Login(c, p, t, d, mode, ok)
      PROVE  StoreInv'
  <2> DEFINE new == WithSession(store, t, d, mode)
  <2>1. IsStore(new) /\ new.pin = store.pin /\ \A u \in Tokens \ {t} : new.session[u] = store.session[u]
    BY WithSessionAdds DEF StoreInv
  <2>2. /\ Fresh(t) /\ running /\ UNCHANGED <<running, ended, change>>
        /\ disk' = (IF ok THEN new ELSE disk)
        /\ store' = new
        /\ granted' = (IF ok THEN granted \cup {t} ELSE granted)
    BY <1>2 DEF Login, Handling, Persisted, networkVars
  <2> HIDE DEF new
  <2> QED
    BY <2>1, <2>2, SessionKeepsStore
<1>3. ASSUME NEW guess \in Pins, NEW ok \in BOOLEAN, RevokeAll(c, guess, ok) PROVE StoreInv'
  BY <1>3, RevokedKeepsStore, LiveIn(store) \in SUBSET Tokens
     DEF RevokeAll, Handling, Ends, networkVars, LiveIn
<1>4. ASSUME NEW guess \in Pins, NEW p \in Pins, NEW ok \in BOOLEAN, ChangePin(c, guess, p, ok) PROVE StoreInv'
  <2>1. store.pin # None
    BY <1>4, AuthAssumption DEF ChangePin, Verifies
  <2>2. LiveIn(store) \in SUBSET Tokens
    BY DEF LiveIn
  <2>3. /\ store' = [Revoked(store, LiveIn(store)) EXCEPT !.pin = p]
        /\ Persisted(store', ok)
        /\ running /\ UNCHANGED <<running, granted, change>>
        /\ ended' = IF ok THEN ended \cup LiveIn(store) ELSE ended
    BY <1>4 DEF ChangePin, Handling, Ends, networkVars
  <2> QED
    BY <2>1, <2>2, <2>3, EndedKeepsStore
<1>5. CASE SetupRefused(c) \/ LoginRefused(c) \/ \E guess \in Pins : PinRejected(c, guess) \/ LoginUnsupported(c, guess)
  BY <1>5, SameKeepsStore DEF SetupRefused, LoginRefused, PinRejected, LoginUnsupported, ghosts, networkVars
<1> QED
  BY <1>1, <1>2, <1>3, <1>4, <1>5 DEF InThread

-----------------------------------------------------------------------------
(* The process, the changes of the network and the tools.                   *)

LEMMA ProceedsOn ==
  ASSUME FlowInv, NEW R, Proceeds(R) \/ (R = change.revoked /\ GivesUp)
  PROVE  /\ change' = NoChange \/ change' = [change EXCEPT !.todo = Tail(@), !.revoked = R]
         /\ change'.revoked \subseteq R
         /\ ended' \subseteq ended \cup R
<1>1. change' = NoChange \/ change' = [change EXCEPT !.todo = Tail(@), !.revoked = R]
  BY DEF Proceeds, GivesUp
<1>2. CASE change' = NoChange
  <2>1. change'.revoked = {}
    BY <1>2 DEF NoChange
  <2> QED
    BY <1>1, <2>1 DEF Proceeds, GivesUp
<1>3. CASE change' = [change EXCEPT !.todo = Tail(@), !.revoked = R]
  <2>1. change'.revoked = R
    BY <1>3 DEF FlowInv
  <2> QED
    BY <1>1, <2>1 DEF Proceeds, GivesUp
<1> QED
  BY <1>1, <1>2, <1>3

LEMMA ChangeKeepsStore ==
  ASSUME StoreInv, FlowInv, ChangeSteps
  PROVE  StoreInv'
<1>1. ASSUME NEW ok \in BOOLEAN, RevokesSessions(ok) PROVE StoreInv'
  <2>1. LiveIn(store) \in SUBSET Tokens
    BY DEF LiveIn
  <2>2. running
    BY <1>1 DEF FlowInv, RevokesSessions, Doing
  <2>3. /\ store' = Revoked(store, LiveIn(store)) /\ Persisted(store', ok)
        /\ UNCHANGED <<running, granted>>
    BY <1>1 DEF RevokesSessions
  <2>4. /\ change'.revoked \subseteq change.revoked \cup (IF ok THEN LiveIn(store) ELSE {})
        /\ ended' \subseteq ended \cup change.revoked \cup (IF ok THEN LiveIn(store) ELSE {})
    <3>1. CASE ok
      BY <1>1, <3>1, ProceedsOn DEF RevokesSessions
    <3>2. CASE ~ok
      BY <1>1, <3>2, ProceedsOn DEF RevokesSessions
    <3> QED
      BY <3>1, <3>2
  <2> QED
    BY <2>1, <2>2, <2>3, <2>4, RevokedKeepsStore
<1>2. ASSUME Proceeds(change.revoked) \/ GivesUp
      PROVE  change'.revoked \subseteq change.revoked /\ ended' \subseteq ended \cup change.revoked
  BY <1>2, ProceedsOn
<1>3. ASSUME NEW ok \in BOOLEAN, Audits(ok) PROVE StoreInv'
  BY <1>2, <1>3, RewriteKeepsStore DEF Audits
<1>4. ASSUME NEW ok \in BOOLEAN, SavesConfig(ok) PROVE StoreInv'
  BY <1>2, <1>4, SameKeepsStore DEF SavesConfig
<1>5. ASSUME NEW outcome \in Outcomes, ClosesRule(outcome) \/ OpensRule(outcome) PROVE StoreInv'
  BY <1>2, <1>5, SameKeepsStore DEF ClosesRule, OpensRule, Firewall
<1> QED
  BY <1>1, <1>3, <1>4, <1>5 DEF ChangeSteps

LEMMA ToolKeepsStore ==
  ASSUME StoreInv, FlowInv, ResetNetwork \/ Resetting
  PROVE  StoreInv'
<1>1. ~running /\ store = EmptyStore /\ change.revoked = {}
  BY DEF FlowInv, StoreInv, ResetNetwork, Resetting
<1>2. CASE Resetting
  BY <1>1, <1>2, EmptyIsStore DEF Resetting, ResetAuth, networkVars, StoreInv, RevocationIsFinal, Live
<1>3. CASE ResetNetwork
  <2> DEFINE clean == Cleaned(disk)
             T == IF disk.pin = None THEN {} ELSE LiveIn(clean)
  <2>1. IsStore(clean) /\ Keeps(clean, disk)
    BY CleanedKeeps DEF StoreInv
  <2>2. T \in SUBSET Tokens
    BY DEF LiveIn
  <2>3. /\ IsStore(Revoked(clean, T)) /\ Keeps(Revoked(clean, T), clean)
        /\ \A t \in T : Revoked(clean, T).session[t].status = "revoked"
    <3> HIDE DEF clean, T
    <3> QED
      BY <2>1, <2>2, RevokedKeeps
  <2>4. UNCHANGED <<store, running, granted, change>> /\ ended' = ended \cup T
    BY <1>3 DEF ResetNetwork
  <2>5. disk' = clean \/ disk' = Revoked(clean, T)
    BY <1>3 DEF ResetNetwork
  <2>6. disk' = clean => T = {}
    <3>1. CASE disk.pin = None
      BY <3>1
    <3>2. CASE disk.pin # None
      <4>1. disk' = Revoked(clean, T)
        BY <1>3, <3>2 DEF ResetNetwork
      <4> HIDE DEF clean
      <4> QED
        BY <2>2, <2>3, <3>2, <4>1 DEF LiveIn, Live
    <3> QED
      BY <3>1, <3>2
  <2> HIDE DEF clean, T
  <2>7. IsStore(disk')
    BY <2>1, <2>3, <2>5
  <2>8. IsStore(disk)'
    BY <2>7 DEF IsStore
  <2>9. \A t \in Tokens : Live(disk, t)' => Live(disk, t) /\ t \notin T
    BY <2>1, <2>3, <2>5, <2>6 DEF Keeps, Live
  <2>10. store'.pin = None /\ \A t \in Tokens : ~Live(store, t)'
    BY <1>1, <2>4, EmptyIsStore DEF Live
  <2>11. RevocationIsFinal'
    <3>1. \A t \in ended : ~Live(disk, t) /\ t \in Tokens
      BY DEF StoreInv, RevocationIsFinal
    <3>2. \A t \in ended \cup T : t \in Tokens /\ ~Live(disk, t)'
      BY <2>2, <2>9, <3>1
    <3> QED
      BY <2>4, <2>10, <3>2 DEF RevocationIsFinal
  <2>12. IsStore(store)'
    BY <2>4 DEF StoreInv, IsStore
  <2> QED
    BY <1>1, <2>2, <2>4, <2>8, <2>10, <2>11, <2>12 DEF StoreInv
<1> QED
  BY <1>2, <1>3

(* Every step keeps the store.                                              *)
LEMMA NextKeepsStore ==
  ASSUME StoreInv, FlowInv, [Next]_vars
  PROVE  StoreInv'
<1>1. CASE Start \/ Listen \/ Close \/ LosesCertificate \/ (\E c \in Clients : ChangeBegins(c)) \/ UNCHANGED vars
  <2>1. UNCHANGED <<store, disk, running, granted, ended>>
    BY <1>1 DEF Start, Listen, Close, LosesCertificate, ChangeBegins, ApplyBegins, DisableBegins, Begins,
                AuthStill, AuthIdle, ghosts, vars, authVars
  <2>2. change' = change \/ change'.revoked = {}
    BY <1>1 DEF Start, Listen, Close, LosesCertificate, ChangeBegins, ApplyBegins, DisableBegins, Begins,
                vars, networkVars
  <2> QED
    BY <2>1, <2>2, SameKeepsStore
<1>2. CASE Load
  BY <1>2, BootKeepsStore DEF Load, FlowInv
<1>3. CASE ListenFails \/ Reload \/ Stop
  BY <1>3, EndKeepsStore DEF ListenFails, Reload, Stop, Halt, FlowInv, ghosts
<1>4. CASE Killed
  BY <1>4, EndKeepsStore DEF Killed, NoChange, ghosts
<1>5. CASE Takes
  BY <1>5, ArrivalKeepsStore DEF Takes
<1>6. CASE \E c \in Clients : Handles(c)
  BY <1>6, LoopKeepsStore, ThreadKeepsStore DEF Handles
<1>7. CASE Rejecting
  BY <1>7, RewriteKeepsStore DEF Rejecting, RejectsClient, ghosts, networkVars
<1>8. CASE ClockTicks
  BY <1>8, SameKeepsStore DEF ClockTicks, Passes, Tick, ghosts, networkVars
<1> QED
  BY <1>1, <1>2, <1>3, <1>4, <1>5, <1>6, <1>7, <1>8, ChangeKeepsStore, ToolKeepsStore DEF Next

(* ... and the flow of requests and changes.                                *)
LEMMA ThreadAnswers ==
  ASSUME NEW c \in Clients, NEW mode, OnLoop(c) \/ InThread(c, mode)
  PROVE  Answered(c) /\ UNCHANGED running
<1>1. CASE OnLoop(c)
  BY <1>1 DEF OnLoop, Logout, Revoke, ListSessions, RevokeNothing, OtherRequest, Handling
<1>2. CASE InThread(c, mode)
  BY <1>2 DEF InThread, Setup, Login, SetupRefused, LoginRefused, PinRejected, LoginUnsupported, RevokeAll,
              ChangePin, Handling
<1> QED
  BY <1>1, <1>2

LEMMA NextKeepsFlow ==
  ASSUME FlowInv, [Next]_vars
  PROVE  FlowInv'
<1>1. CASE UNCHANGED <<request, change, stage, running>>
  BY <1>1 DEF FlowInv, Changing
<1>2. CASE Start \/ Load \/ Listen \/ Close
  <2>1. UNCHANGED <<request, change>>
    BY <1>2 DEF Start, Load, Listen, Close, Boot, AuthStill, AuthIdle
  <2>2. /\ stage' = "binding" => stage = "loading"
        /\ stage' \in {"loading", "binding", "serving", "closing"}
        /\ stage' = "loading" => stage = "down" /\ ~running'
        /\ Changing => running'
    <3>1. CASE Start
      BY <3>1 DEF Start, FlowInv
    <3>2. CASE Load
      BY <3>2 DEF Load, Boot
    <3>3. CASE Listen \/ Close
      BY <3>3 DEF Listen, Close, AuthStill, AuthIdle, FlowInv
    <3> QED
      BY <1>2, <3>1, <3>2, <3>3
  <2> QED
    BY <2>1, <2>2 DEF FlowInv, Changing
<1>3. CASE ListenFails
  <2>1. /\ UNCHANGED <<request, change>> /\ ~running' /\ ~Changing
        /\ \A c \in Clients : request[c] = Idle
    BY <1>3 DEF ListenFails, FlowInv
  <2> QED
    BY <2>1 DEF FlowInv, Changing
<1>4. CASE Reload \/ Stop \/ Killed
  <2>1. request' = [c \in Clients |-> Idle] /\ ~running' /\ (change' = NoChange \/ (~Changing /\ change' = change))
    BY <1>4 DEF Reload, Stop, Killed, Halt
  <2> QED
    BY <2>1 DEF FlowInv, Changing, NoChange, Idle, None
<1>5. ASSUME NEW c \in Clients, stage = "serving", Receives(c), UNCHANGED networkVars PROVE FlowInv'
  <2> DEFINE r == request'[c]
  <2>1. /\ DOMAIN request' = Clients /\ \A d \in Clients \ {c} : request'[d] = request[d]
        /\ r.op = "logout" => r.token \in Tokens
    <3>1. ASSUME NEW op \in Operations, NEW t \in Tokens, Arrives(c, op, t)
          PROVE  \/ request' = [request EXCEPT ![c] = [op |-> op, token |-> t]]
                 \/ request' = [request EXCEPT ![c] = Idle]
      BY <3>1 DEF Arrives
    <3>2. ASSUME NEW op \in Operations, ArrivesOpen(c, op)
          PROVE  request' = [request EXCEPT ![c] = [op |-> op, token |-> None]] /\ op # "logout"
      BY <3>2 DEF ArrivesOpen, Public
    <3>3. CASE \E op \in Operations, t \in Tokens : Arrives(c, op, t)
      BY <3>1, <3>3 DEF FlowInv, Idle, None
    <3>4. CASE \E op \in Operations : ArrivesOpen(c, op)
      BY <3>2, <3>4 DEF FlowInv
    <3> QED
      BY <1>5, <3>3, <3>4 DEF Receives
  <2>2. UNCHANGED <<running, change, stage>>
    BY <1>5 DEF Receives, Arrives, ArrivesOpen, networkVars
  <2> QED
    BY <1>5, <2>1, <2>2 DEF FlowInv, Changing
<1>6. ASSUME NEW c \in Clients, Handles(c) PROVE FlowInv'
  <2>1. request' = [request EXCEPT ![c] = Idle] /\ UNCHANGED <<running, change, stage>>
    BY <1>6, ThreadAnswers DEF Handles, Answered, networkVars
  <2> QED
    BY <2>1 DEF FlowInv, Changing, Idle, None
<1>7. ASSUME NEW c \in Clients, ChangeBegins(c) PROVE FlowInv'
  <2>1. PICK op \in {"apply", "disable"} :
            /\ request[c].op = op /\ running /\ UNCHANGED <<request, running, stage>>
            /\ "by" \in DOMAIN change' /\ "todo" \in DOMAIN change' /\ "revoked" \in DOMAIN change'
            /\ change'.revoked = {}
    BY <1>7 DEF ChangeBegins, ApplyBegins, DisableBegins, Begins
  <2>2. stage \in {"serving", "closing"}
    BY <2>1 DEF FlowInv, Idle, None
  <2> QED
    BY <2>1, <2>2 DEF FlowInv, Changing
<1>8. CASE ChangeSteps
  <2>1. Changing
    BY <1>8 DEF ChangeSteps, SavesConfig, Audits, RevokesSessions, ClosesRule, OpensRule, Doing
  <2>2. PICK R : Proceeds(R) \/ (R = change.revoked /\ GivesUp)
    BY <1>8 DEF ChangeSteps, SavesConfig, Audits, RevokesSessions, ClosesRule, OpensRule, Firewall
  <2>3. UNCHANGED <<running, stage>>
    BY <1>8 DEF ChangeSteps, SavesConfig, Audits, RevokesSessions, ClosesRule, OpensRule
  <2>4. request' = request \/ request' = [request EXCEPT ![change.by] = Idle]
    BY <2>2 DEF Proceeds, GivesUp
  <2>5. change' = NoChange \/ change' = [change EXCEPT !.todo = Tail(@), !.revoked = R]
    BY <2>2, ProceedsOn
  <2>6. /\ "by" \in DOMAIN change' /\ "todo" \in DOMAIN change' /\ "revoked" \in DOMAIN change'
        /\ change'.by = None => change'.revoked = {}
    <3>1. CASE change' = NoChange
      BY <3>1 DEF NoChange
    <3>2. CASE change' = [change EXCEPT !.todo = Tail(@), !.revoked = R]
      BY <2>1, <3>2 DEF FlowInv, Changing
    <3> QED
      BY <2>5, <3>1, <3>2
  <2> QED
    BY <2>1, <2>3, <2>4, <2>6 DEF FlowInv, Changing, Idle, None
<1>9. CASE Rejecting \/ ClockTicks \/ Resetting \/ ResetNetwork \/ LosesCertificate \/ UNCHANGED vars
  BY <1>1, <1>9 DEF Rejecting, RejectsClient, ClockTicks, Passes, Tick, Resetting, ResetAuth, ResetNetwork,
                    LosesCertificate, AuthIdle, vars, authVars, networkVars
<1> QED
  BY <1>2, <1>3, <1>4, <1>5, <1>6, <1>7, <1>8, <1>9 DEF Next, Takes

-----------------------------------------------------------------------------
LEMMA InitStore == Init => StoreInv /\ FlowInv
<1> SUFFICES ASSUME Init PROVE StoreInv /\ FlowInv
  OBVIOUS
<1>1. IsStore(disk)
  BY EmptyIsStore, PinKeeps DEF Init, AuthInit
<1>2. StoreInv
  BY <1>1, EmptyIsStore DEF Init, AuthInit, StoreInv, RevocationIsFinal, NoChange
<1>3. FlowInv
  BY DEF Init, AuthInit, FlowInv, NoChange, Changing, Idle, None
<1> QED
  BY <1>2, <1>3

LEMMA StoreSuffices == StoreInv => RevocationIsFinal /\ GrantIsDurable
  BY DEF StoreInv, GrantIsDurable, Accepted, Expired, Live

(* A session whose end was acknowledged, by logout, revocation, a new PIN,  *)
(* a change of the network or a recovery tool, is never let in again,       *)
(* through any failed writes and restarts (auth.py, network_apply).         *)
THEOREM AcknowledgedEndsAreFinal == Spec => []RevocationIsFinal
<1> QED
  BY InitStore, NextKeepsStore, NextKeepsFlow, StoreSuffices, PTL DEF Spec

(* A token that a browser was given works in the process that reads the     *)
(* file next as long as it works in this one, and no PIN is in force that   *)
(* the file does not have (auth.py, _persist).                              *)
THEOREM GrantsSurviveRestarts == Spec => []GrantIsDurable
<1> QED
  BY InitStore, NextKeepsStore, NextKeepsFlow, StoreSuffices, PTL DEF Spec

-----------------------------------------------------------------------------
(* The firewall rule.  CalmRuleFollows speaks of the moments between the    *)
(* changes; what is installed in the middle of one follows from the calls   *)
(* that are left to make.                                                   *)

Sensible(config) == /\ config.managed => config.mode = "lan"
                    /\ config.mode = "lan" => certificate = TRUE

HalfWay ==
  LET todo == change.todo
      old == change.previous
      new == change.config
  IN  \/ todo = <<"save", "close", "open", "audit", "revoke">> /\ rule = RuleFor(old)
      \/ todo = <<"close", "open", "audit", "revoke">> /\ rule = RuleFor(old) /\ network = new
      \/ todo = <<"open", "audit", "revoke">> /\ network = new /\ (~new.managed => rule = NoRule)
      \/ todo = <<"audit", "revoke">> /\ rule = RuleFor(network)
      \/ todo = <<"revoke">> /\ rule = RuleFor(network)
      \/ todo = <<"close", "save", "revoke", "audit">> /\ rule = RuleFor(old) /\ ~new.managed
      \/ todo = <<"save", "revoke", "audit">> /\ rule = NoRule /\ ~new.managed
      \/ todo = <<"revoke", "audit">> /\ rule = RuleFor(network)
      \/ todo = <<"audit">> /\ rule = RuleFor(network)

RuleInv ==
  /\ world \in Worlds
  /\ world.faults = 0 =>
       /\ faults = 0 /\ certificate \in BOOLEAN
       /\ Sensible(network)
       /\ {"by", "todo", "config", "previous", "revoked"} \subseteq DOMAIN change
       /\ IF Changing THEN Sensible(change.config) /\ HalfWay ELSE rule = RuleFor(network)

(* The surroundings stay what they are, and without faults none is counted. *)
LEMMA NoneFails ==
  ASSUME [Next]_vars, world.faults = 0, faults = 0
  PROVE  faults' = 0 /\ ~Fault
<1>1. ~(faults < world.faults)
  OBVIOUS
<1>2. ~Fault
  BY <1>1 DEF Fault
<1>3. ASSUME NEW s, NEW ok \in BOOLEAN, Persisted(s, ok)
      PROVE  ok /\ faults' = faults
  BY <1>1, <1>3 DEF Persisted
<1>4. ASSUME NEW c \in Clients, Handles(c) PROVE faults' = faults
  <2>1. CASE OnLoop(c)
    BY <1>3, <2>1 DEF OnLoop, Logout, Revoke, ListSessions, RevokeNothing, OtherRequest, NotPersisted
  <2>2. CASE InThread(c, active.mode)
    BY <1>3, <2>2 DEF InThread, Setup, Login, SetupRefused, LoginRefused, PinRejected, LoginUnsupported,
                      RevokeAll, ChangePin
  <2> QED
    BY <1>4, <2>1, <2>2 DEF Handles
<1>5. ASSUME ChangeSteps PROVE faults' = faults
  <2>1. ASSUME NEW ok \in BOOLEAN, SavesConfig(ok) PROVE faults' = faults
    BY <1>2, <2>1 DEF SavesConfig
  <2>2. ASSUME NEW ok \in BOOLEAN, Audits(ok) \/ RevokesSessions(ok) PROVE faults' = faults
    BY <1>3, <2>2 DEF Audits, RevokesSessions
  <2>3. ASSUME NEW outcome \in Outcomes, ClosesRule(outcome) PROVE faults' = faults
    BY <1>2, <2>3 DEF ClosesRule, Firewall
  <2>4. ASSUME NEW outcome \in Outcomes, OpensRule(outcome) PROVE faults' = faults
    BY <1>2, <2>4 DEF OpensRule, Firewall
  <2> QED
    BY <1>5, <2>1, <2>2, <2>3, <2>4 DEF ChangeSteps
<1>6. ASSUME Takes PROVE faults' = faults
  BY <1>3, <1>6 DEF Takes, Receives, Arrives, ArrivesOpen, NotPersisted
<1>7. ASSUME Load PROVE faults' = faults
  BY <1>3, <1>7, TRUE \in BOOLEAN DEF Load, Boot, NotPersisted
<1>8. ASSUME Start \/ Listen \/ Close \/ Reload \/ Stop PROVE faults' = faults
  BY <1>8 DEF Start, Listen, Close, Reload, Stop, Halt, AuthStill
<1>9. ASSUME Rejecting \/ ClockTicks \/ Resetting \/ ResetNetwork PROVE faults' = faults
  BY <1>3, <1>9 DEF Rejecting, RejectsClient, ClockTicks, Passes, Tick, Resetting, ResetAuth, ResetNetwork
<1>10. ASSUME \E c \in Clients : ChangeBegins(c) PROVE faults' = faults
  BY <1>10 DEF ChangeBegins, ApplyBegins, DisableBegins, Begins
<1>11. ASSUME ListenFails \/ Killed \/ LosesCertificate PROVE faults' = faults
  BY <1>2, <1>11 DEF ListenFails, Killed, LosesCertificate
<1>12. ASSUME UNCHANGED vars PROVE faults' = faults
  BY <1>12 DEF vars, authVars
<1> QED
  BY <1>2, <1>4, <1>5, <1>6, <1>7, <1>8, <1>9, <1>10, <1>11, <1>12 DEF Next

LEMMA WorldStays == ASSUME [Next]_vars PROVE world' = world
<1>1. ASSUME NEW c \in Clients, Handles(c) PROVE world' = world
  BY <1>1 DEF Handles, OnLoop, Logout, Revoke, ListSessions, RevokeNothing, OtherRequest, InThread, Setup,
     Login, SetupRefused, LoginRefused, PinRejected, LoginUnsupported, RevokeAll, ChangePin
<1>2. CASE ChangeSteps \/ Takes \/ \E c \in Clients : ChangeBegins(c)
  BY <1>2 DEF ChangeSteps, SavesConfig, Audits, RevokesSessions, ClosesRule, OpensRule, Takes, Receives,
     Arrives, ArrivesOpen, ChangeBegins, ApplyBegins, DisableBegins, Begins
<1>3. CASE Start \/ Load \/ Listen \/ ListenFails \/ Close \/ Reload \/ Stop \/ Killed
  BY <1>3 DEF Start, Load, Listen, ListenFails, Close, Reload, Stop, Killed, Boot, Halt, AuthStill, AuthIdle
<1>4. CASE Rejecting \/ ClockTicks \/ Resetting \/ ResetNetwork \/ LosesCertificate \/ UNCHANGED vars
  BY <1>4 DEF Rejecting, RejectsClient, ClockTicks, Passes, Tick, Resetting, ResetAuth, ResetNetwork,
     LosesCertificate, AuthIdle, vars, authVars
<1> QED
  BY <1>1, <1>2, <1>3, <1>4 DEF Next

(* Most steps leave the rule and the configuration alone.                   *)
LEMMA RuleStays ==
  ASSUME RuleInv, world' \in Worlds, world' = world, world.faults = 0 => faults' = 0,
         UNCHANGED <<network, rule, certificate, change>>
  PROVE  RuleInv'
  BY DEF RuleInv, Sensible, HalfWay, Changing, RuleFor

LEMMA Lists ==
  /\ Tail(<<"save", "close", "open", "audit", "revoke">>) = <<"close", "open", "audit", "revoke">>
  /\ Tail(<<"close", "open", "audit", "revoke">>) = <<"open", "audit", "revoke">>
  /\ Tail(<<"open", "audit", "revoke">>) = <<"audit", "revoke">>
  /\ Tail(<<"audit", "revoke">>) = <<"revoke">>
  /\ Tail(<<"close", "save", "revoke", "audit">>) = <<"save", "revoke", "audit">>
  /\ Tail(<<"save", "revoke", "audit">>) = <<"revoke", "audit">>
  /\ Tail(<<"revoke", "audit">>) = <<"audit">>
  OBVIOUS

(* A call that is not the last one leads to the rest of the plan.           *)
LEMMA Moves ==
  ASSUME RuleInv, world.faults = 0, Changing, NEW R, Proceeds(R)
  PROVE  \/ Len(change.todo) = 1 /\ change' = NoChange
         \/ /\ Len(change.todo) # 1
            /\ change'.todo = Tail(change.todo) /\ change'.by = change.by
            /\ change'.config = change.config /\ change'.previous = change.previous
            /\ {"by", "todo", "config", "previous", "revoked"} \subseteq DOMAIN change'
<1>1. CASE Last
  BY <1>1 DEF Proceeds, Last
<1>2. CASE ~Last
  <2>1. change' = [change EXCEPT !.todo = Tail(@), !.revoked = R]
    BY <1>2 DEF Proceeds
  <2> QED
    BY <1>2, <2>1 DEF Last, RuleInv
<1> QED
  BY <1>1, <1>2

LEMMA CallsKeepRule ==
  ASSUME RuleInv, FlowInv, ChangeSteps, world' \in Worlds, world' = world, world.faults = 0, faults' = 0, ~Fault
  PROVE  RuleInv'
<1>1. Changing /\ change.todo # <<>> /\ UNCHANGED certificate
  BY DEF ChangeSteps, SavesConfig, Audits, RevokesSessions, ClosesRule, OpensRule, Doing, RuleInv, HalfWay
<1>2. Sensible(change.config) /\ Sensible(network) /\ HalfWay /\ certificate \in BOOLEAN /\ faults = 0
  BY <1>1 DEF RuleInv
<1>3. ASSUME NEW s, NEW ok \in BOOLEAN, Persisted(s, ok) PROVE ok
  BY <1>2, <1>3 DEF Persisted
<1>4. PICK R : Proceeds(R)
  <2>1. ASSUME NEW ok \in BOOLEAN, SavesConfig(ok) PROVE Proceeds(change.revoked)
    BY <2>1 DEF SavesConfig
  <2>2. ASSUME NEW ok \in BOOLEAN, Audits(ok) PROVE Proceeds(change.revoked)
    BY <1>3, <2>2 DEF Audits
  <2>3. ASSUME NEW ok \in BOOLEAN, RevokesSessions(ok) PROVE Proceeds(LiveIn(store))
    BY <1>3, <2>3 DEF RevokesSessions
  <2>4. ASSUME NEW outcome \in Outcomes, ClosesRule(outcome) \/ OpensRule(outcome)
        PROVE  Proceeds(change.revoked)
    BY <2>4 DEF ClosesRule, OpensRule, Firewall
  <2> QED
    BY <2>1, <2>2, <2>3, <2>4 DEF ChangeSteps
<1> DEFINE Goes == IF Changing THEN Sensible(change.config) /\ HalfWay ELSE rule = RuleFor(network)
<1>5. SUFFICES ASSUME TRUE
               PROVE  /\ Sensible(network)'
                      /\ {"by", "todo", "config", "previous", "revoked"} \subseteq DOMAIN change'
                      /\ Goes'
  BY <1>1, <1>2 DEF RuleInv
<1>6. {"by", "todo", "config", "previous", "revoked"} \subseteq DOMAIN change'
  BY <1>1, <1>4, Moves DEF NoChange
<1>7. network' \in {network, change.config}
  BY DEF ChangeSteps, SavesConfig, Audits, RevokesSessions, ClosesRule, OpensRule
<1>8. Sensible(network)'
  BY <1>1, <1>2, <1>7 DEF Sensible
<1>9. ASSUME NEW rest, Len(change.todo) # 1, rest = Tail(change.todo)
      PROVE  /\ change'.todo = rest /\ Changing' /\ Sensible(change.config)'
             /\ change'.config = change.config /\ change'.previous = change.previous
  BY <1>1, <1>2, <1>4, <1>9, Moves DEF Changing, Sensible
<1>10. ASSUME Len(change.todo) = 1 PROVE ~Changing'
  BY <1>1, <1>4, <1>10, Moves DEF Changing, NoChange
<1> HIDE DEF Goes
<1>11. ASSUME NEW ok \in BOOLEAN, SavesConfig(ok) PROVE Goes'
  <2>1. network' = change.config /\ UNCHANGED rule /\ Head(change.todo) = "save"
    BY <1>1, <1>11 DEF SavesConfig, Doing
  <2>2. CASE change.todo = <<"save", "close", "open", "audit", "revoke">>
    BY <1>2, <1>9, <2>1, <2>2, Lists DEF Goes, HalfWay, RuleFor
  <2>3. CASE change.todo = <<"save", "revoke", "audit">>
    BY <1>2, <1>9, <2>1, <2>3, Lists DEF Goes, HalfWay, RuleFor
  <2> QED
    BY <1>2, <2>1, <2>2, <2>3 DEF HalfWay
<1>12. ASSUME NEW outcome \in Outcomes, ClosesRule(outcome) PROVE Goes'
  <2>1. UNCHANGED network /\ Head(change.todo) = "close"
    BY <1>12 DEF ClosesRule, Doing
  <2>2. CASE change.todo = <<"close", "open", "audit", "revoke">>
    <3>1. network = change.config /\ rule = RuleFor(change.previous)
      BY <1>2, <2>2 DEF HalfWay
    <3>2. Len(change.todo) = Len(Plan("disable"))
      BY <2>2 DEF Plan
    <3>3. ~change.config.managed => rule' = NoRule
      BY <1>12, <3>1, <3>2 DEF ClosesRule, Firewall, RuleFor
    <3> QED
      BY <1>9, <2>1, <2>2, <3>1, <3>3, Lists DEF Goes, HalfWay
  <2>3. CASE change.todo = <<"close", "save", "revoke", "audit">>
    <3>1. ~change.config.managed /\ rule = RuleFor(change.previous)
      BY <1>2, <2>3 DEF HalfWay
    <3>2. rule' = NoRule
      BY <1>12, <3>1 DEF ClosesRule, Firewall, RuleFor
    <3> QED
      BY <1>9, <2>1, <2>3, <3>1, <3>2, Lists DEF Goes, HalfWay
  <2> QED
    BY <1>2, <2>1, <2>2, <2>3 DEF HalfWay
<1>13. ASSUME NEW outcome \in Outcomes, OpensRule(outcome) PROVE Goes'
  <2>1. UNCHANGED network /\ Head(change.todo) = "open"
    BY <1>13 DEF OpensRule, Doing
  <2>2. change.todo = <<"open", "audit", "revoke">>
    BY <1>2, <2>1 DEF HalfWay
  <2>3. network = change.config /\ (~change.config.managed => rule = NoRule)
    BY <1>2, <2>2 DEF HalfWay
  <2>4. rule' = RuleFor(network)
    BY <1>13, <2>3 DEF OpensRule, Firewall, RuleFor
  <2> QED
    BY <1>9, <2>1, <2>2, <2>4, Lists DEF Goes, HalfWay, RuleFor
<1>14. ASSUME NEW ok \in BOOLEAN, Audits(ok) \/ RevokesSessions(ok) PROVE Goes'
  <2>1. UNCHANGED <<network, rule>> /\ Head(change.todo) \in {"audit", "revoke"}
    BY <1>14 DEF Audits, RevokesSessions, Doing
  <2>2. rule = RuleFor(network) /\ change.todo \in {<<"audit", "revoke">>, <<"revoke">>, <<"revoke", "audit">>, <<"audit">>}
    BY <1>2, <2>1 DEF HalfWay
  <2>3. rule' = RuleFor(network')
    BY <2>1, <2>2 DEF RuleFor
  <2>4. CASE Len(change.todo) = 1
    BY <1>10, <2>3, <2>4 DEF Goes, RuleFor
  <2>5. CASE Len(change.todo) # 1
    BY <1>9, <2>2, <2>3, <2>5, Lists DEF Goes, HalfWay, RuleFor
  <2> QED
    BY <2>4, <2>5
<1> QED
  BY <1>6, <1>8, <1>11, <1>12, <1>13, <1>14 DEF ChangeSteps

LEMMA BeginningKeepsRule ==
  ASSUME RuleInv, NEW c \in Clients, ChangeBegins(c), c # None,
         world' \in Worlds, world' = world, world.faults = 0, faults' = 0
  PROVE  RuleInv'
<1>1. ~Changing /\ rule = RuleFor(network) /\ Sensible(network) /\ certificate \in BOOLEAN
  BY DEF ChangeBegins, ApplyBegins, DisableBegins, Begins, RuleInv
<1>2. ASSUME NEW op \in {"apply", "disable"}, NEW config, NEW guess, Begins(c, guess, op, config)
      PROVE  /\ change'.by = c /\ change'.todo = Plan(op) /\ change'.config = config
             /\ change'.previous = network
             /\ {"by", "todo", "config", "previous", "revoked"} \subseteq DOMAIN change'
  BY <1>2 DEF Begins
<1>3. ASSUME NEW guess, NEW config \in world.configs, ApplyBegins(c, guess, config) PROVE RuleInv'
  <2>1. config.managed => config.mode = "lan"
    BY NetworkAssumption DEF RuleInv
  <2>2. /\ certificate' \in BOOLEAN /\ UNCHANGED <<network, rule>>
        /\ config.mode = "lan" \/ certificate = TRUE => certificate' = TRUE
    BY <1>1, <1>3 DEF ApplyBegins
  <2>3. change'.by = c /\ change'.todo = Plan("apply") /\ change'.config = config /\ change'.previous = network
        /\ {"by", "todo", "config", "previous", "revoked"} \subseteq DOMAIN change'
    BY <1>2, <1>3 DEF ApplyBegins
  <2> QED
    BY <1>1, <2>1, <2>2, <2>3 DEF RuleInv, Sensible, HalfWay, Changing, RuleFor, Plan
<1>4. ASSUME NEW guess, DisableBegins(c, guess) PROVE RuleInv'
  <2>1. UNCHANGED <<network, rule, certificate>>
    BY <1>4 DEF DisableBegins
  <2>2. change'.by = c /\ change'.todo = Plan("disable") /\ change'.config = Local(network.port)
        /\ change'.previous = network
        /\ {"by", "todo", "config", "previous", "revoked"} \subseteq DOMAIN change'
    BY <1>2, <1>4 DEF DisableBegins
  <2> QED
    BY <1>1, <2>1, <2>2 DEF RuleInv, Sensible, HalfWay, Changing, RuleFor, Plan, Local
<1> QED
  BY <1>3, <1>4 DEF ChangeBegins

LEMMA NextKeepsRule ==
  ASSUME RuleInv, FlowInv, [Next]_vars
  PROVE  RuleInv'
<1>1. world' = world /\ world' \in Worlds
  BY WorldStays DEF RuleInv
<1>2. SUFFICES ASSUME world.faults = 0 PROVE RuleInv'
  BY <1>1 DEF RuleInv
<1>3. faults = 0 /\ faults' = 0 /\ ~Fault
  BY <1>2, NoneFails DEF RuleInv
<1>4. CASE Load
  <2>1. ~Changing /\ network' = network /\ UNCHANGED <<rule, certificate, change>>
    BY <1>2, <1>4 DEF Load, FlowInv, RuleInv, Sensible, Usable
  <2> QED
    BY <1>1, <1>3, <2>1, RuleStays
<1>5. CASE ResetNetwork
  <2>1. ~Changing /\ Sensible(network) /\ rule = RuleFor(network)
    BY <1>2, <1>5 DEF ResetNetwork, FlowInv, RuleInv
  <2>2. network' = Local(network.port) /\ rule' = NoRule /\ UNCHANGED <<certificate, change>>
    BY <1>5, <2>1 DEF ResetNetwork, Sensible, RuleFor
  <2> QED
    BY <1>1, <1>2, <1>3, <2>1, <2>2 DEF RuleInv, Sensible, Changing, RuleFor, Local
<1>6. ASSUME NEW c \in Clients, Handles(c) PROVE RuleInv'
  BY <1>1, <1>3, <1>6, RuleStays DEF Handles, networkVars
<1>7. CASE Start \/ Listen \/ Close \/ Reload \/ Stop \/ Takes \/ Rejecting \/ ClockTicks \/ Resetting \/ UNCHANGED vars
  <2>1. UNCHANGED <<network, rule, certificate, change>>
    BY <1>7 DEF Start, Listen, Close, Reload, Stop, Takes, Rejecting, ClockTicks, Resetting, networkVars, vars
  <2> QED
    BY <1>1, <1>3, <2>1, RuleStays
<1>8. ~ListenFails /\ ~Killed /\ ~LosesCertificate
  BY <1>3 DEF ListenFails, Killed, LosesCertificate
<1> QED
  BY <1>1, <1>2, <1>3, <1>4, <1>5, <1>6, <1>7, <1>8, CallsKeepRule, BeginningKeepsRule,
     NetworkAssumption DEF Next

(* Without faults, the rule that is installed when no change is under way   *)
(* is the one the stored configuration asks for, however the changes, the   *)
(* recoveries and the restarts follow each other (network_apply,            *)
(* network_disable, tools/reset_network_access.py).                         *)
THEOREM RuleFollowsConfig == Spec => []CalmRuleFollows
<1>1. Init => RuleInv
  <2> SUFFICES ASSUME Init PROVE RuleInv
    OBVIOUS
  <2>1. /\ {"by", "todo", "config", "previous", "revoked"} \subseteq DOMAIN change
        /\ ~Changing /\ certificate = FALSE /\ world \in Worlds /\ faults = 0
    BY DEF Init, AuthInit, NoChange, Changing
  <2>2. Sensible(network) /\ rule = RuleFor(network)
    BY DEF Init, Sensible, Local, RuleFor
  <2> QED
    BY <2>1, <2>2 DEF RuleInv
<1>2. RuleInv => CalmRuleFollows
  BY DEF RuleInv, CalmRuleFollows
<1> QED
  BY <1>1, <1>2, NextKeepsRule, InitStore, NextKeepsFlow, PTL DEF Spec

-----------------------------------------------------------------------------
(* The lockout.                                                             *)

(* How long, by LockTime, the n-th failure of a window lies behind its      *)
(* first one at least.                                                      *)
Locks(n) ==
  CASE n <= Threshold     -> 0
    [] n = Threshold + 1 -> 1
    [] n = Threshold + 2 -> 3
    [] n = Threshold + 3 -> 7
    [] OTHER             -> 15

(* The wrong PINs of the window before the current one, from its second on. *)
Previous(M, first) ==
  \E k \in 1..8 : \A m \in M :
     m[1] < first => m[2] \in 2..k /\ m[1] + Locks(k + 1) <= first + Locks(m[2])

Current(M, a) ==
  \A m \in M :
     m[1] >= a.first => /\ m[2] \in 1..a.failures
                        /\ m[1] <= a.first + Window
                        /\ m[2] = 1 => m[1] = a.first
                        /\ a.failures >= Threshold
                             => m[1] + Locks(a.failures + 1) <= a.locked + Locks(m[2])

Distinct(M, first) ==
  \A m, n \in M : m[2] = n[2] /\ (m[1] < first <=> n[1] < first) => m = n

(* What a client's failures a tell, at the time now, of its wrong PINs M.   *)
Counted(a, M, now) ==
  /\ a \in [failures : 0..8, first : Nat, locked : Nat]
  /\ M \subseteq Nat \X Nat
  /\ \A m \in M : m[1] <= now /\ now - m[1] <= Window
  /\ a.failures = 0 => M = {}
  /\ a.failures > 0 =>
        /\ a.first + Locks(a.failures) <= now
        /\ a.failures >= Threshold => a.locked >= a.first + Locks(a.failures + 1)
        /\ Current(M, a) /\ Previous(M, a.first) /\ Distinct(M, a.first)

GuessInv ==
  /\ world \in Worlds /\ clock \in Nat
  /\ DOMAIN attempts = Clients /\ DOMAIN misses = Clients
  /\ \A c \in Clients : Counted(attempts[c], misses[c], clock)

(* At most so many wrong PINs have their numbers in an interval.            *)
LEMMA NumbersBound ==
  ASSUME NEW S \in SUBSET (Nat \X Nat), NEW a \in Nat, NEW b \in Nat, a <= b + 1,
         \A m \in S : m[2] \in a..b,
         \A m, n \in S : m[2] = n[2] => m = n
  PROVE  IsFiniteSet(S) /\ Cardinality(S) <= b - a + 1
<1> DEFINE f == [m \in S |-> m[2]]
<1>1. f \in Injection(S, a..b)
  BY DEF Injection, IsInjective
<1>2. IsFiniteSet(a..b) /\ Cardinality(a..b) = b - a + 1
  BY FS_Interval
<1>3. IsFiniteSet(S) /\ Cardinality(S) <= Cardinality(a..b)
  BY <1>1, <1>2, FS_Injection
<1> QED
  BY <1>2, <1>3

(* Two windows have no room for more than thirteen: a long one needs the    *)
(* time that is taken from the other.                                       *)
LEMMA CountedSuffices ==
  ASSUME NEW a, NEW M, NEW now \in Nat, Counted(a, M, now)
  PROVE  Cardinality(M) <= 13
<1> DEFINE f == a.first
           old == {m \in M : m[1] < f}
           cur == {m \in M : ~(m[1] < f)}
<1>1. CASE a.failures = 0
  BY <1>1, FS_EmptySet DEF Counted
<1>2. CASE a.failures > 0
  <2>1. /\ a.failures \in 1..8 /\ f \in Nat /\ M \subseteq Nat \X Nat
        /\ f + Locks(a.failures) <= now
        /\ \A m \in M : now - m[1] <= Window
        /\ Current(M, a) /\ Distinct(M, f) /\ Previous(M, f)
    BY <1>2 DEF Counted
  <2>2. IsFiniteSet(cur) /\ Cardinality(cur) <= a.failures
    <3>1. \A m \in cur : m[2] \in 1..a.failures
      BY <2>1 DEF Current
    <3>2. \A m, n \in cur : m[2] = n[2] => m = n
      BY <2>1 DEF Distinct
    <3>3. cur \in SUBSET (Nat \X Nat)
      BY <2>1
    <3> HIDE DEF cur
    <3>4. IsFiniteSet(cur) /\ Cardinality(cur) <= a.failures - 1 + 1
      BY <2>1, <3>1, <3>2, <3>3, NumbersBound, 1 \in Nat, a.failures \in Nat, 1 <= a.failures + 1
    <3> QED
      BY <2>1, <3>4
  <2> DEFINE last == IF a.failures = 8 THEN 6 ELSE IF a.failures = 7 THEN 7 ELSE 8
  <2>3. ASSUME NEW m \in old PROVE m[2] \in 2..last
    <3>1. PICK k \in 1..8 : \A n \in M : n[1] < f => n[2] \in 2..k /\ n[1] + Locks(k + 1) <= f + Locks(n[2])
      BY <2>1 DEF Previous
    <3>2. m[1] \in Nat /\ m[2] \in 2..k /\ m[1] + Locks(k + 1) <= f + Locks(m[2])
          /\ f + Locks(a.failures) <= now /\ now - m[1] <= 10
      BY <2>1, <3>1 DEF Window
    <3>3. Locks(k + 1) - Locks(m[2]) <= 10 - Locks(a.failures)
      BY <2>1, <3>2 DEF Locks, Threshold
    <3>4. CASE a.failures = 8
      BY <2>1, <3>2, <3>3, <3>4 DEF Locks, Threshold
    <3>5. CASE a.failures = 7
      BY <2>1, <3>2, <3>3, <3>5 DEF Locks, Threshold
    <3>6. CASE a.failures < 7
      BY <2>1, <3>2, <3>6
    <3> QED
      BY <2>1, <3>4, <3>5, <3>6
  <2>4. IsFiniteSet(old) /\ Cardinality(old) <= last - 1
    <3>1. \A m, n \in old : m[2] = n[2] => m = n
      BY <2>1 DEF Distinct
    <3>2. old \in SUBSET (Nat \X Nat)
      BY <2>1
    <3>3. last \in Nat /\ 2 <= last + 1
      BY <2>1
    <3> HIDE DEF old, last
    <3>4. IsFiniteSet(old) /\ Cardinality(old) <= last - 2 + 1
      BY <2>3, <3>1, <3>2, <3>3, NumbersBound, 2 \in Nat
    <3> QED
      BY <3>3, <3>4
  <2>5. M = cur \cup old
    OBVIOUS
  <2> HIDE DEF cur, old
  <2>6. Cardinality(M) = Cardinality(cur) + Cardinality(old) - Cardinality(cur \cap old)
    BY <2>2, <2>4, <2>5, FS_Union
  <2>7. Cardinality(cur) \in Nat /\ Cardinality(old) \in Nat /\ Cardinality(cur \cap old) \in Nat
    BY <2>2, <2>4, FS_CardinalityType, FS_Intersection
  <2> QED
    BY <2>1, <2>2, <2>4, <2>6, <2>7
<1> QED
  BY <1>1, <1>2 DEF Counted

LEMMA NothingCounted == ASSUME NEW now \in Nat PROVE Counted(NoAttempts, {}, now)
  BY DEF Counted, NoAttempts

LEMMA WaitingCounts ==
  ASSUME NEW a, NEW M, NEW now \in Nat, NEW then \in Nat, now <= then, Counted(a, M, now)
  PROVE  Counted(a, Recent(M, then), then)
<1> DEFINE N == Recent(M, then)
<1>1. N \subseteq M /\ \A m \in N : then - m[1] <= Window
  BY DEF Recent
<1> HIDE DEF N
<1>2. /\ a \in [failures : 0..8, first : Nat, locked : Nat] /\ N \subseteq Nat \X Nat
      /\ \A m \in N : m[1] <= then
      /\ a.failures = 0 => N = {}
  <2>1. M \subseteq Nat \X Nat /\ \A m \in M : m[1] <= now /\ m[1] \in Nat
    BY DEF Counted
  <2> QED
    BY <1>1, <2>1 DEF Counted
<1>3. ASSUME a.failures > 0
      PROVE  /\ a.first + Locks(a.failures) <= then
             /\ a.failures >= Threshold => a.locked >= a.first + Locks(a.failures + 1)
             /\ Current(N, a) /\ Previous(N, a.first) /\ Distinct(N, a.first)
  <2>1. a.first + Locks(a.failures) <= then
    BY <1>2, <1>3 DEF Counted, Locks, Threshold
  <2>2. Current(N, a) /\ Distinct(N, a.first)
    BY <1>1, <1>3 DEF Counted, Current, Distinct
  <2>3. Previous(N, a.first)
    BY <1>1, <1>3 DEF Counted, Previous
  <2> QED
    BY <1>3, <2>1, <2>2, <2>3 DEF Counted
<1> QED
  BY <1>1, <1>2, <1>3 DEF Counted, N

(* A wrong PIN of a client that is not locked out.                          *)
LEMMA MissCounts ==
  ASSUME GuessInv, NEW c \in Clients, ~Locked(c), RecordsFailure(c)
  PROVE  Counted(attempts'[c], misses'[c], clock)
<1> DEFINE a == attempts[c]
           M == Recent(misses[c], clock)
           new == attempts'[c]
           N == misses'[c]
<1>1. /\ clock \in Nat /\ a \in [failures : 0..8, first : Nat, locked : Nat]
      /\ Counted(a, misses[c], clock) /\ DOMAIN attempts = Clients /\ DOMAIN misses = Clients
  BY DEF GuessInv, Counted
<1>2. Counted(a, M, clock)
  BY <1>1, WaitingCounts
<1>3. new = Missed(IF WindowOver(c) THEN NoAttempts ELSE a) /\ N = M \cup {<<clock, new.failures>>}
  BY <1>1 DEF RecordsFailure
<1>4. M \subseteq Nat \X Nat /\ \A m \in M : m[1] \in Nat /\ m[2] \in Nat /\ m[1] <= clock /\ clock - m[1] <= 10
  BY <1>2 DEF Counted, Window
<1>5. ASSUME a.failures > 0
      PROVE  /\ a.first + Locks(a.failures) <= clock
             /\ a.failures >= 5 => clock >= a.first + Locks(a.failures + 1)
             /\ \A m \in M : m[1] >= a.first =>
                   /\ m[2] \in 1..a.failures /\ m[1] <= a.first + 10 /\ (m[2] = 1 => m[1] = a.first)
                   /\ m[1] + Locks(a.failures + 1) <= clock + Locks(m[2])
             /\ Previous(M, a.first) /\ Distinct(M, a.first)
  <2>1. a.locked <= clock
    BY <1>1 DEF Locked
  <2>2. \A n \in 0..9 : Locks(n) \in 0..15 /\ (n <= 5 => Locks(n) = 0)
    BY DEF Locks, Threshold
  <2>3. /\ a.first + Locks(a.failures) <= clock
        /\ a.failures >= 5 => a.locked >= a.first + Locks(a.failures + 1)
        /\ Current(M, a) /\ Previous(M, a.first) /\ Distinct(M, a.first)
    BY <1>2, <1>5 DEF Counted, Threshold
  <2>4. a.failures >= 5 => clock >= a.first + Locks(a.failures + 1)
    BY <1>1, <2>1, <2>2, <2>3
  <2>5. ASSUME NEW m \in M, m[1] >= a.first
        PROVE  /\ m[2] \in 1..a.failures /\ m[1] <= a.first + 10 /\ (m[2] = 1 => m[1] = a.first)
               /\ m[1] + Locks(a.failures + 1) <= clock + Locks(m[2])
    <3>1. /\ m[2] \in 1..a.failures /\ m[1] <= a.first + 10 /\ (m[2] = 1 => m[1] = a.first)
          /\ a.failures >= 5 => m[1] + Locks(a.failures + 1) <= a.locked + Locks(m[2])
      BY <2>3, <2>5 DEF Current, Threshold, Window
    <3>2. Locks(a.failures + 1) \in Nat /\ Locks(m[2]) \in Nat /\ (a.failures < 5 => Locks(a.failures + 1) = 0)
      BY <1>1, <2>2, <3>1
    <3> QED
      BY <1>1, <1>4, <2>1, <3>1, <3>2
  <2> QED
    BY <2>3, <2>4, <2>5
<1> HIDE DEF a, M, new, N
<1>6. CASE WindowOver(c) \/ a.failures = 0
  <2>1. /\ new \in [failures : {1}, first : {clock}, locked : Nat]
    BY <1>1, <1>3, <1>6 DEF Missed, NoAttempts, Threshold, Window, WindowOver, a
  <2>2. ASSUME NEW m \in M
        PROVE  m[1] < clock /\ m[2] \in 2..a.failures /\ m[1] + Locks(a.failures + 1) <= clock + Locks(m[2])
    <3>1. a.failures > 0
      BY <1>1, <1>2 DEF Counted
    <3>2. WindowOver(c) /\ a.first + 10 < clock
      BY <1>1, <1>6, <3>1 DEF WindowOver, Window, a
    <3>3. m[1] >= a.first /\ m[1] # a.first
      BY <1>1, <1>4, <3>2
    <3> QED
      BY <1>1, <1>4, <1>5, <3>1, <3>2, <3>3
  <2>3. \A m, n \in M : m[2] = n[2] => m = n
    <3> SUFFICES ASSUME NEW m \in M, NEW n \in M, m[2] = n[2] PROVE m = n
      OBVIOUS
    <3>1. a.failures > 0
      BY <1>1, <1>2 DEF Counted
    <3>2. WindowOver(c) /\ a.first + 10 < clock
      BY <1>1, <1>6, <3>1 DEF WindowOver, Window, a
    <3>3. m[1] >= a.first /\ n[1] >= a.first
      BY <1>1, <1>4, <3>2
    <3> QED
      BY <1>1, <1>4, <1>5, <3>1, <3>3 DEF Distinct
  <2>4. Previous(N, clock)
    <3>1. \A m \in N : m[1] < clock => m \in M
      BY <1>1, <1>3, <2>1
    <3>2. CASE a.failures = 0
      BY <1>2, <3>1, <3>2 DEF Counted, Previous
    <3>3. CASE a.failures # 0
      BY <1>1, <2>2, <3>1, <3>3 DEF Previous
    <3> QED
      BY <3>2, <3>3
  <2>5. N = M \cup {<<clock, 1>>}
    BY <1>3, <2>1
  <2>6. Distinct(N, clock) /\ Current(N, new)
    <3>1. \A m \in N : ~(m[1] < clock) => m = <<clock, 1>>
      BY <2>2, <2>5
    <3>2. \A m \in N : m[1] < clock => m \in M
      BY <1>1, <2>5
    <3>3. Distinct(N, clock)
      BY <2>3, <3>1, <3>2 DEF Distinct
    <3>4. \A m \in N : m[1] >= clock => m = <<clock, 1>>
      BY <1>1, <1>4, <2>5, <3>1
    <3>5. new.first = clock /\ new.failures = 1
      BY <2>1
    <3> QED
      BY <1>1, <3>3, <3>4, <3>5 DEF Current, Threshold, Window
  <2>7. N \subseteq Nat \X Nat /\ \A m \in N : m[1] <= clock /\ clock - m[1] <= Window
    BY <1>1, <1>4, <2>5 DEF Window
  <2>8. new.failures = 1 /\ new.first = clock /\ new \in [failures : 0..8, first : Nat, locked : Nat]
    BY <1>1, <2>1
  <2> QED
    BY <1>1, <2>4, <2>6, <2>7, <2>8 DEF Counted, Locks, Threshold, new, N
<1>7. CASE ~WindowOver(c) /\ a.failures # 0
  <2>1. a.failures \in 1..7 /\ clock <= a.first + 10 /\ a.first <= clock
    BY <1>1, <1>5, <1>7 DEF WindowOver, Window, Locks, Threshold, a
  <2>2. /\ new.failures = a.failures + 1 /\ new.first = a.first
        /\ new.locked = IF a.failures >= 4 THEN clock + LockTime(a.failures + 1) ELSE a.locked
        /\ new = [failures |-> new.failures, first |-> new.first, locked |-> new.locked]
    BY <1>1, <1>3, <1>7, <2>1 DEF Missed, Threshold, Window, WindowOver, a
  <2>3. a.failures >= 4 => /\ Locks(a.failures + 2) = Locks(a.failures + 1) + LockTime(a.failures + 1)
                           /\ LockTime(a.failures + 1) \in Nat /\ Locks(a.failures + 1) \in Nat
    BY <2>1 DEF Locks, LockTime, Threshold
  <2>4. a.first + Locks(a.failures + 1) <= clock
    <3>1. a.failures <= 4 => Locks(a.failures + 1) = 0
      BY <2>1 DEF Locks, Threshold
    <3> QED
      BY <1>1, <1>5, <2>1, <3>1
  <2>5. new \in [failures : 0..8, first : Nat, locked : Nat]
    BY <1>1, <2>1, <2>2, <2>3
  <2>6. new.failures >= 5 => new.locked >= new.first + Locks(new.failures + 1)
    BY <1>1, <2>1, <2>2, <2>3, <2>4
  <2>7. N = M \cup {<<clock, a.failures + 1>>}
    BY <1>3, <2>2
  <2>8. N \subseteq Nat \X Nat /\ \A m \in N : m[1] <= clock /\ clock - m[1] <= Window
    BY <1>1, <1>4, <2>1, <2>7 DEF Window
  <2>9. Current(N, new)
    <3> SUFFICES ASSUME NEW m \in N, m[1] >= a.first
                 PROVE  /\ m[2] \in 1..(a.failures + 1) /\ m[1] <= a.first + 10
                        /\ m[2] = 1 => m[1] = a.first
                        /\ a.failures >= 4 => m[1] + Locks(a.failures + 2) <= new.locked + Locks(m[2])
      BY <1>1, <2>1, <2>2 DEF Current, Threshold, Window
    <3>1. CASE m \in M
      <4>1. /\ m[2] \in 1..a.failures /\ m[1] <= a.first + 10 /\ (m[2] = 1 => m[1] = a.first)
            /\ m[1] + Locks(a.failures + 1) <= clock + Locks(m[2])
        BY <1>5, <2>1, <3>1
      <4>2. Locks(m[2]) \in Nat
        BY <2>1, <4>1 DEF Locks, Threshold
      <4>3. a.failures >= 4 => m[1] + Locks(a.failures + 2) <= new.locked + Locks(m[2])
        BY <1>1, <1>4, <2>1, <2>2, <2>3, <3>1, <4>1, <4>2
      <4> QED
        BY <2>1, <4>1, <4>3
    <3>2. CASE m = <<clock, a.failures + 1>>
      BY <1>1, <2>1, <2>2, <2>3, <3>2
    <3> QED
      BY <2>7, <3>1, <3>2
  <2>10. Previous(N, a.first)
    BY <1>1, <1>5, <2>1, <2>7 DEF Previous
  <2>11. Distinct(N, a.first)
    BY <1>1, <1>4, <1>5, <2>1, <2>7 DEF Distinct
  <2> QED
    BY <1>1, <2>1, <2>2, <2>4, <2>5, <2>6, <2>8, <2>9, <2>10, <2>11 DEF Counted, Threshold, new, N
<1> QED
  BY <1>6, <1>7 DEF new, N

(* What a step does to the failures and the clock.                          *)
LEMMA CountingSteps ==
  ASSUME [Next]_vars
  PROVE  \/ UNCHANGED <<attempts, misses, clock>>
         \/ clock' = clock /\ \E c \in Clients : Forgives(c)
         \/ clock' = clock /\ \E c \in Clients : ~Locked(c) /\ RecordsFailure(c)
         \/ /\ clock' = clock
            /\ attempts' = [c \in Clients |-> NoAttempts] /\ misses' = [c \in Clients |-> {}]
         \/ ClockTicks
<1>1. ASSUME NEW c \in Clients, NEW mode, InThread(c, mode)
      PROVE  /\ clock' = clock
             /\ \/ UNCHANGED <<attempts, misses>>
                \/ Forgives(c)
                \/ ~Locked(c) /\ RecordsFailure(c)
  BY <1>1 DEF InThread, Setup, Login, SetupRefused, LoginRefused, PinRejected, LoginUnsupported, RevokeAll,
              ChangePin, Verifies, Rejects, Refuses, ghosts
<1>2. ASSUME NEW c \in Clients, OnLoop(c) \/ Receives(c) PROVE UNCHANGED <<attempts, misses, clock>>
  BY <1>2 DEF OnLoop, Logout, Revoke, ListSessions, RevokeNothing, OtherRequest, Receives, Arrives, ArrivesOpen
<1>3. ASSUME NEW c \in Clients, ChangeBegins(c) PROVE clock' = clock /\ Forgives(c)
  BY <1>3 DEF ChangeBegins, ApplyBegins, DisableBegins, Begins, Verifies
<1>4. CASE ChangeSteps
  BY <1>4 DEF ChangeSteps, SavesConfig, Audits, RevokesSessions, ClosesRule, OpensRule
<1>5. CASE Start \/ Load \/ Listen \/ ListenFails \/ Close
  BY <1>5 DEF Start, Load, Listen, ListenFails, Close, Boot, AuthStill, AuthIdle
<1>6. CASE Reload \/ Stop \/ Killed
  BY <1>6 DEF Reload, Stop, Killed, Halt
<1>7. CASE Rejecting \/ Resetting \/ ResetNetwork \/ LosesCertificate \/ UNCHANGED vars
  BY <1>7 DEF Rejecting, RejectsClient, Resetting, ResetAuth, ResetNetwork, LosesCertificate, AuthIdle,
     vars, authVars
<1> QED
  BY <1>1, <1>2, <1>3, <1>4, <1>5, <1>6, <1>7 DEF Next, Handles, Takes

LEMMA NextKeepsGuess == ASSUME GuessInv, [Next]_vars PROVE GuessInv'
<1>1. world' = world
  BY WorldStays
<1> SUFFICES /\ clock' \in Nat /\ DOMAIN attempts' = Clients /\ DOMAIN misses' = Clients
             /\ \A c \in Clients : Counted(attempts'[c], misses'[c], clock')
  BY <1>1 DEF GuessInv, Counted, Current, Previous, Distinct
<1>2. CASE UNCHANGED <<attempts, misses, clock>>
  BY <1>2 DEF GuessInv
<1>3. ASSUME NEW c \in Clients, Forgives(c), clock' = clock
      PROVE  /\ DOMAIN attempts' = Clients /\ DOMAIN misses' = Clients
             /\ \A b \in Clients : Counted(attempts'[b], misses'[b], clock')
  <2>1. attempts'[c] = NoAttempts /\ misses'[c] = {}
    BY <1>3 DEF GuessInv, Forgives
  <2>2. \A b \in Clients \ {c} : attempts'[b] = attempts[b] /\ misses'[b] = misses[b]
    BY <1>3 DEF GuessInv, Forgives
  <2> QED
    BY <1>3, <2>1, <2>2, NothingCounted DEF GuessInv, Forgives
<1>4. ASSUME NEW c \in Clients, ~Locked(c), RecordsFailure(c), clock' = clock
      PROVE  /\ DOMAIN attempts' = Clients /\ DOMAIN misses' = Clients
             /\ \A b \in Clients : Counted(attempts'[b], misses'[b], clock')
  <2>1. Counted(attempts'[c], misses'[c], clock)
    BY <1>4, MissCounts
  <2>2. \A b \in Clients \ {c} : attempts'[b] = attempts[b] /\ misses'[b] = misses[b]
    BY <1>4 DEF GuessInv, RecordsFailure
  <2>3. DOMAIN attempts' = Clients /\ DOMAIN misses' = Clients
    BY <1>4 DEF GuessInv, RecordsFailure
  <2> QED
    BY <1>4, <2>1, <2>2, <2>3 DEF GuessInv
<1>5. CASE /\ clock' = clock
           /\ attempts' = [c \in Clients |-> NoAttempts] /\ misses' = [c \in Clients |-> {}]
  BY <1>5, NothingCounted DEF GuessInv
<1>6. CASE ClockTicks
  <2>1. PICK d \in world.ticks : Tick(d)
    BY <1>6 DEF ClockTicks, Passes
  <2>2. d \in Nat
    BY AuthAssumption DEF GuessInv, Surroundings
  <2>3. clock' \in Nat /\ clock <= clock' /\ attempts' = attempts
        /\ misses' = [c \in Clients |-> Recent(misses[c], clock')]
    BY <2>1, <2>2 DEF GuessInv, Tick
  <2> QED
    BY <2>3, WaitingCounts DEF GuessInv
<1> QED
  BY <1>2, <1>3, <1>4, <1>5, <1>6, CountingSteps DEF GuessInv

(* Without the right PIN, a client makes at most thirteen wrong guesses in  *)
(* any five minutes, however its requests, the restarts and the changes of  *)
(* the network fall (auth.py, _check_lockout and _record_failure).          *)
THEOREM GuessingIsSlow == Spec => []GuessesBounded
<1>1. Init => GuessInv
  BY NothingCounted DEF Init, AuthInit, GuessInv
<1>2. GuessInv => GuessesBounded
  BY CountedSuffices DEF GuessInv, GuessesBounded
<1> QED
  BY <1>1, <1>2, NextKeepsGuess, PTL DEF Spec

=============================================================================
