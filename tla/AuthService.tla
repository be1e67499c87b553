---------------------------- MODULE AuthService ----------------------------
(* The authentication store of the bridge (auth.py) and the requests that   *)
(* reach it (api/app.py): PIN, trusted browser sessions, lockout, and the   *)
(* file both are kept in.  A request is authenticated by the middleware and *)
(* handled in a later step; PIN checks run in a worker thread, one at a     *)
(* time, under the service's lock.  Every write of the file may fail, and   *)
(* the process may end and start again between any two steps.               *)
(*                                                                          *)
(* One unit of `clock` is thirty seconds.                                   *)
EXTENDS Integers, FiniteSets, Sequences

CONSTANTS
  Tokens,      \* the session tokens the service can draw, each at most once
  Pins,        \* the PINs a user may enter
  Clients,     \* the addresses that requests come from
  Worlds       \* the surroundings to be explored: see Surroundings

None == "none"
Forever == 1000000

(* What a behaviour may contain: the operations requested, the PIN in force *)
(* at the beginning, the jumps of the clock and its bound, the durations of *)
(* trust a login asks for, the failing writes and the starts, the clients   *)
(* and those of them that are not on the PC but on the LAN.                 *)
Operations == {"login", "setup", "logout", "revoke", "list", "revoke-all", "change-pin",
               "apply", "disable", "other"}
Public == {"login", "setup"}
AsksPin == {"login", "revoke-all", "change-pin", "apply", "disable"}
Configurations == [mode : {"local", "lan"}, port : {1, 2}, managed : BOOLEAN]
Surroundings ==
  [ops : SUBSET Operations, pin : Pins \cup {None}, ticks : SUBSET (Nat \ {0}), until : Nat,
   trust : SUBSET Nat, faults : Nat, starts : Nat, configs : SUBSET Configurations,
   clients : SUBSET Clients, remote : SUBSET Clients, tools : BOOLEAN]

ASSUME AuthAssumption == Worlds \subseteq Surroundings /\ None \notin Pins

VARIABLES
  world,       \* the surroundings of this behaviour
  clock,       \* self.clock()
  running,     \* whether a service process holds the store in memory
  store,       \* self._state: the PIN and the sessions in memory
  disk,        \* the authentication file
  attempts,    \* self._attempts: the failures of each client
  request,     \* the request of each client that has passed the middleware
  faults,      \* failed writes so far
  starts,      \* starts of the service so far
  granted,     \* sessions whose token was handed to a browser
  ended,       \* sessions whose end was acknowledged
  misses       \* the wrong PINs of the last five minutes, per client: the
               \* time of each and its number among the failures then counted

authVars == <<world, clock, running, store, disk, attempts, request, faults, starts,
              granted, ended, misses>>
ghosts == <<granted, ended>>

-----------------------------------------------------------------------------
(* Sessions and the file                                                    *)

NoSession == [status |-> "none", until |-> 0, mode |-> None]
EmptyStore == [pin |-> None, session |-> [t \in Tokens |-> NoSession]]
NoAttempts == [failures |-> 0, first |-> 0, locked |-> 0]
Idle == [op |-> None, token |-> None]

Live(s, t) == s.session[t].status = "live"
Expired(s, t) == clock >= s.session[t].until

(* A request with token t is let in by a process that holds s.              *)
Accepted(s, t) == Live(s, t) /\ ~Expired(s, t)

(* _cleanup_expired: an expired session is marked as revoked.               *)
Cleaned(s) ==
  [s EXCEPT !.session = [t \in Tokens |-> IF Live(s, t) /\ Expired(s, t)
                                          THEN [@[t] EXCEPT !.status = "revoked"]
                                          ELSE @[t]]]

Revoked(s, T) ==
  [s EXCEPT !.session = [t \in Tokens |-> IF t \in T THEN [@[t] EXCEPT !.status = "revoked"]
                                          ELSE @[t]]]
LiveIn(s) == {t \in Tokens : Live(s, t)}

(* _persist: the whole state goes to a temporary file that replaces the     *)
(* store; when a call fails, it raises and the old file stays.              *)
Persisted(s, ok) ==
  /\ disk' = IF ok THEN s ELSE disk
  /\ ok \/ faults < world.faults
  /\ faults' = IF ok THEN faults ELSE faults + 1

NotPersisted == UNCHANGED <<disk, faults>>

-----------------------------------------------------------------------------
(* The lockout                                                              *)

Window == 10
Threshold == 5
(* Mutant: the lock does not grow.                                          *)
LockTimeFlat(failures) == 1

(* Thirty seconds, doubled with each further failure up to three times; the *)
(* cap of five minutes is out of its reach.                                 *)
LockTime(failures) ==
  CASE failures = Threshold     -> 1
    [] failures = Threshold + 1 -> 2
    [] failures = Threshold + 2 -> 4
    [] OTHER                    -> 8

Locked(c) == attempts[c].locked > clock
WindowOver(c) == clock - attempts[c].first > Window

Recent(M, time) == {m \in M : time - m[1] <= Window}

(* _record_failure                                                          *)
Missed(a) ==
  LET fresh == a.failures = 0 \/ clock - a.first > Window
      count == IF fresh THEN 1 ELSE a.failures + 1
  IN  [failures |-> count,
       first |-> IF fresh THEN clock ELSE a.first,
       locked |-> IF count >= Threshold THEN clock + LockTime(count) ELSE a.locked]

RecordsFailure(c) ==
  LET a == IF WindowOver(c) THEN NoAttempts ELSE attempts[c]
  IN  /\ attempts' = [attempts EXCEPT ![c] = Missed(a)]
      /\ misses' = [misses EXCEPT ![c] = Recent(@, clock) \cup {<<clock, attempts'[c].failures>>}]

(* A client that is locked out is refused before its PIN is looked at.      *)
Refuses(c) == Locked(c) /\ UNCHANGED <<attempts, misses>>

(* _verify_pin_guarded, and the same steps of login: the right PIN clears   *)
(* the client's failures.                                                   *)
Forgives(c) ==
  /\ attempts' = [attempts EXCEPT ![c] = NoAttempts]
  /\ misses' = [misses EXCEPT ![c] = {}]

Verifies(c, guess) == ~Locked(c) /\ guess = store.pin /\ Forgives(c)
Rejects(c, guess) ==
  \/ Refuses(c)
  \/ ~Locked(c) /\ guess # store.pin /\ RecordsFailure(c)

-----------------------------------------------------------------------------
(* Requests                                                                 *)

Answered(c) == request' = [request EXCEPT ![c] = Idle]
Handling(c, op) == running /\ request[c].op = op /\ Answered(c)

(* security_middleware and authenticate: the cookie's session is looked up, *)
(* expired sessions are marked, and the file is written when something      *)
(* changed or the session was last seen a minute ago.  A failed write is an *)
(* error to the client, but the marks stay.                                 *)
Arrives(c, op, t) ==
  LET now == Cleaned(store)
  IN  /\ running /\ request[c] = Idle /\ c \in world.clients /\ op \in world.ops \ Public
      /\ \E touched, ok \in BOOLEAN :
           /\ touched => Accepted(now, t)
           /\ IF now # store \/ touched THEN Persisted(now, ok) ELSE ok /\ NotPersisted
           /\ request' = [request EXCEPT ![c] =
                IF ok /\ Accepted(now, t) THEN [op |-> op, token |-> t] ELSE Idle]
      /\ store' = now
      /\ UNCHANGED <<world, clock, running, attempts, starts, misses, ghosts>>

(* The three authentication paths are open: no cookie is asked for.         *)
ArrivesOpen(c, op) ==
  /\ running /\ request[c] = Idle /\ c \in world.clients /\ op \in world.ops \cap Public
  /\ request' = [request EXCEPT ![c] = [op |-> op, token |-> None]]
  /\ UNCHANGED <<world, clock, running, store, disk, attempts, faults, starts, misses, ghosts>>

(* _create_session: a fresh token.                                          *)
Fresh(t) == t \notin granted \cup ended /\ store.session[t].status = "none" /\ disk.session[t].status = "none"
Session(d, mode) ==
  [status |-> "live", until |-> IF d = 0 THEN Forever ELSE clock + d, mode |-> mode]
WithSession(s, t, d, mode) == [s EXCEPT !.session[t] = Session(d, mode)]

(* setup: a failure puts the whole state back, as if nothing was asked.     *)
Setup(c, p, t, d, mode, ok) ==
  LET new == WithSession([store EXCEPT !.pin = p], t, d, mode)
  IN  /\ Handling(c, "setup")
      /\ store.pin = None /\ Fresh(t)
      /\ Persisted(new, ok)
      /\ store' = IF ok THEN new ELSE store
      /\ granted' = IF ok THEN granted \cup {t} ELSE granted
      /\ UNCHANGED <<world, clock, running, attempts, starts, ended, misses>>

SetupRefused(c) ==
  /\ Handling(c, "setup")
  /\ store.pin # None
  /\ UNCHANGED <<world, clock, running, store, disk, attempts, faults, starts, misses, ghosts>>

(* Mutant: the file is written before the session is added.                 *)
LoginUnwritten(c, guess, t, d, mode, ok) ==
  /\ Handling(c, "login")
  /\ store.pin # None /\ Fresh(t)
  /\ Verifies(c, guess)
  /\ Persisted(store, ok)
  /\ store' = WithSession(store, t, d, mode)
  /\ granted' = IF ok THEN granted \cup {t} ELSE granted
  /\ UNCHANGED <<world, clock, running, starts, ended>>

(* login: nothing is put back when the write fails; the session then exists *)
(* in memory, but no browser was given its token.                           *)
Login(c, guess, t, d, mode, ok) ==
  LET new == WithSession(store, t, d, mode)
  IN  /\ Handling(c, "login")
      /\ store.pin # None /\ Fresh(t)
      /\ Verifies(c, guess)
      /\ Persisted(new, ok)
      /\ store' = new
      /\ granted' = IF ok THEN granted \cup {t} ELSE granted
      /\ UNCHANGED <<world, clock, running, starts, ended>>

LoginRefused(c) ==
  /\ Handling(c, "login")
  /\ store.pin = None
  /\ UNCHANGED <<world, clock, running, store, disk, attempts, faults, starts, misses, ghosts>>

(* A duration that is not offered is refused after the PIN was checked.     *)
LoginUnsupported(c, guess) ==
  /\ Handling(c, "login")
  /\ store.pin # None
  /\ Verifies(c, guess)
  /\ UNCHANGED <<world, clock, running, store, disk, faults, starts, ghosts>>

(* Every other handler that asks for the PIN, when it is wrong or the       *)
(* client is locked out.                                                    *)
PinRejected(c, guess) ==
  /\ running /\ request[c].op \in AsksPin /\ Answered(c)
  /\ request[c].op = "login" => store.pin # None
  /\ Rejects(c, guess)
  /\ UNCHANGED <<world, clock, running, store, disk, faults, starts, ghosts>>

Ends(T, ok) == ended' = IF ok THEN ended \cup T ELSE ended

(* Mutant: the file is written before the session is marked.                *)
LogoutUnwritten(c, ok) ==
  LET t == request[c].token
  IN  /\ Handling(c, "logout")
      /\ store' = Revoked(store, {t}) /\ Persisted(store, ok) /\ Ends({t}, ok)
      /\ UNCHANGED <<world, clock, running, attempts, starts, misses, granted>>

Logout(c, ok) ==
  LET t == request[c].token
      new == Revoked(store, {t})
  IN  /\ Handling(c, "logout")
      /\ store' = new /\ Persisted(new, ok) /\ Ends({t}, ok)
      /\ UNCHANGED <<world, clock, running, attempts, starts, misses, granted>>

(* revoke: a session that is revoked already is left alone.                 *)
Revoke(c, t, ok) ==
  LET new == Revoked(store, {t})
  IN  /\ Handling(c, "revoke")
      /\ Live(store, t)
      /\ store' = new /\ Persisted(new, ok) /\ Ends({t}, ok)
      /\ UNCHANGED <<world, clock, running, attempts, starts, misses, granted>>

RevokeNothing(c, t) ==
  /\ Handling(c, "revoke")
  /\ ~Live(store, t)
  /\ UNCHANGED <<world, clock, running, store, disk, attempts, faults, starts, misses, ghosts>>

ListSessions(c, ok) ==
  /\ Handling(c, "list")
  /\ store' = Cleaned(store)
  /\ IF Cleaned(store) # store THEN Persisted(store', ok) ELSE ok /\ NotPersisted
  /\ UNCHANGED <<world, clock, running, attempts, starts, misses, ghosts>>

RevokeAll(c, guess, ok) ==
  LET new == Revoked(store, LiveIn(store))
  IN  /\ Handling(c, "revoke-all")
      /\ Verifies(c, guess)
      /\ store' = new /\ Persisted(new, ok) /\ Ends(LiveIn(store), ok)
      /\ UNCHANGED <<world, clock, running, starts, granted>>

ChangePin(c, guess, p, ok) ==
  LET new == [Revoked(store, LiveIn(store)) EXCEPT !.pin = p]
  IN  /\ Handling(c, "change-pin")
      /\ Verifies(c, guess)
      /\ store' = new /\ Persisted(new, ok) /\ Ends(LiveIn(store), ok)
      /\ UNCHANGED <<world, clock, running, starts, granted>>

(* Any other endpoint: nothing of the store changes.                        *)
OtherRequest(c) ==
  /\ Handling(c, "other")
  /\ UNCHANGED <<world, clock, running, store, disk, attempts, faults, starts, misses, ghosts>>

(* audit_event on a rejected client: the whole state is written.            *)
RejectsClient ==
  /\ running /\ \E ok \in BOOLEAN : Persisted(store, ok)
  /\ UNCHANGED <<world, clock, running, store, attempts, request, starts, misses, ghosts>>

-----------------------------------------------------------------------------
(* The process                                                              *)

(* __init__: the file is read and expired sessions are marked.              *)
Boot ==
  /\ ~running /\ running' = TRUE
  /\ store' = Cleaned(disk)
  /\ IF Cleaned(disk) # disk THEN Persisted(store', TRUE) ELSE NotPersisted
  /\ UNCHANGED <<world, clock, attempts, request, starts, misses, ghosts>>

(* The process ends, in order or not: memory is lost, requests get no       *)
(* answer, and the lockout forgets.                                         *)
Halt ==
  /\ running /\ running' = FALSE
  /\ store' = EmptyStore
  /\ attempts' = [c \in Clients |-> NoAttempts]
  /\ misses' = [c \in Clients |-> {}]
  /\ request' = [c \in Clients |-> Idle]
  /\ UNCHANGED <<world, clock, disk, faults, starts, ghosts>>

(* tools/reset_auth.py, with the service stopped.                           *)
ResetAuth ==
  /\ ~running /\ world.tools
  /\ disk' = EmptyStore
  /\ granted' = {} /\ ended' = ended \cup granted
  /\ UNCHANGED <<world, clock, running, store, attempts, request, faults, starts, misses>>

(* Time passes while the service runs and while it does not.                *)
Tick(d) ==
  /\ clock + d <= world.until
  /\ clock' = clock + d
  /\ misses' = [c \in Clients |-> Recent(misses[c], clock')]
  /\ UNCHANGED <<world, running, store, disk, attempts, request, faults, starts, ghosts>>

-----------------------------------------------------------------------------
AuthInit ==
  /\ world \in Worlds
  /\ clock = 0 /\ running = FALSE /\ faults = 0 /\ starts = 0
  /\ disk = [EmptyStore EXCEPT !.pin = world.pin]
  /\ store = EmptyStore
  /\ attempts = [c \in Clients |-> NoAttempts]
  /\ request = [c \in Clients |-> Idle]
  /\ granted = {} /\ ended = {}
  /\ misses = [c \in Clients |-> {}]

(* Requests are received, and most are handled, on the event loop; the PIN  *)
(* is checked in worker threads.                                            *)
Receives(c) ==
  \/ \E op \in Operations, t \in Tokens : Arrives(c, op, t)
  \/ \E op \in Operations : ArrivesOpen(c, op)

OnLoop(c) ==
  \/ \E ok \in BOOLEAN :
       \/ Logout(c, ok)
       \/ \E t \in Tokens : Revoke(c, t, ok)
       \/ ListSessions(c, ok)
  \/ \E t \in Tokens : RevokeNothing(c, t)
  \/ OtherRequest(c)

InThread(c, mode) ==
  \/ \E p \in Pins, t \in Tokens, d \in world.trust, ok \in BOOLEAN :
       \/ Setup(c, p, t, d, mode, ok)
       \/ Login(c, p, t, d, mode, ok)
  \/ SetupRefused(c) \/ LoginRefused(c)
  \/ \E guess \in Pins :
       \/ PinRejected(c, guess)
       \/ LoginUnsupported(c, guess)
       \/ \E ok \in BOOLEAN : RevokeAll(c, guess, ok)
       \/ \E p \in Pins, ok \in BOOLEAN : ChangePin(c, guess, p, ok)

Passes == \E d \in world.ticks : Tick(d)

-----------------------------------------------------------------------------
(* Properties                                                               *)

(* What _cleanup_expired, the handlers and _load keep of the store.         *)
Stores ==
  [pin : Pins \cup {None},
   session : [Tokens -> [status : {"none", "live", "revoked"}, until : Nat,
                         mode : {None, "local", "lan"}]]]
AuthTypeOK ==
  /\ world \in Worlds /\ clock \in Nat /\ running \in BOOLEAN
  /\ store \in Stores /\ disk \in Stores
  /\ attempts \in [Clients -> [failures : Nat, first : Nat, locked : Nat]]
  /\ request \in [Clients -> [op : Operations \cup {None}, token : Tokens \cup {None}]]
  /\ faults \in 0..world.faults /\ starts \in 0..world.starts
  /\ granted \subseteq Tokens /\ ended \subseteq Tokens
  /\ \A c \in Clients : misses[c] \subseteq (0..clock) \X Nat

(* A session whose end the service acknowledged is not let in again, by     *)
(* this process or by the one that reads the file next, whatever writes     *)
(* fail and wherever the process ends.                                      *)
RevocationIsFinal ==
  \A t \in ended : ~Live(store, t) /\ ~Live(disk, t)

(* A token that was handed to a browser survives a restart: as long as the  *)
(* process accepts it, so does the file.  "Never leave the service          *)
(* configured in memory without a persisted PIN" (auth.py, setup): setup    *)
(* can be asked for again after a failed write.                             *)
GrantIsDurable ==
  /\ store.pin # None => disk.pin # None
  /\ running => \A t \in granted : Accepted(store, t) => Accepted(disk, t)

(* Without the right PIN, a client makes at most thirteen wrong guesses in  *)
(* any five minutes, the end of one window and the beginning of the next    *)
(* together, whichever endpoint takes them.                                 *)
GuessesBounded ==
  \A c \in Clients : Cardinality(misses[c]) <= 13
=============================================================================
