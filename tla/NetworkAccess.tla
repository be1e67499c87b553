--------------------------- MODULE NetworkAccess ---------------------------
(* Local-only and LAN access: the stored network configuration, the service *)
(* process that loads it (tools/run_bridge_service.py), the endpoints that  *)
(* change it (api/app.py), the firewall rule and the sessions that a change *)
(* revokes.  Composed with the authentication service.                      *)
EXTENDS AuthService

(* network_config_from_request: a local configuration manages no rule.      *)
ASSUME NetworkAssumption ==
  /\ None \notin Clients
  /\ \A w \in Worlds : \A c \in w.configs : c.managed => c.mode = "lan"

VARIABLES
  network,     \* the configuration file
  active,      \* the configuration the process serves
  rule,        \* the configuration the installed firewall rule is for, or NoRule
  certificate, \* whether the certificate and key files exist
  stage,       \* where the process is in main's loop
  change,      \* the network_apply or network_disable under way
  restart      \* restart_requested of the running server

networkVars == <<network, active, rule, certificate, stage, change, restart>>
vars == <<authVars, networkVars>>

Local(port) == [mode |-> "local", port |-> port, managed |-> FALSE]
NoRule == [mode |-> None, port |-> 0, managed |-> FALSE]
NoChange == [by |-> None, todo |-> <<>>, config |-> Local(1), previous |-> Local(1), revoked |-> {}]
Changing == change.by # None

(* Bounds and faults: a failed write, a firewall call without effect, a     *)
(* lost certificate, a listener that cannot be opened, an end in the middle *)
(* of a change.                                                             *)
Fault == faults < world.faults /\ faults' = faults + 1
AuthIdle == UNCHANGED <<world, clock, running, store, disk, attempts, request, starts, misses, ghosts>>
AuthStill == AuthIdle /\ UNCHANGED faults

-----------------------------------------------------------------------------
(* main's loop                                                              *)

Start ==
  /\ stage = "down" /\ starts < world.starts
  /\ stage' = "loading" /\ starts' = starts + 1
  /\ UNCHANGED <<world, clock, running, store, disk, attempts, request, faults, misses, ghosts>>
  /\ UNCHANGED <<network, active, rule, certificate, change, restart>>

(* store.load and validate; a LAN configuration whose files are gone is     *)
(* replaced by the local one.  _serve_once then creates the application.    *)
Usable == network.mode = "lan" => certificate
(* Mutant: the process goes on with the configuration it had.               *)
LoadStale ==
  /\ stage = "loading"
  /\ network' = IF Usable THEN network ELSE Local(1)
  /\ active' = active
  /\ Boot
  /\ stage' = "binding" /\ restart' = FALSE
  /\ UNCHANGED <<rule, certificate, change>>

Load ==
  /\ stage = "loading"
  /\ network' = IF Usable THEN network ELSE Local(1)
  /\ active' = network'
  /\ Boot
  /\ stage' = "binding" /\ restart' = FALSE
  /\ UNCHANGED <<rule, certificate, change>>

Listen ==
  /\ stage = "binding" /\ stage' = "serving"
  /\ AuthStill
  /\ UNCHANGED <<network, active, rule, certificate, change, restart>>

(* A LAN listener that fails is given up for local access; a local one ends *)
(* the process.                                                             *)
ListenFails ==
  /\ stage = "binding"
  /\ Fault
  /\ running' = FALSE /\ store' = EmptyStore
  /\ IF active.mode = "lan"
     THEN /\ stage' = "loading" /\ rule' \in {NoRule, rule} /\ network' = Local(active.port)
     ELSE /\ stage' = "down" /\ UNCHANGED <<rule, network>>
  /\ UNCHANGED <<world, clock, disk, attempts, request, starts, misses, ghosts>>
  /\ UNCHANGED <<active, certificate, change, restart>>

(* request_restart: the server takes no more connections, and when nothing  *)
(* is under way, main goes round.                                           *)
Close ==
  /\ stage = "serving" /\ restart
  /\ stage' = "closing"
  /\ AuthStill
  /\ UNCHANGED <<network, active, rule, certificate, change, restart>>

Reload ==
  /\ stage = "closing" /\ ~Changing
  /\ \A c \in Clients : request[c] = Idle
  /\ Halt
  /\ stage' = "loading"
  /\ UNCHANGED <<network, active, rule, certificate, change, restart>>

(* The process ends; in the middle of a change only as a fault.             *)
Stop ==
  /\ stage \in {"binding", "serving", "closing"} /\ ~Changing
  /\ Halt
  /\ stage' = "down" /\ restart' = FALSE
  /\ UNCHANGED <<network, active, rule, certificate, change>>

Killed ==
  /\ Changing /\ Fault
  /\ running' = FALSE /\ store' = EmptyStore
  /\ attempts' = [c \in Clients |-> NoAttempts]
  /\ misses' = [c \in Clients |-> {}]
  /\ request' = [c \in Clients |-> Idle]
  /\ change' = NoChange /\ stage' = "down" /\ restart' = FALSE
  /\ UNCHANGED <<world, clock, disk, starts, ghosts>>
  /\ UNCHANGED <<network, active, rule, certificate>>

-----------------------------------------------------------------------------
(* The endpoints.  Once the PIN is checked, the rest of the handler runs    *)
(* without giving up the event loop; worker threads go on.                  *)

Plan(op) ==
  IF op = "apply" THEN <<"save", "close", "open", "audit", "revoke">>
                  ELSE <<"close", "save", "revoke", "audit">>

Begins(c, guess, op, config) ==
  /\ running /\ ~Changing /\ request[c].op = op
  /\ Verifies(c, guess)
  /\ change' = [by |-> c, todo |-> Plan(op), config |-> config, previous |-> network, revoked |-> {}]
  /\ UNCHANGED <<world, clock, running, store, disk, request, faults, starts, ghosts>>

(* network_apply: a certificate is generated or checked first.              *)
ApplyBegins(c, guess, config) ==
  /\ Begins(c, guess, "apply", config)
  /\ certificate' = (config.mode = "lan" \/ certificate)
  /\ UNCHANGED <<network, active, rule, stage, restart>>

DisableBegins(c, guess) ==
  /\ Begins(c, guess, "disable", Local(network.port))
  /\ UNCHANGED <<network, active, rule, certificate, stage, restart>>

(* One call of the handler after another; the last one is followed by the   *)
(* answer and by the restart in the background.                             *)
Doing(step) == Changing /\ Head(change.todo) = step
Last == Len(change.todo) = 1
Proceeds(revoked) ==
  /\ change' = IF Last THEN NoChange
               ELSE [change EXCEPT !.todo = Tail(@), !.revoked = revoked]
  /\ request' = IF Last THEN [request EXCEPT ![change.by] = Idle] ELSE request
  /\ restart' = (restart \/ Last)
  /\ ended' = IF Last THEN ended \cup revoked ELSE ended

(* A call that raises: the client gets an error, what was done stays.       *)
GivesUp ==
  /\ change' = NoChange
  /\ request' = [request EXCEPT ![change.by] = Idle]
  /\ UNCHANGED <<restart, ended>>

SavesConfig(ok) ==
  /\ Doing("save")
  /\ IF ok THEN network' = change.config /\ Proceeds(change.revoked) /\ UNCHANGED faults
           ELSE Fault /\ GivesUp /\ UNCHANGED network
  /\ UNCHANGED <<world, clock, running, store, disk, attempts, starts, misses, granted>>
  /\ UNCHANGED <<active, rule, certificate, stage>>

(* FirewallManager.apply: PowerShell may fail, which is only reported, or   *)
(* take too long, which raises.                                             *)
Firewall(new, outcome) ==
  /\ rule' \in (IF outcome = "applied" THEN {new} ELSE {new, rule})
  /\ IF outcome = "applied" THEN UNCHANGED faults ELSE Fault
  /\ IF outcome = "raised" THEN GivesUp ELSE Proceeds(change.revoked)

Outcomes == {"applied", "failed", "raised"}

(* Mutant: the old rule is removed only when the port changes.              *)
ClosesOtherPort(outcome) ==
  LET needed == change.previous.managed /\ change.previous.port # change.config.port
  IN  /\ Doing("close")
      /\ IF needed THEN Firewall(NoRule, outcome)
                   ELSE outcome = "applied" /\ Proceeds(change.revoked) /\ UNCHANGED <<rule, faults>>
      /\ UNCHANGED <<world, clock, running, store, disk, attempts, starts, misses, granted>>
      /\ UNCHANGED <<network, active, certificate, stage>>

ClosesRule(outcome) ==
  LET needed == /\ change.previous.managed
                /\ Len(change.todo) = Len(Plan("disable"))
                   => (~change.config.managed \/ change.previous.port # change.config.port)
  IN  /\ Doing("close")
      /\ IF needed THEN Firewall(NoRule, outcome)
                   ELSE outcome = "applied" /\ Proceeds(change.revoked) /\ UNCHANGED <<rule, faults>>
      /\ UNCHANGED <<world, clock, running, store, disk, attempts, starts, misses, granted>>
      /\ UNCHANGED <<network, active, certificate, stage>>

OpensRule(outcome) ==
  /\ Doing("open")
  /\ IF change.config.managed THEN Firewall(change.config, outcome)
     ELSE outcome = "applied" /\ Proceeds(change.revoked) /\ UNCHANGED <<rule, faults>>
  /\ UNCHANGED <<world, clock, running, store, disk, attempts, starts, misses, granted>>
  /\ UNCHANGED <<network, active, certificate, stage>>

Audits(ok) ==
  /\ Doing("audit")
  /\ Persisted(store, ok)
  /\ IF ok THEN Proceeds(change.revoked) ELSE GivesUp
  /\ UNCHANGED <<world, clock, running, store, attempts, starts, misses, granted>>
  /\ UNCHANGED <<network, active, rule, certificate, stage>>

(* revoke_all_for_reason                                                    *)
RevokesSessions(ok) ==
  LET new == Revoked(store, LiveIn(store))
  IN  /\ Doing("revoke")
      /\ store' = new /\ Persisted(new, ok)
      /\ IF ok THEN Proceeds(LiveIn(store)) ELSE GivesUp
      /\ UNCHANGED <<world, clock, running, attempts, starts, misses, granted>>
      /\ UNCHANGED <<network, active, rule, certificate, stage>>

-----------------------------------------------------------------------------
(* From outside: the recovery tool, with the service stopped, and a         *)
(* certificate that is lost.                                                *)

ResetNetwork ==
  LET clean == Cleaned(disk)
  IN  /\ stage = "down" /\ world.tools
      /\ rule' \in (IF network.mode = "lan" /\ network.managed THEN {NoRule} ELSE {rule})
      /\ network' = Local(network.port)
      /\ disk' = IF disk.pin = None THEN clean ELSE Revoked(clean, LiveIn(clean))
      /\ ended' = IF disk.pin = None THEN ended ELSE ended \cup LiveIn(clean)
      /\ UNCHANGED <<world, clock, running, store, attempts, request, faults, starts, granted, misses>>
      /\ UNCHANGED <<active, certificate, stage, change, restart>>

LosesCertificate ==
  /\ certificate /\ certificate' = FALSE /\ Fault
  /\ AuthIdle
  /\ UNCHANGED <<network, active, rule, stage, change, restart>>

-----------------------------------------------------------------------------
Init ==
  /\ AuthInit
  /\ network = Local(1) /\ active = Local(1) /\ rule = NoRule
  /\ certificate = FALSE /\ stage = "down"
  /\ change = NoChange /\ restart = FALSE

Handles(c) == ((~Changing /\ OnLoop(c)) \/ InThread(c, active.mode)) /\ UNCHANGED networkVars

(* NetworkPolicy: who is on the LAN reaches a service that serves the LAN,  *)
(* by its address, the hostname and the origin that go with it.             *)
Admits(c) == c \in world.remote => active.mode = "lan"
Takes == \E c \in Clients : stage = "serving" /\ ~Changing /\ Admits(c) /\ Receives(c) /\ UNCHANGED networkVars

Rejecting == stage = "serving" /\ ~Changing /\ world.faults > 0 /\ RejectsClient /\ UNCHANGED networkVars
ClockTicks == Passes /\ UNCHANGED networkVars
Resetting == stage = "down" /\ ResetAuth /\ UNCHANGED networkVars

ChangeBegins(c) ==
  \E guess \in Pins :
     \/ \E config \in world.configs : ApplyBegins(c, guess, config)
     \/ DisableBegins(c, guess)

ChangeSteps ==
  \/ \E ok \in BOOLEAN : SavesConfig(ok) \/ Audits(ok) \/ RevokesSessions(ok)
  \/ \E outcome \in Outcomes : ClosesRule(outcome) \/ OpensRule(outcome)

Next ==
  \/ Start \/ Load \/ Listen \/ ListenFails \/ Close \/ Reload \/ Stop \/ Killed
  \/ Takes \/ (\E c \in Clients : Handles(c)) \/ Rejecting \/ ClockTicks
  \/ (\E c \in Clients : ChangeBegins(c)) \/ ChangeSteps
  \/ Resetting \/ ResetNetwork \/ LosesCertificate

Spec == Init /\ [][Next]_vars

(* main's loop runs, the listener opens when it is tried again and again,   *)
(* and requests are handled.                                                *)
Fairness ==
  /\ WF_vars(Load) /\ WF_vars(Listen) /\ WF_vars(Close) /\ WF_vars(Reload) /\ WF_vars(ChangeSteps)
  /\ \A c \in Clients : WF_vars(Handles(c) \/ ChangeBegins(c))

FairSpec == Spec /\ Fairness

-----------------------------------------------------------------------------
TypeOK ==
  /\ AuthTypeOK
  /\ network \in Configurations /\ active \in Configurations
  /\ rule \in Configurations \cup {NoRule}
  /\ certificate \in BOOLEAN /\ restart \in BOOLEAN
  /\ stage \in {"down", "loading", "binding", "serving", "closing"}
  /\ change.by \in Clients \cup {None} /\ change.revoked \subseteq Tokens

(* The rule that a configuration asks for.                                  *)
RuleFor(config) == IF config.managed THEN config ELSE NoRule

(* As long as nothing fails, the installed rule is the one the stored       *)
(* configuration asks for whenever no change is under way, whatever the     *)
(* sequence of configurations, disablings and recoveries.                   *)
CalmRuleFollows ==
  world.faults = 0 /\ ~Changing => rule = RuleFor(network)

(* A session that was granted by a local-only service is not accepted by    *)
(* one that serves the LAN.                                                 *)
BoundaryKept ==
  stage = "serving" /\ active.mode = "lan" =>
    \A t \in granted : Accepted(store, t) => store.session[t].mode = "lan"

(* A restart that was scheduled leads to a process that serves the stored   *)
(* configuration, unless the process ends.                                  *)
RestartServes ==
  restart ~> (stage = "down" \/ (stage = "serving" /\ active = network))
=============================================================================
