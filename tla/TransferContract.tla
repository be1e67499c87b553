-------------------------- MODULE TransferContract --------------------------
(***************************************************************************)
(* What the transfer service promises for every accepted transfer, with    *)
(* the tasks, the semaphore, the files and the state file left out.  A     *)
(* transfer is owed to the client from its acceptance until it is          *)
(* delivered or stopped; a delivered transfer is settled for as long as    *)
(* the service is open, and only an explicit retry makes a stopped one     *)
(* owed again.                                                             *)
(***************************************************************************)
EXTENDS Naturals, FiniteSets

CONSTANTS Transfers,    \* identifiers of transfer records
          QueueLimit    \* bound on owed transfers at the acceptance of a new one

VARIABLES open,         \* the service accepts requests
          status,       \* what the client is told about each transfer
          tries         \* retries granted to each transfer

contractVars == <<open, status, tries>>

Statuses == {"none", "owed", "delivered", "stopped"}

Init ==
    /\ open = TRUE
    /\ status = [t \in Transfers |-> "none"]
    /\ tries = [t \in Transfers |-> 0]

Accept(t) ==
    /\ open
    /\ status[t] = "none"
    /\ Cardinality({u \in Transfers : status[u] = "owed"}) < QueueLimit
    /\ status' = [status EXCEPT ![t] = "owed"]
    /\ UNCHANGED <<open, tries>>

Deliver(t) ==
    /\ open
    /\ status[t] = "owed"
    /\ status' = [status EXCEPT ![t] = "delivered"]
    /\ UNCHANGED <<open, tries>>

Stop(t) ==
    /\ status[t] = "owed"
    /\ status' = [status EXCEPT ![t] = "stopped"]
    /\ UNCHANGED <<open, tries>>

Retry(t) ==
    /\ open
    /\ status[t] = "stopped"
    /\ status' = [status EXCEPT ![t] = "owed"]
    /\ tries' = [tries EXCEPT ![t] = @ + 1]
    /\ UNCHANGED open

Shut ==
    /\ open' = FALSE
    /\ UNCHANGED <<status, tries>>

(* Everything still owed when the service is down is reported as stopped.  *)
Interrupted == [t \in Transfers |-> IF status[t] = "owed" THEN "stopped" ELSE status[t]]

Interrupt ==
    /\ ~open
    /\ status' = Interrupted
    /\ UNCHANGED <<open, tries>>

Reopen ==
    /\ ~open
    /\ open' = TRUE
    /\ status' = Interrupted
    /\ UNCHANGED tries

(* The one way out of "delivered": the shutdown may take it back.          *)
Withdraw(t) ==
    /\ ~open
    /\ status[t] = "delivered"
    /\ status' = [status EXCEPT ![t] = "stopped"]
    /\ UNCHANGED <<open, tries>>

Next ==
    \/ \E t \in Transfers : Accept(t) \/ Deliver(t) \/ Stop(t) \/ Retry(t) \/ Withdraw(t)
    \/ Shut \/ Interrupt \/ Reopen

Spec == Init /\ [][Next]_contractVars

=============================================================================
