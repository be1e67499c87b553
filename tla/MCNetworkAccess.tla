-------------------------- MODULE MCNetworkAccess --------------------------
(* Small instances of AuthService and NetworkAccess for TLC.                *)
EXTENDS NetworkAccess, TLC

CONSTANTS p, q, c1, c2, t1, t2

LocalConfig == [mode |-> "local", port |-> 2, managed |-> FALSE]
Lan(port) == [mode |-> "lan", port |-> port, managed |-> TRUE]
LanUnmanaged == [Lan(1) EXCEPT !.managed = FALSE]

(* Wrong PINs over eleven minutes; sessions that end, with a failing write  *)
(* and restarts; changes of the network.                                    *)
Guessing == [ops |-> {"login"}, pin |-> p, ticks |-> {1}, until |-> 11,
             trust |-> {}, faults |-> 0, starts |-> 1, configs |-> {}, tools |-> FALSE, clients |-> {c1}, remote |-> {}]
Mixed == [Guessing EXCEPT !.ops = {"login", "revoke-all"}, !.ticks = {10}, !.until = 10, !.trust = {0}]
Sessions == [ops |-> Operations \ {"apply", "disable"}, pin |-> None, ticks |-> {10}, until |-> 10,
             trust |-> {0, 10}, faults |-> 1, starts |-> 2, configs |-> {}, tools |-> TRUE, clients |-> {c1}, remote |-> {}]
Networks == [ops |-> {"login", "logout", "apply", "disable"}, pin |-> p, ticks |-> {}, until |-> 0,
             trust |-> {0}, faults |-> 0, starts |-> 2, 
             configs |-> {LocalConfig, LanUnmanaged, Lan(1), Lan(2)}, tools |-> TRUE, clients |-> {c1}, remote |-> {}]
Failing == [Networks EXCEPT !.faults = 1, !.configs = {Lan(1)}, !.ops = {"login", "apply", "disable"}]
Racing == [Failing EXCEPT !.faults = 0, !.starts = 1, !.ops = {"login", "apply"}, !.clients = {c1, c2}]
OnTheLan == [Racing EXCEPT !.ops = {"login", "apply", "disable"}, !.remote = {c2}]

AllWorlds == {Guessing, Mixed, Sessions, Networks, Failing, Racing, OnTheLan}
JustNetworks == {Networks}
JustFailing == {Failing}
=============================================================================
