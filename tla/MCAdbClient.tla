------------------------------ MODULE MCAdbClient ------------------------------
(* Instances of AdbClient for TLC.                                          *)
EXTENDS AdbClient, TLC

CONSTANTS r1, r2

Pair(k1, k2) == r1 :> k1 @@ r2 :> k2
(* The requests that share the catalogue of names, its lock, the figures,   *)
(* the server file or the session with one another, and the others once.   *)
Everything ==
    {Pair("apps", k) : k \in {"apps", "running", "move", "session", "virtual", "scan"}}
    \cup {Pair("running", k) : k \in {"running", "session"}}
    \cup {Pair("move", k) : k \in {"virtual", "command"}}
    \cup {Pair("virtual", k) : k \in {"session", "virtual", "monitor"}}
    \cup {Pair("delete", k) : k \in {"delete", "pictures"}}
    \cup {Pair("devices", k) : k \in {"devices", "probe"}}
    \cup {Pair("command", "scan"), Pair("roots", "monitor")}
Loops == {Pair("scan", "scan")}
Beginning == {Pair("apps", "session")}
Enriching == {Pair("devices", "devices")}
Moving == {Pair("move", "command")}

=============================================================================
