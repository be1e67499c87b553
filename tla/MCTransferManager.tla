-------------------------- MODULE MCTransferManager --------------------------
(* Small instances of TransferManager for TLC.                              *)
EXTENDS TransferManager, TLC

CONSTANTS u1, u2, d1, d2

MCNames == {"a", "b", "c"}
SameName == [t \in Transfers |-> "a"]
OwnName == [t \in Transfers |-> IF t = u1 THEN "a" ELSE IF t = d1 THEN "b" ELSE "c"]
RenameAll == [t \in Transfers |-> "rename"]
MixedPolicy == [t \in Transfers |-> IF t = d1 THEN "overwrite" ELSE IF t = u1 THEN "rename" ELSE "fail"]

(* Either the uploads or the downloads are used, so that one run covers two *)
(* of each; MaxRetries bounds the downloads, one retry the uploads.         *)
OneDirection ==
    \/ \A t \in Uploads : rec[t].state = "absent"
    \/ /\ \A t \in Transfers \ Uploads : rec[t].state = "absent"
       /\ \A t \in Uploads : rec[t].attempt <= 1
OneDirectionSpec == Init /\ [][Next /\ OneDirection']_vars

Symmetric == Permutations(Transfers \cap {u1, u2}) \cup Permutations(Transfers \cap {d1, d2})
=============================================================================
