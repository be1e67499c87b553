---------------------------- MODULE MCFolderSync ----------------------------
(* Small instances of FolderSync for TLC.                                   *)
EXTENDS FolderSync, TLC

A == <<"a", 0>>
B == <<"b", 0>>

DefaultPolicy == [s \in Sides |-> IF s = "android" THEN "rename" ELSE "overwrite"]
FailPolicy == [s \in Sides |-> "fail"]
Both == [watch |-> Sides, existing |-> {}, policy |-> DefaultPolicy, delete |-> FALSE]
Deleting == [Both EXCEPT !.delete = TRUE]
Existing == [Both EXCEPT !.existing = Sides, !.policy = FailPolicy]
UpOnly == [Both EXCEPT !.watch = {"pc"}]
DownOnly == [Deleting EXCEPT !.watch = {"android"}]
Keeping == [Both EXCEPT !.existing = Sides]
Moving == [Deleting EXCEPT !.existing = Sides]

Several == {Deleting, Existing, UpOnly, DownOnly}
JustKeeping == {Keeping}
JustMoving == {Moving}
JustBoth == {Both}

(* Each side has names of its own; or both sides have the same name.        *)
OwnNames == [paths |-> [s \in Sides |-> IF s = "android" THEN {A} ELSE {B}], edit |-> FALSE,
             crash |-> FALSE, forget |-> FALSE, restarts |-> 1, configures |-> 1]
SameName == [OwnNames EXCEPT !.paths = [s \in Sides |-> {A}], !.restarts = 0, !.configures = 0]
TwoNames == [SameName EXCEPT !.paths = [s \in Sides |-> {A, B}]]
Edited == [OwnNames EXCEPT !.edit = TRUE, !.restarts = 0, !.configures = 0]
Forgetful == [OwnNames EXCEPT !.forget = TRUE, !.restarts = 0]
Crashing == [OwnNames EXCEPT !.crash = TRUE, !.configures = 0]

AllWorlds == {OwnNames, Edited, Forgetful, Crashing}
JustSameName == {SameName}
JustTwoNames == {TwoNames}
JustEdited == {Edited}
Undisturbed == {[OwnNames EXCEPT !.configures = 0]}
=============================================================================
