-------------------------- MODULE MCBrowserController --------------------------
(* Small instances of BrowserController for TLC.                            *)
EXTENDS BrowserController

Plain == [phones |-> {"p1"}, troubles |-> {}, presses |-> TRUE, patient |-> TRUE, settings |-> FALSE,
          launch |-> FALSE, late |-> FALSE, unload |-> FALSE]
Watching == [Plain EXCEPT !.presses = FALSE, !.troubles = {"list", "start", "open", "stream", "stop", "plug"}]
Pressing == [Plain EXCEPT !.troubles = {"start", "stream", "decode"}]
Setting == [Plain EXCEPT !.phones = {"p1", "p2"}, !.settings = TRUE, !.troubles = {"start"}]
Losing == [Plain EXCEPT !.troubles = {"list", "plug", "stream"}]
Hasty == [Plain EXCEPT !.patient = FALSE, !.late = TRUE, !.launch = TRUE, !.unload = TRUE,
                       !.troubles = {"launch", "stream", "open"}]

Several == {Watching, Pressing, Setting, Losing, Hasty}

(* Where more is promised than holds.                                       *)
JustLosing == {Losing}
JustLaunching == {[Plain EXCEPT !.launch = TRUE, !.presses = FALSE, !.troubles = {"decode"}]}
JustHasty == {[Hasty EXCEPT !.unload = FALSE]}
JustFailing == {[Hasty EXCEPT !.unload = FALSE, !.troubles = {"open", "stop"}]}
JustRoaming == {[Watching EXCEPT !.phones = {"p1", "p2"}, !.troubles = {"plug"}]}
JustClosing == {[Plain EXCEPT !.unload = TRUE]}
=============================================================================
