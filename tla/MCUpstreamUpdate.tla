--------------------------- MODULE MCUpstreamUpdate ---------------------------
(* Instances of UpstreamUpdate for TLC.                                     *)
EXTENDS UpstreamUpdate, TLC

CONSTANTS old, new, c1, c2, t1

=============================================================================
