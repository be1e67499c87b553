--------------------------- MODULE MCSessionManager ---------------------------
(* Instances of SessionManager for TLC. *)
EXTENDS SessionManager, TLC

CONSTANTS s1, s2, p1

Symmetric == Permutations(Sessions)

=============================================================================
