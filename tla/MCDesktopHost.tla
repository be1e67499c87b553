--------------------------- MODULE MCDesktopHost ---------------------------
(* Small instances of DesktopHost for TLC.                                  *)
EXTENDS DesktopHost, TLC
=============================================================================
