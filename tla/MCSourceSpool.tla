--------------------------- MODULE MCSourceSpool ---------------------------
(* Two sessions, so that an orphaned image meets its successor.             *)
EXTENDS SourceSpool
=============================================================================
