--------------------------- MODULE MCEditSessions ---------------------------
(* EditSessions on a word file and a small table.                          *)
EXTENDS EditSessions, TLC
=============================================================================
