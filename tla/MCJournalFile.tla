---------------------------- MODULE MCJournalFile ---------------------------
(* JournalFile with a few records.                                         *)
EXTENDS JournalFile
=============================================================================
