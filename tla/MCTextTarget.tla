----------------------------- MODULE MCTextTarget ---------------------------
(* TextTarget with the bounds the .cfg files of this name give it.         *)
EXTENDS TextTarget
=============================================================================
