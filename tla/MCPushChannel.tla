----------------------------- MODULE MCPushChannel -----------------------------
(* Instances of PushChannel for TLC. *)
EXTENDS PushChannel

CONSTANTS dll1, dll2, none

================================================================================
