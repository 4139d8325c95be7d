----------------------------- MODULE UserStore ------------------------------
(***************************************************************************)
(* What the user-data engine promises, without journal, delta, segments or *)
(* watermarks: the records its user can see only grow, by acknowledged     *)
(* batches; a restart may add records of a write that never returned Ok.   *)
(* Damage to the disk, which takes records away, is no step of it.         *)
(***************************************************************************)
VARIABLES
  shown,           (* the records a query sees, or will after the next open *)
  limbo            (* written by a batch that failed, not shown             *)

vars == <<shown, limbo>>

Init == shown = {} /\ limbo = {}

(* A batch is acknowledged: new records show, none of them one that failed *)
(* before.                                                                 *)
Acknowledge ==
  /\ shown \subseteq shown'
  /\ shown' \cap limbo = {}
  /\ UNCHANGED limbo

(* A batch fails part way.                                                 *)
Fail ==
  /\ limbo \subseteq limbo'
  /\ limbo' \cap shown = {}
  /\ UNCHANGED shown

(* A fold passes over what is in limbo.                                    *)
Forget ==
  /\ limbo' \subseteq limbo
  /\ UNCHANGED shown

(* The process ends, perhaps in a batch: all that was written shows next.  *)
Restart ==
  /\ shown \cup limbo \subseteq shown'
  /\ limbo' = {}

Next == Acknowledge \/ Fail \/ Forget \/ Restart

Spec == Init /\ [][Next]_vars
=============================================================================
