------------------------------ MODULE MCOverlay ------------------------------
(* Overlay on two codes of which one is a prefix of the other.  A weight   *)
(* that is set is below that of a new word, which may then be counted.     *)
EXTENDS Overlay, TLC

Codes == {<<1>>, <<1, 2>>}

AllOps == {[op |-> "upsert", arg |-> 1], [op |-> "setweight", arg |-> -1],
           [op |-> "delete", arg |-> 0], [op |-> "incr", arg |-> 2],
           [op |-> "touch", arg |-> 9]}
=============================================================================
