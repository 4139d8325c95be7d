------------------------- MODULE UserDataInvariant --------------------------
(***************************************************************************)
(* The inductive invariant of UserData: what segments, state file, journal *)
(* and memory have to say about each other between any two steps.          *)
(***************************************************************************)
EXTENDS UserData

(* A segment holds records of its own target, up to its watermark.         *)
SegmentOK(t, s) ==
  /\ s.st = "none" => s = NoSegment
  /\ \A r \in s.inc : r.tgt = t /\ r.seq <= s.max

(* A state (file or memory) never claims more than the segments hold.      *)
StateOK(s) == \A t \in Target : s.folded[t] <= seg[t].max

DiskInv ==
  /\ \A t \in Target : SegmentOK(t, seg[t])
  /\ StateOK(disk)

(* Every open can read the sealed journals.                                *)
ReadsAll == "sealed_skipped" \notin Faults

(* Numbers: everything known is below the next number, and as long as the  *)
(* sealed journals can be read everything written.                         *)
NumbersInv ==
  /\ \A t \in Target : Opened(t).max < next
  /\ \A t \in Target : disk.folded[t] < next /\ state.folded[t] < next
  /\ \A r \in log \cup delta : r.seq < next
  /\ ReadsAll => \A r \in Logged : r.seq < next

(* Memory: the view's segments are the disk's or older, the delta is in    *)
(* the journal and above the view's segments; what the disk's segments     *)
(* cover of the delta they contain.                                        *)
ViewInv ==
  /\ StateOK(state)
  /\ \A t \in Target :
       /\ SegmentOK(t, mseg[t])
       /\ mseg[t].inc \subseteq Opened(t).inc
       /\ mseg[t].max <= Opened(t).max
  /\ \A r \in delta :
       /\ r \in Logged
       /\ mseg[r.tgt].max < r.seq
       /\ r.seq <= Opened(r.tgt).max => r \in Opened(r.tgt).inc

(* A fold in progress: its watermark is above all earlier ones of its      *)
(* target, and until it is published its segment is the view's segment     *)
(* plus the delta up to that watermark.                                    *)
FoldInv ==
  fold # NoFold =>
    LET t == fold.tgt IN
    /\ fold.upto < next
    /\ Opened(t).max <= fold.upto
    /\ disk.folded[t] <= fold.upto /\ state.folded[t] <= fold.upto
    /\ \A r \in delta : r \in log \/ r.seq <= fold.upto
    /\ fold.pc \in {"build", "publish"} =>
         fold.inc = mseg[t].inc \cup {r \in Pending(t) : r.seq <= fold.upto}
    /\ fold.pc \in {"publish", "save"} => seg[t] = Built
    /\ fold.pc = "save" => mseg[t] = Built

(* A compaction only leaves out targets of which everything in the delta   *)
(* is in the journal, not in a sealed one only.                            *)
CompactInv ==
  compaction.on => \A r \in delta : r \in log \/ r.tgt \in compaction.todo

UpInv == up => NumbersInv /\ ViewInv /\ FoldInv /\ CompactInv

(* Nothing acknowledged is lost, in memory and on disk.                    *)
KeptInv ==
  /\ NoLoss
  /\ acked \subseteq Replayed \cup InSegments

(* Without the part on acknowledged records it holds under every fault.    *)
OrderInv == TypeOK /\ DiskInv /\ UpInv
IInv == OrderInv /\ KeptInv
=============================================================================
