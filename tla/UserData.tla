------------------------------ MODULE UserData ------------------------------
(***************************************************************************)
(* The user-data engine of wind-userdata (engine.rs, device.rs, state.rs,  *)
(* snapshot.rs) for targets kept in segments: a journal of records, the    *)
(* delta of records not folded yet, one segment (snapshot) per target with *)
(* its embedded watermark, and the state file with the folded watermarks.  *)
(*                                                                         *)
(* A record is the pair of its sequence number and its target.  What a     *)
(* segment holds is the set `inc` of records folded into it: apply_ops is  *)
(* deterministic in sequence order (module Overlay), so a segment is right *)
(* exactly when every record entered it once and in order.  A fold policy  *)
(* (clear, import, evict) decides what the user sees of a record that has  *)
(* been folded; it does not change which records have been accounted for.  *)
(***************************************************************************)
EXTENDS Integers, Sequences, FiniteSets

CONSTANTS
  Target,    (* (target, schema) pairs                                     *)
  MaxSeq,    (* highest sequence number a run hands out; bounds the model  *)
  MaxSealed, (* most sealed journals at once; bounds the model             *)
  MaxBatch,  (* most operations in one apply_batch; bounds the model       *)
  Faults     (* the failures the environment may inject                    *)

FaultKinds ==
  { "append_error",      (* an append fails in the middle of a batch       *)
    "power_loss",        (* the journal loses a suffix not yet fsynced     *)
    "segment_rot",       (* a segment cannot be opened                     *)
    "state_rot",         (* the state file is unreadable                   *)
    "journal_deleted",   (* the user deletes journal/ (state is inside)    *)
    "seal_fails",        (* the old journal cannot be renamed to .sealed   *)
    "sealed_unreadable", (* reading a sealed journal fails in compact      *)
    "sealed_skipped"     (* reading one fails in open, which goes on       *) }

ASSUME BoundsAssumption == MaxSeq \in Nat /\ MaxBatch \in Nat /\ MaxSealed \in Nat
ASSUME FaultsAssumption == Faults \subseteq FaultKinds

Seqs == Nat \ {0}
Record == [seq : Seqs, tgt : Target]
Segment == [st : {"none", "ok", "broken"}, max : Nat, inc : SUBSET Record]
State == [next : Nat, folded : [Target -> Nat]]
Fold == [pc : {"build", "publish", "save"}, by : {"caller", "compact"},
         tgt : Target, upto : Nat, inc : SUBSET Record]
Compaction == [on : BOOLEAN, todo : SUBSET Target]

NoSegment == [st |-> "none", max |-> 0, inc |-> {}]
NoState == [next |-> 0, folded |-> [t \in Target |-> 0]]
NoFold == [pc |-> "idle"]
NoCompaction == [on |-> FALSE, todo |-> {}]

VARIABLES
  (* on disk *)
  log,       (* complete records of this device's .wjl                     *)
  sealed,    (* the .wjl.sealed files, each a set of records               *)
  seg,       (* per target: what opening its segment would find            *)
  disk,      (* the state file                                             *)
  (* in memory; meaningful while up *)
  up,        (* an engine holds the lock                                   *)
  next,      (* Journal.next_seq                                           *)
  mseg,      (* View.snapshots                                             *)
  delta,     (* View.delta                                                 *)
  state,     (* UserData.state                                             *)
  fold,      (* the fold that holds fold_lock                              *)
  compaction,(* the compact() in progress                                  *)
  pruned,    (* pruned_upto                                                *)
  acked      (* history: records whose apply_batch returned Ok and that no *)
             (* damage to the disk has taken away                          *)

diskVars == <<log, sealed, seg, disk>>
memVars  == <<up, next, mseg, delta, state, fold, compaction, pruned>>
vars     == <<diskVars, memVars, acked>>

-----------------------------------------------------------------------------
(* What the disk holds, as open() reads it.                                *)

Logged == log \cup UNION sealed

(* Mutant: the state file alone decides what is replayed.                  *)
WatermarkOfState(t) == disk.folded[t]

(* The replay watermark of a target.                                       *)
Watermark(t) ==
  IF seg[t].st = "broken" THEN 0
  ELSE IF seg[t].st = "ok" /\ seg[t].max > disk.folded[t]
       THEN seg[t].max ELSE disk.folded[t]

(* What an engine opened now would show: InSegments and the replayed rest. *)
Replayed == {r \in Logged : r.seq > Watermark(r.tgt)}

Opened(t) == IF seg[t].st = "ok" THEN seg[t] ELSE NoSegment

(* Mutant: an empty directory does not start numbering at 1.               *)
FloorsFromZero(R) == {disk.next} \cup {r.seq + 1 : r \in R}

(* Mutant: numbering goes on from state file and journal only.             *)
FloorsWithoutSegments(R) ==
  {1, disk.next} \cup {disk.folded[t] + 1 : t \in Target} \cup {r.seq + 1 : r \in R}

(* The candidates for the next sequence number when records R are read.    *)
Floors(R) ==
  {1, disk.next}
  \cup {disk.folded[t] + 1 : t \in Target}
  \cup {seg[t].max + 1 : t \in {u \in Target : seg[u].st = "ok"}}
  \cup {r.seq + 1 : r \in R}

IsMax(S, m) == m \in S /\ \A x \in S : x <= m
IsMin(S, m) == m \in S /\ \A x \in S : m <= x

(* Records of every segment that opens.                                    *)
InSegments == UNION {Opened(t).inc : t \in Target}

-----------------------------------------------------------------------------
Init ==
  /\ log = {} /\ sealed = {}
  /\ seg = [t \in Target |-> NoSegment]
  /\ disk = NoState
  /\ up = FALSE /\ next = 1
  /\ mseg = [t \in Target |-> NoSegment]
  /\ delta = {} /\ state = NoState
  /\ fold = NoFold /\ compaction = NoCompaction /\ pruned = 0
  /\ acked = {}

(***************************************************************************)
(* UserData::open by the process that got state/lock.  A renewed device    *)
(* (load_or_renew) seals the old journal under a new name and starts a new *)
(* one; a failing rename is ignored and leaves the old journal where       *)
(* nobody reads it.  A sealed journal that cannot be read is skipped by    *)
(* replay_all: this engine does not show its records.                      *)
(***************************************************************************)
Renew ==
  /\ Cardinality(sealed) < MaxSealed
  /\ log' = {}
  /\ \/ sealed' = sealed \cup ({log} \ {{}})
     \/ "seal_fails" \in Faults /\ UNCHANGED sealed

Open ==
  /\ ~up
  /\ UNCHANGED <<log, sealed>> \/ Renew
  /\ UNCHANGED <<seg, disk>>
  /\ up' = TRUE
  /\ mseg' = [t \in Target |-> Opened(t)]
  /\ \E skipped \in SUBSET sealed' :
       LET read == log' \cup UNION (sealed' \ skipped)
       IN /\ skipped # {} => "sealed_skipped" \in Faults
          /\ delta' = {r \in read : r.seq > Watermark(r.tgt)}
          /\ \E m \in Floors(read) : IsMax(Floors(read), m) /\ next' = m
  /\ state' = [disk EXCEPT !.next = next']
  /\ fold' = NoFold /\ compaction' = NoCompaction /\ pruned' = 0
  /\ UNCHANGED acked

(* Everything in memory is gone.                                           *)
Halt ==
  /\ up' = FALSE /\ next' = 1
  /\ mseg' = [t \in Target |-> NoSegment]
  /\ delta' = {} /\ state' = NoState
  /\ fold' = NoFold /\ compaction' = NoCompaction /\ pruned' = 0

-----------------------------------------------------------------------------
(***************************************************************************)
(* apply_batch: under the write lock and the journal lock every record is  *)
(* appended by a write of its own, then the view is published once.        *)
(***************************************************************************)
Batches == UNION {[1..n -> Target] : n \in 1..MaxBatch}
Numbered(b, k) == {[seq |-> next + i - 1, tgt |-> b[i]] : i \in 1..k}
CanWrite(b) == up /\ next + Len(b) - 1 <= MaxSeq

ApplyBatch(b) ==
  /\ CanWrite(b)
  /\ log' = log \cup Numbered(b, Len(b))
  /\ next' = next + Len(b)
  /\ delta' = delta \cup Numbered(b, Len(b))
  /\ acked' = acked \cup Numbered(b, Len(b))
  /\ UNCHANGED <<sealed, seg, disk, up, mseg, state, fold, compaction, pruned>>

(* The append after the first k fails: Err, nothing is published, and what *)
(* has been appended stays in the journal and shows after the next open.  *)
ApplyFails(b, k) ==
  /\ "append_error" \in Faults
  /\ CanWrite(b) /\ k < Len(b)
  /\ log' = log \cup Numbered(b, k)
  /\ next' = next + k
  /\ UNCHANGED <<sealed, seg, disk, up, mseg, delta, state, fold, compaction, pruned, acked>>

(* The process dies in a batch, k records appended, before it returns.     *)
CrashInApply(b, k) ==
  /\ CanWrite(b) /\ k <= Len(b)
  /\ log' = log \cup Numbered(b, k)
  /\ Halt
  /\ UNCHANGED <<sealed, seg, disk, acked>>

-----------------------------------------------------------------------------
(***************************************************************************)
(* fold_with, under fold_lock.  Upto and the base view are taken in one    *)
(* step under the write lock; the segment is built without that lock, so   *)
(* batches go on meanwhile.                                                *)
(***************************************************************************)
Pending(t) == {r \in delta : r.tgt = t}

FoldBegin(t, by) ==
  /\ up /\ fold = NoFold
  /\ by = "compact" => compaction.on /\ t \in compaction.todo
  /\ fold' = [pc |-> "build", by |-> by, tgt |-> t, upto |-> next - 1,
              inc |-> mseg[t].inc \cup {r \in Pending(t) : r.seq <= next - 1}]
  /\ UNCHANGED <<diskVars, up, next, mseg, delta, state, compaction, pruned, acked>>

Built == [st |-> "ok", max |-> fold.upto, inc |-> fold.inc]

(* snapshot::build; the atomic write of the sidecar is the commit point.   *)
FoldBuild ==
  /\ up /\ fold.pc = "build"
  /\ seg' = [seg EXCEPT ![fold.tgt] = Built]
  /\ fold' = [fold EXCEPT !.pc = "publish"]
  /\ UNCHANGED <<log, sealed, disk, up, next, mseg, delta, state, compaction, pruned, acked>>

(* A compact() whose fold fails returns that error.                        *)
FoldFailed ==
  /\ fold' = NoFold
  /\ compaction' = IF fold.by = "compact" THEN NoCompaction ELSE compaction

(* build returns Err before the commit point, or after it (the directory   *)
(* cannot be fsynced, the new segment cannot be opened).                   *)
FoldBuildFails ==
  /\ up /\ fold.pc = "build"
  /\ \/ UNCHANGED seg
     \/ seg' = [seg EXCEPT ![fold.tgt] = Built]
  /\ FoldFailed
  /\ UNCHANGED <<log, sealed, disk, up, next, mseg, delta, state, pruned, acked>>

(* Mutant: the delta loses everything of the folded target.                *)
FoldPublishDropsAll ==
  /\ up /\ fold.pc = "publish"
  /\ mseg' = [mseg EXCEPT ![fold.tgt] = Built]
  /\ delta' = delta \ Pending(fold.tgt)
  /\ fold' = [fold EXCEPT !.pc = "save"]
  /\ UNCHANGED <<diskVars, up, next, state, compaction, pruned, acked>>

(* Under the write lock: the new segment in, the folded records out of the *)
(* delta of now -- only those of this target with seq <= upto.             *)
FoldPublish ==
  /\ up /\ fold.pc = "publish"
  /\ mseg' = [mseg EXCEPT ![fold.tgt] = Built]
  /\ delta' = {r \in delta : ~(r.tgt = fold.tgt /\ r.seq <= fold.upto)}
  /\ fold' = [fold EXCEPT !.pc = "save"]
  /\ UNCHANGED <<diskVars, up, next, state, compaction, pruned, acked>>

FoldedState ==
  [next   |-> IF state.next > fold.upto THEN state.next ELSE fold.upto + 1,
   folded |-> [state.folded EXCEPT ![fold.tgt] = fold.upto]]

FoldSave ==
  /\ up /\ fold.pc = "save"
  /\ state' = FoldedState /\ disk' = FoldedState
  /\ fold' = NoFold
  /\ compaction' = IF fold.by = "compact"
                   THEN [compaction EXCEPT !.todo = @ \ {fold.tgt}] ELSE compaction
  /\ UNCHANGED <<log, sealed, seg, up, next, mseg, delta, pruned, acked>>

FoldSaveFails ==
  /\ up /\ fold.pc = "save"
  /\ state' = FoldedState
  /\ FoldFailed
  /\ UNCHANGED <<diskVars, up, next, mseg, delta, pruned, acked>>

-----------------------------------------------------------------------------
(***************************************************************************)
(* compact: fold every target with pending records, then under the write   *)
(* lock rewrite the journal without the records below the lowest pending   *)
(* one, and remove the sealed journals that lie below it.                  *)
(***************************************************************************)
CompactBegin ==
  /\ up /\ ~compaction.on
  /\ compaction' = [on |-> TRUE, todo |-> {t \in Target : Pending(t) # {}}]
  /\ UNCHANGED <<diskVars, up, next, mseg, delta, state, fold, pruned, acked>>

(* Mutant: the journal is cut at the next number, whatever is pending.     *)
KeepFromNext == {next}

KeepFroms == {next} \cup {r.seq : r \in delta}

CompactPrune ==
  /\ up /\ compaction.on /\ compaction.todo = {}
  /\ \E keep \in KeepFroms :
       /\ IsMin(KeepFroms, keep)
       /\ IF keep > pruned
          THEN pruned' = keep /\ log' = {r \in log : r.seq >= keep}
          ELSE UNCHANGED <<pruned, log>>
       /\ \/ sealed' = {l \in sealed : \E r \in l : r.seq >= keep}
          \/ /\ "sealed_unreadable" \in Faults
             /\ \E l \in sealed : sealed' = {x \in sealed \ {l} : \E r \in x : r.seq >= keep}
  /\ compaction' = NoCompaction
  /\ UNCHANGED <<seg, disk, up, next, mseg, delta, state, fold, acked>>

(* prune_before returns Err.                                               *)
CompactPruneFails ==
  /\ up /\ compaction.on /\ compaction.todo = {}
  /\ compaction' = NoCompaction
  /\ UNCHANGED <<diskVars, up, next, mseg, delta, state, fold, pruned, acked>>

-----------------------------------------------------------------------------
(***************************************************************************)
(* The environment.  Damage to the disk takes away from `acked` exactly    *)
(* the records of which no readable copy is left.                          *)
(***************************************************************************)
Crash == up /\ Halt /\ UNCHANGED <<diskVars, acked>>

PowerLoss ==
  /\ "power_loss" \in Faults /\ up
  /\ \E cut \in 0..MaxSeq :
       LET lost == {r \in log : r.seq > cut} IN
       /\ log' = log \ lost
       /\ acked' = acked \ (lost \ InSegments)
  /\ Halt
  /\ UNCHANGED <<sealed, seg, disk>>

SegmentRots(t) ==
  /\ "segment_rot" \in Faults /\ ~up
  /\ seg[t].st = "ok"
  /\ seg' = [seg EXCEPT ![t].st = "broken"]
  /\ acked' = acked \ (seg[t].inc \ Logged)
  /\ UNCHANGED <<log, sealed, disk, memVars>>

StateRots ==
  /\ "state_rot" \in Faults /\ ~up
  /\ disk # NoState /\ disk' = NoState
  /\ UNCHANGED <<log, sealed, seg, memVars, acked>>

JournalDeleted ==
  /\ "journal_deleted" \in Faults /\ ~up
  /\ log' = {} /\ sealed' = {} /\ disk' = NoState
  /\ acked' = acked \cap InSegments
  /\ UNCHANGED <<seg, memVars>>

-----------------------------------------------------------------------------
Write == \E b \in Batches :
  \/ ApplyBatch(b)
  \/ \E k \in 0..MaxBatch : ApplyFails(b, k) \/ CrashInApply(b, k)

FoldStep ==
  \/ \E t \in Target, by \in {"caller", "compact"} : FoldBegin(t, by)
  \/ FoldBuild \/ FoldBuildFails \/ FoldPublish \/ FoldSave \/ FoldSaveFails

Compact == CompactBegin \/ CompactPrune \/ CompactPruneFails

Environment ==
  \/ Crash \/ PowerLoss \/ StateRots \/ JournalDeleted
  \/ \E t \in Target : SegmentRots(t)

Next == Open \/ Write \/ FoldStep \/ Compact \/ Environment

Spec == Init /\ [][Next]_vars

-----------------------------------------------------------------------------
(* Every variable has its type.                                            *)
TypeOK ==
  /\ log \in SUBSET Record /\ sealed \in SUBSET SUBSET Record
  /\ seg \in [Target -> Segment] /\ disk \in State
  /\ up \in BOOLEAN /\ next \in Seqs
  /\ mseg \in [Target -> Segment]
  /\ delta \in SUBSET Record /\ state \in State
  /\ fold \in Fold \cup {NoFold} /\ compaction \in Compaction /\ pruned \in Nat
  /\ acked \in SUBSET Record

Shown == delta \cup UNION {mseg[t].inc : t \in Target}

(* No acknowledged record is ever missing from the view a query reads,     *)
(* whatever folds, compactions and restarts came between (design 11: no    *)
(* loss).                                                                  *)
NoLoss == up => acked \subseteq Shown

(* No record is both in a segment and in the delta on top of it: an Incr   *)
(* would count twice, a Delete would remove a word learned again since     *)
(* (design 11: no record applied twice).                                   *)
NoDoubleApply == up => \A t \in Target : mseg[t].inc \cap delta = {}

(* At any moment, should the process die now, the next open shows every    *)
(* acknowledged record, and none of them twice: the disk alone carries the *)
(* promise between the steps of a fold, a compaction or a renewal.         *)
Recoverable ==
  /\ acked \subseteq Replayed \cup InSegments
  /\ Replayed \cap InSegments = {}

(* A new record is numbered above everything that decides what a replay    *)
(* skips; numbered below a watermark it would be gone after a restart      *)
(* (journal.rs, bump_next_seq).                                            *)
FreshNumbers ==
  up => /\ \A t \in Target : Watermark(t) < next \/ seg[t].st = "broken"
        /\ \A r \in Logged : r.seq < next

(***************************************************************************)
(* The engine implements UserStore: folds, compactions, renewals, opens    *)
(* and the loss of the state file are invisible; a power loss, a segment   *)
(* that cannot be opened and a deleted journal are the only steps that     *)
(* take away what the user sees.                                           *)
(***************************************************************************)
Surviving == Replayed \cup InSegments

Store == INSTANCE UserStore WITH
  shown  <- IF up THEN Shown ELSE Surviving,
  limbo  <- IF up THEN Replayed \ Shown ELSE {}

Damage == PowerLoss \/ JournalDeleted \/ \E t \in Target : SegmentRots(t)

ImplementsUserStore == Store!Init /\ [][Store!Next \/ Damage]_(Store!vars)

(* A segment is only ever replaced by one folded at least as far.          *)
WatermarkNeverBack ==
  [][\A t \in Target : Opened(t) # NoSegment /\ Opened(t)' # NoSegment
                         => Opened(t)'.max >= Opened(t).max]_vars
=============================================================================
