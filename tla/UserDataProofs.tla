--------------------------- MODULE UserDataProofs ---------------------------
(***************************************************************************)
(* Theorems about UserData for every set of targets and every bound:       *)
(* the types, the order of sequence numbers and watermarks under every     *)
(* fault, and that no acknowledged record is lost or shown twice.          *)
(***************************************************************************)
EXTENDS UserDataInvariant, TLAPS

-----------------------------------------------------------------------------
(* Records and numbers.                                                    *)

LEMMA NumberedRecords ==
  ASSUME TypeOK, NEW b \in Batches, NEW k \in Nat, k <= Len(b)
  PROVE  /\ Numbered(b, k) \subseteq Record
         /\ \A r \in Numbered(b, k) : next <= r.seq /\ r.seq < next + k
         /\ Len(b) \in Nat
<1>1. PICK n \in 1..MaxBatch : b \in [1..n -> Target]
  BY DEF Batches
<1>2. n \in Nat /\ Len(b) = n
  BY <1>1, BoundsAssumption
<1>3. next \in Nat /\ next >= 1
  BY DEF TypeOK, Seqs
<1>4. ASSUME NEW i \in 1..k
      PROVE  b[i] \in Target /\ next + i - 1 \in Seqs
  BY <1>1, <1>2, <1>3 DEF Seqs
<1>5. \A r \in Numbered(b, k) :
         r \in Record /\ next <= r.seq /\ r.seq < next + k
  BY <1>3, <1>4 DEF Numbered, Record
<1> QED
  BY <1>2, <1>5

LEMMA NoneTypes ==
  NoSegment \in Segment /\ NoState \in State /\ NoCompaction \in Compaction
BY DEF NoSegment, Segment, NoState, State, NoCompaction, Compaction

LEMMA HaltTypes ==
  ASSUME Halt
  PROVE  /\ up' \in BOOLEAN /\ next' \in Seqs
         /\ mseg' \in [Target -> Segment]
         /\ delta' \in SUBSET Record /\ state' \in State
         /\ fold' \in Fold \cup {NoFold} /\ compaction' \in Compaction /\ pruned' \in Nat
<1>1. NoSegment \in Segment /\ NoState \in State /\ NoCompaction \in Compaction
  BY NoneTypes
<1>2. up' \in BOOLEAN
  BY DEF Halt
<1>3. next' \in Seqs /\ pruned' \in Nat
  BY DEF Halt, Seqs
<1>4. mseg' \in [Target -> Segment]
  BY <1>1 DEF Halt
<1>5. delta' \in SUBSET Record /\ state' \in State
  BY <1>1 DEF Halt
<1>6. fold' \in Fold \cup {NoFold} /\ compaction' \in Compaction
  BY <1>1 DEF Halt
<1> QED
  BY <1>2, <1>3, <1>4, <1>5, <1>6

LEMMA FloorsAreNat ==
  ASSUME TypeOK, NEW R, R \subseteq Record
  PROVE  Floors(R) \subseteq Nat /\ 1 \in Floors(R)
<1>1. \A r \in R : r.seq + 1 \in Nat
  BY DEF Record, Seqs
<1>2. \A t \in Target : disk.folded[t] + 1 \in Nat /\ seg[t].max + 1 \in Nat
  BY DEF TypeOK, State, Segment
<1>3. disk.next \in Nat
  BY DEF TypeOK, State
<1> QED
  BY <1>1, <1>2, <1>3 DEF Floors

-----------------------------------------------------------------------------
LEMMA TypeInit == Init => TypeOK
<1> SUFFICES ASSUME Init PROVE TypeOK
  OBVIOUS
<1>1. seg \in [Target -> Segment] /\ mseg \in [Target -> Segment]
  BY NoneTypes DEF Init
<1>2. disk \in State /\ state \in State /\ compaction \in Compaction
  BY NoneTypes DEF Init
<1>3. up \in BOOLEAN
  BY DEF Init
<1>4. next \in Seqs /\ pruned \in Nat
  BY DEF Init, Seqs
<1>5. fold \in Fold \cup {NoFold}
  BY DEF Init
<1>6. /\ log \in SUBSET Record /\ sealed \in SUBSET SUBSET Record
      /\ delta \in SUBSET Record /\ acked \in SUBSET Record
  BY DEF Init
<1> QED
  BY <1>1, <1>2, <1>3, <1>4, <1>5, <1>6 DEF TypeOK

LEMMA TypeStep == TypeOK /\ [Next]_vars => TypeOK'
<1> SUFFICES ASSUME TypeOK, [Next]_vars PROVE TypeOK'
  OBVIOUS
<1>1. CASE Open
  <2>1. /\ seg' = seg /\ disk' = disk /\ up' \in BOOLEAN
        /\ fold' \in Fold \cup {NoFold} /\ compaction' \in Compaction /\ pruned' \in Nat
        /\ acked' = acked
    BY <1>1 DEF Open, NoFold, NoCompaction, Compaction
  <2>2. log' \in SUBSET Record /\ sealed' \in SUBSET SUBSET Record
    BY <1>1 DEF Open, Renew, TypeOK
  <2>3. mseg' \in [Target -> Segment]
    BY <1>1 DEF Open, Opened, TypeOK, NoSegment, Segment
  <2>8. PICK skipped \in SUBSET sealed' :
           LET read == log' \cup UNION (sealed' \ skipped)
           IN /\ delta' = {r \in read : r.seq > Watermark(r.tgt)}
              /\ \E m \in Floors(read) : IsMax(Floors(read), m) /\ next' = m
    BY <1>1 DEF Open
  <2> DEFINE read == log' \cup UNION (sealed' \ skipped)
  <2>4. read \subseteq Record
    BY <2>2
  <2>5. delta' \in SUBSET Record
    BY <2>8, <2>4
  <2>6. next' \in Seqs
    <3>1. PICK m \in Floors(read) : IsMax(Floors(read), m) /\ next' = m
      BY <2>8
    <3> QED
      BY <2>4, <3>1, FloorsAreNat DEF IsMax, Seqs
  <2>7. state' \in State
    BY <1>1, <2>6 DEF Open, TypeOK, State, Seqs
  <2> QED
    BY <2>1, <2>2, <2>3, <2>5, <2>6, <2>7 DEF TypeOK
<1>2. ASSUME NEW b \in Batches, ApplyBatch(b)
      PROVE  TypeOK'
  <2>1. Numbered(b, Len(b)) \subseteq Record /\ Len(b) \in Nat
    <3>1. Len(b) \in Nat
      BY BoundsAssumption DEF Batches
    <3> QED
      BY <3>1, NumberedRecords
  <2> QED
    BY <1>2, <2>1 DEF ApplyBatch, TypeOK, Seqs
<1>3. ASSUME NEW b \in Batches, NEW k \in 0..MaxBatch, ApplyFails(b, k)
      PROVE  TypeOK'
  <2>1. k \in Nat /\ Len(b) \in Nat
    BY BoundsAssumption DEF Batches
  <2>2. Numbered(b, k) \subseteq Record
    BY <1>3, <2>1, NumberedRecords DEF ApplyFails
  <2> QED
    BY <1>3, <2>1, <2>2 DEF ApplyFails, TypeOK, Seqs
<1>4. ASSUME NEW b \in Batches, NEW k \in 0..MaxBatch, CrashInApply(b, k)
      PROVE  TypeOK'
  <2>1. k \in Nat /\ Len(b) \in Nat
    BY BoundsAssumption DEF Batches
  <2>2. Numbered(b, k) \subseteq Record
    BY <1>4, <2>1, NumberedRecords DEF CrashInApply
  <2> QED
    BY <1>4, <2>2, HaltTypes DEF CrashInApply, TypeOK
<1>5. ASSUME NEW t \in Target, NEW by \in {"caller", "compact"}, FoldBegin(t, by)
      PROVE  TypeOK'
  <2>1. fold' \in Fold
    BY <1>5 DEF FoldBegin, Fold, TypeOK, Seqs, Segment, Pending
  <2> QED
    BY <1>5, <2>1 DEF FoldBegin, TypeOK, diskVars
<1>6. ASSUME fold.pc \in {"build", "publish", "save"}
      PROVE  /\ fold \in Fold
             /\ Built \in Segment
             /\ FoldedState \in State
  <2>1. fold \in Fold
    BY <1>6 DEF TypeOK, NoFold
  <2> QED
    BY <2>1 DEF TypeOK, Fold, Built, Segment, FoldedState, State
<1>7. CASE FoldBuild
  <2>1. fold \in Fold /\ Built \in Segment
    BY <1>6, <1>7 DEF FoldBuild
  <2>2. fold' \in Fold
    BY <1>7, <2>1 DEF FoldBuild, Fold
  <2> QED
    BY <1>7, <2>1, <2>2 DEF FoldBuild, TypeOK
<1>8. ASSUME FoldFailed
      PROVE  fold' \in Fold \cup {NoFold} /\ compaction' \in Compaction
  BY <1>8 DEF FoldFailed, TypeOK, NoCompaction, Compaction
<1>9. CASE FoldBuildFails
  <2>1. Built \in Segment
    BY <1>6, <1>9 DEF FoldBuildFails
  <2> QED
    BY <1>8, <1>9, <2>1 DEF FoldBuildFails, TypeOK
<1>10. CASE FoldPublish
  <2>1. fold \in Fold /\ Built \in Segment
    BY <1>6, <1>10 DEF FoldPublish
  <2>2. fold' \in Fold
    BY <1>10, <2>1 DEF FoldPublish, Fold
  <2> QED
    BY <1>10, <2>1, <2>2 DEF FoldPublish, TypeOK, diskVars
<1>11. CASE FoldSave
  <2>1. FoldedState \in State
    BY <1>6, <1>11 DEF FoldSave
  <2>2. compaction' \in Compaction
    BY <1>11 DEF FoldSave, TypeOK, Compaction
  <2> QED
    BY <1>11, <2>1, <2>2 DEF FoldSave, TypeOK
<1>12. CASE FoldSaveFails
  <2>1. FoldedState \in State
    BY <1>6, <1>12 DEF FoldSaveFails
  <2> QED
    BY <1>8, <1>12, <2>1 DEF FoldSaveFails, TypeOK, diskVars
<1>13. CASE CompactBegin
  BY <1>13 DEF CompactBegin, TypeOK, Compaction, diskVars
<1>14. CASE CompactPrune
  <2>1. KeepFroms \subseteq Nat
    BY DEF KeepFroms, TypeOK, Record, Seqs
  <2>2. PICK keep \in KeepFroms :
          /\ IF keep > pruned
             THEN pruned' = keep /\ log' = {r \in log : r.seq >= keep}
             ELSE UNCHANGED <<pruned, log>>
          /\ \/ sealed' = {l \in sealed : \E r \in l : r.seq >= keep}
             \/ \E l \in sealed : sealed' = {x \in sealed \ {l} : \E r \in x : r.seq >= keep}
    BY <1>14 DEF CompactPrune
  <2>3. log' \in SUBSET Record /\ pruned' \in Nat
    BY <2>1, <2>2 DEF TypeOK
  <2>4. sealed' \in SUBSET SUBSET Record
    BY <2>2 DEF TypeOK
  <2> QED
    BY <1>14, <2>3, <2>4 DEF CompactPrune, TypeOK, NoCompaction, Compaction
<1>15. CASE CompactPruneFails
  BY <1>15 DEF CompactPruneFails, TypeOK, NoCompaction, Compaction, diskVars
<1>16. CASE Crash
  BY <1>16, HaltTypes DEF Crash, TypeOK, diskVars
<1>17. CASE PowerLoss
  <2>1. log' \in SUBSET Record /\ acked' \in SUBSET Record
    BY <1>17 DEF PowerLoss, TypeOK
  <2> QED
    BY <1>17, <2>1, HaltTypes DEF PowerLoss, TypeOK
<1>18. ASSUME NEW t \in Target, SegmentRots(t)
       PROVE  TypeOK'
  <2>1. seg' \in [Target -> Segment]
    BY <1>18 DEF SegmentRots, TypeOK, Segment
  <2>2. acked' \in SUBSET Record
    BY <1>18 DEF SegmentRots, TypeOK
  <2> QED
    BY <1>18, <2>1, <2>2 DEF SegmentRots, TypeOK, memVars
<1>19. CASE StateRots
  BY <1>19 DEF StateRots, TypeOK, NoState, State, memVars
<1>20. CASE JournalDeleted
  BY <1>20 DEF JournalDeleted, TypeOK, NoState, State, memVars
<1>21. CASE UNCHANGED vars
  BY <1>21 DEF TypeOK, vars, diskVars, memVars
<1> QED
  BY <1>1, <1>2, <1>3, <1>4, <1>5, <1>7, <1>9, <1>10, <1>11, <1>12, <1>13, <1>14, <1>15,
     <1>16, <1>17, <1>18, <1>19, <1>20, <1>21
     DEF Next, Write, FoldStep, Compact, Environment

(* Every variable keeps its type in every behaviour of the engine.         *)
THEOREM TypeCorrect == Spec => []TypeOK
BY TypeInit, TypeStep, PTL DEF Spec

-----------------------------------------------------------------------------
(* OrderInv: the parts that hold under every fault.                        *)

LEMMA OpenedTypes ==
  ASSUME TypeOK, NEW t \in Target
  PROVE  /\ Opened(t) \in Segment
         /\ Opened(t).max \in Nat /\ Opened(t).inc \subseteq Record
         /\ Opened(t).max <= seg[t].max
<1>1. seg[t] \in Segment
  BY DEF TypeOK
<1>2. NoSegment \in Segment
  BY NoneTypes
<1>3. Opened(t) \in Segment
  BY <1>1, <1>2 DEF Opened
<1>4. Opened(t).max <= seg[t].max
  BY <1>1 DEF Opened, NoSegment, Segment
<1> QED
  BY <1>3, <1>4 DEF Segment

LEMMA OrderInit == Init => OrderInv
<1> SUFFICES ASSUME Init PROVE OrderInv
  OBVIOUS
<1>1. TypeOK
  BY TypeInit
<1>2. DiskInv
  BY DEF Init, DiskInv, SegmentOK, StateOK, NoSegment, NoState
<1>3. UpInv
  BY DEF Init, UpInv
<1> QED
  BY <1>1, <1>2, <1>3 DEF OrderInv

(* Steps after which no engine runs.                                       *)
LEMMA OrderHalt ==
  ASSUME OrderInv, TypeOK', Halt, UNCHANGED <<seg, disk>>
  PROVE  OrderInv'
<1>1. DiskInv'
  BY DEF OrderInv, DiskInv, SegmentOK, StateOK
<1>2. UpInv'
  BY DEF Halt, UpInv
<1> QED
  BY <1>1, <1>2 DEF OrderInv

LEMMA OrderDamage ==
  ASSUME OrderInv, TypeOK',
         \/ \E t \in Target : SegmentRots(t)
         \/ StateRots \/ JournalDeleted
  PROVE  OrderInv'
<1>1. ~up'
  BY DEF SegmentRots, StateRots, JournalDeleted, memVars
<1>2. UpInv'
  BY <1>1 DEF UpInv
<1>3. DiskInv'
  <2>1. ASSUME NEW t \in Target, SegmentRots(t)
        PROVE  DiskInv'
    <3>1. \A u \in Target : seg'[u].max = seg[u].max /\ seg'[u].inc = seg[u].inc
      BY <2>1 DEF SegmentRots, OrderInv, TypeOK, Segment
    <3>2. \A u \in Target : seg'[u].st = "none" => seg'[u] = seg[u]
      BY <2>1 DEF SegmentRots, OrderInv, TypeOK, Segment
    <3>3. disk' = disk
      BY <2>1 DEF SegmentRots
    <3> QED
      BY <3>1, <3>2, <3>3 DEF OrderInv, DiskInv, SegmentOK, StateOK
  <2>2. CASE StateRots \/ JournalDeleted
    <3>1. seg' = seg /\ disk' = NoState
      BY <2>2 DEF StateRots, JournalDeleted
    <3>2. StateOK(disk)'
      BY <3>1 DEF OrderInv, TypeOK, Segment, StateOK, NoState
    <3> QED
      BY <3>1, <3>2 DEF OrderInv, DiskInv, SegmentOK
  <2> QED
    BY <2>1, <2>2
<1> QED
  BY <1>2, <1>3 DEF OrderInv

(* The watermark of a replay is that of the segment that opens.            *)
LEMMA WatermarkIsMax ==
  ASSUME TypeOK, DiskInv, NEW t \in Target
  PROVE  Watermark(t) = Opened(t).max
<1>1. seg[t] \in Segment /\ disk.folded[t] \in Nat
  BY DEF TypeOK, State
<1>2. disk.folded[t] <= seg[t].max
  BY DEF DiskInv, StateOK
<1>3. seg[t].st = "none" => seg[t] = NoSegment
  BY DEF DiskInv, SegmentOK
<1> QED
  BY <1>1, <1>2, <1>3 DEF Watermark, Opened, NoSegment, Segment

(* What an open reads, and what it makes of that.                          *)
OpenReads(read) ==
  /\ log' \subseteq read /\ read \subseteq Logged'
  /\ ReadsAll => read = Logged'
  /\ delta' = {r \in read : r.seq > Watermark(r.tgt)}
  /\ \E m \in Floors(read) : IsMax(Floors(read), m) /\ next' = m

LEMMA OpenDoes == Open => \E read : OpenReads(read)
<1> SUFFICES ASSUME Open PROVE \E read : OpenReads(read)
  OBVIOUS
<1>1. PICK skipped \in SUBSET sealed' :
        LET read == log' \cup UNION (sealed' \ skipped)
        IN /\ skipped # {} => "sealed_skipped" \in Faults
           /\ delta' = {r \in read : r.seq > Watermark(r.tgt)}
           /\ \E m \in Floors(read) : IsMax(Floors(read), m) /\ next' = m
  BY DEF Open
<1> DEFINE read == log' \cup UNION (sealed' \ skipped)
<1>2. log' \subseteq read /\ read \subseteq Logged'
  BY <1>1 DEF Logged
<1>3. ReadsAll => read = Logged'
  BY <1>1 DEF Logged, ReadsAll
<1>4. OpenReads(read)
  BY <1>1, <1>2, <1>3 DEF OpenReads
<1> QED
  BY <1>4

(* An engine that can read every sealed journal replays them all.          *)
LEMMA OpenReadsAll ==
  ASSUME Open, ReadsAll
  PROVE  delta' = {r \in Logged' : r.seq > Watermark(r.tgt)}
BY OpenDoes DEF OpenReads

LEMMA OrderOpen ==
  ASSUME OrderInv, TypeOK', Open
  PROVE  OrderInv'
<1> USE DEF OrderInv
<1>1. DiskInv'
  BY DEF Open, DiskInv, SegmentOK, StateOK
<1>2. PICK read : OpenReads(read)
  BY OpenDoes
<1>3. \A t \in Target : Opened(t)' = Opened(t) /\ mseg'[t] = Opened(t)
  BY DEF Open, Opened
<1>4. /\ delta' = {r \in read : r.seq > Watermark(r.tgt)}
      /\ state' = [disk EXCEPT !.next = next'] /\ disk' = disk /\ seg' = seg
      /\ fold' = NoFold /\ compaction' = NoCompaction
  BY <1>2 DEF Open, OpenReads
<1>5. /\ read \subseteq Record /\ log' \subseteq read /\ read \subseteq Logged' /\ delta' \subseteq read
      /\ ReadsAll => read = Logged'
  BY <1>2, <1>4 DEF TypeOK, Logged, OpenReads
<1>6. NumbersInv'
  <2>1. PICK m \in Floors(read) : IsMax(Floors(read), m) /\ next' = m
    BY <1>2 DEF OpenReads
  <2>2. \A x \in Floors(read) : x <= next' /\ x \in Nat
    BY <1>5, <2>1, FloorsAreNat DEF IsMax
  <2>3. \A r \in read : r.seq < next'
    BY <1>5, <2>2 DEF Floors, Record, Seqs, TypeOK
  <2>4. \A t \in Target : disk.folded[t] < next'
    BY <2>2 DEF Floors, TypeOK, State, Seqs
  <2>5. \A t \in Target : Opened(t).max < next'
    <3>1. 1 <= next'
      BY <1>5, <2>2, FloorsAreNat
    <3>2. ASSUME NEW t \in Target, seg[t].st = "ok"
          PROVE  seg[t].max < next'
      BY <2>2, <3>2 DEF Floors, TypeOK, Segment, Seqs
    <3> QED
      BY <3>1, <3>2 DEF Opened, NoSegment, TypeOK, Seqs
  <2>6. \A t \in Target : state'.folded[t] = disk.folded[t]
    BY <1>4 DEF TypeOK, State
  <2> QED
    BY <1>3, <1>4, <1>5, <2>3, <2>4, <2>5, <2>6 DEF NumbersInv
<1>7. ViewInv'
  <2>1. StateOK(state)'
    <3>1. \A t \in Target : state'.folded[t] = disk.folded[t]
      BY <1>4 DEF TypeOK, State
    <3> QED
      BY <1>4, <3>1 DEF DiskInv, StateOK
  <2>2. \A t \in Target : SegmentOK(t, Opened(t))
    BY DEF DiskInv, SegmentOK, Opened, NoSegment
  <2>3. \A t \in Target : SegmentOK(t, mseg[t])'
    BY <1>3, <2>2 DEF SegmentOK
  <2>4. \A t \in Target : (mseg[t].inc \subseteq Opened(t).inc /\ mseg[t].max <= Opened(t).max)'
    BY <1>3, OpenedTypes
  <2>5. ASSUME NEW r \in delta'
        PROVE  /\ r \in Logged'
               /\ mseg'[r.tgt].max < r.seq
               /\ ~(r.seq <= Opened(r.tgt).max)
    <3>1. r \in read /\ r.seq > Watermark(r.tgt) /\ r.tgt \in Target
      BY <1>4, <1>5, <2>5 DEF Record
    <3>2. Watermark(r.tgt) = Opened(r.tgt).max
      BY <3>1, WatermarkIsMax
    <3> QED
      BY <1>3, <1>5, <3>1, <3>2, OpenedTypes DEF Record, Seqs
  <2>6. \A r \in delta' : r.tgt \in Target
    BY <1>4, <1>5 DEF Record
  <2> QED
    BY <1>3, <2>1, <2>3, <2>4, <2>5, <2>6 DEF ViewInv
<1>8. FoldInv' /\ CompactInv'
  BY <1>4 DEF FoldInv, CompactInv, NoCompaction
<1> QED
  BY <1>1, <1>6, <1>7, <1>8 DEF UpInv

(* New records are numbered above everything known.                        *)
LEMMA OrderApply ==
  ASSUME OrderInv, TypeOK', up, up',
         NEW N, N \subseteq Record, NEW k \in Nat,
         \A r \in N : next <= r.seq /\ r.seq < next + k,
         log' = log \cup N, next' = next + k,
         delta' = delta \/ delta' = delta \cup N,
         UNCHANGED <<sealed, seg, disk, mseg, state, fold, compaction>>
  PROVE  OrderInv'
<1> USE DEF OrderInv
<1>1. DiskInv'
  BY DEF DiskInv, SegmentOK, StateOK
<1>2. Logged' = Logged \cup N
  BY DEF Logged
<1>3. \A t \in Target : Opened(t)' = Opened(t)
  BY DEF Opened
<1>4. NumbersInv /\ ViewInv /\ FoldInv /\ CompactInv
  BY DEF UpInv
<1>5. next \in Nat /\ Logged \subseteq Record /\ \A r \in Record : r.seq \in Nat /\ r.tgt \in Target
  BY DEF TypeOK, Logged, Seqs, Record
<1>6. NumbersInv'
  <2>1. \A t \in Target : /\ Opened(t).max < next + k
                         /\ disk.folded[t] < next + k /\ state.folded[t] < next + k
    BY <1>4, <1>5, OpenedTypes DEF NumbersInv, TypeOK, State
  <2>2. /\ \A r \in N : r.seq < next + k
        /\ \A r \in Logged : r.seq < next => r.seq < next + k
        /\ delta \subseteq Logged /\ log \subseteq Logged
    BY <1>4, <1>5 DEF ViewInv, Logged
  <2>3. \A r \in log' \cup delta' : r.seq < next'
    BY <1>4, <2>2 DEF NumbersInv
  <2>4. ReadsAll => \A r \in Logged' : r.seq < next'
    BY <1>2, <1>4, <2>2 DEF NumbersInv
  <2> QED
    BY <1>3, <2>1, <2>3, <2>4 DEF NumbersInv
<1>7. ViewInv'
  <2>1. StateOK(state)'
    BY <1>4 DEF ViewInv, StateOK
  <2>2. \A t \in Target :
          /\ SegmentOK(t, mseg[t])'
          /\ (mseg[t].inc \subseteq Opened(t).inc)'
          /\ (mseg[t].max <= Opened(t).max)'
    BY <1>3, <1>4 DEF ViewInv, SegmentOK
  <2>3. ASSUME NEW r \in N
        PROVE  mseg[r.tgt].max < r.seq /\ ~(r.seq <= Opened(r.tgt).max)
    <3>1. r.tgt \in Target /\ r.seq \in Nat /\ next <= r.seq
      BY <1>5
    <3>2. mseg[r.tgt].max \in Nat /\ mseg[r.tgt].max <= Opened(r.tgt).max
          /\ Opened(r.tgt).max < next
      BY <1>4, <3>1 DEF ViewInv, NumbersInv, TypeOK, Segment
    <3> QED
      BY <1>5, <3>1, <3>2, OpenedTypes
  <2>4. \A r \in delta' : r \in delta \/ r \in N
    OBVIOUS
  <2>5. ASSUME NEW r \in delta'
        PROVE  /\ r \in Logged'
               /\ mseg'[r.tgt].max < r.seq
               /\ (r.seq <= Opened(r.tgt).max => r \in Opened(r.tgt).inc)'
    <3>1. r.tgt \in Target
      BY <1>5, <2>4 DEF TypeOK
    <3> QED
      BY <1>2, <1>3, <1>4, <2>3, <2>4, <3>1 DEF ViewInv
  <2> QED
    BY <2>1, <2>2, <2>5 DEF ViewInv
<1>8. FoldInv'
  <2> SUFFICES ASSUME fold # NoFold PROVE FoldInv'
    BY DEF FoldInv
  <2>1. fold \in Fold /\ fold.tgt \in Target /\ fold.upto \in Nat
    BY DEF TypeOK, Fold
  <2>2. fold.upto < next
    BY <1>4 DEF FoldInv
  <2>3. {r \in Pending(fold.tgt) : r.seq <= fold.upto}'
          = {r \in Pending(fold.tgt) : r.seq <= fold.upto}
    BY <1>5, <2>1, <2>2 DEF Pending
  <2>4. Built' = Built
    BY DEF Built
  <2>5. fold.upto < next + k
    BY <1>5, <2>1, <2>2
  <2>6. \A r \in delta' : r \in log' \/ r.seq <= fold.upto
    BY <1>4 DEF FoldInv
  <2> QED
    BY <1>3, <1>4, <2>1, <2>3, <2>4, <2>5, <2>6 DEF FoldInv
<1>9. CompactInv'
  BY <1>4 DEF CompactInv
<1> QED
  BY <1>1, <1>6, <1>7, <1>8, <1>9 DEF UpInv

-----------------------------------------------------------------------------
(* The steps of a fold.                                                    *)

LEMMA FoldTypes ==
  ASSUME TypeOK, fold.pc \in {"build", "publish", "save"}
  PROVE  /\ fold # NoFold /\ fold \in Fold
         /\ fold.tgt \in Target /\ fold.upto \in Nat
         /\ Built.st = "ok" /\ Built.max = fold.upto /\ Built.inc = fold.inc
<1>1. fold # NoFold
  BY DEF NoFold
<1>2. fold \in Fold
  BY <1>1 DEF TypeOK
<1> QED
  BY <1>1, <1>2 DEF Fold, Built

LEMMA OrderFoldBegin ==
  ASSUME OrderInv, TypeOK', NEW t \in Target, NEW by \in {"caller", "compact"},
         FoldBegin(t, by)
  PROVE  OrderInv'
<1> USE DEF OrderInv
<1>1. /\ up /\ UNCHANGED <<diskVars, up, next, mseg, delta, state, compaction>>
      /\ fold'.tgt = t /\ fold'.upto = next - 1 /\ fold'.pc = "build"
      /\ fold'.inc = mseg[t].inc \cup {r \in Pending(t) : r.seq <= next - 1}
  BY DEF FoldBegin
<1>2. NumbersInv /\ ViewInv /\ CompactInv
  BY <1>1 DEF UpInv
<1>3. Logged' = Logged /\ \A u \in Target : Opened(u)' = Opened(u)
  BY <1>1 DEF Opened, Logged, diskVars
<1>4. DiskInv'
  BY <1>1 DEF DiskInv, SegmentOK, StateOK, diskVars
<1>5. NumbersInv' /\ CompactInv'
  BY <1>1, <1>2, <1>3 DEF NumbersInv, CompactInv, diskVars
<1>6. ViewInv'
  <2>1. \A r \in delta : r.tgt \in Target
    BY DEF TypeOK, Record
  <2> QED
    BY <1>1, <1>2, <1>3, <2>1 DEF ViewInv, StateOK, SegmentOK, diskVars
<1>7. FoldInv'
  <2>1. next \in Nat /\ next - 1 < next /\ \A n \in Nat : n < next => n <= next - 1
    BY DEF TypeOK, Seqs
  <2>2. Opened(t).max <= next - 1
    BY <1>2, <2>1, OpenedTypes DEF NumbersInv
  <2>3. disk.folded[t] <= next - 1 /\ state.folded[t] <= next - 1
    BY <1>2, <2>1 DEF NumbersInv, TypeOK, State
  <2>4. \A r \in delta : r.seq <= next - 1
    BY <1>2, <2>1 DEF NumbersInv, TypeOK, Record, Seqs
  <2>5. Pending(t)' = Pending(t)
    BY <1>1 DEF Pending
  <2> QED
    BY <1>1, <1>3, <2>1, <2>2, <2>3, <2>4, <2>5 DEF FoldInv, diskVars
<1> QED
  BY <1>4, <1>5, <1>6, <1>7 DEF UpInv

(* The commit of a new segment, whether or not the fold goes on.           *)
LEMMA OrderCommit ==
  ASSUME OrderInv, TypeOK', up, up', fold.pc = "build",
         seg' = [seg EXCEPT ![fold.tgt] = Built],
         UNCHANGED <<log, sealed, disk, next, mseg, delta, state>>
  PROVE  /\ DiskInv' /\ NumbersInv' /\ ViewInv'
         /\ \A t \in Target : t = fold.tgt => seg'[t] = Built /\ Opened(t)' = Built
<1> USE DEF OrderInv
<1> PICK t \in Target : t = fold.tgt
  BY FoldTypes
<1>1. /\ fold # NoFold /\ t \in Target /\ fold.upto \in Nat
      /\ Built.st = "ok" /\ Built.max = fold.upto /\ Built.inc = fold.inc
  BY FoldTypes
<1>2. NumbersInv /\ ViewInv
  BY DEF UpInv
<1>3. /\ fold.upto < next
      /\ Opened(t).max <= fold.upto
      /\ disk.folded[t] <= fold.upto /\ state.folded[t] <= fold.upto
      /\ fold.inc = mseg[t].inc \cup {r \in Pending(t) : r.seq <= fold.upto}
  BY <1>1 DEF FoldInv, UpInv
<1>4. seg'[t] = Built /\ \A u \in Target : u # t => seg'[u] = seg[u]
  BY <1>1 DEF TypeOK
<1>5. Opened(t)' = Built /\ \A u \in Target : u # t => Opened(u)' = Opened(u)
  BY <1>1, <1>4 DEF Opened
<1>6. \A r \in fold.inc : r.tgt = t /\ r.seq <= fold.upto
  <2>1. \A r \in mseg[t].inc : r.tgt = t /\ r.seq <= mseg[t].max /\ r.seq \in Nat
    BY <1>1, <1>2 DEF ViewInv, SegmentOK, TypeOK, Segment, Record, Seqs
  <2>2. mseg[t].max <= fold.upto /\ mseg[t].max \in Nat
    BY <1>1, <1>2, <1>3, OpenedTypes DEF ViewInv, TypeOK, Segment
  <2> QED
    BY <1>1, <1>3, <2>1, <2>2 DEF Pending
<1>7. DiskInv'
  <2>1. \A u \in Target : SegmentOK(u, seg[u])'
    BY <1>1, <1>4, <1>6 DEF DiskInv, SegmentOK, NoSegment
  <2>2. StateOK(disk)'
    BY <1>1, <1>3, <1>4 DEF DiskInv, StateOK
  <2> QED
    BY <2>1, <2>2 DEF DiskInv
<1>8. Logged' = Logged
  BY DEF Logged
<1>9. NumbersInv'
  BY <1>1, <1>2, <1>3, <1>5, <1>8 DEF NumbersInv
<1>10. ViewInv'
  <2>1. StateOK(state)'
    BY <1>1, <1>2, <1>3, <1>4 DEF ViewInv, StateOK
  <2>2. ASSUME NEW u \in Target
        PROVE  /\ SegmentOK(u, mseg[u])'
               /\ (mseg[u].inc \subseteq Opened(u).inc)'
               /\ (mseg[u].max <= Opened(u).max)'
    <3>1. mseg[t].max <= fold.upto
      BY <1>1, <1>2, <1>3, OpenedTypes DEF ViewInv, TypeOK, Segment
    <3> QED
      BY <1>1, <1>2, <1>3, <1>5, <3>1 DEF ViewInv, SegmentOK
  <2>3. ASSUME NEW r \in delta
        PROVE  /\ r \in Logged'
               /\ mseg'[r.tgt].max < r.seq
               /\ (r.seq <= Opened(r.tgt).max => r \in Opened(r.tgt).inc)'
    <3>1. r.tgt \in Target
      BY DEF TypeOK, Record
    <3>2. r.tgt = t /\ r.seq <= fold.upto => r \in fold.inc
      BY <1>3 DEF Pending
    <3> QED
      BY <1>1, <1>2, <1>5, <1>8, <3>1, <3>2 DEF ViewInv
  <2> QED
    BY <2>1, <2>2, <2>3 DEF ViewInv
<1> QED
  BY <1>1, <1>4, <1>5, <1>7, <1>9, <1>10

LEMMA OrderFoldBuild ==
  ASSUME OrderInv, TypeOK', FoldBuild
  PROVE  OrderInv'
<1> USE DEF OrderInv
<1>1. /\ up /\ up' /\ fold.pc = "build"
      /\ seg' = [seg EXCEPT ![fold.tgt] = Built]
      /\ UNCHANGED <<log, sealed, disk, next, mseg, delta, state, compaction>>
  BY DEF FoldBuild
<1>2. /\ DiskInv' /\ NumbersInv' /\ ViewInv'
      /\ \A t \in Target : t = fold.tgt => seg'[t] = Built /\ Opened(t)' = Built
  BY <1>1, OrderCommit
<1>3. /\ fold \in Fold /\ fold # NoFold /\ fold.tgt \in Target /\ fold.upto \in Nat
      /\ Built.max = fold.upto
  BY <1>1, FoldTypes
<1>4. /\ fold'.tgt = fold.tgt /\ fold'.upto = fold.upto /\ fold'.inc = fold.inc
      /\ fold'.pc = "publish"
  BY <1>3 DEF FoldBuild, Fold
<1>5. Built' = Built
  BY <1>4 DEF Built
<1>6. Pending(fold.tgt)' = Pending(fold.tgt)
  BY <1>1, <1>4 DEF Pending
<1>7. FoldInv'
  BY <1>1, <1>2, <1>3, <1>4, <1>5, <1>6 DEF UpInv, FoldInv
<1>8. CompactInv'
  BY <1>1 DEF UpInv, CompactInv
<1> QED
  BY <1>2, <1>7, <1>8 DEF UpInv

LEMMA FailedCompaction ==
  ASSUME CompactInv, FoldFailed, UNCHANGED <<sealed, log>>, delta' \subseteq delta
  PROVE  CompactInv' /\ FoldInv'
<1>1. fold' = NoFold /\ (compaction' = compaction \/ compaction' = NoCompaction)
  BY DEF FoldFailed
<1>2. CompactInv'
  BY <1>1 DEF CompactInv, NoCompaction
<1> QED
  BY <1>1, <1>2 DEF FoldInv

LEMMA OrderFoldBuildFails ==
  ASSUME OrderInv, TypeOK', FoldBuildFails
  PROVE  OrderInv'
<1> USE DEF OrderInv
<1>1. /\ up /\ up' /\ fold.pc = "build" /\ FoldFailed
      /\ UNCHANGED <<log, sealed, disk, next, mseg, delta, state>>
  BY DEF FoldBuildFails
<1>2. DiskInv' /\ NumbersInv' /\ ViewInv'
  <2>1. CASE UNCHANGED seg
    <3>1. Logged' = Logged /\ \A u \in Target : Opened(u)' = Opened(u)
      BY <1>1, <2>1 DEF Opened, Logged
    <3>2. \A r \in delta : r.tgt \in Target
      BY DEF TypeOK, Record
    <3> QED
      BY <1>1, <2>1, <3>1, <3>2
         DEF UpInv, DiskInv, NumbersInv, ViewInv, StateOK, SegmentOK
  <2>2. CASE seg' = [seg EXCEPT ![fold.tgt] = Built]
    BY <1>1, <2>2, OrderCommit
  <2> QED
    BY <2>1, <2>2 DEF FoldBuildFails
<1>3. CompactInv' /\ FoldInv'
  BY <1>1, FailedCompaction DEF UpInv
<1> QED
  BY <1>2, <1>3 DEF UpInv

LEMMA OrderFoldPublish ==
  ASSUME OrderInv, TypeOK', FoldPublish
  PROVE  OrderInv'
<1> USE DEF OrderInv
<1> PICK t \in Target : t = fold.tgt
  BY FoldTypes DEF FoldPublish
<1>1. /\ up /\ up' /\ fold.pc = "publish"
      /\ mseg' = [mseg EXCEPT ![t] = Built]
      /\ delta' = {r \in delta : ~(r.tgt = t /\ r.seq <= fold.upto)}
      /\ UNCHANGED <<log, sealed, seg, disk, next, state, compaction>>
  BY DEF FoldPublish, diskVars
<1>2. /\ fold \in Fold /\ fold # NoFold /\ fold.upto \in Nat
      /\ Built.st = "ok" /\ Built.max = fold.upto /\ Built.inc = fold.inc
  BY <1>1, FoldTypes
<1>3. /\ fold'.tgt = t /\ fold'.upto = fold.upto /\ fold'.inc = fold.inc
      /\ fold'.pc = "save"
  BY <1>2 DEF FoldPublish, Fold
<1>4. Built' = Built
  BY <1>3 DEF Built
<1>5. Logged' = Logged /\ \A u \in Target : Opened(u)' = Opened(u)
  BY <1>1 DEF Opened, Logged
<1>6. DiskInv /\ NumbersInv /\ ViewInv /\ CompactInv /\ FoldInv
  BY <1>1 DEF UpInv
<1>7. DiskInv' /\ NumbersInv' /\ CompactInv'
  BY <1>1, <1>5, <1>6 DEF DiskInv, SegmentOK, StateOK, NumbersInv, CompactInv
<1>8. seg[t] = Built /\ Opened(t) = Built
  BY <1>1, <1>2, <1>6 DEF FoldInv, Opened
<1>9. mseg'[t] = Built /\ \A u \in Target : u # t => mseg'[u] = mseg[u]
  BY <1>1 DEF TypeOK
<1>10. ViewInv'
  <2>1. StateOK(state)'
    BY <1>1, <1>6 DEF ViewInv, StateOK
  <2>2. \A u \in Target :
          /\ SegmentOK(u, mseg[u])'
          /\ (mseg[u].inc \subseteq Opened(u).inc)'
          /\ (mseg[u].max <= Opened(u).max)'
    BY <1>2, <1>5, <1>6, <1>8, <1>9 DEF ViewInv, DiskInv, SegmentOK
  <2>3. ASSUME NEW r \in delta'
        PROVE  /\ r \in Logged'
               /\ mseg'[r.tgt].max < r.seq
               /\ (r.seq <= Opened(r.tgt).max => r \in Opened(r.tgt).inc)'
    <3>1. r \in delta /\ r.tgt \in Target /\ r.seq \in Nat
      BY <1>1 DEF TypeOK, Record, Seqs
    <3>2. r.tgt = t => fold.upto < r.seq
      BY <1>1, <1>2, <3>1
    <3> QED
      BY <1>2, <1>5, <1>6, <1>9, <3>1, <3>2 DEF ViewInv
  <2> QED
    BY <2>1, <2>2, <2>3 DEF ViewInv
<1>11. FoldInv'
  BY <1>1, <1>2, <1>3, <1>4, <1>5, <1>6, <1>8, <1>9 DEF FoldInv
<1> QED
  BY <1>7, <1>10, <1>11 DEF UpInv

(* The state that goes to memory and disk after a fold.                    *)
LEMMA FoldedStateOK ==
  ASSUME OrderInv, up, fold.pc = "save"
  PROVE  /\ StateOK(FoldedState)
         /\ \A u \in Target : FoldedState.folded[u] < next
<1> PICK t \in Target : t = fold.tgt
  BY FoldTypes DEF OrderInv
<1>1. fold # NoFold /\ Built.max = fold.upto
  BY FoldTypes DEF OrderInv
<1>2. /\ fold.upto < next /\ seg[t] = Built
      /\ StateOK(state) /\ \A u \in Target : state.folded[u] < next
  BY <1>1 DEF OrderInv, UpInv, FoldInv, NumbersInv, ViewInv
<1>3. /\ FoldedState.folded[t] = fold.upto
      /\ \A u \in Target : u # t => FoldedState.folded[u] = state.folded[u]
  BY DEF FoldedState, OrderInv, TypeOK, State
<1>4. fold.upto \in Nat /\ fold.upto <= seg[t].max
  BY <1>1, <1>2, FoldTypes DEF OrderInv
<1> QED
  BY <1>1, <1>2, <1>3, <1>4 DEF StateOK

LEMMA OrderFoldSave ==
  ASSUME OrderInv, TypeOK', FoldSave \/ FoldSaveFails
  PROVE  OrderInv'
<1> USE DEF OrderInv
<1> PICK t \in Target : t = fold.tgt
  BY FoldTypes DEF FoldSave, FoldSaveFails
<1>1. /\ up /\ up' /\ fold.pc = "save" /\ fold' = NoFold
      /\ state' = FoldedState /\ (disk' = FoldedState \/ disk' = disk)
      /\ UNCHANGED <<log, sealed, seg, next, mseg, delta>>
  BY DEF FoldSave, FoldSaveFails, FoldFailed, diskVars
<1>2. Logged' = Logged /\ \A u \in Target : Opened(u)' = Opened(u)
  BY <1>1 DEF Opened, Logged
<1>3. DiskInv /\ NumbersInv /\ ViewInv /\ CompactInv /\ FoldInv
  BY <1>1 DEF UpInv
<1>4. /\ StateOK(FoldedState)
      /\ \A u \in Target : FoldedState.folded[u] < next
  BY <1>1, FoldedStateOK
<1>5. DiskInv' /\ NumbersInv'
  BY <1>1, <1>2, <1>3, <1>4 DEF DiskInv, SegmentOK, StateOK, NumbersInv
<1>6. ViewInv'
  <2>1. StateOK(state)'
    BY <1>1, <1>4 DEF StateOK
  <2>2. \A r \in delta : r.tgt \in Target
    BY DEF TypeOK, Record
  <2> QED
    BY <1>1, <1>2, <1>3, <2>1, <2>2 DEF ViewInv, SegmentOK
<1>7. CompactInv'
  <2>1. CASE FoldSaveFails
    <3>1. FoldFailed
      BY <2>1 DEF FoldSaveFails
    <3> QED
      BY <1>1, <1>3, <3>1, FailedCompaction
  <2>2. CASE FoldSave
    <3>1. \/ compaction' = compaction
          \/ compaction'.on = compaction.on /\ compaction'.todo = compaction.todo \ {t}
      BY <2>2 DEF FoldSave, TypeOK, Compaction
    <3>2. fold # NoFold /\ Built.max = fold.upto /\ fold.upto \in Nat
      BY <1>1, FoldTypes
    <3>3. \A r \in delta : r \in log \/ r.seq <= fold.upto
      BY <1>3, <3>2 DEF FoldInv
    <3>4. mseg[t] = Built
      BY <1>1, <1>3, <3>2 DEF FoldInv
    <3>5. \A r \in delta : r.tgt = t => r \in log
      BY <1>3, <3>2, <3>3, <3>4 DEF ViewInv, TypeOK, Record, Seqs
    <3> QED
      BY <1>1, <1>3, <3>1, <3>5 DEF CompactInv
  <2> QED
    BY <2>1, <2>2
<1>8. FoldInv'
  BY <1>1 DEF FoldInv
<1> QED
  BY <1>5, <1>6, <1>7, <1>8 DEF UpInv

-----------------------------------------------------------------------------
(* The steps of a compaction.                                              *)

LEMMA OrderCompactBegin ==
  ASSUME OrderInv, TypeOK', CompactBegin \/ CompactPruneFails
  PROVE  OrderInv'
<1> USE DEF OrderInv
<1>1. up /\ UNCHANGED <<diskVars, up, next, mseg, delta, state, fold>>
  BY DEF CompactBegin, CompactPruneFails
<1>2. Logged' = Logged /\ \A u \in Target : Opened(u)' = Opened(u)
  BY <1>1 DEF Opened, Logged, diskVars
<1>3. NumbersInv /\ ViewInv /\ FoldInv
  BY <1>1 DEF UpInv
<1>4. DiskInv' /\ NumbersInv'
  BY <1>1, <1>2, <1>3 DEF DiskInv, SegmentOK, StateOK, NumbersInv, diskVars
<1>5. ViewInv'
  <2>1. \A r \in delta : r.tgt \in Target
    BY DEF TypeOK, Record
  <2> QED
    BY <1>1, <1>2, <1>3, <2>1 DEF ViewInv, SegmentOK, StateOK, diskVars
<1>6. FoldInv'
  <2> SUFFICES ASSUME fold # NoFold PROVE FoldInv'
    BY <1>1 DEF FoldInv
  <2>1. fold.tgt \in Target
    BY DEF TypeOK, Fold
  <2>2. Built' = Built /\ Pending(fold.tgt)' = Pending(fold.tgt)
    BY <1>1 DEF Built, Pending
  <2> QED
    BY <1>1, <1>2, <1>3, <2>1, <2>2 DEF FoldInv, diskVars
<1>7. CompactInv'
  BY <1>1 DEF CompactInv, CompactBegin, CompactPruneFails, NoCompaction, Pending, TypeOK, Record
<1> QED
  BY <1>4, <1>5, <1>6, <1>7 DEF UpInv

(* What a prune keeps of the journal: everything still in the delta.       *)
LEMMA PruneKeepsDelta ==
  ASSUME OrderInv, CompactPrune
  PROVE  /\ log' \subseteq log /\ UNION sealed' \subseteq UNION sealed
         /\ delta \subseteq log'
<1> USE DEF OrderInv
<1>1. PICK keep \in KeepFroms :
        /\ IsMin(KeepFroms, keep)
        /\ log' = {r \in log : r.seq >= keep} \/ log' = log
        /\ \/ sealed' = {l \in sealed : \E r \in l : r.seq >= keep}
           \/ \E l \in sealed : sealed' = {x \in sealed \ {l} : \E r \in x : r.seq >= keep}
  BY DEF CompactPrune
<1>2. \A r \in delta : keep <= r.seq /\ r \in log
  <2>1. \A r \in delta : r \in log
    BY DEF UpInv, CompactInv, CompactPrune
  <2> QED
    BY <1>1, <2>1 DEF KeepFroms, IsMin
<1>3. keep \in Nat
  BY <1>1 DEF KeepFroms, TypeOK, Record, Seqs
<1>4. \A r \in delta : r \in log' /\ r \in log
  BY <1>1, <1>2, <1>3 DEF Logged, TypeOK, Record, Seqs
<1>5. UNION sealed' \subseteq UNION sealed
  BY <1>1
<1> QED
  BY <1>1, <1>4, <1>5 DEF Logged

LEMMA OrderCompactPrune ==
  ASSUME OrderInv, TypeOK', CompactPrune
  PROVE  OrderInv'
<1> USE DEF OrderInv
<1>1. /\ up /\ UNCHANGED <<seg, disk, up, next, mseg, delta, state, fold>>
      /\ compaction' = NoCompaction
  BY DEF CompactPrune
<1>2. \A u \in Target : Opened(u)' = Opened(u)
  BY <1>1 DEF Opened
<1>3. /\ Logged' \subseteq Logged /\ UNION sealed' \subseteq UNION sealed
      /\ log' \subseteq log /\ delta \subseteq log' /\ delta \subseteq Logged'
  BY PruneKeepsDelta DEF Logged
<1>4. NumbersInv /\ ViewInv /\ FoldInv
  BY <1>1 DEF UpInv
<1>5. DiskInv' /\ NumbersInv'
  BY <1>1, <1>2, <1>3, <1>4 DEF DiskInv, SegmentOK, StateOK, NumbersInv
<1>6. ViewInv'
  <2>1. \A r \in delta : r.tgt \in Target
    BY DEF TypeOK, Record
  <2> QED
    BY <1>1, <1>2, <1>3, <1>4, <2>1 DEF ViewInv, SegmentOK, StateOK
<1>7. FoldInv'
  <2> SUFFICES ASSUME fold # NoFold PROVE FoldInv'
    BY <1>1 DEF FoldInv
  <2>1. fold.tgt \in Target
    BY DEF TypeOK, Fold
  <2>2. Built' = Built /\ Pending(fold.tgt)' = Pending(fold.tgt)
    BY <1>1 DEF Built, Pending
  <2>3. \A r \in delta' : r \in log'
    BY <1>1, <1>3
  <2> QED
    BY <1>1, <1>2, <1>4, <2>1, <2>2, <2>3 DEF FoldInv
<1>8. CompactInv'
  BY <1>1 DEF CompactInv, NoCompaction
<1> QED
  BY <1>5, <1>6, <1>7, <1>8 DEF UpInv

-----------------------------------------------------------------------------
LEMMA BatchRecords ==
  ASSUME OrderInv, NEW b \in Batches
  PROVE  /\ Len(b) \in Nat
         /\ \A k \in Nat : k <= Len(b) =>
              /\ Numbered(b, k) \subseteq Record
              /\ \A r \in Numbered(b, k) : next <= r.seq /\ r.seq < next + k
<1>1. Len(b) \in Nat
  BY BoundsAssumption DEF Batches
<1> QED
  BY <1>1, NumberedRecords DEF OrderInv

LEMMA OrderStep == OrderInv /\ [Next]_vars => OrderInv'
<1> SUFFICES ASSUME OrderInv, [Next]_vars PROVE OrderInv'
  OBVIOUS
<1>1. TypeOK'
  BY TypeStep DEF OrderInv
<1>2. CASE Open
  BY <1>1, <1>2, OrderOpen
<1>3. ASSUME NEW b \in Batches, ApplyBatch(b)
      PROVE  OrderInv'
  <2>1. Len(b) \in Nat /\ Len(b) <= Len(b)
    BY BatchRecords
  <2> DEFINE N == Numbered(b, Len(b))
  <2>2. N \subseteq Record /\ \A r \in N : next <= r.seq /\ r.seq < next + Len(b)
    BY <2>1, BatchRecords
  <2>3. /\ up /\ up' /\ log' = log \cup N /\ next' = next + Len(b)
        /\ delta' = delta \cup N
        /\ UNCHANGED <<sealed, seg, disk, mseg, state, fold, compaction>>
    BY <1>3 DEF ApplyBatch, CanWrite
  <2> HIDE DEF N
  <2> QED
    BY <1>1, <2>1, <2>2, <2>3, OrderApply
<1>4. ASSUME NEW b \in Batches, NEW k \in 0..MaxBatch, ApplyFails(b, k)
      PROVE  OrderInv'
  <2>1. k \in Nat /\ k <= Len(b)
    BY <1>4, BatchRecords, BoundsAssumption DEF ApplyFails
  <2> DEFINE N == Numbered(b, k)
  <2>2. N \subseteq Record /\ \A r \in N : next <= r.seq /\ r.seq < next + k
    BY <2>1, BatchRecords
  <2>3. /\ up /\ up' /\ log' = log \cup N /\ next' = next + k /\ delta' = delta
        /\ UNCHANGED <<sealed, seg, disk, mseg, state, fold, compaction>>
    BY <1>4 DEF ApplyFails, CanWrite
  <2> HIDE DEF N
  <2> QED
    BY <1>1, <2>1, <2>2, <2>3, OrderApply
<1>5. ASSUME NEW b \in Batches, NEW k \in 0..MaxBatch, CrashInApply(b, k)
      PROVE  OrderInv'
  BY <1>1, <1>5, OrderHalt DEF CrashInApply
<1>6. ASSUME NEW t \in Target, NEW by \in {"caller", "compact"}, FoldBegin(t, by)
      PROVE  OrderInv'
  BY <1>1, <1>6, OrderFoldBegin
<1>7. CASE FoldBuild
  BY <1>1, <1>7, OrderFoldBuild
<1>8. CASE FoldBuildFails
  BY <1>1, <1>8, OrderFoldBuildFails
<1>9. CASE FoldPublish
  BY <1>1, <1>9, OrderFoldPublish
<1>10. CASE FoldSave \/ FoldSaveFails
  BY <1>1, <1>10, OrderFoldSave
<1>11. CASE CompactBegin \/ CompactPruneFails
  BY <1>1, <1>11, OrderCompactBegin
<1>12. CASE CompactPrune
  BY <1>1, <1>12, OrderCompactPrune
<1>13. CASE Crash
  BY <1>1, <1>13, OrderHalt DEF Crash, diskVars
<1>14. CASE PowerLoss
  BY <1>1, <1>14, OrderHalt DEF PowerLoss
<1>15. ASSUME NEW t \in Target, SegmentRots(t)
       PROVE  OrderInv'
  BY <1>1, <1>15, OrderDamage
<1>16. CASE StateRots \/ JournalDeleted
  BY <1>1, <1>16, OrderDamage
<1>17. CASE UNCHANGED vars
  <2>1. /\ UNCHANGED <<log, sealed, seg, disk, up, next, mseg, delta, state, fold,
                       compaction>>
    BY <1>17 DEF vars, diskVars, memVars
  <2>2. Logged' = Logged /\ Built' = Built
        /\ \A u \in Target : Opened(u)' = Opened(u) /\ Pending(u)' = Pending(u)
    BY <2>1 DEF Opened, Logged, Built, Pending
  <2>3. DiskInv'
    BY <2>1 DEF OrderInv, DiskInv, SegmentOK, StateOK
  <2> SUFFICES ASSUME up PROVE (NumbersInv /\ ViewInv /\ FoldInv /\ CompactInv)'
    BY <1>1, <2>1, <2>3 DEF OrderInv, UpInv
  <2>4. NumbersInv' /\ CompactInv'
    BY <2>1, <2>2 DEF OrderInv, UpInv, NumbersInv, CompactInv
  <2>5. ViewInv'
    <3>1. \A r \in delta : r.tgt \in Target
      BY DEF OrderInv, TypeOK, Record
    <3> QED
      BY <2>1, <2>2, <3>1 DEF OrderInv, UpInv, ViewInv, StateOK, SegmentOK
  <2>6. FoldInv'
    <3>1. fold # NoFold => fold.tgt \in Target
      BY DEF OrderInv, TypeOK, Fold
    <3> QED
      BY <2>1, <2>2, <3>1 DEF OrderInv, UpInv, FoldInv
  <2> QED
    BY <2>4, <2>5, <2>6
<1> QED
  BY <1>2, <1>3, <1>4, <1>5, <1>6, <1>7, <1>8, <1>9, <1>10, <1>11, <1>12, <1>13, <1>14,
     <1>15, <1>16, <1>17
     DEF Next, Write, FoldStep, Compact, Environment

LEMMA OrderAlways == Spec => []OrderInv
BY OrderInit, OrderStep, PTL DEF Spec

(* As long as open can read the sealed journals, and under every other     *)
(* fault, a new record is numbered above every watermark and every record  *)
(* in the journal, so that no replay skips it (journal.rs, bump_next_seq;  *)
(* engine.rs, the floor of open).                                          *)
THEOREM NumbersStayFresh ==
  ASSUME "sealed_skipped" \notin Faults
  PROVE  Spec => []FreshNumbers
<1>1. OrderInv => FreshNumbers
  <2> SUFFICES ASSUME OrderInv, up PROVE FreshNumbers
    BY DEF FreshNumbers
  <2>1. \A t \in Target : Watermark(t) = Opened(t).max
    BY WatermarkIsMax DEF OrderInv
  <2> QED
    BY <2>1 DEF OrderInv, UpInv, NumbersInv, FreshNumbers, ReadsAll
<1> QED
  BY <1>1, OrderAlways, PTL

(* Under every fault no record is both in a segment and in the delta       *)
(* on top of it (fold_with publishes both under one write lock).           *)
THEOREM NothingAppliedTwice == Spec => []NoDoubleApply
<1>1. OrderInv => NoDoubleApply
  <2> SUFFICES ASSUME OrderInv, up, NEW t \in Target, NEW r \in mseg[t].inc, r \in delta
               PROVE  FALSE
    BY DEF NoDoubleApply
  <2>1. r.tgt = t /\ r.seq <= mseg[t].max
    BY DEF OrderInv, UpInv, ViewInv, SegmentOK
  <2>2. mseg[r.tgt].max < r.seq
    BY DEF OrderInv, UpInv, ViewInv
  <2>3. r.seq \in Nat /\ mseg[t].max \in Nat
    BY DEF OrderInv, TypeOK, Record, Seqs, Segment
  <2> QED
    BY <2>1, <2>2, <2>3
<1> QED
  BY <1>1, OrderAlways, PTL

-----------------------------------------------------------------------------
(* Nothing acknowledged is lost.                                           *)

LEMMA ShownSurvives ==
  ASSUME OrderInv, up
  PROVE  Shown \subseteq Replayed \cup InSegments
<1>1. ViewInv
  BY DEF OrderInv, UpInv
<1>2. ASSUME NEW r \in delta
      PROVE  r \in Replayed \cup InSegments
  <2>1. r.tgt \in Target /\ r.seq \in Nat /\ Opened(r.tgt).max \in Nat
    BY OpenedTypes DEF OrderInv, TypeOK, Record, Seqs
  <2>2. Watermark(r.tgt) = Opened(r.tgt).max
    BY <2>1, WatermarkIsMax DEF OrderInv
  <2>3. r \in Logged /\ (r.seq <= Opened(r.tgt).max => r \in Opened(r.tgt).inc)
    BY <1>1 DEF ViewInv
  <2> QED
    BY <2>1, <2>2, <2>3 DEF Replayed, InSegments
<1>3. \A t \in Target : mseg[t].inc \subseteq InSegments
  BY <1>1 DEF ViewInv, InSegments
<1> QED
  BY <1>2, <1>3 DEF Shown

LEMMA ShownSurvivesImp == OrderInv /\ up => Shown \subseteq Replayed \cup InSegments
BY ShownSurvives

LEMMA ShownSurvivesNext == (OrderInv /\ up => Shown \subseteq Replayed \cup InSegments)'
BY ShownSurvivesImp, PTL

LEMMA WatermarksAreMax == OrderInv => \A t \in Target : Watermark(t) = Opened(t).max
BY WatermarkIsMax DEF OrderInv

LEMMA WatermarksAreMaxNext == (OrderInv => \A t \in Target : Watermark(t) = Opened(t).max)'
BY WatermarksAreMax, PTL

LEMMA SameWatermarks ==
  ASSUME OrderInv, OrderInv', UNCHANGED seg
  PROVE  /\ \A t \in Target : Watermark(t)' = Watermark(t)
         /\ InSegments' = InSegments
<1>1. \A t \in Target : Opened(t)' = Opened(t)
  BY DEF Opened
<1>2. \A t \in Target : Watermark(t) = Opened(t).max
  BY WatermarksAreMax
<1>3. (\A t \in Target : Watermark(t) = Opened(t).max)'
  BY WatermarksAreMaxNext
<1> QED
  BY <1>1, <1>2, <1>3 DEF InSegments

LEMMA KeptInit == Init => KeptInv
BY DEF Init, KeptInv, NoLoss

(* Steps of a running engine: whatever is acknowledged shows.              *)
LEMMA KeptRunning ==
  ASSUME KeptInv, OrderInv, OrderInv', up, up',
         acked' \ acked \subseteq Shown', Shown \subseteq Shown'
  PROVE  KeptInv'
<1>1. NoLoss'
  BY DEF KeptInv, NoLoss
<1>2. Shown' \subseteq Replayed' \cup InSegments'
  BY ShownSurvivesNext
<1> QED
  BY <1>1, <1>2 DEF KeptInv, NoLoss

(* Steps that leave the segments alone and take no record of the journal   *)
(* away that is still acknowledged and in no segment.                      *)
LEMMA KeptDown ==
  ASSUME KeptInv, OrderInv, OrderInv', ~up', UNCHANGED seg,
         acked' \subseteq acked,
         \A r \in acked' : r \in Logged => r \in Logged' \/ r \in InSegments
  PROVE  KeptInv'
<1>1. NoLoss'
  BY DEF NoLoss
<1>2. \A t \in Target : Watermark(t)' = Watermark(t)
  BY SameWatermarks
<1>3. InSegments' = InSegments
  BY SameWatermarks
<1>4. \A r \in Logged : r.tgt \in Target
  BY DEF OrderInv, TypeOK, Logged, Record
<1>5. \A r \in Logged' : r \in Replayed' <=> r.seq > Watermark(r.tgt)'
  BY DEF Replayed
<1>6. ASSUME NEW r \in acked', r \in Replayed, r \notin InSegments
      PROVE  r \in Replayed'
  <2>1. r \in Logged /\ r \in Logged' /\ r.tgt \in Target /\ r.seq > Watermark(r.tgt)
    BY <1>4, <1>6 DEF Replayed
  <2> QED
    BY <1>2, <1>5, <2>1
<1> QED
  BY <1>1, <1>3, <1>6 DEF KeptInv

LEMMA KeptOpen ==
  ASSUME KeptInv, OrderInv, OrderInv', Open, "seal_fails" \notin Faults, "sealed_skipped" \notin Faults
  PROVE  KeptInv'
<1>1. Logged' = Logged
  BY DEF Open, Renew, Logged
<1>2. /\ acked' = acked /\ up' /\ seg' = seg
      /\ delta' = {r \in Logged' : r.seq > Watermark(r.tgt)}
      /\ mseg' = [t \in Target |-> Opened(t)]
  BY OpenReadsAll DEF Open, ReadsAll
<1>3. delta' = Replayed
  BY <1>1, <1>2 DEF Replayed
<1>4. Replayed \cup InSegments \subseteq Shown'
  BY <1>2, <1>3 DEF Shown, InSegments
<1>5. NoLoss'
  BY <1>2, <1>4 DEF NoLoss, KeptInv
<1>6. Shown' \subseteq Replayed' \cup InSegments'
  BY <1>2, ShownSurvivesNext
<1> QED
  BY <1>2, <1>5, <1>6 DEF KeptInv, NoLoss

LEMMA KeptSegmentRots ==
  ASSUME KeptInv, OrderInv, OrderInv', NEW t \in Target, SegmentRots(t)
  PROVE  KeptInv'
<1>1. /\ ~up' /\ Logged' = Logged
      /\ acked' = acked \ (seg[t].inc \ Logged)
      /\ Opened(t)' = NoSegment
      /\ \A u \in Target : u # t => Opened(u)' = Opened(u)
  BY DEF SegmentRots, memVars, Logged, OrderInv, TypeOK, Opened, Segment
<1>2. /\ \A u \in Target : Watermark(u) = Opened(u).max
      /\ (\A u \in Target : Watermark(u) = Opened(u).max)'
  BY WatermarksAreMax, WatermarksAreMaxNext
<1>3. \A u \in Target : u # t => Watermark(u)' = Watermark(u)
  BY <1>1, <1>2
<1>4. Watermark(t)' = 0
  BY <1>1, <1>2 DEF NoSegment
<1>5. \A r \in Logged : r.tgt \in Target /\ r.seq > 0
  BY DEF OrderInv, TypeOK, Logged, Record, Seqs
<1>6. \A r \in Logged' : r \in Replayed' <=> r.seq > Watermark(r.tgt)'
  BY DEF Replayed
<1>7. ASSUME NEW r \in acked'
      PROVE  r \in Replayed' \cup InSegments'
  <2>1. CASE r \in Replayed
    BY <1>1, <1>3, <1>4, <1>5, <1>6, <2>1 DEF Replayed
  <2>2. ASSUME NEW u \in Target, u # t, r \in Opened(u).inc
        PROVE  r \in InSegments'
    BY <1>1, <2>2 DEF InSegments
  <2>3. CASE r \in Opened(t).inc
    <3>1. r \in seg[t].inc /\ r.tgt = t
      BY <2>3 DEF Opened, NoSegment, OrderInv, DiskInv, SegmentOK
    <3>2. r \in Logged
      BY <1>1, <1>7, <3>1
    <3> QED
      BY <1>1, <1>4, <1>5, <1>6, <3>1, <3>2
  <2>4. r \in Replayed \cup InSegments
    BY <1>1, <1>7 DEF KeptInv
  <2> QED
    BY <2>1, <2>2, <2>3, <2>4 DEF InSegments
<1> QED
  BY <1>1, <1>7 DEF KeptInv, NoLoss

LEMMA KeptStep ==
  ASSUME "seal_fails" \notin Faults, "sealed_skipped" \notin Faults
  PROVE  KeptInv /\ OrderInv /\ OrderInv' /\ [Next]_vars => KeptInv'
<1> SUFFICES ASSUME KeptInv, OrderInv, OrderInv', [Next]_vars PROVE KeptInv'
  OBVIOUS
<1>1. CASE Open
  BY <1>1, KeptOpen
<1>2. ASSUME NEW b \in Batches, ApplyBatch(b)
      PROVE  KeptInv'
  <2>1. /\ up /\ up' /\ acked' \ acked \subseteq delta' /\ delta \subseteq delta' /\ mseg' = mseg
    BY <1>2 DEF ApplyBatch, CanWrite
  <2>2. acked' \ acked \subseteq Shown' /\ Shown \subseteq Shown'
    BY <2>1 DEF Shown
  <2> QED
    BY <2>1, <2>2, KeptRunning
<1>3. ASSUME NEW b \in Batches, NEW k \in 0..MaxBatch, ApplyFails(b, k)
      PROVE  KeptInv'
  BY <1>3, KeptRunning DEF ApplyFails, CanWrite, Shown
<1>4. ASSUME NEW b \in Batches, NEW k \in 0..MaxBatch, CrashInApply(b, k)
      PROVE  KeptInv'
  <2>1. ~up' /\ UNCHANGED <<seg, acked>> /\ Logged \subseteq Logged'
    BY <1>4 DEF CrashInApply, Halt, Logged
  <2> QED
    BY <2>1, KeptDown
<1>5. ASSUME NEW t \in Target, NEW by \in {"caller", "compact"}, FoldBegin(t, by)
      PROVE  KeptInv'
  BY <1>5, KeptRunning DEF FoldBegin, Shown
<1>6. CASE FoldBuild \/ FoldBuildFails
  BY <1>6, KeptRunning DEF FoldBuild, FoldBuildFails, Shown
<1>7. CASE FoldPublish
  <2> PICK t \in Target : t = fold.tgt
    BY <1>7, FoldTypes DEF FoldPublish, OrderInv
  <2>1. /\ up /\ up' /\ acked' = acked
        /\ mseg' = [mseg EXCEPT ![t] = Built]
        /\ delta' = {r \in delta : ~(r.tgt = t /\ r.seq <= fold.upto)}
    BY <1>7 DEF FoldPublish
  <2>2. fold # NoFold /\ Built.inc = fold.inc
    BY <1>7, FoldTypes DEF FoldPublish, OrderInv
  <2>3. fold.inc = mseg[t].inc \cup {r \in Pending(t) : r.seq <= fold.upto}
    BY <1>7, <2>1, <2>2 DEF FoldPublish, OrderInv, UpInv, FoldInv
  <2>4. mseg'[t].inc = fold.inc /\ \A u \in Target : u # t => mseg'[u] = mseg[u]
    BY <2>1, <2>2 DEF OrderInv, TypeOK
  <2>5. ASSUME NEW r \in delta PROVE r \in Shown'
    BY <2>1, <2>3, <2>4 DEF Shown, Pending
  <2>6. ASSUME NEW u \in Target, NEW r \in mseg[u].inc PROVE r \in Shown'
    <3>1. r \in mseg'[u].inc
      BY <2>3, <2>4
    <3> QED
      BY <3>1 DEF Shown
  <2>7. Shown \subseteq Shown'
    BY <2>5, <2>6 DEF Shown
  <2> QED
    BY <2>1, <2>7, KeptRunning
<1>8. CASE FoldSave \/ FoldSaveFails
  BY <1>8, KeptRunning DEF FoldSave, FoldSaveFails, Shown, diskVars
<1>9. CASE CompactBegin \/ CompactPruneFails \/ CompactPrune
  BY <1>9, KeptRunning DEF CompactBegin, CompactPruneFails, CompactPrune, Shown
<1>10. CASE Crash
  BY <1>10, KeptDown DEF Crash, Halt, Logged, diskVars
<1>11. CASE PowerLoss
  <2>1. /\ ~up' /\ seg' = seg /\ sealed' = sealed
        /\ \E cut \in 0..MaxSeq : /\ log' = log \ {r \in log : r.seq > cut}
                                  /\ acked' = acked \ ({r \in log : r.seq > cut} \ InSegments)
    BY <1>11 DEF PowerLoss, Halt
  <2>2. acked' \subseteq acked
        /\ \A r \in acked' : r \in Logged => r \in Logged' \/ r \in InSegments
    BY <2>1 DEF Logged
  <2> QED
    BY <2>1, <2>2, KeptDown
<1>12. ASSUME NEW t \in Target, SegmentRots(t)
       PROVE  KeptInv'
  BY <1>12, KeptSegmentRots
<1>13. CASE StateRots
  BY <1>13, KeptDown DEF StateRots, Logged, memVars
<1>14. CASE JournalDeleted
  BY <1>14, KeptDown DEF JournalDeleted, memVars
<1>15. CASE UNCHANGED vars
  <2>1. UNCHANGED <<log, sealed, seg, disk, up, mseg, delta, acked>>
    BY <1>15 DEF vars, diskVars, memVars
  <2>2. CASE up
    BY <2>1, <2>2, KeptRunning DEF Shown
  <2>3. CASE ~up
    BY <2>1, <2>3, KeptDown DEF Logged
  <2> QED
    BY <2>2, <2>3
<1> QED
  BY <1>1, <1>2, <1>3, <1>4, <1>5, <1>6, <1>7, <1>8, <1>9, <1>10, <1>11, <1>12, <1>13,
     <1>14, <1>15
     DEF Next, Write, FoldStep, Compact, Environment

(* IInv is inductive as long as sealing the old journal and reading the    *)
(* sealed ones work.                                                       *)
LEMMA InvAlways ==
  ASSUME "seal_fails" \notin Faults, "sealed_skipped" \notin Faults
  PROVE  Spec => []IInv
<1>1. Init => IInv
  BY OrderInit, KeptInit DEF IInv
<1>2. IInv /\ [Next]_vars => IInv'
  BY OrderStep, KeptStep DEF IInv
<1> QED
  BY <1>1, <1>2, PTL DEF Spec

(* No acknowledged record is ever missing from what a query reads, unless  *)
(* the disk lost it (power loss, a rotten segment, a deleted journal take  *)
(* it out of acked) -- and unless the rename of an old journal fails or    *)
(* open has to skip a sealed journal.                                      *)
THEOREM NothingLost ==
  ASSUME "seal_fails" \notin Faults, "sealed_skipped" \notin Faults
  PROVE  Spec => []NoLoss
<1>1. IInv => NoLoss
  BY DEF IInv, KeptInv
<1> QED
  BY <1>1, InvAlways, PTL

(* At any step the disk alone restores every acknowledged record, and none *)
(* twice, should the process die there.                                    *)
THEOREM AlwaysRecoverable ==
  ASSUME "seal_fails" \notin Faults, "sealed_skipped" \notin Faults
  PROVE  Spec => []Recoverable
<1>1. IInv => Recoverable
  <2> SUFFICES ASSUME OrderInv, KeptInv,
                      NEW r \in Replayed, NEW t \in Target, r \in Opened(t).inc
               PROVE  FALSE
    BY DEF IInv, KeptInv, Recoverable, InSegments
  <2>1. Opened(t) = seg[t] /\ r.tgt = t /\ r.seq <= seg[t].max
    BY DEF OrderInv, DiskInv, SegmentOK, Opened, NoSegment
  <2>2. r.seq > seg[t].max
    BY <2>1, WatermarksAreMax DEF Replayed
  <2>3. r.seq \in Nat /\ seg[t].max \in Nat
    BY DEF OrderInv, TypeOK, Replayed, Logged, Record, Seqs, Segment
  <2> QED
    BY <2>1, <2>2, <2>3
<1> QED
  BY <1>1, InvAlways, PTL

(* A segment is only ever replaced by one folded at least as far.          *)
THEOREM SegmentsOnlyGrow == Spec => WatermarkNeverBack
<1> DEFINE Grow == \A t \in Target : Opened(t) # NoSegment /\ Opened(t)' # NoSegment
                                       => Opened(t)'.max >= Opened(t).max
<1>1. OrderInv /\ [Next]_vars => [Grow]_vars
  <2> SUFFICES ASSUME OrderInv, Next, NEW t \in Target,
                      Opened(t) # NoSegment, Opened(t)' # NoSegment
               PROVE  Opened(t)'.max >= Opened(t).max
    OBVIOUS
  <2>0. Opened(t).max \in Nat
    BY OpenedTypes DEF OrderInv
  <2>1. CASE seg' = seg
    BY <2>0, <2>1 DEF Opened
  <2>2. ASSUME up, fold.pc = "build", seg' = [seg EXCEPT ![fold.tgt] = Built]
        PROVE  Opened(t)'.max >= Opened(t).max
    <3>1. /\ fold # NoFold /\ Built.st = "ok" /\ Built.max = fold.upto
          /\ fold.tgt \in Target /\ fold.upto \in Nat
      BY <2>2, FoldTypes DEF OrderInv
    <3>2. t = fold.tgt => Opened(t).max <= fold.upto
      BY <2>2, <3>1 DEF OrderInv, UpInv, FoldInv
    <3>3. t = fold.tgt => seg'[t] = Built
      BY <2>2, <3>1 DEF OrderInv, TypeOK
    <3>4. t # fold.tgt => seg'[t] = seg[t]
      BY <2>2, <3>1 DEF OrderInv, TypeOK
    <3> QED
      BY <2>0, <3>1, <3>2, <3>3, <3>4 DEF Opened
  <2>3. ASSUME NEW u \in Target, SegmentRots(u)
        PROVE  Opened(t)'.max >= Opened(t).max
    <3>1. t = u => Opened(t)' = NoSegment
      BY <2>3 DEF SegmentRots, Opened, OrderInv, TypeOK, Segment
    <3>2. t # u => seg'[t] = seg[t]
      BY <2>3 DEF SegmentRots, OrderInv, TypeOK
    <3> QED
      BY <2>0, <3>1, <3>2 DEF Opened
  <2>4. \/ seg' = seg
        \/ up /\ fold.pc = "build" /\ seg' = [seg EXCEPT ![fold.tgt] = Built]
        \/ \E u \in Target : SegmentRots(u)
    BY DEF Next, Open, Write, ApplyBatch, ApplyFails, CrashInApply, FoldStep, FoldBegin,
           FoldBuild, FoldBuildFails, FoldPublish, FoldSave, FoldSaveFails, Compact,
           CompactBegin, CompactPrune, CompactPruneFails, Environment, Crash, PowerLoss,
           StateRots, JournalDeleted, diskVars
  <2> QED
    BY <2>1, <2>2, <2>3, <2>4
<1> QED
  BY <1>1, OrderAlways, PTL DEF Spec, WatermarkNeverBack

-----------------------------------------------------------------------------
(* UserData implements UserStore.                                          *)

(* The refinement mapping, and what UserStore says of a step, in words of  *)
(* UserData.                                                               *)
StoreShown == IF up THEN Shown ELSE Surviving
StoreLimbo == IF up THEN Replayed \ Shown ELSE {}

LEMMA StoreSteps ==
  /\ StoreShown' = StoreShown /\ StoreLimbo' = StoreLimbo => UNCHANGED Store!vars
  /\ /\ StoreShown \subseteq StoreShown' /\ StoreShown' \cap StoreLimbo = {}
     /\ StoreLimbo' = StoreLimbo
     => Store!Acknowledge
  /\ /\ StoreLimbo \subseteq StoreLimbo' /\ StoreLimbo' \cap StoreShown = {}
     /\ StoreShown' = StoreShown
     => Store!Fail
  /\ StoreLimbo' \subseteq StoreLimbo /\ StoreShown' = StoreShown => Store!Forget
  /\ StoreShown \cup StoreLimbo \subseteq StoreShown' /\ StoreLimbo' = {} => Store!Restart
BY DEF StoreShown, StoreLimbo, Store!vars, Store!Acknowledge, Store!Fail, Store!Forget, Store!Restart

(* New records of a batch are in no segment, no journal and not shown.     *)
LEMMA BatchIsNew ==
  ASSUME OrderInv, up, ReadsAll, NEW N, N \subseteq Record, \A r \in N : next <= r.seq
  PROVE  /\ N \cap Logged = {} /\ N \cap Shown = {}
         /\ \A r \in N : r.seq > Opened(r.tgt).max
<1>1. NumbersInv /\ ViewInv
  BY DEF OrderInv, UpInv
<1>2. next \in Nat /\ Logged \subseteq Record /\ delta \subseteq Logged
  BY <1>1 DEF OrderInv, TypeOK, Seqs, Logged, ViewInv
<1>3. \A r \in N : r.tgt \in Target /\ r.seq \in Nat
  BY DEF Record, Seqs
<1>4. \A r \in Logged : r.seq \in Nat /\ r.seq < next
  BY <1>1, <1>2 DEF NumbersInv, Record, Seqs
<1>5. \A t \in Target : Opened(t).max \in Nat /\ Opened(t).max < next
  BY <1>1, OpenedTypes DEF OrderInv, NumbersInv
<1>6. ASSUME NEW t \in Target, NEW r \in mseg[t].inc
      PROVE  r.seq \in Nat /\ r.seq < next
  <2>1. r.seq <= mseg[t].max /\ mseg[t].max <= Opened(t).max
    BY <1>1, <1>6 DEF ViewInv, SegmentOK
  <2>2. mseg[t].max \in Nat /\ r \in Record
    BY <1>6 DEF OrderInv, TypeOK, Segment
  <2> QED
    BY <1>2, <1>5, <2>1, <2>2 DEF Record, Seqs
<1>7. \A r \in Shown : r.seq \in Nat /\ r.seq < next
  BY <1>2, <1>4, <1>6 DEF Shown
<1> QED
  BY <1>2, <1>3, <1>4, <1>5, <1>7

LEMMA RefineApply ==
  ASSUME OrderInv, OrderInv', ReadsAll, NEW b \in Batches, ApplyBatch(b)
  PROVE  Store!Acknowledge
<1> DEFINE N == Numbered(b, Len(b))
<1>1. /\ up /\ up' /\ log' = log \cup N /\ delta' = delta \cup N
      /\ UNCHANGED <<sealed, seg, disk, mseg>>
  BY DEF ApplyBatch, CanWrite
<1>2. N \subseteq Record /\ \A r \in N : next <= r.seq
  BY BatchRecords
<1> HIDE DEF N
<1>3. /\ N \cap Logged = {} /\ N \cap Shown = {}
      /\ \A r \in N : r.tgt \in Target /\ r.seq > Opened(r.tgt).max
  BY <1>1, <1>2, BatchIsNew DEF Record
<1>4. \A t \in Target : Watermark(t) = Opened(t).max /\ Watermark(t)' = Watermark(t)
  BY <1>1, WatermarksAreMax, SameWatermarks
<1>5. Logged' = Logged \cup N /\ Shown' = Shown \cup N
  BY <1>1 DEF Logged, Shown
<1>6. Logged \subseteq Record
  BY DEF OrderInv, TypeOK, Logged
<1>7. Replayed' = Replayed \cup N
  BY <1>3, <1>4, <1>5, <1>6 DEF Replayed, Record
<1>8. Replayed \subseteq Logged
  BY DEF Replayed
<1> QED
  BY <1>1, <1>3, <1>5, <1>7, <1>8, StoreSteps DEF StoreShown, StoreLimbo

LEMMA RefineApplyFails ==
  ASSUME OrderInv, OrderInv', NEW b \in Batches, NEW k \in 0..MaxBatch, ApplyFails(b, k)
  PROVE  Store!Fail
<1>1. /\ up /\ up' /\ log \subseteq log'
      /\ UNCHANGED <<sealed, seg, disk, mseg, delta>>
  BY DEF ApplyFails, CanWrite
<1>2. Shown' = Shown /\ Logged \subseteq Logged'
  BY <1>1 DEF Shown, Logged
<1>3. \A t \in Target : Watermark(t)' = Watermark(t)
  BY <1>1, SameWatermarks
<1>4. Logged \subseteq Record
  BY DEF OrderInv, TypeOK, Logged
<1>5. Replayed \subseteq Replayed'
  BY <1>2, <1>3, <1>4 DEF Replayed, Record
<1> QED
  BY <1>1, <1>2, <1>5, StoreSteps DEF StoreShown, StoreLimbo

(* Steps of a running engine that show the same and write nothing.         *)
LEMMA RefineSame ==
  ASSUME OrderInv, OrderInv', up, up', Shown' = Shown, Logged' \subseteq Logged,
         \A t \in Target : Opened(t).max <= Opened(t)'.max
  PROVE  Store!Forget
<1>1. \A t \in Target : Watermark(t) = Opened(t).max
  BY WatermarksAreMax
<1>2. \A t \in Target : Watermark(t)' = Opened(t)'.max
  BY WatermarksAreMaxNext
<1>3. \A t \in Target : Opened(t).max \in Nat
  BY OpenedTypes DEF OrderInv
<1>4. \A t \in Target : Opened(t)'.max \in Nat
  BY DEF OrderInv, TypeOK, Opened, Segment, NoSegment
<1>5. Logged \subseteq Record
  BY DEF OrderInv, TypeOK, Logged
<1>6. ASSUME NEW r \in Replayed' PROVE r \in Replayed
  <2>1. r \in Logged /\ r.tgt \in Target /\ r.seq \in Nat /\ r.seq > Opened(r.tgt)'.max
    BY <1>2, <1>5, <1>6 DEF Replayed, Record, Seqs
  <2>2. r.seq > Opened(r.tgt).max
    BY <1>3, <1>4, <2>1
  <2> QED
    BY <1>1, <2>1, <2>2 DEF Replayed
<1> QED
  BY <1>6, StoreSteps DEF StoreShown, StoreLimbo

LEMMA RefineFold ==
  ASSUME OrderInv, OrderInv', FoldStep \/ Compact
  PROVE  Store!Forget
<1>1. up /\ up'
  BY DEF FoldStep, FoldBegin, FoldBuild, FoldBuildFails, FoldPublish, FoldSave, FoldSaveFails,
         Compact, CompactBegin, CompactPrune, CompactPruneFails
<1>2. \A t \in Target : Opened(t).max \in Nat
  BY OpenedTypes DEF OrderInv
<1>3. ASSUME seg' = seg
      PROVE  \A t \in Target : Opened(t).max <= Opened(t)'.max
  BY <1>2, <1>3 DEF Opened
<1>4. CASE FoldBuild \/ FoldBuildFails
  <2>1. /\ fold.pc = "build" /\ UNCHANGED <<log, sealed, delta, mseg>>
        /\ seg' = seg \/ seg' = [seg EXCEPT ![fold.tgt] = Built]
    BY <1>4 DEF FoldBuild, FoldBuildFails
  <2>2. /\ fold # NoFold /\ fold.tgt \in Target /\ fold.upto \in Nat
        /\ Built.st = "ok" /\ Built.max = fold.upto
    BY <2>1, FoldTypes DEF OrderInv
  <2>3. Opened(fold.tgt).max <= fold.upto
    BY <1>1, <2>2 DEF OrderInv, UpInv, FoldInv
  <2>4. ASSUME NEW t \in Target, seg' = [seg EXCEPT ![fold.tgt] = Built]
        PROVE  Opened(t).max <= Opened(t)'.max
    <3>1. CASE t = fold.tgt
      <4>1. seg'[t] = Built
        BY <2>4, <3>1 DEF OrderInv, TypeOK
      <4> QED
        BY <2>2, <2>3, <3>1, <4>1 DEF Opened
    <3>2. CASE t # fold.tgt
      <4>1. seg'[t] = seg[t]
        BY <2>4, <3>2 DEF OrderInv, TypeOK
      <4> QED
        BY <1>2, <4>1 DEF Opened
    <3> QED
      BY <3>1, <3>2
  <2> QED
    BY <1>1, <1>3, <2>1, <2>4, RefineSame DEF Shown, Logged
<1>5. CASE FoldPublish
  <2> PICK t \in Target : t = fold.tgt
    BY <1>5, FoldTypes DEF FoldPublish, OrderInv
  <2>1. /\ mseg' = [mseg EXCEPT ![t] = Built] /\ fold.pc = "publish" /\ UNCHANGED <<log, sealed, seg>>
        /\ delta' = {r \in delta : ~(r.tgt = t /\ r.seq <= fold.upto)}
    BY <1>5 DEF FoldPublish, diskVars
  <2>2. Built.inc = mseg[t].inc \cup {r \in delta : r.tgt = t /\ r.seq <= fold.upto}
    <3>1. fold # NoFold /\ Built.inc = fold.inc
      BY <2>1, FoldTypes DEF OrderInv
    <3> QED
      BY <1>1, <2>1, <3>1 DEF OrderInv, UpInv, FoldInv, Pending
  <2>3. mseg'[t] = Built /\ \A u \in Target : u # t => mseg'[u] = mseg[u]
    BY <2>1 DEF OrderInv, TypeOK
  <2>4. Shown' = Shown
    <3>1. ASSUME NEW r \in Shown' PROVE r \in Shown
      BY <2>1, <2>2, <2>3, <3>1 DEF Shown
    <3>2. ASSUME NEW r \in Shown PROVE r \in Shown'
      BY <2>1, <2>2, <2>3, <3>2 DEF Shown
    <3> QED
      BY <3>1, <3>2
  <2> QED
    BY <1>1, <1>3, <2>1, <2>4, RefineSame DEF Logged
<1>6. CASE CompactPrune
  <2>1. log' \subseteq log /\ UNION sealed' \subseteq UNION sealed
    BY <1>6, PruneKeepsDelta
  <2> QED
    BY <1>1, <1>3, <1>6, <2>1, RefineSame DEF CompactPrune, Shown, Logged
<1>7. CASE UNCHANGED <<log, sealed, seg, delta, mseg>>
  BY <1>1, <1>3, <1>7, RefineSame DEF Shown, Logged
<1> QED
  BY <1>4, <1>5, <1>6, <1>7
     DEF FoldStep, Compact, FoldBegin, FoldSave, FoldSaveFails, CompactBegin, CompactPruneFails, diskVars

(* The process ends: all that was written shows next.                      *)
LEMMA RefineCrash ==
  ASSUME OrderInv, OrderInv', up, ~up', UNCHANGED <<sealed, seg>>, log \subseteq log'
  PROVE  Store!Restart
<1>1. Shown \subseteq Replayed \cup InSegments
  BY ShownSurvives
<1>2. /\ \A t \in Target : Watermark(t)' = Watermark(t)
      /\ InSegments' = InSegments
  BY SameWatermarks
<1>3. Logged \subseteq Record /\ Logged \subseteq Logged'
  BY DEF OrderInv, TypeOK, Logged
<1>4. Replayed \subseteq Replayed'
  BY <1>2, <1>3 DEF Replayed, Record
<1> QED
  BY <1>1, <1>2, <1>4, StoreSteps DEF StoreShown, StoreLimbo, Surviving

LEMMA RefineOpen ==
  ASSUME OrderInv, OrderInv', Open, "seal_fails" \notin Faults, "sealed_skipped" \notin Faults
  PROVE  UNCHANGED Store!vars
<1>1. Logged' = Logged
  BY DEF Open, Renew, Logged
<1>2. /\ ~up /\ up' /\ seg' = seg /\ mseg' = [t \in Target |-> Opened(t)]
      /\ delta' = {r \in Logged' : r.seq > Watermark(r.tgt)}
  BY OpenReadsAll DEF Open, ReadsAll
<1>3. /\ \A t \in Target : Watermark(t)' = Watermark(t)
      /\ InSegments' = InSegments
  BY <1>2, SameWatermarks
<1>4. Logged \subseteq Record
  BY DEF OrderInv, TypeOK, Logged
<1>5. delta' = Replayed /\ Replayed' = Replayed
  BY <1>1, <1>2, <1>3, <1>4 DEF Replayed, Record
<1>6. UNION {mseg'[t].inc : t \in Target} = InSegments
  BY <1>2 DEF InSegments
<1>7. Shown' = Replayed \cup InSegments
  BY <1>5, <1>6 DEF Shown
<1> QED
  BY <1>2, <1>5, <1>7, StoreSteps DEF StoreShown, StoreLimbo, Surviving

LEMMA RefineStateRots ==
  ASSUME OrderInv, OrderInv', StateRots
  PROVE  UNCHANGED Store!vars
<1>1. ~up /\ ~up' /\ Logged' = Logged /\ seg' = seg
  BY DEF StateRots, memVars, Logged
<1>2. /\ \A t \in Target : Watermark(t)' = Watermark(t)
      /\ InSegments' = InSegments
  BY <1>1, SameWatermarks
<1>3. Logged \subseteq Record
  BY DEF OrderInv, TypeOK, Logged
<1>4. Replayed' = Replayed
  BY <1>1, <1>2, <1>3 DEF Replayed, Record
<1> QED
  BY <1>1, <1>2, <1>4, StoreSteps DEF StoreShown, StoreLimbo, Surviving

(* The engine implements UserStore: apart from damage to the disk, what    *)
(* its user sees changes only by acknowledged batches and, at a restart,   *)
(* by records of batches that failed -- unless the rename of an old        *)
(* journal fails or open has to skip a sealed one.                         *)
THEOREM EngineImplementsStore ==
  ASSUME "seal_fails" \notin Faults, "sealed_skipped" \notin Faults
  PROVE  Spec => ImplementsUserStore
<1>1. Init => Store!Init
  BY DEF Init, Store!Init, Surviving, Replayed, Logged, InSegments, Opened, NoSegment
<1>2. OrderInv /\ OrderInv' /\ [Next]_vars => [Store!Next \/ Damage]_(Store!vars)
  <2> SUFFICES ASSUME OrderInv, OrderInv', [Next]_vars
               PROVE  [Store!Next \/ Damage]_(Store!vars)
    OBVIOUS
  <2>1. CASE Open
    BY <2>1, RefineOpen
  <2>2. CASE StateRots
    BY <2>2, RefineStateRots
  <2>3. CASE FoldStep \/ Compact
    BY <2>3, RefineFold DEF Store!Next
  <2>4. ASSUME NEW b \in Batches, ApplyBatch(b) PROVE Store!Next
    BY <2>4, RefineApply DEF Store!Next, ReadsAll
  <2>5. ASSUME NEW b \in Batches, NEW k \in 0..MaxBatch, ApplyFails(b, k) PROVE Store!Next
    BY <2>5, RefineApplyFails DEF Store!Next
  <2>6. ASSUME NEW b \in Batches, NEW k \in 0..MaxBatch, CrashInApply(b, k) PROVE Store!Next
    <3>1. up /\ ~up' /\ UNCHANGED <<sealed, seg>> /\ log \subseteq log'
      BY <2>6 DEF CrashInApply, CanWrite, Halt
    <3> QED
      BY <3>1, RefineCrash DEF Store!Next
  <2>7. CASE Crash
    <3>1. up /\ ~up' /\ UNCHANGED <<sealed, seg>> /\ log \subseteq log'
      BY <2>7 DEF Crash, Halt, diskVars
    <3> QED
      BY <3>1, RefineCrash DEF Store!Next
  <2>8. CASE Damage
    BY <2>8
  <2>9. CASE UNCHANGED vars
    <3>1. UNCHANGED Store!vars
      BY <2>9 DEF vars, diskVars, memVars, Store!vars, Shown, Surviving, Replayed, Logged,
                  InSegments, Opened, Watermark
    <3> QED
      BY <3>1
  <2> QED
    BY <2>1, <2>2, <2>3, <2>4, <2>5, <2>6, <2>7, <2>8, <2>9
       DEF Next, Write, Environment, Damage
<1> QED
  BY <1>1, <1>2, OrderAlways, PTL DEF Spec, ImplementsUserStore
=============================================================================
