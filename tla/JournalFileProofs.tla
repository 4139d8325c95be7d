--------------------------- MODULE JournalFileProofs ---------------------------
(***************************************************************************)
(* What holds of JournalFile for any number of records, any number of torn *)
(* frames and every fault.                                                 *)
(***************************************************************************)
EXTENDS JournalFile, FiniteSetTheorems, SequenceTheorems, WellFoundedInduction, TLAPS

USE JournalAssumption

--------------------------------------------------------------------------------
(* What a scan reads.                                                        *)

(* The first k frames are whole and the next one is not.                   *)
Cut(f, k) ==
  /\ k \in 0..Len(f)
  /\ \A i \in 1..k : f[i].whole
  /\ k < Len(f) => ~f[k + 1].whole

AllWhole(f) == \A i \in 1..Len(f) : f[i].whole
Ascends(f) == \A i, j \in 1..Len(f) : i <= j => f[i].seq <= f[j].seq

LEMMA FramesAre == \A x \in Frame : x.seq \in 1..MaxSeq /\ x.seq \in Nat /\ x.whole \in BOOLEAN
BY DEF Frame, Seqs

LEMMA Least ==
  ASSUME NEW S \in SUBSET Nat, S # {}
  PROVE  \E x \in S : \A y \in S : x <= y
<1>1. PICK x \in S : \A y \in S : ~(<<y, x>> \in OpToRel(<, Nat))
  BY WFMin, NatLessThanWellFounded
<1>2. \A y \in S : ~(y < x) BY <1>1 DEF OpToRel
<1> QED BY <1>2

LEMMA CutExists ==
  ASSUME NEW f \in Seq(Frame)
  PROVE  \E k \in 0..Len(f) : Cut(f, k)
<1> DEFINE S == {i \in 1..Len(f) + 1 : i = Len(f) + 1 \/ ~f[i].whole}
<1>1. Len(f) + 1 \in S /\ S \in SUBSET Nat OBVIOUS
<1>2. PICK x \in S : \A y \in S : x <= y BY <1>1, Least
<1>3. x \in 1..Len(f) + 1 /\ (x = Len(f) + 1 \/ ~f[x].whole) OBVIOUS
<1>4. \A i \in 1..x - 1 : f[i].whole BY <1>2, <1>3
<1> QED BY <1>3, <1>4 DEF Cut

LEMMA ScanTo ==
  ASSUME NEW f \in Seq(Frame), NEW k, Cut(f, k)
  PROVE  /\ WholePrefix(f) = 1..k
         /\ Scanned(f) \in Seq(Frame) /\ Len(Scanned(f)) = k
         /\ \A i \in 1..k : Scanned(f)[i] = f[i]
<1>1. k \in Nat /\ k <= Len(f) BY DEF Cut
<1>2. WholePrefix(f) = 1..k BY <1>1 DEF WholePrefix, Cut
<1>3. Cardinality(1..k) = k BY <1>1, FS_Interval
<1>4. Scanned(f) = SubSeq(f, 1, k) BY <1>2, <1>3 DEF Scanned
<1>5. \A i \in 1..k : f[i] \in Frame BY <1>1
<1> QED BY <1>1, <1>2, <1>4, <1>5, SubSeqProperties

(* A record is read if its frame and all before it are whole.              *)
LEMMA ReadIff ==
  ASSUME NEW f \in Seq(Frame), NEW n
  PROVE  n \in Read(f) <=> \E i \in 1..Len(f) : (\A j \in 1..i : f[j].whole) /\ n = f[i].seq
<1>1. PICK k \in 0..Len(f) : Cut(f, k) BY CutExists
<1>2. Len(Scanned(f)) = k /\ Scanned(f) \in Seq(Frame) /\ \A i \in 1..k : Scanned(f)[i] = f[i] BY <1>1, ScanTo
<1>3. n \in Read(f) <=> \E i \in 1..k : n = f[i].seq BY <1>2 DEF Read
<1>4. \A i \in 1..Len(f) : (\A j \in 1..i : f[j].whole) <=> i \in 1..k BY <1>1 DEF Cut
<1> QED BY <1>3, <1>4

LEMMA ReadAppend ==
  ASSUME NEW f \in Seq(Frame), NEW x \in Frame
  PROVE  /\ Append(f, x) \in Seq(Frame) /\ Len(Append(f, x)) = Len(f) + 1
         /\ Read(f) \subseteq Read(Append(f, x))
         /\ AllWhole(f) /\ x.whole => x.seq \in Read(Append(f, x))
<1> DEFINE g == Append(f, x)
<1>1. g \in Seq(Frame) /\ Len(g) = Len(f) + 1 /\ (\A i \in 1..Len(f) : g[i] = f[i]) /\ g[Len(f) + 1] = x
  BY AppendProperties
<1> HIDE DEF g
<1>2. ASSUME NEW n \in Read(f) PROVE n \in Read(g)
  <2>1. PICK i \in 1..Len(f) : (\A j \in 1..i : f[j].whole) /\ n = f[i].seq BY ReadIff
  <2>2. i \in 1..Len(g) /\ (\A j \in 1..i : g[j].whole) /\ n = g[i].seq BY <1>1, <2>1
  <2> QED BY <1>1, <2>2, ReadIff
<1>3. ASSUME AllWhole(f), x.whole PROVE x.seq \in Read(g)
  <2>1. Len(g) \in 1..Len(g) /\ (\A j \in 1..Len(g) : g[j].whole) /\ x.seq = g[Len(g)].seq
    BY <1>1, <1>3 DEF AllWhole
  <2> QED BY <1>1, <2>1, ReadIff
<1> QED BY <1>1, <1>2, <1>3 DEF g

LEMMA ReadPrefix ==
  ASSUME NEW f \in Seq(Frame), NEW d \in 0..Len(f)
  PROVE  /\ SubSeq(f, 1, d) \in Seq(Frame) /\ Len(SubSeq(f, 1, d)) = d
         /\ \A i \in 1..d : SubSeq(f, 1, d)[i] = f[i]
         /\ \A n : n \in Read(SubSeq(f, 1, d)) <=>
                     \E i \in 1..d : (\A j \in 1..i : f[j].whole) /\ n = f[i].seq
<1> DEFINE g == SubSeq(f, 1, d)
<1>1. \A i \in 1..d : f[i] \in Frame OBVIOUS
<1>2. g \in Seq(Frame) /\ Len(g) = d /\ \A i \in 1..d : g[i] = f[i] BY <1>1, SubSeqProperties
<1> HIDE DEF g
<1>3. ASSUME NEW n PROVE n \in Read(g) <=> \E i \in 1..d : (\A j \in 1..i : f[j].whole) /\ n = f[i].seq
  <2>1. n \in Read(g) <=> \E i \in 1..d : (\A j \in 1..i : g[j].whole) /\ n = g[i].seq BY <1>2, ReadIff
  <2>2. \A i \in 1..d : (\A j \in 1..i : g[j].whole) <=> (\A j \in 1..i : f[j].whole) BY <1>2
  <2> QED BY <1>2, <2>1, <2>2
<1> QED BY <1>2, <1>3 DEF g

(* The whole file, and more of it.                                         *)
LEMMA ReadMore ==
  ASSUME NEW f \in Seq(Frame), NEW d \in 0..Len(f)
  PROVE  /\ Read(SubSeq(f, 1, d)) \subseteq Read(f)
         /\ Read(SubSeq(f, 1, Len(f))) = Read(f)
<1>1. ASSUME NEW n \in Read(SubSeq(f, 1, d)) PROVE n \in Read(f) BY <1>1, ReadPrefix, ReadIff
<1>2. Len(f) \in 0..Len(f) OBVIOUS
<1>3. \A n : n \in Read(SubSeq(f, 1, Len(f))) <=> n \in Read(f) BY <1>2, ReadPrefix, ReadIff
<1> QED BY <1>1, <1>3

(* An open cuts off the tail, and reads what it has read before.           *)
LEMMA ReadScanned ==
  ASSUME NEW f \in Seq(Frame), NEW d \in 0..Len(f)
  PROVE  /\ Scanned(f) \in Seq(Frame) /\ Len(Scanned(f)) <= Len(f)
         /\ AllWhole(Scanned(f)) /\ Read(Scanned(f)) = Read(f)
         /\ \A i \in 1..Len(Scanned(f)) : Scanned(f)[i] = f[i]
         /\ LET e == IF d > Len(Scanned(f)) THEN Len(Scanned(f)) ELSE d
            IN  Read(SubSeq(Scanned(f), 1, e)) = Read(SubSeq(f, 1, d))
<1>1. PICK k \in 0..Len(f) : Cut(f, k) BY CutExists
<1> DEFINE g == Scanned(f)
<1>2. g \in Seq(Frame) /\ Len(g) = k /\ \A i \in 1..k : g[i] = f[i] BY <1>1, ScanTo
<1> HIDE DEF g
<1>3. AllWhole(g) BY <1>1, <1>2 DEF AllWhole, Cut
<1>4. \A i \in 1..Len(f) : (\A j \in 1..i : f[j].whole) <=> i \in 1..k BY <1>1 DEF Cut
<1>5. \A i \in 1..k : \A j \in 1..i : g[j].whole BY <1>2, <1>3 DEF AllWhole
<1>6. ASSUME NEW n PROVE n \in Read(g) <=> n \in Read(f)
  <2>1. n \in Read(g) <=> \E i \in 1..k : n = g[i].seq BY <1>2, <1>5, ReadIff
  <2>2. n \in Read(f) <=> \E i \in 1..k : n = f[i].seq BY <1>4, ReadIff
  <2> QED BY <1>2, <2>1, <2>2
<1> DEFINE e == IF d > k THEN k ELSE d
<1>7. ASSUME NEW n PROVE n \in Read(SubSeq(g, 1, e)) <=> n \in Read(SubSeq(f, 1, d))
  <2>1. e \in 0..Len(g) BY <1>2
  <2>2. n \in Read(SubSeq(g, 1, e)) <=> \E i \in 1..e : (\A j \in 1..i : g[j].whole) /\ n = g[i].seq
    BY <1>2, <2>1, ReadPrefix
  <2>3. n \in Read(SubSeq(f, 1, d)) <=> \E i \in 1..d : (\A j \in 1..i : f[j].whole) /\ n = f[i].seq
    BY ReadPrefix
  <2>4. \A i \in 1..d : (\A j \in 1..i : f[j].whole) <=> i \in 1..e BY <1>4
  <2>5. \A i \in 1..e : i \in 1..k /\ i \in 1..d OBVIOUS
  <2> QED BY <1>2, <1>5, <2>2, <2>3, <2>4, <2>5
<1> QED BY <1>2, <1>3, <1>6, <1>7 DEF g

(* A prune keeps what is above the watermark.                              *)
LEMMA ReadKept ==
  ASSUME NEW f \in Seq(Frame), AllWhole(f), Ascends(f), folded \in Nat
  PROVE  /\ Kept(f) \in Seq(Frame) /\ AllWhole(Kept(f)) /\ Ascends(Kept(f))
         /\ \A i \in 1..Len(Kept(f)) : \E j \in 1..Len(f) : Kept(f)[i] = f[j]
         /\ \A n : n \in Read(Kept(f)) <=> n \in Read(f) /\ n > folded
<1>0. \A i \in 1..Len(f) : f[i] \in Frame /\ f[i].seq \in Nat BY FramesAre
<1> DEFINE S == {i \in 1..Len(f) + 1 : i = Len(f) + 1 \/ f[i].seq > folded}
<1>1. Len(f) + 1 \in S /\ S \in SUBSET Nat OBVIOUS
<1>2. PICK x \in S : \A y \in S : x <= y BY <1>1, Least
<1> DEFINE c == x - 1
<1>3. c \in 0..Len(f) /\ (c = Len(f) \/ f[c + 1].seq > folded) BY <1>2
<1>4. \A i \in 1..c : ~(f[i].seq > folded) BY <1>2, <1>3
<1>5. \A i \in c + 1..Len(f) : f[i].seq > folded BY <1>0, <1>3 DEF Ascends
<1> HIDE DEF c
<1>6. {i \in DOMAIN f : f[i].seq <= folded} = 1..c BY <1>0, <1>3, <1>4, <1>5
<1>7. Cardinality(1..c) = c BY <1>3, FS_Interval
<1>8. Kept(f) = SubSeq(f, c + 1, Len(f)) BY <1>6, <1>7 DEF Kept
<1> DEFINE g == Kept(f)
<1>9. g \in Seq(Frame) /\ Len(g) = Len(f) - c /\ \A i \in 1..Len(f) - c : g[i] = f[c + i]
  <2>1. \A i \in c + 1..Len(f) : f[i] \in Frame BY <1>0, <1>3
  <2>2. c + 1 \in Int /\ Len(f) \in Int BY <1>3
  <2>3. /\ SubSeq(f, c + 1, Len(f)) \in Seq(Frame)
        /\ Len(SubSeq(f, c + 1, Len(f))) = IF c + 1 <= Len(f) THEN Len(f) - (c + 1) + 1 ELSE 0
        /\ \A i \in 1..Len(f) - (c + 1) + 1 : SubSeq(f, c + 1, Len(f))[i] = f[c + 1 + i - 1]
    BY <2>1, <2>2, SubSeqProperties
  <2> QED BY <1>3, <1>8, <2>3
<1> HIDE DEF g
<1>10. \A i \in 1..Len(g) : c + i \in 1..Len(f) /\ g[i] = f[c + i] BY <1>3, <1>9
<1>11. AllWhole(g) BY <1>10 DEF AllWhole
<1>12. Ascends(g)
  <2> SUFFICES ASSUME NEW i \in 1..Len(g), NEW j \in 1..Len(g), i <= j PROVE g[i].seq <= g[j].seq
    BY DEF Ascends
  <2>1. c + i <= c + j BY <1>3
  <2> QED BY <1>10, <2>1 DEF Ascends
<1>13. ASSUME NEW n PROVE n \in Read(g) <=> n \in Read(f) /\ n > folded
  <2>0. g \in Seq(Frame) /\ \A i \in 1..Len(g) : \A j \in 1..i : g[j].whole BY <1>9, <1>11 DEF AllWhole
  <2>1. n \in Read(g) <=> \E i \in 1..Len(g) : n = g[i].seq BY <2>0, ReadIff
  <2>2. n \in Read(f) <=> \E i \in 1..Len(f) : n = f[i].seq BY ReadIff DEF AllWhole
  <2>3. ASSUME NEW i \in 1..Len(g), n = g[i].seq PROVE n \in Read(f) /\ n > folded
    BY <1>3, <1>5, <1>10, <2>2, <2>3
  <2>4. ASSUME NEW i \in 1..Len(f), n = f[i].seq, n > folded PROVE \E j \in 1..Len(g) : n = g[j].seq
    <3>1. i \in c + 1..Len(f) BY <1>3, <1>4, <2>4
    <3>2. i - c \in 1..Len(g) /\ g[i - c] = f[i] BY <1>3, <1>9, <3>1
    <3> QED BY <3>2, <2>4
  <2> QED BY <2>1, <2>2, <2>3, <2>4
<1> QED BY <1>9, <1>10, <1>11, <1>12, <1>13 DEF g

(* The last record of a scan has the highest number.                       *)
LEMMA LastIsHighest ==
  ASSUME NEW f \in Seq(Frame), Ascends(f)
  PROVE  /\ LastSeq(f) \in 0..MaxSeq
         /\ \A i \in 1..Len(Scanned(f)) : Scanned(f)[i].seq <= LastSeq(f)
<1>1. PICK k \in 0..Len(f) : Cut(f, k) BY CutExists
<1>2. Scanned(f) \in Seq(Frame) /\ Len(Scanned(f)) = k /\ \A i \in 1..k : Scanned(f)[i] = f[i] BY <1>1, ScanTo
<1>3. CASE k = 0 BY <1>2, <1>3 DEF LastSeq
<1>4. CASE k # 0
  <2>1. Scanned(f) # <<>> BY <1>2, <1>4
  <2>2. LastSeq(f) = f[k].seq BY <1>2, <1>4, <2>1 DEF LastSeq
  <2>3. f[k].seq \in 1..MaxSeq BY <1>4, FramesAre
  <2> QED BY <1>2, <1>4, <2>2, <2>3 DEF Ascends
<1> QED BY <1>3, <1>4

--------------------------------------------------------------------------------
(* The inductive invariant.                                                  *)

Excused == inherited \cup stray

(* Numbers ascend, and the next one is above the watermark and all that is *)
(* whole in the file.                                                      *)
NumbersInv ==
  /\ Ascends(file)
  /\ up => folded < next
  /\ up => \A i \in 1..Len(file) : file[i].seq <= next /\ (file[i].whole => file[i].seq < next)

(* A Journal that has torn nothing has a whole file; one that could not    *)
(* open its file after a prune leaves it as the prune has saved it.        *)
FileInv ==
  /\ up /\ ~torn => AllWhole(file)
  /\ up /\ ~attached => durable = Len(file)

(* What the dirty flag and the handle under way leave to be saved.         *)
SyncInv ==
  /\ up /\ ~dirty /\ handle = NoHandle => acked \ Excused \subseteq AfterPowerLoss
  /\ up /\ ~dirty /\ handle # NoHandle => acked \ (Excused \cup handle.covers) \subseteq AfterPowerLoss
  /\ up /\ handle # NoHandle => handle.covers \subseteq acked
  /\ up /\ handle # NoHandle /\ handle.of = "replaced" => handle.covers \ Excused \subseteq AfterPowerLoss

IInv == TypeOK /\ NumbersInv /\ FileInv /\ OnlyStrayLost /\ SyncInv /\ SyncedSurvives

LEMMA Initially == Init => IInv
<1> SUFFICES ASSUME Init PROVE IInv OBVIOUS
<1>1. file = <<>> /\ Len(file) = 0 /\ file \in Seq(Frame) BY DEF Init
<1>2. durable \in 0..Len(file) BY <1>1 DEF Init
<1>3. folded \in 0..MaxSeq /\ next \in 1..MaxSeq + 1 BY DEF Init
<1>4. TypeOK BY <1>1, <1>2, <1>3 DEF Init, TypeOK
<1>5. NumbersInv /\ FileInv /\ SyncInv BY <1>1 DEF Init, NumbersInv, FileInv, SyncInv, Ascends
<1>6. OnlyStrayLost /\ SyncedSurvives BY DEF Init, OnlyStrayLost, SyncedSurvives
<1> QED BY <1>4, <1>5, <1>6 DEF IInv

(* What is on stable storage is in the file.                               *)
LEMMA DurableIsThere ==
  ASSUME TypeOK
  PROVE  /\ AfterPowerLoss \subseteq AfterCrash
         /\ durable = Len(file) => AfterPowerLoss = AfterCrash
<1>1. file \in Seq(Frame) /\ durable \in 0..Len(file) BY DEF TypeOK
<1> QED BY <1>1, ReadMore DEF AfterPowerLoss, AfterCrash

(* Where the files stay alone, so does what they hold.                     *)
LEMMA FilesStay ==
  ASSUME UNCHANGED <<file, durable, folded>>
  PROVE  AfterPowerLoss' = AfterPowerLoss /\ AfterCrash' = AfterCrash
BY DEF AfterPowerLoss, AfterCrash

LEMMA SyncTakeStep == ASSUME IInv, SyncTake PROVE IInv'
<1>0. UNCHANGED <<file, durable, folded, up, next, attached, torn, acked, ticked, inherited, stray>>
  BY DEF SyncTake, history
<1>1. AfterPowerLoss' = AfterPowerLoss /\ AfterCrash' = AfterCrash BY <1>0, FilesStay
<1>2. TypeOK' BY <1>0 DEF IInv, TypeOK, SyncTake, Handle
<1>3. NumbersInv' /\ FileInv' /\ OnlyStrayLost' /\ SyncedSurvives'
  BY <1>0, <1>1 DEF IInv, NumbersInv, FileInv, OnlyStrayLost, SyncedSurvives
<1>4. handle' # NoHandle /\ handle'.covers = acked /\ (handle'.of = "replaced" => ~attached)
  BY DEF SyncTake, NoHandle, IInv, TypeOK
<1>5. ~attached => acked \ Excused \subseteq AfterPowerLoss
  BY DurableIsThere DEF SyncTake, IInv, FileInv, OnlyStrayLost, Excused
<1>6. SyncInv' BY <1>0, <1>1, <1>4, <1>5 DEF SyncInv, Excused
<1> QED BY <1>2, <1>3, <1>6 DEF IInv

LEMMA SyncIdleStep == ASSUME IInv, SyncIdle PROVE IInv'
<1>0. UNCHANGED <<file, durable, folded, up, next, dirty, attached, handle, torn, acked, inherited, stray>>
  BY DEF SyncIdle, mem
<1>1. AfterPowerLoss' = AfterPowerLoss /\ AfterCrash' = AfterCrash BY <1>0, FilesStay
<1>2. TypeOK' BY <1>0 DEF IInv, TypeOK, SyncIdle
<1>3. NumbersInv' /\ FileInv' /\ OnlyStrayLost' /\ SyncInv'
  BY <1>0, <1>1 DEF IInv, NumbersInv, FileInv, OnlyStrayLost, SyncInv, Excused
<1>4. SyncedSurvives' BY <1>0, <1>1 DEF IInv, SyncIdle, SyncInv, SyncedSurvives, Excused
<1> QED BY <1>2, <1>3, <1>4 DEF IInv

LEMMA SyncFailsStep == ASSUME IInv, SyncFails PROVE IInv'
<1>0. UNCHANGED <<file, durable, folded, up, next, attached, torn, acked, ticked, inherited, stray>>
  BY DEF SyncFails, history
<1>1. AfterPowerLoss' = AfterPowerLoss /\ AfterCrash' = AfterCrash BY <1>0, FilesStay
<1>2. handle' = NoHandle /\ dirty' = TRUE BY DEF SyncFails, MarkDirty
<1>3. TypeOK' BY <1>0, <1>2 DEF IInv, TypeOK
<1>4. NumbersInv' /\ FileInv' /\ OnlyStrayLost' /\ SyncedSurvives' /\ SyncInv'
  BY <1>0, <1>1, <1>2 DEF IInv, NumbersInv, FileInv, OnlyStrayLost, SyncedSurvives, SyncInv
<1> QED BY <1>3, <1>4 DEF IInv

LEMMA SyncDoneStep == ASSUME IInv, SyncDone PROVE IInv'
<1>0. UNCHANGED <<file, folded, up, next, dirty, attached, torn, acked, inherited, stray>>
  BY DEF SyncDone
<1>1. up /\ handle # NoHandle /\ handle' = NoHandle /\ ticked' = ticked \cup handle.covers
      /\ durable' = (IF handle.of = "file" THEN Len(file) ELSE durable) BY DEF SyncDone
<1>2. handle.covers \subseteq acked /\ acked \subseteq Seqs BY <1>1 DEF IInv, SyncInv, TypeOK
<1>3. TypeOK' BY <1>0, <1>1, <1>2 DEF IInv, TypeOK
<1>4. AfterCrash' = AfterCrash BY <1>0 DEF AfterCrash
<1>5. NumbersInv' /\ OnlyStrayLost' BY <1>0, <1>4 DEF IInv, NumbersInv, OnlyStrayLost
<1>6. FileInv' BY <1>0, <1>1 DEF IInv, FileInv
<1>7. CASE handle.of = "file"
  <2>1. AfterPowerLoss' = AfterCrash BY <1>1, <1>3, <1>4, <1>7, <1>0, DurableIsThere, ReadMore DEF AfterPowerLoss, AfterCrash, IInv, TypeOK
  <2>2. AfterPowerLoss \subseteq AfterPowerLoss' BY <2>1, DurableIsThere DEF IInv
  <2>3. SyncInv' BY <1>0, <1>1, <2>1 DEF IInv, SyncInv, OnlyStrayLost, Excused
  <2>4. SyncedSurvives' BY <1>0, <1>1, <1>2, <2>1, <2>2 DEF IInv, SyncedSurvives, OnlyStrayLost
  <2> QED BY <1>3, <1>5, <1>6, <2>3, <2>4 DEF IInv
<1>8. CASE handle.of # "file"
  <2>0. handle.of = "replaced" BY <1>1, <1>8 DEF IInv, TypeOK, Handle
  <2>1. AfterPowerLoss' = AfterPowerLoss BY <1>0, <1>1, <1>8 DEF AfterPowerLoss
  <2>2. SyncInv' BY <1>0, <1>1, <2>0, <2>1 DEF IInv, SyncInv, Excused
  <2>3. SyncedSurvives' BY <1>0, <1>1, <2>0, <2>1 DEF IInv, SyncedSurvives, SyncInv, Excused
  <2> QED BY <1>3, <1>5, <1>6, <2>2, <2>3 DEF IInv
<1> QED BY <1>7, <1>8

LEMMA CrashStep == ASSUME IInv, Crash PROVE IInv'
<1>0. UNCHANGED <<file, durable, folded, acked, ticked, inherited, stray>> BY DEF Crash, history
<1>1. AfterPowerLoss' = AfterPowerLoss /\ AfterCrash' = AfterCrash BY <1>0, FilesStay
<1>2. ~up' BY DEF Crash, Halt
<1>3. 1 \in 1..MaxSeq + 1 OBVIOUS
<1>4. TypeOK' BY <1>0, <1>3 DEF IInv, TypeOK, Crash, Halt
<1>5. NumbersInv' /\ FileInv' /\ OnlyStrayLost' /\ SyncedSurvives' /\ SyncInv'
  BY <1>0, <1>1, <1>2 DEF IInv, NumbersInv, FileInv, OnlyStrayLost, SyncedSurvives, SyncInv
<1> QED BY <1>4, <1>5 DEF IInv

LEMMA FoldStep == ASSUME IInv, Fold PROVE IInv'
<1>0. UNCHANGED <<file, durable, up, next, dirty, attached, handle, torn, acked, ticked, inherited, stray>>
  BY DEF Fold, mem, history
<1>1. PICK w \in folded + 1 .. next - 1 : folded' = w BY DEF Fold
<1>2. folded \in Nat /\ next \in 1..MaxSeq + 1 BY DEF IInv, TypeOK
<1>3. folded' \in 0..MaxSeq /\ folded' < next /\ 1..folded \subseteq 1..folded' BY <1>1, <1>2
<1>4. AfterPowerLoss \subseteq AfterPowerLoss' /\ AfterCrash \subseteq AfterCrash'
  BY <1>0, <1>3 DEF AfterPowerLoss, AfterCrash
<1>5. TypeOK' BY <1>0, <1>3 DEF IInv, TypeOK
<1>6. NumbersInv' /\ FileInv' BY <1>0, <1>3 DEF IInv, NumbersInv, FileInv
<1>7. OnlyStrayLost' /\ SyncedSurvives' BY <1>0, <1>4 DEF IInv, OnlyStrayLost, SyncedSurvives
<1>8. SyncInv' BY <1>0, <1>4 DEF IInv, SyncInv, Excused
<1> QED BY <1>5, <1>6, <1>7, <1>8 DEF IInv

(* What is written goes to the end: nothing that was there is lost.        *)
LEMMA WrittenAtEnd ==
  ASSUME IInv, up, next <= MaxSeq, NEW whole \in BOOLEAN, Written(whole), durable' = durable, folded' = folded
  PROVE  /\ file' \in Seq(Frame) /\ durable' \in 0..Len(file') /\ Ascends(file')
         /\ \A i \in 1..Len(file') : file'[i].seq <= next
         /\ \A i \in 1..Len(file') : file'[i].whole => file'[i].seq < next \/ (whole /\ attached /\ file'[i].seq = next)
         /\ AfterPowerLoss' = AfterPowerLoss /\ AfterCrash \subseteq AfterCrash'
         /\ attached /\ AllWhole(file) /\ whole => AllWhole(file') /\ next \in AfterCrash'
         /\ ~attached => file' = file
<1>0. /\ file \in Seq(Frame) /\ durable \in 0..Len(file) /\ next \in Seqs /\ folded \in Nat
      /\ Ascends(file) /\ \A i \in 1..Len(file) : file[i].seq <= next /\ (file[i].whole => file[i].seq < next)
  BY DEF IInv, TypeOK, NumbersInv, Seqs
<1>1. CASE ~attached
  <2>1. file' = file BY <1>1 DEF Written
  <2> QED BY <1>0, <1>1, <2>1 DEF AfterPowerLoss, AfterCrash
<1>2. CASE attached
  <2> DEFINE x == [seq |-> next, whole |-> whole]
             g == Append(file, x)
  <2>1. x \in Frame /\ x.seq = next /\ x.whole = whole BY <1>0 DEF Frame
  <2> HIDE DEF x
  <2>2. file' = g BY <1>2 DEF Written, x
  <2>3. g \in Seq(Frame) /\ Len(g) = Len(file) + 1 /\ (\A i \in 1..Len(file) : g[i] = file[i]) /\ g[Len(file) + 1] = x
    BY <1>0, <2>1, AppendProperties
  <2>4. Read(file) \subseteq Read(g) /\ (AllWhole(file) /\ whole => next \in Read(g))
    BY <1>0, <2>1, ReadAppend
  <2> HIDE DEF g
  <2>5. ASSUME NEW i \in 1..Len(g)
        PROVE  (i \in 1..Len(file) /\ g[i] = file[i]) \/ (i = Len(file) + 1 /\ g[i] = x)
    <3>1. i \in 1..Len(file) \/ i = Len(file) + 1 BY <1>0, <2>3
    <3> QED BY <2>3, <3>1
  <2>6. \A i \in 1..Len(g) : g[i].seq <= next BY <1>0, <2>1, <2>5 DEF Seqs
  <2>7. \A i \in 1..Len(g) : g[i].whole => g[i].seq < next \/ (whole /\ attached /\ g[i].seq = next)
    BY <1>0, <1>2, <2>1, <2>5
  <2>8. Ascends(g)
    <3> SUFFICES ASSUME NEW i \in 1..Len(g), NEW j \in 1..Len(g), i <= j PROVE g[i].seq <= g[j].seq
      BY DEF Ascends
    <3>1. CASE j \in 1..Len(file)
      <4>1. i \in 1..Len(file) BY <3>1, <1>0
      <4> QED BY <4>1, <3>1, <2>3, <1>0 DEF Ascends
    <3>2. CASE j = Len(file) + 1 BY <3>2, <2>1, <2>3, <2>6
    <3> QED BY <3>1, <3>2, <2>5
  <2>9. AllWhole(file) /\ whole => AllWhole(g) BY <2>1, <2>5 DEF AllWhole
  <2>10. Read(SubSeq(g, 1, durable)) = Read(SubSeq(file, 1, durable))
    <3>1. durable \in 0..Len(g) /\ \A i \in 1..durable : g[i] = file[i] BY <1>0, <2>3
    <3>2. ASSUME NEW n PROVE n \in Read(SubSeq(g, 1, durable)) <=> n \in Read(SubSeq(file, 1, durable))
      <4>1. n \in Read(SubSeq(g, 1, durable)) <=> \E i \in 1..durable : (\A j \in 1..i : g[j].whole) /\ n = g[i].seq
        <5>1. g \in Seq(Frame) /\ durable \in 0..Len(g) BY <3>1, <2>3
        <5> QED BY <5>1, ReadPrefix
      <4>2. n \in Read(SubSeq(file, 1, durable)) <=> \E i \in 1..durable : (\A j \in 1..i : file[j].whole) /\ n = file[i].seq
        BY <1>0, ReadPrefix
      <4>3. \A i \in 1..durable : (\A j \in 1..i : g[j].whole) <=> (\A j \in 1..i : file[j].whole) BY <3>1, <1>0
      <4> QED BY <3>1, <4>1, <4>2, <4>3
    <3> QED BY <3>2
  <2>11. durable \in 0..Len(g) BY <1>0, <2>3
  <2>12. AfterPowerLoss' = AfterPowerLoss /\ AfterCrash \subseteq AfterCrash' BY <2>2, <2>4, <2>10 DEF AfterPowerLoss, AfterCrash
  <2>13. AllWhole(file) /\ whole => next \in AfterCrash' BY <2>2, <2>4 DEF AfterCrash
  <2> QED BY <1>2, <2>2, <2>3, <2>6, <2>7, <2>8, <2>9, <2>11, <2>12, <2>13
<1> QED BY <1>1, <1>2

LEMMA AppendOkStep == ASSUME IInv, AppendOk PROVE IInv'
<1>0. UNCHANGED <<durable, folded, up, attached, handle, torn, ticked, inherited>> BY DEF AppendOk
<1>1. /\ up /\ next <= MaxSeq /\ Written(TRUE) /\ next' = next + 1 /\ dirty'
      /\ acked' = acked \cup {next}
      /\ stray' = IF attached /\ ~torn THEN stray ELSE stray \cup {next}
  BY DEF AppendOk
<1>2. next \in Seqs /\ next' \in 1..MaxSeq + 1 /\ folded < next'
  BY <1>1 DEF IInv, TypeOK, NumbersInv, Seqs
<1>3. /\ file' \in Seq(Frame) /\ durable' \in 0..Len(file') /\ Ascends(file')
      /\ \A i \in 1..Len(file') : file'[i].seq <= next
      /\ AfterPowerLoss' = AfterPowerLoss /\ AfterCrash \subseteq AfterCrash'
      /\ attached /\ AllWhole(file) => AllWhole(file') /\ next \in AfterCrash'
      /\ ~attached => file' = file
  BY <1>0, <1>1, WrittenAtEnd
<1>4. TypeOK' BY <1>0, <1>1, <1>2, <1>3 DEF IInv, TypeOK
<1>5. \A i \in 1..Len(file') : file'[i].seq <= next' /\ file'[i].seq < next'
  BY <1>1, <1>2, <1>3, FramesAre DEF Seqs
<1>6. NumbersInv' BY <1>0, <1>2, <1>3, <1>5 DEF NumbersInv
<1>7. FileInv' BY <1>0, <1>1, <1>3 DEF IInv, FileInv
<1>8. OnlyStrayLost' BY <1>0, <1>1, <1>3 DEF IInv, OnlyStrayLost, FileInv
<1>9. SyncInv' BY <1>0, <1>1, <1>3 DEF IInv, SyncInv, Excused
<1>10. SyncedSurvives' BY <1>0, <1>1, <1>3 DEF IInv, SyncedSurvives
<1> QED BY <1>4, <1>6, <1>7, <1>8, <1>9, <1>10 DEF IInv

LEMMA AppendShortStep == ASSUME IInv, AppendShort PROVE IInv'
<1>0. UNCHANGED <<durable, folded, up, next, dirty, attached, handle, acked, ticked, inherited, stray>>
  BY DEF AppendShort, history
<1>1. up /\ next <= MaxSeq /\ Written(FALSE) /\ torn' BY DEF AppendShort
<1>2. /\ file' \in Seq(Frame) /\ durable' \in 0..Len(file') /\ Ascends(file')
      /\ \A i \in 1..Len(file') : file'[i].seq <= next /\ (file'[i].whole => file'[i].seq < next)
      /\ AfterPowerLoss' = AfterPowerLoss /\ AfterCrash \subseteq AfterCrash'
      /\ ~attached => file' = file
  BY <1>0, <1>1, WrittenAtEnd
<1>3. TypeOK' BY <1>0, <1>1, <1>2 DEF IInv, TypeOK
<1>4. NumbersInv' BY <1>0, <1>2 DEF IInv, NumbersInv
<1>5. FileInv' BY <1>0, <1>1, <1>2 DEF IInv, FileInv
<1>6. OnlyStrayLost' /\ SyncInv' /\ SyncedSurvives'
  BY <1>0, <1>2 DEF IInv, OnlyStrayLost, SyncInv, SyncedSurvives, Excused
<1> QED BY <1>3, <1>4, <1>5, <1>6 DEF IInv

LEMMA CrashInAppendStep == ASSUME IInv, CrashInAppend PROVE IInv'
<1>0. UNCHANGED <<durable, folded, acked, ticked, inherited, stray>> /\ ~up'
  BY DEF CrashInAppend, history, Halt
<1>1. PICK whole \in BOOLEAN : up /\ next <= MaxSeq /\ Written(whole) BY DEF CrashInAppend
<1>2. /\ file' \in Seq(Frame) /\ durable' \in 0..Len(file') /\ Ascends(file')
      /\ AfterPowerLoss' = AfterPowerLoss /\ AfterCrash \subseteq AfterCrash'
  BY <1>0, <1>1, WrittenAtEnd
<1>3. 1 \in 1..MaxSeq + 1 OBVIOUS
<1>4. TypeOK' BY <1>0, <1>2, <1>3 DEF IInv, TypeOK, CrashInAppend, Halt
<1>5. NumbersInv' /\ FileInv' /\ OnlyStrayLost' /\ SyncInv' /\ SyncedSurvives'
  BY <1>0, <1>2 DEF IInv, NumbersInv, FileInv, OnlyStrayLost, SyncInv, SyncedSurvives
<1> QED BY <1>4, <1>5 DEF IInv

LEMMA OpenStep == ASSUME IInv, Open PROVE IInv'
<1>0. UNCHANGED <<folded, acked, ticked, stray>> BY DEF Open
<1>1. /\ file' = Scanned(file)
      /\ durable' = IF durable > Len(Scanned(file)) THEN Len(Scanned(file)) ELSE durable
      /\ up' = TRUE /\ next' = NumberAfter /\ dirty' = FALSE /\ attached' = TRUE
      /\ handle' = NoHandle /\ torn' = FALSE
      /\ inherited' = inherited \cup (acked \ AfterPowerLoss)
  BY DEF Open, Truncated
<1>2. /\ file \in Seq(Frame) /\ durable \in 0..Len(file) /\ folded \in 0..MaxSeq /\ Ascends(file)
  BY DEF IInv, TypeOK, NumbersInv
<1>3. /\ Scanned(file) \in Seq(Frame) /\ Len(Scanned(file)) <= Len(file)
      /\ AllWhole(Scanned(file)) /\ Read(Scanned(file)) = Read(file)
      /\ \A i \in 1..Len(Scanned(file)) : Scanned(file)[i] = file[i]
      /\ LET e == IF durable > Len(Scanned(file)) THEN Len(Scanned(file)) ELSE durable
         IN  Read(SubSeq(Scanned(file), 1, e)) = Read(SubSeq(file, 1, durable))
  BY <1>2, ReadScanned
<1>4. AfterPowerLoss' = AfterPowerLoss /\ AfterCrash' = AfterCrash
  BY <1>0, <1>1, <1>3 DEF AfterPowerLoss, AfterCrash
<1>5. LastSeq(file) \in 0..MaxSeq /\ \A i \in 1..Len(Scanned(file)) : Scanned(file)[i].seq <= LastSeq(file)
  BY <1>2, LastIsHighest
<1>6. next' \in 1..MaxSeq + 1 /\ folded < next' /\ LastSeq(file) < next'
  BY <1>1, <1>2, <1>5 DEF NumberAfter
<1>7. \A i \in 1..Len(file') : file'[i].seq <= next' /\ file'[i].seq < next'
  BY <1>1, <1>3, <1>5, <1>6, FramesAre
<1>8. Ascends(file')
  <2> SUFFICES ASSUME NEW i \in 1..Len(file'), NEW j \in 1..Len(file'), i <= j PROVE file'[i].seq <= file'[j].seq
    BY DEF Ascends
  <2> QED BY <1>1, <1>2, <1>3 DEF Ascends
<1>9. durable' \in 0..Len(file') BY <1>1, <1>2, <1>3
<1>10. TypeOK' BY <1>0, <1>1, <1>3, <1>6, <1>9 DEF IInv, TypeOK
<1>11. NumbersInv' BY <1>0, <1>6, <1>7, <1>8 DEF NumbersInv
<1>12. FileInv' BY <1>1, <1>3 DEF FileInv
<1>13. OnlyStrayLost' /\ SyncedSurvives' BY <1>0, <1>1, <1>4 DEF IInv, OnlyStrayLost, SyncedSurvives
<1>14. SyncInv' BY <1>0, <1>1, <1>4 DEF SyncInv, Excused
<1> QED BY <1>10, <1>11, <1>12, <1>13, <1>14 DEF IInv

(* A prune leaves a whole file on stable storage, and loses nothing that   *)
(* a crash would have left.                                                *)
LEMMA PrunedSafely ==
  ASSUME IInv, Pruned, folded' = folded
  PROVE  /\ file' \in Seq(Frame) /\ durable' = Len(file') /\ durable' \in 0..Len(file')
         /\ Ascends(file') /\ AllWhole(file')
         /\ \A i \in 1..Len(file') : \E j \in 1..Len(file) : file'[i] = file[j] /\ file[j].whole
         /\ AfterCrash \subseteq AfterCrash' /\ AfterPowerLoss' = AfterCrash' /\ AfterPowerLoss \subseteq AfterPowerLoss'
<1> DEFINE g == Scanned(file)
<1>1. file \in Seq(Frame) /\ durable \in 0..Len(file) /\ Ascends(file) /\ folded \in Nat
  BY DEF IInv, TypeOK, NumbersInv
<1>2. /\ g \in Seq(Frame) /\ Len(g) <= Len(file) /\ AllWhole(g) /\ Read(g) = Read(file)
      /\ \A i \in 1..Len(g) : g[i] = file[i]
  BY <1>1, ReadScanned
<1>3. file' = Kept(g) /\ durable' = Len(Kept(g)) BY DEF Pruned
<1> HIDE DEF g
<1>4. Ascends(g)
  <2> SUFFICES ASSUME NEW i \in 1..Len(g), NEW j \in 1..Len(g), i <= j PROVE g[i].seq <= g[j].seq
    BY DEF Ascends
  <2> QED BY <1>1, <1>2 DEF Ascends
<1>5. /\ Kept(g) \in Seq(Frame) /\ AllWhole(Kept(g)) /\ Ascends(Kept(g))
      /\ \A i \in 1..Len(Kept(g)) : \E j \in 1..Len(g) : Kept(g)[i] = g[j]
      /\ \A n : n \in Read(Kept(g)) <=> n \in Read(g) /\ n > folded
  BY <1>1, <1>2, <1>4, ReadKept
<1>6. \A j \in 1..Len(g) : j \in 1..Len(file) /\ g[j] = file[j] /\ file[j].whole
  BY <1>1, <1>2 DEF AllWhole
<1>7. ASSUME NEW n \in Read(file) PROVE n \in AfterCrash'
  <2>1. n \in Nat /\ n >= 1 BY <1>1, ReadIff, FramesAre
  <2>2. n \in 1..folded \/ n \in Read(Kept(g)) BY <1>1, <1>2, <1>5, <2>1
  <2> QED BY <1>3, <2>2 DEF AfterCrash
<1>8. AfterCrash \subseteq AfterCrash' BY <1>7 DEF AfterCrash
<1>9. Len(file') \in 0..Len(file') /\ file' \in Seq(Frame) /\ durable' = Len(file') BY <1>3, <1>5
<1>10. AfterPowerLoss' = AfterCrash' BY <1>9, ReadMore DEF AfterPowerLoss, AfterCrash
<1>11. AfterPowerLoss \subseteq AfterPowerLoss' BY <1>8, <1>10, DurableIsThere DEF IInv
<1>12. \A i \in 1..Len(file') : \E j \in 1..Len(file) : file'[i] = file[j] /\ file[j].whole BY <1>3, <1>5, <1>6
<1> QED BY <1>3, <1>5, <1>8, <1>9, <1>10, <1>11, <1>12

(* Both ends of a prune.                                                   *)
LEMMA PrunedStep ==
  ASSUME IInv, Pruned, UNCHANGED <<folded, up, next, acked, ticked, inherited, stray>>,
         dirty' \in BOOLEAN, attached' \in BOOLEAN
  PROVE  IInv'
<1>1. /\ file' \in Seq(Frame) /\ durable' = Len(file') /\ durable' \in 0..Len(file')
      /\ Ascends(file') /\ AllWhole(file')
      /\ \A i \in 1..Len(file') : \E j \in 1..Len(file) : file'[i] = file[j] /\ file[j].whole
      /\ AfterCrash \subseteq AfterCrash' /\ AfterPowerLoss' = AfterCrash' /\ AfterPowerLoss \subseteq AfterPowerLoss'
  BY PrunedSafely
<1>2. /\ up /\ ~torn' /\ torn' \in BOOLEAN
      /\ handle' = IF handle = NoHandle THEN handle ELSE [handle EXCEPT !.of = "replaced"]
  BY DEF Pruned
<1>3. CASE handle = NoHandle
  <2>1. handle' = NoHandle BY <1>2, <1>3
  <2>2. SyncInv' BY <1>1, <1>3, <2>1 DEF IInv, SyncInv, OnlyStrayLost, Excused
  <2>3. TypeOK' BY <1>1, <1>2, <2>1 DEF IInv, TypeOK
  <2> QED BY <2>2, <2>3, <1>1, <1>2 DEF IInv, NumbersInv, FileInv, OnlyStrayLost, SyncedSurvives
<1>4. CASE handle # NoHandle
  <2>0. handle \in Handle BY <1>4 DEF IInv, TypeOK
  <2>1. handle' = [handle EXCEPT !.of = "replaced"] BY <1>2, <1>4
  <2>2. handle' \in Handle /\ handle'.covers = handle.covers BY <2>0, <2>1 DEF Handle
  <2>3. handle.covers \subseteq acked BY <1>2, <1>4 DEF IInv, SyncInv
  <2>4. acked \ Excused \subseteq AfterPowerLoss' BY <1>1 DEF IInv, OnlyStrayLost, Excused
  <2>5. SyncInv' BY <2>2, <2>3, <2>4 DEF SyncInv, Excused
  <2>6. TypeOK' BY <1>1, <1>2, <2>2 DEF IInv, TypeOK
  <2> QED BY <2>5, <2>6, <1>1, <1>2 DEF IInv, NumbersInv, FileInv, OnlyStrayLost, SyncedSurvives
<1> QED BY <1>3, <1>4

LEMMA PruneStep == ASSUME IInv, Prune \/ PruneReopenFails PROVE IInv'
<1>1. Pruned /\ UNCHANGED <<folded, up, next, acked, ticked, inherited, stray>>
  BY DEF Prune, PruneReopenFails, history
<1>2. dirty' \in BOOLEAN /\ attached' \in BOOLEAN BY DEF Prune, PruneReopenFails, IInv, TypeOK
<1> QED BY <1>1, <1>2, PrunedStep

(* What a power loss leaves is all on stable storage.                      *)
LEMMA PowerLossStep == ASSUME IInv, PowerLoss PROVE IInv'
<1>0. /\ file \in Seq(Frame) /\ durable \in 0..Len(file) /\ folded \in 0..MaxSeq
      /\ folded' = folded /\ Ascends(file)
  BY DEF IInv, TypeOK, NumbersInv, PowerLoss
<1>1. PICK k \in durable .. Len(file), piece \in BOOLEAN :
        file' = IF piece /\ k < Len(file)
                THEN Append(SubSeq(file, 1, k), [file[k + 1] EXCEPT !.whole = FALSE])
                ELSE SubSeq(file, 1, k)
  BY DEF PowerLoss
<1> DEFINE g == SubSeq(file, 1, k)
<1>2. k \in 0..Len(file) BY <1>0
<1>3. g \in Seq(Frame) /\ Len(g) = k /\ \A i \in 1..k : g[i] = file[i] BY <1>0, <1>2, ReadPrefix
<1> HIDE DEF g
<1>4. file' \in Seq(Frame) /\ Len(file') <= Len(file) /\ \A i \in 1..Len(file') : file'[i].seq = file[i].seq
  <2>1. CASE ~(piece /\ k < Len(file))
    <3>1. file' = g BY <1>1, <2>1 DEF g
    <3> QED BY <1>2, <1>3, <3>1
  <2>2. CASE piece /\ k < Len(file)
    <3> DEFINE x == [file[k + 1] EXCEPT !.whole = FALSE]
    <3>1. file[k + 1] \in Frame BY <1>0, <1>2, <2>2
    <3>2. x \in Frame /\ x.seq = file[k + 1].seq BY <3>1 DEF Frame
    <3> HIDE DEF x
    <3>3. file' = Append(g, x) BY <1>1, <2>2 DEF g, x
    <3>4. /\ file' \in Seq(Frame) /\ Len(file') = k + 1 /\ file'[k + 1] = x
          /\ \A i \in 1..k : file'[i] = g[i]
      BY <1>3, <3>2, <3>3, AppendProperties
    <3>5. ASSUME NEW i \in 1..Len(file') PROVE file'[i].seq = file[i].seq
      <4>1. i \in 1..k \/ i = k + 1 BY <1>2, <3>4
      <4> QED BY <1>3, <3>2, <3>4, <4>1
    <3> QED BY <1>2, <2>2, <3>4, <3>5
  <2> QED BY <2>1, <2>2
<1>5. /\ durable' = Len(file') /\ acked' = acked \cap (1..folded \cup Read(file'))
      /\ ticked' = ticked \cap acked' /\ inherited' = inherited \cap acked' /\ stray' = stray \cap acked'
      /\ up' = FALSE /\ next' = 1 /\ dirty' = FALSE /\ attached' = TRUE
      /\ handle' = NoHandle /\ torn' = FALSE
  BY DEF PowerLoss, Halt
<1>6. durable' \in 0..Len(file') /\ 1 \in 1..MaxSeq + 1 BY <1>4, <1>5
<1>7. TypeOK' BY <1>0, <1>4, <1>5, <1>6 DEF IInv, TypeOK
<1>8. AfterPowerLoss' = AfterCrash'
  <2>1. Len(file') \in 0..Len(file') BY <1>4
  <2> QED BY <1>4, <1>5, <2>1, ReadMore DEF AfterPowerLoss, AfterCrash
<1>9. acked' \subseteq AfterCrash' BY <1>0, <1>5 DEF AfterCrash
<1>10. Ascends(file')
  <2> SUFFICES ASSUME NEW i \in 1..Len(file'), NEW j \in 1..Len(file'), i <= j PROVE file'[i].seq <= file'[j].seq
    BY DEF Ascends
  <2>1. i \in 1..Len(file) /\ j \in 1..Len(file) BY <1>0, <1>4
  <2> QED BY <1>0, <1>4, <2>1 DEF Ascends
<1>11. NumbersInv' /\ FileInv' /\ SyncInv' BY <1>5, <1>10 DEF NumbersInv, FileInv, SyncInv
<1>12. OnlyStrayLost' /\ SyncedSurvives' BY <1>5, <1>8, <1>9 DEF OnlyStrayLost, SyncedSurvives
<1> QED BY <1>7, <1>11, <1>12 DEF IInv

LEMMA Stuttering == ASSUME IInv, UNCHANGED vars PROVE IInv'
<1>1. UNCHANGED <<file, durable, folded, up, next, dirty, attached, handle, torn, acked, ticked, inherited, stray>>
  BY DEF vars, mem, history
<1>2. AfterPowerLoss' = AfterPowerLoss /\ AfterCrash' = AfterCrash BY <1>1, FilesStay
<1> QED BY <1>1, <1>2
        DEF IInv, TypeOK, NumbersInv, FileInv, OnlyStrayLost, SyncInv, SyncedSurvives, Excused

LEMMA Step == IInv /\ [Next]_vars => IInv'
<1> SUFFICES ASSUME IInv, [Next]_vars PROVE IInv' OBVIOUS
<1>1. CASE Open BY <1>1, OpenStep
<1>2. CASE AppendOk BY <1>2, AppendOkStep
<1>3. CASE AppendShort BY <1>3, AppendShortStep
<1>4. CASE CrashInAppend BY <1>4, CrashInAppendStep
<1>5. CASE SyncTake BY <1>5, SyncTakeStep
<1>6. CASE SyncIdle BY <1>6, SyncIdleStep
<1>7. CASE SyncDone BY <1>7, SyncDoneStep
<1>8. CASE SyncFails BY <1>8, SyncFailsStep
<1>9. CASE Fold BY <1>9, FoldStep
<1>10. CASE Prune \/ PruneReopenFails BY <1>10, PruneStep
<1>11. CASE Crash BY <1>11, CrashStep
<1>12. CASE PowerLoss BY <1>12, PowerLossStep
<1>13. CASE UNCHANGED vars BY <1>13, Stuttering
<1> QED BY <1>1, <1>2, <1>3, <1>4, <1>5, <1>6, <1>7, <1>8, <1>9, <1>10, <1>11, <1>12, <1>13 DEF Next

LEMMA Invariant == Spec => []IInv
<1>1. Init => IInv BY Initially
<1>2. IInv /\ [Next]_vars => IInv' BY Step
<1> QED BY <1>1, <1>2, PTL DEF Spec

--------------------------------------------------------------------------------
(* Every variable keeps its type.                                          *)
THEOREM TypeCorrect == Spec => []TypeOK
<1>1. IInv => TypeOK BY DEF IInv
<1> QED BY <1>1, Invariant, PTL

(* A torn append, a failed open after a prune and a crash at any step lose *)
(* nothing that was acknowledged before them.                              *)
THEOREM OnlyStraysAreLost == Spec => []OnlyStrayLost
<1>1. IInv => OnlyStrayLost BY DEF IInv
<1> QED BY <1>1, Invariant, PTL

(* What was acknowledged before a tick that found all saved outlives a     *)
(* power loss, whatever the tick raced with (sync_if_dirty, mark_dirty).   *)
THEOREM TickedOutlivesPowerLoss == Spec => []SyncedSurvives
<1>1. IInv => SyncedSurvives BY DEF IInv
<1> QED BY <1>1, Invariant, PTL

(* An open never hands out a number that a replay would skip or a prune    *)
(* would cut (Journal::open, bump_next_seq).                               *)
THEOREM NumbersAlwaysGoOn == Spec => []NumbersGoOn
<1>1. IInv => NumbersGoOn
  <2> SUFFICES ASSUME IInv, up PROVE folded < next /\ \A n \in Read(file) : n < next
    BY DEF NumbersGoOn
  <2>1. file \in Seq(Frame) BY DEF IInv, TypeOK
  <2>2. ASSUME NEW n \in Read(file) PROVE n < next
    <3>1. PICK i \in 1..Len(file) : (\A j \in 1..i : file[j].whole) /\ n = file[i].seq BY <2>1, ReadIff
    <3>2. file[i].whole BY <2>1, <3>1
    <3> QED BY <3>1, <3>2 DEF IInv, NumbersInv
  <2> QED BY <2>2 DEF IInv, NumbersInv
<1> QED BY <1>1, Invariant, PTL
================================================================================
