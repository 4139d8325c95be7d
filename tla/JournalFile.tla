---------------------------- MODULE JournalFile -----------------------------
(***************************************************************************)
(* The append-only file behind the journal of UserData (journal.rs) and    *)
(* the background tick that fsyncs it (engine.rs, sync_journal): one write *)
(* per record, a scan that stops at the first frame that is not whole, a   *)
(* prune that writes a new file and renames it over the old one, and an    *)
(* fsync through a cloned handle outside the journal lock.                 *)
(*                                                                         *)
(* All targets share one watermark here, `folded`: what is folded is safe  *)
(* in the segments and no longer the journal's business.                   *)
(***************************************************************************)
EXTENDS Integers, Sequences, FiniteSets

CONSTANTS
  MaxSeq,    (* highest sequence number a run hands out; bounds the model  *)
  MaxTorn,   (* most torn frames in the file at once; bounds the model     *)
  Faults     (* the failures the environment may inject                    *)

FaultKinds ==
  { "short_write",   (* an append writes a part of its frame and fails     *)
    "sync_error",    (* an fsync fails                                     *)
    "reopen_error"   (* prune cannot open the file it has just renamed     *) }

ASSUME JournalAssumption == MaxSeq \in Nat /\ MaxTorn \in Nat /\ Faults \subseteq FaultKinds

Seqs == 1..MaxSeq
Frame == [seq : Seqs, whole : BOOLEAN]
Handle == [of : {"file", "replaced"}, covers : SUBSET Seqs]
NoHandle == [of |-> "none"]

VARIABLES
  file,      (* the frames under the journal's name                        *)
  durable,   (* how many of them are on stable storage                     *)
  folded,    (* watermark of the segments                                  *)
  up,        (* a Journal is open                                          *)
  next,      (* Journal.next_seq                                           *)
  dirty,     (* Journal.dirty                                              *)
  attached,  (* Journal.file is the file under the journal's name          *)
  handle,    (* the clone that sync_journal is fsyncing                    *)
  acked,     (* history: appended with Ok, not lost in a power loss        *)
  ticked,    (* history: acknowledged before a tick that found all saved   *)
  inherited, (* history: not on stable storage when a Journal was opened   *)
  torn,      (* history: an append of this Journal has left a torn frame   *)
  stray      (* history: acknowledged behind that frame, or after a prune  *)
             (* that could not open its file                               *)

mem     == <<up, next, dirty, attached, handle, torn>>
history == <<acked, ticked, inherited, stray>>
vars    == <<file, durable, folded, mem, history>>

-----------------------------------------------------------------------------
(* scan: the frames before the first one that is not whole.                *)
WholePrefix(f) == {i \in DOMAIN f : \A j \in 1..i : f[j].whole}
Scanned(f) == SubSeq(f, 1, Cardinality(WholePrefix(f)))
Read(f) == {Scanned(f)[i].seq : i \in DOMAIN Scanned(f)}
LastSeq(f) == IF Scanned(f) = <<>> THEN 0 ELSE Scanned(f)[Len(Scanned(f))].seq

(* What is safe when the process, or the machine, stops now.               *)
AfterCrash == 1..folded \cup Read(file)
AfterPowerLoss == 1..folded \cup Read(SubSeq(file, 1, durable))

Init ==
  /\ file = <<>> /\ durable = 0 /\ folded = 0
  /\ up = FALSE /\ next = 1 /\ dirty = FALSE /\ attached = TRUE /\ handle = NoHandle
  /\ acked = {} /\ ticked = {} /\ inherited = {}
  /\ torn = FALSE /\ stray = {}

(* Mutant: the torn tail stays in the file.                                *)
KeepTail(f) == f

Truncated(f) == Scanned(f)

(* Mutant: numbering goes on from the last record of the file alone.       *)
NumberAfterTail == LastSeq(file) + 1

(* Journal::open numbers after the last record, bump_next_seq lifts that   *)
(* above the watermarks the engine knows.                                  *)
NumberAfter == IF LastSeq(file) > folded THEN LastSeq(file) + 1 ELSE folded + 1

Open ==
  /\ ~up
  /\ file' = Truncated(file)
  /\ durable' = IF durable > Len(file') THEN Len(file') ELSE durable
  /\ up' = TRUE /\ next' = NumberAfter /\ dirty' = FALSE /\ attached' = TRUE
  /\ handle' = NoHandle /\ torn' = FALSE
  /\ inherited' = inherited \cup (acked \ AfterPowerLoss)
  /\ UNCHANGED <<folded, acked, ticked, stray>>

Halt ==
  /\ up' = FALSE /\ next' = 1 /\ dirty' = FALSE /\ attached' = TRUE
  /\ handle' = NoHandle /\ torn' = FALSE

-----------------------------------------------------------------------------
(* Journal::append; through a handle that is no longer attached it writes  *)
(* into a file nobody can open again.                                      *)
Written(whole) ==
  file' = IF attached THEN Append(file, [seq |-> next, whole |-> whole]) ELSE file

AppendOk ==
  /\ up /\ next <= MaxSeq
  /\ Written(TRUE)
  /\ next' = next + 1 /\ dirty' = TRUE
  /\ acked' = acked \cup {next}
  /\ stray' = IF attached /\ ~torn THEN stray ELSE stray \cup {next}
  /\ UNCHANGED <<durable, folded, up, attached, handle, torn, ticked, inherited>>

(* write_all fails after a part of the frame: the part stays.              *)
AppendShort ==
  /\ "short_write" \in Faults
  /\ up /\ next <= MaxSeq
  /\ Cardinality({i \in DOMAIN file : ~file[i].whole}) < MaxTorn
  /\ Written(FALSE)
  /\ torn' = TRUE
  /\ UNCHANGED <<durable, folded, up, next, dirty, attached, handle, history>>

(* The process dies in the write or before its caller hears of it.         *)
CrashInAppend ==
  /\ up /\ next <= MaxSeq
  /\ \E whole \in BOOLEAN : Written(whole)
  /\ Halt
  /\ UNCHANGED <<durable, folded, history>>

-----------------------------------------------------------------------------
(* sync_journal: take the handle under the journal lock, fsync without it. *)
SyncTake ==
  /\ up /\ handle = NoHandle /\ dirty
  /\ handle' = [of |-> IF attached THEN "file" ELSE "replaced", covers |-> acked]
  /\ dirty' = FALSE
  /\ UNCHANGED <<file, durable, folded, up, next, attached, torn, history>>

(* Nothing new to save: the tick is done.                                  *)
SyncIdle ==
  /\ up /\ handle = NoHandle /\ ~dirty
  /\ ticked' = ticked \cup acked
  /\ UNCHANGED <<file, durable, folded, mem, acked, inherited, stray>>

SyncDone ==
  /\ up /\ handle # NoHandle
  /\ durable' = IF handle.of = "file" THEN Len(file) ELSE durable
  /\ ticked' = ticked \cup handle.covers
  /\ handle' = NoHandle
  /\ UNCHANGED <<file, folded, up, next, dirty, attached, torn, acked, inherited, stray>>

(* Mutant: a failed fsync does not put the mark back.                      *)
KeepMark == dirty

(* mark_dirty: what the tick could not save is new again.                  *)
MarkDirty == TRUE

SyncFails ==
  /\ "sync_error" \in Faults
  /\ up /\ handle # NoHandle
  /\ handle' = NoHandle /\ dirty' = MarkDirty
  /\ UNCHANGED <<file, durable, folded, up, next, attached, torn, history>>

-----------------------------------------------------------------------------
(* A fold raises the watermark; the records come from memory.              *)
Fold ==
  /\ up
  /\ \E w \in folded + 1 .. next - 1 : folded' = w
  /\ UNCHANGED <<file, durable, mem, history>>

(* The records above the watermark: numbers ascend, so they come last.     *)
Kept(f) == SubSeq(f, Cardinality({i \in DOMAIN f : f[i].seq <= folded}) + 1, Len(f))

(* prune_before(folded + 1): under the journal lock the kept records go to *)
(* a new file, which is fsynced and renamed over the old one.              *)
Pruned ==
  /\ up
  /\ file' = Kept(Scanned(file))
  /\ durable' = Len(file')
  /\ handle' = IF handle = NoHandle THEN handle ELSE [handle EXCEPT !.of = "replaced"]
  /\ torn' = FALSE

Prune ==
  /\ Pruned
  /\ attached' = TRUE /\ dirty' = FALSE
  /\ UNCHANGED <<folded, up, next, history>>

(* Opening the renamed file fails: the old handle stays in use.            *)
PruneReopenFails ==
  /\ "reopen_error" \in Faults
  /\ Pruned
  /\ attached' = FALSE
  /\ UNCHANGED <<folded, up, next, dirty, history>>

-----------------------------------------------------------------------------
Crash == up /\ Halt /\ UNCHANGED <<file, durable, folded, history>>

(* The machine stops: of what was not fsynced a prefix is left, perhaps    *)
(* with a piece of the next frame.                                         *)
PowerLoss ==
  /\ \E k \in durable .. Len(file), piece \in BOOLEAN :
       file' = IF piece /\ k < Len(file)
               THEN Append(SubSeq(file, 1, k), [file[k + 1] EXCEPT !.whole = FALSE])
               ELSE SubSeq(file, 1, k)
  /\ durable' = Len(file')
  /\ acked' = acked \cap (1..folded \cup Read(file'))
  /\ ticked' = ticked \cap acked'
  /\ inherited' = inherited \cap acked' /\ stray' = stray \cap acked'
  /\ Halt
  /\ UNCHANGED folded

Next ==
  \/ Open \/ AppendOk \/ AppendShort \/ CrashInAppend
  \/ SyncTake \/ SyncIdle \/ SyncDone \/ SyncFails
  \/ Fold \/ Prune \/ PruneReopenFails
  \/ Crash \/ PowerLoss

Spec == Init /\ [][Next]_vars

(* The tick thread keeps running, and its fsyncs do not fail forever.      *)
FairSpec == Spec /\ WF_vars(SyncTake) /\ SF_vars(SyncDone)

-----------------------------------------------------------------------------
(* Every variable has its type.                                            *)
TypeOK ==
  /\ file \in Seq(Frame) /\ durable \in 0..Len(file) /\ folded \in 0..MaxSeq
  /\ up \in BOOLEAN /\ next \in 1..MaxSeq + 1 /\ dirty \in BOOLEAN
  /\ attached \in BOOLEAN /\ torn \in BOOLEAN /\ handle \in Handle \cup {NoHandle}
  /\ acked \subseteq Seqs /\ ticked \subseteq Seqs /\ inherited \subseteq Seqs
  /\ stray \subseteq Seqs

(* A torn append and a prune that cannot open its file lose nothing that   *)
(* was acknowledged before them, nor after the next prune or open.         *)
OnlyStrayLost == acked \ stray \subseteq AfterCrash

(* A record acknowledged by this engine before a tick that returned        *)
(* without an error is on stable storage: the dirty flag, the handle taken *)
(* before the fsync, a failing fsync and a prune in between do not lose it *)
(* (journal.rs, sync_if_dirty; design 3.2).                                *)
SyncedSurvives == ticked \ (inherited \cup stray) \subseteq AfterPowerLoss

(* The next number is above the watermark and every record of the file: a  *)
(* record numbered below would be skipped by a replay or cut by a prune.   *)
NumbersGoOn == up => folded < next /\ \A n \in Read(file) : n < next

(* While the engine runs, an acknowledged record gets to stable storage or *)
(* into a segment.                                                         *)
EventuallyDurable ==
  \A n \in Seqs : (up /\ n \in acked \ (inherited \cup stray))
                     ~> (~up \/ n \in AfterPowerLoss)
=============================================================================
