----------------------------- MODULE TextTarget -----------------------------
(***************************************************************************)
(* A table target whose truth is a text file the user may edit (engine.rs, *)
(* text/fold.rs; temporary words, frequencies), with the edit session of   *)
(* wind-store (external_edit.rs).  The engine folds pending operations     *)
(* into the file by key, rebuilds the segment from the file, and records   *)
(* in its state file the folded watermark and the fingerprint of the file. *)
(*                                                                         *)
(* An operation is its sequence number.  A content is the user's last edit *)
(* in it and how often each operation has been applied to it: counts are   *)
(* added, so twice is wrong.  A fingerprint is the content itself.         *)
(***************************************************************************)
EXTENDS Integers, FiniteSets

CONSTANTS
  MaxSeq,    (* highest sequence number a run hands out; bounds the model  *)
  MaxEdit,   (* most edits a run makes; bounds the model                   *)
  Faults     (* what the environment may do besides                        *)

FaultKinds ==
  { "bad_save",       (* the user saves a file that does not parse         *)
    "crash",          (* the process stops between folds                   *)
    "crash_in_job",   (* the process dies in the middle of a fold          *)
    "io_error",       (* a step after the commit of the text fails         *)
    "late_save",      (* a save after the last look at the file, before    *)
                      (* the rename                                        *)
    "restore",        (* the user deletes the file or puts the previous    *)
                      (* version back                                      *)
    "open_unheld",    (* an editor opens the file without an edit session  *)
    "write_in_begin", (* a write between the emptiness check of begin_edit *)
                      (* and the creation of the file                      *)
    "segment_rot",    (* the segment cannot be opened                      *)
    "state_rot"       (* the state file is unreadable                      *) }

ASSUME BoundsAssumption == MaxSeq \in Nat \ {0} /\ MaxEdit \in Nat
ASSUME FaultsAssumption == Faults \subseteq FaultKinds

Op == 1..MaxSeq
Content == [is : {"missing", "good", "bad"}, edit : 0..MaxEdit, ops : [Op -> 0..2]]
Missing == [is |-> "missing", edit |-> 0, ops |-> [s \in Op |-> 0]]
In(c) == {s \in Op : c.ops[s] > 0}

None == [is |-> "none"]
NoSegment == [st |-> "none", max |-> 0, text |-> Missing]
Segment == [st : {"none", "ok", "broken"}, max : 0..MaxSeq, text : Content]
State == [folded : 0..MaxSeq, fp : Content \cup {None}]
NoState == [folded |-> 0, fp |-> None]
Caller == {"maintain", "release", "begin", "end", "bind", "user"}
Job == [pc : {"recheck", "rename", "build", "publish", "save"},
        kind : {"patch", "replace", "adopt", "sync"}, by : Caller,
        upto : 0..MaxSeq, read : Content, out : Content, gone : SUBSET Op]
NoJob == [pc |-> "idle"]

VARIABLES
  (* on disk *)
  log,      (* operations in the journal                                   *)
  file, bak,(* the text and its previous version in .backup/               *)
  seg, disk,(* the segment and the state file                              *)
  (* in memory; meaningful while up *)
  up, next, mseg, delta, state,
  bound,    (* the target is in text_bindings: no, its sync to come, yes   *)
  job,      (* what holds fold_lock                                        *)
  held,     (* the target is in `held`                                     *)
  backoff,  (* a failed fold waits for its time to retry                   *)
  first,    (* first_pending: none, younger or older than its limit        *)
  session,  (* where begin_edit / end_edit is                              *)
  releasing,(* release_text waits for fold_lock                            *)
  (* the user *)
  editor,   (* the content an editor holds, or None                        *)
  (* history *)
  edited,   (* the newest edit of the user                                 *)
  acked,    (* operations that returned Ok and that no user has removed    *)
  removed   (* operations the user has removed from the file               *)

diskVars == <<log, file, bak, seg, disk>>
viewVars == <<next, mseg, delta, state>>
timeVars == <<backoff, first>>
sessVars == <<held, session, releasing>>
history  == <<edited, acked, removed>>
vars == <<diskVars, up, viewVars, bound, job, timeVars, sessVars, editor, history>>

Larger(a, b) == IF a > b THEN a ELSE b
IsBound == bound # "no"
Pending == {s \in delta : s <= next - 1}

-----------------------------------------------------------------------------
Fresh == /\ log = {} /\ seg = NoSegment /\ disk = NoState /\ acked = {}

(* A target of a version before the text files: one operation in a segment.*)
Legacy ==
  LET old == [is |-> "good", edit |-> 0, ops |-> [s \in Op |-> IF s = 1 THEN 1 ELSE 0]]
  IN /\ log = {} /\ seg = [st |-> "ok", max |-> 1, text |-> old]
     /\ disk = [NoState EXCEPT !.folded = 1] /\ acked = {1}

Init ==
  /\ Fresh \/ Legacy
  /\ file = Missing /\ bak = Missing
  /\ up = FALSE /\ next = 1 /\ mseg = NoSegment /\ delta = {} /\ state = NoState
  /\ bound = "no" /\ job = NoJob /\ held = FALSE
  /\ backoff = FALSE /\ first = "none"
  /\ session = "closed" /\ releasing = FALSE /\ editor = None
  /\ edited = 0 /\ removed = {}

Watermark ==
  IF seg.st = "broken" THEN 0
  ELSE Larger(disk.folded, IF seg.st = "ok" THEN seg.max ELSE 0)

Replayed == {s \in log : s > Watermark}

Open ==
  /\ ~up /\ up' = TRUE
  /\ mseg' = IF seg.st = "ok" THEN seg ELSE NoSegment
  /\ delta' = Replayed
  /\ \E m \in {disk.folded, mseg'.max} \cup log :
       /\ \A x \in {disk.folded, mseg'.max} \cup log : x <= m
       /\ next' = m + 1
  /\ state' = disk
  /\ UNCHANGED <<diskVars, bound, job, timeVars, sessVars, editor, history>>

(* Everything in memory is gone; an editor begun in a session stays open   *)
(* only where editors open the file on their own as well.                  *)
Halt ==
  /\ up' = FALSE /\ next' = 1 /\ mseg' = NoSegment /\ delta' = {} /\ state' = NoState
  /\ bound' = "no" /\ job' = NoJob /\ held' = FALSE
  /\ backoff' = FALSE /\ first' = "none"
  /\ session' = "closed" /\ releasing' = FALSE
  /\ editor' = IF "open_unheld" \in Faults THEN editor ELSE None

(* begin_edit has found the view empty and has not taken fold_lock yet.    *)
Creating == session = "create" /\ (job = NoJob \/ job.by # "begin")

(* apply_batch for this target (UserData models the batch itself).         *)
Apply ==
  /\ up /\ next <= MaxSeq
  /\ Creating => "write_in_begin" \in Faults
  /\ log' = log \cup {next} /\ delta' = delta \cup {next} /\ next' = next + 1
  /\ acked' = acked \cup {next}
  /\ first' = IF first = "none" THEN "young" ELSE first
  /\ UNCHANGED <<file, bak, seg, disk, up, mseg, state, bound, job, backoff,
                 sessVars, editor, edited, removed>>

-----------------------------------------------------------------------------
(***************************************************************************)
(* Jobs run under fold_lock: read the file, prepare the new text, look at  *)
(* the file again, rename, build the segment, publish the view, save.      *)
(***************************************************************************)

(* apply_ops on the entries of the file, keys without operations untouched.*)
Patched(c, S) ==
  [is |-> "good", edit |-> c.edit,
   ops |-> [s \in Op |-> IF s \in S /\ c.ops[s] < 2 THEN c.ops[s] + 1 ELSE c.ops[s]]]

Start(kind, by, pc, out, gone) ==
  /\ job' = [pc |-> pc, kind |-> kind, by |-> by, upto |-> next - 1,
             read |-> file, out |-> out, gone |-> gone]
  /\ UNCHANGED <<diskVars, up, viewVars, timeVars, editor, history>>

(* fold_table_locked; nothing happens without pending operations, and a    *)
(* file that does not parse is left alone.                                 *)
CanPatch == delta # {} /\ file.is # "bad"
StartPatch(by) == Start("patch", by, "recheck", Patched(file, Pending), {})

(* What the caller does when its job has ended well or badly.              *)
FoldLogged(ok) ==
  IF ok THEN /\ backoff' = FALSE
             /\ first' = IF delta = {} THEN "none" ELSE first
        ELSE backoff' = TRUE /\ UNCHANGED first

Return(by, ok) ==
  /\ IF by \in {"maintain", "release"} THEN FoldLogged(ok) ELSE UNCHANGED <<backoff, first>>
  /\ bound' = IF by = "bind" /\ (ok \/ IsBound) THEN "yes" ELSE bound
  /\ session' = CASE by = "begin" /\ session = "prepare" -> "file"
                  [] by = "begin" /\ session = "create" -> IF ok THEN "hold" ELSE "closed"
                  [] by = "end" -> "release"
                  [] OTHER -> session
  /\ UNCHANGED <<held, releasing, editor>>

End(ok) == job' = NoJob /\ Return(job.by, ok)

(* Mutant: a fold during an edit session writes the file all the same.     *)
EvenIfHeld == up /\ IsBound /\ delta # {} /\ ~backoff

(* What a background fold asks of the target: not in a session, and not    *)
(* waiting after a failure.                                                *)
Foldable == up /\ IsBound /\ delta # {} /\ ~backoff /\ ~held

(* fold_text_logged.                                                       *)
FoldLoggedOnce ==
  /\ job = NoJob
  /\ IF CanPatch
     THEN StartPatch("maintain") /\ UNCHANGED <<bound, sessVars>>
     ELSE /\ Return("maintain", FALSE)
          /\ UNCHANGED <<diskVars, up, viewVars, job, history>>

(* Mutant: waiting too long is no reason to fold.                          *)
DueOnlyWhenNone == first = "none"

(* idle_text_targets: pending for too long (text_max_pending).             *)
Due == first # "young"

Maintain == Foldable /\ Due /\ FoldLoggedOnce

(* The target has been idle for 30 s, or compact() runs because the journal*)
(* is large or on dict.flush: at any time, and nobody may rely on it.      *)
IdleOrCompact == Foldable /\ FoldLoggedOnce

(* The fold that release_text tries at once.                               *)
ReleaseFold ==
  /\ up /\ releasing /\ job = NoJob
  /\ releasing' = FALSE
  /\ IF ~held /\ CanPatch
     THEN StartPatch("release") /\ UNCHANGED <<bound, held, session>>
     ELSE /\ UNCHANGED <<diskVars, up, viewVars, bound, job, held, session, editor, history>>
          /\ IF held THEN UNCHANGED <<backoff, first>> ELSE FoldLogged(delta = {})

Replace(by, edit, gone) ==
  /\ job' = [pc |-> "recheck", kind |-> "replace", by |-> by, upto |-> next - 1, read |-> file,
             out |-> [Missing EXCEPT !.is = "good", !.edit = edit], gone |-> gone]
  /\ acked' = acked \ gone
  /\ UNCHANGED <<diskVars, up, viewVars, bound, timeVars, sessVars, editor, edited, removed>>

(* replace_text_entries by the user (clear): everything known is to go.    *)
Clear ==
  /\ up /\ IsBound /\ job = NoJob /\ ~held /\ edited < MaxEdit
  /\ Replace("user", edited + 1, In(file) \cup delta)

(* bind_text: a target never owned by text whose file does not exist but   *)
(* which has data is adopted: its view becomes the text.                   *)
Adopts == /\ state.fp = None /\ file.is = "missing"
          /\ mseg.st = "ok" \/ delta # {}

Bind ==
  /\ up /\ ~IsBound /\ job = NoJob
  /\ IF Adopts
     THEN /\ Start("adopt", "bind", "recheck", Patched(mseg.text, Pending), {})
          /\ UNCHANGED <<bound, sessVars>>
     ELSE /\ bound' = "sync"
          /\ UNCHANGED <<diskVars, up, viewVars, job, timeVars, sessVars, editor, history>>

(* sync_text; unchanged, unreadable, or missing before it was ever written *)
(* it does nothing.                                                        *)
Changed == state.fp # file \/ mseg.st = "none"
CanSync ==
  /\ IsBound /\ Changed /\ file.is # "bad"
  /\ file.is = "missing" => state.fp # None

Sync(by) == CanSync /\ Start("sync", by, "build", file, {})

SyncText == up /\ job = NoJob /\ Sync("user") /\ UNCHANGED <<bound, sessVars>>

BindSync ==
  /\ up /\ bound = "sync" /\ job = NoJob
  /\ IF CanSync
     THEN Sync("bind") /\ UNCHANGED <<bound, sessVars>>
     ELSE /\ bound' = "yes"
          /\ UNCHANGED <<diskVars, up, viewVars, job, timeVars, sessVars, editor, history>>

-----------------------------------------------------------------------------
JobRest == <<up, viewVars, bound, timeVars, sessVars, editor, history>>

(* Mutant: the file is not looked at again before the rename.              *)
RecheckNothing ==
  /\ up /\ job.pc = "recheck"
  /\ job' = [job EXCEPT !.pc = "rename", !.read = Missing]
  /\ bak' = IF file.is = "good" THEN file ELSE bak
  /\ UNCHANGED <<log, file, seg, disk, JobRest>>

(* commit_text looks at the file again and keeps it as the previous        *)
(* version.  A replacement does not look, and moves a file that does not   *)
(* parse away first (preserve_if_corrupt).                                 *)
Recheck ==
  /\ up /\ job.pc = "recheck"
  /\ job.kind = "replace" \/ file = job.read
  /\ job' = [job EXCEPT !.pc = "rename", !.read = Missing]
  /\ bak' = IF file.is = "good" THEN file ELSE bak
  /\ IF file.is = "bad" THEN file' = Missing /\ edited' = 0 ELSE UNCHANGED <<file, edited>>
  /\ UNCHANGED <<log, seg, disk, up, viewVars, bound, timeVars, sessVars, editor, acked, removed>>

(* An editor has saved meanwhile.                                          *)
RecheckAborts ==
  /\ up /\ job.pc = "recheck" /\ job.kind # "replace" /\ file # job.read
  /\ End(FALSE)
  /\ UNCHANGED <<diskVars, up, viewVars, history>>

(* The file cannot be read or written.                                     *)
CommitFails ==
  /\ up /\ job.pc \in {"recheck", "rename"}
  /\ End(FALSE)
  /\ UNCHANGED <<diskVars, up, viewVars, history>>

Committed ==
  /\ file' = job.out
  /\ edited' = IF job.kind = "replace" THEN job.out.edit ELSE edited
  /\ removed' = removed \cup job.gone
  /\ UNCHANGED acked

Rename ==
  /\ up /\ job.pc = "rename"
  /\ Committed
  /\ job' = [job EXCEPT !.pc = "build"]
  /\ UNCHANGED <<log, bak, seg, disk, up, viewVars, bound, timeVars, sessVars, editor>>

(* Renamed, but the directory cannot be fsynced.                           *)
RenameFailsLate ==
  /\ "io_error" \in Faults
  /\ up /\ job.pc = "rename"
  /\ Committed /\ End(FALSE)
  /\ UNCHANGED <<log, bak, seg, disk, up, viewVars>>

(* Mutant: the watermark lies one too high.                                *)
MaxIsNext == next

NewMax == IF job.kind = "sync" THEN Larger(state.folded, mseg.max) ELSE job.upto
NewSegment == [st |-> "ok", max |-> NewMax, text |-> job.out]

Build ==
  /\ up /\ job.pc = "build"
  /\ seg' = NewSegment
  /\ job' = [job EXCEPT !.pc = "publish"]
  /\ UNCHANGED <<log, file, bak, disk, JobRest>>

BuildFails ==
  /\ "io_error" \in Faults
  /\ up /\ job.pc = "build"
  /\ UNCHANGED seg \/ seg' = NewSegment
  /\ End(FALSE)
  /\ UNCHANGED <<log, file, bak, disk, up, viewVars, history>>

(* Mutant: a sync drops what is pending.                                   *)
DropAlways == {s \in delta : s <= job.upto}

(* Mutant: the operation at the watermark stays in the delta.              *)
DropBelow == IF job.kind = "sync" THEN {} ELSE {s \in delta : s < job.upto}

Dropped == IF job.kind = "sync" THEN {} ELSE {s \in delta : s <= job.upto}

Publish ==
  /\ up /\ job.pc = "publish"
  /\ mseg' = NewSegment
  /\ delta' = delta \ Dropped
  /\ job' = [job EXCEPT !.pc = "save"]
  /\ UNCHANGED <<diskVars, up, next, state, bound, timeVars, sessVars, editor, history>>

(* Mutant: the fingerprint is that of the file now, not of what was read.  *)
FingerprintOfNow ==
  [folded |-> IF job.kind = "sync" THEN state.folded ELSE Larger(state.folded, job.upto),
   fp |-> file]

NewState ==
  [folded |-> IF job.kind = "sync" THEN state.folded ELSE Larger(state.folded, job.upto),
   fp |-> job.out]

Save ==
  /\ up /\ job.pc = "save"
  /\ state' = NewState /\ disk' = NewState
  /\ End(TRUE)
  /\ UNCHANGED <<log, file, bak, seg, up, next, mseg, delta, history>>

SaveFails ==
  /\ "io_error" \in Faults
  /\ up /\ job.pc = "save"
  /\ state' = NewState
  /\ End(FALSE)
  /\ UNCHANGED <<diskVars, up, next, mseg, delta, history>>

(* compact cuts the journal at the lowest pending operation.               *)
Prune ==
  /\ up
  /\ \E d \in delta \cup {next} :
       (\A e \in delta : d <= e) /\ log' = {s \in log : d <= s}
  /\ log' # log
  /\ UNCHANGED <<file, bak, seg, disk, job, JobRest>>

-----------------------------------------------------------------------------
(***************************************************************************)
(* begin_edit (prepare_learned_edit): fold what is pending, create a       *)
(* missing file if the view is empty, hold the target.  end_edit: sync,    *)
(* then release and fold.                                                  *)
(***************************************************************************)
SessionStep(from, to) == session = from /\ session' = to /\ UNCHANGED <<held, releasing>>
Unmoved == UNCHANGED <<diskVars, up, viewVars, bound, job, timeVars, history>>

BeginEdit ==
  /\ up /\ IsBound /\ editor = None
  /\ SessionStep("closed", "prepare") /\ Unmoved /\ UNCHANGED editor

PrepareFold ==
  /\ up /\ job = NoJob /\ session = "prepare"
  /\ IF CanPatch
     THEN StartPatch("begin") /\ UNCHANGED <<bound, sessVars>>
     ELSE SessionStep("prepare", "file") /\ Unmoved /\ UNCHANGED editor

ViewIsEmpty == In(mseg.text) \cup delta = {}

PrepareFile ==
  /\ up /\ session = "file"
  /\ \E to \in {"closed", "create", "hold"} :
       /\ SessionStep("file", to)
       /\ to = "hold" <=> file.is # "missing"
       /\ to = "create" <=> file.is = "missing" /\ ViewIsEmpty
  /\ Unmoved /\ UNCHANGED editor

PrepareCreate ==
  /\ up /\ session = "create" /\ job = NoJob
  /\ Replace("begin", edited, {})

Hold ==
  /\ up /\ session = "hold" /\ job = NoJob
  /\ session' = "open" /\ held' = TRUE /\ UNCHANGED releasing
  /\ editor' = file /\ Unmoved

EndEdit ==
  /\ up /\ session = "open" /\ job = NoJob
  /\ editor' = IF "open_unheld" \in Faults THEN editor ELSE None
  /\ session' = IF CanSync THEN "syncing" ELSE "release"
  /\ UNCHANGED <<held, releasing>> /\ Unmoved

EndSync ==
  /\ up /\ session = "syncing" /\ job = NoJob
  /\ IF CanSync
     THEN Sync("end") /\ UNCHANGED <<bound, sessVars>>
     ELSE SessionStep("syncing", "release") /\ Unmoved /\ UNCHANGED editor

Release ==
  /\ up /\ session = "release"
  /\ session' = "closed" /\ held' = FALSE
  /\ releasing' = (delta # {})
  /\ UNCHANGED editor /\ Unmoved

-----------------------------------------------------------------------------
(* The user and the environment.                                           *)
Outside == UNCHANGED <<log, seg, disk, up, viewVars, bound, job, timeVars, sessVars>>
Quiet == job.pc # "rename" \/ "late_save" \in Faults

EditorOpens ==
  /\ "open_unheld" \in Faults /\ editor = None /\ file.is # "missing"
  /\ editor' = file
  /\ UNCHANGED <<file, bak, history>> /\ Outside

(* A save keeps the operations S of what the editor had read.  Outside a   *)
(* session it also writes over what has come into the file since.          *)
Overwritten == IF held THEN {} ELSE In(file) \ In(editor)

EditorSaves(S, is) ==
  /\ editor # None /\ Quiet /\ edited < MaxEdit
  /\ S \subseteq In(editor)
  /\ is = "bad" => "bad_save" \in Faults /\ S = In(editor)
  /\ file' = [is |-> is, edit |-> edited + 1,
              ops |-> [s \in Op |-> IF s \in S THEN editor.ops[s] ELSE 0]]
  /\ editor' = file'
  /\ edited' = edited + 1
  /\ LET out == In(editor) \ S
     IN /\ acked' = acked \ (out \cup Overwritten)
        /\ removed' = (removed \cup out) \ S
  /\ UNCHANGED bak /\ Outside

EditorCloses ==
  /\ "open_unheld" \in Faults /\ editor # None /\ editor' = None
  /\ UNCHANGED <<file, bak, history>> /\ Outside

(* The user deletes the file or puts the previous version back.            *)
UserReplaces(c) ==
  /\ "restore" \in Faults
  /\ editor = None /\ session = "closed" /\ Quiet
  /\ c \in {Missing, bak} /\ file.is # "missing" /\ c # file
  /\ file' = c /\ edited' = c.edit
  /\ LET out == In(file) \ In(c)
     IN acked' = acked \ out /\ removed' = (removed \cup out) \ In(c)
  /\ UNCHANGED <<bak, editor>> /\ Outside

TimePasses ==
  /\ up
  /\ \/ backoff /\ backoff' = FALSE /\ UNCHANGED first
     \/ first = "young" /\ first' = "old" /\ UNCHANGED backoff
  /\ UNCHANGED <<diskVars, up, viewVars, bound, job, sessVars, editor, history>>

Crash ==
  /\ up
  /\ \/ job = NoJob /\ "crash" \in Faults
     \/ "crash_in_job" \in Faults
  /\ Halt /\ UNCHANGED <<diskVars, history>>

(* One of the segment and the state file is damaged, never both.           *)
SegmentRots ==
  /\ "segment_rot" \in Faults /\ ~up /\ seg.st = "ok" /\ file.is # "missing"
  /\ disk # NoState
  /\ seg' = [seg EXCEPT !.st = "broken"]
  /\ UNCHANGED <<log, file, bak, disk, JobRest, job>>

StateRots ==
  /\ "state_rot" \in Faults /\ ~up /\ disk # NoState /\ seg.st = "ok"
  /\ disk' = NoState
  /\ UNCHANGED <<log, file, bak, seg, JobRest, job>>

-----------------------------------------------------------------------------
Fold == Maintain \/ IdleOrCompact \/ ReleaseFold \/ Clear \/ Bind \/ BindSync \/ SyncText
JobStep == \/ Recheck \/ RecheckAborts \/ Rename \/ Build \/ Publish \/ Save
JobFails == \/ CommitFails \/ RenameFailsLate \/ BuildFails \/ SaveFails
Session == \/ PrepareFold \/ PrepareFile \/ PrepareCreate \/ Hold
           \/ EndEdit \/ EndSync \/ Release
User == \/ \E S \in SUBSET Op, is \in {"good", "bad"} : EditorSaves(S, is)
        \/ EditorOpens \/ EditorCloses
        \/ \E c \in {Missing, bak} : UserReplaces(c)
Environment == TimePasses \/ Crash \/ SegmentRots \/ StateRots

Next == \/ Open \/ Apply \/ Fold \/ JobStep \/ JobFails \/ Prune
        \/ BeginEdit \/ Session \/ User \/ Environment

Spec == Init /\ [][Next]_vars

(* The tick thread comes round and time passes (spawn_ticker), a thread    *)
(* that waits for fold_lock gets it, users end their edits, and neither    *)
(* saves nor failures meet every single fold.                              *)
FairSpec ==
  /\ Spec
  /\ WF_vars(Open) /\ WF_vars(TimePasses) /\ WF_vars(Bind) /\ WF_vars(JobStep)
  /\ SF_vars(Maintain) /\ SF_vars(Session) /\ SF_vars(Recheck) /\ SF_vars(Rename)

-----------------------------------------------------------------------------
(* Every variable has its type.                                            *)
TypeOK ==
  /\ log \subseteq Op /\ file \in Content /\ bak \in Content
  /\ seg \in Segment /\ disk \in State
  /\ up \in BOOLEAN /\ next \in 1..(MaxSeq + 1) /\ mseg \in Segment
  /\ delta \subseteq Op /\ state \in State
  /\ bound \in {"no", "sync", "yes"} /\ job \in Job \cup {NoJob}
  /\ held \in BOOLEAN /\ backoff \in BOOLEAN
  /\ first \in {"none", "young", "old"} /\ releasing \in BOOLEAN
  /\ session \in {"closed", "prepare", "file", "create", "hold", "open", "syncing", "release"}
  /\ editor \in Content \cup {None}
  /\ edited \in 0..MaxEdit /\ acked \subseteq Op /\ removed \subseteq Op

(* Where the truth lies: in the text, and before there ever was one in the *)
(* segment (user-data-storage-redesign 7.4).                               *)
Stored == IF file.is = "missing" /\ disk.fp = None /\ seg.st = "ok" THEN In(seg.text) ELSE In(file)

(* An acknowledged operation the user has not removed is in the text or    *)
(* will be: pending now, and replayed should the process die now.  Editing *)
(* the file in a session while learning goes on loses nothing (redesign of *)
(* external editing, 4.2).                                                 *)
NoLoss ==
  /\ acked \subseteq Stored \cup Replayed
  /\ up => acked \subseteq Stored \cup delta

(* A count is added to the text once, and no query adds it again from the  *)
(* delta on top of a segment made of that text.                            *)
NoDoubleApply ==
  /\ \A s \in Op : file.ops[s] <= 1
  /\ bound = "yes" /\ job = NoJob => In(mseg.text) \cap delta = {}

(* A row the user has deleted from the file does not come back: no record  *)
(* already folded is written again (sync_text, engine.rs:1330).            *)
NotResurrected == job = NoJob => removed \cap In(file) = {}

(* The engine never writes over a save of the user it has not read: the    *)
(* file holds the newest edit (fold_text: a save meanwhile is an error,    *)
(* and a file that does not parse is left alone).                          *)
UserEditsKept == file.edit >= edited

(* Where sync_text sees the recorded fingerprint and does nothing, the     *)
(* segment already shows the file.                                         *)
SegmentShowsText ==
  bound = "yes" /\ job = NoJob /\ mseg.st = "ok" /\ state.fp = file => mseg.text = file

(* Whatever is pending is in the text at last, or the user has removed it. *)
EventuallyInText == \A s \in Op : s \in delta ~> s \notin delta
=============================================================================
