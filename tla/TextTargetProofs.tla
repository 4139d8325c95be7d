-------------------------- MODULE TextTargetProofs --------------------------
(***************************************************************************)
(* Proofs about TextTarget, for every number of operations and edits.  No  *)
(* operation is lost under any fault of the environment, however many jobs,*)
(* saves, failures and restarts there are, but for the one order of steps  *)
(* that "write_in_begin" allows.                                           *)
(***************************************************************************)
EXTENDS TextTarget, TLAPS

LEMMA LargerIs ==
  ASSUME NEW a \in Nat, NEW b \in Nat
  PROVE  Larger(a, b) \in {a, b} /\ a <= Larger(a, b) /\ b <= Larger(a, b)
BY DEF Larger

LEMMA ConstantTypes == Missing \in Content /\ NoSegment \in Segment /\ NoState \in State
BY BoundsAssumption DEF Missing, Content, NoSegment, Segment, NoState, State, None

LEMMA PatchedType ==
  ASSUME NEW c \in Content, NEW S
  PROVE  Patched(c, S) \in Content
<1>1. \A s \in Op : c.ops[s] \in 0..2 BY DEF Content
<1>2. \A s \in Op : (IF s \in S /\ c.ops[s] < 2 THEN c.ops[s] + 1 ELSE c.ops[s]) \in 0..2
  BY <1>1
<1> QED BY <1>2 DEF Patched, Content

LEMMA ReturnType ==
  ASSUME TypeOK, NEW by, NEW ok \in BOOLEAN, Return(by, ok)
  PROVE  /\ backoff' \in BOOLEAN /\ first' \in {"none", "young", "old"}
         /\ bound' \in {"no", "sync", "yes"} /\ held' = held /\ releasing' = releasing
         /\ session' \in {"closed", "prepare", "file", "create", "hold", "open", "syncing", "release"}
         /\ editor' = editor
BY DEF TypeOK, Return, FoldLogged

LEMMA StartType ==
  ASSUME TypeOK, NEW kind \in {"patch", "adopt", "sync"}, NEW by \in Caller,
         NEW pc \in {"recheck", "build"}, NEW out \in Content, Start(kind, by, pc, out, {})
  PROVE  job' \in Job
<1>1. next - 1 \in 0..MaxSeq BY BoundsAssumption DEF TypeOK
<1>2. job' = [pc |-> pc, kind |-> kind, by |-> by, upto |-> next - 1,
              read |-> file, out |-> out, gone |-> {}]
  BY DEF Start
<1> QED BY <1>1, <1>2 DEF Job, TypeOK

LEMMA ReplaceType ==
  ASSUME TypeOK, NEW by \in Caller, NEW e \in 0..MaxEdit, NEW gone \in SUBSET Op, Replace(by, e, gone)
  PROVE  job' \in Job /\ acked' \subseteq Op
<1>1. next - 1 \in 0..MaxSeq BY BoundsAssumption DEF TypeOK
<1>2. [Missing EXCEPT !.is = "good", !.edit = e] \in Content
  BY ConstantTypes DEF Content
<1>3. job' = [pc |-> "recheck", kind |-> "replace", by |-> by, upto |-> next - 1, read |-> file,
              out |-> [Missing EXCEPT !.is = "good", !.edit = e], gone |-> gone]
  BY DEF Replace
<1> QED BY <1>1, <1>2, <1>3 DEF Job, TypeOK, Replace

LEMMA NewSegmentType ==
  ASSUME TypeOK, job \in Job
  PROVE  NewMax \in 0..MaxSeq /\ NewSegment \in Segment /\ NewState \in State
<1>1. state.folded \in 0..MaxSeq /\ mseg.max \in 0..MaxSeq /\ job.upto \in 0..MaxSeq /\ job.out \in Content
  BY DEF TypeOK, State, Segment, Job
<1> USE BoundsAssumption
<1>2. NewMax \in 0..MaxSeq BY <1>1 DEF NewMax, Larger
<1>3. (IF job.kind = "sync" THEN state.folded ELSE Larger(state.folded, job.upto)) \in 0..MaxSeq
  BY <1>1 DEF Larger
<1>4. NewSegment \in Segment BY <1>1, <1>2 DEF NewSegment, Segment
<1>5. NewState \in State BY <1>1, <1>3 DEF NewState, State
<1> QED BY <1>2, <1>4, <1>5

LEMMA HaltType ==
  ASSUME TypeOK, Halt
  PROVE  /\ up' \in BOOLEAN /\ next' \in 1..(MaxSeq + 1) /\ mseg' \in Segment
         /\ delta' \subseteq Op /\ state' \in State
         /\ bound' \in {"no", "sync", "yes"} /\ job' \in Job \cup {NoJob}
         /\ held' \in BOOLEAN /\ backoff' \in BOOLEAN
         /\ first' \in {"none", "young", "old"} /\ releasing' \in BOOLEAN
         /\ session' \in {"closed", "prepare", "file", "create", "hold", "open", "syncing", "release"}
         /\ editor' \in Content \cup {None}
<1>1. 1 \in 1..(MaxSeq + 1) BY BoundsAssumption
<1>2. NoJob \in Job \cup {NoJob} OBVIOUS
<1>3. editor' \in Content \cup {None} BY DEF TypeOK, Halt
<1> QED BY <1>1, <1>2, <1>3, ConstantTypes DEF Halt

LEMMA TypeInit == Init => TypeOK
<1> SUFFICES ASSUME Init PROVE TypeOK
  OBVIOUS
<1> DEFINE old == [is |-> "good", edit |-> 0, ops |-> [s \in Op |-> IF s = 1 THEN 1 ELSE 0]]
<1>1. 1 \in Op /\ 1 \in 0..MaxSeq /\ 0 \in 0..MaxSeq BY BoundsAssumption DEF Op
<1>2. old \in Content
  <2>1. [s \in Op |-> IF s = 1 THEN 1 ELSE 0] \in [Op -> 0..2] OBVIOUS
  <2>2. 0 \in 0..MaxEdit BY BoundsAssumption
  <2> QED BY <2>1, <2>2 DEF Content
<1>3. log \subseteq Op /\ acked \subseteq Op BY <1>1 DEF Init, Fresh, Legacy
<1>4. seg \in Segment /\ disk \in State
  <2>1. CASE Fresh BY <2>1, ConstantTypes DEF Fresh
  <2>2. CASE Legacy
    <3>1. seg = [st |-> "ok", max |-> 1, text |-> old] /\ disk = [NoState EXCEPT !.folded = 1]
      BY <2>2 DEF Legacy
    <3> QED BY <3>1, <1>1, <1>2, ConstantTypes DEF Segment, State, NoState
  <2> QED BY <2>1, <2>2 DEF Init
<1>5. job \in Job \cup {NoJob} /\ editor \in Content \cup {None} /\ file \in Content
      /\ bak \in Content /\ mseg \in Segment /\ state \in State
  BY ConstantTypes DEF Init
<1>6. next \in 1..(MaxSeq + 1) /\ edited \in 0..MaxEdit
  BY BoundsAssumption DEF Init
<1> QED BY <1>3, <1>4, <1>5, <1>6 DEF Init, TypeOK

LEMMA TypeStart ==
  ASSUME TypeOK, NEW kind \in {"patch", "adopt", "sync"}, NEW by \in Caller,
         NEW pc \in {"recheck", "build"}, NEW out \in Content, Start(kind, by, pc, out, {}),
         bound' \in {"no", "sync", "yes"}, held' \in BOOLEAN, releasing' \in BOOLEAN,
         session' = session
  PROVE  TypeOK'
<1>1. job' \in Job BY StartType
<1> QED BY <1>1 DEF Start, diskVars, viewVars, timeVars, history, TypeOK

LEMMA TypeReturn ==
  ASSUME TypeOK, NEW by, NEW ok \in BOOLEAN, Return(by, ok), job' \in Job \cup {NoJob},
         log' \subseteq Op, file' \in Content, bak' \in Content, seg' \in Segment, disk' \in State,
         state' \in State, removed' \subseteq Op, edited' \in 0..MaxEdit,
         UNCHANGED <<up, next, mseg, delta, acked>>
  PROVE  TypeOK'
<1>1. /\ backoff' \in BOOLEAN /\ first' \in {"none", "young", "old"}
      /\ bound' \in {"no", "sync", "yes"} /\ held' = held /\ releasing' = releasing
      /\ session' \in {"closed", "prepare", "file", "create", "hold", "open", "syncing", "release"}
      /\ editor' = editor
  BY ReturnType
<1> QED BY <1>1 DEF TypeOK

LEMMA TypePatch ==
  ASSUME TypeOK, NEW by \in Caller, StartPatch(by),
         bound' = bound, held' = held, releasing' \in BOOLEAN, session' = session
  PROVE  TypeOK'
<1>1. Patched(file, Pending) \in Content BY PatchedType DEF TypeOK
<1> QED BY <1>1, TypeStart DEF StartPatch, TypeOK

LEMMA TypeFold ==
  ASSUME TypeOK, FoldLoggedOnce
  PROVE  TypeOK'
<1>1. CASE CanPatch
  BY <1>1, TypePatch DEF FoldLoggedOnce, sessVars, TypeOK, Caller
<1>2. CASE ~CanPatch
  BY <1>2, TypeReturn DEF FoldLoggedOnce, diskVars, viewVars, history, TypeOK
<1> QED BY <1>1, <1>2

LEMMA TypeSync ==
  ASSUME TypeOK, NEW by \in Caller, Sync(by), UNCHANGED <<bound, sessVars>>
  PROVE  TypeOK'
BY TypeStart DEF Sync, sessVars, TypeOK

LEMMA TypeUnmoved ==
  ASSUME TypeOK, Unmoved, held' \in BOOLEAN, releasing' \in BOOLEAN, editor' \in Content \cup {None},
         session' \in {"closed", "prepare", "file", "create", "hold", "open", "syncing", "release"}
  PROVE  TypeOK'
BY DEF TypeOK, Unmoved, diskVars, viewVars, timeVars, history

LEMMA TypeCommitted ==
  ASSUME TypeOK, job \in Job, Committed
  PROVE  file' \in Content /\ edited' \in 0..MaxEdit /\ removed' \subseteq Op /\ acked' = acked
<1>1. job.out \in Content /\ job.gone \subseteq Op BY DEF Job
<1>2. job.out.edit \in 0..MaxEdit BY <1>1 DEF Content
<1> QED BY <1>1, <1>2 DEF Committed, TypeOK

LEMMA TypeOutside ==
  ASSUME TypeOK, Outside, file' \in Content, bak' \in Content, editor' \in Content \cup {None},
         edited' \in 0..MaxEdit, acked' \subseteq Op, removed' \subseteq Op
  PROVE  TypeOK'
BY DEF TypeOK, Outside, viewVars, timeVars, sessVars

(* A step of a job is taken only while there is one.                       *)
LEMMA JobThere ==
  ASSUME TypeOK, job.pc \in {"recheck", "rename", "build", "publish", "save"}
  PROVE  job \in Job
BY DEF TypeOK, NoJob

LEMMA TypeFoldStep ==
  ASSUME TypeOK, Fold
  PROVE  TypeOK'
<1>1. CASE Maintain \/ IdleOrCompact
  BY <1>1, TypeFold DEF Maintain, IdleOrCompact
<1>2. CASE ReleaseFold
  <2>1. CASE ~held /\ CanPatch
    BY <1>2, <2>1, TypePatch DEF ReleaseFold, TypeOK, Caller
  <2>2. CASE ~(~held /\ CanPatch)
    BY <1>2, <2>2 DEF ReleaseFold, FoldLogged, diskVars, viewVars, history, TypeOK
  <2> QED BY <2>1, <2>2
<1>3. CASE Clear
  <2>1. In(file) \cup delta \in SUBSET Op BY DEF In, TypeOK
  <2>2. edited + 1 \in 0..MaxEdit BY <1>3, BoundsAssumption DEF Clear, TypeOK
  <2>3. Replace("user", edited + 1, In(file) \cup delta) BY <1>3 DEF Clear
  <2>4. job' \in Job /\ acked' \subseteq Op BY <2>1, <2>2, <2>3, ReplaceType DEF Caller
  <2> QED BY <2>3, <2>4 DEF Replace, TypeOK, diskVars, viewVars, timeVars, sessVars
<1>4. CASE Bind
  <2>1. CASE Adopts
    <3>1. Patched(mseg.text, Pending) \in Content BY PatchedType DEF TypeOK, Segment
    <3> QED BY <1>4, <2>1, <3>1, TypeStart DEF Bind, sessVars, TypeOK, Caller
  <2>2. CASE ~Adopts
    BY <1>4, <2>2 DEF Bind, diskVars, viewVars, timeVars, sessVars, history, TypeOK
  <2> QED BY <2>1, <2>2
<1>5. CASE BindSync
  <2>1. CASE CanSync BY <1>5, <2>1, TypeSync DEF BindSync, Caller
  <2>2. CASE ~CanSync
    BY <1>5, <2>2 DEF BindSync, diskVars, viewVars, timeVars, sessVars, history, TypeOK
  <2> QED BY <2>1, <2>2
<1>6. CASE SyncText BY <1>6, TypeSync DEF SyncText, Caller
<1> QED BY <1>1, <1>2, <1>3, <1>4, <1>5, <1>6 DEF Fold

LEMMA TypeJobStep ==
  ASSUME TypeOK, JobStep \/ JobFails
  PROVE  TypeOK'
<1> USE DEF diskVars, viewVars, timeVars, sessVars, history, JobRest
<1>1. CASE Recheck
  <2>1. job \in Job BY <1>1, JobThere DEF Recheck
  <2>2. job' \in Job BY <1>1, <2>1, ConstantTypes DEF Recheck, Job
  <2>3. file' \in Content /\ bak' \in Content /\ edited' \in 0..MaxEdit
    BY <1>1, ConstantTypes, BoundsAssumption DEF Recheck, TypeOK
  <2> QED BY <1>1, <2>2, <2>3 DEF Recheck, TypeOK
<1>2. CASE RecheckAborts \/ CommitFails
  BY <1>2, TypeReturn DEF RecheckAborts, CommitFails, End, TypeOK
<1>3. CASE Rename
  <2>1. job \in Job BY <1>3, JobThere DEF Rename
  <2>2. job' \in Job BY <1>3, <2>1 DEF Rename, Job
  <2> QED BY <1>3, <2>1, <2>2, TypeCommitted DEF Rename, TypeOK
<1>4. CASE Build
  <2>1. job \in Job BY <1>4, JobThere DEF Build
  <2>2. job' \in Job BY <1>4, <2>1 DEF Build, Job
  <2> QED BY <1>4, <2>1, <2>2, NewSegmentType DEF Build, TypeOK
<1>5. CASE Publish
  <2>1. job \in Job BY <1>5, JobThere DEF Publish
  <2>2. job' \in Job BY <1>5, <2>1 DEF Publish, Job
  <2> QED BY <1>5, <2>1, <2>2, NewSegmentType DEF Publish, TypeOK
<1>6. CASE Save
  <2>1. job \in Job BY <1>6, JobThere DEF Save
  <2> QED BY <1>6, <2>1, NewSegmentType, TypeReturn DEF Save, End, TypeOK
<1>7. CASE RenameFailsLate
  <2>1. job \in Job BY <1>7, JobThere DEF RenameFailsLate
  <2>2. file' \in Content /\ edited' \in 0..MaxEdit /\ removed' \subseteq Op /\ acked' = acked
    BY <1>7, <2>1, TypeCommitted DEF RenameFailsLate
  <2> QED BY <1>7, <2>2, TypeReturn DEF RenameFailsLate, End, TypeOK
<1>8. CASE BuildFails
  <2>1. job \in Job BY <1>8, JobThere DEF BuildFails
  <2>2. seg' \in Segment BY <1>8, <2>1, NewSegmentType DEF BuildFails, TypeOK
  <2> QED BY <1>8, <2>2, TypeReturn DEF BuildFails, End, TypeOK
<1>9. CASE SaveFails
  <2>1. job \in Job BY <1>9, JobThere DEF SaveFails
  <2> QED BY <1>9, <2>1, NewSegmentType, TypeReturn DEF SaveFails, End, TypeOK
<1> QED BY <1>1, <1>2, <1>3, <1>4, <1>5, <1>6, <1>7, <1>8, <1>9 DEF JobStep, JobFails

LEMMA TypeSession ==
  ASSUME TypeOK, BeginEdit \/ Session
  PROVE  TypeOK'
<1>1. CASE BeginEdit
  BY <1>1, TypeUnmoved DEF BeginEdit, SessionStep, TypeOK
<1>2. CASE PrepareFold
  <2>1. CASE CanPatch BY <1>2, <2>1, TypePatch DEF PrepareFold, sessVars, TypeOK, Caller
  <2>2. CASE ~CanPatch BY <1>2, <2>2, TypeUnmoved DEF PrepareFold, SessionStep, TypeOK
  <2> QED BY <2>1, <2>2
<1>3. CASE PrepareFile
  BY <1>3, TypeUnmoved DEF PrepareFile, SessionStep, TypeOK
<1>4. CASE PrepareCreate
  <2>1. Replace("begin", edited, {}) BY <1>4 DEF PrepareCreate
  <2>2. job' \in Job /\ acked' \subseteq Op BY <2>1, ReplaceType DEF Caller, TypeOK
  <2> QED BY <2>1, <2>2 DEF Replace, TypeOK, diskVars, viewVars, timeVars, sessVars
<1>5. CASE Hold
  BY <1>5, TypeUnmoved DEF Hold, TypeOK
<1>6. CASE EndEdit
  BY <1>6, TypeUnmoved DEF EndEdit, TypeOK
<1>7. CASE EndSync
  <2>1. CASE CanSync BY <1>7, <2>1, TypeSync DEF EndSync, Caller
  <2>2. CASE ~CanSync BY <1>7, <2>2, TypeUnmoved DEF EndSync, SessionStep, TypeOK
  <2> QED BY <2>1, <2>2
<1>8. CASE Release
  BY <1>8, TypeUnmoved DEF Release, TypeOK
<1> QED BY <1>1, <1>2, <1>3, <1>4, <1>5, <1>6, <1>7, <1>8 DEF Session

LEMMA SavedType ==
  ASSUME TypeOK, NEW S \in SUBSET Op, NEW is \in {"good", "bad"}, EditorSaves(S, is)
  PROVE  file' \in Content /\ edited' \in 0..MaxEdit
<1>1. editor \in Content BY DEF EditorSaves, TypeOK
<1>2. edited + 1 \in 0..MaxEdit BY BoundsAssumption DEF EditorSaves, TypeOK
<1>3. \A s \in Op : editor.ops[s] \in 0..2 BY <1>1 DEF Content
<1>4. [s \in Op |-> IF s \in S THEN editor.ops[s] ELSE 0] \in [Op -> 0..2] BY <1>3
<1> QED BY <1>2, <1>4 DEF EditorSaves, Content

LEMMA TypeUser ==
  ASSUME TypeOK, User
  PROVE  TypeOK'
<1>1. ASSUME NEW S \in SUBSET Op, NEW is \in {"good", "bad"}, EditorSaves(S, is) PROVE TypeOK'
  <2>1. file' \in Content /\ edited' \in 0..MaxEdit BY <1>1, SavedType
  <2>2. acked' \subseteq Op /\ removed' \subseteq Op BY <1>1 DEF EditorSaves, In, TypeOK
  <2>3. editor' = file' /\ bak' = bak /\ Outside BY <1>1 DEF EditorSaves
  <2> QED BY <2>1, <2>2, <2>3, TypeOutside DEF TypeOK
<1>2. CASE EditorOpens
  BY <1>2, TypeOutside DEF EditorOpens, TypeOK, history
<1>3. CASE EditorCloses
  BY <1>3, TypeOutside DEF EditorCloses, TypeOK, history
<1>4. ASSUME NEW c \in {Missing, bak}, UserReplaces(c) PROVE TypeOK'
  <2>1. c \in Content BY <1>4, ConstantTypes DEF TypeOK
  <2>2. c.edit \in 0..MaxEdit BY <2>1 DEF Content
  <2>3. acked' \subseteq Op /\ removed' \subseteq Op BY <1>4 DEF UserReplaces, In, TypeOK
  <2>4. file' = c /\ edited' = c.edit /\ bak' = bak /\ editor' = editor /\ Outside BY <1>4 DEF UserReplaces
  <2> QED BY <2>1, <2>2, <2>3, <2>4, TypeOutside DEF TypeOK
<1> QED BY <1>1, <1>2, <1>3, <1>4 DEF User

LEMMA TypeNext == TypeOK /\ [Next]_vars => TypeOK'
<1> SUFFICES ASSUME TypeOK, [Next]_vars PROVE TypeOK'
  OBVIOUS
<1> USE DEF diskVars, viewVars, timeVars, sessVars, history
<1>1. CASE Open
  <2>1. mseg' \in Segment BY <1>1, ConstantTypes DEF Open, TypeOK
  <2>2. PICK m \in {disk.folded, mseg'.max} \cup log : next' = m + 1 BY <1>1 DEF Open
  <2>3. m \in 0..MaxSeq BY <2>1, <2>2, BoundsAssumption DEF TypeOK, State, Segment, Op
  <2>4. next' \in 1..(MaxSeq + 1) BY <2>2, <2>3, BoundsAssumption
  <2>5. delta' \subseteq Op BY <1>1 DEF Open, Replayed, TypeOK
  <2> QED BY <1>1, <2>1, <2>4, <2>5 DEF Open, TypeOK
<1>2. CASE Apply
  <2>1. next \in Op /\ next + 1 \in 1..(MaxSeq + 1) BY <1>2, BoundsAssumption DEF Apply, TypeOK, Op
  <2> QED BY <1>2, <2>1 DEF Apply, TypeOK
<1>3. CASE Fold BY <1>3, TypeFoldStep
<1>4. CASE JobStep \/ JobFails BY <1>4, TypeJobStep
<1>5. CASE Prune BY <1>5 DEF Prune, JobRest, TypeOK
<1>6. CASE BeginEdit \/ Session BY <1>6, TypeSession
<1>7. CASE User BY <1>7, TypeUser
<1>8. CASE TimePasses BY <1>8 DEF TimePasses, TypeOK
<1>9. CASE Crash BY <1>9, HaltType DEF Crash, TypeOK
<1>10. CASE SegmentRots
  <2>1. seg' \in Segment BY <1>10 DEF SegmentRots, TypeOK, Segment
  <2> QED BY <1>10, <2>1 DEF SegmentRots, JobRest, TypeOK
<1>11. CASE StateRots BY <1>11, ConstantTypes DEF StateRots, JobRest, TypeOK
<1>12. CASE UNCHANGED vars BY <1>12 DEF vars, TypeOK
<1> QED
  BY <1>1, <1>2, <1>3, <1>4, <1>5, <1>6, <1>7, <1>8, <1>9, <1>10, <1>11, <1>12 DEF Next, Environment

(* Every variable keeps its type, under every fault.                       *)
THEOREM TypeCorrect == Spec => []TypeOK
<1>1. Init => TypeOK BY TypeInit
<1>2. TypeOK /\ [Next]_vars => TypeOK' BY TypeNext
<1> QED BY <1>1, <1>2, PTL DEF Spec

(* The highest number that anything on disk or in memory counts as folded. *)
Mark == Larger(disk.folded, IF seg.st = "ok" THEN seg.max ELSE 0)
Top == Larger(Mark, Larger(mseg.max, state.folded))

(* What is still to be folded, now or by the next open.                    *)
ToCome == IF up THEN delta ELSE Replayed
(* What has come since the job under fold_lock began.                      *)
New == {s \in delta : s > job.upto}

(* A file that is not there holds nothing, and a view without a segment    *)
(* shows nothing.                                                          *)
Blank(c) == c.is = "missing" => In(c) = {}
BlankInv == Blank(file) /\ Blank(bak) /\ (mseg.st # "ok" => In(mseg.text) = {})

DownInv ==
  ~up => /\ job = NoJob /\ bound = "no" /\ held = FALSE /\ session = "closed"
         /\ releasing = FALSE /\ mseg = NoSegment /\ state = NoState

(* Sessions and holds come with a bound target; while it is held nothing   *)
(* writes the file but its editor, who knows all that is in it.            *)
HeldInv ==
  /\ session # "closed" \/ releasing => IsBound
  /\ held => /\ session \in {"open", "syncing", "release"}
             /\ job # NoJob => job.kind = "sync"
             /\ editor # None => In(file) \subseteq In(editor)

NumbersInv ==
  up => /\ delta \subseteq log /\ Top < next
        /\ \A s \in log : s < next

(* What the job under fold_lock has gathered covers all it will drop.      *)
JobInv ==
  job # NoJob =>
    /\ job.upto < next
    /\ job.kind = "sync" => IsBound /\ job.pc \in {"build", "publish", "save"}
    /\ job.kind # "sync" => Top <= job.upto
    /\ job.by = "end" => job.kind = "sync"
    /\ job.pc \in {"recheck", "rename"} => job.out.is = "good"
    /\ job.kind = "replace" => acked \subseteq New
    /\ job.kind \in {"patch", "adopt"} /\ job.pc = "recheck" => delta \ New \subseteq In(job.out)
    /\ job.kind = "patch" /\ job.pc = "recheck" =>
         IsBound /\ job.read.is # "bad" /\ In(job.read) \subseteq In(job.out)
    /\ job.kind = "adopt" /\ job.pc = "recheck" =>
         job.read.is = "missing" /\ In(mseg.text) \subseteq In(job.out)
    /\ job.pc = "rename" => acked \subseteq In(job.out) \cup New
    /\ job.kind # "sync" /\ job.pc \in {"build", "publish", "save"} =>
         acked \subseteq In(file) \cup New

(* Where what was acknowledged is. A file that is gone has been deleted by *)
(* its user, once the target is bound or was written: then only what is    *)
(* still to come is acknowledged.                                          *)
KeptInv ==
  /\ acked \subseteq Stored \cup ToCome
  /\ \A s \in acked : s <= Top => s \in Stored
  /\ file.is = "missing" =>
       /\ up => acked \subseteq In(mseg.text) \cup delta
       /\ editor # None \/ (up /\ (IsBound \/ state.fp # None)) =>
            \A s \in acked : s \in ToCome /\ s > Top
  /\ Creating => acked = {}

IInv == BlankInv /\ DownInv /\ HeldInv /\ NumbersInv /\ JobInv /\ KeptInv

(* How the marks lie: Top is the least number that bounds them all.        *)
TopFacts ==
  /\ Top \in Nat /\ Mark \in Nat /\ Mark <= Top
  /\ Watermark \in Nat /\ Watermark <= Mark
  /\ disk.folded <= Top /\ mseg.max <= Top /\ state.folded <= Top
  /\ seg.st = "ok" => seg.max <= Top
  /\ \A n \in Nat :
       disk.folded <= n /\ mseg.max <= n /\ state.folded <= n /\ (seg.st = "ok" => seg.max <= n) => Top <= n

LEMMA TopIs == TypeOK => TopFacts
<1> SUFFICES ASSUME TypeOK PROVE TopFacts
  OBVIOUS
<1>1. disk.folded \in Nat /\ mseg.max \in Nat /\ state.folded \in Nat /\ seg.max \in Nat
  BY BoundsAssumption DEF TypeOK, State, Segment
<1> DEFINE built == IF seg.st = "ok" THEN seg.max ELSE 0
<1>2. built \in Nat BY <1>1
<1>3. Mark \in {disk.folded, built} /\ disk.folded <= Mark /\ built <= Mark
  BY <1>1, <1>2, LargerIs DEF Mark
<1>4. Larger(mseg.max, state.folded) \in {mseg.max, state.folded}
      /\ mseg.max <= Larger(mseg.max, state.folded) /\ state.folded <= Larger(mseg.max, state.folded)
  BY <1>1, LargerIs
<1>5. Mark \in Nat /\ Larger(mseg.max, state.folded) \in Nat BY <1>1, <1>2, <1>3, <1>4
<1>6. Top \in {Mark, Larger(mseg.max, state.folded)} /\ Mark <= Top /\ Larger(mseg.max, state.folded) <= Top
  BY <1>5, LargerIs DEF Top
<1>7. Watermark \in {0, Mark} BY DEF Watermark, Mark
<1> HIDE DEF built
<1>8. Top \in Nat /\ Watermark \in Nat /\ Watermark <= Mark BY <1>5, <1>6, <1>7
<1>9. disk.folded <= Top /\ mseg.max <= Top /\ state.folded <= Top /\ built <= Top
  BY <1>1, <1>2, <1>3, <1>4, <1>5, <1>6, <1>8
<1>10. ASSUME NEW n \in Nat, disk.folded <= n, mseg.max <= n, state.folded <= n,
              seg.st = "ok" => seg.max <= n
       PROVE  Top <= n
  <2>1. built <= n BY <1>10 DEF built
  <2> QED BY <1>10, <2>1, <1>3, <1>4, <1>6
<1>11. seg.st = "ok" => seg.max <= Top BY <1>9 DEF built
<1> QED BY <1>5, <1>6, <1>8, <1>9, <1>10, <1>11 DEF TopFacts

LEMMA TopIsNext == TypeOK' => TopFacts'
BY TopIs, PTL

LEMMA InMissing == In(Missing) = {} /\ Missing.is = "missing" /\ NoSegment.text = Missing /\ NoSegment.st # "ok"
BY DEF In, Missing, NoSegment

LEMMA InPatched ==
  ASSUME NEW c \in Content, NEW S \in SUBSET Op
  PROVE  In(Patched(c, S)) = In(c) \cup S /\ Patched(c, S).is = "good"
<1>1. \A s \in Op : c.ops[s] \in 0..2 BY DEF Content
<1>2. \A s \in Op : Patched(c, S).ops[s] = IF s \in S /\ c.ops[s] < 2 THEN c.ops[s] + 1 ELSE c.ops[s]
  BY DEF Patched
<1>3. \A s \in Op : Patched(c, S).ops[s] > 0 <=> c.ops[s] > 0 \/ s \in S BY <1>1, <1>2
<1> QED BY <1>3 DEF In, Patched

(* A step that leaves alone what counts or holds operations.               *)
LEMMA SameData ==
  ASSUME TypeOK, TypeOK', IInv, UNCHANGED <<log, file, bak, seg, disk, up, viewVars>>,
         acked' \subseteq acked, DownInv', HeldInv', JobInv',
         IsBound' => IsBound \/ file.is # "missing" \/ state.fp # None \/ acked' = {},
         editor' # None => editor # None \/ file.is # "missing" \/ (up /\ IsBound),
         Creating' => Creating \/ acked' = {}
  PROVE  IInv'
<1> USE DEF viewVars
<1>1. Top' = Top BY DEF Top, Mark
<1>2. Stored' = Stored /\ Replayed' = Replayed /\ ToCome' = ToCome
  BY DEF Stored, Replayed, Watermark, ToCome
<1>3. BlankInv' BY DEF IInv, BlankInv, Blank, In
<1>4. NumbersInv' BY <1>1 DEF IInv, NumbersInv
<1>5. KeptInv'
  <2>1. acked' \subseteq Stored' \cup ToCome' /\ \A s \in acked' : s <= Top' => s \in Stored'
    BY <1>1, <1>2 DEF IInv, KeptInv
  <2>2. ASSUME file'.is = "missing"
        PROVE  /\ up' => acked' \subseteq In(mseg'.text) \cup delta'
               /\ editor' # None \/ (up' /\ (IsBound' \/ state'.fp # None)) =>
                    \A s \in acked' : s \in ToCome' /\ s > Top'
    <3>1. up' => acked' \subseteq In(mseg'.text) \cup delta'
      BY <2>2 DEF IInv, KeptInv
    <3>2. CASE acked' = {} BY <3>1, <3>2
    <3>3. CASE acked' # {}
      BY <2>2, <3>1, <3>3, <1>1, <1>2 DEF IInv, KeptInv
    <3> QED BY <3>2, <3>3
  <2>3. Creating' => acked' = {} BY DEF IInv, KeptInv
  <2> QED BY <2>1, <2>2, <2>3 DEF KeptInv
<1> QED BY <1>3, <1>4, <1>5 DEF IInv

(* A job begins: what it does not gather now comes to the delta later.     *)
LEMMA Begun ==
  ASSUME TypeOK, TypeOK', IInv, up, job = NoJob, job' # NoJob, job'.upto = next - 1,
         UNCHANGED <<log, file, bak, seg, disk, up, viewVars>>
  PROVE  /\ job'.upto < next' /\ Top' <= job'.upto /\ New' = {} /\ Pending = delta
         /\ delta \in SUBSET Op
<1>1. next \in Nat /\ Top \in Nat /\ Top < next /\ \A s \in delta : s \in Nat /\ s < next
  BY TopIs DEF TopFacts, TypeOK, IInv, NumbersInv, Op
<1>2. Top' = Top BY DEF Top, Mark, viewVars
<1>3. Pending = delta BY <1>1 DEF Pending
<1>4. New' = {} BY <1>1 DEF New, viewVars
<1> QED BY <1>1, <1>2, <1>3, <1>4 DEF viewVars, TypeOK

LEMMA NotNoJob == \A j : j = NoJob => j.pc = "idle"
BY DEF NoJob

LEMMA BegunPatch ==
  ASSUME TypeOK, TypeOK', IInv, NEW by \in Caller \ {"end"}, up, job = NoJob, ~held, CanPatch, StartPatch(by),
         IsBound, UNCHANGED <<bound, held, session>>, releasing' \in {FALSE, releasing}
  PROVE  IInv'
<1>1. job' = [pc |-> "recheck", kind |-> "patch", by |-> by, upto |-> next - 1,
              read |-> file, out |-> Patched(file, Pending), gone |-> {}]
  BY DEF StartPatch, Start
<1>2. UNCHANGED <<log, file, bak, seg, disk, up, viewVars, editor, edited, acked, removed>>
  BY DEF StartPatch, Start, diskVars, history
<1>3. job' # NoJob BY <1>1, NotNoJob
<1>4. /\ job'.upto < next' /\ Top' <= job'.upto /\ New' = {} /\ Pending = delta /\ delta \in SUBSET Op
  BY <1>1, <1>2, <1>3, Begun
<1>5. In(Patched(file, Pending)) = In(file) \cup delta /\ Patched(file, Pending).is = "good"
  BY <1>4, InPatched DEF TypeOK
<1>6. JobInv'
  BY <1>1, <1>2, <1>4, <1>5 DEF JobInv, IsBound, CanPatch, viewVars, In
<1>7. DownInv' /\ HeldInv'
  BY <1>1, <1>2 DEF IInv, DownInv, HeldInv, IsBound
<1>8. Creating' => Creating BY <1>2 DEF Creating
<1> QED BY <1>2, <1>6, <1>7, <1>8, SameData DEF IsBound

LEMMA BegunSync ==
  ASSUME TypeOK, TypeOK', IInv, NEW by \in Caller, up, job = NoJob, Sync(by), UNCHANGED <<bound, sessVars>>
  PROVE  IInv'
<1>1. job' = [pc |-> "build", kind |-> "sync", by |-> by, upto |-> next - 1,
              read |-> file, out |-> file, gone |-> {}]
  BY DEF Sync, Start
<1>2. UNCHANGED <<log, file, bak, seg, disk, up, viewVars, editor, edited, acked, removed>> /\ IsBound
  BY DEF Sync, CanSync, Start, diskVars, history
<1>3. job' # NoJob BY <1>1, NotNoJob
<1>4. job'.upto < next' BY <1>1, <1>2, <1>3, Begun
<1>5. JobInv' BY <1>1, <1>2, <1>4 DEF JobInv, IsBound
<1>6. DownInv' /\ HeldInv'
  BY <1>1, <1>2 DEF IInv, DownInv, HeldInv, IsBound, sessVars, In
<1>7. Creating' => Creating BY DEF Creating, sessVars
<1> QED BY <1>2, <1>5, <1>6, <1>7, SameData DEF IsBound

LEMMA BegunReplace ==
  ASSUME TypeOK, TypeOK', IInv, NEW by \in {"user", "begin"}, NEW e, NEW gone, Replace(by, e, gone),
         up, job = NoJob, ~held, acked' = {}
  PROVE  IInv'
<1>1. job' = [pc |-> "recheck", kind |-> "replace", by |-> by, upto |-> next - 1, read |-> file,
              out |-> [Missing EXCEPT !.is = "good", !.edit = e], gone |-> gone]
  BY DEF Replace
<1>2. UNCHANGED <<log, file, bak, seg, disk, up, viewVars, editor, bound, sessVars>>
  BY DEF Replace, diskVars
<1>3. job' # NoJob BY <1>1, NotNoJob
<1>4. job'.upto < next' /\ Top' <= job'.upto BY <1>1, <1>2, <1>3, Begun
<1>5. JobInv' BY <1>1, <1>2, <1>4 DEF JobInv, Missing
<1>6. DownInv' /\ HeldInv'
  BY <1>1, <1>2 DEF IInv, DownInv, HeldInv, IsBound, sessVars
<1> QED BY <1>2, <1>5, <1>6, SameData DEF IsBound

LEMMA BegunAdopt ==
  ASSUME TypeOK, TypeOK', IInv, up, job = NoJob, ~held, Adopts,
         Start("adopt", "bind", "recheck", Patched(mseg.text, Pending), {}), UNCHANGED <<bound, sessVars>>
  PROVE  IInv'
<1>1. job' = [pc |-> "recheck", kind |-> "adopt", by |-> "bind", upto |-> next - 1,
              read |-> file, out |-> Patched(mseg.text, Pending), gone |-> {}]
  BY DEF Start
<1>2. UNCHANGED <<log, file, bak, seg, disk, up, viewVars, editor, edited, acked, removed>>
  BY DEF Start, diskVars, history
<1>3. job' # NoJob BY <1>1, NotNoJob
<1>4. /\ job'.upto < next' /\ Top' <= job'.upto /\ New' = {} /\ Pending = delta /\ delta \in SUBSET Op
  BY <1>1, <1>2, <1>3, Begun
<1>5. In(Patched(mseg.text, Pending)) = In(mseg.text) \cup delta /\ Patched(mseg.text, Pending).is = "good"
  BY <1>4, InPatched DEF TypeOK, Segment
<1>6. JobInv' BY <1>1, <1>2, <1>4, <1>5 DEF JobInv, Adopts, viewVars, In
<1>7. DownInv' /\ HeldInv'
  BY <1>1, <1>2 DEF IInv, DownInv, HeldInv, IsBound, sessVars
<1>8. Creating' => Creating BY DEF Creating, sessVars
<1> QED BY <1>2, <1>6, <1>7, <1>8, SameData DEF IsBound

(* A step between jobs that moves bound, the session or the editor alone.  *)
LEMMA Between ==
  ASSUME TypeOK, TypeOK', IInv, up, UNCHANGED <<log, file, bak, seg, disk, up, viewVars, job>>,
         acked' = acked, HeldInv',
         IsBound => IsBound', IsBound' => IsBound \/ file.is # "missing" \/ state.fp # None \/ acked = {},
         editor' # None => editor # None \/ file.is # "missing" \/ IsBound,
         Creating' => Creating \/ acked = {}
  PROVE  IInv'
<1>1. Top' = Top BY DEF Top, Mark, viewVars
<1>2. New' = New BY DEF New, viewVars
<1>3. JobInv' BY <1>1, <1>2 DEF IInv, JobInv, viewVars, In
<1>4. DownInv' BY DEF DownInv
<1> QED BY <1>3, <1>4, SameData

LEMMA IFold ==
  ASSUME TypeOK, TypeOK', IInv, Fold
  PROVE  IInv'
<1>1. CASE Maintain \/ IdleOrCompact
  <2>1. Foldable /\ FoldLoggedOnce BY <1>1 DEF Maintain, IdleOrCompact
  <2>2. CASE CanPatch
    BY <2>1, <2>2, BegunPatch DEF Foldable, FoldLoggedOnce, sessVars, Caller
  <2>3. CASE ~CanPatch
    <3>1. Return("maintain", FALSE) /\ UNCHANGED <<diskVars, up, viewVars, job, history>>
      BY <2>1, <2>3 DEF FoldLoggedOnce
    <3>2. UNCHANGED <<log, file, bak, seg, disk, up, viewVars, job, bound, session, held, releasing, editor, acked>>
      BY <3>1 DEF Return, diskVars, history
    <3>3. HeldInv' BY <3>2 DEF IInv, HeldInv, IsBound, In
    <3>4. Creating' => Creating BY <3>2 DEF Creating
    <3> QED BY <2>1, <3>2, <3>3, <3>4, Between DEF Foldable, IsBound
  <2> QED BY <2>2, <2>3
<1>2. CASE ReleaseFold
  <2>1. CASE ~held /\ CanPatch
    <3>1. IsBound BY <1>2 DEF ReleaseFold, IInv, HeldInv
    <3> QED BY <1>2, <2>1, <3>1, BegunPatch DEF ReleaseFold, Caller
  <2>2. CASE ~(~held /\ CanPatch)
    <3>1. UNCHANGED <<log, file, bak, seg, disk, up, viewVars, job, bound, session, held, editor, acked>>
          /\ releasing' = FALSE /\ up
      BY <1>2, <2>2 DEF ReleaseFold, diskVars, history
    <3>2. HeldInv' BY <3>1 DEF IInv, HeldInv, IsBound, In
    <3>3. Creating' => Creating BY <3>1 DEF Creating
    <3> QED BY <3>1, <3>2, <3>3, Between DEF IsBound
  <2> QED BY <2>1, <2>2
<1>3. CASE Clear
  <2>1. acked \subseteq In(file) \cup delta
    BY <1>3 DEF Clear, IInv, KeptInv, Stored, ToCome
  <2>2. Replace("user", edited + 1, In(file) \cup delta) /\ up /\ job = NoJob /\ ~held
    BY <1>3 DEF Clear
  <2>3. acked' = {} BY <2>1, <2>2 DEF Replace
  <2> QED BY <2>2, <2>3, BegunReplace
<1>4. CASE Bind
  <2>1. ~held /\ up /\ job = NoJob /\ ~IsBound BY <1>4 DEF Bind, IInv, HeldInv
  <2>2. CASE Adopts BY <1>4, <2>1, <2>2, BegunAdopt DEF Bind
  <2>3. CASE ~Adopts
    <3>1. UNCHANGED <<log, file, bak, seg, disk, up, viewVars, job, sessVars, editor, acked>> /\ bound' = "sync"
      BY <1>4, <2>3 DEF Bind, diskVars, history
    <3>2. ASSUME file.is = "missing", state.fp = None PROVE acked = {}
      <4>1. mseg.st # "ok" /\ delta = {} BY <2>3, <3>2 DEF Adopts
      <4> QED BY <2>1, <3>2, <4>1 DEF IInv, BlankInv, KeptInv
    <3>3. HeldInv' BY <3>1 DEF IInv, HeldInv, IsBound, In, sessVars
    <3>4. Creating' => Creating BY <3>1 DEF Creating, sessVars
    <3> QED BY <2>1, <3>1, <3>2, <3>3, <3>4, Between DEF IsBound
  <2> QED BY <2>2, <2>3
<1>5. CASE BindSync
  <2>1. up /\ IsBound /\ job = NoJob BY <1>5 DEF BindSync, IsBound
  <2>2. CASE CanSync BY <1>5, <2>1, <2>2, BegunSync DEF BindSync, Caller
  <2>3. CASE ~CanSync
    <3>1. UNCHANGED <<log, file, bak, seg, disk, up, viewVars, job, sessVars, editor, acked>> /\ bound' = "yes"
      BY <1>5, <2>3 DEF BindSync, diskVars, history
    <3>2. HeldInv' BY <3>1 DEF IInv, HeldInv, IsBound, In, sessVars
    <3>3. Creating' => Creating BY <3>1 DEF Creating, sessVars
    <3> QED BY <2>1, <3>1, <3>2, <3>3, Between DEF IsBound
  <2> QED BY <2>2, <2>3
<1>6. CASE SyncText BY <1>6, BegunSync DEF SyncText, Caller
<1> QED BY <1>1, <1>2, <1>3, <1>4, <1>5, <1>6 DEF Fold

(* A step of begin_edit or end_edit that moves the session alone.          *)
LEMMA Steps ==
  ASSUME TypeOK, TypeOK', IInv, up, IsBound, Unmoved, ~held \/ held' = held \/ session' = "closed",
         held' => /\ session' \in {"open", "syncing", "release"}
                  /\ editor' # None => In(file) \subseteq In(editor')
                  /\ job # NoJob => job.kind = "sync",
         session' = "create" => acked = {}
  PROVE  IInv'
<1>1. UNCHANGED <<log, file, bak, seg, disk, up, viewVars, job, bound, acked>>
  BY DEF Unmoved, diskVars, history
<1>2. HeldInv' BY <1>1 DEF HeldInv, IsBound, In
<1> QED BY <1>1, <1>2, Between DEF IsBound, Creating

LEMMA ISession ==
  ASSUME TypeOK, TypeOK', IInv, BeginEdit \/ Session
  PROVE  IInv'
<1>1. CASE BeginEdit
  <2>1. ~held BY <1>1 DEF BeginEdit, SessionStep, IInv, HeldInv
  <2> QED BY <1>1, <2>1, Steps DEF BeginEdit, SessionStep
<1>2. CASE PrepareFold
  <2>1. IsBound /\ ~held BY <1>2 DEF PrepareFold, IInv, HeldInv
  <2>2. CASE CanPatch BY <1>2, <2>1, <2>2, BegunPatch DEF PrepareFold, sessVars, Caller
  <2>3. CASE ~CanPatch BY <1>2, <2>1, <2>3, Steps DEF PrepareFold, SessionStep
  <2> QED BY <2>2, <2>3
<1>3. CASE PrepareFile
  <2>1. IsBound /\ ~held BY <1>3 DEF PrepareFile, IInv, HeldInv
  <2>2. session' = "create" => acked = {}
    BY <1>3 DEF PrepareFile, SessionStep, ViewIsEmpty, IInv, KeptInv
  <2> QED BY <1>3, <2>1, <2>2, Steps DEF PrepareFile, SessionStep
<1>4. CASE PrepareCreate
  <2>1. ~held /\ Creating BY <1>4 DEF PrepareCreate, IInv, HeldInv, Creating
  <2>2. acked = {} BY <2>1 DEF IInv, KeptInv
  <2> QED BY <1>4, <2>1, <2>2, BegunReplace DEF PrepareCreate, Replace
<1>5. CASE Hold
  <2>1. IsBound /\ ~held BY <1>5 DEF Hold, IInv, HeldInv
  <2> QED BY <1>5, <2>1, Steps DEF Hold
<1>6. CASE EndEdit
  <2>1. IsBound BY <1>6 DEF EndEdit, IInv, HeldInv
  <2> QED BY <1>6, <2>1, Steps DEF EndEdit, IInv, HeldInv
<1>7. CASE EndSync
  <2>1. IsBound BY <1>7 DEF EndSync, IInv, HeldInv
  <2>2. CASE CanSync BY <1>7, <2>2, BegunSync DEF EndSync, Caller
  <2>3. CASE ~CanSync BY <1>7, <2>1, <2>3, Steps DEF EndSync, SessionStep, IInv, HeldInv
  <2> QED BY <2>2, <2>3
<1>8. CASE Release
  <2>1. IsBound BY <1>8 DEF Release, IInv, HeldInv
  <2> QED BY <1>8, <2>1, Steps DEF Release
<1> QED BY <1>1, <1>2, <1>3, <1>4, <1>5, <1>6, <1>7, <1>8 DEF Session

(* When a job ends it leaves the session where its caller goes on.         *)
LEMMA Ended ==
  ASSUME TypeOK, IInv, up, up' = up, job \in Job, NEW ok \in BOOLEAN, End(ok), In(file') \subseteq In(file) \/ ~held
  PROVE  /\ DownInv' /\ HeldInv' /\ JobInv' /\ editor' = editor
         /\ IsBound' => IsBound \/ ok
         /\ Creating' => Creating
<1>1. job' = NoJob /\ held' = held /\ releasing' = releasing /\ editor' = editor
  BY DEF End, Return
<1>2. bound' = IF job.by = "bind" /\ (ok \/ IsBound) THEN "yes" ELSE bound
  BY DEF End, Return
<1>3. session' = CASE job.by = "begin" /\ session = "prepare" -> "file"
                   [] job.by = "begin" /\ session = "create" -> IF ok THEN "hold" ELSE "closed"
                   [] job.by = "end" -> "release"
                   [] OTHER -> session
  BY DEF End, Return
<1>4. job # NoJob BY NotNoJob DEF Job
<1>5. job.by = "end" => IsBound BY <1>4 DEF IInv, JobInv
<1>6. IsBound => IsBound' BY <1>2 DEF IsBound
<1>7. (session' # "closed" => session # "closed" \/ job.by = "end")
      /\ (session' = "create" => session = "create" /\ job.by # "begin")
      /\ (session \in {"open", "syncing", "release"} => session' \in {"open", "syncing", "release"})
  <2>1. CASE job.by = "begin" /\ session = "prepare" BY <1>3, <2>1
  <2>2. CASE job.by = "begin" /\ session = "create" BY <1>3, <2>2
  <2>3. CASE job.by = "end" BY <1>3, <2>3
  <2>4. CASE /\ ~(job.by = "begin" /\ session = "prepare")
             /\ ~(job.by = "begin" /\ session = "create") /\ job.by # "end"
    <3>1. session' = session BY <1>3, <2>4
    <3> QED BY <2>4, <3>1
  <2> QED BY <2>1, <2>2, <2>3, <2>4
<1>8. HeldInv' BY <1>1, <1>5, <1>6, <1>7 DEF IInv, HeldInv
<1>9. DownInv' BY DEF DownInv
<1>10. JobInv' BY <1>1 DEF JobInv
<1>11. Creating' => Creating BY <1>1, <1>7 DEF Creating
<1>12. IsBound' => IsBound \/ ok BY <1>2 DEF IsBound
<1> QED BY <1>1, <1>8, <1>9, <1>10, <1>11, <1>12

LEMMA IAborts ==
  ASSUME TypeOK, TypeOK', IInv, RecheckAborts \/ CommitFails
  PROVE  IInv'
<1>1. UNCHANGED <<log, file, bak, seg, disk, up, viewVars, acked>> /\ up /\ End(FALSE)
  BY DEF RecheckAborts, CommitFails, diskVars, history
<1>2. job \in Job BY JobThere DEF RecheckAborts, CommitFails
<1>3. /\ DownInv' /\ HeldInv' /\ JobInv' /\ editor' = editor
      /\ IsBound' => IsBound
      /\ Creating' => Creating
  BY <1>1, <1>2, Ended DEF In
<1> QED BY <1>1, <1>3, SameData

(* Before the rename all that is acknowledged is in the new text or new.   *)
LEMMA Gathered ==
  ASSUME TypeOK, IInv, up, job.pc = "recheck", job.kind = "replace" \/ file = job.read
  PROVE  acked \subseteq In(job.out) \cup New
<1>1. job \in Job /\ job # NoJob BY JobThere, NotNoJob
<1>2. job.kind \in {"patch", "replace", "adopt", "sync"} BY <1>1 DEF Job
<1>3. CASE job.kind = "replace" BY <1>1, <1>3 DEF IInv, JobInv
<1>4. CASE job.kind = "patch"
  <2>1. IsBound /\ In(file) \subseteq In(job.out) /\ delta \ New \subseteq In(job.out)
    BY <1>1, <1>4 DEF IInv, JobInv
  <2>2. acked \subseteq In(file) \cup delta BY <2>1 DEF IInv, KeptInv, Stored, ToCome
  <2> QED BY <2>1, <2>2
<1>5. CASE job.kind = "adopt"
  <2>1. file.is = "missing" /\ In(mseg.text) \subseteq In(job.out) /\ delta \ New \subseteq In(job.out)
    BY <1>1, <1>5 DEF IInv, JobInv
  <2>2. acked \subseteq In(mseg.text) \cup delta BY <2>1 DEF IInv, KeptInv
  <2> QED BY <2>1, <2>2
<1>6. CASE job.kind = "sync" BY <1>1, <1>6 DEF IInv, JobInv
<1> QED BY <1>2, <1>3, <1>4, <1>5, <1>6

LEMMA IRecheck ==
  ASSUME TypeOK, TypeOK', IInv, Recheck
  PROVE  IInv'
<1>1. job \in Job /\ job # NoJob /\ job' \in Job /\ job' # NoJob
  <2>1. job \in Job /\ job # NoJob BY JobThere, NotNoJob DEF Recheck
  <2>2. job'.pc = "rename" BY <2>1 DEF Recheck, Job
  <2> QED BY <2>1, <2>2, NotNoJob DEF TypeOK
<1>2. /\ job'.pc = "rename" /\ job'.kind = job.kind /\ job'.by = job.by /\ job'.upto = job.upto
      /\ job'.out = job.out
  BY <1>1 DEF Recheck, Job
<1>3. UNCHANGED <<log, seg, disk, up, viewVars, bound, sessVars, editor, acked>> /\ up BY DEF Recheck
<1>4. acked \subseteq In(job.out) \cup New BY Gathered DEF Recheck
<1>5. job.kind # "sync" /\ job.out.is = "good" /\ Top <= job.upto /\ job.upto < next
  BY <1>1 DEF Recheck, IInv, JobInv
<1>6. Top' = Top /\ New' = New /\ Replayed' = Replayed /\ ToCome' = ToCome
  BY <1>2, <1>3 DEF Top, Mark, New, viewVars, Replayed, Watermark, ToCome
<1>7. IF file.is = "bad" THEN file' = Missing ELSE file' = file
  BY DEF Recheck
<1>8. BlankInv'
  BY <1>3, <1>7, InMissing DEF Recheck, IInv, BlankInv, Blank, viewVars, In
<1>9. DownInv' /\ HeldInv'
  BY <1>1, <1>3, <1>5 DEF DownInv, IInv, HeldInv, IsBound, sessVars
<1>10. NumbersInv' BY <1>3, <1>6 DEF IInv, NumbersInv, viewVars
<1>11. JobInv'
  <2>1. job.kind = "replace" => acked \subseteq New BY <1>1 DEF IInv, JobInv
  <2>2. job.by = "end" => job.kind = "sync" BY <1>1 DEF IInv, JobInv
  <2> QED BY <2>1, <2>2, <1>2, <1>3, <1>4, <1>5, <1>6 DEF JobInv, viewVars, In
<1>12. KeptInv'
  <2>1. Creating' => acked' = {} BY <1>1, <1>2, <1>3 DEF IInv, KeptInv, Creating, sessVars
  <2>2. CASE file' = file
    <3>1. Stored' = Stored BY <1>3, <2>2 DEF Stored
    <3> QED BY <1>3, <1>6, <2>1, <2>2, <3>1 DEF IInv, KeptInv, viewVars, In, IsBound
  <2>3. CASE file' # file
    <3>1. file.is = "bad" BY <1>7, <2>3
    <3>2. job.kind = "replace"
      BY <1>1, <3>1 DEF Recheck, IInv, JobInv, Job
    <3>3. acked \subseteq New BY <1>1, <3>2 DEF IInv, JobInv
    <3>4. \A s \in acked : s \in delta /\ s > Top /\ ~(s <= Top)
      BY <3>3, <1>5, <1>1, TopIs DEF New, TypeOK, Op, TopFacts, Job
    <3> QED BY <1>3, <1>6, <2>1, <3>4 DEF KeptInv, ToCome, viewVars
  <2> QED BY <2>2, <2>3
<1> QED BY <1>8, <1>9, <1>10, <1>11, <1>12 DEF IInv

(* After the rename the file holds what is acknowledged, or it is new.     *)
LEMMA Renamed ==
  ASSUME TypeOK, TypeOK', IInv, up, job.pc = "rename", Committed,
         UNCHANGED <<log, bak, seg, disk, up, viewVars>>,
         HeldInv', DownInv', JobInv', Creating' => Creating
  PROVE  IInv'
<1>1. job \in Job /\ job # NoJob BY JobThere, NotNoJob
<1>2. job.kind # "sync" /\ job.out.is = "good" /\ Top <= job.upto /\ job.upto < next
      /\ acked \subseteq In(job.out) \cup New
  BY <1>1 DEF IInv, JobInv
<1>3. file'.is = "good" /\ Stored' = In(job.out) /\ acked' = acked /\ In(file') = In(job.out)
  BY <1>2 DEF Committed, Stored, In
<1>4. Top' = Top /\ ToCome' = delta BY DEF Top, Mark, viewVars, ToCome
<1>5. \A s \in New : s \in delta /\ ~(s <= Top)
  BY <1>1, <1>2, TopIs DEF New, TypeOK, Op, TopFacts, Job
<1>6. KeptInv' BY <1>2, <1>3, <1>4, <1>5 DEF IInv, KeptInv
<1>7. BlankInv' BY <1>3 DEF IInv, BlankInv, Blank, viewVars, In
<1>8. NumbersInv' BY <1>4 DEF IInv, NumbersInv, viewVars
<1> QED BY <1>6, <1>7, <1>8 DEF IInv

LEMMA IRename ==
  ASSUME TypeOK, TypeOK', IInv, Rename \/ RenameFailsLate
  PROVE  IInv'
<1>1. job \in Job /\ job # NoJob /\ job.pc = "rename" /\ up /\ Committed
      /\ UNCHANGED <<log, bak, seg, disk, up, viewVars>>
  BY JobThere, NotNoJob DEF Rename, RenameFailsLate
<1>2. /\ job.kind # "sync" /\ job.out.is = "good" /\ Top <= job.upto /\ job.upto < next
      /\ acked \subseteq In(job.out) \cup New /\ (job.kind = "replace" => acked \subseteq New)
      /\ (job.by = "end" => job.kind = "sync")
  BY <1>1 DEF IInv, JobInv
<1>3. ~held BY <1>1, <1>2 DEF IInv, HeldInv
<1>4. CASE Rename
  <2>1. /\ job' = [job EXCEPT !.pc = "build"] /\ job'.pc = "build" /\ job'.kind = job.kind
        /\ job'.by = job.by /\ job'.upto = job.upto /\ job'.out = job.out
    BY <1>1, <1>4 DEF Rename, Job
  <2>2. job' # NoJob BY <2>1, NotNoJob
  <2>3. UNCHANGED <<bound, sessVars, editor, acked>> /\ file' = job.out BY <1>4 DEF Rename, Committed
  <2>4. Top' = Top /\ New' = New /\ In(file') = In(job.out)
    BY <1>1, <2>1, <2>3 DEF Top, Mark, viewVars, New, In
  <2>5. JobInv' BY <1>1, <1>2, <2>1, <2>3, <2>4 DEF JobInv, viewVars
  <2>6. HeldInv' /\ DownInv' BY <1>1, <1>3, <2>3 DEF IInv, HeldInv, DownInv, IsBound, sessVars
  <2>7. Creating' => Creating
    <3>1. session' = session /\ job'.by = job.by BY <2>1, <2>3 DEF sessVars
    <3> QED BY <1>1, <2>2, <3>1 DEF Creating
  <2> QED BY <1>1, <2>5, <2>6, <2>7, Renamed
<1>5. CASE RenameFailsLate
  <2>1. End(FALSE) BY <1>5 DEF RenameFailsLate
  <2>2. DownInv' /\ HeldInv' /\ JobInv' /\ (Creating' => Creating) BY <1>1, <1>3, <2>1, Ended
  <2> QED BY <1>1, <2>2, Renamed
<1> QED BY <1>4, <1>5

(* The highest number the segment and the state file of a job may carry.   *)
Limit == IF job.kind = "sync" THEN Top ELSE job.upto

LEMMA Landed ==
  ASSUME TypeOK, IInv, up, job.pc \in {"build", "publish", "save"}
  PROVE  /\ job \in Job /\ job # NoJob
         /\ Limit \in Nat /\ Top <= Limit /\ Limit < next
         /\ NewMax <= Limit /\ NewState.folded <= Limit /\ NewState.fp # None
         /\ NewSegment.st = "ok" /\ NewSegment.max = NewMax
         /\ acked \subseteq In(file) \cup (delta \ Dropped)
         /\ \A s \in acked : s <= Limit => s \in In(file)
         /\ file.is = "missing" => In(file) = {}
<1>1. job \in Job /\ job # NoJob BY JobThere, NotNoJob
<1>2. Top \in Nat /\ mseg.max \in Nat /\ state.folded \in Nat /\ job.upto \in Nat /\ next \in Nat
      /\ mseg.max <= Top /\ state.folded <= Top /\ \A s \in delta : s \in Nat
  BY <1>1, TopIs DEF TypeOK, Segment, State, Job, TopFacts, Op
<1>3. Top < next /\ job.upto < next /\ (job.kind # "sync" => Top <= job.upto)
  BY <1>1 DEF IInv, NumbersInv, JobInv
<1>4. Limit \in Nat /\ Top <= Limit /\ Limit < next BY <1>2, <1>3 DEF Limit
<1>5. NewMax <= Limit BY <1>2, <1>3 DEF NewMax, Limit, Larger
<1>6. NewState.folded <= Limit BY <1>2, <1>3 DEF NewState, Limit, Larger
<1>7. NewState.fp # None BY <1>1 DEF NewState, Job, Content, None
<1>8. NewSegment.st = "ok" /\ NewSegment.max = NewMax BY DEF NewSegment
<1>9. file.is = "missing" => In(file) = {} BY DEF IInv, BlankInv, Blank
<1>10. acked \subseteq In(file) \cup (delta \ Dropped) /\ \A s \in acked : s <= Limit => s \in In(file)
  <2>1. CASE job.kind = "sync"
    <3>1. Dropped = {} /\ Limit = Top /\ IsBound BY <1>1, <2>1 DEF Dropped, Limit, IInv, JobInv
    <3>2. CASE file.is = "missing"
      <4>1. \A s \in acked : s \in delta /\ s > Top BY <3>1, <3>2 DEF IInv, KeptInv, ToCome
      <4> QED BY <3>1, <4>1, <1>2
    <3>3. CASE file.is # "missing"
      <4>1. Stored = In(file) BY <3>3 DEF Stored
      <4> QED BY <3>1, <4>1 DEF IInv, KeptInv, ToCome
    <3> QED BY <3>2, <3>3
  <2>2. CASE job.kind # "sync"
    <3>1. acked \subseteq In(file) \cup New BY <1>1, <2>2 DEF IInv, JobInv
    <3>2. \A s \in New : s \in delta /\ s > job.upto BY DEF New
    <3>3. Limit = job.upto /\ Dropped = {s \in delta : s <= job.upto} BY <2>2 DEF Limit, Dropped
    <3> QED BY <3>1, <3>2, <3>3, <1>2
  <2> QED BY <2>1, <2>2
<1> QED BY <1>1, <1>4, <1>5, <1>6, <1>7, <1>8, <1>9, <1>10

(* The steps that follow the rename may advance the marks up to Limit.     *)
LEMMA Landing ==
  ASSUME TypeOK, TypeOK', IInv, up, up', job.pc \in {"build", "publish", "save"},
         UNCHANGED <<log, file, bak, next, acked, editor>>,
         delta \ Dropped \subseteq delta', delta' \subseteq delta, mseg' \in {mseg, NewSegment},
         disk'.folded <= Limit, state'.folded <= Limit, seg'.st = "ok" => seg'.max <= Limit,
         HeldInv', DownInv', JobInv', Creating' => Creating
  PROVE  IInv'
<1>1. /\ job \in Job /\ job # NoJob
      /\ Limit \in Nat /\ Top <= Limit /\ Limit < next
      /\ NewMax <= Limit /\ NewState.folded <= Limit /\ NewState.fp # None
      /\ NewSegment.st = "ok" /\ NewSegment.max = NewMax
      /\ acked \subseteq In(file) \cup (delta \ Dropped)
      /\ \A s \in acked : s <= Limit => s \in In(file)
      /\ file.is = "missing" => In(file) = {}
  BY Landed
<1>2. mseg'.max <= Limit
  <2>1. mseg.max <= Top /\ Top \in Nat /\ mseg.max \in Nat BY TopIs DEF TopFacts, TypeOK, Segment
  <2> QED BY <1>1, <2>1
<1>3. Top' <= Limit /\ Top' \in Nat BY <1>1, <1>2, TopIsNext DEF TopFacts
<1>4. \A s \in acked : s \in Nat BY DEF TypeOK, Op
<1>5. \A s \in acked : s <= Top' => s \in In(file) BY <1>1, <1>3, <1>4
<1>6. ToCome' = delta' BY DEF ToCome
<1>7. KeptInv'
  <2>1. Creating' => acked' = {} BY DEF IInv, KeptInv
  <2>2. CASE file.is = "missing"
    <3>1. \A s \in acked : s \in delta' /\ s > Top' BY <1>1, <1>3, <1>4, <1>5, <2>2
    <3>2. \A s \in acked : ~(s <= Top') BY <1>1, <1>5, <2>2
    <3> QED BY <1>6, <2>1, <3>1, <3>2 DEF KeptInv
  <2>3. CASE file.is # "missing"
    <3>1. Stored' = In(file) BY <2>3 DEF Stored, In
    <3> QED BY <1>1, <1>5, <1>6, <2>1, <2>3, <3>1 DEF KeptInv
  <2> QED BY <2>2, <2>3
<1>8. NumbersInv'
  <2>1. next \in Nat BY DEF TypeOK
  <2>2. Top' < next' BY <1>1, <1>3, <2>1
  <2> QED BY <2>2 DEF IInv, NumbersInv
<1>9. BlankInv' BY <1>1 DEF IInv, BlankInv, Blank, In
<1> QED BY <1>7, <1>8, <1>9 DEF IInv

(* A job goes on to its next step.                                         *)
LEMMA GoesOn ==
  ASSUME TypeOK, TypeOK', IInv, up, job.pc \in {"build", "publish"},
         NEW pc \in {"publish", "save"}, job' = [job EXCEPT !.pc = pc],
         UNCHANGED <<log, file, bak, next, up, acked, editor, bound, sessVars, disk, state>>,
         delta' \in {delta, delta \ Dropped}, mseg' \in {mseg, NewSegment}, seg' \in {seg, NewSegment}
  PROVE  IInv'
<1>1. /\ job \in Job /\ job # NoJob
      /\ Limit \in Nat /\ Top <= Limit /\ Limit < next
      /\ NewMax <= Limit /\ NewState.folded <= Limit /\ NewState.fp # None
      /\ NewSegment.st = "ok" /\ NewSegment.max = NewMax
      /\ acked \subseteq In(file) \cup (delta \ Dropped)
      /\ \A s \in acked : s <= Limit => s \in In(file)
      /\ file.is = "missing" => In(file) = {}
  BY Landed
<1>2. /\ job'.pc = pc /\ job'.kind = job.kind /\ job'.by = job.by /\ job'.upto = job.upto
  BY <1>1 DEF Job
<1>3. job' # NoJob BY <1>2, NotNoJob
<1>4. /\ disk.folded <= Top /\ state.folded <= Top /\ mseg.max <= Top
      /\ seg.st = "ok" => seg.max <= Top
      /\ Top \in Nat /\ disk.folded \in Nat /\ state.folded \in Nat /\ mseg.max \in Nat /\ seg.max \in Nat
  BY TopIs DEF TopFacts, TypeOK, Segment, State
<1>5. disk'.folded <= Limit /\ state'.folded <= Limit /\ mseg'.max <= Limit
  BY <1>1, <1>4
<1>6. seg'.st = "ok" => seg'.max <= Limit BY <1>1, <1>4
<1>7. Top' <= Limit BY <1>1, <1>5, <1>6, TopIsNext DEF TopFacts
<1>8. session' = session /\ held' = held /\ releasing' = releasing BY DEF sessVars
<1>9. delta \ Dropped \subseteq delta' /\ delta' \subseteq delta OBVIOUS
<1>10. job.kind # "sync" => acked \subseteq In(file) \cup New /\ (job.kind = "replace" => acked \subseteq New)
       /\ New' = New /\ Limit = job.upto
  <2>1. job.upto \in Nat /\ \A s \in delta : s \in Nat BY <1>1 DEF Job, TypeOK, Op
  <2>2. job.kind # "sync" => Dropped = {s \in delta : s <= job.upto} BY DEF Dropped
  <2>3. job.kind # "sync" => New' = New BY <2>1, <2>2, <1>2, <1>9 DEF New
  <2> QED BY <1>1, <2>3 DEF IInv, JobInv, Limit
<1>11. job.upto < next /\ (job.kind = "sync" => IsBound) /\ (job.by = "end" => job.kind = "sync")
  BY <1>1 DEF IInv, JobInv
<1>12. In(file') = In(file) BY DEF In
<1>13. JobInv' BY <1>2, <1>7, <1>10, <1>11, <1>12 DEF JobInv, IsBound
<1>14. HeldInv' /\ DownInv' BY <1>1, <1>2, <1>8 DEF IInv, HeldInv, DownInv, IsBound, In
<1>15. Creating' => Creating BY <1>1, <1>2, <1>3, <1>8 DEF Creating
<1> QED BY <1>5, <1>6, <1>9, <1>13, <1>14, <1>15, Landing

LEMMA ILanding ==
  ASSUME TypeOK, TypeOK', IInv, Build \/ BuildFails \/ Publish \/ Save \/ SaveFails
  PROVE  IInv'
<1>1. up /\ job.pc \in {"build", "publish", "save"}
  BY DEF Build, BuildFails, Publish, Save, SaveFails
<1>2. /\ job \in Job
      /\ NewMax <= Limit /\ NewState.folded <= Limit
      /\ NewSegment.st = "ok" /\ NewSegment.max = NewMax
      /\ Limit \in Nat /\ Top <= Limit
  BY <1>1, Landed
<1>3. /\ disk.folded <= Limit /\ state.folded <= Limit
      /\ seg.st = "ok" => seg.max <= Limit
  <2>1. /\ disk.folded <= Top /\ state.folded <= Top
        /\ seg.st = "ok" => seg.max <= Top
        /\ Top \in Nat /\ disk.folded \in Nat /\ state.folded \in Nat /\ seg.max \in Nat
    BY TopIs DEF TopFacts, TypeOK, Segment, State
  <2> QED BY <1>2, <2>1
<1>4. CASE Build
  BY <1>4, GoesOn DEF Build, JobRest, viewVars, history
<1>5. CASE Publish
  BY <1>5, GoesOn DEF Publish, diskVars, history
<1>6. CASE BuildFails
  <2>1. End(FALSE) /\ UNCHANGED <<log, file, bak, disk, up, viewVars, acked>> /\ seg' \in {seg, NewSegment}
    BY <1>6 DEF BuildFails, history
  <2>2. DownInv' /\ HeldInv' /\ JobInv' /\ editor' = editor /\ (Creating' => Creating)
    BY <1>1, <1>2, <2>1, Ended DEF In
  <2>3. seg'.st = "ok" => seg'.max <= Limit BY <1>2, <1>3, <2>1
  <2> QED BY <1>1, <1>3, <2>1, <2>2, <2>3, Landing DEF viewVars
<1>7. CASE Save
  <2>1. End(TRUE) /\ UNCHANGED <<log, file, bak, seg, up, next, mseg, delta, acked>>
        /\ state' = NewState /\ disk' = NewState
    BY <1>7 DEF Save, history
  <2>2. DownInv' /\ HeldInv' /\ JobInv' /\ editor' = editor /\ (Creating' => Creating)
    BY <1>1, <1>2, <2>1, Ended DEF In
  <2> QED BY <1>1, <1>2, <1>3, <2>1, <2>2, Landing
<1>8. CASE SaveFails
  <2>1. End(FALSE) /\ UNCHANGED <<log, file, bak, seg, disk, up, next, mseg, delta, acked>> /\ state' = NewState
    BY <1>8 DEF SaveFails, diskVars, history
  <2>2. DownInv' /\ HeldInv' /\ JobInv' /\ editor' = editor /\ (Creating' => Creating)
    BY <1>1, <1>2, <2>1, Ended DEF In
  <2> QED BY <1>1, <1>2, <1>3, <2>1, <2>2, Landing
<1> QED BY <1>4, <1>5, <1>6, <1>7, <1>8

(* The user puts another content in the place of the file: what is still   *)
(* acknowledged of the old one is in the new one.                          *)
LEMMA FileChanged ==
  ASSUME TypeOK, TypeOK', IInv, Outside, bak' = bak, file.is # "missing" \/ editor # None,
         acked' \subseteq acked, acked' \cap In(file) \subseteq In(file'), Blank(file)',
         file'.is = "missing" => ~held /\ editor' = editor,
         held /\ editor' # None => In(file') \subseteq In(editor')
  PROVE  IInv'
<1>1. UNCHANGED <<log, seg, disk, up, viewVars, bound, job, sessVars, bak>> BY DEF Outside
<1>2. Top' = Top /\ New' = New /\ ToCome' = ToCome
  BY <1>1 DEF Top, Mark, New, viewVars, ToCome, Replayed, Watermark
<1>3. \A s \in acked' : s \in In(file) \/ (s \in ToCome /\ s > Top)
  <2>1. \A s \in acked : s \in Nat /\ Top \in Nat BY TopIs DEF TopFacts, TypeOK, Op
  <2>2. CASE file.is = "missing" BY <2>2 DEF IInv, KeptInv
  <2>3. CASE file.is # "missing"
    <3>1. Stored = In(file) BY <2>3 DEF Stored
    <3> QED BY <2>1, <3>1 DEF IInv, KeptInv
  <2> QED BY <2>2, <2>3
<1>4. \A s \in acked' : s \in In(file') \/ (s \in ToCome' /\ s > Top' /\ ~(s <= Top'))
  <2>1. \A s \in acked : s \in Nat /\ Top \in Nat BY TopIs DEF TopFacts, TypeOK, Op
  <2> QED BY <2>1, <1>2, <1>3
<1>5. KeptInv'
  <2>1. Creating' => acked' = {} BY <1>1 DEF IInv, KeptInv, Creating, sessVars
  <2>2. CASE file'.is = "missing"
    <3>1. In(file') = {} BY <2>2 DEF Blank
    <3>2. \A s \in acked' : s \in ToCome' /\ s > Top' /\ ~(s <= Top') BY <1>4, <3>1
    <3> QED BY <2>1, <3>2 DEF KeptInv, ToCome
  <2>3. CASE file'.is # "missing"
    <3>1. Stored' = In(file') BY <2>3 DEF Stored
    <3> QED BY <1>4, <2>1, <2>3, <3>1 DEF KeptInv
  <2> QED BY <2>2, <2>3
<1>6. BlankInv' BY <1>1 DEF IInv, BlankInv, Blank, viewVars, In
<1>7. DownInv' BY <1>1 DEF IInv, DownInv, viewVars, sessVars
<1>8. HeldInv' BY <1>1 DEF IInv, HeldInv, IsBound, sessVars
<1>9. NumbersInv' BY <1>1, <1>2 DEF IInv, NumbersInv, viewVars
<1>10. JobInv'
  <2>1. job # NoJob /\ job.kind # "sync" /\ job.pc \in {"build", "publish", "save"} =>
          acked' \subseteq In(file') \cup New
    BY DEF IInv, JobInv
  <2>2. In(job.read) = In(job'.read) /\ In(job.out) = In(job'.out) /\ In(mseg.text) = In(mseg'.text)
    BY <1>1 DEF In, viewVars
  <2> QED BY <1>1, <1>2, <2>1, <2>2 DEF IInv, JobInv, IsBound, viewVars
<1> QED BY <1>5, <1>6, <1>7, <1>8, <1>9, <1>10 DEF IInv

LEMMA IUser ==
  ASSUME TypeOK, TypeOK', IInv, User
  PROVE  IInv'
<1>1. ASSUME NEW S \in SUBSET Op, NEW is \in {"good", "bad"}, EditorSaves(S, is) PROVE IInv'
  <2>1. editor # None /\ S \subseteq In(editor) /\ Outside /\ bak' = bak /\ editor' = file'
    BY <1>1 DEF EditorSaves
  <2>2. file' = [is |-> is, edit |-> edited + 1, ops |-> [s \in Op |-> IF s \in S THEN editor.ops[s] ELSE 0]]
    BY <1>1 DEF EditorSaves
  <2>3. file'.is # "missing" BY <2>2
  <2>4. In(file') = S BY <2>1, <2>2 DEF In
  <2>5. acked' = acked \ ((In(editor) \ S) \cup Overwritten) BY <1>1 DEF EditorSaves
  <2>6. acked' \cap In(file) \subseteq In(editor)
    <3>1. CASE held BY <3>1, <2>1 DEF IInv, HeldInv
    <3>2. CASE ~held BY <3>2, <2>5 DEF Overwritten
    <3> QED BY <3>1, <3>2
  <2>7. acked' \cap In(file) \subseteq In(file') BY <2>4, <2>5, <2>6
  <2>8. In(editor') = In(file') BY <2>1 DEF In
  <2> QED BY <2>1, <2>3, <2>5, <2>7, <2>8, FileChanged DEF Blank
<1>2. CASE EditorOpens
  <2>1. Outside /\ bak' = bak /\ file' = file /\ acked' = acked /\ file.is # "missing" /\ editor' = file
    BY <1>2 DEF EditorOpens, history
  <2>2. In(file') = In(file) /\ In(editor') = In(file) BY <2>1 DEF In
  <2> QED BY <2>1, <2>2, FileChanged DEF Blank
<1>3. CASE EditorCloses
  <2>1. Outside /\ bak' = bak /\ file' = file /\ acked' = acked /\ editor # None /\ editor' = None
    BY <1>3 DEF EditorCloses, history
  <2>2. UNCHANGED <<log, file, bak, seg, disk, up, viewVars, job, bound, sessVars>> BY <2>1 DEF Outside
  <2>3. HeldInv' BY <2>1, <2>2 DEF IInv, HeldInv, IsBound, sessVars
  <2>4. Top' = Top /\ New' = New BY <2>2 DEF Top, Mark, viewVars, New
  <2>5. JobInv' BY <2>1, <2>2, <2>4 DEF IInv, JobInv, IsBound, In, viewVars
  <2>6. DownInv' BY <2>2 DEF IInv, DownInv, viewVars, sessVars
  <2>7. Creating' => Creating BY <2>2 DEF Creating, sessVars
  <2> QED BY <2>1, <2>2, <2>3, <2>5, <2>6, <2>7, SameData DEF IsBound
<1>4. ASSUME NEW c \in {Missing, bak}, UserReplaces(c) PROVE IInv'
  <2>1. editor = None /\ session = "closed" /\ file.is # "missing" /\ file' = c /\ bak' = bak /\ editor' = editor
        /\ Outside /\ acked' = acked \ (In(file) \ In(c))
    BY <1>4 DEF UserReplaces
  <2>2. ~held BY <2>1 DEF IInv, HeldInv
  <2>3. In(file') = In(c) BY <2>1 DEF In
  <2>4. Blank(c) BY <1>4, InMissing DEF IInv, BlankInv, Blank
  <2>5. Blank(file)' BY <2>1, <2>3, <2>4 DEF Blank
  <2> QED BY <2>1, <2>2, <2>3, <2>5, FileChanged
<1> QED BY <1>1, <1>2, <1>3, <1>4 DEF User

LEMMA IOpen ==
  ASSUME TypeOK, TypeOK', IInv, Open
  PROVE  IInv'
<1>1. /\ ~up /\ up' /\ mseg' = (IF seg.st = "ok" THEN seg ELSE NoSegment)
      /\ delta' = Replayed /\ state' = disk
      /\ UNCHANGED <<log, file, bak, seg, disk, bound, job, sessVars, editor, acked>>
  BY DEF Open, diskVars, history
<1>2. job = NoJob /\ bound = "no" /\ ~held /\ session = "closed" /\ releasing = FALSE
      /\ mseg = NoSegment /\ state = NoState
  BY <1>1 DEF IInv, DownInv
<1>3. PICK m \in {disk.folded, mseg'.max} \cup log :
        /\ \A x \in {disk.folded, mseg'.max} \cup log : x <= m
        /\ next' = m + 1
  BY DEF Open
<1>4. m \in Nat /\ next' \in Nat /\ \A s \in log : s \in Nat
  BY <1>3 DEF TypeOK, State, Segment, Op
<1>5. disk.folded <= Top /\ (seg.st = "ok" => seg.max <= Top) /\ Top \in Nat BY TopIs DEF TopFacts
<1>6. Top' <= Top /\ Top' <= m
  <2>1. seg.st = "ok" => mseg'.max = seg.max BY <1>1
  <2>2. seg.st # "ok" => mseg'.max = 0 BY <1>1 DEF NoSegment
  <2> QED BY <1>1, <1>3, <1>4, <1>5, <2>1, <2>2, TopIsNext DEF TopFacts
<1>7. Replayed' = Replayed /\ ToCome' = Replayed /\ ToCome = Replayed /\ Stored' = Stored
  BY <1>1 DEF Replayed, Watermark, ToCome, Stored, In
<1>8. Top' \in Nat BY TopIsNext DEF TopFacts
<1>9. \A s \in acked : s \in Nat BY DEF TypeOK, Op
<1>10. BlankInv'
  <2>1. mseg'.st # "ok" => In(mseg'.text) = {} BY <1>1, InMissing DEF In
  <2> QED BY <1>1, <2>1 DEF IInv, BlankInv, Blank, In
<1>11. KeptInv'
  <2>1. acked' \subseteq Stored' \cup ToCome' /\ \A s \in acked' : s <= Top' => s \in Stored'
    BY <1>1, <1>5, <1>6, <1>7, <1>8, <1>9 DEF IInv, KeptInv
  <2>2. ASSUME file'.is = "missing"
        PROVE  /\ acked' \subseteq In(mseg'.text) \cup delta'
               /\ editor' # None \/ IsBound' \/ state'.fp # None =>
                    \A s \in acked' : s \in ToCome' /\ s > Top'
    <3>1. In(file) = {} /\ file.is = "missing" BY <1>1, <2>2 DEF IInv, BlankInv, Blank
    <3>2. CASE disk.fp = None /\ seg.st = "ok"
      <4>1. mseg' = seg BY <1>1, <3>2
      <4>2. Stored = In(mseg'.text) BY <3>1, <3>2, <4>1 DEF Stored, In
      <4>3. acked' \subseteq In(mseg'.text) \cup delta' BY <1>1, <1>7, <4>2 DEF IInv, KeptInv
      <4>4. editor # None => \A s \in acked : s \in Replayed /\ s > Top BY <3>1, <1>7 DEF IInv, KeptInv
      <4>5. ~IsBound' /\ state'.fp = None BY <1>1, <1>2, <3>2 DEF IsBound
      <4> QED BY <4>3, <4>4, <4>5, <1>1, <1>5, <1>6, <1>7, <1>8, <1>9
    <3>3. CASE ~(disk.fp = None /\ seg.st = "ok")
      <4>1. Stored = {} BY <3>1, <3>3 DEF Stored
      <4>2. \A s \in acked : s \in Replayed /\ ~(s <= Top) BY <4>1, <1>7 DEF IInv, KeptInv
      <4> QED BY <4>2, <1>1, <1>5, <1>6, <1>7, <1>8, <1>9
    <3> QED BY <3>2, <3>3
  <2>3. ~Creating' BY <1>1, <1>2 DEF Creating, sessVars
  <2> QED BY <2>1, <2>2, <2>3 DEF KeptInv
<1>12. NumbersInv'
  <2>1. delta' \subseteq log' BY <1>1 DEF Replayed
  <2>2. \A s \in log' : s < next' BY <1>1, <1>3, <1>4
  <2>3. Top' < next' BY <1>3, <1>4, <1>6, <1>8
  <2> QED BY <2>1, <2>2, <2>3 DEF NumbersInv
<1>13. JobInv' /\ DownInv' BY <1>1, <1>2 DEF JobInv, DownInv
<1>14. HeldInv' BY <1>1, <1>2 DEF HeldInv, sessVars
<1> QED BY <1>10, <1>11, <1>12, <1>13, <1>14 DEF IInv

LEMMA IApply ==
  ASSUME TypeOK, TypeOK', IInv, "write_in_begin" \notin Faults, Apply
  PROVE  IInv'
<1>1. /\ up /\ ~Creating
      /\ log' = log \cup {next} /\ delta' = delta \cup {next} /\ next' = next + 1
      /\ acked' = acked \cup {next}
      /\ UNCHANGED <<file, bak, seg, disk, up, mseg, state, bound, job, sessVars, editor>>
  BY DEF Apply
<1>2. next \in Nat /\ Top \in Nat /\ Top < next /\ \A s \in log : s \in Nat /\ s < next
  BY <1>1, TopIs DEF TopFacts, TypeOK, IInv, NumbersInv, Op
<1>3. Top' = Top /\ ToCome' = delta' /\ ToCome = delta /\ Stored' = Stored
  BY <1>1 DEF Top, Mark, ToCome, Stored, In
<1>4. BlankInv' BY <1>1 DEF IInv, BlankInv, Blank, In
<1>5. DownInv' /\ HeldInv' BY <1>1 DEF IInv, DownInv, HeldInv, IsBound, sessVars, In
<1>6. NumbersInv'
  <2>1. Top' < next' BY <1>1, <1>2, <1>3
  <2>2. \A s \in log' : s < next' BY <1>1, <1>2
  <2> QED BY <1>1, <2>1, <2>2 DEF IInv, NumbersInv
<1>7. JobInv'
  <2>1. CASE job = NoJob BY <1>1, <2>1 DEF JobInv
  <2>2. CASE job # NoJob
    <3>1. job.upto \in Nat /\ job.upto < next BY <2>2 DEF TypeOK, Job, IInv, JobInv
    <3>2. New' = New \cup {next} /\ delta' \ New' = delta \ New BY <1>1, <1>2, <3>1 DEF New
    <3>3. job'.upto < next' BY <1>1, <1>2, <3>1
    <3>4. In(file') = In(file) /\ In(job'.read) = In(job.read) /\ In(job'.out) = In(job.out)
          /\ In(mseg'.text) = In(mseg.text)
      BY <1>1 DEF In
    <3> QED BY <2>2, <1>1, <1>3, <3>2, <3>3, <3>4 DEF IInv, JobInv, IsBound
  <2> QED BY <2>1, <2>2
<1>8. KeptInv'
  <2>1. next \in delta' /\ next > Top' /\ ~(next <= Top') BY <1>1, <1>2, <1>3
  <2>2. ~Creating' BY <1>1 DEF Creating, sessVars
  <2> QED BY <1>1, <1>3, <2>1, <2>2 DEF IInv, KeptInv, IsBound, In
<1> QED BY <1>4, <1>5, <1>6, <1>7, <1>8 DEF IInv

LEMMA IPrune ==
  ASSUME TypeOK, TypeOK', IInv, Prune
  PROVE  IInv'
<1>1. /\ up /\ delta \subseteq log' /\ log' \subseteq log
      /\ UNCHANGED <<file, bak, seg, disk, up, next, mseg, delta, state, job, bound, sessVars, editor, acked>>
  <2>1. PICK d \in delta \cup {next} : (\A e \in delta : d <= e) /\ log' = {s \in log : d <= s}
    BY DEF Prune
  <2>2. delta \subseteq log BY DEF Prune, IInv, NumbersInv
  <2> QED BY <2>1, <2>2 DEF Prune, JobRest, viewVars, history
<1>2. Top' = Top /\ New' = New /\ ToCome' = ToCome /\ Stored' = Stored
  BY <1>1 DEF Top, Mark, New, ToCome, Stored, In
<1>3. BlankInv' BY <1>1 DEF IInv, BlankInv, Blank, In
<1>4. DownInv' /\ HeldInv' BY <1>1 DEF IInv, DownInv, HeldInv, IsBound, sessVars, In
<1>5. NumbersInv' BY <1>1, <1>2 DEF IInv, NumbersInv
<1>6. JobInv' BY <1>1, <1>2 DEF IInv, JobInv, IsBound, In
<1>7. KeptInv' BY <1>1, <1>2 DEF IInv, KeptInv, IsBound, In, Creating, sessVars
<1> QED BY <1>3, <1>4, <1>5, <1>6, <1>7 DEF IInv

(* What is above every mark and in the delta is replayed by the next open. *)
LEMMA ICrash ==
  ASSUME TypeOK, TypeOK', IInv, Crash
  PROVE  IInv'
<1>1. /\ up /\ ~up' /\ mseg' = NoSegment /\ state' = NoState /\ delta' = {} /\ bound' = "no"
      /\ job' = NoJob /\ held' = FALSE /\ session' = "closed" /\ releasing' = FALSE
      /\ UNCHANGED <<log, file, bak, seg, disk, acked>> /\ (editor' # None => editor # None)
  BY DEF Crash, Halt, diskVars, history
<1>2. Stored' = Stored /\ Watermark' = Watermark BY <1>1 DEF Stored, Watermark, In
<1>3. Top \in Nat /\ Watermark \in Nat /\ Watermark <= Top /\ \A s \in acked : s \in Nat
  <2>1. Top \in Nat /\ Watermark \in Nat /\ Watermark <= Mark /\ Mark <= Top /\ Mark \in Nat
    BY TopIs DEF TopFacts
  <2> QED BY <2>1 DEF TypeOK, Op
<1>4. Top' <= Top
  <2>1. mseg'.max = 0 /\ state'.folded = 0 BY <1>1 DEF NoSegment, NoState
  <2> QED BY <1>1, <1>3, <2>1, TopIs, TopIsNext DEF TopFacts
<1>5. Top' \in Nat BY TopIsNext DEF TopFacts
<1>6. \A s \in acked : s \in delta /\ s > Top => s \in ToCome' /\ s > Top'
  <2>1. ToCome' = {s \in log : s > Watermark} BY <1>1, <1>2 DEF ToCome, Replayed
  <2>2. delta \subseteq log BY <1>1 DEF IInv, NumbersInv
  <2> QED BY <2>1, <2>2, <1>3, <1>4, <1>5
<1>7. KeptInv'
  <2>1. \A s \in acked : s \in Stored \/ (s \in delta /\ s > Top)
    BY <1>1, <1>3 DEF IInv, KeptInv, ToCome
  <2>2. acked' \subseteq Stored' \cup ToCome' BY <1>1, <1>2, <1>6, <2>1
  <2>3. \A s \in acked' : s <= Top' => s \in Stored'
    BY <1>1, <1>2, <1>3, <1>4, <1>5 DEF IInv, KeptInv
  <2>4. file.is = "missing" /\ editor # None => \A s \in acked : s \in delta /\ s > Top
    BY <1>1 DEF IInv, KeptInv, ToCome
  <2>5. ~Creating' BY <1>1 DEF Creating
  <2> QED BY <1>1, <1>6, <2>2, <2>3, <2>4, <2>5 DEF KeptInv
<1>8. BlankInv' BY <1>1, InMissing DEF IInv, BlankInv, Blank, In
<1>9. DownInv' /\ HeldInv' BY <1>1 DEF DownInv, HeldInv
<1>10. NumbersInv' /\ JobInv' BY <1>1 DEF NumbersInv, JobInv
<1> QED BY <1>7, <1>8, <1>9, <1>10 DEF IInv

(* A damaged file lowers the marks, and the journal covers the rest.       *)
LEMMA IRots ==
  ASSUME TypeOK, TypeOK', IInv, SegmentRots \/ StateRots
  PROVE  IInv'
<1>1. /\ ~up /\ ~up' /\ seg.st = "ok" /\ disk # NoState
      /\ UNCHANGED <<log, file, bak, up, next, mseg, delta, state, job, bound, sessVars, editor, acked>>
  BY DEF SegmentRots, StateRots, JobRest, viewVars, history
<1>2. \/ file.is # "missing" /\ seg' = [seg EXCEPT !.st = "broken"] /\ disk' = disk
      \/ disk' = NoState /\ seg' = seg
  BY DEF SegmentRots, StateRots
<1>3. \/ seg'.st = "broken" /\ disk' = disk /\ file.is # "missing"
      \/ disk' = NoState /\ seg' = seg
  BY <1>2 DEF TypeOK, Segment
<1>4. Watermark' <= Watermark
  <2>1. disk.folded \in Nat /\ seg.max \in Nat BY DEF TypeOK, State, Segment
  <2>2. disk'.folded \in Nat /\ seg'.max \in Nat BY DEF TypeOK, State, Segment
  <2>3. CASE seg'.st = "broken"
    <3>1. Watermark' = 0 BY <2>3 DEF Watermark
    <3> QED BY <3>1, TopIs DEF TopFacts
  <2>4. CASE disk' = NoState /\ seg' = seg
    <3>1. Watermark' = Larger(0, seg.max) BY <1>1, <2>4 DEF Watermark, NoState
    <3>2. Watermark = Larger(disk.folded, seg.max) BY <1>1 DEF Watermark
    <3> QED BY <3>1, <3>2, <2>1 DEF Larger
  <2> QED BY <1>3, <2>3, <2>4
<1>5. Watermark \in Nat /\ Watermark' \in Nat /\ Top \in Nat /\ Top' \in Nat
      /\ \A s \in log : s \in Nat
  BY TopIs, TopIsNext DEF TopFacts, TypeOK, Op
<1>6. Top' <= Top
  <2>1. /\ disk.folded <= Top /\ mseg.max <= Top /\ state.folded <= Top /\ seg.max <= Top
    BY <1>1, TopIs DEF TopFacts
  <2>2. disk'.folded <= Top BY <1>3, <1>5, <2>1 DEF NoState
  <2>3. seg'.st = "ok" => seg'.max <= Top BY <1>3, <2>1
  <2> QED BY <1>1, <1>5, <2>1, <2>2, <2>3, TopIsNext DEF TopFacts
<1>7. ToCome \subseteq ToCome' /\ ToCome = Replayed
  <2>1. Replayed = {s \in log : s > Watermark} /\ Replayed' = {s \in log : s > Watermark'}
    BY <1>1 DEF Replayed
  <2>2. Replayed \subseteq Replayed' BY <2>1, <1>4, <1>5
  <2> QED BY <1>1, <2>2 DEF ToCome
<1>8. Stored \subseteq Stored'
  <2>1. CASE file.is # "missing"
    <3>1. Stored = In(file) /\ Stored' = In(file) BY <2>1, <1>1 DEF Stored, In
    <3> QED BY <3>1
  <2>2. CASE file.is = "missing"
    <3>1. disk' = NoState /\ seg' = seg BY <1>3, <2>2
    <3>2. Stored' = In(seg.text) BY <1>1, <2>2, <3>1 DEF Stored, NoState, In
    <3>3. In(file) = {} BY <2>2 DEF IInv, BlankInv, Blank
    <3> QED BY <3>2, <3>3 DEF Stored
  <2> QED BY <2>1, <2>2
<1>9. KeptInv'
  <2>1. \A s \in acked : s \in Nat BY DEF TypeOK, Op
  <2>2. ~Creating' BY <1>1 DEF IInv, DownInv, Creating, sessVars
  <2>3. acked' \subseteq Stored' \cup ToCome' BY <1>1, <1>7, <1>8 DEF IInv, KeptInv
  <2>4. \A s \in acked' : s <= Top' => s \in Stored'
    BY <1>1, <1>5, <1>6, <1>8, <2>1 DEF IInv, KeptInv
  <2>5. file.is = "missing" /\ editor # None => \A s \in acked : s \in ToCome' /\ s > Top'
    BY <1>5, <1>6, <1>7, <2>1 DEF IInv, KeptInv
  <2> QED BY <1>1, <2>2, <2>3, <2>4, <2>5 DEF KeptInv
<1>10. BlankInv' BY <1>1 DEF IInv, BlankInv, Blank, In
<1>11. DownInv' /\ HeldInv' BY <1>1 DEF IInv, DownInv, HeldInv, IsBound, sessVars, In
<1>12. NumbersInv' /\ JobInv' BY <1>1 DEF NumbersInv, JobInv, IInv, DownInv
<1> QED BY <1>9, <1>10, <1>11, <1>12 DEF IInv

LEMMA InitIInv == Init => IInv
<1> SUFFICES ASSUME Init PROVE IInv
  OBVIOUS
<1>1. /\ file = Missing /\ bak = Missing /\ up = FALSE /\ mseg = NoSegment /\ state = NoState
      /\ bound = "no" /\ job = NoJob /\ held = FALSE /\ session = "closed" /\ releasing = FALSE
      /\ editor = None
  BY DEF Init
<1>2. acked \subseteq Stored
  <2>1. CASE Fresh BY <2>1 DEF Fresh
  <2>2. CASE Legacy
    <3>1. seg.st = "ok" /\ disk.fp = None /\ acked = {1}
          /\ seg.text = [is |-> "good", edit |-> 0, ops |-> [s \in Op |-> IF s = 1 THEN 1 ELSE 0]]
      BY <2>2 DEF Legacy, NoState
    <3>2. 1 \in Op /\ 1 > 0 BY BoundsAssumption DEF Op
    <3>3. 1 \in In(seg.text) BY <3>1, <3>2 DEF In
    <3>4. Stored = In(seg.text) BY <1>1, <3>1, InMissing DEF Stored
    <3> QED BY <3>1, <3>3, <3>4
  <2> QED BY <2>1, <2>2 DEF Init
<1>3. BlankInv BY <1>1, InMissing DEF BlankInv, Blank
<1>4. KeptInv BY <1>1, <1>2 DEF KeptInv, Creating
<1> QED BY <1>1, <1>3, <1>4 DEF IInv, DownInv, HeldInv, NumbersInv, JobInv

LEMMA INext ==
  ASSUME "write_in_begin" \notin Faults, TypeOK, TypeOK', IInv, [Next]_vars
  PROVE  IInv'
<1>1. CASE Open BY <1>1, IOpen
<1>2. CASE Apply BY <1>2, IApply
<1>3. CASE Fold BY <1>3, IFold
<1>4. CASE JobStep \/ JobFails
  BY <1>4, IRecheck, IAborts, IRename, ILanding DEF JobStep, JobFails
<1>5. CASE Prune BY <1>5, IPrune
<1>6. CASE BeginEdit \/ Session BY <1>6, ISession
<1>7. CASE User BY <1>7, IUser
<1>8. CASE TimePasses \/ UNCHANGED vars
  <2>1. UNCHANGED <<log, file, bak, seg, disk, up, viewVars, job, bound, sessVars, editor, acked>>
    BY <1>8 DEF TimePasses, vars, diskVars, history
  <2>2. HeldInv' /\ DownInv' BY <2>1 DEF IInv, HeldInv, DownInv, IsBound, sessVars, In, viewVars
  <2>3. Top' = Top /\ New' = New BY <2>1 DEF Top, Mark, viewVars, New
  <2>4. JobInv' BY <2>1, <2>3 DEF IInv, JobInv, IsBound, In, viewVars
  <2>5. Creating' => Creating BY <2>1 DEF Creating, sessVars
  <2> QED BY <2>1, <2>2, <2>4, <2>5, SameData DEF IsBound
<1>9. CASE Crash BY <1>9, ICrash
<1>10. CASE SegmentRots \/ StateRots BY <1>10, IRots
<1> QED BY <1>1, <1>2, <1>3, <1>4, <1>5, <1>6, <1>7, <1>8, <1>9, <1>10 DEF Next, Environment

LEMMA InvariantKeepsAll == TypeOK /\ IInv => NoLoss
<1> SUFFICES ASSUME TypeOK, IInv PROVE NoLoss
  OBVIOUS
<1>1. Top \in Nat /\ Watermark \in Nat /\ Mark \in Nat /\ Watermark <= Mark /\ Mark <= Top
  BY TopIs DEF TopFacts
<1>2. \A s \in acked : s \in Nat BY DEF TypeOK, Op
<1>3. up => acked \subseteq Stored \cup delta BY DEF IInv, KeptInv, ToCome
<1>4. \A s \in acked : s \in Stored \/ s \in Replayed
  <2>1. CASE up
    <3>1. delta \subseteq log BY <2>1 DEF IInv, NumbersInv
    <3>2. \A s \in acked : s \in Stored \/ (s \in delta /\ s > Top)
      BY <1>1, <1>2, <1>3, <2>1 DEF IInv, KeptInv
    <3> QED BY <1>1, <1>2, <3>1, <3>2 DEF Replayed
  <2>2. CASE ~up BY <2>2 DEF IInv, KeptInv, ToCome
  <2> QED BY <2>1, <2>2
<1> QED BY <1>3, <1>4 DEF NoLoss

(* No operation that was acknowledged is lost, whatever fails, crashes or  *)
(* is saved when: it is in the text (or, before there ever was one, in the *)
(* segment), or the next open replays it.                                  *)
THEOREM NothingLost ==
  ASSUME "write_in_begin" \notin Faults
  PROVE  Spec => []NoLoss
<1>1. Init => TypeOK /\ IInv BY TypeInit, InitIInv
<1>2. TypeOK /\ IInv /\ [Next]_vars => (TypeOK /\ IInv)'
  BY TypeNext, INext
<1>3. TypeOK /\ IInv => NoLoss BY InvariantKeepsAll
<1> QED BY <1>1, <1>2, <1>3, PTL DEF Spec

-----------------------------------------------------------------------------
(***************************************************************************)
(* More proofs about TextTarget: counts, removals and the user's edits.    *)
(* They need that the segment and the state file follow the text, so they  *)
(* leave out the faults that part them (Orderly), and of saves the one     *)
(* that comes too late to be seen.                                         *)
(***************************************************************************)

Orderly ==
  Faults \cap {"crash_in_job", "io_error", "segment_rot", "state_rot", "write_in_begin"} = {}

-----------------------------------------------------------------------------
(* The user's newest edit is in the file, or was made to a text that the   *)
(* job is about to write over only after it has read it.                   *)
EditsInv ==
  /\ UserEditsKept
  /\ file.is = "missing" => file.edit = 0
  /\ bak.is = "missing" => bak.edit = 0
  /\ job.pc \in {"recheck", "rename"} => job.kind # "sync" /\ job.out.is = "good"
  /\ job.pc = "recheck" /\ job.kind = "patch" => job.out.edit = job.read.edit
  /\ job.pc = "recheck" /\ job.kind = "adopt" => job.read.is = "missing"
  /\ job.pc = "rename" /\ job.kind # "replace" => job.out.edit >= edited

LEMMA EditsSame ==
  ASSUME EditsInv, UNCHANGED <<file, bak, edited>>, job' = job \/ job'.pc \notin {"recheck", "rename"}
  PROVE  EditsInv'
BY DEF EditsInv, UserEditsKept

LEMMA EditsTypes ==
  ASSUME TypeOK
  PROVE  file.edit \in Nat /\ bak.edit \in Nat /\ edited \in Nat /\ Missing.edit = 0 /\ Missing.is = "missing"
BY DEF TypeOK, Content, Missing

LEMMA EditsBegin ==
  ASSUME EditsInv, UNCHANGED <<file, bak, edited>>,
         job'.pc = "recheck", job'.read = file, job'.out.is = "good",
         \/ job'.kind = "patch" /\ job'.out.edit = file.edit
         \/ job'.kind = "adopt" /\ file.is = "missing"
         \/ job'.kind = "replace"
  PROVE  EditsInv'
BY DEF EditsInv, UserEditsKept

LEMMA EditsPatch ==
  ASSUME EditsInv, NEW by, StartPatch(by)
  PROVE  EditsInv'
BY EditsBegin DEF StartPatch, Start, diskVars, history, Patched

LEMMA EditsReplace ==
  ASSUME EditsInv, NEW by, NEW e, NEW gone, Replace(by, e, gone)
  PROVE  EditsInv'
BY EditsBegin DEF Replace, diskVars, Missing

LEMMA EditsSync ==
  ASSUME EditsInv, NEW by, Sync(by)
  PROVE  EditsInv'
BY EditsSame DEF Sync, Start, diskVars, history

LEMMA EditsNext ==
  ASSUME "late_save" \notin Faults, TypeOK, EditsInv, [Next]_vars
  PROVE  EditsInv'
<1> USE DEF diskVars, history
<1>0. NoJob.pc = "idle" BY DEF NoJob
<1>1. CASE Open BY <1>1, EditsSame DEF Open
<1>2. CASE Apply BY <1>2, EditsSame DEF Apply
<1>3. CASE Fold
  <2>1. CASE Maintain \/ IdleOrCompact
    BY <2>1, EditsPatch, EditsSame DEF Maintain, IdleOrCompact, FoldLoggedOnce
  <2>2. CASE ReleaseFold
    BY <2>2, EditsPatch, EditsSame DEF ReleaseFold
  <2>3. CASE Clear BY <2>3, EditsReplace DEF Clear
  <2>4. CASE Bind
    <3>1. CASE Adopts
      <4>1. Start("adopt", "bind", "recheck", Patched(mseg.text, Pending), {}) BY <2>4, <3>1 DEF Bind
      <4>2. job'.pc = "recheck" /\ job'.read = file /\ job'.kind = "adopt"
            /\ job'.out = Patched(mseg.text, Pending)
        BY <4>1 DEF Start
      <4>3. Patched(mseg.text, Pending).is = "good" BY DEF Patched
      <4> QED BY <3>1, <4>1, <4>2, <4>3, EditsBegin DEF Start, Adopts
    <3>2. CASE ~Adopts BY <2>4, <3>2, EditsSame DEF Bind
    <3> QED BY <3>1, <3>2
  <2>5. CASE BindSync BY <2>5, EditsSync, EditsSame DEF BindSync
  <2>6. CASE SyncText BY <2>6, EditsSync DEF SyncText
  <2> QED BY <1>3, <2>1, <2>2, <2>3, <2>4, <2>5, <2>6 DEF Fold
<1>4. CASE JobStep
  <2>1. CASE Recheck
    <3>1. job \in Job BY <2>1, JobThere DEF Recheck
    <3>2. job'.pc = "rename" /\ job'.kind = job.kind /\ job'.out = job.out BY <2>1, <3>1 DEF Recheck, Job
    <3>3. job.kind \in {"patch", "adopt", "replace"} /\ job.out.is = "good" BY <2>1, <3>1 DEF Recheck, EditsInv, Job
    <3>4. file'.edit >= edited' /\ (file'.is = "missing" => file'.edit = 0)
      BY <2>1, EditsTypes DEF Recheck, EditsInv, UserEditsKept
    <3>5. bak'.is = "missing" => bak'.edit = 0 BY <2>1 DEF Recheck, EditsInv
    <3>6. job.kind # "replace" => job.out.edit >= edited'
      BY <2>1, <3>3, EditsTypes, <3>1 DEF Recheck, EditsInv, UserEditsKept, Job, Content
    <3> QED BY <3>2, <3>3, <3>4, <3>5, <3>6 DEF EditsInv, UserEditsKept
  <2>2. CASE RecheckAborts
    BY <2>2, <1>0, EditsSame DEF RecheckAborts, End
  <2>3. CASE Rename
    <3>1. job \in Job BY <2>3, JobThere DEF Rename
    <3>2. job'.pc = "build" BY <2>3, <3>1 DEF Rename, Job
    <3>3. file'.edit >= edited' BY <2>3, <3>1 DEF Rename, Committed, EditsInv, Job, Content
    <3>4. file'.is = "good" BY <2>3 DEF Rename, Committed, EditsInv
    <3> QED BY <2>3, <3>2, <3>3, <3>4 DEF Rename, EditsInv, UserEditsKept
  <2>4. CASE Build \/ Publish \/ Save
    <3>1. job \in Job BY <2>4, JobThere DEF Build, Publish, Save
    <3>2. job'.pc \notin {"recheck", "rename"} BY <2>4, <3>1, <1>0 DEF Build, Publish, Save, End, Job
    <3> QED BY <2>4, <3>2, EditsSame DEF Build, Publish, Save, JobRest
  <2> QED BY <1>4, <2>1, <2>2, <2>3, <2>4 DEF JobStep
<1>5. CASE JobFails
  <2>1. CASE CommitFails BY <2>1, <1>0, EditsSame DEF CommitFails, End
  <2>2. CASE RenameFailsLate
    <3>1. job \in Job BY <2>2, JobThere DEF RenameFailsLate
    <3>2. job'.pc = "idle" /\ file' = job.out /\ bak' = bak BY <2>2, <1>0 DEF RenameFailsLate, End, Committed
    <3>3. file'.edit >= edited'
      BY <2>2, <3>1 DEF RenameFailsLate, Committed, EditsInv, Job, Content
    <3>4. file'.is = "good" BY <2>2, <3>2 DEF RenameFailsLate, EditsInv
    <3> QED BY <3>2, <3>3, <3>4 DEF EditsInv, UserEditsKept
  <2>3. CASE BuildFails \/ SaveFails BY <2>3, <1>0, EditsSame DEF BuildFails, SaveFails, End
  <2> QED BY <1>5, <2>1, <2>2, <2>3 DEF JobFails
<1>6. CASE Prune BY <1>6, EditsSame DEF Prune, JobRest
<1>7. CASE BeginEdit \/ Session
  <2>1. CASE BeginEdit BY <2>1, EditsSame DEF BeginEdit, Unmoved
  <2>2. CASE PrepareFold BY <2>2, EditsPatch, EditsSame DEF PrepareFold, Unmoved
  <2>3. CASE PrepareFile BY <2>3, EditsSame DEF PrepareFile, Unmoved
  <2>4. CASE PrepareCreate BY <2>4, EditsReplace DEF PrepareCreate
  <2>5. CASE Hold \/ EndEdit \/ Release BY <2>5, EditsSame DEF Hold, EndEdit, Release, Unmoved
  <2>6. CASE EndSync BY <2>6, EditsSync, EditsSame DEF EndSync, Unmoved
  <2> QED BY <1>7, <2>1, <2>2, <2>3, <2>4, <2>5, <2>6 DEF Session
<1>8. CASE User
  <2>1. ASSUME NEW S \in SUBSET Op, NEW is \in {"good", "bad"}, EditorSaves(S, is) PROVE EditsInv'
    <3>1. /\ job' = job /\ job.pc # "rename" /\ bak' = bak /\ edited' = edited + 1
          /\ file'.edit = edited + 1 /\ file'.is = is
      BY <2>1 DEF EditorSaves, Outside, Quiet
    <3> QED BY <3>1, EditsTypes DEF EditsInv, UserEditsKept
  <2>2. CASE EditorOpens BY <2>2, EditsSame DEF EditorOpens, Outside
  <2>3. CASE EditorCloses BY <2>3, EditsSame DEF EditorCloses, Outside
  <2>4. ASSUME NEW c \in {Missing, bak}, UserReplaces(c) PROVE EditsInv'
    <3>1. job' = job /\ job.pc # "rename" /\ bak' = bak /\ file' = c /\ edited' = c.edit
      BY <2>4 DEF UserReplaces, Outside, Quiet
    <3>2. c.edit \in Nat /\ (c.is = "missing" => c.edit = 0) BY <2>4, EditsTypes DEF EditsInv
    <3> QED BY <3>1, <3>2 DEF EditsInv, UserEditsKept
  <2> QED BY <1>8, <2>1, <2>2, <2>3, <2>4 DEF User
<1>9. CASE Environment
  BY <1>9, <1>0, EditsSame DEF Environment, TimePasses, Crash, Halt, SegmentRots, StateRots, JobRest
<1>10. CASE UNCHANGED vars BY <1>10, EditsSame DEF vars
<1> QED BY <1>1, <1>2, <1>3, <1>4, <1>5, <1>6, <1>7, <1>8, <1>9, <1>10 DEF Next

(* While the user saves before the last look at the file or after the      *)
(* rename, the engine never writes over a save it has not read, and no     *)
(* failure, crash or replacement of the file changes that.                 *)
THEOREM SavesKept ==
  ASSUME "late_save" \notin Faults
  PROVE  Spec => []UserEditsKept
<1>1. Init => TypeOK /\ EditsInv
  <2>1. Init => EditsInv BY DEF Init, EditsInv, UserEditsKept, Missing, NoJob
  <2> QED BY <2>1, TypeInit
<1>2. TypeOK /\ EditsInv /\ [Next]_vars => (TypeOK /\ EditsInv)' BY TypeNext, EditsNext
<1>3. EditsInv => UserEditsKept BY DEF EditsInv
<1> QED BY <1>1, <1>2, <1>3, PTL DEF Spec

-----------------------------------------------------------------------------
(* No operation is in c twice, and none in it is numbered above n.         *)
Within(c, n) == \A s \in Op : c.ops[s] <= 1 /\ (c.ops[s] > 0 => s <= n)

(* A job past its rename, and how far the text it has written goes.        *)
Past == job.pc \in {"build", "publish", "save"}
Reach == IF Past /\ job.kind # "sync" THEN job.upto ELSE Mark

(* Without failures and damage, memory and disk differ between Build and   *)
(* Publish at most.                                                        *)
AgreeInv ==
  /\ seg.st # "broken" /\ (seg.st = "none" => seg = NoSegment)
  /\ up => state = disk /\ (job.pc # "publish" => mseg = seg)
  /\ job.pc = "publish" => seg = NewSegment
  /\ job.pc = "save" => mseg = NewSegment

(* Everything a text, an editor or a segment holds has been folded, and    *)
(* nothing pending has.                                                    *)
CountsInv ==
  /\ Within(file, Reach) /\ Within(bak, Reach) /\ Within(seg.text, Mark)
  /\ editor # None => Within(editor, Reach)
  /\ \A s \in removed : s <= Reach
  /\ up /\ ~(job.pc = "publish" /\ job.kind # "sync") => \A s \in delta : s > Mark
  /\ job # NoJob =>
       /\ Within(job.out, IF job.kind = "sync" THEN Mark ELSE job.upto)
       /\ \A s \in job.gone : s <= job.upto

(* Before a text was ever written there is none, and nothing was removed.  *)
FirstInv ==
  disk.fp = None /\ ~Past =>
    /\ file.is = "missing" /\ removed = {} /\ editor = None
    /\ session \notin {"hold", "open", "syncing"}

(* The segment shows the text its fingerprint tells of.                    *)
ShownInv == job.pc \notin {"publish", "save"} /\ seg.st = "ok" /\ disk.fp # None => seg.text = disk.fp

(* What the user has removed is in no text the job is about to write.      *)
GoneInv ==
  /\ removed \cap In(file) = {}
  /\ job.pc = "rename" => removed \cap In(job.out) = {}
  /\ job.pc = "recheck" /\ job.kind = "patch" => In(job.out) \subseteq In(job.read) \cup delta
  /\ job.pc = "recheck" /\ job.kind = "adopt" => disk.fp = None
  /\ job.pc \in {"recheck", "rename"} =>
       IF job.kind = "replace" THEN In(job.out) = {} ELSE job.gone = {}

CInv == AgreeInv /\ CountsInv /\ FirstInv /\ ShownInv

LEMMA WithinMore ==
  ASSUME NEW c, NEW m \in Nat, NEW n \in Nat, m <= n, Within(c, m)
  PROVE  Within(c, n)
<1>1. \A s \in Op : s \in Nat BY DEF Op
<1> QED BY <1>1 DEF Within

LEMMA NothingWithin ==
  ASSUME NEW n \in Nat
  PROVE  Within(Missing, n) /\ Within(NoSegment.text, n)
BY DEF Within, Missing, NoSegment

LEMMA InWithin ==
  ASSUME NEW c, NEW n, Within(c, n), NEW s \in In(c)
  PROVE  s \in Op /\ s <= n /\ c.ops[s] <= 1
BY DEF Within, In

(* What is added to a text is not in it yet.                               *)
LEMMA PatchedWithin ==
  ASSUME NEW c \in Content, NEW S \in SUBSET Op, NEW m \in Nat, NEW n \in Nat, m <= n,
         Within(c, m), \A s \in S : s > m /\ s <= n
  PROVE  Within(Patched(c, S), n)
<1>1. \A s \in Op : c.ops[s] \in 0..2 /\ s \in Nat
  <2>1. \A s \in Op : c.ops[s] \in 0..2 BY DEF Content
  <2>2. \A s \in Op : s \in Nat BY DEF Op
  <2> QED BY <2>1, <2>2
<1>2. \A s \in Op : Patched(c, S).ops[s] = IF s \in S /\ c.ops[s] < 2 THEN c.ops[s] + 1 ELSE c.ops[s]
  BY DEF Patched
<1>3. \A s \in S : c.ops[s] = 0
  <2> SUFFICES ASSUME NEW s \in S PROVE c.ops[s] = 0
    OBVIOUS
  <2>1. s \in Op /\ ~(s <= m) BY <1>1
  <2> QED BY <1>1, <2>1 DEF Within
<1>4. \A s \in Op : s \in S => Patched(c, S).ops[s] = 1 /\ s <= n BY <1>1, <1>2, <1>3
<1>5. \A s \in Op : s \notin S => Patched(c, S).ops[s] = c.ops[s] BY <1>2
<1>6. \A s \in Op : c.ops[s] <= 1 /\ (c.ops[s] > 0 => s <= n) BY <1>1 DEF Within
<1> QED BY <1>4, <1>5, <1>6 DEF Within

LEMMA Numbers ==
  ASSUME TypeOK, IInv
  PROVE  /\ Mark \in Nat /\ Mark <= Top /\ Top \in Nat /\ next \in Nat /\ Reach \in Nat /\ Mark <= Reach
         /\ up => Mark < next /\ Top < next /\ \A s \in delta : s < next
         /\ job # NoJob => job \in Job /\ job.upto \in Nat /\ (job.kind # "sync" => Mark <= job.upto)
         /\ Past => job # NoJob
         /\ \A s \in Op : s \in Nat
<1>1. Mark \in Nat /\ Mark <= Top /\ Top \in Nat BY TopIs DEF TopFacts
<1>2. next \in Nat BY DEF TypeOK
<1>3. job # NoJob => job \in Job /\ job.upto \in Nat BY DEF TypeOK, Job
<1>4. job # NoJob /\ job.kind # "sync" => Top <= job.upto BY DEF IInv, JobInv
<1>5. up => Top < next /\ \A s \in delta : s < next BY DEF IInv, NumbersInv
<1>6. Past => job # NoJob BY NotNoJob DEF Past
<1>7. \A s \in Op : s \in Nat BY DEF Op
<1>8. job # NoJob /\ job.kind # "sync" => Mark <= job.upto BY <1>1, <1>3, <1>4
<1>9. Reach \in Nat /\ Mark <= Reach BY <1>1, <1>3, <1>6, <1>8 DEF Reach
<1> QED BY <1>1, <1>2, <1>3, <1>5, <1>6, <1>7, <1>8, <1>9

(* A step that leaves the contents and the marks alone.                    *)
LEMMA CountsSame ==
  ASSUME TypeOK, IInv, CInv, UNCHANGED <<log, file, bak, seg, disk, up, viewVars, removed>>,
         \/ job' = job
         \/ /\ ~Past /\ job'.pc \notin {"publish", "save"} /\ (job'.pc = "build" => job'.kind = "sync")
            /\ job' # NoJob => /\ Within(job'.out, IF job'.kind = "sync" THEN Mark ELSE job'.upto)
                               /\ \A s \in job'.gone : s <= job'.upto,
         editor' # None => Within(editor', Reach),
         FirstInv'
  PROVE  CInv'
<1> USE DEF viewVars
<1>1. Mark' = Mark BY DEF Mark
<1>2. Reach' = Reach /\ (job'.pc \in {"publish", "save"} => job' = job)
  <2>1. CASE job' = job BY <1>1, <2>1 DEF Reach, Past
  <2>2. CASE job' # job
    <3>1. Reach = Mark /\ Reach' = Mark' /\ job'.pc \notin {"publish", "save"} BY <2>2 DEF Reach, Past
    <3> QED BY <1>1, <3>1
  <2> QED BY <2>1, <2>2
<1>3. job.pc \in {"publish", "save"} => job' = job BY DEF Past
<1>4. AgreeInv' BY <1>2, <1>3 DEF CInv, AgreeInv, NewSegment, NewMax
<1>5. CountsInv'
  <2>1. /\ Within(file, Reach)' /\ Within(bak, Reach)' /\ Within(seg.text, Mark)'
        /\ (editor # None => Within(editor, Reach))'
        /\ (\A s \in removed : s <= Reach)'
    BY <1>1, <1>2 DEF CInv, CountsInv, Within
  <2>2. (up /\ ~(job.pc = "publish" /\ job.kind # "sync") => \A s \in delta : s > Mark)'
    BY <1>1, <1>2, <1>3 DEF CInv, CountsInv
  <2>3. (job # NoJob => /\ Within(job.out, IF job.kind = "sync" THEN Mark ELSE job.upto)
                        /\ \A s \in job.gone : s <= job.upto)'
    BY <1>1 DEF CInv, CountsInv, Within
  <2> QED BY <2>1, <2>2, <2>3 DEF CountsInv
<1>6. ShownInv' BY <1>2, <1>3 DEF CInv, ShownInv
<1> QED BY <1>4, <1>5, <1>6 DEF CInv

(* No job is under way: nothing is past a rename.                          *)
LEMMA NotPast == job = NoJob => ~Past /\ job.pc = "idle"
BY NotNoJob DEF Past

LEMMA EditorWithin ==
  ASSUME TypeOK, IInv, CInv
  PROVE  (editor # None => Within(editor, Reach)) /\ Within(file, Reach)
BY DEF CInv, CountsInv

(* A job begins with a text of what has been folded and what is pending.   *)
LEMMA CPatch ==
  ASSUME TypeOK, IInv, CInv, NEW by, up, job = NoJob, StartPatch(by), session' = session
  PROVE  CInv'
<1>1. job' = [pc |-> "recheck", kind |-> "patch", by |-> by, upto |-> next - 1,
              read |-> file, out |-> Patched(file, Pending), gone |-> {}]
      /\ UNCHANGED <<log, file, bak, seg, disk, up, viewVars, removed, editor>>
  BY DEF StartPatch, Start, diskVars, history
<1>2. ~Past /\ job.pc = "idle" BY NotPast
<1>3. Reach = Mark /\ \A s \in delta : s > Mark BY <1>2 DEF Reach, CInv, CountsInv
<1>4. Pending \in SUBSET Op /\ \A s \in Pending : s > Mark /\ s <= next - 1 BY <1>3 DEF Pending, TypeOK
<1>5. Mark \in Nat /\ next - 1 \in Nat /\ Mark <= next - 1 BY Numbers
<1>6. Within(Patched(file, Pending), next - 1)
  BY <1>3, <1>4, <1>5, PatchedWithin DEF CInv, CountsInv, TypeOK
<1>7. FirstInv' BY <1>1, <1>2 DEF CInv, FirstInv
<1> QED BY <1>1, <1>2, <1>6, <1>7, EditorWithin, CountsSame

LEMMA CSync ==
  ASSUME TypeOK, IInv, CInv, NEW by, up, job = NoJob, Sync(by), session' = session
  PROVE  CInv'
<1>1. job' = [pc |-> "build", kind |-> "sync", by |-> by, upto |-> next - 1,
              read |-> file, out |-> file, gone |-> {}]
      /\ UNCHANGED <<log, file, bak, seg, disk, up, viewVars, removed, editor>>
  BY DEF Sync, Start, diskVars, history
<1>2. ~Past /\ job.pc = "idle" BY NotPast
<1>3. Within(file, Mark) BY <1>2 DEF Reach, CInv, CountsInv
<1>4. FirstInv' BY <1>1 DEF FirstInv, Past
<1> QED BY <1>1, <1>2, <1>3, <1>4, EditorWithin, CountsSame

LEMMA CReplace ==
  ASSUME TypeOK, IInv, CInv, NEW by, NEW e, NEW gone, up, job = NoJob, Replace(by, e, gone),
         \A s \in gone : s <= next - 1
  PROVE  CInv'
<1>1. job' = [pc |-> "recheck", kind |-> "replace", by |-> by, upto |-> next - 1, read |-> file,
              out |-> [Missing EXCEPT !.is = "good", !.edit = e], gone |-> gone]
      /\ UNCHANGED <<log, file, bak, seg, disk, up, viewVars, removed, editor, session>>
  BY DEF Replace, diskVars, sessVars
<1>2. ~Past /\ job.pc = "idle" BY NotPast
<1>3. next - 1 \in Nat BY DEF TypeOK
<1>4. Within([Missing EXCEPT !.is = "good", !.edit = e], next - 1)
  BY <1>3 DEF Within, Missing
<1>5. FirstInv' BY <1>1, <1>2 DEF CInv, FirstInv
<1> QED BY <1>1, <1>2, <1>4, <1>5, EditorWithin, CountsSame

LEMMA CAdopt ==
  ASSUME TypeOK, IInv, CInv, up, job = NoJob, session' = session,
         Start("adopt", "bind", "recheck", Patched(mseg.text, Pending), {})
  PROVE  CInv'
<1>1. job' = [pc |-> "recheck", kind |-> "adopt", by |-> "bind", upto |-> next - 1,
              read |-> file, out |-> Patched(mseg.text, Pending), gone |-> {}]
      /\ UNCHANGED <<log, file, bak, seg, disk, up, viewVars, removed, editor>>
  BY DEF Start, diskVars, history
<1>2. ~Past /\ job.pc = "idle" BY NotPast
<1>3. mseg = seg /\ Within(seg.text, Mark) /\ \A s \in delta : s > Mark
  BY <1>2 DEF CInv, CountsInv, AgreeInv
<1>4. Pending \in SUBSET Op /\ \A s \in Pending : s > Mark /\ s <= next - 1 BY <1>3 DEF Pending, TypeOK
<1>5. Mark \in Nat /\ next - 1 \in Nat /\ Mark <= next - 1 BY Numbers
<1>6. Within(Patched(mseg.text, Pending), next - 1)
  BY <1>3, <1>4, <1>5, PatchedWithin DEF TypeOK, Segment
<1>7. FirstInv' BY <1>1, <1>2 DEF CInv, FirstInv
<1> QED BY <1>1, <1>2, <1>6, <1>7, EditorWithin, CountsSame

(* A step between jobs that moves the session, the binding or the editor.  *)
LEMMA CBetween ==
  ASSUME TypeOK, IInv, CInv, UNCHANGED <<log, file, bak, seg, disk, up, viewVars, removed, job>>,
         editor' \in {editor, None} \/ (editor' = file /\ FirstInv'),
         session' \in {"hold", "open", "syncing"} =>
           session \in {"hold", "open", "syncing"} \/ disk.fp # None \/ Past
  PROVE  CInv'
<1>1. Past' = Past BY DEF Past
<1>2. editor' # None => Within(editor', Reach) BY EditorWithin
<1>3. FirstInv' BY <1>1 DEF CInv, FirstInv
<1> QED BY <1>2, <1>3, CountsSame

LEMMA CFold ==
  ASSUME TypeOK, IInv, CInv, Fold
  PROVE  CInv'
<1> USE DEF diskVars, history
<1>1. CASE Maintain \/ IdleOrCompact
  <2>1. up /\ job = NoJob /\ FoldLoggedOnce BY <1>1 DEF Maintain, IdleOrCompact, Foldable, FoldLoggedOnce
  <2>2. CASE CanPatch BY <2>1, <2>2, CPatch DEF FoldLoggedOnce, sessVars
  <2>3. CASE ~CanPatch
    <3>1. Return("maintain", FALSE) /\ UNCHANGED <<diskVars, up, viewVars, job, history>>
      BY <2>1, <2>3 DEF FoldLoggedOnce
    <3>2. session' = session /\ editor' = editor BY <3>1 DEF Return
    <3> QED BY <3>1, <3>2, CBetween
  <2> QED BY <2>2, <2>3
<1>2. CASE ReleaseFold
  <2>1. CASE ~held /\ CanPatch BY <1>2, <2>1, CPatch DEF ReleaseFold
  <2>2. CASE ~(~held /\ CanPatch) BY <1>2, <2>2, CBetween DEF ReleaseFold
  <2> QED BY <2>1, <2>2
<1>3. CASE Clear
  <2>1. up /\ job = NoJob /\ Replace("user", edited + 1, In(file) \cup delta) BY <1>3 DEF Clear
  <2>2. ~Past BY <2>1, NotPast
  <2>3. Within(file, Mark) BY <2>2 DEF Reach, CInv, CountsInv
  <2>4. \A s \in In(file) : s \in Op /\ s <= Mark BY <2>3, InWithin
  <2>5. \A s \in delta : s \in Op BY DEF TypeOK
  <2>6. \A s \in In(file) \cup delta : s <= next - 1 BY <2>1, <2>4, <2>5, Numbers
  <2> QED BY <2>1, <2>6, CReplace
<1>4. CASE Bind
  <2>1. CASE Adopts BY <1>4, <2>1, CAdopt DEF Bind, sessVars
  <2>2. CASE ~Adopts BY <1>4, <2>2, CBetween DEF Bind, sessVars
  <2> QED BY <2>1, <2>2
<1>5. CASE BindSync
  <2>1. CASE CanSync BY <1>5, <2>1, CSync DEF BindSync, sessVars
  <2>2. CASE ~CanSync BY <1>5, <2>2, CBetween DEF BindSync, sessVars
  <2> QED BY <2>1, <2>2
<1>6. CASE SyncText BY <1>6, CSync DEF SyncText, sessVars
<1> QED BY <1>1, <1>2, <1>3, <1>4, <1>5, <1>6 DEF Fold

LEMMA CSession ==
  ASSUME TypeOK, IInv, CInv, BeginEdit \/ Session
  PROVE  CInv'
<1> USE DEF diskVars, history, Unmoved
<1>1. CASE BeginEdit BY <1>1, CBetween DEF BeginEdit, SessionStep
<1>2. CASE PrepareFold
  <2>1. CASE CanPatch BY <1>2, <2>1, CPatch DEF PrepareFold, sessVars
  <2>2. CASE ~CanPatch BY <1>2, <2>2, CBetween DEF PrepareFold, SessionStep
  <2> QED BY <2>1, <2>2
<1>3. CASE PrepareFile
  <2>1. session' = "hold" => disk.fp # None \/ Past
    BY <1>3 DEF PrepareFile, SessionStep, CInv, FirstInv
  <2>2. session' \in {"closed", "create", "hold"} /\ editor' = editor BY <1>3 DEF PrepareFile, SessionStep
  <2> QED BY <1>3, <2>1, <2>2, CBetween DEF PrepareFile
<1>4. CASE PrepareCreate
  <2>1. \A s \in {} : s <= next - 1 OBVIOUS
  <2> QED BY <1>4, <2>1, CReplace DEF PrepareCreate
<1>5. CASE Hold
  <2>1. disk.fp # None BY <1>5, NotPast DEF Hold, CInv, FirstInv
  <2>2. editor' = file /\ session' = "open" /\ UNCHANGED <<log, file, bak, seg, disk, up, viewVars, removed, job>>
    BY <1>5 DEF Hold
  <2>3. FirstInv' BY <2>1, <2>2 DEF FirstInv
  <2> QED BY <2>1, <2>2, <2>3, CBetween
<1>6. CASE EndEdit
  <2>1. editor' \in {editor, None} /\ session = "open"
        /\ UNCHANGED <<log, file, bak, seg, disk, up, viewVars, removed, job>>
    BY <1>6 DEF EndEdit
  <2> QED BY <2>1, CBetween
<1>7. CASE EndSync
  <2>1. CASE CanSync BY <1>7, <2>1, CSync DEF EndSync, sessVars
  <2>2. CASE ~CanSync BY <1>7, <2>2, CBetween DEF EndSync, SessionStep
  <2> QED BY <2>1, <2>2
<1>8. CASE Release BY <1>8, CBetween DEF Release
<1> QED BY <1>1, <1>2, <1>3, <1>4, <1>5, <1>6, <1>7, <1>8 DEF Session

(* Where a job's end leaves the session.                                   *)
LEMMA SessionAfter ==
  ASSUME NEW ok \in BOOLEAN, End(ok)
  PROVE  /\ job' = NoJob /\ editor' = editor
         /\ session' \in {"hold", "open", "syncing"} => ok \/ session \in {"hold", "open", "syncing"}
<1>1. job' = NoJob /\ editor' = editor BY DEF End, Return
<1>2. session' = CASE job.by = "begin" /\ session = "prepare" -> "file"
                   [] job.by = "begin" /\ session = "create" -> IF ok THEN "hold" ELSE "closed"
                   [] job.by = "end" -> "release"
                   [] OTHER -> session
  BY DEF End, Return
<1>3. CASE job.by = "begin" /\ session = "prepare" BY <1>1, <1>2, <1>3
<1>4. CASE job.by = "begin" /\ session = "create" BY <1>1, <1>2, <1>4
<1>5. CASE job.by = "end" BY <1>1, <1>2, <1>5
<1>6. CASE /\ ~(job.by = "begin" /\ session = "prepare")
           /\ ~(job.by = "begin" /\ session = "create") /\ job.by # "end"
  BY <1>1, <1>2, <1>6
<1> QED BY <1>3, <1>4, <1>5, <1>6

LEMMA CAborts ==
  ASSUME TypeOK, IInv, CInv, RecheckAborts \/ CommitFails
  PROVE  CInv'
<1>1. UNCHANGED <<log, file, bak, seg, disk, up, viewVars, removed>> /\ End(FALSE)
      /\ job.pc \in {"recheck", "rename"}
  BY DEF RecheckAborts, CommitFails, diskVars, history
<1>2. /\ job' = NoJob /\ editor' = editor
      /\ session' \in {"hold", "open", "syncing"} => session \in {"hold", "open", "syncing"}
  BY <1>1, SessionAfter
<1>3. ~Past BY <1>1 DEF Past
<1>4. FirstInv' BY <1>1, <1>2, <1>3 DEF CInv, FirstInv
<1>5. job'.pc = "idle" BY <1>2, NotNoJob
<1> QED BY <1>1, <1>2, <1>3, <1>4, <1>5, EditorWithin, CountsSame

LEMMA CRecheck ==
  ASSUME TypeOK, IInv, CInv, Recheck
  PROVE  CInv'
<1>1. job \in Job /\ job # NoJob BY JobThere, NotNoJob DEF Recheck
<1>2. /\ job'.pc = "rename" /\ job'.kind = job.kind /\ job'.upto = job.upto
      /\ job'.out = job.out /\ job'.gone = job.gone /\ job.pc = "recheck"
  BY <1>1 DEF Recheck, Job
<1>3. UNCHANGED <<log, seg, disk, up, viewVars, sessVars, editor, removed>> BY DEF Recheck
<1>4. Mark' = Mark /\ Reach = Mark /\ Reach' = Mark BY <1>2, <1>3 DEF Mark, Reach, Past
<1>5. Mark \in Nat BY Numbers
<1>6. file' \in {file, Missing} /\ bak' \in {file, bak} BY DEF Recheck
<1>7. Within(file', Mark) /\ Within(bak', Mark)
  BY <1>4, <1>5, <1>6, NothingWithin DEF CInv, CountsInv
<1>8. AgreeInv' BY <1>2, <1>3 DEF CInv, AgreeInv, viewVars
<1>9. CountsInv'
  <2>1. job' # NoJob BY <1>2, NotNoJob
  <2>2. Within(job'.out, IF job'.kind = "sync" THEN Mark' ELSE job'.upto) /\ \A s \in job'.gone : s <= job'.upto
    BY <1>1, <1>2, <1>4 DEF CInv, CountsInv
  <2> QED BY <2>2, <1>2, <1>3, <1>4, <1>7 DEF CInv, CountsInv, Within, viewVars
<1>10. FirstInv'
  <2>1. ~Past BY <1>2 DEF Past
  <2>2. file.is = "missing" => file' = file BY DEF Recheck
  <2> QED BY <2>1, <2>2, <1>3 DEF CInv, FirstInv, sessVars
<1>11. ShownInv' BY <1>2, <1>3 DEF CInv, ShownInv
<1> QED BY <1>8, <1>9, <1>10, <1>11 DEF CInv

LEMMA CRename ==
  ASSUME TypeOK, IInv, CInv, Rename
  PROVE  CInv'
<1>1. job \in Job /\ job # NoJob /\ job.pc = "rename" BY JobThere, NotNoJob DEF Rename
<1>2. /\ job'.pc = "build" /\ job'.kind = job.kind /\ job'.upto = job.upto
      /\ job'.out = job.out /\ job'.gone = job.gone
  BY <1>1 DEF Rename, Job
<1>3. UNCHANGED <<log, bak, seg, disk, up, viewVars, editor>> /\ file' = job.out
      /\ removed' = removed \cup job.gone
  BY DEF Rename, Committed
<1>4. job.kind # "sync" BY <1>1 DEF IInv, JobInv
<1>5. Mark' = Mark /\ Reach = Mark /\ Reach' = job.upto BY <1>1, <1>2, <1>3, <1>4 DEF Mark, Reach, Past
<1>6. Mark \in Nat /\ job.upto \in Nat /\ Mark <= job.upto BY <1>1, <1>4, Numbers
<1>7. AgreeInv' BY <1>1, <1>2, <1>3 DEF CInv, AgreeInv, viewVars
<1>8. CountsInv'
  <2>1. Within(job.out, job.upto) /\ \A s \in job.gone : s <= job.upto
    BY <1>1, <1>4 DEF CInv, CountsInv
  <2>2. Within(bak', job.upto) /\ (editor' # None => Within(editor', job.upto)) /\ Within(file', job.upto)
    BY <1>3, <1>5, <1>6, <2>1, WithinMore DEF CInv, CountsInv
  <2>3. \A s \in removed' : s <= job.upto
    <3>1. \A s \in removed : s \in Nat BY DEF TypeOK, Op
    <3>2. \A s \in removed : s <= Mark BY <1>5 DEF CInv, CountsInv
    <3> QED BY <3>1, <3>2, <2>1, <1>3, <1>6
  <2>4. Within(seg'.text, Mark') BY <1>3, <1>5 DEF CInv, CountsInv, Within
  <2>5. up' => \A s \in delta' : s > Mark' BY <1>1, <1>3, <1>5 DEF CInv, CountsInv, viewVars
  <2>6. Within(job'.out, job'.upto) /\ \A s \in job'.gone : s <= job'.upto /\ job'.kind # "sync"
    BY <1>2, <1>4, <2>1 DEF Within
  <2> QED BY <1>2, <1>4, <1>5, <2>1, <2>2, <2>3, <2>4, <2>5, <2>6 DEF CountsInv, Within
<1>9. FirstInv' BY <1>2 DEF FirstInv, Past
<1>10. ShownInv' BY <1>1, <1>2, <1>3 DEF CInv, ShownInv
<1> QED BY <1>7, <1>8, <1>9, <1>10 DEF CInv

(* What a job builds carries the marks on to where its text goes.          *)
LEMMA BuiltMark ==
  ASSUME TypeOK, IInv, AgreeInv, up, Past
  PROVE  /\ job \in Job /\ job # NoJob /\ disk = state
         /\ NewMax \in Nat /\ disk.folded \in Nat
         /\ job.kind = "sync" => NewMax <= Mark /\ Larger(disk.folded, NewMax) = Mark
                                 /\ NewState.folded = disk.folded
         /\ job.kind # "sync" => NewMax = job.upto /\ disk.folded <= job.upto
                                 /\ Larger(disk.folded, job.upto) = job.upto /\ NewState.folded = job.upto
<1>1. job \in Job /\ job # NoJob /\ disk = state BY JobThere, NotNoJob DEF Past, AgreeInv
<1>2. disk.folded \in Nat /\ mseg.max \in Nat /\ seg.max \in Nat /\ job.upto \in Nat /\ disk.folded <= Mark
  <2>1. disk.folded \in Nat /\ mseg.max \in Nat /\ seg.max \in Nat /\ job.upto \in Nat
    BY <1>1 DEF TypeOK, State, Segment, Job
  <2> QED BY <2>1 DEF Mark, Larger
<1>3. CASE job.kind = "sync"
  <2>1. NewMax = Larger(disk.folded, mseg.max) BY <1>1, <1>3 DEF NewMax
  <2>2. NewState.folded = disk.folded BY <1>1, <1>3 DEF NewState
  <2>3. CASE job.pc = "publish"
    <3>1. seg.st = "ok" /\ seg.max = NewMax BY <2>3 DEF AgreeInv, NewSegment
    <3>2. Mark = Larger(disk.folded, NewMax) BY <3>1 DEF Mark
    <3> QED BY <1>1, <1>2, <1>3, <2>1, <2>2, <3>2 DEF Larger
  <2>4. CASE job.pc # "publish"
    <3>1. mseg = seg /\ (seg.st = "ok" \/ seg = NoSegment)
      BY <2>4 DEF AgreeInv, TypeOK, Segment
    <3>2. mseg.max = (IF seg.st = "ok" THEN seg.max ELSE 0) BY <3>1 DEF NoSegment
    <3>3. Mark = NewMax BY <2>1, <3>2 DEF Mark
    <3> QED BY <1>1, <1>2, <1>3, <2>1, <2>2, <3>3 DEF Larger
  <2> QED BY <2>3, <2>4
<1>4. CASE job.kind # "sync"
  <2>1. NewMax = job.upto /\ NewState.folded = Larger(disk.folded, job.upto) BY <1>1, <1>4 DEF NewMax, NewState
  <2>2. Mark <= job.upto BY <1>1, <1>4, Numbers
  <2>3. Mark \in Nat BY Numbers
  <2>4. disk.folded <= job.upto BY <1>2, <2>2, <2>3
  <2> QED BY <1>1, <1>2, <1>4, <2>1, <2>4 DEF Larger
<1> QED BY <1>3, <1>4

(* What of CountsInv a step past the rename has to show: the marks.        *)
LEMMA CLanding ==
  ASSUME TypeOK, TypeOK', IInv, CInv, up, up', Past,
         UNCHANGED <<log, file, bak, removed, editor>>, delta' \subseteq delta,
         Mark <= Mark', Mark' <= Reach, Reach' = Reach, Within(seg'.text, Mark'),
         ~(job'.pc = "publish" /\ job'.kind # "sync") => \A s \in delta' : s > Mark',
         job' # NoJob => job'.out = job.out /\ job'.gone = job.gone /\ job'.kind = job.kind /\ job'.upto = job.upto
  PROVE  CountsInv'
<1>1. job # NoJob /\ Mark \in Nat /\ Reach \in Nat BY Numbers
<1>2. Mark' \in Nat BY TopIsNext DEF TopFacts
<1>3. job' # NoJob => /\ Within(job'.out, IF job'.kind = "sync" THEN Mark' ELSE job'.upto)
                      /\ \A s \in job'.gone : s <= job'.upto
  BY <1>1, <1>2, WithinMore DEF CInv, CountsInv
<1>4. Within(file, Reach)' /\ Within(bak, Reach)' /\ (editor # None => Within(editor, Reach))'
      /\ \A s \in removed' : s <= Reach'
  BY DEF CInv, CountsInv, Within
<1> QED BY <1>3, <1>4 DEF CountsInv, Within

LEMMA CBuild ==
  ASSUME TypeOK, TypeOK', IInv, CInv, Build
  PROVE  CInv'
<1>1. up /\ up' /\ Past /\ job.pc = "build" BY DEF Build, Past, JobRest
<1>2. /\ job \in Job /\ job # NoJob /\ disk = state
      /\ NewMax \in Nat /\ disk.folded \in Nat
      /\ job.kind = "sync" => NewMax <= Mark /\ Larger(disk.folded, NewMax) = Mark
      /\ job.kind # "sync" => NewMax = job.upto /\ Larger(disk.folded, job.upto) = job.upto
  BY <1>1, BuiltMark DEF CInv
<1>3. /\ job'.pc = "publish" /\ job'.kind = job.kind /\ job'.upto = job.upto
      /\ job'.out = job.out /\ job'.gone = job.gone
  BY <1>2 DEF Build, Job
<1>4. UNCHANGED <<log, file, bak, disk, state, mseg, next, delta, removed, editor, session>> /\ seg' = NewSegment
  BY DEF Build, JobRest, viewVars, history, sessVars
<1>5. Mark' = Larger(disk.folded, NewMax) BY <1>4 DEF Mark, NewSegment
<1>6. Mark' = Reach BY <1>1, <1>2, <1>5 DEF Reach
<1>7. Reach' = Reach /\ Past' BY <1>1, <1>3, <1>6 DEF Reach, Past
<1>8. Mark \in Nat /\ Reach \in Nat /\ Mark <= Reach BY Numbers
<1>9. Within(seg'.text, Mark')
  <2>1. seg'.text = job.out BY <1>4 DEF NewSegment
  <2> QED BY <1>1, <1>2, <1>6, <2>1 DEF CInv, CountsInv, Reach
<1>10. job.kind = "sync" => \A s \in delta' : s > Mark'
  <2>1. job.kind = "sync" => Mark' = Mark BY <1>2, <1>5
  <2> QED BY <1>1, <1>4, <2>1 DEF CInv, CountsInv
<1>11. CountsInv' BY <1>1, <1>3, <1>4, <1>6, <1>7, <1>8, <1>9, <1>10, CLanding
<1>12. AgreeInv'
  <2>1. NewSegment' = NewSegment BY <1>3, <1>4 DEF NewSegment, NewMax
  <2>2. seg'.st = "ok" BY <1>4 DEF NewSegment
  <2> QED BY <1>1, <1>3, <1>4, <2>1, <2>2 DEF CInv, AgreeInv
<1>13. FirstInv' BY <1>7 DEF FirstInv
<1>14. ShownInv' BY <1>3 DEF ShownInv
<1> QED BY <1>11, <1>12, <1>13, <1>14 DEF CInv

LEMMA CPublish ==
  ASSUME TypeOK, TypeOK', IInv, CInv, Publish
  PROVE  CInv'
<1>1. up /\ up' /\ Past /\ job.pc = "publish" /\ seg = NewSegment BY DEF Publish, Past, CInv, AgreeInv
<1>2. /\ job \in Job /\ job # NoJob /\ disk = state
      /\ NewMax \in Nat /\ disk.folded \in Nat
      /\ job.kind = "sync" => NewMax <= Mark /\ Larger(disk.folded, NewMax) = Mark
      /\ job.kind # "sync" => NewMax = job.upto /\ Larger(disk.folded, job.upto) = job.upto
  BY <1>1, BuiltMark DEF CInv
<1>3. /\ job'.pc = "save" /\ job'.kind = job.kind /\ job'.upto = job.upto
      /\ job'.out = job.out /\ job'.gone = job.gone
  BY <1>2 DEF Publish, Job
<1>4. UNCHANGED <<log, file, bak, seg, disk, state, next, removed, editor, session>>
      /\ mseg' = NewSegment /\ delta' = delta \ Dropped
  BY DEF Publish, diskVars, history, sessVars
<1>5. Mark' = Mark /\ Mark = Larger(disk.folded, NewMax) BY <1>1, <1>4 DEF Mark, NewSegment
<1>6. Mark' = Reach BY <1>1, <1>2, <1>5 DEF Reach
<1>7. Reach' = Reach /\ Past' BY <1>1, <1>3, <1>6 DEF Reach, Past
<1>8. Mark \in Nat /\ Reach \in Nat /\ Mark <= Reach BY Numbers
<1>9. \A s \in delta' : s > Mark'
  <2>1. CASE job.kind = "sync" BY <1>1, <1>4, <1>5, <2>1 DEF CInv, CountsInv
  <2>2. CASE job.kind # "sync"
    <3>1. Mark' = job.upto /\ job.upto \in Nat BY <1>2, <1>5, <2>2
    <3>2. delta' = {s \in delta : ~(s <= job.upto)} BY <1>4, <2>2 DEF Dropped
    <3>3. \A s \in delta : s \in Nat BY DEF TypeOK, Op
    <3> QED BY <3>1, <3>2, <3>3
  <2> QED BY <2>1, <2>2
<1>10. Within(seg'.text, Mark') BY <1>4, <1>5 DEF CInv, CountsInv, Within
<1>11. CountsInv' BY <1>1, <1>3, <1>4, <1>5, <1>6, <1>7, <1>8, <1>9, <1>10, CLanding
<1>12. AgreeInv'
  <2>1. NewMax' = NewMax
    <3>1. NewMax' = IF job.kind = "sync" THEN Larger(state.folded, NewMax) ELSE job.upto
      BY <1>3, <1>4 DEF NewMax, NewSegment
    <3>2. CASE job.kind = "sync"
      <4>1. state.folded \in Nat /\ mseg.max \in Nat BY DEF TypeOK, State, Segment
      <4>2. NewMax = Larger(state.folded, mseg.max) BY <3>2 DEF NewMax
      <4> QED BY <3>1, <3>2, <4>1, <4>2 DEF Larger
    <3>3. CASE job.kind # "sync" BY <3>1, <3>3 DEF NewMax
    <3> QED BY <3>2, <3>3
  <2>2. NewSegment' = NewSegment BY <1>3, <2>1 DEF NewSegment
  <2> QED BY <1>1, <1>2, <1>3, <1>4, <2>2 DEF CInv, AgreeInv
<1>13. FirstInv' BY <1>7 DEF FirstInv
<1>14. ShownInv' BY <1>3 DEF ShownInv
<1> QED BY <1>11, <1>12, <1>13, <1>14 DEF CInv

LEMMA CSave ==
  ASSUME TypeOK, TypeOK', IInv, CInv, Save
  PROVE  CInv'
<1>1. up /\ up' /\ Past /\ job.pc = "save" /\ seg = NewSegment /\ mseg = NewSegment
  BY DEF Save, Past, CInv, AgreeInv
<1>2. /\ job \in Job /\ job # NoJob /\ disk = state
      /\ NewMax \in Nat /\ disk.folded \in Nat
      /\ job.kind = "sync" => NewMax <= Mark /\ Larger(disk.folded, NewMax) = Mark
                              /\ NewState.folded = disk.folded
      /\ job.kind # "sync" => NewMax = job.upto /\ Larger(disk.folded, job.upto) = job.upto
                              /\ NewState.folded = job.upto
  BY <1>1, BuiltMark DEF CInv
<1>3. job' = NoJob /\ editor' = editor BY SessionAfter DEF Save
<1>4. job'.pc = "idle" /\ ~Past' BY <1>3, NotNoJob DEF Past
<1>5. UNCHANGED <<log, file, bak, seg, up, next, mseg, delta, removed>> /\ state' = NewState /\ disk' = NewState
  BY DEF Save, history
<1>6. Mark = Larger(disk.folded, NewMax) /\ Mark' = Larger(NewState.folded, NewMax)
  BY <1>1, <1>5 DEF Mark, NewSegment
<1>7. Mark' = Mark /\ Mark = Reach
  BY <1>1, <1>2, <1>6 DEF Reach, Larger
<1>8. Reach' = Reach BY <1>4, <1>7 DEF Reach
<1>9. Mark \in Nat /\ Reach \in Nat /\ Mark <= Reach BY Numbers
<1>10. \A s \in delta' : s > Mark' BY <1>1, <1>5, <1>7 DEF CInv, CountsInv
<1>11. Within(seg'.text, Mark') BY <1>5, <1>7 DEF CInv, CountsInv, Within
<1>12. CountsInv' BY <1>1, <1>3, <1>5, <1>7, <1>8, <1>9, <1>10, <1>11, CLanding
<1>13. AgreeInv' BY <1>1, <1>4, <1>5 DEF CInv, AgreeInv
<1>14. disk'.fp = job.out /\ disk'.fp # None /\ seg'.text = job.out
  BY <1>1, <1>2, <1>5 DEF NewState, NewSegment, Job, Content, None
<1>15. FirstInv' /\ ShownInv' BY <1>14 DEF FirstInv, ShownInv
<1> QED BY <1>12, <1>13, <1>15 DEF CInv

LEMMA CApply ==
  ASSUME TypeOK, IInv, CInv, Apply
  PROVE  CInv'
<1>1. /\ up /\ delta' = delta \cup {next}
      /\ UNCHANGED <<file, bak, seg, disk, up, mseg, state, job, sessVars, editor, removed>>
  BY DEF Apply
<1>2. Mark \in Nat /\ next \in Nat /\ Mark < next BY <1>1, Numbers
<1>3. Mark' = Mark /\ Reach' = Reach /\ Past' = Past BY <1>1 DEF Mark, Reach, Past
<1>4. CountsInv'
  <2>1. (up /\ ~(job.pc = "publish" /\ job.kind # "sync") => \A s \in delta : s > Mark)'
    BY <1>1, <1>2, <1>3 DEF CInv, CountsInv
  <2> QED BY <1>1, <1>3, <2>1 DEF CInv, CountsInv, Within
<1>5. AgreeInv' BY <1>1 DEF CInv, AgreeInv, NewSegment, NewMax
<1>6. FirstInv' /\ ShownInv' BY <1>1, <1>3 DEF CInv, FirstInv, ShownInv, sessVars
<1> QED BY <1>4, <1>5, <1>6 DEF CInv

LEMMA COpen ==
  ASSUME TypeOK, IInv, CInv, Open
  PROVE  CInv'
<1>1. /\ ~up /\ up' /\ mseg' = (IF seg.st = "ok" THEN seg ELSE NoSegment)
      /\ delta' = Replayed /\ state' = disk
      /\ UNCHANGED <<log, file, bak, seg, disk, job, session, editor, removed>>
  BY DEF Open, diskVars, history, sessVars
<1>2. job = NoJob /\ ~Past /\ job.pc = "idle" BY <1>1, NotPast DEF IInv, DownInv
<1>3. Mark' = Mark /\ Reach' = Reach /\ Past' = Past BY <1>1 DEF Mark, Reach, Past
<1>4. mseg' = seg' BY <1>1 DEF CInv, AgreeInv, TypeOK, Segment
<1>5. AgreeInv' BY <1>1, <1>2, <1>4 DEF CInv, AgreeInv
<1>6. Watermark = Mark BY DEF CInv, AgreeInv, Watermark, Mark
<1>7. CountsInv'
  <2>1. \A s \in delta' : s > Mark' BY <1>1, <1>3, <1>6 DEF Replayed
  <2>2. job' = NoJob BY <1>1, <1>2
  <2> QED BY <1>1, <1>3, <2>1, <2>2 DEF CInv, CountsInv, Within
<1>8. FirstInv' /\ ShownInv' BY <1>1, <1>3 DEF CInv, FirstInv, ShownInv
<1> QED BY <1>5, <1>7, <1>8 DEF CInv

LEMMA CCrash ==
  ASSUME Orderly, TypeOK, IInv, CInv, Crash
  PROVE  CInv'
<1>1. /\ job = NoJob /\ job' = NoJob /\ ~up' /\ session' = "closed" /\ (editor' # None => editor' = editor)
      /\ UNCHANGED <<log, file, bak, seg, disk, removed>>
  BY DEF Orderly, Crash, Halt, diskVars, history
<1>2. ~Past /\ ~Past' /\ job.pc = "idle" BY <1>1, NotPast DEF Past
<1>3. Mark' = Mark /\ Reach' = Mark' /\ Reach = Mark BY <1>1, <1>2 DEF Mark, Reach
<1>4. CountsInv' BY <1>1, <1>3 DEF CInv, CountsInv, Within
<1>5. AgreeInv' BY <1>1, <1>2 DEF CInv, AgreeInv
<1>6. FirstInv' /\ ShownInv' BY <1>1, <1>2 DEF CInv, FirstInv, ShownInv
<1> QED BY <1>4, <1>5, <1>6 DEF CInv

(* The user or an editor changes the file.                                 *)
LEMMA COutside ==
  ASSUME TypeOK, IInv, CInv, Outside, bak' = bak, Within(file', Reach),
         editor' # None => Within(editor', Reach), \A s \in removed' : s <= Reach,
         FirstInv'
  PROVE  CInv'
<1>1. UNCHANGED <<log, seg, disk, up, viewVars, job, sessVars>> BY DEF Outside
<1>2. Mark' = Mark /\ Reach' = Reach BY <1>1 DEF Mark, Reach, Past
<1>3. CountsInv' BY <1>1, <1>2 DEF CInv, CountsInv, Within, viewVars
<1>4. AgreeInv' /\ ShownInv' BY <1>1 DEF CInv, AgreeInv, ShownInv, NewSegment, NewMax, viewVars
<1> QED BY <1>3, <1>4 DEF CInv

LEMMA CUser ==
  ASSUME TypeOK, IInv, CInv, User
  PROVE  CInv'
<1>1. ASSUME NEW S \in SUBSET Op, NEW is \in {"good", "bad"}, EditorSaves(S, is) PROVE CInv'
  <2>1. editor # None /\ S \subseteq In(editor) /\ Outside /\ bak' = bak /\ editor' = file'
        /\ removed' \subseteq removed \cup In(editor)
    BY <1>1 DEF EditorSaves
  <2>2. \A s \in Op : file'.ops[s] = IF s \in S THEN editor.ops[s] ELSE 0 BY <1>1 DEF EditorSaves
  <2>3. Within(editor, Reach) BY <2>1 DEF CInv, CountsInv
  <2>4. Reach \in Nat BY Numbers
  <2>5. Within(file', Reach) BY <2>2, <2>3, <2>4 DEF Within
  <2>6. \A s \in removed' : s <= Reach BY <2>1, <2>3, InWithin DEF CInv, CountsInv
  <2>7. disk' = disk /\ Past' = Past BY <2>1 DEF Outside, Past
  <2>8. FirstInv' BY <2>1, <2>7 DEF CInv, FirstInv
  <2> QED BY <2>1, <2>5, <2>6, <2>8, COutside DEF Within
<1>2. CASE EditorOpens
  <2>1. Outside /\ bak' = bak /\ file' = file /\ removed' = removed /\ file.is # "missing" /\ editor' = file
    BY <1>2 DEF EditorOpens, history
  <2>2. disk' = disk /\ Past' = Past BY <2>1 DEF Outside, Past
  <2>3. FirstInv' BY <2>1, <2>2 DEF CInv, FirstInv
  <2> QED BY <2>1, <2>3, EditorWithin, COutside DEF CInv, CountsInv
<1>3. CASE EditorCloses
  <2>1. Outside /\ bak' = bak /\ file' = file /\ removed' = removed /\ editor' = None
    BY <1>3 DEF EditorCloses, history
  <2>2. disk' = disk /\ Past' = Past /\ session' = session BY <2>1 DEF Outside, Past, sessVars
  <2>3. FirstInv' BY <2>1, <2>2 DEF CInv, FirstInv
  <2> QED BY <2>1, <2>3, EditorWithin, COutside DEF CInv, CountsInv
<1>4. ASSUME NEW c \in {Missing, bak}, UserReplaces(c) PROVE CInv'
  <2>1. Outside /\ bak' = bak /\ file' = c /\ file.is # "missing" /\ editor' = editor
        /\ removed' \subseteq removed \cup In(file)
    BY <1>4 DEF UserReplaces
  <2>2. Reach \in Nat BY Numbers
  <2>3. Within(c, Reach) BY <1>4, <2>2, NothingWithin DEF CInv, CountsInv
  <2>4. \A s \in removed' : s <= Reach BY <2>1, InWithin DEF CInv, CountsInv
  <2>5. disk' = disk /\ Past' = Past BY <2>1 DEF Outside, Past
  <2>6. FirstInv' BY <2>1, <2>5 DEF CInv, FirstInv
  <2> QED BY <2>1, <2>3, <2>4, <2>6, EditorWithin, COutside
<1> QED BY <1>1, <1>2, <1>3, <1>4 DEF User

LEMMA CNext ==
  ASSUME Orderly, TypeOK, TypeOK', IInv, CInv, [Next]_vars
  PROVE  CInv'
<1>1. CASE Open BY <1>1, COpen
<1>2. CASE Apply BY <1>2, CApply
<1>3. CASE Fold BY <1>3, CFold
<1>4. CASE JobStep
  BY <1>4, CRecheck, CAborts, CRename, CBuild, CPublish, CSave DEF JobStep
<1>5. CASE JobFails
  <2>1. CommitFails BY <1>5 DEF JobFails, RenameFailsLate, BuildFails, SaveFails, Orderly
  <2> QED BY <2>1, CAborts
<1>6. CASE Prune
  <2>1. UNCHANGED <<file, bak, seg, disk, up, next, mseg, delta, state, job, session, editor, removed>>
    BY <1>6 DEF Prune, JobRest, viewVars, history, sessVars
  <2>2. Mark' = Mark /\ Reach' = Reach /\ Past' = Past BY <2>1 DEF Mark, Reach, Past
  <2>3. CountsInv' BY <2>1, <2>2 DEF CInv, CountsInv, Within
  <2>4. AgreeInv' BY <2>1 DEF CInv, AgreeInv, NewSegment, NewMax
  <2>5. FirstInv' /\ ShownInv' BY <2>1, <2>2 DEF CInv, FirstInv, ShownInv
  <2> QED BY <2>3, <2>4, <2>5 DEF CInv
<1>7. CASE BeginEdit \/ Session BY <1>7, CSession
<1>8. CASE User BY <1>8, CUser
<1>9. CASE TimePasses \/ UNCHANGED vars
  <2>1. UNCHANGED <<log, file, bak, seg, disk, up, viewVars, job, session, editor, removed>>
    BY <1>9 DEF TimePasses, vars, diskVars, history, sessVars
  <2> QED BY <2>1, CBetween
<1>10. CASE Crash BY <1>10, CCrash
<1>11. ~SegmentRots /\ ~StateRots BY DEF SegmentRots, StateRots, Orderly
<1> QED BY <1>1, <1>2, <1>3, <1>4, <1>5, <1>6, <1>7, <1>8, <1>9, <1>10, <1>11 DEF Next, Environment

LEMMA InitCInv == Init => CInv
<1> SUFFICES ASSUME Init PROVE CInv
  OBVIOUS
<1>1. /\ file = Missing /\ bak = Missing /\ up = FALSE /\ job = NoJob /\ session = "closed"
      /\ editor = None /\ removed = {}
  BY DEF Init
<1>2. ~Past /\ job.pc = "idle" BY <1>1, NotPast
<1>3. Mark \in Nat BY TypeInit, TopIs DEF TopFacts
<1>4. Reach = Mark BY <1>2 DEF Reach
<1>5. Within(seg.text, Mark) /\ AgreeInv /\ disk.fp = None
  <2>1. CASE Fresh
    <3>1. seg = NoSegment /\ disk = NoState BY <2>1 DEF Fresh
    <3> QED BY <1>1, <1>2, <1>3, <3>1, NothingWithin DEF AgreeInv, NoSegment, NoState
  <2>2. CASE Legacy
    <3>1. seg.st = "ok" /\ seg.max = 1 /\ disk.fp = None /\ disk.folded = 1
          /\ seg.text.ops = [s \in Op |-> IF s = 1 THEN 1 ELSE 0]
      BY <2>2 DEF Legacy, NoState
    <3>2. Mark = 1 BY <3>1 DEF Mark, Larger
    <3>3. Within(seg.text, Mark) BY <3>1, <3>2 DEF Within
    <3> QED BY <1>1, <1>2, <3>1, <3>3 DEF AgreeInv
  <2> QED BY <2>1, <2>2 DEF Init
<1>6. CountsInv BY <1>1, <1>3, <1>4, <1>5, NothingWithin DEF CountsInv
<1>7. FirstInv /\ ShownInv BY <1>1, <1>5, InMissing DEF FirstInv, ShownInv
<1> QED BY <1>5, <1>6, <1>7 DEF CInv

LEMMA CountsOnce == TypeOK /\ IInv /\ CInv => NoDoubleApply /\ SegmentShowsText
<1> SUFFICES ASSUME TypeOK, IInv, CInv PROVE NoDoubleApply /\ SegmentShowsText
  OBVIOUS
<1>1. \A s \in Op : file.ops[s] <= 1 BY DEF CInv, CountsInv, Within
<1>2. ASSUME bound = "yes", job = NoJob
      PROVE  In(mseg.text) \cap delta = {} /\ mseg = seg /\ state = disk
  <2>1. up BY <1>2 DEF IInv, DownInv
  <2>2. ~Past /\ job.pc = "idle" BY <1>2, NotPast
  <2>3. mseg = seg /\ state = disk /\ \A s \in delta : s > Mark BY <2>1, <2>2 DEF CInv, AgreeInv, CountsInv
  <2>4. \A s \in In(mseg.text) : s \in Op /\ s <= Mark BY <2>3, InWithin DEF CInv, CountsInv
  <2>5. Mark \in Nat /\ \A s \in Op : s \in Nat BY Numbers
  <2> QED BY <2>3, <2>4, <2>5
<1>3. SegmentShowsText
  <2>1. SUFFICES ASSUME bound = "yes", job = NoJob, mseg.st = "ok", state.fp = file
                 PROVE  mseg.text = file
    BY DEF SegmentShowsText
  <2>2. file # None BY DEF TypeOK, Content, None
  <2>3. job.pc = "idle" BY <2>1, NotPast
  <2> QED BY <2>1, <2>2, <2>3, <1>2 DEF CInv, ShownInv
<1> QED BY <1>1, <1>2, <1>3 DEF NoDoubleApply

LEMMA CountsKept ==
  ASSUME Orderly
  PROVE  Spec => [](TypeOK /\ IInv /\ CInv)
<1>1. Init => TypeOK /\ IInv /\ CInv BY TypeInit, InitIInv, InitCInv
<1>2. TypeOK /\ IInv /\ CInv /\ [Next]_vars => (TypeOK /\ IInv /\ CInv)'
  <2>1. "write_in_begin" \notin Faults BY DEF Orderly
  <2> QED BY <2>1, TypeNext, INext, CNext
<1> QED BY <1>1, <1>2, PTL DEF Spec

(* With folds that end, restarts between them and any saves, no count is   *)
(* added to the text twice, and none is shown twice by a query.            *)
THEOREM CountedOnce ==
  ASSUME Orderly
  PROVE  Spec => []NoDoubleApply
BY CountsKept, CountsOnce, PTL

(* Under the same faults sync_text may trust the recorded fingerprint.     *)
THEOREM FingerprintTrusted ==
  ASSUME Orderly
  PROVE  Spec => []SegmentShowsText
BY CountsKept, CountsOnce, PTL

-----------------------------------------------------------------------------
LEMMA GoneSame ==
  ASSUME GoneInv, UNCHANGED <<file, removed, disk>>, delta \subseteq delta',
         job' = job \/ job'.pc \notin {"recheck", "rename"}
  PROVE  GoneInv'
BY DEF GoneInv, In

LEMMA GoneStop ==
  ASSUME GoneInv, UNCHANGED <<file, removed>>, job'.pc \notin {"recheck", "rename"}
  PROVE  GoneInv'
BY DEF GoneInv, In

(* The numbers the user has removed lie below those still pending.         *)
LEMMA RemovedBelow ==
  ASSUME TypeOK, IInv, CInv, up, ~Past
  PROVE  removed \cap delta = {}
<1>1. Reach = Mark /\ ~(job.pc = "publish" /\ job.kind # "sync") BY DEF Reach, Past
<1>2. (\A s \in removed : s <= Mark) /\ \A s \in delta : s > Mark BY <1>1 DEF CInv, CountsInv
<1>3. Mark \in Nat /\ \A s \in delta : s \in Nat BY Numbers DEF TypeOK
<1> QED BY <1>2, <1>3

LEMMA GonePatch ==
  ASSUME TypeOK, GoneInv, NEW by, StartPatch(by)
  PROVE  GoneInv'
<1>1. job' = [pc |-> "recheck", kind |-> "patch", by |-> by, upto |-> next - 1,
              read |-> file, out |-> Patched(file, Pending), gone |-> {}]
      /\ UNCHANGED <<file, disk, removed, delta>>
  BY DEF StartPatch, Start, diskVars, history, viewVars
<1>2. Pending \in SUBSET Op /\ Pending \subseteq delta BY DEF Pending, TypeOK
<1>3. In(Patched(file, Pending)) = In(file) \cup Pending BY <1>2, InPatched DEF TypeOK
<1>4. In(job'.out) = In(file) \cup Pending /\ In(job'.read) = In(file) /\ In(file') = In(file)
  BY <1>1, <1>3 DEF In
<1> QED BY <1>1, <1>2, <1>4 DEF GoneInv

LEMMA GoneReplace ==
  ASSUME GoneInv, NEW by, NEW e, NEW gone, Replace(by, e, gone)
  PROVE  GoneInv'
<1>1. /\ job'.pc = "recheck" /\ job'.kind = "replace"
      /\ job'.out = [Missing EXCEPT !.is = "good", !.edit = e]
      /\ UNCHANGED <<file, removed>>
  BY DEF Replace, diskVars
<1>2. In(job'.out) = {} /\ In(file') = In(file) BY <1>1 DEF In, Missing
<1> QED BY <1>1, <1>2 DEF GoneInv

LEMMA GoneSync ==
  ASSUME GoneInv, NEW by, Sync(by)
  PROVE  GoneInv'
BY GoneStop DEF Sync, Start, diskVars, history

LEMMA GoneFold ==
  ASSUME TypeOK, IInv, CInv, GoneInv, Fold
  PROVE  GoneInv'
<1> USE DEF diskVars, history, viewVars
<1>1. CASE Maintain \/ IdleOrCompact
  BY <1>1, GonePatch, GoneSame DEF Maintain, IdleOrCompact, FoldLoggedOnce
<1>2. CASE ReleaseFold BY <1>2, GonePatch, GoneSame DEF ReleaseFold
<1>3. CASE Clear BY <1>3, GoneReplace DEF Clear
<1>4. CASE Bind
  <2>1. CASE Adopts
    <3>1. Start("adopt", "bind", "recheck", Patched(mseg.text, Pending), {}) /\ up /\ job = NoJob
      BY <1>4, <2>1 DEF Bind
    <3>2. /\ job'.pc = "recheck" /\ job'.kind = "adopt" /\ job'.gone = {}
          /\ UNCHANGED <<file, removed, disk>>
      BY <3>1 DEF Start
    <3>3. state = disk BY <3>1 DEF CInv, AgreeInv
    <3>4. In(file') = In(file) BY <3>2 DEF In
    <3> QED BY <2>1, <3>2, <3>3, <3>4 DEF GoneInv, Adopts
  <2>2. CASE ~Adopts BY <1>4, <2>2, GoneSame DEF Bind
  <2> QED BY <2>1, <2>2
<1>5. CASE BindSync BY <1>5, GoneSync, GoneSame DEF BindSync
<1>6. CASE SyncText BY <1>6, GoneSync DEF SyncText
<1> QED BY <1>1, <1>2, <1>3, <1>4, <1>5, <1>6 DEF Fold

LEMMA GoneJob ==
  ASSUME TypeOK, IInv, CInv, GoneInv, JobStep \/ CommitFails
  PROVE  GoneInv'
<1> USE DEF diskVars, history, viewVars
<1>0. NoJob.pc = "idle" BY DEF NoJob
<1>1. CASE Recheck
  <2>1. job \in Job /\ job # NoJob BY <1>1, JobThere, NotNoJob DEF Recheck
  <2>2. job'.pc = "rename" /\ job'.kind = job.kind /\ job'.out = job.out /\ job'.gone = job.gone
        /\ job.pc = "recheck" /\ up /\ (job.kind = "replace" \/ file = job.read)
    BY <1>1, <2>1 DEF Recheck, Job
  <2>3. removed' = removed /\ file' \in {file, Missing} BY <1>1 DEF Recheck
  <2>4. removed \cap delta = {} BY <2>2, RemovedBelow DEF Past
  <2>5. removed \cap In(job.out) = {}
    <3>1. CASE job.kind = "replace" BY <2>2, <3>1 DEF GoneInv
    <3>2. CASE job.kind = "patch" BY <2>2, <2>4, <3>2 DEF GoneInv
    <3>3. CASE job.kind = "adopt" BY <2>2, <3>3 DEF GoneInv, CInv, FirstInv, Past
    <3>4. job.kind # "sync" BY <2>1, <2>2 DEF IInv, JobInv
    <3> QED BY <2>1, <3>1, <3>2, <3>3, <3>4 DEF Job
  <2>6. removed \cap In(file') = {}
    <3>1. CASE file' = file BY <3>1 DEF GoneInv, In
    <3>2. CASE file' = Missing
      <4>1. In(file') = {} BY <3>2 DEF In, Missing
      <4> QED BY <4>1
    <3> QED BY <2>3, <3>1, <3>2
  <2>7. In(job'.out) = In(job.out) BY <2>2 DEF In
  <2> QED BY <2>2, <2>3, <2>5, <2>6, <2>7 DEF GoneInv
<1>2. CASE RecheckAborts \/ CommitFails
  BY <1>0, <1>2, GoneStop DEF RecheckAborts, CommitFails, End
<1>3. CASE Rename
  <2>1. job \in Job /\ job.pc = "rename" BY <1>3, JobThere DEF Rename
  <2>2. job'.pc = "build" BY <1>3, <2>1 DEF Rename, Job
  <2>3. file' = job.out /\ removed' = removed \cup job.gone BY <1>3 DEF Rename, Committed
  <2>4. In(file') = In(job.out) BY <2>3 DEF In
  <2> QED BY <2>1, <2>2, <2>3, <2>4 DEF GoneInv
<1>4. CASE Build \/ Publish \/ Save
  <2>1. job \in Job BY <1>4, JobThere DEF Build, Publish, Save
  <2>2. job'.pc \notin {"recheck", "rename"} BY <1>4, <2>1, <1>0 DEF Build, Publish, Save, End, Job
  <2> QED BY <1>4, <2>2, GoneStop DEF Build, Publish, Save, JobRest
<1> QED BY <1>1, <1>2, <1>3, <1>4 DEF JobStep

LEMMA GoneUser ==
  ASSUME "late_save" \notin Faults, TypeOK, GoneInv, User
  PROVE  GoneInv'
<1>1. ASSUME UNCHANGED <<job, disk, delta>>, job.pc # "rename", removed' \cap In(file') = {} PROVE GoneInv'
  BY <1>1 DEF GoneInv, In
<1>2. ASSUME NEW S \in SUBSET Op, NEW is \in {"good", "bad"}, EditorSaves(S, is) PROVE GoneInv'
  <2>1. /\ UNCHANGED <<job, disk, delta>> /\ job.pc # "rename"
        /\ removed' = (removed \cup (In(editor) \ S)) \ S
    BY <1>2 DEF EditorSaves, Outside, Quiet, viewVars
  <2>2. \A s \in In(file') : s \in S BY <1>2 DEF EditorSaves, In
  <2> QED BY <1>1, <2>1, <2>2
<1>3. CASE EditorOpens \/ EditorCloses
  BY <1>3, GoneSame DEF EditorOpens, EditorCloses, Outside, viewVars, history
<1>4. ASSUME NEW c \in {Missing, bak}, UserReplaces(c) PROVE GoneInv'
  <2>1. /\ UNCHANGED <<job, disk, delta>> /\ job.pc # "rename" /\ file' = c
        /\ removed' = (removed \cup (In(file) \ In(c))) \ In(c)
    BY <1>4 DEF UserReplaces, Outside, Quiet, viewVars
  <2>2. In(file') = In(c) BY <2>1 DEF In
  <2> QED BY <1>1, <2>1, <2>2
<1> QED BY <1>2, <1>3, <1>4 DEF User

LEMMA GoneNext ==
  ASSUME Orderly, "late_save" \notin Faults, TypeOK, IInv, CInv, GoneInv, [Next]_vars
  PROVE  GoneInv'
<1> USE DEF diskVars, history, viewVars
<1>0. NoJob.pc = "idle" BY DEF NoJob
<1>1. CASE Open
  <2>1. job' = NoJob BY <1>1 DEF Open, IInv, DownInv
  <2> QED BY <1>0, <1>1, <2>1, GoneStop DEF Open
<1>2. CASE Apply BY <1>2, GoneSame DEF Apply
<1>3. CASE Fold BY <1>3, GoneFold
<1>4. CASE JobStep \/ CommitFails BY <1>4, GoneJob
<1>5. ~RenameFailsLate /\ ~BuildFails /\ ~SaveFails /\ ~SegmentRots /\ ~StateRots
  BY DEF Orderly, RenameFailsLate, BuildFails, SaveFails, SegmentRots, StateRots
<1>6. CASE Prune BY <1>6, GoneSame DEF Prune, JobRest
<1>7. CASE BeginEdit \/ Session
  <2>1. CASE PrepareFold BY <2>1, GonePatch, GoneSame DEF PrepareFold, Unmoved
  <2>2. CASE PrepareCreate BY <2>2, GoneReplace DEF PrepareCreate
  <2>3. CASE EndSync BY <2>3, GoneSync, GoneSame DEF EndSync, Unmoved
  <2>4. CASE BeginEdit \/ PrepareFile \/ Hold \/ EndEdit \/ Release
    BY <2>4, GoneSame DEF BeginEdit, PrepareFile, Hold, EndEdit, Release, Unmoved
  <2> QED BY <1>7, <2>1, <2>2, <2>3, <2>4 DEF Session
<1>8. CASE User BY <1>8, GoneUser
<1>9. CASE TimePasses \/ UNCHANGED vars BY <1>9, GoneSame DEF TimePasses, vars
<1>10. CASE Crash BY <1>0, <1>10, GoneStop DEF Crash, Halt
<1> QED
  BY <1>1, <1>2, <1>3, <1>4, <1>5, <1>6, <1>7, <1>8, <1>9, <1>10 DEF Next, JobFails, Environment

(* What the user has deleted from the text does not come back, whether a   *)
(* fold, a sync, a restart or an old version of the file follows.          *)
THEOREM RemovedStaysRemoved ==
  ASSUME Orderly, "late_save" \notin Faults
  PROVE  Spec => []NotResurrected
<1>1. Init => TypeOK /\ IInv /\ CInv /\ GoneInv
  <2>1. Init => GoneInv BY DEF Init, GoneInv, NoJob
  <2> QED BY <2>1, TypeInit, InitIInv, InitCInv
<1>2. TypeOK /\ IInv /\ CInv /\ GoneInv /\ [Next]_vars => (TypeOK /\ IInv /\ CInv /\ GoneInv)'
  <2>1. "write_in_begin" \notin Faults BY DEF Orderly
  <2> QED BY <2>1, TypeNext, INext, CNext, GoneNext
<1>3. GoneInv => NotResurrected BY DEF GoneInv, NotResurrected
<1> QED BY <1>1, <1>2, <1>3, PTL DEF Spec
=============================================================================
