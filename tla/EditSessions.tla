---------------------------- MODULE EditSessions ----------------------------
(***************************************************************************)
(* The edit sessions of wind-store (external_edit.rs): a client begins to  *)
(* edit a data file in an external editor, which holds the write-back of a *)
(* word file and blocks changes of a small table from the user interface;  *)
(* it ends by a request or when its lease has run out.  begin_edit works   *)
(* under the session lock as a whole; end_edit reads the generation, syncs *)
(* without a lock, and closes under the lock if the generation is the same.*)
(***************************************************************************)
EXTENDS Integers, FiniteSets

CONSTANTS
  File,      (* files that can be edited                                   *)
  Holdable,  (* those whose write-back a session holds (words, learned)    *)
  Client,    (* threads that serve end_edit requests                       *)
  MaxGen,    (* most begins; bounds the model                              *)
  MaxWrite,  (* most changes from the user interface; bounds the model     *)
  Faults     (* orders of steps a run allows                               *)

FaultKinds ==
  { "rebegin_at_expiry", (* a begin while the expiry of this file goes on  *)
    "begin_at_write",    (* a begin between a write's check and the write  *)
    "sync_fails"         (* the sync of end_edit returns an error          *) }

ASSUME FilesAssumption == Holdable \subseteq File
ASSUME BoundsAssumption == MaxGen \in Nat /\ MaxWrite \in Nat
ASSUME FaultsAssumption == Faults \subseteq FaultKinds

VARIABLES
  sess,    (* edit_sessions: the generation per file, 0 for no session     *)
  gen,     (* NEXT_GENERATION                                              *)
  held,    (* the targets whose write-back is held                         *)
  active,  (* EditEntry.active lies within the lease                       *)
  saved,   (* the modification time of the file lies within the lease      *)
  end,     (* per client: where its end_edit is                            *)
  expiry,  (* where expire_edit_sessions is                                *)
  writer,  (* a change of a small table from the user interface            *)
  table,   (* per file: the changes from the user interface it holds       *)
  editor,  (* per file: the changes the open editor has read, or Closed    *)
  wanted,  (* history: files begun and neither ended nor expired since     *)
  done     (* history: per file the changes that returned Ok               *)

sessVars == <<sess, gen, held, active, saved>>
fileVars == <<table, editor, done>>
vars == <<sessVars, end, expiry, writer, fileVars, wanted>>

Change == 1..MaxWrite
Closed == {0}
NoEnd == [pc |-> "idle"]
NoExpiry == [pc |-> "idle"]
NoWriter == [pc |-> "idle"]
Seen == [File -> 0..MaxGen]

Init ==
  /\ sess = [f \in File |-> 0] /\ gen = 1 /\ held = {}
  /\ active = [f \in File |-> FALSE] /\ saved = [f \in File |-> FALSE]
  /\ end = [c \in Client |-> NoEnd] /\ expiry = NoExpiry /\ writer = NoWriter
  /\ table = [f \in File |-> {}] /\ editor = [f \in File |-> Closed]
  /\ wanted = {} /\ done = [f \in File |-> {}]

-----------------------------------------------------------------------------
(* begin_edit: a running session gets a new generation and a new lease; a  *)
(* new one holds the write-back first.  The client then opens the file.    *)
Expiring == IF expiry.pc = "idle" THEN {} ELSE {f \in File : expiry.todo[f] # 0}
Writing(f) == writer.pc = "write" /\ writer.file = f

(* prepare_words_edit, prepare_learned_edit; the other files have no hold. *)
Hold(f) == held \cup ({f} \cap Holdable)

Begin(f) ==
  /\ gen <= MaxGen
  /\ f \in Expiring => "rebegin_at_expiry" \in Faults
  /\ Writing(f) => "begin_at_write" \in Faults
  /\ sess' = [sess EXCEPT ![f] = gen] /\ gen' = gen + 1
  /\ active' = [active EXCEPT ![f] = TRUE]
  /\ held' = IF sess[f] = 0 THEN Hold(f) ELSE held
  /\ editor' = [editor EXCEPT ![f] = IF @ = Closed THEN table[f] ELSE @]
  /\ wanted' = wanted \cup {f}
  /\ UNCHANGED <<saved, end, expiry, writer, table, done>>

(* Mutant: whoever ends closes what is there.                              *)
CloseAnyway(f, g) ==
  /\ sess' = [sess EXCEPT ![f] = 0] /\ held' = held \ {f}

(* Mutant: the session is dropped and the hold forgotten.                  *)
CloseKeepsHold(f, g) ==
  IF sess[f] = g THEN sess' = [sess EXCEPT ![f] = 0] /\ UNCHANGED held
                 ELSE UNCHANGED <<sess, held>>

(* close_session: only the generation it has read.                         *)
CloseSession(f, g) ==
  IF sess[f] = g THEN sess' = [sess EXCEPT ![f] = 0] /\ held' = held \ {f}
                 ELSE UNCHANGED <<sess, held>>

Closing(f, g) == CloseSession(f, g) /\ UNCHANGED <<gen, active, saved>>

(* end_edit on request; the user has closed the editor.                    *)
EndRead(c, f) ==
  /\ end[c].pc = "idle" /\ f \in wanted
  /\ end' = [end EXCEPT ![c] = [pc |-> "sync", file |-> f, gen |-> sess[f]]]
  /\ wanted' = wanted \ {f}
  /\ editor' = [editor EXCEPT ![f] = Closed]
  /\ UNCHANGED <<sessVars, expiry, writer, table, done>>

EndSync(c) ==
  /\ end[c].pc = "sync"
  /\ \/ end' = [end EXCEPT ![c].pc = "close"]
     \/ "sync_fails" \in Faults /\ end' = [end EXCEPT ![c] = NoEnd]
  /\ UNCHANGED <<sessVars, expiry, writer, fileVars, wanted>>

EndClose(c) ==
  /\ end[c].pc = "close"
  /\ Closing(end[c].file, end[c].gen)
  /\ end' = [end EXCEPT ![c] = NoEnd]
  /\ UNCHANGED <<expiry, writer, fileVars, wanted>>

-----------------------------------------------------------------------------
(* expire_edit_sessions: a copy of the sessions and of their `active`, then*)
(* the modification times, then one file after the other.                  *)
ExpireCopy ==
  /\ expiry.pc = "idle" /\ \E f \in File : sess[f] # 0
  /\ expiry' = [pc |-> "decide", todo |-> [f \in File |-> IF active[f] THEN 0 ELSE sess[f]],
                file |-> CHOOSE f \in File : TRUE, gen |-> 0]
  /\ UNCHANGED <<sessVars, end, writer, fileVars, wanted>>

(* What is decided on counts as no longer wanted, and its editor as gone.  *)
ExpireDecide ==
  /\ expiry.pc = "decide"
  /\ LET due == {f \in File : expiry.todo[f] # 0 /\ ~saved[f]}
         gone == {f \in due : sess[f] = expiry.todo[f]}
     IN /\ expiry' = IF due = {} THEN NoExpiry
                     ELSE [expiry EXCEPT !.pc = "next",
                             !.todo = [f \in File |-> IF f \in due THEN @[f] ELSE 0]]
        /\ wanted' = wanted \ gone
        /\ editor' = [f \in File |-> IF f \in gone THEN Closed ELSE editor[f]]
  /\ UNCHANGED <<sessVars, end, writer, table, done>>

(* Its end_edit reads the generation of now, not the one decided on.       *)
ExpireRead(f) ==
  /\ expiry.pc = "next" /\ expiry.todo[f] # 0
  /\ expiry' = [expiry EXCEPT !.pc = "sync", !.file = f, !.gen = sess[f]]
  /\ UNCHANGED <<sessVars, end, writer, fileVars, wanted>>

ExpireSync ==
  /\ expiry.pc = "sync"
  /\ \/ expiry' = [expiry EXCEPT !.pc = "close"]
     \/ /\ "sync_fails" \in Faults
        /\ expiry' = [expiry EXCEPT !.pc = "recover"]
  /\ UNCHANGED <<sessVars, end, writer, fileVars, wanted>>

ExpireGoesOn ==
  LET rest == [expiry.todo EXCEPT ![expiry.file] = 0]
  IN expiry' = IF \A f \in File : rest[f] = 0 THEN NoExpiry
               ELSE [expiry EXCEPT !.pc = "next", !.todo = rest]

ExpireClose ==
  /\ expiry.pc = "close"
  /\ Closing(expiry.file, expiry.gen) /\ ExpireGoesOn
  /\ UNCHANGED <<end, writer, fileVars, wanted>>

(* Mutant: a session whose sync fails stays.                               *)
LeaveOpen ==
  /\ expiry.pc = "recover"
  /\ ExpireGoesOn
  /\ UNCHANGED <<sessVars, end, writer, fileVars, wanted>>

(* A sync that fails does not keep the session; here the generation is the *)
(* one decided on.                                                         *)
ExpireRecover ==
  /\ expiry.pc = "recover"
  /\ Closing(expiry.file, expiry.todo[expiry.file]) /\ ExpireGoesOn
  /\ UNCHANGED <<end, writer, fileVars, wanted>>

-----------------------------------------------------------------------------
(* Mutant: changes are not blocked.                                        *)
NeverBlocked(f) == TRUE

(* check_not_editing                                                       *)
NotEditing(f) == sess[f] = 0

(* A change of a small table looks for a session, then writes.             *)
WriteCheck(f) ==
  /\ writer.pc = "idle" /\ f \notin Holdable /\ NotEditing(f)
  /\ \E i \in Change : /\ \A g \in File : i \notin done[g]
                       /\ writer' = [pc |-> "write", file |-> f, id |-> i]
  /\ UNCHANGED <<sessVars, end, expiry, fileVars, wanted>>

Write ==
  /\ writer.pc = "write"
  /\ table' = [table EXCEPT ![writer.file] = @ \cup {writer.id}]
  /\ done' = [done EXCEPT ![writer.file] = @ \cup {writer.id}]
  /\ writer' = NoWriter
  /\ UNCHANGED <<sessVars, end, expiry, editor, wanted>>

(* The editor writes what it had read, with the user's edits.              *)
EditorSaves(f) ==
  /\ editor[f] # Closed
  /\ table' = [table EXCEPT ![f] = editor[f]]
  /\ saved' = [saved EXCEPT ![f] = TRUE]
  /\ UNCHANGED <<sess, gen, held, active, end, expiry, writer, editor, wanted, done>>

LeaseRunsOut(f) ==
  /\ active[f] \/ saved[f]
  /\ active' = [active EXCEPT ![f] = FALSE] /\ saved' = [saved EXCEPT ![f] = FALSE]
  /\ UNCHANGED <<sess, gen, held, end, expiry, writer, fileVars, wanted>>

-----------------------------------------------------------------------------
End == \E c \in Client : (\E f \in File : EndRead(c, f)) \/ EndSync(c) \/ EndClose(c)
Expire == \/ ExpireCopy \/ ExpireDecide \/ ExpireSync \/ ExpireClose \/ ExpireRecover
          \/ \E f \in File : ExpireRead(f)
Environment == \E f \in File : WriteCheck(f) \/ EditorSaves(f) \/ LeaseRunsOut(f)

Next == (\E f \in File : Begin(f)) \/ End \/ Expire \/ Write \/ Environment

Spec == Init /\ [][Next]_vars

(* The thread of spawn_small_file_flusher comes round.                     *)
FairSpec == Spec /\ WF_vars(Expire)

-----------------------------------------------------------------------------
(* Every variable has its type.                                            *)
Step == [file : File, gen : 0..MaxGen]
TypeOK ==
  /\ sess \in Seen /\ gen \in 1..(MaxGen + 1) /\ held \subseteq Holdable
  /\ active \in [File -> BOOLEAN] /\ saved \in [File -> BOOLEAN]
  /\ end \in [Client -> [pc : {"sync", "close"}, file : File, gen : 0..MaxGen] \cup {NoEnd}]
  /\ expiry \in [pc : {"decide", "next", "sync", "close", "recover"}, todo : Seen,
                 file : File, gen : 0..MaxGen] \cup {NoExpiry}
  /\ writer \in [pc : {"write"}, file : File, id : Change] \cup {NoWriter}
  /\ table \in [File -> SUBSET Change]
  /\ editor \in [File -> (SUBSET Change) \cup {Closed}]
  /\ wanted \subseteq File /\ done \in [File -> SUBSET Change]

(* The write-back of a target is held as long as a session of its file is  *)
(* there and no longer, whatever ends, expiries and renewals overlap.      *)
HeldWithSession == \A f \in Holdable : f \in held <=> sess[f] # 0

(* A session begun again stays open, and its file held, until it is ended  *)
(* or expires itself: an end or an expiry begun before does not close it   *)
(* (close_session; external_edit.rs:495).                                  *)
SessionStaysOpen == \A f \in wanted : sess[f] # 0

(* No change that the user interface reported as done is overwritten by an *)
(* editor that had read the file before (external edit design, 4.2).       *)
ChangesSurvive == \A f \in File : done[f] \subseteq table[f]

(* A session in which nobody does anything any more is ended, also when    *)
(* its sync fails every time (a hold does not outlive the lease).          *)
AbandonedEnds ==
  \A f \in File : <>[](~active[f] /\ ~saved[f]) => []<>(sess[f] = 0)
=============================================================================
