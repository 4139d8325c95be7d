------------------------- MODULE EditSessionsProofs -------------------------
(***************************************************************************)
(* Proofs about EditSessions, for every number of files and clients and    *)
(* every bound.  What may not hold under an order of steps that Faults     *)
(* names has the absence of that order as a hypothesis.                    *)
(***************************************************************************)
EXTENDS EditSessions, TLAPS

EndStep == [pc : {"sync", "close"}, file : File, gen : 0..MaxGen]
ExpiryStep ==
  [pc : {"decide", "next", "sync", "close", "recover"}, todo : Seen, file : File, gen : 0..MaxGen]
WriterStep == [pc : {"write"}, file : File, id : Change]

(* What is not idle has the fields of a step.                              *)
LEMMA EndIsStep ==
  ASSUME TypeOK, NEW c \in Client, end[c].pc # "idle"
  PROVE  end[c] \in EndStep
BY DEF TypeOK, EndStep, NoEnd

LEMMA ExpiryIsStep ==
  ASSUME TypeOK, expiry.pc # "idle"
  PROVE  expiry \in ExpiryStep
BY DEF TypeOK, ExpiryStep, NoExpiry

LEMMA WriterIsStep ==
  ASSUME TypeOK, writer.pc # "idle"
  PROVE  writer \in WriterStep
BY DEF TypeOK, WriterStep, NoWriter

LEMMA ClosingType ==
  ASSUME TypeOK, NEW f \in File, NEW g \in 0..MaxGen, Closing(f, g)
  PROVE  sess' \in Seen /\ gen' \in 1..(MaxGen + 1) /\ held' \subseteq Holdable
         /\ active' \in [File -> BOOLEAN] /\ saved' \in [File -> BOOLEAN]
BY BoundsAssumption DEF TypeOK, Closing, CloseSession, Seen

LEMMA GoesOnType ==
  ASSUME TypeOK, expiry \in ExpiryStep, ExpireGoesOn
  PROVE  expiry' \in ExpiryStep \cup {NoExpiry}
<1> DEFINE rest == [expiry.todo EXCEPT ![expiry.file] = 0]
<1>1. rest \in Seen
  BY BoundsAssumption DEF ExpiryStep, Seen
<1>2. [expiry EXCEPT !.pc = "next", !.todo = rest] \in ExpiryStep
  BY <1>1 DEF ExpiryStep
<1> QED BY <1>2 DEF ExpireGoesOn

(* Every variable keeps its type.                                          *)
THEOREM TypeCorrect == Spec => []TypeOK
<1>1. Init => TypeOK
  BY FilesAssumption, BoundsAssumption
  DEF Init, TypeOK, Seen, NoEnd, NoExpiry, NoWriter, Closed
<1>2. TypeOK /\ [Next]_vars => TypeOK'
  <2> SUFFICES ASSUME TypeOK, [Next]_vars PROVE TypeOK'
    OBVIOUS
  <2> USE FilesAssumption, BoundsAssumption
  <2>1. ASSUME NEW f \in File, Begin(f) PROVE TypeOK'
    <3>1. sess' \in Seen /\ gen' \in 1..(MaxGen + 1) /\ held' \subseteq Holdable
      BY <2>1 DEF Begin, TypeOK, Seen, Hold
    <3>2. active' \in [File -> BOOLEAN] /\ wanted' \subseteq File
      BY <2>1 DEF Begin, TypeOK
    <3>3. editor' \in [File -> (SUBSET Change) \cup {Closed}]
      BY <2>1 DEF Begin, TypeOK
    <3> QED BY <2>1, <3>1, <3>2, <3>3 DEF Begin, TypeOK
  <2>2. ASSUME NEW c \in Client, NEW f \in File, EndRead(c, f) PROVE TypeOK'
    <3>1. sess[f] \in 0..MaxGen BY DEF TypeOK, Seen
    <3>2. end' \in [Client -> EndStep \cup {NoEnd}]
      BY <2>2, <3>1 DEF EndRead, TypeOK, EndStep
    <3>3. editor' \in [File -> (SUBSET Change) \cup {Closed}] /\ wanted' \subseteq File
      BY <2>2 DEF EndRead, TypeOK
    <3> QED BY <2>2, <3>2, <3>3 DEF EndRead, TypeOK, sessVars, EndStep
  <2>3. ASSUME NEW c \in Client, EndSync(c) PROVE TypeOK'
    <3>1. end[c] \in EndStep BY <2>3, EndIsStep DEF EndSync
    <3>2. end' \in [Client -> EndStep \cup {NoEnd}]
      BY <2>3, <3>1 DEF EndSync, TypeOK, EndStep
    <3> QED BY <2>3, <3>2 DEF EndSync, TypeOK, sessVars, fileVars, EndStep
  <2>4. ASSUME NEW c \in Client, EndClose(c) PROVE TypeOK'
    <3>1. end[c] \in EndStep BY <2>4, EndIsStep DEF EndClose
    <3>2. end[c].file \in File /\ end[c].gen \in 0..MaxGen /\ Closing(end[c].file, end[c].gen)
      BY <2>4, <3>1 DEF EndClose, EndStep
    <3>3. end' \in [Client -> EndStep \cup {NoEnd}]
      BY <2>4 DEF EndClose, TypeOK, EndStep
    <3> HIDE FilesAssumption, BoundsAssumption
    <3>4. sess' \in Seen /\ gen' \in 1..(MaxGen + 1) /\ held' \subseteq Holdable
          /\ active' \in [File -> BOOLEAN] /\ saved' \in [File -> BOOLEAN]
      BY <3>2, ClosingType
    <3> QED BY <2>4, <3>3, <3>4 DEF EndClose, TypeOK, fileVars, EndStep
  <2>5. CASE ExpireCopy
    <3>1. sess \in Seen BY DEF TypeOK
    <3>2. [f \in File |-> IF active[f] THEN 0 ELSE sess[f]] \in Seen
      BY <3>1 DEF Seen
    <3>3. (CHOOSE f \in File : TRUE) \in File BY <2>5 DEF ExpireCopy
    <3>4. expiry' \in ExpiryStep
      BY <2>5, <3>2, <3>3 DEF ExpireCopy, ExpiryStep
    <3> QED BY <2>5, <3>4 DEF ExpireCopy, TypeOK, sessVars, fileVars, ExpiryStep
  <2>6. CASE ExpireDecide
    <3>1. expiry \in ExpiryStep BY <2>6, ExpiryIsStep DEF ExpireDecide
    <3>2. expiry' \in ExpiryStep \cup {NoExpiry}
      <4> DEFINE due == {f \in File : expiry.todo[f] # 0 /\ ~saved[f]}
                 kept == [f \in File |-> IF f \in due THEN expiry.todo[f] ELSE 0]
      <4>1. expiry.todo \in Seen BY <3>1 DEF ExpiryStep
      <4>2. kept \in Seen BY <4>1 DEF Seen
      <4>3. [expiry EXCEPT !.pc = "next", !.todo = kept] \in ExpiryStep
        BY <3>1, <4>2 DEF ExpiryStep
      <4>4. expiry' = NoExpiry \/ expiry' = [expiry EXCEPT !.pc = "next", !.todo = kept]
        BY <2>6, <3>1 DEF ExpireDecide, ExpiryStep
      <4> QED BY <4>3, <4>4
    <3>3. editor' \in [File -> (SUBSET Change) \cup {Closed}] /\ wanted' \subseteq File
      BY <2>6 DEF ExpireDecide, TypeOK
    <3> QED BY <2>6, <3>2, <3>3 DEF ExpireDecide, TypeOK, sessVars, ExpiryStep
  <2>7. ASSUME NEW f \in File, ExpireRead(f) PROVE TypeOK'
    <3>1. expiry \in ExpiryStep BY <2>7, ExpiryIsStep DEF ExpireRead
    <3>2. sess[f] \in 0..MaxGen BY DEF TypeOK, Seen
    <3>3. expiry' \in ExpiryStep BY <2>7, <3>1, <3>2 DEF ExpireRead, ExpiryStep
    <3> QED BY <2>7, <3>3 DEF ExpireRead, TypeOK, sessVars, fileVars, ExpiryStep
  <2>8. CASE ExpireSync
    <3>1. expiry \in ExpiryStep BY <2>8, ExpiryIsStep DEF ExpireSync
    <3>2. expiry' \in ExpiryStep BY <2>8, <3>1 DEF ExpireSync, ExpiryStep
    <3> QED BY <2>8, <3>2 DEF ExpireSync, TypeOK, sessVars, fileVars, ExpiryStep
  <2>9. CASE ExpireClose \/ ExpireRecover
    <3>1. expiry \in ExpiryStep BY <2>9, ExpiryIsStep DEF ExpireClose, ExpireRecover
    <3>2. PICK g \in 0..MaxGen : Closing(expiry.file, g) /\ ExpireGoesOn
      BY <2>9, <3>1 DEF ExpireClose, ExpireRecover, ExpiryStep, Seen
    <3>3. expiry.file \in File BY <3>1 DEF ExpiryStep
    <3> HIDE FilesAssumption, BoundsAssumption
    <3>4. sess' \in Seen /\ gen' \in 1..(MaxGen + 1) /\ held' \subseteq Holdable
          /\ active' \in [File -> BOOLEAN] /\ saved' \in [File -> BOOLEAN]
      BY <3>2, <3>3, ClosingType
    <3>5. expiry' \in ExpiryStep \cup {NoExpiry}
      BY <3>1, <3>2, GoesOnType
    <3> QED
      BY <2>9, <3>4, <3>5 DEF ExpireClose, ExpireRecover, TypeOK, fileVars, ExpiryStep
  <2>10. ASSUME NEW f \in File, WriteCheck(f) PROVE TypeOK'
    BY <2>10 DEF WriteCheck, TypeOK, sessVars, fileVars
  <2>11. CASE Write
    <3>1. writer \in WriterStep BY <2>11, WriterIsStep DEF Write
    <3>2. table' \in [File -> SUBSET Change] /\ done' \in [File -> SUBSET Change]
      BY <2>11, <3>1 DEF Write, TypeOK, WriterStep
    <3> QED BY <2>11, <3>2 DEF Write, TypeOK, sessVars
  <2>12. ASSUME NEW f \in File, EditorSaves(f) PROVE TypeOK'
    <3>1. editor[f] \in SUBSET Change BY <2>12 DEF EditorSaves, TypeOK
    <3>2. table' \in [File -> SUBSET Change] BY <2>12, <3>1 DEF EditorSaves, TypeOK
    <3> QED BY <2>12, <3>2 DEF EditorSaves, TypeOK
  <2>13. ASSUME NEW f \in File, LeaseRunsOut(f) PROVE TypeOK'
    BY <2>13 DEF LeaseRunsOut, TypeOK, fileVars
  <2>14. CASE UNCHANGED vars
    BY <2>14 DEF vars, sessVars, fileVars, TypeOK
  <2> QED
    BY <2>1, <2>2, <2>3, <2>4, <2>5, <2>6, <2>7, <2>8, <2>9, <2>10, <2>11, <2>12, <2>13, <2>14
    DEF Next, End, Expire, Environment
<1> QED BY <1>1, <1>2, PTL DEF Spec

-----------------------------------------------------------------------------
(* What is held is what has a session.                                     *)
LEMMA ClosingHeld ==
  ASSUME TypeOK, HeldWithSession, NEW f \in File, NEW g \in 0..MaxGen, Closing(f, g)
  PROVE  HeldWithSession'
BY FilesAssumption DEF TypeOK, HeldWithSession, Closing, CloseSession, Seen

(* The write-back is held exactly as long as there is a session, under     *)
(* every order of steps, a begin during the expiry of its file included.   *)
THEOREM HoldsFollowSessions == Spec => []HeldWithSession
<1>1. Init => HeldWithSession
  BY FilesAssumption DEF Init, HeldWithSession
<1>2. TypeOK /\ HeldWithSession /\ [Next]_vars => HeldWithSession'
  <2> SUFFICES ASSUME TypeOK, HeldWithSession, [Next]_vars PROVE HeldWithSession'
    OBVIOUS
  <2>1. ASSUME NEW f \in File, Begin(f) PROVE HeldWithSession'
    BY <2>1, FilesAssumption DEF Begin, Hold, HeldWithSession, TypeOK, Seen
  <2>2. ASSUME NEW c \in Client, EndClose(c) PROVE HeldWithSession'
    <3>1. end[c] \in EndStep BY <2>2, EndIsStep DEF EndClose
    <3> QED BY <2>2, <3>1, ClosingHeld DEF EndClose, EndStep
  <2>3. CASE ExpireClose \/ ExpireRecover
    <3>1. expiry \in ExpiryStep BY <2>3, ExpiryIsStep DEF ExpireClose, ExpireRecover
    <3>2. expiry.file \in File /\ expiry.gen \in 0..MaxGen
          /\ expiry.todo[expiry.file] \in 0..MaxGen
      BY <3>1 DEF ExpiryStep, Seen
    <3> QED BY <2>3, <3>2, ClosingHeld DEF ExpireClose, ExpireRecover
  <2>4. CASE UNCHANGED <<sess, held>>
    BY <2>4 DEF HeldWithSession
  <2> QED
    BY <2>1, <2>2, <2>3, <2>4
    DEF Next, End, Expire, Environment, vars, sessVars, EndRead, EndSync, ExpireCopy, ExpireDecide,
        ExpireRead, ExpireSync, WriteCheck, Write, EditorSaves, LeaseRunsOut
<1> QED BY <1>1, <1>2, TypeCorrect, PTL DEF Spec

-----------------------------------------------------------------------------
(* Why a session stays open: the generations that ends under way have read *)
(* are older than that of any begin to come, and an expiry that has decided*)
(* works on files that nobody wants any more.                              *)
NumbersGrow ==
  /\ \A f \in File : sess[f] < gen
  /\ \A c \in Client : end[c].pc # "idle" => end[c].gen < gen
WantedOpen ==
  \A f \in wanted :
    /\ sess[f] # 0
    /\ \A c \in Client : end[c].pc # "idle" /\ end[c].file = f => end[c].gen # sess[f]
ExpiryKnows ==
  expiry.pc # "idle" =>
    /\ \A f \in File : expiry.todo[f] # 0 => sess[f] \in {0, expiry.todo[f]}
    /\ expiry.pc # "decide" => \A f \in File : expiry.todo[f] # 0 => f \notin wanted
    /\ expiry.pc \in {"sync", "close", "recover"} => expiry.todo[expiry.file] # 0
OpenInv == NumbersGrow /\ WantedOpen /\ ExpiryKnows

(* A close leaves the invariant alone if the file is not wanted, or its    *)
(* session is a newer one.                                                 *)
LEMMA ClosingOpen ==
  ASSUME TypeOK, OpenInv, NEW f \in File, NEW g \in 0..MaxGen, Closing(f, g),
         f \in wanted => sess[f] # g, wanted' = wanted
  PROVE  /\ \A h \in File : sess'[h] \in {0, sess[h]} /\ sess'[h] < gen'
         /\ \A h \in wanted : sess'[h] = sess[h]
         /\ gen' = gen
BY DEF TypeOK, OpenInv, NumbersGrow, Closing, CloseSession, Seen

LEMMA OpenInductive ==
  ASSUME "rebegin_at_expiry" \notin Faults, TypeOK, OpenInv, [Next]_vars
  PROVE  OpenInv'
<1>1. ASSUME NEW f \in File, Begin(f) PROVE OpenInv'
  <2>1. gen \in 1..MaxGen /\ gen' = gen + 1 /\ sess' = [sess EXCEPT ![f] = gen]
        /\ end' = end /\ expiry' = expiry /\ wanted' = wanted \cup {f}
    BY <1>1, BoundsAssumption DEF Begin, TypeOK
  <2>2. expiry.pc # "idle" => expiry.todo[f] = 0
    BY <1>1 DEF Begin, Expiring
  <2>3. NumbersGrow'
    <3>1. \A c \in Client : end[c].pc # "idle" => end[c].gen \in Int
      BY EndIsStep DEF EndStep
    <3> QED BY <2>1, <3>1 DEF OpenInv, NumbersGrow, TypeOK, Seen
  <2>4. WantedOpen'
    <3>1. \A c \in Client : end[c].pc # "idle" => end[c].gen \in Int /\ end[c].gen < gen
      BY EndIsStep DEF EndStep, OpenInv, NumbersGrow
    <3> QED BY <2>1, <3>1 DEF OpenInv, WantedOpen, TypeOK, Seen
  <2>5. ExpiryKnows'
    <3>1. expiry.pc # "idle" => expiry.file \in File
      BY ExpiryIsStep DEF ExpiryStep
    <3> QED BY <2>1, <2>2, <3>1 DEF OpenInv, ExpiryKnows, TypeOK, Seen
  <2> QED BY <2>3, <2>4, <2>5 DEF OpenInv
<1>2. ASSUME NEW c \in Client, NEW f \in File, EndRead(c, f) PROVE OpenInv'
  <2>1. end' = [end EXCEPT ![c] = [pc |-> "sync", file |-> f, gen |-> sess[f]]]
        /\ wanted' = wanted \ {f} /\ sess' = sess /\ gen' = gen /\ expiry' = expiry
    BY <1>2 DEF EndRead, sessVars
  <2>2. NumbersGrow'
    BY <2>1 DEF OpenInv, NumbersGrow, TypeOK
  <2>3. WantedOpen'
    BY <2>1 DEF OpenInv, WantedOpen, TypeOK
  <2>4. ExpiryKnows' BY <2>1 DEF OpenInv, ExpiryKnows
  <2> QED BY <2>2, <2>3, <2>4 DEF OpenInv
<1>3. ASSUME NEW c \in Client, EndSync(c) PROVE OpenInv'
  <2>1. end[c] \in EndStep BY <1>3, EndIsStep DEF EndSync
  <2>2. sess' = sess /\ gen' = gen /\ expiry' = expiry /\ wanted' = wanted
    BY <1>3 DEF EndSync, sessVars
  <2>3. \A d \in Client : end'[d].pc # "idle" =>
          end[d].pc # "idle" /\ end'[d].gen = end[d].gen /\ end'[d].file = end[d].file
    BY <1>3, <2>1 DEF EndSync, TypeOK, EndStep, NoEnd
  <2> QED BY <2>2, <2>3 DEF OpenInv, NumbersGrow, WantedOpen, ExpiryKnows
<1>4. ASSUME NEW c \in Client, EndClose(c) PROVE OpenInv'
  <2>1. end[c] \in EndStep BY <1>4, EndIsStep DEF EndClose
  <2>2. expiry' = expiry /\ wanted' = wanted /\ Closing(end[c].file, end[c].gen)
    BY <1>4 DEF EndClose
  <2>3. \A d \in Client : end'[d].pc # "idle" => end'[d] = end[d]
    BY <1>4 DEF EndClose, TypeOK, NoEnd
  <2>4. end[c].file \in wanted => sess[end[c].file] # end[c].gen
    BY <1>4 DEF EndClose, OpenInv, WantedOpen
  <2>5. end[c].file \in File /\ end[c].gen \in 0..MaxGen BY <2>1 DEF EndStep
  <2>6. /\ \A h \in File : sess'[h] \in {0, sess[h]} /\ sess'[h] < gen'
        /\ \A h \in wanted : sess'[h] = sess[h]
        /\ gen' = gen
    BY <2>2, <2>4, <2>5, ClosingOpen
  <2> QED BY <2>2, <2>3, <2>6 DEF OpenInv, NumbersGrow, WantedOpen, ExpiryKnows
<1>5. CASE ExpireCopy
  BY <1>5 DEF ExpireCopy, sessVars, OpenInv, NumbersGrow, WantedOpen, ExpiryKnows
<1>6. CASE ExpireDecide
  <2> DEFINE due == {f \in File : expiry.todo[f] # 0 /\ ~saved[f]}
             gone == {f \in due : sess[f] = expiry.todo[f]}
             kept == [f \in File |-> IF f \in due THEN expiry.todo[f] ELSE 0]
  <2>1. expiry \in ExpiryStep BY <1>6, ExpiryIsStep DEF ExpireDecide
  <2>2. sess' = sess /\ gen' = gen /\ end' = end /\ wanted' = wanted \ gone
    BY <1>6 DEF ExpireDecide, sessVars
  <2>3. \/ expiry' = NoExpiry
        \/ expiry'.pc = "next" /\ expiry'.todo = kept
    BY <1>6, <2>1 DEF ExpireDecide, ExpiryStep
  <2>4. \A f \in due : sess[f] \in {0, expiry.todo[f]} /\ f \notin wanted'
    BY <1>6, <2>2 DEF ExpireDecide, OpenInv, ExpiryKnows, WantedOpen
  <2>5. ExpiryKnows' BY <2>2, <2>3, <2>4 DEF ExpiryKnows, NoExpiry
  <2> QED BY <2>2, <2>5 DEF OpenInv, NumbersGrow, WantedOpen
<1>7. ASSUME NEW f \in File, ExpireRead(f) PROVE OpenInv'
  <2>1. expiry \in ExpiryStep BY <1>7, ExpiryIsStep DEF ExpireRead
  <2>2. sess' = sess /\ gen' = gen /\ end' = end /\ wanted' = wanted
    BY <1>7 DEF ExpireRead, sessVars
  <2>3. expiry'.pc = "sync" /\ expiry'.file = f /\ expiry'.todo = expiry.todo
    BY <1>7, <2>1 DEF ExpireRead, ExpiryStep
  <2>4. ExpiryKnows' BY <1>7, <2>2, <2>3 DEF ExpireRead, OpenInv, ExpiryKnows
  <2> QED BY <2>2, <2>4 DEF OpenInv, NumbersGrow, WantedOpen
<1>8. CASE ExpireSync
  <2>1. expiry \in ExpiryStep BY <1>8, ExpiryIsStep DEF ExpireSync
  <2>2. sess' = sess /\ gen' = gen /\ end' = end /\ wanted' = wanted
    BY <1>8 DEF ExpireSync, sessVars
  <2>3. expiry'.pc \in {"close", "recover"} /\ expiry'.file = expiry.file
        /\ expiry'.todo = expiry.todo
    BY <1>8, <2>1 DEF ExpireSync, ExpiryStep
  <2>4. ExpiryKnows' BY <1>8, <2>2, <2>3 DEF ExpireSync, OpenInv, ExpiryKnows
  <2> QED BY <2>2, <2>4 DEF OpenInv, NumbersGrow, WantedOpen
<1>9. CASE ExpireClose \/ ExpireRecover
  <2>1. expiry \in ExpiryStep BY <1>9, ExpiryIsStep DEF ExpireClose, ExpireRecover
  <2>2. end' = end /\ wanted' = wanted /\ expiry.pc \in {"close", "recover"}
    BY <1>9 DEF ExpireClose, ExpireRecover
  <2>3. PICK g \in 0..MaxGen : Closing(expiry.file, g) /\ ExpireGoesOn
    BY <1>9, <2>1 DEF ExpireClose, ExpireRecover, ExpiryStep, Seen
  <2>4. expiry.file \in File /\ expiry.file \notin wanted
    BY <2>1, <2>2 DEF ExpiryStep, OpenInv, ExpiryKnows
  <2>5. /\ \A h \in File : sess'[h] \in {0, sess[h]} /\ sess'[h] < gen'
        /\ \A h \in wanted : sess'[h] = sess[h]
        /\ gen' = gen
    BY <2>2, <2>3, <2>4, ClosingOpen
  <2> DEFINE rest == [expiry.todo EXCEPT ![expiry.file] = 0]
  <2>6. \/ expiry' = NoExpiry
        \/ expiry'.pc = "next" /\ expiry'.todo = rest
    BY <2>1, <2>3 DEF ExpireGoesOn, ExpiryStep
  <2>7. \A f \in File : rest[f] # 0 => rest[f] = expiry.todo[f] /\ expiry.todo[f] # 0
    BY <2>1 DEF ExpiryStep, Seen
  <2>8. ExpiryKnows'
    <3>1. CASE expiry' = NoExpiry BY <3>1 DEF ExpiryKnows, NoExpiry
    <3>2. CASE expiry'.pc = "next" /\ expiry'.todo = rest
      <4> HIDE DEF rest
      <4>1. \A f \in File : rest[f] # 0 =>
              f \notin wanted' /\ sess'[f] \in {0, rest[f]}
        BY <2>2, <2>5, <2>7 DEF OpenInv, ExpiryKnows
      <4> QED BY <3>2, <4>1 DEF ExpiryKnows
    <3> QED BY <2>6, <3>1, <3>2
  <2> QED BY <2>2, <2>5, <2>8 DEF OpenInv, NumbersGrow, WantedOpen
<1>10. CASE UNCHANGED <<sess, gen, end, expiry, wanted>>
  BY <1>10 DEF OpenInv, NumbersGrow, WantedOpen, ExpiryKnows
<1> QED
  BY <1>1, <1>2, <1>3, <1>4, <1>5, <1>6, <1>7, <1>8, <1>9, <1>10
  DEF Next, End, Expire, Environment, vars, sessVars, fileVars, WriteCheck, Write, EditorSaves,
      LeaseRunsOut

(* A session begun again stays open until it is ended or expires itself,   *)
(* unless it is begun while the expiry has decided on its file.            *)
THEOREM SessionsStayOpen ==
  ASSUME "rebegin_at_expiry" \notin Faults
  PROVE  Spec => []SessionStaysOpen
<1>1. Init => OpenInv
  BY DEF Init, OpenInv, NumbersGrow, WantedOpen, ExpiryKnows, NoEnd, NoExpiry
<1>2. TypeOK /\ OpenInv /\ [Next]_vars => OpenInv'
  BY OpenInductive
<1>3. OpenInv => SessionStaysOpen
  BY DEF OpenInv, WantedOpen, SessionStaysOpen
<1> QED BY <1>1, <1>2, <1>3, TypeCorrect, PTL DEF Spec

-----------------------------------------------------------------------------
(* Why no change is lost: an open editor has read every change made so far,*)
(* its file is wanted, and no change is under way in it.                   *)
EditorKnows ==
  \A f \in File : editor[f] # Closed => f \in wanted /\ done[f] \subseteq editor[f]
WriterAlone == writer.pc = "write" => editor[writer.file] = Closed
ChangesInv == EditorKnows /\ WriterAlone /\ ChangesSurvive

LEMMA ChangesInductive ==
  ASSUME "rebegin_at_expiry" \notin Faults, "begin_at_write" \notin Faults,
         TypeOK, OpenInv, ChangesInv, [Next]_vars
  PROVE  ChangesInv'
<1>1. ASSUME NEW f \in File, Begin(f) PROVE ChangesInv'
  <2>1. ~Writing(f) /\ writer' = writer /\ table' = table /\ done' = done
        /\ wanted' = wanted \cup {f}
        /\ editor' = [editor EXCEPT ![f] = IF @ = Closed THEN table[f] ELSE @]
    BY <1>1 DEF Begin
  <2>2. EditorKnows'
    BY <2>1 DEF ChangesInv, EditorKnows, ChangesSurvive, TypeOK
  <2>3. WriterAlone'
    BY <2>1 DEF ChangesInv, WriterAlone, Writing, TypeOK
  <2> QED BY <2>1, <2>2, <2>3 DEF ChangesInv, ChangesSurvive
<1>2. ASSUME NEW c \in Client, NEW f \in File, EndRead(c, f) PROVE ChangesInv'
  <2>1. writer' = writer /\ table' = table /\ done' = done
        /\ wanted' = wanted \ {f} /\ editor' = [editor EXCEPT ![f] = Closed]
    BY <1>2 DEF EndRead
  <2>2. WriterAlone'
    <3>1. writer.pc # "idle" => writer.file \in File BY WriterIsStep DEF WriterStep
    <3> QED BY <2>1, <3>1 DEF ChangesInv, WriterAlone, TypeOK
  <2>3. EditorKnows' BY <2>1 DEF ChangesInv, EditorKnows, TypeOK
  <2> QED BY <2>1, <2>2, <2>3 DEF ChangesInv, ChangesSurvive
<1>3. CASE ExpireDecide
  <2>1. PICK gone \in SUBSET File :
          wanted' = wanted \ gone
          /\ editor' = [f \in File |-> IF f \in gone THEN Closed ELSE editor[f]]
    BY <1>3 DEF ExpireDecide
  <2>2. writer' = writer /\ table' = table /\ done' = done
    BY <1>3 DEF ExpireDecide
  <2>3. WriterAlone'
    <3>1. writer.pc # "idle" => writer.file \in File BY WriterIsStep DEF WriterStep
    <3> QED BY <2>1, <2>2, <3>1 DEF ChangesInv, WriterAlone
  <2> QED BY <2>1, <2>2, <2>3 DEF ChangesInv, ChangesSurvive, EditorKnows
<1>4. ASSUME NEW f \in File, WriteCheck(f) PROVE ChangesInv'
  <2>1. f \notin wanted BY <1>4 DEF WriteCheck, NotEditing, OpenInv, WantedOpen
  <2>2. editor[f] = Closed BY <2>1 DEF ChangesInv, EditorKnows
  <2>3. writer'.file = f BY <1>4 DEF WriteCheck
  <2> QED BY <1>4, <2>2, <2>3
    DEF WriteCheck, fileVars, ChangesInv, EditorKnows, WriterAlone, ChangesSurvive
<1>5. CASE Write
  <2>1. writer \in WriterStep BY <1>5, WriterIsStep DEF Write
  <2>2. editor[writer.file] = Closed /\ writer.file \in File
    BY <1>5, <2>1 DEF Write, ChangesInv, WriterAlone, WriterStep
  <2>3. EditorKnows' BY <1>5, <2>2 DEF Write, ChangesInv, EditorKnows, TypeOK
  <2>4. WriterAlone' BY <1>5 DEF Write, WriterAlone, NoWriter
  <2>5. ChangesSurvive' BY <1>5, <2>2 DEF Write, ChangesInv, ChangesSurvive, TypeOK
  <2> QED BY <2>3, <2>4, <2>5 DEF ChangesInv
<1>6. ASSUME NEW f \in File, EditorSaves(f) PROVE ChangesInv'
  BY <1>6 DEF EditorSaves, ChangesInv, EditorKnows, WriterAlone, ChangesSurvive, TypeOK
<1>7. CASE UNCHANGED <<writer, table, editor, wanted, done>>
  BY <1>7 DEF ChangesInv, EditorKnows, WriterAlone, ChangesSurvive
<1> QED
  BY <1>1, <1>2, <1>3, <1>4, <1>5, <1>6, <1>7
  DEF Next, End, Expire, Environment, vars, sessVars, fileVars, EndSync, EndClose, ExpireCopy,
      ExpireRead, ExpireSync, ExpireClose, ExpireRecover, LeaseRunsOut

(* No reported change is overwritten by an editor that had read the file   *)
(* before, unless an edit begins between the look for a session and the    *)
(* write, or while the expiry has decided on the file.                     *)
THEOREM ChangesNeverLost ==
  ASSUME "rebegin_at_expiry" \notin Faults, "begin_at_write" \notin Faults
  PROVE  Spec => []ChangesSurvive
<1>1. Init => OpenInv /\ ChangesInv
  BY DEF Init, OpenInv, NumbersGrow, WantedOpen, ExpiryKnows, NoEnd, NoExpiry,
         ChangesInv, EditorKnows, WriterAlone, ChangesSurvive, NoWriter
<1>2. TypeOK /\ OpenInv /\ ChangesInv /\ [Next]_vars => OpenInv' /\ ChangesInv'
  BY OpenInductive, ChangesInductive
<1>3. ChangesInv => ChangesSurvive
  BY DEF ChangesInv
<1> QED BY <1>1, <1>2, <1>3, TypeCorrect, PTL DEF Spec
=============================================================================
