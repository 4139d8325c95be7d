--------------------------- MODULE PushChannelProofs ---------------------------
(***************************************************************************)
(* Proofs about PushChannel, for every number of DLLs, connections and     *)
(* commits, every size of the queues and pipes, and every bound.           *)
(***************************************************************************)
EXTENDS PushChannel, SequenceTheorems, FiniteSetTheorems, TLAPS

LEMMA FrameTypes ==
    READY \in Frames /\ COMMIT \in Frames /\ \A v \in BOOLEAN : Config(v) \in Frames
BY DEF READY, COMMIT, Config, Frames

LEMMA IdleType == Idle \in HookRun /\ Idle.todo = {} /\ Idle.cur = {}
BY DEF Idle, HookRun

\* What a queue and the table are after a frame has been offered.
LEMMA OfferType ==
    ASSUME TypeOK, NEW entries \in SUBSET PushClient, NEW f \in Frames, NEW tbl \in SUBSET PushClient,
           Offer(entries, f, tbl)
    PROVE  /\ queue' \in [Conns -> Seq(Frames)]
           /\ \A c \in Conns : Len(queue'[c]) <= QueueCap
           /\ table' \subseteq PushClient
<1> DEFINE takers == {e.conn : e \in entries \ {e \in entries : Full(e.conn)}}
<1>1. queue' = [c \in Conns |-> IF c \in takers THEN Append(queue[c], f) ELSE queue[c]]
  BY DEF Offer
<1>2. \A c \in takers : ~Full(c)
  OBVIOUS
<1> HIDE DEF takers
<1>3. ASSUME NEW c \in Conns
      PROVE  queue'[c] \in Seq(Frames) /\ Len(queue'[c]) <= QueueCap
  <2>1. queue[c] \in Seq(Frames) /\ Len(queue[c]) <= QueueCap
    BY DEF TypeOK
  <2>2. CASE c \in takers
    BY <1>1, <1>2, <2>1, <2>2, PushAssumption DEF Full
  <2>3. CASE c \notin takers
    BY <1>1, <2>1, <2>3
  <2> QED BY <2>2, <2>3
<1>4. table' \subseteq PushClient
  BY DEF Offer, DropStalled
<1> QED BY <1>1, <1>3, <1>4

\* An entry stays an entry when a flag of it is set.
LEMMA MarkedType ==
    \A e \in PushClient :
        /\ [e EXCEPT !.ready_sent = TRUE] \in PushClient /\ [e EXCEPT !.hooked = TRUE] \in PushClient
        /\ [e EXCEPT !.ready_sent = TRUE].conn = e.conn /\ [e EXCEPT !.hooked = TRUE].conn = e.conn
        /\ [e EXCEPT !.ready_sent = TRUE].token = e.token /\ [e EXCEPT !.hooked = TRUE].token = e.token
        /\ [e EXCEPT !.ready_sent = TRUE].hooked = e.hooked /\ [e EXCEPT !.hooked = TRUE].hooked
        /\ [e EXCEPT !.ready_sent = TRUE].ready_sent /\ [e EXCEPT !.hooked = TRUE].ready_sent = e.ready_sent
BY DEF PushClient

LEMMA EntryType ==
    ASSUME TypeOK, NEW c \in Conns, thread[c] # "free"
    PROVE  tokenOf[c] \in Tokens
BY DEF TypeOK

\* One use of a bound that is not used up.
LEMMA UsedType ==
    ASSUME used \in Used
    PROVE  /\ used.reloads < MaxReloads => [used EXCEPT !.reloads = @ + 1] \in Used
           /\ used.commits < MaxCommits => [used EXCEPT !.commits = @ + 1] \in Used
           /\ used.errors < MaxErrors => [used EXCEPT !.errors = @ + 1] \in Used
           /\ used.crashes < MaxCrashes => [used EXCEPT !.crashes = @ + 1] \in Used
<1>1. /\ used.reloads \in 0 .. MaxReloads /\ used.commits \in 0 .. MaxCommits
      /\ used.errors \in 0 .. MaxErrors /\ used.crashes \in 0 .. MaxCrashes
  BY DEF Used
<1>2. /\ used.reloads < MaxReloads => used.reloads + 1 \in 0 .. MaxReloads
      /\ used.commits < MaxCommits => used.commits + 1 \in 0 .. MaxCommits
      /\ used.errors < MaxErrors => used.errors + 1 \in 0 .. MaxErrors
      /\ used.crashes < MaxCrashes => used.crashes + 1 \in 0 .. MaxCrashes
  BY <1>1, PushAssumption
<1> QED BY <1>2 DEF Used

LEMMA TypeInit == Init => TypeOK
<1> SUFFICES ASSUME Init PROVE TypeOK
  OBVIOUS
<1>1. <<>> \in Seq(Frames) /\ Len(<<>>) = 0
  OBVIOUS
<1>2. queue \in [Conns -> Seq(Frames)] /\ wire \in [Conns -> Seq(Frames)]
      /\ \A c \in Conns : Len(queue[c]) <= QueueCap /\ Len(wire[c]) <= WireCap
  BY <1>1, PushAssumption DEF Init
<1>3. used \in Used
  BY PushAssumption DEF Init, Used
<1>4. hookRun \in HookRun /\ hookRun.cur = {}
  BY IdleType DEF Init
<1>5. table \subseteq PushClient /\ thread \in [Conns -> States] /\ link \in [Tokens -> Conns \cup {NoConn}]
      /\ tokenOf \in [Conns -> Tokens \cup {NoToken}]
      /\ \A c \in Conns : thread[c] = "free" <=> tokenOf[c] = NoToken
  BY DEF Init, States
<1> QED BY <1>2, <1>3, <1>4, <1>5 DEF Init, Idle, TypeOK

LEMMA TypeNext ==
    ASSUME TypeOK, [Next]_vars
    PROVE  TypeOK'
<1>a. table \in SUBSET PushClient /\ \A T : EntriesOf(T) \in SUBSET PushClient
  BY DEF TypeOK, EntriesOf
<1>1. CASE SetReady BY <1>1 DEF SetReady, clientVars, TypeOK
<1>2. CASE MarkReady
  <2>1. {[e EXCEPT !.ready_sent = TRUE] : e \in table} \in SUBSET PushClient
    BY <1>a, MarkedType
  <2>2. {e \in table : ~e.ready_sent} \in SUBSET PushClient BY <1>a
  <2>3. Offer({e \in table : ~e.ready_sent}, READY, {[e EXCEPT !.ready_sent = TRUE] : e \in table})
    BY <1>2 DEF MarkReady
  <2>4. /\ queue' \in [Conns -> Seq(Frames)] /\ \A c \in Conns : Len(queue'[c]) <= QueueCap
        /\ table' \subseteq PushClient
    BY <2>1, <2>2, <2>3, OfferType, FrameTypes
  <2> QED BY <1>2, <2>4 DEF MarkReady, clientVars, TypeOK
<1>3. CASE SetHook
  <2>1. table' \subseteq PushClient BY <1>3, <1>a, MarkedType DEF SetHook
  <2>2. ClaimAll \subseteq Tokens BY DEF ClaimAll, TypeOK, PushClient
  <2>3. hookRun' = Idle \/ hookRun' = [Idle EXCEPT !.by = "main", !.todo = ClaimAll]
    BY <1>3 DEF SetHook
  <2>4. hookRun' \in HookRun /\ hookRun'.cur = {}
    BY <2>2, <2>3, IdleType DEF Idle, HookRun
  <2> QED BY <1>3, <2>1, <2>4 DEF SetHook, clientVars, TypeOK
<1>4. CASE HookPushes
  <2>1. Offer(EntriesOf(hookRun.cur), Config(hookRun.val), table) /\ hookRun.val \in BOOLEAN
    BY <1>4 DEF HookPushes, TypeOK, HookRun
  <2>2. /\ queue' \in [Conns -> Seq(Frames)] /\ \A c \in Conns : Len(queue'[c]) <= QueueCap
        /\ table' \subseteq PushClient
    BY <1>a, <2>1, OfferType, FrameTypes
  <2>3. hookRun' = Idle
        \/ hookRun' = [hookRun EXCEPT !.todo = hookRun.todo \ hookRun.cur, !.cur = {}, !.val = FALSE]
    BY <1>4 DEF HookPushes
  <2>4. hookRun' \in HookRun /\ hookRun'.cur = {} /\ hookRun'.by \in {hookRun.by, "nobody"}
        /\ hookRun'.conn \in {hookRun.conn, NoConn}
    <3>1. CASE hookRun' = Idle
      BY <3>1, IdleType DEF Idle
    <3>2. CASE hookRun' # Idle
      <4>1. hookRun \in HookRun BY DEF TypeOK
      <4>2. hookRun.todo \ hookRun.cur \in SUBSET Tokens BY <4>1 DEF HookRun
      <4> QED BY <2>3, <3>2, <4>1, <4>2 DEF HookRun
    <3> QED BY <3>1, <3>2
  <2>5. thread' = thread
        \/ /\ hookRun.by = "conn" /\ hookRun' = Idle
           /\ thread' = [thread EXCEPT ![hookRun.conn] = "writing"]
    BY <1>4 DEF HookPushes
  <2>6. hookRun.by = "conn" => hookRun.conn \in Conns /\ thread[hookRun.conn] = "hooking"
    BY DEF TypeOK
  <2>7. /\ thread' \in [Conns -> States]
        /\ \A c \in Conns : thread'[c] = "free" <=> tokenOf[c] = NoToken
        /\ hookRun'.by = "conn" => hookRun'.conn \in Conns /\ thread'[hookRun'.conn] = "hooking"
    <3>1. CASE thread' = thread
      <4>1. hookRun' = Idle \/ (hookRun'.by = hookRun.by /\ hookRun'.conn = hookRun.conn)
        BY <2>3 DEF TypeOK, HookRun
      <4> QED BY <3>1, <4>1 DEF TypeOK, Idle
    <3>2. CASE thread' # thread
      <4>1. /\ hookRun.conn \in Conns /\ thread[hookRun.conn] = "hooking" /\ hookRun'.by = "nobody"
            /\ thread' = [thread EXCEPT ![hookRun.conn] = "writing"]
        BY <2>5, <2>6, <3>2 DEF Idle
      <4> QED BY <4>1 DEF TypeOK, States
    <3> QED BY <3>1, <3>2
  <2> QED BY <1>4, <2>2, <2>4, <2>7 DEF HookPushes, clientVars, TypeOK
<1>5. CASE ReloadTable
  <2>1. used' \in Used BY <1>5, UsedType DEF ReloadTable, TypeOK
  <2> QED BY <1>5, <2>1 DEF ReloadTable, clientVars, TypeOK
<1>6. CASE ReloadPush
  <2>1. Offer(table, Config(compat), table) /\ compat \in BOOLEAN BY <1>6 DEF ReloadPush, TypeOK
  <2>2. /\ queue' \in [Conns -> Seq(Frames)] /\ \A c \in Conns : Len(queue'[c]) <= QueueCap
        /\ table' \subseteq PushClient
    BY <1>a, <2>1, OfferType, FrameTypes
  <2> QED BY <1>6, <2>2 DEF ReloadPush, clientVars, TypeOK
<1>7. CASE Crash
  <2>1. hookRun' \in HookRun /\ hookRun'.cur = {} /\ hookRun'.by # "conn"
    BY <1>7, IdleType DEF Crash, Idle
  <2>2. <<>> \in Seq(Frames) /\ Len(<<>>) = 0
    OBVIOUS
  <2>3. queue' \in [Conns -> Seq(Frames)] /\ wire' \in [Conns -> Seq(Frames)]
        /\ \A c \in Conns : Len(queue'[c]) <= QueueCap /\ Len(wire'[c]) <= WireCap
    BY <1>7, <2>2, PushAssumption DEF Crash
  <2>4. /\ synced' \in [Tokens -> {"no", "posted", "yes", "swallowed"}]
        /\ link' \in [Tokens -> Conns \cup {NoConn}]
        /\ tokenOf' \in [Conns -> Tokens \cup {NoToken}] /\ thread' \in [Conns -> States]
        /\ \A c \in Conns : thread'[c] = "free" <=> tokenOf'[c] = NoToken
    BY <1>7 DEF Crash, States
  <2>5. used' \in Used BY <1>7, UsedType DEF Crash, TypeOK
  <2> QED BY <1>7, <2>1, <2>3, <2>4, <2>5 DEF Crash, TypeOK
<1>8. ASSUME NEW c \in Conns, Register(c) PROVE TypeOK'
  <2>1. tokenOf[c] \in Tokens BY <1>8, EntryType DEF Register
  <2>2. table' \subseteq PushClient
    <3>1. [conn |-> c, token |-> tokenOf[c], hooked |-> FALSE, ready_sent |-> ready] \in PushClient
      BY <2>1 DEF PushClient, TypeOK
    <3> QED BY <1>8, <1>a, <3>1 DEF Register
  <2>3. queue' \in [Conns -> Seq(Frames)] /\ \A d \in Conns : Len(queue'[d]) <= QueueCap
    <3>1. <<READY>> \in Seq(Frames) /\ Len(<<READY>>) = 1 /\ <<>> \in Seq(Frames) /\ Len(<<>>) = 0
      BY FrameTypes
    <3> QED BY <1>8, <3>1, PushAssumption DEF Register, TypeOK
  <2>4. /\ thread' \in [Conns -> States] /\ tokenOf' = tokenOf /\ hookRun' = hookRun
        /\ \A d \in Conns : thread'[d] = "free" <=> tokenOf'[d] = NoToken
        /\ hookRun'.by = "conn" => hookRun'.conn \in Conns /\ thread'[hookRun'.conn] = "hooking"
    BY <1>8 DEF Register, TypeOK, States
  <2> QED BY <1>8, <2>2, <2>3, <2>4 DEF Register, clientVars, TypeOK
<1>9. ASSUME NEW c \in Conns, ClaimHook(c) PROVE TypeOK'
  <2>1. tokenOf[c] \in Tokens BY <1>9, EntryType DEF ClaimHook
  <2>2. table' \subseteq PushClient
    <3>1. Claimed(c) \subseteq table BY DEF Claimed, EntriesOf
    <3> QED BY <1>9, <1>a, <3>1, MarkedType DEF ClaimHook
  <2>3. /\ hookRun' \in HookRun /\ hookRun'.cur = {}
        /\ hookRun'.by = "conn" /\ hookRun'.conn = c
    BY <1>9, <2>1 DEF ClaimHook, Idle, HookRun
  <2>4. /\ thread' \in [Conns -> States] /\ tokenOf' = tokenOf /\ thread'[c] = "hooking"
        /\ \A d \in Conns : thread'[d] = "free" <=> tokenOf'[d] = NoToken
    BY <1>9 DEF ClaimHook, TypeOK, States
  <2> QED BY <1>9, <2>2, <2>3, <2>4 DEF ClaimHook, clientVars, TypeOK
<1>10. ASSUME NEW c \in Conns, SkipHook(c) PROVE TypeOK'
  <2>1. /\ thread' \in [Conns -> States]
        /\ \A d \in Conns : thread'[d] = "free" <=> tokenOf[d] = NoToken
    BY <1>10 DEF SkipHook, TypeOK, States
  <2>2. hookRun.by # "conn" BY <1>10 DEF SkipHook, Idle
  <2> QED BY <1>10, <2>1, <2>2 DEF SkipHook, clientVars, TypeOK
<1>11. ASSUME NEW c \in Conns, Write(c) PROVE TypeOK'
  <2>1. queue[c] \in Seq(Frames) /\ queue[c] # <<>> /\ wire[c] \in Seq(Frames)
        /\ Len(queue[c]) <= QueueCap /\ Len(wire[c]) < WireCap
    BY <1>11 DEF Write, TypeOK
  <2>2. Head(queue[c]) \in Frames /\ Tail(queue[c]) \in Seq(Frames)
        /\ Len(Tail(queue[c])) = Len(queue[c]) - 1
    BY <2>1, HeadTailProperties
  <2>3. Append(wire[c], Head(queue[c])) \in Seq(Frames)
        /\ Len(Append(wire[c], Head(queue[c]))) = Len(wire[c]) + 1
    BY <2>1, <2>2
  <2>4. queue' \in [Conns -> Seq(Frames)] /\ \A d \in Conns : Len(queue'[d]) <= QueueCap
    BY <1>11, <2>1, <2>2, PushAssumption DEF Write, TypeOK
  <2>5. wire' \in [Conns -> Seq(Frames)] /\ \A d \in Conns : Len(wire'[d]) <= WireCap
    BY <1>11, <2>1, <2>3, PushAssumption DEF Write, TypeOK
  <2> QED BY <1>11, <2>4, <2>5 DEF Write, TypeOK
<1>12. ASSUME NEW c \in Conns, EndLoop(c) PROVE TypeOK'
  <2>1. wire' \in [Conns -> Seq(Frames)] /\ \A d \in Conns : Len(wire'[d]) <= WireCap
    <3>1. <<>> \in Seq(Frames) /\ Len(<<>>) = 0
      OBVIOUS
    <3> QED BY <1>12, <3>1, PushAssumption DEF EndLoop, TypeOK
  <2>2. /\ thread' \in [Conns -> States] /\ link' \in [Tokens -> Conns \cup {NoConn}]
        /\ tokenOf' = tokenOf /\ hookRun' = hookRun
        /\ \A d \in Conns : thread'[d] = "free" <=> tokenOf'[d] = NoToken
        /\ hookRun'.by = "conn" => hookRun'.conn \in Conns /\ thread'[hookRun'.conn] = "hooking"
    BY <1>12 DEF EndLoop, TypeOK, States
  <2> QED BY <1>12, <2>1, <2>2 DEF EndLoop, TypeOK
<1>13. ASSUME NEW c \in Conns, CleanUp(c) PROVE TypeOK'
  <2>1. queue' \in [Conns -> Seq(Frames)] /\ \A d \in Conns : Len(queue'[d]) <= QueueCap
    <3>1. <<>> \in Seq(Frames) /\ Len(<<>>) = 0
      OBVIOUS
    <3> QED BY <1>13, <3>1, PushAssumption DEF CleanUp, TypeOK
  <2>2. /\ thread' \in [Conns -> States] /\ tokenOf' \in [Conns -> Tokens \cup {NoToken}]
        /\ hookRun' = hookRun
        /\ \A d \in Conns : thread'[d] = "free" <=> tokenOf'[d] = NoToken
        /\ hookRun'.by = "conn" => hookRun'.conn \in Conns /\ thread'[hookRun'.conn] = "hooking"
    BY <1>13 DEF CleanUp, TypeOK, States
  <2>3. table' \subseteq PushClient BY <1>13 DEF CleanUp, TypeOK
  <2> QED BY <1>13, <2>1, <2>2, <2>3 DEF CleanUp, clientVars, TypeOK
<1>14. ASSUME NEW t \in Tokens, Connect(t) PROVE TypeOK'
  <2>1. PICK c \in FreeConns :
          /\ thread' = [thread EXCEPT ![c] = "open"] /\ tokenOf' = [tokenOf EXCEPT ![c] = t]
          /\ link' = [link EXCEPT ![t] = c]
    BY <1>14 DEF Connect
  <2>2. /\ thread' \in [Conns -> States] /\ tokenOf' \in [Conns -> Tokens \cup {NoToken}]
        /\ link' \in [Tokens -> Conns \cup {NoConn}]
        /\ \A d \in Conns : thread'[d] = "free" <=> tokenOf'[d] = NoToken
        /\ hookRun.by = "conn" => hookRun.conn \in Conns /\ thread'[hookRun.conn] = "hooking"
    BY <2>1, PushAssumption DEF FreeConns, TypeOK, States
  <2> QED BY <1>14, <2>2 DEF Connect, TypeOK
<1>15. ASSUME NEW t \in Tokens, Read(t) PROVE TypeOK'
  <2>1. link[t] \in Conns /\ wire[link[t]] \in Seq(Frames) /\ wire[link[t]] # <<>>
    BY <1>15 DEF Read, TypeOK
  <2>2. Head(wire[link[t]]) \in Frames /\ Tail(wire[link[t]]) \in Seq(Frames)
        /\ Len(Tail(wire[link[t]])) = Len(wire[link[t]]) - 1 /\ Len(wire[link[t]]) \in Nat
    BY <2>1, HeadTailProperties
  <2>3. wire' \in [Conns -> Seq(Frames)] /\ \A d \in Conns : Len(wire'[d]) <= WireCap
    BY <1>15, <2>1, <2>2, PushAssumption DEF Read, TypeOK
  <2>4. Head(wire[link[t]]).on \in BOOLEAN 
    <3>1. READY.on = FALSE /\ COMMIT.on = FALSE /\ \A v \in BOOLEAN : Config(v).on = v
      BY DEF READY, COMMIT, Config
    <3> QED BY <2>2, <3>1 DEF Frames
  <2>5. title' \in [Tokens -> BOOLEAN] /\ synced' \in [Tokens -> {"no", "posted", "yes", "swallowed"}]
        /\ typed' \in Nat
    BY <1>15, <2>4 DEF Read, TypeOK
  <2> QED BY <1>15, <2>3, <2>5 DEF Read, serverVars, TypeOK
<1>16. ASSUME NEW t \in Tokens, Sync(t) PROVE TypeOK'
  BY <1>16 DEF Sync, serverVars, TypeOK
<1>17. ASSUME NEW t \in Tokens, HookComputes(t) PROVE TypeOK'
  <2>1. hookRun' \in HookRun /\ hookRun'.cur = {t} /\ hookRun'.todo = hookRun.todo
        /\ hookRun'.by = hookRun.by /\ hookRun'.conn = hookRun.conn
    BY <1>17 DEF HookComputes, TypeOK, HookRun
  <2> QED BY <1>17, <2>1 DEF HookComputes, clientVars, TypeOK
<1>18. ASSUME NEW t \in Tokens, ReadError(t) \/ Exit(t) PROVE TypeOK'
  <2>1. used' \in Used BY <1>18, UsedType DEF ReadError, Exit, CloseEnd, TypeOK
  <2>2. wire' \in [Conns -> Seq(Frames)] /\ \A d \in Conns : Len(wire'[d]) <= WireCap
    <3>1. <<>> \in Seq(Frames) /\ Len(<<>>) = 0
      OBVIOUS
    <3>2. link[t] \in Conns /\ wire' = [wire EXCEPT ![link[t]] = <<>>]
      BY <1>18 DEF ReadError, Exit, CloseEnd, TypeOK
    <3> QED BY <3>1, <3>2, PushAssumption DEF TypeOK
  <2>3. link' \in [Tokens -> Conns \cup {NoConn}] /\ alive' \subseteq Tokens
    BY <1>18 DEF ReadError, Exit, CloseEnd, TypeOK
  <2>4. UNCHANGED <<serverVars, title, synced, typed>>
    BY <1>18 DEF ReadError, Exit
  <2> QED BY <2>1, <2>2, <2>3, <2>4 DEF serverVars, TypeOK
<1>19. ASSUME NEW t \in Tokens \cup {NoToken}, PushCommit(t) PROVE TypeOK'
  <2>1. CommitTargets(t) \in SUBSET PushClient BY <1>a DEF CommitTargets
  <2>2. Offer(CommitTargets(t), COMMIT, table) BY <1>19 DEF PushCommit
  <2>3. /\ queue' \in [Conns -> Seq(Frames)] /\ \A c \in Conns : Len(queue'[c]) <= QueueCap
        /\ table' \subseteq PushClient
    BY <1>a, <2>1, <2>2, OfferType, FrameTypes
  <2>4. used' \in Used BY <1>19, UsedType DEF PushCommit, TypeOK
  <2> QED BY <1>19, <2>3, <2>4 DEF PushCommit, clientVars, TypeOK
<1>20. CASE UNCHANGED vars
  BY <1>20 DEF vars, serverVars, clientVars, TypeOK
<1> QED
  BY <1>1, <1>2, <1>3, <1>4, <1>5, <1>6, <1>7, <1>8, <1>9, <1>10, <1>11, <1>12, <1>13, <1>14,
     <1>15, <1>16, <1>17, <1>18, <1>19, <1>20
  DEF Next, ThreadStep, ClientStep

(* Every variable keeps its type; no queue and no pipe holds more than it may. *)
THEOREM TypeCorrect == Spec => []TypeOK
<1> QED BY TypeInit, TypeNext, PTL DEF Spec


--------------------------------------------------------------------------------
(* The table. *)

LEMMA OneConn ==
    ASSUME TypeOK, TableServed, NEW e \in table, NEW f \in table, e.conn = f.conn
    PROVE  e = f
BY DEF TableServed

\* An offer adds nothing to the table it is given.
LEMMA OfferTable ==
    ASSUME NEW entries, NEW f, NEW tbl, Offer(entries, f, tbl)
    PROVE  table' \subseteq tbl
BY DEF Offer, DropStalled

LEMMA ServedNext ==
    ASSUME TypeOK, TableServed, [Next]_vars
    PROVE  TableServed'
<1>1. CASE MarkReady
  <2> DEFINE Sent(e) == [e EXCEPT !.ready_sent = TRUE]
  <2>1. table' \subseteq {Sent(e) : e \in table}
    BY <1>1, OfferTable DEF MarkReady
  <2>2. \A e \in table : Sent(e).token = e.token /\ Sent(e).conn = e.conn
    BY MarkedType DEF TypeOK
  <2>3. tokenOf' = tokenOf /\ thread' = thread BY <1>1 DEF MarkReady
  <2> HIDE DEF Sent
  <2> QED BY <2>1, <2>2, <2>3 DEF TableServed
<1>2. CASE SetHook
  <2> DEFINE Hooked(e) == [e EXCEPT !.hooked = TRUE]
  <2>1. table' = {Hooked(e) : e \in table} /\ tokenOf' = tokenOf /\ thread' = thread
    BY <1>2 DEF SetHook
  <2>2. \A e \in table : Hooked(e).token = e.token /\ Hooked(e).conn = e.conn
    BY MarkedType DEF TypeOK
  <2> HIDE DEF Hooked
  <2> QED BY <2>1, <2>2 DEF TableServed
<1>3. CASE HookPushes
  <2>1. table' \subseteq table BY <1>3, OfferTable DEF HookPushes
  <2>2. \A e \in table : e.conn \in Conns BY DEF TypeOK, PushClient
  <2>3. tokenOf' = tokenOf /\ \A c \in Conns : thread'[c] \in {thread[c], "writing"}
    BY <1>3 DEF HookPushes, TypeOK
  <2> QED BY <2>1, <2>2, <2>3 DEF TableServed
<1>4. CASE ReloadPush \/ \E t \in Tokens \cup {NoToken} : PushCommit(t)
  <2>1. table' \subseteq table BY <1>4, OfferTable DEF ReloadPush, PushCommit
  <2> QED BY <1>4, <2>1 DEF ReloadPush, PushCommit, TableServed
<1>5. CASE Crash
  BY <1>5 DEF Crash, TableServed
<1>6. ASSUME NEW c \in Conns, Register(c) PROVE TableServed'
  <2> DEFINE new == [conn |-> c, token |-> tokenOf[c], hooked |-> FALSE, ready_sent |-> ready]
  <2>1. table' = {e \in table : e.token # tokenOf[c]} \cup {new} /\ tokenOf' = tokenOf
    BY <1>6 DEF Register, EntriesOf
  <2>2. thread'[c] = "registered" /\ \A d \in Conns : thread'[d] \in {thread[d], "registered"}
    BY <1>6 DEF Register, TypeOK
  <2>3. \A e \in table : e.conn \in Conns BY DEF TypeOK, PushClient
  <2>4. new.conn = c /\ new.token = tokenOf[c]
    OBVIOUS
  <2> HIDE DEF new
  <2>5. \A e, f \in table' : e.token = f.token => e = f
    BY <2>1, <2>4 DEF TableServed
  <2>6. \A e \in table' : tokenOf[e.conn] = e.token /\ thread'[e.conn] \notin {"free", "open"}
    BY <2>1, <2>2, <2>3, <2>4 DEF TableServed
  <2> QED BY <2>1, <2>5, <2>6 DEF TableServed
<1>7. ASSUME NEW c \in Conns, ClaimHook(c) PROVE TableServed'
  <2> DEFINE Hooked(e) == [e EXCEPT !.hooked = TRUE]
  <2>1. table' = (table \ Claimed(c)) \cup {Hooked(e) : e \in Claimed(c)} /\ tokenOf' = tokenOf
    BY <1>7 DEF ClaimHook
  <2>2. Claimed(c) \subseteq table /\ \A e \in table : Hooked(e).token = e.token /\ Hooked(e).conn = e.conn
    BY MarkedType DEF TypeOK, Claimed, EntriesOf
  <2>3. \A d \in Conns : thread'[d] \in {thread[d], "hooking"}
    BY <1>7 DEF ClaimHook, TypeOK
  <2>4. \A e \in table : e.conn \in Conns BY DEF TypeOK, PushClient
  <2> HIDE DEF Hooked
  <2>5. \A f \in table' : \E e \in table :
          f.token = e.token /\ f.conn = e.conn /\ f = IF e \in Claimed(c) THEN Hooked(e) ELSE e
    BY <2>1, <2>2
  <2>6. \A e, f \in table' : e.token = f.token => e = f
    BY <2>5 DEF TableServed
  <2>7. \A e \in table' : tokenOf[e.conn] = e.token /\ thread'[e.conn] \notin {"free", "open"}
    BY <2>3, <2>4, <2>5 DEF TableServed
  <2> QED BY <2>1, <2>6, <2>7 DEF TableServed
<1>8. ASSUME NEW c \in Conns, SkipHook(c) \/ EndLoop(c) PROVE TableServed'
  <2>1. \A d \in Conns : thread'[d] \in {thread[d], "writing", "ending"}
    BY <1>8 DEF SkipHook, EndLoop, TypeOK
  <2>2. tokenOf' = tokenOf /\ table' = table BY <1>8 DEF SkipHook, EndLoop
  <2>3. \A e \in table : e.conn \in Conns BY DEF TypeOK, PushClient
  <2> QED BY <2>1, <2>2, <2>3 DEF TableServed
<1>9. ASSUME NEW c \in Conns, CleanUp(c) PROVE TableServed'
  <2>1. table' = {e \in table : e.token # tokenOf[c]} BY <1>9 DEF CleanUp, EntriesOf
  <2>2. \A d \in Conns : d # c => thread'[d] = thread[d] /\ tokenOf'[d] = tokenOf[d]
    BY <1>9 DEF CleanUp, TypeOK
  <2>3. \A e \in table' : e.conn \in Conns /\ e.conn # c
    BY <2>1 DEF TypeOK, PushClient, TableServed
  <2> QED BY <2>1, <2>2, <2>3 DEF TableServed
<1>10. ASSUME NEW t \in Tokens, Connect(t) PROVE TableServed'
  <2>1. PICK c \in FreeConns :
          thread' = [thread EXCEPT ![c] = "open"] /\ tokenOf' = [tokenOf EXCEPT ![c] = t]
    BY <1>10 DEF Connect
  <2>2. c \in Conns /\ thread[c] = "free" BY <2>1 DEF FreeConns
  <2>3. \A e \in table : e.conn \in Conns /\ e.conn # c
    BY <2>2 DEF TypeOK, PushClient, TableServed
  <2>4. \A d \in Conns : d # c => thread'[d] = thread[d] /\ tokenOf'[d] = tokenOf[d]
    BY <2>1 DEF TypeOK
  <2> QED BY <1>10, <2>3, <2>4 DEF Connect, TableServed
<1>11. CASE UNCHANGED <<table, thread, tokenOf>>
  BY <1>11 DEF TableServed
<1> QED
  BY <1>1, <1>2, <1>3, <1>4, <1>5, <1>6, <1>7, <1>8, <1>9, <1>10, <1>11
  DEF Next, ThreadStep, ClientStep, vars, serverVars, SetReady, ReloadTable, Write, Read, Sync,
      HookComputes, ReadError, Exit

(* A client is listed at most once, and only while a thread serves its connection. *)
THEOREM ClientsServed == Spec => []TableServed
<1>1. Init => TableServed
  BY DEF Init, TableServed
<1> QED BY <1>1, ServedNext, TypeCorrect, PTL DEF Spec

--------------------------------------------------------------------------------
(* What is on its way to the reader of a connection, in the order in which it *)
(* will be read.                                                               *)
Stream(c) == wire[c] \o queue[c]

\* A reader whose switch is d has v in it when it has read s.
Leaves(s, d, v) ==
    \/ /\ \A i \in DOMAIN s : s[i].kind = "commit"
       /\ d = v
    \/ \E i \in DOMAIN s :
         /\ s[i].kind # "commit" /\ s[i].on = v
         /\ \A j \in DOMAIN s : j > i => s[j].kind = "commit"

Has(s, f) == \E i \in DOMAIN s : s[i] = f

LEMMA ConcatAppend ==
    ASSUME NEW w \in Seq(Frames), NEW q \in Seq(Frames), NEW f \in Frames
    PROVE  w \o Append(q, f) = Append(w \o q, f)
<1> DEFINE a == w \o Append(q, f)
           b == Append(w \o q, f)
<1>1. /\ Append(q, f) \in Seq(Frames) /\ Len(Append(q, f)) = Len(q) + 1 /\ Append(q, f)[Len(q) + 1] = f
      /\ \A i \in 1 .. Len(q) : Append(q, f)[i] = q[i]
      /\ Len(q) \in Nat /\ Len(w) \in Nat
  OBVIOUS
<1>2. /\ w \o q \in Seq(Frames) /\ Len(w \o q) = Len(w) + Len(q)
      /\ \A i \in 1 .. Len(w) + Len(q) : (w \o q)[i] = IF i <= Len(w) THEN w[i] ELSE q[i - Len(w)]
  BY ConcatProperties
<1>3. /\ a \in Seq(Frames) /\ Len(a) = Len(w) + Len(q) + 1
      /\ \A i \in 1 .. Len(w) + Len(q) + 1 : a[i] = IF i <= Len(w) THEN w[i] ELSE Append(q, f)[i - Len(w)]
  BY <1>1, ConcatProperties
<1>4. /\ b \in Seq(Frames) /\ Len(b) = Len(w) + Len(q) + 1 /\ b[Len(w) + Len(q) + 1] = f
      /\ \A i \in 1 .. Len(w) + Len(q) : b[i] = (w \o q)[i]
  BY <1>1, <1>2
<1> HIDE DEF a, b
<1>5. \A i \in 1 .. Len(a) : a[i] = b[i]
  <2> SUFFICES ASSUME NEW i \in 1 .. Len(w) + Len(q) + 1 PROVE a[i] = b[i]
    BY <1>3
  <2>1. CASE i = Len(w) + Len(q) + 1
    BY <1>1, <1>3, <1>4, <2>1
  <2>2. CASE i <= Len(w)
    <3>1. i \in 1 .. Len(w) + Len(q) BY <1>1, <2>2
    <3>2. a[i] = w[i] BY <1>1, <1>3, <2>2
    <3> QED BY <1>2, <1>4, <2>2, <3>1, <3>2
  <2>3. CASE i > Len(w) /\ i <= Len(w) + Len(q)
    <3>1. i - Len(w) \in 1 .. Len(q) BY <1>1, <2>3
    <3>2. a[i] = q[i - Len(w)] BY <1>1, <1>3, <2>3, <3>1
    <3>3. b[i] = q[i - Len(w)] BY <1>1, <1>2, <1>4, <2>3
    <3> QED BY <3>2, <3>3
  <2> QED BY <1>1, <2>1, <2>2, <2>3
<1> QED BY <1>3, <1>4, <1>5, SeqEqual DEF a, b

LEMMA TailConcat ==
    ASSUME NEW w \in Seq(Frames), NEW q \in Seq(Frames), w # <<>>
    PROVE  w \o q # <<>> /\ Head(w \o q) = Head(w) /\ Tail(w \o q) = Tail(w) \o q
<1> DEFINE a == Tail(w \o q)
           b == Tail(w) \o q
           n == Len(w) - 1
<1>1. /\ Len(w) \in Nat \ {0} /\ Len(q) \in Nat /\ n \in Nat /\ Head(w) = w[1]
      /\ Tail(w) \in Seq(Frames) /\ Len(Tail(w)) = n /\ \A i \in 1 .. n : Tail(w)[i] = w[i + 1]
  BY HeadTailProperties, EmptySeq
<1>2. /\ w \o q \in Seq(Frames) /\ Len(w \o q) = n + 1 + Len(q)
      /\ \A i \in 1 .. n + 1 + Len(q) : (w \o q)[i] = IF i <= n + 1 THEN w[i] ELSE q[i - (n + 1)]
  BY <1>1, ConcatProperties
<1>3. w \o q # <<>> /\ Head(w \o q) = (w \o q)[1] /\ (w \o q)[1] = w[1]
  BY <1>1, <1>2, EmptySeq
<1>4. /\ a \in Seq(Frames) /\ Len(a) = n + Len(q)
      /\ \A i \in 1 .. n + Len(q) : a[i] = (w \o q)[i + 1]
  BY <1>1, <1>2, <1>3, HeadTailProperties
<1>5. /\ b \in Seq(Frames) /\ Len(b) = n + Len(q)
      /\ \A i \in 1 .. n + Len(q) : b[i] = IF i <= n THEN Tail(w)[i] ELSE q[i - n]
  BY <1>1, ConcatProperties
<1> HIDE DEF a, b, n
<1>6. \A i \in 1 .. Len(a) : a[i] = b[i]
  <2> SUFFICES ASSUME NEW i \in 1 .. n + Len(q) PROVE a[i] = b[i]
    BY <1>4
  <2>1. a[i] = IF i + 1 <= n + 1 THEN w[i + 1] ELSE q[(i + 1) - (n + 1)]
    BY <1>1, <1>2, <1>4
  <2>2. (i + 1) - (n + 1) = i - n /\ (i + 1 <= n + 1 <=> i <= n) BY <1>1
  <2>3. i <= n => Tail(w)[i] = w[i + 1] BY <1>1
  <2> QED BY <1>5, <2>1, <2>2, <2>3
<1> QED BY <1>1, <1>3, <1>4, <1>5, <1>6, SeqEqual DEF a, b

LEMMA MoveHead ==
    ASSUME NEW w \in Seq(Frames), NEW q \in Seq(Frames), q # <<>>
    PROVE  Append(w, Head(q)) \o Tail(q) = w \o q
<1> DEFINE h == <<Head(q)>>
<1>1. Head(q) \in Frames /\ Tail(q) \in Seq(Frames) /\ h \in Seq(Frames)
  BY HeadTailProperties
<1>2. h \o Tail(q) = q
  <2>1. /\ Len(q) \in Nat \ {0} /\ Head(q) = q[1] /\ Len(Tail(q)) = Len(q) - 1
        /\ \A i \in 1 .. Len(q) - 1 : Tail(q)[i] = q[i + 1]
    BY HeadTailProperties, EmptySeq
  <2>2. /\ h \o Tail(q) \in Seq(Frames) /\ Len(h) = 1 /\ h[1] = Head(q)
        /\ Len(h \o Tail(q)) = 1 + Len(Tail(q))
        /\ \A i \in 1 .. 1 + Len(Tail(q)) : (h \o Tail(q))[i] = IF i <= 1 THEN h[i] ELSE Tail(q)[i - 1]
    BY <1>1, ConcatProperties
  <2> HIDE DEF h
  <2>3. \A i \in 1 .. Len(h \o Tail(q)) : (h \o Tail(q))[i] = q[i]
    <3> SUFFICES ASSUME NEW i \in 1 .. Len(q) PROVE (h \o Tail(q))[i] = q[i]
      BY <2>1, <2>2
    <3>1. CASE i = 1 BY <2>1, <2>2, <3>1
    <3>2. CASE i > 1
      <4>1. i - 1 \in 1 .. Len(q) - 1 /\ i - 1 + 1 = i BY <2>1, <3>2
      <4>2. Tail(q)[i - 1] = q[i - 1 + 1] BY <2>1, <4>1
      <4>3. i \in 1 .. 1 + Len(Tail(q)) /\ ~(i <= 1) BY <2>1, <3>2
      <4>4. (h \o Tail(q))[i] = Tail(q)[i - 1] BY <2>2, <4>3
      <4> QED BY <4>1, <4>2, <4>4
    <3>3. i = 1 \/ i > 1 BY <2>1
    <3> QED BY <3>1, <3>2, <3>3
  <2>4. Len(h \o Tail(q)) = Len(q) BY <2>1, <2>2
  <2>5. h \o Tail(q) \in Seq(Frames) BY <2>2
  <2> QED BY <2>3, <2>4, <2>5, SeqEqual
<1>3. Append(w, Head(q)) = w \o h
  BY <1>1
<1>4. (w \o h) \o Tail(q) = w \o (h \o Tail(q))
  BY <1>1, ConcatAssociative
<1> QED BY <1>2, <1>3, <1>4

LEMMA StreamType ==
    ASSUME TypeOK, NEW c \in Conns
    PROVE  Stream(c) \in Seq(Frames) /\ wire[c] \in Seq(Frames) /\ queue[c] \in Seq(Frames)
BY ConcatProperties DEF TypeOK, Stream

LEMMA LeavesCommit ==
    ASSUME NEW s \in Seq(Frames), NEW d, NEW v, Leaves(s, d, v)
    PROVE  Leaves(Append(s, COMMIT), d, v)
<1>1. COMMIT.kind = "commit" BY DEF COMMIT
<1>2. DOMAIN Append(s, COMMIT) = 1 .. Len(s) + 1 /\ DOMAIN s = 1 .. Len(s) /\ Len(s) \in Nat
      /\ Append(s, COMMIT)[Len(s) + 1] = COMMIT /\ \A i \in 1 .. Len(s) : Append(s, COMMIT)[i] = s[i]
  BY FrameTypes
<1> HIDE DEF COMMIT
<1> QED BY <1>1, <1>2 DEF Leaves

LEMMA LeavesConfig ==
    ASSUME NEW s \in Seq(Frames), NEW d, NEW v \in BOOLEAN
    PROVE  Leaves(Append(s, Config(v)), d, v)
<1>1. Config(v).kind = "config" /\ Config(v).on = v BY DEF Config
<1>2. DOMAIN Append(s, Config(v)) = 1 .. Len(s) + 1 /\ Len(s) \in Nat
      /\ Append(s, Config(v))[Len(s) + 1] = Config(v)
  BY FrameTypes
<1> QED BY <1>1, <1>2 DEF Leaves

LEMMA LeavesRead ==
    ASSUME NEW s \in Seq(Frames), s # <<>>, NEW d, NEW v, Leaves(s, d, v)
    PROVE  Leaves(Tail(s), IF Head(s).kind = "commit" THEN d ELSE Head(s).on, v)
<1> DEFINE t == Tail(s)
<1>1. /\ Len(s) \in Nat \ {0} /\ DOMAIN s = 1 .. Len(s) /\ DOMAIN t = 1 .. Len(s) - 1
      /\ Head(s) = s[1] /\ \A i \in 1 .. Len(s) - 1 : t[i] = s[i + 1]
  BY HeadTailProperties, EmptySeq, LenProperties
<1> HIDE DEF t
<1>2. CASE \A i \in DOMAIN s : s[i].kind = "commit"
  <2>1. d = v BY <1>2 DEF Leaves
  <2>2. \A i \in DOMAIN t : t[i].kind = "commit" BY <1>1, <1>2
  <2> QED BY <1>1, <1>2, <2>1, <2>2 DEF Leaves, t
<1>3. CASE \E i \in DOMAIN s : s[i].kind # "commit"
  <2>1. PICK i \in 1 .. Len(s) :
          s[i].kind # "commit" /\ s[i].on = v /\ \A j \in DOMAIN s : j > i => s[j].kind = "commit"
    BY <1>1, <1>3 DEF Leaves
  <2>2. CASE i = 1
    <3>1. \A j \in DOMAIN t : t[j].kind = "commit" BY <1>1, <2>1, <2>2
    <3> QED BY <1>1, <2>1, <2>2, <3>1 DEF Leaves, t
  <2>3. CASE i # 1
    <3>1. i - 1 \in DOMAIN t /\ t[i - 1] = s[i] BY <1>1, <2>1, <2>3
    <3>2. \A j \in DOMAIN t : j > i - 1 => t[j].kind = "commit" BY <1>1, <2>1, <2>3
    <3> QED BY <2>1, <3>1, <3>2 DEF Leaves, t
  <2> QED BY <2>2, <2>3
<1> QED BY <1>2, <1>3

LEMMA HasAppend ==
    ASSUME NEW s \in Seq(Frames), NEW f \in Frames, NEW g, Has(s, g) \/ f = g
    PROVE  Has(Append(s, f), g)
<1>1. DOMAIN Append(s, f) = 1 .. Len(s) + 1 /\ DOMAIN s = 1 .. Len(s) /\ Len(s) \in Nat
      /\ Append(s, f)[Len(s) + 1] = f /\ \A i \in 1 .. Len(s) : Append(s, f)[i] = s[i]
  OBVIOUS
<1> QED BY <1>1 DEF Has

LEMMA HasTail ==
    ASSUME NEW s \in Seq(Frames), s # <<>>, NEW g, Has(s, g), Head(s) # g
    PROVE  Has(Tail(s), g)
<1>1. /\ Len(s) \in Nat \ {0} /\ DOMAIN s = 1 .. Len(s) /\ DOMAIN Tail(s) = 1 .. Len(s) - 1
      /\ Head(s) = s[1] /\ \A i \in 1 .. Len(s) - 1 : Tail(s)[i] = s[i + 1]
  BY HeadTailProperties, EmptySeq, LenProperties
<1>2. PICK i \in 1 .. Len(s) : s[i] = g /\ i # 1
  BY <1>1 DEF Has
<1>3. i - 1 \in 1 .. Len(s) - 1 /\ Tail(s)[i - 1] = g BY <1>1, <1>2
<1> QED BY <1>1, <1>3 DEF Has

\* An offer reaches the end of the stream of each client that stays listed, and no other stream.
LEMMA OfferStream ==
    ASSUME TypeOK, TableServed, NEW entries \in SUBSET table, NEW f \in Frames, NEW tbl,
           \A e \in tbl : \E x \in table : x.conn = e.conn /\ x.token = e.token,
           wire' = wire, Offer(entries, f, tbl)
    PROVE  \A e \in table' :
             Stream(e.conn)' = IF \E x \in entries : x.conn = e.conn
                               THEN Append(Stream(e.conn), f) ELSE Stream(e.conn)
<1> SUFFICES ASSUME NEW e \in table'
             PROVE  Stream(e.conn)' = IF \E x \in entries : x.conn = e.conn
                                      THEN Append(Stream(e.conn), f) ELSE Stream(e.conn)
  OBVIOUS
<1> DEFINE stalled == {x \in entries : Full(x.conn)}
           takers == {x.conn : x \in entries \ stalled}
<1>1. queue' = [c \in Conns |-> IF c \in takers THEN Append(queue[c], f) ELSE queue[c]]
  BY DEF Offer
<1>2. e \in tbl /\ \A x \in stalled : e.token # x.token
  BY DEF Offer, DropStalled
<1>3. PICK y \in table : y.conn = e.conn /\ y.token = e.token
  BY <1>2
<1>4. e.conn \in Conns BY <1>3 DEF TypeOK, PushClient
<1>5. queue[e.conn] \in Seq(Frames) /\ wire[e.conn] \in Seq(Frames) BY <1>4, StreamType
<1>6. CASE \E x \in entries : x.conn = e.conn
  <2>1. PICK x \in entries : x.conn = e.conn BY <1>6
  <2>2. x = y BY <1>3, <2>1, OneConn
  <2>3. x \notin stalled BY <1>2, <1>3, <2>2
  <2>4. e.conn \in takers BY <2>1, <2>3
  <2> HIDE DEF takers
  <2>5. queue'[e.conn] = Append(queue[e.conn], f) BY <1>1, <1>4, <2>4
  <2>6. wire[e.conn] \o Append(queue[e.conn], f) = Append(wire[e.conn] \o queue[e.conn], f)
    BY <1>5, ConcatAppend
  <2> QED BY <1>6, <2>5, <2>6 DEF Stream
<1>7. CASE ~\E x \in entries : x.conn = e.conn
  <2>1. e.conn \notin takers BY <1>7
  <2> HIDE DEF takers
  <2> QED BY <1>1, <1>4, <1>7, <2>1 DEF Stream
<1> QED BY <1>6, <1>7

\* A write moves the head of the queue to the end of the pipe.
LEMMA WriteStream ==
    ASSUME TypeOK, NEW c \in Conns, Write(c)
    PROVE  \A d \in Conns : Stream(d)' = Stream(d)
<1>1. queue[c] \in Seq(Frames) /\ queue[c] # <<>> /\ wire[c] \in Seq(Frames)
  BY StreamType DEF Write
<1>2. Append(wire[c], Head(queue[c])) \o Tail(queue[c]) = wire[c] \o queue[c]
  BY <1>1, MoveHead
<1>3. /\ wire' = [wire EXCEPT ![c] = Append(wire[c], Head(queue[c]))]
      /\ queue' = [queue EXCEPT ![c] = Tail(queue[c])]
  BY DEF Write
<1>4. \A d \in Conns : d # c => wire'[d] = wire[d] /\ queue'[d] = queue[d]
  BY <1>3 DEF TypeOK
<1>5. wire'[c] = Append(wire[c], Head(queue[c])) /\ queue'[c] = Tail(queue[c])
  BY <1>3 DEF TypeOK
<1> QED BY <1>2, <1>4, <1>5 DEF Stream

\* A read takes the head of the stream.
LEMMA ReadStream ==
    ASSUME TypeOK, NEW t \in Tokens, Read(t)
    PROVE  /\ link[t] \in Conns /\ Stream(link[t]) # <<>>
           /\ Head(Stream(link[t])) = Head(wire[link[t]])
           /\ Stream(link[t])' = Tail(Stream(link[t]))
           /\ \A d \in Conns \ {link[t]} : Stream(d)' = Stream(d)
<1> DEFINE c == link[t]
<1>1. c \in Conns /\ wire[c] \in Seq(Frames) /\ wire[c] # <<>> /\ queue[c] \in Seq(Frames)
  BY StreamType DEF Read, TypeOK
<1>2. wire' = [wire EXCEPT ![c] = Tail(wire[c])] /\ queue' = queue /\ link' = link
  BY DEF Read, serverVars
<1>3. Stream(c) # <<>> /\ Head(Stream(c)) = Head(wire[c]) /\ Tail(Stream(c)) = Tail(wire[c]) \o queue[c]
  BY <1>1, TailConcat DEF Stream
<1>4. \A d \in Conns \ {c} : wire'[d] = wire[d] BY <1>2 DEF TypeOK
<1>5. wire'[c] = Tail(wire[c]) BY <1>1, <1>2 DEF TypeOK
<1> QED BY <1>1, <1>2, <1>3, <1>4, <1>5 DEF Stream

(* Why a DLL at rest is up to date. *)

\* A DLL reads from the connection that has its token; a connection it does not write to is empty.
LinksKnown ==
    /\ \A t \in Tokens : link[t] # NoConn =>
         tokenOf[link[t]] = t /\ thread[link[t]] \notin {"free", "ending"}
    /\ \A c \in Conns : thread[c] # "writing" => wire[c] = <<>>

\* The service is made ready in order, and a connection that is written to has had its hook called.
InOrder ==
    /\ hook => ready
    /\ ready => handler
    /\ ~hook => hookRun = Idle
    /\ \A e \in table :
         /\ e.ready_sent <=> ready
         /\ e.hooked => hook
         /\ hook /\ thread[e.conn] \in {"hooking", "writing"} => e.hooked

\* SERVICE_READY is on its way to a listed client, or has come.
ReadyUnderWay ==
    \A t \in Tokens : \A e \in table : link[t] = e.conn /\ ready =>
        Has(Stream(e.conn), READY) \/ synced[t] \in {"posted", "yes"}

\* A listed client that is owed no push has, or will read, what the compat table says.
ConfigUnderWay ==
    /\ hookRun.cur # {} => hookRun.val = compat
    /\ \A t \in Tokens : \A e \in table :
         link[t] = e.conn /\ e.hooked /\ t \notin hookRun.todo /\ ~reload =>
             Leaves(Stream(e.conn), title[t], compat)

CurrentInv == TableServed /\ LinksKnown /\ InOrder /\ ReadyUnderWay /\ ConfigUnderWay

LEMMA LinksNext ==
    ASSUME TypeOK, LinksKnown, [Next]_vars
    PROVE  LinksKnown'
<1>1. CASE HookPushes
  <2>1. link' = link /\ wire' = wire /\ tokenOf' = tokenOf
        /\ \A c \in Conns : thread'[c] = thread[c] \/ thread'[c] = "writing"
    BY <1>1 DEF HookPushes, clientVars, TypeOK
  <2> QED BY <2>1 DEF LinksKnown, TypeOK
<1>2. CASE Crash
  BY <1>2 DEF Crash, LinksKnown
<1>3. ASSUME NEW c \in Conns, Register(c) \/ ClaimHook(c) \/ SkipHook(c) PROVE LinksKnown'
  <2>1. link' = link /\ wire' = wire /\ tokenOf' = tokenOf /\ thread[c] \in {"open", "registered"}
        /\ thread'[c] \in {"registered", "hooking", "writing"}
        /\ \A d \in Conns : d # c => thread'[d] = thread[d]
    BY <1>3 DEF Register, ClaimHook, SkipHook, clientVars, TypeOK
  <2> QED BY <2>1 DEF LinksKnown, TypeOK
<1>4. ASSUME NEW c \in Conns, Write(c) PROVE LinksKnown'
  <2>1. link' = link /\ tokenOf' = tokenOf /\ thread' = thread /\ thread[c] = "writing"
        /\ \A d \in Conns : d # c => wire'[d] = wire[d]
    BY <1>4 DEF Write, TypeOK
  <2> QED BY <2>1 DEF LinksKnown, TypeOK
<1>5. ASSUME NEW c \in Conns, EndLoop(c) PROVE LinksKnown'
  <2>1. link' = [t \in Tokens |-> IF link[t] = c THEN NoConn ELSE link[t]] /\ tokenOf' = tokenOf
    BY <1>5 DEF EndLoop
  <2>2. wire'[c] = <<>> /\ \A d \in Conns : d # c => thread'[d] = thread[d] /\ wire'[d] = wire[d]
    BY <1>5 DEF EndLoop, TypeOK
  <2> QED BY <2>1, <2>2 DEF LinksKnown, TypeOK
<1>6. ASSUME NEW c \in Conns, CleanUp(c) PROVE LinksKnown'
  <2>1. link' = link /\ wire' = wire /\ thread[c] = "ending"
        /\ \A d \in Conns : d # c => thread'[d] = thread[d] /\ tokenOf'[d] = tokenOf[d]
    BY <1>6 DEF CleanUp, clientVars, TypeOK
  <2> QED BY <2>1 DEF LinksKnown, TypeOK
<1>7. ASSUME NEW t \in Tokens, Connect(t) PROVE LinksKnown'
  <2>1. PICK c \in FreeConns :
          /\ thread' = [thread EXCEPT ![c] = "open"] /\ tokenOf' = [tokenOf EXCEPT ![c] = t]
          /\ link' = [link EXCEPT ![t] = c]
    BY <1>7 DEF Connect
  <2>2. c \in Conns /\ thread[c] = "free" BY <2>1 DEF FreeConns
  <2>3. wire' = wire /\ wire[c] = <<>> BY <1>7, <2>2 DEF Connect, LinksKnown
  <2>4. thread'[c] = "open" /\ tokenOf'[c] = t
        /\ \A d \in Conns : d # c => thread'[d] = thread[d] /\ tokenOf'[d] = tokenOf[d]
    BY <2>1, <2>2 DEF TypeOK
  <2>5. link'[t] = c /\ \A u \in Tokens : u # t => link'[u] = link[u] BY <2>1 DEF TypeOK
  <2>6. ASSUME NEW u \in Tokens, link'[u] # NoConn
        PROVE  tokenOf'[link'[u]] = u /\ thread'[link'[u]] \notin {"free", "ending"}
    <3>1. CASE u = t BY <2>4, <2>5, <3>1
    <3>2. CASE u # t
      <4>1. link'[u] = link[u] /\ link[u] \in Conns BY <2>5, <2>6, <3>2 DEF TypeOK
      <4>2. tokenOf[link[u]] = u /\ thread[link[u]] \notin {"free", "ending"}
        BY <2>6, <4>1 DEF LinksKnown
      <4> QED BY <2>2, <2>4, <4>1, <4>2
    <3> QED BY <3>1, <3>2
  <2>7. ASSUME NEW d \in Conns, thread'[d] # "writing" PROVE wire'[d] = <<>>
    BY <2>3, <2>4, <2>7 DEF LinksKnown
  <2> QED BY <2>6, <2>7 DEF LinksKnown
<1>8. ASSUME NEW t \in Tokens, Read(t) PROVE LinksKnown'
  <2>1. link' = link /\ thread' = thread /\ tokenOf' = tokenOf /\ link[t] \in Conns /\ wire[link[t]] # <<>>
        /\ \A d \in Conns : d # link[t] => wire'[d] = wire[d]
    BY <1>8 DEF Read, serverVars, TypeOK
  <2> QED BY <2>1 DEF LinksKnown, TypeOK
<1>9. ASSUME NEW t \in Tokens, ReadError(t) \/ Exit(t) PROVE LinksKnown'
  <2>1. /\ thread' = thread /\ tokenOf' = tokenOf
        /\ \A d \in Conns : wire'[d] \in {wire[d], <<>>}
        /\ \A u \in Tokens : link'[u] = link[u] \/ link'[u] = NoConn
    <3>1. thread' = thread /\ tokenOf' = tokenOf /\ wire' = [wire EXCEPT ![link[t]] = <<>>]
          /\ link' = [link EXCEPT ![t] = NoConn]
      BY <1>9 DEF ReadError, Exit, CloseEnd, serverVars
    <3> QED BY <3>1 DEF TypeOK
  <2>2. ASSUME NEW u \in Tokens, link'[u] # NoConn
        PROVE  tokenOf'[link'[u]] = u /\ thread'[link'[u]] \notin {"free", "ending"}
    BY <2>1, <2>2 DEF LinksKnown
  <2>3. ASSUME NEW c \in Conns, thread'[c] # "writing" PROVE wire'[c] = <<>>
    <3>1. wire[c] = <<>> BY <2>1, <2>3 DEF LinksKnown
    <3> QED BY <2>1, <3>1
  <2> QED BY <2>2, <2>3 DEF LinksKnown
<1>10. CASE UNCHANGED <<link, wire, thread, tokenOf>>
  BY <1>10 DEF LinksKnown
<1> QED
  BY <1>1, <1>2, <1>3, <1>4, <1>5, <1>6, <1>7, <1>8, <1>9, <1>10
  DEF Next, ThreadStep, ClientStep, vars, serverVars, clientVars, SetReady, MarkReady, SetHook,
      ReloadTable, ReloadPush, PushCommit, Sync, HookComputes

LEMMA OrderNext ==
    ASSUME TypeOK, TableServed, InOrder, [Next]_vars
    PROVE  InOrder'
<1>a. \A e \in table : e \in PushClient /\ e.conn \in Conns
  BY DEF TypeOK, PushClient
<1>1. CASE SetReady BY <1>1 DEF SetReady, InOrder
<1>2. CASE MarkReady
  <2> DEFINE Sent(e) == [e EXCEPT !.ready_sent = TRUE]
  <2>1. table' \subseteq {Sent(e) : e \in table}
    BY <1>2, OfferTable DEF MarkReady
  <2>2. \A e \in table : Sent(e).conn = e.conn /\ Sent(e).hooked = e.hooked /\ Sent(e).ready_sent
    BY <1>a, MarkedType
  <2>3. ready' = TRUE /\ handler' = handler /\ handler /\ ~ready /\ hook' = hook
        /\ hookRun' = hookRun /\ thread' = thread
    BY <1>2 DEF MarkReady
  <2> HIDE DEF Sent
  <2> QED BY <2>1, <2>2, <2>3 DEF InOrder
<1>3. CASE SetHook
  <2> DEFINE Hooked(e) == [e EXCEPT !.hooked = TRUE]
  <2>1. table' = {Hooked(e) : e \in table} /\ ready /\ hook' = TRUE /\ thread' = thread
        /\ ready' = ready /\ handler' = handler
    BY <1>3 DEF SetHook
  <2>2. \A e \in table : Hooked(e).conn = e.conn /\ Hooked(e).hooked /\ Hooked(e).ready_sent = e.ready_sent
    BY <1>a, MarkedType
  <2> HIDE DEF Hooked
  <2> QED BY <2>1, <2>2 DEF InOrder
<1>4. CASE HookPushes
  <2>1. table' \subseteq table BY <1>4, OfferTable DEF HookPushes
  <2>2. hook /\ hook' = hook /\ ready' = ready /\ handler' = handler
    BY <1>4, IdleType DEF HookPushes, InOrder
  <2>3. \A c \in Conns : thread'[c] = thread[c] \/ thread[c] = "hooking"
    BY <1>4 DEF HookPushes, TypeOK
  <2> QED BY <1>a, <2>1, <2>2, <2>3 DEF InOrder
<1>5. CASE ReloadPush \/ \E t \in Tokens \cup {NoToken} : PushCommit(t)
  <2>1. table' \subseteq table BY <1>5, OfferTable DEF ReloadPush, PushCommit
  <2> QED BY <1>5, <2>1 DEF ReloadPush, PushCommit, InOrder
<1>6. CASE Crash
  BY <1>6 DEF Crash, InOrder
<1>7. ASSUME NEW c \in Conns, Register(c) PROVE InOrder'
  <2> DEFINE new == [conn |-> c, token |-> tokenOf[c], hooked |-> FALSE, ready_sent |-> ready]
  <2>1. table' \subseteq table \cup {new} /\ UNCHANGED <<handler, ready, hook, hookRun>>
    BY <1>7 DEF Register
  <2>2. new.conn = c /\ ~new.hooked /\ new.ready_sent = ready
    OBVIOUS
  <2>3. thread'[c] = "registered" /\ \A d \in Conns : d # c => thread'[d] = thread[d]
    BY <1>7 DEF Register, TypeOK
  <2> HIDE DEF new
  <2> QED BY <1>a, <2>1, <2>2, <2>3 DEF InOrder
<1>8. ASSUME NEW c \in Conns, ClaimHook(c) PROVE InOrder'
  <2> DEFINE Hooked(e) == [e EXCEPT !.hooked = TRUE]
  <2>1. table' = (table \ Claimed(c)) \cup {Hooked(e) : e \in Claimed(c)} /\ hook
        /\ UNCHANGED <<handler, ready, hook>>
    BY <1>8 DEF ClaimHook
  <2>2. Claimed(c) = {e \in table : e.token = tokenOf[c] /\ ~e.hooked}
    BY DEF Claimed, EntriesOf
  <2>3. \A e \in table : Hooked(e).conn = e.conn /\ Hooked(e).hooked /\ Hooked(e).ready_sent = e.ready_sent
    BY <1>a, MarkedType
  <2>4. \A d \in Conns : d # c => thread'[d] = thread[d]
    BY <1>8 DEF ClaimHook, TypeOK
  <2> HIDE DEF Hooked
  <2>5. \A e \in table : e.conn = c => e.token = tokenOf[c] BY DEF TableServed
  <2> QED BY <1>a, <2>1, <2>2, <2>3, <2>4, <2>5 DEF InOrder
<1>9. ASSUME NEW c \in Conns, SkipHook(c) PROVE InOrder'
  <2>1. UNCHANGED <<handler, ready, hook, table, hookRun>>
        /\ \A d \in Conns : d # c => thread'[d] = thread[d]
    BY <1>9 DEF SkipHook, TypeOK
  <2>2. \A e \in table : e.conn = c /\ hook => e.hooked
    BY <1>9 DEF SkipHook, Claimed, EntriesOf, TableServed
  <2> QED BY <1>a, <2>1, <2>2 DEF InOrder
<1>10. ASSUME NEW c \in Conns, EndLoop(c) \/ CleanUp(c) PROVE InOrder'
  <2>1. UNCHANGED <<handler, ready, hook, hookRun>> /\ table' \subseteq table
        /\ \A d \in Conns : thread'[d] \in {thread[d], "ending", "free"}
    BY <1>10 DEF EndLoop, CleanUp, TypeOK
  <2> QED BY <1>a, <2>1 DEF InOrder
<1>11. ASSUME NEW t \in Tokens, Connect(t) PROVE InOrder'
  <2>1. UNCHANGED <<handler, ready, hook, hookRun, table>>
        /\ \A d \in Conns : thread'[d] \in {thread[d], "open"}
    BY <1>11 DEF Connect, FreeConns, TypeOK
  <2> QED BY <1>a, <2>1 DEF InOrder
<1>12. ASSUME NEW t \in Tokens, HookComputes(t) PROVE InOrder'
  <2>1. hook BY <1>12, IdleType DEF HookComputes, InOrder
  <2> QED BY <1>12, <2>1 DEF HookComputes, InOrder
<1>13. CASE UNCHANGED <<handler, ready, hook, hookRun, table, thread>>
  BY <1>13 DEF InOrder
<1> QED
  BY <1>1, <1>2, <1>3, <1>4, <1>5, <1>6, <1>7, <1>8, <1>9, <1>10, <1>11, <1>12, <1>13
  DEF Next, ThreadStep, ClientStep, vars, serverVars, clientVars, ReloadTable, Write, Read, Sync,
      ReadError, Exit

\* The DLL that reads from the connection of an entry is the one of its token.
LEMMA LinkIsOne ==
    ASSUME TypeOK, TableServed, LinksKnown
    PROVE  /\ \A e \in table : e.conn \in Conns /\ e.conn # NoConn
           /\ \A t \in Tokens : \A e \in table : link[t] = e.conn => e.token = t
           /\ \A t, u \in Tokens : link[t] = link[u] /\ link[t] # NoConn => t = u
BY PushAssumption DEF TypeOK, TableServed, LinksKnown, PushClient, NoConn

\* Offers to listed clients: nothing is lost on the way to those that stay.
LEMMA OfferKeeps ==
    ASSUME TypeOK, TableServed, LinksKnown, ReadyUnderWay, NEW entries \in SUBSET table, NEW f \in Frames,
           Offer(entries, f, table), UNCHANGED <<wire, link, ready, synced>>
    PROVE  /\ table' \subseteq table
           /\ \A e \in table' : Stream(e.conn)' = IF e \in entries THEN Append(Stream(e.conn), f)
                                                  ELSE Stream(e.conn)
           /\ ReadyUnderWay'
<1>1. table' \subseteq table BY OfferTable
<1>2. \A e \in table' : Stream(e.conn)' = IF \E x \in entries : x.conn = e.conn
                                         THEN Append(Stream(e.conn), f) ELSE Stream(e.conn)
  BY OfferStream
<1>3. \A e \in table' : (\E x \in entries : x.conn = e.conn) <=> e \in entries
  BY <1>1, OneConn
<1>4. ASSUME NEW t \in Tokens, NEW e \in table', link'[t] = e.conn, ready'
      PROVE  Has(Stream(e.conn), READY)' \/ synced'[t] \in {"posted", "yes"}
  <2>1. Stream(e.conn) \in Seq(Frames) BY <1>1, LinkIsOne, StreamType
  <2>2. Has(Stream(e.conn), READY) \/ synced[t] \in {"posted", "yes"}
    BY <1>1, <1>4 DEF ReadyUnderWay
  <2>3. Has(Stream(e.conn), READY) => Has(Append(Stream(e.conn), f), READY)
    BY <2>1, HasAppend
  <2>4. Stream(e.conn)' = Append(Stream(e.conn), f) \/ Stream(e.conn)' = Stream(e.conn)
    BY <1>2
  <2> QED BY <2>2, <2>3, <2>4 DEF Has
<1>5. ReadyUnderWay'
  BY <1>4 DEF ReadyUnderWay
<1> QED BY <1>1, <1>2, <1>3, <1>5

\* Steps that leave every stream and every DLL alone, and of the table at most flags.
LEMMA FlagsKeepReady ==
    ASSUME ReadyUnderWay, UNCHANGED <<wire, queue, link, ready, synced>>,
           \A e \in table' : \E x \in table : x.conn = e.conn
    PROVE  ReadyUnderWay'
BY DEF ReadyUnderWay, Stream, Has

\* Steps that change nothing on the way from a listed client to a DLL that goes on reading from it.
Undisturbed ==
    /\ table' \subseteq table
    /\ UNCHANGED <<ready, hookRun, compat, reload, title, synced>>
    /\ \A t \in Tokens : \A e \in table' :
         link'[t] = e.conn => link[t] = e.conn /\ Stream(e.conn)' = Stream(e.conn)

LEMMA ConnStepsUndisturbed ==
    ASSUME TypeOK, TableServed, LinksKnown, NEW c \in Conns, Write(c) \/ EndLoop(c) \/ CleanUp(c)
    PROVE  Undisturbed
<1>a. \A e \in table : e.conn \in Conns BY LinkIsOne
<1>1. CASE Write(c)
  <2>1. \A d \in Conns : Stream(d)' = Stream(d) BY <1>1, WriteStream
  <2> QED BY <1>1, <1>a, <2>1 DEF Write, Undisturbed
<1>2. CASE EndLoop(c)
  <2>1. link' = [t \in Tokens |-> IF link[t] = c THEN NoConn ELSE link[t]] /\ table' = table
        /\ queue' = queue
    BY <1>2 DEF EndLoop
  <2>2. \A d \in Conns : d # c => wire'[d] = wire[d] BY <1>2 DEF EndLoop, TypeOK
  <2>3. ASSUME NEW t \in Tokens, NEW e \in table', link'[t] = e.conn
        PROVE  link[t] = e.conn /\ Stream(e.conn)' = Stream(e.conn)
    <3>1. e.conn \in Conns /\ e.conn # NoConn BY <2>1, LinkIsOne
    <3>2. link[t] # c /\ link[t] = e.conn BY <2>1, <2>3, <3>1
    <3> QED BY <2>1, <2>2, <3>1, <3>2 DEF Stream
  <2> QED BY <1>2, <2>1, <2>3 DEF EndLoop, Undisturbed
<1>3. CASE CleanUp(c)
  <2>1. table' = {e \in table : e.token # tokenOf[c]} /\ link' = link /\ wire' = wire
    BY <1>3 DEF CleanUp, EntriesOf, clientVars
  <2>2. \A d \in Conns : d # c => queue'[d] = queue[d] BY <1>3 DEF CleanUp, TypeOK
  <2>3. \A e \in table' : e \in table /\ e.conn # c BY <2>1 DEF TableServed
  <2> QED BY <1>3, <1>a, <2>1, <2>2, <2>3 DEF CleanUp, clientVars, Undisturbed, Stream
<1> QED BY <1>1, <1>2, <1>3

LEMMA ClientStepsUndisturbed ==
    ASSUME TypeOK, TableServed, LinksKnown, NEW t \in Tokens, Connect(t) \/ ReadError(t) \/ Exit(t)
    PROVE  Undisturbed
<1>a. \A e \in table : e.conn \in Conns /\ e.conn # NoConn /\ thread[e.conn] # "free"
  BY LinkIsOne DEF TableServed
<1>1. CASE Connect(t)
  <2>1. PICK c \in FreeConns : link' = [link EXCEPT ![t] = c]
    BY <1>1 DEF Connect
  <2>2. \A e \in table : e.conn # c BY <1>a, <2>1 DEF FreeConns
  <2>3. UNCHANGED <<table, wire, queue>> BY <1>1 DEF Connect
  <2>4. \A u \in Tokens : link'[u] = IF u = t THEN c ELSE link[u] BY <2>1 DEF TypeOK
  <2>5. \A d : Stream(d)' = Stream(d) BY <2>3 DEF Stream
  <2> QED BY <1>1, <2>2, <2>3, <2>4, <2>5 DEF Connect, Undisturbed
<1>2. CASE ReadError(t) \/ Exit(t)
  <2>1. /\ link[t] # NoConn
        /\ wire' = [wire EXCEPT ![link[t]] = <<>>] /\ link' = [link EXCEPT ![t] = NoConn]
    BY <1>2 DEF ReadError, Exit, CloseEnd
  <2>2. UNCHANGED <<table, queue, ready, hookRun, compat, reload, title, synced>>
    BY <1>2 DEF ReadError, Exit, serverVars
  <2>3. ASSUME NEW u \in Tokens, NEW e \in table', link'[u] = e.conn
        PROVE  link[u] = e.conn /\ Stream(e.conn)' = Stream(e.conn)
    <3>1. e \in table /\ e.conn \in Conns /\ e.conn # NoConn BY <1>a, <2>2
    <3>2. u # t /\ link[u] = e.conn BY <2>1, <2>3, <3>1 DEF TypeOK
    <3>3. link[u] # link[t] BY <2>1, <3>2, LinkIsOne
    <3>4. wire'[e.conn] = wire[e.conn] BY <2>1, <3>1, <3>2, <3>3 DEF TypeOK
    <3> QED BY <2>2, <3>2, <3>4 DEF Stream
  <2> QED BY <2>2, <2>3 DEF Undisturbed
<1> QED BY <1>1, <1>2

LEMMA UndisturbedKeeps ==
    ASSUME Undisturbed, ReadyUnderWay, ConfigUnderWay
    PROVE  ReadyUnderWay' /\ ConfigUnderWay'
<1>1. ReadyUnderWay'
  <2> SUFFICES ASSUME NEW t \in Tokens, NEW e \in table', link'[t] = e.conn, ready'
               PROVE  Has(Stream(e.conn), READY)' \/ synced'[t] \in {"posted", "yes"}
    BY DEF ReadyUnderWay
  <2>1. e \in table /\ link[t] = e.conn /\ ready /\ synced' = synced /\ Stream(e.conn)' = Stream(e.conn)
    BY DEF Undisturbed
  <2>2. Has(Stream(e.conn), READY) \/ synced[t] \in {"posted", "yes"} BY <2>1 DEF ReadyUnderWay
  <2> QED BY <2>1, <2>2 DEF Has
<1>2. ConfigUnderWay'
  <2>1. hookRun'.cur # {} => hookRun'.val = compat' BY DEF Undisturbed, ConfigUnderWay
  <2>2. ASSUME NEW t \in Tokens, NEW e \in table',
               link'[t] = e.conn, e.hooked, t \notin hookRun'.todo, ~reload'
        PROVE  Leaves(Stream(e.conn)', title'[t], compat')
    <3>1. /\ e \in table /\ link[t] = e.conn /\ ~reload /\ t \notin hookRun.todo
          /\ title' = title /\ compat' = compat /\ Stream(e.conn)' = Stream(e.conn)
      BY <2>2 DEF Undisturbed
    <3>2. Leaves(Stream(e.conn), title[t], compat) BY <2>2, <3>1 DEF ConfigUnderWay
    <3> QED BY <3>1, <3>2
  <2> QED BY <2>1, <2>2 DEF ConfigUnderWay, Leaves
<1> QED BY <1>1, <1>2

\* A registration: the new entry has SERVICE_READY in its stream if the service is ready.
LEMMA RegisterStream ==
    ASSUME TypeOK, TableServed, LinksKnown, NEW c \in Conns, Register(c)
    PROVE  \A e \in table' :
             \/ e.conn = c /\ ~e.hooked /\ Stream(c)' = IF ready THEN <<READY>> ELSE <<>>
             \/ e \in table /\ e.conn # c /\ Stream(e.conn)' = Stream(e.conn)
<1> DEFINE new == [conn |-> c, token |-> tokenOf[c], hooked |-> FALSE, ready_sent |-> ready]
<1>1. table' \subseteq table \cup {new} /\ wire' = wire /\ thread[c] = "open"
  BY DEF Register, clientVars
<1>2. queue'[c] = (IF ready THEN <<READY>> ELSE <<>>) /\ \A d \in Conns : d # c => queue'[d] = queue[d]
  BY DEF Register, TypeOK
<1>3. wire[c] = <<>> BY <1>1 DEF LinksKnown
<1>4. new.conn = c /\ ~new.hooked
  OBVIOUS
<1> HIDE DEF new
<1>5. \A e \in table : e.conn \in Conns /\ e.conn # c BY <1>1, LinkIsOne DEF TableServed
<1>6. Stream(c)' = IF ready THEN <<READY>> ELSE <<>>
  <2>1. <<>> \o queue'[c] = queue'[c]
    <3>1. <<READY>> \in Seq(Frames) /\ <<>> \in Seq(Frames) BY FrameTypes
    <3> QED BY <1>2, <3>1, ConcatEmptySeq
  <2> QED BY <1>1, <1>2, <1>3, <2>1 DEF Stream
<1>7. \A e \in table : Stream(e.conn)' = Stream(e.conn) BY <1>1, <1>2, <1>5 DEF Stream
<1> QED BY <1>1, <1>4, <1>5, <1>6, <1>7

LEMMA ReadyNext ==
    ASSUME TypeOK, TableServed, LinksKnown, InOrder, ReadyUnderWay, ConfigUnderWay, [Next]_vars
    PROVE  ReadyUnderWay'
<1>a. \A e \in table : e.conn \in Conns BY LinkIsOne
<1>1. CASE MarkReady
  <2> DEFINE Sent(e) == [e EXCEPT !.ready_sent = TRUE]
             marked == {Sent(e) : e \in table}
             owed == {e \in table : ~e.ready_sent}
  <2>1. Offer(owed, READY, marked) /\ wire' = wire /\ ~ready BY <1>1 DEF MarkReady, clientVars
  <2>2. owed = table BY <2>1 DEF InOrder
  <2>3. \A e \in table : Sent(e).conn = e.conn /\ Sent(e).token = e.token BY MarkedType DEF TypeOK
  <2> HIDE DEF Sent
  <2>4. \A e \in marked : \E x \in table : x.conn = e.conn /\ x.token = e.token BY <2>3
  <2>5. table' \subseteq marked BY <2>1, OfferTable
  <2> HIDE DEF marked, owed
  <2>6. \A e \in table' : Stream(e.conn)' = IF \E x \in owed : x.conn = e.conn
                                            THEN Append(Stream(e.conn), READY) ELSE Stream(e.conn)
    BY <2>1, <2>2, <2>4, OfferStream, FrameTypes
  <2>7. ASSUME NEW e \in table' PROVE Has(Stream(e.conn), READY)'
    <3>1. PICK x \in table : x.conn = e.conn BY <2>4, <2>5
    <3>2. Stream(e.conn)' = Append(Stream(e.conn), READY) BY <2>2, <2>6, <3>1
    <3>3. Stream(e.conn) \in Seq(Frames) BY <1>a, <3>1, StreamType
    <3>4. Has(Append(Stream(e.conn), READY), READY) BY <3>3, HasAppend, FrameTypes
    <3> QED BY <3>2, <3>4 DEF Has
  <2> QED BY <2>7 DEF ReadyUnderWay
<1>2. CASE SetHook
  <2> DEFINE Hooked(e) == [e EXCEPT !.hooked = TRUE]
  <2>1. table' = {Hooked(e) : e \in table} /\ UNCHANGED <<wire, queue, link, ready, synced>>
    BY <1>2 DEF SetHook, clientVars
  <2>2. \A e \in table : Hooked(e).conn = e.conn BY MarkedType DEF TypeOK
  <2> HIDE DEF Hooked
  <2> QED BY <2>1, <2>2, FlagsKeepReady
<1>3. CASE HookPushes
  <2>1. EntriesOf(hookRun.cur) \in SUBSET table BY DEF EntriesOf
  <2>2. Config(hookRun.val) \in Frames BY FrameTypes DEF TypeOK, HookRun
  <2>3. Offer(EntriesOf(hookRun.cur), Config(hookRun.val), table)
        /\ UNCHANGED <<wire, link, ready, synced>>
    BY <1>3 DEF HookPushes, clientVars
  <2> QED BY <2>1, <2>2, <2>3, OfferKeeps
<1>4. CASE ReloadPush
  <2>1. Config(compat) \in Frames BY FrameTypes DEF TypeOK
  <2>2. Offer(table, Config(compat), table) /\ UNCHANGED <<wire, link, ready, synced>>
    BY <1>4 DEF ReloadPush, clientVars
  <2> QED BY <2>1, <2>2, OfferKeeps
<1>5. ASSUME NEW t \in Tokens \cup {NoToken}, PushCommit(t) PROVE ReadyUnderWay'
  <2>1. CommitTargets(t) \in SUBSET table BY DEF CommitTargets, EntriesOf
  <2>2. Offer(CommitTargets(t), COMMIT, table) /\ UNCHANGED <<wire, link, ready, synced>>
    BY <1>5 DEF PushCommit, clientVars
  <2> QED BY <2>1, <2>2, OfferKeeps, FrameTypes
<1>6. CASE Crash
  BY <1>6 DEF Crash, ReadyUnderWay
<1>7. ASSUME NEW c \in Conns, Register(c) PROVE ReadyUnderWay'
  <2>1. UNCHANGED <<link, ready, synced>> BY <1>7 DEF Register, clientVars
  <2>2. ASSUME NEW t \in Tokens, NEW e \in table', link'[t] = e.conn, ready'
        PROVE  Has(Stream(e.conn), READY)' \/ synced'[t] \in {"posted", "yes"}
    <3>1. CASE e.conn = c /\ Stream(c)' = IF ready THEN <<READY>> ELSE <<>>
      <4>1. Stream(e.conn)' = <<READY>> BY <2>1, <2>2, <3>1
      <4>2. 1 \in DOMAIN <<READY>> /\ <<READY>>[1] = READY
        OBVIOUS
      <4> QED BY <4>1, <4>2 DEF Has
    <3>2. CASE e \in table /\ Stream(e.conn)' = Stream(e.conn)
      <4>1. Has(Stream(e.conn), READY) \/ synced[t] \in {"posted", "yes"}
        BY <2>1, <2>2, <3>2 DEF ReadyUnderWay
      <4> QED BY <2>1, <3>2, <4>1 DEF Has
    <3> QED BY <1>7, <3>1, <3>2, RegisterStream
  <2> QED BY <2>2 DEF ReadyUnderWay
<1>8. ASSUME NEW c \in Conns, ClaimHook(c) PROVE ReadyUnderWay'
  <2> DEFINE Hooked(e) == [e EXCEPT !.hooked = TRUE]
  <2>1. table' = (table \ Claimed(c)) \cup {Hooked(e) : e \in Claimed(c)}
        /\ UNCHANGED <<wire, queue, link, ready, synced>>
    BY <1>8 DEF ClaimHook, clientVars
  <2>2. Claimed(c) \subseteq table /\ \A e \in table : Hooked(e).conn = e.conn
    BY MarkedType DEF TypeOK, Claimed, EntriesOf
  <2> HIDE DEF Hooked
  <2> QED BY <2>1, <2>2, FlagsKeepReady
<1>9. ASSUME NEW c \in Conns, Write(c) \/ EndLoop(c) \/ CleanUp(c) PROVE ReadyUnderWay'
  BY <1>9, ConnStepsUndisturbed, UndisturbedKeeps
<1>10. ASSUME NEW t \in Tokens, Connect(t) \/ ReadError(t) \/ Exit(t) PROVE ReadyUnderWay'
  BY <1>10, ClientStepsUndisturbed, UndisturbedKeeps
<1>11. ASSUME NEW t \in Tokens, Read(t) PROVE ReadyUnderWay'
  <2>1. UNCHANGED <<table, link, ready>> /\ Head(wire[link[t]]) = Head(Stream(link[t]))
        /\ synced' = [synced EXCEPT ![t] = IF Head(wire[link[t]]) = READY THEN "posted" ELSE @]
    BY <1>11, ReadStream DEF Read, serverVars
  <2>2. ASSUME NEW u \in Tokens, NEW e \in table', link'[u] = e.conn, ready'
        PROVE  Has(Stream(e.conn), READY)' \/ synced'[u] \in {"posted", "yes"}
    <3>1. /\ e \in table /\ e.conn \in Conns /\ e.conn # NoConn /\ link[u] = e.conn
          /\ Has(Stream(e.conn), READY) \/ synced[u] \in {"posted", "yes"}
      BY <2>1, <2>2, LinkIsOne DEF ReadyUnderWay
    <3>2. CASE u = t
      <4>1. Stream(e.conn) # <<>> /\ Stream(e.conn)' = Tail(Stream(e.conn)) /\ Stream(e.conn) \in Seq(Frames)
        BY <1>11, <2>1, <3>1, <3>2, ReadStream, StreamType DEF Stream
      <4>2. CASE Head(Stream(e.conn)) = READY
        BY <2>1, <3>1, <3>2, <4>2 DEF TypeOK
      <4>3. CASE Head(Stream(e.conn)) # READY
        <5>1. synced'[u] = synced[u] BY <2>1, <3>1, <3>2, <4>3 DEF TypeOK
        <5>2. Has(Stream(e.conn), READY) => Has(Tail(Stream(e.conn)), READY) BY <4>1, <4>3, HasTail
        <5> QED BY <3>1, <4>1, <5>1, <5>2 DEF Has
      <4> QED BY <4>2, <4>3
    <3>3. CASE u # t
      <4>1. link[t] # e.conn BY <3>1, <3>3, LinkIsOne
      <4>2. Stream(e.conn)' = Stream(e.conn) BY <1>11, <3>1, <4>1, ReadStream
      <4>3. synced'[u] = synced[u] BY <2>1, <3>3 DEF TypeOK
      <4> QED BY <3>1, <4>2, <4>3 DEF Has
    <3> QED BY <3>2, <3>3
  <2> QED BY <2>2 DEF ReadyUnderWay
<1>12. ASSUME NEW t \in Tokens, Sync(t) PROVE ReadyUnderWay'
  <2>1. UNCHANGED <<table, wire, queue, link, ready, handler>> BY <1>12 DEF Sync, serverVars
  <2>2. ASSUME NEW u \in Tokens, ready, synced[u] \in {"posted", "yes"}
        PROVE  synced'[u] \in {"posted", "yes"}
    BY <1>12, <2>2 DEF Sync, TypeOK, InOrder
  <2> QED BY <2>1, <2>2 DEF ReadyUnderWay, Stream, Has
<1>13. CASE UNCHANGED <<wire, queue, link, ready, synced, table>>
  BY <1>13, FlagsKeepReady
<1> QED
  BY <1>1, <1>2, <1>3, <1>4, <1>5, <1>6, <1>7, <1>8, <1>9, <1>10, <1>11, <1>12, <1>13
  DEF Next, ThreadStep, ClientStep, vars, serverVars, clientVars, SetReady, SkipHook, ReloadTable,
      HookComputes

LEMMA SameKeepsConfig ==
    ASSUME ConfigUnderWay, UNCHANGED <<table, wire, queue, link, title, compat, reload>>,
           hookRun'.todo = hookRun.todo, hookRun'.cur # {} => hookRun'.val = compat
    PROVE  ConfigUnderWay'
<1>1. ASSUME NEW t \in Tokens, NEW e \in table',
             link'[t] = e.conn, e.hooked, t \notin hookRun'.todo, ~reload'
      PROVE  Leaves(Stream(e.conn)', title'[t], compat')
  <2>1. Leaves(Stream(e.conn), title[t], compat) BY <1>1 DEF ConfigUnderWay
  <2>2. Stream(e.conn)' = Stream(e.conn) BY DEF Stream
  <2> QED BY <2>1, <2>2
<1> QED BY <1>1 DEF ConfigUnderWay, Leaves

LEMMA ConfigNext ==
    ASSUME "reload_in_hook" \notin Faults, TypeOK, TableServed, LinksKnown, InOrder, ReadyUnderWay,
           ConfigUnderWay, [Next]_vars
    PROVE  ConfigUnderWay'
<1>a. \A e \in table : e.conn \in Conns /\ Stream(e.conn) \in Seq(Frames) BY LinkIsOne, StreamType
<1>b. compat \in BOOLEAN /\ Config(compat) \in Frames BY FrameTypes DEF TypeOK
<1>1. CASE MarkReady
  <2> DEFINE Sent(e) == [e EXCEPT !.ready_sent = TRUE]
  <2>1. table' \subseteq {Sent(e) : e \in table} /\ ~hook /\ UNCHANGED <<hookRun, compat>>
    BY <1>1, OfferTable DEF MarkReady, InOrder
  <2>2. \A e \in table : Sent(e).hooked = e.hooked BY MarkedType DEF TypeOK
  <2>3. \A e \in table : ~e.hooked BY <2>1 DEF InOrder
  <2> HIDE DEF Sent
  <2>4. \A e \in table' : ~e.hooked BY <2>1, <2>2, <2>3
  <2> QED BY <2>1, <2>4 DEF ConfigUnderWay
<1>2. CASE SetHook
  <2> DEFINE Hooked(e) == [e EXCEPT !.hooked = TRUE]
  <2>1. table' = {Hooked(e) : e \in table} /\ ~hook /\ link' = link BY <1>2 DEF SetHook, clientVars
  <2>2. \A e \in table : Hooked(e).conn = e.conn BY MarkedType DEF TypeOK
  <2> HIDE DEF Hooked
  <2>3. ClaimAll = {e.token : e \in table} BY <2>1 DEF ClaimAll, InOrder
  <2>4. hookRun'.todo = ClaimAll /\ hookRun'.cur = {}
    BY <1>2, IdleType DEF SetHook, Idle
  <2>5. \A t \in Tokens : \A e \in table' : link'[t] = e.conn => t \in hookRun'.todo
    BY <2>1, <2>2, <2>3, <2>4, LinkIsOne
  <2> QED BY <2>4, <2>5 DEF ConfigUnderWay
<1>3. CASE HookPushes
  <2>1. EntriesOf(hookRun.cur) = {e \in table : e.token \in hookRun.cur} BY DEF EntriesOf
  <2>2. hookRun.val = compat /\ Offer(EntriesOf(hookRun.cur), Config(hookRun.val), table)
        /\ UNCHANGED <<wire, link, ready, synced, title, compat, reload>>
    BY <1>3 DEF HookPushes, clientVars, ConfigUnderWay
  <2>3. table' \subseteq table
        /\ \A e \in table' : Stream(e.conn)' = IF e.token \in hookRun.cur
                                               THEN Append(Stream(e.conn), Config(compat)) ELSE Stream(e.conn)
    BY <1>b, <2>1, <2>2, OfferKeeps
  <2>4. hookRun'.cur = {} /\ hookRun'.todo = hookRun.todo \ hookRun.cur
    <3>1. CASE hookRun.todo \ hookRun.cur = {} BY <1>3, <3>1, IdleType DEF HookPushes
    <3>2. CASE hookRun.todo \ hookRun.cur # {} BY <1>3, <3>2 DEF HookPushes, TypeOK, HookRun
    <3> QED BY <3>1, <3>2
  <2>5. ASSUME NEW t \in Tokens, NEW e \in table',
               link'[t] = e.conn, e.hooked, t \notin hookRun'.todo, ~reload'
        PROVE  Leaves(Stream(e.conn)', title'[t], compat')
    <3>1. e \in table /\ e.token = t /\ link[t] = e.conn BY <2>2, <2>3, <2>5, LinkIsOne
    <3>2. CASE t \in hookRun.cur
      <4>1. Stream(e.conn)' = Append(Stream(e.conn), Config(compat)) BY <2>3, <3>1, <3>2
      <4> QED BY <1>a, <1>b, <2>2, <3>1, <4>1, LeavesConfig
    <3>3. CASE t \notin hookRun.cur
      <4>1. Stream(e.conn)' = Stream(e.conn) BY <2>3, <3>1, <3>3
      <4>2. Leaves(Stream(e.conn), title[t], compat) 
        BY <2>2, <2>4, <2>5, <3>1, <3>3 DEF ConfigUnderWay
      <4> QED BY <2>2, <4>1, <4>2
    <3> QED BY <3>2, <3>3
  <2> QED BY <2>4, <2>5 DEF ConfigUnderWay, Leaves
<1>4. CASE ReloadTable
  BY <1>4 DEF ReloadTable, ConfigUnderWay
<1>5. CASE ReloadPush
  <2>1. Offer(table, Config(compat), table)
        /\ UNCHANGED <<wire, link, ready, synced, title, compat, hookRun>>
    BY <1>5 DEF ReloadPush, clientVars
  <2>2. table' \subseteq table
        /\ \A e \in table' : Stream(e.conn)' = Append(Stream(e.conn), Config(compat))
    BY <1>b, <2>1, OfferKeeps
  <2>3. \A d : \A e \in table' : Leaves(Stream(e.conn)', d, compat)
    BY <1>a, <1>b, <2>2, LeavesConfig
  <2> QED BY <2>1, <2>3 DEF ConfigUnderWay, Leaves
<1>6. ASSUME NEW n \in Tokens \cup {NoToken}, PushCommit(n) PROVE ConfigUnderWay'
  <2>1. CommitTargets(n) \in SUBSET table BY DEF CommitTargets, EntriesOf
  <2>2. Offer(CommitTargets(n), COMMIT, table)
        /\ UNCHANGED <<wire, link, ready, synced, title, compat, hookRun, reload>>
    BY <1>6 DEF PushCommit, clientVars
  <2>3. table' \subseteq table
        /\ \A e \in table' : Stream(e.conn)' \in {Append(Stream(e.conn), COMMIT), Stream(e.conn)}
    BY <2>1, <2>2, OfferKeeps, FrameTypes
  <2>4. \A d, v : \A e \in table' : Leaves(Stream(e.conn), d, v) => Leaves(Stream(e.conn)', d, v)
    BY <1>a, <2>3, LeavesCommit
  <2>5. ASSUME NEW t \in Tokens, NEW e \in table',
               link'[t] = e.conn, e.hooked, t \notin hookRun'.todo, ~reload'
        PROVE  Leaves(Stream(e.conn)', title'[t], compat')
    <3>1. Leaves(Stream(e.conn), title[t], compat) BY <2>2, <2>3, <2>5 DEF ConfigUnderWay
    <3> QED BY <2>2, <2>4, <3>1
  <2> QED BY <2>2, <2>5 DEF ConfigUnderWay, Leaves
<1>7. CASE Crash
  BY <1>7, IdleType DEF Crash, ConfigUnderWay
<1>8. ASSUME NEW c \in Conns, Register(c) PROVE ConfigUnderWay'
  <2>1. UNCHANGED <<link, title, compat, hookRun, reload>> BY <1>8 DEF Register, clientVars
  <2>2. \A e \in table' : e.hooked => e \in table /\ Stream(e.conn)' = Stream(e.conn)
    BY <1>8, RegisterStream
  <2>3. ASSUME NEW t \in Tokens, NEW e \in table',
               link'[t] = e.conn, e.hooked, t \notin hookRun'.todo, ~reload'
        PROVE  Leaves(Stream(e.conn)', title'[t], compat')
    <3>1. Leaves(Stream(e.conn), title[t], compat) BY <2>1, <2>2, <2>3 DEF ConfigUnderWay
    <3> QED BY <2>1, <2>2, <2>3, <3>1
  <2> QED BY <2>1, <2>3 DEF ConfigUnderWay, Leaves
<1>9. ASSUME NEW c \in Conns, ClaimHook(c) PROVE ConfigUnderWay'
  <2> DEFINE Hooked(e) == [e EXCEPT !.hooked = TRUE]
  <2>1. table' = (table \ Claimed(c)) \cup {Hooked(e) : e \in Claimed(c)} /\ hookRun = Idle
        /\ UNCHANGED <<wire, queue, link, title, compat, reload>>
    BY <1>9 DEF ClaimHook, clientVars
  <2>2. Claimed(c) = {e \in table : e.token = tokenOf[c] /\ ~e.hooked}
        /\ \A e \in table : Hooked(e).conn = e.conn
    BY MarkedType DEF TypeOK, Claimed, EntriesOf
  <2> HIDE DEF Hooked
  <2>3. hookRun'.todo = {tokenOf[c]} /\ hookRun'.cur = {} /\ hookRun.todo = {}
    BY <1>9, <2>1 DEF ClaimHook, Idle
  <2>4. ASSUME NEW t \in Tokens, NEW e \in table',
               link'[t] = e.conn, e.hooked, t \notin hookRun'.todo, ~reload'
        PROVE  Leaves(Stream(e.conn)', title'[t], compat')
    <3>1. e \in table BY <2>1, <2>2, <2>3, <2>4, LinkIsOne
    <3>2. Leaves(Stream(e.conn), title[t], compat) BY <2>1, <2>3, <2>4, <3>1 DEF ConfigUnderWay
    <3>3. Stream(e.conn)' = Stream(e.conn) BY <2>1 DEF Stream
    <3> QED BY <2>1, <3>2, <3>3
  <2> QED BY <2>3, <2>4 DEF ConfigUnderWay, Leaves
<1>10. ASSUME NEW c \in Conns, Write(c) \/ EndLoop(c) \/ CleanUp(c) PROVE ConfigUnderWay'
  BY <1>10, ConnStepsUndisturbed, UndisturbedKeeps
<1>11. ASSUME NEW t \in Tokens, Connect(t) \/ ReadError(t) \/ Exit(t) PROVE ConfigUnderWay'
  BY <1>11, ClientStepsUndisturbed, UndisturbedKeeps
<1>12. ASSUME NEW t \in Tokens, Read(t) PROVE ConfigUnderWay'
  <2>1. UNCHANGED <<table, link, hookRun, compat, reload>> /\ Head(wire[link[t]]) = Head(Stream(link[t]))
        /\ title' = [title EXCEPT ![t] = IF Head(wire[link[t]]).kind = "commit" THEN title[t]
                                         ELSE Head(wire[link[t]]).on]
    BY <1>12, ReadStream DEF Read, serverVars
  <2>2. ASSUME NEW u \in Tokens, NEW e \in table',
               link'[u] = e.conn, e.hooked, u \notin hookRun'.todo, ~reload'
        PROVE  Leaves(Stream(e.conn)', title'[u], compat')
    <3>1. e \in table /\ e.conn \in Conns /\ e.conn # NoConn /\ link[u] = e.conn
      BY <2>1, <2>2, LinkIsOne
    <3>2. Leaves(Stream(e.conn), title[u], compat) BY <2>1, <2>2, <3>1 DEF ConfigUnderWay
    <3>3. CASE u = t
      <4>1. Stream(e.conn) # <<>> /\ Stream(e.conn)' = Tail(Stream(e.conn)) /\ Stream(e.conn) \in Seq(Frames)
        BY <1>12, <2>1, <3>1, <3>3, ReadStream, StreamType DEF Stream
      <4>2. title'[u] = IF Head(Stream(e.conn)).kind = "commit" THEN title[u] ELSE Head(Stream(e.conn)).on
        BY <2>1, <3>1, <3>3 DEF TypeOK
      <4> QED BY <2>1, <3>2, <4>1, <4>2, LeavesRead
    <3>4. CASE u # t
      <4>1. link[t] # e.conn BY <3>1, <3>4, LinkIsOne
      <4>2. Stream(e.conn)' = Stream(e.conn) BY <1>12, <3>1, <4>1, ReadStream
      <4>3. title'[u] = title[u] BY <2>1, <3>4 DEF TypeOK
      <4> QED BY <2>1, <3>2, <4>2, <4>3
    <3> QED BY <3>3, <3>4
  <2> QED BY <2>1, <2>2 DEF ConfigUnderWay, Leaves
<1>13. ASSUME NEW t \in Tokens, HookComputes(t) PROVE ConfigUnderWay'
  <2>1. UNCHANGED <<table, wire, queue, link, title, compat, reload>>
        /\ hookRun'.todo = hookRun.todo /\ hookRun'.val = compat
    BY <1>13 DEF HookComputes, clientVars, TypeOK, HookRun
  <2> QED BY <2>1, SameKeepsConfig
<1>14. CASE UNCHANGED <<table, wire, queue, link, title, compat, reload, hookRun>>
  <2>1. hookRun.cur # {} => hookRun.val = compat BY DEF ConfigUnderWay
  <2> QED BY <1>14, <2>1, SameKeepsConfig
<1> QED
  BY <1>1, <1>2, <1>3, <1>4, <1>5, <1>6, <1>7, <1>8, <1>9, <1>10, <1>11, <1>12, <1>13, <1>14
  DEF Next, ThreadStep, ClientStep, vars, serverVars, clientVars, SetReady, SkipHook, Sync

(* A DLL for which nothing is under way is synchronised in this session of the service and has the
   configured switch, if no reload of the table falls between the two halves of the hook. *)
THEOREM QuietlyCurrent ==
    ASSUME "reload_in_hook" \notin Faults
    PROVE  Spec => []QuietIsCurrent
<1>1. Init => CurrentInv
  BY IdleType DEF Init, CurrentInv, TableServed, LinksKnown, InOrder, ReadyUnderWay, ConfigUnderWay
<1>2. TypeOK /\ CurrentInv /\ [Next]_vars => CurrentInv'
  BY ServedNext, LinksNext, OrderNext, ReadyNext, ConfigNext DEF CurrentInv
<1>3. TypeOK /\ CurrentInv => QuietIsCurrent
  <2> SUFFICES ASSUME TypeOK, CurrentInv, NEW t \in Tokens, Quiet(t)
               PROVE  synced[t] = "yes" /\ title[t] = compat
    BY DEF QuietIsCurrent
  <2>1. PICK e \in table : link[t] = e.conn
    BY DEF Quiet, Listed
  <2>2. Stream(e.conn) = <<>>
    <3>1. <<>> \o <<>> = <<>>
      OBVIOUS
    <3> QED BY <2>1, <3>1 DEF Quiet, Stream
  <2>3. e.hooked /\ ready BY <2>1 DEF Quiet, CurrentInv, InOrder
  <2>4. \A f : ~Has(<<>>, f)
    BY DEF Has
  <2>5. synced[t] \in {"posted", "yes"} BY <2>1, <2>2, <2>3, <2>4 DEF CurrentInv, ReadyUnderWay
  <2>6. hookRun.todo = {} /\ ~reload BY IdleType DEF Quiet
  <2>7. Leaves(<<>>, title[t], compat) BY <2>1, <2>2, <2>3, <2>6 DEF CurrentInv, ConfigUnderWay
  <2>8. title[t] = compat BY <2>7 DEF Leaves
  <2> QED BY <2>5, <2>8 DEF Quiet
<1> QED BY <1>1, <1>2, <1>3, TypeCorrect, PTL DEF Spec

--------------------------------------------------------------------------------
(* Committed text: every insertion, and every text still on its way, was pushed once. *)

\* Where the texts are in pipes or queues s.
Texts(s) == {p \in Conns \X Nat : p[2] \in DOMAIN s[p[1]] /\ s[p[1]][p[2]] = COMMIT}

Few(s, n) == IsFiniteSet(Texts(s)) /\ Cardinality(Texts(s)) <= n

LEMMA TextsShrink ==
    ASSUME NEW s, NEW r, NEW n \in Nat, Few(s, n),
           \A c \in Conns : \A i \in DOMAIN r[c] : r[c][i] = COMMIT => i \in DOMAIN s[c] /\ s[c][i] = COMMIT
    PROVE  Few(r, n)
<1>1. Texts(r) \in SUBSET Texts(s) BY DEF Texts
<1>2. IsFiniteSet(Texts(r)) /\ Cardinality(Texts(r)) <= Cardinality(Texts(s))
  BY <1>1, FS_Subset DEF Few
<1>3. Cardinality(Texts(r)) \in Nat /\ Cardinality(Texts(s)) \in Nat
  BY <1>2, FS_CardinalityType DEF Few
<1> QED BY <1>2, <1>3 DEF Few

\* Another frame at the end of some sequences.
LEMMA TextsOther ==
    ASSUME NEW s \in [Conns -> Seq(Frames)], NEW r \in [Conns -> Seq(Frames)], NEW n \in Nat, Few(s, n),
           NEW f \in Frames, f # COMMIT, \A c \in Conns : r[c] \in {s[c], Append(s[c], f)}
    PROVE  Few(r, n)
<1>1. ASSUME NEW c \in Conns, NEW i \in DOMAIN r[c], r[c][i] = COMMIT
      PROVE  i \in DOMAIN s[c] /\ s[c][i] = COMMIT
  <2>1. CASE r[c] = s[c] BY <1>1, <2>1
  <2>2. CASE r[c] = Append(s[c], f)
    <3>1. s[c] \in Seq(Frames) /\ i \in 1 .. Len(s[c]) + 1 BY <1>1, <2>2
    <3>2. i = Len(s[c]) + 1 => r[c][i] = f BY <2>2, <3>1
    <3>3. i \in 1 .. Len(s[c]) /\ r[c][i] = s[c][i] BY <1>1, <2>2, <3>1, <3>2
    <3> QED BY <1>1, <3>1, <3>3
  <2> QED BY <2>1, <2>2
<1> QED BY <1>1, TextsShrink

\* A frame at the end of one sequence.
LEMMA TextsAppend ==
    ASSUME NEW s \in [Conns -> Seq(Frames)], NEW c \in Conns, NEW f \in Frames, NEW n \in Nat, Few(s, n)
    PROVE  Few([s EXCEPT ![c] = Append(s[c], f)], IF f = COMMIT THEN n + 1 ELSE n)
<1> DEFINE r == [s EXCEPT ![c] = Append(s[c], f)]
           p == <<c, Len(s[c]) + 1>>
<1>1. r \in [Conns -> Seq(Frames)] /\ r[c] = Append(s[c], f) /\ \A d \in Conns : d # c => r[d] = s[d]
  OBVIOUS
<1> HIDE DEF r
<1>2. CASE f # COMMIT
  <2>1. \A d \in Conns : r[d] \in {s[d], Append(s[d], f)} BY <1>1
  <2> QED BY <1>1, <1>2, <2>1, TextsOther DEF r
<1>3. CASE f = COMMIT
  <2>1. s[c] \in Seq(Frames)
    OBVIOUS
  <2>2. \A i \in DOMAIN r[c] : i # Len(s[c]) + 1 => i \in DOMAIN s[c] /\ r[c][i] = s[c][i]
    BY <1>1, <2>1
  <2>3. ASSUME NEW q \in Texts(r) PROVE q \in Texts(s) \cup {p}
    <3>1. /\ q \in Conns \X Nat /\ q[1] \in Conns /\ q[2] \in DOMAIN r[q[1]] /\ r[q[1]][q[2]] = COMMIT
          /\ q = <<q[1], q[2]>>
      BY <2>3 DEF Texts
    <3>2. CASE q[1] # c BY <1>1, <3>1, <3>2 DEF Texts
    <3>3. CASE q[1] = c /\ q[2] = Len(s[c]) + 1 BY <3>1, <3>3
    <3>4. CASE q[1] = c /\ q[2] # Len(s[c]) + 1
      <4>1. q[2] \in DOMAIN s[c] /\ s[c][q[2]] = COMMIT BY <2>2, <3>1, <3>4
      <4> QED BY <3>1, <3>4, <4>1 DEF Texts
    <3> QED BY <3>2, <3>3, <3>4
  <2> HIDE DEF p
  <2>4. IsFiniteSet(Texts(s) \cup {p}) /\ Cardinality(Texts(s) \cup {p}) <= n + 1
    <3>1. Cardinality(Texts(s)) \in Nat BY FS_CardinalityType DEF Few
    <3>2. /\ IsFiniteSet(Texts(s) \cup {p})
          /\ Cardinality(Texts(s) \cup {p})
             = IF p \in Texts(s) THEN Cardinality(Texts(s)) ELSE Cardinality(Texts(s)) + 1
      BY FS_AddElement DEF Few
    <3> QED BY <3>1, <3>2 DEF Few
  <2>5. Texts(r) \in SUBSET (Texts(s) \cup {p}) BY <2>3
  <2>6. /\ IsFiniteSet(Texts(r)) /\ Cardinality(Texts(r)) <= Cardinality(Texts(s) \cup {p})
        /\ Cardinality(Texts(s) \cup {p}) \in Nat
    BY <2>4, <2>5, FS_Subset, FS_CardinalityType
  <2>7. Cardinality(Texts(r)) \in Nat BY <2>6, FS_CardinalityType
  <2> QED BY <1>3, <2>4, <2>6, <2>7 DEF Few, r
<1> QED BY <1>2, <1>3

\* The first frame of one sequence is taken away; the others move by one.
LEMMA TextsTail ==
    ASSUME NEW s \in [Conns -> Seq(Frames)], NEW c \in Conns, s[c] # <<>>, NEW n \in Nat, Few(s, n)
    PROVE  /\ Head(s[c]) = COMMIT => n \in Nat \ {0} /\ Few([s EXCEPT ![c] = Tail(s[c])], n - 1)
           /\ Head(s[c]) # COMMIT => Few([s EXCEPT ![c] = Tail(s[c])], n)
<1> DEFINE r == [s EXCEPT ![c] = Tail(s[c])]
           rest == Texts(s) \ {<<c, 1>>}
           shift == [p \in Texts(r) |-> <<p[1], IF p[1] = c THEN p[2] + 1 ELSE p[2]>>]
<1>1. /\ r[c] = Tail(s[c]) /\ \A d \in Conns : d # c => r[d] = s[d]
      /\ DOMAIN s[c] = 1 .. Len(s[c]) /\ DOMAIN r[c] = 1 .. Len(s[c]) - 1 /\ Len(s[c]) \in Nat \ {0}
      /\ Head(s[c]) = s[c][1] /\ \A i \in DOMAIN r[c] : r[c][i] = s[c][i + 1]
  BY HeadTailProperties, EmptySeq, LenProperties
<1> HIDE DEF r
<1>2. \A p \in Texts(r) : p = <<p[1], p[2]>> /\ p[1] \in Conns /\ p[2] \in Nat
  BY DEF Texts
<1>3. ASSUME NEW p \in Texts(r) PROVE <<p[1], IF p[1] = c THEN p[2] + 1 ELSE p[2]>> \in rest
  <2>1. p[1] \in Conns /\ p[2] \in Nat /\ p[2] \in DOMAIN r[p[1]] /\ r[p[1]][p[2]] = COMMIT
    BY <1>3 DEF Texts
  <2>2. CASE p[1] = c
    <3>1. p[2] + 1 \in DOMAIN s[c] /\ s[c][p[2] + 1] = COMMIT /\ p[2] + 1 # 1 BY <1>1, <2>1, <2>2
    <3> QED BY <2>1, <2>2, <3>1 DEF Texts
  <2>3. CASE p[1] # c BY <1>1, <2>1, <2>3 DEF Texts
  <2> QED BY <2>2, <2>3
<1>4. shift \in Injection(Texts(r), rest)
  <2>1. shift \in [Texts(r) -> rest] BY <1>3
  <2>2. ASSUME NEW p \in Texts(r), NEW q \in Texts(r), shift[p] = shift[q] PROVE p = q
    <3>1. p[1] = q[1] /\ (IF p[1] = c THEN p[2] + 1 ELSE p[2]) = (IF q[1] = c THEN q[2] + 1 ELSE q[2])
      BY <2>2
    <3>2. p[2] = q[2] BY <1>2, <3>1
    <3> QED BY <1>2, <3>1, <3>2
  <2> QED BY <2>1, <2>2 DEF Injection, IsInjective
<1>5. IsFiniteSet(rest) /\ Cardinality(rest) = IF <<c, 1>> \in Texts(s) THEN Cardinality(Texts(s)) - 1
                                             ELSE Cardinality(Texts(s))
  BY FS_RemoveElement DEF Few
<1> HIDE DEF shift, rest
<1>6. IsFiniteSet(Texts(r)) /\ Cardinality(Texts(r)) <= Cardinality(rest)
  BY <1>4, <1>5, FS_Injection
<1>7. Cardinality(Texts(r)) \in Nat /\ Cardinality(rest) \in Nat /\ Cardinality(Texts(s)) \in Nat
  BY <1>5, <1>6, FS_CardinalityType DEF Few
<1>8. Head(s[c]) = COMMIT => <<c, 1>> \in Texts(s)
  BY <1>1 DEF Texts
<1> QED BY <1>5, <1>6, <1>7, <1>8 DEF Few, r

Counted(m, n) == Few(wire, m) /\ Few(queue, n) /\ m + n + typed <= used.commits

TextsCounted == \E m, n \in Nat : Counted(m, n)

LEMMA CountedKept ==
    ASSUME NEW m \in Nat, NEW n \in Nat, Counted(m, n), Few(wire', m), Few(queue', n),
           UNCHANGED typed, used'.commits = used.commits
    PROVE  TextsCounted'
BY DEF Counted, TextsCounted, Few, Texts

\* A configuration or SERVICE_READY is offered.
LEMMA OfferKeepsTexts ==
    ASSUME TypeOK, TypeOK', NEW n \in Nat, Few(queue, n), NEW entries, NEW f \in Frames, f # COMMIT,
           NEW tbl, Offer(entries, f, tbl)
    PROVE  Few(queue', n)
<1>1. queue \in [Conns -> Seq(Frames)] /\ queue' \in [Conns -> Seq(Frames)] BY DEF TypeOK
<1>2. \A c \in Conns : queue'[c] \in {queue[c], Append(queue[c], f)} BY DEF Offer
<1> QED BY <1>1, <1>2, TextsOther

\* Text goes to one entry of the table, if to any.
LEMMA OneTarget ==
    ASSUME TableServed, NEW a, NEW x \in CommitTargets(a), NEW y \in CommitTargets(a)
    PROVE  x = y
BY DEF CommitTargets, EntriesOf, TableServed

LEMMA CountedNext ==
    ASSUME TypeOK, TypeOK', TableServed, LinksKnown, TextsCounted, [Next]_vars
    PROVE  TextsCounted'
<1> PICK m \in Nat, n \in Nat : Counted(m, n) BY DEF TextsCounted
<1>a. Few(wire, m) /\ Few(queue, n) /\ m + n + typed <= used.commits BY DEF Counted
<1>b. queue \in [Conns -> Seq(Frames)] /\ wire \in [Conns -> Seq(Frames)] /\ typed \in Nat
      /\ used.commits \in Nat
  BY PushAssumption DEF TypeOK, Used
<1>c. READY # COMMIT /\ \A v : Config(v) # COMMIT BY DEF READY, COMMIT, Config
<1>1. CASE MarkReady
  <2>1. Few(queue', n) BY <1>1, <1>a, <1>c, OfferKeepsTexts, FrameTypes DEF MarkReady
  <2> QED BY <1>1, <1>a, <2>1, CountedKept DEF MarkReady, clientVars
<1>2. CASE HookPushes
  <2>1. Config(hookRun.val) \in Frames BY FrameTypes DEF TypeOK, HookRun
  <2>2. Few(queue', n) BY <1>2, <1>a, <1>c, <2>1, OfferKeepsTexts DEF HookPushes
  <2> QED BY <1>2, <1>a, <2>2, CountedKept DEF HookPushes, clientVars
<1>3. CASE ReloadPush
  <2>1. Config(compat) \in Frames BY FrameTypes DEF TypeOK
  <2>2. Few(queue', n) BY <1>3, <1>a, <1>c, <2>1, OfferKeepsTexts DEF ReloadPush
  <2> QED BY <1>3, <1>a, <2>2, CountedKept DEF ReloadPush, clientVars
<1>4. ASSUME NEW a \in Tokens \cup {NoToken}, PushCommit(a) PROVE TextsCounted'
  <2> DEFINE entries == CommitTargets(a)
             takers == {e.conn : e \in entries \ {e \in entries : Full(e.conn)}}
  <2>1. queue' = [c \in Conns |-> IF c \in takers THEN Append(queue[c], COMMIT) ELSE queue[c]]
    BY <1>4 DEF PushCommit, Offer
  <2>2. \A c, d \in takers : c = d BY OneTarget
  <2> HIDE DEF takers
  <2>3. Few(queue', n + 1)
    <3>1. CASE \E c \in Conns : c \in takers
      <4>1. PICK c \in Conns : c \in takers BY <3>1
      <4>2. queue' = [queue EXCEPT ![c] = Append(queue[c], COMMIT)] BY <1>b, <2>1, <2>2, <4>1
      <4> QED BY <1>a, <1>b, <4>1, <4>2, TextsAppend, FrameTypes
    <3>2. CASE ~\E c \in Conns : c \in takers
      <4>1. queue' = queue BY <1>b, <2>1, <3>2
      <4>2. Cardinality(Texts(queue)) \in Nat BY <1>a, FS_CardinalityType DEF Few
      <4> QED BY <1>a, <4>1, <4>2 DEF Few
    <3> QED BY <3>1, <3>2
  <2>4. wire' = wire /\ typed' = typed /\ used'.commits = used.commits + 1
    BY <1>4 DEF PushCommit, clientVars, TypeOK, Used
  <2>5. Few(wire', m) BY <1>a, <2>4
  <2>6. m + (n + 1) + typed' <= used'.commits BY <1>a, <1>b, <2>4
  <2>7. Counted(m, n + 1)' BY <2>3, <2>5, <2>6 DEF Counted, Few, Texts
  <2> QED BY <2>7 DEF TextsCounted
<1>5. CASE Crash
  <2>1. \A c \in Conns : queue'[c] = <<>> /\ wire'[c] = <<>> BY <1>5 DEF Crash
  <2>2. \A c \in Conns : DOMAIN queue'[c] = {} /\ DOMAIN wire'[c] = {} BY <2>1
  <2>3. Few(queue', n) /\ Few(wire', m) BY <1>a, <2>2, TextsShrink
  <2>4. typed' = typed /\ used'.commits = used.commits BY <1>5 DEF Crash, TypeOK, Used
  <2> QED BY <2>3, <2>4, CountedKept
<1>6. ASSUME NEW c \in Conns, Register(c) PROVE TextsCounted'
  <2>1. queue' = [queue EXCEPT ![c] = IF ready THEN <<READY>> ELSE <<>>]
        /\ UNCHANGED <<wire, typed, used>>
    BY <1>6 DEF Register, clientVars
  <2>2. \A d \in Conns : d # c => queue'[d] = queue[d] BY <1>b, <2>1
  <2>3. \A i \in DOMAIN queue'[c] : queue'[c][i] # COMMIT
    <3>1. \A i \in DOMAIN <<READY>> : <<READY>>[i] = READY
      OBVIOUS
    <3>2. DOMAIN <<>> = {}
      OBVIOUS
    <3>3. queue'[c] = <<READY>> \/ queue'[c] = <<>> BY <1>b, <2>1
    <3> QED BY <1>c, <3>1, <3>2, <3>3
  <2>4. Few(queue', n) BY <1>a, <2>2, <2>3, TextsShrink
  <2> QED BY <1>a, <2>1, <2>4, CountedKept
<1>7. ASSUME NEW c \in Conns, Write(c) PROVE TextsCounted'
  <2> DEFINE f == Head(queue[c])
  <2>1. queue[c] # <<>> /\ wire' = [wire EXCEPT ![c] = Append(wire[c], f)]
        /\ queue' = [queue EXCEPT ![c] = Tail(queue[c])] /\ typed' = typed /\ used' = used
    BY <1>7 DEF Write
  <2>2. f \in Frames BY <1>b, <2>1, HeadTailProperties
  <2>3. Few(wire', IF f = COMMIT THEN m + 1 ELSE m) BY <1>a, <1>b, <2>1, <2>2, TextsAppend
  <2>4. (f = COMMIT => n \in Nat \ {0} /\ Few(queue', n - 1)) /\ (f # COMMIT => Few(queue', n))
    BY <1>a, <1>b, <2>1, TextsTail
  <2> HIDE DEF f
  <2>5. CASE f = COMMIT
    <3>1. m + 1 \in Nat /\ n - 1 \in Nat /\ (m + 1) + (n - 1) + typed' <= used'.commits
      BY <1>a, <1>b, <2>1, <2>4, <2>5
    <3>2. Counted(m + 1, n - 1)' BY <2>3, <2>4, <2>5, <3>1 DEF Counted, Few, Texts
    <3> QED BY <3>1, <3>2 DEF TextsCounted
  <2>6. CASE f # COMMIT
    BY <2>1, <2>3, <2>4, <2>6, CountedKept
  <2> QED BY <2>5, <2>6
<1>8. ASSUME NEW c \in Conns, EndLoop(c) \/ CleanUp(c) PROVE TextsCounted'
  <2>1. \A d \in Conns : wire'[d] \in {wire[d], <<>>} /\ queue'[d] \in {queue[d], <<>>}
    BY <1>8, <1>b DEF EndLoop, CleanUp, clientVars
  <2>2. UNCHANGED <<typed, used>> BY <1>8 DEF EndLoop, CleanUp, clientVars
  <2>3. DOMAIN <<>> = {}
    OBVIOUS
  <2>4. ASSUME NEW d \in Conns
        PROVE  /\ \A i \in DOMAIN queue'[d] : i \in DOMAIN queue[d] /\ queue'[d][i] = queue[d][i]
               /\ \A i \in DOMAIN wire'[d] : i \in DOMAIN wire[d] /\ wire'[d][i] = wire[d][i]
    BY <2>1, <2>3
  <2>5. Few(queue', n) BY <1>a, <2>4, TextsShrink
  <2>6. Few(wire', m) BY <1>a, <2>4, TextsShrink
  <2> QED BY <2>2, <2>5, <2>6, CountedKept
<1>9. ASSUME NEW t \in Tokens, ReadError(t) \/ Exit(t) PROVE TextsCounted'
  <2>1. \A d \in Conns : wire'[d] \in {wire[d], <<>>}
    BY <1>9, <1>b DEF ReadError, Exit, CloseEnd
  <2>2. queue' = queue /\ typed' = typed /\ used'.commits = used.commits
    <3>1. used' = [used EXCEPT !.errors = @ + 1] /\ queue' = queue /\ typed' = typed
      BY <1>9 DEF ReadError, Exit, CloseEnd, serverVars
    <3> QED BY <3>1 DEF TypeOK, Used
  <2>3. DOMAIN <<>> = {}
    OBVIOUS
  <2>4. Few(wire', m) BY <1>a, <2>1, <2>3, TextsShrink
  <2> QED BY <1>a, <2>2, <2>4, CountedKept
<1>10. ASSUME NEW t \in Tokens, Read(t) PROVE TextsCounted'
  <2> DEFINE c == link[t]
             f == Head(wire[c])
  <2>1. c \in Conns /\ wire[c] # <<>> BY <1>10 DEF Read, TypeOK
  <2>2. /\ wire' = [wire EXCEPT ![c] = Tail(wire[c])] /\ queue' = queue /\ used' = used
        /\ typed' = IF f = COMMIT THEN typed + 1 ELSE typed
    BY <1>10 DEF Read, serverVars
  <2>3. (f = COMMIT => m \in Nat \ {0} /\ Few(wire', m - 1)) /\ (f # COMMIT => Few(wire', m))
    BY <1>a, <1>b, <2>1, <2>2, TextsTail
  <2> HIDE DEF c, f
  <2>4. CASE f = COMMIT
    <3>1. m - 1 \in Nat /\ (m - 1) + n + typed' <= used'.commits
      BY <1>a, <1>b, <2>2, <2>3, <2>4
    <3>2. Few(queue', n) BY <1>a, <2>2
    <3>3. Counted(m - 1, n)' BY <2>3, <2>4, <3>1, <3>2 DEF Counted, Few, Texts
    <3> QED BY <3>1, <3>3 DEF TextsCounted
  <2>5. CASE f # COMMIT
    BY <1>a, <2>2, <2>3, <2>5, CountedKept
  <2> QED BY <2>4, <2>5
<1>11. CASE ReloadTable
  <2>1. used'.commits = used.commits /\ UNCHANGED <<wire, queue, typed>>
    BY <1>11 DEF ReloadTable, clientVars, TypeOK, Used
  <2> QED BY <1>a, <2>1, CountedKept
<1>12. CASE UNCHANGED <<wire, queue, typed, used>>
  BY <1>12, <1>a, CountedKept
<1> QED
  BY <1>1, <1>2, <1>3, <1>4, <1>5, <1>6, <1>7, <1>8, <1>9, <1>10, <1>11, <1>12
  DEF Next, ThreadStep, ClientStep, vars, serverVars, clientVars, SetReady, SetHook, ClaimHook,
      SkipHook, Connect, Sync, HookComputes

(* Committed text is inserted at most once for each time it was pushed. *)
THEOREM TextInsertedOnce == Spec => []CommitOnce
<1>1. Init => TableServed /\ LinksKnown /\ TextsCounted
  <2> SUFFICES ASSUME Init PROVE TableServed /\ LinksKnown /\ TextsCounted
    OBVIOUS
  <2>1. \A c \in Conns : DOMAIN wire[c] = {} /\ DOMAIN queue[c] = {} BY DEF Init
  <2>2. Texts(wire) = {} /\ Texts(queue) = {} BY <2>1 DEF Texts
  <2>3. Few(wire, 0) /\ Few(queue, 0) BY <2>2, FS_EmptySet DEF Few
  <2>4. typed = 0 /\ used.commits = 0 BY DEF Init
  <2>5. Counted(0, 0) BY <2>3, <2>4 DEF Counted
  <2> QED BY <2>5 DEF Init, TableServed, LinksKnown, TextsCounted
<1>2. TypeOK /\ TypeOK' /\ TableServed /\ LinksKnown /\ TextsCounted /\ [Next]_vars
        => TableServed' /\ LinksKnown' /\ TextsCounted'
  BY ServedNext, LinksNext, CountedNext
<1>3. TypeOK /\ TextsCounted => CommitOnce
  BY PushAssumption DEF TextsCounted, Counted, CommitOnce, TypeOK, Used
<1> QED BY <1>1, <1>2, <1>3, TypeCorrect, PTL DEF Spec
================================================================================
