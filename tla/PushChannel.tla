------------------------------ MODULE PushChannel ------------------------------
(***************************************************************************)
(* The push pipe of the service (wind-bridge push.rs, as built for         *)
(* Windows): the table of push clients, their bounded queues, the thread   *)
(* of each connection, the connected hook, and the order in which          *)
(* apps/service main.rs makes the service ready.  At the other end are the *)
(* push readers of the DLLs (wind_tsf IPCClient.cpp): what a frame does to *)
(* a DLL is modelled as far as the order of frames matters.                *)
(*                                                                         *)
(* A connection is a thread of the service; its number is used again when  *)
(* the thread has ended.  The only configuration is the switch that is     *)
(* reset by SERVICE_READY (the title switch), computed from the compat     *)
(* table; the other handshake frames take the same way.                    *)
(***************************************************************************)
EXTENDS Naturals, Sequences

CONSTANTS
    Tokens,      \* the DLL instances; a DLL keeps its token when it reconnects
    NoToken,     \* the token of a connection that is not in use
    Conns,       \* numbers of connections that exist at the same time
    QueueCap,    \* PUSH_QUEUE_CAP
    WireCap,     \* frames the pipe buffer takes
    MaxReloads,  \* bound: reloads of the compat table
    MaxCommits,  \* bound: texts pushed to the active client
    MaxErrors,   \* bound: DLLs that exit or lose their pipe
    MaxCrashes,  \* bound: restarts of the service
    Faults       \* what may go wrong in this instance

FaultNames == {"read_error", "late_cleanup", "reload_in_hook"}

ASSUME PushAssumption ==
    /\ NoToken \notin Tokens
    /\ Conns \subseteq Nat \ {0}
    /\ QueueCap \in Nat \ {0} /\ WireCap \in Nat \ {0}
    /\ MaxReloads \in Nat /\ MaxCommits \in Nat /\ MaxErrors \in Nat /\ MaxCrashes \in Nat
    /\ Faults \subseteq FaultNames

NoConn == 0

VARIABLES
    handler,   \* DeferredHandler has the coordinator
    ready,     \* PushServer.ready
    hook,      \* connected_hook is set
    table,     \* PushServer.clients
    queue,     \* the channel of each connection
    thread,    \* where the thread of a connection is
    tokenOf,   \* the token a connection has sent
    hookRun,   \* who holds the lock of connected_hook, and what it still has to push
    compat,    \* what the compat table says of the switch
    reload,    \* the table is replaced and the push of it is due
    link,      \* the connection a DLL reads from
    wire,      \* frames written and not read
    title,     \* the switch in the DLL
    synced,    \* the full synchronisation of the DLL in this session of the service
    alive,     \* DLLs that are loaded
    typed,     \* how often committed text was inserted, in whichever DLL
    used       \* how much of each bound is used up

serverVars == <<handler, ready, hook, table, queue, thread, tokenOf, hookRun, compat, reload>>
clientVars == <<link, wire, title, synced, alive, typed>>
vars == <<serverVars, clientVars, used>>

READY == [kind |-> "ready", on |-> FALSE]
COMMIT == [kind |-> "commit", on |-> FALSE]
Config(v) == [kind |-> "config", on |-> v]
Frames == {READY, COMMIT} \cup {Config(v) : v \in BOOLEAN}

PushClient == [conn : Conns, token : Tokens, hooked : BOOLEAN, ready_sent : BOOLEAN]
Idle == [by |-> "nobody", conn |-> NoConn, todo |-> {}, cur |-> {}, val |-> FALSE]

States == {"free", "open", "registered", "hooking", "writing", "ending"}
HookRun == [by : {"nobody", "main", "conn"}, conn : Conns \cup {NoConn}, todo : SUBSET Tokens,
            cur : SUBSET Tokens, val : BOOLEAN]
Used == [reloads : 0 .. MaxReloads, commits : 0 .. MaxCommits,
         errors : 0 .. MaxErrors, crashes : 0 .. MaxCrashes]

TypeOK ==
    /\ handler \in BOOLEAN /\ ready \in BOOLEAN /\ hook \in BOOLEAN
    /\ compat \in BOOLEAN /\ reload \in BOOLEAN
    /\ table \subseteq PushClient
    /\ queue \in [Conns -> Seq(Frames)] /\ \A c \in Conns : Len(queue[c]) <= QueueCap
    /\ wire \in [Conns -> Seq(Frames)] /\ \A c \in Conns : Len(wire[c]) <= WireCap
    /\ thread \in [Conns -> States]
    /\ tokenOf \in [Conns -> Tokens \cup {NoToken}]
    /\ \A c \in Conns : thread[c] = "free" <=> tokenOf[c] = NoToken
    /\ hookRun \in HookRun /\ hookRun.cur \subseteq hookRun.todo
    /\ hookRun.cur = {} \/ \E t \in Tokens : hookRun.cur = {t}
    /\ hookRun.by = "conn" => hookRun.conn \in Conns /\ thread[hookRun.conn] = "hooking"
    /\ link \in [Tokens -> Conns \cup {NoConn}]
    /\ title \in [Tokens -> BOOLEAN]
    /\ synced \in [Tokens -> {"no", "posted", "yes", "swallowed"}]
    /\ alive \subseteq Tokens
    /\ typed \in Nat
    /\ used \in Used

Init ==
    /\ handler = FALSE /\ ready = FALSE /\ hook = FALSE
    /\ table = {} /\ hookRun = Idle
    /\ queue = [c \in Conns |-> <<>>]
    /\ thread = [c \in Conns |-> "free"]
    /\ tokenOf = [c \in Conns |-> NoToken]
    /\ compat = TRUE /\ reload = FALSE
    /\ link = [t \in Tokens |-> NoConn]
    /\ wire = [c \in Conns |-> <<>>]
    /\ title = [t \in Tokens |-> FALSE]
    /\ synced = [t \in Tokens |-> "no"]
    /\ alive = Tokens
    /\ typed = 0
    /\ used = [reloads |-> 0, commits |-> 0, errors |-> 0, crashes |-> 0]

--------------------------------------------------------------------------------
(* The table and its queues.                                                 *)

EntriesOf(tokens) == {e \in table : e.token \in tokens}
Listed == {e.conn : e \in table}
Full(c) == Len(queue[c]) >= QueueCap

\* drop_stalled: the clients whose queue was full are taken out, by token.
DropStalled(tbl, stalled) == {e \in tbl : e.token \notin {x.token : x \in stalled}}

\* offer a frame to some entries and drop those that are stuck.
Offer(entries, frame, tbl) ==
    LET stalled == {e \in entries : Full(e.conn)}
        takers == {e.conn : e \in entries \ stalled}
    IN  /\ queue' = [c \in Conns |-> IF c \in takers THEN Append(queue[c], frame) ELSE queue[c]]
        /\ table' = DropStalled(tbl, stalled)

--------------------------------------------------------------------------------
(* Startup: main.rs makes the service ready in three steps.                  *)

SetReady ==
    /\ ~handler
    /\ handler' = TRUE
    /\ UNCHANGED <<ready, hook, table, queue, thread, tokenOf, hookRun, compat, reload, clientVars, used>>

\* Mutant: the service announces itself before the coordinator is there.
MarkReadyEarly ==
    /\ ~ready
    /\ ready' = TRUE
    /\ Offer({e \in table : ~e.ready_sent}, READY, {[e EXCEPT !.ready_sent = TRUE] : e \in table})
    /\ UNCHANGED <<handler, hook, thread, tokenOf, hookRun, compat, reload, clientVars, used>>

MarkReady ==
    /\ handler /\ ~ready
    /\ ready' = TRUE
    /\ Offer({e \in table : ~e.ready_sent}, READY, {[e EXCEPT !.ready_sent = TRUE] : e \in table})
    /\ UNCHANGED <<handler, hook, thread, tokenOf, hookRun, compat, reload, clientVars, used>>

\* claim_all_unhooked
ClaimAll == {e.token : e \in {x \in table : ~x.hooked}}

SetHook ==
    /\ ready /\ ~hook /\ hookRun = Idle
    /\ hook' = TRUE
    /\ table' = {[e EXCEPT !.hooked = TRUE] : e \in table}
    /\ hookRun' = IF ClaimAll = {} THEN Idle
                  ELSE [Idle EXCEPT !.by = "main", !.todo = ClaimAll]
    /\ UNCHANGED <<handler, ready, queue, thread, tokenOf, compat, reload, clientVars, used>>

--------------------------------------------------------------------------------
(* One connection: handshake, registration, hook, writer loop, cleanup.      *)

\* Mutant: the entry of the token's older connection stays.
RegisterBeside(c) ==
    /\ thread[c] = "open"
    /\ thread' = [thread EXCEPT ![c] = "registered"]
    /\ table' = table \cup {[conn |-> c, token |-> tokenOf[c], hooked |-> FALSE, ready_sent |-> ready]}
    /\ queue' = [queue EXCEPT ![c] = IF ready THEN <<READY>> ELSE <<>>]
    /\ UNCHANGED <<handler, ready, hook, tokenOf, hookRun, compat, reload, clientVars, used>>

\* register_client: an older entry of the token goes, and SERVICE_READY is queued at once
\* when the service is ready, both under the lock of the table.
Register(c) ==
    /\ thread[c] = "open"
    /\ thread' = [thread EXCEPT ![c] = "registered"]
    /\ table' = (table \ EntriesOf({tokenOf[c]}))
                \cup {[conn |-> c, token |-> tokenOf[c], hooked |-> FALSE, ready_sent |-> ready]}
    /\ queue' = [queue EXCEPT ![c] = IF ready THEN <<READY>> ELSE <<>>]
    /\ UNCHANGED <<handler, ready, hook, tokenOf, hookRun, compat, reload, clientVars, used>>

\* claim_connected_hook: whichever entry has the token, if nobody has called the hook for it.
Claimed(c) == {e \in EntriesOf({tokenOf[c]}) : ~e.hooked}

ClaimHook(c) ==
    /\ thread[c] = "registered" /\ hookRun = Idle
    /\ hook /\ Claimed(c) # {}
    /\ table' = (table \ Claimed(c)) \cup {[e EXCEPT !.hooked = TRUE] : e \in Claimed(c)}
    /\ hookRun' = [Idle EXCEPT !.by = "conn", !.conn = c, !.todo = {tokenOf[c]}]
    /\ thread' = [thread EXCEPT ![c] = "hooking"]
    /\ UNCHANGED <<handler, ready, hook, queue, tokenOf, compat, reload, clientVars, used>>

SkipHook(c) ==
    /\ thread[c] = "registered" /\ hookRun = Idle
    /\ ~hook \/ Claimed(c) = {}
    /\ thread' = [thread EXCEPT ![c] = "writing"]
    /\ UNCHANGED <<handler, ready, hook, table, queue, tokenOf, hookRun, compat, reload, clientVars, used>>

\* on_push_client_connected reads the compat table first ...
HookComputes(t) ==
    /\ t \in hookRun.todo /\ hookRun.cur = {}
    /\ hookRun' = [hookRun EXCEPT !.cur = {t}, !.val = compat]
    /\ UNCHANGED <<handler, ready, hook, table, queue, thread, tokenOf, compat, reload, clientVars, used>>

\* ... and push_to_token takes the lock of the table only then.
HookPushes ==
    /\ hookRun.cur # {}
    /\ Offer(EntriesOf(hookRun.cur), Config(hookRun.val), table)
    /\ LET left == hookRun.todo \ hookRun.cur
       IN  /\ hookRun' = IF left = {} THEN Idle
                         ELSE [hookRun EXCEPT !.todo = left, !.cur = {}, !.val = FALSE]
           /\ thread' = IF left = {} /\ hookRun.by = "conn"
                        THEN [thread EXCEPT ![hookRun.conn] = "writing"] ELSE thread
    /\ UNCHANGED <<handler, ready, hook, tokenOf, compat, reload, clientVars, used>>

Reads(c) == link[tokenOf[c]] = c

\* Mutant: the frame stays in the channel until a later one has been written.
WriteKept(c) ==
    /\ thread[c] = "writing" /\ queue[c] # <<>>
    /\ Reads(c) /\ Len(wire[c]) < WireCap
    /\ wire' = [wire EXCEPT ![c] = Append(@, Head(queue[c]))]
    /\ queue' = [queue EXCEPT ![c] = IF Len(@) = 1 THEN @ ELSE Tail(@)]
    /\ UNCHANGED <<handler, ready, hook, table, thread, tokenOf, hookRun, compat, reload,
                   link, title, synced, alive, typed, used>>

\* push_writer_loop: one frame from the channel into the pipe.
Write(c) ==
    /\ thread[c] = "writing" /\ queue[c] # <<>>
    /\ Reads(c) /\ Len(wire[c]) < WireCap
    /\ wire' = [wire EXCEPT ![c] = Append(@, Head(queue[c]))]
    /\ queue' = [queue EXCEPT ![c] = Tail(@)]
    /\ UNCHANGED <<handler, ready, hook, table, thread, tokenOf, hookRun, compat, reload,
                   link, title, synced, alive, typed, used>>

\* Mutant: a dropped client keeps its connection as long as it reads.
EndOnError(c) ==
    /\ thread[c] = "writing"
    /\ queue[c] # <<>> /\ ~Reads(c)
    /\ thread' = [thread EXCEPT ![c] = "ending"]
    /\ wire' = [wire EXCEPT ![c] = <<>>]
    /\ UNCHANGED <<handler, ready, hook, table, queue, tokenOf, hookRun, compat, reload,
                   link, title, synced, alive, typed, used>>

\* The loop ends when the DLL has closed its end (WriteFile fails) or when nobody holds the
\* sending end any more (recv fails).  Disconnecting throws away what was not read.
EndLoop(c) ==
    /\ thread[c] = "writing"
    /\ \/ queue[c] # <<>> /\ ~Reads(c)
       \/ queue[c] = <<>> /\ c \notin Listed
    /\ thread' = [thread EXCEPT ![c] = "ending"]
    /\ wire' = [wire EXCEPT ![c] = <<>>]
    /\ link' = [t \in Tokens |-> IF link[t] = c THEN NoConn ELSE link[t]]
    /\ UNCHANGED <<handler, ready, hook, table, queue, tokenOf, hookRun, compat, reload,
                   title, synced, alive, typed, used>>

\* The end of push_writer_loop takes out every entry of the token.
CleanUp(c) ==
    /\ thread[c] = "ending"
    /\ table' = table \ EntriesOf({tokenOf[c]})
    /\ thread' = [thread EXCEPT ![c] = "free"]
    /\ tokenOf' = [tokenOf EXCEPT ![c] = NoToken]
    /\ queue' = [queue EXCEPT ![c] = <<>>]
    /\ UNCHANGED <<handler, ready, hook, hookRun, compat, reload, clientVars, used>>

--------------------------------------------------------------------------------
(* The coordinator: a reload of the compat table, and committed text.        *)

ReloadTable ==
    /\ handler /\ ~reload /\ used.reloads < MaxReloads
    /\ hookRun.cur = {} \/ "reload_in_hook" \in Faults
    /\ compat' = ~compat /\ reload' = TRUE
    /\ used' = [used EXCEPT !.reloads = @ + 1]
    /\ UNCHANGED <<handler, ready, hook, table, queue, thread, tokenOf, hookRun, clientVars>>

\* push_per_client: the value is computed and offered under the lock of the table.
ReloadPush ==
    /\ reload
    /\ reload' = FALSE
    /\ Offer(table, Config(compat), table)
    /\ UNCHANGED <<handler, ready, hook, thread, tokenOf, hookRun, compat, clientVars, used>>

\* push_commit_to_active: the active client, else the only one, else nobody.
CommitTargets(active) ==
    IF EntriesOf({active}) # {} THEN EntriesOf({active})
    ELSE {e \in table : table = {e}}

PushCommit(active) ==
    /\ handler /\ used.commits < MaxCommits
    /\ CommitTargets(active) # {}
    /\ Offer(CommitTargets(active), COMMIT, table)
    /\ used' = [used EXCEPT !.commits = @ + 1]
    /\ UNCHANGED <<handler, ready, hook, thread, tokenOf, hookRun, compat, reload, clientVars>>

Crash ==
    /\ used.crashes < MaxCrashes
    /\ used' = [used EXCEPT !.crashes = @ + 1]
    /\ handler' = FALSE /\ ready' = FALSE /\ hook' = FALSE
    /\ table' = {} /\ hookRun' = Idle /\ reload' = FALSE
    /\ queue' = [c \in Conns |-> <<>>]
    /\ thread' = [c \in Conns |-> "free"]
    /\ tokenOf' = [c \in Conns |-> NoToken]
    /\ wire' = [c \in Conns |-> <<>>]
    /\ link' = [t \in Tokens |-> NoConn]
    /\ synced' = [t \in Tokens |-> IF synced[t] = "posted" THEN "posted" ELSE "no"]
    /\ UNCHANGED <<compat, title, alive, typed>>

--------------------------------------------------------------------------------
(* The push reader of a DLL.                                                 *)

\* A DLL waits a second before it reconnects; by then the thread of a connection that is no
\* longer listed has ended.
BackedOff(t) == \A c \in Conns : tokenOf[c] = t => c \in Listed

FreeConns == {c \in Conns : thread[c] = "free"}

\* _AsyncReaderLoop connects and writes its token at once.
Connect(t) ==
    /\ t \in alive /\ link[t] = NoConn
    /\ BackedOff(t) \/ "late_cleanup" \in Faults
    /\ \E c \in FreeConns :
         /\ \A d \in FreeConns : c <= d
         /\ thread' = [thread EXCEPT ![c] = "open"]
         /\ tokenOf' = [tokenOf EXCEPT ![c] = t]
         /\ link' = [link EXCEPT ![t] = c]
    /\ UNCHANGED <<handler, ready, hook, table, queue, hookRun, compat, reload,
                   wire, title, synced, alive, typed, used>>

\* One frame; SERVICE_READY clears the switch and posts a full synchronisation.
Read(t) ==
    /\ link[t] # NoConn /\ wire[link[t]] # <<>>
    /\ LET f == Head(wire[link[t]])
       IN  /\ title' = [title EXCEPT ![t] = IF f.kind = "commit" THEN @ ELSE f.on]
           /\ synced' = [synced EXCEPT ![t] = IF f = READY THEN "posted" ELSE @]
           /\ typed' = IF f = COMMIT THEN typed + 1 ELSE typed
    /\ wire' = [wire EXCEPT ![link[t]] = Tail(@)]
    /\ UNCHANGED <<serverVars, link, alive, used>>

\* The TSF thread synchronises; before set_ready its request gets a default answer.
Sync(t) ==
    /\ synced[t] = "posted"
    /\ synced' = [synced EXCEPT ![t] = IF handler THEN "yes" ELSE "swallowed"]
    /\ UNCHANGED <<serverVars, link, wire, title, alive, typed, used>>

CloseEnd(t) ==
    /\ link[t] # NoConn /\ used.errors < MaxErrors
    /\ used' = [used EXCEPT !.errors = @ + 1]
    /\ wire' = [wire EXCEPT ![link[t]] = <<>>]
    /\ link' = [link EXCEPT ![t] = NoConn]

\* ReadFile fails in the DLL although the service holds the connection.
ReadError(t) ==
    /\ "read_error" \in Faults
    /\ CloseEnd(t)
    /\ UNCHANGED <<serverVars, title, synced, alive, typed>>

\* The DLL is unloaded (StopAsyncReader); the service notices at its next write.
Exit(t) ==
    /\ CloseEnd(t)
    /\ alive' = alive \ {t}
    /\ UNCHANGED <<serverVars, title, synced, typed>>

--------------------------------------------------------------------------------
ThreadStep(c) ==
    Register(c) \/ ClaimHook(c) \/ SkipHook(c) \/ Write(c) \/ EndLoop(c) \/ CleanUp(c)

ClientStep(t) == Connect(t) \/ Read(t) \/ Sync(t)

Next ==
    \/ SetReady \/ MarkReady \/ SetHook
    \/ HookPushes \/ ReloadTable \/ ReloadPush \/ Crash
    \/ \E c \in Conns : ThreadStep(c)
    \/ \E t \in Tokens : ClientStep(t) \/ HookComputes(t) \/ ReadError(t) \/ Exit(t)
    \/ \E t \in Tokens \cup {NoToken} : PushCommit(t)

Spec == Init /\ [][Next]_vars

\* Every thread of the service goes on, and the readers of the DLLs read.
FairSpec ==
    /\ Spec
    /\ WF_vars(SetReady) /\ WF_vars(MarkReady) /\ WF_vars(SetHook)
    /\ WF_vars(HookPushes) /\ WF_vars(ReloadPush)
    /\ \A c \in Conns : WF_vars(ThreadStep(c))
    /\ \A t \in Tokens : WF_vars(ClientStep(t)) /\ WF_vars(HookComputes(t))

--------------------------------------------------------------------------------
(* A client is listed at most once, and only while a thread still serves its connection:
   a frame that offer accepts has a reader, or its connection is being closed. *)
TableServed ==
    /\ \A e, f \in table : e.token = f.token => e = f
    /\ \A e \in table : tokenOf[e.conn] = e.token /\ thread[e.conn] \notin {"free", "open"}

\* Nothing is under way that concerns the DLL t.
Quiet(t) ==
    /\ hook /\ hookRun = Idle /\ ~reload
    /\ link[t] # NoConn /\ thread[link[t]] = "writing"
    /\ queue[link[t]] = <<>> /\ wire[link[t]] = <<>> /\ synced[t] # "posted"
    /\ link[t] \in Listed

(* When everything for a connected DLL has been delivered, its synchronisation has reached the
   coordinator of this session and its switch is what the compat table says: SERVICE_READY was
   sent, not too early, and before the handshake configuration. *)
QuietIsCurrent == \A t \in Tokens : Quiet(t) => synced[t] = "yes" /\ title[t] = compat

\* Committed text is inserted at most once, by one client.
CommitOnce == typed <= used.commits

(* A DLL that goes on reading comes to rest connected, listed, synchronised and configured,
   whatever was full, failed or restarted before. *)
EventuallyCurrent == \A t \in Tokens : <>[](t \in alive => Quiet(t) /\ synced[t] = "yes" /\ title[t] = compat)
================================================================================
