------------------------------- MODULE HostFocus -------------------------------
(***************************************************************************)
(* Who the input method serves.  Each host process has a DLL (wind_tsf     *)
(* TextService.cpp) that turns the focus callbacks of Windows into         *)
(* requests on its own connection; the service (wind-coordinator           *)
(* message_handler.rs) has ONE activation state and ONE input buffer for   *)
(* all of them, and handles the requests of each connection in order, of   *)
(* different connections in any order.  The connection itself never fails  *)
(* here (that is ReadySync).                                               *)
(*                                                                         *)
(* A document is editable, a page without an editable context, or a        *)
(* transient container that may be typed into but is never reported.       *)
(***************************************************************************)
EXTENDS Naturals, Sequences, FiniteSets

CONSTANTS
    Hosts,        \* processes that have the DLL
    Banded,       \* hosts of the whitelist for which the service draws (host rendering)
    Outside,      \* a process that has not, or nothing
    Edits,        \* documents of a host with an editable context
    Pages,        \* documents without one
    Transients,   \* locked, transient documents
    NoDoc,        \* no document has the focus
    MaxSwitches,  \* bound: changes of the foreground process
    MaxFocus,     \* bound: focus callbacks
    MaxKeys,      \* bound: keys
    MaxStarts,    \* bound: activations, of all DLLs
    Faults        \* what may go wrong in this instance

FaultNames == {"overlap", "keeps_composition", "activated_outside", "fast_switch"}

ASSUME FocusAssumption ==
    /\ Outside \notin Hosts /\ Banded \subseteq Hosts /\ NoDoc \notin Edits \cup Pages \cup Transients
    /\ Edits \cap Pages = {} /\ (Edits \cup Pages) \cap Transients = {}
    /\ {MaxSwitches, MaxFocus, MaxKeys, MaxStarts} \subseteq Nat
    /\ Faults \subseteq FaultNames

Docs == Edits \cup Pages \cup Transients
\* A client token is a process and a connection of it.
Tokens == Hosts \X (0 .. MaxStarts)
NoToken == <<Outside, 0>>

VARIABLES
    fg,       \* the foreground process
    leaving,  \* hosts that lost the foreground and have not been told
    doc,      \* the document that has the focus in each host
    dll,      \* the fields of each DLL
    pipe,     \* requests of each connection the service has not finished
    half,     \* how far the first of them is
    svc,      \* active_token, ime_active, has_edit_context, focus_no_edit_ctx, input_buffer, focus_pid,
              \* the active of HostRenderManager, and a history variable: the part of the input
              \* whose composition ended by a report that the service did not follow
    used      \* how much of each bound is used up

vars == <<fg, leaving, doc, dll, pipe, half, svc, used>>

Reasons == {"thread", "doc_changed", "ctx_lost", "no_edit_ctx"}
Req(k) == [kind |-> k, reason |-> "thread", doc |-> NoDoc]
Lost(r) == [kind |-> "lost", reason |-> r, doc |-> NoDoc]
KeyOn(d) == [kind |-> "key", reason |-> "thread", doc |-> d]
Requests == {Req(k) : k \in {"activated", "deactivated", "gained", "terminated"}}
            \cup {Lost(r) : r \in Reasons} \cup {KeyOn(d) : d \in Docs}

TypeOK ==
    /\ fg \in Hosts \cup {Outside} /\ leaving \subseteq Hosts \ {fg}
    /\ doc \in [Hosts -> Docs \cup {NoDoc}]
    /\ dll \in [Hosts -> [on : BOOLEAN, gen : 0 .. MaxStarts, lastActive : Docs \cup {NoDoc},
                          lastFocused : Docs \cup {NoDoc}, lostSent : BOOLEAN, ctxReported : BOOLEAN,
                          comp : Docs \cup {NoDoc}, out : {<<>>}]]
    /\ \A h \in Hosts : dll[h].ctxReported => ~dll[h].lostSent
    /\ pipe \in [Tokens -> Seq(Requests)]
    /\ half \in [Tokens -> 0 .. 2]
    /\ svc \in [active : Tokens \cup {NoToken}, ime : BOOLEAN, edit : BOOLEAN, noEdit : BOOLEAN,
                input : SUBSET (Hosts \X Docs), orphans : SUBSET (Hosts \X Docs),
                focusPid : Hosts \cup {Outside}, render : Hosts \cup {Outside}]
    /\ used \in [switches : 0 .. MaxSwitches, focus : 0 .. MaxFocus, keys : 0 .. MaxKeys,
                 starts : 0 .. MaxStarts]

Fresh(n) == [on |-> TRUE, gen |-> n, lastActive |-> NoDoc, lastFocused |-> NoDoc, lostSent |-> FALSE,
             ctxReported |-> FALSE, comp |-> NoDoc, out |-> <<>>]

Init ==
    /\ fg = Outside /\ leaving = {}
    /\ doc = [h \in Hosts |-> NoDoc]
    /\ dll = [h \in Hosts |-> [Fresh(0) EXCEPT !.on = FALSE]]
    /\ pipe = [t \in Tokens |-> <<>>]
    /\ half = [t \in Tokens |-> 0]
    /\ svc = [active |-> NoToken, ime |-> FALSE, edit |-> FALSE, noEdit |-> FALSE, input |-> {}, orphans |-> {},
              focusPid |-> Outside, render |-> Outside]
    /\ used = [switches |-> 0, focus |-> 0, keys |-> 0, starts |-> 0]

--------------------------------------------------------------------------------
(* What a callback does to the fields of a DLL; `out` collects what it       *)
(* sends.                                                                    *)

Tok(h) == <<h, dll[h].gen>>

\* CleanupInputStateForDocChange ends the composition and reports it once.
Cleanup(r, reason, send) ==
    LET say == send /\ ~r.lostSent
    IN  [r EXCEPT !.comp = NoDoc, !.lostSent = @ \/ say, !.ctxReported = @ /\ ~say,
                  !.out = IF say THEN Append(@, Lost(reason)) ELSE @]

\* What OnSetFocus says of the document that gets the focus.
Report(r, d) ==
    CASE d \in Transients -> r
      [] d \in Pages -> [r EXCEPT !.lostSent = TRUE, !.ctxReported = FALSE, !.out = Append(@, Lost("no_edit_ctx"))]
      [] OTHER -> [r EXCEPT !.lostSent = FALSE, !.ctxReported = TRUE, !.out = Append(@, Req("gained"))]

\* OnSetFocus, gaining.
Gain(r, d) ==
    LET moved == d # r.lastFocused /\ r.lastActive # NoDoc
        left == IF moved THEN Cleanup(r, "doc_changed", d \notin Transients) ELSE r
    IN  [Report(left, d) EXCEPT !.lastActive = IF d \in Transients THEN @ ELSE d, !.lastFocused = d]

\* _ReportEditContextLost
LoseContext(r) ==
    IF r.ctxReported THEN [r EXCEPT !.ctxReported = FALSE, !.out = Append(@, Lost("ctx_lost"))] ELSE r

\* The callback leaves the fields r and writes what it sent to the connection.
Becomes(h, r) ==
    /\ dll' = [dll EXCEPT ![h] = [r EXCEPT !.out = <<>>]]
    /\ pipe' = [pipe EXCEPT ![<<h, r.gen>>] = @ \o r.out]

\* focus_gained and keys wait for the answer of the service.
Blocked(h) ==
    LET p == pipe[Tok(h)]
    IN  \E i \in 1 .. Len(p) : p[i].kind \in {"gained", "key"} /\ ~(i = 1 /\ half[Tok(h)] > 0)

Runs(h) == dll[h].on /\ ~Blocked(h)

--------------------------------------------------------------------------------
(* Windows and the user.                                                     *)

\* The host itself ends a composition before the focus leaves it, except when
\* the DLL ends it because another reported document of the thread comes.
MayLeave(h, d) ==
    \/ dll[h].comp \in {NoDoc, d}
    \/ dll[h].comp \in Edits /\ d \in Edits \cup Pages
    \/ "keeps_composition" \in Faults

\* People are slower than the pipes: of what other connections sent, only
\* requests of these kinds from other hosts still wait.
OnlyPending(h, kinds) ==
    \A t \in Tokens : (h \in Hosts => t # Tok(h)) =>
        /\ half[t] = 0
        /\ \A i \in 1 .. Len(pipe[t]) : t[1] # h /\ pipe[t][i].kind \in kinds

\* The focus leaves the documents of the process; a DLL that runs is told later.
Switch(x) ==
    /\ used.switches < MaxSwitches
    /\ x # fg /\ x \notin leaving
    /\ OnlyPending(Outside, {"terminated"}) \/ "fast_switch" \in Faults
    /\ fg \in Hosts => MayLeave(fg, NoDoc)
    /\ fg' = x
    /\ leaving' = leaving \cup {h \in Hosts : h = fg /\ dll[h].on}
    /\ doc' = [h \in Hosts |-> IF dll[h].on THEN doc[h] ELSE NoDoc]
    /\ used' = [used EXCEPT !.switches = @ + 1]
    /\ UNCHANGED <<dll, pipe, half, svc>>

SetFocus(h, d) ==
    /\ used.focus < MaxFocus
    /\ h = fg /\ d # doc[h]
    /\ Runs(h)
    /\ MayLeave(h, d)
    /\ doc' = [doc EXCEPT ![h] = d]
    /\ Becomes(h, Gain(dll[h], d))
    /\ used' = [used EXCEPT !.focus = @ + 1]
    /\ UNCHANGED <<fg, leaving, half, svc>>

\* Mutant: a lost document is taken for a lost thread.
LoseFocusIsLeaving(h) ==
    /\ doc[h] # NoDoc /\ Runs(h)
    /\ doc' = [doc EXCEPT ![h] = NoDoc]
    /\ Becomes(h, Cleanup(dll[h], "thread", TRUE))
    /\ UNCHANGED <<fg, leaving, half, svc, used>>

\* OnSetFocus, losing: the composition is left alone, the document may come back.
LoseFocus(h) ==
    /\ doc[h] # NoDoc /\ Runs(h)
    /\ doc' = [doc EXCEPT ![h] = NoDoc]
    /\ Becomes(h, LoseContext(dll[h]))
    /\ UNCHANGED <<fg, leaving, half, svc, used>>

\* Mutant: nothing to close when no document was active.
KillThreadOfDocument(h) ==
    /\ h \in leaving /\ doc[h] = NoDoc /\ Runs(h)
    /\ leaving' = leaving \ {h}
    /\ Becomes(h, IF dll[h].lastActive = NoDoc THEN dll[h] ELSE Cleanup(dll[h], "thread", TRUE))
    /\ UNCHANGED <<fg, doc, half, svc, used>>

KillThreadFocus(h) ==
    /\ h \in leaving /\ doc[h] = NoDoc /\ Runs(h)
    /\ leaving' = leaving \ {h}
    /\ Becomes(h, Cleanup(dll[h], "thread", TRUE))
    /\ UNCHANGED <<fg, doc, half, svc, used>>

\* The host ends the composition of the DLL: OnCompositionTerminated.
Terminate(h) ==
    /\ dll[h].comp # NoDoc /\ Runs(h)
    /\ Becomes(h, [dll[h] EXCEPT !.comp = NoDoc, !.out = <<Req("terminated")>>])
    /\ UNCHANGED <<fg, leaving, doc, half, svc, used>>

\* The process in the foreground has the DLL.
Served == fg \in Hosts /\ dll[fg].on

\* ActivateEx: a document that has the focus already is handled as if it came.
Activate(h) ==
    /\ ~dll[h].on /\ used.starts < MaxStarts
    /\ fg = h \/ (Served /\ svc.active[1] = fg /\ svc.focusPid = fg) \/ "activated_outside" \in Faults
    /\ \A i \in 1 .. Len(pipe[Tok(h)]) : pipe[Tok(h)][i].kind = "deactivated"
    /\ LET r == [Fresh(dll[h].gen + 1) EXCEPT !.out = <<Req("activated")>>]
       IN  Becomes(h, IF fg = h /\ doc[h] # NoDoc THEN Gain(r, doc[h]) ELSE r)
    /\ used' = [used EXCEPT !.starts = @ + 1]
    /\ UNCHANGED <<fg, leaving, doc, half, svc>>

\* Deactivate ends the composition itself, and reports nothing of it.
Deactivate(h) ==
    /\ Runs(h)
    /\ Becomes(h, [dll[h] EXCEPT !.on = FALSE, !.comp = NoDoc, !.out = <<Req("deactivated")>>])
    /\ leaving' = leaving \ {h}
    /\ doc' = [doc EXCEPT ![h] = IF h = fg THEN @ ELSE NoDoc]
    /\ UNCHANGED <<fg, half, svc, used>>

Key(h) ==
    /\ used.keys < MaxKeys
    /\ h = fg /\ doc[h] \in Edits \cup Transients
    /\ Runs(h) /\ OnlyPending(h, {"lost", "deactivated"})
    /\ Becomes(h, [dll[h] EXCEPT !.out = <<KeyOn(doc[h])>>])
    /\ used' = [used EXCEPT !.keys = @ + 1]
    /\ UNCHANGED <<fg, leaving, doc, half, svc>>

--------------------------------------------------------------------------------
(* The service: one thread per connection.  The check of a token and what    *)
(* follows it are not under one lock, so a handler has two halves.           *)

\* Mutant: a late report of another host is not told from one of the active host.
NeverStale(t) == FALSE

\* is_stale_focus_event
Stale(t) == svc.active # NoToken /\ t # svc.active

\* is_background_client, with the process that has the focus
Background(t) ==
    /\ svc.active # NoToken /\ t[1] \notin {svc.active[1], svc.focusPid}
    /\ fg # t[1] /\ fg = svc.active[1]

\* Two connections are handled at the same time only in an instance with that fault.
MayStart(t) == "overlap" \in Faults \/ \A u \in Tokens : half[u] = 0

Begins(t, kinds) == pipe[t] # <<>> /\ half[t] = 0 /\ pipe[t][1].kind \in kinds /\ MayStart(t)
GoesOn(t, n) == half' = [half EXCEPT ![t] = n] /\ UNCHANGED <<fg, leaving, doc, dll, pipe, used>>
Finishes(t) ==
    /\ pipe' = [pipe EXCEPT ![t] = Tail(@)] /\ half' = [half EXCEPT ![t] = 0]
    /\ UNCHANGED <<fg, leaving, doc, used>>

\* Mutant: a change of the document leaves the input.
ClearsInputAway(reason) == reason \in {"thread", "no_edit_ctx"}

\* FocusLostReason::clears_input
ClearsInput(reason) == reason # "ctx_lost"

\* What handle_focus_lost does to the state for a reason.
AfterLost(s, reason) ==
    [s EXCEPT !.ime = @ /\ reason # "thread",
              !.edit = @ /\ reason = "doc_changed",
              !.noEdit = @ \/ reason = "no_edit_ctx",
              !.input = IF ClearsInput(reason) THEN {} ELSE @,
              !.orphans = IF ClearsInput(reason) THEN {} ELSE @]

\* FOCUS_GAINED is answered first, then handled; note_focus comes before the answer.
AnswerGained(t) ==
    /\ Begins(t, {"gained"})
    /\ svc' = [svc EXCEPT !.render = t[1]]
    /\ GoesOn(t, 1)

GainedState(t) ==
    /\ half[t] = 1 /\ pipe[t][1].kind = "gained"
    /\ svc' = [svc EXCEPT !.focusPid = t[1], !.ime = TRUE, !.edit = TRUE, !.noEdit = FALSE]
    /\ GoesOn(t, 2)

GainedToken(t) ==
    /\ half[t] = 2
    /\ svc' = [svc EXCEPT !.active = t]
    /\ Finishes(t) /\ UNCHANGED dll

\* The report that the composition of t ended is not followed.
Disregards(t) == svc' = [svc EXCEPT !.orphans = @ \cup {x \in svc.input : x[1] = t[1]}]

DropStale(t) ==
    /\ Begins(t, {"lost", "deactivated"}) /\ Stale(t)
    /\ IF pipe[t][1].kind = "deactivated" THEN Disregards(t) ELSE UNCHANGED svc
    /\ Finishes(t) /\ UNCHANGED dll

PassStale(t) == Begins(t, {"lost", "deactivated"}) /\ ~Stale(t) /\ GoesOn(t, 1) /\ UNCHANGED svc

LostState(t) ==
    /\ half[t] = 1 /\ pipe[t][1].kind = "lost"
    /\ svc' = AfterLost(svc, pipe[t][1].reason)
    /\ Finishes(t) /\ UNCHANGED dll

DeactivatedState(t) ==
    /\ half[t] = 1 /\ pipe[t][1].kind = "deactivated"
    /\ svc' = [svc EXCEPT !.ime = FALSE, !.edit = FALSE, !.noEdit = FALSE, !.input = {}, !.orphans = {}]
    /\ Finishes(t) /\ UNCHANGED dll

DropBackground(t) ==
    Begins(t, {"activated"}) /\ Background(t) /\ Finishes(t) /\ UNCHANGED <<dll, svc>>

ActivatedToken(t) ==
    /\ Begins(t, {"activated"}) /\ ~Background(t)
    /\ svc' = [svc EXCEPT !.active = t, !.focusPid = t[1], !.render = t[1]]
    /\ GoesOn(t, 1)

ActivatedState(t) ==
    /\ half[t] = 1 /\ pipe[t][1].kind = "activated"
    /\ svc' = [svc EXCEPT !.ime = TRUE, !.edit = TRUE, !.noEdit = FALSE]
    /\ Finishes(t) /\ UNCHANGED dll

\* A key extends the input or commits it; the answer makes the DLL compose or stop.
HandleKey(t) ==
    /\ Begins(t, {"key"})
    /\ LET h == t[1]
           d == pipe[t][1].doc
       IN  \/ /\ svc' = [svc EXCEPT !.focusPid = h, !.render = h, !.input = @ \cup {<<h, d>>},
                                      !.orphans = @ \ {<<h, d>>}]
              /\ dll' = [dll EXCEPT ![h].comp = d]
           \/ /\ svc.input # {}
              /\ svc' = [svc EXCEPT !.focusPid = h, !.render = h, !.input = {}, !.orphans = {}]
              /\ dll' = [dll EXCEPT ![h].comp = NoDoc]
    /\ Finishes(t)

\* COMPOSITION_TERMINATED has no token.  host_render_active: of a host of the whitelist,
\* as soon as its window is set up, it is taken for the search box that ends every
\* composition at once, and the input stays.
HandleTerminated(t) ==
    /\ Begins(t, {"terminated"})
    /\ \/ svc' = [svc EXCEPT !.input = {}, !.orphans = {}]
       \/ svc.render \in Banded /\ Disregards(t)
    /\ Finishes(t) /\ UNCHANGED dll

--------------------------------------------------------------------------------
Callback(h) ==
    \/ \E d \in Docs : SetFocus(h, d)
    \/ LoseFocus(h) \/ KillThreadFocus(h) \/ Terminate(h)
    \/ Activate(h) \/ Deactivate(h) \/ Key(h)

Handler(t) ==
    \/ AnswerGained(t) \/ GainedState(t) \/ GainedToken(t)
    \/ DropStale(t) \/ PassStale(t) \/ LostState(t) \/ DeactivatedState(t)
    \/ DropBackground(t) \/ ActivatedToken(t) \/ ActivatedState(t)
    \/ HandleKey(t) \/ HandleTerminated(t)

Next ==
    \/ \E x \in Hosts \cup {Outside} : Switch(x)
    \/ \E h \in Hosts : Callback(h)
    \/ \E t \in Tokens : Handler(t)

Spec == Init /\ [][Next]_vars

--------------------------------------------------------------------------------
(* Properties.                                                               *)

\* Every callback has been delivered and every request handled.
Settled == leaving = {} /\ \A t \in Tokens : pipe[t] = <<>>

\* Whoever types into an editable document of the foreground process is served:
\* that process is the active client and the service counts itself active in an
\* editable context, in whatever order the reports of the other hosts arrived
\* (is_stale_focus_event, is_background_client).
FocusedIsServed ==
    Settled /\ Served /\ doc[fg] \in Edits =>
        /\ svc.active = Tok(fg)
        /\ svc.ime /\ svc.edit /\ ~svc.noEdit

\* The toolbar (ime_active and has_edit_context) is not shown over a process
\* that the input method does not serve, nor over a page (FocusLostReason).
ToolbarOnlyServed ==
    Settled /\ svc.ime /\ svc.edit => Served /\ doc[fg] \notin Pages

\* The one input buffer never holds keys typed into two documents, but for those whose
\* composition was reported ended by a report that the service does not follow: what a
\* terminated composition leaves while host rendering is active, and what a host typed
\* whose deactivation comes from a connection that is not the active one any more.
NoMixing == Cardinality(svc.input \ svc.orphans) <= 1

\* What is being composed in the editable document that has the focus is what the service
\* has, those orphans aside: neither a late report of another host nor the focus leaving
\* the document and coming back (Excel) takes it away, or leaves it beside older keys.
InputKept ==
    Settled /\ Served /\ doc[fg] \in Edits /\ dll[fg].comp = doc[fg] =>
        /\ <<fg, doc[fg]>> \in svc.input
        /\ svc.input \subseteq svc.orphans \cup {<<fg, doc[fg]>>}
================================================================================
