------------------------------- MODULE ReadySync -------------------------------
(***************************************************************************)
(* How a host process finds its way back to the service after the service *)
(* has been restarted: the thread of the DLL that talks to the service    *)
(* (wind_tsf IPCClient.cpp, TextService.cpp, LangBarItemButton.cpp and     *)
(* ServiceReadyRetryPolicy.h).  A callback of that thread is one step; it  *)
(* may write to a pipe whose other end is gone, and a connection attempt   *)
(* may find every instance of the pipe taken by other hosts.               *)
(* SERVICE_READY comes once for a life of the service (PushChannel).       *)
(*                                                                         *)
(* `known` says that the service has handled an IME_ACTIVATED or a         *)
(* FOCUS_GAINED of this host; `mode` is the input mode the service has for *)
(* it.  What they then show is HostFocus.                                  *)
(***************************************************************************)
EXTENDS Naturals

CONSTANTS
    MaxRetries,   \* kMaxRetries
    MaxFailures,  \* MAX_CONSECUTIVE_FAILURES
    MaxBusy,      \* bound: connection attempts that find the pipe busy
    MaxCrashes,   \* bound: ends of the service
    MaxFocus,     \* bound: focus callbacks
    MaxKeys,      \* bound: keys and clicks
    Faults        \* what may go wrong in this instance

FaultNames == {"key_connects", "click"}

ASSUME ReadyAssumption ==
    /\ {MaxBusy, MaxCrashes, MaxFocus, MaxKeys} \subseteq Nat
    /\ {MaxRetries, MaxFailures} \subseteq Nat \ {0}
    /\ Faults \subseteq FaultNames

VARIABLES
    svc,     \* the service: down, starting (requests are dropped) or ready
    due,     \* SERVICE_READY has not reached the reader of this host
    posted,  \* WM_SERVICE_READY messages in the queue of the thread
    focus,   \* _hasFocus
    front,   \* _hasThreadFocus
    comp,    \* a composition is active
    c,       \* the fields of IPCClient, the retries, and what the service has of this host
    used     \* how much of each bound is used up

vars == <<svc, due, posted, focus, front, comp, c, used>>

TypeOK ==
    /\ svc \in {"down", "starting", "ready"} /\ {due, focus, front, comp} \subseteq BOOLEAN
    /\ due => svc = "ready"
    /\ posted \in 0 .. MaxCrashes + 1
    /\ c \in [conn : {"none", "stale", "live"}, needs : BOOLEAN, est : BOOLEAN, written : BOOLEAN,
              breaker : {"closed", "open", "half"}, fails : 0 .. MaxFailures, busy : 0 .. MaxBusy,
              recover : BOOLEAN, timerR : BOOLEAN, timerF : BOOLEAN,
              failR : 0 .. MaxRetries, failF : 0 .. MaxRetries, known : BOOLEAN, mode : {"initial", "user"}]
    /\ c.conn = "none" => ~c.est
    /\ c.conn = "live" => c.breaker = "closed" /\ svc # "down"
    /\ c.breaker = "open" => c.conn = "none"
    /\ c.failR > 0 => c.timerR
    /\ c.failF > 0 <=> c.timerF
    /\ used \in [crashes : 0 .. MaxCrashes, focus : 0 .. MaxFocus, keys : 0 .. MaxKeys]

\* The DLL has been activated while there was no service.
Init ==
    /\ svc = "down" /\ posted = 0 /\ due = FALSE /\ focus = FALSE /\ front = FALSE /\ comp = FALSE
    /\ c = [conn |-> "none", needs |-> TRUE, est |-> FALSE, written |-> FALSE,
            breaker |-> IF MaxFailures = 1 THEN "open" ELSE "closed", fails |-> 1, busy |-> 0,
            recover |-> FALSE, timerR |-> FALSE, timerF |-> FALSE, failR |-> 0, failF |-> 0,
            known |-> FALSE, mode |-> "initial"]
    /\ used = [crashes |-> 0, focus |-> 0, keys |-> 0]

--------------------------------------------------------------------------------
(* A call of the thread maps the fields to a set of outcomes, each with the  *)
(* result and the fields after it.                                           *)

Yes(r) == [ok |-> TRUE, c |-> r]
No(r) == [ok |-> FALSE, c |-> r]
\* The calls made after S: on its success and on its failure.
Then(S, OnOk(_), OnFail(_)) == UNION {IF o.ok THEN OnOk(o.c) ELSE OnFail(o.c) : o \in S}

RecordSuccess(r) == [r EXCEPT !.fails = 0, !.breaker = "closed"]
RecordFailure(r) ==
    LET n == IF r.fails < MaxFailures THEN r.fails + 1 ELSE MaxFailures
    IN  [r EXCEPT !.fails = n, !.breaker = IF n = MaxFailures THEN "open" ELSE @]

Disconnect(r) == [r EXCEPT !.conn = "none", !.est = FALSE]

Connected(r) == RecordSuccess([r EXCEPT !.conn = "live", !.needs = TRUE, !.est = FALSE, !.written = FALSE])
PipeBusy(r) == [r EXCEPT !.busy = @ + 1]

\* A busy pipe does not count against the breaker in a sync for SERVICE_READY.
Connect(r, exempt) ==
    CASE r.conn # "none" -> {Yes(r)}
      [] r.conn = "none" /\ r.breaker = "open" -> {No(r)}
      [] r.conn = "none" /\ r.breaker # "open" /\ svc = "down" -> {No(RecordFailure(r))}
      [] OTHER -> {Yes(Connected(r))}
                  \cup IF r.busy = MaxBusy THEN {}
                       ELSE {No(IF exempt THEN PipeBusy(r) ELSE RecordFailure(PipeBusy(r)))}

\* _SendBinaryMessage: a used connection whose other end is gone is replaced once.
Send(r, exempt) ==
    LET Wrote(x) == {Yes(RecordSuccess([x EXCEPT !.written = TRUE]))}
        Failed(x) == {No(x)}
        Write(x) ==
            CASE x.conn = "live" -> Wrote(x)
              [] x.conn = "stale" /\ x.written -> Then(Connect(Disconnect(x), exempt), Wrote, Failed)
              [] OTHER -> Failed(Disconnect(RecordFailure(x)))
    IN  Then(Connect(r, exempt), Write, Failed)

\* The requests that do nothing while the breaker is open.
Guarded(r, exempt) == IF r.breaker = "open" THEN {No(r)} ELSE Send(r, exempt)

\* SendIMEActivated: the service starts this host in its initial mode.
Activated(r, exempt) ==
    {IF ~o.ok THEN o
     ELSE Yes([o.c EXCEPT !.est = TRUE, !.known = @ \/ svc = "ready",
                          !.mode = IF svc = "ready" THEN "initial" ELSE @]) : o \in Guarded(r, exempt)}
\* SendFocusGained
Gained(r) ==
    {IF ~o.ok THEN o ELSE Yes([o.c EXCEPT !.est = TRUE, !.known = @ \/ svc = "ready"]) : o \in Guarded(r, FALSE)}

\* TryRecoverFocusState; it has no result.
TryRecover(r) ==
    IF ~r.recover \/ r.conn = "none" THEN {r}
    ELSE {[o.c EXCEPT !.recover = FALSE, !.needs = @ /\ ~o.ok] : o \in Gained(r)}

\* _DoFullStateSync: needs is cleared whether IME_ACTIVATED was sent or not.
FullSync(r, exempt) ==
    LET Again(x) == Then(Connect(x, exempt), LAMBDA y : Activated(y, exempt), LAMBDA y : {No(y)})
        Sent(x) == Then(Activated(x, exempt), LAMBDA y : {Yes(y)}, Again)
        Finish(o) == {[ok |-> o.ok, c |-> y] : y \in TryRecover([o.c EXCEPT !.needs = FALSE])}
    IN  Then(Connect(r, exempt), LAMBDA x : UNION {Finish(o) : o \in Sent(x)}, LAMBDA x : {No(x)})

\* CancelServiceReadyRetry
Cancel(r) == [r EXCEPT !.timerR = FALSE, !.timerF = FALSE, !.failR = 0, !.failF = 0]

--------------------------------------------------------------------------------
(* The two retries.                                                          *)

ShouldRetry(n) == n \in 1 .. MaxRetries

\* Mutant: a retry does not ask whether a key or a focus has synchronised meanwhile.
DecideAlways(r) ==
    CASE ~focus -> "no_focus"
      [] focus /\ r.failR > 0 /\ ~front -> "background"
      [] focus /\ (r.failR > 0 => front) /\ comp -> "defer"
      [] OTHER -> "sync"

\* Decide; a retry is a run after a failure.
Decide(r) ==
    LET retry == r.failR > 0
        synced == retry /\ r.conn # "none" /\ r.est
    IN  CASE ~focus -> "no_focus"
          [] focus /\ synced -> "synced"
          [] focus /\ ~synced /\ retry /\ ~front -> "background"
          [] focus /\ ~synced /\ (retry => front) /\ comp -> "defer"
          [] OTHER -> "sync"

\* Mutant: SERVICE_READY comes once and its sync is tried once.
SyncedOnce(o) == [o.c EXCEPT !.failR = 0]

\* What follows a sync: done, or the next retry, or giving up.
Synced(o) ==
    LET n == o.c.failR + 1
    IN  IF o.ok THEN [o.c EXCEPT !.failR = 0]
        ELSE [o.c EXCEPT !.failR = IF ShouldRetry(n) THEN n ELSE 0, !.timerR = ShouldRetry(n)]

\* Mutant: a run that finds a composition stops for good.
RunReadySyncOnce(r) ==
    LET d == Decide(r)
        stopped == [r EXCEPT !.timerR = FALSE]
    IN  IF d = "sync" THEN {Synced(o) : o \in FullSync(stopped, TRUE)} ELSE {[stopped EXCEPT !.failR = 0]}

\* _RunServiceReadySync; a deferral sets the timer again and counts as no failure.
RunReadySync(r) ==
    LET d == Decide(r)
        stopped == [r EXCEPT !.timerR = FALSE]
    IN  CASE d = "sync" -> {Synced(o) : o \in FullSync(stopped, TRUE)}
          [] d = "defer" -> {[stopped EXCEPT !.timerR = TRUE]}
          [] OTHER -> {[stopped EXCEPT !.failR = 0]}

\* RetryFocusRecovery
FocusRecovery(r) ==
    LET Resent(x) == {Yes(Cancel([x EXCEPT !.recover = FALSE, !.needs = FALSE]))}
        Failed(x) == {No(x)}
    IN  IF ~r.recover THEN {Yes(r)}
        ELSE IF ~focus \/ ~front THEN {Yes([r EXCEPT !.recover = FALSE])}
        ELSE IF r.conn # "none" /\ r.est THEN {Yes(r)}
        ELSE Then(Connect(r, FALSE), LAMBDA x : Then(Gained(x), Resent, Failed), Failed)

\* _RunFocusRecoveryRetry
RunFocusRecovery(r) ==
    LET After(o) ==
            LET n == o.c.failF + 1
            IN  IF o.ok THEN [o.c EXCEPT !.failF = 0]
                ELSE [o.c EXCEPT !.failF = IF ShouldRetry(n) THEN n ELSE 0, !.timerF = ShouldRetry(n)]
    IN  {After(o) : o \in FocusRecovery([r EXCEPT !.timerF = FALSE])}

--------------------------------------------------------------------------------
(* The service.                                                              *)

Keep == UNCHANGED <<focus, front, comp>>

Crash ==
    /\ svc # "down" /\ used.crashes < MaxCrashes
    /\ svc' = "down" /\ due' = FALSE
    /\ c' = [c EXCEPT !.conn = IF @ = "live" THEN "stale" ELSE @, !.known = FALSE, !.mode = "initial"]
    /\ used' = [used EXCEPT !.crashes = @ + 1]
    /\ UNCHANGED posted /\ Keep

Start == svc = "down" /\ svc' = "starting" /\ UNCHANGED <<due, posted, c, used>> /\ Keep

\* set_ready and mark_ready
Ready == svc = "starting" /\ svc' = "ready" /\ due' = TRUE /\ UNCHANGED <<posted, c, used>> /\ Keep

--------------------------------------------------------------------------------
(* The thread of the DLL.                                                    *)

\* PostServiceReady, on the thread that reads the push pipe.
Post == due /\ due' = FALSE /\ posted' = posted + 1 /\ UNCHANGED <<svc, c, used>> /\ Keep

\* DiscardStaleConnection
DiscardStale(r) == IF r.conn = "stale" THEN Disconnect(r) ELSE r

\* WM_SERVICE_READY
ServiceReady ==
    /\ posted > 0 /\ posted' = posted - 1
    /\ c' \in RunReadySync([DiscardStale(RecordSuccess(c)) EXCEPT !.failR = 0])
    /\ UNCHANGED <<svc, due, used>> /\ Keep

ReadyTimer == c.timerR /\ c' \in RunReadySync(c) /\ UNCHANGED <<svc, due, posted, used>> /\ Keep
FocusTimer == c.timerF /\ c' \in RunFocusRecovery(c) /\ UNCHANGED <<svc, due, posted, used>> /\ Keep

Focused == used.focus < MaxFocus /\ used' = [used EXCEPT !.focus = @ + 1] /\ UNCHANGED <<svc, due, posted>>
Typed == focus /\ front /\ used.keys < MaxKeys /\ used' = [used EXCEPT !.keys = @ + 1]
         /\ UNCHANGED <<svc, due, posted, focus, front>>

\* SendFocusLost writes only to a connection there is.
LostSent(r) == IF r.conn = "none" THEN {r} ELSE {o.c : o \in Send(r, FALSE)}

\* OnSetFocus, gaining: the same document again, or another one (the composition is ended first).
SetFocus ==
    /\ Focused /\ focus' = TRUE /\ front' = TRUE
    /\ \E other \in BOOLEAN :
         /\ comp' = (comp /\ ~other)
         /\ \E r \in IF other THEN {c} \cup LostSent(c) ELSE {c} : \E o \in Gained(r) :
              c' = IF o.ok THEN Cancel([o.c EXCEPT !.recover = FALSE, !.needs = FALSE])
                   ELSE [o.c EXCEPT !.recover = TRUE, !.timerF = TRUE, !.failF = 1]

\* OnSetFocus, losing
LoseFocus ==
    /\ Focused /\ focus /\ focus' = FALSE /\ UNCHANGED <<front, comp>>
    /\ \E r \in {c} \cup LostSent(c) : c' = [r EXCEPT !.recover = FALSE]

\* OnKillThreadFocus
KillThreadFocus ==
    /\ Focused /\ front /\ front' = FALSE /\ comp' = FALSE /\ UNCHANGED focus
    /\ \E r \in {c} \cup LostSent(c) : c' = [r EXCEPT !.known = FALSE]

\* SendCaretPositionUpdate, which may have no position to send.
CaretSent(r) == {r} \cup {o.c : o \in Guarded(r, FALSE)}

\* What a key does before it is sent.
KeySync(r) ==
    LET After(o) == IF o.ok THEN Cancel(o.c) ELSE o.c
        Prepare(x) == IF comp THEN {Yes([x EXCEPT !.needs = FALSE])}
                      ELSE {Yes(y) : y \in UNION {CaretSent(After(o)) : o \in FullSync(x, FALSE)}}
    IN  IF r.needs THEN Then(Connect(r, FALSE), Prepare, LAMBDA x : {No(x)}) ELSE {Yes(r)}

\* _SendKeyToService and SendKeyEvent
KeySent(r) ==
    LET Sent(x) == {Yes([x EXCEPT !.est = TRUE])}
        Failed(x) == {No(x)}
    IN  Then(KeySync(r), LAMBDA x : UNION {Then(Guarded(y, FALSE), Sent, Failed) : y \in TryRecover(x)}, Failed)

\* A key; the service may start or end a composition with it, or change the mode.
Key ==
    /\ Typed /\ (c.conn # "none" \/ c.needs \/ "key_connects" \in Faults)
    /\ \E o \in KeySent(c) :
         IF o.ok /\ svc = "ready"
         THEN comp' \in BOOLEAN /\ \E m \in {o.c.mode, "user"} : c' = [o.c EXCEPT !.mode = m]
         ELSE c' = o.c /\ UNCHANGED comp

\* A click on the language bar: CMD_TOGGLE_MODE, which does not set _stateEstablished and ends the composition.
Click ==
    /\ Typed /\ c.conn # "none"
    /\ \E o \in Send(c, FALSE) :
         IF o.ok /\ svc = "ready"
         THEN (o.c.est \/ "click" \in Faults) /\ c' = [o.c EXCEPT !.mode = "user"] /\ comp' \in {comp, FALSE}
         ELSE c' = o.c /\ UNCHANGED comp

\* A caret position, or another request that connects and does not set _stateEstablished.
Caret == Typed /\ UNCHANGED comp /\ \E o \in Guarded(c, FALSE) : c' = o.c

\* A composition is ended by its host.
EndComposition == comp /\ comp' = FALSE /\ UNCHANGED <<svc, due, posted, focus, front, c, used>>

\* CIRCUIT_RESET_INTERVAL_MS have passed.
Elapse ==
    /\ c.breaker = "open" /\ c' = [c EXCEPT !.breaker = "half"]
    /\ UNCHANGED <<svc, due, posted, used>> /\ Keep

Next ==
    \/ Crash \/ Start \/ Ready \/ Post \/ ServiceReady \/ ReadyTimer \/ FocusTimer
    \/ SetFocus \/ LoseFocus \/ KillThreadFocus \/ Key \/ Click \/ Caret \/ EndComposition \/ Elapse

Spec == Init /\ [][Next]_vars

\* The service is started again, messages and timers are handled, and a composition is finite.
Fairness ==
    /\ WF_vars(Start) /\ WF_vars(Ready) /\ WF_vars(Post) /\ WF_vars(ServiceReady)
    /\ WF_vars(ReadyTimer) /\ WF_vars(FocusTimer) /\ WF_vars(EndComposition) /\ WF_vars(Elapse)

FairSpec == Spec /\ Fairness

--------------------------------------------------------------------------------
(* Properties.                                                               *)

Settled == svc = "ready" /\ ~due /\ posted = 0 /\ ~c.timerR /\ ~c.timerF

\* When nothing is under way any more, a host that is typed into and has a connection is known to
\* the service, or one of its flags still says that it is not: no path clears _needsStateSync and
\* _needsFocusRecovery, and stops both retries, without having told the service.
NothingForgotten ==
    Settled /\ focus /\ front /\ c.conn = "live" /\ ~c.needs /\ ~c.recover => c.known

\* A retry for SERVICE_READY never takes back a mode that the user has chosen
\* (StopAlreadySynced in ServiceReadyRetryPolicy.h).
ModeKept == [][ReadyTimer /\ c.failR > 0 => c'.mode = c.mode]_vars

\* A host that keeps the focus while the service stays up is known in the end, or owes only its
\* focus, which the next key sends.
EventuallyKnown == <>[](svc = "ready" /\ focus /\ front) => []<>(c.known \/ c.recover)
================================================================================
