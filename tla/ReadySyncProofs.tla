--------------------------- MODULE ReadySyncProofs ---------------------------
(***************************************************************************)
(* Proofs about ReadySync, for every number of crashes, busy pipes, focus  *)
(* changes, keys and retries.  What a call of the thread does to the       *)
(* fields is stated once as a relation of the fields before and an outcome *)
(* and cited by the calls built from it.                                   *)
(***************************************************************************)
EXTENDS ReadySync, TLAPS

Fields ==
  [conn : {"none", "stale", "live"}, needs : BOOLEAN, est : BOOLEAN, written : BOOLEAN,
   breaker : {"closed", "open", "half"}, fails : 0 .. MaxFailures, busy : 0 .. MaxBusy,
   recover : BOOLEAN, timerR : BOOLEAN, timerF : BOOLEAN,
   failR : 0 .. MaxRetries, failF : 0 .. MaxRetries, known : BOOLEAN, mode : {"initial", "user"}]

(* The fields of a connection agree; who is known, or has a mode of the    *)
(* user, is connected.                                                     *)
Fit(r) ==
  /\ r \in Fields
  /\ r.conn = "none" => ~r.est
  /\ r.conn = "live" => r.breaker = "closed" /\ svc # "down"
  /\ r.breaker = "open" => r.conn = "none"
  /\ r.known => r.conn = "live"
  /\ r.mode = "user" /\ "click" \notin Faults => r.conn = "live" /\ r.est

Timers(r) == (r.failR > 0 => r.timerR) /\ (r.failF > 0 <=> r.timerF)

(* No retry is started or stopped.                                         *)
Steady(r, x) == x.failR = r.failR /\ x.timerR = r.timerR /\ x.failF = r.failF /\ x.timerF = r.timerF

Outcomes == [ok : BOOLEAN, c : Fields]

(* What Connect, Send and the calls that are sent have in common.          *)
Calls(r, o) ==
  /\ o \in Outcomes /\ Fit(o.c) /\ Steady(r, o.c)
  /\ o.c.recover = r.recover
  /\ r.conn = "live" => o.ok /\ o.c.needs = r.needs /\ (r.est => o.c.est)
  /\ ~o.ok => o.c.conn = "none" /\ ~o.c.known /\ o.c.mode = r.mode

Connects(r, o) ==
  /\ Calls(r, o)
  /\ o.c.known = r.known /\ o.c.mode = r.mode
  /\ r.conn # "none" => o.c = r
  /\ o.ok => IF r.conn = "none" THEN o.c.conn = "live" /\ o.c.needs /\ ~o.c.est ELSE o.c.conn = r.conn

(* What is sent has reached a live connection.                             *)
Reaches(r, o) ==
  /\ Calls(r, o)
  /\ o.ok => o.c.conn = "live" /\ (r.conn # "live" => o.c.needs)

Sends(r, o) ==
  /\ Reaches(r, o)
  /\ o.c.known = r.known /\ o.c.mode = r.mode
  /\ r.conn = "live" => o.c.est = r.est

LEMMA OutcomeIs ==
  ASSUME NEW r \in Fields
  PROVE  /\ Yes(r) \in Outcomes /\ Yes(r).ok = TRUE /\ Yes(r).c = r
         /\ No(r) \in Outcomes /\ No(r).ok = FALSE /\ No(r).c = r
BY DEF Yes, No, Outcomes

(* What the fields not named keep.                                         *)
Rest(r, x) ==
  /\ Steady(r, x) /\ x.recover = r.recover /\ x.known = r.known /\ x.mode = r.mode

LEMMA SuccessIs ==
  ASSUME NEW r \in Fields
  PROVE  LET x == RecordSuccess(r) IN
         /\ x \in Fields /\ Rest(r, x)
         /\ x.conn = r.conn /\ x.needs = r.needs /\ x.est = r.est /\ x.written = r.written
         /\ x.breaker = "closed"
<1>1. 0 \in 0..MaxFailures BY ReadyAssumption
<1> QED BY <1>1 DEF RecordSuccess, Fields, Rest, Steady

LEMMA FailureIs ==
  ASSUME NEW r \in Fields
  PROVE  LET x == RecordFailure(r) IN
         /\ x \in Fields /\ Rest(r, x)
         /\ x.conn = r.conn /\ x.needs = r.needs /\ x.est = r.est
<1>0. r.fails \in 0..MaxFailures /\ MaxFailures \in Nat \ {0}
  BY ReadyAssumption DEF Fields
<1> DEFINE n == IF r.fails < MaxFailures THEN r.fails + 1 ELSE MaxFailures
<1>1. n \in 0..MaxFailures BY <1>0
<1>2. RecordFailure(r) = [r EXCEPT !.fails = n, !.breaker = IF n = MaxFailures THEN "open" ELSE @]
  BY DEF RecordFailure
<1> HIDE DEF n
<1> QED BY <1>1, <1>2 DEF Fields, Rest, Steady

LEMMA DisconnectIs ==
  ASSUME NEW r \in Fields
  PROVE  LET x == Disconnect(r) IN
         /\ x \in Fields /\ Rest(r, x)
         /\ x.conn = "none" /\ ~x.est /\ x.needs = r.needs /\ x.breaker = r.breaker
BY DEF Disconnect, Fields, Rest, Steady

LEMMA ConnectedIs ==
  ASSUME NEW r \in Fields
  PROVE  LET x == Connected(r) IN
         /\ x \in Fields /\ Rest(r, x)
         /\ x.conn = "live" /\ x.needs /\ ~x.est /\ x.breaker = "closed"
<1> DEFINE y == [r EXCEPT !.conn = "live", !.needs = TRUE, !.est = FALSE, !.written = FALSE]
<1>1. y \in Fields /\ Rest(r, y) /\ y.conn = "live" /\ y.needs /\ ~y.est
  BY DEF Fields, Rest, Steady
<1>2. Connected(r) = RecordSuccess(y) BY DEF Connected
<1> HIDE DEF y
<1> QED BY <1>1, <1>2, SuccessIs DEF Rest, Steady

LEMMA BusyIs ==
  ASSUME NEW r \in Fields, r.busy # MaxBusy
  PROVE  LET x == PipeBusy(r) IN
         /\ x \in Fields /\ Rest(r, x)
         /\ x.conn = r.conn /\ x.needs = r.needs /\ x.est = r.est /\ x.breaker = r.breaker
<1>1. r.busy + 1 \in 0..MaxBusy BY ReadyAssumption DEF Fields
<1> QED BY <1>1 DEF PipeBusy, Fields, Rest, Steady

(* A call that leaves no connection.                                       *)
LEMMA FailsWithout ==
  ASSUME NEW r, Fit(r), r.conn = "none", NEW x \in Fields, Rest(r, x), x.conn = "none", ~x.est
  PROVE  Connects(r, No(x)) /\ Fit(x)
BY OutcomeIs DEF Connects, Calls, Fit, Rest, Steady

LEMMA ConnectDoes ==
  ASSUME NEW r, Fit(r), NEW exempt \in BOOLEAN, NEW o \in Connect(r, exempt)
  PROVE  Connects(r, o)
<1>1. r \in Fields BY DEF Fit
<1>2. CASE r.conn # "none"
  <2>1. o = Yes(r) BY <1>2 DEF Connect
  <2> QED BY <1>1, <1>2, <2>1, OutcomeIs DEF Connects, Calls, Steady
<1>3. CASE r.conn = "none" /\ o = No(r)
  BY <1>1, <1>3, FailsWithout DEF Rest, Steady, Fit
<1>4. CASE r.conn = "none" /\ o = No(RecordFailure(r))
  BY <1>1, <1>4, FailureIs, FailsWithout DEF Fit
<1>5. CASE r.conn = "none" /\ svc # "down" /\ o = Yes(Connected(r))
  <2>1. Fit(Connected(r)) BY <1>1, <1>5, ConnectedIs DEF Fit, Rest
  <2> QED BY <1>1, <1>5, <2>1, ConnectedIs, OutcomeIs DEF Connects, Calls, Rest
<1>6. CASE r.conn = "none" /\ r.busy # MaxBusy /\ o \in {No(PipeBusy(r)), No(RecordFailure(PipeBusy(r)))}
  <2>1. o = No(PipeBusy(r)) => Connects(r, o)
    BY <1>1, <1>6, BusyIs, FailsWithout DEF Fit
  <2>2. PipeBusy(r) \in Fields /\ Rest(r, PipeBusy(r)) /\ PipeBusy(r).conn = "none" /\ ~PipeBusy(r).est
    BY <1>1, <1>6, BusyIs DEF Fit
  <2>3. Rest(r, RecordFailure(PipeBusy(r))) BY <2>2, FailureIs DEF Rest, Steady
  <2> QED BY <1>6, <2>1, <2>2, <2>3, FailureIs, FailsWithout
<1> QED
  <2>1. CASE r.conn = "none" /\ r.breaker = "open"
    BY <1>3, <2>1 DEF Connect
  <2>2. CASE r.conn = "none" /\ r.breaker # "open" /\ svc = "down"
    BY <1>4, <2>2 DEF Connect
  <2>3. CASE r.conn = "none" /\ r.breaker # "open" /\ svc # "down"
    BY <1>5, <1>6, <2>3 DEF Connect
  <2> QED BY <1>2, <2>1, <2>2, <2>3

(* A message written to a live connection.                                 *)
LEMMA WroteIs ==
  ASSUME NEW x, Fit(x), x.conn = "live"
  PROVE  LET o == Yes(RecordSuccess([x EXCEPT !.written = TRUE])) IN
         /\ o \in Outcomes /\ o.ok /\ Fit(o.c) /\ Rest(x, o.c)
         /\ o.c.conn = "live" /\ o.c.needs = x.needs /\ o.c.est = x.est
<1> DEFINE z == [x EXCEPT !.written = TRUE]
<1>1. x \in Fields BY DEF Fit
<1>2. z \in Fields /\ Rest(x, z) /\ z.conn = "live" /\ z.needs = x.needs /\ z.est = x.est
  BY <1>1 DEF Fields, Rest, Steady
<1> HIDE DEF z
<1> DEFINE y == RecordSuccess(z)
<1>3. y \in Fields /\ Rest(z, y) /\ y.conn = "live" /\ y.needs = z.needs /\ y.est = z.est
      /\ y.breaker = "closed"
  BY <1>2, SuccessIs
<1> HIDE DEF y
<1>4. Rest(x, y) BY <1>2, <1>3 DEF Rest, Steady
<1>5. Fit(y) BY <1>2, <1>3, <1>4 DEF Fit, Rest
<1>6. RecordSuccess([x EXCEPT !.written = TRUE]) = y BY DEF y, z
<1> QED BY <1>2, <1>3, <1>4, <1>5, <1>6, OutcomeIs

LEMMA SendDoes ==
  ASSUME NEW r, Fit(r), NEW exempt \in BOOLEAN, NEW o \in Send(r, exempt)
  PROVE  Sends(r, o)
<1> DEFINE Wrote(x) == {Yes(RecordSuccess([x EXCEPT !.written = TRUE]))}
           Failed(x) == {No(x)}
           Write(x) ==
             CASE x.conn = "live" -> Wrote(x)
               [] x.conn = "stale" /\ x.written -> Then(Connect(Disconnect(x), exempt), Wrote, Failed)
               [] OTHER -> Failed(Disconnect(RecordFailure(x)))
<1>1. PICK q \in Connect(r, exempt) : o \in (IF q.ok THEN Write(q.c) ELSE Failed(q.c))
  BY DEF Send, Then
<1>2. Connects(r, q) BY <1>1, ConnectDoes
<1>3. r \in Fields /\ q.c \in Fields /\ Fit(q.c) BY <1>2 DEF Connects, Calls, Fit
<1>4. CASE ~q.ok
  <2>1. o = No(q.c) BY <1>1, <1>4
  <2> QED BY <1>2, <1>3, <1>4, <2>1, OutcomeIs DEF Connects, Calls, Sends, Reaches, Steady
<1>5. CASE q.ok /\ q.c.conn = "live"
  <2>1. o = Yes(RecordSuccess([q.c EXCEPT !.written = TRUE])) BY <1>1, <1>5
  <2>2. o \in Outcomes /\ o.ok /\ Fit(o.c) /\ Rest(q.c, o.c) /\ o.c.conn = "live"
        /\ o.c.needs = q.c.needs /\ o.c.est = q.c.est
    BY <1>3, <1>5, <2>1, WroteIs
  <2> QED BY <1>2, <1>5, <2>2 DEF Connects, Calls, Sends, Reaches, Rest, Steady
<1>6. CASE q.ok /\ q.c.conn # "live"
  <2>1. r.conn = "stale" /\ q.c = r BY <1>2, <1>6, <1>3 DEF Connects, Fields
  <2> DEFINE d == Disconnect(r)
  <2>2. Fit(d) /\ d.conn = "none" /\ Rest(r, d)
    BY <1>3, <2>1, DisconnectIs DEF Fit, Rest
  <2>3. ~r.known /\ (r.mode = "user" => "click" \in Faults) BY <2>1 DEF Fit
  <2> HIDE DEF d
  <2>4. CASE r.written
    <3>1. PICK p \in Connect(d, exempt) : o \in (IF p.ok THEN Wrote(p.c) ELSE Failed(p.c))
      BY <1>1, <1>6, <2>1, <2>4 DEF Then, d
    <3>2. Connects(d, p) BY <2>2, <3>1, ConnectDoes
    <3>3. p.c \in Fields /\ Fit(p.c) BY <3>2 DEF Connects, Calls, Fit
    <3>4. CASE ~p.ok
      <4>1. o = No(p.c) BY <3>1, <3>4
      <4> QED BY <2>1, <2>2, <2>3, <3>2, <3>3, <3>4, <4>1, OutcomeIs
              DEF Connects, Calls, Sends, Reaches, Rest, Steady
    <3>5. CASE p.ok
      <4>1. o = Yes(RecordSuccess([p.c EXCEPT !.written = TRUE])) BY <3>1, <3>5
      <4>2. p.c.conn = "live" BY <2>2, <3>2, <3>5 DEF Connects
      <4>3. o \in Outcomes /\ o.ok /\ Fit(o.c) /\ Rest(p.c, o.c) /\ o.c.conn = "live"
            /\ o.c.needs = p.c.needs /\ o.c.est = p.c.est
        BY <3>3, <4>1, <4>2, WroteIs
      <4> QED BY <2>1, <2>2, <3>2, <3>5, <4>3 DEF Connects, Calls, Sends, Reaches, Rest, Steady
    <3> QED BY <3>2, <3>4, <3>5 DEF Connects, Calls, Outcomes
  <2>5. CASE ~r.written
    <3> DEFINE f == Disconnect(RecordFailure(r))
    <3>1. o = No(f) BY <1>1, <1>6, <2>1, <2>5
    <3>2. f \in Fields /\ Rest(r, f) /\ f.conn = "none" /\ ~f.est
      BY <1>3, FailureIs, DisconnectIs DEF Rest, Steady
    <3> HIDE DEF f
    <3>3. Fit(f) BY <2>1, <2>3, <3>2 DEF Fit, Rest
    <3> QED BY <2>1, <2>3, <3>1, <3>2, <3>3, OutcomeIs DEF Calls, Sends, Reaches, Rest
  <2> QED BY <2>4, <2>5
<1> QED BY <1>2, <1>4, <1>5, <1>6 DEF Connects, Calls, Outcomes

LEMMA GuardedDoes ==
  ASSUME NEW r, Fit(r), NEW exempt \in BOOLEAN, NEW o \in Guarded(r, exempt)
  PROVE  Sends(r, o)
<1>1. CASE r.breaker = "open"
  <2>1. o = No(r) /\ r \in Fields /\ r.conn = "none" BY <1>1 DEF Guarded, Fit
  <2> QED BY <2>1, OutcomeIs DEF Sends, Reaches, Calls, Steady, Fit
<1>2. CASE r.breaker # "open" BY <1>2, SendDoes DEF Guarded
<1> QED BY <1>1, <1>2

(* IME_ACTIVATED and FOCUS_GAINED, and a key, mark the state as            *)
(* established when they are sent.                                         *)
Establishes(r, o) ==
  /\ Reaches(r, o)
  /\ o.ok => o.c.est
  /\ r.known => o.c.known
  /\ ~o.ok => o.c.known = r.known

LEMMA ActivatedDoes ==
  ASSUME NEW r, Fit(r), NEW exempt \in BOOLEAN, NEW o \in Activated(r, exempt)
  PROVE  /\ Establishes(r, o)
         /\ o.ok /\ svc = "ready" => o.c.known /\ o.c.mode = "initial"
         /\ o.c.mode \in {r.mode, "initial"}
<1>1. PICK q \in Guarded(r, exempt) :
        o = IF ~q.ok THEN q
            ELSE Yes([q.c EXCEPT !.est = TRUE, !.known = @ \/ svc = "ready",
                                 !.mode = IF svc = "ready" THEN "initial" ELSE @])
  BY DEF Activated
<1>2. Sends(r, q) BY <1>1, GuardedDoes
<1>3. CASE ~q.ok BY <1>1, <1>2, <1>3 DEF Establishes, Reaches, Sends, Calls
<1>4. CASE q.ok
  <2> DEFINE a == [q.c EXCEPT !.est = TRUE, !.known = @ \/ svc = "ready",
                              !.mode = IF svc = "ready" THEN "initial" ELSE @]
  <2>1. q.c \in Fields /\ q.c.conn = "live" /\ Fit(q.c) BY <1>2, <1>4 DEF Sends, Reaches, Calls, Fit
  <2>2. /\ a \in Fields /\ Steady(q.c, a) /\ a.recover = q.c.recover /\ a.conn = q.c.conn
        /\ a.needs = q.c.needs /\ a.est /\ a.breaker = q.c.breaker
        /\ a.known = (q.c.known \/ svc = "ready")
        /\ a.mode = IF svc = "ready" THEN "initial" ELSE q.c.mode
    BY <2>1 DEF Fields, Steady
  <2>3. o = Yes(a) BY <1>1, <1>4
  <2> HIDE DEF a
  <2>4. Fit(a) BY <2>1, <2>2 DEF Fit
  <2> QED BY <1>2, <1>4, <2>1, <2>2, <2>3, <2>4, OutcomeIs DEF Establishes, Reaches, Sends, Calls, Steady
<1> QED BY <1>3, <1>4, <1>2 DEF Sends, Reaches, Calls, Outcomes

LEMMA GainedDoes ==
  ASSUME NEW r, Fit(r), NEW o \in Gained(r)
  PROVE  /\ Establishes(r, o)
         /\ o.ok /\ svc = "ready" => o.c.known
         /\ o.c.mode = r.mode
<1>1. PICK q \in Guarded(r, FALSE) :
        o = IF ~q.ok THEN q ELSE Yes([q.c EXCEPT !.est = TRUE, !.known = @ \/ svc = "ready"])
  BY DEF Gained
<1>2. Sends(r, q) BY <1>1, GuardedDoes
<1>3. CASE ~q.ok BY <1>1, <1>2, <1>3 DEF Establishes, Reaches, Sends, Calls
<1>4. CASE q.ok
  <2> DEFINE a == [q.c EXCEPT !.est = TRUE, !.known = @ \/ svc = "ready"]
  <2>1. q.c \in Fields /\ q.c.conn = "live" /\ Fit(q.c) BY <1>2, <1>4 DEF Sends, Reaches, Calls, Fit
  <2>2. /\ a \in Fields /\ Steady(q.c, a) /\ a.recover = q.c.recover /\ a.conn = q.c.conn
        /\ a.needs = q.c.needs /\ a.est /\ a.breaker = q.c.breaker
        /\ a.known = (q.c.known \/ svc = "ready") /\ a.mode = q.c.mode
    BY <2>1 DEF Fields, Steady
  <2>3. o = Yes(a) BY <1>1, <1>4
  <2> HIDE DEF a
  <2>4. Fit(a) BY <2>1, <2>2 DEF Fit
  <2> QED BY <1>2, <1>4, <2>1, <2>2, <2>3, <2>4, OutcomeIs DEF Establishes, Reaches, Sends, Calls, Steady
<1> QED BY <1>3, <1>4, <1>2 DEF Sends, Reaches, Calls, Outcomes

Recovers(r, y) ==
  /\ Fit(y) /\ Steady(r, y) /\ y.mode = r.mode
  /\ r.known => y.known
  /\ r.conn = "none" \/ ~r.recover => y = r
  /\ r.conn = "live" => /\ y.conn = "live" /\ ~y.recover
                        /\ r.est => y.est
                        /\ y.needs => r.needs
                        /\ r.recover /\ svc = "ready" => y.known

LEMMA TryRecoverDoes ==
  ASSUME NEW r, Fit(r), NEW y \in TryRecover(r)
  PROVE  Recovers(r, y)
<1>1. CASE ~r.recover \/ r.conn = "none"
  <2>1. y = r BY <1>1 DEF TryRecover
  <2> QED BY <1>1, <2>1 DEF Recovers, Steady
<1>2. CASE r.recover /\ r.conn # "none"
  <2>1. PICK o \in Gained(r) : y = [o.c EXCEPT !.recover = FALSE, !.needs = @ /\ ~o.ok]
    BY <1>2 DEF TryRecover
  <2>2. Establishes(r, o) /\ (o.ok /\ svc = "ready" => o.c.known) /\ o.c.mode = r.mode
    BY <2>1, GainedDoes
  <2>3. o.c \in Fields /\ o.ok \in BOOLEAN BY <2>2 DEF Establishes, Reaches, Calls, Outcomes
  <2>4. /\ y \in Fields /\ Steady(o.c, y) /\ ~y.recover /\ y.conn = o.c.conn
        /\ y.needs = (o.c.needs /\ ~o.ok) /\ y.est = o.c.est /\ y.breaker = o.c.breaker
        /\ y.known = o.c.known /\ y.mode = o.c.mode
    BY <2>1, <2>3 DEF Fields, Steady
  <2>5. Fit(y) BY <2>2, <2>4 DEF Fit, Establishes, Reaches, Calls
  <2> QED BY <1>2, <2>2, <2>4, <2>5 DEF Recovers, Establishes, Reaches, Calls, Steady
<1> QED BY <1>1, <1>2

Syncs(r, o) ==
  /\ o \in Outcomes /\ Fit(o.c) /\ Steady(r, o.c)
  /\ o.c.mode \in {r.mode, "initial"}
  /\ r.known => o.c.known
  /\ r.conn = "live" => o.ok
  /\ o.ok => o.c.conn = "live" /\ o.c.est /\ ~o.c.needs /\ (svc = "ready" => o.c.known)
  /\ ~o.ok => o.c.conn = "none" /\ o.c.recover = r.recover

LEMMA FullSyncDoes ==
  ASSUME NEW r, Fit(r), NEW exempt \in BOOLEAN, NEW o \in FullSync(r, exempt)
  PROVE  Syncs(r, o)
<1> DEFINE Again(x) == Then(Connect(x, exempt), LAMBDA y : Activated(y, exempt), LAMBDA y : {No(y)})
           Told(x) == Then(Activated(x, exempt), LAMBDA y : {Yes(y)}, Again)
           Finish(p) == {[ok |-> p.ok, c |-> y] : y \in TryRecover([p.c EXCEPT !.needs = FALSE])}
<1>1. PICK q \in Connect(r, exempt) :
        o \in (IF q.ok THEN UNION {Finish(p) : p \in Told(q.c)} ELSE {No(q.c)})
  BY DEF FullSync, Then
<1>2. Connects(r, q) BY <1>1, ConnectDoes
<1>3. r \in Fields /\ q.c \in Fields /\ Fit(q.c) /\ q.ok \in BOOLEAN
  BY <1>2 DEF Connects, Calls, Fit, Outcomes
<1>4. CASE ~q.ok
  <2>1. o = No(q.c) BY <1>1, <1>4
  <2> QED BY <1>2, <1>3, <1>4, <2>1, OutcomeIs DEF Connects, Calls, Syncs, Steady
<1>5. CASE q.ok
  <2>1. PICK p \in Told(q.c) : o \in Finish(p) BY <1>1, <1>5
  (* What has been sent before the flag is cleared.                        *)
  <2>2. /\ p \in Outcomes /\ Fit(p.c) /\ Steady(q.c, p.c) /\ p.c.recover = q.c.recover
        /\ p.c.mode \in {q.c.mode, "initial"} /\ (q.c.known => p.c.known)
        /\ (q.c.conn = "live" => p.ok)
        /\ (p.ok => p.c.conn = "live" /\ p.c.est /\ (svc = "ready" => p.c.known))
        /\ (~p.ok => p.c.conn = "none")
    <3>1. PICK a \in Activated(q.c, exempt) : p \in (IF a.ok THEN {Yes(a.c)} ELSE Again(a.c))
      BY <2>1 DEF Then
    <3>2. /\ Establishes(q.c, a) /\ (a.ok /\ svc = "ready" => a.c.known)
          /\ a.c.mode \in {q.c.mode, "initial"}
      BY <1>3, <3>1, ActivatedDoes
    <3>3. a.c \in Fields /\ Fit(a.c) /\ a.ok \in BOOLEAN BY <3>2 DEF Establishes, Reaches, Calls, Outcomes
    <3>4. CASE a.ok
      <4>1. p = Yes(a.c) BY <3>1, <3>4
      <4> QED BY <3>2, <3>3, <3>4, <4>1, OutcomeIs DEF Establishes, Reaches, Calls
    <3>5. CASE ~a.ok
      <4>1. PICK b \in Connect(a.c, exempt) : p \in (IF b.ok THEN Activated(b.c, exempt) ELSE {No(b.c)})
        BY <3>1, <3>5 DEF Then
      <4>2. Connects(a.c, b) BY <3>3, <4>1, ConnectDoes
      <4>3. b.c \in Fields /\ Fit(b.c) /\ b.ok \in BOOLEAN BY <4>2 DEF Connects, Calls, Fit, Outcomes
      <4>4. a.c.conn = "none" /\ q.c.conn # "live" BY <3>2, <3>5 DEF Establishes, Reaches, Calls
      <4>5. CASE ~b.ok
        <5>1. p = No(b.c) BY <4>1, <4>5
        <5> QED BY <3>2, <4>2, <4>3, <4>4, <4>5, <5>1, OutcomeIs
             DEF Establishes, Reaches, Connects, Calls, Steady
      <4>6. CASE b.ok
        <5>1. /\ Establishes(b.c, p) /\ (p.ok /\ svc = "ready" => p.c.known)
              /\ p.c.mode \in {b.c.mode, "initial"}
          BY <4>1, <4>3, <4>6, ActivatedDoes
        <5> QED BY <3>2, <4>2, <4>4, <5>1 DEF Establishes, Reaches, Connects, Calls, Steady
      <4> QED BY <4>3, <4>5, <4>6
    <3> QED BY <3>3, <3>4, <3>5
  <2> DEFINE e == [p.c EXCEPT !.needs = FALSE]
  <2>3. p.c \in Fields BY <2>2 DEF Fit
  <2>4. /\ e \in Fields /\ Rest(p.c, e) /\ e.conn = p.c.conn /\ e.est = p.c.est
        /\ ~e.needs /\ e.breaker = p.c.breaker
    BY <2>3 DEF Fields, Rest, Steady
  <2>5. PICK y \in TryRecover(e) : o = [ok |-> p.ok, c |-> y] BY <2>1
  <2> HIDE DEF e
  <2>6. Fit(e) BY <2>2, <2>4 DEF Fit, Rest
  <2>7. Recovers(e, y) BY <2>5, <2>6, TryRecoverDoes
  <2>8. o \in Outcomes /\ o.ok = p.ok /\ o.c = y BY <2>2, <2>5, <2>7 DEF Outcomes, Recovers, Fit
  <2>9. /\ Steady(r, q.c) /\ q.c.recover = r.recover /\ q.c.mode = r.mode /\ q.c.known = r.known
        /\ (r.conn = "live" => q.c.conn = "live")
    BY <1>2 DEF Connects, Calls
  <2>10. Fit(o.c) /\ Steady(r, o.c)
    BY <2>2, <2>4, <2>7, <2>8, <2>9 DEF Recovers, Rest, Steady
  <2>11. o.c.mode \in {r.mode, "initial"} /\ (r.known => o.c.known)
    BY <2>2, <2>4, <2>7, <2>8, <2>9 DEF Recovers, Rest
  <2>12. p.ok => o.c.conn = "live" /\ o.c.est /\ ~o.c.needs /\ (svc = "ready" => o.c.known)
    BY <2>2, <2>4, <2>7, <2>8 DEF Recovers, Rest
  <2>13. ~p.ok => o.c.conn = "none" /\ o.c.recover = r.recover
    BY <2>2, <2>4, <2>7, <2>8, <2>9 DEF Recovers, Rest
  <2> QED BY <2>2, <2>8, <2>9, <2>10, <2>11, <2>12, <2>13 DEF Syncs
<1> QED BY <1>3, <1>4, <1>5

LEMMA CancelIs ==
  ASSUME NEW r, Fit(r)
  PROVE  LET x == Cancel(r) IN
         /\ Fit(x) /\ Timers(x) /\ x.failR = 0 /\ ~x.timerR
         /\ x.conn = r.conn /\ x.needs = r.needs /\ x.est = r.est
         /\ x.known = r.known /\ x.mode = r.mode /\ x.recover = r.recover
<1>1. r \in Fields /\ 0 \in 0..MaxRetries BY ReadyAssumption DEF Fit
<1> DEFINE x == Cancel(r)
<1>2. /\ x \in Fields /\ x.failR = 0 /\ x.failF = 0 /\ ~x.timerR /\ ~x.timerF
      /\ x.conn = r.conn /\ x.needs = r.needs /\ x.est = r.est /\ x.breaker = r.breaker
      /\ x.known = r.known /\ x.mode = r.mode /\ x.recover = r.recover
  BY <1>1 DEF Cancel, Fields
<1> HIDE DEF x
<1>3. Fit(x) /\ Timers(x) BY <1>2 DEF Fit, Timers
<1> QED BY <1>2, <1>3 DEF x

--------------------------------------------------------------------------------
(* The retries.                                                            *)

Waits(r) == r.timerR /\ r.failR = 0

(* While no SERVICE_READY is under way to the thread: the fields r of a    *)
(* DLL with input focus f, thread focus t and a composition or not (k) say *)
(* that the service knows the host, or that something still owes it.       *)
Told(r, f, t, k) ==
  /\ r.conn # "stale"
  /\ f /\ t /\ r.conn = "live" /\ ~r.needs /\ ~r.recover => r.known \/ Waits(r)
  /\ f /\ k => r.known \/ r.recover \/ Waits(r)
  /\ r.failR > 0 /\ k => r.known

LEMMA TimerSet ==
  ASSUME NEW r \in Fields, NEW b \in BOOLEAN
  PROVE  LET x == [r EXCEPT !.timerR = b] IN
         /\ x \in Fields /\ x.timerR = b /\ x.failR = r.failR
         /\ x.failF = r.failF /\ x.timerF = r.timerF /\ (Fit(r) => Fit(x))
         /\ x.conn = r.conn /\ x.needs = r.needs /\ x.est = r.est /\ x.recover = r.recover
         /\ x.known = r.known /\ x.mode = r.mode
BY DEF Fields, Fit

LEMMA CountSet ==
  ASSUME NEW r \in Fields, NEW n \in 0..MaxRetries
  PROVE  LET x == [r EXCEPT !.failR = n] IN
         /\ x \in Fields /\ x.failR = n /\ x.timerR = r.timerR
         /\ x.failF = r.failF /\ x.timerF = r.timerF /\ (Fit(r) => Fit(x))
         /\ x.conn = r.conn /\ x.needs = r.needs /\ x.est = r.est /\ x.recover = r.recover
         /\ x.known = r.known /\ x.mode = r.mode
BY DEF Fields, Fit

LEMMA DecideIs ==
  ASSUME NEW r
  PROVE  LET d == Decide(r) IN
         /\ d \in {"no_focus", "synced", "background", "defer", "sync"}
         /\ d = "sync" => focus /\ ~comp /\ (r.failR > 0 => front /\ ~(r.conn # "none" /\ r.est))
         /\ d = "defer" => focus /\ comp
         /\ d = "no_focus" => ~focus
         /\ d = "synced" => r.failR > 0
         /\ d = "background" => r.failR > 0 /\ ~front
BY DEF Decide

LEMMA SyncedDoes ==
  ASSUME NEW r, Fit(r), Timers(r), NEW o \in FullSync([r EXCEPT !.timerR = FALSE], TRUE)
  PROVE  LET y == Synced(o) IN
         /\ Fit(y) /\ Timers(y) /\ y.mode \in {r.mode, "initial"}
         /\ ~comp => (r.conn # "stale" /\ svc = "ready" => Told(y, focus, front, comp))
<1> DEFINE stop == [r EXCEPT !.timerR = FALSE]
<1>0. r \in Fields /\ 0 \in 0..MaxRetries /\ MaxRetries \in Nat \ {0} BY ReadyAssumption DEF Fit
<1>1. /\ Fit(stop) /\ stop.failF = r.failF /\ stop.timerF = r.timerF /\ ~stop.timerR
      /\ stop.conn = r.conn /\ stop.mode = r.mode
  BY <1>0, TimerSet
<1>2. Syncs(stop, o) BY <1>1, FullSyncDoes
<1> HIDE DEF stop
<1>3. o.c \in Fields /\ Fit(o.c) /\ o.ok \in BOOLEAN BY <1>2 DEF Syncs, Fit, Outcomes
<1>4. CASE o.ok
  <2> DEFINE y == [o.c EXCEPT !.failR = 0]
  <2>1. Synced(o) = y BY <1>4 DEF Synced
  <2>2. /\ Fit(y) /\ y.failR = 0 /\ y.failF = o.c.failF /\ y.timerF = o.c.timerF
        /\ y.mode = o.c.mode /\ y.known = o.c.known /\ y.conn = o.c.conn
    BY <1>0, <1>3, CountSet
  <2> HIDE DEF y
  <2>3. Timers(y) BY <1>1, <1>2, <2>2 DEF Timers, Syncs, Steady
  <2>4. y.mode \in {r.mode, "initial"} BY <1>1, <1>2, <2>2 DEF Syncs
  <2>5. svc = "ready" => Told(y, focus, front, comp) BY <1>2, <1>4, <2>2 DEF Syncs, Told
  <2> QED BY <2>1, <2>2, <2>3, <2>4, <2>5
<1>5. CASE ~o.ok
  <2> DEFINE n == o.c.failR + 1
             y == [o.c EXCEPT !.failR = IF ShouldRetry(n) THEN n ELSE 0, !.timerR = ShouldRetry(n)]
             m == IF ShouldRetry(n) THEN n ELSE 0
             b == ShouldRetry(n)
  <2>1. Synced(o) = y BY <1>5 DEF Synced
  <2>2. m \in 0..MaxRetries /\ b \in BOOLEAN /\ (m > 0 => b)
    BY <1>0, <1>3 DEF ShouldRetry, Fields
  <2>8. y = [o.c EXCEPT !.failR = m, !.timerR = b] OBVIOUS
  <2> HIDE DEF y, m, b, n
  <2>3. /\ y \in Fields /\ (y.failR > 0 => y.timerR) /\ y.failF = o.c.failF /\ y.timerF = o.c.timerF
        /\ y.mode = o.c.mode /\ y.known = o.c.known /\ y.conn = o.c.conn /\ y.est = o.c.est
        /\ y.breaker = o.c.breaker
    BY <1>3, <2>2, <2>8 DEF Fields
  <2>4. Fit(y) BY <1>3, <2>3 DEF Fit
  <2>5. Timers(y) BY <1>1, <1>2, <2>3 DEF Timers, Syncs, Steady
  <2>6. y.mode \in {r.mode, "initial"} BY <1>1, <1>2, <2>3 DEF Syncs
  <2>7. ~comp => Told(y, focus, front, comp) BY <1>2, <1>5, <2>3 DEF Syncs, Told
  <2> QED BY <2>1, <2>4, <2>5, <2>6, <2>7
<1> QED BY <1>3, <1>4, <1>5

LEMMA ReadySyncDoes ==
  ASSUME NEW r, Fit(r), Timers(r), NEW y \in RunReadySync(r)
  PROVE  /\ Fit(y) /\ Timers(y)
         /\ r.failR > 0 /\ "click" \notin Faults => y.mode = r.mode
         /\ /\ svc = "ready" /\ r.conn # "stale" /\ (comp => front)
            /\ r.failR = 0 \/ Told(r, focus, front, comp)
            => Told(y, focus, front, comp)
<1> DEFINE stop == [r EXCEPT !.timerR = FALSE]
<1>0. r \in Fields /\ 0 \in 0..MaxRetries /\ MaxRetries \in Nat \ {0} BY ReadyAssumption DEF Fit
<1>00. r.failR \in 0..MaxRetries /\ r.mode \in {"initial", "user"} BY <1>0 DEF Fields
<1>1. CASE Decide(r) = "sync"
  <2>1. PICK o \in FullSync(stop, TRUE) : y = Synced(o) BY <1>1 DEF RunReadySync
  <2>2. focus /\ ~comp /\ (r.failR > 0 => front /\ ~(r.conn # "none" /\ r.est)) BY <1>1, DecideIs
  <2>3. /\ Fit(y) /\ Timers(y) /\ y.mode \in {r.mode, "initial"}
        /\ r.conn # "stale" /\ svc = "ready" => Told(y, focus, front, comp)
    BY <2>1, <2>2, SyncedDoes
  <2>4. r.failR > 0 /\ "click" \notin Faults => r.mode = "initial" BY <1>00, <2>2 DEF Fit
  <2> QED BY <2>3, <2>4
<1>2. CASE Decide(r) = "defer"
  <2> DEFINE x == [stop EXCEPT !.timerR = TRUE]
  <2>1. y = x BY <1>2 DEF RunReadySync
  <2>2. /\ Fit(x) /\ x.failR = r.failR /\ x.timerR /\ x.failF = r.failF /\ x.timerF = r.timerF
        /\ x.conn = r.conn /\ x.needs = r.needs /\ x.recover = r.recover /\ x.known = r.known
        /\ x.mode = r.mode
    <3>1. /\ stop \in Fields /\ Fit(stop) /\ stop.failR = r.failR /\ stop.failF = r.failF /\ stop.timerF = r.timerF
          /\ stop.conn = r.conn /\ stop.needs = r.needs /\ stop.recover = r.recover /\ stop.known = r.known
          /\ stop.mode = r.mode
      BY <1>0, TimerSet
    <3> HIDE DEF stop
    <3> QED BY <1>0, <3>1, TimerSet
  <2> HIDE DEF x
  <2> QED BY <1>00, <2>1, <2>2 DEF Told, Waits, Timers
<1>3. CASE Decide(r) \in {"no_focus", "synced", "background"}
  <2> DEFINE x == [stop EXCEPT !.failR = 0]
  <2>1. y = x BY <1>3 DEF RunReadySync
  <2>2. /\ Fit(x) /\ x.failR = 0 /\ x.failF = r.failF /\ x.timerF = r.timerF
        /\ x.conn = r.conn /\ x.needs = r.needs /\ x.recover = r.recover /\ x.known = r.known
        /\ x.mode = r.mode
    <3>1. /\ stop \in Fields /\ Fit(stop) /\ stop.failF = r.failF /\ stop.timerF = r.timerF
          /\ stop.conn = r.conn /\ stop.needs = r.needs /\ stop.recover = r.recover /\ stop.known = r.known
          /\ stop.mode = r.mode
      BY <1>0, TimerSet
    <3> HIDE DEF stop
    <3> QED BY <1>0, <3>1, CountSet
  <2> HIDE DEF x
  <2>3. ~focus \/ r.failR > 0 BY <1>3, DecideIs
  <2> QED BY <1>00, <2>1, <2>2, <2>3 DEF Told, Waits, Timers
<1> QED BY <1>1, <1>2, <1>3, DecideIs

LEMMA FlagsSet ==
  ASSUME NEW r \in Fields, NEW a \in BOOLEAN, NEW b \in BOOLEAN
  PROVE  LET x == [r EXCEPT !.recover = a, !.needs = b] IN
         /\ x \in Fields /\ Steady(r, x) /\ x.recover = a /\ x.needs = b /\ (Fit(r) => Fit(x))
         /\ x.conn = r.conn /\ x.est = r.est /\ x.known = r.known /\ x.mode = r.mode
BY DEF Fields, Fit, Steady

LEMMA RecoverSet ==
  ASSUME NEW r \in Fields, NEW a \in BOOLEAN
  PROVE  LET x == [r EXCEPT !.recover = a] IN
         /\ x \in Fields /\ Steady(r, x) /\ x.recover = a /\ x.needs = r.needs /\ (Fit(r) => Fit(x))
         /\ x.conn = r.conn /\ x.est = r.est /\ x.known = r.known /\ x.mode = r.mode
BY DEF Fields, Fit, Steady

(* What is told stays told when nothing it speaks of changes.              *)
LEMMA ToldSame ==
  ASSUME NEW r, NEW x, NEW f, NEW t, NEW k, NEW l, Told(r, f, t, k), l => k,
         x.conn # "stale", x.known = r.known, x.recover = r.recover,
         x.failR = r.failR, x.timerR = r.timerR,
         x.conn = "live" => (r.conn = "live" /\ x.needs = r.needs) \/ x.needs
  PROVE  Told(x, f, t, l)
BY DEF Told, Waits

(* A call that failed, or one that left a live connection as it was.       *)
LEMMA CallTold ==
  ASSUME NEW r, NEW o, NEW f, NEW t, NEW k, NEW l, Fit(r), Told(r, f, t, k), l => k, Calls(r, o),
         o.c.known = r.known, o.ok => o.c.conn = "live" /\ (r.conn # "live" => o.c.needs)
  PROVE  Told(o.c, f, t, l)
<1>1. o.c.conn # "stale" /\ o.ok \in BOOLEAN BY DEF Calls, Outcomes
<1>2. o.c.conn = "live" => (r.conn = "live" /\ o.c.needs = r.needs) \/ o.c.needs
  BY <1>1 DEF Calls
<1> QED BY <1>1, <1>2, ToldSame DEF Calls, Steady

LEMMA FocusRecoveryDoes ==
  ASSUME NEW r, Fit(r), ~r.timerF, r.failR > 0 => r.timerR, NEW o \in FocusRecovery(r)
  PROVE  /\ o \in Outcomes /\ Fit(o.c) /\ ~o.c.timerF /\ (o.c.failR > 0 => o.c.timerR)
         /\ svc = "ready" /\ (comp => front) /\ Told(r, focus, front, comp) => Told(o.c, focus, front, comp)
<1>0. r \in Fields BY DEF Fit
<1>1. CASE o = Yes(r) BY <1>0, <1>1, OutcomeIs
<1>2. CASE ~(focus /\ front) /\ o = Yes([r EXCEPT !.recover = FALSE])
  <2> DEFINE x == [r EXCEPT !.recover = FALSE]
  <2>1. /\ x \in Fields /\ Fit(x) /\ Steady(r, x) /\ x.conn = r.conn /\ x.known = r.known
    BY <1>0, RecoverSet
  <2> HIDE DEF x
  <2>2. Told(r, focus, front, comp) /\ (comp => front) => Told(x, focus, front, comp)
    BY <1>2, <2>1 DEF Told, Waits, Steady
  <2> QED BY <1>2, <2>1, <2>2, OutcomeIs DEF Steady, x
<1>3. ASSUME NEW q \in Connect(r, FALSE), ~q.ok, o = No(q.c) PROVE o \in Outcomes /\ Calls(r, o) /\ ~o.ok /\ o.c.known = r.known
  <2>1. Connects(r, q) BY <1>3, ConnectDoes
  <2>2. q.c \in Fields BY <2>1 DEF Connects, Calls, Fit
  <2> QED BY <1>3, <2>1, <2>2, OutcomeIs DEF Connects, Calls
<1>4. ASSUME NEW q \in Connect(r, FALSE), q.ok, NEW p \in Gained(q.c)
      PROVE  Connects(r, q) /\ Fit(q.c) /\ Establishes(q.c, p) /\ (p.ok /\ svc = "ready" => p.c.known) /\ p.c \in Fields
  <2>1. Connects(r, q) BY <1>4, ConnectDoes
  <2>2. Fit(q.c) BY <2>1 DEF Connects, Calls
  <2>3. Establishes(q.c, p) /\ (p.ok /\ svc = "ready" => p.c.known) BY <1>4, <2>2, GainedDoes
  <2> QED BY <2>1, <2>2, <2>3 DEF Establishes, Reaches, Calls, Fit
<1>5. CASE \E q \in Connect(r, FALSE) : ~q.ok /\ o = No(q.c)
  <2>1. PICK q \in Connect(r, FALSE) : ~q.ok /\ o = No(q.c) BY <1>5
  <2>2. o \in Outcomes /\ Calls(r, o) /\ ~o.ok /\ o.c.known = r.known BY <1>3, <2>1
  <2>3. Told(r, focus, front, comp) => Told(o.c, focus, front, comp) BY <2>2, CallTold
  <2> QED BY <2>2, <2>3 DEF Calls, Steady
<1>6. CASE \E q \in Connect(r, FALSE) : q.ok /\ \E p \in Gained(q.c) : ~p.ok /\ o = No(p.c)
  <2>1. PICK q \in Connect(r, FALSE) : q.ok /\ \E p \in Gained(q.c) : ~p.ok /\ o = No(p.c) BY <1>6
  <2>2. PICK p \in Gained(q.c) : ~p.ok /\ o = No(p.c) BY <2>1
  <2>3. Connects(r, q) /\ Fit(q.c) /\ Establishes(q.c, p) /\ p.c \in Fields BY <1>4, <2>1, <2>2
  <2>4. o.c = p.c /\ o.ok = FALSE /\ o \in Outcomes BY <2>2, <2>3, OutcomeIs
  <2>5. Calls(r, o) /\ o.c.known = r.known
    BY <2>1, <2>2, <2>3, <2>4 DEF Connects, Establishes, Reaches, Calls, Steady
  <2>6. Told(r, focus, front, comp) => Told(o.c, focus, front, comp) BY <2>4, <2>5, CallTold
  <2> QED BY <2>4, <2>5, <2>6 DEF Calls, Steady
<1>7. CASE \E q \in Connect(r, FALSE) : q.ok /\ \E p \in Gained(q.c) :
             p.ok /\ o = Yes(Cancel([p.c EXCEPT !.recover = FALSE, !.needs = FALSE]))
  <2>1. PICK q \in Connect(r, FALSE) : q.ok /\ \E p \in Gained(q.c) :
             p.ok /\ o = Yes(Cancel([p.c EXCEPT !.recover = FALSE, !.needs = FALSE])) BY <1>7
  <2>2. PICK p \in Gained(q.c) : p.ok /\ o = Yes(Cancel([p.c EXCEPT !.recover = FALSE, !.needs = FALSE]))
    BY <2>1
  <2>3. Establishes(q.c, p) /\ (svc = "ready" => p.c.known) /\ p.c \in Fields BY <1>4, <2>1, <2>2
  <2> DEFINE z == [p.c EXCEPT !.recover = FALSE, !.needs = FALSE]
             x == Cancel(z)
  <2>4. Fit(z) /\ z.known = p.c.known /\ z.conn = p.c.conn
    BY <2>3, FlagsSet DEF Establishes, Reaches, Calls
  <2> HIDE DEF z
  <2>5. Fit(x) /\ Timers(x) /\ x.failR = 0 /\ x.known = z.known /\ x.conn = z.conn /\ x.failF = 0 /\ ~x.timerF
    <3>1. x.failF = 0 /\ ~x.timerF BY <2>4, ReadyAssumption DEF Cancel, Fit, Fields
    <3> QED BY <2>4, <3>1, CancelIs
  <2>6. o = Yes(x) BY <2>2 DEF z
  <2> HIDE DEF x
  <2>7. svc = "ready" => Told(x, focus, front, comp)
    BY <2>2, <2>3, <2>4, <2>5 DEF Told, Establishes, Reaches
  <2>8. x \in Fields BY <2>5 DEF Fit
  <2>9. o \in Outcomes /\ o.c = x BY <2>6, <2>8, OutcomeIs
  <2> QED BY <2>5, <2>7, <2>9
<1>8. CASE ~r.recover BY <1>1, <1>8 DEF FocusRecovery
<1>9. CASE r.recover /\ ~(focus /\ front) BY <1>2, <1>9 DEF FocusRecovery
<1>10. CASE r.recover /\ focus /\ front
  <2>1. CASE r.conn # "none" /\ r.est BY <1>1, <1>10, <2>1 DEF FocusRecovery
  <2>2. CASE ~(r.conn # "none" /\ r.est)
    <3>1. PICK q \in Connect(r, FALSE) :
            o \in (IF q.ok
                  THEN UNION {IF p.ok THEN {Yes(Cancel([p.c EXCEPT !.recover = FALSE, !.needs = FALSE]))}
                              ELSE {No(p.c)} : p \in Gained(q.c)}
                  ELSE {No(q.c)})
      BY <1>10, <2>2 DEF FocusRecovery, Then
    <3>2. CASE ~q.ok BY <1>5, <3>1, <3>2
    <3>3. CASE q.ok
      <4>1. PICK p \in Gained(q.c) :
              o \in (IF p.ok THEN {Yes(Cancel([p.c EXCEPT !.recover = FALSE, !.needs = FALSE]))} ELSE {No(p.c)})
        BY <3>1, <3>3
      <4>2. CASE p.ok BY <1>7, <3>3, <4>1, <4>2
      <4>3. CASE ~p.ok BY <1>6, <3>3, <4>1, <4>3
      <4> QED BY <4>2, <4>3
    <3> QED BY <3>2, <3>3
  <2> QED BY <2>1, <2>2
<1> QED BY <1>8, <1>9, <1>10

LEMMA FocusEnds ==
  ASSUME NEW x, Fit(x), x.failR > 0 => x.timerR, NEW y, y = [x EXCEPT !.failF = 0, !.timerF = FALSE]
  PROVE  Fit(y) /\ Timers(y) /\ \A f, t, k : Told(x, f, t, k) => Told(y, f, t, k)
<1>1. x \in Fields /\ 0 \in 0..MaxRetries BY ReadyAssumption DEF Fit
<1>2. /\ y \in Fields /\ y.failF = 0 /\ y.timerF = FALSE /\ y.failR = x.failR /\ y.timerR = x.timerR
      /\ y.recover = x.recover /\ y.needs = x.needs /\ y.breaker = x.breaker
      /\ y.conn = x.conn /\ y.est = x.est /\ y.known = x.known /\ y.mode = x.mode
  BY <1>1 DEF Fields
<1> QED BY <1>1, <1>2 DEF Fit, Timers, Told, Waits

LEMMA FocusWaits ==
  ASSUME NEW x, Fit(x), x.failR > 0 => x.timerR, NEW y \in Fields, y.failF > 0, y.timerF,
         y.failR = x.failR, y.timerR = x.timerR, y.recover = x.recover, y.needs = x.needs,
         y.breaker = x.breaker, y.conn = x.conn, y.est = x.est, y.known = x.known, y.mode = x.mode
  PROVE  Fit(y) /\ Timers(y) /\ \A f, t, k : Told(x, f, t, k) => Told(y, f, t, k)
BY DEF Fit, Timers, Told, Waits

LEMMA FocusTimerDoes ==
  ASSUME NEW r, Fit(r), Timers(r), NEW y \in RunFocusRecovery(r)
  PROVE  /\ Fit(y) /\ Timers(y)
         /\ svc = "ready" /\ (comp => front) /\ Told(r, focus, front, comp) => Told(y, focus, front, comp)
<1>0. r \in Fields /\ 0 \in 0..MaxRetries /\ MaxRetries \in Nat \ {0} BY ReadyAssumption DEF Fit
<1> DEFINE stop == [r EXCEPT !.timerF = FALSE]
<1>1. /\ stop \in Fields /\ ~stop.timerF /\ stop.failR = r.failR /\ stop.timerR = r.timerR
      /\ stop.recover = r.recover /\ stop.needs = r.needs /\ stop.conn = r.conn /\ stop.est = r.est
      /\ stop.known = r.known /\ stop.mode = r.mode /\ stop.breaker = r.breaker
  BY <1>0 DEF Fields
<1>2. PICK o \in FocusRecovery(stop) :
        y = IF o.ok THEN [o.c EXCEPT !.failF = 0]
            ELSE [o.c EXCEPT !.failF = IF ShouldRetry(o.c.failF + 1) THEN o.c.failF + 1 ELSE 0,
                             !.timerF = ShouldRetry(o.c.failF + 1)]
  BY DEF RunFocusRecovery
<1> HIDE DEF stop
<1>3. Fit(stop) BY <1>1 DEF Fit
<1>4. Told(r, focus, front, comp) => Told(stop, focus, front, comp) BY <1>1 DEF Told, Waits
<1>5. /\ o \in Outcomes /\ Fit(o.c) /\ ~o.c.timerF /\ (o.c.failR > 0 => o.c.timerR)
      /\ svc = "ready" /\ (comp => front) /\ Told(r, focus, front, comp) => Told(o.c, focus, front, comp)
  BY <1>1, <1>2, <1>3, <1>4, FocusRecoveryDoes DEF Timers
<1>6. o.c \in Fields /\ o.c.failF \in 0..MaxRetries /\ o.c.timerF = FALSE /\ o.ok \in BOOLEAN
  BY <1>5 DEF Fit, Fields, Outcomes
<1>7. CASE o.ok
  <2>1. y = [o.c EXCEPT !.failF = 0, !.timerF = FALSE] BY <1>2, <1>6, <1>7 DEF Fields
  <2> QED BY <1>0, <1>5, <2>1, FocusEnds
<1>8. CASE ~o.ok /\ ShouldRetry(o.c.failF + 1)
  <2>1. PICK n \in 1..MaxRetries : n = o.c.failF + 1 BY <1>8 DEF ShouldRetry
  <2>2. ShouldRetry(n) = TRUE BY <1>8, <2>1
  <2>3. y = [o.c EXCEPT !.failF = n, !.timerF = TRUE] BY <1>2, <1>8, <2>1, <2>2
  <2>4. n \in 0..MaxRetries /\ n > 0 BY <1>0
  <2>5. /\ y \in Fields /\ y.failF > 0 /\ y.timerF /\ y.failR = o.c.failR /\ y.timerR = o.c.timerR
        /\ y.recover = o.c.recover /\ y.needs = o.c.needs /\ y.breaker = o.c.breaker
        /\ y.conn = o.c.conn /\ y.est = o.c.est /\ y.known = o.c.known /\ y.mode = o.c.mode
    BY <1>6, <2>3, <2>4 DEF Fields
  <2> QED BY <1>5, <2>5, FocusWaits
<1>9. CASE ~o.ok /\ ~ShouldRetry(o.c.failF + 1)
  <2>1. ShouldRetry(o.c.failF + 1) = FALSE BY <1>9 DEF ShouldRetry
  <2>2. y = [o.c EXCEPT !.failF = 0, !.timerF = FALSE] BY <1>2, <1>9, <2>1
  <2> QED BY <1>5, <2>2, FocusEnds
<1> QED BY <1>6, <1>7, <1>8, <1>9


--------------------------------------------------------------------------------
(* Requests whose outcome nobody asks for.                                 *)

Moves(r, y) ==
  /\ Fit(y) /\ Steady(r, y) /\ y.recover = r.recover /\ y.known = r.known /\ y.mode = r.mode
  /\ r.conn = "live" => y.conn = "live" /\ y.needs = r.needs /\ y.est = r.est
  /\ r.conn # "live" /\ y.conn = "live" => y.needs
  /\ y.conn = "stale" => r.conn = "stale"

LEMMA SendMoves ==
  ASSUME NEW r, NEW o, Sends(r, o)
  PROVE  Moves(r, o.c)
BY DEF Sends, Reaches, Calls, Moves, Outcomes

LEMMA StaysMoves ==
  ASSUME NEW r, Fit(r)
  PROVE  Moves(r, r)
BY DEF Moves, Steady

LEMMA LostSentMoves ==
  ASSUME NEW r, Fit(r), NEW y \in {r} \cup LostSent(r)
  PROVE  Moves(r, y)
<1>1. CASE y = r BY <1>1, StaysMoves
<1>2. CASE y # r
  <2>1. PICK o \in Send(r, FALSE) : y = o.c BY <1>2 DEF LostSent
  <2> QED BY <2>1, SendDoes, SendMoves
<1> QED BY <1>1, <1>2

LEMMA CaretSentMoves ==
  ASSUME NEW r, Fit(r), NEW y \in CaretSent(r)
  PROVE  Moves(r, y)
<1>1. CASE y = r BY <1>1, StaysMoves
<1>2. CASE y # r
  <2>1. PICK o \in Guarded(r, FALSE) : y = o.c BY <1>2 DEF CaretSent
  <2> QED BY <2>1, GuardedDoes, SendMoves
<1> QED BY <1>1, <1>2

LEMMA MovesTold ==
  ASSUME NEW r, NEW y, Moves(r, y), NEW f, NEW t, NEW k, NEW l, Told(r, f, t, k), l => k
  PROVE  Told(y, f, t, l)
<1>1. y.conn # "stale" BY DEF Moves, Told
<1>2. y.conn = "live" => (r.conn = "live" /\ y.needs = r.needs) \/ y.needs BY DEF Moves
<1> QED BY <1>1, <1>2, ToldSame DEF Moves, Steady

(* The service knows the host, or the deferred sync is still to come.      *)
Owed(r) == r.known \/ r.recover \/ Waits(r)

KeyReady(r) == svc = "ready" /\ focus /\ front /\ Told(r, focus, front, comp) /\ (r.conn # "none" \/ r.needs)

Failed(r, o) == ~o.ok /\ Calls(r, o) /\ o.c.known = r.known

LEMMA KeySyncDoes ==
  ASSUME NEW r, Fit(r), Timers(r), NEW o \in KeySync(r)
  PROVE  /\ o \in Outcomes /\ Fit(o.c) /\ Timers(o.c)
         /\ ~o.ok => Failed(r, o)
         /\ o.ok /\ KeyReady(r) => o.c.conn = "live" /\ Owed(o.c)
<1>0. r \in Fields BY DEF Fit
<1>1. CASE ~r.needs
  <2>1. o = Yes(r) BY <1>1 DEF KeySync
  <2>2. KeyReady(r) => r.conn = "live" /\ Owed(r) BY <1>0, <1>1 DEF KeyReady, Told, Owed, Fields
  <2> QED BY <1>0, <2>1, <2>2, OutcomeIs
<1>2. CASE r.needs
  <2> DEFINE Prepared(x) ==
        IF comp THEN {Yes([x EXCEPT !.needs = FALSE])}
        ELSE {Yes(y) : y \in UNION {CaretSent(IF p.ok THEN Cancel(p.c) ELSE p.c) : p \in FullSync(x, FALSE)}}
  <2>1. PICK q \in Connect(r, FALSE) : o \in (IF q.ok THEN Prepared(q.c) ELSE {No(q.c)})
    BY <1>2 DEF KeySync, Then
  <2>2. Connects(r, q) BY <2>1, ConnectDoes
  <2>3. q.c \in Fields /\ Fit(q.c) /\ q.ok \in BOOLEAN /\ Timers(q.c)
    BY <2>2 DEF Connects, Calls, Fit, Outcomes, Timers, Steady
  <2>4. CASE ~q.ok
    <3>1. o = No(q.c) BY <2>1, <2>4
    <3> QED BY <2>2, <2>3, <2>4, <3>1, OutcomeIs DEF Connects, Calls, Failed
  <2>5. CASE q.ok /\ comp
    <3> DEFINE x == [q.c EXCEPT !.needs = FALSE]
    <3>1. /\ x \in Fields /\ Steady(q.c, x) /\ x.conn = q.c.conn /\ x.est = q.c.est /\ x.breaker = q.c.breaker
          /\ x.recover = q.c.recover /\ x.known = q.c.known /\ x.mode = q.c.mode
      BY <2>3 DEF Fields, Steady
    <3>2. o = Yes(x) BY <2>1, <2>5
    <3> HIDE DEF x
    <3>3. Fit(x) /\ Timers(x) BY <2>3, <3>1 DEF Fit, Timers, Steady
    <3>4. KeyReady(r) => x.conn = "live" /\ Owed(x)
      <4>1. KeyReady(r) => Owed(r) /\ r.conn # "stale" BY <2>5 DEF KeyReady, Told, Owed
      <4>2. KeyReady(r) => q.c.conn = "live" BY <1>0, <2>2, <2>5, <4>1 DEF Connects, Fields
      <4> QED BY <2>2, <3>1, <4>1, <4>2 DEF Owed, Waits, Connects, Calls, Steady
    <3> QED BY <3>1, <3>2, <3>3, <3>4, OutcomeIs
  <2>6. CASE q.ok /\ ~comp
    <3>1. PICK p \in FullSync(q.c, FALSE) : \E y \in CaretSent(IF p.ok THEN Cancel(p.c) ELSE p.c) : o = Yes(y)
      BY <2>1, <2>6
    <3>2. Syncs(q.c, p) BY <2>3, <3>1, FullSyncDoes
    <3> DEFINE x == IF p.ok THEN Cancel(p.c) ELSE p.c
    <3>3. PICK y \in CaretSent(x) : o = Yes(y) BY <3>1
    <3>4. Fit(p.c) /\ p.ok \in BOOLEAN BY <3>2 DEF Syncs, Outcomes
    <3>5. Fit(x) /\ Timers(x) /\ x.conn = p.c.conn /\ x.known = p.c.known
      <4>1. CASE p.ok BY <3>4, <4>1, CancelIs
      <4>2. CASE ~p.ok BY <2>3, <3>2, <3>4, <4>2 DEF Syncs, Timers, Steady
      <4> QED BY <3>4, <4>1, <4>2
    <3> HIDE DEF x
    <3>6. Moves(x, y) BY <3>3, <3>5, CaretSentMoves
    <3>7. y \in Fields /\ Fit(y) /\ Timers(y) BY <3>5, <3>6 DEF Moves, Fit, Timers, Steady
    <3>8. KeyReady(r) => y.conn = "live" /\ y.known
      <4>1. KeyReady(r) => r.conn # "stale" BY DEF KeyReady, Told
      <4>2. KeyReady(r) => q.c.conn = "live" BY <1>0, <2>2, <2>6, <4>1 DEF Connects, Fields
      <4>3. KeyReady(r) => p.c.conn = "live" /\ p.c.known BY <3>2, <4>2 DEF Syncs, KeyReady
      <4> QED BY <3>5, <3>6, <4>3 DEF Moves
    <3> QED BY <3>3, <3>7, <3>8, OutcomeIs DEF Owed
  <2> QED BY <2>3, <2>4, <2>5, <2>6
<1> QED BY <1>0, <1>1, <1>2

LEMMA KeySentDoes ==
  ASSUME NEW r, Fit(r), Timers(r), NEW o \in KeySent(r)
  PROVE  /\ o \in Outcomes /\ Fit(o.c) /\ Timers(o.c)
         /\ o.ok => o.c.conn = "live" /\ o.c.est
         /\ KeyReady(r) => IF o.ok THEN o.c.known \/ Waits(o.c) ELSE Told(o.c, focus, front, comp)
<1>1. PICK q \in KeySync(r) :
        o \in (IF q.ok
              THEN UNION {UNION {IF p.ok THEN {Yes([p.c EXCEPT !.est = TRUE])} ELSE {No(p.c)}
                                 : p \in Guarded(y, FALSE)} : y \in TryRecover(q.c)}
              ELSE {No(q.c)})
  BY DEF KeySent, Then
<1>2. /\ q \in Outcomes /\ Fit(q.c) /\ Timers(q.c)
      /\ ~q.ok => Failed(r, q)
      /\ q.ok /\ KeyReady(r) => q.c.conn = "live" /\ Owed(q.c)
  BY <1>1, KeySyncDoes
<1>3. q.c \in Fields /\ q.ok \in BOOLEAN BY <1>2 DEF Outcomes
<1>4. CASE ~q.ok
  <2>1. o = No(q.c) BY <1>1, <1>4
  <2>2. o \in Outcomes /\ o.c = q.c /\ o.ok = FALSE BY <1>3, <2>1, OutcomeIs
  <2>3. KeyReady(r) => Told(q.c, focus, front, comp)
    BY <1>2, <1>4, CallTold DEF KeyReady, Failed
  <2> QED BY <1>2, <2>2, <2>3
<1>5. CASE q.ok
  <2>1. PICK y \in TryRecover(q.c) :
          o \in UNION {IF p.ok THEN {Yes([p.c EXCEPT !.est = TRUE])} ELSE {No(p.c)} : p \in Guarded(y, FALSE)}
    BY <1>1, <1>5
  <2>2. PICK p \in Guarded(y, FALSE) : o \in (IF p.ok THEN {Yes([p.c EXCEPT !.est = TRUE])} ELSE {No(p.c)})
    BY <2>1
  <2>3. Recovers(q.c, y) BY <1>2, <2>1, TryRecoverDoes
  <2>4. Sends(y, p) BY <2>2, <2>3, GuardedDoes DEF Recovers
  <2>5. p.c \in Fields /\ p.ok \in BOOLEAN /\ Fit(p.c) /\ Timers(p.c)
    BY <1>2, <2>3, <2>4 DEF Sends, Reaches, Calls, Recovers, Outcomes, Timers, Steady
  <2>6. KeyReady(r) => p.ok /\ (p.c.known \/ Waits(p.c))
    <3>1. KeyReady(r) => q.c.conn = "live" /\ Owed(q.c) /\ svc = "ready" BY <1>2, <1>5 DEF KeyReady
    <3>2. KeyReady(r) => y.conn = "live" /\ (y.known \/ Waits(y))
      BY <3>1, <2>3 DEF Recovers, Owed, Waits, Steady
    <3> QED BY <2>4, <3>2 DEF Sends, Reaches, Calls, Waits, Steady
  <2>7. CASE p.ok
    <3> DEFINE x == [p.c EXCEPT !.est = TRUE]
    <3>1. o = Yes(x) BY <2>2, <2>7
    <3>2. /\ x \in Fields /\ Steady(p.c, x) /\ x.conn = p.c.conn /\ x.est /\ x.breaker = p.c.breaker
          /\ x.known = p.c.known /\ x.mode = p.c.mode
      BY <2>5 DEF Fields, Steady
    <3> HIDE DEF x
    <3>3. x.conn = "live" BY <2>4, <2>7, <3>2 DEF Sends, Reaches
    <3>4. Fit(x) /\ Timers(x) BY <2>5, <3>2, <3>3 DEF Fit, Timers, Steady
    <3>5. KeyReady(r) => x.known \/ Waits(x) BY <2>6, <3>2 DEF Waits, Steady
    <3> QED BY <3>1, <3>2, <3>3, <3>4, <3>5, OutcomeIs
  <2>8. CASE ~p.ok
    <3>1. o = No(p.c) BY <2>2, <2>8
    <3> QED BY <2>5, <2>6, <2>8, <3>1, OutcomeIs
  <2> QED BY <2>5, <2>7, <2>8
<1> QED BY <1>3, <1>4, <1>5

--------------------------------------------------------------------------------
(* The steps.                                                              *)

Base ==
  /\ svc \in {"down", "starting", "ready"}
  /\ due \in BOOLEAN /\ focus \in BOOLEAN /\ front \in BOOLEAN /\ comp \in BOOLEAN
  /\ due => svc = "ready"
  /\ used \in [crashes : 0 .. MaxCrashes, focus : 0 .. MaxFocus, keys : 0 .. MaxKeys]

(* One SERVICE_READY at most for each life of the service.                 *)
Queue ==
  /\ posted \in Nat
  /\ posted + (IF due \/ svc # "ready" THEN 1 ELSE 0) <= used.crashes + 1

IInv == Base /\ Queue /\ Fit(c) /\ Timers(c)

(* What is kept while no key connects on its own: a composition has the    *)
(* thread focus, and what the service does not know is owed to it.         *)
Current == svc = "ready" /\ ~due /\ posted = 0
KnownInv == (comp => front) /\ (Current => Told(c, focus, front, comp))

(* A step of the fields in the same life of the service.                   *)
LEMMA FieldsMove ==
  ASSUME NEW y, Fit(y), Timers(y), c' = y, svc' = svc
  PROVE  Fit(c)' /\ Timers(c)'
BY DEF Fit, Timers

LEMMA KnownMove ==
  ASSUME NEW y, c' = y, (comp => front)', Current' => Told(y, focus', front', comp')
  PROVE  KnownInv'
BY DEF KnownInv, Told, Waits

LEMMA CrashStep ==
  ASSUME IInv, Crash
  PROVE  (Fit(c) /\ Timers(c))' /\ (KnownInv => KnownInv')
<1>1. /\ svc' = "down" /\ comp' = comp /\ front' = front
      /\ c' = [c EXCEPT !.conn = IF @ = "live" THEN "stale" ELSE @, !.known = FALSE, !.mode = "initial"]
  BY DEF Crash, Keep
<1>2. c \in Fields BY DEF IInv, Fit
<1>3. /\ c' \in Fields /\ c'.conn # "live" /\ (c'.conn = "none" <=> c.conn = "none") /\ c'.est = c.est
      /\ c'.breaker = c.breaker /\ ~c'.known /\ c'.mode = "initial"
      /\ c'.failR = c.failR /\ c'.timerR = c.timerR /\ c'.failF = c.failF /\ c'.timerF = c.timerF
  BY <1>1, <1>2 DEF Fields
<1>4. Fit(c)' BY <1>3 DEF IInv, Fit, Fields
<1>5. Timers(c)' BY <1>3 DEF IInv, Timers
<1>6. KnownInv => KnownInv' BY <1>1 DEF KnownInv, Current
<1> QED BY <1>4, <1>5, <1>6

LEMMA StartStep ==
  ASSUME IInv, Start \/ Ready \/ Post
  PROVE  (Fit(c) /\ Timers(c))' /\ (KnownInv => KnownInv')
<1>1. c' = c /\ comp' = comp /\ front' = front /\ focus' = focus BY DEF Start, Ready, Post, Keep
<1>2. svc' # "down" BY DEF Start, Ready, Post, IInv, Base
<1>3. ~Current' BY DEF Start, Ready, Post, Current, IInv, Queue
<1> QED BY <1>1, <1>2, <1>3 DEF IInv, Fit, Timers, KnownInv

LEMMA ServiceReadyStep ==
  ASSUME IInv, ServiceReady
  PROVE  (Fit(c) /\ Timers(c))' /\ (KnownInv => KnownInv')
<1> DEFINE s == RecordSuccess(c)
           d == DiscardStale(s)
           r == [d EXCEPT !.failR = 0]
<1>1. c \in Fields /\ 0 \in 0..MaxRetries BY ReadyAssumption DEF IInv, Fit
<1>2. /\ s \in Fields /\ Rest(c, s) /\ s.conn = c.conn /\ s.needs = c.needs /\ s.est = c.est
      /\ s.breaker = "closed"
  BY <1>1, SuccessIs
<1>3. PICK y : c' = y /\ y \in RunReadySync(r) BY DEF ServiceReady
<1> HIDE DEF s
<1>4. d \in Fields /\ Rest(c, d) /\ d.conn # "stale" /\ Fit(d)
  <2>1. CASE s.conn = "stale"
    <3>1. d = Disconnect(s) BY <2>1 DEF DiscardStale
    <3>2. /\ d \in Fields /\ Rest(s, d) /\ d.conn = "none" /\ ~d.est BY <1>2, <3>1, DisconnectIs
    <3>3. Rest(c, d) BY <1>2, <3>2 DEF Rest, Steady
    <3>4. ~c.known /\ (c.mode = "user" => "click" \in Faults) BY <1>2, <2>1 DEF IInv, Fit
    <3> QED BY <3>2, <3>3, <3>4 DEF Fit, Rest
  <2>2. CASE s.conn # "stale"
    <3>1. d = s BY <2>2 DEF DiscardStale
    <3> QED BY <1>2, <2>2, <3>1 DEF IInv, Fit, Rest
  <2> QED BY <2>1, <2>2
<1> HIDE DEF d
<1>5. /\ Fit(r) /\ r.failR = 0 /\ r.failF = d.failF /\ r.timerF = d.timerF /\ r.conn = d.conn
  BY <1>1, <1>4, CountSet
<1> HIDE DEF r
<1>6. Timers(r) BY <1>4, <1>5 DEF IInv, Timers, Rest, Steady
<1>7. /\ Fit(y) /\ Timers(y)
      /\ svc = "ready" /\ (comp => front) => Told(y, focus, front, comp)
  BY <1>3, <1>4, <1>5, <1>6, ReadySyncDoes
<1>8. svc' = svc /\ comp' = comp /\ front' = front /\ focus' = focus BY DEF ServiceReady, Keep
<1>9. KnownInv => KnownInv' BY <1>3, <1>7, <1>8, KnownMove DEF KnownInv, Current
<1> QED BY <1>3, <1>7, <1>8, <1>9, FieldsMove

LEMMA ReadyTimerStep ==
  ASSUME IInv, ReadyTimer
  PROVE  /\ (Fit(c) /\ Timers(c))' /\ (KnownInv => KnownInv')
         /\ c.failR > 0 /\ "click" \notin Faults => c'.mode = c.mode
<1>1. PICK y : c' = y /\ y \in RunReadySync(c) BY DEF ReadyTimer
<1>2. /\ Fit(y) /\ Timers(y)
      /\ c.failR > 0 /\ "click" \notin Faults => y.mode = c.mode
      /\ svc = "ready" /\ (comp => front) /\ Told(c, focus, front, comp) => Told(y, focus, front, comp)
  BY <1>1, ReadySyncDoes DEF IInv, Told
<1>3. svc' = svc /\ due' = due /\ posted' = posted /\ comp' = comp /\ front' = front /\ focus' = focus
  BY DEF ReadyTimer, Keep
<1>4. KnownInv => KnownInv' BY <1>1, <1>2, <1>3, KnownMove DEF KnownInv, Current
<1> QED BY <1>1, <1>2, <1>3, <1>4, FieldsMove

LEMMA FocusTimerStep ==
  ASSUME IInv, FocusTimer
  PROVE  (Fit(c) /\ Timers(c))' /\ (KnownInv => KnownInv')
<1>1. PICK y : c' = y /\ y \in RunFocusRecovery(c) BY DEF FocusTimer
<1>2. /\ Fit(y) /\ Timers(y)
      /\ svc = "ready" /\ (comp => front) /\ Told(c, focus, front, comp) => Told(y, focus, front, comp)
  BY <1>1, FocusTimerDoes DEF IInv
<1>3. svc' = svc /\ due' = due /\ posted' = posted /\ comp' = comp /\ front' = front /\ focus' = focus
  BY DEF FocusTimer, Keep
<1>4. KnownInv => KnownInv' BY <1>1, <1>2, <1>3, KnownMove DEF KnownInv, Current
<1> QED BY <1>1, <1>2, <1>3, <1>4, FieldsMove

LEMMA SetFocusStep ==
  ASSUME IInv, SetFocus
  PROVE  (Fit(c) /\ Timers(c))' /\ (KnownInv => KnownInv')
<1>1. PICK other \in BOOLEAN : comp' = (comp /\ ~other) /\
        \E r \in IF other THEN {c} \cup LostSent(c) ELSE {c} : \E o \in Gained(r) :
          c' = IF o.ok THEN Cancel([o.c EXCEPT !.recover = FALSE, !.needs = FALSE])
               ELSE [o.c EXCEPT !.recover = TRUE, !.timerF = TRUE, !.failF = 1]
  BY DEF SetFocus
<1>2. PICK r \in IF other THEN {c} \cup LostSent(c) ELSE {c} : \E o \in Gained(r) :
          c' = IF o.ok THEN Cancel([o.c EXCEPT !.recover = FALSE, !.needs = FALSE])
               ELSE [o.c EXCEPT !.recover = TRUE, !.timerF = TRUE, !.failF = 1]
  BY <1>1
<1>3. PICK o \in Gained(r) :
          c' = IF o.ok THEN Cancel([o.c EXCEPT !.recover = FALSE, !.needs = FALSE])
               ELSE [o.c EXCEPT !.recover = TRUE, !.timerF = TRUE, !.failF = 1]
  BY <1>2
<1>4. Moves(c, r) BY <1>2, LostSentMoves DEF IInv
<1>5. Fit(r) /\ Timers(r) BY <1>4 DEF Moves, IInv, Timers, Steady
<1>6. Establishes(r, o) /\ (o.ok /\ svc = "ready" => o.c.known) BY <1>3, <1>5, GainedDoes
<1>7. o.c \in Fields /\ Fit(o.c) /\ Timers(o.c) /\ o.ok \in BOOLEAN
  BY <1>5, <1>6 DEF Establishes, Reaches, Calls, Outcomes, Timers, Steady
<1>8. svc' = svc /\ due' = due /\ posted' = posted /\ focus' = TRUE /\ front' = TRUE BY DEF SetFocus, Focused
<1>9. CASE o.ok
  <2> DEFINE z == [o.c EXCEPT !.recover = FALSE, !.needs = FALSE]
  <2>1. Fit(z) /\ z.conn = o.c.conn /\ z.known = o.c.known BY <1>7, FlagsSet
  <2>2. PICK y : y = Cancel(z) OBVIOUS
  <2>3. c' = y BY <1>3, <1>9, <2>2
  <2> HIDE DEF z
  <2>4. Fit(y) /\ Timers(y) /\ y.conn = z.conn /\ y.known = z.known BY <2>1, <2>2, CancelIs
  <2>5. svc = "ready" => y.conn = "live" /\ y.known
    BY <1>6, <1>9, <2>1, <2>4 DEF Establishes, Reaches
  <2>6. KnownInv' BY <1>8, <2>3, <2>5, KnownMove DEF Current, Told
  <2> QED BY <1>8, <2>3, <2>4, <2>6, FieldsMove
<1>10. CASE ~o.ok
  <2>1. PICK y : y = [o.c EXCEPT !.recover = TRUE, !.timerF = TRUE, !.failF = 1] OBVIOUS
  <2>2. c' = y BY <1>3, <1>10, <2>1
  <2>3. 1 \in 0..MaxRetries BY ReadyAssumption
  <2>4. /\ y \in Fields /\ y.recover /\ y.timerF /\ y.failF = 1 /\ y.failR = o.c.failR
        /\ y.timerR = o.c.timerR /\ y.needs = o.c.needs /\ y.conn = o.c.conn /\ y.est = o.c.est
        /\ y.breaker = o.c.breaker /\ y.known = o.c.known /\ y.mode = o.c.mode
    BY <1>7, <2>1, <2>3 DEF Fields
  <2>5. Fit(y) /\ Timers(y) BY <1>7, <2>4 DEF Fit, Timers
  <2>6. o.c.conn = "none" /\ r.conn # "live" /\ ~o.c.known /\ o.c.failR = r.failR
    BY <1>6, <1>10 DEF Establishes, Reaches, Calls, Steady
  <2>7. KnownInv /\ Current /\ comp' => ~(y.failR > 0)
    <3>1. comp' => comp /\ r = c BY <1>1, <1>2
    <3>2. comp' => ~c.known BY <2>6, <3>1 DEF IInv, Fit
    <3> QED BY <2>4, <2>6, <3>1, <3>2 DEF KnownInv, Told
  <2>8. KnownInv /\ Current => Told(y, TRUE, TRUE, comp')
    BY <2>4, <2>6, <2>7 DEF Told
  <2>9. KnownInv => KnownInv' BY <1>8, <2>2, <2>8, KnownMove DEF Current
  <2> QED BY <1>8, <2>2, <2>5, <2>9, FieldsMove
<1> QED BY <1>7, <1>9, <1>10

LEMMA LoseFocusStep ==
  ASSUME IInv, LoseFocus
  PROVE  (Fit(c) /\ Timers(c))' /\ (KnownInv => KnownInv')
<1>1. PICK r \in {c} \cup LostSent(c) : c' = [r EXCEPT !.recover = FALSE] BY DEF LoseFocus
<1>2. Moves(c, r) BY <1>1, LostSentMoves DEF IInv
<1>3. PICK y : y = [r EXCEPT !.recover = FALSE] OBVIOUS
<1>4. /\ Fit(y) /\ Steady(r, y) /\ y.conn = r.conn /\ y.known = r.known
  BY <1>2, <1>3, RecoverSet DEF Moves, Fit
<1>5. Timers(y) BY <1>2, <1>4 DEF Moves, IInv, Timers, Steady
<1>6. svc' = svc /\ due' = due /\ posted' = posted /\ focus' = FALSE /\ front' = front /\ comp' = comp
  BY DEF LoseFocus, Focused
<1>7. Told(c, focus, front, comp) => Told(y, FALSE, front, comp)
  BY <1>2, <1>4 DEF Told, Moves, Steady
<1>8. KnownInv => KnownInv' BY <1>1, <1>3, <1>6, <1>7, KnownMove DEF KnownInv, Current
<1> QED BY <1>1, <1>3, <1>4, <1>5, <1>6, <1>8, FieldsMove

LEMMA KillThreadFocusStep ==
  ASSUME IInv, KillThreadFocus
  PROVE  (Fit(c) /\ Timers(c))' /\ (KnownInv => KnownInv')
<1>1. PICK r \in {c} \cup LostSent(c) : c' = [r EXCEPT !.known = FALSE] BY DEF KillThreadFocus
<1>2. Moves(c, r) BY <1>1, LostSentMoves DEF IInv
<1>3. PICK y : y = [r EXCEPT !.known = FALSE] OBVIOUS
<1>4. r \in Fields BY <1>2 DEF Moves, Fit
<1>5. /\ y \in Fields /\ Steady(r, y) /\ y.conn = r.conn /\ y.est = r.est /\ y.breaker = r.breaker
      /\ ~y.known /\ y.mode = r.mode
  BY <1>3, <1>4 DEF Fields, Steady
<1>6. Fit(y) /\ Timers(y) BY <1>2, <1>5 DEF Moves, IInv, Fit, Timers, Steady
<1>7. svc' = svc /\ due' = due /\ posted' = posted /\ front' = FALSE /\ comp' = FALSE
  BY DEF KillThreadFocus, Focused
<1>8. Told(c, focus, front, comp) => Told(y, focus', FALSE, FALSE) BY <1>2, <1>5 DEF Told, Moves
<1>9. KnownInv => KnownInv' BY <1>1, <1>3, <1>7, <1>8, KnownMove DEF KnownInv, Current
<1> QED BY <1>1, <1>3, <1>6, <1>7, <1>9, FieldsMove

(* The service has, or keeps, a mode of the user.                          *)
LEMMA ModeSet ==
  ASSUME NEW x, Fit(x), Timers(x), x.conn = "live", NEW m \in {x.mode, "user"},
         x.est \/ "click" \in Faults
  PROVE  LET y == [x EXCEPT !.mode = m] IN
         /\ Fit(y) /\ Timers(y)
         /\ \A f, t, k : Told(x, f, t, k) => Told(y, f, t, k)
         /\ y.conn = x.conn /\ y.known = x.known /\ y.failR = x.failR /\ y.timerR = x.timerR
<1>1. x \in Fields BY DEF Fit
<1> DEFINE y == [x EXCEPT !.mode = m]
<1>2. m \in {"initial", "user"} BY <1>1 DEF Fields
<1>3. /\ y \in Fields /\ y.conn = x.conn /\ y.needs = x.needs /\ y.est = x.est /\ y.breaker = x.breaker
      /\ y.recover = x.recover /\ y.known = x.known /\ y.failR = x.failR /\ y.timerR = x.timerR
      /\ y.failF = x.failF /\ y.timerF = x.timerF
  BY <1>1, <1>2 DEF Fields
<1> HIDE DEF y
<1>4. Fit(y) BY <1>3 DEF Fit
<1>5. Timers(y) BY <1>3 DEF Timers
<1>6. \A f, t, k : Told(x, f, t, k) => Told(y, f, t, k) BY <1>3 DEF Told, Waits
<1> QED BY <1>3, <1>4, <1>5, <1>6 DEF y

LEMMA KeyStep ==
  ASSUME IInv, Key
  PROVE  (Fit(c) /\ Timers(c))' /\ ("key_connects" \notin Faults /\ KnownInv => KnownInv')
<1>1. PICK o \in KeySent(c) :
        IF o.ok /\ svc = "ready"
        THEN comp' \in BOOLEAN /\ \E m \in {o.c.mode, "user"} : c' = [o.c EXCEPT !.mode = m]
        ELSE c' = o.c /\ UNCHANGED comp
  BY DEF Key
<1>2. /\ o \in Outcomes /\ Fit(o.c) /\ Timers(o.c)
      /\ o.ok => o.c.conn = "live" /\ o.c.est
      /\ KeyReady(c) => IF o.ok THEN o.c.known \/ Waits(o.c) ELSE Told(o.c, focus, front, comp)
  BY <1>1, KeySentDoes DEF IInv
<1>3. /\ svc' = svc /\ due' = due /\ posted' = posted /\ focus' = focus /\ front' = front /\ focus /\ front
      /\ c.conn # "none" \/ c.needs \/ "key_connects" \in Faults
  BY DEF Key, Typed
<1>4. "key_connects" \notin Faults /\ KnownInv /\ Current => KeyReady(c)
  BY <1>3 DEF KnownInv, Current, KeyReady
<1>5. CASE o.ok /\ svc = "ready"
  <2>1. PICK m \in {o.c.mode, "user"} : c' = [o.c EXCEPT !.mode = m] BY <1>1, <1>5
  <2>2. PICK y : y = [o.c EXCEPT !.mode = m] OBVIOUS
  <2>3. /\ Fit(y) /\ Timers(y)
        /\ y.conn = o.c.conn /\ y.known = o.c.known /\ y.failR = o.c.failR /\ y.timerR = o.c.timerR
    BY <1>2, <1>5, <2>1, <2>2, ModeSet
  <2>4. KeyReady(c) => Told(y, focus, front, comp') BY <1>2, <1>5, <2>3 DEF Told, Waits
  <2>5. "key_connects" \notin Faults /\ KnownInv => KnownInv'
    BY <1>3, <1>4, <2>1, <2>2, <2>4, KnownMove DEF Current
  <2> QED BY <1>3, <2>1, <2>2, <2>3, <2>5, FieldsMove
<1>6. CASE ~(o.ok /\ svc = "ready")
  <2>1. c' = o.c /\ comp' = comp BY <1>1, <1>6
  <2>2. KnownInv /\ KeyReady(c) => Told(o.c, focus, front, comp)
    BY <1>2, <1>6 DEF KeyReady
  <2>3. "key_connects" \notin Faults /\ KnownInv => KnownInv'
    BY <1>3, <1>4, <2>1, <2>2, KnownMove DEF Current
  <2> QED BY <1>2, <1>3, <2>1, <2>3, FieldsMove
<1> QED BY <1>5, <1>6

LEMMA ClickStep ==
  ASSUME IInv, Click
  PROVE  (Fit(c) /\ Timers(c))' /\ (KnownInv => KnownInv')
<1>1. PICK o \in Send(c, FALSE) :
        IF o.ok /\ svc = "ready"
        THEN (o.c.est \/ "click" \in Faults) /\ c' = [o.c EXCEPT !.mode = "user"] /\ comp' \in {comp, FALSE}
        ELSE c' = o.c /\ UNCHANGED comp
  BY DEF Click
<1>2. Sends(c, o) BY <1>1, SendDoes DEF IInv
<1>3. Moves(c, o.c) BY <1>2, SendMoves
<1>4. Fit(o.c) /\ Timers(o.c) BY <1>3 DEF Moves, IInv, Timers, Steady
<1>5. svc' = svc /\ due' = due /\ posted' = posted /\ focus' = focus /\ front' = front /\ front
  BY DEF Click, Typed
<1>6. comp' => comp BY <1>1
<1>7. KnownInv /\ Current => Told(o.c, focus, front, comp')
  BY <1>3, <1>6, MovesTold DEF KnownInv
<1>8. CASE o.ok /\ svc = "ready"
  <2>1. PICK y : y = [o.c EXCEPT !.mode = "user"] OBVIOUS
  <2>2. c' = y /\ (o.c.est \/ "click" \in Faults) BY <1>1, <1>8, <2>1
  <2>3. o.c.conn = "live" BY <1>2, <1>8 DEF Sends, Reaches
  <2>4. /\ Fit(y) /\ Timers(y) /\ \A f, t, k : Told(o.c, f, t, k) => Told(y, f, t, k)
    BY <1>4, <2>1, <2>2, <2>3, ModeSet
  <2>5. KnownInv => KnownInv' BY <1>5, <1>7, <2>2, <2>4, KnownMove DEF Current
  <2> QED BY <1>5, <2>2, <2>4, <2>5, FieldsMove
<1>9. CASE ~(o.ok /\ svc = "ready")
  <2>1. c' = o.c BY <1>1, <1>9
  <2>2. KnownInv => KnownInv' BY <1>5, <1>7, <2>1, KnownMove DEF Current
  <2> QED BY <1>4, <1>5, <2>1, <2>2, FieldsMove
<1> QED BY <1>8, <1>9

LEMMA CaretStep ==
  ASSUME IInv, Caret
  PROVE  (Fit(c) /\ Timers(c))' /\ (KnownInv => KnownInv')
<1>1. PICK o \in Guarded(c, FALSE) : c' = o.c BY DEF Caret
<1>2. Moves(c, o.c) BY <1>1, GuardedDoes, SendMoves DEF IInv
<1>3. Fit(o.c) /\ Timers(o.c) BY <1>2 DEF Moves, IInv, Timers, Steady
<1>4. svc' = svc /\ due' = due /\ posted' = posted /\ focus' = focus /\ front' = front /\ comp' = comp
  BY DEF Caret, Typed
<1>5. KnownInv /\ Current => Told(o.c, focus, front, comp) BY <1>2, MovesTold DEF KnownInv
<1>6. KnownInv => KnownInv' BY <1>1, <1>4, <1>5, KnownMove DEF KnownInv, Current
<1> QED BY <1>1, <1>3, <1>4, <1>6, FieldsMove

LEMMA EndCompositionStep ==
  ASSUME IInv, EndComposition
  PROVE  (Fit(c) /\ Timers(c))' /\ (KnownInv => KnownInv')
<1>1. /\ svc' = svc /\ due' = due /\ posted' = posted /\ focus' = focus /\ front' = front /\ c' = c
      /\ comp' = FALSE
  BY DEF EndComposition
<1> QED BY <1>1 DEF IInv, Fit, Timers, KnownInv, Current, Told, Waits

LEMMA ElapseStep ==
  ASSUME IInv, Elapse
  PROVE  (Fit(c) /\ Timers(c))' /\ (KnownInv => KnownInv')
<1>1. PICK y : y = [c EXCEPT !.breaker = "half"] OBVIOUS
<1>2. c' = y /\ c.breaker = "open" BY <1>1 DEF Elapse
<1>3. c \in Fields /\ c.conn = "none" BY <1>2 DEF IInv, Fit
<1>4. /\ y \in Fields /\ Rest(c, y) /\ y.conn = c.conn /\ y.needs = c.needs /\ y.est = c.est
      /\ y.breaker = "half"
  BY <1>1, <1>3 DEF Fields, Rest, Steady
<1>5. Fit(y) /\ Timers(y) BY <1>3, <1>4 DEF IInv, Fit, Timers, Rest, Steady
<1>6. svc' = svc /\ due' = due /\ posted' = posted /\ focus' = focus /\ front' = front /\ comp' = comp
  BY DEF Elapse, Keep
<1>7. Told(c, focus, front, comp) => Told(y, focus, front, comp)
  BY <1>3, <1>4, ToldSame DEF Rest, Steady
<1>8. KnownInv => KnownInv' BY <1>2, <1>6, <1>7, KnownMove DEF KnownInv, Current
<1> QED BY <1>2, <1>5, <1>6, <1>8, FieldsMove

(* Every step.                                                             *)
LEMMA FieldsStep ==
  ASSUME IInv, [Next]_vars
  PROVE  (Fit(c) /\ Timers(c))' /\ ("key_connects" \notin Faults /\ KnownInv => KnownInv')
<1>1. CASE UNCHANGED vars
  BY <1>1 DEF vars, IInv, Fit, Timers, KnownInv, Current, Told, Waits
<1>2. CASE Next
  BY <1>2, CrashStep, StartStep, ServiceReadyStep, ReadyTimerStep, FocusTimerStep, SetFocusStep,
     LoseFocusStep, KillThreadFocusStep, KeyStep, ClickStep, CaretStep, EndCompositionStep, ElapseStep
     DEF Next
<1> QED BY <1>1, <1>2

LEMMA BaseStep ==
  ASSUME Base, Queue, [Next]_vars
  PROVE  Base' /\ Queue'
<1>0. /\ {MaxCrashes, MaxFocus, MaxKeys} \subseteq Nat
      /\ used.crashes \in 0..MaxCrashes /\ used.focus \in 0..MaxFocus /\ used.keys \in 0..MaxKeys
  BY ReadyAssumption DEF Base
<1>1. CASE Crash
  <2>1. /\ used' \in [crashes : 0 .. MaxCrashes, focus : 0 .. MaxFocus, keys : 0 .. MaxKeys]
        /\ used'.crashes = used.crashes + 1
    BY <1>0, <1>1 DEF Crash, Base
  <2>2. /\ svc' = "down" /\ due' = FALSE /\ posted' = posted
        /\ focus' = focus /\ front' = front /\ comp' = comp
    BY <1>1 DEF Crash, Keep
  <2>3. Base' BY <2>1, <2>2 DEF Base
  <2>4. posted \in Nat /\ posted <= used.crashes + 1 BY <1>0 DEF Queue
  <2>5. posted' + 1 <= used'.crashes + 1 BY <1>0, <2>1, <2>2, <2>4
  <2> QED BY <2>2, <2>3, <2>4, <2>5 DEF Queue
<1>2. CASE Start BY <1>2 DEF Start, Keep, Base, Queue
<1>3. CASE Ready BY <1>3 DEF Ready, Keep, Base, Queue
<1>4. CASE Post
  <2>1. /\ svc = "ready" /\ svc' = svc /\ due /\ due' = FALSE /\ posted' = posted + 1 /\ used' = used
        /\ focus' = focus /\ front' = front /\ comp' = comp
    BY <1>4 DEF Post, Keep, Base
  <2>2. posted \in Nat /\ posted + 1 <= used.crashes + 1 BY <2>1 DEF Queue
  <2>3. ~(due' \/ svc' # "ready") /\ posted' \in Nat BY <2>1, <2>2
  <2>4. posted' + 0 <= used'.crashes + 1 BY <2>1, <2>2
  <2>5. Queue' BY <2>3, <2>4 DEF Queue
  <2> QED BY <2>1, <2>5 DEF Base
<1>5. CASE ServiceReady
  <2>1. posted' \in Nat /\ posted' <= posted BY <1>5 DEF ServiceReady, Queue
  <2>2. svc' = svc /\ due' = due /\ used' = used /\ focus' = focus /\ front' = front /\ comp' = comp
    BY <1>5 DEF ServiceReady, Keep
  <2> QED BY <1>0, <2>1, <2>2 DEF Base, Queue
<1>6. CASE ReadyTimer \/ FocusTimer \/ Elapse
  <2>1. svc' = svc /\ due' = due /\ used' = used /\ focus' = focus /\ front' = front /\ comp' = comp
        /\ posted' = posted
    BY <1>6 DEF ReadyTimer, FocusTimer, Elapse, Keep
  <2> QED BY <2>1 DEF Base, Queue
<1>7. CASE SetFocus \/ LoseFocus \/ KillThreadFocus
  <2>1. Focused BY <1>7 DEF SetFocus, LoseFocus, KillThreadFocus
  <2>2. /\ used' \in [crashes : 0 .. MaxCrashes, focus : 0 .. MaxFocus, keys : 0 .. MaxKeys]
        /\ used'.crashes = used.crashes
    BY <1>0, <2>1 DEF Focused, Base
  <2>3. focus' \in BOOLEAN /\ front' \in BOOLEAN /\ comp' \in BOOLEAN
    <3>1. CASE SetFocus
      <4>1. PICK other \in BOOLEAN : comp' = (comp /\ ~other) BY <3>1 DEF SetFocus
      <4> QED BY <3>1, <4>1 DEF SetFocus
    <3>2. CASE LoseFocus BY <3>2 DEF LoseFocus, Base
    <3>3. CASE KillThreadFocus BY <3>3 DEF KillThreadFocus, Base
    <3> QED BY <1>7, <3>1, <3>2, <3>3
  <2>4. svc' = svc /\ due' = due /\ posted' = posted BY <2>1 DEF Focused
  <2> QED BY <2>2, <2>3, <2>4 DEF Base, Queue
<1>8. CASE Key \/ Click \/ Caret
  <2>1. Typed BY <1>8 DEF Key, Click, Caret
  <2>2. /\ used' \in [crashes : 0 .. MaxCrashes, focus : 0 .. MaxFocus, keys : 0 .. MaxKeys]
        /\ used'.crashes = used.crashes
    BY <1>0, <2>1 DEF Typed, Base
  <2>3. svc' = svc /\ due' = due /\ posted' = posted /\ focus' = focus /\ front' = front
    BY <2>1 DEF Typed
  <2>4. comp' \in BOOLEAN
    <3>1. CASE Key
      <4>1. comp' \in BOOLEAN \/ comp' = comp BY <3>1 DEF Key
      <4> QED BY <4>1 DEF Base
    <3>2. CASE Click
      <4>1. comp' \in {comp, FALSE} \/ comp' = comp BY <3>2 DEF Click
      <4> QED BY <4>1 DEF Base
    <3>3. CASE Caret BY <3>3 DEF Caret, Base
    <3> QED BY <1>8, <3>1, <3>2, <3>3
  <2> QED BY <2>2, <2>3, <2>4 DEF Base, Queue
<1>9. CASE EndComposition BY <1>9 DEF EndComposition, Base, Queue
<1>10. CASE UNCHANGED vars BY <1>10 DEF vars, Base, Queue
<1> QED BY <1>1, <1>2, <1>3, <1>4, <1>5, <1>6, <1>7, <1>8, <1>9, <1>10 DEF Next

LEMMA InitIs == Init => IInv /\ KnownInv
<1> SUFFICES ASSUME Init PROVE IInv /\ KnownInv OBVIOUS
<1>1. 0 \in 0..MaxRetries /\ 1 \in 0..MaxFailures /\ 0 \in 0..MaxBusy /\ 0 \in 0..MaxCrashes
      /\ 0 \in 0..MaxFocus /\ 0 \in 0..MaxKeys
  BY ReadyAssumption
<1>2. /\ c \in Fields /\ c.conn = "none" /\ ~c.est /\ ~c.known /\ c.mode = "initial"
      /\ c.failR = 0 /\ c.failF = 0 /\ ~c.timerF
  BY <1>1 DEF Init, Fields
<1>3. Fit(c) /\ Timers(c) BY <1>2 DEF Fit, Timers
<1>4. Base BY <1>1 DEF Init, Base
<1>6. used.crashes = 0 /\ posted = 0 BY DEF Init
<1>7. Queue BY <1>6 DEF Queue
<1>5. KnownInv BY DEF Init, KnownInv, Current
<1> QED BY <1>3, <1>4, <1>5, <1>7 DEF IInv

THEOREM Invariant == Spec => []IInv
<1>1. IInv /\ [Next]_vars => IInv' BY FieldsStep, BaseStep DEF IInv
<1> QED BY <1>1, InitIs, PTL DEF Spec

(* TypeOK: whatever fails, and in whatever order the messages, timers and  *)
(* callbacks come, a host with no connection has no established state, an  *)
(* open breaker has no connection, a failure is retried only while its     *)
(* timer is set, and no more SERVICE_READY are in the queue than the       *)
(* service has had lives (IPCClient.cpp, LangBarItemButton.cpp).           *)
THEOREM TypeCorrect == Spec => []TypeOK
<1>1. IInv => TypeOK
  <2> SUFFICES ASSUME IInv PROVE TypeOK OBVIOUS
  <2>1. MaxCrashes \in Nat /\ used.crashes \in 0..MaxCrashes BY ReadyAssumption DEF IInv, Base
  <2>2. posted \in 0 .. MaxCrashes + 1 BY <2>1 DEF IInv, Queue
  <2>3. {due, focus, front, comp} \subseteq BOOLEAN BY DEF IInv, Base
  <2> QED BY <2>2, <2>3 DEF TypeOK, IInv, Base, Fit, Timers, Fields
<1> QED BY <1>1, Invariant, PTL

(* ModeKept: unless a click of the language bar has reached a connection   *)
(* whose state is not established, a retry for SERVICE_READY leaves the    *)
(* mode of the service as it is: a mode of the user is there only on an    *)
(* established connection, and a retry that finds one stops                *)
(* (StopAlreadySynced in ServiceReadyRetryPolicy.h).                       *)
THEOREM RetriesKeepMode ==
  ASSUME "click" \notin Faults
  PROVE  Spec => ModeKept
<1>1. IInv /\ [Next]_vars => [ReadyTimer /\ c.failR > 0 => c'.mode = c.mode]_vars
  BY ReadyTimerStep
<1> QED BY <1>1, Invariant, PTL DEF Spec, ModeKept

(* NothingForgotten: unless a key is sent without a connection by a host   *)
(* that has nothing to synchronise, a host that is typed into and has a    *)
(* connection is known to the service once no message and no timer is left *)
(* or one of its flags still says that it is not: the flags, the timers    *)
(* and what has been sent always account for what the service lost.        *)
THEOREM HostRemembered ==
  ASSUME "key_connects" \notin Faults
  PROVE  Spec => []NothingForgotten
<1>1. KnownInv => NothingForgotten BY DEF KnownInv, NothingForgotten, Settled, Current, Told, Waits
<1>2. IInv /\ KnownInv /\ [Next]_vars => KnownInv' BY FieldsStep
<1> QED BY <1>1, <1>2, InitIs, Invariant, PTL DEF Spec
==============================================================================
