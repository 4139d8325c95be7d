---------------------------- MODULE HostFocusProofs ----------------------------
(***************************************************************************)
(* What holds of HostFocus for any number of hosts, documents, callbacks   *)
(* and activations.  The user never leaves a host before what it sent has  *)
(* been handled (Patient); which of the other faults each property outlives*)
(* is said where it is defined.                                            *)
(***************************************************************************)
EXTENDS HostFocus, SequenceTheorems, FiniteSetTheorems, TLAPS

USE FocusAssumption

--------------------------------------------------------------------------------
(* Requests and sequences of them.                                           *)

Of(kinds) == {r \in Requests : r.kind \in kinds}

\* Requests that end the editable context, and those that empty the input.
Losing == {r \in Requests : r.kind = "deactivated" \/ (r.kind = "lost" /\ r.reason # "doc_changed")}
Clearing == {r \in Requests : r.kind = "lost" /\ ClearsInput(r.reason)}

Has(p, S) == \E i \in 1 .. Len(p) : p[i] \in S

\* One of S with none of T behind it.
After(p, S, T) == \E i \in 1 .. Len(p) : p[i] \in S /\ \A j \in i + 1 .. Len(p) : p[j] \notin T

LEMMA RequestSorts ==
  /\ \A k \in {"activated", "deactivated", "gained", "terminated"} :
       /\ Req(k) \in Requests /\ Req(k).kind = k
       /\ \A K : Req(k) \in Of(K) <=> k \in K
       /\ Req(k) \in Losing <=> k = "deactivated"
       /\ Req(k) \notin Clearing
  /\ \A x \in Reasons :
       /\ Lost(x) \in Requests /\ Lost(x).kind = "lost" /\ Lost(x).reason = x
       /\ \A K : Lost(x) \in Of(K) <=> "lost" \in K
       /\ Lost(x) \in Losing <=> x # "doc_changed"
       /\ Lost(x) \in Clearing <=> x # "ctx_lost"
  /\ \A d \in Docs :
       /\ KeyOn(d) \in Requests /\ KeyOn(d).kind = "key" /\ KeyOn(d).doc = d
       /\ \A K : KeyOn(d) \in Of(K) <=> "key" \in K
       /\ KeyOn(d) \notin Losing /\ KeyOn(d) \notin Clearing
BY DEF Req, Lost, KeyOn, Requests, Of, Losing, Clearing, ClearsInput, Reasons

LEMMA ReasonsAre == {"thread", "doc_changed", "ctx_lost", "no_edit_ctx"} \subseteq Reasons
BY DEF Reasons

LEMMA KindsAre ==
  ASSUME NEW r \in Requests
  PROVE  /\ r.kind \in {"activated", "deactivated", "gained", "terminated", "lost", "key"}
         /\ r.kind = "key" => r.doc \in Docs
         /\ r.kind = "lost" => r.reason \in Reasons
BY DEF Requests, Req, Lost, KeyOn

LEMMA TailIs ==
  ASSUME NEW s \in Seq(Requests), s # <<>>
  PROVE  /\ Tail(s) \in Seq(Requests) /\ Len(s) \in Nat /\ Len(s) >= 1 /\ s[1] \in Requests
         /\ Len(Tail(s)) = Len(s) - 1
         /\ \A i \in 1 .. Len(s) - 1 : Tail(s)[i] = s[i + 1]
BY EmptySeq, HeadTailProperties

LEMMA HasTail ==
  ASSUME NEW s \in Seq(Requests), s # <<>>, NEW S
  PROVE  Has(s, S) <=> s[1] \in S \/ Has(Tail(s), S)
<1>1. \A i \in 1 .. Len(s) : i = 1 \/ (i - 1 \in 1 .. Len(s) - 1 /\ s[i] = Tail(s)[i - 1]) BY TailIs
<1>2. \A i \in 1 .. Len(s) - 1 : i + 1 \in 1 .. Len(s) /\ s[i + 1] = Tail(s)[i] BY TailIs
<1>3. 1 \in 1 .. Len(s) BY TailIs
<1> QED BY <1>1, <1>2, <1>3, TailIs DEF Has

LEMMA AfterTail ==
  ASSUME NEW s \in Seq(Requests), s # <<>>, NEW S, NEW T
  PROVE  After(s, S, T) <=> After(Tail(s), S, T) \/ (s[1] \in S /\ ~Has(Tail(s), T))
<1> DEFINE n == Len(s)  g == Tail(s)
<1>0. n \in Nat /\ n >= 1 /\ Len(g) = n - 1 /\ \A i \in 1 .. n - 1 : g[i] = s[i + 1] BY TailIs
<1> HIDE DEF n, g
<1>1. \A i \in 1 .. n - 1 : (\A j \in i + 1 .. n - 1 : g[j] \notin T) <=> (\A j \in i + 2 .. n : s[j] \notin T)
  <2> TAKE i \in 1 .. n - 1
  <2>1. \A j \in i + 1 .. n - 1 : j + 1 \in i + 2 .. n /\ g[j] = s[j + 1] BY <1>0
  <2>2. \A j \in i + 2 .. n : j - 1 \in i + 1 .. n - 1 /\ g[j - 1] = s[j] BY <1>0
  <2> QED BY <2>1, <2>2
<1>2. (\A j \in 1 .. n - 1 : g[j] \notin T) <=> (\A j \in 2 .. n : s[j] \notin T)
  <2>1. \A j \in 1 .. n - 1 : j + 1 \in 2 .. n /\ g[j] = s[j + 1] BY <1>0
  <2>2. \A j \in 2 .. n : j - 1 \in 1 .. n - 1 /\ g[j - 1] = s[j] BY <1>0
  <2> QED BY <2>1, <2>2
<1>3. ASSUME NEW i \in 1 .. n, s[i] \in S, \A j \in i + 1 .. n : s[j] \notin T
      PROVE  (\E k \in 1 .. n - 1 : g[k] \in S /\ \A j \in k + 1 .. n - 1 : g[j] \notin T)
             \/ (s[1] \in S /\ \A j \in 1 .. n - 1 : g[j] \notin T)
  <2>1. CASE i = 1 BY <1>2, <1>3, <2>1
  <2>2. CASE i # 1
    <3>1. i - 1 \in 1 .. n - 1 /\ g[i - 1] = s[i] /\ i - 1 + 2 = i + 1 BY <1>0, <2>2
    <3>2. \A j \in i - 1 + 1 .. n - 1 : g[j] \notin T BY <1>1, <1>3, <3>1
    <3> QED BY <1>3, <3>1, <3>2
  <2> QED BY <2>1, <2>2
<1>4. ASSUME NEW k \in 1 .. n - 1, g[k] \in S, \A j \in k + 1 .. n - 1 : g[j] \notin T
      PROVE  \E i \in 1 .. n : s[i] \in S /\ \A j \in i + 1 .. n : s[j] \notin T
  <2>1. k + 1 \in 1 .. n /\ s[k + 1] = g[k] /\ k + 1 + 1 = k + 2 BY <1>0
  <2> QED BY <1>1, <1>4, <2>1
<1>5. ASSUME s[1] \in S, \A j \in 1 .. n - 1 : g[j] \notin T
      PROVE  \E i \in 1 .. n : s[i] \in S /\ \A j \in i + 1 .. n : s[j] \notin T
  <2>1. 1 \in 1 .. n /\ 1 + 1 = 2 BY <1>0
  <2> QED BY <1>2, <1>5, <2>1
<1>6. Len(g) = n - 1 BY <1>0
<1>7. After(s, S, T) <=> \E i \in 1 .. n : s[i] \in S /\ \A j \in i + 1 .. n : s[j] \notin T BY DEF After, n
<1>8. After(g, S, T) <=> \E k \in 1 .. n - 1 : g[k] \in S /\ \A j \in k + 1 .. n - 1 : g[j] \notin T BY <1>6 DEF After
<1>9. Has(g, T) <=> \E j \in 1 .. n - 1 : g[j] \in T BY <1>6 DEF Has
<1>10. After(s, S, T) <=> After(g, S, T) \/ (s[1] \in S /\ ~Has(g, T))
  BY <1>3, <1>4, <1>5, <1>7, <1>8, <1>9
<1> QED BY <1>10 DEF g

LEMMA GlueIs ==
  ASSUME NEW s \in Seq(Requests), NEW e \in Seq(Requests)
  PROVE  /\ s \o e \in Seq(Requests) /\ Len(s) \in Nat /\ Len(e) \in Nat
         /\ Len(s \o e) = Len(s) + Len(e)
         /\ \A i \in 1 .. Len(s) : (s \o e)[i] = s[i]
         /\ \A i \in 1 .. Len(e) : (s \o e)[Len(s) + i] = e[i]
BY ConcatProperties

LEMMA HasGlue ==
  ASSUME NEW s \in Seq(Requests), NEW e \in Seq(Requests), NEW S
  PROVE  Has(s \o e, S) <=> Has(s, S) \/ Has(e, S)
<1>1. \A i \in 1 .. Len(s) : i \in 1 .. Len(s \o e) /\ (s \o e)[i] = s[i] BY GlueIs
<1>2. \A i \in 1 .. Len(e) : Len(s) + i \in 1 .. Len(s \o e) /\ (s \o e)[Len(s) + i] = e[i] BY GlueIs
<1>3. \A i \in 1 .. Len(s \o e) : i \in 1 .. Len(s) \/ (i - Len(s) \in 1 .. Len(e) /\ i = Len(s) + (i - Len(s)))
  BY GlueIs
<1> QED BY <1>1, <1>2, <1>3 DEF Has

LEMMA AfterGlue ==
  ASSUME NEW s \in Seq(Requests), NEW e \in Seq(Requests), NEW S, NEW T
  PROVE  After(s \o e, S, T) <=> After(e, S, T) \/ (After(s, S, T) /\ ~Has(e, T))
<1> DEFINE m == Len(s)  n == Len(e)  g == s \o e
<1>0. /\ m \in Nat /\ n \in Nat /\ Len(g) = m + n
      /\ \A i \in 1 .. m : g[i] = s[i]
      /\ \A i \in 1 .. n : g[m + i] = e[i]
  BY GlueIs
<1> HIDE DEF m, n, g
<1>1. ASSUME NEW i \in 1 .. n, e[i] \in S, \A j \in i + 1 .. n : e[j] \notin T
      PROVE  \E k \in 1 .. m + n : g[k] \in S /\ \A j \in k + 1 .. m + n : g[j] \notin T
  <2>1. m + i \in 1 .. m + n /\ g[m + i] \in S BY <1>0, <1>1
  <2>2. \A j \in m + i + 1 .. m + n : j - m \in i + 1 .. n /\ j - m \in 1 .. n /\ m + (j - m) = j BY <1>0
  <2>3. \A j \in m + i + 1 .. m + n : g[j] \notin T BY <1>0, <1>1, <2>2
  <2> QED BY <2>1, <2>3
<1>2. ASSUME NEW i \in 1 .. m, s[i] \in S, \A j \in i + 1 .. m : s[j] \notin T, \A j \in 1 .. n : e[j] \notin T
      PROVE  \E k \in 1 .. m + n : g[k] \in S /\ \A j \in k + 1 .. m + n : g[j] \notin T
  <2>1. i \in 1 .. m + n /\ g[i] \in S BY <1>0, <1>2
  <2>2. \A j \in i + 1 .. m + n : (j \in i + 1 .. m /\ j \in 1 .. m) \/ (j - m \in 1 .. n /\ m + (j - m) = j) BY <1>0
  <2>3. \A j \in i + 1 .. m + n : g[j] \notin T BY <1>0, <1>2, <2>2
  <2> QED BY <2>1, <2>3
<1>3. ASSUME NEW k \in 1 .. m + n, g[k] \in S, \A j \in k + 1 .. m + n : g[j] \notin T
      PROVE  \/ \E i \in 1 .. n : e[i] \in S /\ \A j \in i + 1 .. n : e[j] \notin T
             \/ (\E i \in 1 .. m : s[i] \in S /\ \A j \in i + 1 .. m : s[j] \notin T) /\ \A j \in 1 .. n : e[j] \notin T
  <2>1. CASE k \in 1 .. m
    <3>1. s[k] \in S BY <1>0, <1>3, <2>1
    <3>2. \A j \in k + 1 .. m : j \in 1 .. m /\ j \in k + 1 .. m + n BY <1>0, <2>1
    <3>3. \A j \in 1 .. n : m + j \in k + 1 .. m + n BY <1>0, <2>1
    <3> QED BY <1>0, <1>3, <2>1, <3>1, <3>2, <3>3
  <2>2. CASE k \notin 1 .. m
    <3>1. k - m \in 1 .. n /\ m + (k - m) = k BY <1>0, <2>2
    <3>2. e[k - m] \in S BY <1>0, <1>3, <3>1
    <3>3. \A j \in k - m + 1 .. n : j \in 1 .. n /\ m + j \in k + 1 .. m + n BY <1>0, <3>1
    <3>4. \A j \in k - m + 1 .. n : e[j] \notin T BY <1>0, <1>3, <3>3
    <3> QED BY <3>1, <3>2, <3>4
  <2> QED BY <2>1, <2>2
<1>4. After(g, S, T) <=> \E k \in 1 .. m + n : g[k] \in S /\ \A j \in k + 1 .. m + n : g[j] \notin T BY <1>0 DEF After
<1>5. After(e, S, T) <=> \E i \in 1 .. n : e[i] \in S /\ \A j \in i + 1 .. n : e[j] \notin T BY DEF After, n
<1>6. After(s, S, T) <=> \E i \in 1 .. m : s[i] \in S /\ \A j \in i + 1 .. m : s[j] \notin T BY DEF After, m
<1>7. Has(e, T) <=> \E j \in 1 .. n : e[j] \in T BY DEF Has, n
<1>8. After(g, S, T) <=> After(e, S, T) \/ (After(s, S, T) /\ ~Has(e, T)) BY <1>1, <1>2, <1>3, <1>4, <1>5, <1>6, <1>7
<1> QED BY <1>8 DEF g

LEMMA AfterHas == ASSUME NEW s, NEW S, NEW T, After(s, S, T) PROVE Has(s, S)
BY DEF After, Has

\* What a callback sends is short.
LEMMA ShortHas ==
  ASSUME NEW a \in Requests, NEW b \in Requests
  PROVE  /\ <<>> \in Seq(Requests) /\ <<a>> \in Seq(Requests) /\ <<a, b>> \in Seq(Requests)
         /\ \A S : ~Has(<<>>, S) /\ (Has(<<a>>, S) <=> a \in S) /\ (Has(<<a, b>>, S) <=> a \in S \/ b \in S)
         /\ \A S, T : ~After(<<>>, S, T) /\ (After(<<a>>, S, T) <=> a \in S)
                      /\ (After(<<a, b>>, S, T) <=> b \in S \/ (a \in S /\ b \notin T))
<1>1. Len(<<>>) = 0 /\ Len(<<a>>) = 1 /\ Len(<<a, b>>) = 2 OBVIOUS
<1>2. <<a>>[1] = a /\ <<a, b>>[1] = a /\ <<a, b>>[2] = b OBVIOUS
<1>3. 1 .. 0 = {} /\ 1 .. 1 = {1} /\ 1 .. 2 = {1, 2} /\ 1 + 1 .. 1 = {} /\ 1 + 1 .. 2 = {2} /\ 2 + 1 .. 2 = {} OBVIOUS
<1>4. \A S : ~Has(<<>>, S) /\ (Has(<<a>>, S) <=> a \in S) /\ (Has(<<a, b>>, S) <=> a \in S \/ b \in S)
  BY <1>1, <1>2, <1>3 DEF Has
<1>5. \A S, T : ~After(<<>>, S, T) BY <1>1, <1>3 DEF After
<1>6. ASSUME NEW S, NEW T PROVE After(<<a>>, S, T) <=> a \in S BY <1>1, <1>2, <1>3 DEF After
<1>7. ASSUME NEW S, NEW T PROVE After(<<a, b>>, S, T) <=> b \in S \/ (a \in S /\ b \notin T)
  BY <1>1, <1>2, <1>3 DEF After
<1> QED BY <1>4, <1>5, <1>6, <1>7

--------------------------------------------------------------------------------
(* What each callback does to the fields of its DLL, and what it sends.      *)

Dlls == [on : BOOLEAN, gen : 0 .. MaxStarts, lastActive : Docs \cup {NoDoc},
         lastFocused : Docs \cup {NoDoc}, lostSent : BOOLEAN, ctxReported : BOOLEAN,
         comp : Docs \cup {NoDoc}, out : Seq(Requests)]
Idle(r) == r \in Dlls /\ r.out = <<>> /\ (r.ctxReported => ~r.lostSent)

\* The fields of h become q, and e goes to its connection.
Sent(h, q, e) ==
  /\ Idle(q) /\ e \in Seq(Requests)
  /\ dll' = [dll EXCEPT ![h] = q]
  /\ pipe' = [pipe EXCEPT ![<<h, q.gen>>] = @ \o e]

Moved(r, d) == d # r.lastFocused /\ r.lastActive # NoDoc
Told(d) == IF d \in Pages THEN Lost("no_edit_ctx") ELSE Req("gained")
Said(r, d) ==
  CASE d \in Transients -> <<>>
    [] d \notin Transients /\ Moved(r, d) /\ ~r.lostSent -> <<Lost("doc_changed"), Told(d)>>
    [] d \notin Transients /\ ~(Moved(r, d) /\ ~r.lostSent) -> <<Told(d)>>

\* q is r after OnSetFocus has gained d.
Gained(r, q, d) ==
  /\ q.on = r.on /\ q.gen = r.gen /\ q.lastFocused = d
  /\ q.lastActive = IF d \in Transients THEN r.lastActive ELSE d
  /\ q.lostSent <=> IF d \in Transients THEN r.lostSent ELSE d \in Pages
  /\ q.comp = IF Moved(r, d) THEN NoDoc ELSE r.comp

LEMMA DocsApart ==
  /\ \A d \in Docs : d \in Edits \/ d \in Pages \/ d \in Transients
  /\ \A d \in Edits : d \in Docs /\ d \notin Pages /\ d \notin Transients /\ d # NoDoc
  /\ \A d \in Pages : d \in Docs /\ d \notin Edits /\ d \notin Transients /\ d # NoDoc
  /\ \A d \in Transients : d \in Docs /\ d \notin Edits /\ d \notin Pages /\ d # NoDoc
BY DEF Docs

LEMMA ToldIs ==
  ASSUME NEW d \in Docs, d \notin Transients
  PROVE  Told(d) \in Requests /\ (d \in Edits => Told(d) = Req("gained")) /\ (d \in Pages => Told(d) = Lost("no_edit_ctx"))
BY RequestSorts, ReasonsAre, DocsApart DEF Told

LEMMA SaidIs ==
  ASSUME NEW r \in Dlls, NEW d \in Docs
  PROVE  /\ Said(r, d) \in Seq(Requests)
         /\ d \in Transients => Said(r, d) = <<>>
         /\ d \notin Transients => Said(r, d) = IF Moved(r, d) /\ ~r.lostSent THEN <<Lost("doc_changed"), Told(d)>> ELSE <<Told(d)>>
<1>1. CASE d \in Transients BY <1>1 DEF Said
<1>2. CASE d \notin Transients /\ Moved(r, d) /\ ~r.lostSent
  <2>1. Told(d) \in Requests /\ Lost("doc_changed") \in Requests BY <1>2, ToldIs, RequestSorts, ReasonsAre
  <2>2. Said(r, d) = <<Lost("doc_changed"), Told(d)>> BY <1>2 DEF Said
  <2> QED BY <1>2, <2>1, <2>2, ShortHas
<1>3. CASE d \notin Transients /\ ~(Moved(r, d) /\ ~r.lostSent)
  <2>1. Told(d) \in Requests BY <1>3, ToldIs
  <2>2. Said(r, d) = <<Told(d)>> BY <1>3 DEF Said
  <2> QED BY <1>3, <2>1, <2>2, ShortHas
<1> QED BY <1>1, <1>2, <1>3

LEMMA PairIs ==
  ASSUME NEW a \in Requests, NEW b \in Requests
  PROVE  <<a>> \o <<b>> = <<a, b>>
<1>0. <<a>> \in Seq(Requests) /\ <<b>> \in Seq(Requests) OBVIOUS
<1>1. Append(<<a>>, b) = <<a>> \o <<b>> BY <1>0, AppendIsConcat
<1>2. Len(Append(<<a>>, b)) = 2 /\ Append(<<a>>, b)[1] = a /\ Append(<<a>>, b)[2] = b
      /\ Append(<<a>>, b) \in Seq(Requests)
  BY <1>0, AppendProperties
<1>3. <<a, b>> \in Seq(Requests) /\ Len(<<a, b>>) = 2 OBVIOUS
<1>4. Append(<<a>>, b) = <<a, b>> 
  <2>1. \A i \in 1 .. 2 : Append(<<a>>, b)[i] = <<a, b>>[i] BY <1>2
  <2> QED BY <1>2, <1>3, <2>1, SeqEqual
<1> QED BY <1>1, <1>4

LEMMA AppendIsGlue ==
  ASSUME NEW s \in Seq(Requests), NEW a \in Requests, NEW b \in Requests
  PROVE  /\ Append(s, a) = s \o <<a>> /\ Append(s, a) \in Seq(Requests)
         /\ Append(Append(s, a), b) = s \o <<a, b>>
         /\ s \o <<>> = s
<1>1. <<a>> \in Seq(Requests) /\ <<b>> \in Seq(Requests) OBVIOUS
<1>2. Append(s, a) = s \o <<a>> /\ Append(s, a) \in Seq(Requests) BY AppendIsConcat, AppendProperties
<1>3. Append(Append(s, a), b) = (s \o <<a>>) \o <<b>> BY <1>2, AppendIsConcat
<1>4. (s \o <<a>>) \o <<b>> = s \o (<<a>> \o <<b>>) BY <1>1, ConcatAssociative
<1>5. <<a>> \o <<b>> = <<a, b>> BY PairIs
<1> QED BY <1>2, <1>3, <1>4, <1>5, ConcatEmptySeq

\* A cleanup that may not report the loss, and one that may.
LEMMA Cleaning ==
  ASSUME NEW r \in Dlls, NEW x \in Reasons, r.ctxReported => ~r.lostSent
  PROVE  /\ Cleanup(r, x, FALSE) = [r EXCEPT !.comp = NoDoc]
         /\ Cleanup(r, x, TRUE) = IF r.lostSent THEN [r EXCEPT !.comp = NoDoc]
                                  ELSE [r EXCEPT !.comp = NoDoc, !.lostSent = TRUE, !.ctxReported = FALSE,
                                                 !.out = Append(r.out, Lost(x))]
         /\ Append(r.out, Lost(x)) \in Seq(Requests)
<1>1. Lost(x) \in Requests BY RequestSorts
<1>2. Append(r.out, Lost(x)) \in Seq(Requests) BY <1>1, AppendProperties DEF Dlls
<1>3. r.lostSent \in BOOLEAN /\ r.ctxReported \in BOOLEAN BY DEF Dlls
<1>4. CASE r.lostSent
  <2>1. (r.lostSent \/ (FALSE /\ ~r.lostSent)) = r.lostSent /\ (r.ctxReported /\ ~(FALSE /\ ~r.lostSent)) = r.ctxReported
        /\ (r.lostSent \/ (TRUE /\ ~r.lostSent)) = r.lostSent /\ (r.ctxReported /\ ~(TRUE /\ ~r.lostSent)) = r.ctxReported
    BY <1>3, <1>4
  <2> QED BY <1>2, <1>3, <1>4, <2>1 DEF Cleanup, Dlls
<1>5. CASE ~r.lostSent
  <2>1. (r.lostSent \/ (FALSE /\ ~r.lostSent)) = r.lostSent /\ (r.ctxReported /\ ~(FALSE /\ ~r.lostSent)) = r.ctxReported
    BY <1>3, <1>5
  <2> QED BY <1>2, <1>3, <1>5, <2>1 DEF Cleanup, Dlls
<1> QED BY <1>4, <1>5

LEMMA Gaining ==
  ASSUME NEW r \in Dlls, NEW d \in Docs, r.ctxReported => ~r.lostSent
  PROVE  LET g == Gain(r, d)
         IN  /\ g \in Dlls /\ Gained(r, g, d) /\ g.out = r.out \o Said(r, d)
             /\ g.ctxReported => ~g.lostSent
<1> DEFINE moved == Moved(r, d)
           send == d \notin Transients
           left == IF moved THEN Cleanup(r, "doc_changed", send) ELSE r
           told == Report(left, d)
           g == [told EXCEPT !.lastActive = IF d \in Transients THEN @ ELSE d, !.lastFocused = d]
<1>0. Gain(r, d) = g BY DEF Gain, Moved
<1>1. /\ left \in Dlls /\ left.on = r.on /\ left.gen = r.gen
      /\ left.lastActive = r.lastActive /\ left.comp = IF moved THEN NoDoc ELSE r.comp
      /\ (left.lostSent <=> r.lostSent \/ (moved /\ send))
      /\ left.out = IF moved /\ send /\ ~r.lostSent THEN Append(r.out, Lost("doc_changed")) ELSE r.out
      /\ left.ctxReported => ~left.lostSent
  <2>1. CASE moved
    <3>1. "doc_changed" \in Reasons BY ReasonsAre
    <3>2. CASE d \in Transients
      <4>1. left = Cleanup(r, "doc_changed", FALSE) BY <2>1, <3>2
      <4> DEFINE c == Cleanup(r, "doc_changed", FALSE)
      <4>5. /\ c = [r EXCEPT !.comp = NoDoc]
            /\ Append(r.out, Lost("doc_changed")) \in Seq(Requests)
        BY <3>1, Cleaning
      <4> HIDE DEF c
      <4>2. /\ c \in Dlls /\ c.on = r.on /\ c.gen = r.gen /\ c.lastActive = r.lastActive /\ c.comp = NoDoc
            /\ c.lostSent <=> r.lostSent
            /\ c.out = r.out
            /\ c.ctxReported => ~c.lostSent
        BY <4>5 DEF Dlls
      <4> HIDE DEF c
      <4>3. left = c BY <4>1 DEF c
      <4> QED BY <2>1, <3>2, <4>2, <4>3
    <3>3. CASE d \notin Transients
      <4>1. left = Cleanup(r, "doc_changed", TRUE) BY <2>1, <3>3
      <4> DEFINE c == Cleanup(r, "doc_changed", TRUE)
      <4>5. /\ c = IF r.lostSent THEN [r EXCEPT !.comp = NoDoc]
                     ELSE [r EXCEPT !.comp = NoDoc, !.lostSent = TRUE, !.ctxReported = FALSE,
                                    !.out = Append(r.out, Lost("doc_changed"))]
            /\ Append(r.out, Lost("doc_changed")) \in Seq(Requests)
        BY <3>1, Cleaning
      <4> HIDE DEF c
      <4>2. /\ c \in Dlls /\ c.on = r.on /\ c.gen = r.gen /\ c.lastActive = r.lastActive /\ c.comp = NoDoc
            /\ c.lostSent <=> TRUE
            /\ c.out = IF r.lostSent THEN r.out ELSE Append(r.out, Lost("doc_changed"))
            /\ c.ctxReported => ~c.lostSent
        BY <4>5 DEF Dlls
      <4> HIDE DEF c
      <4>3. left = c BY <4>1 DEF c
      <4> QED BY <2>1, <3>3, <4>2, <4>3
    <3> QED BY <3>2, <3>3
  <2>2. CASE ~moved
    <3>1. left = r BY <2>2
    <3> QED BY <2>2, <3>1
  <2> QED BY <2>1, <2>2
<1> HIDE DEF left
<1>2. r.out \in Seq(Requests) /\ Lost("doc_changed") \in Requests BY RequestSorts, ReasonsAre DEF Dlls
<1>3. CASE d \in Transients
  <2>1. told = left BY <1>3, DocsApart DEF Report
  <2>2. g \in Dlls /\ g.on = r.on /\ g.gen = r.gen /\ g.lastFocused = d /\ g.lastActive = r.lastActive
        /\ g.comp = left.comp /\ g.lostSent = r.lostSent /\ g.out = r.out /\ (g.ctxReported => ~g.lostSent)
    BY <1>1, <1>3, <2>1 DEF Dlls
  <2>3. g.out = r.out \o Said(r, d) BY <1>2, <1>3, <2>2, SaidIs, AppendIsGlue
  <2> QED BY <1>0, <1>1, <1>3, <2>2, <2>3 DEF Gained
<1>4. CASE d \notin Transients
  <2>1. Told(d) \in Requests BY <1>4, ToldIs
  <2>2. Append(left.out, Told(d)) = r.out \o Said(r, d)
    <3>1. CASE moved /\ ~r.lostSent
      <4>1. left.out = Append(r.out, Lost("doc_changed")) /\ Said(r, d) = <<Lost("doc_changed"), Told(d)>>
        BY <1>1, <1>4, <3>1, SaidIs
      <4> QED BY <1>2, <2>1, <4>1, AppendIsGlue
    <3>2. CASE ~(moved /\ ~r.lostSent)
      <4>1. left.out = r.out /\ Said(r, d) = <<Told(d)>> BY <1>1, <1>4, <3>2, SaidIs
      <4> QED BY <1>2, <2>1, <4>1, AppendIsGlue
    <3> QED BY <3>1, <3>2
  <2>3. Append(left.out, Told(d)) \in Seq(Requests) BY <1>1, <2>1, AppendProperties DEF Dlls
  <2>4. CASE d \in Pages
    <3>1. told = [left EXCEPT !.lostSent = TRUE, !.ctxReported = FALSE, !.out = Append(@, Told(d))]
      BY <1>4, <2>4, DocsApart, ToldIs DEF Report
    <3>2. g \in Dlls /\ g.on = r.on /\ g.gen = r.gen /\ g.lastFocused = d /\ g.lastActive = d
          /\ g.comp = left.comp /\ g.lostSent = TRUE /\ g.ctxReported = FALSE /\ g.out = Append(left.out, Told(d))
      BY <1>1, <1>4, <2>3, <3>1 DEF Dlls
    <3> QED BY <1>0, <1>1, <1>4, <2>2, <2>4, <3>2 DEF Gained
  <2>5. CASE d \notin Pages
    <3>1. told = [left EXCEPT !.lostSent = FALSE, !.ctxReported = TRUE, !.out = Append(@, Told(d))]
      BY <1>4, <2>5, DocsApart, ToldIs DEF Report
    <3>2. g \in Dlls /\ g.on = r.on /\ g.gen = r.gen /\ g.lastFocused = d /\ g.lastActive = d
          /\ g.comp = left.comp /\ g.lostSent = FALSE /\ g.ctxReported = TRUE /\ g.out = Append(left.out, Told(d))
      BY <1>1, <1>4, <2>3, <3>1 DEF Dlls
    <3>3. Gained(r, g, d)
      <4>1. g.lostSent <=> d \in Pages BY <2>5, <3>2
      <4> QED BY <1>1, <1>4, <3>2, <4>1 DEF Gained
    <3> QED BY <1>0, <2>2, <3>2, <3>3
  <2> QED BY <2>4, <2>5
<1> QED BY <1>3, <1>4

Types == TypeOK /\ \A h \in Hosts : dll[h].gen <= used.starts

LEMMA Typed ==
  ASSUME Types
  PROVE  /\ pipe \in [Tokens -> Seq(Requests)] /\ half \in [Tokens -> 0 .. 2]
         /\ dll = [h \in Hosts |-> dll[h]] /\ doc \in [Hosts -> Docs \cup {NoDoc}]
         /\ \A h \in Hosts : Idle(dll[h]) /\ Tok(h) \in Tokens /\ dll[h].gen \in 0 .. MaxStarts
         /\ \A h \in Hosts, n \in 0 .. MaxStarts : <<h, n>> \in Tokens
         /\ \A t \in Tokens : t[1] \in Hosts /\ t = <<t[1], t[2]>>
         /\ NoToken \notin Tokens
<1>1. dll = [h \in Hosts |-> dll[h]] /\ \A h \in Hosts : Idle(dll[h]) /\ dll[h].gen \in 0 .. MaxStarts
  <2>1. <<>> \in Seq(Requests) OBVIOUS
  <2> QED BY <2>1 DEF Types, TypeOK, Idle, Dlls
<1>2. \A h \in Hosts, n \in 0 .. MaxStarts : <<h, n>> \in Tokens BY DEF Tokens
<1>3. \A t \in Tokens : t[1] \in Hosts /\ t = <<t[1], t[2]>> BY DEF Tokens
<1>4. NoToken \notin Tokens BY DEF NoToken, Tokens
<1> QED BY <1>1, <1>2, <1>3, <1>4 DEF Types, TypeOK, Tok

LEMMA BecomesIs ==
  ASSUME NEW h, NEW r \in Dlls, r.ctxReported => ~r.lostSent, Becomes(h, r)
  PROVE  \E q : /\ Sent(h, q, r.out) /\ q = [r EXCEPT !.out = <<>>]
                /\ q.on = r.on /\ q.gen = r.gen /\ q.lastFocused = r.lastFocused
                /\ q.lastActive = r.lastActive /\ q.comp = r.comp /\ q.lostSent = r.lostSent
<1> DEFINE q == [r EXCEPT !.out = <<>>]
<1>1. <<>> \in Seq(Requests) /\ r.out \in Seq(Requests) BY DEF Dlls
<1>2. /\ Idle(q) /\ q.on = r.on /\ q.gen = r.gen /\ q.lastFocused = r.lastFocused
      /\ q.lastActive = r.lastActive /\ q.comp = r.comp /\ q.lostSent = r.lostSent
  BY <1>1 DEF Idle, Dlls
<1>3. dll' = [dll EXCEPT ![h] = q] /\ pipe' = [pipe EXCEPT ![<<h, q.gen>>] = @ \o r.out] BY <1>2 DEF Becomes
<1> HIDE DEF q
<1>4. Sent(h, q, r.out) BY <1>1, <1>2, <1>3 DEF Sent
<1> QED BY <1>2, <1>4 DEF q

\* The fields that a callback may leave alone.
Keeps(r, q) == q.on = r.on /\ q.gen = r.gen /\ q.lastFocused = r.lastFocused /\ q.lastActive = r.lastActive
KeepsAll(r, q) == Keeps(r, q) /\ q.lostSent = r.lostSent /\ q.comp = r.comp

LEMMA SetFocusDoes ==
  ASSUME Types, NEW h \in Hosts, NEW d \in Docs, SetFocus(h, d)
  PROVE  \E q : Sent(h, q, Said(dll[h], d)) /\ Gained(dll[h], q, d)
<1>1. Idle(dll[h]) BY Typed
<1> DEFINE g == Gain(dll[h], d)
<1>2. g \in Dlls /\ Gained(dll[h], g, d) /\ g.out = dll[h].out \o Said(dll[h], d) /\ (g.ctxReported => ~g.lostSent)
  BY <1>1, Gaining DEF Idle
<1>3. g.out = Said(dll[h], d) BY <1>1, <1>2, SaidIs, ConcatEmptySeq DEF Idle
<1>4. Becomes(h, g) BY DEF SetFocus
<1> HIDE DEF g
<1> QED BY <1>2, <1>3, <1>4, BecomesIs DEF Gained

LEMMA LoseFocusDoes ==
  ASSUME Types, NEW h \in Hosts, LoseFocus(h)
  PROVE  \E q, e : Sent(h, q, e) /\ KeepsAll(dll[h], q) /\ e \in {<<>>, <<Lost("ctx_lost")>>}
<1>1. Idle(dll[h]) BY Typed
<1> DEFINE g == LoseContext(dll[h])
<1>2. Lost("ctx_lost") \in Requests BY RequestSorts, ReasonsAre
<1>3. <<>> \in Seq(Requests) /\ <<Lost("ctx_lost")>> \in Seq(Requests) BY <1>2
<1>4. Append(<<>>, Lost("ctx_lost")) = <<Lost("ctx_lost")>> OBVIOUS
<1>5. /\ g \in Dlls /\ KeepsAll(dll[h], g) /\ g.out \in {<<>>, <<Lost("ctx_lost")>>}
      /\ g.ctxReported => ~g.lostSent
  BY <1>1, <1>3, <1>4 DEF LoseContext, Idle, Dlls, KeepsAll, Keeps
<1>6. Becomes(h, g) BY DEF LoseFocus
<1> HIDE DEF g
<1> QED BY <1>5, <1>6, BecomesIs DEF KeepsAll, Keeps

LEMMA KillThreadFocusDoes ==
  ASSUME Types, NEW h \in Hosts, KillThreadFocus(h)
  PROVE  \E q, e : /\ Sent(h, q, e) /\ Keeps(dll[h], q) /\ q.comp = NoDoc /\ q.lostSent = TRUE
                   /\ e = IF dll[h].lostSent THEN <<>> ELSE <<Lost("thread")>>
<1>1. Idle(dll[h]) BY Typed
<1> DEFINE g == Cleanup(dll[h], "thread", TRUE)
<1>2. Lost("thread") \in Requests /\ "thread" \in Reasons BY RequestSorts, ReasonsAre
<1>3. <<>> \in Seq(Requests) /\ <<Lost("thread")>> \in Seq(Requests) BY <1>2
<1>4. Append(<<>>, Lost("thread")) = <<Lost("thread")>> OBVIOUS
<1>5. g = IF dll[h].lostSent THEN [dll[h] EXCEPT !.comp = NoDoc]
          ELSE [dll[h] EXCEPT !.comp = NoDoc, !.lostSent = TRUE, !.ctxReported = FALSE,
                              !.out = Append(dll[h].out, Lost("thread"))]
  BY <1>1, <1>2, Cleaning DEF Idle
<1>6. Becomes(h, g) BY DEF KillThreadFocus
<1> HIDE DEF g
<1>7. /\ g \in Dlls /\ Keeps(dll[h], g) /\ g.comp = NoDoc /\ g.lostSent = TRUE
      /\ g.out = IF dll[h].lostSent THEN <<>> ELSE <<Lost("thread")>>
      /\ g.ctxReported => ~g.lostSent
  BY <1>1, <1>3, <1>4, <1>5 DEF Idle, Dlls, Keeps
<1> QED BY <1>6, <1>7, BecomesIs DEF Keeps

LEMMA TerminateDoes ==
  ASSUME Types, NEW h \in Hosts, Terminate(h)
  PROVE  \E q : /\ Sent(h, q, <<Req("terminated")>>) /\ Keeps(dll[h], q)
                /\ q.comp = NoDoc /\ q.lostSent = dll[h].lostSent
<1>1. Idle(dll[h]) BY Typed
<1> DEFINE g == [dll[h] EXCEPT !.comp = NoDoc, !.out = <<Req("terminated")>>]
<1>2. <<Req("terminated")>> \in Seq(Requests) BY RequestSorts
<1>3. /\ g \in Dlls /\ Keeps(dll[h], g) /\ g.comp = NoDoc /\ g.lostSent = dll[h].lostSent
      /\ g.out = <<Req("terminated")>> /\ (g.ctxReported => ~g.lostSent)
  BY <1>1, <1>2 DEF Idle, Dlls, Keeps
<1>4. Becomes(h, g) BY DEF Terminate
<1> HIDE DEF g
<1> QED BY <1>3, <1>4, BecomesIs DEF Keeps

LEMMA DeactivateDoes ==
  ASSUME Types, NEW h \in Hosts, Deactivate(h)
  PROVE  \E q : /\ Sent(h, q, <<Req("deactivated")>>) /\ q.on = FALSE /\ q.gen = dll[h].gen
                /\ q.comp = NoDoc
<1>1. Idle(dll[h]) BY Typed
<1> DEFINE g == [dll[h] EXCEPT !.on = FALSE, !.comp = NoDoc, !.out = <<Req("deactivated")>>]
<1>2. <<Req("deactivated")>> \in Seq(Requests) BY RequestSorts
<1>3. /\ g \in Dlls /\ g.on = FALSE /\ g.gen = dll[h].gen /\ g.comp = NoDoc
      /\ g.out = <<Req("deactivated")>> /\ (g.ctxReported => ~g.lostSent)
  BY <1>1, <1>2 DEF Idle, Dlls
<1>4. Becomes(h, g) BY DEF Deactivate
<1> HIDE DEF g
<1> QED BY <1>3, <1>4, BecomesIs

LEMMA KeyDoes ==
  ASSUME Types, NEW h \in Hosts, Key(h)
  PROVE  \E q : Sent(h, q, <<KeyOn(doc[h])>>) /\ KeepsAll(dll[h], q)
<1>1. Idle(dll[h]) BY Typed
<1> DEFINE g == [dll[h] EXCEPT !.out = <<KeyOn(doc[h])>>]
<1>2. doc[h] \in Docs BY DEF Key, Docs
<1>3. <<KeyOn(doc[h])>> \in Seq(Requests) BY <1>2, RequestSorts
<1>4. g \in Dlls /\ KeepsAll(dll[h], g) /\ g.out = <<KeyOn(doc[h])>> /\ (g.ctxReported => ~g.lostSent)
  BY <1>1, <1>3 DEF Idle, Dlls, KeepsAll, Keeps
<1>5. Becomes(h, g) BY DEF Key
<1> HIDE DEF g
<1> QED BY <1>4, <1>5, BecomesIs DEF KeepsAll, Keeps

\* What an activation says of the document that has the focus already.
Found(h) == fg = h /\ doc[h] \in Edits \cup Pages
Greeting(h) == IF Found(h) THEN <<Req("activated"), Told(doc[h])>> ELSE <<Req("activated")>>
LEMMA ActivateDoes ==
  ASSUME Types, NEW h \in Hosts, Activate(h)
  PROVE  \E q : /\ Sent(h, q, Greeting(h))
                /\ q.on = TRUE /\ q.gen = dll[h].gen + 1 /\ q.gen \in 0 .. MaxStarts /\ q.comp = NoDoc
                /\ q.lostSent <=> fg = h /\ doc[h] \in Pages
                /\ fg = h /\ doc[h] # NoDoc => q.lastFocused = doc[h]
                /\ Found(h) => q.lastActive = doc[h]
<1> DEFINE n == dll[h].gen + 1
           r == [Fresh(n) EXCEPT !.out = <<Req("activated")>>]
           d == doc[h]
<1>1. n \in 0 .. MaxStarts /\ n = dll[h].gen + 1
  <2>1. dll[h].gen \in Nat /\ dll[h].gen <= used.starts /\ used.starts \in 0 .. MaxStarts
    BY Typed DEF Types, TypeOK
  <2> QED BY <2>1 DEF Activate
<1> HIDE DEF n
<1>2. Req("activated") \in Requests BY RequestSorts
<1>3. <<>> \in Seq(Requests) /\ <<Req("activated")>> \in Seq(Requests) BY <1>2
<1>4. /\ r \in Dlls /\ r.on = TRUE /\ r.gen = n /\ r.comp = NoDoc /\ r.lostSent = FALSE
      /\ r.lastActive = NoDoc /\ r.ctxReported = FALSE /\ r.out = <<Req("activated")>>
  BY <1>1, <1>3 DEF Fresh, Dlls
<1>5. Becomes(h, IF fg = h /\ d # NoDoc THEN Gain(r, d) ELSE r) BY DEF Activate, n
<1> HIDE DEF r
<1>6. doc[h] \in Docs \cup {NoDoc} BY Typed
<1>7. CASE fg = h /\ d # NoDoc
  <2> DEFINE g == Gain(r, d)
  <2>1. d \in Docs BY <1>6, <1>7
  <2>2. g \in Dlls /\ Gained(r, g, d) /\ g.out = r.out \o Said(r, d) /\ (g.ctxReported => ~g.lostSent)
    BY <1>4, <2>1, Gaining
  <2>3. ~Moved(r, d) BY <1>4 DEF Moved
  <2>4. Becomes(h, g) BY <1>5, <1>7
  <2> HIDE DEF g
  <2>5. CASE d \in Transients
    <3>1. Said(r, d) = <<>> /\ ~Found(h) BY <1>4, <2>1, <2>5, SaidIs, DocsApart DEF Found
    <3>2. g.out = <<Req("activated")>> BY <1>3, <1>4, <2>2, <3>1, ConcatEmptySeq
    <3>3. g.lostSent = FALSE /\ d \notin Pages BY <1>4, <2>2, <2>5, DocsApart DEF Gained, Dlls
    <3> QED BY <1>1, <1>4, <1>7, <2>2, <2>3, <2>4, <3>1, <3>2, <3>3, BecomesIs DEF Gained, Greeting
  <2>6. CASE d \notin Transients
    <3>1. Said(r, d) = <<Told(d)>> /\ Found(h) BY <1>4, <1>7, <2>1, <2>3, <2>6, SaidIs, DocsApart DEF Found
    <3>2. Told(d) \in Requests BY <2>1, <2>6, ToldIs
    <3>3. g.out = <<Req("activated"), Told(d)>>
      <4>1. <<Req("activated")>> \o <<Told(d)>> = <<Req("activated"), Told(d)>> BY <1>2, <3>2, PairIs
      <4> QED BY <1>4, <2>2, <3>1, <4>1
    <3>4. g.lostSent <=> d \in Pages BY <2>2, <2>6 DEF Gained
    <3> QED BY <1>1, <1>4, <1>7, <2>2, <2>3, <2>4, <2>6, <3>1, <3>3, <3>4, BecomesIs DEF Gained, Greeting
  <2> QED BY <2>5, <2>6
<1>8. CASE ~(fg = h /\ d # NoDoc)
  <2>1. Becomes(h, r) /\ ~Found(h) /\ ~(fg = h /\ d \in Pages) BY <1>5, <1>8, DocsApart DEF Found
  <2> QED BY <1>1, <1>4, <1>8, <2>1, BecomesIs DEF Greeting
<1> QED BY <1>7, <1>8

--------------------------------------------------------------------------------
(* The inductive invariant.                                                  *)

Gains == Of({"gained"})
Keys == Of({"key"})
Begun == Of({"activated"})
Terms == Of({"terminated"})
Goodbyes == Of({"deactivated"})
Leaves == Of({"lost", "deactivated"})
Openers == Of({"gained", "activated"})
Silent == {r \in Requests : r.kind # "deactivated"}

Own(h) == pipe[Tok(h)]
Serving == svc.ime /\ svc.edit /\ ~svc.noEdit

\* A key that waits is the last request, and was typed into the document d.
KeyLast(p, d) == \A i \in 1 .. Len(p) : p[i] \in Keys => i = Len(p) /\ p[i] = KeyOn(d)

\* The faults an instance is without.
Orderly == "overlap" \notin Faults
Inside == "activated_outside" \notin Faults
Closing == "keeps_composition" \notin Faults
Patient == "fast_switch" \notin Faults

\* What has been handled by halves is the first request of its connection.
HalfInv ==
  /\ \A t \in Tokens : half[t] > 0 => pipe[t] # <<>>
  /\ \A t \in Tokens : half[t] = 1 => pipe[t][1] \in Openers \cup Leaves
  /\ \A t \in Tokens : half[t] = 2 => pipe[t][1] \in Gains

\* A connection that was closed only has to say so, and a background host
\* neither gains a focus nor sends a key.
PipeInv ==
  /\ HalfInv
  /\ \A t \in Tokens : t # Tok(t[1]) => ~Has(pipe[t], Silent)
  /\ \A h \in Hosts : h # fg => ~Has(Own(h), Gains) /\ ~Has(Own(h), Keys)
  /\ \A h \in Hosts : KeyLast(Own(h), doc[h])
  /\ \A h \in Hosts : Has(Own(h), Keys) => dll[h].on /\ doc[h] \in Edits \cup Transients

\* What a DLL remembers of the document that has the focus.
DocInv ==
  /\ \A h \in Hosts : h # fg /\ h \notin leaving => doc[h] = NoDoc
  /\ \A h \in leaving : dll[h].on
  /\ \A h \in Hosts : dll[h].on /\ doc[h] # NoDoc =>
       /\ dll[h].lastFocused = doc[h]
       /\ doc[h] \in Edits => ~dll[h].lostSent /\ dll[h].lastActive # NoDoc
       /\ doc[h] \in Pages => dll[h].lostSent

\* One handler at a time: nobody overtakes the halves of another.
Alone ==
  /\ \A t, u \in Tokens : half[t] > 0 /\ half[u] > 0 => t = u
  /\ \A t \in Tokens : half[t] = 1 /\ pipe[t][1] \in Leaves => svc.active \in {NoToken, t}
  /\ \A t \in Tokens : half[t] = 2 => Serving

\* The focused document is served already, or its report is the last word.
ServedInv ==
  Served /\ doc[fg] \in Edits =>
    \/ After(Own(fg), Gains, Leaves)
    \/ ~Has(Own(fg), Leaves) /\ ~Has(Own(fg), Gains) /\ Serving

\* The service knows the client of the focused document, or will be told.
Reported ==
  /\ \A t \in Tokens : half[t] = 2 => svc.focusPid = t[1]
  /\ Served /\ doc[fg] \in Edits /\ ~Has(Own(fg), Gains) => svc.active = Tok(fg) /\ svc.focusPid = fg

\* An activation in the background will be dropped.
Dropped ==
  /\ \A t \in Tokens : Has(pipe[t], Begun) /\ t[1] # fg => fg \in Hosts /\ svc.active[1] = fg /\ svc.focusPid = fg
  /\ \A t \in Tokens : half[t] = 1 /\ pipe[t][1] \in Begun => t[1] = fg /\ svc.active = t

\* t is the connection of a host that has the focus, or has yet to be told that it has not.
Here(t) ==
  /\ t = Tok(t[1]) /\ dll[t[1]].on /\ ~dll[t[1]].lostSent
  /\ t[1] = fg \/ t[1] \in leaving

\* The toolbar is shown over a host that is there, or that has reported its end.
ToolbarInv ==
  /\ svc.ime /\ svc.edit =>
       \/ \E t \in Tokens : half[t] = 2
       \/ svc.active \in Tokens /\ (Here(svc.active) \/ Has(pipe[svc.active], Losing))
  /\ \A t \in Tokens : t[1] = fg /\ After(pipe[t], Openers, Losing) => Here(t)

\* A composition belongs to the foreground document, and nothing on its way ends it.
CompInv ==
  /\ fg \in Hosts /\ (Has(Own(fg), Keys) \/ dll[fg].comp # NoDoc) =>
       \A u \in Tokens : u # Tok(fg) => ~Has(pipe[u], Terms) /\ (u[1] = fg => ~Has(pipe[u], Goodbyes))
  /\ \A h \in Hosts : dll[h].comp # NoDoc =>
       /\ h = fg /\ dll[h].on /\ dll[h].comp \in Edits \cup Transients
       /\ doc[h] \in {NoDoc, dll[h].comp} /\ dll[h].lastFocused = dll[h].comp
       /\ ~Has(Own(h), Terms) /\ ~Has(Own(h), Goodbyes) /\ ~Has(Own(h), Clearing)
       /\ dll[h].comp \in Edits =>
            /\ dll[h].lastActive # NoDoc /\ ~dll[h].lostSent
            /\ svc.active = Tok(h) /\ svc.focusPid = h

\* What counts of the input is what is being composed, or what ends it is on its way.
Live == svc.input \ svc.orphans
Ending(h) ==
  \/ Has(Own(h), Terms)
  \/ h = fg /\ svc.active = Tok(h) /\ svc.focusPid = h /\ Has(Own(h), Clearing)
  \/ h = fg /\ \E u \in Tokens : u[1] = h /\ Has(pipe[u], Goodbyes)
InputInv ==
  Live # {} => \E h \in Hosts, d \in Docs : Live = {<<h, d>>} /\ (dll[h].comp = d \/ Ending(h))

\* What is being composed in an editable document is in the input.
KeptInv == \A h \in Hosts : dll[h].comp \in Edits => <<h, dll[h].comp>> \in svc.input

Base == Types /\ PipeInv /\ DocInv
IInv ==
  /\ Base
  /\ Orderly => Alone /\ ServedInv
  /\ Orderly \/ Inside => Reported
  /\ Inside => Dropped /\ ToolbarInv
  /\ Closing /\ (Orderly \/ Inside) => CompInv /\ InputInv
  /\ Closing /\ Orderly => KeptInv

--------------------------------------------------------------------------------
(* What the sorts of requests have to do with each other.                    *)

LEMMA SortIs ==
  ASSUME NEW r \in Requests
  PROVE  /\ r \in Gains <=> r.kind = "gained"
         /\ r \in Keys <=> r.kind = "key"
         /\ r \in Begun <=> r.kind = "activated"
         /\ r \in Terms <=> r.kind = "terminated"
         /\ r \in Goodbyes <=> r.kind = "deactivated"
         /\ r \in Leaves <=> r.kind \in {"lost", "deactivated"}
         /\ r \in Openers <=> r.kind \in {"gained", "activated"}
         /\ r \in Silent <=> r.kind # "deactivated"
         /\ r \in Losing <=> r.kind = "deactivated" \/ (r.kind = "lost" /\ r.reason # "doc_changed")
         /\ r \in Clearing <=> r.kind = "lost" /\ r.reason # "ctx_lost"
BY DEF Gains, Keys, Begun, Terms, Goodbyes, Leaves, Openers, Silent, Of, Losing, Clearing, ClearsInput

LEMMA SortsAre ==
  /\ Gains \subseteq Requests /\ Keys \subseteq Requests /\ Begun \subseteq Requests /\ Terms \subseteq Requests
  /\ Goodbyes \subseteq Requests /\ Leaves \subseteq Requests /\ Openers \subseteq Requests /\ Silent \subseteq Requests
  /\ Losing \subseteq Requests /\ Clearing \subseteq Requests
BY DEF Gains, Keys, Begun, Terms, Goodbyes, Leaves, Openers, Silent, Of, Losing, Clearing

LEMMA HasSub == ASSUME NEW s, NEW S, NEW T, S \subseteq T, Has(s, S) PROVE Has(s, T)
BY DEF Has

LEMMA HasOf ==
  ASSUME NEW s
  PROVE  /\ Has(s, Gains) => Has(s, Silent) /\ Has(s, Openers)
         /\ Has(s, Keys) => Has(s, Silent)
         /\ Has(s, Begun) => Has(s, Silent) /\ Has(s, Openers)
         /\ Has(s, Terms) => Has(s, Silent)
         /\ Has(s, Clearing) => Has(s, Silent)
         /\ Has(s, Openers) => Has(s, Silent)
<1>1. Gains \subseteq Silent /\ Gains \subseteq Openers /\ Keys \subseteq Silent /\ Begun \subseteq Silent
      /\ Begun \subseteq Openers /\ Terms \subseteq Silent /\ Clearing \subseteq Silent /\ Openers \subseteq Silent
  BY SortsAre, SortIs
<1> QED BY <1>1, HasSub

\* Where nothing of T waits, what waits is not behind it.
LEMMA HasAfter ==
  ASSUME NEW s \in Seq(Requests), NEW S, NEW T, Has(s, S), ~Has(s, T)
  PROVE  After(s, S, T)
<1>1. PICK i \in 1 .. Len(s) : s[i] \in S BY DEF Has
<1>2. Len(s) \in Nat OBVIOUS
<1>3. \A j \in i + 1 .. Len(s) : j \in 1 .. Len(s) BY <1>2
<1> QED BY <1>1, <1>3 DEF After, Has

LEMMA SentSorts ==
  /\ \A S \in {Keys, Begun, Terms, Goodbyes, Leaves, Losing, Clearing} : Req("gained") \notin S
  /\ Req("gained") \in Gains /\ Req("gained") \in Openers /\ Req("gained") \in Requests
  /\ \A S \in {Gains, Keys, Terms, Goodbyes, Leaves, Losing, Clearing} : Req("activated") \notin S
  /\ Req("activated") \in Begun /\ Req("activated") \in Openers /\ Req("activated") \in Requests
  /\ \A S \in {Gains, Keys, Begun, Openers, Goodbyes, Leaves, Losing, Clearing} : Req("terminated") \notin S
  /\ Req("terminated") \in Terms /\ Req("terminated") \in Requests
  /\ \A S \in {Gains, Keys, Begun, Openers, Terms, Silent, Clearing} : Req("deactivated") \notin S
  /\ Req("deactivated") \in Goodbyes /\ Req("deactivated") \in Losing /\ Req("deactivated") \in Leaves
  /\ Req("deactivated") \in Requests
  /\ \A x \in Reasons : /\ \A S \in {Gains, Keys, Begun, Openers, Terms, Goodbyes} : Lost(x) \notin S
                        /\ Lost(x) \in Requests
                        /\ Lost(x) \in Losing <=> x # "doc_changed"
                        /\ Lost(x) \in Clearing <=> x # "ctx_lost"
  /\ \A d \in Docs : /\ \A S \in {Gains, Begun, Openers, Terms, Goodbyes, Leaves, Losing, Clearing} : KeyOn(d) \notin S
                     /\ KeyOn(d) \in Keys /\ KeyOn(d) \in Requests
<1>1. \A k \in {"activated", "deactivated", "gained", "terminated"} : Req(k) \in Requests /\ Req(k).kind = k
  BY RequestSorts
<1>2. \A x \in Reasons : Lost(x) \in Requests /\ Lost(x).kind = "lost" /\ Lost(x).reason = x BY RequestSorts
<1>3. \A d \in Docs : KeyOn(d) \in Requests /\ KeyOn(d).kind = "key" BY RequestSorts
<1>4. /\ \A S \in {Keys, Begun, Terms, Goodbyes, Leaves, Losing, Clearing} : Req("gained") \notin S
      /\ Req("gained") \in Gains /\ Req("gained") \in Openers /\ Req("gained") \in Requests
  BY <1>1, SortIs
<1>5. /\ \A S \in {Gains, Keys, Terms, Goodbyes, Leaves, Losing, Clearing} : Req("activated") \notin S
      /\ Req("activated") \in Begun /\ Req("activated") \in Openers /\ Req("activated") \in Requests
  BY <1>1, SortIs
<1>6. /\ \A S \in {Gains, Keys, Begun, Openers, Goodbyes, Leaves, Losing, Clearing} : Req("terminated") \notin S
      /\ Req("terminated") \in Terms /\ Req("terminated") \in Requests
  BY <1>1, SortIs
<1>7. /\ \A S \in {Gains, Keys, Begun, Openers, Terms, Silent, Clearing} : Req("deactivated") \notin S
      /\ Req("deactivated") \in Goodbyes /\ Req("deactivated") \in Losing /\ Req("deactivated") \in Leaves
      /\ Req("deactivated") \in Requests
  BY <1>1, SortIs
<1>8. ASSUME NEW x \in Reasons
      PROVE  /\ \A S \in {Gains, Keys, Begun, Openers, Terms, Goodbyes} : Lost(x) \notin S
             /\ Lost(x) \in Requests
             /\ Lost(x) \in Losing <=> x # "doc_changed"
             /\ Lost(x) \in Clearing <=> x # "ctx_lost"
  BY <1>2, SortIs
<1>9. ASSUME NEW d \in Docs
      PROVE  /\ \A S \in {Gains, Begun, Openers, Terms, Goodbyes, Leaves, Losing, Clearing} : KeyOn(d) \notin S
             /\ KeyOn(d) \in Keys /\ KeyOn(d) \in Requests
  BY <1>3, SortIs
<1> QED BY <1>4, <1>5, <1>6, <1>7, <1>8, <1>9

--------------------------------------------------------------------------------
(* What the steps do to the connections.                                     *)

\* A callback of h has sent e; all else is as it was.
Delivered(h, q, e, t0) ==
  /\ t0 \in Tokens /\ t0[1] = h /\ Tok(h)' = t0 /\ dll'[h] = q
  /\ \A g \in Hosts : g # h => dll'[g] = dll[g] /\ Tok(g)' = Tok(g) /\ Tok(g) # t0
  /\ \A t \in Tokens : t # t0 => pipe'[t] = pipe[t]
  /\ pipe'[t0] = pipe[t0] \o e /\ pipe[t0] \in Seq(Requests) /\ e \in Seq(Requests)
  /\ \A S : Has(pipe'[t0], S) <=> Has(pipe[t0], S) \/ Has(e, S)
  /\ \A S, T : After(pipe'[t0], S, T) <=> After(e, S, T) \/ (After(pipe[t0], S, T) /\ ~Has(e, T))
  /\ pipe[t0] # <<>> => pipe'[t0] # <<>> /\ pipe'[t0][1] = pipe[t0][1]
  /\ dll' = [g \in Hosts |-> IF g = h THEN q ELSE dll[g]]
  /\ pipe' \in [Tokens -> Seq(Requests)]

LEMMA SentAt ==
  ASSUME Types, NEW h \in Hosts, NEW q, NEW e, NEW t0, Sent(h, q, e), q.gen \in 0 .. MaxStarts, t0 = <<h, q.gen>>
  PROVE  Delivered(h, q, e, t0)
<1>1. t0 \in Tokens /\ t0[1] = h BY Typed
<1>2. pipe \in [Tokens -> Seq(Requests)] /\ dll = [g \in Hosts |-> dll[g]] BY Typed
<1>3. dll' = [dll EXCEPT ![h] = q] /\ pipe' = [pipe EXCEPT ![t0] = pipe[t0] \o e] /\ e \in Seq(Requests) BY DEF Sent
<1>4. pipe'[t0] = pipe[t0] \o e /\ \A t \in Tokens : t # t0 => pipe'[t] = pipe[t] BY <1>1, <1>2, <1>3
<1>5. dll'[h] = q /\ (\A g \in Hosts : g # h => dll'[g] = dll[g])
      /\ dll' = [g \in Hosts |-> IF g = h THEN q ELSE dll[g]] BY <1>2, <1>3
<1>6. pipe[t0] \in Seq(Requests) BY <1>1, <1>2
<1>7. pipe[t0] # <<>> => pipe'[t0] # <<>> /\ pipe'[t0][1] = pipe[t0][1]
  <2> SUFFICES ASSUME pipe[t0] # <<>> PROVE pipe'[t0] # <<>> /\ pipe'[t0][1] = pipe[t0][1] OBVIOUS
  <2>1. Len(pipe[t0]) >= 1 /\ Len(pipe[t0]) \in Nat /\ Len(e) \in Nat BY <1>3, <1>6, TailIs
  <2>2. Len(pipe[t0] \o e) = Len(pipe[t0]) + Len(e) /\ (pipe[t0] \o e)[1] = pipe[t0][1]
    BY <1>3, <1>6, <2>1, GlueIs
  <2> QED BY <1>4, <2>1, <2>2
<1> DEFINE p == pipe[t0]  r == pipe'[t0]
<1>8a. p \in Seq(Requests) /\ r = p \o e /\ e \in Seq(Requests) BY <1>3, <1>4, <1>6
<1> HIDE DEF p, r
<1>8. \A S : Has(r, S) <=> Has(p, S) \/ Has(e, S) BY <1>8a, HasGlue
<1>9. \A S, T : After(r, S, T) <=> After(e, S, T) \/ (After(p, S, T) /\ ~Has(e, T)) BY <1>8a, AfterGlue
<1>10. pipe' \in [Tokens -> Seq(Requests)]
  <2>1. pipe[t0] \o e \in Seq(Requests) BY <1>3, <1>6, GlueIs
  <2> QED BY <1>2, <1>3, <2>1
<1>11. Tok(h)' = t0 /\ \A g \in Hosts : g # h => Tok(g)' = Tok(g) /\ Tok(g) # t0 BY <1>5 DEF Tok
<1> QED BY <1>1, <1>3, <1>4, <1>5, <1>6, <1>7, <1>8, <1>9, <1>10, <1>11 DEF p, r, Delivered

\* The handler of t is done with the first request.
Shortened(t) ==
  /\ pipe[t] \in Seq(Requests) /\ pipe[t][1] \in Requests /\ pipe'[t] = Tail(pipe[t])
  /\ \A u \in Tokens : u # t => pipe'[u] = pipe[u] /\ half'[u] = half[u]
  /\ half'[t] = 0
  /\ \A S : Has(pipe[t], S) <=> pipe[t][1] \in S \/ Has(pipe'[t], S)
  /\ \A S, T : After(pipe[t], S, T) <=> After(pipe'[t], S, T) \/ (pipe[t][1] \in S /\ ~Has(pipe'[t], T))
  /\ pipe' \in [Tokens -> Seq(Requests)] /\ half' \in [Tokens -> 0 .. 2]

LEMMA Handled ==
  ASSUME Types, NEW t \in Tokens, pipe[t] # <<>>, pipe' = [pipe EXCEPT ![t] = Tail(@)], half' = [half EXCEPT ![t] = 0]
  PROVE  Shortened(t)
<1>1. pipe \in [Tokens -> Seq(Requests)] /\ half \in [Tokens -> 0 .. 2] BY Typed
<1>2. pipe[t] \in Seq(Requests) /\ pipe[t][1] \in Requests /\ Tail(pipe[t]) \in Seq(Requests) BY <1>1, TailIs
<1>3. pipe'[t] = Tail(pipe[t]) /\ \A u \in Tokens : u # t => pipe'[u] = pipe[u] BY <1>1
<1>4. half'[t] = 0 /\ \A u \in Tokens : u # t => half'[u] = half[u] BY <1>1
<1>5. \A S : Has(pipe[t], S) <=> pipe[t][1] \in S \/ Has(pipe'[t], S) BY <1>2, <1>3, HasTail
<1>6. \A S, T : After(pipe[t], S, T) <=> After(pipe'[t], S, T) \/ (pipe[t][1] \in S /\ ~Has(pipe'[t], T))
  BY <1>2, <1>3, AfterTail
<1>7. pipe' \in [Tokens -> Seq(Requests)] /\ half' \in [Tokens -> 0 .. 2] BY <1>1, <1>2
<1> QED BY <1>2, <1>3, <1>4, <1>5, <1>6, <1>7 DEF Shortened

LEMMA GoingOn ==
  ASSUME Types, NEW t \in Tokens, NEW n \in 0 .. 2, GoesOn(t, n)
  PROVE  /\ half'[t] = n /\ (\A u \in Tokens : u # t => half'[u] = half[u])
         /\ half' \in [Tokens -> 0 .. 2]
         /\ UNCHANGED <<fg, leaving, doc, dll, pipe, used>>
BY Typed DEF GoesOn

LEMMA KeyLastTail ==
  ASSUME NEW s \in Seq(Requests), s # <<>>, NEW d, KeyLast(s, d)
  PROVE  /\ KeyLast(Tail(s), d)
         /\ s[1] \in Keys => Tail(s) = <<>> /\ s[1] = KeyOn(d)
<1> DEFINE n == Len(s)  g == Tail(s)
<1>1. /\ g \in Seq(Requests) /\ n \in Nat /\ n >= 1 /\ Len(g) = n - 1
      /\ \A i \in 1 .. n - 1 : g[i] = s[i + 1]
  BY TailIs
<1>2. \A i \in 1 .. n : s[i] \in Keys => i = n /\ s[i] = KeyOn(d) BY DEF KeyLast
<1> HIDE DEF n, g
<1>3. ASSUME NEW i \in 1 .. n - 1, g[i] \in Keys PROVE i = n - 1 /\ g[i] = KeyOn(d)
  <2>1. i + 1 \in 1 .. n /\ s[i + 1] = g[i] BY <1>1
  <2>2. i + 1 = n /\ s[i + 1] = KeyOn(d) BY <1>2, <1>3, <2>1
  <2> QED BY <1>1, <2>1, <2>2
<1>4. KeyLast(g, d) BY <1>1, <1>3 DEF KeyLast
<1>5. ASSUME s[1] \in Keys PROVE g = <<>> /\ s[1] = KeyOn(d)
  <2>1. 1 \in 1 .. n BY <1>1
  <2>2. 1 = n /\ s[1] = KeyOn(d) BY <1>2, <1>5, <2>1
  <2>3. Len(g) = 0 BY <1>1, <2>2
  <2> QED BY <1>1, <2>2, <2>3, EmptySeq
<1> QED BY <1>4, <1>5 DEF g

LEMMA KeyLastGlue ==
  ASSUME NEW s \in Seq(Requests), NEW e \in Seq(Requests), NEW d, ~Has(s, Keys), KeyLast(e, d)
  PROVE  KeyLast(s \o e, d)
<1>1. /\ Len(s) \in Nat /\ Len(e) \in Nat /\ Len(s \o e) = Len(s) + Len(e)
      /\ \A i \in 1 .. Len(s) : (s \o e)[i] = s[i]
      /\ \A i \in 1 .. Len(e) : (s \o e)[Len(s) + i] = e[i]
  BY GlueIs
<1> SUFFICES ASSUME NEW i \in 1 .. Len(s \o e), (s \o e)[i] \in Keys
             PROVE  i = Len(s \o e) /\ (s \o e)[i] = KeyOn(d)
  BY DEF KeyLast
<1>2. CASE i \in 1 .. Len(s)
  <2>1. s[i] \in Keys BY <1>1, <1>2
  <2> QED BY <1>2, <2>1 DEF Has
<1>3. CASE i \notin 1 .. Len(s)
  <2>1. i - Len(s) \in 1 .. Len(e) /\ Len(s) + (i - Len(s)) = i BY <1>1, <1>3
  <2>2. e[i - Len(s)] = (s \o e)[i] BY <1>1, <2>1
  <2>3. i - Len(s) = Len(e) /\ e[i - Len(s)] = KeyOn(d) BY <2>1, <2>2 DEF KeyLast
  <2> QED BY <1>1, <2>1, <2>2, <2>3
<1> QED BY <1>2, <1>3

LEMMA KeyLastNone == ASSUME NEW s, ~Has(s, Keys), NEW d PROVE KeyLast(s, d)
BY DEF KeyLast, Has

LEMMA KeyLastOne == ASSUME NEW d PROVE KeyLast(<<KeyOn(d)>>, d)
<1>1. Len(<<KeyOn(d)>>) = 1 /\ <<KeyOn(d)>>[1] = KeyOn(d) /\ 1 .. 1 = {1} OBVIOUS
<1> QED BY <1>1 DEF KeyLast

\* A DLL that runs waits for no answer: of what it sent, at most the focus that
\* is being handled is a gain, and nothing is a key.
LEMMA Running ==
  ASSUME Types, HalfInv, NEW h \in Hosts, Runs(h)
  PROVE  dll[h].on /\ ~Has(Own(h), Keys)
<1> DEFINE p == Own(h)
<1>1. p \in Seq(Requests) /\ Tok(h) \in Tokens BY Typed DEF Own
<1>2. ASSUME NEW i \in 1 .. Len(p), p[i] \in Keys PROVE FALSE
  <2>1. p[i].kind = "key" BY <1>2, SortsAre, SortIs
  <2>2. i = 1 /\ half[Tok(h)] > 0 BY <2>1 DEF Runs, Blocked, Own
  <2>3. half[Tok(h)] \in 0 .. 2 BY <1>1, Typed
  <2>4. p[1] \in Openers \cup Leaves \/ p[1] \in Gains BY <1>1, <2>2, <2>3 DEF PipeInv, HalfInv, Own
  <2> QED BY <1>2, <2>1, <2>2, <2>4, SortsAre, SortIs
<1> QED BY <1>2 DEF Runs, Has

\* Before a switch of the foreground the service has handled all but what DLLs
\* said of terminated compositions.
LEMMA Quiet ==
  ASSUME Types, Patient, NEW x, Switch(x), NEW t \in Tokens
  PROVE  /\ half[t] = 0
         /\ \A S \in {Gains, Keys, Begun, Goodbyes, Leaves, Openers, Losing, Clearing} : ~Has(pipe[t], S)
         /\ \A S, T : S \in {Gains, Openers} => ~After(pipe[t], S, T)
<1>1. OnlyPending(Outside, {"terminated"}) BY DEF Switch, Patient
<1>2. half[t] = 0 /\ \A i \in 1 .. Len(pipe[t]) : pipe[t][i].kind = "terminated" BY <1>1 DEF OnlyPending
<1>3. \A S \in {Gains, Keys, Begun, Goodbyes, Leaves, Openers, Losing, Clearing} : ~Has(pipe[t], S)
  <2> SUFFICES ASSUME NEW S \in {Gains, Keys, Begun, Goodbyes, Leaves, Openers, Losing, Clearing},
                      NEW i \in 1 .. Len(pipe[t]), pipe[t][i] \in S
               PROVE  FALSE
    BY DEF Has
  <2>1. pipe[t][i] \in Requests BY SortsAre
  <2> QED BY <1>2, <2>1, SortIs
<1>4. \A S, T : S \in {Gains, Openers} => ~After(pipe[t], S, T) BY <1>3, AfterHas
<1> QED BY <1>2, <1>3, <1>4

\* Before a DLL is activated again, its old connection has only to say goodbye.
LEMMA Ready ==
  ASSUME Types, NEW h \in Hosts, Activate(h)
  PROVE  ~Has(Own(h), Silent)
<1>1. \A i \in 1 .. Len(Own(h)) : Own(h)[i].kind = "deactivated" BY DEF Activate, Own
<1> QED BY <1>1, SortsAre, SortIs DEF Has

\* What another connection may have waiting while a key is typed.
LEMMA Typing ==
  ASSUME Types, NEW h \in Hosts, Key(h), NEW t \in Tokens, t # Tok(h)
  PROVE  ~Has(pipe[t], Terms) /\ (t[1] = h => ~Has(pipe[t], Goodbyes))
<1>1. \A i \in 1 .. Len(pipe[t]) : t[1] # h /\ pipe[t][i].kind \in {"lost", "deactivated"} BY DEF Key, OnlyPending
<1> QED BY <1>1, SortsAre, SortIs DEF Has

--------------------------------------------------------------------------------
(* Types, connections and documents.                                         *)

Services == [active : Tokens \cup {NoToken}, ime : BOOLEAN, edit : BOOLEAN, noEdit : BOOLEAN,
             input : SUBSET (Hosts \X Docs), orphans : SUBSET (Hosts \X Docs),
             focusPid : Hosts \cup {Outside}, render : Hosts \cup {Outside}]

LEMMA InitBase == Init => Base
<1> SUFFICES ASSUME Init PROVE Base OBVIOUS
<1>1. \A t \in Tokens : pipe[t] = <<>> /\ half[t] = 0 BY DEF Init
<1>2. \A S : ~Has(<<>>, S)
  <2>1. Len(<<>>) = 0 /\ 1 .. 0 = {} OBVIOUS
  <2> QED BY <2>1 DEF Has
<1>3. \A h \in Hosts : dll[h] = [on |-> FALSE, gen |-> 0, lastActive |-> NoDoc, lastFocused |-> NoDoc,
                                 lostSent |-> FALSE, ctxReported |-> FALSE, comp |-> NoDoc, out |-> <<>>]
  BY DEF Init, Fresh
<1>4. Types
  <2>1. 0 \in 0 .. MaxStarts /\ 0 \in 0 .. MaxSwitches /\ 0 \in 0 .. MaxFocus /\ 0 \in 0 .. MaxKeys OBVIOUS
  <2>2. dll \in [Hosts -> [on : BOOLEAN, gen : 0 .. MaxStarts, lastActive : Docs \cup {NoDoc},
                           lastFocused : Docs \cup {NoDoc}, lostSent : BOOLEAN, ctxReported : BOOLEAN,
                           comp : Docs \cup {NoDoc}, out : {<<>>}]]
    <3>1. dll = [h \in Hosts |-> [Fresh(0) EXCEPT !.on = FALSE]] BY DEF Init
    <3>2. [Fresh(0) EXCEPT !.on = FALSE] \in
             [on : BOOLEAN, gen : 0 .. MaxStarts, lastActive : Docs \cup {NoDoc},
              lastFocused : Docs \cup {NoDoc}, lostSent : BOOLEAN, ctxReported : BOOLEAN,
              comp : Docs \cup {NoDoc}, out : {<<>>}]
      BY <2>1 DEF Fresh
    <3> QED BY <3>1, <3>2
  <2>3. pipe \in [Tokens -> Seq(Requests)] BY DEF Init
  <2>4. half \in [Tokens -> 0 .. 2] BY DEF Init
  <2>5. svc \in Services BY DEF Init, Services
  <2>6. used \in [switches : 0 .. MaxSwitches, focus : 0 .. MaxFocus, keys : 0 .. MaxKeys, starts : 0 .. MaxStarts]
    BY <2>1 DEF Init
  <2>7. \A h \in Hosts : dll[h].gen <= used.starts /\ (dll[h].ctxReported => ~dll[h].lostSent) BY <1>3 DEF Init
  <2>8. fg \in Hosts \cup {Outside} /\ leaving \subseteq Hosts \ {fg} /\ doc \in [Hosts -> Docs \cup {NoDoc}]
    BY DEF Init
  <2> QED BY <2>2, <2>3, <2>4, <2>5, <2>6, <2>7, <2>8 DEF Types, TypeOK, Services
<1>5. \A h \in Hosts : Tok(h) \in Tokens BY <1>4, Typed
<1>6. PipeInv
  <2>1. \A h \in Hosts : ~Has(Own(h), Keys) /\ ~Has(Own(h), Gains) BY <1>1, <1>2, <1>5 DEF Own
  <2> QED BY <1>1, <1>2, <2>1, KeyLastNone DEF PipeInv, HalfInv
<1>7. DocInv BY <1>3 DEF Init, DocInv
<1> QED BY <1>4, <1>6, <1>7 DEF Base

LEMMA TypesSent ==
  ASSUME Types, NEW h \in Hosts, NEW q, NEW e, Sent(h, q, e),
         fg' = fg, leaving' \subseteq leaving, doc' \in [Hosts -> Docs \cup {NoDoc}], half' = half, svc' = svc,
         used' \in [switches : 0 .. MaxSwitches, focus : 0 .. MaxFocus, keys : 0 .. MaxKeys, starts : 0 .. MaxStarts],
         used'.starts >= used.starts, q.gen <= used'.starts
  PROVE  Types'
<1>1. Idle(q) /\ q.gen \in 0 .. MaxStarts BY DEF Sent, Idle, Dlls
<1> DEFINE t0 == <<h, q.gen>>
<1>1a. Delivered(h, q, e, t0) BY <1>1, SentAt
<1>2. /\ dll' = [g \in Hosts |-> IF g = h THEN q ELSE dll[g]]
      /\ pipe' \in [Tokens -> Seq(Requests)]
  BY <1>1a DEF Delivered
<1>3. q \in [on : BOOLEAN, gen : 0 .. MaxStarts, lastActive : Docs \cup {NoDoc},
             lastFocused : Docs \cup {NoDoc}, lostSent : BOOLEAN, ctxReported : BOOLEAN,
             comp : Docs \cup {NoDoc}, out : {<<>>}]
  BY <1>1 DEF Idle, Dlls
<1>4. dll' \in [Hosts -> [on : BOOLEAN, gen : 0 .. MaxStarts, lastActive : Docs \cup {NoDoc},
                          lastFocused : Docs \cup {NoDoc}, lostSent : BOOLEAN, ctxReported : BOOLEAN,
                          comp : Docs \cup {NoDoc}, out : {<<>>}]]
  BY <1>2, <1>3 DEF Types, TypeOK
<1>5. \A g \in Hosts : dll'[g].ctxReported => ~dll'[g].lostSent BY <1>1, <1>2 DEF Types, TypeOK, Idle
<1>6. \A g \in Hosts : dll'[g].gen <= used'.starts
  <2> TAKE g \in Hosts
  <2>1. CASE g = h BY <1>2, <2>1
  <2>2. CASE g # h
    <3>1. dll'[g] = dll[g] BY <1>2, <2>2
    <3>2. dll[g].gen <= used.starts /\ dll[g].gen \in Nat /\ used.starts \in Nat /\ used'.starts \in Nat
      BY Typed DEF Types, TypeOK
    <3> QED BY <3>1, <3>2
  <2> QED BY <2>1, <2>2
<1>7. TypeOK'
  BY <1>2, <1>4, <1>5 DEF Types, TypeOK
<1> QED BY <1>6, <1>7 DEF Types

LEMMA PipeSent ==
  ASSUME Types, PipeInv, NEW h \in Hosts, NEW q, NEW e, NEW t0, Sent(h, q, e),
         q.gen \in 0 .. MaxStarts, t0 = <<h, q.gen>>, t0 = Tok(h) \/ ~Has(Own(h), Silent),
         fg' = fg, half' = half, \A g \in Hosts : g # h => doc'[g] = doc[g],
         ~Has(Own(h), Keys), Has(e, Gains) \/ Has(e, Keys) => h = fg, KeyLast(e, doc'[h]),
         Has(e, Keys) => q.on /\ doc'[h] \in Edits \cup Transients
  PROVE  PipeInv'
<1>0. Delivered(h, q, e, t0) BY SentAt
<1>1. /\ t0 \in Tokens /\ t0[1] = h /\ Tok(h)' = t0 /\ dll'[h] = q
      /\ \A g \in Hosts : g # h => dll'[g] = dll[g] /\ Tok(g)' = Tok(g) /\ Tok(g) # t0
      /\ \A t \in Tokens : t # t0 => pipe'[t] = pipe[t]
      /\ pipe'[t0] = pipe[t0] \o e /\ pipe[t0] \in Seq(Requests) /\ e \in Seq(Requests)
      /\ \A S : Has(pipe'[t0], S) <=> Has(pipe[t0], S) \/ Has(e, S)
      /\ pipe[t0] # <<>> => pipe'[t0] # <<>> /\ pipe'[t0][1] = pipe[t0][1]
  BY <1>0 DEF Delivered
<1>2. \A g \in Hosts : Tok(g) \in Tokens /\ Tok(g)[1] = g BY Typed DEF Tok
<1>3. \A t \in Tokens : t[1] \in Hosts BY Typed
<1>4. \A t \in Tokens : pipe[t] # <<>> => pipe'[t] # <<>> /\ pipe'[t][1] = pipe[t][1] BY <1>1
<1>5. \A t \in Tokens : half[t] = 1 \/ half[t] = 2 => half[t] > 0 OBVIOUS
<1>6. ~Has(pipe[t0], Keys) /\ (h # fg => ~Has(pipe[t0], Gains))
  <2>1. CASE t0 = Tok(h) BY <2>1 DEF Own, PipeInv, HalfInv
  <2>2. CASE t0 # Tok(h)
    <3>1. ~Has(pipe[t0], Silent) BY <1>1, <2>2 DEF PipeInv, HalfInv
    <3> QED BY <3>1, HasOf
  <2> QED BY <2>1, <2>2
<1>7. \A t \in Tokens : half'[t] > 0 => pipe'[t] # <<>> BY <1>4 DEF PipeInv, HalfInv
<1>8. \A t \in Tokens : half'[t] = 1 => pipe'[t][1] \in Openers \cup Leaves BY <1>4, <1>5 DEF PipeInv, HalfInv
<1>9. \A t \in Tokens : half'[t] = 2 => pipe'[t][1] \in Gains BY <1>4, <1>5 DEF PipeInv, HalfInv
<1>10. ASSUME NEW t \in Tokens, t # Tok(t[1])' PROVE ~Has(pipe'[t], Silent)
  <2>1. t # t0 /\ pipe'[t] = pipe[t] BY <1>1, <1>10
  <2>2. CASE t[1] = h /\ t = Tok(h)
    <3>1. t0 # Tok(h) BY <2>1, <2>2
    <3> QED BY <2>1, <2>2, <3>1 DEF Own
  <2>3. CASE ~(t[1] = h /\ t = Tok(h))
    <3>1. t # Tok(t[1]) BY <1>1, <1>3, <1>10, <2>3
    <3> QED BY <2>1, <3>1 DEF PipeInv, HalfInv
  <2> QED BY <2>2, <2>3
<1>11. \A g \in Hosts : g # h => Own(g)' = Own(g) BY <1>1, <1>2 DEF Own
<1>12. Own(h)' = pipe'[t0] BY <1>1 DEF Own
<1>12a. /\ Has(pipe'[t0], Gains) <=> Has(pipe[t0], Gains) \/ Has(e, Gains)
        /\ Has(pipe'[t0], Keys) <=> Has(pipe[t0], Keys) \/ Has(e, Keys)
  BY <1>1
<1>13. ASSUME NEW g \in Hosts
       PROVE  /\ g # fg' => ~Has(Own(g)', Gains) /\ ~Has(Own(g)', Keys)
              /\ KeyLast(Own(g)', doc'[g])
              /\ Has(Own(g)', Keys) => dll'[g].on /\ doc'[g] \in Edits \cup Transients
  <2>1. CASE g = h
    <3>1. Own(g)' = pipe'[t0] BY <1>12, <2>1
    <3>2. KeyLast(pipe[t0] \o e, doc'[h]) BY <1>1, <1>6, KeyLastGlue
    <3> QED BY <1>1, <1>6, <1>12a, <2>1, <3>1, <3>2
  <2>2. CASE g # h
    <3>1. Own(g)' = Own(g) /\ dll'[g] = dll[g] /\ doc'[g] = doc[g] BY <1>1, <1>11, <2>2
    <3> QED BY <3>1 DEF PipeInv, HalfInv
  <2> QED BY <2>1, <2>2
<1> QED BY <1>7, <1>8, <1>9, <1>10, <1>13 DEF PipeInv, HalfInv

\* What every handler does: a step inside the first request, or the end of it.
Continues(t, n) ==
  /\ GoesOn(t, n) /\ dll' = dll
  /\ n = 1 => pipe[t][1] \in Openers \cup Leaves
  /\ n = 2 => pipe[t][1] \in Gains
Ends(t) ==
  /\ Finishes(t)
  /\ dll' = dll \/ \E c \in Docs \cup {NoDoc} : dll' = [dll EXCEPT ![t[1]].comp = c]

LEMMA HandlerShape ==
  ASSUME Types, HalfInv, NEW t \in Tokens, Handler(t)
  PROVE  /\ pipe[t] # <<>> /\ svc' \in Services
         /\ Continues(t, 1) \/ Continues(t, 2) \/ Ends(t)
<1>0. svc \in Services /\ pipe[t] \in Seq(Requests) /\ t[1] \in Hosts BY Typed DEF Types, TypeOK, Services
<1>1. half[t] = 1 \/ half[t] = 2 => pipe[t] # <<>> BY DEF PipeInv, HalfInv
<1>2. pipe[t] # <<>> => pipe[t][1] \in Requests BY <1>0, TailIs
<1>3. ASSUME AnswerGained(t) PROVE pipe[t] # <<>> /\ svc' \in Services /\ Continues(t, 1)
  <2>1. pipe[t] # <<>> /\ pipe[t][1].kind = "gained" /\ svc' = [svc EXCEPT !.render = t[1]]
    BY <1>3 DEF AnswerGained, Begins
  <2>2. svc' \in Services BY <1>0, <2>1 DEF Services
  <2> QED BY <1>2, <1>3, <2>1, <2>2, SortIs DEF AnswerGained, Continues, GoesOn
<1>4. ASSUME GainedState(t) PROVE pipe[t] # <<>> /\ svc' \in Services /\ Continues(t, 2)
  <2>1. pipe[t] # <<>> /\ pipe[t][1].kind = "gained" BY <1>1, <1>4 DEF GainedState
  <2>2. svc' = [svc EXCEPT !.focusPid = t[1], !.ime = TRUE, !.edit = TRUE, !.noEdit = FALSE] BY <1>4 DEF GainedState
  <2>3. svc' \in Services BY <1>0, <2>2 DEF Services
  <2> QED BY <1>2, <1>4, <2>1, <2>3, SortIs DEF GainedState, Continues, GoesOn
<1>5. ASSUME GainedToken(t) PROVE pipe[t] # <<>> /\ svc' \in Services /\ Ends(t)
  <2>1. svc' \in Services BY <1>0, <1>5 DEF GainedToken, Services
  <2> QED BY <1>1, <1>5, <2>1 DEF GainedToken, Ends
<1>6. ASSUME DropStale(t) PROVE pipe[t] # <<>> /\ svc' \in Services /\ Ends(t)
  <2>1. svc' = svc \/ Disregards(t) BY <1>6 DEF DropStale
  <2>2. svc' \in Services BY <1>0, <2>1 DEF Disregards, Services
  <2> QED BY <1>6, <2>2 DEF DropStale, Begins, Ends
<1>7. ASSUME PassStale(t) PROVE pipe[t] # <<>> /\ svc' \in Services /\ Continues(t, 1)
  <2>1. pipe[t] # <<>> /\ pipe[t][1].kind \in {"lost", "deactivated"} /\ svc' = svc BY <1>7 DEF PassStale, Begins
  <2> QED BY <1>0, <1>2, <1>7, <2>1, SortIs DEF PassStale, Continues, GoesOn
<1>8. ASSUME LostState(t) PROVE pipe[t] # <<>> /\ svc' \in Services /\ Ends(t)
  <2>1. svc' = AfterLost(svc, pipe[t][1].reason) BY <1>8 DEF LostState
  <2> DEFINE x == pipe[t][1].reason
             i == svc.ime /\ x # "thread"
             j == svc.edit /\ x = "doc_changed"
             k == svc.noEdit \/ x = "no_edit_ctx"
             n == IF ClearsInput(x) THEN {} ELSE svc.input
             o == IF ClearsInput(x) THEN {} ELSE svc.orphans
  <2>2. i \in BOOLEAN /\ j \in BOOLEAN /\ k \in BOOLEAN OBVIOUS
  <2>3. n \in SUBSET (Hosts \X Docs) /\ o \in SUBSET (Hosts \X Docs) BY <1>0 DEF Services
  <2>4. svc' = [svc EXCEPT !.ime = i, !.edit = j, !.noEdit = k, !.input = n, !.orphans = o]
    BY <1>0, <2>1 DEF AfterLost, Services
  <2> HIDE DEF i, j, k, n, o
  <2>5. svc' \in Services BY <1>0, <2>2, <2>3, <2>4 DEF Services
  <2> QED BY <1>1, <1>8, <2>5 DEF LostState, Ends
<1>9. ASSUME DeactivatedState(t) PROVE pipe[t] # <<>> /\ svc' \in Services /\ Ends(t)
  <2>1. svc' \in Services BY <1>0, <1>9 DEF DeactivatedState, Services
  <2> QED BY <1>1, <1>9, <2>1 DEF DeactivatedState, Ends
<1>10. ASSUME DropBackground(t) PROVE pipe[t] # <<>> /\ svc' \in Services /\ Ends(t)
  BY <1>0, <1>10 DEF DropBackground, Begins, Ends
<1>11. ASSUME ActivatedToken(t) PROVE pipe[t] # <<>> /\ svc' \in Services /\ Continues(t, 1)
  <2>1. pipe[t] # <<>> /\ pipe[t][1].kind = "activated" BY <1>11 DEF ActivatedToken, Begins
  <2>2. svc' = [svc EXCEPT !.active = t, !.focusPid = t[1], !.render = t[1]] BY <1>11 DEF ActivatedToken
  <2>3. svc' \in Services BY <1>0, <2>2 DEF Services
  <2> QED BY <1>2, <1>11, <2>1, <2>3, SortIs DEF ActivatedToken, Continues, GoesOn
<1>12. ASSUME ActivatedState(t) PROVE pipe[t] # <<>> /\ svc' \in Services /\ Ends(t)
  <2>1. svc' \in Services BY <1>0, <1>12 DEF ActivatedState, Services
  <2> QED BY <1>1, <1>12, <2>1 DEF ActivatedState, Ends
<1>13. ASSUME HandleKey(t) PROVE pipe[t] # <<>> /\ svc' \in Services /\ Ends(t)
  <2> DEFINE h == t[1]  d == pipe[t][1].doc
  <2>1. pipe[t] # <<>> /\ pipe[t][1].kind = "key" BY <1>13 DEF HandleKey, Begins
  <2>2. d \in Docs BY <1>2, <2>1, KindsAre
  <2>3. \/ /\ svc' = [svc EXCEPT !.focusPid = h, !.render = h, !.input = svc.input \cup {<<h, d>>},
                             !.orphans = svc.orphans \ {<<h, d>>}]
           /\ dll' = [dll EXCEPT ![h].comp = d]
        \/ /\ svc' = [svc EXCEPT !.focusPid = h, !.render = h, !.input = {}, !.orphans = {}]
           /\ dll' = [dll EXCEPT ![h].comp = NoDoc]
    BY <1>13 DEF HandleKey
  <2> HIDE DEF d
  <2>4. svc' \in Services
    <3>1. /\ svc.input \cup {<<h, d>>} \in SUBSET (Hosts \X Docs) /\ {} \in SUBSET (Hosts \X Docs)
          /\ svc.orphans \ {<<h, d>>} \in SUBSET (Hosts \X Docs)
      BY <1>0, <2>2 DEF Services
    <3> QED BY <1>0, <2>3, <3>1 DEF Services
  <2> QED BY <1>13, <2>1, <2>2, <2>3, <2>4 DEF HandleKey, Ends
<1>14. ASSUME HandleTerminated(t) PROVE pipe[t] # <<>> /\ svc' \in Services /\ Ends(t)
  <2>1. svc' = [svc EXCEPT !.input = {}, !.orphans = {}] \/ Disregards(t) BY <1>14 DEF HandleTerminated
  <2>3. svc' \in Services
    <3>1. ASSUME Disregards(t) PROVE svc' \in Services BY <1>0, <3>1 DEF Disregards, Services
    <3>2. ASSUME svc' = [svc EXCEPT !.input = {}, !.orphans = {}] PROVE svc' \in Services
      <4>1. {} \in SUBSET (Hosts \X Docs) OBVIOUS
      <4> QED BY <1>0, <3>2, <4>1 DEF Services
    <3> QED BY <2>1, <3>1, <3>2
  <2> QED BY <1>14, <2>3 DEF HandleTerminated, Begins, Ends
<1> QED BY <1>3, <1>4, <1>5, <1>6, <1>7, <1>8, <1>9, <1>10, <1>11, <1>12, <1>13, <1>14 DEF Handler

--------------------------------------------------------------------------------
(* What the callbacks say, by the sorts of it.                               *)

LEMMA SaysNothing == \A S, T : ~Has(<<>>, S) /\ ~After(<<>>, S, T)
<1>1. Len(<<>>) = 0 /\ 1 .. 0 = {} OBVIOUS
<1> QED BY <1>1 DEF Has, After

LEMMA SaysOne ==
  ASSUME NEW a \in Requests, NEW S, NEW T
  PROVE  (Has(<<a>>, S) <=> a \in S) /\ (After(<<a>>, S, T) <=> a \in S)
BY ShortHas

LEMMA HasTwo ==
  ASSUME NEW a \in Requests, NEW b \in Requests, NEW S
  PROVE  Has(<<a, b>>, S) <=> a \in S \/ b \in S
<1>1. Len(<<a, b>>) = 2 /\ <<a, b>>[1] = a /\ <<a, b>>[2] = b OBVIOUS
<1>2. 1 .. 2 = {1, 2} OBVIOUS
<1> QED BY <1>1, <1>2 DEF Has

LEMMA AfterTwo ==
  ASSUME NEW a \in Requests, NEW b \in Requests, NEW S, NEW T
  PROVE  After(<<a, b>>, S, T) <=> b \in S \/ (a \in S /\ b \notin T)
<1>1. Len(<<a, b>>) = 2 /\ <<a, b>>[1] = a /\ <<a, b>>[2] = b OBVIOUS
<1>2. 1 .. 2 = {1, 2} /\ 1 + 1 .. 2 = {2} /\ 2 + 1 .. 2 = {} OBVIOUS
<1> QED BY <1>1, <1>2 DEF After

LEMMA SaysLost ==
  ASSUME NEW x \in Reasons
  PROVE  /\ \A S \in {Gains, Keys, Begun, Openers, Terms, Goodbyes} : ~Has(<<Lost(x)>>, S)
         /\ Has(<<Lost(x)>>, Losing) <=> x # "doc_changed"
         /\ Has(<<Lost(x)>>, Clearing) <=> x # "ctx_lost"
BY SaysOne, SentSorts

LEMMA SaysTerminated ==
  /\ \A S \in {Gains, Keys, Begun, Openers, Goodbyes, Leaves, Losing, Clearing} : ~Has(<<Req("terminated")>>, S)
  /\ Has(<<Req("terminated")>>, Terms)
BY SaysOne, SentSorts

LEMMA SaysGoodbye ==
  /\ \A S \in {Gains, Keys, Begun, Openers, Terms, Silent, Clearing} : ~Has(<<Req("deactivated")>>, S)
  /\ Has(<<Req("deactivated")>>, Losing) /\ Has(<<Req("deactivated")>>, Goodbyes)
BY SaysOne, SentSorts

LEMMA SaysKey ==
  ASSUME NEW d \in Docs
  PROVE  /\ \A S \in {Gains, Begun, Openers, Terms, Goodbyes, Leaves, Losing, Clearing} : ~Has(<<KeyOn(d)>>, S)
         /\ Has(<<KeyOn(d)>>, Keys)
BY SaysOne, SentSorts

LEMMA SaidSorts ==
  ASSUME NEW r \in Dlls, NEW d \in Docs
  PROVE  /\ \A S \in {Keys, Begun, Terms, Goodbyes} : ~Has(Said(r, d), S)
         /\ Has(Said(r, d), Gains) <=> d \in Edits
         /\ d \in Edits => After(Said(r, d), Gains, Leaves)
         /\ d \in Pages => Has(Said(r, d), Losing) /\ ~Has(Said(r, d), Openers)
         /\ d \in Transients => \A S, T : ~Has(Said(r, d), S) /\ ~After(Said(r, d), S, T)
         /\ d \in Edits => (Has(Said(r, d), Clearing) <=> Moved(r, d) /\ ~r.lostSent)
         /\ d \in Pages => Has(Said(r, d), Clearing)
<1>1. CASE d \in Transients
  <2>1. Said(r, d) = <<>> BY <1>1, SaidIs
  <2> QED BY <1>1, <2>1, SaysNothing, DocsApart
<1> DEFINE a == Lost("doc_changed")  b == Told(d)
<1>2. a \in Requests /\ (\A S \in {Gains, Keys, Begun, Openers, Terms, Goodbyes, Losing} : a \notin S) /\ a \in Clearing
  BY SentSorts, ReasonsAre
<1>3. CASE d \in Edits
  <2>1. b = Req("gained") BY <1>3, DocsApart, ToldIs
  <2>2. b \in Requests /\ (\A S \in {Keys, Begun, Terms, Goodbyes, Leaves, Losing, Clearing} : b \notin S) /\ b \in Gains
    BY <2>1, SentSorts
  <2>3. Said(r, d) = IF Moved(r, d) /\ ~r.lostSent THEN <<a, b>> ELSE <<b>> BY <1>3, DocsApart, SaidIs
  <2> HIDE DEF a, b
  <2>4. CASE Moved(r, d) /\ ~r.lostSent
    <3>1. Said(r, d) = <<a, b>> BY <2>3, <2>4
    <3>2. \A S \in {Keys, Begun, Terms, Goodbyes} : ~Has(<<a, b>>, S) BY <1>2, <2>2, HasTwo
    <3>3. Has(<<a, b>>, Gains) /\ After(<<a, b>>, Gains, Leaves) /\ Has(<<a, b>>, Clearing)
      BY <1>2, <2>2, HasTwo, AfterTwo
    <3> QED BY <1>3, <2>4, <3>1, <3>2, <3>3, DocsApart
  <2>5. CASE ~(Moved(r, d) /\ ~r.lostSent)
    <3>1. Said(r, d) = <<b>> BY <2>3, <2>5
    <3>2. \A S \in {Keys, Begun, Terms, Goodbyes} : ~Has(<<b>>, S) BY <2>2, SaysOne
    <3>3. Has(<<b>>, Gains) /\ After(<<b>>, Gains, Leaves) /\ ~Has(<<b>>, Clearing) BY <2>2, SaysOne
    <3> QED BY <1>3, <2>5, <3>1, <3>2, <3>3, DocsApart
  <2> QED BY <2>4, <2>5
<1>4. CASE d \in Pages
  <2>1. b = Lost("no_edit_ctx") BY <1>4, DocsApart, ToldIs
  <2>2. b \in Requests /\ (\A S \in {Gains, Keys, Begun, Openers, Terms, Goodbyes} : b \notin S) /\ b \in Losing /\ b \in Clearing
    BY <2>1, SentSorts, ReasonsAre
  <2>3. Said(r, d) = IF Moved(r, d) /\ ~r.lostSent THEN <<a, b>> ELSE <<b>> BY <1>4, DocsApart, SaidIs
  <2> HIDE DEF a, b
  <2>4. CASE Moved(r, d) /\ ~r.lostSent
    <3>1. Said(r, d) = <<a, b>> BY <2>3, <2>4
    <3>2. \A S \in {Gains, Keys, Begun, Openers, Terms, Goodbyes} : ~Has(<<a, b>>, S) BY <1>2, <2>2, HasTwo
    <3>3. Has(<<a, b>>, Losing) /\ Has(<<a, b>>, Clearing) BY <1>2, <2>2, HasTwo, AfterTwo
    <3> QED BY <1>4, <3>1, <3>2, <3>3, DocsApart
  <2>5. CASE ~(Moved(r, d) /\ ~r.lostSent)
    <3>1. Said(r, d) = <<b>> BY <2>3, <2>5
    <3>2. \A S \in {Gains, Keys, Begun, Openers, Terms, Goodbyes} : ~Has(<<b>>, S) BY <2>2, SaysOne
    <3>3. Has(<<b>>, Losing) /\ Has(<<b>>, Clearing) BY <2>2, SaysOne
    <3> QED BY <1>4, <3>1, <3>2, <3>3, DocsApart
  <2> QED BY <2>4, <2>5
<1> QED BY <1>1, <1>3, <1>4, DocsApart

LEMMA GreetingSorts ==
  ASSUME NEW h
  PROVE  /\ \A S \in {Keys, Terms, Goodbyes} : ~Has(Greeting(h), S)
         /\ Has(Greeting(h), Gains) => fg = h
         /\ fg = h /\ doc[h] \in Edits => Has(Greeting(h), Gains) /\ After(Greeting(h), Gains, Leaves)
         /\ fg = h /\ doc[h] \in Pages => Has(Greeting(h), Losing) /\ ~After(Greeting(h), Openers, Losing)
<1> DEFINE a == Req("activated")  b == Told(doc[h])
<1>1. a \in Requests /\ (\A S \in {Gains, Keys, Terms, Goodbyes} : a \notin S) BY SentSorts
<1>2. CASE ~Found(h)
  <2>1. Greeting(h) = <<a>> BY <1>2 DEF Greeting
  <2> HIDE DEF a
  <2>2. \A S \in {Gains, Keys, Terms, Goodbyes} : ~Has(<<a>>, S) BY <1>1, SaysOne
  <2> QED BY <1>2, <2>1, <2>2 DEF Found
<1>3. CASE fg = h /\ doc[h] \in Edits
  <2>1. b = Req("gained") BY <1>3, DocsApart, ToldIs
  <2>2. b \in Requests /\ (\A S \in {Keys, Terms, Goodbyes} : b \notin S) /\ b \in Gains BY <2>1, SentSorts
  <2>3. Greeting(h) = <<a, b>> BY <1>3 DEF Greeting, Found
  <2> HIDE DEF a, b
  <2>4. \A S \in {Keys, Terms, Goodbyes} : ~Has(<<a, b>>, S) BY <1>1, <2>2, HasTwo
  <2>5. Has(<<a, b>>, Gains) /\ After(<<a, b>>, Gains, Leaves) BY <1>1, <2>2, HasTwo, AfterTwo
  <2> QED BY <1>3, <2>3, <2>4, <2>5, DocsApart
<1>4. CASE fg = h /\ doc[h] \in Pages
  <2>1. b = Lost("no_edit_ctx") BY <1>4, DocsApart, ToldIs
  <2>2. b \in Requests /\ (\A S \in {Gains, Keys, Openers, Terms, Goodbyes} : b \notin S) /\ b \in Losing
    BY <2>1, SentSorts, ReasonsAre
  <2>3. Greeting(h) = <<a, b>> BY <1>4 DEF Greeting, Found
  <2> HIDE DEF a, b
  <2>4. \A S \in {Gains, Keys, Terms, Goodbyes} : ~Has(<<a, b>>, S) BY <1>1, <2>2, HasTwo
  <2>5. Has(<<a, b>>, Losing) /\ ~After(<<a, b>>, Openers, Losing) BY <1>1, <2>2, HasTwo, AfterTwo
  <2> QED BY <1>4, <2>3, <2>4, <2>5, DocsApart
<1> QED BY <1>2, <1>3, <1>4 DEF Found

--------------------------------------------------------------------------------
(* What each callback does, in one formula.                                  *)

Calls(h, q, e, t0) ==
  /\ Sent(h, q, e) /\ Delivered(h, q, e, t0) /\ q.gen \in 0 .. MaxStarts /\ t0 = <<h, q.gen>>
  /\ fg' = fg /\ half' = half /\ svc' = svc
  /\ \A g \in Hosts : g # h => doc'[g] = doc[g]
  /\ doc' \in [Hosts -> Docs \cup {NoDoc}]

SetsFocus(h, d, q) ==
  /\ Calls(h, q, Said(dll[h], d), Tok(h)) /\ Gained(dll[h], q, d)
  /\ h = fg /\ doc'[h] = d /\ leaving' = leaving /\ dll[h].on /\ ~Has(Own(h), Keys) /\ MayLeave(h, d)
LosesFocus(h, q, e) ==
  /\ Calls(h, q, e, Tok(h)) /\ KeepsAll(dll[h], q) /\ e \in {<<>>, <<Lost("ctx_lost")>>}
  /\ doc'[h] = NoDoc /\ leaving' = leaving /\ dll[h].on /\ ~Has(Own(h), Keys)
LosesThread(h, q, e) ==
  /\ Calls(h, q, e, Tok(h)) /\ Keeps(dll[h], q) /\ q.comp = NoDoc /\ q.lostSent = TRUE
  /\ e = IF dll[h].lostSent THEN <<>> ELSE <<Lost("thread")>>
  /\ h \in leaving /\ h # fg /\ leaving' = leaving \ {h}
  /\ doc[h] = NoDoc /\ doc' = doc /\ dll[h].on /\ ~Has(Own(h), Keys)
Terminates(h, q) ==
  /\ Calls(h, q, <<Req("terminated")>>, Tok(h)) /\ Keeps(dll[h], q) /\ q.comp = NoDoc /\ q.lostSent = dll[h].lostSent
  /\ dll[h].comp # NoDoc /\ doc' = doc /\ leaving' = leaving /\ dll[h].on /\ ~Has(Own(h), Keys)
Deactivates(h, q) ==
  /\ Calls(h, q, <<Req("deactivated")>>, Tok(h)) /\ q.on = FALSE /\ q.gen = dll[h].gen /\ q.comp = NoDoc
  /\ doc'[h] = IF h = fg THEN doc[h] ELSE NoDoc
  /\ leaving' = leaving \ {h} /\ dll[h].on /\ ~Has(Own(h), Keys)
TypesKey(h, q) ==
  /\ Calls(h, q, <<KeyOn(doc[h])>>, Tok(h)) /\ KeepsAll(dll[h], q)
  /\ h = fg /\ doc[h] \in Edits \cup Transients /\ doc' = doc /\ leaving' = leaving
  /\ dll[h].on /\ ~Has(Own(h), Keys)
  /\ \A t \in Tokens : t # Tok(h) => ~Has(pipe[t], Terms) /\ (t[1] = h => ~Has(pipe[t], Goodbyes))
Activates(h, q, t0) ==
  /\ Calls(h, q, Greeting(h), t0) /\ t0 # Tok(h)
  /\ q.on = TRUE /\ q.gen = dll[h].gen + 1 /\ q.comp = NoDoc
  /\ q.lostSent <=> fg = h /\ doc[h] \in Pages
  /\ fg = h /\ doc[h] # NoDoc => q.lastFocused = doc[h]
  /\ Found(h) => q.lastActive = doc[h]
  /\ doc' = doc /\ leaving' = leaving /\ ~dll[h].on /\ ~Has(Own(h), Silent)
  /\ fg = h \/ (Served /\ svc.active[1] = fg /\ svc.focusPid = fg) \/ "activated_outside" \in Faults

LEMMA Effects ==
  ASSUME Types, HalfInv, NEW h \in Hosts
  PROVE  /\ \A d \in Docs : SetFocus(h, d) => \E q : SetsFocus(h, d, q)
         /\ LoseFocus(h) => \E q, e : LosesFocus(h, q, e)
         /\ KillThreadFocus(h) => \E q, e : LosesThread(h, q, e)
         /\ Terminate(h) => \E q : Terminates(h, q)
         /\ Deactivate(h) => \E q : Deactivates(h, q)
         /\ Key(h) => \E q : TypesKey(h, q)
         /\ Activate(h) => \E q, t0 : Activates(h, q, t0)
<1>1. doc \in [Hosts -> Docs \cup {NoDoc}] /\ dll[h].gen \in 0 .. MaxStarts /\ Tok(h) = <<h, dll[h].gen>>
  BY Typed DEF Tok
<1>2. Runs(h) => dll[h].on /\ ~Has(Own(h), Keys) BY Running
<1>3. ASSUME NEW d \in Docs, SetFocus(h, d) PROVE \E q : SetsFocus(h, d, q)
  <2>1. PICK q : Sent(h, q, Said(dll[h], d)) /\ Gained(dll[h], q, d) BY <1>3, SetFocusDoes
  <2>2. q.gen = dll[h].gen BY <2>1 DEF Gained
  <2>3. Delivered(h, q, Said(dll[h], d), Tok(h)) BY <1>1, <2>1, <2>2, SentAt
  <2>4. /\ fg' = fg /\ half' = half /\ svc' = svc /\ leaving' = leaving /\ h = fg /\ Runs(h) /\ MayLeave(h, d)
        /\ doc' = [doc EXCEPT ![h] = d]
    BY <1>3 DEF SetFocus
  <2>5. doc'[h] = d /\ (\A g \in Hosts : g # h => doc'[g] = doc[g]) /\ doc' \in [Hosts -> Docs \cup {NoDoc}]
    BY <1>1, <2>4
  <2> QED BY <1>1, <1>2, <2>1, <2>2, <2>3, <2>4, <2>5 DEF SetsFocus, Calls
<1>4. ASSUME LoseFocus(h) PROVE \E q, e : LosesFocus(h, q, e)
  <2>1. PICK q, e : Sent(h, q, e) /\ KeepsAll(dll[h], q) /\ e \in {<<>>, <<Lost("ctx_lost")>>} BY <1>4, LoseFocusDoes
  <2>2. q.gen = dll[h].gen BY <2>1 DEF KeepsAll, Keeps
  <2>3. Delivered(h, q, e, Tok(h)) BY <1>1, <2>1, <2>2, SentAt
  <2>4. /\ fg' = fg /\ half' = half /\ svc' = svc /\ leaving' = leaving /\ Runs(h)
        /\ doc' = [doc EXCEPT ![h] = NoDoc]
    BY <1>4 DEF LoseFocus
  <2>5. doc'[h] = NoDoc /\ (\A g \in Hosts : g # h => doc'[g] = doc[g]) /\ doc' \in [Hosts -> Docs \cup {NoDoc}]
    BY <1>1, <2>4
  <2> QED BY <1>1, <1>2, <2>1, <2>2, <2>3, <2>4, <2>5 DEF LosesFocus, Calls
<1>5. ASSUME KillThreadFocus(h) PROVE \E q, e : LosesThread(h, q, e)
  <2>1. PICK q, e : /\ Sent(h, q, e) /\ Keeps(dll[h], q) /\ q.comp = NoDoc /\ q.lostSent = TRUE
                    /\ e = IF dll[h].lostSent THEN <<>> ELSE <<Lost("thread")>>
    BY <1>5, KillThreadFocusDoes
  <2>2. q.gen = dll[h].gen BY <2>1 DEF Keeps
  <2>3. Delivered(h, q, e, Tok(h)) BY <1>1, <2>1, <2>2, SentAt
  <2>4. /\ fg' = fg /\ half' = half /\ svc' = svc /\ leaving' = leaving \ {h} /\ Runs(h)
        /\ h \in leaving /\ doc[h] = NoDoc /\ doc' = doc
    BY <1>5 DEF KillThreadFocus
  <2>5. h # fg BY <2>4 DEF Types, TypeOK
  <2> QED BY <1>1, <1>2, <2>1, <2>2, <2>3, <2>4, <2>5 DEF LosesThread, Calls
<1>6. ASSUME Terminate(h) PROVE \E q : Terminates(h, q)
  <2>1. PICK q : /\ Sent(h, q, <<Req("terminated")>>) /\ Keeps(dll[h], q)
                 /\ q.comp = NoDoc /\ q.lostSent = dll[h].lostSent
    BY <1>6, TerminateDoes
  <2>2. q.gen = dll[h].gen BY <2>1 DEF Keeps
  <2>3. Delivered(h, q, <<Req("terminated")>>, Tok(h)) BY <1>1, <2>1, <2>2, SentAt
  <2>4. /\ fg' = fg /\ half' = half /\ svc' = svc /\ leaving' = leaving /\ Runs(h)
        /\ dll[h].comp # NoDoc /\ doc' = doc
    BY <1>6 DEF Terminate
  <2> QED BY <1>1, <1>2, <2>1, <2>2, <2>3, <2>4 DEF Terminates, Calls
<1>7. ASSUME Deactivate(h) PROVE \E q : Deactivates(h, q)
  <2>1. PICK q : /\ Sent(h, q, <<Req("deactivated")>>) /\ q.on = FALSE /\ q.gen = dll[h].gen
                 /\ q.comp = NoDoc
    BY <1>7, DeactivateDoes
  <2>2. q.gen = dll[h].gen BY <2>1
  <2>3. Delivered(h, q, <<Req("deactivated")>>, Tok(h)) BY <1>1, <2>1, <2>2, SentAt
  <2>4. /\ fg' = fg /\ half' = half /\ svc' = svc /\ leaving' = leaving \ {h} /\ Runs(h)
        /\ doc' = [doc EXCEPT ![h] = IF h = fg THEN doc[h] ELSE NoDoc]
    BY <1>7 DEF Deactivate
  <2>5. /\ doc'[h] = IF h = fg THEN doc[h] ELSE NoDoc
        /\ (\A g \in Hosts : g # h => doc'[g] = doc[g]) /\ doc' \in [Hosts -> Docs \cup {NoDoc}]
    BY <1>1, <2>4
  <2> QED BY <1>1, <1>2, <2>1, <2>2, <2>3, <2>4, <2>5 DEF Deactivates, Calls
<1>8. ASSUME Key(h) PROVE \E q : TypesKey(h, q)
  <2>1. PICK q : Sent(h, q, <<KeyOn(doc[h])>>) /\ KeepsAll(dll[h], q) BY <1>8, KeyDoes
  <2>2. q.gen = dll[h].gen BY <2>1 DEF KeepsAll, Keeps
  <2>3. Delivered(h, q, <<KeyOn(doc[h])>>, Tok(h)) BY <1>1, <2>1, <2>2, SentAt
  <2>4. /\ fg' = fg /\ half' = half /\ svc' = svc /\ leaving' = leaving /\ Runs(h) /\ h = fg
        /\ doc[h] \in Edits \cup Transients /\ doc' = doc
    BY <1>8 DEF Key
  <2>5. \A t \in Tokens : t # Tok(h) => ~Has(pipe[t], Terms) /\ (t[1] = h => ~Has(pipe[t], Goodbyes))
    BY <1>1, <1>8, Typing
  <2> QED BY <1>1, <1>2, <2>1, <2>2, <2>3, <2>4, <2>5 DEF TypesKey, Calls
<1>9. ASSUME Activate(h) PROVE \E q, t0 : Activates(h, q, t0)
  <2>1. PICK q : /\ Sent(h, q, Greeting(h))
                 /\ q.on = TRUE /\ q.gen = dll[h].gen + 1 /\ q.gen \in 0 .. MaxStarts /\ q.comp = NoDoc
                 /\ q.lostSent <=> fg = h /\ doc[h] \in Pages
                 /\ fg = h /\ doc[h] # NoDoc => q.lastFocused = doc[h]
                 /\ Found(h) => q.lastActive = doc[h]
    BY <1>9, ActivateDoes
  <2> DEFINE t0 == <<h, q.gen>>
  <2>2. Delivered(h, q, Greeting(h), t0) BY <2>1, SentAt
  <2>3. t0 # Tok(h) BY <1>1, <2>1
  <2>4. /\ fg' = fg /\ half' = half /\ svc' = svc /\ leaving' = leaving /\ doc' = doc /\ ~dll[h].on
        /\ fg = h \/ (Served /\ svc.active[1] = fg /\ svc.focusPid = fg) \/ "activated_outside" \in Faults
    BY <1>9 DEF Activate
  <2>5. ~Has(Own(h), Silent) BY <1>9, Ready
  <2> QED BY <1>1, <2>1, <2>2, <2>3, <2>4, <2>5 DEF Activates, Calls
<1> QED BY <1>3, <1>4, <1>5, <1>6, <1>7, <1>8, <1>9

--------------------------------------------------------------------------------
(* Every step keeps Base.                                                    *)

\* What a DLL remembers, per host.
DocOf(h) ==
  /\ h # fg /\ h \notin leaving => doc[h] = NoDoc
  /\ h \in leaving => dll[h].on
  /\ dll[h].on /\ doc[h] # NoDoc =>
       /\ dll[h].lastFocused = doc[h]
       /\ doc[h] \in Edits => ~dll[h].lostSent /\ dll[h].lastActive # NoDoc
       /\ doc[h] \in Pages => dll[h].lostSent

LEMMA DocByHost ==
  ASSUME Types
  PROVE  DocInv <=> \A h \in Hosts : DocOf(h)
BY DEF DocInv, DocOf, Types, TypeOK

LEMMA DocSent ==
  ASSUME Types, DocInv, Types', NEW h \in Hosts, NEW q, NEW e, NEW t0, Calls(h, q, e, t0),
         leaving' \in {leaving, leaving \ {h}}, DocOf(h)'
  PROVE  DocInv'
<1>1. \A g \in Hosts : g # h => dll'[g] = dll[g] /\ doc'[g] = doc[g] BY DEF Calls, Delivered
<1>2. fg' = fg BY DEF Calls
<1>3. ASSUME NEW g \in Hosts PROVE DocOf(g)'
  <2>1. CASE g = h BY <2>1
  <2>2. CASE g # h
    <3>1. DocOf(g) BY DocByHost
    <3>2. dll'[g] = dll[g] /\ doc'[g] = doc[g] /\ (g \in leaving' <=> g \in leaving) BY <1>1, <2>2
    <3> QED BY <1>2, <3>1, <3>2 DEF DocOf
  <2> QED BY <2>1, <2>2
<1>4. \A g \in leaving' : g \in Hosts BY DEF Types, TypeOK
<1> QED BY <1>3, <1>4 DEF DocInv, DocOf

LEMMA UsedGrows ==
  ASSUME Types
  PROVE  /\ used.starts \in Nat /\ used.starts >= used.starts
         /\ \A h \in Hosts : dll[h].gen <= used.starts
         /\ used.focus < MaxFocus => 
              LET u == [used EXCEPT !.focus = @ + 1]
              IN  u.starts = used.starts
                  /\ u \in [switches : 0 .. MaxSwitches, focus : 0 .. MaxFocus, keys : 0 .. MaxKeys, starts : 0 .. MaxStarts]
         /\ used.keys < MaxKeys => 
              LET u == [used EXCEPT !.keys = @ + 1]
              IN  u.starts = used.starts
                  /\ u \in [switches : 0 .. MaxSwitches, focus : 0 .. MaxFocus, keys : 0 .. MaxKeys, starts : 0 .. MaxStarts]
         /\ used.switches < MaxSwitches => 
              LET u == [used EXCEPT !.switches = @ + 1]
              IN  u.starts = used.starts
                  /\ u \in [switches : 0 .. MaxSwitches, focus : 0 .. MaxFocus, keys : 0 .. MaxKeys, starts : 0 .. MaxStarts]
         /\ used.starts < MaxStarts => 
              LET u == [used EXCEPT !.starts = @ + 1]
              IN  u.starts = used.starts + 1
                  /\ u \in [switches : 0 .. MaxSwitches, focus : 0 .. MaxFocus, keys : 0 .. MaxKeys, starts : 0 .. MaxStarts]
         /\ used \in [switches : 0 .. MaxSwitches, focus : 0 .. MaxFocus, keys : 0 .. MaxKeys, starts : 0 .. MaxStarts]
<1>1. used \in [switches : 0 .. MaxSwitches, focus : 0 .. MaxFocus, keys : 0 .. MaxKeys, starts : 0 .. MaxStarts]
      /\ \A h \in Hosts : dll[h].gen <= used.starts
  BY DEF Types, TypeOK
<1>2. MaxSwitches \in Nat /\ MaxFocus \in Nat /\ MaxKeys \in Nat /\ MaxStarts \in Nat OBVIOUS
<1> QED BY <1>1, <1>2

\* The types, and that a request half handled is the first one, need nothing else.
LEMMA CallbackTypes ==
  ASSUME Types, HalfInv, NEW h \in Hosts, Callback(h)
  PROVE  Types' /\ HalfInv'
<1>1. dll[h].gen <= used.starts /\ used.starts \in Nat /\ dll[h].gen \in Nat BY Typed, UsedGrows
<1>2. ASSUME NEW q, NEW e, NEW t0, Calls(h, q, e, t0), leaving' \subseteq leaving,
             q.gen = dll[h].gen \/ (q.gen = dll[h].gen + 1 /\ used'.starts = used.starts + 1),
             used'.starts = used.starts \/ used'.starts = used.starts + 1,
             used' \in [switches : 0 .. MaxSwitches, focus : 0 .. MaxFocus, keys : 0 .. MaxKeys, starts : 0 .. MaxStarts]
      PROVE  Types' /\ HalfInv'
  <2>1. used'.starts >= used.starts /\ q.gen <= used'.starts BY <1>1, <1>2
  <2>2. Types' BY <1>2, <2>1, TypesSent DEF Calls
  <2>3. half' = half /\ \A t \in Tokens : pipe[t] # <<>> => pipe'[t] # <<>> /\ pipe'[t][1] = pipe[t][1]
    BY <1>2 DEF Calls, Delivered
  <2>4. \A t \in Tokens : half[t] = 1 \/ half[t] = 2 => half[t] > 0 OBVIOUS
  <2> QED BY <2>2, <2>3, <2>4 DEF HalfInv
<1>3. used \in [switches : 0 .. MaxSwitches, focus : 0 .. MaxFocus, keys : 0 .. MaxKeys, starts : 0 .. MaxStarts]
  BY UsedGrows
<1>4. ASSUME NEW d \in Docs, SetFocus(h, d) PROVE Types' /\ HalfInv'
  <2>1. PICK q : SetsFocus(h, d, q) BY <1>4, Effects
  <2>2. Calls(h, q, Said(dll[h], d), Tok(h)) /\ q.gen = dll[h].gen /\ leaving' = leaving
    BY <2>1 DEF SetsFocus, Gained
  <2>3. used'.starts = used.starts
        /\ used' \in [switches : 0 .. MaxSwitches, focus : 0 .. MaxFocus, keys : 0 .. MaxKeys, starts : 0 .. MaxStarts]
    BY <1>4, UsedGrows DEF SetFocus
  <2> QED BY <1>2, <2>2, <2>3
<1>5. ASSUME LoseFocus(h) PROVE Types' /\ HalfInv'
  <2>1. PICK q, e : LosesFocus(h, q, e) BY <1>5, Effects
  <2>2. Calls(h, q, e, Tok(h)) /\ q.gen = dll[h].gen /\ leaving' = leaving BY <2>1 DEF LosesFocus, KeepsAll, Keeps
  <2>3. used' = used BY <1>5 DEF LoseFocus
  <2> QED BY <1>2, <1>3, <2>2, <2>3
<1>6. ASSUME KillThreadFocus(h) PROVE Types' /\ HalfInv'
  <2>1. PICK q, e : LosesThread(h, q, e) BY <1>6, Effects
  <2>2. Calls(h, q, e, Tok(h)) /\ q.gen = dll[h].gen BY <2>1 DEF LosesThread, Keeps
  <2>3. used' = used /\ leaving' \subseteq leaving BY <1>6 DEF KillThreadFocus
  <2> QED BY <1>2, <1>3, <2>2, <2>3
<1>7. ASSUME Terminate(h) PROVE Types' /\ HalfInv'
  <2>1. PICK q : Terminates(h, q) BY <1>7, Effects
  <2>2. Calls(h, q, <<Req("terminated")>>, Tok(h)) /\ q.gen = dll[h].gen BY <2>1 DEF Terminates, Keeps
  <2>3. used' = used /\ leaving' = leaving BY <1>7 DEF Terminate
  <2> QED BY <1>2, <1>3, <2>2, <2>3
<1>8. ASSUME Deactivate(h) PROVE Types' /\ HalfInv'
  <2>1. PICK q : Deactivates(h, q) BY <1>8, Effects
  <2>2. Calls(h, q, <<Req("deactivated")>>, Tok(h)) /\ q.gen = dll[h].gen BY <2>1 DEF Deactivates
  <2>3. used' = used /\ leaving' \subseteq leaving BY <1>8 DEF Deactivate
  <2> QED BY <1>2, <1>3, <2>2, <2>3
<1>9. ASSUME Key(h) PROVE Types' /\ HalfInv'
  <2>1. PICK q : TypesKey(h, q) BY <1>9, Effects
  <2>2. Calls(h, q, <<KeyOn(doc[h])>>, Tok(h)) /\ q.gen = dll[h].gen /\ leaving' = leaving
    BY <2>1 DEF TypesKey, KeepsAll, Keeps
  <2>3. used'.starts = used.starts
        /\ used' \in [switches : 0 .. MaxSwitches, focus : 0 .. MaxFocus, keys : 0 .. MaxKeys, starts : 0 .. MaxStarts]
    BY <1>9, UsedGrows DEF Key
  <2> QED BY <1>2, <2>2, <2>3
<1>10. ASSUME Activate(h) PROVE Types' /\ HalfInv'
  <2>1. PICK q, t0 : Activates(h, q, t0) BY <1>10, Effects
  <2>2. Calls(h, q, Greeting(h), t0) /\ q.gen = dll[h].gen + 1 /\ leaving' = leaving BY <2>1 DEF Activates
  <2>3. used'.starts = used.starts + 1
        /\ used' \in [switches : 0 .. MaxSwitches, focus : 0 .. MaxFocus, keys : 0 .. MaxKeys, starts : 0 .. MaxStarts]
    BY <1>10, UsedGrows DEF Activate
  <2> QED BY <1>2, <2>2, <2>3
<1> QED BY <1>4, <1>5, <1>6, <1>7, <1>8, <1>9, <1>10 DEF Callback

LEMMA CallbackBase ==
  ASSUME Base, NEW h \in Hosts, Callback(h)
  PROVE  Base'
<1>1. Types /\ PipeInv /\ DocInv /\ DocOf(h) BY DocByHost DEF Base
<1>0. Types' /\ HalfInv' BY <1>1, CallbackTypes DEF PipeInv
<1>2. Tok(h) = <<h, dll[h].gen>> /\ dll[h].gen \in 0 .. MaxStarts /\ dll[h].gen <= used.starts /\ used.starts \in Nat
      /\ used.starts >= used.starts /\ Tok(h) \in Tokens
  BY <1>1, Typed, UsedGrows DEF Tok
<1>3. ASSUME NEW d \in Docs, SetFocus(h, d) PROVE Base'
  <2>1. PICK q : SetsFocus(h, d, q) BY <1>1, <1>3, Effects DEF PipeInv
  <2>2. /\ Calls(h, q, Said(dll[h], d), Tok(h)) /\ Gained(dll[h], q, d)
        /\ h = fg /\ doc'[h] = d /\ leaving' = leaving /\ dll[h].on /\ ~Has(Own(h), Keys)
    BY <2>1 DEF SetsFocus
  <2>3. /\ \A S \in {Keys} : ~Has(Said(dll[h], d), S)
    BY <1>1, Typed, SaidSorts DEF Idle
  <2>6. PipeInv'
    <3>1. KeyLast(Said(dll[h], d), d) BY <2>3, KeyLastNone
    <3> QED BY <1>1, <2>2, <2>3, <3>1, PipeSent DEF Calls
  <2>7. DocOf(h)'
    <3>1. dll'[h] = q /\ fg' = fg BY <2>2 DEF Calls, Delivered
    <3> QED BY <2>2, <3>1, DocsApart, <1>1 DEF DocOf, Gained, Types, TypeOK
  <2> QED BY <1>1, <2>2, <1>0, <2>6, <2>7, DocSent DEF Base
<1>4. ASSUME LoseFocus(h) PROVE Base'
  <2>1. PICK q, e : LosesFocus(h, q, e) BY <1>1, <1>4, Effects DEF PipeInv
  <2>2. /\ Calls(h, q, e, Tok(h)) /\ KeepsAll(dll[h], q) /\ e \in {<<>>, <<Lost("ctx_lost")>>}
        /\ doc'[h] = NoDoc /\ leaving' = leaving /\ dll[h].on /\ ~Has(Own(h), Keys)
    BY <2>1 DEF LosesFocus
  <2>3. ~Has(e, Keys) /\ ~Has(e, Gains) BY <2>2, SaysNothing, SaysLost, ReasonsAre
  <2>6. PipeInv'
    <3>1. KeyLast(e, NoDoc) BY <2>3, KeyLastNone
    <3> QED BY <1>1, <2>2, <2>3, <3>1, PipeSent DEF Calls
  <2>7. DocOf(h)'
    <3>1. dll'[h] = q /\ fg' = fg BY <2>2 DEF Calls, Delivered
    <3> QED BY <1>1, <2>2, <3>1 DEF DocOf, KeepsAll, Keeps
  <2> QED BY <1>1, <2>2, <1>0, <2>6, <2>7, DocSent DEF Base
<1>5. ASSUME KillThreadFocus(h) PROVE Base'
  <2>1. PICK q, e : LosesThread(h, q, e) BY <1>1, <1>5, Effects DEF PipeInv
  <2>2. /\ Calls(h, q, e, Tok(h)) /\ Keeps(dll[h], q) /\ e \in {<<>>, <<Lost("thread")>>}
        /\ doc[h] = NoDoc /\ doc' = doc /\ leaving' = leaving \ {h} /\ dll[h].on /\ ~Has(Own(h), Keys)
    BY <2>1 DEF LosesThread
  <2>3. ~Has(e, Keys) /\ ~Has(e, Gains) BY <2>2, SaysNothing, SaysLost, ReasonsAre
  <2>6. PipeInv'
    <3>1. KeyLast(e, doc'[h]) BY <2>3, KeyLastNone
    <3> QED BY <1>1, <2>2, <2>3, <3>1, PipeSent DEF Calls
  <2>7. DocOf(h)'
    <3>1. dll'[h] = q /\ fg' = fg BY <2>2 DEF Calls, Delivered
    <3> QED BY <2>2, <3>1 DEF DocOf, Keeps
  <2> QED BY <1>1, <2>2, <1>0, <2>6, <2>7, DocSent DEF Base
<1>6. ASSUME Terminate(h) PROVE Base'
  <2>1. PICK q : Terminates(h, q) BY <1>1, <1>6, Effects DEF PipeInv
  <2> DEFINE e == <<Req("terminated")>>
  <2>2. /\ Calls(h, q, e, Tok(h)) /\ Keeps(dll[h], q) /\ q.lostSent = dll[h].lostSent
        /\ doc' = doc /\ leaving' = leaving /\ dll[h].on /\ ~Has(Own(h), Keys)
    BY <2>1 DEF Terminates
  <2>3. ~Has(e, Keys) /\ ~Has(e, Gains) BY SaysTerminated
  <2> HIDE DEF e
  <2>6. PipeInv'
    <3>1. KeyLast(e, doc'[h]) BY <2>3, KeyLastNone
    <3> QED BY <1>1, <2>2, <2>3, <3>1, PipeSent DEF Calls
  <2>7. DocOf(h)'
    <3>1. dll'[h] = q /\ fg' = fg BY <2>2 DEF Calls, Delivered
    <3> QED BY <1>1, <2>2, <3>1 DEF DocOf, Keeps
  <2> QED BY <1>1, <2>2, <1>0, <2>6, <2>7, DocSent DEF Base
<1>7. ASSUME Deactivate(h) PROVE Base'
  <2>1. PICK q : Deactivates(h, q) BY <1>1, <1>7, Effects DEF PipeInv
  <2> DEFINE e == <<Req("deactivated")>>
  <2>2. /\ Calls(h, q, e, Tok(h)) /\ q.on = FALSE /\ q.gen = dll[h].gen
        /\ doc'[h] = IF h = fg THEN doc[h] ELSE NoDoc
        /\ leaving' = leaving \ {h} /\ dll[h].on /\ ~Has(Own(h), Keys)
    BY <2>1 DEF Deactivates
  <2>3. ~Has(e, Keys) /\ ~Has(e, Gains) BY SaysGoodbye
  <2> HIDE DEF e
  <2>6. PipeInv'
    <3>1. KeyLast(e, doc'[h]) BY <2>3, KeyLastNone
    <3> QED BY <1>1, <2>2, <2>3, <3>1, PipeSent DEF Calls
  <2>7. DocOf(h)'
    <3>1. dll'[h] = q /\ fg' = fg BY <2>2 DEF Calls, Delivered
    <3> QED BY <2>2, <3>1 DEF DocOf
  <2> QED BY <1>1, <2>2, <1>0, <2>6, <2>7, DocSent DEF Base
<1>8. ASSUME Key(h) PROVE Base'
  <2>1. PICK q : TypesKey(h, q) BY <1>1, <1>8, Effects DEF PipeInv
  <2> DEFINE e == <<KeyOn(doc[h])>>
  <2>2. /\ Calls(h, q, e, Tok(h)) /\ KeepsAll(dll[h], q)
        /\ h = fg /\ doc[h] \in Edits \cup Transients /\ doc' = doc /\ leaving' = leaving
        /\ dll[h].on /\ ~Has(Own(h), Keys)
    BY <2>1 DEF TypesKey
  <2>3. KeyLast(e, doc[h]) BY KeyLastOne
  <2> HIDE DEF e
  <2>6. PipeInv'
    <3>1. q.on BY <2>2 DEF KeepsAll, Keeps
    <3> QED BY <1>1, <2>2, <2>3, <3>1, PipeSent DEF Calls
  <2>7. DocOf(h)'
    <3>1. dll'[h] = q /\ fg' = fg BY <2>2 DEF Calls, Delivered
    <3> QED BY <1>1, <2>2, <3>1 DEF DocOf, KeepsAll, Keeps
  <2> QED BY <1>1, <2>2, <1>0, <2>6, <2>7, DocSent DEF Base
<1>9. ASSUME Activate(h) PROVE Base'
  <2>1. PICK q, t0 : Activates(h, q, t0) BY <1>1, <1>9, Effects DEF PipeInv
  <2>2. /\ Calls(h, q, Greeting(h), t0)
        /\ q.on = TRUE /\ q.gen = dll[h].gen + 1
        /\ q.lostSent <=> fg = h /\ doc[h] \in Pages
        /\ fg = h /\ doc[h] # NoDoc => q.lastFocused = doc[h]
        /\ Found(h) => q.lastActive = doc[h]
        /\ doc' = doc /\ leaving' = leaving /\ ~dll[h].on /\ ~Has(Own(h), Silent)
    BY <2>1 DEF Activates
  <2>3. ~Has(Greeting(h), Keys) /\ (Has(Greeting(h), Gains) => fg = h) BY GreetingSorts
  <2>6. PipeInv'
    <3>1. KeyLast(Greeting(h), doc'[h]) BY <2>3, KeyLastNone
    <3>2. ~Has(Own(h), Keys) BY <2>2, HasOf
    <3> QED BY <1>1, <2>2, <2>3, <3>1, <3>2, PipeSent DEF Calls
  <2>7. DocOf(h)'
    <3>1. dll'[h] = q /\ fg' = fg BY <2>2 DEF Calls, Delivered
    <3> QED BY <1>1, <2>2, <3>1, DocsApart DEF DocOf, Found
  <2> QED BY <1>1, <2>2, <1>0, <2>6, <2>7, DocSent DEF Base
<1> QED BY <1>3, <1>4, <1>5, <1>6, <1>7, <1>8, <1>9 DEF Callback

LEMMA TypesKept ==
  ASSUME Types, fg' \in Hosts \cup {Outside}, leaving' \subseteq Hosts \ {fg'}, doc' \in [Hosts -> Docs \cup {NoDoc}],
         dll' = dll \/ \E h \in Hosts, c \in Docs \cup {NoDoc} : dll' = [dll EXCEPT ![h].comp = c],
         pipe' \in [Tokens -> Seq(Requests)], half' \in [Tokens -> 0 .. 2], svc' \in Services,
         used'.starts = used.starts,
         used' \in [switches : 0 .. MaxSwitches, focus : 0 .. MaxFocus, keys : 0 .. MaxKeys, starts : 0 .. MaxStarts]
  PROVE  /\ Types' 
         /\ \A g \in Hosts : /\ dll'[g].on = dll[g].on /\ dll'[g].gen = dll[g].gen
                             /\ dll'[g].lastFocused = dll[g].lastFocused /\ dll'[g].lastActive = dll[g].lastActive
                             /\ dll'[g].lostSent = dll[g].lostSent
<1> DEFINE D == [on : BOOLEAN, gen : 0 .. MaxStarts, lastActive : Docs \cup {NoDoc},
                 lastFocused : Docs \cup {NoDoc}, lostSent : BOOLEAN, ctxReported : BOOLEAN,
                 comp : Docs \cup {NoDoc}, out : {<<>>}]
<1>1. dll \in [Hosts -> D] BY DEF Types, TypeOK
<1>2. /\ dll' \in [Hosts -> D]
      /\ \A g \in Hosts : /\ dll'[g].on = dll[g].on /\ dll'[g].gen = dll[g].gen
                          /\ dll'[g].lastFocused = dll[g].lastFocused /\ dll'[g].lastActive = dll[g].lastActive
                          /\ dll'[g].lostSent = dll[g].lostSent /\ dll'[g].ctxReported = dll[g].ctxReported
  <2>1. CASE dll' = dll BY <1>1, <2>1
  <2>2. ASSUME NEW h \in Hosts, NEW c \in Docs \cup {NoDoc}, dll' = [dll EXCEPT ![h].comp = c]
        PROVE  /\ dll' \in [Hosts -> D]
               /\ \A g \in Hosts : /\ dll'[g].on = dll[g].on /\ dll'[g].gen = dll[g].gen
                                   /\ dll'[g].lastFocused = dll[g].lastFocused /\ dll'[g].lastActive = dll[g].lastActive
                                   /\ dll'[g].lostSent = dll[g].lostSent /\ dll'[g].ctxReported = dll[g].ctxReported
    <3> DEFINE r == [dll[h] EXCEPT !.comp = c]
    <3>1. /\ r \in D /\ r.on = dll[h].on /\ r.gen = dll[h].gen /\ r.lastFocused = dll[h].lastFocused
          /\ r.lastActive = dll[h].lastActive /\ r.lostSent = dll[h].lostSent /\ r.ctxReported = dll[h].ctxReported
      <4> DEFINE s == dll[h]
      <4>1. s \in D BY <1>1
      <4> HIDE DEF s
      <4>2. /\ [s EXCEPT !.comp = c] \in D /\ [s EXCEPT !.comp = c].on = s.on /\ [s EXCEPT !.comp = c].gen = s.gen
            /\ [s EXCEPT !.comp = c].lastFocused = s.lastFocused /\ [s EXCEPT !.comp = c].lastActive = s.lastActive
            /\ [s EXCEPT !.comp = c].lostSent = s.lostSent /\ [s EXCEPT !.comp = c].ctxReported = s.ctxReported
        BY <4>1
      <4> QED BY <4>2 DEF s
    <3>2. dll' = [dll EXCEPT ![h] = r] BY <2>2
    <3> HIDE DEF r, D
    <3>3. dll'[h] = r /\ (\A g \in Hosts : g # h => dll'[g] = dll[g]) /\ dll' \in [Hosts -> D] BY <1>1, <3>1, <3>2
    <3> QED BY <3>1, <3>3
  <2> QED BY <2>1, <2>2
<1>3. \A g \in Hosts : (dll'[g].ctxReported => ~dll'[g].lostSent) /\ dll'[g].gen <= used'.starts
  BY <1>2 DEF Types, TypeOK
<1>4. TypeOK' BY <1>2, <1>3 DEF TypeOK, Services
<1> QED BY <1>2, <1>3, <1>4 DEF Types

LEMMA HandlerTypes ==
  ASSUME Types, HalfInv, NEW t \in Tokens, Handler(t)
  PROVE  /\ Types' /\ HalfInv'
         /\ \A g \in Hosts : /\ dll'[g].on = dll[g].on /\ dll'[g].gen = dll[g].gen
                             /\ dll'[g].lastFocused = dll[g].lastFocused /\ dll'[g].lastActive = dll[g].lastActive
                             /\ dll'[g].lostSent = dll[g].lostSent
         /\ Ends(t) => Shortened(t)
<1>2. pipe[t] # <<>> /\ svc' \in Services /\ (Continues(t, 1) \/ Continues(t, 2) \/ Ends(t)) BY HandlerShape
<1>3. UNCHANGED <<fg, leaving, doc, used>> BY <1>2 DEF Continues, Ends, GoesOn, Finishes
<1>4. /\ fg \in Hosts \cup {Outside} /\ leaving \subseteq Hosts \ {fg} /\ doc \in [Hosts -> Docs \cup {NoDoc}]
      /\ pipe \in [Tokens -> Seq(Requests)] /\ half \in [Tokens -> 0 .. 2] /\ t[1] \in Hosts
      /\ used \in [switches : 0 .. MaxSwitches, focus : 0 .. MaxFocus, keys : 0 .. MaxKeys, starts : 0 .. MaxStarts]
  BY Typed DEF Types, TypeOK
<1>5. dll' = dll \/ \E h \in Hosts, c \in Docs \cup {NoDoc} : dll' = [dll EXCEPT ![h].comp = c]
  BY <1>2, <1>4 DEF Continues, Ends
<1>6. ASSUME Continues(t, 1) \/ Continues(t, 2) PROVE pipe' = pipe /\ half' \in [Tokens -> 0 .. 2]
  BY <1>4, <1>6 DEF Continues, GoesOn
<1>7. ASSUME Ends(t) PROVE Shortened(t)
  BY <1>2, <1>7, Handled DEF Ends, Finishes
<1>8. pipe' \in [Tokens -> Seq(Requests)] /\ half' \in [Tokens -> 0 .. 2] BY <1>2, <1>4, <1>6, <1>7 DEF Shortened
<1>9. /\ Types'
      /\ \A g \in Hosts : /\ dll'[g].on = dll[g].on /\ dll'[g].gen = dll[g].gen
                          /\ dll'[g].lastFocused = dll[g].lastFocused /\ dll'[g].lastActive = dll[g].lastActive
                          /\ dll'[g].lostSent = dll[g].lostSent
  BY <1>2, <1>3, <1>4, <1>5, <1>8, TypesKept
<1>10. HalfInv'
  <2>1. CASE Continues(t, 1) \/ Continues(t, 2)
    <3>1. pipe' = pipe BY <1>6, <2>1
    <3>2. /\ \A u \in Tokens : u # t => half'[u] = half[u]
          /\ half'[t] = 1 => pipe[t][1] \in Openers \cup Leaves
          /\ half'[t] = 2 => pipe[t][1] \in Gains
      BY <1>4, <2>1 DEF Continues, GoesOn
    <3> QED BY <1>2, <3>1, <3>2 DEF HalfInv
  <2>2. CASE Ends(t)
    <3>1. half'[t] = 0 /\ \A u \in Tokens : u # t => pipe'[u] = pipe[u] /\ half'[u] = half[u]
      BY <1>7, <2>2 DEF Shortened
    <3> QED BY <3>1 DEF HalfInv
  <2> QED BY <1>2, <2>1, <2>2
<1> QED BY <1>7, <1>9, <1>10

LEMMA HandlerBase ==
  ASSUME Base, NEW t \in Tokens, Handler(t)
  PROVE  Base'
<1>1. Types /\ HalfInv /\ PipeInv /\ DocInv BY DEF Base, PipeInv
<1>2. pipe[t] # <<>> /\ svc' \in Services /\ (Continues(t, 1) \/ Continues(t, 2) \/ Ends(t)) BY <1>1, HandlerShape
<1>3. UNCHANGED <<fg, leaving, doc, used>> BY <1>2 DEF Continues, Ends, GoesOn, Finishes
<1>4. /\ fg \in Hosts \cup {Outside} /\ leaving \subseteq Hosts \ {fg} /\ doc \in [Hosts -> Docs \cup {NoDoc}]
      /\ pipe \in [Tokens -> Seq(Requests)] /\ half \in [Tokens -> 0 .. 2] /\ t[1] \in Hosts
      /\ used \in [switches : 0 .. MaxSwitches, focus : 0 .. MaxFocus, keys : 0 .. MaxKeys, starts : 0 .. MaxStarts]
  BY <1>1, Typed DEF Types, TypeOK
<1>6. ASSUME Continues(t, 1) \/ Continues(t, 2) PROVE pipe' = pipe BY <1>6 DEF Continues, GoesOn
<1>9. /\ Types' /\ HalfInv' /\ (Ends(t) => Shortened(t))
      /\ \A g \in Hosts : /\ dll'[g].on = dll[g].on /\ dll'[g].gen = dll[g].gen
                          /\ dll'[g].lastFocused = dll[g].lastFocused /\ dll'[g].lastActive = dll[g].lastActive
                          /\ dll'[g].lostSent = dll[g].lostSent
  BY <1>1, HandlerTypes
<1>10. DocInv'
  <2>1. \A h \in leaving : h \in Hosts BY <1>4
  <2> QED BY <1>1, <1>3, <1>9, <2>1 DEF DocInv
<1>11. \A h \in Hosts : Tok(h)' = Tok(h) /\ Tok(h) \in Tokens BY <1>1, <1>9, Typed DEF Tok
<1>12. CASE Continues(t, 1) \/ Continues(t, 2)
  <2>1. pipe' = pipe BY <1>6, <1>12
  <2>3. \A h \in Hosts : Own(h)' = Own(h) BY <1>11, <2>1 DEF Own
  <2>5. \A u \in Tokens : u # Tok(u[1])' => ~Has(pipe'[u], Silent)
    <3>1. \A u \in Tokens : Tok(u[1])' = Tok(u[1]) BY <1>1, <1>11, Typed
    <3> QED BY <1>1, <2>1, <3>1 DEF PipeInv, HalfInv
  <2>6. ASSUME NEW h \in Hosts
        PROVE  /\ h # fg' => ~Has(Own(h)', Gains) /\ ~Has(Own(h)', Keys)
               /\ KeyLast(Own(h)', doc'[h])
               /\ Has(Own(h)', Keys) => dll'[h].on /\ doc'[h] \in Edits \cup Transients
    BY <1>1, <1>3, <1>9, <2>3 DEF PipeInv, HalfInv
  <2>7. PipeInv' BY <1>9, <2>5, <2>6 DEF PipeInv
  <2> QED BY <1>9, <1>10, <2>7 DEF Base
<1>13. CASE Ends(t)
  <2>1. /\ pipe[t] \in Seq(Requests) /\ pipe'[t] = Tail(pipe[t]) /\ half'[t] = 0
        /\ \A u \in Tokens : u # t => pipe'[u] = pipe[u] /\ half'[u] = half[u]
        /\ \A S : Has(pipe[t], S) <=> pipe[t][1] \in S \/ Has(pipe'[t], S)
    BY <1>9, <1>13 DEF Shortened
  <2>2. \A S : \A u \in Tokens : Has(pipe'[u], S) => Has(pipe[u], S) BY <2>1
  <2>4. \A u \in Tokens : u # Tok(u[1])' => ~Has(pipe'[u], Silent)
    <3>1. \A u \in Tokens : Tok(u[1])' = Tok(u[1]) BY <1>1, <1>11, Typed
    <3> QED BY <1>1, <2>2, <3>1 DEF PipeInv, HalfInv
  <2>5. ASSUME NEW h \in Hosts
        PROVE  /\ h # fg' => ~Has(Own(h)', Gains) /\ ~Has(Own(h)', Keys)
               /\ KeyLast(Own(h)', doc'[h])
               /\ Has(Own(h)', Keys) => dll'[h].on /\ doc'[h] \in Edits \cup Transients
    <3>1. Own(h)' = pipe'[Tok(h)] /\ Own(h) = pipe[Tok(h)] /\ Tok(h) \in Tokens BY <1>11 DEF Own
    <3>2. Has(Own(h)', Gains) => Has(Own(h), Gains) BY <2>2, <3>1
    <3>3. Has(Own(h)', Keys) => Has(Own(h), Keys) BY <2>2, <3>1
    <3>4. KeyLast(Own(h)', doc[h])
      <4>1. KeyLast(Own(h), doc[h]) BY <1>1 DEF PipeInv, HalfInv
      <4>2. CASE Tok(h) = t
        <5>1. KeyLast(Tail(pipe[t]), doc[h]) BY <1>2, <2>1, <3>1, <4>1, <4>2, KeyLastTail
        <5> QED BY <2>1, <3>1, <4>2, <5>1
      <4>3. CASE Tok(h) # t BY <2>1, <3>1, <4>1, <4>3
      <4> QED BY <4>2, <4>3
    <3> QED BY <1>1, <1>3, <1>9, <3>2, <3>3, <3>4 DEF PipeInv, HalfInv
  <2>6. PipeInv' BY <1>9, <2>4, <2>5 DEF PipeInv
  <2> QED BY <1>9, <1>10, <2>6 DEF Base
<1> QED BY <1>2, <1>12, <1>13

\* A switch of the foreground changes the process, what its DLL has yet to be told, and documents.
LEMMA SwitchTypes ==
  ASSUME Types, HalfInv, NEW x \in Hosts \cup {Outside}, Switch(x)
  PROVE  Types' /\ HalfInv'
<1>1. /\ fg' = x /\ x \notin leaving /\ x # fg
      /\ leaving' = leaving \cup {h \in Hosts : h = fg /\ dll[h].on}
      /\ doc' = [h \in Hosts |-> IF dll[h].on THEN doc[h] ELSE NoDoc]
      /\ used' = [used EXCEPT !.switches = @ + 1] /\ used.switches < MaxSwitches
      /\ UNCHANGED <<dll, pipe, half, svc>>
  BY DEF Switch
<1>2. /\ leaving \subseteq Hosts \ {fg} /\ doc \in [Hosts -> Docs \cup {NoDoc}]
      /\ pipe \in [Tokens -> Seq(Requests)] /\ half \in [Tokens -> 0 .. 2] /\ svc \in Services
  BY DEF Types, TypeOK, Services
<1>3. doc' \in [Hosts -> Docs \cup {NoDoc}] /\ leaving' \subseteq Hosts \ {fg'} BY <1>1, <1>2
<1>4. used'.starts = used.starts
      /\ used' \in [switches : 0 .. MaxSwitches, focus : 0 .. MaxFocus, keys : 0 .. MaxKeys, starts : 0 .. MaxStarts]
  BY <1>1, UsedGrows
<1>5. Types' BY <1>1, <1>2, <1>3, <1>4, TypesKept
<1>6. HalfInv' BY <1>1 DEF HalfInv
<1> QED BY <1>5, <1>6

\* What a switch of the foreground changes.
Switches(x) ==
  /\ fg' = x /\ x # fg /\ x \notin leaving /\ x \in Hosts \cup {Outside}
  /\ leaving' = leaving \cup {h \in Hosts : h = fg /\ dll[h].on}
  /\ \A h \in Hosts : doc'[h] = IF dll[h].on THEN doc[h] ELSE NoDoc
  /\ UNCHANGED <<dll, pipe, half, svc>>
  /\ fg \in Hosts => MayLeave(fg, NoDoc)
  /\ x \in Hosts => doc'[x] = NoDoc

LEMMA SwitchBase ==
  ASSUME Base, Patient, NEW x \in Hosts \cup {Outside}, Switch(x)
  PROVE  Base' /\ Switches(x)
<1>1. Types /\ PipeInv /\ DocInv BY DEF Base
<1>2. /\ fg' = x /\ x # fg /\ x \notin leaving
      /\ leaving' = leaving \cup {h \in Hosts : h = fg /\ dll[h].on}
      /\ doc' = [h \in Hosts |-> IF dll[h].on THEN doc[h] ELSE NoDoc]
      /\ used' = [used EXCEPT !.switches = @ + 1] /\ used.switches < MaxSwitches
      /\ UNCHANGED <<dll, pipe, half, svc>>
      /\ fg \in Hosts => MayLeave(fg, NoDoc)
  BY DEF Switch
<1>6. Types' /\ HalfInv' BY <1>1, SwitchTypes DEF PipeInv
<1>7. Switches(x)
  <2>1. x \in Hosts => doc[x] = NoDoc BY <1>1, <1>2 DEF DocInv
  <2>2. \A h \in Hosts : doc'[h] = IF dll[h].on THEN doc[h] ELSE NoDoc BY <1>2
  <2> QED BY <1>2, <2>1, <2>2 DEF Switches
<1>8. \A t \in Tokens : ~Has(pipe[t], Keys) /\ ~Has(pipe[t], Gains) /\ half[t] = 0 BY <1>1, Quiet
<1>9. PipeInv'
  <2>1. \A h \in Hosts : Tok(h)' = Tok(h) /\ Tok(h) \in Tokens BY <1>1, <1>2, Typed DEF Tok
  <2>2. \A h \in Hosts : Own(h)' = Own(h) /\ Own(h) = pipe[Tok(h)] BY <1>2, <2>1 DEF Own
  <2>3. \A u \in Tokens : u # Tok(u[1])' => ~Has(pipe'[u], Silent)
    <3>1. \A u \in Tokens : Tok(u[1])' = Tok(u[1]) BY <1>1, <2>1, Typed
    <3> QED BY <1>1, <1>2, <3>1 DEF PipeInv, HalfInv
  <2>4. ASSUME NEW h \in Hosts
        PROVE  /\ ~Has(Own(h)', Gains) /\ ~Has(Own(h)', Keys) /\ KeyLast(Own(h)', doc'[h])
    BY <1>8, <2>1, <2>2, KeyLastNone
  <2> QED BY <1>6, <2>3, <2>4 DEF PipeInv
<1>10. DocInv'
  <2>1. ASSUME NEW h \in Hosts PROVE DocOf(h)'
    <3>1. DocOf(h) BY <1>1, DocByHost
    <3>2. doc'[h] = (IF dll[h].on THEN doc[h] ELSE NoDoc) /\ dll' = dll BY <1>2
    <3>3. h \in leaving' <=> h \in leaving \/ (h = fg /\ dll[h].on) BY <1>2
    <3> QED BY <1>2, <3>1, <3>2, <3>3 DEF DocOf
  <2>2. \A g \in leaving' : g \in Hosts BY <1>6 DEF Types, TypeOK
  <2> QED BY <2>1, <2>2 DEF DocInv, DocOf
<1> QED BY <1>6, <1>7, <1>9, <1>10 DEF Base

--------------------------------------------------------------------------------
(* What each handler does, in one formula.                                   *)

LEMMA Apart ==
  ASSUME NEW r \in Requests
  PROVE  /\ r \in Gains => r \notin Leaves /\ r \notin Begun /\ r \notin Terms /\ r \notin Keys /\ r \in Openers /\ r \in Silent
         /\ r \in Begun => r \notin Leaves /\ r \notin Gains /\ r \notin Terms /\ r \notin Keys /\ r \in Openers /\ r \in Silent
         /\ r \in Terms => r \notin Leaves /\ r \notin Openers /\ r \notin Gains /\ r \notin Begun /\ r \notin Keys /\ r \in Silent
         /\ r \in Keys => r \notin Leaves /\ r \notin Openers /\ r \notin Gains /\ r \notin Begun /\ r \notin Terms /\ r \in Silent
         /\ r \in Leaves => r \notin Openers /\ r \notin Gains /\ r \notin Begun /\ r \notin Terms /\ r \notin Keys
         /\ r \in Goodbyes => r \in Leaves /\ r \in Losing /\ r \notin Clearing
         /\ r \in Losing => r \in Leaves
         /\ r \in Clearing => r \in Leaves
BY SortIs

Same == fg' = fg /\ leaving' = leaving /\ doc' = doc
SameFlags == svc'.ime = svc.ime /\ svc'.edit = svc.edit /\ svc'.noEdit = svc.noEdit
SameClient == svc'.active = svc.active /\ svc'.focusPid = svc.focusPid
SameInput == svc'.input = svc.input /\ svc'.orphans = svc.orphans
Emptied == svc'.input = {} /\ svc'.orphans = {}
Extended(x) == svc'.input = svc.input \cup {x} /\ svc'.orphans = svc.orphans \ {x}
Orphaned(t) == svc'.input = svc.input /\ svc'.orphans = svc.orphans \cup {x \in svc.input : x[1] = t[1]}
Starts(t) == half[t] = 0 /\ (Orderly => \A u \in Tokens : half[u] = 0)
Within(t, n) ==
  /\ Same /\ pipe' = pipe /\ dll' = dll
  /\ half'[t] = n /\ \A u \in Tokens : u # t => half'[u] = half[u]
Through(t) == Same /\ Shortened(t)

AnswersGained(t) ==
  Within(t, 1) /\ Starts(t) /\ pipe[t][1] \in Gains /\ SameFlags /\ SameClient /\ SameInput
GainsState(t) ==
  /\ Within(t, 2) /\ half[t] = 1 /\ pipe[t][1] \in Gains
  /\ svc'.active = svc.active /\ svc'.focusPid = t[1] /\ SameInput
  /\ svc'.ime = TRUE /\ svc'.edit = TRUE /\ svc'.noEdit = FALSE
GainsToken(t) ==
  /\ Through(t) /\ dll' = dll /\ half[t] = 2 /\ pipe[t][1] \in Gains
  /\ svc'.active = t /\ svc'.focusPid = svc.focusPid /\ SameInput /\ SameFlags
DropsStale(t) ==
  /\ Through(t) /\ dll' = dll /\ Starts(t) /\ pipe[t][1] \in Leaves /\ SameFlags /\ SameClient
  /\ IF pipe[t][1] \in Goodbyes THEN Orphaned(t) ELSE SameInput
  /\ svc.active # NoToken /\ t # svc.active
PassesStale(t) ==
  Within(t, 1) /\ Starts(t) /\ pipe[t][1] \in Leaves /\ svc' = svc /\ svc.active \in {NoToken, t}
LosesState(t) ==
  /\ Through(t) /\ dll' = dll /\ half[t] = 1 /\ pipe[t][1] \in Leaves /\ SameClient
  /\ pipe[t][1] \notin Goodbyes
  /\ svc'.ime /\ svc'.edit => svc.ime /\ svc.edit /\ pipe[t][1] \notin Losing
  /\ IF pipe[t][1] \in Clearing THEN Emptied ELSE SameInput
DeactivatesState(t) ==
  /\ Through(t) /\ dll' = dll /\ half[t] = 1 /\ pipe[t][1] \in Goodbyes /\ SameClient
  /\ svc'.ime = FALSE /\ Emptied
DropsBackground(t) ==
  Through(t) /\ dll' = dll /\ Starts(t) /\ pipe[t][1] \in Begun /\ svc' = svc
TakesToken(t) ==
  /\ Within(t, 1) /\ Starts(t) /\ pipe[t][1] \in Begun /\ ~Background(t)
  /\ svc'.active = t /\ svc'.focusPid = t[1] /\ SameInput /\ SameFlags
TakesState(t) ==
  /\ Through(t) /\ dll' = dll /\ half[t] = 1 /\ pipe[t][1] \in Begun /\ SameClient
  /\ svc'.ime = TRUE /\ svc'.edit = TRUE /\ svc'.noEdit = FALSE /\ SameInput
HandlesKey(t) ==
  /\ Through(t) /\ Starts(t) /\ pipe[t][1] \in Keys
  /\ fg \in Hosts /\ t = Tok(fg) /\ dll[fg].on /\ doc[fg] \in Edits \cup Transients
  /\ pipe'[t] = <<>> /\ SameFlags /\ svc'.active = svc.active /\ svc'.focusPid = fg
  /\ \E c \in Docs \cup {NoDoc} : dll' = [dll EXCEPT ![fg].comp = c]
  /\ \/ Extended(<<fg, doc[fg]>>) /\ dll'[fg].comp = doc[fg]
     \/ Emptied /\ dll'[fg].comp = NoDoc
HandlesTerminated(t) ==
  /\ Through(t) /\ dll' = dll /\ Starts(t) /\ pipe[t][1] \in Terms /\ SameFlags /\ SameClient
  /\ Emptied \/ Orphaned(t)

\* Gains and keys come from the foreground, and all but goodbyes from the connection a host has now.
LEMMA Heads ==
  ASSUME Types, PipeInv, NEW t \in Tokens, pipe[t] # <<>>
  PROVE  /\ pipe[t] \in Seq(Requests) /\ pipe[t][1] \in Requests /\ t[1] \in Hosts
         /\ \A S : pipe[t][1] \in S => Has(pipe[t], S)
         /\ pipe[t][1] \in Silent => t = Tok(t[1])
         /\ pipe[t][1] \in Gains \cup Keys => fg \in Hosts /\ t = Tok(fg) /\ t[1] = fg
<1>1. pipe[t] \in Seq(Requests) /\ t[1] \in Hosts BY Typed
<1>2. pipe[t][1] \in Requests /\ 1 \in 1 .. Len(pipe[t]) BY <1>1, TailIs
<1>3. \A S : pipe[t][1] \in S => Has(pipe[t], S) BY <1>2 DEF Has
<1>4. pipe[t][1] \in Silent => t = Tok(t[1]) BY <1>3 DEF PipeInv, HalfInv
<1>5. ASSUME pipe[t][1] \in Gains \cup Keys PROVE fg \in Hosts /\ t = Tok(fg) /\ t[1] = fg
  <2>1. pipe[t][1] \in Silent BY <1>2, <1>5, Apart
  <2>2. Own(t[1]) = pipe[t] /\ t = Tok(t[1]) BY <1>4, <2>1 DEF Own
  <2>3. t[1] = fg BY <1>1, <1>3, <1>5, <2>2 DEF PipeInv, HalfInv
  <2> QED BY <1>1, <2>2, <2>3
<1> QED BY <1>1, <1>2, <1>3, <1>4, <1>5

LEMMA HandlerEffects ==
  ASSUME Types, PipeInv, NEW t \in Tokens
  PROVE  /\ AnswerGained(t) => AnswersGained(t)
         /\ GainedState(t) => GainsState(t)
         /\ GainedToken(t) => GainsToken(t)
         /\ DropStale(t) => DropsStale(t)
         /\ PassStale(t) => PassesStale(t)
         /\ LostState(t) => LosesState(t)
         /\ DeactivatedState(t) => DeactivatesState(t)
         /\ DropBackground(t) => DropsBackground(t)
         /\ ActivatedToken(t) => TakesToken(t)
         /\ ActivatedState(t) => TakesState(t)
         /\ HandleKey(t) => HandlesKey(t)
         /\ HandleTerminated(t) => HandlesTerminated(t)
<1>0. svc \in Services /\ half \in [Tokens -> 0 .. 2] BY Typed DEF Types, TypeOK, Services
<1>1. half[t] = 1 \/ half[t] = 2 => pipe[t] # <<>> BY DEF PipeInv, HalfInv
<1>2. pipe[t] # <<>> => pipe[t][1] \in Requests BY Heads
<1>3. ASSUME NEW n \in {1, 2}, GoesOn(t, n), dll' = dll PROVE Within(t, n)
  BY <1>0, <1>3 DEF GoesOn, Within, Same
<1>4. ASSUME Finishes(t), pipe[t] # <<>> PROVE Through(t)
  <2>1. Shortened(t) BY <1>4, Handled DEF Finishes
  <2> QED BY <1>4, <2>1 DEF Through, Finishes, Same
<1>5. ASSUME NEW K, Begins(t, K) PROVE pipe[t] # <<>> /\ pipe[t][1].kind \in K /\ Starts(t)
  BY <1>5 DEF Begins, MayStart, Starts, Orderly
<1>6. AnswerGained(t) => AnswersGained(t)
  <2> SUFFICES ASSUME AnswerGained(t) PROVE AnswersGained(t) OBVIOUS
  <2>1. Begins(t, {"gained"}) /\ GoesOn(t, 1) /\ svc' = [svc EXCEPT !.render = t[1]] /\ dll' = dll
    BY DEF AnswerGained, GoesOn
  <2>2. SameFlags /\ SameClient /\ SameInput BY <1>0, <2>1 DEF Services, SameFlags, SameClient, SameInput
  <2> QED BY <1>2, <1>3, <1>5, <2>1, <2>2, SortIs DEF AnswersGained
<1>7. GainedState(t) => GainsState(t)
  <2> SUFFICES ASSUME GainedState(t) PROVE GainsState(t) OBVIOUS
  <2>1. /\ half[t] = 1 /\ pipe[t][1].kind = "gained" /\ GoesOn(t, 2) /\ dll' = dll
        /\ svc' = [svc EXCEPT !.focusPid = t[1], !.ime = TRUE, !.edit = TRUE, !.noEdit = FALSE]
    BY DEF GainedState, GoesOn
  <2>2. /\ svc'.active = svc.active /\ svc'.focusPid = t[1] /\ SameInput
        /\ svc'.ime = TRUE /\ svc'.edit = TRUE /\ svc'.noEdit = FALSE
    BY <1>0, <2>1 DEF Services, SameInput
  <2> QED BY <1>1, <1>2, <1>3, <2>1, <2>2, SortIs DEF GainsState
<1>8. GainedToken(t) => GainsToken(t)
  <2> SUFFICES ASSUME GainedToken(t) PROVE GainsToken(t) OBVIOUS
  <2>1. half[t] = 2 /\ Finishes(t) /\ dll' = dll /\ svc' = [svc EXCEPT !.active = t] BY DEF GainedToken
  <2>2. svc'.active = t /\ svc'.focusPid = svc.focusPid /\ SameInput /\ SameFlags
    BY <1>0, <2>1 DEF Services, SameFlags, SameInput
  <2>3. pipe[t][1] \in Gains BY <2>1 DEF PipeInv, HalfInv
  <2> QED BY <1>1, <1>4, <2>1, <2>2, <2>3 DEF GainsToken
<1>9. DropStale(t) => DropsStale(t)
  <2> SUFFICES ASSUME DropStale(t) PROVE DropsStale(t) OBVIOUS
  <2>1. /\ Begins(t, {"lost", "deactivated"}) /\ Finishes(t) /\ dll' = dll /\ Stale(t)
        /\ IF pipe[t][1].kind = "deactivated" THEN Disregards(t) ELSE svc' = svc
    BY DEF DropStale
  <2>2. pipe[t] # <<>> /\ pipe[t][1].kind \in {"lost", "deactivated"} /\ Starts(t) BY <1>5, <2>1
  <2>3. pipe[t][1] \in Leaves /\ (pipe[t][1] \in Goodbyes <=> pipe[t][1].kind = "deactivated") BY <1>2, <2>2, SortIs
  <2>4. SameFlags /\ SameClient /\ IF pipe[t][1] \in Goodbyes THEN Orphaned(t) ELSE SameInput
    <3>1. Disregards(t) => SameFlags /\ SameClient /\ Orphaned(t)
      BY <1>0 DEF Disregards, Services, SameFlags, SameClient, Orphaned
    <3> QED BY <2>1, <2>3, <3>1 DEF SameFlags, SameClient, SameInput
  <2> QED BY <1>4, <2>1, <2>2, <2>3, <2>4 DEF DropsStale, Stale
<1>10. PassStale(t) => PassesStale(t)
  <2> SUFFICES ASSUME PassStale(t) PROVE PassesStale(t) OBVIOUS
  <2>1. Begins(t, {"lost", "deactivated"}) /\ GoesOn(t, 1) /\ svc' = svc /\ dll' = dll /\ ~Stale(t)
    BY DEF PassStale, GoesOn
  <2> QED BY <1>2, <1>3, <1>5, <2>1, SortIs DEF PassesStale, Stale
<1>11. LostState(t) => LosesState(t)
  <2> SUFFICES ASSUME LostState(t) PROVE LosesState(t) OBVIOUS
  <2> DEFINE x == pipe[t][1].reason
  <2>1. half[t] = 1 /\ Finishes(t) /\ dll' = dll /\ pipe[t][1].kind = "lost" /\ svc' = AfterLost(svc, x)
    BY DEF LostState
  <2>2. /\ svc'.active = svc.active /\ svc'.focusPid = svc.focusPid
        /\ svc'.ime = (svc.ime /\ x # "thread") /\ svc'.edit = (svc.edit /\ x = "doc_changed")
        /\ IF ClearsInput(x) THEN Emptied ELSE SameInput
    BY <1>0, <2>1 DEF AfterLost, Services, Emptied, SameInput
  <2>3. pipe[t] # <<>> /\ pipe[t][1] \in Requests BY <1>1, <1>2, <2>1
  <2>4. /\ pipe[t][1] \in Leaves /\ pipe[t][1] \notin Goodbyes
        /\ pipe[t][1] \in Losing <=> x # "doc_changed"
        /\ pipe[t][1] \in Clearing <=> ClearsInput(x)
    BY <2>1, <2>3, SortIs DEF ClearsInput
  <2>5. svc'.ime /\ svc'.edit => svc.ime /\ svc.edit /\ x = "doc_changed" BY <2>2
  <2> QED BY <1>4, <2>1, <2>2, <2>3, <2>4, <2>5 DEF LosesState, SameClient
<1>12. DeactivatedState(t) => DeactivatesState(t)
  <2> SUFFICES ASSUME DeactivatedState(t) PROVE DeactivatesState(t) OBVIOUS
  <2>1. /\ half[t] = 1 /\ Finishes(t) /\ dll' = dll /\ pipe[t][1].kind = "deactivated"
        /\ svc' = [svc EXCEPT !.ime = FALSE, !.edit = FALSE, !.noEdit = FALSE, !.input = {}, !.orphans = {}]
    BY DEF DeactivatedState
  <2>2. SameClient /\ svc'.ime = FALSE /\ Emptied BY <1>0, <2>1 DEF Services, SameClient, Emptied
  <2> QED BY <1>1, <1>2, <1>4, <2>1, <2>2, SortIs DEF DeactivatesState
<1>13. DropBackground(t) => DropsBackground(t)
  <2> SUFFICES ASSUME DropBackground(t) PROVE DropsBackground(t) OBVIOUS
  <2>1. Begins(t, {"activated"}) /\ Finishes(t) /\ svc' = svc /\ dll' = dll BY DEF DropBackground
  <2> QED BY <1>2, <1>4, <1>5, <2>1, SortIs DEF DropsBackground
<1>14. ActivatedToken(t) => TakesToken(t)
  <2> SUFFICES ASSUME ActivatedToken(t) PROVE TakesToken(t) OBVIOUS
  <2>1. /\ Begins(t, {"activated"}) /\ GoesOn(t, 1) /\ ~Background(t) /\ dll' = dll
        /\ svc' = [svc EXCEPT !.active = t, !.focusPid = t[1], !.render = t[1]]
    BY DEF ActivatedToken, GoesOn
  <2>2. svc'.active = t /\ svc'.focusPid = t[1] /\ SameInput /\ SameFlags
    BY <1>0, <2>1 DEF Services, SameFlags, SameInput
  <2> QED BY <1>2, <1>3, <1>5, <2>1, <2>2, SortIs DEF TakesToken
<1>15. ActivatedState(t) => TakesState(t)
  <2> SUFFICES ASSUME ActivatedState(t) PROVE TakesState(t) OBVIOUS
  <2>1. /\ half[t] = 1 /\ Finishes(t) /\ dll' = dll /\ pipe[t][1].kind = "activated"
        /\ svc' = [svc EXCEPT !.ime = TRUE, !.edit = TRUE, !.noEdit = FALSE]
    BY DEF ActivatedState
  <2>2. SameClient /\ svc'.ime = TRUE /\ svc'.edit = TRUE /\ svc'.noEdit = FALSE /\ SameInput
    BY <1>0, <2>1 DEF Services, SameClient, SameInput
  <2> QED BY <1>1, <1>2, <1>4, <2>1, <2>2, SortIs DEF TakesState
<1>16. HandleKey(t) => HandlesKey(t)
  <2> SUFFICES ASSUME HandleKey(t) PROVE HandlesKey(t) OBVIOUS
  <2> DEFINE d == pipe[t][1].doc
  <2>1. Begins(t, {"key"}) /\ Finishes(t)
        /\ \/ /\ svc' = [svc EXCEPT !.focusPid = t[1], !.render = t[1], !.input = svc.input \cup {<<t[1], d>>},
                                      !.orphans = svc.orphans \ {<<t[1], d>>}]
              /\ dll' = [dll EXCEPT ![t[1]].comp = d]
           \/ /\ svc' = [svc EXCEPT !.focusPid = t[1], !.render = t[1], !.input = {}, !.orphans = {}]
              /\ dll' = [dll EXCEPT ![t[1]].comp = NoDoc]
    BY DEF HandleKey
  <2>2. pipe[t] # <<>> /\ pipe[t][1].kind = "key" /\ Starts(t) BY <1>5, <2>1
  <2>3. pipe[t][1] \in Keys /\ pipe[t] \in Seq(Requests) BY <1>2, <2>2, SortIs, Heads
  <2>4. fg \in Hosts /\ t = Tok(fg) /\ t[1] = fg /\ Own(fg) = pipe[t] BY <2>2, <2>3, Heads DEF Own
  <2>5. KeyLast(pipe[t], doc[fg]) /\ Has(pipe[t], Keys) BY <2>2, <2>3, <2>4, Heads DEF PipeInv, HalfInv
  <2>6. Tail(pipe[t]) = <<>> /\ pipe[t][1] = KeyOn(doc[fg]) BY <2>2, <2>3, <2>5, KeyLastTail
  <2>7. d = doc[fg] BY <2>6 DEF KeyOn
  <2>8. dll[fg].on /\ doc[fg] \in Edits \cup Transients BY <2>4, <2>5 DEF PipeInv, HalfInv
  <2>9. Through(t) /\ pipe'[t] = <<>> BY <1>4, <2>1, <2>2, <2>6 DEF Through, Shortened
  <2>10. doc[fg] \in Docs BY <2>8 DEF Docs
  <2> DEFINE k == doc[fg]
  <2>11. \/ /\ svc' = [svc EXCEPT !.focusPid = fg, !.render = fg, !.input = svc.input \cup {<<fg, k>>},
                                    !.orphans = svc.orphans \ {<<fg, k>>}]
            /\ dll' = [dll EXCEPT ![fg].comp = k]
         \/ /\ svc' = [svc EXCEPT !.focusPid = fg, !.render = fg, !.input = {}, !.orphans = {}]
            /\ dll' = [dll EXCEPT ![fg].comp = NoDoc]
    BY <2>1, <2>4, <2>7
  <2>12. k \in Docs /\ dll = [g \in Hosts |-> dll[g]] /\ dll[fg] \in Dlls BY <2>4, <2>10, Typed DEF Idle
  <2> HIDE DEF d, k
  <2>13. /\ SameFlags /\ svc'.active = svc.active /\ svc'.focusPid = fg
         /\ \E c \in Docs \cup {NoDoc} : dll' = [dll EXCEPT ![fg].comp = c]
         /\ \/ Extended(<<fg, k>>) /\ dll'[fg].comp = k
            \/ Emptied /\ dll'[fg].comp = NoDoc
    <3>1. \A c : [dll EXCEPT ![fg].comp = c][fg].comp = c
      <4> TAKE c
      <4>1. [dll EXCEPT ![fg].comp = c][fg] = [dll[fg] EXCEPT !.comp = c] BY <2>4, <2>12
      <4>2. [dll[fg] EXCEPT !.comp = c].comp = c BY <2>12 DEF Dlls
      <4> QED BY <4>1, <4>2
    <3>2. CASE /\ svc' = [svc EXCEPT !.focusPid = fg, !.render = fg, !.input = svc.input \cup {<<fg, k>>},
                                    !.orphans = svc.orphans \ {<<fg, k>>}]
               /\ dll' = [dll EXCEPT ![fg].comp = k]
      <4>1. SameFlags /\ svc'.active = svc.active /\ svc'.focusPid = fg /\ Extended(<<fg, k>>)
        BY <1>0, <3>2 DEF Services, SameFlags, Extended
      <4> QED BY <2>12, <3>1, <3>2, <4>1
    <3>3. CASE /\ svc' = [svc EXCEPT !.focusPid = fg, !.render = fg, !.input = {}, !.orphans = {}]
               /\ dll' = [dll EXCEPT ![fg].comp = NoDoc]
      <4>1. SameFlags /\ svc'.active = svc.active /\ svc'.focusPid = fg /\ Emptied
        BY <1>0, <3>3 DEF Services, SameFlags, Emptied
      <4> QED BY <2>12, <3>1, <3>3, <4>1
    <3> QED BY <2>11, <3>2, <3>3
  <2> QED BY <2>2, <2>3, <2>4, <2>8, <2>9, <2>13 DEF HandlesKey, k
<1>17. HandleTerminated(t) => HandlesTerminated(t)
  <2> SUFFICES ASSUME HandleTerminated(t) PROVE HandlesTerminated(t) OBVIOUS
  <2>1. /\ Begins(t, {"terminated"}) /\ Finishes(t) /\ dll' = dll
        /\ svc' = [svc EXCEPT !.input = {}, !.orphans = {}] \/ Disregards(t)
    BY DEF HandleTerminated
  <2>2. SameFlags /\ SameClient /\ (Emptied \/ Orphaned(t))
    BY <1>0, <2>1 DEF Disregards, Services, SameFlags, SameClient, Emptied, Orphaned
  <2> QED BY <1>2, <1>4, <1>5, <2>1, <2>2, SortIs DEF HandlesTerminated
<1> QED BY <1>6, <1>7, <1>8, <1>9, <1>10, <1>11, <1>12, <1>13, <1>14, <1>15, <1>16, <1>17

--------------------------------------------------------------------------------
(* The service learns of every focused document, and serves it.              *)

LEMMA Called ==
  ASSUME Types, NEW h \in Hosts, NEW q, NEW e, NEW t0, Calls(h, q, e, t0)
  PROVE  /\ fg' = fg /\ svc' = svc /\ half' = half /\ t0 \in Tokens /\ t0[1] = h
         /\ dll'[h] = q /\ Tok(h)' = t0 /\ Own(h)' = pipe'[t0]
         /\ \A g \in Hosts : g # h => /\ dll'[g] = dll[g] /\ doc'[g] = doc[g] /\ Tok(g)' = Tok(g)
                                      /\ Own(g)' = Own(g) /\ Tok(g) # t0
         /\ \A t \in Tokens : t # t0 => pipe'[t] = pipe[t]
         /\ \A t \in Tokens : pipe[t] # <<>> => pipe'[t][1] = pipe[t][1]
         /\ \A S : Has(pipe'[t0], S) <=> Has(pipe[t0], S) \/ Has(e, S)
         /\ \A S, T : After(pipe'[t0], S, T) <=> After(e, S, T) \/ (After(pipe[t0], S, T) /\ ~Has(e, T))
<1>1. Delivered(h, q, e, t0) /\ fg' = fg /\ half' = half /\ svc' = svc /\ \A g \in Hosts : g # h => doc'[g] = doc[g]
  BY DEF Calls
<1>2. \A g \in Hosts : Tok(g) \in Tokens BY Typed
<1>3. Own(h)' = pipe'[t0] BY <1>1 DEF Delivered, Own
<1>4. \A g \in Hosts : g # h => Own(g)' = Own(g) BY <1>1, <1>2 DEF Delivered, Own
<1> QED BY <1>1, <1>3, <1>4 DEF Delivered

\* A callback that leaves the foreground document focused says nothing of it, or that it is gained.
LEMMA ReportedCalls ==
  ASSUME Base, Reported, NEW h \in Hosts, NEW q, NEW e, NEW t0, Calls(h, q, e, t0),
         h = fg /\ q.on /\ doc'[h] \in Edits =>
           Has(e, Gains) \/ (t0 = Tok(h) /\ dll[h].on /\ doc[h] = doc'[h])
  PROVE  Reported'
<1>0. Types BY DEF Base
<1>1. /\ fg' = fg /\ svc' = svc /\ half' = half
      /\ dll'[h] = q /\ Tok(h)' = t0 /\ Own(h)' = pipe'[t0]
      /\ \A g \in Hosts : g # h => /\ dll'[g] = dll[g] /\ doc'[g] = doc[g] /\ Tok(g)' = Tok(g) /\ Own(g)' = Own(g)
      /\ Has(pipe'[t0], Gains) <=> Has(pipe[t0], Gains) \/ Has(e, Gains)
  BY <1>0, Called
<1>2. ASSUME Served', doc'[fg'] \in Edits, ~Has(Own(fg)', Gains)
      PROVE  svc'.active = Tok(fg)' /\ svc'.focusPid = fg
  <2>1. fg \in Hosts /\ dll'[fg].on BY <1>1, <1>2 DEF Served
  <2>2. CASE fg = h
    <3>1. ~Has(pipe'[t0], Gains) BY <1>1, <1>2, <2>2
    <3>2. t0 = Tok(h) /\ dll[h].on /\ doc[h] = doc'[h] /\ ~Has(pipe[t0], Gains) BY <1>1, <1>2, <2>1, <2>2, <3>1
    <3>3. Served /\ doc[fg] \in Edits /\ ~Has(Own(fg), Gains) BY <1>1, <1>2, <2>1, <2>2, <3>2 DEF Served, Own
    <3> QED BY <1>1, <2>2, <3>2, <3>3 DEF Reported
  <2>3. CASE fg # h
    <3>1. dll'[fg] = dll[fg] /\ doc'[fg] = doc[fg] /\ Tok(fg)' = Tok(fg) /\ Own(fg)' = Own(fg) BY <1>1, <2>1, <2>3
    <3>2. ~Has(Own(fg)', Gains) BY <1>1, <1>2
    <3>3. Served /\ doc[fg] \in Edits /\ ~Has(Own(fg), Gains) BY <1>1, <1>2, <2>1, <3>1, <3>2 DEF Served
    <3> QED BY <1>1, <3>1, <3>3 DEF Reported
  <2> QED BY <2>2, <2>3
<1>3. \A t \in Tokens : half'[t] = 2 => svc'.focusPid = t[1] BY <1>1 DEF Reported
<1> QED BY <1>1, <1>2, <1>3 DEF Reported

LEMMA ServedCalls ==
  ASSUME Base, Alone, ServedInv, NEW h \in Hosts, NEW q, NEW e, NEW t0, Calls(h, q, e, t0),
         h = fg /\ q.on /\ doc'[h] \in Edits =>
           \/ After(e, Gains, Leaves)
           \/ t0 = Tok(h) /\ dll[h].on /\ doc[h] = doc'[h] /\ ~Has(e, Leaves) /\ ~Has(e, Gains)
  PROVE  Alone' /\ ServedInv'
<1>0. Types /\ PipeInv BY DEF Base
<1>1. /\ fg' = fg /\ svc' = svc /\ half' = half
      /\ dll'[h] = q /\ Own(h)' = pipe'[t0]
      /\ \A g \in Hosts : g # h => dll'[g] = dll[g] /\ doc'[g] = doc[g] /\ Own(g)' = Own(g)
      /\ \A t \in Tokens : pipe[t] # <<>> => pipe'[t][1] = pipe[t][1]
      /\ Has(pipe'[t0], Gains) <=> Has(pipe[t0], Gains) \/ Has(e, Gains)
      /\ Has(pipe'[t0], Leaves) <=> Has(pipe[t0], Leaves) \/ Has(e, Leaves)
      /\ After(pipe'[t0], Gains, Leaves) <=> After(e, Gains, Leaves) \/ (After(pipe[t0], Gains, Leaves) /\ ~Has(e, Leaves))
  BY <1>0, Called
<1>2. Alone'
  <2>1. \A t \in Tokens : half'[t] = 1 => pipe'[t][1] = pipe[t][1] BY <1>0, <1>1 DEF PipeInv, HalfInv
  <2>2. \A t, u \in Tokens : half'[t] > 0 /\ half'[u] > 0 => t = u BY <1>1 DEF Alone
  <2>3. \A t \in Tokens : half'[t] = 1 /\ pipe'[t][1] \in Leaves => svc'.active \in {NoToken, t}
    BY <1>1, <2>1 DEF Alone
  <2>4. \A t \in Tokens : half'[t] = 2 => Serving' BY <1>1 DEF Alone, Serving
  <2> QED BY <2>2, <2>3, <2>4 DEF Alone
<1>3. ASSUME Served', doc'[fg'] \in Edits
      PROVE  After(Own(fg)', Gains, Leaves) \/ (~Has(Own(fg)', Leaves) /\ ~Has(Own(fg)', Gains) /\ Serving')
  <2>1. fg \in Hosts /\ dll'[fg].on BY <1>1, <1>3 DEF Served
  <2>2. Serving' <=> Serving BY <1>1 DEF Serving
  <2>3. CASE fg = h
    <3>1. CASE After(e, Gains, Leaves) BY <1>1, <2>3, <3>1
    <3>2. CASE t0 = Tok(h) /\ dll[h].on /\ doc[h] = doc'[h] /\ ~Has(e, Leaves) /\ ~Has(e, Gains)
      <4>1. Served /\ doc[fg] \in Edits /\ Own(fg) = pipe[t0] BY <1>1, <1>3, <2>1, <2>3, <3>2 DEF Served, Own
      <4>2. After(pipe[t0], Gains, Leaves) \/ (~Has(pipe[t0], Leaves) /\ ~Has(pipe[t0], Gains) /\ Serving)
        BY <4>1 DEF ServedInv
      <4> QED BY <1>1, <2>2, <2>3, <3>2, <4>2
    <3> QED BY <1>1, <1>3, <2>1, <2>3, <3>1, <3>2
  <2>4. CASE fg # h
    <3>1. dll'[fg] = dll[fg] /\ doc'[fg] = doc[fg] /\ Own(fg)' = Own(fg) BY <1>1, <2>1, <2>4
    <3>2. Served /\ doc[fg] \in Edits BY <1>1, <1>3, <2>1, <3>1 DEF Served
    <3> QED BY <2>2, <3>1, <3>2 DEF ServedInv
  <2> QED BY <2>3, <2>4
<1>4. ServedInv' BY <1>1, <1>3 DEF ServedInv
<1> QED BY <1>2, <1>4

LEMMA CallbackServed ==
  ASSUME Base, NEW h \in Hosts, Callback(h)
  PROVE  /\ Reported => Reported'
         /\ Alone /\ ServedInv => Alone' /\ ServedInv'
<1>1. Types /\ PipeInv BY DEF Base
<1>2. ASSUME NEW d \in Docs, SetFocus(h, d) PROVE (Reported => Reported') /\ (Alone /\ ServedInv => Alone' /\ ServedInv')
  <2>1. PICK q : SetsFocus(h, d, q) BY <1>1, <1>2, Effects DEF PipeInv
  <2>2. Calls(h, q, Said(dll[h], d), Tok(h)) /\ doc'[h] = d BY <2>1 DEF SetsFocus
  <2>3. d \in Edits => Has(Said(dll[h], d), Gains) /\ After(Said(dll[h], d), Gains, Leaves)
    BY <1>1, Typed, SaidSorts DEF Idle
  <2> QED BY <2>2, <2>3, ReportedCalls, ServedCalls
<1>3. ASSUME LoseFocus(h) PROVE (Reported => Reported') /\ (Alone /\ ServedInv => Alone' /\ ServedInv')
  <2>1. PICK q, e : LosesFocus(h, q, e) BY <1>1, <1>3, Effects DEF PipeInv
  <2>2. Calls(h, q, e, Tok(h)) /\ doc'[h] \notin Edits BY <2>1, DocsApart DEF LosesFocus
  <2> QED BY <2>2, ReportedCalls, ServedCalls
<1>4. ASSUME KillThreadFocus(h) PROVE (Reported => Reported') /\ (Alone /\ ServedInv => Alone' /\ ServedInv')
  <2>1. PICK q, e : LosesThread(h, q, e) BY <1>1, <1>4, Effects DEF PipeInv
  <2>2. Calls(h, q, e, Tok(h)) /\ h # fg BY <2>1 DEF LosesThread
  <2> QED BY <2>2, ReportedCalls, ServedCalls
<1>5. ASSUME Terminate(h) PROVE (Reported => Reported') /\ (Alone /\ ServedInv => Alone' /\ ServedInv')
  <2>1. PICK q : Terminates(h, q) BY <1>1, <1>5, Effects DEF PipeInv
  <2> DEFINE e == <<Req("terminated")>>
  <2>2. Calls(h, q, e, Tok(h)) /\ doc' = doc /\ dll[h].on BY <2>1 DEF Terminates
  <2>3. ~Has(e, Leaves) /\ ~Has(e, Gains) BY SaysTerminated
  <2> HIDE DEF e
  <2> QED BY <2>2, <2>3, ReportedCalls, ServedCalls
<1>6. ASSUME Deactivate(h) PROVE (Reported => Reported') /\ (Alone /\ ServedInv => Alone' /\ ServedInv')
  <2>1. PICK q : Deactivates(h, q) BY <1>1, <1>6, Effects DEF PipeInv
  <2>2. Calls(h, q, <<Req("deactivated")>>, Tok(h)) /\ ~q.on BY <2>1 DEF Deactivates
  <2> QED BY <2>2, ReportedCalls, ServedCalls
<1>7. ASSUME Key(h) PROVE (Reported => Reported') /\ (Alone /\ ServedInv => Alone' /\ ServedInv')
  <2>1. PICK q : TypesKey(h, q) BY <1>1, <1>7, Effects DEF PipeInv
  <2> DEFINE e == <<KeyOn(doc[h])>>
  <2>2. Calls(h, q, e, Tok(h)) /\ doc' = doc /\ dll[h].on /\ doc[h] \in Docs BY <2>1 DEF TypesKey, Docs
  <2>3. ~Has(e, Leaves) /\ ~Has(e, Gains) BY <2>2, SaysKey
  <2> HIDE DEF e
  <2> QED BY <2>2, <2>3, ReportedCalls, ServedCalls
<1>8. ASSUME Activate(h) PROVE (Reported => Reported') /\ (Alone /\ ServedInv => Alone' /\ ServedInv')
  <2>1. PICK q, t0 : Activates(h, q, t0) BY <1>1, <1>8, Effects DEF PipeInv
  <2>2. Calls(h, q, Greeting(h), t0) /\ doc' = doc BY <2>1 DEF Activates
  <2>3. h = fg /\ doc[h] \in Edits => Has(Greeting(h), Gains) /\ After(Greeting(h), Gains, Leaves) BY GreetingSorts
  <2> QED BY <2>2, <2>3, ReportedCalls, ServedCalls
<1> QED BY <1>2, <1>3, <1>4, <1>5, <1>6, <1>7, <1>8 DEF Callback

LEMMA SwitchServed ==
  ASSUME Base, Patient, NEW x \in Hosts \cup {Outside}, Switch(x)
  PROVE  Reported' /\ Alone' /\ ServedInv'
<1>1. Types /\ Switches(x) BY SwitchBase DEF Base
<1>2. \A t \in Tokens : half[t] = 0 BY <1>1, Quiet
<1>3. half' = half /\ fg' = x /\ (x \in Hosts => doc'[x] = NoDoc) BY <1>1 DEF Switches
<1>4. ~(Served' /\ doc'[fg'] \in Edits) BY <1>3, DocsApart DEF Served
<1> QED BY <1>2, <1>3, <1>4 DEF Reported, Alone, ServedInv

\* What no handler changes.
Frame(t) ==
  /\ Same /\ pipe[t] # <<>>
  /\ \A g \in Hosts : /\ dll'[g].on = dll[g].on /\ dll'[g].gen = dll[g].gen
                      /\ dll'[g].lastFocused = dll[g].lastFocused /\ dll'[g].lastActive = dll[g].lastActive
                      /\ dll'[g].lostSent = dll[g].lostSent
                      /\ Tok(g)' = Tok(g) /\ Own(g)' = pipe'[Tok(g)] /\ Own(g) = pipe[Tok(g)]
                      /\ Tok(g) \in Tokens /\ Tok(g)[1] = g
  /\ (Served' <=> Served) /\ (fg \in Hosts => Own(fg)' = pipe'[Tok(fg)] /\ Tok(fg)' = Tok(fg))
  /\ \A S : \A u \in Tokens : Has(pipe'[u], S) => Has(pipe[u], S)
  /\ \A S, T : \A u \in Tokens : After(pipe'[u], S, T) => After(pipe[u], S, T)

LEMMA Framed ==
  ASSUME Base, NEW t \in Tokens, Handler(t)
  PROVE  Frame(t)
<1>1. Types /\ PipeInv BY DEF Base
<1>2. pipe[t] # <<>> /\ (Continues(t, 1) \/ Continues(t, 2) \/ Ends(t)) BY <1>1, HandlerShape DEF PipeInv
<1>3. Same BY <1>2 DEF Continues, Ends, GoesOn, Finishes, Same
<1>4. ASSUME Ends(t) PROVE Shortened(t) BY <1>1, <1>2, <1>4, Handled DEF Ends, Finishes
<1>5. (\A S : \A u \in Tokens : Has(pipe'[u], S) => Has(pipe[u], S))
      /\ (\A S, T : \A u \in Tokens : After(pipe'[u], S, T) => After(pipe[u], S, T))
  <2>1. CASE Ends(t)
    <3>1. Shortened(t) BY <1>4, <2>1
    <3>2. \A u \in Tokens : u = t \/ pipe'[u] = pipe[u] BY <3>1 DEF Shortened
    <3>3. \A S : Has(pipe'[t], S) => Has(pipe[t], S) BY <3>1 DEF Shortened
    <3>4. \A S, T : After(pipe'[t], S, T) => After(pipe[t], S, T) BY <3>1 DEF Shortened
    <3> QED BY <3>2, <3>3, <3>4
  <2>2. CASE Continues(t, 1) \/ Continues(t, 2)
    <3>1. pipe' = pipe BY <2>2 DEF Continues, GoesOn
    <3> QED BY <3>1
  <2> QED BY <1>2, <2>1, <2>2
<1>6. \A g \in Hosts : /\ dll'[g].on = dll[g].on /\ dll'[g].gen = dll[g].gen
                       /\ dll'[g].lastFocused = dll[g].lastFocused /\ dll'[g].lastActive = dll[g].lastActive
                       /\ dll'[g].lostSent = dll[g].lostSent
  <2>1. CASE dll' = dll BY <2>1
  <2>2. CASE dll' # dll
    <3>1. PICK c \in Docs \cup {NoDoc} : dll' = [dll EXCEPT ![t[1]].comp = c] BY <1>2, <2>2 DEF Ends, Continues
    <3>2. dll = [g \in Hosts |-> dll[g]] /\ t[1] \in Hosts /\ \A g \in Hosts : dll[g] \in Dlls BY <1>1, Typed DEF Idle
    <3> DEFINE r == [dll[t[1]] EXCEPT !.comp = c]
    <3>3. dll' = [dll EXCEPT ![t[1]] = r] BY <3>1
    <3>4. /\ r.on = dll[t[1]].on /\ r.gen = dll[t[1]].gen /\ r.lastFocused = dll[t[1]].lastFocused
          /\ r.lastActive = dll[t[1]].lastActive /\ r.lostSent = dll[t[1]].lostSent
      <4> DEFINE s == dll[t[1]]
      <4>1. s \in Dlls BY <3>2
      <4> HIDE DEF s
      <4>2. /\ [s EXCEPT !.comp = c].on = s.on /\ [s EXCEPT !.comp = c].gen = s.gen
            /\ [s EXCEPT !.comp = c].lastFocused = s.lastFocused /\ [s EXCEPT !.comp = c].lastActive = s.lastActive
            /\ [s EXCEPT !.comp = c].lostSent = s.lostSent
        BY <4>1 DEF Dlls
      <4> QED BY <4>2 DEF s
    <3> HIDE DEF r
    <3>5. dll'[t[1]] = r /\ \A g \in Hosts : g # t[1] => dll'[g] = dll[g] BY <3>2, <3>3
    <3> QED BY <3>4, <3>5
  <2> QED BY <2>1, <2>2
<1>7. \A g \in Hosts : /\ Tok(g)' = Tok(g) /\ Own(g)' = pipe'[Tok(g)] /\ Own(g) = pipe[Tok(g)]
                       /\ Tok(g) \in Tokens /\ Tok(g)[1] = g
  BY <1>1, <1>6, Typed DEF Tok, Own
<1>8. (Served' <=> Served) /\ (fg \in Hosts => Own(fg)' = pipe'[Tok(fg)] /\ Tok(fg)' = Tok(fg))
  <2>1. fg' = fg BY <1>3 DEF Same
  <2>2. Served' <=> Served BY <1>6, <2>1 DEF Served
  <2>3. fg \in Hosts => Tok(fg)' = Tok(fg) BY <1>6, <2>1 DEF Tok
  <2> QED BY <2>1, <2>2, <2>3 DEF Own
<1> QED BY <1>2, <1>3, <1>5, <1>6, <1>7, <1>8 DEF Frame

\* A handler that keeps the client and answers no gain.
LEMMA ReportedSame ==
  ASSUME Base, Reported, NEW t \in Tokens, Handler(t), SameClient, pipe[t][1] \notin Gains,
         Through(t) \/ Within(t, 1)
  PROVE  Reported'
<1>1. Frame(t) BY Framed
<1>2. \A u \in Tokens : half'[u] = 2 => half[u] = 2 BY DEF Through, Within, Shortened
<1>3. \A u \in Tokens : Has(pipe[u], Gains) => Has(pipe'[u], Gains)
  <2>1. CASE Through(t)
    <3>1. /\ \A u \in Tokens : u = t \/ pipe'[u] = pipe[u]
          /\ Has(pipe[t], Gains) <=> pipe[t][1] \in Gains \/ Has(pipe'[t], Gains)
      BY <2>1 DEF Through, Shortened
    <3> QED BY <3>1
  <2>2. CASE Within(t, 1) BY <2>2 DEF Within
  <2> QED BY <2>1, <2>2
<1>4. fg' = fg /\ doc' = doc /\ (Served' <=> Served) BY <1>1 DEF Frame, Same
<1>5. ASSUME Served, doc[fg] \in Edits, ~Has(Own(fg)', Gains) PROVE svc'.active = Tok(fg)' /\ svc'.focusPid = fg
  <2>1. fg \in Hosts /\ Tok(fg)' = Tok(fg) /\ Own(fg)' = pipe'[Tok(fg)] /\ Own(fg) = pipe[Tok(fg)] /\ Tok(fg) \in Tokens
    BY <1>1, <1>5 DEF Frame, Served
  <2>2. ~Has(Own(fg), Gains) BY <1>3, <1>5, <2>1
  <2> QED BY <1>5, <2>1, <2>2 DEF Reported, SameClient
<1> QED BY <1>2, <1>4, <1>5 DEF Reported, SameClient

LEMMA HandlerReported ==
  ASSUME Base, Reported, Orderly \/ (Inside /\ Dropped), NEW t \in Tokens, Handler(t)
  PROVE  Reported'
<1>1. Types /\ PipeInv /\ Frame(t) BY Framed DEF Base
<1>2. /\ pipe[t] # <<>> /\ pipe[t][1] \in Requests /\ t[1] \in Hosts
      /\ pipe[t][1] \in Silent => t = Tok(t[1])
      /\ pipe[t][1] \in Gains \cup Keys => fg \in Hosts /\ t = Tok(fg) /\ t[1] = fg
      /\ \A S : pipe[t][1] \in S => Has(pipe[t], S)
  BY <1>1, Heads DEF Frame
<1>3. fg' = fg /\ doc' = doc /\ (Served' <=> Served) BY <1>1 DEF Frame, Same
<1>4. fg \in Hosts => Own(fg)' = pipe'[Tok(fg)] /\ Own(fg) = pipe[Tok(fg)] /\ Tok(fg)' = Tok(fg) /\ Tok(fg) \in Tokens
  BY <1>1 DEF Frame
<1>5. ASSUME NEW u \in Tokens, half[u] = 2 PROVE fg \in Hosts /\ u = Tok(fg) /\ u[1] = fg
  <2>1. pipe[u] # <<>> /\ pipe[u][1] \in Gains BY <1>1, <1>5 DEF PipeInv, HalfInv
  <2> QED BY <1>1, <2>1, Heads
<1>6. ASSUME AnswerGained(t) PROVE Reported'
  <2>1. Within(t, 1) /\ SameClient /\ pipe[t][1] \in Gains BY <1>1, <1>6, HandlerEffects DEF AnswersGained
  <2>2. pipe' = pipe /\ \A u \in Tokens : half'[u] = 2 => half[u] = 2 BY <2>1 DEF Within
  <2>3. fg \in Hosts => Own(fg)' = Own(fg) BY <1>4, <2>2
  <2>4. svc'.active = svc.active /\ svc'.focusPid = svc.focusPid BY <2>1 DEF SameClient
  <2>5. \A u \in Tokens : half'[u] = 2 => svc'.focusPid = u[1] BY <2>2, <2>4 DEF Reported
  <2>6. ASSUME Served, doc[fg] \in Edits, ~Has(Own(fg)', Gains) PROVE svc'.active = Tok(fg)' /\ svc'.focusPid = fg
    <3>1. fg \in Hosts /\ ~Has(Own(fg), Gains) BY <2>3, <2>6 DEF Served
    <3> QED BY <1>4, <2>4, <2>6, <3>1 DEF Reported
  <2> QED BY <1>3, <2>5, <2>6 DEF Reported
<1>7. ASSUME GainedState(t) PROVE Reported'
  <2>1. Within(t, 2) /\ pipe[t][1] \in Gains /\ svc'.active = svc.active /\ svc'.focusPid = t[1]
    BY <1>1, <1>7, HandlerEffects DEF GainsState
  <2>2. pipe' = pipe /\ t[1] = fg /\ t = Tok(fg) /\ fg \in Hosts BY <1>2, <2>1 DEF Within
  <2>3. Has(Own(fg)', Gains) BY <1>2, <1>4, <2>1, <2>2
  <2>4. \A u \in Tokens : half'[u] = 2 => u[1] = fg BY <1>5, <2>1, <2>2 DEF Within
  <2> QED BY <1>3, <2>1, <2>2, <2>3, <2>4 DEF Reported
<1>8. ASSUME GainedToken(t) PROVE Reported'
  <2>1. Through(t) /\ half[t] = 2 /\ pipe[t][1] \in Gains /\ svc'.active = t /\ svc'.focusPid = svc.focusPid
    BY <1>1, <1>8, HandlerEffects DEF GainsToken
  <2>2. t[1] = fg /\ t = Tok(fg) /\ fg \in Hosts /\ svc.focusPid = fg BY <1>2, <2>1 DEF Reported
  <2>3. \A u \in Tokens : half'[u] = 2 => half[u] = 2 BY <2>1 DEF Through, Shortened
  <2> QED BY <1>3, <1>4, <2>1, <2>2, <2>3 DEF Reported
<1>9. ASSUME DropStale(t) PROVE Reported'
  <2>1. Through(t) /\ SameClient /\ pipe[t][1] \in Leaves BY <1>1, <1>9, HandlerEffects DEF DropsStale
  <2> QED BY <1>2, <2>1, Apart, ReportedSame
<1>10. ASSUME PassStale(t) PROVE Reported'
  <2>1. Within(t, 1) /\ SameClient /\ pipe[t][1] \in Leaves BY <1>1, <1>10, HandlerEffects DEF PassesStale, SameClient
  <2> QED BY <1>2, <2>1, Apart, ReportedSame
<1>11. ASSUME LostState(t) PROVE Reported'
  <2>1. Through(t) /\ SameClient /\ pipe[t][1] \in Leaves BY <1>1, <1>11, HandlerEffects DEF LosesState
  <2> QED BY <1>2, <2>1, Apart, ReportedSame
<1>12. ASSUME DeactivatedState(t) PROVE Reported'
  <2>1. Through(t) /\ SameClient /\ pipe[t][1] \in Goodbyes BY <1>1, <1>12, HandlerEffects DEF DeactivatesState
  <2> QED BY <1>2, <2>1, Apart, ReportedSame
<1>13. ASSUME DropBackground(t) PROVE Reported'
  <2>1. Through(t) /\ SameClient /\ pipe[t][1] \in Begun BY <1>1, <1>13, HandlerEffects DEF DropsBackground, SameClient
  <2> QED BY <1>2, <2>1, Apart, ReportedSame
<1>14. ASSUME ActivatedToken(t) PROVE Reported'
  <2>1. /\ Within(t, 1) /\ Starts(t) /\ pipe[t][1] \in Begun /\ ~Background(t)
        /\ svc'.active = t /\ svc'.focusPid = t[1]
    BY <1>1, <1>14, HandlerEffects DEF TakesToken
  <2>2. pipe' = pipe /\ \A u \in Tokens : half'[u] = 2 => half[u] = 2 BY <2>1 DEF Within
  <2>3. t = Tok(t[1]) BY <1>2, <2>1, Apart
  <2>4. CASE t[1] = fg
    <3>1. \A u \in Tokens : half'[u] = 2 => u[1] = fg BY <1>5, <2>2
    <3>2. svc'.active = Tok(fg)' /\ svc'.focusPid = fg BY <1>2, <1>4, <2>1, <2>3, <2>4
    <3> QED BY <1>3, <3>1, <3>2 DEF Reported
  <2>5. CASE t[1] # fg
    <3>1. \A u \in Tokens : half[u] # 2
      <4>1. CASE Orderly BY <2>1, <4>1 DEF Starts
      <4>2. CASE ~Orderly
        <5>1. Has(pipe[t], Begun) BY <1>2, <2>1
        <5>2. fg \in Hosts /\ svc.active[1] = fg /\ svc.focusPid = fg BY <2>5, <4>2, <5>1 DEF Dropped
        <5>3. svc.active # NoToken BY <5>2 DEF NoToken
        <5>4. Background(t) BY <2>5, <5>2, <5>3 DEF Background
        <5> QED BY <2>1, <5>4
      <4> QED BY <4>1, <4>2
    <3>2. ASSUME Served, doc[fg] \in Edits, ~Has(Own(fg), Gains) PROVE FALSE
      <4>1. svc.active = Tok(fg) /\ svc.focusPid = fg /\ fg \in Hosts BY <3>2 DEF Reported, Served
      <4>2. svc.active[1] = fg /\ svc.active # NoToken BY <1>1, <4>1, Typed DEF Frame
      <4>3. Background(t) BY <2>5, <4>1, <4>2 DEF Background
      <4> QED BY <2>1, <4>3
    <3>3. Served /\ ~Has(Own(fg)', Gains) => ~Has(Own(fg), Gains) BY <1>4, <2>2 DEF Served
    <3> QED BY <1>3, <2>2, <3>1, <3>2, <3>3 DEF Reported
  <2> QED BY <2>4, <2>5
<1>15. ASSUME ActivatedState(t) PROVE Reported'
  <2>1. Through(t) /\ SameClient /\ pipe[t][1] \in Begun BY <1>1, <1>15, HandlerEffects DEF TakesState
  <2> QED BY <1>2, <2>1, Apart, ReportedSame
<1>16. ASSUME HandleKey(t) PROVE Reported'
  <2>1. Through(t) /\ pipe[t][1] \in Keys /\ svc'.active = svc.active /\ svc'.focusPid = fg /\ t = Tok(fg)
        /\ fg \in Hosts
    BY <1>1, <1>16, HandlerEffects DEF HandlesKey
  <2>2. \A u \in Tokens : half'[u] = 2 => half[u] = 2 BY <2>1 DEF Through, Shortened
  <2>3. Has(pipe[t], Gains) => Has(pipe'[t], Gains)
    <3>1. pipe[t][1] \notin Gains BY <1>2, <2>1, Apart
    <3> QED BY <2>1, <3>1 DEF Through, Shortened
  <2>4. \A u \in Tokens : half'[u] = 2 => u[1] = fg BY <1>5, <2>2
  <2> QED BY <1>3, <1>4, <2>1, <2>3, <2>4 DEF Reported
<1>17. ASSUME HandleTerminated(t) PROVE Reported'
  <2>1. Through(t) /\ SameClient /\ pipe[t][1] \in Terms BY <1>1, <1>17, HandlerEffects DEF HandlesTerminated
  <2> QED BY <1>2, <2>1, Apart, ReportedSame
<1> QED BY <1>6, <1>7, <1>8, <1>9, <1>10, <1>11, <1>12, <1>13, <1>14, <1>15, <1>16, <1>17 DEF Handler

\* A handler that answers no gain.
LEMMA ServedSame ==
  ASSUME Base, ServedInv, NEW t \in Tokens, Handler(t), 
         Within(t, 1) \/ Within(t, 2) \/ (Through(t) /\ pipe[t][1] \notin Gains),
         Served /\ doc[fg] \in Edits /\ ~Has(Own(fg), Leaves) /\ ~Has(Own(fg), Gains) /\ Serving => Serving'
  PROVE  ServedInv'
<1>1. Frame(t) BY Framed
<1>2. fg' = fg /\ doc' = doc /\ (Served' <=> Served) BY <1>1 DEF Frame, Same
<1>3. ASSUME Served, doc[fg] \in Edits
      PROVE  After(Own(fg)', Gains, Leaves) \/ (~Has(Own(fg)', Leaves) /\ ~Has(Own(fg)', Gains) /\ Serving')
  <2>1. Own(fg)' = pipe'[Tok(fg)] /\ Own(fg) = pipe[Tok(fg)] /\ Tok(fg) \in Tokens BY <1>1, <1>3 DEF Frame, Served
  <2>2. After(Own(fg), Gains, Leaves) \/ (~Has(Own(fg), Leaves) /\ ~Has(Own(fg), Gains) /\ Serving)
    BY <1>3 DEF ServedInv
  <2>3. CASE After(Own(fg), Gains, Leaves)
    <3>1. CASE Within(t, 1) \/ Within(t, 2)
      <4>1. pipe' = pipe BY <3>1 DEF Within
      <4> QED BY <2>1, <2>3, <4>1
    <3>2. CASE Through(t) /\ pipe[t][1] \notin Gains
      <4>1. \A u \in Tokens : u = t \/ pipe'[u] = pipe[u] BY <3>2 DEF Through, Shortened
      <4>2. After(pipe[t], Gains, Leaves) => After(pipe'[t], Gains, Leaves) BY <3>2 DEF Through, Shortened
      <4> QED BY <2>1, <2>3, <4>1, <4>2
    <3> QED BY <3>1, <3>2
  <2>4. CASE ~Has(Own(fg), Leaves) /\ ~Has(Own(fg), Gains) /\ Serving
    <3>1. Serving' BY <1>3, <2>4
    <3>2. \A S : Has(Own(fg)', S) => Has(Own(fg), S) BY <1>1, <2>1 DEF Frame
    <3> QED BY <2>4, <3>1, <3>2
  <2> QED BY <2>2, <2>3, <2>4
<1> QED BY <1>2, <1>3 DEF ServedInv

LEMMA HandlerServed ==
  ASSUME Base, Orderly, Alone, ServedInv, Reported, NEW t \in Tokens, Handler(t)
  PROVE  Alone' /\ ServedInv'
<1>1. Types /\ PipeInv /\ Frame(t) BY Framed DEF Base
<1>2. /\ pipe[t] # <<>> /\ pipe[t][1] \in Requests /\ t[1] \in Hosts
      /\ pipe[t][1] \in Gains \cup Keys => fg \in Hosts /\ t = Tok(fg) /\ t[1] = fg
      /\ \A S : pipe[t][1] \in S => Has(pipe[t], S)
  BY <1>1, Heads DEF Frame
<1>3. fg' = fg /\ doc' = doc /\ (Served' <=> Served) BY <1>1 DEF Frame, Same
<1>4. Served => /\ Own(fg)' = pipe'[Tok(fg)] /\ Own(fg) = pipe[Tok(fg)] /\ Tok(fg)' = Tok(fg) /\ Tok(fg) \in Tokens
  BY <1>1 DEF Frame, Served
<1>5. ASSUME NEW u \in Tokens, u # t, Starts(t) \/ half[t] = 1 \/ half[t] = 2 PROVE half[u] = 0
  <2>1. half[u] \in 0 .. 2 BY <1>1, Typed
  <2> QED BY <1>5, <2>1 DEF Starts, Alone
\* Nobody else is inside a request; t itself may stay inside its own.
<1>6. ASSUME Starts(t) \/ half[t] = 1 \/ half[t] = 2, Through(t) PROVE Alone'
  <2>1. \A u \in Tokens : half'[u] = 0 BY <1>5, <1>6 DEF Through, Shortened
  <2> QED BY <2>1 DEF Alone
<1>7. ASSUME NEW n \in {1, 2}, Starts(t) \/ half[t] = 1 \/ half[t] = 2, Within(t, n),
             n = 1 /\ pipe[t][1] \in Leaves => svc'.active \in {NoToken, t},
             n = 2 => Serving'
      PROVE  Alone'
  <2>1. pipe' = pipe /\ half'[t] = n /\ \A u \in Tokens : u # t => half'[u] = 0 BY <1>5, <1>7 DEF Within
  <2>2. \A u, v \in Tokens : half'[u] > 0 /\ half'[v] > 0 => u = v BY <2>1
  <2>3. \A u \in Tokens : half'[u] = 1 /\ pipe'[u][1] \in Leaves => svc'.active \in {NoToken, u} BY <1>7, <2>1
  <2>4. \A u \in Tokens : half'[u] = 2 => Serving' BY <1>7, <2>1
  <2> QED BY <2>2, <2>3, <2>4 DEF Alone
\* The end of an editable context reaches the service only from the served client.
<1>8. ASSUME half[t] = 1, pipe[t][1] \in Leaves, Served, doc[fg] \in Edits,
             ~Has(Own(fg), Leaves), ~Has(Own(fg), Gains)
      PROVE  FALSE
  <2>1. svc.active = Tok(fg) BY <1>8 DEF Reported
  <2>2. svc.active \in {NoToken, t} /\ NoToken \notin Tokens BY <1>1, <1>8, Typed DEF Alone
  <2>3. t = Tok(fg) BY <1>4, <1>8, <2>1, <2>2
  <2> QED BY <1>2, <1>4, <1>8, <2>3
<1>9. ASSUME AnswerGained(t) PROVE Alone' /\ ServedInv'
  <2>1. Within(t, 1) /\ Starts(t) /\ SameFlags /\ pipe[t][1] \in Gains BY <1>1, <1>9, HandlerEffects DEF AnswersGained
  <2>2. pipe[t][1] \notin Leaves BY <1>2, <2>1, Apart
  <2>3. Alone' BY <1>7, <2>1, <2>2
  <2>4. Serving' <=> Serving BY <2>1 DEF Serving, SameFlags
  <2> QED BY <2>1, <2>3, <2>4, ServedSame
<1>10. ASSUME GainedState(t) PROVE Alone' /\ ServedInv'
  <2>1. Within(t, 2) /\ half[t] = 1 /\ svc'.ime = TRUE /\ svc'.edit = TRUE /\ svc'.noEdit = FALSE
    BY <1>1, <1>10, HandlerEffects DEF GainsState
  <2>2. Serving' BY <2>1 DEF Serving
  <2>3. Alone' BY <1>7, <2>1, <2>2
  <2> QED BY <2>1, <2>2, <2>3, ServedSame
<1>11. ASSUME GainedToken(t) PROVE Alone' /\ ServedInv'
  <2>1. Through(t) /\ half[t] = 2 /\ pipe[t][1] \in Gains /\ SameFlags BY <1>1, <1>11, HandlerEffects DEF GainsToken
  <2>2. Alone' BY <1>6, <2>1
  <2>3. Serving' BY <2>1 DEF Alone, Serving, SameFlags
  <2>4. t = Tok(fg) BY <1>2, <2>1
  <2>5. ASSUME Served, doc[fg] \in Edits
        PROVE  After(Own(fg)', Gains, Leaves) \/ (~Has(Own(fg)', Leaves) /\ ~Has(Own(fg)', Gains) /\ Serving')
    <3>1. pipe'[t] \in Seq(Requests) BY <2>1 DEF Through, Shortened
    <3>2. Own(fg)' = pipe'[t] /\ Own(fg) = pipe[t] BY <1>4, <2>4, <2>5
    <3>3. After(pipe[t], Gains, Leaves) => After(pipe'[t], Gains, Leaves) \/ ~Has(pipe'[t], Leaves)
      BY <2>1 DEF Through, Shortened
    <3>4. After(pipe[t], Gains, Leaves)
      <4>1. Has(pipe[t], Gains) BY <1>2, <2>1
      <4> QED BY <2>5, <3>2, <4>1 DEF ServedInv
    <3>5. Has(pipe'[t], Gains) /\ ~Has(pipe'[t], Leaves) => After(pipe'[t], Gains, Leaves) BY <3>1, HasAfter
    <3> QED BY <2>3, <3>2, <3>3, <3>4, <3>5
  <2> QED BY <1>3, <2>2, <2>5 DEF ServedInv
<1>12. ASSUME DropStale(t) PROVE Alone' /\ ServedInv'
  <2>1. Through(t) /\ Starts(t) /\ SameFlags /\ pipe[t][1] \in Leaves BY <1>1, <1>12, HandlerEffects DEF DropsStale
  <2>2. pipe[t][1] \notin Gains BY <1>2, <2>1, Apart
  <2>3. Serving' <=> Serving BY <2>1 DEF Serving, SameFlags
  <2> QED BY <1>6, <2>1, <2>2, <2>3, ServedSame
<1>13. ASSUME PassStale(t) PROVE Alone' /\ ServedInv'
  <2>1. Within(t, 1) /\ Starts(t) /\ svc' = svc /\ svc.active \in {NoToken, t}
    BY <1>1, <1>13, HandlerEffects DEF PassesStale
  <2>2. Alone' BY <1>7, <2>1
  <2>3. Serving' <=> Serving BY <2>1 DEF Serving
  <2> QED BY <2>1, <2>2, <2>3, ServedSame
<1>14. ASSUME LostState(t) PROVE Alone' /\ ServedInv'
  <2>1. Through(t) /\ half[t] = 1 /\ pipe[t][1] \in Leaves BY <1>1, <1>14, HandlerEffects DEF LosesState
  <2>2. pipe[t][1] \notin Gains BY <1>2, <2>1, Apart
  <2> QED BY <1>6, <1>8, <2>1, <2>2, ServedSame
<1>15. ASSUME DeactivatedState(t) PROVE Alone' /\ ServedInv'
  <2>1. Through(t) /\ half[t] = 1 /\ pipe[t][1] \in Goodbyes BY <1>1, <1>15, HandlerEffects DEF DeactivatesState
  <2>2. pipe[t][1] \notin Gains /\ pipe[t][1] \in Leaves BY <1>2, <2>1, Apart
  <2> QED BY <1>6, <1>8, <2>1, <2>2, ServedSame
<1>16. ASSUME DropBackground(t) PROVE Alone' /\ ServedInv'
  <2>1. Through(t) /\ Starts(t) /\ svc' = svc /\ pipe[t][1] \in Begun BY <1>1, <1>16, HandlerEffects DEF DropsBackground
  <2>2. pipe[t][1] \notin Gains BY <1>2, <2>1, Apart
  <2>3. Serving' <=> Serving BY <2>1 DEF Serving
  <2> QED BY <1>6, <2>1, <2>2, <2>3, ServedSame
<1>17. ASSUME ActivatedToken(t) PROVE Alone' /\ ServedInv'
  <2>1. Within(t, 1) /\ Starts(t) /\ SameFlags /\ pipe[t][1] \in Begun BY <1>1, <1>17, HandlerEffects DEF TakesToken
  <2>2. pipe[t][1] \notin Leaves BY <1>2, <2>1, Apart
  <2>3. Alone' BY <1>7, <2>1, <2>2
  <2>4. Serving' <=> Serving BY <2>1 DEF Serving, SameFlags
  <2> QED BY <2>1, <2>3, <2>4, ServedSame
<1>18. ASSUME ActivatedState(t) PROVE Alone' /\ ServedInv'
  <2>1. Through(t) /\ half[t] = 1 /\ pipe[t][1] \in Begun /\ svc'.ime = TRUE /\ svc'.edit = TRUE /\ svc'.noEdit = FALSE
    BY <1>1, <1>18, HandlerEffects DEF TakesState
  <2>2. pipe[t][1] \notin Gains BY <1>2, <2>1, Apart
  <2>3. Serving' BY <2>1 DEF Serving
  <2> QED BY <1>6, <2>1, <2>2, <2>3, ServedSame
<1>19. ASSUME HandleKey(t) PROVE Alone' /\ ServedInv'
  <2>1. Through(t) /\ Starts(t) /\ pipe[t][1] \in Keys /\ SameFlags BY <1>1, <1>19, HandlerEffects DEF HandlesKey
  <2>2. pipe[t][1] \notin Gains BY <1>2, <2>1, Apart
  <2>3. Serving' <=> Serving BY <2>1 DEF Serving, SameFlags
  <2> QED BY <1>6, <2>1, <2>2, <2>3, ServedSame
<1>20. ASSUME HandleTerminated(t) PROVE Alone' /\ ServedInv'
  <2>1. Through(t) /\ Starts(t) /\ pipe[t][1] \in Terms /\ SameFlags
    BY <1>1, <1>20, HandlerEffects DEF HandlesTerminated
  <2>2. pipe[t][1] \notin Gains BY <1>2, <2>1, Apart
  <2>3. Serving' <=> Serving BY <2>1 DEF Serving, SameFlags
  <2> QED BY <1>6, <2>1, <2>2, <2>3, ServedSame
<1> QED BY <1>9, <1>10, <1>11, <1>12, <1>13, <1>14, <1>15, <1>16, <1>17, <1>18, <1>19, <1>20 DEF Handler

--------------------------------------------------------------------------------
(* The toolbar is shown over a host that is there, or about to be heard of.  *)

\* A callback that takes h away says so, and one that begins something finds h there.
LEMMA ToolbarCalls ==
  ASSUME Base, Dropped, ToolbarInv, NEW h \in Hosts, NEW q, NEW e, NEW t0, Calls(h, q, e, t0),
         leaving' \in {leaving, leaving \ {h}}, t0 = Tok(h) \/ ~Has(Own(h), Silent),
         Has(e, Begun) => h = fg \/ (fg \in Hosts /\ svc.active[1] = fg /\ svc.focusPid = fg),
         Here(Tok(h)) => t0 = Tok(h) /\ (Has(e, Losing) \/ (q.on /\ ~q.lostSent /\ (h = fg \/ h \in leaving'))),
         h = fg => \/ q.on /\ ~q.lostSent
                   \/ Has(e, Losing) /\ ~Has(e, Openers)
                   \/ Has(e, Losing) /\ ~After(e, Openers, Losing)
                   \/ t0 = Tok(h) /\ ~Has(e, Openers) /\ q.on = dll[h].on /\ q.lostSent = dll[h].lostSent
  PROVE  Dropped' /\ ToolbarInv'
<1>0. Types /\ PipeInv BY DEF Base
<1>1. /\ fg' = fg /\ svc' = svc /\ half' = half /\ t0 \in Tokens /\ t0[1] = h
      /\ dll'[h] = q /\ Tok(h)' = t0
      /\ \A g \in Hosts : g # h => dll'[g] = dll[g] /\ Tok(g)' = Tok(g) /\ Tok(g) # t0
      /\ \A t \in Tokens : t # t0 => pipe'[t] = pipe[t]
      /\ \A t \in Tokens : pipe[t] # <<>> => pipe'[t][1] = pipe[t][1]
      /\ \A S : Has(pipe'[t0], S) <=> Has(pipe[t0], S) \/ Has(e, S)
      /\ After(pipe'[t0], Openers, Losing) <=>
           After(e, Openers, Losing) \/ (After(pipe[t0], Openers, Losing) /\ ~Has(e, Losing))
  BY <1>0, Called
<1>2. \A t \in Tokens : t[1] \in Hosts BY <1>0, Typed
<1>3. ~Has(pipe[t0], Silent) \/ t0 = Tok(h) BY <1>0, <1>1 DEF PipeInv, HalfInv
<1>4. Dropped'
  <2>1. ASSUME NEW t \in Tokens, Has(pipe'[t], Begun), t[1] # fg
        PROVE  fg \in Hosts /\ svc.active[1] = fg /\ svc.focusPid = fg
    <3>1. CASE Has(pipe[t], Begun) BY <2>1, <3>1 DEF Dropped
    <3>2. CASE ~Has(pipe[t], Begun)
      <4>1. t = t0 /\ Has(e, Begun) BY <1>1, <2>1, <3>2
      <4> QED BY <1>1, <2>1, <4>1
    <3> QED BY <3>1, <3>2
  <2>2. \A t \in Tokens : half'[t] = 1 => pipe'[t][1] = pipe[t][1] BY <1>0, <1>1 DEF PipeInv, HalfInv
  <2>3. \A t \in Tokens : half'[t] = 1 /\ pipe'[t][1] \in Begun => t[1] = fg /\ svc.active = t
    BY <1>1, <2>2 DEF Dropped
  <2> QED BY <1>1, <2>1, <2>3 DEF Dropped
<1>5. ASSUME NEW t \in Tokens, Here(t) PROVE Here(t)' \/ Has(pipe'[t], Losing)
  <2>1. CASE t[1] = h
    <3>1. t = Tok(h) BY <1>5, <2>1 DEF Here
    <3>2. CASE t0 = Tok(h) /\ Has(e, Losing) BY <1>1, <3>1, <3>2
    <3>3. CASE t0 = Tok(h) /\ q.on /\ ~q.lostSent /\ (h = fg \/ h \in leaving')
      BY <1>1, <2>1, <3>1, <3>3 DEF Here
    <3> QED BY <1>5, <3>1, <3>2, <3>3
  <2>2. CASE t[1] # h
    <3>1. dll'[t[1]] = dll[t[1]] /\ Tok(t[1])' = Tok(t[1]) /\ (t[1] \in leaving' <=> t[1] \in leaving)
      BY <1>1, <1>2, <2>2
    <3> QED BY <1>1, <1>5, <3>1 DEF Here
  <2> QED BY <2>1, <2>2
<1>6. svc'.ime /\ svc'.edit =>
        \/ \E t \in Tokens : half'[t] = 2
        \/ svc'.active \in Tokens /\ (Here(svc.active)' \/ Has(pipe'[svc'.active], Losing))
  <2> SUFFICES ASSUME svc.ime, svc.edit, \A t \in Tokens : half[t] # 2
               PROVE  svc.active \in Tokens /\ (Here(svc.active)' \/ Has(pipe'[svc.active], Losing))
    BY <1>1
  <2>1. svc.active \in Tokens /\ (Here(svc.active) \/ Has(pipe[svc.active], Losing)) BY DEF ToolbarInv
  <2> DEFINE t == svc.active
  <2>2. Has(pipe[t], Losing) => Has(pipe'[t], Losing) BY <1>1, <2>1
  <2>3. Here(t) => Here(t)' \/ Has(pipe'[t], Losing) BY <1>1, <1>5, <2>1
  <2> QED BY <2>1, <2>2, <2>3
<1>7. ASSUME NEW t \in Tokens, t[1] = fg, After(pipe'[t], Openers, Losing) PROVE Here(t)'
  <2>1. CASE t = t0
    <3>1. h = fg BY <1>1, <1>7, <2>1
    <3>2. CASE q.on /\ ~q.lostSent BY <1>1, <2>1, <3>1, <3>2 DEF Here
    <3>3. ASSUME ~(q.on /\ ~q.lostSent) PROVE FALSE
      <4>1. Has(e, Openers) \/ ~After(e, Openers, Losing) BY AfterHas
      <4>2. CASE Has(e, Losing)
        <5>1. ~After(e, Openers, Losing) BY <3>1, <3>3, <4>1
        <5> QED BY <1>1, <1>7, <2>1, <4>2, <5>1
      <4>3. CASE ~Has(e, Losing)
        <5>1. t0 = Tok(h) /\ ~Has(e, Openers) /\ q.on = dll[h].on /\ q.lostSent = dll[h].lostSent BY <3>1, <3>3, <4>3
        <5>2. After(pipe[t0], Openers, Losing) BY <1>1, <1>7, <2>1, <4>1, <5>1
        <5>3. Here(t0) BY <1>1, <3>1, <5>2 DEF ToolbarInv
        <5> QED BY <1>1, <3>3, <5>1, <5>3 DEF Here
      <4> QED BY <4>2, <4>3
    <3> QED BY <3>2, <3>3
  <2>2. CASE t # t0
    <3>1. After(pipe[t], Openers, Losing) BY <1>1, <1>7, <2>2
    <3>2. Here(t) BY <1>7, <3>1 DEF ToolbarInv
    <3>3. CASE t[1] = h
      <4>1. t = Tok(h) /\ t0 # Tok(h) BY <2>2, <3>2, <3>3 DEF Here
      <4>2. Has(Own(h), Silent) BY <3>1, <4>1, AfterHas, HasOf DEF Own
      <4> QED BY <4>1, <4>2
    <3>4. CASE t[1] # h
      <4>1. dll'[t[1]] = dll[t[1]] /\ Tok(t[1])' = Tok(t[1]) BY <1>1, <1>2, <3>4
      <4> QED BY <1>1, <1>7, <3>2, <4>1 DEF Here
    <3> QED BY <3>3, <3>4
  <2> QED BY <2>1, <2>2
<1>8. ToolbarInv' BY <1>1, <1>6, <1>7 DEF ToolbarInv
<1> QED BY <1>4, <1>8

LEMMA CallbackToolbar ==
  ASSUME Base, Inside, Dropped, ToolbarInv, NEW h \in Hosts, Callback(h)
  PROVE  Dropped' /\ ToolbarInv'
<1>1. Types /\ PipeInv /\ dll[h] \in Dlls /\ Tok(h)[1] = h BY Typed DEF Base, Idle, Tok
<1>2. Here(Tok(h)) => dll[h].on /\ ~dll[h].lostSent /\ (h = fg \/ h \in leaving) BY <1>1 DEF Here
<1>3. ASSUME NEW d \in Docs, SetFocus(h, d) PROVE Dropped' /\ ToolbarInv'
  <2> DEFINE e == Said(dll[h], d)
  <2>1. PICK q : SetsFocus(h, d, q) BY <1>1, <1>3, Effects DEF PipeInv
  <2>2. Calls(h, q, e, Tok(h)) /\ Gained(dll[h], q, d) /\ leaving' = leaving /\ h = fg /\ dll[h].on
    BY <2>1 DEF SetsFocus
  <2>3. q.on = dll[h].on /\ (q.lostSent <=> IF d \in Transients THEN dll[h].lostSent ELSE d \in Pages)
    BY <2>2 DEF Gained
  <2>4. ~Has(e, Begun) /\ (d \in Pages => Has(e, Losing) /\ ~Has(e, Openers)) /\ (d \in Transients => ~Has(e, Openers))
    BY <1>1, SaidSorts
  <2>5. q.lostSent \in BOOLEAN /\ dll[h].lostSent \in BOOLEAN BY <1>1, <2>2 DEF Calls, Sent, Idle, Dlls
  <2> HIDE DEF e
  <2>6. CASE d \in Edits
    <3>1. q.on /\ ~q.lostSent BY <2>2, <2>3, <2>6, DocsApart
    <3> QED BY <2>2, <2>4, <3>1, ToolbarCalls
  <2>7. CASE d \in Pages BY <2>2, <2>4, <2>7, ToolbarCalls
  <2>8. CASE d \in Transients
    <3>1. q.lostSent = dll[h].lostSent BY <2>3, <2>5, <2>8
    <3> QED BY <1>2, <2>2, <2>3, <2>4, <2>8, <3>1, ToolbarCalls
  <2> QED BY <2>6, <2>7, <2>8, DocsApart
<1>4. ASSUME LoseFocus(h) PROVE Dropped' /\ ToolbarInv'
  <2>1. PICK q, e : LosesFocus(h, q, e) BY <1>1, <1>4, Effects DEF PipeInv
  <2>2. /\ Calls(h, q, e, Tok(h)) /\ KeepsAll(dll[h], q) /\ e \in {<<>>, <<Lost("ctx_lost")>>}
        /\ leaving' = leaving
    BY <2>1 DEF LosesFocus
  <2>3. ~Has(e, Begun) /\ ~Has(e, Openers) BY <2>2, SaysNothing, SaysLost, ReasonsAre
  <2>4. q.on = dll[h].on /\ q.lostSent = dll[h].lostSent BY <2>2 DEF KeepsAll, Keeps
  <2> QED BY <1>2, <2>2, <2>3, <2>4, ToolbarCalls
<1>5. ASSUME KillThreadFocus(h) PROVE Dropped' /\ ToolbarInv'
  <2>1. PICK q, e : LosesThread(h, q, e) BY <1>1, <1>5, Effects DEF PipeInv
  <2>2. /\ Calls(h, q, e, Tok(h)) /\ e = IF dll[h].lostSent THEN <<>> ELSE <<Lost("thread")>>
        /\ leaving' = leaving \ {h} /\ h # fg
    BY <2>1 DEF LosesThread
  <2>3. ~Has(e, Begun) BY <2>2, SaysNothing, SaysLost, ReasonsAre
  <2>4. ~dll[h].lostSent => Has(e, Losing) BY <2>2, SaysLost, ReasonsAre
  <2> QED BY <1>2, <2>2, <2>3, <2>4, ToolbarCalls
<1>6. ASSUME Terminate(h) PROVE Dropped' /\ ToolbarInv'
  <2> DEFINE e == <<Req("terminated")>>
  <2>1. PICK q : Terminates(h, q) BY <1>1, <1>6, Effects DEF PipeInv
  <2>2. Calls(h, q, e, Tok(h)) /\ q.on = dll[h].on /\ q.lostSent = dll[h].lostSent /\ leaving' = leaving
    BY <2>1 DEF Terminates, Keeps
  <2>3. ~Has(e, Begun) /\ ~Has(e, Openers) BY SaysTerminated
  <2> HIDE DEF e
  <2> QED BY <1>2, <2>2, <2>3, ToolbarCalls
<1>7. ASSUME Deactivate(h) PROVE Dropped' /\ ToolbarInv'
  <2> DEFINE e == <<Req("deactivated")>>
  <2>1. PICK q : Deactivates(h, q) BY <1>1, <1>7, Effects DEF PipeInv
  <2>2. Calls(h, q, e, Tok(h)) /\ leaving' = leaving \ {h} BY <2>1 DEF Deactivates
  <2>3. ~Has(e, Begun) /\ ~Has(e, Openers) /\ Has(e, Losing) BY SaysGoodbye
  <2> HIDE DEF e
  <2> QED BY <2>2, <2>3, ToolbarCalls
<1>8. ASSUME Key(h) PROVE Dropped' /\ ToolbarInv'
  <2> DEFINE e == <<KeyOn(doc[h])>>
  <2>1. PICK q : TypesKey(h, q) BY <1>1, <1>8, Effects DEF PipeInv
  <2>2. /\ Calls(h, q, e, Tok(h)) /\ q.on = dll[h].on /\ q.lostSent = dll[h].lostSent /\ leaving' = leaving
        /\ doc[h] \in Docs
    BY <2>1 DEF TypesKey, KeepsAll, Keeps, Docs
  <2>3. ~Has(e, Begun) /\ ~Has(e, Openers) BY <2>2, SaysKey
  <2> HIDE DEF e
  <2> QED BY <1>2, <2>2, <2>3, ToolbarCalls
<1>9. ASSUME Activate(h) PROVE Dropped' /\ ToolbarInv'
  <2> DEFINE e == Greeting(h)
  <2>1. PICK q, t0 : Activates(h, q, t0) BY <1>1, <1>9, Effects DEF PipeInv
  <2>2. /\ Calls(h, q, e, t0) /\ q.on = TRUE /\ (q.lostSent <=> fg = h /\ doc[h] \in Pages)
        /\ leaving' = leaving /\ ~dll[h].on /\ ~Has(Own(h), Silent)
        /\ fg = h \/ (Served /\ svc.active[1] = fg /\ svc.focusPid = fg)
    BY <2>1 DEF Activates, Inside
  <2>3. fg = h /\ doc[h] \in Pages => Has(e, Losing) /\ ~After(e, Openers, Losing) BY GreetingSorts
  <2>4. ~Here(Tok(h)) BY <1>2, <2>2
  <2>5. Served => fg \in Hosts BY DEF Served
  <2> HIDE DEF e
  <2> QED BY <2>2, <2>3, <2>4, <2>5, ToolbarCalls
<1> QED BY <1>3, <1>4, <1>5, <1>6, <1>7, <1>8, <1>9 DEF Callback

LEMMA SwitchToolbar ==
  ASSUME Base, Patient, ToolbarInv, NEW x \in Hosts \cup {Outside}, Switch(x)
  PROVE  Dropped' /\ ToolbarInv'
<1>1. Types /\ Switches(x) BY SwitchBase DEF Base
<1>2. \A t \in Tokens : /\ half[t] = 0 /\ ~Has(pipe[t], Begun) /\ ~Has(pipe[t], Losing)
                        /\ ~After(pipe[t], Openers, Losing)
  BY <1>1, Quiet
<1>3. /\ half' = half /\ pipe' = pipe /\ svc' = svc /\ dll' = dll
      /\ leaving' = leaving \cup {h \in Hosts : h = fg /\ dll[h].on}
  BY <1>1 DEF Switches
<1>4. Dropped' BY <1>2, <1>3 DEF Dropped
<1>5. ASSUME NEW t \in Tokens, Here(t) PROVE Here(t)'
  <2>1. t[1] \in Hosts /\ Tok(t[1])' = Tok(t[1]) BY <1>1, <1>3, Typed DEF Tok
  <2> QED BY <1>3, <1>5, <2>1 DEF Here
<1>6. svc.ime /\ svc.edit => svc.active \in Tokens /\ Here(svc.active) BY <1>2 DEF ToolbarInv
<1>7. svc.ime /\ svc.edit => Here(svc.active)' BY <1>3, <1>5, <1>6
<1>8. ToolbarInv' BY <1>2, <1>3, <1>6, <1>7 DEF ToolbarInv
<1> QED BY <1>4, <1>8

\* What a handler may do to the client and to the halves, where an activation in the background is dropped.
LEMMA HandlerDropped ==
  ASSUME Base, Dropped, NEW t \in Tokens, Handler(t)
  PROVE  Dropped' /\ (pipe[t][1] \in Begun /\ (half[t] = 1 \/ ActivatedToken(t)) => t[1] = fg)
<1>1. Types /\ PipeInv /\ Frame(t) BY Framed DEF Base
<1>2. /\ pipe[t] # <<>> /\ pipe[t][1] \in Requests /\ t[1] \in Hosts
      /\ pipe[t][1] \in Gains \cup Keys => fg \in Hosts /\ t = Tok(fg) /\ t[1] = fg
      /\ pipe[t][1] \in Silent => t = Tok(t[1])
      /\ \A S : pipe[t][1] \in S => Has(pipe[t], S)
  BY <1>1, Heads DEF Frame
<1>3. fg' = fg BY <1>1 DEF Frame, Same
<1>4. \A u \in Tokens : Has(pipe'[u], Begun) => Has(pipe[u], Begun) BY <1>1 DEF Frame
<1>5. ASSUME ActivatedToken(t) PROVE t[1] = fg
  <2>1. pipe[t][1] \in Begun /\ ~Background(t) BY <1>1, <1>5, HandlerEffects DEF TakesToken
  <2>2. CASE t[1] # fg
    <3>1. Has(pipe[t], Begun) BY <1>2, <2>1
    <3>2. fg \in Hosts /\ svc.active[1] = fg /\ svc.focusPid = fg BY <2>2, <3>1 DEF Dropped
    <3>3. svc.active # NoToken BY <3>2 DEF NoToken
    <3> QED BY <2>1, <2>2, <3>2, <3>3 DEF Background
  <2> QED BY <2>2
\* Whoever is the client afterwards, it is of the foreground process.
<1>6. ASSUME svc'.active = svc.active \/ svc'.active[1] = fg, svc'.focusPid \in {svc.focusPid, fg}
      PROVE  \A u \in Tokens : Has(pipe'[u], Begun) /\ u[1] # fg' =>
               fg' \in Hosts /\ svc'.active[1] = fg' /\ svc'.focusPid = fg'
  BY <1>3, <1>4, <1>6 DEF Dropped
<1>7. ASSUME NEW u \in Tokens, half[u] = 1, pipe[u][1] \in Begun PROVE u[1] = fg /\ svc.active = u /\ u = Tok(fg)
  <2>1. u[1] = fg /\ svc.active = u /\ pipe[u] # <<>> BY <1>1, <1>7 DEF Dropped, PipeInv, HalfInv
  <2>2. pipe[u][1] \in Silent /\ (pipe[u][1] \in Silent => u = Tok(u[1])) BY <1>1, <1>7, <2>1, Heads, Apart
  <2> QED BY <2>1, <2>2
<1>8. ASSUME Within(t, 1) \/ Within(t, 2) \/ Through(t), svc'.active = svc.active,
             half'[t] = 1 => pipe[t][1] \notin Begun
      PROVE  \A u \in Tokens : half'[u] = 1 /\ pipe'[u][1] \in Begun => u[1] = fg' /\ svc'.active = u
  <2>1. \A u \in Tokens : u # t => half'[u] = half[u] /\ pipe'[u] = pipe[u] BY <1>8 DEF Within, Through, Shortened
  <2>2. half'[t] = 1 => pipe'[t] = pipe[t] BY <1>8 DEF Within, Through, Shortened
  <2> QED BY <1>3, <1>7, <1>8, <2>1, <2>2
\* A token that is set is set for the one connection of the foreground process.
<1>9. ASSUME Within(t, 1) \/ Through(t), svc'.active = t, t = Tok(fg), t[1] = fg
      PROVE  \A u \in Tokens : half'[u] = 1 /\ pipe'[u][1] \in Begun => u[1] = fg' /\ svc'.active = u
  <2>1. \A u \in Tokens : u # t => half'[u] = half[u] /\ pipe'[u] = pipe[u] BY <1>9 DEF Within, Through, Shortened
  <2> QED BY <1>3, <1>7, <1>9, <2>1
<1>10. ASSUME AnswerGained(t) \/ PassStale(t) PROVE Dropped'
  <2>1. Within(t, 1) /\ SameClient /\ (pipe[t][1] \in Gains \/ pipe[t][1] \in Leaves)
    BY <1>1, <1>10, HandlerEffects DEF AnswersGained, PassesStale, SameClient
  <2>2. pipe[t][1] \notin Begun BY <1>2, <2>1, Apart
  <2> QED BY <1>6, <1>8, <2>1, <2>2 DEF Dropped, SameClient
<1>11. ASSUME GainedState(t) PROVE Dropped'
  <2>1. Within(t, 2) /\ svc'.active = svc.active /\ svc'.focusPid = t[1] /\ pipe[t][1] \in Gains
    BY <1>1, <1>11, HandlerEffects DEF GainsState
  <2>2. pipe[t][1] \notin Begun /\ t[1] = fg BY <1>2, <2>1, Apart
  <2> QED BY <1>6, <1>8, <2>1, <2>2 DEF Dropped
<1>12. ASSUME GainedToken(t) PROVE Dropped'
  <2>1. Through(t) /\ svc'.active = t /\ svc'.focusPid = svc.focusPid /\ pipe[t][1] \in Gains
    BY <1>1, <1>12, HandlerEffects DEF GainsToken
  <2>2. t[1] = fg /\ t = Tok(fg) BY <1>2, <2>1
  <2> QED BY <1>6, <1>9, <2>1, <2>2 DEF Dropped
<1>13. ASSUME ActivatedToken(t) PROVE Dropped'
  <2>1. Within(t, 1) /\ svc'.active = t /\ svc'.focusPid = t[1] /\ pipe[t][1] \in Begun
    BY <1>1, <1>13, HandlerEffects DEF TakesToken
  <2>2. t[1] = fg /\ t = Tok(fg) BY <1>2, <1>5, <1>13, <2>1, Apart
  <2> QED BY <1>6, <1>9, <2>1, <2>2 DEF Dropped
<1>14. ASSUME HandleKey(t) PROVE Dropped'
  <2>1. Through(t) /\ svc'.active = svc.active /\ svc'.focusPid = fg BY <1>1, <1>14, HandlerEffects DEF HandlesKey
  <2>2. half'[t] = 0 BY <2>1 DEF Through, Shortened
  <2> QED BY <1>6, <1>8, <2>1, <2>2 DEF Dropped
<1>15. ASSUME DropStale(t) \/ LostState(t) \/ DeactivatedState(t) \/ DropBackground(t) \/ ActivatedState(t) \/ HandleTerminated(t)
       PROVE  Dropped'
  <2>1. Through(t) /\ SameClient
    BY <1>1, <1>15, HandlerEffects
       DEF DropsStale, LosesState, DeactivatesState, DropsBackground, TakesState, HandlesTerminated, SameClient
  <2>2. half'[t] = 0 BY <2>1 DEF Through, Shortened
  <2> QED BY <1>6, <1>8, <2>1, <2>2 DEF Dropped, SameClient
<1>16. Dropped' BY <1>10, <1>11, <1>12, <1>13, <1>14, <1>15 DEF Handler
<1>17. pipe[t][1] \in Begun /\ (half[t] = 1 \/ ActivatedToken(t)) => t[1] = fg BY <1>5, <1>7
<1> QED BY <1>16, <1>17

\* The toolbar after a handler: what is shown is shown for a reason, and openers are of hosts that are there.
LEMMA HandlerToolbar ==
  ASSUME Base, Dropped, ToolbarInv, NEW t \in Tokens, Handler(t)
  PROVE  ToolbarInv'
<1>1. Types /\ PipeInv /\ Frame(t) BY Framed DEF Base
<1>2. /\ pipe[t] # <<>> /\ pipe[t] \in Seq(Requests) /\ pipe[t][1] \in Requests /\ t[1] \in Hosts
      /\ pipe[t][1] \in Gains \cup Keys => fg \in Hosts /\ t = Tok(fg) /\ t[1] = fg
      /\ \A S : pipe[t][1] \in S => Has(pipe[t], S)
  BY <1>1, Heads DEF Frame
<1>3. fg' = fg /\ leaving' = leaving BY <1>1 DEF Frame, Same
<1>4. ASSUME NEW u \in Tokens PROVE Here(u)' <=> Here(u)
  <2>1. u[1] \in Hosts BY <1>1, Typed
  <2>2. dll'[u[1]].on = dll[u[1]].on /\ dll'[u[1]].lostSent = dll[u[1]].lostSent /\ Tok(u[1])' = Tok(u[1])
    BY <1>1, <2>1 DEF Frame
  <2> QED BY <1>3, <2>2 DEF Here
<1>5. \A u \in Tokens : u[1] = fg' /\ After(pipe'[u], Openers, Losing) => Here(u)'
  <2> SUFFICES ASSUME NEW u \in Tokens, u[1] = fg, After(pipe'[u], Openers, Losing) PROVE Here(u)' BY <1>3
  <2>1. After(pipe[u], Openers, Losing) BY <1>1 DEF Frame
  <2>2. Here(u) BY <2>1 DEF ToolbarInv
  <2> QED BY <1>4, <2>2
\* Why the toolbar is shown.
<1> DEFINE Shown == svc'.active \in Tokens /\ (Here(svc'.active) \/ Has(pipe'[svc'.active], Losing))
<1>6. ASSUME (\E u \in Tokens : half'[u] = 2) \/ Shown PROVE ToolbarInv'
  <2>1. svc'.active \in Tokens => (Here(svc.active)' <=> Here(svc'.active))
    <3> SUFFICES ASSUME NEW u \in Tokens, u = svc'.active PROVE Here(svc.active)' <=> Here(u) OBVIOUS
    <3>1. fg' = fg /\ leaving' = leaving /\ u[1] \in Hosts BY <1>1, <1>3, Typed
    <3>2. dll'[u[1]].on = dll[u[1]].on /\ dll'[u[1]].lostSent = dll[u[1]].lostSent /\ dll'[u[1]].gen = dll[u[1]].gen
      BY <1>1, <3>1 DEF Frame
    <3> QED BY <3>1, <3>2 DEF Here, Tok
  <2> QED BY <1>5, <1>6, <2>1 DEF ToolbarInv
<1> HIDE DEF Shown
\* The connection whose openers come first has said nothing of an end, or will.
<1>7. ASSUME pipe[t][1] \in Openers, t[1] = fg, svc'.active = t, Within(t, 1) \/ Through(t) PROVE Shown
  <2>1. After(pipe[t], Openers, Losing) \/ Has(Tail(pipe[t]), Losing) BY <1>2, <1>7, AfterTail
  <2>2. Has(Tail(pipe[t]), Losing) => Has(pipe'[t], Losing)
    <3>1. CASE Within(t, 1) BY <1>2, <3>1, HasTail DEF Within
    <3>2. CASE Through(t)
      <4>1. Has(pipe[t], Losing) <=> pipe[t][1] \in Losing \/ Has(pipe'[t], Losing) BY <3>2 DEF Through, Shortened
      <4>2. pipe[t][1] \notin Losing BY <1>2, <1>7, Apart
      <4> QED BY <1>2, <4>1, <4>2, HasTail
    <3> QED BY <1>7, <3>1, <3>2
  <2> QED BY <1>7, <2>1, <2>2 DEF Shown, ToolbarInv
\* Who shows the toolbar already goes on doing so.
<1>8. ASSUME svc'.active = svc.active, svc.ime, svc.edit, Within(t, 1) \/ Through(t),
             half[t] # 2, svc.active = t /\ Through(t) => pipe[t][1] \notin Losing
      PROVE  (\E u \in Tokens : half'[u] = 2) \/ Shown
  <2>1. \A u \in Tokens : half[u] = 2 => half'[u] = 2 BY <1>8 DEF Within, Through, Shortened
  <2>2. CASE \E u \in Tokens : half[u] = 2 BY <2>1, <2>2
  <2>3. CASE svc.active \in Tokens /\ Here(svc.active) BY <1>8, <2>3 DEF Shown
  <2>4. CASE svc.active \in Tokens /\ Has(pipe[svc.active], Losing)
    <3>1. \A u \in Tokens : u # t => pipe'[u] = pipe[u] BY <1>8 DEF Within, Through, Shortened
    <3>2. CASE svc.active # t BY <1>8, <2>4, <3>1, <3>2 DEF Shown
    <3>3. CASE svc.active = t /\ Within(t, 1) BY <1>8, <2>4, <3>3 DEF Shown, Within
    <3>4. CASE svc.active = t /\ Through(t)
      <4>1. Has(pipe[t], Losing) <=> pipe[t][1] \in Losing \/ Has(pipe'[t], Losing) BY <3>4 DEF Through, Shortened
      <4>2. Has(pipe'[t], Losing) BY <1>8, <2>4, <3>4, <4>1
      <4> QED BY <1>8, <3>4, <4>2 DEF Shown
    <3> QED BY <1>8, <3>2, <3>3, <3>4
  <2> QED BY <1>8, <2>2, <2>3, <2>4 DEF ToolbarInv
<1>9. ~(svc'.ime /\ svc'.edit) => ToolbarInv' BY <1>5 DEF ToolbarInv
<1>10. ASSUME AnswerGained(t) \/ PassStale(t) PROVE ToolbarInv'
  <2>1. Within(t, 1) /\ svc'.active = svc.active /\ svc'.ime = svc.ime /\ svc'.edit = svc.edit /\ Starts(t)
    BY <1>1, <1>10, HandlerEffects DEF AnswersGained, PassesStale, SameFlags, SameClient
  <2>2. half[t] # 2 BY <2>1 DEF Starts
  <2>3. Within(t, 1) => ~Through(t) \/ pipe[t][1] \notin Losing \/ pipe'[t] = pipe[t] BY DEF Within
  <2>4. CASE svc.ime /\ svc.edit
    <3>1. half'[t] = 1 BY <2>1 DEF Within
    <3>2. ~Through(t) BY <3>1 DEF Through, Shortened
    <3> QED BY <1>6, <1>8, <2>1, <2>2, <2>4, <3>2
  <2> QED BY <1>9, <2>1, <2>4
<1>11. ASSUME GainedState(t) PROVE ToolbarInv'
  <2>1. half'[t] = 2 BY <1>1, <1>11, HandlerEffects DEF GainsState, Within
  <2> QED BY <1>6, <2>1
<1>12. ASSUME GainedToken(t) PROVE ToolbarInv'
  <2>1. Through(t) /\ svc'.active = t /\ pipe[t][1] \in Gains BY <1>1, <1>12, HandlerEffects DEF GainsToken
  <2>2. t[1] = fg /\ pipe[t][1] \in Openers BY <1>2, <2>1, Apart
  <2> QED BY <1>6, <1>7, <2>1, <2>2
<1>13. ASSUME ActivatedToken(t) PROVE ToolbarInv'
  <2>1. Within(t, 1) /\ svc'.active = t /\ pipe[t][1] \in Begun BY <1>1, <1>13, HandlerEffects DEF TakesToken
  <2>2. t[1] = fg /\ pipe[t][1] \in Openers BY <1>2, <1>13, <2>1, HandlerDropped, Apart
  <2> QED BY <1>6, <1>7, <2>1, <2>2
<1>14. ASSUME ActivatedState(t) PROVE ToolbarInv'
  <2>1. Through(t) /\ half[t] = 1 /\ SameClient /\ pipe[t][1] \in Begun BY <1>1, <1>14, HandlerEffects DEF TakesState
  <2>2. t[1] = fg /\ svc'.active = t /\ pipe[t][1] \in Openers BY <1>2, <2>1, Apart DEF Dropped, SameClient
  <2> QED BY <1>6, <1>7, <2>1, <2>2
<1>15. ASSUME DropStale(t) PROVE ToolbarInv'
  <2>1. /\ Through(t) /\ Starts(t) /\ t # svc.active
        /\ svc'.active = svc.active /\ svc'.ime = svc.ime /\ svc'.edit = svc.edit
    BY <1>1, <1>15, HandlerEffects DEF DropsStale, SameFlags, SameClient
  <2>2. half[t] # 2 BY <2>1 DEF Starts
  <2> QED BY <1>6, <1>8, <1>9, <2>1, <2>2
<1>16. ASSUME LostState(t) PROVE ToolbarInv'
  <2>1. /\ Through(t) /\ half[t] = 1 /\ SameClient
        /\ svc'.ime /\ svc'.edit => svc.ime /\ svc.edit /\ pipe[t][1] \notin Losing
    BY <1>1, <1>16, HandlerEffects DEF LosesState
  <2> QED BY <1>6, <1>8, <1>9, <2>1 DEF SameClient
<1>17. ASSUME DeactivatedState(t) PROVE ToolbarInv'
  <2>1. svc'.ime = FALSE BY <1>1, <1>17, HandlerEffects DEF DeactivatesState
  <2> QED BY <1>9, <2>1
<1>18. ASSUME DropBackground(t) \/ HandleKey(t) \/ HandleTerminated(t) PROVE ToolbarInv'
  <2>1. /\ Through(t) /\ Starts(t) /\ svc'.active = svc.active /\ svc'.ime = svc.ime /\ svc'.edit = svc.edit
        /\ pipe[t][1] \in Begun \/ pipe[t][1] \in Keys \/ pipe[t][1] \in Terms
    BY <1>1, <1>18, HandlerEffects DEF DropsBackground, HandlesKey, HandlesTerminated, SameFlags, SameClient
  <2>2. half[t] # 2 /\ pipe[t][1] \notin Losing BY <1>2, <2>1, Apart DEF Starts
  <2> QED BY <1>6, <1>8, <1>9, <2>1, <2>2
<1> QED BY <1>10, <1>11, <1>12, <1>13, <1>14, <1>15, <1>16, <1>17, <1>18 DEF Handler

--------------------------------------------------------------------------------
(* What is composed and what is typed belong together.                       *)

CompOf(h) ==
  dll[h].comp # NoDoc =>
    /\ h = fg /\ dll[h].on /\ dll[h].comp \in Edits \cup Transients
    /\ doc[h] \in {NoDoc, dll[h].comp} /\ dll[h].lastFocused = dll[h].comp
    /\ ~Has(Own(h), Terms) /\ ~Has(Own(h), Goodbyes) /\ ~Has(Own(h), Clearing)
    /\ dll[h].comp \in Edits =>
         /\ dll[h].lastActive # NoDoc /\ ~dll[h].lostSent
         /\ svc.active = Tok(h) /\ svc.focusPid = h

TermsOf ==
  fg \in Hosts /\ (Has(Own(fg), Keys) \/ dll[fg].comp # NoDoc) =>
    \A u \in Tokens : u # Tok(fg) => ~Has(pipe[u], Terms) /\ (u[1] = fg => ~Has(pipe[u], Goodbyes))

LEMMA CompByHost == CompInv <=> TermsOf /\ \A h \in Hosts : CompOf(h)
BY DEF CompInv, TermsOf, CompOf

\* A callback keeps the composition, or ends it and says so.
LEMMA CompCalls ==
  ASSUME Base, CompInv, InputInv, NEW h \in Hosts, NEW q, NEW e, NEW t0, Calls(h, q, e, t0),
         q.comp \in {NoDoc, dll[h].comp},
         q.comp # NoDoc => /\ q.on /\ doc'[h] \in {NoDoc, q.comp} /\ q.lastFocused = q.comp /\ t0 = Tok(h)
                           /\ ~Has(e, Terms) /\ ~Has(e, Goodbyes) /\ ~Has(e, Clearing)
                           /\ q.comp \in Edits => q.lastActive # NoDoc /\ ~q.lostSent,
         dll[h].comp # NoDoc /\ q.comp = NoDoc =>
           Has(e, Terms) \/ Has(e, Goodbyes) \/ (Has(e, Clearing) /\ dll[h].comp \in Edits),
         Has(e, Terms) => h = fg,
         Has(e, Keys) => /\ h = fg
                         /\ \A u \in Tokens : u # Tok(h) => ~Has(pipe[u], Terms) /\ (u[1] = h => ~Has(pipe[u], Goodbyes)),
         t0 = Tok(h) \/ (~dll[h].on /\ ~Has(Own(h), Silent) /\ ~Has(e, Keys))
  PROVE  CompInv' /\ InputInv' /\ (KeptInv => KeptInv')
<1>0. Types /\ PipeInv /\ TermsOf /\ \A g \in Hosts : CompOf(g) BY CompByHost DEF Base
<1>1. /\ fg' = fg /\ svc' = svc /\ t0 \in Tokens /\ t0[1] = h
      /\ dll'[h] = q /\ Tok(h)' = t0 /\ Own(h)' = pipe'[t0]
      /\ \A g \in Hosts : g # h => dll'[g] = dll[g] /\ doc'[g] = doc[g] /\ Tok(g)' = Tok(g) /\ Own(g)' = Own(g)
      /\ \A t \in Tokens : t # t0 => pipe'[t] = pipe[t]
      /\ \A S : Has(pipe'[t0], S) <=> Has(pipe[t0], S) \/ Has(e, S)
  BY <1>0, Called
<1>2. \A g \in Hosts : Own(g) = pipe[Tok(g)] BY DEF Own
<1>3. t0 # Tok(h) => ~Has(pipe[t0], Silent) BY <1>0, <1>1 DEF PipeInv, HalfInv
<1>4. TermsOf'
  <2> SUFFICES ASSUME fg \in Hosts, Has(Own(fg)', Keys) \/ dll'[fg].comp # NoDoc, NEW u \in Tokens, u # Tok(fg)'
               PROVE  ~Has(pipe'[u], Terms) /\ (u[1] = fg => ~Has(pipe'[u], Goodbyes))
    BY <1>1 DEF TermsOf
  <2>1. CASE fg = h
    <3>1. Has(pipe'[t0], Keys) \/ q.comp # NoDoc BY <1>1, <2>1
    <3>2. t0 = Tok(h)
      <4> SUFFICES ASSUME t0 # Tok(h) PROVE FALSE OBVIOUS
      <4>1. Has(pipe'[t0], Keys) /\ ~Has(e, Keys) BY <3>1
      <4>2. Has(pipe[t0], Keys) BY <1>1, <4>1
      <4> QED BY <1>3, <4>2, HasOf
    <3>3. u # t0 /\ pipe'[u] = pipe[u] /\ u # Tok(fg) BY <1>1, <2>1, <3>2
    <3>4. CASE Has(pipe[t0], Keys) \/ dll[h].comp # NoDoc BY <1>0, <1>2, <2>1, <3>2, <3>3, <3>4 DEF TermsOf
    <3>5. CASE Has(e, Keys) BY <2>1, <3>3, <3>5
    <3> QED BY <1>1, <3>1, <3>4, <3>5
  <2>2. CASE fg # h
    <3>1. Tok(fg)' = Tok(fg) /\ Own(fg)' = Own(fg) /\ dll'[fg] = dll[fg] BY <1>1, <2>2
    <3>2. ~Has(pipe[u], Terms) /\ (u[1] = fg => ~Has(pipe[u], Goodbyes)) BY <1>0, <3>1 DEF TermsOf
    <3>3. Has(pipe'[t0], Terms) <=> Has(pipe[t0], Terms) \/ Has(e, Terms) BY <1>1
    <3> QED BY <1>1, <2>2, <3>1, <3>2, <3>3
  <2> QED BY <2>1, <2>2
<1>5. ASSUME NEW g \in Hosts PROVE CompOf(g)'
  <2>1. CASE g = h
    <3> SUFFICES ASSUME q.comp # NoDoc PROVE CompOf(h)' BY <1>1, <2>1 DEF CompOf
    <3>1. q.comp = dll[h].comp /\ t0 = Tok(h) /\ pipe[t0] = Own(h) BY <1>2
    <3>2. CompOf(h) /\ dll[h].comp # NoDoc BY <1>0, <3>1
    <3>3. /\ Has(Own(h)', Terms) <=> Has(Own(h), Terms) \/ Has(e, Terms)
          /\ Has(Own(h)', Goodbyes) <=> Has(Own(h), Goodbyes) \/ Has(e, Goodbyes)
          /\ Has(Own(h)', Clearing) <=> Has(Own(h), Clearing) \/ Has(e, Clearing)
      BY <1>1, <3>1
    <3> QED BY <1>1, <3>1, <3>2, <3>3 DEF CompOf
  <2>2. CASE g # h
    <3>1. dll'[g] = dll[g] /\ doc'[g] = doc[g] /\ Tok(g)' = Tok(g) /\ Own(g)' = Own(g) BY <1>1, <2>2
    <3> QED BY <1>0, <1>1, <3>1 DEF CompOf
  <2> QED BY <2>1, <2>2
<1>6. InputInv'
  <2> SUFFICES ASSUME Live # {}
               PROVE  \E g \in Hosts, d \in Docs : Live = {<<g, d>>} /\ (dll'[g].comp = d \/ Ending(g)')
    BY <1>1 DEF InputInv, Live
  <2>1. PICK g \in Hosts, d \in Docs : Live = {<<g, d>>} /\ (dll[g].comp = d \/ Ending(g)) BY DEF InputInv
  <2>2. d # NoDoc BY <2>1, DocsApart
  <2>9. ASSUME g = fg, NEW u \in Tokens, u[1] = g, Has(pipe[u], Goodbyes) PROVE Ending(g)'
    <3>1. Has(pipe'[u], Goodbyes) BY <1>1, <2>9
    <3> QED BY <1>1, <2>9, <3>1 DEF Ending
  <2>3. CASE g # h
    <3>1. dll'[g] = dll[g] /\ Tok(g)' = Tok(g) /\ Own(g)' = Own(g) BY <1>1, <2>3
    <3>2. Ending(g) => Ending(g)' BY <1>1, <2>9, <3>1 DEF Ending
    <3> QED BY <2>1, <3>1, <3>2
  <2>4. CASE g = h
    <3>1. CASE t0 = Tok(h)
      <4>1. /\ Has(Own(h)', Terms) <=> Has(Own(h), Terms) \/ Has(e, Terms)
            /\ Has(Own(h)', Clearing) <=> Has(Own(h), Clearing) \/ Has(e, Clearing)
            /\ Has(pipe'[t0], Goodbyes) <=> Has(pipe[t0], Goodbyes) \/ Has(e, Goodbyes)
        BY <1>1, <1>2, <3>1
      <4>2. CASE Ending(h)
        <5>1. Ending(h)' BY <1>1, <2>4, <2>9, <3>1, <4>1, <4>2 DEF Ending
        <5> QED BY <2>1, <2>4, <5>1
      <4>3. CASE dll[h].comp = d
        <5>1. CASE q.comp = d BY <1>1, <2>1, <2>4, <5>1
        <5>2. CASE q.comp = NoDoc
          <6>1. Has(e, Terms) \/ Has(e, Goodbyes) \/ (Has(e, Clearing) /\ dll[h].comp \in Edits) BY <2>2, <4>3, <5>2
          <6>2. CompOf(h) /\ dll[h].comp # NoDoc BY <1>0, <2>2, <4>3
          <6>4. h = fg BY <6>2 DEF CompOf
          <6>3. Ending(h)'
            <7>1. CASE Has(e, Goodbyes) BY <1>1, <4>1, <6>4, <7>1 DEF Ending
            <7>2. CASE Has(e, Terms) BY <4>1, <7>2 DEF Ending
            <7>3. CASE Has(e, Clearing) /\ dll[h].comp \in Edits BY <1>1, <3>1, <4>1, <6>2, <6>4, <7>3 DEF Ending, CompOf
            <7> QED BY <6>1, <7>1, <7>2, <7>3
          <6> QED BY <2>1, <2>4, <6>3
        <5> QED BY <4>3, <5>1, <5>2
      <4> QED BY <2>1, <2>4, <4>2, <4>3
    <3>2. CASE t0 # Tok(h)
      <4>1. ~Has(Own(h), Terms) /\ ~Has(Own(h), Clearing) BY <3>2, HasOf
      <4>2. CASE Ending(h)
        <5>1. Ending(h)' BY <2>4, <2>9, <4>1, <4>2 DEF Ending
        <5> QED BY <2>1, <2>4, <5>1
      <4>3. CASE dll[h].comp = d
        <5>1. CompOf(h) /\ ~dll[h].on BY <1>0, <3>2
        <5> QED BY <2>2, <4>3, <5>1 DEF CompOf
      <4> QED BY <2>1, <2>4, <4>2, <4>3
    <3> QED BY <3>1, <3>2
  <2> QED BY <2>3, <2>4
<1>7. ASSUME KeptInv PROVE KeptInv'
  <2> SUFFICES ASSUME NEW g \in Hosts, dll'[g].comp \in Edits PROVE <<g, dll'[g].comp>> \in svc'.input BY DEF KeptInv
  <2>1. dll'[g].comp = dll[g].comp BY <1>1, DocsApart
  <2> QED BY <1>1, <1>7, <2>1 DEF KeptInv
<1>8. CompInv' <=> TermsOf' /\ \A g \in Hosts : CompOf(g)' BY DEF CompInv, TermsOf, CompOf
<1> QED BY <1>4, <1>5, <1>6, <1>7, <1>8

LEMMA CallbackComp ==
  ASSUME Base, Closing, CompInv, InputInv, NEW h \in Hosts, Callback(h)
  PROVE  CompInv' /\ InputInv' /\ (KeptInv => KeptInv')
<1>1. Types /\ PipeInv /\ DocInv /\ dll[h] \in Dlls /\ CompOf(h) BY Typed, CompByHost DEF Base, Idle
<1> DEFINE Goal == CompInv' /\ InputInv' /\ (KeptInv => KeptInv')
<1>2. ASSUME NEW d \in Docs, SetFocus(h, d) PROVE Goal
  <2> DEFINE e == Said(dll[h], d)
  <2>1. PICK q : SetsFocus(h, d, q) BY <1>1, <1>2, Effects DEF PipeInv
  <2>2. Calls(h, q, e, Tok(h)) /\ Gained(dll[h], q, d) /\ h = fg /\ dll[h].on /\ MayLeave(h, d) /\ doc'[h] = d
    BY <2>1 DEF SetsFocus
  <2>3. /\ q.on = dll[h].on /\ q.lastFocused = d
        /\ q.lastActive = IF d \in Transients THEN dll[h].lastActive ELSE d
        /\ q.lostSent <=> IF d \in Transients THEN dll[h].lostSent ELSE d \in Pages
        /\ q.comp = IF Moved(dll[h], d) THEN NoDoc ELSE dll[h].comp
    BY <2>2 DEF Gained
  <2>4. /\ ~Has(e, Keys) /\ ~Has(e, Terms) /\ ~Has(e, Goodbyes)
        /\ d \in Transients => ~Has(e, Clearing)
        /\ d \in Edits => (Has(e, Clearing) <=> Moved(dll[h], d) /\ ~dll[h].lostSent)
        /\ d \in Pages => Has(e, Clearing)
    BY <1>1, SaidSorts
  <2>5. dll[h].comp # NoDoc =>
          dll[h].comp = d \/ (dll[h].comp \in Edits /\ d \in Edits \cup Pages /\ dll[h].comp # d)
    BY <2>2 DEF MayLeave, Closing
  <2> HIDE DEF e
  <2>6. CASE dll[h].comp = NoDoc
    <3>1. q.comp = NoDoc BY <2>3, <2>6
    <3> QED BY <2>2, <2>4, <2>6, <3>1, CompCalls
  <2>7. CASE dll[h].comp # NoDoc /\ dll[h].comp = d
    <3>1. q.comp = d /\ ~Moved(dll[h], d) BY <1>1, <2>3, <2>7 DEF CompOf, Moved
    <3>2. d \in Edits \cup Transients BY <1>1, <2>7 DEF CompOf
    <3>3. ~Has(e, Clearing) BY <2>4, <3>1, <3>2
    <3>4. d \in Edits => q.lastActive # NoDoc /\ ~q.lostSent BY <2>3, DocsApart
    <3> QED BY <2>2, <2>3, <2>4, <2>7, <3>1, <3>3, <3>4, CompCalls
  <2>8. CASE dll[h].comp \in Edits /\ d \in Edits \cup Pages /\ dll[h].comp # d
    <3>1. dll[h].comp # NoDoc /\ Moved(dll[h], d) /\ ~dll[h].lostSent BY <1>1, <2>8, DocsApart DEF CompOf, Moved
    <3>2. q.comp = NoDoc /\ Has(e, Clearing) BY <2>3, <2>4, <2>8, <3>1
    <3> QED BY <2>2, <2>4, <2>8, <3>2, CompCalls
  <2> QED BY <2>5, <2>6, <2>7, <2>8
<1>3. ASSUME LoseFocus(h) PROVE Goal
  <2>1. PICK q, e : LosesFocus(h, q, e) BY <1>1, <1>3, Effects DEF PipeInv
  <2>2. /\ Calls(h, q, e, Tok(h)) /\ KeepsAll(dll[h], q) /\ e \in {<<>>, <<Lost("ctx_lost")>>} /\ doc'[h] = NoDoc
    BY <2>1 DEF LosesFocus
  <2>3. ~Has(e, Keys) /\ ~Has(e, Terms) /\ ~Has(e, Goodbyes) /\ ~Has(e, Clearing)
    BY <2>2, SaysNothing, SaysLost, ReasonsAre
  <2>4. /\ q.on = dll[h].on /\ q.lastFocused = dll[h].lastFocused /\ q.lastActive = dll[h].lastActive
        /\ q.lostSent = dll[h].lostSent /\ q.comp = dll[h].comp
    BY <2>2 DEF KeepsAll, Keeps
  <2>5. q.comp # NoDoc => /\ q.on /\ q.lastFocused = q.comp
                          /\ q.comp \in Edits => q.lastActive # NoDoc /\ ~q.lostSent
    BY <1>1, <2>4 DEF CompOf
  <2> QED BY <2>2, <2>3, <2>4, <2>5, CompCalls
<1>4. ASSUME KillThreadFocus(h) PROVE Goal
  <2>1. PICK q, e : LosesThread(h, q, e) BY <1>1, <1>4, Effects DEF PipeInv
  <2>2. /\ Calls(h, q, e, Tok(h)) /\ e = IF dll[h].lostSent THEN <<>> ELSE <<Lost("thread")>>
        /\ q.comp = NoDoc /\ h # fg
    BY <2>1 DEF LosesThread
  <2>3. ~Has(e, Keys) /\ ~Has(e, Terms) BY <2>2, SaysNothing, SaysLost, ReasonsAre
  <2>4. dll[h].comp = NoDoc BY <1>1, <2>2 DEF CompOf
  <2> QED BY <2>2, <2>3, <2>4, CompCalls
<1>5. ASSUME Terminate(h) PROVE Goal
  <2> DEFINE e == <<Req("terminated")>>
  <2>1. PICK q : Terminates(h, q) BY <1>1, <1>5, Effects DEF PipeInv
  <2>2. Calls(h, q, e, Tok(h)) /\ q.comp = NoDoc /\ dll[h].comp # NoDoc BY <2>1 DEF Terminates
  <2>3. ~Has(e, Keys) /\ Has(e, Terms) BY SaysTerminated
  <2> HIDE DEF e
  <2>4. h = fg BY <1>1, <2>2 DEF CompOf
  <2> QED BY <2>2, <2>3, <2>4, CompCalls
<1>6. ASSUME Deactivate(h) PROVE Goal
  <2> DEFINE e == <<Req("deactivated")>>
  <2>1. PICK q : Deactivates(h, q) BY <1>1, <1>6, Effects DEF PipeInv
  <2>2. Calls(h, q, e, Tok(h)) /\ q.comp = NoDoc BY <2>1 DEF Deactivates
  <2>3. ~Has(e, Keys) /\ ~Has(e, Terms) /\ Has(e, Goodbyes) BY SaysGoodbye
  <2> HIDE DEF e
  <2> QED BY <2>2, <2>3, CompCalls
<1>7. ASSUME Key(h) PROVE Goal
  <2> DEFINE e == <<KeyOn(doc[h])>>
  <2>1. PICK q : TypesKey(h, q) BY <1>1, <1>7, Effects DEF PipeInv
  <2>2. /\ Calls(h, q, e, Tok(h)) /\ KeepsAll(dll[h], q) /\ doc' = doc /\ doc[h] \in Docs /\ h = fg
        /\ \A t \in Tokens : t # Tok(h) => ~Has(pipe[t], Terms) /\ (t[1] = h => ~Has(pipe[t], Goodbyes))
    BY <2>1 DEF TypesKey, Docs
  <2>3. ~Has(e, Terms) /\ ~Has(e, Goodbyes) /\ ~Has(e, Clearing) BY <2>2, SaysKey
  <2>4. /\ q.on = dll[h].on /\ q.lastFocused = dll[h].lastFocused /\ q.lastActive = dll[h].lastActive
        /\ q.lostSent = dll[h].lostSent /\ q.comp = dll[h].comp
    BY <2>2 DEF KeepsAll, Keeps
  <2>5. q.comp # NoDoc => /\ q.on /\ q.lastFocused = q.comp /\ doc'[h] \in {NoDoc, q.comp}
                          /\ q.comp \in Edits => q.lastActive # NoDoc /\ ~q.lostSent
    BY <1>1, <2>2, <2>4 DEF CompOf
  <2> HIDE DEF e
  <2> QED BY <2>2, <2>3, <2>4, <2>5, CompCalls
<1>8. ASSUME Activate(h) PROVE Goal
  <2> DEFINE e == Greeting(h)
  <2>1. PICK q, t0 : Activates(h, q, t0) BY <1>1, <1>8, Effects DEF PipeInv
  <2>2. Calls(h, q, e, t0) /\ q.comp = NoDoc /\ ~dll[h].on /\ ~Has(Own(h), Silent) BY <2>1 DEF Activates
  <2>3. ~Has(e, Keys) /\ ~Has(e, Terms) BY GreetingSorts
  <2>4. dll[h].comp = NoDoc BY <1>1, <2>2 DEF CompOf
  <2> HIDE DEF e
  <2> QED BY <2>2, <2>3, <2>4, CompCalls
<1> QED BY <1>2, <1>3, <1>4, <1>5, <1>6, <1>7, <1>8 DEF Callback

LEMMA SwitchComp ==
  ASSUME Base, Patient, Closing, CompInv, InputInv, NEW x \in Hosts \cup {Outside}, Switch(x)
  PROVE  CompInv' /\ InputInv' /\ (KeptInv => KeptInv')
<1>1. Types /\ Switches(x) BY SwitchBase DEF Base
<1>2. \A t \in Tokens : ~Has(pipe[t], Keys) /\ ~Has(pipe[t], Clearing) /\ ~Has(pipe[t], Goodbyes) BY <1>1, Quiet
<1>3. /\ pipe' = pipe /\ svc' = svc /\ dll' = dll /\ fg' = x
      /\ fg \in Hosts => MayLeave(fg, NoDoc)
  BY <1>1 DEF Switches
<1>4. \A g \in Hosts : Tok(g)' = Tok(g) /\ Own(g)' = Own(g) /\ Tok(g) \in Tokens /\ Own(g) = pipe[Tok(g)]
  BY <1>1, <1>3, Typed DEF Tok, Own
<1>5. ASSUME NEW g \in Hosts PROVE dll[g].comp = NoDoc
  <2>1. CompOf(g) BY CompByHost
  <2>2. CASE g = fg BY <1>3, <2>2 DEF MayLeave, Closing
  <2>3. CASE g # fg BY <2>1, <2>3 DEF CompOf
  <2> QED BY <2>2, <2>3
<1>6. TermsOf'
  <2>1. x \in Hosts => Own(fg)' = pipe[Tok(x)] /\ Tok(x) \in Tokens
    <3> SUFFICES ASSUME x \in Hosts PROVE Own(fg)' = pipe[Tok(x)] /\ Tok(x) \in Tokens OBVIOUS
    <3>1. Tok(x) \in Tokens BY <1>4
    <3>2. Own(fg)' = pipe[Tok(x)] BY <1>3 DEF Own, Tok
    <3> QED BY <3>1, <3>2
  <2> QED BY <1>2, <1>3, <1>5, <2>1 DEF TermsOf
<1>7. \A g \in Hosts : CompOf(g)' BY <1>3, <1>5 DEF CompOf
<1>8. InputInv'
  <2> SUFFICES ASSUME Live # {}
               PROVE  \E g \in Hosts, d \in Docs : Live = {<<g, d>>} /\ (dll'[g].comp = d \/ Ending(g)')
    BY <1>3 DEF InputInv, Live
  <2>1. PICK g \in Hosts, d \in Docs : Live = {<<g, d>>} /\ (dll[g].comp = d \/ Ending(g)) BY DEF InputInv
  <2>2. dll[g].comp # d BY <1>5, DocsApart
  <2>3. Has(Own(g), Terms) BY <1>2, <1>4, <2>1, <2>2 DEF Ending
  <2>4. Ending(g)' BY <1>4, <2>3 DEF Ending
  <2> QED BY <2>1, <2>4
<1>9. KeptInv => KeptInv' BY <1>3 DEF KeptInv
<1>10. CompInv' <=> TermsOf' /\ \A g \in Hosts : CompOf(g)' BY DEF CompInv, TermsOf, CompOf
<1> QED BY <1>6, <1>7, <1>8, <1>9, <1>10

\* A handler that leaves the compositions alone and does not serve another client than the composing one.
LEMMA CompSame ==
  ASSUME Base, CompInv, NEW t \in Tokens, Handler(t), dll' = dll,
         \A h \in Hosts : h = fg /\ svc.active = Tok(h) /\ svc.focusPid = h => svc'.active = Tok(h) /\ svc'.focusPid = h
  PROVE  CompInv'
<1>1. Frame(t) /\ TermsOf /\ \A g \in Hosts : CompOf(g) BY Framed, CompByHost
<1>2. fg' = fg /\ doc' = doc BY <1>1 DEF Frame, Same
<1>3. \A g \in Hosts : Tok(g)' = Tok(g) /\ \A S : Has(Own(g)', S) => Has(Own(g), S) BY <1>1 DEF Frame
<1>4. TermsOf'
  <2> SUFFICES ASSUME fg \in Hosts, Has(Own(fg)', Keys) \/ dll[fg].comp # NoDoc, NEW u \in Tokens, u # Tok(fg)
               PROVE  ~Has(pipe'[u], Terms) /\ (u[1] = fg => ~Has(pipe'[u], Goodbyes))
    BY <1>1, <1>2 DEF TermsOf, Frame
  <2>1. Own(fg)' = pipe'[Tok(fg)] /\ Own(fg) = pipe[Tok(fg)] /\ Tok(fg) \in Tokens BY <1>1 DEF Frame
  <2>2. Has(Own(fg), Keys) \/ dll[fg].comp # NoDoc BY <1>1, <2>1 DEF Frame
  <2>3. ~Has(pipe[u], Terms) /\ (u[1] = fg => ~Has(pipe[u], Goodbyes)) BY <1>1, <2>2 DEF TermsOf
  <2> QED BY <1>1, <2>3 DEF Frame
<1>5. ASSUME NEW g \in Hosts PROVE CompOf(g)'
  <2>1. CompOf(g) BY <1>1
  <2>2. /\ Has(Own(g)', Terms) => Has(Own(g), Terms)
        /\ Has(Own(g)', Goodbyes) => Has(Own(g), Goodbyes)
        /\ Has(Own(g)', Clearing) => Has(Own(g), Clearing)
    BY <1>3
  <2> QED BY <1>2, <1>3, <2>1, <2>2 DEF CompOf
<1>6. CompInv' <=> TermsOf' /\ \A g \in Hosts : CompOf(g)' BY DEF CompInv, TermsOf, CompOf
<1> QED BY <1>4, <1>5, <1>6

\* A step inside a request does not finish it.
LEMMA Halves == ASSUME NEW t \in Tokens, Within(t, 1) \/ Within(t, 2) PROVE ~Through(t)
BY DEF Within, Through, Shortened

\* A handler that adds nothing to what counts of the input does not take away what ends it.
LEMMA InputSame ==
  ASSUME Base, InputInv, NEW t \in Tokens, Handler(t), dll' = dll, Live' \subseteq Live,
         Within(t, 1) \/ Within(t, 2) \/ Through(t),
         Through(t) /\ pipe[t][1] \in Terms \cup Goodbyes => \A d \in Docs : <<t[1], d>> \notin Live',
         \A h \in Hosts : h = fg /\ svc.active = Tok(h) /\ svc.focusPid = h =>
           /\ svc'.active = Tok(h) /\ svc'.focusPid = h
           /\ t = Tok(h) => pipe[t][1] \notin Clearing \/ pipe' = pipe
  PROVE  InputInv'
<1>1. Frame(t) BY Framed
<1>2. fg' = fg BY <1>1 DEF Frame, Same
<1>3. SUFFICES ASSUME Live' # {}
               PROVE  \E g \in Hosts, d \in Docs : Live' = {<<g, d>>} /\ (dll'[g].comp = d \/ Ending(g)')
  BY DEF InputInv
<1>4. Live # {} BY <1>3
<1>5. PICK g \in Hosts, d \in Docs : Live = {<<g, d>>} /\ (dll[g].comp = d \/ Ending(g)) BY <1>4 DEF InputInv
<1>6. Live' = {<<g, d>>} BY <1>3, <1>5
<1>7. Through(t) /\ t[1] = g => pipe[t][1] \notin Terms /\ pipe[t][1] \notin Goodbyes BY <1>6
\* What is waiting still waits, unless it was the request that ended.
<1>8. ASSUME NEW u \in Tokens, NEW S, Has(pipe[u], S), u = t /\ Through(t) => pipe[t][1] \notin S
      PROVE  Has(pipe'[u], S)
  <2>1. CASE Through(t)
    <3>1. /\ \A v \in Tokens : v = t \/ pipe'[v] = pipe[v]
          /\ Has(pipe[t], S) <=> pipe[t][1] \in S \/ Has(pipe'[t], S)
      BY <2>1 DEF Through, Shortened
    <3> QED BY <1>8, <2>1, <3>1
  <2>2. CASE Within(t, 1) \/ Within(t, 2) BY <1>8, <2>2 DEF Within
  <2> QED BY <2>1, <2>2
<1>9. ASSUME Ending(g) PROVE Ending(g)'
  <2>1. Tok(g)' = Tok(g) /\ Own(g)' = pipe'[Tok(g)] /\ Own(g) = pipe[Tok(g)] /\ Tok(g) \in Tokens /\ Tok(g)[1] = g
    BY <1>1 DEF Frame
  <2>2. CASE Has(Own(g), Terms)
    <3>1. Has(pipe'[Tok(g)], Terms) BY <1>7, <1>8, <2>1, <2>2
    <3> QED BY <2>1, <3>1 DEF Ending
  <2>3. CASE g = fg /\ svc.active = Tok(g) /\ svc.focusPid = g /\ Has(Own(g), Clearing)
    <3>1. svc'.active = Tok(g) /\ svc'.focusPid = g /\ (t = Tok(g) => pipe[t][1] \notin Clearing \/ pipe' = pipe)
      BY <2>3
    <3>2. Has(pipe'[Tok(g)], Clearing)
      <4>1. CASE pipe' = pipe BY <2>1, <2>3, <4>1
      <4>2. CASE pipe' # pipe BY <1>8, <2>1, <2>3, <3>1, <4>2
      <4> QED BY <4>1, <4>2
    <3> QED BY <1>2, <2>1, <2>3, <3>1, <3>2 DEF Ending
  <2>4. CASE g = fg /\ \E u \in Tokens : u[1] = g /\ Has(pipe[u], Goodbyes)
    <3>1. PICK u \in Tokens : u[1] = g /\ Has(pipe[u], Goodbyes) BY <2>4
    <3>2. Has(pipe'[u], Goodbyes) BY <1>7, <1>8, <3>1
    <3> QED BY <1>2, <2>4, <3>1, <3>2 DEF Ending
  <2> QED BY <1>9, <2>2, <2>3, <2>4 DEF Ending
<1> QED BY <1>5, <1>6, <1>9

\* What the handlers do to the input, seen by what counts of it.
LEMMA LiveIs ==
  /\ SameInput => Live' = Live
  /\ Emptied => Live' = {}
  /\ \A t : Orphaned(t) => Live' \subseteq Live /\ \A d \in Docs : <<t[1], d>> \notin Live'
  /\ \A x : Extended(x) => Live' \subseteq Live \cup {x}
<1>1. ASSUME NEW t, Orphaned(t), NEW d \in Docs PROVE <<t[1], d>> \notin Live'
  <2>1. <<t[1], d>>[1] = t[1] OBVIOUS
  <2> QED BY <1>1, <2>1 DEF Orphaned, Live
<1> QED BY <1>1 DEF SameInput, Emptied, Orphaned, Extended, Live

\* A key meets no other input than that of its own document.
LEMMA KeyTyped ==
  ASSUME Base, Reported, CompInv, InputInv, NEW t \in Tokens, Handler(t), HandlesKey(t)
  PROVE  /\ CompInv'
         /\ \/ Live' \subseteq {<<fg, doc[fg]>>} /\ <<fg, doc[fg]>> \in svc'.input /\ dll'[fg].comp = doc[fg]
            \/ Live' = {} /\ dll'[fg].comp = NoDoc
         /\ \A h \in Hosts : h # fg => dll'[h].comp = NoDoc
<1>1. Frame(t) /\ TermsOf /\ (\A g \in Hosts : CompOf(g)) /\ Types /\ PipeInv /\ DocInv BY Framed, CompByHost DEF Base
<1>2. /\ Through(t) /\ pipe[t][1] \in Keys /\ pipe'[t] = <<>>
      /\ fg \in Hosts /\ t = Tok(fg) /\ dll[fg].on /\ doc[fg] \in Edits \cup Transients
      /\ svc'.active = svc.active /\ svc'.focusPid = fg
      /\ \/ Extended(<<fg, doc[fg]>>) /\ dll'[fg].comp = doc[fg]
         \/ Emptied /\ dll'[fg].comp = NoDoc
  BY DEF HandlesKey
<1>3. fg' = fg /\ doc' = doc BY <1>1 DEF Frame, Same
<1>4. /\ pipe[t][1] \in Requests
      /\ Has(pipe[t], Keys)
  BY <1>1, <1>2, Heads DEF Frame
<1>5. Own(fg) = pipe[t] /\ Own(fg)' = <<>> BY <1>1, <1>2 DEF Frame
<1>6. \A S : ~Has(<<>>, S) BY SaysNothing
<1>7. ~Has(pipe[t], Terms) /\ ~Has(pipe[t], Clearing) /\ ~Has(pipe[t], Gains) /\ ~Has(pipe[t], Goodbyes)
  <2>1. pipe[t][1] \notin Terms /\ pipe[t][1] \notin Clearing /\ pipe[t][1] \notin Gains /\ pipe[t][1] \notin Goodbyes
    BY <1>2, <1>4, Apart
  <2>2. \A S : Has(pipe[t], S) <=> pipe[t][1] \in S \/ Has(pipe'[t], S) BY <1>2 DEF Through, Shortened
  <2> QED BY <1>2, <1>6, <2>1, <2>2
<1>8. \A u \in Tokens : u # t => ~Has(pipe[u], Terms) /\ (u[1] = fg => ~Has(pipe[u], Goodbyes)) BY <1>1, <1>2, <1>4, <1>5 DEF TermsOf
<1>9. \A h \in Hosts : h # fg => dll[h].comp = NoDoc BY <1>1 DEF CompOf
<1>10. \A h \in Hosts : h # fg => dll'[h].comp = NoDoc
  <2>1. PICK c \in Docs \cup {NoDoc} : dll' = [dll EXCEPT ![fg].comp = c] BY DEF HandlesKey
  <2>2. dll = [h \in Hosts |-> dll[h]] BY <1>1, Typed
  <2>3. \A h \in Hosts : h # fg => dll'[h] = dll[h] BY <2>1, <2>2
  <2> QED BY <1>9, <2>3
<1>11. doc[fg] # NoDoc /\ doc[fg] \in Docs BY <1>2, DocsApart
<1>12. Live \subseteq {<<fg, doc[fg]>>}
  <2> SUFFICES ASSUME Live # {} PROVE Live = {<<fg, doc[fg]>>} OBVIOUS
  <2>1. PICK g \in Hosts, d \in Docs : Live = {<<g, d>>} /\ (dll[g].comp = d \/ Ending(g)) BY DEF InputInv
  <2>2. ~Ending(g)
    <3>1. Own(g) = pipe[Tok(g)] /\ Tok(g) \in Tokens BY <1>1 DEF Frame
    <3> QED BY <1>2, <1>7, <1>8, <3>1 DEF Ending
  <2>3. d # NoDoc /\ dll[g].comp = d BY <2>1, <2>2, DocsApart
  <2>4. g = fg /\ doc[fg] = d BY <1>1, <1>11, <2>3 DEF CompOf
  <2> QED BY <2>1, <2>4
<1>13. \/ Live' \subseteq {<<fg, doc[fg]>>} /\ <<fg, doc[fg]>> \in svc'.input /\ dll'[fg].comp = doc[fg]
       \/ Live' = {} /\ dll'[fg].comp = NoDoc
  <2>1. CASE Extended(<<fg, doc[fg]>>) /\ dll'[fg].comp = doc[fg]
    <3>1. Live' \subseteq Live \cup {<<fg, doc[fg]>>} BY <2>1, LiveIs
    <3>2. <<fg, doc[fg]>> \in svc'.input BY <2>1 DEF Extended
    <3> QED BY <1>12, <2>1, <3>1, <3>2
  <2>2. CASE Emptied /\ dll'[fg].comp = NoDoc BY <2>2, LiveIs
  <2> QED BY <1>2, <2>1, <2>2
<1>14. TermsOf'
  <2>1. Tok(fg)' = t BY <1>1, <1>2 DEF Frame
  <2>2. \A u \in Tokens : u # t => ~Has(pipe'[u], Terms) /\ (u[1] = fg => ~Has(pipe'[u], Goodbyes)) BY <1>1, <1>8 DEF Frame
  <2> QED BY <1>3, <2>1, <2>2 DEF TermsOf
<1>15. ASSUME NEW h \in Hosts PROVE CompOf(h)'
  <2>1. CASE h # fg BY <1>10, <2>1 DEF CompOf
  <2>2. CASE h = fg /\ dll'[fg].comp = NoDoc BY <2>2 DEF CompOf
  <2>3. CASE h = fg /\ dll'[fg].comp # NoDoc
    <3>1. dll'[fg].comp = doc[fg] BY <1>2, <2>3
    <3>2. /\ dll'[fg].on /\ dll'[fg].lastFocused = doc[fg] /\ (dll'[fg].lostSent <=> dll[fg].lostSent)
          /\ dll'[fg].lastActive = dll[fg].lastActive /\ Tok(h)' = Tok(fg)
      BY <1>1, <1>2, <1>11, <2>3 DEF Frame, DocInv
    <3>3. Own(h)' = <<>>
      <4>1. Own(h)' = pipe'[Tok(h)] BY <1>1 DEF Frame
      <4> QED BY <1>2, <2>3, <4>1
    <3>4. doc[fg] \in Edits => /\ dll[fg].lastActive # NoDoc /\ ~dll[fg].lostSent
                               /\ svc'.active = Tok(fg) /\ svc'.focusPid = fg
      <4> SUFFICES ASSUME doc[fg] \in Edits
                   PROVE  dll[fg].lastActive # NoDoc /\ ~dll[fg].lostSent /\ svc'.active = Tok(fg) /\ svc'.focusPid = fg
        OBVIOUS
      <4>1. svc.active = Tok(fg) BY <1>2, <1>5, <1>7 DEF Reported, Served
      <4>2. dll[fg].lastActive # NoDoc /\ ~dll[fg].lostSent BY <1>1, <1>2, <1>11 DEF DocInv
      <4> QED BY <1>2, <4>1, <4>2
    <3>5. ~Has(Own(h)', Terms) /\ ~Has(Own(h)', Goodbyes) /\ ~Has(Own(h)', Clearing) BY <1>6, <3>3
    <3> QED BY <1>2, <1>3, <2>3, <3>1, <3>2, <3>4, <3>5 DEF CompOf
  <2> QED BY <2>1, <2>2, <2>3
<1>16. CompInv' <=> TermsOf' /\ \A g \in Hosts : CompOf(g)' BY DEF CompInv, TermsOf, CompOf
<1> QED BY <1>10, <1>13, <1>14, <1>15, <1>16

LEMMA HandlerComp ==
  ASSUME Base, Reported, CompInv, InputInv, NEW t \in Tokens, Handler(t)
  PROVE  CompInv' /\ InputInv'
<1>1. Types /\ PipeInv /\ Frame(t) BY Framed DEF Base
<1>2. /\ pipe[t] # <<>> /\ pipe[t][1] \in Requests /\ t[1] \in Hosts
      /\ pipe[t][1] \in Silent => t = Tok(t[1])
      /\ pipe[t][1] \in Gains \cup Keys => fg \in Hosts /\ t = Tok(fg) /\ t[1] = fg
  BY <1>1, Heads DEF Frame
<1>3. \A h \in Hosts : Tok(h)[1] = h /\ Tok(h) \in Tokens BY <1>1 DEF Frame
<1>4. Live' = {} => InputInv' BY DEF InputInv
<1>5. ASSUME AnswerGained(t) \/ PassStale(t) PROVE CompInv' /\ InputInv'
  <2>1. Within(t, 1) /\ SameClient /\ SameInput /\ dll' = dll /\ pipe' = pipe
    BY <1>1, <1>5, HandlerEffects DEF AnswersGained, PassesStale, Within, SameClient, SameInput
  <2>2. ~Through(t) BY <1>1, <2>1, Halves
  <2> QED BY <2>1, <2>2, LiveIs, CompSame, InputSame DEF SameClient
<1>6. ASSUME GainedState(t) PROVE CompInv' /\ InputInv'
  <2>1. /\ Within(t, 2) /\ dll' = dll /\ pipe' = pipe /\ pipe[t][1] \in Gains
        /\ svc'.active = svc.active /\ svc'.focusPid = t[1] /\ SameInput
    BY <1>1, <1>6, HandlerEffects DEF GainsState, Within
  <2>2. t[1] = fg /\ ~Through(t) BY <1>1, <1>2, <2>1, Halves
  <2> QED BY <2>1, <2>2, LiveIs, CompSame, InputSame
<1>7. ASSUME GainedToken(t) PROVE CompInv' /\ InputInv'
  <2>1. /\ Through(t) /\ dll' = dll /\ pipe[t][1] \in Gains
        /\ svc'.active = t /\ svc'.focusPid = svc.focusPid /\ SameInput
    BY <1>1, <1>7, HandlerEffects DEF GainsToken
  <2>2. t = Tok(fg) /\ pipe[t][1] \notin Terms /\ pipe[t][1] \notin Clearing /\ pipe[t][1] \notin Goodbyes
    BY <1>2, <2>1, Apart
  <2> QED BY <2>1, <2>2, LiveIs, CompSame, InputSame
<1>8. ASSUME DropStale(t) PROVE CompInv' /\ InputInv'
  <2>1. /\ Through(t) /\ dll' = dll /\ SameClient /\ pipe[t][1] \in Leaves /\ t # svc.active
        /\ IF pipe[t][1] \in Goodbyes THEN Orphaned(t) ELSE SameInput
    BY <1>1, <1>8, HandlerEffects DEF DropsStale
  <2>2. pipe[t][1] \notin Terms BY <1>2, <2>1, Apart
  <2>3. Live' \subseteq Live /\ (pipe[t][1] \in Goodbyes => \A d \in Docs : <<t[1], d>> \notin Live') BY <2>1, LiveIs
  <2> QED BY <2>1, <2>2, <2>3, CompSame, InputSame DEF SameClient
<1>9. ASSUME LostState(t) PROVE CompInv' /\ InputInv'
  <2>1. /\ Through(t) /\ dll' = dll /\ pipe[t][1] \in Leaves /\ SameClient /\ pipe[t][1] \notin Goodbyes
        /\ IF pipe[t][1] \in Clearing THEN Emptied ELSE SameInput
    BY <1>1, <1>9, HandlerEffects DEF LosesState
  <2>2. pipe[t][1] \notin Terms BY <1>2, <2>1, Apart
  <2>3. CompInv' BY <2>1, CompSame DEF SameClient
  <2>4. CASE pipe[t][1] \in Clearing BY <1>4, <2>1, <2>3, <2>4, LiveIs
  <2>5. CASE pipe[t][1] \notin Clearing BY <2>1, <2>2, <2>3, <2>5, LiveIs, InputSame DEF SameClient
  <2> QED BY <2>4, <2>5
<1>10. ASSUME DeactivatedState(t) PROVE CompInv' /\ InputInv'
  <2>1. dll' = dll /\ SameClient /\ Emptied BY <1>1, <1>10, HandlerEffects DEF DeactivatesState
  <2> QED BY <1>4, <2>1, LiveIs, CompSame DEF SameClient
<1>14. ASSUME HandleTerminated(t) PROVE CompInv' /\ InputInv'
  <2>1. Through(t) /\ dll' = dll /\ SameClient /\ pipe[t][1] \in Terms /\ (Emptied \/ Orphaned(t))
    BY <1>1, <1>14, HandlerEffects DEF HandlesTerminated
  <2>2. CompInv' BY <2>1, CompSame DEF SameClient
  <2>3. pipe[t][1] \notin Clearing BY <1>2, <2>1, Apart
  <2>4. Live' \subseteq Live /\ \A d \in Docs : <<t[1], d>> \notin Live' BY <2>1, LiveIs
  <2>5. InputInv' BY <2>1, <2>3, <2>4, InputSame DEF SameClient
  <2> QED BY <2>2, <2>5
<1>11. ASSUME DropBackground(t) \/ ActivatedState(t) PROVE CompInv' /\ InputInv'
  <2>1. Through(t) /\ dll' = dll /\ SameClient /\ SameInput /\ pipe[t][1] \in Begun
    BY <1>1, <1>11, HandlerEffects DEF DropsBackground, TakesState, SameClient, SameInput
  <2>2. pipe[t][1] \notin Terms /\ pipe[t][1] \notin Clearing /\ pipe[t][1] \notin Goodbyes BY <1>2, <2>1, Apart
  <2> QED BY <2>1, <2>2, LiveIs, CompSame, InputSame DEF SameClient
<1>12. ASSUME ActivatedToken(t) PROVE CompInv' /\ InputInv'
  <2>1. /\ Within(t, 1) /\ dll' = dll /\ pipe' = pipe /\ pipe[t][1] \in Begun /\ ~Background(t)
        /\ svc'.active = t /\ svc'.focusPid = t[1] /\ SameInput
    BY <1>1, <1>12, HandlerEffects DEF TakesToken, Within
  <2>2. t = Tok(t[1]) BY <1>2, <2>1, Apart
  <2>3. \A h \in Hosts : h = fg /\ svc.active = Tok(h) /\ svc.focusPid = h => t[1] = h
    <3> SUFFICES ASSUME NEW h \in Hosts, h = fg, svc.active = Tok(h), svc.focusPid = h, t[1] # h PROVE FALSE OBVIOUS
    <3>1. svc.active[1] = h /\ svc.active # NoToken BY <1>1, <1>3, Typed
    <3>2. Background(t) BY <3>1 DEF Background
    <3> QED BY <2>1, <3>2
  <2>4. \A h \in Hosts : h = fg /\ svc.active = Tok(h) /\ svc.focusPid = h => svc'.active = Tok(h) /\ svc'.focusPid = h
    BY <2>1, <2>2, <2>3
  <2>5. ~Through(t) BY <1>1, <2>1, Halves
  <2> QED BY <2>1, <2>4, <2>5, LiveIs, CompSame, InputSame
<1>13. ASSUME HandleKey(t) PROVE CompInv' /\ InputInv'
  <2>1. HandlesKey(t) BY <1>1, <1>13, HandlerEffects
  <2>2. /\ CompInv'
        /\ \/ Live' \subseteq {<<fg, doc[fg]>>} /\ dll'[fg].comp = doc[fg]
           \/ Live' = {}
    BY <2>1, KeyTyped
  <2>3. fg \in Hosts /\ doc[fg] \in Docs BY <2>1 DEF HandlesKey, Docs
  <2> QED BY <2>2, <2>3 DEF InputInv
<1> QED BY <1>5, <1>6, <1>7, <1>8, <1>9, <1>10, <1>11, <1>12, <1>13, <1>14 DEF Handler

\* With one handler at a time, none empties the input of an editable document under its composition.
LEMMA HandlerKept ==
  ASSUME Base, Alone, Reported, CompInv, InputInv, KeptInv, NEW t \in Tokens, Handler(t)
  PROVE  KeptInv'
<1>1. Types /\ PipeInv /\ Frame(t) /\ TermsOf /\ \A g \in Hosts : CompOf(g) BY Framed, CompByHost DEF Base
<1>2. pipe[t] # <<>> /\ \A S : pipe[t][1] \in S => Has(pipe[t], S) BY <1>1, Heads DEF Frame
<1>3. \A g \in Hosts : Own(g) = pipe[Tok(g)] /\ Tok(g) \in Tokens BY <1>1 DEF Frame
<1>4. dll' = dll /\ svc'.input = svc.input => KeptInv' BY DEF KeptInv
\* Whose composition a request could take away.
<1>5. ASSUME NEW h \in Hosts, dll[h].comp \in Edits
      PROVE  /\ half[t] = 1 /\ pipe[t][1] \in Leaves => pipe[t][1] \notin Clearing /\ pipe[t][1] \notin Goodbyes
             /\ pipe[t][1] \notin Terms
  <2>1. dll[h].comp # NoDoc /\ h = fg /\ CompOf(h) BY <1>1, <1>5, DocsApart DEF CompOf
  <2>2. ASSUME half[t] = 1, pipe[t][1] \in Leaves PROVE pipe[t][1] \notin Clearing /\ pipe[t][1] \notin Goodbyes
    <3>1. svc.active = Tok(h) BY <1>5, <2>1 DEF CompOf
    <3>2. svc.active \in {NoToken, t} /\ NoToken \notin Tokens BY <1>1, <2>2, Typed DEF Alone
    <3>3. t = Tok(h) BY <1>3, <3>1, <3>2
    <3> QED BY <1>2, <1>3, <2>1, <3>3 DEF CompOf
  <2>3. pipe[t][1] \notin Terms
    <3>1. CASE t = Tok(h) BY <1>2, <1>3, <2>1, <3>1 DEF CompOf
    <3>2. CASE t # Tok(h) BY <1>1, <1>2, <2>1, <3>2 DEF TermsOf
    <3> QED BY <3>1, <3>2
  <2> QED BY <2>2, <2>3
<1>6. ASSUME AnswerGained(t) \/ PassStale(t) \/ GainedState(t) \/ GainedToken(t) \/ DropStale(t)
             \/ DropBackground(t) \/ ActivatedToken(t) \/ ActivatedState(t)
      PROVE  KeptInv'
  <2>1. dll' = dll /\ svc'.input = svc.input
    BY <1>1, <1>6, HandlerEffects
       DEF AnswersGained, PassesStale, GainsState, GainsToken, DropsStale, DropsBackground, TakesToken, TakesState, Within,
           SameInput, Orphaned
  <2> QED BY <1>4, <2>1
<1>7. ASSUME LostState(t) PROVE KeptInv'
  <2>1. /\ dll' = dll /\ half[t] = 1 /\ pipe[t][1] \in Leaves
        /\ IF pipe[t][1] \in Clearing THEN Emptied ELSE SameInput
    BY <1>1, <1>7, HandlerEffects DEF LosesState
  <2> QED BY <1>5, <2>1 DEF KeptInv, SameInput
<1>8. ASSUME DeactivatedState(t) PROVE KeptInv'
  <2>1. dll' = dll /\ half[t] = 1 /\ pipe[t][1] \in Goodbyes BY <1>1, <1>8, HandlerEffects DEF DeactivatesState
  <2>2. pipe[t][1] \in Leaves
    <3>1. pipe[t][1] \in Requests BY <1>1, <1>2, Heads
    <3> QED BY <2>1, <3>1, Apart
  <2> QED BY <1>5, <2>1, <2>2 DEF KeptInv
<1>9. ASSUME HandleTerminated(t) PROVE KeptInv'
  <2>1. dll' = dll /\ pipe[t][1] \in Terms BY <1>1, <1>9, HandlerEffects DEF HandlesTerminated
  <2> QED BY <1>5, <2>1 DEF KeptInv
<1>10. ASSUME HandleKey(t) PROVE KeptInv'
  <2>1. HandlesKey(t) BY <1>1, <1>10, HandlerEffects
  <2>2. /\ \/ <<fg, doc[fg]>> \in svc'.input /\ dll'[fg].comp = doc[fg]
           \/ dll'[fg].comp = NoDoc
        /\ \A h \in Hosts : h # fg => dll'[h].comp = NoDoc
    BY <2>1, KeyTyped
  <2> QED BY <2>2, DocsApart DEF KeptInv
<1> QED BY <1>6, <1>7, <1>8, <1>9, <1>10 DEF Handler

--------------------------------------------------------------------------------
(* The inductive invariant, and what follows from it.                        *)

LEMMA InitInvariant == Init => IInv
<1> SUFFICES ASSUME Init PROVE IInv OBVIOUS
<1>1. Base BY InitBase
<1>2. /\ fg = Outside /\ leaving = {} /\ \A t \in Tokens : pipe[t] = <<>> /\ half[t] = 0
      /\ svc = [active |-> NoToken, ime |-> FALSE, edit |-> FALSE, noEdit |-> FALSE, input |-> {},
              orphans |-> {}, focusPid |-> Outside, render |-> Outside]
  BY DEF Init
<1>3. fg \notin Hosts /\ ~Served BY <1>2 DEF Served
<1>4. \A h \in Hosts : dll[h].comp = NoDoc BY DEF Init, Fresh
<1>5. \A S, T : \A t \in Tokens : ~Has(pipe[t], S) /\ ~After(pipe[t], S, T) BY <1>2, SaysNothing
<1>6. Alone /\ ServedInv /\ Reported BY <1>2, <1>3 DEF Alone, ServedInv, Reported
<1>7. Dropped /\ ToolbarInv
  <2>1. \A t \in Tokens : half[t] # 1 /\ ~Has(pipe[t], Begun) BY <1>2, <1>5
  <2>4. Dropped BY <2>1 DEF Dropped
  <2>2. ~svc.ime BY <1>2
  <2>3. ToolbarInv BY <1>5, <2>2 DEF ToolbarInv
  <2> QED BY <2>3, <2>4
<1>8. CompInv /\ InputInv /\ KeptInv BY <1>2, <1>3, <1>4, DocsApart DEF CompInv, InputInv, Live, KeptInv
<1> QED BY <1>1, <1>6, <1>7, <1>8 DEF IInv

LEMMA CallbackKeeps ==
  ASSUME IInv, NEW h \in Hosts, Callback(h)
  PROVE  IInv'
<1>1. Base /\ Base' BY CallbackBase DEF IInv
<1>2. Orderly => Alone' /\ ServedInv' BY <1>1, CallbackServed DEF IInv
<1>3. Orderly \/ Inside => Reported' BY <1>1, CallbackServed DEF IInv
<1>4. Inside => Dropped' /\ ToolbarInv' BY <1>1, CallbackToolbar DEF IInv
<1>5. Closing /\ (Orderly \/ Inside) => CompInv' /\ InputInv' BY <1>1, CallbackComp DEF IInv
<1>6. Closing /\ Orderly => KeptInv' BY <1>1, CallbackComp DEF IInv
<1> QED BY <1>1, <1>2, <1>3, <1>4, <1>5, <1>6 DEF IInv, Orderly, Inside, Closing

LEMMA HandlerKeeps ==
  ASSUME IInv, NEW t \in Tokens, Handler(t)
  PROVE  IInv'
<1>1. Base /\ Base' BY HandlerBase DEF IInv
<1>2. Orderly => Alone' /\ ServedInv' BY <1>1, HandlerServed DEF IInv
<1>3. Orderly \/ Inside => Reported' BY <1>1, HandlerReported DEF IInv
<1>4. Inside => Dropped' /\ ToolbarInv' BY <1>1, HandlerDropped, HandlerToolbar DEF IInv
<1>5. Closing /\ (Orderly \/ Inside) => CompInv' /\ InputInv' BY <1>1, HandlerComp DEF IInv
<1>6. Closing /\ Orderly => KeptInv' BY <1>1, HandlerKept DEF IInv
<1> QED BY <1>1, <1>2, <1>3, <1>4, <1>5, <1>6 DEF IInv, Orderly, Inside, Closing

LEMMA SwitchKeeps ==
  ASSUME IInv, Patient, NEW x \in Hosts \cup {Outside}, Switch(x)
  PROVE  IInv'
<1>1. Base /\ Base' BY SwitchBase DEF IInv
<1>2. Reported' /\ Alone' /\ ServedInv' BY <1>1, SwitchServed
<1>3. Inside => Dropped' /\ ToolbarInv' BY <1>1, SwitchToolbar DEF IInv
<1>4. Closing /\ (Orderly \/ Inside) => CompInv' /\ InputInv' BY <1>1, SwitchComp DEF IInv
<1>5. Closing /\ Orderly => KeptInv' BY <1>1, SwitchComp DEF IInv
<1> QED BY <1>1, <1>2, <1>3, <1>4, <1>5 DEF IInv, Orderly, Inside, Closing

LEMMA StutterKeeps ==
  ASSUME IInv, UNCHANGED vars
  PROVE  IInv'
<1>1. /\ fg' = fg /\ leaving' = leaving /\ doc' = doc /\ dll' = dll /\ pipe' = pipe /\ half' = half
      /\ svc' = svc /\ used' = used
  BY DEF vars
<1>2. Types' <=> Types BY <1>1 DEF Types, TypeOK
<1>3. PipeInv' <=> PipeInv BY <1>1 DEF PipeInv, HalfInv, Own, Tok
<1>4. DocInv' <=> DocInv BY <1>1 DEF DocInv
<1>5. Alone' <=> Alone BY <1>1 DEF Alone, Serving
<1>6. ServedInv' <=> ServedInv BY <1>1 DEF ServedInv, Served, Serving, Own, Tok
<1>7. Reported' <=> Reported BY <1>1 DEF Reported, Served, Own, Tok
<1>8. Dropped' <=> Dropped BY <1>1 DEF Dropped
<1>9. ToolbarInv' <=> ToolbarInv BY <1>1 DEF ToolbarInv, Here, Tok
<1>10. CompInv' <=> CompInv BY <1>1 DEF CompInv, Own, Tok
<1>11. InputInv' <=> InputInv BY <1>1 DEF InputInv, Live, Ending, Own, Tok
<1>12. KeptInv' <=> KeptInv BY <1>1 DEF KeptInv
<1> QED BY <1>2, <1>3, <1>4, <1>5, <1>6, <1>7, <1>8, <1>9, <1>10, <1>11, <1>12
        DEF IInv, Base, Orderly, Inside, Closing

\* While the user never leaves a host before what it sent has been handled, the
\* inductive invariant holds in every state, each part of it where the faults it
\* does not outlive are absent.
THEOREM Invariant == ASSUME Patient PROVE Spec => []IInv
<1>1. Init => IInv BY InitInvariant
<1>2. IInv /\ [Next]_vars => IInv'
  <2> SUFFICES ASSUME IInv, [Next]_vars PROVE IInv' OBVIOUS
  <2>1. ASSUME NEW x \in Hosts \cup {Outside}, Switch(x) PROVE IInv' BY <2>1, SwitchKeeps
  <2>2. ASSUME NEW h \in Hosts, Callback(h) PROVE IInv' BY <2>2, CallbackKeeps
  <2>3. ASSUME NEW t \in Tokens, Handler(t) PROVE IInv' BY <2>3, HandlerKeeps
  <2>4. CASE UNCHANGED vars BY <2>4, StutterKeeps
  <2> QED BY <2>1, <2>2, <2>3, <2>4 DEF Next
<1> QED BY <1>1, <1>2, PTL DEF Spec

\* The fields of the DLLs, the connections and the state of the service keep their
\* types, whatever goes wrong.
THEOREM TypeCorrect == Spec => []TypeOK
<1>1. Init => Types /\ HalfInv BY InitBase DEF Base, PipeInv
<1>2. Types /\ HalfInv /\ [Next]_vars => (Types /\ HalfInv)'
  <2> SUFFICES ASSUME Types, HalfInv, [Next]_vars PROVE Types' /\ HalfInv' OBVIOUS
  <2>1. ASSUME NEW x \in Hosts \cup {Outside}, Switch(x) PROVE Types' /\ HalfInv' BY <2>1, SwitchTypes
  <2>2. ASSUME NEW h \in Hosts, Callback(h) PROVE Types' /\ HalfInv' BY <2>2, CallbackTypes
  <2>3. ASSUME NEW t \in Tokens, Handler(t) PROVE Types' /\ HalfInv' BY <2>3, HandlerTypes
  <2>4. CASE UNCHANGED vars BY <2>4 DEF vars, Types, TypeOK, HalfInv
  <2> QED BY <2>1, <2>2, <2>3, <2>4 DEF Next
<1>3. Types => TypeOK BY DEF Types
<1> QED BY <1>1, <1>2, <1>3, PTL DEF Spec

\* Nothing waits on a connection.
LEMMA SettledIs ==
  ASSUME IInv, Settled
  PROVE  /\ leaving = {} /\ \A S, T : \A t \in Tokens : half[t] = 0 /\ ~Has(pipe[t], S) /\ ~After(pipe[t], S, T)
         /\ \A h \in Hosts : Tok(h) \in Tokens /\ Own(h) = pipe[Tok(h)]
<1>1. Types /\ PipeInv BY DEF IInv, Base
<1>2. leaving = {} /\ \A t \in Tokens : pipe[t] = <<>> BY DEF Settled
<1>3. \A t \in Tokens : half[t] = 0
  <2>1. \A t \in Tokens : half[t] \in 0 .. 2 /\ ~(half[t] > 0) BY <1>1, <1>2, Typed DEF PipeInv, HalfInv
  <2> QED BY <2>1
<1>4. \A S, T : \A t \in Tokens : ~Has(pipe[t], S) /\ ~After(pipe[t], S, T) BY <1>2, SaysNothing
<1> QED BY <1>1, <1>2, <1>3, <1>4, Typed DEF Own

\* Unless two connections are handled at the same moment or the user leaves a host
\* before its reports are handled: whoever types into an editable document of the
\* foreground process is the active client of an active service, in whatever order the
\* reports of the other hosts arrived (is_stale_focus_event, is_background_client).
THEOREM FocusedServed ==
  ASSUME "fast_switch" \notin Faults, "overlap" \notin Faults
  PROVE  Spec => []FocusedIsServed
<1>1. IInv => FocusedIsServed
  <2> SUFFICES ASSUME IInv, Settled, Served, doc[fg] \in Edits
               PROVE  svc.active = Tok(fg) /\ svc.ime /\ svc.edit /\ ~svc.noEdit
    BY DEF FocusedIsServed
  <2>1. fg \in Hosts /\ \A S, T : ~Has(Own(fg), S) /\ ~After(Own(fg), S, T) BY SettledIs DEF Served
  <2>2. ServedInv /\ Reported BY DEF IInv, Orderly
  <2>3. svc.active = Tok(fg) BY <2>1, <2>2 DEF Reported
  <2>4. Serving BY <2>1, <2>2 DEF ServedInv
  <2> QED BY <2>3, <2>4 DEF Serving
<1>2. Spec => []IInv BY Invariant DEF Patient
<1> QED BY <1>1, <1>2, PTL

\* Unless a DLL is activated in the background while nobody is served, or the user
\* leaves a host before its reports are handled: the toolbar is not shown over a process
\* that the input method does not serve, nor over a page without an editable context
\* (FocusLostReason, KillThreadFocus), even with connections handled at the same moment.
THEOREM ToolbarServed ==
  ASSUME "fast_switch" \notin Faults, "activated_outside" \notin Faults
  PROVE  Spec => []ToolbarOnlyServed
<1>1. IInv => ToolbarOnlyServed
  <2> SUFFICES ASSUME IInv, Settled, svc.ime, svc.edit PROVE Served /\ doc[fg] \notin Pages
    BY DEF ToolbarOnlyServed
  <2>1. ToolbarInv /\ DocInv BY DEF IInv, Base, Inside
  <2>2. leaving = {} /\ \A S : \A t \in Tokens : half[t] = 0 /\ ~Has(pipe[t], S) BY SettledIs
  <2>3. svc.active \in Tokens /\ Here(svc.active) BY <2>1, <2>2 DEF ToolbarInv
  <2>4. svc.active[1] \in Hosts BY <2>3, Typed DEF IInv, Base
  <2>5. fg \in Hosts /\ dll[fg].on /\ ~dll[fg].lostSent BY <2>2, <2>3, <2>4 DEF Here
  <2>6. doc[fg] \notin Pages BY <2>1, <2>5, DocsApart DEF DocInv
  <2> QED BY <2>5, <2>6 DEF Served
<1>2. Spec => []IInv BY Invariant DEF Patient
<1> QED BY <1>1, <1>2, PTL

\* Unless a host lets the focus go with its composition open, the user leaves a host
\* before its reports are handled, or handling at the same moment and an activation in
\* the background come together: whatever hosts the service may draw for, the one input
\* buffer holds keys of two documents only where the service did not follow the report
\* that the composition of the one had ended (FocusLostReason::clears_input,
\* handle_composition_terminated).
THEOREM Mixing ==
  ASSUME "fast_switch" \notin Faults, "keeps_composition" \notin Faults,
         "overlap" \notin Faults \/ "activated_outside" \notin Faults
  PROVE  Spec => []NoMixing
<1>1. IInv => NoMixing
  <2> SUFFICES ASSUME IInv PROVE Cardinality(Live) <= 1 BY DEF NoMixing, Live
  <2>1. InputInv BY DEF IInv, Closing, Orderly, Inside
  <2>2. CASE Live = {}
    <3>1. Cardinality({}) = 0 BY FS_EmptySet
    <3> QED BY <2>2, <3>1
  <2>3. CASE Live # {}
    <3>1. PICK h \in Hosts, d \in Docs : Live = {<<h, d>>} BY <2>1, <2>3 DEF InputInv
    <3>2. Cardinality({<<h, d>>}) = 1 BY FS_Singleton
    <3> QED BY <3>1, <3>2
  <2> QED BY <2>2, <2>3
<1>2. Spec => []IInv BY Invariant DEF Patient
<1> QED BY <1>1, <1>2, PTL

\* Unless two connections are handled at the same moment, a host lets the focus go with
\* its composition open or the user leaves a host before its reports are handled: what is
\* being composed in the focused editable document is what the service has, orphans aside;
\* neither a late report of another host nor a focus that flickers (Excel) takes it away.
THEOREM CompositionKept ==
  ASSUME "fast_switch" \notin Faults, "keeps_composition" \notin Faults, "overlap" \notin Faults
  PROVE  Spec => []InputKept
<1>1. IInv => InputKept
  <2> SUFFICES ASSUME IInv, Settled, Served, doc[fg] \in Edits, dll[fg].comp = doc[fg]
               PROVE  <<fg, doc[fg]>> \in svc.input /\ Live \subseteq {<<fg, doc[fg]>>}
    BY DEF InputKept, Live
  <2>1. KeptInv /\ InputInv /\ CompInv BY DEF IInv, Closing, Orderly
  <2>2. fg \in Hosts /\ <<fg, doc[fg]>> \in svc.input BY <2>1 DEF KeptInv, Served
  <2>3. ASSUME NEW h \in Hosts PROVE ~Ending(h)
    <3>1. \A S, T : \A t \in Tokens : half[t] = 0 /\ ~Has(pipe[t], S) /\ ~After(pipe[t], S, T) BY SettledIs
    <3>2. Own(h) = pipe[Tok(h)] /\ Tok(h) \in Tokens BY SettledIs
    <3> QED BY <3>1, <3>2 DEF Ending
  <2>4. ASSUME Live # {} PROVE Live = {<<fg, doc[fg]>>}
    <3>1. PICK h \in Hosts, d \in Docs : Live = {<<h, d>>} /\ (dll[h].comp = d \/ Ending(h))
      BY <2>1, <2>4 DEF InputInv
    <3>2. dll[h].comp = d /\ d # NoDoc BY <2>3, <3>1, FocusAssumption DEF Docs
    <3>3. h = fg BY <2>1, <3>2 DEF CompInv
    <3> QED BY <3>1, <3>2, <3>3
  <2> QED BY <2>2, <2>4
<1>2. Spec => []IInv BY Invariant DEF Patient
<1> QED BY <1>1, <1>2, PTL
================================================================================
