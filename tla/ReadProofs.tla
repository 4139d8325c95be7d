------------------------------- MODULE ReadProofs -------------------------------
(***************************************************************************)
(* What readers are given: of Overlay, that the segment, the lookups, the  *)
(* streaming merge and the limited prefix query give what the sequence of  *)
(* operations means, for any codes, texts, operations and number of them;  *)
(* and of ReaderPool, in the last part, what holds for any threads, writers*)
(* and bounds.                                                             *)
(*                                                                         *)
(* Overlay, in this order: least numbers and functions defined along them; *)
(* apply_ops against Meaning (MeaningStep, AppliedMeans); the orders,      *)
(* sorting and freeze (RanksAre, RankedIs, FreezeIs); what the lookups of  *)
(* the delta find (FindIs); overlay_entries for many keys at once          *)
(* (OverlayMeans); the invariant and its steps; the loop of the merge      *)
(* (MergeStep, MergeGroupIs) and the blocks it is made of (BlockIs,        *)
(* StreamIs); the part of the segment a prefix query reads (BestIs) and why*)
(* it is enough (PartStandsIn, StandInShows).                              *)
(***************************************************************************)
EXTENDS Overlay, ReaderPool, FiniteSetTheorems, SequenceTheorems, WellFoundedInduction, TLAPS

(* The library states well-founded minima without operators: with them,    *)
(* and with sets instead of predicates, induction over the history is      *)
(* first-order.                                                            *)
LEMMA LeastNumber ==
  ASSUME NEW T \in SUBSET Nat, T # {}
  PROVE  \E x \in T : \A y \in T : x <= y
<1> DEFINE R == {p \in Nat \X Nat : p[1] < p[2]}
<1>1. IsWellFoundedOn(R, Nat)
  BY NatLessThanWellFounded DEF OpToRel
<1>2. PICK x \in T : \A y \in T : ~(<<y, x>> \in R)
  <2> HIDE DEF R
  <2> QED
    BY <1>1, WFMin
<1>3. ASSUME NEW y \in T PROVE x <= y
  <2>1. <<y, x>> \notin R /\ x \in Nat /\ y \in Nat
    BY <1>2
  <2> QED
    BY <2>1
<1> QED
  BY <1>3

LEMMA SetInduction ==
  ASSUME NEW T, 0 \in T, \A n \in Nat : n \in T => n + 1 \in T
  PROVE  \A n \in Nat : n \in T
<1> SUFFICES ASSUME Nat \ T # {} PROVE FALSE
  OBVIOUS
<1>1. PICK n \in Nat \ T : \A y \in Nat \ T : n <= y
  BY LeastNumber, Zenon
<1>2. n # 0 /\ n - 1 \in Nat /\ n - 1 \in T
  BY <1>1
<1> QED
  BY <1>1, <1>2

(* Min and Max of sets of numbers, which are defined by CHOOSE.            *)
LEMMA MinIs ==
  ASSUME NEW T \in SUBSET Nat, T # {}
  PROVE  Min(T) \in T /\ \A y \in T : Min(T) <= y
BY LeastNumber DEF Min

LEMMA MaxIs ==
  ASSUME NEW T \in SUBSET Nat, T # {}, NEW b \in Nat, \A y \in T : y <= b
  PROVE  Max(T) \in T /\ \A y \in T : y <= Max(T)
<1> DEFINE D == {b - y : y \in T}
<1>1. D \in SUBSET Nat /\ D # {}
  <2>1. \A y \in T : b - y \in Nat
    OBVIOUS
  <2> QED
    BY <2>1
<1>2. PICK d \in D : \A e \in D : d <= e
  BY <1>1, LeastNumber, Zenon
<1>3. PICK x \in T : d = b - x
  BY <1>2
<1>4. \A y \in T : x >= y
  <2> TAKE y \in T
  <2>1. b - y \in D
    OBVIOUS
  <2> QED
    BY <1>2, <1>3, <2>1
<1> QED
  BY <1>4 DEF Max

(* A function that is defined by what it is at 0 and at n + 1 exists.      *)
LEMMA RecursionDefines ==
  ASSUME NEW X, NEW b \in X, NEW D \in [Nat -> [X -> X]]
  PROVE  \E f \in [Nat -> X] : f[0] = b /\ \A n \in Nat : f[n + 1] = D[n + 1][f[n]]
<1> DEFINE Good(g, n) == /\ g \in [0..n -> X] /\ g[0] = b
                         /\ \A i \in 1..n : g[i] = D[i][g[i - 1]]
           T == {n \in Nat : \E g : Good(g, n)}
<1>1. \A n \in Nat : n \in T
  <2>1. 0 \in T
    <3>1. Good([i \in 0..0 |-> b], 0)
      OBVIOUS
    <3> QED
      BY <3>1
  <2>2. ASSUME NEW n \in Nat, n \in T PROVE n + 1 \in T
    <3>1. PICK g : Good(g, n)
      BY <2>2
    <3> DEFINE h == [i \in 0..(n + 1) |-> IF i = n + 1 THEN D[n + 1][g[n]] ELSE g[i]]
    <3>2. D[n + 1] \in [X -> X] /\ g[n] \in X
      BY <3>1
    <3>3. Good(h, n + 1)
      <4>1. h \in [0..(n + 1) -> X]
        BY <3>1, <3>2
      <4>2. h[0] = b
        BY <3>1
      <4>3. \A i \in 1..(n + 1) : h[i] = D[i][h[i - 1]]
        BY <3>1
      <4> QED
        BY <4>1, <4>2, <4>3
    <3> HIDE DEF h
    <3> QED
      BY <3>3
  <2> HIDE DEF T
  <2> QED
    BY <2>1, <2>2, SetInduction
<1>2. ASSUME NEW m \in Nat, NEW n \in Nat, NEW g, NEW h, Good(g, m), Good(h, n), m <= n
      PROVE  \A i \in 0..m : g[i] = h[i]
  <2> DEFINE U == {i \in Nat : i <= m => g[i] = h[i]}
  <2>1. 0 \in U
    BY <1>2
  <2>2. ASSUME NEW i \in Nat, i \in U PROVE i + 1 \in U
    <3> SUFFICES ASSUME i + 1 <= m PROVE g[i + 1] = h[i + 1]
      OBVIOUS
    <3>1. i + 1 \in 1..m /\ i + 1 \in 1..n /\ (i + 1) - 1 = i
      BY <1>2
    <3>2. g[i + 1] = D[i + 1][g[i]] /\ h[i + 1] = D[i + 1][h[i]]
      BY <1>2, <3>1
    <3> QED
      BY <2>2, <3>2, <3>1
  <2>3. \A i \in Nat : i \in U
    <3> HIDE DEF U
    <3> QED
      BY <2>1, <2>2, SetInduction
  <2> QED
    BY <2>3
<1> DEFINE G(n) == CHOOSE g : Good(g, n)
           f == [n \in Nat |-> G(n)[n]]
<1>3. \A n \in Nat : Good(G(n), n)
  BY <1>1
<1>4. f \in [Nat -> X]
  <2> HIDE DEF G
  <2>1. \A n \in Nat : G(n)[n] \in X
    BY <1>3
  <2> QED
    BY <2>1
<1>5. f[0] = b
  BY <1>3
<1>6. ASSUME NEW n \in Nat PROVE f[n + 1] = D[n + 1][f[n]]
  <2> HIDE DEF G, Good
  <2>1. Good(G(n), n) /\ Good(G(n + 1), n + 1)
    BY <1>3
  <2>2. \A i \in 0..n : G(n)[i] = G(n + 1)[i]
    BY <2>1, <1>2
  <2>3. G(n + 1)[n + 1] = D[n + 1][G(n + 1)[n]]
    BY <2>1 DEF Good
  <2> QED
    BY <2>2, <2>3
<1> QED
  BY <1>4, <1>5, <1>6

(* The same for numbers from 0 on.                                         *)
LEMMA NumbersRecursion ==
  ASSUME NEW D \in [Nat -> [Nat -> Nat]]
  PROVE  \E f \in [Nat -> Nat] : f[0] = 0 /\ \A n \in Nat : f[n + 1] = D[n + 1][f[n]]
<1> DEFINE Has(X, b, E) ==
      \E f \in [Nat -> X] : f[0] = b /\ \A n \in Nat : f[n + 1] = E[n + 1][f[n]]
<1>1. \A X : \A b \in X, E \in [Nat -> [X -> X]] : Has(X, b, E)
  BY RecursionDefines
<1> HIDE DEF Has
<1>2. Has(Nat, 0, D)
  BY <1>1
<1> QED
  BY <1>2 DEF Has

-----------------------------------------------------------------------------
(* Operations and entries.                                                *)
Ops == Seq(OpType)

(* An operation turns entries of the right type into such entries; a count *)
(* stays within u32.                                                       *)
LEMMA EffectType ==
  ASSUME NEW o \in OpType, NEW i \in Nat \ {0}, NEW cur \in SUBSET Entry
  PROVE  Effect(cur, o, i) \in SUBSET Entry
<1>0. MaxCount \in Nat
  BY NumbersAssumption
<1>1. CASE o.op = "upsert"
  <2>1. Fresh(o, i, o.arg, 0) \in Entry
    BY <1>0 DEF Fresh, Entry, OpType
  <2>2. ASSUME NEW e \in Entry PROVE [e EXCEPT !.weight = o.arg, !.used = i] \in Entry
    <3>1. o.arg \in Int /\ i \in Int
      BY DEF OpType
    <3> QED
      BY <3>1 DEF Entry
  <2> QED
    BY <1>1, <2>1, <2>2 DEF Effect, Upsert
<1>2. CASE o.op = "delete"
  BY <1>2 DEF Effect
<1>3. CASE o.op = "setweight"
  BY <1>3 DEF Effect, Entry, OpType
<1>4. CASE o.op = "incr"
  <2>1. \A n \in Nat : Capped(n) \in 0..MaxCount
    BY <1>0 DEF Capped
  <2>2. \A e \in cur : e.count + o.arg \in Nat
    BY <1>4 DEF Entry, OpType
  <2>3. Fresh(o, i, 0, o.arg) \in Entry
    BY <1>0, <1>4 DEF Fresh, Entry, OpType
  <2>4. ASSUME NEW e \in cur PROVE [e EXCEPT !.count = Capped(@ + o.arg), !.used = i] \in Entry
    <3>1. Capped(e.count + o.arg) \in 0..MaxCount
      BY <2>1, <2>2
    <3>2. i \in Int /\ e \in Entry
      OBVIOUS
    <3> HIDE DEF Capped
    <3> QED
      BY <3>1, <3>2 DEF Entry
  <2> QED
    BY <1>4, <2>3, <2>4 DEF Effect, Incr
<1>5. CASE o.op = "touch"
  BY <1>5 DEF Effect, Entry, OpType
<1> QED
  BY <1>1, <1>2, <1>3, <1>4, <1>5 DEF OpType, Kinds

(* apply_ops goes through the operations one by one.                       *)
LEMMA AppliedIs ==
  ASSUME NEW os \in Ops, NEW base \in SUBSET Entry, NEW S \in SUBSET (1..Len(os))
  PROVE  /\ Applied(os, base, S)[0] = base
         /\ \A n \in Nat : Applied(os, base, S)[n] \in SUBSET Entry
         /\ \A n \in Nat : n + 1 \in S =>
              Applied(os, base, S)[n + 1] = Effect(Applied(os, base, S)[n], os[n + 1], n + 1)
         /\ \A n \in Nat : n + 1 \notin S =>
              Applied(os, base, S)[n + 1] = Applied(os, base, S)[n]
<1> DEFINE X == SUBSET Entry
           Step(n, c) == IF n \in S THEN Effect(c, os[n], n) ELSE c
           D == [n \in Nat |-> [c \in X |-> Step(n, c)]]
           Is(f) == f = [n \in Nat |-> IF n = 0 THEN base
                                       ELSE IF n \in S THEN Effect(f[n - 1], os[n], n)
                                       ELSE f[n - 1]]
<1>1. \A n \in Nat, c \in X : Step(n, c) \in X
  <2> TAKE n \in Nat, c \in X
  <2>1. n \in S => os[n] \in OpType /\ n \in Nat \ {0}
    BY DEF Ops
  <2> QED
    BY <2>1, EffectType
<1>2. base \in X
  OBVIOUS
<1> HIDE DEF X
<1>3. D \in [Nat -> [X -> X]]
  <2> HIDE DEF Step
  <2> QED
    BY <1>1
<1>4. PICK f \in [Nat -> X] : f[0] = base /\ \A n \in Nat : f[n + 1] = D[n + 1][f[n]]
  <2> HIDE DEF D
  <2> QED
    BY <1>2, <1>3, RecursionDefines
<1>5. \A n \in Nat : f[n + 1] = Step(n + 1, f[n])
  <2>1. \A n \in Nat, c \in X : D[n][c] = Step(n, c)
    OBVIOUS
  <2>2. \A n \in Nat : n + 1 \in Nat /\ f[n] \in X
    OBVIOUS
  <2> HIDE DEF Step, D
  <2> QED
    BY <1>4, <2>1, <2>2
<1>6. Is(f)
  <2>1. ASSUME NEW n \in Nat \ {0} PROVE f[n] = Step(n, f[n - 1])
    <3>1. n - 1 \in Nat /\ (n - 1) + 1 = n
      OBVIOUS
    <3> HIDE DEF Step
    <3> QED
      BY <1>5, <3>1
  <2> QED
    BY <1>4, <2>1
<1> DEFINE A == Applied(os, base, S)
<1>7. Is(A)
  BY <1>6 DEF Applied
<1> HIDE DEF A
<1>8. A[0] = base
  BY <1>7
<1>9. \A n \in Nat : A[n + 1] = Step(n + 1, A[n])
  BY <1>7
<1>10. \A n \in Nat : A[n] \in X
  <2> DEFINE T == {n \in Nat : A[n] \in X}
  <2>1. 0 \in T
    BY <1>8, <1>2
  <2>2. ASSUME NEW n \in Nat, n \in T PROVE n + 1 \in T
    <3> HIDE DEF Step
    <3> QED
      BY <1>9, <1>1, <2>2
  <2> HIDE DEF T
  <2>3. \A n \in Nat : n \in T
    BY <2>1, <2>2, SetInduction
  <2> QED
    BY <2>3 DEF T
<1> QED
  BY <1>8, <1>9, <1>10 DEF A, X

(* So does the sum of the counts.                                          *)
LEMMA TotalIs ==
  ASSUME NEW os \in Ops, NEW S \in SUBSET (1..Len(os)), \A i \in S : os[i].op = "incr"
  PROVE  /\ Total(os, S)[0] = 0
         /\ \A n \in Nat : Total(os, S)[n] \in Nat
         /\ \A n \in Nat :
              Total(os, S)[n + 1] = Total(os, S)[n] + (IF n + 1 \in S THEN os[n + 1].arg ELSE 0)
<1> DEFINE Inc(n) == IF n \in S THEN os[n].arg ELSE 0
           D == [n \in Nat |-> [c \in Nat |-> c + Inc(n)]]
           Is(f) == f = [n \in Nat |-> IF n = 0 THEN 0
                                       ELSE f[n - 1] + (IF n \in S THEN os[n].arg ELSE 0)]
<1>1. \A n \in Nat : Inc(n) \in Nat
  <2>1. ASSUME NEW n \in S PROVE os[n].arg \in Nat
    <3>1. os[n] \in OpType /\ os[n].op = "incr"
      BY DEF Ops
    <3> QED
      BY <3>1, NumbersAssumption DEF OpType
  <2> QED
    BY <2>1
<1>3. D \in [Nat -> [Nat -> Nat]]
  <2> HIDE DEF Inc
  <2>1. \A n \in Nat, c \in Nat : c + Inc(n) \in Nat
    BY <1>1
  <2> QED
    BY <2>1
<1>4. PICK f \in [Nat -> Nat] : f[0] = 0 /\ \A n \in Nat : f[n + 1] = D[n + 1][f[n]]
  <2> HIDE DEF D
  <2> QED
    BY <1>3, NumbersRecursion
<1>5. \A n \in Nat : f[n + 1] = f[n] + Inc(n + 1)
  <2>1. \A n \in Nat, c \in Nat : D[n][c] = c + Inc(n)
    OBVIOUS
  <2>2. \A n \in Nat : n + 1 \in Nat /\ f[n] \in Nat
    OBVIOUS
  <2> HIDE DEF Inc, D
  <2> QED
    BY <1>4, <2>1, <2>2
<1>6. Is(f)
  <2>1. ASSUME NEW n \in Nat \ {0} PROVE f[n] = f[n - 1] + Inc(n)
    <3>1. n - 1 \in Nat /\ (n - 1) + 1 = n
      OBVIOUS
    <3> HIDE DEF Inc
    <3> QED
      BY <1>5, <3>1
  <2> QED
    BY <1>4, <2>1
<1> DEFINE A == Total(os, S)
<1>7. Is(A)
  BY <1>6 DEF Total
<1> HIDE DEF A
<1>8. A[0] = 0
  BY <1>7
<1>9. ASSUME NEW n \in Nat PROVE A[n + 1] = A[n] + Inc(n + 1)
  <2>1. n + 1 \in Nat /\ n + 1 # 0 /\ (n + 1) - 1 = n
    OBVIOUS
  <2> QED
    BY <1>7, <2>1
<1>10. \A n \in Nat : A[n] \in Nat
  <2> DEFINE T == {n \in Nat : A[n] \in Nat}
  <2>1. 0 \in T
    BY <1>8
  <2>2. ASSUME NEW n \in Nat, n \in T PROVE n + 1 \in T
    <3>1. A[n] \in Nat /\ Inc(n + 1) \in Nat
      BY <1>1, <2>2
    <3>2. A[n + 1] = A[n] + Inc(n + 1)
      BY <1>9
    <3>3. \A i, j \in Nat : i + j \in Nat
      OBVIOUS
    <3> HIDE DEF Inc
    <3>4. A[n + 1] \in Nat
      BY <3>1, <3>2, <3>3, Zenon
    <3>5. n + 1 \in Nat
      OBVIOUS
    <3> QED
      BY <3>4, <3>5, Zenon
  <2> HIDE DEF T
  <2>3. \A n \in Nat : n \in T
    BY <2>1, <2>2, SetInduction
  <2> QED
    BY <2>3 DEF T
<1> QED
  BY <1>8, <1>9, <1>10 DEF A

(* Only the members up to a number count in the total up to it.            *)
LEMMA TotalOf ==
  ASSUME NEW os \in Ops, NEW S \in SUBSET (1..Len(os)), NEW R \in SUBSET (1..Len(os)),
         \A i \in S \cup R : os[i].op = "incr",
         NEW m \in Nat, \A i \in 1..m : i \in S <=> i \in R
  PROVE  Total(os, S)[m] = Total(os, R)[m]
<1> DEFINE T == {n \in Nat : n <= m => Total(os, S)[n] = Total(os, R)[n]}
<1>1. 0 \in T
  BY TotalIs
<1>2. ASSUME NEW n \in Nat, n \in T PROVE n + 1 \in T
  <2> SUFFICES ASSUME n + 1 <= m PROVE Total(os, S)[n + 1] = Total(os, R)[n + 1]
    OBVIOUS
  <2>1. /\ Total(os, S)[n + 1] = Total(os, S)[n] + (IF n + 1 \in S THEN os[n + 1].arg ELSE 0)
        /\ Total(os, R)[n + 1] = Total(os, R)[n] + (IF n + 1 \in R THEN os[n + 1].arg ELSE 0)
    <3>2. (\A i \in S : os[i].op = "incr") /\ (\A i \in R : os[i].op = "incr")
      OBVIOUS
    <3> QED
      BY <3>2, TotalIs
  <2>2. Total(os, S)[n] = Total(os, R)[n] /\ (n + 1 \in S <=> n + 1 \in R)
    BY <1>2
  <2> QED
    BY <2>1, <2>2
<1> HIDE DEF T
<1>3. \A n \in Nat : n \in T
  BY <1>1, <1>2, SetInduction
<1> QED
  BY <1>3 DEF T

(* Nothing counted up to a number, nothing in the total.                   *)
LEMMA TotalNone ==
  ASSUME NEW os \in Ops, NEW S \in SUBSET (1..Len(os)), \A i \in S : os[i].op = "incr",
         NEW m \in Nat, \A i \in 1..m : i \notin S
  PROVE  Total(os, S)[m] = 0
<1> DEFINE T == {n \in Nat : n <= m => Total(os, S)[n] = 0}
<1>1. 0 \in T
  BY TotalIs
<1>2. ASSUME NEW n \in Nat, n \in T PROVE n + 1 \in T
  <2> SUFFICES ASSUME n + 1 <= m PROVE Total(os, S)[n + 1] = 0
    OBVIOUS
  <2>1. Total(os, S)[n + 1] = Total(os, S)[n] + (IF n + 1 \in S THEN os[n + 1].arg ELSE 0)
    BY TotalIs
  <2> QED
    BY <1>2, <2>1
<1> HIDE DEF T
<1>3. \A n \in Nat : n \in T
  BY <1>1, <1>2, SetInduction
<1> QED
  BY <1>3 DEF T

(* What one more operation does to the operations that make an entry and   *)
(* to those since it was made.                                             *)
LEMMA PartsStep ==
  ASSUME NEW os \in Ops, NEW k \in Key, NEW n \in Nat, n + 1 <= Len(os)
  PROVE  /\ ~SameKey(os[n + 1], k) =>
              /\ Makers(os, k, n + 1) = Makers(os, k, n)
              /\ \A kinds : Since(os, k, n + 1, kinds) = Since(os, k, n, kinds)
         /\ SameKey(os[n + 1], k) /\ os[n + 1].op = "delete" => Makers(os, k, n + 1) = {}
         /\ SameKey(os[n + 1], k) /\ os[n + 1].op # "delete" =>
              /\ Makers(os, k, n + 1) =
                   Makers(os, k, n)
                     \cup (IF os[n + 1].op \in {"upsert", "incr"} THEN {n + 1} ELSE {})
              /\ \A kinds :
                   Since(os, k, n + 1, kinds) =
                     Since(os, k, n, kinds)
                       \cup (IF os[n + 1].op \in kinds
                                  /\ (Makers(os, k, n) # {} \/ os[n + 1].op \in {"upsert", "incr"})
                             THEN {n + 1} ELSE {})
<1> DEFINE N == n + 1
           O(m) == Own(os, k, m)
           L(m) == Live(os, k, m)
           M(m) == Makers(os, k, m)
<1>1. CASE ~SameKey(os[N], k)
  <2>1. O(N) = O(n)
    BY <1>1 DEF Own
  <2>2. L(N) = L(n)
    BY <2>1 DEF Live
  <2>3. M(N) = M(n)
    BY <2>2 DEF Makers
  <2>4. \A kinds : Since(os, k, N, kinds) = Since(os, k, n, kinds)
    BY <2>2, <2>3 DEF Since
  <2> QED
    BY <1>1, <2>3, <2>4
<1>2. CASE SameKey(os[N], k)
  <2>1. O(N) = O(n) \cup {N}
    BY <1>2 DEF Own
  <2>2. \A i \in O(n) : i \in Nat /\ i < N
    BY DEF Own
  <2>3. CASE os[N].op = "delete"
    <3>1. L(N) = {}
      BY <2>1, <2>2, <2>3 DEF Live
    <3>2. M(N) = {}
      BY <3>1 DEF Makers
    <3> QED
      BY <1>2, <2>3, <3>2
  <2>4. CASE os[N].op # "delete"
    <3>1. L(N) = L(n) \cup {N}
      <4>1. ASSUME NEW i \in O(n)
            PROVE  i \in L(N) <=> i \in L(n)
        BY <2>1, <2>2, <2>4 DEF Live
      <4>2. N \in L(N)
        BY <2>1, <2>2, <2>4 DEF Live
      <4>3. L(N) \subseteq O(N) /\ L(n) \subseteq O(n)
        BY DEF Live
      <4> QED
        BY <4>1, <4>2, <4>3, <2>1
    <3>2. \A i \in L(n) : i \in Nat /\ i < N
      BY <2>2 DEF Live
    <3>3. M(N) = M(n) \cup (IF os[N].op \in {"upsert", "incr"} THEN {N} ELSE {})
      BY <3>1 DEF Makers
    <3>4. \A m \in M(n) : m \in L(n) /\ m <= N
      BY <3>2 DEF Makers
    <3>5. ASSUME NEW kinds
          PROVE  Since(os, k, N, kinds) =
                   Since(os, k, n, kinds)
                     \cup (IF os[N].op \in kinds
                                /\ (M(n) # {} \/ os[N].op \in {"upsert", "incr"})
                           THEN {N} ELSE {})
      <4>1. ASSUME NEW i \in L(n)
            PROVE  (\E m \in M(N) : m <= i) <=> (\E m \in M(n) : m <= i)
        <5>1. ~(N <= i)
          BY <3>2
        <5> HIDE DEF N
        <5> QED
          BY <5>1, <3>3
      <4>2. (\E m \in M(N) : m <= N) <=> (M(n) # {} \/ os[N].op \in {"upsert", "incr"})
        <5>1. \A m \in M(N) : m <= N
          BY <3>3, <3>4
        <5>2. M(N) # {} <=> (M(n) # {} \/ os[N].op \in {"upsert", "incr"})
          BY <3>3
        <5> HIDE DEF M, N
        <5> QED
          BY <5>1, <5>2
      <4> QED
        BY <4>1, <4>2, <3>1 DEF Since
    <3> QED
      BY <1>2, <2>4, <3>3, <3>5
  <2> QED
    BY <1>2, <2>3, <2>4
<1> QED
  BY <1>1, <1>2

LEMMA PartsAre ==
  ASSUME NEW os, NEW k, NEW n \in Nat
  PROVE  /\ Makers(os, k, n) \in SUBSET (1..n)
         /\ \A kinds : Since(os, k, n, kinds) \in SUBSET (1..n)
         /\ \A kinds : \A i \in Since(os, k, n, kinds) : os[i].op \in kinds
         /\ Makers(os, k, n) = {} => \A kinds : Since(os, k, n, kinds) = {}
BY DEF Makers, Since, Live, Own

LEMMA LatestIs ==
  ASSUME NEW os, NEW k, NEW n \in Nat, NEW kinds
  PROVE  /\ Latest(os, k, n, kinds) \in {0} \cup Since(os, k, n, kinds)
         /\ \A i \in Since(os, k, n, kinds) : i <= Latest(os, k, n, kinds)
<1>1. {0} \cup Since(os, k, n, kinds) \in SUBSET Nat
  <2>1. Since(os, k, n, kinds) \in SUBSET (1..n)
    BY PartsAre
  <2> QED
    BY <2>1
<1>2. \A i \in {0} \cup Since(os, k, n, kinds) : i <= n
  <2>1. Since(os, k, n, kinds) \in SUBSET (1..n)
    BY PartsAre
  <2> QED
    BY <2>1
<1> QED
  BY <1>1, <1>2, MaxIs DEF Latest

LEMMA LatestStep ==
  ASSUME NEW os, NEW k, NEW n \in Nat, NEW kinds
  PROVE  /\ Since(os, k, n + 1, kinds) = Since(os, k, n, kinds)
              => Latest(os, k, n + 1, kinds) = Latest(os, k, n, kinds)
         /\ n + 1 \in Since(os, k, n + 1, kinds) => Latest(os, k, n + 1, kinds) = n + 1
<1>1. Since(os, k, n + 1, kinds) = Since(os, k, n, kinds)
        => Latest(os, k, n + 1, kinds) = Latest(os, k, n, kinds)
  BY DEF Latest
<1>2. ASSUME n + 1 \in Since(os, k, n + 1, kinds)
      PROVE  Latest(os, k, n + 1, kinds) = n + 1
  <2>1. n + 1 \in Nat
    OBVIOUS
  <2>2. /\ Latest(os, k, n + 1, kinds) \in {0} \cup Since(os, k, n + 1, kinds)
        /\ \A i \in Since(os, k, n + 1, kinds) : i <= Latest(os, k, n + 1, kinds)
    BY <2>1, LatestIs, Zenon
  <2>3. Since(os, k, n + 1, kinds) \in SUBSET (1..(n + 1))
    BY <2>1, PartsAre, Zenon
  <2> QED
    BY <1>2, <2>2, <2>3
<1> QED
  BY <1>1, <1>2

(* A saturated sum, saturated again, is the saturated whole sum.           *)
LEMMA CappedSum ==
  ASSUME NEW a \in Nat, NEW b \in Nat
  PROVE  Capped(Capped(a) + b) = Capped(a + b) /\ Capped(a) \in 0..MaxCount
BY NumbersAssumption DEF Capped

(* The count of a word before it is capped.                                *)
Counted(os, k, n) == Total(os, Since(os, k, n, {"incr"}))[n]

LEMMA CountStep ==
  ASSUME NEW os \in Ops, NEW k \in Key, NEW n \in Nat, n <= Len(os)
  PROVE  /\ Counted(os, k, n) \in Nat
         /\ Makers(os, k, n) = {} => Counted(os, k, n) = 0
         /\ n + 1 <= Len(os) =>
              /\ Since(os, k, n + 1, {"incr"}) = Since(os, k, n, {"incr"})
                   => Counted(os, k, n + 1) = Counted(os, k, n)
              /\ Since(os, k, n + 1, {"incr"}) = Since(os, k, n, {"incr"}) \cup {n + 1}
                   => Counted(os, k, n + 1) = Counted(os, k, n) + os[n + 1].arg
<1> DEFINE I == Since(os, k, n, {"incr"})
           J == Since(os, k, n + 1, {"incr"})
<1>1. I \in SUBSET (1..n) /\ \A i \in I : os[i].op = "incr"
  <2>1. \A i \in I : os[i].op \in {"incr"}
    BY PartsAre
  <2> QED
    BY <2>1, PartsAre
<1>2. I \in SUBSET (1..Len(os)) /\ Len(os) \in Nat
  BY <1>1 DEF Ops
<1>3. Total(os, I)[n] \in Nat
  BY <1>1, <1>2, TotalIs
<1>4. Makers(os, k, n) = {} => Total(os, I)[n] = 0
  <2> SUFFICES ASSUME Makers(os, k, n) = {} PROVE Total(os, I)[n] = 0
    OBVIOUS
  <2>1. I = {}
    BY PartsAre
  <2>2. \A i \in 1..n : i \notin I
    BY <2>1
  <2> HIDE DEF I
  <2> QED
    BY <2>2, <1>1, <1>2, TotalNone
<1>5. ASSUME n + 1 <= Len(os)
      PROVE  /\ J \in SUBSET (1..Len(os)) /\ \A i \in J : os[i].op = "incr"
             /\ Total(os, J)[n + 1] = Total(os, J)[n] + (IF n + 1 \in J THEN os[n + 1].arg ELSE 0)
  <2>1. n + 1 \in Nat
    OBVIOUS
  <2>2. J \in SUBSET (1..(n + 1)) /\ \A i \in J : os[i].op \in {"incr"}
    BY <2>1, PartsAre, Zenon
  <2>3. J \in SUBSET (1..Len(os)) /\ \A i \in J : os[i].op = "incr"
    BY <1>2, <1>5, <2>2
  <2> HIDE DEF J
  <2> QED
    BY <2>3, TotalIs
<1>6. ASSUME n + 1 <= Len(os), J = I PROVE Total(os, J)[n + 1] = Total(os, I)[n]
  <2>1. n + 1 \notin J
    BY <1>1, <1>6
  <2>2. Total(os, J)[n + 1] = Total(os, J)[n] + 0
    BY <2>1, <1>5, <1>6
  <2> HIDE DEF I, J
  <2> QED
    BY <2>2, <1>3, <1>6
<1>7. ASSUME n + 1 <= Len(os), J = I \cup {n + 1}
      PROVE  Total(os, J)[n + 1] = Total(os, I)[n] + os[n + 1].arg
  <2>1. \A i \in 1..n : i \in J <=> i \in I
    BY <1>7
  <2>2. \A i \in J \cup I : os[i].op = "incr"
    BY <1>1, <1>5, <1>7
  <2>3. J \in SUBSET (1..Len(os))
    BY <1>5, <1>7
  <2>5. n + 1 \in J
    BY <1>7
  <2> HIDE DEF I, J
  <2>4. Total(os, J)[n] = Total(os, I)[n]
    BY <2>1, <2>2, <2>3, <1>2, TotalOf
  <2> QED
    BY <2>4, <2>5, <1>5, <1>7
<1> QED
  BY <1>3, <1>4, <1>6, <1>7 DEF Counted

LEMMA MinKept ==
  ASSUME NEW T \in SUBSET Nat, NEW n \in Nat, \A i \in T : i <= n
  PROVE  /\ T # {} => Min(T \cup {n + 1}) = Min(T)
         /\ Min({n + 1}) = n + 1
<1>1. Min({n + 1}) = n + 1
  <2>1. {n + 1} \in SUBSET Nat /\ {n + 1} # {}
    OBVIOUS
  <2> QED
    BY <2>1, MinIs
<1>2. ASSUME T # {} PROVE Min(T \cup {n + 1}) = Min(T)
  <2>1. T \cup {n + 1} \in SUBSET Nat /\ T \cup {n + 1} # {}
    OBVIOUS
  <2>2. Min(T) \in T /\ \A y \in T : Min(T) <= y
    BY <1>2, MinIs
  <2>3. /\ Min(T \cup {n + 1}) \in T \cup {n + 1}
        /\ \A y \in T \cup {n + 1} : Min(T \cup {n + 1}) <= y
    BY <2>1, MinIs, Zenon
  <2> DEFINE a == Min(T)
             c == Min(T \cup {n + 1})
  <2>4. a \in T /\ c \in T \cup {n + 1} /\ c <= a /\ a <= n /\ \A y \in T : a <= y
    BY <2>2, <2>3
  <2> HIDE DEF a, c
  <2>5. c \in T /\ a <= c /\ a \in Nat /\ c \in Nat
    BY <2>4
  <2>6. a = c
    BY <2>4, <2>5
  <2> QED
    BY <2>6 DEF a, c
<1> QED
  BY <1>1, <1>2

(* What comes of the parts of an entry by an operation of its key.         *)
LEMMA FieldsStep ==
  ASSUME NEW os \in Ops, NEW k \in Key, NEW n \in Nat, n + 1 <= Len(os),
         SameKey(os[n + 1], k), os[n + 1].op # "delete"
  PROVE  LET o == os[n + 1]
             makes == o.op \in {"upsert", "incr"}
             lives == Makers(os, k, n) # {} \/ makes
         IN /\ Makers(os, k, n + 1) # {} <=> lives
            /\ WeightOf(os, k, n + 1) =
                 IF o.op \in {"upsert", "setweight"} /\ lives THEN o.arg ELSE WeightOf(os, k, n)
            /\ UsedOf(os, k, n + 1) =
                 IF o.op \in {"upsert", "incr", "touch"} /\ lives
                 THEN IF o.op = "touch" THEN o.arg ELSE n + 1
                 ELSE UsedOf(os, k, n)
            /\ Counted(os, k, n + 1) =
                 IF o.op = "incr" THEN Counted(os, k, n) + o.arg ELSE Counted(os, k, n)
            /\ Makers(os, k, n) # {} => Min(Makers(os, k, n + 1)) = Min(Makers(os, k, n))
            /\ Makers(os, k, n) = {} /\ makes => Min(Makers(os, k, n + 1)) = n + 1
            /\ Makers(os, k, n) = {} => WeightOf(os, k, n) = 0 /\ Counted(os, k, n) = 0
<1> DEFINE o == os[n + 1]
           makes == o.op \in {"upsert", "incr"}
           lives == Makers(os, k, n) # {} \/ makes
           S(m, kinds) == Since(os, k, m, kinds)
<1>1. /\ Makers(os, k, n + 1) = Makers(os, k, n) \cup (IF makes THEN {n + 1} ELSE {})
      /\ \A kinds : S(n + 1, kinds) =
                      S(n, kinds) \cup (IF o.op \in kinds /\ lives THEN {n + 1} ELSE {})
  BY PartsStep
<1>2. ASSUME NEW kinds
      PROVE  Latest(os, k, n + 1, kinds) =
               IF o.op \in kinds /\ lives THEN n + 1 ELSE Latest(os, k, n, kinds)
  <2>1. CASE o.op \in kinds /\ lives
    <3>1. n + 1 \in S(n + 1, kinds)
      BY <1>1, <2>1
    <3> QED
      BY <3>1, <2>1, LatestStep
  <2>2. CASE ~(o.op \in kinds /\ lives)
    <3>1. S(n + 1, kinds) = S(n, kinds)
      BY <1>1, <2>2
    <3> QED
      BY <3>1, <2>2, LatestStep
  <2> QED
    BY <2>1, <2>2
<1>3. Makers(os, k, n + 1) # {} <=> lives
  BY <1>1
<1>4. WeightOf(os, k, n + 1) =
        IF o.op \in {"upsert", "setweight"} /\ lives THEN o.arg ELSE WeightOf(os, k, n)
  <2>1. Latest(os, k, n + 1, {"upsert", "setweight"}) =
          IF o.op \in {"upsert", "setweight"} /\ lives THEN n + 1
          ELSE Latest(os, k, n, {"upsert", "setweight"})
    BY <1>2
  <2> HIDE DEF lives
  <2> QED
    BY <2>1 DEF WeightOf
<1>5. UsedOf(os, k, n + 1) =
        IF o.op \in {"upsert", "incr", "touch"} /\ lives
        THEN IF o.op = "touch" THEN o.arg ELSE n + 1
        ELSE UsedOf(os, k, n)
  <2>1. Latest(os, k, n + 1, {"upsert", "incr", "touch"}) =
          IF o.op \in {"upsert", "incr", "touch"} /\ lives THEN n + 1
          ELSE Latest(os, k, n, {"upsert", "incr", "touch"})
    BY <1>2
  <2> HIDE DEF lives
  <2> QED
    BY <2>1 DEF UsedOf
<1>6. Counted(os, k, n + 1) =
        IF o.op = "incr" THEN Counted(os, k, n) + o.arg ELSE Counted(os, k, n)
  <2>1. n <= Len(os)
    BY DEF Ops
  <2>2. CASE o.op = "incr"
    <3>1. S(n + 1, {"incr"}) = S(n, {"incr"}) \cup {n + 1}
      BY <1>1, <2>2
    <3> QED
      BY <3>1, <2>1, <2>2, CountStep
  <2>3. CASE o.op # "incr"
    <3>1. S(n + 1, {"incr"}) = S(n, {"incr"})
      BY <1>1, <2>3
    <3> QED
      BY <3>1, <2>1, <2>3, CountStep
  <2> QED
    BY <2>2, <2>3
<1>7. Makers(os, k, n) \in SUBSET Nat /\ \A i \in Makers(os, k, n) : i <= n
  <2>1. Makers(os, k, n) \in SUBSET (1..n)
    BY PartsAre
  <2> QED
    BY <2>1
<1>8. Makers(os, k, n) # {} => Min(Makers(os, k, n + 1)) = Min(Makers(os, k, n))
  <2>1. CASE makes
    <3>1. Makers(os, k, n + 1) = Makers(os, k, n) \cup {n + 1}
      BY <1>1, <2>1
    <3> QED
      BY <3>1, <1>7, MinKept
  <2>2. CASE ~makes
    BY <1>1, <2>2
  <2> QED
    BY <2>1, <2>2
<1>9. ASSUME Makers(os, k, n) = {}, makes PROVE Min(Makers(os, k, n + 1)) = n + 1
  <2>1. Makers(os, k, n + 1) = {n + 1}
    BY <1>1, <1>9
  <2>2. {} \in SUBSET Nat /\ \A i \in {} : i <= n
    OBVIOUS
  <2>3. Min({n + 1}) = n + 1
    BY <1>7, MinKept
  <2> QED
    BY <2>1, <2>3
<1>10. ASSUME Makers(os, k, n) = {} PROVE WeightOf(os, k, n) = 0 /\ Counted(os, k, n) = 0
  <2>1. Since(os, k, n, {"upsert", "setweight"}) = {}
    BY <1>10, PartsAre
  <2>2. Latest(os, k, n, {"upsert", "setweight"}) = 0
    BY <2>1, LatestIs
  <2>3. n <= Len(os)
    BY DEF Ops
  <2> QED
    BY <2>2, <2>3, <1>10, CountStep DEF WeightOf
<1> HIDE DEF lives, makes
<1> QED
  BY <1>3, <1>4, <1>5, <1>6, <1>8, <1>9, <1>10 DEF lives, makes

(* The entry that a meaning consists of.                                   *)
EntryOf(os, k, n) ==
  [code |-> k.code, text |-> k.text, weight |-> WeightOf(os, k, n),
   count |-> CountOf(os, k, n), created |-> Min(Makers(os, k, n)),
   used |-> UsedOf(os, k, n)]

(* A record changed in two fields, one after the other.                    *)
LEMMA TwoFields ==
  ASSUME NEW e, NEW a, NEW b
  PROVE  /\ [e EXCEPT !.weight = a, !.used = b] = [[e EXCEPT !.weight = a] EXCEPT !.used = b]
         /\ [e EXCEPT !.count = a, !.used = b] = [[e EXCEPT !.count = a] EXCEPT !.used = b]
OBVIOUS

(* The heart of it: the meaning of one more operation is apply_ops with    *)
(* it, although Meaning looks back over all of them and apply_ops only at  *)
(* the entry. Each kind of operation is a case, on a word that lives and   *)
(* on one that does not.                                                   *)
LEMMA MeaningStep ==
  ASSUME NEW os \in Ops, NEW k \in Key, NEW n \in Nat, n + 1 <= Len(os)
  PROVE  Meaning(os, k, n + 1) =
           IF SameKey(os[n + 1], k) THEN Effect(Meaning(os, k, n), os[n + 1], n + 1)
           ELSE Meaning(os, k, n)
<1> DEFINE N == n + 1
           o == os[N]
<1>0. /\ N \in 1..Len(os) /\ o \in OpType /\ n <= Len(os)
      /\ CountOf(os, k, n) = Capped(Counted(os, k, n))
      /\ CountOf(os, k, N) = Capped(Counted(os, k, N))
  BY DEF Ops, CountOf, Counted
<1>1. CASE ~SameKey(o, k)
  <2>1. /\ Makers(os, k, N) = Makers(os, k, n)
        /\ \A kinds : Since(os, k, N, kinds) = Since(os, k, n, kinds)
    BY <1>1, PartsStep
  <2>2. Counted(os, k, N) = Counted(os, k, n)
    BY <2>1, <1>0, CountStep
  <2>3. \A kinds : Latest(os, k, N, kinds) = Latest(os, k, n, kinds)
    BY <2>1 DEF Latest
  <2>4. WeightOf(os, k, N) = WeightOf(os, k, n) /\ UsedOf(os, k, N) = UsedOf(os, k, n)
    BY <2>3 DEF WeightOf, UsedOf
  <2> HIDE DEF N
  <2> QED
    BY <2>1, <2>2, <2>4, <1>0, <1>1 DEF Meaning, N
<1>2. CASE SameKey(o, k) /\ o.op = "delete"
  <2>1. Makers(os, k, N) = {}
    BY <1>2, PartsStep
  <2> HIDE DEF N
  <2> QED
    BY <2>1, <1>2 DEF Meaning, Effect, N
<1>3. CASE SameKey(o, k) /\ o.op # "delete"
  <2> DEFINE makes == o.op \in {"upsert", "incr"}
             lives == Makers(os, k, n) # {} \/ makes
  <2>1. /\ Makers(os, k, N) # {} <=> lives
        /\ WeightOf(os, k, N) =
             IF o.op \in {"upsert", "setweight"} /\ lives THEN o.arg ELSE WeightOf(os, k, n)
        /\ UsedOf(os, k, N) =
             IF o.op \in {"upsert", "incr", "touch"} /\ lives
             THEN IF o.op = "touch" THEN o.arg ELSE N
             ELSE UsedOf(os, k, n)
        /\ Counted(os, k, N) =
             IF o.op = "incr" THEN Counted(os, k, n) + o.arg ELSE Counted(os, k, n)
        /\ Makers(os, k, n) # {} => Min(Makers(os, k, N)) = Min(Makers(os, k, n))
        /\ Makers(os, k, n) = {} /\ makes => Min(Makers(os, k, N)) = N
        /\ Makers(os, k, n) = {} => WeightOf(os, k, n) = 0 /\ Counted(os, k, n) = 0
    BY <1>3, FieldsStep
  <2>2. Counted(os, k, n) \in Nat /\ (o.op = "incr" => o.arg \in Nat /\ o.arg <= MaxCount)
    BY <1>0, CountStep, NumbersAssumption DEF OpType
  <2>3. /\ CountOf(os, k, N) =
             IF o.op = "incr" THEN Capped(CountOf(os, k, n) + o.arg) ELSE CountOf(os, k, n)
        /\ Makers(os, k, n) = {} => CountOf(os, k, N) = IF o.op = "incr" THEN o.arg ELSE 0
    <3>1. o.op = "incr" => Capped(CountOf(os, k, n) + o.arg) = Capped(Counted(os, k, n) + o.arg)
      BY <1>0, <2>2, CappedSum
    <3>2. Capped(0) = 0 /\ (o.op = "incr" => Capped(o.arg) = o.arg /\ 0 + o.arg = o.arg)
      BY <2>2, NumbersAssumption DEF Capped
    <3> QED
      BY <1>0, <2>1, <3>1, <3>2
  <2>4. o.code = k.code /\ o.text = k.text
    BY <1>3 DEF SameKey
  <2>5. o.op \in Kinds
    BY <1>0 DEF OpType
  <2> HIDE DEF N, o
  <2>6. CASE Makers(os, k, n) = {}
    <3>1. Meaning(os, k, n) = {}
      BY <2>6 DEF Meaning
    <3>2. CASE o.op = "upsert"
      <4>1. Meaning(os, k, N) = {Fresh(o, N, o.arg, 0)}
        BY <2>1, <2>3, <2>4, <2>6, <3>2 DEF Meaning, Fresh
      <4> QED
        BY <4>1, <3>1, <3>2, <1>3 DEF Effect, Upsert, N, o
    <3>3. CASE o.op = "incr"
      <4>1. Meaning(os, k, N) = {Fresh(o, N, 0, o.arg)}
        BY <2>1, <2>3, <2>4, <2>6, <3>3 DEF Meaning, Fresh
      <4> QED
        BY <4>1, <3>1, <3>3, <1>3 DEF Effect, Incr, N, o
    <3>4. CASE ~(o.op \in {"upsert", "incr"})
      <4>1. Meaning(os, k, N) = {}
        BY <2>1, <2>6, <3>4 DEF Meaning
      <4>2. Effect({}, o, N) = {}
        BY <2>5, <1>3, <3>4 DEF Effect, Kinds
      <4> QED
        BY <4>1, <4>2, <3>1, <1>3 DEF N, o
    <3> QED
      BY <3>2, <3>3, <3>4
  <2>7. CASE Makers(os, k, n) # {}
    <3> DEFINE e == EntryOf(os, k, n)
               f == EntryOf(os, k, N)
    <3>1. Meaning(os, k, n) = {e} /\ Meaning(os, k, N) = {f}
      BY <2>1, <2>7 DEF Meaning, EntryOf
    <3>2. CASE o.op = "upsert"
      <4>1. f = [e EXCEPT !.weight = o.arg, !.used = N]
        <5>1. /\ WeightOf(os, k, N) = o.arg /\ UsedOf(os, k, N) = N
              /\ CountOf(os, k, N) = CountOf(os, k, n)
              /\ Min(Makers(os, k, N)) = Min(Makers(os, k, n))
          BY <2>1, <2>3, <2>7, <3>2
        <5> DEFINE g == [e EXCEPT !.weight = o.arg]
        <5>2. g = [code |-> k.code, text |-> k.text, weight |-> WeightOf(os, k, N),
                   count |-> CountOf(os, k, N), created |-> Min(Makers(os, k, n)),
                   used |-> UsedOf(os, k, n)]
          BY <5>1 DEF EntryOf
        <5> HIDE DEF g
        <5>3. f = [g EXCEPT !.used = N]
          BY <5>1, <5>2 DEF EntryOf
        <5>4. e.count = CountOf(os, k, n)
          BY DEF EntryOf
        <5> HIDE DEF e, f
        <5> QED
          BY <5>3, <5>4, TwoFields DEF g
      <4> HIDE DEF e, f
      <4> QED
        BY <4>1, <3>1, <3>2, <1>3 DEF Effect, Upsert, N, o
    <3>3. CASE o.op = "incr"
      <4>1. f = [e EXCEPT !.count = Capped(@ + o.arg), !.used = N]
        <5>1. /\ WeightOf(os, k, N) = WeightOf(os, k, n) /\ UsedOf(os, k, N) = N
              /\ CountOf(os, k, N) = Capped(CountOf(os, k, n) + o.arg)
              /\ Min(Makers(os, k, N)) = Min(Makers(os, k, n))
          BY <2>1, <2>3, <2>7, <3>3
        <5> DEFINE g == [e EXCEPT !.count = Capped(CountOf(os, k, n) + o.arg)]
        <5>2. g = [code |-> k.code, text |-> k.text, weight |-> WeightOf(os, k, N),
                   count |-> CountOf(os, k, N), created |-> Min(Makers(os, k, n)),
                   used |-> UsedOf(os, k, n)]
          BY <5>1 DEF EntryOf
        <5> HIDE DEF g
        <5>3. f = [g EXCEPT !.used = N]
          BY <5>1, <5>2 DEF EntryOf
        <5>4. e.count = CountOf(os, k, n)
          BY DEF EntryOf
        <5> HIDE DEF e, f
        <5> QED
          BY <5>3, <5>4, TwoFields DEF g
      <4> HIDE DEF e, f
      <4> QED
        BY <4>1, <3>1, <3>3, <1>3 DEF Effect, Incr, N, o
    <3>4. CASE o.op = "setweight"
      <4>1. f = [e EXCEPT !.weight = o.arg]
        BY <2>1, <2>3, <2>7, <3>4 DEF EntryOf
      <4> HIDE DEF e, f
      <4> QED
        BY <4>1, <3>1, <3>4, <1>3 DEF Effect, N, o
    <3>5. CASE o.op = "touch"
      <4>1. f = [e EXCEPT !.used = o.arg]
        BY <2>1, <2>3, <2>7, <3>5 DEF EntryOf
      <4> HIDE DEF e, f
      <4> QED
        BY <4>1, <3>1, <3>5, <1>3 DEF Effect, N, o
    <3> QED
      BY <2>5, <1>3, <3>2, <3>3, <3>4, <3>5 DEF Kinds, N, o
  <2> QED
    BY <2>6, <2>7
<1> QED
  BY <1>1, <1>2, <1>3

LEMMA MeaningOfNone ==
  ASSUME NEW os, NEW k
  PROVE  Meaning(os, k, 0) = {}
<1>1. 1..0 = {}
  OBVIOUS
<1>2. Own(os, k, 0) = {}
  BY <1>1 DEF Own
<1> QED
  BY <1>2 DEF Meaning, Makers, Live

LEMMA MeaningHasKey ==
  ASSUME NEW os, NEW k, NEW n, NEW e \in Meaning(os, k, n)
  PROVE  SameKey(e, k)
<1> DEFINE f == [code |-> k.code, text |-> k.text, weight |-> WeightOf(os, k, n),
                 count |-> CountOf(os, k, n), created |-> Min(Makers(os, k, n)),
                 used |-> UsedOf(os, k, n)]
<1>1. e = f
  BY DEF Meaning
<1> QED
  BY <1>1 DEF SameKey

LEMMA MeaningType ==
  ASSUME NEW os \in Ops, NEW k \in Key, NEW n \in 0..Len(os)
  PROVE  Meaning(os, k, n) \in SUBSET Entry
<1> DEFINE T == {i \in Nat : i <= Len(os) => Meaning(os, k, i) \in SUBSET Entry}
<1>1. 0 \in T
  BY MeaningOfNone
<1>2. ASSUME NEW i \in Nat, i \in T PROVE i + 1 \in T
  <2> SUFFICES ASSUME i + 1 <= Len(os) PROVE Meaning(os, k, i + 1) \in SUBSET Entry
    OBVIOUS
  <2>1. Meaning(os, k, i) \in SUBSET Entry
    BY <1>2 DEF Ops
  <2>2. os[i + 1] \in OpType /\ i + 1 \in Nat \ {0}
    BY DEF Ops
  <2>3. Effect(Meaning(os, k, i), os[i + 1], i + 1) \in SUBSET Entry
    BY <2>1, <2>2, EffectType
  <2> QED
    BY <2>1, <2>3, MeaningStep
<1> HIDE DEF T
<1>3. \A i \in Nat : i \in T
  BY <1>1, <1>2, SetInduction
<1>4. n \in Nat /\ n <= Len(os)
  BY DEF Ops
<1> QED
  BY <1>3, <1>4 DEF T

(* What was written does not change with what is written later.            *)
LEMMA MeaningStable ==
  ASSUME NEW os \in Ops, NEW rs \in Ops, NEW k \in Key,
         NEW m \in Nat, m <= Len(os), m <= Len(rs), \A i \in 1..m : os[i] = rs[i]
  PROVE  \A n \in 0..m : Meaning(os, k, n) = Meaning(rs, k, n)
<1> DEFINE T == {n \in Nat : n <= m => Meaning(os, k, n) = Meaning(rs, k, n)}
<1>1. 0 \in T
  BY MeaningOfNone
<1>2. ASSUME NEW n \in Nat, n \in T PROVE n + 1 \in T
  <2> SUFFICES ASSUME n + 1 <= m PROVE Meaning(os, k, n + 1) = Meaning(rs, k, n + 1)
    OBVIOUS
  <2>1. Meaning(os, k, n) = Meaning(rs, k, n) /\ os[n + 1] = rs[n + 1]
    BY <1>2
  <2>2. n + 1 <= Len(os) /\ n + 1 <= Len(rs)
    BY DEF Ops
  <2> QED
    BY <2>1, <2>2, MeaningStep
<1> HIDE DEF T
<1>3. \A n \in Nat : n \in T
  BY <1>1, <1>2, SetInduction
<1> QED
  BY <1>3 DEF T

(* Operations of other keys change nothing.                                *)
LEMMA MeaningKept ==
  ASSUME NEW os \in Ops, NEW k \in Key, NEW m \in Nat, NEW n \in Nat, m <= n, n <= Len(os),
         \A i \in (m + 1)..n : ~SameKey(os[i], k)
  PROVE  Meaning(os, k, n) = Meaning(os, k, m)
<1> DEFINE T == {i \in Nat : m + i <= n => Meaning(os, k, m + i) = Meaning(os, k, m)}
<1>1. 0 \in T
  OBVIOUS
<1>2. ASSUME NEW i \in Nat, i \in T PROVE i + 1 \in T
  <2> SUFFICES ASSUME m + (i + 1) <= n
               PROVE  Meaning(os, k, m + (i + 1)) = Meaning(os, k, m)
    OBVIOUS
  <2>1. m + i \in Nat /\ m + (i + 1) = (m + i) + 1 /\ m + i <= n /\ (m + i) + 1 \in (m + 1)..n
    OBVIOUS
  <2>2. (m + i) + 1 <= Len(os)
    BY <2>1 DEF Ops
  <2>3. Meaning(os, k, (m + i) + 1) = Meaning(os, k, m + i)
    BY <2>1, <2>2, MeaningStep
  <2> QED
    BY <1>2, <2>1, <2>3
<1> HIDE DEF T
<1>3. \A i \in Nat : i \in T
  BY <1>1, <1>2, SetInduction
<1>4. n - m \in Nat /\ m + (n - m) = n
  OBVIOUS
<1> QED
  BY <1>3, <1>4 DEF T

(* apply_ops on what the first operations mean, by those that come after.  *)
LEMMA AppliedMeans ==
  ASSUME NEW os \in Ops, NEW k \in Key, NEW m \in Nat, NEW n \in Nat, m <= n, n <= Len(os),
         NEW S, S = {i \in (m + 1)..n : SameKey(os[i], k)}
  PROVE  Applied(os, Meaning(os, k, m), S)[Len(os)] = Meaning(os, k, n)
<1> DEFINE A == Applied(os, Meaning(os, k, m), S)
           T == {i \in Nat : A[i] = IF i <= m THEN Meaning(os, k, m)
                                    ELSE IF i <= n THEN Meaning(os, k, i)
                                    ELSE Meaning(os, k, n)}
<1>0. Len(os) \in Nat
  BY DEF Ops
<1>1. /\ A[0] = Meaning(os, k, m)
      /\ \A i \in Nat : A[i + 1] = IF i + 1 \in S THEN Effect(A[i], os[i + 1], i + 1) ELSE A[i]
  <2> DEFINE base == Meaning(os, k, m)
  <2>1. base \in SUBSET Entry
    BY <1>0, MeaningType
  <2>2. S \in SUBSET (1..Len(os))
    BY <1>0
  <2> HIDE DEF base
  <2>3. Applied(os, base, S)[0] = base
    BY <2>1, <2>2, AppliedIs
  <2>4. \A i \in Nat : i + 1 \in S =>
          Applied(os, base, S)[i + 1] = Effect(Applied(os, base, S)[i], os[i + 1], i + 1)
    BY <2>1, <2>2, AppliedIs, Zenon
  <2>5. \A i \in Nat : i + 1 \notin S =>
          Applied(os, base, S)[i + 1] = Applied(os, base, S)[i]
    BY <2>1, <2>2, AppliedIs, Zenon
  <2> QED
    BY <2>3, <2>4, <2>5 DEF base
<1> HIDE DEF A
<1>2. 0 \in T
  BY <1>1
<1>3. ASSUME NEW i \in Nat, i \in T PROVE i + 1 \in T
  <2>0. A[i + 1] = IF i + 1 \in S THEN Effect(A[i], os[i + 1], i + 1) ELSE A[i]
    BY <1>1
  <2>1. CASE i + 1 <= m
    <3>1. i + 1 \notin S /\ i <= m
      BY <2>1
    <3> QED
      BY <2>0, <2>1, <3>1, <1>3
  <2>2. CASE i + 1 > n
    <3>1. i + 1 \notin S
      BY <2>2
    <3>2. A[i] = Meaning(os, k, n)
      BY <1>3, <2>2
    <3>3. ~(i + 1 <= m) /\ ~(i + 1 <= n)
      BY <2>2
    <3> QED
      BY <2>0, <3>1, <3>2, <3>3
  <2>3. CASE i + 1 > m /\ i + 1 <= n
    <3>1. A[i] = Meaning(os, k, i)
      BY <1>3, <2>3
    <3>2. i + 1 \in S <=> SameKey(os[i + 1], k)
      BY <2>3
    <3>3. i + 1 <= Len(os)
      BY <2>3, <1>0
    <3>4. A[i + 1] = Meaning(os, k, i + 1)
      BY <2>0, <3>1, <3>2, <3>3, MeaningStep
    <3> QED
      BY <3>4, <2>3
  <2> QED
    BY <2>1, <2>2, <2>3
<1> HIDE DEF T
<1>4. \A i \in Nat : i \in T
  BY <1>2, <1>3, SetInduction
<1>5. A[Len(os)] = IF Len(os) <= m THEN Meaning(os, k, m)
                   ELSE IF Len(os) <= n THEN Meaning(os, k, Len(os))
                   ELSE Meaning(os, k, n)
  BY <1>4, <1>0 DEF T
<1> QED
  BY <1>5, <1>0 DEF A

-----------------------------------------------------------------------------
(* The order of codes is a strict total order.                             *)
LEMMA CodeOrder ==
  ASSUME NEW a \in Seq(Nat), NEW b \in Seq(Nat), NEW c \in Seq(Nat)
  PROVE  /\ ~CodeLess(a, a)
         /\ CodeLess(a, b) /\ CodeLess(b, c) => CodeLess(a, c)
         /\ CodeLess(a, b) \/ CodeLess(b, a) \/ a = b
<1>0. Len(a) \in Nat /\ Len(b) \in Nat /\ Len(c) \in Nat
  OBVIOUS
<1>1. ~CodeLess(a, a)
  <2> SUFFICES ASSUME NEW i \in 1..Len(a), a[i] < a[i] PROVE FALSE
    BY <1>0 DEF CodeLess
  <2>1. a[i] \in Nat
    BY <1>0
  <2> QED
    BY <2>1
<1>2. ASSUME CodeLess(a, b), CodeLess(b, c) PROVE CodeLess(a, c)
  <2>1. PICK i \in 1..Len(b) : /\ i <= Len(a) + 1
                               /\ \A l \in 1..(i - 1) : a[l] = b[l]
                               /\ i <= Len(a) => a[i] < b[i]
    BY <1>2 DEF CodeLess
  <2>2. PICK j \in 1..Len(c) : /\ j <= Len(b) + 1
                               /\ \A l \in 1..(j - 1) : b[l] = c[l]
                               /\ j <= Len(b) => b[j] < c[j]
    BY <1>2 DEF CodeLess
  <2>3. CASE i <= j
    <3>1. i \in 1..Len(c) /\ \A l \in 1..(i - 1) : a[l] = c[l]
      BY <2>1, <2>2, <2>3, <1>0
    <3>2. ASSUME i <= Len(a) PROVE a[i] < c[i]
      <4>1. a[i] \in Nat /\ b[i] \in Nat /\ c[i] \in Nat
        <5>1. i \in 1..Len(a) /\ i \in 1..Len(b) /\ i \in 1..Len(c)
          BY <3>1, <3>2, <1>0
        <5> QED
          BY <5>1
      <4>2. CASE i = j
        <5>1. a[i] < b[i]
          BY <2>1, <3>2
        <5>2. b[i] < c[i]
          BY <2>2, <4>2, <1>0
        <5> QED
          BY <4>1, <5>1, <5>2
      <4>3. CASE i < j
        <5>1. i \in 1..(j - 1)
          BY <4>3, <1>0
        <5> QED
          BY <2>1, <2>2, <3>2, <5>1
      <4> QED
        BY <2>3, <4>2, <4>3
    <3> QED
      BY <2>1, <3>1, <3>2 DEF CodeLess
  <2>4. CASE j < i
    <3>1. j <= Len(a) + 1 /\ (\A l \in 1..(j - 1) : a[l] = c[l]) /\ j \in 1..(i - 1) /\ j <= Len(b)
      BY <2>1, <2>2, <2>4, <1>0
    <3>2. a[j] < c[j]
      BY <2>1, <2>2, <3>1
    <3> QED
      BY <3>1, <3>2 DEF CodeLess
  <2> QED
    BY <2>3, <2>4, <1>0
<1>3. ASSUME a # b PROVE CodeLess(a, b) \/ CodeLess(b, a)
  <2> DEFINE D == {i \in Nat : /\ 0 < i /\ i <= Len(a) + 1 /\ i <= Len(b) + 1
                               /\ i > Len(a) \/ i > Len(b) \/ a[i] # b[i]}
  <2>1. D # {}
    <3>1. CASE Len(a) <= Len(b)
      <4>1. Len(a) + 1 \in D
        BY <3>1, <1>0
      <4> QED
        BY <4>1
    <3>2. CASE Len(b) <= Len(a)
      <4>1. Len(b) + 1 \in D
        BY <3>2, <1>0
      <4> QED
        BY <4>1
    <3> QED
      BY <3>1, <3>2, <1>0
  <2>2. PICK i \in D : \A j \in D : i <= j
    <3>1. D \in SUBSET Nat
      OBVIOUS
    <3> HIDE DEF D
    <3> QED
      BY <2>1, <3>1, LeastNumber
  <2>3. \A l \in 1..(i - 1) : a[l] = b[l]
    <3> TAKE l \in 1..(i - 1)
    <3>1. l \notin D /\ l \in Nat /\ 0 < l /\ l <= Len(a) /\ l <= Len(b)
      BY <2>2, <1>0
    <3> QED
      BY <3>1, <1>0
  <2>4. i \in Nat /\ 0 < i /\ i <= Len(a) + 1 /\ i <= Len(b) + 1
    BY <2>2
  <2>5. CASE i <= Len(a) /\ i <= Len(b)
    <3>1. a[i] # b[i] /\ a[i] \in Nat /\ b[i] \in Nat
      BY <2>2, <2>5, <1>0
    <3>2. a[i] < b[i] \/ b[i] < a[i]
      BY <3>1
    <3> QED
      BY <2>3, <2>4, <2>5, <3>2, <1>0 DEF CodeLess
  <2>6. CASE i > Len(a) /\ i <= Len(b)
    <3>1. i \in 1..Len(b) /\ ~(i <= Len(a))
      BY <2>4, <2>6, <1>0
    <3> QED
      BY <2>3, <2>4, <3>1 DEF CodeLess
  <2>7. CASE i > Len(b) /\ i <= Len(a)
    <3>1. i \in 1..Len(a) /\ ~(i <= Len(b)) /\ \A l \in 1..(i - 1) : b[l] = a[l]
      BY <2>3, <2>4, <2>7, <1>0
    <3> QED
      BY <2>4, <3>1 DEF CodeLess
  <2>8. CASE i > Len(a) /\ i > Len(b)
    <3>1. Len(a) = Len(b) /\ \A l \in 1..Len(a) : a[l] = b[l]
      BY <2>3, <2>4, <2>8, <1>0
    <3>2. a = b
      BY <3>1, SeqEqual, Zenon
    <3> QED
      BY <3>2, <1>3
  <2> QED
    BY <2>4, <2>5, <2>6, <2>7, <2>8, <1>0
<1> QED
  BY <1>1, <1>2, <1>3

LEMMA PrefixIs ==
  ASSUME NEW p \in Seq(Nat), NEW c \in Seq(Nat)
  PROVE  IsPrefix(p, c) <=> Len(p) <= Len(c) /\ \A i \in 1..Len(p) : p[i] = c[i]
<1>0. Len(p) \in Nat /\ Len(c) \in Nat
  OBVIOUS
<1> SUFFICES ASSUME Len(p) <= Len(c)
             PROVE  SubSeq(p, 1, Len(p)) = SubSeq(c, 1, Len(p)) <=> \A i \in 1..Len(p) : p[i] = c[i]
  BY DEF IsPrefix
<1> DEFINE s == SubSeq(p, 1, Len(p))
           t == SubSeq(c, 1, Len(p))
<1>1. s \in Seq(Nat) /\ t \in Seq(Nat) /\ Len(s) = Len(p) /\ Len(t) = Len(p)
  BY <1>0
<1>2. \A i \in 1..Len(p) : s[i] = p[i] /\ t[i] = c[i]
  BY <1>0
<1> HIDE DEF s, t
<1>3. (\A i \in 1..Len(s) : s[i] = t[i]) => s = t
  BY <1>1, SeqEqual
<1> QED
  BY <1>1, <1>2, <1>3 DEF s, t

(* The codes under a prefix lie together in the order, from the prefix on. *)
LEMMA PrefixOrder ==
  ASSUME NEW p \in Seq(Nat), NEW c \in Seq(Nat), IsPrefix(p, c)
  PROVE  /\ ~CodeLess(c, p)
         /\ \A x \in Seq(Nat) :
              ~CodeLess(x, p) /\ (CodeLess(x, c) \/ x = c) => IsPrefix(p, x)
<1>0. Len(p) \in Nat /\ Len(c) \in Nat
  OBVIOUS
<1>1. Len(p) <= Len(c) /\ \A i \in 1..Len(p) : p[i] = c[i]
  BY PrefixIs
<1>2. ~CodeLess(c, p)
  <2> SUFFICES ASSUME NEW i \in 1..Len(p), i <= Len(c) => c[i] < p[i] PROVE FALSE
    BY DEF CodeLess
  <2>1. c[i] < p[i] /\ c[i] = p[i] /\ p[i] \in Nat
    BY <1>0, <1>1
  <2> QED
    BY <2>1
<1>3. ASSUME NEW x \in Seq(Nat), ~CodeLess(x, p), CodeLess(x, c), ~IsPrefix(p, x)
      PROVE  FALSE
  <2>0. Len(x) \in Nat
    OBVIOUS
  <2>1. IsPrefix(p, p)
    BY PrefixIs, <1>0
  <2>2. CodeLess(p, x)
    BY <2>1, <1>3, CodeOrder
  <2>3. PICK i \in 1..Len(x) : /\ i <= Len(p) + 1
                               /\ \A l \in 1..(i - 1) : p[l] = x[l]
                               /\ i <= Len(p) => p[i] < x[i]
    BY <2>2 DEF CodeLess
  <2>4. i <= Len(p)
    <3> SUFFICES ASSUME i = Len(p) + 1 PROVE FALSE
      BY <2>3, <1>0, <2>0
    <3>1. Len(p) <= Len(x) /\ \A l \in 1..Len(p) : p[l] = x[l]
      BY <2>3, <1>0, <2>0
    <3> QED
      BY <3>1, <1>3, PrefixIs
  <2>5. PICK j \in 1..Len(c) : /\ j <= Len(x) + 1
                               /\ \A l \in 1..(j - 1) : x[l] = c[l]
                               /\ j <= Len(x) => x[j] < c[j]
    BY <1>3 DEF CodeLess
  <2>6. x[i] \in Nat /\ p[i] \in Nat /\ p[i] < x[i] /\ p[i] = c[i]
    <3>1. i \in 1..Len(p)
      BY <2>4, <1>0, <2>0
    <3> QED
      <4>1. x[i] \in Nat /\ p[i] \in Nat
        BY <3>1
      <4> QED
        BY <4>1, <3>1, <2>3, <2>4, <1>1
  <2>7. CASE j < i
    <3>1. j \in 1..(i - 1) /\ j <= Len(x) /\ j \in 1..Len(p)
      BY <2>4, <2>7, <1>0, <2>0
    <3>2. x[j] < c[j] /\ p[j] = x[j] /\ p[j] = c[j] /\ p[j] \in Nat
      BY <3>1, <2>3, <2>5, <1>1
    <3> QED
      BY <3>2
  <2>8. CASE j = i
    <3>1. x[i] < c[i]
      BY <2>5, <2>8, <2>0
    <3> QED
      BY <3>1, <2>6
  <2>9. CASE i < j
    <3>1. i \in 1..(j - 1)
      BY <2>9, <1>0, <2>0
    <3>2. x[i] = c[i]
      BY <3>1, <2>5
    <3> QED
      BY <3>2, <2>6
  <2> QED
    BY <2>7, <2>8, <2>9, <1>0, <2>0
<1> QED
  BY <1>2, <1>3

(* In a strict total order, given as the set of those below each element,  *)
(* every rank up to the number of elements is taken once.                  *)
LEMMA RanksAre ==
  ASSUME NEW S, IsFiniteSet(S), NEW D \in [S -> SUBSET S],
         \A x \in S : x \notin D[x],
         \A x, y \in S : x \in D[y] => D[x] \subseteq D[y],
         \A x, y \in S : x \in D[y] \/ y \in D[x] \/ x = y
  PROVE  /\ \A i \in 1..Cardinality(S) : \E x \in S : Cardinality(D[x]) = i - 1
         /\ \A x \in S : Cardinality(D[x]) + 1 \in 1..Cardinality(S)
         /\ \A x, y \in S : Cardinality(D[x]) < Cardinality(D[y]) <=> x \in D[y]
         /\ \A x, y \in S : Cardinality(D[x]) = Cardinality(D[y]) => x = y
<1> DEFINE n == Cardinality(S)
           rank(x) == Cardinality(D[x])
<1>0. n \in Nat
  BY FS_CardinalityType
<1>1. ASSUME NEW x \in S PROVE IsFiniteSet(D[x]) /\ rank(x) \in Nat /\ rank(x) + 1 <= n
  <2>1. D[x] \in SUBSET S /\ x \notin D[x]
    OBVIOUS
  <2>2. IsFiniteSet(D[x])
    BY <2>1, FS_Subset
  <2>3. rank(x) \in Nat
    BY <2>2, FS_CardinalityType
  <2>4. Cardinality(D[x] \cup {x}) = Cardinality(D[x]) + 1
    BY <2>1, <2>2, FS_AddElement
  <2>5. D[x] \cup {x} \in SUBSET S
    BY <2>1
  <2>6. Cardinality(D[x] \cup {x}) <= Cardinality(S)
    BY <2>5, FS_Subset, Zenon
  <2> QED
    BY <2>2, <2>3, <2>4, <2>6
<1>2. ASSUME NEW x \in S, NEW y \in S, x \in D[y] PROVE rank(x) < rank(y)
  <2>1. x \notin D[x] /\ D[x] \cup {x} \in SUBSET D[y]
    BY <1>2
  <2>2. Cardinality(D[x] \cup {x}) = Cardinality(D[x]) + 1
    BY <2>1, <1>1, FS_AddElement
  <2>3. Cardinality(D[x] \cup {x}) <= Cardinality(D[y])
    BY <2>1, <1>1, FS_Subset, Zenon
  <2>4. rank(x) \in Nat /\ rank(y) \in Nat
    BY <1>1
  <2> QED
    BY <2>2, <2>3, <2>4
<1>3. ASSUME NEW x \in S, NEW y \in S, rank(x) = rank(y) PROVE x = y
  <2>1. rank(x) \in Nat
    BY <1>1
  <2> QED
    BY <1>2, <1>3, <2>1
<1>4. ASSUME NEW x \in S, NEW y \in S, rank(x) < rank(y) PROVE x \in D[y]
  <2>1. rank(x) \in Nat /\ rank(y) \in Nat
    BY <1>1
  <2>2. y \notin D[x] /\ x # y
    BY <1>2, <1>4, <2>1
  <2> QED
    BY <2>2
<1>5. \A i \in 1..n : \E x \in S : rank(x) = i - 1
  <2> DEFINE f == [x \in S |-> rank(x) + 1]
  <2>1. \A x \in S : rank(x) + 1 \in 1..n
    BY <1>0, <1>1
  <2>2. f \in [S -> 1..n]
    BY <2>1
  <2>3. \A x, y \in S : f[x] = f[y] => x = y
    BY <1>1, <1>3
  <2>4. f \in Injection(S, 1..n)
    <3> HIDE DEF f
    <3> QED
      BY <2>2, <2>3 DEF Injection, IsInjective
  <2>5. IsFiniteSet(1..n) /\ Cardinality(1..n) = n
    BY <1>0, FS_Interval
  <2>6. f \in Surjection(S, 1..n)
    <3> HIDE DEF f, n
    <3> QED
      BY <2>4, <2>5, FS_Injection DEF n
  <2>7. \A i \in 1..n : \E x \in S : f[x] = i
    BY <2>6 DEF Surjection
  <2> TAKE i \in 1..n
  <2>8. PICK x \in S : f[x] = i
    BY <2>7
  <2>9. rank(x) = i - 1
    BY <2>8, <1>0, <1>1
  <2> QED
    BY <2>9
<1>6. \A x \in S : rank(x) + 1 \in 1..n
  BY <1>0, <1>1
<1> HIDE DEF n
<1> QED
  BY <1>2, <1>3, <1>4, <1>5, <1>6 DEF n

(* The order of freeze on the numbers of operations os.                    *)
Below(os, i, j) == KeyLess(os[i], os[j]) \/ (SameKey(os[i], os[j]) /\ i < j)
InOrderOfKeys(os, s) == \A m, n \in 1..Len(s) : m < n => Below(os, s[m], s[n])

Keyed(x) == x.code \in Seq(Nat) /\ x.text \in Nat

(* The order of keys is total up to the same key, the order of freeze with *)
(* the numbers is total.                                                   *)
LEMMA KeyOrder ==
  ASSUME NEW x, NEW y, NEW z, Keyed(x), Keyed(y), Keyed(z)
  PROVE  /\ SameKey(x, y) => ~KeyLess(x, y)
         /\ KeyLess(x, y) /\ KeyLess(y, z) => KeyLess(x, z)
         /\ KeyLess(x, y) /\ SameKey(y, z) => KeyLess(x, z)
         /\ SameKey(x, y) /\ KeyLess(y, z) => KeyLess(x, z)
         /\ KeyLess(x, y) \/ KeyLess(y, x) \/ SameKey(x, y)
<1> USE DEF Keyed
<1>1. /\ ~CodeLess(x.code, x.code)
      /\ CodeLess(x.code, y.code) /\ CodeLess(y.code, z.code) => CodeLess(x.code, z.code)
      /\ CodeLess(x.code, y.code) \/ CodeLess(y.code, x.code) \/ x.code = y.code
  BY CodeOrder
<1>2. /\ x.text \in Nat /\ y.text \in Nat /\ z.text \in Nat
  OBVIOUS
<1> HIDE DEF Keyed
<1>3. SameKey(x, y) => ~KeyLess(x, y)
  BY <1>1, <1>2 DEF SameKey, KeyLess
<1>4. KeyLess(x, y) /\ KeyLess(y, z) => KeyLess(x, z)
  BY <1>1, <1>2 DEF KeyLess
<1>5. KeyLess(x, y) /\ SameKey(y, z) => KeyLess(x, z)
  BY <1>1, <1>2 DEF SameKey, KeyLess
<1>6. SameKey(x, y) /\ KeyLess(y, z) => KeyLess(x, z)
  BY <1>1, <1>2 DEF SameKey, KeyLess
<1>7. KeyLess(x, y) \/ KeyLess(y, x) \/ SameKey(x, y)
  BY <1>1, <1>2 DEF SameKey, KeyLess
<1> QED
  BY <1>3, <1>4, <1>5, <1>6, <1>7

LEMMA OpIsKeyed ==
  ASSUME NEW o \in OpType
  PROVE  Keyed(o)
BY KeysAssumption DEF OpType, Keyed

LEMMA BelowOrder ==
  ASSUME NEW os \in Ops, NEW i \in 1..Len(os), NEW j \in 1..Len(os), NEW l \in 1..Len(os)
  PROVE  /\ ~Below(os, i, i)
         /\ Below(os, i, j) /\ Below(os, j, l) => Below(os, i, l)
         /\ Below(os, i, j) \/ Below(os, j, i) \/ i = j
<1>0. i \in Nat /\ j \in Nat /\ l \in Nat
  BY DEF Ops
<1>1. Keyed(os[i]) /\ Keyed(os[j]) /\ Keyed(os[l])
  <2>1. os[i] \in OpType /\ os[j] \in OpType /\ os[l] \in OpType
    BY DEF Ops
  <2> QED
    BY <2>1, OpIsKeyed
<1>2. SameKey(os[i], os[i]) /\ ~KeyLess(os[i], os[i])
  BY <1>1, KeyOrder DEF SameKey
<1>3. /\ SameKey(os[i], os[j]) /\ SameKey(os[j], os[l]) => SameKey(os[i], os[l])
      /\ SameKey(os[i], os[j]) <=> SameKey(os[j], os[i])
  BY DEF SameKey
<1>4. ~Below(os, i, i)
  BY <1>0, <1>2 DEF Below
<1>5. Below(os, i, j) /\ Below(os, j, l) => Below(os, i, l)
  BY <1>0, <1>1, <1>3, KeyOrder DEF Below
<1>6. Below(os, i, j) \/ Below(os, j, i) \/ i = j
  BY <1>0, <1>1, <1>3, KeyOrder DEF Below
<1> QED
  BY <1>4, <1>5, <1>6

(* Things that come once are as many as their places.                      *)
FirstOf(g, n) == {g[i] : i \in 1..n}

LEMMA CountOnce ==
  ASSUME NEW n \in Nat, NEW g, \A i, j \in 1..n : g[i] = g[j] => i = j
  PROVE  IsFiniteSet(FirstOf(g, n)) /\ Cardinality(FirstOf(g, n)) = n
<1> DEFINE T == FirstOf(g, n)
           f == [i \in 1..n |-> g[i]]
<1>1. IsFiniteSet(1..n) /\ Cardinality(1..n) = n
  BY FS_Interval
<1>2. f \in Bijection(1..n, T)
  <2>1. f \in [1..n -> T]
    BY DEF FirstOf
  <2>2. \A a, b \in 1..n : f[a] = f[b] => a = b
    OBVIOUS
  <2>3. \A t \in T : \E s \in 1..n : f[s] = t
    BY DEF FirstOf
  <2> HIDE DEF f, T
  <2> QED
    BY <2>1, <2>2, <2>3 DEF Bijection, Injection, Surjection, IsInjective
<1>3. ExistsBijection(1..n, T)
  BY <1>2 DEF ExistsBijection
<1> HIDE DEF T
<1>4. IsFiniteSet(T) /\ Cardinality(T) = Cardinality(1..n)
  BY <1>1, <1>3, FS_Bijection
<1> QED
  BY <1>1, <1>4 DEF T

(* D[x] are those before x.                                                *)
StrictOrder(S, D) ==
  /\ IsFiniteSet(S) /\ D \in [S -> SUBSET S]
  /\ \A x \in S : x \notin D[x]
  /\ \A x, y \in S : x \in D[y] => D[x] \subseteq D[y]
  /\ \A x, y \in S : x \in D[y] \/ y \in D[x] \/ x = y

Sorted(s, D) == \A l, m \in 1..Len(s) : l < m => s[l] \in D[s[m]]

(* Ranked sorts, and there is no other sequence that is sorted.            *)
LEMMA RankedIs ==
  ASSUME NEW S, NEW D, StrictOrder(S, D)
  PROVE  /\ Ranked(S, D) \in Seq(S) /\ Len(Ranked(S, D)) = Cardinality(S)
         /\ ToSet(Ranked(S, D)) = S /\ Sorted(Ranked(S, D), D)
         /\ \A i \in 1..Cardinality(S) : Cardinality(D[Ranked(S, D)[i]]) = i - 1
         /\ \A g \in Seq(S) : ToSet(g) = S /\ Sorted(g, D) => g = Ranked(S, D)
<1> DEFINE n == Cardinality(S)
           f == Ranked(S, D)
<1>s. /\ IsFiniteSet(S) /\ D \in [S -> SUBSET S]
      /\ \A x \in S : x \notin D[x]
      /\ \A x, y \in S : x \in D[y] => D[x] \subseteq D[y]
      /\ \A x, y \in S : x \in D[y] \/ y \in D[x] \/ x = y
  BY DEF StrictOrder
<1>0. n \in Nat
  BY <1>s, FS_CardinalityType
<1>1. /\ \A i \in 1..n : \E x \in S : Cardinality(D[x]) = i - 1
      /\ \A x \in S : Cardinality(D[x]) + 1 \in 1..n
      /\ \A x, y \in S : Cardinality(D[x]) < Cardinality(D[y]) <=> x \in D[y]
      /\ \A x, y \in S : Cardinality(D[x]) = Cardinality(D[y]) => x = y
  BY <1>s, RanksAre
<1>2. \A x \in S : IsFiniteSet(D[x]) /\ Cardinality(D[x]) \in Nat
  <2> TAKE x \in S
  <2>1. D[x] \in SUBSET S
    BY <1>s
  <2>2. IsFiniteSet(D[x])
    BY <2>1, <1>s, FS_Subset
  <2> QED
    BY <2>2, FS_CardinalityType
<1>f. \A i \in 1..n : f[i] \in S /\ Cardinality(D[f[i]]) = i - 1
  <2> TAKE i \in 1..n
  <2>1. PICK x \in S : Cardinality(D[x]) = i - 1
    BY <1>1
  <2>2. f[i] = CHOOSE z \in S : Cardinality(D[z]) = i - 1
    BY DEF Ranked
  <2> HIDE DEF f
  <2> QED
    BY <2>1, <2>2
<1>t. f \in [1..n -> S]
  <2>1. DOMAIN f = 1..n /\ f = [i \in 1..n |-> f[i]]
    BY DEF Ranked
  <2> HIDE DEF f
  <2> QED
    BY <2>1, <1>f
<1> HIDE DEF n, f
<1>3. f \in Seq(S) /\ Len(f) = n
  BY <1>0, <1>t
<1>4. ToSet(f) = S
  <2>1. \A x \in S : \E i \in 1..n : f[i] = x
    <3> TAKE x \in S
    <3> DEFINE i == Cardinality(D[x]) + 1
    <3>1. i \in 1..n /\ Cardinality(D[x]) = i - 1
      BY <1>1, <1>2
    <3> HIDE DEF i
    <3>2. f[i] \in S /\ Cardinality(D[f[i]]) = Cardinality(D[x])
      BY <3>1, <1>f
    <3>3. f[i] = x
      BY <3>2, <1>1
    <3> QED
      BY <3>1, <3>3
  <2> QED
    BY <2>1, <1>3, <1>f DEF ToSet, n
<1>5. ASSUME NEW l \in 1..n, NEW m \in 1..n, l < m PROVE f[l] \in D[f[m]]
  <2>1. l - 1 < m - 1
    BY <1>5
  <2>2. f[l] \in S /\ f[m] \in S /\ Cardinality(D[f[l]]) < Cardinality(D[f[m]])
    BY <2>1, <1>f
  <2> QED
    BY <2>2, <1>1
<1>6. ASSUME NEW g \in Seq(S), ToSet(g) = S, Sorted(g, D)
      PROVE  g = f
  <2>0. Len(g) \in Nat /\ \A i \in 1..Len(g) : g[i] \in S
    OBVIOUS
  <2>1. \A i, j \in 1..Len(g) : g[i] = g[j] => i = j
    <3> TAKE i, j \in 1..Len(g)
    <3>1. i < j => g[i] # g[j]
      BY <1>6, <2>0, <1>s DEF Sorted
    <3>2. j < i => g[i] # g[j]
      BY <1>6, <2>0, <1>s DEF Sorted
    <3> QED
      BY <3>1, <3>2, <2>0
  <2>2. S = {g[i] : i \in 1..Len(g)} /\ S = FirstOf(g, Len(g))
    BY <1>6 DEF ToSet, FirstOf
  <2>c. Cardinality(FirstOf(g, Len(g))) = Len(g)
    BY <2>0, <2>1, CountOnce, Zenon
  <2>3. Len(g) = n
    BY <2>2, <2>c DEF n
  <2>4. ASSUME NEW i \in 1..n PROVE g[i] = f[i]
    <3>1. i - 1 \in Nat /\ \A j \in 1..(i - 1) : j \in 1..n /\ j < i
      BY <1>0
    <3>2. D[g[i]] = {g[j] : j \in 1..(i - 1)}
      <4>1. \A j \in 1..(i - 1) : g[j] \in D[g[i]]
        BY <3>1, <2>3, <1>6 DEF Sorted
      <4>2. ASSUME NEW y \in D[g[i]] PROVE \E j \in 1..(i - 1) : y = g[j]
        <5>1. g[i] \in S /\ y \in S
          BY <2>0, <2>3, <1>s
        <5>2. PICK j \in 1..n : y = g[j]
          BY <5>1, <2>2, <2>3, <1>s
        <5>3. j # i
          BY <5>1, <5>2, <4>2, <1>s
        <5>4. ~(i < j)
          <6> SUFFICES ASSUME i < j PROVE FALSE
            OBVIOUS
          <6>1. g[i] \in D[y]
            BY <5>2, <2>3, <1>6 DEF Sorted
          <6>2. g[i] \in D[g[i]]
            BY <6>1, <5>1, <4>2, <1>s
          <6> QED
            BY <6>2, <5>1, <1>s
        <5>5. j \in 1..(i - 1)
          BY <5>3, <5>4, <1>0
        <5> QED
          BY <5>2, <5>5
      <4> QED
        BY <4>1, <4>2
    <3>3. \A a, b \in 1..(i - 1) : g[a] = g[b] => a = b
      BY <3>1, <2>1, <2>3
    <3>c. Cardinality(FirstOf(g, i - 1)) = i - 1
      BY <3>1, <3>3, CountOnce, Zenon
    <3>4. Cardinality(D[g[i]]) = i - 1
      BY <3>2, <3>c DEF FirstOf
    <3>5. g[i] \in S /\ f[i] \in S /\ Cardinality(D[f[i]]) = i - 1
      BY <2>0, <2>3, <1>f
    <3> QED
      BY <3>4, <3>5, <1>1
  <2>5. g \in Seq(S) /\ f \in Seq(S) /\ Len(g) = Len(f) /\ \A i \in 1..Len(g) : g[i] = f[i]
    BY <2>3, <2>4, <1>3
  <2> QED
    BY <2>5, SeqEqual
<1>7. Sorted(f, D)
  BY <1>3, <1>5 DEF Sorted
<1> QED
  BY <1>f, <1>3, <1>4, <1>6, <1>7 DEF n, f

(* The order of freeze on the numbers of operations os.                    *)
LEMMA FreezeIs ==
  ASSUME NEW os \in Ops, NEW S \in SUBSET (1..Len(os))
  PROVE  /\ Freeze(S, os) \in Seq(S)
         /\ ToSet(Freeze(S, os)) = S
         /\ InOrderOfKeys(os, Freeze(S, os))
<1> DEFINE D == [x \in S |-> {y \in S : Below(os, y, x)}]
           f == Ranked(S, D)
<1>1. StrictOrder(S, D)
  <2>1. IsFiniteSet(1..Len(os))
    BY FS_Interval DEF Ops
  <2>2. IsFiniteSet(S)
    BY <2>1, FS_Subset
  <2>3. \A x \in S : x \notin D[x]
    BY BelowOrder
  <2>4. ASSUME NEW x \in S, NEW y \in S, x \in D[y] PROVE D[x] \subseteq D[y]
    BY <2>4, BelowOrder
  <2>5. \A x, y \in S : x \in D[y] \/ y \in D[x] \/ x = y
    BY BelowOrder
  <2>6. D \in [S -> SUBSET S]
    OBVIOUS
  <2> HIDE DEF D
  <2> QED
    BY <2>2, <2>3, <2>4, <2>5, <2>6 DEF StrictOrder
<1>2. Freeze(S, os) = f
  BY DEF Freeze, InOrder, Below
<1>3. f \in Seq(S) /\ ToSet(f) = S /\ Sorted(f, D)
  <2> HIDE DEF D
  <2> QED
    BY <1>1, RankedIs
<1> HIDE DEF f
<1>4. InOrderOfKeys(os, f)
  <2>1. \A i \in 1..Len(f) : f[i] \in S
    BY <1>3
  <2> QED
    BY <2>1, <1>3 DEF InOrderOfKeys, Sorted
<1> QED
  BY <1>2, <1>3, <1>4

(* A set of positions that holds all before each of its members.           *)
LEMMA InitialSegment ==
  ASSUME NEW L \in Nat, NEW B \in SUBSET (1..L), \A n \in B : \A m \in 1..n : m \in B
  PROVE  Cardinality(B) \in 0..L /\ B = 1..Cardinality(B)
<1>1. CASE B = {}
  <2>1. Cardinality(B) = 0
    BY <1>1, FS_EmptySet
  <2>2. 1..0 = {}
    OBVIOUS
  <2> QED
    BY <1>1, <2>1, <2>2
<1>2. CASE B # {}
  <2>1. B \in SUBSET Nat /\ \A y \in B : y <= L
    OBVIOUS
  <2>2. Max(B) \in B /\ \A y \in B : y <= Max(B)
    BY <1>2, <2>1, MaxIs
  <2>3. PICK b \in B : \A y \in B : y <= b
    BY <2>2
  <2>4. B = 1..b
    <3>1. \A m \in 1..b : m \in B
      BY <2>3
    <3>2. \A y \in B : y \in 1..b
      BY <2>3
    <3> QED
      BY <3>1, <3>2
  <2>5. Cardinality(1..b) = b
    BY <2>3, FS_Interval
  <2> QED
    BY <2>3, <2>4, <2>5
<1> QED
  BY <1>1, <1>2

LEMMA Beginning ==
  ASSUME NEW X, NEW s \in Seq(X), NEW m \in 0..Len(s)
  PROVE  /\ SubSeq(s, 1, m) \in Seq(X) /\ Len(SubSeq(s, 1, m)) = m
         /\ \A i \in 1..m : SubSeq(s, 1, m)[i] = s[i]
         /\ ToSet(SubSeq(s, 1, m)) = {s[i] : i \in 1..m}
<1>0. Len(s) \in Nat /\ m \in Nat /\ m <= Len(s)
  OBVIOUS
<1>1. /\ SubSeq(s, 1, m) \in Seq(X) /\ Len(SubSeq(s, 1, m)) = m
      /\ \A i \in 1..m : SubSeq(s, 1, m)[i] = s[i]
  BY <1>0
<1>2. DOMAIN SubSeq(s, 1, m) = 1..m
  BY <1>1
<1> QED
  BY <1>1, <1>2 DEF ToSet

LEMMA Rest ==
  ASSUME NEW X, NEW s \in Seq(X), NEW m \in 0..Len(s)
  PROVE  /\ SubSeq(s, m + 1, Len(s)) \in Seq(X) /\ Len(SubSeq(s, m + 1, Len(s))) = Len(s) - m
         /\ \A i \in 1..(Len(s) - m) : SubSeq(s, m + 1, Len(s))[i] = s[m + i]
<1>0. Len(s) \in Nat /\ m \in Nat /\ m <= Len(s)
  OBVIOUS
<1>1. SubSeq(s, m + 1, Len(s)) \in Seq(X)
  BY <1>0
<1>2. Len(SubSeq(s, m + 1, Len(s))) = Len(s) - m
  BY <1>0
<1>3. \A i \in 1..(Len(s) - m) : SubSeq(s, m + 1, Len(s))[i] = s[m + i]
  BY <1>0
<1> QED
  BY <1>1, <1>2, <1>3

(* take_while stops at the first that is not wanted.                       *)
LEMMA TakeWhileIs ==
  ASSUME NEW X, NEW s \in Seq(X), NEW T
  PROVE  \E m \in 0..Len(s) : /\ TakeWhile(s, T) = SubSeq(s, 1, m)
                              /\ \A i \in 1..m : s[i] \in T
                              /\ m < Len(s) => s[m + 1] \notin T
<1> DEFINE K == {n \in 0..Len(s) : \A i \in 1..n : s[i] \in T}
           m == Max(K)
<1>0. Len(s) \in Nat
  OBVIOUS
<1>1. m \in K /\ \A n \in K : n <= m
  <2>1. 0 \in K
    BY <1>0
  <2>2. K \in SUBSET Nat /\ \A y \in K : y <= Len(s)
    BY <1>0
  <2> HIDE DEF K
  <2> QED
    BY <2>1, <2>2, <1>0, MaxIs
<1>2. TakeWhile(s, T) = SubSeq(s, 1, m)
  BY DEF TakeWhile
<1> HIDE DEF m
<1>3. m < Len(s) => s[m + 1] \notin T
  <2> SUFFICES ASSUME m < Len(s), s[m + 1] \in T PROVE FALSE
    OBVIOUS
  <2>1. m + 1 \in K
    BY <1>0, <1>1
  <2> QED
    BY <1>0, <1>1, <2>1
<1> QED
  BY <1>1, <1>2, <1>3

(* A delta in its order, and what is wanted together in that order: all of *)
(* it is found.                                                            *)
LEMMA FindIs ==
  ASSUME ops \in Ops, frozen \in Seq(Numbers), tail \in Seq(Numbers),
         InOrderOfKeys(ops, frozen),
         NEW from, Keyed(from), NEW T \in SUBSET Numbers,
         \A i \in T : ~KeyLess(ops[i], from),
         \A i \in T, j \in Numbers :
           ~KeyLess(ops[j], from) /\ (KeyLess(ops[j], ops[i]) \/ SameKey(ops[j], ops[i])) => j \in T
  PROVE  Find(from, T) = Pending \cap T
<1> DEFINE L == Len(frozen)
           B == {n \in DOMAIN frozen : KeyLess(ops[frozen[n]], from)}
           b == Cardinality(B)
           s == SubSeq(frozen, b + 1, L)
<1>0. L \in Nat /\ DOMAIN frozen = 1..L /\ \A n \in 1..L : frozen[n] \in Numbers
  OBVIOUS
<1>1. \A i \in Numbers : Keyed(ops[i])
  <2>1. \A i \in Numbers : ops[i] \in OpType
    BY DEF Ops, Numbers
  <2> QED
    BY <2>1, OpIsKeyed
<1>2. b \in 0..L /\ B = 1..b
  <2>1. ASSUME NEW n \in B, NEW m \in 1..n, m < n PROVE m \in B
    <3>1. n \in 1..L /\ m \in 1..L
      BY <1>0
    <3>2. Below(ops, frozen[m], frozen[n])
      BY <2>1, <3>1 DEF InOrderOfKeys
    <3>3. KeyLess(ops[frozen[n]], from)
      OBVIOUS
    <3>4. KeyLess(ops[frozen[m]], from)
      BY <3>1, <3>2, <3>3, <1>0, <1>1, KeyOrder DEF Below
    <3> QED
      BY <3>1, <3>4, <1>0
  <2>2. B \in SUBSET (1..L)
    BY <1>0
  <2>3. \A n \in B : \A m \in 1..n : m \in B
    <3> TAKE n \in B
    <3> TAKE m \in 1..n
    <3>1. n \in Nat /\ m \in Nat /\ m <= n
      BY <2>2
    <3>2. CASE m = n
      BY <3>2
    <3>3. CASE m < n
      BY <3>3, <2>1
    <3> QED
      BY <3>1, <3>2, <3>3
  <2> HIDE DEF B
  <2> QED
    BY <2>2, <2>3, <1>0, InitialSegment
<1>3. s \in Seq(Numbers) /\ Len(s) = L - b /\ \A i \in 1..(L - b) : s[i] = frozen[b + i]
  <2> HIDE DEF b
  <2>1. b \in 0..Len(frozen)
    BY <1>2
  <2> QED
    BY <2>1, Rest
<1> HIDE DEF s
<1>4. PICK m \in 0..Len(s) : /\ TakeWhile(s, T) = SubSeq(s, 1, m)
                             /\ \A i \in 1..m : s[i] \in T
                             /\ m < Len(s) => s[m + 1] \notin T
  BY <1>3, TakeWhileIs
<1> DEFINE found == TakeWhile(s, T)
<1>5. Find(from, T) = ToSet(found) \cup (ToSet(tail) \cap T)
  BY DEF Find, s
<1>6. ToSet(found) = {s[i] : i \in 1..m}
  <2>1. s \in Seq(Numbers)
    BY <1>3
  <2> HIDE DEF L, B, b, found
  <2>2. ToSet(SubSeq(s, 1, m)) = {s[i] : i \in 1..m}
    BY <2>1, Beginning
  <2> QED
    BY <2>2, <1>4 DEF found
<1> HIDE DEF b, found
<1>7. ToSet(found) \subseteq ToSet(frozen) \cap T
  <2> SUFFICES ASSUME NEW i \in 1..m PROVE s[i] \in T /\ s[i] \in ToSet(frozen)
    BY <1>6
  <2>1. i \in 1..(L - b) /\ b + i \in 1..L
    BY <1>0, <1>2, <1>3
  <2> QED
    BY <2>1, <1>0, <1>3, <1>4 DEF ToSet
<1>8. ASSUME NEW q \in 1..L, frozen[q] \in T PROVE frozen[q] \in ToSet(found)
  <2>1. q \notin B
    BY <1>8
  <2>2. q - b \in 1..(L - b) /\ b + (q - b) = q /\ s[q - b] = frozen[q]
    <3> HIDE DEF B
    <3>1. q - b \in 1..(L - b) /\ b + (q - b) = q
      BY <2>1, <1>0, <1>2
    <3> QED
      BY <3>1, <1>3
  <2>3. q - b <= m
    <3> SUFFICES ASSUME m < q - b PROVE FALSE
      BY <1>2, <1>3, <1>4, <1>0
    <3> DEFINE r == b + (m + 1)
    <3>1. /\ m + 1 \in 1..(L - b) /\ m < Len(s) /\ r \in 1..L /\ r <= q /\ ~(r \in 1..b)
          /\ s[m + 1] = frozen[r]
      BY <1>0, <1>2, <1>3, <2>2
    <3> HIDE DEF r
    <3>2. frozen[r] \notin T /\ frozen[r] \in Numbers /\ ~KeyLess(ops[frozen[r]], from)
      <4>1. frozen[r] \notin T /\ frozen[r] \in Numbers
        BY <3>1, <1>0, <1>4
      <4>2. r \notin B
        BY <3>1, <1>2
      <4> QED
        BY <4>1, <4>2, <3>1, <1>0
    <3>3. CASE r = q
      BY <3>2, <3>3, <1>8
    <3>4. CASE r < q
      <4>1. Below(ops, frozen[r], frozen[q])
        BY <3>1, <3>4 DEF InOrderOfKeys
      <4> QED
        BY <4>1, <3>2, <1>8 DEF Below
    <3> QED
      BY <3>1, <3>3, <3>4, <1>0
  <2>4. q - b \in 1..m
    BY <2>2, <2>3, <1>0, <1>2
  <2> QED
    BY <2>2, <2>4, <1>6
<1>9. ToSet(frozen) \cap T \subseteq ToSet(found)
  BY <1>8, <1>0 DEF ToSet
<1> QED
  BY <1>5, <1>7, <1>9 DEF Pending

(* What a lookup of the delta relies on.                                   *)
DeltaReads == /\ ops \in Ops /\ frozen \in Seq(Numbers) /\ tail \in Seq(Numbers)
              /\ InOrderOfKeys(ops, frozen)

(* So the three lookups of the delta find all that is pending.             *)
LEMMA OpsForIs ==
  ASSUME DeltaReads, NEW k \in Key
  PROVE  OpsFor(k) = {i \in Pending : SameKey(ops[i], k)}
<1> DEFINE T == {i \in Numbers : SameKey(ops[i], k)}
<1>1. Keyed(k) /\ \A i \in Numbers : Keyed(ops[i])
  <2>1. \A i \in Numbers : ops[i] \in OpType
    BY DEF DeltaReads, Ops, Numbers
  <2> QED
    BY <2>1, OpIsKeyed, KeysAssumption DEF Key, Keyed
<1>2. \A i \in T : ~KeyLess(ops[i], k)
  BY <1>1, KeyOrder
<1>3. ASSUME NEW i \in T, NEW j \in Numbers, ~KeyLess(ops[j], k),
             KeyLess(ops[j], ops[i]) \/ SameKey(ops[j], ops[i])
      PROVE  j \in T
  <2>1. SameKey(ops[i], k)
    OBVIOUS
  <2>2. CASE SameKey(ops[j], ops[i])
    BY <2>1, <2>2 DEF SameKey
  <2>3. CASE KeyLess(ops[j], ops[i])
    BY <2>1, <2>3, <1>1, <1>3, KeyOrder
  <2> QED
    BY <1>3, <2>2, <2>3
<1>4. Find(k, T) = Pending \cap T
  <2>1. T \in SUBSET Numbers
    OBVIOUS
  <2> HIDE DEF T
  <2> QED
    BY <2>1, <1>1, <1>2, <1>3, FindIs DEF DeltaReads
<1>5. Pending \subseteq Numbers
  BY DEF Pending, DeltaReads, ToSet
<1> QED
  BY <1>4, <1>5 DEF OpsFor

(* The lookups by code and by prefix begin before the first text of it.    *)
LEMMA FromFirstText ==
  ASSUME NEW c \in Seq(Nat), NEW x, Keyed(x)
  PROVE  LET from == [code |-> c, text |-> FirstText]
         IN /\ Keyed(from)
            /\ KeyLess(x, from) <=> CodeLess(x.code, c)
<1>1. x.text \in Nat /\ ~(x.text < 0)
  BY DEF Keyed
<1> QED
  BY <1>1 DEF Keyed, KeyLess, FirstText

LEMMA PrefixOpsIs ==
  ASSUME DeltaReads, NEW p \in Seq(Nat)
  PROVE  PrefixOps(p) = {i \in Pending : IsPrefix(p, ops[i].code)}
<1> DEFINE T == {i \in Numbers : IsPrefix(p, ops[i].code)}
           from == [code |-> p, text |-> FirstText]
<1>1. \A i \in Numbers : Keyed(ops[i])
  <2>1. \A i \in Numbers : ops[i] \in OpType
    BY DEF DeltaReads, Ops, Numbers
  <2> QED
    BY <2>1, OpIsKeyed
<1>2. \A i \in Numbers : KeyLess(ops[i], from) <=> CodeLess(ops[i].code, p)
  BY <1>1, FromFirstText
<1>3. \A i \in T : ~KeyLess(ops[i], from)
  BY <1>1, <1>2, PrefixOrder DEF Keyed
<1>4. ASSUME NEW i \in T, NEW j \in Numbers, ~KeyLess(ops[j], from),
             KeyLess(ops[j], ops[i]) \/ SameKey(ops[j], ops[i])
      PROVE  j \in T
  <2>1. ~CodeLess(ops[j].code, p)
    BY <1>2, <1>4
  <2>2. CodeLess(ops[j].code, ops[i].code) \/ ops[j].code = ops[i].code
    BY <1>4 DEF KeyLess, SameKey
  <2>3. ops[i].code \in Seq(Nat) /\ ops[j].code \in Seq(Nat) /\ IsPrefix(p, ops[i].code)
    BY <1>1 DEF Keyed
  <2> QED
    BY <2>1, <2>2, <2>3, PrefixOrder
<1>5. Find(from, T) = Pending \cap T
  <2>1. T \in SUBSET Numbers
    OBVIOUS
  <2>2. Keyed(from)
    BY DEF Keyed, FirstText
  <2> HIDE DEF T, from
  <2> QED
    BY <2>1, <2>2, <1>3, <1>4, FindIs DEF DeltaReads
<1>6. Pending \subseteq Numbers
  BY DEF Pending, DeltaReads, ToSet
<1> QED
  BY <1>5, <1>6 DEF PrefixOps

LEMMA ExactOpsIs ==
  ASSUME DeltaReads, NEW c \in Seq(Nat)
  PROVE  ExactOps(c) = {i \in Pending : ops[i].code = c}
<1> DEFINE T == {i \in Numbers : ops[i].code = c}
           from == [code |-> c, text |-> FirstText]
<1>1. \A i \in Numbers : Keyed(ops[i])
  <2>1. \A i \in Numbers : ops[i] \in OpType
    BY DEF DeltaReads, Ops, Numbers
  <2> QED
    BY <2>1, OpIsKeyed
<1>2. \A i \in Numbers : KeyLess(ops[i], from) <=> CodeLess(ops[i].code, c)
  BY <1>1, FromFirstText
<1>3. \A i \in T : ~KeyLess(ops[i], from)
  BY <1>2, CodeOrder
<1>4. ASSUME NEW i \in T, NEW j \in Numbers, ~KeyLess(ops[j], from),
             KeyLess(ops[j], ops[i]) \/ SameKey(ops[j], ops[i])
      PROVE  j \in T
  <2>1. ~CodeLess(ops[j].code, c)
    BY <1>2, <1>4
  <2>2. CodeLess(ops[j].code, c) \/ ops[j].code = c
    BY <1>4 DEF KeyLess, SameKey
  <2> QED
    BY <2>1, <2>2
<1>5. Find(from, T) = Pending \cap T
  <2>1. T \in SUBSET Numbers
    OBVIOUS
  <2>2. Keyed(from)
    BY DEF Keyed, FirstText
  <2> HIDE DEF T, from
  <2> QED
    BY <2>1, <2>2, <1>3, <1>4, FindIs DEF DeltaReads
<1>6. Pending \subseteq Numbers
  BY DEF Pending, DeltaReads, ToSet
<1> QED
  BY <1>5, <1>6 DEF ExactOps

-----------------------------------------------------------------------------
(* The keys of some codes.                                                 *)
Keys(codes) == [code : codes, text : Text]

(* The words of some codes: each entry from the meaning of its own key.    *)
LEMMA MeantHas ==
  ASSUME ops \in Ops, NEW codes \in SUBSET Code, NEW n \in 0..Len(ops)
  PROVE  /\ Meant(codes, n) \in SUBSET Entry
         /\ \A e : e \in Meant(codes, n) <=> \E k \in Keys(codes) : e \in Meaning(ops, k, n)
         /\ \A k \in Keys(codes) : {e \in Meant(codes, n) : SameKey(e, k)} = Meaning(ops, k, n)
<1>1. Keys(codes) \subseteq Key
  BY DEF Keys, Key
<1>2. \A e : e \in Meant(codes, n) <=> \E k \in Keys(codes) : e \in Meaning(ops, k, n)
  BY DEF Meant, Keys
<1>3. \A k \in Keys(codes) : Meaning(ops, k, n) \in SUBSET Entry
  BY <1>1, MeaningType
<1>4. ASSUME NEW k \in Keys(codes)
      PROVE  {e \in Meant(codes, n) : SameKey(e, k)} = Meaning(ops, k, n)
  <2>1. ASSUME NEW e \in Meant(codes, n), SameKey(e, k) PROVE e \in Meaning(ops, k, n)
    <3>1. PICK l \in Keys(codes) : e \in Meaning(ops, l, n)
      BY <1>2
    <3>2. SameKey(e, l)
      BY <3>1, MeaningHasKey
    <3>3. k = l
      <4>1. k.code = l.code /\ k.text = l.text
        BY <2>1, <3>2 DEF SameKey
      <4>2. k = [code |-> k.code, text |-> k.text] /\ l = [code |-> l.code, text |-> l.text]
        BY DEF Keys
      <4> QED
        BY <4>1, <4>2, Zenon
    <3> QED
      BY <3>1, <3>3
  <2>2. ASSUME NEW e \in Meaning(ops, k, n) PROVE e \in Meant(codes, n) /\ SameKey(e, k)
    BY <1>2, MeaningHasKey
  <2> QED
    BY <2>1, <2>2
<1> QED
  BY <1>2, <1>3, <1>4

(* Entries up to m and all later operations of their keys up to n give the *)
(* entries up to n.                                                        *)
LEMMA OverlayMeans ==
  ASSUME ops \in Ops, NEW codes \in SUBSET Code, NEW m \in Nat, NEW n \in Nat,
         m <= n, n <= Len(ops),
         NEW S, S = {i \in (m + 1)..n : ops[i].code \in codes}
  PROVE  OverlayEntries(Meant(codes, m), S) = Meant(codes, n)
<1> DEFINE base == Meant(codes, m)
           KeyOf(i) == [code |-> ops[i].code, text |-> ops[i].text]
           untouched == {e \in base : \A i \in S : ~SameKey(e, ops[i])}
           Touched(k) == ApplyOps({e \in base : SameKey(e, k)}, {i \in S : SameKey(ops[i], k)})
<1>0. Len(ops) \in Nat /\ m \in 0..Len(ops) /\ n \in 0..Len(ops)
  BY DEF Ops
<1>1. Keys(codes) \subseteq Key
  BY DEF Keys, Key
<1>2. \A i \in S : KeyOf(i) \in Keys(codes)
  <2> TAKE i \in S
  <2>1. i \in 1..Len(ops)
    BY <1>0
  <2>2. ops[i] \in OpType
    BY <2>1 DEF Ops
  <2> QED
    BY <2>2 DEF OpType, Keys
<1>3. /\ \A e : e \in base <=> \E k \in Keys(codes) : e \in Meaning(ops, k, m)
      /\ \A k \in Keys(codes) : {e \in base : SameKey(e, k)} = Meaning(ops, k, m)
      /\ \A e : e \in Meant(codes, n) <=> \E k \in Keys(codes) : e \in Meaning(ops, k, n)
  BY <1>0, MeantHas
<1> HIDE DEF base
<1>4. ASSUME NEW k \in Keys(codes)
      PROVE  Touched(k) = Meaning(ops, k, n)
  <2>1. {i \in S : SameKey(ops[i], k)} = {i \in (m + 1)..n : SameKey(ops[i], k)}
    BY DEF SameKey, Keys
  <2>2. Applied(ops, Meaning(ops, k, m), {i \in (m + 1)..n : SameKey(ops[i], k)})[Len(ops)]
          = Meaning(ops, k, n)
    BY <1>1, AppliedMeans
  <2> QED
    BY <1>3, <2>1, <2>2 DEF ApplyOps
<1>5. ASSUME NEW i \in S PROVE Touched(ops[i]) = Touched(KeyOf(i))
  BY DEF SameKey
<1>6. OverlayEntries(base, S) = untouched \cup UNION {Touched(ops[i]) : i \in S}
  BY DEF OverlayEntries
<1>7. ASSUME NEW k \in Keys(codes), \A i \in S : ~SameKey(ops[i], k)
      PROVE  Meaning(ops, k, n) = Meaning(ops, k, m)
  <2>1. \A i \in (m + 1)..n : ~SameKey(ops[i], k)
    BY <1>7 DEF SameKey, Keys
  <2> QED
    BY <2>1, <1>1, MeaningKept
<1> HIDE DEF Touched
<1>8. untouched \cup UNION {Touched(ops[i]) : i \in S} \subseteq Meant(codes, n)
  <2>1. ASSUME NEW e \in untouched PROVE e \in Meant(codes, n)
    <3>1. PICK k \in Keys(codes) : e \in Meaning(ops, k, m)
      BY <1>3
    <3>2. SameKey(e, k)
      BY <3>1, MeaningHasKey
    <3>3. \A i \in S : ~SameKey(ops[i], k)
      BY <3>2 DEF SameKey
    <3> QED
      BY <3>1, <3>3, <1>3, <1>7
  <2>2. ASSUME NEW i \in S, NEW e \in Touched(ops[i]) PROVE e \in Meant(codes, n)
    BY <2>2, <1>2, <1>3, <1>4, <1>5
  <2> QED
    BY <2>1, <2>2
<1>9. ASSUME NEW e \in Meant(codes, n)
      PROVE  e \in untouched \cup UNION {Touched(ops[i]) : i \in S}
  <2>1. PICK k \in Keys(codes) : e \in Meaning(ops, k, n)
    BY <1>3
  <2>2. SameKey(e, k)
    BY <2>1, MeaningHasKey
  <2>3. CASE \E i \in S : SameKey(ops[i], k)
    <3>1. PICK i \in S : SameKey(ops[i], k)
      BY <2>3
    <3>2. KeyOf(i) = k
      BY <3>1 DEF SameKey, Keys
    <3>3. e \in Touched(ops[i])
      BY <2>1, <3>2, <1>4, <1>5
    <3> QED
      BY <3>3
  <2>4. CASE \A i \in S : ~SameKey(ops[i], k)
    <3>1. e \in base
      BY <2>1, <2>4, <1>3, <1>7
    <3>2. \A i \in S : ~SameKey(e, ops[i])
      BY <2>2, <2>4 DEF SameKey
    <3> QED
      BY <3>1, <3>2
  <2> QED
    BY <2>3, <2>4
<1> QED
  BY <1>6, <1>8, <1>9 DEF base

LEMMA ToSetConcat ==
  ASSUME NEW X, NEW s \in Seq(X), NEW t \in Seq(X)
  PROVE  ToSet(s \o t) = ToSet(s) \cup ToSet(t)
<1>1. /\ ToSet(s) = {s[i] : i \in 1..Len(s)} /\ ToSet(t) = {t[i] : i \in 1..Len(t)}
      /\ ToSet(s \o t) = {(s \o t)[i] : i \in 1..(Len(s) + Len(t))}
  BY DEF ToSet
<1>2. \A i \in 1..(Len(s) + Len(t)) : (s \o t)[i] = IF i <= Len(s) THEN s[i] ELSE t[i - Len(s)]
  OBVIOUS
<1>3. ToSet(s \o t) \subseteq ToSet(s) \cup ToSet(t)
  BY <1>1, <1>2
<1>4. ASSUME NEW i \in 1..Len(s) PROVE s[i] \in ToSet(s \o t)
  <2>1. i \in 1..(Len(s) + Len(t)) /\ (s \o t)[i] = s[i]
    OBVIOUS
  <2> QED
    BY <2>1, <1>1
<1>5. ASSUME NEW i \in 1..Len(t) PROVE t[i] \in ToSet(s \o t)
  <2>1. Len(s) + i \in 1..(Len(s) + Len(t)) /\ (s \o t)[Len(s) + i] = t[i]
    OBVIOUS
  <2> QED
    BY <2>1, <1>1
<1>6. ToSet(s) \subseteq ToSet(s \o t)
  BY <1>1, <1>4
<1>7. ToSet(t) \subseteq ToSet(s \o t)
  BY <1>1, <1>5
<1> QED
  BY <1>3, <1>6, <1>7

(* A delta as the invariant wants it, with the numbers S.                  *)
IsDelta(d, os, S) ==
  /\ d.frozen \in Seq(1..Len(os)) /\ d.tail \in Seq(1..Len(os))
  /\ Len(d.tail) <= TailMax
  /\ InOrderOfKeys(os, d.frozen)
  /\ ToSet(d.frozen) \cup ToSet(d.tail) = S

(* Delta::with_all keeps the order and loses none, whether it appends to   *)
(* the tail or freezes.                                                    *)
LEMMA WithAllIs ==
  ASSUME NEW os \in Ops, NEW core \in Seq(1..Len(os)), NEW old \in Seq(1..Len(os)),
         NEW new \in Seq(1..Len(os)), InOrderOfKeys(os, core)
  PROVE  IsDelta(WithAll(core, old, new, os), os, ToSet(core) \cup ToSet(old) \cup ToSet(new))
<1> USE DEF IsDelta
<1> DEFINE N == 1..Len(os)
           all == ToSet(core) \cup ToSet(old) \cup ToSet(new)
<1>1. CASE Len(old) + Len(new) <= TailMax
  <2>1. WithAll(core, old, new, os) = [frozen |-> core, tail |-> old \o new]
    BY <1>1 DEF WithAll
  <2>2. old \o new \in Seq(N) /\ Len(old \o new) = Len(old) + Len(new)
    OBVIOUS
  <2>3. ToSet(old \o new) = ToSet(old) \cup ToSet(new)
    BY ToSetConcat
  <2> QED
    BY <2>1, <2>2, <2>3, <1>1
<1>2. CASE ~(Len(old) + Len(new) <= TailMax)
  <2>1. WithAll(core, old, new, os) = [frozen |-> Freeze(all, os), tail |-> <<>>]
    BY <1>2 DEF WithAll
  <2>2. all \in SUBSET N
    BY DEF ToSet
  <2> HIDE DEF all
  <2>3. /\ Freeze(all, os) \in Seq(all)
        /\ ToSet(Freeze(all, os)) = all
        /\ InOrderOfKeys(os, Freeze(all, os))
    BY <2>2, FreezeIs
  <2>4. Freeze(all, os) \in Seq(N)
    BY <2>2, <2>3, SeqMonotonic
  <2>5. <<>> \in Seq(N) /\ Len(<<>>) = 0 /\ ToSet(<<>>) = {} /\ 0 <= TailMax
    BY NumbersAssumption DEF ToSet
  <2> QED
    <3>1. /\ WithAll(core, old, new, os).frozen = Freeze(all, os)
          /\ WithAll(core, old, new, os).tail = <<>>
      BY <2>1
    <3> QED
      BY <3>1, <2>3, <2>4, <2>5 DEF all
<1> QED
  BY <1>1, <1>2

-----------------------------------------------------------------------------
(* The delta holds exactly what lies above the watermark, its frozen part  *)
(* in order.                                                               *)
DeltaInv == InOrderOfKeys(ops, frozen) /\ Pending = (max + 1)..Len(ops)

(* A fold under way has what all operations up to its beginning mean, and  *)
(* is not behind the segment.                                              *)
FoldInv == fold # NoFold => max <= fold.upto /\ fold.seg = Meant(Code, fold.upto)

(* All that every step keeps.                                              *)
IInv == TypeOK /\ DeltaInv /\ FoldInv /\ SegmentHoldsFolded

LEMMA ReadsWell ==
  ASSUME IInv
  PROVE  /\ DeltaReads /\ Len(ops) \in Nat /\ max \in Nat /\ max <= Len(ops)
         /\ Pending = (max + 1)..Len(ops)
<1>1. ops \in Ops
  BY DEF IInv, TypeOK, Ops
<1>2. Len(ops) \in Nat
  BY <1>1 DEF Ops
<1> QED
  BY <1>1, <1>2 DEF IInv, TypeOK, DeltaInv, DeltaReads

(* Every lookup of the delta finds all there is.                           *)
LEMMA EmptyPrefixOps ==
  ASSUME IInv
  PROVE  PrefixOps(<<>>) = (max + 1)..Len(ops)
<1>1. <<>> \in Seq(Nat)
  OBVIOUS
<1>2. PrefixOps(<<>>) = {i \in Pending : IsPrefix(<<>>, ops[i].code)}
  BY <1>1, ReadsWell, PrefixOpsIs
<1>3. \A i \in Pending : IsPrefix(<<>>, ops[i].code)
  <2> TAKE i \in Pending
  <2>1. i \in Numbers
    BY ReadsWell DEF DeltaReads, Pending, ToSet
  <2>2. ops[i] \in OpType
    BY <2>1, ReadsWell DEF DeltaReads, Ops, Numbers
  <2>3. ops[i].code \in Seq(Nat)
    BY <2>2, OpIsKeyed DEF Keyed
  <2>4. Len(<<>>) = 0 /\ Len(ops[i].code) \in Nat /\ 1..0 = {} /\ 0 <= Len(ops[i].code)
    BY <2>3
  <2> DEFINE c == ops[i].code
             none == <<>>
  <2>5. none \in Seq(Nat) /\ c \in Seq(Nat) /\ Len(none) = 0 /\ 0 <= Len(c)
    BY <1>1, <2>3, <2>4
  <2>6. \A j \in 1..Len(none) : none[j] = c[j]
    BY <2>4, <2>5
  <2> HIDE DEF c, none
  <2>7. IsPrefix(none, c)
    BY <2>5, <2>6, PrefixIs
  <2> QED
    BY <2>7 DEF c, none
<1> QED
  BY <1>2, <1>3, ReadsWell

(* The lookup of one word, over segment, frozen part and tail.             *)
LEMMA GetIsMeant ==
  ASSUME IInv, NEW k \in Key
  PROVE  Get(k) = Meaning(ops, k, Len(ops))
<1>0. ops \in Ops /\ Len(ops) \in Nat /\ max \in 0..Len(ops)
  BY ReadsWell DEF DeltaReads
<1>1. OpsFor(k) = {i \in (max + 1)..Len(ops) : SameKey(ops[i], k)}
  BY ReadsWell, OpsForIs
<1>2. {e \in seg : SameKey(e, k)} = Meaning(ops, k, max)
  <2>1. k \in Keys(Code) /\ Code \in SUBSET Code
    BY DEF Keys, Key
  <2>2. {e \in Meant(Code, max) : SameKey(e, k)} = Meaning(ops, k, max)
    BY <1>0, <2>1, MeantHas
  <2> QED
    BY <2>2 DEF IInv, SegmentHoldsFolded
<1> DEFINE S == {i \in (max + 1)..Len(ops) : SameKey(ops[i], k)}
<1>3. Applied(ops, Meaning(ops, k, max), S)[Len(ops)] = Meaning(ops, k, Len(ops))
  BY <1>0, AppliedMeans
<1> QED
  BY <1>1, <1>2, <1>3 DEF Get, ApplyOps

(* The lookup of one code.                                                 *)
LEMMA ExactIsMeant ==
  ASSUME IInv, NEW c \in Code
  PROVE  Exact(c) = InKeyOrder(Meant({c}, Len(ops)))
<1>0. ops \in Ops /\ Len(ops) \in Nat /\ max \in Nat /\ max <= Len(ops) /\ max \in 0..Len(ops)
  BY ReadsWell DEF DeltaReads
<1>1. ExactOps(c) = {i \in (max + 1)..Len(ops) : ops[i].code = c}
  BY ReadsWell, ExactOpsIs, KeysAssumption
<1>2. {e \in seg : e.code = c} = Meant({c}, max)
  <2>1. Code \in SUBSET Code /\ {c} \in SUBSET Code
    OBVIOUS
  <2>2. /\ \A e : e \in Meant(Code, max) <=> \E k \in Keys(Code) : e \in Meaning(ops, k, max)
        /\ \A e : e \in Meant({c}, max) <=> \E k \in Keys({c}) : e \in Meaning(ops, k, max)
    BY <1>0, <2>1, MeantHas
  <2>3. ASSUME NEW e \in seg, e.code = c PROVE e \in Meant({c}, max)
    <3>1. PICK k \in Keys(Code) : e \in Meaning(ops, k, max)
      BY <2>2 DEF IInv, SegmentHoldsFolded
    <3>2. k \in Keys({c})
      BY <2>3, <3>1, MeaningHasKey DEF SameKey, Keys
    <3> QED
      BY <3>1, <3>2, <2>2
  <2>4. ASSUME NEW e \in Meant({c}, max) PROVE e \in seg /\ e.code = c
    <3>1. PICK k \in Keys({c}) : e \in Meaning(ops, k, max)
      BY <2>2
    <3>2. k \in Keys(Code) /\ k.code = c
      BY DEF Keys
    <3> QED
      BY <3>1, <3>2, <2>2, MeaningHasKey DEF IInv, SegmentHoldsFolded, SameKey
  <2> QED
    BY <2>3, <2>4
<1> DEFINE S == {i \in (max + 1)..Len(ops) : ops[i].code \in {c}}
<1>3. ExactOps(c) = S
  BY <1>1
<1>4. OverlayEntries(Meant({c}, max), S) = Meant({c}, Len(ops))
  <2>1. {c} \in SUBSET Code /\ Len(ops) <= Len(ops)
    BY <1>0
  <2> HIDE DEF S
  <2>2. S = {i \in (max + 1)..Len(ops) : ops[i].code \in {c}}
    BY DEF S
  <2> QED
    BY <1>0, <2>1, <2>2, OverlayMeans
<1> QED
  BY <1>2, <1>3, <1>4 DEF Exact

-----------------------------------------------------------------------------
(* In the beginning there is nothing.                                      *)
LEMMA Initially == Init => IInv
<1> SUFFICES ASSUME Init PROVE IInv
  OBVIOUS
<1>1. ops = <<>> /\ frozen = <<>> /\ tail = <<>> /\ seg = {} /\ max = 0 /\ fold = NoFold
  BY DEF Init
<1>2. Len(ops) = 0 /\ 1..0 = {} /\ ToSet(<<>>) = {}
  BY <1>1 DEF ToSet
<1>3. TypeOK
  BY <1>1, <1>2, NumbersAssumption DEF TypeOK, NoFold
<1>4. DeltaInv
  BY <1>1, <1>2 DEF DeltaInv, InOrderOfKeys, Pending
<1>5. Meant(Code, 0) = {}
  BY MeaningOfNone DEF Meant
<1> QED
  BY <1>1, <1>3, <1>4, <1>5 DEF IInv, FoldInv, SegmentHoldsFolded

(* What is written later leaves the meaning of the first operations.       *)
LEMMA MeantKept ==
  ASSUME ops \in Ops, ops' \in Ops, Len(ops) <= Len(ops'), \A i \in 1..Len(ops) : ops'[i] = ops[i],
         NEW n \in 0..Len(ops)
  PROVE  UNION {Meaning(ops', k, n) : k \in [code : Code, text : Text]} = Meant(Code, n)
<1>1. \A k \in Key : Meaning(ops', k, n) = Meaning(ops, k, n)
  <2>1. Len(ops) \in Nat
    BY DEF Ops
  <2> QED
    BY <2>1, MeaningStable
<1> QED
  BY <1>1 DEF Meant, Key

(* apply_batch: the delta takes the batch, the meaning of what came before *)
(* stays.                                                                  *)
LEMMA WriteStep == ASSUME IInv, NEW b \in Batches, Write(b) PROVE IInv'
<1>0. /\ ops \in Ops /\ Len(ops) \in Nat /\ max \in Nat /\ max <= Len(ops)
      /\ Pending = (max + 1)..Len(ops)
  BY ReadsWell DEF DeltaReads
<1>1. b \in Ops /\ Len(b) \in Nat
  <2>1. PICK n \in 1..MaxBatch :
          b \in [1..n -> {[code |-> c, text |-> t, op |-> o.op, arg |-> o.arg]
                            : c \in Code, t \in Text, o \in Op}]
    BY DEF Batches
  <2>2. n \in Nat
    BY NumbersAssumption
  <2>3. {[code |-> c, text |-> t, op |-> o.op, arg |-> o.arg] : c \in Code, t \in Text, o \in Op}
          \subseteq OpType
    BY OpAssumption DEF OpType
  <2>4. b \in [1..n -> OpType]
    BY <2>1, <2>3
  <2> QED
    BY <2>2, <2>4 DEF Ops
<1> DEFINE new == [i \in 1..Len(b) |-> Len(ops) + i]
           L == Len(ops) + Len(b)
           d == WithAll(frozen, tail, new, ops \o b)
<1>2. /\ ops' = ops \o b /\ ops' \in Ops /\ Len(ops') = L
      /\ \A i \in 1..Len(ops) : ops'[i] = ops[i]
  BY <1>0, <1>1 DEF Write, Ops
<1>3. /\ frozen \in Seq(1..L) /\ tail \in Seq(1..L) /\ new \in Seq(1..L)
      /\ Len(tail) <= TailMax
  <2>1. frozen \in Seq(1..Len(ops)) /\ tail \in Seq(1..Len(ops)) /\ Len(tail) <= TailMax
    BY DEF IInv, TypeOK, Numbers
  <2>2. 1..Len(ops) \subseteq 1..L
    BY <1>0, <1>1
  <2>3. new \in [1..Len(b) -> 1..L]
    BY <1>0, <1>1
  <2> HIDE DEF L, new
  <2>4. frozen \in Seq(1..L)
    BY <2>1, <2>2, SeqMonotonic, Zenon
  <2>5. tail \in Seq(1..L)
    BY <2>1, <2>2, SeqMonotonic, Zenon
  <2>6. new \in Seq(1..L)
    <3> DEFINE X == 1..L
    <3>1. new \in [1..Len(b) -> X]
      BY <2>3
    <3> HIDE DEF X
    <3>2. new \in Seq(X)
      BY <3>1, <1>1
    <3> QED
      BY <3>2 DEF X
  <2> QED
    BY <2>1, <2>4, <2>5, <2>6
<1>4. InOrderOfKeys(ops', frozen)
  <2>1. InOrderOfKeys(ops, frozen) /\ frozen \in Seq(1..Len(ops))
    BY DEF IInv, DeltaInv, TypeOK, Numbers
  <2>2. \A m \in 1..Len(frozen) : frozen[m] \in 1..Len(ops)
    BY <2>1
  <2> QED
    BY <2>1, <2>2, <1>2 DEF InOrderOfKeys, Below
<1>5. frozen' = d.frozen /\ tail' = d.tail /\ UNCHANGED <<seg, max, fold>>
  BY DEF Write, SetDelta
<1>6. /\ frozen' \in Seq(1..L) /\ tail' \in Seq(1..L) /\ Len(tail') <= TailMax
      /\ InOrderOfKeys(ops', frozen')
      /\ ToSet(frozen') \cup ToSet(tail') = ToSet(frozen) \cup ToSet(tail) \cup ToSet(new)
  <2> HIDE DEF L, new
  <2>1. /\ ops \o b \in Ops /\ Len(ops \o b) = L /\ InOrderOfKeys(ops \o b, frozen)
    BY <1>2, <1>4
  <2>2. IsDelta(d, ops \o b, ToSet(frozen) \cup ToSet(tail) \cup ToSet(new))
    BY <2>1, <1>3, WithAllIs
  <2> HIDE DEF d
  <2> QED
    BY <2>1, <2>2, <1>2, <1>5 DEF IsDelta
<1>7. ToSet(new) = (Len(ops) + 1)..L
  <2>1. ToSet(new) = {Len(ops) + i : i \in 1..Len(b)}
    BY <1>1 DEF ToSet
  <2>2. \A x \in (Len(ops) + 1)..L : x - Len(ops) \in 1..Len(b) /\ Len(ops) + (x - Len(ops)) = x
    BY <1>0, <1>1
  <2>3. \A i \in 1..Len(b) : Len(ops) + i \in (Len(ops) + 1)..L
    BY <1>0, <1>1
  <2> QED
    BY <2>1, <2>2, <2>3
<1>8. TypeOK'
  <2>1. max' \in 0..Len(ops') /\ fold'.upto \in 0..Len(ops')
    BY <1>0, <1>1, <1>2, <1>5 DEF IInv, TypeOK
  <2> HIDE DEF L, d
  <2> QED
    BY <2>1, <1>2, <1>5, <1>6 DEF IInv, TypeOK, Numbers, Ops
<1>9. DeltaInv'
  <2>1. Pending' = Pending \cup ToSet(new)
    BY <1>6 DEF Pending
  <2>2. Pending' = (max + 1)..L
    BY <2>1, <1>0, <1>1, <1>7
  <2> QED
    BY <2>2, <1>2, <1>5, <1>6 DEF DeltaInv
<1>10. \A n \in 0..Len(ops) : Meant(Code, n)' = Meant(Code, n)
  <2>1. Len(ops) <= Len(ops')
    BY <1>0, <1>1, <1>2
  <2>2. \A n \in 0..Len(ops) :
          UNION {Meaning(ops', k, n) : k \in [code : Code, text : Text]} = Meant(Code, n)
    BY <2>1, <1>0, <1>2, MeantKept
  <2> QED
    BY <2>2 DEF Meant
<1>11. FoldInv'
  <2>1. fold.upto \in 0..Len(ops)
    BY DEF IInv, TypeOK
  <2> QED
    BY <2>1, <1>5, <1>10 DEF IInv, FoldInv
<1>12. SegmentHoldsFolded'
  <2>1. max \in 0..Len(ops)
    BY <1>0
  <2> QED
    BY <2>1, <1>5, <1>10 DEF IInv, SegmentHoldsFolded
<1> QED
  BY <1>8, <1>9, <1>11, <1>12 DEF IInv

(* merge_for_fold reads the whole delta and gives what all operations      *)
(* mean.                                                                   *)
LEMMA FoldBeginStep == ASSUME IInv, FoldBegin PROVE IInv'
<1>0. /\ ops \in Ops /\ Len(ops) \in Nat /\ max \in Nat /\ max <= Len(ops) /\ max \in 0..Len(ops)
      /\ Pending = (max + 1)..Len(ops)
  BY ReadsWell DEF DeltaReads
<1> DEFINE S == {i \in PrefixOps(<<>>) : i <= Len(ops)}
           s == OverlayEntries(seg, S)
<1>1. fold' = [upto |-> Len(ops), seg |-> s] /\ UNCHANGED <<ops, frozen, tail, seg, max>>
  BY DEF FoldBegin
<1>2. s = Meant(Code, Len(ops))
  <2>1. S = {i \in (max + 1)..Len(ops) : ops[i].code \in Code}
    <3>1. \A i \in (max + 1)..Len(ops) : ops[i].code \in Code
      <4> TAKE i \in (max + 1)..Len(ops)
      <4>1. ops[i] \in OpType
        BY <1>0 DEF Ops
      <4> QED
        BY <4>1 DEF OpType
    <3> QED
      BY <3>1, <1>0, EmptyPrefixOps
  <2>2. seg = Meant(Code, max)
    BY DEF IInv, SegmentHoldsFolded
  <2>3. Code \in SUBSET Code /\ Len(ops) <= Len(ops)
    BY <1>0
  <2> HIDE DEF S
  <2> QED
    BY <2>1, <2>2, <2>3, <1>0, OverlayMeans
<1> HIDE DEF s
<1>3. s \in SUBSET Entry
  <2>1. Code \in SUBSET Code /\ Len(ops) \in 0..Len(ops)
    BY <1>0
  <2>2. Meant(Code, Len(ops)) \in SUBSET Entry
    BY <1>0, <2>1, MeantHas
  <2> QED
    BY <1>2, <2>2
<1>4. TypeOK'
  <2>1. fold'.upto = Len(ops) /\ fold'.seg = s
    BY <1>1
  <2> QED
    BY <2>1, <1>0, <1>1, <1>3 DEF IInv, TypeOK, Numbers
<1>5. DeltaInv' /\ SegmentHoldsFolded'
  BY <1>1 DEF IInv, DeltaInv, SegmentHoldsFolded, Pending, Meant
<1>6. FoldInv'
  <2>1. fold'.upto = Len(ops) /\ fold'.seg = s
    BY <1>1
  <2>2. Meant(Code, Len(ops))' = Meant(Code, Len(ops))
    BY <1>1 DEF Meant
  <2> QED
    BY <2>1, <2>2, <1>0, <1>1, <1>2 DEF FoldInv, Meant
<1> QED
  BY <1>4, <1>5, <1>6 DEF IInv

(* What was written while the fold ran stays in the delta.                 *)
LEMMA FoldPublishStep == ASSUME IInv, FoldPublish PROVE IInv'
<1>0. /\ ops \in Ops /\ Len(ops) \in Nat /\ max \in Nat /\ max <= Len(ops)
      /\ Pending = (max + 1)..Len(ops)
  BY ReadsWell DEF DeltaReads
<1> DEFINE S == {i \in Pending : i > fold.upto}
<1>1. /\ fold # NoFold /\ seg' = fold.seg /\ max' = fold.upto /\ fold' = NoFold
      /\ frozen' = Freeze(S, ops) /\ tail' = <<>> /\ ops' = ops
  BY DEF FoldPublish
<1>2. max <= fold.upto /\ fold.seg = Meant(Code, fold.upto) /\ fold.upto \in 0..Len(ops)
  BY <1>1 DEF IInv, FoldInv, TypeOK
<1>3. S = (fold.upto + 1)..Len(ops) /\ S \in SUBSET (1..Len(ops))
  BY <1>0, <1>2
<1> HIDE DEF S
<1>4. frozen' \in Seq(S) /\ ToSet(frozen') = S /\ InOrderOfKeys(ops, frozen')
  BY <1>0, <1>1, <1>3, FreezeIs
<1>5. frozen' \in Seq(1..Len(ops))
  BY <1>3, <1>4, SeqMonotonic
<1>6. tail' \in Seq(1..Len(ops)) /\ Len(tail') = 0 /\ ToSet(tail') = {} /\ 0 <= TailMax
  BY <1>1, NumbersAssumption DEF ToSet
<1>7. TypeOK'
  <2>1. fold'.upto = 0 /\ fold'.seg = {} /\ 0 \in 0..Len(ops)
    BY <1>0, <1>1 DEF NoFold
  <2>2. seg' \in SUBSET Entry
    BY <1>1 DEF IInv, TypeOK
  <2> QED
    BY <2>1, <2>2, <1>1, <1>2, <1>5, <1>6 DEF IInv, TypeOK, Numbers
<1>8. DeltaInv'
  BY <1>1, <1>3, <1>4, <1>6 DEF DeltaInv, Pending
<1>9. FoldInv' /\ SegmentHoldsFolded'
  BY <1>1, <1>2 DEF FoldInv, SegmentHoldsFolded, Meant
<1> QED
  BY <1>7, <1>8, <1>9 DEF IInv

(* Whether the fold was committed or not, the rest is replayed.            *)
LEMMA ReopenStep == ASSUME IInv, Reopen PROVE IInv'
<1>0. /\ ops \in Ops /\ Len(ops) \in Nat /\ max \in Nat /\ max <= Len(ops)
  BY ReadsWell DEF DeltaReads
<1>1. PICK kept \in {[upto |-> max, seg |-> seg]} \cup ({fold} \ {NoFold}) :
        /\ seg' = kept.seg /\ max' = kept.upto
        /\ SetDelta(WithAll(<<>>, <<>>, [i \in 1..(Len(ops) - kept.upto) |-> kept.upto + i], ops))
  BY DEF Reopen
<1>2. fold' = NoFold /\ ops' = ops
  BY DEF Reopen
<1>3. kept.upto \in 0..Len(ops) /\ kept.seg = Meant(Code, kept.upto) /\ kept.seg \in SUBSET Entry
  <2>1. CASE kept = [upto |-> max, seg |-> seg]
    <3>1. kept.upto = max /\ kept.seg = seg
      BY <2>1
    <3> QED
      BY <3>1, <1>0 DEF IInv, TypeOK, SegmentHoldsFolded
  <2>2. CASE kept = fold /\ fold # NoFold
    BY <2>2 DEF IInv, TypeOK, FoldInv
  <2> QED
    BY <2>1, <2>2
<1> DEFINE u == kept.upto
           new == [i \in 1..(Len(ops) - u) |-> u + i]
           d == WithAll(<<>>, <<>>, new, ops)
<1>4. /\ <<>> \in Seq(1..Len(ops)) /\ new \in Seq(1..Len(ops)) /\ Len(new) = Len(ops) - u
      /\ InOrderOfKeys(ops, <<>>) /\ ToSet(<<>>) = {}
  <2>1. Len(ops) - u \in Nat
    BY <1>0, <1>3
  <2>2. \A i \in 1..(Len(ops) - u) : u + i \in 1..Len(ops)
    BY <1>0, <1>3
  <2>3. new \in [1..(Len(ops) - u) -> 1..Len(ops)]
    BY <2>2
  <2>4. InOrderOfKeys(ops, <<>>) /\ ToSet(<<>>) = {} /\ <<>> \in Seq(1..Len(ops))
    BY DEF InOrderOfKeys, ToSet
  <2> HIDE DEF new, u
  <2> QED
    BY <2>1, <2>3, <2>4
<1>5. ToSet(new) = (u + 1)..Len(ops)
  <2>1. ToSet(new) = {u + i : i \in 1..(Len(ops) - u)}
    BY <1>4 DEF ToSet
  <2>2. \A x \in (u + 1)..Len(ops) : x - u \in 1..(Len(ops) - u) /\ u + (x - u) = x
    BY <1>0, <1>3
  <2>3. \A i \in 1..(Len(ops) - u) : u + i \in (u + 1)..Len(ops)
    BY <1>0, <1>3
  <2> HIDE DEF u
  <2> QED
    BY <2>1, <2>2, <2>3
<1> HIDE DEF new
<1>6. /\ d.frozen \in Seq(1..Len(ops)) /\ d.tail \in Seq(1..Len(ops)) /\ Len(d.tail) <= TailMax
      /\ InOrderOfKeys(ops, d.frozen)
      /\ ToSet(d.frozen) \cup ToSet(d.tail) = ToSet(new)
  <2> DEFINE none == <<>>
  <2>1. none \in Seq(1..Len(ops)) /\ InOrderOfKeys(ops, none) /\ ToSet(none) = {}
    BY <1>4
  <2> HIDE DEF none
  <2>2. IsDelta(WithAll(none, none, new, ops), ops, ToSet(none) \cup ToSet(none) \cup ToSet(new))
    BY <1>0, <1>4, <2>1, WithAllIs
  <2>3. WithAll(none, none, new, ops) = d
    BY DEF none
  <2>4. ToSet(none) \cup ToSet(none) \cup ToSet(new) = ToSet(new)
    BY <2>1
  <2> HIDE DEF d
  <2> QED
    BY <2>2, <2>3, <2>4 DEF IsDelta
<1>7. frozen' = d.frozen /\ tail' = d.tail
  BY <1>1 DEF SetDelta, new
<1> HIDE DEF d, u
<1>8. TypeOK'
  <2>1. fold'.upto = 0 /\ fold'.seg = {} /\ 0 \in 0..Len(ops)
    BY <1>0, <1>2 DEF NoFold
  <2> QED
    BY <2>1, <1>1, <1>2, <1>3, <1>6, <1>7 DEF IInv, TypeOK, Numbers
<1>9. DeltaInv'
  <2>1. Pending' = (u + 1)..Len(ops)
    BY <1>4, <1>5, <1>6, <1>7 DEF Pending
  <2> QED
    BY <2>1, <1>1, <1>2, <1>6, <1>7 DEF DeltaInv, u
<1>10. FoldInv' /\ SegmentHoldsFolded'
  BY <1>1, <1>2, <1>3 DEF FoldInv, SegmentHoldsFolded, Meant
<1> QED
  BY <1>8, <1>9, <1>10 DEF IInv

LEMMA Stutter == ASSUME IInv, UNCHANGED vars PROVE IInv'
BY DEF IInv, TypeOK, DeltaInv, FoldInv, SegmentHoldsFolded, Meant, Pending, Numbers, vars

LEMMA Step == IInv /\ [Next]_vars => IInv'
<1> SUFFICES ASSUME IInv, [Next]_vars PROVE IInv'
  OBVIOUS
<1>1. ASSUME NEW b \in Batches, Write(b) PROVE IInv'
  BY <1>1, WriteStep
<1>2. CASE FoldBegin
  BY <1>2, FoldBeginStep
<1>3. CASE FoldPublish
  BY <1>3, FoldPublishStep
<1>4. CASE Reopen
  BY <1>4, ReopenStep
<1>5. CASE UNCHANGED vars
  BY <1>5, Stutter
<1> QED
  BY <1>1, <1>2, <1>3, <1>4, <1>5 DEF Next

(* The invariant holds in every state a run of the engine reaches, for any *)
(* codes, texts, operations and length of the tail.                        *)
THEOREM Invariant == Spec => []IInv
<1> QED
  BY Initially, Step, PTL DEF Spec

(* Operations, delta, segment and fold keep their types; no count leaves   *)
(* u32, the tail is never longer than TAIL_MAX.                            *)
THEOREM TypeCorrect == Spec => []TypeOK
<1>1. IInv => TypeOK
  BY DEF IInv
<1> QED
  BY <1>1, Invariant, PTL

(* Whatever is written, folded and reopened when, the segment holds        *)
(* exactly what the operations up to its watermark mean (merge_for_fold,   *)
(* overlay_entries, apply_ops).                                            *)
THEOREM FoldsAreRight == Spec => []SegmentHoldsFolded
<1>1. IInv => SegmentHoldsFolded
  BY DEF IInv
<1> QED
  BY <1>1, Invariant, PTL

(* Whatever part of the operations is in the segment, in the frozen part   *)
(* and in the tail, the lookup of a word and of a code finds what all of   *)
(* them mean (UserData::get, exact, Delta::ops_for, exact).                *)
THEOREM LookupsAreRight == Spec => []LookupsFindAll
<1>1. IInv => LookupsFindAll
  BY GetIsMeant, ExactIsMeant DEF LookupsFindAll
<1> QED
  BY <1>1, Invariant, PTL

-----------------------------------------------------------------------------
(* The streaming merge.                                                    *)

(* Sequences in order of keys: of things with keys no two of which have    *)
(* the same.                                                               *)
Ascending(s) == \A m, n \in 1..Len(s) : m < n => KeyLess(s[m], s[n])
Distinct(S) == /\ IsFiniteSet(S) /\ \A x \in S : Keyed(x)
               /\ \A x, y \in S : SameKey(x, y) => x = y

(* Entries or keys in order of their keys; no other sequence of them is.   *)
LEMMA InKeyOrderIs ==
  ASSUME NEW S, Distinct(S)
  PROVE  /\ InKeyOrder(S) \in Seq(S) /\ Len(InKeyOrder(S)) = Cardinality(S)
         /\ ToSet(InKeyOrder(S)) = S /\ Ascending(InKeyOrder(S))
         /\ \A g \in Seq(S) : ToSet(g) = S /\ Ascending(g) => g = InKeyOrder(S)
<1> DEFINE D == [x \in S |-> {y \in S : KeyLess(y, x)}]
           f == Ranked(S, D)
<1>0. /\ IsFiniteSet(S) /\ \A x \in S : Keyed(x)
      /\ \A x, y \in S : SameKey(x, y) => x = y
  BY DEF Distinct
<1>1. StrictOrder(S, D)
  <2>1. \A x \in S : x \notin D[x]
    BY <1>0, KeyOrder DEF SameKey
  <2>2. ASSUME NEW x \in S, NEW y \in S, x \in D[y] PROVE D[x] \subseteq D[y]
    BY <1>0, <2>2, KeyOrder
  <2>3. \A x, y \in S : x \in D[y] \/ y \in D[x] \/ x = y
    BY <1>0, KeyOrder
  <2>4. D \in [S -> SUBSET S]
    OBVIOUS
  <2> HIDE DEF D
  <2> QED
    BY <1>0, <2>1, <2>2, <2>3, <2>4 DEF StrictOrder
<1>2. InKeyOrder(S) = f
  BY DEF InKeyOrder, InOrder
<1>3. /\ f \in Seq(S) /\ Len(f) = Cardinality(S) /\ ToSet(f) = S /\ Sorted(f, D)
      /\ \A g \in Seq(S) : ToSet(g) = S /\ Sorted(g, D) => g = f
  <2> HIDE DEF D
  <2> QED
    BY <1>1, RankedIs
<1> HIDE DEF f
<1>4. \A g \in Seq(S) : Ascending(g) <=> Sorted(g, D)
  <2> TAKE g \in Seq(S)
  <2>1. \A i \in 1..Len(g) : g[i] \in S
    OBVIOUS
  <2> QED
    BY <2>1 DEF Ascending, Sorted
<1> HIDE DEF D
<1> QED
  BY <1>2, <1>3, <1>4

CodesAscending(s) == \A m, n \in 1..Len(s) : m < n => CodeLess(s[m], s[n])
AreCodes(S) == IsFiniteSet(S) /\ \A c \in S : c \in Seq(Nat)

(* The same of codes.                                                      *)
LEMMA InCodeOrderIs ==
  ASSUME NEW S, AreCodes(S)
  PROVE  /\ InCodeOrder(S) \in Seq(S) /\ ToSet(InCodeOrder(S)) = S
         /\ CodesAscending(InCodeOrder(S))
<1> DEFINE D == [x \in S |-> {y \in S : CodeLess(y, x)}]
           f == Ranked(S, D)
<1>0. IsFiniteSet(S) /\ \A c \in S : c \in Seq(Nat)
  BY DEF AreCodes
<1>1. StrictOrder(S, D)
  <2>1. \A x \in S : x \notin D[x]
    BY <1>0, CodeOrder
  <2>2. ASSUME NEW x \in S, NEW y \in S, x \in D[y] PROVE D[x] \subseteq D[y]
    BY <1>0, <2>2, CodeOrder
  <2>3. \A x, y \in S : x \in D[y] \/ y \in D[x] \/ x = y
    BY <1>0, CodeOrder
  <2>4. D \in [S -> SUBSET S]
    OBVIOUS
  <2> HIDE DEF D
  <2> QED
    BY <1>0, <2>1, <2>2, <2>3, <2>4 DEF StrictOrder
<1>2. InCodeOrder(S) = f
  BY DEF InCodeOrder, InOrder
<1>3. f \in Seq(S) /\ ToSet(f) = S /\ Sorted(f, D)
  <2> HIDE DEF D
  <2> QED
    BY <1>1, RankedIs
<1> HIDE DEF f
<1>4. CodesAscending(f)
  <2>1. \A i \in 1..Len(f) : f[i] \in S
    BY <1>3
  <2> QED
    BY <2>1, <1>3 DEF CodesAscending, Sorted
<1> QED
  BY <1>2, <1>3, <1>4

(* Sequences in order of keys, one after the other.                        *)
LEMMA AscendingConcat ==
  ASSUME NEW X, NEW s \in Seq(X), NEW t \in Seq(X), Ascending(s), Ascending(t),
         \A x \in ToSet(s), y \in ToSet(t) : KeyLess(x, y)
  PROVE  s \o t \in Seq(X) /\ Ascending(s \o t) /\ ToSet(s \o t) = ToSet(s) \cup ToSet(t)
<1>1. \A i \in 1..Len(s) : s[i] \in ToSet(s)
  BY DEF ToSet
<1>2. \A i \in 1..Len(t) : t[i] \in ToSet(t)
  BY DEF ToSet
<1>3. Len(s) \in Nat /\ Len(t) \in Nat /\ Len(s \o t) = Len(s) + Len(t)
  OBVIOUS
<1>4. \A i \in 1..(Len(s) + Len(t)) : (s \o t)[i] = IF i <= Len(s) THEN s[i] ELSE t[i - Len(s)]
  OBVIOUS
<1>5. ASSUME NEW m \in 1..(Len(s) + Len(t)), NEW n \in 1..(Len(s) + Len(t)), m < n
      PROVE  KeyLess((s \o t)[m], (s \o t)[n])
  <2>1. CASE n <= Len(s)
    <3>1. m \in 1..Len(s) /\ n \in 1..Len(s) /\ (s \o t)[m] = s[m] /\ (s \o t)[n] = s[n]
      BY <1>3, <1>4, <1>5, <2>1
    <3> QED
      BY <3>1, <1>5 DEF Ascending
  <2>2. CASE m <= Len(s) /\ ~(n <= Len(s))
    <3>1. m \in 1..Len(s) /\ n - Len(s) \in 1..Len(t) /\ (s \o t)[m] = s[m] /\ (s \o t)[n] = t[n - Len(s)]
      BY <1>3, <1>4, <1>5, <2>2
    <3> QED
      BY <3>1, <1>1, <1>2
  <2>3. CASE ~(m <= Len(s))
    <3>1. /\ m - Len(s) \in 1..Len(t) /\ n - Len(s) \in 1..Len(t) /\ m - Len(s) < n - Len(s)
          /\ (s \o t)[m] = t[m - Len(s)] /\ (s \o t)[n] = t[n - Len(s)]
      BY <1>3, <1>4, <1>5, <2>3
    <3> QED
      BY <3>1 DEF Ascending
  <2> QED
    BY <2>1, <2>2, <2>3, <1>3
<1>6. Ascending(s \o t)
  BY <1>3, <1>5 DEF Ascending
<1> QED
  BY <1>6, ToSetConcat

(* The sequence of at most one element.                                    *)
LEMMA SetToSeqOfFew ==
  /\ SetToSeq({}) = <<>>
  /\ \A e : SetToSeq({e}) = <<e>>
<1>1. SetToSeq({}) = <<>>
  <2>1. Cardinality({}) = 0 /\ 1..0 = {}
    BY FS_EmptySet
  <2>2. \A f \in [1..Cardinality({}) -> {}] : f = <<>>
    BY <2>1
  <2>3. <<>> \in [1..Cardinality({}) -> {}] /\ IsInjective(<<>>)
    BY <2>1 DEF IsInjective
  <2> QED
    BY <2>2, <2>3 DEF SetToSeq
<1>2. ASSUME NEW e PROVE SetToSeq({e}) = <<e>>
  <2>1. Cardinality({e}) = 1 /\ 1..1 = {1}
    BY FS_Singleton
  <2>2. \A f \in [1..Cardinality({e}) -> {e}] : f = <<e>>
    BY <2>1
  <2>3. <<e>> \in [1..Cardinality({e}) -> {e}] /\ IsInjective(<<e>>)
    BY <2>1 DEF IsInjective
  <2> QED
    BY <2>2, <2>3 DEF SetToSeq
<1> QED
  BY <1>1, <1>2

LEMMA EntryIsKeyed == \A e \in Entry : Keyed(e)
BY KeysAssumption DEF Entry, Keyed

(* What the merge makes of a key of the delta: nothing, or one entry of it.*)
Became(group, key) == ApplyOps({e \in ToSet(group) : SameKey(e, key)}, key.ops)

Mergeable(group, keys) ==
  /\ group \in Seq(Entry) /\ Ascending(group)
  /\ Len(keys) \in Nat /\ Ascending(keys) /\ \A j \in 1..Len(keys) : Keyed(keys[j])
  /\ \A i \in 1..Len(group), j \in 1..Len(keys) : group[i].code = keys[j].code
  /\ \A j \in 1..Len(keys) :
       \/ Became(group, keys[j]) = {}
       \/ \E e \in Entry : Became(group, keys[j]) = {e} /\ SameKey(e, keys[j])

Untouched(keys, e) == \A j \in 1..Len(keys) : ~SameKey(e, keys[j])

(* The loop: what is out comes in order from what was taken, and what was  *)
(* taken of either side is before what is left of the other.               *)
MergeInv(group, keys, s) ==
  /\ s \in [g : 0..Len(group), d : 0..Len(keys), out : Seq(Entry)]
  /\ Ascending(s.out)
  /\ \A e : e \in ToSet(s.out) <=> \/ \E i \in 1..s.g : e = group[i] /\ Untouched(keys, e)
                                   \/ \E j \in 1..s.d : e \in Became(group, keys[j])
  /\ \A i \in 1..s.g, j \in (s.d + 1)..Len(keys) : KeyLess(group[i], keys[j])
  /\ \A j \in 1..s.d, i \in (s.g + 1)..Len(group) : KeyLess(keys[j], group[i])

(* What is out stays in order when what a key became is added.             *)
LEMMA MergeAppends ==
  ASSUME NEW out \in Seq(Entry), NEW S, S = {} \/ \E e \in Entry : S = {e},
         Ascending(out), \A x \in ToSet(out), e \in S : KeyLess(x, e)
  PROVE  /\ out \o SetToSeq(S) \in Seq(Entry) /\ Ascending(out \o SetToSeq(S))
         /\ ToSet(out \o SetToSeq(S)) = ToSet(out) \cup S
<1>1. CASE S = {}
  <2>1. SetToSeq(S) = <<>> /\ out \o <<>> = out
    BY <1>1, SetToSeqOfFew
  <2> QED
    BY <1>1, <2>1
<1>2. CASE \E e \in Entry : S = {e}
  <2>1. PICK e \in Entry : S = {e}
    BY <1>2
  <2>2. SetToSeq(S) = <<e>>
    BY <2>1, SetToSeqOfFew
  <2> DEFINE t == <<e>>
  <2>3. t \in Seq(Entry) /\ ToSet(t) = {e} /\ Ascending(t)
    BY DEF ToSet, Ascending
  <2> HIDE DEF t
  <2>4. out \o t \in Seq(Entry) /\ Ascending(out \o t) /\ ToSet(out \o t) = ToSet(out) \cup ToSet(t)
    BY <2>1, <2>3, AscendingConcat
  <2> QED
    BY <2>1, <2>2, <2>3, <2>4 DEF t
<1> QED
  BY <1>1, <1>2

(* A round of the loop keeps all this and takes something, until it ends.  *)
LEMMA MergeStep ==
  ASSUME NEW group, NEW keys, Mergeable(group, keys), NEW s, MergeInv(group, keys, s)
  PROVE  /\ MergeInv(group, keys, Merge(group, keys, s))
         /\ \/ s.g = Len(group) /\ s.d = Len(keys) /\ Merge(group, keys, s) = s
            \/ Merge(group, keys, s).g + Merge(group, keys, s).d > s.g + s.d
<1> DEFINE G == Len(group)
           K == Len(keys)
           e == group[s.g + 1]
           k == keys[s.d + 1]
           m == Merge(group, keys, s)
<1>g. /\ G \in Nat /\ K \in Nat /\ s.g \in 0..G /\ s.d \in 0..K /\ s.out \in Seq(Entry)
      /\ s = [g |-> s.g, d |-> s.d, out |-> s.out]
  BY DEF Mergeable, MergeInv
<1>k. /\ \A i \in 1..G : group[i] \in Entry /\ Keyed(group[i])
      /\ \A j \in 1..K : Keyed(keys[j])
  BY EntryIsKeyed DEF Mergeable
<1>a. /\ \A i, j \in 1..G : i < j => KeyLess(group[i], group[j])
      /\ \A i, j \in 1..K : i < j => KeyLess(keys[i], keys[j])
  BY DEF Mergeable, Ascending
<1>b. \A j \in 1..K : \A x \in Became(group, keys[j]) : x \in Entry /\ Keyed(x) /\ SameKey(x, keys[j])
  BY EntryIsKeyed DEF Mergeable
<1>i. /\ Ascending(s.out)
      /\ \A x : x \in ToSet(s.out) <=> \/ \E i \in 1..s.g : x = group[i] /\ Untouched(keys, x)
                                       \/ \E j \in 1..s.d : x \in Became(group, keys[j])
      /\ \A i \in 1..s.g, j \in (s.d + 1)..K : KeyLess(group[i], keys[j])
      /\ \A j \in 1..s.d, i \in (s.g + 1)..G : KeyLess(keys[j], group[i])
  BY DEF MergeInv
<1>c. \A i \in 1..G, j \in 1..K :
        /\ keys[j].text < group[i].text => KeyLess(keys[j], group[i])
        /\ keys[j].text > group[i].text => KeyLess(group[i], keys[j])
        /\ keys[j].text = group[i].text <=> SameKey(group[i], keys[j])
  <2> TAKE i \in 1..G, j \in 1..K
  <2>1. group[i].code = keys[j].code /\ group[i].text \in Nat /\ keys[j].text \in Nat
    BY <1>k DEF Mergeable, Keyed
  <2> QED
    BY <2>1 DEF KeyLess, SameKey
<1>1. CASE s.d = K /\ s.g = G
  BY <1>1 DEF Merge
<1>2. CASE s.d # K /\ (s.g = G \/ k.text <= e.text)
  <2> DEFINE same == s.g # G /\ e.text = k.text
             ng == IF same THEN s.g + 1 ELSE s.g
             S == Became(group, k)
  <2>0. s.d + 1 \in 1..K /\ (s.g # G => s.g + 1 \in 1..G)
    BY <1>2, <1>g
  <2>s. same <=> s.g # G /\ SameKey(e, k)
    BY <2>0, <1>c
  <2>l. \A i \in (ng + 1)..G : KeyLess(k, group[i])
    <3> TAKE i \in (ng + 1)..G
    <3>1. i \in 1..G /\ s.g # G
      BY <1>g
    <3>2. CASE same
      <4>1. s.g + 1 < i
        BY <3>2, <1>g
      <4>2. KeyLess(e, group[i]) /\ SameKey(k, e)
        BY <4>1, <3>1, <2>0, <1>a, <2>s, <3>2 DEF SameKey
      <4>3. Keyed(k) /\ Keyed(e) /\ Keyed(group[i])
        BY <3>1, <2>0, <1>k
      <4> HIDE DEF k, e
      <4> QED
        BY <4>2, <4>3, KeyOrder
    <3>3. CASE ~same
      <4>1. k.text \in Nat /\ e.text \in Nat
        BY <3>1, <2>0, <1>k DEF Keyed
      <4>2. KeyLess(k, e)
        BY <4>1, <3>1, <3>3, <1>2, <2>0, <1>c
      <4>3. i = s.g + 1 \/ s.g + 1 < i
        BY <3>3, <1>g
      <4>4. s.g + 1 < i => KeyLess(e, group[i])
        BY <3>1, <2>0, <1>a
      <4> QED
        BY <4>2, <4>3, <4>4, <3>1, <2>0, <1>k, KeyOrder
    <3> QED
      BY <3>2, <3>3
  <2>b. (IF same THEN {e} ELSE {}) = {x \in ToSet(group) : SameKey(x, k)}
    <3>1. \A i \in 1..s.g : ~SameKey(group[i], k)
      <4> TAKE i \in 1..s.g
      <4>1. KeyLess(group[i], k) /\ i \in 1..G
        BY <1>i, <2>0, <1>g
      <4> QED
        BY <4>1, <2>0, <1>k, KeyOrder
    <3>2. \A i \in (ng + 1)..G : ~SameKey(group[i], k)
      <4> TAKE i \in (ng + 1)..G
      <4>1. KeyLess(k, group[i]) /\ i \in 1..G
        BY <2>l, <1>g
      <4> QED
        BY <4>1, <2>0, <1>k, KeyOrder DEF SameKey
    <3>3. \A i \in 1..G : i \in 1..s.g \/ (same /\ i = s.g + 1) \/ i \in (ng + 1)..G
      BY <1>g
    <3>4. \A i \in 1..G : SameKey(group[i], k) <=> same /\ i = s.g + 1
      <4> HIDE DEF same, ng, e, k
      <4>1. \A i \in 1..G : SameKey(group[i], k) => same /\ i = s.g + 1
        BY <3>1, <3>2, <3>3
      <4>2. same => SameKey(group[s.g + 1], k)
        BY <2>s DEF e
      <4> QED
        BY <4>1, <4>2
    <3>5. same => s.g + 1 \in 1..G
      BY <2>0
    <3>6. ToSet(group) = {group[i] : i \in 1..G}
      BY DEF Mergeable, ToSet
    <3> HIDE DEF same
    <3> QED
      BY <3>4, <3>5, <3>6
  <2>m. m = [g |-> ng, d |-> s.d + 1, out |-> s.out \o SetToSeq(S)]
    <3>1. m = [g |-> ng, d |-> s.d + 1,
               out |-> s.out \o SetToSeq(ApplyOps(IF same THEN {e} ELSE {}, k.ops))]
      BY <1>2 DEF Merge, DeltaFirst
    <3>2. ApplyOps(IF same THEN {e} ELSE {}, k.ops) = S
      BY <2>b DEF Became
    <3> QED
      BY <3>1, <3>2
  <2>g. ng \in 0..G /\ s.d + 1 \in 0..K /\ ng >= s.g
    BY <2>0, <1>g
  <2>S. S = {} \/ \E x \in Entry : S = {x}
    BY <2>0 DEF Mergeable
  <2>o. \A x \in ToSet(s.out), y \in S : KeyLess(x, y)
    <3> TAKE x \in ToSet(s.out), y \in S
    <3>1. y \in Entry /\ Keyed(y) /\ SameKey(k, y) /\ Keyed(k)
      BY <2>0, <1>b, <1>k DEF SameKey
    <3>2. Keyed(x) /\ KeyLess(x, k)
      <4>1. CASE \E i \in 1..s.g : x = group[i]
        BY <4>1, <1>i, <2>0, <1>g, <1>k
      <4>2. CASE \E j \in 1..s.d : x \in Became(group, keys[j])
        <5>1. PICK j \in 1..s.d : x \in Became(group, keys[j])
          BY <4>2
        <5>2. j \in 1..K /\ j < s.d + 1
          BY <1>g
        <5>3. Keyed(x) /\ SameKey(x, keys[j]) /\ KeyLess(keys[j], k) /\ Keyed(keys[j])
          BY <5>1, <5>2, <2>0, <1>a, <1>b, <1>k
        <5> QED
          BY <5>3, <3>1, KeyOrder
      <4> QED
        BY <4>1, <4>2, <1>i
    <3> QED
      BY <3>1, <3>2, KeyOrder
  <2> DEFINE out == s.out \o SetToSeq(S)
  <2>1. out \in Seq(Entry) /\ Ascending(out) /\ ToSet(out) = ToSet(s.out) \cup S
    <3> HIDE DEF S
    <3> QED
      BY <1>g, <1>i, <2>S, <2>o, MergeAppends
  <2> HIDE DEF out, S
  <2>2. \A x : x \in ToSet(out) <=> \/ \E i \in 1..ng : x = group[i] /\ Untouched(keys, x)
                                    \/ \E j \in 1..(s.d + 1) : x \in Became(group, keys[j])
    <3> TAKE x
    <3>1. (\E j \in 1..(s.d + 1) : x \in Became(group, keys[j]))
            <=> (\E j \in 1..s.d : x \in Became(group, keys[j])) \/ x \in S
      <4>1. \A j \in 1..(s.d + 1) : j \in 1..s.d \/ j = s.d + 1
        BY <1>g
      <4>2. \A j \in 1..s.d : j \in 1..(s.d + 1)
        BY <1>g
      <4>3. s.d + 1 \in 1..(s.d + 1)
        BY <1>g
      <4> QED
        BY <4>1, <4>2, <4>3 DEF S
    <3>2. (\E i \in 1..ng : x = group[i] /\ Untouched(keys, x))
            <=> (\E i \in 1..s.g : x = group[i] /\ Untouched(keys, x))
      <4>1. CASE ~same
        BY <4>1
      <4>2. CASE same
        <5>1. ~Untouched(keys, e)
          BY <4>2, <2>s, <2>0 DEF Untouched
        <5>2. \A i \in 1..ng : i \in 1..s.g \/ i = s.g + 1
          BY <4>2, <1>g
        <5>3. \A i \in 1..s.g : i \in 1..ng
          BY <4>2, <1>g
        <5> HIDE DEF ng
        <5> QED
          BY <5>1, <5>2, <5>3
      <4> QED
        BY <4>1, <4>2
    <3> QED
      BY <3>1, <3>2, <2>1, <1>i
  <2>3. \A i \in 1..ng, j \in (s.d + 2)..K : KeyLess(group[i], keys[j])
    <3> TAKE i \in 1..ng, j \in (s.d + 2)..K
    <3>1. j \in (s.d + 1)..K /\ j \in 1..K /\ s.d + 1 < j
      BY <1>g
    <3>2. CASE i \in 1..s.g
      BY <3>1, <3>2, <1>i
    <3>3. CASE i \notin 1..s.g
      <4>1. same /\ i = s.g + 1
        BY <3>3, <1>g
      <4>2. SameKey(e, k) /\ KeyLess(k, keys[j]) /\ Keyed(e) /\ Keyed(k) /\ Keyed(keys[j])
        BY <4>1, <3>1, <2>0, <2>s, <1>a, <1>k
      <4> QED
        BY <4>1, <4>2, KeyOrder
    <3> QED
      BY <3>2, <3>3
  <2>4. \A j \in 1..(s.d + 1), i \in (ng + 1)..G : KeyLess(keys[j], group[i])
    <3> TAKE j \in 1..(s.d + 1), i \in (ng + 1)..G
    <3>1. i \in (s.g + 1)..G
      BY <1>g
    <3>2. CASE j \in 1..s.d
      BY <3>1, <3>2, <1>i
    <3>3. CASE j \notin 1..s.d
      <4>1. j = s.d + 1
        BY <3>3, <1>g
      <4> QED
        BY <4>1, <2>l
    <3> QED
      BY <3>2, <3>3
  <2>5. m.g = ng /\ m.d = s.d + 1 /\ m.out = out
    BY <2>m DEF out
  <2>6. m \in [g : 0..G, d : 0..K, out : Seq(Entry)]
    BY <2>m, <2>g, <2>1 DEF out
  <2>7. (s.d + 1) + 1 = s.d + 2
    BY <1>g
  <2> HIDE DEF m, ng, same
  <2>8. MergeInv(group, keys, m)
    BY <2>1, <2>2, <2>3, <2>4, <2>5, <2>6, <2>7 DEF MergeInv
  <2>9. m.g + m.d > s.g + s.d
    BY <2>5, <2>g, <1>g
  <2> QED
    BY <2>8, <2>9 DEF m
<1>3. CASE s.g # G /\ ~(s.d # K /\ k.text <= e.text)
  <2>0. s.g + 1 \in 1..G /\ (s.d # K => s.d + 1 \in 1..K) /\ e \in Entry /\ Keyed(e)
    BY <1>3, <1>g, <1>k
  <2>m. m = [g |-> s.g + 1, d |-> s.d, out |-> Append(s.out, e)]
    BY <1>3 DEF Merge, DeltaFirst
  <2>l. \A j \in (s.d + 1)..K : KeyLess(e, keys[j])
    <3> TAKE j \in (s.d + 1)..K
    <3>1. j \in 1..K /\ s.d # K
      BY <1>g
    <3>2. e.text \in Nat /\ k.text \in Nat
      BY <3>1, <2>0, <1>k DEF Keyed
    <3>3. KeyLess(e, k)
      BY <3>1, <3>2, <1>3, <2>0, <1>c
    <3>4. j = s.d + 1 \/ s.d + 1 < j
      BY <1>g
    <3>5. s.d + 1 < j => KeyLess(k, keys[j])
      BY <3>1, <2>0, <1>a
    <3> QED
      BY <3>3, <3>4, <3>5, <3>1, <2>0, <1>k, KeyOrder
  <2>u. Untouched(keys, e)
    <3> SUFFICES ASSUME NEW j \in 1..K PROVE ~SameKey(e, keys[j])
      BY DEF Untouched
    <3>1. j \in 1..s.d \/ j \in (s.d + 1)..K
      BY <1>g
    <3>2. CASE j \in 1..s.d
      <4>1. KeyLess(keys[j], e)
        BY <3>2, <1>i, <1>g, <1>3
      <4> QED
        BY <4>1, <2>0, <1>k, KeyOrder DEF SameKey
    <3>3. CASE j \in (s.d + 1)..K
      BY <3>3, <2>l, <2>0, <1>k, KeyOrder
    <3> QED
      BY <3>1, <3>2, <3>3
  <2>o. \A x \in ToSet(s.out) : KeyLess(x, e)
    <3> TAKE x \in ToSet(s.out)
    <3>1. CASE \E i \in 1..s.g : x = group[i]
      <4>1. PICK i \in 1..s.g : x = group[i]
        BY <3>1
      <4>2. i \in 1..G /\ i < s.g + 1
        BY <1>g
      <4> QED
        BY <4>1, <4>2, <2>0, <1>a
    <3>2. CASE \E j \in 1..s.d : x \in Became(group, keys[j])
      <4>1. PICK j \in 1..s.d : x \in Became(group, keys[j])
        BY <3>2
      <4>2. j \in 1..K /\ s.g + 1 \in (s.g + 1)..G
        BY <1>g, <1>3
      <4>3. Keyed(x) /\ SameKey(x, keys[j]) /\ KeyLess(keys[j], e) /\ Keyed(keys[j])
        BY <4>1, <4>2, <1>i, <1>b, <1>k
      <4> QED
        BY <4>3, <2>0, KeyOrder
    <3> QED
      BY <3>1, <3>2, <1>i
  <2> DEFINE t == <<e>>
             out == s.out \o t
  <2>1. out \in Seq(Entry) /\ Ascending(out) /\ ToSet(out) = ToSet(s.out) \cup {e}
    <3>1. t \in Seq(Entry) /\ ToSet(t) = {e} /\ Ascending(t)
      BY <2>0 DEF ToSet, Ascending
    <3> HIDE DEF t, e
    <3> QED
      BY <1>g, <1>i, <3>1, <2>o, AscendingConcat
  <2>5. m.g = s.g + 1 /\ m.d = s.d /\ m.out = out
    <3>1. Append(s.out, e) = s.out \o <<e>>
      BY <1>g, <2>0
    <3> QED
      BY <2>m, <3>1
  <2>2. \A x : x \in ToSet(out) <=> \/ \E i \in 1..(s.g + 1) : x = group[i] /\ Untouched(keys, x)
                                    \/ \E j \in 1..s.d : x \in Became(group, keys[j])
    <3> TAKE x
    <3>1. \A i \in 1..(s.g + 1) : i \in 1..s.g \/ i = s.g + 1
      BY <1>g
    <3>2. \A i \in 1..s.g : i \in 1..(s.g + 1)
      BY <1>g
    <3>3. s.g + 1 \in 1..(s.g + 1)
      BY <1>g
    <3>4. (\E i \in 1..(s.g + 1) : x = group[i] /\ Untouched(keys, x))
            <=> (\E i \in 1..s.g : x = group[i] /\ Untouched(keys, x)) \/ x = e
      BY <3>1, <3>2, <3>3, <2>u
    <3> HIDE DEF out, t, e
    <3> QED
      BY <3>4, <2>1, <1>i
  <2>3. \A i \in 1..(s.g + 1), j \in (s.d + 1)..K : KeyLess(group[i], keys[j])
    <3> TAKE i \in 1..(s.g + 1), j \in (s.d + 1)..K
    <3>1. i \in 1..s.g \/ i = s.g + 1
      BY <1>g
    <3> QED
      BY <3>1, <2>l, <1>i
  <2>4. \A j \in 1..s.d, i \in (s.g + 2)..G : KeyLess(keys[j], group[i])
    <3> TAKE j \in 1..s.d, i \in (s.g + 2)..G
    <3>1. i \in (s.g + 1)..G
      BY <1>g
    <3> QED
      BY <3>1, <1>i
  <2> HIDE DEF out
  <2>6. m \in [g : 0..G, d : 0..K, out : Seq(Entry)]
    <3>1. m = [g |-> s.g + 1, d |-> s.d, out |-> m.out]
      BY <2>m
    <3>2. s.g + 1 \in 0..G /\ s.d \in 0..K /\ m.out \in Seq(Entry)
      BY <2>0, <1>g, <2>5, <2>1
    <3> HIDE DEF m
    <3> QED
      BY <3>1, <3>2
  <2>7. (s.g + 1) + 1 = s.g + 2
    BY <1>g
  <2> HIDE DEF m
  <2>8. MergeInv(group, keys, m)
    BY <2>1, <2>2, <2>3, <2>4, <2>5, <2>6, <2>7 DEF MergeInv
  <2>9. m.g + m.d > s.g + s.d
    BY <2>5, <1>g
  <2> QED
    BY <2>8, <2>9 DEF m
<1> QED
  BY <1>1, <1>2, <1>3, <1>g

(* The loop of the merge has gone through both sides after as many steps.  *)
LEMMA MergeGroupIs ==
  ASSUME NEW group, NEW keys, Mergeable(group, keys)
  PROVE  /\ MergeGroup(group, keys) \in Seq(Entry) /\ Ascending(MergeGroup(group, keys))
         /\ \A e : e \in ToSet(MergeGroup(group, keys))
                     <=> \/ e \in ToSet(group) /\ Untouched(keys, e)
                         \/ \E j \in 1..Len(keys) : e \in Became(group, keys[j])
<1> DEFINE G == Len(group)
           K == Len(keys)
           start == [g |-> 0, d |-> 0, out |-> <<>>]
           X == {s \in [g : 0..G, d : 0..K, out : Seq(Entry)] : MergeInv(group, keys, s)}
           D == [n \in Nat |-> [s \in X |-> Merge(group, keys, s)]]
           Is(f) == f = [n \in Nat |-> IF n = 0 THEN start ELSE Merge(group, keys, f[n - 1])]
<1>0. G \in Nat /\ K \in Nat
  BY DEF Mergeable
<1>x. \A s : s \in X <=> MergeInv(group, keys, s)
  BY DEF MergeInv
<1>1. start \in X
  <2>1. start \in [g : 0..G, d : 0..K, out : Seq(Entry)]
    BY <1>0
  <2>2. Ascending(start.out) /\ ToSet(start.out) = {}
    BY DEF Ascending, ToSet
  <2>3. start.g = 0 /\ start.d = 0 /\ 1..0 = {}
    OBVIOUS
  <2> HIDE DEF start
  <2>4. MergeInv(group, keys, start)
    BY <2>1, <2>2, <2>3 DEF MergeInv
  <2> QED
    BY <2>1, <2>4
<1>2. \A s \in X : Merge(group, keys, s) \in X
  BY <1>x, MergeStep
<1> HIDE DEF X, start
<1>3. D \in [Nat -> [X -> X]]
  BY <1>2
<1>4. PICK f \in [Nat -> X] : f[0] = start /\ \A n \in Nat : f[n + 1] = D[n + 1][f[n]]
  <2> DEFINE Has(Y, b, E) ==
        \E f \in [Nat -> Y] : f[0] = b /\ \A n \in Nat : f[n + 1] = E[n + 1][f[n]]
  <2>1. \A Y : \A b \in Y, E \in [Nat -> [Y -> Y]] : Has(Y, b, E)
    BY RecursionDefines
  <2> HIDE DEF D, Has
  <2>2. Has(X, start, D)
    BY <1>1, <1>3, <2>1
  <2> QED
    BY <2>2 DEF Has
<1>5. Is(f)
  <2>1. ASSUME NEW n \in Nat \ {0} PROVE f[n] = Merge(group, keys, f[n - 1])
    <3>1. n - 1 \in Nat /\ (n - 1) + 1 = n /\ f[n - 1] \in X
      OBVIOUS
    <3>2. f[n] = D[n][f[n - 1]]
      BY <3>1, <1>4
    <3> QED
      BY <3>1, <3>2
  <2> QED
    BY <1>4, <2>1
<1> DEFINE after == CHOOSE h : Is(h)
<1>6. Is(after)
  BY <1>5
<1>7. MergeGroup(group, keys) = after[G + K].out
  BY DEF MergeGroup, start
<1> HIDE DEF after
<1>8. after[0] = start /\ \A n \in Nat : after[n + 1] = Merge(group, keys, after[n])
  BY <1>6
<1> DEFINE T == {n \in Nat : /\ after[n] \in X
                             /\ \/ after[n].g = G /\ after[n].d = K
                                \/ after[n].g + after[n].d >= n}
<1>9. \A n \in Nat : n \in T
  <2>1. 0 \in T
    <3>1. start.g = 0 /\ start.d = 0
      BY DEF start
    <3> QED
      BY <1>1, <1>8, <3>1
  <2>2. ASSUME NEW n \in Nat, n \in T PROVE n + 1 \in T
    <3> DEFINE s == after[n]
               m == Merge(group, keys, after[n])
    <3>1. s \in X /\ m \in X /\ after[n + 1] = m
      BY <2>2, <1>2, <1>8
    <3>2. \/ s.g = G /\ s.d = K /\ m = s
          \/ m.g + m.d > s.g + s.d
      BY <3>1, <1>x, MergeStep
    <3>3. s.g \in 0..G /\ s.d \in 0..K /\ m.g \in 0..G /\ m.d \in 0..K
      BY <3>1 DEF X
    <3>4. s.g = G /\ s.d = K => m = s
      BY <3>2, <3>3, <1>0
    <3>5. (s.g = G /\ s.d = K) \/ s.g + s.d >= n
      BY <2>2
    <3> HIDE DEF s, m
    <3>6. (m.g = G /\ m.d = K) \/ m.g + m.d >= n + 1
      BY <3>2, <3>3, <3>4, <3>5, <1>0
    <3> QED
      BY <3>1, <3>6
  <2> HIDE DEF T
  <2> QED
    BY <2>1, <2>2, SetInduction
<1> DEFINE last == after[G + K]
<1>10. last \in X /\ ((last.g = G /\ last.d = K) \/ last.g + last.d >= G + K)
  <2>1. G + K \in Nat
    BY <1>0
  <2> QED
    BY <2>1, <1>9
<1> HIDE DEF last, T
<1>11. last.g = G /\ last.d = K
  <2>1. last.g \in 0..G /\ last.d \in 0..K
    BY <1>10 DEF X
  <2> QED
    BY <2>1, <1>0, <1>10
<1>12. MergeInv(group, keys, last)
  BY <1>10, <1>x
<1>13. /\ last.out \in Seq(Entry) /\ Ascending(last.out)
       /\ \A e : e \in ToSet(last.out) <=> \/ \E i \in 1..G : e = group[i] /\ Untouched(keys, e)
                                           \/ \E j \in 1..K : e \in Became(group, keys[j])
  BY <1>11, <1>12 DEF MergeInv
<1>14. \A e : e \in ToSet(group) <=> \E i \in 1..G : e = group[i]
  BY DEF Mergeable, ToSet
<1>15. MergeGroup(group, keys) = last.out
  BY <1>7 DEF last
<1> HIDE DEF G, K
<1> QED
  BY <1>13, <1>14, <1>15 DEF G, K

(* Putting the blocks of scan together: those of the codes and those that  *)
(* lie between them.                                                       *)
Blocks(A, cs, F, M) ==
  /\ A \in SUBSET Entry /\ cs \in Seq(Seq(Nat)) /\ CodesAscending(cs)
  /\ \A n \in 0..Len(cs) :
       /\ F[n] \in Seq(Entry) /\ Ascending(F[n])
       /\ \A e : e \in ToSet(F[n]) <=> /\ e \in A
                                       /\ n > 0 => CodeLess(cs[n], e.code)
                                       /\ n < Len(cs) => CodeLess(e.code, cs[n + 1])
  /\ \A n \in 1..Len(cs) :
       /\ M[n] \in Seq(Entry) /\ Ascending(M[n])
       /\ \A e : e \in ToSet(M[n]) <=> e \in A /\ e.code = cs[n]

Joined(cs, F, M, out) ==
  out[0] = F[0] /\ \A n \in 1..Len(cs) : out[n] = out[n - 1] \o M[n] \o F[n]

LEMMA StreamIs ==
  ASSUME NEW A, NEW cs, NEW F, NEW M, Blocks(A, cs, F, M), NEW out, Joined(cs, F, M, out)
  PROVE  /\ out[Len(cs)] \in Seq(Entry) /\ Ascending(out[Len(cs)])
         /\ ToSet(out[Len(cs)]) = A
<1> DEFINE N == Len(cs)
           UpTo(n, e) == e \in A /\ (n < N => CodeLess(e.code, cs[n + 1]))
           Good(n) == /\ out[n] \in Seq(Entry) /\ Ascending(out[n])
                      /\ \A e : e \in ToSet(out[n]) <=> UpTo(n, e)
           T == {n \in Nat : n <= N => Good(n)}
<1>0. N \in Nat /\ \A n \in 1..N : cs[n] \in Seq(Nat)
  BY DEF Blocks
<1>c. \A e \in A : e.code \in Seq(Nat) /\ Keyed(e)
  BY EntryIsKeyed DEF Keyed, Blocks
<1>a. \A x, y \in A : CodeLess(x.code, y.code) => KeyLess(x, y)
  BY DEF KeyLess
<1>1. 0 \in T
  <2>1. Good(0)
    <3>1. 0 \in 0..N /\ ~(0 > 0)
      BY <1>0
    <3> QED
      BY <3>1 DEF Blocks, Joined
  <2> QED
    BY <2>1
<1>2. ASSUME NEW l \in Nat, l \in T PROVE l + 1 \in T
  <2> SUFFICES ASSUME l + 1 <= N PROVE Good(l + 1)
    OBVIOUS
  <2> DEFINE n == l + 1
             s == out[l]
  <2>0. n \in 1..N /\ n \in 0..N /\ n - 1 = l /\ n > 0 /\ l < N /\ l <= N
    BY <1>0
  <2>1. /\ s \in Seq(Entry) /\ Ascending(s)
        /\ \A e : e \in ToSet(s) <=> e \in A /\ CodeLess(e.code, cs[n])
    BY <1>2, <2>0
  <2>2. /\ M[n] \in Seq(Entry) /\ Ascending(M[n])
        /\ \A e : e \in ToSet(M[n]) <=> e \in A /\ e.code = cs[n]
    BY <2>0 DEF Blocks
  <2>3. /\ F[n] \in Seq(Entry) /\ Ascending(F[n])
        /\ \A e : e \in ToSet(F[n]) <=> /\ e \in A /\ CodeLess(cs[n], e.code)
                                        /\ n < N => CodeLess(e.code, cs[n + 1])
    BY <2>0 DEF Blocks
  <2>4. out[n] = (s \o M[n]) \o F[n]
    BY <2>0 DEF Joined
  <2>n. cs[n] \in Seq(Nat) /\ (n < N => cs[n + 1] \in Seq(Nat) /\ CodeLess(cs[n], cs[n + 1]))
    <3>1. n < N => n + 1 \in 1..N /\ n < n + 1
      BY <2>0, <1>0
    <3> QED
      BY <2>0, <3>1, <1>0 DEF CodesAscending, Blocks
  <2> DEFINE t == s \o M[n]
  <2> HIDE DEF s, n
  <2>5. t \in Seq(Entry) /\ Ascending(t) /\ ToSet(t) = ToSet(s) \cup ToSet(M[n])
    <3>1. \A x \in ToSet(s), y \in ToSet(M[n]) : KeyLess(x, y)
      BY <2>1, <2>2, <1>a
    <3> QED
      BY <2>1, <2>2, <3>1, AscendingConcat
  <2> HIDE DEF t
  <2> DEFINE r == F[n]
  <2> HIDE DEF r
  <2>r. r \in Seq(Entry) /\ Ascending(r) /\ r = F[n]
    BY <2>3 DEF r
  <2>6. /\ t \o F[n] \in Seq(Entry) /\ Ascending(t \o F[n])
        /\ ToSet(t \o F[n]) = ToSet(t) \cup ToSet(F[n])
    <3>1. \A x \in ToSet(t), y \in ToSet(F[n]) : KeyLess(x, y)
      <4> TAKE x \in ToSet(t), y \in ToSet(F[n])
      <4>1. x \in A /\ y \in A /\ CodeLess(cs[n], y.code)
            /\ (CodeLess(x.code, cs[n]) \/ x.code = cs[n])
        BY <2>1, <2>2, <2>3, <2>5
      <4>2. CodeLess(x.code, y.code)
        <5>1. x.code \in Seq(Nat) /\ y.code \in Seq(Nat)
          BY <4>1, <1>c
        <5> QED
          BY <4>1, <5>1, <2>n, CodeOrder
      <4> QED
        BY <4>1, <4>2, <1>a
    <3>2. \A x \in ToSet(t), y \in ToSet(r) : KeyLess(x, y)
      BY <3>1, <2>r
    <3>3. /\ t \o r \in Seq(Entry) /\ Ascending(t \o r)
          /\ ToSet(t \o r) = ToSet(t) \cup ToSet(r)
      <4>1. r \in Seq(Entry) /\ Ascending(r)
        BY <2>r
      <4>2. t \in Seq(Entry) /\ Ascending(t)
        BY <2>5
      <4> QED
        BY <4>1, <4>2, <3>2, AscendingConcat
    <3> QED
      BY <3>3, <2>r
  <2>7. \A e : e \in ToSet(t \o F[n]) <=> UpTo(n, e)
    <3> TAKE e
    <3>1. e \in ToSet(t \o F[n]) <=> \/ e \in A /\ CodeLess(e.code, cs[n])
                                     \/ e \in A /\ e.code = cs[n]
                                     \/ /\ e \in A /\ CodeLess(cs[n], e.code)
                                        /\ n < N => CodeLess(e.code, cs[n + 1])
      BY <2>1, <2>2, <2>3, <2>5, <2>6
    <3>2. CASE e \in A
      <4>1. e.code \in Seq(Nat)
        BY <3>2, <1>c
      <4>2. CodeLess(e.code, cs[n]) \/ e.code = cs[n] \/ CodeLess(cs[n], e.code)
        BY <4>1, <2>n, CodeOrder
      <4>3. n < N /\ CodeLess(e.code, cs[n]) => CodeLess(e.code, cs[n + 1])
        BY <4>1, <2>n, CodeOrder
      <4>4. n < N /\ e.code = cs[n] => CodeLess(e.code, cs[n + 1])
        BY <2>n
      <4> QED
        BY <3>1, <3>2, <4>2, <4>3, <4>4
    <3>3. CASE e \notin A
      BY <3>1, <3>3
    <3> QED
      BY <3>2, <3>3
  <2>8. Good(n)
    BY <2>4, <2>6, <2>7 DEF t
  <2> QED
    BY <2>8 DEF n
<1> HIDE DEF T
<1>3. \A n \in Nat : n \in T
  BY <1>1, <1>2, SetInduction
<1>4. Good(N)
  BY <1>0, <1>3 DEF T
<1>5. \A e : e \in ToSet(out[N]) <=> e \in A
  BY <1>0, <1>4
<1>6. ToSet(out[N]) = A
  BY <1>5, Zenon
<1>7. out[N] \in Seq(Entry) /\ Ascending(out[N])
  BY <1>4
<1> QED
  BY <1>6, <1>7

(* What the operations on a target mean has at most one entry of a key,    *)
(* and only of keys that were written.                                     *)
LEMMA MeantOnce ==
  ASSUME ops \in Ops, NEW codes \in SUBSET Code, NEW n \in 0..Len(ops)
  PROVE  Distinct(Meant(codes, n))
<1> DEFINE A == Meant(codes, n)
<1>0. /\ A \in SUBSET Entry
      /\ \A e : e \in A <=> \E k \in Keys(codes) : e \in Meaning(ops, k, n)
      /\ \A k \in Keys(codes) : {e \in A : SameKey(e, k)} = Meaning(ops, k, n)
  BY MeantHas
<1>n. n \in Nat
  BY DEF Ops
<1> HIDE DEF A
<1>1. \A x, y \in A : SameKey(x, y) => x = y
  <2> SUFFICES ASSUME NEW x \in A, NEW y \in A, SameKey(x, y) PROVE x = y
    OBVIOUS
  <2>1. PICK k \in Keys(codes) : x \in Meaning(ops, k, n)
    BY <1>0
  <2>2. SameKey(y, k)
    BY <2>1, MeaningHasKey DEF SameKey
  <2>3. y \in Meaning(ops, k, n)
    BY <2>2, <1>0
  <2>4. \E z : Meaning(ops, k, n) \subseteq {z}
    <3>1. Meaning(ops, k, n) \subseteq {EntryOf(ops, k, n)}
      BY DEF Meaning, EntryOf
    <3> QED
      BY <3>1
  <2> QED
    BY <2>1, <2>3, <2>4
<1>2. \A x \in A : \E i \in 1..n : SameKey(ops[i], x)
  <2> TAKE x \in A
  <2>1. PICK k \in Keys(codes) : x \in Meaning(ops, k, n)
    BY <1>0
  <2>2. Makers(ops, k, n) # {}
    BY <2>1 DEF Meaning
  <2>3. PICK i \in 1..n : SameKey(ops[i], k)
    BY <2>2 DEF Makers, Live, Own
  <2>4. SameKey(x, k)
    BY <2>1, MeaningHasKey
  <2> QED
    BY <2>3, <2>4 DEF SameKey
<1>3. IsFiniteSet(A)
  <2> DEFINE f == [x \in A |-> CHOOSE i \in 1..n : SameKey(ops[i], x)]
  <2>1. \A x \in A : f[x] \in 1..n /\ SameKey(ops[f[x]], x)
    BY <1>2
  <2>2. f \in [A -> 1..n]
    BY <2>1
  <2> HIDE DEF f
  <2>3. \A x, y \in A : f[x] = f[y] => x = y
    BY <2>1, <1>1 DEF SameKey
  <2>4. f \in Injection(A, 1..n)
    BY <2>2, <2>3 DEF Injection, IsInjective
  <2>5. IsFiniteSet(1..n)
    BY <1>n, FS_Interval
  <2> QED
    BY <2>4, <2>5, FS_Injection
<1>4. \A x \in A : Keyed(x)
  BY <1>0, EntryIsKeyed
<1> QED
  BY <1>1, <1>3, <1>4 DEF Distinct, A

(* The keys of the delta.                                                  *)
LEMMA DeltaKeysAre ==
  ASSUME ops \in Ops, NEW S \in SUBSET (1..Len(ops))
  PROVE  /\ Distinct(DeltaKeys(S))
         /\ \A k \in DeltaKeys(S) : k.ops = {j \in S : SameKey(ops[j], k)}
         /\ \A k \in DeltaKeys(S) : \E i \in S : SameKey(ops[i], k)
         /\ \A i \in S : \E k \in DeltaKeys(S) : SameKey(ops[i], k)
<1> DEFINE DK == DeltaKeys(S)
           Of(i) == {j \in S : SameKey(ops[i], ops[j])}
           K(i) == [code |-> ops[i].code, text |-> ops[i].text, ops |-> Of(i)]
<1>0. Len(ops) \in Nat /\ \A i \in S : ops[i] \in OpType
  BY DEF Ops
<1>1. \A k : k \in DK <=> \E i \in S : k = K(i)
  BY DEF DeltaKeys
<1>2. \A i \in S : K(i).code = ops[i].code /\ K(i).text = ops[i].text /\ K(i).ops = Of(i)
  OBVIOUS
<1>3. \A i, j \in S : SameKey(ops[i], ops[j]) => Of(i) = Of(j)
  BY DEF SameKey
<1> HIDE DEF DK
<1>4. \A i \in S : SameKey(ops[i], K(i)) /\ K(i) \in DK
  BY <1>1, <1>2 DEF SameKey
<1>5. \A k \in DK : k.ops = {j \in S : SameKey(ops[j], k)}
  <2> TAKE k \in DK
  <2>1. PICK i \in S : k = K(i)
    BY <1>1
  <2>2. k.ops = Of(i) /\ \A j \in S : SameKey(ops[i], ops[j]) <=> SameKey(ops[j], k)
    BY <2>1, <1>2 DEF SameKey
  <2> QED
    BY <2>2
<1>6. \A x, y \in DK : SameKey(x, y) => x = y
  <2> TAKE x, y \in DK
  <2>1. PICK i \in S : x = K(i)
    BY <1>1
  <2>2. PICK j \in S : y = K(j)
    BY <1>1
  <2> HAVE SameKey(x, y)
  <2>3. ops[i].code = ops[j].code /\ ops[i].text = ops[j].text
    BY <2>1, <2>2, <1>2 DEF SameKey
  <2>4. Of(i) = Of(j)
    BY <2>3, <1>3 DEF SameKey
  <2> HIDE DEF Of
  <2> QED
    BY <2>1, <2>2, <2>3, <2>4
<1>7. \A x \in DK : Keyed(x)
  <2> TAKE x \in DK
  <2>1. PICK i \in S : x = K(i)
    BY <1>1
  <2>2. Keyed(ops[i]) /\ x.code = ops[i].code /\ x.text = ops[i].text
    BY <2>1, <1>0, <1>2, OpIsKeyed
  <2> QED
    BY <2>2 DEF Keyed
<1>8. IsFiniteSet(DK)
  <2> DEFINE f == [x \in DK |-> CHOOSE i \in S : x = K(i)]
  <2>1. \A x \in DK : f[x] \in S /\ x = K(f[x])
    BY <1>1
  <2>2. f \in [DK -> S]
    BY <2>1
  <2> HIDE DEF f
  <2>3. \A x, y \in DK : f[x] = f[y] => x = y
    BY <2>1
  <2>4. f \in Injection(DK, S)
    BY <2>2, <2>3 DEF Injection, IsInjective
  <2>5. IsFiniteSet(S)
    <3>1. IsFiniteSet(1..Len(ops))
      BY <1>0, FS_Interval
    <3> QED
      BY <3>1, FS_Subset
  <2> QED
    BY <2>4, <2>5, FS_Injection
<1>9. Distinct(DK)
  BY <1>6, <1>7, <1>8 DEF Distinct
<1>10. \A k \in DK : \E i \in S : SameKey(ops[i], k)
  <2> TAKE k \in DK
  <2>1. PICK i \in S : k = K(i)
    BY <1>1
  <2> QED
    BY <2>1, <1>4
<1>11. \A i \in S : \E k \in DK : SameKey(ops[i], k)
  BY <1>4
<1> QED
  BY <1>5, <1>9, <1>10, <1>11 DEF DK

(* What scan reads, base from the segment and keys from the delta, makes A.*)
Makes(A, base, keys) ==
  /\ A \in SUBSET Entry /\ Distinct(A)
  /\ base \in SUBSET Entry /\ Distinct(base)
  /\ Distinct(keys)
  /\ \A k \in keys : ApplyOps({e \in base : SameKey(e, k)}, k.ops) = {e \in A : SameKey(e, k)}
  /\ \A e : (\A k \in keys : ~SameKey(e, k)) => (e \in A <=> e \in base)

(* A part of a table is one.                                               *)
LEMMA DistinctPart == ASSUME NEW S, Distinct(S), NEW T \in SUBSET S PROVE Distinct(T)
<1>1. IsFiniteSet(T)
  BY FS_Subset DEF Distinct
<1> QED
  BY <1>1 DEF Distinct

(* A group of the segment and the keys of the delta that belong to it.     *)
LEMMA BlockIs ==
  ASSUME NEW A, NEW base, NEW keys, Makes(A, base, keys),
         NEW G \in SUBSET base, NEW K \in SUBSET keys,
         \A e \in G, k \in K : e.code = k.code,
         \A e \in base, k \in K : SameKey(e, k) => e \in G,
         \A e \in G, k \in keys : SameKey(e, k) => k \in K
  PROVE  LET out == MergeGroup(InKeyOrder(G), InKeyOrder(K))
         IN /\ out \in Seq(Entry) /\ Ascending(out)
            /\ \A e : e \in ToSet(out) <=> /\ e \in A
                                           /\ \/ \E g \in G : SameKey(g, e)
                                              \/ \E k \in K : SameKey(e, k)
<1> DEFINE group == InKeyOrder(G)
           ks == InKeyOrder(K)
<1>1. Distinct(G) /\ Distinct(K)
  BY DistinctPart DEF Makes
<1>2. group \in Seq(G) /\ ToSet(group) = G /\ Ascending(group)
  BY <1>1, InKeyOrderIs
<1>3. ks \in Seq(K) /\ ToSet(ks) = K /\ Ascending(ks)
  BY <1>1, InKeyOrderIs
<1> HIDE DEF group, ks
<1>4. /\ \A i \in 1..Len(group) : group[i] \in G
      /\ Len(ks) \in Nat /\ \A j \in 1..Len(ks) : ks[j] \in K
      /\ \A k \in K : \E j \in 1..Len(ks) : k = ks[j]
  <2>1. \A k \in ToSet(ks) : \E j \in 1..Len(ks) : k = ks[j]
    BY <1>3 DEF ToSet
  <2> QED
    BY <2>1, <1>2, <1>3
<1>5. \A k \in K : Became(group, k) = {e \in A : SameKey(e, k)}
  <2> TAKE k \in K
  <2>1. {e \in ToSet(group) : SameKey(e, k)} = {e \in base : SameKey(e, k)}
    BY <1>2
  <2>2. Became(group, k) = ApplyOps({e \in base : SameKey(e, k)}, k.ops)
    BY <2>1 DEF Became
  <2> QED
    BY <2>2 DEF Makes
<1>6. Mergeable(group, ks)
  <2>1. group \in Seq(Entry)
    <3>1. G \subseteq Entry
      BY DEF Makes
    <3> QED
      BY <3>1, <1>2
  <2>2. \A j \in 1..Len(ks) : Keyed(ks[j])
    BY <1>1, <1>4 DEF Distinct
  <2>3. \A k \in K : Became(group, k) = {}
                     \/ \E e \in Entry : Became(group, k) = {e} /\ SameKey(e, k)
    <3> TAKE k \in K
    <3>1. CASE \E e \in A : SameKey(e, k)
      <4>1. PICK e \in A : SameKey(e, k)
        BY <3>1
      <4>2. \A x \in A : SameKey(x, k) => x = e
        BY <4>1 DEF SameKey, Makes, Distinct
      <4>3. Became(group, k) = {e}
        BY <4>1, <4>2, <1>5
      <4> QED
        BY <4>1, <4>3 DEF Makes
    <3>2. CASE \A e \in A : ~SameKey(e, k)
      BY <3>2, <1>5
    <3> QED
      BY <3>1, <3>2
  <2>4. \A i \in 1..Len(group), j \in 1..Len(ks) : group[i].code = ks[j].code
    BY <1>4
  <2> QED
    BY <2>1, <2>2, <2>3, <2>4, <1>2, <1>3, <1>4 DEF Mergeable
<1> DEFINE out == MergeGroup(group, ks)
<1>7. /\ out \in Seq(Entry) /\ Ascending(out)
      /\ \A e : e \in ToSet(out) <=> \/ e \in ToSet(group) /\ Untouched(ks, e)
                                     \/ \E j \in 1..Len(ks) : e \in Became(group, ks[j])
  BY <1>6, MergeGroupIs
<1> HIDE DEF out
<1>8. \A e : e \in ToSet(out) <=> \/ e \in G /\ \A k \in K : ~SameKey(e, k)
                                  \/ \E k \in K : e \in A /\ SameKey(e, k)
  <2> TAKE e
  <2>1. Untouched(ks, e) <=> \A k \in K : ~SameKey(e, k)
    BY <1>4 DEF Untouched
  <2>2. (\E j \in 1..Len(ks) : e \in Became(group, ks[j])) <=> \E k \in K : e \in Became(group, k)
    BY <1>4
  <2>3. \A k \in K : e \in Became(group, k) <=> e \in A /\ SameKey(e, k)
    BY <1>5
  <2> QED
    BY <2>1, <2>2, <2>3, <1>2, <1>7
<1>9. ASSUME NEW e
      PROVE  e \in ToSet(out) <=> /\ e \in A
                                  /\ \/ \E g \in G : SameKey(g, e)
                                     \/ \E k \in K : SameKey(e, k)
  <2>1. \A g \in G : (\A k \in K : ~SameKey(g, k)) => g \in A
    BY DEF Makes
  <2>2. ASSUME e \in A, NEW g \in G, SameKey(g, e), \A k \in K : ~SameKey(e, k)
        PROVE  e \in G
    <3>1. \A k \in keys : ~SameKey(e, k)
      BY <2>2 DEF SameKey
    <3>2. e \in base /\ g \in base
      BY <3>1, <2>2 DEF Makes
    <3>3. g = e
      BY <3>2, <2>2 DEF Makes, Distinct
    <3> QED
      BY <3>3
  <2>3. SameKey(e, e)
    BY DEF SameKey
  <2> QED
    BY <2>1, <2>2, <2>3, <1>8
<1> QED
  BY <1>7, <1>9 DEF out, group, ks

CodesOf(base) == InCodeOrder({e.code : e \in base})
WholeGroups(base) ==
  \A e \in base : {x \in seg : x.code = e.code} = {x \in base : x.code = e.code}

(* So scan, block by block, yields all of A in order.                      *)
LEMMA StreamMakes ==
  ASSUME NEW A, NEW base, NEW keys, Makes(A, base, keys), WholeGroups(base),
         NEW cs, cs = CodesOf(base)
  PROVE  Stream(keys, cs) = InKeyOrder(A)
<1> DEFINE C == {e.code : e \in base}
           N == Len(cs)
<1>0. /\ A \in SUBSET Entry /\ Distinct(A)
      /\ base \in SUBSET Entry /\ Distinct(base) /\ Distinct(keys)
  BY DEF Makes
<1>k. /\ \A e \in A : e.code \in Seq(Nat)
      /\ \A e \in base : e.code \in Seq(Nat)
      /\ \A k \in keys : k.code \in Seq(Nat)
  BY <1>0 DEF Distinct, Keyed
<1>1. AreCodes(C)
  <2>1. IsFiniteSet(base)
    BY <1>0 DEF Distinct
  <2> DEFINE f == [e \in base |-> e.code]
  <2>2. f \in Surjection(base, C)
    BY DEF Surjection
  <2> HIDE DEF f, C
  <2>3. IsFiniteSet(C)
    BY <2>1, <2>2, FS_Surjection
  <2> QED
    BY <2>3, <1>k DEF AreCodes, C
<1>2. cs \in Seq(C) /\ ToSet(cs) = C /\ CodesAscending(cs)
  <2> HIDE DEF C
  <2>1. /\ InCodeOrder(C) \in Seq(C) /\ ToSet(InCodeOrder(C)) = C
        /\ CodesAscending(InCodeOrder(C))
    BY <1>1, InCodeOrderIs
  <2>2. cs = InCodeOrder(C)
    BY DEF C, CodesOf
  <2> QED
    BY <2>1, <2>2
<1>3. /\ N \in Nat /\ cs \in Seq(Seq(Nat)) /\ \A n \in 1..N : cs[n] \in Seq(Nat)
      /\ \A n \in 1..N : \E e \in base : e.code = cs[n]
      /\ \A e \in base : \E n \in 1..N : e.code = cs[n]
      /\ \A l, m \in 1..N : l < m => CodeLess(cs[l], cs[m])
  <2>1. \A c \in C : c \in Seq(Nat) /\ \E e \in base : e.code = c
    BY <1>k
  <2>2. \A c \in ToSet(cs) : \E n \in 1..N : c = cs[n]
    <3> HIDE DEF C
    <3> QED
      BY <1>2 DEF ToSet
  <2>3. \A e \in base : e.code \in C
    OBVIOUS
  <2>4. N \in Nat /\ \A n \in 1..N : cs[n] \in C
    <3> HIDE DEF C
    <3> QED
      BY <1>2
  <2>5. C \subseteq Seq(Nat)
    BY <2>1
  <2> HIDE DEF C
  <2>6. cs \in Seq(Seq(Nat))
    BY <1>2, <2>5
  <2> QED
    BY <1>2, <2>1, <2>2, <2>3, <2>4, <2>6 DEF CodesAscending
<1> HIDE DEF N, C
<1> DEFINE F == [n \in 0..N |-> Flushed(keys, cs, n)]
           M == [n \in 1..N |-> Merged(keys, cs[n])]
<1>4. ASSUME NEW n \in 0..N
      PROVE  /\ F[n] \in Seq(Entry) /\ Ascending(F[n])
             /\ \A e : e \in ToSet(F[n]) <=> /\ e \in A
                                             /\ n > 0 => CodeLess(cs[n], e.code)
                                             /\ n < N => CodeLess(e.code, cs[n + 1])
  <2> DEFINE K == Between(keys, cs, n)
             Lies(e) == (n > 0 => CodeLess(cs[n], e.code)) /\ (n < N => CodeLess(e.code, cs[n + 1]))
             none == {}
             out == MergeGroup(InKeyOrder(none), InKeyOrder(K))
  <2>1. K = {k \in keys : Lies(k)}
    BY DEF Between, N
  <2>2. ASSUME NEW e \in base PROVE ~Lies(e)
    <3>1. PICK m \in 1..N : e.code = cs[m]
      BY <1>3
    <3>2. CASE m <= n
      <4>1. n \in 1..N /\ n > 0
        BY <3>2, <1>3
      <4>2. cs[m] = cs[n] \/ CodeLess(cs[m], cs[n])
        <5>1. m \in 1..N /\ n \in 1..N /\ (m = n \/ m < n)
          BY <4>1, <3>2, <1>3
        <5> QED
          BY <5>1, <1>3
      <4>3. ~CodeLess(cs[n], cs[m])
        BY <4>1, <4>2, <1>3, CodeOrder
      <4> QED
        BY <4>1, <4>3, <3>1
    <3>3. CASE ~(m <= n)
      <4>1. n + 1 \in 1..N /\ n < N /\ (n + 1 = m \/ n + 1 < m)
        BY <3>3, <1>3
      <4>2. cs[n + 1] = cs[m] \/ CodeLess(cs[n + 1], cs[m])
        BY <4>1, <1>3
      <4>3. ~CodeLess(cs[m], cs[n + 1])
        BY <4>1, <4>2, <1>3, CodeOrder
      <4> QED
        BY <4>1, <4>3, <3>1
    <3> QED
      BY <3>2, <3>3
  <2>3. \A e, k : SameKey(e, k) => (Lies(e) <=> Lies(k))
    BY DEF SameKey
  <2>4. InKeyOrder(none) = <<>>
    <3>1. Distinct(none)
      BY FS_EmptySet DEF Distinct
    <3>2. <<>> \in Seq(none) /\ ToSet(<<>>) = none /\ Ascending(<<>>)
      BY DEF ToSet, Ascending
    <3> HIDE DEF none
    <3> QED
      BY <3>1, <3>2, InKeyOrderIs
  <2>5. F[n] = out
    BY <2>4 DEF Flushed
  <2>6. none \in SUBSET base /\ K \in SUBSET keys
    BY <2>1
  <2>7. \A e \in base, k \in K : ~SameKey(e, k)
    BY <2>1, <2>2, <2>3
  <2> HIDE DEF Lies, K
  <2>8. /\ out \in Seq(Entry) /\ Ascending(out)
        /\ \A e : e \in ToSet(out) <=> e \in A /\ \E k \in K : SameKey(e, k)
    <3>1. \A e : ~(\E g \in none : SameKey(g, e))
      OBVIOUS
    <3>2. /\ \A e \in none, k \in K : e.code = k.code
          /\ \A e \in none, k \in keys : SameKey(e, k) => k \in K
      OBVIOUS
    <3> HIDE DEF none
    <3>3. /\ out \in Seq(Entry) /\ Ascending(out)
          /\ \A e : e \in ToSet(out) <=> /\ e \in A
                                         /\ \/ \E g \in none : SameKey(g, e)
                                            \/ \E k \in K : SameKey(e, k)
      BY <2>6, <2>7, <3>2, BlockIs
    <3> HIDE DEF out
    <3> QED
      BY <3>1, <3>3
  <2>9. \A e \in A : (\E k \in K : SameKey(e, k)) <=> Lies(e)
    <3> TAKE e \in A
    <3>1. ASSUME Lies(e) PROVE \E k \in K : SameKey(e, k)
      <4>1. ~(\A k \in keys : ~SameKey(e, k))
        BY <3>1, <2>2 DEF Makes
      <4> QED
        BY <4>1, <3>1, <2>1, <2>3
    <3> QED
      BY <3>1, <2>1, <2>3
  <2>10. \A e : e \in ToSet(F[n]) <=> e \in A /\ Lies(e)
    BY <2>5, <2>8, <2>9
  <2> QED
    BY <2>5, <2>8, <2>10 DEF Lies
<1>5. ASSUME NEW n \in 1..N
      PROVE  /\ M[n] \in Seq(Entry) /\ Ascending(M[n])
             /\ \A e : e \in ToSet(M[n]) <=> e \in A /\ e.code = cs[n]
  <2> DEFINE c == cs[n]
             G == {x \in base : x.code = c}
             K == {k \in keys : k.code = c}
             out == MergeGroup(InKeyOrder(G), InKeyOrder(K))
  <2>1. {x \in seg : x.code = c} = G
    <3>1. PICK e \in base : e.code = c
      BY <1>3
    <3> QED
      BY <3>1 DEF WholeGroups
  <2>2. M[n] = out
    BY <2>1 DEF Merged
  <2>3. /\ G \in SUBSET base /\ K \in SUBSET keys
        /\ \A e \in G, k \in K : e.code = k.code
        /\ \A e \in base, k \in K : SameKey(e, k) => e \in G
        /\ \A e \in G, k \in keys : SameKey(e, k) => k \in K
    BY DEF SameKey
  <2>4. ASSUME NEW e \in A, e.code = c
        PROVE  (\E g \in G : SameKey(g, e)) \/ \E k \in K : SameKey(e, k)
    <3>1. CASE \E k \in keys : SameKey(e, k)
      BY <3>1, <2>4 DEF SameKey
    <3>2. CASE \A k \in keys : ~SameKey(e, k)
      <4>1. e \in base
        BY <3>2 DEF Makes
      <4> QED
        BY <4>1, <2>4 DEF SameKey
    <3> QED
      BY <3>1, <3>2
  <2>5. \A e : ((\E g \in G : SameKey(g, e)) \/ \E k \in K : SameKey(e, k)) => e.code = c
    BY DEF SameKey
  <2> HIDE DEF G, K
  <2>6. /\ out \in Seq(Entry) /\ Ascending(out)
        /\ \A e : e \in ToSet(out) <=> /\ e \in A
                                       /\ \/ \E g \in G : SameKey(g, e)
                                          \/ \E k \in K : SameKey(e, k)
    BY <2>3, BlockIs
  <2> HIDE DEF out
  <2> QED
    BY <2>2, <2>4, <2>5, <2>6
<1>6. Blocks(A, cs, F, M)
  <2>1. CodesAscending(cs)
    BY <1>2
  <2> HIDE DEF F, M
  <2> QED
    BY <1>0, <1>3, <1>4, <1>5, <2>1 DEF Blocks, N
<1> DEFINE Is(h) == h = [n \in 0..Len(cs) |->
                           IF n = 0 THEN Flushed(keys, cs, 0)
                           ELSE h[n - 1] \o Merged(keys, cs[n]) \o Flushed(keys, cs, n)]
<1>7. \E h : Is(h)
  <2> DEFINE X == Seq(Entry)
             Add(n, c) == IF n \in 1..N THEN c \o M[n] \o F[n] ELSE c
             D == [n \in Nat |-> [c \in X |-> Add(n, c)]]
             Has(Y, b, E) ==
               \E f \in [Nat -> Y] : f[0] = b /\ \A n \in Nat : f[n + 1] = E[n + 1][f[n]]
             b0 == F[0]
  <2>1. b0 \in X
    BY <1>3, <1>4
  <2>2. \A n \in Nat, c \in X : Add(n, c) \in X
    <3> TAKE n \in Nat, c \in X
    <3>1. CASE n \in 1..N
      <4>1. n \in 0..N
        BY <3>1, <1>3
      <4>2. M[n] \in Seq(Entry) /\ F[n] \in Seq(Entry)
        BY <3>1, <4>1, <1>4, <1>5
      <4> HIDE DEF M, F
      <4> QED
        BY <3>1, <4>2
    <3>2. CASE n \notin 1..N
      BY <3>2
    <3> QED
      BY <3>1, <3>2
  <2>3. D \in [Nat -> [X -> X]]
    <3> HIDE DEF X, Add
    <3> QED
      BY <2>2
  <2>4. \A Y : \A b \in Y, E \in [Nat -> [Y -> Y]] : Has(Y, b, E)
    BY RecursionDefines
  <2>5. Has(X, b0, D)
    <3> HIDE DEF D, Has, X, b0
    <3> QED
      BY <2>1, <2>3, <2>4
  <2>6. PICK f \in [Nat -> X] : f[0] = b0 /\ \A n \in Nat : f[n + 1] = D[n + 1][f[n]]
    BY <2>5
  <2>7. \A n \in 1..N : f[n] = f[n - 1] \o M[n] \o F[n]
    <3> TAKE n \in 1..N
    <3>1. n \in Nat /\ n - 1 \in Nat /\ (n - 1) + 1 = n
      BY <1>3
    <3>2. f[n] = D[n][f[n - 1]] /\ f[n - 1] \in X
      BY <2>6, <3>1
    <3> HIDE DEF X, M, F
    <3> QED
      BY <3>1, <3>2
  <2> DEFINE h == [n \in 0..N |-> f[n]]
  <2>8. \A n \in 1..N : n \in 0..N /\ n - 1 \in 0..N /\ n # 0
    BY <1>3
  <2>9. h[0] = Flushed(keys, cs, 0)
    BY <2>6, <1>3
  <2>10. \A n \in 1..N : h[n] = h[n - 1] \o Merged(keys, cs[n]) \o Flushed(keys, cs, n)
    BY <2>7, <2>8
  <2>11. \A n \in 0..N : n # 0 => n \in 1..N
    BY <1>3
  <2>12. h = [n \in 0..N |-> h[n]]
    OBVIOUS
  <2> HIDE DEF h, F, M
  <2>13. Is(h)
    BY <2>9, <2>10, <2>11, <2>12 DEF N
  <2> QED
    BY <2>13
<1> DEFINE out == CHOOSE h : Is(h)
<1>8. Is(out)
  BY <1>7
<1>9. Stream(keys, cs) = out[Len(cs)]
  BY DEF Stream
<1> HIDE DEF out
<1>10. out[0] = F[0] /\ \A n \in 1..N : out[n] = out[n - 1] \o M[n] \o F[n]
  <2>1. \A n \in 1..N : n \in 0..N /\ n # 0
    BY <1>3
  <2>2. 0 \in 0..N
    BY <1>3
  <2> QED
    BY <1>8, <2>1, <2>2 DEF N
<1> HIDE DEF F, M, Is
<1>11. /\ out[Len(cs)] \in Seq(Entry) /\ Ascending(out[Len(cs)])
       /\ ToSet(out[Len(cs)]) = A
  <2>1. \A n \in 1..Len(cs) : out[n] = out[n - 1] \o M[n] \o F[n]
    BY <1>10 DEF N
  <2>2. out[0] = F[0]
    BY <1>10
  <2>3. Joined(cs, F, M, out)
    BY <2>1, <2>2 DEF Joined
  <2> QED
    BY <1>6, <2>3, StreamIs
<1> DEFINE last == out[Len(cs)]
<1>12. last \in Seq(Entry) /\ Ascending(last) /\ ToSet(last) = A
  BY <1>11
<1> HIDE DEF last
<1>13. last \in Seq(A)
  <2>1. \A i \in 1..Len(last) : last[i] \in ToSet(last)
    BY <1>12 DEF ToSet
  <2> QED
    BY <2>1, <1>12
<1>14. last = InKeyOrder(A)
  BY <1>0, <1>12, <1>13, InKeyOrderIs
<1> QED
  BY <1>9, <1>14 DEF last

(* What a prefix query reads of segment and delta.                         *)
LEMMA UnderPrefix ==
  ASSUME IInv, NEW p \in Seq(Nat)
  PROVE  /\ {e \in seg : IsPrefix(p, e.code)} = Meant(CodesUnder(p), max)
         /\ PrefixOps(p) = {i \in (max + 1)..Len(ops) : ops[i].code \in CodesUnder(p)}
         /\ OverlayEntries(Meant(CodesUnder(p), max), PrefixOps(p))
              = Meant(CodesUnder(p), Len(ops))
<1> DEFINE C == CodesUnder(p)
<1>0. /\ ops \in Ops /\ Len(ops) \in Nat /\ max \in Nat /\ max <= Len(ops) /\ max \in 0..Len(ops)
      /\ Pending = (max + 1)..Len(ops)
  BY ReadsWell DEF DeltaReads
<1>1. PrefixOps(p) = {i \in (max + 1)..Len(ops) : ops[i].code \in C}
  <2>1. PrefixOps(p) = {i \in Pending : IsPrefix(p, ops[i].code)}
    BY ReadsWell, PrefixOpsIs
  <2>2. \A i \in (max + 1)..Len(ops) : ops[i].code \in Code
    <3> TAKE i \in (max + 1)..Len(ops)
    <3>1. i \in 1..Len(ops)
      BY <1>0
    <3>2. ops[i] \in OpType
      BY <3>1, <1>0 DEF Ops
    <3> QED
      BY <3>2 DEF OpType
  <2> QED
    BY <2>1, <2>2, <1>0 DEF CodesUnder
<1>2. {e \in seg : IsPrefix(p, e.code)} = Meant(C, max)
  <2>1. Code \in SUBSET Code /\ C \in SUBSET Code
    BY DEF CodesUnder
  <2>2. /\ \A e : e \in Meant(Code, max) <=> \E k \in Keys(Code) : e \in Meaning(ops, k, max)
        /\ \A e : e \in Meant(C, max) <=> \E k \in Keys(C) : e \in Meaning(ops, k, max)
    BY <1>0, <2>1, MeantHas
  <2>3. ASSUME NEW e \in seg, IsPrefix(p, e.code) PROVE e \in Meant(C, max)
    <3>1. PICK k \in Keys(Code) : e \in Meaning(ops, k, max)
      BY <2>2 DEF IInv, SegmentHoldsFolded
    <3>2. k \in Keys(C)
      BY <2>3, <3>1, MeaningHasKey DEF SameKey, Keys, CodesUnder
    <3> QED
      BY <3>1, <3>2, <2>2
  <2>4. ASSUME NEW e \in Meant(C, max) PROVE e \in seg /\ IsPrefix(p, e.code)
    <3>1. PICK k \in Keys(C) : e \in Meaning(ops, k, max)
      BY <2>2
    <3>2. k \in Keys(Code) /\ IsPrefix(p, k.code)
      BY DEF Keys, CodesUnder
    <3> QED
      BY <3>1, <3>2, <2>2, MeaningHasKey DEF IInv, SegmentHoldsFolded, SameKey
  <2> QED
    BY <2>3, <2>4
<1>3. OverlayEntries(Meant(C, max), PrefixOps(p)) = Meant(C, Len(ops))
  <2>1. C \in SUBSET Code /\ Len(ops) <= Len(ops)
    BY <1>0 DEF CodesUnder
  <2> HIDE DEF C
  <2> QED
    BY <1>0, <1>1, <2>1, OverlayMeans
<1> QED
  BY <1>1, <1>2, <1>3

(* Of the words under a prefix, the delta makes from what the segment has  *)
(* what all operations mean.                                               *)
LEMMA PrefixMakes ==
  ASSUME IInv, NEW p \in Seq(Nat)
  PROVE  Makes(Meant(CodesUnder(p), Len(ops)), Meant(CodesUnder(p), max),
               DeltaKeys(PrefixOps(p)))
<1> DEFINE C == CodesUnder(p)
           A == Meant(C, Len(ops))
           base == Meant(C, max)
           S == PrefixOps(p)
           keys == DeltaKeys(S)
<1>0. /\ ops \in Ops /\ Len(ops) \in Nat /\ max \in Nat /\ max <= Len(ops)
      /\ max \in 0..Len(ops) /\ Len(ops) \in 0..Len(ops) /\ C \in SUBSET Code
  BY ReadsWell DEF DeltaReads, CodesUnder
<1>1. S = {i \in (max + 1)..Len(ops) : ops[i].code \in C} /\ OverlayEntries(base, S) = A
  BY UnderPrefix
<1>2. S \in SUBSET (1..Len(ops))
  BY <1>0, <1>1
<1> HIDE DEF C, S
<1>3. /\ Distinct(A) /\ Distinct(base) /\ A \in SUBSET Entry /\ base \in SUBSET Entry
      /\ \A k \in Keys(C) : {e \in base : SameKey(e, k)} = Meaning(ops, k, max)
      /\ \A k \in Keys(C) : {e \in A : SameKey(e, k)} = Meaning(ops, k, Len(ops))
  BY <1>0, MeantOnce, MeantHas
<1>4. /\ Distinct(keys)
      /\ \A k \in keys : k.ops = {j \in S : SameKey(ops[j], k)}
      /\ \A k \in keys : \E i \in S : SameKey(ops[i], k)
      /\ \A i \in S : \E k \in keys : SameKey(ops[i], k)
  BY <1>0, <1>2, DeltaKeysAre
<1> HIDE DEF keys, A, base
<1>5. ASSUME NEW k \in keys
      PROVE  ApplyOps({e \in base : SameKey(e, k)}, k.ops) = {e \in A : SameKey(e, k)}
  <2> DEFINE l == [code |-> k.code, text |-> k.text]
  <2>1. \A x : SameKey(x, k) <=> SameKey(x, l)
    BY DEF SameKey
  <2>2. l \in Keys(C) /\ l \in Key
    <3>1. PICK i \in S : SameKey(ops[i], k)
      BY <1>4
    <3>2. ops[i] \in OpType /\ ops[i].code \in C
      BY <1>0, <1>1, <1>2 DEF Ops
    <3>3. k.code \in C /\ k.text \in Text
      BY <3>1, <3>2 DEF OpType, SameKey
    <3> QED
      BY <3>3, <1>0 DEF Keys, Key
  <2>3. l.code \in C
    BY <2>2 DEF Keys
  <2> HIDE DEF l
  <2>4. {e \in base : SameKey(e, k)} = Meaning(ops, l, max)
    BY <2>1, <2>2, <1>3
  <2>5. {e \in A : SameKey(e, k)} = Meaning(ops, l, Len(ops))
    BY <2>1, <2>2, <1>3
  <2>6. k.ops = {i \in (max + 1)..Len(ops) : SameKey(ops[i], l)}
    BY <2>1, <2>3, <1>1, <1>4 DEF SameKey
  <2> DEFINE Sk == k.ops
  <2> HIDE DEF Sk
  <2>7. Sk = {i \in (max + 1)..Len(ops) : SameKey(ops[i], l)}
    BY <2>6 DEF Sk
  <2>8. Applied(ops, Meaning(ops, l, max), Sk)[Len(ops)] = Meaning(ops, l, Len(ops))
    BY <1>0, <2>2, <2>7, AppliedMeans
  <2> QED
    BY <2>4, <2>5, <2>8 DEF ApplyOps, Sk
<1>6. ASSUME NEW e, \A k \in keys : ~SameKey(e, k)
      PROVE  e \in A <=> e \in base
  <2>1. \A i \in S : ~SameKey(e, ops[i])
    BY <1>4, <1>6 DEF SameKey
  <2> DEFINE untouched == {x \in base : \A i \in S : ~SameKey(x, ops[i])}
             Touched(k) == ApplyOps({x \in base : SameKey(x, k)}, {i \in S : SameKey(ops[i], k)})
  <2>2. A = untouched \cup UNION {Touched(ops[i]) : i \in S}
    BY <1>1 DEF OverlayEntries
  <2>3. ASSUME NEW i \in S PROVE e \notin Touched(ops[i])
    <3>1. PICK k \in keys : SameKey(ops[i], k)
      BY <1>4
    <3>2. /\ {x \in base : SameKey(x, ops[i])} = {x \in base : SameKey(x, k)}
          /\ {j \in S : SameKey(ops[j], ops[i])} = k.ops
      BY <3>1, <1>4 DEF SameKey
    <3>3. Touched(ops[i]) = {x \in A : SameKey(x, k)}
      BY <3>2, <1>5
    <3> HIDE DEF Touched
    <3> QED
      BY <3>3, <1>6
  <2> HIDE DEF Touched
  <2> QED
    BY <2>1, <2>2, <2>3
<1>7. Makes(A, base, keys)
  BY <1>3, <1>4, <1>5, <1>6 DEF Makes
<1> QED
  BY <1>7 DEF A, base, keys, C, S

(* So does the merge.                                                      *)
LEMMA ScanIsMeant ==
  ASSUME IInv, NEW p \in Seq(Nat)
  PROVE  Scan(p) = InKeyOrder(Meant(CodesUnder(p), Len(ops)))
<1> DEFINE A == Meant(CodesUnder(p), Len(ops))
           base == Meant(CodesUnder(p), max)
           keys == DeltaKeys(PrefixOps(p))
           cs == CodesOf(base)
<1>1. {x \in seg : IsPrefix(p, x.code)} = base
  BY UnderPrefix
<1>2. Scan(p) = Stream(keys, cs)
  BY <1>1 DEF Scan, CodesOf
<1>3. Makes(A, base, keys)
  BY PrefixMakes
<1>4. WholeGroups(base)
  BY <1>1 DEF WholeGroups
<1> HIDE DEF A, base, keys
<1>5. cs = CodesOf(base)
  OBVIOUS
<1> HIDE DEF cs
<1>6. Stream(keys, cs) = InKeyOrder(A)
  BY <1>3, <1>4, <1>5, StreamMakes
<1> QED
  BY <1>2, <1>6 DEF A

(* What scans and prefix queries are asked: codes and their beginnings.     *)
LEMMA PrefixesAreCodes == \A p \in CodePrefixes : p \in Seq(Nat)
<1> TAKE p \in CodePrefixes
<1>1. PICK c \in Code : \E n \in 0..Len(c) : p = SubSeq(c, 1, n)
  BY DEF CodePrefixes
<1>2. PICK n \in 0..Len(c) : p = SubSeq(c, 1, n)
  BY <1>1
<1>3. c \in Seq(Nat)
  BY KeysAssumption
<1> QED
  BY <1>2, <1>3, Beginning

(* Whatever part of the operations is in the segment, in the frozen part   *)
(* and in the tail, the streaming merge of a prefix (UserData::scan,       *)
(* merge_code_group, flush_delta_before) yields every entry of its codes   *)
(* once, in order of code and text.                                        *)
THEOREM ScansAreRight == Spec => []ScanFindsAll
<1>1. IInv => ScanFindsAll
  BY PrefixesAreCodes, ScanIsMeant DEF ScanFindsAll
<1> QED
  BY <1>1, Invariant, PTL

-----------------------------------------------------------------------------
(* The limited prefix query.                                               *)

FirstLen(n, limit) == IF limit = 0 \/ n <= limit THEN n ELSE limit

(* How long the beginning of a sequence is.                                *)
LEMMA FirstLenIs ==
  ASSUME NEW X, NEW s \in Seq(X), NEW limit \in Nat
  PROVE  Len(First(s, limit)) = FirstLen(Len(s), limit)
<1>0. Len(s) \in Nat
  OBVIOUS
<1>1. CASE limit = 0
  BY <1>1 DEF First, FirstLen
<1>2. CASE limit # 0
  <2> DEFINE m == IF limit < Len(s) THEN limit ELSE Len(s)
  <2>1. m \in 0..Len(s) /\ m = FirstLen(Len(s), limit)
    BY <1>0, <1>2 DEF FirstLen
  <2>2. First(s, limit) = SubSeq(s, 1, m)
    BY <1>2 DEF First
  <2> HIDE DEF m
  <2>3. Len(SubSeq(s, 1, m)) = m
    BY <2>1, Beginning
  <2> QED
    BY <2>1, <2>2, <2>3
<1> QED
  BY <1>1, <1>2

(* The first of a sorted sequence are those with few before them.          *)
LEMMA FirstOfSorted ==
  ASSUME NEW S, NEW D, StrictOrder(S, D), NEW limit \in Nat
  PROVE  /\ Len(First(Ranked(S, D), limit)) = FirstLen(Cardinality(S), limit)
         /\ ToSet(First(Ranked(S, D), limit)) = {x \in S : limit = 0 \/ Cardinality(D[x]) < limit}
<1> DEFINE f == Ranked(S, D)
           N == Cardinality(S)
<1>1. /\ f \in Seq(S) /\ Len(f) = N /\ ToSet(f) = S
      /\ \A i \in 1..N : Cardinality(D[f[i]]) = i - 1
  BY RankedIs
<1> HIDE DEF f, N
<1>2. N \in Nat /\ \A i \in 1..N : f[i] \in S
  BY <1>1
<1>3. Len(First(f, limit)) = FirstLen(N, limit)
  BY <1>1, FirstLenIs
<1>4. CASE limit = 0
  BY <1>1, <1>3, <1>4 DEF First, f, N
<1>5. CASE limit # 0
  <2> DEFINE m == IF limit < N THEN limit ELSE N
  <2>1. m \in 0..N /\ \A i \in 1..N : i <= m <=> i <= limit
    BY <1>2, <1>5
  <2>2. First(f, limit) = SubSeq(f, 1, m)
    BY <1>1, <1>5 DEF First
  <2> HIDE DEF m
  <2>3. ToSet(SubSeq(f, 1, m)) = {f[i] : i \in 1..m}
    BY <1>1, <2>1, Beginning
  <2>4. ASSUME NEW x \in S
        PROVE  (\E i \in 1..m : x = f[i]) <=> Cardinality(D[x]) < limit
    <3>1. PICK i \in 1..N : x = f[i]
      BY <1>1 DEF ToSet
    <3>2. Cardinality(D[x]) = i - 1 /\ i \in Int
      BY <1>1, <1>2, <3>1
    <3>3. \A j \in 1..m : j \in 1..N /\ (x = f[j] => j - 1 = i - 1)
      <4> TAKE j \in 1..m
      <4>1. j \in 1..N
        BY <2>1, <1>2
      <4> QED
        BY <4>1, <3>2, <1>1
    <3>4. (\E j \in 1..m : x = f[j]) <=> i \in 1..m
      <4>1. \A j \in 1..m : x = f[j] => j = i
        BY <3>2, <3>3, <2>1
      <4> QED
        BY <4>1, <3>1
    <3>5. i \in 1..m <=> i - 1 < limit
      BY <2>1, <3>1, <1>2
    <3> QED
      BY <3>2, <3>4, <3>5
  <2>5. \A i \in 1..m : f[i] \in S
    BY <1>2, <2>1
  <2>6. ToSet(First(f, limit)) = {x \in S : limit = 0 \/ Cardinality(D[x]) < limit}
    BY <1>5, <2>2, <2>3, <2>4, <2>5
  <2> QED
    BY <1>3, <2>6 DEF f, N
<1> QED
  BY <1>4, <1>5

(* The order of what is shown.                                             *)
Ahead(O) == [x \in O |-> {y \in O : Better(y, x)}]

(* It is one: better by weight, then by key.                               *)
LEMMA BetterIs ==
  ASSUME NEW O \in SUBSET Entry, Distinct(O)
  PROVE  StrictOrder(O, Ahead(O)) /\ InOrder(O, Better) = Ranked(O, Ahead(O))
<1> DEFINE D == Ahead(O)
<1>0. /\ IsFiniteSet(O) /\ \A x \in O : Keyed(x) /\ x.weight \in Int
      /\ \A x, y \in O : SameKey(x, y) => x = y
  BY DEF Distinct, Entry
<1>d. D = [x \in O |-> {y \in O : Better(y, x)}]
  BY DEF Ahead
<1> HIDE DEF D
<1>1. \A x \in O : x \notin D[x]
  <2> TAKE x \in O
  <2>1. ~KeyLess(x, x) /\ ~(x.weight > x.weight)
    BY <1>0, KeyOrder DEF SameKey
  <2> QED
    BY <1>d, <2>1 DEF Better
<1>2. ASSUME NEW x \in O, NEW y \in O, x \in D[y] PROVE D[x] \subseteq D[y]
  <2> SUFFICES ASSUME NEW z \in O, Better(z, x) PROVE Better(z, y)
    BY <1>d
  <2>1. Better(x, y)
    BY <1>2, <1>d
  <2>2. KeyLess(z, x) /\ KeyLess(x, y) => KeyLess(z, y)
    BY <1>0, KeyOrder
  <2> QED
    BY <2>1, <2>2, <1>0 DEF Better
<1>3. \A x, y \in O : x \in D[y] \/ y \in D[x] \/ x = y
  <2> TAKE x, y \in O
  <2>1. KeyLess(x, y) \/ KeyLess(y, x) \/ x = y
    BY <1>0, KeyOrder
  <2>2. x.weight > y.weight \/ y.weight > x.weight \/ x.weight = y.weight
    BY <1>0
  <2> QED
    BY <2>1, <2>2, <1>d DEF Better
<1>4. D \in [O -> SUBSET O]
  BY <1>d
<1>5. StrictOrder(O, D)
  BY <1>0, <1>1, <1>2, <1>3, <1>4 DEF StrictOrder
<1>6. InOrder(O, Better) = Ranked(O, D)
  BY DEF InOrder, D, Ahead
<1> QED
  BY <1>5, <1>6 DEF D

(* The order in which the segment is read.                                 *)
Earlier(base) == [x \in base |-> {y \in base : Sooner(y, x)}]

(* Entries of a code and a weight have places in the order of their texts. *)
LEMMA PlacesDiffer ==
  ASSUME seg \in SUBSET Entry, Distinct(seg)
  PROVE  /\ \A x \in seg : PlaceInCode(x) \in Nat
         /\ \A x, y \in seg : x.code = y.code /\ x.weight = y.weight /\ x.text < y.text
                                => PlaceInCode(x) < PlaceInCode(y)
<1> DEFINE P(e) == {x \in seg : x.code = e.code /\
                      (x.weight > e.weight \/ (x.weight = e.weight /\ x.text < e.text))}
<1>0. IsFiniteSet(seg) /\ \A x \in seg : x.weight \in Int /\ x.text \in Nat
  BY KeysAssumption DEF Distinct, Entry
<1>1. \A e \in seg : IsFiniteSet(P(e)) /\ Cardinality(P(e)) \in Nat
  <2> TAKE e \in seg
  <2>1. P(e) \in SUBSET seg
    OBVIOUS
  <2> HIDE DEF P
  <2>2. IsFiniteSet(P(e))
    BY <1>0, <2>1, FS_Subset
  <2> QED
    BY <2>2, FS_CardinalityType
<1>2. \A e \in seg : PlaceInCode(e) = Cardinality(P(e))
  BY DEF PlaceInCode
<1>3. ASSUME NEW x \in seg, NEW y \in seg, x.code = y.code, x.weight = y.weight, x.text < y.text
      PROVE  Cardinality(P(x)) < Cardinality(P(y))
  <2>1. x \notin P(x) /\ P(x) \cup {x} \in SUBSET P(y)
    BY <1>0, <1>3
  <2> HIDE DEF P
  <2>2. Cardinality(P(x) \cup {x}) = Cardinality(P(x)) + 1
    BY <1>1, <2>1, FS_AddElement
  <2>3. Cardinality(P(x) \cup {x}) <= Cardinality(P(y))
    BY <1>1, <2>1, FS_Subset, Zenon
  <2> QED
    BY <1>1, <2>2, <2>3
<1> HIDE DEF P
<1> QED
  BY <1>1, <1>2, <1>3

(* It is one as well, of any part of the segment.                          *)
LEMMA SoonerIs ==
  ASSUME seg \in SUBSET Entry, Distinct(seg), NEW base \in SUBSET seg
  PROVE  StrictOrder(base, Earlier(base)) /\ InOrder(base, Sooner) = Ranked(base, Earlier(base))
<1> DEFINE D == Earlier(base)
<1>0. /\ IsFiniteSet(base)
      /\ \A x \in base : Keyed(x) /\ x.weight \in Int /\ x.code \in Seq(Nat) /\ x.text \in Nat
      /\ \A x, y \in base : SameKey(x, y) => x = y
  <2>1. IsFiniteSet(base)
    BY FS_Subset DEF Distinct
  <2> QED
    BY <2>1 DEF Distinct, Entry, Keyed
<1>p. /\ \A x \in base : PlaceInCode(x) \in Nat
      /\ \A x, y \in base : x.code = y.code /\ x.weight = y.weight /\ x.text < y.text
                              => PlaceInCode(x) < PlaceInCode(y)
  BY PlacesDiffer
<1>d. D = [x \in base |-> {y \in base : Sooner(y, x)}]
  BY DEF Earlier
<1> HIDE DEF D
<1>1. \A x \in base : x \notin D[x]
  <2> TAKE x \in base
  <2>1. ~CodeLess(x.code, x.code)
    BY <1>0, CodeOrder
  <2> QED
    BY <1>0, <1>p, <1>d, <2>1 DEF Sooner
<1>2. ASSUME NEW x \in base, NEW y \in base, x \in D[y] PROVE D[x] \subseteq D[y]
  <2> SUFFICES ASSUME NEW z \in base, Sooner(z, x) PROVE Sooner(z, y)
    BY <1>d
  <2>1. Sooner(x, y)
    BY <1>2, <1>d
  <2>2. CodeLess(z.code, x.code) /\ CodeLess(x.code, y.code) => CodeLess(z.code, y.code)
    BY <1>0, CodeOrder
  <2> QED
    BY <2>1, <2>2, <1>0, <1>p DEF Sooner
<1>3. \A x, y \in base : x \in D[y] \/ y \in D[x] \/ x = y
  <2> TAKE x, y \in base
  <2>1. CodeLess(x.code, y.code) \/ CodeLess(y.code, x.code) \/ x.code = y.code
    BY <1>0, CodeOrder
  <2>2. x.weight > y.weight \/ y.weight > x.weight \/ x.weight = y.weight
    BY <1>0
  <2>3. \/ PlaceInCode(x) < PlaceInCode(y) \/ PlaceInCode(y) < PlaceInCode(x)
        \/ PlaceInCode(x) = PlaceInCode(y)
    BY <1>p
  <2>4. x.code = y.code /\ x.weight = y.weight /\ PlaceInCode(x) = PlaceInCode(y) => x = y
    <3>1. x.text < y.text \/ y.text < x.text \/ x.text = y.text
      BY <1>0
    <3> QED
      BY <3>1, <1>p, <1>0 DEF SameKey
  <2> QED
    BY <2>1, <2>2, <2>3, <2>4, <1>d DEF Sooner
<1>4. D \in [base -> SUBSET base]
  BY <1>d
<1>5. StrictOrder(base, D)
  BY <1>0, <1>1, <1>2, <1>3, <1>4 DEF StrictOrder
<1>6. InOrder(base, Sooner) = Ranked(base, D)
  BY DEF InOrder, D, Earlier
<1> QED
  BY <1>5, <1>6 DEF D

(* What the same operations make of nothing and of an entry b of weight w: *)
(* without SetWeight they weigh the same as soon as both are there, but    *)
(* for a word that was only counted, which weighs nothing where b is not   *)
(* known.                                                                  *)
One(R, l, w) == \E e \in Entry : R = {e} /\ SameKey(e, l) /\ e.weight = w
Alike(R0, R1, l, w) ==
  \/ R0 = {} /\ R1 = {}
  \/ R0 = {} /\ One(R1, l, w)
  \/ \E v \in Int : One(R0, l, v) /\ One(R1, l, v)
  \/ One(R0, l, 0) /\ One(R1, l, w) /\ w >= 0

(* What an operation but SetWeight makes of an entry of its key.           *)
LEMMA EffectOnOne ==
  ASSUME NEW o \in OpType, NEW i \in Nat \ {0}, NEW R \in SUBSET Entry, NEW v \in Int,
         One(R, o, v)
  PROVE  /\ o.op = "upsert" => One(Effect(R, o, i), o, o.arg)
         /\ o.op \in {"incr", "touch"} => One(Effect(R, o, i), o, v)
<1>1. PICK e \in Entry : R = {e} /\ SameKey(e, o) /\ e.weight = v
  BY DEF One
<1>2. Effect(R, o, i) \in SUBSET Entry
  BY EffectType
<1>3. CASE o.op = "upsert"
  <2> DEFINE f == [e EXCEPT !.weight = o.arg, !.used = i]
  <2>1. Effect(R, o, i) = {f}
    BY <1>1, <1>3 DEF Effect, Upsert
  <2>2. f = [[e EXCEPT !.weight = o.arg] EXCEPT !.used = i]
    BY TwoFields
  <2>3. f.code = e.code /\ f.text = e.text /\ f.weight = o.arg
    BY <2>2 DEF Entry
  <2> HIDE DEF f
  <2> QED
    BY <1>1, <1>2, <1>3, <2>1, <2>3 DEF One, SameKey
<1>4. CASE o.op = "incr"
  <2> DEFINE c == Capped(e.count + o.arg)
             f == [e EXCEPT !.count = Capped(@ + o.arg), !.used = i]
             g == [e EXCEPT !.count = c, !.used = i]
  <2>1. Effect(R, o, i) = {f} /\ f = g
    BY <1>1, <1>4 DEF Effect, Incr
  <2> HIDE DEF c, f
  <2>2. g = [[e EXCEPT !.count = c] EXCEPT !.used = i]
    BY TwoFields
  <2>3. g.code = e.code /\ g.text = e.text /\ g.weight = e.weight
    BY <2>2 DEF Entry
  <2> HIDE DEF g
  <2> QED
    BY <1>1, <1>2, <1>4, <2>1, <2>3 DEF One, SameKey
<1>5. CASE o.op = "touch"
  <2> DEFINE f == [e EXCEPT !.used = o.arg]
  <2>1. Effect(R, o, i) = {f}
    BY <1>1, <1>5 DEF Effect
  <2>2. f.code = e.code /\ f.text = e.text /\ f.weight = e.weight
    BY DEF Entry
  <2> HIDE DEF f
  <2> QED
    BY <1>1, <1>2, <1>5, <2>1, <2>2 DEF One, SameKey
<1> QED
  BY <1>3, <1>4, <1>5

(* What it makes of nothing.                                               *)
LEMMA EffectOnNone ==
  ASSUME NEW o \in OpType, NEW i \in Nat \ {0}
  PROVE  /\ o.op = "upsert" => One(Effect({}, o, i), o, o.arg)
         /\ o.op = "incr" => One(Effect({}, o, i), o, 0)
         /\ o.op = "touch" => Effect({}, o, i) = {}
<1>1. Effect({}, o, i) \in SUBSET Entry
  <2> DEFINE none == {}
  <2>1. none \in SUBSET Entry
    OBVIOUS
  <2> HIDE DEF none
  <2>2. Effect(none, o, i) \in SUBSET Entry
    BY <2>1, EffectType
  <2> QED
    BY <2>2 DEF none
<1>2. CASE o.op = "upsert"
  <2> DEFINE f == Fresh(o, i, o.arg, 0)
  <2>1. Effect({}, o, i) = {f}
    BY <1>2 DEF Effect, Upsert
  <2>2. f.code = o.code /\ f.text = o.text /\ f.weight = o.arg
    BY DEF Fresh
  <2> HIDE DEF f
  <2> QED
    BY <1>1, <1>2, <2>1, <2>2 DEF One, SameKey
<1>3. CASE o.op = "incr"
  <2> DEFINE f == Fresh(o, i, 0, o.arg)
  <2>1. Effect({}, o, i) = {f}
    BY <1>3 DEF Effect, Incr
  <2>2. f.code = o.code /\ f.text = o.text /\ f.weight = 0
    BY DEF Fresh
  <2> HIDE DEF f
  <2> QED
    BY <1>1, <1>3, <2>1, <2>2 DEF One, SameKey
<1>4. CASE o.op = "touch"
  BY <1>4 DEF Effect
<1> QED
  BY <1>2, <1>3, <1>4

(* An operation keeps them alike, if it is no SetWeight and counts no word *)
(* that weighs less than nothing.                                          *)
LEMMA AlikeStep ==
  ASSUME NEW o \in OpType, NEW i \in Nat \ {0}, NEW R0 \in SUBSET Entry, NEW R1 \in SUBSET Entry,
         NEW w \in Int, Alike(R0, R1, o, w), o.op # "setweight", o.op = "incr" => w >= 0
  PROVE  Alike(Effect(R0, o, i), Effect(R1, o, i), o, w)
<1> DEFINE E(R) == Effect(R, o, i)
<1>0. o.op \in {"upsert", "delete", "incr", "touch"} /\ o.arg \in Int
  BY DEF OpType, Kinds
<1>1. /\ \A R \in SUBSET Entry, v \in Int : One(R, o, v) =>
           /\ o.op = "upsert" => One(E(R), o, o.arg)
           /\ o.op \in {"incr", "touch"} => One(E(R), o, v)
  BY EffectOnOne
<1>2. /\ o.op = "upsert" => One(E({}), o, o.arg)
      /\ o.op = "incr" => One(E({}), o, 0)
      /\ o.op = "touch" => E({}) = {}
  BY EffectOnNone
<1>3. o.op = "delete" => E(R0) = {} /\ E(R1) = {}
  BY DEF Effect
<1> HIDE DEF E
<1>4. CASE o.op = "delete"
  BY <1>3, <1>4 DEF Alike, E
<1>5. CASE o.op = "upsert"
  <2>1. One(E(R0), o, o.arg)
    <3>1. R0 = {} \/ \E v \in Int : One(R0, o, v)
      BY DEF Alike
    <3> QED
      BY <3>1, <1>1, <1>2, <1>5
  <2>2. One(E(R1), o, o.arg)
    <3>1. R1 = {} \/ \E v \in Int : One(R1, o, v)
      BY DEF Alike
    <3> QED
      BY <3>1, <1>1, <1>2, <1>5
  <2> QED
    BY <2>1, <2>2, <1>0 DEF Alike, E
<1>6. CASE o.op = "touch"
  <2>1. CASE R0 = {} /\ R1 = {}
    BY <2>1, <1>2, <1>6 DEF Alike, E
  <2>2. CASE R0 = {} /\ One(R1, o, w)
    BY <2>2, <1>1, <1>2, <1>6 DEF Alike, E
  <2>3. CASE \E v \in Int : One(R0, o, v) /\ One(R1, o, v)
    BY <2>3, <1>1, <1>6 DEF Alike, E
  <2>4. CASE One(R0, o, 0) /\ One(R1, o, w) /\ w >= 0
    BY <2>4, <1>1, <1>6 DEF Alike, E
  <2> QED
    BY <2>1, <2>2, <2>3, <2>4 DEF Alike
<1>7. CASE o.op = "incr"
  <2>1. CASE R0 = {} /\ R1 = {}
    BY <2>1, <1>2, <1>7 DEF Alike, E
  <2>2. CASE R0 = {} /\ One(R1, o, w)
    BY <2>2, <1>1, <1>2, <1>7 DEF Alike, E
  <2>3. CASE \E v \in Int : One(R0, o, v) /\ One(R1, o, v)
    BY <2>3, <1>1, <1>7 DEF Alike, E
  <2>4. CASE One(R0, o, 0) /\ One(R1, o, w) /\ w >= 0
    BY <2>4, <1>1, <1>7 DEF Alike, E
  <2> QED
    BY <2>1, <2>2, <2>3, <2>4 DEF Alike
<1> QED
  BY <1>0, <1>4, <1>5, <1>6, <1>7

(* So do all operations of a key.                                          *)
LEMMA AppliedAlike ==
  ASSUME ops \in Ops, NEW l, NEW b \in Entry, SameKey(b, l),
         NEW S \in SUBSET (1..Len(ops)), \A i \in S : SameKey(ops[i], l),
         \A i \in S : ops[i].op # "setweight" /\ (ops[i].op = "incr" => b.weight >= 0)
  PROVE  Alike(ApplyOps({}, S), ApplyOps({b}, S), l, b.weight)
<1> DEFINE none == {}
           one == {b}
           A0 == Applied(ops, none, S)
           A1 == Applied(ops, one, S)
           w == b.weight
           T == {n \in Nat : Alike(A0[n], A1[n], l, w)}
<1>0. Len(ops) \in Nat /\ none \in SUBSET Entry /\ one \in SUBSET Entry /\ w \in Int
  BY DEF Ops, Entry
<1>1. Alike(none, one, l, w)
  BY DEF Alike, One
<1> HIDE DEF none, one
<1>2. /\ A0[0] = none /\ \A n \in Nat : A0[n] \in SUBSET Entry
      /\ \A n \in Nat : n + 1 \in S => A0[n + 1] = Effect(A0[n], ops[n + 1], n + 1)
      /\ \A n \in Nat : n + 1 \notin S => A0[n + 1] = A0[n]
  BY <1>0, AppliedIs, Zenon
<1>3. /\ A1[0] = one /\ \A n \in Nat : A1[n] \in SUBSET Entry
      /\ \A n \in Nat : n + 1 \in S => A1[n + 1] = Effect(A1[n], ops[n + 1], n + 1)
      /\ \A n \in Nat : n + 1 \notin S => A1[n + 1] = A1[n]
  BY <1>0, AppliedIs, Zenon
<1> HIDE DEF A0, A1, w
<1>4. 0 \in T
  BY <1>1, <1>2, <1>3
<1>5. ASSUME NEW n \in Nat, n \in T PROVE n + 1 \in T
  <2>1. CASE n + 1 \in S
    <3> DEFINE o == ops[n + 1]
    <3>1. /\ o \in OpType /\ n + 1 \in Nat \ {0} /\ SameKey(o, l) /\ o.op # "setweight"
          /\ o.op = "incr" => w >= 0
      BY <2>1 DEF Ops, w
    <3> HIDE DEF o
    <3>2. \A R, v : One(R, l, v) <=> One(R, o, v)
      BY <3>1 DEF One, SameKey
    <3>3. \A R, Q : Alike(R, Q, l, w) <=> Alike(R, Q, o, w)
      BY <3>2 DEF Alike
    <3>4. Alike(A0[n], A1[n], o, w)
      BY <1>5, <3>3
    <3>5. A0[n] \in SUBSET Entry /\ A1[n] \in SUBSET Entry
      BY <1>2, <1>3
    <3>6. Alike(Effect(A0[n], o, n + 1), Effect(A1[n], o, n + 1), o, w)
      BY <1>0, <3>1, <3>4, <3>5, AlikeStep
    <3>7. A0[n + 1] = Effect(A0[n], o, n + 1) /\ A1[n + 1] = Effect(A1[n], o, n + 1)
      BY <1>2, <1>3, <2>1 DEF o
    <3> QED
      BY <3>3, <3>6, <3>7
  <2>2. CASE n + 1 \notin S
    BY <2>2, <1>2, <1>3, <1>5
  <2> QED
    BY <2>1, <2>2
<1> HIDE DEF T
<1>6. \A n \in Nat : n \in T
  BY <1>4, <1>5, SetInduction
<1>7. Alike(A0[Len(ops)], A1[Len(ops)], l, w)
  BY <1>0, <1>6 DEF T
<1> QED
  BY <1>7 DEF ApplyOps, A0, A1, w, none, one

(* At most one entry, and of the key l.                                    *)
Few(R, l) == R = {} \/ \E v \in Int : One(R, l, v)

(* An operation keeps to it, of whatever kind.                             *)
LEMMA EffectKeepsFew ==
  ASSUME NEW o \in OpType, NEW i \in Nat \ {0}, NEW R \in SUBSET Entry, Few(R, o)
  PROVE  Few(Effect(R, o, i), o)
<1>0. o.op \in Kinds /\ o.arg \in Int
  BY DEF OpType
<1>1. CASE R = {}
  <2>1. /\ o.op = "upsert" => One(Effect({}, o, i), o, o.arg)
        /\ o.op = "incr" => One(Effect({}, o, i), o, 0)
        /\ o.op = "touch" => Effect({}, o, i) = {}
    BY EffectOnNone
  <2>2. o.op \in {"delete", "setweight"} => Effect({}, o, i) = {}
    BY DEF Effect
  <2> QED
    BY <1>0, <1>1, <2>1, <2>2 DEF Few, Kinds
<1>2. CASE \E v \in Int : One(R, o, v)
  <2>1. PICK v \in Int : One(R, o, v)
    BY <1>2
  <2>2. /\ o.op = "upsert" => One(Effect(R, o, i), o, o.arg)
        /\ o.op \in {"incr", "touch"} => One(Effect(R, o, i), o, v)
    BY <2>1, EffectOnOne
  <2>3. CASE o.op = "delete"
    BY <2>3 DEF Effect, Few
  <2>4. CASE o.op = "setweight"
    <3>1. PICK e \in Entry : R = {e} /\ SameKey(e, o)
      BY <2>1 DEF One
    <3> DEFINE f == [e EXCEPT !.weight = o.arg]
    <3>2. Effect(R, o, i) = {f}
      BY <2>4, <3>1 DEF Effect
    <3>3. f \in Entry /\ f.code = e.code /\ f.text = e.text /\ f.weight = o.arg
      BY <1>0 DEF Entry
    <3> HIDE DEF f
    <3>4. One(Effect(R, o, i), o, o.arg)
      BY <3>1, <3>2, <3>3 DEF One, SameKey
    <3> QED
      BY <3>4, <1>0 DEF Few
  <2> QED
    BY <1>0, <2>1, <2>2, <2>3, <2>4 DEF Few, Kinds
<1> QED
  BY <1>1, <1>2 DEF Few

(* So do all operations of a key.                                          *)
LEMMA AppliedKeepsFew ==
  ASSUME ops \in Ops, NEW l, NEW R \in SUBSET Entry, Few(R, l),
         NEW S \in SUBSET (1..Len(ops)), \A i \in S : SameKey(ops[i], l)
  PROVE  ApplyOps(R, S) \in SUBSET Entry /\ Few(ApplyOps(R, S), l)
<1> DEFINE A == Applied(ops, R, S)
           T == {n \in Nat : Few(A[n], l)}
<1>0. Len(ops) \in Nat
  BY DEF Ops
<1>1. /\ A[0] = R /\ \A n \in Nat : A[n] \in SUBSET Entry
      /\ \A n \in Nat : n + 1 \in S => A[n + 1] = Effect(A[n], ops[n + 1], n + 1)
      /\ \A n \in Nat : n + 1 \notin S => A[n + 1] = A[n]
  BY AppliedIs, Zenon
<1> HIDE DEF A
<1>2. 0 \in T
  BY <1>1
<1>3. ASSUME NEW n \in Nat, n \in T PROVE n + 1 \in T
  <2>1. CASE n + 1 \in S
    <3> DEFINE o == ops[n + 1]
    <3>1. o \in OpType /\ n + 1 \in Nat \ {0} /\ SameKey(o, l)
      BY <2>1 DEF Ops
    <3>2. A[n + 1] = Effect(A[n], o, n + 1)
      BY <1>1, <2>1
    <3> HIDE DEF o
    <3>3. \A Q : Few(Q, l) <=> Few(Q, o)
      BY <3>1 DEF Few, One, SameKey
    <3>4. Few(Effect(A[n], o, n + 1), o)
      BY <1>1, <1>3, <3>1, <3>3, EffectKeepsFew
    <3> QED
      BY <3>2, <3>3, <3>4
  <2>2. CASE n + 1 \notin S
    BY <2>2, <1>1, <1>3
  <2> QED
    BY <2>1, <2>2
<1> HIDE DEF T
<1>4. \A n \in Nat : n \in T
  BY <1>2, <1>3, SetInduction
<1>5. Few(A[Len(ops)], l)
  BY <1>0, <1>4 DEF T
<1> QED
  BY <1>0, <1>1, <1>5 DEF ApplyOps, A

(* An overlay: what no operation of S is about stays, and the operations   *)
(* of a key make at most one entry of it, so it is a table again.          *)
Kept(b, S) == {e \in b : \A i \in S : ~SameKey(e, ops[i])}
Made(b, S, i) == ApplyOps({e \in b : SameKey(e, ops[i])}, {j \in S : SameKey(ops[j], ops[i])})

(* A table has at most one entry of a key.                                 *)
LEMMA PartOfKey ==
  ASSUME NEW b \in SUBSET Entry, Distinct(b), NEW l
  PROVE  {e \in b : SameKey(e, l)} \in SUBSET Entry /\ Few({e \in b : SameKey(e, l)}, l)
<1>1. CASE \E e \in b : SameKey(e, l)
  <2>1. PICK e \in b : SameKey(e, l)
    BY <1>1
  <2>2. {x \in b : SameKey(x, l)} = {e}
    BY <2>1 DEF Distinct, SameKey
  <2>3. e \in Entry /\ e.weight \in Int
    BY DEF Entry
  <2> QED
    BY <2>1, <2>2, <2>3 DEF Few, One
<1>2. CASE ~\E e \in b : SameKey(e, l)
  BY <1>2 DEF Few
<1> QED
  BY <1>1, <1>2

(* It is a table again.                                                    *)
LEMMA OverlayIs ==
  ASSUME ops \in Ops, NEW b \in SUBSET Entry, Distinct(b), NEW S \in SUBSET (1..Len(ops))
  PROVE  /\ OverlayEntries(b, S) \in SUBSET Entry /\ Distinct(OverlayEntries(b, S))
         /\ \A e : e \in OverlayEntries(b, S) <=> e \in Kept(b, S) \/ \E i \in S : e \in Made(b, S, i)
<1> DEFINE O == OverlayEntries(b, S)
<1>1. \A e : e \in O <=> e \in Kept(b, S) \/ \E i \in S : e \in Made(b, S, i)
  BY DEF OverlayEntries, Kept, Made
<1>2. \A i \in S : Made(b, S, i) \in SUBSET Entry /\ Few(Made(b, S, i), ops[i])
  <2> TAKE i \in S
  <2> DEFINE R == {e \in b : SameKey(e, ops[i])}
             Si == {j \in S : SameKey(ops[j], ops[i])}
  <2>1. R \in SUBSET Entry /\ Few(R, ops[i])
    BY PartOfKey
  <2>2. Si \in SUBSET (1..Len(ops)) /\ \A j \in Si : SameKey(ops[j], ops[i])
    OBVIOUS
  <2> HIDE DEF R, Si
  <2>3. ApplyOps(R, Si) \in SUBSET Entry /\ Few(ApplyOps(R, Si), ops[i])
    BY <2>1, <2>2, AppliedKeepsFew
  <2> QED
    BY <2>3 DEF Made, R, Si
<1>3. \A i \in S : \A e \in Made(b, S, i) : SameKey(e, ops[i]) /\ Made(b, S, i) = {e}
  BY <1>2 DEF Few, One
<1>4. \A i, j \in S : SameKey(ops[i], ops[j]) => Made(b, S, i) = Made(b, S, j)
  <2> SUFFICES ASSUME NEW i \in S, NEW j \in S, SameKey(ops[i], ops[j])
               PROVE  Made(b, S, i) = Made(b, S, j)
    OBVIOUS
  <2>1. \A x : SameKey(x, ops[i]) <=> SameKey(x, ops[j])
    BY DEF SameKey
  <2>2. /\ {e \in b : SameKey(e, ops[i])} = {e \in b : SameKey(e, ops[j])}
        /\ {n \in S : SameKey(ops[n], ops[i])} = {n \in S : SameKey(ops[n], ops[j])}
    BY <2>1
  <2> QED
    BY <2>2 DEF Made
<1>k. Kept(b, S) \in SUBSET b /\ \A e \in Kept(b, S), i \in S : ~SameKey(e, ops[i])
  BY DEF Kept
<1> HIDE DEF O
<1> DEFINE M(i) == Made(b, S, i)
           K == Kept(b, S)
<1>m. /\ \A e : e \in O <=> e \in K \/ \E i \in S : e \in M(i)
      /\ \A i \in S : \A e \in M(i) : e \in Entry /\ SameKey(e, ops[i]) /\ M(i) = {e}
      /\ \A i, j \in S : SameKey(ops[i], ops[j]) => M(i) = M(j)
      /\ K \in SUBSET b /\ \A e \in K, i \in S : ~SameKey(e, ops[i])
  BY <1>1, <1>2, <1>3, <1>4, <1>k
<1> HIDE DEF M, K
<1>5. O \in SUBSET Entry /\ \A e \in O : Keyed(e)
  BY <1>m, EntryIsKeyed
<1>6. \A x, y \in O : SameKey(x, y) => x = y
  <2> SUFFICES ASSUME NEW x \in O, NEW y \in O, SameKey(x, y) PROVE x = y
    OBVIOUS
  <2>1. CASE x \in K /\ y \in K
    BY <2>1, <1>m DEF Distinct
  <2>2. CASE \E i \in S : x \in M(i)
    <3>1. PICK i \in S : x \in M(i)
      BY <2>2
    <3>2. SameKey(y, ops[i])
      BY <3>1, <1>m DEF SameKey
    <3>3. PICK j \in S : y \in M(j)
      BY <3>2, <1>m
    <3>4. M(i) = M(j)
      BY <3>1, <3>2, <3>3, <1>m DEF SameKey
    <3> QED
      BY <3>1, <3>3, <3>4, <1>m
  <2>3. CASE \E i \in S : y \in M(i)
    <3>1. PICK i \in S : y \in M(i)
      BY <2>3
    <3>2. SameKey(x, ops[i])
      BY <3>1, <1>m DEF SameKey
    <3>3. PICK j \in S : x \in M(j)
      BY <3>2, <1>m
    <3>4. M(i) = M(j)
      BY <3>1, <3>2, <3>3, <1>m DEF SameKey
    <3> QED
      BY <3>1, <3>3, <3>4, <1>m
  <2> QED
    BY <2>1, <2>2, <2>3, <1>m
<1>7. IsFiniteSet(O)
  <2> DEFINE P == O \ K
             f == [x \in P |-> CHOOSE i \in S : x \in M(i)]
  <2>1. \A x \in P : f[x] \in S /\ x \in M(f[x])
    BY <1>m
  <2>2. f \in [P -> S]
    BY <2>1
  <2> HIDE DEF f
  <2>3. \A x, y \in P : f[x] = f[y] => x = y
    <3>1. \A x \in P : M(f[x]) = {x}
      BY <2>1, <1>m
    <3> QED
      BY <3>1
  <2>4. f \in Injection(P, S)
    BY <2>2, <2>3 DEF Injection, IsInjective
  <2>5. IsFiniteSet(S)
    <3>1. IsFiniteSet(1..Len(ops))
      BY FS_Interval DEF Ops
    <3> QED
      BY <3>1, FS_Subset
  <2>6. IsFiniteSet(P)
    BY <2>4, <2>5, FS_Injection
  <2>7. IsFiniteSet(K)
    BY <1>m, FS_Subset DEF Distinct
  <2> HIDE DEF P
  <2>8. IsFiniteSet(P \cup K)
    BY <2>6, <2>7, FS_Union
  <2>9. O \in SUBSET (P \cup K)
    BY DEF P
  <2> QED
    BY <2>8, <2>9, FS_Subset
<1>8. Distinct(O)
  BY <1>5, <1>6, <1>7 DEF Distinct
<1> QED
  BY <1>1, <1>5, <1>8 DEF O

(* The entries of the segment that are read, and what is not of them.      *)
Reads(base, B, n) ==
  /\ B \in SUBSET base
  /\ \A b \in base \ B : \A e \in B : e.weight >= b.weight
  /\ B # base => Cardinality(B) = n /\ n > 0

(* Snapshot::prefix reads so.                                              *)
LEMMA BestIs ==
  ASSUME seg \in SUBSET Entry, Distinct(seg), NEW p, NEW n \in Nat
  PROVE  Reads({e \in seg : IsPrefix(p, e.code)}, ToSet(BestOfSegment(p, n)), n)
<1> DEFINE base == {e \in seg : IsPrefix(p, e.code)}
           D == Earlier(base)
           B == ToSet(BestOfSegment(p, n))
<1>1. base \in SUBSET seg
  OBVIOUS
<1>s. BestOfSegment(p, n) = First(InOrder(base, Sooner), n)
  BY DEF BestOfSegment
<1>w. \A x, y \in base : D[x] = {z \in base : Sooner(z, x)} /\ x.weight \in Int
  BY DEF Earlier, Entry
<1> HIDE DEF base
<1>2. StrictOrder(base, D) /\ InOrder(base, Sooner) = Ranked(base, D)
  BY <1>1, SoonerIs
<1>b. B = ToSet(First(Ranked(base, D), n))
  BY <1>s, <1>2
<1> HIDE DEF D, B
<1>3. /\ Len(First(Ranked(base, D), n)) = FirstLen(Cardinality(base), n)
      /\ B = {x \in base : n = 0 \/ Cardinality(D[x]) < n}
  BY <1>2, <1>b, FirstOfSorted
<1>4. /\ \A i \in 1..Cardinality(base) : \E x \in base : Cardinality(D[x]) = i - 1
      /\ \A x, y \in base : Cardinality(D[x]) < Cardinality(D[y]) <=> x \in D[y]
      /\ \A x, y \in base : Cardinality(D[x]) = Cardinality(D[y]) => x = y
  BY <1>2, RanksAre DEF StrictOrder
<1>5. IsFiniteSet(base) /\ Cardinality(base) \in Nat
  BY <1>2, FS_CardinalityType DEF StrictOrder
<1>6. \A x \in base : Cardinality(D[x]) \in Nat
  BY <1>2, FS_Subset, FS_CardinalityType DEF StrictOrder
<1>7. ASSUME NEW b \in base \ B, NEW e \in B PROVE e.weight >= b.weight
  <2>1. Cardinality(D[e]) < Cardinality(D[b])
    BY <1>3, <1>6
  <2>2. Sooner(e, b)
    BY <2>1, <1>3, <1>4, <1>w
  <2> QED
    BY <2>2, <1>3, <1>w DEF Sooner
<1>8. ASSUME B # base PROVE Cardinality(B) = n /\ n > 0
  <2>1. PICK b \in base : b \notin B
    BY <1>3, <1>8
  <2>2. n > 0 /\ Cardinality(D[b]) >= n
    BY <1>3, <1>6, <2>1
  <2>3. D[b] \in SUBSET base /\ b \notin D[b]
    BY <1>2 DEF StrictOrder
  <2>4. Cardinality(D[b]) < Cardinality(base)
    <3>1. D[b] # base /\ Cardinality(D[b]) <= Cardinality(base)
      BY <2>3, <1>5, FS_Subset
    <3>2. Cardinality(base) = Cardinality(D[b]) => base = D[b]
      BY <2>3, <1>5, FS_Subset
    <3> QED
      BY <3>1, <3>2, <1>5, <1>6
  <2>5. n < Cardinality(base)
    BY <2>2, <2>4, <1>5, <1>6
  <2> DEFINE f == [x \in B |-> Cardinality(D[x]) + 1]
  <2>6. f \in [B -> 1..n]
    BY <1>3, <1>6, <2>2
  <2>7. \A x, y \in B : f[x] = f[y] => x = y
    BY <1>3, <1>4, <1>6
  <2>8. \A i \in 1..n : \E x \in B : f[x] = i
    <3> TAKE i \in 1..n
    <3>0. i \in 1..Cardinality(base)
      BY <1>5, <2>5
    <3>1. PICK x \in base : Cardinality(D[x]) = i - 1
      BY <1>4, <3>0, Zenon
    <3>2. x \in B
      BY <3>1, <1>3
    <3> QED
      BY <3>1, <3>2
  <2> HIDE DEF f
  <2>9. f \in Bijection(B, 1..n)
    BY <2>6, <2>7, <2>8 DEF Bijection, Injection, Surjection, IsInjective
  <2>10. IsFiniteSet(B)
    BY <1>3, <1>5, FS_Subset
  <2>11. IsFiniteSet(1..n) /\ Cardinality(1..n) = n
    BY FS_Interval
  <2>12. Cardinality(1..n) = Cardinality(B)
    BY <2>9, <2>10, FS_Bijection DEF ExistsBijection
  <2> QED
    BY <2>2, <2>11, <2>12
<1>9. B \in SUBSET base
  BY <1>3
<1> QED
  BY <1>7, <1>8, <1>9 DEF Reads, base, B

(* As many are left untouched as are asked for.                            *)
LEMMA EnoughKept ==
  ASSUME ops \in Ops, NEW b \in SUBSET Entry, Distinct(b), NEW S \in SUBSET (1..Len(ops)),
         NEW limit \in Nat, Cardinality(b) = limit + Cardinality(S)
  PROVE  IsFiniteSet(Kept(b, S)) /\ Cardinality(Kept(b, S)) >= limit
<1> DEFINE K == Kept(b, S)
           P == b \ K
           f == [e \in P |-> CHOOSE i \in S : SameKey(e, ops[i])]
<1>1. IsFiniteSet(b) /\ IsFiniteSet(S)
  <2>1. IsFiniteSet(1..Len(ops))
    BY FS_Interval DEF Ops
  <2> QED
    BY <2>1, FS_Subset DEF Distinct
<1>2. \A e \in P : f[e] \in S /\ SameKey(e, ops[f[e]])
  BY DEF Kept
<1>3. f \in [P -> S]
  BY <1>2
<1>4. K \in SUBSET b
  BY DEF Kept
<1> HIDE DEF f, K
<1>5. \A x, y \in P : f[x] = f[y] => x = y
  BY <1>2 DEF Distinct, SameKey
<1>6. f \in Injection(P, S)
  BY <1>3, <1>5 DEF Injection, IsInjective
<1>7. IsFiniteSet(P) /\ Cardinality(P) <= Cardinality(S)
  BY <1>1, <1>6, FS_Injection
<1>8. IsFiniteSet(K) /\ Cardinality(K) \in Nat
  BY <1>1, <1>4, FS_Subset, FS_CardinalityType
<1>9. Cardinality(P) = Cardinality(b) - Cardinality(b \cap K)
  BY <1>1, FS_Difference
<1>10. b \cap K = K
  BY <1>4
<1>11. Cardinality(S) \in Nat /\ Cardinality(P) \in Nat
  BY <1>1, <1>7, FS_CardinalityType
<1> QED
  <2> HIDE DEF P
  <2> DEFINE p == Cardinality(P)
             k == Cardinality(K)
             s == Cardinality(S)
  <2>0. p = Cardinality(b) - k
    BY <1>9, <1>10
  <2>a. p <= s /\ p \in Nat /\ k \in Nat /\ s \in Nat
    BY <1>7, <1>8, <1>11
  <2>b. p = limit + s - k
    BY <2>0, <2>a
  <2> HIDE DEF p, k, s
  <2>c. k >= limit
    BY <2>a, <2>b
  <2>1. Cardinality(K) >= limit
    BY <2>c DEF k
  <2> QED
    BY <1>8, <2>1 DEF K

(* A table O that stands in for A when it is asked for its best entries: U *)
(* is in both, and is before whatever differs.                             *)
SameWord(x, y) == SameKey(x, y) /\ x.weight = y.weight

StandsIn(O, A, U) ==
  /\ U \subseteq O /\ U \subseteq A
  /\ \A x \in O : (\E y \in A : SameWord(x, y)) \/ (\A u \in U : u.weight > x.weight)
  /\ \A y \in A : (\E z \in O : SameWord(z, y)) \/ (\A u \in U : u.weight >= y.weight)

Shown(O, limit) == First(InOrder(O, Better), limit)

(* What FindsBest asks of the words shown.                                 *)
ShowsBest(shown, A, limit) ==
  /\ Len(shown) = FirstLen(Cardinality(A), limit)
  /\ \A x \in ToSet(shown) : \E y \in A : SameWord(x, y)
  /\ \A y \in A, x \in ToSet(shown) :
       y.weight > x.weight => \E z \in ToSet(shown) : SameWord(z, y)

(* Whatever is shown of O is right of A: a word that differs has the whole *)
(* of U before it, and U fills the limit.                                  *)
LEMMA StandInShows ==
  ASSUME NEW O \in SUBSET Entry, Distinct(O), NEW A \in SUBSET Entry, Distinct(A),
         NEW limit \in Nat, NEW U, StandsIn(O, A, U),
         O = A \/ (limit > 0 /\ Cardinality(U) >= limit)
  PROVE  ShowsBest(Shown(O, limit), A, limit)
<1> DEFINE D == Ahead(O)
           shown == Shown(O, limit)
           T == ToSet(shown)
<1>1. StrictOrder(O, D) /\ InOrder(O, Better) = Ranked(O, D)
  BY BetterIs
<1>d. \A x, y \in O : y \in D[x] <=> Better(y, x)
  BY DEF Ahead
<1>w. \A x \in Entry : x.weight \in Int
  BY DEF Entry
<1> HIDE DEF D
<1>2. /\ Len(shown) = FirstLen(Cardinality(O), limit)
      /\ T = {x \in O : limit = 0 \/ Cardinality(D[x]) < limit}
  BY <1>1, FirstOfSorted DEF Shown
<1>3. IsFiniteSet(O) /\ IsFiniteSet(A) /\ Cardinality(O) \in Nat /\ Cardinality(A) \in Nat
  BY FS_CardinalityType DEF Distinct
<1>4. \A x \in O : D[x] \in SUBSET O /\ IsFiniteSet(D[x]) /\ Cardinality(D[x]) \in Nat
  BY <1>1, <1>3, FS_Subset, FS_CardinalityType DEF StrictOrder
<1>5. \A x \in O : (\A u \in U : u.weight > x.weight) => x \notin T \/ \E y \in A : SameWord(x, y)
  <2> SUFFICES ASSUME NEW x \in O, \A u \in U : u.weight > x.weight,
                      ~\E y \in A : SameWord(x, y)
               PROVE  x \notin T
    OBVIOUS
  <2>1. limit > 0 /\ Cardinality(U) >= limit
    BY DEF SameWord, SameKey
  <2>2. U \in SUBSET D[x]
    BY <1>d DEF StandsIn, Better
  <2>3. IsFiniteSet(U) /\ Cardinality(U) <= Cardinality(D[x])
    BY <1>4, <2>2, FS_Subset
  <2>4. Cardinality(U) \in Nat
    BY <2>3, FS_CardinalityType
  <2> QED
    BY <1>2, <1>4, <2>1, <2>3, <2>4
<1>6. \A x \in T : \E y \in A : SameWord(x, y)
  BY <1>2, <1>5 DEF StandsIn
<1>7. ASSUME NEW y \in A, NEW x \in T, y.weight > x.weight
      PROVE  \E z \in T : SameWord(z, y)
  <2>1. x \in O /\ (limit = 0 \/ Cardinality(D[x]) < limit)
    BY <1>2
  <2>2. CASE \E z \in O : SameWord(z, y)
    <3>1. PICK z \in O : SameWord(z, y)
      BY <2>2
    <3>2. z \in D[x]
      BY <1>7, <3>1, <2>1, <1>d DEF SameWord, Better
    <3>3. D[z] \in SUBSET D[x]
      BY <3>1, <3>2, <2>1, <1>1 DEF StrictOrder
    <3>4. Cardinality(D[z]) <= Cardinality(D[x])
      BY <3>3, <2>1, <1>4, FS_Subset
    <3>5. z \in T
      BY <1>2, <1>4, <2>1, <3>1, <3>4
    <3> QED
      BY <3>1, <3>5
  <2>3. CASE ~\E z \in O : SameWord(z, y)
    <3>1. \A u \in U : u.weight >= y.weight
      BY <2>3 DEF StandsIn
    <3>2. \A u \in U : u \in O /\ u.weight \in Int
      BY <1>w DEF StandsIn
    <3>3. y.weight \in Int /\ x.weight \in Int
      BY <1>w, <2>1
    <3>4. \A u \in U : Better(u, x)
      BY <3>1, <3>2, <3>3, <1>7 DEF Better
    <3>5. U \in SUBSET D[x]
      BY <3>2, <3>4, <2>1, <1>d
    <3>6. IsFiniteSet(U) /\ Cardinality(U) <= Cardinality(D[x])
      BY <1>4, <2>1, <3>5, FS_Subset
    <3>7. limit > 0 /\ Cardinality(U) >= limit
      BY <2>3 DEF SameWord, SameKey
    <3>8. Cardinality(U) \in Nat
      BY <3>6, FS_CardinalityType
    <3> QED
      BY <1>4, <2>1, <3>6, <3>7, <3>8
  <2> QED
    BY <2>2, <2>3
<1>8. Len(shown) = FirstLen(Cardinality(A), limit)
  <2>1. CASE O = A
    BY <2>1, <1>2
  <2>2. CASE limit > 0 /\ Cardinality(U) >= limit
    <3>1. U \in SUBSET O /\ U \in SUBSET A
      BY DEF StandsIn
    <3>2. IsFiniteSet(U) /\ Cardinality(U) <= Cardinality(O) /\ Cardinality(U) <= Cardinality(A)
      BY <1>3, <3>1, FS_Subset
    <3>3. Cardinality(U) \in Nat
      BY <3>2, FS_CardinalityType
    <3> QED
      BY <1>2, <1>3, <2>2, <3>2, <3>3 DEF FirstLen
  <2> QED
    BY <2>1, <2>2
<1> QED
  BY <1>6, <1>7, <1>8 DEF ShowsBest

(* Without a SetWeight among the operations, and without an Incr of a word *)
(* that weighs less than nothing, reading the best of the segment is enough*)
LEMMA PartStandsIn ==
  ASSUME ops \in Ops, NEW base \in SUBSET Entry, Distinct(base), NEW n \in Nat,
         NEW B, Reads(base, B, n), NEW S \in SUBSET (1..Len(ops)),
         \A i \in S : ops[i].op # "setweight",
         \A i \in S : ops[i].op = "incr" => \A e \in base : SameKey(e, ops[i]) => e.weight >= 0
  PROVE  StandsIn(OverlayEntries(B, S), OverlayEntries(base, S), Kept(B, S))
<1> DEFINE O == OverlayEntries(B, S)
           A == OverlayEntries(base, S)
           U == Kept(B, S)
<1>0. /\ B \in SUBSET base /\ B \in SUBSET Entry /\ Distinct(B)
      /\ \A b \in base \ B : \A u \in U : u.weight >= b.weight
  BY DistinctPart DEF Reads, Kept
<1>1. \A e : e \in O <=> e \in U \/ \E i \in S : e \in Made(B, S, i)
  BY <1>0, OverlayIs
<1>2. \A e : e \in A <=> e \in Kept(base, S) \/ \E i \in S : e \in Made(base, S, i)
  BY OverlayIs
<1>3. /\ U \subseteq Kept(base, S)
      /\ \A y \in Kept(base, S) : y \in U \/ y \in base \ B
  BY <1>0 DEF Kept
<1>w. \A x \in Entry : x.weight \in Int
  BY DEF Entry
<1>4. ASSUME NEW i \in S
      PROVE  \/ Made(B, S, i) = Made(base, S, i)
             \/ \E b \in base \ B : Alike(Made(B, S, i), Made(base, S, i), ops[i], b.weight)
  <2> DEFINE Si == {j \in S : SameKey(ops[j], ops[i])}
  <2>1. CASE \E b \in base \ B : SameKey(b, ops[i])
    <3>1. PICK b \in base \ B : SameKey(b, ops[i])
      BY <2>1
    <3>2. \A e \in base : SameKey(e, ops[i]) <=> e = b
      BY <3>1 DEF Distinct, SameKey
    <3>3. /\ {e \in base : SameKey(e, ops[i])} = {b}
          /\ {e \in B : SameKey(e, ops[i])} = {}
      BY <1>0, <3>1, <3>2
    <3>4. Made(B, S, i) = ApplyOps({}, Si) /\ Made(base, S, i) = ApplyOps({b}, Si)
      BY <3>3 DEF Made
    <3>5. Si \in SUBSET (1..Len(ops)) /\ \A j \in Si : SameKey(ops[j], ops[i])
      OBVIOUS
    <3>6. \A j \in Si : ops[j].op # "setweight" /\ (ops[j].op = "incr" => b.weight >= 0)
      BY <3>1 DEF SameKey
    <3>7. b \in Entry
      BY <3>1
    <3> HIDE DEF Si
    <3>8. Alike(ApplyOps({}, Si), ApplyOps({b}, Si), ops[i], b.weight)
      BY <3>1, <3>5, <3>6, <3>7, AppliedAlike
    <3> QED
      BY <3>1, <3>4, <3>8
  <2>2. CASE ~\E b \in base \ B : SameKey(b, ops[i])
    <3>1. {e \in B : SameKey(e, ops[i])} = {e \in base : SameKey(e, ops[i])}
      BY <1>0, <2>2
    <3> QED
      BY <3>1 DEF Made
  <2> QED
    BY <2>1, <2>2
<1> HIDE DEF O, A, U
<1>5. U \subseteq O /\ U \subseteq A
  BY <1>1, <1>2, <1>3
<1>6. ASSUME NEW x \in O
      PROVE  (\E y \in A : SameWord(x, y)) \/ (\A u \in U : u.weight > x.weight)
  <2>1. CASE x \in U
    BY <2>1, <1>5 DEF SameWord, SameKey
  <2>2. CASE \E i \in S : x \in Made(B, S, i)
    <3>1. PICK i \in S : x \in Made(B, S, i)
      BY <2>2
    <3>2. CASE Made(B, S, i) = Made(base, S, i)
      BY <3>1, <3>2, <1>2 DEF SameWord, SameKey
    <3>3. CASE \E b \in base \ B : Alike(Made(B, S, i), Made(base, S, i), ops[i], b.weight)
      <4>1. PICK b \in base \ B : Alike(Made(B, S, i), Made(base, S, i), ops[i], b.weight)
        BY <3>3
      <4> DEFINE R == Made(B, S, i)
                 Q == Made(base, S, i)
                 k == ops[i]
                 w == b.weight
      <4>2. Q \subseteq A /\ x \in R /\ w \in Int
        BY <3>1, <1>2, <1>w
      <4>3. /\ Alike(R, Q, k, w)
            /\ \A u \in U : u.weight >= w /\ u.weight \in Int
        BY <4>1, <1>0, <1>w DEF Kept, U
      <4> HIDE DEF R, Q, k, w
      <4>4. CASE \E v \in Int : One(R, k, v) /\ One(Q, k, v)
        BY <4>2, <4>4 DEF One, SameWord, SameKey
      <4>5. CASE One(R, k, 0) /\ One(Q, k, w) /\ w >= 0
        <5>1. x.weight = 0 /\ SameKey(x, k)
          BY <4>2, <4>5 DEF One
        <5>2. PICK y \in A : SameKey(y, k) /\ y.weight = w
          BY <4>2, <4>5 DEF One
        <5>3. CASE w = 0
          BY <5>1, <5>2, <5>3 DEF SameWord, SameKey
        <5>4. CASE w > 0
          BY <5>1, <5>4, <4>2, <4>3
        <5> QED
          BY <4>2, <4>5, <5>3, <5>4
      <4> QED
        BY <4>2, <4>3, <4>4, <4>5 DEF Alike
    <3> QED
      BY <1>4, <3>2, <3>3
  <2> QED
    BY <1>1, <2>1, <2>2
<1>7. ASSUME NEW y \in A
      PROVE  (\E z \in O : SameWord(z, y)) \/ (\A u \in U : u.weight >= y.weight)
  <2>1. CASE y \in Kept(base, S)
    BY <2>1, <1>0, <1>3, <1>5 DEF SameWord, SameKey
  <2>2. CASE \E i \in S : y \in Made(base, S, i)
    <3>1. PICK i \in S : y \in Made(base, S, i)
      BY <2>2
    <3>2. CASE Made(B, S, i) = Made(base, S, i)
      BY <3>1, <3>2, <1>1 DEF SameWord, SameKey
    <3>3. CASE \E b \in base \ B : Alike(Made(B, S, i), Made(base, S, i), ops[i], b.weight)
      <4>1. PICK b \in base \ B : Alike(Made(B, S, i), Made(base, S, i), ops[i], b.weight)
        BY <3>3
      <4> DEFINE R == Made(B, S, i)
                 Q == Made(base, S, i)
                 k == ops[i]
                 w == b.weight
      <4>2. R \subseteq O /\ y \in Q
        BY <3>1, <1>1
      <4>3. Alike(R, Q, k, w) /\ \A u \in U : u.weight >= w
        BY <4>1, <1>0
      <4> HIDE DEF R, Q, k, w
      <4>4. CASE One(Q, k, w)
        <5>1. y.weight = w
          BY <4>2, <4>4 DEF One
        <5> QED
          BY <4>3, <5>1
      <4>5. CASE \E v \in Int : One(R, k, v) /\ One(Q, k, v)
        BY <4>2, <4>5 DEF One, SameWord, SameKey
      <4> QED
        BY <4>2, <4>3, <4>4, <4>5 DEF Alike
    <3> QED
      BY <1>4, <3>2, <3>3
  <2> QED
    BY <1>2, <2>1, <2>2
<1> QED
  BY <1>5, <1>6, <1>7 DEF StandsIn, O, A, U

(* The hypothesis of PrefixFindsBest.                                      *)
NothingRaised ==
  \A i \in Pending :
    /\ ops[i].op # "setweight"
    /\ ops[i].op = "incr" => \A e \in seg : SameKey(e, ops[i]) => e.weight >= 0

(* What a prefix query shows, in a state of the invariant.                 *)
LEMMA PrefixShowsBest ==
  ASSUME IInv, NothingRaised, NEW p \in Seq(Nat), NEW limit \in Nat
  PROVE  FindsBest(p, limit)
<1> DEFINE A == Meant(CodesUnder(p), Len(ops))
           base == {e \in seg : IsPrefix(p, e.code)}
           S == PrefixOps(p)
           n == Take(limit, S)
           B == ToSet(BestOfSegment(p, n))
           O == OverlayEntries(B, S)
           shown == PrefixQuery(p, limit)
<1>0. /\ ops \in Ops /\ Len(ops) \in Nat /\ max \in 0..Len(ops) /\ Len(ops) \in 0..Len(ops)
      /\ Pending = (max + 1)..Len(ops) /\ Code \in SUBSET Code
      /\ CodesUnder(p) \in SUBSET Code
  BY ReadsWell DEF DeltaReads, CodesUnder
<1>1. seg \in SUBSET Entry /\ Distinct(seg)
  <2>1. Distinct(Meant(Code, max))
    BY <1>0, MeantOnce
  <2> QED
    BY <2>1 DEF IInv, SegmentHoldsFolded, TypeOK
<1>2. A \in SUBSET Entry /\ Distinct(A)
  BY <1>0, MeantOnce, MeantHas
<1>3. /\ base = Meant(CodesUnder(p), max)
      /\ S = {i \in (max + 1)..Len(ops) : ops[i].code \in CodesUnder(p)}
      /\ OverlayEntries(Meant(CodesUnder(p), max), S) = A
  BY UnderPrefix
<1>4. OverlayEntries(base, S) = A
  BY <1>3
<1>5. S \in SUBSET (1..Len(ops)) /\ S \subseteq Pending
  BY <1>0, <1>3
<1>6. base \in SUBSET Entry /\ Distinct(base) /\ base \in SUBSET seg
  BY <1>1, DistinctPart
<1>7. IsFiniteSet(S) /\ Cardinality(S) \in Nat
  <2>1. IsFiniteSet(1..Len(ops))
    BY <1>0, FS_Interval
  <2> QED
    BY <2>1, <1>5, FS_Subset, FS_CardinalityType
<1>8. \A i \in S : /\ ops[i].op # "setweight"
                   /\ ops[i].op = "incr" => \A e \in base : SameKey(e, ops[i]) => e.weight >= 0
  BY <1>5, <1>6 DEF NothingRaised
<1>9. shown = Shown(O, limit)
  BY DEF PrefixQuery, Shown
<1>n. n = (IF limit = 0 THEN 0 ELSE limit + Cardinality(S))
  BY DEF Take
<1>t. n \in Nat
  BY <1>n, <1>7
<1> HIDE DEF S, n
<1>10. Reads(base, B, n)
  BY <1>1, <1>t, BestIs
<1> HIDE DEF base, A, shown, B
<1>11. StandsIn(O, A, Kept(B, S))
  <2>1. StandsIn(OverlayEntries(B, S), OverlayEntries(base, S), Kept(B, S))
    BY <1>0, <1>5, <1>6, <1>8, <1>10, <1>t, PartStandsIn
  <2> QED
    BY <2>1, <1>4
<1>12. B \in SUBSET Entry /\ Distinct(B)
  BY <1>6, <1>10, DistinctPart DEF Reads
<1>13. O \in SUBSET Entry /\ Distinct(O)
  BY <1>0, <1>5, <1>12, OverlayIs
<1>14. O = A \/ (limit > 0 /\ Cardinality(Kept(B, S)) >= limit)
  <2>1. CASE B = base
    BY <2>1, <1>4
  <2>2. CASE B # base
    <3>1. Cardinality(B) = n /\ n > 0
      BY <2>2, <1>10 DEF Reads
    <3>2. limit > 0 /\ Cardinality(B) = limit + Cardinality(S)
      BY <3>1, <1>n
    <3> QED
      BY <3>2, <1>0, <1>5, <1>12, EnoughKept
  <2> QED
    BY <2>1, <2>2
<1> HIDE DEF O
<1> DEFINE U == Kept(B, S)
<1> HIDE DEF U
<1>15. ShowsBest(shown, A, limit)
  <2>1. StandsIn(O, A, U) /\ (O = A \/ (limit > 0 /\ Cardinality(U) >= limit))
    BY <1>11, <1>14 DEF U
  <2>2. ShowsBest(Shown(O, limit), A, limit)
    BY <1>2, <1>13, <2>1, StandInShows
  <2> QED
    BY <2>2, <1>9
<1>16. Len(First(InKeyOrder(A), limit)) = FirstLen(Cardinality(A), limit)
  <2>1. InKeyOrder(A) \in Seq(A) /\ Len(InKeyOrder(A)) = Cardinality(A)
    BY <1>2, InKeyOrderIs
  <2> QED
    BY <2>1, FirstLenIs
<1>17. FindsBest(p, limit)
  BY <1>15, <1>16 DEF FindsBest, ShowsBest, SameWord, A, shown
<1> QED
  BY <1>17

(* However many words the segment has and whatever the limit, the part of  *)
(* it that prefix_query reads is enough for what it shows, while nothing   *)
(* pending may raise a word outside that part.                             *)
THEOREM PrefixesAreRight == Spec => []PrefixFindsBest
<1>1. ASSUME IInv, NothingRaised, NEW p \in CodePrefixes, NEW limit \in Limit
      PROVE  FindsBest(p, limit)
  <2>1. p \in Seq(Nat) /\ limit \in Nat
    BY PrefixesAreCodes, NumbersAssumption
  <2> QED
    BY <1>1, <2>1, PrefixShowsBest
<1>2. IInv => PrefixFindsBest
  BY <1>1 DEF PrefixFindsBest, NothingRaised
<1> QED
  BY <1>2, Invariant, PTL

-----------------------------------------------------------------------------
(* ReaderPool.                                                             *)

(* Whoever compares with the stamp (g, l) meets no entry older than v: not *)
(* the one in the pool, nor one that is about to be entered.               *)
Behind(v, g, l) ==
  /\ pool.ver < v => pool.gen < g \/ pool.look < l
  /\ \A u \in Threads :
       get[u].pc = "mapped" /\ get[u].ver < v => get[u].gen < g \/ get[u].look < l

Asking(t) == get[t].pc \in {"counted", "stamped", "mapped"}

Bounds ==
  /\ pool.gen <= gen /\ pool.look <= disk.look /\ done <= disk.ver
  /\ \A w \in Writers : write[w].ver <= disk.ver
  /\ \A t \in Threads :
       /\ get[t].gen <= gen /\ get[t].look <= disk.look
       /\ get[t].since <= done /\ get[t].seen <= disk.ver /\ get[t].since <= get[t].seen
       /\ get[t].pc = "mapped" => get[t].seen <= get[t].ver

(* For what was replaced for good before somebody asked.                   *)
DoneInv ==
  /\ Behind(done, gen, disk.look)
  /\ \A t \in Threads :
       /\ get[t].pc = "counted" => Behind(get[t].since, get[t].gen, disk.look)
       /\ get[t].pc = "stamped" => Behind(get[t].since, get[t].gen, get[t].look)

(* For what was renamed before somebody asked.                             *)
CalmInv ==
  /\ Behind(disk.ver, gen, disk.look)
  /\ \A t \in Threads :
       /\ get[t].pc = "counted" => Behind(get[t].seen, get[t].gen, disk.look)
       /\ get[t].pc = "stamped" => Behind(get[t].seen, get[t].gen, get[t].look)
  /\ \A w \in Writers : write[w].pc = "announced" =>
       /\ pool.gen < gen
       /\ \A t \in Threads : Asking(t) => get[t].gen < gen

PoolInv == PoolTypeOK /\ Bounds /\ DoneInv /\ (calm => CalmInv) /\ NoStaleReader /\ NewestAfterRename

USE PoolAssumption

LEMMA PoolInitially == PoolInit => PoolInv
BY DEF PoolInit, PoolInv, PoolTypeOK, Gets, Bounds, DoneInv, CalmInv, Behind, Asking, NoStaleReader, NewestAfterRename, Idle

LEMMA PoolCountStep == ASSUME PoolInv, NEW t \in Threads, Count(t) PROVE PoolInv'
<1>0. /\ get \in [Threads -> Gets] /\ get' \in [Threads -> Gets]
      /\ \A u \in Threads \ {t} : get'[u] = get[u]
      /\ get'[t] = [pc |-> "counted", gen |-> gen, look |-> 0, ver |-> 0, since |-> done, seen |-> disk.ver]
      /\ get[t].pc = "idle"
  <2>1. [pc |-> "counted", gen |-> gen, look |-> 0, ver |-> 0, since |-> done, seen |-> disk.ver] \in Gets BY DEF PoolInv, PoolTypeOK, Gets, Bounds, Count
  <2> QED BY <2>1 DEF PoolInv, PoolTypeOK, Gets, Count
<1>f. UNCHANGED <<disk, gen, pool, held, write, done>> /\ calm' = (calm /\ \A w \in Writers : write[w].pc # "announced") BY DEF Count
<1>1. PoolTypeOK' BY <1>0, <1>f DEF PoolInv, PoolTypeOK
<1>2. Bounds' BY <1>0, <1>f DEF PoolInv, PoolTypeOK, Gets, Bounds
<1>3. DoneInv'
  <2>c. DoneInv BY DEF PoolInv
  <2>1. Behind(done, gen, disk.look)' BY <1>0, <1>f DEF PoolInv, PoolTypeOK, Gets, Bounds, DoneInv, Behind
  <2>2. ASSUME NEW u \in Threads \ {t}
        PROVE /\ (get[u].pc = "counted" => Behind(get[u].since, get[u].gen, disk.look))'
              /\ (get[u].pc = "stamped" => Behind(get[u].since, get[u].gen, get[u].look))'
    BY <2>c, <1>0, <1>f DEF DoneInv, Behind
  <2>3. get'[t].pc = "counted" /\ get'[t].since = done /\ get'[t].gen = gen BY <1>0
  <2> QED BY <2>1, <2>2, <2>3, <1>f DEF DoneInv, Behind
<1>4. (calm => CalmInv)'
  <2> SUFFICES ASSUME calm' PROVE CalmInv' OBVIOUS
  <2>c. CalmInv /\ \A w \in Writers : write[w].pc # "announced" BY <1>f DEF PoolInv
  <2>1. Behind(disk.ver, gen, disk.look)' BY <2>c, <1>0, <1>f DEF CalmInv, Behind
  <2>2. ASSUME NEW u \in Threads \ {t}
        PROVE /\ (get[u].pc = "counted" => Behind(get[u].seen, get[u].gen, disk.look))'
              /\ (get[u].pc = "stamped" => Behind(get[u].seen, get[u].gen, get[u].look))'
    BY <2>c, <1>0, <1>f DEF CalmInv, Behind
  <2>3. get'[t].pc = "counted" /\ get'[t].seen = disk.ver /\ get'[t].gen = gen BY <1>0
  <2> QED BY <2>c, <2>1, <2>2, <2>3, <1>f DEF CalmInv, Behind
<1>5. NoStaleReader' /\ NewestAfterRename' BY <1>0, <1>f DEF PoolInv, PoolTypeOK, Gets, NoStaleReader, NewestAfterRename
<1> QED BY <1>1, <1>2, <1>3, <1>4, <1>5 DEF PoolInv

LEMMA StatStep == ASSUME PoolInv, NEW t \in Threads, Stat(t) PROVE PoolInv'
<1>0. /\ get \in [Threads -> Gets] /\ get' \in [Threads -> Gets]
      /\ \A u \in Threads \ {t} : get'[u] = get[u]
      /\ get'[t] = [pc |-> "stamped", gen |-> get[t].gen, look |-> disk.look, ver |-> get[t].ver, since |-> get[t].since, seen |-> get[t].seen]
      /\ get[t].pc = "counted"
  <2>1. [pc |-> "stamped", gen |-> get[t].gen, look |-> disk.look, ver |-> get[t].ver, since |-> get[t].since, seen |-> get[t].seen] \in Gets BY DEF PoolInv, PoolTypeOK, Gets, Bounds, Stat
  <2> QED BY <2>1 DEF PoolInv, PoolTypeOK, Gets, Stat
<1>f. UNCHANGED <<disk, gen, pool, held, write, done, calm>> BY DEF Stat
<1>1. PoolTypeOK' BY <1>0, <1>f DEF PoolInv, PoolTypeOK
<1>2. Bounds' BY <1>0, <1>f DEF PoolInv, PoolTypeOK, Gets, Bounds
<1>3. DoneInv' BY <1>0, <1>f DEF PoolInv, PoolTypeOK, Gets, Bounds, DoneInv, Behind
<1>4. (calm => CalmInv)'
  <2> SUFFICES ASSUME calm' PROVE CalmInv' OBVIOUS
  <2>c. CalmInv BY <1>f DEF PoolInv
  <2>1. Behind(disk.ver, gen, disk.look)' BY <2>c, <1>0, <1>f DEF CalmInv, Behind
  <2>2. ASSUME NEW u \in Threads \ {t}
        PROVE /\ (get[u].pc = "counted" => Behind(get[u].seen, get[u].gen, disk.look))'
              /\ (get[u].pc = "stamped" => Behind(get[u].seen, get[u].gen, get[u].look))'
    BY <2>c, <1>0, <1>f DEF CalmInv, Behind
  <2>3. get'[t].pc = "stamped" /\ get'[t].look = disk.look /\ get'[t].seen = get[t].seen /\ get'[t].gen = get[t].gen
    BY <1>0
  <2>4. Behind(get[t].seen, get[t].gen, disk.look) BY <2>c, <1>0 DEF CalmInv
  <2>5. Behind(get[t].seen, get[t].gen, get[t].look)' BY <2>3, <2>4, <1>0, <1>f DEF Behind
  <2>6. \A u \in Threads : Asking(u)' => Asking(u) /\ get'[u].gen = get[u].gen BY <1>0 DEF Asking
  <2>7. \A w \in Writers : write'[w].pc = "announced" =>
          /\ pool'.gen < gen'
          /\ \A u \in Threads : Asking(u)' => get'[u].gen < gen'
    BY <2>c, <2>6, <1>f DEF CalmInv
  <2> QED BY <2>1, <2>2, <2>3, <2>5, <2>7, <1>f DEF CalmInv
<1>5. NoStaleReader' /\ NewestAfterRename' BY <1>0, <1>f DEF PoolInv, PoolTypeOK, Gets, NoStaleReader, NewestAfterRename
<1> QED BY <1>1, <1>2, <1>3, <1>4, <1>5 DEF PoolInv

LEMMA ReuseStep == ASSUME PoolInv, NEW t \in Threads, Reuse(t) PROVE PoolInv'
<1>0. /\ get \in [Threads -> Gets] /\ get' \in [Threads -> Gets]
      /\ \A u \in Threads \ {t} : get'[u] = get[u]
      /\ get'[t] = [pc |-> "got", gen |-> get[t].gen, look |-> get[t].look, ver |-> pool.ver, since |-> get[t].since, seen |-> get[t].seen]
      /\ get[t].pc = "stamped"
  <2>1. [pc |-> "got", gen |-> get[t].gen, look |-> get[t].look, ver |-> pool.ver, since |-> get[t].since, seen |-> get[t].seen] \in Gets BY DEF PoolInv, PoolTypeOK, Gets, Bounds, Reuse
  <2> QED BY <2>1 DEF PoolInv, PoolTypeOK, Gets, Reuse
<1>f. UNCHANGED <<disk, gen, pool, write, done, calm>> /\ held' = held \cup {t} BY DEF Reuse
<1>1. PoolTypeOK' BY <1>0, <1>f DEF PoolInv, PoolTypeOK
<1>2. Bounds' BY <1>0, <1>f DEF PoolInv, PoolTypeOK, Gets, Bounds
<1>3. DoneInv'
  <2>1. DoneInv BY DEF PoolInv
  <2>2. Behind(done, gen, disk.look)' BY <2>1, <1>0, <1>f DEF DoneInv, Behind
  <2>3. ASSUME NEW u \in Threads
        PROVE /\ (get[u].pc = "counted" => Behind(get[u].since, get[u].gen, disk.look))'
              /\ (get[u].pc = "stamped" => Behind(get[u].since, get[u].gen, get[u].look))'
    <3>1. CASE u = t BY <3>1, <1>0
    <3>2. CASE u # t BY <3>2, <2>1, <1>0, <1>f DEF DoneInv, Behind
    <3> QED BY <3>1, <3>2
  <2> QED BY <2>2, <2>3 DEF DoneInv
<1>4. (calm => CalmInv)' BY <1>0, <1>f DEF PoolInv, PoolTypeOK, Gets, Bounds, CalmInv, Behind, Asking
<1>5. pool.ver >= get[t].since /\ (calm => pool.ver >= get[t].seen)
  BY <1>0 DEF PoolInv, PoolTypeOK, Gets, Bounds, DoneInv, CalmInv, Behind, Reuse, Matches
<1>6. NoStaleReader' /\ NewestAfterRename' BY <1>0, <1>f, <1>5 DEF PoolInv, PoolTypeOK, Gets, NoStaleReader, NewestAfterRename
<1> QED BY <1>1, <1>2, <1>3, <1>4, <1>6 DEF PoolInv

LEMMA MapStep == ASSUME PoolInv, NEW t \in Threads, Map(t) PROVE PoolInv'
<1>0. /\ get \in [Threads -> Gets] /\ get' \in [Threads -> Gets]
      /\ \A u \in Threads \ {t} : get'[u] = get[u]
      /\ get'[t] = [pc |-> "mapped", gen |-> get[t].gen, look |-> get[t].look, ver |-> disk.ver, since |-> get[t].since, seen |-> get[t].seen]
      /\ get[t].pc = "stamped"
  <2>1. [pc |-> "mapped", gen |-> get[t].gen, look |-> get[t].look, ver |-> disk.ver, since |-> get[t].since, seen |-> get[t].seen] \in Gets BY DEF PoolInv, PoolTypeOK, Gets, Bounds, Map
  <2> QED BY <2>1 DEF PoolInv, PoolTypeOK, Gets, Map
<1>f. UNCHANGED <<disk, gen, pool, held, write, done, calm>> BY DEF Map
<1>1. PoolTypeOK' BY <1>0, <1>f DEF PoolInv, PoolTypeOK
<1>2. Bounds' BY <1>0, <1>f DEF PoolInv, PoolTypeOK, Gets, Bounds
<1>3. DoneInv'
  <2>1. DoneInv /\ Bounds BY DEF PoolInv
  <2>2. done \in Nat /\ disk.ver \in Nat /\ \A u \in Threads : get[u].since \in Nat BY <1>0 DEF PoolInv, PoolTypeOK, Gets
  <2>3. ~(disk.ver < done) BY <2>1, <2>2 DEF Bounds
  <2>4. Behind(done, gen, disk.look)' BY <2>1, <2>3, <1>0, <1>f DEF DoneInv, Behind
  <2>5. ASSUME NEW u \in Threads \ {t}
        PROVE /\ (get[u].pc = "counted" => Behind(get[u].since, get[u].gen, disk.look))'
              /\ (get[u].pc = "stamped" => Behind(get[u].since, get[u].gen, get[u].look))'
    <3>1. get'[u] = get[u] /\ ~(disk.ver < get[u].since) BY <1>0, <2>1, <2>2 DEF Bounds
    <3> QED BY <3>1, <2>1, <1>0, <1>f DEF DoneInv, Behind
  <2> QED BY <2>4, <2>5, <1>0 DEF DoneInv
<1>4. (calm => CalmInv)' BY <1>0, <1>f DEF PoolInv, PoolTypeOK, Gets, Bounds, CalmInv, Behind, Asking
<1>5. NoStaleReader' /\ NewestAfterRename' BY <1>0, <1>f DEF PoolInv, PoolTypeOK, Gets, NoStaleReader, NewestAfterRename
<1> QED BY <1>1, <1>2, <1>3, <1>4, <1>5 DEF PoolInv

LEMMA EnterStep == ASSUME PoolInv, NEW t \in Threads, Enter(t) PROVE PoolInv'
<1> USE DEF Enter, NewEntry
<1>1. PoolTypeOK' BY DEF PoolInv, PoolTypeOK, Gets
<1>2. Bounds' BY DEF PoolInv, PoolTypeOK, Gets, Bounds
<1>3. DoneInv' BY DEF PoolInv, PoolTypeOK, Gets, Bounds, DoneInv, Behind
<1>4. (calm => CalmInv)' BY DEF PoolInv, PoolTypeOK, Gets, Bounds, CalmInv, Behind, Asking
<1>5. NoStaleReader' /\ NewestAfterRename' BY DEF PoolInv, PoolTypeOK, Gets, Bounds, NoStaleReader, NewestAfterRename
<1> QED BY <1>1, <1>2, <1>3, <1>4, <1>5 DEF PoolInv

LEMMA ReleaseStep == ASSUME PoolInv, NEW t \in Threads, Release(t) PROVE PoolInv'
<1> USE DEF Release, Idle
<1>1. PoolTypeOK' BY DEF PoolInv, PoolTypeOK, Gets
<1>2. Bounds' BY DEF PoolInv, PoolTypeOK, Gets, Bounds
<1>3. DoneInv' BY DEF PoolInv, PoolTypeOK, Gets, Bounds, DoneInv, Behind
<1>4. (calm => CalmInv)' BY DEF PoolInv, PoolTypeOK, Gets, Bounds, CalmInv, Behind, Asking
<1>5. NoStaleReader' /\ NewestAfterRename' BY DEF PoolInv, PoolTypeOK, Gets, NoStaleReader, NewestAfterRename
<1> QED BY <1>1, <1>2, <1>3, <1>4, <1>5 DEF PoolInv

LEMMA AnnounceStep == ASSUME PoolInv, NEW w \in Writers, Announce(w) PROVE PoolInv'
<1> USE DEF Announce
<1>1. PoolTypeOK' BY DEF PoolInv, PoolTypeOK, Gets
<1>2. Bounds' BY DEF PoolInv, PoolTypeOK, Gets, Bounds
<1>3. DoneInv' BY DEF PoolInv, PoolTypeOK, Gets, Bounds, DoneInv, Behind
<1>4. (calm => CalmInv)' BY DEF PoolInv, PoolTypeOK, Gets, Bounds, CalmInv, Behind, Asking
<1>5. NoStaleReader' /\ NewestAfterRename' BY DEF PoolInv, PoolTypeOK, Gets, NoStaleReader, NewestAfterRename
<1> QED BY <1>1, <1>2, <1>3, <1>4, <1>5 DEF PoolInv

LEMMA RenameStep == ASSUME PoolInv, NEW w \in Writers, Rename(w) PROVE PoolInv'
<1> USE DEF Rename
<1>1. PoolTypeOK' BY DEF PoolInv, PoolTypeOK, Gets
<1>2. Bounds' BY DEF PoolInv, PoolTypeOK, Gets, Bounds
<1>3. DoneInv' BY DEF PoolInv, PoolTypeOK, Gets, Bounds, DoneInv, Behind
<1>4. (calm => CalmInv)' BY DEF PoolInv, PoolTypeOK, Gets, Bounds, CalmInv, Behind, Asking
<1>5. NoStaleReader' /\ NewestAfterRename' BY DEF PoolInv, PoolTypeOK, Gets, NoStaleReader, NewestAfterRename
<1> QED BY <1>1, <1>2, <1>3, <1>4, <1>5 DEF PoolInv

LEMMA RenameFailsStep == ASSUME PoolInv, NEW w \in Writers, RenameFails(w) PROVE PoolInv'
<1> USE DEF RenameFails
<1>1. PoolTypeOK' BY DEF PoolInv, PoolTypeOK, Gets
<1>2. Bounds' BY DEF PoolInv, PoolTypeOK, Gets, Bounds
<1>3. DoneInv' BY DEF PoolInv, PoolTypeOK, Gets, Bounds, DoneInv, Behind
<1>4. (calm => CalmInv)' BY DEF PoolInv, PoolTypeOK, Gets, Bounds, CalmInv, Behind, Asking
<1>5. NoStaleReader' /\ NewestAfterRename' BY DEF PoolInv, PoolTypeOK, Gets, NoStaleReader, NewestAfterRename
<1> QED BY <1>1, <1>2, <1>3, <1>4, <1>5 DEF PoolInv

LEMMA FinishStep == ASSUME PoolInv, NEW w \in Writers, Finish(w) PROVE PoolInv'
<1> USE DEF Finish
<1>1. PoolTypeOK' BY DEF PoolInv, PoolTypeOK, Gets
<1>2. Bounds' BY DEF PoolInv, PoolTypeOK, Gets, Bounds
<1>3. DoneInv' BY DEF PoolInv, PoolTypeOK, Gets, Bounds, DoneInv, Behind
<1>4. (calm => CalmInv)' BY DEF PoolInv, PoolTypeOK, Gets, Bounds, CalmInv, Behind, Asking
<1>5. NoStaleReader' /\ NewestAfterRename' BY DEF PoolInv, PoolTypeOK, Gets, NoStaleReader, NewestAfterRename
<1> QED BY <1>1, <1>2, <1>3, <1>4, <1>5 DEF PoolInv

LEMMA OutsideStep == ASSUME PoolInv, ReplaceOutside PROVE PoolInv'
<1> USE DEF ReplaceOutside
<1>1. PoolTypeOK' BY DEF PoolInv, PoolTypeOK, Gets
<1>2. Bounds' BY DEF PoolInv, PoolTypeOK, Gets, Bounds
<1>3. DoneInv' BY DEF PoolInv, PoolTypeOK, Gets, Bounds, DoneInv, Behind
<1>4. (calm => CalmInv)' BY DEF PoolInv, PoolTypeOK, Gets, Bounds, CalmInv, Behind, Asking
<1>5. NoStaleReader' /\ NewestAfterRename' BY DEF PoolInv, PoolTypeOK, Gets, NoStaleReader, NewestAfterRename
<1> QED BY <1>1, <1>2, <1>3, <1>4, <1>5 DEF PoolInv

LEMMA PoolStutter == ASSUME PoolInv, UNCHANGED poolVars PROVE PoolInv'
BY DEF PoolInv, poolVars, PoolTypeOK, Bounds, DoneInv, CalmInv, Behind, Asking, NoStaleReader, NewestAfterRename

LEMMA PoolStep == PoolInv /\ [PoolNext]_poolVars => PoolInv'
<1> SUFFICES ASSUME PoolInv, [PoolNext]_poolVars PROVE PoolInv' OBVIOUS
<1>1. ASSUME NEW t \in Threads, ByThread(t) PROVE PoolInv'
  BY <1>1, PoolCountStep, StatStep, ReuseStep, MapStep, EnterStep, ReleaseStep DEF ByThread
<1>2. ASSUME NEW w \in Writers, ByWriter(w) PROVE PoolInv'
  BY <1>2, AnnounceStep, RenameStep, RenameFailsStep, FinishStep DEF ByWriter
<1> QED BY <1>1, <1>2, OutsideStep, PoolStutter DEF PoolNext

LEMMA PoolInvariant == PoolSpec => []PoolInv
BY PoolInitially, PoolStep, PTL DEF PoolSpec

(* Every variable of the pool keeps its type.                              *)
THEOREM PoolTypeCorrect == PoolSpec => []PoolTypeOK
<1>1. PoolInv => PoolTypeOK BY DEF PoolInv
<1> QED BY <1>1, PoolInvariant, PTL

(* However opens and replacements interleave, nobody is handed a mapping   *)
(* of a content that was replaced for good before he asked.                *)
THEOREM NobodyGetsStale == PoolSpec => []NoStaleReader
<1>1. PoolInv => NoStaleReader BY DEF PoolInv
<1> QED BY <1>1, PoolInvariant, PTL

(* Even while a replacement is not over, nobody is handed the older file   *)
(* after the rename, unless somebody has asked between announcement and    *)
(* rename.                                                                 *)
THEOREM RenamedIsSeen == PoolSpec => []NewestAfterRename
<1>1. PoolInv => NewestAfterRename BY DEF PoolInv
<1> QED BY <1>1, PoolInvariant, PTL
================================================================================
