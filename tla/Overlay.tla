------------------------------- MODULE Overlay -------------------------------
(***************************************************************************)
(* Queries of the user-data engine over a segment and the delta above it   *)
(* (engine.rs, delta.rs, snapshot.rs, layer.rs), for one target: apply_ops *)
(* and overlay_entries, the two-level delta, scan, which merges without    *)
(* building the whole table, and the prefix query, which reads only the    *)
(* best entries of the segment.  They are compared with what the sequence  *)
(* of all operations means.                                                *)
(*                                                                         *)
(* Codes are sequences of numbers, texts are numbers.  The sequence number *)
(* of an operation stands for its time as well.                            *)
(***************************************************************************)
EXTENDS Integers, Sequences, FiniteSets, SequencesExt, FiniteSetsExt

CONSTANTS
  Code,      (* codes                                                      *)
  Text,      (* texts                                                      *)
  Op,        (* the operations that are written, [op, arg]                 *)
  Limit,     (* limits of the prefix queries looked at; 0 is no limit      *)
  MaxCount,  (* u32::MAX, where counts stop                                *)
  TailMax,   (* TAIL_MAX                                                   *)
  MaxOps,    (* most operations; bounds the model                          *)
  MaxBatch   (* most operations of one batch; bounds the model             *)

ASSUME NumbersAssumption ==
  /\ \A n \in {MaxCount, TailMax, MaxOps, MaxBatch} : n \in Nat
  /\ Limit \subseteq Nat

ASSUME KeysAssumption == Code \subseteq Seq(Nat) /\ Text \subseteq Nat

(* A weight is an i32 and a time an i64, but what Incr adds is a u32.      *)
Kinds == {"upsert", "delete", "setweight", "incr", "touch"}
ASSUME OpAssumption ==
  \A o \in Op : /\ o.op \in Kinds /\ o.arg \in Int
                /\ o.op = "incr" => o.arg \in 0..MaxCount

VARIABLES
  ops,     (* history: every operation written, in order of its number     *)
  frozen,  (* Delta.frozen: numbers of operations in order of their keys   *)
  tail,    (* Delta.tail                                                   *)
  seg,     (* the entries of the segment, see PlaceInCode for their order  *)
  max,     (* its embedded watermark                                       *)
  fold     (* the fold that builds the next segment                        *)

vars == <<ops, frozen, tail, seg, max, fold>>

Numbers == 1..Len(ops)
NoFold == [upto |-> 0, seg |-> {}]
CodePrefixes == UNION {{SubSeq(c, 1, n) : n \in 0..Len(c)} : c \in Code}
CodesUnder(p) == {c \in Code : IsPrefix(p, c)}
Key == [code : Code, text : Text]

(* The elements of a finite set in an order, each at its rank: as many are *)
(* before it.                                                              *)
Ranked(S, before) ==
  [i \in 1..Cardinality(S) |-> CHOOSE x \in S : Cardinality(before[x]) = i - 1]
InOrder(S, Less(_, _)) == Ranked(S, [x \in S |-> {y \in S : Less(y, x)}])

(* They differ first at a place where a has ended or has the lower letter. *)
CodeLess(a, b) ==
  \E i \in 1..Len(b) : /\ i <= Len(a) + 1
                       /\ \A j \in 1..(i - 1) : a[j] = b[j]
                       /\ i <= Len(a) => a[i] < b[i]

KeyLess(x, y) == CodeLess(x.code, y.code) \/ (x.code = y.code /\ x.text < y.text)
SameKey(x, y) == x.code = y.code /\ x.text = y.text
InKeyOrder(es) == InOrder(es, KeyLess)
InCodeOrder(codes) == InOrder(codes, CodeLess)

-----------------------------------------------------------------------------
(* apply_ops: from no entry or one, by operations in order.                *)
Fresh(o, i, weight, count) ==
  [code |-> o.code, text |-> o.text, weight |-> weight, count |-> count,
   created |-> i, used |-> i]

Capped(n) == IF n > MaxCount THEN MaxCount ELSE n

(* Mutant: an upsert makes a new entry.                                    *)
UpsertAnew(cur, o, i) == {Fresh(o, i, o.arg, 0)}

Upsert(cur, o, i) ==
  IF cur = {} THEN {Fresh(o, i, o.arg, 0)}
  ELSE {[e EXCEPT !.weight = o.arg, !.used = i] : e \in cur}

Incr(cur, o, i) ==
  IF cur = {} THEN {Fresh(o, i, 0, o.arg)}
  ELSE {[e EXCEPT !.count = Capped(@ + o.arg), !.used = i] : e \in cur}

(* The operation o, which has the number i.                                *)
Effect(cur, o, i) ==
  CASE o.op = "upsert"    -> Upsert(cur, o, i)
    [] o.op = "delete"    -> {}
    [] o.op = "setweight" -> {[e EXCEPT !.weight = o.arg] : e \in cur}
    [] o.op = "incr"      -> Incr(cur, o, i)
    [] o.op = "touch"     -> {[e EXCEPT !.used = o.arg] : e \in cur}

(* From base by those of os whose numbers are in S and at most n.          *)
Applied(os, base, S) ==
  LET upto[n \in Nat] == IF n = 0 THEN base
                         ELSE IF n \in S THEN Effect(upto[n - 1], os[n], n)
                         ELSE upto[n - 1]
  IN upto

ApplyOps(base, S) == Applied(ops, base, S)[Len(ops)]

(* overlay_entries, given all operations of every key among them.          *)
OverlayEntries(base, S) ==
  LET untouched == {e \in base : \A i \in S : ~SameKey(e, ops[i])}
      Touched(k) == ApplyOps({e \in base : SameKey(e, k)}, {i \in S : SameKey(ops[i], k)})
  IN untouched \cup UNION {Touched(ops[i]) : i \in S}

-----------------------------------------------------------------------------
(* The delta: a frozen part in order of keys and a short tail.             *)

(* Mutant: the frozen part keeps the order of writing.                     *)
FreezeUnsorted(S, os) == InOrder(S, LAMBDA i, j : i < j)

(* freeze, of the numbers S of operations os                               *)
Freeze(S, os) ==
  InOrder(S, LAMBDA i, j : KeyLess(os[i], os[j]) \/ (SameKey(os[i], os[j]) /\ i < j))

Pending == ToSet(frozen) \cup ToSet(tail)

(* partition_point and take_while on the frozen part, a filter on the tail:*)
(* those of the wanted numbers that are found.                             *)
TakeWhile(s, wanted) ==
  SubSeq(s, 1, Max({n \in 0..Len(s) : \A i \in 1..n : s[i] \in wanted}))

Find(from, wanted) ==
  LET below == Cardinality({n \in DOMAIN frozen : KeyLess(ops[frozen[n]], from)})
      found == TakeWhile(SubSeq(frozen, below + 1, Len(frozen)), wanted)
  IN ToSet(found) \cup (ToSet(tail) \cap wanted)

FirstText == 0
OpsFor(k) == Find(k, {i \in Numbers : SameKey(ops[i], k)})
ExactOps(c) == Find([code |-> c, text |-> FirstText], {i \in Numbers : ops[i].code = c})
PrefixOps(p) ==
  Find([code |-> p, text |-> FirstText], {i \in Numbers : IsPrefix(p, ops[i].code)})

(* Delta::with_all: the delta with the tail `old` and the new numbers.     *)
WithAll(core, old, new, os) ==
  IF Len(old) + Len(new) <= TailMax
  THEN [frozen |-> core, tail |-> old \o new]
  ELSE [frozen |-> Freeze(ToSet(core) \cup ToSet(old) \cup ToSet(new), os), tail |-> <<>>]

SetDelta(d) == frozen' = d.frozen /\ tail' = d.tail

-----------------------------------------------------------------------------
Get(k) == ApplyOps({e \in seg : SameKey(e, k)}, OpsFor(k))
Exact(c) == InKeyOrder(OverlayEntries({e \in seg : e.code = c}, ExactOps(c)))

(* Mutant: the delta comes after the segment when the texts are the same.  *)
DeltaAfter(d, g) == d.text < g.text

(* merge_code_group takes the key of the delta first, with its base.       *)
DeltaFirst(d, g) == d.text <= g.text

(* The entries of one code in order of texts, with the delta keys of it:   *)
(* g of the one and d of the other are taken, out is what came of them.    *)
Merge(group, keys, s) ==
  IF s.d = Len(keys) /\ s.g = Len(group) THEN s
  ELSE IF s.d # Len(keys) /\ (s.g = Len(group) \/ DeltaFirst(keys[s.d + 1], group[s.g + 1]))
  THEN LET key == keys[s.d + 1]
           same == s.g # Len(group) /\ group[s.g + 1].text = key.text
       IN [g   |-> IF same THEN s.g + 1 ELSE s.g,
           d   |-> s.d + 1,
           out |-> s.out \o SetToSeq(ApplyOps(IF same THEN {group[s.g + 1]} ELSE {}, key.ops))]
  ELSE [g |-> s.g + 1, d |-> s.d, out |-> Append(s.out, group[s.g + 1])]

MergeGroup(group, keys) ==
  LET after[n \in Nat] == IF n = 0 THEN [g |-> 0, d |-> 0, out |-> <<>>]
                          ELSE Merge(group, keys, after[n - 1])
  IN after[Len(group) + Len(keys)].out

(* The keys of the operations found, each with its own of them.            *)
DeltaKeys(found) ==
  {[code |-> ops[i].code, text |-> ops[i].text, ops |-> {j \in found : SameKey(ops[i], ops[j])}]
     : i \in found}

(* flush_delta_before: the keys after the n-th code and before the next.   *)
Between(keys, codes, n) ==
  {k \in keys : /\ n > 0 => CodeLess(codes[n], k.code)
                /\ n < Len(codes) => CodeLess(k.code, codes[n + 1])}
Flushed(keys, codes, n) == MergeGroup(<<>>, InKeyOrder(Between(keys, codes, n)))

Merged(keys, c) ==
  MergeGroup(InKeyOrder({e \in seg : e.code = c}), InKeyOrder({k \in keys : k.code = c}))

(* scan: the codes of the segment in order, before each of them the keys   *)
(* of the delta that lie before it, the rest of the delta at the end.      *)
Stream(keys, codes) ==
  LET out[n \in 0..Len(codes)] ==
        IF n = 0 THEN Flushed(keys, codes, 0)
        ELSE out[n - 1] \o Merged(keys, codes[n]) \o Flushed(keys, codes, n)
  IN out[Len(codes)]

Scan(p) == Stream(DeltaKeys(PrefixOps(p)),
                  InCodeOrder({e.code : e \in {x \in seg : IsPrefix(p, x.code)}}))

(* WordLayer::prefix_query: of the segment only the best limit + number of *)
(* operations, by weight and place among those of their code.              *)
First(s, n) == IF n = 0 THEN s ELSE SubSeq(s, 1, IF n < Len(s) THEN n ELSE Len(s))

(* The segment has the entries of a code by falling weight.                *)
PlaceInCode(e) ==
  Cardinality({x \in seg : x.code = e.code /\
                 (x.weight > e.weight \/ (x.weight = e.weight /\ x.text < e.text))})

Sooner(x, y) ==
  \/ x.weight > y.weight
  \/ /\ x.weight = y.weight
     /\ \/ PlaceInCode(x) < PlaceInCode(y)
        \/ PlaceInCode(x) = PlaceInCode(y) /\ CodeLess(x.code, y.code)

BestOfSegment(p, n) == First(InOrder({e \in seg : IsPrefix(p, e.code)}, Sooner), n)

Better(x, y) == x.weight > y.weight \/ (x.weight = y.weight /\ KeyLess(x, y))

(* Mutant: as many of the segment as are asked for.                        *)
TakeLimit(limit, S) == limit

Take(limit, S) == IF limit = 0 THEN 0 ELSE limit + Cardinality(S)

PrefixQuery(p, limit) ==
  LET S == PrefixOps(p)
  IN First(InOrder(OverlayEntries(ToSet(BestOfSegment(p, Take(limit, S))), S), Better), limit)

-----------------------------------------------------------------------------
Init ==
  /\ ops = <<>> /\ frozen = <<>> /\ tail = <<>>
  /\ seg = {} /\ max = 0 /\ fold = NoFold

Batches == UNION {[1..n -> {[code |-> c, text |-> t, op |-> o.op, arg |-> o.arg]
                              : c \in Code, t \in Text, o \in Op}] : n \in 1..MaxBatch}

(* apply_batch                                                             *)
Write(b) ==
  /\ Len(ops) + Len(b) <= MaxOps
  /\ ops' = ops \o b
  /\ SetDelta(WithAll(frozen, tail, [i \in 1..Len(b) |-> Len(ops) + i], ops \o b))
  /\ UNCHANGED <<seg, max, fold>>

(* fold_with: merge_for_fold and snapshot::build, beside further writes.   *)
FoldBegin ==
  /\ fold = NoFold /\ Pending # {}
  /\ fold' = [upto |-> Len(ops),
              seg  |-> OverlayEntries(seg, {i \in PrefixOps(<<>>) : i <= Len(ops)})]
  /\ UNCHANGED <<ops, frozen, tail, seg, max>>

(* drop_folded_for_schema freezes what is left.                            *)
FoldPublish ==
  /\ fold # NoFold
  /\ seg' = fold.seg /\ max' = fold.upto /\ fold' = NoFold
  /\ frozen' = Freeze({i \in Pending : i > fold.upto}, ops) /\ tail' = <<>>
  /\ UNCHANGED ops

(* The process dies, before or after the commit of a fold, and opens again.*)
Reopen ==
  /\ \E kept \in {[upto |-> max, seg |-> seg]} \cup ({fold} \ {NoFold}) :
       /\ seg' = kept.seg /\ max' = kept.upto
       /\ SetDelta(WithAll(<<>>, <<>>, [i \in 1..(Len(ops) - kept.upto) |-> kept.upto + i], ops))
  /\ fold' = NoFold
  /\ UNCHANGED ops

Next == (\E b \in Batches : Write(b)) \/ FoldBegin \/ FoldPublish \/ Reopen

Spec == Init /\ [][Next]_vars

-----------------------------------------------------------------------------
(* What the first n operations os mean for a key, said without going       *)
(* through them: nothing before the last deletion counts, the first upsert *)
(* or count after it makes the entry.                                      *)
Own(os, k, n) == {i \in 1..n : SameKey(os[i], k)}
Live(os, k, n) == {i \in Own(os, k, n) : \A d \in Own(os, k, n) : os[d].op = "delete" => d < i}
Makers(os, k, n) == {i \in Live(os, k, n) : os[i].op \in {"upsert", "incr"}}

(* The operations of these kinds since the entry was made, and the last one*)
Since(os, k, n, kinds) ==
  {i \in Live(os, k, n) : os[i].op \in kinds /\ \E m \in Makers(os, k, n) : m <= i}
Latest(os, k, n, kinds) == Max({0} \cup Since(os, k, n, kinds))

Total(os, S) ==
  LET upto[n \in Nat] == IF n = 0 THEN 0
                         ELSE upto[n - 1] + (IF n \in S THEN os[n].arg ELSE 0)
  IN upto

(* Nothing gives a weight to a word that is only counted.                  *)
WeightOf(os, k, n) ==
  LET w == Latest(os, k, n, {"upsert", "setweight"}) IN IF w = 0 THEN 0 ELSE os[w].arg
CountOf(os, k, n) == Capped(Total(os, Since(os, k, n, {"incr"}))[n])
UsedOf(os, k, n) ==
  LET u == Latest(os, k, n, {"upsert", "incr", "touch"})
  IN IF os[u].op = "touch" THEN os[u].arg ELSE u

Meaning(os, k, n) ==
  IF Makers(os, k, n) = {} THEN {}
  ELSE {[code |-> k.code, text |-> k.text, weight |-> WeightOf(os, k, n),
         count |-> CountOf(os, k, n), created |-> Min(Makers(os, k, n)),
         used |-> UsedOf(os, k, n)]}

(* What they mean for the words of some codes.                             *)
Meant(codes, n) == UNION {Meaning(ops, k, n) : k \in [code : codes, text : Text]}

(* Every variable has its type.                                            *)
OpType == {o \in [code : Code, text : Text, op : Kinds, arg : Int] :
             o.op = "incr" => o.arg \in 0..MaxCount}
Entry == [code : Code, text : Text, weight : Int, count : 0..MaxCount,
          created : Nat \ {0}, used : Int]
TypeOK ==
  /\ ops \in Seq(OpType)
  /\ frozen \in Seq(Numbers) /\ tail \in Seq(Numbers) /\ Len(tail) <= TailMax
  /\ max \in 0..Len(ops) /\ fold.upto \in 0..Len(ops)
  /\ \A s \in {seg, fold.seg} : s \subseteq Entry

(* A segment holds what the operations up to its watermark mean, however   *)
(* often it was folded (apply_ops is the same for reads and folds).        *)
SegmentHoldsFolded == seg = Meant(Code, max)

(* The lookups of one word and of one code find what all operations mean,  *)
(* whichever of them are in the segment, the frozen part and the tail.     *)
LookupsFindAll ==
  /\ \A k \in Key : Get(k) = Meaning(ops, k, Len(ops))
  /\ \A c \in Code : Exact(c) = InKeyOrder(Meant({c}, Len(ops)))

(* The streaming merge yields every entry once, in order of code and text. *)
ScanFindsAll ==
  \A p \in CodePrefixes : Scan(p) = InKeyOrder(Meant(CodesUnder(p), Len(ops)))

FindsBest(p, limit) ==
  LET all == Meant(CodesUnder(p), Len(ops))
      shown == PrefixQuery(p, limit)
      Is(x, y) == SameKey(x, y) /\ x.weight = y.weight
  IN /\ Len(shown) = Len(First(InKeyOrder(all), limit))
     /\ \A x \in ToSet(shown) : \E y \in all : Is(x, y)
     /\ \A y \in all, x \in ToSet(shown) :
          y.weight > x.weight => \E z \in ToSet(shown) : Is(z, y)

(* A limited prefix query shows only words there are, as many as there are *)
(* up to the limit, and leaves none out that weighs more than one it shows,*)
(* although it reads a part of the segment (prefix_query).  What is pending*)
(* may raise a word outside that part: a SetWeight does, and so does an    *)
(* Incr of a word that weighs less than nothing, which it shows with the   *)
(* weight of a new word.                                                   *)
PrefixFindsBest ==
  (\A i \in Pending :
     /\ ops[i].op # "setweight"
     /\ ops[i].op = "incr" => \A e \in seg : SameKey(e, ops[i]) => e.weight >= 0)
    => \A p \in CodePrefixes, limit \in Limit : FindsBest(p, limit)
=============================================================================
