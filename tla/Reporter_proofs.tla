--------------------------- MODULE Reporter_proofs ---------------------------
(***************************************************************************)
(* Proofs about Reporter, for every set of confirms, settlements and       *)
(* events, every cap and every number of attempts: where each half is, the *)
(* order of the queues, the caps, and what close() leaves undecided.       *)
(*                                                                         *)
(* Entries are counted by their positions (Hits, Count), so that moving an *)
(* entry between two sequences moves its count.  The chapters follow the   *)
(* model: sequences, selection, the books (event queue, folds and drops),  *)
(* the lines of confirms and settlements, and then one lemma per action.   *)
(***************************************************************************)
EXTENDS Reporter, SequenceTheorems, FiniteSetTheorems, WellFoundedInduction, TLAPS

Hits(s, V) == {i \in DOMAIN s : s[i] \in V}
Count(s, V) == Cardinality(Hits(s, V))

LEMMA HitsFinite ==
  ASSUME NEW S, NEW s \in Seq(S), NEW V
  PROVE  /\ IsFiniteSet(Hits(s, V)) /\ Count(s, V) \in Nat /\ Count(s, V) <= Len(s)
         /\ Hits(s, V) \subseteq 1 .. Len(s) /\ DOMAIN s = 1 .. Len(s) /\ Len(s) \in Nat
<1>1. DOMAIN s = 1 .. Len(s) /\ Len(s) \in Nat
  OBVIOUS
<1>2. IsFiniteSet(1 .. Len(s)) /\ Cardinality(1 .. Len(s)) = Len(s)
  BY <1>1, FS_Interval
<1>3. Hits(s, V) \in SUBSET (1 .. Len(s))  BY <1>1 DEF Hits
<1>4. QED BY <1>1, <1>2, <1>3, FS_Subset, FS_CardinalityType DEF Count

LEMMA CountNone ==
  ASSUME NEW S, NEW s \in Seq(S), NEW V
  PROVE  (Count(s, V) = 0) <=> (\A i \in DOMAIN s : s[i] \notin V)
<1>1. IsFiniteSet(Hits(s, V))  BY HitsFinite
<1>2. (Cardinality(Hits(s, V)) = 0) <=> (Hits(s, V) = {})  BY <1>1, FS_EmptySet
<1>3. (Hits(s, V) = {}) <=> (\A i \in DOMAIN s : s[i] \notin V)
  BY DEF Hits
<1>4. QED BY <1>2, <1>3 DEF Count

LEMMA CountSome ==
  ASSUME NEW S, NEW s \in Seq(S), NEW V, NEW i \in DOMAIN s, s[i] \in V
  PROVE  Count(s, V) >= 1
BY CountNone, HitsFinite

(* Two positions that hit are two hits. *)
LEMMA CountTwo ==
  ASSUME NEW S, NEW s \in Seq(S), NEW V, NEW i \in DOMAIN s, NEW j \in DOMAIN s, i # j, s[i] \in V, s[j] \in V
  PROVE  Count(s, V) >= 2
<1>1. IsFiniteSet({i}) /\ Cardinality({i}) = 1
  BY FS_Singleton
<1> DEFINE one == {i}
<1>2. IsFiniteSet(one \cup {j}) /\ Cardinality(one \cup {j}) = 2
 <2>1. IsFiniteSet(one) /\ Cardinality(one) = 1 /\ j \notin one
   BY <1>1
 <2> HIDE DEF one
 <2>2. IsFiniteSet(one \cup {j}) /\ Cardinality(one \cup {j}) = Cardinality(one) + 1
   BY <2>1, FS_AddElement
 <2>3. QED BY <2>1, <2>2
<1>3. one \cup {j} \in SUBSET Hits(s, V)  BY DEF Hits
<1> HIDE DEF one
<1>4. IsFiniteSet(Hits(s, V)) /\ Count(s, V) \in Nat
  BY HitsFinite
<1>5. QED BY <1>2, <1>3, <1>4, FS_Subset DEF Count

LEMMA CountEmpty == \A V : Count(<<>>, V) = 0
<1> TAKE V
<1>1. Hits(<<>>, V) = {}  BY DEF Hits
<1>2. QED BY <1>1, FS_EmptySet DEF Count

LEMMA CountAppend ==
  ASSUME NEW S, NEW s \in Seq(S), NEW x \in S, NEW V
  PROVE  Count(Append(s, x), V) = Count(s, V) + (IF x \in V THEN 1 ELSE 0)
<1>1. Hits(Append(s, x), V) = IF x \in V THEN Hits(s, V) \cup {Len(s) + 1} ELSE Hits(s, V)
  BY DEF Hits
<1>2. Len(s) + 1 \notin Hits(s, V) /\ IsFiniteSet(Hits(s, V)) /\ Count(s, V) \in Nat
  BY HitsFinite
<1>3. Cardinality(Hits(s, V) \cup {Len(s) + 1}) = Cardinality(Hits(s, V)) + 1
  BY <1>2, FS_AddElement
<1>4. QED BY <1>1, <1>2, <1>3 DEF Count

LEMMA CountAs ==
  ASSUME NEW s, NEW t, NEW V, NEW W, DOMAIN s = DOMAIN t, \A i \in DOMAIN s : (s[i] \in V) <=> (t[i] \in W)
  PROVE  Count(s, V) = Count(t, W)
<1>1. Hits(s, V) = Hits(t, W)  BY DEF Hits
<1>2. QED BY <1>1 DEF Count

LEMMA CountConcat ==
  ASSUME NEW S, NEW s \in Seq(S), NEW t \in Seq(S), NEW V
  PROVE  Count(s \o t, V) = Count(s, V) + Count(t, V)
<1> DEFINE shifted == {i + Len(s) : i \in Hits(t, V)}
<1> DEFINE f == [i \in Hits(t, V) |-> i + Len(s)]
<1>0. Len(s) \in Nat /\ Len(t) \in Nat /\ DOMAIN t = 1 .. Len(t) /\ Hits(t, V) \subseteq 1 .. Len(t)
  BY HitsFinite
<1>1. f \in Bijection(Hits(t, V), shifted)
  BY <1>0 DEF Bijection, Injection, Surjection, IsInjective
<1>2. IsFiniteSet(shifted) /\ Cardinality(shifted) = Count(t, V)
  BY <1>1, HitsFinite, FS_Bijection DEF Count, ExistsBijection
<1>3. Hits(s \o t, V) = Hits(s, V) \cup shifted
 <2>1. \A i \in 1 .. Len(s) : (s \o t)[i] = s[i]
   OBVIOUS
 <2>2. \A i \in 1 .. Len(t) : (s \o t)[i + Len(s)] = t[i]
   OBVIOUS
 <2>3. DOMAIN (s \o t) = 1 .. Len(s) + Len(t) /\ DOMAIN s = 1 .. Len(s)
   OBVIOUS
 <2>4. ASSUME NEW i \in 1 .. Len(s) + Len(t) PROVE i \in 1 .. Len(s) \/ \E j \in 1 .. Len(t) : i = j + Len(s)
  <3>1. i <= Len(s) \/ i - Len(s) \in 1 .. Len(t)
    BY <1>0
  <3>2. QED BY <1>0, <3>1
 <2> HIDE DEF f
 <2>5. ASSUME NEW i \in Hits(s \o t, V) PROVE i \in Hits(s, V) \cup shifted
  <3>1. i \in 1 .. Len(s) + Len(t) /\ (s \o t)[i] \in V  BY <2>3 DEF Hits
  <3>2. CASE i \in 1 .. Len(s)  BY <2>1, <2>3, <3>1, <3>2 DEF Hits
  <3>3. ASSUME NEW j \in 1 .. Len(t), i = j + Len(s) PROVE i \in shifted  BY <1>0, <2>2, <3>1, <3>3 DEF Hits
  <3>4. QED BY <2>4, <3>1, <3>2, <3>3
 <2>6. Hits(s, V) \subseteq Hits(s \o t, V)  BY <1>0, <2>1, <2>3 DEF Hits
 <2>7. shifted \subseteq Hits(s \o t, V)  BY <1>0, <2>2, <2>3 DEF Hits
 <2>8. QED BY Zenon, <2>5, <2>6, <2>7
<1>4. Hits(s, V) \cap shifted = {}  BY <1>0, HitsFinite
<1>5. QED
 <2> DEFINE hits == Hits(s, V)
 <2>1. IsFiniteSet(hits) /\ Cardinality(hits) = Count(s, V) /\ Count(s, V) \in Nat /\ Count(t, V) \in Nat
   BY HitsFinite DEF Count
 <2>2. hits \cap shifted = {}  BY <1>4
 <2>3. Hits(s \o t, V) = hits \cup shifted  BY <1>3
 <2> HIDE DEF hits, shifted, f
 <2>4. Cardinality(hits \cup shifted) = Cardinality(hits) + Cardinality(shifted) - Cardinality(hits \cap shifted)
   BY <1>2, <2>1, FS_Union
 <2>5. Cardinality(hits \cap shifted) = 0  BY <2>2, FS_EmptySet
 <2>6. Cardinality(hits \cup shifted) = Count(s, V) + Count(t, V)  BY <1>2, <2>1, <2>4, <2>5
 <2>7. Count(s \o t, V) = Cardinality(hits \cup shifted)  BY <2>3 DEF Count
 <2>8. QED BY <2>6, <2>7

LEMMA CountSplit ==
  ASSUME NEW S, NEW s \in Seq(S), NEW n \in 0 .. Len(s), NEW V
  PROVE  /\ SubSeq(s, 1, n) \in Seq(S) /\ SubSeq(s, n + 1, Len(s)) \in Seq(S)
         /\ SubSeq(s, 1, n) \o SubSeq(s, n + 1, Len(s)) = s
         /\ Count(SubSeq(s, 1, n), V) + Count(SubSeq(s, n + 1, Len(s)), V) = Count(s, V)
<1>1. SubSeq(s, 1, n) \in Seq(S) /\ SubSeq(s, n + 1, Len(s)) \in Seq(S)
  BY SubSeqProperties
<1>2. SubSeq(s, 1, n) \o SubSeq(s, n + 1, Len(s)) = SubSeq(s, 1, Len(s))
 <2>1. Len(s) \in Nat /\ 1 \in 1 .. Len(s) + 1 /\ n \in 1 - 1 .. Len(s) /\ Len(s) \in n .. Len(s)
   OBVIOUS
 <2>2. QED BY <2>1, ConcatAdjacentSubSeq
<1>3. SubSeq(s, 1, Len(s)) = s  BY SubSeqFull
<1> DEFINE a == SubSeq(s, 1, n)
<1> DEFINE b == SubSeq(s, n + 1, Len(s))
<1>4. a \in Seq(S) /\ b \in Seq(S) /\ a \o b = s
  BY <1>1, <1>2, <1>3
<1>5. Count(a, V) + Count(b, V) = Count(s, V)
 <2> HIDE DEF a, b
 <2>1. Count(a \o b, V) = Count(a, V) + Count(b, V)  BY <1>4, CountConcat
 <2>2. QED BY <1>4, <2>1
<1>6. QED BY <1>4, <1>5

LEMMA CountOne ==
  ASSUME NEW x, NEW V
  PROVE  Count(<<x>>, V) = IF x \in V THEN 1 ELSE 0
<1>1. <<>> \in Seq({x}) /\ x \in {x} /\ Append(<<>>, x) = <<x>>
  OBVIOUS
<1>2. Count(Append(<<>>, x), V) = Count(<<>>, V) + (IF x \in V THEN 1 ELSE 0)
  BY <1>1, CountAppend
<1>3. QED BY <1>1, <1>2, CountEmpty

LEMMA CountHead ==
  ASSUME NEW S, NEW s \in Seq(S), s # <<>>, NEW V
  PROVE  Count(s, V) = Count(Tail(s), V) + (IF Head(s) \in V THEN 1 ELSE 0)
<1>1. Head(s) \in S /\ Tail(s) \in Seq(S) /\ Len(Tail(s)) = Len(s) - 1
  BY HeadTailProperties
<1>2. s = <<Head(s)>> \o Tail(s)  BY <1>1
<1>3. Count(<<Head(s)>>, V) = IF Head(s) \in V THEN 1 ELSE 0
  BY CountOne
<1>4. Count(<<Head(s)>> \o Tail(s), V) = Count(<<Head(s)>>, V) + Count(Tail(s), V)
 <2>1. <<Head(s)>> \in Seq(S)  BY <1>1
 <2>2. QED BY <1>1, <2>1, CountConcat
<1>5. Count(Tail(s), V) \in Nat  BY <1>1, HitsFinite
<1>6. Count(s, V) = (IF Head(s) \in V THEN 1 ELSE 0) + Count(Tail(s), V)
  BY <1>2, <1>3, <1>4
<1>7. QED BY <1>5, <1>6

LEMMA CountTail ==
  ASSUME NEW S, NEW s \in Seq(S), s # <<>>
  PROVE  Head(s) \in S /\ Tail(s) \in Seq(S) /\ Len(Tail(s)) = Len(s) - 1 /\ s = <<Head(s)>> \o Tail(s)
<1>1. Head(s) \in S /\ Tail(s) \in Seq(S) /\ Len(Tail(s)) = Len(s) - 1
  BY HeadTailProperties
<1>2. s = <<Head(s)>> \o Tail(s)  BY <1>1
<1>3. QED BY <1>1, <1>2

LEMMA LeastNumber ==
  ASSUME NEW S, S \subseteq Nat, S # {}
  PROVE  \E x \in S : \A y \in S : x <= y
<1>1. IsWellFoundedOn(OpToRel(<, Nat), Nat)  BY NatLessThanWellFounded
<1>2. PICK x \in S : \A y \in S : <<y, x>> \notin OpToRel(<, Nat)
  BY <1>1, WFMin
<1>3. \A y \in S : ~(y < x)
  BY <1>2 DEF OpToRel
<1>4. QED BY <1>3

(* What holds of 0 and from each number of the next, up to n, holds up to n. *)
LEMMA UpTo ==
  ASSUME NEW n \in Nat, NEW S, 0 \in S, \A i \in 1 .. n : i - 1 \in S => i \in S
  PROVE  0 .. n \subseteq S
<1> DEFINE T == (0 .. n) \ S
<1>1. SUFFICES ASSUME T # {} PROVE FALSE
  OBVIOUS
<1>2. PICK i \in T : \A j \in T : i <= j
 <2>1. T \subseteq Nat /\ T # {}
   BY <1>1
 <2> HIDE DEF T
 <2>2. QED BY <2>1, LeastNumber
<1>3. i \in 1 .. n /\ i - 1 \in 0 .. n /\ i - 1 \notin T
  BY <1>2
<1>4. QED BY <1>2, <1>3

LEMMA MinIs ==
  ASSUME NEW S, S \subseteq Nat, S # {}
  PROVE  Min(S) \in S /\ \A y \in S : Min(S) <= y
<1>1. PICK x \in S : \A y \in S : x <= y
  BY LeastNumber
<1>2. QED BY <1>1 DEF Min

LEMMA MaxIs ==
  ASSUME NEW n \in Nat, NEW S, S \subseteq 0 .. n, S # {}
  PROVE  Max(S) \in S /\ \A y \in S : Max(S) >= y
<1> DEFINE T == {k \in 0 .. n : n - k \in S}
<1>1. T # {}
 <2>1. PICK x \in S : TRUE
   OBVIOUS
 <2>2. n - x \in T  BY <2>1
 <2>3. QED BY <2>2
<1>2. PICK k \in T : \A j \in T : k <= j
 <2>1. T \subseteq Nat  OBVIOUS
 <2> HIDE DEF T
 <2>2. QED BY <1>1, <2>1, LeastNumber
<1>3. \A y \in S : n - y \in T
  OBVIOUS
<1>4. n - k \in S /\ \A y \in S : n - k >= y
  BY <1>2, <1>3
<1>5. QED BY <1>4 DEF Max

Selects(s, I, n, g) ==
  g = [i \in 0 .. n |-> g[i]] /\ g[0] = <<>> /\ \A i \in 1 .. n : g[i] = (IF i \in I THEN Append(g[i - 1], s[i]) ELSE g[i - 1])

LEMMA SelectsExist ==
  ASSUME NEW s, NEW I, NEW N \in Nat
  PROVE  \E g : Selects(s, I, N, g)
<1> DEFINE S == {n \in Nat : \E g : Selects(s, I, n, g)}
<1>1. 0 \in S
 <2>1. Selects(s, I, 0, [i \in 0 .. 0 |-> <<>>])  BY DEF Selects
 <2>2. QED BY <2>1
<1>2. ASSUME NEW n \in 1 .. N, n - 1 \in S PROVE n \in S
 <2>1. PICK g : Selects(s, I, n - 1, g)
   BY <1>2
 <2> DEFINE last == (IF n \in I THEN Append(g[n - 1], s[n]) ELSE g[n - 1])
 <2> DEFINE h == [i \in 0 .. n |-> IF i = n THEN last ELSE g[i]]
 <2>2. h = [i \in 0 .. n |-> h[i]] /\ h[0] = <<>>
   BY <1>2, <2>1 DEF Selects
 <2>3. ASSUME NEW i \in 1 .. n PROVE h[i] = (IF i \in I THEN Append(h[i - 1], s[i]) ELSE h[i - 1])
  <3>1. h[i - 1] = g[i - 1]  BY <1>2, <2>3
  <3>2. CASE i = n
    BY <1>2, <3>1, <3>2
  <3>3. CASE i # n
   <4>1. i \in 1 .. n - 1 /\ h[i] = g[i]
     BY <1>2, <3>3
   <4>2. g[i] = (IF i \in I THEN Append(g[i - 1], s[i]) ELSE g[i - 1])
     BY <2>1, <4>1 DEF Selects
   <4> HIDE DEF h
   <4>3. QED BY <3>1, <4>1, <4>2
  <3>4. QED BY <3>2, <3>3
 <2> HIDE DEF h
 <2>4. Selects(s, I, n, h)  BY Zenon, <2>2, <2>3 DEF Selects
 <2>5. QED BY <1>2, <2>4
<1> HIDE DEF S
<1>3. 0 .. N \subseteq S  BY <1>1, <1>2, UpTo
<1>4. N \in S  BY <1>3
<1>5. QED BY <1>4 DEF S

LEMMA SelectsSteps ==
  ASSUME NEW s, NEW I, Len(s) \in Nat
  PROVE  \E g : Selects(s, I, Len(s), g) /\ Select(s, I) = g[Len(s)]
<1> DEFINE Body(g) == [i \in 0 .. Len(s) |-> IF i = 0 THEN <<>> ELSE (IF i \in I THEN Append(g[i - 1], s[i]) ELSE g[i - 1])]
           made == CHOOSE g : g = Body(g)
<1>1. PICK h : Selects(s, I, Len(s), h)
  BY SelectsExist
<1>2. h = Body(h)
 <2>1. h = [i \in 0 .. Len(s) |-> h[i]]  BY Zenon, <1>1 DEF Selects
 <2>2. h[0] = <<>> /\ \A i \in 1 .. Len(s) : h[i] = (IF i \in I THEN Append(h[i - 1], s[i]) ELSE h[i - 1])
   BY Zenon, <1>1 DEF Selects
 <2>3. \A i \in 0 .. Len(s) : h[i] = IF i = 0 THEN <<>> ELSE (IF i \in I THEN Append(h[i - 1], s[i]) ELSE h[i - 1])
   BY <2>2
 <2>4. QED BY <2>1, <2>3
<1>3. made = Body(made)  BY Zenon, <1>2
<1>4. Select(s, I) = made[Len(s)]  BY DEF Select
<1> HIDE DEF made
<1>5. Selects(s, I, Len(s), made)
 <2>1. made = [i \in 0 .. Len(s) |-> made[i]]  BY <1>3
 <2>2. made[0] = <<>>  BY <1>3
 <2>3. ASSUME NEW i \in 1 .. Len(s) PROVE made[i] = (IF i \in I THEN Append(made[i - 1], s[i]) ELSE made[i - 1])
  <3>1. i \in 0 .. Len(s) /\ i # 0
    OBVIOUS
  <3>2. made[i] = IF i = 0 THEN <<>> ELSE (IF i \in I THEN Append(made[i - 1], s[i]) ELSE made[i - 1])
    BY <1>3, <3>1
  <3>3. QED BY <3>1, <3>2
 <2>4. QED BY Zenon, <2>1, <2>2, <2>3 DEF Selects
<1>6. QED BY <1>4, <1>5

Disposes(b, entries, force, n, g) ==
  g = [i \in 0 .. n |-> g[i]] /\ g[0] = b /\ \A i \in 1 .. n : g[i] = Dispose(g[i - 1], entries[i].of, force)

LEMMA DisposesExist ==
  ASSUME NEW b, NEW entries, NEW force, NEW N \in Nat
  PROVE  \E g : Disposes(b, entries, force, N, g)
<1> DEFINE S == {n \in Nat : \E g : Disposes(b, entries, force, n, g)}
<1>1. 0 \in S
 <2>1. Disposes(b, entries, force, 0, [i \in 0 .. 0 |-> b])  BY DEF Disposes
 <2>2. QED BY <2>1
<1>2. ASSUME NEW n \in 1 .. N, n - 1 \in S PROVE n \in S
 <2>1. PICK g : Disposes(b, entries, force, n - 1, g)
   BY <1>2
 <2> DEFINE last == Dispose(g[n - 1], entries[n].of, force)
 <2> DEFINE h == [i \in 0 .. n |-> IF i = n THEN last ELSE g[i]]
 <2>2. h = [i \in 0 .. n |-> h[i]] /\ h[0] = b
   BY <1>2, <2>1 DEF Disposes
 <2>3. ASSUME NEW i \in 1 .. n PROVE h[i] = Dispose(h[i - 1], entries[i].of, force)
  <3>1. h[i - 1] = g[i - 1]  BY <1>2, <2>3
  <3>2. CASE i = n
    BY <1>2, <3>1, <3>2
  <3>3. CASE i # n
   <4>1. i \in 1 .. n - 1 /\ h[i] = g[i]
     BY <1>2, <3>3
   <4>2. g[i] = Dispose(g[i - 1], entries[i].of, force)  BY <2>1, <4>1 DEF Disposes
   <4> HIDE DEF h
   <4>3. QED BY <3>1, <4>1, <4>2
  <3>4. QED BY <3>2, <3>3
 <2> HIDE DEF h
 <2>4. Disposes(b, entries, force, n, h)  BY Zenon, <2>2, <2>3 DEF Disposes
 <2>5. QED BY <1>2, <2>4
<1> HIDE DEF S
<1>3. 0 .. N \subseteq S  BY <1>1, <1>2, UpTo
<1>4. N \in S  BY <1>3
<1>5. QED BY <1>4 DEF S

LEMMA DisposesSteps ==
  ASSUME NEW b, NEW entries, NEW force, Len(entries) \in Nat
  PROVE  \E g : Disposes(b, entries, force, Len(entries), g) /\ DisposeAll(b, entries, force) = g[Len(entries)]
<1> DEFINE Body(g) == [i \in 0 .. Len(entries) |-> IF i = 0 THEN b ELSE Dispose(g[i - 1], entries[i].of, force)]
           made == CHOOSE g : g = Body(g)
<1>1. PICK h : Disposes(b, entries, force, Len(entries), h)
  BY DisposesExist
<1>2. h = Body(h)
 <2>1. h = [i \in 0 .. Len(entries) |-> h[i]]  BY Zenon, <1>1 DEF Disposes
 <2>2. h[0] = b /\ \A i \in 1 .. Len(entries) : h[i] = Dispose(h[i - 1], entries[i].of, force)
   BY Zenon, <1>1 DEF Disposes
 <2>3. \A i \in 0 .. Len(entries) : h[i] = IF i = 0 THEN b ELSE Dispose(h[i - 1], entries[i].of, force)
   BY <2>2
 <2>4. QED BY <2>1, <2>3
<1>3. made = Body(made)  BY Zenon, <1>2
<1>4. DisposeAll(b, entries, force) = made[Len(entries)]  BY DEF DisposeAll
<1> HIDE DEF made
<1>5. Disposes(b, entries, force, Len(entries), made)
 <2>1. made = [i \in 0 .. Len(entries) |-> made[i]]  BY <1>3
 <2>2. made[0] = b  BY <1>3
 <2>3. ASSUME NEW i \in 1 .. Len(entries) PROVE made[i] = Dispose(made[i - 1], entries[i].of, force)
   BY <1>3
 <2>4. QED BY Zenon, <2>1, <2>2, <2>3 DEF Disposes
<1>6. QED BY <1>4, <1>5

Pushes(b, line, bypass, n, g) ==
  g = [i \in 0 .. n |-> g[i]] /\ g[0] = b /\ \A i \in 1 .. n : g[i] = PushEvent(g[i - 1], line[i], bypass)

LEMMA PushesExist ==
  ASSUME NEW b, NEW line, NEW bypass, NEW N \in Nat
  PROVE  \E g : Pushes(b, line, bypass, N, g)
<1> DEFINE S == {n \in Nat : \E g : Pushes(b, line, bypass, n, g)}
<1>1. 0 \in S
 <2>1. Pushes(b, line, bypass, 0, [i \in 0 .. 0 |-> b])  BY DEF Pushes
 <2>2. QED BY <2>1
<1>2. ASSUME NEW n \in 1 .. N, n - 1 \in S PROVE n \in S
 <2>1. PICK g : Pushes(b, line, bypass, n - 1, g)
   BY <1>2
 <2> DEFINE last == PushEvent(g[n - 1], line[n], bypass)
 <2> DEFINE h == [i \in 0 .. n |-> IF i = n THEN last ELSE g[i]]
 <2>2. h = [i \in 0 .. n |-> h[i]] /\ h[0] = b
   BY <1>2, <2>1 DEF Pushes
 <2>3. ASSUME NEW i \in 1 .. n PROVE h[i] = PushEvent(h[i - 1], line[i], bypass)
  <3>1. h[i - 1] = g[i - 1]  BY <1>2, <2>3
  <3>2. CASE i = n
    BY <1>2, <3>1, <3>2
  <3>3. CASE i # n
   <4>1. i \in 1 .. n - 1 /\ h[i] = g[i]
     BY <1>2, <3>3
   <4>2. g[i] = PushEvent(g[i - 1], line[i], bypass)  BY <2>1, <4>1 DEF Pushes
   <4> HIDE DEF h
   <4>3. QED BY <3>1, <4>1, <4>2
  <3>4. QED BY <3>2, <3>3
 <2> HIDE DEF h
 <2>4. Pushes(b, line, bypass, n, h)  BY Zenon, <2>2, <2>3 DEF Pushes
 <2>5. QED BY <1>2, <2>4
<1> HIDE DEF S
<1>3. 0 .. N \subseteq S  BY <1>1, <1>2, UpTo
<1>4. N \in S  BY <1>3
<1>5. QED BY <1>4 DEF S

LEMMA PushesSteps ==
  ASSUME NEW b, NEW line, NEW bypass, Len(line) \in Nat
  PROVE  \E g : Pushes(b, line, bypass, Len(line), g) /\ PushAll(b, line, bypass) = g[Len(line)]
<1> DEFINE Body(g) == [i \in 0 .. Len(line) |-> IF i = 0 THEN b ELSE PushEvent(g[i - 1], line[i], bypass)]
           made == CHOOSE g : g = Body(g)
<1>1. PICK h : Pushes(b, line, bypass, Len(line), h)
  BY PushesExist
<1>2. h = Body(h)
  BY <1>1 DEF Pushes
<1>3. made = Body(made)  BY Zenon, <1>2
<1>4. PushAll(b, line, bypass) = made[Len(line)]  BY DEF PushAll
<1> HIDE DEF made
<1>5. Pushes(b, line, bypass, Len(line), made)
 <2>1. made = [i \in 0 .. Len(line) |-> made[i]]  BY <1>3
 <2>2. made[0] = b  BY <1>3
 <2>3. ASSUME NEW i \in 1 .. Len(line) PROVE made[i] = PushEvent(made[i - 1], line[i], bypass)
   BY <1>3
 <2>4. QED BY Zenon, <2>1, <2>2, <2>3 DEF Pushes
<1>6. QED BY <1>4, <1>5

(* A selection keeps the order: its entries come from increasing positions. *)
Drawn(t, s, I) ==
  \E m \in [1 .. Len(t) -> I] :
    /\ \A k \in 1 .. Len(t) : t[k] = s[m[k]]
    /\ \A j, k \in 1 .. Len(t) : j < k => m[j] < m[k]

LEMMA DrawnMore ==
  ASSUME NEW S, NEW s \in Seq(S), NEW t \in Seq(S), NEW I, NEW J, NEW n \in 1 .. Len(s),
         Drawn(t, s, I), I \subseteq 1 .. n - 1, J = I \cup {n}
  PROVE  Drawn(Append(t, s[n]), s, J)
<1>1. PICK m \in [1 .. Len(t) -> I] : /\ \A k \in 1 .. Len(t) : t[k] = s[m[k]]
                                      /\ \A j, k \in 1 .. Len(t) : j < k => m[j] < m[k]
  BY DEF Drawn
<1> DEFINE N == Len(t)
<1>2. N \in Nat  OBVIOUS
<1> DEFINE h == [k \in 1 .. N + 1 |-> IF k = N + 1 THEN n ELSE m[k]]
<1>3. Len(Append(t, s[n])) = N + 1 /\ Append(t, s[n])[N + 1] = s[n] /\ \A k \in 1 .. N : Append(t, s[n])[k] = t[k]
  OBVIOUS
<1>4. ASSUME NEW k \in 1 .. N PROVE h[k] = m[k] /\ m[k] \in I /\ m[k] \in Int /\ m[k] < n
 <2>1. k \in 1 .. N + 1 /\ k # N + 1
   BY <1>2
 <2>2. m[k] \in I  BY <1>1
 <2>3. m[k] \in 1 .. n - 1  BY <2>2
 <2>4. Len(s) \in Nat  OBVIOUS
 <2>5. QED BY <2>1, <2>2, <2>3, <2>4
<1>5. h[N + 1] = n  BY <1>2
<1>6. h \in [1 .. N + 1 -> J]  BY <1>2, <1>4, <1>5
<1>7. ASSUME NEW k \in 1 .. N + 1 PROVE Append(t, s[n])[k] = s[h[k]]
 <2>1. CASE k = N + 1
   BY <1>3, <1>5, <2>1
 <2>2. CASE k # N + 1
   BY <1>2, <2>2, <1>1, <1>3, <1>4
 <2>3. QED BY <2>1, <2>2
<1>8. ASSUME NEW j \in 1 .. N + 1, NEW k \in 1 .. N + 1, j < k PROVE h[j] < h[k]
 <2>1. j \in 1 .. N  BY <1>2, <1>8
 <2>2. CASE k = N + 1
   BY <1>4, <1>5, <2>1, <2>2
 <2>3. CASE k # N + 1
  <3>1. k \in 1 .. N /\ j \in 1 .. N  BY <1>2, <2>1, <2>3
  <3>2. h[j] = m[j] /\ h[k] = m[k]  BY Zenon, <1>4, <3>1
  <3>3. m[j] < m[k]  BY <1>1, <1>8, <3>1
  <3>4. QED BY <3>2, <3>3
 <2>4. QED BY <2>2, <2>3
<1> HIDE DEF h
<1>9. QED BY <1>3, <1>6, <1>7, <1>8 DEF Drawn

LEMMA SelectIs ==
  ASSUME NEW S, NEW s \in Seq(S), NEW I
  PROVE  /\ Select(s, I) \in Seq(S) /\ Len(Select(s, I)) <= Len(s)
         /\ \A V : Count(Select(s, I), V) = Cardinality(Hits(s, V) \cap I)
         /\ Drawn(Select(s, I), s, I \cap DOMAIN s)
<1>0. Len(s) \in Nat /\ DOMAIN s = 1 .. Len(s)
  OBVIOUS
<1>1. PICK g : Selects(s, I, Len(s), g) /\ Select(s, I) = g[Len(s)]
  BY <1>0, SelectsSteps
<1>2. g[0] = <<>> /\ \A i \in 1 .. Len(s) : g[i] = IF i \in I THEN Append(g[i - 1], s[i]) ELSE g[i - 1]
  BY Zenon, <1>1 DEF Selects
<1> DEFINE Good(t, n) ==
      /\ t \in Seq(S) /\ Len(t) <= n
      /\ \A V : Count(t, V) = Cardinality(Hits(s, V) \cap (I \cap (1 .. n)))
      /\ Drawn(t, s, I \cap (1 .. n))
<1> DEFINE F == {n \in Nat : Good(g[n], n)}
<1>3. Good(<<>>, 0)
 <2>1. I \cap (1 .. 0) = {}  OBVIOUS
 <2>2. \A V : Hits(s, V) \cap (I \cap (1 .. 0)) = {}
   OBVIOUS
 <2>3. \A V : Count(<<>>, V) = Cardinality(Hits(s, V) \cap (I \cap (1 .. 0)))
   BY <2>2, CountEmpty, FS_EmptySet
 <2>4. Drawn(<<>>, s, {})
  <3>1. [k \in 1 .. 0 |-> k] \in [1 .. Len(<<>>) -> {}]  OBVIOUS
  <3>2. 1 .. Len(<<>>) = {}  OBVIOUS
  <3>3. QED BY <3>1, <3>2 DEF Drawn
 <2>5. QED BY <2>1, <2>3, <2>4
<1>4. ASSUME NEW n \in 1 .. Len(s), Good(g[n - 1], n - 1) PROVE Good(g[n], n)
 <2> DEFINE t == g[n - 1]
 <2>0. n \in Nat /\ n - 1 \in Nat /\ s[n] \in S /\ t \in Seq(S) /\ Len(t) <= n - 1
   BY <1>0, <1>4
 <2>1. CASE n \notin I
  <3>1. I \cap (1 .. n) = I \cap (1 .. n - 1)  BY <2>0, <2>1
  <3>2. g[n] = t  BY <1>2, <2>1
  <3>3. Len(t) <= n  BY <2>0
  <3>4. \A V : Count(t, V) = Cardinality(Hits(s, V) \cap (I \cap (1 .. n)))
    BY <1>4, <3>1
  <3>5. Drawn(t, s, I \cap (1 .. n))
    BY <1>4, <3>1
  <3> HIDE DEF t
  <3>6. QED BY <2>0, <3>2, <3>3, <3>4, <3>5
 <2>2. CASE n \in I
  <3>1. I \cap (1 .. n) = (I \cap (1 .. n - 1)) \cup {n}  BY <2>0, <2>2
  <3>2. g[n] = Append(t, s[n])  BY <1>2, <2>2
  <3>3. Drawn(t, s, I \cap (1 .. n - 1))  BY <1>4
  <3>4. I \cap (1 .. n - 1) \subseteq 1 .. n - 1  OBVIOUS
  <3>5. Drawn(Append(t, s[n]), s, I \cap (1 .. n))  BY <2>0, <3>1, <3>3, <3>4, DrawnMore
  <3>6. ASSUME NEW V PROVE Count(Append(t, s[n]), V) = Cardinality(Hits(s, V) \cap (I \cap (1 .. n)))
   <4> DEFINE old == Hits(s, V) \cap (I \cap (1 .. n - 1))
   <4>1. Count(t, V) = Cardinality(old)  BY <1>4
   <4>2. Count(Append(t, s[n]), V) = Count(t, V) + (IF s[n] \in V THEN 1 ELSE 0)
     BY <2>0, CountAppend
   <4>3. n \in Hits(s, V) <=> s[n] \in V  BY <1>0 DEF Hits
   <4>4. IsFiniteSet(old) /\ n \notin old
     BY HitsFinite, <2>0, FS_Subset
   <4>5. CASE s[n] \in V
    <5>1. Hits(s, V) \cap (I \cap (1 .. n)) = old \cup {n}  BY <3>1, <4>3, <4>5
    <5>4. Cardinality(Hits(s, V) \cap (I \cap (1 .. n))) = Cardinality(old \cup {n})  BY Zenon, <5>1
    <5> HIDE DEF old
    <5>2. Cardinality(old \cup {n}) = Cardinality(old) + 1  BY <4>4, FS_AddElement
    <5>3. QED BY <4>1, <4>2, <4>5, <5>2, <5>4
   <4>6. CASE s[n] \notin V
    <5>1. Hits(s, V) \cap (I \cap (1 .. n)) = old  BY <3>1, <4>3, <4>6
    <5>2. Count(t, V) \in Nat  BY <2>0, HitsFinite
    <5>3. Cardinality(Hits(s, V) \cap (I \cap (1 .. n))) = Cardinality(old)  BY Zenon, <5>1
    <5> HIDE DEF old
    <5>4. QED BY <4>1, <4>2, <4>6, <5>2, <5>3
   <4>7. QED BY <4>5, <4>6
  <3>7. Append(t, s[n]) \in Seq(S) /\ Len(Append(t, s[n])) <= n
    BY <2>0
  <3> HIDE DEF t
  <3>8. QED BY <3>2, <3>5, <3>6, <3>7
 <2>3. QED BY <2>1, <2>2
<1>5. 0 \in F  BY <1>2, <1>3
<1>6. \A n \in 1 .. Len(s) : n - 1 \in F => n \in F
 <2> HIDE DEF Good
 <2>1. QED BY <1>4
<1>7. Len(s) \in F
 <2> HIDE DEF F
 <2>1. 0 .. Len(s) \subseteq F  BY <1>0, <1>5, <1>6, UpTo
 <2>2. QED BY <1>0, <2>1
<1>8. Good(Select(s, I), Len(s))
  BY <1>1, <1>7
<1>9. \A V : Hits(s, V) \cap (I \cap (1 .. Len(s))) = Hits(s, V) \cap I
  BY <1>0 DEF Hits
<1>10. QED BY <1>0, <1>8, <1>9

LEMMA SelectAll ==
  ASSUME NEW S, NEW s \in Seq(S)
  PROVE  Select(s, DOMAIN s) = s
<1>0. Len(s) \in Nat /\ DOMAIN s = 1 .. Len(s)
  OBVIOUS
<1>1. PICK g : Selects(s, DOMAIN s, Len(s), g) /\ Select(s, DOMAIN s) = g[Len(s)]
  BY <1>0, SelectsSteps
<1>2. g[0] = <<>> /\ \A i \in 1 .. Len(s) : g[i] = Append(g[i - 1], s[i])
  BY Zenon, <1>0, <1>1 DEF Selects
<1> DEFINE F == {n \in 0 .. Len(s) : g[n] = SubSeq(s, 1, n)}
<1>3. 0 \in F
 <2>1. SubSeq(s, 1, 0) = <<>>  BY SubSeqEmpty
 <2>2. g[0] = SubSeq(s, 1, 0) /\ 0 \in 0 .. Len(s)
   BY <1>0, <1>2, <2>1
 <2>3. QED BY Zenon, <2>2
<1>4. ASSUME NEW n \in 1 .. Len(s), n - 1 \in F PROVE n \in F
 <2>1. g[n] = Append(SubSeq(s, 1, n - 1), s[n])  BY <1>2, <1>4
 <2>2. SubSeq(s, 1, n) = Append(SubSeq(s, 1, n - 1), s[n])
   BY <1>0, SeqEqual
 <2>3. n \in 0 .. Len(s)  BY <1>0
 <2>4. g[n] = SubSeq(s, 1, n)  BY Zenon, <2>1, <2>2
 <2>5. QED BY Zenon, <2>3, <2>4
<1>5. Len(s) \in F
 <2> HIDE DEF F
 <2>1. 0 .. Len(s) \subseteq F  BY <1>0, <1>3, <1>4, UpTo
 <2>2. QED BY <1>0, <2>1
<1>6. g[Len(s)] = SubSeq(s, 1, Len(s))  BY <1>5
<1>7. QED BY <1>1, <1>6, SubSeqFull

(* What is selected and what is not are all of it. *)
LEMMA SelectRest ==
  ASSUME NEW S, NEW s \in Seq(S), NEW I, NEW V
  PROVE  Count(Select(s, I), V) + Count(Select(s, DOMAIN s \ I), V) = Count(s, V)
<1> DEFINE a == Hits(s, V) \cap I
           b == Hits(s, V) \cap (DOMAIN s \ I)
<1>1. IsFiniteSet(Hits(s, V)) /\ Count(s, V) = Cardinality(Hits(s, V))
  BY HitsFinite DEF Count
<1>2. a \cap b = {} /\ a \cup b = Hits(s, V) /\ a \in SUBSET Hits(s, V) /\ b \in SUBSET Hits(s, V)
  BY DEF Hits
<1>3. Count(Select(s, I), V) = Cardinality(a) /\ Count(Select(s, DOMAIN s \ I), V) = Cardinality(b)
  BY SelectIs
<1> HIDE DEF a, b
<1>4. IsFiniteSet(a) /\ IsFiniteSet(b) /\ Cardinality(a) \in Nat /\ Cardinality(b) \in Nat
  BY <1>1, <1>2, FS_Subset, FS_CardinalityType
<1>5. Cardinality(a \cup b) = Cardinality(a) + Cardinality(b) - Cardinality(a \cap b)
  BY <1>4, FS_Union
<1>6. Cardinality(a \cap b) = 0  BY <1>2, FS_EmptySet
<1>7. Count(s, V) = Cardinality(a \cup b)  BY Zenon, <1>1, <1>2
<1>8. QED BY <1>3, <1>4, <1>5, <1>6, <1>7

(* Every selected entry is one of the sequence's, at a selected position. *)
LEMMA SelectFrom ==
  ASSUME NEW S, NEW s \in Seq(S), NEW I, NEW k \in DOMAIN Select(s, I)
  PROVE  \E i \in I \cap DOMAIN s : Select(s, I)[k] = s[i]
<1>1. Select(s, I) \in Seq(S) /\ Drawn(Select(s, I), s, I \cap DOMAIN s)
  BY SelectIs
<1>2. PICK m \in [1 .. Len(Select(s, I)) -> I \cap DOMAIN s] : \A j \in 1 .. Len(Select(s, I)) : Select(s, I)[j] = s[m[j]]
  BY <1>1 DEF Drawn
<1>3. k \in 1 .. Len(Select(s, I))  BY <1>1
<1>4. QED BY <1>2, <1>3

LEMMA CountExcept ==
  ASSUME NEW S, NEW s \in Seq(S), NEW k \in DOMAIN s, NEW x \in S, NEW V
  PROVE  /\ [s EXCEPT ![k] = x] \in Seq(S) /\ Len([s EXCEPT ![k] = x]) = Len(s)
         /\ Count([s EXCEPT ![k] = x], V) + (IF s[k] \in V THEN 1 ELSE 0) = Count(s, V) + (IF x \in V THEN 1 ELSE 0)
<1> DEFINE t == [s EXCEPT ![k] = x]
           rest == Hits(s, V) \ {k}
<1>1. t \in Seq(S) /\ Len(t) = Len(s) /\ DOMAIN t = DOMAIN s /\ t[k] = x /\ \A i \in DOMAIN s : i # k => t[i] = s[i]
  OBVIOUS
<1>2. Hits(s, V) = (IF s[k] \in V THEN rest \cup {k} ELSE rest)
  BY DEF Hits
<1> HIDE DEF t
<1>3. Hits(t, V) = (IF x \in V THEN rest \cup {k} ELSE rest)
  BY <1>1 DEF Hits
<1>4. IsFiniteSet(rest) /\ Cardinality(rest) \in Nat /\ k \notin rest
  BY HitsFinite, FS_Subset, FS_CardinalityType DEF rest
<1> HIDE DEF rest
<1>5. Cardinality(rest \cup {k}) = Cardinality(rest) + 1  BY <1>4, FS_AddElement
<1>6. Count(s, V) = Cardinality(rest) + (IF s[k] \in V THEN 1 ELSE 0)
  BY <1>2, <1>4, <1>5 DEF Count
<1>7. Count(t, V) = Cardinality(rest) + (IF x \in V THEN 1 ELSE 0)
  BY <1>3, <1>4, <1>5 DEF Count
<1>8. QED BY <1>1, <1>4, <1>6, <1>7 DEF t

-----------------------------------------------------------------------------
Entry(X) == [of : X, tries : Nat, limited : Nat, park : {"no", "backoff", "server"}]

(* What an event entry may hold: one event, or denials of one key. *)
OneKey(X) == \A d, e \in X : FoldKey[d] = FoldKey[e]
Ids == {X \in SUBSET EventIds : X # {} /\ ((\E e \in EventIds : X = {e}) \/ X \subseteq Denied) /\ (X \subseteq Denied => OneKey(X))}
Receipts == {X \in Ids : X \subseteq Denied}
EventEntry == Entry(Ids)

BookSet == [queue : Seq(EventEntry), folds : Seq(Receipts), terminal : BOOLEAN, drops : [EventIds -> Nat]]

Holding(e) == {p \in EventEntry : e \in p.of}
Folding(e) == {X \in Ids : e \in X}
Places(b, e) == Count(b.queue, Holding(e)) + b.drops[e] + Count(b.folds, Folding(e))

UniqueKeys(b) == \A i, j \in DOMAIN b.folds : i # j => KeyOf(b.folds[i]) # KeyOf(b.folds[j])

GoodBook(b) ==
  /\ b \in BookSet /\ UniqueKeys(b) /\ Len(b.folds) <= FoldLimit
  /\ b.terminal => b.folds = <<>>

LEMMA BookFields ==
  ASSUME NEW b \in BookSet
  PROVE  /\ b.queue \in Seq(EventEntry) /\ b.folds \in Seq(Receipts) /\ b.folds \in Seq(Ids) /\ b.terminal \in BOOLEAN
         /\ b.drops \in [EventIds -> Nat] /\ b = [queue |-> b.queue, folds |-> b.folds, terminal |-> b.terminal, drops |-> b.drops]
         /\ DOMAIN b = {"queue", "folds", "terminal", "drops"}
<1>1. b.folds \in Seq(Receipts)  BY DEF BookSet
<1>2. Receipts \subseteq Ids  BY DEF Receipts
<1>3. b.folds \in Seq(Ids)  BY <1>1, <1>2, SeqMonotonic
<1>4. QED BY <1>1, <1>3 DEF BookSet

LEMMA PlacesNat ==
  ASSUME NEW b \in BookSet, NEW e \in EventIds
  PROVE  Count(b.queue, Holding(e)) \in Nat /\ b.drops[e] \in Nat /\ Count(b.folds, Folding(e)) \in Nat /\ Places(b, e) \in Nat
<1>1. Count(b.queue, Holding(e)) \in Nat  BY BookFields, HitsFinite
<1>2. Count(b.folds, Folding(e)) \in Nat  BY BookFields, HitsFinite
<1>3. b.drops[e] \in Nat  BY BookFields
<1>4. QED BY <1>1, <1>2, <1>3 DEF Places

LEMMA KeyIs ==
  ASSUME NEW X \in Receipts, NEW d \in X
  PROVE  KeyOf(X) = FoldKey[d]
<1>1. (CHOOSE e \in X : TRUE) \in X  OBVIOUS
<1>2. OneKey(X)  BY DEF Receipts, Ids
<1>3. QED BY <1>1, <1>2 DEF KeyOf, OneKey

LEMMA CountedIs ==
  ASSUME NEW b \in BookSet, NEW X
  PROVE  /\ Counted(b, X) \in BookSet /\ Counted(b, X).queue = b.queue /\ Counted(b, X).folds = b.folds
         /\ Counted(b, X).terminal = b.terminal
         /\ \A e \in EventIds : Counted(b, X).drops[e] = b.drops[e] + (IF e \in X THEN 1 ELSE 0)
<1> DEFINE d == [e \in EventIds |-> b.drops[e] + (IF e \in X THEN 1 ELSE 0)]
           c == [b EXCEPT !.drops = d]
<1>1. d \in [EventIds -> Nat]  BY BookFields
<1>2. Counted(b, X) = c  BY DEF Counted
<1>3. \A e \in EventIds : d[e] = b.drops[e] + (IF e \in X THEN 1 ELSE 0)
  OBVIOUS
<1> HIDE DEF d
<1>4. c \in BookSet /\ c.queue = b.queue /\ c.folds = b.folds /\ c.terminal = b.terminal /\ c.drops = d
  BY <1>1 DEF BookSet
<1> HIDE DEF c
<1>5. QED BY <1>2, <1>3, <1>4

LEMMA CountedPlaces ==
  ASSUME NEW b, GoodBook(b), NEW X
  PROVE  /\ GoodBook(Counted(b, X))
         /\ \A e \in EventIds : Places(Counted(b, X), e) = Places(b, e) + (IF e \in X THEN 1 ELSE 0)
<1>0. b \in BookSet  BY DEF GoodBook
<1> DEFINE c == Counted(b, X)
<1>1. /\ c \in BookSet /\ c.queue = b.queue /\ c.folds = b.folds /\ c.terminal = b.terminal
      /\ \A e \in EventIds : c.drops[e] = b.drops[e] + (IF e \in X THEN 1 ELSE 0)
  BY <1>0, CountedIs
<1> HIDE DEF c
<1>2. GoodBook(c)  BY <1>1 DEF GoodBook, UniqueKeys
<1>3. ASSUME NEW e \in EventIds PROVE Places(c, e) = Places(b, e) + (IF e \in X THEN 1 ELSE 0)
  BY <1>1, <1>0, PlacesNat DEF Places
<1>4. QED BY <1>2, <1>3 DEF c

LEMMA DisposeIs ==
  ASSUME NEW b, GoodBook(b), NEW X \in Ids, NEW force \in BOOLEAN,
         \A e \in X : Count(b.folds, Folding(e)) = 0,
         NEW c, c = Dispose(b, X, force)
  PROVE  /\ GoodBook(c) /\ c.queue = b.queue /\ c.terminal = b.terminal
         /\ force => c.folds = b.folds
         /\ \A e \in EventIds : Places(c, e) = Places(b, e) + (IF e \in X THEN 1 ELSE 0)
<1>0. b \in BookSet /\ b.queue \in Seq(EventEntry) /\ b.folds \in Seq(Receipts) /\ b.folds \in Seq(Ids) /\ DOMAIN b.folds = 1 .. Len(b.folds)
  BY BookFields DEF GoodBook
<1> DEFINE same == {k \in DOMAIN b.folds : KeyOf(b.folds[k]) = KeyOf(X)}
<1>1. CASE c = Counted(b, X)
  BY <1>0, <1>1, CountedPlaces, CountedIs
<1>2. CASE /\ ~force /\ ~b.terminal /\ X \subseteq Denied /\ same # {}
           /\ c = [b EXCEPT !.folds[Min(same)] = @ \cup X]
 <2> DEFINE k == Min(same)
            Y == b.folds[k] \cup X
            f == [b.folds EXCEPT ![k] = Y]
 <2>1. same \subseteq Nat  BY <1>0
 <2>2. k \in same
   BY <1>2, <2>1, MinIs
 <2> HIDE DEF same
 <2>3. k \in DOMAIN b.folds /\ KeyOf(b.folds[k]) = KeyOf(X) /\ b.folds[k] \in Receipts /\ X \in Receipts
  <3>1. k \in {i \in DOMAIN b.folds : KeyOf(b.folds[i]) = KeyOf(X)}  BY Zenon, <2>2 DEF same
  <3> HIDE DEF k
  <3>2. k \in DOMAIN b.folds /\ KeyOf(b.folds[k]) = KeyOf(X)
    BY Zenon, <3>1
  <3>3. b.folds[k] \in Receipts  BY <1>0, <3>2
  <3>4. X \in Receipts  BY <1>2 DEF Receipts
  <3>5. QED BY Zenon, <3>2, <3>3, <3>4
 <2> HIDE DEF k
 <2>4. Y \in Receipts
   BY <2>3, KeyIs DEF OneKey, Receipts, Ids
 <2>5. KeyOf(Y) = KeyOf(X)
   BY <2>3, <2>4, KeyIs DEF Ids
 <2>6. c = [b EXCEPT !.folds = f]  BY <1>2 DEF k
 <2>7. f \in Seq(Receipts) /\ Len(f) = Len(b.folds) /\ DOMAIN f = DOMAIN b.folds /\ f[k] = Y
       /\ \A i \in DOMAIN f : i # k => f[i] = b.folds[i]
   BY <1>0, <2>3, <2>4
 <2>8. \A e \in EventIds : Count(f, Folding(e)) + (IF b.folds[k] \in Folding(e) THEN 1 ELSE 0) = Count(b.folds, Folding(e)) + (IF Y \in Folding(e) THEN 1 ELSE 0)
  <3>1. Y \in Ids /\ k \in DOMAIN b.folds /\ b.folds \in Seq(Ids)
    BY <1>0, <2>3, <2>4 DEF Receipts
  <3> HIDE DEF Y
  <3>2. ASSUME NEW e \in EventIds PROVE Count(f, Folding(e)) + (IF b.folds[k] \in Folding(e) THEN 1 ELSE 0) = Count(b.folds, Folding(e)) + (IF Y \in Folding(e) THEN 1 ELSE 0)
    BY <3>1, CountExcept
  <3>3. QED BY Zenon, <3>2
 <2> HIDE DEF f
 <2>9. c \in BookSet /\ c.queue = b.queue /\ c.folds = f /\ c.terminal = b.terminal /\ c.drops = b.drops
   BY <1>0, <2>6, <2>7 DEF BookSet
 <2>10. UniqueKeys(c)
  <3>1. \A i \in DOMAIN f : KeyOf(f[i]) = KeyOf(b.folds[i])
    BY <2>3, <2>5, <2>7
  <3>2. QED BY <2>7, <2>9, <3>1 DEF UniqueKeys, GoodBook
 <2>11. GoodBook(c)  BY <1>2, <2>7, <2>9, <2>10 DEF GoodBook
 <2>12. ASSUME NEW e \in EventIds PROVE Count(f, Folding(e)) = Count(b.folds, Folding(e)) + (IF e \in X THEN 1 ELSE 0)
  <3>1. Y \in Folding(e) <=> (e \in X \/ b.folds[k] \in Folding(e))
    BY <2>3, <2>4 DEF Folding, Receipts
  <3>2. e \in X => b.folds[k] \notin Folding(e)
    BY <1>0, <2>3, CountNone
  <3>3. Count(f, Folding(e)) \in Nat /\ Count(b.folds, Folding(e)) \in Nat
    BY <1>0, <2>7, HitsFinite
  <3>4. QED BY <2>8, <3>1, <3>2, <3>3
 <2>13. ASSUME NEW e \in EventIds PROVE Places(c, e) = Places(b, e) + (IF e \in X THEN 1 ELSE 0)
   BY <1>0, <2>9, <2>12, PlacesNat DEF Places
 <2>14. QED BY <1>2, <2>9, <2>11, <2>13
<1>3. CASE /\ ~force /\ ~b.terminal /\ X \subseteq Denied /\ same = {} /\ Len(b.folds) < FoldLimit
           /\ c = [b EXCEPT !.folds = Append(@, X)]
 <2> DEFINE f == Append(b.folds, X)
 <2>1. X \in Receipts  BY <1>3 DEF Receipts
 <2>2. f \in Seq(Receipts) /\ Len(f) = Len(b.folds) + 1 /\ DOMAIN f = 1 .. Len(b.folds) + 1 /\ f[Len(b.folds) + 1] = X
       /\ \A i \in DOMAIN b.folds : f[i] = b.folds[i]
   BY <1>0, <2>1
 <2>3. \A e \in EventIds : Count(f, Folding(e)) = Count(b.folds, Folding(e)) + (IF X \in Folding(e) THEN 1 ELSE 0)
   BY <1>0, <2>1, CountAppend
 <2>4. c = [b EXCEPT !.folds = f]  BY <1>3
 <2> HIDE DEF f
 <2>5. c \in BookSet /\ c.queue = b.queue /\ c.folds = f /\ c.terminal = b.terminal /\ c.drops = b.drops
   BY <1>0, <2>2, <2>4 DEF BookSet
 <2>6. UniqueKeys(c)
   BY <1>3, <2>2, <1>0, <2>5 DEF UniqueKeys, GoodBook
 <2>7. GoodBook(c)
   BY <1>0, ReporterAssumption, <1>3, <2>2, <2>5, <2>6 DEF GoodBook
 <2>8. ASSUME NEW e \in EventIds PROVE Places(c, e) = Places(b, e) + (IF e \in X THEN 1 ELSE 0)
  <3>1. X \in Folding(e) <=> e \in X  BY DEF Folding
  <3>2. QED BY <1>0, <2>3, <2>5, <3>1, PlacesNat DEF Places
 <2>9. QED BY <1>3, <2>5, <2>7, <2>8
<1>4. QED BY <1>1, <1>2, <1>3 DEF Dispose

LEMMA SubSeqNext ==
  ASSUME NEW S, NEW s \in Seq(S), NEW n \in 1 .. Len(s)
  PROVE  /\ SubSeq(s, 1, n) = Append(SubSeq(s, 1, n - 1), s[n]) /\ s[n] \in S
         /\ SubSeq(s, 1, n) \in Seq(S) /\ SubSeq(s, 1, n - 1) \in Seq(S)
<1> DEFINE a == SubSeq(s, 1, n)
           b == SubSeq(s, 1, n - 1)
<1>1. a \in Seq(S) /\ Len(a) = n /\ \A i \in 1 .. n : a[i] = s[i]
  OBVIOUS
<1>2. b \in Seq(S) /\ Len(b) = n - 1 /\ \A i \in 1 .. n - 1 : b[i] = s[i]
  OBVIOUS
<1>3. s[n] \in S  OBVIOUS
<1> HIDE DEF a, b
<1>4. Append(b, s[n]) \in Seq(S) /\ Len(Append(b, s[n])) = n /\ \A i \in 1 .. n : Append(b, s[n])[i] = s[i]
  BY <1>2, <1>3
<1>5. a = Append(b, s[n])  BY <1>1, <1>4, SeqEqual
<1>6. QED BY <1>1, <1>2, <1>3, <1>5 DEF a, b

(* How the count of a sequence grows from prefix to prefix. *)
LEMMA CountUpTo ==
  ASSUME NEW S, NEW s \in Seq(S), NEW n \in 1 .. Len(s), NEW V
  PROVE  /\ Count(SubSeq(s, 1, n), V) = Count(SubSeq(s, 1, n - 1), V) + (IF s[n] \in V THEN 1 ELSE 0)
         /\ Count(SubSeq(s, 1, n), V) <= Count(s, V)
         /\ Count(SubSeq(s, 1, n - 1), V) \in Nat /\ Count(SubSeq(s, 1, n), V) \in Nat
<1>1. /\ SubSeq(s, 1, n) = Append(SubSeq(s, 1, n - 1), s[n]) /\ s[n] \in S
      /\ SubSeq(s, 1, n) \in Seq(S) /\ SubSeq(s, 1, n - 1) \in Seq(S)
  BY SubSeqNext
<1> DEFINE a == SubSeq(s, 1, n)
           b == SubSeq(s, 1, n - 1)
           r == SubSeq(s, n + 1, Len(s))
<1>2. n \in 0 .. Len(s)  OBVIOUS
<1>3. r \in Seq(S) /\ Count(a, V) + Count(r, V) = Count(s, V)
  BY <1>2, CountSplit
<1> HIDE DEF a, b, r
<1>4. a = Append(b, s[n]) /\ a \in Seq(S) /\ b \in Seq(S)
  BY <1>1 DEF a, b
<1>5. Count(Append(b, s[n]), V) = Count(b, V) + (IF s[n] \in V THEN 1 ELSE 0)
  BY <1>1, <1>4, CountAppend
<1>6. Count(a, V) \in Nat /\ Count(b, V) \in Nat /\ Count(r, V) \in Nat /\ Count(s, V) \in Nat
  BY <1>3, <1>4, HitsFinite
<1>7. Count(a, V) = Count(b, V) + (IF s[n] \in V THEN 1 ELSE 0) /\ Count(a, V) <= Count(s, V)
  BY <1>3, <1>4, <1>5, <1>6
<1>8. QED BY Zenon, <1>6, <1>7 DEF a, b

LEMMA DisposeAllIs ==
  ASSUME NEW b, GoodBook(b), NEW entries \in Seq(EventEntry), NEW force \in BOOLEAN,
         \A e \in EventIds : Places(b, e) + Count(entries, Holding(e)) <= 1,
         NEW c, c = DisposeAll(b, entries, force)
  PROVE  /\ GoodBook(c) /\ c.queue = b.queue /\ c.terminal = b.terminal
         /\ force => c.folds = b.folds
         /\ \A e \in EventIds : Places(c, e) = Places(b, e) + Count(entries, Holding(e))
<1>0. Len(entries) \in Nat /\ DOMAIN entries = 1 .. Len(entries)
  OBVIOUS
<1>1. PICK g : Disposes(b, entries, force, Len(entries), g) /\ DisposeAll(b, entries, force) = g[Len(entries)]
  BY <1>0, DisposesSteps
<1>2. g[0] = b /\ \A i \in 1 .. Len(entries) : g[i] = Dispose(g[i - 1], entries[i].of, force)
  BY Zenon, <1>1 DEF Disposes
<1> DEFINE Done(d, n) ==
      /\ GoodBook(d) /\ d.queue = b.queue /\ d.terminal = b.terminal /\ (force => d.folds = b.folds)
      /\ \A e \in EventIds : Places(d, e) = Places(b, e) + Count(SubSeq(entries, 1, n), Holding(e))
    F == {n \in 0 .. Len(entries) : Done(g[n], n)}
<1>3. 0 \in F
 <2>1. ASSUME NEW e \in EventIds PROVE Places(b, e) = Places(b, e) + Count(SubSeq(entries, 1, 0), Holding(e))
  <3>1. SubSeq(entries, 1, 0) = <<>>  BY SubSeqEmpty
  <3>2. Count(SubSeq(entries, 1, 0), Holding(e)) = 0  BY <3>1, CountEmpty
  <3>3. Places(b, e) \in Nat  BY PlacesNat DEF GoodBook
  <3>4. QED BY <3>2, <3>3
 <2>2. Done(b, 0)  BY <2>1
 <2> HIDE DEF Done
 <2>3. QED BY <1>0, <1>2, <2>2
<1>4. ASSUME NEW n \in 1 .. Len(entries), n - 1 \in F PROVE n \in F
 <2> DEFINE d == g[n - 1]
            X == entries[n].of
 <2>1. Done(d, n - 1)  BY <1>4
 <2>2. g[n] = Dispose(d, X, force)  BY <1>2, <1>4
 <2> HIDE DEF d
 <2>3. entries[n] \in EventEntry /\ X \in Ids
  <3>1. entries[n] \in EventEntry  OBVIOUS
  <3>2. QED BY <3>1 DEF EventEntry, Entry
 <2>4. \A e \in EventIds : entries[n] \in Holding(e) <=> e \in X
   BY <2>3 DEF Holding
 <2>5. d \in BookSet  BY <2>1 DEF GoodBook
 <2> DEFINE a == [e \in EventIds |-> Count(SubSeq(entries, 1, n), Holding(e))]
            z == [e \in EventIds |-> Count(SubSeq(entries, 1, n - 1), Holding(e))]
 <2>6. \A e \in EventIds : /\ a[e] = z[e] + (IF e \in X THEN 1 ELSE 0) /\ a[e] \in Nat /\ z[e] \in Nat
                           /\ Places(b, e) + a[e] <= 1 /\ Places(b, e) \in Nat /\ Places(d, e) = Places(b, e) + z[e]
  <3>1. SUFFICES ASSUME NEW e \in EventIds
                 PROVE  /\ a[e] = z[e] + (IF e \in X THEN 1 ELSE 0) /\ a[e] \in Nat /\ z[e] \in Nat
                        /\ Places(b, e) + a[e] <= 1 /\ Places(b, e) \in Nat /\ Places(d, e) = Places(b, e) + z[e]
    OBVIOUS
  <3>2. Places(b, e) \in Nat  BY PlacesNat DEF GoodBook
  <3>3. Count(entries, Holding(e)) \in Nat  BY HitsFinite
  <3>4. Places(b, e) + Count(entries, Holding(e)) <= 1  OBVIOUS
  <3>5. /\ a[e] = z[e] + (IF entries[n] \in Holding(e) THEN 1 ELSE 0) /\ a[e] <= Count(entries, Holding(e)) /\ a[e] \in Nat /\ z[e] \in Nat
    BY CountUpTo
  <3>6. Places(d, e) = Places(b, e) + z[e]  BY <2>1
  <3> HIDE DEF a, z, X
  <3>7. QED BY <2>4, <3>2, <3>3, <3>4, <3>5, <3>6
 <2>7. \A e \in X : e \in EventIds /\ Count(d.folds, Folding(e)) = 0
  <3>1. SUFFICES ASSUME NEW e \in X PROVE e \in EventIds /\ Count(d.folds, Folding(e)) = 0
    OBVIOUS
  <3>2. e \in EventIds  BY <2>3 DEF Ids
  <3>3. Places(d, e) = 0  BY <2>6, <3>1, <3>2
  <3>4. QED BY <2>5, <3>2, <3>3, PlacesNat DEF Places
 <2> HIDE DEF a, z, X
 <2>8. /\ GoodBook(g[n]) /\ g[n].queue = d.queue /\ g[n].terminal = d.terminal /\ (force => g[n].folds = d.folds)
       /\ \A e \in EventIds : Places(g[n], e) = Places(d, e) + (IF e \in X THEN 1 ELSE 0)
   BY <2>1, <2>2, <2>3, <2>7, DisposeIs
 <2>9. \A e \in EventIds : Places(g[n], e) = Places(b, e) + a[e]
   BY <2>6, <2>8
 <2>10. Done(g[n], n)  BY <2>1, <2>8, <2>9 DEF a
 <2>11. n \in 0 .. Len(entries)  OBVIOUS
 <2> HIDE DEF Done
 <2>12. QED BY <2>10, <2>11
<1>5. Done(g[Len(entries)], Len(entries))
 <2> HIDE DEF F
 <2>1. 0 .. Len(entries) \subseteq F  BY <1>0, <1>3, <1>4, UpTo
 <2>2. Len(entries) \in F  BY <1>0, <2>1
 <2> HIDE DEF Done
 <2>3. QED BY <2>2 DEF F
<1>6. SubSeq(entries, 1, Len(entries)) = entries  BY SubSeqFull
<1>7. QED
  BY <1>1, <1>5, <1>6

(* The order of a line, by what its entries are about. *)
Rising(s, R) == \A i, j \in DOMAIN s : i < j => <<s[i].of, s[j].of>> \in R
Below(s, t, R) == \A i \in DOMAIN s, j \in DOMAIN t : <<s[i].of, t[j].of>> \in R
Under(s, X, R) == \A i \in DOMAIN s : <<s[i].of, X>> \in R

Plain == Events \ Denied
EventOrder == {r \in Ids \X Ids : r[1] \subseteq Plain /\ r[2] \subseteq Plain => Min(r[1]) < Min(r[2])}

LEMMA PendingIs ==
  ASSUME NEW S, NEW X \in S
  PROVE  Pending(X) \in Entry(S) /\ Pending(X).of = X
BY DEF Pending, Entry

LEMMA HoldingIs ==
  ASSUME NEW p \in EventEntry, NEW e
  PROVE  (p \in Holding(e) <=> e \in p.of) /\ p.of \in Ids
<1>1. p.of \in Ids  BY DEF EventEntry, Entry
<1>2. QED BY <1>1 DEF Holding

LEMMA PushEventIs ==
  ASSUME NEW b, GoodBook(b), NEW X \in Ids, NEW bypass \in BOOLEAN,
         \A e \in EventIds : Places(b, e) <= 1,
         NEW c, c = PushEvent(b, X, bypass)
  PROVE  /\ GoodBook(c) /\ c.terminal = b.terminal /\ (bypass => c.folds = b.folds)
         /\ \A e \in EventIds : Places(c, e) = Places(b, e) + (IF e \in X THEN 1 ELSE 0)
         /\ \/ c.queue = Append(b.queue, Pending(X))
            \/ ~bypass /\ b.queue # <<>> /\ c.queue = Append(Tail(b.queue), Pending(X))
         /\ ~bypass /\ Len(b.queue) <= MaxQueueSize => Len(c.queue) <= MaxQueueSize
<1>0. b \in BookSet /\ b.queue \in Seq(EventEntry) /\ Len(b.queue) \in Nat /\ MaxQueueSize \in Nat \ {0} /\ b.folds \in Seq(Ids)
  BY BookFields, ReporterAssumption DEF GoodBook
<1> DEFINE P == Pending(X)
<1>1. P \in EventEntry /\ P.of = X /\ \A e \in EventIds : P \in Holding(e) <=> e \in X
  BY PendingIs, HoldingIs DEF EventEntry
<1> HIDE DEF P
<1>p. ASSUME NEW q \in Seq(EventEntry), NEW d, d = [b EXCEPT !.queue = q]
      PROVE  /\ GoodBook(d) /\ d.queue = q /\ d.folds = b.folds /\ d.terminal = b.terminal
             /\ \A e \in EventIds : Places(d, e) + Count(b.queue, Holding(e)) = Places(b, e) + Count(q, Holding(e))
 <2>1. d \in BookSet /\ d.queue = q /\ d.folds = b.folds /\ d.terminal = b.terminal /\ d.drops = b.drops
   BY <1>0, <1>p DEF BookSet
 <2>2. GoodBook(d)  BY <2>1 DEF GoodBook, UniqueKeys
 <2>3. ASSUME NEW e \in EventIds PROVE Places(d, e) + Count(b.queue, Holding(e)) = Places(b, e) + Count(q, Holding(e))
  <3>1. Count(q, Holding(e)) \in Nat  BY HitsFinite
  <3>2. Places(d, e) = Count(q, Holding(e)) + b.drops[e] + Count(b.folds, Folding(e))
    BY Zenon, <2>1 DEF Places
  <3>3. QED BY <1>0, <3>1, <3>2, PlacesNat DEF Places
 <2>4. QED BY <2>1, <2>2, <2>3
<1>2. CASE bypass \/ Len(b.queue) < MaxQueueSize
 <2> DEFINE q == Append(b.queue, P)
 <2>1. c = [b EXCEPT !.queue = q]  BY <1>2 DEF PushEvent, P
 <2>2. q \in Seq(EventEntry) /\ Len(q) = Len(b.queue) + 1
   BY <1>0, <1>1
 <2>3. \A e \in EventIds : Count(q, Holding(e)) = Count(b.queue, Holding(e)) + (IF e \in X THEN 1 ELSE 0)
   BY <1>0, <1>1, CountAppend
 <2> HIDE DEF q
 <2>4. /\ GoodBook(c) /\ c.queue = q /\ c.folds = b.folds /\ c.terminal = b.terminal
       /\ \A e \in EventIds : Places(c, e) + Count(b.queue, Holding(e)) = Places(b, e) + Count(q, Holding(e))
   BY <1>p, <2>1, <2>2
 <2>5. ASSUME NEW e \in EventIds PROVE Places(c, e) = Places(b, e) + (IF e \in X THEN 1 ELSE 0)
   BY <1>0, <2>4, PlacesNat, <2>3 DEF GoodBook
 <2>6. c.queue = Append(b.queue, P)  BY <2>4 DEF q
 <2>7. ~bypass => Len(c.queue) <= MaxQueueSize  BY <1>0, <1>2, <2>2, <2>4
 <2>8. QED BY <2>4, <2>5, <2>6, <2>7 DEF P
<1>3. CASE ~(bypass \/ Len(b.queue) < MaxQueueSize)
 <2> DEFINE t == Tail(b.queue)
            h == Head(b.queue)
            q == Append(t, P)
            d == [b EXCEPT !.queue = q]
 <2>1. c = Dispose(d, h.of, FALSE)  BY <1>3 DEF PushEvent, P
 <2>2. b.queue # <<>>  BY <1>0, <1>3
 <2>3. h \in EventEntry /\ t \in Seq(EventEntry) /\ Len(t) = Len(b.queue) - 1
   BY <1>0, <2>2, CountTail
 <2>4. \A e \in EventIds : Count(b.queue, Holding(e)) = Count(t, Holding(e)) + (IF h \in Holding(e) THEN 1 ELSE 0)
  <3>1. ASSUME NEW e \in EventIds PROVE Count(b.queue, Holding(e)) = Count(t, Holding(e)) + (IF h \in Holding(e) THEN 1 ELSE 0)
   <4> DEFINE W == Holding(e)
              Q == b.queue
   <4>1. Q \in Seq(EventEntry) /\ Q # <<>>
     BY <1>0, <2>2
   <4> HIDE DEF W, Q
   <4>2. Count(Q, W) = Count(Tail(Q), W) + (IF Head(Q) \in W THEN 1 ELSE 0)
     BY <4>1, CountHead
   <4>3. QED BY Zenon, <4>2 DEF W, Q
  <3>2. QED BY <3>1
 <2> HIDE DEF t, h
 <2>5. q \in Seq(EventEntry) /\ Len(q) = Len(t) + 1
   BY <1>1, <2>3
 <2>6. \A e \in EventIds : Count(q, Holding(e)) = Count(t, Holding(e)) + (IF e \in X THEN 1 ELSE 0)
   BY <1>1, <2>3, CountAppend
 <2>q. q = Append(Tail(b.queue), P)  BY DEF t
 <2> HIDE DEF q
 <2>7. /\ GoodBook(d) /\ d.queue = q /\ d.folds = b.folds /\ d.terminal = b.terminal
       /\ \A e \in EventIds : Places(d, e) + Count(b.queue, Holding(e)) = Places(b, e) + Count(q, Holding(e))
   BY <1>p, <2>5 DEF d
 <2> HIDE DEF d
 <2>8. h.of \in Ids /\ \A e \in EventIds : h \in Holding(e) <=> e \in h.of
   BY <2>3, HoldingIs
 <2>9. \A e \in h.of : e \in EventIds /\ Count(d.folds, Folding(e)) = 0
  <3>1. SUFFICES ASSUME NEW e \in h.of PROVE e \in EventIds /\ Count(d.folds, Folding(e)) = 0
    OBVIOUS
  <3>2. e \in EventIds /\ h \in Holding(e)
    BY <2>8 DEF Ids
  <3>3. Count(t, Holding(e)) \in Nat /\ Count(b.queue, Holding(e)) \in Nat /\ b.drops[e] \in Nat /\ Count(b.folds, Folding(e)) \in Nat
    BY <1>0, <2>3, <3>2, PlacesNat, HitsFinite
  <3>4. Count(b.queue, Holding(e)) >= 1  BY <2>4, <3>2, <3>3
  <3>5. Count(b.folds, Folding(e)) = 0  BY <3>2, <3>3, <3>4 DEF Places
  <3>6. QED BY <2>7, <3>2, <3>5
 <2>10. /\ GoodBook(c) /\ c.queue = d.queue /\ c.terminal = d.terminal
        /\ \A e \in EventIds : Places(c, e) = Places(d, e) + (IF e \in h.of THEN 1 ELSE 0)
  <3> DEFINE H == h.of
  <3>1. H \in Ids /\ GoodBook(d) /\ \A e \in H : Count(d.folds, Folding(e)) = 0
    BY <2>7, <2>8, <2>9
  <3>2. c = Dispose(d, H, FALSE)  BY <2>1
  <3> HIDE DEF H
  <3>3. /\ GoodBook(c) /\ c.queue = d.queue /\ c.terminal = d.terminal
        /\ \A e \in EventIds : Places(c, e) = Places(d, e) + (IF e \in H THEN 1 ELSE 0)
   <4> DEFINE ff == FALSE
   <4>1. ff \in BOOLEAN  OBVIOUS
   <4>2. c = Dispose(d, H, ff)  BY <3>2
   <4> HIDE DEF ff
   <4>3. QED BY <3>1, <4>1, <4>2, DisposeIs
  <3>4. QED BY <3>3 DEF H
 <2>11. ASSUME NEW e \in EventIds PROVE Places(c, e) = Places(b, e) + (IF e \in X THEN 1 ELSE 0)
  <3>1. Places(c, e) \in Nat /\ Places(d, e) \in Nat /\ Places(b, e) \in Nat /\ Count(b.queue, Holding(e)) \in Nat
    BY <1>0, <2>7, <2>10, PlacesNat DEF GoodBook
  <3>2. Count(t, Holding(e)) \in Nat /\ Count(q, Holding(e)) \in Nat
    BY <2>3, <2>5, HitsFinite
  <3>3. QED BY <2>4, <2>6, <2>7, <2>8, <2>10, <3>1, <3>2
 <2>12. c.queue = Append(Tail(b.queue), P)  BY Zenon, <2>7, <2>10, <2>q
 <2>13. Len(b.queue) <= MaxQueueSize => Len(c.queue) <= MaxQueueSize
   BY <1>0, <2>3, <2>5, <2>7, <2>10
 <2>14. QED BY <1>3, <2>2, <2>7, <2>10, <2>11, <2>12, <2>13 DEF P
<1>4. QED BY <1>2, <1>3

From(t, s) == \A k \in DOMAIN t : \E i \in DOMAIN s : t[k].of = s[i].of
PlainFrom(t, s) == \A k \in DOMAIN t : t[k].of \subseteq Plain => \E i \in DOMAIN s : t[k].of = s[i].of

LEMMA RisingAppend ==
  ASSUME NEW S, NEW s \in Seq(S), NEW x \in S, NEW R, Rising(s, R), Under(s, x.of, R)
  PROVE  Rising(Append(s, x), R)
<1> DEFINE t == Append(s, x)
           N == Len(s)
<1>1. N \in Nat /\ DOMAIN s = 1 .. N /\ DOMAIN t = 1 .. N + 1 /\ t[N + 1] = x /\ \A i \in 1 .. N : t[i] = s[i]
  OBVIOUS
<1> HIDE DEF t, N
<1>2. ASSUME NEW i \in DOMAIN t, NEW j \in DOMAIN t, i < j PROVE <<t[i].of, t[j].of>> \in R
 <2>1. i \in 1 .. N /\ t[i] = s[i]
   BY <1>1, <1>2
 <2>2. CASE j = N + 1
   BY <1>1, <2>1, <2>2 DEF Under
 <2>3. CASE j # N + 1
   BY <1>1, <2>3, <1>2, <2>1 DEF Rising
 <2>4. QED BY <2>2, <2>3
<1>3. QED BY <1>2 DEF Rising, t

LEMMA RisingTail ==
  ASSUME NEW S, NEW s \in Seq(S), s # <<>>, NEW R
  PROVE  /\ Rising(s, R) => Rising(Tail(s), R)
         /\ From(Tail(s), s)
<1>1. /\ Len(s) \in Nat /\ DOMAIN s = 1 .. Len(s) /\ DOMAIN Tail(s) = 1 .. Len(s) - 1
      /\ \A i \in DOMAIN Tail(s) : i + 1 \in DOMAIN s /\ Tail(s)[i] = s[i + 1]
  OBVIOUS
<1> DEFINE t == Tail(s)
<1> HIDE DEF t
<1>2. \A i \in DOMAIN t : i \in Nat /\ i + 1 \in DOMAIN s /\ t[i] = s[i + 1]
  BY <1>1 DEF t
<1>3. Rising(s, R) => Rising(t, R)  BY <1>2 DEF Rising
<1>4. From(t, s)  BY <1>2 DEF From
<1>5. QED BY <1>3, <1>4 DEF t

LEMMA FromAppend ==
  ASSUME NEW S, NEW s \in Seq(S), NEW t \in Seq(S), NEW x \in S, PlainFrom(t, s), ~(x.of \subseteq Plain)
  PROVE  PlainFrom(Append(t, x), s)
<1> DEFINE u == Append(t, x)
           N == Len(t)
<1>1. N \in Nat /\ DOMAIN t = 1 .. N /\ DOMAIN u = 1 .. N + 1 /\ u[N + 1] = x /\ \A i \in 1 .. N : u[i] = t[i]
  OBVIOUS
<1> HIDE DEF u, N
<1>2. ASSUME NEW k \in DOMAIN u, u[k].of \subseteq Plain PROVE \E i \in DOMAIN s : u[k].of = s[i].of
  BY <1>1, <1>2 DEF PlainFrom
<1>3. QED BY <1>2 DEF PlainFrom, u

(* An entry that is no plain event has no rank. *)
LEMMA CalmUnder ==
  ASSUME NEW q \in Seq(EventEntry), NEW X \in Ids, ~(X \subseteq Plain)
  PROVE  Under(q, X, EventOrder)
<1>1. ASSUME NEW i \in DOMAIN q PROVE <<q[i].of, X>> \in EventOrder
 <2>1. q[i] \in EventEntry  OBVIOUS
 <2>2. q[i].of \in Ids  BY <2>1 DEF EventEntry, Entry
 <2>3. QED BY <2>2 DEF EventOrder
<1>2. QED BY <1>1 DEF Under

LEMMA PushOrder ==
  ASSUME NEW q \in Seq(EventEntry), NEW X \in Ids, ~(X \subseteq Plain), NEW r,
         \/ r = Append(q, Pending(X))
         \/ q # <<>> /\ r = Append(Tail(q), Pending(X))
  PROVE  r \in Seq(EventEntry) /\ PlainFrom(r, q) /\ (Rising(q, EventOrder) => Rising(r, EventOrder))
<1> DEFINE P == Pending(X)
<1>1. P \in EventEntry /\ P.of = X
  BY PendingIs DEF EventEntry
<1> HIDE DEF P
<1>2. ASSUME NEW t \in Seq(EventEntry), From(t, q), Rising(q, EventOrder) => Rising(t, EventOrder), r = Append(t, P)
      PROVE  r \in Seq(EventEntry) /\ PlainFrom(r, q) /\ (Rising(q, EventOrder) => Rising(r, EventOrder))
  BY <1>1, <1>2, FromAppend, CalmUnder, RisingAppend DEF From, PlainFrom
<1>3. CASE r = Append(q, P)
  BY <1>2, <1>3 DEF From
<1>4. CASE q # <<>> /\ r = Append(Tail(q), P)
  BY <1>4, CountTail, RisingTail, <1>2
<1>5. QED BY <1>3, <1>4 DEF P

LEMMA PlainFromTwice ==
  ASSUME NEW r, NEW s, NEW t, PlainFrom(r, s), PlainFrom(s, t)
  PROVE  PlainFrom(r, t)
<1>1. ASSUME NEW k \in DOMAIN r, r[k].of \subseteq Plain PROVE \E i \in DOMAIN t : r[k].of = t[i].of
  BY <1>1 DEF PlainFrom
<1>2. QED BY <1>1 DEF PlainFrom

Calm(line) == \A i \in DOMAIN line : ~(line[i] \subseteq Plain)

LEMMA PushAllIs ==
  ASSUME NEW b, GoodBook(b), NEW line \in Seq(Ids), NEW bypass \in BOOLEAN,
         \A e \in EventIds : Places(b, e) + Count(line, Folding(e)) <= 1,
         NEW c, c = PushAll(b, line, bypass)
  PROVE  /\ GoodBook(c) /\ c.terminal = b.terminal /\ (bypass => c.folds = b.folds)
         /\ \A e \in EventIds : Places(c, e) = Places(b, e) + Count(line, Folding(e))
         /\ Calm(line) => PlainFrom(c.queue, b.queue) /\ (Rising(b.queue, EventOrder) => Rising(c.queue, EventOrder))
         /\ ~bypass /\ Len(b.queue) <= MaxQueueSize => Len(c.queue) <= MaxQueueSize
<1>0. Len(line) \in Nat /\ DOMAIN line = 1 .. Len(line)
  OBVIOUS
<1>1. PICK g : Pushes(b, line, bypass, Len(line), g) /\ PushAll(b, line, bypass) = g[Len(line)]
  BY <1>0, PushesSteps
<1>2. g[0] = b /\ \A i \in 1 .. Len(line) : g[i] = PushEvent(g[i - 1], line[i], bypass)
  BY Zenon, <1>1 DEF Pushes
<1> DEFINE Done(d, n) ==
      /\ GoodBook(d) /\ d.terminal = b.terminal /\ (bypass => d.folds = b.folds)
      /\ \A e \in EventIds : Places(d, e) = Places(b, e) + Count(SubSeq(line, 1, n), Folding(e))
      /\ Calm(line) => PlainFrom(d.queue, b.queue) /\ (Rising(b.queue, EventOrder) => Rising(d.queue, EventOrder))
      /\ ~bypass /\ Len(b.queue) <= MaxQueueSize => Len(d.queue) <= MaxQueueSize
    F == {n \in 0 .. Len(line) : Done(g[n], n)}
<1>3. 0 \in F
 <2>1. ASSUME NEW e \in EventIds PROVE Places(b, e) = Places(b, e) + Count(SubSeq(line, 1, 0), Folding(e))
  <3>1. SubSeq(line, 1, 0) = <<>>  BY SubSeqEmpty
  <3>2. Count(SubSeq(line, 1, 0), Folding(e)) = 0  BY <3>1, CountEmpty
  <3>3. Places(b, e) \in Nat  BY PlacesNat DEF GoodBook
  <3>4. QED BY <3>2, <3>3
 <2>2. PlainFrom(b.queue, b.queue)  BY DEF PlainFrom
 <2>3. Done(b, 0)  BY <2>1, <2>2
 <2> HIDE DEF Done
 <2>4. QED BY <1>0, <1>2, <2>3
<1>4. ASSUME NEW n \in 1 .. Len(line), n - 1 \in F PROVE n \in F
 <2> DEFINE d == g[n - 1]
            f == g[n]
            X == line[n]
 <2>1. Done(d, n - 1)  BY <1>4
 <2>2. f = PushEvent(d, X, bypass)  BY <1>2, <1>4
 <2>3. X \in Ids  OBVIOUS
 <2>4. d \in BookSet /\ d.queue \in Seq(EventEntry)
   BY <2>1, BookFields DEF GoodBook
 <2> HIDE DEF d, f
 <2> DEFINE a == [e \in EventIds |-> Count(SubSeq(line, 1, n), Folding(e))]
            z == [e \in EventIds |-> Count(SubSeq(line, 1, n - 1), Folding(e))]
 <2>5. \A e \in EventIds : /\ a[e] = z[e] + (IF e \in X THEN 1 ELSE 0) /\ a[e] \in Nat /\ z[e] \in Nat
                           /\ Places(b, e) + a[e] <= 1 /\ Places(b, e) \in Nat /\ Places(d, e) = Places(b, e) + z[e]
  <3>1. SUFFICES ASSUME NEW e \in EventIds
                 PROVE  /\ a[e] = z[e] + (IF e \in X THEN 1 ELSE 0) /\ a[e] \in Nat /\ z[e] \in Nat
                        /\ Places(b, e) + a[e] <= 1 /\ Places(b, e) \in Nat /\ Places(d, e) = Places(b, e) + z[e]
    OBVIOUS
  <3>2. Places(b, e) \in Nat  BY PlacesNat DEF GoodBook
  <3>3. Count(line, Folding(e)) \in Nat  BY HitsFinite
  <3>4. Places(b, e) + Count(line, Folding(e)) <= 1  OBVIOUS
  <3>5. /\ a[e] = z[e] + (IF X \in Folding(e) THEN 1 ELSE 0) /\ a[e] <= Count(line, Folding(e)) /\ a[e] \in Nat /\ z[e] \in Nat
    BY CountUpTo
  <3>6. Places(d, e) = Places(b, e) + z[e]  BY <2>1
  <3>7. X \in Folding(e) <=> e \in X  BY <2>3 DEF Folding
  <3> HIDE DEF a, z, X
  <3>8. QED BY <3>2, <3>3, <3>4, <3>5, <3>6, <3>7
 <2>6. \A e \in EventIds : Places(d, e) <= 1
   BY <2>5
 <2> HIDE DEF X
 <2>7. /\ GoodBook(f) /\ f.terminal = d.terminal /\ (bypass => f.folds = d.folds)
       /\ \A e \in EventIds : Places(f, e) = Places(d, e) + (IF e \in X THEN 1 ELSE 0)
       /\ \/ f.queue = Append(d.queue, Pending(X))
          \/ ~bypass /\ d.queue # <<>> /\ f.queue = Append(Tail(d.queue), Pending(X))
       /\ ~bypass /\ Len(d.queue) <= MaxQueueSize => Len(f.queue) <= MaxQueueSize
   BY <2>1, <2>2, <2>3, <2>6, PushEventIs
 <2>8. \A e \in EventIds : Places(f, e) = Places(b, e) + a[e]
   BY <2>5, <2>7
 <2>9. Calm(line) => PlainFrom(f.queue, b.queue) /\ (Rising(b.queue, EventOrder) => Rising(f.queue, EventOrder))
   BY <1>0, <2>7, <2>4, <2>3, PushOrder, <2>1, PlainFromTwice DEF Calm, X
 <2>10. \A e \in EventIds : Places(f, e) = Places(b, e) + Count(SubSeq(line, 1, n), Folding(e))
   BY <2>8 DEF a
 <2> HIDE DEF a, z
 <2>11. Done(f, n)  BY <2>1, <2>7, <2>9, <2>10
 <2>12. n \in 0 .. Len(line)  OBVIOUS
 <2> HIDE DEF Done
 <2>13. QED BY <2>11, <2>12 DEF f
<1>5. Done(g[Len(line)], Len(line))
 <2> HIDE DEF F
 <2>1. 0 .. Len(line) \subseteq F  BY <1>0, <1>3, <1>4, UpTo
 <2>2. Len(line) \in F  BY <1>0, <2>1
 <2> HIDE DEF Done
 <2>3. QED BY <2>2 DEF F
<1>6. SubSeq(line, 1, Len(line)) = line  BY SubSeqFull
<1>7. QED
  BY <1>1, <1>5, <1>6

LEMMA RisingConcat ==
  ASSUME NEW S, NEW s \in Seq(S), NEW t \in Seq(S), NEW R
  PROVE  Rising(s \o t, R) <=> Rising(s, R) /\ Rising(t, R) /\ Below(s, t, R)
<1> DEFINE m == Len(s)
           n == Len(t)
           u == s \o t
<1>1. /\ m \in Nat /\ n \in Nat /\ DOMAIN s = 1 .. m /\ DOMAIN t = 1 .. n /\ DOMAIN u = 1 .. m + n
      /\ \A i \in 1 .. m : u[i] = s[i]
      /\ \A j \in 1 .. n : u[m + j] = t[j]
  OBVIOUS
<1> HIDE DEF m, n, u
<1>2. ASSUME Rising(u, R) PROVE Rising(s, R) /\ Rising(t, R) /\ Below(s, t, R)
 <2>1. Rising(s, R)
  <3>1. ASSUME NEW i \in 1 .. m, NEW j \in 1 .. m, i < j PROVE <<s[i].of, s[j].of>> \in R
   <4>1. i \in 1 .. m + n /\ j \in 1 .. m + n /\ u[i] = s[i] /\ u[j] = s[j]
     BY <1>1
   <4>2. QED BY Zenon, <1>1, <1>2, <3>1, <4>1 DEF Rising
  <3>2. QED BY <1>1, <3>1 DEF Rising
 <2>2. Rising(t, R)
  <3>1. ASSUME NEW i \in 1 .. n, NEW j \in 1 .. n, i < j PROVE <<t[i].of, t[j].of>> \in R
   <4>1. m + i \in 1 .. m + n /\ m + j \in 1 .. m + n /\ u[m + i] = t[i] /\ u[m + j] = t[j] /\ m + i < m + j
     BY <1>1, <3>1
   <4>2. QED BY Zenon, <1>1, <1>2, <4>1 DEF Rising
  <3>2. QED BY <1>1, <3>1 DEF Rising
 <2>3. Below(s, t, R)
  <3>1. ASSUME NEW i \in 1 .. m, NEW j \in 1 .. n PROVE <<s[i].of, t[j].of>> \in R
   <4>1. i \in 1 .. m + n /\ m + j \in 1 .. m + n /\ u[i] = s[i] /\ u[m + j] = t[j] /\ i < m + j
     BY <1>1
   <4>2. QED BY Zenon, <1>1, <1>2, <4>1 DEF Rising
  <3>2. QED BY <1>1, <3>1 DEF Below
 <2>4. QED BY <2>1, <2>2, <2>3
<1>3. ASSUME Rising(s, R), Rising(t, R), Below(s, t, R) PROVE Rising(u, R)
 <2>1. ASSUME NEW i \in 1 .. m + n, NEW j \in 1 .. m + n, i < j PROVE <<u[i].of, u[j].of>> \in R
  <3>1. CASE j <= m
   <4>1. i \in 1 .. m /\ j \in 1 .. m /\ u[i] = s[i] /\ u[j] = s[j]
     BY <1>1, <2>1, <3>1
   <4>2. QED BY Zenon, <1>1, <1>3, <2>1, <4>1 DEF Rising
  <3>2. CASE i <= m /\ j > m
   <4>1. i \in 1 .. m /\ j - m \in 1 .. n /\ m + (j - m) = j /\ u[i] = s[i]
     BY <1>1, <2>1, <3>2
   <4>2. u[j] = t[j - m]  BY <1>1, <4>1
   <4>3. QED BY Zenon, <1>1, <1>3, <4>1, <4>2 DEF Below
  <3>3. CASE i > m
   <4>1. /\ i - m \in 1 .. n /\ j - m \in 1 .. n /\ m + (i - m) = i /\ m + (j - m) = j /\ i - m < j - m
     BY <1>1, <2>1, <3>3
   <4>2. u[j] = t[j - m] /\ u[i] = t[i - m]
     BY <1>1, <4>1
   <4>3. QED BY Zenon, <1>1, <1>3, <4>1, <4>2 DEF Rising
  <3>4. QED BY <1>1, <3>1, <3>2, <3>3
 <2>2. QED BY Zenon, <1>1, <2>1 DEF Rising
<1>4. QED BY Zenon, <1>2, <1>3 DEF u

LEMMA RisingDrawn ==
  ASSUME NEW S, NEW s \in Seq(S), NEW t \in Seq(S), NEW I, Drawn(t, s, I \cap DOMAIN s), NEW R
  PROVE  (Rising(s, R) => Rising(t, R)) /\ From(t, s)
<1>1. PICK m \in [1 .. Len(t) -> I \cap DOMAIN s] : /\ \A k \in 1 .. Len(t) : t[k] = s[m[k]]
                                                   /\ \A j, k \in 1 .. Len(t) : j < k => m[j] < m[k]
  BY DEF Drawn
<1>2. DOMAIN t = 1 .. Len(t)  OBVIOUS
<1>3. \A k \in DOMAIN t : m[k] \in DOMAIN s /\ t[k] = s[m[k]]
  BY <1>1, <1>2
<1>4. \A j, k \in DOMAIN t : j < k => m[j] < m[k]
  BY <1>1, <1>2
<1>5. Rising(s, R) => Rising(t, R)  BY Zenon, <1>3, <1>4 DEF Rising
<1>6. From(t, s)  BY Zenon, <1>3 DEF From
<1>7. QED BY <1>5, <1>6

LEMMA RisingAs ==
  ASSUME NEW s, NEW t, DOMAIN s = DOMAIN t, \A i \in DOMAIN s : s[i].of = t[i].of, NEW R
  PROVE  (Rising(s, R) <=> Rising(t, R)) /\ From(t, s) /\ From(s, t)
BY DEF Rising, From

LEMMA BelowFrom ==
  ASSUME NEW s, NEW t, NEW u, NEW v, NEW R, From(u, s), From(v, t), Below(s, t, R)
  PROVE  Below(u, v, R)
<1>1. ASSUME NEW i \in DOMAIN u, NEW j \in DOMAIN v PROVE <<u[i].of, v[j].of>> \in R
  BY DEF From, Below
<1>2. QED BY <1>1 DEF Below

LEMMA UnderFrom ==
  ASSUME NEW s, NEW u, NEW X, NEW R, From(u, s), Under(s, X, R)
  PROVE  Under(u, X, R)
<1>1. ASSUME NEW i \in DOMAIN u PROVE <<u[i].of, X>> \in R
  BY DEF From, Under
<1>2. QED BY <1>1 DEF Under

LEMMA FromConcat ==
  ASSUME NEW S, NEW s \in Seq(S), NEW t \in Seq(S)
  PROVE  From(s, s \o t) /\ From(t, s \o t)
<1> DEFINE u == s \o t
<1>1. /\ Len(s) \in Nat /\ Len(t) \in Nat /\ DOMAIN s = 1 .. Len(s) /\ DOMAIN t = 1 .. Len(t) /\ DOMAIN u = 1 .. Len(s) + Len(t)
      /\ \A i \in DOMAIN s : u[i] = s[i]
      /\ \A j \in DOMAIN t : u[Len(s) + j] = t[j]
  OBVIOUS
<1> HIDE DEF u
<1>2. \A i \in DOMAIN s : i \in DOMAIN u
  BY <1>1
<1>3. \A j \in DOMAIN t : Len(s) + j \in DOMAIN u
  BY <1>1
<1>4. From(s, u)  BY Zenon, <1>1, <1>2 DEF From
<1>5. From(t, u)  BY Zenon, <1>1, <1>3 DEF From
<1>6. QED BY <1>4, <1>5 DEF u

LEMMA FromBoth ==
  ASSUME NEW S, NEW s \in Seq(S), NEW t \in Seq(S), NEW u, From(s, u), From(t, u)
  PROVE  From(s \o t, u)
<1> DEFINE v == s \o t
<1>1. /\ Len(s) \in Nat /\ Len(t) \in Nat /\ DOMAIN s = 1 .. Len(s) /\ DOMAIN t = 1 .. Len(t) /\ DOMAIN v = 1 .. Len(s) + Len(t)
      /\ \A i \in DOMAIN s : v[i] = s[i]
      /\ \A j \in DOMAIN t : v[Len(s) + j] = t[j]
  OBVIOUS
<1> HIDE DEF v
<1>2. ASSUME NEW k \in DOMAIN v PROVE \E i \in DOMAIN u : v[k].of = u[i].of
 <2>1. CASE k <= Len(s)
   BY <1>1, <2>1 DEF From
 <2>2. CASE k > Len(s)
  <3>1. k - Len(s) \in DOMAIN t /\ Len(s) + (k - Len(s)) = k
    BY <1>1, <2>2
  <3>2. v[k] = t[k - Len(s)]  BY <1>1, <3>1
  <3>3. QED BY Zenon, <3>1, <3>2 DEF From
 <2>3. QED BY <1>1, <2>1, <2>2
<1>3. QED BY Zenon, <1>2 DEF From, v

LEMMA FromTwice ==
  ASSUME NEW r, NEW s, NEW t, From(r, s), From(s, t)
  PROVE  From(r, t)
<1>1. ASSUME NEW k \in DOMAIN r PROVE \E i \in DOMAIN t : r[k].of = t[i].of
  BY DEF From
<1>2. QED BY <1>1 DEF From

-----------------------------------------------------------------------------
LEMMA RestoredIs ==
  ASSUME NEW S, NEW q \in Seq(S), NEW prefix \in Seq(S), NEW max \in Nat, NEW bypass \in BOOLEAN,
         NEW r, r = Restored(q, prefix, max, bypass), NEW R
  PROVE  /\ r.kept \in Seq(S) /\ r.evicted \in Seq(S) /\ (~bypass => Len(r.kept) <= max)
         /\ \A V : Count(r.kept, V) + Count(r.evicted, V) = Count(prefix, V) + Count(q, V)
         /\ (Rising(prefix \o q, R) => Rising(r.kept, R)) /\ From(r.kept, prefix \o q)
         /\ (prefix = <<>> /\ Len(q) <= max => r.kept = q /\ r.evicted = <<>>)
<1> DEFINE all == prefix \o q
           n == IF bypass THEN Len(all) ELSE Min({Len(all), max})
           a == SubSeq(all, 1, n)
           z == SubSeq(all, n + 1, Len(all))
<1>1. r = [kept |-> a, evicted |-> z]  BY DEF Restored
<1>2. all \in Seq(S) /\ Len(all) \in Nat
  OBVIOUS
<1>3. \A V : Count(all, V) = Count(prefix, V) + Count(q, V)
  BY CountConcat
<1>4. prefix = <<>> => all = q  OBVIOUS
<1>5. /\ n \in 0 .. Len(all) /\ (~bypass => n <= max) /\ (Len(all) <= max => n = Len(all))
 <2> HIDE DEF all
 <2>1. CASE bypass
   BY <1>2, <2>1
 <2>2. CASE ~bypass
  <3> DEFINE M == {Len(all), max}
  <3>1. M \subseteq Nat /\ M # {}
    BY <1>2
  <3>2. Len(all) \in M /\ max \in M /\ \A y \in M : y = Len(all) \/ y = max
    OBVIOUS
  <3>3. n = Min(M)  BY <2>2
  <3> HIDE DEF M, n
  <3>4. n \in M /\ \A y \in M : n <= y
    BY <3>1, <3>3, MinIs
  <3>5. QED BY <1>2, <3>2, <3>4
 <2>3. QED BY <2>1, <2>2
<1> HIDE DEF n, all
<1>6. a \in Seq(S) /\ z \in Seq(S) /\ a \o z = all /\ \A V : Count(a, V) + Count(z, V) = Count(all, V)
  BY <1>2, <1>5, CountSplit
<1>7. Len(a) = n  BY <1>2, <1>5
<1>8. n = Len(all) => a = all /\ z = <<>>
  BY <1>2, SubSeqFull, SubSeqEmpty
<1> HIDE DEF a, z
<1>9. r.kept = a /\ r.evicted = z
  BY <1>1
<1>10. (Rising(all, R) => Rising(a, R)) /\ From(a, all)
  BY <1>6, RisingConcat, FromConcat
<1>11. prefix = <<>> /\ Len(q) <= max => a = q /\ z = <<>>
  BY Zenon, <1>4, <1>5, <1>8
<1>12. \A V : Count(a, V) + Count(z, V) = Count(prefix, V) + Count(q, V)
  BY Zenon, <1>3, <1>6
<1>13. ~bypass => Len(a) <= max  BY <1>5, <1>7
<1>14. QED BY Zenon, <1>6, <1>9, <1>10, <1>11, <1>12, <1>13 DEF all

IdsOf(s) == IF s = "confirms" THEN Confirms ELSE Settlements
AllIds == Controls \cup Events
Control == Entry(Controls)
About(x) == {p \in Control : p.of = x}

LEMMA IdsAre ==
  /\ AllIds \subseteq Nat /\ EventIds \subseteq AllIds /\ Controls \subseteq AllIds
  /\ Confirms \cap EventIds = {} /\ Settlements \subseteq EventIds /\ Events \cap Controls = {}
  /\ IdsOf("confirms") = Confirms /\ IdsOf("settlements") = Settlements
  /\ \A s \in Stages : IdsOf(s) \subseteq Controls
BY ReporterAssumption DEF AllIds, EventIds, Controls, IdsOf, Stages

LEMMA OfIs ==
  ASSUME NEW s \in Seq(Control), NEW x
  PROVE  /\ Of(s, x) = Count(s, About(x)) /\ Of(s, x) \in Nat /\ Of(s, x) <= Len(s)
         /\ (Of(s, x) = 0) <=> (\A i \in DOMAIN s : s[i].of # x)
<1> DEFINE h == {i \in DOMAIN s : s[i].of = x}
<1>1. \A i \in DOMAIN s : s[i] \in Control
  OBVIOUS
<1>2. \A i \in DOMAIN s : s[i] \in About(x) <=> s[i].of = x
  BY <1>1 DEF About
<1>3. h = Hits(s, About(x))  BY <1>2 DEF Hits
<1>4. Of(s, x) = Count(s, About(x))  BY Zenon, <1>3 DEF Of, Count
<1>5. Count(s, About(x)) \in Nat /\ Count(s, About(x)) <= Len(s)
  BY HitsFinite
<1>6. (Count(s, About(x)) = 0) <=> (\A i \in DOMAIN s : s[i] \notin About(x))
  BY CountNone
<1>7. QED BY <1>2, <1>4, <1>5, <1>6

LEMMA Requeue ==
  ASSUME NEW b, GoodBook(b), NEW q \in Seq(EventEntry), NEW d, d = [b EXCEPT !.queue = q]
  PROVE  /\ GoodBook(d) /\ d.queue = q /\ d.folds = b.folds /\ d.terminal = b.terminal /\ d.drops = b.drops
         /\ \A e \in EventIds : Places(d, e) + Count(b.queue, Holding(e)) = Places(b, e) + Count(q, Holding(e))
<1>0. b \in BookSet  BY DEF GoodBook
<1>1. d \in BookSet /\ d.queue = q /\ d.folds = b.folds /\ d.terminal = b.terminal /\ d.drops = b.drops
  BY <1>0 DEF BookSet
<1>2. GoodBook(d)  BY <1>1 DEF GoodBook, UniqueKeys
<1>3. ASSUME NEW e \in EventIds PROVE Places(d, e) + Count(b.queue, Holding(e)) = Places(b, e) + Count(q, Holding(e))
  BY HitsFinite, <1>1, <1>0, PlacesNat DEF Places
<1>4. QED BY <1>1, <1>2, <1>3

LEMMA RestoreEventsIs ==
  ASSUME NEW b, GoodBook(b), NEW prefix \in Seq(EventEntry), NEW bypass \in BOOLEAN,
         \A e \in EventIds : Places(b, e) + Count(prefix, Holding(e)) <= 1,
         NEW c, c = RestoreEvents(b, prefix, bypass)
  PROVE  /\ GoodBook(c) /\ c.terminal = b.terminal
         /\ \A e \in EventIds : Places(c, e) = Places(b, e) + Count(prefix, Holding(e))
         /\ (~bypass => Len(c.queue) <= MaxQueueSize)
         /\ Rising(prefix \o b.queue, EventOrder) => Rising(c.queue, EventOrder)
         /\ From(c.queue, prefix \o b.queue)
<1> DEFINE r == Restored(b.queue, prefix, MaxQueueSize, bypass)
           d == [b EXCEPT !.queue = r.kept]
<1>0. b.queue \in Seq(EventEntry) /\ MaxQueueSize \in Nat /\ b \in BookSet
  BY BookFields, ReporterAssumption DEF GoodBook
<1>1. c = DisposeAll(d, r.evicted, FALSE)  BY DEF RestoreEvents
<1> HIDE DEF r
<1>2. /\ r.kept \in Seq(EventEntry) /\ r.evicted \in Seq(EventEntry) /\ (~bypass => Len(r.kept) <= MaxQueueSize)
      /\ \A V : Count(r.kept, V) + Count(r.evicted, V) = Count(prefix, V) + Count(b.queue, V)
      /\ (Rising(prefix \o b.queue, EventOrder) => Rising(r.kept, EventOrder)) /\ From(r.kept, prefix \o b.queue)
 <2> DEFINE Q == b.queue
 <2>1. Q \in Seq(EventEntry) /\ r = Restored(Q, prefix, MaxQueueSize, bypass)
   BY <1>0 DEF r
 <2> HIDE DEF Q
 <2>2. /\ r.kept \in Seq(EventEntry) /\ r.evicted \in Seq(EventEntry) /\ (~bypass => Len(r.kept) <= MaxQueueSize)
       /\ \A V : Count(r.kept, V) + Count(r.evicted, V) = Count(prefix, V) + Count(Q, V)
       /\ (Rising(prefix \o Q, EventOrder) => Rising(r.kept, EventOrder)) /\ From(r.kept, prefix \o Q)
   BY <1>0, <2>1, RestoredIs
 <2>3. QED BY <2>2 DEF Q
<1>3. /\ GoodBook(d) /\ d.queue = r.kept /\ d.folds = b.folds /\ d.terminal = b.terminal
      /\ \A e \in EventIds : Places(d, e) + Count(b.queue, Holding(e)) = Places(b, e) + Count(r.kept, Holding(e))
  BY <1>2, Requeue
<1> HIDE DEF d
<1> DEFINE v == r.evicted
<1>4. \A e \in EventIds : Places(d, e) + Count(v, Holding(e)) = Places(b, e) + Count(prefix, Holding(e))
 <2>1. ASSUME NEW e \in EventIds PROVE Places(d, e) + Count(v, Holding(e)) = Places(b, e) + Count(prefix, Holding(e))
  <3>1. Places(d, e) \in Nat /\ Places(b, e) \in Nat
    BY <1>0, <1>3, PlacesNat DEF GoodBook
  <3>2. Count(r.kept, Holding(e)) \in Nat /\ Count(v, Holding(e)) \in Nat /\ Count(b.queue, Holding(e)) \in Nat /\ Count(prefix, Holding(e)) \in Nat
    BY <1>0, <1>2, HitsFinite
  <3>3. QED BY <1>2, <1>3, <3>1, <3>2
 <2>2. QED BY <2>1
<1>5. v \in Seq(EventEntry)  BY <1>2
<1> HIDE DEF v
<1>6. /\ GoodBook(c) /\ c.queue = d.queue /\ c.terminal = d.terminal
      /\ \A e \in EventIds : Places(c, e) = Places(d, e) + Count(v, Holding(e))
 <2> DEFINE ff == FALSE
 <2>1. ff \in BOOLEAN  OBVIOUS
 <2>2. c = DisposeAll(d, v, ff)  BY <1>1 DEF v
 <2> HIDE DEF ff
 <2>3. \A e \in EventIds : Places(d, e) + Count(v, Holding(e)) <= 1
   BY <1>4
 <2>4. QED BY <1>3, <1>5, <2>1, <2>2, <2>3, DisposeAllIs
<1>7. \A e \in EventIds : Places(c, e) = Places(b, e) + Count(prefix, Holding(e))
  BY <1>4, <1>6
<1>8. c.queue = r.kept  BY <1>3, <1>6
<1>9. QED BY <1>2, <1>3, <1>6, <1>7, <1>8

LEMMA ReplayFoldsIs ==
  ASSUME NEW b \in BookSet, \A e \in EventIds : Places(b, e) <= 1, NEW bypass \in BOOLEAN,
         NEW c, c = ReplayFolds(b, bypass)
  PROVE  /\ GoodBook(c) /\ c.terminal = b.terminal /\ (bypass => c.folds = <<>>)
         /\ \A e \in EventIds : Places(c, e) = Places(b, e)
         /\ PlainFrom(c.queue, b.queue) /\ (Rising(b.queue, EventOrder) => Rising(c.queue, EventOrder))
         /\ ~bypass /\ Len(b.queue) <= MaxQueueSize => Len(c.queue) <= MaxQueueSize
<1> DEFINE d == [b EXCEPT !.folds = <<>>]
           l == b.folds
<1>0. b.queue \in Seq(EventEntry) /\ l \in Seq(Ids) /\ l \in Seq(Receipts)
  BY BookFields
<1>1. d \in BookSet /\ d.queue = b.queue /\ d.folds = <<>> /\ d.terminal = b.terminal /\ d.drops = b.drops
 <2> DEFINE f == <<>>
 <2>1. f \in Seq(Receipts)  OBVIOUS
 <2>2. d = [b EXCEPT !.folds = f]  OBVIOUS
 <2> HIDE DEF f, d
 <2>3. d \in BookSet /\ d.queue = b.queue /\ d.folds = f /\ d.terminal = b.terminal /\ d.drops = b.drops
   BY <2>1, <2>2 DEF BookSet
 <2>4. QED BY <2>3 DEF f
<1>2. GoodBook(d)
  BY ReporterAssumption, <1>1 DEF GoodBook, UniqueKeys
<1>3. c = PushAll(d, l, bypass)  BY DEF ReplayFolds
<1> HIDE DEF d
<1>4. ASSUME NEW e \in EventIds PROVE Places(d, e) + Count(l, Folding(e)) = Places(b, e)
  BY CountEmpty, <1>1, PlacesNat DEF Places
<1>5. Calm(l)
 <2>1. ASSUME NEW i \in DOMAIN l PROVE ~(l[i] \subseteq Plain)
   BY <1>0 DEF Receipts, Ids, Plain
 <2>2. QED BY <2>1 DEF Calm
<1> HIDE DEF l
<1>6. /\ GoodBook(c) /\ c.terminal = d.terminal /\ (bypass => c.folds = d.folds)
      /\ \A e \in EventIds : Places(c, e) = Places(d, e) + Count(l, Folding(e))
      /\ Calm(l) => PlainFrom(c.queue, d.queue) /\ (Rising(d.queue, EventOrder) => Rising(c.queue, EventOrder))
      /\ ~bypass /\ Len(d.queue) <= MaxQueueSize => Len(c.queue) <= MaxQueueSize
  BY <1>4, <1>0, <1>2, <1>3, PushAllIs
<1>7. QED BY <1>1, <1>4, <1>5, <1>6

LEMMA TakeFoldsFinalIs ==
  ASSUME NEW b, GoodBook(b), \A e \in EventIds : Places(b, e) <= 1, NEW c, c = TakeFoldsFinal(b)
  PROVE  /\ GoodBook(c) /\ c.terminal = TRUE /\ c.folds = <<>>
         /\ \A e \in EventIds : Places(c, e) = Places(b, e)
         /\ PlainFrom(c.queue, b.queue) /\ (Rising(b.queue, EventOrder) => Rising(c.queue, EventOrder))
<1> DEFINE d == [b EXCEPT !.terminal = TRUE]
<1>0. b \in BookSet  BY DEF GoodBook
<1>1. d \in BookSet /\ d.queue = b.queue /\ d.folds = b.folds /\ d.terminal = TRUE /\ d.drops = b.drops
  BY <1>0 DEF BookSet
<1>2. c = ReplayFolds(d, TRUE)  BY DEF TakeFoldsFinal
<1> HIDE DEF d
<1>3. \A e \in EventIds : Places(d, e) = Places(b, e)
  BY Zenon, <1>1 DEF Places
<1>4. /\ GoodBook(c) /\ c.terminal = d.terminal /\ c.folds = <<>>
      /\ \A e \in EventIds : Places(c, e) = Places(d, e)
      /\ PlainFrom(c.queue, d.queue) /\ (Rising(d.queue, EventOrder) => Rising(c.queue, EventOrder))
  BY <1>2, <1>3, <1>1, ReplayFoldsIs
<1>5. QED BY <1>1, <1>3, <1>4

LEMMA EventsOfIs ==
  ASSUME NEW b, GoodBook(b), NEW s \in Stages, NEW entries \in Seq(Entry(IdsOf(s))),
         \A e \in EventIds : Places(b, e) + Of(entries, e) <= 1,
         NEW c, c = EventsOf(b, s, entries)
  PROVE  /\ GoodBook(c) /\ c.terminal = b.terminal
         /\ \A e \in EventIds : Places(c, e) = Places(b, e) + Of(entries, e)
         /\ PlainFrom(c.queue, b.queue) /\ (Rising(b.queue, EventOrder) => Rising(c.queue, EventOrder))
         /\ closing = "open" /\ Len(b.queue) <= MaxQueueSize => Len(c.queue) <= MaxQueueSize
<1>0. b \in BookSet /\ \A e \in EventIds : Places(b, e) \in Nat
  BY PlacesNat DEF GoodBook
<1>e. \A i \in DOMAIN entries : entries[i] \in Entry(IdsOf(s)) /\ entries[i].of \in IdsOf(s)
 <2>1. \A i \in DOMAIN entries : entries[i] \in Entry(IdsOf(s))
   OBVIOUS
 <2>2. QED BY <2>1 DEF Entry
<1>1. CASE s = "settlements"
 <2> DEFINE line == [i \in DOMAIN entries |-> {entries[i].of}]
 <2>1. c = PushAll(b, line, closing # "open")  BY <1>1 DEF EventsOf
 <2>2. IdsOf(s) = Settlements  BY <1>1, IdsAre
 <2>3. \A i \in DOMAIN entries : {entries[i].of} \in Ids /\ ~({entries[i].of} \subseteq Plain)
  <3>1. ASSUME NEW x \in Settlements PROVE {x} \in Ids /\ ~({x} \subseteq Plain)
    BY IdsAre, ReporterAssumption DEF Ids, Plain
  <3>2. QED BY <1>e, <2>2, <3>1
 <2>4. line \in Seq(Ids) /\ DOMAIN line = DOMAIN entries /\ Calm(line)
  <3>1. DOMAIN entries = 1 .. Len(entries) /\ Len(entries) \in Nat
    OBVIOUS
  <3>2. \A i \in 1 .. Len(entries) : line[i] \in Ids
    BY <2>3, <3>1
  <3>3. line \in Seq(Ids)  BY <2>3, <3>1
  <3>4. QED BY <2>3, <3>3 DEF Calm
 <2>5. ASSUME NEW e \in EventIds PROVE Count(line, Folding(e)) = Of(entries, e)
   BY <2>3, <2>4 DEF Folding, Hits, Count, Of
 <2> HIDE DEF line
 <2> DEFINE bypass == closing # "open"
 <2>6. bypass \in BOOLEAN /\ c = PushAll(b, line, bypass) /\ (~bypass <=> closing = "open")
   BY <2>1
 <2> HIDE DEF bypass
 <2>7. /\ GoodBook(c) /\ c.terminal = b.terminal
       /\ \A e \in EventIds : Places(c, e) = Places(b, e) + Count(line, Folding(e))
       /\ Calm(line) => PlainFrom(c.queue, b.queue) /\ (Rising(b.queue, EventOrder) => Rising(c.queue, EventOrder))
       /\ ~bypass /\ Len(b.queue) <= MaxQueueSize => Len(c.queue) <= MaxQueueSize
   BY <2>5, <2>4, <2>6, PushAllIs
 <2>8. QED BY <2>4, <2>5, <2>6, <2>7
<1>2. CASE s = "confirms"
 <2>1. c = b  BY <1>2 DEF EventsOf
 <2>2. ASSUME NEW e \in EventIds PROVE Of(entries, e) = 0
   BY <1>2, <1>e, IdsAre, FS_EmptySet DEF Of
 <2>3. PlainFrom(b.queue, b.queue)  BY DEF PlainFrom
 <2>4. QED BY <1>0, <2>1, <2>2, <2>3
<1>3. QED BY <1>1, <1>2 DEF Stages

Ops == {"sending", "restore", "late"}
Claimed(S) == [p : S, op : Ops]
Hand == Claimed(Control)
HandOf(s) == Claimed(Entry(IdsOf(s)))
Wire == {x \in Hand : x.op = "sending"}
RoundSet == [final : BOOLEAN, resolved : Nat, blocked : BOOLEAN, held : BOOLEAN, left : Int,
             sentClean : BOOLEAN, clean : BOOLEAN]

LEMMA EntrySubset ==
  ASSUME NEW S, NEW T, S \subseteq T
  PROVE  Entry(S) \subseteq Entry(T) /\ Seq(Entry(S)) \subseteq Seq(Entry(T)) /\ Seq(Claimed(Entry(S))) \subseteq Seq(Claimed(Entry(T)))
<1>1. Entry(S) \subseteq Entry(T)  BY DEF Entry
<1>2. Claimed(Entry(S)) \subseteq Claimed(Entry(T))  BY <1>1 DEF Claimed
<1>3. QED BY <1>1, <1>2, SeqMonotonic

LEMMA StageSubset ==
  ASSUME NEW s \in Stages
  PROVE  Seq(Entry(IdsOf(s))) \subseteq Seq(Control) /\ Seq(HandOf(s)) \subseteq Seq(Hand)
BY EntrySubset, IdsAre DEF Control, HandOf, Hand

LEMMA OfConcat ==
  ASSUME NEW s \in Seq(Control), NEW t \in Seq(Control), NEW x
  PROVE  Of(s \o t, x) = Of(s, x) + Of(t, x) /\ s \o t \in Seq(Control)
<1>1. s \o t \in Seq(Control)  OBVIOUS
<1> DEFINE u == s \o t
<1>2. Count(u, About(x)) = Count(s, About(x)) + Count(t, About(x))  BY CountConcat
<1>3. u \in Seq(Control)  OBVIOUS
<1> HIDE DEF u
<1>4. Of(u, x) = Of(s, x) + Of(t, x)  BY <1>2, <1>3, OfIs
<1>5. QED BY <1>1, <1>4 DEF u

LEMMA OfAs ==
  ASSUME NEW s, NEW t, DOMAIN s = DOMAIN t, \A i \in DOMAIN s : s[i].of = t[i].of, NEW x
  PROVE  Of(s, x) = Of(t, x)
<1> DEFINE a == {i \in DOMAIN s : s[i].of = x}
           b == {i \in DOMAIN t : t[i].of = x}
<1>1. a = b  OBVIOUS
<1>2. QED BY Zenon, <1>1 DEF Of

LEMMA OfOne ==
  ASSUME NEW p \in Control, NEW x
  PROVE  Of(<<p>>, x) = (IF p.of = x THEN 1 ELSE 0) /\ <<p>> \in Seq(Control)
<1>1. <<p>> \in Seq(Control)  OBVIOUS
<1>2. Count(<<p>>, About(x)) = IF p \in About(x) THEN 1 ELSE 0
  BY CountOne
<1>3. Of(<<p>>, x) = Count(<<p>>, About(x))  BY <1>1, OfIs
<1>4. QED BY <1>1, <1>2, <1>3 DEF About

LEMMA OfNone == \A x : Of(<<>>, x) = 0
<1>1. ASSUME NEW x PROVE Of(<<>>, x) = 0
  BY FS_EmptySet DEF Of
<1>2. QED BY <1>1

LEMMA LineOf ==
  ASSUME NEW S, NEW s \in Seq(S), NEW t \in Seq(S), NEW u \in Seq(S), NEW v \in Seq(S), NEW R,
         Rising(s \o t, R), From(u, s), From(v, t), Rising(s, R) => Rising(u, R), Rising(t, R) => Rising(v, R)
  PROVE  Rising(u \o v, R) /\ From(u \o v, s \o t)
<1>1. Rising(s, R) /\ Rising(t, R) /\ Below(s, t, R)
  BY RisingConcat
<1>2. Below(u, v, R)  BY <1>1, BelowFrom
<1>3. Rising(u \o v, R)  BY <1>1, <1>2, RisingConcat
<1> DEFINE l == s \o t
<1>4. From(s, l) /\ From(t, l)
  BY FromConcat
<1> HIDE DEF l
<1>5. From(u, l) /\ From(v, l)
  BY <1>4, FromTwice
<1>6. From(u \o v, l)  BY <1>5, FromBoth
<1>7. QED BY <1>3, <1>6 DEF l

-----------------------------------------------------------------------------
LEMMA ClaimsIs ==
  ASSUME NEW S, NEW h \in Seq(Claimed(S))
  PROVE  /\ Claims(h) \in Seq(S) /\ DOMAIN Claims(h) = DOMAIN h /\ Len(Claims(h)) = Len(h)
         /\ \A k \in DOMAIN h : h[k] \in Claimed(S) /\ Claims(h)[k] = h[k].p /\ h[k].p \in S /\ h[k].op \in Ops
<1>1. DOMAIN h = 1 .. Len(h) /\ Len(h) \in Nat /\ \A k \in DOMAIN h : h[k] \in Claimed(S)
  OBVIOUS
<1>2. \A k \in DOMAIN h : h[k].p \in S /\ h[k].op \in Ops
  BY <1>1 DEF Claimed
<1>3. Claims(h) = [k \in 1 .. Len(h) |-> h[k].p]  BY <1>1 DEF Claims
<1>4. QED BY <1>1, <1>2, <1>3

LEMMA ClaimsConcat ==
  ASSUME NEW S, NEW g \in Seq(Claimed(S)), NEW h \in Seq(Claimed(S))
  PROVE  Claims(g \o h) = Claims(g) \o Claims(h)
<1> DEFINE u == g \o h
           a == Claims(g)
           b == Claims(h)
           c == Claims(u)
<1>1. u \in Seq(Claimed(S)) /\ Len(u) = Len(g) + Len(h)
  OBVIOUS
<1>2. a \in Seq(S) /\ Len(a) = Len(g) /\ \A k \in 1 .. Len(g) : a[k] = g[k].p
  BY ClaimsIs
<1>3. b \in Seq(S) /\ Len(b) = Len(h) /\ \A k \in 1 .. Len(h) : b[k] = h[k].p
  BY ClaimsIs
<1>4. /\ \A k \in 1 .. Len(g) : u[k] = g[k]
      /\ \A k \in 1 .. Len(u) : k > Len(g) => u[k] = h[k - Len(g)]
  OBVIOUS
<1>5. Len(g) \in Nat /\ Len(h) \in Nat
  OBVIOUS
<1> HIDE DEF u
<1>6. c \in Seq(S) /\ Len(c) = Len(u) /\ \A k \in 1 .. Len(u) : c[k] = u[k].p
  BY <1>1, ClaimsIs
<1> HIDE DEF a, b, c
<1> DEFINE d == a \o b
<1>7. /\ d \in Seq(S) /\ Len(d) = Len(u)
      /\ \A k \in 1 .. Len(u) : d[k] = IF k <= Len(g) THEN a[k] ELSE b[k - Len(g)]
  BY <1>1, <1>2, <1>3, <1>5
<1> HIDE DEF d
<1>8. ASSUME NEW k \in 1 .. Len(u) PROVE d[k] = c[k]
 <2>1. CASE k <= Len(g)
   BY <1>5, <2>1, <1>2, <1>4, <1>6, <1>7
 <2>2. CASE k > Len(g)
  <3>1. k - Len(g) \in 1 .. Len(h) /\ ~(k <= Len(g))
    BY <1>1, <1>5, <2>2
  <3>2. u[k] = h[k - Len(g)] /\ b[k - Len(g)] = h[k - Len(g)].p
    BY <1>3, <1>4, <2>2, <3>1
  <3>3. QED BY <1>6, <1>7, <3>1, <3>2
 <2>3. QED BY <1>1, <1>5, <2>1, <2>2
<1>9. c = d  BY <1>6, <1>7, <1>8, SeqEqual
<1>10. QED BY <1>9 DEF a, b, c, d, u

(* A line without its k-th entry. *)
Drop(c, k) == SubSeq(c, 1, k - 1) \o SubSeq(c, k + 1, Len(c))

LEMMA DropIs ==
  ASSUME NEW S, NEW c \in Seq(S), NEW k \in DOMAIN c
  PROVE  /\ Drop(c, k) \in Seq(S) /\ Len(Drop(c, k)) = Len(c) - 1 /\ c[k] \in S /\ Len(c) \in Nat \ {0}
         /\ \A i \in 1 .. Len(c) - 1 : Drop(c, k)[i] = IF i < k THEN c[i] ELSE c[i + 1]
         /\ \A V : Count(c, V) = Count(Drop(c, k), V) + (IF c[k] \in V THEN 1 ELSE 0)
<1>0. k \in 1 .. Len(c) /\ Len(c) \in Nat /\ c[k] \in S
  OBVIOUS
<1> DEFINE a == SubSeq(c, 1, k - 1)
           z == SubSeq(c, k + 1, Len(c))
<1>1. a \in Seq(S) /\ Len(a) = k - 1 /\ \A i \in 1 .. k - 1 : a[i] = c[i]
  BY <1>0
<1>2. z \in Seq(S) /\ Len(z) = Len(c) - k /\ \A i \in 1 .. Len(c) - k : z[i] = c[k + i]
  BY <1>0
<1>3. ASSUME NEW V PROVE Count(c, V) = Count(a, V) + Count(z, V) + (IF c[k] \in V THEN 1 ELSE 0)
 <2>1. k \in 0 .. Len(c)  BY <1>0
 <2>2. Count(SubSeq(c, 1, k), V) + Count(z, V) = Count(c, V)  BY <2>1, CountSplit
 <2>3. Count(SubSeq(c, 1, k), V) = Count(a, V) + (IF c[k] \in V THEN 1 ELSE 0)
   BY <1>0, CountUpTo
 <2>4. Count(a, V) \in Nat /\ Count(z, V) \in Nat
   BY <1>1, <1>2, HitsFinite
 <2> HIDE DEF a, z
 <2>5. QED BY <2>2, <2>3, <2>4
<1> HIDE DEF a, z
<1> DEFINE d == a \o z
<1>4. /\ d \in Seq(S) /\ Len(d) = Len(c) - 1
      /\ \A i \in 1 .. Len(c) - 1 : d[i] = IF i < k THEN a[i] ELSE z[i - (k - 1)]
 <2>1. a \in Seq(S)  BY <1>1
 <2>2. z \in Seq(S)  BY <1>2
 <2>3. d \in Seq(S)  BY <2>1, <2>2
 <2>4. /\ Len(d) = Len(a) + Len(z)
       /\ \A i \in 1 .. Len(a) + Len(z) : d[i] = IF i <= Len(a) THEN a[i] ELSE z[i - Len(a)]
   BY <2>1, <2>2
 <2> HIDE DEF d
 <2>5. Len(a) = k - 1 /\ Len(a) + Len(z) = Len(c) - 1  BY <1>0, <1>1, <1>2
 <2>6. ASSUME NEW i \in 1 .. Len(c) - 1 PROVE d[i] = IF i < k THEN a[i] ELSE z[i - (k - 1)]
   BY <1>0, <2>4, <2>5
 <2>7. QED BY <2>3, <2>4, <2>5, <2>6
<1>5. ASSUME NEW i \in 1 .. Len(c) - 1 PROVE d[i] = IF i < k THEN c[i] ELSE c[i + 1]
 <2>1. CASE i < k
   BY <1>0, <1>1, <1>4, <2>1
 <2>2. CASE ~(i < k)
  <3>1. i - (k - 1) \in 1 .. Len(c) - k /\ k + (i - (k - 1)) = i + 1
    BY <1>0, <2>2
  <3>2. QED BY <1>2, <1>4, <2>2, <3>1
 <2>3. QED BY <2>1, <2>2
<1>6. ASSUME NEW V PROVE Count(d, V) = Count(a, V) + Count(z, V)
  BY <1>1, <1>2, CountConcat
<1>7. Drop(c, k) = d  BY DEF Drop, a, z, d
<1>8. ASSUME NEW V PROVE Count(c, V) = Count(d, V) + (IF c[k] \in V THEN 1 ELSE 0)
  BY <1>3, <1>6
<1> HIDE DEF d
<1>9. \A V : Count(c, V) = Count(d, V) + (IF c[k] \in V THEN 1 ELSE 0)
  BY <1>8
<1>10. QED BY <1>0, <1>4, <1>5, <1>7, <1>9

LEMMA DropOrder ==
  ASSUME NEW S, NEW c \in Seq(S), NEW k \in DOMAIN c, NEW R
  PROVE  (Rising(c, R) => Rising(Drop(c, k), R)) /\ From(Drop(c, k), c)
<1> DEFINE d == Drop(c, k)
<1>1. /\ d \in Seq(S) /\ Len(d) = Len(c) - 1 /\ Len(c) \in Nat \ {0}
      /\ \A i \in 1 .. Len(c) - 1 : d[i] = IF i < k THEN c[i] ELSE c[i + 1]
  BY DropIs
<1>2. DOMAIN d = 1 .. Len(c) - 1 /\ DOMAIN c = 1 .. Len(c) /\ k \in Nat
  BY <1>1
<1> HIDE DEF d
<1> DEFINE m(i) == IF i < k THEN i ELSE i + 1
<1>3. \A i \in DOMAIN d : m(i) \in DOMAIN c /\ d[i] = c[m(i)]
  BY <1>1, <1>2
<1>4. \A i, j \in DOMAIN d : i < j => m(i) < m(j)
  BY <1>2
<1> HIDE DEF m
<1>5. Rising(c, R) => Rising(d, R)  BY Zenon, <1>3, <1>4 DEF Rising
<1>6. From(d, c)  BY Zenon, <1>3 DEF From
<1>7. QED BY <1>5, <1>6 DEF d

LEMMA ClaimsDrop ==
  ASSUME NEW S, NEW h \in Seq(Claimed(S)), NEW k \in DOMAIN h
  PROVE  Claims(Drop(h, k)) = Drop(Claims(h), k) /\ Drop(h, k) \in Seq(Claimed(S))
<1> DEFINE d == Drop(h, k)
           c == Claims(h)
           a == Claims(d)
           b == Drop(c, k)
<1>1. /\ d \in Seq(Claimed(S)) /\ Len(d) = Len(h) - 1 /\ Len(h) \in Nat \ {0}
      /\ \A i \in 1 .. Len(h) - 1 : d[i] = IF i < k THEN h[i] ELSE h[i + 1]
  BY DropIs
<1>2. c \in Seq(S) /\ Len(c) = Len(h) /\ \A i \in 1 .. Len(h) : c[i] = h[i].p
  BY ClaimsIs
<1> HIDE DEF d, c
<1>3. a \in Seq(S) /\ Len(a) = Len(d) /\ \A i \in 1 .. Len(d) : a[i] = d[i].p
  BY <1>1, ClaimsIs
<1>4. k \in DOMAIN c  BY <1>2
<1>5. b \in Seq(S) /\ Len(b) = Len(c) - 1 /\ \A i \in 1 .. Len(c) - 1 : b[i] = IF i < k THEN c[i] ELSE c[i + 1]
  BY SMTT(60), <1>2, <1>4, DropIs
<1> HIDE DEF a, b
<1>6. ASSUME NEW i \in 1 .. Len(h) - 1 PROVE a[i] = b[i]
 <2>1. i \in 1 .. Len(h) /\ i + 1 \in 1 .. Len(h)
   BY <1>1
 <2>2. QED BY <1>1, <1>2, <1>3, <1>5, <2>1
<1>7. a = b  BY <1>1, <1>2, <1>3, <1>5, <1>6, SeqEqual
<1>8. QED BY <1>1, <1>7 DEF a, b, c, d

LEMMA SendingIs ==
  ASSUME NEW h \in Seq(Hand)
  PROVE  Sending(h) = Count(h, Wire) /\ Sending(h) \in Nat /\ Sending(h) <= Len(h)
<1>1. \A k \in DOMAIN h : h[k] \in Hand
  OBVIOUS
<1> DEFINE a == {k \in DOMAIN h : h[k].op = "sending"}
<1>2. a = Hits(h, Wire)  BY <1>1 DEF Hits, Wire
<1>3. Sending(h) = Count(h, Wire)  BY Zenon, <1>2 DEF Sending, Count
<1>4. QED BY <1>3, HitsFinite

LEMMA ClaimableIs ==
  ASSUME NEW q \in Seq(Control), NEW h \in Seq(Hand), NEW r \in RoundSet, Sending(h) <= MaxInFlight,
         r.final \/ r.resolved <= Quota, NEW n, n = Claimable(q, h, r)
  PROVE  n \in 0 .. Len(q) /\ n + Sending(h) <= MaxInFlight /\ (r.final \/ n + r.resolved <= Quota)
<1>0. Sending(h) \in Nat /\ Len(q) \in Nat /\ r.resolved \in Nat /\ MaxInFlight \in Nat
  BY SendingIs, ReporterAssumption DEF RoundSet
<1>1. CASE r.blocked \/ Expired
  BY <1>0, <1>1 DEF Claimable
<1>2. CASE ~(r.blocked \/ Expired)
 <2> DEFINE M == {i \in 0 .. Len(q) :
                    /\ i + Sending(h) <= MaxInFlight
                    /\ r.final \/ i + r.resolved <= Quota
                    /\ \A j \in 1 .. i : Due(q[j], r.final)}
 <2>1. n = Max(M)
   BY <1>2 DEF Claimable
 <2>2. 0 \in M /\ M \subseteq 0 .. Len(q)
   BY <1>0
 <2>3. n \in M
   BY <1>0, <2>1, <2>2, MaxIs
 <2>4. ASSUME NEW i \in M PROVE i \in 0 .. Len(q) /\ i + Sending(h) <= MaxInFlight /\ (r.final \/ i + r.resolved <= Quota)
   BY Zenon
 <2> HIDE DEF M
 <2>5. QED BY Zenon, <2>3, <2>4
<1>3. QED BY <1>1, <1>2

LEMMA Regroup ==
  ASSUME NEW S, NEW s \in Seq(S), NEW t \in Seq(S), NEW u \in Seq(S)
  PROVE  (s \o t) \o u = s \o (t \o u)
BY ConcatAssociative

LEMMA ConcatIs ==
  ASSUME NEW S, NEW s \in Seq(S), NEW t \in Seq(S)
  PROVE  /\ s \o t \in Seq(S) /\ Len(s \o t) = Len(s) + Len(t) /\ DOMAIN (s \o t) = 1 .. Len(s) + Len(t)
         /\ \A k \in 1 .. Len(s) : (s \o t)[k] = s[k]
         /\ \A k \in 1 .. Len(t) : (s \o t)[Len(s) + k] = t[k]
OBVIOUS

LEMMA RegroupAs ==
  ASSUME NEW S, NEW s \in Seq(S), NEW t \in Seq(S), NEW u \in Seq(S), NEW v, v = t \o u
  PROVE  (s \o t) \o u = s \o v
BY Regroup

(* What dispatch() claims leaves the queue at its head and joins the claims at *)
(* their end: the line is the same.                                            *)
SameLine(g, r, h, q) == Claims(g) \o r = Claims(h) \o q

Joined(q, h, n) == h \o [i \in 1 .. n |-> [p |-> q[i], op |-> "sending"]]
Rest(q, n) == SubSeq(q, n + 1, Len(q))

LEMMA TakenIs ==
  ASSUME NEW S, S \subseteq Control, NEW q \in Seq(S), NEW h \in Seq(Claimed(S)), NEW n \in 0 .. Len(q)
  PROVE  /\ Rest(q, n) \in Seq(S) /\ Len(Rest(q, n)) = Len(q) - n /\ Joined(q, h, n) \in Seq(Claimed(S))
         /\ Sending(Joined(q, h, n)) <= Sending(h) + n /\ SameLine(Joined(q, h, n), Rest(q, n), h, q)
         /\ (\A k \in DOMAIN h : h[k].op # "late") => (\A k \in DOMAIN Joined(q, h, n) : Joined(q, h, n)[k].op # "late")
<1> DEFINE g == Joined(q, h, n)
           r == Rest(q, n)
<1>s. g = h \o [i \in 1 .. n |-> [p |-> q[i], op |-> "sending"]] /\ r = SubSeq(q, n + 1, Len(q))
  BY DEF Joined, Rest
<1> HIDE DEF g, r
<1> DEFINE m == [i \in 1 .. n |-> [p |-> q[i], op |-> "sending"]]
           a == SubSeq(q, 1, n)
<1>0. Len(q) \in Nat /\ n \in Nat /\ Len(h) \in Nat /\ DOMAIN h = 1 .. Len(h)
  OBVIOUS
<1>1. a \in Seq(S) /\ r \in Seq(S) /\ a \o r = q /\ Len(r) = Len(q) - n /\ Len(a) = n /\ \A i \in 1 .. n : a[i] = q[i] /\ q[i] \in S
 <2>1. a \in Seq(S) /\ r \in Seq(S) /\ a \o r = q
   BY <1>s, CountSplit
 <2>2. Len(a) = n /\ \A i \in 1 .. n : a[i] = q[i] /\ q[i] \in S
   BY <1>0
 <2>3. Len(r) = Len(q) - n  BY <1>s, <1>0
 <2>4. QED BY Zenon, <2>1, <2>2, <2>3
<1>2. m \in Seq(Claimed(S)) /\ Len(m) = n /\ \A i \in 1 .. n : m[i].p = q[i] /\ m[i].op = "sending"
  BY <1>1, <1>0 DEF Claimed, Ops
<1>3. g = h \o m  BY Zenon, <1>s
<1> HIDE DEF m, a
<1>4. /\ g \in Seq(Claimed(S)) /\ Len(g) = Len(h) + n /\ DOMAIN g = 1 .. Len(h) + n
      /\ \A k \in 1 .. Len(h) : g[k] = h[k]
      /\ \A k \in 1 .. n : g[Len(h) + k] = m[k]
 <2>1. /\ h \o m \in Seq(Claimed(S)) /\ Len(h \o m) = Len(h) + Len(m) /\ DOMAIN (h \o m) = 1 .. Len(h) + Len(m)
       /\ \A k \in 1 .. Len(h) : (h \o m)[k] = h[k]
       /\ \A k \in 1 .. Len(m) : (h \o m)[Len(h) + k] = m[k]
  <3>1. m \in Seq(Claimed(S))  BY <1>2
  <3>2. QED BY SMT, <3>1, ConcatIs
 <2>2. QED BY Zenon, <1>2, <1>3, <2>1
<1>5. Claims(m) = a
  BY <1>2, ClaimsIs, <1>1, SeqEqual
<1>6. Claims(g) \o r = Claims(h) \o q
 <2>1. Claims(g) = Claims(h) \o a  BY Zenon, <1>2, <1>3, <1>5, ClaimsConcat
 <2>2. Claims(h) \in Seq(S)  BY ClaimsIs
 <2> DEFINE b == Claims(h)
 <2>3. b \in Seq(S)  BY <2>2
 <2> HIDE DEF b
 <2>4. (b \o a) \o r = b \o q
  <3>1. a \in Seq(S) /\ r \in Seq(S)
    BY Zenon, <1>1
  <3>2. (b \o a) \o r = b \o (a \o r)  BY SMTT(60), <2>3, <3>1, Regroup
  <3>3. a \o r = q  BY Zenon, <1>1
  <3>4. QED BY Zenon, <3>2, <3>3
 <2>5. QED BY Zenon, <2>1, <2>4 DEF b
<1>7. Sending(g) <= Sending(h) + n
 <2>1. Claimed(S) \subseteq Hand  BY DEF Claimed, Hand
 <2>2. h \in Seq(Hand) /\ m \in Seq(Hand) /\ g \in Seq(Hand)
   BY <1>2, <1>4, <2>1, SeqMonotonic
 <2>3. Count(g, Wire) = Count(h, Wire) + Count(m, Wire)
   BY <2>2, CountConcat, <1>3
 <2>4. Count(m, Wire) \in Nat /\ Count(m, Wire) <= n /\ Count(h, Wire) \in Nat
   BY <1>2, <2>2, HitsFinite
 <2>5. Sending(g) = Count(g, Wire) /\ Sending(h) = Count(h, Wire)
   BY <2>2, SendingIs
 <2>6. QED BY <1>0, <2>3, <2>4, <2>5
<1>8. ASSUME \A k \in DOMAIN h : h[k].op # "late", NEW k \in DOMAIN g PROVE g[k].op # "late"
 <2>1. CASE k <= Len(h)
   BY <1>0, <1>4, <2>1, <1>8
 <2>2. CASE k > Len(h)
  <3>1. k - Len(h) \in 1 .. n /\ Len(h) + (k - Len(h)) = k
    BY <1>0, <1>4, <2>2
  <3>2. g[k] = m[k - Len(h)]  BY <1>4, <3>1
  <3>3. QED BY <1>2, <3>1, <3>2
 <2>3. QED BY <1>0, <1>4, <2>1, <2>2
<1>9. QED BY Zenon, <1>1, <1>4, <1>6, <1>7, <1>8 DEF SameLine, g, r

-----------------------------------------------------------------------------
LEMMA DispatchIs ==
  ASSUME NEW s \in Stages, NEW qs \in [Stages -> Seq(Control)], NEW h \in Seq(HandOf(s)), NEW r \in RoundSet,
         qs[s] \in Seq(Entry(IdsOf(s))), Sending(h) <= MaxInFlight, r.final \/ r.resolved <= Quota,
         \A k \in DOMAIN h : h[k].op # "late", Dispatch(s, qs, h, r)
  PROVE  /\ queue' \in [Stages -> Seq(Control)] /\ \A t \in Stages \ {s} : queue'[t] = qs[t]
         /\ queue'[s] \in Seq(Entry(IdsOf(s))) /\ Len(queue'[s]) <= Len(qs[s])
         /\ hand' \in Seq(HandOf(s)) /\ Sending(hand') <= MaxInFlight
         /\ SameLine(hand', queue'[s], h, qs[s])
         /\ \A k \in DOMAIN hand' : hand'[k].op # "late"
         /\ round' \in RoundSet /\ (round'.final \/ round'.resolved <= Quota) /\ round'.final = r.final
<1> DEFINE q == qs[s]
           n == Claimable(q, h, r)
           g == Joined(q, h, n)
           l == Rest(q, n)
           S == Entry(IdsOf(s))
<1>1. queue' = [qs EXCEPT ![s] = l] /\ hand' = g
      /\ round' = [r EXCEPT !.resolved = IF r.final THEN @ ELSE @ + n]
  BY DEF Dispatch, Joined, Rest
<1>2. q \in Seq(S) /\ h \in Seq(Claimed(S)) /\ S \subseteq Control /\ h \in Seq(Hand) /\ q \in Seq(Control)
  BY StageSubset, EntrySubset, IdsAre DEF HandOf, Control
<1> HIDE DEF q
<1>3. n \in 0 .. Len(q) /\ n + Sending(h) <= MaxInFlight /\ (r.final \/ n + r.resolved <= Quota)
  BY <1>2, ClaimableIs
<1>n. n \in Nat  BY <1>2, <1>3
<1> HIDE DEF n, S
<1>4. /\ l \in Seq(S) /\ Len(l) = Len(q) - n /\ g \in Seq(Claimed(S))
      /\ Sending(g) <= Sending(h) + n /\ SameLine(g, l, h, q)
      /\ \A k \in DOMAIN g : g[k].op # "late"
  BY <1>2, <1>3, TakenIs DEF l, g
<1> HIDE DEF l, g
<1>5. queue' \in [Stages -> Seq(Control)] /\ queue'[s] = l /\ \A t \in Stages \ {s} : queue'[t] = qs[t]
  BY <1>2, <1>4, SeqMonotonic, <1>1
<1>6. Len(l) <= Len(q) /\ Sending(g) <= MaxInFlight
  BY <1>4, StageSubset, <1>2, SendingIs, ReporterAssumption, <1>3 DEF S, HandOf
<1>7. round' \in RoundSet /\ (round'.final \/ round'.resolved <= Quota) /\ round'.final = r.final
 <2> DEFINE v == IF r.final THEN r.resolved ELSE r.resolved + n
 <2>1. v \in Nat /\ (r.final \/ v <= Quota)
   BY <1>2, <1>3 DEF RoundSet
 <2>2. round' = [r EXCEPT !.resolved = v]  BY <1>1
 <2> HIDE DEF v
 <2>3. QED BY <2>1, <2>2 DEF RoundSet
<1>8. QED BY <1>1, <1>4, <1>5, <1>6, <1>7 DEF q, S, HandOf

ControlOrder == {r \in Controls \X Controls : r[1] < r[2]}

LineIn(p, h, qs, s) == (IF p = s THEN Claims(h) ELSE <<>>) \o qs[s]
Line(s) == LineIn(phase, hand, queue, s)
HeldIn(x, qs, h) == Of(qs["confirms"], x) + Of(qs["settlements"], x) + Of(Claims(h), x)
Waiting(x) == If(x \in fresh) + HeldIn(x, queue, hand)

(* A line in the order of the callers: rising, and older than what is not handed in yet. *)
InOrder(l, s, F) == Rising(l, ControlOrder) /\ \A c \in F \cap IdsOf(s) : Under(l, c, ControlOrder)

Queues(qs) ==
  /\ qs \in [Stages -> Seq(Control)]
  /\ \A s \in Stages : qs[s] \in Seq(Entry(IdsOf(s))) /\ Len(qs[s]) <= ControlMax

ControlInv ==
  /\ fresh \subseteq AllIds /\ Queues(queue)
  /\ phase \in {"idle", "confirms", "settlements", "events"} /\ round \in RoundSet
  /\ hand \in Seq(Hand) /\ (phase \in Stages => hand \in Seq(HandOf(phase))) /\ (phase \notin Stages => hand = <<>>)
  /\ Sending(hand) <= MaxInFlight /\ (round.final \/ round.resolved <= Quota)
  /\ \A k \in DOMAIN hand : hand[k].op = "late" => Expired
LinesInv == \A s \in Stages : InOrder(Line(s), s, fresh)

LEMMA EmptyLine ==
  ASSUME NEW S, NEW q \in Seq(S)
  PROVE  <<>> \o q = q
OBVIOUS

LEMMA LineIs ==
  ASSUME NEW qs, Queues(qs), NEW h \in Seq(Hand), NEW p, NEW s \in Stages
  PROVE  /\ LineIn(p, h, qs, s) \in Seq(Control) /\ qs[s] \in Seq(Control) /\ Claims(h) \in Seq(Control)
         /\ p = s => LineIn(p, h, qs, s) = Claims(h) \o qs[s]
         /\ p # s => LineIn(p, h, qs, s) = qs[s]
<1>1. qs[s] \in Seq(Control) /\ Claims(h) \in Seq(Control)
  BY ClaimsIs DEF Queues, Hand
<1>2. CASE p = s
  BY <1>2, <1>1 DEF LineIn
<1>3. CASE p # s
  BY <1>3, <1>1, EmptyLine DEF LineIn
<1>4. QED BY Zenon, <1>2, <1>3

LEMMA OfSameLine ==
  ASSUME NEW g \in Seq(Hand), NEW r \in Seq(Control), NEW h \in Seq(Hand), NEW q \in Seq(Control), SameLine(g, r, h, q), NEW x
  PROVE  Of(Claims(g), x) + Of(r, x) = Of(Claims(h), x) + Of(q, x)
<1>1. Claims(g) \in Seq(Control) /\ Claims(h) \in Seq(Control)
  BY ClaimsIs DEF Hand
<1> DEFINE a == Claims(g)
           b == Claims(h)
<1>2. a \in Seq(Control) /\ b \in Seq(Control)
  BY <1>1
<1>3. a \o r = b \o q  BY Zenon DEF SameLine
<1> HIDE DEF a, b
<1>4. Of(a \o r, x) = Of(a, x) + Of(r, x)  BY <1>2, OfConcat
<1>5. Of(b \o q, x) = Of(b, x) + Of(q, x)  BY <1>2, OfConcat
<1>6. QED BY Zenon, <1>3, <1>4, <1>5 DEF a, b

LEMMA HeldNat ==
  ASSUME NEW qs, Queues(qs), NEW h \in Seq(Hand), NEW x
  PROVE  /\ Of(qs["confirms"], x) \in Nat /\ Of(qs["settlements"], x) \in Nat /\ Of(Claims(h), x) \in Nat
         /\ HeldIn(x, qs, h) \in Nat
<1>1. qs["confirms"] \in Seq(Control) /\ qs["settlements"] \in Seq(Control) /\ Claims(h) \in Seq(Control)
  BY LineIs DEF Stages
<1>2. Of(qs["confirms"], x) \in Nat /\ Of(qs["settlements"], x) \in Nat /\ Of(Claims(h), x) \in Nat
  BY <1>1, OfIs
<1>3. QED BY <1>2 DEF HeldIn

LEMMA DispatchStep ==
  ASSUME NEW s \in Stages, NEW qs, Queues(qs), NEW h \in Seq(HandOf(s)), NEW r \in RoundSet,
         Sending(h) <= MaxInFlight, r.final \/ r.resolved <= Quota,
         \A k \in DOMAIN h : h[k].op # "late", Dispatch(s, qs, h, r), phase' = s, fresh' = fresh, fresh \subseteq AllIds,
         \A t \in Stages : InOrder(LineIn(s, h, qs, t), t, fresh)
  PROVE  /\ ControlInv' /\ LinesInv' /\ \A x : HeldIn(x, queue', hand') = HeldIn(x, qs, h)
         /\ round'.final = r.final /\ phase' \in Stages
<1>1. /\ queue' \in [Stages -> Seq(Control)] /\ \A t \in Stages \ {s} : queue'[t] = qs[t]
      /\ queue'[s] \in Seq(Entry(IdsOf(s))) /\ Len(queue'[s]) <= Len(qs[s])
      /\ hand' \in Seq(HandOf(s)) /\ Sending(hand') <= MaxInFlight
      /\ SameLine(hand', queue'[s], h, qs[s])
      /\ \A k \in DOMAIN hand' : hand'[k].op # "late"
      /\ round' \in RoundSet /\ (round'.final \/ round'.resolved <= Quota) /\ round'.final = r.final
  BY DispatchIs DEF Queues
<1>2. hand' \in Seq(Hand) /\ h \in Seq(Hand)
  BY <1>1, StageSubset
<1>3. Queues(queue')
 <2>1. \A t \in Stages : queue'[t] \in Seq(Entry(IdsOf(t))) /\ Len(queue'[t]) <= ControlMax
  <3>1. ASSUME NEW t \in Stages, t # s PROVE queue'[t] \in Seq(Entry(IdsOf(t))) /\ Len(queue'[t]) <= ControlMax
    BY <1>1, <3>1 DEF Queues
  <3>2. queue'[s] \in Seq(Entry(IdsOf(s))) /\ Len(queue'[s]) <= ControlMax
    BY <1>1, ReporterAssumption DEF Queues
  <3>3. QED BY <3>1, <3>2
 <2>2. QED BY <1>1, <2>1 DEF Queues
<1>4. ControlInv'
 <2>1. phase' \in {"idle", "confirms", "settlements", "events"} /\ phase' \in Stages
   BY DEF Stages
 <2>2. (fresh \subseteq AllIds)' /\ Queues(queue)'
   BY <1>3
 <2>3. (\A k \in DOMAIN hand : hand[k].op = "late" => Expired)'
   BY <1>1
 <2>4. (Sending(hand) <= MaxInFlight)' /\ (round.final \/ round.resolved <= Quota)'
   BY <1>1
 <2>5. QED BY <1>1, <1>2, <2>1, <2>2, <2>3, <2>4 DEF ControlInv
<1>5. ASSUME NEW t \in Stages PROVE LineIn(s, hand', queue', t) = LineIn(s, h, qs, t)
 <2>1. CASE t = s
  <3>1. LineIn(s, hand', queue', s) = Claims(hand') \o queue'[s] /\ LineIn(s, h, qs, s) = Claims(h) \o qs[s]
    BY Zenon, <1>2, <1>3, LineIs
  <3>2. QED BY Zenon, <1>1, <2>1, <3>1 DEF SameLine
 <2>2. CASE t # s
  <3>1. LineIn(s, hand', queue', t) = queue'[t] /\ LineIn(s, h, qs, t) = qs[t]
    BY Zenon, <1>2, <1>3, <2>2, LineIs
  <3>2. QED BY <1>1, <2>2, <3>1
 <2>3. QED BY <2>1, <2>2
<1>6. LinesInv'
 <2>1. ASSUME NEW t \in Stages PROVE InOrder(Line(t), t, fresh)'
   BY <1>5 DEF Line, InOrder
 <2>2. QED BY Zenon, <2>1 DEF LinesInv
<1>7. ASSUME NEW x PROVE HeldIn(x, queue', hand') = HeldIn(x, qs, h)
 <2> DEFINE g == hand'
            r0 == queue'[s]
            q0 == qs[s]
            n(u, t) == Of(u[t], x)
            gn == Of(Claims(g), x)
            hn == Of(Claims(h), x)
 <2>1. g \in Seq(Hand) /\ r0 \in Seq(Control) /\ q0 \in Seq(Control) /\ SameLine(g, r0, h, q0)
   BY <1>1, <1>2, <1>3, LineIs
 <2>2. gn + n(queue', s) = hn + n(qs, s)
  <3>0. h \in Seq(Hand)  BY <1>2
  <3> DEFINE lhs == Of(Claims(g), x) + Of(r0, x)
             rhs == Of(Claims(h), x) + Of(q0, x)
  <3>1. lhs = rhs
    BY <2>1, <3>0, OfSameLine
  <3>2. QED BY Zenon, <3>1
 <2>3. /\ n(qs, "confirms") \in Nat /\ n(qs, "settlements") \in Nat /\ hn \in Nat
       /\ n(queue', "confirms") \in Nat /\ n(queue', "settlements") \in Nat /\ gn \in Nat
   BY Zenon, <1>2, <1>3, HeldNat
 <2>4. \A t \in Stages \ {s} : n(queue', t) = n(qs, t)
   BY Zenon, <1>1
 <2>5. n(queue', "confirms") + n(queue', "settlements") + gn = n(qs, "confirms") + n(qs, "settlements") + hn
  <3> DEFINE c1 == n(queue', "confirms")
             s1 == n(queue', "settlements")
             c0 == n(qs, "confirms")
             s0 == n(qs, "settlements")
  <3>0. c1 \in Nat /\ s1 \in Nat /\ c0 \in Nat /\ s0 \in Nat /\ gn \in Nat /\ hn \in Nat
    BY Zenon, <2>3
  <3>1. CASE s = "confirms"
    BY <3>1, <2>2, <2>4, <3>0 DEF Stages, c1, s1, c0, s0
  <3>2. CASE s = "settlements"
   <4>1. "confirms" \in Stages \ {s}  BY <3>2 DEF Stages
   <4>2. c1 = c0 /\ gn + s1 = hn + s0
     BY Zenon, <2>2, <2>4, <3>2, <4>1
   <4> HIDE DEF c1, s1, c0, s0, gn, hn
   <4>3. c1 + s1 + gn = c0 + s0 + hn  BY <3>0, <4>2
   <4>4. QED BY Zenon, <4>3 DEF c1, s1, c0, s0
  <3>3. QED BY Zenon, <3>1, <3>2 DEF Stages
 <2>6. QED BY Zenon, <2>5 DEF HeldIn
<1>8. QED BY Zenon, <1>1, <1>4, <1>6, <1>7

(* Every event has one place: in the books, in the batch, still with its        *)
(* settlement or with its caller, taken, or in a refused aggregate.             *)
EventsInOrder(l, F) == Rising(l, EventOrder) /\ \A e \in F \cap Events : Under(l, {e}, EventOrder)

EventInv ==
  /\ GoodBook(books) /\ batch \in Seq(EventEntry) /\ Len(batch) <= BatchSize
  /\ closing = "open" => Len(books.queue) <= MaxQueueSize
  /\ EventsInOrder(batch \o books.queue, fresh)

Owed(e) == Count(batch, Holding(e)) + If(e \in delivered) + If(e \in uncounted)

PlacesInv ==
  /\ confirmed \subseteq Controls /\ dropped \in [Controls -> Nat] /\ recounted \subseteq Controls
  /\ delivered \subseteq EventIds /\ uncounted \subseteq EventIds
  /\ \A c \in Controls : Waiting(c) + If(c \in confirmed) + dropped[c] = 1 + If(c \in recounted)
  /\ \A e \in EventIds : Waiting(e) + Places(books, e) + Owed(e) = 1

LateHand(c) == \E k \in DOMAIN hand : hand[k].op = "late" /\ hand[k].p.of = c
RecountInv == \A c \in recounted : dropped[c] >= 1 /\ Expired /\ (closing = "sealed" \/ LateHand(c))

CloseInv ==
  /\ closing \in {"open", "joining", "flushing", "sealed"}
  /\ batch # <<>> => phase = "events"
  /\ closing = "open" => deadline = "none"
  /\ closing = "sealed" => /\ phase = "idle" /\ queue["confirms"] = <<>> /\ queue["settlements"] = <<>>
                           /\ books.queue = <<>> /\ books.terminal

LEMMA IfIs ==
  ASSUME NEW x, NEW S
  PROVE  If(x \in S) \in Nat /\ If(x \in S) <= 1 /\ (x \in S => If(x \in S) = 1) /\ (x \notin S => If(x \in S) = 0)
BY DEF If

LEMMA SingleId ==
  ASSUME NEW e \in EventIds
  PROVE  {e} \in Ids
<1>1. {e} \subseteq Denied => OneKey({e})  BY DEF OneKey
<1>2. QED BY <1>1 DEF Ids

LEMMA PlainFromFrom ==
  ASSUME NEW s, NEW t, From(t, s)
  PROVE  PlainFrom(t, s)
BY DEF From, PlainFrom

LEMMA OrderedLine ==
  ASSUME NEW l \in Seq(EventEntry), NEW m \in Seq(EventEntry), NEW F, NEW G, G \subseteq F,
         EventsInOrder(l, F), Rising(m, EventOrder), PlainFrom(m, l)
  PROVE  EventsInOrder(m, G)
<1>1. ASSUME NEW e \in G \cap Events, NEW i \in DOMAIN m
      PROVE  <<m[i].of, {e}>> \in EventOrder
 <2>1. m[i].of \in Ids /\ {e} \in Ids
  <3>1. m[i] \in EventEntry  BY <1>1
  <3>2. {e} \in Ids  BY <1>1, SingleId DEF EventIds
  <3>3. QED BY <3>1, <3>2 DEF EventEntry, Entry
 <2>2. CASE m[i].of \subseteq Plain
   BY <1>1, <2>2 DEF PlainFrom, EventsInOrder, Under
 <2>3. CASE ~(m[i].of \subseteq Plain)
   BY <2>1, <2>3 DEF EventOrder
 <2>4. QED BY <2>2, <2>3
<1>2. QED BY <1>1 DEF EventsInOrder, Under

LEMMA OrderedTail ==
  ASSUME NEW s \in Seq(EventEntry), NEW q \in Seq(EventEntry), NEW r \in Seq(EventEntry), NEW F, NEW G, G \subseteq F,
         EventsInOrder(s \o q, F), PlainFrom(r, q), Rising(q, EventOrder) => Rising(r, EventOrder)
  PROVE  EventsInOrder(s \o r, G)
<1>1. Rising(s, EventOrder) /\ Rising(q, EventOrder) /\ Below(s, q, EventOrder)
  BY RisingConcat DEF EventsInOrder
<1>2. Below(s, r, EventOrder)
 <2>1. ASSUME NEW i \in DOMAIN s, NEW j \in DOMAIN r PROVE <<s[i].of, r[j].of>> \in EventOrder
  <3>1. s[i] \in EventEntry /\ r[j] \in EventEntry
    BY <2>1
  <3>2. s[i].of \in Ids /\ r[j].of \in Ids
    BY <3>1 DEF EventEntry, Entry
  <3>3. CASE r[j].of \subseteq Plain
    BY <2>1, <3>3, <1>1 DEF PlainFrom, Below
  <3>4. CASE ~(r[j].of \subseteq Plain)
    BY <3>2, <3>4 DEF EventOrder
  <3>5. QED BY <3>3, <3>4
 <2>2. QED BY <2>1 DEF Below
<1>3. Rising(s \o r, EventOrder)
  BY <1>1, <1>2, RisingConcat
<1>4. PlainFrom(s \o r, s \o q)
 <2>1. From(s, s \o q) /\ From(q, s \o q)
   BY FromConcat
 <2>2. ASSUME NEW k \in DOMAIN (s \o r), (s \o r)[k].of \subseteq Plain
       PROVE  \E i \in DOMAIN (s \o q) : (s \o r)[k].of = (s \o q)[i].of
  <3> DEFINE u == s \o r
             v == s \o q
  <3>0. /\ \A i \in 1 .. Len(s) : u[i] = s[i] /\ i \in DOMAIN s
        /\ \A j \in 1 .. Len(r) : u[Len(s) + j] = r[j] /\ j \in DOMAIN r
        /\ DOMAIN u = 1 .. Len(s) + Len(r) /\ Len(s) \in Nat /\ Len(r) \in Nat
    BY ConcatIs
  <3>01. From(s, v) /\ From(q, v) /\ k \in DOMAIN u /\ u[k].of \subseteq Plain
    BY <2>1, <2>2
  <3> HIDE DEF u, v
  <3>1. CASE k \in 1 .. Len(s)
    BY <3>0, <3>01, <3>1 DEF From
  <3>2. CASE k \notin 1 .. Len(s)
   <4>1. k - Len(s) \in 1 .. Len(r) /\ u[k] = r[k - Len(s)]
     BY <3>0, <3>01, <3>2
   <4>2. PICK j \in DOMAIN q : u[k].of = q[j].of
     BY <3>0, <3>01, <4>1 DEF PlainFrom
   <4>3. PICK i \in DOMAIN v : q[j].of = v[i].of
     BY <3>01 DEF From
   <4>4. QED BY <4>2, <4>3 DEF u, v
  <3>3. QED BY <3>1, <3>2 DEF u, v
 <2>3. QED BY Zenon, <2>2 DEF PlainFrom
<1>5. s \o q \in Seq(EventEntry) /\ s \o r \in Seq(EventEntry)
  BY ConcatIs
<1>6. QED BY <1>3, <1>4, <1>5, OrderedLine

(* A step that leaves the batch alone and the queue in its order. *)
LEMMA EventStep ==
  ASSUME EventInv, GoodBook(books'), PlainFrom(books'.queue, books.queue),
         Rising(books.queue, EventOrder) => Rising(books'.queue, EventOrder),
         batch' = batch, fresh' \subseteq fresh, closing' = "open" => Len(books'.queue) <= MaxQueueSize
  PROVE  EventInv'
<1> DEFINE q == books.queue
           r == books'.queue
           F == fresh
           G == fresh'
<1>1. q \in Seq(EventEntry) /\ r \in Seq(EventEntry) /\ batch \in Seq(EventEntry)
  BY BookFields DEF EventInv, GoodBook
<1>2. EventsInOrder(batch \o q, F) /\ PlainFrom(r, q) /\ (Rising(q, EventOrder) => Rising(r, EventOrder)) /\ G \subseteq F
  BY DEF EventInv
<1> HIDE DEF q, r, F, G
<1>3. EventsInOrder(batch \o r, G)  BY <1>1, <1>2, OrderedTail
<1>4. EventsInOrder(batch' \o books'.queue, fresh')  BY Zenon, <1>3 DEF r, G
<1>5. (EventsInOrder(batch \o books.queue, fresh))'  BY Zenon, <1>4 DEF EventsInOrder
<1>6. (GoodBook(books))' /\ (batch \in Seq(EventEntry) /\ Len(batch) <= BatchSize)'
      /\ (closing = "open" => Len(books.queue) <= MaxQueueSize)'
  BY DEF EventInv
<1>7. QED BY Zenon, <1>5, <1>6 DEF EventInv

LEMMA WaitingNat ==
  ASSUME ControlInv, NEW x
  PROVE  /\ Waiting(x) \in Nat /\ HeldIn(x, queue, hand) \in Nat /\ Waiting(x) = If(x \in fresh) + HeldIn(x, queue, hand)
         /\ Of(queue["confirms"], x) \in Nat /\ Of(queue["settlements"], x) \in Nat /\ Of(Claims(hand), x) \in Nat
         /\ HeldIn(x, queue, hand) = Of(queue["confirms"], x) + Of(queue["settlements"], x) + Of(Claims(hand), x)
<1>1. Queues(queue) /\ hand \in Seq(Hand)
  BY DEF ControlInv
<1>2. HeldIn(x, queue, hand) \in Nat
      /\ Of(queue["confirms"], x) \in Nat /\ Of(queue["settlements"], x) \in Nat /\ Of(Claims(hand), x) \in Nat
  BY <1>1, HeldNat
<1>3. If(x \in fresh) \in Nat  BY IfIs
<1>4. QED BY <1>2, <1>3 DEF Waiting, HeldIn

LEMMA OwedNat ==
  ASSUME EventInv, NEW e
  PROVE  Owed(e) \in Nat /\ Count(batch, Holding(e)) \in Nat /\ If(e \in delivered) \in Nat /\ If(e \in uncounted) \in Nat
<1>1. batch \in Seq(EventEntry)  BY DEF EventInv
<1>2. Count(batch, Holding(e)) \in Nat  BY <1>1, HitsFinite
<1>3. QED BY <1>2, IfIs DEF Owed

(* What is decided leaves its stage: its confirm is taken or counted, its event goes to the books. *)
LEMMA DecideStep ==
  ASSUME ControlInv, ControlInv', EventInv, PlacesInv, NEW s \in Stages, NEW out \in Seq(Entry(IdsOf(s))),
         \A x \in AllIds : Waiting(x)' + Of(out, x) = Waiting(x), books' = EventsOf(books, s, out),
         batch' = batch, delivered' = delivered, uncounted' = uncounted, recounted' = recounted, closing' = closing,
         fresh' \subseteq fresh, confirmed' \subseteq Controls, dropped' \in [Controls -> Nat],
         \A c \in Controls : If(c \in confirmed') + dropped'[c] = If(c \in confirmed) + dropped[c] + Of(out, c)
  PROVE  PlacesInv' /\ EventInv' /\ books'.terminal = books.terminal
<1>1. GoodBook(books) /\ books \in BookSet
  BY DEF EventInv, GoodBook
<1>2. \A x : Of(out, x) \in Nat
  BY StageSubset, OfIs
<1>3. \A x : Waiting(x) \in Nat /\ Waiting(x)' \in Nat
 <2>1. ASSUME NEW x PROVE Waiting(x) \in Nat
   BY WaitingNat
 <2>2. ASSUME NEW x PROVE Waiting(x)' \in Nat
   BY HeldNat, IfIs DEF ControlInv, Waiting
 <2>3. QED BY Zenon, <2>1, <2>2
<1>4. \A e \in EventIds : Owed(e) \in Nat /\ Owed(e)' = Owed(e)
  BY OwedNat DEF Owed
<1>5. \A e \in EventIds : Places(books, e) + Of(out, e) <= 1
 <2>1. ASSUME NEW e \in EventIds PROVE Places(books, e) + Of(out, e) <= 1
  <3>1. Waiting(e) + Places(books, e) + Owed(e) = 1 /\ Waiting(e)' + Of(out, e) = Waiting(e)
    BY IdsAre DEF PlacesInv
  <3>2. Places(books, e) \in Nat /\ Of(out, e) \in Nat /\ Owed(e) \in Nat /\ Waiting(e) \in Nat /\ Waiting(e)' \in Nat
    BY <1>1, <1>2, <1>3, <1>4, PlacesNat
  <3>3. QED BY <3>1, <3>2
 <2>2. QED BY <2>1
<1> DEFINE b == books'
<1>6. /\ GoodBook(b) /\ b.terminal = books.terminal
      /\ \A e \in EventIds : Places(b, e) = Places(books, e) + Of(out, e)
      /\ PlainFrom(b.queue, books.queue) /\ (Rising(books.queue, EventOrder) => Rising(b.queue, EventOrder))
      /\ closing = "open" /\ Len(books.queue) <= MaxQueueSize => Len(b.queue) <= MaxQueueSize
  BY <1>1, <1>5, EventsOfIs
<1>7. EventInv'
  BY <1>6, EventStep DEF EventInv
<1>8. ASSUME NEW c \in Controls
      PROVE  Waiting(c)' + If(c \in confirmed') + dropped'[c] = 1 + If(c \in recounted)
 <2>1. Waiting(c) + If(c \in confirmed) + dropped[c] = 1 + If(c \in recounted)  BY DEF PlacesInv
 <2>2. Waiting(c)' + Of(out, c) = Waiting(c) /\ If(c \in confirmed') + dropped'[c] = If(c \in confirmed) + dropped[c] + Of(out, c)
   BY IdsAre
 <2>3. /\ Waiting(c)' \in Nat /\ Waiting(c) \in Nat /\ Of(out, c) \in Nat /\ dropped[c] \in Nat /\ dropped'[c] \in Nat
       /\ If(c \in confirmed) \in Nat /\ If(c \in confirmed') \in Nat /\ If(c \in recounted) \in Nat
   BY IfIs, <1>2, <1>3 DEF PlacesInv
 <2> DEFINE w1 == Waiting(c)'
            w0 == Waiting(c)
            i1 == If(c \in confirmed')
            i0 == If(c \in confirmed)
            d1 == dropped'[c]
            d0 == dropped[c]
 <2>4. w0 + i0 + d0 = 1 + If(c \in recounted) /\ w1 + Of(out, c) = w0 /\ i1 + d1 = i0 + d0 + Of(out, c)
   BY Zenon, <2>1, <2>2
 <2>5. w1 \in Nat /\ w0 \in Nat /\ Of(out, c) \in Nat /\ d0 \in Nat /\ d1 \in Nat /\ i0 \in Nat /\ i1 \in Nat /\ If(c \in recounted) \in Nat
   BY Zenon, <2>3
 <2> DEFINE o == Of(out, c)
            n == If(c \in recounted)
 <2>6. w0 + i0 + d0 = 1 + n /\ w1 + o = w0 /\ i1 + d1 = i0 + d0 + o /\ o \in Nat /\ n \in Nat
   BY Zenon, <2>4, <2>5
 <2> HIDE DEF w1, w0, i1, i0, d1, d0, o, n
 <2>7. w1 + i1 + d1 = 1 + n  BY <2>5, <2>6
 <2>8. QED BY Zenon, <2>7 DEF w1, i1, d1, n
<1>9. ASSUME NEW e \in EventIds
      PROVE  Waiting(e)' + Places(books', e) + Owed(e)' = 1
 <2>1. Waiting(e) + Places(books, e) + Owed(e) = 1 /\ Owed(e)' = Owed(e) /\ Owed(e) \in Nat
   BY <1>4 DEF PlacesInv
 <2>2. Waiting(e)' + Of(out, e) = Waiting(e) /\ Places(books', e) = Places(books, e) + Of(out, e)
   BY <1>6, IdsAre
 <2>3. Waiting(e)' \in Nat /\ Waiting(e) \in Nat /\ Of(out, e) \in Nat /\ Places(books, e) \in Nat /\ Places(books', e) \in Nat
   BY <1>6, <1>1, <1>2, <1>3, PlacesNat DEF GoodBook
 <2> DEFINE w1 == Waiting(e)'
            w0 == Waiting(e)
            p1 == Places(books', e)
            p0 == Places(books, e)
            o1 == Owed(e)'
            o0 == Owed(e)
 <2>4. w0 + p0 + o0 = 1 /\ o1 = o0 /\ w1 + Of(out, e) = w0 /\ p1 = p0 + Of(out, e)
   BY Zenon, <2>1, <2>2
 <2>5. w1 \in Nat /\ w0 \in Nat /\ Of(out, e) \in Nat /\ p0 \in Nat /\ p1 \in Nat /\ o0 \in Nat
   BY Zenon, <2>1, <2>3
 <2> HIDE DEF w1, w0, p1, p0, o1, o0
 <2>6. w1 + p1 + o1 = 1  BY <2>4, <2>5
 <2>7. QED BY Zenon, <2>6 DEF w1, p1, o1
<1>10. PlacesInv'
  BY <1>8, <1>9 DEF PlacesInv
<1>11. QED BY Zenon, <1>6, <1>7, <1>10

RepInv == ControlInv /\ LinesInv /\ EventInv /\ PlacesInv /\ RecountInv /\ CloseInv

LEMMA RecountStep ==
  ASSUME RecountInv, ~Expired, recounted' = recounted
  PROVE  RecountInv'
<1>1. recounted' = {}  BY DEF RecountInv
<1>2. QED BY Zenon, <1>1 DEF RecountInv

LEMMA CloseStep ==
  ASSUME CloseInv, closing' = closing, deadline' = deadline, closing # "sealed", batch' # <<>> => phase' = "events"
  PROVE  CloseInv'
BY DEF CloseInv, Expired

LEMMA InOrderFrom ==
  ASSUME NEW l, NEW m, NEW s, NEW F, NEW G, G \subseteq F, InOrder(l, s, F), Rising(m, ControlOrder), From(m, l)
  PROVE  InOrder(m, s, G)
<1>1. ASSUME NEW c \in G \cap IdsOf(s) PROVE Under(m, c, ControlOrder)
  BY <1>1, UnderFrom DEF InOrder
<1>2. QED BY <1>1 DEF InOrder

(* Claims that come from the claims, in their order, keep the line in order. *)
LEMMA HandOrder ==
  ASSUME ControlInv, LinesInv, InStage, NEW h \in Seq(Hand),
         From(Claims(h), Claims(hand)), Rising(Claims(hand), ControlOrder) => Rising(Claims(h), ControlOrder)
  PROVE  \A t \in Stages : InOrder(LineIn(phase, h, queue, t), t, fresh)
<1>1. Queues(queue) /\ hand \in Seq(Hand)
  BY DEF ControlInv
<1>2. ASSUME NEW t \in Stages PROVE InOrder(LineIn(phase, h, queue, t), t, fresh)
 <2>1. InOrder(LineIn(phase, hand, queue, t), t, fresh)  BY Zenon DEF LinesInv, Line
 <2>2. CASE phase = t
  <3> DEFINE c == Claims(hand)
             d == Claims(h)
             q == queue[t]
  <3>1. c \in Seq(Control) /\ d \in Seq(Control) /\ q \in Seq(Control)
    BY Zenon, <1>1, LineIs
  <3>2. LineIn(phase, hand, queue, t) = c \o q /\ LineIn(phase, h, queue, t) = d \o q
    BY Zenon, <1>1, <2>2, LineIs
  <3>3. InOrder(c \o q, t, fresh)  BY Zenon, <2>1, <3>2
  <3>4. From(d, c) /\ (Rising(c, ControlOrder) => Rising(d, ControlOrder))
    OBVIOUS
  <3> HIDE DEF c, d, q
  <3>5. Rising(c \o q, ControlOrder)  BY Zenon, <3>3 DEF InOrder
  <3>6. From(q, q)  BY DEF From
  <3>7. Rising(d \o q, ControlOrder) /\ From(d \o q, c \o q)
    BY <3>1, <3>4, <3>5, <3>6, LineOf
  <3>8. InOrder(d \o q, t, fresh)  BY <3>3, <3>7, InOrderFrom
  <3>9. QED BY Zenon, <3>2, <3>8
 <2>3. CASE phase # t
   BY <1>1, <2>3, LineIs, <2>1
 <2>4. QED BY <2>2, <2>3
<1>3. QED BY <1>2

LEMMA WithoutIs ==
  ASSUME ControlInv, LinesInv, NEW k, Current(k)
  PROVE  /\ phase \in Stages /\ Without(k) \in Seq(HandOf(phase)) /\ Sending(Without(k)) <= MaxInFlight
         /\ \A j \in DOMAIN Without(k) : Without(k)[j].op # "late"
         /\ \A t \in Stages : InOrder(LineIn(phase, Without(k), queue, t), t, fresh)
         /\ hand[k].p \in Entry(IdsOf(phase)) /\ <<hand[k].p>> \in Seq(Entry(IdsOf(phase)))
         /\ \A x : HeldIn(x, queue, Without(k)) + Of(<<hand[k].p>>, x) = HeldIn(x, queue, hand)
<1> DEFINE w == Without(k)
<1>1. phase \in Stages /\ k \in DOMAIN hand /\ hand[k].op = "sending" /\ ~Expired
  BY DEF Current, InStage
<1>2. hand \in Seq(HandOf(phase)) /\ hand \in Seq(Hand) /\ Queues(queue) /\ Sending(hand) <= MaxInFlight
  BY <1>1 DEF ControlInv
<1>3. w = Drop(hand, k)  BY Zenon DEF Without, Drop
<1>4. w \in Seq(HandOf(phase)) /\ w \in Seq(Hand)
  BY <1>1, <1>2, <1>3, DropIs
<1>5. Claims(w) = Drop(Claims(hand), k) /\ Claims(hand) \in Seq(Control) /\ DOMAIN Claims(hand) = DOMAIN hand
      /\ Claims(hand)[k] = hand[k].p
  BY <1>1, <1>2, ClaimsDrop, ClaimsIs, <1>3 DEF Hand
<1> HIDE DEF w
<1>6. Sending(w) <= MaxInFlight
 <2>1. Count(hand, Wire) = Count(w, Wire) + (IF hand[k] \in Wire THEN 1 ELSE 0)
   BY <1>1, <1>2, <1>3, DropIs
 <2>2. Sending(hand) = Count(hand, Wire) /\ Sending(w) = Count(w, Wire) /\ Sending(w) \in Nat /\ Sending(hand) \in Nat
   BY <1>2, <1>4, SendingIs
 <2>3. MaxInFlight \in Nat  BY ReporterAssumption
 <2>4. QED BY <1>2, <2>1, <2>2, <2>3
<1>7. \A j \in DOMAIN w : w[j].op # "late"
 <2>1. \A j \in DOMAIN hand : hand[j].op # "late"
   BY <1>1 DEF ControlInv
 <2>2. \A i \in 1 .. Len(hand) - 1 : w[i] = IF i < k THEN hand[i] ELSE hand[i + 1]
   BY <1>1, <1>2, <1>3, DropIs
 <2>3. Len(w) = Len(hand) - 1 /\ DOMAIN w = 1 .. Len(w) /\ k \in 1 .. Len(hand) /\ Len(hand) \in Nat /\ DOMAIN hand = 1 .. Len(hand)
   BY <1>1, <1>2, <1>3, <1>4, DropIs
 <2>4. ASSUME NEW j \in DOMAIN w PROVE w[j].op # "late"
  <3>1. j \in 1 .. Len(hand) - 1  BY <2>3
  <3>2. CASE j < k
    BY <2>1, <2>2, <2>3, <3>1, <3>2
  <3>3. CASE ~(j < k)
    BY <2>1, <2>2, <2>3, <3>1, <3>3
  <3>4. QED BY <3>2, <3>3
 <2>5. QED BY <2>4
<1>8. \A t \in Stages : InOrder(LineIn(phase, w, queue, t), t, fresh)
 <2> DEFINE c == Claims(hand)
            d == Claims(w)
 <2>1. d = Drop(c, k) /\ c \in Seq(Control) /\ k \in DOMAIN c
   BY Zenon, <1>1, <1>5
 <2>2. From(d, c) /\ (Rising(c, ControlOrder) => Rising(d, ControlOrder))
   BY <2>1, DropOrder
 <2>3. InStage  BY <1>1 DEF InStage
 <2>4. QED BY Zenon, <1>4, <2>2, <2>3, HandOrder
<1>9. hand[k].p \in Entry(IdsOf(phase)) /\ <<hand[k].p>> \in Seq(Entry(IdsOf(phase)))
 <2>1. hand[k] \in HandOf(phase)  BY <1>1, <1>2
 <2>2. hand[k].p \in Entry(IdsOf(phase))  BY <2>1 DEF HandOf, Claimed
 <2>3. QED BY <2>2
<1>10. ASSUME NEW x PROVE HeldIn(x, queue, w) + Of(<<hand[k].p>>, x) = HeldIn(x, queue, hand)
 <2> DEFINE c == Claims(hand)
            d == Claims(w)
            a == Of(queue["confirms"], x)
            b == Of(queue["settlements"], x)
            m == Of(c, x)
            n == Of(d, x)
            o == Of(<<hand[k].p>>, x)
 <2>1. d = Drop(c, k) /\ c \in Seq(Control) /\ k \in DOMAIN c /\ c[k] = hand[k].p /\ d \in Seq(Control)
   BY <1>4, ClaimsIs, <1>1, <1>5 DEF Hand
 <2>2. m = n + o
  <3>1. m = Count(c, About(x)) /\ n = Count(d, About(x))
    BY <2>1, OfIs
  <3>2. Count(c, About(x)) = Count(Drop(c, k), About(x)) + (IF c[k] \in About(x) THEN 1 ELSE 0)
    BY <2>1, DropIs
  <3>3. c[k] \in Control  BY <2>1
  <3>4. o = IF c[k].of = x THEN 1 ELSE 0
    BY <2>1, <3>3, OfOne
  <3>5. c[k] \in About(x) <=> c[k].of = x  BY <3>3 DEF About
  <3>6. Count(Drop(c, k), About(x)) = Count(d, About(x))  BY Zenon, <2>1
  <3>7. QED BY <3>1, <3>2, <3>4, <3>5, <3>6
 <2>3. a \in Nat /\ b \in Nat /\ m \in Nat /\ n \in Nat
   BY <1>2, <1>4, HeldNat
 <2>4. o \in Nat  BY <1>9, <2>1, OfOne
 <2>5. HeldIn(x, queue, w) = a + b + n /\ HeldIn(x, queue, hand) = a + b + m
   BY Zenon DEF HeldIn
 <2> HIDE DEF c, d, a, b, m, n, o
 <2>6. a + b + n + o = a + b + m  BY <2>2, <2>3, <2>4
 <2>7. QED BY Zenon, <2>5, <2>6 DEF o
<1>11. QED BY Zenon, <1>1, <1>4, <1>6, <1>7, <1>8, <1>9, <1>10 DEF w

(* The claims h and the queues qs are as dispatch() may find them in stage s. *)
Dispatchable(s, qs, h, r) ==
  /\ Queues(qs) /\ h \in Seq(HandOf(s)) /\ r \in RoundSet /\ Sending(h) <= MaxInFlight /\ (r.final \/ r.resolved <= Quota)
  /\ \A k \in DOMAIN h : h[k].op # "late"
  /\ \A t \in Stages : InOrder(LineIn(s, h, qs, t), t, fresh)

(* What a control step leaves alone, and how it accounts for what it decides. *)
Quiet ==
  /\ ~Expired /\ closing # "sealed" /\ batch = <<>>
  /\ UNCHANGED <<fresh, batch, closing, deadline, delivered, uncounted, recounted>>
Balanced(out) ==
  /\ confirmed' \subseteq Controls /\ dropped' \in [Controls -> Nat]
  /\ \A c \in Controls : If(c \in confirmed') + dropped'[c] = If(c \in confirmed) + dropped[c] + Of(out, c)
Leaves(out, qs, h) == \A x \in AllIds : HeldIn(x, qs, h) + Of(out, x) = HeldIn(x, queue, hand)

LEMMA DispatchableStep ==
  ASSUME NEW s \in Stages, NEW qs, NEW h, NEW r, Dispatchable(s, qs, h, r), Dispatch(s, qs, h, r),
         phase' = s, fresh' = fresh, fresh \subseteq AllIds
  PROVE  /\ ControlInv' /\ LinesInv' /\ \A x : HeldIn(x, queue', hand') = HeldIn(x, qs, h)
         /\ round'.final = r.final /\ phase' \in Stages
<1>1. /\ Queues(qs) /\ h \in Seq(HandOf(s)) /\ r \in RoundSet /\ Sending(h) <= MaxInFlight /\ (r.final \/ r.resolved <= Quota)
      /\ \A k \in DOMAIN h : h[k].op # "late"
      /\ \A t \in Stages : InOrder(LineIn(s, h, qs, t), t, fresh)
  BY Zenon DEF Dispatchable
<1>2. QED BY Zenon, <1>1, DispatchStep

(* What a stage decides leaves the claims and the queues. *)
LEMMA MovedStep ==
  ASSUME RepInv, ControlInv', LinesInv', Quiet, NEW w \in Stages, NEW out \in Seq(Entry(IdsOf(w))),
         \A x \in AllIds : HeldIn(x, queue', hand') + Of(out, x) = HeldIn(x, queue, hand),
         books' = EventsOf(books, w, out), Balanced(out)
  PROVE  RepInv'
<1>1. ControlInv /\ LinesInv /\ EventInv /\ PlacesInv /\ RecountInv /\ CloseInv
  BY DEF RepInv
<1>2. Queues(queue) /\ hand \in Seq(Hand) /\ Queues(queue') /\ hand' \in Seq(Hand)
  BY <1>1 DEF ControlInv
<1>3. \A x \in AllIds : Waiting(x)' + Of(out, x) = Waiting(x)
 <2>1. ASSUME NEW x \in AllIds PROVE Waiting(x)' + Of(out, x) = Waiting(x)
  <3> DEFINE f == If(x \in fresh)
             n == HeldIn(x, queue', hand')
             m == HeldIn(x, queue, hand)
             o == Of(out, x)
  <3>1. f \in Nat /\ n \in Nat /\ m \in Nat /\ o \in Nat
    BY StageSubset, OfIs, <1>2, HeldNat, IfIs
  <3>2. n + o = m  BY Zenon
  <3>3. Waiting(x) = f + m  BY Zenon DEF Waiting
  <3>4. Waiting(x)' = f + n  BY Zenon DEF Waiting, Quiet
  <3> HIDE DEF f, n, m, o
  <3>5. f + n + o = f + m  BY <3>1, <3>2
  <3>6. QED BY Zenon, <3>3, <3>4, <3>5 DEF o
 <2>2. QED BY Zenon, <2>1
<1>4. PlacesInv' /\ EventInv'
  BY <1>1, <1>3, DecideStep DEF Quiet, Balanced
<1>5. RecountInv'  BY Zenon, <1>1, RecountStep DEF Quiet
<1>6. CloseInv'
  BY <1>1, CloseStep DEF Quiet
<1>7. QED BY Zenon, <1>4, <1>5, <1>6 DEF RepInv

(* One dispatch() on the claims h with what is decided out of the way. *)
LEMMA DispatchedStep ==
  ASSUME RepInv, NEW s \in Stages, NEW qs, NEW h, NEW r, Dispatchable(s, qs, h, r), Dispatch(s, qs, h, r), phase' = s, Quiet,
         NEW w \in Stages, NEW out \in Seq(Entry(IdsOf(w))), Leaves(out, qs, h),
         books' = EventsOf(books, w, out), Balanced(out)
  PROVE  RepInv'
<1>1. fresh \subseteq AllIds /\ fresh' = fresh
  BY DEF RepInv, ControlInv, Quiet
<1>2. ControlInv' /\ LinesInv' /\ \A x : HeldIn(x, queue', hand') = HeldIn(x, qs, h)
  BY <1>1, DispatchableStep
<1>3. \A x \in AllIds : HeldIn(x, queue', hand') + Of(out, x) = HeldIn(x, queue, hand)
  BY Zenon, <1>2 DEF Leaves
<1>4. QED BY Zenon, <1>2, <1>3, MovedStep

LEMMA InStageShape ==
  ASSUME RepInv, phase \in Stages
  PROVE  /\ batch = <<>> /\ closing # "sealed" /\ hand \in Seq(HandOf(phase)) /\ hand \in Seq(Hand) /\ Queues(queue)
         /\ round \in RoundSet /\ (round.final \/ round.resolved <= Quota) /\ Sending(hand) <= MaxInFlight
         /\ (~Expired => \A k \in DOMAIN hand : hand[k].op # "late") /\ confirmed \subseteq Controls /\ dropped \in [Controls -> Nat]
         /\ queue[phase] \in Seq(Entry(IdsOf(phase))) /\ queue \in [Stages -> Seq(Control)]
<1>1. phase # "events" /\ phase # "idle"
  BY DEF Stages
<1>2. QED BY <1>1 DEF RepInv, ControlInv, CloseInv, PlacesInv, Queues

LEMMA CountDropsIs ==
  ASSUME dropped \in [Controls -> Nat], NEW out \in Seq(Control)
  PROVE  /\ CountDrops(out) \in [Controls -> Nat]
         /\ \A c \in Controls : CountDrops(out)[c] = dropped[c] + Of(out, c) /\ Of(out, c) \in Nat
<1>1. \A c : Of(out, c) \in Nat
  BY OfIs
<1>2. QED BY <1>1 DEF CountDrops

(* What balances the confirms: taken, or counted as a drop. *)
LEMMA GivenUp ==
  ASSUME dropped \in [Controls -> Nat], NEW out \in Seq(Control), dropped' = CountDrops(out), confirmed' = confirmed,
         confirmed \subseteq Controls
  PROVE  Balanced(out)
<1>1. dropped' \in [Controls -> Nat] /\ \A c \in Controls : dropped'[c] = dropped[c] + Of(out, c) /\ Of(out, c) \in Nat
  BY CountDropsIs
<1>2. ASSUME NEW c \in Controls
      PROVE  If(c \in confirmed') + dropped'[c] = If(c \in confirmed) + dropped[c] + Of(out, c)
  BY <1>1, IfIs
<1>3. confirmed' \subseteq Controls  OBVIOUS
<1>4. QED BY Zenon, <1>1, <1>2, <1>3 DEF Balanced

(* A claim that is decided, whichever way. *)
LEMMA ClaimDecided ==
  ASSUME RepInv, NEW k, Current(k), NEW r \in RoundSet, r.final \/ r.resolved <= Quota,
         Dispatch(phase, queue, Without(k), r), books' = EventOf(books, phase, hand[k].p),
         UNCHANGED <<fresh, phase, closing, deadline, batch, delivered, uncounted, recounted>>,
         Balanced(<<hand[k].p>>)
  PROVE  RepInv'
<1> DEFINE out == <<hand[k].p>>
           h == Without(k)
           s == phase
<1>1. /\ s \in Stages /\ h \in Seq(HandOf(s)) /\ Sending(h) <= MaxInFlight
      /\ \A j \in DOMAIN h : h[j].op # "late"
      /\ \A t \in Stages : InOrder(LineIn(s, h, queue, t), t, fresh)
      /\ out \in Seq(Entry(IdsOf(s)))
      /\ \A x : HeldIn(x, queue, h) + Of(out, x) = HeldIn(x, queue, hand)
  BY WithoutIs DEF RepInv
<1>2. batch = <<>> /\ closing # "sealed" /\ Queues(queue)
  BY Zenon, <1>1, InStageShape
<1>3. ~Expired /\ books' = EventsOf(books, s, out) /\ Dispatch(s, queue, h, r) /\ phase' = s
  BY DEF Current, EventOf
<1>4. Dispatchable(s, queue, h, r)  BY Zenon, <1>1, <1>2 DEF Dispatchable
<1>5. Leaves(out, queue, h)  BY Zenon, <1>1 DEF Leaves
<1>6. Quiet  BY <1>2, <1>3 DEF Quiet
<1>7. Balanced(out)  BY Zenon
<1> HIDE DEF out, h
<1>8. QED BY Zenon, <1>1, <1>3, <1>4, <1>5, <1>6, <1>7, DispatchedStep

LEMMA NothingOut ==
  ASSUME NEW b, NEW s
  PROVE  EventsOf(b, s, <<>>) = b
<1> DEFINE line == [i \in DOMAIN <<>> |-> {<<>>[i].of}]
<1>1. line = <<>>  OBVIOUS
<1>2. Len(line) = 0  BY <1>1
<1> HIDE DEF line
<1>3. PushAll(b, line, closing # "open") = b
 <2>1. PICK g : Pushes(b, line, closing # "open", Len(line), g) /\ PushAll(b, line, closing # "open") = g[Len(line)]
   BY <1>2, PushesSteps
 <2>2. g[0] = b  BY <2>1 DEF Pushes
 <2>3. QED BY Zenon, <1>2, <2>1, <2>2
<1>4. QED BY Zenon, <1>3 DEF EventsOf, line

LEMMA EntryParked ==
  ASSUME NEW S, NEW p \in Entry(S), NEW n \in Nat, NEW l \in Nat, NEW w \in {"no", "backoff", "server"}
  PROVE  [p EXCEPT !.tries = n, !.limited = l, !.park = w] \in Entry(S)
BY DEF Entry

LEMMA RetryIs ==
  ASSUME NEW S, NEW p \in Entry(S), NEW limited \in BOOLEAN, NEW after \in BOOLEAN
  PROVE  Retry(p, limited, after).entry \in Entry(S) /\ Retry(p, limited, after).entry.of = p.of
<1> DEFINE n == IF limited THEN p.tries ELSE p.tries + 1
           l == IF limited THEN p.limited + 1 ELSE p.limited
           w == IF after THEN "server" ELSE "backoff"
<1>1. n \in Nat  BY DEF Entry
<1>2. l \in Nat  BY DEF Entry
<1>3. w \in {"no", "backoff", "server"}  OBVIOUS
<1>4. Retry(p, limited, after).entry = [p EXCEPT !.tries = n, !.limited = l, !.park = w]
  BY DEF Retry
<1> HIDE DEF n, l, w
<1>5. [p EXCEPT !.tries = n, !.limited = l, !.park = w] \in Entry(S)
  BY Zenon, <1>1, <1>2, <1>3, EntryParked
<1>6. [p EXCEPT !.tries = n, !.limited = l, !.park = w].of = p.of  BY DEF Entry
<1>7. QED BY Zenon, <1>4, <1>5, <1>6

LEMMA RecountedNone ==
  ASSUME RepInv, ~Expired
  PROVE  recounted = {}
BY DEF RepInv, RecountInv

(* What is claimed or queued was handed in, and is decided no more than what was counted. *)
LEMMA HeldOnce ==
  ASSUME RepInv, NEW c \in Controls, HeldIn(c, queue, hand) >= 1, ~Expired
  PROVE  c \notin confirmed /\ c \notin fresh /\ dropped[c] = 0 /\ HeldIn(c, queue, hand) = 1
<1> DEFINE f == If(c \in fresh)
           i == If(c \in confirmed)
           n == If(c \in recounted)
           h == HeldIn(c, queue, hand)
<1>1. ControlInv /\ PlacesInv
  BY DEF RepInv
<1>2. Waiting(c) + i + dropped[c] = 1 + n /\ dropped[c] \in Nat
  BY Zenon, <1>1 DEF PlacesInv
<1>3. Waiting(c) = f + h /\ h \in Nat
  BY Zenon, <1>1, WaitingNat
<1>4. n = 0  BY RecountedNone, IfIs
<1>5. f \in Nat /\ i \in Nat /\ (c \in fresh => f = 1) /\ (c \in confirmed => i = 1)
  BY IfIs
<1> HIDE DEF f, i, n, h
<1>6. f + h + i + dropped[c] = 1  BY <1>2, <1>3, <1>4
<1>7. h >= 1  BY Zenon DEF h
<1>8. f = 0 /\ i = 0 /\ dropped[c] = 0 /\ h = 1
  BY <1>2, <1>3, <1>5, <1>6, <1>7
<1>9. QED BY <1>5, <1>8 DEF h

LEMMA ClaimHeld ==
  ASSUME RepInv, NEW k, Current(k)
  PROVE  hand[k].p.of \in Controls /\ hand[k].p.of \notin confirmed /\ hand[k].p \in Control
         /\ <<hand[k].p>> \in Seq(Control)
<1> DEFINE c == hand[k].p.of
           p == hand[k].p
<1>1. ControlInv /\ LinesInv
  BY DEF RepInv
<1>2. /\ phase \in Stages /\ Without(k) \in Seq(HandOf(phase)) /\ p \in Entry(IdsOf(phase))
      /\ \A x : HeldIn(x, queue, Without(k)) + Of(<<p>>, x) = HeldIn(x, queue, hand)
  BY Zenon, <1>1, WithoutIs
<1>3. p \in Control  BY <1>2, IdsAre, EntrySubset DEF Control
<1>4. Of(<<p>>, c) = 1 /\ <<p>> \in Seq(Control)
  BY <1>3, OfOne
<1>5. c \in Controls  BY <1>3 DEF Control, Entry
<1>6. HeldIn(c, queue, Without(k)) \in Nat  BY <1>1, <1>2, HeldNat, StageSubset DEF ControlInv
<1>7. HeldIn(c, queue, hand) >= 1
  BY <1>2, <1>4, <1>6
<1>8. ~Expired  BY DEF Current
<1>9. c \notin confirmed  BY Zenon, <1>5, <1>7, <1>8, HeldOnce
<1>10. QED BY Zenon, <1>3, <1>4, <1>5, <1>9

LEMMA ConfirmSentStep ==
  ASSUME RepInv, NEW k, ConfirmSent(k)
  PROVE  RepInv'
<1> DEFINE p == hand[k].p
           c == hand[k].p.of
<1>1. Current(k) /\ c \in Controls /\ c \notin confirmed /\ p \in Control
  BY ClaimHeld DEF ConfirmSent
<1>2. phase \in Stages /\ round \in RoundSet /\ (round.final \/ round.resolved <= Quota) /\ confirmed \subseteq Controls
      /\ dropped \in [Controls -> Nat]
  BY <1>1, InStageShape DEF Current, InStage
<1>3. confirmed' = confirmed \cup {c} /\ dropped' = dropped
  BY DEF ConfirmSent
<1>4. confirmed' \subseteq Controls /\ dropped' \in [Controls -> Nat]
  BY <1>1, <1>2, <1>3
<1>5. \A x \in Controls : If(x \in confirmed') + dropped'[x] = If(x \in confirmed) + dropped[x] + Of(<<p>>, x)
 <2>1. ASSUME NEW x \in Controls PROVE If(x \in confirmed') + dropped'[x] = If(x \in confirmed) + dropped[x] + Of(<<p>>, x)
  <3>1. Of(<<p>>, x) = (IF c = x THEN 1 ELSE 0)
    BY <1>1, OfOne
  <3>2. dropped[x] \in Nat /\ dropped'[x] = dropped[x]
    BY <1>2, <1>3
  <3>3. CASE x = c
    BY <1>1, <1>3, <3>3, IfIs, <3>1, <3>2
  <3>4. CASE x # c
    BY <1>3, <3>4, <3>1, <3>2 DEF If
  <3>5. QED BY <3>3, <3>4
 <2>2. QED BY <2>1
<1>6. /\ Dispatch(phase, queue, Without(k), round) /\ books' = EventOf(books, phase, hand[k].p)
      /\ UNCHANGED <<fresh, phase, closing, deadline, batch, delivered, uncounted, recounted>>
  BY DEF ConfirmSent
<1>7. Balanced(<<hand[k].p>>)  BY Zenon, <1>4, <1>5 DEF Balanced
<1>8. QED BY Zenon, <1>1, <1>2, <1>6, <1>7, ClaimDecided

(* A claim is counted as a drop. *)
LEMMA GiveUpStep ==
  ASSUME RepInv, NEW k, Current(k), NEW r \in RoundSet, r.final \/ r.resolved <= Quota,
         dropped' = CountDrops(<<hand[k].p>>), books' = EventOf(books, phase, hand[k].p), Dispatch(phase, queue, Without(k), r),
         UNCHANGED <<fresh, batch, phase, closing, deadline, confirmed, delivered, recounted, uncounted>>
  PROVE  RepInv'
<1>1. hand[k].p \in Control /\ <<hand[k].p>> \in Seq(Control)
  BY ClaimHeld
<1>2. phase \in Stages /\ confirmed \subseteq Controls /\ dropped \in [Controls -> Nat]
  BY InStageShape DEF Current, InStage
<1>3. Balanced(<<hand[k].p>>)
  BY <1>1, <1>2, GivenUp
<1>4. UNCHANGED <<fresh, phase, closing, deadline, batch, delivered, uncounted, recounted>>  OBVIOUS
<1>5. QED BY Zenon, <1>3, <1>4, ClaimDecided

(* A claim waits for the end of its stage. *)
LEMMA KeptStep ==
  ASSUME RepInv, NEW k, Current(k), NEW entry \in Entry(IdsOf(phase)), entry.of = hand[k].p.of, NEW held \in BOOLEAN,
         KeepForRestore(k, entry, held),
         UNCHANGED <<fresh, batch, phase, closing, deadline, confirmed, delivered, recounted, uncounted>>
  PROVE  RepInv'
<1> DEFINE s == phase
           h == [hand EXCEPT ![k] = [p |-> entry, op |-> "restore"]]
           r == [round EXCEPT !.blocked = TRUE, !.held = @ \/ held]
           y == [p |-> entry, op |-> "restore"]
<1>1. /\ s \in Stages /\ k \in DOMAIN hand /\ hand[k].op = "sending" /\ ~Expired
  BY DEF Current, InStage
<1>2. /\ batch = <<>> /\ closing # "sealed" /\ hand \in Seq(HandOf(s)) /\ hand \in Seq(Hand) /\ Queues(queue)
      /\ round \in RoundSet /\ (round.final \/ round.resolved <= Quota) /\ Sending(hand) <= MaxInFlight
      /\ \A j \in DOMAIN hand : hand[j].op # "late"
  BY Zenon, <1>1, InStageShape
<1>3. y \in HandOf(s) /\ y \notin Wire
  BY DEF HandOf, Claimed, Ops, Wire
<1>4. h \in Seq(HandOf(s)) /\ h \in Seq(Hand) /\ DOMAIN h = DOMAIN hand
 <2>1. [hand EXCEPT ![k] = y] \in Seq(HandOf(s)) /\ Len([hand EXCEPT ![k] = y]) = Len(hand)
   BY <1>1, <1>2, <1>3, CountExcept
 <2>2. QED BY <1>1, <2>1, StageSubset
<1>5. Sending(h) <= MaxInFlight
 <2>1. Count([hand EXCEPT ![k] = y], Wire) + (IF hand[k] \in Wire THEN 1 ELSE 0) = Count(hand, Wire) + (IF y \in Wire THEN 1 ELSE 0)
   BY <1>1, <1>2, <1>3, CountExcept
 <2>2. Sending(hand) = Count(hand, Wire) /\ Sending(h) = Count(h, Wire) /\ Sending(h) \in Nat /\ Sending(hand) \in Nat
   BY <1>2, <1>4, SendingIs
 <2>3. MaxInFlight \in Nat  BY ReporterAssumption
 <2>4. QED BY <1>2, <1>3, <2>1, <2>2, <2>3
<1>6. \A j \in DOMAIN h : h[j].op # "late" /\ h[j].p.of = hand[j].p.of
  BY <1>1, <1>2
<1>7. r \in RoundSet /\ (r.final \/ r.resolved <= Quota)
 <2>1. r.final = round.final /\ r.resolved = round.resolved
   BY <1>2 DEF RoundSet
 <2>2. r \in RoundSet
   BY <1>2 DEF RoundSet
 <2>3. QED BY <1>2, <2>1, <2>2
<1> DEFINE c == Claims(hand)
           d == Claims(h)
<1>8. c \in Seq(Control) /\ d \in Seq(Control) /\ DOMAIN c = DOMAIN hand /\ DOMAIN d = DOMAIN hand
      /\ \A j \in DOMAIN c : c[j].of = d[j].of
 <2> HIDE DEF h
 <2>1. c \in Seq(Control) /\ DOMAIN c = DOMAIN hand /\ \A j \in DOMAIN hand : c[j] = hand[j].p
   BY <1>2, ClaimsIs DEF Hand
 <2>2. d \in Seq(Control) /\ DOMAIN d = DOMAIN h /\ \A j \in DOMAIN h : d[j] = h[j].p
   BY <1>4, ClaimsIs DEF Hand
 <2>3. QED BY <1>4, <1>6, <2>1, <2>2
<1>9. \A t \in Stages : InOrder(LineIn(s, h, queue, t), t, fresh)
 <2>1. ControlInv /\ LinesInv /\ InStage
   BY <1>1 DEF RepInv, InStage
 <2>2. From(d, c) /\ (Rising(c, ControlOrder) => Rising(d, ControlOrder))
   BY <1>8, RisingAs
 <2> HIDE DEF h
 <2>3. QED BY Zenon, <1>4, <2>1, <2>2, HandOrder DEF c, d
<1>10. Leaves(<<>>, queue, h)
 <2>1. ASSUME NEW x \in AllIds PROVE HeldIn(x, queue, h) + Of(<<>>, x) = HeldIn(x, queue, hand)
  <3>1. Of(c, x) = Of(d, x)
    BY <1>8, OfAs
  <3>2. HeldIn(x, queue, h) = HeldIn(x, queue, hand)  BY Zenon, <3>1 DEF HeldIn, c, d
  <3>3. HeldIn(x, queue, hand) \in Nat  BY <1>2, HeldNat
  <3>4. Of(<<>>, x) = 0  BY OfNone
  <3> HIDE DEF h
  <3>5. QED BY <3>2, <3>3, <3>4
 <2>2. QED BY Zenon, <2>1 DEF Leaves
<1>11. \A x \in Controls : If(x \in confirmed') + dropped'[x] = If(x \in confirmed) + dropped[x] + Of(<<>>, x)
 <2>1. dropped' = dropped /\ confirmed' = confirmed
   BY DEF KeepForRestore
 <2>2. ASSUME NEW x \in Controls PROVE If(x \in confirmed) + dropped[x] = If(x \in confirmed) + dropped[x] + Of(<<>>, x)
   BY OfNone, IfIs DEF RepInv, PlacesInv
 <2>3. QED BY Zenon, <2>1, <2>2
<1>12. books' = EventsOf(books, s, <<>>) /\ Dispatch(s, queue, h, r) /\ dropped' = dropped
  BY NothingOut DEF KeepForRestore
<1>13. Balanced(<<>>)
  BY <1>12, <1>11 DEF RepInv, PlacesInv, Balanced
<1>14. <<>> \in Seq(Entry(IdsOf(s))) /\ phase' = s
  OBVIOUS
<1>15. Dispatchable(s, queue, h, r)
  BY <1>6, <1>2, <1>4, <1>5, <1>7, <1>9 DEF Dispatchable
<1>16. Quiet  BY <1>1, <1>2 DEF Quiet
<1> HIDE DEF h, r
<1>17. QED BY Zenon, <1>1, <1>10, <1>12, <1>13, <1>14, <1>15, <1>16, DispatchedStep

LEMMA HandTyped ==
  ASSUME NEW s, hand \in Seq(HandOf(s)), NEW k \in DOMAIN hand
  PROVE  hand[k].p \in Entry(IdsOf(s))
<1>1. hand[k] \in HandOf(s)  OBVIOUS
<1>2. QED BY <1>1 DEF HandOf, Claimed

LEMMA ConfirmHeldStep ==
  ASSUME RepInv, NEW k, ConfirmHeld(k)
  PROVE  RepInv'
<1>1. Current(k) /\ UNCHANGED <<fresh, batch, phase, closing, deadline, confirmed, delivered, recounted, uncounted>>
  BY DEF ConfirmHeld
<1>2. /\ phase \in Stages /\ round \in RoundSet /\ (round.final \/ round.resolved <= Quota)
      /\ k \in DOMAIN hand /\ hand \in Seq(HandOf(phase))
  BY <1>1, InStageShape DEF Current, InStage
<1>3. CASE round.final
 <2> DEFINE r == [round EXCEPT !.blocked = TRUE, !.held = TRUE]
 <2>1. r \in RoundSet /\ r.final
   BY <1>2, <1>3 DEF RoundSet
 <2>2. dropped' = CountDrops(<<hand[k].p>>) /\ books' = EventOf(books, phase, hand[k].p) /\ Dispatch(phase, queue, Without(k), r)
   BY <1>3 DEF ConfirmHeld
 <2> HIDE DEF r
 <2>3. QED BY Zenon, <1>1, <2>1, <2>2, GiveUpStep
<1>4. CASE ~round.final
  BY <1>4, <1>2, HandTyped, <1>1, KeptStep DEF ConfirmHeld
<1>5. QED BY <1>3, <1>4

LEMMA ConfirmDroppedStep ==
  ASSUME RepInv, NEW k, ConfirmDropped(k)
  PROVE  RepInv'
<1>1. /\ Current(k) /\ UNCHANGED <<fresh, batch, phase, closing, deadline, confirmed, delivered, recounted, uncounted>>
      /\ dropped' = CountDrops(<<hand[k].p>>) /\ books' = EventOf(books, phase, hand[k].p)
      /\ Dispatch(phase, queue, Without(k), round)
  BY DEF ConfirmDropped, GiveUp
<1>2. /\ round \in RoundSet /\ (round.final \/ round.resolved <= Quota)
  BY <1>1, InStageShape DEF Current, InStage
<1>3. QED BY Zenon, <1>1, <1>2, GiveUpStep

LEMMA ConfirmFailsStep ==
  ASSUME RepInv, NEW k, ConfirmFails(k)
  PROVE  RepInv'
<1>1. Current(k) /\ UNCHANGED <<fresh, batch, phase, closing, deadline, confirmed, delivered, recounted, uncounted>>
  BY DEF ConfirmFails
<1>2. /\ phase \in Stages /\ round \in RoundSet /\ (round.final \/ round.resolved <= Quota)
      /\ k \in DOMAIN hand /\ hand \in Seq(HandOf(phase))
  BY <1>1, InStageShape DEF Current, InStage
<1> DEFINE ff == FALSE
<1>3. \/ GiveUp(k)
      \/ \E limited, after \in BOOLEAN : KeepForRestore(k, Retry(hand[k].p, limited, after).entry, ff)
  BY Zenon DEF ConfirmFails
<1>4. CASE GiveUp(k)
  BY Zenon, <1>1, <1>2, <1>4, GiveUpStep DEF GiveUp
<1>5. ASSUME NEW limited \in BOOLEAN, NEW after \in BOOLEAN, KeepForRestore(k, Retry(hand[k].p, limited, after).entry, ff)
      PROVE  RepInv'
  BY <1>2, HandTyped, RetryIs, <1>1, <1>5, KeptStep
<1>6. QED BY Zenon, <1>3, <1>4, <1>5

LEMMA BalancedNone ==
  ASSUME PlacesInv, dropped' = dropped, confirmed' = confirmed
  PROVE  Balanced(<<>>)
<1>1. \A x \in Controls : If(x \in confirmed) + dropped[x] = If(x \in confirmed) + dropped[x] + Of(<<>>, x)
 <2>1. ASSUME NEW x \in Controls PROVE If(x \in confirmed) + dropped[x] = If(x \in confirmed) + dropped[x] + Of(<<>>, x)
   BY OfNone, IfIs DEF PlacesInv
 <2>2. QED BY <2>1
<1>2. confirmed' \subseteq Controls /\ dropped' \in [Controls -> Nat]
  BY DEF PlacesInv
<1>3. QED BY Zenon, <1>1, <1>2 DEF Balanced

LEMMA LeavesNone ==
  ASSUME ControlInv
  PROVE  Leaves(<<>>, queue, hand)
<1>1. ASSUME NEW x \in AllIds PROVE HeldIn(x, queue, hand) + Of(<<>>, x) = HeldIn(x, queue, hand)
  BY WaitingNat, OfNone
<1>2. QED BY Zenon, <1>1 DEF Leaves

LEMMA FinalResumesStep ==
  ASSUME RepInv, FinalResumes
  PROVE  RepInv'
<1>1. phase \in Stages /\ ~Expired /\ Dispatch(phase, queue, hand, round) /\ phase' = phase
  BY DEF FinalResumes, InStage
<1>2. /\ batch = <<>> /\ closing # "sealed" /\ hand \in Seq(HandOf(phase)) /\ Queues(queue) /\ round \in RoundSet
      /\ (round.final \/ round.resolved <= Quota) /\ Sending(hand) <= MaxInFlight /\ \A k \in DOMAIN hand : hand[k].op # "late"
  BY Zenon, <1>1, InStageShape
<1>3. \A t \in Stages : InOrder(LineIn(phase, hand, queue, t), t, fresh)
  BY Zenon DEF RepInv, LinesInv, Line
<1>4. Dispatchable(phase, queue, hand, round)  BY Zenon, <1>2, <1>3 DEF Dispatchable
<1>5. Quiet /\ books' = books /\ confirmed' = confirmed /\ dropped' = dropped
  BY <1>1, <1>2 DEF FinalResumes, Quiet
<1>6. books' = EventsOf(books, phase, <<>>)  BY Zenon, <1>5, NothingOut
<1>7. Leaves(<<>>, queue, hand) /\ Balanced(<<>>)
  BY <1>5, LeavesNone, BalancedNone DEF RepInv
<1>8. <<>> \in Seq(Entry(IdsOf(phase)))  OBVIOUS
<1>9. QED BY Zenon, <1>1, <1>4, <1>5, <1>6, <1>7, <1>8, DispatchedStep

LEMMA HeadOut ==
  ASSUME NEW S, NEW q \in Seq(Entry(S)), q # <<>>, S \subseteq Controls
  PROVE  /\ Tail(q) \in Seq(Entry(S)) /\ Len(Tail(q)) <= Len(q) /\ <<Head(q)>> \in Seq(Entry(S)) /\ <<Head(q)>> \in Seq(Control)
         /\ \A x : Of(Tail(q), x) + Of(<<Head(q)>>, x) = Of(q, x)
         /\ \A R : Rising(q, R) => Rising(Tail(q), R)
         /\ From(Tail(q), q)
<1>1. Head(q) \in Entry(S) /\ Tail(q) \in Seq(Entry(S)) /\ Len(Tail(q)) = Len(q) - 1 /\ Len(q) \in Nat
  BY CountTail
<1>2. Entry(S) \subseteq Control /\ q \in Seq(Control) /\ Tail(q) \in Seq(Control) /\ Head(q) \in Control
  BY <1>1, EntrySubset DEF Control
<1>3. ASSUME NEW x PROVE Of(Tail(q), x) + Of(<<Head(q)>>, x) = Of(q, x)
 <2>1. Count(q, About(x)) = Count(Tail(q), About(x)) + (IF Head(q) \in About(x) THEN 1 ELSE 0)
   BY <1>2, CountHead
 <2>2. Of(q, x) = Count(q, About(x)) /\ Of(Tail(q), x) = Count(Tail(q), About(x))
   BY <1>2, OfIs
 <2>3. Of(<<Head(q)>>, x) = (IF Head(q).of = x THEN 1 ELSE 0)
   BY <1>2, OfOne
 <2>4. Head(q) \in About(x) <=> Head(q).of = x  BY <1>2 DEF About
 <2>5. QED BY <2>1, <2>2, <2>3, <2>4
<1>4. \A R : (Rising(q, R) => Rising(Tail(q), R)) /\ From(Tail(q), q)
  BY RisingTail
<1>5. QED BY <1>1, <1>2, <1>3, <1>4

LEMMA FinalSkipsStep ==
  ASSUME RepInv, FinalSkips
  PROVE  RepInv'
<1> DEFINE s == phase
           q == queue[phase]
           out == <<Head(queue[phase])>>
           qs == [queue EXCEPT ![phase] = Tail(@)]
<1>1. s \in Stages /\ ~Expired /\ Dispatch(s, qs, hand, round) /\ phase' = s /\ q # <<>>
  BY DEF FinalSkips, InStage, FinalHead
<1>2. /\ batch = <<>> /\ closing # "sealed" /\ hand \in Seq(HandOf(s)) /\ hand \in Seq(Hand) /\ Queues(queue) /\ round \in RoundSet
      /\ (round.final \/ round.resolved <= Quota) /\ Sending(hand) <= MaxInFlight /\ \A k \in DOMAIN hand : hand[k].op # "late"
      /\ q \in Seq(Entry(IdsOf(s))) /\ queue \in [Stages -> Seq(Control)] /\ confirmed \subseteq Controls /\ dropped \in [Controls -> Nat]
  BY Zenon, <1>1, InStageShape
<1> DEFINE tl == Tail(q)
<1>3. /\ tl \in Seq(Entry(IdsOf(s))) /\ Len(tl) <= Len(q) /\ out \in Seq(Entry(IdsOf(s))) /\ out \in Seq(Control)
      /\ \A x : Of(tl, x) + Of(out, x) = Of(q, x)
      /\ \A R : Rising(q, R) => Rising(tl, R)
      /\ From(tl, q)
  BY <1>1, IdsAre, <1>2, HeadOut DEF q
<1>4. qs = [queue EXCEPT ![s] = tl]  OBVIOUS
<1>5. qs[s] = tl /\ \A t \in Stages \ {s} : qs[t] = queue[t]
  BY <1>1, <1>2
<1>6. Queues(qs)
 <2>1. tl \in Seq(Control) /\ Len(tl) <= ControlMax
   BY <1>1, <1>3, StageSubset, <1>2, ReporterAssumption DEF Queues
 <2>2. qs \in [Stages -> Seq(Control)]  BY <1>2, <1>4, <2>1
 <2>3. \A t \in Stages : qs[t] \in Seq(Entry(IdsOf(t))) /\ Len(qs[t]) <= ControlMax
   BY <1>2, <1>3, <1>5, <2>1 DEF Queues
 <2>4. QED BY <2>2, <2>3 DEF Queues
<1> HIDE DEF qs, q, out, tl
<1>7. \A t \in Stages : InOrder(LineIn(s, hand, qs, t), t, fresh)
 <2>1. ASSUME NEW t \in Stages PROVE InOrder(LineIn(s, hand, qs, t), t, fresh)
  <3>1. InOrder(LineIn(s, hand, queue, t), t, fresh)  BY Zenon DEF RepInv, LinesInv, Line
  <3>2. CASE t = s
   <4> DEFINE c == Claims(hand)
   <4>1. LineIn(s, hand, queue, s) = c \o q /\ LineIn(s, hand, qs, s) = c \o tl
     BY Zenon, <1>1, <1>2, <1>5, <1>6, LineIs DEF q
   <4>2. c \in Seq(Control) /\ q \in Seq(Control) /\ tl \in Seq(Control)
     BY <1>1, <1>2, <1>3, ClaimsIs, StageSubset DEF Hand
   <4>3. InOrder(c \o q, s, fresh)  BY Zenon, <3>1, <3>2, <4>1
   <4> HIDE DEF c
   <4>4. Rising(c \o q, ControlOrder)  BY Zenon, <4>3 DEF InOrder
   <4>5. From(c, c)  BY DEF From
   <4>6. Rising(c \o tl, ControlOrder) /\ From(c \o tl, c \o q)
     BY <1>3, <4>2, <4>4, <4>5, LineOf
   <4>7. InOrder(c \o tl, s, fresh)  BY <4>3, <4>6, InOrderFrom
   <4>8. QED BY Zenon, <3>2, <4>1, <4>7
  <3>3. CASE t # s
   <4>1. LineIn(s, hand, queue, t) = queue[t] /\ LineIn(s, hand, qs, t) = qs[t] /\ qs[t] = queue[t]
     BY <1>5, <3>3, <1>2, <1>6, LineIs
   <4>2. QED BY Zenon, <3>1, <4>1
  <3>4. QED BY <3>2, <3>3
 <2>2. QED BY <2>1
<1>8. Leaves(out, qs, hand)
 <2>1. ASSUME NEW x \in AllIds PROVE HeldIn(x, qs, hand) + Of(out, x) = HeldIn(x, queue, hand)
  <3>1. /\ Of(qs["confirms"], x) \in Nat /\ Of(qs["settlements"], x) \in Nat /\ Of(Claims(hand), x) \in Nat
        /\ Of(queue["confirms"], x) \in Nat /\ Of(queue["settlements"], x) \in Nat
    BY <1>2, <1>6, HeldNat
  <3>2. Of(qs[s], x) + Of(out, x) = Of(queue[s], x)  BY Zenon, <1>3, <1>5 DEF q
  <3>3. Of(out, x) \in Nat  BY <1>3, OfIs
  <3>4. CASE s = "confirms"
    BY <1>5, <3>4, <3>1, <3>2, <3>3 DEF Stages, HeldIn
  <3>5. CASE s = "settlements"
    BY <1>5, <3>5, <3>1, <3>2, <3>3 DEF Stages, HeldIn
  <3>6. QED BY <1>1, <3>4, <3>5 DEF Stages
 <2>2. QED BY Zenon, <2>1 DEF Leaves
<1>9. Dispatchable(s, qs, hand, round)  BY Zenon, <1>2, <1>6, <1>7 DEF Dispatchable
<1>10. Quiet /\ confirmed' = confirmed /\ dropped' = CountDrops(out) /\ books' = EventsOf(books, s, out)
  BY <1>1, <1>2 DEF FinalSkips, Quiet, EventOf, out
<1>11. Balanced(out)  BY Zenon, <1>2, <1>3, <1>10, GivenUp
<1>12. QED BY <1>1, <1>3, <1>8, <1>9, <1>10, <1>11, DispatchedStep

(* A step that only moves events between the books, the batch and the verdicts. *)
LEMMA PlacesStep ==
  ASSUME ControlInv, EventInv, PlacesInv, \A x \in AllIds : Waiting(x)' = Waiting(x),
         GoodBook(books'), batch' \in Seq(EventEntry), delivered' \subseteq EventIds, uncounted' \subseteq EventIds,
         \A e \in EventIds : Places(books', e) + Owed(e)' = Places(books, e) + Owed(e),
         UNCHANGED <<confirmed, dropped, recounted>>
  PROVE  PlacesInv'
<1>1. ASSUME NEW c \in Controls PROVE Waiting(c)' + If(c \in confirmed') + dropped'[c] = 1 + If(c \in recounted')
  BY IdsAre DEF PlacesInv
<1>2. ASSUME NEW e \in EventIds PROVE Waiting(e)' + Places(books', e) + Owed(e)' = 1
 <2> DEFINE w == Waiting(e)
            p0 == Places(books, e)
            p1 == Places(books', e)
            o0 == Owed(e)
            o1 == Owed(e)'
 <2>1. w + p0 + o0 = 1  BY Zenon DEF PlacesInv
 <2>2. Waiting(e)' = w  BY IdsAre
 <2>3. p1 + o1 = p0 + o0  BY Zenon
 <2>4. w \in Nat /\ p0 \in Nat /\ p1 \in Nat
   BY WaitingNat, PlacesNat DEF EventInv, GoodBook
 <2>5. o0 \in Nat  BY OwedNat
 <2>6. o1 \in Nat
   BY HitsFinite, IfIs DEF Owed
 <2> HIDE DEF w, p0, p1, o0, o1
 <2>7. w + p1 + o1 = 1  BY <2>1, <2>3, <2>4, <2>5, <2>6
 <2>8. QED BY Zenon, <2>2, <2>7 DEF p1, o1
<1>3. (\A c \in Controls : Waiting(c) + If(c \in confirmed) + dropped[c] = 1 + If(c \in recounted))'
  BY Zenon, <1>1
<1>4. (\A e \in EventIds : Waiting(e) + Places(books, e) + Owed(e) = 1)'
  BY Zenon, <1>2
<1>5. (confirmed \subseteq Controls /\ dropped \in [Controls -> Nat] /\ recounted \subseteq Controls
         /\ delivered \subseteq EventIds /\ uncounted \subseteq EventIds)'
  BY DEF PlacesInv
<1>6. QED BY Zenon, <1>3, <1>4, <1>5 DEF PlacesInv

(* An event is in one place at most. *)
LEMMA PlacesOnce ==
  ASSUME RepInv, NEW e \in EventIds
  PROVE  Places(books, e) <= 1 /\ Places(books, e) + Count(batch, Holding(e)) <= 1
         /\ Places(books, e) + Count(batch, Holding(e)) + HeldIn(e, queue, hand) <= 1
<1>1. ControlInv /\ EventInv /\ PlacesInv /\ books \in BookSet
  BY DEF RepInv, EventInv, GoodBook
<1>2. Waiting(e) + Places(books, e) + Owed(e) = 1  BY <1>1 DEF PlacesInv
<1>3. /\ HeldIn(e, queue, hand) \in Nat /\ Waiting(e) = If(e \in fresh) + HeldIn(e, queue, hand)
      /\ Places(books, e) \in Nat /\ Count(batch, Holding(e)) \in Nat
      /\ If(e \in delivered) \in Nat /\ If(e \in uncounted) \in Nat /\ If(e \in fresh) \in Nat
  BY <1>1, WaitingNat, PlacesNat, OwedNat, IfIs
<1>4. Owed(e) = Count(batch, Holding(e)) + If(e \in delivered) + If(e \in uncounted)  BY DEF Owed
<1>5. QED BY <1>2, <1>3, <1>4

LEMMA EmptyHand ==
  ASSUME NEW qs, Queues(qs), NEW p, NEW t \in Stages, NEW x
  PROVE  LineIn(p, <<>>, qs, t) = qs[t] /\ HeldIn(x, qs, <<>>) = Of(qs["confirms"], x) + Of(qs["settlements"], x)
<1>1. Claims(<<>>) = <<>>  BY DEF Claims
<1>2. qs[t] \in Seq(Control)  BY DEF Queues
<1>3. LineIn(p, <<>>, qs, t) = qs[t]
 <2>1. CASE p = t
   BY <1>1, <2>1, <1>2, EmptyLine DEF LineIn
 <2>2. CASE p # t
   BY <2>2, <1>2, EmptyLine DEF LineIn
 <2>3. QED BY <2>1, <2>2
<1>4. HeldIn(x, qs, <<>>) = Of(qs["confirms"], x) + Of(qs["settlements"], x)
 <2>1. Of(Claims(<<>>), x) = 0  BY Zenon, <1>1, OfNone
 <2>2. <<>> \in Seq(Hand)  OBVIOUS
 <2>3. Of(qs["confirms"], x) \in Nat /\ Of(qs["settlements"], x) \in Nat
   BY <2>2, HeldNat
 <2>4. QED BY <2>1, <2>3 DEF HeldIn
<1>5. QED BY Zenon, <1>3, <1>4

LEMMA SendingNone == Sending(<<>>) <= MaxInFlight /\ \A s : <<>> \in Seq(HandOf(s)) /\ \A k \in DOMAIN <<>> : <<>>[k].op # "late"
<1>1. Sending(<<>>) <= Len(<<>>) /\ Sending(<<>>) \in Nat
 <2>1. <<>> \in Seq(Hand)  OBVIOUS
 <2>2. QED BY <2>1, SendingIs
<1>2. MaxInFlight \in Nat  BY ReporterAssumption
<1>3. QED BY <1>1, <1>2

(* A round starts with its first stage, and the folds may be replayed. *)
LEMMA RoundStarts ==
  ASSUME RepInv, phase = "idle", NEW r \in RoundSet, r.final \/ r.resolved <= Quota,
         Dispatch("confirms", queue, <<>>, r), phase' = "confirms",
         GoodBook(books'), \A e \in EventIds : Places(books', e) = Places(books, e),
         PlainFrom(books'.queue, books.queue), Rising(books.queue, EventOrder) => Rising(books'.queue, EventOrder),
         closing' = "open" => Len(books'.queue) <= MaxQueueSize,
         UNCHANGED <<fresh, batch, deadline, confirmed, dropped, delivered, recounted, uncounted>>,
         ~Expired, closing # "sealed", closing' \in {closing, "flushing"}
  PROVE  RepInv'
<1>1. ControlInv /\ LinesInv /\ EventInv /\ PlacesInv /\ RecountInv /\ CloseInv
  BY DEF RepInv
<1>2. hand = <<>> /\ batch = <<>> /\ Queues(queue) /\ fresh \subseteq AllIds
  BY <1>1 DEF ControlInv, CloseInv, Stages
<1> DEFINE s == "confirms"
<1>3. s \in Stages  BY DEF Stages
<1>4. Dispatchable(s, queue, <<>>, r)
 <2>1. ASSUME NEW t \in Stages PROVE InOrder(LineIn(s, <<>>, queue, t), t, fresh)
   BY <1>2, EmptyHand, <1>1 DEF LinesInv, Line
 <2>2. QED BY Zenon, <1>2, <2>1, SendingNone DEF Dispatchable
<1>5. ControlInv' /\ LinesInv' /\ \A x : HeldIn(x, queue', hand') = HeldIn(x, queue, <<>>)
  BY <1>2, <1>3, <1>4, DispatchableStep
<1>6. \A x \in AllIds : Waiting(x)' = Waiting(x)
  BY Zenon, <1>2, <1>5 DEF Waiting
<1>7. EventInv'
  BY <1>1, EventStep
<1>8. PlacesInv'
  BY <1>1, <1>6, PlacesStep DEF EventInv, PlacesInv, Owed
<1>9. RecountInv'  BY Zenon, <1>1, RecountStep
<1>10. CloseInv'  BY <1>1, <1>2 DEF CloseInv, Expired
<1>11. QED BY Zenon, <1>5, <1>7, <1>8, <1>9, <1>10 DEF RepInv

LEMMA QuotaIs == Quota \in Nat /\ Quota >= 1
<1>1. BatchSize \in Nat /\ MaxQueueSize \in Nat
  BY ReporterAssumption
<1> DEFINE m == Min({BatchSize, MaxQueueSize})
<1>2. m \in {BatchSize, MaxQueueSize}  BY <1>1, MinIs
<1>3. m \in Nat  BY <1>1, <1>2
<1> HIDE DEF m
<1>4. Max({1, m}) \in {1, m} /\ \A y \in {1, m} : Max({1, m}) >= y
  BY <1>3, MaxIs
<1>5. QED BY <1>3, <1>4 DEF Quota, m

LEMMA NoRoundIs ==
  /\ NoRound \in RoundSet /\ NoRound.resolved = 0 /\ NoRound.final = FALSE
  /\ [NoRound EXCEPT !.final = TRUE] \in RoundSet /\ [NoRound EXCEPT !.final = TRUE].final
<1>1. NoRound \in RoundSet  BY DEF NoRound, RoundSet
<1>2. NoRound.resolved = 0 /\ NoRound.final = FALSE
  BY DEF NoRound
<1>3. [NoRound EXCEPT !.final = TRUE] \in RoundSet  BY <1>1 DEF RoundSet
<1>4. [NoRound EXCEPT !.final = TRUE].final  BY <1>1 DEF RoundSet
<1>5. QED BY Zenon, <1>1, <1>2, <1>3, <1>4

LEMMA StartRoundStep ==
  ASSUME RepInv, StartRound
  PROVE  RepInv'
<1>1. ControlInv /\ LinesInv /\ EventInv /\ PlacesInv /\ RecountInv /\ CloseInv
  BY DEF RepInv
<1>2. phase = "idle" /\ closing = "open" /\ phase' = "confirms" /\ Dispatch("confirms", queue, <<>>, NoRound)
      /\ UNCHANGED <<fresh, batch, deadline, confirmed, dropped, delivered, recounted, uncounted>> /\ closing' = closing
      /\ books' = (IF gate THEN ReplayFolds(books, FALSE) ELSE books)
  BY DEF StartRound
<1>3. ~Expired /\ GoodBook(books) /\ books \in BookSet /\ Len(books.queue) <= MaxQueueSize
  BY <1>1, <1>2 DEF CloseInv, EventInv, GoodBook, Expired
<1>4. NoRound \in RoundSet /\ NoRound.resolved <= Quota
  BY NoRoundIs, QuotaIs
<1> DEFINE b == books'
<1>5. /\ GoodBook(b) /\ \A e \in EventIds : Places(b, e) = Places(books, e)
      /\ PlainFrom(b.queue, books.queue) /\ (Rising(books.queue, EventOrder) => Rising(b.queue, EventOrder))
      /\ Len(b.queue) <= MaxQueueSize
 <2>1. CASE gate
   BY <1>2, <2>1, PlacesOnce, <1>3, ReplayFoldsIs
 <2>2. CASE ~gate
   BY <1>2, <2>2, <1>3 DEF PlainFrom
 <2>3. QED BY <2>1, <2>2
<1>6. closing' \in {closing, "flushing"} /\ closing # "sealed"
  BY <1>2
<1>7. QED BY Zenon, <1>2, <1>3, <1>4, <1>5, <1>6, RoundStarts

LEMMA StartFinalStep ==
  ASSUME RepInv, StartFinal
  PROVE  RepInv'
<1>1. GoodBook(books) /\ \A e \in EventIds : Places(books, e) <= 1
  BY PlacesOnce DEF RepInv, EventInv
<1> DEFINE r == [NoRound EXCEPT !.final = TRUE]
<1>2. phase = "idle" /\ ~Expired /\ phase' = "confirms" /\ Dispatch("confirms", queue, <<>>, r)
      /\ UNCHANGED <<fresh, batch, deadline, confirmed, dropped, delivered, recounted, uncounted>> /\ closing' = "flushing"
      /\ books' = TakeFoldsFinal(books)
  BY DEF StartFinal
<1>3. r \in RoundSet /\ r.final
  BY Zenon, NoRoundIs
<1> DEFINE b == books'
<1>4. /\ GoodBook(b) /\ \A e \in EventIds : Places(b, e) = Places(books, e)
      /\ PlainFrom(b.queue, books.queue) /\ (Rising(books.queue, EventOrder) => Rising(b.queue, EventOrder))
  BY <1>2, <1>1, TakeFoldsFinalIs
<1>5. closing' \in {closing, "flushing"} /\ closing # "sealed" /\ (closing' = "open" => Len(books'.queue) <= MaxQueueSize)
  BY <1>2 DEF StartFinal
<1> HIDE DEF r
<1>6. QED BY Zenon, <1>2, <1>3, <1>4, <1>5, RoundStarts

LEMMA KeptAll ==
  ASSUME NEW S, NEW h \in Seq(Claimed(S)), h = hand, AllAnswered, \A k \in DOMAIN hand : hand[k].op # "late"
  PROVE  Kept = Claims(h)
<1>1. \A k \in DOMAIN h : h[k].op \in Ops
  BY ClaimsIs
<1>2. {k \in DOMAIN hand : hand[k].op = "restore"} = DOMAIN h  BY <1>1 DEF AllAnswered, Ops
<1>3. Select(h, DOMAIN h) = h  BY SelectAll
<1>4. Select(hand, {k \in DOMAIN hand : hand[k].op = "restore"}) = h  BY Zenon, <1>2, <1>3
<1>5. QED BY Zenon, <1>4 DEF Kept

LEMMA NewStageIs ==
  ASSUME NEW r \in RoundSet
  PROVE  NewStage(r) \in RoundSet /\ NewStage(r).resolved = 0 /\ NewStage(r).final = r.final
<1>1. NewStage(r) \in RoundSet  BY DEF RoundSet, NewStage
<1>2. NewStage(r).resolved = 0  BY DEF RoundSet, NewStage
<1>3. NewStage(r).final = r.final  BY DEF RoundSet, NewStage
<1>4. QED BY Zenon, <1>1, <1>2, <1>3

(* What a stage leaves when it ends: what is kept fits, what is out is decided. *)
LeftOver(kept, out, s, h, q) ==
  /\ kept \in Seq(Entry(IdsOf(s))) /\ out \in Seq(Entry(IdsOf(s))) /\ Len(kept) <= ControlMax
  /\ \A x : Of(kept, x) + Of(out, x) = Of(Claims(h), x) + Of(q, x)
  /\ Rising(Claims(h) \o q, ControlOrder) => Rising(kept, ControlOrder)
  /\ From(kept, Claims(h) \o q)

LEMMA RestoredLeft ==
  ASSUME NEW s \in Stages, NEW h \in Seq(HandOf(s)), NEW q \in Seq(Entry(IdsOf(s))),
         NEW ff \in BOOLEAN, ~ff, NEW r, r = Restored(q, Claims(h), ControlMax, ff)
  PROVE  LeftOver(r.kept, r.evicted, s, h, q)
<1> DEFINE E == Entry(IdsOf(s))
           c == Claims(h)
<1>1. c \in Seq(E) /\ q \in Seq(E)
  BY ClaimsIs DEF HandOf
<1>2. ControlMax \in Nat /\ r = Restored(q, c, ControlMax, ff)
  BY ReporterAssumption
<1>3. Seq(E) \subseteq Seq(Control)  BY StageSubset
<1> DEFINE a == r.kept
           o == r.evicted
<1>4. /\ a \in Seq(E) /\ o \in Seq(E) /\ Len(a) <= ControlMax
      /\ \A V : Count(a, V) + Count(o, V) = Count(c, V) + Count(q, V)
      /\ (Rising(c \o q, ControlOrder) => Rising(a, ControlOrder)) /\ From(a, c \o q)
  BY <1>1, <1>2, RestoredIs
<1> HIDE DEF E, c, a, o
<1>5. ASSUME NEW x PROVE Of(a, x) + Of(o, x) = Of(c, x) + Of(q, x)
  BY <1>1, <1>3, <1>4, OfIs
<1>6. QED BY Zenon, <1>4, <1>5 DEF LeftOver, E, c, a, o

LEMMA RefusedLeft ==
  ASSUME NEW s \in Stages, NEW q \in Seq(Entry(IdsOf(s)))
  PROVE  LeftOver(<<>>, q, s, <<>>, q)
<1>1. <<>> \in Seq(Entry(IdsOf(s))) /\ Len(<<>>) <= ControlMax
  BY ReporterAssumption
<1>2. Rising(<<>>, ControlOrder) /\ From(<<>>, Claims(<<>>) \o q)
  BY DEF Rising, From
<1>3. Claims(<<>>) = <<>>  BY DEF Claims
<1>4. ASSUME NEW x PROVE Of(<<>>, x) + Of(q, x) = Of(Claims(<<>>), x) + Of(q, x)
  BY Zenon, <1>3
<1>5. QED BY Zenon, <1>1, <1>2, <1>4 DEF LeftOver

LEMMA StageLeft ==
  ASSUME RepInv, NEW s \in Stages, s = phase, NEW kept, NEW out, LeftOver(kept, out, s, hand, queue[s]),
         NEW qs, qs = [queue EXCEPT ![s] = kept]
  PROVE  Queues(qs) /\ Leaves(out, qs, <<>>) /\ \A t \in Stages : InOrder(qs[t], t, fresh)
<1>1. /\ queue \in [Stages -> Seq(Control)] /\ Queues(queue) /\ hand \in Seq(HandOf(s)) /\ hand \in Seq(Hand)
  BY InStageShape
<1>2. /\ kept \in Seq(Entry(IdsOf(s))) /\ out \in Seq(Entry(IdsOf(s))) /\ Len(kept) <= ControlMax
      /\ \A x : Of(kept, x) + Of(out, x) = Of(Claims(hand), x) + Of(queue[s], x)
      /\ Rising(Claims(hand) \o queue[s], ControlOrder) => Rising(kept, ControlOrder)
      /\ From(kept, Claims(hand) \o queue[s])
  BY Zenon DEF LeftOver
<1>3. kept \in Seq(Control) /\ out \in Seq(Control)
  BY <1>2, StageSubset
<1>4. qs[s] = kept /\ \A t \in Stages \ {s} : qs[t] = queue[t]
  BY <1>1
<1>5. Queues(qs)
  BY <1>1, <1>3, <1>2, <1>4 DEF Queues
<1>6. ASSUME NEW t \in Stages PROVE InOrder(qs[t], t, fresh)
 <2>1. InOrder(LineIn(s, hand, queue, t), t, fresh)  BY Zenon DEF RepInv, LinesInv, Line
 <2>2. CASE t = s
  <3> DEFINE l == Claims(hand) \o queue[s]
  <3>1. InOrder(l, s, fresh)  BY Zenon, <1>1, <2>1, <2>2, LineIs
  <3>2. From(kept, l) /\ (Rising(l, ControlOrder) => Rising(kept, ControlOrder))
    BY <1>2
  <3> HIDE DEF l
  <3>3. Rising(kept, ControlOrder)  BY Zenon, <3>1, <3>2 DEF InOrder
  <3>4. InOrder(kept, s, fresh)  BY <3>1, <3>2, <3>3, InOrderFrom
  <3>5. QED BY Zenon, <1>4, <2>2, <3>4
 <2>3. CASE t # s
   BY <1>1, <2>3, LineIs, <1>4, <2>1
 <2>4. QED BY <2>2, <2>3
<1>7. ASSUME NEW x \in AllIds PROVE HeldIn(x, qs, <<>>) + Of(out, x) = HeldIn(x, queue, hand)
 <2>1. HeldIn(x, qs, <<>>) = Of(qs["confirms"], x) + Of(qs["settlements"], x)
   BY Zenon, <1>5, EmptyHand
 <2>2. /\ Of(queue["confirms"], x) \in Nat /\ Of(queue["settlements"], x) \in Nat /\ Of(Claims(hand), x) \in Nat
   BY <1>1, HeldNat
 <2>3. Of(kept, x) \in Nat /\ Of(out, x) \in Nat /\ Of(kept, x) + Of(out, x) = Of(Claims(hand), x) + Of(queue[s], x)
   BY <1>2, <1>3, OfIs
 <2>4. HeldIn(x, queue, hand) = Of(queue["confirms"], x) + Of(queue["settlements"], x) + Of(Claims(hand), x)
   BY Zenon DEF HeldIn
 <2>5. CASE s = "confirms"
   BY <1>4, <2>5, <2>1, <2>2, <2>3, <2>4 DEF Stages
 <2>6. CASE s = "settlements"
   BY <1>4, <2>6, <2>1, <2>2, <2>3, <2>4 DEF Stages
 <2>7. QED BY <2>5, <2>6 DEF Stages
<1>8. Leaves(out, qs, <<>>)  BY Zenon, <1>7 DEF Leaves
<1>9. QED BY <1>5, <1>6, <1>8

LEMMA StageEndsStep ==
  ASSUME RepInv, StageEnds
  PROVE  RepInv'
<1> DEFINE again == round.final /\ hand # <<>>
           refused == round.final /\ round.held /\ hand = <<>>
           q == queue[phase]
           r == Restored(q, Kept, ControlMax, FALSE)
           kept == IF refused THEN <<>> ELSE r.kept
           out == IF refused THEN q ELSE r.evicted
           qs == [queue EXCEPT ![phase] = kept]
           b == EventsOf(books, phase, out)
           fin == NewStage(round)
<1>1. /\ InStage /\ ~Expired /\ AllAnswered /\ books' = b /\ dropped' = CountDrops(out)
      /\ IF again THEN phase' = phase /\ Dispatch(phase, qs, <<>>, fin) ELSE NextStage(phase, qs, b)
      /\ UNCHANGED <<fresh, batch, closing, deadline, confirmed, delivered, recounted, uncounted>>
  BY Zenon DEF StageEnds
<1>2. phase \in Stages  BY <1>1 DEF InStage
<1>3. /\ batch = <<>> /\ closing # "sealed" /\ hand \in Seq(HandOf(phase)) /\ Queues(queue) /\ round \in RoundSet
      /\ \A k \in DOMAIN hand : hand[k].op # "late" /\ q \in Seq(Entry(IdsOf(phase)))
      /\ confirmed \subseteq Controls /\ dropped \in [Controls -> Nat]
  BY Zenon, <1>1, <1>2, InStageShape
<1>4. LeftOver(kept, out, phase, hand, q)
 <2>1. CASE refused
  <3>1. LeftOver(<<>>, q, phase, <<>>, q)
    BY <1>2, InStageShape, RefusedLeft
  <3>2. kept = <<>> /\ out = q /\ hand = <<>>
    BY Zenon, <2>1
  <3>3. QED BY Zenon, <3>1, <3>2
 <2>2. CASE ~refused
  <3>1. Kept = Claims(hand)  BY Zenon, <1>1, <1>3, KeptAll DEF HandOf
  <3> DEFINE ff == FALSE
  <3>2. r = Restored(q, Claims(hand), ControlMax, ff) /\ ff \in BOOLEAN /\ ~ff
    BY Zenon, <3>1
  <3>3. q \in Seq(Entry(IdsOf(phase)))  BY Zenon, <1>2, InStageShape
  <3>4. LeftOver(r.kept, r.evicted, phase, hand, q)
    BY <1>2, <1>3, <3>2, <3>3, RestoredLeft
  <3>5. kept = r.kept /\ out = r.evicted
    BY Zenon, <2>2
  <3>6. QED BY Zenon, <3>4, <3>5
 <2>3. QED BY <2>1, <2>2
<1>5. out \in Seq(Entry(IdsOf(phase))) /\ out \in Seq(Control)
  BY <1>4, <1>2, StageSubset DEF LeftOver
<1>6. fin \in RoundSet /\ fin.resolved <= Quota
  BY <1>3, NewStageIs, QuotaIs
<1> HIDE DEF again, refused, r, kept, out, fin
<1>7. Queues(qs) /\ Leaves(out, qs, <<>>) /\ \A t \in Stages : InOrder(qs[t], t, fresh)
  BY <1>2, <1>4, StageLeft DEF q
<1> HIDE DEF q, qs
<1>8. Quiet  BY <1>1, <1>3 DEF Quiet
<1>9. Balanced(out)  BY Zenon, <1>1, <1>3, <1>5, GivenUp
<1>10. books' = EventsOf(books, phase, out)  BY <1>1
<1> HIDE DEF b
<1>11. \A p \in Stages : Dispatchable(p, qs, <<>>, fin)
 <2>1. ASSUME NEW p \in Stages PROVE Dispatchable(p, qs, <<>>, fin)
   BY <1>7, EmptyHand, SendingNone, <1>6 DEF Dispatchable
 <2>2. QED BY <2>1
<1> DEFINE none == <<>>
<1>12. ASSUME NEW p \in Stages, phase' = p, Dispatch(p, qs, none, fin) PROVE RepInv'
  BY <1>7, <1>11, <1>2, <1>5, <1>8, <1>9, <1>10, <1>12, DispatchedStep
<1>13. CASE again
  BY <1>1, <1>2, <1>12, <1>13
<1>14. CASE ~again /\ phase = "confirms"
  BY <1>1, <1>14, <1>12 DEF NextStage, fin, Stages
<1>15. CASE ~again /\ phase = "settlements"
 <2>1. /\ phase' = "events" /\ queue' = qs /\ hand' = <<>>
       /\ round' = [NewStage(round) EXCEPT !.left = IF round.final THEN 0 ELSE Batches(b.queue)]
   BY <1>1, <1>15 DEF NextStage
 <2>2. round' \in RoundSet /\ (round'.final \/ round'.resolved <= Quota)
  <3> DEFINE n == IF round.final THEN 0 ELSE Batches(b.queue)
  <3>1. n \in Int
   <4>1. Len(b.queue) \in Nat
    <5>1. GoodBook(b)
     <6>1. \A e \in EventIds : Places(books, e) + Of(out, e) <= 1
      <7>1. ASSUME NEW e \in EventIds PROVE Places(books, e) + Of(out, e) <= 1
       <8>1. Places(books, e) + Count(batch, Holding(e)) + HeldIn(e, queue, hand) <= 1
         BY Zenon, <7>1, PlacesOnce
       <8>2. HeldIn(e, qs, <<>>) + Of(out, e) = HeldIn(e, queue, hand)
         BY Zenon, <1>7, IdsAre DEF Leaves
       <8>3. /\ Places(books, e) \in Nat /\ Count(batch, Holding(e)) \in Nat /\ HeldIn(e, queue, hand) \in Nat
             /\ HeldIn(e, qs, <<>>) \in Nat /\ Of(out, e) \in Nat
        <9>1. ControlInv /\ EventInv /\ books \in BookSet /\ <<>> \in Seq(Hand)
          BY DEF RepInv, EventInv, GoodBook
        <9>2. HeldIn(e, qs, <<>>) \in Nat  BY Zenon, <1>7, <9>1, HeldNat
        <9>3. Of(out, e) \in Nat  BY <1>5, OfIs
        <9>4. QED BY Zenon, <9>1, <9>2, <9>3, PlacesNat, OwedNat, WaitingNat
       <8>4. QED BY <8>1, <8>2, <8>3
      <7>2. QED BY <7>1
     <6>2. GoodBook(books) /\ b = EventsOf(books, phase, out)
       BY DEF RepInv, EventInv, b
     <6>3. QED BY <1>2, <1>5, <6>1, <6>2, EventsOfIs
    <5>2. b.queue \in Seq(EventEntry)  BY <5>1, BookFields DEF GoodBook
    <5>3. QED BY <5>2
   <4>2. BatchSize \in Nat /\ BatchSize > 0
     BY ReporterAssumption
   <4>3. QED BY <4>1, <4>2 DEF Batches
  <3>2. fin \in RoundSet /\ fin.resolved = 0 /\ round' = [fin EXCEPT !.left = n]
    BY <1>3, <2>1, NewStageIs DEF fin
  <3> HIDE DEF n
  <3>3. [fin EXCEPT !.left = n] \in RoundSet  BY <3>1, <3>2 DEF RoundSet
  <3>4. [fin EXCEPT !.left = n].resolved = 0  BY <3>2 DEF RoundSet
  <3>5. QED BY <3>2, <3>3, <3>4, QuotaIs
 <2>3. ControlInv'
  <3>1. (fresh \subseteq AllIds /\ Queues(queue))'
    BY Zenon, <1>7, <1>8, <2>1 DEF RepInv, ControlInv, Quiet
  <3>2. (hand \in Seq(Hand) /\ (phase \in Stages => hand \in Seq(HandOf(phase))) /\ (phase \notin Stages => hand = <<>>)
         /\ Sending(hand) <= MaxInFlight /\ \A k \in DOMAIN hand : hand[k].op = "late" => Expired)'
    BY <2>1, SendingNone
  <3>3. (phase \in {"idle", "confirms", "settlements", "events"})'  BY <2>1
  <3>4. QED BY Zenon, <2>2, <3>1, <3>2, <3>3 DEF ControlInv
 <2>4. LinesInv'
  <3>1. ASSUME NEW t \in Stages PROVE InOrder(Line(t), t, fresh)'
    BY <1>7, EmptyHand, <2>1, <1>8 DEF Line, Quiet, InOrder
  <3>2. QED BY Zenon, <3>1 DEF LinesInv
 <2>5. \A x \in AllIds : HeldIn(x, queue', hand') + Of(out, x) = HeldIn(x, queue, hand)
   BY Zenon, <1>7, <2>1 DEF Leaves
 <2>6. QED BY Zenon, <1>2, <1>5, <1>8, <1>9, <1>10, <2>3, <2>4, <2>5, MovedStep
<1>16. QED BY <1>2, <1>13, <1>14, <1>15 DEF Stages

LEMMA ControlKept ==
  ASSUME ControlInv, LinesInv, UNCHANGED <<fresh, queue, hand>>, round' \in RoundSet, round'.final \/ round'.resolved <= Quota,
         \/ phase' = phase
         \/ hand = <<>> /\ phase' \in {"idle", "events"},
         Expired => Expired'
  PROVE  ControlInv' /\ LinesInv' /\ \A x : Waiting(x)' = Waiting(x)
<1>1. \A x : Waiting(x)' = Waiting(x)
  BY Zenon DEF Waiting
<1>2. CASE phase' = phase
  BY <1>2, <1>1 DEF ControlInv, LinesInv, Line
<1>3. CASE hand = <<>> /\ phase' \in {"idle", "events"}
 <2>1. ControlInv'  BY <1>3 DEF ControlInv, Stages
 <2>2. LinesInv'
  <3>1. ASSUME NEW t \in Stages PROVE InOrder(Line(t), t, fresh)'
    BY EmptyHand, <1>3 DEF ControlInv, Line, LinesInv, InOrder
  <3>2. QED BY Zenon, <3>1 DEF LinesInv
 <2>3. QED BY Zenon, <1>1, <2>1, <2>2
<1>4. QED BY <1>2, <1>3

LEMMA EventKept ==
  ASSUME EventInv, UNCHANGED <<fresh, books, batch>>, closing' = "open" => closing = "open"
  PROVE  EventInv'
<1>1. (GoodBook(books))' /\ (batch \in Seq(EventEntry) /\ Len(batch) <= BatchSize)'
  BY DEF EventInv
<1>2. (closing = "open" => Len(books.queue) <= MaxQueueSize)'  BY DEF EventInv
<1>3. EventsInOrder(batch' \o books'.queue, fresh')  BY Zenon DEF EventInv
<1>4. (EventsInOrder(batch \o books.queue, fresh))'  BY Zenon, <1>3 DEF EventsInOrder
<1>5. QED BY Zenon, <1>1, <1>2, <1>4 DEF EventInv

LEMMA PlacesKept ==
  ASSUME PlacesInv, \A x : Waiting(x)' = Waiting(x),
         UNCHANGED <<books, batch, delivered, uncounted, confirmed, dropped, recounted>>
  PROVE  PlacesInv'
BY Zenon DEF PlacesInv, Owed

LEMMA RecountKept ==
  ASSUME RecountInv, UNCHANGED <<recounted, dropped, hand>>, Expired => Expired', closing = "sealed" => closing' = "sealed"
  PROVE  RecountInv'
BY DEF RecountInv, LateHand

(* The clocks and close() leave what is held where it is. *)
LEMMA ClockStep ==
  ASSUME RepInv, HoldEnds \/ ReportsEnd \/ DeadlinePasses \/ Close
  PROVE  RepInv'
<1>1. ControlInv /\ LinesInv /\ EventInv /\ PlacesInv /\ RecountInv /\ CloseInv
  BY DEF RepInv
<1>2. UNCHANGED <<fresh, queue, books, hand, batch, phase, round, confirmed, dropped, delivered, recounted, uncounted>>
  BY DEF HoldEnds, ReportsEnd, DeadlinePasses, Close
<1>3. /\ Expired => Expired'
      /\ \/ closing' = closing /\ (closing # "open" \/ deadline' = deadline)
         \/ closing = "open" /\ closing' = "joining"
 <2>1. CASE HoldEnds
   BY <2>1 DEF HoldEnds, Expired
 <2>2. CASE ReportsEnd
   BY <2>2 DEF ReportsEnd, Expired
 <2>3. CASE DeadlinePasses
   BY <2>3, <1>1 DEF DeadlinePasses, CloseInv, Expired
 <2>4. CASE Close
   BY <2>4, <1>1 DEF Close, CloseInv, Expired
 <2>5. QED BY <2>1, <2>2, <2>3, <2>4
<1>4. ControlInv' /\ LinesInv' /\ \A x : Waiting(x)' = Waiting(x)
  BY <1>1, <1>2, <1>3, ControlKept DEF ControlInv
<1>5. EventInv'  BY <1>1, <1>2, <1>3, EventKept
<1>6. PlacesInv'  BY Zenon, <1>1, <1>2, <1>4, PlacesKept
<1>7. RecountInv'  BY <1>1, <1>2, <1>3, RecountKept
<1>8. CloseInv'  BY <1>1, <1>2, <1>3 DEF CloseInv, Expired
<1>9. QED BY Zenon, <1>4, <1>5, <1>6, <1>7, <1>8 DEF RepInv

LEMMA FreshNext ==
  ASSUME NEW S, fresh \cap S # {}, fresh \subseteq AllIds
  PROVE  /\ Next1(S) \in fresh \cap S /\ Next1(S) \in Nat
         /\ \A y \in fresh \cap S : y # Next1(S) => Next1(S) < y
<1>1. fresh \cap S \subseteq Nat  BY IdsAre
<1> DEFINE F == fresh \cap S
<1>2. Min(F) \in F /\ \A y \in F : Min(F) <= y
  BY <1>1, MinIs
<1>3. Next1(S) = Min(F)  BY DEF Next1
<1>4. \A y \in F : y \in Nat
  BY <1>1
<1> HIDE DEF F
<1>5. Next1(S) \in F /\ \A y \in F : y # Next1(S) => Next1(S) < y
  BY <1>2, <1>3, <1>4
<1>6. QED BY <1>4, <1>5 DEF F

LEMMA IfLess ==
  ASSUME NEW F, NEW c \in F, NEW x
  PROVE  If(x \in F \ {c}) + (IF x = c THEN 1 ELSE 0) = If(x \in F)
<1>1. CASE x = c
  BY <1>1 DEF If
<1>2. CASE x # c
  BY <1>2 DEF If
<1>3. QED BY <1>1, <1>2

(* What a caller hands in is counted at once, or goes to the books. *)
LEMMA HandedIn ==
  ASSUME ControlInv, EventInv, PlacesInv, NEW c \in fresh, fresh' = fresh \ {c}, UNCHANGED <<queue, hand>>,
         GoodBook(books'), \A e \in EventIds : Places(books', e) = Places(books, e) + (IF e = c THEN 1 ELSE 0),
         dropped' \in [Controls -> Nat], \A x \in Controls : dropped'[x] = dropped[x] + (IF x = c THEN 1 ELSE 0),
         UNCHANGED <<batch, delivered, uncounted, recounted, confirmed>>
  PROVE  PlacesInv'
<1>1. ASSUME NEW x PROVE Waiting(x)' + (IF x = c THEN 1 ELSE 0) = Waiting(x) /\ Waiting(x) \in Nat /\ Waiting(x)' \in Nat
  BY IfLess, WaitingNat, IfIs DEF Waiting
<1>2. ASSUME NEW x \in Controls PROVE Waiting(x)' + If(x \in confirmed') + dropped'[x] = 1 + If(x \in recounted')
  BY <1>1, IfIs DEF PlacesInv
<1>3. ASSUME NEW e \in EventIds PROVE Waiting(e)' + Places(books', e) + Owed(e)' = 1
 <2> DEFINE w0 == Waiting(e)
            w1 == Waiting(e)'
            p0 == Places(books, e)
            p1 == Places(books', e)
            o == Owed(e)
            i == IF e = c THEN 1 ELSE 0
 <2>1. w0 + p0 + o = 1  BY DEF PlacesInv
 <2>2. w1 + i = w0 /\ w1 \in Nat /\ w0 \in Nat
   BY Zenon, <1>1
 <2>3. p1 = p0 + i  BY Zenon
 <2>4. o \in Nat /\ p0 \in Nat /\ i \in Nat
   BY OwedNat, PlacesNat DEF EventInv, GoodBook
 <2>5. Owed(e)' = o  BY Zenon DEF Owed
 <2> HIDE DEF w0, w1, p0, p1, o, i
 <2>6. w1 + p1 + o = 1  BY <2>1, <2>2, <2>3, <2>4
 <2>7. QED BY Zenon, <2>5, <2>6 DEF w1, p1
<1>4. (\A x \in Controls : Waiting(x) + If(x \in confirmed) + dropped[x] = 1 + If(x \in recounted))'
  BY Zenon, <1>2
<1>5. (\A e \in EventIds : Waiting(e) + Places(books, e) + Owed(e) = 1)'
  BY Zenon, <1>3
<1>6. (confirmed \subseteq Controls /\ dropped \in [Controls -> Nat] /\ recounted \subseteq Controls
         /\ delivered \subseteq EventIds /\ uncounted \subseteq EventIds)'
  BY DEF PlacesInv
<1>7. QED BY Zenon, <1>4, <1>5, <1>6 DEF PlacesInv

LEMMA FreshStep ==
  ASSUME ControlInv, LinesInv, UNCHANGED <<queue, hand, phase, round, deadline>>, fresh' \subseteq fresh
  PROVE  ControlInv' /\ LinesInv'
<1>1. ControlInv'  BY DEF ControlInv, Expired
<1>2. ASSUME NEW t \in Stages PROVE InOrder(Line(t), t, fresh)'
 <2>1. InOrder(Line(t), t, fresh)  BY DEF LinesInv
 <2>2. From(Line(t), Line(t))  BY DEF From
 <2>3. InOrder(Line(t), t, fresh')
   BY <2>1, <2>2, InOrderFrom DEF InOrder
 <2>4. Line(t)' = Line(t)  BY Zenon DEF Line
 <2>5. InOrder(Line(t)', t, fresh')  BY Zenon, <2>3, <2>4
 <2>6. QED BY Zenon, <2>5 DEF InOrder
<1>3. QED BY Zenon, <1>1, <1>2 DEF LinesInv

LEMMA RecountGrow ==
  ASSUME RecountInv, dropped \in [Controls -> Nat], dropped' \in [Controls -> Nat], \A c \in Controls : dropped'[c] >= dropped[c],
         recounted \subseteq Controls, UNCHANGED <<recounted, hand, deadline, closing>>
  PROVE  RecountInv'
<1>1. ASSUME NEW c \in recounted PROVE dropped'[c] >= 1 /\ Expired /\ (closing = "sealed" \/ LateHand(c))
  BY DEF RecountInv
<1>2. QED BY <1>1 DEF RecountInv, Expired, LateHand

(* Appending the next event to a line that is in order. *)
LEMMA EventAppended ==
  ASSUME NEW l \in Seq(EventEntry), NEW F, EventsInOrder(l, F), NEW e \in F \cap Events,
         \A f \in F \cap Events : f # e => e < f
  PROVE  EventsInOrder(Append(l, Pending({e})), F \ {e})
<1> DEFINE x == Pending({e})
           a == Append(l, x)
<1>1. {e} \in Ids /\ x \in EventEntry /\ x.of = {e}
  BY SingleId, PendingIs DEF EventIds, EventEntry
<1>2. Rising(a, EventOrder)
  BY <1>1, RisingAppend DEF EventsInOrder
<1>3. ASSUME NEW f \in (F \ {e}) \cap Events PROVE Under(a, {f}, EventOrder)
 <2>1. {f} \in Ids  BY SingleId DEF EventIds
 <2>2. <<{e}, {f}>> \in EventOrder
  <3>1. e \in Nat /\ f \in Nat /\ e < f
    BY ReporterAssumption
  <3>2. Min({e}) = e /\ Min({f}) = f
    BY <3>1, MinIs
  <3>3. QED BY <1>1, <2>1, <3>1, <3>2 DEF EventOrder
 <2>3. ASSUME NEW i \in DOMAIN a PROVE <<a[i].of, {f}>> \in EventOrder
  <3> HIDE DEF x
  <3>1. CASE i \in DOMAIN l
    BY <1>1, <3>1 DEF EventsInOrder, Under
  <3>2. CASE i \notin DOMAIN l
   <4>1. a[i] = x  BY <1>1, <3>2
   <4>2. QED BY <1>1, <2>2, <4>1
  <3>3. QED BY <3>1, <3>2
 <2>4. QED BY <2>3 DEF Under
<1>4. QED BY Zenon, <1>2, <1>3 DEF EventsInOrder

LEMMA AppendRight ==
  ASSUME NEW S, NEW s \in Seq(S), NEW t \in Seq(S), NEW x \in S
  PROVE  s \o Append(t, x) = Append(s \o t, x)
OBVIOUS

LEMMA TailPlain ==
  ASSUME NEW S, NEW q \in Seq(S), q # <<>>, NEW R
  PROVE  PlainFrom(Tail(q), q) /\ (Rising(q, R) => Rising(Tail(q), R)) /\ Tail(q) \in Seq(S)
<1>1. (Rising(q, R) => Rising(Tail(q), R)) /\ From(Tail(q), q)
  BY RisingTail
<1>2. Tail(q) \in Seq(S)  BY CountTail
<1>3. PlainFrom(Tail(q), q)  BY Zenon, <1>1, PlainFromFrom
<1>4. QED BY <1>1, <1>2, <1>3

LEMMA PushedAs ==
  ASSUME NEW b, GoodBook(b), NEW I \in Ids, NEW ff \in BOOLEAN, ~ff, \A x \in EventIds : Places(b, x) <= 1,
         NEW c, c = PushEvent(b, I, ff)
  PROVE  /\ GoodBook(c)
         /\ \A x \in EventIds : Places(c, x) = Places(b, x) + (IF x \in I THEN 1 ELSE 0)
         /\ \/ c.queue = Append(b.queue, Pending(I))
            \/ b.queue # <<>> /\ c.queue = Append(Tail(b.queue), Pending(I))
         /\ Len(b.queue) <= MaxQueueSize => Len(c.queue) <= MaxQueueSize
<1>1. /\ GoodBook(c) /\ c.terminal = b.terminal /\ (ff => c.folds = b.folds)
      /\ \A e \in EventIds : Places(c, e) = Places(b, e) + (IF e \in I THEN 1 ELSE 0)
      /\ \/ c.queue = Append(b.queue, Pending(I))
         \/ ~ff /\ b.queue # <<>> /\ c.queue = Append(Tail(b.queue), Pending(I))
      /\ ~ff /\ Len(b.queue) <= MaxQueueSize => Len(c.queue) <= MaxQueueSize
  BY PushEventIs
<1>2. QED BY Zenon, <1>1

LEMMA PushedOpen ==
  ASSUME NEW b, GoodBook(b), NEW e \in EventIds, \A x \in EventIds : Places(b, x) <= 1,
         NEW c, c = PushEvent(b, {e}, FALSE)
  PROVE  /\ GoodBook(c)
         /\ \A x \in EventIds : Places(c, x) = Places(b, x) + (IF x = e THEN 1 ELSE 0)
         /\ \/ c.queue = Append(b.queue, Pending({e}))
            \/ b.queue # <<>> /\ c.queue = Append(Tail(b.queue), Pending({e}))
         /\ Len(b.queue) <= MaxQueueSize => Len(c.queue) <= MaxQueueSize
<1> DEFINE ff == FALSE
           I == {e}
<1>1. ff \in BOOLEAN /\ ~ff /\ I \in Ids /\ c = PushEvent(b, I, ff)
  BY SingleId
<1> HIDE DEF ff, I
<1>2. /\ GoodBook(c)
      /\ \A x \in EventIds : Places(c, x) = Places(b, x) + (IF x \in I THEN 1 ELSE 0)
      /\ \/ c.queue = Append(b.queue, Pending(I))
         \/ b.queue # <<>> /\ c.queue = Append(Tail(b.queue), Pending(I))
      /\ Len(b.queue) <= MaxQueueSize => Len(c.queue) <= MaxQueueSize
  BY Zenon, <1>1, PushedAs
<1>3. \A x : x \in I <=> x = e
  BY DEF I
<1>4. \A x \in EventIds : Places(c, x) = Places(b, x) + (IF x = e THEN 1 ELSE 0)
  BY <1>2, <1>3
<1>6. QED BY Zenon, <1>2, <1>4 DEF I

LEMMA CountedQueue ==
  ASSUME NEW b, GoodBook(b), NEW X
  PROVE  Counted(b, X).queue = b.queue /\ Counted(b, X).terminal = b.terminal
<1>1. b \in BookSet  BY DEF GoodBook
<1>2. QED BY <1>1, CountedIs

LEMMA ReportStep ==
  ASSUME RepInv, Report
  PROVE  RepInv'
<1> DEFINE e == Next1(Events)
<1>1. ControlInv /\ LinesInv /\ EventInv /\ PlacesInv /\ RecountInv /\ CloseInv
  BY DEF RepInv
<1>2. /\ fresh' = fresh \ {e} /\ fresh \cap Events # {}
      /\ books' = IF closing = "open" THEN PushEvent(books, {e}, FALSE) ELSE Counted(books, {e})
      /\ UNCHANGED <<queue, hand, batch, phase, round, closing, deadline, confirmed, dropped, delivered, recounted, uncounted>>
  BY DEF Report
<1>3. e \in fresh \cap Events /\ \A y \in fresh \cap Events : y # e => e < y
  BY <1>1, <1>2, FreshNext DEF ControlInv
<1> HIDE DEF e
<1>4. ControlInv' /\ LinesInv'
  BY <1>2, <1>1, FreshStep
<1>5. GoodBook(books) /\ {e} \in Ids /\ \A x \in EventIds : Places(books, x) <= 1
  BY <1>3, SingleId, <1>1, PlacesOnce DEF EventIds, EventInv
<1> DEFINE b == books'
<1>6. /\ GoodBook(b)
      /\ \A x \in EventIds : Places(b, x) = Places(books, x) + (IF x = e THEN 1 ELSE 0)
      /\ closing = "open" => Len(b.queue) <= MaxQueueSize
      /\ EventsInOrder(batch \o b.queue, fresh')
 <2> DEFINE q == books.queue
 <2>1. q \in Seq(EventEntry) /\ batch \in Seq(EventEntry) /\ EventsInOrder(batch \o q, fresh)
   BY <1>1, <1>5, BookFields DEF EventInv, GoodBook
 <2>2. CASE closing = "open"
  <3> DEFINE ff == FALSE
             x == Pending({e})
  <3>1. b = PushEvent(books, {e}, ff) /\ ff \in BOOLEAN /\ ~ff
    BY <1>2, <2>2
  <3>2. Len(q) <= MaxQueueSize  BY <1>1, <2>2 DEF EventInv
  <3>3. /\ GoodBook(b)
        /\ \A y \in EventIds : Places(b, y) = Places(books, y) + (IF y = e THEN 1 ELSE 0)
        /\ \/ b.queue = Append(q, x)
           \/ q # <<>> /\ b.queue = Append(Tail(q), x)
        /\ Len(q) <= MaxQueueSize => Len(b.queue) <= MaxQueueSize
   <4>1. e \in EventIds /\ b = PushEvent(books, {e}, FALSE)
     BY <1>3, <3>1 DEF EventIds
   <4> HIDE DEF b
   <4> DEFINE k == books
   <4>0. GoodBook(k) /\ (\A y \in EventIds : Places(k, y) <= 1) /\ b = PushEvent(k, {e}, FALSE)
     BY Zenon, <1>5, <4>1
   <4> HIDE DEF k
   <4>2. /\ GoodBook(b)
         /\ \A y \in EventIds : Places(b, y) = Places(k, y) + (IF y = e THEN 1 ELSE 0)
         /\ \/ b.queue = Append(k.queue, Pending({e}))
            \/ k.queue # <<>> /\ b.queue = Append(Tail(k.queue), Pending({e}))
         /\ Len(k.queue) <= MaxQueueSize => Len(b.queue) <= MaxQueueSize
     BY Zenon, <4>0, <4>1, PushedOpen
   <4>6. QED BY Zenon, <4>2 DEF k
  <3>4. EventsInOrder(batch \o b.queue, fresh')
   <4>1. \E t \in Seq(EventEntry) : b.queue = Append(t, x) /\ PlainFrom(t, q) /\ (Rising(q, EventOrder) => Rising(t, EventOrder))
    <5>1. CASE b.queue = Append(q, x)
      BY <2>1, <5>1 DEF PlainFrom
    <5>2. CASE q # <<>> /\ b.queue = Append(Tail(q), x)
      BY <2>1, <5>2, TailPlain
    <5>3. QED BY Zenon, <3>3, <5>1, <5>2
   <4>2. PICK t \in Seq(EventEntry) : b.queue = Append(t, x) /\ PlainFrom(t, q) /\ (Rising(q, EventOrder) => Rising(t, EventOrder))
     BY Zenon, <4>1
   <4>3. EventsInOrder(batch \o t, fresh)
     BY <2>1, <4>2, OrderedTail
   <4>4. batch \o t \in Seq(EventEntry)  BY <2>1, ConcatIs
   <4> DEFINE l == batch \o t
   <4>5. EventsInOrder(Append(l, Pending({e})), fresh \ {e})
     BY <4>3, <4>4, <1>3, EventAppended
   <4>6. x \in EventEntry  BY <1>5, PendingIs DEF EventEntry
   <4>7. batch \o Append(t, x) = Append(l, x)
     BY <2>1, <4>6, AppendRight
   <4>8. QED BY Zenon, <1>2, <4>2, <4>5, <4>7
  <3>5. QED BY Zenon, <3>2, <3>3, <3>4
 <2>3. CASE closing # "open"
  <3>1. b = Counted(books, {e})  BY <1>2, <2>3
  <3>2. GoodBook(b) /\ \A x \in EventIds : Places(b, x) = Places(books, x) + (IF x = e THEN 1 ELSE 0)
    BY <1>5, CountedPlaces, <3>1
  <3>3. b.queue = q  BY Zenon, <1>5, <3>1, CountedQueue
  <3>4. EventsInOrder(batch \o q, fresh')
   <4>1. PlainFrom(batch \o q, batch \o q) /\ Rising(batch \o q, EventOrder) /\ batch \o q \in Seq(EventEntry)
     BY <2>1, ConcatIs DEF PlainFrom, EventsInOrder
   <4> DEFINE l == batch \o q
              G == fresh'
   <4>2. G \subseteq fresh  BY <1>2
   <4> HIDE DEF l, G
   <4>3. EventsInOrder(l, G)  BY <2>1, <4>1, <4>2, OrderedLine DEF l
   <4>4. QED BY Zenon, <4>3 DEF l, G
  <3>5. QED BY Zenon, <2>3, <3>2, <3>3, <3>4
 <2>4. QED BY <2>2, <2>3
<1>7. EventInv'
  BY <1>1, <1>2, <1>6 DEF EventInv, EventsInOrder
<1>8. PlacesInv'
 <2>1. e \in fresh /\ e \notin Controls
   BY <1>3, IdsAre
 <2>2. \A x \in EventIds : Places(books', x) = Places(books, x) + (IF x = e THEN 1 ELSE 0)
   BY <1>6
 <2>3. dropped' \in [Controls -> Nat] /\ \A x \in Controls : dropped'[x] = dropped[x] + (IF x = e THEN 1 ELSE 0)
   BY <1>1, <1>2, <2>1 DEF PlacesInv
 <2>4. GoodBook(books')  BY Zenon, <1>6
 <2>5. QED BY Zenon, <1>1, <1>2, <2>1, <2>2, <2>3, <2>4, HandedIn
<1>9. RecountInv'  BY <1>1, <1>2, RecountKept DEF Expired
<1>10. CloseInv'
 <2>1. closing = "sealed" => books'.queue = books.queue /\ books'.terminal = books.terminal
   BY <1>2, <1>5, CountedQueue
 <2>2. QED BY <1>1, <1>2, <2>1 DEF CloseInv
<1>11. QED BY Zenon, <1>4, <1>7, <1>8, <1>9, <1>10 DEF RepInv

LEMMA ControlAppended ==
  ASSUME NEW s \in Stages, NEW l \in Seq(Control), NEW F, InOrder(l, s, F), NEW c \in F \cap IdsOf(s),
         \A y \in F \cap IdsOf(s) : y # c => c < y
  PROVE  InOrder(Append(l, Pending(c)), s, F \ {c})
<1> DEFINE x == Pending(c)
           a == Append(l, x)
<1>0. c \in Controls /\ IdsOf(s) \subseteq Controls
  BY IdsAre
<1>1. x \in Control /\ x.of = c
  BY <1>0, PendingIs DEF Control
<1> HIDE DEF x
<1>2. Rising(a, ControlOrder)
  BY <1>1, RisingAppend DEF InOrder
<1>3. ASSUME NEW d \in (F \ {c}) \cap IdsOf(s) PROVE Under(a, d, ControlOrder)
 <2>1. Under(l, d, ControlOrder)  BY DEF InOrder
 <2>2. <<c, d>> \in ControlOrder  BY <1>0 DEF ControlOrder
 <2>3. a \in Seq(Control) /\ Len(a) = Len(l) + 1 /\ a[Len(l) + 1] = x /\ \A i \in DOMAIN l : a[i] = l[i]
   BY <1>1
 <2>4. DOMAIN a = 1 .. Len(l) + 1 /\ DOMAIN l = 1 .. Len(l) /\ Len(l) \in Nat
   BY <2>3
 <2> HIDE DEF a
 <2>5. ASSUME NEW i \in DOMAIN a PROVE <<a[i].of, d>> \in ControlOrder
  <3>1. CASE i \in DOMAIN l
    BY <2>1, <2>3, <3>1 DEF Under
  <3>2. CASE i \notin DOMAIN l
    BY <2>3, <2>4, <3>2, <1>1, <2>2
  <3>3. QED BY <3>1, <3>2
 <2>6. QED BY <2>5 DEF Under
<1>4. QED BY Zenon, <1>2, <1>3 DEF InOrder, x

LEMMA QueueGrows ==
  ASSUME ControlInv, LinesInv, NEW s \in Stages, NEW q \in Seq(Entry(IdsOf(s))), Len(q) < ControlMax,
         NEW c \in fresh \cap IdsOf(s), \A y \in fresh \cap IdsOf(s) : y # c => c < y,
         Rising(queue[s], ControlOrder) => Rising(q, ControlOrder), From(q, queue[s]),
         queue' = [queue EXCEPT ![s] = Append(q, Pending(c))], fresh' = fresh \ {c}, UNCHANGED <<hand, phase, round, deadline>>
  PROVE  ControlInv' /\ LinesInv' /\ \A x : Waiting(x)' + Of(queue[s], x) = Waiting(x) + Of(q, x)
<1> DEFINE X == IF phase = s THEN Claims(hand) ELSE <<>>
           p == Pending(c)
           q2 == Append(q, p)
<1>0. /\ c \in Controls /\ c \in IdsOf(s) /\ ControlMax \in Nat \ {0}
      /\ Queues(queue) /\ hand \in Seq(Hand) /\ queue \in [Stages -> Seq(Control)]
  BY IdsAre, ReporterAssumption DEF ControlInv, Queues
<1>1. p \in Entry(IdsOf(s)) /\ p \in Control /\ p.of = c
  BY <1>0, PendingIs DEF Control
<1> HIDE DEF p
<1>2. /\ q2 \in Seq(Entry(IdsOf(s))) /\ Len(q2) <= ControlMax /\ q \in Seq(Control) /\ q2 \in Seq(Control)
      /\ queue[s] \in Seq(Control) /\ Claims(hand) \in Seq(Control) /\ X \in Seq(Control)
 <2>1. q2 \in Seq(Entry(IdsOf(s))) /\ Len(q2) <= ControlMax
   BY <1>0, <1>1
 <2>2. queue[s] \in Seq(Control) /\ Claims(hand) \in Seq(Control)
   BY <1>0, LineIs
 <2>3. X \in Seq(Control)  BY <2>2
 <2>4. Seq(Entry(IdsOf(s))) \subseteq Seq(Control)  BY StageSubset
 <2> HIDE DEF q2, X
 <2>5. QED BY <2>1, <2>2, <2>3, <2>4
<1>3. /\ queue' \in [Stages -> Seq(Control)] /\ queue'[s] = q2 /\ \A t \in Stages \ {s} : queue'[t] = queue[t]
  BY <1>0, <1>2 DEF p
<1> HIDE DEF q2, X
<1>4. Queues(queue')  BY <1>0, <1>2, <1>3 DEF Queues
<1>5. \A x : Of(q2, x) = Of(q, x) + (IF x = c THEN 1 ELSE 0)
 <2> TAKE x
 <2>1. Of(q2, x) = Count(q2, About(x)) /\ Of(q, x) = Count(q, About(x))
   BY <1>2, OfIs
 <2>2. p \in About(x) <=> x = c  BY <1>1 DEF About
 <2>3. Count(q2, About(x)) = Count(q, About(x)) + (IF p \in About(x) THEN 1 ELSE 0)
   BY <1>1, <1>2, CountAppend DEF q2
 <2>4. QED BY <2>1, <2>2, <2>3
<1>6. ControlInv'
  BY <1>4 DEF ControlInv, Expired
<1>7. ASSUME NEW t \in Stages PROVE InOrder(LineIn(phase', hand', queue', t), t, fresh')
 <2>1. InOrder(LineIn(phase, hand, queue, t), t, fresh)  BY DEF LinesInv, Line
 <2>2. CASE t # s
  <3> DEFINE l == LineIn(phase, hand, queue, t)
  <3>1. LineIn(phase', hand', queue', t) = l  BY Zenon, <1>3, <2>2 DEF LineIn
  <3>2. InOrder(l, t, fresh')
    BY <2>1, InOrderFrom DEF InOrder, From, l
  <3>3. QED BY Zenon, <3>1, <3>2
 <2>3. CASE t = s
  <3> DEFINE m == X \o q
  <3>1. LineIn(phase, hand, queue, s) = X \o queue[s]  BY Zenon DEF LineIn, X
  <3>2. LineIn(phase', hand', queue', s) = X \o q2  BY Zenon, <1>3 DEF LineIn, X
  <3>3. X \o q2 = Append(m, p)  BY <1>1, <1>2, AppendRight DEF q2
  <3>4. m \in Seq(Control)  BY <1>2, ConcatIs
  <3>5. Rising(m, ControlOrder) /\ From(m, X \o queue[s])
   <4>1. Rising(X \o queue[s], ControlOrder)  BY Zenon, <2>1, <2>3, <3>1 DEF InOrder
   <4>2. From(X, X)  BY DEF From
   <4>3. QED BY <1>2, <4>1, <4>2, LineOf
  <3>6. InOrder(m, s, fresh)
    BY <2>1, <2>3, <3>1, <3>5, InOrderFrom
  <3>7. InOrder(Append(m, p), s, fresh \ {c})
    BY <3>4, <3>6, ControlAppended DEF p
  <3>8. QED BY Zenon, <2>3, <3>2, <3>3, <3>7
 <2>4. QED BY <2>2, <2>3
<1>8. LinesInv'  BY Zenon, <1>7 DEF LinesInv, Line
<1>9. ASSUME NEW x PROVE Waiting(x)' + Of(queue[s], x) = Waiting(x) + Of(q, x)
 <2> DEFINE w0 == Of(queue["confirms"], x)
            w1 == Of(queue["settlements"], x)
            w2 == Of(Claims(hand), x)
            v0 == Of(queue'["confirms"], x)
            v1 == Of(queue'["settlements"], x)
            f == If(x \in fresh)
            g == If(x \in fresh \ {c})
            a == Of(queue[s], x)
            b == Of(q, x)
            one == IF x = c THEN 1 ELSE 0
 <2>1. Waiting(x) = f + (w0 + w1 + w2)  BY Zenon DEF Waiting, HeldIn
 <2>2. Waiting(x)' = g + (v0 + v1 + w2)  BY Zenon DEF Waiting, HeldIn
 <2>3. w0 \in Nat /\ w1 \in Nat /\ w2 \in Nat
   BY <1>0, HeldNat
 <2>4. b \in Nat /\ a \in Nat
   BY <1>2, OfIs
 <2>5. g + one = f  BY IfLess
 <2>6. f \in Nat /\ g \in Nat
   BY IfIs
 <2>7. \/ a = w0 /\ v0 = b + one /\ v1 = w1
       \/ a = w1 /\ v1 = b + one /\ v0 = w0
   BY <1>5, <1>3 DEF Stages
 <2>8. one \in Nat  OBVIOUS
 <2> HIDE DEF w0, w1, w2, v0, v1, f, g, a, b, one
 <2>9. (g + (v0 + v1 + w2)) + a = (f + (w0 + w1 + w2)) + b  BY <2>3, <2>4, <2>5, <2>6, <2>7, <2>8
 <2>10. QED BY Zenon, <2>1, <2>2, <2>9 DEF a, b
<1>10. QED BY Zenon, <1>6, <1>8, <1>9

(* What an eviction leaves in the queue of a stage, and what it drops. *)
Evicts(q, out, s, q0) ==
  /\ q \in Seq(Entry(IdsOf(s))) /\ Len(q) < ControlMax /\ out \in Seq(Entry(IdsOf(s)))
  /\ \A x : Of(q, x) + Of(out, x) = Of(q0, x)
  /\ Rising(q0, ControlOrder) => Rising(q, ControlOrder)
  /\ From(q, q0)

LEMMA EvictsHead ==
  ASSUME NEW s \in Stages, NEW q0 \in Seq(Entry(IdsOf(s))), Len(q0) <= ControlMax, NEW q, NEW out,
         \/ Len(q0) >= ControlMax /\ q = Tail(q0) /\ out = <<Head(q0)>>
         \/ Len(q0) < ControlMax /\ q = q0 /\ out = <<>>
  PROVE  Evicts(q, out, s, q0)
<1>0. ControlMax \in Nat \ {0} /\ IdsOf(s) \subseteq Controls /\ Len(q0) \in Nat /\ q0 \in Seq(Control)
  BY StageSubset, IdsAre, ReporterAssumption
<1>1. CASE Len(q0) >= ControlMax /\ q = Tail(q0) /\ out = <<Head(q0)>>
  BY <1>0, <1>1, HeadOut DEF Evicts
<1>2. CASE Len(q0) < ControlMax /\ q = q0 /\ out = <<>>
  BY <1>0, OfIs, OfNone, <1>2 DEF From, Evicts
<1>3. QED BY <1>1, <1>2

LEMMA ReportControlOpen ==
  ASSUME RepInv, NEW s \in Stages, ReportControl(s, IdsOf(s)), closing = "open"
  PROVE  RepInv'
<1> DEFINE c == Next1(IdsOf(s))
           full == Len(queue[s]) >= ControlMax
           q0 == queue[s]
           q == IF full THEN Tail(q0) ELSE q0
           out == IF full THEN <<Head(q0)>> ELSE <<>>
<1>1. ControlInv /\ LinesInv /\ EventInv /\ PlacesInv /\ RecountInv /\ CloseInv
  BY DEF RepInv
<1>2. /\ fresh \cap IdsOf(s) # {} /\ fresh' = fresh \ {c} /\ dropped' = CountDrops(out) /\ books' = EventsOf(books, s, out)
      /\ queue' = [queue EXCEPT ![s] = Append(IF full THEN Tail(@) ELSE @, Pending(c))]
      /\ UNCHANGED <<hand, batch, phase, round, closing, deadline, confirmed, delivered, recounted, uncounted>>
  BY DEF ReportControl
<1>3. c \in fresh \cap IdsOf(s) /\ \A y \in fresh \cap IdsOf(s) : y # c => c < y
  BY <1>1, <1>2, FreshNext DEF ControlInv
<1>4. queue' = [queue EXCEPT ![s] = Append(q, Pending(c))]
  BY <1>2
<1> HIDE DEF c
<1>5. q0 \in Seq(Entry(IdsOf(s))) /\ Len(q0) <= ControlMax /\ Len(q0) \in Nat
  BY <1>1 DEF ControlInv, Queues
<1>6. Evicts(q, out, s, q0)
 <2>1. \/ Len(q0) >= ControlMax /\ q = Tail(q0) /\ out = <<Head(q0)>>
       \/ Len(q0) < ControlMax /\ q = q0 /\ out = <<>>
   BY <1>5, ReporterAssumption
 <2> HIDE DEF q, out, q0
 <2>2. QED BY <1>5, <2>1, EvictsHead
<1> HIDE DEF q, out, q0, full
<1>7. /\ q \in Seq(Entry(IdsOf(s))) /\ Len(q) < ControlMax /\ out \in Seq(Entry(IdsOf(s)))
      /\ \A x : Of(q, x) + Of(out, x) = Of(q0, x)
      /\ Rising(q0, ControlOrder) => Rising(q, ControlOrder)
      /\ From(q, q0)
  BY Zenon, <1>6 DEF Evicts
<1>8. ControlInv' /\ LinesInv' /\ \A x : Waiting(x)' + Of(q0, x) = Waiting(x) + Of(q, x)
  BY <1>1, <1>2, <1>3, <1>4, <1>7, QueueGrows DEF q0
<1>9. out \in Seq(Control) /\ q \in Seq(Control)
  BY StageSubset, <1>7
<1>10. Balanced(out)  BY <1>1, <1>2, <1>9, GivenUp DEF PlacesInv
<1>11. \A x \in AllIds : Waiting(x)' + Of(out, x) = Waiting(x)
 <2> TAKE x \in AllIds
 <2> DEFINE w == Waiting(x)
            v == Waiting(x)'
            a == Of(q0, x)
            b == Of(q, x)
            o == Of(out, x)
 <2>1. v + a = w + b /\ b + o = a
   BY Zenon, <1>7, <1>8
 <2>2. b \in Nat /\ o \in Nat
   BY <1>9, OfIs
 <2>3. w \in Nat  BY <1>1, WaitingNat
 <2>4. v \in Nat
   BY <1>8, HeldNat, IfIs DEF ControlInv, Waiting
 <2> HIDE DEF w, v, a, b, o
 <2>5. v + o = w  BY <2>1, <2>2, <2>3, <2>4
 <2>6. QED BY Zenon, <2>5 DEF w, v, o
<1>12. PlacesInv' /\ EventInv'
  BY <1>10, <1>2, <1>1, <1>7, <1>8, <1>11, DecideStep DEF Balanced
<1>13. RecountInv'
  BY <1>1, <1>10, <1>2, <1>9, CountDropsIs, RecountGrow DEF PlacesInv, Balanced
<1>14. CloseInv'  BY <1>1, <1>2, CloseStep DEF CloseInv
<1>15. QED BY Zenon, <1>8, <1>12, <1>13, <1>14 DEF RepInv

LEMMA CountedLate ==
  ASSUME EventInv, NEW s \in Stages, NEW c \in IdsOf(s),
         books' = IF s = "settlements" THEN Counted(books, {c}) ELSE books
  PROVE  /\ GoodBook(books') /\ books'.queue = books.queue /\ books'.terminal = books.terminal
         /\ \A e \in EventIds : Places(books', e) = Places(books, e) + (IF e = c THEN 1 ELSE 0)
<1>0. GoodBook(books)  BY DEF EventInv
<1>1. CASE s = "settlements"
  BY <1>0, CountedPlaces, CountedQueue, <1>1
<1>2. CASE s # "settlements"
  BY <1>2, IdsAre, <1>0, PlacesNat DEF Stages, GoodBook
<1>3. QED BY <1>1, <1>2

LEMMA ReportControlLate ==
  ASSUME RepInv, NEW s \in Stages, ReportControl(s, IdsOf(s)), closing # "open"
  PROVE  RepInv'
<1> DEFINE c == Next1(IdsOf(s))
           p == Pending(c)
           out == <<p>>
<1>1. ControlInv /\ LinesInv /\ EventInv /\ PlacesInv /\ RecountInv /\ CloseInv
  BY DEF RepInv
<1>2. /\ fresh \cap IdsOf(s) # {} /\ fresh' = fresh \ {c} /\ dropped' = CountDrops(out)
      /\ books' = IF s = "settlements" THEN Counted(books, {c}) ELSE books
      /\ UNCHANGED <<queue, hand, batch, phase, round, closing, deadline, confirmed, delivered, recounted, uncounted>>
  BY DEF ReportControl
<1>3. c \in fresh \cap IdsOf(s) /\ c \in Controls
  BY <1>1, <1>2, FreshNext, IdsAre DEF ControlInv
<1> HIDE DEF c
<1>4. p \in Control /\ p.of = c
  BY <1>3, PendingIs DEF Control
<1> HIDE DEF p
<1>5. out \in Seq(Control) /\ \A x : Of(out, x) = IF x = c THEN 1 ELSE 0
  BY <1>4, OfOne
<1> HIDE DEF out
<1>6. dropped \in [Controls -> Nat] /\ recounted \subseteq Controls
  BY <1>1 DEF PlacesInv
<1>7. dropped' \in [Controls -> Nat] /\ \A x \in Controls : dropped'[x] = dropped[x] + (IF x = c THEN 1 ELSE 0)
  BY <1>2, <1>5, <1>6, CountDropsIs
<1>8. /\ GoodBook(books') /\ books'.queue = books.queue /\ books'.terminal = books.terminal
      /\ \A e \in EventIds : Places(books', e) = Places(books, e) + (IF e = c THEN 1 ELSE 0)
  BY <1>1, <1>2, <1>3, CountedLate
<1>9. ControlInv' /\ LinesInv'
  BY <1>1, <1>2, FreshStep
<1>10. PlacesInv'  BY <1>1, <1>2, <1>3, <1>7, <1>8, HandedIn
<1>11. EventInv'
 <2>1. PlainFrom(books'.queue, books.queue)
   BY <1>8 DEF PlainFrom
 <2>2. Rising(books.queue, EventOrder) => Rising(books'.queue, EventOrder)  BY Zenon, <1>8
 <2>3. fresh' \subseteq fresh /\ (closing' = "open" => Len(books'.queue) <= MaxQueueSize) /\ batch' = batch
   BY <1>2
 <2>4. QED BY Zenon, <1>1, <1>8, <2>1, <2>2, <2>3, EventStep
<1>12. RecountInv'
  BY <1>6, <1>7, <1>1, <1>2, RecountGrow
<1>13. CloseInv'  BY <1>1, <1>2, <1>8 DEF CloseInv
<1>14. QED BY Zenon, <1>9, <1>10, <1>11, <1>12, <1>13 DEF RepInv

LEMMA ReportControlStep ==
  ASSUME RepInv, ReportConfirm \/ ReportSettlement
  PROVE  RepInv'
<1>1. \E s \in Stages : ReportControl(s, IdsOf(s))
  BY IdsAre DEF ReportConfirm, ReportSettlement, Stages
<1>2. QED BY Zenon, <1>1, ReportControlOpen, ReportControlLate

(* The queue q with its entry k parked anew. *)
Reparked(r, q, k) ==
  \E w \in {"no", "backoff", "server"} : r = [q EXCEPT ![k].park = w]

LEMMA ParkedAs ==
  ASSUME NEW S, NEW q \in Seq(Entry(S)), NEW k \in DOMAIN q, NEW r, Reparked(r, q, k)
  PROVE  /\ r \in Seq(Entry(S)) /\ Len(r) = Len(q) /\ DOMAIN r = DOMAIN q /\ \A i \in DOMAIN q : r[i].of = q[i].of
<1>a. PICK w \in {"no", "backoff", "server"} : r = [q EXCEPT ![k].park = w]
  BY DEF Reparked
<1> DEFINE x == [q[k] EXCEPT !.park = w]
<1>0. q[k] \in Entry(S)  OBVIOUS
<1>1. x \in Entry(S)  BY <1>0 DEF Entry
<1>2. x.of = q[k].of  BY <1>0 DEF Entry
<1>3. r = [q EXCEPT ![k] = x]  BY <1>a
<1> HIDE DEF x
<1>4. r \in Seq(Entry(S)) /\ Len(r) = Len(q) /\ DOMAIN r = DOMAIN q
  BY <1>1, <1>3
<1>5. \A i \in DOMAIN q : r[i].of = q[i].of
  BY <1>2, <1>3
<1>6. QED BY <1>4, <1>5

LEMMA QueueParked ==
  ASSUME ControlInv, LinesInv, NEW s \in Stages, NEW r \in Seq(Entry(IdsOf(s))), Len(r) = Len(queue[s]),
         DOMAIN r = DOMAIN queue[s], \A i \in DOMAIN queue[s] : r[i].of = queue[s][i].of,
         queue' = [queue EXCEPT ![s] = r], UNCHANGED <<fresh, hand, phase, round, deadline>>
  PROVE  ControlInv' /\ LinesInv' /\ \A x : Waiting(x)' = Waiting(x)
<1> DEFINE X == IF phase = s THEN Claims(hand) ELSE <<>>
           q == queue[s]
<1>0. Queues(queue) /\ hand \in Seq(Hand) /\ queue \in [Stages -> Seq(Control)]
  BY DEF ControlInv, Queues
<1>1. /\ q \in Seq(Control) /\ r \in Seq(Control) /\ X \in Seq(Control)
      /\ queue' \in [Stages -> Seq(Control)] /\ queue'[s] = r /\ \A t \in Stages \ {s} : queue'[t] = queue[t]
 <2>1. q \in Seq(Control) /\ Claims(hand) \in Seq(Control)
   BY <1>0, LineIs
 <2>2. Seq(Entry(IdsOf(s))) \subseteq Seq(Control)  BY StageSubset
 <2>3. X \in Seq(Control)  BY <2>1
 <2> HIDE DEF X
 <2>4. QED BY <1>0, <2>1, <2>2, <2>3
<1>2. Queues(queue')
  BY <1>0, <1>1 DEF Queues
<1>3. (\A x : Of(r, x) = Of(q, x)) /\ From(r, q) /\ (Rising(q, ControlOrder) => Rising(r, ControlOrder))
  BY OfAs, RisingAs
<1> HIDE DEF X
<1>4. ControlInv'
  BY <1>2 DEF ControlInv, Expired
<1>5. ASSUME NEW t \in Stages PROVE InOrder(LineIn(phase', hand', queue', t), t, fresh')
 <2>1. InOrder(LineIn(phase, hand, queue, t), t, fresh)  BY DEF LinesInv, Line
 <2>2. CASE t # s
   BY <1>1, <2>2, <2>1 DEF LineIn
 <2>3. CASE t = s
  <3> DEFINE l == X \o q
             m == X \o r
  <3>1. LineIn(phase, hand, queue, s) = l  BY Zenon DEF LineIn, X
  <3>2. LineIn(phase', hand', queue', s) = m  BY Zenon, <1>1 DEF LineIn, X
  <3>3. InOrder(l, s, fresh)  BY Zenon, <2>1, <2>3, <3>1
  <3>4. Rising(m, ControlOrder) /\ From(m, l)
   <4>1. Rising(l, ControlOrder)  BY Zenon, <3>3 DEF InOrder
   <4>2. From(X, X)  BY DEF From
   <4> HIDE DEF q
   <4>3. QED BY <1>1, <1>3, <4>1, <4>2, LineOf
  <3> HIDE DEF l, m
  <3>5. InOrder(m, s, fresh)
    BY <3>3, <3>4, InOrderFrom
  <3>6. QED BY Zenon, <2>3, <3>2, <3>5
 <2>4. QED BY <2>2, <2>3
<1>6. LinesInv'  BY Zenon, <1>5 DEF LinesInv, Line
<1>7. ASSUME NEW x PROVE Waiting(x)' = Waiting(x)
  BY <1>1, <1>3 DEF Stages, HeldIn, Waiting
<1>8. QED BY Zenon, <1>4, <1>6, <1>7

LEMMA EventsParked ==
  ASSUME RepInv, NEW r \in Seq(EventEntry), Len(r) = Len(books.queue),
         DOMAIN r = DOMAIN books.queue, \A i \in DOMAIN books.queue : r[i].of = books.queue[i].of,
         NEW d, d = [books EXCEPT !.queue = r]
  PROVE  /\ GoodBook(d) /\ \A e \in EventIds : Places(d, e) = Places(books, e)
         /\ PlainFrom(d.queue, books.queue) /\ (Rising(books.queue, EventOrder) => Rising(d.queue, EventOrder))
         /\ Len(d.queue) = Len(books.queue)
<1> DEFINE q == books.queue
<1>0. GoodBook(books) /\ q \in Seq(EventEntry)
  BY BookFields DEF RepInv, EventInv, GoodBook
<1>1. /\ GoodBook(d) /\ d.queue = r
      /\ \A e \in EventIds : Places(d, e) + Count(q, Holding(e)) = Places(books, e) + Count(r, Holding(e))
  BY <1>0, Requeue
<1>2. From(r, q) /\ (Rising(q, EventOrder) => Rising(r, EventOrder))
  BY RisingAs
<1>3. ASSUME NEW e \in EventIds PROVE Places(d, e) = Places(books, e)
 <2> DEFINE V == Holding(e)
 <2>1. \A i \in DOMAIN q : (q[i] \in V) <=> (r[i] \in V)
  <3> TAKE i \in DOMAIN q
  <3>1. q[i] \in EventEntry /\ r[i] \in EventEntry /\ r[i].of = q[i].of
    BY <1>0
  <3> DEFINE a == q[i]
             b == r[i]
  <3> HIDE DEF a, b
  <3>2. a \in EventEntry /\ b \in EventEntry /\ b.of = a.of
    BY <3>1 DEF a, b
  <3>3. (a \in V) <=> (b \in V)  BY <3>2 DEF Holding
  <3>4. QED BY <3>3 DEF a, b
 <2>2. DOMAIN q = DOMAIN r  OBVIOUS
 <2> HIDE DEF V, q
 <2>3. Count(q, V) = Count(r, V)  BY <2>1, <2>2, CountAs
 <2> DEFINE a == Count(q, V)
            x == Places(d, e)
            y == Places(books, e)
 <2>4. x + a = y + Count(r, V)  BY Zenon, <1>1 DEF V
 <2>5. x + a = y + a  BY Zenon, <2>3, <2>4
 <2>6. a \in Nat /\ x \in Nat /\ y \in Nat
   BY <1>0, <1>1, PlacesNat DEF GoodBook, q, V
 <2> HIDE DEF a, x, y
 <2>7. x = y  BY <2>5, <2>6
 <2>8. QED BY Zenon, <2>7 DEF x, y
<1>4. PlainFrom(r, q)  BY Zenon, <1>2, PlainFromFrom
<1>5. QED BY Zenon, <1>1, <1>2, <1>3, <1>4

LEMMA WaitEndsStep ==
  ASSUME RepInv, WaitEnds
  PROVE  RepInv'
<1>1. ControlInv /\ LinesInv /\ EventInv /\ PlacesInv /\ RecountInv /\ CloseInv
  BY DEF RepInv
<1>2. UNCHANGED <<fresh, hand, batch, phase, round, closing, deadline, confirmed, dropped, delivered, recounted, uncounted>>
  BY DEF WaitEnds
<1>3. RecountInv'  BY <1>1, <1>2, RecountKept DEF Expired
<1>4. CASE /\ \E s \in Stages : \E k \in DOMAIN queue[s] :
               queue' = [queue EXCEPT ![s][k].park = IF @ = "server" THEN "backoff" ELSE "no"]
           /\ UNCHANGED books
 <2>0. PICK s \in Stages : \E k \in DOMAIN queue[s] :
              queue' = [queue EXCEPT ![s][k].park = IF @ = "server" THEN "backoff" ELSE "no"]
   BY <1>4
 <2>1. PICK k \in DOMAIN queue[s] :
              queue' = [queue EXCEPT ![s][k].park = IF @ = "server" THEN "backoff" ELSE "no"]
   BY <2>0
 <2> DEFINE w == IF queue[s][k].park = "server" THEN "backoff" ELSE "no"
            r == [queue[s] EXCEPT ![k].park = w]
 <2>2. queue[s] \in Seq(Entry(IdsOf(s))) /\ w \in {"no", "backoff", "server"}
   BY <1>1 DEF ControlInv, Queues
 <2>3. queue' = [queue EXCEPT ![s] = r]  BY <2>1
 <2> HIDE DEF w
 <2>4. r \in Seq(Entry(IdsOf(s))) /\ Len(r) = Len(queue[s]) /\ DOMAIN r = DOMAIN queue[s] /\ \A i \in DOMAIN queue[s] : r[i].of = queue[s][i].of
  <3> DEFINE Q == queue[s]
             S == IdsOf(s)
  <3>1. Q \in Seq(Entry(S)) /\ k \in DOMAIN Q /\ Reparked(r, Q, k)
    BY <2>2 DEF Reparked
  <3> HIDE DEF Q, S, r
  <3>2. r \in Seq(Entry(S)) /\ Len(r) = Len(Q) /\ DOMAIN r = DOMAIN Q /\ \A i \in DOMAIN Q : r[i].of = Q[i].of
    BY <3>1, ParkedAs
  <3>3. QED BY Zenon, <3>2 DEF Q, S
 <2> HIDE DEF r
 <2>5. ControlInv' /\ LinesInv' /\ \A x : Waiting(x)' = Waiting(x)
   BY <1>1, <1>2, <2>3, <2>4, QueueParked
 <2>6. EventInv'  BY <1>1, <1>2, <1>4, EventKept
 <2>7. PlacesInv'  BY <1>1, <1>2, <1>4, <2>5, PlacesKept
 <2>8. closing # "sealed"
   BY <2>1, <1>1 DEF CloseInv, Stages
 <2>9. CloseInv'  BY <1>1, <1>2, <2>8, CloseStep DEF CloseInv
 <2>10. QED BY Zenon, <1>3, <2>5, <2>6, <2>7, <2>9 DEF RepInv
<1>5. CASE /\ \E k \in DOMAIN books.queue :
               books' = [books EXCEPT !.queue[k].park = IF @ = "server" THEN "backoff" ELSE "no"]
           /\ UNCHANGED queue
 <2>1. PICK k \in DOMAIN books.queue :
              books' = [books EXCEPT !.queue[k].park = IF @ = "server" THEN "backoff" ELSE "no"]
   BY <1>5
 <2> DEFINE w == IF books.queue[k].park = "server" THEN "backoff" ELSE "no"
            r == [books.queue EXCEPT ![k].park = w]
 <2>2. books.queue \in Seq(Entry(Ids)) /\ w \in {"no", "backoff", "server"} /\ books \in BookSet
   BY <1>1, BookFields DEF EventInv, GoodBook, EventEntry
 <2>3. books' = [books EXCEPT !.queue = r]  BY <2>1, <2>2 DEF BookSet
 <2> HIDE DEF w
 <2>4. r \in Seq(EventEntry) /\ Len(r) = Len(books.queue) /\ DOMAIN r = DOMAIN books.queue /\ \A i \in DOMAIN books.queue : r[i].of = books.queue[i].of
  <3> DEFINE Q == books.queue
  <3>1. Q \in Seq(Entry(Ids)) /\ k \in DOMAIN Q /\ Reparked(r, Q, k)
    BY <2>2 DEF Reparked
  <3> HIDE DEF Q, r
  <3>2. r \in Seq(Entry(Ids)) /\ Len(r) = Len(Q) /\ DOMAIN r = DOMAIN Q /\ \A i \in DOMAIN Q : r[i].of = Q[i].of
    BY <3>1, ParkedAs
  <3>3. QED BY Zenon, <3>2 DEF EventEntry, Q
 <2> HIDE DEF r
 <2>5. /\ GoodBook(books') /\ \A e \in EventIds : Places(books', e) = Places(books, e)
       /\ PlainFrom(books'.queue, books.queue) /\ (Rising(books.queue, EventOrder) => Rising(books'.queue, EventOrder))
       /\ Len(books'.queue) = Len(books.queue)
   BY Zenon, <2>3, <2>4, EventsParked
 <2>6. ControlInv' /\ LinesInv' /\ \A x : Waiting(x)' = Waiting(x)
   BY <1>1, <1>2, <1>5, ControlKept DEF Expired, ControlInv
 <2>7. EventInv'
   BY <1>1, <1>2, <2>5, EventStep DEF EventInv
 <2>8. PlacesInv'
   BY <1>1, <1>2, <2>5, <2>6, PlacesStep DEF EventInv, PlacesInv, Owed
 <2>9. CloseInv'
   BY <2>1, <1>1, <1>2, CloseStep DEF CloseInv
 <2>10. QED BY Zenon, <1>3, <2>6, <2>7, <2>8, <2>9 DEF RepInv
<1>6. QED BY <1>4, <1>5 DEF WaitEnds

LateAt(g, h, k) == g = [h EXCEPT ![k].op = "late"]

LEMMA LateHandIs ==
  ASSUME NEW S, NEW h \in Seq(Claimed(S)), S \subseteq Control, NEW k \in DOMAIN h, NEW g, LateAt(g, h, k)
  PROVE  /\ g \in Seq(Claimed(S)) /\ Claims(g) = Claims(h) /\ Sending(g) <= Sending(h)
         /\ DOMAIN g = DOMAIN h /\ g[k].op = "late" /\ \A j \in DOMAIN h : g[j].p = h[j].p /\ (j # k => g[j] = h[j])
<1> DEFINE x == [h[k] EXCEPT !.op = "late"]
<1>0. h[k] \in Claimed(S) /\ h[k].op \in Ops /\ h[k].p \in S
 <2>1. h[k] \in Claimed(S)  OBVIOUS
 <2>2. QED BY <2>1 DEF Claimed
<1>1. x \in Claimed(S) /\ x.op = "late" /\ x.p = h[k].p
  BY <1>0 DEF Ops, Claimed
<1>2. g = [h EXCEPT ![k] = x]  BY DEF LateAt
<1> HIDE DEF x
<1>3. g \in Seq(Claimed(S)) /\ DOMAIN g = DOMAIN h /\ g[k] = x /\ \A j \in DOMAIN h : j # k => g[j] = h[j]
  BY <1>1, <1>2
<1>4. \A j \in DOMAIN h : g[j].p = h[j].p
  BY <1>1, <1>3
<1>5. Claims(g) = Claims(h)  BY <1>3, <1>4 DEF Claims
<1>6. Sending(g) <= Sending(h)
 <2>1. Claimed(S) \subseteq Hand  BY DEF Claimed, Hand
 <2>2. h \in Seq(Hand) /\ g \in Seq(Hand) /\ x \in Hand
   BY <1>1, <1>3, <2>1
 <2>3. Sending(h) = Count(h, Wire) /\ Sending(g) = Count(g, Wire) /\ Sending(h) \in Nat /\ Sending(g) \in Nat
   BY <2>2, SendingIs
 <2>4. x \notin Wire  BY <1>1 DEF Wire
 <2> DEFINE a == Count(g, Wire)
            b == Count(h, Wire)
            i == IF h[k] \in Wire THEN 1 ELSE 0
 <2>5. /\ [h EXCEPT ![k] = x] \in Seq(Hand) /\ Len([h EXCEPT ![k] = x]) = Len(h)
       /\ Count([h EXCEPT ![k] = x], Wire) + (IF h[k] \in Wire THEN 1 ELSE 0) = Count(h, Wire) + (IF x \in Wire THEN 1 ELSE 0)
   BY <2>2, CountExcept
 <2>6. a + i = b + 0  BY Zenon, <1>2, <2>4, <2>5
 <2>7. i \in Nat  OBVIOUS
 <2>8. a \in Nat /\ b \in Nat
   BY Zenon, <2>3
 <2> HIDE DEF a, b, i
 <2>9. a <= b  BY <2>6, <2>7, <2>8
 <2>10. QED BY Zenon, <2>3, <2>9 DEF a, b
<1>7. QED BY Zenon, <1>1, <1>3, <1>4, <1>5, <1>6

(* A claim that is still being sent was not counted by a late refusal. *)
LEMMA NotRecounted ==
  ASSUME RepInv, NEW k \in DOMAIN hand, hand[k].op = "sending", InStage, NEW c, c = hand[k].p.of
  PROVE  c \notin recounted
<1>1. SUFFICES ASSUME c \in recounted PROVE FALSE
  OBVIOUS
<1>2. ControlInv /\ PlacesInv /\ RecountInv /\ CloseInv /\ hand \in Seq(Hand) /\ phase \in Stages
  BY DEF RepInv, ControlInv, InStage
<1>3. c \in Controls /\ dropped[c] \in Nat /\ dropped[c] >= 1
  BY <1>1, <1>2 DEF PlacesInv, RecountInv
<1>4. closing # "sealed"  BY <1>2 DEF CloseInv, Stages
<1>5. PICK j \in DOMAIN hand : hand[j].op = "late" /\ hand[j].p.of = c
  BY <1>1, <1>2, <1>4 DEF RecountInv, LateHand
<1> DEFINE l == Claims(hand)
<1>6. l \in Seq(Control) /\ DOMAIN l = DOMAIN hand /\ l[j].of = c /\ l[k].of = c
  BY <1>2, ClaimsIs, <1>5 DEF Hand
<1> HIDE DEF l
<1>7. Of(l, c) >= 2
 <2>1. l[j] \in About(c) /\ l[k] \in About(c)
   BY <1>6 DEF About
 <2>2. j # k  BY <1>5
 <2>3. Count(l, About(c)) >= 2  BY <1>5, <1>6, <2>1, <2>2, CountTwo
 <2>4. QED BY <1>6, <2>3, OfIs
<1> DEFINE w == Waiting(c)
           m == HeldIn(c, queue, hand)
           f == If(c \in fresh)
           g == If(c \in confirmed)
           d == dropped[c]
<1>8. w + g + d = 2
  BY <1>2, <1>3, <1>1, IfIs DEF PlacesInv
<1>9. w = f + m /\ f \in Nat /\ g \in Nat /\ d \in Nat /\ d >= 1
  BY <1>2, <1>3, WaitingNat, IfIs
<1>10. m >= 2 /\ m \in Nat
  BY <1>2, WaitingNat, <1>7 DEF l
<1> HIDE DEF w, m, f, g, d
<1>11. QED BY <1>8, <1>9, <1>10

LEMMA ConfirmLateStep ==
  ASSUME RepInv, NEW k, ConfirmLate(k)
  PROVE  RepInv'
<1> DEFINE c == hand[k].p.of
           out == <<hand[k].p>>
<1>1. ControlInv /\ LinesInv /\ EventInv /\ PlacesInv /\ RecountInv /\ CloseInv
  BY DEF RepInv
<1>2. /\ InStage /\ Expired /\ k \in DOMAIN hand /\ hand[k].op = "sending" /\ hand' = [hand EXCEPT ![k].op = "late"]
      /\ \/ dropped' = CountDrops(out) /\ recounted' = recounted \cup {c}
         \/ UNCHANGED <<dropped, recounted>>
      /\ UNCHANGED <<fresh, queue, books, batch, phase, round, closing, deadline, confirmed, delivered, uncounted>>
  BY DEF ConfirmLate
<1>3. phase \in Stages /\ closing # "sealed" /\ hand \in Seq(HandOf(phase)) /\ hand \in Seq(Hand)
  BY <1>2, InStageShape DEF InStage
<1>4. hand[k].p \in Control /\ c \in Controls /\ out \in Seq(Control) /\ \A x : Of(out, x) = IF x = c THEN 1 ELSE 0
 <2>0. hand[k] \in Hand  BY <1>2, <1>3
 <2>1. hand[k].p \in Control  BY <2>0 DEF Hand, Claimed
 <2>2. c \in Controls  BY <2>1 DEF Control, Entry
 <2> DEFINE p == hand[k].p
 <2>3. p \in Control /\ c = p.of /\ out = <<p>>
   BY <2>1
 <2> HIDE DEF p, c, out
 <2>4. QED BY <2>1, <2>2, <2>3, OfOne DEF p
<1>5. /\ hand' \in Seq(HandOf(phase)) /\ hand' \in Seq(Hand) /\ Claims(hand') = Claims(hand) /\ Sending(hand') <= Sending(hand)
      /\ DOMAIN hand' = DOMAIN hand /\ hand'[k].op = "late"
      /\ \A j \in DOMAIN hand : hand'[j].p = hand[j].p /\ (j # k => hand'[j] = hand[j])
 <2> DEFINE S == Entry(IdsOf(phase))
            h == hand
            g == hand'
 <2>1. S \subseteq Control  BY <1>3, IdsAre, EntrySubset DEF Control
 <2>2. h \in Seq(Claimed(S)) /\ k \in DOMAIN h /\ LateAt(g, h, k)
   BY <1>2, <1>3 DEF HandOf, LateAt
 <2> HIDE DEF S, h, g
 <2>3. /\ g \in Seq(Claimed(S)) /\ Claims(g) = Claims(h) /\ Sending(g) <= Sending(h)
       /\ DOMAIN g = DOMAIN h /\ g[k].op = "late" /\ \A j \in DOMAIN h : g[j].p = h[j].p /\ (j # k => g[j] = h[j])
   BY <2>1, <2>2, LateHandIs
 <2>4. Seq(HandOf(phase)) \subseteq Seq(Hand)  BY <1>3, StageSubset
 <2>5. hand' \in Seq(HandOf(phase))  BY Zenon, <2>3 DEF HandOf, S, g
 <2>6. QED BY Zenon, <2>3, <2>4, <2>5 DEF g, h
<1> HIDE DEF c, out
<1>6. ControlInv'
 <2>1. (fresh \subseteq AllIds /\ Queues(queue))'
   BY <1>1, <1>2 DEF ControlInv, Queues
 <2>2. (phase \in {"idle", "confirms", "settlements", "events"} /\ round \in RoundSet /\ (round.final \/ round.resolved <= Quota))'
   BY <1>1, <1>2 DEF ControlInv
 <2>3. (hand \in Seq(Hand) /\ (phase \in Stages => hand \in Seq(HandOf(phase))) /\ (phase \notin Stages => hand = <<>>))'
   BY Zenon, <1>2, <1>3, <1>5
 <2>4. (Sending(hand) <= MaxInFlight)'
   BY <1>3, <1>5, SendingIs, <1>1, ReporterAssumption DEF ControlInv
 <2>5. (\A j \in DOMAIN hand : hand[j].op = "late" => Expired)'
   BY <1>2 DEF Expired
 <2>6. QED BY Zenon, <2>1, <2>2, <2>3, <2>4, <2>5 DEF ControlInv
<1>7. LinesInv'
  BY <1>2, <1>5, <1>1 DEF LineIn, LinesInv, Line
<1>8. \A x : Waiting(x)' = Waiting(x)
  BY <1>2, <1>5 DEF HeldIn, Waiting
<1>9. EventInv'  BY <1>1, <1>2, EventKept
<1>10. CloseInv'  BY <1>1, <1>2, <1>3, CloseStep DEF CloseInv
<1>11. /\ dropped' \in [Controls -> Nat] /\ recounted' \subseteq Controls
       /\ \A x \in Controls : dropped'[x] >= dropped[x] /\ dropped'[x] + If(x \in recounted) = dropped[x] + If(x \in recounted')
       /\ \A x \in recounted' : x \in recounted \/ (x = c /\ dropped'[c] >= 1)
 <2>0. dropped \in [Controls -> Nat] /\ recounted \subseteq Controls
   BY <1>1 DEF PlacesInv
 <2>1. CASE dropped' = CountDrops(out) /\ recounted' = recounted \cup {c}
  <3>1. dropped' \in [Controls -> Nat] /\ \A x \in Controls : dropped'[x] = dropped[x] + (IF x = c THEN 1 ELSE 0)
    BY <1>4, <2>0, <2>1, CountDropsIs
  <3>2. c \notin recounted  BY <1>2, NotRecounted DEF c
  <3>3. \A x : If(x \in recounted') = If(x \in recounted) + (IF x = c THEN 1 ELSE 0)
    BY <2>1, <3>2 DEF If
  <3>4. \A x : If(x \in recounted) \in Nat
    BY IfIs
  <3>5. recounted' \subseteq Controls  BY <1>4, <2>0, <2>1
  <3>6. ASSUME NEW x \in Controls
        PROVE  dropped'[x] >= dropped[x] /\ dropped'[x] + If(x \in recounted) = dropped[x] + If(x \in recounted')
    BY <3>1, <3>3, <2>0, <3>4
  <3>7. dropped'[c] >= 1  BY <1>4, <2>0, <3>1
  <3>8. QED BY Zenon, <2>1, <3>1, <3>5, <3>6, <3>7
 <2>2. CASE UNCHANGED <<dropped, recounted>>
   BY <2>0, <2>2
 <2>3. QED BY <1>2, <2>1, <2>2
<1>12. PlacesInv'
 <2>1. (confirmed \subseteq Controls /\ dropped \in [Controls -> Nat] /\ recounted \subseteq Controls)'
   BY <1>1, <1>2, <1>11 DEF PlacesInv
 <2>2. (delivered \subseteq EventIds /\ uncounted \subseteq EventIds)'
   BY <1>1, <1>2 DEF PlacesInv
 <2>3. ASSUME NEW x \in Controls PROVE (Waiting(x) + If(x \in confirmed) + dropped[x] = 1 + If(x \in recounted))'
   BY <1>1, <1>11, WaitingNat, IfIs, <1>2, <1>8 DEF PlacesInv
 <2>4. (\A e \in EventIds : Waiting(e) + Places(books, e) + Owed(e) = 1)'
   BY <1>2, <1>8, <1>1 DEF Owed, PlacesInv
 <2>5. QED BY Zenon, <2>1, <2>2, <2>3, <2>4 DEF PlacesInv
<1>13. RecountInv'
 <2>1. ASSUME NEW x \in recounted' PROVE dropped'[x] >= 1 /\ LateHand(x)'
  <3>1. CASE x \in recounted
    BY <1>1, <1>3, <3>1, <1>11, <1>5 DEF RecountInv, PlacesInv, LateHand
  <3>2. CASE x \notin recounted
    BY <1>11, <3>2, <1>2, <1>5 DEF c, LateHand
  <3>3. QED BY <3>1, <3>2
 <2>2. Expired'  BY <1>2 DEF Expired
 <2>3. QED BY Zenon, <2>1, <2>2 DEF RecountInv
<1>14. QED BY Zenon, <1>6, <1>7, <1>9, <1>10, <1>12, <1>13 DEF RepInv

LEMMA RoundAs ==
  ASSUME NEW r \in RoundSet, NEW b \in BOOLEAN, NEW c \in BOOLEAN
  PROVE  /\ [r EXCEPT !.clean = c] \in RoundSet
         /\ [r EXCEPT !.clean = c].final = r.final /\ [r EXCEPT !.clean = c].resolved = r.resolved
         /\ [r EXCEPT !.sentClean = b, !.clean = c] \in RoundSet
         /\ [r EXCEPT !.sentClean = b, !.clean = c].final = r.final /\ [r EXCEPT !.sentClean = b, !.clean = c].resolved = r.resolved
<1>3. [r EXCEPT !.clean = c] \in RoundSet  BY DEF RoundSet
<1>4. [r EXCEPT !.clean = c].final = r.final /\ [r EXCEPT !.clean = c].resolved = r.resolved
  BY DEF RoundSet
<1>5. [r EXCEPT !.sentClean = b, !.clean = c] \in RoundSet  BY DEF RoundSet
<1>6. [r EXCEPT !.sentClean = b, !.clean = c].final = r.final /\ [r EXCEPT !.sentClean = b, !.clean = c].resolved = r.resolved
  BY DEF RoundSet
<1>7. QED BY Zenon, <1>3, <1>4, <1>5, <1>6

(* The round as a step of the events leaves it. *)
Goes(r) == r \in RoundSet /\ (r.final \/ r.resolved <= Quota)

LEMMA RoundGoes ==
  ASSUME Goes(round), NEW n \in Int, NEW b \in BOOLEAN, NEW c \in BOOLEAN, NEW r,
         \/ r = NoRound
         \/ r = [round EXCEPT !.left = n, !.clean = c]
         \/ r = [round EXCEPT !.clean = c]
         \/ r = [round EXCEPT !.sentClean = b, !.clean = c]
  PROVE  Goes(r)
<1>1. round \in RoundSet /\ (round.final \/ round.resolved <= Quota)
  BY DEF Goes
<1>2. CASE r = NoRound
  BY <1>2, NoRoundIs, QuotaIs DEF Goes
<1>3. CASE r = [round EXCEPT !.left = n, !.clean = c]
  BY <1>1, <1>3 DEF RoundSet, Goes
<1>4. CASE r = [round EXCEPT !.clean = c]
  BY <1>1, <1>4, RoundAs DEF Goes
<1>5. CASE r = [round EXCEPT !.sentClean = b, !.clean = c]
 <2>1. r \in RoundSet /\ r.final = round.final /\ r.resolved = round.resolved
   BY Zenon, <1>1, <1>5, RoundAs
 <2>2. QED BY Zenon, <1>1, <2>1 DEF Goes
<1>6. QED BY <1>2, <1>3, <1>4, <1>5

LEMMA EventsShape ==
  ASSUME RepInv, phase = "events"
  PROVE  /\ hand = <<>> /\ closing # "sealed" /\ Goes(round) /\ GoodBook(books) /\ books \in BookSet
         /\ batch \in Seq(EventEntry) /\ books.queue \in Seq(EventEntry) /\ Len(batch) <= BatchSize
         /\ Rising(batch \o books.queue, EventOrder) /\ delivered \subseteq EventIds /\ uncounted \subseteq EventIds
         /\ closing = "open" => Len(books.queue) <= MaxQueueSize
<1>1. ControlInv /\ EventInv /\ CloseInv /\ PlacesInv
  BY DEF RepInv
<1>2. hand = <<>> /\ closing # "sealed" /\ Goes(round)
  BY <1>1 DEF ControlInv, CloseInv, Stages, Goes
<1>3. GoodBook(books) /\ books \in BookSet /\ batch \in Seq(EventEntry) /\ Len(batch) <= BatchSize
  BY <1>1 DEF EventInv, GoodBook
<1>4. books.queue \in Seq(EventEntry)  BY <1>3, BookFields
<1>5. Rising(batch \o books.queue, EventOrder) /\ (closing = "open" => Len(books.queue) <= MaxQueueSize)
  BY Zenon, <1>1 DEF EventInv, EventsInOrder
<1>6. delivered \subseteq EventIds /\ uncounted \subseteq EventIds
  BY <1>1 DEF PlacesInv
<1>7. QED BY Zenon, <1>2, <1>3, <1>4, <1>5, <1>6

(* A line of events, each of which was in the batch or in the queue. *)
Follows(l, m) == l \in Seq(EventEntry) /\ Rising(l, EventOrder) /\ From(l, m)

LEMMA EventsStep ==
  ASSUME RepInv, phase = "events", UNCHANGED <<fresh, queue, hand, closing, deadline, confirmed, dropped, recounted>>,
         phase' \in {"events", "idle"}, Goes(round'), GoodBook(books'), batch' \in Seq(EventEntry), Len(batch') <= BatchSize,
         Follows(batch' \o books'.queue, batch \o books.queue),
         closing = "open" => Len(books'.queue) <= MaxQueueSize, delivered' \subseteq EventIds, uncounted' \subseteq EventIds,
         \A e \in EventIds : Places(books', e) + Owed(e)' = Places(books, e) + Owed(e),
         batch' # <<>> => phase' = "events"
  PROVE  RepInv'
<1>1. ControlInv /\ LinesInv /\ EventInv /\ PlacesInv /\ RecountInv /\ CloseInv
  BY DEF RepInv
<1>2. /\ hand = <<>> /\ closing # "sealed" /\ batch \in Seq(EventEntry) /\ books.queue \in Seq(EventEntry)
  BY EventsShape
<1>3. ControlInv' /\ LinesInv' /\ \A x : Waiting(x)' = Waiting(x)
  BY <1>1, <1>2, ControlKept DEF Goes, Expired
<1>4. EventInv'
  BY <1>2, ConcatIs, <1>1, PlainFromFrom, OrderedLine DEF EventInv, Follows
<1>5. PlacesInv'  BY Zenon, <1>1, <1>3, PlacesStep
<1>6. RecountInv'  BY <1>1, RecountKept DEF Expired
<1>7. CloseInv'  BY <1>1, <1>2, CloseStep
<1>8. QED BY Zenon, <1>3, <1>4, <1>5, <1>6, <1>7 DEF RepInv

LEMMA EndRoundIs ==
  ASSUME NEW clean \in BOOLEAN, EndRound(clean)
  PROVE  phase' = "idle" /\ round' = NoRound
BY DEF EndRound

LEMMA EventsEndStep ==
  ASSUME RepInv, EventsEnd
  PROVE  RepInv'
<1>1. /\ phase = "events" /\ batch = <<>> /\ phase' = "idle" /\ round' = NoRound
      /\ UNCHANGED <<fresh, queue, hand, books, batch, closing, deadline, confirmed, dropped, delivered, recounted, uncounted>>
  BY DEF EventsEnd, InEvents, EndRound
<1>2. /\ Goes(round) /\ GoodBook(books) /\ batch \in Seq(EventEntry) /\ books.queue \in Seq(EventEntry) /\ Len(batch) <= BatchSize
      /\ Rising(batch \o books.queue, EventOrder) /\ delivered \subseteq EventIds /\ uncounted \subseteq EventIds
      /\ closing = "open" => Len(books.queue) <= MaxQueueSize
  BY Zenon, <1>1, EventsShape
<1>3. Goes(round')  BY <1>1, NoRoundIs, QuotaIs DEF Goes
<1>4. Follows(batch' \o books'.queue, batch \o books.queue)
  BY <1>2, ConcatIs, <1>1 DEF From, Follows
<1>5. \A e \in EventIds : Places(books', e) + Owed(e)' = Places(books, e) + Owed(e)
  BY <1>1 DEF Owed
<1>6. QED BY Zenon, <1>1, <1>2, <1>3, <1>4, <1>5, EventsStep

LEMMA ClaimIs ==
  ASSUME books.queue \in Seq(EventEntry)
  PROVE  /\ Claim \in 0 .. Len(books.queue) /\ Claim <= BatchSize
         /\ Prefix1(Held) \in 0 .. Len(books.queue)
<1> DEFINE q == books.queue
           M == {BatchSize, Len(q)}
           m == Min(M)
           S == {n \in 0 .. m : \A i \in 1 .. n : Due(q[i], round.final)}
           T == {n \in 0 .. m : \A i \in 1 .. n : Held(q[i])}
<1>1. BatchSize \in Nat /\ Len(q) \in Nat
  BY ReporterAssumption
<1>2. m \in Nat /\ m <= BatchSize /\ m <= Len(q)
 <2>1. M \subseteq Nat /\ M # {}
   BY <1>1
 <2>2. m \in M /\ \A y \in M : m <= y
   BY <2>1, MinIs
 <2> HIDE DEF m
 <2>3. QED BY <1>1, <2>1, <2>2
<1>3. Claim = (IF hold THEN 0 ELSE Max(S)) /\ Prefix1(Held) = Max(T)
  BY DEF Claim, Prefix1
<1> HIDE DEF m
<1>4. S \subseteq 0 .. m /\ S # {} /\ T \subseteq 0 .. m /\ T # {}
  BY <1>2
<1> HIDE DEF S, T
<1>5. Max(S) \in 0 .. m /\ Max(T) \in 0 .. m
  BY <1>2, <1>4, MaxIs
<1> HIDE DEF q
<1>6. QED BY <1>1, <1>2, <1>3, <1>5 DEF q

(* The books b without the first n entries of the queue, and those entries. *)
TakenOff(d, claimed, b, n) ==
  d = [b EXCEPT !.queue = SubSeq(@, n + 1, Len(@))] /\ claimed = SubSeq(b.queue, 1, n)

LEMMA TakeOff ==
  ASSUME NEW b, GoodBook(b), NEW n \in 0 .. Len(b.queue), NEW claimed, NEW d, TakenOff(d, claimed, b, n)
  PROVE  /\ GoodBook(d) /\ claimed \in Seq(EventEntry) /\ Len(claimed) = n /\ d.queue \in Seq(EventEntry)
         /\ d.terminal = b.terminal /\ Len(d.queue) <= Len(b.queue)
         /\ \A e \in EventIds : Places(d, e) + Count(claimed, Holding(e)) = Places(b, e)
         /\ From(claimed, b.queue) /\ From(d.queue, b.queue)
         /\ Rising(b.queue, EventOrder) => Rising(claimed, EventOrder) /\ Rising(d.queue, EventOrder) /\ Below(claimed, d.queue, EventOrder)
<1> DEFINE q == b.queue
           r == SubSeq(q, n + 1, Len(q))
           c == SubSeq(q, 1, n)
<1>1. q \in Seq(EventEntry) /\ b \in BookSet /\ n \in 0 .. Len(q) /\ Len(q) \in Nat /\ n \in Nat
  BY BookFields DEF GoodBook
<1>2. d = [b EXCEPT !.queue = r] /\ claimed = c
  BY DEF TakenOff
<1>3. Len(c) = n /\ Len(r) <= Len(q)
  BY <1>1
<1>4. /\ c \in Seq(EventEntry) /\ r \in Seq(EventEntry) /\ c \o r = q
      /\ \A V : Count(c, V) + Count(r, V) = Count(q, V)
  BY <1>1, CountSplit
<1> HIDE DEF c, r, q
<1>5. /\ GoodBook(d) /\ d.queue = r /\ d.terminal = b.terminal
      /\ \A e \in EventIds : Places(d, e) + Count(q, Holding(e)) = Places(b, e) + Count(r, Holding(e))
  BY <1>2, <1>4, Requeue DEF q
<1>6. ASSUME NEW e \in EventIds PROVE Places(d, e) + Count(c, Holding(e)) = Places(b, e)
 <2> DEFINE V == Holding(e)
            x == Places(d, e)
            y == Places(b, e)
            i == Count(q, V)
            j == Count(r, V)
            k == Count(c, V)
 <2>1. x + i = y + j /\ k + j = i
   BY Zenon, <1>4, <1>5
 <2>2. i \in Nat /\ j \in Nat /\ k \in Nat
   BY <1>1, <1>4, HitsFinite
 <2>3. x \in Nat /\ y \in Nat
   BY <1>1, <1>5, PlacesNat DEF GoodBook
 <2> HIDE DEF x, y, i, j, k
 <2>4. x + k = y  BY <2>1, <2>2, <2>3
 <2>5. QED BY Zenon, <2>4 DEF x, y, k
<1>7. From(c, q) /\ From(r, q)
  BY <1>4, FromConcat
<1>8. Rising(q, EventOrder) => Rising(c, EventOrder) /\ Rising(r, EventOrder) /\ Below(c, r, EventOrder)
  BY <1>4, RisingConcat
<1>9. /\ From(claimed, b.queue) /\ From(d.queue, b.queue)
      /\ Rising(b.queue, EventOrder) => Rising(claimed, EventOrder) /\ Rising(d.queue, EventOrder) /\ Below(claimed, d.queue, EventOrder)
  BY Zenon, <1>2, <1>5, <1>7, <1>8 DEF q
<1>10. claimed \in Seq(EventEntry) /\ Len(claimed) = n /\ d.queue \in Seq(EventEntry) /\ Len(d.queue) <= Len(b.queue)
  BY Zenon, <1>2, <1>3, <1>4, <1>5 DEF q
<1>11. \A e \in EventIds : Places(d, e) + Count(claimed, Holding(e)) = Places(b, e)
  BY Zenon, <1>2, <1>6
<1>12. QED BY Zenon, <1>5, <1>9, <1>10, <1>11

(* A line built from a piece of another one and what came after it. *)
LEMMA FollowsOf ==
  ASSUME NEW s \in Seq(EventEntry), NEW t \in Seq(EventEntry), NEW u \in Seq(EventEntry), NEW l, NEW v,
         From(s, l), From(t, l), Rising(t, EventOrder), Below(s, t, EventOrder), From(u, s), Rising(u, EventOrder), v = u \o t
  PROVE  Follows(v, l)
<1>1. From(t, t)  BY DEF From
<1>2. Below(u, t, EventOrder)  BY <1>1, BelowFrom
<1>3. From(u, l)  BY FromTwice
<1> DEFINE w == u \o t
<1>4. w \in Seq(EventEntry) /\ Rising(w, EventOrder) /\ From(w, l)
  BY <1>2, RisingConcat, <1>3, FromBoth, ConcatIs
<1>5. QED BY Zenon, <1>4 DEF Follows

LEMMA ClaimBatchStep ==
  ASSUME RepInv, ClaimBatch
  PROVE  RepInv'
<1> DEFINE q == books.queue
           n == Claim
           claimed == SubSeq(q, 1, n)
           bad == {i \in DOMAIN claimed : claimed[i].of \subseteq Invalid}
           good == DOMAIN claimed \ bad
           invalid == Select(claimed, bad)
           some == Select(claimed, good)
           d == TakeBatch(n)
           final == round.final
           left == IF round.final THEN round.left ELSE round.left - 1
           clean == round.clean /\ invalid = <<>>
<1>1. /\ phase = "events" /\ batch = <<>> /\ batch' = some /\ books' = DisposeAll(d, invalid, final)
      /\ round' = [round EXCEPT !.left = left, !.clean = clean]
      /\ UNCHANGED <<fresh, queue, hand, phase, closing, deadline, confirmed, dropped, delivered, recounted, uncounted>>
  BY DEF ClaimBatch, InEvents
<1>2. /\ Goes(round) /\ GoodBook(books) /\ q \in Seq(EventEntry)
      /\ Rising(batch \o q, EventOrder) /\ delivered \subseteq EventIds /\ uncounted \subseteq EventIds
      /\ closing = "open" => Len(q) <= MaxQueueSize
  BY Zenon, <1>1, EventsShape
<1>3. n \in 0 .. Len(q) /\ n <= BatchSize
  BY <1>2, ClaimIs
<1>4. Goes(round')
 <2>1. left \in Int /\ clean \in BOOLEAN
   BY <1>2 DEF Goes, RoundSet
 <2> HIDE DEF left, clean
 <2>2. QED BY <1>1, <1>2, <2>1, RoundGoes
<1>5. TakenOff(d, claimed, books, n) /\ n \in 0 .. Len(books.queue)
  BY <1>3 DEF TakeBatch, TakenOff
<1>6. batch \o q = q  BY <1>1, <1>2, EmptyLine
<1>7. /\ final \in BOOLEAN
      /\ \A e \in EventIds : Places(books, e) <= 1
  BY <1>2, PlacesOnce DEF Goes, RoundSet
<1> HIDE DEF n, claimed, d, final, left, clean
<1>8. /\ GoodBook(d) /\ claimed \in Seq(EventEntry) /\ Len(claimed) = n /\ d.queue \in Seq(EventEntry)
      /\ d.terminal = books.terminal /\ Len(d.queue) <= Len(books.queue)
      /\ \A e \in EventIds : Places(d, e) + Count(claimed, Holding(e)) = Places(books, e)
      /\ From(claimed, books.queue) /\ From(d.queue, books.queue)
      /\ Rising(books.queue, EventOrder) => Rising(claimed, EventOrder) /\ Rising(d.queue, EventOrder) /\ Below(claimed, d.queue, EventOrder)
  BY Zenon, <1>2, <1>5, TakeOff
<1> HIDE DEF bad, good
<1>9. /\ invalid \in Seq(EventEntry) /\ some \in Seq(EventEntry) /\ Len(some) <= Len(claimed)
      /\ \A V : Count(invalid, V) + Count(some, V) = Count(claimed, V)
      /\ (Rising(claimed, EventOrder) => Rising(some, EventOrder)) /\ From(some, claimed)
  BY <1>8, SelectIs, SelectRest, RisingDrawn DEF good
<1> HIDE DEF invalid, some
<1>10. ASSUME NEW e \in EventIds
       PROVE  /\ Places(d, e) + Count(invalid, Holding(e)) <= 1
              /\ Places(d, e) + Count(invalid, Holding(e)) + Count(some, Holding(e)) = Places(books, e)
              /\ Places(d, e) \in Nat /\ Count(invalid, Holding(e)) \in Nat /\ Count(some, Holding(e)) \in Nat
  BY <1>7, <1>8, <1>9, HitsFinite, PlacesNat DEF GoodBook
<1>11. /\ GoodBook(books') /\ books'.queue = d.queue
       /\ \A e \in EventIds : Places(books', e) = Places(d, e) + Count(invalid, Holding(e))
  BY <1>1, <1>7, <1>8, <1>9, <1>10, DisposeAllIs
<1>12. \A e \in EventIds : Places(books', e) + Owed(e)' = Places(books, e) + Owed(e)
 <2> TAKE e \in EventIds
 <2> DEFINE x == Places(d, e)
            y == Places(books, e)
            i == Count(invalid, Holding(e))
            j == Count(some, Holding(e))
            g == If(e \in delivered)
            h == If(e \in uncounted)
            z == Count(batch, Holding(e))
 <2>1. Places(books', e) = x + i /\ x + i + j = y /\ x \in Nat /\ i \in Nat /\ j \in Nat
   BY <1>10, <1>11
 <2>2. Owed(e)' = j + g + h  BY Zenon, <1>1 DEF Owed
 <2>3. Owed(e) = z + g + h  BY Zenon DEF Owed
 <2>4. z = 0  BY <1>1, CountEmpty
 <2>5. g \in Nat /\ h \in Nat
   BY IfIs
 <2> HIDE DEF x, y, i, j, g, h, z
 <2>6. (x + i) + (j + g + h) = y + (z + g + h)  BY <2>1, <2>4, <2>5
 <2>7. QED BY Zenon, <2>1, <2>2, <2>3, <2>6 DEF y
<1>13. Follows(batch' \o books'.queue, batch \o books.queue)
  BY <1>1, <1>2, <1>6, <1>8, <1>9, <1>11, FollowsOf
<1>14. /\ batch' \in Seq(EventEntry) /\ Len(batch') <= BatchSize
       /\ closing = "open" => Len(books'.queue) <= MaxQueueSize
 <2>1. Len(some) <= BatchSize
   BY <1>3, <1>8, <1>9, ReporterAssumption
 <2>2. closing = "open" => Len(d.queue) <= MaxQueueSize
   BY <1>2, <1>8, ReporterAssumption
 <2>3. QED BY Zenon, <1>1, <1>9, <1>11, <2>1, <2>2
<1>15. /\ phase' \in {"events", "idle"} /\ delivered' \subseteq EventIds /\ uncounted' \subseteq EventIds
       /\ (batch' # <<>> => phase' = "events")
       /\ UNCHANGED <<fresh, queue, hand, closing, deadline, confirmed, dropped, recounted>>
  BY <1>1, <1>2
<1>16. QED BY Zenon, <1>1, <1>4, <1>11, <1>12, <1>13, <1>14, <1>15, EventsStep

LEMMA EmptyFollows ==
  ASSUME NEW s \in Seq(EventEntry), NEW t \in Seq(EventEntry), NEW l, From(s, l), From(t, l), Rising(t, EventOrder),
         Below(s, t, EventOrder)
  PROVE  Follows(<<>> \o t, l)
<1> DEFINE u == <<>>
<1>1. u \in Seq(EventEntry) /\ From(u, s) /\ Rising(u, EventOrder)
  BY DEF From, Rising
<1> DEFINE v == u \o t
<1>2. v = u \o t  OBVIOUS
<1> HIDE DEF u, v
<1>3. Follows(v, l)  BY <1>1, <1>2, FollowsOf
<1>4. QED BY Zenon, <1>3 DEF u, v

LEMMA FinalRateLimitedStep ==
  ASSUME RepInv, FinalRateLimited
  PROVE  RepInv'
<1> DEFINE q == books.queue
           n == Prefix1(Held)
           claimed == SubSeq(q, 1, n)
           d == TakeBatch(n)
           final == TRUE
<1>1. /\ phase = "events" /\ batch = <<>> /\ books' = DisposeAll(d, claimed, final)
      /\ round' = [round EXCEPT !.clean = FALSE]
      /\ UNCHANGED <<fresh, queue, hand, batch, phase, closing, deadline, confirmed, dropped, delivered, recounted, uncounted>>
  BY DEF FinalRateLimited, InEvents
<1>2. /\ Goes(round) /\ GoodBook(books) /\ q \in Seq(EventEntry)
      /\ Rising(batch \o q, EventOrder) /\ delivered \subseteq EventIds /\ uncounted \subseteq EventIds
      /\ closing = "open" => Len(q) <= MaxQueueSize
  BY Zenon, <1>1, EventsShape
<1>3. n \in 0 .. Len(q)  BY <1>2, ClaimIs
<1>4. Goes(round')
 <2> DEFINE clean == FALSE
 <2>1. 0 \in Int /\ clean \in BOOLEAN /\ round' = [round EXCEPT !.clean = clean]
   BY <1>1
 <2> HIDE DEF clean
 <2>2. QED BY <1>2, <2>1, RoundGoes
<1>5. TakenOff(d, claimed, books, n) /\ n \in 0 .. Len(books.queue)
  BY <1>3 DEF TakeBatch, TakenOff
<1>6. batch \o q = q  BY <1>1, <1>2, EmptyLine
<1>7. final \in BOOLEAN /\ \A e \in EventIds : Places(books, e) <= 1
  BY PlacesOnce
<1> HIDE DEF n, claimed, d, final
<1>8. /\ GoodBook(d) /\ claimed \in Seq(EventEntry) /\ Len(claimed) = n /\ d.queue \in Seq(EventEntry)
      /\ d.terminal = books.terminal /\ Len(d.queue) <= Len(books.queue)
      /\ \A e \in EventIds : Places(d, e) + Count(claimed, Holding(e)) = Places(books, e)
      /\ From(claimed, books.queue) /\ From(d.queue, books.queue)
      /\ Rising(books.queue, EventOrder) => Rising(claimed, EventOrder) /\ Rising(d.queue, EventOrder) /\ Below(claimed, d.queue, EventOrder)
  BY Zenon, <1>2, <1>5, TakeOff
<1>9. \A e \in EventIds : Places(d, e) + Count(claimed, Holding(e)) <= 1
  BY Zenon, <1>7, <1>8
<1>10. /\ GoodBook(books') /\ books'.queue = d.queue
       /\ \A e \in EventIds : Places(books', e) = Places(d, e) + Count(claimed, Holding(e))
  BY <1>1, <1>7, <1>8, <1>9, DisposeAllIs
<1>11. \A e \in EventIds : Places(books', e) + Owed(e)' = Places(books, e) + Owed(e)
  BY <1>1, <1>8, <1>10 DEF Owed
<1>12. Follows(batch' \o books'.queue, batch \o books.queue)
  BY <1>2, <1>6, <1>8, EmptyFollows, <1>1, <1>10
<1>13. /\ batch' \in Seq(EventEntry) /\ Len(batch') <= BatchSize
       /\ closing = "open" => Len(books'.queue) <= MaxQueueSize
 <2>1. batch' \in Seq(EventEntry) /\ Len(batch') <= BatchSize
   BY <1>1, ReporterAssumption
 <2>2. closing = "open" => Len(d.queue) <= MaxQueueSize
   BY <1>2, <1>8, ReporterAssumption
 <2>3. QED BY Zenon, <1>10, <2>1, <2>2
<1>14. /\ phase' \in {"events", "idle"} /\ delivered' \subseteq EventIds /\ uncounted' \subseteq EventIds
       /\ (batch' # <<>> => phase' = "events")
       /\ UNCHANGED <<fresh, queue, hand, closing, deadline, confirmed, dropped, recounted>>
  BY <1>1, <1>2
<1>15. QED BY Zenon, <1>1, <1>4, <1>10, <1>11, <1>12, <1>13, <1>14, EventsStep

(***************************************************************************)
(* The answer to a batch decides each event of it once.                    *)
(***************************************************************************)
LEMMA AnswerStep ==
  ASSUME RepInv, phase = "events", batch' = <<>>, phase' \in {"events", "idle"}, Goes(round'), GoodBook(books'),
         books'.queue = books.queue, UNCHANGED <<fresh, queue, hand, closing, deadline, confirmed, dropped, recounted>>,
         delivered' \subseteq EventIds, uncounted' \subseteq EventIds,
         \A e \in EventIds : Places(books', e) + If(e \in delivered') + If(e \in uncounted') = Places(books, e) + Owed(e)
  PROVE  RepInv'
<1>1. /\ batch \in Seq(EventEntry) /\ books.queue \in Seq(EventEntry) /\ Rising(batch \o books.queue, EventOrder)
      /\ closing = "open" => Len(books.queue) <= MaxQueueSize
      /\ GoodBook(books)
  BY EventsShape
<1>2. batch' \in Seq(EventEntry) /\ Len(batch') <= BatchSize /\ (batch' # <<>> => phase' = "events")
  BY ReporterAssumption
<1>3. closing = "open" => Len(books'.queue) <= MaxQueueSize  BY Zenon, <1>1
<1>4. Follows(batch' \o books'.queue, batch \o books.queue)
  BY <1>1, FromConcat, RisingConcat, EmptyFollows
<1>5. ASSUME NEW e \in EventIds PROVE Places(books', e) + Owed(e)' = Places(books, e) + Owed(e)
  BY CountEmpty, IfIs, PlacesNat DEF Owed, GoodBook
<1>6. QED BY Zenon, <1>2, <1>3, <1>4, <1>5, EventsStep

LEMMA SelectedOf ==
  ASSUME NEW s \in Seq(EventEntry), NEW R, R \subseteq DOMAIN s, NEW e
  PROVE  (e \in UNION {s[i].of : i \in R}) <=> (Count(Select(s, R), Holding(e)) # 0)
<1> DEFINE V == Holding(e)
           H == Hits(s, V) \cap R
<1>1. Count(Select(s, R), V) = Cardinality(H)  BY SelectIs
<1>2. IsFiniteSet(H)
  BY HitsFinite, FS_Subset
<1>3. (Cardinality(H) = 0) <=> (H = {})
  BY <1>2, FS_EmptySet
<1>4. \A i \in DOMAIN s : (s[i] \in V) <=> (e \in s[i].of)
 <2> TAKE i \in DOMAIN s
 <2> DEFINE p == s[i]
 <2>1. p \in EventEntry  OBVIOUS
 <2> HIDE DEF p
 <2>2. (p \in V) <=> (e \in p.of)  BY <2>1 DEF Holding
 <2>3. QED BY Zenon, <2>2 DEF p
<1>5. H = {} <=> ~ \E i \in R : e \in s[i].of
  BY <1>4 DEF Hits
<1> HIDE DEF H, V
<1>6. Count(Select(s, R), V) # 0 <=> \E i \in R : e \in s[i].of
  BY <1>1, <1>3, <1>5
<1>7. QED BY <1>6 DEF V

LEMMA BatchOnce ==
  ASSUME RepInv, phase = "events", NEW e \in EventIds
  PROVE  /\ Count(batch, Holding(e)) \in Nat /\ Places(books, e) \in Nat /\ Places(books, e) + Count(batch, Holding(e)) <= 1
         /\ (Count(batch, Holding(e)) = 1 => e \notin delivered /\ e \notin uncounted)
         /\ (e \in InBatch <=> Count(batch, Holding(e)) = 1)
         /\ Owed(e) = Count(batch, Holding(e)) + If(e \in delivered) + If(e \in uncounted)
<1>1. ControlInv /\ EventInv /\ PlacesInv /\ batch \in Seq(EventEntry) /\ books \in BookSet
  BY EventsShape DEF RepInv
<1> DEFINE c == Count(batch, Holding(e))
           g == If(e \in delivered)
           h == If(e \in uncounted)
           x == Places(books, e)
           w == Waiting(e)
<1>2. Owed(e) = c + g + h  BY Zenon DEF Owed
<1>3. w + x + (c + g + h) = 1  BY Zenon, <1>1, <1>2 DEF PlacesInv
<1>4. c \in Nat /\ g \in Nat /\ h \in Nat /\ x \in Nat
  BY <1>1, HitsFinite, IfIs, PlacesNat
<1>5. w \in Nat  BY <1>1, WaitingNat
<1>6. (g = 0 => e \notin delivered) /\ (h = 0 => e \notin uncounted)
  BY DEF If
<1>7. e \in InBatch <=> c # 0
  BY <1>1, SelectAll, SelectedOf DEF InBatch
<1> HIDE DEF c, g, h, x, w
<1>8. x + c <= 1 /\ (c = 1 => g = 0 /\ h = 0) /\ (c # 0 <=> c = 1)
  BY <1>3, <1>4, <1>5
<1>9. QED BY Zenon, <1>2, <1>4, <1>6, <1>7, <1>8 DEF c, g, h, x

LEMMA InBatchIs ==
  ASSUME RepInv, phase = "events"
  PROVE  InBatch \subseteq EventIds /\ \A i \in DOMAIN batch : batch[i].of \in Ids /\ Min(batch[i].of) \in InBatch
<1>1. batch \in Seq(EventEntry)  BY EventsShape
<1>2. ASSUME NEW i \in DOMAIN batch PROVE batch[i].of \in Ids /\ batch[i].of \subseteq EventIds /\ Min(batch[i].of) \in batch[i].of
 <2> DEFINE p == batch[i]
            X == batch[i].of
 <2>1. p \in EventEntry  BY <1>1
 <2>2. X \in Ids  BY <2>1 DEF EventEntry, Entry
 <2>3. X \subseteq EventIds /\ X # {}
   BY <2>2 DEF Ids
 <2>4. X \subseteq Nat  BY <2>3, IdsAre
 <2> HIDE DEF X
 <2>5. Min(X) \in X  BY <2>3, <2>4, MinIs
 <2>6. QED BY Zenon, <2>2, <2>3, <2>5 DEF X
<1>3. QED BY Zenon, <1>2 DEF InBatch

LEMMA PartDecided ==
  ASSUME RepInv, phase = "events", NEW R, R \subseteq DOMAIN batch, NEW e \in EventIds, NEW of, of = UNION {batch[i].of : i \in R},
         NEW D, D = delivered \cup (InBatch \ of)
  PROVE  /\ If(e \in D) + Count(Select(batch, R), Holding(e)) = If(e \in delivered) + Count(batch, Holding(e))
         /\ Count(Select(batch, R), Holding(e)) \in Nat /\ Count(Select(batch, R), Holding(e)) <= Count(batch, Holding(e))
         /\ Count(Select(batch, R), Holding(e)) = (IF e \in of THEN 1 ELSE 0)
<1> DEFINE s == Count(Select(batch, R), Holding(e))
           r == Count(Select(batch, DOMAIN batch \ R), Holding(e))
           c == Count(batch, Holding(e))
           g == If(e \in delivered)
           d == If(e \in D)
<1>1. batch \in Seq(EventEntry)  BY EventsShape
<1>2. c \in Nat /\ c <= 1 /\ (c = 1 => e \notin delivered) /\ (e \in InBatch <=> c = 1)
  BY BatchOnce
<1>3. s + r = c  BY <1>1, SelectRest
<1>4. s \in Nat /\ r \in Nat
  BY <1>1, SelectIs, HitsFinite
<1>5. e \in of <=> s # 0  BY <1>1, SelectedOf
<1>6. g \in Nat /\ (e \in delivered => g = 1) /\ (e \notin delivered => g = 0) /\ (e \in D => d = 1) /\ (e \notin D => d = 0)
  BY IfIs
<1>7. (e \in D) <=> (e \in delivered \/ (e \in InBatch /\ e \notin of))
  OBVIOUS
<1> HIDE DEF s, r, c, g, d
<1>8. s <= c /\ (s # 0 <=> s = 1)
  BY <1>2, <1>3, <1>4
<1>9. d + s = g + c
 <2>1. CASE c = 1 /\ s = 0
   BY <1>2, <1>5, <1>6, <1>7, <2>1
 <2>2. CASE ~(c = 1 /\ s = 0)
   BY <1>2, <1>3, <1>4, <2>2, <1>5, <1>7, <1>6
 <2>3. QED BY <2>1, <2>2
<1>10. s = IF e \in of THEN 1 ELSE 0
  BY <1>5, <1>8
<1>11. QED BY Zenon, <1>4, <1>8, <1>9, <1>10 DEF s, c, g, d

LEMMA PartCounted ==
  ASSUME RepInv, phase = "events", NEW R, R \subseteq DOMAIN batch, NEW of, of = UNION {batch[i].of : i \in R}
  PROVE  \A e \in EventIds : Count(Select(batch, R), Holding(e)) = (IF e \in of THEN 1 ELSE 0)
<1> TAKE e \in EventIds
<1> DEFINE D == delivered \cup (InBatch \ of)
<1>1. D = delivered \cup (InBatch \ of)  OBVIOUS
<1> HIDE DEF D
<1>2. QED BY <1>1, PartDecided

(* What the counting of the decided part adds to the books. *)
Adds(R) == \A e \in EventIds : Places(books', e) = Places(books, e) + Count(Select(batch, R), Holding(e))

LEMMA PartStep ==
  ASSUME RepInv, phase = "events", NEW R, R \subseteq DOMAIN batch, Goes(round'), Adds(R), GoodBook(books'), books'.queue = books.queue,
         delivered' = delivered \cup (InBatch \ UNION {batch[i].of : i \in R}), batch' = <<>>,
         UNCHANGED <<fresh, queue, hand, phase, closing, deadline, confirmed, dropped, recounted, uncounted>>
  PROVE  RepInv'
<1>1. delivered' \subseteq EventIds /\ uncounted' \subseteq EventIds
  BY EventsShape, InBatchIs
<1>2. ASSUME NEW e \in EventIds
      PROVE  Places(books', e) + If(e \in delivered') + If(e \in uncounted') = Places(books, e) + Owed(e)
 <2> DEFINE x == Places(books, e)
            y == Places(books', e)
            s == Count(Select(batch, R), Holding(e))
            c == Count(batch, Holding(e))
            g == If(e \in delivered)
            d == If(e \in delivered')
            h == If(e \in uncounted)
            of == UNION {batch[i].of : i \in R}
            D == delivered'
 <2>1. D = delivered \cup (InBatch \ of)  OBVIOUS
 <2> HIDE DEF of, D
 <2>2. If(e \in D) + s = g + c /\ s \in Nat
   BY <2>1, PartDecided DEF of
 <2>3. d + s = g + c  BY Zenon, <2>2 DEF D
 <2>4. y = x + s  BY Zenon DEF Adds
 <2>5. Owed(e) = c + g + h /\ c \in Nat /\ x \in Nat
   BY BatchOnce
 <2>6. g \in Nat /\ h \in Nat /\ d \in Nat
   BY IfIs
 <2> HIDE DEF x, y, s, c, g, d, h
 <2>7. y + d + h = x + (c + g + h)  BY <2>2, <2>3, <2>4, <2>5, <2>6
 <2>8. QED BY Zenon, <2>5, <2>7 DEF x, y, d, h
<1>3. phase' \in {"events", "idle"}  OBVIOUS
<1>4. QED BY Zenon, <1>1, <1>2, <1>3, AnswerStep

LEMMA DisposedPart ==
  ASSUME RepInv, phase = "events", NEW R, R \subseteq DOMAIN batch, NEW final \in BOOLEAN,
         NEW b, b = DisposeAll(books, Select(batch, R), final)
  PROVE  /\ GoodBook(b) /\ b.queue = books.queue /\ b.terminal = books.terminal
         /\ \A e \in EventIds : Places(b, e) = Places(books, e) + Count(Select(batch, R), Holding(e))
<1> DEFINE part == Select(batch, R)
<1>1. batch \in Seq(EventEntry) /\ GoodBook(books)
  BY EventsShape
<1>2. part \in Seq(EventEntry)  BY <1>1, SelectIs
<1>3. ASSUME NEW e \in EventIds PROVE Places(books, e) + Count(part, Holding(e)) <= 1
 <2> DEFINE x == Places(books, e)
            s == Count(part, Holding(e))
            c == Count(batch, Holding(e))
            of == UNION {batch[i].of : i \in R}
            D == delivered \cup (InBatch \ of)
 <2>1. s \in Nat /\ s <= c
   BY PartDecided
 <2>2. x \in Nat /\ c \in Nat /\ x + c <= 1
   BY BatchOnce
 <2> HIDE DEF x, s, c
 <2>3. x + s <= 1  BY <2>1, <2>2
 <2>4. QED BY Zenon, <2>3 DEF x, s
<1> HIDE DEF part
<1>4. b = DisposeAll(books, part, final)  BY Zenon DEF part
<1>5. /\ GoodBook(b) /\ b.queue = books.queue /\ b.terminal = books.terminal
      /\ \A e \in EventIds : Places(b, e) = Places(books, e) + Count(part, Holding(e))
  BY <1>1, <1>2, <1>3, <1>4, DisposeAllIs
<1>6. QED BY Zenon, <1>5 DEF part

LEMMA RoundBoolean ==
  ASSUME RepInv, phase = "events"
  PROVE  /\ round.final \in BOOLEAN /\ round.clean \in BOOLEAN /\ round.sentClean \in BOOLEAN /\ Goes(round)
<1>1. Goes(round)  BY EventsShape
<1>2. QED BY <1>1 DEF Goes, RoundSet

LEMMA BatchSentStep ==
  ASSUME RepInv, BatchSent
  PROVE  RepInv'
<1>1. /\ phase = "events" /\ batch' = <<>>
      /\ UNCHANGED <<fresh, queue, hand, phase, closing, deadline, confirmed, dropped, recounted, uncounted>>
  BY DEF BatchSent, Answered
<1>2. PICK R \in SUBSET DOMAIN batch :
        /\ books' = DisposeAll(books, Select(batch, R), round.final)
        /\ delivered' = delivered \cup (InBatch \ UNION {batch[i].of : i \in R})
        /\ \E parsed \in {R = {}, FALSE} :
             round' = [round EXCEPT !.sentClean = @ \/ parsed, !.clean = @ /\ parsed]
  BY Zenon DEF BatchSent
<1>3. PICK parsed \in BOOLEAN : round' = [round EXCEPT !.sentClean = @ \/ parsed, !.clean = @ /\ parsed]
  BY <1>2
<1>4. Goes(round')
 <2> DEFINE b == round.sentClean \/ parsed
            c == round.clean /\ parsed
 <2>1. 0 \in Int /\ b \in BOOLEAN /\ c \in BOOLEAN /\ Goes(round) /\ round' = [round EXCEPT !.sentClean = b, !.clean = c]
   BY <1>1, <1>3, RoundBoolean
 <2> HIDE DEF b, c
 <2>2. QED BY <2>1, RoundGoes
<1>5. round.final \in BOOLEAN /\ R \subseteq DOMAIN batch
  BY <1>1, RoundBoolean
<1> DEFINE b == books'
<1>b. b = DisposeAll(books, Select(batch, R), round.final)  BY Zenon, <1>2
<1> HIDE DEF b
<1>c. /\ GoodBook(b) /\ b.queue = books.queue /\ b.terminal = books.terminal
      /\ \A e \in EventIds : Places(b, e) = Places(books, e) + Count(Select(batch, R), Holding(e))
  BY <1>1, <1>5, <1>b, DisposedPart
<1>6. /\ GoodBook(books') /\ books'.queue = books.queue
      /\ \A e \in EventIds : Places(books', e) = Places(books, e) + Count(Select(batch, R), Holding(e))
  BY Zenon, <1>c DEF b
<1>7. Adds(R) /\ R \subseteq DOMAIN batch
  BY Zenon, <1>2, <1>6 DEF Adds
<1>8. QED BY Zenon, <1>1, <1>2, <1>4, <1>6, <1>7, PartStep

LEMMA BatchPartlyRejectedStep ==
  ASSUME RepInv, BatchPartlyRejected
  PROVE  RepInv'
<1>1. /\ phase = "events" /\ batch' = <<>> /\ round' = [round EXCEPT !.clean = FALSE]
      /\ UNCHANGED <<fresh, queue, hand, phase, closing, deadline, confirmed, dropped, recounted, uncounted>>
  BY DEF BatchPartlyRejected, Answered
<1>2. PICK R \in SUBSET DOMAIN batch :
        /\ books' = Counted(books, UNION {batch[i].of : i \in R})
        /\ delivered' = delivered \cup (InBatch \ UNION {batch[i].of : i \in R})
  BY Zenon DEF BatchPartlyRejected
<1>3. Goes(round')
 <2> DEFINE c == FALSE
 <2>1. 0 \in Int /\ c \in BOOLEAN /\ Goes(round) /\ round' = [round EXCEPT !.clean = c]
   BY <1>1, RoundBoolean
 <2> HIDE DEF c
 <2>2. QED BY <2>1, RoundGoes
<1> DEFINE of == UNION {batch[i].of : i \in R}
<1>4. GoodBook(books)  BY <1>1, EventsShape
<1>5. of = UNION {batch[i].of : i \in R}  OBVIOUS
<1>6. books' = Counted(books, of)  BY <1>2
<1> HIDE DEF of
<1>7. GoodBook(books') /\ books'.queue = books.queue /\ \A e \in EventIds : Places(books', e) = Places(books, e) + (IF e \in of THEN 1 ELSE 0)
  BY <1>4, CountedPlaces, CountedQueue, <1>6
<1>8. \A e \in EventIds : Count(Select(batch, R), Holding(e)) = (IF e \in of THEN 1 ELSE 0)
  BY <1>1, <1>5, PartCounted
<1>9. Adds(R) /\ R \subseteq DOMAIN batch
  BY Zenon, <1>2, <1>7, <1>8 DEF Adds
<1>10. QED BY Zenon, <1>1, <1>2, <1>3, <1>7, <1>9, PartStep

LEMMA BatchRefusedStep ==
  ASSUME RepInv, BatchRefused
  PROVE  RepInv'
<1> DEFINE first == {Min(batch[i].of) : i \in DOMAIN batch}
<1>1. /\ phase = "events" /\ batch' = <<>> /\ round' = [round EXCEPT !.clean = FALSE]
      /\ books' = Counted(books, first) /\ uncounted' = uncounted \cup (InBatch \ first)
      /\ UNCHANGED <<fresh, queue, hand, phase, closing, deadline, confirmed, dropped, delivered, recounted>>
  BY DEF BatchRefused, Answered
<1>2. Goes(round')
 <2> DEFINE c == FALSE
 <2>1. 0 \in Int /\ c \in BOOLEAN /\ Goes(round) /\ round' = [round EXCEPT !.clean = c]
   BY <1>1, RoundBoolean
 <2> HIDE DEF c
 <2>2. QED BY <2>1, RoundGoes
<1>3. GoodBook(books) /\ delivered \subseteq EventIds /\ uncounted \subseteq EventIds
  BY <1>1, EventsShape
<1>4. first \subseteq InBatch /\ InBatch \subseteq EventIds
  BY <1>1, InBatchIs
<1> HIDE DEF first
<1>5. GoodBook(books') /\ books'.queue = books.queue /\ \A e \in EventIds : Places(books', e) = Places(books, e) + (IF e \in first THEN 1 ELSE 0)
  BY <1>3, CountedPlaces, CountedQueue, <1>1
<1>6. delivered' \subseteq EventIds /\ uncounted' \subseteq EventIds
  BY <1>1, <1>3, <1>4
<1>7. ASSUME NEW e \in EventIds
      PROVE  Places(books', e) + If(e \in delivered') + If(e \in uncounted') = Places(books, e) + Owed(e)
 <2> DEFINE x == Places(books, e)
            y == Places(books', e)
            f == IF e \in first THEN 1 ELSE 0
            c == Count(batch, Holding(e))
            g == If(e \in delivered)
            h == If(e \in uncounted)
            u == If(e \in uncounted')
 <2>1. y = x + f  BY <1>5
 <2>2. Owed(e) = c + g + h /\ c \in Nat /\ x \in Nat /\ x + c <= 1 /\ (e \in InBatch <=> c = 1) /\ (c = 1 => e \notin uncounted)
   BY <1>1, BatchOnce
 <2>3. g \in Nat /\ h \in Nat /\ (e \in uncounted => h = 1) /\ (e \notin uncounted => h = 0)
       /\ (e \in uncounted' => u = 1) /\ (e \notin uncounted' => u = 0)
   BY IfIs
 <2>4. e \in uncounted' <=> e \in uncounted \/ (e \in InBatch /\ e \notin first)
   BY <1>1
 <2>5. (e \in first => f = 1) /\ (e \notin first => f = 0)
   OBVIOUS
 <2> HIDE DEF x, y, f, c, g, h, u
 <2>6. f + u = c + h
  <3>1. CASE c = 1
    BY <2>2, <2>3, <3>1, <2>4, <2>5
  <3>2. CASE c # 1
    BY <2>2, <3>2, <1>4, <2>3, <2>4, <2>5
  <3>3. QED BY <3>1, <3>2
 <2>7. f \in Nat /\ u \in Nat
   BY <2>3, <2>5
 <2>8. y + g + u = x + (c + g + h)  BY <2>1, <2>2, <2>3, <2>6, <2>7
 <2>9. QED BY Zenon, <1>1, <2>2, <2>8 DEF x, y, g, u
<1>8. phase' \in {"events", "idle"}  BY <1>1
<1>9. QED BY Zenon, <1>1, <1>2, <1>5, <1>6, <1>7, <1>8, AnswerStep

LEMMA BatchDroppedStep ==
  ASSUME RepInv, BatchDropped
  PROVE  RepInv'
<1> DEFINE R == DOMAIN batch
<1>1. /\ phase = "events" /\ batch' = <<>> /\ round' = [round EXCEPT !.clean = FALSE]
      /\ books' = DisposeAll(books, batch, round.final)
      /\ UNCHANGED <<fresh, queue, hand, phase, closing, deadline, confirmed, dropped, delivered, recounted, uncounted>>
  BY DEF BatchDropped, Answered
<1>2. Goes(round')
 <2> DEFINE c == FALSE
 <2>1. 0 \in Int /\ c \in BOOLEAN /\ Goes(round) /\ round' = [round EXCEPT !.clean = c]
   BY <1>1, RoundBoolean
 <2> HIDE DEF c
 <2>2. QED BY <2>1, RoundGoes
<1>3. Select(batch, R) = batch /\ R \subseteq DOMAIN batch /\ round.final \in BOOLEAN
  BY <1>1, EventsShape, SelectAll, RoundBoolean
<1>4. books' = DisposeAll(books, Select(batch, R), round.final)  BY Zenon, <1>1, <1>3
<1> HIDE DEF R
<1>5. /\ GoodBook(books') /\ books'.queue = books.queue
      /\ \A e \in EventIds : Places(books', e) = Places(books, e) + Count(Select(batch, R), Holding(e))
  BY Zenon, <1>1, <1>3, <1>4, DisposedPart
<1>6. Adds(R)  BY Zenon, <1>5 DEF Adds
<1>7. delivered' = delivered \cup (InBatch \ UNION {batch[i].of : i \in R})  BY <1>1 DEF InBatch, R
<1>8. QED BY Zenon, <1>1, <1>2, <1>3, <1>5, <1>6, <1>7, PartStep

(* The entries of `some` as a failed batch puts them back. *)
Again(some, limited, after) == [i \in DOMAIN some |-> Retry(some[i], limited, after).entry]

LEMMA AgainIs ==
  ASSUME NEW some \in Seq(EventEntry), NEW limited \in BOOLEAN, NEW after \in BOOLEAN,
         NEW r, r = Again(some, limited, after)
  PROVE  /\ r \in Seq(EventEntry) /\ \A e : Count(r, Holding(e)) = Count(some, Holding(e))
         /\ \A R : Rising(some, R) => Rising(r, R)
         /\ From(r, some)
<1>1. \A i \in DOMAIN some : Retry(some[i], limited, after).entry \in EventEntry /\ Retry(some[i], limited, after).entry.of = some[i].of
 <2> TAKE i \in DOMAIN some
 <2> DEFINE p == some[i]
 <2>1. p \in Entry(Ids)  BY DEF EventEntry
 <2> HIDE DEF p
 <2>2. Retry(p, limited, after).entry \in Entry(Ids) /\ Retry(p, limited, after).entry.of = p.of
   BY <2>1, RetryIs
 <2>3. QED BY Zenon, <2>2 DEF p, EventEntry
<1>2. DOMAIN r = DOMAIN some /\ \A i \in DOMAIN some : r[i] = Retry(some[i], limited, after).entry
  BY DEF Again
<1>3. DOMAIN some = DOMAIN r /\ \A i \in DOMAIN some : r[i] \in EventEntry /\ some[i].of = r[i].of
  BY Zenon, <1>1, <1>2
<1>4. r \in Seq(EventEntry)
  BY <1>3 DEF Again
<1>5. ASSUME NEW e PROVE Count(r, Holding(e)) = Count(some, Holding(e))
 <2> DEFINE V == Holding(e)
 <2>1. \A i \in DOMAIN some : (some[i] \in V) <=> (r[i] \in V)
  <3> TAKE i \in DOMAIN some
  <3> DEFINE a == some[i]
             b == r[i]
  <3>1. a \in EventEntry /\ b \in EventEntry /\ b.of = a.of
    BY <1>3
  <3> HIDE DEF a, b
  <3>2. (a \in V) <=> (b \in V)  BY <3>1 DEF Holding
  <3>3. QED BY Zenon, <3>2 DEF a, b
 <2> HIDE DEF V
 <2>2. Count(some, V) = Count(r, V)  BY <1>3, <2>1, CountAs
 <2>3. QED BY Zenon, <2>2 DEF V
<1>6. From(r, some) /\ \A R : Rising(some, R) => Rising(r, R)
  BY <1>3, RisingAs
<1>7. QED BY Zenon, <1>4, <1>5, <1>6

LEMMA BatchFailsStep ==
  ASSUME RepInv, BatchFails
  PROVE  RepInv'
<1>1. PICK limited \in BOOLEAN, after \in BOOLEAN :
       LET again == {i \in DOMAIN batch : Retry(batch[i], limited, after).ok /\ (after \/ ~round.final)}
           some == Select(batch, again)
           survivors == [i \in DOMAIN some |-> Retry(some[i], limited, after).entry]
           exhausted == Select(batch, DOMAIN batch \ again)
           restored == RestoreEvents(books, survivors, closing # "open") IN
       /\ books' = DisposeAll(restored, exhausted, round.final)
       /\ \/ round' = [round EXCEPT !.clean = FALSE] /\ UNCHANGED phase
          \/ EndRound(FALSE)
  BY Zenon DEF BatchFails
<1> DEFINE again == {i \in DOMAIN batch : Retry(batch[i], limited, after).ok /\ (after \/ ~round.final)}
           some == Select(batch, again)
           survivors == Again(some, limited, after)
           exhausted == Select(batch, DOMAIN batch \ again)
           bypass == closing # "open"
           restored == RestoreEvents(books, survivors, bypass)
           final == round.final
           q == books.queue
<1>2. /\ phase = "events" /\ batch' = <<>> /\ books' = DisposeAll(restored, exhausted, final)
      /\ \/ round' = [round EXCEPT !.clean = FALSE] /\ phase' = "events"
         \/ round' = NoRound /\ phase' = "idle"
      /\ UNCHANGED <<fresh, queue, hand, closing, deadline, confirmed, dropped, delivered, recounted, uncounted>>
  BY <1>1 DEF BatchFails, Answered, EndRound, Again
<1>3. again \subseteq DOMAIN batch /\ survivors = Again(some, limited, after) /\ bypass \in BOOLEAN
  OBVIOUS
<1>4. /\ final \in BOOLEAN /\ Goes(round) /\ GoodBook(books) /\ batch \in Seq(EventEntry) /\ q \in Seq(EventEntry)
      /\ Rising(batch \o q, EventOrder) /\ delivered \subseteq EventIds /\ uncounted \subseteq EventIds
  BY <1>2, EventsShape, RoundBoolean
<1>5. (bypass <=> closing # "open") /\ restored = RestoreEvents(books, survivors, bypass)
  OBVIOUS
<1> HIDE DEF again, survivors, bypass, restored, final
<1>6. /\ some \in Seq(EventEntry) /\ exhausted \in Seq(EventEntry)
      /\ \A V : Count(some, V) + Count(exhausted, V) = Count(batch, V)
      /\ (Rising(batch, EventOrder) => Rising(some, EventOrder)) /\ From(some, batch)
  BY <1>4, SelectIs, SelectRest, RisingDrawn
<1> HIDE DEF some, exhausted
<1>7. /\ survivors \in Seq(EventEntry) /\ \A e : Count(survivors, Holding(e)) = Count(some, Holding(e))
      /\ \A R : Rising(some, R) => Rising(survivors, R)
      /\ From(survivors, some)
 <2>1. some \in Seq(EventEntry) /\ limited \in BOOLEAN /\ after \in BOOLEAN /\ survivors = Again(some, limited, after)
   BY <1>3, <1>6
 <2>2. survivors \in Seq(EventEntry)  BY <2>1, AgainIs
 <2>3. \A e : Count(survivors, Holding(e)) = Count(some, Holding(e))
   BY <2>1, AgainIs
 <2>4. \A R : Rising(some, R) => Rising(survivors, R)
   BY <2>1, AgainIs
 <2>5. From(survivors, some)  BY <2>1, AgainIs
 <2>6. QED BY Zenon, <2>2, <2>3, <2>4, <2>5
<1>8. ASSUME NEW e \in EventIds
      PROVE  LET x == Places(books, e)
                 s == Count(survivors, Holding(e))
                 y == Count(exhausted, Holding(e)) IN
             /\ x \in Nat /\ s \in Nat /\ y \in Nat /\ x + s <= 1 /\ x + s + y <= 1
             /\ Owed(e) = s + y + If(e \in delivered) + If(e \in uncounted)
  BY <1>6, <1>7, <1>2, BatchOnce, HitsFinite
<1>9. /\ GoodBook(restored) /\ \A e \in EventIds : Places(restored, e) = Places(books, e) + Count(survivors, Holding(e))
      /\ (~bypass => Len(restored.queue) <= MaxQueueSize)
      /\ (Rising(survivors \o q, EventOrder) => Rising(restored.queue, EventOrder))
      /\ From(restored.queue, survivors \o q)
  BY <1>8, <1>3, <1>4, <1>5, <1>7, RestoreEventsIs
<1>10. /\ GoodBook(books') /\ books'.queue = restored.queue
       /\ \A e \in EventIds : Places(books', e) = Places(restored, e) + Count(exhausted, Holding(e))
  BY <1>8, <1>9, <1>2, <1>4, <1>6, DisposeAllIs
<1>11. Follows(batch' \o books'.queue, batch \o books.queue)
 <2> DEFINE r == restored.queue
            l == batch \o q
            m == survivors \o q
 <2>1. Rising(m, EventOrder) /\ From(m, l)
  <3>1. From(survivors, batch)  BY Zenon, <1>6, <1>7, FromTwice
  <3>2. From(q, q)  BY DEF From
  <3>3. Rising(batch, EventOrder) => Rising(survivors, EventOrder)  BY Zenon, <1>6, <1>7
  <3> HIDE DEF q
  <3>4. QED BY <1>4, <1>7, <3>1, <3>2, <3>3, LineOf
 <2>2. r \in Seq(EventEntry)  BY <1>9, BookFields DEF GoodBook
 <2>3. Rising(r, EventOrder) /\ From(r, m)
   BY Zenon, <1>9, <2>1
 <2> HIDE DEF r, l, m, q
 <2>4. From(r, l)  BY Zenon, <2>1, <2>3, FromTwice
 <2>5. Follows(r, l)  BY Zenon, <2>2, <2>3, <2>4 DEF Follows
 <2>6. <<>> \o r = r  BY <2>2, EmptyLine
 <2>7. batch' \o books'.queue = r  BY Zenon, <1>2, <1>10, <2>6 DEF r
 <2>8. QED BY Zenon, <2>5, <2>7 DEF l, q
<1>12. ASSUME NEW e \in EventIds PROVE Places(books', e) + Owed(e)' = Places(books, e) + Owed(e)
  BY <1>9, <1>10, <1>8, <1>2, CountEmpty, IfIs DEF Owed
<1>13. Goes(round')
 <2> DEFINE c == FALSE
 <2>1. 0 \in Int /\ c \in BOOLEAN /\ (round' = NoRound \/ round' = [round EXCEPT !.clean = c])
   BY <1>2
 <2> HIDE DEF c
 <2>2. QED BY <1>4, <2>1, RoundGoes
<1>14. /\ batch' \in Seq(EventEntry) /\ Len(batch') <= BatchSize /\ (batch' # <<>> => phase' = "events")
       /\ phase' \in {"events", "idle"} /\ delivered' \subseteq EventIds /\ uncounted' \subseteq EventIds
  BY <1>2, <1>4, ReporterAssumption
<1>15. closing = "open" => Len(books'.queue) <= MaxQueueSize  BY Zenon, <1>5, <1>9, <1>10
<1>16. QED BY Zenon, <1>2, <1>10, <1>11, <1>12, <1>13, <1>14, <1>15, EventsStep

Orphans(l) == {i \in DOMAIN l : l[i].of \in Settlements}
Handed(orphans) == [i \in DOMAIN orphans |-> Pending({orphans[i].of})]

(* A selected confirm or settlement is one of the line's. *)
LEMMA PickedFrom ==
  ASSUME NEW l \in Seq(Control), NEW J
  PROVE  \A k \in DOMAIN Select(l, J) : \E i \in J \cap DOMAIN l : Select(l, J)[k] = l[i]
BY SelectFrom

EmptiedAs(d, b, n) ==
  /\ GoodBook(d) /\ d.queue = n /\ d.terminal = b.terminal
  /\ \A e \in EventIds : Places(d, e) + Count(b.queue, Holding(e)) = Places(b, e) + Count(n, Holding(e))

LEMMA Emptied ==
  ASSUME NEW b, GoodBook(b), NEW n \in Seq(EventEntry)
  PROVE  EmptiedAs([b EXCEPT !.queue = n], b, n)
<1> DEFINE d == [b EXCEPT !.queue = n]
<1>1. d = [b EXCEPT !.queue = n]  OBVIOUS
<1> HIDE DEF d
<1>2. /\ GoodBook(d) /\ d.queue = n /\ d.folds = b.folds /\ d.terminal = b.terminal /\ d.drops = b.drops
      /\ \A e \in EventIds : Places(d, e) + Count(b.queue, Holding(e)) = Places(b, e) + Count(n, Holding(e))
  BY <1>1, Requeue
<1>3. EmptiedAs(d, b, n)  BY Zenon, <1>2 DEF EmptiedAs
<1>4. QED BY Zenon, <1>3 DEF d

LEMMA Disposed ==
  ASSUME NEW b, GoodBook(b), NEW line \in Seq(EventEntry), NEW force \in BOOLEAN,
         \A e \in EventIds : Places(b, e) + Count(line, Holding(e)) <= 1
  PROVE  /\ GoodBook(DisposeAll(b, line, force)) /\ DisposeAll(b, line, force).queue = b.queue
         /\ DisposeAll(b, line, force).terminal = b.terminal
         /\ \A e \in EventIds : Places(DisposeAll(b, line, force), e) = Places(b, e) + Count(line, Holding(e))
<1> DEFINE c == DisposeAll(b, line, force)
<1>1. c = DisposeAll(b, line, force)  OBVIOUS
<1> HIDE DEF c
<1>2. /\ GoodBook(c) /\ c.queue = b.queue /\ c.terminal = b.terminal
      /\ \A e \in EventIds : Places(c, e) = Places(b, e) + Count(line, Holding(e))
  BY <1>1, DisposeAllIs
<1>3. QED BY Zenon, <1>2 DEF c

(* The events that orphaned settlements carry. *)
LEMMA HandedOn ==
  ASSUME NEW l \in Seq(Control)
  PROVE  /\ Handed(Select(l, Orphans(l))) \in Seq(EventEntry)
         /\ \A e \in EventIds : Count(Handed(Select(l, Orphans(l))), Holding(e)) = Of(l, e)
<1> DEFINE I == Orphans(l)
           o == Select(l, I)
           r == Handed(o)
<1>a. \A i \in DOMAIN l : i \in I <=> l[i].of \in Settlements
  BY DEF Orphans
<1>b. \A k \in DOMAIN o : \E i \in I \cap DOMAIN l : o[k] = l[i]
 <2>1. \A k \in DOMAIN Select(l, I) : \E i \in I \cap DOMAIN l : Select(l, I)[k] = l[i]
   BY PickedFrom
 <2>2. QED BY Zenon, <2>1
<1> HIDE DEF I
<1>1. o \in Seq(Control) /\ \A V : Count(o, V) = Cardinality(Hits(l, V) \cap I)
  BY SelectIs
<1>2. \A k \in DOMAIN o : o[k].of \in Settlements
 <2> TAKE k \in DOMAIN o
 <2>1. PICK i \in I \cap DOMAIN l : o[k] = l[i]
   BY Zenon, <1>b
 <2> HIDE DEF o
 <2>2. QED BY <1>a, <2>1
<1> HIDE DEF o
<1>3. DOMAIN r = DOMAIN o /\ \A k \in DOMAIN o : r[k] = Pending({o[k].of})
  BY DEF Handed
<1>4. \A k \in DOMAIN o : r[k] \in EventEntry /\ r[k].of = {o[k].of}
 <2> TAKE k \in DOMAIN o
 <2> DEFINE X == {o[k].of}
 <2>1. X \in Ids
   BY <1>2, IdsAre, SingleId
 <2> HIDE DEF X
 <2>2. Pending(X) \in Entry(Ids) /\ Pending(X).of = X
   BY <2>1, PendingIs
 <2>3. r[k] = Pending(X)  BY Zenon, <1>3 DEF X
 <2>4. QED BY Zenon, <2>2, <2>3 DEF X, EventEntry
<1>5. r \in Seq(EventEntry)
 <2>1. DOMAIN o = 1 .. Len(o) /\ Len(o) \in Nat
   BY <1>1
 <2>2. r = [i \in 1 .. Len(o) |-> r[i]]  BY <2>1 DEF Handed
 <2>3. r \in [1 .. Len(o) -> EventEntry]  BY <1>4, <2>1, <2>2
 <2>4. QED BY <2>1, <2>3
<1>6. ASSUME NEW e \in EventIds PROVE Count(r, Holding(e)) = Of(l, e)
 <2> DEFINE V == Holding(e)
            W == About(e)
 <2>1. \A k \in DOMAIN o : (o[k] \in W) <=> (r[k] \in V)
  <3> TAKE k \in DOMAIN o
  <3> DEFINE a == o[k]
             b == r[k]
  <3>1. a \in Control /\ b \in EventEntry /\ b.of = {a.of}
    BY <1>1, <1>4
  <3> HIDE DEF a, b
  <3>2. (a \in W) <=> (b \in V)  BY <3>1 DEF Holding, About
  <3>3. QED BY Zenon, <3>2 DEF a, b
 <2> HIDE DEF V, W
 <2>2. Count(o, W) = Count(r, V)
   BY <1>3, <2>1, CountAs
 <2>3. Hits(l, W) \subseteq I
   BY IdsAre, <1>a DEF Hits, W, About, Control, Entry, Controls
 <2>4. Count(o, W) = Count(l, W)
   BY <2>3, <1>1 DEF Count
 <2>5. Of(l, e) = Count(l, W)  BY OfIs DEF W
 <2>6. QED BY Zenon, <2>2, <2>4, <2>5 DEF V
<1>7. QED BY Zenon, <1>5, <1>6 DEF o, I

LEMMA SealedControl ==
  ASSUME ControlInv, fresh' = fresh, queue' = [s \in Stages |-> <<>>], hand' = <<>>, phase' = "idle", round' = NoRound
  PROVE  ControlInv' /\ LinesInv' /\ \A x : Waiting(x)' = If(x \in fresh)
<1>1. queue' \in [Stages -> Seq(Control)] /\ \A s \in Stages : queue'[s] = <<>>
  BY DEF Stages
<1>2. Queues(queue')  BY <1>1, ReporterAssumption DEF Queues
<1>3. Goes(round')  BY NoRoundIs, QuotaIs DEF Goes
<1>4. ControlInv'
  BY <1>2, <1>3, SendingNone DEF ControlInv, Goes, Stages
<1>5. ASSUME NEW s \in Stages PROVE InOrder(LineIn(phase', hand', queue', s), s, fresh')
 <2>1. LineIn(phase', hand', queue', s) = <<>> \o <<>>
   BY <1>1 DEF Stages, LineIn
 <2> DEFINE l == <<>> \o <<>>
 <2>2. DOMAIN l = {}  OBVIOUS
 <2> HIDE DEF l
 <2>3. InOrder(l, s, fresh')  BY <2>2 DEF InOrder, Rising, Under
 <2>4. QED BY Zenon, <2>1, <2>3 DEF l
<1>6. LinesInv'  BY Zenon, <1>5 DEF LinesInv, Line
<1>7. ASSUME NEW x PROVE Waiting(x)' = If(x \in fresh)
 <2> DEFINE g == If(x \in fresh)
            m == HeldIn(x, queue', hand')
            o == Of(Claims(hand'), x)
 <2>1. Of(queue'["confirms"], x) = 0 /\ Of(queue'["settlements"], x) = 0
   BY Zenon, <1>1, OfNone DEF Stages
 <2>2. o = 0
   BY OfNone DEF Claims
 <2>3. m = 0 + 0 + 0  BY Zenon, <2>1, <2>2 DEF HeldIn
 <2>4. Waiting(x)' = g + m  BY Zenon DEF Waiting
 <2>5. g \in Nat  BY IfIs
 <2> HIDE DEF g, m, o
 <2>6. g + m = g  BY <2>3, <2>5
 <2>7. QED BY Zenon, <2>4, <2>6 DEF g
<1>8. QED BY Zenon, <1>4, <1>6, <1>7

(* The folds are taken, and the event queue is emptied. *)
LEMMA TakenBooks ==
  ASSUME RepInv, NEW b, b = TakeFoldsFinal(books)
  PROVE  GoodBook(b) /\ b.terminal = TRUE /\ \A e \in EventIds : Places(b, e) = Places(books, e)
<1>1. PlacesInv /\ GoodBook(books)
  BY DEF RepInv, EventInv
<1>2. \A e \in EventIds : Places(books, e) <= 1
  BY PlacesOnce
<1>3. GoodBook(b)  BY <1>1, <1>2, TakeFoldsFinalIs
<1>4. b.terminal = TRUE  BY <1>1, <1>2, TakeFoldsFinalIs
<1>5. \A e \in EventIds : Places(b, e) = Places(books, e)
  BY <1>1, <1>2, TakeFoldsFinalIs
<1>6. QED BY Zenon, <1>3, <1>4, <1>5

Taken(b) == GoodBook(b) /\ b.terminal = TRUE /\ \A e \in EventIds : Places(b, e) = Places(books, e)
Carries(r) == r \in Seq(EventEntry) /\ \A e \in EventIds : Count(r, Holding(e)) = HeldIn(e, queue, hand)
SealedAs(c) ==
  /\ GoodBook(c) /\ c.queue = <<>> /\ c.terminal
  /\ \A e \in EventIds : Places(c, e) = Places(books, e) + Count(batch, Holding(e)) + HeldIn(e, queue, hand)

(* What close() counts: every event that is queued, claimed, folded or carried. *)
LEMMA SealedBooks ==
  ASSUME RepInv, NEW b, Taken(b), NEW d, EmptiedAs(d, b, <<>>), NEW r, Carries(r)
  PROVE  SealedAs(DisposeAll(d, b.queue \o batch \o r, TRUE))
<1> DEFINE q == b.queue
           m == q \o batch
           line == m \o r
           final == TRUE
           c == DisposeAll(d, line, final)
           n == <<>>
<1>a. /\ GoodBook(b) /\ b.terminal = TRUE /\ \A e \in EventIds : Places(b, e) = Places(books, e)
      /\ r \in Seq(EventEntry) /\ \A e \in EventIds : Count(r, Holding(e)) = HeldIn(e, queue, hand)
  BY Zenon DEF Taken, Carries
<1>b. n \in Seq(EventEntry) /\ n = <<>>
  OBVIOUS
<1>1. ControlInv /\ EventInv /\ PlacesInv /\ GoodBook(books) /\ batch \in Seq(EventEntry)
  BY DEF RepInv, EventInv
<1>3. q \in Seq(EventEntry)  BY <1>a, BookFields DEF GoodBook
<1> HIDE DEF n
<1>6. /\ GoodBook(d) /\ d.queue = n /\ d.terminal = b.terminal
      /\ \A e \in EventIds : Places(d, e) + Count(q, Holding(e)) = Places(b, e) + Count(n, Holding(e))
  BY Zenon DEF EmptiedAs, n
<1> HIDE DEF q
<1>7. m \in Seq(EventEntry) /\ \A V : Count(m, V) = Count(q, V) + Count(batch, V)
  BY <1>1, <1>3, CountConcat, ConcatIs
<1> HIDE DEF m
<1>8. line \in Seq(EventEntry) /\ \A V : Count(line, V) = Count(m, V) + Count(r, V)
  BY <1>a, <1>7, CountConcat, ConcatIs
<1> HIDE DEF line
<1>9. ASSUME NEW e \in EventIds
      PROVE  /\ Places(d, e) + Count(line, Holding(e)) = Places(books, e) + Count(batch, Holding(e)) + HeldIn(e, queue, hand)
             /\ Places(d, e) + Count(line, Holding(e)) <= 1
 <2> DEFINE x == Places(d, e)
            y == Places(books, e)
            i == Count(q, Holding(e))
            j == Count(batch, Holding(e))
            k == Count(r, Holding(e))
            h == HeldIn(e, queue, hand)
            o == Count(line, Holding(e))
            u == Count(m, Holding(e))
            z == Count(n, Holding(e))
 <2>1. x + i = y + z  BY Zenon, <1>a, <1>6
 <2>2. z = 0  BY <1>b, CountEmpty
 <2>3. o = u + k /\ u = i + j
   BY Zenon, <1>7, <1>8
 <2>4. k = h  BY Zenon, <1>a
 <2>5. i \in Nat /\ j \in Nat /\ k \in Nat
   BY <1>a, <1>1, <1>3, HitsFinite
 <2>6. x \in Nat /\ y \in Nat
   BY <1>1, <1>6, PlacesNat DEF GoodBook
 <2>7. y + j + h <= 1  BY PlacesOnce
 <2> HIDE DEF x, y, i, j, k, h, o, u, z
 <2>8. x + o = y + j + h  BY <2>1, <2>2, <2>3, <2>4, <2>5, <2>6
 <2>9. x + o <= 1  BY <2>7, <2>8
 <2>10. QED BY Zenon, <2>8, <2>9 DEF x, y, j, h, o
<1>10. final \in BOOLEAN  OBVIOUS
<1> HIDE DEF final
<1>11. \A e \in EventIds : Places(d, e) + Count(line, Holding(e)) <= 1
  BY Zenon, <1>9
<1>12. /\ GoodBook(c) /\ c.queue = d.queue /\ c.terminal = d.terminal
       /\ \A e \in EventIds : Places(c, e) = Places(d, e) + Count(line, Holding(e))
  BY Zenon, <1>6, <1>8, <1>10, <1>11, Disposed
<1> HIDE DEF c
<1>13. c.queue = <<>> /\ c.terminal
  BY <1>b, <1>6, <1>12, <1>a
<1>14. GoodBook(c) /\ \A e \in EventIds : Places(c, e) = Places(books, e) + Count(batch, Holding(e)) + HeldIn(e, queue, hand)
  BY Zenon, <1>9, <1>12
<1>15. QED
  BY <1>13, <1>14 DEF SealedAs, c, final, line, m, q

LEMMA SealStep ==
  ASSUME RepInv, Seal
  PROVE  RepInv'
<1> DEFINE a == queue["confirms"]
           z == queue["settlements"]
           l == a \o z \o Claims(hand)
           r == Handed(Select(l, Orphans(l)))
           b == TakeFoldsFinal(books)
           n == <<>>
           d == [b EXCEPT !.queue = n]
<1>1. ControlInv /\ LinesInv /\ EventInv /\ PlacesInv /\ RecountInv /\ CloseInv
  BY DEF RepInv
<1>2. /\ closing' = "sealed" /\ dropped' = CountDrops(l)
      /\ books' = DisposeAll(d, b.queue \o batch \o r, TRUE)
      /\ queue' = [s \in Stages |-> <<>>] /\ hand' = <<>> /\ batch' = <<>> /\ phase' = "idle" /\ round' = NoRound
      /\ UNCHANGED <<fresh, deadline, confirmed, delivered, recounted, uncounted>>
  BY DEF Seal, Handed, Orphans
<1>3. a \in Seq(Control) /\ z \in Seq(Control) /\ Claims(hand) \in Seq(Control)
  BY <1>1, LineIs DEF ControlInv, Stages
<1>4. l \in Seq(Control) /\ \A x : Of(l, x) = HeldIn(x, queue, hand)
 <2> DEFINE m == a \o z
            y == Claims(hand)
 <2>1. m \in Seq(Control) /\ \A x : Of(m, x) = Of(a, x) + Of(z, x)
   BY <1>3, OfConcat
 <2> HIDE DEF m, y
 <2>2. m \o y \in Seq(Control) /\ \A x : Of(m \o y, x) = Of(m, x) + Of(y, x)
   BY <1>3, <2>1, OfConcat DEF y
 <2>3. \A x : HeldIn(x, queue, hand) = Of(a, x) + Of(z, x) + Of(y, x)
   BY Zenon DEF HeldIn, y
 <2>4. l = m \o y  BY Zenon DEF m, y
 <2> HIDE DEF a, z, l
 <2>5. QED BY Zenon, <2>1, <2>2, <2>3, <2>4
<1>5. r \in Seq(EventEntry) /\ \A e \in EventIds : Count(r, Holding(e)) = HeldIn(e, queue, hand)
  BY <1>4, HandedOn
<1>5b. n = <<>> /\ n \in Seq(EventEntry) /\ b = TakeFoldsFinal(books) /\ d = [b EXCEPT !.queue = n]
  OBVIOUS
<1> HIDE DEF a, z, l, b, d, r, n
<1>5c. GoodBook(b) /\ b.terminal = TRUE /\ \A e \in EventIds : Places(b, e) = Places(books, e)
  BY <1>5b, TakenBooks
<1>5d. EmptiedAs(d, b, <<>>)
  BY <1>5b, <1>5c, Emptied
<1>5e. Taken(b) /\ Carries(r)
  BY Zenon, <1>5, <1>5c DEF Taken, Carries
<1>6. SealedAs(books')
  BY <1>5d, <1>5e, SealedBooks, <1>2
<1>6b. /\ GoodBook(books') /\ books'.queue = <<>> /\ books'.terminal
       /\ \A e \in EventIds : Places(books', e) = Places(books, e) + Count(batch, Holding(e)) + HeldIn(e, queue, hand)
  BY Zenon, <1>6 DEF SealedAs
<1>7. ControlInv' /\ LinesInv' /\ \A x : Waiting(x)' = If(x \in fresh)
  BY Zenon, <1>1, <1>2, SealedControl
<1>8. dropped \in [Controls -> Nat] /\ recounted \subseteq Controls
  BY <1>1 DEF PlacesInv
<1>9. dropped' \in [Controls -> Nat] /\ \A c \in Controls : dropped'[c] = dropped[c] + Of(l, c) /\ Of(l, c) \in Nat
  BY <1>2, <1>4, <1>8, CountDropsIs
<1>10. PlacesInv'
 <2>1. (confirmed \subseteq Controls /\ dropped \in [Controls -> Nat] /\ recounted \subseteq Controls /\ delivered \subseteq EventIds /\ uncounted \subseteq EventIds)'
   BY <1>1, <1>2, <1>9 DEF PlacesInv
 <2>2. ASSUME NEW c \in Controls PROVE (Waiting(c) + If(c \in confirmed) + dropped[c] = 1 + If(c \in recounted))'
  <3> DEFINE w == Waiting(c)
             f == If(c \in fresh)
             h == HeldIn(c, queue, hand)
             g == If(c \in confirmed)
             i == dropped[c]
             j == dropped'[c]
             k == If(c \in recounted)
  <3>1. w = f + h /\ w + g + i = 1 + k
    BY Zenon, <1>1 DEF Waiting, PlacesInv
  <3>2. j = i + h /\ h \in Nat
    BY Zenon, <1>4, <1>9
  <3>3. f \in Nat /\ g \in Nat /\ k \in Nat /\ i \in Nat
    BY <1>8, IfIs
  <3> HIDE DEF w, f, h, g, i, j, k
  <3>4. f + g + j = 1 + k  BY <3>1, <3>2, <3>3
  <3>5. QED BY Zenon, <1>2, <1>7, <3>4 DEF f, g, j, k
 <2>3. ASSUME NEW e \in EventIds PROVE (Waiting(e) + Places(books, e) + Owed(e) = 1)'
  <3> DEFINE w == Waiting(e)
             f == If(e \in fresh)
             h == HeldIn(e, queue, hand)
             x == Places(books, e)
             y == Places(books', e)
             c == Count(batch, Holding(e))
             u == Count(batch', Holding(e))
             g == If(e \in delivered)
             i == If(e \in uncounted)
  <3>1. w = f + h /\ w + x + Owed(e) = 1 /\ Owed(e) = c + g + i /\ Owed(e)' = u + g + i
    BY Zenon, <1>1, <1>2 DEF Waiting, PlacesInv, Owed
  <3>2. y = x + c + h  BY Zenon, <1>6b
  <3>3. u = 0  BY <1>2, CountEmpty
  <3>4. f \in Nat /\ g \in Nat /\ i \in Nat /\ h \in Nat /\ c \in Nat
    BY <1>1, IfIs, WaitingNat, OwedNat
  <3>5. x \in Nat  BY <1>1, PlacesNat DEF EventInv, GoodBook
  <3> DEFINE o == Owed(e)
             p == Owed(e)'
  <3> HIDE DEF w, f, h, x, y, c, u, g, i, o, p
  <3>6. f + y + p = 1
    BY <3>1, <3>2, <3>3, <3>4, <3>5 DEF o, p
  <3>7. QED BY Zenon, <1>7, <3>6 DEF f, y, p
 <2>4. QED BY Zenon, <2>1, <2>2, <2>3 DEF PlacesInv
<1>11. EventInv'
 <2>1. (batch \in Seq(EventEntry) /\ Len(batch) <= BatchSize)'
   BY <1>2, ReporterAssumption
 <2>2. (EventsInOrder(batch \o books.queue, fresh))'
  <3> DEFINE m == batch' \o books'.queue
  <3>1. DOMAIN m = {}
   <4>1. m = <<>> \o <<>>  BY Zenon, <1>2, <1>6b
   <4>2. QED BY <4>1
  <3> HIDE DEF m
  <3>2. EventsInOrder(m, fresh')  BY <3>1 DEF EventsInOrder, Rising, Under
  <3>3. QED BY Zenon, <3>2 DEF m
 <2>3. (closing = "open" => Len(books.queue) <= MaxQueueSize)'  BY <1>2
 <2>4. (GoodBook(books))'  BY Zenon, <1>6b
 <2>5. QED BY Zenon, <2>1, <2>2, <2>3, <2>4 DEF EventInv
<1>12. RecountInv'
 <2>1. \A c \in recounted' : dropped'[c] >= 1
  <3> TAKE c \in recounted'
  <3>1. c \in recounted /\ c \in Controls
    BY <1>2, <1>8
  <3>2. dropped[c] >= 1 /\ dropped[c] \in Nat
    BY <1>1, <1>8, <3>1 DEF RecountInv
  <3>3. QED BY <1>9, <3>1, <3>2
 <2>2. \A c \in recounted' : Expired'
   BY <1>1, <1>2 DEF RecountInv, Expired
 <2>3. QED BY Zenon, <1>2, <2>1, <2>2 DEF RecountInv
<1>13. CloseInv'
  BY <1>2, <1>6b DEF Stages, CloseInv
<1>14. QED BY Zenon, <1>7, <1>10, <1>11, <1>12, <1>13 DEF RepInv

(* At the start every half is still with its caller. *)
LEMMA Empty ==
  /\ \A S : <<>> \in Seq(S)
  /\ \A s \in Stages : [t \in Stages |-> <<>>][s] = <<>>
  /\ \A R, X : Rising(<<>> \o <<>>, R) /\ Under(<<>> \o <<>>, X, R)
<1>1. DOMAIN (<<>> \o <<>>) = {}  OBVIOUS
<1>2. QED BY <1>1 DEF Rising, Under

LEMMA NothingYet ==
  ASSUME Init
  PROVE  RepInv
<1>1. /\ fresh = AllIds /\ queue = [s \in Stages |-> <<>>] /\ hand = <<>> /\ batch = <<>> /\ phase = "idle" /\ round = NoRound
      /\ closing = "open" /\ deadline = "none" /\ confirmed = {} /\ dropped = [c \in Controls |-> 0] /\ delivered = {}
      /\ recounted = {} /\ uncounted = {}
      /\ books = [queue |-> <<>>, folds |-> <<>>, terminal |-> FALSE, drops |-> [e \in EventIds |-> 0]]
  BY DEF Init, AllIds
<1>2. \A s \in Stages : queue[s] = <<>>
  BY <1>1, Empty
<1>3. Queues(queue)
  BY <1>1, <1>2, Empty, ReporterAssumption DEF Queues
<1>4. ControlInv
  BY <1>1, NoRoundIs, QuotaIs, SendingNone, <1>3 DEF Stages, ControlInv
<1>5. LinesInv
  BY <1>1, <1>2, Empty DEF LinesInv, Stages, Line, LineIn, InOrder
<1>6. GoodBook(books) /\ books.queue = <<>> /\ books.folds = <<>> /\ books.drops = [e \in EventIds |-> 0]
 <2>1. books.queue = <<>> /\ books.folds = <<>> /\ books.drops = [e \in EventIds |-> 0] /\ books.terminal = FALSE
   BY <1>1
 <2>2. books \in BookSet
   BY <2>1, <1>1 DEF BookSet
 <2>3. UniqueKeys(books) /\ Len(books.folds) <= FoldLimit
   BY <2>1, ReporterAssumption DEF UniqueKeys
 <2>4. QED BY Zenon, <2>1, <2>2, <2>3 DEF GoodBook
<1>7. EventInv
 <2>1. batch \in Seq(EventEntry) /\ Len(batch) <= BatchSize
   BY <1>1, ReporterAssumption
 <2>2. Len(books.queue) <= MaxQueueSize  BY <1>6, ReporterAssumption
 <2>3. EventsInOrder(batch \o books.queue, fresh)
   BY <1>1, <1>6, Empty DEF EventsInOrder
 <2>4. QED BY Zenon, <1>6, <2>1, <2>2, <2>3 DEF EventInv
<1>8. ASSUME NEW x \in AllIds PROVE Waiting(x) = 1
 <2> DEFINE f == If(x \in fresh)
            h == HeldIn(x, queue, hand)
            p == Of(queue["confirms"], x)
            q == Of(queue["settlements"], x)
            r == Of(Claims(hand), x)
 <2>1. f = 1  BY <1>1, IfIs
 <2>2. p = 0 /\ q = 0
   BY Zenon, <1>2, OfNone DEF Stages
 <2>3. r = 0
   BY <1>1, OfNone DEF Claims
 <2>4. Waiting(x) = f + h /\ h = p + q + r
   BY Zenon DEF Waiting, HeldIn
 <2> DEFINE w == Waiting(x)
 <2>5. w = f + h  BY Zenon, <2>4
 <2> HIDE DEF f, h, p, q, r, w
 <2>6. w = 1  BY <2>1, <2>2, <2>3, <2>4, <2>5
 <2>7. QED BY Zenon, <2>6 DEF w
<1>9. PlacesInv
 <2>1. /\ confirmed \subseteq Controls /\ dropped \in [Controls -> Nat] /\ recounted \subseteq Controls
       /\ delivered \subseteq EventIds /\ uncounted \subseteq EventIds
   BY <1>1
 <2>2. ASSUME NEW c \in Controls PROVE Waiting(c) + If(c \in confirmed) + dropped[c] = 1 + If(c \in recounted)
   BY <1>8, IdsAre, <1>1, IfIs
 <2>3. ASSUME NEW e \in EventIds PROVE Waiting(e) + Places(books, e) + Owed(e) = 1
   BY <1>8, IdsAre, <1>1, IfIs, <1>6, CountEmpty DEF Owed, Places
 <2>4. QED BY Zenon, <2>1, <2>2, <2>3 DEF PlacesInv
<1>10. RecountInv  BY <1>1 DEF RecountInv
<1>11. CloseInv  BY <1>1 DEF CloseInv
<1>12. QED BY Zenon, <1>4, <1>5, <1>7, <1>9, <1>10, <1>11 DEF RepInv

LEMMA StutterStep ==
  ASSUME RepInv, UNCHANGED vars
  PROVE  RepInv'
<1>1. /\ ControlInv /\ LinesInv /\ EventInv /\ PlacesInv /\ RecountInv /\ CloseInv
  BY DEF RepInv
<1>2. /\ fresh' = fresh /\ queue' = queue /\ books' = books /\ hand' = hand /\ batch' = batch /\ phase' = phase /\ round' = round
      /\ closing' = closing /\ deadline' = deadline /\ confirmed' = confirmed /\ dropped' = dropped
      /\ delivered' = delivered /\ recounted' = recounted /\ uncounted' = uncounted
  BY DEF vars
<1>3. ControlInv'  BY Zenon, <1>1, <1>2 DEF ControlInv, Expired
<1>4. LinesInv'  BY Zenon, <1>1, <1>2 DEF LinesInv, Line
<1>5. EventInv'  BY Zenon, <1>1, <1>2 DEF EventInv
<1>6. PlacesInv'  BY Zenon, <1>1, <1>2 DEF PlacesInv, Waiting, Owed
<1>7. RecountInv'  BY Zenon, <1>1, <1>2 DEF RecountInv, Expired, LateHand
<1>8. CloseInv'  BY Zenon, <1>1, <1>2 DEF CloseInv
<1>9. QED BY Zenon, <1>3, <1>4, <1>5, <1>6, <1>7, <1>8 DEF RepInv

(***************************************************************************)
(* The invariant behind the four properties: what every variable holds,    *)
(* the order of every line with what is not handed in yet, where every     *)
(* half is, what a late refusal counted twice, and what close() leaves.    *)
(***************************************************************************)
THEOREM RepInvHolds == Spec => []RepInv
<1>1. Init => RepInv  BY NothingYet
<1>2. RepInv /\ [Next]_vars => RepInv'
 <2> SUFFICES ASSUME RepInv, [Next]_vars PROVE RepInv'
   OBVIOUS
 <2>1. CASE Callers
   BY ReportStep, ReportControlStep, ClockStep, <2>1 DEF Callers
 <2>2. CASE ConfirmAnswer
   BY <2>2, ConfirmSentStep, ConfirmHeldStep, ConfirmDroppedStep, ConfirmFailsStep, ConfirmLateStep DEF ConfirmAnswer
 <2>3. CASE BatchAnswer
   BY <2>3, BatchSentStep, BatchPartlyRejectedStep, BatchRefusedStep, BatchDroppedStep, BatchFailsStep DEF BatchAnswer
 <2>4. CASE Round
   BY <2>4, StartRoundStep, StageEndsStep, FinalResumesStep, ClaimBatchStep, EventsEndStep DEF Round
 <2>5. CASE Skip
   BY <2>5, FinalSkipsStep, FinalRateLimitedStep DEF Skip
 <2>6. CASE StartFinal
   BY <2>6, StartFinalStep
 <2>7. CASE WaitEnds
   BY <2>7, WaitEndsStep
 <2>8. CASE HoldEnds \/ ReportsEnd \/ DeadlinePasses
   BY <2>8, ClockStep
 <2>9. CASE Seal
   BY <2>9, SealStep
 <2>10. CASE UNCHANGED vars
   BY <2>10, StutterStep
 <2>11. QED BY <2>1, <2>2, <2>3, <2>4, <2>5, <2>6, <2>7, <2>8, <2>9, <2>10 DEF Next
<1>3. QED BY PTL, <1>1, <1>2 DEF Spec

(* Where the events of the books and of the claimed batch are counted. *)
LEMMA EventPlacesIs ==
  ASSUME RepInv, NEW e \in EventIds
  PROVE  EventPlaces(e) = Places(books, e) + Owed(e) /\ EventPlaces(e) \in Nat
<1> DEFINE a == In(books.queue, e)
           b == In(batch, e)
           d == books.drops[e]
           f == If(e \in delivered)
           g == Cardinality({k \in DOMAIN books.folds : e \in books.folds[k]})
           u == If(e \in uncounted)
           p == Places(books, e)
           o == Owed(e)
<1>1. books \in BookSet /\ batch \in Seq(EventEntry) /\ EventInv
  BY DEF RepInv, EventInv, GoodBook
<1>2. books.queue \in Seq(EventEntry) /\ books.folds \in Seq(Ids)
  BY <1>1, BookFields
<1>3. ASSUME NEW s \in Seq(EventEntry) PROVE In(s, e) = Count(s, Holding(e))
 <2>1. {i \in DOMAIN s : e \in s[i].of} = {i \in DOMAIN s : s[i] \in Holding(e)}  BY DEF Holding
 <2>2. QED BY Zenon, <2>1 DEF In, Count, Hits
<1>4. g = Count(books.folds, Folding(e))
 <2>1. {k \in DOMAIN books.folds : e \in books.folds[k]} = {k \in DOMAIN books.folds : books.folds[k] \in Folding(e)}
   BY <1>2 DEF Folding
 <2>2. QED BY Zenon, <2>1 DEF Count, Hits
<1>5. p = a + d + g  BY Zenon, <1>2, <1>3, <1>4 DEF Places
<1>6. o = b + f + u  BY Zenon, <1>1, <1>3 DEF Owed
<1>7. a \in Nat /\ d \in Nat /\ g \in Nat
  BY <1>1, PlacesNat, <1>2, <1>3, <1>4
<1>8. b \in Nat /\ f \in Nat /\ u \in Nat
  BY <1>1, OwedNat, <1>3
<1>9. EventPlaces(e) = a + b + d + f + g + u  BY Zenon DEF EventPlaces
<1> DEFINE z == EventPlaces(e)
<1> HIDE DEF a, b, d, f, g, u, p, o, z
<1>10. z = a + b + d + f + g + u  BY Zenon, <1>9 DEF z
<1>11. z = p + o /\ z \in Nat
  BY <1>5, <1>6, <1>7, <1>8, <1>10
<1>12. QED BY Zenon, <1>11 DEF z, p, o

(* Only a settlement waits with an event of its own, in its own queue. *)
LEMMA HeldEvent ==
  ASSUME RepInv, NEW e \in EventIds
  PROVE  /\ Of(queue["confirms"], e) = 0
         /\ e \in Events => HeldIn(e, queue, hand) = 0
<1>1. Queues(queue) /\ hand \in Seq(Hand) /\ ControlInv
  BY DEF RepInv, ControlInv
<1>2. queue["confirms"] \in Seq(Control) /\ queue["settlements"] \in Seq(Control) /\ Claims(hand) \in Seq(Control)
  BY <1>1, LineIs DEF Stages
<1>3. Of(queue["confirms"], e) = 0
 <2>1. queue["confirms"] \in Seq(Entry(IdsOf("confirms")))  BY <1>1 DEF Queues, Stages
 <2> DEFINE q == queue["confirms"]
 <2>2. \A i \in DOMAIN q : q[i].of \in Confirms
  <3> HIDE DEF q
  <3> SUFFICES ASSUME NEW i \in DOMAIN q PROVE q[i].of \in Confirms
    OBVIOUS
  <3>1. q[i] \in Entry(IdsOf("confirms"))  BY <2>1 DEF q
  <3>2. QED BY <3>1, IdsAre DEF Entry
 <2>3. QED BY <1>2, <2>2, OfIs, IdsAre
<1>4. ASSUME e \in Events PROVE HeldIn(e, queue, hand) = 0
 <2>1. ASSUME NEW s \in Seq(Control) PROVE Of(s, e) = 0
  <3>1. ASSUME NEW i \in DOMAIN s PROVE s[i].of \in Controls
   <4>1. s[i] \in Control  OBVIOUS
   <4>2. QED BY <4>1 DEF Control, Entry
  <3>2. QED BY <1>4, <3>1, OfIs, IdsAre
 <2> DEFINE a == Of(queue["confirms"], e)
            b == Of(queue["settlements"], e)
            c == Of(Claims(hand), e)
            h == HeldIn(e, queue, hand)
 <2>2. h = a + b + c  BY <1>1, WaitingNat
 <2>3. a = 0 /\ b = 0 /\ c = 0
   BY Zenon, <1>2, <2>1
 <2> HIDE DEF a, b, c, h
 <2>4. h = 0  BY <2>2, <2>3
 <2>5. QED BY Zenon, <2>4 DEF h
<1>5. QED BY <1>3, <1>4

LEMMA Conserved ==
  ASSUME RepInv
  PROVE  HalvesConserved
<1>1. ControlInv /\ PlacesInv
  BY DEF RepInv
<1>2. ASSUME NEW c \in Controls PROVE ConfirmPlaces(c) = 1 + If(c \in recounted)
  BY <1>1, WaitingNat, IfIs DEF ConfirmPlaces, PlacesInv
<1>3. ASSUME NEW e \in EventIds PROVE EventPlaces(e) + If(e \in fresh) + HeldIn(e, queue, hand) = 1
 <2> DEFINE f == If(e \in fresh)
            h == HeldIn(e, queue, hand)
            w == Waiting(e)
            z == EventPlaces(e)
            p == Places(books, e)
            o == Owed(e)
 <2>1. w = f + h /\ h \in Nat
   BY <1>1, WaitingNat
 <2>2. f \in Nat  BY IfIs
 <2>3. z = p + o /\ z \in Nat
   BY EventPlacesIs
 <2>4. w + p + o = 1  BY Zenon, <1>1 DEF PlacesInv
 <2>5. p \in Nat /\ o \in Nat
   BY PlacesNat, OwedNat DEF RepInv, EventInv, GoodBook
 <2> HIDE DEF f, h, w, z, p, o
 <2>6. z + f + h = 1  BY <2>1, <2>2, <2>3, <2>4, <2>5
 <2>7. QED BY Zenon, <2>6 DEF f, h, z
<1>4. ASSUME NEW e \in Events PROVE EventPlaces(e) + If(e \in fresh) = 1
  BY <1>3, HeldEvent, EventPlacesIs, IfIs DEF EventIds
<1>5. ASSUME NEW s \in Settlements PROVE EventPlaces(s) = If(~Undecided(s))
  BY <1>3, <1>1, WaitingNat, HeldEvent, EventPlacesIs, IfIs DEF EventIds, Undecided, If
<1>6. QED BY Zenon, <1>2, <1>4, <1>5 DEF HalvesConserved

LEMMA Ordered ==
  ASSUME RepInv
  PROVE  OrderKept
<1>1. ControlInv /\ LinesInv /\ EventInv
  BY DEF RepInv
<1>2. ASSUME NEW s \in Stages, NEW line, line = (IF phase = s THEN Claims(hand) ELSE <<>>) \o queue[s],
             NEW i \in DOMAIN line, NEW j \in DOMAIN line, i < j
      PROVE  line[i].of < line[j].of
  BY <1>2, <1>1 DEF Line, LineIn, LinesInv, InOrder, Rising, ControlOrder
<1>3. ASSUME NEW line, line = batch \o books.queue, NEW i \in DOMAIN line, NEW j \in DOMAIN line,
             i < j, Ordinary(line[i]), Ordinary(line[j])
      PROVE  Min(line[i].of) < Min(line[j].of)
  BY <1>1, <1>3 DEF EventInv, EventsInOrder, Rising, Ordinary, Plain, EventOrder
<1>4. QED BY Zenon, <1>2, <1>3 DEF OrderKept

LEMMA Capped ==
  ASSUME RepInv
  PROVE  CapsHold
BY DEF RepInv, ControlInv, EventInv, Queues, GoodBook, UniqueKeys, CapsHold

LEMMA Decided ==
  ASSUME RepInv, closing = "sealed"
  PROVE  /\ \A c \in Controls \ fresh : c \in confirmed \/ dropped[c] > 0
         /\ \A e \in EventIds \ fresh : books.drops[e] > 0 \/ e \in delivered \union uncounted
<1>1. ControlInv /\ PlacesInv /\ EventInv /\ CloseInv /\ GoodBook(books)
  BY DEF RepInv, EventInv
<1>2. /\ phase = "idle" /\ queue["confirms"] = <<>> /\ queue["settlements"] = <<>> /\ books.queue = <<>> /\ books.terminal
      /\ batch = <<>> /\ hand = <<>> /\ books.folds = <<>>
  BY <1>1 DEF CloseInv, ControlInv, GoodBook, Stages
<1>3. ASSUME NEW x PROVE HeldIn(x, queue, hand) = 0
  BY <1>2, <1>1, WaitingNat, OfNone DEF Claims
<1>4. ASSUME NEW x, x \notin fresh PROVE Waiting(x) = 0
  BY <1>1, WaitingNat, <1>4, IfIs, <1>3
<1>5. ASSUME NEW c \in Controls \ fresh PROVE c \in confirmed \/ dropped[c] > 0
  BY <1>1, <1>4, IfIs DEF PlacesInv
<1>6. ASSUME NEW e \in EventIds \ fresh PROVE books.drops[e] > 0 \/ e \in delivered \union uncounted
 <2> DEFINE w == Waiting(e)
            p == Places(books, e)
            o == Owed(e)
            d == books.drops[e]
            a == Count(books.queue, Holding(e))
            b == Count(batch, Holding(e))
            g == Count(books.folds, Folding(e))
            f == If(e \in delivered)
            u == If(e \in uncounted)
 <2>1. w + p + o = 1  BY Zenon, <1>1 DEF PlacesInv
 <2>2. w = 0  BY Zenon, <1>4
 <2>3. p = a + d + g /\ o = b + f + u
   BY Zenon DEF Places, Owed
 <2>4. a = 0 /\ b = 0 /\ g = 0
   BY Zenon, <1>2, CountEmpty
 <2>5. d \in Nat  BY <1>1, PlacesNat DEF GoodBook
 <2>6. (e \notin delivered => f = 0) /\ (e \notin uncounted => u = 0) /\ f \in Nat /\ u \in Nat
   BY IfIs
 <2> HIDE DEF w, p, o, d, a, b, g, f, u
 <2>7. d > 0 \/ e \in delivered \/ e \in uncounted
   BY <2>1, <2>2, <2>3, <2>4, <2>5, <2>6
 <2>8. QED BY <2>7 DEF d
<1>7. QED BY Zenon, <1>5, <1>6

(***************************************************************************)
(* Every half a caller hands in is in exactly one place from then on, and  *)
(* a settlement's event leaves it exactly when its confirm is decided,     *)
(* whatever the order of answers, retries, evictions, folds and the seal.  *)
(***************************************************************************)
THEOREM HalvesAreConserved == Spec => []HalvesConserved
BY PTL, RepInvHolds, Conserved

(***************************************************************************)
(* Whatever is claimed, retried, evicted or restored, the lines stay in    *)
(* the order of the callers.                                               *)
(***************************************************************************)
THEOREM OrderIsKept == Spec => []OrderKept
BY PTL, RepInvHolds, Ordered

(***************************************************************************)
(* No path through the reporter passes a cap, and no two folds share a     *)
(* key.                                                                    *)
(***************************************************************************)
THEOREM CapsAreHeld == Spec => []CapsHold
BY PTL, RepInvHolds, Capped

(***************************************************************************)
(* Once close() has sealed the reporter, every half that was handed in was *)
(* taken by the server or is counted.                                      *)
(***************************************************************************)
THEOREM TheSealDecidesAll == Spec => []SealDecidesAll
<1>1. RepInv => SealDecidesAll  BY Decided DEF SealDecidesAll
<1>2. QED BY PTL, RepInvHolds, <1>1

=============================================================================
