---------------------- MODULE ReleaseDispatcher_proofs ----------------------
(***************************************************************************)
(* The dispatcher implements Outcomes, keeps its slots and forgets nobody,     *)
(* for every number of submissions, payloads, workers and attempts, and any    *)
(* limits and budgets.                                                         *)
(*                                                                         *)
(* The methods pass a state d along.  Each is gone through twice.  First it is *)
(* shown to keep d Sound (nobody waits in two items, nobody who waits was      *)
(* told, queues hold submissions) and what it does to fates: that gives the    *)
(* refinement.  Then it is shown to keep the totals, the queues (the items     *)
(* that wait, each once and by deadline) and the slots: that gives Filed, the  *)
(* inductive invariant under SlotsAreHeld and NothingIsLost.                   *)
(***************************************************************************)
EXTENDS ReleaseDispatcher, FiniteSetTheorems, SequenceTheorems, TLAPS

ItemFields  == {"payload", "deadline", "closeTime", "callbacks", "attempt", "step", "result"}
StateFields == {"it", "q", "cq", "told", "counts", "active"}

(* A queue of items that exist. *)
QueueOf(it, q) ==
  /\ q \in Seq(Submission)
  /\ \A i \in 1 .. Len(q) : it[q[i]].step # "absent"

Items(it) ==
  /\ DOMAIN it = Submission
  /\ \A s \in Submission : DOMAIN it[s] = ItemFields /\ it[s].callbacks \subseteq Submission

(* Nobody waits in two items. *)
Apart(it) ==
  \A s, t \in Submission : s # t => it[s].callbacks \cap it[t].callbacks = {}

(* Who waits has submitted and was not told; who was told was told once. *)
Told(it, to) ==
  /\ to \in [Submission -> [times : Nat, outcome : {"none", "sent", "dropped"}]]
  /\ \A c \in Submission :
       /\ to[c].times \in {0, 1}
       /\ to[c].times = 1 => to[c].outcome \in {"sent", "dropped"} /\ it[c].step # "absent"
  /\ \A s, c \in Submission : c \in it[s].callbacks => to[c].times = 0 /\ it[c].step # "absent"

Sound(d) ==
  /\ DOMAIN d = StateFields
  /\ Items(d.it) /\ Apart(d.it) /\ Told(d.it, d.told)
  /\ QueueOf(d.it, d.q) /\ QueueOf(d.it, d.cq)

(* The fates that a state tells of. *)
FateIn(it, to, s) ==
  CASE to[s].times > 1 -> "twice"
    [] to[s].times = 1 -> to[s].outcome
    [] to[s].times = 0 -> IF it[s].step = "absent" THEN "unborn" ELSE "open"

(* e is d but for fates: those of cs fell to outcome. *)
Falls(d, e, cs, outcome) ==
  /\ cs \subseteq Submission
  /\ \A c \in cs : FateIn(d.it, d.told, c) = "open"
  /\ \A c \in Submission : FateIn(e.it, e.told, c) = IF c \in cs THEN outcome ELSE FateIn(d.it, d.told, c)

(* Who waits in the items ss. *)
Observers(it, ss) == UNION {it[s].callbacks : s \in ss}

LEMMA FateValues ==
  ASSUME NEW it, NEW to, Told(it, to), NEW c \in Submission
  PROVE  /\ FateIn(it, to, c) \in {"unborn", "open", "sent", "dropped"}
         /\ FateIn(it, to, c) = "unborn" <=> it[c].step = "absent"
         /\ FateIn(it, to, c) = "open" <=> (to[c].times = 0 /\ it[c].step # "absent")
         /\ to[c].times = 1 => FateIn(it, to, c) = to[c].outcome
<1>1. /\ to[c].times \in {0, 1}
      /\ to[c].times = 1 => to[c].outcome \in {"sent", "dropped"} /\ it[c].step # "absent"
  BY DEF Told
<1>2. CASE to[c].times = 0
  BY <1>2 DEF FateIn
<1>3. CASE to[c].times = 1
  BY <1>1, <1>3 DEF FateIn
<1>4. QED BY <1>1, <1>2, <1>3

-----------------------------------------------------------------------------
(* Items that are finished tell everyone who waits in them, once. *)
LEMMA FinishFalls ==
  ASSUME NEW d, Sound(d), NEW ss, ss \subseteq Submission, \A s \in ss : d.it[s].step # "absent",
         NEW outcome \in {"sent", "dropped"}
  PROVE  LET e  == Finish(d, ss, outcome)
             cs == Observers(d.it, ss)
         IN  /\ Sound(e) /\ Falls(d, e, cs, outcome)
             /\ e.q = d.q /\ e.cq = d.cq /\ e.active = d.active
             /\ \A s \in Submission : e.it[s].step = (IF s \in ss THEN "ended" ELSE d.it[s].step)
<1> DEFINE e  == Finish(d, ss, outcome)
           cs == UNION {d.it[s].callbacks : s \in ss}
           it == [s \in Submission |-> IF s \in ss THEN [NoItem EXCEPT !.step = "ended"] ELSE d.it[s]]
           to == [s \in Submission |-> IF s \in cs THEN [times |-> d.told[s].times + 1, outcome |-> outcome]
                                       ELSE d.told[s]]
<1>1. DOMAIN e = StateFields /\ e.it = it /\ e.told = to /\ e.q = d.q /\ e.cq = d.cq /\ e.active = d.active
  BY DEF Finish, Sound, StateFields
<1>2. /\ cs \subseteq Submission
      /\ \A c \in cs : d.told[c].times = 0 /\ d.it[c].step # "absent"
      /\ \A s \in Submission : s \notin ss => d.it[s].callbacks \cap cs = {}
  BY DEF Sound, Items, Told, Apart
<1>3. \A s \in ss : it[s].step = "ended" /\ it[s].callbacks = {} /\ DOMAIN it[s] = ItemFields
  BY DEF NoItem, ItemFields
<1>4. \A s \in Submission : s \notin ss => it[s] = d.it[s]
  OBVIOUS
<1>5. Items(it) /\ Apart(it)
  BY <1>3, <1>4 DEF Items, Apart, Sound
<1>6. \A c \in Submission : it[c].step = "absent" <=> d.it[c].step = "absent"
  BY <1>3, <1>4
<1>7. /\ \A c \in cs : to[c].times = 1 /\ to[c].outcome = outcome
      /\ \A c \in Submission : c \notin cs => to[c] = d.told[c]
  BY <1>2
<1>8. Told(it, to)
 <2>1. to \in [Submission -> [times : Nat, outcome : {"none", "sent", "dropped"}]]
   BY <1>2 DEF Sound, Told
 <2> HIDE DEF it, to, cs
 <2>2. \A s, c \in Submission : c \in it[s].callbacks => c \in d.it[s].callbacks /\ c \notin cs
   BY <1>2, <1>3, <1>4
 <2>3. QED BY <1>2, <1>6, <1>7, <2>1, <2>2 DEF Sound, Told
<1>9. QueueOf(it, d.q) /\ QueueOf(it, d.cq)
  BY <1>6, ElementOfSeq DEF QueueOf, Sound
<1> HIDE DEF it, to, cs, e
<1>10. Sound(e)  BY <1>1, <1>5, <1>8, <1>9 DEF Sound
<1>11. Falls(d, e, cs, outcome)
 <2>1. \A c \in cs : FateIn(d.it, d.told, c) = "open"
   BY <1>2, FateValues DEF Sound
 <2>2. \A c \in cs : FateIn(it, to, c) = outcome
   BY <1>2, <1>7, <1>8, FateValues
 <2>3. \A c \in Submission : c \notin cs => FateIn(it, to, c) = FateIn(d.it, d.told, c)
   BY <1>6, <1>7 DEF FateIn
 <2>4. QED BY <1>1, <1>2, <2>1, <2>2, <2>3 DEF Falls
<1>12. QED BY <1>1, <1>3, <1>4, <1>10, <1>11 DEF e, cs, Observers

-----------------------------------------------------------------------------
(* Queues *)

LEMMA QueuesStay ==
  ASSUME NEW it, NEW it2, NEW q, QueueOf(it, q),
         \A s \in Submission : it[s].step # "absent" => it2[s].step # "absent"
  PROVE  QueueOf(it2, q)
BY ElementOfSeq DEF QueueOf

LEMMA HeadOf ==
  ASSUME NEW it, NEW q, QueueOf(it, q), q # <<>>
  PROVE  Head(q) \in Submission /\ it[Head(q)].step # "absent" /\ QueueOf(it, Tail(q))
<1>1. q \in Seq(Submission)  BY DEF QueueOf
<1>2. Len(q) \in Nat \ {0}  BY <1>1, EmptySeq
<1>3. /\ Head(q) \in Submission /\ Tail(q) \in Seq(Submission)
      /\ Len(Tail(q)) = Len(q) - 1
      /\ \A i \in 1 .. Len(Tail(q)) : Tail(q)[i] = q[i + 1]
  BY <1>1, HeadTailProperties
<1>4. Head(q) = q[1]  BY <1>1, <1>2
<1>5. \A i \in 1 .. Len(Tail(q)) : i + 1 \in 1 .. Len(q)
  BY <1>2, <1>3
<1>6. \A i \in 1 .. Len(Tail(q)) : it[Tail(q)[i]].step # "absent"
  BY <1>3, <1>5 DEF QueueOf
<1>7. it[q[1]].step # "absent"  BY <1>2 DEF QueueOf
<1>8. QED BY <1>3, <1>4, <1>6, <1>7 DEF QueueOf

LEMMA AppendOf ==
  ASSUME NEW it, NEW q, QueueOf(it, q), NEW s \in Submission, it[s].step # "absent"
  PROVE  QueueOf(it, Append(q, s)) /\ Append(q, s) # <<>>
<1>1. q \in Seq(Submission) /\ Len(q) \in Nat
  BY LenProperties DEF QueueOf
<1>2. /\ Append(q, s) \in Seq(Submission) /\ Append(q, s) # <<>>
      /\ Len(Append(q, s)) = Len(q) + 1
      /\ \A i \in 1 .. Len(q) : Append(q, s)[i] = q[i]
      /\ Append(q, s)[Len(q) + 1] = s
  BY <1>1, AppendProperties
<1>3. \A i \in 1 .. Len(q) + 1 : i \in 1 .. Len(q) \/ i = Len(q) + 1
  BY <1>1
<1>4. QED BY <1>2, <1>3 DEF QueueOf

LEMMA ConcatOf ==
  ASSUME NEW it, NEW p, NEW q, QueueOf(it, p), QueueOf(it, q)
  PROVE  QueueOf(it, p \o q)
<1>1. /\ p \in Seq(Submission) /\ q \in Seq(Submission)
      /\ Len(p) \in Nat /\ Len(q) \in Nat
  BY LenProperties DEF QueueOf
<1>2. /\ p \o q \in Seq(Submission) /\ Len(p \o q) = Len(p) + Len(q)
      /\ \A i \in 1 .. Len(p) + Len(q) : (p \o q)[i] = IF i <= Len(p) THEN p[i] ELSE q[i - Len(p)]
  BY <1>1, ConcatProperties
<1>3. \A i \in 1 .. Len(p) + Len(q) : i <= Len(p) => i \in 1 .. Len(p)
  BY <1>1
<1>4. \A i \in 1 .. Len(p) + Len(q) : ~(i <= Len(p)) => i - Len(p) \in 1 .. Len(q)
  BY <1>1
<1>5. ASSUME NEW i \in 1 .. Len(p) + Len(q) PROVE it[(p \o q)[i]].step # "absent"
  BY <1>2, <1>3, <1>4 DEF QueueOf
<1>6. QED BY <1>2, <1>5 DEF QueueOf

(* What is overdue is a prefix, and the rest is a queue. *)
LEMMA OverdueOf ==
  ASSUME NEW it, NEW q, QueueOf(it, q)
  PROVE  /\ Overdue(it, q) \in 0 .. Len(q)
         /\ \A i \in 1 .. Overdue(it, q) : q[i] \in Submission /\ it[q[i]].step # "absent"
         /\ QueueOf(it, SubSeq(q, Overdue(it, q) + 1, Len(q)))
<1> DEFINE T == {i \in 1 .. Len(q) : \A j \in 1 .. i : it[q[j]].deadline <= now}
           n == Overdue(it, q)
           r == SubSeq(q, n + 1, Len(q))
<1>1. q \in Seq(Submission) /\ Len(q) \in Nat
  BY LenProperties DEF QueueOf
<1>2. IsFiniteSet(1 .. Len(q)) /\ Cardinality(1 .. Len(q)) = Len(q)
 <2>1. /\ IsFiniteSet(1 .. Len(q))
       /\ Cardinality(1 .. Len(q)) = IF 1 > Len(q) THEN 0 ELSE Len(q) - 1 + 1
   BY <1>1, FS_Interval
 <2>2. QED BY <1>1, <2>1
<1>3. T \in SUBSET (1 .. Len(q))  OBVIOUS
<1>4. n = Cardinality(T)  BY DEF Overdue
<1> HIDE DEF T, n
<1>5. IsFiniteSet(T) /\ Cardinality(T) <= Len(q)
  BY <1>2, <1>3, FS_Subset
<1>6. n \in 0 .. Len(q)  BY <1>1, <1>4, <1>5, FS_CardinalityType
<1>7. \A i \in 1 .. Len(q) : q[i] \in Submission /\ it[q[i]].step # "absent"
  BY <1>1, ElementOfSeq DEF QueueOf
<1>8. \A i \in 1 .. n : i \in 1 .. Len(q)
  BY <1>1, <1>6
<1>9. \A i \in n + 1 .. Len(q) : i \in 1 .. Len(q)
  BY <1>1, <1>6
<1>10. n + 1 \in Int /\ Len(q) \in Int
  BY <1>1, <1>6
<1>11. \A i \in n + 1 .. Len(q) : q[i] \in Submission
  BY <1>7, <1>9
<1>12. /\ r \in Seq(Submission)
       /\ Len(r) = IF n + 1 <= Len(q) THEN Len(q) - (n + 1) + 1 ELSE 0
       /\ \A i \in 1 .. Len(q) - (n + 1) + 1 : r[i] = q[(n + 1) + i - 1]
  BY ONLY <1>10, <1>11, SubSeqProperties DEF r
<1> HIDE DEF r
<1>13. ASSUME NEW i \in 1 .. Len(r) PROVE it[r[i]].step # "absent"
  BY <1>1, <1>6, <1>12, <1>7
<1>14. QueueOf(it, r)  BY <1>12, <1>13 DEF QueueOf
<1>15. QED BY <1>6, <1>7, <1>8, <1>14 DEF n, r

-----------------------------------------------------------------------------
(* The methods *)

(* What moves items without creating, finishing or joining any decides nothing. *)
LEMMA MovesStay ==
  ASSUME NEW d, Sound(d), NEW e, DOMAIN e = StateFields, e.told = d.told, Items(e.it),
         \A s \in Submission : /\ e.it[s].callbacks = d.it[s].callbacks
                               /\ e.it[s].step = "absent" <=> d.it[s].step = "absent",
         QueueOf(d.it, e.q), QueueOf(d.it, e.cq)
  PROVE  Sound(e) /\ Falls(d, e, {}, "dropped")
<1>5. Apart(d.it) /\ Told(d.it, d.told)
  BY DEF Sound
<1>6. Apart(e.it)  BY <1>5 DEF Apart
<1>7. \A s, c \in Submission : c \in e.it[s].callbacks => e.told[c].times = 0 /\ e.it[c].step # "absent"
  BY <1>5 DEF Told
<1>8. \A c \in Submission : /\ e.told[c].times \in {0, 1}
                            /\ e.told[c].times = 1 => e.told[c].outcome \in {"sent", "dropped"} /\ e.it[c].step # "absent"
  BY <1>5 DEF Told
<1>9. e.told \in [Submission -> [times : Nat, outcome : {"none", "sent", "dropped"}]]
  BY <1>5 DEF Told
<1>1. Apart(e.it) /\ Told(e.it, e.told)
  BY <1>6, <1>7, <1>8, <1>9 DEF Told
<1>10. \A s \in Submission : d.it[s].step # "absent" => e.it[s].step # "absent"
  OBVIOUS
<1>11. QueueOf(e.it, e.q)  BY <1>10, QueuesStay
<1>12. QueueOf(e.it, e.cq)  BY <1>10, QueuesStay
<1>2. QueueOf(e.it, e.q) /\ QueueOf(e.it, e.cq)
  BY <1>11, <1>12
<1>3. \A c \in Submission : FateIn(e.it, e.told, c) = FateIn(d.it, d.told, c)
  BY DEF FateIn
<1>4. QED BY <1>1, <1>2, <1>3 DEF Sound, Falls

LEMMA TakeStays ==
  ASSUME NEW d, Sound(d), d.cq # <<>> \/ d.q # <<>>
  PROVE  LET e == Take(d, Head1(d)) IN Sound(e) /\ Falls(d, e, {}, "dropped")
<1> DEFINE s == Head1(d)
           e == Take(d, s)
           it == [d.it EXCEPT ![s].step = "sending", ![s].attempt = 1]
<1>1. QueueOf(d.it, d.q) /\ QueueOf(d.it, d.cq) /\ Items(d.it) /\ DOMAIN d = StateFields
  BY DEF Sound
<1>2. s \in Submission /\ d.it[s].step # "absent"
  BY <1>1, HeadOf DEF Head1
<1>3. /\ DOMAIN e = StateFields /\ e.told = d.told /\ e.it = it
      /\ e.cq = IF d.cq # <<>> THEN Tail(d.cq) ELSE d.cq
      /\ e.q = IF d.cq = <<>> THEN Tail(d.q) ELSE d.q
  BY <1>1 DEF Take, StateFields
<1>4. QueueOf(d.it, e.q) /\ QueueOf(d.it, e.cq)
  BY <1>1, <1>3, HeadOf
<1> HIDE DEF s
<1>5. /\ DOMAIN it = Submission
      /\ \A t \in Submission : /\ DOMAIN it[t] = ItemFields /\ it[t].callbacks = d.it[t].callbacks
                               /\ it[t].step = IF t = s THEN "sending" ELSE d.it[t].step
  BY <1>1, <1>2 DEF Items, ItemFields
<1> HIDE DEF it, e
<1>6. Items(e.it)  BY <1>1, <1>3, <1>5 DEF Items
<1>7. Sound(e) /\ Falls(d, e, {}, "dropped")
  BY <1>2, <1>3, <1>4, <1>5, <1>6, MovesStay
<1>8. QED BY <1>7 DEF e, s

LEMMA ExpireFalls ==
  ASSUME NEW d, Sound(d)
  PROVE  LET e == Expire(d) IN Sound(e) /\ \E cs : Falls(d, e, cs, "dropped")
<1> DEFINE n == Overdue(d.it, d.cq)
           m == Overdue(d.it, d.q)
           ss == {d.cq[i] : i \in 1 .. n} \cup {d.q[i] : i \in 1 .. m}
           b == [d EXCEPT !.cq = SubSeq(@, n + 1, Len(@)), !.q = SubSeq(@, m + 1, Len(@))]
           cs == Observers(b.it, ss)
<1>1. QueueOf(d.it, d.q) /\ QueueOf(d.it, d.cq) /\ Items(d.it) /\ DOMAIN d = StateFields
  BY DEF Sound
<1>2. /\ DOMAIN b = StateFields /\ b.told = d.told /\ b.it = d.it
      /\ b.cq = SubSeq(d.cq, n + 1, Len(d.cq)) /\ b.q = SubSeq(d.q, m + 1, Len(d.q))
  BY <1>1 DEF StateFields
<1>3. QueueOf(d.it, b.q) /\ QueueOf(d.it, b.cq)
  BY <1>1, <1>2, OverdueOf
<1>4. ss \subseteq Submission /\ \A s \in ss : d.it[s].step # "absent"
  BY <1>1, OverdueOf
<1>5. Expire(d) = Finish(b, ss, "dropped")  BY DEF Expire
<1> HIDE DEF n, m, ss, b
<1>6. Sound(b) /\ Falls(d, b, {}, "dropped")
  BY <1>1, <1>2, <1>3, MovesStay
<1>7. Sound(Expire(d)) /\ Falls(b, Expire(d), cs, "dropped")
  BY <1>2, <1>4, <1>6, <1>5, FinishFalls
<1>8. Falls(d, Expire(d), cs, "dropped")  BY <1>6, <1>7 DEF Falls
<1>9. QED BY <1>7, <1>8

LEMMA PumpStays ==
  ASSUME NEW d, Sound(d), d.cq # <<>> \/ d.q # <<>>
  PROVE  LET e == Pump(d) IN Sound(e) /\ Falls(d, e, {}, "dropped")
<1>1. CASE d.active = Workers
  BY <1>1 DEF Pump, Falls
<1>2. CASE d.active # Workers
  BY <1>2, MovesStay, TakeStays DEF Sound, StateFields, Head1, Pump, Falls
<1>3. QED BY <1>1, <1>2

-----------------------------------------------------------------------------
(* Handing over *)

(* e is d but for s, which was not handed over yet and has the given fate. *)
HandsOver(d, e, s, f) ==
  /\ FateIn(d.it, d.told, s) = "unborn"
  /\ \A c \in Submission : FateIn(e.it, e.told, c) = IF c = s THEN f ELSE FateIn(d.it, d.told, c)

Joined(d, s, t) ==
  [d EXCEPT !.it[s] = [NoItem EXCEPT !.step = "merged"], !.it[t].callbacks = @ \cup {s},
            !.counts.merged = @ + 1]

Born(d, s, p, deadline, closeTime) ==
  [d EXCEPT
     !.it[s] = [NoItem EXCEPT !.payload = p, !.deadline = deadline, !.closeTime = closeTime,
                              !.callbacks = {s}, !.step = "queued"],
     !.counts.enqueued = @ + 1]

LEMMA Unborn ==
  ASSUME NEW d, Sound(d), NEW s \in Submission, d.it[s].step = "absent"
  PROVE  /\ d.told[s].times = 0 /\ FateIn(d.it, d.told, s) = "unborn"
         /\ \A t \in Submission : s \notin d.it[t].callbacks
<1>1. d.told[s].times = 0 /\ \A t \in Submission : s \notin d.it[t].callbacks
  BY DEF Sound, Told
<1>2. QED BY <1>1, FateValues DEF Sound

LEMMA JoinHandsOver ==
  ASSUME NEW d, Sound(d), NEW s \in Submission, NEW t \in Submission,
         d.it[s].step = "absent", d.it[t].step # "absent"
  PROVE  LET e == Joined(d, s, t) IN Sound(e) /\ HandsOver(d, e, s, "open")
<1> DEFINE e == Joined(d, s, t)
<1>1. /\ DOMAIN d = StateFields /\ Items(d.it) /\ s # t
  BY DEF Sound
<1>2. /\ DOMAIN e = StateFields /\ e.told = d.told /\ e.q = d.q /\ e.cq = d.cq
      /\ DOMAIN e.it = Submission
      /\ e.it[s] = [NoItem EXCEPT !.step = "merged"]
      /\ e.it[t] = [d.it[t] EXCEPT !.callbacks = @ \cup {s}]
      /\ \A c \in Submission : c # s /\ c # t => e.it[c] = d.it[c]
  BY <1>1 DEF Joined, StateFields, Items
<1> HIDE DEF e
<1>3. /\ DOMAIN e.it[s] = ItemFields /\ e.it[s].callbacks = {} /\ e.it[s].step = "merged"
      /\ DOMAIN e.it[t] = ItemFields /\ e.it[t].callbacks = d.it[t].callbacks \cup {s}
      /\ e.it[t].step = d.it[t].step
  BY <1>1, <1>2 DEF NoItem, Items, ItemFields
<1>4. Items(e.it)
 <2>1. d.it[t].callbacks \cup {s} \subseteq Submission  BY <1>1 DEF Items
 <2>2. \A c \in Submission : c # s /\ c # t =>
         DOMAIN e.it[c] = ItemFields /\ e.it[c].callbacks \subseteq Submission
   BY <1>1, <1>2 DEF Items
 <2>3. QED BY <1>2, <1>3, <2>1, <2>2 DEF Items
<1>5. d.told[s].times = 0 /\ \A c \in Submission : s \notin d.it[c].callbacks
  BY Unborn
<1>6. \A c \in Submission : e.it[c].callbacks \subseteq d.it[c].callbacks \cup (IF c = t THEN {s} ELSE {})
  BY <1>2, <1>3
<1>7. Apart(e.it)
  BY <1>5, <1>6 DEF Apart, Sound
<1>8. \A c \in Submission : d.it[c].step # "absent" => e.it[c].step # "absent"
  BY <1>2, <1>3
<1>9. Told(e.it, e.told)
 <2>3. Told(d.it, d.told)  BY DEF Sound
 <2>1. ASSUME NEW a \in Submission, NEW c \in Submission, c \in e.it[a].callbacks
       PROVE  e.told[c].times = 0 /\ e.it[c].step # "absent"
  <3>1. CASE c = s
    BY <1>2, <1>3, <1>5, <3>1
  <3>2. CASE c # s
    BY <1>6, <2>1, <3>2, <2>3, <1>2, <1>8 DEF Told
  <3>3. QED BY <3>1, <3>2
 <2>4. \A c \in Submission : /\ e.told[c].times \in {0, 1}
                             /\ e.told[c].times = 1 => e.told[c].outcome \in {"sent", "dropped"} /\ e.it[c].step # "absent"
   BY <1>2, <1>8, <2>3 DEF Told
 <2>5. e.told \in [Submission -> [times : Nat, outcome : {"none", "sent", "dropped"}]]
   BY <1>2, <2>3 DEF Told
 <2>2. QED BY <2>1, <2>4, <2>5 DEF Told
<1>10. QueueOf(e.it, e.q) /\ QueueOf(e.it, e.cq)
  BY <1>2, <1>8, QueuesStay DEF Sound
<1>11. HandsOver(d, e, s, "open")
 <2>1. FateIn(e.it, e.told, s) = "open"  BY <1>2, <1>3, <1>5 DEF FateIn
 <2>2. \A c \in Submission : c # s => FateIn(e.it, e.told, c) = FateIn(d.it, d.told, c)
   BY <1>2, <1>3 DEF FateIn
 <2>3. QED BY <2>1, <2>2, Unborn DEF HandsOver
<1>12. QED BY <1>2, <1>4, <1>7, <1>9, <1>10, <1>11 DEF Sound, e

LEMMA BirthHandsOver ==
  ASSUME NEW d, Sound(d), NEW s \in Submission, d.it[s].step = "absent",
         NEW p, NEW deadline, NEW closeTime
  PROVE  LET e == Born(d, s, p, deadline, closeTime)
         IN  /\ Sound(e) /\ HandsOver(d, e, s, "open")
             /\ e.it[s].callbacks = {s} /\ e.it[s].step # "absent"
<1> DEFINE e == Born(d, s, p, deadline, closeTime)
<1>1. DOMAIN d = StateFields /\ Items(d.it)
  BY DEF Sound
<1>2. /\ DOMAIN e = StateFields /\ e.told = d.told /\ e.q = d.q /\ e.cq = d.cq
      /\ DOMAIN e.it = Submission
      /\ e.it[s] = [NoItem EXCEPT !.payload = p, !.deadline = deadline, !.closeTime = closeTime,
                                  !.callbacks = {s}, !.step = "queued"]
      /\ \A c \in Submission : c # s => e.it[c] = d.it[c]
  BY <1>1 DEF Born, StateFields, Items
<1> HIDE DEF e
<1>3. DOMAIN e.it[s] = ItemFields /\ e.it[s].callbacks = {s} /\ e.it[s].step = "queued"
  BY <1>2 DEF NoItem, ItemFields
<1>4. Items(e.it)  BY <1>1, <1>2, <1>3 DEF Items
<1>5. d.told[s].times = 0 /\ \A c \in Submission : s \notin d.it[c].callbacks
  BY Unborn
<1>6. Apart(e.it)
 <2>1. \A a, b \in Submission : a # b /\ a # s /\ b # s => e.it[a].callbacks \cap e.it[b].callbacks = {}
   BY <1>2 DEF Sound, Apart
 <2>2. \A a \in Submission : a # s => e.it[a].callbacks \cap e.it[s].callbacks = {}
   BY <1>2, <1>3, <1>5
 <2>3. QED BY <2>1, <2>2 DEF Apart
<1>7. \A c \in Submission : d.it[c].step # "absent" => e.it[c].step # "absent"
  BY <1>2, <1>3
<1>8. Told(e.it, e.told)
 <2>3. Told(d.it, d.told)  BY DEF Sound
 <2>1. ASSUME NEW a \in Submission, NEW c \in Submission, c \in e.it[a].callbacks
       PROVE  e.told[c].times = 0 /\ e.it[c].step # "absent"
  <3>1. CASE c = s
    BY <1>2, <1>3, <1>5, <3>1
  <3>2. CASE c # s
   <4>1. c \in d.it[a].callbacks
    <5>1. a # s  BY <1>3, <2>1, <3>2
    <5>2. QED BY <1>2, <2>1, <5>1
   <4>2. d.told[c].times = 0 /\ d.it[c].step # "absent"
     BY <2>3, <4>1 DEF Told
   <4>3. QED BY <1>2, <1>7, <4>2
  <3>3. QED BY <3>1, <3>2
 <2>4. \A c \in Submission : /\ e.told[c].times \in {0, 1}
                             /\ e.told[c].times = 1 => e.told[c].outcome \in {"sent", "dropped"} /\ e.it[c].step # "absent"
   BY <1>2, <1>7, <2>3 DEF Told
 <2>5. e.told \in [Submission -> [times : Nat, outcome : {"none", "sent", "dropped"}]]
   BY <1>2, <2>3 DEF Told
 <2>2. QED BY <2>1, <2>4, <2>5 DEF Told
<1>9. QueueOf(e.it, e.q) /\ QueueOf(e.it, e.cq)
  BY <1>2, <1>7, QueuesStay DEF Sound
<1>10. HandsOver(d, e, s, "open")
 <2>1. FateIn(e.it, e.told, s) = "open"  BY <1>2, <1>3, <1>5 DEF FateIn
 <2>2. \A c \in Submission : c # s => FateIn(e.it, e.told, c) = FateIn(d.it, d.told, c)
   BY <1>2 DEF FateIn
 <2>3. QED BY <2>1, <2>2, Unborn DEF HandsOver
<1>11. QED BY <1>2, <1>3, <1>4, <1>6, <1>8, <1>9, <1>10 DEF Sound, e

-----------------------------------------------------------------------------
(* The actions: whatever an action composes is a decision or a hand-over. *)

Fates == [s \in Submission |-> Fate(s)]

Sane == Sound(State)

LEMMA StateIs ==
  /\ DOMAIN State = StateFields
  /\ State.it = item /\ State.q = queue /\ State.cq = closeQueue /\ State.told = told
BY DEF State, StateFields

LEMMA Became ==
  ASSUME NEW d, DOMAIN d = StateFields, Becomes(d)
  PROVE  /\ State' = [it |-> d.it, q |-> d.q, cq |-> d.cq, told |-> d.told, counts |-> d.counts,
                      active |-> d.active]
         /\ Sound(d) => Sane'
         /\ \A c \in Submission : Fate(c)' = FateIn(d.it, d.told, c)
<1>1. /\ State' = [it |-> d.it, q |-> d.q, cq |-> d.cq, told |-> d.told, counts |-> d.counts,
                   active |-> d.active]
      /\ State'.it = d.it /\ State'.q = d.q /\ State'.cq = d.cq /\ State'.told = d.told
      /\ DOMAIN State' = StateFields
  BY DEF Becomes, State, StateFields
<1>2. Sound(d) => Sound(State')  BY <1>1 DEF Sound
<1>3. item' = d.it /\ told' = d.told
  BY DEF Becomes
<1>4. \A c \in Submission : Fate(c)' = FateIn(d.it, d.told, c)
  BY <1>3 DEF Fate, FateIn
<1>5. QED BY <1>1, <1>2, <1>4 DEF Sane

LEMMA FatesNow ==
  ASSUME Sane
  PROVE  /\ Fates \in [Submission -> {"unborn", "open", "sent", "dropped"}]
         /\ \A c \in Submission : Fates[c] = FateIn(State.it, State.told, c)
<1>1. Told(item, told)  BY StateIs DEF Sane, Sound
<1>2. \A c \in Submission : Fate(c) = FateIn(item, told, c)
  BY DEF Fate, FateIn
<1>3. QED BY <1>1, <1>2, FateValues, StateIs DEF Fates

LEMMA DecideStep ==
  ASSUME Sane, NEW d, Sound(d), Becomes(d), NEW cs, NEW outcome \in {"sent", "dropped"},
         Falls(State, d, cs, outcome)
  PROVE  Sane' /\ Promise!Decide
<1>1. /\ \A c \in cs : c \in Submission /\ Fates[c] = "open"
      /\ \A c \in Submission : Fate(c)' = IF c \in cs THEN outcome ELSE Fates[c]
  BY Became, FatesNow DEF Falls, Sound
<1>2. cs \in SUBSET {c \in Submission : Fates[c] = "open"}  BY <1>1
<1>3. Fates' = [c \in Submission |-> IF c \in cs THEN outcome ELSE Fates[c]]
  BY <1>1 DEF Fates
<1>4. Promise!Decide  BY <1>2, <1>3 DEF Promise!Decide, Fates
<1>5. QED BY <1>4, Became DEF Sound

LEMMA HandOverStep ==
  ASSUME Sane, NEW d, NEW cs, Falls(State, d, cs, "dropped"),
         NEW s \in Submission, NEW f \in {"open", "dropped"},
         NEW e, Sound(e), Becomes(e), HandsOver(d, e, s, f)
  PROVE  Sane' /\ Promise!HandOverAndExpire(s)
<1>1. /\ \A c \in cs : c \in Submission /\ Fates[c] = "open"
      /\ \A c \in Submission : FateIn(d.it, d.told, c) = IF c \in cs THEN "dropped" ELSE Fates[c]
  BY FatesNow DEF Falls
<1>2. s \notin cs /\ Fates[s] = "unborn"
  BY <1>1 DEF HandsOver
<1>3. \A c \in Submission : Fate(c)' = IF c = s THEN f ELSE IF c \in cs THEN "dropped" ELSE Fates[c]
  BY <1>1, Became DEF HandsOver, Sound
<1>4. Fates' = [c \in Submission |-> IF c = s THEN f ELSE IF c \in cs THEN "dropped" ELSE Fates[c]]
  BY <1>3 DEF Fates
<1>5. cs \in SUBSET {c \in Submission : Fates[c] = "open"}  BY <1>1
<1>6. Promise!HandOverAndExpire(s)  BY <1>2, <1>4, <1>5 DEF Promise!HandOverAndExpire, Fates
<1>7. QED BY <1>6, Became DEF Sound

LEMMA SubmitHandsOver ==
  ASSUME Sane, NEW s \in Submission, Submit(s)
  PROVE  Sane' /\ Promise!HandOverAndExpire(s)
<1>7. PICK p \in Payload, closeTime \in BOOLEAN :
        LET d == Expire(State)
            deadline == IF closeTime THEN closeBy ELSE now + Budget
            born == [d EXCEPT
                      !.it[s] = [NoItem EXCEPT !.payload = p, !.deadline = deadline,
                                               !.closeTime = closeTime, !.callbacks = {s},
                                               !.step = "queued"],
                      !.counts.enqueued = @ + 1]
            pending == Len(d.q) + Len(d.cq)
        IN  /\ item[s].step = "absent"
            /\ closeTime => closing = "draining"
            /\ \/ \E t \in LiveItems(d.it, p) :
                    Becomes([d EXCEPT !.it[s] = [NoItem EXCEPT !.step = "merged"], !.it[t].callbacks = @ \cup {s},
                          !.counts.merged = @ + 1])
               \/ /\ LiveItems(d.it, p) = {}
                  /\ \/ deadline <= now \/ (~closeTime /\ pending >= MaxPending)
                  /\ Becomes(Finish(born, {s}, "dropped"))
               \/ /\ LiveItems(d.it, p) = {}
                  /\ deadline > now /\ (closeTime \/ pending < MaxPending)
                  /\ Becomes(Pump(IF closeTime THEN [born EXCEPT !.cq = Append(@, s)]
                                               ELSE [born EXCEPT !.q = Append(@, s)]))
            /\ UNCHANGED <<now, ready, closing, closeBy, idle>>
  BY Zenon DEF Submit
<1> DEFINE d == Expire(State)
<1>1. PICK cs : Falls(State, d, cs, "dropped")
  BY ExpireFalls DEF Sane
<1>2. Sound(d)  BY ExpireFalls DEF Sane
<1>3. item[s].step = "absent"  BY DEF Submit
<1>4. FateIn(State.it, State.told, s) = "unborn"  BY <1>3, StateIs, Unborn DEF Sane
<1>5. FateIn(d.it, d.told, s) = "unborn"  BY <1>1, <1>4 DEF Falls
<1>6. d.it[s].step = "absent"  BY <1>2, <1>5, FateValues DEF Sound
<1> DEFINE deadline == IF closeTime THEN closeBy ELSE now + Budget
           born == Born(d, s, p, deadline, closeTime)
<1>14. \/ \E t \in LiveItems(d.it, p) : Becomes(Joined(d, s, t))
       \/ Becomes(Finish(born, {s}, "dropped"))
       \/ Becomes(Pump(IF closeTime THEN [born EXCEPT !.cq = Append(@, s)]
                                    ELSE [born EXCEPT !.q = Append(@, s)]))
  BY <1>7, Zenon DEF Joined, Born
<1> HIDE DEF d
<1>8. ASSUME NEW t \in LiveItems(d.it, p), Becomes(Joined(d, s, t))
      PROVE  Sane' /\ Promise!HandOverAndExpire(s)
  BY <1>8, <1>2, <1>6, JoinHandsOver, <1>1, HandOverStep DEF LiveItems
<1>9. /\ Sound(born) /\ HandsOver(d, born, s, "open")
      /\ born.it[s].callbacks = {s} /\ born.it[s].step # "absent"
  BY <1>2, <1>6, BirthHandsOver
<1> HIDE DEF born
<1>10. ASSUME Becomes(Finish(born, {s}, "dropped"))
       PROVE  Sane' /\ Promise!HandOverAndExpire(s)
 <2> DEFINE e == Finish(born, {s}, "dropped")
 <2>1. Observers(born.it, {s}) = {s}  BY <1>9 DEF Observers
 <2>2. Sound(e) /\ Falls(born, e, Observers(born.it, {s}), "dropped")
   BY <1>9, FinishFalls
 <2> HIDE DEF e
 <2>3. HandsOver(d, e, s, "dropped")  BY <1>9, <2>1, <2>2 DEF HandsOver, Falls
 <2>4. Becomes(e)  BY <1>10 DEF e
 <2>5. QED BY <1>1, <2>2, <2>3, <2>4, HandOverStep
<1>11. ASSUME NEW b, DOMAIN b = StateFields, b.it = born.it, b.told = born.told,
              \/ b.cq = Append(born.cq, s) /\ b.q = born.q
              \/ b.q = Append(born.q, s) /\ b.cq = born.cq,
              Becomes(Pump(b))
       PROVE  Sane' /\ Promise!HandOverAndExpire(s)
 <2>1. /\ QueueOf(born.it, b.q) /\ QueueOf(born.it, b.cq) /\ Items(born.it)
       /\ b.cq # <<>> \/ b.q # <<>>
  <3>1. QueueOf(born.it, born.q) /\ QueueOf(born.it, born.cq) /\ Items(born.it)
    BY <1>9 DEF Sound
  <3>2. QueueOf(born.it, Append(born.cq, s)) /\ Append(born.cq, s) # <<>>
    BY <1>9, <3>1, AppendOf
  <3>3. QueueOf(born.it, Append(born.q, s)) /\ Append(born.q, s) # <<>>
    BY <1>9, <3>1, AppendOf
  <3>4. QED BY <1>11, <3>1, <3>2, <3>3
 <2>2. Sound(b)  BY <1>9, <1>11, <2>1 DEF Sound
 <2>3. Sound(Pump(b)) /\ Falls(b, Pump(b), {}, "dropped")
   BY <2>1, <2>2, PumpStays
 <2>4. HandsOver(d, Pump(b), s, "open")  BY <1>9, <1>11, <2>3 DEF HandsOver, Falls
 <2>5. QED BY <1>1, <1>11, <2>3, <2>4, HandOverStep
<1>12. ASSUME Becomes(Pump(IF closeTime THEN [born EXCEPT !.cq = Append(@, s)]
                                        ELSE [born EXCEPT !.q = Append(@, s)]))
       PROVE  Sane' /\ Promise!HandOverAndExpire(s)
 <2>1. DOMAIN born = StateFields  BY <1>9 DEF Sound
 <2>2. CASE closeTime
   BY <2>1, <1>12, <2>2, <1>11 DEF StateFields
 <2>3. CASE ~closeTime
   BY <2>1, <1>12, <2>3, <1>11 DEF StateFields
 <2>4. QED BY <2>2, <2>3
<1>13. QED BY <1>8, <1>10, <1>12, <1>14

(* An action that only moves items. *)
LEMMA MoveStep ==
  ASSUME Sane, told' = told, Items(item'),
         \A s \in Submission : /\ item'[s].callbacks = item[s].callbacks
                               /\ item'[s].step = "absent" <=> item[s].step = "absent",
         QueueOf(item, queue'), QueueOf(item, closeQueue')
  PROVE  Sane' /\ Promise!Decide
<1> DEFINE e == [it |-> item', q |-> queue', cq |-> closeQueue', told |-> told',
                 counts |-> counts', active |-> active']
<1>1. /\ DOMAIN e = StateFields /\ Becomes(e)
      /\ e.it = item' /\ e.q = queue' /\ e.cq = closeQueue' /\ e.told = told'
  BY DEF StateFields, Becomes
<1> HIDE DEF e
<1>2. Sound(e) /\ Falls(State, e, {}, "dropped")
  BY <1>1, MovesStay, StateIs DEF Sane
<1>3. QED BY <1>1, <1>2, DecideStep

LEMMA AttemptEndsStep ==
  ASSUME Sane, NEW s \in Submission, AttemptEnds(s)
  PROVE  Sane' /\ Promise!Decide
<1>1. Items(item) /\ QueueOf(item, queue) /\ QueueOf(item, closeQueue)
  BY StateIs DEF Sane, Sound
<1>2. PICK x \in Result : item' = [item EXCEPT ![s].step = "held", ![s].result = x]
  BY DEF AttemptEnds
<1>3. item[s].step = "sending" /\ told' = told /\ queue' = queue /\ closeQueue' = closeQueue
  BY DEF AttemptEnds
<1>4. /\ DOMAIN item' = Submission
      /\ \A t \in Submission : /\ DOMAIN item'[t] = ItemFields /\ item'[t].callbacks = item[t].callbacks
                               /\ item'[t].step = IF t = s THEN "held" ELSE item[t].step
  BY <1>1, <1>2 DEF Items, ItemFields
<1>5. Items(item')  BY <1>1, <1>4 DEF Items
<1>6. \A t \in Submission : /\ item'[t].callbacks = item[t].callbacks
                            /\ item'[t].step = "absent" <=> item[t].step = "absent"
  BY <1>3, <1>4
<1>7. QED BY <1>1, <1>3, <1>5, <1>6, MoveStep

LEMMA SettledStep ==
  ASSUME Sane, NEW s \in Submission, Settled(s)
  PROVE  Sane' /\ Promise!Decide
<1>1. Items(item) /\ QueueOf(item, queue) /\ QueueOf(item, closeQueue) /\ Sound(State)
  BY StateIs DEF Sane, Sound
<1>2. item[s].step = "held"  BY DEF Settled
<1>3. \/ /\ item' = [item EXCEPT ![s].step = "sending", ![s].attempt = @ + 1]
         /\ told' = told /\ queue' = queue /\ closeQueue' = closeQueue
      \/ Becomes(Finish(State, {s}, IF item[s].result = "sent" THEN "sent" ELSE "dropped"))
  BY DEF Settled
<1>4. ASSUME item' = [item EXCEPT ![s].step = "sending", ![s].attempt = @ + 1],
             told' = told, queue' = queue, closeQueue' = closeQueue
      PROVE  Sane' /\ Promise!Decide
  BY <1>1, <1>4, <1>2, MoveStep DEF Items, ItemFields
<1>5. ASSUME NEW outcome \in {"sent", "dropped"}, Becomes(Finish(State, {s}, outcome))
      PROVE  Sane' /\ Promise!Decide
  BY <1>2, StateIs, <1>1, FinishFalls, <1>5, DecideStep
<1>6. QED BY <1>3, <1>4, <1>5

LEMMA WorkerNextStep ==
  ASSUME Sane, WorkerNext
  PROVE  Sane' /\ Promise!Decide
<1> DEFINE e == Expire(State)
           d == IF e.cq = <<>> /\ e.q = <<>> THEN [e EXCEPT !.active = @ - 1] ELSE Take(e, Head1(e))
<1>1. PICK cs : Falls(State, e, cs, "dropped")
  BY ExpireFalls DEF Sane
<1>2. Sound(e)  BY ExpireFalls DEF Sane
<1>3. Becomes(d)  BY DEF WorkerNext
<1> HIDE DEF e
<1>4. Sound(d) /\ Falls(e, d, {}, "dropped")
 <2>1. CASE e.cq = <<>> /\ e.q = <<>>
   BY <1>2, <2>1, MovesStay DEF Sound, StateFields
 <2>2. CASE ~(e.cq = <<>> /\ e.q = <<>>)
   BY <1>2, <2>2, TakeStays
 <2>3. QED BY <2>1, <2>2
<1> HIDE DEF d
<1>5. Falls(State, d, cs, "dropped")  BY <1>1, <1>4 DEF Falls
<1>6. QED BY <1>3, <1>4, <1>5, DecideStep

LEMMA CloseStep ==
  ASSUME Sane, Close
  PROVE  Sane' /\ Promise!Decide
<1>1. Items(item) /\ QueueOf(item, queue) /\ QueueOf(item, closeQueue)
  BY StateIs DEF Sane, Sound
<1>2. /\ item' = Clamp(item, closeBy') /\ told' = told
      /\ closeQueue' = closeQueue \o queue /\ queue' = <<>>
  BY DEF Close
<1>3. /\ DOMAIN item' = Submission
      /\ \A s \in Submission : /\ DOMAIN item'[s] = ItemFields /\ item'[s].callbacks = item[s].callbacks
                               /\ item'[s].step = item[s].step
  BY <1>1, <1>2 DEF Clamp, Items, ItemFields
<1>4. Items(item')  BY <1>1, <1>3 DEF Items
<1>5. QueueOf(item, closeQueue')  BY <1>1, <1>2, ConcatOf
<1>6. QueueOf(item, queue')  BY <1>2 DEF QueueOf
<1>7. QED BY <1>2, <1>3, <1>4, <1>5, <1>6, MoveStep

LEMMA FinishCloseStep ==
  ASSUME Sane, FinishClose
  PROVE  Sane' /\ Promise!Decide
<1> DEFINE b == [State EXCEPT !.cq = <<>>]
           ss == Range(closeQueue)
           e == Finish(b, ss, "dropped")
<1>1. QueueOf(item, queue) /\ QueueOf(item, closeQueue) /\ Sound(State) /\ Items(item)
  BY StateIs DEF Sane, Sound
<1>2. Becomes(e)  BY DEF FinishClose
<1>3. ss \subseteq Submission /\ \A s \in ss : item[s].step # "absent"
  BY <1>1, LenProperties, ElementOfSeq DEF QueueOf, Range
<1>4. DOMAIN b = StateFields /\ b.it = item /\ b.told = told /\ b.q = queue /\ b.cq = <<>>
  BY StateIs DEF StateFields
<1>5. QueueOf(item, <<>>)  BY DEF QueueOf
<1> HIDE DEF b, ss
<1>6. Sound(b) /\ Falls(State, b, {}, "dropped")
  BY <1>1, <1>4, <1>5, StateIs, MovesStay
<1>7. Sound(e) /\ Falls(b, e, Observers(b.it, ss), "dropped")
  BY <1>3, <1>4, <1>6, FinishFalls
<1> HIDE DEF e
<1>8. Falls(State, e, Observers(b.it, ss), "dropped")  BY <1>6, <1>7 DEF Falls
<1>9. QED BY <1>2, <1>7, <1>8, DecideStep

LEMMA StillStep ==
  ASSUME Sane, UNCHANGED <<item, queue, closeQueue, told>>
  PROVE  Sane' /\ Fates' = Fates
<1>1. Sane'  BY DEF Sane, Sound, State, StateFields
<1>2. QED BY <1>1 DEF Fates, Fate

LEMMA DispatcherInit == Init => Sane /\ Promise!Init
<1> SUFFICES ASSUME Init PROVE Sane /\ Promise!Init
  OBVIOUS
<1>1. /\ DOMAIN item = Submission
      /\ \A s \in Submission : /\ DOMAIN item[s] = ItemFields /\ item[s].callbacks = {}
                               /\ item[s].step = "absent"
      /\ queue = <<>> /\ closeQueue = <<>>
  BY DEF Init, NoItem, ItemFields
<1>2. /\ told \in [Submission -> [times : Nat, outcome : {"none", "sent", "dropped"}]]
      /\ \A s \in Submission : told[s].times = 0
  BY DEF Init
<1>3. Items(item) /\ Apart(item) /\ Told(item, told)
  BY <1>1, <1>2 DEF Items, Apart, Told
<1>4. QueueOf(item, queue) /\ QueueOf(item, closeQueue)
  BY <1>1 DEF QueueOf
<1>5. Sane  BY <1>3, <1>4, StateIs DEF Sane, Sound
<1>6. \A s \in Submission : Fate(s) = "unborn"
  BY <1>1, <1>2 DEF Fate
<1>7. Promise!Init  BY <1>6 DEF Promise!Init
<1>8. QED BY <1>5, <1>7

LEMMA DispatcherStep == Sane /\ [Next]_vars => Sane' /\ [Promise!Next]_Fates
<1> SUFFICES ASSUME Sane, [Next]_vars PROVE Sane' /\ (Promise!Next \/ Fates' = Fates)
  OBVIOUS
<1>1. ASSUME NEW s \in Submission, Submit(s) PROVE Sane' /\ Promise!Next
  BY <1>1, SubmitHandsOver DEF Promise!Next
<1>2. ASSUME Promise!Decide PROVE Promise!Next
  BY <1>2 DEF Promise!Next
<1>3. ASSUME NEW s \in Submission, AttemptEnds(s) \/ Settled(s) PROVE Sane' /\ Promise!Next
  BY <1>2, <1>3, AttemptEndsStep, SettledStep
<1>4. CASE WorkerNext
  BY <1>2, <1>4, WorkerNextStep
<1>5. CASE Close
  BY <1>2, <1>5, CloseStep
<1>6. CASE FinishClose
  BY <1>2, <1>6, FinishCloseStep
<1>7. CASE WhenIdle \/ Tick \/ UNCHANGED vars
  BY <1>7, StillStep DEF WhenIdle, Tick, vars
<1>8. QED BY <1>1, <1>3, <1>4, <1>5, <1>6, <1>7 DEF Next

(* Nobody waits in two items, who waits was not told, and the queues hold items that exist, in
   every reachable state. *)
THEOREM DispatcherIsSane == Spec => []Sane
<1>1. QED BY DispatcherInit, DispatcherStep, PTL DEF Spec

(* Every submission is told one outcome, the final one: whatever merges, expires, overflows the
   queue, is retried or dropped by close, the dispatcher implements Outcomes. *)
THEOREM DispatcherImplementsOutcomes == Spec => OutcomesAreFinal
<1>1. Sane /\ [Next]_vars => [Promise!Next]_Fates
  BY DispatcherStep
<1>2. QED BY <1>1, DispatcherInit, DispatcherIsSane, PTL DEF Spec, OutcomesAreFinal, Promise!Spec, Fates

-----------------------------------------------------------------------------
(* Totals, slots and the order of the queues.  The methods are gone through a *)
(* second time: what each does to the items that wait and that are sent. *)

Waits(it) == {s \in Submission : it[s].step = "queued"}
Sends(it) == {s \in Submission : it[s].step \in {"sending", "held"}}
Live(it)  == Waits(it) \cup Sends(it)

(* Every item created is counted, and lives until it is counted again. *)
Counted(d) ==
  /\ d.counts \in [enqueued : Nat, merged : Nat, sent : Nat, dropped : Nat]
  /\ IsFiniteSet(Live(d.it))
  /\ d.counts.enqueued = d.counts.sent + d.counts.dropped + Cardinality(Live(d.it))

(* No two of them carry the same payload. *)
Alone(it) == \A s, t \in Live(it) : it[s].payload = it[t].payload => s = t

(* Whoever submitted was told or waits in one. *)
Covered(it, to) ==
  \A s \in Submission : it[s].step # "absent" /\ to[s].times = 0 =>
    \E t \in Live(it) : s \in it[t].callbacks

Core(d) ==
  /\ \A s \in Submission : d.it[s].deadline \in Nat
  /\ Counted(d) /\ Alone(d.it) /\ Covered(d.it, d.told)

First(q, n) == {q[i] : i \in 1 .. n}
In(q) == {q[i] : i \in 1 .. Len(q)}

(* A queue holds an item once, and the item with the earlier deadline first. *)
Line(it, q) ==
  /\ q \in Seq(Submission)
  /\ \A i, j \in 1 .. Len(q) : i < j => q[i] # q[j] /\ it[q[i]].deadline <= it[q[j]].deadline

(* The queues hold exactly the items that wait. *)
Lines(d) ==
  /\ Line(d.it, d.q) /\ Line(d.it, d.cq)
  /\ In(d.q) \cap In(d.cq) = {}
  /\ In(d.q) \cup In(d.cq) = Waits(d.it)

(* Nothing in the queue is due later than t. *)
Due(it, q, t) == \A s \in In(q) : it[s].deadline <= t

(* r workers are between items, the others send; while one is free nothing waits. *)
Slots(d, r) ==
  /\ r \in Nat /\ d.active = Cardinality(Sends(d.it)) + r /\ d.active <= Workers
  /\ d.q # <<>> \/ d.cq # <<>> => d.active = Workers

Filed ==
  /\ Sane /\ Core(State) /\ Lines(State) /\ Slots(State, ready)
  /\ Due(item, queue, now + Budget) /\ Due(item, closeQueue, closeBy)
  /\ closing = "open" => closeQueue = <<>>
  /\ idle = "waiting" => active > 0
  /\ now \in Nat /\ closeBy \in Nat

LEMMA InLine ==
  ASSUME NEW it, NEW q, Line(it, q)
  PROVE  /\ Len(q) \in Nat /\ \A i \in 1 .. Len(q) : q[i] \in Submission /\ q[i] \in In(q)
         /\ In(q) \subseteq Submission
         /\ q = <<>> <=> In(q) = {}
<1>1. q \in Seq(Submission) /\ Len(q) \in Nat
  BY LenProperties DEF Line
<1>2. \A i \in 1 .. Len(q) : q[i] \in Submission /\ q[i] \in In(q)
  BY <1>1, ElementOfSeq DEF In
<1>3. q = <<>> <=> Len(q) = 0  BY <1>1, EmptySeq
<1>4. In(q) = {} <=> 1 .. Len(q) = {}  BY DEF In
<1>5. 1 .. Len(q) = {} <=> Len(q) = 0
 <2>1. Len(q) # 0 => 1 \in 1 .. Len(q)  BY <1>1
 <2> QED BY <1>1, <2>1
<1> QED BY <1>1, <1>2, <1>3, <1>4, <1>5 DEF In

(* A queue keeps its order while the deadlines of what it holds do. *)
LEMMA LineStays ==
  ASSUME NEW it, NEW it2, NEW q, Line(it, q), \A s \in In(q) : it2[s].deadline = it[s].deadline
  PROVE  Line(it2, q)
BY InLine DEF Line

(* What is left of a queue when its first n items go. *)
LEMMA PrefixLeaves ==
  ASSUME NEW it, NEW q, Line(it, q), NEW n \in 0 .. Len(q)
  PROVE  /\ Line(it, SubSeq(q, n + 1, Len(q))) /\ First(q, n) \subseteq In(q)
         /\ In(SubSeq(q, n + 1, Len(q))) = In(q) \ First(q, n)
<1> DEFINE r == SubSeq(q, n + 1, Len(q))
           gone == First(q, n)
<1>1. q \in Seq(Submission) /\ Len(q) \in Nat /\ n \in Nat /\ n <= Len(q)
  BY LenProperties DEF Line
<1>2. \A i \in 1 .. Len(q) : q[i] \in Submission
  BY <1>1, ElementOfSeq
<1>3. \A i \in n + 1 .. Len(q) : q[i] \in Submission
  BY <1>1, <1>2
<1>4. n + 1 \in Int /\ Len(q) \in Int
  BY <1>1
<1>5. /\ r \in Seq(Submission)
      /\ Len(r) = IF n + 1 <= Len(q) THEN Len(q) - (n + 1) + 1 ELSE 0
      /\ \A i \in 1 .. Len(q) - (n + 1) + 1 : r[i] = q[(n + 1) + i - 1]
  BY <1>3, <1>4, SubSeqProperties
<1> HIDE DEF r
<1>6. Len(r) = Len(q) - n /\ \A i \in 1 .. Len(r) : r[i] = q[n + i] /\ n + i \in 1 .. Len(q)
 <2>1. Len(r) = Len(q) - n  BY <1>1, <1>5
 <2>2. ASSUME NEW i \in 1 .. Len(r) PROVE r[i] = q[n + i] /\ n + i \in 1 .. Len(q)
   BY <1>1, <2>1, <1>5
 <2> QED BY <2>1, <2>2
<1>7. Line(it, r)
 <2>1. ASSUME NEW i \in 1 .. Len(r), NEW j \in 1 .. Len(r), i < j
       PROVE  r[i] # r[j] /\ it[r[i]].deadline <= it[r[j]].deadline
  <3>1. n + i < n + j /\ n + i \in 1 .. Len(q) /\ n + j \in 1 .. Len(q)
    BY <1>1, <1>6, <2>1
  <3>2. q[n + i] # q[n + j] /\ it[q[n + i]].deadline <= it[q[n + j]].deadline
    BY <3>1 DEF Line
  <3> QED BY <1>6, <3>2
 <2> QED BY <1>5, <2>1 DEF Line
<1>8. gone \subseteq In(q)
  BY <1>1 DEF In, First
<1>9. In(r) = In(q) \ gone
 <2>1. ASSUME NEW k \in 1 .. Len(r) PROVE r[k] \in In(q) /\ r[k] \notin gone
  <3>1. r[k] = q[n + k] /\ n + k \in 1 .. Len(q)
    BY <1>6
  <3>2. \A i \in 1 .. n : i < n + k /\ i \in 1 .. Len(q)
    BY <1>1, <1>6
  <3>3. \A i \in 1 .. n : q[i] # q[n + k]
    BY <3>1, <3>2 DEF Line
  <3> QED BY <3>1, <3>3 DEF In, First
 <2>2. ASSUME NEW k \in 1 .. Len(q), q[k] \notin gone PROVE q[k] \in In(r)
  <3>1. ~(k \in 1 .. n)  BY <2>2 DEF First
  <3>2. k - n \in 1 .. Len(r) /\ n + (k - n) = k
    BY <1>1, <1>6, <3>1
  <3>3. r[k - n] = q[k]  BY <1>6, <3>2
  <3> QED BY <3>2, <3>3 DEF In
 <2>3. \A x \in In(r) : x \in In(q) \ gone
   BY <2>1 DEF In
 <2>4. \A x \in In(q) \ gone : x \in In(r)
   BY <2>2 DEF In
 <2> QED BY <2>3, <2>4
<1> QED BY <1>7, <1>8, <1>9 DEF r

(* The head of a queue, and the rest. *)
LEMMA HeadLeaves ==
  ASSUME NEW it, NEW q, Line(it, q), q # <<>>
  PROVE  Head(q) \in In(q) /\ Line(it, Tail(q)) /\ In(Tail(q)) = In(q) \ {Head(q)}
<1>1. q \in Seq(Submission) /\ Len(q) \in Nat
  BY LenProperties DEF Line
<1>2. Len(q) # 0  BY <1>1, EmptySeq
<1>3. Tail(q) = SubSeq(q, 2, Len(q))  BY <1>1, TailIsSubSeq
<1>4. Head(q) = q[1] /\ 1 \in 1 .. Len(q)
  BY <1>1, <1>2, HeadTailProperties
<1>5. {Head(q)} = First(q, 1)  BY <1>4 DEF First
<1>6. 1 \in 0 .. Len(q) /\ 1 + 1 = 2
  BY <1>1, <1>2
<1>7. ASSUME NEW n \in 0 .. Len(q), n = 1
      PROVE  Line(it, Tail(q)) /\ In(Tail(q)) = In(q) \ {Head(q)}
 <2>1. Tail(q) = SubSeq(q, n + 1, Len(q)) /\ {Head(q)} = First(q, n)
   BY <1>3, <1>5, <1>7
 <2>2. Line(it, SubSeq(q, n + 1, Len(q))) /\ In(SubSeq(q, n + 1, Len(q))) = In(q) \ First(q, n)
   BY PrefixLeaves
 <2> QED BY <2>1, <2>2
<1>8. Line(it, Tail(q)) /\ In(Tail(q)) = In(q) \ {Head(q)}
  BY <1>6, <1>7
<1>9. Head(q) \in In(q)  BY <1>4 DEF In
<1> QED BY <1>8, <1>9

(* An item that is due no earlier than a queue's last goes behind it. *)
LEMMA Behind ==
  ASSUME NEW it, NEW q, Line(it, q), NEW s \in Submission, s \notin In(q),
         Due(it, q, it[s].deadline)
  PROVE  /\ Line(it, Append(q, s)) /\ In(Append(q, s)) = In(q) \cup {s}
         /\ Append(q, s) # <<>>
<1> DEFINE r == Append(q, s)
<1>1. q \in Seq(Submission) /\ Len(q) \in Nat
  BY LenProperties DEF Line
<1>2. /\ r \in Seq(Submission) /\ r # <<>> /\ Len(r) = Len(q) + 1
      /\ \A i \in 1 .. Len(q) : r[i] = q[i]
      /\ r[Len(q) + 1] = s
  BY <1>1, AppendProperties
<1> HIDE DEF r
<1>3. ASSUME NEW i \in 1 .. Len(r), NEW j \in 1 .. Len(r), i < j
      PROVE  r[i] # r[j] /\ it[r[i]].deadline <= it[r[j]].deadline
  BY <1>1, <1>2, <1>3 DEF Line, Due, In
<1>4. In(r) = In(q) \cup {s}
  BY <1>1, <1>2 DEF In
<1> QED BY <1>2, <1>3, <1>4 DEF Line, r

(* Items that are finished leave the live ones, counted, and all who wait in *)
(* them are told. *)
LEMMA FinishCounts ==
  ASSUME NEW d, Sound(d), Core(d), NEW ss, ss \subseteq Live(d.it),
         NEW outcome \in {"sent", "dropped"}, NEW e, e = Finish(d, ss, outcome)
  PROVE  /\ Sound(e) /\ Core(e)
         /\ e.q = d.q /\ e.cq = d.cq /\ e.active = d.active
         /\ Live(e.it) = Live(d.it) \ ss /\ Waits(e.it) = Waits(d.it) \ ss
         /\ Sends(e.it) = Sends(d.it) \ ss
         /\ \A s \in Submission \ ss : e.it[s] = d.it[s]
<1> DEFINE cs == UNION {d.it[s].callbacks : s \in ss}
           it == [s \in Submission |-> IF s \in ss THEN [NoItem EXCEPT !.step = "ended"] ELSE d.it[s]]
           to == [s \in Submission |-> IF s \in cs THEN [times |-> d.told[s].times + 1, outcome |-> outcome]
                                       ELSE d.told[s]]
<1>0. ss \subseteq Submission /\ \A s \in ss : d.it[s].step # "absent"
  BY DEF Live, Waits, Sends
<1>1. /\ Sound(e) /\ e.q = d.q /\ e.cq = d.cq /\ e.active = d.active
      /\ \A s \in Submission : e.it[s].step = (IF s \in ss THEN "ended" ELSE d.it[s].step)
  BY <1>0, FinishFalls
<1>2. /\ e.it = it /\ e.told = to
      /\ e.counts = Tally(d.counts, outcome, Cardinality(ss))
  BY DEF Sound, Finish, StateFields
<1>3. /\ \A s \in ss : e.it[s].callbacks = {} /\ e.it[s].deadline = 0
      /\ \A s \in Submission \ ss : e.it[s] = d.it[s]
  BY <1>0, <1>2 DEF NoItem
<1>4. \A c \in Submission : e.told[c].times = 0 => c \notin cs /\ d.told[c].times = 0
  BY <1>2 DEF Sound, Told
<1> HIDE DEF it, to
<1>5. /\ Live(e.it) = Live(d.it) \ ss /\ Waits(e.it) = Waits(d.it) \ ss
      /\ Sends(e.it) = Sends(d.it) \ ss
  BY <1>0, <1>1 DEF Live, Waits, Sends
<1>6. \A s \in Submission : e.it[s].deadline \in Nat
  BY <1>3 DEF Core
<1>7. Counted(e)
 <2>1. IsFiniteSet(Live(d.it)) /\ ss \in SUBSET Live(d.it)
   BY DEF Core, Counted
 <2>2. IsFiniteSet(ss) /\ Cardinality(ss) \in Nat /\ Cardinality(Live(d.it)) \in Nat
   BY <2>1, FS_Subset, FS_CardinalityType
 <2>3. IsFiniteSet(Live(d.it) \ ss) /\ Cardinality(Live(d.it) \ ss) = Cardinality(Live(d.it)) - Cardinality(ss)
  <3>1. /\ IsFiniteSet(Live(d.it) \ ss)
        /\ Cardinality(Live(d.it) \ ss) = Cardinality(Live(d.it)) - Cardinality(Live(d.it) \cap ss)
    BY <2>1, <2>2, FS_Difference
  <3>2. Live(d.it) \cap ss = ss  OBVIOUS
  <3> QED BY <3>1, <3>2
 <2>4. /\ d.counts \in [enqueued : Nat, merged : Nat, sent : Nat, dropped : Nat]
       /\ d.counts.enqueued = d.counts.sent + d.counts.dropped + Cardinality(Live(d.it))
   BY DEF Core, Counted
 <2>5. CASE outcome = "sent"
   BY <1>2, <2>2, <2>4, <2>5, <1>5, <2>3 DEF Tally, Counted
 <2>6. CASE outcome = "dropped"
   BY <1>2, <2>2, <2>4, <2>6, <1>5, <2>3 DEF Tally, Counted
 <2> QED BY <2>5, <2>6
<1>8. \A s \in Live(e.it) : s \in Live(d.it) /\ s \in Submission \ ss
  BY <1>5 DEF Live, Waits, Sends
<1>9. Alone(e.it)  BY <1>3, <1>8 DEF Alone, Core
<1>10. Covered(e.it, e.told)
 <2>1. ASSUME NEW s \in Submission, e.it[s].step # "absent", e.told[s].times = 0
       PROVE  \E t \in Live(e.it) : s \in e.it[t].callbacks
   BY <1>0, <1>1, <1>4, <2>1, <1>3, <1>5 DEF Core, Covered, Live, Waits, Sends
 <2> QED BY <2>1 DEF Covered
<1> QED BY <1>1, <1>3, <1>5, <1>6, <1>7, <1>9, <1>10 DEF Core

(* Taking what is overdue off the queues. *)
LEMMA ExpireCounts ==
  ASSUME NEW d, Sound(d), Core(d), Lines(d), NEW e, e = Expire(d)
  PROVE  /\ Sound(e) /\ Core(e) /\ Lines(e) /\ e.active = d.active
         /\ Sends(e.it) = Sends(d.it)
         /\ In(e.q) \subseteq In(d.q) /\ In(e.cq) \subseteq In(d.cq)
         /\ e.q # <<>> => d.q # <<>>
         /\ e.cq # <<>> => d.cq # <<>>
         /\ \A s \in Live(e.it) : e.it[s] = d.it[s]
         /\ \A s \in Submission : d.it[s].step = "absent" => e.it[s] = d.it[s]
<1> DEFINE n == Overdue(d.it, d.cq)
           m == Overdue(d.it, d.q)
           ss == First(d.cq, n) \cup First(d.q, m)
           b == [d EXCEPT !.cq = SubSeq(@, n + 1, Len(@)), !.q = SubSeq(@, m + 1, Len(@))]
<1>1. QueueOf(d.it, d.q) /\ QueueOf(d.it, d.cq) /\ Items(d.it) /\ DOMAIN d = StateFields
  BY DEF Sound
<1>2. /\ DOMAIN b = StateFields /\ b.told = d.told /\ b.it = d.it /\ b.counts = d.counts
      /\ b.active = d.active
      /\ b.cq = SubSeq(d.cq, n + 1, Len(d.cq)) /\ b.q = SubSeq(d.q, m + 1, Len(d.q))
  BY <1>1 DEF StateFields
<1>3. e = Finish(b, ss, "dropped")  BY DEF Expire, First
<1>4. n \in 0 .. Len(d.cq) /\ m \in 0 .. Len(d.q)
  BY <1>1, OverdueOf
<1>5. QueueOf(d.it, b.q) /\ QueueOf(d.it, b.cq)
  BY <1>1, <1>2, OverdueOf
<1> HIDE DEF n, m, b
<1>6. Line(d.it, d.q) /\ Line(d.it, d.cq) /\ In(d.q) \cap In(d.cq) = {} /\ In(d.q) \cup In(d.cq) = Waits(d.it)
  BY DEF Lines
<1>7. Line(d.it, b.q) /\ First(d.q, m) \subseteq In(d.q) /\ In(b.q) = In(d.q) \ First(d.q, m)
  BY <1>2, <1>4, <1>6, PrefixLeaves
<1>8. Line(d.it, b.cq) /\ First(d.cq, n) \subseteq In(d.cq) /\ In(b.cq) = In(d.cq) \ First(d.cq, n)
  BY <1>2, <1>4, <1>6, PrefixLeaves
<1>9. Sound(b)  BY <1>1, <1>2, <1>5 DEF Sound
<1>10. Core(b)  BY <1>2 DEF Core, Counted
<1>11. ss \subseteq Waits(d.it) /\ In(b.q) \cup In(b.cq) = Waits(d.it) \ ss /\ ss \cap Sends(d.it) = {}
  BY <1>6, <1>7, <1>8 DEF Waits, Sends
<1> HIDE DEF ss
<1>12. ss \subseteq Live(b.it) /\ "dropped" \in {"sent", "dropped"}
  BY <1>2, <1>11 DEF Live
<1>13. /\ Sound(e) /\ Core(e)
       /\ e.q = b.q /\ e.cq = b.cq /\ e.active = b.active
       /\ Live(e.it) = Live(b.it) \ ss /\ Waits(e.it) = Waits(b.it) \ ss
       /\ Sends(e.it) = Sends(b.it) \ ss
       /\ \A s \in Submission \ ss : e.it[s] = b.it[s]
  BY <1>3, <1>9, <1>10, <1>12, FinishCounts
<1>14. Line(e.it, e.q) /\ Line(e.it, e.cq)
  BY <1>11, <1>2, <1>13, <1>7, <1>8, LineStays DEF Waits
<1>15. Lines(e)  BY <1>2, <1>6, <1>7, <1>8, <1>11, <1>13, <1>14 DEF Lines
<1>16. (e.q # <<>> => d.q # <<>>) /\ (e.cq # <<>> => d.cq # <<>>)
  BY <1>6, <1>7, <1>8, <1>13, InLine
<1>17. \A s \in Live(e.it) : e.it[s] = d.it[s]
  BY <1>2, <1>13 DEF Live, Waits, Sends
<1>18. \A s \in Submission : d.it[s].step = "absent" => e.it[s] = d.it[s]
  BY <1>2, <1>11, <1>13 DEF Waits
<1> QED BY <1>2, <1>7, <1>8, <1>11, <1>13, <1>15, <1>16, <1>17, <1>18


(* What moves items among those that wait and those that are sent counts none. *)
LEMMA MovesCount ==
  ASSUME NEW d, Core(d), NEW e, e.counts = d.counts, e.told = d.told, Live(e.it) = Live(d.it),
         \A s \in Submission : /\ e.it[s].payload = d.it[s].payload
                               /\ e.it[s].callbacks = d.it[s].callbacks
                               /\ e.it[s].step = "absent" <=> d.it[s].step = "absent"
                               /\ e.it[s].deadline \in Nat
  PROVE  Core(e)
<1>1. Counted(e)  BY DEF Core, Counted
<1>2. Live(d.it) \subseteq Submission  BY DEF Live, Waits, Sends
<1>3. Alone(e.it)  BY <1>2 DEF Core, Alone
<1>4. Covered(e.it, e.told)
 <2>1. ASSUME NEW s \in Submission, e.it[s].step # "absent", e.told[s].times = 0
       PROVE  \E t \in Live(e.it) : s \in e.it[t].callbacks
   BY <2>1, <1>2 DEF Core, Covered
 <2> QED BY <2>1 DEF Covered
<1> QED BY <1>1, <1>3, <1>4 DEF Core

(* The item at the head is sent: it waits no more, and the rest of its queue does. *)
LEMMA TakeCounts ==
  ASSUME NEW d, Sound(d), Core(d), Lines(d), d.cq # <<>> \/ d.q # <<>>,
         NEW e, e = Take(d, Head1(d))
  PROVE  /\ Sound(e) /\ Core(e) /\ Lines(e) /\ e.active = d.active
         /\ Head1(d) \in Waits(d.it) /\ Waits(e.it) = Waits(d.it) \ {Head1(d)}
         /\ Sends(e.it) = Sends(d.it) \cup {Head1(d)}
         /\ In(e.q) \subseteq In(d.q) /\ In(e.cq) \subseteq In(d.cq)
         /\ \A s \in Submission : e.it[s].deadline = d.it[s].deadline
<1> DEFINE h == Head1(d)
           it == [d.it EXCEPT ![h].step = "sending", ![h].attempt = 1]
<1>1. DOMAIN d = StateFields /\ Items(d.it)
  BY DEF Sound
<1>2. /\ e.told = d.told /\ e.it = it /\ e.counts = d.counts /\ e.active = d.active
      /\ e.cq = IF d.cq # <<>> THEN Tail(d.cq) ELSE d.cq
      /\ e.q = IF d.cq = <<>> THEN Tail(d.q) ELSE d.q
  BY <1>1 DEF Take, StateFields
<1>3. Line(d.it, d.q) /\ Line(d.it, d.cq) /\ In(d.q) \cap In(d.cq) = {} /\ In(d.q) \cup In(d.cq) = Waits(d.it)
  BY DEF Lines
<1>4. /\ h \in Waits(d.it) /\ Line(d.it, e.q) /\ Line(d.it, e.cq)
      /\ In(e.q) = In(d.q) \ {h} /\ In(e.cq) = In(d.cq) \ {h}
 <2>1. CASE d.cq # <<>>
  <3>1. h = Head(d.cq) /\ e.cq = Tail(d.cq) /\ e.q = d.q
    BY <1>2, <2>1 DEF Head1
  <3>2. /\ Head(d.cq) \in In(d.cq) /\ Line(d.it, Tail(d.cq))
        /\ In(Tail(d.cq)) = In(d.cq) \ {Head(d.cq)}
   <4>1. Line(d.it, d.cq)  BY <1>3
   <4> QED BY ONLY <2>1, <4>1, HeadLeaves
  <3> HIDE DEF h
  <3> QED BY <1>3, <3>1, <3>2
 <2>2. CASE d.cq = <<>>
  <3>1. h = Head(d.q) /\ e.q = Tail(d.q) /\ e.cq = d.cq /\ d.q # <<>>
    BY <1>2, <2>2 DEF Head1
  <3>2. /\ Head(d.q) \in In(d.q) /\ Line(d.it, Tail(d.q))
        /\ In(Tail(d.q)) = In(d.q) \ {Head(d.q)}
   <4>1. Line(d.it, d.q) /\ d.q # <<>>
     BY <1>3, <3>1
   <4> QED BY ONLY <4>1, HeadLeaves
  <3> HIDE DEF h
  <3> QED BY <1>3, <3>1, <3>2
 <2> QED BY <2>1, <2>2
<1>5. Sound(e)  BY TakeStays
<1> HIDE DEF h
<1>6. h \in Submission /\ d.it[h].step = "queued"
  BY <1>4 DEF Waits
<1>7. \A s \in Submission : /\ e.it[s].payload = d.it[s].payload
                            /\ e.it[s].callbacks = d.it[s].callbacks
                            /\ e.it[s].deadline = d.it[s].deadline
                            /\ e.it[s].step = IF s = h THEN "sending" ELSE d.it[s].step
  BY <1>1, <1>2, <1>6 DEF Items, ItemFields
<1> HIDE DEF it
<1>8. Waits(e.it) = Waits(d.it) \ {h} /\ Sends(e.it) = Sends(d.it) \cup {h}
  BY <1>6, <1>7 DEF Waits, Sends
<1>9. Live(e.it) = Live(d.it)  BY <1>4, <1>8 DEF Live
<1>10. \A s \in Submission : d.it[s].deadline \in Nat
  BY DEF Core
<1>11. Core(e)  BY <1>2, <1>6, <1>7, <1>9, <1>10, MovesCount
<1>12. Line(e.it, e.q) /\ Line(e.it, e.cq)
  BY <1>3, <1>4, <1>7, LineStays DEF Waits
<1>13. Lines(e)  BY <1>3, <1>4, <1>8, <1>12 DEF Lines
<1> QED BY <1>2, <1>4, <1>5, <1>7, <1>8, <1>11, <1>13 DEF h

(* A submission that joins an item creates none. *)
LEMMA JoinCounts ==
  ASSUME NEW d, Sound(d), Core(d), Lines(d), NEW s \in Submission, d.it[s].step = "absent",
         NEW t \in Live(d.it), NEW e, e = Joined(d, s, t)
  PROVE  /\ Sound(e) /\ Core(e) /\ Lines(e)
         /\ e.q = d.q /\ e.cq = d.cq /\ e.active = d.active
         /\ Sends(e.it) = Sends(d.it)
         /\ \A c \in Live(e.it) : e.it[c].deadline = d.it[c].deadline
<1>1. t \in Submission /\ d.it[t].step # "absent" /\ s # t
  BY DEF Live, Waits, Sends
<1>2. DOMAIN d = StateFields /\ Items(d.it)
  BY DEF Sound
<1>3. Sound(e)  BY <1>1, JoinHandsOver
<1>4. /\ e.told = d.told /\ e.q = d.q /\ e.cq = d.cq /\ e.active = d.active
      /\ e.counts = [d.counts EXCEPT !.merged = @ + 1]
      /\ e.it[s] = [NoItem EXCEPT !.step = "merged"]
      /\ e.it[t] = [d.it[t] EXCEPT !.callbacks = @ \cup {s}]
      /\ \A c \in Submission : c # s /\ c # t => e.it[c] = d.it[c]
  BY <1>1, <1>2 DEF Joined, StateFields, Items
<1>5. /\ e.it[s].step = "merged" /\ e.it[s].deadline = 0
      /\ e.it[t].callbacks = d.it[t].callbacks \cup {s}
      /\ e.it[t].payload = d.it[t].payload /\ e.it[t].deadline = d.it[t].deadline
      /\ e.it[t].step = d.it[t].step
  BY <1>1, <1>2, <1>4 DEF NoItem, Items, ItemFields
<1>6. Waits(e.it) = Waits(d.it) /\ Sends(e.it) = Sends(d.it)
 <2>1. \A c \in Submission : c # s => e.it[c].step = d.it[c].step
   BY <1>4, <1>5
 <2> QED BY <1>5, <2>1 DEF Waits, Sends
<1>7. Live(e.it) = Live(d.it) /\ s \notin Live(d.it) /\ Live(d.it) \subseteq Submission
  BY <1>6 DEF Live, Waits, Sends
<1>8. \A c \in Live(d.it) : /\ e.it[c].deadline = d.it[c].deadline
                            /\ e.it[c].payload = d.it[c].payload
                            /\ d.it[c].callbacks \subseteq e.it[c].callbacks
  BY <1>4, <1>5, <1>7
<1>9. Counted(e)  BY <1>4, <1>7 DEF Core, Counted
<1>10. Alone(e.it)  BY <1>7, <1>8 DEF Core, Alone
<1>11. Covered(e.it, e.told)
 <2>1. ASSUME NEW c \in Submission, e.it[c].step # "absent", e.told[c].times = 0
       PROVE  \E u \in Live(e.it) : c \in e.it[u].callbacks
  <3>1. CASE c = s
    BY <1>5, <1>7, <3>1
  <3>2. CASE c # s
   <4>1. d.it[c].step # "absent" /\ d.told[c].times = 0
     BY <1>4, <1>5, <2>1, <3>2
   <4>2. PICK u \in Live(d.it) : c \in d.it[u].callbacks
     BY <4>1 DEF Core, Covered
   <4> QED BY <1>7, <1>8, <4>2
  <3> QED BY <3>1, <3>2
 <2> QED BY <2>1 DEF Covered
<1>12. \A c \in Submission : e.it[c].deadline \in Nat
 <2>1. \A c \in Submission : c # s => e.it[c].deadline = d.it[c].deadline
   BY <1>4, <1>5
 <2> QED BY <1>5, <2>1 DEF Core
<1>13. Lines(e)
  BY <1>8, LineStays, <1>4, <1>6 DEF Lines, Live
<1> QED BY <1>3, <1>4, <1>6, <1>7, <1>8, <1>9, <1>10, <1>11, <1>12, <1>13 DEF Core

(* A new item is counted, and is the only one with its payload. *)
LEMMA BirthCounts ==
  ASSUME NEW d, Sound(d), Core(d), NEW s \in Submission, d.it[s].step = "absent",
         NEW p, \A t \in Live(d.it) : d.it[t].payload # p,
         NEW deadline \in Nat, NEW closeTime
  PROVE  LET e == Born(d, s, p, deadline, closeTime)
         IN  /\ Sound(e) /\ Core(e)
             /\ e.q = d.q /\ e.cq = d.cq /\ e.active = d.active
             /\ Waits(e.it) = Waits(d.it) \cup {s} /\ Sends(e.it) = Sends(d.it)
             /\ s \notin Live(d.it) /\ e.it[s].deadline = deadline
             /\ \A t \in Submission : t # s => e.it[t] = d.it[t]
<1> DEFINE e == Born(d, s, p, deadline, closeTime)
<1>1. DOMAIN d = StateFields /\ Items(d.it)
  BY DEF Sound
<1>2. Sound(e)  BY BirthHandsOver
<1>3. /\ e.told = d.told /\ e.q = d.q /\ e.cq = d.cq /\ e.active = d.active
      /\ e.counts = [d.counts EXCEPT !.enqueued = @ + 1]
      /\ e.it[s] = [NoItem EXCEPT !.payload = p, !.deadline = deadline, !.closeTime = closeTime,
                                  !.callbacks = {s}, !.step = "queued"]
      /\ \A c \in Submission : c # s => e.it[c] = d.it[c]
  BY <1>1 DEF Born, StateFields, Items
<1> HIDE DEF e
<1>4. /\ e.it[s].payload = p /\ e.it[s].deadline = deadline /\ e.it[s].callbacks = {s}
      /\ e.it[s].step = "queued"
  BY <1>3 DEF NoItem
<1>5. Waits(e.it) = Waits(d.it) \cup {s} /\ Sends(e.it) = Sends(d.it)
 <2>1. \A c \in Submission : c # s => e.it[c].step = d.it[c].step
   BY <1>3
 <2> QED BY <1>4, <2>1 DEF Waits, Sends
<1>6. s \notin Live(d.it) /\ Live(d.it) \subseteq Submission
  BY DEF Live, Waits, Sends
<1>7. Live(e.it) = Live(d.it) \cup {s}  BY <1>5 DEF Live
<1>8. Counted(e)
 <2>1. IsFiniteSet(Live(d.it))  BY DEF Core, Counted
 <2>2. IsFiniteSet(Live(e.it)) /\ Cardinality(Live(e.it)) = Cardinality(Live(d.it)) + 1
   BY <1>6, <1>7, <2>1, FS_AddElement
 <2>3. /\ d.counts \in [enqueued : Nat, merged : Nat, sent : Nat, dropped : Nat]
       /\ d.counts.enqueued = d.counts.sent + d.counts.dropped + Cardinality(Live(d.it))
   BY DEF Core, Counted
 <2>4. /\ e.counts \in [enqueued : Nat, merged : Nat, sent : Nat, dropped : Nat]
       /\ e.counts.enqueued = d.counts.enqueued + 1
       /\ e.counts.sent = d.counts.sent /\ e.counts.dropped = d.counts.dropped
   BY <1>3, <2>3
 <2>5. Cardinality(Live(d.it)) \in Nat  BY <2>1, FS_CardinalityType
 <2> QED BY <2>2, <2>3, <2>4, <2>5 DEF Counted
<1>9. Alone(e.it)
 <2>1. \A t \in Live(d.it) : e.it[t] = d.it[t] /\ t # s
   BY <1>3, <1>6
 <2> QED BY <1>4, <1>7, <2>1 DEF Core, Alone
<1>10. Covered(e.it, e.told)
 <2>1. ASSUME NEW c \in Submission, e.it[c].step # "absent", e.told[c].times = 0
       PROVE  \E u \in Live(e.it) : c \in e.it[u].callbacks
  <3>1. CASE c = s
    BY <1>4, <1>7, <3>1
  <3>2. CASE c # s
    BY <1>3, <2>1, <3>2, <1>6, <1>7 DEF Core, Covered
  <3> QED BY <3>1, <3>2
 <2> QED BY <2>1 DEF Covered
<1>11. \A c \in Submission : e.it[c].deadline \in Nat
  BY <1>3, <1>4 DEF Core
<1> QED BY <1>2, <1>3, <1>4, <1>5, <1>6, <1>8, <1>9, <1>10, <1>11 DEF Core, e

LEMMA Sending ==
  ASSUME NEW d, Core(d)
  PROVE  IsFiniteSet(Sends(d.it)) /\ Cardinality(Sends(d.it)) \in Nat
<1>1. IsFiniteSet(Live(d.it)) /\ Sends(d.it) \in SUBSET Live(d.it)
  BY DEF Core, Counted, Live
<1> QED BY <1>1, FS_Subset, FS_CardinalityType

(* The item taken off a queue is one more that is sent. *)
LEMMA OneMore ==
  ASSUME NEW d, Core(d), NEW s \in Waits(d.it)
  PROVE  Cardinality(Sends(d.it) \cup {s}) = Cardinality(Sends(d.it)) + 1
<1>1. s \notin Sends(d.it)  BY DEF Waits, Sends
<1> QED BY <1>1, Sending, FS_AddElement

(* A worker starts when one is free: then the item just queued is the only one. *)
LEMMA PumpCounts ==
  ASSUME NEW d, Sound(d), Core(d), Lines(d), d.cq # <<>> \/ d.q # <<>>,
         NEW r \in Nat, d.active = Cardinality(Sends(d.it)) + r, d.active <= Workers,
         NEW s, d.active < Workers => Waits(d.it) = {s},
         NEW e, e = Pump(d)
  PROVE  /\ Sound(e) /\ Core(e) /\ Lines(e) /\ Slots(e, r) /\ e.active >= d.active
         /\ In(e.q) \subseteq In(d.q) /\ In(e.cq) \subseteq In(d.cq)
         /\ \A c \in Submission : e.it[c].deadline = d.it[c].deadline
<1>1. CASE d.active = Workers
  BY <1>1, Sending DEF Pump, Slots
<1>2. CASE d.active # Workers
 <2> DEFINE b == [d EXCEPT !.active = @ + 1]
 <2>1. /\ DOMAIN b = StateFields /\ b.told = d.told /\ b.it = d.it /\ b.q = d.q /\ b.cq = d.cq
       /\ b.counts = d.counts /\ b.active = d.active + 1 /\ Head1(b) = Head1(d)
   BY DEF Sound, StateFields, Head1
 <2>2. e = Take(b, Head1(b))  BY <1>2, <2>1 DEF Pump
 <2> HIDE DEF b
 <2>3. Sound(b) /\ Lines(b) /\ Core(b)
   BY <2>1 DEF Sound, Lines, Core, Counted
 <2>4. /\ Sound(e) /\ Core(e) /\ Lines(e) /\ e.active = b.active
       /\ Head1(b) \in Waits(b.it) /\ Waits(e.it) = Waits(b.it) \ {Head1(b)}
       /\ Sends(e.it) = Sends(b.it) \cup {Head1(b)}
       /\ In(e.q) \subseteq In(b.q) /\ In(e.cq) \subseteq In(b.cq)
       /\ \A c \in Submission : e.it[c].deadline = b.it[c].deadline
   BY <2>1, <2>2, <2>3, TakeCounts
 <2>5. d.active \in Int /\ Workers \in Nat /\ Cardinality(Sends(d.it)) \in Nat
   BY Sending, DispatcherAssumption
 <2>6. d.active < Workers  BY <1>2, <2>5
 <2>7. Waits(e.it) = {}  BY <2>1, <2>4, <2>6
 <2>8. e.q = <<>> /\ e.cq = <<>>
   BY <2>4, <2>7, InLine DEF Lines
 <2>9. Cardinality(Sends(e.it)) = Cardinality(Sends(d.it)) + 1
   BY <2>1, <2>4, OneMore
 <2>10. e.active = d.active + 1  BY <2>1, <2>4
 <2>11. Slots(e, r)  BY <2>5, <2>6, <2>8, <2>9, <2>10 DEF Slots
 <2> QED BY <2>1, <2>4, <2>5, <2>10, <2>11
<1> QED BY <1>1, <1>2

-----------------------------------------------------------------------------
(* Every action keeps the dispatcher filed. *)

LEMMA NowFiled ==
  ASSUME Filed
  PROVE  /\ Sound(State) /\ Core(State) /\ Lines(State) /\ Slots(State, ready)
         /\ DOMAIN State = StateFields
         /\ State.it = item /\ State.q = queue /\ State.cq = closeQueue /\ State.told = told
         /\ State.counts = counts /\ State.active = active
         /\ active \in Int /\ ready \in Nat /\ now \in Nat /\ closeBy \in Nat
<1>1. /\ State.it = item /\ State.q = queue /\ State.cq = closeQueue /\ State.told = told
      /\ State.counts = counts /\ State.active = active /\ DOMAIN State = StateFields
  BY DEF State, StateFields
<1>2. Sound(State) /\ Core(State) /\ Lines(State) /\ Slots(State, ready) /\ now \in Nat /\ closeBy \in Nat
  BY DEF Filed, Sane
<1>3. active \in Int /\ ready \in Nat
  BY <1>1, <1>2, Sending DEF Slots
<1> QED BY <1>1, <1>2, <1>3

LEMMA FiledAfter ==
  ASSUME NEW d, Becomes(d), Sound(d), Core(d), Lines(d), Slots(d, ready'),
         Due(d.it, d.q, now' + Budget), Due(d.it, d.cq, closeBy'),
         closing' = "open" => d.cq = <<>>, idle' = "waiting" => d.active > 0,
         now' \in Nat, closeBy' \in Nat
  PROVE  Filed'
<1>1. DOMAIN d = StateFields  BY DEF Sound
<1>2. /\ State'.it = d.it /\ State'.q = d.q /\ State'.cq = d.cq /\ State'.told = d.told
      /\ State'.counts = d.counts /\ State'.active = d.active
      /\ item' = d.it /\ queue' = d.q /\ closeQueue' = d.cq /\ active' = d.active
  BY DEF Becomes, State
<1>3. Sane'  BY <1>1, Became
<1>4. Core(State') /\ Lines(State') /\ Slots(State', ready')
  BY <1>2 DEF Core, Counted, Lines, Slots
<1> QED BY <1>2, <1>3, <1>4 DEF Filed

(* What an expiry leaves is filed as it was. *)
LEMMA ExpireFiles ==
  ASSUME Filed, NEW d, d = Expire(State)
  PROVE  /\ Sound(d) /\ Core(d) /\ Lines(d) /\ Slots(d, ready) /\ d.active = active
         /\ Due(d.it, d.q, now + Budget) /\ Due(d.it, d.cq, closeBy)
         /\ closing = "open" => d.cq = <<>>
         /\ \A s \in Submission : item[s].step = "absent" => d.it[s].step = "absent"
<1>1. /\ Sound(d) /\ Core(d) /\ Lines(d) /\ d.active = State.active
      /\ Sends(d.it) = Sends(State.it)
      /\ In(d.q) \subseteq In(State.q) /\ In(d.cq) \subseteq In(State.cq)
      /\ d.q # <<>> => State.q # <<>>
      /\ d.cq # <<>> => State.cq # <<>>
      /\ \A s \in Live(d.it) : d.it[s] = State.it[s]
      /\ \A s \in Submission : State.it[s].step = "absent" => d.it[s] = State.it[s]
  BY NowFiled, ExpireCounts
<1>2. In(d.q) \subseteq Live(d.it) /\ In(d.cq) \subseteq Live(d.it)
  BY <1>1 DEF Lines, Live
<1>3. Due(d.it, d.q, now + Budget) /\ Due(d.it, d.cq, closeBy)
  BY <1>1, <1>2, NowFiled DEF Filed, Due
<1>4. Slots(d, ready)  BY <1>1, NowFiled DEF Slots
<1>5. closing = "open" => d.cq = <<>>  BY <1>1, NowFiled DEF Filed
<1> QED BY <1>1, <1>3, <1>4, <1>5, NowFiled

LEMMA SubmitFiles ==
  ASSUME Filed, NEW s \in Submission, Submit(s)
  PROVE  Filed'
<1>1. PICK p \in Payload, closeTime \in BOOLEAN :
        LET d == Expire(State)
            deadline == IF closeTime THEN closeBy ELSE now + Budget
            born == [d EXCEPT
                      !.it[s] = [NoItem EXCEPT !.payload = p, !.deadline = deadline,
                                               !.closeTime = closeTime, !.callbacks = {s},
                                               !.step = "queued"],
                      !.counts.enqueued = @ + 1]
            pending == Len(d.q) + Len(d.cq)
        IN  /\ item[s].step = "absent"
            /\ closeTime => closing = "draining"
            /\ \/ \E t \in LiveItems(d.it, p) :
                    Becomes([d EXCEPT !.it[s] = [NoItem EXCEPT !.step = "merged"], !.it[t].callbacks = @ \cup {s},
                          !.counts.merged = @ + 1])
               \/ /\ LiveItems(d.it, p) = {}
                  /\ \/ deadline <= now \/ (~closeTime /\ pending >= MaxPending)
                  /\ Becomes(Finish(born, {s}, "dropped"))
               \/ /\ LiveItems(d.it, p) = {}
                  /\ deadline > now /\ (closeTime \/ pending < MaxPending)
                  /\ Becomes(Pump(IF closeTime THEN [born EXCEPT !.cq = Append(@, s)]
                                               ELSE [born EXCEPT !.q = Append(@, s)]))
            /\ UNCHANGED <<now, ready, closing, closeBy, idle>>
  BY Zenon DEF Submit
<1> DEFINE d == Expire(State)
           deadline == IF closeTime THEN closeBy ELSE now + Budget
           born == Born(d, s, p, deadline, closeTime)
           more == IF closeTime THEN [born EXCEPT !.cq = Append(@, s)]
                                ELSE [born EXCEPT !.q = Append(@, s)]
<1>2. \/ \E t \in LiveItems(d.it, p) : Becomes(Joined(d, s, t))
      \/ LiveItems(d.it, p) = {} /\ Becomes(Finish(born, {s}, "dropped"))
      \/ LiveItems(d.it, p) = {} /\ Becomes(Pump(more))
  BY <1>1, Zenon DEF Joined, Born
<1>3. /\ item[s].step = "absent"
      /\ closeTime => closing = "draining"
      /\ now' = now /\ ready' = ready /\ closing' = closing /\ closeBy' = closeBy /\ idle' = idle
  BY <1>1
<1>4. /\ Sound(d) /\ Core(d) /\ Lines(d) /\ Slots(d, ready) /\ d.active = active
      /\ Due(d.it, d.q, now + Budget) /\ Due(d.it, d.cq, closeBy)
      /\ closing = "open" => d.cq = <<>>
      /\ d.it[s].step = "absent"
  BY <1>3, ExpireFiles
<1>5. LiveItems(d.it, p) = {t \in Live(d.it) : d.it[t].payload = p}
  BY DEF LiveItems, Live, Waits, Sends
<1>6. deadline \in Nat  BY NowFiled, DispatcherAssumption
<1>7. /\ now \in Nat /\ closeBy \in Nat /\ active \in Int /\ ready \in Nat
      /\ idle = "waiting" => active > 0
  BY NowFiled DEF Filed
<1> HIDE DEF d
<1>8. In(d.q) \subseteq Live(d.it) /\ In(d.cq) \subseteq Live(d.it) /\ Live(d.it) \subseteq Submission
  BY <1>4 DEF Lines, Live, Waits, Sends
<1>9. ASSUME NEW t \in LiveItems(d.it, p), Becomes(Joined(d, s, t)) PROVE Filed'
 <2> DEFINE e == Joined(d, s, t)
 <2>1. t \in Live(d.it)  BY <1>5
 <2>2. /\ Sound(e) /\ Core(e) /\ Lines(e)
       /\ e.q = d.q /\ e.cq = d.cq /\ e.active = d.active
       /\ Sends(e.it) = Sends(d.it)
       /\ \A c \in Live(e.it) : e.it[c].deadline = d.it[c].deadline
   BY <1>4, <2>1, JoinCounts
 <2>3. Becomes(e)  BY <1>9
 <2> HIDE DEF e
 <2>4. In(e.q) \subseteq Live(e.it) /\ In(e.cq) \subseteq Live(e.it)
   BY <2>2 DEF Lines, Live
 <2>5. Due(e.it, e.q, now' + Budget) /\ Due(e.it, e.cq, closeBy')
   BY <1>3, <1>4, <2>2, <2>4 DEF Due
 <2>6. Slots(e, ready')  BY <1>3, <1>4, <2>2 DEF Slots
 <2> QED BY <1>3, <1>4, <1>7, <2>2, <2>3, <2>5, <2>6, FiledAfter
<1>10. ASSUME LiveItems(d.it, p) = {}
       PROVE  /\ Sound(born) /\ Core(born)
              /\ born.q = d.q /\ born.cq = d.cq /\ born.active = d.active
              /\ Waits(born.it) = Waits(d.it) \cup {s} /\ Sends(born.it) = Sends(d.it)
              /\ s \notin Live(d.it) /\ born.it[s].deadline = deadline
              /\ \A t \in Submission : t # s => born.it[t] = d.it[t]
 <2>1. \A t \in Live(d.it) : d.it[t].payload # p
   BY <1>5, <1>10
 <2> HIDE DEF deadline
 <2>2. Sound(d) /\ Core(d) /\ d.it[s].step = "absent" /\ deadline \in Nat
   BY <1>4, <1>6
 <2>3. \A c : LET e == Born(d, s, p, deadline, c)
              IN  /\ Sound(e) /\ Core(e)
                  /\ e.q = d.q /\ e.cq = d.cq /\ e.active = d.active
                  /\ Waits(e.it) = Waits(d.it) \cup {s} /\ Sends(e.it) = Sends(d.it)
                  /\ s \notin Live(d.it) /\ e.it[s].deadline = deadline
                  /\ \A t \in Submission : t # s => e.it[t] = d.it[t]
   BY <2>1, <2>2, BirthCounts, Z3
 <2> QED BY <2>3
<1> HIDE DEF born, deadline
<1>11. ASSUME LiveItems(d.it, p) = {}, Becomes(Finish(born, {s}, "dropped")) PROVE Filed'
 <2> DEFINE e == Finish(born, {s}, "dropped")
 <2>1. {s} \subseteq Live(born.it) /\ "dropped" \in {"sent", "dropped"}
   BY <1>10, <1>11 DEF Live
 <2>2. /\ Sound(e) /\ Core(e)
       /\ e.q = born.q /\ e.cq = born.cq /\ e.active = born.active
       /\ Waits(e.it) = Waits(born.it) \ {s} /\ Sends(e.it) = Sends(born.it) \ {s}
       /\ \A c \in Submission \ {s} : e.it[c] = born.it[c]
  <3> DEFINE ss == {s}
  <3>1. e = Finish(born, ss, "dropped") /\ Sound(born) /\ Core(born)
    BY <1>10, <1>11
  <3>2. ss \subseteq Live(born.it)  BY <2>1
  <3> HIDE DEF e, ss
  <3>3. /\ Sound(e) /\ Core(e)
        /\ e.q = born.q /\ e.cq = born.cq /\ e.active = born.active
        /\ Waits(e.it) = Waits(born.it) \ ss /\ Sends(e.it) = Sends(born.it) \ ss
        /\ \A c \in Submission \ ss : e.it[c] = born.it[c]
    BY <2>1, <3>1, <3>2, FinishCounts
  <3> QED BY <3>3 DEF ss
 <2>3. Becomes(e)  BY <1>11
 <2> HIDE DEF e
 <2>4. /\ e.q = d.q /\ e.cq = d.cq /\ e.active = d.active
       /\ Waits(e.it) = Waits(d.it) /\ Sends(e.it) = Sends(d.it)
   BY <1>10, <1>11, <2>2 DEF Live
 <2>5. \A c \in Live(d.it) : e.it[c] = d.it[c]
   BY <1>8, <1>10, <1>11, <2>2
 <2>6. Lines(e)
   BY <1>4, <1>8, <2>5, LineStays, <2>4 DEF Lines
 <2>7. Due(e.it, e.q, now' + Budget) /\ Due(e.it, e.cq, closeBy')
   BY <1>3, <1>4, <1>8, <2>4, <2>5 DEF Due
 <2>8. Slots(e, ready')  BY <1>3, <1>4, <2>4 DEF Slots
 <2> QED BY <1>3, <1>4, <1>7, <2>2, <2>3, <2>4, <2>6, <2>7, <2>8, FiledAfter
<1>12. ASSUME LiveItems(d.it, p) = {}, Becomes(Pump(more)) PROVE Filed'
 <2>1. DOMAIN born = StateFields  BY <1>10, <1>12 DEF Sound
 <2>2. /\ DOMAIN more = StateFields /\ more.it = born.it /\ more.told = born.told
       /\ more.counts = born.counts /\ more.active = d.active
       /\ more.cq = IF closeTime THEN Append(d.cq, s) ELSE d.cq
       /\ more.q = IF closeTime THEN d.q ELSE Append(d.q, s)
   BY <1>10, <1>12, <2>1 DEF StateFields
 <2> HIDE DEF more
 <2>3. /\ Line(born.it, d.q) /\ Line(born.it, d.cq) /\ s \notin In(d.q) /\ s \notin In(d.cq)
       /\ Due(born.it, d.q, now + Budget) /\ Due(born.it, d.cq, closeBy)
   BY <1>8, <1>10, <1>12, <1>4, LineStays DEF Lines, Due
 <2>4. /\ Line(born.it, more.q) /\ Line(born.it, more.cq)
       /\ In(more.q) = IF closeTime THEN In(d.q) ELSE In(d.q) \cup {s}
       /\ In(more.cq) = IF closeTime THEN In(d.cq) \cup {s} ELSE In(d.cq)
       /\ more.cq # <<>> \/ more.q # <<>>
       /\ Due(born.it, more.q, now + Budget) /\ Due(born.it, more.cq, closeBy)
  <3>1. born.it[s].deadline = deadline  BY <1>10, <1>12
  <3>2. CASE closeTime
    BY <3>2, <2>3, <3>1, Behind, <1>7, <2>2 DEF deadline, Due
  <3>3. CASE ~closeTime
    BY <3>3, <2>3, <3>1, Behind, <1>6, <2>2 DEF deadline, Due
  <3> QED BY <3>2, <3>3
 <2>5. Lines(more)
   BY <1>4, <1>10, <1>12, <2>3, <2>4, <2>2 DEF Lines
 <2>6. Core(more)  BY <1>10, <1>12, <2>2 DEF Core, Counted
 <2>7. Sound(more)
   BY <1>10, <1>12, AppendOf, <2>2 DEF Sound, Waits
 <2>8. more.active = Cardinality(Sends(more.it)) + ready /\ more.active <= Workers
   BY <1>4, <1>10, <1>12, <2>2 DEF Slots
 <2>9. more.active < Workers => Waits(more.it) = {s}
   BY <1>7, DispatcherAssumption, <1>4, <2>2, InLine, <1>10, <1>12 DEF Slots, Lines
 <2> DEFINE e == Pump(more)
 <2>10. /\ Sound(e) /\ Core(e) /\ Lines(e) /\ Slots(e, ready) /\ e.active >= more.active
        /\ In(e.q) \subseteq In(more.q) /\ In(e.cq) \subseteq In(more.cq)
        /\ \A c \in Submission : e.it[c].deadline = more.it[c].deadline
   BY <1>7, <2>4, <2>5, <2>6, <2>7, <2>8, <2>9, PumpCounts
 <2>11. Becomes(e)  BY <1>12
 <2> HIDE DEF e
 <2>12. In(more.q) \subseteq Submission /\ In(more.cq) \subseteq Submission
   BY <2>5, InLine DEF Lines
 <2>13. Due(e.it, e.q, now' + Budget) /\ Due(e.it, e.cq, closeBy')
   BY <1>3, <2>2, <2>4, <2>10, <2>12 DEF Due
 <2>14. closing' = "open" => e.cq = <<>>
  <3>1. CASE closing = "open"
   <4>1. ~closeTime /\ d.cq = <<>>
     BY <1>3, <1>4, <3>1
   <4>2. In(e.cq) = {}
     BY <1>4, <4>1, InLine, <2>2, <2>10 DEF Lines
   <4> QED BY <2>10, <4>2, InLine DEF Lines
  <3> QED BY <1>3, <3>1
 <2>15. e.active \in Int /\ (idle' = "waiting" => e.active > 0)
   BY <1>7, <2>10, Sending, <1>3, <1>4, <2>2 DEF Slots
 <2>16. Slots(e, ready') /\ now' \in Nat /\ closeBy' \in Nat
   BY <1>3, <1>7, <2>10
 <2> QED BY <2>10, <2>11, <2>13, <2>14, <2>15, <2>16, FiledAfter
<1> HIDE DEF more
<1> QED BY <1>2, <1>9, <1>11, <1>12

(* An attempt that ends, or is followed by another, leaves its item among those sent. *)
LEMMA SendStays ==
  ASSUME Filed, NEW s \in Submission, item[s].step \in {"sending", "held"},
         DOMAIN item' = Submission, item'[s].step \in {"sending", "held"},
         \A t \in Submission : /\ DOMAIN item'[t] = ItemFields
                               /\ item'[t].payload = item[t].payload
                               /\ item'[t].callbacks = item[t].callbacks
                               /\ item'[t].deadline = item[t].deadline
                               /\ t # s => item'[t].step = item[t].step,
         UNCHANGED <<now, queue, closeQueue, active, ready, told, counts, closing, closeBy, idle>>
  PROVE  Filed'
<1> DEFINE e == [it |-> item', q |-> queue', cq |-> closeQueue', told |-> told',
                 counts |-> counts', active |-> active']
<1>1. /\ DOMAIN e = StateFields /\ Becomes(e)
      /\ e.it = item' /\ e.q = State.q /\ e.cq = State.cq /\ e.told = State.told
      /\ e.counts = State.counts /\ e.active = State.active
  BY NowFiled DEF StateFields, Becomes
<1> HIDE DEF e
<1>2. /\ Sound(State) /\ Core(State) /\ Lines(State) /\ Slots(State, ready)
      /\ State.it = item /\ State.q = queue /\ State.cq = closeQueue /\ State.active = active
      /\ now \in Nat /\ closeBy \in Nat
  BY NowFiled
<1>3. \A t \in Submission : item'[t].step = "absent" <=> item[t].step = "absent"
  OBVIOUS
<1>4. /\ Items(e.it) /\ QueueOf(State.it, e.q) /\ QueueOf(State.it, e.cq)
  BY <1>1, <1>2 DEF Sound, Items
<1>5. Sound(e)
  BY <1>1, <1>2, <1>3, <1>4, MovesStay
<1>6. Waits(e.it) = Waits(State.it) /\ Sends(e.it) = Sends(State.it)
  BY <1>1, <1>2 DEF Waits, Sends
<1>7. Core(e)
  BY <1>1, <1>2, <1>3, <1>6, MovesCount DEF Core, Live
<1>8. Lines(e) /\ Due(e.it, e.q, now' + Budget) /\ Due(e.it, e.cq, closeBy')
  BY <1>2, InLine, <1>1, LineStays, <1>6 DEF Lines, Filed, Due
<1>9. Slots(e, ready')  BY <1>1, <1>2, <1>6 DEF Slots
<1> QED BY <1>1, <1>2, <1>5, <1>7, <1>8, <1>9, FiledAfter DEF Filed

LEMMA AttemptEndsFiles ==
  ASSUME Filed, NEW s \in Submission, AttemptEnds(s)
  PROVE  Filed'
<1>1. Items(item)  BY NowFiled DEF Sound
<1>2. PICK x \in Result : item' = [item EXCEPT ![s].step = "held", ![s].result = x]
  BY DEF AttemptEnds
<1>3. /\ DOMAIN item' = Submission /\ item'[s].step = "held"
      /\ \A t \in Submission : /\ DOMAIN item'[t] = ItemFields
                               /\ item'[t].payload = item[t].payload
                               /\ item'[t].callbacks = item[t].callbacks
                               /\ item'[t].deadline = item[t].deadline
                               /\ t # s => item'[t].step = item[t].step
  BY <1>1, <1>2 DEF Items, ItemFields
<1> QED BY <1>3, SendStays DEF AttemptEnds

LEMMA SettledFiles ==
  ASSUME Filed, NEW s \in Submission, Settled(s)
  PROVE  Filed'
<1>1. Items(item) /\ item[s].step = "held"
  BY NowFiled DEF Sound, Settled
<1>2. \/ /\ item' = [item EXCEPT ![s].step = "sending", ![s].attempt = @ + 1]
         /\ UNCHANGED <<queue, closeQueue, active, ready, told, counts>>
      \/ /\ Becomes(Finish(State, {s}, IF item[s].result = "sent" THEN "sent" ELSE "dropped"))
         /\ ready' = ready + 1
  BY DEF Settled
<1>3. UNCHANGED <<now, closing, closeBy, idle>>  BY DEF Settled
<1>4. ASSUME item' = [item EXCEPT ![s].step = "sending", ![s].attempt = @ + 1],
             UNCHANGED <<queue, closeQueue, active, ready, told, counts>>
      PROVE  Filed'
  BY <1>1, <1>4, <1>3, SendStays DEF Items, ItemFields
<1>5. ASSUME NEW outcome \in {"sent", "dropped"}, NEW ss, ss = {s},
             NEW e, e = Finish(State, ss, outcome), Becomes(e), ready' = ready + 1
      PROVE  Filed'
 <2>1. /\ Sound(State) /\ Core(State) /\ Lines(State) /\ Slots(State, ready)
       /\ State.it = item /\ State.q = queue /\ State.cq = closeQueue /\ State.active = active
       /\ now \in Nat /\ closeBy \in Nat /\ ready \in Nat
   BY NowFiled
 <2>2. ss \subseteq Live(State.it)  BY <1>1, <1>5, <2>1 DEF Live, Sends
 <2>3. /\ Sound(e) /\ Core(e)
       /\ e.q = State.q /\ e.cq = State.cq /\ e.active = State.active
       /\ Waits(e.it) = Waits(State.it) \ ss /\ Sends(e.it) = Sends(State.it) \ ss
       /\ \A t \in Submission \ ss : e.it[t] = State.it[t]
  <3>1. e = Finish(State, ss, outcome) /\ Sound(State) /\ Core(State)
    BY <1>5, <2>1
  <3> QED BY <2>2, <3>1, FinishCounts, Z3
 <2>4. s \in Sends(State.it) /\ s \notin Waits(State.it)
   BY <1>1, <2>1 DEF Sends, Waits
 <2>5. Waits(e.it) = Waits(State.it) /\ Sends(e.it) = Sends(State.it) \ {s}
   BY <1>5, <2>3, <2>4
 <2>6. Lines(e) /\ Due(e.it, e.q, now' + Budget) /\ Due(e.it, e.cq, closeBy')
  <3>1. In(State.q) \subseteq Waits(State.it) /\ In(State.cq) \subseteq Waits(State.it)
    BY <2>1 DEF Lines
  <3>2. \A t \in In(State.q) \cup In(State.cq) : e.it[t] = State.it[t]
    BY <1>5, <2>3, <2>4, <3>1 DEF Waits
  <3>3. Line(e.it, e.q) /\ Line(e.it, e.cq)
    BY <2>1, <2>3, <3>2, LineStays DEF Lines
  <3>4. Due(State.it, State.q, now + Budget) /\ Due(State.it, State.cq, closeBy)
    BY <2>1 DEF Filed
  <3> QED BY <1>3, <2>1, <2>3, <2>5, <3>2, <3>3, <3>4 DEF Lines, Due
 <2>7. Slots(e, ready')
  <3>1. IsFiniteSet(Sends(State.it)) /\ Cardinality(Sends(State.it)) \in Nat
    BY <2>1, Sending
  <3>2. Cardinality(Sends(e.it)) = Cardinality(Sends(State.it)) - 1
    BY <2>4, <2>5, <3>1, FS_RemoveElement
  <3> QED BY <1>5, <2>1, <2>3, <3>1, <3>2 DEF Slots
 <2>8. (closing' = "open" => e.cq = <<>>) /\ (idle' = "waiting" => e.active > 0)
   BY <1>3, <2>1, <2>3 DEF Filed
 <2>9. now' \in Nat /\ closeBy' \in Nat
   BY <1>3, <2>1
 <2> QED BY <1>5, <2>3, <2>6, <2>7, <2>8, <2>9, FiledAfter
<1> QED BY <1>2, <1>4, <1>5

LEMMA WorkerNextFiles ==
  ASSUME Filed, WorkerNext
  PROVE  Filed'
<1> DEFINE e == Expire(State)
           d == IF e.cq = <<>> /\ e.q = <<>> THEN [e EXCEPT !.active = @ - 1] ELSE Take(e, Head1(e))
<1>1. Becomes(d) /\ Wake(d) /\ ready > 0 /\ ready' = ready - 1 /\ UNCHANGED <<now, closing, closeBy>>
  BY DEF WorkerNext
<1>2. /\ Sound(e) /\ Core(e) /\ Lines(e) /\ Slots(e, ready) /\ e.active = active
      /\ Due(e.it, e.q, now + Budget) /\ Due(e.it, e.cq, closeBy)
      /\ closing = "open" => e.cq = <<>>
  BY ExpireFiles
<1>3. active \in Int /\ ready \in Nat /\ now \in Nat /\ closeBy \in Nat /\ Workers \in Nat
  BY NowFiled, DispatcherAssumption
<1>4. Cardinality(Sends(e.it)) \in Nat  BY <1>2, Sending
<1> HIDE DEF e
<1>5. CASE e.cq = <<>> /\ e.q = <<>>
 <2>1. /\ DOMAIN d = StateFields /\ d.told = e.told /\ d.it = e.it /\ d.q = e.q /\ d.cq = e.cq
       /\ d.counts = e.counts /\ d.active = e.active - 1
   BY <1>2, <1>5 DEF Sound, StateFields
 <2> HIDE DEF d
 <2>2. Sound(d) /\ Core(d) /\ Lines(d)
   BY <1>2, <2>1 DEF Sound, Core, Counted, Lines
 <2>3. Slots(d, ready')  BY <1>1, <1>2, <1>3, <1>4, <1>5, <2>1 DEF Slots
 <2>4. Due(d.it, d.q, now' + Budget) /\ Due(d.it, d.cq, closeBy')
   BY <1>1, <1>2, <2>1
 <2>5. (closing' = "open" => d.cq = <<>>) /\ (idle' = "waiting" => d.active > 0)
  <3>1. d.active \in Nat  BY <1>1, <1>3, <1>4, <2>1, <2>3 DEF Slots
  <3> QED
   <4>1. d.q = <<>> /\ d.cq = <<>> /\ closing' = closing
     BY <1>1, <1>5, <2>1
   <4>2. d.active # 0 \/ idle' # "waiting"
     BY <1>1, <4>1 DEF Wake
   <4> QED BY <3>1, <4>1, <4>2
 <2> QED BY <1>1, <1>3, <2>2, <2>3, <2>4, <2>5, FiledAfter
<1>6. CASE ~(e.cq = <<>> /\ e.q = <<>>)
 <2>1. d = Take(e, Head1(e))  BY <1>6
 <2> HIDE DEF d
 <2>2. /\ Sound(d) /\ Core(d) /\ Lines(d) /\ d.active = e.active
       /\ Head1(e) \in Waits(e.it) /\ Waits(d.it) = Waits(e.it) \ {Head1(e)}
       /\ Sends(d.it) = Sends(e.it) \cup {Head1(e)}
       /\ In(d.q) \subseteq In(e.q) /\ In(d.cq) \subseteq In(e.cq)
       /\ \A s \in Submission : d.it[s].deadline = e.it[s].deadline
  <3>1. Sound(e) /\ Core(e) /\ Lines(e) /\ (e.cq # <<>> \/ e.q # <<>>)
    BY <1>2, <1>6
  <3>2. Sound(d) /\ Core(d) /\ Lines(d)
    BY <2>1, <3>1, TakeCounts
  <3>3. d.active = e.active  BY <2>1, <3>1, TakeCounts
  <3>4. Head1(e) \in Waits(e.it) /\ Waits(d.it) = Waits(e.it) \ {Head1(e)}
    BY <2>1, <3>1, TakeCounts
  <3>5. Sends(d.it) = Sends(e.it) \cup {Head1(e)}  BY <2>1, <3>1, TakeCounts
  <3>6. In(d.q) \subseteq In(e.q) /\ In(d.cq) \subseteq In(e.cq)
    BY <2>1, <3>1, TakeCounts
  <3>7. \A s \in Submission : d.it[s].deadline = e.it[s].deadline
    BY <2>1, <3>1, TakeCounts
  <3> QED BY <3>2, <3>3, <3>4, <3>5, <3>6, <3>7
 <2>3. Cardinality(Sends(d.it)) = Cardinality(Sends(e.it)) + 1  BY <1>2, <2>2, OneMore
 <2>4. Slots(d, ready')  BY <1>1, <1>2, <1>3, <1>4, <1>6, <2>2, <2>3 DEF Slots
 <2>5. Due(d.it, d.q, now' + Budget) /\ Due(d.it, d.cq, closeBy')
   BY <1>2, InLine, <1>1, <2>2 DEF Lines, Due
 <2>6. closing' = "open" => d.cq = <<>>
   BY <1>2, InLine, <2>2, <1>1 DEF Lines
 <2>7. idle' = "waiting" => d.active > 0  BY <1>1, <1>2, <1>3, <1>4, <2>2, <2>3, <2>4 DEF Slots
 <2> QED BY <1>1, <1>3, <2>2, <2>4, <2>5, <2>6, <2>7, FiledAfter
<1> QED BY <1>5, <1>6

LEMMA Earlier ==
  ASSUME NEW a \in Nat, NEW b \in Nat
  PROVE  Min({a, b}) = IF a <= b THEN a ELSE b
BY DEF Min

LEMMA CloseFiles ==
  ASSUME Filed, Close
  PROVE  Filed'
<1> DEFINE e == [it |-> item', q |-> queue', cq |-> closeQueue', told |-> told',
                 counts |-> counts', active |-> active']
<1>1. /\ closing = "open" /\ closing' = "draining" /\ closeBy' = now + CloseBudget
      /\ item' = Clamp(item, closeBy') /\ closeQueue' = closeQueue \o queue /\ queue' = <<>>
      /\ UNCHANGED <<now, active, ready, told, counts, idle>>
  BY DEF Close
<1>2. /\ Sound(State) /\ Core(State) /\ Lines(State) /\ Slots(State, ready)
      /\ State.it = item /\ State.q = queue /\ State.cq = closeQueue /\ State.active = active
      /\ State.told = told /\ State.counts = counts
      /\ now \in Nat /\ closeBy \in Nat
  BY NowFiled
<1>3. closeQueue = <<>> /\ queue \in Seq(Submission)
  BY <1>1, <1>2 DEF Filed, Lines, Line
<1>4. closeQueue' = queue  BY <1>1, <1>3, ConcatEmptySeq
<1>5. closeBy' \in Nat  BY <1>1, <1>2, DispatcherAssumption
<1>6. /\ DOMAIN e = StateFields /\ Becomes(e)
      /\ e.it = item' /\ e.q = <<>> /\ e.cq = queue /\ e.told = told
      /\ e.counts = counts /\ e.active = active
  BY <1>1, <1>4 DEF StateFields, Becomes
<1> HIDE DEF e
<1>7. Items(item) /\ \A s \in Submission : item[s].deadline \in Nat
  BY <1>2 DEF Sound, Core
<1>8. \A s \in Submission : item'[s] = IF item[s].step = "queued"
                                       THEN [item[s] EXCEPT !.deadline = Min({item[s].deadline, closeBy'}),
                                                            !.closeTime = TRUE]
                                       ELSE item[s]
  BY <1>1 DEF Clamp
<1>9. ASSUME NEW s \in Submission
      PROVE  /\ DOMAIN item'[s] = ItemFields /\ item'[s].payload = item[s].payload
             /\ item'[s].callbacks = item[s].callbacks /\ item'[s].step = item[s].step
             /\ item'[s].deadline \in Nat
             /\ item[s].step = "queued" =>
                  item'[s].deadline = IF item[s].deadline <= closeBy' THEN item[s].deadline ELSE closeBy'
 <2>1. DOMAIN item[s] = ItemFields  BY <1>7 DEF Items
 <2>2. CASE item[s].step = "queued"
  <3>1. item'[s] = [item[s] EXCEPT !.deadline = Min({item[s].deadline, closeBy'}), !.closeTime = TRUE]
    BY <1>8, <2>2
  <3>2. Min({item[s].deadline, closeBy'}) = IF item[s].deadline <= closeBy' THEN item[s].deadline ELSE closeBy'
    BY <1>5, <1>7, Earlier
  <3>3. /\ DOMAIN item'[s] = ItemFields /\ item'[s].payload = item[s].payload
        /\ item'[s].callbacks = item[s].callbacks /\ item'[s].step = item[s].step
        /\ item'[s].deadline = Min({item[s].deadline, closeBy'})
    BY <2>1, <3>1 DEF ItemFields
  <3> QED BY <1>5, <1>7, <3>2, <3>3
 <2>3. CASE item[s].step # "queued"
   BY <1>7, <1>8, <2>1, <2>3
 <2> QED BY <2>2, <2>3
<1>10. DOMAIN item' = Submission  BY <1>1 DEF Clamp
<1>11. Sound(e)
 <2>1. Items(e.it)  BY <1>6, <1>7, <1>9, <1>10 DEF Items
 <2>2. \A s \in Submission : /\ e.it[s].callbacks = State.it[s].callbacks
                             /\ e.it[s].step = "absent" <=> State.it[s].step = "absent"
   BY <1>2, <1>6, <1>9
 <2>3. QueueOf(State.it, e.q) /\ QueueOf(State.it, e.cq)
   BY <1>2, <1>6 DEF Sound, QueueOf
 <2> QED BY <1>2, <1>6, <2>1, <2>2, <2>3, MovesStay
<1>12. Waits(e.it) = Waits(item) /\ Sends(e.it) = Sends(item)
  BY <1>6, <1>9 DEF Waits, Sends
<1>13. Core(e)
  BY <1>2, <1>12, <1>6, <1>9, MovesCount DEF Live
<1>14. /\ Line(item, queue) /\ In(queue) = Waits(item) /\ In(<<>>) = {}
  BY <1>2, <1>3 DEF Lines, In
<1>15. Line(item', queue) /\ Due(item', queue, closeBy')
 <2>1. Len(queue) \in Nat /\ \A i \in 1 .. Len(queue) : queue[i] \in Waits(item)
   BY <1>14, InLine
 <2>2. \A s \in Waits(item) :
         /\ item[s].deadline \in Nat
         /\ item'[s].deadline = IF item[s].deadline <= closeBy' THEN item[s].deadline ELSE closeBy'
   BY <1>7, <1>9 DEF Waits
 <2>3. ASSUME NEW i \in 1 .. Len(queue), NEW j \in 1 .. Len(queue), i < j
       PROVE  queue[i] # queue[j] /\ item'[queue[i]].deadline <= item'[queue[j]].deadline
  <3>1. queue[i] # queue[j] /\ item[queue[i]].deadline <= item[queue[j]].deadline
    BY <1>14, <2>3 DEF Line
  <3> QED BY <1>5, <2>1, <2>2, <3>1
 <2>4. Due(item', queue, closeBy')  BY <1>5, <1>14, <2>2 DEF Due
 <2> QED BY <1>3, <2>3, <2>4 DEF Line
<1>16. Lines(e)
  BY <1>6, <1>12, <1>14, <1>15 DEF Line, Lines
<1>17. Due(e.it, e.q, now' + Budget) /\ Due(e.it, e.cq, closeBy')
  BY <1>6, <1>14, <1>15 DEF Due
<1>18. Slots(e, ready')  BY <1>1, <1>2, <1>6, <1>12 DEF Slots
<1>19. (closing' = "open" => e.cq = <<>>) /\ (idle' = "waiting" => e.active > 0) /\ now' \in Nat
  BY <1>1, <1>2, <1>6 DEF Filed
<1> QED BY <1>5, <1>6, <1>11, <1>13, <1>16, <1>17, <1>18, <1>19, FiledAfter

LEMMA FinishCloseFiles ==
  ASSUME Filed, FinishClose
  PROVE  Filed'
<1> DEFINE b == [State EXCEPT !.cq = <<>>]
           ss == Range(closeQueue)
           e == Finish(b, ss, "dropped")
<1>1. Becomes(e) /\ closing' = "closed" /\ UNCHANGED <<now, ready, closeBy, idle>>
  BY DEF FinishClose
<1>2. /\ Sound(State) /\ Core(State) /\ Lines(State) /\ Slots(State, ready)
      /\ State.it = item /\ State.q = queue /\ State.cq = closeQueue /\ State.active = active
      /\ State.told = told /\ State.counts = counts /\ DOMAIN State = StateFields
      /\ now \in Nat /\ closeBy \in Nat
  BY NowFiled
<1>3. /\ DOMAIN b = StateFields /\ b.it = item /\ b.told = told /\ b.q = queue /\ b.cq = <<>>
      /\ b.counts = counts /\ b.active = active
  BY <1>2 DEF StateFields
<1>4. ss = In(closeQueue)
  BY <1>2, LenProperties DEF Lines, Line, Range, In
<1>5. e = Finish(b, ss, "dropped") /\ "dropped" \in {"sent", "dropped"}
  OBVIOUS
<1> HIDE DEF b, ss, e
<1>6. /\ Line(item, queue) /\ In(queue) \cap ss = {} /\ In(queue) \cup ss = Waits(item)
      /\ ss \subseteq Live(item) /\ In(queue) \subseteq Waits(item)
  BY <1>2, <1>4 DEF Lines, Live
<1>7. Sound(b) /\ Core(b)
  BY <1>2, <1>3 DEF QueueOf, Sound, Core, Counted
<1>8. ss \subseteq Live(b.it)  BY <1>3, <1>6
<1>9. Sound(e) /\ Core(e)
  BY <1>5, <1>7, <1>8, FinishCounts
<1>10. e.q = b.q /\ e.cq = b.cq /\ e.active = b.active
  BY <1>5, <1>7, <1>8, FinishCounts
<1>11. Waits(e.it) = Waits(b.it) \ ss /\ Sends(e.it) = Sends(b.it) \ ss
  BY <1>5, <1>7, <1>8, FinishCounts
<1>12. \A s \in Submission \ ss : e.it[s] = b.it[s]
  BY <1>5, <1>7, <1>8, FinishCounts
<1>13. \A s \in In(queue) : e.it[s] = item[s]
  BY <1>3, <1>6, <1>12 DEF Waits
<1>14. Waits(e.it) = In(queue) /\ Sends(e.it) = Sends(item)
  BY <1>6, <1>3, <1>11 DEF Waits, Sends
<1>15. In(<<>>) = {} /\ Line(e.it, <<>>)
  BY DEF In, Line
<1>16. Line(e.it, queue)  BY <1>6, <1>13, LineStays
<1>17. Lines(e)  BY <1>3, <1>10, <1>14, <1>15, <1>16 DEF Lines
<1>18. Due(e.it, e.q, now' + Budget) /\ Due(e.it, e.cq, closeBy')
  BY <1>1, <1>3, <1>10, <1>13, <1>15 DEF Filed, Due
<1>19. Slots(e, ready')  BY <1>1, <1>2, <1>3, <1>10, <1>14 DEF Slots
<1>20. /\ closing' = "open" => e.cq = <<>>
       /\ idle' = "waiting" => e.active > 0
       /\ now' \in Nat /\ closeBy' \in Nat
  BY <1>1, <1>2, <1>3, <1>10 DEF Filed
<1> QED BY <1>1, <1>9, <1>17, <1>18, <1>19, <1>20, FiledAfter

(* What leaves the items, the queues and the workers alone, time passing included. *)
LEMMA RestFiles ==
  ASSUME Filed, UNCHANGED <<item, queue, closeQueue, active, ready, told, counts, closeBy>>,
         closing' = closing, now' \in {now, now + 1}, idle' = "waiting" => active > 0
  PROVE  Filed'
<1>1. /\ Sound(State) /\ Core(State) /\ Lines(State) /\ Slots(State, ready)
      /\ State.it = item /\ State.q = queue /\ State.cq = closeQueue /\ State.active = active
      /\ now \in Nat /\ closeBy \in Nat
  BY NowFiled
<1>2. Becomes(State)  BY NowFiled DEF Becomes
<1>3. Due(item, queue, now + Budget) /\ Due(item, closeQueue, closeBy)
  BY DEF Filed
<1>4. Due(item, queue, now' + Budget)
  BY <1>1, InLine, <1>3, DispatcherAssumption DEF Lines, Core, Due
<1>5. closing' = "open" => State.cq = <<>>  BY <1>1 DEF Filed
<1> QED BY <1>1, <1>2, <1>3, <1>4, <1>5, FiledAfter

LEMMA PendingItems ==
  ASSUME Filed
  PROVE  Pending > 0 <=> queue # <<>> \/ closeQueue # <<>>
<1>1. queue \in Seq(Submission) /\ closeQueue \in Seq(Submission)
  BY NowFiled DEF Lines, Line
<1>2. /\ Len(queue) \in Nat /\ (Len(queue) = 0 <=> queue = <<>>)
      /\ Len(closeQueue) \in Nat /\ (Len(closeQueue) = 0 <=> closeQueue = <<>>)
  BY <1>1, LenProperties, EmptySeq
<1> QED BY <1>2 DEF Pending

LEMMA WhenIdleFiles ==
  ASSUME Filed, WhenIdle
  PROVE  Filed'
<1>1. idle' = "waiting" => active > 0
  BY NowFiled, Sending, LenProperties, PendingItems, DispatcherAssumption DEF Slots, WhenIdle, Pending, Lines, Line
<1> QED BY <1>1, RestFiles DEF WhenIdle

LEMMA FiledInit == Init => Filed
<1> SUFFICES ASSUME Init PROVE Filed
  OBVIOUS
<1>1. /\ State.it = item /\ State.q = <<>> /\ State.cq = <<>> /\ State.told = told
      /\ State.counts = [enqueued |-> 0, merged |-> 0, sent |-> 0, dropped |-> 0]
      /\ State.active = 0 /\ ready = 0 /\ now = 0 /\ closeBy = 0 /\ closing = "open" /\ idle = "none"
      /\ queue = <<>> /\ closeQueue = <<>>
  BY DEF Init, State
<1>2. \A s \in Submission : item[s].step = "absent" /\ item[s].deadline = 0
  BY DEF Init, NoItem
<1>3. Waits(item) = {} /\ Sends(item) = {}
  BY <1>2 DEF Waits, Sends
<1>4. IsFiniteSet({}) /\ Cardinality({}) = 0
  BY FS_EmptySet
<1>5. Core(State)  BY <1>1, <1>2, <1>3, <1>4 DEF Core, Counted, Alone, Covered, Live
<1>6. In(<<>>) = {} /\ Line(item, <<>>)
  BY DEF In, Line
<1>7. Lines(State) /\ Due(item, queue, now + Budget) /\ Due(item, closeQueue, closeBy)
  BY <1>1, <1>3, <1>6 DEF Lines, Due
<1>8. Slots(State, ready)  BY <1>1, <1>3, <1>4, DispatcherAssumption DEF Slots
<1> QED BY <1>1, <1>5, <1>7, <1>8, DispatcherInit DEF Filed

LEMMA FiledStep == Filed /\ [Next]_vars => Filed'
<1> SUFFICES ASSUME Filed, [Next]_vars PROVE Filed'
  OBVIOUS
<1>1. ASSUME NEW s \in Submission, Submit(s) \/ AttemptEnds(s) \/ Settled(s) PROVE Filed'
  BY <1>1, SubmitFiles, AttemptEndsFiles, SettledFiles
<1>2. CASE WorkerNext
  BY <1>2, WorkerNextFiles
<1>3. CASE Close
  BY <1>3, CloseFiles
<1>4. CASE WhenIdle
  BY <1>4, WhenIdleFiles
<1>5. CASE FinishClose
  BY <1>5, FinishCloseFiles
<1>6. CASE Tick
  BY <1>6, RestFiles DEF Tick, Filed
<1>7. CASE UNCHANGED vars
  BY <1>7, RestFiles DEF vars, Filed
<1> QED BY <1>1, <1>2, <1>3, <1>4, <1>5, <1>6, <1>7 DEF Next

LEMMA FiledSlots == Filed => SlotsAreHeld
<1> SUFFICES ASSUME Filed PROVE SlotsAreHeld
  OBVIOUS
<1>1. Busy = Sends(item)  BY DEF Busy, Sends
<1>2. active = Cardinality(Busy) + ready /\ active <= Workers
  BY <1>1, NowFiled DEF Slots
<1>3. Pending > 0 => active = Workers  BY NowFiled, PendingItems DEF Slots
<1>4. Line(item, queue) /\ Line(item, closeQueue)
  BY NowFiled DEF Lines
<1> QED BY <1>2, <1>3, <1>4 DEF SlotsAreHeld, Line

LEMMA FiledLost == Filed => NothingIsLost
<1> SUFFICES ASSUME Filed PROVE NothingIsLost
  OBVIOUS
<1>1. Core(State) /\ State.it = item /\ State.told = told /\ State.counts = counts
  BY NowFiled
<1>2. Busy = Sends(item) /\ Waiting = Waits(item) /\ Live(item) = Waiting \cup Busy
  BY DEF Busy, Sends, Waiting, Waits, Live
<1>3. CountsBalance
 <2>1. IsFiniteSet(Live(item)) /\ Waiting \in SUBSET Live(item) /\ Busy \in SUBSET Live(item)
   BY <1>1, <1>2 DEF Core, Counted
 <2>2. /\ IsFiniteSet(Waiting) /\ Cardinality(Waiting) \in Nat
       /\ IsFiniteSet(Busy) /\ Cardinality(Busy) \in Nat
   BY <2>1, FS_Subset, FS_CardinalityType
 <2>3. Waiting \cap Busy = {}  BY DEF Waiting, Busy
 <2>4. Cardinality(Waiting \cup Busy) = Cardinality(Waiting) + Cardinality(Busy) - Cardinality(Waiting \cap Busy)
   BY <2>2, FS_Union
 <2>5. Cardinality(Live(item)) = Cardinality(Waiting) + Cardinality(Busy)
   BY <1>2, <2>2, <2>3, <2>4, FS_EmptySet
 <2>6. /\ counts \in [enqueued : Nat, merged : Nat, sent : Nat, dropped : Nat]
       /\ counts.enqueued = counts.sent + counts.dropped + Cardinality(Live(item))
   BY <1>1 DEF Core, Counted
 <2> QED BY <2>2, <2>5, <2>6 DEF CountsBalance
<1>4. NobodyForgotten
  BY <1>1, <1>2 DEF Core, Filed, NobodyForgotten, Covered, Alone
<1> QED BY <1>3, <1>4 DEF NothingIsLost

(* Two queues that hold exactly the items that wait, each once and by deadline, nothing that waits
   while a worker is free, and totals that differ by what lives: in every reachable state. *)
THEOREM DispatcherIsFiled == Spec => []Filed
<1> QED BY FiledInit, FiledStep, PTL DEF Spec

(* A slot is the request's until its fetch settles, whatever its attempts decided: requests on the
   wire never outnumber the workers, no item waits while a worker is free, and none waits behind one
   that is due later, so that looking at heads finds all that expired. *)
THEOREM SlotsStayHeld == Spec => []SlotsAreHeld
<1> QED BY DispatcherIsFiled, FiledSlots, PTL

(* No release is lost from the totals, nor anybody who submitted one: whoever was not told yet waits
   in the one live item with that payload, and who waits for the dispatcher to be idle is woken by
   a worker that still runs. *)
THEOREM NoReleaseIsLost == Spec => []NothingIsLost
<1> QED BY DispatcherIsFiled, FiledLost, PTL
=============================================================================
