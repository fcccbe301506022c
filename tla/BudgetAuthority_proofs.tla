------------------------ MODULE BudgetAuthority_proofs ------------------------
(***************************************************************************)
(* Theorems about the authority the budget enforcer retains, for every       *)
(* number of runs, requests, cached allows and remembered denials.           *)
(***************************************************************************)
EXTENDS BudgetAuthority, SequenceTheorems, TLAPS

OrderKinds == {"none", "ordered", "lease", "fallback"}
Orders   == [kind : OrderKinds, dispatch : Nat, observed : Nat, watermark : Nat]
Denials  == [kind : {"none", "ordered", "lease", "fallback"}, dispatch : Nat]
Cached   == [key : Chain, epoch : Nat]
Filed    == [run : Run, at : Int]
Authorities == [order : Orders, deny : Denials, completed : Nat, fallback : Nat,
                cache : Seq(Cached), runs : Seq(Filed)]
Newest   == [dispatch : Nat, denied : BOOLEAN, leased : Nat]
Requests == [kind : {"check", "lease"}, run : Runs, key : Chain, cacheable : BOOLEAN,
             dispatch : Nat, at : Nat, epoch : Nat]

Bounded(a) == Len(a.runs) <= MaxRunDenials /\ Len(a.cache) <= MaxCached

Typed ==
  /\ auth \in Authorities /\ Bounded(auth)
  /\ stopped \in [Run -> Int]
  /\ asked \subseteq Requests
  /\ sequence \in Nat /\ now \in Nat /\ epoch \in Nat
  /\ newest \in Newest

(* What the order of the retained authority says of the answers it has seen: *)
(* its watermark never goes back, and is at least as new as all of them. *)
OrderSound(a, s) ==
  /\ a.order.dispatch <= a.order.watermark /\ a.order.watermark <= s
  /\ a.completed <= a.order.watermark /\ a.fallback <= a.order.watermark
  /\ a.order.kind = "lease" => a.order.watermark < a.order.observed /\ a.order.observed <= s
  /\ a.order.kind # "lease" => a.order.dispatch = a.order.watermark
  /\ a.order.kind = "fallback" => a.fallback = a.order.watermark
  /\ a.order.kind = "none" => a.order.watermark = 0

(* A retained denial is not newer than the order that retains it. *)
DenySound(a) ==
  /\ Denied(a) => a.deny.kind # "none" /\ a.order.kind # "none" /\ a.deny.dispatch <= a.order.watermark
  /\ a.order.kind = "lease" /\ Denied(a) => a.deny.kind = "lease"
  /\ a.deny.kind = "ordered" => a.order.kind \in {"ordered", "fallback"}
  /\ a.order.kind = "ordered" /\ Denied(a) => a.deny.dispatch = a.order.watermark

(* The watermark is explained by what was heard, or by a fallback that still *)
(* denies; and a newest answer that denied fences every older lease answer. *)
HeardSound(a, n) ==
  /\ n.dispatch <= a.order.watermark
  /\ \/ a.order.watermark <= n.dispatch
     \/ a.order.watermark <= n.leased
     \/ Denied(a) /\ a.order.watermark <= a.fallback
  /\ n.denied /\ n.leased < n.dispatch =>
       /\ Denied(a)
       /\ n.dispatch <= a.completed \/ n.dispatch <= a.fallback
  /\ a.deny.kind = "ordered" =>
       n.dispatch <= IF a.order.kind = "fallback" THEN a.fallback ELSE a.deny.dispatch

Sound(a, n, s) == OrderSound(a, s) /\ DenySound(a) /\ HeardSound(a, n)

(* Every request in flight has a number of its own, that no order has taken. *)
AskedSound ==
  /\ \A q \in asked : q.dispatch <= sequence /\ q.dispatch # auth.order.watermark /\ 0 < q.dispatch
  /\ \A p, q \in asked : p.dispatch = q.dispatch => p = q
  /\ \A q \in asked : q.kind = "lease" => q.run \in Run

(* A call let through without asking found no denial of the project. *)
LocalSound == local # "nobody" => ~Denied(auth)

AuthorityInv ==
  /\ Typed /\ Sound(auth, newest, sequence)
  /\ AskedSound /\ LocalSound /\ CacheIsCurrent

-----------------------------------------------------------------------------
(* The order of global authority *)

(* What a step of the global half leaves alone. *)
SameRest(a, b) == b.cache = a.cache /\ b.runs = a.runs
SameGlobal(a, b) ==
  b.order = a.order /\ b.deny = a.deny /\ b.completed = a.completed /\ b.fallback = a.fallback

(* Max of two numbers. *)
LEMMA MaxOfTwo ==
  ASSUME NEW x \in Nat, NEW y \in Nat
  PROVE  /\ Max({x, y}) \in Nat /\ Max({x, y}) >= x /\ Max({x, y}) >= y
         /\ Max({x, y}) \in {x, y}
<1>1. \E z \in {x, y} : \A w \in {x, y} : z >= w
  OBVIOUS
<1> QED BY <1>1 DEF Max

(* What was heard last, after an answer about the project. *)
HearsAllow(n, q) ==
  IF q.dispatch > n.dispatch THEN [n EXCEPT !.dispatch = q.dispatch, !.denied = FALSE] ELSE n
HearsDenial(n, q) ==
  IF q.dispatch > n.dispatch THEN [n EXCEPT !.dispatch = q.dispatch, !.denied = TRUE] ELSE n
HearsLease(n, q) == [n EXCEPT !.leased = Max({@, q.dispatch})]

(* An allow of a check clears a denial only if it is newer than the order, *)
(* and leaves the authority in order. *)
LEMMA OrderedClear ==
  ASSUME NEW a \in Authorities, NEW n \in Newest, NEW s \in Nat, NEW q \in Requests,
         Sound(a, n, s), q.dispatch <= s, q.dispatch # a.order.watermark, 0 < q.dispatch,
         NEW m, m = HearsAllow(n, q),
         NEW b, b = ClearGlobal(a, Ordered(q))
  PROVE  /\ b \in Authorities /\ SameRest(a, b) /\ m \in Newest /\ Sound(b, m, s)
         /\ b.order.watermark \in {a.order.watermark, q.dispatch}
         /\ Denied(b) => Denied(a) /\ a.order.watermark > q.dispatch
         /\ Denied(a) /\ ~Denied(b) => q.dispatch > a.deny.dispatch
<1> DEFINE o == Ordered(q)
<1>m. /\ m \in Newest /\ m.leased = n.leased
      /\ m.dispatch = IF q.dispatch > n.dispatch THEN q.dispatch ELSE n.dispatch
      /\ m.denied = IF q.dispatch > n.dispatch THEN FALSE ELSE n.denied
      /\ ~(q.dispatch > n.dispatch) => m = n
  BY DEF HearsAllow, HearsDenial, Newest, Requests
<1>0. o \in Orders /\ o.kind = "ordered" /\ o.dispatch = q.dispatch /\ o.watermark = q.dispatch
  BY DEF Ordered, Orders, OrderKinds, Requests
<1>1. CASE q.dispatch < a.order.watermark
 <2>1. b = a  BY <1>0, <1>1 DEF ClearGlobal, Authorities, Orders, Requests
 <2>2. HeardSound(a, m)
  <3>1. /\ m.leased = n.leased /\ a.order.watermark \in Nat /\ q.dispatch \in Nat
        /\ n.dispatch \in Nat /\ n.leased \in Nat /\ a.fallback \in Nat /\ a.deny.dispatch \in Nat
        /\ m.dispatch = IF q.dispatch > n.dispatch THEN q.dispatch ELSE n.dispatch
        /\ m.denied => n.denied /\ ~(q.dispatch > n.dispatch)
    BY <1>m DEF Authorities, Orders, Denials, Newest, Requests
  <3>2. a.deny.kind = "ordered" => Denied(a)  BY DEF Denied, NoDenial
  <3> QED BY <1>1, <3>1, <3>2 DEF Sound, HeardSound, OrderSound, DenySound
 <2> QED BY <1>1, <1>m, <2>1, <2>2 DEF Sound, SameRest
<1>2. CASE q.dispatch > a.order.watermark
 <2>1. b = [Completed(a, o) EXCEPT !.order = o, !.deny = NoDenial]
   BY <1>0, <1>2 DEF ClearGlobal, Authorities, Orders, Requests
 <2>2. Max({a.completed, q.dispatch}) \in Nat /\ Max({a.completed, q.dispatch}) <= q.dispatch
       /\ Max({a.completed, q.dispatch}) >= q.dispatch
  <3>1. /\ a.completed \in Nat /\ q.dispatch \in Nat /\ a.order.watermark \in Nat
        /\ a.completed <= a.order.watermark
    BY DEF Sound, OrderSound, Authorities, Orders, Requests
  <3> QED BY <1>2, <3>1, MaxOfTwo
 <2>3. /\ b \in Authorities /\ b.order = o /\ b.deny = NoDenial /\ b.fallback = a.fallback
       /\ b.completed = q.dispatch /\ SameRest(a, b)
  <3>1. NoDenial \in Denials /\ q.dispatch \in Nat
    BY <1>0 DEF Denials, NoDenial, Requests
  <3>2. Completed(a, o) = [a EXCEPT !.completed = q.dispatch]
    BY <1>0, <2>2, <3>1 DEF Completed, Authorities
  <3> QED BY <1>0, <2>1, <3>1, <3>2 DEF Authorities, SameRest
 <2>4. ~Denied(b)  BY <2>3 DEF Denied
 <2>5. OrderSound(b, s) /\ DenySound(b)
   BY <1>0, <1>2, <2>3, <2>4 DEF Sound, OrderSound, DenySound, Authorities, Orders, Requests, NoDenial
 <2>6. HeardSound(b, m)
   BY <1>0, <1>2, <1>m, <2>3, <2>4 DEF Sound, HeardSound, Authorities, Orders, Requests, NoDenial, Newest
 <2> QED
   BY <1>0, <1>2, <1>m, <2>3, <2>4, <2>5, <2>6 DEF Sound, DenySound, Authorities, Orders, Denials, Requests
<1> QED BY <1>1, <1>2 DEF Authorities, Orders, Requests

(* The denial of the project by a check. *)
LEMMA OrderedFile ==
  ASSUME NEW a \in Authorities, NEW n \in Newest, NEW s \in Nat, NEW q \in Requests,
         Sound(a, n, s), q.dispatch <= s, q.dispatch # a.order.watermark, 0 < q.dispatch,
         NEW m, m = HearsDenial(n, q),
         NEW b, b = FileGlobal(a, Ordered(q))
  PROVE  /\ b \in Authorities /\ SameRest(a, b) /\ m \in Newest /\ Sound(b, m, s)
         /\ b.order.watermark \in {a.order.watermark, q.dispatch}
         /\ Denied(a) => Denied(b)
<1> DEFINE o == Ordered(q)
<1>m. /\ m \in Newest /\ m.leased = n.leased
      /\ m.dispatch = IF q.dispatch > n.dispatch THEN q.dispatch ELSE n.dispatch
      /\ m.denied = IF q.dispatch > n.dispatch THEN TRUE ELSE n.denied
      /\ ~(q.dispatch > n.dispatch) => m = n
  BY DEF HearsAllow, HearsDenial, Newest, Requests
<1>0. o \in Orders /\ o.kind = "ordered" /\ o.dispatch = q.dispatch /\ o.watermark = q.dispatch
  BY DEF Ordered, Orders, OrderKinds, Requests
<1>1. CASE q.dispatch < a.order.watermark
 <2>1. b = a  BY <1>0, <1>1 DEF FileGlobal, Authorities, Orders, Requests
 <2>2. HeardSound(a, m)
  <3>1. /\ m.leased = n.leased /\ a.order.watermark \in Nat /\ q.dispatch \in Nat /\ a.completed \in Nat
        /\ n.dispatch \in Nat /\ n.leased \in Nat /\ a.fallback \in Nat /\ a.deny.dispatch \in Nat
        /\ m.dispatch = IF q.dispatch > n.dispatch THEN q.dispatch ELSE n.dispatch
        /\ ~(q.dispatch > n.dispatch) => m = n
    BY <1>m DEF Authorities, Orders, Denials, Newest, Requests
  <3>2. a.deny.kind = "ordered" => Denied(a)  BY DEF Denied, NoDenial
  <3>3. CASE q.dispatch > n.dispatch
    BY <1>1, <3>1, <3>2, <3>3 DEF Sound, HeardSound, OrderSound, DenySound
  <3>4. CASE ~(q.dispatch > n.dispatch)
    BY <3>1, <3>4 DEF Sound
  <3> QED BY <3>3, <3>4
 <2> QED BY <1>1, <1>m, <2>1, <2>2 DEF Sound, SameRest
<1>2. CASE q.dispatch > a.order.watermark
 <2>1. b = [Completed(a, o) EXCEPT !.order = o, !.deny = Retained(o)]
   BY <1>0, <1>2 DEF FileGlobal, Authorities, Orders, Requests
 <2>2. Max({a.completed, q.dispatch}) \in Nat /\ Max({a.completed, q.dispatch}) <= q.dispatch
       /\ Max({a.completed, q.dispatch}) >= q.dispatch
  <3>1. /\ a.completed \in Nat /\ q.dispatch \in Nat /\ a.order.watermark \in Nat
        /\ a.completed <= a.order.watermark
    BY DEF Sound, OrderSound, Authorities, Orders, Requests
  <3> QED BY <1>2, <3>1, MaxOfTwo
 <2>3. /\ b \in Authorities /\ b.order = o /\ b.deny = Retained(o) /\ b.fallback = a.fallback
       /\ b.completed = q.dispatch /\ SameRest(a, b)
  <3>1. Retained(o) \in Denials /\ q.dispatch \in Nat
    BY <1>0 DEF Denials, Retained, Requests
  <3>2. Completed(a, o) = [a EXCEPT !.completed = q.dispatch]
    BY <1>0, <2>2, <3>1 DEF Completed, Authorities
  <3> QED BY <1>0, <2>1, <3>1, <3>2 DEF Authorities, SameRest
 <2>4. Denied(b) /\ b.deny.kind = "ordered" /\ b.deny.dispatch = q.dispatch
   BY <1>0, <2>3 DEF Denied, Retained, NoDenial
 <2>5. OrderSound(b, s) /\ DenySound(b)
   BY <1>0, <1>2, <2>3, <2>4 DEF Sound, OrderSound, DenySound, Authorities, Orders, Requests
 <2>6. HeardSound(b, m)
  <3>1. q.dispatch \in Nat /\ n.dispatch \in Nat /\ a.order.watermark \in Nat /\ n.dispatch <= a.order.watermark
    BY DEF Sound, HeardSound, Authorities, Orders, Requests, Newest
  <3>2. m.dispatch = q.dispatch  BY <1>2, <1>m, <3>1
  <3> QED BY <1>0, <2>3, <2>4, <3>1, <3>2 DEF HeardSound
 <2> QED BY <1>0, <1>m, <2>3, <2>4, <2>5, <2>6 DEF Sound
<1> QED BY <1>1, <1>2 DEF Authorities, Orders, Requests

(* A denial of a run that reached a call without one: weaker than a denial *)
(* of the project, it takes the order and keeps the denial that was there. *)
LEMMA FallbackFile ==
  ASSUME NEW a \in Authorities, NEW n \in Newest, NEW s \in Nat, NEW q \in Requests,
         Sound(a, n, s), q.dispatch <= s, q.dispatch # a.order.watermark, 0 < q.dispatch,
         NEW b, b = FileGlobal(a, Fallback(Ordered(q)))
  PROVE  /\ b \in Authorities /\ SameRest(a, b) /\ Sound(b, n, s)
         /\ b.order.watermark \in {a.order.watermark, q.dispatch}
         /\ Denied(a) => Denied(b)
<1> DEFINE o == Fallback(Ordered(q))
<1>0. o \in Orders /\ o.kind = "fallback" /\ o.dispatch = q.dispatch /\ o.watermark = q.dispatch
  BY DEF Ordered, Fallback, Orders, OrderKinds, Requests
<1>1. CASE Weaker(a, o)
  BY <1>0, <1>1 DEF FileGlobal, SameRest
<1>2. CASE ~Weaker(a, o)
 <2>0. q.dispatch > a.order.watermark
   BY <1>0, <1>2 DEF Weaker, Sound, OrderSound, Authorities, Orders, Requests
 <2>1. b = [a EXCEPT !.fallback = o.dispatch, !.order = o,
                     !.deny = IF Denied(a) THEN @ ELSE Retained(o)]
   BY <1>0, <1>2 DEF FileGlobal
 <2>3. /\ b \in Authorities /\ b.order = o /\ b.fallback = q.dispatch /\ b.completed = a.completed
       /\ b.deny = (IF Denied(a) THEN a.deny ELSE Retained(o)) /\ SameRest(a, b)
  <3>1. Retained(o) \in Denials /\ q.dispatch \in Nat
    BY <1>0 DEF Denials, Retained, Requests
  <3> QED BY <1>0, <2>1, <3>1 DEF Authorities, SameRest
 <2>4. Denied(b) /\ (~Denied(a) => b.deny.kind = "fallback" /\ b.deny.dispatch = q.dispatch)
   BY <1>0, <2>3 DEF Denied, Retained, NoDenial
 <2>5. OrderSound(b, s) /\ DenySound(b)
   BY <1>0, <2>0, <2>3, <2>4 DEF Sound, OrderSound, DenySound, Authorities, Orders, Denials, Requests
 <2>6. HeardSound(b, n)
   BY <1>0, <2>0, <2>3, <2>4 DEF Sound, HeardSound, Authorities, Orders, Denials, Requests, Newest
 <2> QED BY <1>0, <2>3, <2>4, <2>5, <2>6 DEF Sound
<1> QED BY <1>1, <1>2

(* A lease answer is newer than every lease answer before it, and was not *)
(* sent before a check or a fallback the enforcer has an answer to. *)
LEMMA LeaseClear ==
  ASSUME NEW a \in Authorities, NEW n \in Newest, NEW s \in Nat, NEW q \in Requests,
         Sound(a, n, s), q.dispatch <= s, a.completed <= q.dispatch, a.fallback <= q.dispatch,
         NEW m, m = HearsLease(n, q),
         NEW b, b = ClearGlobal(a, Leased(q, s + 1))
  PROVE  /\ b \in Authorities /\ SameRest(a, b) /\ m \in Newest /\ Sound(b, m, s + 1)
         /\ b.order.watermark \in {a.order.watermark, q.dispatch}
         /\ Denied(b) => Denied(a)
         /\ Denied(a) /\ ~Denied(b) => q.dispatch > a.deny.dispatch \/ a.deny.kind = "lease"
<1> DEFINE o == Leased(q, s + 1)
<1>0. /\ o \in Orders /\ o.kind = "lease" /\ o.dispatch = q.dispatch /\ o.watermark = q.dispatch
      /\ o.observed = s + 1
  BY DEF Leased, Orders, OrderKinds, Requests
<1>a. /\ q.dispatch \in Nat /\ n.dispatch \in Nat /\ n.leased \in Nat /\ n.denied \in BOOLEAN
      /\ a.order \in Orders /\ a.deny \in Denials /\ a.completed \in Nat /\ a.fallback \in Nat
  BY DEF Authorities, Newest, Requests
<1>b. /\ m \in Newest /\ m.dispatch = n.dispatch /\ m.denied = n.denied
      /\ m.leased \in Nat /\ m.leased >= n.leased /\ m.leased >= q.dispatch
  BY <1>a, MaxOfTwo DEF Newest, HearsLease
<1>1. ~SeenBefore(a, o)  BY <1>0, <1>a DEF SeenBefore, Sound, OrderSound, Orders
<1>2. CASE a.order.kind # "lease" /\ q.dispatch <= a.order.dispatch
  BY <1>0, <1>1, <1>2, <1>a, <1>b DEF ClearGlobal, Sound, OrderSound, Orders, HeardSound, SameRest
<1>3. CASE ~(a.order.kind # "lease" /\ q.dispatch <= a.order.dispatch)
 <2>1. b = [a EXCEPT !.order = Raised(a, o), !.deny = NoDenial]  BY <1>0, <1>1, <1>3 DEF ClearGlobal
 <2>2. /\ Raised(a, o) \in Orders /\ Raised(a, o).kind = "lease" /\ Raised(a, o).dispatch = q.dispatch
       /\ Raised(a, o).observed = s + 1
       /\ Raised(a, o).watermark \in {a.order.watermark, q.dispatch}
       /\ Raised(a, o).watermark >= a.order.watermark /\ Raised(a, o).watermark >= q.dispatch
   BY <1>0, <1>a, <1>3 DEF Raised, Orders, Sound, OrderSound
 <2>3. /\ b \in Authorities /\ b.order = Raised(a, o) /\ b.deny = NoDenial /\ b.fallback = a.fallback
       /\ b.completed = a.completed /\ SameRest(a, b)
  <3>1. NoDenial \in Denials  BY DEF Denials, NoDenial
  <3> QED BY <2>1, <2>2, <3>1 DEF Authorities, SameRest
 <2>4. ~Denied(b) /\ b.deny.kind = "none"
   BY <2>3 DEF Denied, NoDenial
 <2>5. OrderSound(b, s + 1) /\ DenySound(b)
   BY <1>a, <2>2, <2>3, <2>4 DEF Sound, OrderSound, DenySound, Orders
 <2>6. HeardSound(b, m)  BY <1>a, <1>b, <2>2, <2>3, <2>4 DEF Sound, HeardSound, OrderSound, Orders
 <2>7. Denied(a) => q.dispatch > a.deny.dispatch \/ a.deny.kind = "lease"
   BY <1>a, <1>3 DEF Sound, DenySound, OrderSound, Orders, Denials
 <2> QED BY <1>b, <2>2, <2>3, <2>4, <2>5, <2>6, <2>7 DEF Sound
<1> QED BY <1>2, <1>3

(* A denial of the project by a lease answer. *)
LEMMA LeaseFile ==
  ASSUME NEW a \in Authorities, NEW n \in Newest, NEW s \in Nat, NEW q \in Requests,
         Sound(a, n, s), q.dispatch <= s, a.completed <= q.dispatch,
         NEW m, m = HearsLease(n, q),
         NEW b, b = FileGlobal(a, Leased(q, s + 1))
  PROVE  /\ b \in Authorities /\ SameRest(a, b) /\ m \in Newest /\ Sound(b, m, s + 1)
         /\ b.order.watermark \in {a.order.watermark, q.dispatch}
         /\ Denied(a) => Denied(b)
<1> DEFINE o == Leased(q, s + 1)
<1>0. /\ o \in Orders /\ o.kind = "lease" /\ o.dispatch = q.dispatch /\ o.watermark = q.dispatch
      /\ o.observed = s + 1
  BY DEF Leased, Orders, OrderKinds, Requests
<1>a. /\ q.dispatch \in Nat /\ n.dispatch \in Nat /\ n.leased \in Nat /\ n.denied \in BOOLEAN
      /\ a.order \in Orders /\ a.deny \in Denials /\ a.completed \in Nat /\ a.fallback \in Nat
  BY DEF Authorities, Newest, Requests
<1>b. /\ m \in Newest /\ m.dispatch = n.dispatch /\ m.denied = n.denied
      /\ m.leased \in Nat /\ m.leased >= n.leased /\ m.leased >= q.dispatch
  BY <1>a, MaxOfTwo DEF Newest, HearsLease
<1>1. ~SeenBefore(a, o)  BY <1>0, <1>a DEF SeenBefore, Sound, OrderSound, Orders
<1>2. CASE a.order.kind = "ordered" /\ q.dispatch < a.order.dispatch
  BY <1>0, <1>1, <1>2, <1>a, <1>b DEF FileGlobal, Sound, OrderSound, Orders, HeardSound, SameRest
<1>3. CASE ~(a.order.kind = "ordered" /\ q.dispatch < a.order.dispatch)
 <2> DEFINE f == Fenced(a, o)
 <2>1. b = [a EXCEPT !.order = f, !.deny = Retained(o)]  BY <1>0, <1>1, <1>3 DEF FileGlobal
 <2>2. /\ f \in Orders /\ f.kind = "lease" /\ f.dispatch = q.dispatch
       /\ f.observed = s + 1
       /\ f.watermark \in {a.order.watermark, q.dispatch}
       /\ f.watermark >= a.order.watermark /\ f.watermark >= q.dispatch
  <3>1. CASE a.order.kind = "fallback" /\ a.order.dispatch > o.watermark
    BY <1>0, <1>a, <3>1 DEF Fenced, Orders, Sound, OrderSound
  <3>2. CASE ~(a.order.kind = "fallback" /\ a.order.dispatch > o.watermark)
    BY <3>2, <1>0, <1>a, <1>3 DEF Fenced, Raised, Orders, OrderKinds, Sound, OrderSound
  <3> QED BY <3>1, <3>2
 <2> HIDE DEF f
 <2>3. /\ b \in Authorities /\ b.order = f /\ b.deny = Retained(o) /\ b.fallback = a.fallback
       /\ b.completed = a.completed /\ SameRest(a, b)
  <3>1. Retained(o) \in Denials  BY <1>0, <1>a DEF Denials, Retained
  <3> QED BY <2>1, <2>2, <3>1 DEF Authorities, SameRest
 <2>4. Denied(b) /\ b.deny.kind = "lease" /\ b.deny.dispatch = q.dispatch
   BY <1>0, <2>3 DEF Denied, Retained, NoDenial
 <2>5. OrderSound(b, s + 1) /\ DenySound(b)
   BY <1>a, <2>2, <2>3, <2>4 DEF Sound, OrderSound, DenySound, Orders
 <2>6. HeardSound(b, m)  BY <1>a, <1>b, <2>2, <2>3, <2>4 DEF Sound, HeardSound, OrderSound, Orders
 <2> QED BY <1>b, <2>2, <2>3, <2>4, <2>5, <2>6 DEF Sound
<1> QED BY <1>2, <1>3

-----------------------------------------------------------------------------
(* Insertion-ordered maps *)

LEMMA RemovedAt ==
  ASSUME NEW S, NEW s \in Seq(S), NEW i \in 1 .. Len(s)
  PROVE  /\ RemoveAt(s, i) \in Seq(S) /\ Len(RemoveAt(s, i)) = Len(s) - 1
         /\ \A k \in 1 .. Len(s) - 1 :
              RemoveAt(s, i)[k] = IF k < i THEN s[k] ELSE s[k + 1]
<1> DEFINE x == SubSeq(s, 1, i - 1)
           y == SubSeq(s, i + 1, Len(s))
<1>0. Len(s) \in Nat /\ i \in Nat /\ \A k \in 1 .. Len(s) : s[k] \in S
  BY LenProperties, ElementOfSeq
<1>1. x \in Seq(S) /\ Len(x) = i - 1 /\ \A k \in 1 .. i - 1 : x[k] = s[k]
  BY <1>0, SubSeqProperties
<1>2. y \in Seq(S) /\ Len(y) = Len(s) - i /\ \A k \in 1 .. Len(s) - i : y[k] = s[i + k]
  BY <1>0, SubSeqProperties
<1> HIDE DEF x, y
<1>3. x \o y \in Seq(S) /\ Len(x \o y) = Len(s) - 1
 <2>1. x \in Seq(S)  BY <1>1
 <2>2. y \in Seq(S)  BY <1>2
 <2>3. x \o y \in Seq(S) /\ Len(x \o y) = Len(x) + Len(y)
   BY <2>1, <2>2, ConcatProperties
 <2>4. Len(x) + Len(y) = Len(s) - 1  BY <1>0, <1>1, <1>2
 <2>5. QED BY <2>3, <2>4
<1>4. ASSUME NEW k \in 1 .. Len(s) - 1
      PROVE  (x \o y)[k] = IF k < i THEN s[k] ELSE s[k + 1]
 <2>1. (x \o y)[k] = IF k <= Len(x) THEN x[k] ELSE y[k - Len(x)]
   BY <1>0, <1>1, <1>2, ConcatProperties
 <2>2. CASE k < i
   BY <1>0, <1>1, <2>1, <2>2
 <2>3. CASE ~(k < i)
   BY <1>0, <2>3, <1>1, <1>2, <2>1
 <2> QED BY <2>2, <2>3
<1> QED BY <1>3, <1>4 DEF RemoveAt, x, y

AllFrom(t, s) == \A k \in 1 .. Len(t) : \E j \in 1 .. Len(s) : t[k] = s[j]
AllBut(s, t, at) == \A j \in (1 .. Len(s)) \ at : \E k \in 1 .. Len(t) : t[k] = s[j]

(* Deleting an entry leaves the others. *)
LEMMA DeletedEntry ==
  ASSUME NEW S, NEW s \in Seq(S), NEW at, at \subseteq 1 .. Len(s)
  PROVE  /\ Deleted(s, at) \in Seq(S)
         /\ Len(Deleted(s, at)) = IF at = {} THEN Len(s) ELSE Len(s) - 1
         /\ AllFrom(Deleted(s, at), s) /\ AllBut(s, Deleted(s, at), at)
<1>0. Len(s) \in Nat  BY LenProperties
<1>1. CASE at = {}
  BY <1>1 DEF Deleted, AllFrom, AllBut
<1>2. CASE at # {}
 <2> DEFINE i == CHOOSE i \in at : TRUE
            t == RemoveAt(s, i)
 <2>1. i \in at /\ i \in 1 .. Len(s)
   BY <1>2
 <2>2. Deleted(s, at) = t  BY <1>2 DEF Deleted
 <2> HIDE DEF i
 <2>3. /\ t \in Seq(S) /\ Len(t) = Len(s) - 1
       /\ \A k \in 1 .. Len(s) - 1 : t[k] = IF k < i THEN s[k] ELSE s[k + 1]
   BY <2>1, RemovedAt
 <2> HIDE DEF t
 <2>4. ASSUME NEW k \in 1 .. Len(t) PROVE \E j \in 1 .. Len(s) : t[k] = s[j]
   BY <1>0, <2>3
 <2>5. ASSUME NEW j \in (1 .. Len(s)) \ at PROVE \E k \in 1 .. Len(t) : t[k] = s[j]
  <3>1. CASE j < i
    BY <1>0, <2>1, <2>3, <3>1
  <3>2. CASE j > i
   <4>1. j - 1 \in 1 .. Len(t) /\ ~(j - 1 < i) /\ (j - 1) + 1 = j
     BY <1>0, <2>1, <2>3, <3>2
   <4> QED BY <2>3, <4>1
  <3> QED BY <1>0, <2>1, <3>1, <3>2
 <2> QED BY <1>2, <2>2, <2>3, <2>4, <2>5 DEF AllFrom, AllBut
<1> QED BY <1>1, <1>2

(* Appending keeps the entries that were there, in place. *)
LEMMA AppendedEntry ==
  ASSUME NEW S, NEW s \in Seq(S), NEW e \in S
  PROVE  /\ Append(s, e) \in Seq(S) /\ Len(Append(s, e)) = Len(s) + 1
         /\ \A k \in 1 .. Len(s) : Append(s, e)[k] = s[k]
         /\ Append(s, e)[Len(s) + 1] = e
  BY LenProperties, AppendProperties

(* Touching an entry keeps all of them. *)
LEMMA TouchedEntry ==
  ASSUME NEW S, NEW s \in Seq(S), NEW at, at \subseteq 1 .. Len(s)
  PROVE  /\ Touched(s, at) \in Seq(S) /\ Len(Touched(s, at)) = Len(s)
         /\ AllFrom(Touched(s, at), s) /\ AllBut(s, Touched(s, at), {})
<1>0. Len(s) \in Nat  BY LenProperties
<1>1. CASE at = {}
  BY <1>1 DEF Touched, AllFrom, AllBut
<1>2. CASE at # {}
 <2> DEFINE i == CHOOSE i \in at : TRUE
            t == RemoveAt(s, i)
            u == Append(t, s[i])
 <2>1. i \in at /\ i \in 1 .. Len(s)
   BY <1>2
 <2>2. Touched(s, at) = u  BY <1>2 DEF Touched
 <2> HIDE DEF i
 <2>3. /\ t \in Seq(S) /\ Len(t) = Len(s) - 1
       /\ \A k \in 1 .. Len(s) - 1 : t[k] = IF k < i THEN s[k] ELSE s[k + 1]
   BY <2>1, RemovedAt
 <2>4. s[i] \in S  BY <2>1, ElementOfSeq
 <2> HIDE DEF t
 <2>5. /\ u \in Seq(S) /\ Len(u) = Len(s) /\ u[Len(s)] = s[i]
       /\ \A k \in 1 .. Len(s) - 1 : u[k] = t[k]
   BY <1>0, <2>3, <2>4, AppendedEntry
 <2> HIDE DEF u
 <2>6. ASSUME NEW k \in 1 .. Len(s) PROVE \E j \in 1 .. Len(s) : u[k] = s[j]
  <3>1. CASE k = Len(s)
    BY <2>1, <2>5, <3>1
  <3>2. CASE k # Len(s)
    BY <1>0, <3>2, <2>3, <2>5
  <3> QED BY <3>1, <3>2
 <2>7. ASSUME NEW j \in 1 .. Len(s) PROVE \E k \in 1 .. Len(s) : u[k] = s[j]
  <3>1. CASE j < i
    BY <1>0, <2>1, <3>1, <2>3, <2>5
  <3>2. CASE j > i
   <4>1. j - 1 \in 1 .. Len(s) - 1 /\ ~(j - 1 < i) /\ (j - 1) + 1 = j /\ j - 1 \in 1 .. Len(s)
     BY <1>0, <2>1, <3>2
   <4>2. u[j - 1] = s[j]  BY <2>3, <2>5, <4>1
   <4> QED BY <4>1, <4>2
  <3>3. CASE j = i
    BY <1>0, <2>5, <3>3
  <3> QED BY <1>0, <2>1, <3>1, <3>2, <3>3
 <2> QED BY <2>2, <2>5, <2>6, <2>7 DEF AllFrom, AllBut
<1> QED BY <1>1, <1>2

OnlyTheFirstLost(s, t, n) ==
  \A j \in 1 .. Len(s) : (\E k \in 1 .. Len(t) : t[k] = s[j]) \/ (j = 1 /\ Len(s) = n + 1)

(* The bound drops the least recently used entry only. *)
LEMMA LastOnes ==
  ASSUME NEW S, NEW s \in Seq(S), NEW n \in Nat \ {0}, Len(s) <= n + 1
  PROVE  /\ LastEntries(s, n) \in Seq(S) /\ Len(LastEntries(s, n)) <= n
         /\ AllFrom(LastEntries(s, n), s)
         /\ OnlyTheFirstLost(s, LastEntries(s, n), n)
<1>0. Len(s) \in Nat /\ \A k \in 1 .. Len(s) : s[k] \in S
  BY LenProperties, ElementOfSeq
<1>1. CASE Len(s) <= n
 <2>1. Max({1, Len(s) - n + 1}) = 1
   BY <1>0, <1>1 DEF Max
 <2>2. LastEntries(s, n) = s  BY <1>0, <2>1, SubSeqFull DEF LastEntries
 <2>3. \A k \in 1 .. Len(s) : \E j \in 1 .. Len(s) : s[k] = s[j]
   OBVIOUS
 <2>4. ASSUME NEW j \in 1 .. Len(s)
       PROVE  (\E k \in 1 .. Len(s) : s[k] = s[j]) \/ (j = 1 /\ Len(s) = n + 1)
  <3>1. \E k \in 1 .. Len(s) : s[k] = s[j]
   <4> WITNESS j \in 1 .. Len(s)
   <4> QED OBVIOUS
  <3> QED BY <3>1
 <2> QED BY ONLY <1>1, <2>2, <2>3, <2>4, s \in Seq(S) DEF OnlyTheFirstLost, AllFrom
<1>2. CASE Len(s) = n + 1
 <2>1. Max({1, Len(s) - n + 1}) = 2
   BY <1>0, <1>2 DEF Max
 <2> DEFINE t == SubSeq(s, 2, Len(s))
 <2>2. LastEntries(s, n) = t  BY <2>1 DEF LastEntries
 <2>3. /\ t \in Seq(S) /\ Len(t) = n /\ \A k \in 1 .. n : t[k] = s[k + 1]
  <3>1. \A k \in 2 .. Len(s) : s[k] \in S
    BY <1>0
  <3>2. /\ t \in Seq(S) /\ Len(t) = Len(s) - 2 + 1
        /\ \A k \in 1 .. Len(s) - 2 + 1 : t[k] = s[2 + k - 1]
    BY <1>0, <1>2, <3>1, SubSeqProperties
  <3>3. ASSUME NEW k \in 1 .. n PROVE t[k] = s[k + 1]
    BY <1>0, <1>2, <3>2
  <3> QED BY <1>0, <1>2, <3>2, <3>3
 <2> HIDE DEF t
 <2>4. ASSUME NEW k \in 1 .. n PROVE \E j \in 1 .. Len(s) : t[k] = s[j]
   BY <1>0, <1>2, <2>3
 <2>5. ASSUME NEW j \in 1 .. Len(s), j # 1 PROVE \E k \in 1 .. n : t[k] = s[j]
  <3>1. j - 1 \in 1 .. n /\ (j - 1) + 1 = j
    BY <1>0, <1>2, <2>5
  <3> QED BY <2>3, <3>1
 <2> QED BY <1>2, <2>2, <2>3, <2>4, <2>5 DEF OnlyTheFirstLost, AllFrom
<1> QED BY <1>0, <1>1, <1>2

-----------------------------------------------------------------------------
(* The remembered denials of runs *)

(* What may cost a run its denial: an answer to a request that left after it, *)
(* or the bound, for the least recently used. *)
RunsKept(a, b, q) ==
  \A x \in Run : DeniedAt(a.runs, x) # {} /\ DeniedAt(b.runs, x) = {} =>
    \/ q.run = x /\ \A at \in DeniedAt(a.runs, x) : q.at > at
    \/ Len(a.runs) = MaxRunDenials /\ Head(a.runs).run = x

(* A run is denied when an entry is its own. *)
LEMMA RunsAt ==
  ASSUME NEW runs \in Seq(Filed), NEW x
  PROVE  /\ RunAt(runs, x) \subseteq 1 .. Len(runs)
         /\ DeniedAt(runs, x) # {} <=> \E j \in 1 .. Len(runs) : runs[j].run = x
<1>1. DOMAIN runs = 1 .. Len(runs)  BY LenProperties
<1> QED BY <1>1 DEF RunAt, DeniedAt

(* When a denial was seen is a time. *)
LEMMA DeniedTyped ==
  ASSUME NEW runs \in Seq(Filed), NEW x
  PROVE  \A at \in DeniedAt(runs, x) : at \in Int
<1>1. \A j \in 1 .. Len(runs) : runs[j] \in Filed
  BY ElementOfSeq
<1>2. RunAt(runs, x) \subseteq 1 .. Len(runs)  BY RunsAt
<1> QED BY <1>1, <1>2 DEF DeniedAt, Filed

(* Dropping a run's denial costs no other run its own. *)
LEMMA DroppedRun ==
  ASSUME NEW runs \in Seq(Filed), NEW r
  PROVE  /\ WithoutRun(runs, r) \in Seq(Filed) /\ Len(WithoutRun(runs, r)) <= Len(runs)
         /\ Len(WithoutRun(runs, r)) = Len(runs) => WithoutRun(runs, r) = runs
         /\ \A x : x # r /\ DeniedAt(runs, x) # {} => DeniedAt(WithoutRun(runs, r), x) # {}
<1> DEFINE t == WithoutRun(runs, r)
<1>0. Len(runs) \in Nat  BY LenProperties
<1>1. RunAt(runs, r) \subseteq 1 .. Len(runs)  BY RunsAt
<1>2. /\ t \in Seq(Filed)
      /\ Len(t) = IF RunAt(runs, r) = {} THEN Len(runs) ELSE Len(runs) - 1
      /\ AllBut(runs, t, RunAt(runs, r))
  BY <1>1, DeletedEntry DEF WithoutRun
<1>3. RunAt(runs, r) = {} => t = runs  BY DEF WithoutRun, Deleted
<1> HIDE DEF t
<1>4. ASSUME NEW x, x # r, DeniedAt(runs, x) # {} PROVE DeniedAt(t, x) # {}
 <2>1. PICK j \in 1 .. Len(runs) : runs[j].run = x
   BY <1>4, RunsAt
 <2>2. j \notin RunAt(runs, r)  BY <1>4, <2>1 DEF RunAt
 <2>3. PICK k \in 1 .. Len(t) : t[k] = runs[j]
   BY <1>2, <2>2 DEF AllBut
 <2> QED BY <1>2, <2>1, <2>3, RunsAt
<1> QED BY <1>0, <1>2, <1>3, <1>4 DEF t

(* Touching reorders the denials and loses none. *)
LEMMA TouchedRun ==
  ASSUME NEW runs \in Seq(Filed), NEW r
  PROVE  LET t == Touched(runs, RunAt(runs, r))
         IN  /\ t \in Seq(Filed) /\ Len(t) = Len(runs)
             /\ \A x : DeniedAt(runs, x) # {} => DeniedAt(t, x) # {}
<1> DEFINE t == Touched(runs, RunAt(runs, r))
<1>1. RunAt(runs, r) \subseteq 1 .. Len(runs)  BY RunsAt
<1>2. /\ t \in Seq(Filed) /\ Len(t) = Len(runs)
      /\ AllBut(runs, t, {})
  BY <1>1, TouchedEntry
<1> HIDE DEF t
<1>3. ASSUME NEW x, DeniedAt(runs, x) # {} PROVE DeniedAt(t, x) # {}
 <2>1. PICK j \in 1 .. Len(runs) : runs[j].run = x
   BY <1>3, RunsAt
 <2>2. PICK k \in 1 .. Len(t) : t[k] = runs[j]
   BY <1>2 DEF AllBut
 <2> QED BY <1>2, <2>1, <2>2, RunsAt
<1> QED BY <1>2, <1>3 DEF t

(* Filing a denial of one run costs at most the least recently used another. *)
LEMMA FiledRun ==
  ASSUME NEW runs \in Seq(Filed), Len(runs) <= MaxRunDenials, NEW r \in Run, NEW at \in Int
  PROVE  LET t == LastEntries(Append(WithoutRun(runs, r), [run |-> r, at |-> at]), MaxRunDenials)
         IN  /\ t \in Seq(Filed) /\ Len(t) <= MaxRunDenials
             /\ \A x : DeniedAt(runs, x) # {} /\ DeniedAt(t, x) = {} =>
                        Len(runs) = MaxRunDenials /\ Head(runs).run = x
<1> DEFINE e == [run |-> r, at |-> at]
           u == WithoutRun(runs, r)
           v == Append(u, e)
           t == LastEntries(v, MaxRunDenials)
<1>0. Len(runs) \in Nat /\ MaxRunDenials \in Nat \ {0} /\ e \in Filed
  BY LenProperties, AuthorityAssumption DEF Filed
<1>1. /\ u \in Seq(Filed) /\ Len(u) <= Len(runs) /\ (Len(u) = Len(runs) => u = runs)
      /\ \A x : x # r /\ DeniedAt(runs, x) # {} => DeniedAt(u, x) # {}
  BY DroppedRun
<1>2. Len(u) \in Nat  BY <1>1, LenProperties
<1> HIDE DEF u
<1>3. /\ v \in Seq(Filed) /\ Len(v) = Len(u) + 1
      /\ \A k \in 1 .. Len(u) : v[k] = u[k]
      /\ v[Len(u) + 1] = e
  BY <1>0, <1>1, AppendedEntry
<1> HIDE DEF v
<1>4. /\ t \in Seq(Filed) /\ Len(t) <= MaxRunDenials
      /\ \A j \in 1 .. Len(v) :
           (\E k \in 1 .. Len(t) : t[k] = v[j]) \/ (j = 1 /\ Len(v) = MaxRunDenials + 1)
 <2>1. Len(v) <= MaxRunDenials + 1  BY <1>0, <1>1, <1>2, <1>3
 <2>2. t \in Seq(Filed) /\ Len(t) <= MaxRunDenials /\ OnlyTheFirstLost(v, t, MaxRunDenials)
   BY <1>0, <1>3, <2>1, LastOnes
 <2> QED BY <2>2 DEF OnlyTheFirstLost
<1> HIDE DEF t
<1>5. ASSUME NEW x, DeniedAt(runs, x) # {}, DeniedAt(t, x) = {}
      PROVE  Len(runs) = MaxRunDenials /\ Head(runs).run = x
 <2>1. \A k \in 1 .. Len(t) : t[k].run # x
   BY <1>4, <1>5, RunsAt
 <2>2. x # r
   BY <1>0, <1>2, <1>3, <1>4, <2>1
 <2>3. PICK j \in 1 .. Len(u) : u[j].run = x
   BY <1>1, <1>5, <2>2, RunsAt
 <2>4. j \in 1 .. Len(v) /\ v[j].run = x
   BY <1>2, <1>3, <2>3
 <2>5. j = 1 /\ Len(v) = MaxRunDenials + 1
   BY <1>4, <2>1, <2>4
 <2>6. u = runs /\ Len(runs) = MaxRunDenials
   BY <1>0, <1>1, <1>2, <1>3, <2>5
 <2>7. Head(runs) = runs[1]
   BY <1>0, <2>6, SubSeqFull, HeadTailOfSubSeq
 <2> QED BY <2>3, <2>5, <2>6, <2>7
<1> QED BY <1>4, <1>5 DEF t, v, u

(* Filing, touching and dropping denials of runs leave the project alone. *)
LEMMA TouchStep ==
  ASSUME NEW a \in Authorities, Len(a.runs) <= MaxRunDenials, NEW r, NEW b, b = TouchRun(a, r), NEW q
  PROVE  /\ b \in Authorities /\ SameGlobal(a, b) /\ b.cache = a.cache
         /\ Len(b.runs) <= MaxRunDenials /\ RunsKept(a, b, q)
         /\ \A x : DeniedAt(a.runs, x) # {} => DeniedAt(b.runs, x) # {}
<1> DEFINE t == Touched(a.runs, RunAt(a.runs, r))
<1>0. a.runs \in Seq(Filed)  BY DEF Authorities
<1>1. /\ t \in Seq(Filed) /\ Len(t) = Len(a.runs)
      /\ \A x : DeniedAt(a.runs, x) # {} => DeniedAt(t, x) # {}
  BY <1>0, TouchedRun
<1>2. b = [a EXCEPT !.runs = t]  BY DEF TouchRun
<1> HIDE DEF t
<1>3. b \in Authorities /\ SameGlobal(a, b) /\ b.cache = a.cache /\ b.runs = t
  BY <1>1, <1>2 DEF Authorities, SameGlobal
<1> QED BY <1>1, <1>3 DEF RunsKept

(* Filing leaves the project's authority alone. *)
LEMMA FileStep ==
  ASSUME NEW a \in Authorities, Len(a.runs) <= MaxRunDenials, NEW r \in Run, NEW at \in Int,
         NEW b, b = FileRun(a, r, at), NEW q
  PROVE  /\ b \in Authorities /\ SameGlobal(a, b) /\ b.cache = a.cache
         /\ Len(b.runs) <= MaxRunDenials /\ RunsKept(a, b, q)
<1> DEFINE t == LastEntries(Append(WithoutRun(a.runs, r), [run |-> r, at |-> at]), MaxRunDenials)
<1>0. a.runs \in Seq(Filed)  BY DEF Authorities
<1>1. /\ t \in Seq(Filed) /\ Len(t) <= MaxRunDenials
      /\ \A x : DeniedAt(a.runs, x) # {} /\ DeniedAt(t, x) = {} =>
                 Len(a.runs) = MaxRunDenials /\ Head(a.runs).run = x
  BY <1>0, FiledRun
<1>2. b = [a EXCEPT !.runs = t]  BY DEF FileRun
<1> HIDE DEF t
<1>3. b \in Authorities /\ SameGlobal(a, b) /\ b.cache = a.cache /\ b.runs = t
  BY <1>1, <1>2 DEF Authorities, SameGlobal
<1> QED BY <1>1, <1>3 DEF RunsKept

(* So does dropping. *)
LEMMA DropStep ==
  ASSUME NEW a \in Authorities, Len(a.runs) <= MaxRunDenials, NEW r,
         NEW b, b = [a EXCEPT !.runs = WithoutRun(@, r)]
  PROVE  /\ b \in Authorities /\ SameGlobal(a, b) /\ b.cache = a.cache
         /\ Len(b.runs) <= MaxRunDenials /\ b.runs = WithoutRun(a.runs, r)
<1> DEFINE t == WithoutRun(a.runs, r)
<1>0. a.runs \in Seq(Filed) /\ Len(a.runs) \in Nat /\ MaxRunDenials \in Nat
  BY LenProperties, AuthorityAssumption DEF Authorities
<1>1. t \in Seq(Filed) /\ Len(t) <= Len(a.runs)
  BY <1>0, DroppedRun
<1>2. Len(t) \in Nat  BY <1>1, LenProperties
<1> HIDE DEF t
<1>3. b \in Authorities /\ SameGlobal(a, b) /\ b.cache = a.cache /\ b.runs = t
  BY <1>1 DEF Authorities, SameGlobal, t
<1> QED BY <1>0, <1>1, <1>2, <1>3 DEF t

(* And an allow, whose run may be denied, resumed or stopped meanwhile. *)
LEMMA FoldedRun ==
  ASSUME stopped \in [Run -> Int], NEW a \in Authorities, Len(a.runs) <= MaxRunDenials,
         NEW q \in Requests,
         NEW b, b = FoldRun(a, q)
  PROVE  /\ b \in Authorities /\ SameGlobal(a, b) /\ b.cache = a.cache
         /\ Len(b.runs) <= MaxRunDenials /\ RunsKept(a, b, q)
<1>0. /\ a.runs \in Seq(Filed) /\ Len(a.runs) \in Nat /\ MaxRunDenials \in Nat /\ 0 \in Int
      /\ q.run \in Runs /\ q.at \in Int
  BY LenProperties, AuthorityAssumption DEF Authorities, Requests
<1> DEFINE c == [a EXCEPT !.runs = WithoutRun(@, q.run)]
<1>1. /\ c \in Authorities /\ SameGlobal(a, c) /\ c.cache = a.cache
      /\ Len(c.runs) <= MaxRunDenials /\ c.runs = WithoutRun(a.runs, q.run)
  BY <1>0, DropStep
<1> HIDE DEF c
<1>2. /\ c.runs \in Seq(Filed) /\ Len(c.runs) \in Nat
      /\ Len(c.runs) <= Len(a.runs) /\ (Len(c.runs) = Len(a.runs) => c.runs = a.runs)
      /\ \A x : x # q.run /\ DeniedAt(a.runs, x) # {} => DeniedAt(c.runs, x) # {}
  BY <1>0, <1>1, DroppedRun, LenProperties
<1>3. CASE q.run = NoRun
  BY <1>3 DEF FoldRun, SameGlobal, RunsKept
<1>4. CASE q.run # NoRun /\ RunDenialAfter(a, q)
  BY <1>4, <1>0, TouchStep DEF FoldRun
<1>5. CASE q.run # NoRun /\ ~RunDenialAfter(a, q)
 <2>1. q.run \in Run /\ \A at \in DeniedAt(a.runs, q.run) : ~(at >= q.at)
   BY <1>0, <1>5 DEF Runs, RunDenialAfter
 <2>2. \A at \in DeniedAt(a.runs, q.run) : at \in Int
   BY <1>0, DeniedTyped
 <2>3. \A at \in DeniedAt(a.runs, q.run) : q.at > at
   BY <1>0, <2>1, <2>2
 <2>4. CASE ServerStopAfter(q)
  <3>1. b = FileRun(c, q.run, stopped[q.run]) /\ stopped[q.run] \in Int
    BY <1>5, <2>1, <2>4 DEF FoldRun, c
  <3>2. /\ b \in Authorities /\ SameGlobal(c, b) /\ b.cache = c.cache
        /\ Len(b.runs) <= MaxRunDenials /\ RunsKept(c, b, q)
    BY <1>1, <2>1, <3>1, FileStep
  <3>3. ASSUME NEW x \in Run, DeniedAt(a.runs, x) # {}, DeniedAt(b.runs, x) = {}, x # q.run
        PROVE  Len(a.runs) = MaxRunDenials /\ Head(a.runs).run = x
    BY <1>2, <3>3, <3>2, <1>0 DEF RunsKept
  <3>4. RunsKept(a, b, q)  BY <2>3, <3>3 DEF RunsKept
  <3> QED BY <1>1, <3>2, <3>4 DEF SameGlobal
 <2>5. CASE ~ServerStopAfter(q)
   BY <1>5, <2>5, <1>2, <2>3, <1>1 DEF FoldRun, c, RunsKept
 <2> QED BY <2>4, <2>5
<1> QED BY <1>3, <1>4, <1>5

CacheOf(a, e) == \A i \in DOMAIN a.cache : a.cache[i].epoch = e

(* Looking a key up keeps, reorders or drops entries, and adds none. *)
LEMMA CacheLookedUp ==
  ASSUME NEW c \in Seq(Cached), NEW key,
         NEW t, t = WithoutKey(c, key) \/ t = Touched(c, KeyAt(c, key))
  PROVE  /\ t \in Seq(Cached) /\ Len(t) <= Len(c) /\ AllFrom(t, c)
<1>0. Len(c) \in Nat /\ DOMAIN c = 1 .. Len(c)
  BY LenProperties
<1>1. KeyAt(c, key) \subseteq 1 .. Len(c)  BY <1>0 DEF KeyAt
<1>2. CASE t = WithoutKey(c, key)
  BY <1>0, <1>1, <1>2, DeletedEntry DEF WithoutKey
<1>3. CASE t = Touched(c, KeyAt(c, key))
  BY <1>0, <1>1, <1>3, TouchedEntry
<1> QED BY <1>2, <1>3

(* Entries taken from the cache are of its epoch. *)
LEMMA CacheReplaced ==
  ASSUME NEW a \in Authorities, Len(a.cache) <= MaxCached, NEW e, CacheOf(a, e),
         NEW t \in Seq(Cached), Len(t) <= Len(a.cache), AllFrom(t, a.cache),
         NEW b, b = [a EXCEPT !.cache = t]
  PROVE  /\ b \in Authorities /\ SameGlobal(a, b) /\ b.runs = a.runs /\ b.cache = t
         /\ Len(b.cache) <= MaxCached /\ CacheOf(b, e)
         /\ a.cache = <<>> => b.cache = <<>>
<1>0. /\ a.cache \in Seq(Cached) /\ Len(a.cache) \in Nat /\ MaxCached \in Nat
      /\ DOMAIN a.cache = 1 .. Len(a.cache) /\ Len(t) \in Nat /\ DOMAIN t = 1 .. Len(t)
  BY LenProperties, AuthorityAssumption DEF Authorities
<1>1. b \in Authorities /\ SameGlobal(a, b) /\ b.runs = a.runs /\ b.cache = t
  BY DEF Authorities, SameGlobal
<1>2. a.cache = <<>> => t = <<>>
  BY <1>0, EmptySeq
<1> QED BY <1>0, <1>1, <1>2 DEF CacheOf, AllFrom

(* A stored allow is of the epoch its request left in. *)
LEMMA StoredAllow ==
  ASSUME NEW a \in Authorities, Bounded(a), NEW q \in Requests, NEW verdict, CacheOf(a, q.epoch),
         NEW b, b = Stored(a, q, verdict)
  PROVE  /\ b \in Authorities /\ SameGlobal(a, b) /\ b.runs = a.runs
         /\ Bounded(b) /\ CacheOf(b, q.epoch)
<1>1. CASE q.cacheable /\ verdict # "allow_hard"
 <2> DEFINE e == [key |-> q.key, epoch |-> q.epoch]
            w == WithoutKey(a.cache, q.key)
            c == [a EXCEPT !.cache = w]
            v == Append(c.cache, e)
            t == LastEntries(v, MaxCached)
 <2>0. MaxCached \in Nat \ {0} /\ e \in Cached /\ Len(a.cache) <= MaxCached
   BY AuthorityAssumption DEF Cached, Requests, Bounded
 <2>w. w = WithoutKey(a.cache, q.key) /\ c = [a EXCEPT !.cache = w]
   OBVIOUS
 <2> HIDE DEF w, c
 <2>1. c \in Authorities /\ c.cache = w /\ Len(c.cache) <= MaxCached /\ CacheOf(c, q.epoch)
  <3>1. a.cache \in Seq(Cached)  BY DEF Authorities
  <3>2. w \in Seq(Cached) /\ Len(w) <= Len(a.cache) /\ AllFrom(w, a.cache)
    BY <2>w, <3>1, CacheLookedUp
  <3> QED BY <2>0, <2>w, <3>2, CacheReplaced
 <2>2. c.cache \in Seq(Cached) /\ Len(c.cache) \in Nat /\ DOMAIN c.cache = 1 .. Len(c.cache)
   BY <2>1, LenProperties DEF Authorities
 <2>3. /\ v \in Seq(Cached) /\ Len(v) = Len(c.cache) + 1
       /\ \A k \in 1 .. Len(c.cache) : v[k] = c.cache[k]
       /\ v[Len(c.cache) + 1] = e
   BY <2>0, <2>2, AppendedEntry
 <2>4. ASSUME NEW k \in 1 .. Len(v) PROVE v[k].epoch = q.epoch
  <3>1. CASE k = Len(c.cache) + 1
    BY <2>3, <3>1
  <3>2. CASE k # Len(c.cache) + 1
    BY <2>2, <2>3, <3>2, <2>1 DEF CacheOf
  <3> QED BY <3>1, <3>2
 <2> HIDE DEF v
 <2>5. Len(v) <= MaxCached + 1  BY <2>0, <2>1, <2>2, <2>3
 <2>6. t \in Seq(Cached) /\ Len(t) <= MaxCached
       /\ AllFrom(t, v)
   BY <2>0, <2>3, <2>5, LastOnes
 <2> HIDE DEF t
 <2>7. DOMAIN t = 1 .. Len(t)  BY <2>6, LenProperties
 <2>8. b = [a EXCEPT !.cache = t]  BY <1>1, <2>1 DEF Stored, t, v, c, w
 <2>9. b \in Authorities /\ SameGlobal(a, b) /\ b.runs = a.runs /\ b.cache = t
   BY <2>6, <2>8 DEF Authorities, SameGlobal
 <2> QED BY <2>4, <2>6, <2>7, <2>9 DEF Bounded, CacheOf, AllFrom
<1>2. CASE ~(q.cacheable /\ verdict # "allow_hard")
  BY <1>2 DEF Stored, SameGlobal
<1> QED BY <1>1, <1>2

-----------------------------------------------------------------------------
(* Answers *)

Ends(a, q) ==
  \/ q.dispatch > a.deny.dispatch
  \/ q.kind = "lease" /\ a.deny.kind = "lease" /\ a.completed <= q.dispatch

(* What the answer to q makes of the authority a: the denial of the project *)
(* outlives it or the answer may end it, and no allow is cached beside one. *)
Folds(a, b, m, s, q) ==
  /\ b \in Authorities /\ Bounded(b) /\ m \in Newest /\ Sound(b, m, s)
  /\ b.order.watermark \in {a.order.watermark, q.dispatch}
  /\ Denied(b) => b.cache = <<>>
  /\ CacheOf(b, epoch)
  /\ Denied(a) /\ ~Denied(b) => Ends(a, q)
  /\ RunsKept(a, b, q)

(* A record with the global half of another is as sound. *)
LEMMA SameIsSound ==
  ASSUME NEW a, NEW b, SameGlobal(a, b), NEW n, NEW s, Sound(a, n, s)
  PROVE  Sound(b, n, s) /\ (Denied(a) <=> Denied(b))
BY DEF SameGlobal, Sound, OrderSound, DenySound, HeardSound, Denied

(* What was sound stays so when another request is numbered. *)
LEMMA LaterIsSound ==
  ASSUME NEW a \in Authorities, NEW n, NEW s \in Nat, Sound(a, n, s)
  PROVE  Sound(a, n, s + 1)
BY DEF Sound, OrderSound, Authorities, Orders

(* An answer that touches no denial of a run ends none. *)
LEMMA RunsUntouched ==
  ASSUME NEW a, NEW b, NEW q, b.runs = a.runs
  PROVE  RunsKept(a, b, q)
BY DEF RunsKept

(* Dropping every cached allow leaves the denials alone. *)
LEMMA Uncached ==
  ASSUME NEW a \in Authorities, Bounded(a)
  PROVE  LET u == [a EXCEPT !.cache = <<>>]
         IN  /\ u \in Authorities /\ Bounded(u) /\ SameGlobal(a, u) /\ u.runs = a.runs
             /\ u.cache = <<>> /\ \A e : CacheOf(u, e)
<1> DEFINE u == [a EXCEPT !.cache = <<>>]
<1>1. u \in Authorities /\ SameGlobal(a, u) /\ u.runs = a.runs /\ u.cache = <<>>
  BY EmptySeq DEF Authorities, SameGlobal
<1>2. Len(u.cache) = 0 /\ DOMAIN u.cache = {} /\ MaxCached >= 0
  BY <1>1, AuthorityAssumption, EmptySeq
<1> QED BY <1>1, <1>2 DEF Bounded, CacheOf

(* The invariant, as the lemmas about an answer use it. *)
LEMMA InFlight ==
  ASSUME AuthorityInv, NEW q \in asked
  PROVE  /\ q \in Requests /\ auth \in Authorities /\ Bounded(auth) /\ newest \in Newest
         /\ sequence \in Nat /\ stopped \in [Run -> Int] /\ now \in Int
         /\ Sound(auth, newest, sequence) /\ CacheOf(auth, epoch)
         /\ Denied(auth) => auth.cache = <<>>
         /\ q.dispatch <= sequence /\ q.dispatch # auth.order.watermark /\ 0 < q.dispatch
         /\ q.kind = "lease" => q.run \in Run
         /\ q.dispatch \in Nat /\ auth.order.watermark \in Nat
BY DEF AuthorityInv, Typed, AskedSound, CacheIsCurrent, CacheOf, Requests, Authorities, Orders

(* What the history records of an answer. *)
LEMMA HeardTyped ==
  ASSUME NEW q \in Requests, newest \in Newest, NEW verdict \in Verdicts
  PROVE  /\ Heard(q, verdict) \in Newest
         /\ Speaks(q, verdict) /\ verdict # "project" => Heard(q, verdict) = HearsAllow(newest, q)
         /\ verdict = "project" => Heard(q, verdict) = HearsDenial(newest, q)
         /\ ~Speaks(q, verdict) => Heard(q, verdict) = newest
<1>1. Heard(q, verdict) \in Newest  BY DEF Heard, Newest, Requests
<1>2. verdict = "project" => Speaks(q, verdict)  BY DEF Speaks
<1> QED BY <1>1, <1>2 DEF Heard, HearsAllow, HearsDenial

(* A check that allows: only one newer than the denial ends it. *)
LEMMA CheckAllows ==
  ASSUME AuthorityInv, NEW q \in asked, q.epoch = epoch, NEW verdict \in {"allow", "allow_hard"}
  PROVE  Folds(auth, Applied(q, verdict), Heard(q, verdict), sequence, q)
<1> DEFINE m == Heard(q, verdict)
           f == FoldRun(auth, q)
           b == ClearGlobal(f, Ordered(q))
           c == IF GlobalWins(q) \/ RunWins(auth, q) THEN b ELSE Stored(b, q, verdict)
<1>0. /\ q \in Requests /\ auth \in Authorities /\ Bounded(auth) /\ newest \in Newest
      /\ sequence \in Nat /\ stopped \in [Run -> Int]
      /\ Sound(auth, newest, sequence) /\ CacheOf(auth, epoch)
      /\ Denied(auth) => auth.cache = <<>>
      /\ q.dispatch <= sequence /\ q.dispatch # auth.order.watermark /\ 0 < q.dispatch
  BY InFlight
<1>1. m \in Newest /\ m = HearsAllow(newest, q)
  BY <1>0, HeardTyped DEF Verdicts, Speaks
<1> HIDE DEF m
<1>2. /\ f \in Authorities /\ SameGlobal(auth, f) /\ f.cache = auth.cache
      /\ Len(f.runs) <= MaxRunDenials /\ RunsKept(auth, f, q)
  BY <1>0, FoldedRun DEF Bounded
<1> HIDE DEF f
<1>3. Sound(f, newest, sequence) /\ (Denied(auth) <=> Denied(f)) /\ f.order = auth.order /\ f.deny = auth.deny
  BY <1>0, <1>2, SameIsSound DEF SameGlobal
<1>b. b = ClearGlobal(f, Ordered(q))  OBVIOUS
<1> HIDE DEF b
<1>4. /\ b \in Authorities /\ SameRest(f, b) /\ Sound(b, m, sequence)
      /\ b.order.watermark \in {f.order.watermark, q.dispatch}
      /\ Denied(b) => Denied(f) /\ f.order.watermark > q.dispatch
      /\ Denied(f) /\ ~Denied(b) => q.dispatch > f.deny.dispatch
  BY <1>0, <1>3, <1>1, <1>2, <1>b, OrderedClear
<1>5. Bounded(b) /\ CacheOf(b, q.epoch) /\ (Denied(b) => b.cache = <<>>)
  BY <1>0, <1>2, <1>3, <1>4 DEF SameRest, Bounded, CacheOf
<1>6. RunsKept(auth, b, q)  BY <1>2, <1>4 DEF RunsKept, SameRest
<1>7. /\ c \in Authorities /\ SameGlobal(b, c) /\ c.runs = b.runs /\ Bounded(c)
      /\ CacheOf(c, q.epoch) /\ (Denied(c) => c.cache = <<>>)
 <2>1. CASE GlobalWins(q) \/ RunWins(auth, q)
   BY <1>4, <1>5, <2>1 DEF SameGlobal
 <2>2. CASE ~(GlobalWins(q) \/ RunWins(auth, q))
   BY <1>0, <1>4, <1>5, <2>2, StoredAllow, <1>3 DEF GlobalWins, SameGlobal, Denied
 <2> QED BY <2>1, <2>2
<1> HIDE DEF c
<1>8. Sound(c, m, sequence) /\ (Denied(b) <=> Denied(c)) /\ c.order = b.order
  BY <1>4, <1>7, SameIsSound DEF SameGlobal
<1>9. RunsKept(auth, c, q)  BY <1>6, <1>7 DEF RunsKept
<1>10. Folds(auth, c, m, sequence, q)  BY <1>1, <1>3, <1>4, <1>7, <1>8, <1>9 DEF Folds, Ends
<1>11. Applied(q, verdict) = c  BY DEF Applied, c, b, f
<1> QED BY <1>10, <1>11 DEF m

(* An answer that clears: the authority c is auth, possibly without its cache. *)
LEMMA CheckClears ==
  ASSUME AuthorityInv, NEW q \in asked,
         NEW c \in Authorities, SameGlobal(auth, c), c.runs = auth.runs, Bounded(c),
         CacheOf(c, epoch), Denied(c) => c.cache = <<>>,
         NEW b, b = ClearGlobal(c, Ordered(q)), NEW m, m = HearsAllow(newest, q)
  PROVE  Folds(auth, b, m, sequence, q) /\ b.runs = c.runs
<1>0. /\ q \in Requests /\ newest \in Newest /\ sequence \in Nat
      /\ Sound(auth, newest, sequence)
      /\ q.dispatch <= sequence /\ q.dispatch # auth.order.watermark /\ 0 < q.dispatch
  BY InFlight
<1>1. Sound(c, newest, sequence) /\ (Denied(auth) <=> Denied(c)) /\ c.order = auth.order /\ c.deny = auth.deny
  BY <1>0, SameIsSound DEF SameGlobal
<1>2. q.dispatch # c.order.watermark  BY <1>0, <1>1
<1>3. /\ b \in Authorities /\ SameRest(c, b) /\ m \in Newest /\ Sound(b, m, sequence)
      /\ b.order.watermark \in {c.order.watermark, q.dispatch}
      /\ Denied(b) => Denied(c) /\ c.order.watermark > q.dispatch
      /\ Denied(c) /\ ~Denied(b) => q.dispatch > c.deny.dispatch
  BY <1>0, <1>1, <1>2, OrderedClear
<1>4. Bounded(b) /\ CacheOf(b, epoch) /\ (Denied(b) => b.cache = <<>>)
  BY <1>3 DEF SameRest, Bounded, CacheOf
<1>5. RunsKept(auth, b, q)  BY <1>3, RunsUntouched DEF SameRest
<1> QED BY <1>1, <1>3, <1>4, <1>5 DEF Folds, Ends, SameRest

(* An outcome that also files, touches or drops a denial of a run. *)
LEMMA FoldsOn ==
  ASSUME NEW a, NEW b, NEW m, NEW s, NEW q, Folds(a, b, m, s, q),
         NEW c \in Authorities, SameGlobal(b, c), c.cache = b.cache,
         Len(c.runs) <= MaxRunDenials, RunsKept(a, c, q)
  PROVE  Folds(a, c, m, s, q)
<1>1. Sound(c, m, s) /\ (Denied(b) <=> Denied(c)) /\ c.order = b.order
  BY SameIsSound DEF Folds, SameGlobal
<1> QED BY <1>1 DEF Folds, Bounded, CacheOf

(* A denial kept by a later half of a step is kept by the step. *)
LEMMA RunsKeptThrough ==
  ASSUME NEW a, NEW b, NEW c, NEW q, b.runs = a.runs, RunsKept(b, c, q)
  PROVE  RunsKept(a, c, q)
BY DEF RunsKept

(* The stamp of a filed denial is a time. *)
LEMMA StampTyped ==
  ASSUME Typed, NEW q \in Requests, NEW verdict, q.run # NoRun
  PROVE  StampFor(q, verdict) \in Int
<1>1. q.run \in Run  BY DEF Requests, Runs
<1> QED BY <1>1 DEF StampFor, Typed

(* A check that denies, in each of the scopes a denial can have. *)
LEMMA CheckDenies ==
  ASSUME AuthorityInv, NEW q \in asked, NEW verdict \in Verdicts \ {"allow", "allow_hard"}
  PROVE  Folds(auth, Applied(q, verdict), Heard(q, verdict), sequence, q)
<1> DEFINE at == StampFor(q, verdict)
           o == Ordered(q)
           u == [auth EXCEPT !.cache = <<>>]
           m == Heard(q, verdict)
<1>0. /\ q \in Requests /\ auth \in Authorities /\ Bounded(auth) /\ newest \in Newest
      /\ sequence \in Nat /\ stopped \in [Run -> Int] /\ q.at \in Int /\ q.run \in Runs
      /\ Sound(auth, newest, sequence) /\ CacheOf(auth, epoch)
      /\ Denied(auth) => auth.cache = <<>>
      /\ q.dispatch <= sequence /\ q.dispatch # auth.order.watermark /\ 0 < q.dispatch
  BY InFlight DEF Requests
<1>1. Applied(q, verdict) = ClassifyHardDeny(auth, q, verdict, o, at)  BY DEF Applied
<1>2. /\ u \in Authorities /\ Bounded(u) /\ SameGlobal(auth, u) /\ u.runs = auth.runs
      /\ u.cache = <<>> /\ CacheOf(u, epoch)
  BY <1>0, Uncached
<1>3. q.run # NoRun => at \in Int /\ q.run \in Run
  BY <1>0, StampTyped DEF AuthorityInv, Runs
<1> HIDE DEF u, at
<1>4. m \in Newest  BY <1>0, HeardTyped
<1>5. CASE verdict = "alert"
 <2> DEFINE b == ClearGlobal(u, o)
            c == [b EXCEPT !.runs = WithoutRun(@, q.run)]
 <2>1. m = HearsAllow(newest, q)  BY <1>0, <1>5, HeardTyped DEF Speaks
 <2>b. b = ClearGlobal(u, Ordered(q))  OBVIOUS
 <2> HIDE DEF b, m
 <2>2. Folds(auth, b, m, sequence, q) /\ b.runs = u.runs
   BY <1>2, <2>1, <2>b, CheckClears
 <2>3. b \in Authorities /\ Len(b.runs) <= MaxRunDenials /\ b.runs = auth.runs
   BY <1>2, <2>2 DEF Folds, Bounded
 <2>4. CASE RunDenialAfter(b, q)
   BY <1>1, <1>5, <2>4, <2>2 DEF ClassifyHardDeny, u, b, m
 <2>5. CASE ~RunDenialAfter(b, q)
  <3>1. Applied(q, verdict) = c  BY <1>1, <1>5, <2>5 DEF ClassifyHardDeny, u, b
  <3>c. c = [b EXCEPT !.runs = WithoutRun(@, q.run)]  OBVIOUS
  <3> HIDE DEF c
  <3>2. /\ c \in Authorities /\ SameGlobal(b, c) /\ c.cache = b.cache
        /\ Len(c.runs) <= MaxRunDenials /\ c.runs = WithoutRun(b.runs, q.run)
    BY <2>3, <3>c, DropStep
  <3>3. RunsKept(auth, c, q)
   <4>0. auth.runs \in Seq(Filed)  BY <1>0 DEF Authorities
   <4>1. ASSUME NEW x \in Run, DeniedAt(auth.runs, x) # {}, DeniedAt(c.runs, x) = {}
         PROVE  q.run = x /\ \A t \in DeniedAt(auth.runs, x) : q.at > t
    <5>1. q.run = x  BY <2>3, <3>2, <4>0, <4>1, DroppedRun
    <5>2. \A t \in DeniedAt(auth.runs, x) : ~(t >= q.at)
      BY <2>3, <2>5, <5>1, AuthorityAssumption DEF RunDenialAfter
    <5>3. \A t \in DeniedAt(auth.runs, x) : t \in Int
      BY <4>0, DeniedTyped
    <5> QED BY <1>0, <5>1, <5>2, <5>3
   <4> QED BY <4>1 DEF RunsKept
  <3> QED BY <2>2, <3>1, <3>2, <3>3, FoldsOn DEF m
 <2> QED BY <2>4, <2>5
<1>6. CASE verdict = "agent_run" /\ q.run # NoRun
 <2> DEFINE b == ClearGlobal(auth, o)
            c == FileRun(b, q.run, at)
 <2>1. m = HearsAllow(newest, q)  BY <1>0, <1>6, HeardTyped DEF Speaks
 <2>b. b = ClearGlobal(auth, Ordered(q)) /\ c = FileRun(b, q.run, at)
   OBVIOUS
 <2>c. Applied(q, verdict) = c  BY <1>1, <1>6 DEF ClassifyHardDeny
 <2> HIDE DEF b, m, c
 <2>2. Folds(auth, b, m, sequence, q) /\ b.runs = auth.runs
   BY <1>0, <2>1, <2>b, CheckClears DEF SameGlobal
 <2>3. b \in Authorities /\ Len(b.runs) <= MaxRunDenials /\ b.runs = auth.runs
   BY <2>2 DEF Folds, Bounded
 <2>4. /\ c \in Authorities /\ SameGlobal(b, c) /\ c.cache = b.cache
       /\ Len(c.runs) <= MaxRunDenials /\ RunsKept(b, c, q)
   BY <1>3, <1>6, <2>b, <2>3, FileStep
 <2>5. RunsKept(auth, c, q)  BY <2>3, <2>4, RunsKeptThrough
 <2> QED BY <2>2, <2>4, <2>5, <2>c, FoldsOn DEF m
<1>7. CASE verdict = "run_stopped" /\ q.run # NoRun
 <2> DEFINE c == FileRun(auth, q.run, at)
 <2>1. m = newest  BY <1>0, <1>7, HeardTyped DEF Speaks
 <2>b. c = FileRun(auth, q.run, at)  OBVIOUS
 <2>c. Applied(q, verdict) = c  BY <1>1, <1>7 DEF ClassifyHardDeny
 <2> HIDE DEF m, c
 <2>2. Folds(auth, auth, m, sequence, q)  BY <1>0, <2>1, RunsUntouched DEF Folds
 <2>3. Len(auth.runs) <= MaxRunDenials  BY <1>0 DEF Bounded
 <2>4. /\ c \in Authorities /\ SameGlobal(auth, c) /\ c.cache = auth.cache
       /\ Len(c.runs) <= MaxRunDenials /\ RunsKept(auth, c, q)
   BY <1>0, <1>3, <1>7, <2>b, <2>3, FileStep
 <2> QED BY <2>2, <2>4, <2>c, FoldsOn DEF m
<1>8. CASE verdict \in {"agent_run", "run_stopped"} /\ q.run = NoRun
 <2> DEFINE b == FileGlobal(u, Fallback(o))
 <2>1. m = newest  BY <1>0, <1>8, HeardTyped DEF Speaks
 <2>b. b = FileGlobal(u, Fallback(Ordered(q)))  OBVIOUS
 <2>c. Applied(q, verdict) = b
   BY <1>1, <1>8 DEF Fallback, Ordered, ClassifyHardDeny, u
 <2> HIDE DEF b, m
 <2>2. Sound(u, newest, sequence) /\ (Denied(auth) <=> Denied(u)) /\ u.order = auth.order
   BY <1>0, <1>2, SameIsSound DEF SameGlobal
 <2>3. q.dispatch # u.order.watermark  BY <1>0, <2>2
 <2>4. /\ b \in Authorities /\ SameRest(u, b) /\ Sound(b, newest, sequence)
       /\ b.order.watermark \in {u.order.watermark, q.dispatch}
       /\ Denied(u) => Denied(b)
   BY <1>0, <1>2, <2>b, <2>2, <2>3, FallbackFile
 <2>5. Bounded(b) /\ CacheOf(b, epoch) /\ b.cache = <<>> /\ b.runs = auth.runs
   BY <1>2, <2>4 DEF SameRest, Bounded, CacheOf
 <2>6. Folds(auth, b, m, sequence, q)  BY <1>0, <2>1, <2>2, <2>4, <2>5, RunsUntouched DEF Folds
 <2> QED BY <2>6, <2>c DEF m
<1>9. CASE verdict = "tag"
  BY <1>0, <1>9, HeardTyped, <1>1, CheckClears DEF Speaks, ClassifyHardDeny, SameGlobal, m
<1>10. CASE verdict = "project"
 <2> DEFINE b == FileGlobal(u, o)
 <2>1. m = HearsDenial(newest, q)  BY <1>0, <1>10, HeardTyped
 <2>b. b = FileGlobal(u, Ordered(q))  OBVIOUS
 <2>c. Applied(q, verdict) = b  BY <1>1, <1>10 DEF ClassifyHardDeny, u
 <2> HIDE DEF b, m
 <2>2. Sound(u, newest, sequence) /\ (Denied(auth) <=> Denied(u)) /\ u.order = auth.order
   BY <1>0, <1>2, SameIsSound DEF SameGlobal
 <2>3. q.dispatch # u.order.watermark  BY <1>0, <2>2
 <2>4. /\ b \in Authorities /\ SameRest(u, b) /\ m \in Newest /\ Sound(b, m, sequence)
       /\ b.order.watermark \in {u.order.watermark, q.dispatch}
       /\ Denied(u) => Denied(b)
   BY <1>0, <1>2, <2>1, <2>b, <2>2, <2>3, OrderedFile
 <2>5. Bounded(b) /\ CacheOf(b, epoch) /\ b.cache = <<>> /\ b.runs = auth.runs
   BY <1>2, <2>4 DEF SameRest, Bounded, CacheOf
 <2>6. Folds(auth, b, m, sequence, q)  BY <1>0, <2>2, <2>4, <2>5, RunsUntouched DEF Folds
 <2> QED BY <2>6, <2>c DEF m
<1> QED BY <1>5, <1>6, <1>7, <1>8, <1>9, <1>10 DEF Verdicts

(* A lease answer that nothing newer fences off. *)
LEMMA LeaseClears ==
  ASSUME AuthorityInv, NEW q \in asked, q.kind = "lease",
         auth.completed <= q.dispatch, auth.fallback <= q.dispatch,
         NEW c \in Authorities, SameGlobal(auth, c), RunsKept(auth, c, q), Bounded(c),
         CacheOf(c, epoch), Denied(c) => c.cache = <<>>,
         NEW b, b = ClearGlobal(c, Leased(q, sequence + 1)), NEW m, m = HeardLease(q)
  PROVE  Folds(auth, b, m, sequence + 1, q) /\ b.runs = c.runs
<1>0. /\ q \in Requests /\ newest \in Newest /\ sequence \in Nat
      /\ Sound(auth, newest, sequence) /\ q.dispatch <= sequence
  BY InFlight
<1>1. /\ Sound(c, newest, sequence) /\ (Denied(auth) <=> Denied(c)) /\ c.order = auth.order
      /\ c.deny = auth.deny /\ c.completed <= q.dispatch /\ c.fallback <= q.dispatch
  BY <1>0, SameIsSound DEF SameGlobal
<1>2. m = HearsLease(newest, q)  BY DEF HeardLease, HearsLease
<1>3. /\ b \in Authorities /\ SameRest(c, b) /\ m \in Newest /\ Sound(b, m, sequence + 1)
      /\ b.order.watermark \in {c.order.watermark, q.dispatch}
      /\ Denied(b) => Denied(c)
      /\ Denied(c) /\ ~Denied(b) => q.dispatch > c.deny.dispatch \/ c.deny.kind = "lease"
  BY <1>0, <1>1, <1>2, LeaseClear
<1>4. Bounded(b) /\ CacheOf(b, epoch) /\ (Denied(b) => b.cache = <<>>)
  BY <1>3 DEF SameRest, Bounded, CacheOf
<1>5. RunsKept(auth, b, q)  BY <1>3 DEF SameRest, RunsKept
<1> QED BY <1>1, <1>3, <1>4, <1>5 DEF Folds, Ends, SameRest

(* A denial by a lease answer that nothing newer fences off. *)
LEMMA LeaseFiles ==
  ASSUME AuthorityInv, NEW q \in asked, auth.completed <= q.dispatch,
         NEW c \in Authorities, SameGlobal(auth, c), c.runs = auth.runs, Bounded(c),
         CacheOf(c, epoch), c.cache = <<>>,
         NEW b, b = FileGlobal(c, Leased(q, sequence + 1)), NEW m, m = HeardLease(q)
  PROVE  Folds(auth, b, m, sequence + 1, q)
<1>0. /\ q \in Requests /\ newest \in Newest /\ sequence \in Nat
      /\ Sound(auth, newest, sequence) /\ q.dispatch <= sequence
  BY InFlight
<1>1. /\ Sound(c, newest, sequence) /\ (Denied(auth) <=> Denied(c)) /\ c.order = auth.order
      /\ c.completed <= q.dispatch
  BY <1>0, SameIsSound DEF SameGlobal
<1>2. m = HearsLease(newest, q)  BY DEF HeardLease, HearsLease
<1>3. /\ b \in Authorities /\ SameRest(c, b) /\ m \in Newest /\ Sound(b, m, sequence + 1)
      /\ b.order.watermark \in {c.order.watermark, q.dispatch}
      /\ Denied(c) => Denied(b)
  BY <1>0, <1>1, <1>2, LeaseFile
<1>4. Bounded(b) /\ CacheOf(b, epoch) /\ b.cache = <<>>
  BY <1>3 DEF SameRest, Bounded, CacheOf
<1>5. RunsKept(auth, b, q)  BY <1>3, RunsUntouched DEF SameRest
<1> QED BY <1>1, <1>3, <1>4, <1>5 DEF Folds

(* One that is fenced off leaves the global half alone. *)
LEMMA Suppressed ==
  ASSUME AuthorityInv, NEW q \in asked,
         NEW c \in Authorities, SameGlobal(auth, c), RunsKept(auth, c, q), Bounded(c),
         CacheOf(c, epoch), Denied(c) => c.cache = <<>>
  PROVE  Folds(auth, c, newest, sequence + 1, q)
<1>0. newest \in Newest /\ sequence \in Nat /\ Sound(auth, newest, sequence)
  BY InFlight
<1>1. Sound(c, newest, sequence) /\ (Denied(auth) <=> Denied(c)) /\ c.order = auth.order
  BY <1>0, SameIsSound DEF SameGlobal
<1>2. Sound(c, newest, sequence + 1)  BY <1>0, <1>1, LaterIsSound
<1> QED BY <1>0, <1>1, <1>2 DEF Folds

(* What the fence of a lease answer establishes. *)
LEMMA NotFenced ==
  ASSUME AuthorityInv, NEW q \in asked, NEW verdict \in Verdicts, ~Superseded(q, verdict)
  PROVE  /\ auth.completed <= q.dispatch
         /\ verdict \in {"allow", "alert", "agent_run", "tag"} => auth.fallback <= q.dispatch
<1>1. auth.completed \in Nat /\ auth.fallback \in Nat /\ q.dispatch \in Nat
  BY InFlight DEF Authorities
<1> QED BY <1>1 DEF Superseded

(* A granted or renewed lease. *)
LEMMA LeaseAllows ==
  ASSUME AuthorityInv, NEW q \in asked, q.kind = "lease", sequence' = sequence + 1,
         LeaseAllowed(q)
  PROVE  Folds(auth, auth', newest', sequence', q)
<1> DEFINE f == FoldRun(auth, q)
           b == ClearGlobal(f, Leased(q, sequence + 1))
<1>0. /\ q \in Requests /\ auth \in Authorities /\ Bounded(auth) /\ stopped \in [Run -> Int]
      /\ CacheOf(auth, epoch) /\ (Denied(auth) => auth.cache = <<>>)
  BY InFlight
<1>f. f = FoldRun(auth, q) /\ b = ClearGlobal(f, Leased(q, sequence + 1))
  OBVIOUS
<1> HIDE DEF f, b
<1>1. /\ f \in Authorities /\ SameGlobal(auth, f) /\ f.cache = auth.cache
      /\ Len(f.runs) <= MaxRunDenials /\ RunsKept(auth, f, q)
  BY <1>0, <1>f, FoldedRun DEF Bounded
<1>2. Bounded(f) /\ CacheOf(f, epoch) /\ (Denied(f) => f.cache = <<>>)
  BY <1>0, <1>1 DEF Bounded, CacheOf, SameGlobal, Denied
<1>3. CASE Superseded(q, "allow") \/ RunDenialAfter(auth, q)
  BY <1>3, <1>f, <1>1, <1>2, Suppressed DEF LeaseAllowed
<1>4. CASE ~(Superseded(q, "allow") \/ RunDenialAfter(auth, q))
  BY <1>4, <1>f, NotFenced, <1>1, <1>2, LeaseClears DEF LeaseAllowed, Verdicts
<1> QED BY <1>3, <1>4

(* A lease answer that denies, in each scope. *)
LEMMA LeaseDenies ==
  ASSUME AuthorityInv, NEW q \in asked, q.kind = "lease", sequence' = sequence + 1,
         NEW verdict \in Verdicts \ {"allow", "allow_hard"}, LeaseDenied(q, verdict)
  PROVE  Folds(auth, auth', newest', sequence', q)
<1> DEFINE o == LeaseOrder(q, verdict, sequence + 1)
           u == [auth EXCEPT !.cache = <<>>]
           m == IF Superseded(q, verdict) \/ verdict = "run_stopped" THEN newest ELSE HeardLease(q)
<1>0. /\ q \in Requests /\ auth \in Authorities /\ Bounded(auth) /\ newest \in Newest
      /\ sequence \in Nat /\ stopped \in [Run -> Int] /\ q.at \in Int /\ q.run \in Run /\ now \in Int
      /\ Sound(auth, newest, sequence) /\ CacheOf(auth, epoch)
      /\ Denied(auth) => auth.cache = <<>>
  BY InFlight DEF Requests
<1>1. auth' = ClassifyHardDeny(auth, q, verdict, o, now) /\ newest' = m
  BY DEF LeaseDenied
<1>2. /\ u \in Authorities /\ Bounded(u) /\ SameGlobal(auth, u) /\ u.runs = auth.runs
      /\ u.cache = <<>> /\ CacheOf(u, epoch)
  BY <1>0, Uncached
<1>3. q.run # NoRun  BY <1>0, AuthorityAssumption
<1>4. /\ Superseded(q, verdict) => o.kind = "suppressed"
      /\ ~Superseded(q, verdict) => o = Leased(q, sequence + 1)
  BY DEF LeaseOrder, Ordered
<1>5. ASSUME NEW c \in Authorities, SameGlobal(auth, c), c.runs = auth.runs, Bounded(c),
             CacheOf(c, epoch), Denied(c) => c.cache = <<>>,
             verdict \in {"alert", "agent_run", "tag"},
             NEW b, b = ClearGlobal(c, o)
      PROVE  Folds(auth, b, m, sequence + 1, q) /\ b.runs = auth.runs
 <2>0. RunsKept(auth, c, q)  BY <1>5, RunsUntouched
 <2>1. CASE Superseded(q, verdict)
   BY <1>4, <1>5, <2>1, <2>0, Suppressed DEF ClearGlobal
 <2>2. CASE ~Superseded(q, verdict)
   BY <1>4, <1>5, <2>2, NotFenced, <2>0, LeaseClears
 <2> QED BY <2>1, <2>2
<1>m. m = newest \/ m = HeardLease(q)
  OBVIOUS
<1>n. verdict = "run_stopped" => m = newest  OBVIOUS
<1> HIDE DEF u, o, m
<1>6. CASE verdict = "alert"
 <2> DEFINE b == ClearGlobal(u, o)
            c == [b EXCEPT !.runs = WithoutRun(@, q.run)]
 <2>b. b = ClearGlobal(u, o)  OBVIOUS
 <2>c. auth' = IF RunDenialAfter(b, q) THEN b ELSE c
   BY <1>1, <1>6 DEF ClassifyHardDeny, u
 <2>d. c = [b EXCEPT !.runs = WithoutRun(@, q.run)]  OBVIOUS
 <2> HIDE DEF b, c
 <2>1. Folds(auth, b, m, sequence + 1, q) /\ b.runs = auth.runs
   BY <1>2, <1>5, <1>6, <2>b
 <2>2. CASE RunDenialAfter(b, q)
   BY <1>1, <2>1, <2>2, <2>c
 <2>3. CASE ~RunDenialAfter(b, q)
  <3>0. b \in Authorities /\ Len(b.runs) <= MaxRunDenials
    BY <2>1 DEF Folds, Bounded
  <3>1. /\ c \in Authorities /\ SameGlobal(b, c) /\ c.cache = b.cache
        /\ Len(c.runs) <= MaxRunDenials /\ c.runs = WithoutRun(b.runs, q.run)
    BY <2>d, <3>0, DropStep
  <3>2. RunsKept(auth, c, q)
   <4>0. auth.runs \in Seq(Filed)  BY <1>0 DEF Authorities
   <4>1. ASSUME NEW x \in Run, DeniedAt(auth.runs, x) # {}, DeniedAt(c.runs, x) = {}
         PROVE  q.run = x /\ \A t \in DeniedAt(auth.runs, x) : q.at > t
    <5>1. q.run = x  BY <2>1, <3>1, <4>0, <4>1, DroppedRun
    <5>2. \A t \in DeniedAt(auth.runs, x) : ~(t >= q.at)
      BY <2>1, <2>3, <5>1, AuthorityAssumption DEF RunDenialAfter
    <5>3. \A t \in DeniedAt(auth.runs, x) : t \in Int
      BY <4>0, DeniedTyped
    <5> QED BY <1>0, <5>1, <5>2, <5>3
   <4> QED BY <4>1 DEF RunsKept
  <3>3. Folds(auth, c, m, sequence + 1, q)  BY <2>1, <3>1, <3>2, FoldsOn
  <3> QED BY <1>1, <2>3, <2>c, <3>3
 <2> QED BY <2>2, <2>3
<1>7. CASE verdict = "agent_run"
 <2> DEFINE b == ClearGlobal(auth, o)
            c == FileRun(b, q.run, now)
 <2>b. b = ClearGlobal(auth, o) /\ c = FileRun(b, q.run, now)
   OBVIOUS
 <2>c. auth' = c  BY <1>1, <1>3, <1>7 DEF ClassifyHardDeny
 <2> HIDE DEF b, c
 <2>1. Folds(auth, b, m, sequence + 1, q) /\ b.runs = auth.runs
   BY <1>0, <1>5, <1>7, <2>b DEF SameGlobal
 <2>2. b \in Authorities /\ Len(b.runs) <= MaxRunDenials
   BY <2>1 DEF Folds, Bounded
 <2>3. /\ c \in Authorities /\ SameGlobal(b, c) /\ c.cache = b.cache
       /\ Len(c.runs) <= MaxRunDenials /\ RunsKept(b, c, q)
   BY <1>0, <2>b, <2>2, FileStep
 <2>4. RunsKept(auth, c, q)  BY <2>1, <2>3, RunsKeptThrough
 <2>5. Folds(auth, c, m, sequence + 1, q)  BY <2>1, <2>3, <2>4, FoldsOn
 <2> QED BY <1>1, <2>5, <2>c
<1>8. CASE verdict = "run_stopped"
 <2> DEFINE c == FileRun(auth, q.run, now)
 <2>b. c = FileRun(auth, q.run, now)  OBVIOUS
 <2>c. auth' = c  BY <1>1, <1>3, <1>8 DEF ClassifyHardDeny
 <2> HIDE DEF c
 <2>1. Folds(auth, auth, newest, sequence + 1, q)
   BY RunsUntouched, <1>0, Suppressed DEF SameGlobal
 <2>2. Len(auth.runs) <= MaxRunDenials  BY <1>0 DEF Bounded
 <2>3. /\ c \in Authorities /\ SameGlobal(auth, c) /\ c.cache = auth.cache
       /\ Len(c.runs) <= MaxRunDenials /\ RunsKept(auth, c, q)
   BY <1>0, <2>b, <2>2, FileStep
 <2>4. Folds(auth, c, newest, sequence + 1, q)  BY <2>1, <2>3, FoldsOn
 <2> QED BY <1>1, <1>8, <1>n, <2>4, <2>c
<1>9. CASE verdict = "tag"
  BY <1>1, <1>9, <1>0, <1>5 DEF ClassifyHardDeny, SameGlobal
<1>10. CASE verdict = "project"
 <2> DEFINE b == FileGlobal(u, o)
 <2>b. b = FileGlobal(u, o)  OBVIOUS
 <2>c. auth' = b  BY <1>1, <1>10 DEF ClassifyHardDeny, u
 <2> HIDE DEF b
 <2>1. CASE Superseded(q, verdict)
   BY <1>4, <2>1, <2>b, <1>2, RunsUntouched, Suppressed, <1>1, <2>c DEF FileGlobal, m
 <2>2. CASE ~Superseded(q, verdict)
   BY <1>4, <1>10, <2>2, <2>b, NotFenced, <1>2, LeaseFiles, <1>1, <2>c DEF m
 <2> QED BY <2>1, <2>2
<1> QED BY <1>6, <1>7, <1>8, <1>9, <1>10 DEF Verdicts
-----------------------------------------------------------------------------
(* Steps *)

Ended == ProjectDenialEnds /\ \A r \in Run : RunDenialEnds(r)

(* A step that answers one request. *)
LEMMA AnswerStep ==
  ASSUME AuthorityInv, NEW q \in asked, asked' = asked \ {q},
         Folds(auth, auth', newest', sequence', q), sequence' \in {sequence, sequence + 1},
         epoch' = epoch, now' = now, stopped' \in [Run -> Int],
         local' = "nobody"
  PROVE  AuthorityInv' /\ Ended
<1>0. /\ sequence \in Nat /\ sequence' \in Nat /\ sequence <= sequence'
      /\ \A p \in asked : p.dispatch \in Nat
      /\ asked' \subseteq Requests
  BY DEF AuthorityInv, Typed, Requests
<1>1. Typed' /\ Sound(auth, newest, sequence)' /\ CacheIsCurrent' /\ LocalSound'
  BY <1>0 DEF AuthorityInv, Typed, Folds, CacheIsCurrent, CacheOf, LocalSound
<1>2. AskedSound'
 <2>1. ASSUME NEW p \in asked'
       PROVE  /\ p.dispatch <= sequence' /\ p.dispatch # auth'.order.watermark /\ 0 < p.dispatch
              /\ p.kind = "lease" => p.run \in Run
   BY <1>0 DEF AuthorityInv, AskedSound, Folds
 <2>2. \A p, r \in asked' : p.dispatch = r.dispatch => p = r
   BY DEF AuthorityInv, AskedSound
 <2> QED BY <2>1, <2>2 DEF AskedSound
<1>3. q \in asked \ asked'  OBVIOUS
<1>4. ProjectDenialEnds  BY <1>3 DEF ProjectDenialEnds, Folds, Ends, Denied
<1>5. \A r \in Run : RunDenialEnds(r)
  BY <1>3 DEF RunDenialEnds, Folds, RunsKept
<1> QED BY <1>1, <1>2, <1>4, <1>5 DEF AuthorityInv, Ended

(* What a step leaves that neither ends nor files a denial. *)
Quiet(a, b, e) ==
  /\ b \in Authorities /\ Bounded(b) /\ SameGlobal(a, b) /\ CacheOf(b, e)
  /\ a.cache = <<>> => b.cache = <<>>
  /\ \A x : DeniedAt(a.runs, x) # {} => DeniedAt(b.runs, x) # {}

(* Such a step keeps the invariant, whatever it sends or drops. *)
LEMMA QuietStep ==
  ASSUME AuthorityInv, Quiet(auth, auth', epoch'), newest' = newest,
         sequence' \in {sequence, sequence + 1}, epoch' \in Nat, now' \in Nat,
         stopped' \in [Run -> Int], asked' \subseteq Requests, AskedSound',
         local' # "nobody" => ~Denied(auth)
  PROVE  AuthorityInv' /\ Ended
<1>0. sequence \in Nat /\ auth \in Authorities /\ Sound(auth, newest, sequence)
  BY DEF AuthorityInv, Typed
<1>1. Sound(auth, newest, sequence + 1)  BY <1>0, LaterIsSound
<1>2. Sound(auth, newest, sequence')  BY <1>0, <1>1
<1>3. Sound(auth', newest, sequence') /\ (Denied(auth) <=> Denied(auth'))
  BY <1>2, SameIsSound DEF Quiet
<1>4. Typed'  BY <1>0 DEF AuthorityInv, Typed, Quiet
<1>5. CacheIsCurrent' /\ LocalSound'
  BY <1>3 DEF AuthorityInv, CacheIsCurrent, CacheOf, Quiet, LocalSound, Denied
<1>6. ProjectDenialEnds  BY <1>3 DEF ProjectDenialEnds, Denied
<1>7. \A r \in Run : RunDenialEnds(r)
  BY DEF RunDenialEnds, Quiet
<1> QED BY <1>3, <1>4, <1>5, <1>6, <1>7 DEF AuthorityInv, Ended

(* Leaving the authority alone is quiet. *)
LEMMA QuietSame ==
  ASSUME AuthorityInv
  PROVE  Quiet(auth, auth, epoch)
BY DEF Quiet, AuthorityInv, Typed, SameGlobal, CacheIsCurrent, CacheOf

(* So is a cache miss, which drops an expired entry. *)
LEMMA QuietMiss ==
  ASSUME AuthorityInv, NEW key, NEW cacheable
  PROVE  Quiet(auth, Missed(key, cacheable), epoch)
<1>1. CASE cacheable
 <2> DEFINE t == WithoutKey(auth.cache, key)
            b == [auth EXCEPT !.cache = t]
 <2>0. /\ auth \in Authorities /\ auth.cache \in Seq(Cached) /\ Len(auth.cache) <= MaxCached
       /\ Len(auth.runs) <= MaxRunDenials /\ CacheOf(auth, epoch)
   BY QuietSame DEF Quiet, Authorities, Bounded
 <2>1. t = WithoutKey(auth.cache, key) /\ b = [auth EXCEPT !.cache = t]
   OBVIOUS
 <2>2. Missed(key, cacheable) = b  BY <1>1 DEF Missed
 <2> HIDE DEF t, b
 <2>3. t \in Seq(Cached) /\ Len(t) <= Len(auth.cache) /\ AllFrom(t, auth.cache)
   BY <2>0, <2>1, CacheLookedUp
 <2>4. /\ b \in Authorities /\ SameGlobal(auth, b) /\ b.runs = auth.runs /\ b.cache = t
       /\ Len(b.cache) <= MaxCached /\ CacheOf(b, epoch)
       /\ auth.cache = <<>> => b.cache = <<>>
   BY <2>0, <2>1, <2>3, CacheReplaced
 <2> QED BY <2>0, <2>2, <2>4 DEF Quiet, Bounded
<1>2. CASE ~cacheable
  BY <1>2, QuietSame DEF Missed
<1> QED BY <1>1, <1>2

(* An outage is decided by what is retained, and drops none of it. *)
LEMMA QuietOutage ==
  ASSUME AuthorityInv, NEW a, Quiet(auth, a, epoch), NEW run, HandleOutage(a, run)
  PROVE  Quiet(auth, auth', epoch) /\ (local' # "nobody" => ~Denied(auth))
<1>1. Denied(a) <=> Denied(auth)  BY DEF Quiet, SameGlobal, Denied
<1>2. local' # "nobody" => ~Denied(auth)  BY <1>1 DEF HandleOutage, Blocked
<1>3. CASE Denied(a)
  BY <1>2, <1>3 DEF HandleOutage
<1>4. CASE ~Denied(a)
 <2>1. a \in Authorities /\ Len(a.runs) <= MaxRunDenials /\ auth' = TouchRun(a, run)
   BY <1>4 DEF HandleOutage, Quiet, Bounded
 <2>2. /\ auth' \in Authorities /\ SameGlobal(a, auth') /\ auth'.cache = a.cache
       /\ Len(auth'.runs) <= MaxRunDenials
       /\ \A x : DeniedAt(a.runs, x) # {} => DeniedAt(auth'.runs, x) # {}
   BY <2>1, TouchStep
 <2> QED BY <1>2, <2>2 DEF Quiet, SameGlobal, Bounded, CacheOf
<1> QED BY <1>3, <1>4

(* Requests that leave are numbered in turn; those that stay keep theirs. *)
LEMMA SentSound ==
  ASSUME AuthorityInv, NEW kind \in {"check", "lease"}, NEW run \in Runs, NEW key \in Chain,
         NEW cacheable \in BOOLEAN, kind = "lease" => run \in Run,
         Dispatched(NewRequest(kind, run, key, cacheable)),
         auth'.order = auth.order
  PROVE  asked' \subseteq Requests /\ AskedSound' /\ sequence' = sequence + 1
<1> DEFINE p == [NewRequest(kind, run, key, cacheable) EXCEPT !.dispatch = sequence']
<1>0. /\ sequence \in Nat /\ sequence' = sequence + 1 /\ now \in Nat /\ epoch \in Nat
      /\ asked \subseteq Requests
      /\ auth.order.watermark \in Nat /\ auth.order.watermark <= sequence
  BY DEF AuthorityInv, Typed, Dispatched, Sound, OrderSound, Authorities, Orders
<1>1. p = [kind |-> kind, run |-> run, key |-> key, cacheable |-> cacheable,
           dispatch |-> sequence + 1, at |-> now, epoch |-> epoch]
  BY <1>0 DEF NewRequest
<1>2. p \in Requests /\ p.dispatch = sequence + 1 /\ p.kind = kind /\ p.run = run
  BY <1>0, <1>1 DEF Requests
<1>3. asked' = asked \cup {p}  BY DEF Dispatched
<1> HIDE DEF p
<1>4. \A q \in asked : q.dispatch <= sequence /\ q.dispatch # auth.order.watermark /\ 0 < q.dispatch
                       /\ q.dispatch \in Nat /\ (q.kind = "lease" => q.run \in Run)
  BY <1>0 DEF AuthorityInv, AskedSound, Requests
<1>5. \A q, r \in asked : q.dispatch = r.dispatch => q = r
  BY DEF AuthorityInv, AskedSound
<1>6. \A q \in asked' : q.dispatch <= sequence' /\ q.dispatch # auth'.order.watermark /\ 0 < q.dispatch
                        /\ (q.kind = "lease" => q.run \in Run)
  BY <1>0, <1>2, <1>3, <1>4
<1>7. \A q, r \in asked' : q.dispatch = r.dispatch => q = r
  BY <1>0, <1>2, <1>3, <1>4, <1>5
<1> QED BY <1>0, <1>2, <1>3, <1>6, <1>7 DEF AskedSound

(* Requests that were answered or dropped leave the others theirs. *)
LEMMA FewerAsked ==
  ASSUME AuthorityInv, asked' \subseteq asked, sequence' = sequence, auth'.order = auth.order
  PROVE  asked' \subseteq Requests /\ AskedSound'
BY DEF AuthorityInv, Typed, AskedSound

(* A request that fails or is discarded, an outage, a cached allow. *)
LEMMA QuietAnswer ==
  ASSUME AuthorityInv, asked' \subseteq asked, sequence' = sequence, Quiet(auth, auth', epoch),
         local' # "nobody" => ~Denied(auth),
         UNCHANGED <<stopped, now, epoch, newest>>
  PROVE  AuthorityInv' /\ Ended
<1>1. asked' \subseteq Requests /\ AskedSound'
  BY FewerAsked DEF Quiet, SameGlobal
<1>2. epoch' \in Nat /\ now' \in Nat /\ stopped' \in [Run -> Int] /\ epoch' = epoch
  BY DEF AuthorityInv, Typed
<1> QED BY <1>1, <1>2, QuietStep

(* A directive files the denial of its run; an earlier one is gone only when *)
(* the bound drops the least recently used. *)
LEMMA DirectiveStep ==
  ASSUME AuthorityInv, NEW q \in asked, q.run \in Run, Directive(q)
  PROVE  /\ Folds(auth, auth', newest, sequence, q)
         /\ stopped' \in [Run -> Int]
<1>0. /\ auth \in Authorities /\ Len(auth.runs) <= MaxRunDenials /\ now \in Int
      /\ stopped \in [Run -> Int] /\ Bounded(auth) /\ newest \in Newest
      /\ Sound(auth, newest, sequence) /\ CacheOf(auth, epoch) /\ (Denied(auth) => auth.cache = <<>>)
  BY InFlight DEF Bounded
<1>1. Folds(auth, auth, newest, sequence, q)  BY <1>0, RunsUntouched DEF Folds
<1>2. /\ auth' \in Authorities /\ SameGlobal(auth, auth') /\ auth'.cache = auth.cache
      /\ Len(auth'.runs) <= MaxRunDenials /\ RunsKept(auth, auth', q)
  BY <1>0, FileStep DEF Directive
<1>3. Folds(auth, auth', newest, sequence, q)  BY <1>1, <1>2, FoldsOn
<1> QED BY <1>0, <1>3 DEF Directive

(* The types the steps below need. *)
LEMMA LastHeard ==
  ASSUME AuthorityInv
  PROVE  /\ sequence \in Nat /\ now \in Nat /\ epoch \in Nat /\ stopped \in [Run -> Int]
         /\ auth \in Authorities
BY DEF AuthorityInv, Typed

(* A call's check is sent, or skipped for an outage. *)
LEMMA CheckSteps ==
  ASSUME AuthorityInv, Check
  PROVE  AuthorityInv' /\ Ended
<1>1. PICK run \in Runs, key \in Chain, cacheable \in BOOLEAN :
        SendCheck(run, key, cacheable) \/ SkipCheck(run, key, cacheable)
  BY DEF Check
<1>2. Quiet(auth, Missed(key, cacheable), epoch)  BY QuietMiss
<1>3. CASE SendCheck(run, key, cacheable)
  BY <1>2, <1>3, SentSound, LastHeard, QuietStep DEF SendCheck, Quiet, SameGlobal, Dispatched
<1>4. CASE SkipCheck(run, key, cacheable)
  BY <1>2, <1>4, QuietOutage, QuietAnswer DEF SkipCheck
<1> QED BY <1>1, <1>3, <1>4

(* A cached allow answers a call: no denial stands beside it. *)
LEMMA CacheSteps ==
  ASSUME AuthorityInv, NEW key \in Chain, CacheHit(key)
  PROVE  AuthorityInv' /\ Ended
<1> DEFINE t == Touched(auth.cache, KeyAt(auth.cache, key))
<1>0. /\ auth \in Authorities /\ auth.cache \in Seq(Cached) /\ Len(auth.cache) <= MaxCached
      /\ Len(auth.runs) <= MaxRunDenials /\ CacheOf(auth, epoch)
  BY QuietSame DEF Quiet, Authorities, Bounded
<1>1. t = Touched(auth.cache, KeyAt(auth.cache, key)) /\ auth' = [auth EXCEPT !.cache = t]
  BY DEF CacheHit
<1> HIDE DEF t
<1>2. t \in Seq(Cached) /\ Len(t) <= Len(auth.cache) /\ AllFrom(t, auth.cache)
  BY <1>0, <1>1, CacheLookedUp
<1>3. /\ auth' \in Authorities /\ SameGlobal(auth, auth') /\ auth'.runs = auth.runs
      /\ Len(auth'.cache) <= MaxCached /\ CacheOf(auth', epoch)
      /\ auth.cache = <<>> => auth'.cache = <<>>
  BY <1>0, <1>1, <1>2, CacheReplaced
<1>4. Quiet(auth, auth', epoch)  BY <1>0, <1>3 DEF Quiet, Bounded
<1>5. ~Denied(auth)
  BY DEF CacheHit, KeyAt, AuthorityInv, CacheIsCurrent
<1>6. asked' \subseteq asked /\ sequence' = sequence /\ UNCHANGED <<stopped, now, epoch, newest>>
  BY DEF CacheHit
<1> QED BY <1>4, <1>5, <1>6, QuietAnswer

(* A lease is asked for or renewed. *)
LEMMA LeaseSends ==
  ASSUME AuthorityInv, NEW run \in Run, NEW key \in Chain, SendLease(run, key)
  PROVE  AuthorityInv' /\ Ended
<1>1. Quiet(auth, auth', epoch) /\ auth'.order = auth.order
  BY QuietSame DEF SendLease
<1>2. asked' \subseteq Requests /\ AskedSound' /\ sequence' = sequence + 1
  BY <1>1, SentSound DEF SendLease, Runs
<1>3. local' = "nobody" /\ newest' = newest /\ now' = now /\ epoch' = epoch /\ stopped' = stopped
  BY DEF SendLease, Dispatched
<1> QED BY <1>1, <1>2, <1>3, LastHeard, QuietStep

(* A request in flight is answered, fails or is dropped. *)
LEMMA AnswerSteps ==
  ASSUME AuthorityInv, NEW q \in asked, Answer(q)
  PROVE  AuthorityInv' /\ Ended
<1>0. /\ sequence \in Nat /\ now \in Nat /\ epoch \in Nat /\ stopped \in [Run -> Int]
      /\ q \in Requests /\ (q.kind = "lease" => q.run \in Run)
  BY LastHeard, InFlight
<1>1. CASE CheckFails(q)
  BY <1>1, QuietSame, QuietOutage, QuietAnswer DEF CheckFails, Answered
<1>2. CASE CheckDiscarded(q)
  BY <1>2, QuietSame, QuietAnswer DEF CheckDiscarded, Answered
<1>3. CASE CheckStops(q)
  BY <1>0, <1>3, DirectiveStep, AnswerStep DEF CheckStops, Requests, Runs, Answered
<1>4. CASE CheckMisrouted(q)
  BY <1>4, QuietSame, QuietOutage, QuietAnswer DEF CheckMisrouted, Answered
<1>5. ASSUME NEW verdict \in Verdicts, CheckAnswered(q, verdict)
      PROVE  AuthorityInv' /\ Ended
 <2>1. Folds(auth, auth', newest', sequence, q)
   BY <1>5, CheckAllows, CheckDenies DEF CheckAnswered, Keeps
 <2>2. stopped' \in [Run -> Int]
  <3>1. Never \in Int /\ [stopped EXCEPT ![q.run] = Never] \in [Run -> Int]
   <4>1. Never \in Int  BY DEF Never
   <4> QED BY <1>0, <4>1
  <3>2. stopped' = stopped \/ stopped' = [stopped EXCEPT ![q.run] = Never]
    BY <1>5 DEF CheckAnswered, StopsAfterAllow
  <3> QED BY <1>0, <3>1, <3>2
 <2>3. asked' = asked \ {q} /\ sequence' = sequence /\ epoch' = epoch /\ now' = now /\ local' = "nobody"
   BY <1>5 DEF CheckAnswered, Answered
 <2> QED BY <2>1, <2>2, <2>3, AnswerStep
<1>6. CASE LeaseDiscarded(q)
  BY <1>6, QuietSame, QuietAnswer DEF LeaseDiscarded, Answered
<1>7. CASE LeaseStops(q)
  BY <1>0, <1>7, DirectiveStep, AnswerStep DEF LeaseStops, Answered
<1>8. ASSUME NEW verdict \in Verdicts \ {"allow_hard"}, LeaseAnswered(q, verdict)
      PROVE  AuthorityInv' /\ Ended
  BY <1>8, LeaseAllows, LeaseDenies, <1>0, AnswerStep DEF LeaseAnswered, Answered
<1> QED BY <1>1, <1>2, <1>3, <1>4, <1>5, <1>6, <1>7, <1>8 DEF Answer

(* The binding moves, a run is resumed, time passes. *)
LEMMA OtherSteps ==
  ASSUME AuthorityInv, ResetAuthority \/ (\E r \in Run : Resume(r)) \/ Tick \/ UNCHANGED vars
  PROVE  AuthorityInv' /\ Ended
<1>0. sequence \in Nat /\ now \in Nat /\ epoch \in Nat /\ stopped \in [Run -> Int] /\ auth \in Authorities
  BY LastHeard
<1>1. CASE ResetAuthority
 <2>1. Quiet(auth, auth', epoch')
   BY <1>1, QuietSame, <1>0, Uncached DEF ResetAuthority, Quiet
 <2>2. asked' \subseteq Requests /\ AskedSound'
   BY <1>1, <2>1, FewerAsked DEF ResetAuthority, Quiet, SameGlobal
 <2>3. sequence' = sequence /\ epoch' = epoch + 1 /\ now' = now /\ stopped' = stopped
       /\ newest' = newest /\ local' = "nobody"
   BY <1>1 DEF ResetAuthority
 <2> QED BY <1>0, <2>1, <2>2, <2>3, QuietStep
<1>2. CASE (\E r \in Run : Resume(r)) \/ Tick
  BY <1>2, QuietSame, FewerAsked, <1>0, QuietStep DEF Resume, Tick, Never
<1>3. CASE UNCHANGED vars
  BY <1>3, QuietSame, QuietAnswer DEF vars, AuthorityInv, LocalSound
<1> QED BY <1>1, <1>2, <1>3

(* The enforcer starts with no authority retained. *)
LEMMA InitSound == Init => AuthorityInv
<1> SUFFICES ASSUME Init PROVE AuthorityInv
  OBVIOUS
<1>1. /\ auth.order = NoOrder /\ auth.deny = NoDenial /\ auth.completed = 0 /\ auth.fallback = 0
      /\ auth.cache = <<>> /\ auth.runs = <<>>
      /\ auth \in Authorities /\ ~Denied(auth)
  BY EmptySeq DEF Init, Authorities, Orders, OrderKinds, Denials, NoOrder, NoDenial, Denied
<1>2. Len(auth.cache) = 0 /\ Len(auth.runs) = 0 /\ DOMAIN auth.cache = {}
  BY <1>1, EmptySeq
<1>3. Typed  BY <1>1, <1>2, AuthorityAssumption DEF Init, Typed, Bounded, Never, Newest
<1>4. Sound(auth, newest, sequence)
  BY <1>1 DEF Init, Sound, OrderSound, DenySound, HeardSound, NoOrder, NoDenial
<1>5. AskedSound /\ LocalSound /\ CacheIsCurrent
  BY <1>1, <1>2 DEF Init, AskedSound, LocalSound, CacheIsCurrent
<1> QED BY <1>3, <1>4, <1>5 DEF AuthorityInv

(* Every step keeps the invariant and ends no denial too early. *)
LEMMA StepSound == AuthorityInv /\ [Next]_vars => AuthorityInv' /\ Ended
<1> SUFFICES ASSUME AuthorityInv, [Next]_vars PROVE AuthorityInv' /\ Ended
  OBVIOUS
<1> QED BY CheckSteps, CacheSteps, LeaseSends, AnswerSteps, OtherSteps DEF Next

(* The retained authority is always explained by the answers it has seen: its *)
(* watermark never falls behind the newest check answered, and what is above *)
(* that is a lease's or a fallback's (globalAuthorityOrder, completed and *)
(* fallback of BudgetEnforcer). *)
THEOREM AuthorityIsSound == Spec => []AuthorityInv
<1>1. AuthorityInv /\ [Next]_vars => AuthorityInv'
  BY StepSound
<1> QED BY InitSound, <1>1, PTL DEF Spec

(* Whatever the order of the answers, the cache and an outage let no call *)
(* through while the newest check answered denied the project and no later *)
(* lease answer spoke, a check's denial is never older than the newest check, *)
(* and no allow is left cached beside a denial. *)
THEOREM NewestChecksDecide == Spec => []NewestCheckDecides
<1>1. AuthorityInv => NewestCheckDecides
  BY DEF AuthorityInv, Sound, HeardSound, LocalSound, NewestDenialHolds, DenialIsTheNewest, NewestCheckDecides
<1> QED BY AuthorityIsSound, <1>1, PTL

(* No answer to an older request ends a denial: the project's goes with the *)
(* answer to a later request, or to a lease seen later and not older than a *)
(* check already answered; a run's with the answer to a request that left *)
(* after it was seen, or by the bound on remembered runs, oldest first. *)
THEOREM DenialsOutliveOlderAnswers == Spec => DenialOutlivesOlderAnswers
<1>1. AuthorityInv /\ [Next]_vars => [ProjectDenialEnds /\ \A r \in Run : RunDenialEnds(r)]_vars
  BY StepSound DEF Ended
<1> QED BY AuthorityIsSound, <1>1, PTL DEF Spec, DenialOutlivesOlderAnswers
=============================================================================
