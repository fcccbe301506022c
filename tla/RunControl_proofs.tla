--------------------------- MODULE RunControl_proofs ---------------------------
(***************************************************************************)
(* Theorems about the end of a run: the registry of stopped runs, for every    *)
(* number of runs, streams, requests and registry entries, and the retirement  *)
(* of its leases, for every number of runs, leases, workers and owners.        *)
(***************************************************************************)
EXTENDS MCRunControl, FiniteSetTheorems, WellFoundedInduction, TLAPS

Winners == Termination \cup {Unstopped}
Epochs  == [termination : Winners, owners : Nat]

(* The types of what stops are made of. *)
Typed ==
  /\ terminations \in [Run -> Winners]
  /\ activeHandles \subseteq Run
  /\ generation \in [Run -> Generation]
  /\ epoch \in [Run -> [Generation -> Epochs]]
  /\ handles \in [Handle -> [phase : {"new", "held", "released"}, run : Run \cup {NoRun}, generation : Generation,
                             releasedTermination : Winners]]
  /\ clock \in Nat /\ made \in Nat /\ clearedAt \in [Run -> Nat]

(* A request that was sent is of a run. *)
Asked ==
  /\ DOMAIN requests = Request
  /\ \A q \in Request : requests[q].phase = "waiting" => requests[q].run \in Run

(* A stop that is not older than the run's last clear. *)
Recent(r, w) == w # Unstopped => clearedAt[r] < w.id /\ w.id <= made

(* An open stream belongs to a group and to no generation that has not begun. *)
Begun ==
  \A h \in Handle : handles[h].phase = "held" =>
    /\ handles[h].run \in activeHandles
    /\ handles[h].generation <= generation[handles[h].run]

Counted ==
  \A r \in Run : \A g \in Generation :
    IsFiniteSet(Held(r, g)) /\ epoch[r][g].owners = Cardinality(Held(r, g))

(* A group has streams, and an epoch without streams of its own has no winner. *)
Grouped ==
  \A r \in activeHandles :
    /\ \E g \in Generation : Held(r, g) # {}
    /\ CurrentEpoch(r).owners = 0 => CurrentEpoch(r).termination = Unstopped

Agreed ==
  \A r \in Run : terminations[r] # Unstopped /\ Held(r, generation[r]) # {} =>
                   CurrentEpoch(r).termination = terminations[r]

AllRecent ==
  \A r \in Run : /\ clearedAt[r] <= made
                 /\ Recent(r, terminations[r])
                 /\ r \in activeHandles => Recent(r, CurrentEpoch(r).termination)

StopInv == Typed /\ Begun /\ Counted /\ Grouped /\ Agreed /\ AllRecent

-----------------------------------------------------------------------------
LEMMA StopInit == Init => StopInv /\ Asked
<1> SUFFICES ASSUME Init PROVE StopInv /\ Asked
  OBVIOUS
<1>0. 0 \in Generation  BY RunControlAssumption DEF Generation
<1>1. Typed
  BY <1>0 DEF Init, Winners, FreshEpoch, Epochs, NewHandle, Typed
<1>2. \A r \in Run : \A g \in Generation : Held(r, g) = {} /\ epoch[r][g] = FreshEpoch
  BY DEF Init, Held, NewHandle
<1>3. Begun  BY DEF Init, Begun, NewHandle
<1>4. Counted  BY <1>2, FS_EmptySet DEF Counted, FreshEpoch
<1>5. Grouped /\ Agreed
  BY DEF Grouped, Agreed, Init
<1>6. AllRecent  BY DEF AllRecent, Init, Recent
<1>7. Asked  BY DEF Init, NewRequest, Asked
<1>8. QED BY <1>1, <1>3, <1>4, <1>5, <1>6, <1>7 DEF StopInv

(* A set of open streams with an owner is not empty, and the other way round. *)
LEMMA OwnersAreStreams ==
  ASSUME Counted, NEW r \in Run, NEW g \in Generation
  PROVE  epoch[r][g].owners = 0 <=> Held(r, g) = {}
  BY FS_EmptySet DEF Counted

LEMMA HeldSame ==
  ASSUME UNCHANGED handles
  PROVE  \A r, g : Held(r, g)' = Held(r, g)
  BY DEF Held

(* What installing leaves of the registry: an entry, or nothing. *)
LEMMA Installed ==
  ASSUME Typed, NEW r \in Run, NEW w \in Winners, NEW t, InstallExact(r, w, t)
  PROVE  /\ terminations' \in [Run -> Winners]
         /\ \A q \in Run : terminations'[q] = Unstopped \/ terminations'[q] = IF q = r THEN w ELSE terminations[q]
<1> DEFINE order == Append(Remove(recency, r), r)
           kept  == SubSeq(order, IF Len(order) > Capacity THEN Len(order) - Capacity + 1 ELSE 1, Len(order))
<1>1. terminations' = [q \in Run |-> IF ~Contains(kept, q) THEN Unstopped
                                     ELSE IF q = r THEN w ELSE terminations[q]]
  BY DEF InstallExact
<1> HIDE DEF kept
<1>2. QED BY <1>1 DEF Typed, Winners

(* The stop that gates a run and the one its streams obey are the same. *)
LEMMA OneStop ==
  ASSUME StopInv, NEW r \in Run, Held(r, generation[r]) # {}
  PROVE  Visible(r) = CurrentEpoch(r).termination /\ r \in activeHandles
<1>1. PICK h \in Held(r, generation[r]) : TRUE
  OBVIOUS
<1>2. r \in activeHandles  BY <1>1 DEF StopInv, Begun, Held
<1>3. QED BY <1>2 DEF StopInv, Agreed, Visible, OrElse, ActiveTermination

LEMMA VisibleRecent ==
  ASSUME StopInv, NEW r \in Run
  PROVE  Visible(r) \in Winners /\ Recent(r, Visible(r))
<1>1. CurrentEpoch(r).termination \in Winners /\ terminations[r] \in Winners
  BY DEF StopInv, Typed, CurrentEpoch, Epochs
<1>2. QED BY <1>1 DEF StopInv, AllRecent, Visible, OrElse, ActiveTermination, Recent, Winners

-----------------------------------------------------------------------------
(* The registry installs a stop that the run's streams obey already, or are told with it. *)
LEMMA InstallStep ==
  ASSUME StopInv, NEW r \in Run, NEW w \in Winners, w # Unstopped, NEW t, InstallExact(r, w, t),
         Visible(r) = Unstopped \/ w = Visible(r),
         UNCHANGED <<activeHandles, generation, handles, clearedAt>>,
         clock' \in Nat, made' \in Nat, made <= made', clearedAt[r] < w.id, w.id <= made',
         \/ epoch' = epoch /\ (w = Visible(r) \/ r \notin activeHandles \/ CurrentEpoch(r).owners = 0)
         \/ epoch' = [epoch EXCEPT ![r][generation[r]].termination = OrElse(@, w)]
            /\ CurrentEpoch(r).owners > 0
  PROVE  StopInv'
<1> DEFINE g0 == generation[r]
<1>1. /\ terminations \in [Run -> Winners] /\ epoch \in [Run -> [Generation -> Epochs]]
      /\ g0 \in Generation /\ generation \in [Run -> Generation] /\ clearedAt \in [Run -> Nat]
      /\ activeHandles \subseteq Run /\ made \in Nat
  BY DEF StopInv, Typed
<1>2. /\ terminations' \in [Run -> Winners]
      /\ \A q \in Run : terminations'[q] = Unstopped \/ terminations'[q] = IF q = r THEN w ELSE terminations[q]
  BY Installed DEF StopInv
<1>3. OrElse(epoch[r][g0].termination, w) \in Winners  BY <1>1 DEF OrElse, Epochs
<1>4. epoch' \in [Run -> [Generation -> Epochs]]
 <2>1. CASE epoch' = epoch
   BY <1>1, <2>1
 <2>2. CASE epoch' = [epoch EXCEPT ![r][generation[r]].termination = OrElse(@, w)]
  <3> DEFINE e == [epoch[r][g0] EXCEPT !.termination = OrElse(epoch[r][g0].termination, w)]
  <3>1. epoch[r][g0] \in Epochs  BY <1>1
  <3>2. e \in Epochs  BY <1>3, <3>1 DEF Epochs
  <3>3. [epoch[r] EXCEPT ![g0] = e] \in [Generation -> Epochs]  BY <1>1, <3>2
  <3>4. epoch' = [epoch EXCEPT ![r] = [epoch[r] EXCEPT ![g0] = e]]  BY <2>2
  <3>5. QED BY <1>1, <3>3, <3>4
 <2>3. QED BY <2>1, <2>2
<1>5. \A q \in Run : \A g \in Generation :
        /\ epoch'[q][g].owners = epoch[q][g].owners
        /\ ~(q = r /\ g = g0) => epoch'[q][g] = epoch[q][g]
 <2>1. CASE epoch' = epoch
   BY <2>1
 <2>2. CASE epoch' = [epoch EXCEPT ![r][generation[r]].termination = OrElse(@, w)]
   BY <1>1, <2>2 DEF Epochs
 <2>3. QED BY <2>1, <2>2
<1>6. \/ epoch'[r][g0].termination = epoch[r][g0].termination
      \/ epoch'[r][g0].termination = w /\ epoch[r][g0].owners > 0
  BY <1>1 DEF Epochs, OrElse, CurrentEpoch
<1>7. \A q, g : Held(q, g)' = Held(q, g)
  BY HeldSame
<1>8. Held(r, g0) # {} => epoch'[r][g0].termination = w
  BY OneStop, <1>1, OwnersAreStreams DEF StopInv, CurrentEpoch, OrElse, Epochs
<1>9. Typed'  BY <1>1, <1>2, <1>4 DEF StopInv, Typed
<1>10. Begun' /\ Counted'
  BY <1>5, <1>7 DEF StopInv, Begun, Counted
<1>11. Grouped'
 <2> SUFFICES ASSUME NEW q \in activeHandles
              PROVE  /\ \E g \in Generation : Held(q, g) # {}
                     /\ epoch'[q][generation[q]].owners = 0 => epoch'[q][generation[q]].termination = Unstopped
   BY <1>7 DEF Grouped, CurrentEpoch
 <2>1. /\ \E g \in Generation : Held(q, g) # {}
       /\ epoch[q][generation[q]].owners = 0 => epoch[q][generation[q]].termination = Unstopped
       /\ q \in Run /\ generation[q] \in Generation
   BY <1>1 DEF StopInv, Grouped, CurrentEpoch
 <2>2. epoch'[q][generation[q]].owners = epoch[q][generation[q]].owners  BY <1>5, <2>1
 <2>3. CASE q = r
   BY <2>3, <1>6, <2>1, <2>2
 <2>4. CASE q # r
   BY <1>5, <2>1, <2>4
 <2>5. QED BY <2>3, <2>4
<1>12. Agreed'
 <2> SUFFICES ASSUME NEW q \in Run, terminations'[q] # Unstopped, Held(q, generation[q]) # {}
              PROVE  epoch'[q][generation[q]].termination = terminations'[q]
   BY <1>7 DEF Agreed, CurrentEpoch
 <2>1. CASE q = r
   BY <1>2, <1>8, <2>1
 <2>2. CASE q # r
   BY <1>2, <2>2, <1>1, <1>5 DEF StopInv, Agreed, CurrentEpoch
 <2>3. QED BY <2>1, <2>2
<1>13. AllRecent'
 <2> SUFFICES ASSUME NEW q \in Run
              PROVE  /\ clearedAt[q] <= made'
                     /\ Recent(q, terminations[q])'
                     /\ q \in activeHandles => Recent(q, CurrentEpoch(q).termination)'
   BY DEF AllRecent
 <2>1. /\ clearedAt[q] <= made /\ clearedAt[q] \in Nat /\ Recent(q, terminations[q])
       /\ (q \in activeHandles => Recent(q, epoch[q][generation[q]].termination))
       /\ terminations[q] \in Winners /\ epoch[q][generation[q]].termination \in Winners
   BY <1>1 DEF StopInv, AllRecent, CurrentEpoch, Epochs
 <2>2. \A v \in Winners : v # Unstopped => v.id \in Nat
   BY DEF Winners, Termination
 <2>3. \A v \in Winners : Recent(q, v) => (v # Unstopped => clearedAt'[q] < v.id /\ v.id <= made')
   BY <1>1, <2>1, <2>2 DEF Recent
 <2>4. terminations'[q] # Unstopped => clearedAt'[q] < (terminations'[q]).id /\ (terminations'[q]).id <= made'
   BY <1>2, <2>1, <2>3
 <2>5. q \in activeHandles =>
         (epoch'[q][generation[q]].termination # Unstopped =>
            /\ clearedAt'[q] < (epoch'[q][generation[q]].termination).id
            /\ (epoch'[q][generation[q]].termination).id <= made')
  <3>1. CASE q = r
    BY <1>6, <2>1, <2>3, <3>1
  <3>2. CASE q # r
    BY <1>1, <1>5, <3>2, <2>1, <2>3
  <3>3. QED BY <3>1, <3>2
 <2>6. clearedAt[q] <= made'  BY <1>1, <2>1
 <2>7. QED BY <2>4, <2>5, <2>6 DEF Recent, CurrentEpoch
<1>14. QED BY <1>9, <1>10, <1>11, <1>12, <1>13 DEF StopInv

(* What a step does to a stream: an open one stays in its epoch, whose winner is kept. *)
Keeps ==
  \A h \in Handle : Seen(h) # Unstopped => Seen(h)' = Seen(h)

(* What a step does to the stop of a run whose streams obey it. *)
Outlives ==
  \A r \in Run : (Visible(r) # Unstopped /\ clearedAt'[r] = clearedAt[r] /\ Visible(r)' # Visible(r)) =>
                   Held(r, generation[r])' = {}

LEMMA WinnersAreStops ==
  /\ Unstopped \notin Termination
  /\ \A w \in Winners : w # Unstopped <=> w \in Termination
  /\ \A w \in Termination : w.id \in Nat
BY NoTermination DEF Winners, Termination

(* The winner of a mark is the visible one, or a new one. *)
LEMMA WinnerRecent ==
  ASSUME StopInv, NEW r \in Run, NEW s \in Source
  PROVE  LET w == Winner(r, s) IN
         /\ w \in Termination
         /\ Visible(r) = Unstopped \/ w = Visible(r)
         /\ clearedAt[r] < w.id
         /\ w.id <= (IF w.id > made THEN w.id ELSE made)
         /\ made <= (IF w.id > made THEN w.id ELSE made)
         /\ (IF w.id > made THEN w.id ELSE made) \in Nat
<1> DEFINE w == Winner(r, s)
           n == [source |-> s, atMonotonic |-> clock, id |-> made + 1]
<1>1. clock \in Nat /\ made \in Nat /\ clearedAt[r] \in Nat /\ clearedAt[r] <= made
  BY DEF StopInv, Typed, AllRecent
<1>2. n \in Termination /\ n.id = made + 1
  BY <1>1 DEF Termination
<1>3. Visible(r) \in Winners /\ Recent(r, Visible(r))
  BY VisibleRecent
<1>4. CASE Visible(r) = Unstopped
  BY <1>4, <1>1, <1>2 DEF Winner, OrElse
<1>5. CASE Visible(r) # Unstopped
  BY <1>5, <1>3, WinnersAreStops, <1>1 DEF Winner, OrElse, Recent
<1>6. QED BY <1>4, <1>5

LEMMA MarkStep ==
  ASSUME StopInv, NEW r \in Run, NEW s \in Source, MarkTerminated(r, s)
  PROVE  StopInv'
<1> DEFINE w == Winner(r, s)
<1>1. /\ w \in Termination /\ (Visible(r) = Unstopped \/ w = Visible(r)) /\ clearedAt[r] < w.id
      /\ w.id <= made' /\ made <= made' /\ made' \in Nat
  BY WinnerRecent DEF MarkTerminated
<1>2. w \in Winners /\ w # Unstopped
  BY <1>1, WinnersAreStops DEF Winners
<1>3. InstallExact(r, w, clock) /\ UNCHANGED <<activeHandles, generation, handles, clearedAt>> /\ clock' \in Nat
  BY DEF MarkTerminated, StopInv, Typed
<1>4. CurrentEpoch(r).owners \in Nat  BY DEF StopInv, Typed, Epochs, CurrentEpoch
<1>5. \/ epoch' = epoch /\ (w = Visible(r) \/ r \notin activeHandles \/ CurrentEpoch(r).owners = 0)
      \/ epoch' = [epoch EXCEPT ![r][generation[r]].termination = OrElse(@, w)]
         /\ CurrentEpoch(r).owners > 0
  BY <1>4 DEF MarkTerminated, Latch
<1> HIDE DEF w
<1>6. QED BY <1>1, <1>2, <1>3, <1>5, InstallStep

(* A read and an allow that keeps the stop write the registry with the winner it has. *)
LEMMA ReinstallStep ==
  ASSUME StopInv, NEW r \in Run, NEW t, Visible(r) # Unstopped, InstallExact(r, Visible(r), t),
         UNCHANGED <<groups, handles, clock, made, clearedAt>>
  PROVE  StopInv'
<1>1. Visible(r) \in Winners /\ Recent(r, Visible(r))
  BY VisibleRecent
<1>2. clock' \in Nat /\ made' \in Nat /\ made <= made'
  BY DEF StopInv, Typed
<1>3. clearedAt[r] < Visible(r).id /\ Visible(r).id <= made'
  BY <1>1 DEF Recent
<1>4. epoch' = epoch /\ UNCHANGED <<activeHandles, generation, handles, clearedAt>>
  BY DEF groups
<1>5. QED BY <1>1, <1>2, <1>3, <1>4, InstallStep

(* A clear gives the group an epoch that nobody is in. *)
LEMMA ClearStep ==
  ASSUME StopInv, NEW r \in Run, Clear(r), UNCHANGED <<activeHandles, handles, clock, made>>
  PROVE  StopInv'
<1> DEFINE n == generation[r] + 1
<1>1. /\ terminations \in [Run -> Winners] /\ epoch \in [Run -> [Generation -> Epochs]]
      /\ generation \in [Run -> Generation] /\ clearedAt \in [Run -> Nat]
      /\ activeHandles \subseteq Run /\ made \in Nat
  BY DEF StopInv, Typed
<1>2. /\ terminations' = [terminations EXCEPT ![r] = Unstopped]
      /\ clearedAt' = [clearedAt EXCEPT ![r] = made]
  BY DEF Clear
<1>3. \A q, g : Held(q, g)' = Held(q, g)
  BY HeldSame
<1>4. FreshEpoch \in Epochs  BY DEF FreshEpoch, Epochs, Winners
<1>5. CASE r \in activeHandles
 <2>1. /\ n \in Generation /\ generation' = [generation EXCEPT ![r] = n]
       /\ epoch' = [epoch EXCEPT ![r][n] = FreshEpoch]
   BY <1>1, <1>5, RunControlAssumption DEF Clear, Generation
 <2>2. Typed'
  <3>1. epoch' \in [Run -> [Generation -> Epochs]]
    BY <1>1, <1>4, <2>1
  <3>2. terminations' \in [Run -> Winners] /\ clearedAt' \in [Run -> Nat] /\ generation' \in [Run -> Generation]
    BY <1>1, <1>2, <2>1 DEF Winners
  <3>3. QED BY <3>1, <3>2 DEF StopInv, Typed
 <2>3. /\ epoch'[r][n] = FreshEpoch
       /\ \A q \in Run : \A g \in Generation : ~(q = r /\ g = n) => epoch'[q][g] = epoch[q][g]
       /\ generation'[r] = n /\ \A q \in Run : q # r => generation'[q] = generation[q]
   BY <1>1, <2>1
 <2>4. Held(r, n) = {}  BY <1>1 DEF StopInv, Begun, Held, Generation
 <2>5. Begun'  BY <1>1, <2>3 DEF StopInv, Typed, Begun, Generation
 <2>6. Counted'
   BY <1>3, <2>3, <2>4, FS_EmptySet DEF Counted, FreshEpoch, StopInv
 <2>7. Grouped'
   BY <1>3, <2>3, <1>1 DEF Grouped, CurrentEpoch, StopInv, FreshEpoch
 <2>8. Agreed'  BY <1>1, <1>2, <1>3, <2>3 DEF StopInv, Agreed, CurrentEpoch
 <2>9. AllRecent'
  <3> SUFFICES ASSUME NEW q \in Run
               PROVE  /\ clearedAt'[q] <= made'
                      /\ Recent(q, terminations[q])'
                      /\ q \in activeHandles => Recent(q, CurrentEpoch(q).termination)'
    BY DEF AllRecent
  <3>1. CASE q = r
    BY <1>1, <1>2, <2>3, <3>1 DEF Recent, CurrentEpoch, FreshEpoch
  <3>2. CASE q # r
    BY <1>1, <1>2, <3>2, <2>3 DEF StopInv, AllRecent, Recent, CurrentEpoch
  <3>3. QED BY <3>1, <3>2
 <2>10. QED BY <2>2, <2>5, <2>6, <2>7, <2>8, <2>9 DEF StopInv
<1>6. CASE r \notin activeHandles
 <2>1. UNCHANGED <<generation, epoch>>  BY <1>6 DEF Clear
 <2>2. Typed'  BY <1>1, <1>2, <2>1 DEF StopInv, Typed, Winners
 <2>3. Begun' /\ Counted' /\ Grouped'
   BY <1>3, <2>1 DEF StopInv, Begun, Counted, Grouped, CurrentEpoch
 <2>4. Agreed'  BY <1>1, <1>2, <1>3, <2>1 DEF StopInv, Agreed, CurrentEpoch
 <2>5. AllRecent'
   BY <1>1, <1>2, <1>6, <2>1 DEF AllRecent, Recent, StopInv, CurrentEpoch
 <2>6. QED BY <2>2, <2>3, <2>4, <2>5 DEF StopInv
<1>7. QED BY <1>5, <1>6

-----------------------------------------------------------------------------
(* The generation a new stream of r joins, and how many are there. *)
Joined(r) == IF r \in activeHandles THEN generation[r] ELSE 0

LEMMA NobodyThere ==
  ASSUME StopInv, NEW r \in Run, r \notin activeHandles, NEW g
  PROVE  Held(r, g) = {}
  BY DEF StopInv, Begun, Held

(* A stream that joins is given the stop of its run. *)
LEMMA Joins ==
  ASSUME StopInv, NEW h \in Handle, NEW r \in Run, AcquireTerminationHandle(h, r)
  PROVE  LET g == Joined(r) IN
         /\ g \in Generation
         /\ generation' = [generation EXCEPT ![r] = g]
         /\ activeHandles' = activeHandles \cup {r}
         /\ UNCHANGED <<registry, clock, made, clearedAt>>
         /\ epoch' = [epoch EXCEPT ![r][g] = [termination |-> Visible(r), owners |-> Cardinality(Held(r, g)) + 1]]
         /\ handles[h].phase = "new"
         /\ handles' = [handles EXCEPT ![h] = [handles[h] EXCEPT !.phase = "held", !.run = r, !.generation = g]]
<1> DEFINE g == Joined(r)
           old == IF r \in activeHandles THEN epoch[r][g] ELSE FreshEpoch
<1>1. /\ g \in Generation /\ epoch[r][g] \in Epochs
  BY RunControlAssumption DEF Joined, Generation, StopInv, Typed
<1>2. old.owners = Cardinality(Held(r, g))
  BY <1>1, NobodyThere, FS_EmptySet DEF StopInv, Counted, FreshEpoch
<1>3. OrElse(old.termination, Visible(r)) = Visible(r)
 <2>1. CASE r \in activeHandles /\ old.termination # Unstopped
   BY <2>1, <1>1, OwnersAreStreams, OneStop DEF Joined, CurrentEpoch, StopInv, Grouped, OrElse
 <2>2. CASE old.termination = Unstopped
   BY <2>2 DEF OrElse
 <2>3. CASE r \notin activeHandles
   BY <2>3 DEF OrElse, FreshEpoch
 <2>4. QED BY <2>1, <2>2, <2>3
<1>4. epoch' = [epoch EXCEPT ![r][g] = [termination |-> OrElse(old.termination, Visible(r)), owners |-> old.owners + 1]]
  BY DEF AcquireTerminationHandle, Joined
<1>5. /\ generation' = [generation EXCEPT ![r] = g]
      /\ activeHandles' = activeHandles \cup {r}
      /\ UNCHANGED <<registry, clock, made, clearedAt>>
      /\ handles[h].phase = "new"
      /\ handles' = [handles EXCEPT ![h] = [handles[h] EXCEPT !.phase = "held", !.run = r, !.generation = g]]
  BY DEF AcquireTerminationHandle, Joined
<1> HIDE DEF g, old
<1>6. QED BY <1>1, <1>2, <1>3, <1>4, <1>5 DEF g

(* What joining does to the sets of open streams. *)
LEMMA JoinsHeld ==
  ASSUME StopInv, NEW h \in Handle, NEW r \in Run, AcquireTerminationHandle(h, r)
  PROVE  /\ h \notin Held(r, Joined(r))
         /\ \A q, g : Held(q, g)' = IF q = r /\ g = Joined(r) THEN Held(q, g) \cup {h} ELSE Held(q, g)
<1> DEFINE g0 == Joined(r)
<1>1. /\ handles[h].phase = "new"
      /\ handles' = [handles EXCEPT ![h] = [handles[h] EXCEPT !.phase = "held", !.run = r, !.generation = g0]]
  BY Joins
<1>2. handles[h] \in [phase : {"new", "held", "released"}, run : Run \cup {NoRun}, generation : Generation,
                      releasedTermination : Winners] /\ DOMAIN handles = Handle
  BY DEF StopInv, Typed
<1>3. handles'[h].phase = "held" /\ handles'[h].run = r /\ handles'[h].generation = g0
  BY <1>1, <1>2
<1>4. \A k \in Handle : k # h => handles'[k] = handles[k]
  BY <1>1, <1>2
<1>5. h \notin Held(r, g0)  BY <1>1 DEF Held
<1> HIDE DEF g0
<1>6. ASSUME NEW q, NEW g
      PROVE  Held(q, g)' = IF q = r /\ g = g0 THEN Held(q, g) \cup {h} ELSE Held(q, g)
  BY <1>1, <1>3, <1>4 DEF Held
<1>7. QED BY <1>5, <1>6 DEF g0

LEMMA AcquireStep ==
  ASSUME StopInv, NEW h \in Handle, NEW r \in Run, AcquireTerminationHandle(h, r)
  PROVE  StopInv'
<1> DEFINE g0 == Joined(r)
           n  == Cardinality(Held(r, g0)) + 1
           e  == [termination |-> Visible(r), owners |-> n]
<1>1. /\ terminations \in [Run -> Winners] /\ epoch \in [Run -> [Generation -> Epochs]]
      /\ generation \in [Run -> Generation] /\ activeHandles \subseteq Run
  BY DEF StopInv, Typed
<1>2. /\ g0 \in Generation /\ generation' = [generation EXCEPT ![r] = g0]
      /\ activeHandles' = activeHandles \cup {r}
      /\ terminations' = terminations /\ clock' = clock /\ made' = made /\ clearedAt' = clearedAt
      /\ epoch' = [epoch EXCEPT ![r][g0] = e]
      /\ handles' = [handles EXCEPT ![h] = [handles[h] EXCEPT !.phase = "held", !.run = r, !.generation = g0]]
  BY Joins DEF registry
<1>3. /\ h \notin Held(r, g0)
      /\ \A q, g : Held(q, g)' = IF q = r /\ g = g0 THEN Held(q, g) \cup {h} ELSE Held(q, g)
  BY JoinsHeld
<1>4. IsFiniteSet(Held(r, g0)) /\ n \in Nat /\ n # 0
  BY <1>2, FS_CardinalityType DEF StopInv, Counted
<1>5. Visible(r) \in Winners /\ Recent(r, Visible(r))
  BY VisibleRecent
<1>6. \A q \in Run : q # r => generation'[q] = generation[q]
  BY <1>1, <1>2
<1>7. generation'[r] = g0  BY <1>1, <1>2
<1>0. r \in activeHandles => generation[r] = g0  BY DEF Joined
<1> HIDE DEF g0, n
<1>8. e \in Epochs  BY <1>4, <1>5 DEF Epochs
<1>9. /\ epoch'[r][g0] = e
      /\ \A q \in Run : \A g \in Generation : ~(q = r /\ g = g0) => epoch'[q][g] = epoch[q][g]
  BY <1>1, <1>2
<1> HIDE DEF e
<1>h. /\ handles'[h].phase = "held" /\ handles'[h].run = r /\ handles'[h].generation = g0
       /\ \A k \in Handle : k # h => handles'[k] = handles[k]
  BY <1>2 DEF StopInv, Typed
<1>10. Typed'
 <2>1. epoch' \in [Run -> [Generation -> Epochs]]
   BY <1>1, <1>8, <1>2
 <2>2. handles' \in [Handle -> [phase : {"new", "held", "released"}, run : Run \cup {NoRun}, generation : Generation,
                                releasedTermination : Winners]]
   BY <1>2 DEF StopInv, Typed
 <2>3. generation' \in [Run -> Generation] /\ activeHandles' \subseteq Run
   BY <1>1, <1>2
 <2>4. QED BY <1>2, <2>1, <2>2, <2>3 DEF StopInv, Typed
<1>11. Begun'
 <2> SUFFICES ASSUME NEW k \in Handle, handles'[k].phase = "held"
              PROVE  handles'[k].run \in activeHandles' /\ handles'[k].generation <= generation'[handles'[k].run]
   BY DEF Begun
 <2>1. CASE k = h
   BY <1>2, <1>7, <1>h, <2>1 DEF Generation
 <2>2. CASE k # h
   BY <1>h, <2>2, <1>0, <1>1, <1>2, <1>6, <1>7 DEF StopInv, Begun
 <2>3. QED BY <2>1, <2>2
<1>12. Counted'
 <2> SUFFICES ASSUME NEW q \in Run, NEW g \in Generation
              PROVE  IsFiniteSet(Held(q, g)') /\ epoch'[q][g].owners = Cardinality(Held(q, g)')
   BY DEF Counted
 <2>1. CASE q = r /\ g = g0
   BY <1>3, <2>1, <1>4, FS_AddElement, <1>9 DEF n, e
 <2>2. CASE ~(q = r /\ g = g0)
   BY <1>3, <1>9, <2>2 DEF StopInv, Counted
 <2>3. QED BY <2>1, <2>2
<1>13. Grouped'
 <2> SUFFICES ASSUME NEW q \in activeHandles'
              PROVE  /\ \E g \in Generation : Held(q, g)' # {}
                     /\ epoch'[q][generation'[q]].owners = 0 => epoch'[q][generation'[q]].termination = Unstopped
   BY DEF Grouped, CurrentEpoch
 <2>1. CASE q = r
   BY <1>2, <1>3, <1>4, <1>7, <1>9, <2>1 DEF e
 <2>2. CASE q # r
   BY <1>1, <1>2, <2>2, <1>6, <1>9, <1>3 DEF StopInv, Grouped, CurrentEpoch
 <2>3. QED BY <2>1, <2>2
<1>14. Agreed'
 <2> SUFFICES ASSUME NEW q \in Run, terminations[q] # Unstopped,
                     NEW k \in Handle, handles'[k].phase = "held", handles'[k].run = q,
                     handles'[k].generation = generation'[q]
              PROVE  epoch'[q][generation'[q]].termination = terminations[q]
   BY <1>2 DEF Agreed, CurrentEpoch, Held
 <2>1. CASE q = r
   BY <1>7, <1>9, <2>1 DEF e, Visible, OrElse
 <2>2. CASE q # r
   BY <1>1, <1>6, <1>9, <2>2, <1>h DEF Held, StopInv, Agreed, CurrentEpoch
 <2>3. QED BY <2>1, <2>2
<1>15. AllRecent'
 <2> SUFFICES ASSUME NEW q \in Run
              PROVE  /\ clearedAt'[q] <= made'
                     /\ Recent(q, terminations[q])'
                     /\ q \in activeHandles' => Recent(q, CurrentEpoch(q).termination)'
   BY DEF AllRecent
 <2>1. CASE q = r
   BY <1>2, <1>5, <1>7, <1>9, <2>1 DEF StopInv, AllRecent, Recent, CurrentEpoch, e
 <2>2. CASE q # r
   BY <1>1, <1>6, <1>9, <2>2, <1>2 DEF StopInv, AllRecent, Recent, CurrentEpoch
 <2>3. QED BY <2>1, <2>2
<1>17. QED BY <1>10, <1>11, <1>12, <1>13, <1>14, <1>15 DEF StopInv

-----------------------------------------------------------------------------
(* A stream that leaves takes one owner from its epoch; the stop of a current epoch it empties goes with it. *)
LEMMA Leaves ==
  ASSUME StopInv, NEW h \in Handle, Release(h)
  PROVE  LET r == handles[h].run
             g == handles[h].generation
             e == AfterRelease(epoch[r][g], g = generation[r])
         IN /\ r \in activeHandles /\ r \in Run /\ g \in Generation
            /\ h \in Held(r, g)
            /\ e \in Epochs
            /\ IsFiniteSet(Held(r, g) \ {h}) /\ e.owners = Cardinality(Held(r, g) \ {h})
            /\ e.termination = epoch[r][g].termination \/ (g = generation[r] /\ e = FreshEpoch /\ Held(r, g) = {h})
            /\ g = generation[r] /\ e.owners = 0 => e.termination = Unstopped
            /\ \A q, k : Held(q, k)' = IF q = r /\ k = g THEN Held(q, k) \ {h} ELSE Held(q, k)
            /\ handles'[h].phase = "released" /\ handles'[h].releasedTermination = Seen(h)
            /\ \A k \in Handle : k # h => handles'[k] = handles[k]
            /\ handles' \in [Handle -> [phase : {"new", "held", "released"}, run : Run \cup {NoRun},
                                        generation : Generation, releasedTermination : Winners]]
<1> DEFINE r == handles[h].run
           g == handles[h].generation
           e == AfterRelease(epoch[r][g], g = generation[r])
<1>1. /\ handles[h].phase = "held"
      /\ handles' = [handles EXCEPT ![h].phase = "released", ![h].releasedTermination = Seen(h)]
  BY DEF Release
<1>2. handles \in [Handle -> [phase : {"new", "held", "released"}, run : Run \cup {NoRun}, generation : Generation,
                      releasedTermination : Winners]]
  BY DEF StopInv, Typed
<1>3. r \in activeHandles /\ r \in Run /\ g \in Generation
  BY <1>1, <1>2 DEF StopInv, Begun, Typed
<1>4. h \in Held(r, g)  BY <1>1 DEF Held
<1>5. epoch[r][g] \in Epochs /\ IsFiniteSet(Held(r, g)) /\ epoch[r][g].owners = Cardinality(Held(r, g))
  BY <1>3 DEF StopInv, Typed, Counted
<1>6. /\ IsFiniteSet(Held(r, g) \ {h})
      /\ Cardinality(Held(r, g) \ {h}) = Cardinality(Held(r, g)) - 1
      /\ Cardinality(Held(r, g) \ {h}) \in Nat
  BY <1>4, <1>5, FS_RemoveElement, FS_CardinalityType
<1>7. Cardinality(Held(r, g)) = 1 => Held(r, g) = {h}
 <2> DEFINE X == Held(r, g)
 <2>1. IsFiniteSet(X \ {h}) /\ (Cardinality(X) = 1 => Cardinality(X \ {h}) = 0)  BY <1>6
 <2>2. h \in X  BY <1>4
 <2> HIDE DEF X
 <2>3. Cardinality(X) = 1 => X \ {h} = {}  BY <2>1, FS_EmptySet
 <2>4. Cardinality(X) = 1 => X = {h}  BY <2>2, <2>3
 <2>5. QED BY <2>4 DEF X
<1>8. /\ e \in Epochs /\ e.owners = epoch[r][g].owners - 1
      /\ e.termination = epoch[r][g].termination \/ (g = generation[r] /\ e = FreshEpoch /\ epoch[r][g].owners = 1)
      /\ g = generation[r] /\ e.owners = 0 => e.termination = Unstopped
 <2>1. epoch[r][g].owners - 1 \in Nat  BY <1>5, <1>6
 <2>2. CASE epoch[r][g].owners = 1 /\ g = generation[r] /\ epoch[r][g].termination # Unstopped
  <3>1. e = FreshEpoch /\ epoch[r][g].owners = 1 /\ g = generation[r]
    BY <2>2 DEF AfterRelease
  <3> HIDE DEF e
  <3>2. FreshEpoch \in Epochs /\ FreshEpoch.owners = 0 /\ FreshEpoch.termination = Unstopped
    BY DEF FreshEpoch, Epochs, Winners
  <3>3. QED BY <3>1, <3>2
 <2>3. CASE ~(epoch[r][g].owners = 1 /\ g = generation[r] /\ epoch[r][g].termination # Unstopped)
  <3>1. e = [epoch[r][g] EXCEPT !.owners = @ - 1] /\ (g = generation[r] /\ epoch[r][g].owners = 1 => epoch[r][g].termination = Unstopped)
    BY <2>3 DEF AfterRelease
  <3> HIDE DEF e
  <3>2. e \in Epochs  BY <3>1, <1>5, <2>1 DEF Epochs
  <3>3. e.owners = epoch[r][g].owners - 1 /\ e.termination = epoch[r][g].termination
    BY <3>1, <1>5 DEF Epochs
  <3>4. epoch[r][g].owners \in Nat  BY <1>5 DEF Epochs
  <3>5. QED BY <3>1, <3>2, <3>3, <3>4
 <2>4. QED BY <2>2, <2>3
<1>9. Seen(h) \in Winners  BY <1>1, <1>3, <1>5 DEF Seen, Epochs
<1>10. /\ handles'[h].phase = "released" /\ handles'[h].releasedTermination = Seen(h)
       /\ \A k \in Handle : k # h => handles'[k] = handles[k]
       /\ handles' \in [Handle -> [phase : {"new", "held", "released"}, run : Run \cup {NoRun},
                                   generation : Generation, releasedTermination : Winners]]
  BY <1>1, <1>2, <1>9
<1> HIDE DEF e
<1>11. ASSUME NEW q, NEW k
       PROVE  Held(q, k)' = IF q = r /\ k = g THEN Held(q, k) \ {h} ELSE Held(q, k)
  BY <1>10 DEF Held
<1>12. QED BY <1>3, <1>4, <1>5, <1>6, <1>7, <1>8, <1>10, <1>11 DEF e

(* The group goes exactly when its last stream leaves. *)
LEMMA ReleaseStep ==
  ASSUME StopInv, NEW h \in Handle, Release(h)
  PROVE  StopInv'
<1> DEFINE r == handles[h].run
           g == handles[h].generation
           e == AfterRelease(epoch[r][g], g = generation[r])
           last == e.owners = 0 /\ \A k \in Generation \ {g} : epoch[r][k].owners = 0
<1>1. /\ r \in activeHandles /\ r \in Run /\ g \in Generation /\ h \in Held(r, g) /\ e \in Epochs
      /\ IsFiniteSet(Held(r, g) \ {h}) /\ e.owners = Cardinality(Held(r, g) \ {h})
      /\ e.termination = epoch[r][g].termination \/ (g = generation[r] /\ e = FreshEpoch /\ Held(r, g) = {h})
      /\ g = generation[r] /\ e.owners = 0 => e.termination = Unstopped
      /\ \A q, k : Held(q, k)' = IF q = r /\ k = g THEN Held(q, k) \ {h} ELSE Held(q, k)
      /\ handles'[h].phase = "released"
      /\ \A k \in Handle : k # h => handles'[k] = handles[k]
      /\ handles' \in [Handle -> [phase : {"new", "held", "released"}, run : Run \cup {NoRun},
                                  generation : Generation, releasedTermination : Winners]]
  BY Leaves
<1>2. /\ terminations \in [Run -> Winners] /\ epoch \in [Run -> [Generation -> Epochs]]
      /\ generation \in [Run -> Generation] /\ activeHandles \subseteq Run
  BY DEF StopInv, Typed
<1>3. terminations' = terminations /\ clock' = clock /\ made' = made /\ clearedAt' = clearedAt
  BY DEF Release, registry
<1>4. 0 \in Generation /\ FreshEpoch \in Epochs
  BY RunControlAssumption DEF Generation, FreshEpoch, Epochs, Winners
<1>5. CASE last
 <2>1. /\ activeHandles' = activeHandles \ {r}
       /\ generation' = [generation EXCEPT ![r] = 0]
       /\ epoch' = [epoch EXCEPT ![r] = [k \in Generation |-> FreshEpoch]]
   BY <1>5 DEF Release
 <2> HIDE DEF e
 <2>2. \A q : q = r => \A k \in Generation : Held(q, k)' = {}
   BY <1>1, <1>5, FS_EmptySet, OwnersAreStreams DEF StopInv
 <2> HIDE DEF r, g
 <2>3. /\ \A q \in Run : q # r => generation'[q] = generation[q] /\ epoch'[q] = epoch[q]
       /\ generation'[r] = 0 /\ \A k \in Generation : epoch'[r][k] = FreshEpoch
   BY <1>1, <1>2, <2>1
 <2>4. \A q \in Run : q # r => \A k : Held(q, k)' = Held(q, k)
   BY <1>1
 <2>5. Typed'  BY <1>1, <1>2, <1>3, <1>4, <2>1 DEF StopInv, Typed
 <2>6. Begun'
   BY <1>1, <2>2, <1>2, <2>1, <2>3 DEF Begun, StopInv, Typed, Held
 <2>7. Counted'
  <3> SUFFICES ASSUME NEW q \in Run, NEW k \in Generation
               PROVE  IsFiniteSet(Held(q, k)') /\ epoch'[q][k].owners = Cardinality(Held(q, k)')
    BY DEF Counted
  <3>1. CASE q = r
    BY <2>2, <2>3, <3>1, FS_EmptySet DEF FreshEpoch
  <3>2. CASE q # r
    BY <2>3, <2>4, <3>2 DEF StopInv, Counted
  <3>3. QED BY <3>1, <3>2
 <2>8. Grouped'
   BY <1>2, <2>1, <2>3, <2>4 DEF Grouped, CurrentEpoch, StopInv
 <2>9. Agreed'
   BY <1>3, <1>1, <1>4, <2>2, <2>3 DEF Agreed, CurrentEpoch, Held, StopInv
 <2>10. AllRecent'
  <3> SUFFICES ASSUME NEW q \in Run
               PROVE  /\ clearedAt'[q] <= made'
                      /\ Recent(q, terminations[q])'
                      /\ q \in activeHandles' => Recent(q, CurrentEpoch(q).termination)'
    BY DEF AllRecent
  <3>1. clearedAt'[q] <= made' /\ Recent(q, terminations[q])'
    BY <1>3 DEF StopInv, AllRecent, Recent
  <3>2. ASSUME q \in activeHandles' PROVE Recent(q, CurrentEpoch(q).termination)'
    BY <2>1, <3>2, <1>3, <2>3 DEF StopInv, AllRecent, Recent, CurrentEpoch
  <3>3. QED BY <3>1, <3>2
 <2>11. QED BY <2>5, <2>6, <2>7, <2>8, <2>9, <2>10 DEF StopInv
<1>6. CASE ~last
 <2>1. /\ activeHandles' = activeHandles /\ generation' = generation
       /\ epoch' = [epoch EXCEPT ![r][g] = e]
   BY <1>6 DEF Release
 <2> HIDE DEF e
 <2>2. \A q : q = r => \E k \in Generation : Held(q, k)' # {}
  <3> SUFFICES ASSUME NEW q, q = r PROVE \E k \in Generation : Held(q, k)' # {}
    OBVIOUS
  <3>1. CASE e.owners # 0
    BY <1>1, <3>1, FS_EmptySet
  <3>2. CASE \E k \in Generation \ {g} : epoch[r][k].owners # 0
    BY <3>2, <1>1, OwnersAreStreams DEF StopInv
  <3>3. QED BY <1>6, <3>1, <3>2
 <2> HIDE DEF r, g
 <2>3. /\ epoch'[r][g] = e
       /\ \A q \in Run : \A k \in Generation : ~(q = r /\ k = g) => epoch'[q][k] = epoch[q][k]
   BY <1>1, <1>2, <2>1
 <2>4. epoch' \in [Run -> [Generation -> Epochs]]
   BY <1>1, <1>2, <2>1
 <2>5. Typed'  BY <1>1, <1>2, <1>3, <2>1, <2>4 DEF StopInv, Typed
 <2>6. Begun'  BY <1>1, <2>1 DEF StopInv, Begun
 <2>7. Counted'
   BY <1>1, <2>3 DEF Counted, StopInv
 <2>8. Grouped'
  <3> SUFFICES ASSUME NEW q \in activeHandles
               PROVE  /\ \E k \in Generation : Held(q, k)' # {}
                      /\ epoch'[q][generation[q]].owners = 0 => epoch'[q][generation[q]].termination = Unstopped
    BY <2>1 DEF Grouped, CurrentEpoch
  <3>1. q \in Run /\ generation[q] \in Generation
    BY <1>2
  <3>2. \E k \in Generation : Held(q, k)' # {}
    BY <2>2, <1>1 DEF StopInv, Grouped
  <3>3. CASE q = r /\ generation[q] = g
    BY <1>1, <2>3, <3>2, <3>3
  <3>4. CASE ~(q = r /\ generation[q] = g)
    BY <2>3, <3>1, <3>2, <3>4 DEF StopInv, Grouped, CurrentEpoch
  <3>5. QED BY <3>3, <3>4
 <2>9. Agreed'
   BY <1>3, <2>1, <1>1, <1>2, <2>3 DEF Agreed, CurrentEpoch, Held, StopInv
 <2>10. AllRecent'
   BY <1>3, <2>1, <1>1, <1>2, <2>3 DEF AllRecent, Recent, CurrentEpoch, StopInv, FreshEpoch
 <2>11. QED BY <2>5, <2>6, <2>7, <2>8, <2>9, <2>10 DEF StopInv
<1>7. QED BY <1>5, <1>6

-----------------------------------------------------------------------------
(* Streams that stay keep their stop when their epochs do. *)
LEMMA KeepsByEpoch ==
  ASSUME StopInv, NEW Stay,
         \A k \in Handle : k \in Stay \/ (Seen(k) # Unstopped => Seen(k)' = Seen(k)),
         \A k \in Handle : k \in Stay =>
           /\ handles'[k] = handles[k]
           /\ LET e == epoch[handles[k].run][handles[k].generation] IN
              handles[k].phase = "held" /\ e.termination # Unstopped =>
                epoch'[handles[k].run][handles[k].generation].termination = e.termination
  PROVE  Keeps
<1> SUFFICES ASSUME NEW k \in Handle, k \in Stay, Seen(k) # Unstopped PROVE Seen(k)' = Seen(k)
  BY DEF Keeps
<1>1. handles[k].phase \in {"new", "held", "released"} /\ handles'[k] = handles[k]
  BY DEF StopInv, Typed
<1>2. CASE handles[k].phase = "held"
  BY <1>1, <1>2 DEF Seen
<1>3. CASE handles[k].phase = "released"
  BY <1>1, <1>3 DEF Seen
<1>4. CASE handles[k].phase = "new"
  BY <1>1, <1>4 DEF Seen
<1>5. QED BY <1>1, <1>2, <1>3, <1>4

(* A stream that obeys its run's stop before and after a step names the same stop. *)
LEMMA StaysStopped ==
  ASSUME StopInv, StopInv', Keeps, NEW r \in Run, Visible(r) # Unstopped, NEW k \in Handle,
         handles[k].phase = "held", handles[k].run = r, handles[k].generation = generation[r],
         handles'[k].phase = "held", handles'[k].run = r, handles'[k].generation = generation'[r]
  PROVE  Visible(r)' = Visible(r)
<1>1. k \in Held(r, generation[r])  BY DEF Held
<1>2. Visible(r) = epoch[r][generation[r]].termination  BY <1>1, OneStop DEF CurrentEpoch
<1>3. Seen(k) = Visible(r)  BY <1>2 DEF Seen
<1>4. Seen(k)' = Seen(k) /\ Seen(k)' = epoch'[r][generation'[r]].termination
  BY <1>3 DEF Keeps, Seen
<1>5. r \in activeHandles'  BY DEF StopInv, Begun
<1>6. terminations'[r] # Unstopped => epoch'[r][generation'[r]].termination = terminations'[r]
  BY DEF Held, StopInv, Agreed, CurrentEpoch
<1>7. QED BY <1>3, <1>4, <1>5, <1>6 DEF Visible, OrElse, ActiveTermination, CurrentEpoch

(* So a run whose streams stay is stopped by the same winner. *)
LEMMA SameStreams ==
  ASSUME StopInv, StopInv', Keeps, NEW r \in Run, UNCHANGED handles, generation'[r] = generation[r],
         Visible(r) # Unstopped, Visible(r)' # Visible(r)
  PROVE  Held(r, generation[r])' = {}
<1> SUFFICES ASSUME NEW k \in Handle, handles[k].phase = "held", handles[k].run = r, handles[k].generation = generation[r]
             PROVE  FALSE
  BY DEF Held
<1>1. QED BY StaysStopped

LEMMA InstallLasts ==
  ASSUME StopInv, StopInv', NEW r \in Run, NEW w, UNCHANGED <<handles, generation>>,
         epoch' = epoch \/ epoch' = [epoch EXCEPT ![r][generation[r]].termination = OrElse(@, w)]
  PROVE  Keeps /\ Outlives
<1>1. \A k \in Handle : handles[k].phase = "held" => handles[k].run \in Run /\ handles[k].generation \in Generation
  BY DEF StopInv, Begun, Typed
<1>2. \A q \in Run : \A g \in Generation :
        epoch[q][g].termination # Unstopped => epoch'[q][g].termination = epoch[q][g].termination
 <2>1. epoch \in [Run -> [Generation -> Epochs]] /\ generation[r] \in Generation
   BY DEF StopInv, Typed
 <2>2. CASE epoch' = epoch
   BY <2>2
 <2>3. CASE epoch' = [epoch EXCEPT ![r][generation[r]].termination = OrElse(@, w)]
   BY <2>1, <2>3 DEF OrElse, Epochs
 <2>4. QED BY <2>2, <2>3
<1>3. Keeps  BY <1>1, <1>2, KeepsByEpoch
<1>4. Outlives  BY <1>3, SameStreams DEF Outlives
<1>5. QED BY <1>3, <1>4

LEMMA ClearLasts ==
  ASSUME StopInv, StopInv', NEW r \in Run, Clear(r), UNCHANGED <<activeHandles, handles, made>>
  PROVE  Keeps /\ Outlives
<1>1. /\ epoch \in [Run -> [Generation -> Epochs]] /\ generation \in [Run -> Generation]
      /\ clearedAt \in [Run -> Nat] /\ clearedAt' = [clearedAt EXCEPT ![r] = made] /\ made \in Nat
  BY DEF StopInv, Typed, Clear
<1>2. \A k \in Handle : handles[k].phase = "held" =>
        handles[k].run \in Run /\ handles[k].generation \in Generation /\ handles[k].generation <= generation[handles[k].run]
  BY DEF StopInv, Begun, Typed
<1>3. \A k \in Handle : handles[k].phase = "held" =>
        epoch'[handles[k].run][handles[k].generation] = epoch[handles[k].run][handles[k].generation]
 <2>1. CASE r \in activeHandles
  <3>1. epoch' = [epoch EXCEPT ![r][generation[r] + 1] = FreshEpoch]  BY <2>1 DEF Clear
  <3>2. \A k \in Handle : handles[k].phase = "held" =>
          ~(handles[k].run = r /\ handles[k].generation = generation[r] + 1)
    BY <1>1, <1>2 DEF Generation
  <3>3. QED BY <1>1, <1>2, <3>1, <3>2
 <2>2. CASE r \notin activeHandles
   BY <2>2 DEF Clear
 <2>3. QED BY <2>1, <2>2
<1>4. Keeps  BY <1>3, KeepsByEpoch
<1>5. Outlives
 <2> SUFFICES ASSUME NEW q \in Run, Visible(q) # Unstopped, clearedAt'[q] = clearedAt[q], Visible(q)' # Visible(q)
              PROVE  Held(q, generation[q])' = {}
   BY DEF Outlives
 <2>1. q # r
   BY VisibleRecent, WinnersAreStops, <1>1 DEF Recent
 <2>2. generation'[q] = generation[q]  BY <1>1, <2>1 DEF Clear
 <2>3. QED BY <1>4, <2>2, SameStreams
<1>6. QED BY <1>4, <1>5

LEMMA AcquireLasts ==
  ASSUME StopInv, StopInv', NEW h \in Handle, NEW r \in Run, AcquireTerminationHandle(h, r)
  PROVE  Keeps /\ Outlives
<1> DEFINE g0 == Joined(r)
           n  == Cardinality(Held(r, g0)) + 1
           e  == [termination |-> Visible(r), owners |-> n]
<1>1. /\ epoch \in [Run -> [Generation -> Epochs]] /\ generation \in [Run -> Generation]
      /\ handles \in [Handle -> [phase : {"new", "held", "released"}, run : Run \cup {NoRun}, generation : Generation,
                                 releasedTermination : Winners]]
  BY DEF StopInv, Typed
<1>2. /\ g0 \in Generation /\ generation' = [generation EXCEPT ![r] = g0]
      /\ activeHandles' = activeHandles \cup {r}
      /\ terminations' = terminations
      /\ epoch' = [epoch EXCEPT ![r][g0] = e]
      /\ handles[h].phase = "new"
      /\ handles' = [handles EXCEPT ![h] = [handles[h] EXCEPT !.phase = "held", !.run = r, !.generation = g0]]
  BY Joins DEF registry
<1>3. \A k \in Handle : handles[k].phase = "held" =>
        /\ handles[k].run \in Run /\ handles[k].generation \in Generation /\ handles[k].run \in activeHandles
  BY DEF StopInv, Begun, Typed
<1>4. \A k \in Handle : k # h => handles'[k] = handles[k]
  BY <1>1, <1>2
<1>5. \A k \in Handle : handles[k].phase = "held" =>
        epoch'[handles[k].run][handles[k].generation].termination = epoch[handles[k].run][handles[k].generation].termination
 <2> SUFFICES ASSUME NEW k \in Handle, handles[k].phase = "held"
              PROVE  epoch'[handles[k].run][handles[k].generation].termination =
                       epoch[handles[k].run][handles[k].generation].termination
   OBVIOUS
 <2>1. CASE handles[k].run = r /\ handles[k].generation = g0
   BY <1>3, <2>1, OneStop, <1>1, <1>2 DEF Joined, Held, CurrentEpoch
 <2>2. CASE ~(handles[k].run = r /\ handles[k].generation = g0)
   BY <1>1, <1>2, <1>3, <2>2
 <2>3. QED BY <2>1, <2>2
<1>6. Keeps
 <2>1. Seen(h) = Unstopped  BY <1>2 DEF Seen
 <2>2. \A k \in Handle : k \in Handle \ {h} \/ (Seen(k) # Unstopped => Seen(k)' = Seen(k))
   BY <2>1
 <2>3. \A k \in Handle : k \in Handle \ {h} =>
         /\ handles'[k] = handles[k]
         /\ handles[k].phase = "held" =>
              epoch'[handles[k].run][handles[k].generation].termination =
                epoch[handles[k].run][handles[k].generation].termination
   BY <1>4, <1>5
 <2>4. QED BY <2>2, <2>3, KeepsByEpoch
<1>7. Outlives
 <2> SUFFICES ASSUME NEW q \in Run, Visible(q) # Unstopped, Visible(q)' # Visible(q),
                     NEW k \in Handle, handles'[k].phase = "held", handles'[k].run = q,
                     handles'[k].generation = generation'[q]
              PROVE  FALSE
   BY DEF Outlives, Held
 <2>1. q # r
   BY <1>1, <1>2 DEF Visible, OrElse, ActiveTermination, CurrentEpoch
 <2>2. k # h  BY <1>1, <1>2, <2>1
 <2>3. handles[k].phase = "held" /\ handles[k].run = q /\ handles[k].generation = generation[q]
   BY <1>1, <1>2, <1>4, <2>1, <2>2
 <2>4. QED BY <1>6, <2>3, StaysStopped
<1>8. QED BY <1>6, <1>7

LEMMA ReleaseLasts ==
  ASSUME StopInv, StopInv', NEW h \in Handle, Release(h)
  PROVE  Keeps /\ Outlives
<1> DEFINE r == handles[h].run
           g == handles[h].generation
           e == AfterRelease(epoch[r][g], g = generation[r])
           last == e.owners = 0 /\ \A k \in Generation \ {g} : epoch[r][k].owners = 0
<1>1. /\ r \in activeHandles /\ r \in Run /\ g \in Generation /\ h \in Held(r, g)
      /\ IsFiniteSet(Held(r, g) \ {h}) /\ e.owners = Cardinality(Held(r, g) \ {h})
      /\ e.termination = epoch[r][g].termination \/ (g = generation[r] /\ e = FreshEpoch /\ Held(r, g) = {h})
      /\ handles'[h].phase = "released" /\ handles'[h].releasedTermination = Seen(h)
      /\ \A k \in Handle : k # h => handles'[k] = handles[k]
  BY Leaves
<1>2. /\ epoch \in [Run -> [Generation -> Epochs]] /\ generation \in [Run -> Generation]
  BY DEF StopInv, Typed
<1>3. \A k \in Handle : handles[k].phase = "held" =>
        /\ handles[k].run \in Run /\ handles[k].generation \in Generation
        /\ k \in Held(handles[k].run, handles[k].generation)
  BY DEF StopInv, Begun, Typed, Held
<1>4. \A q \in Run : \A k \in Generation : q # r => generation'[q] = generation[q] /\ epoch'[q][k] = epoch[q][k]
  BY <1>1, <1>2 DEF Release
<1>5. ASSUME NEW k \in Handle, k # h, handles[k].phase = "held", handles[k].run = r
      PROVE  generation' = generation /\ epoch'[r][handles[k].generation].termination = epoch[r][handles[k].generation].termination
 <2>1. ~last
  <3>1. CASE handles[k].generation = g
    BY <1>3, <1>5, <3>1, <1>1, FS_EmptySet
  <3>2. CASE handles[k].generation # g
    BY <1>1, <1>3, <1>5, OwnersAreStreams, <3>2 DEF StopInv
  <3>3. QED BY <3>1, <3>2
 <2>2. generation' = generation /\ epoch' = [epoch EXCEPT ![r][g] = e]
   BY <2>1 DEF Release
 <2>3. handles[k].generation = g => k \in Held(r, g)  BY <1>3, <1>5
 <2> HIDE DEF e, r, g
 <2>4. QED BY <1>1, <1>2, <1>3, <1>5, <2>2, <2>3
<1>6. Keeps
 <2>1. handles[h].phase = "held" /\ Seen(h)' = Seen(h)
   BY <1>1 DEF Seen, Held
 <2>2. \A k \in Handle : k \in Handle \ {h} \/ (Seen(k) # Unstopped => Seen(k)' = Seen(k))
   BY <2>1
 <2>3. ASSUME NEW k \in Handle, k # h, handles[k].phase = "held"
       PROVE  epoch'[handles[k].run][handles[k].generation].termination =
                epoch[handles[k].run][handles[k].generation].termination
   BY <1>5, <2>3, <1>3, <1>4
 <2>4. \A k \in Handle : k \in Handle \ {h} =>
         /\ handles'[k] = handles[k]
         /\ handles[k].phase = "held" =>
              epoch'[handles[k].run][handles[k].generation].termination =
                epoch[handles[k].run][handles[k].generation].termination
   BY <1>1, <2>3
 <2> HIDE DEF e, r, g
 <2>5. QED BY <2>2, <2>4, KeepsByEpoch
<1>7. Outlives
 <2> SUFFICES ASSUME NEW q \in Run, Visible(q) # Unstopped, Visible(q)' # Visible(q),
                     NEW k \in Handle, handles'[k].phase = "held", handles'[k].run = q,
                     handles'[k].generation = generation'[q]
              PROVE  FALSE
   BY DEF Outlives, Held
 <2>1. k # h /\ handles'[k] = handles[k]
   BY <1>1
 <2>2. generation'[q] = generation[q]
   BY <1>5, <2>1, <1>1, <1>4
 <2>3. QED BY <1>6, <2>1, <2>2, StaysStopped
<1>8. QED BY <1>6, <1>7

-----------------------------------------------------------------------------
(* Requests. *)
LEMMA AskedStep == Asked /\ [Next]_vars => Asked'
<1> SUFFICES ASSUME Asked, [Next]_vars PROVE Asked'
  OBVIOUS
<1>1. \/ requests' = requests
      \/ \E q \in Request, r \in Run :
           requests' = [requests EXCEPT ![q] = [phase |-> "waiting", run |-> r, dispatchedAt |-> clock]]
      \/ \E q \in Request : requests[q].phase = "waiting" /\ requests' = [requests EXCEPT ![q].phase = "answered"]
  BY DEF Next, vars, LocalStop, ReadRunTermination, ClearRunTermination, ClearTerminationIf,
         AcquireTerminationHandle, Dispatch, Release, AllowArrives, DirectiveArrives, Tick
<1>2. CASE requests' = requests
  BY <1>2 DEF Asked
<1>3. CASE \E q \in Request, r \in Run :
             requests' = [requests EXCEPT ![q] = [phase |-> "waiting", run |-> r, dispatchedAt |-> clock]]
  BY <1>3 DEF Asked
<1>4. CASE \E q \in Request : requests[q].phase = "waiting" /\ requests' = [requests EXCEPT ![q].phase = "answered"]
  BY <1>4 DEF Asked
<1>5. QED BY <1>1, <1>2, <1>3, <1>4

(* Every step keeps the invariant, what open streams were told, and the stop of a run they obey. *)
LEMMA StopStep ==
  ASSUME StopInv, Asked, [Next]_vars
  PROVE  StopInv' /\ Keeps /\ Outlives
<1> USE DEF Outlives
<1>1. ASSUME NEW r \in Run, NEW s \in Source, MarkTerminated(r, s)
      PROVE  StopInv' /\ Keeps /\ Outlives
  BY <1>1, MarkStep, InstallLasts DEF MarkTerminated, Latch
<1>2. ASSUME NEW r \in Run, NEW t, Visible(r) # Unstopped, InstallExact(r, Visible(r), t),
             UNCHANGED <<groups, handles, clock, made, clearedAt>>
      PROVE  StopInv' /\ Keeps /\ Outlives
  BY <1>2, ReinstallStep, InstallLasts DEF groups
<1>3. ASSUME NEW r \in Run, Clear(r), UNCHANGED <<activeHandles, handles, clock, made>>
      PROVE  StopInv' /\ Keeps /\ Outlives
  BY <1>3, ClearStep, ClearLasts
<1>4. ASSUME UNCHANGED <<registry, groups, handles, made, clearedAt>>, clock' \in Nat
      PROVE  StopInv' /\ Keeps /\ Outlives
  BY <1>4, HeldSame DEF StopInv, Typed, Begun, Counted, Grouped, Agreed, AllRecent, Recent, CurrentEpoch, registry, groups, Keeps, Outlives, Seen, Visible, OrElse, ActiveTermination
<1>5. clock \in Nat  BY DEF StopInv, Typed
<1> USE <1>5
<1>6. CASE UNCHANGED vars
  BY <1>4, <1>6 DEF vars
<1>7. ASSUME NEW r \in Run, LocalStop(r) PROVE StopInv' /\ Keeps /\ Outlives
  BY <1>1, <1>7 DEF LocalStop, Source
<1>8. ASSUME NEW r \in Run, ReadRunTermination(r) PROVE StopInv' /\ Keeps /\ Outlives
  BY <1>8, <1>2 DEF ReadRunTermination, Visible, OrElse
<1>9. ASSUME NEW r \in Run, ClearRunTermination(r) PROVE StopInv' /\ Keeps /\ Outlives
  BY <1>3, <1>9 DEF ClearRunTermination
<1>10. ASSUME NEW r \in Run, NEW s \in Source, ClearTerminationIf(r, s) PROVE StopInv' /\ Keeps /\ Outlives
  BY <1>3, <1>10 DEF ClearTerminationIf
<1>11. ASSUME NEW r \in Run, NEW h \in Handle, AcquireTerminationHandle(h, r) PROVE StopInv' /\ Keeps /\ Outlives
  BY <1>11, AcquireStep, AcquireLasts
<1>12. ASSUME NEW r \in Run, NEW q \in Request, Dispatch(q, r) PROVE StopInv' /\ Keeps /\ Outlives
  BY <1>4, <1>12 DEF Dispatch
<1>13. ASSUME NEW h \in Handle, Release(h) PROVE StopInv' /\ Keeps /\ Outlives
  BY <1>13, ReleaseStep, ReleaseLasts
<1>14. ASSUME NEW q \in Request, AllowArrives(q) PROVE StopInv' /\ Keeps /\ Outlives
  BY <1>14, <1>4, <1>2, <1>3 DEF AllowArrives, Asked, ClearServerTerminationBeforeRequest
<1>15. ASSUME NEW q \in Request, DirectiveArrives(q) PROVE StopInv' /\ Keeps /\ Outlives
  BY <1>1, <1>15 DEF DirectiveArrives, Asked, Source
<1>16. CASE Tick
  BY <1>4, <1>16 DEF Tick
<1>17. QED BY <1>6, <1>7, <1>8, <1>9, <1>10, <1>11, <1>12, <1>13, <1>14, <1>15, <1>16 DEF Next

(* The invariant of the registry and its groups holds in every reachable state. *)
THEOREM RegistryInvariant == Spec => [](StopInv /\ Asked)
<1>1. Init => StopInv /\ Asked
  BY StopInit
<1>2. StopInv /\ Asked /\ [Next]_vars => StopInv' /\ Asked'
  BY StopStep, AskedStep
<1>3. QED BY <1>1, <1>2, PTL DEF Spec

(* A stop in the registry has reached every open stream of the current
   generation as the same winner, it is newer than the run's last clear, and
   the owner counts that let epochs and groups go equal the open streams. *)
THEOREM StreamsAreStopped == Spec => []StopReachesStreams
<1>1. StopInv => StopReachesStreams
 <2> SUFFICES ASSUME StopInv PROVE StopReachesStreams
   OBVIOUS
 <2>1. ASSUME NEW r \in Run, NEW h \in Held(r, generation[r]), terminations[r] # Unstopped
       PROVE  Seen(h) = terminations[r]
   BY <2>1 DEF Held, Seen, CurrentEpoch, StopInv, Agreed
 <2>2. ASSUME NEW r \in Run, Visible(r) # Unstopped
       PROVE  Visible(r).id > clearedAt[r]
   BY <2>2, VisibleRecent, WinnersAreStops DEF Recent, StopInv, Typed
 <2>3. ASSUME NEW r \in Run
       PROVE  r \in activeHandles <=> (\E g \in Generation : Held(r, g) # {})
   BY NobodyThere DEF StopInv, Grouped
 <2>4. QED BY <2>1, <2>2, <2>3 DEF StopReachesStreams, StopInv, Counted, Grouped
<1>2. QED BY <1>1, RegistryInvariant, PTL

(* The reason a stream was given never changes, and a run whose streams obey
   a stop stays stopped until it is cleared, whatever the registry evicts. *)
THEOREM StopsStay == Spec => StopsLast
<1>1. StopInv /\ Asked /\ [Next]_vars => [\A h \in Handle : Seen(h) # Unstopped => Seen(h)' = Seen(h)]_vars
  BY StopStep DEF Keeps
<1>2. StopInv /\ Asked /\ [Next]_vars =>
        [\A r \in Run :
           (Visible(r) # Unstopped /\ clearedAt'[r] = clearedAt[r] /\ Visible(r)' # Visible(r)) =>
             Held(r, generation[r])' = {}]_vars
  BY StopStep DEF Outlives
<1>3. Spec => FirstWinner  BY <1>1, RegistryInvariant, PTL DEF Spec, FirstWinner
<1>4. Spec => StopOutlivesEviction  BY <1>2, RegistryInvariant, PTL DEF Spec, StopOutlivesEviction
<1>5. QED BY <1>3, <1>4, PTL DEF StopsLast

-----------------------------------------------------------------------------
RunFields == {"owners", "observed", "managed", "pending", "state", "lease", "reserved", "renewal",
              "unmanaged", "terminated"}

(* The records that the enforcer is. *)
Shape(e) ==
  /\ DOMAIN e = {"run", "books", "wire", "queue", "leases"}
  /\ DOMAIN e.run = Retiring /\ \A r \in Retiring : DOMAIN e.run[r] = RunFields
  /\ DOMAIN e.books = {"orphaned", "retiring", "backlog", "closed", "authority"}
  /\ DOMAIN e.wire = {"grants", "renewals"}
  /\ DOMAIN e.leases = {"issued", "ended", "returned", "left"}

(* What a method leaves alone of the books, and of the leases. *)
BooksBut(e, f, S)  == \A a \in {"orphaned", "retiring", "backlog", "closed", "authority"} \ S : f.books[a] = e.books[a]
LeasesBut(e, f, S) == \A a \in {"issued", "ended", "returned", "left"} \ S : f.leases[a] = e.leases[a]

(* A method that changes one run, and of it the fields S. *)
RunBut(e, f, r, S) ==
  /\ \A s \in Retiring \ {r} : f.run[s] = e.run[s]
  /\ \A a \in RunFields \ S : f.run[r][a] = e.run[r][a]

LEMMA SubmittedIs ==
  ASSUME NEW e, Shape(e), NEW kind, NEW r, NEW lease, NEW f, f = Retirements!Submitted(e, kind, r, lease)
  PROVE  /\ Shape(f) /\ f.run = e.run /\ f.books = e.books /\ f.wire = e.wire
         /\ f.queue = Append(e.queue, [kind |-> kind, run |-> r, lease |-> lease])
         /\ f.leases.returned = e.leases.returned \union {lease} /\ LeasesBut(e, f, {"returned"})
BY DEF Retirements!Submitted, Shape, LeasesBut

LEMMA DropIs ==
  ASSUME NEW e, Shape(e), NEW r \in Retiring, NEW f, f = Retirements!DropLease(e, r)
  PROVE  /\ Shape(f) /\ f.books = e.books /\ f.wire = e.wire /\ f.queue = e.queue /\ f.leases = e.leases
         /\ RunBut(e, f, r, {"lease", "renewal"}) /\ f.run[r].lease = 0 /\ ~f.run[r].renewal
BY DEF Retirements!DropLease, Shape, RunFields, RunBut

LEMMA EndedIs ==
  ASSUME NEW e, Shape(e), NEW r \in Retiring, NEW f, f = Retirements!Ended(e, r)
  PROVE  /\ Shape(f) /\ f.books = e.books /\ f.wire = e.wire /\ f.queue = e.queue
         /\ RunBut(e, f, r, {"lease", "renewal"}) /\ f.run[r].lease = 0 /\ ~f.run[r].renewal
         /\ f.leases.ended = e.leases.ended \union ({e.run[r].lease} \ {0}) /\ LeasesBut(e, f, {"ended"})
<1> DEFINE d == Retirements!DropLease(e, r)
<1>1. f = [d EXCEPT !.leases.ended = d.leases.ended \union ({e.run[r].lease} \ {0})]
  BY Zenon DEF Retirements!Ended
<1>2. /\ Shape(d) /\ d.books = e.books /\ d.wire = e.wire /\ d.queue = e.queue /\ d.leases = e.leases
      /\ RunBut(e, d, r, {"lease", "renewal"}) /\ d.run[r].lease = 0 /\ ~d.run[r].renewal
  BY DropIs
<1> HIDE DEF d
<1>3. Shape(f) /\ f.run = d.run /\ f.books = d.books /\ f.wire = d.wire /\ f.queue = d.queue
      /\ f.leases.ended = d.leases.ended \union ({e.run[r].lease} \ {0}) /\ LeasesBut(d, f, {"ended"})
  BY <1>1, <1>2 DEF Shape, LeasesBut
<1>4. QED BY <1>2, <1>3 DEF RunBut, LeasesBut

LEMMA LateIs ==
  ASSUME NEW e, Shape(e), NEW f, f = Retirements!SurrenderLate(e)
  PROVE  /\ Shape(f) /\ f.run = e.run /\ f.books = e.books /\ f.wire = e.wire
         /\ f.queue = Append(e.queue, [kind |-> "late", run |-> NoRun, lease |-> e.leases.issued + 1])
         /\ f.leases.issued = e.leases.issued + 1
         /\ f.leases.returned = e.leases.returned \union {e.leases.issued + 1}
         /\ LeasesBut(e, f, {"returned", "issued"})
<1> DEFINE d == Retirements!Submitted(e, "late", NoRun, e.leases.issued + 1)
<1>1. f = [d EXCEPT !.leases.issued = d.leases.issued + 1]  BY Zenon DEF Retirements!SurrenderLate
<1>2. /\ Shape(d) /\ d.run = e.run /\ d.books = e.books /\ d.wire = e.wire
      /\ d.queue = Append(e.queue, [kind |-> "late", run |-> NoRun, lease |-> e.leases.issued + 1])
      /\ d.leases.returned = e.leases.returned \union {e.leases.issued + 1} /\ LeasesBut(e, d, {"returned"})
  BY SubmittedIs
<1> HIDE DEF d
<1>3. Shape(f) /\ f.run = d.run /\ f.books = d.books /\ f.wire = d.wire /\ f.queue = d.queue
      /\ f.leases.issued = d.leases.issued + 1 /\ LeasesBut(d, f, {"issued"})
  BY <1>1, <1>2 DEF Shape, LeasesBut
<1>4. QED BY <1>2, <1>3 DEF LeasesBut

LEMMA LeftIs ==
  ASSUME NEW e, Shape(e), NEW f, f = Retirements!LeftToExpire(e)
  PROVE  /\ Shape(f) /\ f.run = e.run /\ f.books = e.books /\ f.wire = e.wire /\ f.queue = e.queue
         /\ f.leases.issued = e.leases.issued + 1
         /\ f.leases.left = e.leases.left \union {e.leases.issued + 1}
         /\ LeasesBut(e, f, {"left", "issued"})
BY DEF Retirements!LeftToExpire, Shape, LeasesBut

LEMMA InstalledIs ==
  ASSUME NEW e, Shape(e), NEW r \in Retiring, NEW f, f = Retirements!Installed(e, r)
  PROVE  /\ Shape(f) /\ f.books = e.books /\ f.wire = e.wire /\ f.queue = e.queue
         /\ RunBut(e, f, r, {"lease", "renewal", "state"})
         /\ f.run[r].lease = e.leases.issued + 1 /\ ~f.run[r].renewal /\ f.run[r].state
         /\ f.leases.issued = e.leases.issued + 1
         /\ f.leases.ended = e.leases.ended \union ({e.run[r].lease} \ {0}) /\ LeasesBut(e, f, {"ended", "issued"})
<1> DEFINE d == Retirements!Ended(e, r)
<1>1. f = [d EXCEPT !.run[r] = [d.run[r] EXCEPT !.lease = e.leases.issued + 1, !.state = TRUE],
                    !.leases.issued = e.leases.issued + 1]
  BY Zenon DEF Retirements!Installed
<1>2. /\ Shape(d) /\ d.books = e.books /\ d.wire = e.wire /\ d.queue = e.queue
      /\ RunBut(e, d, r, {"lease", "renewal"}) /\ d.run[r].lease = 0 /\ ~d.run[r].renewal
      /\ d.leases.ended = e.leases.ended \union ({e.run[r].lease} \ {0}) /\ LeasesBut(e, d, {"ended"})
  BY EndedIs
<1> HIDE DEF d
<1>a. /\ DOMAIN f = DOMAIN d /\ f.books = d.books /\ f.wire = d.wire /\ f.queue = d.queue
      /\ f.run = [d.run EXCEPT ![r] = [d.run[r] EXCEPT !.lease = e.leases.issued + 1, !.state = TRUE]]
      /\ f.leases = [d.leases EXCEPT !.issued = e.leases.issued + 1]
  BY <1>1, <1>2 DEF Shape
<1>b. f.leases.issued = e.leases.issued + 1 /\ LeasesBut(d, f, {"issued"}) /\ DOMAIN f.leases = DOMAIN d.leases
  BY <1>a, <1>2 DEF Shape, LeasesBut
<1>c. /\ DOMAIN f.run = Retiring /\ \A s \in Retiring : DOMAIN f.run[s] = DOMAIN d.run[s]
      /\ RunBut(d, f, r, {"lease", "state"}) /\ f.run[r].lease = e.leases.issued + 1 /\ f.run[r].state
 <2>1. /\ DOMAIN f.run = Retiring /\ f.run[r] = [d.run[r] EXCEPT !.lease = e.leases.issued + 1, !.state = TRUE]
       /\ \A s \in Retiring \ {r} : f.run[s] = d.run[s]
   BY <1>a, <1>2 DEF Shape
 <2>2. DOMAIN d.run[r] = RunFields  BY <1>2 DEF Shape
 <2>3. DOMAIN f.run[r] = RunFields  BY <2>1, <2>2
 <2>4. f.run[r].lease = e.leases.issued + 1 /\ f.run[r].state
   BY <2>1, <2>2 DEF RunFields
 <2>5. \A a \in RunFields \ {"lease", "state"} : f.run[r][a] = d.run[r][a]
   BY <2>1, <2>2 DEF RunFields
 <2>6. QED BY <1>2, <2>1, <2>3, <2>4, <2>5 DEF RunBut, Shape
<1>3. Shape(f) /\ f.books = d.books /\ f.wire = d.wire /\ f.queue = d.queue
      /\ f.leases.issued = e.leases.issued + 1 /\ LeasesBut(d, f, {"issued"})
      /\ RunBut(d, f, r, {"lease", "state"}) /\ f.run[r].lease = e.leases.issued + 1 /\ f.run[r].state
  BY <1>2, <1>a, <1>b, <1>c DEF Shape
<1>4. ~f.run[r].renewal  BY <1>2, <1>3 DEF RunBut, RunFields
<1>5. RunBut(e, f, r, {"lease", "renewal", "state"}) /\ LeasesBut(e, f, {"ended", "issued"})
  BY <1>2, <1>3 DEF RunBut, LeasesBut
<1>6. f.leases.ended = d.leases.ended  BY <1>3 DEF LeasesBut
<1>7. QED BY <1>2, <1>3, <1>4, <1>5, <1>6

LEMMA DiscardedIs ==
  ASSUME NEW e, Shape(e), NEW r \in Retiring, NEW f, f = Retirements!Discarded(e, r)
  PROVE  /\ Shape(f) /\ f.wire = e.wire /\ f.queue = e.queue /\ f.leases = e.leases
         /\ f.books.orphaned = e.books.orphaned \ {r}
         /\ f.books.backlog = Retirements!Without(e.books.backlog, r)
         /\ BooksBut(e, f, {"orphaned", "backlog"})
         /\ RunBut(e, f, r, {"state", "lease", "reserved", "unmanaged"})
         /\ ~f.run[r].state /\ f.run[r].lease = 0 /\ f.run[r].reserved = 0 /\ ~f.run[r].unmanaged
BY DEF Retirements!Discarded, Shape, RunFields, RunBut, BooksBut

-----------------------------------------------------------------------------
Items == [kind : {"retire", "held", "late", "refusal"}, run : Retiring \cup {NoRun}, lease : Nat \ {0}]

Distinct(q) == \A i, j \in DOMAIN q : q[i] = q[j] => i = j

Numbers(e) ==
  /\ Shape(e)
  /\ e.leases.issued \in Nat
  /\ \A r \in Retiring : e.run[r].lease \in 0 .. e.leases.issued /\ e.run[r].reserved \in Nat /\ e.run[r].owners \in Nat
  /\ e.queue \in Seq(Items)
  /\ e.books.backlog \in Seq(Retiring) /\ Distinct(e.books.backlog)
  /\ \A g \in e.wire.grants : g.run \in Retiring
  /\ \A o \in e.wire.renewals : o.run \in Retiring /\ o.lease \in 1 .. e.leases.issued

(* Who holds what: no two runs the same lease, and none without state. *)
HeldOnce(e) ==
  /\ \A r, s \in Retiring : e.run[r].lease = e.run[s].lease /\ e.run[r].lease # 0 => r = s
  /\ \A r \in Retiring : e.run[r].lease # 0 => e.run[r].state
  /\ \A l \in 1 .. e.leases.issued :
       (\E r \in Retiring : e.run[r].lease = l) \/ l \in e.leases.ended \cup e.leases.returned \cup e.leases.left

(* A renewal under way of the lease a run holds has the run's claim, and is its only one. *)
Renewing(e) ==
  /\ \A o \in e.wire.renewals :
       e.run[o.run].lease = o.lease => e.run[o.run].renewal /\ o.authority = e.books.authority
  /\ \A o, p \in e.wire.renewals : o.run = p.run /\ o.lease = p.lease => o = p

(* A claim has its renewal, but for runs whose renewal is ending. *)
Claimed(e, T) ==
  \A r \in Retiring \ T : e.run[r].renewal => \E o \in e.wire.renewals : o.run = r /\ o.lease = e.run[r].lease

(* Submissions, but for that at k, which is ending.  A lease on its way back is held by the run  *)
(* whose retirement it is, or by none.                                                            *)
WayOf(e, item) ==
  /\ item.lease \in 1 .. e.leases.issued /\ item.lease \in e.leases.returned
  /\ item.kind = "retire" =>
       item.run \in Retiring /\ item.run \in e.books.retiring /\ e.run[item.run].lease \in {0, item.lease}
  /\ \A r \in Retiring : e.run[r].lease = item.lease => item.kind = "retire" /\ item.run = r

Apart(x, y) ==
  x.lease # y.lease /\ ~(x.kind = "retire" /\ y.kind = "retire" /\ x.run = y.run)

Ways(e, k) ==
  /\ k \in 0 .. Len(e.queue)
  /\ \A m \in DOMAIN e.queue \ {k} : WayOf(e, e.queue[m])
  /\ \A m, n \in DOMAIN e.queue \ {k} : m # n => Apart(e.queue[m], e.queue[n])
  /\ \A r \in Retiring \cap e.books.retiring :
       \E m \in DOMAIN e.queue \ {k} : e.queue[m].kind = "retire" /\ e.queue[m].run = r

(* Nothing is asked for a run that retires, and its lease was handed to the dispatcher. *)
NothingAsked(e) ==
  \A r \in e.books.retiring \cap Retiring :
    /\ ~e.run[r].renewal /\ ~\E g \in e.wire.grants : g.run = r
    /\ e.run[r].lease \in {0} \cup e.leases.returned

(* A managed run has an owner, and a grant under way its check; a closed enforcer has nothing. *)
Checks(e) ==
  /\ ~e.books.closed =>
       /\ \A r \in Retiring : e.run[r].managed => e.run[r].owners > 0
       /\ \A g \in e.wire.grants :
            e.run[g.run].state /\ ((g.managed /\ e.run[g.run].managed) \/ (~g.managed /\ e.run[g.run].pending))
  /\ e.books.closed =>
       e.books.backlog = <<>> /\ e.books.orphaned = {} /\ \A r \in Retiring : ~e.run[r].state /\ ~e.run[r].renewal

Sane(e, k, T) ==
  Numbers(e) /\ HeldOnce(e) /\ Renewing(e) /\ Claimed(e, T) /\ Ways(e, k) /\ NothingAsked(e) /\ Checks(e)

(* Nobody would look at this run again. *)
Lost(e, r) == Retirements!Idle(e, r) /\ ~\E o \in e.wire.renewals : o.run = r

Found(e, S) == \A r \in Retiring \ S : Lost(e, r) => r \in Retirements!Range(e.books.backlog)

Known(e, S) ==
  ~e.books.closed =>
    \A r \in Retiring \ S : e.run[r].state /\ e.run[r].owners = 0 /\ ~e.run[r].unmanaged /\ ~e.run[r].pending
                          => r \in e.books.orphaned

(* A step that leaves owners and checks alone. *)
LEMMA ChecksStay ==
  ASSUME NEW e, Numbers(e), Checks(e), NEW f, f.wire.grants = e.wire.grants,
         f.books.closed = e.books.closed, f.books.orphaned = e.books.orphaned, f.books.backlog = e.books.backlog,
         \A s \in Retiring :
           /\ f.run[s].managed = e.run[s].managed /\ f.run[s].owners = e.run[s].owners
           /\ f.run[s].pending = e.run[s].pending /\ (e.run[s].state => f.run[s].state)
           /\ e.books.closed => (f.run[s].state => e.run[s].state) /\ (f.run[s].renewal => e.run[s].renewal)
  PROVE  Checks(f)
<1>1. CASE e.books.closed
  BY <1>1 DEF Checks
<1>2. CASE ~e.books.closed
  BY <1>2 DEF Checks, Numbers
<1>3. QED BY <1>1, <1>2

(* What a step does to a run and its lease, with no submission. *)
LEMMA RunEdit ==
  ASSUME NEW e, NEW k, NEW T, Sane(e, k, T), NEW f, Shape(f), NEW r \in Retiring,
         \A s \in Retiring \ {r} : f.run[s] = e.run[s],
         f.wire = e.wire, f.queue = e.queue,
         f.books.retiring = e.books.retiring, f.books.authority = e.books.authority,
         f.books.backlog \in Seq(Retiring), Distinct(f.books.backlog),
         f.leases.issued = e.leases.issued, e.leases.ended \subseteq f.leases.ended,
         f.leases.returned = e.leases.returned, f.leases.left = e.leases.left,
         f.run[r].reserved \in Nat, f.run[r].owners \in Nat,
         \/ f.run[r].lease = e.run[r].lease
         \/ f.run[r].lease = 0 /\ e.run[r].lease \in {0} \cup f.leases.ended \cup f.leases.returned,
         f.run[r].renewal => e.run[r].renewal /\ f.run[r].lease = e.run[r].lease,
         \A o \in e.wire.renewals : o.run = r /\ o.lease = f.run[r].lease => f.run[r].renewal,
         f.run[r].lease # 0 => f.run[r].state,
         Checks(f)
  PROVE  Sane(f, k, T)
<1>0. /\ Numbers(e) /\ HeldOnce(e) /\ Renewing(e) /\ Claimed(e, T) /\ Ways(e, k) /\ NothingAsked(e)
  BY DEF Sane
<1>1. Numbers(f)  BY <1>0 DEF Numbers
<1>2. \A s \in Retiring : f.run[s].lease \in {0, e.run[s].lease}
  BY <1>0
<1>3. HeldOnce(f)
 <2>1. \A s, t \in Retiring : f.run[s].lease = f.run[t].lease /\ f.run[s].lease # 0 => s = t
   BY <1>0, <1>2 DEF HeldOnce
 <2>2. \A s \in Retiring : f.run[s].lease # 0 => f.run[s].state
   BY <1>0 DEF HeldOnce
 <2>3. ASSUME NEW l \in 1 .. f.leases.issued
       PROVE  (\E s \in Retiring : f.run[s].lease = l) \/ l \in f.leases.ended \cup f.leases.returned \cup f.leases.left
  <3>1. CASE l \in e.leases.ended \cup e.leases.returned \cup e.leases.left
    BY <3>1
  <3>2. CASE \E s \in Retiring : e.run[s].lease = l
    BY <3>2, <1>0, <2>3 DEF Numbers
  <3>3. QED BY <1>0, <2>3, <3>1, <3>2 DEF HeldOnce
 <2>4. QED BY <2>1, <2>2, <2>3 DEF HeldOnce
<1>4. Renewing(f)
 <2>1. ASSUME NEW o \in f.wire.renewals, f.run[o.run].lease = o.lease
       PROVE  f.run[o.run].renewal /\ o.authority = f.books.authority
  <3>1. o \in e.wire.renewals /\ o.run \in Retiring /\ o.lease # 0
    BY <1>0 DEF Numbers
  <3>2. e.run[o.run].lease = o.lease  BY <1>2, <2>1, <3>1
  <3>3. e.run[o.run].renewal /\ o.authority = e.books.authority
    BY <1>0, <3>1, <3>2 DEF Renewing
  <3>4. QED BY <2>1, <3>1, <3>3
 <2>2. QED BY <1>0, <2>1 DEF Renewing
<1>5. Claimed(f, T)  BY <1>0 DEF Claimed
<1>6. Ways(f, k)
 <2>1. ASSUME NEW item \in Items, WayOf(e, item) PROVE WayOf(f, item)
   BY <2>1, <1>2 DEF WayOf, Items
 <2>2. \A m \in DOMAIN e.queue : e.queue[m] \in Items
   BY <1>0 DEF Numbers
 <2>3. QED BY <1>0, <2>1, <2>2 DEF Ways
<1>7. NothingAsked(f)  BY <1>0 DEF NothingAsked
<1>8. QED BY <1>1, <1>3, <1>4, <1>5, <1>6, <1>7 DEF Sane

-----------------------------------------------------------------------------
(* Sequences. *)
LEMMA RemoveAtIs ==
  ASSUME NEW S, NEW q \in Seq(S), NEW i \in 1 .. Len(q)
  PROVE  /\ Retirements!RemoveAt(q, i) \in Seq(S) /\ Len(Retirements!RemoveAt(q, i)) = Len(q) - 1
         /\ \A m \in 1 .. Len(q) - 1 : Retirements!RemoveAt(q, i)[m] = q[IF m < i THEN m ELSE m + 1]
<1> DEFINE a == SubSeq(q, 1, i - 1)
           b == SubSeq(q, i + 1, Len(q))
<1>1. a \in Seq(S) /\ Len(a) = i - 1 /\ \A m \in 1 .. i - 1 : a[m] = q[m]
  OBVIOUS
<1>2. b \in Seq(S) /\ Len(b) = Len(q) - i /\ \A m \in 1 .. Len(q) - i : b[m] = q[m + i]
  OBVIOUS
<1>3. Retirements!RemoveAt(q, i) = a \o b  BY DEF Retirements!RemoveAt
<1> HIDE DEF a, b
<1>4. Retirements!RemoveAt(q, i) \in Seq(S) /\ Len(Retirements!RemoveAt(q, i)) = Len(q) - 1
  BY <1>1, <1>2, <1>3
<1>5. ASSUME NEW m \in 1 .. Len(q) - 1 PROVE Retirements!RemoveAt(q, i)[m] = q[IF m < i THEN m ELSE m + 1]
 <2>1. CASE m < i
   BY <1>1, <1>2, <1>3, <2>1
 <2>2. CASE ~(m < i)
  <3>1. (a \o b)[m] = b[m - (i - 1)]  BY <1>1, <1>2, <2>2
  <3>2. m - (i - 1) \in 1 .. Len(q) - i /\ (m - (i - 1)) + i = m + 1
    BY <2>2
  <3>3. b[m - (i - 1)] = q[(m - (i - 1)) + i]  BY <1>2, <3>2
  <3>4. QED BY <1>3, <2>2, <3>1, <3>2, <3>3
 <2>3. QED BY <2>1, <2>2
<1>6. QED BY <1>4, <1>5

LEMMA WithIs ==
  ASSUME NEW q \in Seq(Retiring), Distinct(q), NEW r \in Retiring
  PROVE  Retirements!With(q, r) \in Seq(Retiring) /\ Distinct(Retirements!With(q, r)) /\ Retirements!Range(Retirements!With(q, r)) = Retirements!Range(q) \cup {r}
         /\ Retirements!With(q, r) # <<>>
<1>1. CASE r \in Retirements!Range(q)
  BY <1>1 DEF Retirements!Range, Retirements!With
<1>2. CASE r \notin Retirements!Range(q)
 <2> DEFINE w == Append(q, r)
 <2>1. Retirements!With(q, r) = w  BY <1>2 DEF Retirements!With
 <2>2. w \in Seq(Retiring) /\ Len(w) = Len(q) + 1 /\ DOMAIN w = 1 .. Len(q) + 1 /\ DOMAIN q = 1 .. Len(q)
       /\ Len(q) \in Nat
   OBVIOUS
 <2>3. \A i \in 1 .. Len(q) : w[i] = q[i]
   OBVIOUS
 <2>4. w[Len(q) + 1] = r  OBVIOUS
 <2> HIDE DEF w
 <2>5. Distinct(w)  BY <1>2, <2>2, <2>3, <2>4 DEF Distinct, Retirements!Range
 <2>6. Retirements!Range(w) = Retirements!Range(q) \cup {r}
   BY <2>2, <2>3, <2>4 DEF Retirements!Range
 <2>7. w # <<>>  BY <2>2
 <2>8. QED BY <2>1, <2>2, <2>5, <2>6, <2>7
<1>3. QED BY <1>1, <1>2

LEMMA WithoutIs ==
  ASSUME NEW q \in Seq(Retiring), Distinct(q), NEW r \in Retiring
  PROVE  Retirements!Without(q, r) \in Seq(Retiring) /\ Distinct(Retirements!Without(q, r)) /\ Retirements!Range(Retirements!Without(q, r)) = Retirements!Range(q) \ {r}
<1>1. CASE r \notin Retirements!Range(q)
  BY <1>1 DEF Retirements!Without, Distinct, Retirements!Range
<1>2. CASE r \in Retirements!Range(q)
 <2> DEFINE i == CHOOSE i \in DOMAIN q : q[i] = r
            w == Retirements!RemoveAt(q, i)
 <2>1. i \in 1 .. Len(q) /\ q[i] = r
   BY <1>2 DEF Retirements!Range
 <2>2. Retirements!Without(q, r) = w  BY <1>2 DEF Retirements!Without
 <2> HIDE DEF i
 <2>3. /\ w \in Seq(Retiring) /\ Len(w) = Len(q) - 1
       /\ \A m \in 1 .. Len(q) - 1 : w[m] = q[IF m < i THEN m ELSE m + 1]
   BY <2>1, RemoveAtIs
 <2> HIDE DEF w
 <2>4. Distinct(w)
  <3>1. SUFFICES ASSUME NEW m \in 1 .. Len(w), NEW n \in 1 .. Len(w), w[m] = w[n] PROVE m = n
    BY <2>3 DEF Distinct
  <3>2. (IF m < i THEN m ELSE m + 1) \in 1 .. Len(q) /\ (IF n < i THEN n ELSE n + 1) \in 1 .. Len(q)
    BY <2>3
  <3>3. q[IF m < i THEN m ELSE m + 1] = q[IF n < i THEN n ELSE n + 1]
    BY <2>3, <3>1
  <3>4. (IF m < i THEN m ELSE m + 1) = (IF n < i THEN n ELSE n + 1)
    BY <3>2, <3>3 DEF Distinct
  <3>5. QED BY <2>1, <2>3, <3>4
 <2>5. \A m \in 1 .. Len(w) : w[m] \in Retirements!Range(q) \ {r}
   BY <2>1, <2>3 DEF Distinct, Retirements!Range
 <2>6. ASSUME NEW n \in 1 .. Len(q), q[n] # r PROVE q[n] \in Retirements!Range(w)
  <3>1. CASE n < i
    BY <2>1, <2>3, <3>1 DEF Retirements!Range
  <3>2. CASE n > i
   <4>1. n - 1 \in 1 .. Len(w) /\ w[n - 1] = q[n]
     BY <2>1, <2>3, <3>2
   <4>2. QED BY <4>1, <2>3 DEF Retirements!Range
  <3>3. QED BY <2>1, <2>6, <3>1, <3>2
 <2>7. Retirements!Range(w) = Retirements!Range(q) \ {r}  BY <2>3, <2>5, <2>6 DEF Retirements!Range
 <2>8. QED BY <2>2, <2>3, <2>4, <2>7
<1>3. QED BY <1>1, <1>2

-----------------------------------------------------------------------------
(* Submissions of leases that no run holds. *)
LEMMA Submits ==
  ASSUME NEW e, NEW k, NEW T, Sane(e, k, T), NEW f, Shape(f),
         f.run = e.run, f.books = e.books, f.wire = e.wire,
         NEW item \in Items, item.kind # "retire", f.queue = Append(e.queue, item),
         item.lease \in 1 .. f.leases.issued,
         f.leases.issued = e.leases.issued \/ (f.leases.issued = e.leases.issued + 1 /\ item.lease = f.leases.issued),
         f.leases.returned = e.leases.returned \cup {item.lease},
         f.leases.ended = e.leases.ended, f.leases.left = e.leases.left,
         \A s \in Retiring : e.run[s].lease # item.lease,
         \A m \in DOMAIN e.queue \ {k} : e.queue[m].lease # item.lease
  PROVE  Sane(f, k, T)
<1>0. /\ Numbers(e) /\ HeldOnce(e) /\ Renewing(e) /\ Claimed(e, T) /\ Ways(e, k) /\ NothingAsked(e) /\ Checks(e)
  BY DEF Sane
<1>1. Numbers(f)  BY <1>0 DEF Numbers
<1>2. HeldOnce(f)
 <2>1. ASSUME NEW l \in 1 .. f.leases.issued
       PROVE  (\E s \in Retiring : f.run[s].lease = l) \/ l \in f.leases.ended \cup f.leases.returned \cup f.leases.left
   BY <1>0 DEF Numbers, HeldOnce
 <2>2. QED BY <1>0, <2>1 DEF HeldOnce
<1>3. Renewing(f) /\ Claimed(f, T) /\ NothingAsked(f) /\ Checks(f)
  BY <1>0 DEF Renewing, Claimed, NothingAsked, Checks
<1>4. Ways(f, k)
 <2>1. \A x \in Items : WayOf(e, x) => WayOf(f, x)
   BY <1>0 DEF WayOf, Numbers
 <2>2. WayOf(f, item)  BY DEF WayOf
 <2>3. \A m \in DOMAIN e.queue : e.queue[m] \in Items
   BY <1>0 DEF Numbers
 <2>4. DOMAIN e.queue = 1 .. Len(e.queue) /\ DOMAIN f.queue = 1 .. Len(e.queue) + 1 /\ Len(e.queue) \in Nat
   BY <1>0 DEF Numbers
 <2>5. f.queue[Len(e.queue) + 1] = item /\ \A m \in 1 .. Len(e.queue) : f.queue[m] = e.queue[m]
   BY <1>0 DEF Numbers
 <2>6. \A m \in DOMAIN f.queue \ {k} : WayOf(f, f.queue[m])
   BY <1>0, <2>1, <2>2, <2>3, <2>4, <2>5 DEF Ways
 <2>7. ASSUME NEW m \in DOMAIN f.queue \ {k}, NEW n \in DOMAIN f.queue \ {k}, m # n
       PROVE  Apart(f.queue[m], f.queue[n])
   BY <2>4, <2>5, <2>7, <1>0 DEF Apart, Ways
 <2>10. ASSUME NEW s \in Retiring \cap f.books.retiring
        PROVE  \E m \in DOMAIN f.queue \ {k} : f.queue[m].kind = "retire" /\ f.queue[m].run = s
   BY <1>0, <2>4, <2>5 DEF Ways
 <2>11. k \in 0 .. Len(f.queue)  BY <1>0, <2>4 DEF Ways
 <2>8. QED BY <2>6, <2>7, <2>10, <2>11 DEF Ways
<1>5. QED BY <1>0, <1>1, <1>2, <1>3, <1>4 DEF Sane

(* A lease that is issued now is no run's and is not on its way. *)
LEMMA FreshLease ==
  ASSUME NEW e, NEW k, NEW T, Sane(e, k, T)
  PROVE  /\ e.leases.issued \in Nat
         /\ \A s \in Retiring : e.run[s].lease # e.leases.issued + 1
         /\ \A m \in DOMAIN e.queue \ {k} : e.queue[m].lease # e.leases.issued + 1
         /\ \A o \in e.wire.renewals : o.lease # e.leases.issued + 1
BY DEF Sane, Numbers, Ways, WayOf

LEMMA LateSane ==
  ASSUME NEW e, NEW k, NEW T, Sane(e, k, T), NEW f, f = Retirements!SurrenderLate(e)
  PROVE  Sane(f, k, T)
<1> DEFINE item == [kind |-> "late", run |-> NoRun, lease |-> e.leases.issued + 1]
<1>0. Shape(e) /\ e.leases.issued \in Nat
  BY DEF Sane, Numbers
<1>1. item \in Items /\ item.kind # "retire" /\ item.lease = e.leases.issued + 1
  BY <1>0 DEF Items
<1>2. /\ Shape(f) /\ f.run = e.run /\ f.books = e.books /\ f.wire = e.wire
      /\ f.queue = Append(e.queue, item)
      /\ f.leases.issued = e.leases.issued + 1
      /\ f.leases.returned = e.leases.returned \union {e.leases.issued + 1}
      /\ f.leases.ended = e.leases.ended /\ f.leases.left = e.leases.left
  BY <1>0, LateIs DEF LeasesBut
<1> HIDE DEF item
<1>3. item.lease \in 1 .. f.leases.issued  BY <1>0, <1>1, <1>2
<1>4. QED BY <1>1, <1>2, <1>3, FreshLease, Submits

LEMMA LeftSane ==
  ASSUME NEW e, NEW k, NEW T, Sane(e, k, T), NEW f, f = Retirements!LeftToExpire(e)
  PROVE  Sane(f, k, T)
<1>0. /\ Numbers(e) /\ HeldOnce(e) /\ Renewing(e) /\ Claimed(e, T) /\ Ways(e, k) /\ NothingAsked(e) /\ Checks(e)
  BY DEF Sane
<1>1. /\ Shape(f) /\ f.run = e.run /\ f.books = e.books /\ f.wire = e.wire /\ f.queue = e.queue
      /\ f.leases.issued = e.leases.issued + 1
      /\ f.leases.left = e.leases.left \union {e.leases.issued + 1}
      /\ f.leases.ended = e.leases.ended /\ f.leases.returned = e.leases.returned
  BY <1>0, LeftIs DEF LeasesBut, Numbers
<1>2. Numbers(f)  BY <1>0, <1>1 DEF Numbers
<1>3. HeldOnce(f)
 <2>1. ASSUME NEW l \in 1 .. f.leases.issued
       PROVE  (\E s \in Retiring : f.run[s].lease = l) \/ l \in f.leases.ended \cup f.leases.returned \cup f.leases.left
   BY <1>0, <1>1 DEF Numbers, HeldOnce
 <2>2. QED BY <1>0, <1>1, <2>1 DEF HeldOnce
<1>4. Renewing(f) /\ Claimed(f, T) /\ NothingAsked(f) /\ Checks(f)
  BY <1>0, <1>1 DEF Renewing, Claimed, NothingAsked, Checks
<1>5. Ways(f, k)
  BY <1>0, <1>1 DEF WayOf, Numbers, Ways
<1>6. QED BY <1>2, <1>3, <1>4, <1>5 DEF Sane

(* A run that is not retiring gets a new lease. *)
LEMMA InstalledSane ==
  ASSUME NEW e, NEW k, NEW T, Sane(e, k, T), NEW r \in Retiring, r \notin e.books.retiring, ~e.books.closed,
         NEW f, f = Retirements!Installed(e, r)
  PROVE  Sane(f, k, T)
<1>0. /\ Numbers(e) /\ HeldOnce(e) /\ Renewing(e) /\ Claimed(e, T) /\ Ways(e, k) /\ NothingAsked(e) /\ Checks(e)
  BY DEF Sane
<1>1. /\ Shape(f) /\ f.books = e.books /\ f.wire = e.wire /\ f.queue = e.queue
      /\ \A s \in Retiring \ {r} : f.run[s] = e.run[s]
      /\ \A a \in RunFields \ {"lease", "renewal", "state"} : f.run[r][a] = e.run[r][a]
      /\ f.run[r].lease = e.leases.issued + 1 /\ ~f.run[r].renewal /\ f.run[r].state
      /\ f.leases.issued = e.leases.issued + 1
      /\ f.leases.ended = e.leases.ended \union ({e.run[r].lease} \ {0})
      /\ f.leases.returned = e.leases.returned /\ f.leases.left = e.leases.left
  BY <1>0, InstalledIs DEF LeasesBut, Numbers, RunBut
<1>2. /\ f.run[r].owners = e.run[r].owners /\ f.run[r].reserved = e.run[r].reserved
      /\ f.run[r].managed = e.run[r].managed /\ f.run[r].pending = e.run[r].pending
  BY <1>1 DEF RunFields
<1>3. Numbers(f)
 <2>1. \A s \in Retiring : f.run[s].lease \in 0 .. f.leases.issued /\ f.run[s].reserved \in Nat /\ f.run[s].owners \in Nat
  <3>1. f.run[r].lease \in 0 .. f.leases.issued /\ f.run[r].reserved \in Nat /\ f.run[r].owners \in Nat
    BY <1>0, <1>1, <1>2 DEF Numbers
  <3>2. ASSUME NEW s \in Retiring \ {r}
        PROVE  f.run[s].lease \in 0 .. f.leases.issued /\ f.run[s].reserved \in Nat /\ f.run[s].owners \in Nat
    BY <1>0, <1>1 DEF Numbers
  <3>3. QED BY <3>1, <3>2
 <2>2. \A o \in f.wire.renewals : o.run \in Retiring /\ o.lease \in 1 .. f.leases.issued
   BY <1>0, <1>1 DEF Numbers
 <2>3. QED BY <1>0, <1>1, <2>1, <2>2 DEF Numbers
<1>4. HeldOnce(f)
 <2>1. \A s, t \in Retiring : f.run[s].lease = f.run[t].lease /\ f.run[s].lease # 0 => s = t
   BY <1>0, <1>1, FreshLease DEF HeldOnce
 <2>2. ASSUME NEW l \in 1 .. f.leases.issued
       PROVE  (\E s \in Retiring : f.run[s].lease = l) \/ l \in f.leases.ended \cup f.leases.returned \cup f.leases.left
  <3>1. CASE l = e.leases.issued + 1
    BY <1>1, <3>1
  <3>2. CASE \E s \in Retiring : e.run[s].lease = l /\ l # 0
    BY <1>1, <3>2
  <3>3. CASE l \in e.leases.ended \cup e.leases.returned \cup e.leases.left
    BY <1>1, <3>3
  <3>4. l # 0 /\ (l = e.leases.issued + 1 \/ l \in 1 .. e.leases.issued)
    BY <1>0, <1>1 DEF Numbers
  <3>5. QED BY <1>0, <3>1, <3>2, <3>3, <3>4 DEF HeldOnce
 <2>3. \A s \in Retiring : f.run[s].lease # 0 => f.run[s].state
   BY <1>0, <1>1 DEF HeldOnce
 <2>4. QED BY <2>1, <2>2, <2>3 DEF HeldOnce
<1>5. Renewing(f)  BY <1>0, <1>1, FreshLease DEF Renewing, Numbers
<1>6. Claimed(f, T) /\ NothingAsked(f)
  BY <1>0, <1>1 DEF Claimed, NothingAsked
<1>7. Checks(f)
  BY <1>1, <1>2, <1>0, ChecksStay
<1>8. Ways(f, k)
 <2>1. ASSUME NEW x, WayOf(e, x), x.lease # e.leases.issued + 1 PROVE WayOf(f, x)
  <3>1. x.lease \in 1 .. f.leases.issued /\ x.lease \in f.leases.returned
    BY <1>0, <1>1, <2>1 DEF WayOf, Numbers
  <3>2. x.kind = "retire" => x.run # r  BY <2>1 DEF WayOf
  <3>3. QED BY <1>1, <2>1, <3>1, <3>2 DEF WayOf
 <2>2. QED BY <1>0, <1>1, <2>1, FreshLease DEF Ways
<1>9. QED BY <1>3, <1>4, <1>5, <1>6, <1>7, <1>8 DEF Sane

-----------------------------------------------------------------------------
(* Retirement. *)
LEMMA Elsewhere ==
  ASSUME NEW e, NEW f, NEW S, NEW V, NEW r,
         \A s \in Retiring \ {r} : f.run[s] = e.run[s],
         f.books.closed = e.books.closed,
         f.books.orphaned \ {r} = e.books.orphaned \ {r}, f.books.retiring \ {r} = e.books.retiring \ {r},
         Retirements!Range(e.books.backlog) \ {r} \subseteq Retirements!Range(f.books.backlog),
         \A g \in e.wire.grants : g.run # r => g \in f.wire.grants,
         \A o \in e.wire.renewals : o.run # r => o \in f.wire.renewals,
         Found(e, S), Known(e, V)
  PROVE  Found(f, S \cup {r}) /\ Known(f, V \cup {r})
<1>1. ASSUME NEW s \in Retiring \ (S \cup {r}), Lost(f, s) PROVE s \in Retirements!Range(f.books.backlog)
  BY <1>1 DEF Lost, Retirements!Idle, Retirements!Evaluated, Retirements!Quiet, Found
<1>2. Known(f, V \cup {r})  BY DEF Known
<1>3. QED BY <1>1, <1>2 DEF Found

LEMMA RetireIs ==
  ASSUME NEW e, Shape(e), NEW r, NEW f,
         f = Retirements!Retired(e, r)
  PROVE  /\ Shape(f) /\ f.run = e.run /\ f.wire = e.wire
         /\ f.queue = Append(e.queue, [kind |-> "retire", run |-> r, lease |-> e.run[r].lease])
         /\ f.leases.returned = e.leases.returned \union {e.run[r].lease} /\ LeasesBut(e, f, {"returned"})
         /\ f.books.backlog = Retirements!Without(e.books.backlog, r) /\ f.books.retiring = e.books.retiring \union {r}
         /\ BooksBut(e, f, {"backlog", "retiring"})
<1> DEFINE d == Retirements!Submitted(e, "retire", r, e.run[r].lease)
<1>1. f = [d EXCEPT !.books = [e.books EXCEPT !.backlog = Retirements!Without(e.books.backlog, r),
                                             !.retiring = e.books.retiring \union {r}]]
  BY Zenon DEF Retirements!Retired
<1>2. /\ Shape(d) /\ d.run = e.run /\ d.books = e.books /\ d.wire = e.wire
      /\ d.queue = Append(e.queue, [kind |-> "retire", run |-> r, lease |-> e.run[r].lease])
      /\ d.leases.returned = e.leases.returned \union {e.run[r].lease} /\ LeasesBut(e, d, {"returned"})
  BY SubmittedIs
<1> HIDE DEF d
<1>a. /\ DOMAIN f = DOMAIN d /\ f.run = d.run /\ f.wire = d.wire /\ f.queue = d.queue /\ f.leases = d.leases
      /\ f.books = [e.books EXCEPT !.backlog = Retirements!Without(e.books.backlog, r),
                                   !.retiring = e.books.retiring \union {r}]
  BY <1>1, <1>2 DEF Shape
<1>3. /\ DOMAIN f = DOMAIN d /\ f.run = d.run /\ f.wire = d.wire /\ f.queue = d.queue /\ f.leases = d.leases
      /\ DOMAIN f.books = DOMAIN d.books
      /\ f.books.backlog = Retirements!Without(d.books.backlog, r) /\ f.books.retiring = d.books.retiring \union {r}
      /\ BooksBut(d, f, {"backlog", "retiring"})
  BY <1>a, <1>2 DEF Shape, BooksBut
<1>4. Shape(f)  BY <1>2, <1>3 DEF Shape
<1>5. BooksBut(e, f, {"backlog", "retiring"}) /\ LeasesBut(e, f, {"returned"})
  BY <1>2, <1>3 DEF BooksBut, LeasesBut
<1>6. QED BY <1>2, <1>3, <1>4, <1>5

LEMMA RetireSane ==
  ASSUME NEW e, NEW k, NEW T, Sane(e, k, T), NEW r \in Retiring, NEW f,
         r \notin e.books.retiring, ~e.books.closed, e.run[r].lease # 0, ~e.run[r].renewal,
         ~\E g \in e.wire.grants : g.run = r,
         f = Retirements!Retired(e, r)
  PROVE  Sane(f, k, T)
<1> DEFINE item == [kind |-> "retire", run |-> r, lease |-> e.run[r].lease]
<1>0. /\ Numbers(e) /\ HeldOnce(e) /\ Renewing(e) /\ Claimed(e, T) /\ Ways(e, k) /\ NothingAsked(e) /\ Checks(e)
  BY DEF Sane
<1>1. /\ Shape(f) /\ f.run = e.run /\ f.wire = e.wire /\ f.queue = Append(e.queue, item)
      /\ f.leases.returned = e.leases.returned \union {e.run[r].lease}
      /\ f.leases.issued = e.leases.issued /\ f.leases.ended = e.leases.ended /\ f.leases.left = e.leases.left
      /\ f.books.backlog = Retirements!Without(e.books.backlog, r) /\ f.books.retiring = e.books.retiring \union {r}
      /\ f.books.closed = e.books.closed /\ f.books.orphaned = e.books.orphaned
      /\ f.books.authority = e.books.authority
  BY <1>0, RetireIs DEF Numbers, LeasesBut, BooksBut
<1>2. item \in Items /\ item.kind = "retire" /\ item.run = r /\ item.lease = e.run[r].lease
  BY <1>0 DEF Items, Numbers
<1> HIDE DEF item
<1>3. Retirements!Without(e.books.backlog, r) \in Seq(Retiring) /\ Distinct(Retirements!Without(e.books.backlog, r))
  BY <1>0, WithoutIs DEF Numbers
<1>4. Numbers(f)  BY <1>0, <1>1, <1>2, <1>3 DEF Numbers
<1>5. HeldOnce(f) /\ Renewing(f) /\ Claimed(f, T) /\ NothingAsked(f)
  BY <1>0, <1>1 DEF HeldOnce, Renewing, Claimed, NothingAsked
<1>6. Checks(f)  BY <1>0, <1>1 DEF Checks
<1>7. Ways(f, k)
 <2>1. \A x \in Items : WayOf(e, x) => WayOf(f, x)
   BY <1>0, <1>1 DEF WayOf, Numbers
 <2>2. WayOf(f, item)  BY <1>0, <1>1, <1>2 DEF WayOf, HeldOnce, Numbers
 <2>3. \A m \in DOMAIN e.queue : e.queue[m] \in Items
   BY <1>0 DEF Numbers
 <2>4. DOMAIN e.queue = 1 .. Len(e.queue) /\ DOMAIN f.queue = 1 .. Len(e.queue) + 1 /\ Len(e.queue) \in Nat
   BY <1>0, <1>1 DEF Numbers
 <2>5. f.queue[Len(e.queue) + 1] = item /\ \A m \in 1 .. Len(e.queue) : f.queue[m] = e.queue[m]
   BY <1>0, <1>1 DEF Numbers
 <2>6. \A m \in DOMAIN f.queue \ {k} : WayOf(f, f.queue[m])
   BY <1>0, <2>1, <2>2, <2>3, <2>4, <2>5 DEF Ways
 <2>9. \A m \in DOMAIN e.queue \ {k} : Apart(item, e.queue[m]) /\ Apart(e.queue[m], item)
   BY <1>0, <1>2, <2>3 DEF Ways, WayOf, Apart
 <2>7. ASSUME NEW m \in DOMAIN f.queue \ {k}, NEW n \in DOMAIN f.queue \ {k}, m # n
       PROVE  Apart(f.queue[m], f.queue[n])
   BY <2>4, <2>5, <2>7, <2>9, <1>0 DEF Ways
 <2>10. ASSUME NEW s \in Retiring \cap f.books.retiring
        PROVE  \E m \in DOMAIN f.queue \ {k} : f.queue[m].kind = "retire" /\ f.queue[m].run = s
  <3>1. CASE s = r
    BY <1>0, <2>4, <1>2, <2>5, <3>1 DEF Ways
  <3>2. CASE s # r
    BY <1>0, <1>1, <3>2, <2>4, <2>5 DEF Ways
  <3>3. QED BY <3>1, <3>2
 <2>11. k \in 0 .. Len(f.queue)  BY <1>0, <2>4 DEF Ways
 <2>8. QED BY <2>6, <2>7, <2>10, <2>11 DEF Ways
<1>8. QED BY <1>4, <1>5, <1>6, <1>7 DEF Sane

(* A step of the books alone, in which nobody comes to retire. *)
LEMMA BooksEdit ==
  ASSUME NEW e, NEW k, NEW T, Sane(e, k, T), NEW f, Shape(f),
         f.run = e.run, f.wire = e.wire, f.queue = e.queue, f.leases = e.leases,
         f.books.retiring = e.books.retiring, f.books.authority = e.books.authority,
         f.books.closed = e.books.closed, ~e.books.closed,
         f.books.backlog \in Seq(Retiring), Distinct(f.books.backlog)
  PROVE  Sane(f, k, T)
<1>0. /\ Numbers(e) /\ HeldOnce(e) /\ Renewing(e) /\ Claimed(e, T) /\ Ways(e, k) /\ NothingAsked(e) /\ Checks(e)
  BY DEF Sane
<1>1. Numbers(f)  BY <1>0 DEF Numbers
<1>2. HeldOnce(f) /\ Renewing(f) /\ Claimed(f, T) /\ NothingAsked(f)
  BY <1>0 DEF HeldOnce, Renewing, Claimed, NothingAsked
<1>3. Checks(f)  BY <1>0 DEF Checks
<1>4. Ways(f, k)  BY <1>0 DEF Ways, WayOf
<1>5. QED BY <1>1, <1>2, <1>3, <1>4 DEF Sane

(* A run without a lease is forgotten. *)
LEMMA DiscardedSane ==
  ASSUME NEW e, NEW k, NEW T, Sane(e, k, T), NEW r \in Retiring, NEW f, f = Retirements!Discarded(e, r),
         ~e.run[r].renewal, ~e.books.closed, ~\E g \in e.wire.grants : g.run = r,
         e.run[r].lease \in {0} \cup e.leases.returned
  PROVE  Sane(f, k, T)
<1>0. Numbers(e) /\ Checks(e) /\ Renewing(e)
  BY DEF Sane
<1>1. /\ Shape(f) /\ f.wire = e.wire /\ f.queue = e.queue /\ f.leases = e.leases
      /\ f.books.orphaned = e.books.orphaned \ {r}
      /\ f.books.backlog = Retirements!Without(e.books.backlog, r)
      /\ f.books.retiring = e.books.retiring /\ f.books.closed = e.books.closed
      /\ f.books.authority = e.books.authority
      /\ \A s \in Retiring \ {r} : f.run[s] = e.run[s]
      /\ ~f.run[r].state /\ f.run[r].lease = 0 /\ f.run[r].reserved = 0 /\ ~f.run[r].unmanaged
      /\ f.run[r].owners = e.run[r].owners /\ f.run[r].managed = e.run[r].managed
      /\ f.run[r].pending = e.run[r].pending /\ f.run[r].renewal = e.run[r].renewal
  BY <1>0, DiscardedIs DEF Numbers, BooksBut, RunBut, RunFields
<1>2. f.books.backlog \in Seq(Retiring) /\ Distinct(f.books.backlog)
  BY <1>0, <1>1, WithoutIs DEF Numbers
<1>3. Checks(f)
 <2>1. \A s \in Retiring : f.run[s].managed => f.run[s].owners > 0
   BY <1>0, <1>1 DEF Checks
 <2>2. ASSUME NEW g \in f.wire.grants
       PROVE f.run[g.run].state /\ ((g.managed /\ f.run[g.run].managed) \/ (~g.managed /\ f.run[g.run].pending))
   BY <1>0, <1>1, <2>2 DEF Numbers, Checks
 <2>3. ~f.books.closed  BY <1>1
 <2>4. QED BY <2>1, <2>2, <2>3 DEF Checks
<1>4. f.run[r].reserved \in Nat /\ f.run[r].owners \in Nat
  BY <1>0, <1>1 DEF Numbers
<1>5. \A o \in e.wire.renewals : ~(o.run = r /\ o.lease = f.run[r].lease)
  BY <1>0, <1>1 DEF Numbers
<1>6. e.run[r].lease \in {0} \cup f.leases.ended \cup f.leases.returned  BY <1>1
<1>7. ~f.run[r].renewal  BY <1>1
<1>8. QED BY <1>1, <1>2, <1>3, <1>4, <1>5, <1>6, <1>7, RunEdit

(* Whatever a look at a run finds, nothing is left for another look. *)
LEMMA RetireRunSane ==
  ASSUME NEW e, NEW k, NEW T, Sane(e, k, T), NEW r \in Retiring, NEW b \in BOOLEAN, NEW f, f = Retirements!RetireRun(e, r, b),
         Found(e, {r}), Known(e, {})
  PROVE  /\ Sane(f, k, T) /\ Found(f, {}) /\ Known(f, {})
         /\ Len(f.queue) >= Len(e.queue)
         /\ b => Retirements!Range(f.books.backlog) \subseteq Retirements!Range(e.books.backlog)
         /\ ~b /\ (e.books.backlog # <<>> => Len(e.queue) > 0) => (f.books.backlog # <<>> => Len(f.queue) > 0)
<1>0. Numbers(e) /\ Shape(e) /\ e.books.backlog \in Seq(Retiring) /\ Distinct(e.books.backlog) /\ Len(e.queue) \in Nat
      /\ Checks(e)
  BY DEF Sane, Numbers
<1>1. CASE f = e /\ ~Retirements!Idle(e, r)
  BY <1>1, <1>0 DEF Found, Lost
<1>2. CASE f = [e EXCEPT !.books.orphaned = @ \ {r}] /\ Retirements!Evaluated(e, r) /\ ~e.run[r].state
 <2>1. /\ Shape(f) /\ f.run = e.run /\ f.wire = e.wire /\ f.queue = e.queue /\ f.leases = e.leases
       /\ f.books.orphaned = e.books.orphaned \ {r} /\ f.books.retiring = e.books.retiring
       /\ f.books.authority = e.books.authority /\ f.books.closed = e.books.closed
       /\ f.books.backlog = e.books.backlog
   BY <1>0, <1>2 DEF Shape
 <2>2. ~e.books.closed  BY <1>2 DEF Retirements!Evaluated
 <2>3. Sane(f, k, T)  BY <1>0, <2>1, <2>2, BooksEdit
 <2>4. Found(f, {r} \cup {r}) /\ Known(f, {} \cup {r})
   BY <2>1, Elsewhere
 <2>5. Found(f, {}) /\ Known(f, {})
   BY <1>2, <2>1, <2>4 DEF Found, Known, Lost, Retirements!Idle
 <2>6. QED BY <1>0, <2>1, <2>3, <2>5
<1>3. CASE f = Retirements!Discarded(e, r) /\ Retirements!Idle(e, r) /\ e.run[r].lease = 0
 <2>1. /\ ~e.books.closed /\ ~e.run[r].renewal /\ ~\E g \in e.wire.grants : g.run = r
   BY <1>3 DEF Retirements!Idle, Retirements!Evaluated, Retirements!Quiet
 <2>2. Sane(f, k, T)  BY <1>3, <2>1, DiscardedSane
 <2>3. /\ f.wire = e.wire /\ f.queue = e.queue /\ ~f.run[r].state
       /\ f.books.orphaned = e.books.orphaned \ {r}
       /\ f.books.backlog = Retirements!Without(e.books.backlog, r)
       /\ f.books.retiring = e.books.retiring /\ f.books.closed = e.books.closed
       /\ \A s \in Retiring \ {r} : f.run[s] = e.run[s]
   BY <1>0, <1>3, DiscardedIs DEF BooksBut, RunBut
 <2>4. Retirements!Range(f.books.backlog) = Retirements!Range(e.books.backlog) \ {r}
   BY <1>0, <2>3, WithoutIs
 <2>5. Found(f, {r} \cup {r}) /\ Known(f, {} \cup {r})
   BY <2>3, <2>4, Elsewhere
 <2>6. Found(f, {}) /\ Known(f, {})
   BY <2>3, <2>5 DEF Found, Known, Lost, Retirements!Idle
 <2>7. f.books.backlog # <<>> => e.books.backlog # <<>>
   BY <1>0, <2>3, <2>4 DEF Retirements!Without, Retirements!Range
 <2>8. QED BY <1>0, <2>2, <2>3, <2>4, <2>6, <2>7
<1>4. CASE f = [e EXCEPT !.books.backlog = Retirements!With(@, r)] /\ Retirements!Idle(e, r) /\ Retirements!HasToWait(e, b)
 <2>1. /\ Shape(f) /\ f.run = e.run /\ f.wire = e.wire /\ f.queue = e.queue /\ f.leases = e.leases
       /\ f.books.orphaned = e.books.orphaned /\ f.books.retiring = e.books.retiring
       /\ f.books.authority = e.books.authority /\ f.books.closed = e.books.closed
       /\ f.books.backlog = Retirements!With(e.books.backlog, r)
   BY <1>0, <1>4 DEF Shape
 <2>2. ~e.books.closed  BY <1>4 DEF Retirements!Idle, Retirements!Evaluated
 <2>3. /\ f.books.backlog \in Seq(Retiring) /\ Distinct(f.books.backlog)
       /\ Retirements!Range(f.books.backlog) = Retirements!Range(e.books.backlog) \cup {r}
   BY <1>0, <2>1, WithIs
 <2>4. Sane(f, k, T)  BY <1>0, <2>1, <2>2, <2>3, BooksEdit
 <2>5. Found(f, {r} \cup {r}) /\ Known(f, {} \cup {r})
   BY <2>1, <2>3, Elsewhere
 <2>6. Found(f, {}) /\ Known(f, {})
   BY <2>3, <2>5, <2>1 DEF Found, Known
 <2>7. ~b /\ (e.books.backlog # <<>> \/ ~(Len(e.queue) < Workers))
   BY <1>4 DEF Retirements!HasToWait, Retirements!HasFreeWorker
 <2>8. QED BY <1>0, <2>1, <2>4, <2>6, <2>7, RetirementAssumption
<1>5. CASE f = Retirements!Retired(e, r) /\ Retirements!Idle(e, r) /\ e.run[r].lease # 0 /\ ~Retirements!HasToWait(e, b)
 <2>1. /\ ~e.books.closed /\ ~e.run[r].renewal /\ r \notin e.books.retiring
       /\ ~\E g \in e.wire.grants : g.run = r
   BY <1>5 DEF Retirements!Idle, Retirements!Evaluated, Retirements!Quiet
 <2>2. Sane(f, k, T)  BY <1>5, <2>1, RetireSane
 <2>3. /\ f.run = e.run /\ f.wire = e.wire
       /\ f.queue = Append(e.queue, [kind |-> "retire", run |-> r, lease |-> e.run[r].lease])
       /\ f.books.backlog = Retirements!Without(e.books.backlog, r) /\ f.books.retiring = e.books.retiring \union {r}
       /\ f.books.orphaned = e.books.orphaned /\ f.books.closed = e.books.closed
   BY <1>0, <1>5, RetireIs DEF BooksBut
 <2>4. Retirements!Range(f.books.backlog) = Retirements!Range(e.books.backlog) \ {r}
   BY <1>0, <2>3, WithoutIs
 <2>5. Found(f, {r} \cup {r}) /\ Known(f, {} \cup {r})
   BY <2>3, <2>4, Elsewhere
 <2>6. Found(f, {})  BY <2>3, <2>5 DEF Found, Lost, Retirements!Idle, Retirements!Evaluated
 <2>7. Known(f, {})  BY <2>3 DEF Known
 <2>8. Len(f.queue) = Len(e.queue) + 1  BY <1>0, <2>3 DEF Numbers
 <2>9. QED BY <1>0, <2>2, <2>4, <2>6, <2>7, <2>8
<1>6. \/ f = e /\ ~Retirements!Idle(e, r)
      \/ f = [e EXCEPT !.books.orphaned = @ \ {r}] /\ Retirements!Evaluated(e, r) /\ ~e.run[r].state
      \/ f = Retirements!Discarded(e, r) /\ Retirements!Idle(e, r) /\ e.run[r].lease = 0
      \/ f = [e EXCEPT !.books.backlog = Retirements!With(@, r)] /\ Retirements!Idle(e, r) /\ Retirements!HasToWait(e, b)
      \/ f = Retirements!Retired(e, r) /\ Retirements!Idle(e, r) /\ e.run[r].lease # 0 /\ ~Retirements!HasToWait(e, b)
  BY DEF Retirements!RetireRun
<1>7. QED BY <1>1, <1>2, <1>3, <1>4, <1>5, <1>6

-----------------------------------------------------------------------------
(* The backlog is gone through from its oldest run. *)
LEMMA Precedes == \A x, y : <<x, y>> \in OpToRel(<, Nat) <=> x \in Nat /\ y \in Nat /\ x < y
BY DEF OpToRel

LEMMA LeastNumber ==
  ASSUME NEW S, S \subseteq Nat, S # {}
  PROVE  \E x \in S : \A y \in S : x <= y
<1>1. IsWellFoundedOn(OpToRel(<, Nat), Nat)  BY NatLessThanWellFounded
<1>2. PICK x \in S : \A y \in S : <<y, x>> \notin OpToRel(<, Nat)
  BY <1>1, WFMin
<1>3. \A y \in S : ~(y < x)
  BY <1>2, Precedes
<1>4. QED BY <1>3

(* The function by which FeedRetirements is defined exists. *)
Feeds(e, line, n, g) ==
  g = [i \in 0 .. n |-> g[i]] /\ g[0] = e /\ \A i \in 1 .. n : g[i] = Retirements!Feed(g[i - 1], line[i])

LEMMA FeedsExist ==
  ASSUME NEW e, NEW line, NEW N \in Nat
  PROVE  \E g : Feeds(e, line, N, g)
<1> DEFINE S == {n \in Nat : ~\E g : Feeds(e, line, n, g)}
<1>1. SUFFICES ASSUME N \in S PROVE FALSE
  OBVIOUS
<1>2. PICK n \in S : \A m \in S : n <= m
  BY <1>1, LeastNumber
<1>3. CASE n = 0
 <2>1. Feeds(e, line, 0, [i \in 0 .. 0 |-> e])  BY DEF Feeds
 <2>2. QED BY <1>2, <1>3, <2>1
<1>4. CASE n # 0
 <2>1. n - 1 \in Nat /\ n - 1 \notin S
   BY <1>2, <1>4
 <2>2. PICK g : Feeds(e, line, n - 1, g)
   BY <2>1
 <2> DEFINE h == [i \in 0 .. n |-> IF i = n THEN Retirements!Feed(g[n - 1], line[n]) ELSE g[i]]
 <2>3. DOMAIN h = 0 .. n /\ h[0] = e
   BY <1>2, <1>4, <2>2 DEF Feeds
 <2>4. ASSUME NEW i \in 1 .. n PROVE h[i] = Retirements!Feed(h[i - 1], line[i])
  <3>1. h[i - 1] = g[i - 1]  BY <1>2, <2>4
  <3>2. CASE i = n
    BY <1>2, <3>1, <3>2
  <3>3. CASE i # n
   <4>1. i \in 1 .. n - 1 /\ h[i] = g[i]
     BY <1>2, <3>3
   <4>2. QED BY <2>2, <3>1, <4>1 DEF Feeds
  <3>4. QED BY <3>2, <3>3
 <2>5. Feeds(e, line, n, h)  BY <2>3, <2>4 DEF Feeds
 <2>6. QED BY <1>2, <2>5
<1>5. QED BY <1>3, <1>4

LEMMA FedBySteps ==
  ASSUME NEW e, e.books.backlog \in Seq(Retiring)
  PROVE  \E g : Feeds(e, e.books.backlog, Len(e.books.backlog), g)
                /\ Retirements!FeedRetirements(e) = g[Len(e.books.backlog)]
<1> DEFINE line == e.books.backlog
           Body(g) == [n \in 0 .. Len(line) |-> IF n = 0 THEN e ELSE Retirements!Feed(g[n - 1], line[n])]
           fed == CHOOSE g : g = Body(g)
<1>1. Len(line) \in Nat  OBVIOUS
<1>2. PICK h : Feeds(e, line, Len(line), h)
  BY <1>1, FeedsExist
<1>3. h = Body(h)
 <2>1. h = [n \in 0 .. Len(line) |-> h[n]]  BY Zenon, <1>2 DEF Feeds
 <2>2. h[0] = e /\ \A i \in 1 .. Len(line) : h[i] = Retirements!Feed(h[i - 1], line[i])
   BY Zenon, <1>2 DEF Feeds
 <2>4. \A n \in 0 .. Len(line) : h[n] = IF n = 0 THEN e ELSE Retirements!Feed(h[n - 1], line[n])
   BY <1>1, <2>2
 <2>3. QED BY <2>1, <2>4
<1>4. fed = Body(fed)  BY Zenon, <1>3
<1>5. Retirements!FeedRetirements(e) = fed[Len(line)]  BY DEF Retirements!FeedRetirements
<1> HIDE DEF fed
<1>6. Feeds(e, line, Len(line), fed)  BY <1>1, <1>4 DEF Feeds
<1>7. QED BY <1>5, <1>6

LEMMA FeedSane ==
  ASSUME NEW e, NEW k, NEW T, Sane(e, k, T), Found(e, {}), Known(e, {}), NEW r \in Retiring, NEW f, f = Retirements!Feed(e, r)
  PROVE  /\ Sane(f, k, T) /\ Found(f, {}) /\ Known(f, {}) /\ Len(f.queue) >= Len(e.queue)
         /\ \/ f = e /\ (Retirements!Waiting(e) \/ Retirements!Range(e.books.backlog) = {})
            \/ Retirements!Range(f.books.backlog) \subseteq Retirements!Range(e.books.backlog) \ {r}
<1>0. Numbers(e) /\ Shape(e) /\ e.books.backlog \in Seq(Retiring) /\ Distinct(e.books.backlog) /\ Len(e.queue) \in Nat
      /\ Checks(e)
  BY DEF Sane, Numbers
<1>1. CASE e.books.closed \/ Retirements!Waiting(e)
 <2>1. f = e  BY <1>1 DEF Retirements!Feed
 <2>2. e.books.closed => Retirements!Range(e.books.backlog) = {}
   BY <1>0 DEF Checks, Retirements!Range
 <2>3. QED BY <1>0, <1>1, <2>1, <2>2
<1>2. CASE ~(e.books.closed \/ Retirements!Waiting(e))
 <2> DEFINE d == [e EXCEPT !.books.backlog = Retirements!Without(@, r)]
 <2>1. f = Retirements!RetireRun(d, r, TRUE)  BY <1>2 DEF Retirements!Feed
 <2>2. /\ Shape(d) /\ d.run = e.run /\ d.wire = e.wire /\ d.queue = e.queue /\ d.leases = e.leases
       /\ d.books.orphaned = e.books.orphaned /\ d.books.retiring = e.books.retiring
       /\ d.books.authority = e.books.authority /\ d.books.closed = e.books.closed
       /\ d.books.backlog = Retirements!Without(e.books.backlog, r)
   BY <1>0 DEF Shape
 <2> HIDE DEF d
 <2>3. /\ d.books.backlog \in Seq(Retiring) /\ Distinct(d.books.backlog)
       /\ Retirements!Range(d.books.backlog) = Retirements!Range(e.books.backlog) \ {r}
   BY <1>0, <2>2, WithoutIs
 <2>4. Sane(d, k, T)  BY <1>0, <1>2, <2>2, <2>3, BooksEdit
 <2>5. Found(d, {} \cup {r})  BY <2>2, <2>3, Elsewhere
 <2>6. Found(d, {r}) /\ Known(d, {})
   BY <2>2, <2>5 DEF Known
 <2>7. /\ Sane(f, k, T) /\ Found(f, {}) /\ Known(f, {}) /\ Len(f.queue) >= Len(d.queue)
       /\ Retirements!Range(f.books.backlog) \subseteq Retirements!Range(d.books.backlog)
   BY <2>1, <2>4, <2>6, RetireRunSane
 <2>8. QED BY <2>2, <2>3, <2>7
<1>3. QED BY <1>1, <1>2

LEMMA FeedRetirementsSane ==
  ASSUME NEW e, NEW k, NEW T, Sane(e, k, T), Found(e, {}), Known(e, {}), NEW f, f = Retirements!FeedRetirements(e)
  PROVE  /\ Sane(f, k, T) /\ Found(f, {}) /\ Known(f, {}) /\ Len(f.queue) >= Len(e.queue)
         /\ f.books.backlog # <<>> => Retirements!Waiting(f)
<1> DEFINE line == e.books.backlog
           Fine(x, n) ==
             /\ Sane(x, k, T) /\ Found(x, {}) /\ Known(x, {}) /\ Len(x.queue) >= Len(e.queue)
             /\ Retirements!Waiting(x) \/ \A s \in Retirements!Range(x.books.backlog) : \E i \in n + 1 .. Len(line) : line[i] = s
<1>0. line \in Seq(Retiring) /\ Len(line) \in Nat /\ Len(e.queue) \in Nat
  BY DEF Sane, Numbers
<1>1. PICK g : Feeds(e, line, Len(line), g) /\ f = g[Len(line)]
  BY <1>0, FedBySteps
<1>a. g[0] = e /\ \A i \in 1 .. Len(line) : g[i] = Retirements!Feed(g[i - 1], line[i])
  BY Zenon, <1>1 DEF Feeds
<1>2. Fine(g[0], 0)
  BY <1>a, <1>0 DEF Retirements!Range
<1>3. ASSUME NEW n \in 1 .. Len(line), Fine(g[n - 1], n - 1) PROVE Fine(g[n], n)
 <2>1. g[n] = Retirements!Feed(g[n - 1], line[n]) /\ line[n] \in Retiring
   BY <1>0, <1>a
 <2>2. /\ Sane(g[n], k, T) /\ Found(g[n], {}) /\ Known(g[n], {}) /\ Len(g[n].queue) >= Len(g[n - 1].queue)
       /\ \/ g[n] = g[n - 1] /\ (Retirements!Waiting(g[n - 1]) \/ Retirements!Range(g[n - 1].books.backlog) = {})
          \/ Retirements!Range(g[n].books.backlog) \subseteq Retirements!Range(g[n - 1].books.backlog) \ {line[n]}
  <3> DEFINE x == g[n - 1]
             y == g[n]
             r == line[n]
  <3>1. Sane(x, k, T) /\ Found(x, {}) /\ Known(x, {})
    BY <1>3
  <3>2. r \in Retiring /\ y = Retirements!Feed(x, r)
    BY <2>1
  <3> HIDE DEF x, y, r
  <3>3. /\ Sane(y, k, T) /\ Found(y, {}) /\ Known(y, {}) /\ Len(y.queue) >= Len(x.queue)
        /\ \/ y = x /\ (Retirements!Waiting(x) \/ Retirements!Range(x.books.backlog) = {})
           \/ Retirements!Range(y.books.backlog) \subseteq Retirements!Range(x.books.backlog) \ {r}
    BY <3>1, <3>2, FeedSane
  <3>4. QED BY <3>3 DEF x, y, r
 <2>3. Len(g[n].queue) \in Nat /\ Len(g[n - 1].queue) \in Nat
   BY <1>3, <2>2 DEF Sane, Numbers
 <2>4. Retirements!Waiting(g[n]) \/ \A s \in Retirements!Range(g[n].books.backlog) : \E i \in n + 1 .. Len(line) : line[i] = s
  <3>1. CASE Retirements!Waiting(g[n - 1])
    BY <2>2, <2>3, <3>1, RetirementAssumption DEF Retirements!Waiting
  <3>2. CASE Retirements!Range(g[n].books.backlog) = {}
    BY <3>2
  <3>3. CASE Retirements!Range(g[n].books.backlog) \subseteq Retirements!Range(g[n - 1].books.backlog) \ {line[n]} /\ ~Retirements!Waiting(g[n - 1])
   <4>1. ASSUME NEW s \in Retirements!Range(g[n].books.backlog) PROVE \E i \in n + 1 .. Len(line) : line[i] = s
     BY <1>3, <3>3, <1>0
   <4>2. QED BY <4>1
  <3>4. QED BY <2>2, <3>1, <3>2, <3>3
 <2>5. QED BY <1>0, <1>3, <2>2, <2>3, <2>4
<1>4. Fine(g[Len(line)], Len(line))
 <2> DEFINE S == {n \in 0 .. Len(line) : ~Fine(g[n], n)}
 <2> HIDE DEF Fine
 <2>1. SUFFICES ASSUME Len(line) \in S PROVE FALSE
   BY <1>0
 <2>2. PICK n \in S : \A m \in S : n <= m
  <3>1. S \subseteq Nat  BY <1>0
  <3>2. QED BY <2>1, <3>1, LeastNumber
 <2>3. n \in 1 .. Len(line) /\ n - 1 \in 0 .. Len(line)
   BY <1>0, <1>2, <2>2
 <2>4. Fine(g[n - 1], n - 1)  BY <2>2, <2>3
 <2>5. QED BY <1>3, <2>2, <2>3, <2>4
<1>5. f.books.backlog # <<>> => Retirements!Range(f.books.backlog) # {}
 <2>1. f.books.backlog \in Seq(Retiring)  BY <1>1, <1>4 DEF Sane, Numbers
 <2>2. ASSUME f.books.backlog # <<>> PROVE f.books.backlog[1] \in Retirements!Range(f.books.backlog)
   BY <2>1, <2>2 DEF Retirements!Range
 <2>3. QED BY <2>2
<1>6. QED BY <1>0, <1>1, <1>4, <1>5

-----------------------------------------------------------------------------
(* The end of a submission. *)
LEMMA DiscardedFound ==
  ASSUME NEW e, Shape(e), e.books.backlog \in Seq(Retiring), Distinct(e.books.backlog), NEW r \in Retiring,
         NEW f, f = Retirements!Discarded(e, r), Found(e, {r}), Known(e, {})
  PROVE  Found(f, {}) /\ Known(f, {}) /\ f.queue = e.queue
<1>1. /\ f.wire = e.wire /\ f.queue = e.queue /\ ~f.run[r].state
      /\ f.books.orphaned = e.books.orphaned \ {r}
      /\ f.books.backlog = Retirements!Without(e.books.backlog, r)
      /\ f.books.retiring = e.books.retiring /\ f.books.closed = e.books.closed
      /\ \A s \in Retiring \ {r} : f.run[s] = e.run[s]
  BY DiscardedIs DEF BooksBut, RunBut
<1>2. Retirements!Range(f.books.backlog) = Retirements!Range(e.books.backlog) \ {r}
  BY <1>1, WithoutIs
<1>3. Found(f, {r} \cup {r}) /\ Known(f, {} \cup {r})
  BY <1>1, <1>2, Elsewhere
<1>4. Found(f, {}) /\ Known(f, {})
  BY <1>1, <1>3 DEF Found, Known, Lost, Retirements!Idle
<1>5. QED BY <1>1, <1>4

(* A run's lease is gone from it. *)
LEMMA DropSane ==
  ASSUME NEW e, NEW k, NEW T, Sane(e, k, T), NEW r \in Retiring, NEW f, f = Retirements!DropLease(e, r),
         e.run[r].lease \in {0} \cup e.leases.returned \cup e.leases.ended
  PROVE  Sane(f, k, T)
<1>0. Numbers(e) /\ Checks(e)
  BY DEF Sane
<1>1. /\ Shape(f) /\ f.books = e.books /\ f.wire = e.wire /\ f.queue = e.queue /\ f.leases = e.leases
      /\ \A s \in Retiring \ {r} : f.run[s] = e.run[s]
      /\ f.run[r].lease = 0 /\ ~f.run[r].renewal
      /\ f.run[r].owners = e.run[r].owners /\ f.run[r].managed = e.run[r].managed
      /\ f.run[r].pending = e.run[r].pending /\ f.run[r].state = e.run[r].state
      /\ f.run[r].reserved = e.run[r].reserved
  BY <1>0, DropIs DEF Numbers, RunBut, RunFields
<1>2. Checks(f)
 <2>1. \A s \in Retiring : /\ f.run[s].managed = e.run[s].managed /\ f.run[s].owners = e.run[s].owners
                      /\ f.run[s].state = e.run[s].state /\ f.run[s].pending = e.run[s].pending
                      /\ (f.run[s].renewal => e.run[s].renewal)
   BY <1>1
 <2>2. \A g \in f.wire.grants : g \in e.wire.grants /\ g.run \in Retiring
   BY <1>0, <1>1 DEF Numbers
 <2>3. QED BY <1>0, <1>1, <2>1, <2>2 DEF Checks
<1>3. /\ f.run[r].reserved \in Nat /\ f.run[r].owners \in Nat
      /\ e.books.backlog \in Seq(Retiring) /\ Distinct(e.books.backlog)
      /\ \A o \in e.wire.renewals : ~(o.run = r /\ o.lease = 0)
  BY <1>0, <1>1 DEF Numbers
<1>4. QED BY <1>1, <1>2, <1>3, RunEdit

LEMMA FinishSane ==
  ASSUME NEW e, Sane(e, 0, {}), Found(e, {}), Known(e, {}), NEW i \in 1 .. Len(e.queue), NEW r, NEW l,
         e.queue[i].kind = "retire", r = e.queue[i].run, l = e.queue[i].lease, NEW sent \in BOOLEAN,
         NEW f, f = Retirements!FinishRetirement(e, r, l, sent)
  PROVE  Sane(f, i, {}) /\ Found(f, {}) /\ Known(f, {}) /\ Len(f.queue) >= Len(e.queue)
<1>0. /\ Numbers(e) /\ HeldOnce(e) /\ Renewing(e) /\ Claimed(e, {}) /\ Ways(e, 0) /\ NothingAsked(e) /\ Checks(e)
      /\ Shape(e) /\ Len(e.queue) \in Nat
  BY DEF Sane, Numbers
<1> DEFINE item == e.queue[i]
<1>1. WayOf(e, item) /\ item \in Items
  BY <1>0 DEF Ways, Numbers
<1>2. /\ r \in Retiring /\ r \in e.books.retiring /\ e.run[r].lease \in {0, l} /\ l \in e.leases.returned
      /\ ~e.run[r].renewal /\ ~\E g \in e.wire.grants : g.run = r
  BY <1>0, <1>1 DEF WayOf, NothingAsked
<1> DEFINE d == [e EXCEPT !.books.retiring = @ \ {r}]
<1>3. /\ Shape(d) /\ d.run = e.run /\ d.wire = e.wire /\ d.queue = e.queue /\ d.leases = e.leases
      /\ d.books.retiring = e.books.retiring \ {r} /\ d.books.orphaned = e.books.orphaned
      /\ d.books.authority = e.books.authority /\ d.books.closed = e.books.closed
      /\ d.books.backlog = e.books.backlog
  BY <1>0 DEF Shape
<1>4. \/ f = d /\ d.books.closed
      \/ f = Retirements!Discarded(d, r) /\ ~d.books.closed
      \/ /\ ~d.books.closed
         /\ \E a : f = Retirements!RetireRun(a, r, FALSE) /\ (a = d \/ a = Retirements!DropLease(d, r))
  BY Zenon DEF Retirements!FinishRetirement, Retirements!RetireOrphanedRun
<1> HIDE DEF d
<1>5. Sane(d, i, {})
 <2>1. Numbers(d)  BY <1>0, <1>3 DEF Numbers
 <2>2. HeldOnce(d) /\ Renewing(d) /\ Claimed(d, {}) /\ NothingAsked(d) /\ Checks(d)
   BY <1>0, <1>3 DEF HeldOnce, Renewing, Claimed, NothingAsked, Checks
 <2>3. Ways(d, i)
  <3>1. ASSUME NEW m \in DOMAIN e.queue \ {i} PROVE WayOf(d, e.queue[m])
    BY <1>0, <1>3 DEF Ways, Numbers, Apart, WayOf
  <3>2. \A m, n \in DOMAIN e.queue \ {i} : m # n => Apart(e.queue[m], e.queue[n])
    BY <1>0 DEF Ways, Numbers
  <3>3. ASSUME NEW s \in Retiring \cap d.books.retiring
        PROVE  \E m \in DOMAIN e.queue \ {i} : e.queue[m].kind = "retire" /\ e.queue[m].run = s
    BY <1>0, <1>3 DEF Ways
  <3>4. QED BY <1>0, <1>3, <3>1, <3>2, <3>3 DEF Ways
 <2>4. QED BY <2>1, <2>2, <2>3 DEF Sane
<1>6. Found(d, {r}) /\ Known(d, {})
 <2>1. Found(d, {} \cup {r})  BY <1>3, Elsewhere
 <2>2. Known(d, {})  BY <1>3 DEF Known
 <2>3. QED BY <2>1, <2>2
<1>7. d.books.backlog \in Seq(Retiring) /\ Distinct(d.books.backlog)
  BY <1>0, <1>3 DEF Numbers
<1>8. CASE f = d /\ d.books.closed
  BY <1>8, <1>0, <1>3, <1>5, <1>6 DEF Found, Lost, Retirements!Idle, Retirements!Evaluated
<1>9. CASE f = Retirements!Discarded(d, r) /\ ~d.books.closed
  BY <1>2, <1>3, <1>5, <1>9, DiscardedSane, <1>6, <1>7, DiscardedFound, <1>0
<1>10. ASSUME NEW a, f = Retirements!RetireRun(a, r, FALSE), a = d \/ a = Retirements!DropLease(d, r)
       PROVE  Sane(f, i, {}) /\ Found(f, {}) /\ Known(f, {}) /\ Len(f.queue) >= Len(e.queue)
 <2>1. Sane(a, i, {}) /\ Found(a, {r}) /\ Known(a, {}) /\ a.queue = e.queue
  <3>1. CASE a = d
    BY <1>3, <1>5, <1>6, <3>1
  <3>2. CASE a = Retirements!DropLease(d, r)
   <4>1. /\ a.books = d.books /\ a.wire = d.wire /\ a.queue = d.queue
         /\ \A s \in Retiring \ {r} : a.run[s] = d.run[s]
         /\ \A x \in RunFields \ {"lease", "renewal"} : a.run[r][x] = d.run[r][x]
     BY <1>2, <1>3, <3>2, DropIs DEF RunBut
   <4>2. Sane(a, i, {})  BY <1>2, <1>3, <1>5, <3>2, DropSane
   <4>3. Found(a, {r} \cup {r})  BY <1>6, <4>1, Elsewhere
   <4>4. /\ a.run[r].state = d.run[r].state /\ a.run[r].owners = d.run[r].owners
         /\ a.run[r].unmanaged = d.run[r].unmanaged /\ a.run[r].pending = d.run[r].pending
     BY <4>1 DEF RunFields
   <4>5. Known(a, {})
    <5>1. \A s \in Retiring : /\ a.run[s].state = d.run[s].state /\ a.run[s].owners = d.run[s].owners
                          /\ a.run[s].unmanaged = d.run[s].unmanaged /\ a.run[s].pending = d.run[s].pending
      BY <4>1, <4>4
    <5>2. QED BY <1>6, <4>1, <5>1 DEF Known
   <4>6. QED BY <1>3, <4>1, <4>2, <4>3, <4>5
  <3>3. QED BY <1>10, <3>1, <3>2
 <2>2. Sane(f, i, {}) /\ Found(f, {}) /\ Known(f, {}) /\ Len(f.queue) >= Len(a.queue)
   BY <1>2, <1>10, <2>1, RetireRunSane
 <2>3. QED BY <2>1, <2>2
<1>11. QED BY <1>4, <1>8, <1>9, <1>10

LEMMA RemovalSane ==
  ASSUME NEW e, NEW i \in 1 .. Len(e.queue), Sane(e, i, {}), Found(e, {}), Known(e, {}),
         NEW f, f = [e EXCEPT !.queue = Retirements!RemoveAt(@, i)]
  PROVE  Sane(f, 0, {}) /\ Found(f, {}) /\ Known(f, {}) /\ f.books = e.books
         /\ f.queue \in Seq(Items) /\ Len(f.queue) = Len(e.queue) - 1
<1>0. /\ Numbers(e) /\ HeldOnce(e) /\ Renewing(e) /\ Claimed(e, {}) /\ Ways(e, i) /\ NothingAsked(e) /\ Checks(e)
      /\ Shape(e) /\ e.queue \in Seq(Items) /\ Len(e.queue) \in Nat
  BY DEF Sane, Numbers
<1>1. /\ Shape(f) /\ f.run = e.run /\ f.wire = e.wire /\ f.books = e.books /\ f.leases = e.leases
      /\ f.queue = Retirements!RemoveAt(e.queue, i)
  BY <1>0 DEF Shape
<1>2. /\ f.queue \in Seq(Items) /\ Len(f.queue) = Len(e.queue) - 1
      /\ \A m \in 1 .. Len(e.queue) - 1 : f.queue[m] = e.queue[IF m < i THEN m ELSE m + 1]
  BY <1>0, <1>1, RemoveAtIs
<1>3. Numbers(f)  BY <1>0, <1>1, <1>2 DEF Numbers
<1>4. HeldOnce(f) /\ Renewing(f) /\ Claimed(f, {}) /\ NothingAsked(f) /\ Checks(f)
  BY <1>0, <1>1 DEF HeldOnce, Renewing, Claimed, NothingAsked, Checks
<1>5. Ways(f, 0)
 <2> DEFINE Of(m) == IF m < i THEN m ELSE m + 1
 <2>1. \A m \in DOMAIN f.queue : Of(m) \in DOMAIN e.queue \ {i} /\ f.queue[m] = e.queue[Of(m)]
   BY <1>0, <1>2
 <2>2. \A m, n \in DOMAIN f.queue : m # n => Of(m) # Of(n)
   BY <1>2
 <2> HIDE DEF Of
 <2>3. \A x : WayOf(e, x) => WayOf(f, x)
   BY <1>1 DEF WayOf
 <2>4. ASSUME NEW s \in Retiring \cap f.books.retiring
       PROVE  \E m \in DOMAIN f.queue \ {0} : f.queue[m].kind = "retire" /\ f.queue[m].run = s
  <3>1. PICK m \in DOMAIN e.queue \ {i} : e.queue[m].kind = "retire" /\ e.queue[m].run = s
    BY <1>0, <1>1 DEF Ways
  <3> DEFINE n == IF m < i THEN m ELSE m - 1
  <3>2. n \in DOMAIN f.queue \ {0} /\ Of(n) = m
    BY <1>0, <1>2, <3>1 DEF Of
  <3>3. QED BY <2>1, <3>1, <3>2
 <2>5. Len(f.queue) \in Nat  BY <1>2
 <2>6. QED BY <1>0, <2>1, <2>2, <2>3, <2>4, <2>5 DEF Ways
<1>6. Found(f, {}) /\ Known(f, {})
  BY <1>1 DEF Found, Known, Lost, Retirements!Idle, Retirements!Evaluated, Retirements!Quiet
<1>7. QED BY <1>1, <1>2, <1>3, <1>4, <1>5, <1>6 DEF Sane

(* What an action has to leave behind. *)
Safe(e) == Sane(e, 0, {}) /\ Found(e, {}) /\ Known(e, {}) /\ (e.books.backlog # <<>> => Len(e.queue) > 0)

LEMMA OutcomeSafe ==
  ASSUME Safe(Retirements!E), NEW i, NEW sent \in BOOLEAN, Retirements!Outcome(i, sent)
  PROVE  \E f : Retirements!Becomes(f) /\ Safe(f)
<1> DEFINE item == Retirements!E.queue[i]
           e == IF item.kind = "retire" THEN Retirements!FinishRetirement(Retirements!E, item.run, item.lease, sent) ELSE Retirements!E
           d == Retirements!FeedRetirements(e)
           f == [d EXCEPT !.queue = Retirements!RemoveAt(@, i)]
<1>0. Retirements!E.queue = queue /\ Sane(Retirements!E, 0, {}) /\ Found(Retirements!E, {}) /\ Known(Retirements!E, {})
  BY DEF Retirements!E, Safe
<1>1. i \in 1 .. Len(Retirements!E.queue) /\ Retirements!Becomes(f)
  BY <1>0 DEF Retirements!Outcome
<1>2. Len(Retirements!E.queue) \in Nat  BY <1>0 DEF Sane, Numbers
<1>3. Sane(e, i, {}) /\ Found(e, {}) /\ Known(e, {}) /\ Len(e.queue) >= Len(Retirements!E.queue)
 <2>1. CASE item.kind = "retire"
   BY <2>1, <1>0, <1>1, FinishSane
 <2>2. CASE item.kind # "retire"
  <3>1. Ways(Retirements!E, i)
   <4>1. Ways(Retirements!E, 0) /\ Retirements!E.queue \in Seq(Items)
     BY <1>0 DEF Sane, Numbers
   <4>2. ASSUME NEW s \in Retiring \cap Retirements!E.books.retiring
         PROVE  \E m \in DOMAIN Retirements!E.queue \ {i} : Retirements!E.queue[m].kind = "retire" /\ Retirements!E.queue[m].run = s
     BY <4>1, <2>2 DEF Ways
   <4>3. DOMAIN Retirements!E.queue \ {i} \subseteq DOMAIN Retirements!E.queue \ {0} /\ i \in 0 .. Len(Retirements!E.queue)
     BY <1>1, <4>1
   <4>4. QED BY <4>1, <4>2, <4>3 DEF Ways
  <3>2. Sane(Retirements!E, i, {})  BY <1>0, <3>1 DEF Sane
  <3>3. QED BY <1>0, <1>2, <2>2, <3>2
 <2>3. QED BY <2>1, <2>2
<1> HIDE DEF e
<1>4. Sane(d, i, {}) /\ Found(d, {}) /\ Known(d, {}) /\ Len(d.queue) >= Len(e.queue)
      /\ (d.books.backlog # <<>> => Retirements!Waiting(d))
  BY <1>3, FeedRetirementsSane
<1> HIDE DEF d
<1>5. Len(d.queue) \in Nat /\ Len(e.queue) \in Nat
  BY <1>3, <1>4 DEF Sane, Numbers
<1>6. i \in 1 .. Len(d.queue)  BY <1>1, <1>2, <1>3, <1>4, <1>5
<1>7. Sane(f, 0, {}) /\ Found(f, {}) /\ Known(f, {}) /\ f.books = d.books /\ Len(f.queue) = Len(d.queue) - 1
  BY <1>4, <1>6, RemovalSane
<1>8. d.books.backlog # <<>> => Len(d.queue) > 1
  BY <1>4, <1>5, RetirementAssumption DEF Retirements!Waiting
<1> HIDE DEF f
<1>9. Safe(f)  BY <1>5, <1>7, <1>8 DEF Safe
<1>10. QED BY <1>1, <1>9

-----------------------------------------------------------------------------
(* Looks at a run. *)
Due(e, r, T) ==
  Sane(e, 0, T) /\ Found(e, {r}) /\ Known(e, {}) /\ (e.books.backlog # <<>> => Len(e.queue) > 0)

LEMMA EIs == Retirements!E.run = run /\ Retirements!E.books = books /\ Retirements!E.wire = wire /\ Retirements!E.queue = queue /\ Retirements!E.leases = leases
BY DEF Retirements!E

LEMMA LooksAgain ==
  ASSUME NEW e, NEW r \in Retiring, Due(e, r, {}), NEW f, f = Retirements!RetireOrphanedRun(e, r)
  PROVE  Safe(f)
BY RetireRunSane DEF Due, Safe, Retirements!RetireOrphanedRun

LEMMA SafeIsDue ==
  ASSUME NEW e, NEW r, Safe(e)
  PROVE  Due(e, r, {})
BY DEF Safe, Due, Found

LEMMA HeldIsSafe ==
  ASSUME NEW e, NEW r, Due(e, r, {}), ~Lost(e, r)
  PROVE  Safe(e)
BY DEF Safe, Due, Found

LEMMA ClaimEnds ==
  ASSUME NEW e, NEW r, Due(e, r, {r}), ~e.run[r].renewal
  PROVE  Due(e, r, {})
<1>1. Claimed(e, {})  BY DEF Due, Sane, Claimed
<1>2. QED BY <1>1 DEF Due, Sane

LEMMA LateDue ==
  ASSUME NEW e, NEW r, NEW T, Due(e, r, T)
  PROVE  Due(Retirements!SurrenderLate(e), r, T)
<1> DEFINE f == Retirements!SurrenderLate(e)
<1>1. Shape(e) /\ Len(e.queue) \in Nat /\ e.queue \in Seq(Items) /\ Sane(e, 0, T)
  BY DEF Due, Sane, Numbers
<1>2. /\ f.run = e.run /\ f.books = e.books /\ f.wire = e.wire
      /\ f.queue = Append(e.queue, [kind |-> "late", run |-> NoRun, lease |-> e.leases.issued + 1])
  BY <1>1, LateIs
<1>3. Sane(f, 0, T)  BY <1>1, LateSane
<1> HIDE DEF f
<1>4. Found(f, {r}) /\ Known(f, {})
  BY <1>2 DEF Due, Found, Known, Lost, Retirements!Idle, Retirements!Evaluated, Retirements!Quiet
<1>5. Len(f.queue) = Len(e.queue) + 1  BY <1>1, <1>2
<1>6. QED BY <1>1, <1>3, <1>4, <1>5 DEF Due, f

LEMMA LeftDue ==
  ASSUME NEW e, NEW r, NEW T, Due(e, r, T)
  PROVE  Due(Retirements!LeftToExpire(e), r, T)
<1> DEFINE f == Retirements!LeftToExpire(e)
<1>1. Shape(e) /\ Sane(e, 0, T)
  BY DEF Due, Sane, Numbers
<1>2. f.run = e.run /\ f.books = e.books /\ f.wire = e.wire /\ f.queue = e.queue
  BY <1>1, LeftIs
<1>3. Sane(f, 0, T)  BY <1>1, LeftSane
<1> HIDE DEF f
<1>4. Found(f, {r}) /\ Known(f, {})
  BY <1>2 DEF Due, Found, Known, Lost, Retirements!Idle, Retirements!Evaluated, Retirements!Quiet
<1>5. QED BY <1>2, <1>3, <1>4 DEF Due, f

(* The server ended the run's lease. *)
LEMMA EndedDue ==
  ASSUME NEW e, NEW r \in Retiring, NEW T, Due(e, r, T)
  PROVE  Due(Retirements!Ended(e, r), r, T) /\ ~Retirements!Ended(e, r).run[r].renewal
<1> DEFINE f == Retirements!Ended(e, r)
<1>0. Numbers(e) /\ Checks(e) /\ Shape(e) /\ Sane(e, 0, T)
  BY DEF Due, Sane, Numbers
<1>1. /\ Shape(f) /\ f.books = e.books /\ f.wire = e.wire /\ f.queue = e.queue
      /\ \A s \in Retiring \ {r} : f.run[s] = e.run[s]
      /\ f.run[r].lease = 0 /\ ~f.run[r].renewal
      /\ \A a \in RunFields \ {"lease", "renewal"} : f.run[r][a] = e.run[r][a]
      /\ f.leases.ended = e.leases.ended \union ({e.run[r].lease} \ {0})
      /\ f.leases.issued = e.leases.issued /\ f.leases.returned = e.leases.returned /\ f.leases.left = e.leases.left
  BY <1>0, EndedIs DEF RunBut, LeasesBut
<1> HIDE DEF f
<1>2. /\ f.run[r].owners = e.run[r].owners /\ f.run[r].managed = e.run[r].managed
      /\ f.run[r].pending = e.run[r].pending /\ f.run[r].state = e.run[r].state
      /\ f.run[r].reserved = e.run[r].reserved /\ f.run[r].unmanaged = e.run[r].unmanaged
  BY <1>1 DEF RunFields
<1>3. Checks(f)
 <2>1. \A s \in Retiring : /\ f.run[s].managed = e.run[s].managed /\ f.run[s].owners = e.run[s].owners
                      /\ f.run[s].pending = e.run[s].pending /\ (e.run[s].state => f.run[s].state)
                      /\ (f.run[s].state => e.run[s].state)
                      /\ (f.run[s].renewal => e.run[s].renewal)
   BY <1>1, <1>2
 <2>2. QED BY <1>0, <1>1, <2>1, ChecksStay
<1>4. /\ f.run[r].reserved \in Nat /\ f.run[r].owners \in Nat
      /\ e.books.backlog \in Seq(Retiring) /\ Distinct(e.books.backlog)
      /\ \A o \in e.wire.renewals : ~(o.run = r /\ o.lease = 0)
      /\ e.run[r].lease \in {0} \cup f.leases.ended \cup f.leases.returned
  BY <1>0, <1>1, <1>2 DEF Numbers
<1>5. Sane(f, 0, T)  BY <1>0, <1>1, <1>3, <1>4, RunEdit
<1>6. Found(f, {r} \cup {r})  BY <1>1, Elsewhere DEF Due
<1>7. Known(f, {})  BY <1>1, <1>2 DEF Due, Known
<1>8. QED BY <1>1, <1>5, <1>6, <1>7 DEF Due, f

LEMMA InstalledDue ==
  ASSUME NEW e, NEW r \in Retiring, NEW T, Due(e, r, T), r \notin e.books.retiring, ~e.books.closed, e.run[r].state
  PROVE  Due(Retirements!Installed(e, r), r, T) /\ ~Retirements!Installed(e, r).run[r].renewal
         /\ Retirements!Installed(e, r).books = e.books /\ Retirements!Installed(e, r).run[r].state
<1> DEFINE f == Retirements!Installed(e, r)
<1>0. Shape(e) /\ Sane(e, 0, T)
  BY DEF Due, Sane, Numbers
<1>1. /\ Shape(f) /\ f.books = e.books /\ f.wire = e.wire /\ f.queue = e.queue
      /\ \A s \in Retiring \ {r} : f.run[s] = e.run[s]
      /\ \A a \in RunFields \ {"lease", "renewal", "state"} : f.run[r][a] = e.run[r][a]
      /\ ~f.run[r].renewal /\ f.run[r].state
  BY <1>0, InstalledIs DEF RunBut
<1>2. Sane(f, 0, T)  BY <1>0, InstalledSane
<1> HIDE DEF f
<1>3. /\ f.run[r].owners = e.run[r].owners /\ f.run[r].unmanaged = e.run[r].unmanaged
      /\ f.run[r].pending = e.run[r].pending
  BY <1>1 DEF RunFields
<1>4. Found(f, {r} \cup {r})  BY <1>1, Elsewhere DEF Due
<1>5. Known(f, {})  BY <1>1, <1>3 DEF Due, Known
<1>6. QED BY <1>1, <1>2, <1>4, <1>5 DEF Due, f

(* A step of one run that leaves its lease and its claim. *)
Edit(e, f, r) ==
  /\ Shape(f) /\ f.wire = e.wire /\ f.queue = e.queue /\ f.leases = e.leases
  /\ f.books.retiring = e.books.retiring /\ f.books.authority = e.books.authority
  /\ f.books.closed = e.books.closed /\ f.books.backlog = e.books.backlog
  /\ f.books.orphaned \ {r} = e.books.orphaned \ {r}
  /\ \A s \in Retiring \ {r} : f.run[s] = e.run[s]
  /\ f.run[r].lease = e.run[r].lease /\ f.run[r].renewal = e.run[r].renewal

LEMMA EditDue ==
  ASSUME NEW e, NEW r \in Retiring, NEW T, Due(e, r, T), NEW f, Edit(e, f, r),
         f.run[r].reserved \in Nat, f.run[r].owners \in Nat,
         e.run[r].state => f.run[r].state,
         e.books.closed => ~f.run[r].state /\ f.books.orphaned = {},
         ~e.books.closed /\ f.run[r].managed => f.run[r].owners > 0,
         \A g \in e.wire.grants :
           g.run = r => (g.managed /\ f.run[r].managed) \/ (~g.managed /\ f.run[r].pending) \/ e.books.closed,
         ~e.books.closed /\ f.run[r].state /\ f.run[r].owners = 0 /\ ~f.run[r].unmanaged /\ ~f.run[r].pending
           => r \in f.books.orphaned
  PROVE  Due(f, r, T)
<1>0. Numbers(e) /\ Checks(e) /\ Sane(e, 0, T) /\ HeldOnce(e) /\ Renewing(e)
  BY DEF Due, Sane
<1>1. Checks(f)
 <2>1. ASSUME ~e.books.closed, NEW g \in e.wire.grants
       PROVE  f.run[g.run].state /\ ((g.managed /\ f.run[g.run].managed) \/ (~g.managed /\ f.run[g.run].pending))
  <3>1. g.run \in Retiring /\ e.run[g.run].state /\ ((g.managed /\ e.run[g.run].managed) \/ (~g.managed /\ e.run[g.run].pending))
    BY <1>0, <2>1 DEF Numbers, Checks
  <3>2. CASE g.run = r
    BY <2>1, <3>1, <3>2
  <3>3. CASE g.run # r
    BY <3>1, <3>3 DEF Edit
  <3>4. QED BY <3>2, <3>3
 <2>2. ~e.books.closed => \A s \in Retiring : f.run[s].managed => f.run[s].owners > 0
   BY <1>0 DEF Checks, Edit
 <2>3. ASSUME e.books.closed, NEW s \in Retiring PROVE ~f.run[s].state /\ ~f.run[s].renewal
   BY <1>0, <2>3 DEF Checks, Edit
 <2>4. QED BY <1>0, <2>1, <2>2, <2>3 DEF Checks, Edit
<1>2. /\ \A o \in e.wire.renewals : o.run = r /\ o.lease = f.run[r].lease => f.run[r].renewal
      /\ f.run[r].lease # 0 => f.run[r].state
      /\ f.books.backlog \in Seq(Retiring) /\ Distinct(f.books.backlog)
  BY <1>0 DEF Renewing, HeldOnce, Numbers, Edit
<1>3. Sane(f, 0, T)
  BY <1>0, <1>1, <1>2, RunEdit DEF Edit
<1>4. Found(f, {r} \cup {r}) /\ Known(f, {} \cup {r})
  BY Elsewhere DEF Due, Edit
<1>5. Known(f, {})  BY <1>4 DEF Known, Edit
<1>6. QED BY <1>3, <1>4, <1>5 DEF Due, Edit

-----------------------------------------------------------------------------
(* What is under way. *)
LEMMA AskedSafe ==
  ASSUME NEW e, Safe(e), NEW r \in Retiring, NEW g, g.run = r, r \notin e.books.retiring, ~e.books.closed,
         e.run[r].state, (g.managed /\ e.run[r].managed) \/ (~g.managed /\ e.run[r].pending),
         NEW f, f = [e EXCEPT !.wire.grants = @ \union {g}]
  PROVE  Safe(f)
<1>0. /\ Numbers(e) /\ HeldOnce(e) /\ Renewing(e) /\ Claimed(e, {}) /\ Ways(e, 0) /\ NothingAsked(e) /\ Checks(e)
      /\ Shape(e) /\ Found(e, {}) /\ Known(e, {})
  BY DEF Safe, Sane, Numbers
<1>1. /\ Shape(f) /\ f.run = e.run /\ f.books = e.books /\ f.queue = e.queue /\ f.leases = e.leases
      /\ f.wire.renewals = e.wire.renewals /\ f.wire.grants = e.wire.grants \union {g}
  BY <1>0 DEF Shape
<1>2. Numbers(f)  BY <1>0, <1>1 DEF Numbers
<1>c. HeldOnce(f) /\ Renewing(f) /\ Claimed(f, {})
 <2>1. HeldOnce(f)  BY <1>0, <1>1 DEF HeldOnce
 <2>2. Renewing(f)  BY <1>0, <1>1 DEF Renewing
 <2>3. Claimed(f, {})  BY <1>0, <1>1 DEF Claimed
 <2>4. QED BY <2>1, <2>2, <2>3
<1>d. NothingAsked(f)
  BY <1>0, <1>1 DEF NothingAsked
<1>a. HeldOnce(f) /\ Renewing(f) /\ Claimed(f, {}) /\ NothingAsked(f)
  BY <1>c, <1>d
<1>b. Checks(f)
 <2>1. ASSUME NEW h \in f.wire.grants
       PROVE  f.run[h.run].state /\ ((h.managed /\ f.run[h.run].managed) \/ (~h.managed /\ f.run[h.run].pending))
   BY <1>0, <1>1, <2>1 DEF Checks
 <2>2. ~f.books.closed /\ \A s \in Retiring : f.run[s].managed => f.run[s].owners > 0
   BY <1>0, <1>1 DEF Checks
 <2>3. QED BY <2>1, <2>2 DEF Checks
<1>3. HeldOnce(f) /\ Renewing(f) /\ Claimed(f, {}) /\ NothingAsked(f) /\ Checks(f)
  BY <1>a, <1>b
<1>4. Ways(f, 0)  BY <1>0, <1>1 DEF Ways, WayOf
<1>5. Found(f, {}) /\ Known(f, {})
  BY <1>0, <1>1 DEF Found, Known, Lost, Retirements!Idle, Retirements!Evaluated, Retirements!Quiet
<1>6. QED BY <1>1, <1>2, <1>3, <1>4, <1>5 DEF Safe, Sane

LEMMA GrantOverDue ==
  ASSUME Safe(Retirements!E), NEW g \in wire.grants
  PROVE  Due(Retirements!GrantOver(g), g.run, {}) /\ g.run \in Retiring /\ Retirements!GrantOver(g).books = books
         /\ Retirements!GrantOver(g).run = run /\ Retirements!GrantOver(g).leases = leases
         /\ g.run \notin books.retiring /\ (~books.closed => run[g.run].state)
<1> DEFINE e == Retirements!E
           f == Retirements!GrantOver(g)
<1>0. /\ Numbers(e) /\ HeldOnce(e) /\ Renewing(e) /\ Claimed(e, {}) /\ Ways(e, 0) /\ NothingAsked(e) /\ Checks(e)
      /\ Shape(e) /\ Found(e, {}) /\ Known(e, {})
  BY DEF Safe, Sane, Numbers
<1>a. e.run = run /\ e.books = books /\ e.wire = wire
  BY EIs
<1>b. f = [e EXCEPT !.wire.grants = @ \ {g}]  BY Zenon DEF Retirements!GrantOver
<1> HIDE DEF e, f
<1>1. /\ Shape(f) /\ f.run = e.run /\ f.books = e.books /\ f.queue = e.queue /\ f.leases = e.leases
      /\ f.wire.renewals = e.wire.renewals /\ f.wire.grants = e.wire.grants \ {g}
  BY <1>0, <1>b DEF Shape
<1>2. Numbers(f)  BY <1>0, <1>1 DEF Numbers
<1>3. HeldOnce(f) /\ Renewing(f) /\ Claimed(f, {}) /\ NothingAsked(f) /\ Checks(f)
  BY <1>0, <1>1 DEF HeldOnce, Renewing, Claimed, NothingAsked, Checks
<1>4. Ways(f, 0)  BY <1>0, <1>1 DEF Ways, WayOf
<1>5. Found(f, {} \cup {g.run}) /\ Known(f, {})
  BY <1>0, <1>1, Elsewhere DEF Known
<1>6. g.run \in Retiring /\ g.run \notin books.retiring /\ (~books.closed => run[g.run].state)
  BY <1>0, <1>a DEF Numbers, NothingAsked, Checks
<1>7. e.books.backlog # <<>> => Len(e.queue) > 0  BY DEF Safe, e
<1>8. e.leases = leases  BY EIs DEF e
<1>9. QED BY <1>a, <1>1, <1>2, <1>3, <1>4, <1>5, <1>6, <1>7, <1>8 DEF Due, Sane, f

LEMMA RenewalOverDue ==
  ASSUME Safe(Retirements!E), NEW o \in wire.renewals
  PROVE  /\ Due(Retirements!RenewalOver(o), o.run, {o.run}) /\ o.run \in Retiring
         /\ Retirements!RenewalOver(o).books = books /\ Retirements!RenewalOver(o).run = run
         /\ Retirements!RenewalOver(o).leases = leases /\ Retirements!RenewalOver(o).queue = queue
         /\ \A p \in Retirements!RenewalOver(o).wire.renewals : ~(p.run = o.run /\ p.lease = o.lease)
         /\ Retirements!Current(o) => /\ o.run \notin books.retiring /\ o.authority = books.authority
                          /\ run[o.run].renewal /\ run[o.run].state /\ o.lease \in 1 .. leases.issued
         /\ ~Retirements!Current(o) => Due(Retirements!RenewalOver(o), o.run, {})
<1> DEFINE e == Retirements!E
           f == Retirements!RenewalOver(o)
<1>0. /\ Numbers(e) /\ HeldOnce(e) /\ Renewing(e) /\ Claimed(e, {}) /\ Ways(e, 0) /\ NothingAsked(e) /\ Checks(e)
      /\ Shape(e) /\ Found(e, {}) /\ Known(e, {}) /\ (e.books.backlog # <<>> => Len(e.queue) > 0)
  BY DEF Safe, Sane, Numbers
<1>a. e.run = run /\ e.books = books /\ e.wire = wire /\ e.leases = leases /\ e.queue = queue
  BY EIs
<1>b. f = [e EXCEPT !.wire.renewals = @ \ {o}]  BY Zenon DEF Retirements!RenewalOver
<1> HIDE DEF e, f
<1>1. /\ Shape(f) /\ f.run = e.run /\ f.books = e.books /\ f.queue = e.queue /\ f.leases = e.leases
      /\ f.wire.grants = e.wire.grants /\ f.wire.renewals = e.wire.renewals \ {o}
  BY <1>0, <1>b DEF Shape
<1>2. Numbers(f) /\ o.run \in Retiring
  BY <1>0, <1>1, <1>a DEF Numbers
<1>3. HeldOnce(f) /\ Renewing(f) /\ NothingAsked(f) /\ Checks(f)
  BY <1>0, <1>1 DEF HeldOnce, Renewing, NothingAsked, Checks
<1>c. Claimed(f, {o.run})  BY <1>0, <1>1 DEF Claimed
<1>4. Ways(f, 0)  BY <1>0, <1>1 DEF Ways, WayOf
<1>5. Found(f, {} \cup {o.run}) /\ Known(f, {})
  BY <1>0, <1>1, Elsewhere DEF Known
<1>6. Due(f, o.run, {o.run})  BY <1>0, <1>1, <1>2, <1>3, <1>c, <1>4, <1>5 DEF Due, Sane
<1>7. \A p \in f.wire.renewals : ~(p.run = o.run /\ p.lease = o.lease)
  BY <1>0, <1>1, <1>a DEF Renewing
<1>8. ASSUME Retirements!Current(o)
      PROVE  /\ o.run \notin books.retiring /\ o.authority = books.authority
             /\ run[o.run].renewal /\ run[o.run].state /\ o.lease \in 1 .. leases.issued
  BY <1>0, <1>a, <1>8, <1>2 DEF Retirements!Current, Numbers, Renewing, HeldOnce, NothingAsked
<1>9. ASSUME ~Retirements!Current(o) PROVE Due(f, o.run, {})
  BY <1>0, <1>2, <1>9, <1>a, <1>1, <1>6 DEF Retirements!Current, Checks, Claimed, Due, Sane
<1>10. QED BY <1>a, <1>1, <1>2, <1>6, <1>7, <1>8, <1>9 DEF f

(* A claim ends, and no renewal of its lease is left. *)
LEMMA UnclaimedDue ==
  ASSUME NEW e, NEW r \in Retiring, Due(e, r, {r}), \A p \in e.wire.renewals : ~(p.run = r /\ p.lease = e.run[r].lease),
         NEW f, f = [e EXCEPT !.run[r].renewal = FALSE]
  PROVE  Due(f, r, {})
<1>0. Numbers(e) /\ Checks(e) /\ Shape(e) /\ Sane(e, 0, {r}) /\ HeldOnce(e)
  BY DEF Due, Sane, Numbers
<1>1. /\ Shape(f) /\ f.books = e.books /\ f.wire = e.wire /\ f.queue = e.queue /\ f.leases = e.leases
      /\ \A s \in Retiring \ {r} : f.run[s] = e.run[s]
      /\ ~f.run[r].renewal
      /\ \A a \in RunFields \ {"renewal"} : f.run[r][a] = e.run[r][a]
  BY <1>0 DEF Shape, RunFields
<1>2. /\ f.run[r].owners = e.run[r].owners /\ f.run[r].managed = e.run[r].managed
      /\ f.run[r].pending = e.run[r].pending /\ f.run[r].state = e.run[r].state
      /\ f.run[r].reserved = e.run[r].reserved /\ f.run[r].unmanaged = e.run[r].unmanaged
      /\ f.run[r].lease = e.run[r].lease
  BY <1>1 DEF RunFields
<1>3. Checks(f)
 <2>1. \A s \in Retiring : /\ f.run[s].managed = e.run[s].managed /\ f.run[s].owners = e.run[s].owners
                      /\ f.run[s].pending = e.run[s].pending /\ (e.run[s].state => f.run[s].state)
                      /\ (f.run[s].state => e.run[s].state)
                      /\ (f.run[s].renewal => e.run[s].renewal)
   BY <1>1, <1>2
 <2>2. QED BY <1>0, <1>1, <2>1, ChecksStay
<1>4. /\ f.run[r].reserved \in Nat /\ f.run[r].owners \in Nat
      /\ e.books.backlog \in Seq(Retiring) /\ Distinct(e.books.backlog)
      /\ f.run[r].lease # 0 => f.run[r].state
  BY <1>0, <1>1, <1>2 DEF Numbers, HeldOnce
<1>a. /\ ~f.run[r].renewal
      /\ \A p \in e.wire.renewals : ~(p.run = r /\ p.lease = f.run[r].lease)
      /\ f.run[r].lease = e.run[r].lease
  BY <1>1, <1>2
<1>5. Sane(f, 0, {r})
  BY <1>0, <1>1, <1>4, <1>3, <1>a, RunEdit
<1>6. Found(f, {r} \cup {r})  BY <1>1, Elsewhere DEF Due
<1>7. Known(f, {})  BY <1>1, <1>2 DEF Due, Known
<1>8. QED BY <1>1, <1>5, <1>6, <1>7, ClaimEnds DEF Due

-----------------------------------------------------------------------------
(* The actions. *)
LEMMA SafeIs ==
  ASSUME NEW e, Safe(e)
  PROVE  /\ Numbers(e) /\ HeldOnce(e) /\ Renewing(e) /\ Claimed(e, {}) /\ Ways(e, 0) /\ NothingAsked(e) /\ Checks(e)
         /\ Shape(e) /\ Found(e, {}) /\ Known(e, {}) /\ (e.books.backlog # <<>> => Len(e.queue) > 0)
         /\ Len(e.queue) \in Nat
         /\ \A r \in Retiring : Due(e, r, {}) /\ e.run[r].owners \in Nat /\ e.run[r].reserved \in Nat
BY SafeIsDue DEF Safe, Sane, Numbers

LEMMA ObserveRunSafe ==
  ASSUME Safe(Retirements!E), NEW r \in Retiring, Retirements!ObserveRun(r)
  PROVE  \E f : Retirements!Becomes(f) /\ Safe(f)
<1> DEFINE f == [Retirements!E EXCEPT !.run[r].owners = @ + 1, !.run[r].observed = @ + 1]
<1>1. Retirements!Becomes(f) /\ ~Retirements!E.books.closed
  BY EIs DEF Retirements!ObserveRun
<1>2. /\ Edit(Retirements!E, f, r) /\ f.books = Retirements!E.books
      /\ \A a \in RunFields \ {"owners", "observed"} : f.run[r][a] = Retirements!E.run[r][a]
      /\ f.run[r].owners = Retirements!E.run[r].owners + 1
  BY SafeIs DEF Edit, Shape, RunFields
<1> HIDE DEF f
<1>3. /\ f.run[r].reserved = Retirements!E.run[r].reserved /\ f.run[r].state = Retirements!E.run[r].state
      /\ f.run[r].managed = Retirements!E.run[r].managed /\ f.run[r].pending = Retirements!E.run[r].pending
      /\ f.run[r].owners \in Nat /\ f.run[r].owners > 0
  BY <1>2, SafeIs DEF RunFields
<1>4. \A g \in Retirements!E.wire.grants :
        g.run = r => (g.managed /\ f.run[r].managed) \/ (~g.managed /\ f.run[r].pending)
  BY <1>1, <1>3, SafeIs DEF Checks
<1>5. Due(f, r, {})  BY <1>1, <1>2, <1>3, <1>4, SafeIs, EditDue
<1>6. ~Lost(f, r)  BY <1>3 DEF Lost, Retirements!Idle, Retirements!Evaluated
<1>7. QED BY <1>1, <1>5, <1>6, HeldIsSafe

LEMMA StartManagedSafe ==
  ASSUME Safe(Retirements!E), NEW r \in Retiring, Retirements!StartManaged(r)
  PROVE  \E f : Retirements!Becomes(f) /\ Safe(f)
<1> DEFINE f == [Retirements!E EXCEPT !.run[r].managed = TRUE]
<1>1. Retirements!Becomes(f) /\ Retirements!E.run[r].owners > 0
  BY EIs DEF Retirements!StartManaged
<1>2. /\ Edit(Retirements!E, f, r) /\ f.books = Retirements!E.books
      /\ \A a \in RunFields \ {"managed"} : f.run[r][a] = Retirements!E.run[r][a]
      /\ f.run[r].managed
  BY SafeIs DEF Edit, Shape, RunFields
<1> HIDE DEF f
<1>3. /\ f.run[r].reserved = Retirements!E.run[r].reserved /\ f.run[r].state = Retirements!E.run[r].state
      /\ f.run[r].owners = Retirements!E.run[r].owners /\ f.run[r].pending = Retirements!E.run[r].pending
      /\ f.run[r].owners \in Nat /\ f.run[r].owners > 0
  BY <1>1, <1>2, SafeIs DEF RunFields
<1>4. \A g \in Retirements!E.wire.grants :
        g.run = r => (g.managed /\ f.run[r].managed) \/ (~g.managed /\ f.run[r].pending) \/ Retirements!E.books.closed
  BY <1>2, <1>3, SafeIs DEF Checks
<1>a. Retirements!E.books.closed => ~f.run[r].state /\ f.books.orphaned = {}
  BY <1>2, <1>3, SafeIs DEF Checks
<1>5. Due(f, r, {})  BY <1>2, <1>3, <1>4, <1>a, SafeIs, EditDue
<1>6. ~Lost(f, r)  BY <1>3 DEF Lost, Retirements!Idle, Retirements!Evaluated
<1>7. QED BY <1>1, <1>5, <1>6, HeldIsSafe

(* A run that a custom reader names has no owner that could hold it. *)
LEMMA PreservedSafe ==
  ASSUME Safe(Retirements!E), NEW r \in Retiring, NEW b \in BOOLEAN,
         NEW f, f = [Retirements!Preserved(Retirements!E, r) EXCEPT !.run[r].pending = b],
         ~b => ~\E g \in Retirements!E.wire.grants : g.run = r /\ ~g.managed
  PROVE  Safe(f)
<1> DEFINE d == Retirements!Preserved(Retirements!E, r)
<1>0. d = [Retirements!E EXCEPT !.run[r].unmanaged = IF Retirements!E.run[r].state THEN TRUE ELSE @, !.books.orphaned = @ \ {r}]
  BY Zenon DEF Retirements!Preserved
<1>1. /\ Shape(d) /\ d.wire = Retirements!E.wire /\ d.queue = Retirements!E.queue /\ d.leases = Retirements!E.leases
      /\ d.books.retiring = Retirements!E.books.retiring /\ d.books.authority = Retirements!E.books.authority
      /\ d.books.closed = Retirements!E.books.closed /\ d.books.backlog = Retirements!E.books.backlog
      /\ d.books.orphaned = Retirements!E.books.orphaned \ {r}
      /\ \A s \in Retiring \ {r} : d.run[s] = Retirements!E.run[s]
      /\ \A a \in RunFields \ {"unmanaged"} : d.run[r][a] = Retirements!E.run[r][a]
      /\ (Retirements!E.run[r].state => d.run[r].unmanaged)
  BY <1>0, SafeIs DEF Shape, RunFields
<1>2. f = [d EXCEPT !.run[r].pending = b]  BY Zenon
<1> HIDE DEF d
<1>3. /\ Shape(f) /\ f.wire = d.wire /\ f.queue = d.queue /\ f.leases = d.leases /\ f.books = d.books
      /\ \A s \in Retiring \ {r} : f.run[s] = d.run[s]
      /\ \A a \in RunFields \ {"pending"} : f.run[r][a] = d.run[r][a]
      /\ f.run[r].pending = b
  BY <1>1, <1>2 DEF Shape, RunFields
<1>4. /\ f.run[r].reserved = Retirements!E.run[r].reserved /\ f.run[r].state = Retirements!E.run[r].state
      /\ f.run[r].owners = Retirements!E.run[r].owners /\ f.run[r].managed = Retirements!E.run[r].managed
      /\ f.run[r].lease = Retirements!E.run[r].lease /\ f.run[r].renewal = Retirements!E.run[r].renewal
      /\ f.run[r].unmanaged = d.run[r].unmanaged
 <2>1. {"reserved", "state", "owners", "managed", "lease", "renewal"} \subseteq RunFields \ {"unmanaged", "pending"}
   BY DEF RunFields
 <2>2. \A a \in {"reserved", "state", "owners", "managed", "lease", "renewal"} : f.run[r][a] = Retirements!E.run[r][a]
   BY <1>1, <1>3, <2>1
 <2>3. f.run[r].unmanaged = d.run[r].unmanaged  BY <1>3 DEF RunFields
 <2>4. QED BY <2>2, <2>3
<1>5. Edit(Retirements!E, f, r)  BY <1>1, <1>3, <1>4 DEF Edit
<1>6. \A g \in Retirements!E.wire.grants :
        g.run = r => (g.managed /\ f.run[r].managed) \/ (~g.managed /\ f.run[r].pending) \/ Retirements!E.books.closed
  BY <1>3, <1>4, SafeIs DEF Checks
<1>7. Retirements!E.books.closed => ~f.run[r].state /\ f.books.orphaned = {}
  BY <1>1, <1>3, <1>4, SafeIs DEF Checks
<1>8. ~Retirements!E.books.closed /\ f.run[r].managed => f.run[r].owners > 0
  BY <1>4, SafeIs DEF Checks
<1>9. f.run[r].state => f.run[r].unmanaged  BY <1>1, <1>4
<1>10. Due(f, r, {})
  BY <1>4, SafeIs, <1>9, <1>5, <1>6, <1>7, <1>8, EditDue
<1>11. ~Lost(f, r)  BY <1>1, <1>3 DEF Lost, Retirements!Idle, Retirements!Evaluated
<1>12. QED BY <1>10, <1>11, HeldIsSafe

LEMMA UnmanagedSafe ==
  ASSUME Safe(Retirements!E), NEW r \in Retiring, Retirements!StartUnmanaged(r) \/ Retirements!EndUnmanaged(r)
  PROVE  \E f : Retirements!Becomes(f) /\ Safe(f)
<1>1. CASE Retirements!StartUnmanaged(r)
  BY <1>1, PreservedSafe DEF Retirements!StartUnmanaged
<1>2. CASE Retirements!EndUnmanaged(r)
  BY <1>2, EIs, PreservedSafe DEF Retirements!EndUnmanaged
<1>3. QED BY <1>1, <1>2

LEMMA EndManagedSafe ==
  ASSUME Safe(Retirements!E), NEW r \in Retiring, Retirements!EndManaged(r)
  PROVE  \E f : Retirements!Becomes(f) /\ Safe(f)
<1> DEFINE f == [Retirements!E EXCEPT !.run[r].managed = FALSE]
<1>1. Retirements!Becomes(f) /\ Retirements!E.run[r].managed /\ ~\E g \in Retirements!E.wire.grants : g.run = r /\ g.managed
  BY EIs DEF Retirements!EndManaged
<1>2. /\ Edit(Retirements!E, f, r) /\ f.books = Retirements!E.books /\ f.wire = Retirements!E.wire
      /\ \A a \in RunFields \ {"managed"} : f.run[r][a] = Retirements!E.run[r][a]
      /\ ~f.run[r].managed
  BY SafeIs DEF Edit, Shape, RunFields
<1> HIDE DEF f
<1>3. /\ f.run[r].reserved = Retirements!E.run[r].reserved /\ f.run[r].state = Retirements!E.run[r].state
      /\ f.run[r].owners = Retirements!E.run[r].owners /\ f.run[r].pending = Retirements!E.run[r].pending
      /\ f.run[r].unmanaged = Retirements!E.run[r].unmanaged /\ f.run[r].renewal = Retirements!E.run[r].renewal
  BY <1>2, SafeIs DEF RunFields
<1>4. \A g \in Retirements!E.wire.grants :
        g.run = r => (g.managed /\ f.run[r].managed) \/ (~g.managed /\ f.run[r].pending) \/ Retirements!E.books.closed
  BY <1>1, <1>3, SafeIs DEF Checks
<1>a. Retirements!E.books.closed => ~f.run[r].state /\ f.books.orphaned = {}
  BY <1>2, <1>3, SafeIs DEF Checks
<1>b. ~Retirements!E.books.closed => f.run[r].owners > 0  BY <1>1, <1>3, SafeIs DEF Checks
<1>5. Due(f, r, {})  BY <1>2, <1>3, <1>4, <1>a, <1>b, SafeIs, EditDue
<1>6. ~Lost(f, r)  BY <1>b, <1>2 DEF Lost, Retirements!Idle, Retirements!Evaluated
<1>7. QED BY <1>1, <1>5, <1>6, HeldIsSafe

LEMMA OwnerCollectedSafe ==
  ASSUME Safe(Retirements!E), NEW r \in Retiring, Retirements!OwnerCollected(r)
  PROVE  \E f : Retirements!Becomes(f) /\ Safe(f)
<1> DEFINE e == [Retirements!E EXCEPT !.run[r].owners = @ - 1]
           d == [e EXCEPT !.books.orphaned = @ \union {r}]
<1>1. /\ ~Retirements!E.books.closed /\ Retirements!E.run[r].owners > (IF Retirements!E.run[r].managed THEN 1 ELSE 0)
      /\ Retirements!Becomes(IF e.run[r].owners > 0 \/ (e.run[r].state /\ e.run[r].unmanaged) THEN e
                 ELSE Retirements!RetireOrphanedRun(d, r))
  BY EIs DEF Retirements!OwnerCollected
<1>2. /\ Edit(Retirements!E, e, r) /\ e.books = Retirements!E.books
      /\ \A a \in RunFields \ {"owners"} : e.run[r][a] = Retirements!E.run[r][a]
      /\ e.run[r].owners = Retirements!E.run[r].owners - 1
  BY SafeIs DEF Edit, Shape, RunFields
<1> HIDE DEF e
<1>3. /\ e.run[r].reserved = Retirements!E.run[r].reserved /\ e.run[r].state = Retirements!E.run[r].state
      /\ e.run[r].managed = Retirements!E.run[r].managed /\ e.run[r].pending = Retirements!E.run[r].pending
  BY <1>2 DEF RunFields
<1>4. e.run[r].owners \in Nat /\ (e.run[r].managed => e.run[r].owners > 0)
  BY <1>1, <1>2, <1>3, SafeIs
<1>5. \A g \in Retirements!E.wire.grants :
        g.run = r => (g.managed /\ e.run[r].managed) \/ (~g.managed /\ e.run[r].pending)
  BY <1>1, <1>3, SafeIs DEF Checks
<1>6. /\ Edit(Retirements!E, d, r) /\ d.run = e.run /\ r \in d.books.orphaned
  BY <1>2 DEF Edit, Shape
<1> HIDE DEF d
<1>7. CASE e.run[r].owners > 0 \/ (e.run[r].state /\ e.run[r].unmanaged)
  BY <1>1, <1>2, <1>3, <1>4, <1>5, <1>7, SafeIs, EditDue, HeldIsSafe DEF Lost, Retirements!Idle, Retirements!Evaluated, Retirements!Quiet
<1>8. CASE ~(e.run[r].owners > 0 \/ (e.run[r].state /\ e.run[r].unmanaged))
  BY <1>1, <1>3, <1>4, <1>5, <1>6, SafeIs, EditDue, <1>8, LooksAgain
<1>9. QED BY <1>7, <1>8

LEMMA SettleSafe ==
  ASSUME Safe(Retirements!E), NEW r \in Retiring, Retirements!Settle(r)
  PROVE  \E f : Retirements!Becomes(f) /\ Safe(f)
<1> DEFINE e == [Retirements!E EXCEPT !.run[r].reserved = @ - 1]
<1>1. Retirements!E.run[r].reserved > 0 /\ Retirements!Becomes(Retirements!RetireOrphanedRun(e, r))
  BY EIs DEF Retirements!Settle
<1>2. /\ Edit(Retirements!E, e, r) /\ e.books = Retirements!E.books
      /\ \A a \in RunFields \ {"reserved"} : e.run[r][a] = Retirements!E.run[r][a]
      /\ e.run[r].reserved = Retirements!E.run[r].reserved - 1
  BY SafeIs DEF Edit, Shape, RunFields
<1> HIDE DEF e
<1>3. /\ e.run[r].owners = Retirements!E.run[r].owners /\ e.run[r].state = Retirements!E.run[r].state
      /\ e.run[r].managed = Retirements!E.run[r].managed /\ e.run[r].pending = Retirements!E.run[r].pending
      /\ e.run[r].unmanaged = Retirements!E.run[r].unmanaged /\ e.run[r].reserved \in Nat
  BY <1>1, <1>2, SafeIs DEF RunFields
<1>4. /\ \A g \in Retirements!E.wire.grants :
           g.run = r => (g.managed /\ e.run[r].managed) \/ (~g.managed /\ e.run[r].pending) \/ Retirements!E.books.closed
      /\ ~Retirements!E.books.closed /\ e.run[r].managed => e.run[r].owners > 0
      /\ Retirements!E.books.closed => ~e.run[r].state /\ e.books.orphaned = {}
  BY <1>2, <1>3, SafeIs DEF Checks
<1>5. ~Retirements!E.books.closed /\ e.run[r].state /\ e.run[r].owners = 0 /\ ~e.run[r].unmanaged /\ ~e.run[r].pending
        => r \in e.books.orphaned
  BY <1>2, <1>3, SafeIs DEF Known
<1>6. Due(e, r, {})  BY <1>2, <1>3, <1>4, <1>5, SafeIs, EditDue
<1>7. QED BY <1>1, <1>6, LooksAgain

(* A check is under way: somebody holds the run. *)
LEMMA CheckedIsHeld ==
  ASSUME NEW e, Checks(e), NEW r \in Retiring, e.run[r].managed \/ e.run[r].pending
  PROVE  ~Lost(e, r) /\ (~e.books.closed => e.run[r].pending \/ e.run[r].owners > 0)
BY DEF Checks, Lost, Retirements!Idle, Retirements!Evaluated

LEMMA DirectiveSafe ==
  ASSUME Safe(Retirements!E), NEW r \in Retiring, Retirements!Directive(r)
  PROVE  \E f : Retirements!Becomes(f) /\ Safe(f)
<1> DEFINE d == Retirements!Ended(Retirements!E, r)
           f == [d EXCEPT !.run[r].terminated = TRUE]
<1>1. (Retirements!E.run[r].managed \/ Retirements!E.run[r].pending) /\ Retirements!Becomes(f)
  BY EIs DEF Retirements!Directive
<1>2. Due(d, r, {}) /\ ~d.run[r].renewal
  BY SafeIs, EndedDue
<1>a. d.run[r].managed = Retirements!E.run[r].managed /\ d.run[r].pending = Retirements!E.run[r].pending
  BY SafeIs, EndedIs DEF RunBut, RunFields
<1> HIDE DEF d
<1>b. Shape(d) /\ Checks(d) /\ Known(d, {}) /\ d.run[r].owners \in Nat /\ d.run[r].reserved \in Nat
  BY <1>2 DEF Due, Sane, Numbers
<1>3. /\ Edit(d, f, r) /\ f.books = d.books
      /\ \A a \in RunFields \ {"terminated"} : f.run[r][a] = d.run[r][a]
  BY <1>b DEF Edit, Shape, RunFields
<1> HIDE DEF f
<1>4. /\ f.run[r].owners = d.run[r].owners /\ f.run[r].state = d.run[r].state
      /\ f.run[r].managed = d.run[r].managed /\ f.run[r].pending = d.run[r].pending
      /\ f.run[r].unmanaged = d.run[r].unmanaged /\ f.run[r].reserved = d.run[r].reserved
  BY <1>3 DEF RunFields
<1>5. /\ \A g \in d.wire.grants :
           g.run = r => (g.managed /\ f.run[r].managed) \/ (~g.managed /\ f.run[r].pending) \/ d.books.closed
      /\ ~d.books.closed /\ f.run[r].managed => f.run[r].owners > 0
      /\ d.books.closed => ~f.run[r].state /\ f.books.orphaned = {}
  BY <1>3, <1>4, <1>b DEF Checks
<1>6. ~d.books.closed /\ f.run[r].state /\ f.run[r].owners = 0 /\ ~f.run[r].unmanaged /\ ~f.run[r].pending
        => r \in f.books.orphaned
  BY <1>3, <1>4, <1>b DEF Known
<1>7. Due(f, r, {})  BY <1>2, <1>3, <1>4, <1>b, <1>5, <1>6, EditDue
<1>8. ~Lost(f, r)
  BY <1>7, <1>1, <1>4, <1>a, CheckedIsHeld DEF Due, Sane
<1>9. QED BY <1>1, <1>7, <1>8, HeldIsSafe

LEMMA AdmitSafe ==
  ASSUME Safe(Retirements!E), NEW r \in Retiring, NEW managed \in BOOLEAN, Retirements!Admit(r, managed)
  PROVE  \E f : Retirements!Becomes(f) /\ Safe(f)
<1> DEFINE e == [Retirements!E EXCEPT !.run[r].state = TRUE]
           g == [run |-> r, managed |-> managed, authority |-> books.authority]
<1>1. /\ IF managed THEN Retirements!E.run[r].managed ELSE Retirements!E.run[r].pending
      /\ ~Retirements!E.books.closed /\ r \notin Retirements!E.books.retiring
      /\ \/ Retirements!Becomes([e EXCEPT !.run[r].reserved = @ + 1])
         \/ Retirements!Becomes(e)
         \/ Retirements!Becomes([e EXCEPT !.wire.grants = @ \union {g}])
  BY EIs DEF Retirements!Admit, Retirements!LeaseEntryEligible
<1>2. /\ Edit(Retirements!E, e, r) /\ e.books = Retirements!E.books /\ e.wire = Retirements!E.wire
      /\ \A a \in RunFields \ {"state"} : e.run[r][a] = Retirements!E.run[r][a]
      /\ e.run[r].state
  BY SafeIs DEF Edit, Shape, RunFields
<1> HIDE DEF e
<1>3. /\ e.run[r].owners = Retirements!E.run[r].owners /\ e.run[r].reserved = Retirements!E.run[r].reserved
      /\ e.run[r].managed = Retirements!E.run[r].managed /\ e.run[r].pending = Retirements!E.run[r].pending
  BY <1>2 DEF RunFields
<1>4. /\ \A h \in Retirements!E.wire.grants :
           h.run = r => (h.managed /\ e.run[r].managed) \/ (~h.managed /\ e.run[r].pending) \/ Retirements!E.books.closed
      /\ ~Retirements!E.books.closed /\ e.run[r].managed => e.run[r].owners > 0
  BY <1>2, <1>3, SafeIs DEF Checks
<1>5. e.run[r].managed \/ e.run[r].pending
  BY <1>1, <1>3
<1>6. Due(e, r, {})  BY <1>1, <1>2, <1>3, <1>4, <1>5, SafeIs, EditDue
<1>7. Safe(e)
  BY <1>6, <1>5, CheckedIsHeld, HeldIsSafe DEF Due, Sane
<1>8. CASE Retirements!Becomes([e EXCEPT !.run[r].reserved = @ + 1])
 <2> DEFINE f == [e EXCEPT !.run[r].reserved = @ + 1]
 <2>1. Retirements!Becomes(f)  BY <1>8
 <2>2. /\ Edit(e, f, r) /\ f.books = e.books
       /\ \A a \in RunFields \ {"reserved"} : f.run[r][a] = e.run[r][a]
       /\ f.run[r].reserved = e.run[r].reserved + 1
   BY <1>7, SafeIs DEF Edit, Shape, RunFields
 <2> HIDE DEF f
 <2>3. /\ f.run[r].owners = e.run[r].owners /\ f.run[r].state = e.run[r].state
       /\ f.run[r].managed = e.run[r].managed /\ f.run[r].pending = e.run[r].pending
       /\ f.run[r].unmanaged = e.run[r].unmanaged /\ f.run[r].reserved \in Nat
   BY <1>7, <2>2, SafeIs DEF RunFields
 <2>4. /\ \A h \in e.wire.grants :
            h.run = r => (h.managed /\ f.run[r].managed) \/ (~h.managed /\ f.run[r].pending) \/ e.books.closed
       /\ ~e.books.closed /\ f.run[r].managed => f.run[r].owners > 0
   BY <1>2, <1>3, <1>4, <2>3
 <2>a. ~e.books.closed /\ e.run[r].state /\ f.run[r].owners \in Nat
   BY <1>1, <1>2, <1>7, <2>3, SafeIs
 <2>b. f.run[r].pending \/ f.run[r].owners > 0
   BY <1>5, <2>3, <2>4, <2>a
 <2>c. /\ e.run[r].state => f.run[r].state
       /\ e.books.closed => ~f.run[r].state /\ f.books.orphaned = {}
       /\ \A h \in e.wire.grants :
            h.run = r => (h.managed /\ f.run[r].managed) \/ (~h.managed /\ f.run[r].pending) \/ e.books.closed
       /\ ~e.books.closed /\ f.run[r].managed => f.run[r].owners > 0
       /\ ~e.books.closed /\ f.run[r].state /\ f.run[r].owners = 0 /\ ~f.run[r].unmanaged /\ ~f.run[r].pending
            => r \in f.books.orphaned
   BY <2>3, <2>4, <2>a, <2>b
 <2>d. Edit(e, f, r) /\ f.run[r].reserved \in Nat /\ f.run[r].owners \in Nat
   BY <2>2, <2>3, <2>a
 <2>5. Due(f, r, {})  BY <1>6, <2>c, <2>d, EditDue
 <2>6. Checks(f)  BY <2>5 DEF Due, Sane
 <2>7. QED BY <1>5, <2>1, <2>3, <2>5, <2>6, CheckedIsHeld, HeldIsSafe
<1>9. CASE Retirements!Becomes(e)
  BY <1>7, <1>9
<1>10. CASE Retirements!Becomes([e EXCEPT !.wire.grants = @ \union {g}])
  BY <1>1, <1>3, <1>2, <1>7, AskedSafe, <1>10
<1>11. QED BY <1>1, <1>8, <1>9, <1>10

LEMMA LaunchRenewalSafe ==
  ASSUME Safe(Retirements!E), NEW r \in Retiring, Retirements!LaunchRenewal(r)
  PROVE  \E f : Retirements!Becomes(f) /\ Safe(f)
<1> DEFINE e == Retirements!E
           o == [run |-> r, lease |-> Retirements!E.run[r].lease, authority |-> Retirements!E.books.authority]
           f == [e EXCEPT !.run[r].renewal = TRUE, !.wire.renewals = @ \union {o}]
<1>0. /\ Numbers(e) /\ HeldOnce(e) /\ Renewing(e) /\ Claimed(e, {}) /\ Ways(e, 0) /\ NothingAsked(e) /\ Checks(e)
      /\ Shape(e) /\ Found(e, {}) /\ Known(e, {}) /\ (e.books.backlog # <<>> => Len(e.queue) > 0)
  BY SafeIs
<1>1. /\ e.run[r].managed \/ e.run[r].pending
      /\ ~e.books.closed /\ r \notin e.books.retiring /\ e.run[r].lease # 0 /\ ~e.run[r].renewal
      /\ Retirements!Becomes(f)
  BY EIs DEF Retirements!LaunchRenewal, Retirements!LeaseEntryEligible
<1>2. o.run = r /\ o.lease = e.run[r].lease /\ o.authority = e.books.authority
  OBVIOUS
<1> HIDE DEF e, o
<1>3. /\ Shape(f) /\ f.books = e.books /\ f.queue = e.queue /\ f.leases = e.leases
      /\ f.wire.grants = e.wire.grants /\ f.wire.renewals = e.wire.renewals \union {o}
      /\ \A s \in Retiring \ {r} : f.run[s] = e.run[s]
      /\ \A a \in RunFields \ {"renewal"} : f.run[r][a] = e.run[r][a]
      /\ f.run[r].renewal
  BY <1>0 DEF Shape, RunFields
<1> HIDE DEF f
<1>4. /\ f.run[r].owners = e.run[r].owners /\ f.run[r].state = e.run[r].state
      /\ f.run[r].managed = e.run[r].managed /\ f.run[r].pending = e.run[r].pending
      /\ f.run[r].unmanaged = e.run[r].unmanaged /\ f.run[r].reserved = e.run[r].reserved
      /\ f.run[r].lease = e.run[r].lease
  BY <1>3 DEF RunFields
<1>a. \A s \in Retiring : /\ f.run[s].lease = e.run[s].lease /\ f.run[s].state = e.run[s].state
                     /\ f.run[s].owners = e.run[s].owners /\ f.run[s].managed = e.run[s].managed
                     /\ f.run[s].pending = e.run[s].pending /\ f.run[s].reserved = e.run[s].reserved
                     /\ (e.run[s].renewal => f.run[s].renewal)
  BY <1>3, <1>4
<1>5. Numbers(f)
  BY <1>0, <1>1, <1>2, <1>3, <1>a DEF Numbers
<1>6. HeldOnce(f)  BY <1>0, <1>3, <1>a DEF HeldOnce
<1>7. Renewing(f)
 <2>1. \A p \in e.wire.renewals : ~(p.run = r /\ p.lease = e.run[r].lease)
   BY <1>0, <1>1 DEF Renewing
 <2>2. ASSUME NEW p \in f.wire.renewals, f.run[p.run].lease = p.lease
       PROVE  f.run[p.run].renewal /\ p.authority = f.books.authority
   BY <1>3, <1>2, <1>0, <1>a, <2>2 DEF Renewing, Numbers
 <2>3. \A p, q \in f.wire.renewals : p.run = q.run /\ p.lease = q.lease => p = q
   BY <1>0, <1>2, <1>3, <2>1 DEF Renewing
 <2>4. QED BY <2>2, <2>3 DEF Renewing
<1>8. Claimed(f, {})  BY <1>0, <1>2, <1>3, <1>4 DEF Claimed
<1>9. Ways(f, 0)
  BY <1>3, <1>a, <1>0 DEF WayOf, Ways
<1>10. NothingAsked(f)  BY <1>0, <1>1, <1>3 DEF NothingAsked
<1>11. Checks(f)  BY <1>0, <1>1, <1>3, <1>a DEF Checks, Numbers
<1>12. Found(f, {} \cup {r}) /\ Known(f, {} \cup {r})
  BY <1>0, <1>3, Elsewhere
<1>13. ~Lost(f, r) /\ (f.run[r].pending \/ f.run[r].owners > 0)
  BY <1>1, <1>3, <1>4, <1>11, CheckedIsHeld
<1>14. Found(f, {}) /\ Known(f, {})
  BY <1>12, <1>13 DEF Found, Known
<1>15. QED BY <1>0, <1>1, <1>3, <1>5, <1>6, <1>7, <1>8, <1>9, <1>10, <1>11, <1>14 DEF Safe, Sane

-----------------------------------------------------------------------------
(* Answers. *)
LEMMA FieldDue ==
  ASSUME NEW e, NEW r \in Retiring, NEW T, Due(e, r, T), NEW f, Shape(f),
         f.books = e.books, f.wire = e.wire, f.queue = e.queue, f.leases = e.leases,
         \A s \in Retiring \ {r} : f.run[s] = e.run[s],
         \A a \in RunFields \ {"reserved", "terminated"} : f.run[r][a] = e.run[r][a],
         f.run[r].reserved \in Nat
  PROVE  Due(f, r, T)
<1>0. Numbers(e) /\ Checks(e) /\ Known(e, {}) /\ e.run[r].owners \in Nat
  BY DEF Due, Sane, Numbers
<1>1. /\ f.run[r].owners = e.run[r].owners /\ f.run[r].state = e.run[r].state
      /\ f.run[r].managed = e.run[r].managed /\ f.run[r].pending = e.run[r].pending
      /\ f.run[r].unmanaged = e.run[r].unmanaged
      /\ f.run[r].lease = e.run[r].lease /\ f.run[r].renewal = e.run[r].renewal
  BY DEF RunFields
<1>2. Edit(e, f, r)  BY <1>1 DEF Edit
<1>3. /\ \A g \in e.wire.grants :
           g.run = r => (g.managed /\ f.run[r].managed) \/ (~g.managed /\ f.run[r].pending) \/ e.books.closed
      /\ ~e.books.closed /\ f.run[r].managed => f.run[r].owners > 0
      /\ e.books.closed => ~f.run[r].state /\ f.books.orphaned = {}
  BY <1>0, <1>1 DEF Checks
<1>4. ~e.books.closed /\ f.run[r].state /\ f.run[r].owners = 0 /\ ~f.run[r].unmanaged /\ ~f.run[r].pending
        => r \in f.books.orphaned
  BY <1>0, <1>1 DEF Known
<1>5. QED BY <1>0, <1>1, <1>2, <1>3, <1>4, EditDue

LEMMA ReservedDue ==
  ASSUME NEW e, NEW r \in Retiring, NEW T, Due(e, r, T), NEW n \in Nat
  PROVE  Due([e EXCEPT !.run[r].reserved = @ + n], r, T)
<1> DEFINE f == [e EXCEPT !.run[r].reserved = @ + n]
<1>0. Shape(e) /\ e.run[r].reserved \in Nat
  BY DEF Due, Sane, Numbers
<1>1. /\ Shape(f) /\ f.books = e.books /\ f.wire = e.wire /\ f.queue = e.queue /\ f.leases = e.leases
      /\ \A s \in Retiring \ {r} : f.run[s] = e.run[s]
      /\ \A a \in RunFields \ {"reserved", "terminated"} : f.run[r][a] = e.run[r][a]
      /\ f.run[r].reserved \in Nat
  BY <1>0 DEF Shape, RunFields
<1> HIDE DEF f
<1>2. Due(f, r, T)  BY <1>1, FieldDue
<1>3. QED BY <1>2 DEF f

LEMMA StoppedDue ==
  ASSUME NEW e, NEW r \in Retiring, NEW T, Due(e, r, T)
  PROVE  Due([e EXCEPT !.run[r].terminated = TRUE], r, T)
         /\ (~e.run[r].renewal => ~[e EXCEPT !.run[r].terminated = TRUE].run[r].renewal)
<1> DEFINE f == [e EXCEPT !.run[r].terminated = TRUE]
<1>0. Shape(e) /\ e.run[r].reserved \in Nat
  BY DEF Due, Sane, Numbers
<1>1. /\ Shape(f) /\ f.books = e.books /\ f.wire = e.wire /\ f.queue = e.queue /\ f.leases = e.leases
      /\ \A s \in Retiring \ {r} : f.run[s] = e.run[s]
      /\ \A a \in RunFields \ {"terminated"} : f.run[r][a] = e.run[r][a]
  BY <1>0 DEF Shape, RunFields
<1> HIDE DEF f
<1>2. f.run[r].reserved \in Nat /\ f.run[r].renewal = e.run[r].renewal
  BY <1>0, <1>1 DEF RunFields
<1>3. Due(f, r, T)  BY <1>1, <1>2, FieldDue
<1>4. QED BY <1>2, <1>3 DEF f

LEMMA GrantAnswersSafe ==
  ASSUME Safe(Retirements!E), NEW g \in wire.grants, Retirements!GrantAnswers(g) \/ Retirements!GrantRefused(g)
  PROVE  \E f : Retirements!Becomes(f) /\ Safe(f)
<1> DEFINE e == Retirements!GrantOver(g)
           r == g.run
<1>1. /\ Due(e, r, {}) /\ r \in Retiring /\ e.books = books /\ e.run = run
      /\ r \notin books.retiring /\ (~books.closed => run[r].state)
  BY GrantOverDue
<1>2. \/ Retirements!Becomes(Retirements!RetireOrphanedRun(Retirements!SurrenderLate(e), r))
      \/ Retirements!Becomes(Retirements!RetireOrphanedRun(Retirements!SurrenderLate(Retirements!Ended(e, r)), r))
      \/ /\ ~books.closed
         /\ \E n \in {0, 1} : Retirements!Becomes(Retirements!RetireOrphanedRun([Retirements!Installed(e, r) EXCEPT !.run[r].reserved = @ + n], r))
      \/ Retirements!Becomes(Retirements!RetireOrphanedRun(Retirements!LeftToExpire(e), r))
      \/ Retirements!Becomes(Retirements!RetireOrphanedRun(e, r))
      \/ Retirements!Becomes(Retirements!RetireOrphanedRun(Retirements!Ended(e, r), r))
  BY DEF Retirements!GrantAnswers, Retirements!GrantRefused
<1> HIDE DEF e, r
<1>3. CASE Retirements!Becomes(Retirements!RetireOrphanedRun(Retirements!SurrenderLate(e), r))
  BY <1>1, <1>3, LateDue, LooksAgain
<1>4. CASE Retirements!Becomes(Retirements!RetireOrphanedRun(Retirements!SurrenderLate(Retirements!Ended(e, r)), r))
  BY <1>1, <1>4, EndedDue, LateDue, LooksAgain
<1>5. ASSUME ~books.closed, NEW n \in {0, 1},
             Retirements!Becomes(Retirements!RetireOrphanedRun([Retirements!Installed(e, r) EXCEPT !.run[r].reserved = @ + n], r))
      PROVE  \E f : Retirements!Becomes(f) /\ Safe(f)
  BY <1>1, <1>5, InstalledDue, ReservedDue, LooksAgain
<1>6. CASE Retirements!Becomes(Retirements!RetireOrphanedRun(Retirements!LeftToExpire(e), r))
  BY <1>1, <1>6, LeftDue, LooksAgain
<1>7. CASE Retirements!Becomes(Retirements!RetireOrphanedRun(e, r))
  BY <1>1, <1>7, LooksAgain
<1>8. CASE Retirements!Becomes(Retirements!RetireOrphanedRun(Retirements!Ended(e, r), r))
  BY <1>1, <1>8, EndedDue, LooksAgain
<1>9. QED BY <1>2, <1>3, <1>4, <1>5, <1>6, <1>7, <1>8

(* The lease was handed over where it was thought to have ended. *)
LEMMA HandedOver ==
  ASSUME NEW y, NEW T, Sane(y, 0, T), NEW f, Shape(f),
         f.run = y.run, f.books = y.books, f.wire = y.wire, f.queue = y.queue,
         f.leases.returned = y.leases.returned, f.leases.issued = y.leases.issued,
         f.leases.left = y.leases.left, y.leases.ended \subseteq f.leases.ended \cup f.leases.returned
  PROVE  Sane(f, 0, T)
<1>0. /\ Numbers(y) /\ HeldOnce(y) /\ Renewing(y) /\ Claimed(y, T) /\ Ways(y, 0) /\ NothingAsked(y) /\ Checks(y)
  BY DEF Sane
<1>1. Numbers(f)  BY <1>0 DEF Numbers
<1>2. HeldOnce(f)  BY <1>0 DEF HeldOnce
<1>3. Renewing(f) /\ Claimed(f, T) /\ NothingAsked(f) /\ Checks(f)
  BY <1>0 DEF Renewing, Claimed, NothingAsked, Checks
<1>4. Ways(f, 0)
  BY <1>0 DEF WayOf, Ways
<1>5. QED BY <1>0, <1>1, <1>2, <1>3, <1>4 DEF Sane

LEMMA RefusingDue ==
  ASSUME NEW x, NEW r, NEW T, Due(x, r, T), NEW f, Shape(f),
         f.run = x.run, f.books = x.books, f.wire = x.wire,
         NEW item \in Items, item.kind # "retire", f.queue = Append(x.queue, item),
         item.lease \in 1 .. x.leases.issued, f.leases.issued = x.leases.issued,
         f.leases.returned = x.leases.returned \cup {item.lease},
         x.leases.ended \subseteq f.leases.ended \cup {item.lease}, f.leases.left = x.leases.left,
         \A s \in Retiring : x.run[s].lease # item.lease,
         \A m \in DOMAIN x.queue \ {0} : x.queue[m].lease # item.lease
  PROVE  Due(f, r, T)
<1> DEFINE y == [f EXCEPT !.leases = [f.leases EXCEPT !.ended = x.leases.ended]]
<1>1. /\ Shape(y) /\ y.run = f.run /\ y.books = f.books /\ y.wire = f.wire /\ y.queue = f.queue
      /\ y.leases.ended = x.leases.ended /\ y.leases.issued = f.leases.issued
      /\ y.leases.returned = f.leases.returned /\ y.leases.left = f.leases.left
  BY DEF Shape
<1> HIDE DEF y
<1>2. Sane(x, 0, T) /\ x.queue \in Seq(Items)
  BY DEF Due, Sane, Numbers
<1>3. /\ y.run = x.run /\ y.books = x.books /\ y.wire = x.wire /\ y.queue = Append(x.queue, item)
      /\ item.lease \in 1 .. y.leases.issued /\ y.leases.issued = x.leases.issued
      /\ y.leases.returned = x.leases.returned \cup {item.lease}
      /\ y.leases.ended = x.leases.ended /\ y.leases.left = x.leases.left
  BY <1>1
<1>4. Sane(y, 0, T)  BY <1>1, <1>2, <1>3, Submits
<1>5. Sane(f, 0, T)  BY <1>1, <1>4, HandedOver
<1>6. Found(f, {r}) /\ Known(f, {})
  BY DEF Due, Found, Known, Lost, Retirements!Idle, Retirements!Evaluated, Retirements!Quiet
<1>7. Len(f.queue) > 0  BY <1>2
<1>8. QED BY <1>5, <1>6, <1>7 DEF Due

(* A lease is handed over that the server no longer renews. *)
LEMMA RefusalDue ==
  ASSUME NEW e, NEW r \in Retiring, Due(e, r, {r}), r \notin e.books.retiring,
         NEW l, e.run[r].lease = l, l \in 1 .. e.leases.issued
  PROVE  Due(Retirements!Submitted(Retirements!DropLease(e, r), "refusal", r, l), r, {})
<1> DEFINE item == [kind |-> "refusal", run |-> r, lease |-> l]
           d == Retirements!DropLease(e, r)
           x == Retirements!Ended(e, r)
           f == Retirements!Submitted(d, "refusal", r, l)
<1>0. Shape(e) /\ Ways(e, 0) /\ HeldOnce(e) /\ e.leases.issued \in Nat
  BY DEF Due, Sane, Numbers
<1>1. item \in Items /\ item.kind # "retire" /\ item.lease = l
  BY <1>0 DEF Items
<1>2. /\ Shape(d) /\ d.books = e.books /\ d.wire = e.wire /\ d.queue = e.queue /\ d.leases = e.leases
      /\ RunBut(e, d, r, {"lease", "renewal"}) /\ d.run[r].lease = 0 /\ ~d.run[r].renewal
  BY <1>0, DropIs
<1>3. /\ Shape(x) /\ x.books = e.books /\ x.wire = e.wire /\ x.queue = e.queue
      /\ RunBut(e, x, r, {"lease", "renewal"}) /\ x.run[r].lease = 0
      /\ x.leases.ended = e.leases.ended \union ({e.run[r].lease} \ {0}) /\ LeasesBut(e, x, {"ended"})
  BY <1>0, EndedIs
<1>a. x.run = d.run
  BY <1>2 DEF Retirements!Ended, Shape
<1>4. Due(x, r, {r}) /\ ~x.run[r].renewal
  BY EndedDue
<1>5. /\ Shape(f) /\ f.run = d.run /\ f.books = d.books /\ f.wire = d.wire
      /\ f.queue = Append(d.queue, item)
      /\ f.leases.returned = d.leases.returned \union {l} /\ LeasesBut(d, f, {"returned"})
  BY <1>2, SubmittedIs
<1> HIDE DEF d, x, f, item
<1>6. x.leases.issued = e.leases.issued /\ x.leases.returned = e.leases.returned /\ x.leases.left = e.leases.left
  BY <1>3 DEF LeasesBut
<1>7. f.leases.issued = e.leases.issued /\ f.leases.ended = e.leases.ended /\ f.leases.left = e.leases.left
  BY <1>2, <1>5 DEF LeasesBut
<1>8. \A s \in Retiring : x.run[s].lease # item.lease
 <2>1. ASSUME NEW s \in Retiring, s # r PROVE x.run[s].lease # l
   BY <1>3, <2>1, <1>0 DEF RunBut, HeldOnce
 <2>2. x.run[r].lease # l  BY <1>0, <1>3
 <2>3. QED BY <1>1, <2>1, <2>2
<1>9. \A m \in DOMAIN x.queue \ {0} : x.queue[m].lease # item.lease
 <2>1. ASSUME NEW m \in DOMAIN e.queue \ {0}, e.queue[m].lease = l PROVE FALSE
   BY <1>0, <2>1 DEF Ways, WayOf
 <2>2. QED BY <1>1, <1>3, <2>1
<1>10. /\ f.run = x.run /\ f.books = x.books /\ f.wire = x.wire /\ f.queue = Append(x.queue, item)
       /\ item.lease \in 1 .. x.leases.issued /\ f.leases.issued = x.leases.issued
       /\ f.leases.returned = x.leases.returned \cup {item.lease}
       /\ x.leases.ended \subseteq f.leases.ended \cup {item.lease} /\ f.leases.left = x.leases.left
  BY <1>1, <1>2, <1>3, <1>a, <1>5, <1>6, <1>7
<1>11. Due(f, r, {r})  BY <1>1, <1>4, <1>5, <1>8, <1>9, <1>10, RefusingDue
<1>12. ~f.run[r].renewal  BY <1>2, <1>5
<1>13. QED BY <1>11, <1>12, ClaimEnds DEF f, d

LEMMA RenewalAnswersSafe ==
  ASSUME Safe(Retirements!E), NEW o \in wire.renewals, Retirements!RenewalAnswers(o) \/ Retirements!RenewalRefused(o)
  PROVE  \E f : Retirements!Becomes(f) /\ Safe(f)
<1> DEFINE e == Retirements!RenewalOver(o)
           r == o.run
           failed == [e EXCEPT !.run[r].renewal = FALSE]
           stopped == [Retirements!Ended(e, r) EXCEPT !.run[r].terminated = TRUE]
           refused == Retirements!Submitted(Retirements!DropLease(e, r), "refusal", r, o.lease)
<1>1. /\ Due(e, r, {r}) /\ r \in Retiring
      /\ e.books = books /\ e.run = run /\ e.leases = leases
      /\ \A p \in e.wire.renewals : ~(p.run = r /\ p.lease = o.lease)
      /\ Retirements!Current(o) => /\ r \notin books.retiring /\ o.authority = books.authority
                       /\ run[r].state /\ o.lease \in 1 .. leases.issued
      /\ ~Retirements!Current(o) => Due(e, r, {})
  BY RenewalOverDue
<1>2. \/ ~Retirements!Current(o) /\ Retirements!Becomes(Retirements!RetireOrphanedRun(Retirements!SurrenderLate(e), r))
      \/ ~Retirements!Current(o) /\ Retirements!Becomes(Retirements!RetireOrphanedRun(e, r))
      \/ /\ Retirements!Current(o)
         /\ \/ Retirements!Becomes(Retirements!RetireOrphanedRun(Retirements!Installed(e, r), r))
            \/ Retirements!Becomes(Retirements!RetireOrphanedRun(Retirements!SurrenderLate(failed), r))
            \/ Retirements!Becomes(Retirements!RetireOrphanedRun(Retirements!SurrenderLate(stopped), r))
            \/ Retirements!Becomes(Retirements!RetireOrphanedRun(failed, r))
            \/ Retirements!Becomes(Retirements!RetireOrphanedRun(Retirements!Ended(e, r), r))
            \/ Retirements!Becomes(Retirements!RetireOrphanedRun(refused, r))
  BY <1>1 DEF Retirements!RenewalAnswers, Retirements!RenewalFailed, Retirements!RenewalRefused
<1>3. CASE ~Retirements!Current(o)
  BY <1>1, <1>3, LateDue, <1>2, LooksAgain
<1>4. CASE Retirements!Current(o)
 <2>1. e.run[r].lease = o.lease /\ ~e.books.closed
   BY <1>1, <1>4 DEF Retirements!Current
 <2> HIDE DEF e
 <2>2. Due(Retirements!Installed(e, r), r, {})  BY <1>1, <1>4, <2>1, InstalledDue, ClaimEnds
 <2>3. Due(failed, r, {}) /\ Due(Retirements!SurrenderLate(failed), r, {})
   BY <1>1, <2>1, UnclaimedDue, LateDue
 <2>4. Due(Retirements!Ended(e, r), r, {}) /\ Due(Retirements!SurrenderLate(stopped), r, {})
   BY <1>1, EndedDue, ClaimEnds, StoppedDue, LateDue
 <2>5. Due(refused, r, {})  BY <1>1, <1>4, <2>1, RefusalDue
 <2> HIDE DEF failed, stopped, refused
 <2>6. QED BY <1>1, <1>2, <1>4, <2>2, <2>3, <2>4, <2>5, LooksAgain
<1>5. QED BY <1>3, <1>4

-----------------------------------------------------------------------------
(* Everything goes back at once: what no retirement sends already. *)
HandsOver(e, f, order) ==
  /\ Shape(f) /\ f.wire = e.wire
  /\ f.books.retiring = e.books.retiring /\ f.books.closed = e.books.closed
  /\ f.books.orphaned = e.books.orphaned /\ f.books.backlog = e.books.backlog
  /\ \A r \in Retiring \ Retirements!Holders(e) : f.run[r] = e.run[r]
  /\ \A r \in Retirements!Holders(e) : /\ f.run[r].lease = 0 /\ ~f.run[r].renewal
                           /\ \A a \in RunFields \ {"lease", "renewal"} : f.run[r][a] = e.run[r][a]
  /\ f.queue = e.queue \o [i \in DOMAIN order |-> [kind |-> "held", run |-> order[i], lease |-> e.run[order[i]].lease]]
  /\ f.leases.returned = e.leases.returned \cup {e.run[r].lease : r \in Retirements!Holders(e)}
  /\ f.leases.issued = e.leases.issued /\ f.leases.ended = e.leases.ended /\ f.leases.left = e.leases.left

LEMMA SurrenderedIs ==
  ASSUME NEW e, Shape(e), NEW order, NEW f, f = Retirements!Surrendered(e, order)
  PROVE  HandsOver(e, f, order) /\ f.books = e.books
<1> DEFINE sent == [i \in DOMAIN order |-> [kind |-> "held", run |-> order[i], lease |-> e.run[order[i]].lease]]
           runs == [r \in Retiring |-> IF r \in Retirements!Holders(e) THEN [e.run[r] EXCEPT !.lease = 0, !.renewal = FALSE] ELSE e.run[r]]
           given == {e.run[r].lease : r \in Retirements!Holders(e)}
<1>1. f = [e EXCEPT !.run = runs, !.queue = e.queue \o sent, !.leases.returned = e.leases.returned \union given]
  BY Zenon DEF Retirements!Surrendered
<1>2. /\ DOMAIN runs = Retiring
      /\ \A r \in Retiring \ Retirements!Holders(e) : runs[r] = e.run[r]
      /\ \A r \in Retirements!Holders(e) : runs[r] = [e.run[r] EXCEPT !.lease = 0, !.renewal = FALSE] /\ r \in Retiring
  BY DEF Retirements!Holders
<1> HIDE DEF sent, runs, given
<1>3. /\ DOMAIN f = {"run", "books", "wire", "queue", "leases"}
      /\ f.run = runs /\ f.queue = e.queue \o sent /\ f.books = e.books /\ f.wire = e.wire
      /\ f.leases = [e.leases EXCEPT !.returned = e.leases.returned \union given]
  BY <1>1 DEF Shape
<1>4. /\ DOMAIN f.leases = {"issued", "ended", "returned", "left"}
      /\ f.leases.returned = e.leases.returned \cup given
      /\ f.leases.issued = e.leases.issued /\ f.leases.ended = e.leases.ended /\ f.leases.left = e.leases.left
  BY <1>3 DEF Shape
<1>5. ASSUME NEW r \in Retirements!Holders(e)
      PROVE  /\ DOMAIN f.run[r] = RunFields /\ f.run[r].lease = 0 /\ ~f.run[r].renewal
             /\ \A a \in RunFields \ {"lease", "renewal"} : f.run[r][a] = e.run[r][a]
 <2>1. f.run[r] = [e.run[r] EXCEPT !.lease = 0, !.renewal = FALSE] /\ DOMAIN e.run[r] = RunFields
   BY <1>2, <1>3 DEF Shape
 <2>2. QED BY <2>1 DEF RunFields
<1>6. Shape(f)  BY <1>2, <1>3, <1>4, <1>5 DEF Shape
<1>7. QED BY <1>2, <1>3, <1>4, <1>5, <1>6 DEF HandsOver, sent, given

(* The size of a set is what it is anywhere. *)
LEMMA SameCount == \A S : Retirements!Cardinality(S) = Cardinality(S)
BY DEF Retirements!Cardinality, Cardinality

LEMMA HoldersAreFinite ==
  ASSUME NEW e, Numbers(e), HeldOnce(e)
  PROVE  IsFiniteSet(Retirements!Holders(e)) /\ Cardinality(Retirements!Holders(e)) \in Nat
<1> DEFINE own == [r \in Retirements!Holders(e) |-> e.run[r].lease]
<1>1. own \in Injection(Retirements!Holders(e), 1 .. e.leases.issued)
  BY DEF Retirements!Holders, Numbers, HeldOnce, Injection, IsInjective
<1>2. IsFiniteSet(1 .. e.leases.issued)
 <2>1. 1 \in Int /\ e.leases.issued \in Int
   BY DEF Numbers
 <2>2. QED BY <2>1, FS_Interval
<1> HIDE DEF own
<1>3. QED BY <1>1, <1>2, FS_Injection, FS_CardinalityType

LEMMA OrderIs ==
  ASSUME NEW e, Numbers(e), HeldOnce(e), NEW order \in Retirements!SetToSeqs(Retirements!Holders(e))
  PROVE  /\ order \in Seq(Retirements!Holders(e)) /\ DOMAIN order = 1 .. Len(order) /\ Len(order) \in Nat
         /\ \A i, j \in DOMAIN order : i # j => order[i] # order[j]
<1>1. Cardinality(Retirements!Holders(e)) \in Nat  BY HoldersAreFinite
<1>2. /\ order \in [1 .. Cardinality(Retirements!Holders(e)) -> Retirements!Holders(e)]
      /\ \A i, j \in 1 .. Cardinality(Retirements!Holders(e)) : i # j => order[i] # order[j]
  BY SameCount DEF Retirements!SetToSeqs
<1>3. QED BY <1>1, <1>2

LEMMA SurrenderedSafe ==
  ASSUME NEW e, Safe(e), NEW order \in Retirements!SetToSeqs(Retirements!Holders(e)), NEW f, HandsOver(e, f, order)
  PROVE  Safe(f)
<1> DEFINE Item(r) == [kind |-> "held", run |-> r, lease |-> e.run[r].lease]
           sent == [i \in DOMAIN order |-> Item(order[i])]
           H == Retirements!Holders(e)
<1>0. /\ Numbers(e) /\ HeldOnce(e) /\ Renewing(e) /\ Claimed(e, {}) /\ Ways(e, 0) /\ NothingAsked(e) /\ Checks(e)
      /\ Shape(e) /\ Found(e, {}) /\ Known(e, {}) /\ (e.books.backlog # <<>> => Len(e.queue) > 0)
      /\ Len(e.queue) \in Nat /\ e.leases.issued \in Nat /\ e.queue \in Seq(Items)
  BY SafeIs DEF Numbers
<1>1. /\ order \in Seq(H) /\ DOMAIN order = 1 .. Len(order) /\ Len(order) \in Nat
      /\ \A i, j \in DOMAIN order : i # j => order[i] # order[j]
  BY <1>0, OrderIs
<1>2. \A r \in H : r \in Retiring /\ r \notin e.books.retiring /\ e.run[r].lease \in 1 .. e.leases.issued
  BY <1>0 DEF Retirements!Holders, Numbers
<1>3. ASSUME NEW r \in H
      PROVE  /\ Item(r) \in Items /\ Item(r).kind = "held" /\ Item(r).run = r /\ Item(r).lease = e.run[r].lease
  BY <1>0, <1>2 DEF Items
<1>4. /\ sent \in Seq(Items) /\ Len(sent) = Len(order)
      /\ \A i \in 1 .. Len(order) : sent[i] = Item(order[i]) /\ order[i] \in H
  BY <1>1, <1>3
<1>5. f.queue = e.queue \o sent  BY DEF HandsOver
<1> HIDE DEF Item, sent
<1>6. /\ f.queue \in Seq(Items) /\ Len(f.queue) = Len(e.queue) + Len(order)
      /\ \A m \in 1 .. Len(e.queue) : f.queue[m] = e.queue[m]
      /\ \A m \in Len(e.queue) + 1 .. Len(f.queue) :
           f.queue[m] = Item(order[m - Len(e.queue)]) /\ m - Len(e.queue) \in 1 .. Len(order)
 <2>1. /\ f.queue \in Seq(Items) /\ Len(f.queue) = Len(e.queue) + Len(order)
       /\ \A m \in 1 .. Len(e.queue) : f.queue[m] = e.queue[m]
  <3>1. e.queue \in Seq(Items) /\ sent \in Seq(Items) /\ Len(sent) = Len(order)
    BY <1>0, <1>4
  <3>2. /\ e.queue \o sent \in Seq(Items)
        /\ Len(e.queue \o sent) = Len(e.queue) + Len(sent)
        /\ \A m \in 1 .. Len(e.queue) : (e.queue \o sent)[m] = e.queue[m]
    BY <3>1
  <3>3. QED BY <1>5, <3>1, <3>2
 <2>2. ASSUME NEW m \in Len(e.queue) + 1 .. Len(f.queue)
       PROVE  f.queue[m] = sent[m - Len(e.queue)] /\ m - Len(e.queue) \in 1 .. Len(order)
   BY <1>0, <1>1, <1>4, <2>1, <1>5
 <2>3. QED BY <1>4, <2>1, <2>2
<1>7. /\ \A r \in Retiring \ H : f.run[r] = e.run[r]
      /\ \A r \in H : f.run[r].lease = 0 /\ ~f.run[r].renewal
      /\ \A r \in H : \A a \in RunFields \ {"lease", "renewal"} : f.run[r][a] = e.run[r][a]
      /\ f.leases.returned = e.leases.returned \cup {e.run[r].lease : r \in H}
      /\ f.leases.issued = e.leases.issued /\ f.leases.ended = e.leases.ended /\ f.leases.left = e.leases.left
      /\ Shape(f) /\ f.wire = e.wire
      /\ f.books.retiring = e.books.retiring /\ f.books.closed = e.books.closed
      /\ f.books.orphaned = e.books.orphaned /\ f.books.backlog = e.books.backlog
  BY DEF HandsOver
<1>8. \A r \in Retiring : r \notin H => e.run[r].lease = 0 \/ r \in e.books.retiring
  BY DEF Retirements!Holders
<1> HIDE DEF H
<1>9. \A r \in Retiring : /\ f.run[r].owners = e.run[r].owners /\ f.run[r].managed = e.run[r].managed
                     /\ f.run[r].pending = e.run[r].pending /\ f.run[r].state = e.run[r].state
                     /\ f.run[r].reserved = e.run[r].reserved /\ f.run[r].unmanaged = e.run[r].unmanaged
                     /\ f.run[r].lease \in {0, e.run[r].lease} /\ (f.run[r].renewal => e.run[r].renewal)
  BY <1>7 DEF RunFields
<1>10. \A r \in Retiring : f.run[r].lease # 0 => r \notin H /\ f.run[r] = e.run[r] /\ r \in e.books.retiring
  BY <1>7, <1>8
<1>11. Numbers(f)
  BY <1>0, <1>7, <1>9, <1>6 DEF Numbers
<1>12. HeldOnce(f)
 <2>1. ASSUME NEW l \in 1 .. f.leases.issued
       PROVE  (\E r \in Retiring : f.run[r].lease = l) \/ l \in f.leases.ended \cup f.leases.returned \cup f.leases.left
   BY <1>7, <1>0 DEF HeldOnce
 <2>2. QED BY <1>0, <1>9, <1>10, <2>1 DEF HeldOnce
<1>13. Renewing(f)
 <2>1. ASSUME NEW o \in f.wire.renewals PROVE f.run[o.run].lease # o.lease
   BY <1>0, <1>7, <1>10 DEF Numbers, Renewing, NothingAsked
 <2>2. QED BY <1>0, <1>7, <2>1 DEF Renewing
<1>14. Claimed(f, {})  BY <1>0, <1>7 DEF Claimed
<1>15. NothingAsked(f)
  BY <1>2, <1>7, <1>0 DEF NothingAsked
<1>16. Checks(f)
  BY <1>0, <1>7, <1>9 DEF Numbers, Checks
<1>17. Ways(f, 0)
 <2>1. ASSUME NEW x \in Items, WayOf(e, x) PROVE WayOf(f, x)
   BY <1>7, <2>1, <1>9, <1>10 DEF WayOf, Items
 <2>2. ASSUME NEW r \in H PROVE WayOf(f, Item(r))
   BY <1>0, <1>2, <1>10, <1>7, <1>3 DEF HeldOnce, WayOf
 <2>3. ASSUME NEW m \in DOMAIN e.queue \ {0}, NEW r \in H PROVE Apart(e.queue[m], Item(r)) /\ Apart(Item(r), e.queue[m])
   BY <1>0, <1>2, <1>3 DEF Ways, WayOf, Apart
 <2>4. ASSUME NEW r \in H, NEW s \in H, r # s PROVE Apart(Item(r), Item(s))
   BY <1>0, <1>2, <1>3, <2>4 DEF Apart, HeldOnce
 <2>5. /\ DOMAIN f.queue = 1 .. Len(f.queue) /\ DOMAIN e.queue = 1 .. Len(e.queue)
       /\ \A m \in DOMAIN f.queue : m \in 1 .. Len(e.queue) \/ m \in Len(e.queue) + 1 .. Len(f.queue)
   BY <1>0, <1>1, <1>6
 <2>6. \A m \in DOMAIN f.queue \ {0} : WayOf(f, f.queue[m])
  <3>1. ASSUME NEW m \in 1 .. Len(e.queue) PROVE WayOf(f, f.queue[m])
   <4>1. e.queue[m] \in Items /\ WayOf(e, e.queue[m])
     BY <1>0, <2>5 DEF Ways
   <4>2. QED BY <1>6, <2>1, <4>1
  <3>2. ASSUME NEW m \in Len(e.queue) + 1 .. Len(f.queue) PROVE WayOf(f, f.queue[m])
    BY <1>4, <1>6, <2>2
  <3>3. QED BY <2>5, <3>1, <3>2
 <2>7. ASSUME NEW m \in DOMAIN f.queue \ {0}, NEW n \in DOMAIN f.queue \ {0}, m # n
       PROVE  Apart(f.queue[m], f.queue[n])
  <3>1. CASE m \in 1 .. Len(e.queue) /\ n \in 1 .. Len(e.queue)
    BY <1>0, <1>6, <2>5, <2>7, <3>1 DEF Ways
  <3>2. CASE m \in 1 .. Len(e.queue) /\ n \in Len(e.queue) + 1 .. Len(f.queue)
    BY <1>4, <1>6, <2>3, <2>5, <3>2
  <3>3. CASE m \in Len(e.queue) + 1 .. Len(f.queue) /\ n \in 1 .. Len(e.queue)
    BY <1>4, <1>6, <2>3, <2>5, <3>3
  <3>4. CASE m \in Len(e.queue) + 1 .. Len(f.queue) /\ n \in Len(e.queue) + 1 .. Len(f.queue)
   <4>1. m - Len(e.queue) # n - Len(e.queue)  BY <1>0, <1>6, <2>7, <3>4
   <4>2. order[m - Len(e.queue)] # order[n - Len(e.queue)]  BY <1>1, <1>6, <3>4, <4>1
   <4>3. QED BY <1>4, <1>6, <2>4, <3>4, <4>2
  <3>5. QED BY <2>5, <2>7, <3>1, <3>2, <3>3, <3>4
 <2>8. ASSUME NEW s \in Retiring \cap f.books.retiring
       PROVE  \E m \in DOMAIN f.queue \ {0} : f.queue[m].kind = "retire" /\ f.queue[m].run = s
  <3>1. PICK m \in DOMAIN e.queue \ {0} : e.queue[m].kind = "retire" /\ e.queue[m].run = s
    BY <1>0, <1>7 DEF Ways
  <3>2. m \in DOMAIN f.queue \ {0} /\ f.queue[m] = e.queue[m]
    BY <1>0, <1>1, <1>6, <2>5
  <3>3. QED BY <3>1, <3>2
 <2>9. 0 \in 0 .. Len(f.queue)  BY <1>0, <1>1, <1>6
 <2>10. QED BY <2>6, <2>7, <2>8, <2>9 DEF Ways
<1>18. Found(f, {})
 <2>1. ASSUME NEW r \in Retiring, Lost(f, r) PROVE Lost(e, r)
   BY <1>7, <2>1, <1>0, <1>9 DEF Lost, Claimed, Retirements!Idle, Retirements!Evaluated, Retirements!Quiet
 <2>2. QED BY <1>0, <1>7, <2>1 DEF Found
<1>19. Known(f, {})  BY <1>0, <1>7, <1>9 DEF Known
<1>20. f.books.backlog # <<>> => Len(f.queue) > 0  BY <1>0, <1>1, <1>6, <1>7
<1>21. QED BY <1>11, <1>12, <1>13, <1>14, <1>15, <1>16, <1>17, <1>18, <1>19, <1>20 DEF Safe, Sane

LEMMA ResetAuthoritySafe ==
  ASSUME Safe(Retirements!E), Retirements!ResetAuthority
  PROVE  \E f : Retirements!Becomes(f) /\ Safe(f)
<1> DEFINE a == [Retirements!E EXCEPT !.books.authority = @ + 1]
<1>1. PICK order \in Retirements!SetToSeqs(Retirements!Holders(Retirements!E)) : Retirements!Becomes(Retirements!Surrendered(a, order))
  BY Zenon DEF Retirements!ResetAuthority
<1> DEFINE f == Retirements!Surrendered(a, order)
<1>2. Shape(Retirements!E)  BY SafeIs
<1>3. /\ Shape(a) /\ a.run = Retirements!E.run /\ a.wire = Retirements!E.wire /\ a.queue = Retirements!E.queue /\ a.leases = Retirements!E.leases
      /\ a.books.retiring = Retirements!E.books.retiring /\ a.books.closed = Retirements!E.books.closed
      /\ a.books.orphaned = Retirements!E.books.orphaned /\ a.books.backlog = Retirements!E.books.backlog
  BY <1>2 DEF Shape
<1> HIDE DEF a
<1>4. HandsOver(a, f, order) /\ f.books = a.books
  BY <1>3, SurrenderedIs
<1> HIDE DEF f
<1>5. Retirements!Holders(a) = Retirements!Holders(Retirements!E)  BY <1>3 DEF Retirements!Holders
<1>6. HandsOver(Retirements!E, f, order)  BY <1>3, <1>4, <1>5 DEF HandsOver
<1>7. Safe(f)  BY <1>1, <1>6, SurrenderedSafe
<1>8. QED BY <1>1, <1>7 DEF f

LEMMA CloseSafe ==
  ASSUME Safe(Retirements!E), Retirements!Close
  PROVE  \E f : Retirements!Becomes(f) /\ Safe(f)
<1> DEFINE Over(e) == [e EXCEPT
             !.run = [r \in Retiring |-> [e.run[r] EXCEPT !.state = FALSE, !.lease = 0, !.reserved = 0,
                                       !.renewal = FALSE, !.unmanaged = FALSE, !.owners = 0]],
             !.books = [e.books EXCEPT !.closed = TRUE, !.orphaned = {}, !.backlog = <<>>]]
<1>1. PICK order \in Retirements!SetToSeqs(Retirements!Holders(Retirements!E)) : Retirements!Becomes(Over(Retirements!Surrendered(Retirements!E, order)))
  BY Zenon DEF Retirements!Close
<1> DEFINE e == Retirements!Surrendered(Retirements!E, order)
           f == Over(e)
<1>2. Shape(Retirements!E)  BY SafeIs
<1>3. HandsOver(Retirements!E, e, order) /\ e.books = Retirements!E.books
  BY <1>2, SurrenderedIs
<1> HIDE DEF e
<1>4. Safe(e) /\ Shape(e)
  BY <1>3, SurrenderedSafe, SafeIs
<1>5. /\ Numbers(e) /\ HeldOnce(e) /\ Renewing(e) /\ Claimed(e, {}) /\ Ways(e, 0) /\ NothingAsked(e)
      /\ Len(e.queue) \in Nat /\ e.queue \in Seq(Items)
  BY <1>4, SafeIs DEF Numbers
<1> DEFINE runs == [r \in Retiring |-> [e.run[r] EXCEPT !.state = FALSE, !.lease = 0, !.reserved = 0,
                                     !.renewal = FALSE, !.unmanaged = FALSE, !.owners = 0]]
           over == [e.books EXCEPT !.closed = TRUE, !.orphaned = {}, !.backlog = <<>>]
<1>6. f = [e EXCEPT !.run = runs, !.books = over]  OBVIOUS
<1>7. /\ DOMAIN runs = Retiring
      /\ \A r \in Retiring : runs[r] = [e.run[r] EXCEPT !.state = FALSE, !.lease = 0, !.reserved = 0,
                                     !.renewal = FALSE, !.unmanaged = FALSE, !.owners = 0]
  OBVIOUS
<1>8. /\ DOMAIN over = {"orphaned", "retiring", "backlog", "closed", "authority"}
      /\ over.retiring = e.books.retiring /\ over.closed /\ over.orphaned = {} /\ over.backlog = <<>>
  BY <1>4 DEF Shape
<1> HIDE DEF runs, over, f
<1>9. /\ f.run = runs /\ f.books = over /\ f.wire = e.wire /\ f.queue = e.queue /\ f.leases = e.leases
      /\ DOMAIN f = {"run", "books", "wire", "queue", "leases"}
  BY <1>4, <1>6 DEF Shape
<1>10. ASSUME NEW r \in Retiring
       PROVE  /\ DOMAIN f.run[r] = RunFields
              /\ ~f.run[r].state /\ f.run[r].lease = 0 /\ f.run[r].reserved = 0 /\ ~f.run[r].renewal
              /\ f.run[r].owners = 0
 <2>1. /\ DOMAIN e.run[r] = RunFields
       /\ f.run[r] = [e.run[r] EXCEPT !.state = FALSE, !.lease = 0, !.reserved = 0,
                                    !.renewal = FALSE, !.unmanaged = FALSE, !.owners = 0]
   BY <1>4, <1>7, <1>9 DEF Shape
 <2>2. QED BY <2>1 DEF RunFields
<1>11. Shape(f)  BY <1>4, <1>7, <1>8, <1>9, <1>10 DEF Shape
<1>12. /\ f.books.retiring = e.books.retiring /\ f.books.closed /\ f.books.orphaned = {} /\ f.books.backlog = <<>>
  BY <1>8, <1>9
<1>13. Numbers(f)  BY <1>5, <1>9, <1>10, <1>11, <1>12 DEF Numbers, Distinct
<1>14. HeldOnce(f)
 <2>1. ASSUME NEW l \in 1 .. f.leases.issued
       PROVE  l \in f.leases.ended \cup f.leases.returned \cup f.leases.left
  <3>1. CASE \E r \in Retiring : e.run[r].lease = l
   <4>1. PICK r \in Retiring : e.run[r].lease = l
     BY <3>1
   <4>2. l # 0  BY <1>5, <1>9, <2>1 DEF Numbers
   <4>3. r \in Retirements!E.books.retiring  BY <1>3, <4>1, <4>2 DEF HandsOver, Retirements!Holders
   <4>4. QED BY <1>3, <1>5, <1>9, <4>1, <4>2, <4>3 DEF NothingAsked
  <3>2. QED BY <1>5, <1>9, <2>1, <3>1 DEF HeldOnce
 <2>2. QED BY <1>10, <2>1 DEF HeldOnce
<1>15. Renewing(f) /\ Claimed(f, {})
  BY <1>5, <1>9, <1>10 DEF Numbers, Renewing, Claimed
<1>16. NothingAsked(f) /\ Checks(f)
  BY <1>5, <1>9, <1>10, <1>12 DEF NothingAsked, Checks
<1>17. Ways(f, 0)
  BY <1>9, <1>10, <1>12, <1>5 DEF WayOf, Items, Ways
<1>18. Found(f, {}) /\ Known(f, {})
  BY <1>12 DEF Found, Known, Lost, Retirements!Idle, Retirements!Evaluated
<1>19. Safe(f)  BY <1>12, <1>13, <1>14, <1>15, <1>16, <1>17, <1>18 DEF Safe, Sane
<1>20. QED BY <1>1, <1>19 DEF f, e

-----------------------------------------------------------------------------
(* Every action leaves a safe enforcer behind. *)
LEMMA NextSafe ==
  ASSUME Safe(Retirements!E), Retirements!Next
  PROVE  \E f : Retirements!Becomes(f) /\ Safe(f)
<1>1. ASSUME NEW r \in Retiring, Retirements!ObserveRun(r) PROVE \E f : Retirements!Becomes(f) /\ Safe(f)
  BY <1>1, ObserveRunSafe
<1>2. ASSUME NEW r \in Retiring, Retirements!StartManaged(r) PROVE \E f : Retirements!Becomes(f) /\ Safe(f)
  BY <1>2, StartManagedSafe
<1>3. ASSUME NEW r \in Retiring, Retirements!StartUnmanaged(r) \/ Retirements!EndUnmanaged(r) PROVE \E f : Retirements!Becomes(f) /\ Safe(f)
  BY <1>3, UnmanagedSafe
<1>4. ASSUME NEW r \in Retiring, Retirements!EndManaged(r) PROVE \E f : Retirements!Becomes(f) /\ Safe(f)
  BY <1>4, EndManagedSafe
<1>5. ASSUME NEW r \in Retiring, Retirements!OwnerCollected(r) PROVE \E f : Retirements!Becomes(f) /\ Safe(f)
  BY <1>5, OwnerCollectedSafe
<1>6. ASSUME NEW r \in Retiring, Retirements!LaunchRenewal(r) PROVE \E f : Retirements!Becomes(f) /\ Safe(f)
  BY <1>6, LaunchRenewalSafe
<1>7. ASSUME NEW r \in Retiring, Retirements!Settle(r) PROVE \E f : Retirements!Becomes(f) /\ Safe(f)
  BY <1>7, SettleSafe
<1>8. ASSUME NEW r \in Retiring, Retirements!Directive(r) PROVE \E f : Retirements!Becomes(f) /\ Safe(f)
  BY <1>8, DirectiveSafe
<1>9. ASSUME NEW r \in Retiring, NEW managed \in BOOLEAN, Retirements!Admit(r, managed) PROVE \E f : Retirements!Becomes(f) /\ Safe(f)
  BY <1>9, AdmitSafe
<1>10. ASSUME NEW g \in wire.grants, Retirements!GrantAnswers(g) \/ Retirements!GrantRefused(g) PROVE \E f : Retirements!Becomes(f) /\ Safe(f)
  BY <1>10, GrantAnswersSafe
<1>11. ASSUME NEW o \in wire.renewals, Retirements!RenewalAnswers(o) \/ Retirements!RenewalRefused(o) PROVE \E f : Retirements!Becomes(f) /\ Safe(f)
  BY <1>11, RenewalAnswersSafe
<1>12. ASSUME NEW i, NEW sent \in BOOLEAN, Retirements!Outcome(i, sent) PROVE \E f : Retirements!Becomes(f) /\ Safe(f)
  BY <1>12, OutcomeSafe
<1>13. CASE Retirements!ResetAuthority
  BY <1>13, ResetAuthoritySafe
<1>14. CASE Retirements!Close
  BY <1>14, CloseSafe
<1>15. QED
  BY Zenon, <1>1, <1>2, <1>3, <1>4, <1>5, <1>6, <1>7, <1>8, <1>9, <1>10, <1>11, <1>12, <1>13, <1>14 DEF Retirements!Next

(* The records of a safe enforcer are those it becomes. *)
LEMMA BecomesSafe ==
  ASSUME NEW f, Retirements!Becomes(f), Safe(f)
  PROVE  Safe(Retirements!E)'
<1> DEFINE e == [run |-> run', books |-> books', wire |-> wire', queue |-> queue', leases |-> leases']
<1>1. Shape(f) /\ f.queue \in Seq(Items)
  BY DEF Safe, Sane, Numbers
<1>2. /\ e.run = f.run /\ e.books = f.books /\ e.wire = f.wire /\ e.queue = f.queue /\ e.leases = f.leases
      /\ DOMAIN e = {"run", "books", "wire", "queue", "leases"}
  BY DEF Retirements!Becomes
<1> HIDE DEF e
<1>3. Shape(e)  BY <1>1, <1>2 DEF Shape
<1>4. Numbers(e)  BY <1>2, <1>3 DEF Safe, Sane, Numbers
<1>5. HeldOnce(e) /\ Renewing(e) /\ Claimed(e, {}) /\ NothingAsked(e) /\ Checks(e)
  BY <1>2 DEF Safe, Sane, HeldOnce, Renewing, Claimed, NothingAsked, Checks
<1>6. Ways(e, 0)  BY <1>2 DEF Safe, Sane, Ways, WayOf
<1>7. Found(e, {}) /\ Known(e, {}) /\ (e.books.backlog # <<>> => Len(e.queue) > 0)
  BY <1>2 DEF Safe, Found, Known, Lost, Retirements!Idle, Retirements!Evaluated, Retirements!Quiet
<1>8. Safe(e)  BY <1>4, <1>5, <1>6, <1>7 DEF Safe, Sane
<1>9. QED BY Zenon, <1>8 DEF e, Retirements!E

LEMMA InitSafe ==
  ASSUME Retirements!Init
  PROVE  Safe(Retirements!E)
<1>1. /\ Retirements!E.run = [r \in Retiring |-> Retirements!NewRun] /\ Retirements!E.queue = <<>> /\ Retirements!E.wire = [grants |-> {}, renewals |-> {}]
      /\ Retirements!E.books = [orphaned |-> {}, retiring |-> {}, backlog |-> <<>>, closed |-> FALSE, authority |-> 0]
      /\ Retirements!E.leases = [issued |-> 0, ended |-> {}, returned |-> {}, left |-> {}]
      /\ DOMAIN Retirements!E = {"run", "books", "wire", "queue", "leases"}
  BY EIs DEF Retirements!Init, Retirements!E
<1>2. \A r \in Retiring : /\ Retirements!E.run[r].owners = 0 /\ ~Retirements!E.run[r].managed /\ ~Retirements!E.run[r].state /\ Retirements!E.run[r].lease = 0
                     /\ Retirements!E.run[r].reserved = 0 /\ ~Retirements!E.run[r].renewal /\ DOMAIN Retirements!E.run[r] = RunFields
  BY <1>1 DEF Retirements!NewRun, RunFields
<1>3. Numbers(Retirements!E)  BY <1>1, <1>2 DEF Numbers, Shape, Distinct
<1>4. HeldOnce(Retirements!E) /\ Renewing(Retirements!E) /\ Claimed(Retirements!E, {}) /\ NothingAsked(Retirements!E) /\ Checks(Retirements!E) /\ Ways(Retirements!E, 0)
  BY <1>1, <1>2 DEF HeldOnce, Renewing, Claimed, NothingAsked, Checks, Ways
<1>5. Found(Retirements!E, {}) /\ Known(Retirements!E, {}) /\ Retirements!E.books.backlog = <<>>
  BY <1>1, <1>2 DEF Found, Known, Lost, Retirements!Idle, Retirements!Evaluated, Retirements!Quiet
<1>6. QED BY <1>3, <1>4, <1>5 DEF Safe, Sane

LEMMA StepSafe ==
  ASSUME Safe(Retirements!E), [Retirements!Next]_(Retirements!vars)
  PROVE  Safe(Retirements!E)'
<1>1. CASE Retirements!Next
  BY <1>1, NextSafe, BecomesSafe
<1>2. CASE UNCHANGED Retirements!vars
  BY <1>2, EIs, BecomesSafe DEF Retirements!vars, Retirements!Becomes
<1>3. QED BY <1>1, <1>2

LEMMA SafeReturnsOnce ==
  ASSUME Safe(Retirements!E)
  PROVE  Retirements!LeasesReturnOnce
<1>1. /\ Numbers(Retirements!E) /\ HeldOnce(Retirements!E) /\ Ways(Retirements!E, 0)
      /\ Retirements!E.run = run /\ Retirements!E.books = books /\ Retirements!E.queue = queue /\ Retirements!E.leases = leases
      /\ queue \in Seq(Items)
  BY EIs, SafeIs DEF Numbers
<1>2. 1..leases.issued \subseteq Retirements!Held \union leases.ended \union leases.returned \union leases.left
  BY <1>1 DEF Retirements!Held, HeldOnce
<1>3. ASSUME NEW l \in 1..leases.issued
      PROVE  Cardinality(Retirements!OnTheWay(l)) <= 1
 <2>1. \A m, n \in Retirements!OnTheWay(l) : m = n
   BY <1>1 DEF Ways, Apart, Retirements!OnTheWay
 <2>2. CASE Retirements!OnTheWay(l) = {}
   BY <2>2, FS_EmptySet
 <2>3. CASE Retirements!OnTheWay(l) # {}
   BY <2>3, <2>1, FS_Singleton
 <2>4. QED BY <2>2, <2>3
<1>4. ASSUME NEW l \in 1..leases.issued, l \in Retirements!Held, Retirements!OnTheWay(l) # {}
      PROVE  \E r \in books.retiring : run[r].lease = l
  BY <1>4, <1>1 DEF Retirements!OnTheWay, Retirements!Held, Ways, WayOf
<1>5. \A l \in 1..leases.issued : Retirements!Cardinality(Retirements!OnTheWay(l)) <= 1
  BY <1>3, SameCount
<1>6. QED BY <1>2, <1>4, <1>5 DEF Retirements!LeasesReturnOnce

LEMMA SafeForgetsNone ==
  ASSUME Safe(Retirements!E)
  PROVE  Retirements!NoRunForgotten
<1>1. /\ Found(Retirements!E, {}) /\ Known(Retirements!E, {}) /\ (books.backlog # <<>> => Len(queue) > 0)
      /\ Retirements!E.run = run /\ Retirements!E.books = books /\ Retirements!E.wire = wire
  BY EIs, SafeIs
<1>2. /\ \A r \in Retiring : run[r].renewal => \E o \in wire.renewals : o.run = r /\ o.lease = run[r].lease
      /\ \A r \in Retiring \cap books.retiring :
           \E i \in DOMAIN queue : queue[i].kind = "retire" /\ queue[i].run = r
  BY EIs, SafeIs DEF Claimed, Ways
<1>3. QED BY <1>1, <1>2 DEF Found, Known, Lost, Retirements!NoRunForgotten

(* Every lease an answer brought is held by a run, was ended by the server, is on its way back *)
(* or was left to expire, never returned twice at a time (src/budget.ts:3201); and a run whose  *)
(* last owner is gone is retired or waits behind a surrender under way, whatever closes,        *)
(* resets or answers come in between.                                                            *)
THEOREM LeasesComeBackOnce ==
  Retirements!Spec => [](Retirements!LeasesReturnOnce /\ Retirements!NoRunForgotten)
<1>1. Retirements!Init => Safe(Retirements!E)  BY InitSafe
<1>2. Safe(Retirements!E) /\ [Retirements!Next]_(Retirements!vars) => Safe(Retirements!E)'
  BY StepSafe
<1>3. Safe(Retirements!E) => Retirements!LeasesReturnOnce /\ Retirements!NoRunForgotten
  BY SafeReturnsOnce, SafeForgetsNone
<1>4. QED BY <1>1, <1>2, <1>3, PTL DEF Retirements!Spec

-----------------------------------------------------------------------------
(* Stops and the retirement of leases are two behaviours of one run that share no state. *)

(* Leases come back once and no run keeps its lease unnoticed, where the runs are checked *)
(* together with their stops.                                                              *)
THEOREM LeasesStayReturned == PartsSpec => []LeasesReturnOnce
<1>1. PartsInit => Retirements!Init  BY DEF PartsInit
<1>2. [PartsNext]_<<part, vars, retireVars>> => [Retirements!Next]_(Retirements!vars)
  BY DEF PartsNext, retireVars, Retirements!vars
<1>3. Retirements!LeasesReturnOnce /\ Retirements!NoRunForgotten => LeasesReturnOnce
  BY DEF LeasesReturnOnce
<1>4. PartsSpec => Retirements!Spec  BY <1>1, <1>2, PTL DEF PartsSpec, Retirements!Spec
<1>5. QED BY <1>3, <1>4, LeasesComeBackOnce, PTL
=============================================================================
