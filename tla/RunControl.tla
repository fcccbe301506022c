----------------------------- MODULE RunControl -----------------------------
(***************************************************************************)
(* The process-wide registry of stopped agent runs                         *)
(* (src/src/run-control.ts): which runs were terminated, by whom, and what *)
(* the streams of a run that are still open know about it.                 *)
(*                                                                         *)
(* Three parties meet here.  Budget answers and the local velocity guard   *)
(* mark a run terminated; budget answers of requests dispatched after a    *)
(* server stop, and the application, clear it; each open stream holds a    *)
(* handle that must keep the first winner it saw whatever happens to the   *)
(* registry, whose entries are bounded and evicted least recently used.    *)
(*                                                                         *)
(* All functions are synchronous, so each is one action.  What interleaves *)
(* is the requests (dispatched now, answered later), the streams, and the  *)
(* marks.  The epoch object of a handle is identified by its run and its   *)
(* generation: an epoch is replaced within a generation only when no       *)
(* handle owns it.  Cells of other copies of the package in one process    *)
(* are left out.                                                           *)
(***************************************************************************)
EXTENDS Integers, Sequences, FiniteSets, SequencesExt

CONSTANTS
  Run, Handle,     \* run ids; termination handles, each acquired at most once
  Request,         \* budget requests, each dispatched at most once
  NoRun,           \* the run of a handle or request that does not exist yet
  Unstopped,       \* stands for an undefined termination
  Capacity,        \* MAX_TERMINATED_RUNS
  MaxTime,         \* bound on the clock
  MaxMarks,        \* bound on the RunTermination objects made
  MaxGeneration    \* bound on the clears of a run that has open streams

ASSUME RunControlAssumption ==
  /\ NoRun \notin Run
  /\ Capacity \in Nat \ {0}
  /\ MaxTime \in Nat /\ MaxMarks \in Nat /\ MaxGeneration \in Nat

Source == {"server", "local_velocity"}
Generation == 0 .. MaxGeneration
Undefined == -1    \* an observation stamp that was never set
Stamp == Nat \cup {Undefined}
Termination == [source : Source, atMonotonic : Nat, id : Nat]

ASSUME NoTermination == Unstopped \notin Termination

VARIABLES
  terminations, observedAt,   \* the registry: winner and latest observation per run
  recency,                    \* the runs of the registry, least recently used first
  activeHandles,              \* the runs that have a group of open streams
  generation, groupObservedAt, \* of a run's group
  epoch,                      \* of a run's group, per generation: winner and owners
  handles, requests, clock,
  made,                       \* RunTermination objects made so far, also their ids
  lastMark, clearedAt         \* history: time of a run's last mark; ids made before its last clear

registry == <<terminations, observedAt, recency>>
groups == <<activeHandles, generation, groupObservedAt, epoch>>
vars == <<registry, groups, handles, requests, clock, made, lastMark, clearedAt>>

FreshEpoch == [termination |-> Unstopped, owners |-> 0]
NewHandle == [phase |-> "new", run |-> NoRun, generation |-> 0,
              releasedTermination |-> Unstopped]
NewRequest == [phase |-> "new", run |-> NoRun, dispatchedAt |-> 0]

TypeOK ==
  /\ terminations \in [Run -> Termination \cup {Unstopped}]
  /\ observedAt \in [Run -> Stamp]
  /\ recency \in Seq(Run)
  /\ activeHandles \subseteq Run
  /\ generation \in [Run -> Generation]
  /\ groupObservedAt \in [Run -> Stamp]
  /\ epoch \in [Run -> [Generation -> [termination : Termination \cup {Unstopped}, owners : Nat]]]
  /\ handles \in [Handle -> [phase : {"new", "held", "released"}, run : Run \cup {NoRun}, generation : Generation,
                             releasedTermination : Termination \cup {Unstopped}]]
  /\ requests \in [Request -> [phase : {"new", "waiting", "answered"}, run : Run \cup {NoRun}, dispatchedAt : Nat]]
  /\ clock \in Nat /\ made \in Nat
  /\ lastMark \in [Run -> Nat] /\ clearedAt \in [Run -> Nat]

Init ==
  /\ terminations = [r \in Run |-> Unstopped] /\ observedAt = [r \in Run |-> Undefined]
  /\ recency = <<>>
  /\ activeHandles = {}
  /\ generation = [r \in Run |-> 0] /\ groupObservedAt = [r \in Run |-> Undefined]
  /\ epoch = [r \in Run |-> [g \in Generation |-> FreshEpoch]]
  /\ handles = [h \in Handle |-> NewHandle]
  /\ requests = [q \in Request |-> NewRequest]
  /\ clock = 0 /\ made = 0
  /\ lastMark = [r \in Run |-> 0] /\ clearedAt = [r \in Run |-> 0]

-----------------------------------------------------------------------------
(* What the registry and the groups say. *)

Held(r, g) == {h \in Handle : handles[h].phase = "held" /\ handles[h].run = r /\ handles[h].generation = g}

CurrentEpoch(r) == epoch[r][generation[r]]

(* The winner of the current generation's open streams. *)
ActiveTermination(r) ==
  IF r \in activeHandles THEN CurrentEpoch(r).termination ELSE Unstopped

OrElse(a, b) == IF a # Unstopped THEN a ELSE b

(* outageTermination, postcheckTermination: what gates the next call of r. *)
Visible(r) == OrElse(terminations[r], ActiveTermination(r))

(* What a stream's handle reports. *)
Seen(h) ==
  CASE handles[h].phase = "new"      -> Unstopped
    [] handles[h].phase = "released" -> handles[h].releasedTermination
    [] handles[h].phase = "held"     -> epoch[handles[h].run][handles[h].generation].termination

-----------------------------------------------------------------------------
(* Writing the registry. *)

(* installExact and trimRegistry: r becomes the most recent entry, and the
   least recent ones go. *)
InstallExact(r, w, t) ==
  LET order == Append(Remove(recency, r), r)
      kept  == SubSeq(order, IF Len(order) > Capacity THEN Len(order) - Capacity + 1 ELSE 1, Len(order))
  IN  /\ recency' = kept
      /\ terminations' = [q \in Run |-> IF ~Contains(kept, q) THEN Unstopped
                                        ELSE IF q = r THEN w ELSE terminations[q]]
      /\ observedAt' = [q \in Run |-> IF ~Contains(kept, q) THEN Undefined
                                      ELSE IF q = r THEN t ELSE observedAt[q]]

(* The registry forgets r and its group, if any, moves to a new generation
   with a fresh epoch; the old epoch stays with its holders. *)
Clear(r) ==
  /\ terminations' = [terminations EXCEPT ![r] = Unstopped]
  /\ observedAt' = [observedAt EXCEPT ![r] = Undefined]
  /\ recency' = Remove(recency, r)
  /\ clearedAt' = [clearedAt EXCEPT ![r] = made]
  /\ IF r \in activeHandles
     THEN /\ generation[r] < MaxGeneration
          /\ generation' = [generation EXCEPT ![r] = @ + 1]
          /\ epoch' = [epoch EXCEPT ![r][generation[r] + 1] = FreshEpoch]
          /\ groupObservedAt' = [groupObservedAt EXCEPT ![r] = Undefined]
     ELSE UNCHANGED <<generation, epoch, groupObservedAt>>

-----------------------------------------------------------------------------
(* Marking. *)

(* The preserved first winner, or a new one. *)
Winner(r, source) ==
  OrElse(Visible(r), [source |-> source, atMonotonic |-> clock, id |-> made + 1])

(* One write stops every stream of the current generation. *)
Latch(r, w) ==
  /\ groupObservedAt' = [groupObservedAt EXCEPT ![r] = clock]
  /\ IF CurrentEpoch(r).owners > 0
     THEN epoch' = [epoch EXCEPT ![r][generation[r]].termination = OrElse(@, w)]
     ELSE UNCHANGED epoch

(* markTerminatedWithObservation. *)
MarkTerminated(r, source) ==
  LET w == Winner(r, source) IN
  /\ w.id <= MaxMarks
  /\ made' = IF w.id > made THEN w.id ELSE made
  /\ lastMark' = [lastMark EXCEPT ![r] = clock]
  /\ InstallExact(r, w, clock)
  /\ IF r \in activeHandles THEN Latch(r, w) ELSE UNCHANGED <<groupObservedAt, epoch>>
  /\ UNCHANGED <<activeHandles, generation, handles, clock, clearedAt>>

(* The local guard of a client stops a run, or finds it stopped. *)
LocalStop(r) == MarkTerminated(r, "local_velocity") /\ UNCHANGED requests

-----------------------------------------------------------------------------
(* Streams. *)

(* A plausible bug: a new stream is seeded from the registry alone, so the
   stop an evicted run's siblings obey does not reach it: it owns an
   unlatched epoch of its own. *)
AcquireFresh(h, r) ==
  /\ handles[h].phase = "new"
  /\ LET g == IF r \in activeHandles THEN generation[r] ELSE 0
         old == IF r \in activeHandles THEN epoch[r][g] ELSE FreshEpoch
     IN  /\ handles' = [handles EXCEPT ![h] = [@ EXCEPT !.phase = "held", !.run = r, !.generation = g]]
         /\ epoch' = [epoch EXCEPT ![r][g] = [termination |-> terminations[r], owners |-> old.owners + 1]]
         /\ generation' = [generation EXCEPT ![r] = g]
  /\ activeHandles' = activeHandles \cup {r}
  /\ UNCHANGED <<registry, groupObservedAt, requests, clock, made, lastMark, clearedAt>>

(* A stream of r opens: it joins the current epoch, seeding it from the
   registry when the epoch has no winner. *)
AcquireTerminationHandle(h, r) ==
  LET known == r \in activeHandles
      g == IF known THEN generation[r] ELSE 0
      old == IF known THEN epoch[r][g] ELSE FreshEpoch
      stamp == IF known THEN groupObservedAt[r] ELSE Undefined
      termination == Visible(r)
  IN
  /\ handles[h].phase = "new"
  /\ activeHandles' = activeHandles \cup {r}
  /\ generation' = [generation EXCEPT ![r] = g]
  /\ groupObservedAt' = [groupObservedAt EXCEPT ![r] =
       IF termination = Unstopped \/ stamp # Undefined THEN stamp
       ELSE IF observedAt[r] # Undefined THEN observedAt[r] ELSE termination.atMonotonic]
  /\ epoch' = [epoch EXCEPT ![r][g] = [termination |-> OrElse(old.termination, termination),
                                       owners |-> old.owners + 1]]
  /\ handles' = [handles EXCEPT ![h] = [@ EXCEPT !.phase = "held", !.run = r, !.generation = g]]
  /\ UNCHANGED <<registry, requests, clock, made, lastMark, clearedAt>>

(* A plausible bug: every release of a stopped stream gives the group a
   fresh epoch. *)
AfterReleaseAlways(e, isCurrent) ==
  IF isCurrent /\ e.termination # Unstopped THEN FreshEpoch
  ELSE [e EXCEPT !.owners = @ - 1]

(* An epoch that loses an owner: when the last owner of a stopped current
   epoch leaves, the group moves to a fresh epoch of the generation. *)
AfterRelease(e, isCurrent) ==
  IF e.owners = 1 /\ isCurrent /\ e.termination # Unstopped THEN FreshEpoch
  ELSE [e EXCEPT !.owners = @ - 1]

(* releaseOwnership: the handle keeps what it saw, and the group goes with
   the last handle of any generation. *)
Release(h) ==
  LET r == handles[h].run
      g == handles[h].generation
      e == AfterRelease(epoch[r][g], g = generation[r])
      last == e.owners = 0 /\ \A k \in Generation \ {g} : epoch[r][k].owners = 0
  IN
  /\ handles[h].phase = "held"
  /\ handles' = [handles EXCEPT ![h].phase = "released", ![h].releasedTermination = Seen(h)]
  /\ IF last
     THEN /\ activeHandles' = activeHandles \ {r}
          /\ generation' = [generation EXCEPT ![r] = 0]
          /\ groupObservedAt' = [groupObservedAt EXCEPT ![r] = Undefined]
          /\ epoch' = [epoch EXCEPT ![r] = [k \in Generation |-> FreshEpoch]]
     ELSE /\ epoch' = [epoch EXCEPT ![r][g] = e]
          /\ UNCHANGED <<activeHandles, generation, groupObservedAt>>
  /\ UNCHANGED <<registry, requests, clock, made, lastMark, clearedAt>>

-----------------------------------------------------------------------------
(* Reading and clearing. *)

(* runTermination: a read makes the entry the most recent one. *)
ReadRunTermination(r) ==
  /\ terminations[r] # Unstopped
  /\ InstallExact(r, terminations[r],
                  IF observedAt[r] # Undefined THEN observedAt[r] ELSE terminations[r].atMonotonic)
  /\ UNCHANGED <<groups, handles, requests, clock, made, lastMark, clearedAt>>

(* clearTerminationIf: only a winner of that source is cleared. *)
ClearTerminationIf(r, source) ==
  /\ Visible(r) # Unstopped /\ Visible(r).source = source
  /\ Clear(r)
  /\ UNCHANGED <<activeHandles, handles, requests, clock, made, lastMark>>

(* clearRunTermination, called by the application. *)
ClearRunTermination(r) ==
  /\ Clear(r)
  /\ UNCHANGED <<activeHandles, handles, requests, clock, made, lastMark>>

(* A budget request is dispatched; its epoch is the time read then. *)
Dispatch(q, r) ==
  /\ requests[q].phase = "new"
  /\ requests' = [requests EXCEPT ![q] = [phase |-> "waiting", run |-> r, dispatchedAt |-> clock]]
  /\ UNCHANGED <<registry, groups, handles, clock, made, lastMark, clearedAt>>

(* A plausible bug: the time of the first mark decides, not of the latest. *)
FirstObservation(r, w) == w.atMonotonic

(* When a visible server stop was last observed. *)
LatestObservation(r, w) ==
  CASE /\ ActiveTermination(r) # Unstopped /\ ActiveTermination(r).source = "server"
       /\ groupObservedAt[r] # Undefined -> groupObservedAt[r]
    [] OTHER -> IF observedAt[r] # Undefined THEN observedAt[r] ELSE w.atMonotonic

(* clearServerTerminationBeforeRequest: an allow clears the server stops
   observed before its request, and keeps the others. *)
ClearServerTerminationBeforeRequest(r, requestEpoch) ==
  LET w == Visible(r) IN
  CASE w = Unstopped \/ w.source # "server" -> UNCHANGED <<registry, groups, clearedAt>>
    [] OTHER ->
         IF LatestObservation(r, w) >= requestEpoch
         THEN InstallExact(r, w, LatestObservation(r, w)) /\ UNCHANGED <<groups, clearedAt>>
         ELSE Clear(r) /\ UNCHANGED activeHandles

AllowArrives(q) ==
  /\ requests[q].phase = "waiting"
  /\ requests' = [requests EXCEPT ![q].phase = "answered"]
  /\ ClearServerTerminationBeforeRequest(requests[q].run, requests[q].dispatchedAt)
  /\ UNCHANGED <<handles, clock, made, lastMark>>

(* The answer carries a terminate directive. *)
DirectiveArrives(q) ==
  /\ requests[q].phase = "waiting"
  /\ requests' = [requests EXCEPT ![q].phase = "answered"]
  /\ MarkTerminated(requests[q].run, "server")

Tick ==
  /\ clock < MaxTime
  /\ clock' = clock + 1
  /\ UNCHANGED <<registry, groups, handles, requests, made, lastMark, clearedAt>>

-----------------------------------------------------------------------------
Next ==
  \/ \E r \in Run : \/ LocalStop(r) \/ ReadRunTermination(r) \/ ClearRunTermination(r)
                    \/ \E s \in Source : ClearTerminationIf(r, s)
                    \/ \E h \in Handle : AcquireTerminationHandle(h, r)
                    \/ \E q \in Request : Dispatch(q, r)
  \/ \E h \in Handle : Release(h)
  \/ \E q \in Request : AllowArrives(q) \/ DirectiveArrives(q)
  \/ Tick

Spec == Init /\ [][Next]_vars

-----------------------------------------------------------------------------
(* A stream keeps the first winner it saw, while it is open and after it was
   released, whatever is cleared, evicted or marked later: the abort reason
   of a stream never changes under it (RunTermination's "immutable first
   winner"). *)
FirstWinner ==
  [][\A h \in Handle : Seen(h) # Unstopped => Seen(h)' = Seen(h)]_vars

(* A stop in the registry has reached every open stream of the current
   generation, and it is the same winner there: streams, registry and the
   next call never name two different reasons for one stop.  A stop made
   before a run's last clear gates no new call and no new stream: acquiring,
   releasing, reading and evicting cannot bring it back.  The owner counts
   that decide when an epoch and a group may go equal the open streams, so a
   group is dropped with its last stream and never before, and a stop that
   the registry has evicted goes with the streams it stopped. *)
StopReachesStreams ==
  /\ \A r \in Run :
       /\ \A h \in Held(r, generation[r]) : terminations[r] # Unstopped => Seen(h) = terminations[r]
       /\ Visible(r) # Unstopped => Visible(r).id > clearedAt[r]
       /\ \A g \in Generation : epoch[r][g].owners = Cardinality(Held(r, g))
       /\ (r \in activeHandles) <=> (\E g \in Generation : Held(r, g) # {})
  /\ \A r \in activeHandles :
       CurrentEpoch(r).owners = 0 => CurrentEpoch(r).termination = Unstopped

(* While a stream of the current generation obeys a stop, the run stays
   stopped for every later call until it is cleared, however many other
   runs push it out of the registry. *)
StopOutlivesEviction ==
  [][\A r \in Run :
       (Visible(r) # Unstopped /\ clearedAt'[r] = clearedAt[r] /\ Visible(r)' # Visible(r)) =>
         Held(r, generation[r])' = {}]_vars

(* What stops a run's streams lasts: the reason a stream was given, and the
   stop of the run while a stream obeys it. *)
StopsLast == FirstWinner /\ StopOutlivesEviction

(* An allow clears a server stop exactly when the stop was last observed
   before the allow's request left: an answer that was already under way
   when the stop arrived cannot lift it, and a newer one does. *)
RequestOrderDecides ==
  [][\A q \in Request :
       LET r == requests[q].run IN
       (AllowArrives(q) /\ Visible(r) # Unstopped /\ Visible(r).source = "server") =>
         IF requests[q].dispatchedAt <= lastMark[r] THEN Visible(r)' = Visible(r)
         ELSE Visible(r)' = Unstopped]_vars
=============================================================================
