-------------------------- MODULE BudgetAuthority --------------------------
(***************************************************************************)
(* What the budget enforcer (src/src/budget.ts) keeps of the answers it    *)
(* got, and decides calls by when it cannot ask: the denial of the whole   *)
(* project, the denials of single runs, and the cached allows.             *)
(*                                                                         *)
(* Answers come in any order.  A per-call check (a POST in flight) is      *)
(* ordered by when its request left; a lease answer, to a grant or to a    *)
(* renewal, by when it was observed; a denial of an agent run that reaches *)
(* a call without a run only blocks what is older than itself.  One clock  *)
(* of sequence numbers orders the first two, the monotonic clock orders    *)
(* denials of runs.  What a lease answer does to the ledger is in          *)
(* LeaseLedger, how a directive reaches open streams is in RunControl, and *)
(* the gate around a check is in ProjectBinding.                           *)
(***************************************************************************)
EXTENDS Integers, Sequences, SequencesExt

CONSTANTS
  Run,           \* agent runs
  NoRun,         \* the run of a call outside any run
  Chain,         \* the keys of the allow cache
  FailOpen,      \* the client's fail_open option
  MaxCached,     \* ALLOW_CACHE_MAX_ENTRIES
  MaxRunDenials, \* MAX_STICKY_RUN_DENIALS
  MaxSequence,   \* bound: dispatches and observations
  MaxTime,       \* bound of the monotonic clock
  MaxEpoch,      \* bound: authority changes
  MaxInFlight    \* bound: requests in flight

Never == 0 - 1

ASSUME AuthorityAssumption ==
  /\ NoRun \notin Run
  /\ FailOpen \in BOOLEAN
  /\ MaxCached \in Nat \ {0} /\ MaxRunDenials \in Nat \ {0}
  /\ {MaxSequence, MaxTime, MaxEpoch, MaxInFlight} \subseteq Nat

VARIABLES
  auth,     \* the retained authority, as the fields of BudgetEnforcer
  stopped,  \* run-control: when a server stop of the run was last observed
  asked,    \* requests in flight
  sequence, \* authoritySequence
  now,      \* monotonicNow
  epoch,    \* authorityEpoch
  local,    \* history: the run of a call that was just allowed without asking
  newest    \* history: the newest check answer that spoke of the project

vars == <<auth, stopped, asked, sequence, now, epoch, local, newest>>

Runs == Run \cup {NoRun}
Time == 0 .. MaxTime
Stamps == 0 .. MaxSequence
Verdicts == {"allow", "allow_hard", "project", "agent_run", "run_stopped", "tag", "alert"}

(* A global denial: who filed it and when its request left; 0 is none.     *)
Denial == [kind : {"none", "ordered", "lease", "fallback"}, dispatch : Stamps]
NoDenial == [kind |-> "none", dispatch |-> 0]

(* globalAuthorityOrder.  Only a lease has an observation of its own, and a *)
(* watermark that may be above its dispatch.                                *)
Order == [kind : {"none", "ordered", "lease", "fallback", "suppressed"},
          dispatch : Stamps, observed : Stamps, watermark : Stamps]
NoOrder == [kind |-> "none", dispatch |-> 0, observed |-> 0, watermark |-> 0]

Request == [kind : {"check", "lease"}, run : Runs, key : Chain, cacheable : BOOLEAN,
            dispatch : Stamps, at : Time, epoch : 0 .. MaxEpoch]

TypeOK ==
  /\ auth.order \in Order /\ auth.order.kind # "suppressed"
  /\ auth.deny \in Denial
  /\ {auth.completed, auth.fallback} \subseteq Stamps
  /\ \A i \in DOMAIN auth.cache : auth.cache[i] \in [key : Chain, epoch : 0 .. MaxEpoch]
  /\ \A i \in DOMAIN auth.runs : auth.runs[i] \in [run : Run, at : Time]
  /\ Len(auth.cache) <= MaxCached /\ Len(auth.runs) <= MaxRunDenials
  /\ stopped \in [Run -> Time \cup {Never}]
  /\ asked \subseteq Request
  /\ sequence \in Stamps /\ now \in Time /\ epoch \in 0 .. MaxEpoch
  /\ local \in Runs \cup {"nobody"}
  /\ newest \in [dispatch : Stamps, denied : BOOLEAN, leased : Stamps]

Init ==
  /\ auth = [order |-> NoOrder, deny |-> NoDenial, completed |-> 0, fallback |-> 0,
             cache |-> <<>>, runs |-> <<>>]
  /\ stopped = [r \in Run |-> Never]
  /\ asked = {} /\ sequence = 0 /\ now = 0 /\ epoch = 0
  /\ local = "nobody"
  /\ newest = [dispatch |-> 0, denied |-> FALSE, leased |-> 0]

-----------------------------------------------------------------------------
(* Insertion-ordered maps, the least recently used entry first *)

LastEntries(s, n) == SubSeq(s, Max({1, Len(s) - n + 1}), Len(s))

RunAt(runs, r) == {i \in DOMAIN runs : runs[i].run = r}
KeyAt(cache, k) == {i \in DOMAIN cache : cache[i].key = k}

(* A key has one entry; deleting one that is not there changes nothing.    *)
Deleted(s, at) == IF at = {} THEN s ELSE RemoveAt(s, CHOOSE i \in at : TRUE)
Touched(s, at) ==
  IF at = {} THEN s ELSE LET i == CHOOSE i \in at : TRUE IN Append(RemoveAt(s, i), s[i])

WithoutRun(runs, r) == Deleted(runs, RunAt(runs, r))
WithoutKey(cache, k) == Deleted(cache, KeyAt(cache, k))
DeniedAt(runs, r) == {runs[i].at : i \in RunAt(runs, r)}

TouchRun(a, r) == [a EXCEPT !.runs = Touched(@, RunAt(@, r))]

FileRun(a, r, at) ==
  [a EXCEPT !.runs = LastEntries(Append(WithoutRun(@, r), [run |-> r, at |-> at]), MaxRunDenials)]

(* Only an unscoped, untagged check that may carry no reservation is cached; *)
(* an allow under hard_deny needs one.                                       *)
Stored(a, q, verdict) ==
  IF q.cacheable /\ verdict # "allow_hard"
  THEN [a EXCEPT !.cache = LastEntries(Append(WithoutKey(@, q.key),
                                              [key |-> q.key, epoch |-> q.epoch]), MaxCached)]
  ELSE a

-----------------------------------------------------------------------------
(* The order of global authority *)

Ordered(q) == [kind |-> "ordered", dispatch |-> q.dispatch, observed |-> 0, watermark |-> q.dispatch]
Fallback(o) == IF o.kind = "ordered" THEN [o EXCEPT !.kind = "fallback"] ELSE o
Leased(q, seen) == [kind |-> "lease", dispatch |-> q.dispatch, observed |-> seen,
                    watermark |-> q.dispatch]

Retained(o) == [kind |-> o.kind, dispatch |-> o.dispatch]
Denied(a) == a.deny # NoDenial

(* A lease answer keeps the highest watermark a lease has set.             *)
Raised(a, o) ==
  IF a.order.kind = "lease" /\ a.order.watermark > o.watermark
  THEN [o EXCEPT !.watermark = a.order.watermark] ELSE o

(* An observation older than the retained lease's only raises its watermark. *)
SeenBefore(a, o) == a.order.kind = "lease" /\ o.observed < a.order.observed
RaiseOnly(a, o) == [a EXCEPT !.order.watermark = Raised(a, o).watermark]

Completed(a, o) == [a EXCEPT !.completed = Max({@, o.dispatch})]

(* clearGlobalHardDeny: the payload goes, its order stays as a tombstone.  *)
ClearGlobal(a, o) ==
  CASE o.kind \in {"suppressed", "fallback"} -> a
    [] o.kind = "ordered" ->
         IF o.dispatch <= a.order.watermark THEN a
         ELSE [Completed(a, o) EXCEPT !.order = o, !.deny = NoDenial]
    [] o.kind = "lease" ->
         IF SeenBefore(a, o) THEN RaiseOnly(a, o)
         ELSE IF a.order.kind # "lease" /\ o.dispatch <= a.order.dispatch THEN a
         ELSE [a EXCEPT !.order = Raised(a, o), !.deny = NoDenial]

Weaker(a, o) ==
  LET since == IF a.order.kind = "lease" THEN a.order.observed ELSE a.order.dispatch
  IN  o.dispatch < since \/ (o.dispatch = since /\ Denied(a))

(* A fallback before the lease still fences what was pending when it came. *)
Fenced(a, o) ==
  IF a.order.kind = "fallback" /\ a.order.dispatch > o.watermark
  THEN [o EXCEPT !.watermark = a.order.dispatch] ELSE Raised(a, o)

FileGlobal(a, o) ==
  CASE o.kind = "suppressed" -> a
    [] o.kind = "ordered" ->
         IF o.dispatch < a.order.watermark \/ (o.dispatch = a.order.watermark /\ Denied(a)) THEN a
         ELSE [Completed(a, o) EXCEPT !.order = o, !.deny = Retained(o)]
    [] o.kind = "fallback" ->
         IF Weaker(a, o) THEN a
         ELSE [a EXCEPT !.fallback = o.dispatch, !.order = o,
                        !.deny = IF Denied(a) THEN @ ELSE Retained(o)]
    [] o.kind = "lease" ->
         IF SeenBefore(a, o) THEN RaiseOnly(a, o)
         ELSE IF a.order.kind = "ordered" /\ o.dispatch < a.order.dispatch THEN a
         ELSE [a EXCEPT !.order = Fenced(a, o), !.deny = Retained(o)]

-----------------------------------------------------------------------------
(* Folding one verdict into what is retained *)

ServerStopAfter(q) == q.run # NoRun /\ stopped[q.run] >= q.at
(* clearServerTerminationBeforeRequest: a stop not newer than the request goes. *)
StopsAfterAllow(q) ==
  IF q.run = NoRun \/ ServerStopAfter(q) THEN stopped ELSE [stopped EXCEPT ![q.run] = Never]

RunDenialAfter(a, q) == q.run # NoRun /\ \E at \in DeniedAt(a.runs, q.run) : at >= q.at

(* foldRunStateForAllow: a newer denial of the run wins, an older one goes,  *)
(* and a newer stop whose denial was evicted is filed again.                 *)
FoldRun(a, q) ==
  IF q.run = NoRun THEN a
  ELSE IF RunDenialAfter(a, q) THEN TouchRun(a, q.run)
  ELSE IF ServerStopAfter(q)
       THEN FileRun([a EXCEPT !.runs = WithoutRun(@, q.run)], q.run, stopped[q.run])
  ELSE [a EXCEPT !.runs = WithoutRun(@, q.run)]

RunWins(a, q) == RunDenialAfter(a, q) \/ ServerStopAfter(q)

(* observedAt of a filed denial: a known stop keeps its own stamp.         *)
StampFor(q, verdict) ==
  IF verdict = "run_stopped" /\ stopped[q.run] # Never THEN stopped[q.run] ELSE now

(* A plausible bug: the denial of a project leaves the cached allows.      *)
ClassifyKeepingCache(a, q, verdict, o, at) ==
  CASE verdict = "project" -> FileGlobal(a, o)
    [] OTHER -> ClearGlobal(a, o)

(* classifyHardDeny: a denial goes to its scope.  at is its observation.   *)
ClassifyHardDeny(a, q, verdict, o, at) ==
  LET uncached == [a EXCEPT !.cache = <<>>]
  IN  CASE verdict = "alert" ->
             LET b == ClearGlobal(uncached, o)
             IN  IF RunDenialAfter(b, q) THEN b ELSE [b EXCEPT !.runs = WithoutRun(@, q.run)]
        [] verdict = "agent_run" /\ q.run # NoRun -> FileRun(ClearGlobal(a, o), q.run, at)
        [] verdict = "run_stopped" /\ q.run # NoRun -> FileRun(a, q.run, at)
        [] verdict \in {"agent_run", "run_stopped"} /\ q.run = NoRun ->
             IF Fallback(o).kind = "fallback" \/ ~Denied(a)
             THEN FileGlobal(uncached, Fallback(o)) ELSE uncached
        [] verdict = "tag" -> ClearGlobal(a, o)
        [] verdict = "project" -> FileGlobal(uncached, o)

(* matchingDirectiveResult: the run is marked stopped and denied at once.  *)
Directive(q) ==
  /\ stopped' = [stopped EXCEPT ![q.run] = now]
  /\ auth' = FileRun(auth, q.run, now)

-----------------------------------------------------------------------------
(* History: the newest answers about the project *)

Speaks(q, verdict) ==
  CASE verdict \in {"allow", "allow_hard", "tag", "alert", "project"} -> TRUE
    [] verdict = "agent_run" -> q.run # NoRun
    [] verdict = "run_stopped" -> FALSE

Heard(q, verdict) ==
  IF Speaks(q, verdict) /\ q.dispatch > newest.dispatch
  THEN [newest EXCEPT !.dispatch = q.dispatch, !.denied = verdict = "project"]
  ELSE newest

(* The newest request for a lease whose answer spoke of the project.       *)
HeardLease(q) == [newest EXCEPT !.leased = Max({@, q.dispatch})]

-----------------------------------------------------------------------------
(* A call's check *)

(* A request left, and nothing was decided locally. *)
Dispatched(q) ==
  /\ Cardinality(asked) < MaxInFlight /\ sequence < MaxSequence
  /\ sequence' = sequence + 1
  /\ asked' = asked \cup {[q EXCEPT !.dispatch = sequence']}
  /\ local' = "nobody"

NewRequest(kind, run, key, cacheable) ==
  [kind |-> kind, run |-> run, key |-> key, cacheable |-> cacheable,
   dispatch |-> 0, at |-> now, epoch |-> epoch]

(* allowCacheEligible: only a call outside any run. *)
CacheEligible(run, cacheable) == cacheable => run = NoRun

(* The cache answers a call while its entry lives. *)
CacheHit(key) ==
  /\ KeyAt(auth.cache, key) # {}
  /\ auth' = [auth EXCEPT !.cache = Touched(@, KeyAt(@, key))]
  /\ local' = NoRun
  /\ UNCHANGED <<stopped, asked, sequence, now, epoch, newest>>

(* A miss drops an entry that has expired. *)
Missed(key, cacheable) ==
  IF cacheable THEN [auth EXCEPT !.cache = WithoutKey(@, key)] ELSE auth

SendCheck(run, key, cacheable) ==
  /\ CacheEligible(run, cacheable)
  /\ Dispatched(NewRequest("check", run, key, cacheable))
  /\ auth' = Missed(key, cacheable)
  /\ UNCHANGED <<stopped, now, epoch, newest>>

(* handleOutage: the denials first, then a stop, then fail_open.  Under     *)
(* fail_open = FALSE the local limit decides, which the model leaves open.  *)
Blocked(a, run) ==
  \/ Denied(a)
  \/ run # NoRun /\ (DeniedAt(a.runs, run) # {} \/ stopped[run] # Never)

HandleOutage(a, run) ==
  /\ auth' = IF Denied(a) THEN a ELSE TouchRun(a, run)
  /\ local' \in (IF Blocked(a, run) THEN {"nobody"} ELSE {run}) \cup
                 (IF FailOpen THEN {} ELSE {"nobody"})

(* The deadline is too near, or the control plane's breaker is open.       *)
SkipCheck(run, key, cacheable) ==
  /\ CacheEligible(run, cacheable)
  /\ HandleOutage(Missed(key, cacheable), run)
  /\ UNCHANGED <<stopped, asked, sequence, now, epoch, newest>>

Answered(q, kind) == q \in asked /\ q.kind = kind /\ asked' = asked \ {q}

CheckFails(q) ==
  /\ Answered(q, "check")
  /\ HandleOutage(auth, q.run)
  /\ UNCHANGED <<stopped, sequence, now, epoch, newest>>

(* Aborted by the caller, refused by the plane, or of an earlier authority. *)
CheckDiscarded(q) ==
  /\ Answered(q, "check")
  /\ local' = "nobody"
  /\ UNCHANGED <<auth, stopped, sequence, now, epoch, newest>>

Keeps(q) == q.epoch = epoch

(* The retained denial outranks an answer to an older request.             *)
GlobalWins(q) == Denied(auth) /\ auth.order.watermark > q.dispatch

Applied(q, verdict) ==
  IF verdict \in {"allow", "allow_hard"}
  THEN LET b == ClearGlobal(FoldRun(auth, q), Ordered(q))
       IN  IF GlobalWins(q) \/ RunWins(auth, q) THEN b ELSE Stored(b, q, verdict)
  ELSE ClassifyHardDeny(auth, q, verdict, Ordered(q), StampFor(q, verdict))

(* applyCloudResponse. *)
CheckAnswered(q, verdict) ==
  /\ Answered(q, "check") /\ Keeps(q)
  /\ auth' = Applied(q, verdict)
  /\ stopped' = IF verdict \in {"allow", "allow_hard"} THEN StopsAfterAllow(q) ELSE stopped
  /\ newest' = Heard(q, verdict)
  /\ local' = "nobody"
  /\ UNCHANGED <<sequence, now, epoch>>

(* A directive for this run; one for another run that stops degrades the    *)
(* answer to an outage, and one that does not is dropped from the answer,   *)
(* which is passed on and kept nowhere.                                     *)
CheckStops(q) ==
  /\ Answered(q, "check") /\ Keeps(q) /\ q.run # NoRun
  /\ Directive(q)
  /\ local' = "nobody"
  /\ UNCHANGED <<sequence, now, epoch, newest>>

CheckMisrouted(q) ==
  /\ Answered(q, "check") /\ Keeps(q)
  /\ \/ HandleOutage(auth, q.run)
     \/ UNCHANGED auth /\ local' = "nobody"
  /\ UNCHANGED <<stopped, sequence, now, epoch, newest>>

-----------------------------------------------------------------------------
(* Lease answers: an initial grant or a renewal *)

(* leaseEntryEligible: a denial sends a run's calls to the per-call check;  *)
(* a renewal may leave whatever is retained.                                *)
SendLease(run, key) ==
  /\ Dispatched(NewRequest("lease", run, key, FALSE))
  /\ UNCHANGED <<auth, stopped, now, epoch, newest>>

PendingAfter(q) == \E p \in asked : p.kind = "check" /\ p.dispatch > q.dispatch

Outranks(q) ==
  /\ Denied(auth)
  /\ auth.order.kind # "lease" /\ auth.order.dispatch > q.dispatch

(* A plausible bug: a lease answer is not fenced by newer checks. *)
SupersededNever(q, verdict) == FALSE

(* leaseGlobalAuthorityFence: newer checks, answered or pending, go first. *)
Superseded(q, verdict) ==
  LET allowed == verdict \in {"allow", "allow_hard"}
      clears == allowed \/ verdict \in {"alert", "agent_run", "tag"}
  IN  \/ auth.completed > q.dispatch
      \/ allowed /\ (PendingAfter(q) \/ Outranks(q))
      \/ clears /\ auth.fallback > q.dispatch

LeaseOrder(q, verdict, seen) ==
  IF Superseded(q, verdict) THEN [Ordered(q) EXCEPT !.kind = "suppressed"] ELSE Leased(q, seen)

(* A failure, an answer of an earlier authority or of a lease the run holds  *)
(* no longer, a directive for another run: nothing is retained of it.        *)
LeaseDiscarded(q) ==
  /\ Answered(q, "lease")
  /\ local' = "nobody"
  /\ UNCHANGED <<auth, stopped, sequence, now, epoch, newest>>

LeaseStops(q) ==
  /\ Answered(q, "lease") /\ Keeps(q)
  /\ Directive(q)
  /\ local' = "nobody"
  /\ UNCHANGED <<sequence, now, epoch, newest>>

(* A grant that is superseded, or of a run denied meanwhile, goes back to   *)
(* the plane; the run's half of the allow still counts.                     *)
LeaseAllowed(q) ==
  /\ auth' = LET b == FoldRun(auth, q)
             IN  IF Superseded(q, "allow") \/ RunDenialAfter(auth, q) THEN b
                 ELSE ClearGlobal(b, Leased(q, sequence'))
  /\ newest' = IF Superseded(q, "allow") \/ RunDenialAfter(auth, q) THEN newest ELSE HeardLease(q)

LeaseDenied(q, verdict) ==
  /\ auth' = ClassifyHardDeny(auth, q, verdict, LeaseOrder(q, verdict, sequence'), now)
  /\ newest' = IF Superseded(q, verdict) \/ verdict = "run_stopped" THEN newest ELSE HeardLease(q)

(* A run that stopped meanwhile takes no lease answer. *)
LeaseAnswered(q, verdict) ==
  /\ Answered(q, "lease") /\ Keeps(q) /\ stopped[q.run] = Never
  /\ sequence < MaxSequence /\ sequence' = sequence + 1
  /\ IF verdict = "allow" THEN LeaseAllowed(q) ELSE LeaseDenied(q, verdict)
  /\ local' = "nobody"
  /\ UNCHANGED <<stopped, now, epoch>>

-----------------------------------------------------------------------------
(* The surroundings *)

(* resetAuthority: the binding moved; denials outlive it, allows do not.   *)
ResetAuthority ==
  /\ epoch < MaxEpoch /\ epoch' = epoch + 1
  /\ auth' = [auth EXCEPT !.cache = <<>>]
  /\ local' = "nobody"
  /\ UNCHANGED <<stopped, asked, sequence, now, newest>>

(* clearRunTermination, which an application may call for a run of its own. *)
Resume(r) ==
  /\ stopped[r] # Never /\ stopped' = [stopped EXCEPT ![r] = Never]
  /\ local' = "nobody"
  /\ UNCHANGED <<auth, asked, sequence, now, epoch, newest>>

Tick ==
  /\ now < MaxTime /\ now' = now + 1
  /\ local' = "nobody"
  /\ UNCHANGED <<auth, stopped, asked, sequence, epoch, newest>>

Check ==
  \E run \in Runs, key \in Chain, cacheable \in BOOLEAN :
    SendCheck(run, key, cacheable) \/ SkipCheck(run, key, cacheable)

Answer(q) ==
  \/ CheckFails(q) \/ CheckDiscarded(q) \/ CheckStops(q) \/ CheckMisrouted(q)
  \/ \E verdict \in Verdicts : CheckAnswered(q, verdict)
  \/ LeaseDiscarded(q) \/ LeaseStops(q)
  \/ \E verdict \in Verdicts \ {"allow_hard"} : LeaseAnswered(q, verdict)

Next ==
  \/ Check
  \/ \E key \in Chain : CacheHit(key)
  \/ \E run \in Run, key \in Chain : SendLease(run, key)
  \/ \E q \in asked : Answer(q)
  \/ ResetAuthority
  \/ \E r \in Run : Resume(r)
  \/ Tick

Spec == Init /\ [][Next]_vars

-----------------------------------------------------------------------------
(* Properties *)

(* While the newest check answered denied the project, and no lease answer to *)
(* a later request spoke since, no call is let through by the cache or by an  *)
(* outage.                                                                    *)
NewestDenialHolds ==
  newest.denied /\ newest.leased < newest.dispatch => Denied(auth) /\ local = "nobody"

(* A denial that a check left is never older than the newest check answered,  *)
(* but for one that a weaker denial of a later request (fallback) holds up.   *)
DenialIsTheNewest ==
  auth.deny.kind = "ordered" =>
    newest.dispatch <= IF auth.order.kind = "fallback" THEN auth.fallback ELSE auth.deny.dispatch

(* Cached allows are of the present authority, and none is left to answer a   *)
(* call while the project is denied: the cache is read before the denial.     *)
CacheIsCurrent ==
  /\ Denied(auth) => auth.cache = <<>>
  /\ \A i \in DOMAIN auth.cache : auth.cache[i].epoch = epoch

(* Answers are reordered at will, but what the enforcer does without asking   *)
(* follows the newest request it has an answer to.                            *)
NewestCheckDecides == NewestDenialHolds /\ DenialIsTheNewest /\ CacheIsCurrent

(* A retained denial of the project ends with the answer to a request that   *)
(* left later than the denied one, or, lease after lease, was seen later and *)
(* is not of a time before a check the enforcer has an answer to.            *)
ProjectDenialEnds ==
  Denied(auth) /\ ~Denied(auth)' =>
    \E q \in asked \ asked' :
      \/ q.dispatch > auth.deny.dispatch
      \/ q.kind = "lease" /\ auth.deny.kind = "lease" /\ auth.completed <= q.dispatch

(* One of a run ends with the answer to a request that left after the denial *)
(* was seen, or by the bound on remembered runs, least recently used first.  *)
RunDenialEnds(r) ==
  DeniedAt(auth.runs, r) # {} /\ DeniedAt(auth'.runs, r) = {} =>
    \/ \E q \in asked \ asked' : q.run = r /\ \A at \in DeniedAt(auth.runs, r) : q.at > at
    \/ Len(auth.runs) = MaxRunDenials /\ Head(auth.runs).run = r

(* No answer to an older request ends a denial.                              *)
DenialOutlivesOlderAnswers ==
  [][ProjectDenialEnds /\ \A r \in Run : RunDenialEnds(r)]_vars
=============================================================================
