----------------------- MODULE CircuitBreaker_proofs -----------------------
(* Proofs about CircuitBreaker, for every set of admissions and tunings: *)
(* the one probe slot, calls counted once and late outcomes that change *)
(* nothing; and about BreakerReports, for every set of providers. *)
EXTENDS CircuitBreaker, Sequences, FiniteSetTheorems, TLAPS

USE DEF Never, Absent, NoToken, CircuitState

(* Whatever window a tuning samples is within the modelled ages. *)
LEMMA WindowsInRange ==
  \A t \in Tunings : t.windows # {} /\ t.windows \subseteq 0 .. MaxAge
<1> SUFFICES ASSUME NEW t \in Tunings
             PROVE  t.windows # {} /\ t.windows \subseteq 0 .. MaxAge
  OBVIOUS
<1>1. t \in Tuning /\ t.windows # {} /\ (\A w \in t.windows : w <= MaxAge) /\ MaxAge \in Nat
  BY BreakerAssumption
<1>2. t.windows \subseteq Nat  BY <1>1 DEF Tuning
<1>3. QED BY <1>1, <1>2

LEMMA FreedSlotTyped ==
  FreeProbe => halfOpenProbeActive' \in BOOLEAN /\ halfOpenProbeToken' \in Nat
<1> SUFFICES ASSUME FreeProbe
             PROVE  halfOpenProbeActive' \in BOOLEAN /\ halfOpenProbeToken' \in Nat
  OBVIOUS
<1>1. halfOpenProbeActive' \in BOOLEAN  BY Zenon DEF FreeProbe
<1>2. halfOpenProbeToken' \in Nat  BY DEF FreeProbe
<1>3. QED BY <1>1, <1>2

(* Every variable stays in its range: in particular the sampled window *)
(* never outgrows MaxAge, so that an open circuit's wait is finite. *)
THEOREM TypeCorrect == Spec => []TypeOK
<1> USE WindowsInRange
<1>1. Init => TypeOK
 <2> SUFFICES ASSUME Init
              PROVE  TypeOK
   OBVIOUS
 <2>1. effectiveWindow \in 0 .. MaxAge /\ tuning \in Tunings
   BY DEF Init
 <2>2. admissions \in [Admission -> Nat \cup {Absent}] /\ token \in [Admission -> Nat]
   BY DEF Init
 <2>3. QED BY <2>1, <2>2 DEF Init, TypeOK
<1>2. TypeOK /\ [Next]_vars => TypeOK'
 <2> SUFFICES ASSUME TypeOK, [Next]_vars
              PROVE TypeOK'
   OBVIOUS
 <2>0. MaxAge \in Nat /\ Scalar \notin Admission
   BY BreakerAssumption
 <2> USE <2>0 DEF TypeOK
 <2>1. ASSUME NEW a \in Admission, Admit(a)
       PROVE TypeOK'
  <3>1. CASE AdmitClosed(a)
    BY <2>1, <3>1 DEF Admit, AdmitClosed, Enter, Witness, core
  <3>2. CASE AdmitRecovery(a)
    BY <2>1, <3>2 DEF Admit, AdmitRecovery, MintProbe, Enter, Witness
  <3>3. CASE AdmitNextProbe(a)
    BY <2>1, <3>3 DEF Admit, AdmitNextProbe, MintProbe, Enter, Witness
  <3>4. QED BY <2>1, <3>1, <3>2, <3>3 DEF Admit
 <2>2. ASSUME NEW a \in Admission \cup {Scalar}, RecordSuccess(a)
       PROVE TypeOK'
  <3>0. /\ admissions' \in [Admission -> Nat \cup {Absent}]
        /\ issued' = issued /\ token' = token /\ tuning' = tuning
        /\ probeTokenCounter' = probeTokenCounter
        /\ current' \subseteq issued /\ counted' \subseteq issued
        /\ unscoped' \subseteq {Scalar}
    BY <2>2 DEF RecordSuccess, Reporters, Consume, Witness
  <3>1. CASE UNCHANGED core
    BY <3>0, <3>1 DEF core
  <3>2. CASE SuccessWhileClosed /\ UNCHANGED sinceFailure
    BY <3>0, <3>2 DEF SuccessWhileClosed
  <3>3. CASE SuccessWhileHalfOpen /\ UNCHANGED sinceFailure
    BY <3>0, <3>3, FreedSlotTyped DEF SuccessWhileHalfOpen, TransitionToClosed
  <3>4. QED BY <2>2, <3>1, <3>2, <3>3 DEF RecordSuccess
 <2>3. ASSUME NEW a \in Admission \cup {Scalar}, RecordFailure(a)
       PROVE TypeOK'
  <3>0. /\ admissions' \in [Admission -> Nat \cup {Absent}]
        /\ issued' = issued /\ token' = token /\ tuning' = tuning
        /\ probeTokenCounter' = probeTokenCounter
        /\ current' \subseteq issued /\ counted' \subseteq issued
        /\ unscoped' \subseteq {Scalar}
    BY <2>3 DEF RecordFailure, Reporters, Consume, Witness
  <3>1. CASE UNCHANGED core
    BY <3>0, <3>1 DEF core
  <3>2. CASE FailureWhileClosed /\ sinceFailure' = 0
    BY <3>0, <3>2, FreedSlotTyped DEF FailureWhileClosed, TransitionToOpen
  <3>3. CASE FailureWhileHalfOpen /\ sinceFailure' = 0
    BY <3>0, <3>3, FreedSlotTyped DEF FailureWhileHalfOpen, TransitionToOpen
  <3>4. CASE FailureWhileOpen /\ sinceFailure' = 0
    BY <3>0, <3>4 DEF FailureWhileOpen
  <3>5. QED BY <2>3, <3>1, <3>2, <3>3, <3>4 DEF RecordFailure
 <2>4. ASSUME NEW a \in Admission \cup {Scalar}, ReleaseProbe(a)
       PROVE TypeOK'
  <3>1. CASE UNCHANGED core
    BY <2>4, <3>1 DEF ReleaseProbe, Consume, core, history
  <3>2. CASE FreeProbe /\ UNCHANGED <<state, failureCount, successCount, sinceFailure,
                                      effectiveWindow, episode>>
    BY <2>4, <3>2 DEF ReleaseProbe, Consume, FreeProbe, history
  <3>3. QED BY <2>4, <3>1, <3>2 DEF ReleaseProbe
 <2>5. ASSUME NEW t \in Tunings, ReplaceTuning(t)
       PROVE TypeOK'
   BY <2>5 DEF ReplaceTuning, history
 <2>6. CASE Tick
   BY <2>6 DEF Tick, history
 <2>7. CASE UNCHANGED vars
   BY <2>7 DEF vars, core, history
 <2>8. QED BY <2>1, <2>2, <2>3, <2>4, <2>5, <2>6, <2>7 DEF Next, Report
<1>3. QED BY <1>1, <1>2, PTL DEF Spec

-----------------------------------------------------------------------------
(* An unreported admission belongs to an episode that has begun, so the *)
(* episode a transition begins has no admission yet. *)
EpisodesBegun == \A a \in Admission : admissions[a] <= episode

(* Only an issued admission is in the map. *)
OnlyIssued == \A a \in Admission \ issued : admissions[a] = Absent

(* The inductive invariant behind the slot property. *)
SlotInv ==
  /\ EpisodesBegun
  /\ OnlyIssued
  /\ SlotHasOneOwner

(* The slot of a half-open circuit is never orphaned, and where outcomes *)
(* name their admissions it is never shared: as long as callers report or *)
(* release what they were admitted for, the circuit is decided. *)
THEOREM SlotIsSafe == Spec => []SlotHasOneOwner
<1> USE BreakerAssumption
<1>1. Init => SlotInv  BY DEF Init, SlotInv, EpisodesBegun, OnlyIssued, SlotHasOneOwner, ProbesOut
<1>2. TypeOK /\ TypeOK' /\ SlotInv /\ [Next]_vars => SlotInv'
 <2> SUFFICES ASSUME TypeOK, TypeOK', SlotInv, [Next]_vars
              PROVE SlotInv'
   OBVIOUS
 <2> USE DEF TypeOK, SlotInv, EpisodesBegun, OnlyIssued, SlotHasOneOwner,
             ProbesOut
 <2>1. ASSUME NEW a \in Admission, Admit(a)
       PROVE SlotInv'
   BY <2>1 DEF Admit, Witness, AdmitClosed, Enter, core, AdmitRecovery, RecoveryEligible, MintProbe, AdmitNextProbe
 <2>2. ASSUME NEW a \in Admission \cup {Scalar}, RecordSuccess(a)
       PROVE SlotInv'
  <3>0. unscoped' = unscoped \cup ({a} \cap {Scalar})  BY <2>2 DEF RecordSuccess, Witness
  <3>1. CASE Accepts(a) /\ state = "closed"
    BY <2>2, <3>0, <3>1 DEF RecordSuccess, Reporters, Consume, Accepts, SuccessWhileClosed,
                      SuccessWhileHalfOpen
  <3>2. CASE Accepts(a) /\ state = "half_open"
   <4> USE <2>2, <3>0, <3>2 DEF RecordSuccess, Reporters, Consume, Accepts,
           OwnsLiveProbe, SuccessWhileClosed, SuccessWhileHalfOpen, FreeProbe
   <4>1. CASE successCount + 1 >= tuning.successThreshold
     BY <4>1 DEF TransitionToClosed
   <4>2. CASE ~(successCount + 1 >= tuning.successThreshold)
    <5>1. /\ ~halfOpenProbeActive' /\ state' = "half_open" /\ episode' = episode
          /\ token' = token /\ issued' = issued
          /\ \A x \in Admission : admissions'[x] = IF x = a THEN Absent ELSE admissions[x]
      BY <4>2
    <5>2. ASSUME unscoped' = {}
          PROVE  ProbesOut' = {}
     <6>1. unscoped = {} /\ a \in ProbesOut
       BY <5>2
     <6>2. \A x \in ProbesOut' : x \in ProbesOut /\ x # a
       BY <5>1
     <6>3. QED BY <6>1, <6>2
    <5>3. QED BY <5>1, <5>2
   <4>3. QED BY <4>1, <4>2
  <3>3. CASE ~Accepts(a) \/ state = "open"
    BY <2>2, <3>0, <3>3 DEF RecordSuccess, Reporters, Consume, Accepts, OwnsLiveProbe, core
  <3>4. QED BY <3>1, <3>2, <3>3 DEF CircuitState
 <2>3. ASSUME NEW a \in Admission \cup {Scalar}, RecordFailure(a)
       PROVE SlotInv'
   BY <2>3 DEF RecordFailure, Witness, Reporters, Consume, Accepts, FailureWhileClosed, FailureWhileHalfOpen, FailureWhileOpen, TransitionToOpen, FreeProbe, OwnsLiveProbe, core, CircuitState
 <2>4. ASSUME NEW a \in Admission \cup {Scalar}, ReleaseProbe(a)
       PROVE SlotInv'
   BY <2>4 DEF ReleaseProbe, Consume, OwnsLiveProbe, FreeProbe, history, core
 <2>5. ASSUME NEW t \in Tunings, ReplaceTuning(t)
       PROVE SlotInv'
   BY <2>5 DEF ReplaceTuning, history
 <2>6. CASE Tick
   BY <2>6 DEF Tick, history
 <2>7. CASE UNCHANGED vars
   BY <2>7 DEF vars, core, history
 <2>8. QED BY <2>1, <2>2, <2>3, <2>4, <2>5, <2>6, <2>7 DEF Next, Report
<1>3. SlotInv => SlotHasOneOwner  BY DEF SlotInv
<1>4. QED BY <1>1, <1>2, <1>3, TypeCorrect, PTL DEF Spec

-----------------------------------------------------------------------------
(* A call that counted has used its admission up, so that it cannot count *)
(* again; the history of counted calls is finite, so that they can be counted. *)
CountInv ==
  /\ IsFiniteSet(counted)
  /\ \A a \in counted : admissions[a] = Absent
  /\ CallsCountOnce

(* A call that counts for the first time is one more. *)
LEMMA OneMoreCounted ==
  ASSUME IsFiniteSet(counted), NEW a, a \notin counted
  PROVE  /\ IsFiniteSet(counted \cup {a}) /\ Cardinality(counted) \in Nat
         /\ Cardinality(counted \cup {a}) = Cardinality(counted) + 1
BY FS_AddElement, FS_CardinalityType

(* What Witness makes of a report, in the terms of the invariant. *)
LEMMA WitnessKeeps ==
  ASSUME TypeOK, CountInv, NEW a \in Reporters, Consume(a), NEW moved \in BOOLEAN,
         Witness(FALSE, a, moved)
  PROVE  /\ IsFiniteSet(counted') /\ \A x \in counted' : admissions'[x] = Absent
         /\ unscoped' = {} => unscoped = {} /\ a # Scalar
         /\ state' # state => counted' = {}
         /\ state' = state => counted' = counted \cup (IF moved /\ a # Scalar THEN {a} ELSE {})
<1>1. /\ counted' = IF state' # state THEN {}
                    ELSE counted \cup (IF moved /\ a # Scalar THEN {a} ELSE {})
      /\ unscoped' = unscoped \cup ({a} \cap {Scalar})
  BY DEF Witness
<1>2. \A x \in Admission : admissions'[x] = IF x = a THEN Absent ELSE admissions[x]
  BY DEF Consume
<1>3. counted \subseteq Admission /\ (a # Scalar => a \in Admission)
  BY DEF TypeOK, Reporters
<1>4. IsFiniteSet(counted')
 <2>1. IsFiniteSet(counted) /\ IsFiniteSet(counted \cup {a}) /\ IsFiniteSet({})
   BY FS_AddElement, FS_EmptySet DEF CountInv
 <2> QED BY <1>1, <2>1
<1>5. \A x \in counted' : x \in counted \/ (x = a /\ a # Scalar)
  BY <1>1
<1>6. \A x \in counted' : admissions'[x] = Absent
  BY <1>2, <1>3, <1>5 DEF CountInv
<1> QED BY <1>1, <1>4, <1>6

(* One call counts once, for any number of calls, tunings and report orders: *)
(* the failures that open the circuit, and the successes that close it, come *)
(* from as many distinct calls, however often and late each is reported. *)
THEOREM CallsAreCountedOnce == Spec => []CallsCountOnce
<1> USE BreakerAssumption
<1>1. Init => CountInv  BY FS_EmptySet DEF Init, CountInv, CallsCountOnce
<1>2. TypeOK /\ TypeOK' /\ CountInv /\ [Next]_vars => CountInv'
 <2> SUFFICES ASSUME TypeOK, TypeOK', CountInv, [Next]_vars
              PROVE CountInv'
   OBVIOUS
 <2>0. /\ failureCount \in Nat /\ successCount \in Nat /\ counted \subseteq issued
       /\ IsFiniteSet(counted) /\ Cardinality(counted) \in Nat
       /\ IsFiniteSet({}) /\ Cardinality({}) = 0
   BY FS_CardinalityType, FS_EmptySet DEF TypeOK, CountInv
 <2>1. ASSUME NEW a \in Admission, Admit(a)
       PROVE CountInv'
  <3>1. /\ a \notin issued /\ unscoped' = unscoped
        /\ counted' = IF state' # state THEN {} ELSE counted
        /\ admissions' = [admissions EXCEPT ![a] = episode]
    BY <2>1 DEF Admit, Witness, AdmitClosed, AdmitRecovery, AdmitNextProbe, MintProbe, Enter
  <3>2. \A x \in counted' : admissions'[x] = Absent
    BY <2>0, <3>1 DEF CountInv, TypeOK
  <3>3. CallsCountOnce'
    BY <3>1, <2>0, <2>1 DEF AdmitClosed, AdmitNextProbe, core, CountInv, CallsCountOnce, AdmitRecovery, RecoveryEligible, Admit
  <3> QED BY <2>0, <3>1, <3>2, <3>3 DEF CountInv
 <2>2. ASSUME NEW a \in Admission \cup {Scalar}, RecordSuccess(a)
       PROVE CountInv'
  <3> DEFINE moved == successCount' # successCount
  <3>1. /\ a \in Reporters /\ Consume(a) /\ Witness(FALSE, a, moved)
    BY <2>2 DEF RecordSuccess
  <3>2. moved \in BOOLEAN  OBVIOUS
  <3>3. /\ IsFiniteSet(counted') /\ \A x \in counted' : admissions'[x] = Absent
        /\ unscoped' = {} => unscoped = {} /\ a # Scalar
        /\ state' # state => counted' = {}
        /\ state' = state => counted' = counted \cup (IF moved /\ a # Scalar THEN {a} ELSE {})
    BY <3>1, <3>2, WitnessKeeps
  <3>4. CallsCountOnce'
   <4> SUFFICES ASSUME unscoped' = {}
                PROVE  /\ state' = "closed" => failureCount' <= Cardinality(counted')
                       /\ state' = "half_open" => successCount' <= Cardinality(counted')
     BY DEF CallsCountOnce
   <4>1. /\ unscoped = {} /\ a # Scalar
         /\ state = "closed" => failureCount <= Cardinality(counted)
         /\ state = "half_open" => successCount <= Cardinality(counted)
     BY <3>3 DEF CountInv, CallsCountOnce
   <4>2. CASE UNCHANGED core
     BY <3>3, <4>1, <4>2 DEF core
   <4>3. CASE SuccessWhileClosed
     BY <2>0, <3>3, <4>3 DEF SuccessWhileClosed
   <4>4. CASE SuccessWhileHalfOpen /\ successCount + 1 >= tuning.successThreshold
     BY <2>0, <3>3, <4>4 DEF SuccessWhileHalfOpen, TransitionToClosed
   <4>5. CASE /\ Accepts(a) /\ SuccessWhileHalfOpen
              /\ ~(successCount + 1 >= tuning.successThreshold)
    <5>1. successCount' = successCount + 1 /\ state' = state /\ state = "half_open"
      BY <4>5 DEF SuccessWhileHalfOpen
    <5>2. moved  BY <2>0, <5>1
    <5>3. a \notin counted
      BY <4>1, <4>5 DEF Accepts, TypeOK, CountInv
    <5>4. counted' = counted \cup {a}  BY <3>3, <4>1, <5>1, <5>2
    <5>5. Cardinality(counted') = Cardinality(counted) + 1  BY <2>0, <5>3, <5>4, OneMoreCounted
    <5> QED BY <2>0, <4>1, <5>1, <5>5
   <4> QED BY <2>2, <4>2, <4>3, <4>4, <4>5 DEF RecordSuccess
  <3> QED BY <3>3, <3>4 DEF CountInv
 <2>3. ASSUME NEW a \in Admission \cup {Scalar}, RecordFailure(a)
       PROVE CountInv'
  <3> DEFINE moved == failureCount' # failureCount
  <3>1. /\ a \in Reporters /\ Consume(a) /\ Witness(FALSE, a, moved)
    BY <2>3 DEF RecordFailure
  <3>2. moved \in BOOLEAN  OBVIOUS
  <3>3. /\ IsFiniteSet(counted') /\ \A x \in counted' : admissions'[x] = Absent
        /\ unscoped' = {} => unscoped = {} /\ a # Scalar
        /\ state' # state => counted' = {}
        /\ state' = state => counted' = counted \cup (IF moved /\ a # Scalar THEN {a} ELSE {})
    BY <3>1, <3>2, WitnessKeeps
  <3>4. CallsCountOnce'
   <4> SUFFICES ASSUME unscoped' = {}
                PROVE  /\ state' = "closed" => failureCount' <= Cardinality(counted')
                       /\ state' = "half_open" => successCount' <= Cardinality(counted')
     BY DEF CallsCountOnce
   <4>1. /\ unscoped = {} /\ a # Scalar
         /\ state = "closed" => failureCount <= Cardinality(counted)
         /\ state = "half_open" => successCount <= Cardinality(counted)
     BY <3>3 DEF CountInv, CallsCountOnce
   <4>2. CASE UNCHANGED core
     BY <3>3, <4>1, <4>2 DEF core
   <4>3. CASE FailureWhileOpen
     BY <4>3 DEF FailureWhileOpen
   <4>4. CASE FailureWhileHalfOpen \/ (FailureWhileClosed /\ failureCount + 1 >= tuning.failureThreshold)
     BY <4>4 DEF FailureWhileHalfOpen, FailureWhileClosed, TransitionToOpen
   <4>5. CASE /\ Accepts(a) /\ FailureWhileClosed
              /\ ~(failureCount + 1 >= tuning.failureThreshold)
    <5>1. failureCount' = failureCount + 1 /\ state' = state /\ state = "closed"
      BY <4>5 DEF FailureWhileClosed
    <5>2. moved  BY <2>0, <5>1
    <5>3. a \notin counted
      BY <4>1, <4>5 DEF Accepts, TypeOK, CountInv
    <5>4. counted' = counted \cup {a}  BY <3>3, <4>1, <5>1, <5>2
    <5>5. Cardinality(counted') = Cardinality(counted) + 1  BY <2>0, <5>3, <5>4, OneMoreCounted
    <5> QED BY <2>0, <4>1, <5>1, <5>5
   <4> QED BY <2>3, <4>2, <4>3, <4>4, <4>5 DEF RecordFailure
  <3> QED BY <3>3, <3>4 DEF CountInv
 <2>4. ASSUME NEW a \in Admission \cup {Scalar}, ReleaseProbe(a)
       PROVE CountInv'
   BY <2>4 DEF ReleaseProbe, Consume, core, history, CountInv, TypeOK, CallsCountOnce
 <2>5. CASE \/ \E t \in Tunings : ReplaceTuning(t)
            \/ Tick
            \/ UNCHANGED vars
   BY <2>5 DEF ReplaceTuning, Tick, vars, core, history, CountInv, CallsCountOnce
 <2>6. QED BY <2>1, <2>2, <2>3, <2>4, <2>5 DEF Next, Report
<1>3. CountInv => CallsCountOnce  BY DEF CountInv
<1>4. QED BY <1>1, <1>2, <1>3, TypeCorrect, PTL DEF Spec

-----------------------------------------------------------------------------
(* The episode fence does what the history says it should: an admission from *)
(* before the circuit last opened or closed belongs to an earlier episode. *)
FenceInv ==
  /\ EpisodesBegun
  /\ \A a \in issued \ current : admissions[a] < episode

(* A late outcome is inert, whenever it arrives and whatever it reports: a call *)
(* admitted before the circuit last opened or closed moves no counter, no state *)
(* and no recovery window. *)
THEOREM LateOutcomesAreInert == Spec => LateOutcomeInert
<1> USE BreakerAssumption
<1>1. Init => FenceInv  BY DEF Init, FenceInv, EpisodesBegun
<1>2. TypeOK /\ TypeOK' /\ FenceInv /\ [Next]_vars => FenceInv'
 <2> SUFFICES ASSUME TypeOK, TypeOK', FenceInv, [Next]_vars
              PROVE FenceInv'
   OBVIOUS
 <2>0. /\ episode \in Nat /\ admissions \in [Admission -> Nat \cup {Absent}]
       /\ issued \subseteq Admission /\ current \subseteq issued
       /\ \A x \in Admission : admissions[x] \in Int /\ admissions[x] <= episode
       /\ \A x \in issued \ current : admissions[x] < episode
   BY DEF TypeOK, FenceInv, EpisodesBegun
 <2>1. ASSUME NEW a \in Admission, Admit(a)
       PROVE FenceInv'
   BY <2>1, <2>0 DEF Admit, Witness, AdmitClosed, AdmitRecovery, AdmitNextProbe, MintProbe, Enter, core, FenceInv, EpisodesBegun
 <2>2. ASSUME NEW a, Consume(a), issued' = issued,
              \/ episode' = episode /\ current' = current
              \/ episode' = episode + 1 /\ current' = {}
       PROVE FenceInv'
   BY <2>2, <2>0 DEF Consume, FenceInv, EpisodesBegun
 <2>3. ASSUME NEW a \in Admission \cup {Scalar}, RecordSuccess(a)
       PROVE FenceInv'
   BY <2>3, <2>2 DEF RecordSuccess, Witness, SuccessWhileClosed, SuccessWhileHalfOpen, TransitionToClosed, core
 <2>4. ASSUME NEW a \in Admission \cup {Scalar}, RecordFailure(a)
       PROVE FenceInv'
   BY <2>4, <2>2 DEF RecordFailure, Witness, FailureWhileClosed, FailureWhileHalfOpen, FailureWhileOpen, TransitionToOpen, core
 <2>5. ASSUME NEW a \in Admission \cup {Scalar}, ReleaseProbe(a)
       PROVE FenceInv'
   BY <2>5, <2>2 DEF ReleaseProbe, core, history
 <2>6. CASE \/ \E t \in Tunings : ReplaceTuning(t)
            \/ Tick
            \/ UNCHANGED vars
   BY <2>6 DEF ReplaceTuning, Tick, vars, core, history, FenceInv, EpisodesBegun
 <2>7. QED BY <2>1, <2>3, <2>4, <2>5, <2>6 DEF Next, Report
<1>3. TypeOK /\ FenceInv =>
        \A a \in issued \ current : RecordSuccess(a) \/ RecordFailure(a) \/ ReleaseProbe(a) => UNCHANGED core
 <2> SUFFICES ASSUME TypeOK, FenceInv, NEW a \in issued \ current,
                     RecordSuccess(a) \/ RecordFailure(a) \/ ReleaseProbe(a)
              PROVE UNCHANGED core
   OBVIOUS
 <2>1. admissions[a] # episode /\ a # Scalar
   BY DEF FenceInv, TypeOK
 <2>2. ~Accepts(a) /\ ~ReleaseProbe(a)
   BY <2>1 DEF Accepts, ReleaseProbe
 <2> QED BY <2>2 DEF RecordSuccess, RecordFailure
<1>4. QED BY <1>1, <1>2, <1>3, TypeCorrect, PTL DEF Spec, LateOutcomeInert
-----------------------------------------------------------------------------
(* What the metadata reporter tells the control plane of the breakers. *)

CONSTANTS Provider, Health, Heartbeat, MaxRateLimits, Delay, MaxTime, MaxWall, MaxStamp

VARIABLES now, health, lastSent, stamp, rateLimits, holdUntil, failedCycles, retryAt, heartbeatAt,
          cycle, stage, expired, lost, told, gaveUp

Reports == INSTANCE BreakerReports

\* Finitely many providers, times are numbers, and a backoff takes some time.
ReportBounds == IsFiniteSet(Provider) /\ Health # {} /\ Heartbeat \in Nat /\ Delay \subseteq Nat \ {0}

Said == Health \cup {Reports!None}
Cycles == [due: Seq(Provider), seen: [Provider -> Said], wall: Nat, forced: BOOLEAN,
           delivered: BOOLEAN, failed: BOOLEAN, retryAfter: Nat]

ReportTypes ==
  /\ now \in Nat /\ health \in [Provider -> Health] /\ lastSent \in [Provider -> Said]
  /\ stamp \in [Provider -> Nat] /\ gaveUp \in [Provider -> BOOLEAN]
  /\ holdUntil \in Nat /\ retryAt \in Nat /\ failedCycles \in BOOLEAN
  /\ cycle \in Cycles
  /\ lost \in SUBSET [of: Provider, says: Said, at: Nat]
  /\ told \in [Provider -> [says: Said, at: Nat]]

(* No report is stamped later than its provider's last one. *)
Stamps == (\A p \in Provider : told[p].at <= stamp[p]) /\ (\A r \in lost : r.at <= stamp[r.of])

(* The providers of a cycle come once and are not acknowledged. *)
Once(line) == \A i, j \in DOMAIN line : i # j => line[i] # line[j]
Unheard == Once(cycle.due) /\ \A i \in DOMAIN cycle.due : lastSent[cycle.due[i]] = Reports!None

(* The report under way is newer than all before it. *)
Newest == Reports!Active =>
  LET p == cycle.due[1] IN told[p].at < stamp[p] /\ \A r \in lost : r.of = p => r.at < stamp[p]

(* What was acknowledged is what the control plane has, and no older report can replace it. *)
Settled == \A p \in Provider : lastSent[p] # Reports!None =>
  gaveUp[p] \/ (told[p].says = lastSent[p] /\ \A r \in lost : r.of = p => r.at <= told[p].at)

ReportInv == ReportTypes /\ Stamps /\ Unheard /\ Newest /\ Settled /\ Reports!BackoffIsEarned

LEMMA MaxIs ==
  ASSUME NEW a \in Int, NEW b \in Int
  PROVE  Reports!Max({a, b}) \in Int /\ Reports!Max({a, b}) >= a /\ Reports!Max({a, b}) >= b
<1>1. \E x \in {a, b} : \A y \in {a, b} : x >= y
  OBVIOUS
<1>2. QED BY <1>1 DEF Reports!Max

LEMMA StampedIs ==
  ASSUME NEW w \in Nat, NEW t \in Nat
  PROVE  Reports!Stamped(w, t) \in Nat /\ Reports!Stamped(w, t) > t
<1>1. w \in Int /\ t + 1 \in Int  OBVIOUS
<1>2. Reports!Max({w, t + 1}) \in Int /\ Reports!Max({w, t + 1}) >= t + 1  BY <1>1, MaxIs
<1>3. QED BY <1>2 DEF Reports!Stamped

LEMMA ReportsCount == \A S : Reports!Cardinality(S) = Cardinality(S)
BY Zenon DEF Reports!Cardinality, Cardinality

LEMMA ReportsInit ==
  ASSUME ReportBounds, Reports!Init
  PROVE  ReportInv
<1>1. /\ now = Heartbeat /\ holdUntil = 0 /\ retryAt = 0 /\ failedCycles = FALSE /\ lost = {}
      /\ lastSent = [p \in Provider |-> Reports!None] /\ stamp = [p \in Provider |-> 0]
      /\ cycle = Reports!NoCycle /\ gaveUp = [p \in Provider |-> FALSE]
      /\ told = [p \in Provider |-> [says |-> Reports!None, at |-> 0]]
  BY DEF Reports!Init
<1>2. (CHOOSE h \in Health : TRUE) \in Health  BY DEF ReportBounds
<1>3. health \in [Provider -> Health]  BY <1>2 DEF Reports!Init
<1>4. cycle \in Cycles /\ cycle.due = <<>>  BY <1>1 DEF Reports!NoCycle, Cycles, Said
<1>5. ReportTypes  BY <1>1, <1>3, <1>4 DEF ReportTypes, ReportBounds, Said
<1>6. Stamps /\ Settled /\ Reports!BackoffIsEarned  BY <1>1 DEF Stamps, Settled, Reports!BackoffIsEarned
<1>7. Unheard /\ Newest  BY <1>4 DEF Unheard, Once, Newest, Reports!Active
<1>8. QED BY <1>5, <1>6, <1>7 DEF ReportInv

(* A cycle begins with a fresh stamp for its first provider. *)
LEMMA Starts ==
  ASSUME ReportBounds, ReportInv, NEW force \in BOOLEAN, Reports!StartCycle(force),
         UNCHANGED <<now, health, holdUntil, failedCycles, retryAt, lost, told>>
  PROVE  ReportInv'
<1> DEFINE due == {p \in Provider : force \/ Reports!HeartbeatDue \/ Reports!Changed(p)}
<1>1. PICK wall \in 1 .. MaxWall, order \in Reports!SetToSeqs(due) :
        /\ cycle' = [Reports!NoCycle EXCEPT !.due = order, !.seen = health, !.wall = wall, !.forced = force]
        /\ stamp' = [stamp EXCEPT ![Head(order)] = Reports!Stamped(wall, stamp[Head(order)])]
  BY DEF Reports!StartCycle
<1>2. due # {} /\ lastSent' = [p \in Provider |-> IF p \in due THEN Reports!None ELSE lastSent[p]] /\ gaveUp' = gaveUp
  BY DEF Reports!StartCycle, Reports!books
<1>a. due \in SUBSET Provider  OBVIOUS
<1> HIDE DEF due
<1>3. IsFiniteSet(due) /\ Cardinality(due) \in Nat \ {0}
  BY <1>2, <1>a, FS_Subset, FS_CardinalityType, FS_EmptySet DEF ReportBounds
<1>b. order \in [1 .. Cardinality(due) -> due] /\ Once(order)
  BY ReportsCount DEF Reports!SetToSeqs, Once
<1>4. /\ order \in Seq(Provider) /\ Len(order) = Cardinality(due) /\ Once(order)
      /\ \A i \in DOMAIN order : order[i] \in due
  BY <1>3, <1>b, <1>a
<1>5. Head(order) = order[1] /\ 1 \in DOMAIN order /\ order[1] \in Provider  BY <1>3, <1>4
<1> DEFINE p == order[1]
           at == Reports!Stamped(wall, stamp[p])
<1>6. stamp[p] \in Nat  BY <1>5 DEF ReportInv, ReportTypes
<1>c. wall \in Nat  OBVIOUS
<1>7. at \in Nat /\ at > stamp[p]  BY <1>6, <1>c, StampedIs
<1> HIDE DEF at
<1>8. stamp' = [stamp EXCEPT ![p] = at]  BY <1>1, <1>5 DEF at
<1>9. cycle' \in Cycles /\ cycle'.due = order
  BY <1>1, <1>4, <1>c DEF Reports!NoCycle, Cycles, Said, ReportInv, ReportTypes
<1>10. ReportTypes'
  BY <1>2, <1>5, <1>7, <1>8, <1>9 DEF ReportInv, ReportTypes, Said
<1>11. \A q \in Provider : stamp'[q] >= stamp[q] /\ stamp[q] \in Nat /\ stamp'[q] \in Nat
  BY <1>7, <1>8, <1>10 DEF ReportInv, ReportTypes
<1>12. Stamps'
  BY <1>11 DEF ReportInv, ReportTypes, Stamps
<1>13. Unheard'  BY <1>2, <1>4, <1>9 DEF Unheard, ReportInv, ReportTypes, Once
<1>14. Newest'
  BY <1>5, <1>8, <1>6, <1>7, <1>9 DEF ReportInv, ReportTypes, Stamps, Newest
<1>15. Settled'  BY <1>2 DEF Settled, ReportInv
<1>16. QED BY <1>10, <1>12, <1>13, <1>14, <1>15 DEF ReportInv, Reports!BackoffIsEarned

(* What a cycle leaves for the next one keeps the backoff earned. *)
LEMMA Notes ==
  ASSUME ReportBounds, ReportInv, NEW c \in Cycles, Reports!NoteOutcome(c)
  PROVE  retryAt' \in Nat /\ failedCycles' \in BOOLEAN /\ Reports!BackoffIsEarned'
<1>1. CASE c.failed
 <2>1. PICK backoff \in Delay : retryAt' = now + Reports!Max({c.retryAfter, backoff})
   BY <1>1 DEF Reports!NoteOutcome
 <2>2. c.retryAfter \in Nat /\ backoff \in Nat \ {0} /\ now \in Nat
   BY DEF Cycles, ReportBounds, ReportInv, ReportTypes
 <2>3. Reports!Max({c.retryAfter, backoff}) \in Nat \ {0}  BY <2>2, MaxIs
 <2>4. QED BY <1>1, <2>1, <2>2, <2>3 DEF Reports!NoteOutcome, Reports!BackoffIsEarned
<1>2. CASE ~c.failed
 <2>1. c.delivered \in BOOLEAN /\ retryAt \in Nat /\ failedCycles \in BOOLEAN /\ Reports!BackoffIsEarned
   BY DEF ReportInv, ReportTypes, Cycles
 <2>2. CASE c.delivered  BY <1>2, <2>2 DEF Reports!NoteOutcome, Reports!BackoffIsEarned
 <2>3. CASE ~c.delivered
   BY <1>2, <2>1, <2>3 DEF Reports!NoteOutcome, Reports!BackoffIsEarned
 <2>4. QED BY <2>2, <2>3
<1>3. QED BY <1>1, <1>2

(* After the answer for p, the cycle's first: p is acknowledged or not (said), its report has arrived *)
(* or is lost, and the next provider's report is stamped. *)
LEMMA GoesOn ==
  ASSUME ReportBounds, ReportInv, Reports!Active, NEW c \in Cycles, c.due = cycle.due, NEW hold, Reports!GoOn(c, hold),
         NEW p, p = Head(cycle.due), NEW said \in Said,
         now' = now, health' = health, holdUntil' \in Nat, gaveUp' \in [Provider -> BOOLEAN],
         lastSent' = [lastSent EXCEPT ![p] = said],
         lost' \in SUBSET (lost \cup {Reports!Report(p)}),
         told' = told \/ told' = Reports!Arrived(Reports!Report(p)),
         \A q \in Provider : q # p => gaveUp'[q] = gaveUp[q],
         said # Reports!None => gaveUp'[p] \/ (told' = Reports!Arrived(Reports!Report(p)) /\ said = cycle.seen[p])
  PROVE  ReportInv'
<1>1. cycle \in Cycles /\ cycle.due \in Seq(Provider) /\ cycle.due # <<>>
  BY DEF ReportInv, ReportTypes, Cycles, Reports!Active
<1>2. p = cycle.due[1] /\ p \in Provider /\ 1 \in DOMAIN cycle.due  BY <1>1
<1> DEFINE r == Reports!Report(p)
           rest == Tail(cycle.due)
<1>3. r = [of |-> p, says |-> cycle.seen[p], at |-> stamp[p]] /\ r \in [of: Provider, says: Said, at: Nat]
  BY <1>1, <1>2 DEF Reports!Report, Cycles, ReportInv, ReportTypes
<1> HIDE DEF r
<1>4. /\ r.of = p /\ r.says = cycle.seen[p] /\ r.at = stamp[p] /\ told[p].at < r.at
      /\ \A x \in lost : x.of = p => x.at < r.at
  BY <1>2, <1>3 DEF ReportInv, Newest
<1>5. Reports!Arrived(r) = [told EXCEPT ![p] = [says |-> cycle.seen[p], at |-> stamp[p]]]
  BY <1>4 DEF Reports!Arrived
<1>6. /\ told' \in [Provider -> [says: Said, at: Nat]] /\ \A q \in Provider : q # p => told'[q] = told[q]
      /\ told'[p].at <= stamp[p]
      /\ told' = Reports!Arrived(r) => told'[p].says = cycle.seen[p] /\ told'[p].at = stamp[p]
 <2>1. told \in [Provider -> [says: Said, at: Nat]] /\ told[p].at <= stamp[p]
   BY <1>2 DEF ReportInv, ReportTypes, Stamps
 <2>2. cycle.seen[p] \in Said /\ stamp[p] \in Nat  BY <1>3
 <2>3. told' = told \/ told' = [told EXCEPT ![p] = [says |-> cycle.seen[p], at |-> stamp[p]]]  BY <1>5 DEF r
 <2>4. QED BY <1>2, <1>5, <2>1, <2>2, <2>3
<1>7. lost' \in SUBSET [of: Provider, says: Said, at: Nat] /\ \A x \in lost' : x \in lost \/ x = r
  BY <1>3 DEF r, ReportInv, ReportTypes
<1>8. /\ rest \in Seq(Provider) /\ Once(rest) /\ \A i \in DOMAIN rest : rest[i] # p /\ lastSent[rest[i]] = Reports!None
      /\ rest # <<>> => Head(rest) = rest[1] /\ rest[1] \in Provider /\ 1 \in DOMAIN rest
 <2>1. rest \in Seq(Provider) /\ Len(rest) = Len(cycle.due) - 1 /\ \A i \in DOMAIN rest : rest[i] = cycle.due[i + 1]
   BY <1>1
 <2>2. Once(cycle.due) /\ \A i \in DOMAIN cycle.due : lastSent[cycle.due[i]] = Reports!None
   BY DEF ReportInv, Unheard
 <2> HIDE DEF rest
 <2>3. \A i \in DOMAIN rest : i + 1 \in DOMAIN cycle.due /\ i + 1 # 1 /\ i \in Nat  BY <1>1, <2>1
 <2>4. Once(rest)  BY <2>1, <2>2, <2>3 DEF Once
 <2>5. \A i \in DOMAIN rest : rest[i] # p /\ lastSent[rest[i]] = Reports!None  BY <1>2, <2>1, <2>2, <2>3 DEF Once
 <2>6. QED BY <2>1, <2>4, <2>5
<1> HIDE DEF rest
<1>9. /\ cycle' \in Cycles /\ (cycle'.due = <<>> \/ (cycle'.due = rest /\ rest # <<>>))
      /\ stamp' \in [Provider -> Nat] /\ \A q \in Provider : stamp'[q] >= stamp[q]
      /\ cycle'.due # <<>> => stamp'[rest[1]] > stamp[rest[1]]
      /\ retryAt' \in Nat /\ failedCycles' \in BOOLEAN /\ Reports!BackoffIsEarned'
 <2>0. stamp \in [Provider -> Nat]  BY DEF ReportInv, ReportTypes
 <2>1. CASE cycle' = Reports!NoCycle /\ Reports!NoteOutcome(c) /\ UNCHANGED stamp
   BY <2>0, <2>1, Notes DEF Reports!NoCycle, Cycles, Said
 <2>2. CASE /\ rest # <<>> /\ cycle' = [c EXCEPT !.due = rest]
            /\ stamp' = [stamp EXCEPT ![Head(rest)] = Reports!Stamped(c.wall, @)]
            /\ UNCHANGED <<failedCycles, retryAt>>
  <3>1. c.wall \in Nat /\ stamp[rest[1]] \in Nat  BY <1>8, <2>0, <2>2 DEF Cycles
  <3>2. Reports!Stamped(c.wall, stamp[rest[1]]) \in Nat /\ Reports!Stamped(c.wall, stamp[rest[1]]) > stamp[rest[1]]
    BY <3>1, StampedIs
  <3>3. cycle' \in Cycles /\ cycle'.due = rest  BY <1>8, <2>2 DEF Cycles
  <3>4. QED BY <1>8, <2>0, <2>2, <3>1, <3>2, <3>3 DEF ReportInv, ReportTypes, Reports!BackoffIsEarned
 <2>3. QED BY <2>1, <2>2 DEF Reports!GoOn, rest
<1>10. ReportTypes'
  BY <1>2, <1>6, <1>7, <1>9 DEF ReportInv, ReportTypes, Said
<1>11. /\ \A q \in Provider : told[q].at \in Nat /\ told[q].at <= stamp[q] /\ stamp[q] \in Nat /\ stamp'[q] \in Nat
       /\ \A x \in lost : x.at \in Nat /\ x.of \in Provider /\ x.at <= stamp[x.of]
  BY <1>9 DEF ReportInv, ReportTypes, Stamps
<1>12. /\ \A q \in Provider : told'[q].at \in Nat /\ told'[q].at <= stamp[q]
       /\ \A x \in lost' : x.at \in Nat /\ x.of \in Provider /\ x.at <= stamp[x.of]
  BY <1>2, <1>4, <1>6, <1>7, <1>11
<1>13. Stamps'  BY <1>9, <1>11, <1>12 DEF Stamps
<1>14. Unheard'
  BY <1>8, <1>9 DEF Unheard, Once, ReportInv, ReportTypes
<1>15. Newest'
  BY <1>9, <1>8, <1>11, <1>12 DEF Newest, Reports!Active
<1>16. Settled'
  BY <1>2, <1>6, <1>12, <1>4, <1>7 DEF Settled, r, ReportInv, ReportTypes
<1>17. QED BY <1>9, <1>10, <1>13, <1>14, <1>15, <1>16 DEF ReportInv

(* A provider whose report is not due says the same to the control plane as its breaker does, and *)
(* a backoff is pending only after a cycle that failed (reporter.ts:1784). *)
THEOREM HealthStaysReported == ReportBounds => (Reports!Spec => []Reports!HealthIsReported)
<1> SUFFICES ASSUME ReportBounds PROVE Reports!Spec => []Reports!HealthIsReported
  OBVIOUS
<1>1. ASSUME ReportInv, [Reports!Next]_(Reports!vars) PROVE ReportInv'
 <2> DEFINE p == Head(cycle.due)
 <2>0. Reports!Active => p = cycle.due[1] /\ p \in Provider /\ cycle \in Cycles
   BY <1>1 DEF ReportInv, ReportTypes, Cycles, Reports!Active
 <2>z. /\ cycle.seen \in [Provider -> Said] /\ gaveUp \in [Provider -> BOOLEAN] /\ holdUntil \in Nat /\ now \in Nat
       /\ Reports!None \in Said /\ cycle \in Cycles
   BY <1>1 DEF ReportInv, ReportTypes, Cycles, Said
 <2> HIDE DEF p
 <2>1. CASE Reports!RoundEnds
   BY <1>1, <2>1, Starts DEF Reports!RoundEnds
 <2>2. CASE Reports!Force
   BY <1>1, <2>2, Starts DEF Reports!Force, Reports!books, ReportInv, ReportTypes, Stamps, Unheard, Newest, Settled, Reports!Active, Reports!BackoffIsEarned
 <2>3. CASE Reports!Acknowledged
   BY <2>z, <2>0, <2>3, <1>1, GoesOn DEF Cycles, Reports!Acknowledged, Reports!Heard, p
 <2>4. CASE Reports!RateLimited
  <3>1. PICK after \in Delay \cup {0} :
          LET spent == rateLimits[p] + 1 >= MaxRateLimits
              hold == Reports!Max({holdUntil, now + after}) IN
          /\ holdUntil' = hold
          /\ lastSent' = [lastSent EXCEPT ![p] = IF spent THEN cycle.seen[p] ELSE Reports!None]
          /\ gaveUp' = [gaveUp EXCEPT ![p] = spent]
          /\ Reports!GoOn([cycle EXCEPT !.failed = TRUE, !.retryAfter = Reports!Max({@, after})], hold)
    BY <2>4 DEF Reports!RateLimited, p
  <3> DEFINE c == [cycle EXCEPT !.failed = TRUE, !.retryAfter = Reports!Max({@, after})]
             spent == rateLimits[p] + 1 >= MaxRateLimits
  <3>2. after \in Nat /\ cycle.retryAfter \in Nat  BY <2>z DEF ReportBounds, Cycles
  <3>3. Reports!Max({cycle.retryAfter, after}) \in Nat /\ Reports!Max({holdUntil, now + after}) \in Nat
   <4>1. now + after \in Int /\ now + after >= 0  BY <2>z, <3>2
   <4>2. ASSUME NEW a \in Int, NEW b \in Int, b >= 0 PROVE Reports!Max({a, b}) \in Nat
    <5>1. Reports!Max({a, b}) \in Int /\ Reports!Max({a, b}) >= b  BY MaxIs
    <5>2. QED BY <4>2, <5>1
   <4>3. QED BY <2>z, <3>2, <4>1, <4>2
  <3>4. c \in Cycles /\ c.due = cycle.due  BY <2>z, <3>3 DEF Cycles
  <3>5. /\ (IF spent THEN cycle.seen[p] ELSE Reports!None) \in Said /\ gaveUp' \in [Provider -> BOOLEAN]
        /\ \A q \in Provider : q # p => gaveUp'[q] = gaveUp[q]
        /\ (IF spent THEN cycle.seen[p] ELSE Reports!None) # Reports!None => gaveUp'[p]
   <4>1. p \in Provider /\ cycle.seen[p] \in Said  BY <2>0, <2>4, <2>z DEF Reports!RateLimited, Reports!Heard
   <4>2. gaveUp' = [gaveUp EXCEPT ![p] = spent]  BY <3>1
   <4> HIDE DEF spent
   <4>3. spent \in BOOLEAN  BY DEF spent
   <4>4. QED BY <2>z, <4>1, <4>2, <4>3
  <3> HIDE DEF c, spent
  <3>6. QED BY <1>1, <2>4, <3>1, <3>3, <3>4, <3>5, GoesOn DEF Reports!RateLimited, Reports!Heard, p, c, spent
 <2>5. CASE Reports!Refused
   BY <2>z, <2>0, <2>5, <1>1, GoesOn DEF Cycles, Reports!Refused, Reports!Heard, p
 <2>6. CASE Reports!Failed
   BY <2>z, <1>1, <2>6, GoesOn DEF Cycles, Reports!Failed, Reports!Heard, p
 <2>7. CASE Reports!Ignored
  <3>1. /\ cycle' = Reports!NoCycle /\ retryAt' \in Nat /\ failedCycles' \in BOOLEAN /\ Reports!BackoffIsEarned'
        /\ lost' = lost \cup {Reports!Report(p)} /\ p \in Provider /\ lastSent[p] = Reports!None
        /\ Reports!Report(p) = [of |-> p, says |-> cycle.seen[p], at |-> stamp[p]]
    BY <1>1, <2>0, <2>7, <2>z, Notes DEF Reports!Ignored, p, Reports!Report, ReportInv, Unheard, Reports!Active, Cycles
  <3>2. Reports!NoCycle \in Cycles /\ Reports!NoCycle.due = <<>>  BY DEF Reports!NoCycle, Cycles, Said
  <3>3. QED BY <1>1, <2>7, <2>z, <3>1, <3>2 DEF Reports!Ignored, ReportInv, ReportTypes, Stamps, Unheard, Once, Newest, Settled, Reports!Active
 <2>8. CASE Reports!ArrivesLate
  <3>1. PICK r \in lost : lost' = lost \ {r} /\ told' = Reports!Arrived(r)  BY <2>8 DEF Reports!ArrivesLate
  <3>2. r \in [of: Provider, says: Said, at: Nat]  BY <1>1 DEF ReportInv, ReportTypes
  <3>3. told' = told \/ (r.at > told[r.of].at /\ told' = [told EXCEPT ![r.of] = [says |-> r.says, at |-> r.at]])
    BY <3>1 DEF Reports!Arrived
  <3>4. /\ told' \in [Provider -> [says: Said, at: Nat]]
        /\ \A q \in Provider : told'[q] = told[q] \/ (q = r.of /\ told'[q].at = r.at /\ r.at > told[q].at)
    BY <1>1, <3>2, <3>3 DEF ReportInv, ReportTypes
  <3>5. UNCHANGED <<now, health, lastSent, stamp, holdUntil, failedCycles, retryAt, cycle, gaveUp>>
    BY <2>8 DEF Reports!ArrivesLate
  <3>6. r.of \in Provider /\ r.at \in Nat /\ r.at <= stamp[r.of]  BY <1>1, <3>2 DEF ReportInv, Stamps
  <3>7. ReportTypes'  BY <1>1, <3>1, <3>4, <3>5 DEF ReportInv, ReportTypes
  <3>8. Stamps'  BY <1>1, <3>1, <3>4, <3>5, <3>6 DEF ReportInv, Stamps
  <3>9. Newest'  BY <1>1, <3>1, <3>4, <3>5, <3>6, <2>0 DEF ReportInv, Newest, Reports!Active
  <3>10. Settled'
    BY <3>5, <1>1, <3>3, <3>4, <3>6, <3>1 DEF Settled, ReportInv, ReportTypes
  <3>11. QED BY <1>1, <3>5, <3>7, <3>8, <3>9, <3>10 DEF ReportInv, Unheard, Reports!BackoffIsEarned
 <2>9. CASE \/ Reports!Close \/ Reports!Closed \/ Reports!DeadlinePasses \/ Reports!HealthChanges \/ Reports!TimePasses
            \/ UNCHANGED Reports!vars
  <3>1. UNCHANGED <<lastSent, stamp, holdUntil, failedCycles, retryAt, cycle, lost, told, gaveUp>>
    BY <2>9 DEF Reports!Close, Reports!Closed, Reports!DeadlinePasses, Reports!HealthChanges, Reports!TimePasses, Reports!vars
  <3>2. now' \in Nat /\ health' \in [Provider -> Health]
    BY <1>1, <2>9 DEF ReportInv, ReportTypes, Reports!Close, Reports!Closed, Reports!DeadlinePasses, Reports!HealthChanges, Reports!TimePasses, Reports!vars
  <3>3. QED BY <1>1, <3>1, <3>2 DEF ReportInv, ReportTypes, Stamps, Unheard, Newest, Settled, Reports!Active, Reports!BackoffIsEarned
 <2>10. QED BY <1>1, <2>1, <2>2, <2>3, <2>4, <2>5, <2>6, <2>7, <2>8, <2>9 DEF Reports!Next
<1>2. ReportInv => Reports!HealthIsReported
  BY DEF ReportInv, Settled, Reports!HealthIsReported, Reports!ChangesStayDue
<1>3. QED BY <1>1, <1>2, ReportsInit, PTL DEF Reports!Spec

=============================================================================
