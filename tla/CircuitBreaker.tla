--------------------------- MODULE CircuitBreaker ---------------------------
(***************************************************************************)
(* One provider's health breaker (src/src/circuit-breaker.ts): a           *)
(* CLOSED / OPEN / HALF_OPEN machine whose HALF_OPEN state lets one probe  *)
(* through at a time.  The same class guards every provider of a client    *)
(* and the control-plane connection of the budget enforcer and reporter.   *)
(*                                                                         *)
(* Each public method is synchronous, so it is one atomic action; what     *)
(* interleaves is the calls that were admitted and have not reported yet.  *)
(* A caller may report an admission more than once (the client releases a  *)
(* probe in a `finally' after recording its outcome) and at any later      *)
(* time, and every such report is allowed here.                            *)
(*                                                                         *)
(* Time is the age of the last recorded failure, up to MaxAge, after which *)
(* every recovery window has elapsed and the exact age no longer matters.  *)
(***************************************************************************)
EXTENDS Integers, FiniteSets

CONSTANTS
  Admission,   \* the admission objects the breaker hands out, each at most once
  Scalar,      \* stands for an outcome reported without an admission
  Tunings,     \* the tunings in force over time; windows holds the recovery
               \* windows that sampling with that tuning's jitter may yield
  MaxAge       \* bound: ages of the last failure past it are not told apart

CircuitState == {"closed", "open", "half_open"}
Tuning == [failureThreshold : Nat \ {0}, successThreshold : Nat \ {0}, windows : SUBSET Nat]

ASSUME BreakerAssumption ==
  /\ Scalar \notin Admission
  /\ Tunings \subseteq Tuning
  /\ \A t \in Tunings : t.windows # {} /\ \A w \in t.windows : w <= MaxAge
  /\ MaxAge \in Nat

VARIABLES
  state, failureCount, successCount,
  sinceFailure,         \* age of lastFailureTime; Never when it is null
  tuning,               \* the options in force
  effectiveWindow,      \* the recovery window sampled when the circuit opened
  halfOpenProbeActive, halfOpenProbeToken, probeTokenCounter,
  episode,
  admissions,           \* the WeakMap: the episode an unreported admission belongs to
  token,                \* the probe token each admission carries
  issued,               \* the admission objects handed out so far
  current, counted, unscoped  \* history, see below

core == <<state, failureCount, successCount, sinceFailure, effectiveWindow,
          halfOpenProbeActive, halfOpenProbeToken, episode>>
history == <<current, counted, unscoped>>
vars == <<core, tuning, probeTokenCounter, admissions, token, issued, history>>

Never   == -1   \* lastFailureTime === null
Absent  == -1   \* no entry in the WeakMap
NoToken == 0    \* probeToken === null; minted tokens start at 1

TypeOK ==
  /\ state \in CircuitState
  /\ failureCount \in Nat /\ successCount \in Nat
  /\ sinceFailure \in (0 .. MaxAge) \cup {Never}
  /\ tuning \in Tunings
  /\ effectiveWindow \in 0 .. MaxAge
  /\ halfOpenProbeActive \in BOOLEAN
  /\ halfOpenProbeToken \in Nat
  /\ probeTokenCounter \in Nat
  /\ episode \in Nat
  /\ admissions \in [Admission -> Nat \cup {Absent}]
  /\ token \in [Admission -> Nat]
  /\ issued \subseteq Admission
  /\ current \subseteq issued
  /\ counted \subseteq issued
  /\ unscoped \subseteq {Scalar}

Init ==
  /\ state = "closed" /\ failureCount = 0 /\ successCount = 0
  /\ sinceFailure = Never
  /\ tuning \in Tunings
  /\ effectiveWindow \in tuning.windows
  /\ halfOpenProbeActive = FALSE /\ halfOpenProbeToken = NoToken
  /\ probeTokenCounter = 0 /\ episode = 0
  /\ admissions = [a \in Admission |-> Absent]
  /\ token = [a \in Admission |-> NoToken]
  /\ issued = {} /\ current = {} /\ counted = {} /\ unscoped = {}

-----------------------------------------------------------------------------
(* Transitions.  Each fixes the whole of core but sinceFailure. *)

FreeProbe == halfOpenProbeActive' = FALSE /\ halfOpenProbeToken' = NoToken

TransitionToOpen ==
  /\ episode' = episode + 1
  /\ state' = "open" /\ successCount' = 0
  /\ FreeProbe
  /\ effectiveWindow' \in tuning.windows

TransitionToClosed ==
  /\ episode' = episode + 1
  /\ state' = "closed" /\ failureCount' = 0 /\ successCount' = 0
  /\ FreeProbe
  /\ UNCHANGED effectiveWindow

(* A plausible bug: a window equal to the largest age is never reached. *)
RecoveryAfterWindow == sinceFailure = Never \/ sinceFailure > effectiveWindow

ShouldAttemptRecovery == sinceFailure = Never \/ sinceFailure >= effectiveWindow

RecoveryEligible == state = "open" /\ ShouldAttemptRecovery

-----------------------------------------------------------------------------
(* History variables.  current holds the admissions issued since the       *)
(* circuit last opened or closed, counted those whose outcome moved a      *)
(* counter or the state since the last change of state; unscoped is empty  *)
(* until an outcome was reported without an admission.  None looks at      *)
(* episode, so they say independently what the episode fence should do.    *)

Witness(issuing, a, moved) ==
  /\ current' = IF state' # state /\ state' # "half_open" THEN {}
                ELSE IF issuing THEN current \cup {a} ELSE current
  /\ counted' = IF state' # state THEN {}
                ELSE counted \cup (IF moved /\ a # Scalar THEN {a} ELSE {})
  /\ unscoped' = unscoped \cup ({a} \cap {Scalar})

-----------------------------------------------------------------------------
(* admit() *)

Enter(a, tok) ==
  /\ admissions' = [admissions EXCEPT ![a] = episode]
  /\ token' = [token EXCEPT ![a] = tok]
  /\ issued' = issued \cup {a}

MintProbe(a) ==
  /\ probeTokenCounter' = probeTokenCounter + 1
  /\ halfOpenProbeToken' = probeTokenCounter + 1
  /\ halfOpenProbeActive' = TRUE
  /\ Enter(a, probeTokenCounter + 1)

AdmitClosed(a) ==
  /\ state = "closed"
  /\ Enter(a, NoToken)
  /\ UNCHANGED <<core, probeTokenCounter>>

(* transitionToHalfOpen, then the probe: episode and last failure stay. *)
AdmitRecovery(a) ==
  /\ RecoveryEligible
  /\ state' = "half_open" /\ successCount' = 0 /\ failureCount' = 0
  /\ MintProbe(a)
  /\ UNCHANGED <<sinceFailure, effectiveWindow, episode>>

AdmitNextProbe(a) ==
  /\ state = "half_open" /\ ~halfOpenProbeActive
  /\ MintProbe(a)
  /\ UNCHANGED <<state, failureCount, successCount, sinceFailure, effectiveWindow, episode>>

(* A refused admission has no entry in the map: reporting it is reporting   *)
(* one that was used up, so a refusal hands out nothing here.              *)
Admit(a) ==
  /\ a \notin issued
  /\ AdmitClosed(a) \/ AdmitRecovery(a) \/ AdmitNextProbe(a)
  /\ Witness(TRUE, a, FALSE)
  /\ UNCHANGED tuning

-----------------------------------------------------------------------------
(* recordSuccess, recordFailure and releaseProbe *)

Reporters == issued \cup {Scalar}

Consume(a) ==
  admissions' = [x \in Admission |-> IF x = a THEN Absent ELSE admissions[x]]

OwnsLiveProbe(a) ==
  /\ state = "half_open" /\ halfOpenProbeActive
  /\ token[a] = halfOpenProbeToken

(* A plausible bug: only the probe token is compared, never the episode. *)
AcceptsByToken(a) ==
  a # Scalar => IF token[a] # NoToken THEN OwnsLiveProbe(a) ELSE state = "closed"

Accepts(a) ==
  a # Scalar =>
    /\ admissions[a] = episode
    /\ IF token[a] # NoToken THEN OwnsLiveProbe(a) ELSE state = "closed"

SuccessWhileClosed ==
  /\ state = "closed" /\ failureCount' = 0
  /\ UNCHANGED <<state, successCount, effectiveWindow, halfOpenProbeActive,
                 halfOpenProbeToken, episode>>

SuccessWhileHalfOpen ==
  /\ state = "half_open"
  /\ IF successCount + 1 >= tuning.successThreshold
       THEN TransitionToClosed
       ELSE /\ FreeProbe
            /\ successCount' = successCount + 1
            /\ UNCHANGED <<state, failureCount, effectiveWindow, episode>>

RecordSuccess(a) ==
  /\ a \in Reporters
  /\ Consume(a)
  /\ IF Accepts(a) /\ state # "open"
       THEN /\ SuccessWhileClosed \/ SuccessWhileHalfOpen
            /\ UNCHANGED sinceFailure
       ELSE UNCHANGED core
  /\ Witness(FALSE, a, successCount' # successCount)
  /\ UNCHANGED <<tuning, probeTokenCounter, token, issued>>

FailureWhileClosed ==
  /\ state = "closed"
  /\ failureCount' = failureCount + 1
  /\ IF failureCount + 1 >= tuning.failureThreshold
       THEN TransitionToOpen
       ELSE UNCHANGED <<state, successCount, effectiveWindow, halfOpenProbeActive,
                        halfOpenProbeToken, episode>>

FailureWhileHalfOpen ==
  state = "half_open" /\ TransitionToOpen /\ UNCHANGED failureCount

(* Only an unscoped failure gets here: it pushes the recovery back. *)
FailureWhileOpen ==
  /\ state = "open"
  /\ UNCHANGED <<state, failureCount, successCount, effectiveWindow,
                 halfOpenProbeActive, halfOpenProbeToken, episode>>

(* A plausible bug: a failure counts although its admission was used up. *)
RecordFailureAgain(a) ==
  /\ a \in Reporters
  /\ UNCHANGED admissions
  /\ IF Accepts(a)
       THEN /\ sinceFailure' = 0
            /\ FailureWhileClosed \/ FailureWhileHalfOpen \/ FailureWhileOpen
       ELSE UNCHANGED core
  /\ Witness(FALSE, a, failureCount' # failureCount)
  /\ UNCHANGED <<tuning, probeTokenCounter, token, issued>>

RecordFailure(a) ==
  /\ a \in Reporters
  /\ Consume(a)
  /\ IF Accepts(a)
       THEN /\ sinceFailure' = 0
            /\ FailureWhileClosed \/ FailureWhileHalfOpen \/ FailureWhileOpen
       ELSE UNCHANGED core
  /\ Witness(FALSE, a, failureCount' # failureCount)
  /\ UNCHANGED <<tuning, probeTokenCounter, token, issued>>

(* A plausible bug: a release uses its admission up but keeps the slot. *)
ReleaseProbeKeepingSlot(a) ==
  /\ a \in issued
  /\ admissions[a] = episode
  /\ Consume(a)
  /\ UNCHANGED <<core, tuning, probeTokenCounter, token, issued, history>>

(* Neutral: it frees the slot of the live probe and decides nothing. *)
ReleaseProbe(a) ==
  /\ a \in issued
  /\ admissions[a] = episode
  /\ Consume(a)
  /\ IF token[a] # NoToken /\ OwnsLiveProbe(a)
       THEN /\ FreeProbe
            /\ UNCHANGED <<state, failureCount, successCount, sinceFailure,
                           effectiveWindow, episode>>
       ELSE UNCHANGED core
  /\ UNCHANGED <<tuning, probeTokenCounter, token, issued, history>>

-----------------------------------------------------------------------------
(* A new tuning from the control plane's entitlement: an open circuit      *)
(* samples its window again, the other states wait for the next opening.   *)
ReplaceTuning(t) ==
  /\ tuning' = t
  /\ IF state = "open" THEN effectiveWindow' \in t.windows ELSE UNCHANGED effectiveWindow
  /\ UNCHANGED <<state, failureCount, successCount, sinceFailure, halfOpenProbeActive,
                 halfOpenProbeToken, probeTokenCounter, episode, admissions, token,
                 issued, history>>

Tick ==
  /\ sinceFailure # Never /\ sinceFailure < MaxAge
  /\ sinceFailure' = sinceFailure + 1
  /\ UNCHANGED <<state, failureCount, successCount, effectiveWindow, halfOpenProbeActive,
                 halfOpenProbeToken, probeTokenCounter, episode, admissions, token,
                 tuning, issued, history>>

Report(a) == RecordSuccess(a) \/ RecordFailure(a) \/ ReleaseProbe(a)

Next ==
  \/ \E a \in Admission : Admit(a)
  \/ \E a \in Admission \cup {Scalar} : Report(a)
  \/ \E t \in Tunings : ReplaceTuning(t)
  \/ Tick

Spec == Init /\ [][Next]_vars

(* Time passes, some caller keeps asking, and whoever was admitted reports *)
(* or releases: the client settles every admission in a `finally'.         *)
Fairness ==
  /\ WF_vars(Tick)
  /\ WF_vars(\E a \in Admission : Admit(a))
  /\ \A a \in Admission : WF_vars(admissions[a] # Absent /\ Report(a))

FairSpec == Spec /\ Fairness

-----------------------------------------------------------------------------
(* The probes of the present episode whose callers have not reported yet. *)
ProbesOut == {a \in issued : admissions[a] = episode /\ token[a] # NoToken}

(* A taken slot can always be given back: the circuit is half-open and an  *)
(* admission that carries the live token is still unreported, so the slot  *)
(* is never held with nobody left to decide or release it.  Where every    *)
(* outcome names its admission that caller is the only one probing, and    *)
(* nobody is once the slot is free.                                        *)
SlotHasOneOwner ==
  /\ halfOpenProbeActive =>
       state = "half_open" /\ \E a \in ProbesOut : token[a] = halfOpenProbeToken
  /\ unscoped = {} =>
       /\ \A a, b \in ProbesOut : a = b
       /\ ~halfOpenProbeActive => ProbesOut = {}

(* One call counts once: while closed, the failures counted towards the    *)
(* threshold come from distinct admissions, and so do the successes that   *)
(* close a half-open circuit (stated where no unscoped outcome is mixed in).*)
CallsCountOnce ==
  unscoped = {} =>
    /\ state = "closed" => failureCount <= Cardinality(counted)
    /\ state = "half_open" => successCount <= Cardinality(counted)

(* A late outcome is inert: a call admitted before the circuit last opened *)
(* or closed moves no counter, no state and no recovery window when its    *)
(* report finally arrives.                                                 *)
LateOutcomeInert ==
  [][\A a \in issued \ current :
       RecordSuccess(a) \/ RecordFailure(a) \/ ReleaseProbe(a) => UNCHANGED core]_vars

(* An open circuit is decided: it is probed again and the probe closes or  *)
(* reopens it, unless the model has run out of admissions to hand out (and *)
(* unless unscoped failures keep pushing its recovery back).               *)
OpenIsDecided ==
  /\ state = "open" ~> (state # "open" \/ issued = Admission \/ unscoped # {})
  /\ state = "half_open" ~> (state # "half_open" \/ issued = Admission)

=============================================================================
