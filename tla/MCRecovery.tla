------------------------------ MODULE MCRecovery ------------------------------
(***************************************************************************)
(* What must recover by itself, for TLC: the circuit breaker (the default      *)
(* tuning shape: a streak opens, two probe successes close, a jittered window;  *)
(* and a stricter one that an entitlement switches to and from), or the         *)
(* project binding with one data request and a key that changes.  Each has its  *)
(* own fairness; no symmetry is used, because liveness is checked.              *)
(***************************************************************************)
EXTENDS CircuitBreaker, TLC

CONSTANTS
  a1, a2, a3, d1,
  DataRequest, Call, MaxChanges, MaxOutages, MaxGeneration

MCTunings ==
  { [failureThreshold |-> 3, successThreshold |-> 2, windows |-> {1, 2}],
    [failureThreshold |-> 1, successThreshold |-> 1, windows |-> {1}] }

VARIABLES
  part,                                        \* which of the two this behaviour is about
  binding, inflight, followUp, lateBody, requests, calls, key, changes, outages,
  overtaken, unchecked, open                   \* of ProjectBinding

bindingVars == <<binding, inflight, followUp, lateBody, requests, calls, key, changes, outages,
                 overtaken, unchecked, open>>

Binding == INSTANCE ProjectBinding

PartsInit ==
  /\ part \in {"breaker", "binding"}
  /\ Init /\ Binding!Init
  /\ part = "breaker" => key = "good"
  /\ part = "binding" => tuning.failureThreshold = 1

PartsNext ==
  \/ part = "breaker" /\ Next /\ UNCHANGED <<part, bindingVars>>
  \/ part = "binding" /\ Binding!Next /\ UNCHANGED <<part, vars>>

PartsSpec ==
  /\ PartsInit /\ [][PartsNext]_<<part, vars, bindingVars>>
  /\ part = "breaker" => Fairness
  /\ part = "binding" => Binding!Fairness

(* A client whose key stays good becomes valid again and stays so, and one that *)
(* was valid does not stay blocked by a project that only alerts (ProjectBinding). *)
Recovers == part = "binding" => Binding!Recovers
===============================================================================
