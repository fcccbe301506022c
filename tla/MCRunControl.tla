---------------------------- MODULE MCRunControl ----------------------------
(***************************************************************************)
(* The end of a run for TLC: its stops and the streams that obey them (a       *)
(* registry that holds one run, so that the second run's stop evicts the       *)
(* first), or the retirement of its lease.  RunRetirement sees run control as  *)
(* a flag of the run, and the release dispatcher as a queue.                   *)
(***************************************************************************)
EXTENDS RunControl, TLC

CONSTANTS
  r1, r2, h1, h2, q1, q2, o1, o2,
  Retiring, Ownerless, Stoppable, Workers, MaxLeases, MaxOwners, MaxReserved, MaxResets

ASSUME RetirementAssumption == Workers \in Nat \ {0}

Symmetry == Permutations(Run) \cup Permutations(Handle) \cup Permutations(Request)

VARIABLES
  part,                               \* which of the two this behaviour is about
  run, books, wire, queue, leases     \* of RunRetirement

retireVars == <<run, books, wire, queue, leases>>

Retirements == INSTANCE RunRetirement WITH Run <- Retiring

PartsInit ==
  /\ part \in {"stops", "retirement"}
  /\ Init /\ Retirements!Init

PartsNext ==
  \/ part = "stops" /\ Next /\ UNCHANGED <<part, retireVars>>
  \/ part = "retirement" /\ Retirements!Next /\ UNCHANGED <<part, vars>>

PartsSpec == PartsInit /\ [][PartsNext]_<<part, vars, retireVars>>

(* Every lease an answer brought is held, ended by the server or on its way back, *)
(* never returned twice at a time, and no run that nobody owns any more keeps its  *)
(* lease unnoticed (RunRetirement).                                               *)
LeasesReturnOnce == Retirements!LeasesReturnOnce /\ Retirements!NoRunForgotten
=============================================================================
