---------------------------- MODULE MCClientParts ----------------------------
(* Parts of a client that share no state with each other, for TLC: its project      *)
(* binding, its shutdown beside another client's, the AI SDK middleware, the guard   *)
(* of its surfaces, or the fence around spend that is not tracked.                    *)
EXTENDS ProjectBinding, TLC

CONSTANTS
  x1, x2, c1,        \* x1 and x2 are the requests, the clients, the calls, or the two properties
  Client, SweepFloor, MaxCalls,
  MaxKeys, MaxReads,
  MaxRefusals

Symmetry == Permutations({x1, x2})

VARIABLES
  part,                                                           \* which part this behaviour is about
  member, refs, sweepAt, listener, drain, gone, exited,           \* of Shutdown
  call, aborted, stopped, refused, closing, inFlight, settlements,\* of AiSdkMiddleware
  posture, acked, rule, seen, intercepted, fixed, guarded, pending, keys, warned, limit, last, reads,   \* of SurfaceGuard
  blocked, era, request                                           \* of RefusalFence

shutdownVars   == <<member, refs, sweepAt, listener, drain, gone, exited>>
middlewareVars == <<call, aborted, stopped, refused, closing, inFlight, settlements>>
surfaceVars    == <<posture, acked, rule, seen, intercepted, fixed, guarded, pending, keys, warned, limit, last, reads>>
fenceVars      == <<blocked, era, request>>

Exits      == INSTANCE Shutdown WITH client <- member
Middleware == INSTANCE AiSdkMiddleware WITH Call <- Client
Surfaces   == INSTANCE SurfaceGuard WITH Container <- "container", Member <- "member"
Fence      == INSTANCE RefusalFence WITH Request <- Client

PartsInit ==
  /\ part \in {"binding", "shutdown", "middleware", "surfaces", "fence"}
  /\ Init /\ (part # "binding" => key = "good")
  /\ Exits!Init /\ Middleware!Init /\ Fence!Init
  /\ part # "surfaces" => /\ posture = "warn" /\ acked = {}
                          /\ rule = [p \in Surfaces!Path |-> Surfaces!NoRule]
                          /\ seen = [p \in Surfaces!Path |-> [desc |-> "absent", shape |-> "none"]]
                          /\ intercepted = FALSE
  /\ Surfaces!Init

PartsNext ==
  \/ /\ part = "binding" /\ Next
     /\ UNCHANGED <<part, shutdownVars, middlewareVars, surfaceVars, fenceVars>>
  \/ /\ part = "shutdown" /\ Exits!Next
     /\ UNCHANGED <<part, vars, middlewareVars, surfaceVars, fenceVars>>
  \/ /\ part = "middleware" /\ Middleware!Next
     /\ UNCHANGED <<part, vars, shutdownVars, surfaceVars, fenceVars>>
  \/ /\ part = "surfaces" /\ Surfaces!Next
     /\ UNCHANGED <<part, vars, shutdownVars, middlewareVars, fenceVars>>
  \/ /\ part = "fence" /\ Fence!Next
     /\ UNCHANGED <<part, vars, shutdownVars, middlewareVars, surfaceVars>>

partsVars == <<part, vars, shutdownVars, middlewareVars, surfaceVars, fenceVars>>
PartsSpec == PartsInit /\ [][PartsNext]_partsVars

(* The reports of a client are delivered before its leases are surrendered, by its     *)
(* close and by the drain before the exit; and every open and reachable client is in    *)
(* a drain or has a listener waiting (Shutdown).                                         *)
ExitsAreOrderly == Exits!ReportsBeforeLeases /\ Exits!NobodyMissesTheExit

(* A call through the AI SDK middleware ends once, with everything it holds given back, *)
(* and never gives back funding whose output may be billed (AiSdkMiddleware).            *)
MiddlewareIsSound == Middleware!MiddlewareEndsOnce /\ Middleware!MiddlewareKeepsBilled

(* Strict mode, the observations and the coverage report agree on every read (SurfaceGuard). *)
SurfacesAreGuarded == Surfaces!SurfacesAreGuarded

(* While a refusal stands nothing untracked is started or surfaces a bare error (RefusalFence). *)
RefusalsStopSpend == Fence!RefusalsStopSpend
=============================================================================
