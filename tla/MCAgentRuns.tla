----------------------------- MODULE MCAgentRuns -----------------------------
(***************************************************************************)
(* What is kept per agent run, for TLC: the lease of a run, the velocity of   *)
(* runs, the scopes that runs are executed in, or the runs that an agent        *)
(* framework's workflow or chain makes.                                         *)
(***************************************************************************)
EXTENDS MCLeaseLedger

CONSTANTS
  Run, Size, Model, RunLimit, HistoryLimit, RateMemory, WarningMemory,
  RepeatCount, RepeatWindow, GrowthStreak, GrowthFactor, AccelFloor, AccelFactor,
  MaxCalls, MaxClock,
  Handle, Scope, Resource, MaxDepth, MaxActive,
  Agent, Attempt, Workflow, MaxTools,
  Root, Chain, LlmCall, Node, Signal

VARIABLES
  part,                                                            \* which of them this behaviour is about
  now, runs, runIds, tombstones, suppress, warnings, record, last,     \* of VelocityMonitor
  born, handle, stack, synchronous, resource, owners, hook,            \* of RunScopes
  flow, inv, attempt, active, finished, invocations, overlapped,       \* of AgentInvocation
  chain, llm, root, key, nodeOf, made, signal, refused                 \* of LangChainScopes

velocityVars == <<now, runs, runIds, tombstones, suppress, warnings, record, last>>
scopeVars    == <<born, handle, stack, synchronous, resource, owners, hook>>
agentVars    == <<flow, inv, attempt, active, finished, invocations, overlapped>>
chainVars    == <<chain, llm, root, key, nodeOf, made, signal, refused>>

Velocity == INSTANCE VelocityMonitor
Scopes   == INSTANCE RunScopes
Agents   == INSTANCE AgentInvocation
LangChain== INSTANCE LangChainScopes WITH Model <- LlmCall, run <- chain, model <- llm, handle <- made

(* The names that stand for no run, no agent and no scope are none of the system's own. *)
ASSUME RunsAssumption ==
  /\ Scopes!None \notin Scopes!Frames
  /\ Workflow \notin Agent /\ Agents!Nobody \notin Agent \union {Workflow}
  /\ LangChain!None \notin Root \union LlmCall /\ LangChain!None \notin Node
  /\ LangChain!Main \notin Node /\ Root \intersect Chain = {}

PartsInit ==
  /\ part \in {"lease", "velocity", "scopes", "agents", "chains"}
  /\ Init /\ Velocity!Init /\ Scopes!Init /\ Agents!Init /\ LangChain!Init

PartsNext ==
  \/ part = "lease" /\ Next /\ UNCHANGED <<part, velocityVars, scopeVars, agentVars, chainVars>>
  \/ part = "velocity" /\ Velocity!Next /\ UNCHANGED <<part, vars, scopeVars, agentVars, chainVars>>
  \/ part = "scopes" /\ Scopes!Next /\ UNCHANGED <<part, vars, velocityVars, agentVars, chainVars>>
  \/ part = "agents" /\ Agents!Next /\ UNCHANGED <<part, vars, velocityVars, scopeVars, chainVars>>
  \/ part = "chains" /\ LangChain!Next /\ UNCHANGED <<part, vars, velocityVars, scopeVars, agentVars>>

PartsSpec == PartsInit /\ [][PartsNext]_<<part, vars, velocityVars, scopeVars, agentVars, chainVars>>

(* Flags are true of all calls of a run whatever was evicted, fresh loops are      *)
(* flagged, and a flag is logged once an interval (VelocityMonitor).                *)
VelocityIsSound == Velocity!VelocityIsSound

(* A run is not over while its code executes or is awaited, and a finished handle has  *)
(* no activation left (RunScopes); the runs that an integration makes are finished      *)
(* when their workflow or chain and its last model call are over, and none before;      *)
(* no violation of its order of events is lost, and no call runs under a scope that      *)
(* has moved on (AgentInvocation, LangChainScopes).                                     *)
RunsOutliveTheirCode ==
  /\ Scopes!TokensOutliveCode /\ Scopes!HandlesFinishIdle
  /\ Agents!InvocationsEndClean /\ LangChain!LangChainReleases
=============================================================================
