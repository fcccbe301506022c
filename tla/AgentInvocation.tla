---------------------------- MODULE AgentInvocation ----------------------------
(***************************************************************************)
(* One workflow of the OpenAI Agents integration (src/openai-agents/index.ts): *)
(* the detached runs it makes for its agents, the model calls that execute in   *)
(* them, the violation that a framework's unexpected order of events latches,   *)
(* and the release of the runs, which waits for a model call that outlives the  *)
(* workflow.  The framework (agents, tools, the consumer of a stream, the         *)
(* provider) is external: its events come in any order.                           *)
(***************************************************************************)
EXTENDS Integers, FiniteSets

CONSTANTS
  Agent, Attempt,
  Workflow,      \* the run of the workflow itself
  MaxTools       \* bound: tools running at once

VARIABLES
  flow,          \* the workflow's promise: mode, phase, outcome, told (its stream's consumer)
  inv,           \* Invocation
  attempt,       \* per model call: kind, phase, agent, pulling, finished
  active,        \* per run: activations that have not settled
  finished,      \* runs that are finished
  invocations,   \* runs that lead to this invocation
  overlapped     \* history: a stream was ended while it was being pulled

vars == <<flow, inv, attempt, active, finished, invocations, overlapped>>

Runs == Agent \union {Workflow}
Nobody == "nobody"

Init ==
  /\ flow = [mode |-> "none", phase |-> "none", outcome |-> "none", told |-> "none"]
  /\ inv = [handles |-> {}, current |-> Nobody, attempts |-> 0, tools |-> 0,
            closing |-> FALSE, violation |-> "none"]
  /\ attempt = [t \in Attempt |-> [kind |-> "none", phase |-> "new", agent |-> Nobody,
                                   pulling |-> FALSE, finished |-> FALSE]]
  /\ active = [r \in Runs |-> 0]
  /\ finished = {} /\ invocations = {} /\ overlapped = FALSE

-----------------------------------------------------------------------------
(* The invocation. *)

\* The first violation stays; one that the workflow's outcome came before is late.
Fail(v) == IF v.violation # "none" THEN v
           ELSE [v EXCEPT !.violation = IF flow.outcome = "none" THEN "open" ELSE "late"]

Admitted(v) == v.violation = "none" /\ ~v.closing

\* Every run that is not active is finished; when all are, nothing leads here any more.
TryFinish(handles, now) == finished \union {r \in handles \union {Workflow} : now[r] = 0}

Close(v, now) ==
  LET done == TryFinish(v.handles, now)
      all  == v.handles \union {Workflow}
      shut == [v EXCEPT !.closing = TRUE, !.current = Nobody, !.tools = 0] IN
  /\ finished' = done
  /\ IF all \subseteq done
       THEN inv' = [shut EXCEPT !.handles = {}] /\ invocations' = invocations \ all
       ELSE inv' = shut /\ UNCHANGED invocations

\* An attempt that ends retries the release that a close has put off.
Release(v, t, now) ==
  LET less == [v EXCEPT !.attempts = @ - 1] IN
  IF attempt[t].finished THEN inv' = v /\ UNCHANGED <<finished, invocations>>
  ELSE IF v.closing THEN Close(less, now)
  ELSE inv' = less /\ UNCHANGED <<finished, invocations>>

Known == Workflow \in invocations

\* A listener of the runner: a known invocation admits the event or fails on it.
Listener(ok, next) ==
  /\ Known
  /\ inv' = IF Admitted(inv) /\ ok THEN next ELSE Fail(inv)
  /\ UNCHANGED <<flow, attempt, active, finished, overlapped>>

AgentStart(a) ==
  LET ok == inv.current = Nobody /\ inv.attempts = 0 IN
  /\ Listener(ok, [inv EXCEPT !.current = a, !.handles = @ \union {a}])
  /\ invocations' = IF Admitted(inv) /\ ok THEN invocations \union {a} ELSE invocations

AgentEnd(a) ==
  /\ Listener(a = inv.current /\ inv.attempts = 0, [inv EXCEPT !.current = Nobody])
  /\ UNCHANGED invocations

ToolStart(a) ==
  /\ inv.tools < MaxTools
  /\ Listener(a = inv.current, [inv EXCEPT !.tools = @ + 1])
  /\ UNCHANGED invocations

\* A guardrail of a tool's input ends a tool that never started.
ToolEnd(a) ==
  /\ Listener(a = inv.current, [inv EXCEPT !.tools = IF @ = 0 THEN 0 ELSE @ - 1])
  /\ UNCHANGED invocations

\* A run of this integration inside one of its own workflows.
Nested == Known /\ inv' = Fail(inv)
          /\ UNCHANGED <<flow, attempt, active, finished, invocations, overlapped>>

-----------------------------------------------------------------------------
(* Model calls. *)

\* A finished run takes no activation.
Activate(a) == [active EXCEPT ![a] = @ + 1]
Settled(a)  == [active EXCEPT ![a] = @ - 1]

MayBegin == Admitted(inv) /\ inv.tools = 0 /\ inv.current # Nobody /\ inv.attempts = 0

BeginAttempt(t, kind) ==
  /\ Known /\ attempt[t].phase = "new"
  /\ IF MayBegin
       THEN /\ inv' = [inv EXCEPT !.attempts = @ + 1]
            /\ attempt' = [attempt EXCEPT ![t] =
                 [kind |-> kind, agent |-> inv.current, pulling |-> FALSE, finished |-> FALSE,
                  phase |-> IF kind = "response" THEN "calling" ELSE "idle"]]
            /\ active' = IF kind = "response" THEN Activate(inv.current) ELSE active
       ELSE inv' = Fail(inv) /\ UNCHANGED <<attempt, active>>
  /\ UNCHANGED <<flow, finished, invocations, overlapped>>

\* The attempt t ends with its activation.
Ended(t, phase) ==
  /\ active' = Settled(attempt[t].agent)
  /\ attempt' = [attempt EXCEPT ![t].phase = phase, ![t].pulling = FALSE, ![t].finished = TRUE]
  /\ Release(inv, t, Settled(attempt[t].agent))
  /\ UNCHANGED <<flow, overlapped>>

ResponseSettles(t) == attempt[t].phase = "calling" /\ Ended(t, "over")

\* The stream's consumer asks: for the next event, or for the end.
Open(t) == attempt[t].kind = "stream" /\ ~attempt[t].finished

Pull(t, ask) ==
  /\ Open(t) /\ ~attempt[t].pulling
  /\ attempt[t].agent \notin finished
  /\ active' = Activate(attempt[t].agent)
  /\ attempt' = [attempt EXCEPT ![t].pulling = TRUE, ![t].phase = ask]
  /\ UNCHANGED <<flow, inv, finished, invocations, overlapped>>

\* The workflow is over and its runs are finished: the pull fails, and so does its clean-up.
PullTooLate(t) ==
  /\ Open(t) /\ ~attempt[t].pulling
  /\ attempt[t].agent \in finished
  /\ attempt' = [attempt EXCEPT ![t].phase = "over", ![t].finished = TRUE]
  /\ Release(inv, t, active)
  /\ UNCHANGED <<flow, active, overlapped>>

PullTwice(t) ==
  /\ Open(t) /\ attempt[t].pulling
  /\ inv' = Fail(inv)
  /\ UNCHANGED <<flow, attempt, active, finished, invocations, overlapped>>

\* return() fails too, and its finally ends the attempt under the pull.
ReturnWhilePulled(t) ==
  /\ Open(t) /\ attempt[t].pulling
  /\ attempt' = [attempt EXCEPT ![t].finished = TRUE]
  /\ Release(Fail(inv), t, active)
  /\ overlapped' = TRUE
  /\ UNCHANGED <<flow, active>>

PullGives(t) ==
  /\ attempt[t].phase = "next"
  /\ active' = Settled(attempt[t].agent)
  /\ attempt' = [attempt EXCEPT ![t].phase = "idle", ![t].pulling = FALSE]
  /\ UNCHANGED <<flow, inv, finished, invocations, overlapped>>

PullEnds(t) == attempt[t].phase \in {"next", "return", "cleanup"} /\ Ended(t, "over")

\* A pull that fails closes the provider's stream, in an activation of its own.
PullFails(t) ==
  /\ attempt[t].phase \in {"next", "return"}
  /\ attempt' = [attempt EXCEPT ![t].phase = "cleanup"]
  /\ UNCHANGED <<flow, inv, active, finished, invocations, overlapped>>

-----------------------------------------------------------------------------
(* The workflow. *)

Begin(mode) ==
  /\ flow.mode = "none"
  /\ flow' = [flow EXCEPT !.mode = mode, !.phase = "running"]
  /\ active' = Activate(Workflow)
  /\ invocations' = {Workflow}
  /\ UNCHANGED <<inv, attempt, finished, overlapped>>

\* What the caller is told: a violation before anything the framework made of it.
Outcome(ok) ==
  IF inv.violation # "none" THEN "violation" ELSE IF ok THEN "result" ELSE "error"

\* run(), or the start of a streamed run that failed.
RunSettles(ok) ==
  /\ flow.phase = "running" /\ (flow.mode = "run" \/ ~ok)
  /\ flow' = [flow EXCEPT !.phase = "over", !.outcome = Outcome(ok)]
  /\ active' = Settled(Workflow)
  /\ Close(inv, Settled(Workflow))
  /\ UNCHANGED <<attempt, overlapped>>

StreamStarts ==
  /\ flow.phase = "running" /\ flow.mode = "streamed"
  /\ flow' = [flow EXCEPT !.phase = "streaming"]
  /\ active' = Settled(Workflow)
  /\ UNCHANGED <<inv, attempt, finished, invocations, overlapped>>

\* The framework's completed promise, which the caller's is derived from.
StreamCompletes(ok) ==
  /\ flow.phase = "streaming"
  /\ flow' = [flow EXCEPT !.phase = "over", !.outcome = Outcome(ok)]
  /\ Close(inv, active)
  /\ UNCHANGED <<attempt, active, overlapped>>

\* The consumer's iteration ends with the outcome, or early, with a violation so far.
ConsumerEnds ==
  /\ flow.mode = "streamed" /\ flow.phase # "running" /\ flow.outcome # "none" /\ flow.told = "none"
  /\ flow' = [flow EXCEPT !.told = IF flow.outcome = "result" THEN "done" ELSE "failed"]
  /\ UNCHANGED <<inv, attempt, active, finished, invocations, overlapped>>

ConsumerReturns ==
  /\ flow.phase = "streaming" /\ flow.told = "none"
  /\ flow' = [flow EXCEPT !.told = IF inv.violation # "none" THEN "failed" ELSE "returned"]
  /\ UNCHANGED <<inv, attempt, active, finished, invocations, overlapped>>

Next ==
  \/ \E mode \in {"run", "streamed"} : Begin(mode)
  \/ \E a \in Agent : AgentStart(a) \/ AgentEnd(a) \/ ToolStart(a) \/ ToolEnd(a)
  \/ Nested
  \/ \E t \in Attempt :
       \/ \E kind \in {"response", "stream"} : BeginAttempt(t, kind)
       \/ \E ask \in {"next", "return"} : Pull(t, ask)
       \/ ResponseSettles(t) \/ PullTooLate(t) \/ PullTwice(t) \/ ReturnWhilePulled(t)
       \/ PullGives(t) \/ PullEnds(t) \/ PullFails(t)
  \/ \E ok \in BOOLEAN : RunSettles(ok) \/ StreamCompletes(ok)
  \/ StreamStarts \/ ConsumerEnds \/ ConsumerReturns

Spec == Init /\ [][Next]_vars

-----------------------------------------------------------------------------
(* Properties.                                                             *)

(* Whatever order the framework's events come in, no two model calls execute at    *)
(* once under the runs of one workflow, so that a call's cost has one agent.         *)
OneCallAtATime ==
  Cardinality({a \in Agent : active[a] > 0}) <= 1 /\ \A r \in Runs : active[r] \in {0, 1}

(* A violation while the workflow runs is what its caller and its consumer get,     *)
(* whatever the framework made of it.                                               *)
ViolationsSurface ==
  inv.violation = "open" => flow.outcome \in {"none", "violation"} /\ flow.told # "done"

(* Once a workflow is closed and its model calls have ended, its runs are finished  *)
(* and forgotten, however long a model call has outlived it.  (A stream ended under  *)
(* a pull is the exception: its attempt is over before its activation.)              *)
ClosedIsReleased ==
  inv.closing /\ ~overlapped /\ (\A t \in Attempt : attempt[t].phase \in {"new", "over"})
    => invocations = {} /\ inv.handles = {} /\ Workflow \in finished

(* A run whose code still executes is never finished.                               *)
InvocationsEndClean ==
  /\ OneCallAtATime /\ ViolationsSurface /\ ClosedIsReleased
  /\ \A r \in finished : active[r] = 0
=============================================================================
