# Verification of the Solwyn TypeScript SDK

TLA+ models of the SDK's own logic: admission of calls against budgets and run
leases, the failover walk, circuit breaking, streams, key authority, stopped runs,
reporting, shutdown, the integrations, and the translation between providers. Each
module is translated from the source; TLC checks it on small instances, and TLAPS
proves the safety of twenty of them for every value of the constants. Paths below
are relative to `src/src/`.

Contents: [inventory](#the-system), [modules](#modules-and-the-code),
[runs](#runs-bounds-and-fairness), [proofs](#proofs),
[findings](#findings-and-observations), [left out](#what-is-not-modelled).

## The system

The SDK wraps an LLM provider's client. A call passes a *budget check* (answered
by the control plane, a cached allow, or locally from a *lease* of tokens), walks
over one or more *providers* under one deadline, each guarded by a *circuit
breaker*, and *settles*: it confirms what it used (or gives its reservation back)
and reports an event. JavaScript runs one thread, so a method without `await` is
atomic; everything hard comes from what happens between an `await` and its answer.

### Budgets and leases

| Component | State | Operations | Hard behaviour | Correct when |
|---|---|---|---|---|
| Lease ledger, `lease.ts` | per run: lease id and generation, two pools (`grantedRemaining`, `shareRemaining`), reservations, spend since the last report, declared and refused models, the owed declaration, refusal latch, uncounted tallies | `admit`, `trueUp`, `release`, `sweep`, `claimRenewal`, `claimWideningRequest`, `renewalDispatched`, `renewalFailed`, `applyGrantResponse`, `markIneligible`, `resolveRefusalRelease`, `recordUncounted`, drop, discard and drain | answers of grants, renewals and releases come late, out of order or not at all; calls of an old lease settle under a new one | every token is in one book; the plane sees one declaration per generation; a refused model is never declared again; one exchange at a time |
| Budget enforcer, `budget.ts` | in-flight checks and grants, allow cache, sticky denials (global and per run), authority epoch, retiring runs, closing flag | `checkBudget`, `admitLease`, `performRenewal`, `attemptInitialGrant`, `applyCloudResponse`, `handleOutage`, `confirm`, `close` | state read before an `await` and used after it; one answer changes several runs; close while grants are in flight | a denial outlives answers older than it; a result kept across a change of authority is checked again; every grant is surrendered once |
| Release dispatcher, `release-dispatcher.ts` | two FIFOs, active workers, items on the wire, counters | `submit`, `clampForClose`, `dropCloseTimeQueued`, `whenIdle`, workers | timeouts whose fetch does not stop, merging with queued and active items, expiry, a full queue, close | one final outcome per submission, slots never exceeded, counters balance |
| Velocity guard, `velocity.ts` | bounded per-run histories of sizes and times, tombstones | `observe` | eviction at the limit, boundary of windows | no flag rests on an incomplete window |

### Authority

| Component | State | Operations | Hard behaviour | Correct when |
|---|---|---|---|---|
| Project binding, `project.ts`, `api-key-errors.ts` | validation state, stored refusal, generation, one key check in flight | `refuse`, `refuseAtStatus`, `validate`, `blockingRefusal`, `gate`, `gateNow`, `exitDecision` | a 401's body follows its status; answers overtake one another; the key changes on the server | only a newer key check relaxes a refusal; every 401 is rechecked; a kept result is current |
| Run control, `run-control.ts` | process-wide LRU of stopped runs, groups of open streams with epochs | `markTerminated`, `runTermination`, `clearRunTermination`, `clearTerminationIf`, `clearServerTerminationBeforeRequest`, `acquireTerminationHandle` | eviction of a stop that open streams obey; allows that were under way when a stop arrived | a stream keeps the first winner it saw; a stop lasts until an allow that left after it |
| Refusal fence, `refusal-fence.ts` | none of its own; wraps callables and what they return | wrap a client's members | provider clients that dispatch later than they are called | spend outside the budget check obeys a stored refusal when it is sent |
| Surface guard, `surface-guard.ts`, `surfaces.ts`, `coverage.ts` | bounded registry of observations, guards per container | decide a property read, observe it, predict it for `coverage()` | getters whose value is not what was declared | strict mode hands out no untracked spend, and every posture agrees with the report |

### Calls and streams

| Component | State | Operations | Hard behaviour | Correct when |
|---|---|---|---|---|
| Circuit breaker, `circuit-breaker.ts` | state, counters, probe slot and token, episode, recovery window | `admit`, `recordSuccess`, `recordFailure`, `releaseProbe`, `replaceTuning` | reports of old admissions, reports repeated, retuning during an episode | the slot always has an owner, late outcomes are inert |
| Client, `client.ts` | per call: funding, hops tried, deadline, admission | intercept, precheck, walk, settle | failover after a hop that may have been billed; post-dispatch checks | funding is consumed or released exactly once |
| Routing, `routing.ts` | latency averages | order providers, classify errors, compute timeouts | deadline arithmetic | no retry is started that the deadline cannot hold |
| Streams, `stream.ts` | settled flag, accumulator, abort release | iterate, return, abort, response bridge | natural end, error, abort and stop race | one settlement |
| Transport, `transport.ts` | none over time | one attempt with body limits | timeout in the middle of a body | the binding learns of a refusal at its status |
| Node entry, `node.ts` | run scopes, handles with activations, exit registry | `createRun`, `run`, `finish`, drain before exit | participants registered during a drain | each participant drained once, reporters first |

### Integrations

| Component | State | Operations | Hard behaviour | Correct when |
|---|---|---|---|---|
| AI SDK middleware, `ai-sdk/index.ts` | per call: admission, settlement; open streams, close | `wrapGenerate`, `wrapStream`, part hooks, cancel, `close`, collection | five ends race for one call | one settlement; what may be billed is not refunded |
| Agents SDK, `openai-agents/index.ts` | invocations, their detached runs, attempts, a latched violation | agent and tool events, model calls and streams, end of the workflow | events in any order, nested workflows, a stream abandoned under a pull | a run is released when the last model call in it is over, and not before |
| LangChain handler, `langchain/index.ts` | chains, models, scopes by signal | callbacks of chains and models, binding of a call | callbacks in any order, late calls | a call is attributed to the scope that is current, and scopes go when the root is idle |
| Translation, `providers/translation/` | none; cursors of streams | parse, render, answer and stream, for four dialects | ids one dialect has and another lacks; what one cannot say | a conversation keeps its meaning or is refused |

### Reporting

| Component | State | Operations | Hard behaviour | Correct when |
|---|---|---|---|---|
| Metadata reporter, `reporter.ts` | confirm, settlement and event queues, the claims on the wire, the active round, close and seal | `report`, `reportConfirm`, `reportSettlement`, `flush`, `close` | sends end in any order, retries are restored in front of newer entries, the close deadline passes during any of it | each half of a settlement ends up delivered or counted once |
| Receipt folds, `receipt-fold.ts` | aggregates per key | fold, replay, take | the final take during close | no receipt is lost by folding |
| Untracked-surface reporter, `untracked-reporter.ts` | cumulative counts and cursors per surface, one pending report each | observe, build, mark sent, defer, reject | occurrences during a report | a cursor covers what was reported and no more |

### Everything else

Provider adapters (`providers/`), the surface tables, proxies, configuration,
schemas, privacy and tracing helpers and the test doubles (`testing/`) hold little
state over time. `PROJECT.json` lists each with the reason it is left out.

### How they interact

A check enters through the binding's gate, may be answered by a lease, and leaves
through the gate again. The ledger is only ever called by the enforcer, whose
requests use the transport and share one control-plane breaker with the reporter.
A dropped or refused lease becomes a submission to the dispatcher, and the
dispatcher's outcome goes back into the ledger (`resolveRefusalRelease`). Budget answers
carry run directives into run control, which streams and later checks read. The
client hands settlements to the reporter, whose answers may be refusals that go
into the binding.

## Modules and the code

A synchronous method is one action, with every call it makes. An `async` method is
one action per stretch between two `await`s; what it carries across the `await` is a
record of the call, request or operation. An answer of a service is a choice among
the answers the code tells apart.

| Module | Of |
|---|---|
| `CircuitBreaker` | `circuit-breaker.ts`, all of one breaker |
| `LeaseLedger` | `lease.ts` for one run, driven by the lease half of `budget.ts`, with admissions, initial grants, renewals and releases in flight |
| `RunRetirement` | who owns a run's lease state in `budget.ts`: retirement of ownerless and stopped runs, grants and renewals that answer late, surrender, close |
| `BudgetAuthority` | the other half of `budget.ts`: order of requests, epochs, sticky denials, the allow cache, outages |
| `Outcomes` | abstract: what is handed over is decided at most once, for good |
| `ReleaseDispatcher` | `release-dispatcher.ts` with `close` and `finishClose` of `budget.ts`; implements `Outcomes` |
| `RunControl` | `run-control.ts` with the answers of `budget.ts` that set and clear stops |
| `ProjectBinding` | `project.ts` with the requests of `transport.ts` and `gatedCheck` of `budget.ts` |
| `RefusalFence` | `refusal-fence.ts`, and the operation without an output cap of `client.ts` |
| `SurfaceGuard` | the decision about a property read: `surfaces.ts`, `surface-guard.ts`, `resolveSurfaceRead` of `client.ts`, the prediction of `coverage.ts` |
| `ClientCall` | the life of a metered call in `client.ts`; uses `Routing` for what a failure means |
| `Routing` | `routing.ts`: pure decisions of the walk |
| `OutputBound` | `output-bound.ts` and `#prepareHopKwargs` of `client.ts` |
| `StreamWrapper`, `ResponsesStream` | the two ways `stream.ts` wraps a stream |
| `StreamTee` | the branches of a converted stream, `stream-conversions.ts` |
| `Translation` | `providers/translation/`: four dialects, requests, answers and streams |
| `Shutdown` | `close` of `client.ts` and the exit drain of `node.ts`, for several clients |
| `RunScopes` | run scopes and handles of `node.ts` |
| `VelocityMonitor` | `velocity.ts` |
| `AiSdkMiddleware`, `AgentInvocation`, `LangChainScopes` | the integrations `ai-sdk`, `openai-agents`, `langchain` |
| `Reporter` | the queues, rounds and close of `reporter.ts`, with `receipt-fold.ts` |
| `ReceiptFolds` | `receipt-fold.ts` in detail: keys, limits, splitting to the wire |
| `BreakerReports`, `IngestAnswers` | the breaker-report cycles and the reading of a batch's answer in `reporter.ts` |
| `UntrackedReporter` | `untracked-reporter.ts` |

Each `..._proofs` module holds the theorems of its component; `ClientParts_proofs` those of
the parts that `MCClientParts` composes, and `AgentRuns_proofs` those of `LeaseLedger`, `RunScopes`,
`AgentInvocation` and `LangChainScopes`. Each `MC...` module gives constants their values
for TLC. Where several modules share a run, the MC module
has a variable `part`: it is chosen at the start, and the behaviour is one of that
module with the others at rest. The parts of one run share no state in the code
either, except where the note below says what one takes from another as a choice.

| MC module | Parts |
|---|---|
| `MCRecovery` | `CircuitBreaker`, `ProjectBinding` (liveness) |
| `MCAgentRuns` | `LeaseLedger`, `VelocityMonitor`, `RunScopes`, `AgentInvocation`, `LangChainScopes` |
| `MCLeaseLedger` | `LeaseLedger` |
| `MCReleaseDispatcher` | `ReleaseDispatcher` |
| `MCRunControl` | `RunControl`, `RunRetirement` |
| `MCClientParts` | `ProjectBinding`, `Shutdown`, `AiSdkMiddleware`, `SurfaceGuard`, `RefusalFence` |
| `MCReports` | `Reporter`, `UntrackedReporter`, `ReceiptFolds`, `BreakerReports`, `IngestAnswers` |
| `MCReporter` | `Reporter` |
| `MCBudgetAuthority` | `BudgetAuthority` |
| `MCClientCall` | `ClientCall` (with `Routing`), `StreamWrapper`, `ResponsesStream`, `StreamTee`, `OutputBound`, `Translation` |

What composes, and how:

- `ClientCall` takes what `Routing` says of every provider error as the set `Errors`
  (`MCClientCall` computes it), sees a stream as the one callback that `StreamWrapper`
  and `ResponsesStream` show there is, a hop's request as prepared or not (`OutputBound`,
  `Translation`), and breaker and budget answers as choices that `CircuitBreaker`,
  `BudgetAuthority` and `LeaseLedger` make.
- `BudgetAuthority` sees the ledger as able to answer or not, `RunRetirement` sees run
  control as a flag of the run and the dispatcher as a queue with workers.
- `ReleaseDispatcher` implements `Outcomes`; `LeaseLedger` and `RunRetirement` rely on no
  more than that of a release.
- `RunControl` composes the registry with the requests of `budget.ts`; `ProjectBinding`
  with those of `transport.ts`; `Shutdown` several clients with the process.

### Budgets and leases

**LeaseLedger.** `st` is one `LeaseState`; operators named after the ledger's methods
take one and return the next, so that an action composes them as its handler does.
`call` holds what a check in progress and its claim keep (phase, chain, reservation,
incarnation), `granting` is `initialGrantInFlight`, `renewals` the launched
`RenewalOperation`s, `releases` the refusal releases without an outcome. `Check`,
`CheckAnswered`, `GrantWithheld`, `GrantLatched` and `GrantApplied` are the stretches
of a check; `SkipRenewal`, `SendRenewal` and `Renewal...` those of `performRenewal`;
`TrueUp`, `Release` and `Age` settle; `ReleaseDone` is the dispatcher's outcome. A
deadline is a flag that `Clock` raises. The plane numbers its answers, and an answer
may be lost before or after the plane acted on the request (`hist.said` records what
it was told). Call ids are used once.

**BudgetAuthority.** A request records what `captureAuthorityDispatch` does: its
sequence number, the epoch and the clock. `Answer` folds it: an allow into the cache and
over the denials it may clear, a denial into the global or a run's sticky one, with the
bounds and evictions of both tables. `Check` is a check answered without the plane
(from the cache, a sticky denial, or under `fail_open`) or one that leaves. What cost
and limit a local decision names under `fail_open = FALSE` is a choice.

**RunRetirement.** A lease is one generation, numbered as it is issued. `Admit`,
`Settle`, `LaunchRenewal` and the answers are the enforcer's operations on one run;
`OwnerCollected` and `EndManaged` are the ends of its owners, `Directive` a stop, and
`Outcome` the dispatcher's answer to a surrender. The backlog is a `Set` in the code: each run
once, in the order in which it came (`With`, `Without`). Held leases are surrendered in
some order of the ledger's runs. A check holds the run's owner through
`options.runLifetime`; the grant of a check whose caller gave up is left to expire, as
in the code.

**ReleaseDispatcher.** A submission creates an item of its own name or joins an item
with the same payload. A worker's loop is cut where it awaits: `AttemptEnds` (the
result is known), `Settled` (the underlying fetch too), `WorkerNext` (the callbacks
ran, the next item is taken). A callback that submits again does so between the last
two. `Close`, `WhenIdle` and `FinishClose` are the enforcer's.

**VelocityMonitor.** `runs` is the map of histories, `runIds` its order for random
eviction, `tombstones` and `suppress` what is remembered of evicted runs. `record` is a
history variable with all calls of a run, against which flags are judged. Time is in half
minutes, the clock monotone, the tolerance of "same size" zero.

### Authority

**RunControl.** Every exported function is an action. `epoch[r][g]` is the epoch
object of a generation: within a generation it is replaced only when no handle owns
it. Requests record when they left; `AllowArrives` and `DirectiveArrives` are their
answers and `LocalStop` is the velocity guard's stop.

**ProjectBinding.** `binding` holds the fields, `inflight` the one key check,
`followUp` the one that waits for it. A data request records the generation it left
with; `Status` and `Body` are the two halves of a 401. `KeyChanges`, `Serve` and
`ServeKeyCheck` are the server. A budget check is `GateNow` or `GateWaits` and
`GateDecides`, then `Exit`, with its one second pass.

**RefusalFence.** A fenced call is a request that may be sent later (`Send`), with the
binding's signal (`signal`, the era of refusals it belongs to) or, when the place of the
options is not clear, without. `Refuse` and `Lift` are the binding's. `StartUncapped` and
`Checked` are the operation without an output cap.

**SurfaceGuard.** A rule and a descriptor of a container and of a member are chosen at
the start, within what rules and objects there can be; a read then gives any value the
descriptor allows. The container may be a method with an interceptor (`intercepted`,
`optionalMethod` of `proxies.ts`), the member a `fixed` property, non-configurable and not
writable, for which `Answer` refuses any substitute. "fenced" is a function inside the
refusal fence, "value" the raw one. `Read...` are the branches of `resolveSurfaceRead`, `Reflect` and
`EndOfTurn` the reads through descriptors, `Predicted` is what `coverage()` says. `Rules` are the
kinds of rows of `surface-rules.ts` with the groups of shapes that they expect.

### Calls, streams and the process

**CircuitBreaker.** Variables are the fields of the class. An element of `Admission`
is an admission object; `admissions` is the WeakMap (its episode while unreported)
and `Scalar` a report without one. `Admit`, `RecordSuccess`, `RecordFailure`,
`ReleaseProbe`, `ReplaceTuning` are the public methods, with every private method
they call. A tuning carries the set of recovery windows its jitter may sample; time
is the age of the last failure. Probe tokens are numbers, as in the code.

**ClientCall.** `call[c]` has the call's phase, funding, admission, ledger of hops,
receipts and stream. Candidates come in any order and number, since policies are
pluggable; each look at the deadline, the caller's signal, the stored refusal or the
run's stop finds either, which only adds behaviours. `Hop...` are the walk, `Attempt...`,
`Retry...`, `Served...` one attempt, `Stream...`, `EntryFails` and `Collected` the ends of
what was served. Media calls are never funded by a lease (`budget.ts:1249`, `1469`).

**OutputBound.** What a request says of its output comes in layers (client, entry,
call); `Prepare` resolves the reservation and the request of a hop, `Enforce` is
`enforceOutputBound`. Caps are absent, bad, below or above the default bound.

**StreamWrapper, ResponsesStream, StreamTee.** The wrapper's operations run one after
another through `#enqueue`; each is cut at its awaits. `ResponsesStream` has the bridge
the caller holds, the observer and the provider's emitter (external), whose emission
runs its listeners at once. `StreamTee` has two branches, each of which may pull.

**Translation.** A conversation of one caller in one dialect, whose requests may be served
in another: `Ask` parses and renders the request (or refuses it), `Answer` brings the
answer back and the caller keeps it; `Pull`, `Take` and `Leave` are a translated stream.
A text is a sequence of atoms, a call id a function's name with a number.

**Shutdown.** A client's reporter and holder register with the process; `Drain` steps
take reporters, then holders; a client's own close runs beside it. `beforeExit` is only
when nothing is pending, because every wait holds a timer that keeps the process alive
(`reporter.ts:2104`, `node.ts:133`).

**RunScopes.** `stack` is the executing code, `resource` what AsyncLocalStorage carries
to later callbacks, `owners` who holds a run's token. `Collect` and `Finalize` are the
garbage collector's, possible when nothing holds the token.

**AiSdkMiddleware, AgentInvocation, LangChainScopes.** The framework is external: its
hooks and callbacks come in any order. In the first, `call[c]` has funding, dispatch and
settlement and the two sets that close goes through. In the second, a workflow's runs,
attempts and the deferred release; in the third, chains, models, scopes and signals.

### Reporting

**Reporter.** Entries are ids, a settlement being a confirm half and an event half
of one id; an aggregate of receipts is a set of ids. `books` holds the event queue,
the folds and the drop counts; `hand` and `batch` are what is claimed. A round runs
through the stages `confirms` and `settlements` (`NewStage`, `Dispatch`, the answers,
`StageEnds`), then the event batches, then the breaker reports. `Close`, `StartFinal`,
`DeadlinePasses` and `Seal` are shutdown; the deadline's passing and the timer that
acts on it are two steps, as in the code.

**ReceiptFolds.** An event is a record of run, price and quantities. `FoldDenial` and
`FoldReplay` fold, `TakeForCycle` hands back what was folded, split to the wire's
maxima; that no quantity of one denial exceeds them is `validation.ts:164`, `167`.

**BreakerReports, IngestAnswers.** One cycle at a time posts a report per provider; a lost
report may still arrive late (`ArrivesLate`), and the server keeps the newest
`reported_at`. `IngestAnswers` is a function of one answer, checked over all small ones.

**UntrackedReporter.** `seen[k]` has total, cursor and the pending report; `Observe` counts,
`Loop`, `Delivered`, `Fails`, `Refused` are the worker, `Close` and `ShutdownDeadline` the end.

## Runs, bounds and fairness

Symmetry permutes only sets whose elements the module never orders, and only in
runs without liveness. `CHECK_DEADLOCK FALSE` stands where the bounded inputs (calls,
submissions, requests) run out, after which an instance really stops; stuck states
that matter are stated as properties (`NothingIsLost`, `SlotsAreHeld`,
`OneExchangeAtATime`, `RefusalsAreRechecked`, `LeasesReturnOnce`, `SummariesAreTrue`) or as
liveness. `recovery` is checked for deadlock. A property that joins parts of two modules
is defined in the MC module and names theirs.

| Run | Properties and what they say |
|---|---|
| `recovery` | `SlotHasOneOwner`: a taken probe slot has an unreported owner, and one only. `CallsCountOnce`: no call is counted twice. `LateOutcomeInert`: a report of an earlier episode changes nothing. `OpenIsDecided`: an open circuit is probed and decided. `Recovers`: a good key makes the client valid for good, and an alert-only refusal stops blocking |
| `agent_runs` | `BooksBalance`: pools, spend and uncounted tallies account for each token once, through drops, sweeps, lost answers and renewals. `HardDenyBound`. `VelocityIsSound`: a flag is true of all calls of its run, not only of those that were kept. `RunsOutliveTheirCode`: no token goes while code runs or can run in it, handles finish idle, workflows and chains release their runs once, when the last call is over |
| `lease_declarations` | `OneDeclarationPerGeneration`, `RefusedNeverDeclared`, `OneExchangeAtATime`, `UndecidedRefusalHolds` |
| `dispatcher` | `OutcomesAreFinal` (refinement of `Outcomes`). `SlotsAreHeld`: slots are not exceeded, no item waits for a free one or behind its deadline. `NothingIsLost`: totals balance and nobody is forgotten |
| `run_control` | `StopReachesStreams`: a stop reaches every open stream of the run as one winner, newer than the last clear; owner counts are right. `StopsLast`. `RequestOrderDecides`: an allow lifts a stop exactly when its request left after it. `LeasesReturnOnce`: every lease an answer brought is held, ended or on its way back, never twice, and no run without an owner keeps one; a claimed renewal and the surrender of a retiring run are under way |
| `client_parts` | `RefusalsAreRechecked`, `OnlyNewerKeyChecksRelax`, `KeptResultsAreCurrent` (binding). `ExitsAreOrderly`: reports before leases, nobody misses the exit. `MiddlewareIsSound`: one end per call, what may be billed is not refunded. `SurfacesAreGuarded`: strict mode, observations and the report agree on every read. `RefusalsStopSpend`: no untracked spend starts under a refusal |
| `reporter_control` | `HalvesConserved`: each half is in one place or counted once. `OrderKept`: restores and evictions keep the callers' order. `SummariesAreTrue`: folds keep quantities and fit the wire, an answer gives up what it names, a change of a provider's health stays due until told, an occurrence is in one report at most and what is unreported comes due. It has no plain events or denials: of receipt aggregates `HalvesAreConserved` speaks alone |
| `reporter_events` | `CapsHold`, `SealDecidesAll`, `EventsSettle`: every queued event leaves |
| `authority` | `NewestCheckDecides`: what decides without asking follows the newest requests. `DenialOutlivesOlderAnswers` |
| `calls` | `FundingCoversTheCall`: what may be billed is not refunded, and no hop is sent a request that could produce more than was reserved. `EndsExactlyOnce`: funding, admission, hold on the run and receipts each end once. `ProviderBlamedOnce`: a breaker hears of a hop once, of its own failures. `StreamsSettleOnce`. `TranslationIsFaithful`: a conversation keeps turns, calls, ids and results, or is refused |
| `reporter_refusal`, `untracked_refusal` | violations, see the findings |

Bounds, and why they are enough:

- *breaker*: 3 admissions, a default tuning (3 failures, 2 successes, windows 1 and 2) and
  a strict one, ages to 2. A stale owner, a live probe and a third caller are three
  admissions; a closed streak of three needs them all, and the strict tuning opens on one,
  so that whole episodes fit before admissions run out.
- *binding*: `Recovers` with 1 data request, 2 changes of the key, 1 outage; the safety
  properties with 2 data requests, 1 budget check, 1 change, 1 outage, key checks without
  limit. A 401 whose body is open, a second answer, and key checks around both.
- *lease*: `agent_runs` has 3 calls of 1 or 2 tokens, one chain, a strict grant of 2 with a
  share of 1, 2 plane answers, 1 renewal; `lease_declarations` 4 calls and two chains under
  an ample grant. The mistakes are between a call of an old lease, one of the present
  lease, and one that renews or widens. The grant holds two calls, so the third meets the
  edge; the fourth call of `lease_declarations` retries, with the other chain, what the
  third one's lost answer left behind.
- *velocity*: 3 runs in a table of 2, histories of 3, 5 calls of 2 sizes, 3 half minutes:
  a run is evicted, returns with a short history, and is compared with its past. A clock
  of 4 was checked too.
- *run scopes and integrations*: 1 handle, 2 scopes, 2 async resources nested two deep; 2
  agents, 2 model calls, 1 tool; 1 root, 1 chain, 2 models, 2 signals, node scopes one deep.
  An activation's settling and what awaits it are one step. Which run a call's snapshot
  belongs to is `RunControl`'s.
- *dispatcher*: 1 worker, 4 submissions, 3 payloads, a queue of 2, 2 attempts, 3 ticks. One
  worker makes every slot mistake visible as an item that waits, or as two requests on
  the wire; two equal payloads beside a different one show merging beside queueing.
- *stops*: 2 runs, 2 streams, 2 requests, a registry of 1, 2 terminations, 1 clear. A
  registry of one evicts on the second stop, and two streams can straddle a clear.
- *retirement*: 2 runs, one without an owner and stoppable, 2 leases, 1 worker, 1 change of
  authority and close.
- *shutdown*: 2 clients, `SweepFloor` 1 (3 clients were checked: 2.45 million states).
- *middleware*: 2 calls; `attemptMaybeBilled` is taken as right. *Fence*: 2 requests, 2
  refusals, so that the second is stored after the first was lifted. *Surfaces*: a
  container and a member, 1 registry key, 3 reads; reads of metered members end in an
  interceptor and are `ClientCall`'s.
- *reporter*: 3 settlements, queues of 2, 2 sends at a time, 2 attempts; for events 1
  confirm and 3 events (2 receipts of one key), queue, batch and attempts of 2, one fold.
  Queues of two with three entries overflow on restore, and two sends end in either order.
- *folds*: 2 runs, prices 0 and 1 (2 were checked), one exact key per run, 2 folds, wire
  maxima of 2, 3 denials: one denial folds to the coarse key and one aggregate splits.
  *Breaker reports*: 2 providers of 2 healths, 2 rate limits, clock to 3, a wall clock that
  steps between 1 and 2. *Answers*: batches of 3 of weights 1 and 2, answers of 4 entries.
- *untracked*: 2 surfaces of 2 occurrences, batches and reports of 1, 2 attempts, clock to 3.
- *authority*: 2 runs, 1 chain, sequence numbers to 5, 2 requests in flight, tables of 1,
  1 change of authority, `fail_open = TRUE`. Larger instances were checked apart: 3 in
  flight with numbers to 4, and to 5 with one run or without a change of authority.
- *calls*: 1 call of four kinds over a chain of two entries of one provider and one of
  another, every error `Routing` tells apart with causes of one link, 1 retry. A
  connection error of a provider SDK has no status.
- *streams*: 3 chunks, 5 asks of which 2 wait, a fan-out of 0 or 2; 3 events and 2 waiters
  for responses; 3 pulls and 4 reads per branch for the tee.
- *output*: a default bound of 2; caps absent, bad, 1 and 3. A cross-dialect hop may also
  be refused by the target entry's own defaults, which is safe; a primary entry has none
  (`registry.ts:192`).
- *translation*: 4 dialects, 2 functions, 2 turns of the caller, 2 stream chunks; settings
  vary one at a time, ids are fresh per turn, assistant turns come from answers.

Fairness is assumed in two runs only.

- `recovery`, breaker: time passes, callers keep asking, and an issued probe is eventually
  reported. The client reports or releases every admission it gets in a `finally`.
  Unscoped failures are excluded from the claim: each one pushes recovery back.
- `recovery`, binding: calls keep coming (`Poll`), the retry timer fires, a request in
  flight is answered or fails by its timeout, microtasks run.
- `reporter_events`: a round that started runs on, sends end by their timeouts, timers
  and rate-limit windows end. Nothing makes a round start: that is weak fairness of
  `Round`, which the flush interval justifies. A control-plane breaker may hold the
  confirm for ever.

## Proofs

Every theorem holds for all values of the constants that satisfy the named assumption
of its module (`BreakerAssumption`, `LedgerAssumption`, `DispatcherAssumption`, ...), which
say that bounds are numbers and that "none" is no member. `RunsAssumption` and `StreamsAssumption` say so of
what `MCAgentRuns` and `MCClientCall` name. Four say more. `LedgerAssumption`
has the sizes of calls and grants as natural numbers, and `ClientCallAssumption` says that
an error the walk retries on the same provider, a 429, billed nothing: `MCClientCall`
computes the errors from `Routing`, and TLC evaluates the assumption there;
`OutputAssumption` says which caps a layer can state in its dialect, that the default bound
is positive, and that Qwen and xAI models are reached in the OpenAI dialect; and
`ReporterAssumption` names confirms, settlements and events by different numbers, each in the order in which
callers report them. `HealthStaysReported` has its hypotheses in its statement
(`ReportBounds`): finitely many providers, and a backoff that takes some time. The theorems
about the fence, the middleware, shutdown and the surfaces need none.

| Module | Theorems, and the property of a run each states |
|---|---|
| `CircuitBreaker_proofs` | `TypeCorrect`, `SlotIsSafe` (`SlotHasOneOwner`), `CallsAreCountedOnce` (`CallsCountOnce`), `LateOutcomesAreInert` (`LateOutcomeInert`); of `BreakerReports`: `HealthStaysReported` (a part of `SummariesAreTrue`) |
| `BudgetAuthority_proofs` | `AuthorityIsSound`, `NewestChecksDecide` (`NewestCheckDecides`), `DenialsOutliveOlderAnswers` (`DenialOutlivesOlderAnswers`) |
| `ReleaseDispatcher_proofs` | `DispatcherIsSane`, `DispatcherImplementsOutcomes` (`OutcomesAreFinal`), `DispatcherIsFiled`, `SlotsStayHeld` (`SlotsAreHeld`), `NoReleaseIsLost` (`NothingIsLost`) |
| `RunControl_proofs` | `RegistryInvariant`, `StreamsAreStopped` (`StopReachesStreams`), `StopsStay` (`StopsLast`); of `RunRetirement`: `LeasesComeBackOnce`, `LeasesStayReturned` (`LeasesReturnOnce`) |
| `ClientCall_proofs` | `CallsAreWell`, `CallsEndOnce` (`EndsExactlyOnce`), `ProvidersBlamedOnce` (`ProviderBlamedOnce`), `BilledStaysPaid`; with `OutputBound`: `FundingIsEnough` (`FundingCoversTheCall`); of `StreamWrapper`, `ResponsesStream` and `StreamTee`: `StreamsAreSettledOnce` (`StreamsSettleOnce`) |
| `ClientParts_proofs` | of `ProjectBinding`: `BindingInvariant`, `Rechecked` (`RefusalsAreRechecked`), `OnlyNewerRelax` (`OnlyNewerKeyChecksRelax`), `ResultsAreCurrent` (`KeptResultsAreCurrent`); of `RefusalFence`: `FenceHolds`, `RefusalsStop`, `ClientsStopSpend` (`RefusalsStopSpend`); of `AiSdkMiddleware`: `EndsOnce`, `KeepsBilled`, `MiddlewareEnds` (`MiddlewareIsSound`); of `Shutdown`: `DrainsAreOrdered`, `ExitsStayOrderly` (`ExitsAreOrderly`); of `SurfaceGuard`: `ReadsAreGuarded`, `SurfacesStayGuarded` (`SurfacesAreGuarded`) |
| `AgentRuns_proofs` | of `LeaseLedger`: `Inductive`, `OneExchange` (`OneExchangeAtATime`), `RefusedStaysOut` (`RefusedNeverDeclared`), `OneDeclaration` (`OneDeclarationPerGeneration`), `UndecidedHolds` (`UndecidedRefusalHolds`), `BooksStayBalanced` (`BooksBalance`), `HardDenyHolds` (`HardDenyBound`); of `RunScopes`: `ScopesHoldTheirRuns`; of `AgentInvocation`: `WorkflowsEndClean`; of `LangChainScopes`: `ChainsRelease`; of these three: `RunsAreOutlived` (`RunsOutliveTheirCode`) |
| `Reporter_proofs` | `RepInvHolds`, `HalvesAreConserved` (`HalvesConserved`), `OrderIsKept` (`OrderKept`), `CapsAreHeld` (`CapsHold`), `TheSealDecidesAll` (`SealDecidesAll`) |

**Circuit breaker.** The sampled window stays in range whatever tuning replaces another in
the middle of an episode. `SlotHasOneOwner` alone is not inductive: opening starts a new
episode, and the owner of the slot is the admission of the present one, so a step
preserves it only if no admission already belongs to an episode that has not begun, and
if what was not issued is not in the map. `SlotInv` adds these as `EpisodesBegun` and
`OnlyIssued`. `CountInv` adds to `CallsCountOnce` that what was counted is finite and was
taken from the map, so that a report of it finds nothing; `FenceInv` says that whatever is
not current belongs to an earlier episode. The proofs have one step per action; each
follows from facts about who may report (`Accepts`) and what the slot becomes
(`FreeProbe`, `MintProbe`).

**Breaker reports.** A lost report may arrive after a later one was acknowledged, so
`ChangesStayDue` needs to know that it cannot win: a report is stamped later than all before
it of its provider (`Newest`, `Stamps`), what was acknowledged is no older than any report still
on its way (`Settled`), and a provider waiting in a cycle comes once and is not acknowledged
(`Unheard`), so that its stamp is not used twice. `GoesOn` is one answer, whatever it says.

**Lease ledger.** The exchange with the plane first. All of it rests on `Inductive`:
`Spec => []IInv`. A second declaration is impossible only because a retry sends what is
owed, what is owed was kept by the attempt that failed, and that attempt was the only one of
its generation; a refusal keeps declared and refused models apart only because the renewal it
answers added nothing that was declared already. `IInv` therefore joins:

- `Good`, one ledger by itself: nothing is declared or in flight without a lease, an
  undecided release keeps the run latched, the declaration is of the present lease and
  generation, free of refused models, and adds only undeclared ones;
- `RenewalsOK`: a generation names one renewal in flight;
- `OwnedBy`: the in-flight mark has its renewal, and every renewal of the present lease
  has the mark, the report and the declaration;
- `SaidOK`: what the plane was told of a generation is what the renewal that carries it
  declares, and else the declaration kept as dispatched;
- `CallsOK` and `ReleasesOK`: the one waiting call of the one grant; tokens are not zero.

An admission is a composition of several methods, so the proof is by composition
too: each method leaves a ledger that is a `Step` away (`StepDrops`, `StepClaims`,
`StepOpens`, `AdmitWell`), each way a check may end `Lands`, and `LaunchOwned` shows once
that launching the claimed renewal restores ownership. `IInv` was model-checked under the
bounds of `lease_declarations` before it was proved.

Then the balances, which are sums over calls. `BooksBalance` is not inductive. A successor
grant is charged with what the ledger has spent beyond the report it answers, so the
report has to be on the ledger still (`Reported`), to be the one of the renewal that is
answered (`IInv`), and to date from a claim that left nothing out (`Claims`). `BooksInv` is
`IInv`, `Claims` and `Books`; and `Books` has, beside `Reported`, the balance of each pool
(`Balanced`), what is owed to the plane (`Owing`) and that numbers are numbers. The sums are
set sums over the calls with tokens (`Pairs`): a lemma says what changing one call's record does
to such a sum (`Part`, `Rewrites`), and each method of the ledger is gone through once, with
what it moves from one book into another.

**Authority.** `AuthorityInv` says what the retained order knows. `OrderSound`: its watermark
never goes back and is as new as every answer folded. `DenySound`: a denial is no newer than the
order that retains it. `HeardSound`: the watermark is explained by what was heard, or by a
fallback that still denies. `AskedSound`: requests in flight have numbers of their own, which no
order has taken. `NewestCheckDecides` is about the newest check answered, which is a
history variable; without `HeardSound` and `AskedSound` an answer that arrives late, or a
lease's answer that overtakes a check, could be taken for a newer one. That a cached allow was
made under the present order is `CacheIsCurrent`, which the invariant has as a part.

**Release dispatcher.** The methods pass a state along, and each is shown to keep it
`Sound`: nobody waits in two items (`Apart`), who waits was not told and who was told was
told once (`Told`), the queues hold items that exist. `Falls` and `HandsOver` say what a
method does to the fates; an action composes them and so is one `Decide` or one
`HandOverAndExpire` of `Outcomes`. That a fate is final needs `Apart` and `Told`: a member
of two items would be told twice. For totals, slots and queues the methods are gone through
a second time, with `Filed`: the queues hold exactly the items that wait, each once and
ordered by deadline (`Lines`, `Due`), the counters differ by the number of items alive (`Counted`),
no two of which have one payload (`Alone`), and nothing waits while a worker is free
(`Slots`). Order and slots depend on each other: an expired item is looked for at the head of a
queue only.

**Run control.** `StopInv` joins `Typed`, `Begun` (an open stream is of a group and of no
generation to come), `Counted` (owner counts equal the open streams), `Grouped` (a group has
streams, an epoch without streams has no winner), `Agreed` (registry and epoch have one
winner) and `AllRecent` (a visible stop is newer than the last clear); `Asked` adds that a
waiting request is of a run. An action is a composition of installing, clearing, acquiring and
releasing (`InstallStep`, `ClearStep`, `AcquireStep`, `ReleaseStep`). For `StopsLast` each step
is shown to keep the winner of every handle and every obeyed stop it does not clear.

**Run retirement.** `LeasesReturnOnce` speaks of what is held and what is queued; that no lease
goes two ways is because of what is under way between them. `Safe` says of the enforcer as
the operators pass it on: no two runs hold one lease (`HeldOnce`); a claimed renewal is under way
for the lease its run still holds and the present authority, and one renewal per lease (`Renewing`,
`Claimed`); every
submission is of an issued lease that nobody holds but the run whose retirement it is, and
no two of them are of one lease (`Ways`); a run that is retiring asked for nothing
(`NothingAsked`); a managed check has an owner, a grant under way has its check, and a closed enforcer
has nothing (`Checks`); a run nothing holds is in the backlog (`Found`), a run without
an owner is known to be without (`Known`), and a backlog has a surrender before it. A handler is a
composition - an answer is installed or surrendered, then the run is looked at again - so
`Sane(e, k, T)` is the same with exceptions: `k` is the submission whose worker is still in its
callback, `T` the runs whose renewal just ended. `RetireRun` restores what a step had put
in doubt about its run (`Due`). `FeedRetirements` goes through the backlog; that each step of it
keeps the invariant is carried to its end by the least step at which it would not
(`LeastNumber`), since the induction theorems cannot be used here. Surrender and close are shown for every order
of the held leases.

**Project binding.** The invariant orders what is under way: a key check that was overtaken
left before the stored refusal (`KeyCheckAge`), so did a request whose 401 was seen
(`RequestAge`), an unread body and an unchecked 401 block (`Shut`), and the generation a call
saw at its gate tells what it has heard of (`Heard`). Every method moves the binding `Forward`, and only a key check
that no refusal overtook may relax it.

**Client call.** Calls do not touch one another, so `CallInv` is about one call's frame:
`Well` says what each place of the walk promises. A call under way has not settled, confirmed
or reported anything but errors (`Alive`), and holds at most the claim of its current funding
(`Lawfuls`); in an attempt that funding is held, unconfirmed and, under hard deny, not billed
(`Funds`, `Unbilled`); a provider that was counted against is remembered in `failed`
(`Remembered`), which is what keeps a later entry of it from being counted again; a stream
that is settled holds nothing and has told its outcome (`Finished`), and one that is not has
its closer registered, unless the client was closed before it opened (`Swept`). A step is a composition of
`End`, `Confirm`, `Bill`, `RecordBreakerFailureDedup` and the like. Each of these keeps the
lines of the ledger lawful, and a step's promise is read off what they leave. Here the
assumption on retried errors is used: the same funding pays the retry, so a billed attempt
before it could be given back.

**Streams.** A stream's properties are about what its callbacks were told, so the invariants tie that to the
stream's own flags. `WrapInv` says of a wrapper that it is at its end before it settles, and that its
watcher goes only then, or when nobody is left to ask for more (`WWatch`); what was pulled
by another promise cannot settle it again (`WCounts`). `ResponsesInv` ties the observer to the provider's stream
(`RSettles`: whatever connected or ended was observed) and an abort to whom it was passed on to
(`RAborts`); until the stop is seen, an event that is given left before it (`RGives`). For a tee,
each branch has a number `n` (`TRead`): its reads are the first `n` pulls, and those after are
what it has not read. `StreamsAreSettledOnce` joins the three as `PartsSpec` does.

**Output bound.** `OutInv` says of a prepared request that it states its caps in the
dialect of its host (`Ok`), and that the bound `enforceOutputBound` will read from it is the one that was
reserved, unless it was translated, its config is malformed or its Qwen thinking budget is
not positive: those are what the last check is for. `Agree` and `Fits` get this from the three layers,
merged for the reservation and for the request by different code; `Enforces` shows that
what is sent can produce no more than the bound checked. `FundingIsEnough` joins it with `BilledStaysPaid`.

**Fence, middleware and shutdown.** `FenceInv` says of each request which era its signal is of. For
the middleware the invariant relates a call's phase, its settlement, its funding and the
two sets that `close` goes through. For shutdown, `ExitInv` says that the two snapshots of a
drain are of one moment: a holder in the drain has its reporter there too, or one with
nothing to wait for; in the drain's second phase each of its holders is closing; and a client
that was not constructed is in no drain.

**Surfaces.** The settings of a client never change, and `SurfaceInv` says that the last read was
`Sound`, so what is to show is that every read is (`ReadIsSound`): a case for each way
`resolveSurfaceRead` takes, for every rule of the tables, every descriptor, every posture and every
shape the value may turn out to have. It rests on what construction has validated about the acknowledged
tokens (`Built`): such a property is described by no rule or is spend as reviewed (`AckedIs`), and the
container of one is neither acknowledged itself nor drifted (`BelowIs`). A value that is no longer what was reviewed is
unknown, whatever was acknowledged (`DriftIs`).

**Agent runs.** `ScopeInv` says who holds a run. A run is pinned exactly while a frame of it
executes, and the lowest of its frames is the one that unpins it (`PinsOk`); a resource owns the
innermost run of the context it was made in (`ResourcesOk`); the async hook is enabled while more
tokens are registered than were counted as collected (`OwnersOk`); and a handle's count of activations is the
number of its frames on the stack and of its activations that wait (`HandleOk`). `TokensOutliveCode`
follows from these; that a run is never inside itself is `ChainOk`.
For a workflow, the theorem rests on a single busy call: while it executes, its agent's run is
the only active one, and it postpones the release of the workflow's runs (`CallsOk`, `Owned`,
`EndOk`). A stream that overlaps another call is the exception the code reports, so the
invariant carries it as a disjunct. For LangChain, chains, models and keys are mapped only to scopes of
roots that are open (`RunOk`, `ModelOk`, `KeyOk`); a scope's count is that of the calls which
execute in it, and a closed root keeps exactly the scopes that calls still execute in (`RootOk`, `MadeOk`).

**Reporter.** None of the four properties is inductive. `HalvesConserved` counts in how many places an
id is, and a step moves many entries at once: a prefix is restored and what overflows is evicted, a
batch is rejected in part, a fold is replayed. `RepInv` is what all four rest on. `ControlInv` and `EventInv` say what queues, claims,
batch and books hold, within which caps, with the folds of different keys (`GoodBook`); `LinesInv` that claims, queue and what is not handed in
yet are one line in the callers' order; `PlacesInv` that waiting, held, taken and dropped add up to one for every
confirm half, and so for every event half with queue, folds, batch and what the server took; `RecountInv` that only a
refusal after the deadline counts a confirm that is still claimed; `CloseInv` that the seal leaves no
line, no claim and no fold. The line has to include what is not handed in: a restored entry
goes in front of newer ones only because everything to come is newer.
Entries are counted by their positions (`Hits`, `Count`), so the first chapters say what appending, dropping,
selecting and concatenating do to a count; then what one push, disposal or replay does to the books
(`EventsOfIs`), and what a decision, a restore or a claim does to a line. What is done to each entry of a sequence is a
recursive function, and a lemma about it is proved by the least position at which it would fail.
The order of a line is kept whatever is chosen to be sent, since a selection of an ordered line is ordered.

`ClientsStopSpend`, `MiddlewareEnds`, `ExitsStayOrderly` and `SurfacesStayGuarded` carry these over to the
composition of `MCClientParts`, whose parts share no variable: each of its steps is a
step of one part and leaves the others as they are.

Out of the prover's reach, and model-checked only: liveness (`OpenIsDecided`, `Recovers`,
`EventsSettle`, and the deadlock checks) with `ENABLED`; and `RequestOrderDecides`, whose statement
depends on a removal from a sequence that the library defines recursively.

Induction over data keeps the rest with TLC. `SummariesAreTrue` (apart from breaker reports) sums over
bags and folds over a batch, `VelocityIsSound` folds over the histories it deletes and sorts gaps, and
`TranslationIsFaithful` is about recursive definitions over a conversation.

## Findings and observations

- **A refused confirm can be counted twice** (`reporter_refusal`). A confirm whose answer
  is an API-key refusal is counted as `api_key_refused` without asking whether its claim
  is still current (`reporter.ts:1222`). When the answer comes after the close deadline
  and before the seal, the claim stays in hand and `_sealDelivery` counts the same
  confirm as `shutdown_deadline`. Other verdicts ask `isCurrent()` first;
  `tests/unit/reporter-shutdown.test.ts:300` says of a late verdict that it "counts both
  halves exactly once". `HalvesConserved` names the exception as `recounted`.
- **A refused batch strands its siblings** (`untracked_refusal`). When the answer to a batch
  of untracked reports refuses the key, `#flushOnce` returns (`untracked-reporter.ts:569`).
  The batches built with it keep `nextAttemptAt = Infinity` and no flush but that of close
  sends them, also when the key is good again; the test at
  `tests/unit/untracked-reporter.test.ts:337` says a flush "continues after a sibling
  batch fails". `UnreportedComesDue` excludes exactly these.

Without a run of their own, met while modelling:

- A refused batch of events counts its entries, not their weights, so the further members
  of a receipt aggregate are in no count (`uncounted` in `Reporter`).
- A hold may end between `dispatch()` and the check after it (`reporter.ts:1440`). The
  final round then leaves the stage, and what is left in it is counted at the seal,
  although it was due.
- An error of a request aborted by a refusal surfaces as it is when the refusal was lifted
  before the rejection is handled, where the comment of `#mapError` says it surfaces as
  the refusal (`refusal-fence.ts`).
- `return()` of a model stream under a pending pull ends the attempt before its activation,
  so that the release that was deferred for it is not retried
  (`openai-agents/index.ts:278`; the comment at 179 expects it). A stream abandoned by a
  close during a pull keeps its run open too.
- Translation drops some things where `README.md:587` says that it "fails loud": an
  Anthropic caller's `tool_choice.disable_parallel_tool_use` (`anthropic.ts:165`; left out of
  `TranslationIsFaithful` as `Unread`), a second Google `allowedFunctionNames`
  (`google.ts:260`), images in Google answers (`google.ts:388`; in a stream they raise,
  `google.ts:453`), and the call of a legacy `function_call` answer.
- `coverage()` lists an unknown container as refused in strict mode, while a read of it
  hands out its guard; and an unreviewed value of a method with an interceptor as returned,
  where the read gives the interceptor.
- `coverage()` does not look at whether a property is fixed. A fixed member that it lists as
  guarded, or a fixed function outside the metadata that it lists as returned, throws when it
  is read (`surface-guard.ts:609`, pinned at `tests/unit/surface-guard.test.ts:1345`): the
  fence counts as a substitute too, where the guard without a fence returns such a function
  (the same file, 1309). `CoverageIsTrue` names these exceptions.

## What is not modelled

In the modelled components:

- *CircuitBreaker*: the manager, which is one independent breaker per name.
- *LeaseLedger*: several runs in one ledger, discard, drain and fork reset, the LRU of
  recent calls and the limit on swept reservations, a replay by the
  plane of a lease id *with the same generation*.
- *BudgetAuthority*: pricing hints, confirm payloads, warnings, the estimate of cost.
- *RunRetirement*: spending; a directive that also carries a grant.
- *ReleaseDispatcher*: trace context, peak counters, and the outcome `dispatch_failed`,
  which is not reachable: `#work` is `async` and `withoutTraceContext` returns what it does.
- *RunControl*: cells of other copies of the package in one process, listeners.
- *ProjectBinding*: the retry intervals (one flag), messages, the pinned id's value, the
  abort signal of native requests, placeholders of refused checks.
- *ClientCall*: construction and option parsing of the client, the fields of events, a
  zero-usage confirm of `CloseFunding` that cannot be built (`client.ts:3766`).
- *Streams*: the stream whose `accumulator.finalize()` throws (`stream.ts:661`).
- *OutputBound*: the Bedrock and Responses surfaces; an Azure `api-version` that is refused
  is folded into the body overrides.
- *SurfaceGuard*: fixed properties read outside a guard (the runtime's own error), opaque
  values, arrays and classes; which path has which row of the rule tables (a row is its kind and the
  shapes it expects), command classes, properties that are missing, the synthetic chat surface.
- *Translation*: schemas of declared tools, wording of refusals, images in answers; the
  Bedrock `command` flag is taken both ways.
- *Reporter*: flush on demand, log throttling, process-exit registration, callers that
  report ids out of order. A send that answers after the seal is inert, because the
  transport abandons it at the abort signal. *ReceiptFolds*: the fields of a key other than
  run and price. *BreakerReports*: invalid snapshots and a supplier that throws.
- *Integrations*: conversion of messages; in LangChain, root run ids are unique, each root
  starts once, and node scopes are one deep.

Components without a module, each with its reason, are in `PROJECT.json`: provider adapters
(conversions of single values), configuration, schemas and errors (parsing), the registry
and logging (construction), the test doubles (the modules have the plane as a free choice
among its answers) and the build scripts.

What would come next: `VelocityMonitor` and `UntrackedReporter` with sweeps and batches
stated without folds, and the proofs that would allow.
