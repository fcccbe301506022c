------------------------------- MODULE Routing -------------------------------
(***************************************************************************)
(* The decisions of the failover walk that keep no state (src/routing.ts): *)
(* in which order candidates are tried, what a failed attempt means for    *)
(* the walk and for the bill, when a retry still fits the deadline, and    *)
(* the median that feeds the latency policy.                               *)
(*                                                                         *)
(* An error is a record of the facts the code reads off it: the family its *)
(* type names belong to, its status, and the graph of its causes.          *)
(***************************************************************************)
EXTENDS Integers, FiniteSets, Sequences, SequencesExt

CONSTANTS
  MaxCauseDepth,   \* MAX_CAUSE_DEPTH
  MinHopTimeout,   \* MIN_HOP_TIMEOUT, in the deadline's unit
  LatencyWindow,   \* LATENCY_WINDOW
  LatencySamples   \* LATENCY_MIN_SAMPLES

-----------------------------------------------------------------------------
(* Ordering of candidates. A key of NoKey (null) sorts after every number. *)

BreakerStates == {"closed", "half_open", "open"}
NoKey == -1

StatePriority == [closed |-> 0, half_open |-> 1, open |-> 2]

HealthUsable(c) == ~(c.state = "open" /\ ~c.recoveryEligible)

NumericBefore(j, k) == j # NoKey /\ (k = NoKey \/ j < k)

(* The comparator of orderByHealthThenNumeric: tier, then key, then translatable. *)
Before(c, d) ==
  \/ StatePriority[c.state] < StatePriority[d.state]
  \/ /\ c.state = d.state
     /\ \/ NumericBefore(c.key, d.key)
        \/ c.key = d.key /\ c.translatable /\ ~d.translatable

(* The sort is stable: what the comparator ties stays in configured order. *)
OrderByHealthThenNumeric(cs) ==
  LET usable == {i \in DOMAIN cs : HealthUsable(cs[i])}
      Precedes(i, j) == \/ Before(cs[i], cs[j])
                        \/ ~Before(cs[j], cs[i]) /\ i < j
      order == SetToSortSeq(usable, Precedes)
  IN  [i \in DOMAIN order |-> cs[order[i]]]

(* HealthBasedPolicy has no key; LatencyPolicy and CostPolicy each read one. *)
HealthOrder(cs) == OrderByHealthThenNumeric([i \in DOMAIN cs |-> [cs[i] EXCEPT !.key = NoKey]])

DropForeignCandidates(cs, valid) == SelectSeq(cs, LAMBDA c : c.runtime \in valid)
SameProviderCandidates(cs, p)    == SelectSeq(cs, LAMBDA c : c.provider = p)

-----------------------------------------------------------------------------
(* Causes. A node carries whether its names or code prove that nothing was  *)
(* sent, whether they leave it open, its cause (0 for none), and the set of *)
(* aggregate members (NoErrors when it has no errors array).                *)

NoErrors == {-1}
Proof(preSend, ambiguous) == [preSend |-> preSend, ambiguous |-> ambiguous]
Unknown   == Proof(FALSE, FALSE)
Uncertain == Proof(FALSE, TRUE)

(* Folds the proof of an inner node into the one gathered so far. *)
WithCause(acc, inner)  == Proof(acc.preSend \/ inner.preSend, acc.ambiguous \/ inner.ambiguous)
WithMembers(acc, inners) ==
  Proof(acc.preSend \/ \E q \in inners : q.preSend,
        acc.ambiguous \/ \E q \in inners : q.ambiguous \/ ~q.preSend)

(* What inspect concludes at one node, given what it concluded below it. *)
InspectNode(node, below) ==
  LET own       == Proof(node.preSend, node.ambiguous)
      withCause == IF node.cause = 0 THEN own ELSE WithCause(own, below[node.cause])
  IN  IF node.errors = NoErrors THEN withCause
      ELSE IF node.errors = {} THEN Uncertain
      ELSE WithMembers(withCause, {below[e] : e \in node.errors})

(* A node already being visited says nothing, one too deep leaves it open.   *)
(* The code remembers the proof of a node it met; here it is inspected again, *)
(* which differs only where the second path is longer than the first.         *)
InspectFrom(graph) ==
  LET Nodes == DOMAIN graph
      inspect[left \in 0..(MaxCauseDepth + 1), visiting \in SUBSET Nodes, n \in Nodes] ==
        IF n \in visiting THEN Unknown
        ELSE IF left = 0 THEN Uncertain
        ELSE InspectNode(graph[n], [m \in Nodes |-> inspect[left - 1, visiting \union {n}, m]])
  IN  inspect

ClassifyApiConnectionCause(graph) ==
  LET proof == InspectFrom(graph)[MaxCauseDepth + 1, {}, 1]
  IN  IF proof.preSend /\ ~proof.ambiguous THEN "failover" ELSE "post_send_ambiguous"

-----------------------------------------------------------------------------
(* What a thrown attempt means for the walk, and for the bill. *)

Families == {"timeout", "preSend", "ambiguous", "type", "connection", "decode", "other"}
Statuses == {"none", "429", "529", "4xx", "5xx"}
NoCause  == <<>>

ByStatus(status, otherwise) ==
  CASE status \in {"429", "529"} -> "failover"
    [] status = "4xx"            -> "fail_fast"
    [] status = "5xx"            -> "post_send_ambiguous"
    [] OTHER                     -> otherwise

AfterStatus(e) ==
  CASE e.family = "decode" -> "post_send_ambiguous"
    [] e.family = "connection" /\ e.cause = NoCause -> "failover"
    [] e.family = "connection" -> ClassifyApiConnectionCause(e.cause)
    [] OTHER -> "fail_fast"

ClassifyException(e) ==
  CASE e.callerAbort \/ e.undispatched -> "fail_fast"
    [] e.family = "timeout" /\ e.cause = NoCause -> "post_send_ambiguous"
    [] e.family = "timeout" \/ (e.family = "type" /\ e.cause # NoCause)
         -> ClassifyApiConnectionCause(e.cause)
    [] e.family = "preSend"   -> "failover"
    [] e.family = "ambiguous" -> "post_send_ambiguous"
    [] OTHER -> ByStatus(e.status, AfterStatus(e))

ProvablyUnbilled(e) ==
  CASE e.undispatched -> TRUE
    [] e.family = "timeout" /\ e.cause = NoCause -> FALSE
    [] e.family = "preSend"   -> TRUE
    [] e.family = "ambiguous" -> FALSE
    [] e.family \in {"timeout", "type", "connection"} /\ e.cause # NoCause
         -> ClassifyApiConnectionCause(e.cause) = "failover"
    [] OTHER -> e.status \in {"429", "529", "4xx"}

AttemptMaybeBilled(e) == ~ProvablyUnbilled(e)

(* Established streams need positive evidence before an error is neutral. *)
IsNeutralStreamError(e) == e.callerAbort \/ e.status = "4xx"

(* Only an exact 429 with a readable Retry-After is retried on the spot. *)
RetryAfter(e) == e.status = "429" /\ e.retryAfter

-----------------------------------------------------------------------------
(* The chain deadline, in whole units of time since the call began. *)

Remaining(total, elapsed) == IF total > elapsed THEN total - elapsed ELSE 0
Expired(total, elapsed)   == Remaining(total, elapsed) <= 0

RetryFitsWithinDeadline(delay, total, elapsed) ==
  delay + MinHopTimeout <= Remaining(total, elapsed)

(* The floor of the budget check's timeout, 0.001 s, is one unit here. *)
BudgetCheckTimeout(configured, total, elapsed) ==
  LET left == Remaining(total, elapsed)
      cap  == IF configured < left THEN configured ELSE left
  IN  IF cap < 1 THEN 1 ELSE cap

StricterIdempotencyMode(a, b) ==
  CASE "never" \in {a, b} -> "never"
    [] "safe" \in {a, b}  -> "safe"
    [] OTHER -> "always"

(* The per-call override is TRUE, FALSE or absent; only FALSE tightens. *)
ResolveIdempotencyMode(saysNo, configMode) ==
  StricterIdempotencyMode(configMode, IF saysNo THEN "safe" ELSE "always")

AmbiguousFailoverAllowed(mode) == mode = "always"

-----------------------------------------------------------------------------
(* The latency window of a provider. *)

RecordLatency(window, ms) ==
  LET longer == Append(window, ms)
  IN  IF Len(longer) > LatencyWindow THEN Tail(longer) ELSE longer

(* Twice the median, to stay in the integers; NoKey when under-sampled. *)
ObservedP50Twice(window) ==
  LET sorted == SortSeq(window, <)
      n      == Len(sorted)
      mid    == n \div 2
  IN  IF n < LatencySamples THEN NoKey
      ELSE IF n % 2 = 1 THEN 2 * sorted[mid + 1]
      ELSE sorted[mid] + sorted[mid + 1]
=============================================================================
