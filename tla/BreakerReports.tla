--------------------------- MODULE BreakerReports ---------------------------
(***************************************************************************)
(* The breaker-report cycles of the metadata reporter (src/reporter.ts): what a *)
(* client tells the control plane about the health of its providers.  A round   *)
(* starts a cycle when a snapshot changed or the heartbeat is due; the cycle     *)
(* posts one report after the other, keeps what was acknowledged, and a cycle    *)
(* with a failure holds the next one off.  close() ends with a forced cycle.     *)
(*                                                                         *)
(* A report may reach the control plane although its answer is lost, and long    *)
(* after the next one did; reported_at is what tells old from new there.         *)
(***************************************************************************)
EXTENDS Integers, Sequences, FiniteSetsExt, SequencesExt

CONSTANTS
  Provider,             \* numbers, in the order of the suppliers' snapshots
  Health,               \* what a snapshot may say: state, failures, successes
  Heartbeat,            \* breakerReportHeartbeat
  MaxRateLimits,        \* MAX_RATE_LIMIT_ATTEMPTS
  Delay,                \* what a backoff or a Retry-After may be
  MaxTime,              \* bound: the monotonic clock
  MaxWall,              \* bound: the wall clock, which may also step back
  MaxStamp              \* bound: reported_at of the last report of a provider

None == "none"

VARIABLES
  now,                  \* monotonicClock()
  health,               \* the breakers' snapshots
  lastSent,             \* breakerLastSent
  stamp,                \* breakerLastReportedAt
  rateLimits,           \* breakerRateLimitAttempts
  holdUntil,            \* telemetryRetryNotBefore
  failedCycles,         \* breakerFailedCycles, as far as it is zero or not
  retryAt,              \* breakerRetryAt, 0 for null
  heartbeatAt,          \* breakerHeartbeatAt
  cycle,                \* activeBreakerCycle and its locals
  stage,                \* of close(): open, joining, forced, closed
  expired,              \* the deadline of close() passed
  lost,                 \* external: reports whose answer was lost, still on their way
  told,                 \* external: the newest report of each provider that arrived
  gaveUp                \* history: the last report was refused, or given up at its limit

vars == <<now, health, lastSent, stamp, rateLimits, holdUntil, failedCycles, retryAt,
          heartbeatAt, cycle, stage, expired, lost, told, gaveUp>>
books == <<lastSent, stamp, rateLimits, gaveUp>>

NoCycle == [due |-> <<>>, seen |-> [p \in Provider |-> None], wall |-> 0, forced |-> FALSE,
            delivered |-> FALSE, failed |-> FALSE, retryAfter |-> 0]
Active == cycle.due # <<>>

Init ==
  /\ now = Heartbeat
  /\ health = [p \in Provider |-> CHOOSE h \in Health : TRUE]
  /\ lastSent = [p \in Provider |-> None]
  /\ stamp = [p \in Provider |-> 0]
  /\ rateLimits = [p \in Provider |-> 0]
  /\ holdUntil = 0
  /\ failedCycles = FALSE
  /\ retryAt = 0
  /\ heartbeatAt = 0
  /\ cycle = NoCycle
  /\ stage = "open"
  /\ expired = FALSE
  /\ lost = {}
  /\ told = [p \in Provider |-> [says |-> None, at |-> 0]]
  /\ gaveUp = [p \in Provider |-> FALSE]

-----------------------------------------------------------------------------
(* A cycle starts.                                                         *)

HeartbeatDue == now - heartbeatAt >= Heartbeat
Changed(p) == lastSent[p] # health[p]

\* reported_at is the wall clock, and later than the report before.
Stamped(wall, last) == Max({wall, last + 1})

\* The precheck of a round.
ReportsDue ==
  /\ now >= holdUntil
  /\ ~Active
  /\ HeartbeatDue \/ \E p \in Provider : Changed(p)

\* The providers of a cycle lose their acknowledgment until they regain it: a hold
\* or the deadline may leave some of them unattempted.
StartCycle(force) ==
  LET due == {p \in Provider : force \/ HeartbeatDue \/ Changed(p)} IN
  /\ due # {}
  /\ \A p \in due : stamp[p] < MaxStamp
  /\ lastSent' = [p \in Provider |-> IF p \in due THEN None ELSE lastSent[p]]
  /\ heartbeatAt' = IF force \/ HeartbeatDue THEN now ELSE heartbeatAt
  /\ \E wall \in 1..MaxWall, order \in SetToSeqs(due) :
       LET at == Stamped(wall, stamp[Head(order)]) IN
       /\ \A i, j \in DOMAIN order : i < j => order[i] < order[j]
       /\ cycle' = [NoCycle EXCEPT !.due = order, !.seen = health, !.wall = wall,
                                    !.forced = force]
       /\ stamp' = [stamp EXCEPT ![Head(order)] = at]
  /\ UNCHANGED <<rateLimits, gaveUp>>

\* The end of an ordinary round.
RoundEnds ==
  /\ stage = "open"
  /\ now >= retryAt
  /\ ReportsDue
  /\ StartCycle(FALSE)
  /\ UNCHANGED <<now, health, holdUntil, failedCycles, retryAt, stage, expired, lost, told>>

-----------------------------------------------------------------------------
(* The report of the cycle's first provider is answered.                    *)

\* What a cycle leaves for the next one: an acknowledgment clears the backoff
\* unless something failed beside it.
NoteOutcome(c) ==
  IF c.failed
    THEN /\ failedCycles' = TRUE
         /\ \E backoff \in Delay : retryAt' = now + Max({c.retryAfter, backoff})
    ELSE /\ failedCycles' = IF c.delivered THEN FALSE ELSE failedCycles
         /\ retryAt' = IF c.delivered THEN 0 ELSE retryAt

\* The cycle c goes on to its next provider, or ends: at its last one, at a hold
\* of the server, at its own deadline.
GoOn(c, hold) ==
  LET rest == Tail(c.due) IN
  IF rest = <<>> \/ now < hold \/ (c.forced /\ expired)
    THEN /\ cycle' = NoCycle
         /\ NoteOutcome(c)
         /\ UNCHANGED stamp
    ELSE /\ cycle' = [c EXCEPT !.due = rest]
         /\ stamp' = [stamp EXCEPT ![Head(rest)] = Stamped(c.wall, @)]
         /\ UNCHANGED <<failedCycles, retryAt>>

Report(p) == [of |-> p, says |-> cycle.seen[p], at |-> stamp[p]]
Arrived(r) == IF r.at > told[r.of].at
                THEN [told EXCEPT ![r.of] = [says |-> r.says, at |-> r.at]] ELSE told

\* The forced cycle of close() ignores an answer that comes after its deadline.
Heard == Active /\ ~(cycle.forced /\ expired)
\* Nothing but a failure is left of a request that close() aborted.
Aborted == Active /\ expired /\ stage = "closed"

Acknowledged ==
  LET p == Head(cycle.due) IN
  /\ Heard /\ ~Aborted
  /\ told' = Arrived(Report(p))
  /\ lastSent' = [lastSent EXCEPT ![p] = cycle.seen[p]]
  /\ rateLimits' = [rateLimits EXCEPT ![p] = 0]
  /\ gaveUp' = [gaveUp EXCEPT ![p] = FALSE]
  /\ GoOn([cycle EXCEPT !.delivered = TRUE], holdUntil)
  /\ UNCHANGED <<now, health, holdUntil, heartbeatAt, stage, expired, lost>>

\* 429: no report of any kind before the server's hold is over; at the limit this
\* snapshot is given up until the next heartbeat.
RateLimited ==
  /\ Heard /\ ~Aborted
  /\ \E after \in Delay \union {0} :
    LET p == Head(cycle.due)
        attempts == rateLimits[p] + 1
        spent == attempts >= MaxRateLimits
        hold == Max({holdUntil, now + after}) IN
    /\ holdUntil' = hold
    /\ rateLimits' = [rateLimits EXCEPT ![p] = IF spent THEN 0 ELSE attempts]
    /\ lastSent' = [lastSent EXCEPT ![p] = IF spent THEN cycle.seen[p] ELSE None]
    /\ gaveUp' = [gaveUp EXCEPT ![p] = spent]
    /\ GoOn([cycle EXCEPT !.failed = TRUE, !.retryAfter = Max({@, after})], hold)
    /\ UNCHANGED <<now, health, heartbeatAt, stage, expired, lost, told>>

\* The API key is refused: dropped, and not sent again while it stays the same.
Refused ==
  LET p == Head(cycle.due) IN
  /\ Heard /\ ~Aborted
  /\ lastSent' = [lastSent EXCEPT ![p] = cycle.seen[p]]
  /\ gaveUp' = [gaveUp EXCEPT ![p] = TRUE]
  /\ GoOn([cycle EXCEPT !.failed = TRUE], holdUntil)
  /\ UNCHANGED <<now, health, rateLimits, holdUntil, heartbeatAt, stage, expired, lost, told>>

\* Any other failure, a timeout included: the report may still arrive.
Failed ==
  LET p == Head(cycle.due) IN
  /\ Heard
  /\ lastSent' = [lastSent EXCEPT ![p] = None]
  /\ lost' = lost \union {Report(p)}
  /\ GoOn([cycle EXCEPT !.failed = TRUE], holdUntil)
  /\ UNCHANGED <<now, health, rateLimits, holdUntil, heartbeatAt, stage, expired, told, gaveUp>>

\* The answer comes after the deadline of close(), or never: nothing is learnt.
Ignored ==
  /\ Active /\ cycle.forced /\ expired
  /\ lost' = lost \union {Report(Head(cycle.due))}
  /\ cycle' = NoCycle
  /\ NoteOutcome(cycle)
  /\ UNCHANGED <<now, health, lastSent, stamp, rateLimits, holdUntil, heartbeatAt, stage,
                 expired, told, gaveUp>>

-----------------------------------------------------------------------------
(* close(), once what was spent is sealed.                                  *)

Close ==
  /\ stage = "open"
  /\ stage' = "joining"
  /\ UNCHANGED <<now, health, lastSent, stamp, rateLimits, holdUntil, failedCycles, retryAt,
                 heartbeatAt, cycle, expired, lost, told, gaveUp>>

\* The active cycle is over: a full one is forced, local backoff or not, unless
\* the server asked for a pause.
Force ==
  /\ stage = "joining" /\ ~Active /\ ~expired
  /\ stage' = "forced"
  /\ IF now >= holdUntil
       THEN StartCycle(TRUE)
       ELSE UNCHANGED <<books, heartbeatAt, cycle>>
  /\ UNCHANGED <<now, health, holdUntil, failedCycles, retryAt, expired, lost, told>>

\* Nothing is waited for beyond the deadline; an active request is aborted.
Closed ==
  /\ \/ stage = "joining" /\ expired
     \/ stage = "forced" /\ (expired \/ ~Active)
  /\ stage' = "closed"
  /\ UNCHANGED <<now, health, lastSent, stamp, rateLimits, holdUntil, failedCycles, retryAt,
                 heartbeatAt, cycle, expired, lost, told, gaveUp>>

DeadlinePasses ==
  /\ stage \in {"joining", "forced"} /\ ~expired
  /\ expired' = TRUE
  /\ UNCHANGED <<now, health, lastSent, stamp, rateLimits, holdUntil, failedCycles, retryAt,
                 heartbeatAt, cycle, stage, lost, told, gaveUp>>

-----------------------------------------------------------------------------
(* The breakers, the clock and the network.                                 *)

HealthChanges ==
  /\ \E p \in Provider, h \in Health : health' = [health EXCEPT ![p] = h]
  /\ UNCHANGED <<now, lastSent, stamp, rateLimits, holdUntil, failedCycles, retryAt,
                 heartbeatAt, cycle, stage, expired, lost, told, gaveUp>>

TimePasses ==
  /\ now < MaxTime
  /\ now' = now + 1
  /\ UNCHANGED <<health, lastSent, stamp, rateLimits, holdUntil, failedCycles, retryAt,
                 heartbeatAt, cycle, stage, expired, lost, told, gaveUp>>

ArrivesLate ==
  /\ \E r \in lost : lost' = lost \ {r} /\ told' = Arrived(r)
  /\ UNCHANGED <<now, health, lastSent, stamp, rateLimits, holdUntil, failedCycles, retryAt,
                 heartbeatAt, cycle, stage, expired, gaveUp>>

Next ==
  \/ RoundEnds
  \/ Acknowledged \/ RateLimited \/ Refused \/ Failed \/ Ignored
  \/ Close \/ Force \/ Closed \/ DeadlinePasses
  \/ HealthChanges \/ TimePasses \/ ArrivesLate

Spec == Init /\ [][Next]_vars

-----------------------------------------------------------------------------
(* Properties.                                                             *)

(* A provider whose report is not due says the same to the control plane as its  *)
(* breaker does, however late lost reports arrive and however the wall clock      *)
(* steps, unless its last report was refused or given up.                         *)
ChangesStayDue ==
  \A p \in Provider :
    lastSent[p] # None => gaveUp[p] \/ told[p].says = lastSent[p]

(* A backoff is pending only after a cycle that failed.                           *)
BackoffIsEarned == (retryAt # 0) <=> failedCycles

HealthIsReported == ChangesStayDue /\ BackoffIsEarned
=============================================================================
