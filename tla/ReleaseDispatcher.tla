------------------------- MODULE ReleaseDispatcher -------------------------
(***************************************************************************)
(* The dispatcher of lease surrenders (src/src/release-dispatcher.ts): a   *)
(* bounded number of workers send queued requests, retry a timeout, hold   *)
(* their slot until the underlying fetch settles, and tell every submitter *)
(* one outcome.                                                            *)
(*                                                                         *)
(* A submission is named by an element of Submission; the item it creates  *)
(* has its name, and a submission that merges into a queued or active item *)
(* with the same payload joins that item's callbacks.  A callback or       *)
(* onWorkerReady may submit again: those calls run while the worker is     *)
(* between items (ready), where Submit is enabled.                         *)
(***************************************************************************)
EXTENDS Integers, FiniteSets, FiniteSetsExt, SequencesExt

CONSTANTS
  Submission, Payload,
  Workers,     \* RELEASE_WORKERS
  MaxPending,  \* RELEASE_MAX_PENDING
  MaxAttempts, \* options.maxAttempts
  Budget,      \* options.itemBudgetMs, in ticks
  CloseBudget, \* close(timeoutMs), in ticks
  MaxTime,     \* bound: the last tick
  None         \* no payload

ASSUME DispatcherAssumption ==
  /\ Workers \in Nat \ {0} /\ MaxPending \in Nat /\ MaxAttempts \in Nat \ {0}
  /\ Budget \in Nat \ {0} /\ CloseBudget \in Nat /\ MaxTime \in Nat
  /\ None \notin Payload

VARIABLES
  now,
  item,        \* per submission, the item it created
  queue,       \* ordinary items waiting, oldest first
  closeQueue,  \* close-time items waiting, oldest first
  active,      \* #active: workers running
  ready,       \* of those, the ones between two items
  told,        \* how often, and what, each submission was told
  counts,      \* enqueued, merged, sent, dropped
  closing,     \* "open", "draining" until finishClose is through, "closed"
  closeBy,     \* the close deadline
  idle         \* the waiter of whenIdle: "none", "waiting", "resolved"

vars == <<now, item, queue, closeQueue, active, ready, told, counts, closing, closeBy, idle>>

Step == {"absent", "merged", "queued", "sending", "held", "ended"}
Result == {"sent", "timeout", "failed"}   \* every other ReleaseAttemptResult is final too

NoItem == [payload |-> None, deadline |-> 0, closeTime |-> FALSE, callbacks |-> {},
           attempt |-> 0, step |-> "absent", result |-> "failed"]

TypeOK ==
  /\ now \in 0 .. MaxTime
  /\ item \in [Submission -> [payload : Payload \cup {None}, deadline : Nat, closeTime : BOOLEAN,
                              callbacks : SUBSET Submission, attempt : 0 .. MaxAttempts,
                              step : Step, result : Result]]
  /\ queue \in Seq(Submission) /\ closeQueue \in Seq(Submission)
  /\ active \in 0 .. Workers /\ ready \in 0 .. active
  /\ told \in [Submission -> [times : Nat, outcome : {"none", "sent", "dropped"}]]
  /\ counts \in [enqueued : Nat, merged : Nat, sent : Nat, dropped : Nat]
  /\ closing \in {"open", "draining", "closed"} /\ closeBy \in Nat
  /\ idle \in {"none", "waiting", "resolved"}

Init ==
  /\ now = 0 /\ item = [s \in Submission |-> NoItem]
  /\ queue = <<>> /\ closeQueue = <<>> /\ active = 0 /\ ready = 0
  /\ told = [s \in Submission |-> [times |-> 0, outcome |-> "none"]]
  /\ counts = [enqueued |-> 0, merged |-> 0, sent |-> 0, dropped |-> 0]
  /\ closing = "open" /\ closeBy = 0 /\ idle = "none"

Pending == Len(queue) + Len(closeQueue)
Busy == {s \in Submission : item[s].step \in {"sending", "held"}}
Waiting == {s \in Submission : item[s].step = "queued"}

-----------------------------------------------------------------------------
(* The state the synchronous methods pass along: d has the fields it, q, cq, *)
(* told, counts and active.                                                  *)

State == [it |-> item, q |-> queue, cq |-> closeQueue, told |-> told, counts |-> counts,
          active |-> active]

Becomes(d) == /\ item' = d.it /\ queue' = d.q /\ closeQueue' = d.cq
              /\ told' = d.told /\ counts' = d.counts /\ active' = d.active

Tally(c, outcome, n) ==
  IF outcome = "sent" THEN [c EXCEPT !.sent = @ + n] ELSE [c EXCEPT !.dropped = @ + n]

(* #finish of the items ss, in one outcome: counted once, told to everyone. *)
Finish(d, ss, outcome) ==
  LET observers == UNION {d.it[s].callbacks : s \in ss}
  IN  [d EXCEPT
        !.it = [s \in Submission |->
                  IF s \in ss THEN [NoItem EXCEPT !.step = "ended"] ELSE @[s]],
        !.told = [s \in Submission |->
                    IF s \in observers THEN [times |-> @[s].times + 1, outcome |-> outcome]
                                       ELSE @[s]],
        !.counts = Tally(@, outcome, Cardinality(ss))]

(* The length of the expired prefix of a FIFO. *)
Overdue(it, q) == Cardinality({i \in 1 .. Len(q) : \A j \in 1 .. i : it[q[j]].deadline <= now})

Expire(d) ==
  LET n == Overdue(d.it, d.cq)
      m == Overdue(d.it, d.q)
      ss == {d.cq[i] : i \in 1 .. n} \cup {d.q[i] : i \in 1 .. m}
  IN  Finish([d EXCEPT !.cq = SubSeq(@, n + 1, Len(@)), !.q = SubSeq(@, m + 1, Len(@))],
             ss, "dropped")

(* A worker takes item s off the head of its queue and makes its first attempt. *)
Take(d, s) ==
  [d EXCEPT !.cq = IF @ # <<>> THEN Tail(@) ELSE @,
            !.q = IF d.cq = <<>> THEN Tail(@) ELSE @,
            !.it[s].step = "sending", !.it[s].attempt = 1]

Head1(d) == IF d.cq # <<>> THEN Head(d.cq) ELSE Head(d.q)

(* #pump: one worker starts for the item just queued.  When a worker is free  *)
(* nothing else is waiting (NoIdleWorker), so one step of its loop is enough. *)
Pump(d) ==
  IF d.active = Workers THEN d ELSE Take([d EXCEPT !.active = @ + 1], Head1(d))

-----------------------------------------------------------------------------
(* Submitting *)

(* A plausible bug: only queued items are merged into, so an active request is repeated. *)
QueuedItems(it, p) == {s \in Submission : it[s].payload = p /\ it[s].step = "queued"}

LiveItems(it, p) ==
  {s \in Submission : it[s].payload = p /\ it[s].step \in {"queued", "sending", "held"}}

Submit(s) ==
  \E p \in Payload, closeTime \in BOOLEAN :
    LET d == Expire(State)
        deadline == IF closeTime THEN closeBy ELSE now + Budget
        born == [d EXCEPT
                  !.it[s] = [NoItem EXCEPT !.payload = p, !.deadline = deadline,
                                           !.closeTime = closeTime, !.callbacks = {s},
                                           !.step = "queued"],
                  !.counts.enqueued = @ + 1]
        pending == Len(d.q) + Len(d.cq)
    IN  /\ item[s].step = "absent"
        /\ closeTime => closing = "draining"
        /\ \/ \E t \in LiveItems(d.it, p) :
                Becomes([d EXCEPT !.it[s] = [NoItem EXCEPT !.step = "merged"], !.it[t].callbacks = @ \cup {s},
                      !.counts.merged = @ + 1])
           \/ /\ LiveItems(d.it, p) = {}
              /\ \/ deadline <= now \/ (~closeTime /\ pending >= MaxPending)
              /\ Becomes(Finish(born, {s}, "dropped"))
           \/ /\ LiveItems(d.it, p) = {}
              /\ deadline > now /\ (closeTime \/ pending < MaxPending)
              /\ Becomes(Pump(IF closeTime THEN [born EXCEPT !.cq = Append(@, s)]
                                           ELSE [born EXCEPT !.q = Append(@, s)]))
        /\ UNCHANGED <<now, ready, closing, closeBy, idle>>

-----------------------------------------------------------------------------
(* Sending *)

(* A plausible bug: a timed-out request gives its slot back while it still runs. *)
AttemptEndsFreeing(s) ==
  /\ item[s].step = "sending"
  /\ \E r \in Result : item' = [item EXCEPT ![s].step = "held", ![s].result = r]
  /\ ready' = ready + 1
  /\ UNCHANGED <<now, queue, closeQueue, active, told, counts, closing, closeBy, idle>>

(* The attempt is decided while its fetch still runs: the slot is kept. *)
AttemptEnds(s) ==
  /\ item[s].step = "sending"
  /\ \E r \in Result : item' = [item EXCEPT ![s].step = "held", ![s].result = r]
  /\ UNCHANGED <<now, queue, closeQueue, active, ready, told, counts, closing, closeBy, idle>>

Retries(i) == i.result = "timeout" /\ i.attempt < MaxAttempts /\ ~i.closeTime

(* A plausible bug: the timeout of an attempt is reported before it is retried. *)
SettledTellingTimeouts(s) ==
  LET i == item[s]
  IN  /\ i.step = "held"
      /\ \/ /\ Retries(i) /\ i.deadline > now
            /\ item' = [item EXCEPT ![s].step = "sending", ![s].attempt = @ + 1]
            /\ told' = [t \in Submission |->
                          IF t \in i.callbacks
                          THEN [times |-> told[t].times + 1, outcome |-> "dropped"] ELSE told[t]]
            /\ UNCHANGED <<queue, closeQueue, active, ready, counts>>
         \/ /\ ~(Retries(i) /\ i.deadline > now)
            /\ Becomes(Finish(State, {s}, IF i.result = "sent" THEN "sent" ELSE "dropped"))
            /\ ready' = ready + 1
      /\ UNCHANGED <<now, closing, closeBy, idle>>

(* The fetch has settled: another attempt, or the item is finished. *)
Settled(s) ==
  LET i == item[s]
  IN  /\ i.step = "held"
      /\ \/ /\ Retries(i) /\ i.deadline > now
            /\ item' = [item EXCEPT ![s].step = "sending", ![s].attempt = @ + 1]
            /\ UNCHANGED <<queue, closeQueue, active, ready, told, counts>>
         \/ /\ ~(Retries(i) /\ i.deadline > now)
            /\ Becomes(Finish(State, {s}, IF i.result = "sent" THEN "sent" ELSE "dropped"))
            /\ ready' = ready + 1
      /\ UNCHANGED <<now, closing, closeBy, idle>>

Wake(d) ==
  idle' = IF d.active = 0 /\ d.q = <<>> /\ d.cq = <<>> /\ idle = "waiting" THEN "resolved" ELSE idle

(* A worker between items takes the next one or leaves. *)
WorkerNext ==
  /\ ready > 0 /\ ready' = ready - 1
  /\ LET e == Expire(State)
         d == IF e.cq = <<>> /\ e.q = <<>> THEN [e EXCEPT !.active = @ - 1] ELSE Take(e, Head1(e))
     IN  Becomes(d) /\ Wake(d)
  /\ UNCHANGED <<now, closing, closeBy>>

-----------------------------------------------------------------------------
(* Closing *)

Clamp(it, deadline) ==
  [s \in Submission |->
     IF it[s].step = "queued"
     THEN [it[s] EXCEPT !.deadline = Min({@, deadline}), !.closeTime = TRUE] ELSE it[s]]

(* close: waiting items get one attempt before the close deadline. *)
Close ==
  /\ closing = "open" /\ closing' = "draining"
  /\ closeBy' = now + CloseBudget
  /\ item' = Clamp(item, closeBy')
  /\ closeQueue' = closeQueue \o queue /\ queue' = <<>>
  /\ UNCHANGED <<now, active, ready, told, counts, idle>>

(* finishClose: it waits for the dispatcher to be idle ... *)
WhenIdle ==
  /\ closing = "draining" /\ idle = "none"
  /\ idle' = IF active = 0 /\ Pending = 0 THEN "resolved" ELSE "waiting"
  /\ UNCHANGED <<now, item, queue, closeQueue, active, ready, told, counts, closing, closeBy>>

(* ... until the deadline, and drops what is left. *)
FinishClose ==
  /\ closing = "draining" /\ idle # "none"
  /\ idle = "resolved" \/ now >= closeBy
  /\ closing' = "closed"
  /\ Becomes(Finish([State EXCEPT !.cq = <<>>], Range(closeQueue), "dropped"))
  /\ UNCHANGED <<now, ready, closeBy, idle>>

Tick ==
  /\ now < MaxTime /\ now' = now + 1
  /\ UNCHANGED <<item, queue, closeQueue, active, ready, told, counts, closing, closeBy, idle>>

Next ==
  \/ \E s \in Submission : Submit(s) \/ AttemptEnds(s) \/ Settled(s)
  \/ WorkerNext \/ Close \/ WhenIdle \/ FinishClose \/ Tick

Spec == Init /\ [][Next]_vars

-----------------------------------------------------------------------------
(* Properties *)

(* The class comment: enqueued equals sent plus every drop once idle; in any *)
(* state the difference is what is queued or active, and nothing else.       *)
CountsBalance ==
  counts.enqueued = counts.sent + counts.dropped + Cardinality(Waiting) + Cardinality(Busy)

(* The slot is the request's until its fetch settles: requests on the wire,   *)
(* a timed-out one included, never outnumber the workers, a worker that is    *)
(* counted active is sending or about to take the next item, and no item      *)
(* waits while a worker is free, nor past its deadline behind another that     *)
(* has a later one: #expireHead looks at heads only, on the ground that         *)
(* deadlines are non-decreasing within a FIFO, and clamping for close keeps it. *)
SlotsAreHeld ==
  /\ active = Cardinality(Busy) + ready /\ active <= Workers
  /\ Pending > 0 => active = Workers
  /\ \A q \in {queue, closeQueue} : \A i, j \in 1 .. Len(q) :
       i < j => item[q[i]].deadline <= item[q[j]].deadline

(* Whoever was not told yet is told by the one item that carries its payload: *)
(* merging, expiry, refusal by a full queue and close forget no callback, and  *)
(* no identical surrender is queued or sent twice at the same time.  Whoever   *)
(* waits for the dispatcher to be idle is woken by a worker that still runs.   *)
NobodyForgotten ==
  /\ \A s \in Submission :
       item[s].step # "absent" /\ told[s].times = 0
       => \E t \in Busy \cup Waiting : s \in item[t].callbacks
  /\ \A s, t \in Busy \cup Waiting : item[s].payload = item[t].payload => s = t
  /\ idle = "waiting" => active > 0

(* No release is lost from the totals, nor anybody who submitted one. *)
NothingIsLost == CountsBalance /\ NobodyForgotten

(* Every submission is told one outcome, the final one: the dispatcher       *)
(* implements Outcomes with each submission a request.                       *)
Fate(s) ==
  CASE told[s].times > 1 -> "twice"
    [] told[s].times = 1 -> told[s].outcome
    [] told[s].times = 0 -> IF item[s].step = "absent" THEN "unborn" ELSE "open"

Promise == INSTANCE Outcomes WITH Request <- Submission, fate <- [s \in Submission |-> Fate(s)]
OutcomesAreFinal == Promise!Spec
=============================================================================
