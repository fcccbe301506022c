-------------------------- MODULE UntrackedReporter --------------------------
(***************************************************************************)
(* Reports of calls the client does not meter (src/untracked-reporter.ts):  *)
(* occurrences are counted per surface, and one worker sends what is due in  *)
(* batches while more of them come in.  What a report says beside its count  *)
(* is left out.                                                              *)
(***************************************************************************)
EXTENDS Integers, Sequences, FiniteSets, SequencesExt

CONSTANTS
  Surface,      \* surfaces that are seen: the reporter's keys
  KeyLimit,     \* UNTRACKED_SURFACE_REPORT_KEY_LIMIT
  BatchSize,    \* UNTRACKED_SURFACE_REPORT_BATCH_SIZE
  MaxReported,  \* UNTRACKED_SURFACE_OCCURRENCES_MAX, of one report
  MaxAttempts,  \* maxSendAttempts; MAX_RATE_LIMIT_ATTEMPTS is the same number here
  Interval,     \* UNTRACKED_SURFACE_REPORT_INTERVAL_MS, in ticks; a backoff is one tick
  MaxSeen,      \* bound: occurrences per surface
  MaxTime       \* bound: ticks

Never == MaxTime + Interval + 2
None  == [cursor |-> 0, attempts |-> 0, limits |-> 0, next |-> 0]

VARIABLES
  seen,      \* per surface: its observation
  clock,     \* now, when something is due next (nextDueAt), until when a 429 holds
  worker,    \* the flush: its phase, the reports it built and still has to send
  closing,   \* "open", "closing", "aborted" once the shutdown deadline has passed
  history    \* occurrences delivered and given up, surfaces a refusal left behind

vars == <<seen, clock, worker, closing, history>>

Unseen == [total |-> 0, cursor |-> 0, attempted |-> -1, pending |-> None,
           disabled |-> FALSE, poisonUntil |-> 0]

Init ==
  /\ seen = [k \in Surface |-> Unseen]
  /\ clock = [now |-> 0, nextDue |-> Never, heldUntil |-> 0]
  /\ worker = [phase |-> "idle", left |-> <<>>, progressed |-> FALSE, final |-> FALSE,
               requested |-> FALSE, off |-> FALSE]
  /\ closing = "open"
  /\ history = [delivered |-> [k \in Surface |-> 0], lost |-> [k \in Surface |-> 0], abandoned |-> {}]

S == [seen |-> seen, clock |-> clock, worker |-> worker, closing |-> closing, history |-> history]
Becomes(s) == /\ seen' = s.seen /\ clock' = s.clock /\ worker' = s.worker
              /\ closing' = s.closing /\ history' = s.history

Least(a, b)    == IF a < b THEN a ELSE b
Greatest(a, b) == IF a > b THEN a ELSE b
Known(s)       == {k \in Surface : s.seen[k].total > 0}

-----------------------------------------------------------------------------
(* When an observation is due. *)

DueAt(o) ==
  IF o.pending # None THEN o.pending.next
  ELSE IF o.total > o.cursor
       THEN Greatest(o.poisonUntil, IF o.attempted < 0 THEN 0 ELSE o.attempted + Interval)
       ELSE Never

NoteDue(s, k) ==
  IF s.seen[k].disabled THEN s ELSE [s EXCEPT !.clock.nextDue = Least(@, DueAt(s.seen[k]))]

Unsent(s, k) ==
  /\ ~s.seen[k].disabled /\ s.clock.now >= s.seen[k].poisonUntil
  /\ s.seen[k].pending # None \/ s.seen[k].total > s.seen[k].cursor

IsDue(s, final) ==
  IF final THEN \E k \in Known(s) : Unsent(s, k) ELSE s.clock.now >= s.clock.nextDue

-----------------------------------------------------------------------------
(* buildDue: one surface after the other; a report that cannot be built is     *)
(* poison until the next interval and does not hold up the others.              *)

Built(o, now) ==
  LET count == Least(o.total - o.cursor, MaxReported)
  IN  [o EXCEPT !.attempted = now, !.pending = [None EXCEPT !.cursor = o.cursor + count, !.next = Never]]

Poisoned(o, now) == [o EXCEPT !.attempted = now, !.poisonUntil = now + Interval]

BuildOne(poison, final, s, k) ==
  LET o == s.seen[k]
      now == s.clock.now
      TooEarly == now < o.poisonUntil \/ (~final /\ o.attempted >= 0 /\ now - o.attempted < Interval)
      Add(t) == [t EXCEPT !.worker.left = Append(@, k)]
  IN  CASE o.disabled -> s
        [] o.pending # None /\ (final \/ now >= o.pending.next) ->
             Add([s EXCEPT !.seen[k].pending.next = Never])
        [] o.pending # None -> NoteDue(s, k)
        [] o.total <= o.cursor -> s
        [] TooEarly -> NoteDue(s, k)
        [] k \in poison -> NoteDue([s EXCEPT !.seen[k] = Poisoned(o, now)], k)
        [] OTHER -> Add([s EXCEPT !.seen[k] = Built(o, now)])

BuildDue(s, final, order, poison) ==
  IF ~IsDue(s, final) THEN s
  ELSE FoldLeft(LAMBDA t, k : BuildOne(poison, final, t, k), [s EXCEPT !.clock.nextDue = Never], order)

-----------------------------------------------------------------------------
(* The worker. *)

Batch(s)     == IF Len(s.worker.left) < BatchSize THEN s.worker.left
                ELSE SubSeq(s.worker.left, 1, BatchSize)
Remaining(s) == SubSeq(s.worker.left, Len(Batch(s)) + 1, Len(s.worker.left))
Returned(s)  == [s EXCEPT !.worker.phase = "returned", !.worker.left = <<>>]

DeferAll(s, ks, at) ==
  FoldLeft(LAMBDA t, k : NoteDue([t EXCEPT !.seen[k].pending.next = at], k), s, ks)

(* The next batch, unless the time to close is over or a 429 holds all of it. *)
SendNext(s) ==
  IF s.worker.left = <<>> \/ s.closing = "aborted" THEN Returned(s)
  ELSE IF s.clock.now < s.clock.heldUntil
       THEN Returned(DeferAll(s, s.worker.left, s.clock.heldUntil))
       ELSE [s EXCEPT !.worker.phase = "sending"]

FlushOnce(s, order, poison) ==
  LET t == [s EXCEPT !.worker.requested = FALSE, !.worker.progressed = FALSE,
                     !.worker.final = s.closing # "open"]
  IN  IF t.worker.off \/ t.clock.now < t.clock.heldUntil THEN Returned(t)
      ELSE SendNext(BuildDue(t, t.worker.final, order, poison))

RequestFlush(s, order, poison) ==
  IF s.worker.phase # "idle" THEN [s EXCEPT !.worker.requested = TRUE]
  ELSE FlushOnce(s, order, poison)

(* The Map's order is that of first observation, any order here. *)
Orders == SetToSeqs(Surface)

-----------------------------------------------------------------------------
(* What a batch's answer does to a report. *)

MarkSentUpTo(s, k, cursor) ==
  NoteDue([s EXCEPT !.seen[k].cursor = Greatest(@, cursor), !.seen[k].pending = None], k)

MarkSent(s, k) == MarkSentUpTo(s, k, s.seen[k].pending.cursor)

Reported(s, k) == s.seen[k].pending.cursor - s.seen[k].cursor

Sent(s, k)  == [MarkSent(s, k) EXCEPT !.history.delivered[k] = @ + Reported(s, k)]
GivenUp(s, k) == [MarkSent(s, k) EXCEPT !.history.lost[k] = @ + Reported(s, k)]
Reject(s, k) == [s EXCEPT !.seen[k].disabled = TRUE, !.seen[k].pending = None]

(* retryBatch, for one report: given up at its last attempt of either kind, else *)
(* deferred by a tick. A 429 holds all reports for as long as it says, or for the *)
(* backoff of a report that is tried again.                                       *)
Retry(limited, retryAfter, s, k) ==
  LET t  == IF limited THEN [s EXCEPT !.seen[k].pending.limits = @ + 1]
            ELSE [s EXCEPT !.seen[k].pending.attempts = @ + 1]
      p  == t.seen[k].pending
      Hold(u, until) == IF limited THEN [u EXCEPT !.clock.heldUntil = Greatest(@, until)] ELSE u
      held == Hold(t, s.clock.now + retryAfter)
      at   == s.clock.now + 1
  IN  IF p.attempts >= MaxAttempts \/ p.limits >= MaxAttempts THEN GivenUp(held, k)
      ELSE NoteDue([Hold(held, at) EXCEPT !.seen[k].pending.next = at], k)

GoOn(s) == SendNext([s EXCEPT !.worker.left = Remaining(s)])

-----------------------------------------------------------------------------
(* Actions. *)

Tick ==
  /\ clock.now < MaxTime
  /\ clock' = [clock EXCEPT !.now = @ + 1]
  /\ UNCHANGED <<seen, worker, closing, history>>

(* observe, and the client's flushDue right after it. *)
Observe(k) ==
  /\ closing = "open" /\ ~worker.off /\ ~seen[k].disabled /\ seen[k].total < MaxSeen
  /\ seen[k].total > 0 \/ Cardinality(Known(S)) < KeyLimit
  /\ LET counted == [S EXCEPT !.seen[k].total = @ + 1]
         s == IF seen[k].total = 0 THEN [counted EXCEPT !.clock.nextDue = 0] ELSE NoteDue(counted, k)
     IN  IF clock.now < clock.heldUntil \/ ~IsDue(s, FALSE) THEN Becomes(s)
         ELSE \E order \in Orders, poison \in SUBSET Surface : Becomes(RequestFlush(s, order, poison))

Delivered ==
  /\ worker.phase = "sending"
  /\ LET s == FoldLeft(Sent, S, Batch(S)) IN Becomes(GoOn([s EXCEPT !.worker.progressed = TRUE]))

(* Not retryable, retryable, or rate limited: the next batch goes out all the same. *)
Fails ==
  /\ worker.phase = "sending"
  /\ \/ Becomes(GoOn(FoldLeft(Reject, S, Batch(S))))
     \/ \E limited \in BOOLEAN, retryAfter \in {0, 1} :
          Becomes(GoOn(FoldLeft(LAMBDA s, k : Retry(limited, retryAfter, s, k), S, Batch(S))))

(* The key is refused: this batch is over, and so is the flush. A read-only key *)
(* ends all reporting.                                                          *)
Refused ==
  /\ worker.phase = "sending"
  /\ \E readOnly \in BOOLEAN :
       LET s == FoldLeft(Reject, S, Batch(S)) IN
         Becomes(Returned([s EXCEPT !.worker.off = @ \/ readOnly,
                                    !.history.abandoned = @ \union ToSet(Remaining(S))]))

(* drainRequestedFlushes: again if somebody asked meanwhile, or a final flush   *)
(* made progress and left something.                                            *)
Loop ==
  /\ worker.phase = "returned"
  /\ LET again == \/ worker.requested
                  \/ worker.final /\ worker.progressed /\ IsDue(S, TRUE)
     IN  IF again /\ closing # "aborted"
         THEN \E order \in Orders, poison \in SUBSET Surface : Becomes(FlushOnce(S, order, poison))
         ELSE Becomes([S EXCEPT !.worker.phase = "idle", !.worker.requested = again])

(* close: a final flush within its budget, which may be none at all. *)
Close ==
  /\ closing = "open"
  /\ \E order \in Orders, poison \in SUBSET Surface, state \in {"closing", "aborted"} :
       Becomes(RequestFlush([S EXCEPT !.closing = state], order, poison))

ShutdownDeadline ==
  /\ closing = "closing"
  /\ closing' = "aborted"
  /\ UNCHANGED <<seen, clock, worker, history>>

Next == \/ Tick \/ (\E k \in Surface : Observe(k)) \/ Delivered \/ Fails \/ Refused
        \/ Loop \/ Close \/ ShutdownDeadline

Spec == Init /\ [][Next]_vars

-----------------------------------------------------------------------------
(* Every occurrence is in one report at most: what a surface's cursor has       *)
(* passed was delivered or given up with its report, and what was seen while     *)
(* the report was under way is still to be reported.                             *)
OccurrencesReportedOnce ==
  \A k \in Surface :
    LET o == seen[k] IN
      /\ o.cursor = history.delivered[k] + history.lost[k] /\ o.cursor <= o.total
      /\ o.pending # None => o.cursor < o.pending.cursor /\ o.pending.cursor <= o.total

ComesDue(k) == clock.nextDue <= DueAt(seen[k]) /\ DueAt(seen[k]) < Never

(* While no flush runs, whatever is not reported yet is due at a time the next  *)
(* flush looks at, unless a refused key ended the flush that had built it.       *)
UnreportedComesDue ==
  worker.phase = "idle" /\ closing = "open" /\ ~worker.off =>
    \A k \in Surface \ history.abandoned :
      ~seen[k].disabled /\ seen[k].total > seen[k].cursor => ComesDue(k)

(* A batch that fails does not hold up the other batches of its flush: they are *)
(* sent, or come due again.                                                      *)
SiblingBatchesGoOn ==
  worker.phase = "idle" /\ closing = "open" /\ ~worker.off =>
    \A k \in history.abandoned :
      ~seen[k].disabled /\ seen[k].total > seen[k].cursor => ComesDue(k)
=============================================================================
