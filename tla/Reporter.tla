------------------------------ MODULE Reporter ------------------------------
(***************************************************************************)
(* The metadata reporter (src/src/reporter.ts) with its receipt folds      *)
(* (src/src/receipt-fold.ts).  Callers hand it budget confirms,            *)
(* settlements (a confirm and the event it pays for) and metadata events;  *)
(* rounds started by the flush tick deliver them, and close() delivers or  *)
(* counts the rest under one deadline.                                     *)
(*                                                                         *)
(* A settlement s has two halves: its confirm and its event, both named s. *)
(* Whatever happens, each half handed in must end up delivered or counted  *)
(* as one drop, or be held in exactly one place.                           *)
(*                                                                         *)
(* Time is abstract: a parked entry waits for its local backoff or for the *)
(* server's Retry-After, `hold` is the shared window of rate-limited       *)
(* ingest and breaker reports, and the close deadline passes in a step of  *)
(* its own, before or after the timer that acts on it.                     *)
(***************************************************************************)
EXTENDS Integers, Sequences, FiniteSets, FiniteSetsExt

CONSTANTS Confirms, Settlements, Events,   \* numbers, reported in increasing order
          Denied,              \* the events that are denial receipts
          Invalid,             \* the events that fail validation
          FoldKey,             \* the aggregation key of each denied event
          FoldLimit,           \* RECEIPT_FOLD_LIMIT
          BatchSize, MaxQueueSize, ControlMax, MaxInFlight,
          MaxSendAttempts, MaxRateLimitAttempts

ASSUME ReporterAssumption ==
  /\ Confirms \union Settlements \union Events \subseteq Nat
  /\ Confirms \intersect Settlements = {} /\ Confirms \intersect Events = {}
  /\ Settlements \intersect Events = {}
  /\ Denied \subseteq Events /\ Invalid \subseteq Events
  /\ FoldKey \in [Denied -> Nat] /\ FoldLimit \in Nat
  /\ {BatchSize, MaxQueueSize, ControlMax, MaxInFlight,
      MaxSendAttempts, MaxRateLimitAttempts} \subseteq Nat \ {0}

Stages == {"confirms", "settlements"}

VARIABLES
  fresh,      \* ids no caller has handed in yet
  queue,      \* the confirm and the settlement queue
  books,      \* event queue, receipt folds and event drop counts
  hand,       \* claimed confirms or settlements, in dispatch order
  batch,      \* the claimed event batch
  phase,      \* where the active round stands, "idle" when there is none
  round,      \* the round's local variables
  gate,       \* the last cycle was clean: folds may be replayed
  hold,       \* the shared server rate-limit window is running
  reporting,  \* a cycle of breaker reports is active
  closing, deadline,
  confirmed,  \* confirms the server took
  dropped,    \* times each confirm was counted as a drop
  delivered,  \* events the server took
  recounted,  \* confirms a refusal counted without owning them any more
  uncounted   \* members of a refused aggregate beyond the one counted

vars == <<fresh, queue, books, hand, batch, phase, round, gate, hold, reporting,
          closing, deadline, confirmed, dropped, delivered, recounted, uncounted>>

Expired == deadline = "passed"
EventIds == Events \union Settlements
Controls == Confirms \union Settlements

Pending(x) == [of |-> x, tries |-> 0, limited |-> 0, park |-> "no"]

NoRound == [final |-> FALSE, resolved |-> 0, blocked |-> FALSE, held |-> FALSE,
            left |-> 0, sentClean |-> FALSE, clean |-> TRUE]

Init ==
  /\ fresh = Controls \union Events
  /\ queue = [s \in Stages |-> <<>>]
  /\ books = [queue |-> <<>>, folds |-> <<>>, terminal |-> FALSE,
              drops |-> [e \in EventIds |-> 0]]
  /\ hand = <<>> /\ batch = <<>>
  /\ phase = "idle" /\ round = NoRound
  /\ gate = FALSE /\ hold = FALSE /\ reporting = FALSE
  /\ closing = "open" /\ deadline = "none"
  /\ confirmed = {} /\ dropped = [c \in Controls |-> 0] /\ delivered = {}
  /\ recounted = {} /\ uncounted = {}

-----------------------------------------------------------------------------
\* The entries of s at the positions I, in their order.
Select(s, I) ==
  LET upTo[i \in 0 .. Len(s)] ==
        IF i = 0 THEN <<>>
        ELSE IF i \in I THEN Append(upTo[i - 1], s[i]) ELSE upTo[i - 1]
  IN  upTo[Len(s)]

\* How many entries are about x, and how many hold the event e.
Of(entries, x) == Cardinality({i \in DOMAIN entries : entries[i].of = x})
In(entries, e) == Cardinality({i \in DOMAIN entries : e \in entries[i].of})

-----------------------------------------------------------------------------
(* Event entries are sets of events: one event, or the aggregate that      *)
(* replays a fold.                                                         *)

Counted(b, ids) == [b EXCEPT !.drops = [e \in EventIds |->
                                          @[e] + (IF e \in ids THEN 1 ELSE 0)]]

KeyOf(ids) == FoldKey[CHOOSE e \in ids : TRUE]

\* Fold a disposed receipt, or count a disposed event by its weight.
Dispose(b, ids, force) ==
  LET same == {k \in DOMAIN b.folds : KeyOf(b.folds[k]) = KeyOf(ids)} IN
  IF force \/ b.terminal \/ ~(ids \subseteq Denied) THEN Counted(b, ids)
  ELSE IF same # {} THEN [b EXCEPT !.folds[Min(same)] = @ \union ids]
  ELSE IF Len(b.folds) < FoldLimit THEN [b EXCEPT !.folds = Append(@, ids)]
  ELSE Counted(b, ids)

DisposeAll(b, entries, force) ==
  LET upTo[i \in 0 .. Len(entries)] ==
        IF i = 0 THEN b ELSE Dispose(upTo[i - 1], entries[i].of, force)
  IN  upTo[Len(entries)]

\* A plausible bug: a full queue is noticed one event too late.
PushEventLate(b, ids, bypass) ==
  LET fits == bypass \/ Len(b.queue) <= MaxQueueSize
      kept == IF fits THEN b.queue ELSE Tail(b.queue)
      pushed == [b EXCEPT !.queue = Append(kept, Pending(ids))] IN
  IF fits THEN pushed ELSE Dispose(pushed, Head(b.queue).of, FALSE)

\* Append one entry; a full queue evicts its oldest unless delivery is final.
PushEvent(b, ids, bypass) ==
  LET fits == bypass \/ Len(b.queue) < MaxQueueSize
      kept == IF fits THEN b.queue ELSE Tail(b.queue)
      pushed == [b EXCEPT !.queue = Append(kept, Pending(ids))] IN
  IF fits THEN pushed ELSE Dispose(pushed, Head(b.queue).of, FALSE)

PushAll(b, line, bypass) ==
  LET upTo[i \in 0 .. Len(line)] ==
        IF i = 0 THEN b ELSE PushEvent(upTo[i - 1], line[i], bypass)
  IN  upTo[Len(line)]

\* A plausible bug: the evictions of a restore are not reported.
RestoredSilently(q, prefix, max, bypass) ==
  LET all == prefix \o q
      n == IF bypass THEN Len(all) ELSE Min({Len(all), max}) IN
  [kept |-> SubSeq(all, 1, n), evicted |-> <<>>]

\* A plausible bug: retried entries are queued again at the tail.
RestoredAtTail(q, prefix, max, bypass) ==
  LET all == q \o prefix
      n == IF bypass THEN Len(all) ELSE Min({Len(all), max}) IN
  [kept |-> SubSeq(all, 1, n), evicted |-> SubSeq(all, n + 1, Len(all))]

\* Put a claimed prefix back in front; what no longer fits is the newest.
Restored(q, prefix, max, bypass) ==
  LET all == prefix \o q
      n == IF bypass THEN Len(all) ELSE Min({Len(all), max}) IN
  [kept |-> SubSeq(all, 1, n), evicted |-> SubSeq(all, n + 1, Len(all))]

RestoreEvents(b, prefix, bypass) ==
  LET r == Restored(b.queue, prefix, MaxQueueSize, bypass) IN
  DisposeAll([b EXCEPT !.queue = r.kept], r.evicted, FALSE)

\* Replay every fold as one aggregate at the tail of the event queue.
ReplayFolds(b, bypass) == PushAll([b EXCEPT !.folds = <<>>], b.folds, bypass)

\* A plausible bug: the folds are sealed but not taken.
TakeFoldsFinalSealing(b) == [b EXCEPT !.terminal = TRUE]

TakeFoldsFinal(b) == ReplayFolds([b EXCEPT !.terminal = TRUE], TRUE)

\* A decided settlement hands its event on; a plain confirm has none.
EventsOf(b, s, entries) ==
  IF s = "settlements"
    THEN PushAll(b, [i \in DOMAIN entries |-> {entries[i].of}], closing # "open")
    ELSE b

EventOf(b, s, p) == EventsOf(b, s, <<p>>)

CountDrops(entries) == [c \in Controls |-> dropped[c] + Of(entries, c)]

-----------------------------------------------------------------------------
(* Callers.                                                                *)

Next1(S) == Min(fresh \intersect S)

Report ==
  /\ fresh \intersect Events # {}
  /\ LET e == Next1(Events) IN
     /\ fresh' = fresh \ {e}
     /\ books' = IF closing = "open" THEN PushEvent(books, {e}, FALSE)
                                     ELSE Counted(books, {e})
  /\ UNCHANGED <<queue, hand, batch, phase, round, gate, hold, reporting, closing,
                 deadline, confirmed, dropped, delivered, recounted, uncounted>>

\* A full control queue evicts its oldest confirm or settlement.
ReportControl(s, ids) ==
  /\ fresh \intersect ids # {}
  /\ LET c == Next1(ids)
         full == Len(queue[s]) >= ControlMax
         out == IF closing # "open" THEN <<Pending(c)>>
                ELSE IF full THEN <<Head(queue[s])>> ELSE <<>> IN
     /\ fresh' = fresh \ {c}
     /\ dropped' = CountDrops(out)
     /\ IF closing # "open"
          THEN /\ books' = IF s = "settlements" THEN Counted(books, {c}) ELSE books
               /\ UNCHANGED queue
          ELSE /\ books' = EventsOf(books, s, out)
               /\ queue' = [queue EXCEPT ![s] =
                              Append(IF full THEN Tail(@) ELSE @, Pending(c))]
  /\ UNCHANGED <<hand, batch, phase, round, gate, hold, reporting, closing,
                 deadline, confirmed, delivered, recounted, uncounted>>

ReportConfirm == ReportControl("confirms", Confirms)
ReportSettlement == ReportControl("settlements", Settlements)

-----------------------------------------------------------------------------
(* Confirms and settlements: a window of at most MaxInFlight sends.         *)

Due(p, final) == IF final THEN p.park # "server" ELSE p.park = "no"

Sending(h) == Cardinality({k \in DOMAIN h : h[k].op = "sending"})

Quota == Max({1, Min({BatchSize, MaxQueueSize})})

\* How many heads dispatch() claims: due, in the window, within the quota.
Claimable(q, h, r) ==
  IF r.blocked \/ Expired THEN 0
  ELSE Max({n \in 0..Len(q) :
             /\ n + Sending(h) <= MaxInFlight
             /\ r.final \/ n + r.resolved <= Quota
             /\ \A i \in 1..n : Due(q[i], r.final)})

\* One call of dispatch() for stage s, on the queues qs and the claims h.
Dispatch(s, qs, h, r) ==
  LET n == Claimable(qs[s], h, r) IN
  /\ queue' = [qs EXCEPT ![s] = SubSeq(@, n + 1, Len(@))]
  /\ hand' = h \o [i \in 1..n |-> [p |-> qs[s][i], op |-> "sending"]]
  /\ round' = [r EXCEPT !.resolved = IF r.final THEN @ ELSE @ + n]

InStage == phase \in Stages
Current(k) == InStage /\ k \in DOMAIN hand /\ hand[k].op = "sending" /\ ~Expired
Without(k) == SubSeq(hand, 1, k - 1) \o SubSeq(hand, k + 1, Len(hand))

\* The entry as #scheduleRetry leaves it; `ok` says whether it may try again.
Retry(p, limited, after) ==
  LET q == [p EXCEPT !.tries = IF limited THEN @ ELSE @ + 1,
                     !.limited = IF limited THEN @ + 1 ELSE @,
                     !.park = IF after THEN "server" ELSE "backoff"] IN
  [entry |-> q,
   ok |-> IF limited THEN q.limited < MaxRateLimitAttempts
                     ELSE q.tries < MaxSendAttempts]

\* The claim is given up as a drop; a settlement still hands on its event.
GiveUp(k) ==
  /\ dropped' = CountDrops(<<hand[k].p>>)
  /\ books' = EventOf(books, phase, hand[k].p)
  /\ Dispatch(phase, queue, Without(k), round)

\* The claim waits for the end of the stage, which then restores it.
KeepForRestore(k, entry, held) ==
  /\ Dispatch(phase, queue, [hand EXCEPT ![k] = [p |-> entry, op |-> "restore"]],
              [round EXCEPT !.blocked = TRUE, !.held = @ \/ held])
  /\ UNCHANGED <<books, dropped>>

ConfirmSent(k) ==
  /\ Current(k)
  /\ confirmed' = confirmed \union {hand[k].p.of}
  /\ books' = EventOf(books, phase, hand[k].p)
  /\ Dispatch(phase, queue, Without(k), round)
  /\ UNCHANGED <<fresh, batch, phase, gate, hold, reporting, closing, deadline,
                 dropped, delivered, recounted, uncounted>>

\* The control-plane breaker admits no send.
ConfirmHeld(k) ==
  /\ Current(k)
  /\ IF round.final
       THEN /\ dropped' = CountDrops(<<hand[k].p>>)
            /\ books' = EventOf(books, phase, hand[k].p)
            /\ Dispatch(phase, queue, Without(k),
                        [round EXCEPT !.blocked = TRUE, !.held = TRUE])
       ELSE KeepForRestore(k, hand[k].p, TRUE)
  /\ UNCHANGED <<fresh, batch, phase, gate, hold, reporting, closing, deadline,
                 confirmed, delivered, recounted, uncounted>>

\* A terminal status, an invalid confirm, or a refusal of the API key.
ConfirmDropped(k) ==
  /\ Current(k)
  /\ GiveUp(k)
  /\ UNCHANGED <<fresh, batch, phase, gate, hold, reporting, closing, deadline,
                 confirmed, delivered, recounted, uncounted>>

\* A failure that may be retried, unless the attempts are used up.
ConfirmFails(k) ==
  /\ Current(k)
  /\ \E limited, after \in BOOLEAN :
       LET r == Retry(hand[k].p, limited, after) IN
       IF ~r.ok \/ (round.final /\ ~after) THEN GiveUp(k)
       ELSE KeepForRestore(k, r.entry, FALSE)
  /\ UNCHANGED <<fresh, batch, phase, gate, hold, reporting, closing, deadline,
                 confirmed, delivered, recounted, uncounted>>

\* An answer after the deadline: the claim stays for the seal to count.  A
\* refusal was counted in the send itself, which did not ask who owns it.
ConfirmLate(k) ==
  /\ InStage /\ Expired /\ k \in DOMAIN hand /\ hand[k].op = "sending"
  /\ hand' = [hand EXCEPT ![k].op = "late"]
  /\ \E refused \in BOOLEAN :
       IF refused THEN /\ dropped' = CountDrops(<<hand[k].p>>)
                       /\ recounted' = recounted \union {hand[k].p.of}
                  ELSE UNCHANGED <<dropped, recounted>>
  /\ UNCHANGED <<fresh, queue, books, batch, phase, round, gate, hold, reporting,
                 closing, deadline, confirmed, delivered, uncounted>>

-----------------------------------------------------------------------------
(* A round: confirms, then settlements, then events.                       *)

AllAnswered == \A k \in DOMAIN hand : hand[k].op # "sending"

NewStage(r) == [r EXCEPT !.resolved = 0, !.blocked = FALSE, !.held = FALSE]

Batches(q) == (Len(q) + BatchSize - 1) \div BatchSize

\* The flush tick: replay the folds if the last cycle was clean, then start.
StartRound ==
  /\ phase = "idle" /\ closing = "open"
  /\ books' = IF gate THEN ReplayFolds(books, FALSE) ELSE books
  /\ gate' = FALSE
  /\ phase' = "confirms"
  /\ Dispatch("confirms", queue, <<>>, NoRound)
  /\ UNCHANGED <<fresh, batch, hold, reporting, closing, deadline, confirmed,
                 dropped, delivered, recounted, uncounted>>

\* The stage after s starts on the queues qs and the books b it left.
NextStage(s, qs, b) ==
  IF s = "confirms"
    THEN /\ phase' = "settlements"
         /\ Dispatch("settlements", qs, <<>>, NewStage(round))
    ELSE /\ phase' = "events"
         /\ queue' = qs /\ hand' = <<>>
         /\ round' = [NewStage(round) EXCEPT
                         !.left = IF round.final THEN 0 ELSE Batches(b.queue)]

Claims(h) == [k \in DOMAIN h |-> h[k].p]
Kept == Claims(Select(hand, {k \in DOMAIN hand : hand[k].op = "restore"}))

\* Final delivery with a head it may still send, or must wait for.
FinalHead == round.final /\ ~round.blocked /\ queue[phase] # <<>>

\* Every claim is answered: put the kept ones back and go on.  Final delivery
\* starts the stage again after that, gives up the queue if the breaker held a
\* send, and leaves the stage when a hold ends just before it would wait for it.
StageEnds ==
  /\ InStage /\ ~Expired /\ AllAnswered
  /\ FinalHead => Due(Head(queue[phase]), TRUE)
  /\ LET again == round.final /\ hand # <<>>
         refused == round.final /\ round.held /\ hand = <<>>
         r == Restored(queue[phase], Kept, ControlMax, FALSE)
         qs == [queue EXCEPT ![phase] = IF refused THEN <<>> ELSE r.kept]
         out == IF refused THEN queue[phase] ELSE r.evicted
         b == EventsOf(books, phase, out) IN
     /\ books' = b
     /\ dropped' = CountDrops(out)
     /\ IF again THEN /\ phase' = phase
                      /\ Dispatch(phase, qs, <<>>, NewStage(round))
                 ELSE NextStage(phase, qs, b)
  /\ UNCHANGED <<fresh, batch, gate, hold, reporting, closing, deadline,
                 confirmed, delivered, recounted, uncounted>>

\* Final delivery waited out a server hold of the head.
FinalResumes ==
  /\ InStage /\ ~Expired /\ AllAnswered /\ FinalHead
  /\ Due(Head(queue[phase]), TRUE)
  /\ Dispatch(phase, queue, hand, round)
  /\ UNCHANGED <<fresh, books, batch, phase, gate, hold, reporting, closing,
                 deadline, confirmed, dropped, delivered, recounted, uncounted>>

\* The hold of the head does not fit before the deadline.
FinalSkips ==
  /\ InStage /\ ~Expired /\ AllAnswered /\ FinalHead
  /\ ~Due(Head(queue[phase]), TRUE)
  /\ dropped' = CountDrops(<<Head(queue[phase])>>)
  /\ books' = EventOf(books, phase, Head(queue[phase]))
  /\ Dispatch(phase, [queue EXCEPT ![phase] = Tail(@)], hand, round)
  /\ UNCHANGED <<fresh, batch, phase, gate, hold, reporting, closing, deadline,
                 confirmed, delivered, recounted, uncounted>>

-----------------------------------------------------------------------------
(* Events: one batch at a time, not guarded by the breaker.                 *)

InEvents == phase = "events" /\ batch = <<>> /\ ~Expired

\* The longest prefix of the event queue, within a batch, that satisfies P.
Prefix1(P(_)) ==
  Max({n \in 0..Min({BatchSize, Len(books.queue)}) :
         \A i \in 1..n : P(books.queue[i])})

Claim == IF hold THEN 0 ELSE Prefix1(LAMBDA p : Due(p, round.final))

TakeBatch(n) == [books EXCEPT !.queue = SubSeq(@, n + 1, Len(@))]

\* Claim a batch, dispose its invalid events, and send the others.
ClaimBatch ==
  /\ InEvents /\ Claim > 0 /\ (round.final \/ round.left > 0)
  /\ LET claimed == SubSeq(books.queue, 1, Claim)
         bad == {i \in DOMAIN claimed : claimed[i].of \subseteq Invalid}
         invalid == Select(claimed, bad) IN
     /\ batch' = Select(claimed, DOMAIN claimed \ bad)
     /\ books' = DisposeAll(TakeBatch(Claim), invalid, round.final)
     /\ round' = [round EXCEPT !.left = IF round.final THEN @ ELSE @ - 1,
                               !.clean = @ /\ invalid = <<>>]
  /\ UNCHANGED <<fresh, queue, hand, phase, gate, hold, reporting, closing,
                 deadline, confirmed, dropped, delivered, recounted, uncounted>>

\* Final delivery: a hold that does not fit before the deadline ends its prefix.
Held(p) == hold \/ p.park = "server"

FinalRateLimited ==
  /\ InEvents /\ round.final /\ books.queue # <<>> /\ Held(Head(books.queue))
  /\ LET n == Prefix1(Held) IN
     books' = DisposeAll(TakeBatch(n), SubSeq(books.queue, 1, n), TRUE)
  /\ round' = [round EXCEPT !.clean = FALSE]
  /\ UNCHANGED <<fresh, queue, hand, batch, phase, gate, hold, reporting, closing,
                 deadline, confirmed, dropped, delivered, recounted, uncounted>>

\* A plausible bug: breaker reports start without asking for the server's hold.
EndRoundReporting(clean) ==
  /\ phase' = "idle" /\ round' = NoRound
  /\ gate' = (gate \/ (clean /\ ~books'.terminal))
  /\ IF reporting \/ closing # "open" THEN UNCHANGED reporting
     ELSE reporting' \in BOOLEAN

\* The round is over; a fully clean one opens the gate for the folds.  After
\* it a cycle of breaker reports may start, unless the server holds it back.
EndRound(clean) ==
  /\ phase' = "idle" /\ round' = NoRound
  /\ gate' = (gate \/ (clean /\ ~books'.terminal))
  /\ IF hold' \/ reporting \/ closing # "open" THEN UNCHANGED reporting
     ELSE reporting' \in BOOLEAN

EventsEnd ==
  /\ InEvents
  /\ IF round.final THEN books.queue = <<>> ELSE round.left = 0 \/ Claim = 0
  /\ UNCHANGED <<books, hold>>
  /\ EndRound(round.sentClean /\ round.clean)
  /\ UNCHANGED <<fresh, queue, hand, batch, closing, deadline, confirmed, dropped,
                 delivered, recounted, uncounted>>

Answered == phase = "events" /\ batch # <<>> /\ ~Expired
InBatch == UNION {batch[i].of : i \in DOMAIN batch}
Weight(p) == Cardinality(p.of)

\* 202 with the entries R rejected, each named by its index; a body that cannot
\* be parsed rejects nothing, but is not clean.
BatchSent ==
  /\ Answered
  /\ \E R \in SUBSET DOMAIN batch :
       LET of == UNION {batch[i].of : i \in R} IN
       /\ books' = DisposeAll(books, Select(batch, R), round.final)
       /\ delivered' = delivered \union (InBatch \ of)
       /\ \E parsed \in {R = {}, FALSE} :
            round' = [round EXCEPT !.sentClean = @ \/ parsed, !.clean = @ /\ parsed]
  /\ batch' = <<>>
  /\ UNCHANGED <<fresh, queue, hand, phase, gate, hold, reporting, closing,
                 deadline, confirmed, dropped, recounted, uncounted>>

\* 202 that only says how many entries were rejected: the heaviest are counted.
BatchPartlyRejected ==
  /\ Answered
  /\ \E n \in 1..(Len(batch) - 1), R \in SUBSET DOMAIN batch :
       /\ Cardinality(R) = n
       /\ \A i \in R, j \in DOMAIN batch \ R :
            \/ Weight(batch[i]) > Weight(batch[j])
            \/ Weight(batch[i]) = Weight(batch[j]) /\ i < j
       /\ LET of == UNION {batch[i].of : i \in R} IN
          /\ books' = Counted(books, of)
          /\ delivered' = delivered \union (InBatch \ of)
  /\ round' = [round EXCEPT !.clean = FALSE]
  /\ batch' = <<>>
  /\ UNCHANGED <<fresh, queue, hand, phase, gate, hold, reporting, closing,
                 deadline, confirmed, dropped, recounted, uncounted>>

\* The API key is refused: the batch is over, counted by entries, not by weight.
BatchRefused ==
  /\ Answered
  /\ LET first == {Min(batch[i].of) : i \in DOMAIN batch} IN
     /\ books' = Counted(books, first)
     /\ uncounted' = uncounted \union (InBatch \ first)
  /\ round' = [round EXCEPT !.clean = FALSE]
  /\ batch' = <<>>
  /\ UNCHANGED <<fresh, queue, hand, phase, gate, hold, reporting, closing,
                 deadline, confirmed, dropped, delivered, recounted>>

\* A terminal status for the whole batch.
BatchDropped ==
  /\ Answered
  /\ books' = DisposeAll(books, batch, round.final)
  /\ round' = [round EXCEPT !.clean = FALSE]
  /\ batch' = <<>>
  /\ UNCHANGED <<fresh, queue, hand, phase, gate, hold, reporting, closing,
                 deadline, confirmed, dropped, delivered, recounted, uncounted>>

\* The whole batch failed: restore what may try again, dispose the rest.  An
\* ordinary round ends here, final delivery waits for the server and goes on.
BatchFails ==
  /\ Answered
  /\ \E limited, after \in BOOLEAN :
       LET again == {i \in DOMAIN batch : Retry(batch[i], limited, after).ok
                                           /\ (after \/ ~round.final)}
           some == Select(batch, again)
           survivors == [i \in DOMAIN some |-> Retry(some[i], limited, after).entry]
           exhausted == Select(batch, DOMAIN batch \ again)
           restored == RestoreEvents(books, survivors, closing # "open") IN
       /\ books' = DisposeAll(restored, exhausted, round.final)
       /\ hold' = (hold \/ (limited /\ after))
       /\ IF round.final /\ survivors # <<>>
            THEN /\ round' = [round EXCEPT !.clean = FALSE]
                 /\ UNCHANGED <<phase, gate, reporting>>
            ELSE EndRound(FALSE)
  /\ batch' = <<>>
  /\ UNCHANGED <<fresh, queue, hand, closing, deadline, confirmed, dropped,
                 delivered, recounted, uncounted>>

-----------------------------------------------------------------------------
(* Clocks.                                                                 *)

WaitEnds ==
  /\ \/ /\ \E s \in Stages : \E k \in DOMAIN queue[s] :
             /\ queue[s][k].park # "no"
             /\ queue' = [queue EXCEPT ![s][k].park = IF @ = "server" THEN "backoff" ELSE "no"]
          /\ UNCHANGED books
     \/ /\ \E k \in DOMAIN books.queue :
             /\ books.queue[k].park # "no"
             /\ books' = [books EXCEPT !.queue[k].park =
                            IF @ = "server" THEN "backoff" ELSE "no"]
          /\ UNCHANGED queue
  /\ UNCHANGED <<fresh, hand, batch, phase, round, gate, hold, reporting, closing,
                 deadline, confirmed, dropped, delivered, recounted, uncounted>>

HoldEnds ==
  /\ hold /\ hold' = FALSE
  /\ UNCHANGED <<fresh, queue, books, hand, batch, phase, round, gate, reporting,
                 closing, deadline, confirmed, dropped, delivered, recounted,
                 uncounted>>

\* The breaker reports are answered; a 429 shares the window of the events.
ReportsEnd ==
  /\ reporting /\ closing # "sealed"
  /\ reporting' = FALSE
  /\ hold' \in (IF Expired THEN {hold} ELSE {hold, TRUE})
  /\ UNCHANGED <<fresh, queue, books, hand, batch, phase, round, gate, closing,
                 deadline, confirmed, dropped, delivered, recounted, uncounted>>

DeadlinePasses ==
  /\ deadline = "running" /\ closing # "sealed" /\ deadline' = "passed"
  /\ UNCHANGED <<fresh, queue, books, hand, batch, phase, round, gate, hold,
                 reporting, closing, confirmed, dropped, delivered, recounted,
                 uncounted>>

-----------------------------------------------------------------------------
(* close().                                                                *)

Close ==
  /\ closing = "open" /\ closing' = "joining"
  /\ deadline' \in {"running", "passed"}
  /\ UNCHANGED <<fresh, queue, books, hand, batch, phase, round, gate, hold,
                 reporting, confirmed, dropped, delivered, recounted, uncounted>>

\* The active round is over in time: take the folds, start the final flush.
StartFinal ==
  /\ closing = "joining" /\ phase = "idle" /\ ~Expired
  /\ closing' = "flushing"
  /\ books' = TakeFoldsFinal(books) /\ gate' = FALSE
  /\ phase' = "confirms"
  /\ Dispatch("confirms", queue, <<>>, [NoRound EXCEPT !.final = TRUE])
  /\ UNCHANGED <<fresh, batch, hold, reporting, deadline, confirmed, dropped,
                 delivered, recounted, uncounted>>

\* _sealDelivery: everything queued, claimed or folded is counted as a drop.
Seal ==
  /\ \/ closing \in {"joining", "flushing"} /\ Expired
     \/ closing = "flushing" /\ phase = "idle"
  /\ closing' = "sealed"
  /\ LET controls == queue["confirms"] \o queue["settlements"] \o Claims(hand)
         orphans == Select(controls, {i \in DOMAIN controls : controls[i].of \in Settlements})
         b == TakeFoldsFinal(books)
         events == b.queue \o batch \o [i \in DOMAIN orphans |-> Pending({orphans[i].of})] IN
     /\ dropped' = CountDrops(controls)
     /\ books' = DisposeAll([b EXCEPT !.queue = <<>>], events, TRUE)
  /\ queue' = [s \in Stages |-> <<>>] /\ hand' = <<>> /\ batch' = <<>>
  /\ phase' = "idle" /\ round' = NoRound
  /\ gate' = FALSE
  /\ UNCHANGED <<fresh, hold, reporting, deadline, confirmed, delivered, recounted,
                 uncounted>>

-----------------------------------------------------------------------------
ConfirmAnswer == \E k \in DOMAIN hand : \/ ConfirmSent(k) \/ ConfirmHeld(k)
                                         \/ ConfirmDropped(k) \/ ConfirmFails(k)
                                         \/ ConfirmLate(k)
BatchAnswer == \/ BatchSent \/ BatchPartlyRejected \/ BatchRefused
               \/ BatchDropped \/ BatchFails
Round == \/ StartRound \/ StageEnds \/ FinalResumes \/ ClaimBatch \/ EventsEnd
Skip == FinalSkips \/ FinalRateLimited
Callers == Report \/ ReportConfirm \/ ReportSettlement \/ Close

Next ==
  \/ Callers \/ ConfirmAnswer \/ BatchAnswer \/ Round \/ Skip \/ StartFinal
  \/ WaitEnds \/ HoldEnds \/ ReportsEnd \/ DeadlinePasses \/ Seal

Spec == Init /\ [][Next]_vars

\* Timers fire, sends end by their timeouts, and a started round runs on.
FairSpec ==
  /\ Spec
  /\ WF_vars(Round) /\ WF_vars(ConfirmAnswer \/ BatchAnswer)
  /\ WF_vars(WaitEnds) /\ WF_vars(HoldEnds)
  /\ WF_vars(DeadlinePasses \/ Seal)

-----------------------------------------------------------------------------
(* Properties.                                                             *)

If(b) == IF b THEN 1 ELSE 0

\* Where the confirm half of c is: once, and once more if a late refusal was
\* counted without owning it.
ConfirmPlaces(c) ==
  If(c \in fresh) + Of(queue["confirms"], c) + Of(queue["settlements"], c)
  + Of(Claims(hand), c) + If(c \in confirmed) + dropped[c]

\* Where the event e is, apart from an undecided settlement that carries it.
EventPlaces(e) ==
  In(books.queue, e) + In(batch, e) + books.drops[e] + If(e \in delivered)
  + Cardinality({k \in DOMAIN books.folds : e \in books.folds[k]}) + If(e \in uncounted)

\* The settlement s still carries its event: not reported, queued or claimed.
Undecided(s) ==
  \/ s \in fresh \/ Of(queue["settlements"], s) > 0
  \/ Of(Claims(hand), s) > 0

(***************************************************************************)
(* Every half handed in is in exactly one place: queued, claimed, folded,  *)
(* taken by the server, or counted as one drop; and a settlement's event   *)
(* leaves it exactly when its confirm is decided ("each settlement event   *)
(* follows its own confirm's final disposition").  The two places where a  *)
(* refused key is counted by other rules are the only exceptions.          *)
(***************************************************************************)
HalvesConserved ==
  /\ \A c \in Controls : ConfirmPlaces(c) = 1 + If(c \in recounted)
  /\ \A e \in Events : EventPlaces(e) + If(e \in fresh) = 1
  /\ \A s \in Settlements : EventPlaces(s) = If(~Undecided(s))

Ordinary(p) == p.of \subseteq Events \ Denied

(***************************************************************************)
(* Drop-oldest queues stay in the order of the callers through claims,     *)
(* retries, evictions and restores, although sends end in any order: what  *)
(* is claimed is older than what is queued behind it.                      *)
(***************************************************************************)
OrderKept ==
  /\ \A s \in Stages :
       LET line == (IF phase = s THEN Claims(hand) ELSE <<>>) \o queue[s] IN
       \A i, j \in DOMAIN line : i < j => line[i].of < line[j].of
  /\ LET line == batch \o books.queue IN
     \A i, j \in DOMAIN line :
       i < j /\ Ordinary(line[i]) /\ Ordinary(line[j]) => Min(line[i].of) < Min(line[j].of)

(***************************************************************************)
(* No path past the caps: queues, sends on the wire, and aggregates, one   *)
(* per key.  Only final delivery lets the event queue grow, so that what   *)
(* close() salvages evicts nothing.                                        *)
(***************************************************************************)
CapsHold ==
  /\ \A s \in Stages : Len(queue[s]) <= ControlMax
  /\ closing = "open" => Len(books.queue) <= MaxQueueSize
  /\ Sending(hand) <= MaxInFlight /\ Len(batch) <= BatchSize
  /\ Len(books.folds) <= FoldLimit
  /\ \A i, j \in DOMAIN books.folds :
       i # j => KeyOf(books.folds[i]) # KeyOf(books.folds[j])

(***************************************************************************)
(* close() leaves nothing undecided: after the seal every half that was    *)
(* handed in, also one that a fold, a claim or a wait held, was taken by   *)
(* the server or counted, and reports that come later are counted at once. *)
(***************************************************************************)
SealDecidesAll ==
  closing = "sealed" =>
    /\ \A c \in Controls \ fresh : c \in confirmed \/ dropped[c] > 0
    /\ \A e \in EventIds \ fresh : books.drops[e] > 0 \/ e \in delivered \union uncounted

(***************************************************************************)
(* No event is stranded: whatever the confirms and the breaker reports do  *)
(* (a control-plane breaker that never admits a confirm, reports that are  *)
(* always rate limited), every queued event leaves the queue for good or   *)
(* into a receipt fold.                                                    *)
(***************************************************************************)
EventsSettle ==
  \A e \in Events : (In(books.queue, e) > 0) ~> (In(books.queue, e) + In(batch, e) = 0)

(***************************************************************************)
(* What tests/unit/reporter-shutdown.test.ts says of a late verdict: each  *)
(* half is counted exactly once.                                           *)
(***************************************************************************)
CountedOnce == \A c \in Controls : dropped[c] + If(c \in confirmed) <= 1

=============================================================================
