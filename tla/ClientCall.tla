----------------------------- MODULE ClientCall -----------------------------
(***************************************************************************)
(* The life of a metered call (src/client.ts): the run gate, one budget    *)
(* check, the walk over the candidates with its re-admissions and retries, *)
(* the attempt that is served or fails, the stream that outlives the call, *)
(* and the client's close.  What each step does to the call's funding, to  *)
(* its breaker admission and to its hold on the run is the subject.        *)
(*                                                                         *)
(* Candidates are met in any order and number: policies are pluggable.     *)
(* Breakers admit or refuse freely; CircuitBreaker models them.  Budget    *)
(* answers are free; BudgetAuthority and LeaseLedger model them.  Wherever *)
(* the code looks at the deadline, at the caller's signal, at the stored   *)
(* refusal of the key or at the stop of the run, both findings are         *)
(* possible: what was so at one look need not bind the next, which only    *)
(* adds behaviours.                                                        *)
(***************************************************************************)
EXTENDS Integers, FiniteSets, Sequences

CONSTANTS
  Call,        \* the calls of one client, all in one run
  Kinds,       \* how calls are made: some of AllKinds
  Modes,       \* idempotency modes in use
  Entry,       \* the configured chain
  Primary,     \* its first entry
  ProviderOf,  \* [Entry -> provider name]
  Errors,      \* what an attempt can fail with, as Routing classifies it
  MaxRetries   \* sameProviderRetries

AllKinds == {"buffered", "stream", "deferred", "media"}

ASSUME ClientCallAssumption ==
  /\ Kinds \subseteq AllKinds /\ Modes \subseteq {"safe", "never", "always"}
  /\ Primary \in Entry /\ "none" \notin Entry /\ MaxRetries \in Nat
  /\ Errors \subseteq [disposition: {"failover", "post_send_ambiguous", "fail_fast"},
                       billed: BOOLEAN, retry: BOOLEAN]
  /\ \A e \in Errors : e.disposition = "failover" /\ e.retry => ~e.billed   \* a 429 served nothing

VARIABLES
  call,         \* [Call -> record], the frame of each call and of its stream
  closing       \* the client's close: "no", "waiting" or "done"

vars == <<call, closing>>

Provider == {ProviderOf[e] : e \in Entry}

(* One line of the funding ledger: what the budget check granted.  "lease"  *)
(* and "uncounted" hold a local claim, "per_call" a server reservation.     *)
Grant(kind, hard) ==
  [kind |-> kind, hard |-> hard, ending |-> "held", billed |-> FALSE, confirms |-> 0]
Grants == {Grant(k, h) : k \in {"none", "per_call"}, h \in BOOLEAN}
LeaseGrants == {Grant("lease", h) : h \in BOOLEAN} \union {Grant("uncounted", FALSE)}

NotReadmitted == [entry |-> "none", chainPriced |-> FALSE]

NoError == [disposition |-> "none", billed |-> FALSE, retry |-> FALSE]

NewCall ==
  [kind |-> "none", mode |-> "safe", phase |-> "new", tried |-> {}, at |-> Primary,
   ledger |-> <<>>, funding |-> 0, readmission |-> NotReadmitted, maybeBilled |-> FALSE,
   ownConfirms |-> 0, admission |-> FALSE, failed |-> {}, blames |-> [p \in Provider |-> 0],
   retries |-> 0, error |-> NoError,
   handle |-> FALSE, transferred |-> FALSE, settled |-> FALSE, registered |-> FALSE,
   wrapper |-> "none", connected |-> FALSE, late |-> FALSE, events |-> 0, receipts |-> {}]

Init ==
  /\ call = [c \in Call |-> NewCall]
  /\ closing = "no"

Streaming(r) == r.kind \in {"stream", "deferred"}
HardDeny(r)  == r.readmission # NotReadmitted

-----------------------------------------------------------------------------
(* Receipts: metadata events that tell the outcome of a hop or of the call.  An  *)
(* "uncertain" one carries possibly_succeeded, a "lost" one could not be built.    *)

Reported(r, outcome) == [r EXCEPT !.receipts = @ \union {outcome}]
Denied(r) == Reported(r, "denied")

(* What no call may report two of. *)
Final == {"success", "uncertain", "denied", "lost"}

-----------------------------------------------------------------------------
(* Endings of funding.  A claim ends once: what comes later finds it gone.  *)

Line(r) == r.ledger[r.funding]

Held(r)    == r.funding # 0 /\ Line(r).ending = "held"
Claimed(r) == Held(r) /\ Line(r).kind \in {"lease", "uncounted"}
Payable(r) == r.funding # 0 /\ Line(r).kind \in {"lease", "per_call"}
Leased(r)  == r.funding # 0 /\ Line(r).kind = "lease"

Booked(r, line) == [r EXCEPT !.ledger = [r.ledger EXCEPT ![r.funding] = line]]
Bill(r) == Booked(r, [Line(r) EXCEPT !.billed = TRUE])

End(r, how) == IF Held(r) THEN Booked(r, [Line(r) EXCEPT !.ending = how]) ELSE r

ReleaseFunding(r)      == IF Claimed(r) THEN End(r, "released") ELSE r
ConsumeUnknownUsage(r) == IF Claimed(r) THEN End(r, "floored") ELSE r

(* A confirm of the current funding, under the call's own id or a fresh one. *)
Confirm(r, how, own) ==
  LET s == End(r, how)
  IN  [Booked(s, [Line(s) EXCEPT !.confirms = @ + 1])
         EXCEPT !.ownConfirms = IF own THEN @ + 1 ELSE @]

(* A confirm that cannot be built keeps the local floor. *)
EndFunding(r, floor, own) ==
  IF ~floor THEN {ReleaseFunding(r)}
  ELSE LET kept == ConsumeUnknownUsage(r)
       IN  IF Payable(r) THEN {kept, Confirm(kept, "floored", own)} ELSE {kept}

SettlePaidCall(r, how) == {Confirm(r, how, TRUE), ConsumeUnknownUsage(r)}

(* A plausible bug: what closes a hop gives its funding back whatever was billed. *)
CloseFundingFreeing(r) ==
  LET freed == ReleaseFunding(r)
  IN  [IF Payable(freed) /\ ~Leased(freed) THEN Confirm(freed, "zeroed", FALSE) ELSE freed
         EXCEPT !.funding = 0]

CloseFunding(r) ==
  LET ended == IF r.maybeBilled THEN ConsumeUnknownUsage(r)
               ELSE LET freed == ReleaseFunding(r)
                    IN  IF Payable(freed) /\ ~Leased(freed) THEN Confirm(freed, "zeroed", FALSE)
                        ELSE freed
  IN  [ended EXCEPT !.funding = 0]

-----------------------------------------------------------------------------
(* Breaker verdicts: an admission is used once (CircuitBreaker). *)

Unadmitted(r) == [r EXCEPT !.admission = FALSE]
Blamed(r, p) == [r.blames EXCEPT ![p] = @ + 1]

(* A plausible bug: every failed hop counts, also of a provider that failed before. *)
RecordEveryFailure(r) ==
  IF r.admission THEN [Unadmitted(r) EXCEPT !.blames = Blamed(r, ProviderOf[r.at])] ELSE r

RecordBreakerFailureDedup(r) ==
  LET p == ProviderOf[r.at]
  IN  IF p \in r.failed \/ ~r.admission THEN [Unadmitted(r) EXCEPT !.failed = @ \union {p}]
      ELSE [Unadmitted(r) EXCEPT !.failed = @ \union {p}, !.blames = Blamed(r, p)]

(* The frame of the walk is gone; what the ledger and the breaker saw stays. *)
Over(r) ==
  [r EXCEPT !.phase = "over", !.tried = {}, !.at = Primary, !.mode = "safe",
            !.error = NoError, !.retries = 0, !.failed = {}]

(* executeInterceptedCall's catch and finally, whatever the walk threw. *)
Thrown(r) ==
  LET ended == IF r.settled THEN r
               ELSE IF r.maybeBilled THEN ConsumeUnknownUsage(r)
               ELSE ReleaseFunding(r)
  IN  [Over(ended) EXCEPT !.handle = @ /\ r.transferred]

(* Before every dispatch a stored refusal stops the call and closes its funding. *)
Dispatched(r) == {Thrown(CloseFunding(Unadmitted(r))), [r EXCEPT !.phase = "attempting"]}

Becomes(c, rs) ==
  /\ \E r \in rs : call' = [call EXCEPT ![c] = r]
  /\ UNCHANGED closing

-----------------------------------------------------------------------------
(* Admission. *)

BeginCall(c) ==
  /\ call[c].phase = "new" /\ closing = "no"
  /\ \E k \in Kinds \ {"media"}, m \in Modes :
       Becomes(c, {[call[c] EXCEPT !.kind = k, !.mode = m, !.phase = "checking"]})

(* A media call asks for its primary alone, whatever the mode. *)
BeginMediaCall(c) ==
  /\ call[c].phase = "new" /\ closing = "no" /\ "media" \in Kinds
  /\ Becomes(c, {[call[c] EXCEPT !.kind = "media", !.phase = "checking"]})

(* The gate before the check knows the run was stopped here. *)
BeginStopped(c) ==
  /\ call[c].phase = "new" /\ closing = "no"
  /\ Becomes(c, {Over(Denied(call[c]))})

Funded(r, g) ==
  [r EXCEPT !.ledger = Append(@, g), !.funding = Len(r.ledger) + 1,
            !.readmission = IF g.hard THEN [entry |-> Primary, chainPriced |-> g.kind = "lease"]
                            ELSE NotReadmitted]

(* The gate after the check may find the run stopped: the claim is given back. *)
CheckAdmits(c) ==
  /\ call[c].phase = "checking"
  /\ \E g \in Grants \union (IF call[c].kind = "media" THEN {} ELSE LeaseGrants) :
       LET r == Funded(call[c], g)
       IN  Becomes(c, {Over(Denied(ReleaseFunding(r))), [r EXCEPT !.phase = "walking", !.handle = Streaming(r)]})

(* The run was stopped, which is reported; or a refusal, or the caller's abort. *)
CheckRefuses(c) ==
  /\ call[c].phase = "checking"
  /\ Becomes(c, {Over(Denied(call[c])), Over(call[c])})

CheckDenies(c) ==
  /\ call[c].phase = "checking" /\ call[c].kind # "media"
  /\ Becomes(c, {Over(Denied(call[c]))})
MediaCheckDenies(c) ==
  /\ call[c].phase = "checking" /\ call[c].kind = "media"
  /\ Becomes(c, {Over(Denied(call[c]))})

-----------------------------------------------------------------------------
(* The walk. *)

(* The candidates a policy may put next: the primary for Responses calls, the *)
(* primary's provider under "never", any entry otherwise.                      *)
Candidates(r) ==
  {e \in Entry \ r.tried : /\ r.kind = "deferred" => e = Primary
                           /\ r.mode = "never" => ProviderOf[e] = ProviderOf[Primary]}

(* No candidate the policy kept, or no time: the last error, or "unavailable". *)
WalkEnds(c) ==
  /\ call[c].phase = "walking" /\ call[c].kind # "media"
  /\ Becomes(c, {Thrown(call[c])})

MeetCandidate(c) ==
  {[call[c] EXCEPT !.tried = @ \union {e}, !.at = e] : e \in Candidates(call[c])}

(* An open breaker skips the candidate and leaves no trace. *)
HopSkipped(c) ==
  /\ call[c].phase = "walking" /\ call[c].kind # "media"
  /\ Becomes(c, MeetCandidate(c))

(* What happens between admission and dispatch: the request cannot be translated, *)
(* its output cannot be bounded (hard deny only), or it is sent.                   *)
Prepared(r) ==
  {Thrown(Unadmitted(r))}
  \union Dispatched([r EXCEPT !.retries = IF r.kind = "deferred" THEN 0 ELSE MaxRetries])
  \union (IF HardDeny(r) THEN {Thrown(CloseFunding(Unadmitted(r)))} ELSE {})

NeedsReadmission(r) ==
  /\ HardDeny(r)
  /\ r.maybeBilled \/ (~r.readmission.chainPriced /\ r.at # r.readmission.entry)

Hop(c) ==
  /\ call[c].phase = "walking" /\ call[c].kind # "media"
  /\ \E r \in {[q EXCEPT !.admission = TRUE] : q \in MeetCandidate(c)} :
       Becomes(c, IF NeedsReadmission(r) THEN {[CloseFunding(r) EXCEPT !.phase = "readmitting"]}
                  ELSE Prepared(r))

(* A media call is sent once, to the primary, with no breaker and no walk. *)
MediaHop(c) ==
  /\ call[c].phase = "walking" /\ call[c].kind = "media"
  /\ Becomes(c, {Thrown(call[c]), [call[c] EXCEPT !.phase = "attempting"]})

Refunded(r, g) ==
  [r EXCEPT !.ledger = Append(@, g), !.funding = Len(r.ledger) + 1, !.maybeBilled = FALSE,
            !.readmission = IF g.hard THEN [entry |-> r.at, chainPriced |-> FALSE]
                            ELSE NotReadmitted]

HopReadmitted(c) ==
  /\ call[c].phase = "readmitting"
  /\ \E g \in Grants : Becomes(c, Prepared(Refunded(call[c], g)))

HopDenied(c) ==
  /\ call[c].phase = "readmitting"
  /\ Becomes(c, {Thrown(Denied([Unadmitted(call[c]) EXCEPT !.maybeBilled = FALSE]))})

(* The re-admission's check itself throws: a refusal, or the caller's abort. *)
HopCheckThrows(c) ==
  /\ call[c].phase = "readmitting"
  /\ Becomes(c, {Thrown(Unadmitted(call[c]))})

-----------------------------------------------------------------------------
(* A failed attempt. *)

(* Only hard-deny funding distinguishes a hop that may have been billed. *)
Billed(r, e) == HardDeny(r) /\ e.billed

Marked(r, e) ==
  LET m == [r EXCEPT !.maybeBilled = @ \/ Billed(r, e)]
  IN  IF e.billed /\ r.funding # 0 THEN Bill(m) ELSE m

(* The accounting of a hop that is not retried; `ends` when the caller aborted  *)
(* during the Retry-After sleep.                                                *)
HopFailed(r, e, ends) ==
  LET possiblySucceeded == /\ e.disposition = "post_send_ambiguous"
                           /\ r.mode # "always" \/ r.kind = "deferred"
      advances == ~ends /\ e.disposition # "fail_fast" /\ ~possiblySucceeded
      judged   == IF e.disposition = "fail_fast" THEN Unadmitted(r) ELSE RecordBreakerFailureDedup(r)
      told     == Reported(judged, IF possiblySucceeded THEN "uncertain" ELSE "error")
      paid     == IF Billed(r, e) THEN EndFunding(told, TRUE, ~advances) ELSE {told}
  IN  IF advances THEN {[p EXCEPT !.phase = "walking"] : p \in paid} ELSE {Thrown(p) : p \in paid}

AttemptFails(c) ==
  /\ call[c].phase = "attempting" /\ call[c].kind # "media"
  /\ \E e \in Errors : Becomes(c, HopFailed(Marked(call[c], e), e, FALSE))

(* A 429 whose Retry-After fits keeps the admission and sleeps. *)
RetryLater(c) ==
  /\ call[c].phase = "attempting" /\ call[c].kind # "media"
  /\ call[c].retries > 0
  /\ \E e \in {x \in Errors : x.disposition = "failover" /\ x.retry} :
       Becomes(c, {[Marked(call[c], e) EXCEPT !.retries = @ - 1, !.error = e, !.phase = "sleeping"]})

Wake(c) ==
  /\ call[c].phase = "sleeping"
  /\ LET r == call[c]
     IN  Becomes(c, UNION {Dispatched(r), HopFailed(r, r.error, TRUE), HopFailed(r, r.error, FALSE)})

(* The caller's abort ends the attempt with no verdict on the provider. *)
AttemptAborted(c) ==
  /\ call[c].phase = "attempting" /\ call[c].kind # "media"
  /\ \E e \in Errors :
       LET r == Reported(Unadmitted(Marked(call[c], e)), "uncertain")
       IN  Becomes(c, {Thrown(p) : p \in IF Billed(call[c], e) THEN EndFunding(r, TRUE, TRUE) ELSE {r}})

(* The single-generation guard fires after one paid generation was served. *)
GuardFires(c) ==
  /\ call[c].phase = "attempting" /\ HardDeny(call[c]) /\ call[c].kind # "media"
  /\ LET r == Bill(Reported(Unadmitted(call[c]), "uncertain"))
     IN  Becomes(c, {Thrown(p) : p \in EndFunding(r, TRUE, TRUE)})

-----------------------------------------------------------------------------
(* A served attempt. *)

(* Usage is settled before the response is reshaped for the caller: a failure  *)
(* there is thrown and reported as an error, but refunds nothing.                *)
Served(r) == [Bill(Unadmitted(r)) EXCEPT !.events = @ + 1]
SettledBuffered(r) == [Over(IF Leased(r) THEN r ELSE ReleaseFunding(r)) EXCEPT !.settled = TRUE]

ServedBuffered(c) ==
  /\ call[c].phase = "attempting" /\ call[c].kind = "buffered"
  /\ \E outcome \in {"success", "error"} :
       LET r == Reported(Served(call[c]), outcome)
       IN  Becomes(c, {SettledBuffered(p) : p \in IF Payable(r) THEN SettlePaidCall(r, "measured") ELSE {r}})

(* Media whose usage nobody measured is reported and not confirmed. *)
ServedMedia(c) ==
  /\ call[c].phase = "attempting" /\ call[c].kind = "media"
  /\ LET r == Reported(Served(call[c]), "success")
     IN  Becomes(c, {SettledBuffered(p) : p \in {r} \union IF Payable(r) THEN SettlePaidCall(r, "measured") ELSE {}})

(* Media errors keep a per-call hold until it expires, and release a claim. *)
MediaFails(c) ==
  /\ call[c].phase = "attempting" /\ call[c].kind = "media"
  /\ Becomes(c, {Over(ReleaseFunding(Reported(call[c], "error")))})

HandedOver(r) == [r EXCEPT !.transferred = TRUE]

(* The stream is handed over.  Its admission, its claim and the hold on the run *)
(* now belong to its settlement.  One that opens under a closed client is late.  *)
ServedStream(c) ==
  /\ call[c].phase = "attempting" /\ Streaming(call[c])
  /\ LET opened == IF call[c].kind = "stream" THEN Bill(call[c]) ELSE call[c]
     IN  Becomes(c, {[HandedOver(opened) EXCEPT
                        !.phase = "streaming", !.tried = {}, !.mode = "safe", !.wrapper = "live",
                        !.registered = TRUE, !.late = closing = "done",
                        !.connected = call[c].kind = "stream"]})

-----------------------------------------------------------------------------
(* The end of a stream.  Whoever comes first settles. *)

(* releaseStream: probe timer, breaker, hold on the run, and any settlement left. *)
Freed(r) == [Unadmitted(r) EXCEPT !.handle = FALSE, !.registered = FALSE]

(* completeStream: a stream that ran to its end settles what it measured; one   *)
(* that did not, under hard deny, at its floor; so does one whose event could    *)
(* not be built.                                                                 *)
SettleStream(r, naturallyFinished) ==
  LET unknownUsage == HardDeny(r) /\ ~naturallyFinished
      s        == [Unadmitted(r) EXCEPT !.settled = TRUE, !.registered = FALSE]
      reported == [Reported(s, "success") EXCEPT !.events = @ + 1]
      paid     == IF Payable(s) /\ ~unknownUsage THEN SettlePaidCall(reported, "measured") ELSE {reported}
  IN  EndFunding(Reported(s, "lost"), HardDeny(r), TRUE) \union
      UNION {IF ~Leased(p) \/ unknownUsage THEN EndFunding(p, unknownUsage, TRUE) ELSE {p} : p \in paid}

(* A plausible bug: whoever ends the stream settles it, also after another did. *)
CompleteStreamAgain(r, naturallyFinished) == SettleStream(r, naturallyFinished)

CompleteStream(r, naturallyFinished) ==
  IF r.settled THEN {r} ELSE SettleStream(r, naturallyFinished)

(* The client's wrapper ends once; the settlement may already have happened. *)
WrapperEnds(c, rs) ==
  Becomes(c, {[Freed(r) EXCEPT !.wrapper = "ended", !.connected = FALSE] : r \in rs})

Live(c) == call[c].wrapper = "live"

Connect(c) ==
  /\ Live(c) /\ ~call[c].connected
  /\ Becomes(c, {[Bill(call[c]) EXCEPT !.connected = TRUE]})

(* The provider's end, or the consumer's early close, or a stop of the run or a  *)
(* closed client noticed at the next chunk.                                       *)
StreamCompletes(c) ==
  /\ Live(c) /\ call[c].connected
  /\ \E natural \in BOOLEAN :
       WrapperEnds(c, CompleteStream(call[c], natural))

(* onError: the caller's abort completes the stream; a failed translation or a   *)
(* provider error settles what was observed, or the floor under hard deny.        *)
SettleStreamError(r, cause) ==
  LET judged == IF cause = "failure" THEN RecordBreakerFailureDedup(r) ELSE Unadmitted(r)
      told   == Reported(judged, IF cause = "translation" THEN "error" ELSE "uncertain")
      s      == [told EXCEPT !.settled = TRUE, !.registered = FALSE, !.events = @ + 1]
      observed == Payable(s) /\ ~HardDeny(s) /\ (cause = "translation" \/ (~Leased(s) /\ r.kind = "stream"))
      paid     == {s} \union (IF observed THEN SettlePaidCall(s, "measured") ELSE {})
  IN  UNION {EndFunding(p, HardDeny(r), TRUE) : p \in paid}

StreamFails(c) ==
  /\ Live(c) /\ call[c].connected
  /\ \E cause \in {"failure", "neutral"} \union (IF call[c].kind = "stream" THEN {"translation"} ELSE {}) :
       WrapperEnds(c, IF call[c].settled THEN {call[c]}
                      ELSE SettleStreamError(call[c], cause)
                           \union CompleteStream(Unadmitted(call[c]), FALSE))

(* A Responses stream that fails before it connects never produced output: only *)
(* an error that leaves it open keeps the floor.                                 *)
EntryFails(c) ==
  /\ Live(c) /\ ~call[c].connected
  /\ \E e \in Errors, aborted \in BOOLEAN :
       LET r      == call[c]
           known  == IF e.billed THEN Bill(r) ELSE r
           judged == IF aborted \/ e.disposition = "fail_fast" THEN Unadmitted(known)
                     ELSE RecordBreakerFailureDedup(known)
           told   == Reported(judged, IF aborted \/ e.disposition = "post_send_ambiguous"
                                      THEN "uncertain" ELSE "error")
           s      == [told EXCEPT !.settled = TRUE, !.registered = FALSE, !.events = @ + 1]
       IN  WrapperEnds(c, IF r.settled THEN {r} ELSE EndFunding(s, HardDeny(r) /\ e.billed, TRUE))

(* The consumer dropped the stream: the finalizer settles what was observed. *)
Collected(c) ==
  /\ Live(c) /\ call[c].kind = "stream"
  /\ WrapperEnds(c, CompleteStream(call[c], FALSE))

(* The probe of a stream that runs long is given back at the recovery timeout. *)
ProbeTimesOut(c) ==
  /\ Live(c) /\ call[c].admission
  /\ Becomes(c, {Unadmitted(call[c])})

-----------------------------------------------------------------------------
(* The client's close, and the world. *)

BeginClose ==
  /\ closing = "no"
  /\ closing' = "waiting"
  /\ UNCHANGED call

(* Calls in flight are waited for until the deadline, which may pass first.  *)
(* Then every stream still registered is settled at what was observed.       *)
SettleOnClose(r) == IF r.registered THEN {Freed(s) : s \in CompleteStream(r, FALSE)} ELSE {r}

CloseSettles ==
  /\ closing = "waiting"
  /\ closing' = "done"
  /\ call' \in {f \in [Call -> UNION {SettleOnClose(call[c]) : c \in Call}] :
                  \A c \in Call : f[c] \in SettleOnClose(call[c])}

Next ==
  \/ \E c \in Call :
       \/ BeginCall(c) \/ BeginMediaCall(c) \/ BeginStopped(c)
       \/ CheckAdmits(c) \/ CheckRefuses(c) \/ CheckDenies(c) \/ MediaCheckDenies(c)
       \/ WalkEnds(c) \/ HopSkipped(c) \/ Hop(c) \/ MediaHop(c)
       \/ HopReadmitted(c) \/ HopDenied(c) \/ HopCheckThrows(c)
       \/ AttemptFails(c) \/ RetryLater(c) \/ Wake(c) \/ AttemptAborted(c) \/ GuardFires(c)
       \/ ServedBuffered(c) \/ ServedMedia(c) \/ MediaFails(c) \/ ServedStream(c)
       \/ Connect(c) \/ StreamCompletes(c) \/ StreamFails(c) \/ EntryFails(c)
       \/ Collected(c) \/ ProbeTimesOut(c)
  \/ BeginClose \/ CloseSettles

Spec == Init /\ [][Next]_vars

-----------------------------------------------------------------------------
(* What the life of a call must respect. *)

Ended(r) == r.phase = "over" \/ (r.phase = "streaming" /\ r.settled)

(* Under hard deny, funding under which a provider may have produced billed     *)
(* output is never given back: neither the terminal cleanup, nor a re-admission, *)
(* nor a refusal, nor an abort after the attempt refunds it (client.ts:2647).    *)
BilledIsNeverRefunded ==
  \A c \in Call : \A n \in DOMAIN call[c].ledger :
    LET g == call[c].ledger[n]
    IN  g.hard /\ g.billed => g.ending \notin {"released", "zeroed"}

(* When a call is over, or its stream is settled, it holds nothing any more: no *)
(* local claim of any hop, no breaker admission, no hold on its run.             *)
NothingHeldAfterwards ==
  \A c \in Call : LET r == call[c] IN Ended(r) =>
    /\ \A n \in DOMAIN r.ledger : r.ledger[n].kind \in {"lease", "uncounted"} => r.ledger[n].ending # "held"
    /\ ~r.admission /\ ~r.handle

(* Whoever ends a stream (its end, its error, the caller, a stop, the client's  *)
(* close, the collector), it is settled once: one receipt, one confirm for each *)
(* grant, one under the call's own id.  A client that has closed leaves no       *)
(* stream unsettled but one that opened after it.                                *)
SettledExactlyOnce ==
  \A c \in Call : LET r == call[c] IN
    /\ r.events <= 1 /\ r.ownConfirms <= 1
    /\ \A n \in DOMAIN r.ledger : r.ledger[n].confirms <= 1
    /\ r.phase = "streaming" /\ (closing = "done" \/ r.wrapper = "ended") => r.settled \/ r.late

(* A call tells its end once: of a success, an end that the provider may have billed    *)
(* (possibly_succeeded, client.ts:3236) and a denial it reports one, however many hops    *)
(* failed before; and once it is over, what any hop may have billed was told.                *)
OutcomeIsTold ==
  \A c \in Call : LET r == call[c] IN
    /\ Cardinality(r.receipts \intersect Final) <= 1
    /\ Ended(r) /\ (\E n \in DOMAIN r.ledger : r.ledger[n].billed) => r.receipts # {}

(* A call ends everything it opened, and each of it once, and tells its outcome. *)
EndsExactlyOnce == NothingHeldAfterwards /\ SettledExactlyOnce /\ OutcomeIsTold

(* A provider is counted against at most once by a call, over all its entries,  *)
(* retries and the stream it may return (routing-failover #21).                  *)
ProviderBlamedOnce ==
  \A c \in Call : \A p \in Provider : call[c].blames[p] <= 1
=============================================================================
