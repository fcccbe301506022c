---------------------------- MODULE AiSdkMiddleware ----------------------------
(***************************************************************************)
(* The language-model middleware for the AI SDK (src/ai-sdk/index.ts): the    *)
(* budget check before a call, the last guard before its dispatch, and the    *)
(* end of its funding, which for a stream the end of its parts, an error, a    *)
(* cancel, an abort, a stop of its run, the close of the middleware and the     *)
(* garbage collector race for.                                                  *)
(***************************************************************************)
EXTENDS Integers, Sequences, FiniteSets

CONSTANT Call

Kinds    == {"generate", "stream"}
Fundings == {"none", "reservation", "lease"}
Parts    == {"delta", "finish", "error"}

VARIABLES
  call,         \* per call, as NewCall
  aborted,      \* the calls whose caller aborted
  stopped,      \* the run of the calls is terminated
  refused,      \* the binding has a blocking refusal
  closing,      \* closePromise: "open", "waiting" for calls in flight, "closed" once streams are settled
  inFlight,     \* inFlightCalls
  settlements   \* streamSettlements

vars == <<call, aborted, stopped, refused, closing, inFlight, settlements>>

NewCall ==
  [phase |-> "new", kind |-> "generate", fund |-> "none", hard |-> FALSE,
   handle |-> FALSE,       \* a termination handle is held
   settled |-> FALSE, finish |-> FALSE, errorPart |-> FALSE,   \* MiddlewareStreamSettlement
   events |-> <<>>, ends |-> <<>>,      \* what was reported, how the funding was ended
   billed |-> FALSE, measured |-> FALSE]   \* history: output may be billed, its usage is known

Init ==
  /\ call = [c \in Call |-> NewCall]
  /\ aborted = {} /\ stopped = FALSE /\ refused = FALSE
  /\ closing = "open" /\ inFlight = {} /\ settlements = {}

-----------------------------------------------------------------------------
(* The ends of a call's funding, on the call k. *)

Report(k, status) == [k EXCEPT !.events = Append(@, status)]
End(k, how)       == [k EXCEPT !.ends = Append(@, how)]

(* releaseFunding: a claim on a lease is given back, a reservation expires by itself. *)
Release(k) == IF k.fund = "lease" THEN End(k, "released") ELSE k

(* endFunding: what may be billed is kept at its floor. *)
EndFunding(k, keep) ==
  IF ~keep THEN Release(k) ELSE IF k.fund = "none" THEN k ELSE End(k, "floor")

(* settlePaidSuccess: a confirm that cannot be built leaves the claim consumed. *)
SettlePaid(k, built) ==
  IF built THEN End(k, "settled") ELSE IF k.fund = "lease" THEN End(k, "floor") ELSE k

(* A plausible bug: usage that was never reported settles like usage that was. *)
SettleAnyUsage(k, usageKnown, built) ==
  LET paid == IF k.fund # "none" THEN SettlePaid(Report(k, "success"), built) ELSE Report(k, "success")
  IN  IF k.fund = "lease" THEN paid ELSE EndFunding(paid, FALSE)

(* settleBufferedSuccess *)
SettleSuccess(k, usageKnown, built) ==
  LET unknown == k.hard /\ ~usageKnown
      paid    == IF k.fund # "none" /\ ~unknown THEN SettlePaid(Report(k, "success"), built)
                                                ELSE Report(k, "success")
  IN  IF k.fund # "lease" \/ unknown THEN EndFunding(paid, unknown) ELSE paid

(* reportErrorAndRelease *)
SettleError(k, maybeBilled) == EndFunding(Report(k, "error"), k.hard /\ maybeBilled)

(* MiddlewareStreamSettlement.settle; broken: the success cannot be booked. *)
SettleStream(k, outcome, broken) ==
  LET done == [k EXCEPT !.settled = TRUE, !.handle = FALSE]
  IN  IF k.settled THEN k
      ELSE IF outcome = "error" \/ broken \/ (outcome = "success" /\ k.errorPart /\ ~k.finish)
      THEN SettleError(done, TRUE)
      ELSE SettleSuccess(done, k.finish, TRUE)

Over(k) == [k EXCEPT !.phase = "over", !.handle = FALSE]

-----------------------------------------------------------------------------
(* The path of a call. *)

Start(c, kind) ==
  /\ call[c].phase = "new" /\ closing = "open"
  /\ IF c \in aborted
       THEN call' = [call EXCEPT ![c] = Over(@)] /\ UNCHANGED inFlight
       ELSE /\ call' = [call EXCEPT ![c] = [@ EXCEPT !.phase = "checking", !.kind = kind]]
            /\ inFlight' = inFlight \union {c}
  /\ UNCHANGED <<aborted, stopped, refused, closing, settlements>>

Leaves(c, k) == call' = [call EXCEPT ![c] = Over(k)] /\ inFlight' = inFlight \ {c}

(* The check throws, or denies the call; or allows it, but the reserved bound cannot *)
(* be made true: what was taken for it is given back, a reservation by a confirm of    *)
(* zero, if one can be built; or allows it, and a stream acquires its run's termination. *)
CheckThrows(c) ==
  /\ call[c].phase = "checking" /\ Leaves(c, call[c])
  /\ UNCHANGED <<aborted, stopped, refused, closing, settlements>>

CheckDenies(c) ==
  /\ call[c].phase = "checking"
  /\ Leaves(c, Report(call[c], "budget_denied"))
  /\ UNCHANGED <<aborted, stopped, refused, closing, settlements>>

CheckAllows(c, fund, hard) ==
  /\ call[c].phase = "checking"
  /\ call' = [call EXCEPT ![c] = [@ EXCEPT !.phase = "admitted", !.fund = fund, !.hard = hard,
                                           !.handle = call[c].kind = "stream"]]
  /\ UNCHANGED <<aborted, stopped, refused, closing, inFlight, settlements>>

RefuseBound(c, fund, built) ==
  /\ call[c].phase = "checking"
  /\ LET k == [call[c] EXCEPT !.fund = fund, !.hard = TRUE]
     IN  Leaves(c, IF fund = "reservation" /\ built THEN End(k, "zero") ELSE Release(k))
  /\ UNCHANGED <<aborted, stopped, refused, closing, settlements>>

(* assertDispatchAllowed *)
Dispatch(c) ==
  LET k == call[c]
  IN  /\ k.phase = "admitted"
      /\ IF c \in aborted \/ refused THEN Leaves(c, Release(k))
         ELSE IF stopped THEN Leaves(c, Release(Report(k, "budget_denied")))
         ELSE call' = [call EXCEPT ![c].phase = "dispatched"] /\ UNCHANGED inFlight
      /\ UNCHANGED <<aborted, stopped, refused, closing, settlements>>

(* doGenerate returns; its success may fail to be booked. *)
Generated(c, built, broken) ==
  LET k == [call[c] EXCEPT !.billed = TRUE, !.measured = TRUE]
  IN  /\ k.phase = "dispatched" /\ k.kind = "generate"
      /\ Leaves(c, IF broken THEN SettleError(k, TRUE) ELSE SettleSuccess(k, TRUE, built))
      /\ UNCHANGED <<aborted, stopped, refused, closing, settlements>>

(* doGenerate or doStream throws; maybeBilled as attemptMaybeBilled has it. *)
DispatchFails(c, maybeBilled) ==
  LET k == [call[c] EXCEPT !.billed = maybeBilled]
  IN  /\ k.phase = "dispatched"
      /\ Leaves(c, SettleError(k, maybeBilled))
      /\ UNCHANGED <<aborted, stopped, refused, closing, settlements>>

(* doStream returns: its stream is instrumented and registered, unless that fails. *)
Established(c) ==
  LET k == [call[c] EXCEPT !.billed = TRUE]
  IN  /\ k.phase = "dispatched" /\ k.kind = "stream"
      /\ call' = [call EXCEPT ![c] = [k EXCEPT !.phase = "streaming"]]
      /\ settlements' = settlements \union {c} /\ inFlight' = inFlight \ {c}
      /\ UNCHANGED <<aborted, stopped, refused, closing>>

SetupFails(c) ==
  LET k == [call[c] EXCEPT !.billed = TRUE]
  IN  /\ k.phase = "dispatched" /\ k.kind = "stream"
      /\ Leaves(c, SettleError([k EXCEPT !.settled = TRUE, !.handle = FALSE], TRUE))
      /\ UNCHANGED <<aborted, stopped, refused, closing, settlements>>

-----------------------------------------------------------------------------
(* A stream. A pull may still be under way when the stream is settled. *)

Interrupted(c) == c \in aborted \/ closing # "open"

Streams(c, k) ==
  /\ call[c].phase = "streaming"
  /\ call' = [call EXCEPT ![c] = k]
  /\ settlements' = IF k.settled THEN settlements \ {c} ELSE settlements
  /\ UNCHANGED <<aborted, stopped, refused, closing, inFlight>>

Observed(k, part) ==
  IF k.settled THEN k
  ELSE CASE part = "finish" -> [k EXCEPT !.finish = TRUE, !.measured = TRUE]
         [] part = "error"  -> [k EXCEPT !.errorPart = TRUE]
         [] OTHER           -> k

(* A part is observed, and forwarded unless the call was interrupted or its run stopped. *)
Part(c, part) ==
  LET k == Observed(call[c], part)
  IN  Streams(c, IF Interrupted(c) \/ stopped THEN SettleStream(k, "interrupted", FALSE) ELSE k)

SourceEnds(c, broken) == Streams(c, SettleStream(call[c], "success", broken))

ReadFails(c) ==
  Streams(c, SettleStream(call[c], IF Interrupted(c) THEN "interrupted" ELSE "error", FALSE))

Cancel(c) ==
  Streams(c, SettleStream(call[c], IF c \in aborted THEN "interrupted" ELSE "success", FALSE))

(* The finalizer of a stream that the program dropped. *)
Collected(c) == c \in settlements /\ Streams(c, SettleStream(call[c], "success", FALSE))

-----------------------------------------------------------------------------
Close ==
  /\ closing = "open" /\ closing' = "waiting"
  /\ UNCHANGED <<call, aborted, stopped, refused, inFlight, settlements>>

(* The calls in flight are done, or the deadline is over: open streams are settled. *)
CloseStreams ==
  /\ closing = "waiting" /\ closing' = "closed"
  /\ call' = [c \in Call |-> IF c \in settlements THEN SettleStream(call[c], "interrupted", FALSE)
                                                  ELSE call[c]]
  /\ settlements' = {}
  /\ UNCHANGED <<aborted, stopped, refused, inFlight>>

Abort(c) ==
  /\ c \notin aborted /\ aborted' = aborted \union {c}
  /\ UNCHANGED <<call, stopped, refused, closing, inFlight, settlements>>

RunStops ==
  /\ ~stopped /\ stopped' = TRUE
  /\ UNCHANGED <<call, aborted, refused, closing, inFlight, settlements>>

KeyRefused ==
  /\ ~refused /\ refused' = TRUE
  /\ UNCHANGED <<call, aborted, stopped, closing, inFlight, settlements>>

Next ==
  \/ \E c \in Call :
       \/ \E kind \in Kinds : Start(c, kind)
       \/ CheckThrows(c) \/ CheckDenies(c)
       \/ \E fund \in Fundings, hard \in BOOLEAN : CheckAllows(c, fund, hard)
       \/ \E fund \in Fundings, built \in BOOLEAN : RefuseBound(c, fund, built)
       \/ Dispatch(c)
       \/ \E built, broken \in BOOLEAN : Generated(c, built, broken)
       \/ \E maybeBilled \in BOOLEAN : DispatchFails(c, maybeBilled)
       \/ Established(c) \/ SetupFails(c)
       \/ \E part \in Parts : Part(c, part)
       \/ \E broken \in BOOLEAN : SourceEnds(c, broken)
       \/ ReadFails(c) \/ Cancel(c) \/ Collected(c) \/ Abort(c)
  \/ Close \/ CloseStreams \/ RunStops \/ KeyRefused

Spec == Init /\ [][Next]_vars

-----------------------------------------------------------------------------
(* A call ends once: at most one event and one end of its funding; when it is over  *)
(* its lease claim has been ended, its termination handle released, and its stream   *)
(* left the set that close settles.                                                  *)
MiddlewareEndsOnce ==
  \A c \in Call :
    LET k == call[c]
        over == k.phase = "over" \/ k.settled
    IN  /\ Len(k.events) <= 1 /\ Len(k.ends) <= 1
        /\ over => ~k.handle /\ c \notin settlements /\ (k.fund = "lease" => Len(k.ends) = 1)
        /\ k.phase = "streaming" /\ ~k.settled => c \in settlements

(* Funding of a hard_deny call whose output may be billed is never given back, and    *)
(* is settled at what was observed only when the provider reported the usage.  Under   *)
(* the other modes the code does give it back after an error (ai-sdk/index.ts:1424).       *)
MiddlewareKeepsBilled ==
  \A c \in Call :
    LET k == call[c] IN
    k.hard /\ k.billed =>
      \A i \in DOMAIN k.ends : k.ends[i] # "released" /\ (k.ends[i] = "settled" => k.measured)
=============================================================================
