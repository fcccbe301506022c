------------------------------ MODULE RefusalFence ------------------------------
(***************************************************************************)
(* The fence around spend that is not tracked (src/refusal-fence.ts), and the  *)
(* one such operation that is checked before it is called because it has no     *)
(* cap on its output (#noOutputCapCall in src/client.ts).                        *)
(*                                                                          *)
(* A call of a fenced callable is a request that the provider's SDK sends later,  *)
(* in the same turn or after its own hooks.  Requests of clients of the Stainless *)
(* kind carry the signal of the binding, when the place of the options is clear;   *)
(* the binding has a fresh signal after every refusal that was lifted.              *)
(***************************************************************************)
EXTENDS Integers, FiniteSets

CONSTANTS
  Request,      \* calls of fenced callables, each made once
  MaxRefusals   \* bound on the blocking refusals of a behaviour

Returns == {"promise", "handle"}   \* what the call hands out: a thenable, or an object with methods

VARIABLES
  blocked,     \* the binding has a blocking refusal
  era,         \* the refusals so far: a signal of an earlier era is aborted
  request

vars == <<blocked, era, request>>

NoSignal == 0
NewRequest ==
  [phase |-> "new", signal |-> NoSignal, returns |-> "promise",
   capped |-> TRUE,        \* FALSE: an operation without a cap on its output
   reservation |-> "none", \* "held", "zero" once its confirm of zero is queued
   hard |-> FALSE,         \* the check was answered under hard_deny
   reader |-> "none"]      \* the program awaits the result: "none", "waiting", "value", "error", "refusal"

Init == blocked = FALSE /\ era = 1 /\ request = [q \in Request |-> NewRequest]

(* refusalSignal: the signal that a request carries, if any; the eras before this one, and  *)
(* this one while a refusal stands, are aborted.                                             *)
Aborted(signal) == signal # NoSignal /\ (signal < era \/ blocked)

(* What #mapError makes of an error. *)
Mapped == IF blocked THEN "refusal" ELSE "error"

Unchanged == UNCHANGED <<blocked, era>>
Becomes(q, r) == request' = [request EXCEPT ![q] = r]

-----------------------------------------------------------------------------
(* #invoke: the refusal is thrown, or the method is called with the signal. *)
Invoked(r, returns, signal) ==
  IF blocked THEN [r EXCEPT !.phase = "refused"]
  ELSE [r EXCEPT !.phase = "deferred", !.returns = returns, !.signal = IF signal THEN era ELSE NoSignal]

(* A fenced callable is called; or a method of the handle that an earlier call gave, whether   *)
(* at once or when its promise was awaited.                                                     *)
Gives(q) == request[q].reader = "value" \/ (request[q].returns = "handle" /\ request[q].phase # "new")

CallFenced(q, via, returns, signal) ==
  /\ request[q].phase = "new"
  /\ via = q \/ Gives(via)
  /\ Becomes(q, Invoked(request[q], returns, signal)) /\ Unchanged

(* The SDK sends the request, unless the signal it carries is aborted. *)
Send(q) ==
  LET r == request[q] IN
  /\ r.phase = "deferred"
  /\ Becomes(q, IF Aborted(r.signal) THEN [r EXCEPT !.phase = "failed"]
                ELSE [r EXCEPT !.phase = "sent"])
  /\ Unchanged

Answer(q, how) ==
  /\ request[q].phase = "sent" /\ how \in {"answered", "failed"}
  /\ Becomes(q, [request[q] EXCEPT !.phase = how]) /\ Unchanged

(* A plausible bug: the signal is not aborted, only later calls are refused. *)
RefuseQuietly ==
  /\ ~blocked /\ era <= MaxRefusals /\ blocked' = TRUE /\ UNCHANGED <<era, request>>

(* The binding stores a blocking refusal: requests that carry its signal are aborted. *)
Refuse ==
  /\ ~blocked /\ era <= MaxRefusals /\ blocked' = TRUE /\ UNCHANGED era
  /\ request' = [q \in Request |->
       IF request[q].phase = "sent" /\ request[q].signal = era
       THEN [request[q] EXCEPT !.phase = "failed"] ELSE request[q]]

Lift ==
  /\ blocked /\ blocked' = FALSE /\ era' = era + 1
  /\ UNCHANGED request

(* The program awaits the result of a call (then, catch, finally, withResponse, asResponse). *)
Await(q) ==
  LET r == request[q] IN
  /\ r.phase \in {"deferred", "sent", "answered", "failed"} /\ r.returns = "promise" /\ r.reader = "none"
  /\ Becomes(q, [r EXCEPT !.reader = IF blocked THEN "refusal" ELSE "waiting"]) /\ Unchanged

(* The request is over: its value, fenced, or its error reaches the one that awaits it. *)
Settle(q) ==
  LET r == request[q] IN
  /\ r.reader = "waiting" /\ r.phase \in {"answered", "failed"}
  /\ Becomes(q, [r EXCEPT !.reader = IF r.phase = "answered" THEN "value" ELSE Mapped]) /\ Unchanged

-----------------------------------------------------------------------------
(* #noOutputCapCall *)

StartUncapped(q) ==
  /\ request[q].phase = "new"
  /\ Becomes(q, [request[q] EXCEPT !.phase = "checking", !.capped = FALSE]) /\ Unchanged

(* The check is answered: its reservation is settled at zero (or stays held when the confirm   *)
(* cannot be built); a denial, a hard_deny admission and a refusal end the call; else it is     *)
(* made at once, through the fence.                                                             *)
Checked(q, allowed, hard, reserved, built, signal) ==
  LET r == [request[q] EXCEPT !.hard = hard,
              !.reservation = IF ~reserved THEN "none" ELSE IF built THEN "zero" ELSE "held"]
  IN  /\ request[q].phase = "checking"
      /\ Becomes(q, IF ~allowed \/ hard \/ blocked THEN [r EXCEPT !.phase = "refused"]
                    ELSE Invoked(r, "promise", signal))
      /\ Unchanged

Next ==
  \/ \E q \in Request :
       \/ \E via \in Request, returns \in Returns, signal \in BOOLEAN : CallFenced(q, via, returns, signal)
       \/ Send(q) \/ Await(q) \/ Settle(q) \/ StartUncapped(q)
       \/ \E how \in {"answered", "failed"} : Answer(q, how)
       \/ \E allowed, hard, reserved, built, signal \in BOOLEAN : Checked(q, allowed, hard, reserved, built, signal)
  \/ Refuse \/ Lift

Spec == Init /\ [][Next]_vars

-----------------------------------------------------------------------------
(* While a refusal stands no call starts a request, no request that carries the signal is sent  *)
(* or stays under way, and nothing that is awaited gives an error but the refusal; an operation  *)
(* without a cap is never called under hard_deny.                                                *)
RefusalsStopSpend ==
  [][\A q \in Request :
       LET r == request'[q] IN
       /\ blocked' /\ r.phase = "sent" => r.signal = NoSignal
       /\ r.hard => r.phase = "refused"
       /\ blocked /\ blocked' =>
            /\ request[q].phase \in {"new", "checking"} => r.phase # "deferred"
            /\ request[q].reader # r.reader => r.reader # "error"]_vars
=============================================================================
