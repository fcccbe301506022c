---------------------------- MODULE ResponsesStream ----------------------------
(***************************************************************************)
(* responses.stream(): the deferred bridge the caller holds, the observer   *)
(* around the provider's own stream, and that stream (external: an event    *)
(* emitter with a done promise), of src/stream.ts.                          *)
(*                                                                         *)
(* An emission of the provider runs its listeners at once, the observer's   *)
(* first; what follows from its promise comes in later steps.               *)
(***************************************************************************)
EXTENDS Integers, Sequences

CONSTANTS
  MaxEvents,   \* bound: events the provider emits
  MaxWaiters   \* bound: promises of emitted() that are pending at a time

VARIABLES
  bridge,    \* the caller's side: its state, the terminal result, the abort
  observer,  \* connected, settled, whether the stop was seen
  native,    \* the provider's stream
  env,       \* pending waiters, events emitted, the stop of the run
  told       \* starts, what the callbacks were told, the last event delivered

vars == <<bridge, observer, native, env, told>>

Init ==
  /\ bridge = [state |-> "new", terminal |-> "none", ended |-> FALSE, heardDone |-> FALSE,
               abortRequested |-> FALSE, delegated |-> FALSE]
  /\ observer = [connected |-> FALSE, settled |-> FALSE, stopped |-> FALSE, heardDone |-> FALSE]
  /\ native = [phase |-> "none", signal |-> FALSE, done |-> "pending"]
  /\ env = [waiters |-> 0, events |-> 0, stopAt |-> -1]
  /\ told = [starts |-> 0, calls |-> <<>>, given |-> 0, aborts |-> 0, preStart |-> 0]

Stopped == env.stopAt >= 0
Live    == native.phase \in {"entering", "connected", "completed"}

-----------------------------------------------------------------------------
(* The bridge's terminal result. *)

Failed(b, kind) ==
  IF b.ended THEN b ELSE [b EXCEPT !.terminal = kind, !.ended = TRUE]

(* Whoever waits for an event is answered before any listener can throw. *)
Answered(e, b) == IF b.ended THEN e ELSE [e EXCEPT !.waiters = 0]

RecordTerminalFailure(b, kind) == bridge' = Failed(b, kind) /\ env' = Answered(env, b)

RecordStartupFailure ==
  IF bridge.terminal # "none" THEN UNCHANGED <<bridge, env>>
  ELSE RecordTerminalFailure([bridge EXCEPT !.state = "failed"], "startup")

(* The provider's signal aborts the bridge's controller, once connected. *)
Mirrored(b) ==
  IF b.state = "started" THEN [b EXCEPT !.delegated = TRUE, !.abortRequested = TRUE] ELSE b

AbortNative(n) == [n EXCEPT !.signal = TRUE]

-----------------------------------------------------------------------------
(* The caller. *)

(* Every use activates; only the first starts the call. *)
Activate ==
  /\ bridge.state = "new"
  /\ bridge' = [bridge EXCEPT !.state = "starting"]
  /\ told' = [told EXCEPT !.starts = @ + 1]
  /\ UNCHANGED <<observer, native, env>>

Emitted ==
  /\ bridge.state \in {"starting", "started"} /\ bridge.terminal = "none"
  /\ env.waiters < MaxWaiters
  /\ env' = [env EXCEPT !.waiters = @ + 1]
  /\ UNCHANGED <<bridge, observer, native, told>>

(* abort, and an iterator's return or throw: before the first use the call is *)
(* never made; while it starts the abort is kept for the provider.            *)
RequestAbort ==
  /\ ~bridge.abortRequested
  /\ LET asked == [bridge EXCEPT !.abortRequested = TRUE] IN
       CASE bridge.state = "new" ->
              /\ RecordTerminalFailure([asked EXCEPT !.state = "preaborted"], "abort")
              /\ told' = [told EXCEPT !.preStart = @ + 1]
              /\ UNCHANGED native
         [] bridge.state = "started" /\ ~bridge.delegated ->
              /\ bridge' = [asked EXCEPT !.delegated = TRUE]
              /\ native' = AbortNative(native)
              /\ told' = [told EXCEPT !.aborts = @ + 1]
              /\ UNCHANGED env
         [] OTHER -> bridge' = asked /\ UNCHANGED <<native, env, told>>
  /\ UNCHANGED observer

Raise ==
  /\ ~Stopped
  /\ env' = [env EXCEPT !.stopAt = env.events]
  /\ UNCHANGED <<bridge, observer, native, told>>

-----------------------------------------------------------------------------
(* The start: the client's call resolves with the observed stream, or rejects. *)

(* A call that fails after the provider started aborts it. *)
StartRejects ==
  /\ bridge.state = "starting"
  /\ RecordStartupFailure
  /\ native' = IF native.phase = "none" THEN native ELSE AbortNative(native)
  /\ UNCHANGED <<observer, told>>

ProviderStarts ==
  /\ bridge.state = "starting" /\ native.phase = "none"
  /\ native' = [native EXCEPT !.phase = "entering"]
  /\ UNCHANGED <<bridge, observer, env, told>>

(* #connect, in a later step than the provider's start: what it emitted in   *)
(* between is known from its done promise only.                              *)
Connect ==
  /\ bridge.state = "starting" /\ native.phase # "none"
  /\ LET connected == [bridge EXCEPT !.state = "started"] IN
       IF bridge.abortRequested
       THEN /\ bridge' = [connected EXCEPT !.delegated = TRUE]
            /\ native' = AbortNative(native)
            /\ told' = [told EXCEPT !.aborts = @ + 1]
       ELSE /\ bridge' = IF native.signal THEN Mirrored(connected) ELSE connected
            /\ UNCHANGED <<native, told>>
  /\ UNCHANGED <<observer, env>>

-----------------------------------------------------------------------------
(* The observer settles the call once: with onError or onComplete when the    *)
(* provider had connected, with the entry's error when it had not.            *)

Finish(failed, natural) ==
  IF observer.settled THEN told
  ELSE [told EXCEPT !.calls = Append(@,
          [how |-> IF ~failed THEN "complete" ELSE IF observer.connected THEN "error" ELSE "entry",
           natural |-> natural /\ ~failed, connected |-> observer.connected])]

Settled == [observer EXCEPT !.settled = TRUE]

(* What the bridge hears of an emission: it listens from its connect until    *)
(* the observer saw the stop.                                                  *)
BridgeHears == bridge.state = "started" /\ ~observer.stopped

NativeConnects ==
  /\ native.phase = "entering"
  /\ native' = [native EXCEPT !.phase = "connected"]
  /\ observer' = [observer EXCEPT !.connected = ~observer.settled]
  /\ UNCHANGED <<bridge, env, told>>

Event == /\ native.phase \in {"connected", "completed"} /\ env.events < MaxEvents

(* An event goes to the caller; a waiter for it is answered. *)
Delivered(e, t) ==
  /\ BridgeHears
  /\ told' = [t EXCEPT !.given = e.events]
  /\ env' \in {e, [e EXCEPT !.waiters = IF @ > 0 THEN @ - 1 ELSE 0]}

EventPasses ==
  /\ Event /\ (observer.settled \/ ~Stopped)
  /\ LET e == [env EXCEPT !.events = @ + 1] IN
       Delivered(e, told) \/ (~BridgeHears /\ env' = e /\ UNCHANGED told)
  /\ UNCHANGED <<bridge, observer, native>>

(* The observer sees the stop: error listeners are told, the subscriptions end,*)
(* the call is settled as not run to its end, and the provider is aborted.     *)
EventStops ==
  /\ Event /\ ~observer.settled /\ Stopped
  /\ observer' = [Settled EXCEPT !.stopped = TRUE]
  /\ told' = Finish(FALSE, FALSE)
  /\ native' = AbortNative(native)
  /\ LET e == [env EXCEPT !.events = @ + 1] IN
       IF bridge.state = "started"
       THEN bridge' = Mirrored(Failed(bridge, "provider")) /\ env' = Answered(e, bridge)
       ELSE env' = e /\ UNCHANGED bridge

(* The accumulator threw: the provider is aborted, the event still delivered. *)
EventFails ==
  /\ Event /\ ~observer.settled
  /\ observer' = Settled
  /\ native' = AbortNative(native)
  /\ bridge' = Mirrored(bridge)
  /\ LET e == [env EXCEPT !.events = @ + 1] IN
       \/ Delivered(e, Finish(TRUE, TRUE))
       \/ ~BridgeHears /\ env' = e /\ told' = Finish(TRUE, TRUE)

NativeCompletes ==
  /\ native.phase = "connected"
  /\ native' = [native EXCEPT !.phase = "completed"]
  /\ told' = Finish(FALSE, TRUE)
  /\ observer' = Settled
  /\ UNCHANGED <<bridge, env>>

(* error, then end. *)
NativeFails ==
  /\ Live
  /\ native' = [native EXCEPT !.phase = "over", !.done = "rejected"]
  /\ told' = Finish(TRUE, TRUE)
  /\ observer' = Settled
  /\ IF BridgeHears THEN RecordTerminalFailure(bridge, "provider") ELSE UNCHANGED <<bridge, env>>

(* abort, then end: the request's signal was aborted, by whoever held it. *)
NativeAborts ==
  /\ Live
  /\ native' = [phase |-> "over", signal |-> TRUE, done |-> "rejected"]
  /\ told' = Finish(~observer.connected, FALSE)
  /\ observer' = Settled
  /\ IF BridgeHears THEN RecordTerminalFailure(Mirrored(bridge), "abort")
     ELSE bridge' = Mirrored(bridge) /\ UNCHANGED env

(* end without an error before it. *)
NativeEnds ==
  /\ native.phase \in {"connected", "completed"}
  /\ native' = [native EXCEPT !.phase = "over", !.done = "resolved"]
  /\ told' = Finish(FALSE, TRUE)
  /\ observer' = Settled
  /\ bridge' = IF BridgeHears THEN [bridge EXCEPT !.ended = TRUE] ELSE bridge
  /\ UNCHANGED env

(* The callbacks of the done promise. *)
ObserverHearsDone ==
  /\ native.done # "pending" /\ ~observer.heardDone
  /\ observer' = [Settled EXCEPT !.heardDone = TRUE]
  /\ told' = Finish(native.done = "rejected", TRUE)
  /\ UNCHANGED <<bridge, native, env>>

(* The observed done rejects with the stop, whatever the provider's did. *)
BridgeHearsDone ==
  /\ native.done # "pending" /\ bridge.state = "started" /\ ~bridge.heardDone
  /\ LET heard == [bridge EXCEPT !.heardDone = TRUE] IN
       IF native.done = "rejected" \/ observer.stopped THEN RecordTerminalFailure(heard, "provider")
       ELSE bridge' = [heard EXCEPT !.ended = TRUE] /\ UNCHANGED env
  /\ UNCHANGED <<observer, native, told>>

Next ==
  \/ Activate \/ Emitted \/ RequestAbort \/ Raise
  \/ StartRejects \/ ProviderStarts \/ Connect
  \/ NativeConnects \/ EventPasses \/ EventStops \/ EventFails
  \/ NativeCompletes \/ NativeFails \/ NativeAborts \/ NativeEnds
  \/ ObserverHearsDone \/ BridgeHearsDone

Spec == Init /\ [][Next]_vars

-----------------------------------------------------------------------------
(* Events, errors, aborts, the end, the done promise and the stop race: the    *)
(* call is settled by one callback, by the entry's only if the provider never  *)
(* connected, and never as run to its end once the stop was seen; an ended       *)
(* stream was settled; and an event that met the stop is not delivered.          *)
ResponsesSettleOnce ==
  /\ Len(told.calls) <= 1
  /\ \A i \in DOMAIN told.calls :
       /\ told.calls[i].how = "entry" => ~told.calls[i].connected
       /\ told.calls[i].how \in {"error", "complete"} => told.calls[i].connected
  /\ native.phase = "over" => told.calls # <<>>
  /\ observer.stopped => told.given <= env.stopAt /\ ~told.calls[1].natural

(* One start at most, and none after an abort came first; an abort asked for   *)
(* at any time reaches a provider that is under way, once; and a terminal       *)
(* failure leaves no promise of the caller waiting.                             *)
AbortsReachTheProvider ==
  /\ told.starts + told.preStart <= 1 /\ told.aborts <= 1
  /\ bridge.state = "started" /\ bridge.abortRequested => native.signal
  /\ bridge.terminal # "none" => env.waiters = 0
=============================================================================
