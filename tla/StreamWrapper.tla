----------------------------- MODULE StreamWrapper -----------------------------
(***************************************************************************)
(* The wrapper of a streamed response (StreamWrapper of src/stream.ts).    *)
(* Its operations run one after another; each is cut here where it awaits: *)
(* the source's next chunk, the callback that settles the call, the        *)
(* iterator's throw and return, the close of the source.  The source, the  *)
(* stop of the run and the consumer are the environment.                   *)
(***************************************************************************)
EXTENDS Integers, Sequences

CONSTANTS
  MaxChunks,   \* bound: chunks the source yields
  MaxAsks,     \* bound: operations the consumer asks for
  Fanouts,     \* outputs a chunk may translate to at most; 0: there is no translator
  Waiting      \* bound: operations in the queue

VARIABLES
  wrap,      \* the wrapper's fields
  queue,     \* operations that wait for the one before them
  running,   \* the operation that runs, and what it awaits
  env,       \* the source and the run: chunks pulled, whether it ended, the stop, the translator
  log        \* what the callbacks were told, and what the consumer was given

vars == <<wrap, queue, running, env, log>>

Idle == [op |-> "none", at |-> "none", failed |-> FALSE]

Init ==
  /\ wrap = [settled |-> FALSE, terminal |-> FALSE, latched |-> FALSE, iterator |-> FALSE,
             natural |-> FALSE, iteratorClean |-> FALSE, sourceClean |-> FALSE,
             buffered |-> 0, consumer |-> "none"]
  /\ queue = <<>>
  /\ running = Idle
  /\ env \in [pulled: {0}, ended: {FALSE}, stopAt: {-1}, asks: {0}, fanout: Fanouts]
  /\ log = [calls |-> <<>>, released |-> 0, given |-> 0, aborted |-> FALSE]

Stopped == env.stopAt >= 0

-----------------------------------------------------------------------------
(* Where an operation goes on. Each operator gives the next fields and await. *)

Become(w, r, l) == wrap' = w /\ running' = r /\ log' = l
Awaits(op, at)  == [op |-> op, at |-> at, failed |-> FALSE]
Done(w, l)      == Become(w, Idle, l)
Released(l)     == [l EXCEPT !.released = @ + 1]
Terminal(w)     == [w EXCEPT !.terminal = TRUE, !.buffered = 0]

(* cleanupInside: the iterator's return, then the source's close, each retried *)
(* by later operations until it succeeded once.                                 *)
CloseSource(op, w, l) ==
  IF w.sourceClean THEN Done(w, l) ELSE Become(w, Awaits(op, "source"), l)

Cleanup(op, w, l) ==
  IF w.iterator /\ ~w.natural /\ ~w.iteratorClean THEN Become(w, Awaits(op, "return"), l)
  ELSE CloseSource(op, w, l)

(* What follows a settlement that has ended, or was found done before. *)
AfterSettlement(op, w, l, threw) ==
  CASE op = "next" /\ w.natural /\ ~threw -> Done(w, l)
    [] op = "throw" /\ ~threw /\ w.iterator -> Become(w, Awaits(op, "throw"), l)
    [] OTHER -> Cleanup(op, w, l)

Notify(op, w, how, natural, l) ==
  Become([w EXCEPT !.settled = TRUE],
         [op |-> op, at |-> "callback", failed |-> how = "error"],
         [l EXCEPT !.calls = Append(@, [how |-> how, observed |-> env'.pulled, natural |-> natural])])

(* settle: finalize may throw, which is told to onError. A source whose request *)
(* was aborted before the provider finished also ends quietly: not naturally.    *)
FirstSettle(op, w, l) ==
  \/ \E natural \in {FALSE, w.natural} : Notify(op, w, "complete", natural, l)
  \/ Notify(op, w, "error", FALSE, l)

(* A plausible bug: whoever ends the stream settles it, also after another did. *)
SettleAgain(op, w, l) == FirstSettle(op, w, l)

Settle(op, w, l) ==
  IF w.settled THEN AfterSettlement(op, w, l, FALSE) ELSE FirstSettle(op, w, l)

SettleError(op, w, l) ==
  IF w.settled THEN Cleanup(op, w, l) ELSE Notify(op, w, "error", FALSE, l)

-----------------------------------------------------------------------------
(* The consumer. *)

Enqueue(op) ==
  /\ env.asks < MaxAsks /\ Len(queue) < Waiting
  /\ queue' = Append(queue, op)
  /\ env' = [env EXCEPT !.asks = @ + 1]

(* Iterating and converting (tee, toReadableStream) exclude each other; the  *)
(* pulls of a converted stream enter the same queue.                         *)
AskNext(as) ==
  /\ wrap.consumer \in {"none", as}
  /\ Enqueue("next")
  /\ wrap' = [wrap EXCEPT !.consumer = as]
  /\ UNCHANGED <<running, log>>

AskEnd(op) ==
  /\ Enqueue(op)
  /\ UNCHANGED <<wrap, running, log>>

Raise == /\ ~Stopped
         /\ env' = [env EXCEPT !.stopAt = env.pulled]
         /\ UNCHANGED <<wrap, queue, running, log>>

-----------------------------------------------------------------------------
(* The operations. *)

Begin(op) ==
  /\ running = Idle /\ queue # <<>> /\ Head(queue) = op
  /\ queue' = Tail(queue)
  /\ UNCHANGED env

Give(w, l) == Done(w, [l EXCEPT !.given = env'.pulled])

StartNext ==
  /\ Begin("next")
  /\ IF wrap.latched \/ wrap.terminal THEN Done(wrap, log)
     ELSE IF wrap.buffered > 0 THEN Done([wrap EXCEPT !.buffered = @ - 1], log)
     ELSE Become([wrap EXCEPT !.iterator = TRUE], Awaits("next", "pull"), log)

(* abortCheck: the run was stopped, or the client closed. *)
StopSeen == Stopped

(* Every chunk is observed; after a stop it is not given to the consumer. *)
PullChunk ==
  /\ running.at = "pull" /\ env.pulled < MaxChunks
  /\ env' = [env EXCEPT !.pulled = @ + 1]
  /\ UNCHANGED queue
  /\ IF StopSeen THEN Settle("next", [Terminal(wrap) EXCEPT !.latched = TRUE], log)
     ELSE IF env.fanout = 0 THEN Give(wrap, log)
     ELSE \/ \E n \in 1..env.fanout : Give([wrap EXCEPT !.buffered = n - 1], log)
          \/ UNCHANGED <<wrap, running, log>>                  \* translated to nothing: pulled again
          \/ SettleError("next", Terminal(wrap), log)          \* the translator threw

PullEnds ==
  /\ running.at = "pull"
  /\ env' = [env EXCEPT !.ended = TRUE]
  /\ UNCHANGED queue
  /\ Settle("next", [Terminal(wrap) EXCEPT !.natural = TRUE], log)

PullFails ==
  /\ running.at = "pull"
  /\ UNCHANGED <<queue, env>>
  /\ SettleError("next", Terminal(wrap), log)

(* return and close; a latched stop only has its cleanup retried. *)
StartClose(op) ==
  /\ Begin(op)
  /\ IF wrap.latched THEN Cleanup(op, Terminal(wrap), log) ELSE Settle(op, Terminal(wrap), log)

StartThrow ==
  /\ Begin("throw")
  /\ IF wrap.latched THEN Cleanup("throw", wrap, log)
     ELSE IF wrap.terminal THEN Done(wrap, log)
     ELSE Settle("throw", Terminal(wrap), log)

(* The client's setup aborts a stream it could not hand over: nobody consumes it. *)
Abort ==
  /\ running = Idle /\ env.asks = 0
  /\ env' = [env EXCEPT !.asks = MaxAsks]
  /\ Cleanup("abort", [Terminal(wrap) EXCEPT !.settled = TRUE], [Released(log) EXCEPT !.aborted = TRUE])
  /\ UNCHANGED queue

(* The callback answers; what it throws is suppressed. The abort watcher goes. *)
CallbackReturns ==
  /\ running.at = "callback"
  /\ UNCHANGED <<queue, env>>
  /\ AfterSettlement(running.op, wrap, Released(log), running.failed)

(* What the iterator's own throw does changes nothing. *)
ThrowReturns ==
  /\ running.at = "throw"
  /\ UNCHANGED <<queue, env>>
  /\ Cleanup(running.op, wrap, log)

ReturnReturns ==
  /\ running.at = "return"
  /\ UNCHANGED <<queue, env>>
  /\ \E ok \in BOOLEAN : CloseSource(running.op, [wrap EXCEPT !.iteratorClean = ok], log)

SourceCloses ==
  /\ running.at = "source"
  /\ UNCHANGED <<queue, env>>
  /\ \E ok \in BOOLEAN : Done([wrap EXCEPT !.sourceClean = ok], log)

(* The consumer dropped the stream: the finalizer releases the watcher, which  *)
(* lets the client settle what was observed.                                    *)
Collected ==
  /\ running = Idle /\ queue = <<>> /\ log.released = 0
  /\ env' = [env EXCEPT !.asks = MaxAsks]
  /\ log' = Released(log)
  /\ UNCHANGED <<wrap, queue, running>>

Next ==
  \/ \E as \in {"iteration", "helper"} : AskNext(as)
  \/ \E op \in {"return", "throw", "close"} : AskEnd(op)
  \/ Raise \/ StartNext \/ PullChunk \/ PullEnds \/ PullFails
  \/ \E op \in {"return", "close"} : StartClose(op)
  \/ StartThrow \/ Abort
  \/ CallbackReturns \/ ThrowReturns \/ ReturnReturns \/ SourceCloses \/ Collected

Spec == Init /\ [][Next]_vars

-----------------------------------------------------------------------------
(* A stream is settled by one callback at most, told of every chunk that was    *)
(* pulled and of nothing pulled later; only a source that ran out is told as     *)
(* run to its end; the abort watcher is released once, and no later than when   *)
(* the ending operation is over (stream.ts:1224).                                *)
SettlesOnce ==
  /\ Len(log.calls) <= 1 /\ log.released <= 1
  /\ \A i \in DOMAIN log.calls : /\ log.calls[i].observed = env.pulled
                                 /\ log.calls[i].natural => env.ended
  /\ running = Idle /\ wrap.terminal => wrap.settled /\ log.released = 1
  /\ wrap.settled => log.aborted \/ log.calls # <<>>

(* A chunk pulled after the run was stopped is counted and never given to the  *)
(* consumer, and nothing is given once the stream is settled.                   *)
NothingAfterStop ==
  /\ Stopped => log.given <= env.stopAt
  /\ wrap.settled => wrap.buffered = 0
=============================================================================
