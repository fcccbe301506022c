----------------------------- MODULE MCClientCall -----------------------------
(***************************************************************************)
(* A call and its streams for TLC: the call lifecycle with a chain of two         *)
(* entries of one provider and one of another and every kind of failure that       *)
(* Routing can tell apart, or the wrapper of a stream, or its branches, or a         *)
(* responses stream, or the output bound of a request, or its translation for a       *)
(* provider that speaks another dialect.  ClientCall sees a stream as one callback,   *)
(* in either form that these give, and a hop's request as prepared or not.             *)
(* TLC keeps the values of AllFailures, AllRoutes and AllLayers.                        *)
(***************************************************************************)
EXTENDS ClientCall, TLC

CONSTANTS c1, e1, e2, e3, p1, p2

R == INSTANCE Routing WITH MaxCauseDepth <- 1, MinHopTimeout <- 1, LatencyWindow <- 3, LatencySamples <- 2

ChainOf == (e1 :> p1) @@ (e2 :> p1) @@ (e3 :> p2)

(* Causes of one link: proven unsent, or uncertain.  A connection wrapper of the *)
(* provider SDKs has no status.                                                   *)
Cause(preSend) == <<[preSend |-> preSend, ambiguous |-> ~preSend, cause |-> 0, errors |-> R!NoErrors]>>
ProviderErrors ==
  {e \in [family: R!Families, status: R!Statuses, cause: {R!NoCause, Cause(TRUE), Cause(FALSE)},
          callerAbort: {FALSE}, undispatched: BOOLEAN, retryAfter: BOOLEAN] :
     e.family = "connection" => e.status = "none"}
AllFailures ==
  {[disposition |-> R!ClassifyException(e), billed |-> R!AttemptMaybeBilled(e), retry |-> R!RetryAfter(e)]
     : e \in ProviderErrors}
Failures == AllFailures

\* Every dialect as source and hop, every family of models that is treated apart, and what
\* a layer of each dialect may say: absent, bad, below and above the default bound.
O == INSTANCE OutputBound WITH Routes <- {}, Layers <- <<>>, DefaultBound <- 2, route <- <<>>,
       layers <- <<>>, reserved <- 0, request <- <<>>, override <- FALSE, outcome <- "none"
Host(p, f, m) == [provider |-> p, family |-> f, model |-> m]
Plain(p) == Host(p, p, "plain")
AllRoutes ==
  {[source |-> h, hop |-> h] : h \in {Plain("openai"), Plain("azure"), Plain("google")}}
  \union {[source |-> Plain("openai"), hop |-> h] :
            h \in {Host("openai", "openai", "reasoning"), Plain("azure"), Host("other", "qwen", "plain"),
                   Host("xai", "xai", "reasoning"), Plain("xai"), Plain("anthropic"), Plain("google")}}
  \union {[source |-> Plain("anthropic"), hop |-> h] :
            h \in {Host("openai", "openai", "reasoning"), Plain("azure"), Plain("anthropic")}}
Caps == {O!Absent, O!Bad, 1, 3}
AllLayers ==
  [openai |-> {[O!NoLayer EXCEPT !.tokens = t, !.completion = c] : t \in Caps, c \in {O!Absent, O!Bad, 3}}
               \union {[O!NoLayer EXCEPT !.tokens = t, !.n = n] : t \in {O!Absent, 3}, n \in {O!Bad, 2}}
               \union {[O!NoLayer EXCEPT !.tokens = t, !.thinking = k, !.budget = b] :
                         t \in {O!Absent, 3}, k \in {O!Absent, O!Bad}, b \in {O!Absent, 1}},
   anthropic |-> {[O!NoLayer EXCEPT !.tokens = t, !.again = a] : t \in Caps, a \in BOOLEAN},
   google |-> {[O!NoLayer EXCEPT !.config = [cap |-> c, count |-> n, loop |-> l, form |-> "object"]] :
                 c \in Caps, n \in {O!Absent, O!Bad, 2}, l \in {O!Absent, O!Bad, 1}}
              \union {O!NoLayer, [O!NoLayer EXCEPT !.config.form = "malformed"]}]
RoutesKept == AllRoutes
LayersKept == AllLayers

VARIABLES
  part,                                      \* which of the six this behaviour is about
  wrap, queue, running, env, log,            \* of StreamWrapper
  bridge, observer, native, world, told,     \* of ResponsesStream
  route, layers, reserved, request, override, outcome,   \* of OutputBound
  caller, served, command, phase, history, settings, sent, answer, received,
  source, queued, heard,                     \* of Translation
  consumer, pulls, unread, active, terminal, reads, closes    \* of StreamTee

CONSTANTS Fanouts, MaxChunks, MaxAsks, Waiting, MaxEvents, MaxWaiters, Dialect, Function, MaxTurns, MaxPulls, MaxReads,
          Routes, Layers, DefaultBound

wrapperVars   == <<wrap, queue, running, env, log>>
responsesVars == <<bridge, observer, native, world, told>>
outputVars    == <<route, layers, reserved, request, override, outcome>>
translationVars == <<caller, served, command, phase, history, settings, sent, answer, received,
                     source, queued, heard>>
teeVars       == <<consumer, pulls, unread, active, terminal, reads, closes>>

Wrapper   == INSTANCE StreamWrapper
Responses == INSTANCE ResponsesStream WITH env <- world
Output    == INSTANCE OutputBound
Translated == INSTANCE Translation WITH MaxChunks <- 2
Tee       == INSTANCE StreamTee

ASSUME StreamsAssumption == MaxAsks \in Nat \ {0} /\ Fanouts \subseteq Nat

\* What a layer may say of its output in a dialect, and which hosts there are.
Values == Nat \cup {Output!Absent}
Said == [tokens: Values, completion: Values, n: Values, thinking: Values, budget: Values, again: BOOLEAN,
         config: [cap: Values, count: Values, loop: Values, form: {"absent", "object", "malformed"}]]
InDialect(d, layer) ==
  /\ layer \in Said
  /\ d # "openai" => layer = [layer EXCEPT !.completion = Output!Absent, !.n = Output!Absent,
                                           !.thinking = Output!Absent, !.budget = Output!Absent]
  /\ d # "anthropic" => ~layer.again
  /\ IF d = "google" THEN layer.tokens = Output!Absent ELSE layer.config = Output!NoConfig
ASSUME OutputAssumption ==
  /\ DefaultBound \in Nat \ {0}
  /\ \A d \in {"openai", "anthropic", "google"} : \A layer \in Layers[d] : InDialect(d, layer)
  /\ \A r \in Routes : r.hop.family \in {"qwen", "xai"} => Output!DialectOf(r.hop.provider) = "openai"

PartsInit ==
  /\ part \in {"call", "wrapper", "responses", "output", "translation", "tee"}
  /\ Init /\ Wrapper!Init /\ Responses!Init /\ Output!Init /\ Translated!Init /\ Tee!Init
  /\ part # "wrapper" => env.fanout = 0
  /\ part # "output" => route = [source |-> Plain("openai"), hop |-> Plain("openai")]
  /\ part # "translation" => phase = "writing" /\ caller = "openai" /\ ~command

PartsNext ==
  \/ part = "call" /\ Next /\ UNCHANGED <<part, wrapperVars, responsesVars, outputVars, translationVars, teeVars>>
  \/ part = "wrapper" /\ Wrapper!Next /\ UNCHANGED <<part, vars, responsesVars, outputVars, translationVars, teeVars>>
  \/ part = "responses" /\ Responses!Next /\ UNCHANGED <<part, vars, wrapperVars, outputVars, translationVars, teeVars>>
  \/ part = "output" /\ Output!Next /\ UNCHANGED <<part, vars, wrapperVars, responsesVars, translationVars, teeVars>>
  \/ part = "translation" /\ Translated!Next
     /\ UNCHANGED <<part, vars, wrapperVars, responsesVars, outputVars, teeVars>>
  \/ part = "tee" /\ Tee!Next
     /\ UNCHANGED <<part, vars, wrapperVars, responsesVars, outputVars, translationVars>>

PartsSpec == PartsInit /\ [][PartsNext]_<<part, vars, wrapperVars, responsesVars, outputVars, translationVars, teeVars>>

(* What may have been billed keeps its funding, and what was reserved is enough    *)
(* for it: no hop is sent a request that could produce more than the check asked   *)
(* for, and none is refused for a reservation made too small (OutputBound).        *)
FundingCoversTheCall == BilledIsNeverRefunded /\ Output!OutputIsBounded

(* However it ends, a stream is settled once, nothing reaches its consumer after *)
(* a stop, an abort, early or late, aborts the provider's request, and the         *)
(* branches of a stream both read all of it (StreamWrapper, ResponsesStream and    *)
(* StreamTee).                                                                     *)
StreamsSettleOnce ==
  /\ Wrapper!SettlesOnce /\ Wrapper!NothingAfterStop
  /\ Responses!ResponsesSettleOnce /\ Responses!AbortsReachTheProvider
  /\ Tee!BranchesReadAll

(* What one dialect says and another is sent, what is answered and what is heard,  *)
(* whole or streamed, mean the same or are refused; and a conversation stays          *)
(* translatable whoever served its turns (Translation).                                *)
TranslationIsFaithful == Translated!TranslationIsFaithful
===============================================================================
