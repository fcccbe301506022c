----------------------------- MODULE OutputBound -----------------------------
(***************************************************************************)
(* The output bound of a call under hard_deny admission: how many output       *)
(* tokens the budget check reserves (src/output-bound.ts,                      *)
(* resolveEffectiveOutputBound), what request a hop is then sent                *)
(* (src/client.ts, #prepareHopKwargs), and whether that request is held to the  *)
(* reservation (enforceOutputBound).                                           *)
(*                                                                         *)
(* A request is what its layers say of its output: client defaults under entry  *)
(* defaults under the caller's own.  Counts are numbers; a value that is no      *)
(* positive integer is Bad, a key that is not there is Absent.                  *)
(***************************************************************************)
EXTENDS Integers, Sequences, FiniteSets, FiniteSetsExt

CONSTANTS
  Routes,               \* [source, hop]: the call's primary and the entry that serves it
  Layers,               \* Layers[dialect]: what a layer may say
  DefaultBound          \* lease_output_bound_default

Absent == -1
Bad == 0
Positive(v) == v > 0
Unbounded == 1000

VARIABLES
  route, layers,        \* the call: layers is <<global, entry, caller>>, high to low
  reserved,             \* estimatedOutputBound
  request,              \* the hop's request
  override,             \* a body extension or override of the client could raise the cap
  outcome               \* none, prepared, untranslatable, refused, exceeded, sent

vars == <<route, layers, reserved, request, override, outcome>>

\* tokens and completion are the two cap keys of the OpenAI dialect, tokens also the one
\* of Anthropic; config is the container of Google.
NoConfig == [cap |-> Absent, count |-> Absent, loop |-> Absent, form |-> "absent"]
NoLayer == [tokens |-> Absent, completion |-> Absent, n |-> Absent, thinking |-> Absent,
            budget |-> Absent, again |-> FALSE, config |-> NoConfig]

DialectOf(p) == IF p \in {"anthropic", "google"} THEN p ELSE "openai"
CrossDialect(r) == DialectOf(r.source.provider) # DialectOf(r.hop.provider)

Init ==
  /\ route \in Routes
  /\ layers = <<NoLayer, NoLayer, NoLayer>>
  /\ reserved = 0
  /\ request = NoLayer
  /\ override = FALSE
  /\ outcome = "none"

-----------------------------------------------------------------------------
(* Cap keys.                                                               *)

UsesCompletionTokens(h) == h.provider \in {"openai", "azure"} /\ h.model = "reasoning"

\* One layer keeps one cap key, the one of the target; an Azure deployment does not say
\* which that is, so Azure keeps the caller's own.
NormalizeCap(h, layer) ==
  LET cap == IF layer.completion # Absent THEN layer.completion ELSE layer.tokens
      modern == IF h.provider = "azure" THEN layer.completion # Absent
                                        ELSE UsesCompletionTokens(h) IN
  IF DialectOf(h.provider) # "openai" \/ cap = Absent THEN layer
  ELSE [layer EXCEPT !.tokens     = IF modern THEN Absent ELSE cap,
                     !.completion = IF modern THEN cap ELSE Absent]

\* The lower layer shows where the higher one says nothing; a config goes as a whole.
Under(high, low) ==
  [tokens     |-> IF high.tokens # Absent THEN high.tokens ELSE low.tokens,
   completion |-> IF high.completion # Absent THEN high.completion ELSE low.completion,
   n          |-> IF high.n # Absent THEN high.n ELSE low.n,
   thinking   |-> IF high.thinking # Absent THEN high.thinking ELSE low.thinking,
   budget     |-> IF high.budget # Absent THEN high.budget ELSE low.budget,
   again      |-> high.again \/ low.again,
   config     |-> IF high.config.form # "absent" THEN high.config ELSE low.config]

Merged(three) == Under(three[1], Under(three[2], three[3]))
HasCap(layer) == layer.tokens # Absent \/ layer.completion # Absent

\* Layers that kept different keys leave both in an Azure request: the key of the
\* highest one stays.
ResolveAliases(h, three, merged) ==
  IF h.provider # "azure" \/ merged.tokens = Absent \/ merged.completion = Absent THEN merged
  ELSE LET owner == three[Min({i \in DOMAIN three : HasCap(three[i])})] IN
       IF owner.completion = Absent THEN [merged EXCEPT !.completion = Absent]
                                    ELSE [merged EXCEPT !.tokens = Absent]

-----------------------------------------------------------------------------
(* What is reserved.                                                       *)

\* A layer that sets either OpenAI cap key replaces both.
OverlayCaps(high, low) ==
  LET over == Under(high, low) IN
  IF HasCap(high) THEN [over EXCEPT !.tokens = high.tokens, !.completion = high.completion]
                  ELSE over

ProjectedCap(dialect, caps) ==
  CASE dialect = "openai" -> IF caps.completion # Absent THEN caps.completion ELSE caps.tokens
    [] dialect = "anthropic" -> caps.tokens
    [] dialect = "google" -> caps.config.cap

Candidates(dialect, caps) ==
  LET n == IF dialect = "openai" THEN caps.n
           ELSE IF dialect = "google" THEN caps.config.count ELSE Absent IN
  IF Positive(n) THEN n ELSE 1

Reasoning(dialect, family, caps) ==
  IF dialect # "openai" \/ family # "qwen" \/ caps.thinking = Bad \/ ~Positive(caps.budget)
    THEN 0 ELSE caps.budget

\* The bound of a hop is taken from its request in the caller's dialect.
ResolveHop(r, three) ==
  LET h == IF CrossDialect(r) THEN r.source ELSE r.hop
      dialect == DialectOf(h.provider)
      caps == OverlayCaps(NormalizeCap(h, three[1]),
                OverlayCaps(NormalizeCap(h, three[2]), NormalizeCap(h, three[3])))
      cap == ProjectedCap(dialect, caps) IN
  IF dialect = "google" /\ \E i \in DOMAIN three : three[i].config.form = "malformed"
    THEN DefaultBound
    ELSE ((IF Positive(cap) THEN cap ELSE DefaultBound) + Reasoning(dialect, h.family, caps))
           * Candidates(dialect, caps)

\* Of a target entry's own defaults a request in another dialect sees only what is legal in
\* that dialect: of the caps, the key that OpenAI and Anthropic share.
SourceCompatible(entry) == [NoLayer EXCEPT !.tokens = entry.tokens]

-----------------------------------------------------------------------------
(* What is sent.                                                           *)

\* The request of a hop of the caller's dialect.
SameDialectRequest(h, three) ==
  ResolveAliases(h, three, Merged([i \in 1..3 |-> NormalizeCap(h, three[i])]))

\* A hop of another dialect is rendered from what the canonical request keeps: a cap, and
\* nothing that multiplies or extends output.  Its entry's own defaults fill the rest.
Translatable(r, three) ==
  LET from == Merged([i \in 1..3 |-> NormalizeCap(r.source, three[i])]) IN
  /\ ProjectedCap(DialectOf(r.source.provider), from) # Absent
  /\ Candidates(DialectOf(r.source.provider), from) = 1
  /\ from.thinking = Absent /\ from.budget = Absent /\ ~from.again
  /\ from.config.form # "malformed" /\ from.config.loop = Absent

TranslatedRequest(r, three, entry) ==
  LET cap == ProjectedCap(DialectOf(r.source.provider),
                          Merged([i \in 1..3 |-> NormalizeCap(r.source, three[i])]))
      rendered == CASE DialectOf(r.hop.provider) = "openai" -> [NoLayer EXCEPT !.completion = cap]
                    [] DialectOf(r.hop.provider) = "anthropic" -> [NoLayer EXCEPT !.tokens = cap]
                    [] DialectOf(r.hop.provider) = "google" ->
                         [NoLayer EXCEPT !.config = [NoConfig EXCEPT !.cap = cap, !.form = "object"]] IN
  ResolveAliases(r.hop, <<rendered, entry>>,
                 Under(NormalizeCap(r.hop, rendered), NormalizeCap(r.hop, entry)))

\* The provider's client, or an extension of the request, can rewrite the body after it is
\* checked, or its API version is too old for the key that would be put in.
ClientBodyOverride == BOOLEAN

\* A call is admitted with the bound of the hop it was priced for, and the hop's
\* request is put together.
Prepare ==
  /\ outcome = "none"
  /\ \E entry \in IF route.hop = route.source THEN {NoLayer} ELSE Layers[DialectOf(route.hop.provider)] :
     \E global, caller \in Layers[DialectOf(route.source.provider)] :
       LET shared == IF CrossDialect(route) THEN <<caller, SourceCompatible(entry), global>>
                                            ELSE <<caller, entry, global>> IN
       /\ layers' = <<caller, entry, global>>
       /\ reserved' = ResolveHop(route, shared)
       /\ IF CrossDialect(route)
            THEN IF Translatable(route, shared)
                   THEN /\ request' = TranslatedRequest(route, shared, entry)
                        /\ outcome' = "prepared"
                   ELSE /\ request' = NoLayer
                        /\ outcome' = "untranslatable"
            ELSE /\ request' = SameDialectRequest(route.hop, shared)
                 /\ outcome' = "prepared"
  /\ override' \in ClientBodyOverride
  /\ UNCHANGED route

\* The default cap goes where the request has no positive one.
ApplyBound(h, q) ==
  CASE DialectOf(h.provider) = "openai" ->
         LET cap == IF q.completion # Absent THEN q.completion ELSE q.tokens
             modern == h.provider = "azure" \/ UsesCompletionTokens(h) IN
         IF Positive(cap) THEN q
         ELSE [q EXCEPT !.tokens     = IF modern THEN Absent ELSE DefaultBound,
                        !.completion = IF modern THEN DefaultBound ELSE Absent]
    [] DialectOf(h.provider) = "anthropic" ->
         IF Positive(q.tokens) THEN q ELSE [q EXCEPT !.tokens = DefaultBound]
    [] DialectOf(h.provider) = "google" ->
         IF Positive(q.config.cap) THEN q
         ELSE [q EXCEPT !.config.cap = DefaultBound, !.config.form = "object"]

\* The loops of the Google SDK that generate again are turned off when unset.
SingleGeneration(config) == [config EXCEPT !.loop = Bad]

Bounded(h, q) ==
  IF DialectOf(h.provider) = "google"
    THEN [ApplyBound(h, q) EXCEPT !.config = SingleGeneration(@)] ELSE ApplyBound(h, q)

\* What a request is refused for whatever its cap.
Unenforceable(h, q) ==
  \/ override
  \/ DialectOf(h.provider) = "anthropic" /\ q.again
  \/ DialectOf(h.provider) = "openai" /\ h.family # "qwen" /\ (q.thinking # Absent \/ q.budget # Absent)
  \/ DialectOf(h.provider) = "google" /\ (q.config.form = "malformed" \/ Positive(q.config.loop))
  \/ DialectOf(h.provider) = "openai" /\ q.n = Bad
  \/ DialectOf(h.provider) = "google" /\ q.config.count = Bad
  \/ h.family = "qwen" /\ q.thinking # Bad /\ ~Positive(q.budget)
  \/ h.family = "xai" /\ h.model = "reasoning"

Enforce ==
  /\ outcome = "prepared"
  /\ LET h == route.hop
         q == Bounded(h, request)
         dialect == DialectOf(h.provider)
         outside == IF h.family = "qwen" /\ q.thinking # Bad THEN q.budget ELSE 0
         bound == (ProjectedCap(dialect, q) + outside) * Candidates(dialect, q) IN
     IF Unenforceable(h, request) THEN outcome' = "refused" /\ UNCHANGED request
     ELSE IF bound > reserved THEN outcome' = "exceeded" /\ UNCHANGED request
     ELSE outcome' = "sent" /\ request' = q
  /\ UNCHANGED <<route, layers, reserved, override>>

Next == Prepare \/ Enforce

Spec == Init /\ [][Next]_vars

-----------------------------------------------------------------------------
(* Properties.                                                             *)

\* The most a provider may produce for a request, by its own rules.
Largest(h, q) ==
  LET caps == {c \in {q.tokens, q.completion, q.config.cap} : c # Absent}
      times == IF Positive(q.n) THEN q.n ELSE IF Positive(q.config.count) THEN q.config.count ELSE 1
      thinks == IF h.family = "qwen" /\ q.thinking # Bad THEN q.budget ELSE 0 IN
  IF \/ caps = {} \/ \E c \in caps : ~Positive(c)
     \/ q.again \/ thinks < 0 \/ override
     \/ DialectOf(h.provider) = "google" /\ q.config.loop # Bad
     \/ h.family = "xai" /\ h.model = "reasoning"
    THEN Unbounded
    ELSE (Max(caps) + thinks) * times

(* No request leaves under hard_deny that could produce more than was reserved,   *)
(* whichever of the cap keys in it the provider goes by.                          *)
SentWithinReservation == outcome = "sent" => Largest(route.hop, request) <= reserved

(* Reservation and request come from the same layers by two routes; where no      *)
(* translation is between them they agree, so that a well-formed call is never    *)
(* refused for a bound that its own reservation was too small for.                *)
ReservationFitsTheRequest ==
  outcome = "exceeded" =>
    CrossDialect(route) \/ \E i \in DOMAIN layers : layers[i].config.form = "malformed"

OutputIsBounded == SentWithinReservation /\ ReservationFitsTheRequest
=============================================================================
