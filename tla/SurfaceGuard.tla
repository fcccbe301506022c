------------------------------ MODULE SurfaceGuard ------------------------------
(***************************************************************************)
(* How a wrapped client answers the read of a property that it does not       *)
(* intercept by itself: which rule applies to it (src/surfaces.ts), what is   *)
(* done with a surface whose spend is not tracked (src/surface-guard.ts), and  *)
(* the order in which resolveSurfaceRead (src/client.ts) looks at the           *)
(* descriptor, the posture and the value.  coverage() (src/coverage.ts)          *)
(* predicts the same from the descriptors alone.                                 *)
(*                                                                          *)
(* Two properties of one provider object: a Container, and a Member of it that    *)
(* is read through the container's guard.  The names of the provider, the dialect *)
(* and the rules are left out: a rule is what it says of one property.  Functions   *)
(* whose spend is not tracked are handed out inside the refusal fence ("fenced",     *)
(* RefusalFence); reviewed ones are handed out as they are ("value").                 *)
(***************************************************************************)
EXTENDS Integers, FiniteSets

CONSTANTS
  Container, Member,
  MaxKeys,        \* MAX_SURFACE_OBSERVATION_KEYS
  MaxReads        \* bound: reads of the client in a behaviour

Path     == {Container, Member}
Postures == {"warn", "raise", "allow"}
Shapes   == {"scalar", "function", "resource", "mapping"}   \* of a value; an accessor is "unevaluated"
Spend    == {"operation", "raw_response"}          \* unmetered_spend, by its capability scope
Kinds    == {"namespace", "metered", "blocked", "metadata"} \union Spend

(* What a rule expects of its property: descriptors and shapes, as the rule tables group them. *)
Methods   == {<<"field", "function">>}
Resources == {<<"field", "resource">>, <<"getter", "resource">>, <<"field", "mapping">>}
Scalars   == {<<"field", "scalar">>, <<"getter", "unevaluated">>}
Inert     == Scalars \union {<<"field", "mapping">>}

NoRule == [kind |-> "none", expects |-> {}]
Rules  == {NoRule}
  \union [kind : {"namespace"}, expects : {Resources, Resources \union {<<"getter", "unevaluated">>}}]
  \union [kind : {"metered", "blocked", "raw_response"}, expects : {Methods}]
  \union [kind : {"operation"}, expects : {Methods, Resources, Resources \union Methods}]
  \union [kind : {"metadata"}, expects : {Methods, Resources, Scalars, Inert}]

(* What the provider's object has there. *)
Seen   == [desc : {"field"}, shape : Shapes] \union [desc : {"getter", "setter"}, shape : {"unevaluated"}]
            \union {[desc |-> "absent", shape |-> "none"]}

VARIABLES
  posture, acked,     \* on_unmetered, acknowledge_untracked
  rule, seen,         \* of each property; seen is what its descriptor shows
  intercepted,        \* the container is a method that the wrapper has an interceptor for
  fixed,              \* the member's own descriptor allows no other value, ever
  guarded,            \* the properties whose guards the program holds
  pending,            \* those whose reads are observed as terminal at the end of this turn
  keys, warned, limit,\* the registry's keys, the warn-once latch, the overflow's warning
  last,               \* the outcome of the last read
  reads

settings == <<posture, acked, rule, seen, intercepted, fixed>>
notices  == <<keys, warned, limit>>
vars     == <<settings, guarded, pending, notices, last, reads>>

Guardable(shape) == shape \in {"resource", "mapping"}
Governed(kind)   == kind \in Spend \union {"unknown"}
Accepts(r, desc, shape) == <<desc, shape>> \in r.expects
Below(p) == IF p = Container THEN {Member} ELSE {}

-----------------------------------------------------------------------------
(* The decision for a property whose value or descriptor has this shape. *)

Effective(r, desc, shape) ==
  IF Accepts(r, desc, shape) THEN [kind |-> r.kind, shape |-> shape, drifted |-> FALSE]
  ELSE [kind |-> "unknown", shape |-> shape, drifted |-> r # NoRule]

Static(p) ==
  IF seen[p].shape = "unevaluated" /\ \E e \in rule[p].expects : e[1] = seen[p].desc
  THEN [kind |-> rule[p].kind, shape |-> "unevaluated", drifted |-> FALSE]
  ELSE Effective(rule[p], seen[p].desc, seen[p].shape)

(* A plausible bug: a token still counts for a value that is not what was reviewed. *)
AcknowledgedDrift(p, d) ==
  IF p \in acked THEN "exact" ELSE IF Below(p) \cap acked # {} THEN "below" ELSE "no"

Acknowledged(p, d) ==
  IF d.drifted THEN "no"
  ELSE IF p \in acked THEN "exact" ELSE IF Below(p) \cap acked # {} THEN "below" ELSE "no"

(* The outcome of a read: the form the program gets, and how often it was observed. *)
Outcome(form, notes) == [form |-> form, notes |-> notes]
Fenced(shape)  == IF shape = "function" THEN "fenced" ELSE "value"
Wrapped(shape) == IF Guardable(shape) THEN "guard" ELSE Fenced(shape)
(* Wrapped as the decision has it: what was seen as a container and is none cannot be guarded. *)
WrappedAs(shape, actual) ==
  IF ~Guardable(shape) THEN Fenced(actual) ELSE IF actual = "scalar" THEN "error" ELSE "guard"

(* applySurfacePosture, for a value that has, or will have, the shape actual. *)
Posture(p, d, actual) ==
  LET ack == Acknowledged(p, d) IN
  CASE ~Governed(d.kind)                          -> Outcome("value", 0)
    [] ack = "exact" /\ d.kind = "raw_response"   -> Outcome(Fenced(actual), 0)
    [] ack = "exact" /\ d.kind # "raw_response"   -> Outcome(WrappedAs(d.shape, actual), 0)
    [] ack = "below"                              -> Outcome(IF Guardable(actual) THEN "guard" ELSE "error", 0)
    [] ack = "no" /\ posture = "raise" /\ Governed(d.kind) -> Outcome("error", 0)
    [] OTHER                                      -> Outcome(WrappedAs(d.shape, actual), 1)

-----------------------------------------------------------------------------
(* resolveSurfaceRead, by what it finds; actual is the shape the value turns out to have. *)

Intercepts(p) == p = Container /\ intercepted

(* No descriptor: a property that only a dynamic getter of the provider answers.  A     *)
(* property that is not there at all, and the client's synthetic chat, are left out.      *)
ReadAbsent(p, actual) ==
  LET r == rule[p]
      d == Effective(NoRule, "field", "scalar")
      refused == r.kind = "blocked" \/ (r.kind = "metered" /\ ~Intercepts(p))
  IN  CASE refused                                                -> Outcome("error", 0)
        [] ~refused /\ posture = "raise" /\ Acknowledged(p, d) = "no"
                                                                  -> Outcome("error", 0)
        [] OTHER -> IF r.kind = "namespace" /\ Accepts(r, "field", actual) /\ Guardable(actual)
                      THEN Outcome("guard", 0)
                      ELSE Posture(p, Effective(NoRule, "field", actual), actual)

(* The namespace, the metadata, the method with an interceptor: a value that is not what was reviewed is unknown. *)
ReadReviewed(p, actual, form) ==
  LET r == rule[p]
      inert == r.kind = "metadata" /\ seen[p].desc = "getter" /\ actual \in {"scalar", "mapping"}
                 /\ Accepts(r, "field", actual)
  IN  IF Accepts(r, seen[p].desc, actual) \/ inert THEN Outcome(form, 0)
      ELSE Posture(p, Effective(r, seen[p].desc, actual), actual)

(* Spend that is not tracked, or a property that no rule, or none any more, describes. *)
ReadGoverned(p, d, actual) ==
  LET first == Posture(p, d, actual)
      drift == Posture(p, Effective(rule[p], seen[p].desc, actual), actual)
      raw   == d.kind = "raw_response" /\ p \in acked
  IN  IF first.form = "error" THEN first
      ELSE IF d.kind = "unknown" \/ Accepts(rule[p], seen[p].desc, actual)
      THEN Outcome(IF raw THEN first.form ELSE Wrapped(actual), first.notes)
      ELSE Outcome(drift.form, first.notes + drift.notes)

(* A container that no rule describes is guarded whatever the posture. *)
Unlisted(p) == rule[p] = NoRule /\ seen[p].desc = "field" /\ Guardable(seen[p].shape)

Read(p, actual) ==
  LET d == Static(p) IN
  IF seen[p].desc = "absent" THEN ReadAbsent(p, actual)
  ELSE IF Unlisted(p) THEN (IF Guardable(actual) THEN Outcome("guard", 0)
                            ELSE Posture(p, Effective(NoRule, "field", actual), actual))
  ELSE CASE d.kind = "metered"   -> IF Intercepts(p) THEN ReadReviewed(p, actual, "wrapper")
                                   ELSE Outcome("error", 0)
         [] d.kind = "blocked"   -> Outcome("error", 0)
         [] d.kind = "namespace" -> ReadReviewed(p, actual, "guard")
         [] d.kind = "metadata"  -> ReadReviewed(p, actual, "value")
         [] OTHER                -> ReadGoverned(p, d, actual)

(* A fixed property can be answered with its own value only: a guard or a fence in its    *)
(* place is refused, and what the read has done by then stays done.                        *)
Fixed(p) == p = Member /\ fixed

(* What the program gets: an unreviewed method stays intercepted where the posture lets it through. *)
Answer(p, actual) ==
  LET o == Read(p, actual) IN
  CASE Fixed(p) /\ o.form # "value"                                  -> Outcome("error", o.notes)
    [] Intercepts(p) /\ actual = "function" /\ o.form # "error"      -> Outcome("wrapper", o.notes)
    [] OTHER                                                         -> o

(* What coverage() says of the property: it is refused, returned, guarded or intercepted. *)
Predicted(p) ==
  LET d == Effective(rule[p], seen[p].desc, seen[p].shape)
      ack == Acknowledged(p, d)
  IN  CASE d.kind = "namespace" -> "guard"
        [] d.kind = "metered"   -> "intercept"
        [] d.kind = "blocked"   -> "refuse"
        [] d.kind = "metadata"  -> "return"
        [] Governed(d.kind) /\ ack = "exact" -> IF Guardable(d.shape) /\ d.kind # "raw_response"
                                                THEN "guard" ELSE "return"
        [] Governed(d.kind) /\ ack = "below" -> IF Guardable(d.shape) \/ d.shape = "unevaluated"
                                                THEN "guard" ELSE "refuse"
        [] OTHER -> IF posture = "raise" THEN "refuse" ELSE IF Guardable(d.shape) THEN "guard" ELSE "return"

-----------------------------------------------------------------------------
(* A token is accepted for a property that can be seen, is not a container of its own, *)
(* and, when a rule describes it, is spend as reviewed; its prefix must be a guardable  *)
(* namespace, spend or unknown property as it is seen now.                              *)
Acknowledgeable(p) ==
  /\ seen[p].desc # "absent"
  /\ IF rule[p] = NoRule THEN seen[p].shape # "unevaluated" /\ ~Guardable(seen[p].shape)
     ELSE rule[p].kind \in Spend /\ ~Static(p).drifted
  /\ p = Member =>
       /\ seen[Container].desc # "absent"
       /\ \/ Guardable(seen[Container].shape)
          \/ seen[Container].shape = "unevaluated" /\ Accepts(rule[Container], "getter", "resource")
       /\ rule[Container] # NoRule =>
            rule[Container].kind \in {"namespace"} \union Spend /\ ~Static(Container).drifted

None == [path |-> Container, form |-> "none", notes |-> 0, actual |-> "none"]

Init ==
  /\ posture \in Postures /\ acked \in {{}, {Container}, {Member}}
  /\ rule \in [Path -> Rules] /\ seen \in [Path -> Seen]
  /\ rule[Member] \in {NoRule} \union [kind : Spend \union {"metadata"}, expects : {Methods}]
  /\ \A p \in acked : Acknowledgeable(p)
  /\ intercepted \in BOOLEAN /\ (intercepted => rule[Container].kind \in {"none", "metered"})
  /\ fixed \in BOOLEAN /\ (fixed => seen[Member].desc \in {"field", "setter"})
  /\ guarded = {} /\ pending = {} /\ reads = 0
  /\ keys = {} /\ warned = {} /\ limit = FALSE /\ last = None

(* What the posture records: the registry has a bound, a property warns once. *)
Noted(p, notes) ==
  LET room == p \in keys \/ Cardinality(keys) < MaxKeys IN
  IF notes = 0 THEN UNCHANGED notices
  ELSE /\ keys' = IF room THEN keys \union {p} ELSE keys
       /\ warned' = IF room /\ posture = "warn" THEN warned \union {p} ELSE warned
       /\ limit' = (limit \/ (~room /\ posture = "warn"))

(* The read of a value that is there: a setter has none, and a fixed field has the one it shows. *)
ReadProperty(p, actual) ==
  LET o == Answer(p, actual) IN
  /\ reads < MaxReads /\ reads' = reads + 1
  /\ p = Member => Container \in guarded
  /\ seen[p].desc = "setter" => actual = "scalar"
  /\ Fixed(p) /\ seen[p].desc = "field" => actual = seen[p].shape
  /\ last' = [path |-> p, form |-> o.form, notes |-> o.notes, actual |-> actual]
  /\ guarded' = IF o.form = "guard" THEN guarded \union {p} ELSE guarded
  /\ pending' = (pending \ {q \in Path : p \in Below(q)})
                  \union (IF Unlisted(p) /\ Guardable(actual) /\ posture # "raise" THEN {p} ELSE {})
  /\ Noted(p, o.notes)
  /\ UNCHANGED settings

(* Reflection on a guard: its keys, a descriptor, a change of one of its properties. *)
Reflect(p) ==
  /\ p \in guarded \cap pending /\ pending' = pending \ {p}
  /\ UNCHANGED <<settings, guarded, notices, last, reads>>

(* The end of the turn: a container that was read and not used is observed itself. *)
EndOfTurn(p) ==
  /\ p \in pending /\ pending' = pending \ {p}
  /\ Noted(p, Posture(p, Effective(NoRule, "field", "resource"), "resource").notes)
  /\ UNCHANGED <<settings, guarded, last, reads>>

Next ==
  \/ \E p \in Path, actual \in Shapes : ReadProperty(p, actual)
  \/ \E p \in Path : Reflect(p) \/ EndOfTurn(p)

Spec == Init /\ [][Next]_vars

-----------------------------------------------------------------------------
(* The rule of the property describes the value the program got. *)
AsReviewed(p, actual) ==
  \/ Accepts(rule[p], seen[p].desc, actual)
  \/ rule[p].kind = "metadata" /\ seen[p].desc = "getter" /\ Accepts(rule[p], "field", actual)

(* In strict mode nothing that may spend reaches the program unless its exact token     *)
(* was acknowledged and it still is what was reviewed; and in every posture a provider   *)
(* object is handed out behind a guard and a provider function inside the fence, so that  *)
(* only reviewed metadata comes as it is.  For a fixed property, where the runtime allows   *)
(* neither, this means that it is not handed out at all (src/surface-guard.ts:609).          *)
StrictModeHolds ==
  last.form \in {"value", "fenced"} =>
    LET p == last.path
        safe == AsReviewed(p, last.actual) /\ rule[p].kind = "metadata"
        own  == p \in acked /\ (rule[p] = NoRule \/ seen[p].desc = "absent" \/ AsReviewed(p, last.actual))
    IN  /\ posture = "raise" => safe \/ own
        /\ last.form = "value" /\ last.actual # "scalar" => safe

(* A read that the posture lets through is observed once; spend whose value is no      *)
(* longer what was reviewed is observed as spend and as unknown; what is acknowledged,  *)
(* reviewed, refused, or a container that is used, is not observed.  What is observed    *)
(* and refused all the same is a value that was seen as a container and cannot be guarded, *)
(* or a fixed property.                                                                     *)
ReadsAreCounted ==
  LET p == last.path
      r == rule[p]
      spend == seen[p].desc # "absent" /\ r.kind \in Spend /\ ~Static(p).drifted
  IN  /\ last.notes = 2 => spend /\ ~AsReviewed(p, last.actual) /\ p \notin acked
      /\ last.notes > 0 => posture # "raise"
      /\ last.notes > 0 /\ last.form = "error" =>
           Fixed(p) \/ (Guardable(seen[p].shape) /\ last.actual = "scalar")
      /\ last.form \in {"value", "fenced"} /\ last.notes = 0 =>
           p \in acked \/ (AsReviewed(p, last.actual) /\ r.kind = "metadata")

(* What coverage() reports is what a read does, when the value has the shape that was    *)
(* seen: what is refused never reaches the program, except the guard of an unknown         *)
(* container, and what is returned, guarded or intercepted is, except that an unreviewed     *)
(* method keeps its interceptor, a metered one without an interceptor is refused, and a        *)
(* fixed property, whose descriptor coverage() does not look at, is refused rather than          *)
(* guarded or fenced.                                                                              *)
CoverageIsTrue ==
  LET p == last.path
      says == Predicted(p)
  IN  last.form # "none" /\ seen[p].desc # "absent" /\ seen[p].shape = last.actual =>
        /\ says = "refuse" => last.form = "error" \/ (last.form = "guard" /\ Unlisted(p))
        /\ says = "return" => \/ last.form = IF rule[p].kind = "metadata" /\ AsReviewed(p, last.actual)
                                               THEN "value" ELSE Fenced(last.actual)
                              \/ last.actual = "function" /\ Intercepts(p) /\ last.form = "wrapper"
                              \/ last.actual = "function" /\ Fixed(p) /\ last.form = "error"
        /\ says = "guard" => last.form = IF Fixed(p) THEN "error" ELSE "guard"
        /\ says = "intercept" => last.form = IF Intercepts(p) THEN "wrapper" ELSE "error"

(* Strict mode, the observations and the coverage report agree on every read. *)
SurfacesAreGuarded == StrictModeHolds /\ ReadsAreCounted /\ CoverageIsTrue
=============================================================================
