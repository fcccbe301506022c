-------------------------- MODULE ClientParts_proofs --------------------------
(***************************************************************************)
(* Theorems about parts of a client that share no state with each other: its    *)
(* project binding, the fence around spend that is not tracked, the middleware   *)
(* for the AI SDK, the shutdown of several clients with their process, and the   *)
(* guard of surfaces, for every set of requests, calls, refusals and clients,    *)
(* any history of the key on the server, and every property of a provider with   *)
(* every rule the tables have for it.                                            *)
(***************************************************************************)
EXTENDS MCClientParts, Sequences, TLAPS

(* The project binding: each of its methods moves it Forward, so that generations and *)
(* the count of notices never go back, and what a call is told never changes without a *)
(* notice.  The invariant then says how old what is under way is: a key check that a *)
(* refusal overtook left before that refusal was stored, and so did every request whose *)
(* 401 has been seen. *)

(* What the proofs need of the type of a binding, also in the middle of a method. *)
BindingFields == {"state", "refusal", "everValid", "pinned", "generation", "refusalGen", "due", "soon", "notified"}

GoodBinding(b) ==
  /\ DOMAIN b = BindingFields
  /\ b = [f \in BindingFields |-> b[f]]
  /\ b.refusal \in Effect \cup {NoRefusal}
  /\ b.state = "refused" <=> b.refusal # NoRefusal
  /\ b.generation \in Nat /\ b.refusalGen \in Nat /\ b.notified \in Nat
  /\ b.refusalGen <= b.generation

(* n is what a method may make of b. *)
Forward(b, n) ==
  /\ GoodBinding(n)
  /\ b.generation <= n.generation /\ b.refusalGen <= n.refusalGen
  /\ n.generation = b.generation => n.notified = b.notified
  /\ n.refusal # b.refusal => n.notified # b.notified

(* The refusal of n does not stand below that of b. *)
NotRelaxed(b, n) ==
  /\ b.refusal = "block" => n.refusal = "block"
  /\ b.refusal = "allow_unmetered" => n.refusal \in {"allow_unmetered", "block"}

-----------------------------------------------------------------------------
LEMMA StoreMoves ==
  ASSUME NEW b, GoodBinding(b), NEW effect \in Effect, NEW independent \in BOOLEAN
  PROVE  LET n == Store(b, effect, independent) IN
         /\ Forward(b, n)
         /\ n.refusal = effect
         /\ effect # b.refusal \/ independent => n.refusalGen = b.generation + 1
         /\ ~independent => n.soon = b.soon
         /\ effect = b.refusal /\ independent => n.soon = TRUE
<1>1. effect # NoRefusal  BY DEF Effect, NoRefusal
<1>2. CASE b.refusal = effect /\ ~independent
 <2>1. Store(b, effect, independent) = b  BY <1>2 DEF Store
 <2>2. Forward(b, b)  BY DEF Forward, GoodBinding
 <2>3. QED BY <1>2, <2>1, <2>2, Zenon
<1>3. CASE b.refusal = effect /\ independent
 <2> DEFINE n == [b EXCEPT !.generation = @ + 1, !.refusalGen = b.generation + 1, !.soon = TRUE]
 <2>1. Store(b, effect, independent) = n  BY <1>3 DEF Store
 <2>2. /\ DOMAIN n = BindingFields /\ n = [f \in BindingFields |-> n[f]]
       /\ n.refusal = b.refusal /\ n.state = b.state /\ n.notified = b.notified /\ n.soon = TRUE
       /\ n.generation = b.generation + 1 /\ n.refusalGen = b.generation + 1
   BY DEF GoodBinding, BindingFields
 <2> HIDE DEF n
 <2>3. QED
  <3>1. Forward(b, n)  BY <2>2 DEF Forward, GoodBinding
  <3>2. QED BY <1>3, <2>1, <2>2, <3>1, Zenon
<1>4. CASE b.refusal # effect
 <2> DEFINE n == [b EXCEPT !.due = FALSE, !.refusal = effect, !.state = "refused", !.generation = @ + 1,
                           !.refusalGen = b.generation + 1, !.notified = @ + 1]
 <2>1. Store(b, effect, independent) = n  BY <1>4 DEF Store
 <2>2. /\ DOMAIN n = BindingFields /\ n = [f \in BindingFields |-> n[f]]
       /\ n.refusal = effect /\ n.state = "refused" /\ n.notified = b.notified + 1 /\ n.soon = b.soon
       /\ n.generation = b.generation + 1 /\ n.refusalGen = b.generation + 1
   BY DEF GoodBinding, BindingFields
 <2> HIDE DEF n
 <2>3. QED BY <1>1, <1>4, <2>1, <2>2 DEF Forward, GoodBinding
<1>5. QED BY <1>2, <1>3, <1>4

LEMMA EffectIs ==
  ASSUME NEW b, NEW stance
  PROVE  EffectFor(b, stance) \in Effect /\ (stance # "alert_only" => EffectFor(b, stance) = "block")
  BY DEF EffectFor, Effect

(* A refusal relaxes a block only when it left at or after the stored one. *)
LEMMA RefuseMoves ==
  ASSUME NEW b, GoodBinding(b), NEW stance, NEW dispatched \in Nat, NEW ownStatus, NEW keyCheck \in BOOLEAN
  PROVE  LET n == Refuse(b, stance, dispatched, ownStatus, keyCheck) IN
         /\ Forward(b, n)
         /\ n.refusal \in Effect
         /\ n.refusal # b.refusal => n.refusalGen = b.generation + 1
         /\ dispatched < b.refusalGen \/ stance # "alert_only" => NotRelaxed(b, n)
         /\ keyCheck => n.soon = b.soon
         /\ stance # "alert_only" /\ ~keyCheck /\ ownStatus # b.refusalGen =>
              n.refusal = "block" /\ n.refusalGen = b.generation + 1 /\ (b.refusal = "block" => n.soon = TRUE)
<1> DEFINE effect == EffectFor(b, stance)
           relaxes == b.refusal = "block" /\ effect = "allow_unmetered"
           independent == ~(keyCheck \/ ownStatus = b.refusalGen)
           n == Refuse(b, stance, dispatched, ownStatus, keyCheck)
<1>1. effect \in Effect /\ (stance # "alert_only" => effect = "block")
  BY EffectIs
<1>2. independent \in BOOLEAN  OBVIOUS
<1>3. CASE relaxes /\ dispatched < b.refusalGen
  BY <1>3, <1>1 DEF Refuse, Forward, NotRelaxed, Effect, GoodBinding
<1>4. CASE ~(relaxes /\ dispatched < b.refusalGen)
  BY <1>4, <1>1, <1>2, StoreMoves DEF Refuse, NotRelaxed, Effect, independent, n
<1>5. QED BY <1>3, <1>4

LEMMA StatusMoves ==
  ASSUME NEW b, GoodBinding(b)
  PROVE  LET n == RefuseAtStatus(b) IN
         /\ Forward(b, n)
         /\ n.refusal = "block" /\ n.refusalGen = b.generation + 1 /\ n.soon = TRUE
<1> DEFINE m == IF b.refusal = "block"
                THEN [b EXCEPT !.generation = @ + 1, !.refusalGen = b.generation + 1]
                ELSE Store(b, "block", FALSE)
<1>1. Forward(b, m) /\ m.refusal = "block" /\ m.refusalGen = b.generation + 1
 <2>1. CASE b.refusal = "block"
  <3> DEFINE n == [b EXCEPT !.generation = @ + 1, !.refusalGen = b.generation + 1]
  <3>1. /\ DOMAIN n = BindingFields /\ n = [f \in BindingFields |-> n[f]]
        /\ n.refusal = b.refusal /\ n.state = b.state /\ n.notified = b.notified
        /\ n.generation = b.generation + 1 /\ n.refusalGen = b.generation + 1
    BY DEF GoodBinding, BindingFields
  <3>2. m = n  BY <2>1
  <3> HIDE DEF m, n
  <3>3. QED BY <2>1, <3>1, <3>2 DEF Forward, GoodBinding
 <2>2. CASE b.refusal # "block"
   BY <2>2, StoreMoves DEF Effect
 <2>3. QED BY <2>1, <2>2
<1>2. RefuseAtStatus(b) = [m EXCEPT !.soon = TRUE]  BY DEF RefuseAtStatus
<1> HIDE DEF m
<1>3. QED BY <1>1, <1>2 DEF Forward, GoodBinding, BindingFields

LEMMA SucceedMoves ==
  ASSUME NEW b, GoodBinding(b), NEW dispatched
  PROVE  LET n == Succeed(b, dispatched) IN
         Forward(b, n) /\ n.soon = b.soon /\ (dispatched # b.generation => n = b)
<1>1. CASE dispatched # b.generation
  BY <1>1 DEF Succeed, Forward, GoodBinding
<1>2. CASE dispatched = b.generation
 <2> DEFINE told == IF ~b.pinned \/ b.state = "refused" THEN b.notified + 1 ELSE b.notified
            n == [b EXCEPT !.state = "valid", !.everValid = TRUE, !.pinned = TRUE, !.refusal = NoRefusal,
                           !.generation = @ + 1, !.notified = told]
 <2>1. Succeed(b, dispatched) = n  BY <1>2 DEF Succeed
 <2>2. /\ told \in Nat /\ (b.state = "refused" => told = b.notified + 1)
   BY DEF GoodBinding
 <2> HIDE DEF told
 <2>3. /\ DOMAIN n = BindingFields /\ n = [f \in BindingFields |-> n[f]]
       /\ n.refusal = NoRefusal /\ n.state = "valid" /\ n.notified = told /\ n.soon = b.soon
       /\ n.generation = b.generation + 1 /\ n.refusalGen = b.refusalGen
   BY DEF GoodBinding, BindingFields
 <2> HIDE DEF n
 <2>4. QED BY <1>2, <2>1, <2>2, <2>3 DEF Forward, GoodBinding
<1>3. QED BY <1>1, <1>2

(* Timers leave the refusal alone. *)
LEMMA TimerMoves ==
  ASSUME NEW b, NEW m, Forward(b, m),
         NEW n, n \in {[m EXCEPT !.due = TRUE], BackOff(m), Outage(m), [m EXCEPT !.soon = FALSE], m}
  PROVE  Forward(b, n) /\ n.refusal = m.refusal /\ n.refusalGen = m.refusalGen
<1>1. n \in {[m EXCEPT !.due = TRUE], [m EXCEPT !.due = FALSE], [m EXCEPT !.soon = FALSE], m}
  BY DEF Outage, BackOff
<1>2. /\ DOMAIN n = BindingFields /\ n = [f \in BindingFields |-> n[f]]
      /\ n.refusal = m.refusal /\ n.refusalGen = m.refusalGen /\ n.state = m.state
      /\ n.generation = m.generation /\ n.notified = m.notified
  BY <1>1 DEF Forward, GoodBinding, BindingFields
<1>3. QED BY <1>2 DEF Forward, GoodBinding

LEMMA StaysForward ==
  ASSUME NEW b, GoodBinding(b)
  PROVE  Forward(b, b)
  BY DEF Forward, GoodBinding

-----------------------------------------------------------------------------
BindingTyped ==
  /\ GoodBinding(binding)
  /\ inflight \in [phase : {"none", "sent", "settled"}, dispatchedAt : Nat, answer : KeyState \cup {NoAnswer}]
  /\ lateBody \in Nat \cup {Undefined}
  /\ requests \in [DataRequest -> [phase : {"new", "sent", "status", "done"}, dispatchedAt : Nat,
                                   answer : KeyState \cup {NoAnswer}, ownStatus : Nat \cup {Undefined}]]
  /\ calls \in [Call -> [phase : {"new", "waiting", "woken", "running",
                                  "blocked", "unmetered", "allowed", "denied"},
                         pass : {0, 1}, generation : Nat, asOf : Nat]]
  /\ key \in KeyState

(* A key check that a refusal overtook left before that refusal was stored. *)
KeyCheckAge ==
  /\ inflight.dispatchedAt <= binding.generation
  /\ overtaken => inflight.dispatchedAt < binding.refusalGen

(* So did every request whose 401 was seen and whose body was not. *)
RequestAge ==
  \A d \in DataRequest :
    /\ requests[d].phase = "sent" => requests[d].dispatchedAt <= binding.generation
    /\ requests[d].phase = "status" => requests[d].dispatchedAt < binding.refusalGen

(* An unread body and an unchecked 401 block, and the latter is being rechecked. *)
Shut ==
  /\ open # {} => binding.refusal = "block"
  /\ unchecked => binding.refusal = "block" /\ (followUp \/ (inflight.phase = "sent" /\ ~overtaken))

(* The generation a call saw at its gate tells which notices it has heard. *)
Heard ==
  \A c \in Call : calls[c].phase = "running" =>
    /\ calls[c].generation <= binding.generation
    /\ calls[c].generation = binding.generation => calls[c].asOf = binding.notified

BindingInv == BindingTyped /\ KeyCheckAge /\ RequestAge /\ Shut /\ Heard

(* What a step may do to the binding, and which results it keeps. *)
BindingMoves ==
  /\ Forward(binding, binding')
  /\ NotRelaxed(binding, binding') \/ ((KeyCheckSucceeds \/ KeyCheckRefuses) /\ ~overtaken)

Keeps ==
  \A c \in Call : (calls[c].phase = "running" /\ calls'[c].phase = "allowed") =>
    Verdict = "proceed" /\ (calls[c].pass = 0 => calls[c].asOf = binding.notified)

LEMMA BindingInit == Init => BindingInv
<1> SUFFICES ASSUME Init PROVE BindingInv
  OBVIOUS
<1>1. GoodBinding(binding)  BY DEF Init, NewBinding, GoodBinding, BindingFields, NoRefusal
<1>2. BindingTyped  BY <1>1 DEF Init, BindingTyped, NoKeyCheck, NewRequest, NewCall, Undefined
<1>3. KeyCheckAge /\ RequestAge /\ Shut /\ Heard
  BY DEF Init, KeyCheckAge, RequestAge, Shut, Heard, NoKeyCheck, NewRequest, NewCall, NewBinding
<1>4. QED BY <1>2, <1>3 DEF BindingInv

(* The binding moves forward: calls and requests that stay do not notice. *)
LEMMA HeardStays ==
  ASSUME BindingInv, Forward(binding, binding'), UNCHANGED calls
  PROVE  Heard' /\ Keeps
<1>1. \A c \in Call : calls[c].generation \in Nat
  BY DEF BindingInv, BindingTyped
<1>2. binding.generation \in Nat /\ binding'.generation \in Nat
  BY DEF Forward, BindingInv, BindingTyped, GoodBinding
<1>3. Heard'  BY <1>1, <1>2 DEF BindingInv, Heard, Forward
<1>4. QED BY <1>3 DEF Keeps

LEMMA AgeStays ==
  ASSUME BindingInv, Forward(binding, binding'), NEW d \in DataRequest, UNCHANGED requests[d]
  PROVE  /\ requests'[d].phase = "sent" => requests'[d].dispatchedAt <= binding'.generation
         /\ requests'[d].phase = "status" => requests'[d].dispatchedAt < binding'.refusalGen
<1>1. requests[d].dispatchedAt \in Nat  BY DEF BindingInv, BindingTyped
<1>2. /\ binding.generation \in Nat /\ binding'.generation \in Nat
      /\ binding.refusalGen \in Nat /\ binding'.refusalGen \in Nat
  BY DEF Forward, BindingInv, BindingTyped, GoodBinding
<1>3. QED BY <1>1, <1>2 DEF BindingInv, RequestAge, Forward

LEMMA KeyCheckAgeStays ==
  ASSUME BindingInv, Forward(binding, binding'), inflight'.dispatchedAt = inflight.dispatchedAt, UNCHANGED overtaken
  PROVE  KeyCheckAge'
<1>1. inflight.dispatchedAt \in Nat  BY DEF BindingInv, BindingTyped
<1>2. /\ binding.generation \in Nat /\ binding'.generation \in Nat
      /\ binding.refusalGen \in Nat /\ binding'.refusalGen \in Nat
  BY DEF Forward, BindingInv, BindingTyped, GoodBinding
<1>3. QED BY <1>1, <1>2 DEF BindingInv, KeyCheckAge, Forward

-----------------------------------------------------------------------------
(* Steps that leave the binding alone. *)
LEMMA UnmovedBinding ==
  ASSUME BindingInv, UNCHANGED binding
  PROVE  BindingMoves
<1>1. Forward(binding, binding) /\ GoodBinding(binding)
  BY StaysForward DEF BindingInv, BindingTyped
<1>2. NotRelaxed(binding, binding)  BY DEF NotRelaxed
<1>3. QED BY <1>1, <1>2 DEF BindingMoves

LEMMA KeyCheckSentAge ==
  ASSUME BindingInv
  PROVE  /\ KeyCheckSent(binding) \in [phase : {"none", "sent", "settled"}, dispatchedAt : Nat, answer : KeyState \cup {NoAnswer}]
         /\ KeyCheckSent(binding).phase = "sent"
         /\ KeyCheckSent(binding).dispatchedAt = binding.generation
  BY DEF KeyCheckSent, NoKeyCheck, BindingInv, BindingTyped, GoodBinding

LEMMA StartStep ==
  ASSUME BindingInv, StartKeyCheck, UNCHANGED <<binding, followUp, lateBody, requests, key, unchecked, open>>
  PROVE  BindingTyped' <=> (calls' \in [Call -> [phase : {"new", "waiting", "woken", "running",
                                  "blocked", "unmetered", "allowed", "denied"},
                         pass : {0, 1}, generation : Nat, asOf : Nat]])
<1>1. GoodBinding(binding)'  BY DEF BindingInv, BindingTyped
<1>2. QED BY <1>1, KeyCheckSentAge DEF BindingInv, BindingTyped, StartKeyCheck

LEMMA StartAge ==
  ASSUME BindingInv, StartKeyCheck, UNCHANGED <<binding, followUp, requests, unchecked, open>>
  PROVE  KeyCheckAge' /\ RequestAge' /\ Shut'
<1>1. inflight' = KeyCheckSent(binding) /\ overtaken' = FALSE
  BY DEF StartKeyCheck
<1>2. KeyCheckAge'  BY <1>1, KeyCheckSentAge DEF KeyCheckAge, BindingInv, BindingTyped, GoodBinding
<1>3. RequestAge'  BY DEF BindingInv, RequestAge
<1>4. Shut'  BY <1>1, KeyCheckSentAge DEF BindingInv, Shut
<1>5. QED BY <1>2, <1>3, <1>4

(* A call that does not run hears nothing, and one that starts hears what is there. *)
LEMMA CallStep ==
  ASSUME BindingInv, UNCHANGED binding, NEW c \in Call, NEW v,
         calls' = [calls EXCEPT ![c] = v],
         v \in [phase : {"new", "waiting", "woken", "running", "blocked", "unmetered", "allowed", "denied"},
                pass : {0, 1}, generation : Nat, asOf : Nat],
         v.phase = "running" => v.generation = binding.generation /\ v.asOf = binding.notified
  PROVE  /\ Heard'
         /\ calls' \in [Call -> [phase : {"new", "waiting", "woken", "running",
                                  "blocked", "unmetered", "allowed", "denied"},
                         pass : {0, 1}, generation : Nat, asOf : Nat]]
         /\ calls[c].phase # "running" => Keeps
<1>1. binding.generation \in Nat  BY DEF BindingInv, BindingTyped, GoodBinding
<1>2. \A d \in Call : calls'[d] = IF d = c THEN v ELSE calls[d]
  BY DEF BindingInv, BindingTyped
<1>3. calls' \in [Call -> [phase : {"new", "waiting", "woken", "running",
                                  "blocked", "unmetered", "allowed", "denied"},
                         pass : {0, 1}, generation : Nat, asOf : Nat]]
  BY DEF BindingInv, BindingTyped
<1>4. Heard'  BY <1>1, <1>2 DEF BindingInv, Heard
<1>5. calls[c].phase # "running" => Keeps  BY <1>2 DEF Keeps
<1>6. QED BY <1>3, <1>4, <1>5

LEMMA DecideStep ==
  ASSUME BindingInv, NEW c \in Call, calls[c].phase \in {"new", "woken"}, Decide(c), UNCHANGED binding
  PROVE  /\ Heard' /\ Keeps
         /\ calls' \in [Call -> [phase : {"new", "waiting", "woken", "running",
                                  "blocked", "unmetered", "allowed", "denied"},
                         pass : {0, 1}, generation : Nat, asOf : Nat]]
<1> DEFINE v == CASE Verdict = "proceed" -> [calls[c] EXCEPT !.phase = "running", !.generation = binding.generation,
                                          !.asOf = binding.notified]
      [] Verdict = "block" -> [calls[c] EXCEPT !.phase = "blocked"]
      [] Verdict = "allow_unmetered" -> [calls[c] EXCEPT !.phase = "unmetered"]
<1>1. calls' = [calls EXCEPT ![c] = v]  BY DEF Decide
<1>2. Verdict \in {"proceed", "block", "allow_unmetered"}
  BY DEF Verdict, BindingInv, BindingTyped, GoodBinding, Effect
<1>3. /\ v \in [phase : {"new", "waiting", "woken", "running", "blocked", "unmetered", "allowed", "denied"},
                pass : {0, 1}, generation : Nat, asOf : Nat]
      /\ v.phase = "running" => v.generation = binding.generation /\ v.asOf = binding.notified
  BY <1>2 DEF BindingInv, BindingTyped, GoodBinding
<1> HIDE DEF v
<1>4. QED BY <1>1, <1>3, CallStep

(* A result is kept when nothing was stored meanwhile, or after a second pass. *)
LEMMA BindingExitStep ==
  ASSUME BindingInv, NEW c \in Call, Exit(c)
  PROVE  BindingInv' /\ Keeps
<1>1. PICK result \in {"allowed", "denied"} : calls' = [calls EXCEPT ![c] = ExitOf(c, result)]
  BY DEF Exit
<1> DEFINE v == ExitOf(c, result)
<1>2. calls[c].phase = "running"  BY DEF Exit
<1>3. /\ v \in [phase : {"new", "waiting", "woken", "running", "blocked", "unmetered", "allowed", "denied"},
                pass : {0, 1}, generation : Nat, asOf : Nat]
      /\ v.phase # "running"
      /\ v.phase = "allowed" => Verdict = "proceed" /\ (calls[c].pass = 0 => binding.generation = calls[c].generation)
  BY <1>2 DEF Verdict, BindingInv, BindingTyped, GoodBinding, Effect, ExitOf, NewCall
<1> HIDE DEF v
<1>4. UNCHANGED <<binding, inflight, followUp, lateBody, requests, server, history>>  BY DEF Exit
<1>5. /\ Heard'
      /\ calls' \in [Call -> [phase : {"new", "waiting", "woken", "running",
                                  "blocked", "unmetered", "allowed", "denied"},
                         pass : {0, 1}, generation : Nat, asOf : Nat]]
  BY <1>1, <1>3, <1>4, CallStep DEF v
<1>6. Keeps
  BY <1>1, <1>2, <1>3 DEF BindingInv, BindingTyped, v, Keeps, Heard
<1>7. BindingTyped' /\ KeyCheckAge' /\ RequestAge' /\ Shut'
  BY <1>4, <1>5 DEF BindingInv, BindingTyped, KeyCheckAge, RequestAge, Shut, server, history
<1>8. QED BY <1>5, <1>6, <1>7 DEF BindingInv

LEMMA StillSteps ==
  ASSUME BindingInv,
         \/ Poll \/ Validate \/ ServeKeyCheck \/ KeyCheckSettles \/ KeyChanges
         \/ \E d \in DataRequest : Send(d) \/ Serve(d) \/ EndUnrefused(d)
         \/ \E c \in Call : GateNow(c) \/ GateWaits(c) \/ GateDecides(c)
         \/ UNCHANGED vars
  PROVE  BindingInv' /\ BindingMoves /\ Keeps
<1> DEFINE Goal == BindingInv' /\ Keeps
<1>1. UNCHANGED binding
  BY DEF Poll, Validate, ServeKeyCheck, KeyCheckSettles, KeyChanges, Send, Serve, EndUnrefused,
         GateNow, GateWaits, GateDecides, vars, client
<1>2. BindingMoves  BY <1>1, UnmovedBinding
<1>0. Forward(binding, binding')  BY <1>2 DEF BindingMoves
<1>3. ASSUME Poll \/ Validate PROVE Goal
  BY <1>3, StartStep, <1>0, StartAge, HeardStays DEF Poll, Validate, server, BindingInv, BindingTyped
<1>4. ASSUME ServeKeyCheck PROVE Goal
  BY <1>4, <1>0, KeyCheckAgeStays, HeardStays DEF ServeKeyCheck, server, history, BindingInv, BindingTyped, RequestAge, Shut
<1>5. ASSUME KeyCheckSettles PROVE Goal
 <2>1. /\ inflight' = IF followUp /\ binding.state = "refused" THEN KeyCheckSent(binding) ELSE NoKeyCheck
       /\ inflight.phase = "settled" /\ overtaken' = FALSE
       /\ UNCHANGED <<binding, lateBody, requests, key, unchecked, open>>
   BY <1>5 DEF KeyCheckSettles, server
 <2>2. calls' = [c \in Call |-> IF calls[c].phase = "waiting" THEN [calls[c] EXCEPT !.phase = "woken"] ELSE calls[c]]
   BY <1>5 DEF KeyCheckSettles
 <2>3. /\ NoKeyCheck \in [phase : {"none", "sent", "settled"}, dispatchedAt : Nat, answer : KeyState \cup {NoAnswer}]
       /\ NoKeyCheck.dispatchedAt = 0 /\ binding.generation \in Nat /\ 0 <= binding.generation
   BY DEF NoKeyCheck, BindingInv, BindingTyped, GoodBinding
 <2>4. calls' \in [Call -> [phase : {"new", "waiting", "woken", "running",
                                 "blocked", "unmetered", "allowed", "denied"},
                        pass : {0, 1}, generation : Nat, asOf : Nat]]
   BY <2>2 DEF BindingInv, BindingTyped
 <2>5. BindingTyped'  BY <2>1, <2>3, <2>4, KeyCheckSentAge DEF BindingInv, BindingTyped
 <2>6. KeyCheckAge'  BY <2>1, <2>3, KeyCheckSentAge DEF KeyCheckAge
 <2>7. RequestAge'  BY <2>1 DEF BindingInv, RequestAge
 <2>8. Shut'
   BY <2>1, KeyCheckSentAge DEF BindingInv, Shut, BindingTyped, GoodBinding, NoRefusal
 <2>9. Heard' /\ Keeps
   BY <2>1, <2>2 DEF BindingInv, Heard, BindingTyped, Keeps
 <2>10. QED BY <2>5, <2>6, <2>7, <2>8, <2>9 DEF BindingInv
<1>6. ASSUME KeyChanges \/ UNCHANGED vars PROVE Goal
  BY <1>6, <1>0, HeardStays DEF KeyChanges, vars, client, server, history, BindingInv, BindingTyped, KeyCheckAge, RequestAge, Shut
<1>7. ASSUME NEW d \in DataRequest, Send(d) \/ Serve(d) \/ EndUnrefused(d) PROVE Goal
  BY <1>7, <1>0, HeardStays DEF Send, Serve, EndUnrefused, server, history, BindingInv, BindingTyped, GoodBinding, RequestAge, KeyCheckAge, Shut
<1>8. ASSUME NEW c \in Call, GateNow(c) \/ GateDecides(c) PROVE Goal
  BY <1>8, DecideStep DEF GateNow, GateDecides, server, history, BindingInv, BindingTyped, KeyCheckAge, RequestAge, Shut
<1>9. ASSUME NEW c \in Call, GateWaits(c) PROVE Goal
 <2> DEFINE v == [calls[c] EXCEPT !.phase = "waiting"]
 <2>1. /\ calls' = [calls EXCEPT ![c] = v] /\ calls[c].phase = "new"
       /\ UNCHANGED <<binding, followUp, lateBody, requests, key, unchecked, open>>
   BY <1>9 DEF GateWaits, server, BindingInv, BindingTyped
 <2>2. v \in [phase : {"new", "waiting", "woken", "running", "blocked", "unmetered", "allowed", "denied"},
               pass : {0, 1}, generation : Nat, asOf : Nat] /\ v.phase = "waiting"
   BY DEF BindingInv, BindingTyped
 <2> HIDE DEF v
 <2>3. /\ Heard' /\ Keeps
       /\ calls' \in [Call -> [phase : {"new", "waiting", "woken", "running",
                                 "blocked", "unmetered", "allowed", "denied"},
                        pass : {0, 1}, generation : Nat, asOf : Nat]]
   BY <2>1, <2>2, CallStep
 <2>4. CASE inflight.phase = "none"
   BY <1>9, <2>4, <2>1, <2>3, StartStep, StartAge DEF GateWaits, BindingInv
 <2>5. CASE inflight.phase # "none"
   BY <1>9, <2>5, <2>1, <2>3 DEF GateWaits, BindingInv, BindingTyped, KeyCheckAge, RequestAge, Shut
 <2>6. QED BY <2>4, <2>5
<1> HIDE DEF Goal
<1>10. Goal  BY <1>3, <1>4, <1>5, <1>6, <1>7, <1>8, <1>9
<1>11. QED BY <1>2, <1>10 DEF Goal

-----------------------------------------------------------------------------
(* Steps of the key check. *)

(* A key check that a refusal overtook changes nothing of a block; any other answers what was unchecked. *)
LEMMA KeyCheckStep ==
  ASSUME BindingInv, NEW n, Forward(binding, n), KeyCheckEnds(n),
         inflight.phase = "sent", lateBody' \in Nat \cup {Undefined},
         overtaken => NotRelaxed(binding, n),
         \/ NotRelaxed(binding, n)
         \/ (KeyCheckSucceeds \/ KeyCheckRefuses) /\ ~overtaken,
         \/ Answered
         \/ unchecked' = (unchecked /\ overtaken) /\ UNCHANGED open /\ NotRelaxed(binding, n)
  PROVE  BindingInv' /\ BindingMoves /\ Keeps
<1>1. /\ binding' = n /\ inflight' = [inflight EXCEPT !.phase = "settled"]
      /\ UNCHANGED <<followUp, requests, calls, key, overtaken>>
  BY DEF KeyCheckEnds
<1>2. /\ inflight'.dispatchedAt = inflight.dispatchedAt
      /\ inflight' \in [phase : {"none", "sent", "settled"}, dispatchedAt : Nat, answer : KeyState \cup {NoAnswer}]
  BY <1>1 DEF BindingInv, BindingTyped
<1>3. BindingTyped'  BY <1>1, <1>2 DEF BindingInv, BindingTyped, Forward
<1>4. KeyCheckAge'  BY <1>1, <1>2, KeyCheckAgeStays
<1>5. RequestAge'  BY <1>1, AgeStays DEF RequestAge
<1>6. Heard' /\ Keeps
  BY <1>1, HeardStays
<1>7. Shut'
 <2>1. CASE overtaken
   BY <2>1, <1>1 DEF Answered, BindingInv, Shut, NotRelaxed
 <2>2. CASE ~overtaken /\ Answered
   BY <2>2 DEF Answered, Shut
 <2>3. CASE ~overtaken /\ UNCHANGED open /\ NotRelaxed(binding, n) /\ unchecked' = (unchecked /\ overtaken)
   BY <1>1, <2>3 DEF BindingInv, Shut, NotRelaxed
 <2>4. QED BY <2>1, <2>2, <2>3
<1>8. QED BY <1>1, <1>3, <1>4, <1>5, <1>6, <1>7 DEF BindingInv, BindingMoves

LEMMA KeyCheckSteps ==
  ASSUME BindingInv, KeyCheck
  PROVE  BindingInv' /\ BindingMoves /\ Keeps
<1>1. /\ GoodBinding(binding) /\ inflight.dispatchedAt \in Nat /\ lateBody \in Nat \cup {Undefined}
      /\ binding.refusalGen \in Nat /\ binding.generation \in Nat /\ binding.refusalGen <= binding.generation
      /\ overtaken => inflight.dispatchedAt < binding.refusalGen
  BY DEF BindingInv, BindingTyped, KeyCheckAge, GoodBinding
<1>2. CASE KeyCheckSucceeds
 <2> DEFINE n == Succeed(binding, inflight.dispatchedAt)
 <2>1. /\ Forward(binding, n) /\ (inflight.dispatchedAt # binding.generation => n = binding)
   BY <1>1, SucceedMoves
 <2>2. overtaken => NotRelaxed(binding, n)
   BY <1>1, <2>1 DEF NotRelaxed
 <2>3. KeyCheckEnds(n) /\ Answered /\ inflight.phase = "sent" /\ lateBody' \in Nat \cup {Undefined}
   BY <1>1, <1>2 DEF KeyCheckSucceeds
 <2> HIDE DEF n
 <2>4. QED BY <1>2, <2>1, <2>2, <2>3, KeyCheckStep
<1>3. CASE KeyCheckRefuses
 <2>1. PICK stance : KeyCheckEnds(BackOff(Refuse(binding, stance, inflight.dispatchedAt, Undefined, TRUE)))
   BY <1>3 DEF KeyCheckRefuses
 <2> DEFINE m == Refuse(binding, stance, inflight.dispatchedAt, Undefined, TRUE)
            n == BackOff(m)
 <2>2. Forward(binding, m) /\ (inflight.dispatchedAt < binding.refusalGen => NotRelaxed(binding, m))
   BY <1>1, RefuseMoves
 <2> HIDE DEF m
 <2>3. Forward(binding, n) /\ n.refusal = m.refusal
   BY <2>2, TimerMoves
 <2>4. overtaken => NotRelaxed(binding, n)  BY <1>1, <2>2, <2>3 DEF NotRelaxed
 <2>5. KeyCheckEnds(n) /\ Answered /\ inflight.phase = "sent" /\ lateBody' \in Nat \cup {Undefined}
   BY <1>1, <1>3, <2>1 DEF KeyCheckRefuses, m
 <2> HIDE DEF n
 <2>6. QED BY <1>3, <2>3, <2>4, <2>5, KeyCheckStep
<1>4. CASE KeyCheckFails
  BY <1>1, StaysForward, TimerMoves, <1>4, KeyCheckStep DEF NotRelaxed, KeyCheckFails
<1>5. QED BY <1>2, <1>3, <1>4 DEF KeyCheck

LEMMA TimerStep ==
  ASSUME BindingInv, RetryElapses
  PROVE  BindingInv' /\ BindingMoves /\ Keeps
<1>1. /\ binding' = [binding EXCEPT !.due = TRUE]
      /\ UNCHANGED <<inflight, followUp, lateBody, requests, calls, key, overtaken, unchecked, open>>
  BY DEF RetryElapses, server, history
<1>2. Forward(binding, binding') /\ binding'.refusal = binding.refusal
  BY <1>1, StaysForward, TimerMoves DEF BindingInv, BindingTyped
<1>3. BindingTyped'  BY <1>1, <1>2 DEF BindingInv, BindingTyped, Forward
<1>4. KeyCheckAge'  BY <1>1, <1>2, KeyCheckAgeStays
<1>5. RequestAge'  BY <1>1, <1>2, AgeStays DEF RequestAge
<1>6. Heard' /\ Keeps
  BY <1>1, <1>2, HeardStays
<1>7. Shut'  BY <1>1, <1>2 DEF BindingInv, Shut
<1>8. NotRelaxed(binding, binding')  BY <1>2 DEF NotRelaxed
<1>9. QED BY <1>2, <1>3, <1>4, <1>5, <1>6, <1>7, <1>8 DEF BindingInv, BindingMoves

(* A refusal that ends long after its key check did can block, and relax nothing. *)
LEMMA LateStep ==
  ASSUME BindingInv, LateRefusal
  PROVE  BindingInv' /\ BindingMoves /\ Keeps
<1> DEFINE n == Refuse(binding, "unknown", lateBody, Undefined, TRUE)
<1>1. lateBody \in Nat /\ GoodBinding(binding)
  BY DEF LateRefusal, BindingInv, BindingTyped
<1>2. /\ Forward(binding, n) /\ NotRelaxed(binding, n)
      /\ n.refusal \in Effect
      /\ n.refusal # binding.refusal => n.refusalGen = binding.generation + 1
  BY <1>1, RefuseMoves
<1>3. /\ binding' = n
      /\ overtaken' = (overtaken \/ (n.refusal # binding.refusal /\ inflight.phase = "sent"))
      /\ lateBody' = Undefined
      /\ UNCHANGED <<inflight, followUp, requests, calls, key, unchecked, open>>
  BY DEF LateRefusal, server
<1> HIDE DEF n
<1>4. BindingTyped'  BY <1>2, <1>3 DEF BindingInv, BindingTyped, Forward
<1>5. KeyCheckAge'
 <2>1. CASE n.refusal # binding.refusal
   BY <1>2, <1>3, <2>1 DEF BindingInv, KeyCheckAge, BindingTyped, GoodBinding, Forward
 <2>2. CASE n.refusal = binding.refusal
  <3>1. inflight.dispatchedAt \in Nat /\ binding.generation \in Nat /\ binding.refusalGen \in Nat
        /\ n.generation \in Nat /\ n.refusalGen \in Nat
    BY <1>2 DEF BindingInv, BindingTyped, GoodBinding, Forward
  <3>2. overtaken' => overtaken  BY <1>3, <2>2
  <3>3. QED BY <1>2, <1>3, <3>1, <3>2 DEF BindingInv, KeyCheckAge, Forward
 <2>3. QED BY <2>1, <2>2
<1>6. RequestAge'  BY <1>2, <1>3, AgeStays DEF RequestAge
<1>7. Heard' /\ Keeps
  BY <1>2, <1>3, HeardStays
<1>8. Shut'  BY <1>2, <1>3 DEF BindingInv, Shut, NotRelaxed
<1>9. QED BY <1>2, <1>3, <1>4, <1>5, <1>6, <1>7, <1>8 DEF BindingInv, BindingMoves

-----------------------------------------------------------------------------
(* Steps of a refused data request. *)

(* A key check is started, or one is queued behind the one that is under way. *)
LEMMA RecheckStarts ==
  ASSUME BindingInv, NEW n, Forward(binding, n), RevalidateSoon(n)
  PROVE  /\ Forward(binding, binding') /\ binding'.refusal = n.refusal /\ binding'.refusalGen = n.refusalGen
         /\ inflight' \in [phase : {"none", "sent", "settled"}, dispatchedAt : Nat, answer : KeyState \cup {NoAnswer}]
         /\ inflight' = inflight \/ (inflight'.phase = "sent" /\ inflight'.dispatchedAt <= binding'.generation
                                     /\ inflight.phase = "none")
         /\ followUp => followUp'
         /\ n.soon = TRUE => followUp' \/ (inflight'.phase = "sent" /\ inflight.phase = "none")
<1>1. binding' = [n EXCEPT !.soon = FALSE]  BY DEF RevalidateSoon
<1>2. Forward(binding, binding') /\ binding'.refusal = n.refusal /\ binding'.refusalGen = n.refusalGen
  BY <1>1, TimerMoves
<1>3. binding'.generation = n.generation /\ n.generation \in Nat
  BY <1>1 DEF Forward, GoodBinding, BindingFields
<1>4. /\ KeyCheckSent(n).phase = "sent" /\ KeyCheckSent(n).dispatchedAt = n.generation
      /\ KeyCheckSent(n) \in [phase : {"none", "sent", "settled"}, dispatchedAt : Nat, answer : KeyState \cup {NoAnswer}]
  BY <1>3 DEF KeyCheckSent, NoKeyCheck
<1>5. CASE n.soon /\ inflight.phase = "none"
 <2>1. inflight' = KeyCheckSent(n)  BY <1>5 DEF RevalidateSoon
 <2>2. followUp => followUp'  BY DEF RevalidateSoon
 <2>3. QED BY <1>2, <1>3, <1>4, <1>5, <2>1, <2>2
<1>6. CASE ~(n.soon /\ inflight.phase = "none")
  BY <1>6, <1>2 DEF RevalidateSoon, BindingInv, BindingTyped
<1>7. QED BY <1>5, <1>6

(* What every refusal of a data request keeps: d is the request, news whether a refusal of its own is stored. *)
LEMMA RefusalKeeps ==
  ASSUME BindingInv, NEW n, Forward(binding, n), RevalidateSoon(n), NEW news, Recorded(news),
         news => n.refusalGen = binding.generation + 1,
         UNCHANGED <<lateBody, calls, server>>
  PROVE  /\ Forward(binding, binding') /\ binding'.refusal = n.refusal /\ binding'.refusalGen = n.refusalGen
         /\ KeyCheckAge' /\ Heard' /\ Keeps
         /\ BindingTyped' <=> requests' \in [DataRequest -> [phase : {"new", "sent", "status", "done"}, dispatchedAt : Nat,
                                   answer : KeyState \cup {NoAnswer}, ownStatus : Nat \cup {Undefined}]]
         /\ followUp => followUp'
         /\ n.soon = TRUE => followUp' \/ (inflight'.phase = "sent" /\ ~overtaken')
         /\ inflight.phase = "sent" /\ ~overtaken /\ ~news => inflight'.phase = "sent" /\ ~overtaken'
<1>1. /\ Forward(binding, binding') /\ binding'.refusal = n.refusal /\ binding'.refusalGen = n.refusalGen
      /\ inflight' \in [phase : {"none", "sent", "settled"}, dispatchedAt : Nat, answer : KeyState \cup {NoAnswer}]
      /\ inflight' = inflight \/ (inflight'.phase = "sent" /\ inflight'.dispatchedAt <= binding'.generation
                                     /\ inflight.phase = "none")
      /\ followUp => followUp'
      /\ n.soon = TRUE => followUp' \/ (inflight'.phase = "sent" /\ inflight.phase = "none")
  BY RecheckStarts
<1>2. overtaken' => inflight' = inflight /\ (overtaken \/ news)
  BY DEF Recorded
<1>3. /\ binding.generation \in Nat /\ binding.refusalGen \in Nat /\ inflight.dispatchedAt \in Nat
      /\ binding'.generation \in Nat /\ binding'.refusalGen \in Nat
      /\ inflight.dispatchedAt <= binding.generation
      /\ overtaken => inflight.dispatchedAt < binding.refusalGen
      /\ binding.generation <= binding'.generation /\ binding.refusalGen <= binding'.refusalGen
  BY <1>1 DEF BindingInv, BindingTyped, GoodBinding, KeyCheckAge, Forward
<1>4. KeyCheckAge'
 <2>1. inflight'.dispatchedAt <= binding'.generation  BY <1>1, <1>3
 <2>2. ASSUME overtaken' PROVE inflight'.dispatchedAt < binding'.refusalGen
   BY <1>2, <2>2, <1>3, <1>1
 <2>3. QED BY <2>1, <2>2 DEF KeyCheckAge
<1>5. Heard' /\ Keeps
  BY <1>1, HeardStays
<1>6. BindingTyped' <=> requests' \in [DataRequest -> [phase : {"new", "sent", "status", "done"}, dispatchedAt : Nat,
                                   answer : KeyState \cup {NoAnswer}, ownStatus : Nat \cup {Undefined}]]
  BY <1>1 DEF BindingInv, BindingTyped, Forward, server
<1>7. /\ n.soon = TRUE => followUp' \/ (inflight'.phase = "sent" /\ ~overtaken')
      /\ inflight.phase = "sent" /\ ~overtaken /\ ~news => inflight'.phase = "sent" /\ ~overtaken'
  BY <1>1, <1>2
<1>8. QED BY <1>1, <1>4, <1>5, <1>6, <1>7

LEMMA StatusStep ==
  ASSUME BindingInv, NEW d \in DataRequest, Status(d)
  PROVE  BindingInv' /\ BindingMoves /\ Keeps
<1> DEFINE n == RefuseAtStatus(binding)
           v == [requests[d] EXCEPT !.phase = "status", !.ownStatus = n.refusalGen]
<1>1. /\ Forward(binding, n) /\ n.refusal = "block" /\ n.refusalGen = binding.generation + 1 /\ n.soon = TRUE
  BY StatusMoves DEF BindingInv, BindingTyped
<1>2. /\ RevalidateSoon(n) /\ Recorded(TRUE) /\ unchecked' = TRUE
      /\ requests[d].phase = "sent"
      /\ requests' = [requests EXCEPT ![d].phase = "status", ![d].ownStatus = n.refusalGen]
      /\ UNCHANGED <<lateBody, calls, server>>
  BY DEF Status
<1> HIDE DEF n
<1>3. /\ Forward(binding, binding') /\ binding'.refusal = "block" /\ binding'.refusalGen = binding.generation + 1
      /\ KeyCheckAge' /\ Heard' /\ Keeps
      /\ BindingTyped' <=> requests' \in [DataRequest -> [phase : {"new", "sent", "status", "done"}, dispatchedAt : Nat,
                                   answer : KeyState \cup {NoAnswer}, ownStatus : Nat \cup {Undefined}]]
      /\ followUp' \/ (inflight'.phase = "sent" /\ ~overtaken')
  BY <1>1, <1>2, RefusalKeeps
<1>4. binding.generation \in Nat /\ n.refusalGen \in Nat
  BY <1>1 DEF BindingInv, BindingTyped, GoodBinding
<1>5. BindingTyped'
 <2>1. requests \in [DataRequest -> [phase : {"new", "sent", "status", "done"}, dispatchedAt : Nat,
                                     answer : KeyState \cup {NoAnswer}, ownStatus : Nat \cup {Undefined}]]
   BY DEF BindingInv, BindingTyped
 <2>2. v \in [phase : {"new", "sent", "status", "done"}, dispatchedAt : Nat,
              answer : KeyState \cup {NoAnswer}, ownStatus : Nat \cup {Undefined}]
   BY <1>4, <2>1
 <2>3. requests' = [requests EXCEPT ![d] = v]  BY <1>2, <2>1
 <2> HIDE DEF v
 <2>4. QED BY <1>3, <2>1, <2>2, <2>3
<1>6. RequestAge'
 <2> SUFFICES ASSUME NEW e \in DataRequest
              PROVE  /\ requests'[e].phase = "sent" => requests'[e].dispatchedAt <= binding'.generation
                     /\ requests'[e].phase = "status" => requests'[e].dispatchedAt < binding'.refusalGen
   BY DEF RequestAge
 <2>1. CASE e = d
   BY <1>2, <1>3, <1>4, <2>1 DEF BindingInv, BindingTyped, RequestAge
 <2>2. CASE e # d
   BY <1>2, <2>2, <1>3, AgeStays DEF BindingInv, BindingTyped
 <2>3. QED BY <2>1, <2>2
<1>7. Shut'  BY <1>3 DEF Shut
<1>8. NotRelaxed(binding, binding')  BY <1>3 DEF NotRelaxed
<1>9. QED BY <1>3, <1>5, <1>6, <1>7, <1>8 DEF BindingInv, BindingMoves

(* The body of a 401 relaxes nothing: its request left before the refusal that its own status stored. *)
LEMMA BodyStep ==
  ASSUME BindingInv, NEW d \in DataRequest, Body(d)
  PROVE  BindingInv' /\ BindingMoves /\ Keeps
<1>1. PICK stance :
        /\ RevalidateSoon(Refuse(binding, stance, requests[d].dispatchedAt, requests[d].ownStatus, FALSE))
        /\ Recorded(Refuse(binding, stance, requests[d].dispatchedAt, requests[d].ownStatus, FALSE).refusal # binding.refusal)
  BY DEF Body
<1> DEFINE n == Refuse(binding, stance, requests[d].dispatchedAt, requests[d].ownStatus, FALSE)
           news == n.refusal # binding.refusal
<1>2. /\ requests[d].phase = "status" /\ requests[d].dispatchedAt \in Nat
      /\ requests[d].dispatchedAt < binding.refusalGen
      /\ GoodBinding(binding)
  BY DEF Body, BindingInv, RequestAge, BindingTyped
<1>3. /\ Forward(binding, n) /\ NotRelaxed(binding, n)
      /\ n.refusal # binding.refusal => n.refusalGen = binding.generation + 1
  BY <1>2, RefuseMoves
<1>4. /\ RevalidateSoon(n) /\ Recorded(news)
      /\ requests' = [requests EXCEPT ![d].phase = "done"] /\ open' = open \ {d}
      /\ UNCHANGED <<lateBody, calls, server, unchecked>>
  BY <1>1 DEF Body
<1> HIDE DEF n
<1>5. /\ Forward(binding, binding') /\ binding'.refusal = n.refusal
      /\ KeyCheckAge' /\ Heard' /\ Keeps
      /\ BindingTyped' <=> requests' \in [DataRequest -> [phase : {"new", "sent", "status", "done"}, dispatchedAt : Nat,
                                   answer : KeyState \cup {NoAnswer}, ownStatus : Nat \cup {Undefined}]]
      /\ followUp => followUp'
      /\ inflight.phase = "sent" /\ ~overtaken /\ ~news => inflight'.phase = "sent" /\ ~overtaken'
  BY <1>3, <1>4, RefusalKeeps
<1>6. BindingTyped'  BY <1>4, <1>5 DEF BindingInv, BindingTyped
<1>7. RequestAge'
  BY <1>4, <1>5, AgeStays DEF BindingInv, BindingTyped, RequestAge
<1>8. Shut'
  BY <1>3, <1>5, <1>4 DEF NotRelaxed, BindingInv, Shut
<1>9. NotRelaxed(binding, binding')  BY <1>3, <1>5 DEF NotRelaxed
<1>10. QED BY <1>5, <1>6, <1>7, <1>8, <1>9 DEF BindingInv, BindingMoves

LEMMA ProjectStep ==
  ASSUME BindingInv, NEW d \in DataRequest, ProjectRefusal(d)
  PROVE  BindingInv' /\ BindingMoves /\ Keeps
<1> DEFINE n == Refuse(binding, "unknown", requests[d].dispatchedAt, Undefined, FALSE)
<1>1. requests[d].dispatchedAt \in Nat /\ GoodBinding(binding) /\ Undefined # binding.refusalGen
  BY DEF BindingInv, BindingTyped, GoodBinding, Undefined
<1>2. /\ Forward(binding, n) /\ NotRelaxed(binding, n)
      /\ n.refusal = "block" /\ n.refusalGen = binding.generation + 1
      /\ binding.refusal = "block" => n.soon = TRUE
  BY <1>1, RefuseMoves
<1>3. /\ RevalidateSoon(n) /\ Recorded(TRUE)
      /\ requests' = [requests EXCEPT ![d].phase = "done"]
      /\ UNCHANGED <<lateBody, calls, server, unchecked, open>>
  BY DEF ProjectRefusal
<1> HIDE DEF n
<1>5. /\ Forward(binding, binding') /\ binding'.refusal = n.refusal
      /\ KeyCheckAge' /\ Heard' /\ Keeps
      /\ BindingTyped' <=> requests' \in [DataRequest -> [phase : {"new", "sent", "status", "done"}, dispatchedAt : Nat,
                                   answer : KeyState \cup {NoAnswer}, ownStatus : Nat \cup {Undefined}]]
      /\ followUp => followUp'
      /\ n.soon = TRUE => followUp' \/ (inflight'.phase = "sent" /\ ~overtaken')
  BY <1>2, <1>3, RefusalKeeps
<1>6. BindingTyped'  BY <1>3, <1>5 DEF BindingInv, BindingTyped
<1>7. RequestAge'
  BY <1>3, <1>5, AgeStays DEF BindingInv, BindingTyped, RequestAge
<1>8. Shut'  BY <1>2, <1>3, <1>5 DEF BindingInv, Shut
<1>9. NotRelaxed(binding, binding')  BY <1>2, <1>5 DEF NotRelaxed
<1>10. QED BY <1>5, <1>6, <1>7, <1>8, <1>9 DEF BindingInv, BindingMoves

-----------------------------------------------------------------------------
LEMMA BindingStep ==
  ASSUME BindingInv, [Next]_vars
  PROVE  BindingInv' /\ BindingMoves /\ Keeps
<1>1. CASE UNCHANGED vars
  BY <1>1, StillSteps
<1>2. CASE KeyCheck
  BY <1>2, KeyCheckSteps
<1>3. CASE RetryElapses
  BY <1>3, TimerStep
<1>4. CASE LateRefusal
  BY <1>4, LateStep
<1>5. CASE \E d \in DataRequest : Status(d) \/ Body(d) \/ ProjectRefusal(d)
  BY <1>5, StatusStep, BodyStep, ProjectStep
<1>6. CASE \E c \in Call : Exit(c)
  BY <1>6, UnmovedBinding, BindingExitStep DEF Exit
<1>7. CASE \/ Poll \/ Validate \/ ServeKeyCheck \/ KeyCheckSettles \/ KeyChanges
           \/ \E d \in DataRequest : Send(d) \/ Serve(d) \/ EndUnrefused(d)
           \/ \E c \in Call : GateNow(c) \/ GateWaits(c) \/ GateDecides(c)
  BY <1>7, StillSteps
<1>8. QED BY <1>1, <1>2, <1>3, <1>4, <1>5, <1>6, <1>7 DEF Next, KeyCheck

(* The ages of what is under way and what calls have heard hold in every reachable state. *)
THEOREM BindingInvariant == Spec => []BindingInv
<1>1. Init => BindingInv  BY BindingInit
<1>2. BindingInv /\ [Next]_vars => BindingInv'
  BY BindingStep
<1>3. QED BY <1>1, <1>2, PTL DEF Spec

(* From a 401's status until its body is read or a later key check answered,
   calls are blocked, and a key check that left after the status is under way
   or queued until one has ended. *)
THEOREM Rechecked == Spec => []RefusalsAreRechecked
<1>1. BindingInv => RefusalsAreRechecked
  BY DEF BindingInv, BindingTyped, GoodBinding, Verdict, NoRefusal, Shut, RefusalsAreRechecked
<1>2. QED BY <1>1, BindingInvariant, PTL

(* No answer but that of a key check that no refusal overtook relaxes or
   clears a refusal, in whatever order answers come. *)
THEOREM OnlyNewerRelax == Spec => OnlyNewerKeyChecksRelax
<1>1. BindingInv /\ [Next]_vars =>
        [Rank(Verdict') < Rank(Verdict) => (KeyCheckSucceeds \/ KeyCheckRefuses) /\ ~overtaken]_vars
 <2> SUFFICES ASSUME BindingInv, [Next]_vars, Rank(Verdict') < Rank(Verdict)
              PROVE  (KeyCheckSucceeds \/ KeyCheckRefuses) /\ ~overtaken
   OBVIOUS
 <2>1. BindingMoves  BY BindingStep
 <2>2. ASSUME NotRelaxed(binding, binding') PROVE FALSE
   BY <2>1, <2>2 DEF BindingMoves, Forward, GoodBinding, Verdict, BindingInv, BindingTyped, NotRelaxed, Rank, Effect, NoRefusal
 <2>3. QED BY <2>1, <2>2 DEF BindingMoves
<1>2. QED BY <1>1, BindingInvariant, PTL DEF Spec, OnlyNewerKeyChecksRelax

(* A kept result was produced under the authority its call was told of, and
   listeners hear of every change of what calls are told. *)
THEOREM ResultsAreCurrent == Spec => KeptResultsAreCurrent
<1>1. BindingInv /\ [Next]_vars =>
        [\A c \in Call : (calls[c].phase = "running" /\ calls'[c].phase = "allowed") =>
           Verdict = "proceed" /\ (calls[c].pass = 0 => calls[c].asOf = binding.notified)]_vars
  BY BindingStep DEF Keeps
<1>2. BindingInv /\ [Next]_vars =>
        [Verdict' # Verdict /\ {Verdict, Verdict'} \subseteq Effect \cup {"proceed"} =>
           binding'.notified # binding.notified]_vars
  BY BindingStep DEF BindingMoves, Forward, GoodBinding, Verdict, BindingInv, BindingTyped
<1>3. QED BY <1>1, <1>2, BindingInvariant, PTL DEF Spec, KeptResultsAreCurrent

-----------------------------------------------------------------------------
(* The fence around spend that is not tracked. *)

RequestFields == {"phase", "signal", "returns", "capped", "reservation", "hard", "reader"}

(* A request that is under way with a signal carries that of this era, and no refusal stands. *)
(* A request that waits for its turn carries no later one. A call that was answered under *)
(* hard_deny is over. *)
WellFenced(r, e, b) ==
  /\ DOMAIN r = RequestFields
  /\ r.phase = "sent" => r.signal = 0 \/ (r.signal = e /\ ~b)
  /\ r.phase = "deferred" => r.signal \in 0 .. e
  /\ r.hard => r.phase = "refused"

FenceInv ==
  /\ era \in Nat \ {0} /\ blocked \in BOOLEAN
  /\ DOMAIN request = Client
  /\ \A q \in Client : WellFenced(request[q], era, blocked)

LEMMA FenceInit == Fence!Init => FenceInv
<1> SUFFICES ASSUME Fence!Init PROVE FenceInv
  OBVIOUS
<1>1. era \in Nat \ {0} /\ DOMAIN request = Client
  BY DEF Fence!Init
<1>5. blocked \in BOOLEAN  BY Zenon DEF Fence!Init
<1>2. \A q \in Client : request[q] = Fence!NewRequest
  BY DEF Fence!Init
<1>3. WellFenced(Fence!NewRequest, era, blocked)
  BY DEF WellFenced, Fence!NewRequest, Fence!NoSignal, RequestFields
<1>4. QED BY <1>1, <1>2, <1>3, <1>5 DEF FenceInv

(* A step that changes one request, and neither the binding nor its signal. *)
LEMMA OneRequest ==
  ASSUME FenceInv, NEW q \in Client, NEW r, WellFenced(r, era, blocked), Fence!Becomes(q, r), Fence!Unchanged
  PROVE  FenceInv'
<1>1. DOMAIN request' = Client /\ era' = era /\ blocked' = blocked
  BY DEF FenceInv, Fence!Becomes, Fence!Unchanged
<1>2. \A p \in Client : request'[p] = IF p = q THEN r ELSE request[p]
  BY DEF FenceInv, Fence!Becomes
<1>3. \A p \in Client : WellFenced(request'[p], era, blocked)
  BY <1>2 DEF FenceInv
<1>4. QED BY <1>1, <1>3 DEF FenceInv

(* What a call leaves of a request that has not left yet. *)
LEMMA InvokedWell ==
  ASSUME era \in Nat \ {0}, blocked \in BOOLEAN,
         NEW r, DOMAIN r = RequestFields, ~r.hard, NEW returns, NEW signal \in BOOLEAN
  PROVE  WellFenced(Fence!Invoked(r, returns, signal), era, blocked)
<1>1. CASE blocked
  BY <1>1 DEF WellFenced, Fence!Invoked, RequestFields
<1>2. CASE ~blocked
  BY <1>2 DEF RequestFields, Fence!NoSignal, Fence!Invoked, WellFenced
<1>3. QED BY <1>1, <1>2

LEMMA FenceStep == FenceInv /\ [Fence!Next]_(Fence!vars) => FenceInv'
<1> SUFFICES ASSUME FenceInv, [Fence!Next]_(Fence!vars) PROVE FenceInv'
  OBVIOUS
<1>0. era \in Nat \ {0} /\ blocked \in BOOLEAN
  BY DEF FenceInv
<1>1. ASSUME NEW q \in Client, NEW via \in Client, NEW returns \in Fence!Returns, NEW signal \in BOOLEAN,
             Fence!CallFenced(q, via, returns, signal)
      PROVE  FenceInv'
  BY <1>1, <1>0, InvokedWell, OneRequest DEF Fence!CallFenced, FenceInv, WellFenced
<1>2. ASSUME NEW q \in Client, Fence!Send(q) PROVE FenceInv'
 <2> DEFINE r == request[q]
 <2>1. /\ DOMAIN r = RequestFields /\ r.phase = "deferred" /\ ~r.hard /\ r.signal \in 0 .. era
   BY <1>2 DEF Fence!Send, FenceInv, WellFenced
 <2>2. CASE Fence!Aborted(r.signal)
   BY <2>1, <1>2, <2>2, OneRequest DEF WellFenced, RequestFields, Fence!Send
 <2>3. CASE ~Fence!Aborted(r.signal)
   BY <1>0, <2>1, <2>3, <1>2, OneRequest DEF Fence!Aborted, Fence!NoSignal, WellFenced, RequestFields, Fence!Send
 <2>4. QED BY <2>2, <2>3
<1>3. ASSUME NEW q \in Client, NEW how \in {"answered", "failed"}, Fence!Answer(q, how) PROVE FenceInv'
  BY <1>3, OneRequest DEF Fence!Answer, FenceInv, WellFenced, RequestFields
<1>4. ASSUME NEW q \in Client, Fence!Await(q) PROVE FenceInv'
  BY <1>4, OneRequest DEF FenceInv, WellFenced, RequestFields, Fence!Await
<1>5. ASSUME NEW q \in Client, Fence!Settle(q) PROVE FenceInv'
  BY <1>5, OneRequest DEF FenceInv, WellFenced, RequestFields, Fence!Settle
<1>6. ASSUME NEW q \in Client, Fence!StartUncapped(q) PROVE FenceInv'
  BY <1>6, OneRequest DEF Fence!StartUncapped, FenceInv, WellFenced, RequestFields
<1>7. ASSUME NEW q \in Client, NEW allowed \in BOOLEAN, NEW hard \in BOOLEAN, NEW reserved \in BOOLEAN,
             NEW built \in BOOLEAN, NEW signal \in BOOLEAN, Fence!Checked(q, allowed, hard, reserved, built, signal)
      PROVE  FenceInv'
 <2> DEFINE r == [request[q] EXCEPT !.hard = hard,
                    !.reservation = IF ~reserved THEN "none" ELSE IF built THEN "zero" ELSE "held"]
 <2>1. DOMAIN r = RequestFields /\ r.hard = hard
   BY DEF FenceInv, WellFenced, RequestFields
 <2>2. CASE ~allowed \/ hard \/ blocked
   BY <2>1, <1>7, <2>2, OneRequest DEF WellFenced, RequestFields, Fence!Checked
 <2>3. CASE ~(~allowed \/ hard \/ blocked)
   BY <2>1, <2>3, <1>0, InvokedWell, <1>7, OneRequest DEF Fence!Checked, r
 <2>4. QED BY <2>2, <2>3
<1>8. CASE Fence!Refuse
 <2>1. DOMAIN request' = Client /\ era' = era /\ blocked' = TRUE /\ ~blocked
   BY <1>8 DEF Fence!Refuse
 <2>2. ASSUME NEW q \in Client PROVE WellFenced(request'[q], era, TRUE)
  <3>1. WellFenced(request[q], era, blocked)  BY DEF FenceInv
  <3>2. CASE request[q].phase = "sent" /\ request[q].signal = era
    BY <1>8, <3>2, <3>1 DEF Fence!Refuse, WellFenced, RequestFields
  <3>3. CASE ~(request[q].phase = "sent" /\ request[q].signal = era)
    BY <1>8, <3>3, <3>1 DEF Fence!Refuse, WellFenced
  <3>4. QED BY <3>2, <3>3
 <2>3. QED BY <1>0, <2>1, <2>2 DEF FenceInv
<1>9. CASE Fence!Lift
 <2>1. DOMAIN request' = Client /\ era' = era + 1 /\ blocked' = FALSE /\ request' = request
   BY <1>9 DEF Fence!Lift, FenceInv
 <2>2. ASSUME NEW q \in Client PROVE WellFenced(request[q], era + 1, FALSE)
   BY <1>9, <1>0 DEF FenceInv, Fence!Lift, WellFenced
 <2>3. era' \in Nat \ {0}  BY <1>0, <2>1
 <2>6. blocked' \in BOOLEAN  BY <2>1, Zenon
 <2>4. \A q \in Client : WellFenced(request'[q], era', blocked')
   BY <2>1, <2>2
 <2>5. QED BY <2>1, <2>3, <2>4, <2>6 DEF FenceInv
<1>10. CASE UNCHANGED Fence!vars
  BY <1>10 DEF Fence!vars, FenceInv
<1>11. QED BY <1>1, <1>2, <1>3, <1>4, <1>5, <1>6, <1>7, <1>8, <1>9, <1>10 DEF Fence!Next

(* However refusals come and go while requests wait: a request under way with the refusal's signal *)
(* left under no refusal and saw none since, and an operation without a cap was checked first. *)
THEOREM FenceHolds == Fence!Spec => []FenceInv
<1>1. Fence!Init => FenceInv  BY FenceInit
<1>2. FenceInv /\ [Fence!Next]_(Fence!vars) => FenceInv'
  BY FenceStep
<1>3. QED BY <1>1, <1>2, PTL DEF Fence!Spec
-----------------------------------------------------------------------------
(* Where a fenced call may lead while a refusal stands. *)
LEMMA InvokedRefused ==
  ASSUME blocked = TRUE, NEW r, DOMAIN r = RequestFields, NEW returns, NEW signal
  PROVE  /\ Fence!Invoked(r, returns, signal).phase = "refused"
         /\ Fence!Invoked(r, returns, signal).reader = r.reader
  BY DEF Fence!Invoked, RequestFields

(* The step of the acting request, while a refusal stands. *)
LEMMA ActsRefused ==
  ASSUME FenceInv, blocked = TRUE, NEW q \in Client, NEW s, Fence!Becomes(q, s),
         request[q].phase \in {"new", "checking"} => s.phase # "deferred",
         s.reader = request[q].reader \/ s.reader # "error",
         NEW p \in Client
  PROVE  /\ request[p].phase \in {"new", "checking"} => request'[p].phase # "deferred"
         /\ request[p].reader # request'[p].reader => request'[p].reader # "error"
<1>1. request'[p] = IF p = q THEN s ELSE request[p]
  BY DEF FenceInv, Fence!Becomes
<1>2. CASE p = q
  BY <1>1, <1>2
<1>3. CASE p # q
  BY <1>1, <1>3
<1>4. QED BY <1>2, <1>3

LEMMA WhileRefused ==
  ASSUME FenceInv, Fence!Next, blocked = TRUE, blocked' = TRUE, NEW p \in Client
  PROVE  /\ request[p].phase \in {"new", "checking"} => request'[p].phase # "deferred"
         /\ request[p].reader # request'[p].reader => request'[p].reader # "error"
<1> DEFINE Goal == /\ request[p].phase \in {"new", "checking"} => request'[p].phase # "deferred"
                   /\ request[p].reader # request'[p].reader => request'[p].reader # "error"
<1>0. \A q \in Client : DOMAIN request[q] = RequestFields
  BY DEF FenceInv, WellFenced
<1>1. ASSUME NEW q \in Client, NEW via \in Client, NEW returns \in Fence!Returns, NEW signal \in BOOLEAN,
             Fence!CallFenced(q, via, returns, signal)
      PROVE  Goal
  BY <1>0, InvokedRefused, <1>1, ActsRefused DEF Fence!CallFenced
<1>2. ASSUME NEW q \in Client, Fence!Send(q) PROVE Goal
  BY <1>0, <1>2, ActsRefused DEF RequestFields, Fence!Send
<1>3. ASSUME NEW q \in Client, NEW how \in {"answered", "failed"}, Fence!Answer(q, how) PROVE Goal
  BY <1>0, <1>3, ActsRefused DEF RequestFields, Fence!Answer
<1>4. ASSUME NEW q \in Client, Fence!Await(q) PROVE Goal
  BY <1>0, <1>4, ActsRefused DEF Fence!Await, RequestFields
<1>5. ASSUME NEW q \in Client, Fence!Settle(q) PROVE Goal
  BY <1>0, <1>5, ActsRefused DEF Fence!Settle, RequestFields, Fence!Mapped
<1>6. ASSUME NEW q \in Client, Fence!StartUncapped(q) PROVE Goal
  BY <1>0, <1>6, ActsRefused DEF RequestFields, Fence!StartUncapped
<1>7. ASSUME NEW q \in Client, NEW allowed \in BOOLEAN, NEW hard \in BOOLEAN, NEW reserved \in BOOLEAN,
             NEW built \in BOOLEAN, NEW signal \in BOOLEAN, Fence!Checked(q, allowed, hard, reserved, built, signal)
      PROVE  Goal
  BY <1>0, <1>7, ActsRefused DEF RequestFields, Fence!Checked
<1>8. CASE Fence!Refuse
  BY <1>8 DEF Fence!Refuse
<1>9. CASE Fence!Lift
  BY <1>9 DEF Fence!Lift
<1>10. QED BY <1>1, <1>2, <1>3, <1>4, <1>5, <1>6, <1>7, <1>8, <1>9 DEF Fence!Next

(* While a refusal stands the fence starts no request, none that carries the signal is sent or *)
(* stays under way, and what is awaited gives the refusal; an operation without a cap is never *)
(* called under hard_deny (src/refusal-fence.ts). However many requests are deferred, and however *)
(* often a refusal is stored and lifted while they wait. *)
THEOREM RefusalsStop == Fence!Spec => Fence!RefusalsStopSpend
<1>1. FenceInv /\ FenceInv' /\ [Fence!Next]_(Fence!vars) =>
        [\A q \in Client :
           LET r == request'[q] IN
           /\ blocked' /\ r.phase = "sent" => r.signal = Fence!NoSignal
           /\ r.hard => r.phase = "refused"
           /\ blocked /\ blocked' =>
                /\ request[q].phase \in {"new", "checking"} => r.phase # "deferred"
                /\ request[q].reader # r.reader => r.reader # "error"]_(Fence!vars)
  BY WhileRefused DEF FenceInv, WellFenced, Fence!NoSignal
<1>2. QED BY <1>1, FenceHolds, PTL DEF Fence!Spec, Fence!RefusalsStopSpend
-----------------------------------------------------------------------------
(* The middleware. *)

CallFields == {"phase", "kind", "fund", "hard", "handle", "settled", "finish", "errorPart",
           "events", "ends", "billed", "measured"}

Typed(k) ==
  /\ DOMAIN k = CallFields
  /\ k.fund \in Middleware!Fundings /\ k.hard \in BOOLEAN /\ k.billed \in BOOLEAN /\ k.measured \in BOOLEAN
  /\ k.settled \in BOOLEAN /\ k.handle \in BOOLEAN /\ k.finish \in BOOLEAN

(* Nothing was reported and no funding ended yet. *)
Fresh(k) == k.events = <<>> /\ k.ends = <<>>

AtMostOne(s) == s = <<>> \/ \E x : s = <<x>>

(* One event and one end at most, a lease claim ended, and what may be billed kept. *)
Ended(k) ==
  /\ AtMostOne(k.events) /\ AtMostOne(k.ends)
  /\ k.fund = "lease" => k.ends # <<>>
  /\ k.hard /\ k.billed => k.ends # <<"released">> /\ (k.ends = <<"settled">> => k.measured)

(* What an end leaves of the rest of the call. *)
Same(k, r) ==
  /\ DOMAIN r = CallFields
  /\ \A f \in CallFields \ {"events", "ends"} : r[f] = k[f]

LEMMA Ending ==
  ASSUME NEW k, Typed(k), Fresh(k), NEW how
  PROVE  Typed(Middleware!End(k, how)) /\ Same(k, Middleware!End(k, how)) /\ Middleware!End(k, how).ends = <<how>> /\ Middleware!End(k, how).events = <<>>
<1>1. Append(<<>>, how) = <<how>>  OBVIOUS
<1>2. DOMAIN k = CallFields  BY DEF Typed
<1>3. Middleware!End(k, how).ends = <<how>> /\ Middleware!End(k, how).events = <<>>
  BY <1>1, <1>2 DEF Middleware!End, Fresh, CallFields
<1>4. Same(k, Middleware!End(k, how))  BY <1>2 DEF Same, Middleware!End, CallFields
<1>5. Typed(Middleware!End(k, how))  BY <1>2, <1>4 DEF Same, Typed, CallFields
<1>6. QED BY <1>3, <1>4, <1>5

LEMMA Reporting ==
  ASSUME NEW k, Typed(k), Fresh(k), NEW status
  PROVE  /\ Typed(Middleware!Report(k, status)) /\ Same(k, Middleware!Report(k, status))
         /\ Middleware!Report(k, status).events = <<status>> /\ Middleware!Report(k, status).ends = <<>>
<1>1. Append(<<>>, status) = <<status>>  OBVIOUS
<1>2. DOMAIN k = CallFields  BY DEF Typed
<1>3. Middleware!Report(k, status).events = <<status>> /\ Middleware!Report(k, status).ends = <<>>
  BY <1>1, <1>2 DEF Middleware!Report, Fresh, CallFields
<1>4. Same(k, Middleware!Report(k, status))  BY <1>2 DEF Same, Middleware!Report, CallFields
<1>5. Typed(Middleware!Report(k, status))  BY <1>2, <1>4 DEF Same, Typed, CallFields
<1>6. QED BY <1>3, <1>4, <1>5

(* A call without a lease may be reported and nothing else. *)
LEMMA ReportedEnds ==
  ASSUME NEW k, Typed(k), Fresh(k), NEW status, k.fund # "lease"
  PROVE  Same(k, Middleware!Report(k, status)) /\ Ended(Middleware!Report(k, status))
<1> DEFINE r == Middleware!Report(k, status)
<1>1. Same(k, r) /\ r.events = <<status>> /\ r.ends = <<>>
  BY Reporting
<1> HIDE DEF r
<1>2. r.fund = k.fund  BY <1>1 DEF Same, CallFields
<1>3. <<>> # <<"released">> /\ <<>> # <<"settled">>
  OBVIOUS
<1>4. Ended(r)  BY <1>1, <1>2, <1>3 DEF Ended, AtMostOne
<1>5. QED BY <1>1, <1>4 DEF r

(* Or its funding ends, after the report or without one. *)
LEMMA OneEnds ==
  ASSUME NEW k, DOMAIN k = CallFields, AtMostOne(k.events), NEW how, k.ends = <<how>>,
         k.hard /\ k.billed => how # "released" /\ (how = "settled" => k.measured)
  PROVE  Ended(k)
<1>1. \A x : <<how>> = <<x>> => how = x
  OBVIOUS
<1>2. <<how>> # <<>>  OBVIOUS
<1>3. QED BY <1>1, <1>2 DEF Ended, AtMostOne

LEMMA FundingEnds ==
  ASSUME NEW k, Typed(k), Fresh(k), NEW how,
         k.hard /\ k.billed => how # "released" /\ (how = "settled" => k.measured)
  PROVE  Same(k, Middleware!End(k, how)) /\ Ended(Middleware!End(k, how))
<1> DEFINE r == Middleware!End(k, how)
<1>1. Same(k, r) /\ r.ends = <<how>> /\ r.events = <<>>
  BY Ending
<1> HIDE DEF r
<1>2. r.hard = k.hard /\ r.billed = k.billed /\ r.measured = k.measured /\ DOMAIN r = CallFields
  BY <1>1 DEF Same, CallFields
<1>3. Ended(r)  BY <1>1, <1>2, OneEnds DEF AtMostOne
<1>4. QED BY <1>1, <1>3 DEF r

LEMMA BothEnd ==
  ASSUME NEW k, Typed(k), Fresh(k), NEW status, NEW how,
         k.hard /\ k.billed => how # "released" /\ (how = "settled" => k.measured)
  PROVE  Same(k, Middleware!End(Middleware!Report(k, status), how)) /\ Ended(Middleware!End(Middleware!Report(k, status), how))
<1> DEFINE r == Middleware!Report(k, status)
           s == Middleware!End(r, how)
<1>1. Typed(r) /\ Same(k, r) /\ r.events = <<status>> /\ r.ends = <<>>
  BY Reporting
<1> HIDE DEF r
<1>2. Append(<<>>, how) = <<how>>  OBVIOUS
<1>3. Same(r, s) /\ s.ends = <<how>> /\ s.events = <<status>>
  BY <1>1, <1>2 DEF Middleware!End, Same, Typed, CallFields
<1> HIDE DEF s
<1>4. Same(k, s)  BY <1>1, <1>3 DEF Same
<1>5. s.hard = k.hard /\ s.billed = k.billed /\ s.measured = k.measured /\ DOMAIN s = CallFields
  BY <1>4 DEF Same, CallFields
<1>6. Ended(s)  BY <1>3, <1>5, OneEnds DEF AtMostOne
<1>7. QED BY <1>4, <1>6 DEF r, s

(* settleBufferedSuccess and reportErrorAndRelease end a call once. *)
LEMMA SuccessEnds ==
  ASSUME NEW k, Typed(k), Fresh(k), NEW usageKnown \in BOOLEAN, NEW built \in BOOLEAN,
         usageKnown => k.measured
  PROVE  Same(k, Middleware!SettleSuccess(k, usageKnown, built)) /\ Ended(Middleware!SettleSuccess(k, usageKnown, built))
<1> DEFINE r == Middleware!Report(k, "success")
           s == Middleware!SettleSuccess(k, usageKnown, built)
<1>1. Same(k, r)  BY Reporting
<1>2. r.fund = k.fund  BY <1>1 DEF Same, CallFields
<1>3. (Middleware!End(r, "settled")).fund = k.fund
  BY <1>1, <1>2 DEF Same, Middleware!End, CallFields
<1>4. \/ s = r /\ k.fund # "lease"
      \/ s = Middleware!End(r, "settled") /\ ~(k.hard /\ ~usageKnown)
      \/ s = Middleware!End(r, "floor")
  BY <1>2, <1>3 DEF Middleware!SettleSuccess, Middleware!EndFunding, Middleware!Release, r, Middleware!SettlePaid, Typed, Middleware!Fundings
<1>5. CASE s = r /\ k.fund # "lease"
  BY <1>5, ReportedEnds
<1>6. CASE s = Middleware!End(r, "settled") /\ ~(k.hard /\ ~usageKnown)
  BY <1>6, BothEnd DEF Typed
<1>7. CASE s = Middleware!End(r, "floor")
  BY <1>7, BothEnd
<1>8. QED BY <1>4, <1>5, <1>6, <1>7

LEMMA ErrorEnds ==
  ASSUME NEW k, Typed(k), Fresh(k), NEW maybeBilled \in BOOLEAN, k.billed => maybeBilled
  PROVE  Same(k, Middleware!SettleError(k, maybeBilled)) /\ Ended(Middleware!SettleError(k, maybeBilled))
<1> DEFINE r == Middleware!Report(k, "error")
           s == Middleware!SettleError(k, maybeBilled)
<1>1. Same(k, r)  BY Reporting
<1>2. r.fund = k.fund  BY <1>1 DEF Same, CallFields
<1>3. \/ s = r /\ k.fund # "lease"
      \/ s = Middleware!End(r, "released") /\ ~(k.hard /\ maybeBilled)
      \/ s = Middleware!End(r, "floor")
  BY <1>2 DEF Middleware!SettleError, Middleware!EndFunding, Middleware!Release, r
<1>4. CASE s = r /\ k.fund # "lease"
  BY <1>4, ReportedEnds
<1>5. CASE s = Middleware!End(r, "released") /\ ~(k.hard /\ maybeBilled)
  BY <1>5, BothEnd
<1>6. CASE s = Middleware!End(r, "floor")
  BY <1>6, BothEnd
<1>7. QED BY <1>3, <1>4, <1>5, <1>6

-----------------------------------------------------------------------------
Early == {"new", "checking", "admitted", "dispatched"}

(* A call that has not ended is fresh, also while its stream is open; what has no funding yet, *)
(* and what has ended, holds no termination handle. *)
CallOK(k) ==
  /\ Typed(k)
  /\ k.phase \in Early \union {"streaming", "over"}
  /\ k.phase \in {"new", "checking"} => k.fund = "none" /\ ~k.handle
  /\ k.phase \in Early => Fresh(k) /\ ~k.billed /\ ~k.settled
  /\ k.phase = "streaming" => k.billed /\ (~k.settled => Fresh(k))
  /\ k.phase = "over" \/ k.settled => ~k.handle /\ Ended(k)
  /\ k.finish => k.measured

Open == {c \in Client : call[c].phase = "streaming" /\ ~call[c].settled}

MiddlewareInv ==
  /\ DOMAIN call = Client
  /\ \A c \in Client : CallOK(call[c])
  /\ settlements = Open

(* What a call becomes when it leaves the middleware. *)
LEMMA LeavesWell ==
  ASSUME NEW k, Typed(k), Ended(k), k.finish => k.measured
  PROVE  CallOK(Middleware!Over(k)) /\ Middleware!Over(k).phase = "over"
<1>1. DOMAIN k = CallFields  BY DEF Typed
<1>2. \A f \in CallFields \ {"phase", "handle"} : Middleware!Over(k)[f] = k[f]
  BY <1>1 DEF Middleware!Over, CallFields
<1>3. Middleware!Over(k).phase = "over" /\ Middleware!Over(k).handle = FALSE /\ DOMAIN Middleware!Over(k) = CallFields
  BY <1>1 DEF Middleware!Over, CallFields
<1>4. Typed(Middleware!Over(k))  BY <1>2, <1>3 DEF Typed, CallFields
<1>5. Ended(Middleware!Over(k))  BY <1>2 DEF Ended, CallFields
<1>6. Middleware!Over(k).finish => Middleware!Over(k).measured  BY <1>2 DEF CallFields
<1>7. QED BY <1>3, <1>4, <1>5, <1>6 DEF CallOK, Early

LEMMA SameTyped ==
  ASSUME NEW k, Typed(k), NEW r, Same(k, r), k.finish => k.measured
  PROVE  Typed(r) /\ (r.finish => r.measured)
  BY DEF Same, Typed, CallFields

(* A stream is settled once, and settled it is over for the middleware. *)
LEMMA StreamEnds ==
  ASSUME NEW k, CallOK(k), k.phase = "streaming", NEW outcome, NEW broken \in BOOLEAN
  PROVE  LET r == Middleware!SettleStream(k, outcome, broken)
         IN  CallOK(r) /\ r.phase = "streaming" /\ r.settled
<1> DEFINE r == Middleware!SettleStream(k, outcome, broken)
           done == [k EXCEPT !.settled = TRUE, !.handle = FALSE]
<1>1. CASE k.settled
  BY <1>1 DEF Middleware!SettleStream
<1>2. CASE ~k.settled
 <2>1. /\ Typed(done) /\ Fresh(done) /\ done.phase = "streaming" /\ done.settled
       /\ done.handle = FALSE /\ done.finish = k.finish /\ done.billed = k.billed
       /\ (done.finish => done.measured)
   BY <1>2 DEF CallOK, Typed, Fresh, CallFields
 <2>2. r = Middleware!SettleError(done, TRUE) \/ r = Middleware!SettleSuccess(done, k.finish, TRUE)
   BY <1>2 DEF Middleware!SettleStream
 <2>3. k.finish \in BOOLEAN  BY DEF CallOK, Typed
 <2> HIDE DEF done, r
 <2>4. Same(done, r) /\ Ended(r)
   BY <2>1, ErrorEnds, <2>3, SuccessEnds, <2>2
 <2>5. Typed(r) /\ (r.finish => r.measured)
   BY <2>1, <2>4, SameTyped
 <2>6. r.phase = "streaming" /\ r.settled /\ r.handle = FALSE /\ r.billed = k.billed
   BY <2>1, <2>4 DEF Same, CallFields
 <2>7. CallOK(r)  BY <2>4, <2>5, <2>6 DEF CallOK, Early
 <2>8. QED BY <2>6, <2>7 DEF r
<1>3. QED BY <1>1, <1>2

(* A step of one call. *)
LEMMA OneCall ==
  ASSUME MiddlewareInv, NEW c \in Client, NEW k, CallOK(k), call' = [call EXCEPT ![c] = k],
         settlements' = IF k.phase = "streaming" /\ ~k.settled THEN settlements \union {c}
                        ELSE settlements \ {c}
  PROVE  MiddlewareInv'
<1>1. DOMAIN call' = Client /\ (\A d \in Client : call'[d] = IF d = c THEN k ELSE call[d])
  BY DEF MiddlewareInv
<1>2. \A d \in Client : CallOK(call'[d])
  BY <1>1 DEF MiddlewareInv
<1>3. Open' = {d \in Client : call'[d].phase = "streaming" /\ ~call'[d].settled}
  BY DEF Open
<1>4. \A d \in Client : d \in Open' <=> d \in settlements'
 <2> TAKE d \in Client
 <2>1. d \in settlements <=> call[d].phase = "streaming" /\ ~call[d].settled
   BY DEF MiddlewareInv, Open
 <2>2. CASE d = c
   BY <1>1, <1>3, <2>2
 <2>3. CASE d # c
   BY <1>1, <1>3, <2>1, <2>3
 <2>4. QED BY <2>2, <2>3
<1>5. settlements' = Open'
  BY <1>3, <1>4 DEF MiddlewareInv, Open
<1>6. QED BY <1>1, <1>2, <1>5 DEF MiddlewareInv

LEMMA OneLeaves ==
  ASSUME MiddlewareInv, NEW c \in Client, call[c].phase \in Early, NEW k,
         Typed(k), Ended(k), k.finish => k.measured, Middleware!Leaves(c, k), UNCHANGED settlements
  PROVE  MiddlewareInv'
<1>1. CallOK(Middleware!Over(k)) /\ Middleware!Over(k).phase = "over"
  BY LeavesWell
<1>2. c \notin settlements  BY DEF MiddlewareInv, Open, Early
<1>3. settlements' = settlements \ {c} /\ call' = [call EXCEPT ![c] = Middleware!Over(k)]
  BY <1>2 DEF Middleware!Leaves
<1>4. QED BY <1>1, <1>3, OneCall

(* A call that is given back, or reported and given back, before it is sent. *)
LEMMA GivenBack ==
  ASSUME NEW k, Typed(k), Fresh(k), ~k.billed
  PROVE  /\ Same(k, Middleware!Release(k)) /\ Ended(Middleware!Release(k))
         /\ \A status : Same(k, Middleware!Release(Middleware!Report(k, status))) /\ Ended(Middleware!Release(Middleware!Report(k, status)))
<1>1. CASE k.fund = "lease"
 <2>1. Middleware!Release(k) = Middleware!End(k, "released")  BY <1>1 DEF Middleware!Release
 <2>2. \A status : Middleware!Release(Middleware!Report(k, status)) = Middleware!End(Middleware!Report(k, status), "released")
  <3> TAKE status
  <3>1. Middleware!Report(k, status).fund = "lease"  BY <1>1, Reporting DEF Same, CallFields
  <3>2. QED BY <3>1 DEF Middleware!Release
 <2>3. QED BY <2>1, <2>2, FundingEnds, BothEnd
<1>2. CASE k.fund # "lease"
 <2>1. Middleware!Release(k) = k  BY <1>2 DEF Middleware!Release
 <2>2. \A status : Middleware!Release(Middleware!Report(k, status)) = Middleware!Report(k, status)
  <3> TAKE status
  <3>1. Middleware!Report(k, status).fund # "lease"  BY <1>2, Reporting DEF Same, CallFields
  <3>2. QED BY <3>1 DEF Middleware!Release
 <2>3. Same(k, k)  BY DEF Same, Typed
 <2>4. Ended(k)
   BY <1>2 DEF Ended, AtMostOne, Fresh
 <2>5. QED BY <1>2, <2>1, <2>2, <2>3, <2>4, ReportedEnds
<1>3. QED BY <1>1, <1>2

LEMMA ObservedWell ==
  ASSUME NEW k, CallOK(k), k.phase = "streaming", NEW piece \in Middleware!Parts
  PROVE  CallOK(Middleware!Observed(k, piece)) /\ Middleware!Observed(k, piece).phase = "streaming"
         /\ Middleware!Observed(k, piece).settled = k.settled
<1>1. CASE k.settled
  BY <1>1 DEF Middleware!Observed
<1>2. CASE ~k.settled /\ piece = "finish"
  BY <1>2 DEF CallOK, Typed, Fresh, CallFields, Middleware!Observed, Early
<1>3. CASE ~k.settled /\ piece = "error"
  BY <1>3 DEF CallOK, Typed, Fresh, CallFields, Middleware!Observed, Early
<1>4. CASE ~k.settled /\ piece = "delta"
  BY <1>4 DEF Middleware!Observed
<1>5. QED BY <1>1, <1>2, <1>3, <1>4 DEF Middleware!Parts

LEMMA OneStreams ==
  ASSUME MiddlewareInv, NEW c \in Client, NEW k, CallOK(k), k.phase = "streaming",
         call[c].settled => k.settled, Middleware!Streams(c, k)
  PROVE  MiddlewareInv'
<1>1. k.settled \in BOOLEAN  BY DEF CallOK, Typed
<1>2. ~k.settled => c \in settlements  BY DEF Middleware!Streams, MiddlewareInv, Open
<1>3. settlements' = IF k.phase = "streaming" /\ ~k.settled THEN settlements \union {c}
                     ELSE settlements \ {c}
  BY <1>1, <1>2 DEF Middleware!Streams
<1>4. QED BY <1>3, OneCall DEF Middleware!Streams

LEMMA MiddlewareStep == MiddlewareInv /\ [Middleware!Next]_(Middleware!vars) => MiddlewareInv'
<1> SUFFICES ASSUME MiddlewareInv, [Middleware!Next]_(Middleware!vars) PROVE MiddlewareInv'
  OBVIOUS
<1>0. \A c \in Client : CallOK(call[c]) /\ (call[c].phase \in Early => c \notin settlements)
  BY DEF MiddlewareInv, Open, Early
<1>1. ASSUME NEW c \in Client, NEW kind \in Middleware!Kinds, Middleware!Start(c, kind) PROVE MiddlewareInv'
 <2> DEFINE k == call[c]
            r == [k EXCEPT !.phase = "checking", !.kind = kind]
 <2>1. /\ Typed(k) /\ Fresh(k) /\ k.fund = "none" /\ ~k.handle /\ ~k.billed /\ ~k.settled
       /\ (k.finish => k.measured) /\ c \notin settlements
   BY <1>0, <1>1 DEF Middleware!Start, CallOK, Early
 <2>2. CASE c \in aborted
   BY <2>1, GivenBack, LeavesWell, <1>1, <2>2, OneCall DEF Middleware!Release, Middleware!Start
 <2>3. CASE c \notin aborted
  <3>1. /\ Typed(r) /\ Fresh(r) /\ r.fund = "none" /\ ~r.handle /\ ~r.billed /\ ~r.settled
        /\ (r.finish => r.measured) /\ r.phase = "checking"
    BY <2>1 DEF Typed, Fresh, CallFields
  <3>2. call' = [call EXCEPT ![c] = r] /\ settlements' = settlements \ {c}
    BY <1>1, <2>1, <2>3 DEF Middleware!Start
  <3> HIDE DEF r
  <3>3. CallOK(r)  BY <3>1 DEF CallOK, Early
  <3>4. QED BY <3>1, <3>2, <3>3, OneCall
 <2>4. QED BY <2>2, <2>3
<1>2. ASSUME NEW c \in Client, Middleware!CheckDenies(c) \/ Middleware!CheckThrows(c) PROVE MiddlewareInv'
 <2> DEFINE k == call[c]
 <2>1. Typed(k) /\ Fresh(k) /\ k.fund = "none" /\ (k.finish => k.measured) /\ k.phase \in Early
   BY <1>0, <1>2 DEF Middleware!CheckDenies, Middleware!CheckThrows, CallOK, Early
 <2>2. Ended(k)  BY <2>1 DEF Ended, AtMostOne, Fresh
 <2> HIDE DEF k
 <2>3. CASE Middleware!CheckThrows(c)
   BY <2>1, <2>2, <2>3, OneLeaves DEF Middleware!CheckThrows, k
 <2>4. CASE Middleware!CheckDenies(c)
   BY <1>0, <2>4, ReportedEnds, SameTyped, OneLeaves DEF Middleware!CheckDenies, CallOK, Early
 <2>5. QED BY <1>2, <2>3, <2>4
<1>3. ASSUME NEW c \in Client, NEW fund \in Middleware!Fundings, NEW hard \in BOOLEAN, Middleware!CheckAllows(c, fund, hard)
      PROVE  MiddlewareInv'
 <2> DEFINE k == call[c]
            r == [k EXCEPT !.phase = "admitted", !.fund = fund, !.hard = hard,
                           !.handle = k.kind = "stream"]
 <2>1. /\ Typed(k) /\ Fresh(k) /\ ~k.billed /\ ~k.settled /\ (k.finish => k.measured)
       /\ c \notin settlements
   BY <1>0, <1>3 DEF Middleware!CheckAllows, CallOK, Early
 <2>2. /\ DOMAIN r = CallFields /\ r.phase = "admitted" /\ r.fund = fund /\ r.hard = hard
       /\ r.events = k.events /\ r.ends = k.ends /\ r.billed = k.billed /\ r.measured = k.measured
       /\ r.settled = k.settled /\ r.finish = k.finish /\ r.handle = (k.kind = "stream")
   BY <2>1 DEF Typed, CallFields
 <2>3. call' = [call EXCEPT ![c] = r] /\ settlements' = settlements \ {c}
   BY <1>3, <2>1 DEF Middleware!CheckAllows
 <2> HIDE DEF r
 <2>4. r.handle \in BOOLEAN  BY <2>2
 <2>5. CallOK(r)  BY <2>1, <2>2, <2>4 DEF CallOK, Typed, Fresh, Early
 <2>6. QED BY <2>2, <2>3, <2>5, OneCall
<1>4. ASSUME NEW c \in Client, NEW fund \in Middleware!Fundings, NEW built \in BOOLEAN,
             Middleware!RefuseBound(c, fund, built)
      PROVE  MiddlewareInv'
 <2> DEFINE k == [call[c] EXCEPT !.fund = fund, !.hard = TRUE]
            r == IF fund = "reservation" /\ built THEN Middleware!End(k, "zero") ELSE Middleware!Release(k)
 <2>1. /\ Typed(k) /\ Fresh(k) /\ ~k.billed /\ (k.finish => k.measured)
   BY <1>0, <1>4 DEF Middleware!RefuseBound, CallOK, Early, Typed, Fresh, CallFields
 <2>2. Middleware!Leaves(c, r) /\ UNCHANGED settlements /\ call[c].phase \in Early
   BY <1>4 DEF Middleware!RefuseBound, Early
 <2> HIDE DEF k
 <2>3. Same(k, r) /\ Ended(r)
   BY <2>1, FundingEnds, GivenBack
 <2> HIDE DEF r
 <2>4. Typed(r) /\ (r.finish => r.measured)
   BY <2>1, <2>3, SameTyped
 <2>5. QED BY <2>2, <2>3, <2>4, OneLeaves
<1>5. ASSUME NEW c \in Client, Middleware!Dispatch(c) PROVE MiddlewareInv'
 <2> DEFINE k == call[c]
 <2>1. /\ Typed(k) /\ Fresh(k) /\ ~k.billed /\ ~k.settled /\ (k.finish => k.measured)
       /\ k.phase \in Early /\ c \notin settlements
   BY <1>0, <1>5 DEF Middleware!Dispatch, CallOK, Early
 <2>2. ASSUME NEW r, r = Middleware!Release(k) \/ r = Middleware!Release(Middleware!Report(k, "budget_denied")), Middleware!Leaves(c, r)
       PROVE  MiddlewareInv'
   BY <2>1, <2>2, GivenBack, SameTyped, <1>5, OneLeaves DEF Middleware!Dispatch
 <2>3. CASE call' = [call EXCEPT ![c].phase = "dispatched"]
   BY <2>1, <1>5, <2>3, OneCall DEF Typed, Fresh, CallFields, Middleware!Dispatch, CallOK, Early
 <2>4. QED BY <1>5, <2>2, <2>3 DEF Middleware!Dispatch
<1>6. ASSUME NEW c \in Client, NEW built \in BOOLEAN, NEW broken \in BOOLEAN, Middleware!Generated(c, built, broken)
      PROVE  MiddlewareInv'
 <2> DEFINE k == [call[c] EXCEPT !.billed = TRUE, !.measured = TRUE]
            r == IF broken THEN Middleware!SettleError(k, TRUE) ELSE Middleware!SettleSuccess(k, TRUE, built)
 <2>1. Typed(k) /\ Fresh(k) /\ k.measured /\ (k.finish => k.measured) /\ call[c].phase \in Early
   BY <1>0, <1>6 DEF Middleware!Generated, CallOK, Early, Typed, Fresh, CallFields
 <2>2. Middleware!Leaves(c, r) /\ UNCHANGED settlements
   BY <1>6 DEF Middleware!Generated
 <2> HIDE DEF k
 <2>3. Same(k, r) /\ Ended(r)
   BY <2>1, SuccessEnds, ErrorEnds
 <2> HIDE DEF r
 <2>4. Typed(r) /\ (r.finish => r.measured)
   BY <2>1, <2>3, SameTyped
 <2>5. QED BY <2>1, <2>2, <2>3, <2>4, OneLeaves
<1>7. ASSUME NEW c \in Client, NEW maybeBilled \in BOOLEAN, Middleware!DispatchFails(c, maybeBilled)
      PROVE  MiddlewareInv'
 <2> DEFINE k == [call[c] EXCEPT !.billed = maybeBilled]
            r == Middleware!SettleError(k, maybeBilled)
 <2>1. /\ Typed(k) /\ Fresh(k) /\ k.billed = maybeBilled /\ (k.finish => k.measured)
       /\ call[c].phase \in Early
   BY <1>0, <1>7 DEF Middleware!DispatchFails, CallOK, Early, Typed, Fresh, CallFields
 <2>2. Middleware!Leaves(c, r) /\ UNCHANGED settlements
   BY <1>7 DEF Middleware!DispatchFails
 <2> HIDE DEF k
 <2>3. Same(k, r) /\ Ended(r)
   BY <2>1, ErrorEnds
 <2> HIDE DEF r
 <2>4. Typed(r) /\ (r.finish => r.measured)
   BY <2>1, <2>3, SameTyped
 <2>5. QED BY <2>1, <2>2, <2>3, <2>4, OneLeaves
<1>8. ASSUME NEW c \in Client, Middleware!Established(c) PROVE MiddlewareInv'
  BY <1>0, <1>8, OneCall DEF Middleware!Established, CallOK, Early, Typed, Fresh, CallFields
<1>9. ASSUME NEW c \in Client, Middleware!SetupFails(c) PROVE MiddlewareInv'
 <2> DEFINE k == [[call[c] EXCEPT !.billed = TRUE] EXCEPT !.settled = TRUE, !.handle = FALSE]
            r == Middleware!SettleError(k, TRUE)
 <2>1. Typed(k) /\ Fresh(k) /\ (k.finish => k.measured) /\ call[c].phase \in Early
   BY <1>0, <1>9 DEF Middleware!SetupFails, CallOK, Early, Typed, Fresh, CallFields
 <2>2. Middleware!Leaves(c, r) /\ UNCHANGED settlements
   BY <1>9 DEF Middleware!SetupFails
 <2> HIDE DEF k
 <2>3. Same(k, r) /\ Ended(r)
   BY <2>1, ErrorEnds
 <2> HIDE DEF r
 <2>4. Typed(r) /\ (r.finish => r.measured)
   BY <2>1, <2>3, SameTyped
 <2>5. QED BY <2>1, <2>2, <2>3, <2>4, OneLeaves
<1>10. ASSUME NEW c \in Client, NEW outcome, NEW broken \in BOOLEAN,
              Middleware!Streams(c, Middleware!SettleStream(call[c], outcome, broken))
       PROVE  MiddlewareInv'
  BY <1>0, <1>10, StreamEnds, OneStreams DEF Middleware!Streams
<1>11. ASSUME NEW c \in Client, NEW piece \in Middleware!Parts, Middleware!Part(c, piece) PROVE MiddlewareInv'
 <2> DEFINE k == Middleware!Observed(call[c], piece)
            r == IF Middleware!Interrupted(c) \/ stopped THEN Middleware!SettleStream(k, "interrupted", FALSE) ELSE k
 <2>1. CallOK(k) /\ k.phase = "streaming" /\ k.settled = call[c].settled
   BY <1>0, <1>11, ObservedWell DEF Middleware!Part, Middleware!Streams
 <2>2. Middleware!Streams(c, r)  BY <1>11 DEF Middleware!Part
 <2> HIDE DEF k
 <2>3. CallOK(r) /\ r.phase = "streaming" /\ (call[c].settled => r.settled)
   BY <2>1, StreamEnds
 <2> HIDE DEF r
 <2>4. QED BY <2>2, <2>3, OneStreams
<1>12. ASSUME NEW c \in Client, NEW broken \in BOOLEAN, Middleware!SourceEnds(c, broken) PROVE MiddlewareInv'
  BY <1>10, <1>12 DEF Middleware!SourceEnds
<1>13. ASSUME NEW c \in Client, Middleware!ReadFails(c) PROVE MiddlewareInv'
  BY <1>10, <1>13 DEF Middleware!ReadFails
<1>14. ASSUME NEW c \in Client, Middleware!Cancel(c) PROVE MiddlewareInv'
  BY <1>10, <1>14 DEF Middleware!Cancel
<1>15. ASSUME NEW c \in Client, Middleware!Collected(c) PROVE MiddlewareInv'
  BY <1>10, <1>15 DEF Middleware!Collected
<1>16. CASE Middleware!CloseStreams
 <2>1. /\ DOMAIN call' = Client /\ settlements' = {}
       /\ \A c \in Client : call'[c] = IF c \in settlements THEN Middleware!SettleStream(call[c], "interrupted", FALSE)
                                      ELSE call[c]
   BY <1>16 DEF Middleware!CloseStreams
 <2>2. ASSUME NEW c \in Client
       PROVE  CallOK(call'[c]) /\ ~(call'[c].phase = "streaming" /\ ~call'[c].settled)
  <3>1. c \in settlements <=> call[c].phase = "streaming" /\ ~call[c].settled
    BY DEF MiddlewareInv, Open
  <3>2. CASE c \in settlements
    BY <1>0, <3>1, <3>2, <2>1, StreamEnds
  <3>3. CASE c \notin settlements
    BY <1>0, <2>1, <3>1, <3>3
  <3>4. QED BY <3>2, <3>3
 <2>3. Open' = {}  BY <2>2 DEF Open
 <2>4. QED BY <2>1, <2>2, <2>3 DEF MiddlewareInv
<1>17. CASE UNCHANGED <<call, settlements>>
  BY <1>17 DEF MiddlewareInv, Open
<1>18. QED BY <1>1, <1>2, <1>3, <1>4, <1>5, <1>6, <1>7, <1>8, <1>9, <1>11, <1>12, <1>13, <1>14, <1>15, <1>16,
<1>17 DEF Middleware!Next, Middleware!vars, Middleware!Abort, Middleware!Close, Middleware!RunStops, Middleware!KeyRefused

LEMMA MiddlewareInit == Middleware!Init => MiddlewareInv
<1> SUFFICES ASSUME Middleware!Init PROVE MiddlewareInv
  OBVIOUS
<1>1. DOMAIN call = Client /\ settlements = {} /\ \A c \in Client : call[c] = Middleware!NewCall
  BY DEF Middleware!Init
<1>2. CallOK(Middleware!NewCall) /\ Middleware!NewCall.phase = "new"
  BY DEF CallOK, Typed, Middleware!NewCall, CallFields, Middleware!Fundings, Early, Fresh
<1>3. QED BY <1>1, <1>2 DEF MiddlewareInv, Open

LEMMA MiddlewareHolds == Middleware!Spec => []MiddlewareInv
<1>1. Middleware!Init => MiddlewareInv  BY MiddlewareInit
<1>2. MiddlewareInv /\ [Middleware!Next]_(Middleware!vars) => MiddlewareInv'
  BY MiddlewareStep
<1>3. QED BY <1>1, <1>2, PTL DEF Middleware!Spec

LEMMA OneIsOne ==
  ASSUME NEW s, AtMostOne(s)
  PROVE  Len(s) <= 1 /\ (s # <<>> => Len(s) = 1) /\ \A i \in DOMAIN s : s = <<s[i]>>
<1> DEFINE Goal == Len(s) <= 1 /\ (s # <<>> => Len(s) = 1) /\ \A i \in DOMAIN s : s = <<s[i]>>
<1>1. ASSUME s = <<>> PROVE Goal
  BY <1>1
<1>2. ASSUME NEW x, s = <<x>> PROVE Goal
  BY <1>2
<1> HIDE DEF Goal
<1>3. Goal  BY <1>1, <1>2, Zenon DEF AtMostOne
<1>4. QED BY <1>3 DEF Goal

(* A call ends once: one event and one end of its funding, whichever of its stream's parts, its *)
(* cancel, an abort, a stop of the run, the close and the collector comes first; then its claim *)
(* is ended, its handle released and its stream out of the set that close settles *)
(* (src/ai-sdk/index.ts:821). *)
THEOREM EndsOnce == Middleware!Spec => []Middleware!MiddlewareEndsOnce
<1>1. MiddlewareInv => Middleware!MiddlewareEndsOnce
  BY OneIsOne DEF Middleware!MiddlewareEndsOnce, MiddlewareInv, Open, CallOK, Fresh, AtMostOne, Ended, Early
<1>2. QED BY <1>1, MiddlewareHolds, PTL

(* What a hard_deny call may have been billed for is never given back, and it is settled at what *)
(* was observed only if the provider reported its usage (src/ai-sdk/index.ts:712). *)
THEOREM KeepsBilled == Middleware!Spec => []Middleware!MiddlewareKeepsBilled
<1>1. MiddlewareInv => Middleware!MiddlewareKeepsBilled
  BY OneIsOne DEF Middleware!MiddlewareKeepsBilled, MiddlewareInv, CallOK, Fresh, AtMostOne, Ended, Early
<1>2. QED BY <1>1, MiddlewareHolds, PTL

-----------------------------------------------------------------------------
(* Shutdown *)

MemberFields == {"phase", "calls", "streams", "reporter", "work", "holder", "held"}
Sides == {"reporters", "holders"}

(* Who is not to be waited for before the leases: its reports are delivered, or nobody has any. *)
Reported(c) == member[c].reporter = "closed" \/ c \in gone.reporters

(* What a client is to the registry and to a drain.  A drain that waits for reporters waits for *)
(* that of every holder it took whose reports are still out; when it has come to the holders, *)
(* each it took is closing; a client that is not born is in none. *)
Orderly(c) ==
  /\ DOMAIN member[c] = MemberFields
  /\ member[c].reporter \in {"none", "open", "closing", "closed"}
  /\ member[c].holder \in {"none", "open", "closing", "closed"}
  /\ member[c].phase = "unborn" => member[c].reporter = "none" /\ c \notin drain.holders
  /\ member[c].reporter = "none" => member[c].holder = "none"
  /\ member[c].holder \in {"closing", "closed"} => Reported(c)
  /\ member[c].reporter = "open" /\ c \notin gone.reporters => c \in refs.reporters /\ listener /\ ~exited
  /\ member[c].holder = "open" /\ c \notin gone.holders =>
       c \in refs.holders /\ (listener \/ c \in drain.holders) /\ ~exited
  /\ drain.phase = "reporters" /\ c \in drain.holders => Reported(c) \/ c \in drain.reporters
  /\ drain.phase = "holders" /\ c \in drain.holders => member[c].holder # "open"

ExitInv ==
  /\ DOMAIN member = Client
  /\ DOMAIN refs = Sides /\ DOMAIN gone = Sides
  /\ DOMAIN drain = {"phase", "reporters", "holders"}
  /\ drain.phase = "idle" => drain.holders = {}
  /\ \A c \in Client : Orderly(c)

LEMMA ExitInit == Exits!Init => ExitInv
<1> SUFFICES ASSUME Exits!Init PROVE ExitInv
  OBVIOUS
<1>1. DOMAIN member = Client /\ DOMAIN refs = Sides /\ DOMAIN gone = Sides
      /\ DOMAIN drain = {"phase", "reporters", "holders"} /\ drain.holders = {} /\ drain.phase = "idle"
  BY DEF Exits!Init, Sides, Exits!Idle
<1>2. ASSUME NEW c \in Client PROVE Orderly(c)
  BY <1>1 DEF Exits!Init, MemberFields, Orderly
<1>3. QED BY <1>1, <1>2 DEF ExitInv

(* How far a record of a client goes in one step of its own. *)
Moves(x, m) ==
  /\ DOMAIN m = MemberFields
  /\ m.phase = "unborn" => x.phase = "unborn"
  /\ \/ m.reporter = x.reporter
     \/ x.reporter = "open" /\ m.reporter = "closing"
     \/ x.reporter = "closing" /\ m.reporter = "closed"
  /\ \/ m.holder = x.holder
     \/ x.holder = "open" /\ m.holder = "closing" /\ x.reporter = "closed"
     \/ x.holder = "closing" /\ m.holder = "closed"

LEMMA OneMoves ==
  ASSUME ExitInv, NEW c \in Client, NEW m, Moves(member[c], m),
         member' = [member EXCEPT ![c] = m],
         UNCHANGED <<refs, listener, drain, gone, exited>>
  PROVE  ExitInv'
<1>1. DOMAIN member' = Client /\ \A b \in Client : member'[b] = IF b = c THEN m ELSE member[b]
  BY DEF ExitInv
<1>2. ASSUME NEW b \in Client PROVE Orderly(b)'
 <2>1. Orderly(b)  BY DEF ExitInv
 <2>2. CASE b # c
   BY <1>1, <2>1, <2>2 DEF Orderly, Reported
 <2>3. CASE b = c
   BY <1>1, <2>3, <2>1 DEF Reported, Moves, Orderly
 <2>4. QED BY <2>2, <2>3
<1>3. QED BY <1>1, <1>2 DEF ExitInv

LEMMA ConstructExit ==
  ASSUME ExitInv, NEW c \in Client, Exits!Construct(c), ~exited, UNCHANGED exited
  PROVE  ExitInv'
<1> DEFINE m == [member[c] EXCEPT !.phase = "open", !.reporter = "open", !.holder = "open", !.held = TRUE]
<1>1. /\ DOMAIN m = MemberFields /\ m.phase = "open" /\ m.reporter = "open" /\ m.holder = "open"
  BY DEF ExitInv, Orderly, MemberFields
<1>2. member' = [member EXCEPT ![c] = m] /\ drain' = drain /\ gone' = gone /\ member[c].phase = "unborn"
  BY DEF Exits!Construct
<1> HIDE DEF m
<1>3. DOMAIN member' = Client /\ \A b \in Client : member'[b] = IF b = c THEN m ELSE member[b]
  BY <1>2 DEF ExitInv
<1>4. /\ DOMAIN refs' = Sides /\ listener' = TRUE
      /\ refs'.reporters = Exits!Swept("reporters") \cup {c}
      /\ refs'.holders = Exits!Swept("holders") \cup {c}
  BY DEF Exits!Construct, Exits!Registered, Sides
<1>5. ASSUME NEW b \in Client PROVE Orderly(b)'
 <2>1. Orderly(b)  BY DEF ExitInv
 <2>2. CASE b # c
   BY <1>4, <2>1, <1>3, <2>2, <1>2 DEF Orderly, Exits!Swept, Exits!Live, Reported
 <2>3. CASE b = c
   BY <1>3, <1>4, <2>3, <1>2, <2>1, <1>1 DEF Orderly, Reported
 <2>4. QED BY <2>2, <2>3
<1>6. QED BY <1>2, <1>3, <1>4, <1>5 DEF ExitInv

LEMMA CollectExit ==
  ASSUME ExitInv, NEW c \in Client, NEW kind \in Sides,
         Exits!Collect(c, kind) \/ Exits!Finalize(c, kind), UNCHANGED exited
  PROVE  ExitInv'
<1>1. member' = member /\ drain' = drain /\ listener' = listener
  BY DEF Exits!Collect, Exits!Finalize
<1>2. /\ DOMAIN refs' = Sides /\ DOMAIN gone' = Sides
      /\ \A k \in Sides : gone[k] \subseteq gone'[k] /\ (refs[k] \ gone'[k]) \subseteq refs'[k]
  BY DEF ExitInv, Exits!Collect, Exits!Finalize
<1>3. /\ gone.reporters \subseteq gone'.reporters /\ gone.holders \subseteq gone'.holders
      /\ (refs.reporters \ gone'.reporters) \subseteq refs'.reporters
      /\ (refs.holders \ gone'.holders) \subseteq refs'.holders
  BY <1>2 DEF Sides
<1>4. ASSUME NEW b \in Client PROVE Orderly(b)'
  BY <1>1, <1>3 DEF ExitInv, Orderly, Reported
<1>5. QED BY <1>1, <1>2, <1>4 DEF ExitInv

(* Both snapshots are taken at once: whose holder is in one has its reporter in the other, or *)
(* has no reports to wait for. *)
LEMMA BeforeExitExit ==
  ASSUME ExitInv, Exits!BeforeExit, ~exited, UNCHANGED exited
  PROVE  ExitInv'
<1> DEFINE R == Exits!Live("reporters")
           H == Exits!Live("holders")
<1>1. /\ \A c \in Client : c \in R <=> c \in refs.reporters /\ c \notin gone.reporters /\ member[c].reporter = "open"
      /\ \A c \in Client : c \in H <=> c \in refs.holders /\ c \notin gone.holders /\ member[c].holder = "open"
  BY DEF Exits!Live
<1>2. /\ DOMAIN refs' = Sides /\ refs'.reporters = R /\ refs'.holders = H
      /\ DOMAIN drain' = {"phase", "reporters", "holders"}
      /\ drain'.phase = "reporters" /\ drain'.reporters = R /\ drain'.holders = H
      /\ gone' = gone /\ listener' = FALSE
  BY DEF Exits!BeforeExit, Sides
<1>3. /\ DOMAIN member' = Client
      /\ \A c \in Client : member'[c] = IF c \in R THEN [member[c] EXCEPT !.reporter = "closing"] ELSE member[c]
  BY DEF Exits!BeforeExit
<1>4. \A c \in Client : member[c].reporter # "closing" /\ member[c].holder # "closing"
  BY DEF Exits!BeforeExit, Exits!Quiet
<1> HIDE DEF R, H
<1>5. ASSUME NEW c \in Client PROVE Orderly(c)'
  BY <1>3, <1>1, <1>4, <1>2 DEF ExitInv, Orderly, MemberFields, Reported
<1>6. QED BY <1>2, <1>3, <1>5 DEF ExitInv

LEMMA ReportersSettledExit ==
  ASSUME ExitInv, Exits!ReportersSettled, UNCHANGED exited
  PROVE  ExitInv'
<1>1. /\ DOMAIN drain' = {"phase", "reporters", "holders"} /\ drain'.phase = "holders"
      /\ drain'.reporters = drain.reporters /\ drain'.holders = drain.holders /\ drain.phase = "reporters"
      /\ refs' = refs /\ gone' = gone /\ listener' = listener
  BY DEF ExitInv, Exits!ReportersSettled
<1>2. /\ DOMAIN member' = Client
      /\ \A c \in Client : member'[c] = IF c \in drain.holders
                                         THEN [member[c] EXCEPT !.holder = Exits!Closing(@)] ELSE member[c]
  BY DEF Exits!ReportersSettled
<1>3. \A c \in drain.reporters : member[c].reporter = "closed"
  BY DEF Exits!ReportersSettled
<1>4. ASSUME NEW c \in Client PROVE Orderly(c)'
  BY <1>2, <1>1, <1>3 DEF ExitInv, Orderly, MemberFields, Exits!Closing, Reported
<1>5. QED BY <1>1, <1>2, <1>4 DEF ExitInv

LEMMA DrainEndsExit ==
  ASSUME ExitInv, Exits!DrainEnds, UNCHANGED exited
  PROVE  ExitInv'
<1>1. /\ DOMAIN drain' = {"phase", "reporters", "holders"} /\ drain'.phase = "idle"
      /\ drain'.reporters = {} /\ drain'.holders = {} /\ drain.phase = "holders"
      /\ DOMAIN refs' = Sides
      /\ refs'.reporters = Exits!Live("reporters") /\ refs'.holders = Exits!Live("holders")
      /\ member' = member /\ gone' = gone /\ listener' = listener
  BY DEF Exits!DrainEnds, Exits!Idle, Sides
<1>2. ASSUME NEW c \in Client PROVE Orderly(c)'
  BY <1>1 DEF ExitInv, Exits!Live, Orderly, Reported
<1>3. QED BY <1>1, <1>2 DEF ExitInv

LEMMA ExitExit ==
  ASSUME ExitInv, Exits!Exit
  PROVE  ExitInv'
<1>1. /\ UNCHANGED <<member, refs, listener, drain, gone>> /\ ~listener /\ drain.phase = "idle"
  BY DEF Exits!Exit, Exits!Quiet, Exits!Idle
<1>2. drain.holders = {}  BY <1>1 DEF ExitInv
<1>3. ASSUME NEW c \in Client PROVE Orderly(c)'
  BY <1>1, <1>2, <1>3 DEF ExitInv, Orderly, Reported
<1>4. QED BY <1>1, <1>3 DEF ExitInv

(* A step of one client. *)
LEMMA OwnExit ==
  ASSUME ExitInv, NEW c \in Client, UNCHANGED exited,
         \/ Exits!StartCall(c) \/ Exits!EndCall(c) \/ Exits!OpenStream(c) \/ Exits!EndStream(c)
         \/ Exits!Deliver(c) \/ Exits!Close(c) \/ Exits!CloseReports(c) \/ Exits!CloseLeases(c)
         \/ Exits!CloseProvider(c) \/ Exits!ReporterCloses(c) \/ Exits!HolderCloses(c) \/ Exits!LetGo(c)
  PROVE  ExitInv'
<1> DEFINE x == member[c]
<1>0. DOMAIN x = MemberFields /\ DOMAIN member = Client
  BY DEF ExitInv, Orderly
<1>1. UNCHANGED <<refs, listener, drain, gone>>
  BY DEF Exits!StartCall, Exits!EndCall, Exits!OpenStream, Exits!EndStream, Exits!Deliver, Exits!Close,
         Exits!CloseReports, Exits!CloseLeases, Exits!CloseProvider, Exits!ReporterCloses,
         Exits!HolderCloses, Exits!LetGo
<1>2. SUFFICES \E m : Moves(x, m) /\ member' = [member EXCEPT ![c] = m]
  BY <1>1, OneMoves
<1>3. CASE Exits!StartCall(c)
  BY <1>0, <1>3 DEF Moves, MemberFields, Exits!StartCall
<1>4. CASE Exits!EndCall(c)
  BY <1>0, <1>4 DEF Moves, MemberFields, Exits!Given, Exits!EndCall
<1>5. CASE Exits!OpenStream(c)
  BY <1>0, <1>5 DEF Moves, MemberFields, Exits!OpenStream
<1>6. CASE Exits!EndStream(c)
  BY <1>0, <1>6 DEF Moves, MemberFields, Exits!Given, Exits!EndStream
<1>7. CASE Exits!Deliver(c)
  BY <1>0, <1>7 DEF Moves, MemberFields, Exits!Deliver
<1>8. CASE Exits!Close(c)
  BY <1>0, <1>8 DEF Moves, MemberFields, Exits!Close
<1>9. CASE Exits!CloseReports(c)
  BY <1>0, <1>9 DEF MemberFields, Exits!Given, Exits!CloseReports, Moves, Exits!Closing
<1>10. CASE Exits!CloseLeases(c)
  BY <1>0, <1>10 DEF Moves, MemberFields, Exits!Closing, Exits!CloseLeases
<1>11. CASE Exits!CloseProvider(c)
  BY <1>0, <1>11 DEF Moves, MemberFields, Exits!CloseProvider
<1>12. CASE Exits!ReporterCloses(c)
  BY <1>0, <1>12 DEF Moves, MemberFields, Exits!ReporterCloses
<1>13. CASE Exits!HolderCloses(c)
  BY <1>0, <1>13 DEF Moves, MemberFields, Exits!HolderCloses
<1>14. CASE Exits!LetGo(c)
  BY <1>0, <1>14 DEF Moves, MemberFields, Exits!LetGo
<1>15. QED BY <1>3, <1>4, <1>5, <1>6, <1>7, <1>8, <1>9, <1>10, <1>11, <1>12, <1>13, <1>14

LEMMA ExitStep == ExitInv /\ [Exits!Next]_(Exits!vars) => ExitInv'
<1> SUFFICES ASSUME ExitInv, [Exits!Next]_(Exits!vars) PROVE ExitInv'
  OBVIOUS
<1>1. CASE UNCHANGED Exits!vars
  BY <1>1 DEF Exits!vars, ExitInv, Orderly, Reported
<1>2. CASE Exits!Exit
  BY <1>2, ExitExit
<1>3. CASE ~exited /\ Exits!Step /\ UNCHANGED exited
  BY <1>3, ConstructExit, CollectExit, BeforeExitExit, ReportersSettledExit, DrainEndsExit, OwnExit DEF Exits!Step, Sides
<1>4. QED BY <1>1, <1>2, <1>3 DEF Exits!Next

(* However the closes of clients and the drain before the exit overlap, leases are surrendered *)
(* after the reports of their client, and no open client that can be reached is without a *)
(* listener or a drain (src/node.ts:130), for any number of clients. *)
THEOREM DrainsAreOrdered == Exits!Spec => [](Exits!ReportsBeforeLeases /\ Exits!NobodyMissesTheExit)
<1>1. ExitInv => Exits!ReportsBeforeLeases /\ Exits!NobodyMissesTheExit
  BY DEF ExitInv, Orderly, Reported, Exits!ReportsBeforeLeases, Exits!NobodyMissesTheExit
<1>2. QED BY <1>1, ExitInit, ExitStep, PTL DEF Exits!Spec

-----------------------------------------------------------------------------
(* The guard of what is not tracked. *)

(* What a client is built with. *)
Built ==
  /\ posture \in Surfaces!Postures /\ acked \in {{}, {"container"}, {"member"}}
  /\ rule \in [Surfaces!Path -> Surfaces!Rules] /\ seen \in [Surfaces!Path -> Surfaces!Seen]
  /\ rule["member"] \in {Surfaces!NoRule} \union [kind : Surfaces!Spend \union {"metadata"}, expects : {Surfaces!Methods}]
  /\ \A p \in acked : Surfaces!Acknowledgeable(p)

(* The three properties, of what resolveSurfaceRead finds. *)
Strict(p, actual, o) ==
  o.form \in {"value", "fenced"} =>
    LET safe == Surfaces!AsReviewed(p, actual) /\ rule[p].kind = "metadata"
        own  == p \in acked /\ (rule[p] = Surfaces!NoRule \/ seen[p].desc = "absent" \/ Surfaces!AsReviewed(p, actual))
    IN  /\ posture = "raise" => safe \/ own
        /\ o.form = "value" /\ actual # "scalar" => safe

Counts(p, actual, o) ==
  LET r == rule[p]
      spend == seen[p].desc # "absent" /\ r.kind \in Surfaces!Spend /\ ~Surfaces!Static(p).drifted
  IN  /\ o.notes = 2 => spend /\ ~Surfaces!AsReviewed(p, actual) /\ p \notin acked
      /\ o.notes > 0 => posture # "raise"
      /\ o.notes > 0 /\ o.form = "error" =>
           Surfaces!Fixed(p) \/ (Surfaces!Guardable(seen[p].shape) /\ actual = "scalar")
      /\ o.form \in {"value", "fenced"} /\ o.notes = 0 =>
           p \in acked \/ (Surfaces!AsReviewed(p, actual) /\ r.kind = "metadata")

Foretold(p, actual, o) ==
  LET agrees == seen[p].shape = actual
  IN  seen[p].desc # "absent" =>
        /\ Surfaces!Predicted(p) = "refuse" /\ agrees =>
             o.form = "error" \/ (o.form = "guard" /\ Surfaces!Unlisted(p))
        /\ Surfaces!Predicted(p) = "return" /\ agrees =>
             o.form = IF rule[p].kind = "metadata" /\ Surfaces!AsReviewed(p, actual) THEN "value" ELSE Surfaces!Fenced(actual)
        /\ Surfaces!Predicted(p) = "guard" /\ agrees => o.form = "guard" /\ Surfaces!Guardable(actual)
        /\ Surfaces!Predicted(p) = "intercept" /\ agrees =>
             o.form = IF Surfaces!Intercepts(p) THEN "wrapper" ELSE "error"

Sound(p, actual, o) == Strict(p, actual, o) /\ Counts(p, actual, o) /\ Foretold(p, actual, o)

(* And of what the program gets. *)
Given(p, actual, o) ==
  /\ Strict(p, actual, o)
  /\ Counts(p, actual, o)
  /\ o.form # "none" /\ seen[p].desc # "absent" /\ seen[p].shape = actual =>
        /\ Surfaces!Predicted(p) = "refuse" => o.form = "error" \/ (o.form = "guard" /\ Surfaces!Unlisted(p))
        /\ Surfaces!Predicted(p) = "return" =>
             \/ o.form = IF rule[p].kind = "metadata" /\ Surfaces!AsReviewed(p, actual)
                         THEN "value" ELSE Surfaces!Fenced(actual)
             \/ actual = "function" /\ Surfaces!Intercepts(p) /\ o.form = "wrapper"
             \/ actual = "function" /\ Surfaces!Fixed(p) /\ o.form = "error"
        /\ Surfaces!Predicted(p) = "guard" => o.form = IF Surfaces!Fixed(p) THEN "error" ELSE "guard"
        /\ Surfaces!Predicted(p) = "intercept" => o.form = IF Surfaces!Intercepts(p) THEN "wrapper" ELSE "error"

(* A rule by its kind. *)
LEMMA RuleIs ==
  ASSUME Built, NEW p \in Surfaces!Path
  PROVE  /\ rule[p] = Surfaces!NoRule <=> rule[p].kind = "none"
         /\ rule[p].kind \in Surfaces!Kinds \cup {"none"}
         /\ rule[p].kind = "none" => rule[p].expects = {}
         /\ rule[p].kind = "raw_response" => rule[p].expects = Surfaces!Methods
         /\ rule[p].kind = "namespace" => \A e \in rule[p].expects : e[2] \in {"resource", "mapping", "unevaluated"}
<1>1. rule[p] \in Surfaces!Rules  BY DEF Built
<1>2. rule[p] = Surfaces!NoRule \/ rule[p].kind \in Surfaces!Kinds
  BY <1>1 DEF Surfaces!Rules, Surfaces!Kinds, Surfaces!Spend
<1>3. /\ rule[p].kind = "raw_response" => rule[p].expects = Surfaces!Methods
      /\ rule[p].kind = "namespace" => rule[p].expects \in {Surfaces!Resources, Surfaces!Resources \union {<<"getter", "unevaluated">>}}
  BY <1>1 DEF Surfaces!Rules, Surfaces!NoRule, Surfaces!Spend
<1>4. QED BY <1>2, <1>3 DEF Surfaces!NoRule, Surfaces!Kinds, Surfaces!Spend, Surfaces!Resources

LEMMA SeenIs ==
  ASSUME Built, NEW p \in Surfaces!Path
  PROVE  \/ seen[p].desc = "field" /\ seen[p].shape \in Surfaces!Shapes
         \/ seen[p].desc \in {"getter", "setter"} /\ seen[p].shape = "unevaluated"
         \/ seen[p].desc = "absent" /\ seen[p].shape = "none"
BY DEF Built, Surfaces!Seen

(* What is not guarded is fenced, unless it is a plain value. *)
LEMMA WrappedIs ==
  ASSUME NEW actual \in Surfaces!Shapes
  PROVE  /\ Surfaces!Wrapped(actual) = IF Surfaces!Guardable(actual) THEN "guard" ELSE Surfaces!Fenced(actual)
         /\ Surfaces!Fenced(actual) = IF actual = "function" THEN "fenced" ELSE "value"
         /\ Surfaces!Guardable(actual) \/ actual \in {"function", "scalar"}
         /\ Surfaces!Guardable(actual) => actual \notin {"function", "scalar"}
BY DEF Surfaces!Shapes, Surfaces!Guardable, Surfaces!Wrapped, Surfaces!Fenced

(* A value of the shape that was seen is that of a field, and as reviewed if the rule accepts it. *)
LEMMA AgreeingIs ==
  ASSUME Built, NEW p \in Surfaces!Path, NEW actual \in Surfaces!Shapes, seen[p].shape = actual
  PROVE  seen[p].desc = "field" /\ (Surfaces!AsReviewed(p, actual) <=> Surfaces!Accepts(rule[p], seen[p].desc, actual))
BY SeenIs DEF Surfaces!AsReviewed, Surfaces!Shapes

(* An acknowledged property can be seen, and is spend as reviewed when a rule describes it. *)
LEMMA AckedIs ==
  ASSUME Built, NEW p \in acked
  PROVE  /\ p \in Surfaces!Path /\ seen[p].desc # "absent"
         /\ rule[p].kind = "none" => seen[p].shape # "unevaluated" /\ ~Surfaces!Guardable(seen[p].shape)
         /\ rule[p].kind # "none" => rule[p].kind \in Surfaces!Spend /\ ~Surfaces!Static(p).drifted
<1>1. p \in Surfaces!Path  BY DEF Built, Surfaces!Path
<1>2. QED BY <1>1, RuleIs DEF Built, Surfaces!Acknowledgeable

(* A container of an acknowledged property. *)
LEMMA BelowIs ==
  ASSUME Built, NEW p \in Surfaces!Path, Surfaces!Below(p) \cap acked # {}
  PROVE  /\ p = "container" /\ p \notin acked /\ seen[p].desc # "absent"
         /\ Surfaces!Guardable(seen[p].shape) \/ (seen[p].shape = "unevaluated" /\ Surfaces!Accepts(rule[p], "getter", "resource"))
         /\ rule[p].kind # "none" => rule[p].kind \in {"namespace"} \cup Surfaces!Spend /\ ~Surfaces!Static(p).drifted
<1>1. p = "container" /\ "member" \in acked /\ p \notin acked
  BY DEF Built, Surfaces!Below, Surfaces!Path
<1>2. QED BY <1>1, RuleIs DEF Built, Surfaces!Acknowledgeable, Surfaces!Path

(* What a descriptor alone says of a property. *)
LEMMA StaticIs ==
  ASSUME Built, NEW p \in Surfaces!Path
  PROVE  /\ Surfaces!Static(p).shape = seen[p].shape
         /\ Surfaces!Static(p).kind # "unknown" =>
              /\ Surfaces!Static(p).kind = rule[p].kind /\ rule[p].kind # "none" /\ ~Surfaces!Static(p).drifted
              /\ \/ Surfaces!Accepts(rule[p], seen[p].desc, seen[p].shape)
                 \/ seen[p].shape = "unevaluated" /\ \E e \in rule[p].expects : e[1] = seen[p].desc
         /\ Surfaces!Static(p).kind = "unknown" =>
              /\ Surfaces!Static(p).drifted <=> rule[p].kind # "none"
              /\ ~Surfaces!Accepts(rule[p], seen[p].desc, seen[p].shape)
              /\ ~(seen[p].shape = "unevaluated" /\ \E e \in rule[p].expects : e[1] = seen[p].desc)
<1>1. /\ rule[p] = Surfaces!NoRule <=> rule[p].kind = "none"
      /\ rule[p].kind = "none" => rule[p].expects = {}
      /\ rule[p].kind # "unknown"
  BY RuleIs DEF Surfaces!Kinds, Surfaces!Spend
<1>2. CASE seen[p].shape = "unevaluated" /\ \E e \in rule[p].expects : e[1] = seen[p].desc
  BY <1>2, <1>1 DEF Surfaces!Static
<1>3. CASE ~(seen[p].shape = "unevaluated" /\ \E e \in rule[p].expects : e[1] = seen[p].desc)
 <2>1. Surfaces!Static(p) = Surfaces!Effective(rule[p], seen[p].desc, seen[p].shape)
   BY <1>3 DEF Surfaces!Static
 <2>2. CASE Surfaces!Accepts(rule[p], seen[p].desc, seen[p].shape)
   BY <2>1, <2>2, <1>1 DEF Surfaces!Effective, Surfaces!Accepts
 <2>3. CASE ~Surfaces!Accepts(rule[p], seen[p].desc, seen[p].shape)
  <3>1. Surfaces!Static(p).kind = "unknown" /\ Surfaces!Static(p).shape = seen[p].shape
    BY <2>1, <2>3 DEF Surfaces!Effective
  <3>2. CASE rule[p] = Surfaces!NoRule
   <4>1. ~Surfaces!Effective(rule[p], seen[p].desc, seen[p].shape).drifted
     BY <2>3, <3>2 DEF Surfaces!Effective
   <4>2. QED BY <1>1, <1>3, <2>1, <2>3, <3>1, <3>2, <4>1
  <3>3. CASE rule[p] # Surfaces!NoRule
   <4>1. Surfaces!Effective(rule[p], seen[p].desc, seen[p].shape).drifted
     BY <2>3, <3>3 DEF Surfaces!Effective
   <4>2. QED BY <1>1, <1>3, <2>1, <2>3, <3>1, <3>3, <4>1
  <3>4. QED BY <3>2, <3>3
 <2>4. QED BY <2>2, <2>3
<1>4. QED BY <1>2, <1>3

(* A value that is no longer what was reviewed is unknown, whatever was acknowledged. *)
LEMMA DriftIs ==
  ASSUME Built, NEW p \in Surfaces!Path, NEW actual \in Surfaces!Shapes, rule[p] # Surfaces!NoRule, ~Surfaces!Accepts(rule[p], seen[p].desc, actual)
  PROVE  /\ Surfaces!Posture(p, Surfaces!Effective(rule[p], seen[p].desc, actual), actual)
              = IF posture = "raise" THEN Surfaces!Outcome("error", 0) ELSE Surfaces!Outcome(Surfaces!Wrapped(actual), 1)
         /\ seen[p].shape = actual /\ seen[p].desc # "absent" =>
              Surfaces!Predicted(p) = IF posture = "raise" THEN "refuse" ELSE IF Surfaces!Guardable(actual) THEN "guard" ELSE "return"
<1> DEFINE d == Surfaces!Effective(rule[p], seen[p].desc, actual)
<1>1. d.kind = "unknown" /\ d.shape = actual /\ d.drifted
  BY DEF Surfaces!Effective
<1> HIDE DEF d
<1>2. Surfaces!Acknowledged(p, d) = "no"  BY <1>1 DEF Surfaces!Acknowledged
<1>3. Surfaces!Posture(p, d, actual) = IF posture = "raise" THEN Surfaces!Outcome("error", 0) ELSE Surfaces!Outcome(Surfaces!Wrapped(actual), 1)
  BY <1>1, <1>2 DEF Surfaces!Wrapped, Surfaces!WrappedAs, Surfaces!Guardable, Surfaces!Posture, Surfaces!Governed, Surfaces!Fenced
<1>4. ASSUME seen[p].shape = actual, seen[p].desc # "absent"
      PROVE  Surfaces!Predicted(p) = IF posture = "raise" THEN "refuse" ELSE IF Surfaces!Guardable(actual) THEN "guard" ELSE "return"
  BY <1>4, <1>1, <1>2 DEF d, Surfaces!Predicted, Surfaces!Spend, Surfaces!Governed
<1>5. QED BY <1>3, <1>4 DEF d

(* What is seen as reviewed is told as what it is. *)
LEMMA ReviewedIs ==
  ASSUME Built, NEW p \in Surfaces!Path, Surfaces!Accepts(rule[p], seen[p].desc, seen[p].shape)
  PROVE  /\ rule[p].kind = "namespace" => Surfaces!Predicted(p) = "guard"
         /\ rule[p].kind = "metered" => Surfaces!Predicted(p) = "intercept"
         /\ rule[p].kind = "blocked" => Surfaces!Predicted(p) = "refuse"
         /\ rule[p].kind = "metadata" => Surfaces!Predicted(p) = "return"
<1> DEFINE d == Surfaces!Effective(rule[p], seen[p].desc, seen[p].shape)
<1>1. d.kind = rule[p].kind  BY DEF Surfaces!Effective
<1> HIDE DEF d
<1>2. QED BY <1>1 DEF Surfaces!Predicted, Surfaces!Governed, Surfaces!Spend, d

(* The posture, for a property it governs. *)
LEMMA PostureIs ==
  ASSUME Built, NEW p \in Surfaces!Path, NEW actual, NEW d, Surfaces!Governed(d.kind)
  PROVE  LET o == Surfaces!Posture(p, d, actual)  ack == Surfaces!Acknowledged(p, d)
         IN  /\ ack \in {"no", "exact", "below"}
             /\ ack = "exact" => o = Surfaces!Outcome(IF d.kind = "raw_response" THEN Surfaces!Fenced(actual) ELSE Surfaces!WrappedAs(d.shape, actual), 0)
             /\ ack = "below" => o = Surfaces!Outcome(IF Surfaces!Guardable(actual) THEN "guard" ELSE "error", 0)
             /\ ack = "no" => o = IF posture = "raise" THEN Surfaces!Outcome("error", 0) ELSE Surfaces!Outcome(Surfaces!WrappedAs(d.shape, actual), 1)
<1>1. Surfaces!Acknowledged(p, d) \in {"no", "exact", "below"}  BY DEF Surfaces!Acknowledged
<1>2. QED BY <1>1 DEF Surfaces!Posture

(* A property that no rule describes, with a value of this shape. *)
LEMMA UnknownIs ==
  ASSUME Built, NEW p \in Surfaces!Path, NEW actual \in Surfaces!Shapes, p \notin acked
  PROVE  LET o == Surfaces!Posture(p, Surfaces!Effective(Surfaces!NoRule, "field", actual), actual)
         IN  /\ Surfaces!Below(p) \cap acked # {} => o = Surfaces!Outcome(IF Surfaces!Guardable(actual) THEN "guard" ELSE "error", 0)
             /\ Surfaces!Below(p) \cap acked = {} =>
                  o = IF posture = "raise" THEN Surfaces!Outcome("error", 0) ELSE Surfaces!Outcome(Surfaces!Wrapped(actual), 1)
<1> DEFINE d == Surfaces!Effective(Surfaces!NoRule, "field", actual)
<1>1. d.kind = "unknown" /\ d.shape = actual /\ ~d.drifted
  BY DEF Surfaces!Effective, Surfaces!Accepts, Surfaces!NoRule
<1> HIDE DEF d
<1>2. Surfaces!Acknowledged(p, d) = IF Surfaces!Below(p) \cap acked # {} THEN "below" ELSE "no"
  BY <1>1 DEF Surfaces!Acknowledged
<1>3. Surfaces!Governed(d.kind) /\ Surfaces!WrappedAs(d.shape, actual) = Surfaces!Wrapped(actual)
  BY <1>1 DEF Surfaces!Governed, Surfaces!WrappedAs, Surfaces!Wrapped, Surfaces!Guardable, Surfaces!Fenced
<1>4. QED BY <1>2, <1>3, PostureIs DEF d

(* A reviewed property: a value that is what was reviewed gets its form, any other is unknown. *)
LEMMA ReviewedIsSound ==
  ASSUME Built, NEW p \in Surfaces!Path, NEW actual \in Surfaces!Shapes, NEW form, seen[p].desc # "absent",
         Surfaces!Static(p).kind = rule[p].kind, rule[p] # Surfaces!NoRule,
         \/ rule[p].kind = "namespace" /\ form = "guard"
         \/ rule[p].kind = "metered" /\ form = "wrapper" /\ Surfaces!Intercepts(p)
         \/ rule[p].kind = "metadata" /\ form = "value"
  PROVE  Sound(p, actual, Surfaces!ReadReviewed(p, actual, form))
<1> DEFINE o == Surfaces!ReadReviewed(p, actual, form)
<1>0. /\ rule[p].kind \notin {"none", "unknown"} /\ rule[p].kind \notin Surfaces!Spend
      /\ p \notin acked
  BY StaticIs, AckedIs DEF Surfaces!Spend
<1>1. CASE Surfaces!Accepts(rule[p], seen[p].desc, actual)
  BY <1>1, ReviewedIs, RuleIs, WrappedIs DEF Surfaces!Accepts, Surfaces!ReadReviewed, Surfaces!AsReviewed, Foretold, Surfaces!Outcome, Strict, Counts, Sound, o
<1>2. CASE /\ ~Surfaces!Accepts(rule[p], seen[p].desc, actual) /\ rule[p].kind = "metadata" /\ seen[p].desc = "getter"
           /\ actual \in {"scalar", "mapping"} /\ Surfaces!Accepts(rule[p], "field", actual)
  BY <1>2, SeenIs DEF Surfaces!ReadReviewed, Surfaces!AsReviewed, Surfaces!Shapes, Sound, Strict, Counts, Foretold, Surfaces!Outcome, o
<1>3. CASE /\ ~Surfaces!Accepts(rule[p], seen[p].desc, actual)
           /\ ~(rule[p].kind = "metadata" /\ seen[p].desc = "getter" /\ actual \in {"scalar", "mapping"} /\ Surfaces!Accepts(rule[p], "field", actual))
 <2>1. o = IF posture = "raise" THEN Surfaces!Outcome("error", 0) ELSE Surfaces!Outcome(Surfaces!Wrapped(actual), 1)
   BY <1>3, DriftIs DEF Surfaces!ReadReviewed
 <2> HIDE DEF o
 <2>2. o.notes \in {0, 1} /\ (o.notes = 0 => posture = "raise" /\ o.form = "error")
       /\ (o.notes = 1 => posture # "raise" /\ o.form = Surfaces!Wrapped(actual))
   BY <2>1 DEF Surfaces!Outcome
 <2>3. Foretold(p, actual, o)  BY <1>3, <2>2, DriftIs, WrappedIs, AgreeingIs DEF Foretold
 <2>4. Strict(p, actual, o) /\ Counts(p, actual, o)
   BY <2>2, WrappedIs DEF Strict, Counts
 <2>5. QED BY <2>3, <2>4 DEF Sound, o
<1>4. QED BY <1>1, <1>2, <1>3

(* A property that is none of those its rule describes, or has no rule. *)
LEMMA UnknownIsSound ==
  ASSUME Built, NEW p \in Surfaces!Path, NEW actual \in Surfaces!Shapes, seen[p].desc # "absent", ~Surfaces!Unlisted(p),
         Surfaces!Static(p).kind = "unknown"
  PROVE  Sound(p, actual, Surfaces!ReadGoverned(p, Surfaces!Static(p), actual))
<1> DEFINE d == Surfaces!Static(p)
           first == Surfaces!Posture(p, d, actual)
           o == Surfaces!ReadGoverned(p, d, actual)
<1>1. /\ rule[p] = Surfaces!NoRule <=> rule[p].kind = "none"
      /\ rule[p].kind = "none" => rule[p].expects = {}
      /\ d.shape = seen[p].shape /\ Surfaces!Governed(d.kind) /\ d.kind = "unknown"
      /\ d.drifted <=> rule[p].kind # "none"
      /\ ~Surfaces!Accepts(rule[p], seen[p].desc, seen[p].shape)
  BY RuleIs, StaticIs DEF Surfaces!Governed
<1>2. o = IF first.form = "error" THEN first ELSE Surfaces!Outcome(Surfaces!Wrapped(actual), first.notes)
  BY <1>1 DEF Surfaces!ReadGoverned
<1>3. /\ Surfaces!Acknowledged(p, d) = "exact" => first = Surfaces!Outcome(Surfaces!WrappedAs(seen[p].shape, actual), 0)
      /\ Surfaces!Acknowledged(p, d) = "no" =>
           first = IF posture = "raise" THEN Surfaces!Outcome("error", 0) ELSE Surfaces!Outcome(Surfaces!WrappedAs(seen[p].shape, actual), 1)
  BY <1>1, PostureIs
<1> HIDE DEF d, first, o
<1>4. CASE rule[p] # Surfaces!NoRule
 <2>1. Surfaces!Acknowledged(p, d) = "no" /\ p \notin acked
   BY <1>1, <1>4, AckedIs DEF Surfaces!Acknowledged, d
 <2>2. /\ o.notes \in {0, 1} /\ (o.notes = 0 => posture = "raise" /\ o.form = "error")
       /\ o.notes = 1 => /\ posture # "raise"
                         /\ \/ o.form = Surfaces!Wrapped(actual)
                            \/ o.form = "error" /\ Surfaces!Guardable(seen[p].shape) /\ actual = "scalar"
   BY <1>2, <1>3, <2>1 DEF Surfaces!Outcome, Surfaces!WrappedAs, Surfaces!Fenced
 <2>3. Foretold(p, actual, o)
  <3>1. CASE seen[p].shape = actual
    BY <1>1, <1>4, <3>1, DriftIs, <2>2, WrappedIs, AgreeingIs DEF Surfaces!Guardable, Foretold
  <3>2. CASE seen[p].shape # actual
    BY <3>2 DEF Foretold
  <3>3. QED BY <3>1, <3>2
 <2>4. Strict(p, actual, o) /\ Counts(p, actual, o)
   BY <2>2, WrappedIs DEF Strict, Counts
 <2>5. QED BY <2>3, <2>4 DEF Sound, o, d
<1>5. CASE rule[p] = Surfaces!NoRule
 <2>1. Surfaces!Acknowledged(p, d) = IF p \in acked THEN "exact" ELSE "no"
   BY <1>1, <1>5, BelowIs, SeenIs DEF Surfaces!Unlisted, Surfaces!Accepts, Surfaces!Guardable, Surfaces!Acknowledged
 <2>2. ~Surfaces!Guardable(seen[p].shape)
   BY <1>1, <1>5, SeenIs DEF Surfaces!Unlisted, Surfaces!Guardable
 <2>3. Surfaces!WrappedAs(seen[p].shape, actual) = Surfaces!Fenced(actual)  BY <2>2 DEF Surfaces!WrappedAs, Surfaces!Fenced
 <2>4. CASE p \in acked
  <3>1. o = Surfaces!Outcome(Surfaces!Wrapped(actual), 0)
    BY <1>2, <1>3, <2>1, <2>3, <2>4, WrappedIs DEF Surfaces!Outcome
  <3>2. seen[p].shape = actual => Surfaces!Predicted(p) = "return"
    BY <1>1, <1>5, <2>4, <2>2 DEF Surfaces!Effective, Surfaces!Acknowledged, Surfaces!Predicted, Surfaces!Governed, Surfaces!Spend
  <3>3. Foretold(p, actual, o)  BY <1>1, <1>5, <2>2, <3>1, <3>2, WrappedIs, AgreeingIs DEF Foretold, Surfaces!Outcome
  <3>4. Strict(p, actual, o) /\ Counts(p, actual, o)
    BY <1>5, <2>4, <3>1, WrappedIs DEF Strict, Counts, Surfaces!Outcome
  <3>5. QED BY <3>3, <3>4 DEF Sound, o, d
 <2>5. CASE p \notin acked
  <3>1. o = IF posture = "raise" THEN Surfaces!Outcome("error", 0) ELSE Surfaces!Outcome(Surfaces!Wrapped(actual), 1)
    BY <1>2, <1>3, <2>1, <2>3, <2>5, WrappedIs DEF Surfaces!Outcome
  <3>2. seen[p].shape = actual => Surfaces!Predicted(p) = IF posture = "raise" THEN "refuse" ELSE "return"
   <4> DEFINE e == Surfaces!Effective(rule[p], seen[p].desc, seen[p].shape)
   <4>1. e.kind = "unknown" /\ e.shape = seen[p].shape /\ ~e.drifted
     BY <1>1, <1>5 DEF Surfaces!Effective
   <4> HIDE DEF e
   <4>2. Surfaces!Acknowledged(p, e) = "no"
     BY <1>1, <1>5, BelowIs, SeenIs, <2>5, <4>1 DEF Surfaces!Unlisted, Surfaces!Accepts, Surfaces!Guardable, Surfaces!Acknowledged
   <4>3. QED BY <2>2, <4>1, <4>2 DEF Surfaces!Predicted, Surfaces!Governed, Surfaces!Spend, e
  <3>3. Foretold(p, actual, o)  BY <1>1, <1>5, <2>2, <3>1, <3>2, WrappedIs, AgreeingIs DEF Foretold, Surfaces!Outcome
  <3>4. Strict(p, actual, o) /\ Counts(p, actual, o)
    BY <3>1, WrappedIs DEF Strict, Counts, Surfaces!Outcome
  <3>5. QED BY <3>3, <3>4 DEF Sound, o, d
 <2>6. QED BY <2>4, <2>5
<1>6. QED BY <1>4, <1>5

(* Spend that is not tracked. *)
LEMMA SpendIsSound ==
  ASSUME Built, NEW p \in Surfaces!Path, NEW actual \in Surfaces!Shapes, seen[p].desc # "absent",
         Surfaces!Static(p).kind \in Surfaces!Spend
  PROVE  Sound(p, actual, Surfaces!ReadGoverned(p, Surfaces!Static(p), actual))
<1> DEFINE d == Surfaces!Static(p)
           first == Surfaces!Posture(p, d, actual)
           drift == Surfaces!Posture(p, Surfaces!Effective(rule[p], seen[p].desc, actual), actual)
           o == Surfaces!ReadGoverned(p, d, actual)
           raw == d.kind = "raw_response" /\ p \in acked
           fits == Surfaces!Accepts(rule[p], seen[p].desc, actual)
           ack == Surfaces!Acknowledged(p, d)
<1>1. /\ d.kind = rule[p].kind /\ d.kind \in Surfaces!Spend /\ rule[p] # Surfaces!NoRule /\ d.shape = seen[p].shape
      /\ ~d.drifted /\ Surfaces!Governed(d.kind) /\ d.kind \notin {"unknown", "metadata"}
      /\ seen[p].shape = actual => fits
  BY RuleIs, StaticIs DEF Surfaces!Governed, Surfaces!Spend, Surfaces!Shapes
<1>2. o = IF first.form = "error" THEN first
          ELSE IF fits THEN Surfaces!Outcome(IF raw THEN first.form ELSE Surfaces!Wrapped(actual), first.notes)
          ELSE Surfaces!Outcome(drift.form, first.notes + drift.notes)
  BY <1>1 DEF Surfaces!ReadGoverned
<1>3. ~fits => drift = IF posture = "raise" THEN Surfaces!Outcome("error", 0) ELSE Surfaces!Outcome(Surfaces!Wrapped(actual), 1)
  BY <1>1, DriftIs
<1>4. /\ ack \in {"no", "exact", "below"}
      /\ ack = "exact" =>
           first = Surfaces!Outcome(IF d.kind = "raw_response" THEN Surfaces!Fenced(actual) ELSE Surfaces!WrappedAs(seen[p].shape, actual), 0)
      /\ ack = "below" => first = Surfaces!Outcome(IF Surfaces!Guardable(actual) THEN "guard" ELSE "error", 0)
      /\ ack = "no" =>
           first = IF posture = "raise" THEN Surfaces!Outcome("error", 0) ELSE Surfaces!Outcome(Surfaces!WrappedAs(seen[p].shape, actual), 1)
  BY <1>1, PostureIs
<1>5. ack = "exact" <=> p \in acked  BY <1>1 DEF Surfaces!Acknowledged
<1>6. Surfaces!AsReviewed(p, actual) <=> fits  BY <1>1 DEF Surfaces!AsReviewed
<1>7. seen[p].shape = actual =>
        Surfaces!Predicted(p) = CASE ack = "exact" -> IF Surfaces!Guardable(actual) /\ d.kind # "raw_response" THEN "guard" ELSE "return"
                         [] ack = "below" -> IF Surfaces!Guardable(actual) THEN "guard" ELSE "refuse"
                         [] ack = "no"    -> IF posture = "raise" THEN "refuse" ELSE IF Surfaces!Guardable(actual) THEN "guard" ELSE "return"
  BY <1>1, <1>4 DEF Surfaces!Effective, Surfaces!Acknowledged, Surfaces!Shapes, Surfaces!Predicted, Surfaces!Spend
<1> HIDE DEF d, first, drift, o, fits, ack
<1>8. CASE ack = "exact"
 <2>1. p \in acked /\ o.notes \in {0, 1} /\ (o.notes = 1 => posture # "raise")
   BY <1>2, <1>3, <1>4, <1>5, <1>8 DEF Surfaces!Outcome
 <2>2. o.form = "error" \/ o.form = Surfaces!Wrapped(actual) \/ (o.form = Surfaces!Fenced(actual) /\ d.kind = "raw_response" /\ fits)
   BY <1>2, <1>3, <1>4, <1>5, <1>8 DEF Surfaces!Outcome
 <2>3. o.form = "error" => o.notes = 0
   BY <1>2, <1>3, <1>4, <1>5, <1>8, WrappedIs DEF Surfaces!Outcome
 <2>4. o.form \in {"value", "fenced"} => fits \/ posture # "raise"
   BY <1>2, <1>3, <1>4, <1>5, <1>8 DEF Surfaces!Outcome
 <2>5. Foretold(p, actual, o)
  <3>1. CASE seen[p].shape = actual
    BY <1>4, <1>8, <3>1, <1>1, <1>2, <1>5, <1>7 DEF Surfaces!WrappedAs, Surfaces!Wrapped, Surfaces!Guardable, Surfaces!Outcome, Foretold, Surfaces!Fenced
  <3>2. CASE seen[p].shape # actual
    BY <3>2 DEF Foretold
  <3>3. QED BY <3>1, <3>2
 <2>6. fits /\ d.kind = "raw_response" => actual = "function"
  <3>1. d.kind = "raw_response" => rule[p].expects = Surfaces!Methods  BY <1>1, RuleIs
  <3>2. fits => <<seen[p].desc, actual>> \in rule[p].expects  BY DEF Surfaces!Accepts, fits
  <3>3. QED BY <3>1, <3>2 DEF Surfaces!Methods
 <2>7. Strict(p, actual, o)  BY <1>1, <1>6, <2>1, <2>2, <2>4, <2>6, WrappedIs DEF Strict
 <2>8. Counts(p, actual, o)  BY <2>1, <2>3 DEF Counts
 <2>9. QED BY <2>5, <2>7, <2>8 DEF Sound, o, d
<1>9. CASE ack = "below"
 <2>1. p \notin acked /\ o.notes \in {0, 1} /\ (o.notes = 1 => posture # "raise" /\ o.form # "error")
   BY <1>2, <1>3, <1>4, <1>5, <1>9, WrappedIs DEF Surfaces!Outcome
 <2>2. o.form \in {"error", "guard"}
   BY <1>2, <1>3, <1>4, <1>5, <1>9, WrappedIs DEF Surfaces!Outcome
 <2>3. Foretold(p, actual, o)
  <3>1. CASE seen[p].shape = actual
    BY <1>1, <1>2, <1>4, <1>5, <1>9, <3>1, <1>7 DEF Surfaces!Outcome, Surfaces!Wrapped, Foretold, Surfaces!Fenced
  <3>2. CASE seen[p].shape # actual
    BY <3>2 DEF Foretold
  <3>3. QED BY <3>1, <3>2
 <2>4. Strict(p, actual, o) /\ Counts(p, actual, o)
   BY <2>1, <2>2 DEF Strict, Counts
 <2>5. QED BY <2>3, <2>4 DEF Sound, o, d
<1>10. CASE ack = "no" /\ posture = "raise"
  BY <1>2, <1>4, <1>10, <1>7 DEF Surfaces!Outcome, Foretold, Sound, Strict, Counts, o, d
<1>11. CASE ack = "no" /\ posture # "raise"
 <2>1. p \notin acked /\ first = Surfaces!Outcome(Surfaces!WrappedAs(seen[p].shape, actual), 1)
   BY <1>4, <1>5, <1>11
 <2>2. \/ o.form = "error" /\ o.notes = 1 /\ Surfaces!Guardable(seen[p].shape) /\ actual = "scalar"
       \/ o.form = Surfaces!Wrapped(actual) /\ o.notes = 1
       \/ o.form = Surfaces!Wrapped(actual) /\ o.notes = 2 /\ ~fits
   BY <1>2, <1>3, <1>11, <2>1 DEF Surfaces!Outcome, Surfaces!WrappedAs, Surfaces!Fenced
 <2>3. Foretold(p, actual, o)
  <3>1. CASE seen[p].shape = actual
    BY <1>1, <2>2, <3>1, <1>7, <1>11, WrappedIs, AgreeingIs DEF Surfaces!Guardable, Foretold
  <3>2. CASE seen[p].shape # actual
    BY <3>2 DEF Foretold
  <3>3. QED BY <3>1, <3>2
 <2>4. Strict(p, actual, o)  BY <1>11, <2>2, WrappedIs DEF Strict
 <2>5. Counts(p, actual, o)  BY <1>1, <1>6, <1>11, <2>1, <2>2 DEF Counts, Surfaces!Wrapped, d, Surfaces!Fenced
 <2>6. QED BY <2>3, <2>4, <2>5 DEF Sound, o, d
<1>12. QED BY <1>4, <1>8, <1>9, <1>10, <1>11

LEMMA ReadIsSound ==
  ASSUME Built, NEW p \in Surfaces!Path, NEW actual \in Surfaces!Shapes
  PROVE  Sound(p, actual, Surfaces!Read(p, actual))
<1>1. /\ rule[p] = Surfaces!NoRule <=> rule[p].kind = "none"
      /\ rule[p].kind \in Surfaces!Kinds \cup {"none"}
      /\ rule[p].kind = "none" => rule[p].expects = {}
  BY RuleIs
<1>2. \/ seen[p].desc = "field" /\ seen[p].shape \in Surfaces!Shapes
      \/ seen[p].desc \in {"getter", "setter"} /\ seen[p].shape = "unevaluated"
      \/ seen[p].desc = "absent" /\ seen[p].shape = "none"
  BY SeenIs
<1>3. p \in acked => /\ seen[p].desc # "absent"
                     /\ rule[p].kind = "none" => seen[p].shape # "unevaluated" /\ ~Surfaces!Guardable(seen[p].shape)
                     /\ rule[p].kind # "none" => rule[p].kind \in Surfaces!Spend /\ ~Surfaces!Static(p).drifted
  BY AckedIs
<1>4. Surfaces!Below(p) \cap acked # {} =>
        /\ p \notin acked /\ seen[p].desc # "absent"
        /\ rule[p].kind # "none" => rule[p].kind \in {"namespace"} \cup Surfaces!Spend /\ ~Surfaces!Static(p).drifted
  BY BelowIs
<1>5. posture \in Surfaces!Postures  BY DEF Built
<1>6. CASE seen[p].desc = "absent"
 <2> DEFINE o == Surfaces!ReadAbsent(p, actual)
            u == Surfaces!Posture(p, Surfaces!Effective(Surfaces!NoRule, "field", actual), actual)
 <2>1. Surfaces!Read(p, actual) = o  BY <1>6 DEF Surfaces!Read
 <2>2. p \notin acked /\ Surfaces!Below(p) \cap acked = {}
   BY <1>3, <1>4, <1>6
 <2>3. u = IF posture = "raise" THEN Surfaces!Outcome("error", 0) ELSE Surfaces!Outcome(Surfaces!Wrapped(actual), 1)
   BY <2>2, UnknownIs
 <2>4. o \in {Surfaces!Outcome("error", 0), Surfaces!Outcome("guard", 0), u}
   BY DEF Surfaces!ReadAbsent, u
 <2> HIDE DEF o, u
 <2>5. o.form \in {"value", "fenced"} => posture # "raise" /\ o.form = Surfaces!Fenced(actual) /\ ~Surfaces!Guardable(actual) /\ o.notes = 1
   BY <2>3, <2>4, WrappedIs DEF Surfaces!Outcome
 <2>6. o.notes \in {0, 1} /\ (o.notes = 1 => posture # "raise" /\ o.form # "error")
   BY <2>3, <2>4, WrappedIs DEF Surfaces!Outcome
 <2>7. QED BY <1>6, <2>1, <2>5, <2>6, WrappedIs DEF Sound, Strict, Counts, Foretold
<1>7. CASE seen[p].desc # "absent" /\ Surfaces!Unlisted(p)
 <2> DEFINE o == Surfaces!Read(p, actual)
            u == Surfaces!Posture(p, Surfaces!Effective(Surfaces!NoRule, "field", actual), actual)
 <2>1. rule[p] = Surfaces!NoRule /\ rule[p].kind = "none" /\ Surfaces!Guardable(seen[p].shape) /\ p \notin acked
   BY <1>1, <1>3, <1>7 DEF Surfaces!Unlisted
 <2>2. o = IF Surfaces!Guardable(actual) THEN Surfaces!Outcome("guard", 0) ELSE u
   BY <1>7 DEF Surfaces!Read
 <2>3. u \in {Surfaces!Outcome("error", 0), Surfaces!Outcome("guard", 0)} \/ (posture # "raise" /\ u = Surfaces!Outcome(Surfaces!Wrapped(actual), 1))
   BY <2>1, UnknownIs
 <2> HIDE DEF o, u
 <2>4. o.notes \in {0, 1} /\ (o.notes = 1 => posture # "raise" /\ o.form # "error")
       /\ (o.form \in {"value", "fenced"} => o.notes = 1 /\ posture # "raise" /\ o.form = Surfaces!Fenced(actual) /\ ~Surfaces!Guardable(actual))
   BY <2>2, <2>3, WrappedIs DEF Surfaces!Outcome
 <2>5. Foretold(p, actual, o)
  <3>1. CASE seen[p].shape = actual
   <4>1. o = Surfaces!Outcome("guard", 0)  BY <2>1, <2>2, <3>1
   <4>2. Surfaces!Predicted(p) \in {"refuse", "guard"}
     BY <1>1, <2>1 DEF Surfaces!Effective, Surfaces!Accepts, Surfaces!Predicted, Surfaces!Governed, Surfaces!Spend
   <4>3. QED BY <1>7, <2>1, <3>1, <4>1, <4>2 DEF Foretold, Surfaces!Outcome
  <3>2. CASE seen[p].shape # actual
    BY <3>2 DEF Foretold
  <3>3. QED BY <3>1, <3>2
 <2>6. Strict(p, actual, o) /\ Counts(p, actual, o)
   BY <2>1, <2>4, WrappedIs DEF Strict, Counts, Surfaces!Spend
 <2>7. QED BY <2>5, <2>6 DEF Sound, o
<1>8. CASE seen[p].desc # "absent" /\ ~Surfaces!Unlisted(p)
 <2>0. /\ Surfaces!Static(p).kind # "unknown" => Surfaces!Static(p).kind = rule[p].kind /\ rule[p] # Surfaces!NoRule
       /\ Surfaces!Static(p).kind \in {"unknown"} \cup Surfaces!Kinds
   BY <1>1, StaticIs DEF Surfaces!Kinds, Surfaces!Spend
 <2>1. CASE Surfaces!Static(p).kind = "metered"
  <3>1. CASE Surfaces!Intercepts(p)
    BY <1>8, <2>1, <2>0, <3>1, ReviewedIsSound DEF Surfaces!Read
  <3>2. CASE ~Surfaces!Intercepts(p)
    BY <1>8, <2>1, <3>2, <1>1, <2>0, StaticIs, ReviewedIs DEF Surfaces!Read, Surfaces!Shapes, Foretold, Surfaces!Outcome, Sound, Strict, Counts
  <3>3. QED BY <3>1, <3>2
 <2>2. CASE Surfaces!Static(p).kind = "blocked"
   BY <1>8, <2>2, <1>1, <2>0, StaticIs, ReviewedIs DEF Surfaces!Read, Surfaces!Shapes, Foretold, Surfaces!Outcome, Sound, Strict, Counts
 <2>3. CASE Surfaces!Static(p).kind = "namespace"
   BY <1>8, <2>3, <2>0, ReviewedIsSound DEF Surfaces!Read
 <2>4. CASE Surfaces!Static(p).kind = "metadata"
   BY <1>8, <2>4, <2>0, ReviewedIsSound DEF Surfaces!Read
 <2>5. CASE Surfaces!Static(p).kind \notin {"metered", "blocked", "namespace", "metadata"}
   BY <1>8, <2>5, <2>0, UnknownIsSound, SpendIsSound DEF Surfaces!Read, Surfaces!Kinds
 <2>6. QED BY <2>1, <2>2, <2>3, <2>4, <2>5
<1>9. QED BY <1>6, <1>7, <1>8

(* Presenting what was found: a fixed property is itself or nothing, a method is intercepted. *)
LEMMA AnswerIsGiven ==
  ASSUME Built, NEW p \in Surfaces!Path, NEW actual \in Surfaces!Shapes
  PROVE  Given(p, actual, Surfaces!Answer(p, actual))
<1> DEFINE o == Surfaces!Read(p, actual)
           q == Surfaces!Answer(p, actual)
<1>1. Strict(p, actual, o) /\ Counts(p, actual, o) /\ Foretold(p, actual, o)
  BY ReadIsSound DEF Sound
<1>2. ~(Surfaces!Fixed(p) /\ Surfaces!Intercepts(p))
  BY DEF Surfaces!Fixed, Surfaces!Intercepts
<1>3. \/ Surfaces!Fixed(p) /\ o.form # "value" /\ q.form = "error" /\ q.notes = o.notes
      \/ Surfaces!Intercepts(p) /\ actual = "function" /\ o.form # "error" /\ q.form = "wrapper" /\ q.notes = o.notes
      \/ ~(Surfaces!Fixed(p) /\ o.form # "value") /\ ~(Surfaces!Intercepts(p) /\ actual = "function" /\ o.form # "error") /\ q = o
  BY <1>2 DEF Surfaces!Answer, Surfaces!Outcome
<1> HIDE DEF o, q
<1>4. Strict(p, actual, q)  BY <1>1, <1>3 DEF Strict
<1>5. Counts(p, actual, q)  BY <1>1, <1>3 DEF Counts
<1>6. seen[p].desc # "absent" /\ seen[p].shape = actual =>
        /\ Surfaces!Predicted(p) = "refuse" => q.form = "error" \/ (q.form = "guard" /\ Surfaces!Unlisted(p))
        /\ Surfaces!Predicted(p) = "guard" => q.form = IF Surfaces!Fixed(p) THEN "error" ELSE "guard"
        /\ Surfaces!Predicted(p) = "intercept" => q.form = IF Surfaces!Intercepts(p) THEN "wrapper" ELSE "error"
  BY <1>1, <1>2, <1>3, WrappedIs DEF Foretold, Surfaces!Unlisted
<1>7. seen[p].desc # "absent" /\ seen[p].shape = actual /\ Surfaces!Predicted(p) = "return" =>
        \/ q.form = IF rule[p].kind = "metadata" /\ Surfaces!AsReviewed(p, actual) THEN "value" ELSE Surfaces!Fenced(actual)
        \/ actual = "function" /\ Surfaces!Intercepts(p) /\ q.form = "wrapper"
        \/ actual = "function" /\ Surfaces!Fixed(p) /\ q.form = "error"
  BY <1>1, <1>3, WrappedIs DEF Foretold
<1>8. QED BY <1>4, <1>5, <1>6, <1>7 DEF Given, q

(* The settings of a client do not change, and what was read last was sound. *)
SurfaceInv == Built /\ (last = Surfaces!None \/ Given(last.path, last.actual, last))

LEMMA SurfaceStep ==
  ASSUME SurfaceInv, [Surfaces!Next]_(Surfaces!vars)
  PROVE  SurfaceInv'
<1>1. UNCHANGED Surfaces!settings
  BY DEF Surfaces!Next, Surfaces!vars, Surfaces!ReadProperty, Surfaces!Reflect, Surfaces!EndOfTurn
<1>2. Built'
  BY <1>1 DEF SurfaceInv, Built, Surfaces!settings, Surfaces!Acknowledgeable, Surfaces!Static, Surfaces!Effective, Surfaces!Accepts
<1>3. \A p, actual, o : Given(p, actual, o) => Given(p, actual, o)'
  BY <1>1 DEF Surfaces!settings, Given, Strict, Counts, Surfaces!AsReviewed, Surfaces!Static, Surfaces!Predicted, Surfaces!Effective, Surfaces!Accepts, Surfaces!Acknowledged, Surfaces!Fixed, Surfaces!Intercepts, Surfaces!Unlisted
<1>4. CASE UNCHANGED last
  BY <1>2, <1>3, <1>4 DEF SurfaceInv
<1>5. ASSUME NEW p \in Surfaces!Path, NEW actual \in Surfaces!Shapes, Surfaces!ReadProperty(p, actual)
      PROVE  SurfaceInv'
 <2>1. Given(p, actual, Surfaces!Answer(p, actual))  BY AnswerIsGiven DEF SurfaceInv
 <2>2. Given(last.path, last.actual, last)'
   BY <2>1, <1>3, <1>5 DEF Surfaces!ReadProperty, Given, Strict, Counts
 <2>3. QED BY <1>2, <2>2 DEF SurfaceInv
<1>6. QED BY <1>4, <1>5 DEF Surfaces!Next, Surfaces!vars, Surfaces!Reflect, Surfaces!EndOfTurn

LEMMA SurfaceInit ==
  ASSUME Surfaces!Init PROVE SurfaceInv
BY DEF Surfaces!Init, SurfaceInv, Built

LEMMA SurfaceGuarded ==
  ASSUME SurfaceInv PROVE Surfaces!SurfacesAreGuarded
<1>1. CASE last = Surfaces!None
  BY <1>1 DEF Surfaces!None, Surfaces!SurfacesAreGuarded, Surfaces!StrictModeHolds, Surfaces!ReadsAreCounted, Surfaces!CoverageIsTrue
<1>2. CASE last # Surfaces!None
  BY <1>2 DEF SurfaceInv, Given, Strict, Counts, Surfaces!SurfacesAreGuarded, Surfaces!StrictModeHolds, Surfaces!ReadsAreCounted, Surfaces!CoverageIsTrue
<1>3. QED BY <1>1, <1>2

(* Strict mode, the observations and the coverage report agree on every read of a property *)
(* (resolveSurfaceRead, src/client.ts:1578; applySurfacePosture, src/surface-guard.ts): nothing *)
(* that may spend reaches the program in strict mode without its exact token and as it was *)
(* reviewed, a read that is let through is observed once, and what coverage() reports of a *)
(* property is what a read of it does, also for properties with an interceptor (proxies.ts:964) *)
(* and fixed ones (surface-guard.ts:609), but for the exceptions that CoverageIsTrue names. *)
THEOREM ReadsAreGuarded == Surfaces!Spec => []Surfaces!SurfacesAreGuarded
<1>1. Surfaces!Init => SurfaceInv  BY SurfaceInit
<1>2. SurfaceInv /\ [Surfaces!Next]_(Surfaces!vars) => SurfaceInv'
  BY SurfaceStep
<1>3. SurfaceInv => Surfaces!SurfacesAreGuarded  BY SurfaceGuarded
<1>4. QED BY <1>1, <1>2, <1>3, PTL DEF Surfaces!Spec

-----------------------------------------------------------------------------
(* The parts share nothing, so each step of a client is a step of one of them, and *)
(* the others stutter. *)
LEMMA PartsAreTheirOwn == PartsSpec => Fence!Spec /\ Middleware!Spec /\ Exits!Spec /\ Surfaces!Spec
<1>1. PartsInit => Fence!Init /\ Middleware!Init /\ Exits!Init /\ Surfaces!Init
  BY DEF PartsInit
<1>2. [PartsNext]_partsVars => [Fence!Next]_(Fence!vars)
  BY DEF PartsNext, partsVars, fenceVars, Fence!vars
<1>3. [PartsNext]_partsVars => [Middleware!Next]_(Middleware!vars)
  BY DEF PartsNext, partsVars, middlewareVars, Middleware!vars
<1>4. [PartsNext]_partsVars => [Exits!Next]_(Exits!vars)
  BY DEF PartsNext, partsVars, shutdownVars, Exits!vars
<1>5. [PartsNext]_partsVars => [Surfaces!Next]_(Surfaces!vars)
  BY DEF PartsNext, partsVars, surfaceVars, Surfaces!vars, Surfaces!settings, Surfaces!notices
<1>6. QED
  BY <1>1, <1>2, <1>3, <1>4, <1>5, PTL DEF PartsSpec, Fence!Spec, Middleware!Spec, Exits!Spec, Surfaces!Spec

(* While a refusal stands nothing untracked is started or surfaces a bare error. *)
THEOREM ClientsStopSpend == PartsSpec => RefusalsStopSpend
BY PartsAreTheirOwn, RefusalsStop, PTL DEF RefusalsStopSpend

(* A call through the AI SDK middleware ends once, with everything it holds given back, *)
(* and never gives back funding whose output may be billed. *)
THEOREM MiddlewareEnds == PartsSpec => []MiddlewareIsSound
<1>1. Middleware!MiddlewareEndsOnce /\ Middleware!MiddlewareKeepsBilled => MiddlewareIsSound
  BY DEF MiddlewareIsSound
<1>2. QED BY <1>1, PartsAreTheirOwn, EndsOnce, KeepsBilled, PTL

(* The reports of a client are delivered before its leases are surrendered, by its close and by *)
(* the drain before the exit; and every open client that can be reached is in a drain or has a *)
(* listener waiting. *)
THEOREM ExitsStayOrderly == PartsSpec => []ExitsAreOrderly
<1>1. Exits!ReportsBeforeLeases /\ Exits!NobodyMissesTheExit => ExitsAreOrderly
  BY DEF ExitsAreOrderly
<1>2. QED BY <1>1, PartsAreTheirOwn, DrainsAreOrdered, PTL

(* Strict mode, the observations and the coverage report of a client agree on every read. *)
THEOREM SurfacesStayGuarded == PartsSpec => []SurfacesAreGuarded
BY PartsAreTheirOwn, ReadsAreGuarded, PTL DEF SurfacesAreGuarded
=============================================================================
