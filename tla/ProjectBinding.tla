--------------------------- MODULE ProjectBinding ---------------------------
(***************************************************************************)
(* What a client knows about its API key and project                       *)
(* (src/src/project.ts) and how the requests of its transports             *)
(* (src/src/transport.ts) and its budget checks (gatedCheck in             *)
(* src/src/budget.ts) read and change it.                                  *)
(*                                                                         *)
(* A request captures the binding's generation when it leaves.  A 401      *)
(* blocks at its status, before its body is read; a key check              *)
(* (GET /auth/key, one at a time) is what may relax or clear a refusal.    *)
(* Answers arrive in any order relative to one another, and the key itself *)
(* may change on the server while they are under way.                      *)
(*                                                                         *)
(* Time is one flag, due: whether the next automatic key check may start   *)
(* (5 s, 30 s and 60 s are not told apart).  The pinned project, messages  *)
(* and the abort signal of native requests are left out, except that the   *)
(* first success pins.                                                     *)
(***************************************************************************)
EXTENDS Integers, FiniteSets

CONSTANTS
  DataRequest,    \* budget, lease and report requests, each sent at most once
  Call,           \* budget checks, each run at most once
  MaxChanges,     \* bound on the changes of the key on the server
  MaxOutages,     \* bound on key checks that get no answer
  MaxGeneration   \* bound: past it no answer has an unreadable body, and validate() is not called

ASSUME BindingAssumption ==
  /\ MaxChanges \in Nat /\ MaxOutages \in Nat /\ MaxGeneration \in Nat

(* The key on the server: good; refused with a 401 by a project that only
   alerts, or that blocks; or refused with a 400, 403 or 404 that names the
   project or the key's scope. *)
KeyState == {"good", "alert_only", "hard_deny", "project"}
Effect == {"block", "allow_unmetered"}
NoRefusal == "none"
NoAnswer == "none"
Undefined == -1

VARIABLES
  binding,     \* the fields of ProjectBinding
  inflight,    \* the key check under way
  followUp,    \* whether a key check is queued behind the one in flight
  lateBody,    \* a key check timed out reading a 401's body: its refusal is still to be recorded
  requests, calls,
  key, changes, outages,  \* the server
  overtaken,   \* history: a refusal was recorded since the key check in flight left
  unchecked,   \* history: a 401 arrived, and no key check sent after it has ended
  open         \* history: requests with an unread 401 body, no later key check having answered

client == <<binding, inflight, followUp, lateBody, requests, calls>>
server == <<key, changes, outages>>
history == <<overtaken, unchecked, open>>
vars == <<client, server, history>>

NoKeyCheck == [phase |-> "none", dispatchedAt |-> 0, answer |-> NoAnswer]
NewBinding == [state |-> "unvalidated", refusal |-> NoRefusal, everValid |-> FALSE, pinned |-> FALSE,
               generation |-> 0, refusalGen |-> 0, due |-> TRUE, soon |-> FALSE, notified |-> 0]
NewRequest == [phase |-> "new", dispatchedAt |-> 0, answer |-> NoAnswer, ownStatus |-> Undefined]
NewCall == [phase |-> "new", pass |-> 0, generation |-> 0, asOf |-> 0]

TypeOK ==
  /\ binding \in [state : {"unvalidated", "valid", "refused"}, refusal : Effect \cup {NoRefusal},
                  everValid : BOOLEAN, pinned : BOOLEAN, generation : Nat, refusalGen : Nat,
                  due : BOOLEAN, soon : {FALSE}, notified : Nat]
  /\ (binding.state = "refused") <=> (binding.refusal # NoRefusal)
  /\ inflight \in [phase : {"none", "sent", "settled"}, dispatchedAt : Nat, answer : KeyState \cup {NoAnswer}]
  /\ followUp \in BOOLEAN /\ (followUp => inflight.phase # "none")
  /\ lateBody \in Nat \cup {Undefined}
  /\ requests \in [DataRequest -> [phase : {"new", "sent", "status", "done"}, dispatchedAt : Nat,
                                   answer : KeyState \cup {NoAnswer}, ownStatus : Nat \cup {Undefined}]]
  /\ calls \in [Call -> [phase : {"new", "waiting", "woken", "running",
                                  "blocked", "unmetered", "allowed", "denied"},
                         pass : {0, 1}, generation : Nat, asOf : Nat]]
  /\ key \in KeyState /\ changes \in 0 .. MaxChanges /\ outages \in 0 .. MaxOutages
  /\ overtaken \in BOOLEAN /\ unchecked \in BOOLEAN /\ open \subseteq DataRequest

Init ==
  /\ binding = NewBinding
  /\ inflight = NoKeyCheck /\ followUp = FALSE /\ lateBody = Undefined
  /\ requests = [d \in DataRequest |-> NewRequest]
  /\ calls = [c \in Call |-> NewCall]
  /\ key \in KeyState /\ changes = 0 /\ outages = 0
  /\ overtaken = FALSE /\ unchecked = FALSE /\ open = {}

-----------------------------------------------------------------------------
(* The binding's methods, as functions of its fields.  soon marks that a
   prompt key check was asked for; notified counts the calls of the
   authority listeners. *)

(* #store: the same effect again is news only when it is independent. *)
Store(b, effect, independent) ==
  CASE b.refusal = effect /\ ~independent -> b
    [] b.refusal = effect /\ independent ->
         [b EXCEPT !.generation = @ + 1, !.refusalGen = b.generation + 1, !.soon = TRUE]
    [] b.refusal # effect ->
         [b EXCEPT !.due = FALSE, !.refusal = effect, !.state = "refused",
                   !.generation = @ + 1, !.refusalGen = b.generation + 1, !.notified = @ + 1]

(* #effectFor: an unreadable body and the project refusals have posture
   unknown. *)
EffectFor(b, posture) ==
  IF posture = "alert_only" /\ b.everValid THEN "allow_unmetered" ELSE "block"

(* refuse: it may relax a block only when it was dispatched at or after the
   stored refusal. *)
Refuse(b, posture, dispatched, ownStatus, keyCheck) ==
  LET effect == EffectFor(b, posture)
      relaxes == b.refusal = "block" /\ effect = "allow_unmetered"
  IN  IF relaxes /\ dispatched < b.refusalGen THEN b
      ELSE Store(b, effect, ~(keyCheck \/ ownStatus = b.refusalGen))

(* refuseAtStatus: a 401 blocks before its body is known. *)
RefuseAtStatus(b) ==
  [IF b.refusal = "block"
   THEN [b EXCEPT !.generation = @ + 1, !.refusalGen = b.generation + 1]
   ELSE Store(b, "block", FALSE)
   EXCEPT !.soon = TRUE]

(* A plausible bug: a success always applies. *)
SucceedLate(b, dispatched) ==
  [b EXCEPT !.state = "valid", !.everValid = TRUE, !.pinned = TRUE, !.refusal = NoRefusal,
            !.generation = @ + 1,
            !.notified = IF ~b.pinned \/ b.state = "refused" THEN @ + 1 ELSE @]

(* #succeed: superseded when anything changed since its dispatch. *)
Succeed(b, dispatched) ==
  IF dispatched # b.generation THEN b
  ELSE [b EXCEPT !.state = "valid", !.everValid = TRUE, !.pinned = TRUE, !.refusal = NoRefusal,
                 !.generation = @ + 1,
                 !.notified = IF ~b.pinned \/ b.state = "refused" THEN @ + 1 ELSE @]

(* No automatic key check for a while. *)
BackOff(b) == [b EXCEPT !.due = FALSE]

(* #outage: only a binding that is not valid waits for anything. *)
Outage(b) == IF b.state = "valid" THEN b ELSE BackOff(b)

(* A plausible bug: only a client that was never validated rechecks. *)
DueUnvalidated == binding.state = "unvalidated" /\ binding.due

(* #revalidationDue. *)
RevalidationDue == binding.state # "valid" /\ binding.due

(* What a call is told now. *)
Verdict == IF binding.state = "refused" THEN binding.refusal ELSE "proceed"

-----------------------------------------------------------------------------
(* The key check. *)

KeyCheckSent(b) == [NoKeyCheck EXCEPT !.phase = "sent", !.dispatchedAt = b.generation]

(* A plausible bug: a prompt key check joins the one in flight. *)
RevalidateJoining(b) ==
  /\ binding' = [b EXCEPT !.soon = FALSE]
  /\ inflight' = IF b.soon /\ inflight.phase = "none" THEN KeyCheckSent(b) ELSE inflight
  /\ UNCHANGED followUp

(* b becomes the binding; #revalidateSoon starts the key check it asked for,
   or queues it behind the one in flight. *)
RevalidateSoon(b) ==
  /\ binding' = [b EXCEPT !.soon = FALSE]
  /\ inflight' = IF b.soon /\ inflight.phase = "none" THEN KeyCheckSent(b) ELSE inflight
  /\ followUp' = (followUp \/ (b.soon /\ inflight.phase # "none"))

(* History: b is recorded; news tells whether it is a refusal of its own. *)
Recorded(news) == overtaken' = (inflight' # NoKeyCheck /\ inflight' = inflight /\ (overtaken \/ news))

(* #request: one key check at a time. *)
StartKeyCheck ==
  /\ inflight.phase = "none"
  /\ inflight' = KeyCheckSent(binding)
  /\ overtaken' = FALSE

(* Some call outside Call drives the key check: gate(), or blockingRefusal()
   while refused. *)
Poll ==
  /\ RevalidationDue
  /\ StartKeyCheck
  /\ UNCHANGED <<binding, followUp, lateBody, requests, calls, server, unchecked, open>>

(* The application calls validate(). *)
Validate ==
  /\ binding.generation < MaxGeneration
  /\ StartKeyCheck
  /\ UNCHANGED <<binding, followUp, lateBody, requests, calls, server, unchecked, open>>

RetryElapses ==
  /\ ~binding.due /\ binding.state # "valid"
  /\ binding' = [binding EXCEPT !.due = TRUE]
  /\ UNCHANGED <<inflight, followUp, lateBody, requests, calls, server, history>>

(* External: the server decides the answer at some time between dispatch
   and arrival. *)
ServeKeyCheck ==
  /\ inflight.phase = "sent" /\ inflight.answer = NoAnswer
  /\ inflight' = [inflight EXCEPT !.answer = key]
  /\ UNCHANGED <<binding, followUp, lateBody, requests, calls, server, history>>

(* The outcome b of the key check is in the binding; the promise settles in
   a later microtask. *)
KeyCheckEnds(b) ==
  /\ binding' = b
  /\ inflight' = [inflight EXCEPT !.phase = "settled"]
  /\ UNCHANGED <<followUp, requests, calls, key, changes, overtaken>>

(* What a request without an applicable history leaves open. *)
Answered == IF overtaken THEN UNCHANGED <<unchecked, open>> ELSE unchecked' = FALSE /\ open' = {}

KeyCheckSucceeds ==
  /\ inflight.phase = "sent" /\ inflight.answer = "good" /\ lateBody = Undefined
  /\ KeyCheckEnds(Succeed(binding, inflight.dispatchedAt))
  /\ Answered
  /\ UNCHANGED <<lateBody, outages>>

(* A classified refusal, or a 200 of a read-only key. *)
KeyCheckRefuses ==
  /\ inflight.phase = "sent" /\ inflight.answer \in KeyState \ {"good"} /\ lateBody = Undefined
  /\ \E posture \in {inflight.answer} \cup (IF binding.generation < MaxGeneration THEN {"unknown"} ELSE {}) :
       KeyCheckEnds(BackOff(Refuse(binding, posture, inflight.dispatchedAt, Undefined, TRUE)))
  /\ Answered
  /\ UNCHANGED <<lateBody, outages>>

(* No usable answer.  When the attempt timed out while it read a 401's body,
   the aborted read still ends in a refusal. *)
KeyCheckFails ==
  /\ inflight.phase = "sent" /\ outages < MaxOutages
  /\ outages' = outages + 1
  /\ KeyCheckEnds(Outage(binding))
  /\ \/ UNCHANGED lateBody
     \/ /\ inflight.answer \in {"alert_only", "hard_deny"} /\ lateBody = Undefined
        /\ lateBody' = inflight.dispatchedAt
  /\ unchecked' = (unchecked /\ overtaken)
  /\ UNCHANGED open

LateRefusal ==
  /\ lateBody # Undefined
  /\ lateBody' = Undefined
  /\ LET b == Refuse(binding, "unknown", lateBody, Undefined, TRUE) IN
       /\ binding' = b
       /\ overtaken' = (overtaken \/ (b.refusal # binding.refusal /\ inflight.phase = "sent"))
  /\ UNCHANGED <<inflight, followUp, requests, calls, server, unchecked, open>>

(* The promise settles: its waiters wake, and what was queued starts if the
   binding is still refused. *)
KeyCheckSettles ==
  /\ inflight.phase = "settled"
  /\ inflight' = IF followUp /\ binding.state = "refused" THEN KeyCheckSent(binding) ELSE NoKeyCheck
  /\ followUp' = FALSE
  /\ overtaken' = FALSE
  /\ calls' = [c \in Call |-> IF calls[c].phase = "waiting" THEN [calls[c] EXCEPT !.phase = "woken"] ELSE calls[c]]
  /\ UNCHANGED <<binding, lateBody, requests, server, unchecked, open>>

-----------------------------------------------------------------------------
(* Data requests. *)

(* Transport.attempt: nothing is sent while refused. *)
Send(d) ==
  /\ requests[d].phase = "new" /\ binding.state # "refused"
  /\ requests' = [requests EXCEPT ![d].phase = "sent", ![d].dispatchedAt = binding.generation]
  /\ UNCHANGED <<binding, inflight, followUp, lateBody, calls, server, history>>

(* External. *)
Serve(d) ==
  /\ requests[d].phase = "sent" /\ requests[d].answer = NoAnswer
  /\ requests' = [requests EXCEPT ![d].answer = key]
  /\ UNCHANGED <<binding, inflight, followUp, lateBody, calls, server, history>>

(* A 2xx, no answer at all, or an unclassified failure. *)
EndUnrefused(d) ==
  /\ requests[d].phase = "sent" /\ requests[d].answer \notin {"alert_only", "hard_deny"}
  /\ requests' = [requests EXCEPT ![d].phase = "done"]
  /\ UNCHANGED <<binding, inflight, followUp, lateBody, calls, server, history>>

(* A 401's status. *)
Status(d) ==
  LET b == RefuseAtStatus(binding) IN
  /\ requests[d].phase = "sent" /\ requests[d].answer \in {"alert_only", "hard_deny"}
  /\ RevalidateSoon(b)
  /\ requests' = [requests EXCEPT ![d].phase = "status", ![d].ownStatus = b.refusalGen]
  /\ Recorded(TRUE)
  /\ unchecked' = TRUE
  /\ open' = open \cup {d}
  /\ UNCHANGED <<lateBody, calls, server>>

(* Its body: the posture it names, or none that can be read. *)
Body(d) ==
  /\ requests[d].phase = "status"
  /\ \E posture \in {requests[d].answer, "unknown"} :
       LET b == Refuse(binding, posture, requests[d].dispatchedAt, requests[d].ownStatus, FALSE) IN
         /\ RevalidateSoon(b)
         /\ Recorded(b.refusal # binding.refusal)
  /\ requests' = [requests EXCEPT ![d].phase = "done"]
  /\ open' = open \ {d}
  /\ UNCHANGED <<lateBody, calls, server, unchecked>>

(* A 400, 403 or 404 whose body names the project or the scope. *)
ProjectRefusal(d) ==
  /\ requests[d].phase = "sent" /\ requests[d].answer = "project"
  /\ RevalidateSoon(Refuse(binding, "unknown", requests[d].dispatchedAt, Undefined, FALSE))
  /\ Recorded(TRUE)
  /\ requests' = [requests EXCEPT ![d].phase = "done"]
  /\ UNCHANGED <<lateBody, calls, server, unchecked, open>>

-----------------------------------------------------------------------------
(* Budget checks: gate, check, exit. *)

(* #decide, for a call. *)
Decide(c) ==
  calls' = [calls EXCEPT ![c] =
    CASE Verdict = "proceed" -> [@ EXCEPT !.phase = "running", !.generation = binding.generation,
                                          !.asOf = binding.notified]
      [] Verdict = "block" -> [@ EXCEPT !.phase = "blocked"]
      [] Verdict = "allow_unmetered" -> [@ EXCEPT !.phase = "unmetered"]]

(* gateNow. *)
GateNow(c) ==
  /\ calls[c].phase = "new" /\ ~RevalidationDue
  /\ Decide(c)
  /\ UNCHANGED <<binding, inflight, followUp, lateBody, requests, server, history>>

(* gate: the call starts the key check that is due, or joins it. *)
GateWaits(c) ==
  /\ calls[c].phase = "new" /\ RevalidationDue
  /\ calls' = [calls EXCEPT ![c].phase = "waiting"]
  /\ IF inflight.phase = "none" THEN StartKeyCheck ELSE UNCHANGED <<inflight, overtaken>>
  /\ UNCHANGED <<binding, followUp, lateBody, requests, server, unchecked, open>>

GateDecides(c) ==
  /\ calls[c].phase = "woken"
  /\ Decide(c)
  /\ UNCHANGED <<binding, inflight, followUp, lateBody, requests, server, history>>

(* A plausible bug: the exit looks for a refusal only. *)
ExitWithoutGeneration(c, result) ==
  CASE Verdict = "block" -> [calls[c] EXCEPT !.phase = "blocked"]
    [] Verdict = "allow_unmetered" ->
         [calls[c] EXCEPT !.phase = IF result = "allowed" THEN "unmetered" ELSE "denied"]
    [] OTHER -> [calls[c] EXCEPT !.phase = result]

(* exitDecision and what gatedCheck makes of it: keep, discard, or run the
   check once more from the gate. *)
ExitOf(c, result) ==
  CASE Verdict = "block" -> [calls[c] EXCEPT !.phase = "blocked"]
    [] Verdict = "allow_unmetered" ->
         [calls[c] EXCEPT !.phase = IF result = "allowed" THEN "unmetered" ELSE "denied"]
    [] Verdict = "proceed" /\ binding.generation # calls[c].generation /\ calls[c].pass = 0 ->
         [NewCall EXCEPT !.pass = 1]
    [] OTHER -> [calls[c] EXCEPT !.phase = result]

Exit(c) ==
  /\ calls[c].phase = "running"
  /\ \E result \in {"allowed", "denied"} : calls' = [calls EXCEPT ![c] = ExitOf(c, result)]
  /\ UNCHANGED <<binding, inflight, followUp, lateBody, requests, server, history>>

(* External: the key is rotated, expires, is restored; the project changes. *)
KeyChanges ==
  /\ changes < MaxChanges
  /\ changes' = changes + 1
  /\ key' \in KeyState \ {key}
  /\ UNCHANGED <<client, outages, history>>

-----------------------------------------------------------------------------
KeyCheck == KeyCheckSucceeds \/ KeyCheckRefuses \/ KeyCheckFails

Next ==
  \/ Poll \/ Validate \/ RetryElapses
  \/ ServeKeyCheck \/ KeyCheckSucceeds \/ KeyCheckRefuses \/ KeyCheckFails
  \/ LateRefusal \/ KeyCheckSettles
  \/ \E d \in DataRequest : Send(d) \/ Serve(d) \/ EndUnrefused(d) \/ Status(d) \/ Body(d) \/ ProjectRefusal(d)
  \/ \E c \in Call : GateNow(c) \/ GateWaits(c) \/ GateDecides(c) \/ Exit(c)
  \/ KeyChanges

Spec == Init /\ [][Next]_vars

(* Calls keep coming, timers fire, a request is answered or fails, microtasks
   run; bodies are bounded by the request's timeout. *)
Fairness ==
  /\ WF_vars(Poll) /\ WF_vars(RetryElapses)
  /\ WF_vars(ServeKeyCheck) /\ WF_vars(KeyCheck) /\ WF_vars(LateRefusal) /\ WF_vars(KeyCheckSettles)
  /\ \A d \in DataRequest : WF_vars(Serve(d)) /\ WF_vars(EndUnrefused(d) \/ Status(d) \/ ProjectRefusal(d))
                            /\ WF_vars(Body(d))

FairSpec == Spec /\ Fairness

-----------------------------------------------------------------------------
Rank(verdict) == CASE verdict = "proceed" -> 0 [] verdict = "allow_unmetered" -> 1 [] verdict = "block" -> 2

(* A refusal is relaxed or cleared only by the key check, and only when no
   refusal was recorded after that key check left: no delayed answer, in
   whatever order answers come, can undo a refusal it knew nothing of. *)
OnlyNewerKeyChecksRelax ==
  [][Rank(Verdict') < Rank(Verdict) => (KeyCheckSucceeds \/ KeyCheckRefuses) /\ ~overtaken]_vars

(* From a 401's status until its body is read, calls are blocked, unless a
   key check that left after the status has answered: nothing that was
   already under way opens the gate while the body is still to come.  And it
   does not wait for the retry timer: until a key check that left after it has
   ended, such a key check is under way or queued. *)
RefusalsAreRechecked ==
  /\ open # {} => Verdict = "block"
  /\ unchecked => followUp \/ (inflight.phase = "sent" /\ ~overtaken)

(* A result that the first pass of a check keeps was produced with no change
   of authority since the gate that listeners (cached allows, held leases)
   were told of, and no result is kept while a refusal is stored, except a
   denial; and listeners hear of every change of what a call is told. *)
KeptResultsAreCurrent ==
  /\ [][\A c \in Call : (calls[c].phase = "running" /\ calls'[c].phase = "allowed") =>
          Verdict = "proceed" /\ (calls[c].pass = 0 => calls[c].asOf = binding.notified)]_vars
  /\ [][Verdict' # Verdict /\ {Verdict, Verdict'} \subseteq Effect \cup {"proceed"} =>
          binding'.notified # binding.notified]_vars

(* When the key stays good, the client becomes valid again and stays so,
   whatever refusals it had recorded and whatever was under way, as long as
   calls are made and outages end.  When the key stays refused by a project
   that only alerts, a client that was valid once does not stay blocked. *)
Recovers ==
  /\ <>[](key = "good") => <>[](binding.state = "valid")
  /\ <>[](key = "alert_only" /\ binding.everValid) => <>[](Verdict # "block")
=============================================================================
