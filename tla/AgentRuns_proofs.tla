-------------------------- MODULE AgentRuns_proofs --------------------------
(***************************************************************************)
(* Theorems about what keeps an agent run alive, what pays for it and what   *)
(* ends it, for every set of runs, calls, chains, grant terms, resources,     *)
(* agents, model calls, roots and signals: the lease of a run (LeaseLedger),   *)
(* the scopes of the Node entry point, a workflow of the OpenAI Agents          *)
(* integration and the handler for LangChain.                                   *)
(*                                                                         *)
(* Each has an inductive invariant.  In the ledger an admission is a          *)
(* composition of ledger methods, so the proof first shows that each method   *)
(* leaves the ledger a Step away from where the handler found it, then that a   *)
(* call's action Lands (its ledger a Step away and the claimed renewal          *)
(* launched), and only then that IInv survives every action.  The bookkeeping    *)
(* is laid out the same way: each method either leaves the money alone, draws    *)
(* from a pool, owes the plane one more call, claims a report or ends the lease; *)
(* a handler that is Ready stays so method after method and finally Posts what   *)
(* it did to its call; answers and ends of a lease are taken one by one; and      *)
(* BooksInv, the books of the lease together with what its renewal claims,         *)
(* survives every action.                                                           *)
(*                                                                         *)
(* For the others the invariant says who holds a run.  In the scopes it is the    *)
(* pins of the executing frames and the owners of the resources, and a count of    *)
(* activations per handle; in the workflow, the one model call that may be busy     *)
(* and the runs that are still to be released; in LangChain, the scopes that runs,   *)
(* models and keys are mapped to.                                                     *)
(***************************************************************************)
EXTENDS MCAgentRuns, Sequences, FiniteSetTheorems, TLAPS

(* The lease of a run. *)

(* The fields of a LeaseState.  The proofs need its domain and the types of *)
(* few fields, so they do not rest on TypeOK.                               *)
StFields ==
  {"leaseId", "incarnation", "generation", "grantedTokens", "grantedRemaining",
   "shareRemaining", "refreshDue", "expired", "postureMode", "onUnreachable",
   "finalGrant", "declaredModels", "refusedModels", "renewalInFlight", "declaration",
   "backingOff", "pendingReport", "spent", "uncountedCalls", "uncountedTokens",
   "latch", "releasePending"}

(* t is s but for its pools, deadlines and tallies. *)
Keeps(s, t) ==
  /\ DOMAIN t = StFields
  /\ t.leaseId = s.leaseId /\ t.generation = s.generation
  /\ t.renewalInFlight = s.renewalInFlight /\ t.declaration = s.declaration
  /\ t.pendingReport = s.pendingReport
  /\ t.declaredModels = s.declaredModels /\ t.refusedModels = s.refusedModels
  /\ t.latch = s.latch /\ t.releasePending = s.releasePending

(* t is s without its lease. *)
Drops(s, t) ==
  /\ DOMAIN t = StFields
  /\ t.leaseId = NoLease /\ t.generation = 0
  /\ t.renewalInFlight = FALSE /\ t.declaration = {}
  /\ t.declaredModels = s.declaredModels /\ t.refusedModels = s.refusedModels

(* Methods that only touch pools, deadlines and tallies, or give up the lease. *)
LEMMA DropEffect ==
  ASSUME NEW s, DOMAIN s = StFields
  PROVE  /\ Drops(s, DropLease(s))
         /\ DropLease(s).latch = s.latch /\ DropLease(s).releasePending = s.releasePending
BY DEF DropLease, Drops, StFields

LEMMA CreditEffect ==
  ASSUME NEW s, DOMAIN s = StFields, NEW pool, NEW n
  PROVE  Keeps(s, Credit(s, pool, n))
BY DEF Credit, Keeps, StFields

LEMMA UncountedEffect ==
  ASSUME NEW s, DOMAIN s = StFields, NEW n
  PROVE  Keeps(s, Uncounted(s, n))
BY DEF Uncounted, Keeps, StFields

LEMMA SweptEffect ==
  ASSUME NEW s, DOMAIN s = StFields, NEW cs
  PROVE  Keeps(s, Swept(s, cs))
BY DEF Swept, Keeps, StFields

LEMMA Chosen == \A x : (CHOOSE y \in {x} : TRUE) = x
OBVIOUS

(* The fields of a declaration, an operation and a call. *)
DFields == {"lease", "generation", "chain", "added", "dispatched"}
OFields == {"lease", "generation", "chain", "added", "report", "sent", "granted"}
CFields == {"phase", "chain", "tokens", "pool", "lease", "incarnation", "outside"}

-----------------------------------------------------------------------------
(* One ledger state, and what a method may change of it. *)

(* What holds of the ledger by itself after n answers of the plane: without a *)
(* lease nothing is declared or in flight, an undecided release keeps the run *)
(* latched, and the one declaration is of the present lease and generation,   *)
(* free of refused models, and adds only models not declared yet.             *)
Good(s, n) ==
  /\ DOMAIN s = StFields
  /\ s.renewalInFlight \in BOOLEAN /\ s.latch \in Latch
  /\ s.leaseId \in Lease \cup {NoLease}
  /\ s.generation \in Nat /\ s.generation <= n
  /\ HasLease(s) => s.generation # 0
  /\ ~HasLease(s) => s.declaration = {} /\ s.renewalInFlight = FALSE
  /\ s.releasePending # NoRelease => ~HasLease(s) /\ s.latch \in {"waiting", "over"}
  /\ s.refusedModels \cap s.declaredModels = {}
  /\ \A d \in s.declaration :
       /\ DOMAIN d = DFields /\ d.lease = s.leaseId /\ d.generation = s.generation
       /\ d.chain \cap s.refusedModels = {}
       /\ d.added \subseteq d.chain /\ d.added \cap s.declaredModels = {}
  /\ \A d, e \in s.declaration : d = e

(* The exchange with the plane stands as it did, *)
Same(s, t) ==
  /\ t.leaseId = s.leaseId /\ t.generation = s.generation
  /\ t.renewalInFlight = s.renewalInFlight /\ t.declaration = s.declaration
  /\ t.pendingReport = s.pendingReport

(* or a renewal of the held lease was claimed; what was owed is declared again. *)
Claimed(s, t) ==
  /\ HasLease(s) /\ t.leaseId = s.leaseId /\ t.generation = s.generation
  /\ s.renewalInFlight = FALSE /\ t.renewalInFlight = TRUE
  /\ t.declaration # {} /\ (s.declaration # {} => t.declaration = s.declaration)
  /\ \E p : t.pendingReport = {p}

(* The latch is left alone until its deadline has passed. *)
LatchKept(s, t) ==
  \/ t.latch = s.latch /\ t.releasePending = s.releasePending
  \/ s.latch = "over" /\ t.latch = "none" /\ t.releasePending = NoRelease

(* What the methods an admission composes may do to the ledger s. *)
Step(s, t, n) ==
  /\ Good(t, n)
  /\ t.refusedModels = s.refusedModels /\ t.declaredModels = s.declaredModels
  /\ LatchKept(s, t)
  /\ Same(s, t) \/ ~HasLease(t) \/ Claimed(s, t)

(* A ledger is a Step away from itself, and Steps compose with what follows. *)
LEMMA StepRefl ==
  ASSUME NEW s, NEW n, Good(s, n)
  PROVE  Step(s, s, n)
BY DEF Step, Same, LatchKept

LEMMA StepShape ==
  ASSUME NEW s, NEW t, NEW n, Step(s, t, n)
  PROVE  DOMAIN t = StFields
BY DEF Step, Good

LEMMA KeepsGood ==
  ASSUME NEW s, NEW t, NEW n, Good(s, n), Keeps(s, t)
  PROVE  Good(t, n)
BY DEF Good, Keeps, HasLease

LEMMA StepKeeps ==
  ASSUME NEW s, NEW t, NEW u, NEW n, Step(s, t, n), Keeps(t, u)
  PROVE  Step(s, u, n)
<1>1. Good(u, n)  BY KeepsGood DEF Step
<1>2. LatchKept(s, u)  BY DEF Step, Keeps, LatchKept
<1>3. Same(s, u) \/ ~HasLease(u) \/ Claimed(s, u)
  BY DEF Step, Keeps, Same, Claimed, HasLease
<1>4. QED BY <1>1, <1>2, <1>3 DEF Step, Keeps

LEMMA StepDrops ==
  ASSUME NEW s, NEW t, NEW n, n \in Nat, Step(s, t, n)
  PROVE  Step(s, DropLease(t), n) /\ ~HasLease(DropLease(t))
<1> DEFINE u == DropLease(t)
<1>1. Drops(t, u) /\ u.latch = t.latch /\ u.releasePending = t.releasePending
  BY DropEffect DEF Step, Good
<1> HIDE DEF u
<1>2. Good(u, n) /\ ~HasLease(u)
 <2>1. Good(t, n)  BY DEF Step
 <2>2. u.renewalInFlight \in BOOLEAN  BY <1>1 DEF Drops
 <2>3. QED BY <1>1, <2>1, <2>2 DEF Good, Drops, HasLease
<1>3. LatchKept(s, u)  BY <1>1 DEF Step, LatchKept
<1>4. Step(s, u, n)  BY <1>1, <1>2, <1>3 DEF Step, Drops
<1>5. QED BY <1>2, <1>4 DEF u

LEMMA StepOpens ==
  ASSUME NEW s, NEW t, NEW n, Step(s, t, n), t.latch = "over"
  PROVE  Step(s, [t EXCEPT !.latch = "none", !.releasePending = NoRelease], n)
<1> DEFINE u == [t EXCEPT !.latch = "none", !.releasePending = NoRelease]
<1>1. /\ DOMAIN u = StFields
      /\ u.leaseId = t.leaseId /\ u.generation = t.generation
      /\ u.renewalInFlight = t.renewalInFlight /\ u.declaration = t.declaration
      /\ u.pendingReport = t.pendingReport
      /\ u.declaredModels = t.declaredModels /\ u.refusedModels = t.refusedModels
      /\ u.latch = "none" /\ u.releasePending = NoRelease
  BY DEF Step, Good, StFields
<1> HIDE DEF u
<1>2. Good(u, n)  BY <1>1 DEF Step, Good, HasLease, Latch
<1>3. LatchKept(s, u)  BY <1>1 DEF Step, LatchKept
<1>4. Same(s, u) \/ ~HasLease(u) \/ Claimed(s, u)
  BY <1>1 DEF Step, Same, Claimed, HasLease
<1>5. Step(s, u, n)  BY <1>1, <1>2, <1>3, <1>4 DEF Step
<1>6. QED BY <1>5 DEF u

(* A ledger in good order owes everything it declares. *)
LEMMA OwedIsAll ==
  ASSUME NEW s, NEW n, Good(s, n)
  PROVE  Owed(s) = s.declaration
BY DEF Good, Owed

(* Claiming a renewal for a chain without refused models is a Step. *)
LEMMA StepClaims ==
  ASSUME NEW s, NEW t, NEW n, NEW models, Step(s, t, n), ~Refuses(t, models)
  PROVE  Step(s, ClaimRenewal(t, models), n)
<1>1. CASE ~HasLease(t) \/ t.renewalInFlight
  BY <1>1 DEF ClaimRenewal
<1>2. CASE HasLease(t) /\ ~t.renewalInFlight
 <2> DEFINE u == ClaimRenewal(t, models)
            d == NewDeclaration(t, models)
 <2>1. Owed(t) = t.declaration  BY OwedIsAll DEF Step
 <2>2. /\ DOMAIN u = StFields
       /\ u.leaseId = t.leaseId /\ u.generation = t.generation
       /\ u.renewalInFlight = TRUE
       /\ u.declaration = IF t.declaration # {} THEN t.declaration ELSE {d}
       /\ u.declaredModels = t.declaredModels /\ u.refusedModels = t.refusedModels
       /\ u.latch = t.latch /\ u.releasePending = t.releasePending
   BY <1>2, <2>1 DEF Step, Good, StFields, ClaimRenewal
 <2>3. \E p : u.pendingReport = {p}
   BY <1>2 DEF Step, Good, StFields, ClaimRenewal
 <2>4. /\ DOMAIN d = DFields /\ d.lease = t.leaseId /\ d.generation = t.generation
       /\ d.chain = models /\ d.added = models \ t.declaredModels
   BY DEF NewDeclaration, DFields
 <2> HIDE DEF u, d
 <2>5. t.renewalInFlight = FALSE  BY <1>2 DEF Step, Good
 <2>6. \A e \in u.declaration :
      /\ DOMAIN e = DFields /\ e.lease = u.leaseId /\ e.generation = u.generation
      /\ e.chain \cap u.refusedModels = {}
      /\ e.added \subseteq e.chain /\ e.added \cap u.declaredModels = {}
  <3>1. CASE t.declaration # {}
    BY <2>2, <3>1 DEF Step, Good
  <3>2. CASE t.declaration = {}
    BY <2>2, <2>4, <3>2 DEF Refuses
  <3>3. QED BY <3>1, <3>2
 <2>7. Good(u, n)  BY <1>2, <2>2, <2>6 DEF Step, Good, HasLease
 <2>8. Claimed(s, u)  BY <1>2, <2>2, <2>3, <2>5 DEF Step, Same, Claimed, HasLease
 <2>9. Step(s, u, n)  BY <2>2, <2>7, <2>8 DEF Step, LatchKept
 <2>10. QED BY <2>9 DEF u
<1>3. QED BY <1>1, <1>2

-----------------------------------------------------------------------------
(* Admission *)

(* What an admission of `models` on the ledger t leaves in its verdict v. *)
AdmitsWell(s, v, models, n) ==
  /\ Step(s, v.st, n)
  /\ v.due => ~Refuses(v.st, models)
  /\ v.decision = "needGrant" =>
       ~HasLease(v.st) /\ v.st.latch = "none" /\ ~Refuses(v.st, models)

LEMMA VerdictWell ==
  ASSUME NEW s, NEW t, NEW n, NEW models, NEW decision, NEW pool, NEW due, NEW outside,
         Step(s, t, n), due => ~Refuses(t, models), decision # "needGrant"
  PROVE  AdmitsWell(s, Verdict(decision, t, pool, due, outside), models, n)
<1> DEFINE v == Verdict(decision, t, pool, due, outside)
<1>1. v.st = t /\ v.due = due /\ v.decision = decision
  BY DEF Verdict
<1> HIDE DEF v
<1>2. AdmitsWell(s, v, models, n)  BY <1>1 DEF AdmitsWell
<1>3. QED BY <1>2 DEF v

LEMMA NeedGrantWell ==
  ASSUME NEW s, NEW t, NEW n, NEW models, Step(s, t, n), ~Refuses(t, models),
         ~HasLease(t), t.latch = "none"
  PROVE  AdmitsWell(s, NeedGrant(t), models, n)
BY DEF AdmitsWell, NeedGrant, Verdict

LEMMA DrawWell ==
  ASSUME NEW s, NEW t, NEW n, NEW models, NEW est, Step(s, t, n)
  PROVE  AdmitsWell(s, DrawShare(t, est), models, n)
<1>1. Keeps(t, Credit(t, "share", 0 - est))  BY CreditEffect, StepShape
<1>a. Step(s, Credit(t, "share", 0 - est), n)  BY <1>1, StepKeeps
<1>2. AdmitsWell(s, Verdict("metered", Credit(t, "share", 0 - est), "share", FALSE, FALSE), models, n)
  BY <1>a, VerdictWell
<1>3. AdmitsWell(s, Verdict("deny", t, "none", FALSE, FALSE), models, n)  BY VerdictWell
<1>4. QED BY <1>2, <1>3 DEF DrawShare

LEMMA LiveWell ==
  ASSUME NEW s, NEW t, NEW n, NEW models, NEW est, NEW open, Step(s, t, n), ~Refuses(t, models)
  PROVE  AdmitsWell(s, AdmitLive(t, est, open), models, n)
<1> DEFINE u == Credit(t, "granted", 0 - est)
<1>1. Keeps(t, u)  BY CreditEffect, StepShape
<1> HIDE DEF u
<1>a. Step(s, u, n)  BY <1>1, StepKeeps
<1>2. ~Refuses(u, models)  BY <1>1 DEF Keeps, Refuses
<1>3. AdmitsWell(s, Verdict("local", u, "granted", RenewalDue(u), FALSE), models, n)
  BY <1>a, <1>2, VerdictWell
<1>4. AdmitsWell(s, Legacy(t, RenewalDue(t)), models, n)  BY VerdictWell DEF Legacy
<1>5. AdmitsWell(s, DrawShare(t, est), models, n)  BY DrawWell
<1>6. QED BY <1>3, <1>4, <1>5 DEF AdmitLive, u

LEMMA DroppedWell ==
  ASSUME NEW s, NEW t, NEW n, n \in Nat, NEW models, Step(s, t, n), ~Refuses(t, models),
         t.latch = "none"
  PROVE  AdmitsWell(s, NeedGrant(DropLease(t)), models, n)
<1>1. Step(s, DropLease(t), n) /\ ~HasLease(DropLease(t))
  BY StepDrops
<1>2. DropLease(t).latch = "none" /\ ~Refuses(DropLease(t), models)
  BY DropEffect DEF Step, Good, Drops, Refuses
<1>3. QED BY <1>1, <1>2, NeedGrantWell

LEMMA UnlatchedWell ==
  ASSUME NEW s, NEW t, NEW n, n \in Nat, NEW models, NEW est, NEW open \in BOOLEAN,
         Step(s, t, n), t.latch = "none"
  PROVE  AdmitsWell(s, AdmitUnlatched(t, models, est, open), models, n)
<1>1. CASE Refuses(t, models)
 <2>1. AdmitsWell(s, Legacy(t, FALSE), models, n)  BY VerdictWell DEF Legacy
 <2>2. QED BY <1>1, <2>1 DEF AdmitUnlatched
<1>2. CASE ~Refuses(t, models) /\ ~HasLease(t)
  BY <1>2, NeedGrantWell DEF AdmitUnlatched
<1>3. CASE ~Refuses(t, models) /\ HasLease(t)
 <2>1. AdmitsWell(s, AdmitOutside(t, open), models, n)
  <3>1. AdmitsWell(s, Verdict("legacy", t, "none", FALSE, TRUE), models, n)  BY VerdictWell
  <3>2. QED BY <1>3, <3>1, DroppedWell DEF AdmitOutside
 <2>2. AdmitsWell(s, AdmitExpired(t, est, open), models, n)
  <3>1. Step(s, Uncounted(t, est), n)  BY UncountedEffect, StepKeeps, StepShape
  <3>2. AdmitsWell(s, Verdict("uncounted", Uncounted(t, est), "uncounted", FALSE, FALSE), models, n)
    BY <3>1, VerdictWell
  <3>3. QED BY <1>3, <3>2, DrawWell, DroppedWell DEF AdmitExpired
 <2>3. AdmitsWell(s, AdmitLive(t, est, open), models, n)  BY <1>3, LiveWell
 <2>4. QED BY <1>3, <2>1, <2>2, <2>3 DEF AdmitUnlatched
<1>4. QED BY <1>1, <1>2, <1>3

(* Whatever admit decides, the ledger it leaves is a Step away, and it asks for a
   grant only when the run has no lease, no latch and no refused model in `models`. *)
LEMMA AdmitWell ==
  ASSUME NEW s, NEW t, NEW n, n \in Nat, NEW models, NEW est, NEW open \in BOOLEAN,
         Step(s, t, n)
  PROVE  AdmitsWell(s, AdmitOn(t, models, est, open), models, n)
<1>1. CASE t.latch \in {"waiting", "forever"}
 <2>1. AdmitsWell(s, Legacy(t, FALSE), models, n)  BY VerdictWell DEF Legacy
 <2>2. QED BY <1>1, <2>1 DEF AdmitOn
<1>2. CASE t.latch = "over"
 <2> DEFINE u == [t EXCEPT !.latch = "none", !.releasePending = NoRelease]
 <2>1. Step(s, u, n)  BY <1>2, StepOpens
 <2>2. u.latch = "none"  BY DEF Step, Good, StFields
 <2> HIDE DEF u
 <2>3. AdmitsWell(s, AdmitUnlatched(u, models, est, open), models, n)  BY <2>1, <2>2, UnlatchedWell
 <2>4. QED BY <1>2, <2>3 DEF AdmitOn, u
<1>3. CASE t.latch = "none"
  BY <1>3, UnlatchedWell DEF AdmitOn
<1>4. QED BY <1>1, <1>2, <1>3 DEF Step, Good, Latch

(* Claiming a due renewal, or a widening, after the admission is a Step too. *)
LEMMA ScheduleWell ==
  ASSUME NEW s, NEW t, NEW n, NEW models, NEW due, Step(s, t, n), due => ~Refuses(t, models)
  PROVE  Step(s, Schedule(t, due, models), n)
BY StepClaims DEF Schedule

LEMMA WideningWell ==
  ASSUME NEW s, NEW t, NEW n, NEW models, Step(s, t, n)
  PROVE  Step(s, ClaimWidening(t, models), n)
BY StepClaims DEF ClaimWidening

LEMMA SweptWell ==
  ASSUME NEW s, NEW t, NEW n, NEW cs, Step(s, t, n)
  PROVE  Step(s, Swept(t, cs), n)
BY SweptEffect, StepKeeps, StepShape

-----------------------------------------------------------------------------
(* What a call's action does *)

(* cs is call with some reservations swept. *)
CallsAs(cs) ==
  /\ DOMAIN cs = Call
  /\ \A b \in Call :
       /\ DOMAIN cs[b] = CFields /\ cs[b].chain = call[b].chain
       /\ cs[b].phase = "granting" <=> call[b].phase = "granting"

(* A step of call c that leaves it outside the grant and the ledger a Step  *)
(* away from s.                                                             *)
Lands(c, s, n) ==
  /\ Step(s, st', n)
  /\ renewals' = Launched(st')
  /\ DOMAIN call' = Call
  /\ \A b \in Call :
       /\ DOMAIN call'[b] = CFields
       /\ b # c => /\ call'[b].chain = call[b].chain
                   /\ call'[b].phase = "granting" <=> call[b].phase = "granting"
  /\ call'[c].phase # "granting"

(* Every way a check may end lands. *)
LEMMA WriteLands ==
  ASSUME NEW c \in Call, NEW s, NEW n, NEW k, NEW t, NEW cs,
         Step(s, t, n), CallsAs(cs), DOMAIN k = CFields, k.phase # "granting",
         Write(c, k, t, cs)
  PROVE  Lands(c, s, n)
BY DEF Write, Lands, CallsAs

LEMMA SweepCalls ==
  ASSUME NEW cs, CallsAs(cs)
  PROVE  CallsAs(Sweep(cs))
<1>1. DOMAIN Sweep(cs) = Call  BY DEF Sweep
<1>2. ASSUME NEW b \in Call
      PROVE  /\ DOMAIN Sweep(cs)[b] = CFields /\ Sweep(cs)[b].chain = call[b].chain
             /\ Sweep(cs)[b].phase = "granting" <=> call[b].phase = "granting"
  BY DEF Sweep, CallsAs, CFields
<1>3. QED BY <1>1, <1>2 DEF CallsAs

LEMMA OverShape ==
  /\ DOMAIN Over = CFields /\ Over.phase = "done"
  /\ \A k : DOMAIN Uncovered(k) = CFields /\ Uncovered(k).phase = "done"
BY DEF Over, Uncovered, NewCall, CFields

LEMMA ImmediateLands ==
  ASSUME NEW c \in Call, NEW s, NEW n, NEW k, NEW v, NEW cs,
         AdmitsWell(s, v, k.chain, n), CallsAs(cs), DOMAIN k = CFields,
         Immediate(c, k, v, cs)
  PROVE  Lands(c, s, n)
<1>1. Step(s, v.st, n) /\ (v.due => ~Refuses(v.st, k.chain))
  BY DEF AdmitsWell
<1>2. Step(s, Schedule(v.st, v.due, k.chain), n)  BY <1>1, ScheduleWell
<1>3. DOMAIN Holding(k, v) = CFields /\ Holding(k, v).phase # "granting"
  BY DEF Holding, CFields
<1>4. CASE Write(c, Holding(k, v), Schedule(v.st, v.due, k.chain), cs)
  BY <1>2, <1>3, <1>4, WriteLands
<1>5. CASE Write(c, Uncovered(k), v.st, cs)
 <2>1. DOMAIN Uncovered(k) = CFields /\ Uncovered(k).phase # "granting"
   BY OverShape
 <2>2. QED BY <1>1, <1>5, <2>1, WriteLands
<1>6. CASE Write(c, Over, v.st, cs)
 <2>1. DOMAIN Over = CFields /\ Over.phase # "granting"
   BY OverShape
 <2>2. QED BY <1>1, <1>6, <2>1, WriteLands
<1>7. QED BY <1>4, <1>5, <1>6 DEF Immediate

LEMMA ColdOutageLands ==
  ASSUME NEW c \in Call, NEW s, NEW n, NEW k, NEW t, NEW cs,
         Step(s, t, n), CallsAs(cs), ColdOutage(c, k, t, cs)
  PROVE  Lands(c, s, n)
<1>1. Keeps(t, Uncounted(t, k.tokens))  BY UncountedEffect, StepShape
<1>2. Step(s, Uncounted(t, k.tokens), n)  BY <1>1, StepKeeps
<1>3. /\ DOMAIN Uncovered(k) = CFields /\ Uncovered(k).phase # "granting"
      /\ DOMAIN Over = CFields /\ Over.phase # "granting"
  BY OverShape
<1>4. CASE Write(c, Uncovered(k), Uncounted(t, k.tokens), cs)
  BY <1>2, <1>3, <1>4, WriteLands
<1>5. CASE Write(c, Over, t, cs)
  BY <1>3, <1>5, WriteLands
<1>6. QED BY <1>4, <1>5 DEF ColdOutage

LEMMA ReentryLands ==
  ASSUME NEW c \in Call, NEW s, NEW n, n \in Nat, NEW k, NEW t, NEW cs,
         Step(s, t, n), CallsAs(cs), DOMAIN k = CFields, Reentry(c, k, t, cs)
  PROVE  Lands(c, s, n)
<1> DEFINE v == AdmitOn(Swept(t, cs), k.chain, k.tokens, TRUE)
<1>1. Step(s, Swept(t, cs), n)  BY SweptWell
<1>2. AdmitsWell(s, v, k.chain, n)  BY <1>1, AdmitWell
<1>3. \/ Immediate(c, k, v, Sweep(cs))
      \/ ColdOutage(c, k, v.st, Sweep(cs))
      \/ Write(c, Over, v.st, Sweep(cs))
  BY DEF Reentry
<1> HIDE DEF v
<1>4. Step(s, v.st, n) /\ CallsAs(Sweep(cs))
  BY <1>2, SweepCalls DEF AdmitsWell
<1>5. DOMAIN Over = CFields /\ Over.phase # "granting"
  BY OverShape
<1>6. CASE Immediate(c, k, v, Sweep(cs))
  BY <1>2, <1>4, <1>6, ImmediateLands
<1>7. CASE ColdOutage(c, k, v.st, Sweep(cs))
  BY <1>4, <1>7, ColdOutageLands
<1>8. CASE Write(c, Over, v.st, Sweep(cs))
  BY <1>4, <1>5, <1>8, WriteLands
<1>9. QED BY <1>3, <1>6, <1>7, <1>8

LEMMA PerCallLands ==
  ASSUME NEW c \in Call, NEW s, NEW n, n \in Nat, NEW k, NEW t, NEW cs,
         Step(s, t, n), CallsAs(cs), DOMAIN k = CFields, PerCall(c, k, t, cs)
  PROVE  Lands(c, s, n)
<1>1. DOMAIN Over = CFields /\ Over.phase # "granting"
  BY OverShape
<1>2. DOMAIN [k EXCEPT !.phase = "asking"] = CFields /\ [k EXCEPT !.phase = "asking"].phase # "granting"
  BY DEF CFields
<1>3. CASE Write(c, Over, t, cs)
  BY <1>1, <1>3, WriteLands
<1>4. CASE Write(c, [k EXCEPT !.phase = "asking"], t, cs)
  BY <1>2, <1>4, WriteLands
<1>5. CASE Reentry(c, k, t, cs)
  BY <1>5, ReentryLands
<1>6. QED BY <1>3, <1>4, <1>5 DEF PerCall

-----------------------------------------------------------------------------
(* The renewals in flight, and what the plane was told. *)

HFields == {"spend", "granted", "shareBase", "shareGrant", "calls", "tokens", "said"}

(* The plane numbers its answers, so a generation names one renewal. *)
RenewalsOK(R, n) ==
  /\ \A r \in R : /\ DOMAIN r = OFields /\ r.lease \in Lease
                  /\ r.generation \in 1 .. n
  /\ \A r, q \in R : r.generation = q.generation => r = q

(* The mark and the declaration of s belong to an operation of R. *)
OwnedBy(s, R) ==
  /\ s.renewalInFlight => \E r \in R : AtOrigin(s, r)
  /\ \A r \in R : HasLease(s) /\ r.generation = s.generation =>
       /\ r.lease = s.leaseId /\ s.renewalInFlight = TRUE
       /\ s.pendingReport = {r.report}
       /\ \E d \in s.declaration : d.chain = r.chain /\ d.added = r.added

(* What the plane was told of a generation is what the renewal that carries it *)
(* declares; when none is left it is the declaration s keeps as dispatched.    *)
SaidOK(s, R, n, said) ==
  /\ DOMAIN said = 1 .. MaxGen
  /\ \A g \in 1 .. MaxGen : /\ g > n => said[g] = {}
                            /\ \A x, y \in said[g] : x = y
  /\ \A r \in R : said[r.generation] \subseteq {r.chain}
  /\ HasLease(s) /\ said[s.generation] # {} =>
       \E d \in s.declaration : d.dispatched /\ said[s.generation] \subseteq {d.chain}

(* The operation launched carries what the claim declared and reports. *)
LEMMA OperationFields ==
  ASSUME NEW t, NEW d, t.declaration = {d}, NEW p, t.pendingReport = {p}
  PROVE  /\ DOMAIN OperationOf(t) = OFields
         /\ OperationOf(t).lease = t.leaseId /\ OperationOf(t).generation = t.generation
         /\ OperationOf(t).chain = d.chain /\ OperationOf(t).added = d.added
         /\ OperationOf(t).report = p
BY Chosen DEF OperationOf, OFields

(* After a Step whose claim, if it made one, is launched, the mark has its owner. *)
LEMMA LaunchOwned ==
  ASSUME NEW s, NEW t, NEW n, n \in 0 .. MaxGen, NEW said,
         Good(s, n), Step(s, t, n), s.renewalInFlight = st.renewalInFlight,
         RenewalsOK(renewals, n), OwnedBy(s, renewals), SaidOK(s, renewals, n, said)
  PROVE  /\ RenewalsOK(Launched(t), n) /\ OwnedBy(t, Launched(t))
         /\ SaidOK(t, Launched(t), n, said)
<1>1. CASE Same(s, t)
 <2>1. Launched(t) = renewals  BY <1>1 DEF Launched, Same, Good
 <2>2. OwnedBy(t, renewals)  BY <1>1 DEF OwnedBy, Same, AtOrigin, HasLease
 <2>3. SaidOK(t, renewals, n, said)  BY <1>1 DEF SaidOK, Same, HasLease
 <2>4. QED BY <2>1, <2>2, <2>3
<1>2. CASE ~HasLease(t)
 <2>1. t.renewalInFlight = FALSE  BY <1>2 DEF Step, Good
 <2>2. Launched(t) = renewals  BY <2>1 DEF Launched
 <2>3. OwnedBy(t, renewals)  BY <1>2, <2>1 DEF OwnedBy
 <2>4. SaidOK(t, renewals, n, said)  BY <1>2 DEF SaidOK
 <2>5. QED BY <2>2, <2>3, <2>4
<1>3. CASE Claimed(s, t)
 <2> DEFINE op == OperationOf(t)
 <2>1. PICK d \in t.declaration : TRUE
   BY <1>3 DEF Claimed
 <2>2. t.declaration = {d}  BY <2>1 DEF Step, Good
 <2>3. PICK p : t.pendingReport = {p}
   BY <1>3 DEF Claimed
 <2>4. /\ DOMAIN op = OFields /\ op.lease = t.leaseId /\ op.generation = t.generation
       /\ op.chain = d.chain /\ op.added = d.added /\ op.report = p
  <3>1. /\ DOMAIN OperationOf(t) = OFields
        /\ OperationOf(t).lease = t.leaseId /\ OperationOf(t).generation = t.generation
        /\ OperationOf(t).chain = d.chain /\ OperationOf(t).added = d.added
        /\ OperationOf(t).report = p
    BY <2>2, <2>3, OperationFields
  <3>2. QED BY <3>1
 <2>5. Launched(t) = renewals \cup {op}  BY <1>3 DEF Launched, Claimed
 <2> HIDE DEF op
 <2>6. /\ HasLease(t) /\ HasLease(s) /\ t.generation = s.generation /\ t.leaseId = s.leaseId
       /\ t.generation \in 1 .. n /\ t.leaseId \in Lease
       /\ s.renewalInFlight = FALSE /\ t.renewalInFlight = TRUE
   BY <1>3 DEF Claimed, Step, Good, HasLease
 <2>7. \A r \in renewals : r.generation # t.generation
   BY <2>6 DEF OwnedBy
 <2>8. RenewalsOK(renewals \cup {op}, n)  BY <2>4, <2>6, <2>7 DEF RenewalsOK
 <2>9. OwnedBy(t, renewals \cup {op})  BY <2>2, <2>3, <2>4, <2>6, <2>7 DEF OwnedBy, AtOrigin
 <2>10. said[s.generation] # {} => d.dispatched /\ said[s.generation] \subseteq {d.chain}
   BY <1>3, <2>2, <2>6 DEF SaidOK, Claimed
 <2>11. SaidOK(t, renewals \cup {op}, n, said)
  <3>1. said[op.generation] \subseteq {op.chain}  BY <2>4, <2>6, <2>10
  <3>2. HasLease(t) /\ said[t.generation] # {} =>
          \E e \in t.declaration : e.dispatched /\ said[t.generation] \subseteq {e.chain}
    BY <2>2, <2>6, <2>10
  <3>3. QED BY <3>1, <3>2 DEF SaidOK
 <2>12. QED BY <2>5, <2>8, <2>9, <2>11
<1>4. QED BY <1>1, <1>2, <1>3 DEF Step

-----------------------------------------------------------------------------
(* A grant is installed. *)

LEMMA SettledReport ==
  ASSUME NEW s, DOMAIN s = StFields
  PROVE  LET t == SettlePendingReport(s) IN
         /\ DOMAIN t = StFields /\ t.leaseId = s.leaseId /\ t.generation = s.generation
         /\ t.renewalInFlight = s.renewalInFlight /\ t.declaration = s.declaration
         /\ t.declaredModels = s.declaredModels /\ t.refusedModels = s.refusedModels
         /\ t.latch = s.latch /\ t.releasePending = s.releasePending
BY DEF SettlePendingReport, StFields

(* t is s after a grant of `lease` at generation gen for `models`. *)
Installs(s, t, lease, gen, models) ==
  /\ DOMAIN t = StFields /\ t.leaseId = lease /\ t.generation = gen
  /\ t.renewalInFlight = FALSE /\ t.declaration = {}
  /\ t.declaredModels = IF s.leaseId = lease THEN s.declaredModels \cup models ELSE models
  /\ t.refusedModels = s.refusedModels
  /\ t.latch = "none" /\ t.releasePending = NoRelease

(* What applyGrantResponse leaves, whatever was reported or carried over. *)
LEMMA InstallEffect ==
  ASSUME NEW s, DOMAIN s = StFields, NEW lease, NEW gen, NEW terms, NEW models
  PROVE  Installs(s, Install(s, lease, gen, terms, models), lease, gen, models)
<1> DEFINE same == s.leaseId = lease
           u == [s EXCEPT
                  !.incarnation = IF same THEN @ ELSE @ + 1,
                  !.spent = IF same THEN @ ELSE 0,
                  !.leaseId = lease, !.generation = gen, !.grantedTokens = terms.granted,
                  !.grantedRemaining = terms.granted - (IF same THEN CarriedGranted(s) ELSE 0),
                  !.shareRemaining = terms.share - (IF same THEN Live(s, "share") ELSE 0),
                  !.refreshDue = FALSE, !.expired = FALSE, !.finalGrant = terms.final,
                  !.postureMode = terms.mode,
                  !.onUnreachable = IF FailOpen THEN terms.unreachable ELSE "local_enforce",
                  !.declaredModels = IF same THEN @ \cup models ELSE models,
                  !.renewalInFlight = FALSE, !.declaration = {}, !.backingOff = FALSE,
                  !.latch = "none", !.releasePending = NoRelease]
<1>1. /\ DOMAIN u = StFields /\ u.leaseId = lease /\ u.generation = gen
      /\ u.renewalInFlight = FALSE /\ u.declaration = {}
      /\ u.declaredModels = IF s.leaseId = lease THEN s.declaredModels \cup models ELSE models
      /\ u.refusedModels = s.refusedModels
      /\ u.latch = "none" /\ u.releasePending = NoRelease
  BY DEF StFields
<1>2. Install(s, lease, gen, terms, models) = SettlePendingReport(u)  BY DEF Install
<1> HIDE DEF u
<1> DEFINE t == SettlePendingReport(u)
<1>3. /\ DOMAIN t = StFields /\ t.leaseId = u.leaseId /\ t.generation = u.generation
      /\ t.renewalInFlight = u.renewalInFlight /\ t.declaration = u.declaration
      /\ t.declaredModels = u.declaredModels /\ t.refusedModels = u.refusedModels
      /\ t.latch = u.latch /\ t.releasePending = u.releasePending
  BY <1>1, SettledReport
<1> HIDE DEF t
<1>4. Installs(s, t, lease, gen, models)  BY <1>1, <1>3 DEF Installs
<1>5. QED BY <1>2, <1>4 DEF t

(* The lease t, of answer n, is new to every renewal of R and to the plane. *)
NewLease(t, R, n, said) ==
  /\ Good(t, n) /\ HasLease(t) /\ t.renewalInFlight = FALSE
  /\ t.latch = "none" /\ t.releasePending = NoRelease
  /\ RenewalsOK(R, n) /\ OwnedBy(t, R) /\ SaidOK(t, R, n, said)

LEMMA InstallGood ==
  ASSUME NEW s, NEW R, NEW said, NEW n \in Nat, n + 1 <= MaxGen, MaxGen \in Nat,
         NEW lease \in Lease, NEW terms, NEW models,
         Good(s, n), models \cap s.refusedModels = {},
         RenewalsOK(R, n), SaidOK(s, R, n, said)
  PROVE  NewLease(Install(s, lease, n + 1, terms, models), R, n + 1, said)
<1> DEFINE t == Install(s, lease, n + 1, terms, models)
<1>0. NoLease \notin Lease  BY LedgerAssumption
<1>i. Installs(s, t, lease, n + 1, models)
 <2>1. DOMAIN s = StFields  BY DEF Good
 <2>2. QED BY <2>1, InstallEffect
<1> HIDE DEF t
<1>1. /\ DOMAIN t = StFields /\ t.leaseId = lease /\ t.generation = n + 1
      /\ t.renewalInFlight = FALSE /\ t.declaration = {}
      /\ t.declaredModels = IF s.leaseId = lease THEN s.declaredModels \cup models ELSE models
      /\ t.refusedModels = s.refusedModels
      /\ t.latch = "none" /\ t.releasePending = NoRelease
  BY <1>i DEF Installs
<1>2. HasLease(t) /\ t.renewalInFlight \in BOOLEAN /\ t.latch \in Latch
  BY <1>0, <1>1 DEF HasLease, Latch
<1>3. t.refusedModels \cap t.declaredModels = {}  BY <1>1 DEF Good
<1>4. Good(t, n + 1)  BY <1>1, <1>2, <1>3 DEF Good
<1>5. RenewalsOK(R, n + 1)  BY DEF RenewalsOK
<1>6. OwnedBy(t, R)  BY <1>1 DEF OwnedBy, RenewalsOK
<1>7. SaidOK(t, R, n + 1, said)
 <2>1. n + 1 \in 1 .. MaxGen /\ said[n + 1] = {}
   BY DEF SaidOK
 <2>2. said[t.generation] = {}  BY <1>1, <2>1
 <2>3. \A g \in 1 .. MaxGen : g > n + 1 => g > n
   OBVIOUS
 <2>4. QED BY <2>2, <2>3 DEF SaidOK
<1>8. QED BY <1>1, <1>2, <1>4, <1>5, <1>6, <1>7 DEF t, NewLease

-----------------------------------------------------------------------------
(* The inductive invariant. *)

(* One grant is in flight, of the one call that waits for it, for a run that is *)
(* neither latched nor leased and needs no refused model.                       *)
CallsOK ==
  /\ DOMAIN call = Call
  /\ \A c \in Call : DOMAIN call[c] = CFields /\ (call[c].phase = "granting" <=> granting = c)
  /\ granting \in Call \cup {NoCall}
  /\ granting # NoCall =>
       ~HasLease(st) /\ st.latch = "none" /\ ~Refuses(st, call[granting].chain)

(* Tokens of releases differ from "no release". *)
ReleasesOK == lastRelease \in Nat /\ releases \subseteq Nat \ {0}

(* Only together are these inductive: the declaration that keeps a retry from   *)
(* saying something else (SaidOK) is kept only because the renewal that answers *)
(* for it is the one of its generation (RenewalsOK, OwnedBy), and a refusal     *)
(* adds to refusedModels only what that declaration adds (Good).                *)
IInv ==
  /\ planeGen \in 0 .. MaxGen
  /\ DOMAIN hist = HFields
  /\ Good(st, planeGen)
  /\ RenewalsOK(renewals, planeGen)
  /\ OwnedBy(st, renewals)
  /\ SaidOK(st, renewals, planeGen, hist.said)
  /\ CallsOK
  /\ ReleasesOK

LEMMA InitInv == Init => IInv
<1> SUFFICES ASSUME Init
             PROVE  IInv
  OBVIOUS
<1>0. MaxGen \in Nat /\ NoLease \notin Lease /\ NoCall \notin Call
  BY LedgerAssumption
<1>1. /\ DOMAIN st = StFields /\ st.leaseId = NoLease /\ st.generation = 0
      /\ st.renewalInFlight = FALSE /\ st.declaration = {} /\ st.pendingReport = {}
      /\ st.declaredModels = {} /\ st.refusedModels = {}
      /\ st.latch = "none" /\ st.releasePending = NoRelease
  BY DEF Init, FreshState, StFields
<1>2. Good(st, planeGen)
 <2>1. st.renewalInFlight \in BOOLEAN /\ st.latch \in Latch
   BY <1>1 DEF Latch
 <2>2. QED BY <1>0, <1>1, <2>1 DEF Good, HasLease, Init
<1>3. RenewalsOK(renewals, planeGen) /\ OwnedBy(st, renewals)
  BY <1>1 DEF Init, RenewalsOK, OwnedBy
<1>4. DOMAIN hist = HFields /\ hist.said = [g \in 1 .. MaxGen |-> {}]
  BY DEF Init, HFields
<1>5. SaidOK(st, renewals, planeGen, hist.said)  BY <1>1, <1>4 DEF SaidOK, Init, HasLease
<1>6. CallsOK  BY <1>0 DEF CallsOK, Init, NewCall, CFields
<1>7. QED BY <1>0, <1>2, <1>3, <1>4, <1>5, <1>6 DEF IInv, Init, ReleasesOK

LEMMA SinceSaid ==
  ASSUME NEW s, DOMAIN hist = HFields
  PROVE  DOMAIN Since(s) = HFields /\ Since(s).said = hist.said
BY DEF Since, HFields

(* What follows from a call's step that starts at a ledger s all the facts of *)
(* the invariant hold of.                                                      *)
LEMMA LandInv ==
  ASSUME IInv, NEW c \in Call, NEW s, NEW n \in 0 .. MaxGen, Lands(c, s, n),
         planeGen' = n, hist'.said = hist.said, DOMAIN hist' = HFields,
         Good(s, n), s.renewalInFlight = st.renewalInFlight,
         RenewalsOK(renewals, n), OwnedBy(s, renewals), SaidOK(s, renewals, n, hist.said),
         lastRelease' = lastRelease, releases' = releases,
         \/ granting = c /\ granting' = NoCall
         \/ granting # c /\ granting' = granting /\ s = st
  PROVE  IInv'
<1>1. /\ RenewalsOK(renewals', n) /\ OwnedBy(st', renewals')
      /\ SaidOK(st', renewals', n, hist.said) /\ Good(st', n)
  BY LaunchOwned DEF Lands, Step
<1>2. NoCall \notin Call  BY LedgerAssumption
<1>3. CallsOK'
 <2>1. CASE granting = c /\ granting' = NoCall
  <3>1. \A b \in Call : DOMAIN call'[b] = CFields /\ call'[b].phase # "granting"
    BY <2>1 DEF IInv, CallsOK, Lands
  <3>2. QED BY <1>2, <2>1, <3>1 DEF CallsOK, Lands
 <2>2. CASE granting # c /\ granting' = granting /\ s = st
  <3>1. \A b \in Call : DOMAIN call'[b] = CFields /\ (call'[b].phase = "granting" <=> granting = b)
    BY <2>2 DEF IInv, CallsOK, Lands
  <3>2. ASSUME granting # NoCall
        PROVE  ~HasLease(st') /\ st'.latch = "none" /\ ~Refuses(st', call'[granting].chain)
   <4>1. /\ granting \in Call /\ ~HasLease(st) /\ st.latch = "none"
         /\ ~Refuses(st, call[granting].chain)
     BY <3>2 DEF IInv, CallsOK
   <4>2. call'[granting].chain = call[granting].chain  BY <2>2, <4>1 DEF Lands
   <4>3. st'.refusedModels = st.refusedModels /\ st'.latch = "none" /\ ~HasLease(st')
     BY <2>2, <4>1 DEF Lands, Step, LatchKept, Same, Claimed, HasLease
   <4>4. QED BY <4>1, <4>2, <4>3 DEF Refuses
  <3>3. granting \in Call \cup {NoCall}  BY DEF IInv, CallsOK
  <3>4. QED BY <2>2, <3>1, <3>2, <3>3 DEF CallsOK, Lands
 <2>3. QED BY <2>1, <2>2
<1>4. QED BY <1>1, <1>3 DEF IInv, ReleasesOK

LEMMA SelfCalls ==
  ASSUME CallsOK
  PROVE  CallsAs(call)
BY DEF CallsOK, CallsAs

-----------------------------------------------------------------------------
(* Every step of a call keeps the invariant. *)

(* Call c sends the one initial grant. *)
ClaimsGrant(c) ==
  /\ granting = NoCall /\ granting' = c
  /\ Step(st, st', planeGen) /\ renewals' = Launched(st')
  /\ ~HasLease(st') /\ st'.latch = "none" /\ ~Refuses(st', call'[c].chain)
  /\ DOMAIN call' = Call
  /\ \A b \in Call : DOMAIN call'[b] = CFields /\ (call'[b].phase = "granting" <=> b = c)

LEMMA CheckLands ==
  ASSUME IInv, NEW c \in Call, Check(c)
  PROVE  \/ Lands(c, st, planeGen) /\ granting' = granting
         \/ ClaimsGrant(c)
<1>0. planeGen \in 0 .. MaxGen /\ planeGen \in Nat /\ CallsAs(call) /\ NoCall \notin Call
  BY SelfCalls, LedgerAssumption DEF IInv
<1>1. PICK models \in Chains, est \in Estimates, open \in BOOLEAN :
        LET v == AdmitOn(Swept(st, call), models, est, open)
            k == [NewCall EXCEPT !.chain = models, !.tokens = est, !.outside = v.outside]
            cs == Sweep(call)
        IN  /\ call[c].phase = "new"
            /\ \/ Immediate(c, k, v, cs) /\ UNCHANGED granting
               \/ /\ v.decision \in {"legacy", "needGrant"}
                  /\ PerCall(c, k, Schedule(v.st, v.due, models), cs)
                  /\ UNCHANGED granting
               \/ /\ v.decision = "needGrant" /\ granting = NoCall
                  /\ \/ Write(c, [k EXCEPT !.phase = "granting"], v.st, cs) /\ granting' = c
                     \/ ColdOutage(c, k, v.st, cs) /\ UNCHANGED granting
            /\ hist' = Since(st')
            /\ UNCHANGED <<releases, lastRelease, planeGen>>
  BY DEF Check
<1> DEFINE v == AdmitOn(Swept(st, call), models, est, open)
           k == [NewCall EXCEPT !.chain = models, !.tokens = est, !.outside = v.outside]
           cs == Sweep(call)
<1>2. /\ call[c].phase = "new" /\ hist' = Since(st')
      /\ releases' = releases /\ lastRelease' = lastRelease /\ planeGen' = planeGen
  BY <1>1
<1>3. \/ Immediate(c, k, v, cs) /\ granting' = granting
      \/ PerCall(c, k, Schedule(v.st, v.due, models), cs) /\ granting' = granting
      \/ /\ v.decision = "needGrant" /\ granting = NoCall
         /\ Write(c, [k EXCEPT !.phase = "granting"], v.st, cs) /\ granting' = c
      \/ ColdOutage(c, k, v.st, cs) /\ granting' = granting
  BY <1>1
<1>4. Step(st, st, planeGen)  BY StepRefl DEF IInv
<1>5. AdmitsWell(st, v, models, planeGen)
 <2>1. Step(st, Swept(st, call), planeGen)  BY <1>4, SweptWell
 <2>2. QED BY <1>0, <2>1, AdmitWell
<1>6. DOMAIN k = CFields /\ k.chain = models /\ k.phase = "new"
  BY DEF NewCall, CFields
<1>7. CallsAs(cs)  BY <1>0, SweepCalls
<1> HIDE DEF v, k, cs
<1>8. Step(st, v.st, planeGen) /\ (v.due => ~Refuses(v.st, models))
  BY <1>5 DEF AdmitsWell
<1>9. CASE Immediate(c, k, v, cs) /\ granting' = granting
  BY <1>5, <1>6, <1>7, <1>9, ImmediateLands
<1>10. CASE PerCall(c, k, Schedule(v.st, v.due, models), cs) /\ granting' = granting
 <2>1. Step(st, Schedule(v.st, v.due, models), planeGen)  BY <1>8, ScheduleWell
 <2>2. QED BY <1>0, <1>6, <1>7, <1>10, <2>1, PerCallLands
<1>11. CASE ColdOutage(c, k, v.st, cs) /\ granting' = granting
  BY <1>7, <1>8, <1>11, ColdOutageLands
<1>12. CASE /\ v.decision = "needGrant" /\ granting = NoCall
            /\ Write(c, [k EXCEPT !.phase = "granting"], v.st, cs) /\ granting' = c
 <2> DEFINE kg == [k EXCEPT !.phase = "granting"]
 <2>1. DOMAIN kg = CFields /\ kg.phase = "granting" /\ kg.chain = models
   BY <1>6 DEF CFields
 <2>2. st' = v.st /\ call' = [cs EXCEPT ![c] = kg] /\ renewals' = Launched(st')
   BY <1>12 DEF Write
 <2> HIDE DEF kg
 <2>3. ~HasLease(st') /\ st'.latch = "none" /\ ~Refuses(st', models)
   BY <1>5, <1>12, <2>2 DEF AdmitsWell
 <2>4. DOMAIN call' = Call /\ call'[c] = kg /\ \A b \in Call \ {c} : call'[b] = cs[b]
   BY <1>7, <2>2 DEF CallsAs
 <2>5. \A b \in Call : DOMAIN call'[b] = CFields /\ (call'[b].phase = "granting" <=> b = c)
   BY <1>0, <1>7, <1>12, <2>1, <2>4 DEF CallsAs, IInv, CallsOK
 <2>6. QED BY <1>8, <1>12, <2>1, <2>2, <2>3, <2>4, <2>5 DEF ClaimsGrant
<1>13. QED BY <1>3, <1>9, <1>10, <1>11, <1>12

LEMMA CheckInv ==
  ASSUME IInv, NEW c \in Call, Check(c)
  PROVE  IInv'
<1>1. /\ planeGen \in 0 .. MaxGen /\ planeGen' = planeGen
      /\ lastRelease' = lastRelease /\ releases' = releases
  BY DEF IInv, Check
<1>2. DOMAIN hist' = HFields /\ hist'.said = hist.said
  BY SinceSaid DEF IInv, Check
<1>3. CASE Lands(c, st, planeGen) /\ granting' = granting
 <2>1. granting # c  BY DEF Check, IInv, CallsOK
 <2>2. QED BY <1>1, <1>2, <1>3, <2>1, LandInv DEF IInv
<1>4. CASE ClaimsGrant(c)
 <2>1. /\ RenewalsOK(renewals', planeGen) /\ OwnedBy(st', renewals')
       /\ SaidOK(st', renewals', planeGen, hist.said) /\ Good(st', planeGen)
   BY <1>1, <1>4, LaunchOwned DEF IInv, Step, ClaimsGrant
 <2>2. CallsOK'  BY <1>4 DEF ClaimsGrant, CallsOK
 <2>3. QED BY <1>1, <1>2, <2>1, <2>2 DEF IInv, ReleasesOK
<1>5. QED BY <1>3, <1>4, CheckLands

LEMMA CheckAnsweredLands ==
  ASSUME IInv, NEW c \in Call, CheckAnswered(c)
  PROVE  Lands(c, st, planeGen)
<1>0. planeGen \in 0 .. MaxGen /\ planeGen \in Nat /\ CallsAs(call)
  BY SelfCalls, LedgerAssumption DEF IInv
<1>1. Step(st, st, planeGen)  BY StepRefl DEF IInv
<1>2. DOMAIN Over = CFields /\ Over.phase # "granting"
  BY OverShape
<1>3. Step(st, ClaimWidening(st, call[c].chain), planeGen) /\ Step(st, DropLease(st), planeGen)
  BY <1>0, <1>1, WideningWell, StepDrops
<1>4. \/ Write(c, Over, st, call)
      \/ Write(c, Over, ClaimWidening(st, call[c].chain), call)
      \/ Write(c, Over, DropLease(st), call)
  BY DEF CheckAnswered
<1>5. QED BY <1>0, <1>1, <1>2, <1>3, <1>4, WriteLands

LEMMA CheckAnsweredInv ==
  ASSUME IInv, NEW c \in Call, CheckAnswered(c)
  PROVE  IInv'
<1>1. planeGen \in 0 .. MaxGen  BY DEF IInv
<1>2. Lands(c, st, planeGen)  BY CheckAnsweredLands
<1>3. DOMAIN hist' = HFields /\ hist'.said = hist.said
  BY SinceSaid DEF IInv, CheckAnswered
<1>4. granting # c  BY DEF IInv, CallsOK, CheckAnswered
<1>5. QED BY <1>1, <1>2, <1>3, <1>4, LandInv DEF IInv, CheckAnswered

LEMMA GrantWithheldInv ==
  ASSUME IInv, NEW c \in Call, GrantWithheld(c)
  PROVE  IInv'
<1>0. planeGen \in 0 .. MaxGen /\ planeGen \in Nat /\ CallsAs(call) /\ DOMAIN call[c] = CFields
  BY SelfCalls, LedgerAssumption DEF IInv, CallsOK
<1>1. Step(st, st, planeGen)  BY StepRefl DEF IInv
<1>2. Step(st, DropLease(st), planeGen)  BY <1>0, <1>1, StepDrops
<1>3. DOMAIN Over = CFields /\ Over.phase # "granting"
  BY OverShape
<1>4. \/ Write(c, Over, st, call) \/ Write(c, Over, DropLease(st), call)
      \/ PerCall(c, call[c], st, call) \/ ColdOutage(c, call[c], st, call)
  BY DEF GrantWithheld
<1>5. Lands(c, st, planeGen)
 <2>1. CASE Write(c, Over, st, call) \/ Write(c, Over, DropLease(st), call)
   BY <1>0, <1>1, <1>2, <1>3, <2>1, WriteLands
 <2>2. CASE PerCall(c, call[c], st, call)
   BY <1>0, <1>1, <2>2, PerCallLands
 <2>3. CASE ColdOutage(c, call[c], st, call)
   BY <1>0, <1>1, <2>3, ColdOutageLands
 <2>4. QED BY <1>4, <2>1, <2>2, <2>3
<1>6. DOMAIN hist' = HFields /\ hist'.said = hist.said
  BY SinceSaid DEF IInv, GrantWithheld
<1>7. QED BY <1>0, <1>5, <1>6, LandInv DEF IInv, GrantWithheld

(* A ledger without a lease owns nothing. *)
LEMMA EmptyOwned ==
  ASSUME NEW s, NEW R, NEW n, NEW said, NEW t, Good(s, n), ~HasLease(s),
         SaidOK(t, R, n, said)
  PROVE  OwnedBy(s, R) /\ SaidOK(s, R, n, said) /\ s.renewalInFlight = FALSE
BY DEF Good, OwnedBy, SaidOK

LEMMA GrantLatchedInv ==
  ASSUME IInv, NEW c \in Call, GrantLatched(c)
  PROVE  IInv'
<1>0. planeGen \in 0 .. MaxGen /\ planeGen \in Nat /\ CallsAs(call) /\ DOMAIN call[c] = CFields
  BY SelfCalls, LedgerAssumption DEF IInv, CallsOK
<1>1. granting = c /\ granting' = NoCall /\ c # NoCall
  BY LedgerAssumption DEF GrantLatched
<1>2. ~HasLease(st) /\ st.latch = "none" /\ st.releasePending = NoRelease
      /\ st.renewalInFlight = FALSE
  BY <1>1 DEF IInv, CallsOK, Good
<1>3. PICK s \in {DropLease(st), MarkIneligible(st, "waiting"), MarkIneligible(st, "forever"),
                   [DropLease(st) EXCEPT !.latch = "waiting"]} : PerCall(c, call[c], s, call)
  BY DEF GrantLatched
<1>4. /\ DOMAIN s = StFields /\ s.leaseId = NoLease /\ s.generation = 0
      /\ s.renewalInFlight = FALSE /\ s.declaration = {}
      /\ s.declaredModels = st.declaredModels /\ s.refusedModels = st.refusedModels
      /\ s.latch \in Latch /\ s.releasePending = NoRelease
 <2> DEFINE t == DropLease(st)
 <2>1. Drops(st, t) /\ t.latch = st.latch /\ t.releasePending = st.releasePending
   BY DropEffect DEF IInv, Good
 <2>2. s \in {t, [t EXCEPT !.latch = "waiting", !.releasePending = NoRelease],
              [t EXCEPT !.latch = "forever", !.releasePending = NoRelease],
              [t EXCEPT !.latch = "waiting"]}
   BY <1>3 DEF MarkIneligible
 <2> HIDE DEF t
 <2>3. CASE s = t
   BY <1>2, <2>1, <2>3 DEF Drops, Latch
 <2>4. CASE \E until \in {"waiting", "forever"} :
              s = [t EXCEPT !.latch = until, !.releasePending = NoRelease]
   BY <2>1, <2>4 DEF Drops, StFields, Latch
 <2>5. CASE s = [t EXCEPT !.latch = "waiting"]
   BY <1>2, <2>1, <2>5 DEF Drops, StFields, Latch
 <2>6. QED BY <2>2, <2>3, <2>4, <2>5
<1>5. Good(s, planeGen) /\ ~HasLease(s)
 <2>1. s.renewalInFlight \in BOOLEAN  BY <1>4
 <2>2. QED BY <1>0, <1>4, <2>1 DEF Good, HasLease, IInv
<1>6. OwnedBy(s, renewals) /\ SaidOK(s, renewals, planeGen, hist.said)
  BY <1>5, EmptyOwned DEF IInv
<1>7. Lands(c, s, planeGen)
 <2>1. Step(s, s, planeGen)  BY <1>5, StepRefl
 <2>2. QED BY <1>0, <1>3, <2>1, PerCallLands
<1>8. DOMAIN hist' = HFields /\ hist'.said = hist.said
  BY SinceSaid DEF IInv, GrantLatched
<1>9. QED BY <1>0, <1>1, <1>2, <1>4, <1>5, <1>6, <1>7, <1>8, LandInv DEF IInv, GrantLatched

LEMMA GrantAppliedInv ==
  ASSUME IInv, NEW c \in Call, GrantApplied(c)
  PROVE  IInv'
<1>0. planeGen \in Nat /\ MaxGen \in Nat /\ CallsAs(call) /\ DOMAIN call[c] = CFields /\ c # NoCall
  BY SelfCalls, LedgerAssumption DEF IInv, CallsOK
<1>1. /\ granting = c /\ granting' = NoCall /\ planeGen < MaxGen /\ planeGen' = planeGen + 1
      /\ releases' = releases /\ lastRelease' = lastRelease
  BY DEF GrantApplied
<1>2. PICK lease \in Lease, terms \in Terms, open \in BOOLEAN :
       LET k == call[c]
           s == Install(st, lease, planeGen', terms, k.chain)
           v == AdmitOn(Swept(s, call), k.chain, k.tokens, open)
       IN  /\ \/ Immediate(c, k, v, Sweep(call))
              \/ /\ v.decision \in {"legacy", "needGrant"}
                 /\ PerCall(c, k, Schedule(v.st, v.due, k.chain), Sweep(call))
           /\ hist' = [Since(st') EXCEPT !.shareGrant = terms.share]
  BY DEF GrantApplied
<1> DEFINE k == call[c]
           n == planeGen + 1
           s == Install(st, lease, n, terms, k.chain)
           v == AdmitOn(Swept(s, call), k.chain, k.tokens, open)
<1>3. \/ Immediate(c, k, v, Sweep(call))
      \/ PerCall(c, k, Schedule(v.st, v.due, k.chain), Sweep(call))
  BY <1>1, <1>2
<1>4. DOMAIN hist' = HFields /\ hist'.said = hist.said
 <2>1. DOMAIN Since(st') = HFields /\ Since(st').said = hist.said
   BY SinceSaid DEF IInv
 <2>2. QED BY <1>2, <2>1 DEF HFields
<1>5. /\ Good(s, n) /\ HasLease(s) /\ s.renewalInFlight = FALSE
      /\ RenewalsOK(renewals, n) /\ OwnedBy(s, renewals) /\ SaidOK(s, renewals, n, hist.said)
 <2>1. k.chain \cap st.refusedModels = {}  BY <1>0, <1>1 DEF IInv, CallsOK, Refuses
 <2>2. n <= MaxGen  BY <1>0, <1>1
 <2>3. NewLease(s, renewals, n, hist.said)  BY <1>0, <2>1, <2>2, InstallGood DEF IInv
 <2>4. QED BY <2>3 DEF NewLease
<1>6. n \in 0 .. MaxGen /\ n \in Nat
  BY <1>0, <1>1
<1>7. AdmitsWell(s, v, k.chain, n)
 <2> HIDE DEF s, n, k
 <2>1. Step(s, Swept(s, call), n)  BY <1>5, StepRefl, SweptWell
 <2>2. QED BY <1>6, <2>1, AdmitWell
<1>8. CallsAs(Sweep(call))  BY <1>0, SweepCalls
<1>9. DOMAIN k = CFields  BY <1>0
<1>10. planeGen' = n  BY <1>1
<1> HIDE DEF k, n, s, v
<1>11. Lands(c, s, n)
 <2>1. Step(s, v.st, n) /\ (v.due => ~Refuses(v.st, k.chain))
   BY <1>7 DEF AdmitsWell
 <2>2. Step(s, Schedule(v.st, v.due, k.chain), n)  BY <2>1, ScheduleWell
 <2>3. CASE Immediate(c, k, v, Sweep(call))
   BY <1>7, <1>8, <1>9, <2>3, ImmediateLands
 <2>4. CASE PerCall(c, k, Schedule(v.st, v.due, k.chain), Sweep(call))
   BY <1>6, <1>8, <1>9, <2>2, <2>4, PerCallLands
 <2>5. QED BY <1>3, <2>3, <2>4
<1>12. st.renewalInFlight = FALSE  BY <1>0, <1>1 DEF IInv, CallsOK, Good
<1>13. QED BY <1>1, <1>4, <1>5, <1>6, <1>10, <1>11, <1>12, LandInv

-----------------------------------------------------------------------------
(* Every step of a renewal keeps the invariant. *)

(* What a renewal's step has to show. *)
LEMMA RenewalStepInv ==
  ASSUME IInv, NEW n \in 0 .. MaxGen, planeGen' = n,
         Good(st', n), RenewalsOK(renewals', n), OwnedBy(st', renewals'),
         DOMAIN hist' = HFields, SaidOK(st', renewals', n, hist'.said),
         call' = call, granting' = granting, granting = NoCall \/ st' = st,
         lastRelease' \in Nat, releases' \subseteq Nat \ {0}
  PROVE  IInv'
<1>1. CallsOK'  BY DEF IInv, CallsOK
<1>2. QED BY <1>1 DEF IInv, ReleasesOK

(* A renewal of the present lease has it to itself. *)
LEMMA AtOriginFacts ==
  ASSUME IInv, NEW r \in renewals, AtOrigin(st, r)
  PROVE  /\ HasLease(st) /\ granting = NoCall /\ st.releasePending = NoRelease
         /\ st.generation = r.generation /\ st.generation \in 1 .. planeGen
         /\ \A q \in renewals \ {r} : q.generation # st.generation
         /\ \E d \in st.declaration : d.chain = r.chain /\ d.added = r.added
<1>1. HasLease(st) /\ st.generation = r.generation /\ st.generation \in 1 .. planeGen
  BY LedgerAssumption DEF IInv, AtOrigin, HasLease, RenewalsOK
<1>2. granting = NoCall /\ st.releasePending = NoRelease
  BY <1>1 DEF IInv, CallsOK, Good
<1>3. \A q \in renewals \ {r} : q.generation # st.generation
  BY <1>1 DEF IInv, RenewalsOK
<1>4. \E d \in st.declaration : d.chain = r.chain /\ d.added = r.added
  BY <1>1 DEF IInv, OwnedBy
<1>5. QED BY <1>1, <1>2, <1>3, <1>4

(* A renewal of another lease leaves without a trace. *)
LEMMA StrangerLeaves ==
  ASSUME IInv, NEW r \in renewals, ~AtOrigin(st, r)
  PROVE  /\ RenewalsOK(renewals \ {r}, planeGen) /\ OwnedBy(st, renewals \ {r})
         /\ SaidOK(st, renewals \ {r}, planeGen, hist.said)
<1>1. RenewalsOK(renewals \ {r}, planeGen)  BY DEF IInv, RenewalsOK
<1>2. OwnedBy(st, renewals \ {r})  BY DEF IInv, OwnedBy
<1>3. SaidOK(st, renewals \ {r}, planeGen, hist.said)  BY DEF IInv, SaidOK
<1>4. QED BY <1>1, <1>2, <1>3

(* t is s with what it declares marked, or forgotten where it was never sent. *)
Redeclares(s, t) ==
  /\ DOMAIN t = StFields
  /\ t.leaseId = s.leaseId /\ t.generation = s.generation
  /\ t.declaredModels = s.declaredModels /\ t.refusedModels = s.refusedModels
  /\ t.latch = s.latch /\ t.releasePending = s.releasePending
  /\ \A e \in t.declaration : \E d \in s.declaration :
       /\ DOMAIN e = DFields /\ e.lease = d.lease /\ e.generation = d.generation
       /\ e.chain = d.chain /\ e.added = d.added
  /\ \A d \in s.declaration : d.dispatched =>
       \E e \in t.declaration : e.dispatched /\ e.chain = d.chain
  /\ \A e, f \in t.declaration : e = f

LEMMA RedeclaredGood ==
  ASSUME NEW s, NEW t, NEW n, Good(s, n), HasLease(s), Redeclares(s, t),
         t.renewalInFlight \in BOOLEAN
  PROVE  Good(t, n)
<1>1. HasLease(t)  BY DEF Redeclares, HasLease
<1>2. ASSUME NEW e \in t.declaration
      PROVE  /\ DOMAIN e = DFields /\ e.lease = t.leaseId /\ e.generation = t.generation
             /\ e.chain \cap t.refusedModels = {}
             /\ e.added \subseteq e.chain /\ e.added \cap t.declaredModels = {}
  BY DEF Good, Redeclares
<1>3. QED BY <1>1, <1>2 DEF Good, Redeclares, HasLease

(* The marked declarations of D. *)
Sent(D) == {[d EXCEPT !.dispatched = TRUE] : d \in D}

(* E holds what D holds, dispatched. *)
Marks(D, E) ==
  /\ \A e \in E : \E d \in D :
       /\ DOMAIN e = DFields /\ e.lease = d.lease /\ e.generation = d.generation
       /\ e.chain = d.chain /\ e.added = d.added
  /\ \A d \in D : \E e \in E :
       e.dispatched = TRUE /\ e.chain = d.chain /\ e.added = d.added
  /\ \A e, f \in E : e = f

LEMMA SentFields ==
  ASSUME NEW s, NEW n, Good(s, n)
  PROVE  Marks(s.declaration, Sent(s.declaration))
<1> DEFINE D == s.declaration
<1>0. (\A d \in D : DOMAIN d = DFields) /\ (\A d, e \in D : d = e)
  BY DEF Good
<1> HIDE DEF D
<1> DEFINE mark(d) == [d EXCEPT !.dispatched = TRUE]
<1>1. ASSUME NEW d \in D
      PROVE  /\ DOMAIN mark(d) = DFields /\ mark(d).lease = d.lease
             /\ mark(d).generation = d.generation /\ mark(d).chain = d.chain
             /\ mark(d).added = d.added /\ mark(d).dispatched = TRUE
  BY <1>0 DEF DFields
<1>2. Sent(D) = {mark(d) : d \in D}  BY DEF Sent
<1> HIDE DEF mark
<1>3. \A e \in Sent(D) : \E d \in D :
        /\ DOMAIN e = DFields /\ e.lease = d.lease /\ e.generation = d.generation
        /\ e.chain = d.chain /\ e.added = d.added /\ e.dispatched = TRUE
  BY <1>1, <1>2
<1>4. \A d \in D : \E e \in Sent(D) :
        e.dispatched = TRUE /\ e.chain = d.chain /\ e.added = d.added
  BY <1>1, <1>2
<1>5. \A e, f \in Sent(D) : e = f
  BY <1>0, <1>2
<1>6. QED BY <1>3, <1>4, <1>5 DEF Marks, D

(* A dispatch marks the declaration and changes nothing else. *)
LEMMA MarkedEffect ==
  ASSUME NEW s, NEW n, Good(s, n), NEW r, AtOrigin(s, r)
  PROVE  /\ Redeclares(s, MarkDispatched(s, r))
         /\ MarkDispatched(s, r).renewalInFlight = s.renewalInFlight
         /\ MarkDispatched(s, r).pendingReport = s.pendingReport
         /\ MarkDispatched(s, r).declaration = Sent(s.declaration)
<1> DEFINE t == MarkDispatched(s, r)
<1>1. /\ DOMAIN t = StFields
      /\ t.leaseId = s.leaseId /\ t.generation = s.generation
      /\ t.declaredModels = s.declaredModels /\ t.refusedModels = s.refusedModels
      /\ t.latch = s.latch /\ t.releasePending = s.releasePending
      /\ t.renewalInFlight = s.renewalInFlight /\ t.pendingReport = s.pendingReport
  BY DEF MarkDispatched, Good, StFields
<1>2. t.declaration = Sent(s.declaration)  BY OwedIsAll DEF MarkDispatched, Good, StFields, Sent
<1> HIDE DEF t
<1>3. Marks(s.declaration, t.declaration)  BY <1>2, SentFields
<1>4. \A d \in s.declaration : d.dispatched =>
        \E e \in t.declaration : e.dispatched /\ e.chain = d.chain
  BY <1>3 DEF Marks
<1>5. Redeclares(s, t)  BY <1>1, <1>3, <1>4 DEF Redeclares, Marks
<1>6. QED BY <1>1, <1>2, <1>5 DEF t

(* A failed attempt frees the mark and keeps what any attempt dispatched. *)
LEMMA FailedEffect ==
  ASSUME NEW s, NEW n, Good(s, n), NEW r, AtOrigin(s, r), NEW sent \in BOOLEAN
  PROVE  /\ Redeclares(s, RenewalFailed(s, r, sent))
         /\ RenewalFailed(s, r, sent).renewalInFlight = FALSE
<1> DEFINE t == RenewalFailed(s, r, sent)
<1>1. /\ DOMAIN t = StFields
      /\ t.leaseId = s.leaseId /\ t.generation = s.generation
      /\ t.declaredModels = s.declaredModels /\ t.refusedModels = s.refusedModels
      /\ t.latch = s.latch /\ t.releasePending = s.releasePending
      /\ t.renewalInFlight = FALSE
  BY DEF RenewalFailed, Good, StFields
<1>2. t.declaration = IF sent THEN Sent(s.declaration) ELSE {d \in s.declaration : d.dispatched}
  BY OwedIsAll DEF RenewalFailed, Good, StFields, Sent
<1> HIDE DEF t
<1>3. /\ \A d \in s.declaration : DOMAIN d = DFields
      /\ \A d, e \in s.declaration : d = e
  BY DEF Good
<1>4. CASE sent
 <2>1. t.declaration = Sent(s.declaration)  BY <1>2, <1>4
 <2>a. Marks(s.declaration, t.declaration)  BY <2>1, SentFields
 <2>b. \A d \in s.declaration : d.dispatched =>
         \E e \in t.declaration : e.dispatched /\ e.chain = d.chain
   BY <2>a DEF Marks
 <2>2. Redeclares(s, t)  BY <1>1, <2>a, <2>b DEF Redeclares, Marks
 <2>3. QED BY <1>1, <2>2 DEF t
<1>5. CASE ~sent
 <2>1. t.declaration = {d \in s.declaration : d.dispatched}  BY <1>2, <1>5
 <2>2. Redeclares(s, t)  BY <1>1, <2>1, <1>3 DEF Redeclares
 <2>3. QED BY <1>1, <2>2 DEF t
<1>6. QED BY <1>4, <1>5

(* The mark is gone and what was dispatched is still declared. *)
LEMMA AbandonInv ==
  ASSUME IInv, NEW r \in renewals, AtOrigin(st, r), Redeclares(st, st'),
         st'.renewalInFlight = FALSE, renewals' = renewals \ {r}, planeGen' = planeGen,
         DOMAIN hist' = HFields, hist'.said = hist.said,
         call' = call, granting' = granting, lastRelease' = lastRelease, releases' = releases
  PROVE  IInv'
<1>1. /\ HasLease(st) /\ granting = NoCall /\ st.generation \in 1 .. planeGen
      /\ \A q \in renewals \ {r} : q.generation # st.generation
  BY AtOriginFacts
<1>2. Good(st', planeGen)
 <2>1. st'.renewalInFlight \in BOOLEAN  OBVIOUS
 <2>2. QED BY <1>1, <2>1, RedeclaredGood DEF IInv
<1>3. RenewalsOK(renewals \ {r}, planeGen)  BY DEF IInv, RenewalsOK
<1>4. OwnedBy(st', renewals \ {r})  BY <1>1 DEF OwnedBy, Redeclares
<1>5. SaidOK(st', renewals \ {r}, planeGen, hist.said)
 <2>1. SaidOK(st, renewals, planeGen, hist.said)  BY DEF IInv
 <2>2. hist.said[st.generation] # {} =>
         \E d \in st.declaration : d.dispatched /\ hist.said[st.generation] \subseteq {d.chain}
   BY <1>1, <2>1 DEF SaidOK
 <2>3. hist.said[st.generation] # {} =>
         \E e \in st'.declaration : e.dispatched /\ hist.said[st.generation] \subseteq {e.chain}
   BY <2>2 DEF Redeclares
 <2>4. st'.generation = st.generation  BY DEF Redeclares
 <2>5. QED BY <2>1, <2>3, <2>4 DEF SaidOK
<1>6. planeGen \in 0 .. MaxGen /\ lastRelease \in Nat /\ releases \subseteq Nat \ {0}
  BY DEF IInv, ReleasesOK
<1>7. QED BY <1>1, <1>2, <1>3, <1>4, <1>5, <1>6, RenewalStepInv

(* The lease is gone, and with it what it declared. *)
LEMMA DroppedInv ==
  ASSUME IInv, NEW r \in renewals, AtOrigin(st, r), renewals' = renewals \ {r},
         planeGen' = planeGen, DOMAIN hist' = HFields, hist'.said = hist.said,
         call' = call, granting' = granting,
         lastRelease' \in Nat, releases' \subseteq Nat \ {0},
         Good(st', planeGen), ~HasLease(st')
  PROVE  IInv'
<1>1. granting = NoCall  BY AtOriginFacts
<1>2. RenewalsOK(renewals \ {r}, planeGen) /\ SaidOK(st, renewals \ {r}, planeGen, hist.said)
  BY DEF IInv, RenewalsOK, SaidOK
<1>3. OwnedBy(st', renewals \ {r}) /\ SaidOK(st', renewals \ {r}, planeGen, hist.said)
  BY <1>2, EmptyOwned
<1>4. planeGen \in 0 .. MaxGen  BY DEF IInv
<1>5. QED BY <1>1, <1>2, <1>3, <1>4, RenewalStepInv

(* The answer belongs to another lease, or to none. *)
LEMMA StrangerInv ==
  ASSUME IInv, NEW r \in renewals, ~AtOrigin(st, r), st' = st, renewals' = renewals \ {r},
         planeGen' = planeGen, DOMAIN hist' = HFields, hist'.said = hist.said,
         call' = call, granting' = granting, lastRelease' = lastRelease, releases' = releases
  PROVE  IInv'
<1>1. /\ RenewalsOK(renewals', planeGen) /\ OwnedBy(st', renewals')
      /\ SaidOK(st', renewals', planeGen, hist'.said)
  BY StrangerLeaves
<1>2. /\ planeGen \in 0 .. MaxGen /\ lastRelease \in Nat /\ releases \subseteq Nat \ {0}
      /\ Good(st', planeGen)
  BY DEF IInv, ReleasesOK
<1>3. QED BY <1>1, <1>2, RenewalStepInv

LEMMA SkipRenewalInv ==
  ASSUME IInv, NEW r \in renewals, SkipRenewal(r)
  PROVE  IInv'
<1>1. DOMAIN hist' = HFields /\ hist'.said = hist.said
  BY DEF SkipRenewal, IInv
<1>2. CASE AtOrigin(st, r)
 <2>1. Redeclares(st, st') /\ st'.renewalInFlight = FALSE
   BY <1>2, FailedEffect DEF SkipRenewal, IInv
 <2>2. QED BY <1>1, <1>2, <2>1, AbandonInv DEF SkipRenewal
<1>3. CASE ~AtOrigin(st, r)
 <2>1. st' = st  BY <1>3 DEF SkipRenewal, RenewalFailed
 <2>2. QED BY <1>1, <1>3, <2>1, StrangerInv DEF SkipRenewal
<1>4. QED BY <1>2, <1>3

LEMMA RenewalOutdatedInv ==
  ASSUME IInv, NEW r \in renewals, RenewalOutdated(r)
  PROVE  IInv'
<1>1. DOMAIN hist' = HFields /\ hist'.said = hist.said
  BY DEF RenewalOutdated, IInv
<1>2. QED BY <1>1, StrangerInv DEF RenewalOutdated, Answered

LEMMA RenewalWithheldInv ==
  ASSUME IInv, NEW r \in renewals, RenewalWithheld(r)
  PROVE  IInv'
<1>1. DOMAIN hist' = HFields /\ hist'.said = hist.said
  BY SinceSaid DEF RenewalWithheld, IInv
<1>2. /\ renewals' = renewals \ {r} /\ planeGen' = planeGen /\ call' = call
      /\ granting' = granting /\ lastRelease' = lastRelease /\ releases' = releases
  BY DEF RenewalWithheld, Answered
<1>3. CASE AtOrigin(st, r) /\ st' = RenewalFailed(st, r, TRUE)
 <2>1. Redeclares(st, st') /\ st'.renewalInFlight = FALSE
   BY <1>3, FailedEffect DEF IInv
 <2>2. QED BY <1>1, <1>2, <1>3, <2>1, AbandonInv
<1>4. CASE ~AtOrigin(st, r) /\ st' = RenewalFailed(st, r, TRUE)
 <2>1. st' = st  BY <1>4 DEF RenewalFailed
 <2>2. QED BY <1>1, <1>2, <1>4, <2>1, StrangerInv
<1>5. CASE /\ AtOrigin(st, r)
           /\ st' \in {DropLease(st), [DropLease(st) EXCEPT !.latch = "waiting"]}
 <2> DEFINE t == DropLease(st)
 <2>1. Drops(st, t) /\ t.latch = st.latch /\ t.releasePending = st.releasePending
   BY DropEffect DEF IInv, Good
 <2>2. st.releasePending = NoRelease /\ st.latch \in Latch
   BY <1>5, AtOriginFacts DEF IInv, Good
 <2>3. st' = t \/ st' = [t EXCEPT !.latch = "waiting"]
   BY <1>5
 <2> HIDE DEF t
 <2>4. Drops(st, st') /\ st'.latch \in Latch /\ st'.releasePending = NoRelease
   BY <2>1, <2>2, <2>3 DEF Drops, StFields, Latch
 <2>5. ~HasLease(st') /\ st'.renewalInFlight \in BOOLEAN
   BY <2>4 DEF Drops, HasLease
 <2>6. Good(st', planeGen)  BY <2>4, <2>5, LedgerAssumption DEF Good, Drops, IInv, HasLease
 <2>7. lastRelease' \in Nat /\ releases' \subseteq Nat \ {0}
   BY <1>2 DEF IInv, ReleasesOK
 <2>8. QED BY <1>1, <1>2, <1>5, <2>5, <2>6, <2>7, DroppedInv
<1>6. QED BY <1>3, <1>4, <1>5 DEF RenewalWithheld

(* The same renewal after its POST left. *)
LEMMA SentRenewal ==
  ASSUME NEW r, DOMAIN r = OFields
  PROVE  LET q == [r EXCEPT !.sent = TRUE]
         IN  /\ DOMAIN q = OFields /\ q.lease = r.lease /\ q.generation = r.generation
             /\ q.chain = r.chain /\ q.added = r.added /\ q.report = r.report
BY DEF OFields

LEMMA SendRenewalInv ==
  ASSUME IInv, NEW r \in renewals, SendRenewal(r)
  PROVE  IInv'
<1> DEFINE q == [r EXCEPT !.sent = TRUE]
           R == (renewals \ {r}) \cup {q}
           g == r.generation
           told == [hist.said EXCEPT ![g] = @ \cup {r.chain}]
<1>0. MaxGen \in Nat /\ planeGen \in 0 .. MaxGen /\ planeGen \in Nat
  BY LedgerAssumption DEF IInv
<1>1. DOMAIN r = OFields /\ g \in 1 .. planeGen /\ g \in 1 .. MaxGen
  BY <1>0 DEF IInv, RenewalsOK
<1>2. /\ DOMAIN q = OFields /\ q.lease = r.lease /\ q.generation = g
      /\ q.chain = r.chain /\ q.added = r.added /\ q.report = r.report
  BY <1>1, SentRenewal
<1>3. renewals' = R  BY DEF SendRenewal
<1>4. DOMAIN hist' = HFields /\ hist'.said = told
  BY DEF SendRenewal, IInv, HFields
<1>5. /\ DOMAIN told = 1 .. MaxGen /\ told[g] = hist.said[g] \cup {r.chain}
      /\ \A h \in 1 .. MaxGen : h # g => told[h] = hist.said[h]
  BY <1>1 DEF IInv, SaidOK
<1>6. hist.said[g] \subseteq {r.chain}  BY DEF IInv, SaidOK
<1> HIDE DEF q, g, told
<1>7. RenewalsOK(R, planeGen)
 <2>1. \A o \in renewals : DOMAIN o = OFields /\ o.lease \in Lease /\ o.generation \in 1 .. planeGen
   BY DEF IInv, RenewalsOK
 <2>2. \A o \in renewals \ {r} : o.generation # g
   BY DEF IInv, RenewalsOK, g
 <2>3. \A o, p \in renewals : o.generation = p.generation => o = p
   BY DEF IInv, RenewalsOK
 <2>4. \A o \in R : DOMAIN o = OFields /\ o.lease \in Lease /\ o.generation \in 1 .. planeGen
   BY <1>1, <1>2, <2>1
 <2>5. \A o, p \in R : o.generation = p.generation => o = p
   BY <1>2, <2>2, <2>3
 <2>6. QED BY <2>4, <2>5 DEF RenewalsOK
<1>8. /\ DOMAIN told = 1 .. MaxGen
      /\ \A h \in 1 .. MaxGen : /\ h > planeGen => told[h] = {}
                                /\ \A x, y \in told[h] : x = y
 <2>1. \A h \in 1 .. MaxGen : /\ h > planeGen => hist.said[h] = {}
                              /\ \A x, y \in hist.said[h] : x = y
   BY DEF IInv, SaidOK
 <2>2. ~(g > planeGen) /\ \A x, y \in told[g] : x = y
   BY <1>0, <1>1, <1>5, <1>6
 <2>3. QED BY <1>5, <2>1, <2>2
<1>9. \A o \in R : told[o.generation] \subseteq {o.chain}
 <2>1. ASSUME NEW o \in renewals \ {r}
       PROVE  told[o.generation] \subseteq {o.chain}
  <3>1. o.generation # g /\ o.generation \in 1 .. planeGen
    BY DEF IInv, RenewalsOK, g
  <3>2. o.generation \in 1 .. MaxGen  BY <1>0, <3>1
  <3>3. told[o.generation] = hist.said[o.generation]  BY <1>5, <3>1, <3>2
  <3>4. QED BY <3>3 DEF IInv, SaidOK
 <2>2. told[q.generation] \subseteq {q.chain}  BY <1>2, <1>5, <1>6
 <2>3. QED BY <2>1, <2>2
<1>10. Good(st, planeGen) /\ OwnedBy(st, renewals) /\ SaidOK(st, renewals, planeGen, hist.said)
  BY DEF IInv
<1>11. CASE AtOrigin(st, r)
 <2>1. /\ HasLease(st) /\ granting = NoCall /\ st.generation = g
       /\ \A o \in renewals \ {r} : o.generation # st.generation
   BY <1>11, AtOriginFacts DEF g
 <2>2. /\ Redeclares(st, st') /\ st'.renewalInFlight = st.renewalInFlight
       /\ st'.pendingReport = st.pendingReport /\ st'.declaration = Sent(st.declaration)
   BY <1>10, <1>11, MarkedEffect DEF SendRenewal
 <2>3. Good(st', planeGen)
  <3>1. st'.renewalInFlight \in BOOLEAN  BY <1>10, <2>2 DEF Good
  <3>2. QED BY <1>10, <2>1, <2>2, <3>1, RedeclaredGood
 <2>4. /\ st.renewalInFlight = TRUE /\ r.lease = st.leaseId /\ st.pendingReport = {r.report}
       /\ \E d \in st.declaration : d.chain = r.chain /\ d.added = r.added
   BY <1>10, <2>1 DEF OwnedBy, g
 <2>5. \E e \in st'.declaration : e.dispatched = TRUE /\ e.chain = r.chain /\ e.added = r.added
  <3>1. Marks(st.declaration, st'.declaration)  BY <1>10, <2>2, SentFields
  <3>2. QED BY <2>4, <3>1 DEF Marks
 <2>6. st'.leaseId = st.leaseId /\ st'.generation = g
   BY <2>1, <2>2 DEF Redeclares
 <2>7. OwnedBy(st', R)
  <3>1. AtOrigin(st', q)  BY <1>2, <2>4, <2>6 DEF AtOrigin
  <3>2. \A o \in R : o.generation = g => o = q
    BY <1>2, <2>1
  <3>3. QED BY <1>2, <2>2, <2>4, <2>5, <2>6, <3>1, <3>2 DEF OwnedBy
 <2>8. SaidOK(st', R, planeGen, told)
  <3>1. told[g] \subseteq {r.chain}  BY <1>5, <1>6
  <3>2. \E e \in st'.declaration : e.dispatched /\ told[st'.generation] \subseteq {e.chain}
    BY <2>5, <2>6, <3>1
  <3>3. QED BY <1>8, <1>9, <3>2 DEF SaidOK
 <2>9. lastRelease' \in Nat /\ releases' \subseteq Nat \ {0} /\ planeGen' = planeGen
       /\ call' = call /\ granting' = granting
   BY DEF IInv, ReleasesOK, SendRenewal
 <2>10. QED BY <1>0, <1>3, <1>4, <1>7, <2>1, <2>3, <2>7, <2>8, <2>9, RenewalStepInv
<1>12. CASE ~AtOrigin(st, r)
 <2>1. st' = st  BY <1>12 DEF SendRenewal, MarkDispatched
 <2>2. HasLease(st) => st.generation # g  BY <1>10, <1>12 DEF OwnedBy, AtOrigin, g
 <2>3. OwnedBy(st, R)  BY <1>2, <1>10, <1>12, <2>2 DEF OwnedBy
 <2>4. SaidOK(st, R, planeGen, told)
  <3>1. HasLease(st) => st.generation \in 1 .. MaxGen  BY <1>0, <1>10 DEF Good
  <3>2. HasLease(st) => told[st.generation] = hist.said[st.generation]  BY <1>5, <2>2, <3>1
  <3>3. QED BY <1>8, <1>9, <1>10, <3>2 DEF SaidOK
 <2>5. lastRelease' \in Nat /\ releases' \subseteq Nat \ {0} /\ planeGen' = planeGen
       /\ call' = call /\ granting' = granting
   BY DEF IInv, ReleasesOK, SendRenewal
 <2>6. QED BY <1>0, <1>3, <1>4, <1>7, <1>10, <2>1, <2>3, <2>4, <2>5, RenewalStepInv
<1>13. QED BY <1>11, <1>12

LEMMA RenewalAppliedInv ==
  ASSUME IInv, NEW r \in renewals, RenewalApplied(r)
  PROVE  IInv'
<1>0. planeGen \in Nat /\ MaxGen \in Nat
  BY LedgerAssumption DEF IInv
<1>1. /\ AtOrigin(st, r) /\ renewals' = renewals \ {r}
      /\ planeGen < MaxGen /\ planeGen' = planeGen + 1
      /\ call' = call /\ granting' = granting
      /\ lastRelease' = lastRelease /\ releases' = releases
  BY DEF RenewalApplied, Answered
<1>2. PICK lease \in Lease, terms \in Terms :
        /\ st' = Install(st, lease, planeGen', terms, r.chain)
        /\ hist' = [Acknowledged(r) EXCEPT
                     !.spend = IF lease = r.lease THEN @ + r.report.spent ELSE 0,
                     !.granted = IF lease = r.lease THEN r.granted ELSE 0,
                     !.shareBase = Used(st', "share"), !.shareGrant = terms.share]
  BY DEF RenewalApplied
<1>3. DOMAIN hist' = HFields /\ hist'.said = hist.said
 <2>1. DOMAIN Since(st') = HFields /\ Since(st').said = hist.said
   BY SinceSaid DEF IInv
 <2>2. DOMAIN Acknowledged(r) = HFields /\ Acknowledged(r).said = hist.said
   BY <2>1 DEF Acknowledged, HFields
 <2>3. QED BY <1>2, <2>2 DEF HFields
<1>4. r.chain \cap st.refusedModels = {}  BY <1>1, AtOriginFacts DEF IInv, Good
<1>5. granting = NoCall  BY <1>1, AtOriginFacts
<1>6. /\ RenewalsOK(renewals \ {r}, planeGen) /\ Good(st, planeGen)
      /\ SaidOK(st, renewals \ {r}, planeGen, hist.said)
  BY DEF IInv, RenewalsOK, SaidOK
<1>7. NewLease(st', renewals \ {r}, planeGen + 1, hist.said)
 <2>1. planeGen + 1 <= MaxGen  BY <1>0, <1>1
 <2>2. st' = Install(st, lease, planeGen + 1, terms, r.chain)  BY <1>1, <1>2
 <2>3. NewLease(Install(st, lease, planeGen + 1, terms, r.chain), renewals \ {r},
                planeGen + 1, hist.said)
   BY <1>0, <1>4, <1>6, <2>1, InstallGood
 <2>4. QED BY <2>2, <2>3
<1>8. planeGen + 1 \in 0 .. MaxGen  BY <1>0, <1>1
<1>9. lastRelease \in Nat /\ releases \subseteq Nat \ {0}
  BY DEF IInv, ReleasesOK
<1>10. QED BY <1>1, <1>3, <1>5, <1>7, <1>8, <1>9, RenewalStepInv DEF NewLease

LEMMA RenewalRefusedInv ==
  ASSUME IInv, NEW r \in renewals, RenewalRefused(r)
  PROVE  IInv'
<1> DEFINE s == SettlePendingReport(st)
           t == DropLease(s)
<1>1. /\ AtOrigin(st, r) /\ renewals' = renewals \ {r} /\ planeGen' = planeGen
      /\ call' = call /\ granting' = granting
      /\ lastRelease' = lastRelease + 1 /\ releases' = releases \cup {lastRelease + 1}
  BY DEF RenewalRefused, Answered
<1>2. DOMAIN hist' = HFields /\ hist'.said = hist.said
 <2>1. DOMAIN Since(st') = HFields /\ Since(st').said = hist.said
   BY SinceSaid DEF IInv
 <2>2. QED BY <2>1 DEF RenewalRefused, Acknowledged, HFields
<1>3. lastRelease' \in Nat /\ lastRelease' # 0 /\ releases' \subseteq Nat \ {0}
  BY <1>1 DEF IInv, ReleasesOK
<1>4. /\ DOMAIN s = StFields
      /\ s.declaredModels = st.declaredModels /\ s.refusedModels = st.refusedModels
  BY SettledReport DEF IInv, Good
<1>5. st' = [t EXCEPT !.refusedModels = @ \cup r.added, !.latch = "waiting",
                      !.releasePending = lastRelease']
  BY DEF RenewalRefused, RefuseRenewal
<1> HIDE DEF s
<1>6. Drops(s, t)  BY <1>4, DropEffect
<1> HIDE DEF t
<1>7. /\ DOMAIN st' = StFields /\ st'.leaseId = NoLease /\ st'.generation = 0
      /\ st'.renewalInFlight = FALSE /\ st'.declaration = {}
      /\ st'.declaredModels = st.declaredModels
      /\ st'.refusedModels = st.refusedModels \cup r.added
      /\ st'.latch = "waiting" /\ st'.releasePending = lastRelease'
  BY <1>4, <1>5, <1>6 DEF Drops, StFields
<1>8. r.added \cap st.declaredModels = {} /\ st.refusedModels \cap st.declaredModels = {}
  BY <1>1, AtOriginFacts DEF IInv, Good
<1>9. ~HasLease(st') /\ st'.renewalInFlight \in BOOLEAN /\ st'.latch \in Latch
  BY <1>7 DEF HasLease, Latch
<1>10. Good(st', planeGen)
 <2>1. st'.refusedModels \cap st'.declaredModels = {}  BY <1>7, <1>8
 <2>2. planeGen \in Nat  BY LedgerAssumption DEF IInv
 <2>3. QED BY <1>7, <1>9, <2>1, <2>2 DEF Good
<1>11. QED BY <1>1, <1>2, <1>3, <1>9, <1>10, DroppedInv

-----------------------------------------------------------------------------
(* Releases, settlement and deadlines keep the invariant. *)

LEMMA ReleaseDoneInv ==
  ASSUME IInv, NEW token \in releases, ReleaseDone(token)
  PROVE  IInv'
<1>1. PICK sent \in BOOLEAN : st' = ResolveRelease(st, token, sent)
  BY DEF ReleaseDone
<1>2. /\ token # NoRelease /\ call' = call /\ granting' = granting /\ renewals' = renewals
      /\ lastRelease' \in Nat /\ releases' \subseteq Nat \ {0} /\ planeGen' = planeGen
      /\ hist' = hist /\ planeGen \in 0 .. MaxGen
  BY DEF ReleaseDone, IInv, ReleasesOK, NoRelease
<1>3. CASE st.releasePending # token
 <2>1. st' = st  BY <1>1, <1>3 DEF ResolveRelease
 <2>2. QED BY <1>2, <2>1, RenewalStepInv DEF IInv
<1>4. CASE st.releasePending = token
 <2>1. ~HasLease(st) /\ granting = NoCall
   BY <1>2, <1>4 DEF IInv, Good, CallsOK
 <2>2. st' = [st EXCEPT !.releasePending = NoRelease, !.latch = IF sent THEN "none" ELSE @]
   BY <1>1, <1>4 DEF ResolveRelease
 <2>3. /\ DOMAIN st' = StFields /\ st'.leaseId = st.leaseId /\ st'.generation = st.generation
       /\ st'.renewalInFlight = st.renewalInFlight /\ st'.declaration = st.declaration
       /\ st'.declaredModels = st.declaredModels /\ st'.refusedModels = st.refusedModels
       /\ st'.releasePending = NoRelease /\ st'.latch = IF sent THEN "none" ELSE st.latch
   BY <2>2 DEF IInv, Good, StFields
 <2>4. st'.latch \in Latch  BY <2>3 DEF IInv, Good, Latch
 <2>5. Good(st', planeGen) /\ ~HasLease(st')
   BY <2>1, <2>3, <2>4 DEF IInv, Good, HasLease
 <2>6. OwnedBy(st', renewals) /\ SaidOK(st', renewals, planeGen, hist.said)
   BY <2>5, EmptyOwned DEF IInv
 <2>7. QED BY <1>2, <2>1, <2>5, <2>6, RenewalStepInv DEF IInv
<1>5. QED BY <1>3, <1>4

(* Nothing but pools, deadlines, tallies and the call's own record changed. *)
LEMMA KeptInv ==
  ASSUME IInv, Keeps(st, st'), DOMAIN call' = Call,
         \A b \in Call : /\ DOMAIN call'[b] = CFields
                         /\ call'[b].phase = "granting" <=> call[b].phase = "granting"
                         /\ call[b].phase = "granting" => call'[b].chain = call[b].chain,
         granting' = granting, renewals' = renewals, releases' = releases,
         lastRelease' = lastRelease, planeGen' = planeGen, hist' = hist
  PROVE  IInv'
<1>1. Good(st', planeGen)  BY KeepsGood DEF IInv
<1>2. OwnedBy(st', renewals) /\ SaidOK(st', renewals, planeGen, hist.said)
  BY DEF IInv, Keeps, OwnedBy, SaidOK, AtOrigin, HasLease
<1>3. CallsOK'  BY DEF IInv, CallsOK, Keeps, HasLease, Refuses
<1>4. QED BY <1>1, <1>2, <1>3 DEF IInv, ReleasesOK

LEMMA SettlementKeeps ==
  ASSUME IInv, NEW c \in Call, TrueUp(c) \/ Release(c)
  PROVE  Keeps(st, st')
<1>1. DOMAIN st = StFields  BY DEF IInv, Good
<1>2. Keeps(st, st)  BY <1>1 DEF Keeps
<1>3. ASSUME NEW used, st' = Settle(c, used)
      PROVE  Keeps(st, st')
 <2> DEFINE n == IF call[c].phase = "swept" THEN 0 - used ELSE call[c].tokens - used
            t == Credit(st, call[c].pool, n)
 <2>1. Keeps(st, t)  BY <1>1, CreditEffect
 <2>2. st' = [t EXCEPT !.spent = @ + used] \/ st' = st
   BY <1>3 DEF Settle
 <2> HIDE DEF t
 <2>3. QED BY <1>2, <2>1, <2>2 DEF Keeps, StFields
<1>4. CASE TrueUp(c)
  BY <1>3, <1>4 DEF TrueUp
<1>5. CASE Release(c)
 <2>1. Keeps(st, Credit(st, call[c].pool, call[c].tokens))  BY <1>1, CreditEffect
 <2>2. st' = Credit(st, call[c].pool, call[c].tokens) \/ st' = st
   BY <1>5 DEF Release
 <2>3. QED BY <1>2, <2>1, <2>2
<1>6. QED BY <1>4, <1>5

LEMMA SettlementInv ==
  ASSUME IInv, NEW c \in Call, TrueUp(c) \/ Release(c)
  PROVE  IInv'
<1>1. DOMAIN call = Call /\ DOMAIN call[c] = CFields
  BY DEF IInv, CallsOK
<1>2. Reserving(c) /\ call[c].phase # "granting"
  BY DEF TrueUp, Release, Reserving
<1>3. Keeps(st, st')  BY SettlementKeeps
<1>5. \E k : call' = [call EXCEPT ![c] = k] /\ DOMAIN k = CFields /\ k.phase = "done"
 <2>1. DOMAIN Over = CFields /\ Over.phase = "done"
   BY OverShape
 <2>2. CASE TrueUp(c)
  <3>1. PICK used : call' = [call EXCEPT ![c] =
                      IF Belongs(st, call[c]) THEN [call[c] EXCEPT !.phase = "done", !.tokens = used]
                                              ELSE Over]
    BY <2>2 DEF TrueUp
  <3> DEFINE k == [call[c] EXCEPT !.phase = "done", !.tokens = used]
  <3>2. DOMAIN k = CFields /\ k.phase = "done"
    BY <1>1 DEF CFields
  <3>3. call' = [call EXCEPT ![c] = k] \/ call' = [call EXCEPT ![c] = Over]
    BY <3>1
  <3> HIDE DEF k
  <3>4. QED BY <2>1, <3>2, <3>3
 <2>3. CASE Release(c)
   BY <2>1, <2>3 DEF Release
 <2>4. QED BY <2>2, <2>3
<1>6. /\ DOMAIN call' = Call
      /\ \A b \in Call : /\ DOMAIN call'[b] = CFields
                         /\ call'[b].phase = "granting" <=> call[b].phase = "granting"
                         /\ call[b].phase = "granting" => call'[b].chain = call[b].chain
  BY <1>1, <1>2, <1>5 DEF IInv, CallsOK
<1>7. /\ granting' = granting /\ renewals' = renewals /\ releases' = releases
      /\ lastRelease' = lastRelease /\ planeGen' = planeGen /\ hist' = hist
  BY DEF TrueUp, Release
<1>8. QED BY <1>3, <1>6, <1>7, KeptInv

LEMMA AgeInv ==
  ASSUME IInv, NEW c \in Call, Age(c)
  PROVE  IInv'
<1>1. DOMAIN call = Call /\ DOMAIN call[c] = CFields /\ call[c].phase = "reserved"
  BY DEF IInv, CallsOK, Age
<1>2. call' = [call EXCEPT ![c] = [call[c] EXCEPT !.phase = "aged"]]  BY DEF Age
<1>3. /\ DOMAIN [call[c] EXCEPT !.phase = "aged"] = CFields
      /\ [call[c] EXCEPT !.phase = "aged"].phase = "aged"
  BY <1>1 DEF CFields
<1>4. /\ DOMAIN call' = Call
      /\ \A b \in Call : /\ DOMAIN call'[b] = CFields
                         /\ call'[b].phase = "granting" <=> call[b].phase = "granting"
                         /\ call[b].phase = "granting" => call'[b].chain = call[b].chain
  BY <1>1, <1>2, <1>3 DEF IInv, CallsOK
<1>5. Keeps(st, st')  BY DEF Age, IInv, Good, Keeps
<1>6. QED BY <1>4, <1>5, KeptInv DEF Age

LEMMA ClockInv ==
  ASSUME IInv, Clock
  PROVE  IInv'
<1>1. /\ call' = call /\ granting' = granting /\ renewals' = renewals /\ releases' = releases
      /\ lastRelease' = lastRelease /\ planeGen' = planeGen /\ hist' = hist
      /\ DOMAIN st = StFields
  BY DEF Clock, IInv, Good
<1>2. CASE \/ st' = [st EXCEPT !.refreshDue = TRUE] \/ st' = [st EXCEPT !.expired = TRUE]
           \/ st' = [st EXCEPT !.backingOff = FALSE]
 <2>1. Keeps(st, st')  BY <1>1, <1>2 DEF Keeps, StFields
 <2>2. QED BY <1>1, <2>1, KeptInv DEF IInv, CallsOK
<1>3. CASE st.latch = "waiting" /\ st' = [st EXCEPT !.latch = "over"]
 <2>1. /\ DOMAIN st' = StFields /\ st'.leaseId = st.leaseId /\ st'.generation = st.generation
       /\ st'.renewalInFlight = st.renewalInFlight /\ st'.declaration = st.declaration
       /\ st'.pendingReport = st.pendingReport
       /\ st'.declaredModels = st.declaredModels /\ st'.refusedModels = st.refusedModels
       /\ st'.releasePending = st.releasePending /\ st'.latch = "over"
   BY <1>1, <1>3 DEF StFields
 <2>2. st'.latch \in Latch  BY <2>1 DEF Latch
 <2>3. Good(st', planeGen)  BY <2>1, <2>2 DEF IInv, Good, HasLease
 <2>4. OwnedBy(st', renewals) /\ SaidOK(st', renewals, planeGen, hist.said)
   BY <2>1 DEF IInv, OwnedBy, SaidOK, AtOrigin, HasLease
 <2>5. granting = NoCall  BY <1>3 DEF IInv, CallsOK
 <2>6. QED BY <1>1, <2>3, <2>4, <2>5, RenewalStepInv DEF IInv, ReleasesOK
<1>4. QED BY <1>2, <1>3 DEF Clock, Deadline

LEMMA NextInv ==
  ASSUME IInv, [Next]_vars
  PROVE  IInv'
<1>1. ASSUME NEW c \in Call, CallStep(c)
      PROVE  IInv'
  BY <1>1, CheckInv, CheckAnsweredInv, GrantWithheldInv, GrantLatchedInv, GrantAppliedInv,
     SettlementInv, AgeInv DEF CallStep
<1>2. ASSUME NEW r \in renewals, RenewalStep(r)
      PROVE  IInv'
  BY <1>2, SkipRenewalInv, SendRenewalInv, RenewalWithheldInv, RenewalAppliedInv,
     RenewalRefusedInv, RenewalOutdatedInv DEF RenewalStep
<1>3. CASE UNCHANGED vars
  BY <1>3 DEF vars, IInv, CallsOK, ReleasesOK
<1>4. QED BY <1>1, <1>2, <1>3, ReleaseDoneInv, ClockInv DEF Next

(* Every reachable state of the ledger, its calls and its renewals satisfies *)
(* the inductive invariant.                                                   *)
THEOREM Inductive == Spec => []IInv
<1>1. Init => IInv  BY InitInv
<1>2. IInv /\ [Next]_vars => IInv'
  BY NextInv
<1>3. QED BY <1>1, <1>2, PTL DEF Spec

(* A run talks to the plane about one thing at a time: renewalInFlight has one *)
(* operation behind it and that operation carries the report the ledger waits  *)
(* for; a grant is in flight of one waiting call, beside no lease and no       *)
(* undecided refusal (claimRenewal, #claimInitialGrant, refuseLeaseRenewal).   *)
THEOREM OneExchange == Spec => []OneExchangeAtATime
<1>1. IInv => OneExchangeAtATime
 <2> SUFFICES ASSUME IInv
              PROVE  OneExchangeAtATime
   OBVIOUS
 <2>1. \A r \in renewals : AtOrigin(st, r) => HasLease(st) /\ r.generation = st.generation
   BY AtOriginFacts
 <2>2. st.renewalInFlight = TRUE => HasLease(st)  BY DEF IInv, Good
 <2>3. InFlightHasOwner
  <3>1. ASSUME NEW r \in renewals, AtOrigin(st, r)
        PROVE  /\ st.renewalInFlight = TRUE /\ st.pendingReport = {r.report}
               /\ \E d \in st.declaration : d.chain = r.chain /\ d.added = r.added
    BY <2>1, <3>1 DEF IInv, OwnedBy
  <3>2. st.renewalInFlight => \E r \in renewals : AtOrigin(st, r)
    BY DEF IInv, OwnedBy
  <3>3. \A r, q \in renewals : AtOrigin(st, r) /\ AtOrigin(st, q) => r = q
    BY <2>1 DEF IInv, RenewalsOK
  <3>4. QED BY <3>1, <3>2, <3>3 DEF InFlightHasOwner
 <2>4. GrantIsAlone  BY DEF IInv, CallsOK, Good, GrantIsAlone
 <2>5. QED BY <2>3, <2>4 DEF OneExchangeAtATime
<1>2. QED BY <1>1, Inductive, PTL

(* A model that an eligible:false answer refused is in no later declaration of *)
(* the run: declared set, owed retry, renewal or grant (refuseLeaseRenewal,    *)
(* claimWideningRequest, the refusal check of admit).                          *)
THEOREM RefusedStaysOut == Spec => []RefusedNeverDeclared
<1>1. IInv => RefusedNeverDeclared
 <2> SUFFICES ASSUME IInv
              PROVE  RefusedNeverDeclared
   OBVIOUS
 <2>1. \A r \in renewals : AtOrigin(st, r) => r.chain \cap st.refusedModels = {}
   BY AtOriginFacts DEF IInv, Good
 <2>2. st.refusedModels \cap st.declaredModels = {}
       /\ \A d \in Owed(st) : d.chain \cap st.refusedModels = {}
   BY DEF IInv, Good, Owed
 <2>3. granting # NoCall => ~Refuses(st, call[granting].chain)  BY DEF IInv, CallsOK
 <2>4. QED BY <2>1, <2>2, <2>3 DEF RefusedNeverDeclared
<1>2. QED BY <1>1, Inductive, PTL

(* However often and by whatever call a renewal is retried, the plane is told *)
(* one declaration per generation (claimRenewal keeps what is owed,           *)
(* renewalFailed what was dispatched).                                        *)
THEOREM OneDeclaration == Spec => []OneDeclarationPerGeneration
<1>1. IInv => OneDeclarationPerGeneration  BY DEF IInv, SaidOK, OneDeclarationPerGeneration
<1>2. QED BY <1>1, Inductive, PTL

(* While the release of a refusal is undecided no step but that release's own *)
(* opens the latch: there is no lease to renew and no grant in flight, and    *)
(* every admission before the deadline leaves the latch alone.                *)
LEMMA LatchHolds ==
  ASSUME IInv, Next, st.releasePending # NoRelease, st.latch = "waiting", st'.latch = "none"
  PROVE  st.releasePending \in releases \ releases'
<1>1. ~HasLease(st) /\ granting = NoCall /\ NoCall \notin Call
  BY LedgerAssumption DEF IInv, Good, CallsOK
<1>2. \A r \in renewals : ~AtOrigin(st, r)
  BY <1>1, AtOriginFacts
<1>3. DOMAIN st = StFields  BY DEF IInv, Good
<1>4. ASSUME NEW c \in Call, CallStep(c)
      PROVE  FALSE
 <2>1. CASE Check(c)
  <3>1. Step(st, st', planeGen)  BY <2>1, CheckLands DEF Lands, ClaimsGrant
  <3>2. QED BY <3>1 DEF Step, LatchKept
 <2>2. CASE CheckAnswered(c)
  <3>1. Step(st, st', planeGen)  BY <2>2, CheckAnsweredLands DEF Lands
  <3>2. QED BY <3>1 DEF Step, LatchKept
 <2>3. CASE GrantWithheld(c) \/ GrantLatched(c) \/ GrantApplied(c)
   BY <1>1, <2>3 DEF GrantWithheld, GrantLatched, GrantApplied
 <2>4. CASE TrueUp(c) \/ Release(c)
   BY <2>4, SettlementKeeps DEF Keeps
 <2>5. CASE Age(c)
   BY <2>5 DEF Age
 <2>6. QED BY <1>4, <2>1, <2>2, <2>3, <2>4, <2>5 DEF CallStep
<1>5. ASSUME NEW r \in renewals, RenewalStep(r)
      PROVE  FALSE
 <2>1. ~AtOrigin(st, r)  BY <1>2
 <2>2. st' = st
   BY <1>5, <2>1 DEF RenewalStep, SkipRenewal, SendRenewal, RenewalWithheld, RenewalApplied,
      RenewalRefused, RenewalOutdated, RenewalFailed, MarkDispatched
 <2>3. QED BY <2>2
<1>6. ASSUME NEW token \in releases, ReleaseDone(token)
      PROVE  st.releasePending \in releases \ releases'
 <2>1. CASE st.releasePending = token
   BY <1>6, <2>1 DEF ReleaseDone
 <2>2. CASE st.releasePending # token
   BY <1>6, <2>2 DEF ReleaseDone, ResolveRelease
 <2>3. QED BY <2>1, <2>2
<1>7. CASE Clock
  BY <1>3, <1>7 DEF Clock, Deadline, StFields
<1>8. QED BY <1>4, <1>5, <1>6, <1>7 DEF Next

(* A refused run returns to grants when the release of that very refusal was  *)
(* sent, or when its latch ran out: never on a late outcome of an earlier one *)
(* (resolveRefusedRelease compares the token, admit waits for the deadline).  *)
THEOREM UndecidedHolds == Spec => UndecidedRefusalHolds
<1>1. IInv /\ [Next]_vars =>
        [ st.releasePending # NoRelease /\ st.latch = "waiting" /\ st'.latch = "none"
          => st.releasePending \in releases \ releases' ]_vars
  BY LatchHolds
<1>2. QED BY <1>1, Inductive, PTL DEF Spec, UndecidedRefusalHolds

-----------------------------------------------------------------------------
(* Sums of tokens. *)

Pairs(cs, S) == UNION {{c} \X (1 .. cs[c].tokens) : c \in S}

(* The calls that hold, used or went without tokens of some pool. *)
Held(cs) == {c \in Call : cs[c].pool # "none"}

LEMMA PairsOf ==
  ASSUME NEW cs, NEW S, NEW z
  PROVE  z \in Pairs(cs, S) <=> \E c \in S : z \in {c} \X (1 .. cs[c].tokens)
BY DEF Pairs

LEMMA PairsSubset ==
  ASSUME NEW cs, NEW S, NEW T, S \subseteq T
  PROVE  Pairs(cs, S) \subseteq Pairs(cs, T)
BY DEF Pairs

LEMMA SumSame ==
  ASSUME NEW cs, NEW ds, NEW S, \A c \in S : cs[c].tokens = ds[c].tokens
  PROVE  Pairs(cs, S) = Pairs(ds, S) /\ Sum(cs, S) = Sum(ds, S)
<1>1. \A z : z \in Pairs(cs, S) <=> z \in Pairs(ds, S)
  BY PairsOf
<1>2. Pairs(cs, S) = Pairs(ds, S)  BY <1>1
<1>3. QED BY <1>2 DEF Sum, Pairs

LEMMA SumEmpty ==
  ASSUME NEW cs
  PROVE  Sum(cs, {}) = 0
<1>1. Pairs(cs, {}) = {}  BY DEF Pairs
<1>2. QED BY <1>1, FS_EmptySet DEF Sum, Pairs

LEMMA SumSingle ==
  ASSUME NEW cs, NEW c, cs[c].tokens \in Nat
  PROVE  Sum(cs, {c}) = cs[c].tokens /\ IsFiniteSet(Pairs(cs, {c}))
<1> DEFINE n == cs[c].tokens
           f == [i \in 1 .. n |-> <<c, i>>]
<1>1. Pairs(cs, {c}) = {c} \X (1 .. n)  BY DEF Pairs
<1>2. f \in Bijection(1 .. n, {c} \X (1 .. n))
 <2>1. f \in [1 .. n -> {c} \X (1 .. n)]  OBVIOUS
 <2>2. \A i, j \in 1 .. n : f[i] = f[j] => i = j
   OBVIOUS
 <2>3. \A z \in {c} \X (1 .. n) : \E i \in 1 .. n : f[i] = z
   OBVIOUS
 <2>4. QED BY <2>1, <2>2, <2>3 DEF Bijection, Injection, Surjection, IsInjective
<1>3. ExistsBijection(1 .. n, {c} \X (1 .. n))  BY <1>2 DEF ExistsBijection
<1>4. IsFiniteSet(1 .. n) /\ Cardinality(1 .. n) = n
 <2>1. n \in Int /\ 1 \in Int /\ n >= 0
   OBVIOUS
 <2> HIDE DEF n
 <2>2. IsFiniteSet(1 .. n) /\ Cardinality(1 .. n) = IF 1 > n THEN 0 ELSE n - 1 + 1
   BY <2>1, FS_Interval
 <2>3. QED BY <2>1, <2>2
<1>5. IsFiniteSet({c} \X (1 .. n)) /\ Cardinality({c} \X (1 .. n)) = n
  BY <1>3, <1>4, FS_Bijection
<1>6. QED BY <1>1, <1>5 DEF Sum, Pairs

LEMMA SumSplit ==
  ASSUME NEW cs, NEW S, NEW T, S \cap T = {},
         IsFiniteSet(Pairs(cs, S)), IsFiniteSet(Pairs(cs, T))
  PROVE  /\ IsFiniteSet(Pairs(cs, S \cup T))
         /\ Sum(cs, S) \in Nat /\ Sum(cs, T) \in Nat
         /\ Sum(cs, S \cup T) = Sum(cs, S) + Sum(cs, T)
<1> DEFINE A == Pairs(cs, S)
           B == Pairs(cs, T)
<1>1. Pairs(cs, S \cup T) = A \cup B  BY DEF Pairs
<1>2. A \cap B = {}
 <2>1. ASSUME NEW z \in A, z \in B
       PROVE  FALSE
  <3>1. PICK c \in S : z \in {c} \X (1 .. cs[c].tokens)
    BY <2>1, PairsOf
  <3>2. PICK d \in T : z \in {d} \X (1 .. cs[d].tokens)
    BY <2>1, PairsOf
  <3>3. z[1] = c /\ z[1] = d
    BY <3>1, <3>2
  <3>4. QED BY <3>3
 <2>2. QED BY <2>1
<1>3. /\ IsFiniteSet(A \cup B)
      /\ Cardinality(A \cup B) = Cardinality(A) + Cardinality(B) - Cardinality(A \cap B)
  BY FS_Union
<1>4. Cardinality(A) \in Nat /\ Cardinality(B) \in Nat /\ Cardinality(A \cap B) = 0
  BY <1>2, FS_CardinalityType, FS_EmptySet
<1>5. Sum(cs, S) = Cardinality(A) /\ Sum(cs, T) = Cardinality(B)
      /\ Sum(cs, S \cup T) = Cardinality(A \cup B)
  BY <1>1 DEF Sum, Pairs
<1>6. IsFiniteSet(Pairs(cs, S \cup T))  BY <1>1, <1>3
<1> HIDE DEF A, B
<1>7. Sum(cs, S) \in Nat /\ Sum(cs, T) \in Nat
  BY <1>4, <1>5
<1>8. Sum(cs, S \cup T) = Sum(cs, S) + Sum(cs, T)  BY <1>3, <1>4, <1>5
<1>9. QED BY <1>6, <1>7, <1>8

(* S of cs and T of ds differ in call c only. *)
Differ(cs, ds, S, T, c) ==
  /\ S \ {c} = T \ {c} /\ \A b \in S \ {c} : cs[b].tokens = ds[b].tokens
  /\ cs[c].tokens \in Nat /\ ds[c].tokens \in Nat
  /\ IsFiniteSet(Pairs(cs, S \ {c}))

Own(cs, S, c) == IF c \in S THEN cs[c].tokens ELSE 0

LEMMA SumWithout ==
  ASSUME NEW cs, NEW S, NEW c, cs[c].tokens \in Nat, IsFiniteSet(Pairs(cs, S \ {c}))
  PROVE  /\ Sum(cs, S \ {c}) \in Nat /\ Sum(cs, S) \in Nat
         /\ Sum(cs, S) = Sum(cs, S \ {c}) + Own(cs, S, c)
<1> DEFINE R == S \ {c}
<1>1. Sum(cs, R) \in Nat  BY FS_CardinalityType DEF Sum, Pairs
<1>2. Sum(cs, S) = Sum(cs, R) + Own(cs, S, c)
 <2>1. CASE c \in S
  <3>1. S = R \cup {c} /\ R \cap {c} = {}
    BY <2>1
  <3>2. Sum(cs, R \cup {c}) = Sum(cs, R) + Sum(cs, {c})  BY <3>1, SumSplit, SumSingle
  <3>3. Sum(cs, {c}) = cs[c].tokens  BY SumSingle
  <3>4. QED BY <2>1, <3>1, <3>2, <3>3 DEF Own
 <2>2. CASE c \notin S
  <3>1. Sum(cs, S) = Sum(cs, R)
   <4>1. S = R  BY <2>2
   <4>2. QED BY <4>1
  <3> HIDE DEF R
  <3>2. QED BY <1>1, <2>2, <3>1 DEF Own
 <2>3. QED BY <2>1, <2>2
<1>3. Own(cs, S, c) \in Nat  BY DEF Own
<1> HIDE DEF R
<1>4. Sum(cs, S) \in Nat  BY <1>1, <1>2, <1>3
<1>5. QED BY <1>1, <1>2, <1>4 DEF R

(* Two sums that differ in one call differ by its tokens. *)
LEMMA SumMoves ==
  ASSUME NEW cs, NEW ds, NEW S, NEW T, NEW c, Differ(cs, ds, S, T, c)
  PROVE  /\ Sum(cs, S) \in Nat /\ Sum(ds, T) \in Nat
         /\ Own(cs, S, c) \in Nat /\ Own(ds, T, c) \in Nat
         /\ Sum(ds, T) = Sum(cs, S) - Own(cs, S, c) + Own(ds, T, c)
<1>1. Pairs(cs, S \ {c}) = Pairs(ds, S \ {c}) /\ Sum(cs, S \ {c}) = Sum(ds, S \ {c})
  BY SumSame DEF Differ
<1>2. IsFiniteSet(Pairs(ds, T \ {c})) /\ Sum(cs, S \ {c}) = Sum(ds, T \ {c})
  BY <1>1 DEF Differ
<1>3. /\ Sum(cs, S \ {c}) \in Nat /\ Sum(cs, S) \in Nat
      /\ Sum(cs, S) = Sum(cs, S \ {c}) + Own(cs, S, c)
  BY SumWithout DEF Differ
<1>4. /\ Sum(ds, T \ {c}) \in Nat /\ Sum(ds, T) \in Nat
      /\ Sum(ds, T) = Sum(ds, T \ {c}) + Own(ds, T, c)
  BY <1>2, SumWithout DEF Differ
<1>5. Own(cs, S, c) \in Nat /\ Own(ds, T, c) \in Nat
  BY DEF Own, Differ
<1>6. QED BY <1>2, <1>3, <1>4, <1>5

LEMMA MaxZero ==
  ASSUME NEW n \in Int
  PROVE  Max({0, n}) = IF n >= 0 THEN n ELSE 0
<1> DEFINE m == IF n >= 0 THEN n ELSE 0
<1>1. m \in {0, n} /\ \A y \in {0, n} : m >= y
  OBVIOUS
<1>2. \A x \in {0, n} : (\A y \in {0, n} : x >= y) => x = m
  OBVIOUS
<1>3. QED BY <1>1, <1>2 DEF Max

-----------------------------------------------------------------------------
(* The books of a lease. *)

Numbers(s) ==
  /\ s.incarnation \in Nat /\ s.grantedTokens \in Nat
  /\ s.grantedRemaining \in Int /\ s.shareRemaining \in Int
  /\ s.spent \in Nat /\ s.uncountedCalls \in Nat /\ s.uncountedTokens \in Nat

(* What is reported and not yet acknowledged is still on the ledger. *)
Reported(s) ==
  /\ ~HasLease(s) => s.pendingReport = {}
  /\ \A p, q \in s.pendingReport : p = q
  /\ \A p \in s.pendingReport :
       /\ p.spent \in Nat /\ p.spent <= s.spent
       /\ p.calls \in Nat /\ p.calls <= s.uncountedCalls
       /\ p.tokens \in Nat /\ p.tokens <= s.uncountedTokens

(* A reservation is of a pool and of an incarnation no later than i, and a call *)
(* that still waits has drawn nothing of any.                                   *)
Entry(k, i) ==
  /\ DOMAIN k = CFields
  /\ k.tokens \in Nat /\ k.incarnation \in Nat /\ k.incarnation <= i
  /\ k.phase \in {"reserved", "aged", "swept"} => k.pool \in {"granted", "share"}
  /\ k.phase \in {"new", "granting", "asking"} => k.pool = "none" /\ k.incarnation = 0

(* The calls that drew on something are finite, and so are their tokens. *)
Entries(cs, i) ==
  /\ IsFiniteSet(Held(cs)) /\ IsFiniteSet(Pairs(cs, Held(cs)))
  /\ \A c \in Call : Entry(cs[c], i)

(* The balance of a lease whose calls hold hg and hs of the two pools and used *)
(* ug and us of them.                                                          *)
Level(s, h, hg, ug, hs, us) ==
  /\ s.grantedRemaining + hg + (ug - h.granted) <= s.grantedTokens
  /\ s.grantedTokens <= s.grantedRemaining + hg + s.spent
  /\ s.shareRemaining + hs + (us - h.shareBase) = h.shareGrant
  /\ s.spent + h.spend = ug + us

Holds(cs, s, pool) == Tokens(cs, s, {"reserved", "aged"}, pool)
Spends(cs, s, pool) == Tokens(cs, s, {"done"}, pool)

Balanced(s, cs, h) ==
  HasLease(s) => Level(s, h, Holds(cs, s, "granted"), Spends(cs, s, "granted"),
                             Holds(cs, s, "share"), Spends(cs, s, "share"))

Uncounting(cs) == {c \in Call : cs[c].pool = "uncounted"}

Owing(s, cs, h) ==
  /\ s.uncountedCalls + h.calls = Cardinality(Uncounting(cs))
  /\ s.uncountedTokens + h.tokens = Sum(cs, Uncounting(cs))

Tallies(h) ==
  /\ h.spend \in Nat /\ h.granted \in Nat /\ h.shareBase \in Nat /\ h.shareGrant \in Nat
  /\ h.calls \in Nat /\ h.tokens \in Nat

(* The ledger s, the calls cs and the history h agree to the token. *)
Books(s, cs, h) ==
  /\ DOMAIN s = StFields /\ DOMAIN cs = Call
  /\ Numbers(s) /\ Reported(s) /\ Tallies(h)
  /\ Entries(cs, s.incarnation)
  /\ Balanced(s, cs, h) /\ Owing(s, cs, h)

(* What record k adds to a sum of tokens. *)
Part(s, k, phases, pool) ==
  IF k.phase \in phases /\ k.pool = pool /\ Belongs(s, k) THEN k.tokens ELSE 0

(* ds is cs but for the record of call c, and t is under the lease of s. *)
Rewrites(cs, ds, s, t, c) ==
  /\ c \in Call /\ IsFiniteSet(Pairs(cs, Held(cs)))
  /\ \A b \in Call \ {c} : ds[b] = cs[b]
  /\ cs[c].tokens \in Nat /\ ds[c].tokens \in Nat
  /\ t.leaseId = s.leaseId /\ t.incarnation = s.incarnation

LEMMA TokensMove ==
  ASSUME NEW cs, NEW ds, NEW s, NEW t, NEW c, Rewrites(cs, ds, s, t, c),
         NEW phases, NEW pool, pool # "none"
  PROVE  /\ Tokens(cs, s, phases, pool) \in Nat /\ Tokens(ds, t, phases, pool) \in Nat
         /\ Part(s, cs[c], phases, pool) \in Nat /\ Part(t, ds[c], phases, pool) \in Nat
         /\ Tokens(ds, t, phases, pool) = Tokens(cs, s, phases, pool)
              - Part(s, cs[c], phases, pool) + Part(t, ds[c], phases, pool)
<1> DEFINE S == Of(cs, s, phases, pool)
           T == Of(ds, t, phases, pool)
<1>1. \A b \in Call \ {c} : b \in T <=> b \in S
  BY DEF Of, Belongs, Rewrites
<1>2. S \ {c} = T \ {c}  BY <1>1 DEF Of
<1>3. S \ {c} \subseteq Held(cs) /\ S \subseteq Call
  BY DEF Of, Held
<1>4. IsFiniteSet(Pairs(cs, S \ {c}))  BY <1>3, PairsSubset, FS_Subset DEF Rewrites
<1>5. \A b \in S \ {c} : cs[b].tokens = ds[b].tokens
  BY <1>3 DEF Rewrites
<1>6. /\ c \in S <=> cs[c].phase \in phases /\ cs[c].pool = pool /\ Belongs(s, cs[c])
      /\ c \in T <=> ds[c].phase \in phases /\ ds[c].pool = pool /\ Belongs(t, ds[c])
  BY DEF Of, Rewrites
<1> HIDE DEF S, T
<1>7. Differ(cs, ds, S, T, c)  BY <1>2, <1>4, <1>5 DEF Differ, Rewrites
<1>8. Tokens(cs, s, phases, pool) = Sum(cs, S) /\ Tokens(ds, t, phases, pool) = Sum(ds, T)
  BY DEF Tokens, S, T
<1>9. Part(s, cs[c], phases, pool) = Own(cs, S, c) /\ Part(t, ds[c], phases, pool) = Own(ds, T, c)
  BY <1>6 DEF Part, Own
<1>10. QED BY <1>7, <1>8, <1>9, SumMoves

(* The sums a balance is made of are numbers. *)
LEMMA TokensType ==
  ASSUME NEW cs, NEW s, NEW phases, NEW pool, pool # "none", IsFiniteSet(Pairs(cs, Held(cs)))
  PROVE  Tokens(cs, s, phases, pool) \in Nat
<1>1. Of(cs, s, phases, pool) \subseteq Held(cs)  BY DEF Of, Held
<1>2. IsFiniteSet(Pairs(cs, Of(cs, s, phases, pool)))  BY <1>1, PairsSubset, FS_Subset
<1>3. QED BY <1>2, FS_CardinalityType DEF Tokens, Sum, Pairs

LEMMA SumsType ==
  ASSUME NEW cs, NEW s, NEW i, Entries(cs, i)
  PROVE  /\ Holds(cs, s, "granted") \in Nat /\ Spends(cs, s, "granted") \in Nat
         /\ Holds(cs, s, "share") \in Nat /\ Spends(cs, s, "share") \in Nat
<1>1. IsFiniteSet(Pairs(cs, Held(cs)))  BY DEF Entries
<1>2. \A pool \in {"granted", "share"} :
        Tokens(cs, s, {"reserved", "aged"}, pool) \in Nat /\ Tokens(cs, s, {"done"}, pool) \in Nat
  BY <1>1, TokensType
<1>3. QED BY <1>2 DEF Holds, Spends

(* No call was reserved under an incarnation that is yet to come. *)
LEMMA FreshSums ==
  ASSUME NEW cs, NEW i \in Nat, Entries(cs, i), NEW s, s.incarnation \in Nat, s.incarnation > i
  PROVE  /\ Holds(cs, s, "granted") = 0 /\ Spends(cs, s, "granted") = 0
         /\ Holds(cs, s, "share") = 0 /\ Spends(cs, s, "share") = 0
         /\ \A phases, pool : Tokens(cs, s, phases, pool) = 0
<1>1. ASSUME NEW phases, NEW pool
      PROVE  Tokens(cs, s, phases, pool) = 0
 <2>1. \A c \in Call : ~Belongs(s, cs[c])
   BY DEF Entries, Entry, Belongs
 <2>2. Of(cs, s, phases, pool) = {}  BY <2>1 DEF Of
 <2>3. QED BY <2>2, SumEmpty DEF Tokens
<1>2. QED BY <1>1 DEF Holds, Spends

LEMMA SameSums ==
  ASSUME NEW cs, NEW s, NEW t, t.leaseId = s.leaseId, t.incarnation = s.incarnation
  PROVE  /\ Holds(cs, t, "granted") = Holds(cs, s, "granted")
         /\ Spends(cs, t, "granted") = Spends(cs, s, "granted")
         /\ Holds(cs, t, "share") = Holds(cs, s, "share")
         /\ Spends(cs, t, "share") = Spends(cs, s, "share")
         /\ \A phases, pool : Tokens(cs, t, phases, pool) = Tokens(cs, s, phases, pool)
<1>1. ASSUME NEW phases, NEW pool
      PROVE  Tokens(cs, t, phases, pool) = Tokens(cs, s, phases, pool)
 <2>1. \A c \in Call : Belongs(t, cs[c]) <=> Belongs(s, cs[c])
   BY DEF Belongs
 <2>2. Of(cs, t, phases, pool) = Of(cs, s, phases, pool)  BY <2>1 DEF Of
 <2>3. QED BY <2>2 DEF Tokens
<1>2. QED BY <1>1 DEF Holds, Spends

(* One call's record is written. *)
LEMMA EntriesWrite ==
  ASSUME NEW cs, NEW i \in Nat, Entries(cs, i), DOMAIN cs = Call, NEW c \in Call, NEW k,
         NEW j \in Nat, i <= j, Entry(k, j)
  PROVE  Entries([cs EXCEPT ![c] = k], j)
<1> DEFINE ds == [cs EXCEPT ![c] = k]
<1>1. ds[c] = k /\ \A b \in Call \ {c} : ds[b] = cs[b]
  OBVIOUS
<1> HIDE DEF ds
<1>2. Held(ds) \subseteq Held(cs) \cup {c}  BY <1>1 DEF Held
<1>3. IsFiniteSet(Held(cs) \cup {c})  BY FS_AddElement DEF Entries
<1>4. IsFiniteSet(Held(ds))  BY <1>2, <1>3, FS_Subset
<1>5. Held(cs) \ {c} \subseteq Held(cs) /\ Held(cs) \ {c} \subseteq Call
  BY DEF Held
<1>6. IsFiniteSet(Pairs(cs, Held(cs) \ {c}))  BY <1>5, PairsSubset, FS_Subset DEF Entries
<1>7. Pairs(ds, Held(cs) \ {c}) = Pairs(cs, Held(cs) \ {c})  BY <1>1, <1>5, SumSame
<1>8. IsFiniteSet(Pairs(ds, {c}))  BY <1>1, SumSingle DEF Entry
<1>9. IsFiniteSet(Pairs(ds, (Held(cs) \ {c}) \cup {c}))  BY <1>6, <1>7, <1>8, SumSplit
<1>10. Held(ds) \subseteq (Held(cs) \ {c}) \cup {c}  BY <1>2
<1>11. IsFiniteSet(Pairs(ds, Held(ds)))  BY <1>9, <1>10, PairsSubset, FS_Subset
<1>12. \A b \in Call : Entry(ds[b], j)
  BY <1>1 DEF Entries, Entry
<1>13. Entries(ds, j)  BY <1>4, <1>11, <1>12 DEF Entries
<1>14. QED BY <1>13 DEF ds

-----------------------------------------------------------------------------
(* The methods of the ledger keep its books. *)

(* t holds what s holds, *)
SameMoney(s, t) ==
  /\ DOMAIN t = StFields /\ t.leaseId = s.leaseId /\ t.generation = s.generation
  /\ t.incarnation = s.incarnation /\ t.grantedTokens = s.grantedTokens
  /\ t.grantedRemaining = s.grantedRemaining /\ t.shareRemaining = s.shareRemaining
  /\ t.spent = s.spent
  /\ t.uncountedCalls = s.uncountedCalls /\ t.uncountedTokens = s.uncountedTokens
  /\ t.pendingReport = s.pendingReport /\ t.renewalInFlight = s.renewalInFlight

(* or has drawn n from a pool for a call, *)
Draws(s, t, pool, n) ==
  /\ DOMAIN t = StFields /\ t.leaseId = s.leaseId /\ t.generation = s.generation
  /\ t.incarnation = s.incarnation /\ t.grantedTokens = s.grantedTokens /\ t.spent = s.spent
  /\ t.grantedRemaining = s.grantedRemaining - (IF pool = "granted" THEN n ELSE 0)
  /\ t.shareRemaining = s.shareRemaining - (IF pool = "share" THEN n ELSE 0)
  /\ t.uncountedCalls = s.uncountedCalls /\ t.uncountedTokens = s.uncountedTokens
  /\ t.pendingReport = s.pendingReport /\ t.renewalInFlight = s.renewalInFlight

(* or owes the plane one more call of n tokens, *)
Owes(s, t, n) ==
  /\ DOMAIN t = StFields /\ t.leaseId = s.leaseId /\ t.generation = s.generation
  /\ t.incarnation = s.incarnation /\ t.grantedTokens = s.grantedTokens
  /\ t.grantedRemaining = s.grantedRemaining /\ t.shareRemaining = s.shareRemaining
  /\ t.spent = s.spent
  /\ t.uncountedCalls = s.uncountedCalls + 1 /\ t.uncountedTokens = s.uncountedTokens + n
  /\ t.pendingReport = s.pendingReport /\ t.renewalInFlight = s.renewalInFlight

(* or has claimed a renewal, which reports what the ledger owes just then, *)
Reporting(s, t) ==
  /\ DOMAIN t = StFields /\ t.leaseId = s.leaseId /\ t.generation = s.generation
  /\ t.incarnation = s.incarnation /\ t.grantedTokens = s.grantedTokens
  /\ t.grantedRemaining = s.grantedRemaining /\ t.shareRemaining = s.shareRemaining
  /\ t.spent = s.spent /\ t.postureMode = s.postureMode
  /\ t.uncountedCalls = s.uncountedCalls /\ t.uncountedTokens = s.uncountedTokens
  /\ \/ t.pendingReport = s.pendingReport /\ t.renewalInFlight = s.renewalInFlight
     \/ /\ HasLease(s) /\ ~s.renewalInFlight /\ t.renewalInFlight = TRUE
        /\ t.pendingReport = {[spent |-> s.spent, calls |-> s.uncountedCalls,
                               tokens |-> s.uncountedTokens]}

(* or has given its lease up. *)
Ends(s, t) ==
  /\ DOMAIN t = StFields /\ t.leaseId = NoLease /\ t.incarnation = s.incarnation + 1
  /\ t.grantedTokens = 0 /\ t.grantedRemaining = 0 /\ t.shareRemaining = 0 /\ t.spent = 0
  /\ t.uncountedCalls = s.uncountedCalls /\ t.uncountedTokens = s.uncountedTokens
  /\ t.pendingReport = {} /\ t.renewalInFlight = FALSE

LEMMA SameBooks ==
  ASSUME NEW s, NEW t, NEW cs, NEW h, Books(s, cs, h), SameMoney(s, t)
  PROVE  Books(t, cs, h)
<1>1. HasLease(t) <=> HasLease(s)  BY DEF SameMoney, HasLease
<1>2. Numbers(t) /\ Reported(t)
  BY <1>1 DEF Books, SameMoney, Numbers, Reported
<1>3. Entries(cs, t.incarnation)  BY DEF Books, SameMoney
<1>4. Balanced(t, cs, h)
 <2>1. /\ Holds(cs, t, "granted") = Holds(cs, s, "granted")
       /\ Spends(cs, t, "granted") = Spends(cs, s, "granted")
       /\ Holds(cs, t, "share") = Holds(cs, s, "share")
       /\ Spends(cs, t, "share") = Spends(cs, s, "share")
   BY SameSums DEF SameMoney
 <2>2. QED BY <1>1, <2>1 DEF Books, Balanced, Level, SameMoney
<1>5. Owing(t, cs, h)  BY DEF Books, Owing, SameMoney
<1>6. QED BY <1>2, <1>3, <1>4, <1>5 DEF Books, SameMoney

LEMMA EntriesLater ==
  ASSUME NEW cs, NEW i \in Nat, NEW j \in Nat, i <= j, Entries(cs, i)
  PROVE  Entries(cs, j)
BY DEF Entries, Entry

LEMMA EndBooks ==
  ASSUME NEW s, NEW t, NEW cs, NEW h, Books(s, cs, h), Ends(s, t)
  PROVE  Books(t, cs, h) /\ ~HasLease(t)
<1>1. ~HasLease(t)  BY DEF Ends, HasLease
<1>2. Numbers(t) /\ Reported(t) /\ Balanced(t, cs, h)
  BY <1>1 DEF Books, Ends, Numbers, Reported, Balanced
<1>3. Entries(cs, t.incarnation)  BY EntriesLater DEF Books, Ends, Numbers
<1>4. Owing(t, cs, h)  BY DEF Books, Owing, Ends
<1>5. QED BY <1>1, <1>2, <1>3, <1>4 DEF Books, Ends

LEMMA ClaimMoney ==
  ASSUME NEW s, DOMAIN s = StFields, NEW models
  PROVE  Reporting(s, ClaimRenewal(s, models))
<1>1. CASE ~HasLease(s) \/ s.renewalInFlight
  BY <1>1 DEF ClaimRenewal, Reporting
<1>2. CASE HasLease(s) /\ ~s.renewalInFlight
  BY <1>2 DEF ClaimRenewal, Reporting, StFields
<1>3. QED BY <1>1, <1>2

LEMMA ClaimBooks ==
  ASSUME NEW s, NEW cs, NEW h, Books(s, cs, h), NEW models
  PROVE  Books(ClaimRenewal(s, models), cs, h)
<1> DEFINE t == ClaimRenewal(s, models)
<1>1. Reporting(s, t)  BY ClaimMoney DEF Books
<1> HIDE DEF t
<1>2. HasLease(t) <=> HasLease(s)  BY <1>1 DEF HasLease, Reporting
<1>3. Numbers(t)  BY <1>1 DEF Books, Numbers, Reporting
<1>4. Reported(t)
 <2>1. CASE t.pendingReport = s.pendingReport
   BY <1>1, <1>2, <2>1 DEF Books, Reported, Reporting
 <2>2. CASE HasLease(s) /\ t.pendingReport = {[spent |-> s.spent, calls |-> s.uncountedCalls,
                                               tokens |-> s.uncountedTokens]}
   BY <1>1, <1>2, <2>2 DEF Books, Numbers, Reported, Reporting
 <2>3. QED BY <1>1, <2>1, <2>2 DEF Reporting
<1>5. Balanced(t, cs, h)
 <2>1. /\ Holds(cs, t, "granted") = Holds(cs, s, "granted")
       /\ Spends(cs, t, "granted") = Spends(cs, s, "granted")
       /\ Holds(cs, t, "share") = Holds(cs, s, "share")
       /\ Spends(cs, t, "share") = Spends(cs, s, "share")
   BY <1>1, SameSums DEF Reporting
 <2>2. QED BY <1>1, <1>2, <2>1 DEF Books, Balanced, Level, Reporting
<1>6. Owing(t, cs, h) /\ Entries(cs, t.incarnation)
  BY <1>1 DEF Books, Owing, Reporting
<1>7. QED BY <1>1, <1>3, <1>4, <1>5, <1>6 DEF Books, Reporting, t

-----------------------------------------------------------------------------
(* A sweep moves what aged calls hold back into their pools. *)

LEMMA SweepRecord ==
  ASSUME NEW cs, NEW i, Entries(cs, i), NEW b \in Call
  PROVE  /\ Sweep(cs)[b].pool = cs[b].pool /\ Sweep(cs)[b].tokens = cs[b].tokens
         /\ Sweep(cs)[b].lease = cs[b].lease /\ Sweep(cs)[b].incarnation = cs[b].incarnation
         /\ Sweep(cs)[b].phase = IF cs[b].phase = "aged" THEN "swept" ELSE cs[b].phase
         /\ DOMAIN Sweep(cs)[b] = CFields
         /\ cs[b].phase # "aged" => Sweep(cs)[b] = cs[b]
BY DEF Sweep, Entries, Entry, CFields

LEMMA SweepSums ==
  ASSUME NEW cs, NEW s, NEW i, Entries(cs, i), NEW pool, pool # "none"
  PROVE  /\ Holds(Sweep(cs), s, pool) + Tokens(cs, s, {"aged"}, pool) = Holds(cs, s, pool)
         /\ Tokens(cs, s, {"aged"}, pool) \in Nat /\ Holds(Sweep(cs), s, pool) \in Nat
         /\ Spends(Sweep(cs), s, pool) = Spends(cs, s, pool)
<1> DEFINE ds == Sweep(cs)
           A == Of(cs, s, {"reserved"}, pool)
           B == Of(cs, s, {"aged"}, pool)
<1>1. \A b \in Call : /\ ds[b].pool = cs[b].pool /\ ds[b].tokens = cs[b].tokens
                      /\ ds[b].lease = cs[b].lease /\ ds[b].incarnation = cs[b].incarnation
                      /\ ds[b].phase = IF cs[b].phase = "aged" THEN "swept" ELSE cs[b].phase
  BY SweepRecord
<1> HIDE DEF ds
<1>2. \A b \in Call : Belongs(s, ds[b]) <=> Belongs(s, cs[b])
  BY <1>1 DEF Belongs
<1>3. Of(ds, s, {"reserved", "aged"}, pool) = A  BY <1>1, <1>2 DEF Of
<1>4. Of(cs, s, {"reserved", "aged"}, pool) = A \cup B /\ A \cap B = {}
  BY DEF Of
<1>5. Of(ds, s, {"done"}, pool) = Of(cs, s, {"done"}, pool)  BY <1>1, <1>2 DEF Of
<1>6. A \subseteq Held(cs) /\ B \subseteq Held(cs) /\ A \subseteq Call
  BY DEF Of, Held
<1>7. IsFiniteSet(Pairs(cs, A)) /\ IsFiniteSet(Pairs(cs, B))
  BY <1>6, PairsSubset, FS_Subset DEF Entries
<1> HIDE DEF A, B
<1>8. Sum(cs, A \cup B) = Sum(cs, A) + Sum(cs, B) /\ Sum(cs, A) \in Nat /\ Sum(cs, B) \in Nat
  BY <1>4, <1>7, SumSplit
<1>9. Sum(ds, A) = Sum(cs, A)  BY <1>1, <1>6, SumSame
<1>10. Holds(ds, s, pool) = Sum(cs, A) /\ Holds(cs, s, pool) = Sum(cs, A \cup B)
  BY <1>3, <1>4, <1>9 DEF Holds, Tokens
<1>11. Tokens(cs, s, {"aged"}, pool) = Sum(cs, B)  BY DEF Tokens, B
<1>12. Spends(ds, s, pool) = Spends(cs, s, pool)
 <2>1. Of(cs, s, {"done"}, pool) \subseteq Call  BY DEF Of
 <2>2. Sum(ds, Of(cs, s, {"done"}, pool)) = Sum(cs, Of(cs, s, {"done"}, pool))
   BY <1>1, <2>1, SumSame
 <2>3. QED BY <1>5, <2>2 DEF Spends, Tokens
<1>13. QED BY <1>8, <1>10, <1>11, <1>12 DEF ds

LEMMA SweepEntries ==
  ASSUME NEW cs, NEW i, Entries(cs, i)
  PROVE  /\ Entries(Sweep(cs), i) /\ Uncounting(Sweep(cs)) = Uncounting(cs)
         /\ Sum(Sweep(cs), Uncounting(cs)) = Sum(cs, Uncounting(cs))
<1> DEFINE ds == Sweep(cs)
<1>1. \A b \in Call : /\ ds[b].pool = cs[b].pool /\ ds[b].tokens = cs[b].tokens
                      /\ ds[b].lease = cs[b].lease /\ ds[b].incarnation = cs[b].incarnation
                      /\ ds[b].phase = IF cs[b].phase = "aged" THEN "swept" ELSE cs[b].phase
                      /\ DOMAIN ds[b] = CFields
  BY SweepRecord
<1> HIDE DEF ds
<1>2. Held(ds) = Held(cs) /\ Uncounting(ds) = Uncounting(cs)
  BY <1>1 DEF Held, Uncounting
<1>3. Held(cs) \subseteq Call /\ Uncounting(cs) \subseteq Call
  BY DEF Held, Uncounting
<1>4. Pairs(ds, Held(cs)) = Pairs(cs, Held(cs)) /\ Sum(ds, Uncounting(cs)) = Sum(cs, Uncounting(cs))
  BY <1>1, <1>3, SumSame
<1>5. \A b \in Call : Entry(ds[b], i)
  BY <1>1 DEF Entries, Entry
<1>6. Entries(ds, i)  BY <1>2, <1>4, <1>5 DEF Entries
<1>7. QED BY <1>2, <1>4, <1>6 DEF ds

(* What trueUp, release and admit find after the sweep is in balance again. *)
LEMMA SweepBooks ==
  ASSUME NEW s, NEW cs, NEW h, Books(s, cs, h)
  PROVE  Books(Swept(s, cs), Sweep(cs), h)
<1> DEFINE t == Swept(s, cs)
           ds == Sweep(cs)
           g == Tokens(cs, s, {"aged"}, "granted")
           m == Tokens(cs, s, {"aged"}, "share")
<1>1. /\ DOMAIN t = StFields /\ t.leaseId = s.leaseId /\ t.incarnation = s.incarnation
      /\ t.grantedTokens = s.grantedTokens /\ t.spent = s.spent
      /\ t.grantedRemaining = s.grantedRemaining + g /\ t.shareRemaining = s.shareRemaining + m
      /\ t.uncountedCalls = s.uncountedCalls /\ t.uncountedTokens = s.uncountedTokens
      /\ t.pendingReport = s.pendingReport
 <2>1. DOMAIN s = StFields  BY DEF Books
 <2> HIDE DEF g, m
 <2>2. t = [s EXCEPT !.grantedRemaining = s.grantedRemaining + g,
                     !.shareRemaining = s.shareRemaining + m]
   BY DEF Swept, g, m
 <2> HIDE DEF t
 <2>3. QED BY <2>1, <2>2 DEF StFields
<1>2. DOMAIN ds = Call  BY DEF Sweep
<1> HIDE DEF t, ds
<1>3. /\ Holds(ds, s, "granted") + g = Holds(cs, s, "granted") /\ g \in Nat
      /\ Holds(ds, s, "granted") \in Nat
      /\ Spends(ds, s, "granted") = Spends(cs, s, "granted")
  BY SweepSums DEF Books, ds
<1>4. /\ Holds(ds, s, "share") + m = Holds(cs, s, "share") /\ m \in Nat
      /\ Holds(ds, s, "share") \in Nat
      /\ Spends(ds, s, "share") = Spends(cs, s, "share")
  BY SweepSums DEF Books, ds
<1>5. /\ Holds(ds, t, "granted") = Holds(ds, s, "granted")
      /\ Spends(ds, t, "granted") = Spends(ds, s, "granted")
      /\ Holds(ds, t, "share") = Holds(ds, s, "share")
      /\ Spends(ds, t, "share") = Spends(ds, s, "share")
  BY <1>1, SameSums
<1>6. HasLease(t) <=> HasLease(s)  BY <1>1 DEF HasLease
<1> HIDE DEF g, m
<1>7. Numbers(t) /\ Reported(t)
  BY <1>1, <1>3, <1>4, <1>6 DEF Books, Numbers, Reported
<1>8. Balanced(t, ds, h)
 <2>1. SUFFICES ASSUME HasLease(s)
                PROVE  Level(t, h, Holds(ds, t, "granted"), Spends(ds, t, "granted"),
                                   Holds(ds, t, "share"), Spends(ds, t, "share"))
   BY <1>6 DEF Balanced
 <2>2. /\ Level(s, h, Holds(cs, s, "granted"), Spends(cs, s, "granted"),
                      Holds(cs, s, "share"), Spends(cs, s, "share"))
       /\ Numbers(s) /\ Tallies(h)
   BY <2>1 DEF Books, Balanced
 <2>3. /\ Spends(cs, s, "granted") \in Nat /\ Spends(cs, s, "share") \in Nat
   BY SumsType DEF Books
 <2>4. QED BY <1>1, <1>3, <1>4, <1>5, <2>2, <2>3 DEF Level, Numbers, Tallies
<1>9. Entries(ds, t.incarnation) /\ Owing(t, ds, h)
 <2>1. /\ Entries(ds, s.incarnation) /\ Uncounting(ds) = Uncounting(cs)
       /\ Sum(ds, Uncounting(cs)) = Sum(cs, Uncounting(cs))
   BY SweepEntries DEF Books, ds
 <2>2. QED BY <1>1, <2>1 DEF Books, Owing
<1>10. QED BY <1>1, <1>2, <1>7, <1>8, <1>9 DEF Books, t, ds

-----------------------------------------------------------------------------
(* Writing one call's record. *)

(* A call that goes on uncounted is one more the plane has to be told of. *)
LEMMA WriteUncounted ==
  ASSUME NEW cs, NEW i, Entries(cs, i), DOMAIN cs = Call, NEW c \in Call, NEW k,
         k.tokens \in Nat, cs[c].pool # "uncounted"
  PROVE  LET ds == [cs EXCEPT ![c] = k]
             one == k.pool = "uncounted"
         IN  /\ Cardinality(Uncounting(ds)) = Cardinality(Uncounting(cs)) + (IF one THEN 1 ELSE 0)
             /\ Sum(ds, Uncounting(ds)) = Sum(cs, Uncounting(cs)) + (IF one THEN k.tokens ELSE 0)
             /\ Cardinality(Uncounting(cs)) \in Nat /\ Sum(cs, Uncounting(cs)) \in Nat
<1> DEFINE ds == [cs EXCEPT ![c] = k]
           S == Uncounting(cs)
           T == Uncounting(ds)
<1>1. ds[c] = k /\ \A b \in Call \ {c} : ds[b] = cs[b]
  OBVIOUS
<1> HIDE DEF ds
<1>2. /\ c \notin S /\ S \subseteq Held(cs) /\ S \subseteq Call
      /\ T = IF k.pool = "uncounted" THEN S \cup {c} ELSE S
  BY <1>1 DEF Uncounting, Held
<1> HIDE DEF S, T
<1>3. IsFiniteSet(S) /\ IsFiniteSet(Pairs(cs, S \ {c}))
 <2>1. S \ {c} \subseteq Held(cs)  BY <1>2
 <2>2. QED BY <1>2, <2>1, PairsSubset, FS_Subset DEF Entries
<1>4. /\ Cardinality(S) \in Nat
      /\ Cardinality(T) = Cardinality(S) + (IF k.pool = "uncounted" THEN 1 ELSE 0)
 <2>1. Cardinality(S) \in Nat  BY <1>3, FS_CardinalityType
 <2>2. Cardinality(S \cup {c}) = Cardinality(S) + 1  BY <1>2, <1>3, FS_AddElement
 <2>3. QED BY <1>2, <2>1, <2>2
<1>5. /\ Sum(cs, S) \in Nat /\ Sum(ds, T) = Sum(cs, S) - Own(cs, S, c) + Own(ds, T, c)
 <2>1. S \ {c} = T \ {c}  BY <1>2
 <2>2. \A b \in S \ {c} : cs[b].tokens = ds[b].tokens
   BY <1>1, <1>2
 <2>3. cs[c].tokens \in Nat /\ ds[c].tokens \in Nat
   BY <1>1 DEF Entries, Entry
 <2>4. Differ(cs, ds, S, T, c)  BY <1>3, <2>1, <2>2, <2>3 DEF Differ
 <2>5. QED BY <2>4, SumMoves
<1>6. c \in T <=> k.pool = "uncounted"  BY <1>2
<1>7. Sum(ds, T) = Sum(cs, S) + (IF k.pool = "uncounted" THEN k.tokens ELSE 0)
  BY <1>1, <1>2, <1>5, <1>6 DEF Own
<1>8. QED BY <1>4, <1>5, <1>7 DEF S, T, ds

(* A ledger t that accounts for record k in the place of j: what k adds to a  *)
(* sum, less what j took, is missing in the pools, and spent where it is used. *)
Adds(s, t, j, k, phases, pool) == Part(t, k, phases, pool) - Part(s, j, phases, pool)

Fits(s, t, j, k) ==
  /\ DOMAIN t = StFields /\ t.leaseId = s.leaseId /\ t.incarnation = s.incarnation
  /\ t.grantedTokens = s.grantedTokens /\ t.pendingReport = s.pendingReport
  /\ Entry(k, s.incarnation) /\ j.pool # "uncounted"
  /\ t.grantedRemaining \in Int /\ t.shareRemaining \in Int
  /\ t.spent \in Nat /\ t.spent >= s.spent
  /\ t.uncountedCalls = s.uncountedCalls + (IF k.pool = "uncounted" THEN 1 ELSE 0)
  /\ t.uncountedTokens = s.uncountedTokens + (IF k.pool = "uncounted" THEN k.tokens ELSE 0)
  /\ HasLease(s) =>
       /\ t.grantedRemaining = s.grantedRemaining - Adds(s, t, j, k, {"reserved", "aged"}, "granted")
                                                  - Adds(s, t, j, k, {"done"}, "granted")
       /\ t.shareRemaining = s.shareRemaining - Adds(s, t, j, k, {"reserved", "aged"}, "share")
                                              - Adds(s, t, j, k, {"done"}, "share")
       /\ t.spent = s.spent + Adds(s, t, j, k, {"done"}, "granted")
                            + Adds(s, t, j, k, {"done"}, "share")
       /\ Adds(s, t, j, k, {"done"}, "share") >= 0

LEMMA WriteBooks ==
  ASSUME NEW s, NEW t, NEW cs, NEW h, Books(s, cs, h), NEW c \in Call, NEW k,
         Fits(s, t, cs[c], k)
  PROVE  Books(t, [cs EXCEPT ![c] = k], h)
<1> DEFINE ds == [cs EXCEPT ![c] = k]
<1>0. s.incarnation \in Nat /\ Entries(cs, s.incarnation) /\ DOMAIN cs = Call
  BY DEF Books, Numbers
<1>f. Entry(k, s.incarnation) /\ cs[c].pool # "uncounted" /\ k.tokens \in Nat
  BY DEF Fits, Entry
<1>1. Entries(ds, s.incarnation) /\ DOMAIN ds = Call
 <2>1. s.incarnation <= s.incarnation  BY <1>0
 <2>2. QED BY <1>0, <1>f, <2>1, EntriesWrite
<1>2. k.tokens \in Nat  BY <1>f
<1>3. HasLease(t) <=> HasLease(s)  BY DEF HasLease, Fits
<1>4. Rewrites(cs, ds, s, t, c) /\ ds[c] = k
  BY <1>0, <1>2 DEF Rewrites, Entries, Entry, Fits
<1> HIDE DEF ds
<1>5. ASSUME NEW pool \in {"granted", "share"}
      PROVE  /\ Holds(cs, s, pool) \in Nat /\ Holds(ds, t, pool) \in Nat
             /\ Spends(cs, s, pool) \in Nat /\ Spends(ds, t, pool) \in Nat
             /\ Part(s, cs[c], {"reserved", "aged"}, pool) \in Nat
             /\ Part(t, k, {"reserved", "aged"}, pool) \in Nat
             /\ Part(s, cs[c], {"done"}, pool) \in Nat /\ Part(t, k, {"done"}, pool) \in Nat
             /\ Holds(ds, t, pool) = Holds(cs, s, pool)
                  - Part(s, cs[c], {"reserved", "aged"}, pool) + Part(t, k, {"reserved", "aged"}, pool)
             /\ Spends(ds, t, pool) = Spends(cs, s, pool)
                  - Part(s, cs[c], {"done"}, pool) + Part(t, k, {"done"}, pool)
 <2>1. ASSUME NEW phases
       PROVE  /\ Tokens(cs, s, phases, pool) \in Nat /\ Tokens(ds, t, phases, pool) \in Nat
              /\ Part(s, cs[c], phases, pool) \in Nat /\ Part(t, ds[c], phases, pool) \in Nat
              /\ Tokens(ds, t, phases, pool) = Tokens(cs, s, phases, pool)
                   - Part(s, cs[c], phases, pool) + Part(t, ds[c], phases, pool)
  <3>1. pool # "none"  OBVIOUS
  <3>2. QED BY <1>4, <3>1, TokensMove
 <2>2. QED BY <1>4, <2>1 DEF Holds, Spends
<1> USE DEF ds
<1>6. /\ Cardinality(Uncounting(ds)) = Cardinality(Uncounting(cs))
           + (IF k.pool = "uncounted" THEN 1 ELSE 0)
      /\ Sum(ds, Uncounting(ds)) = Sum(cs, Uncounting(cs))
           + (IF k.pool = "uncounted" THEN k.tokens ELSE 0)
      /\ Cardinality(Uncounting(cs)) \in Nat /\ Sum(cs, Uncounting(cs)) \in Nat
  BY <1>0, <1>f, WriteUncounted
<1> HIDE DEF ds
<1>7. Numbers(t)  BY <1>2 DEF Books, Numbers, Fits
<1>8. Reported(t)  BY <1>2, <1>3 DEF Books, Numbers, Reported, Fits
<1>9. Balanced(t, ds, h)
 <2>1. SUFFICES ASSUME HasLease(s)
                PROVE  Level(t, h, Holds(ds, t, "granted"), Spends(ds, t, "granted"),
                                   Holds(ds, t, "share"), Spends(ds, t, "share"))
   BY <1>3 DEF Balanced
 <2>2. /\ Level(s, h, Holds(cs, s, "granted"), Spends(cs, s, "granted"),
                      Holds(cs, s, "share"), Spends(cs, s, "share"))
       /\ Numbers(s) /\ Tallies(h)
   BY <2>1 DEF Books, Balanced
 <2> DEFINE hg == Adds(s, t, cs[c], k, {"reserved", "aged"}, "granted")
            ug == Adds(s, t, cs[c], k, {"done"}, "granted")
            hs == Adds(s, t, cs[c], k, {"reserved", "aged"}, "share")
            us == Adds(s, t, cs[c], k, {"done"}, "share")
 <2>3. /\ Holds(ds, t, "granted") = Holds(cs, s, "granted") + hg
       /\ Spends(ds, t, "granted") = Spends(cs, s, "granted") + ug
       /\ Holds(ds, t, "share") = Holds(cs, s, "share") + hs
       /\ Spends(ds, t, "share") = Spends(cs, s, "share") + us
       /\ hg \in Int /\ ug \in Int /\ hs \in Int /\ us \in Int
   BY <1>5 DEF Adds
 <2>a. /\ t.grantedRemaining = s.grantedRemaining - hg - ug
       /\ t.shareRemaining = s.shareRemaining - hs - us
       /\ t.spent = s.spent + ug + us /\ us >= 0 /\ t.grantedTokens = s.grantedTokens
   BY <2>1 DEF Fits
 <2> HIDE DEF hg, ug, hs, us
 <2>4. /\ Holds(cs, s, "granted") \in Nat /\ Spends(cs, s, "granted") \in Nat
       /\ Holds(cs, s, "share") \in Nat /\ Spends(cs, s, "share") \in Nat
   BY <1>5
 <2>5. QED BY <2>a, <2>2, <2>3, <2>4 DEF Level, Numbers, Tallies
<1>10. Owing(t, ds, h)
 <2>1. /\ s.uncountedCalls + h.calls = Cardinality(Uncounting(cs))
       /\ s.uncountedTokens + h.tokens = Sum(cs, Uncounting(cs))
       /\ s.uncountedCalls \in Nat /\ s.uncountedTokens \in Nat /\ h.calls \in Nat /\ h.tokens \in Nat
   BY DEF Books, Owing, Numbers, Tallies
 <2> DEFINE x == IF k.pool = "uncounted" THEN k.tokens ELSE 0
            one == IF k.pool = "uncounted" THEN 1 ELSE 0
 <2>2. /\ x \in Nat /\ t.uncountedTokens = s.uncountedTokens + x
       /\ Sum(ds, Uncounting(ds)) = Sum(cs, Uncounting(cs)) + x
       /\ one \in Nat /\ t.uncountedCalls = s.uncountedCalls + one
       /\ Cardinality(Uncounting(ds)) = Cardinality(Uncounting(cs)) + one
   BY <1>2, <1>6 DEF Fits
 <2> HIDE DEF x, one
 <2>3. t.uncountedCalls + h.calls = Cardinality(Uncounting(ds))  BY <1>6, <2>1, <2>2
 <2>4. t.uncountedTokens + h.tokens = Sum(ds, Uncounting(ds))  BY <1>6, <2>1, <2>2
 <2>5. QED BY <2>3, <2>4 DEF Owing
<1>11. Books(t, ds, h)  BY <1>1, <1>7, <1>8, <1>9, <1>10 DEF Books, Fits
<1>12. QED BY <1>11 DEF ds

-----------------------------------------------------------------------------
(* The records the handlers write. *)

LEMMA NoPart ==
  ASSUME NEW s, NEW k, NEW phases, NEW pool, k.pool # pool \/ k.phase \notin phases
  PROVE  Part(s, k, phases, pool) = 0
BY DEF Part

(* A record that holds nothing of any pool, in the place of another such. *)
LEMMA BlankBooks ==
  ASSUME NEW s, NEW cs, NEW h, Books(s, cs, h), NEW c \in Call, NEW k,
         Entry(k, s.incarnation), k.pool = "none", cs[c].pool = "none"
  PROVE  Books(s, [cs EXCEPT ![c] = k], h)
<1>1. \A phases : \A pool \in {"granted", "share"} : Adds(s, s, cs[c], k, phases, pool) = 0
  BY NoPart DEF Adds
<1>2. Fits(s, s, cs[c], k)  BY <1>1 DEF Fits, Books, Numbers
<1>3. QED BY <1>2, WriteBooks

(* A reservation of its tokens drawn from a pool. *)
LEMMA HoldBooks ==
  ASSUME NEW s, NEW t, NEW cs, NEW h, Books(s, cs, h), NEW c \in Call, NEW k,
         NEW pool \in {"granted", "share"}, Draws(s, t, pool, k.tokens),
         Entry(k, s.incarnation), k.pool = pool, k.phase = "reserved",
         Belongs(t, k), cs[c].pool = "none"
  PROVE  Books(t, [cs EXCEPT ![c] = k], h)
<1>0. k.tokens \in Nat /\ Numbers(s)
  BY DEF Entry, Books
<1>1. \A phases : \A p \in {"granted", "share"} : Part(s, cs[c], phases, p) = 0
  BY NoPart
<1>2. \A p \in {"granted", "share"} : Part(t, k, {"done"}, p) = 0
  BY NoPart
<1>3. \A p \in {"granted", "share"} :
        Part(t, k, {"reserved", "aged"}, p) = IF p = pool THEN k.tokens ELSE 0
  BY DEF Part
<1>4. /\ Adds(s, t, cs[c], k, {"done"}, "granted") = 0 /\ Adds(s, t, cs[c], k, {"done"}, "share") = 0
      /\ Adds(s, t, cs[c], k, {"reserved", "aged"}, "granted") = IF pool = "granted" THEN k.tokens ELSE 0
      /\ Adds(s, t, cs[c], k, {"reserved", "aged"}, "share") = IF pool = "share" THEN k.tokens ELSE 0
  BY <1>0, <1>1, <1>2, <1>3 DEF Adds
<1>5. Fits(s, t, cs[c], k)  BY <1>0, <1>4 DEF Fits, Draws, Numbers
<1>6. QED BY <1>5, WriteBooks

(* A call that goes on uncounted. *)
LEMMA OweBooks ==
  ASSUME NEW s, NEW t, NEW cs, NEW h, Books(s, cs, h), NEW c \in Call, NEW k,
         Owes(s, t, k.tokens), Entry(k, s.incarnation), k.pool = "uncounted",
         cs[c].pool = "none"
  PROVE  Books(t, [cs EXCEPT ![c] = k], h)
<1>0. k.tokens \in Nat /\ Numbers(s)
  BY DEF Entry, Books
<1>1. \A phases : \A pool \in {"granted", "share"} : Adds(s, t, cs[c], k, phases, pool) = 0
  BY NoPart DEF Adds
<1>2. Fits(s, t, cs[c], k)  BY <1>0, <1>1 DEF Fits, Owes, Numbers
<1>3. QED BY <1>2, WriteBooks

(* A reservation grows old: it holds what it held. *)
LEMMA AgeBooks ==
  ASSUME NEW s, NEW cs, NEW h, Books(s, cs, h), NEW c \in Call, cs[c].phase = "reserved"
  PROVE  Books(s, [cs EXCEPT ![c] = [cs[c] EXCEPT !.phase = "aged"]], h)
<1> DEFINE k == [cs[c] EXCEPT !.phase = "aged"]
<1>1. Entry(cs[c], s.incarnation)  BY DEF Books, Entries
<1>2. /\ DOMAIN k = CFields /\ k.phase = "aged" /\ k.tokens = cs[c].tokens /\ k.pool = cs[c].pool
      /\ k.lease = cs[c].lease /\ k.incarnation = cs[c].incarnation
  BY <1>1 DEF Entry, CFields
<1> HIDE DEF k
<1>3. Entry(k, s.incarnation) /\ cs[c].pool \in {"granted", "share"}
  BY <1>1, <1>2 DEF Entry
<1>4. ASSUME NEW pool
      PROVE  /\ Adds(s, s, cs[c], k, {"reserved", "aged"}, pool) = 0
             /\ Adds(s, s, cs[c], k, {"done"}, pool) = 0
 <2>1. /\ Part(s, k, {"reserved", "aged"}, pool) = Part(s, cs[c], {"reserved", "aged"}, pool)
       /\ Part(s, cs[c], {"reserved", "aged"}, pool) \in Nat
   BY <1>1, <1>2 DEF Part, Belongs, Entry
 <2>2. Part(s, k, {"done"}, pool) = 0 /\ Part(s, cs[c], {"done"}, pool) = 0
   BY <1>2, NoPart
 <2>3. QED BY <2>1, <2>2 DEF Adds
<1>5. Fits(s, s, cs[c], k)  BY <1>2, <1>3, <1>4 DEF Fits, Books, Numbers
<1>6. Books(s, [cs EXCEPT ![c] = k], h)  BY <1>5, WriteBooks
<1>7. QED BY <1>6 DEF k

(* What trueUp makes of the ledger: the reservation comes back, unless a sweep *)
(* gave it back already, and what the call used is charged and reported.       *)
LeaseSettles(s, t, k, used) ==
  LET back == IF k.phase = "swept" THEN 0 ELSE k.tokens
      g    == IF k.pool = "granted" THEN back - used ELSE 0
      m    == IF k.pool = "granted" THEN 0 ELSE back - used
  IN  /\ DOMAIN t = StFields /\ t.leaseId = s.leaseId /\ t.incarnation = s.incarnation
      /\ t.grantedTokens = s.grantedTokens /\ t.spent = s.spent + used
      /\ t.grantedRemaining = s.grantedRemaining + g /\ t.shareRemaining = s.shareRemaining + m
      /\ t.uncountedCalls = s.uncountedCalls /\ t.uncountedTokens = s.uncountedTokens
      /\ t.pendingReport = s.pendingReport

LEMMA TrueUpBooks ==
  ASSUME NEW s, NEW t, NEW cs, NEW h, Books(s, cs, h), NEW c \in Call, NEW used \in Nat,
         cs[c].phase \in {"reserved", "aged", "swept"}, Belongs(s, cs[c]),
         LeaseSettles(s, t, cs[c], used)
  PROVE  Books(t, [cs EXCEPT ![c] = [cs[c] EXCEPT !.phase = "done", !.tokens = used]], h)
<1> DEFINE j == cs[c]
           k == [j EXCEPT !.phase = "done", !.tokens = used]
<1>1. Entry(j, s.incarnation) /\ Numbers(s)
  BY DEF Books, Entries
<1>2. /\ DOMAIN k = CFields /\ k.phase = "done" /\ k.tokens = used /\ k.pool = j.pool
      /\ k.lease = j.lease /\ k.incarnation = j.incarnation
  BY <1>1 DEF Entry, CFields
<1> HIDE DEF k
<1>3. /\ Entry(k, s.incarnation) /\ j.pool \in {"granted", "share"} /\ j.tokens \in Nat
      /\ Belongs(t, k) /\ Belongs(s, j)
  BY <1>1, <1>2 DEF Entry, Belongs, LeaseSettles
<1> HIDE DEF j
<1>4. /\ Adds(s, t, j, k, {"reserved", "aged"}, j.pool) = IF j.phase = "swept" THEN 0 ELSE 0 - j.tokens
      /\ Adds(s, t, j, k, {"done"}, j.pool) = used
  BY <1>2, <1>3 DEF Adds, Part, j
<1>5. ASSUME NEW pool, pool # j.pool
      PROVE  Adds(s, t, j, k, {"reserved", "aged"}, pool) = 0 /\ Adds(s, t, j, k, {"done"}, pool) = 0
  BY <1>2, <1>5, NoPart DEF Adds
<1>6. Fits(s, t, j, k)
 <2>1. CASE j.pool = "granted"
  <3>1. /\ Adds(s, t, j, k, {"reserved", "aged"}, "share") = 0
        /\ Adds(s, t, j, k, {"done"}, "share") = 0
    BY <1>5, <2>1
  <3>2. /\ Adds(s, t, j, k, {"reserved", "aged"}, "granted")
             = IF j.phase = "swept" THEN 0 ELSE 0 - j.tokens
        /\ Adds(s, t, j, k, {"done"}, "granted") = used
    BY <1>4, <2>1
  <3>3. QED BY <1>1, <1>2, <1>3, <2>1, <3>1, <3>2 DEF Fits, LeaseSettles, Numbers, j
 <2>2. CASE j.pool = "share"
  <3>1. /\ Adds(s, t, j, k, {"reserved", "aged"}, "granted") = 0
        /\ Adds(s, t, j, k, {"done"}, "granted") = 0
    BY <1>5, <2>2
  <3>2. /\ Adds(s, t, j, k, {"reserved", "aged"}, "share")
             = IF j.phase = "swept" THEN 0 ELSE 0 - j.tokens
        /\ Adds(s, t, j, k, {"done"}, "share") = used
    BY <1>4, <2>2
  <3>3. QED BY <1>1, <1>2, <1>3, <2>2, <3>1, <3>2 DEF Fits, LeaseSettles, Numbers, j
 <2>3. QED BY <1>3, <2>1, <2>2
<1>7. Books(t, [cs EXCEPT ![c] = k], h)  BY <1>6, WriteBooks DEF j
<1>8. QED BY <1>7 DEF k, j

(* What a release gives back, which a sweep may have done before it. *)
Returns(s, t, k) ==
  LET back == IF k.phase = "swept" THEN 0 ELSE k.tokens
  IN  Draws(s, t, k.pool, 0 - back)

LEMMA OverEntry ==
  ASSUME NEW i \in Nat
  PROVE  Entry(Over, i) /\ Over.pool = "none" /\ Over.phase = "done"
BY DEF Over, NewCall, Entry, CFields

LEMMA ReleaseBooks ==
  ASSUME NEW s, NEW t, NEW cs, NEW h, Books(s, cs, h), NEW c \in Call,
         cs[c].phase \in {"reserved", "aged", "swept"}, Belongs(s, cs[c]),
         Returns(s, t, cs[c])
  PROVE  Books(t, [cs EXCEPT ![c] = Over], h)
<1> DEFINE j == cs[c]
           back == IF j.phase = "swept" THEN 0 ELSE j.tokens
<1>1. Entry(j, s.incarnation) /\ Numbers(s)
  BY DEF Books, Entries
<1>2. /\ j.pool \in {"granted", "share"} /\ j.tokens \in Nat /\ Belongs(s, j)
      /\ Draws(s, t, j.pool, 0 - back) /\ back \in Nat
      /\ j.phase \in {"reserved", "aged", "swept"}
  BY <1>1 DEF Entry, Returns
<1>3. Entry(Over, s.incarnation) /\ Over.pool = "none" /\ Over.phase = "done"
  BY <1>1, OverEntry DEF Numbers
<1>4. /\ Adds(s, t, j, Over, {"reserved", "aged"}, j.pool) = 0 - back
      /\ Adds(s, t, j, Over, {"done"}, j.pool) = 0
 <2> HIDE DEF j
 <2>1. Part(t, Over, {"reserved", "aged"}, j.pool) = 0 /\ Part(t, Over, {"done"}, j.pool) = 0
   BY <1>2, <1>3, NoPart
 <2>2. Part(s, j, {"reserved", "aged"}, j.pool) = back /\ Part(s, j, {"done"}, j.pool) = 0
   BY <1>2 DEF Part
 <2>3. QED BY <1>2, <2>1, <2>2 DEF Adds
<1> HIDE DEF j, back
<1>5. ASSUME NEW pool \in {"granted", "share"}, pool # j.pool
      PROVE  /\ Adds(s, t, j, Over, {"reserved", "aged"}, pool) = 0
             /\ Adds(s, t, j, Over, {"done"}, pool) = 0
  BY <1>3, <1>5, NoPart DEF Adds
<1>6. Fits(s, t, j, Over)
 <2>1. CASE j.pool = "granted"
  <3>1. /\ Adds(s, t, j, Over, {"reserved", "aged"}, "share") = 0
        /\ Adds(s, t, j, Over, {"done"}, "share") = 0
    BY <1>5, <2>1
  <3>2. QED BY <1>1, <1>2, <1>3, <1>4, <2>1, <3>1 DEF Fits, Draws, Numbers
 <2>2. CASE j.pool = "share"
  <3>1. /\ Adds(s, t, j, Over, {"reserved", "aged"}, "granted") = 0
        /\ Adds(s, t, j, Over, {"done"}, "granted") = 0
    BY <1>5, <2>2
  <3>2. QED BY <1>1, <1>2, <1>3, <1>4, <2>2, <3>1 DEF Fits, Draws, Numbers
 <2>3. QED BY <1>2, <2>1, <2>2
<1>7. QED BY <1>6, WriteBooks DEF j

(* A call of an earlier lease is charged to nobody and credited to nobody. *)
LEMMA StrangerBooks ==
  ASSUME NEW s, NEW cs, NEW h, Books(s, cs, h), NEW c \in Call, ~Belongs(s, cs[c]),
         cs[c].pool # "uncounted"
  PROVE  Books(s, [cs EXCEPT ![c] = Over], h)
<1>1. Entry(Over, s.incarnation) /\ Over.pool = "none" /\ Numbers(s)
  BY OverEntry DEF Books, Numbers
<1>2. \A phases : \A pool \in {"granted", "share"} : Adds(s, s, cs[c], Over, phases, pool) = 0
 <2>1. \A phases, pool : Part(s, cs[c], phases, pool) = 0
   BY DEF Part
 <2>2. \A phases : \A pool \in {"granted", "share"} : Part(s, Over, phases, pool) = 0
   BY <1>1, NoPart
 <2>3. QED BY <2>1, <2>2 DEF Adds
<1>3. Fits(s, s, cs[c], Over)  BY <1>1, <1>2 DEF Fits, Numbers, Books
<1>4. QED BY <1>3, WriteBooks

-----------------------------------------------------------------------------
(* What the methods do to the money of a ledger. *)

LEMMA CreditMoney ==
  ASSUME NEW s, DOMAIN s = StFields, NEW pool \in {"granted", "share"}, NEW n \in Int,
         s.grantedRemaining \in Int, s.shareRemaining \in Int
  PROVE  Draws(s, Credit(s, pool, 0 - n), pool, n)
         /\ Credit(s, pool, 0 - n).postureMode = s.postureMode
<1> DEFINE t == Credit(s, pool, 0 - n)
<1>1. CASE pool = "granted"
 <2>1. t = [s EXCEPT !.grantedRemaining = s.grantedRemaining + (0 - n)]  BY <1>1 DEF Credit
 <2> HIDE DEF t
 <2>2. Draws(s, t, pool, n) /\ t.postureMode = s.postureMode
   BY <1>1, <2>1 DEF Draws, StFields
 <2>3. QED BY <2>2 DEF t
<1>2. CASE pool = "share"
 <2>1. t = [s EXCEPT !.shareRemaining = s.shareRemaining + (0 - n)]  BY <1>2 DEF Credit
 <2> HIDE DEF t
 <2>2. Draws(s, t, pool, n) /\ t.postureMode = s.postureMode
   BY <1>2, <2>1 DEF Draws, StFields
 <2>3. QED BY <2>2 DEF t
<1>3. QED BY <1>1, <1>2

LEMMA UncountedMoney ==
  ASSUME NEW s, DOMAIN s = StFields, NEW n
  PROVE  Owes(s, Uncounted(s, n), n)
BY DEF Uncounted, Owes, StFields

LEMMA DropMoney ==
  ASSUME NEW s, DOMAIN s = StFields
  PROVE  Ends(s, DropLease(s))
BY DEF DropLease, Ends, StFields

LEMMA LatchMoney ==
  ASSUME NEW s, NEW t, NEW until, NEW token, NEW u,
         u \in {[t EXCEPT !.latch = until], [t EXCEPT !.releasePending = token, !.latch = until],
                [t EXCEPT !.latch = until, !.releasePending = token]}
  PROVE  /\ DOMAIN t = StFields => SameMoney(t, u)
         /\ Ends(s, t) => Ends(s, u)
<1>1. ASSUME DOMAIN t = StFields
      PROVE  SameMoney(t, u)
 <2>1. CASE u = [t EXCEPT !.latch = until]
   BY <1>1, <2>1 DEF SameMoney, StFields
 <2>2. CASE u = [t EXCEPT !.releasePending = token, !.latch = until]
   BY <1>1, <2>2 DEF SameMoney, StFields
 <2>3. CASE u = [t EXCEPT !.latch = until, !.releasePending = token]
   BY <1>1, <2>3 DEF SameMoney, StFields
 <2>4. QED BY <2>1, <2>2, <2>3
<1>2. ASSUME Ends(s, t)
      PROVE  Ends(s, u)
 <2>1. DOMAIN t = StFields  BY <1>2 DEF Ends
 <2>2. SameMoney(t, u)  BY <1>1, <2>1
 <2>3. QED BY <1>2, <2>2 DEF Ends, SameMoney
<1>3. QED BY <1>1, <1>2

-----------------------------------------------------------------------------
(* What an admission of n tokens decides, and what it leaves of the ledger s. *)

(* A reservation just drawn from pool is covered by what was granted. *)
Bounded(t, pool) ==
  /\ HasLease(t)
  /\ pool = "granted" => t.grantedRemaining >= 0
  /\ pool = "share" /\ t.postureMode = "hard_deny" => t.shareRemaining >= 0

Admission(s, v, n) ==
  \/ /\ v.decision \in {"local", "metered"} /\ v.pool \in {"granted", "share"}
     /\ Draws(s, v.st, v.pool, n) /\ Bounded(v.st, v.pool)
  \/ v.decision = "uncounted" /\ Owes(s, v.st, n)
  \/ v.decision \in {"deny", "legacy", "needGrant"} /\ (SameMoney(s, v.st) \/ Ends(s, v.st))

LEMMA SameAdmission ==
  ASSUME NEW s, NEW t, SameMoney(s, t), NEW n, NEW pool, NEW due, NEW outside,
         NEW decision \in {"deny", "legacy", "needGrant"}
  PROVE  Admission(s, Verdict(decision, t, pool, due, outside), n)
BY DEF Admission, Verdict

LEMMA EndAdmission ==
  ASSUME NEW s, NEW t, SameMoney(s, t), NEW n, NEW u, Ends(t, u)
  PROVE  Admission(s, NeedGrant(u), n)
<1>1. Ends(s, u)  BY DEF Ends, SameMoney
<1>2. QED BY <1>1 DEF Admission, NeedGrant, Verdict

LEMMA DrawAdmission ==
  ASSUME NEW s, NEW t, SameMoney(s, t), HasLease(t), NEW n \in Nat, Numbers(s),
         NEW pool \in {"granted", "share"}, NEW decision \in {"local", "metered"},
         NEW due, NEW outside,
         pool = "granted" => t.grantedRemaining >= n,
         pool = "share" => t.shareRemaining >= n \/ t.postureMode # "hard_deny"
  PROVE  Admission(s, Verdict(decision, Credit(t, pool, 0 - n), pool, due, outside), n)
<1> DEFINE u == Credit(t, pool, 0 - n)
<1>1. Draws(t, u, pool, n) /\ u.postureMode = t.postureMode
  BY CreditMoney DEF SameMoney, Numbers
<1> HIDE DEF u
<1>2. Draws(s, u, pool, n)  BY <1>1 DEF Draws, SameMoney
<1>3. Bounded(u, pool)  BY <1>1 DEF Bounded, Draws, HasLease, SameMoney, Numbers
<1> DEFINE v == Verdict(decision, u, pool, due, outside)
<1>4. v.decision = decision /\ v.st = u /\ v.pool = pool
  BY DEF Verdict
<1> HIDE DEF v
<1>5. Admission(s, v, n)  BY <1>2, <1>3, <1>4 DEF Admission
<1>6. QED BY <1>5 DEF u, v

LEMMA ShareAdmission ==
  ASSUME NEW s, NEW t, SameMoney(s, t), HasLease(t), NEW n \in Nat, Numbers(s)
  PROVE  Admission(s, DrawShare(t, n), n)
<1>1. CASE t.shareRemaining >= n \/ t.postureMode # "hard_deny"
 <2>1. Admission(s, Verdict("metered", Credit(t, "share", 0 - n), "share", FALSE, FALSE), n)
   BY <1>1, DrawAdmission
 <2>2. QED BY <1>1, <2>1 DEF DrawShare
<1>2. CASE ~(t.shareRemaining >= n \/ t.postureMode # "hard_deny")
 <2>1. Admission(s, Verdict("deny", t, "none", FALSE, FALSE), n)  BY SameAdmission
 <2>2. QED BY <1>2, <2>1 DEF DrawShare
<1>3. QED BY <1>1, <1>2

LEMMA LiveAdmission ==
  ASSUME NEW s, NEW t, SameMoney(s, t), HasLease(t), NEW n \in Nat, Numbers(s), NEW open
  PROVE  Admission(s, AdmitLive(t, n, open), n)
<1>1. CASE t.grantedRemaining >= n
 <2> DEFINE u == Credit(t, "granted", 0 - n)
 <2>1. Admission(s, Verdict("local", u, "granted", RenewalDue(u), FALSE), n)  BY <1>1, DrawAdmission
 <2>2. QED BY <1>1, <2>1 DEF AdmitLive
<1>2. CASE ~(t.grantedRemaining >= n) /\ open
  BY <1>2, ShareAdmission DEF AdmitLive
<1>3. CASE ~(t.grantedRemaining >= n) /\ ~open
  BY <1>3, SameAdmission DEF AdmitLive, Legacy
<1>4. QED BY <1>1, <1>2, <1>3

LEMMA UnlatchedAdmission ==
  ASSUME NEW s, NEW t, SameMoney(s, t), NEW models, NEW n \in Nat, Numbers(s), NEW open \in BOOLEAN
  PROVE  Admission(s, AdmitUnlatched(t, models, n, open), n)
<1>0. DOMAIN t = StFields  BY DEF SameMoney
<1>1. CASE Refuses(t, models)
 <2>1. Admission(s, Legacy(t, FALSE), n)  BY SameAdmission DEF Legacy
 <2>2. QED BY <1>1, <2>1 DEF AdmitUnlatched
<1>2. CASE ~Refuses(t, models) /\ ~HasLease(t)
 <2>1. Admission(s, NeedGrant(t), n)  BY SameAdmission DEF NeedGrant
 <2>2. QED BY <1>2, <2>1 DEF AdmitUnlatched
<1>3. CASE ~Refuses(t, models) /\ HasLease(t)
 <2>1. Admission(s, NeedGrant(DropLease(t)), n)  BY <1>0, DropMoney, EndAdmission
 <2>2. Admission(s, AdmitOutside(t, open), n)
  <3>1. Admission(s, Verdict("legacy", t, "none", FALSE, TRUE), n)  BY SameAdmission
  <3>2. QED BY <2>1, <3>1 DEF AdmitOutside
 <2>3. Admission(s, AdmitExpired(t, n, open), n)
  <3>1. Owes(t, Uncounted(t, n), n)  BY <1>0, UncountedMoney
  <3>2. Owes(s, Uncounted(t, n), n)  BY <3>1 DEF Owes, SameMoney
  <3>3. Admission(s, Verdict("uncounted", Uncounted(t, n), "uncounted", FALSE, FALSE), n)
    BY <3>2 DEF Admission, Verdict
  <3>4. Admission(s, DrawShare(t, n), n)  BY <1>3, ShareAdmission
  <3>5. QED BY <2>1, <3>3, <3>4 DEF AdmitExpired
 <2>4. Admission(s, AdmitLive(t, n, open), n)  BY <1>3, LiveAdmission
 <2>5. QED BY <1>3, <2>2, <2>3, <2>4 DEF AdmitUnlatched
<1>4. QED BY <1>1, <1>2, <1>3

LEMMA Admitted ==
  ASSUME NEW s, DOMAIN s = StFields, Numbers(s), NEW models, NEW n \in Nat, NEW open \in BOOLEAN
  PROVE  Admission(s, AdmitOn(s, models, n, open), n)
<1>0. SameMoney(s, s)  BY DEF SameMoney
<1>1. CASE s.latch \in {"waiting", "forever"}
 <2>1. Admission(s, Legacy(s, FALSE), n)  BY <1>0, SameAdmission DEF Legacy
 <2>2. QED BY <1>1, <2>1 DEF AdmitOn
<1>2. CASE s.latch = "over"
 <2> DEFINE u == [s EXCEPT !.latch = "none", !.releasePending = NoRelease]
 <2>1. SameMoney(s, u)  BY DEF SameMoney, StFields
 <2> HIDE DEF u
 <2>2. Admission(s, AdmitUnlatched(u, models, n, open), n)  BY <2>1, UnlatchedAdmission
 <2>3. QED BY <1>2, <2>2 DEF AdmitOn, u
<1>3. CASE s.latch \notin {"waiting", "forever"} /\ s.latch # "over"
  BY <1>0, <1>3, UnlatchedAdmission DEF AdmitOn
<1>4. QED BY <1>1, <1>2, <1>3

-----------------------------------------------------------------------------
(* The handlers of a call, one method after the other. *)

(* While a lease lasts a handler spends nothing of it, and a claim it makes *)
(* reports what is spent.                                                   *)
Lineage(s, t) ==
  HasLease(t) =>
    /\ t.leaseId = s.leaseId /\ t.generation = s.generation
    /\ t.incarnation = s.incarnation /\ t.spent = s.spent
    /\ \/ t.renewalInFlight = s.renewalInFlight
       \/ \E p : t.pendingReport = {p} /\ p.spent = t.spent

(* cs is call, but for reservations a sweep gave back. *)
Follows(cs) ==
  /\ DOMAIN cs = Call
  /\ \A b \in Call : \/ cs[b] = call[b]
                     \/ call[b].phase = "aged" /\ cs[b].phase = "swept"

(* A handler that set out from s has reached ledger t and calls cs. *)
Ready(s, t, cs, h) == Books(t, cs, h) /\ Lineage(s, t) /\ Follows(cs)

(* A call that has drawn on the lease for good. *)
Drawn(k) == k.phase = "done" /\ k.pool \in {"granted", "share"}

(* Where a handler that set out from s ends: the books agree, what calls used *)
(* stands as it did, and what it reserved is covered.                         *)
Posts(s, h) ==
  /\ Books(st', call', h) /\ Lineage(s, st') /\ renewals' = Launched(st')
  /\ \A b \in Call : Drawn(call'[b]) \/ Drawn(call[b]) => call'[b] = call[b]
  /\ \A b \in Call : call'[b].phase = "reserved" /\ call[b].phase # "reserved" =>
                       Bounded(st', call'[b].pool)

(* The record of a call that is still being decided. *)
Open(k) ==
  /\ DOMAIN k = CFields /\ k.tokens \in Nat
  /\ k.pool = "none" /\ k.incarnation = 0 /\ k.phase \in {"new", "granting", "asking"}

Free(c) == c \in Call /\ call[c].phase \in {"new", "granting", "asking"}

LEMMA FreeBlank ==
  ASSUME NEW s, NEW t, NEW cs, NEW h, Ready(s, t, cs, h), NEW c, Free(c)
  PROVE  cs[c] = call[c] /\ cs[c].pool = "none" /\ c \in Call
<1>1. cs[c] = call[c] /\ c \in Call
  BY DEF Ready, Follows, Free
<1>2. QED BY <1>1 DEF Ready, Books, Entries, Entry, Free

LEMMA ReadySame ==
  ASSUME NEW s, NEW t, NEW cs, NEW h, Ready(s, t, cs, h), NEW u, SameMoney(t, u)
  PROVE  Ready(s, u, cs, h)
<1>1. Books(u, cs, h)  BY SameBooks DEF Ready
<1>2. Lineage(s, u)  BY DEF Ready, Lineage, SameMoney, HasLease
<1>3. QED BY <1>1, <1>2 DEF Ready

LEMMA ReadyEnd ==
  ASSUME NEW s, NEW t, NEW cs, NEW h, Ready(s, t, cs, h), NEW u, Ends(t, u)
  PROVE  Ready(s, u, cs, h)
<1>1. Books(u, cs, h) /\ ~HasLease(u)
  BY EndBooks DEF Ready
<1>2. QED BY <1>1 DEF Ready, Lineage

LEMMA LineageClaim ==
  ASSUME NEW s, NEW t, DOMAIN t = StFields, Lineage(s, t), NEW models
  PROVE  Lineage(s, ClaimRenewal(t, models))
<1> DEFINE u == ClaimRenewal(t, models)
<1>1. Reporting(t, u)  BY ClaimMoney
<1> HIDE DEF u
<1>2. Lineage(s, u)
 <2>1. CASE u.pendingReport = t.pendingReport /\ u.renewalInFlight = t.renewalInFlight
   BY <1>1, <2>1 DEF Lineage, HasLease, Reporting
 <2>2. ASSUME NEW p, u.pendingReport = {p}, p.spent = t.spent
       PROVE  Lineage(s, u)
   BY <1>1, <2>2 DEF Lineage, HasLease, Reporting
 <2>3. QED BY <1>1, <2>1, <2>2 DEF Reporting
<1>3. QED BY <1>2 DEF u

LEMMA ReadyClaim ==
  ASSUME NEW s, NEW t, NEW cs, NEW h, Ready(s, t, cs, h), NEW models
  PROVE  Ready(s, ClaimRenewal(t, models), cs, h)
<1>1. Books(ClaimRenewal(t, models), cs, h)  BY ClaimBooks DEF Ready
<1>2. Lineage(s, ClaimRenewal(t, models))  BY LineageClaim DEF Ready, Books
<1>3. QED BY <1>1, <1>2 DEF Ready

LEMMA ReadySchedule ==
  ASSUME NEW s, NEW t, NEW cs, NEW h, Ready(s, t, cs, h), NEW due, NEW models
  PROVE  Ready(s, Schedule(t, due, models), cs, h)
BY ReadyClaim DEF Schedule

LEMMA ReadySweep ==
  ASSUME NEW s, NEW t, NEW cs, NEW h, Ready(s, t, cs, h)
  PROVE  Ready(s, Swept(t, cs), Sweep(cs), h)
<1>1. Books(Swept(t, cs), Sweep(cs), h)  BY SweepBooks DEF Ready
<1>2. Lineage(s, Swept(t, cs))
 <2> DEFINE u == Swept(t, cs)
            g == Tokens(cs, t, {"aged"}, "granted")
            m == Tokens(cs, t, {"aged"}, "share")
 <2>1. DOMAIN t = StFields  BY DEF Ready, Books
 <2> HIDE DEF g, m
 <2>2. u = [t EXCEPT !.grantedRemaining = t.grantedRemaining + g,
                     !.shareRemaining = t.shareRemaining + m]
   BY DEF Swept, g, m
 <2> HIDE DEF u
 <2>3. /\ u.leaseId = t.leaseId /\ u.generation = t.generation
       /\ u.incarnation = t.incarnation /\ u.spent = t.spent
       /\ u.renewalInFlight = t.renewalInFlight /\ u.pendingReport = t.pendingReport
   BY <2>1, <2>2 DEF StFields
 <2>4. Lineage(s, u)  BY <2>3 DEF Ready, Lineage, HasLease
 <2>5. QED BY <2>4 DEF u
<1>3. Follows(Sweep(cs))
 <2>1. DOMAIN Sweep(cs) = Call  BY DEF Sweep
 <2>2. ASSUME NEW b \in Call
       PROVE  \/ Sweep(cs)[b] = call[b]
              \/ call[b].phase = "aged" /\ Sweep(cs)[b].phase = "swept"
  <3>1. /\ Sweep(cs)[b].phase = IF cs[b].phase = "aged" THEN "swept" ELSE cs[b].phase
        /\ cs[b].phase # "aged" => Sweep(cs)[b] = cs[b]
    BY SweepRecord DEF Ready, Books
  <3>2. QED BY <3>1 DEF Ready, Follows
 <2>3. QED BY <2>1, <2>2 DEF Follows
<1>4. QED BY <1>1, <1>2, <1>3 DEF Ready

LEMMA ReadyVerdict ==
  ASSUME NEW s, NEW t, NEW cs, NEW h, Ready(s, t, cs, h), NEW v, NEW n, Admission(t, v, n),
         v.decision \in {"deny", "legacy", "needGrant"}
  PROVE  Ready(s, v.st, cs, h)
<1>1. SameMoney(t, v.st) \/ Ends(t, v.st)
  BY DEF Admission
<1>2. QED BY <1>1, ReadySame, ReadyEnd

-----------------------------------------------------------------------------
(* Each way a handler may end posts what it did. *)

LEMMA WritePosts ==
  ASSUME NEW s, NEW t, NEW cs, NEW h, Ready(s, t, cs, h), NEW c, Free(c),
         NEW k, NEW u, Books(u, [cs EXCEPT ![c] = k], h), Lineage(s, u), ~Drawn(k),
         k.phase = "reserved" => Bounded(u, k.pool), Write(c, k, u, cs)
  PROVE  Posts(s, h)
<1>1. st' = u /\ call' = [cs EXCEPT ![c] = k] /\ renewals' = Launched(u)
  BY DEF Write
<1>2. c \in Call /\ DOMAIN cs = Call /\ call[c].phase \in {"new", "granting", "asking"}
  BY DEF Free, Ready, Books
<1>3. call'[c] = k /\ \A b \in Call \ {c} : call'[b] = cs[b]
  BY <1>1, <1>2
<1>4. \A b \in Call \ {c} : \/ call'[b] = call[b]
                            \/ call[b].phase = "aged" /\ call'[b].phase = "swept"
  BY <1>3 DEF Ready, Follows
<1>5. \A b \in Call : Drawn(call'[b]) \/ Drawn(call[b]) => call'[b] = call[b]
  BY <1>2, <1>3, <1>4 DEF Drawn
<1>6. \A b \in Call : call'[b].phase = "reserved" /\ call[b].phase # "reserved" =>
                        Bounded(st', call'[b].pool)
  BY <1>1, <1>3, <1>4
<1>7. QED BY <1>1, <1>5, <1>6 DEF Posts

LEMMA OverPosts ==
  ASSUME NEW s, NEW t, NEW cs, NEW h, Ready(s, t, cs, h), NEW c, Free(c), Write(c, Over, t, cs)
  PROVE  Posts(s, h)
<1>1. Entry(Over, t.incarnation) /\ Over.pool = "none" /\ Over.phase = "done"
  BY OverEntry DEF Ready, Books, Numbers
<1>2. Books(t, [cs EXCEPT ![c] = Over], h)  BY <1>1, FreeBlank, BlankBooks DEF Ready
<1>3. ~Drawn(Over)  BY <1>1 DEF Drawn
<1>4. QED BY <1>1, <1>2, <1>3, WritePosts DEF Ready

(* A call that goes on waiting. *)
LEMMA OpenPosts ==
  ASSUME NEW s, NEW t, NEW cs, NEW h, Ready(s, t, cs, h), NEW c, Free(c), NEW k, Open(k),
         Write(c, k, t, cs)
  PROVE  Posts(s, h)
<1>1. Entry(k, t.incarnation) /\ k.pool = "none"
  BY DEF Open, Entry, Ready, Books, Numbers
<1>2. Books(t, [cs EXCEPT ![c] = k], h)  BY <1>1, FreeBlank, BlankBooks DEF Ready
<1>3. ~Drawn(k) /\ k.phase # "reserved"
  BY DEF Open, Drawn
<1>4. QED BY <1>2, <1>3, WritePosts DEF Ready

LEMMA UncoveredPosts ==
  ASSUME NEW s, NEW t, NEW cs, NEW h, Ready(s, t, cs, h), NEW c, Free(c), NEW k, Open(k),
         NEW u, Owes(t, u, k.tokens), Write(c, Uncovered(k), u, cs)
  PROVE  Posts(s, h)
<1> DEFINE x == Uncovered(k)
<1>1. /\ DOMAIN x = CFields /\ x.phase = "done" /\ x.pool = "uncounted" /\ x.tokens = k.tokens
      /\ x.incarnation = 0
  BY DEF Uncovered, Over, NewCall, CFields
<1> HIDE DEF x
<1>2. Entry(x, t.incarnation)  BY <1>1 DEF Open, Entry, Ready, Books, Numbers
<1>3. Books(u, [cs EXCEPT ![c] = x], h)
 <2>1. Owes(t, u, x.tokens)  BY <1>1
 <2>2. c \in Call /\ cs[c].pool = "none"
   BY FreeBlank
 <2>3. QED BY <1>1, <1>2, <2>1, <2>2, OweBooks DEF Ready
<1>4. Lineage(s, u)  BY DEF Ready, Lineage, Owes, HasLease
<1>5. ~Drawn(x) /\ x.phase # "reserved"
  BY <1>1 DEF Drawn
<1>6. Write(c, x, u, cs)  BY DEF x
<1>7. QED BY <1>3, <1>4, <1>5, <1>6, WritePosts

LEMMA BoundedSchedule ==
  ASSUME NEW t, DOMAIN t = StFields, NEW pool, Bounded(t, pool), NEW due, NEW models
  PROVE  Bounded(Schedule(t, due, models), pool)
<1> DEFINE u == ClaimRenewal(t, models)
<1>1. Reporting(t, u)  BY ClaimMoney
<1> HIDE DEF u
<1>2. Bounded(u, pool)  BY <1>1 DEF Bounded, HasLease, Reporting
<1>3. QED BY <1>2 DEF u, Schedule

LEMMA HoldingPosts ==
  ASSUME NEW s, NEW t, NEW cs, NEW h, Ready(s, t, cs, h), NEW c, Free(c), NEW k, Open(k),
         NEW v, v.pool \in {"granted", "share"}, Draws(t, v.st, v.pool, k.tokens),
         Bounded(v.st, v.pool),
         NEW due, NEW models, Write(c, Holding(k, v), Schedule(v.st, due, models), cs)
  PROVE  Posts(s, h)
<1> DEFINE x == Holding(k, v)
           u == v.st
           w == Schedule(u, due, models)
<1>1. /\ DOMAIN x = CFields /\ x.phase = "reserved" /\ x.pool = v.pool /\ x.tokens = k.tokens
      /\ x.lease = u.leaseId /\ x.incarnation = u.incarnation
  BY DEF Holding, CFields, Open
<1>2. Draws(t, u, v.pool, k.tokens) /\ Bounded(u, v.pool) /\ Write(c, x, w, cs)
  OBVIOUS
<1> HIDE DEF x, u, w
<1>3. Entry(x, t.incarnation) /\ Belongs(u, x)
  BY <1>1, <1>2 DEF Open, Entry, Ready, Books, Numbers, Draws, Belongs
<1>4. Books(u, [cs EXCEPT ![c] = x], h)  BY <1>1, <1>2, <1>3, FreeBlank, HoldBooks DEF Ready
<1>5. Books(w, [cs EXCEPT ![c] = x], h)  BY <1>4, ClaimBooks DEF w, Schedule
<1>6. Lineage(s, u) /\ DOMAIN u = StFields
  BY <1>2 DEF Ready, Lineage, Draws, HasLease
<1>7. Lineage(s, w)  BY <1>6, LineageClaim DEF w, Schedule
<1>8. Bounded(w, x.pool)  BY <1>1, <1>2, <1>6, BoundedSchedule DEF w
<1>9. ~Drawn(x)  BY <1>1 DEF Drawn
<1>10. QED BY <1>2, <1>5, <1>7, <1>8, <1>9, WritePosts

LEMMA ImmediatePosts ==
  ASSUME NEW s, NEW t, NEW cs, NEW h, Ready(s, t, cs, h), NEW c, Free(c), NEW k, Open(k),
         NEW v, Admission(t, v, k.tokens), Immediate(c, k, v, cs)
  PROVE  Posts(s, h)
<1>1. CASE /\ v.decision \in {"local", "metered"}
           /\ Write(c, Holding(k, v), Schedule(v.st, v.due, k.chain), cs)
 <2>1. /\ v.pool \in {"granted", "share"} /\ Draws(t, v.st, v.pool, k.tokens)
       /\ Bounded(v.st, v.pool)
   BY <1>1 DEF Admission
 <2>2. QED BY <1>1, <2>1, HoldingPosts
<1>2. CASE v.decision = "uncounted" /\ Write(c, Uncovered(k), v.st, cs)
 <2>1. Owes(t, v.st, k.tokens)  BY <1>2 DEF Admission
 <2>2. QED BY <1>2, <2>1, UncoveredPosts
<1>3. CASE v.decision = "deny" /\ Write(c, Over, v.st, cs)
 <2>1. Ready(s, v.st, cs, h)  BY <1>3, ReadyVerdict
 <2>2. QED BY <1>3, <2>1, OverPosts
<1>4. QED BY <1>1, <1>2, <1>3 DEF Immediate

LEMMA ColdOutagePosts ==
  ASSUME NEW s, NEW t, NEW cs, NEW h, Ready(s, t, cs, h), NEW c, Free(c), NEW k, Open(k),
         ColdOutage(c, k, t, cs)
  PROVE  Posts(s, h)
<1>1. CASE Write(c, Uncovered(k), Uncounted(t, k.tokens), cs)
 <2>1. Owes(t, Uncounted(t, k.tokens), k.tokens)  BY UncountedMoney DEF Ready, Books
 <2>2. QED BY <1>1, <2>1, UncoveredPosts
<1>2. CASE Write(c, Over, t, cs)
  BY <1>2, OverPosts
<1>3. QED BY <1>1, <1>2 DEF ColdOutage

LEMMA ReentryPosts ==
  ASSUME NEW s, NEW t, NEW cs, NEW h, Ready(s, t, cs, h), NEW c, Free(c), NEW k, Open(k),
         Reentry(c, k, t, cs)
  PROVE  Posts(s, h)
<1> DEFINE u == Swept(t, cs)
           v == AdmitOn(u, k.chain, k.tokens, TRUE)
<1>1. Ready(s, u, Sweep(cs), h)  BY ReadySweep
<1>2. \/ Immediate(c, k, v, Sweep(cs))
      \/ v.decision = "needGrant" /\ ColdOutage(c, k, v.st, Sweep(cs))
      \/ v.decision = "legacy" /\ Write(c, Over, v.st, Sweep(cs))
  BY DEF Reentry
<1> HIDE DEF u
<1>3. Admission(u, v, k.tokens)  BY <1>1, Admitted DEF Ready, Books, Open
<1> HIDE DEF v
<1>4. CASE Immediate(c, k, v, Sweep(cs))
  BY <1>1, <1>3, <1>4, ImmediatePosts
<1>5. ASSUME v.decision \in {"needGrant", "legacy"}
      PROVE  Ready(s, v.st, Sweep(cs), h)
  BY <1>1, <1>3, <1>5, ReadyVerdict
<1>6. CASE v.decision = "needGrant" /\ ColdOutage(c, k, v.st, Sweep(cs))
  BY <1>5, <1>6, ColdOutagePosts
<1>7. CASE v.decision = "legacy" /\ Write(c, Over, v.st, Sweep(cs))
  BY <1>5, <1>7, OverPosts
<1>8. QED BY <1>2, <1>4, <1>6, <1>7

LEMMA PerCallPosts ==
  ASSUME NEW s, NEW t, NEW cs, NEW h, Ready(s, t, cs, h), NEW c, Free(c), NEW k, Open(k),
         PerCall(c, k, t, cs)
  PROVE  Posts(s, h)
<1>1. Open([k EXCEPT !.phase = "asking"])  BY DEF Open, CFields
<1>2. CASE Write(c, [k EXCEPT !.phase = "asking"], t, cs)
  BY <1>1, <1>2, OpenPosts
<1>3. CASE Write(c, Over, t, cs)
  BY <1>3, OverPosts
<1>4. CASE Reentry(c, k, t, cs)
  BY <1>4, ReentryPosts
<1>5. QED BY <1>2, <1>3, <1>4 DEF PerCall

-----------------------------------------------------------------------------
(* Answers of the plane, in the books. *)

(* The report p of a ledger s is acknowledged. *)
Settled(s, t, p) ==
  /\ DOMAIN t = StFields /\ t.leaseId = s.leaseId /\ t.generation = s.generation
  /\ t.incarnation = s.incarnation /\ t.grantedTokens = s.grantedTokens
  /\ t.grantedRemaining = s.grantedRemaining /\ t.shareRemaining = s.shareRemaining
  /\ t.pendingReport = {}
  /\ t.spent = Max({0, s.spent - p.spent})
  /\ t.uncountedCalls = Max({0, s.uncountedCalls - p.calls})
  /\ t.uncountedTokens = Max({0, s.uncountedTokens - p.tokens})

LEMMA SettleMoney ==
  ASSUME NEW s, DOMAIN s = StFields, NEW p, s.pendingReport = {p}
  PROVE  Settled(s, SettlePendingReport(s), p)
<1>1. (CHOOSE q \in s.pendingReport : TRUE) = p  BY Chosen
<1> DEFINE t == SettlePendingReport(s)
           a == Max({0, s.spent - p.spent})
           b == Max({0, s.uncountedCalls - p.calls})
           d == Max({0, s.uncountedTokens - p.tokens})
<1>2. s.pendingReport # {}  OBVIOUS
<1>3. t = [s EXCEPT !.spent = a, !.uncountedCalls = b, !.uncountedTokens = d,
                    !.pendingReport = {}]
  BY <1>1, <1>2 DEF SettlePendingReport
<1> HIDE DEF t, a, b, d
<1>4. /\ DOMAIN t = StFields /\ t.leaseId = s.leaseId /\ t.generation = s.generation
      /\ t.incarnation = s.incarnation /\ t.grantedTokens = s.grantedTokens
      /\ t.grantedRemaining = s.grantedRemaining /\ t.shareRemaining = s.shareRemaining
      /\ t.pendingReport = {} /\ t.spent = a /\ t.uncountedCalls = b /\ t.uncountedTokens = d
  BY <1>3 DEF StFields
<1>5. QED BY <1>4 DEF Settled, t, a, b, d

LEMMA SettleNothing ==
  ASSUME NEW s, s.pendingReport = {}
  PROVE  SettlePendingReport(s) = s
BY DEF SettlePendingReport

(* The ledger s after a grant of terms for `lease`, before it settles its report. *)
Granted(s, u, lease, terms) ==
  /\ DOMAIN u = StFields /\ u.leaseId = lease /\ u.grantedTokens = terms.granted
  /\ u.pendingReport = s.pendingReport
  /\ u.uncountedCalls = s.uncountedCalls /\ u.uncountedTokens = s.uncountedTokens
  /\ s.leaseId = lease =>
       /\ u.incarnation = s.incarnation /\ u.spent = s.spent
       /\ u.grantedRemaining = terms.granted - CarriedGranted(s)
       /\ u.shareRemaining = terms.share - Live(s, "share")
  /\ s.leaseId # lease =>
       /\ u.incarnation = s.incarnation + 1 /\ u.spent = 0
       /\ u.grantedRemaining = terms.granted - 0 /\ u.shareRemaining = terms.share - 0

LEMMA InstallMoney ==
  ASSUME NEW s, DOMAIN s = StFields, NEW lease, NEW gen, NEW terms, NEW models
  PROVE  \E u : /\ Granted(s, u, lease, terms)
                /\ Install(s, lease, gen, terms, models) = SettlePendingReport(u)
<1> DEFINE same == s.leaseId = lease
           inc == IF same THEN s.incarnation ELSE s.incarnation + 1
           sp == IF same THEN s.spent ELSE 0
           gr == terms.granted - (IF same THEN CarriedGranted(s) ELSE 0)
           sr == terms.share - (IF same THEN Live(s, "share") ELSE 0)
           dm == IF same THEN s.declaredModels \cup models ELSE models
           u == [s EXCEPT
                  !.incarnation = inc, !.spent = sp,
                  !.leaseId = lease, !.generation = gen, !.grantedTokens = terms.granted,
                  !.grantedRemaining = gr, !.shareRemaining = sr,
                  !.refreshDue = FALSE, !.expired = FALSE, !.finalGrant = terms.final,
                  !.postureMode = terms.mode,
                  !.onUnreachable = IF FailOpen THEN terms.unreachable ELSE "local_enforce",
                  !.declaredModels = dm,
                  !.renewalInFlight = FALSE, !.declaration = {}, !.backingOff = FALSE,
                  !.latch = "none", !.releasePending = NoRelease]
<1>1. Install(s, lease, gen, terms, models) = SettlePendingReport(u)  BY DEF Install
<1>2. /\ DOMAIN u = StFields /\ u.leaseId = lease /\ u.grantedTokens = terms.granted
      /\ u.pendingReport = s.pendingReport
      /\ u.uncountedCalls = s.uncountedCalls /\ u.uncountedTokens = s.uncountedTokens
      /\ u.incarnation = inc /\ u.spent = sp /\ u.grantedRemaining = gr /\ u.shareRemaining = sr
 <2> HIDE DEF inc, sp, gr, sr, dm
 <2>1. QED BY DEF StFields
<1> HIDE DEF u
<1>3. Granted(s, u, lease, terms)  BY <1>2 DEF Granted
<1>4. QED BY <1>1, <1>3

(* What h becomes when report p is acknowledged. *)
Told(h, g, p) == g.calls = h.calls + p.calls /\ g.tokens = h.tokens + p.tokens

(* A settled report leaves the uncounted calls accounted for. *)
LEMMA SettledOwing ==
  ASSUME NEW s, NEW cs, NEW h, Books(s, cs, h), NEW p, p \in s.pendingReport,
         NEW u, NEW t, Settled(u, t, p),
         u.uncountedCalls = s.uncountedCalls, u.uncountedTokens = s.uncountedTokens,
         NEW g, Told(h, g, p)
  PROVE  /\ Owing(t, cs, g) /\ t.uncountedCalls \in Nat /\ t.uncountedTokens \in Nat
         /\ g.calls \in Nat /\ g.tokens \in Nat
<1>1. /\ p.calls \in Nat /\ p.calls <= s.uncountedCalls
      /\ p.tokens \in Nat /\ p.tokens <= s.uncountedTokens
      /\ s.uncountedCalls \in Nat /\ s.uncountedTokens \in Nat
      /\ h.calls \in Nat /\ h.tokens \in Nat
  BY DEF Books, Reported, Numbers, Tallies
<1>2. /\ t.uncountedCalls = s.uncountedCalls - p.calls
      /\ t.uncountedTokens = s.uncountedTokens - p.tokens
 <2>1. /\ Max({0, s.uncountedCalls - p.calls}) = s.uncountedCalls - p.calls
       /\ Max({0, s.uncountedTokens - p.tokens}) = s.uncountedTokens - p.tokens
   BY <1>1, MaxZero
 <2>2. QED BY <2>1 DEF Settled
<1>3. QED BY <1>1, <1>2 DEF Books, Owing, Told

(* A ledger without a lease has only the uncounted calls to account for. *)
LEMMA LeaselessBooks ==
  ASSUME NEW s, NEW cs, NEW h, Books(s, cs, h), ~HasLease(s), NEW g, Tallies(g),
         g.calls = h.calls, g.tokens = h.tokens
  PROVE  Books(s, cs, g)
BY DEF Books, Balanced, Owing

(* A first grant, or a lease that replaces another one: no call belongs to it. *)
LEMMA FreshBooks ==
  ASSUME NEW s, NEW cs, NEW h, Books(s, cs, h), NEW t,
         DOMAIN t = StFields, t.incarnation = s.incarnation + 1,
         NEW terms \in GrantTerms, t.grantedTokens = terms.granted,
         t.grantedRemaining = terms.granted, t.shareRemaining = terms.share,
         t.spent = 0, t.pendingReport = {},
         NEW g, Tallies(g), Owing(t, cs, g), t.uncountedCalls \in Nat, t.uncountedTokens \in Nat,
         g.spend = 0, g.granted = 0, g.shareBase = 0, g.shareGrant = terms.share
  PROVE  Books(t, cs, g)
<1>1. /\ s.incarnation \in Nat /\ t.incarnation \in Nat /\ t.incarnation > s.incarnation
      /\ Entries(cs, s.incarnation) /\ DOMAIN cs = Call
      /\ terms.granted \in Nat /\ terms.share \in Nat
  BY DEF Books, Numbers, GrantTerms
<1>2. /\ Holds(cs, t, "granted") = 0 /\ Spends(cs, t, "granted") = 0
      /\ Holds(cs, t, "share") = 0 /\ Spends(cs, t, "share") = 0
  BY <1>1, FreshSums
<1>3. Entries(cs, t.incarnation)  BY <1>1, EntriesLater
<1>4. Numbers(t) /\ Reported(t)
  BY <1>1 DEF Numbers, Reported
<1>5. Level(t, g, 0, 0, 0, 0)  BY <1>1 DEF Level
<1>6. Balanced(t, cs, g)  BY <1>2, <1>5 DEF Balanced
<1>7. QED BY <1>1, <1>3, <1>4, <1>6 DEF Books

(* A renewal of the lease itself carries what its calls hold and have spent. *)
LEMMA CarriedBooks ==
  ASSUME NEW s, NEW h, Books(s, call, h), HasLease(s), NEW p, s.pendingReport = {p},
         NEW terms \in GrantTerms, NEW u, Granted(s, u, s.leaseId, terms),
         NEW t, Settled(u, t, p),
         NEW n \in Nat, Spends(call, s, "granted") - n <= s.spent - p.spent,
         NEW g, Told(h, g, p), g.spend = h.spend + p.spent, g.granted = n,
         g.shareBase = Spends(call, s, "share"), g.shareGrant = terms.share
  PROVE  Books(t, call, g)
<1> DEFINE hg == Holds(call, s, "granted")
           ug == Spends(call, s, "granted")
           hs == Holds(call, s, "share")
           us == Spends(call, s, "share")
<1>1. hg \in Nat /\ ug \in Nat /\ hs \in Nat /\ us \in Nat
  BY SumsType DEF Books
<1>2. /\ p.spent \in Nat /\ p.spent <= s.spent /\ s.spent \in Nat /\ h.spend \in Nat
      /\ terms.granted \in Nat /\ terms.share \in Nat
      /\ s.spent + h.spend = ug + us
  BY DEF Books, Reported, Numbers, Tallies, GrantTerms, Balanced, Level
<1>3. Max({0, s.spent - p.spent}) = s.spent - p.spent  BY <1>2, MaxZero
<1>4. CarriedGranted(s) = hg + (s.spent - p.spent) /\ Live(s, "share") = hs
 <2>1. (CHOOSE q \in s.pendingReport : TRUE) = p /\ s.pendingReport # {}
   BY Chosen
 <2>2. QED BY <1>3, <2>1 DEF CarriedGranted, Live, Holds
<1>5. /\ DOMAIN t = StFields /\ t.leaseId = s.leaseId /\ t.incarnation = s.incarnation
      /\ t.grantedTokens = terms.granted /\ t.spent = s.spent - p.spent
      /\ t.grantedRemaining = terms.granted - (hg + (s.spent - p.spent))
      /\ t.shareRemaining = terms.share - hs /\ t.pendingReport = {}
  BY <1>3, <1>4 DEF Granted, Settled
<1>6. Owing(t, call, g) /\ t.uncountedCalls \in Nat /\ t.uncountedTokens \in Nat
      /\ g.calls \in Nat /\ g.tokens \in Nat
  BY SettledOwing DEF Granted
<1>7. /\ Holds(call, t, "granted") = hg /\ Spends(call, t, "granted") = ug
      /\ Holds(call, t, "share") = hs /\ Spends(call, t, "share") = us
  BY <1>5, SameSums
<1>8. ug - n <= s.spent - p.spent /\ g.shareBase = us
  OBVIOUS
<1> HIDE DEF hg, ug, hs, us
<1>9. Tallies(g)  BY <1>1, <1>2, <1>6, <1>8 DEF Tallies
<1>10. Level(t, g, hg, ug, hs, us)
 <2>1. t.grantedRemaining + hg + (ug - g.granted) <= t.grantedTokens  BY <1>1, <1>2, <1>5, <1>8
 <2>2. t.grantedTokens <= t.grantedRemaining + hg + t.spent  BY <1>1, <1>2, <1>5
 <2>3. t.shareRemaining + hs + (us - g.shareBase) = g.shareGrant  BY <1>1, <1>2, <1>5, <1>8
 <2>4. t.spent + g.spend = ug + us  BY <1>1, <1>2, <1>5
 <2>5. QED BY <2>1, <2>2, <2>3, <2>4 DEF Level
<1>11. Balanced(t, call, g)  BY <1>7, <1>10 DEF Balanced
<1>12. Numbers(t) /\ Reported(t)
  BY <1>1, <1>2, <1>5, <1>6 DEF Numbers, Reported, Books
<1>13. Entries(call, t.incarnation) /\ DOMAIN call = Call
  BY <1>5 DEF Books
<1>14. QED BY <1>5, <1>6, <1>9, <1>11, <1>12, <1>13 DEF Books

-----------------------------------------------------------------------------
(* The invariant that keeps every token in one book. *)

(* A renewal of the present lease remembers what calls had used of the grant *)
(* when it was claimed; they have used no more since than is yet unreported. *)
Claims(R, s, cs) ==
  \A r \in R : HasLease(s) /\ AtOrigin(s, r) =>
    /\ r.granted \in Nat
    /\ Spends(cs, s, "granted") - r.granted <= s.spent - r.report.spent

(* Balances are not inductive by themselves: a successor grant is charged with *)
(* what the ledger has spent beyond the report it answers, so the report has   *)
(* to be on the ledger still (Reported in Books), to be of the one renewal     *)
(* that is answered (IInv), and to date from a claim that left nothing out     *)
(* (Claims).                                                                   *)
BooksInv == IInv /\ Books(st, call, hist) /\ Claims(renewals, st, call)

(* Calls that drew on a lease for good stand as they did. *)
StillDrawn(cs, ds) == \A b \in Call : Drawn(ds[b]) \/ Drawn(cs[b]) => ds[b] = cs[b]

LEMMA SpendsStand ==
  ASSUME NEW cs, NEW ds, StillDrawn(cs, ds), NEW s, NEW t,
         t.leaseId = s.leaseId, t.incarnation = s.incarnation
  PROVE  Spends(ds, t, "granted") = Spends(cs, s, "granted")
<1> DEFINE S == Of(cs, s, {"done"}, "granted")
           T == Of(ds, t, {"done"}, "granted")
<1>1. \A b \in Call : Belongs(t, ds[b]) <=> Belongs(s, ds[b])
  BY DEF Belongs
<1>2. \A b \in Call : b \in T <=> b \in S
  BY <1>1 DEF Of, StillDrawn, Drawn
<1>3. S = T  BY <1>2 DEF Of
<1>4. \A b \in S : cs[b].tokens = ds[b].tokens
  BY DEF Of, StillDrawn, Drawn
<1> HIDE DEF S, T
<1>5. Sum(cs, S) = Sum(ds, S)  BY <1>4, SumSame
<1>6. Spends(cs, s, "granted") = Sum(cs, S) /\ Spends(ds, t, "granted") = Sum(ds, T)
  BY DEF Spends, Tokens, S, T
<1>7. QED BY <1>3, <1>5, <1>6

(* The ledger's lease and what it has spent are as they were, if there is one. *)
LeaseStands(s, t) ==
  HasLease(t) => /\ t.leaseId = s.leaseId /\ t.generation = s.generation
                 /\ t.incarnation = s.incarnation /\ t.spent = s.spent

LEMMA ClaimsStand ==
  ASSUME NEW R, NEW s, NEW cs, Claims(R, s, cs), NEW t, LeaseStands(s, t),
         NEW ds, StillDrawn(cs, ds), NEW Q,
         \A q \in Q : \E r \in R : /\ q.lease = r.lease /\ q.generation = r.generation
                                   /\ q.report = r.report /\ q.granted = r.granted
  PROVE  Claims(Q, t, ds)
<1>1. SUFFICES ASSUME NEW q \in Q, HasLease(t), AtOrigin(t, q)
               PROVE  /\ q.granted \in Nat
                      /\ Spends(ds, t, "granted") - q.granted <= t.spent - q.report.spent
  BY DEF Claims
<1>2. PICK r \in R : /\ q.lease = r.lease /\ q.generation = r.generation
                     /\ q.report = r.report /\ q.granted = r.granted
  OBVIOUS
<1>3. /\ t.leaseId = s.leaseId /\ t.generation = s.generation
      /\ t.incarnation = s.incarnation /\ t.spent = s.spent
  BY <1>1 DEF LeaseStands
<1>4. HasLease(s) /\ AtOrigin(s, r)
  BY <1>1, <1>2, <1>3 DEF HasLease, AtOrigin
<1>5. Spends(ds, t, "granted") = Spends(cs, s, "granted")  BY <1>3, SpendsStand
<1>6. QED BY <1>2, <1>3, <1>4, <1>5 DEF Claims

(* The renewal a handler launched reports what was spent when it claimed it. *)
LEMMA PostsClaims ==
  ASSUME NEW s, NEW h, Posts(s, h), Claims(renewals, s, call),
         s.renewalInFlight = st.renewalInFlight, Entries(call, s.incarnation)
  PROVE  Claims(renewals', st', call')
<1>1. StillDrawn(call, call')  BY DEF Posts, StillDrawn
<1>2. LeaseStands(s, st')  BY DEF Posts, Lineage, LeaseStands
<1>3. Claims(renewals, st', call')  BY <1>1, <1>2, ClaimsStand
<1>4. renewals' = Launched(st')  BY DEF Posts
<1>5. ASSUME HasLease(st'), st'.renewalInFlight # st.renewalInFlight
      PROVE  LET r == OperationOf(st') IN
             /\ r.granted \in Nat
             /\ Spends(call', st', "granted") - r.granted <= st'.spent - r.report.spent
 <2>1. PICK p : st'.pendingReport = {p} /\ p.spent = st'.spent
   BY <1>5 DEF Posts, Lineage
 <2>2. OperationOf(st').report = p  BY <2>1, Chosen DEF OperationOf
 <2>3. OperationOf(st').granted = Spends(call, st', "granted")  BY DEF OperationOf, Used, Spends
 <2>4. Spends(call', st', "granted") = Spends(call, st', "granted")  BY <1>1, SpendsStand
 <2>5. Spends(call, st', "granted") \in Nat  BY SumsType
 <2>6. st'.spent \in Nat  BY DEF Posts, Books, Numbers
 <2>7. QED BY <2>1, <2>2, <2>3, <2>4, <2>5, <2>6
<1>6. CASE st'.renewalInFlight /\ ~st.renewalInFlight
 <2> DEFINE op == OperationOf(st')
 <2>1. renewals' = renewals \cup {op}  BY <1>4, <1>6 DEF Launched
 <2>2. HasLease(st') => /\ op.granted \in Nat
                        /\ Spends(call', st', "granted") - op.granted <= st'.spent - op.report.spent
   BY <1>5, <1>6
 <2> HIDE DEF op
 <2>3. QED BY <1>3, <2>1, <2>2 DEF Claims
<1>7. CASE ~(st'.renewalInFlight /\ ~st.renewalInFlight)
  BY <1>3, <1>4, <1>7 DEF Launched
<1>8. QED BY <1>6, <1>7

(* A handler of a run that goes on: the books are those of the lease it leaves. *)
LEMMA SinceTallies ==
  ASSUME NEW t, Tallies(hist), DOMAIN hist = HFields
  PROVE  LET g == Since(t) IN
         /\ Tallies(g) /\ g.calls = hist.calls /\ g.tokens = hist.tokens
         /\ t.incarnation = st.incarnation => g = hist
         /\ t.incarnation # st.incarnation =>
              g.spend = 0 /\ g.granted = 0 /\ g.shareBase = 0 /\ g.shareGrant = 0
BY DEF Since, Tallies, HFields

LEMMA PostsBooks ==
  ASSUME BooksInv, Posts(st, hist), hist' = Since(st')
  PROVE  Books(st', call', hist') /\ Claims(renewals', st', call')
<1>1. Tallies(hist) /\ DOMAIN hist = HFields /\ Entries(call, st.incarnation)
  BY DEF BooksInv, Books, IInv
<1>2. /\ Tallies(hist') /\ hist'.calls = hist.calls /\ hist'.tokens = hist.tokens
      /\ st'.incarnation = st.incarnation => hist' = hist
 <2>1. LET g == Since(st') IN
        /\ Tallies(g) /\ g.calls = hist.calls /\ g.tokens = hist.tokens
        /\ st'.incarnation = st.incarnation => g = hist
   BY <1>1, SinceTallies
 <2>2. QED BY <2>1
<1>3. Books(st', call', hist) /\ Lineage(st, st')
  BY DEF Posts
<1>4. Books(st', call', hist')
 <2>1. CASE HasLease(st')
   BY <1>2, <1>3, <2>1 DEF Lineage
 <2>2. CASE ~HasLease(st')
   BY <1>2, <1>3, <2>2, LeaselessBooks
 <2>3. QED BY <2>1, <2>2
<1>5. Claims(renewals', st', call')  BY <1>1, PostsClaims DEF BooksInv
<1>6. QED BY <1>4, <1>5

-----------------------------------------------------------------------------
(* The actions of a call. *)

LEMMA SelfReady ==
  ASSUME BooksInv
  PROVE  Ready(st, st, call, hist) /\ DOMAIN st = StFields
BY DEF BooksInv, IInv, CallsOK, Good, Ready, Lineage, Follows

LEMMA CheckPosts ==
  ASSUME BooksInv, NEW c \in Call, Check(c)
  PROVE  Posts(st, hist)
<1>1. PICK models \in Chains, est \in Estimates, open \in BOOLEAN :
        LET v == AdmitOn(Swept(st, call), models, est, open)
            k == [NewCall EXCEPT !.chain = models, !.tokens = est, !.outside = v.outside]
            cs == Sweep(call)
        IN  /\ call[c].phase = "new"
            /\ \/ Immediate(c, k, v, cs) /\ UNCHANGED granting
               \/ /\ v.decision \in {"legacy", "needGrant"}
                  /\ PerCall(c, k, Schedule(v.st, v.due, models), cs)
                  /\ UNCHANGED granting
               \/ /\ v.decision = "needGrant" /\ granting = NoCall
                  /\ \/ Write(c, [k EXCEPT !.phase = "granting"], v.st, cs) /\ granting' = c
                     \/ ColdOutage(c, k, v.st, cs) /\ UNCHANGED granting
            /\ hist' = Since(st')
            /\ UNCHANGED <<releases, lastRelease, planeGen>>
  BY DEF Check
<1> DEFINE s == Swept(st, call)
           v == AdmitOn(s, models, est, open)
           k == [NewCall EXCEPT !.chain = models, !.tokens = est, !.outside = v.outside]
           kg == [k EXCEPT !.phase = "granting"]
           cs == Sweep(call)
<1>2. \/ Immediate(c, k, v, cs)
      \/ /\ v.decision \in {"legacy", "needGrant"}
         /\ PerCall(c, k, Schedule(v.st, v.due, models), cs)
      \/ v.decision = "needGrant" /\ Write(c, kg, v.st, cs)
      \/ v.decision = "needGrant" /\ ColdOutage(c, k, v.st, cs)
  BY <1>1
<1>3. Free(c)  BY <1>1 DEF Free
<1>4. Ready(st, s, cs, hist)  BY SelfReady, ReadySweep
<1>5. est \in Nat  BY LedgerAssumption
<1>6. Open(k) /\ Open(kg) /\ k.tokens = est
 <2> HIDE DEF v
 <2>1. /\ DOMAIN k = CFields /\ k.tokens = est /\ k.pool = "none" /\ k.incarnation = 0
       /\ k.phase = "new"
   BY DEF NewCall, CFields
 <2> HIDE DEF k
 <2>2. QED BY <1>5, <2>1 DEF Open, CFields
<1> HIDE DEF s, cs
<1>7. Admission(s, v, est)  BY <1>4, <1>5, Admitted DEF Ready, Books
<1> HIDE DEF v, k, kg
<1>8. CASE Immediate(c, k, v, cs)
  BY <1>3, <1>4, <1>6, <1>7, <1>8, ImmediatePosts
<1>9. ASSUME v.decision \in {"legacy", "needGrant"}
      PROVE  /\ Ready(st, v.st, cs, hist)
             /\ Ready(st, Schedule(v.st, v.due, models), cs, hist)
  BY <1>4, <1>7, <1>9, ReadyVerdict, ReadySchedule
<1>10. CASE /\ v.decision \in {"legacy", "needGrant"}
            /\ PerCall(c, k, Schedule(v.st, v.due, models), cs)
  BY <1>3, <1>6, <1>9, <1>10, PerCallPosts
<1>11. CASE v.decision = "needGrant" /\ Write(c, kg, v.st, cs)
  BY <1>3, <1>6, <1>9, <1>11, OpenPosts
<1>12. CASE v.decision = "needGrant" /\ ColdOutage(c, k, v.st, cs)
  BY <1>3, <1>6, <1>9, <1>12, ColdOutagePosts
<1>13. QED BY <1>2, <1>8, <1>10, <1>11, <1>12

LEMMA CheckAnsweredPosts ==
  ASSUME BooksInv, NEW c \in Call, CheckAnswered(c)
  PROVE  Posts(st, hist)
<1>1. Free(c) /\ Ready(st, st, call, hist) /\ DOMAIN st = StFields
  BY SelfReady DEF CheckAnswered, Free
<1>2. Ready(st, ClaimWidening(st, call[c].chain), call, hist)  BY <1>1, ReadyClaim DEF ClaimWidening
<1>3. Ready(st, DropLease(st), call, hist)  BY <1>1, DropMoney, ReadyEnd
<1>4. QED BY <1>1, <1>2, <1>3, OverPosts DEF CheckAnswered

LEMMA GrantingOpen ==
  ASSUME BooksInv, NEW c \in Call, granting = c
  PROVE  Free(c) /\ Open(call[c])
<1>1. /\ call[c].phase = "granting" /\ DOMAIN call[c] = CFields
      /\ Entry(call[c], st.incarnation)
  BY DEF BooksInv, IInv, CallsOK, Books, Entries
<1>2. QED BY <1>1 DEF Free, Open, Entry

LEMMA GrantWithheldPosts ==
  ASSUME BooksInv, NEW c \in Call, GrantWithheld(c)
  PROVE  Posts(st, hist)
<1>1. Free(c) /\ Open(call[c]) /\ Ready(st, st, call, hist) /\ DOMAIN st = StFields
  BY SelfReady, GrantingOpen DEF GrantWithheld
<1>2. Ready(st, DropLease(st), call, hist)  BY <1>1, DropMoney, ReadyEnd
<1>3. QED BY <1>1, <1>2, OverPosts, PerCallPosts, ColdOutagePosts DEF GrantWithheld

LEMMA GrantLatchedPosts ==
  ASSUME BooksInv, NEW c \in Call, GrantLatched(c)
  PROVE  Posts(st, hist)
<1>1. Free(c) /\ Open(call[c]) /\ Ready(st, st, call, hist) /\ DOMAIN st = StFields
  BY SelfReady, GrantingOpen DEF GrantLatched
<1> DEFINE t == DropLease(st)
<1>2. Ends(st, t)  BY <1>1, DropMoney
<1>3. PICK s \in {t, MarkIneligible(st, "waiting"), MarkIneligible(st, "forever"),
                  [t EXCEPT !.latch = "waiting"]} : PerCall(c, call[c], s, call)
  BY DEF GrantLatched
<1>4. \/ s = t
      \/ s = [t EXCEPT !.latch = "waiting", !.releasePending = NoRelease]
      \/ s = [t EXCEPT !.latch = "forever", !.releasePending = NoRelease]
      \/ s = [t EXCEPT !.latch = "waiting"]
  BY <1>3 DEF MarkIneligible
<1> HIDE DEF t
<1>5. Ends(st, s)
 <2>1. ASSUME NEW until, s = [t EXCEPT !.latch = until, !.releasePending = NoRelease]
       PROVE  Ends(st, s)
   BY <1>2, <2>1 DEF Ends, StFields
 <2>2. CASE s = [t EXCEPT !.latch = "waiting"]
   BY <1>2, <2>2, LatchMoney
 <2>3. QED BY <1>2, <1>4, <2>1, <2>2
<1>6. Ready(st, s, call, hist)  BY <1>1, <1>5, ReadyEnd
<1>7. QED BY <1>1, <1>3, <1>6, PerCallPosts

(* The first grant of a run opens the books of its lease. *)
LEMMA GrantAppliedPosts ==
  ASSUME BooksInv, NEW c \in Call, GrantApplied(c)
  PROVE  Books(st', call', hist') /\ Claims(renewals', st', call')
         /\ \A b \in Call : call'[b].phase = "reserved" /\ call[b].phase # "reserved" =>
                              Bounded(st', call'[b].pool)
<1>1. /\ granting = c /\ planeGen' = planeGen + 1 /\ planeGen \in Nat
      /\ Free(c) /\ Open(call[c]) /\ DOMAIN st = StFields
  BY SelfReady, GrantingOpen, LedgerAssumption DEF GrantApplied, BooksInv, IInv
<1>2. PICK lease \in Lease, terms \in Terms, open \in BOOLEAN :
       LET k == call[c]
           s == Install(st, lease, planeGen', terms, k.chain)
           v == AdmitOn(Swept(s, call), k.chain, k.tokens, open)
       IN  /\ \/ Immediate(c, k, v, Sweep(call))
              \/ /\ v.decision \in {"legacy", "needGrant"}
                 /\ PerCall(c, k, Schedule(v.st, v.due, k.chain), Sweep(call))
           /\ hist' = [Since(st') EXCEPT !.shareGrant = terms.share]
  BY DEF GrantApplied
<1> DEFINE k == call[c]
           n == planeGen + 1
           s == Install(st, lease, n, terms, k.chain)
           w == Swept(s, call)
           v == AdmitOn(w, k.chain, k.tokens, open)
           h == [hist EXCEPT !.spend = 0, !.granted = 0, !.shareBase = 0, !.shareGrant = terms.share]
<1>3. /\ \/ Immediate(c, k, v, Sweep(call))
         \/ /\ v.decision \in {"legacy", "needGrant"}
            /\ PerCall(c, k, Schedule(v.st, v.due, k.chain), Sweep(call))
      /\ hist' = [Since(st') EXCEPT !.shareGrant = terms.share]
  BY <1>1, <1>2
<1>4. ~HasLease(st) /\ st.renewalInFlight = FALSE /\ c # NoCall
  BY <1>1, LedgerAssumption DEF BooksInv, IInv, CallsOK, Good
<1>5. st.pendingReport = {} /\ st.leaseId # lease /\ terms \in GrantTerms
  BY <1>4, LedgerAssumption DEF BooksInv, Books, Reported, HasLease
<1>6. /\ DOMAIN s = StFields /\ s.leaseId = lease /\ s.generation = n
      /\ s.renewalInFlight = FALSE
 <2>1. Installs(st, s, lease, n, k.chain)  BY <1>1, InstallEffect
 <2>2. QED BY <2>1 DEF Installs
<1>7. /\ s.incarnation = st.incarnation + 1 /\ s.grantedTokens = terms.granted
      /\ s.grantedRemaining = terms.granted /\ s.shareRemaining = terms.share
      /\ s.spent = 0 /\ s.pendingReport = {}
      /\ s.uncountedCalls = st.uncountedCalls /\ s.uncountedTokens = st.uncountedTokens
 <2>1. PICK u : Granted(st, u, lease, terms) /\ s = SettlePendingReport(u)
   BY <1>1, InstallMoney
 <2>2. u.pendingReport = {} /\ s = u
   BY <1>5, <2>1, SettleNothing DEF Granted
 <2>3. QED BY <1>5, <2>1, <2>2 DEF Granted, GrantTerms
<1> HIDE DEF s, n
<1>8. /\ h.spend = 0 /\ h.granted = 0 /\ h.shareBase = 0 /\ h.shareGrant = terms.share
      /\ h.calls = hist.calls /\ h.tokens = hist.tokens /\ DOMAIN h = HFields
  BY DEF BooksInv, IInv, HFields
<1> HIDE DEF h
<1>9. Tallies(h)  BY <1>5, <1>8 DEF Tallies, BooksInv, Books, GrantTerms
<1>10. Books(s, call, h)
 <2>1. Books(st, call, hist)  BY DEF BooksInv
 <2>2. Owing(s, call, h) /\ s.uncountedCalls \in Nat /\ s.uncountedTokens \in Nat
   BY <1>7, <1>8, <2>1 DEF Books, Owing, Numbers
 <2>3. QED BY <1>5, <1>6, <1>7, <1>8, <1>9, <2>1, <2>2, FreshBooks
<1>11. Ready(s, s, call, h)  BY <1>10, SelfReady DEF Ready, Lineage
<1>12. Ready(s, w, Sweep(call), h)  BY <1>11, ReadySweep
<1> HIDE DEF w
<1>13. Admission(w, v, k.tokens)  BY <1>1, <1>12, Admitted DEF Ready, Books, Open
<1> HIDE DEF v
<1>14. Posts(s, h)
 <2>1. CASE Immediate(c, k, v, Sweep(call))
   BY <1>1, <1>12, <1>13, <2>1, ImmediatePosts
 <2>2. CASE /\ v.decision \in {"legacy", "needGrant"}
            /\ PerCall(c, k, Schedule(v.st, v.due, k.chain), Sweep(call))
  <3>1. Ready(s, Schedule(v.st, v.due, k.chain), Sweep(call), h)
    BY <1>12, <1>13, <2>2, ReadyVerdict, ReadySchedule
  <3>2. QED BY <1>1, <2>2, <3>1, PerCallPosts
 <2>3. QED BY <1>3, <2>1, <2>2
<1>15. Claims(renewals', st', call')
 <2>1. \A r \in renewals : ~AtOrigin(s, r)
   BY <1>1, <1>6 DEF AtOrigin, BooksInv, IInv, RenewalsOK, n
 <2>2. Claims(renewals, s, call)  BY <2>1 DEF Claims
 <2>3. Entries(call, s.incarnation)  BY <1>10 DEF Books
 <2>4. QED BY <1>4, <1>6, <1>14, <2>2, <2>3, PostsClaims
<1>16. Books(st', call', hist')
 <2>1. Tallies(hist) /\ DOMAIN hist = HFields
   BY DEF BooksInv, Books, IInv
 <2> DEFINE g == Since(st')
 <2>2. /\ Tallies(g) /\ g.calls = hist.calls /\ g.tokens = hist.tokens /\ DOMAIN g = HFields
       /\ st'.incarnation # st.incarnation =>
             g.spend = 0 /\ g.granted = 0 /\ g.shareBase = 0 /\ g.shareGrant = 0
   BY <2>1, SinceTallies, SinceSaid
 <2> HIDE DEF g
 <2>3. hist' = [g EXCEPT !.shareGrant = terms.share]  BY <1>3 DEF g
 <2>4. /\ Tallies(hist') /\ hist'.calls = h.calls /\ hist'.tokens = h.tokens
       /\ st'.incarnation # st.incarnation =>
            /\ hist'.spend = h.spend /\ hist'.granted = h.granted
            /\ hist'.shareBase = h.shareBase /\ hist'.shareGrant = h.shareGrant
   BY <1>5, <1>8, <2>2, <2>3 DEF Tallies, HFields, GrantTerms
 <2>5. Books(st', call', h) /\ Lineage(s, st')
   BY <1>14 DEF Posts
 <2>6. CASE ~HasLease(st')
   BY <2>4, <2>5, <2>6, LeaselessBooks
 <2>7. CASE HasLease(st')
  <3>1. st'.incarnation # st.incarnation  BY <1>7, <2>5, <2>7 DEF Lineage, BooksInv, Books, Numbers
  <3>2. QED BY <2>4, <2>5, <3>1 DEF Books, Balanced, Level, Owing
 <2>8. QED BY <2>6, <2>7
<1>17. QED BY <1>14, <1>15, <1>16 DEF Posts

-----------------------------------------------------------------------------
(* The actions of a renewal. *)

LEMMA SameLease ==
  ASSUME NEW s, NEW t, SameMoney(s, t)
  PROVE  LeaseStands(s, t)
BY DEF SameMoney, LeaseStands

(* An attempt that failed takes its report back. *)
LEMMA FailedBooks ==
  ASSUME BooksInv, NEW r, NEW sent \in BOOLEAN
  PROVE  LET t == RenewalFailed(st, r, sent)
         IN  Books(t, call, hist) /\ LeaseStands(st, t)
<1>1. DOMAIN st = StFields /\ Books(st, call, hist)
  BY DEF BooksInv, IInv, Good
<1>2. CASE ~AtOrigin(st, r)
  BY <1>1, <1>2 DEF RenewalFailed, LeaseStands
<1>3. CASE AtOrigin(st, r)
 <2> DEFINE t == RenewalFailed(st, r, sent)
            x == [st EXCEPT !.pendingReport = {}]
            d == IF sent THEN {[e EXCEPT !.dispatched = TRUE] : e \in Owed(st)}
                 ELSE {e \in Owed(st) : e.dispatched}
 <2>1. t = [st EXCEPT !.declaration = d, !.renewalInFlight = FALSE, !.pendingReport = {},
                      !.backingOff = TRUE]
   BY <1>3 DEF RenewalFailed
 <2> HIDE DEF t, d
 <2>2. /\ DOMAIN t = StFields /\ t.leaseId = st.leaseId /\ t.generation = st.generation
       /\ t.incarnation = st.incarnation /\ t.grantedTokens = st.grantedTokens
       /\ t.grantedRemaining = st.grantedRemaining /\ t.shareRemaining = st.shareRemaining
       /\ t.spent = st.spent /\ t.pendingReport = {}
       /\ t.uncountedCalls = st.uncountedCalls /\ t.uncountedTokens = st.uncountedTokens
   BY <1>1, <2>1 DEF StFields
 <2>3. Numbers(t) /\ Reported(t) /\ Owing(t, call, hist)
   BY <1>1, <2>2 DEF Books, Numbers, Reported, Owing
 <2>4. Balanced(t, call, hist)
  <3>1. /\ Holds(call, t, "granted") = Holds(call, st, "granted")
        /\ Spends(call, t, "granted") = Spends(call, st, "granted")
        /\ Holds(call, t, "share") = Holds(call, st, "share")
        /\ Spends(call, t, "share") = Spends(call, st, "share")
    BY <2>2, SameSums
  <3>2. QED BY <1>1, <2>2, <3>1 DEF Books, Balanced, Level, HasLease
 <2>5. Books(t, call, hist)  BY <1>1, <2>2, <2>3, <2>4 DEF Books
 <2>6. LeaseStands(st, t)  BY <2>2 DEF LeaseStands
 <2>7. QED BY <2>5, <2>6 DEF t
<1>4. QED BY <1>2, <1>3

(* Renewals that are not replaced keep what they claim. *)
LEMMA FewerClaims ==
  ASSUME BooksInv, LeaseStands(st, st'), renewals' \subseteq renewals, StillDrawn(call, call')
  PROVE  Claims(renewals', st', call')
<1>1. Claims(renewals, st', call')  BY ClaimsStand DEF BooksInv
<1>2. QED BY <1>1 DEF Claims

LEMMA SameDrawn == StillDrawn(call, call)
BY DEF StillDrawn

(* The lease ends outside the handlers of a call. *)
LEMMA EndedBooks ==
  ASSUME BooksInv, Ends(st, st'), call' = call, hist' = Since(st')
  PROVE  Books(st', call', hist') /\ Claims(renewals', st', call')
<1>1. Tallies(hist) /\ DOMAIN hist = HFields
  BY DEF BooksInv, Books, IInv
<1>2. Tallies(hist') /\ hist'.calls = hist.calls /\ hist'.tokens = hist.tokens
 <2>1. LET g == Since(st') IN
        /\ Tallies(g) /\ g.calls = hist.calls /\ g.tokens = hist.tokens
        /\ st'.incarnation = st.incarnation => g = hist
   BY <1>1, SinceTallies
 <2>2. QED BY <2>1
<1>3. Books(st', call, hist) /\ ~HasLease(st')
  BY EndBooks DEF BooksInv
<1>4. Books(st', call, hist')  BY <1>2, <1>3, LeaselessBooks
<1>5. QED BY <1>3, <1>4 DEF Claims

LEMMA SkipRenewalBooks ==
  ASSUME BooksInv, NEW r \in renewals, SkipRenewal(r)
  PROVE  Books(st', call', hist') /\ Claims(renewals', st', call')
<1>1. /\ st' = RenewalFailed(st, r, FALSE) /\ renewals' \subseteq renewals
      /\ call' = call /\ hist' = hist
  BY DEF SkipRenewal
<1>2. Books(st', call, hist) /\ LeaseStands(st, st')
  BY <1>1, FailedBooks
<1>3. Claims(renewals', st', call')  BY <1>1, <1>2, FewerClaims, SameDrawn
<1>4. QED BY <1>1, <1>2, <1>3

LEMMA RenewalWithheldBooks ==
  ASSUME BooksInv, NEW r \in renewals, RenewalWithheld(r)
  PROVE  Books(st', call', hist') /\ Claims(renewals', st', call')
<1>1. renewals' \subseteq renewals /\ call' = call /\ hist' = Since(st') /\ DOMAIN st = StFields
  BY DEF RenewalWithheld, Answered, BooksInv, IInv, Good
<1>2. CASE st' = RenewalFailed(st, r, TRUE)
 <2>1. Books(st', call, hist) /\ LeaseStands(st, st')
   BY <1>2, FailedBooks
 <2>2. Claims(renewals', st', call')  BY <1>1, <2>1, FewerClaims, SameDrawn
 <2>3. hist' = hist
  <3>1. st'.incarnation = st.incarnation  BY <1>1, <1>2 DEF RenewalFailed, StFields
  <3>2. QED BY <1>1, <3>1 DEF Since
 <2>4. QED BY <1>1, <2>1, <2>2, <2>3
<1>3. CASE st' = DropLease(st)
  BY <1>1, <1>3, DropMoney, EndedBooks
<1>4. CASE st' = [DropLease(st) EXCEPT !.latch = "waiting"]
 <2> DEFINE t == DropLease(st)
 <2>1. Ends(st, t) /\ st' = [t EXCEPT !.latch = "waiting"]
   BY <1>1, <1>4, DropMoney
 <2> HIDE DEF t
 <2>2. Ends(st, st')  BY <2>1 DEF Ends, StFields
 <2>3. QED BY <1>1, <2>2, EndedBooks
<1>5. QED BY <1>2, <1>3, <1>4 DEF RenewalWithheld

LEMMA SendRenewalBooks ==
  ASSUME BooksInv, NEW r \in renewals, SendRenewal(r)
  PROVE  Books(st', call', hist') /\ Claims(renewals', st', call')
<1>1. /\ st' = MarkDispatched(st, r) /\ call' = call /\ DOMAIN st = StFields /\ DOMAIN r = OFields
      /\ renewals' = (renewals \ {r}) \cup {[r EXCEPT !.sent = TRUE]}
      /\ hist' = [hist EXCEPT !.said[r.generation] = @ \cup {r.chain}]
  BY DEF SendRenewal, BooksInv, IInv, Good, RenewalsOK
<1>2. SameMoney(st, st')
 <2> DEFINE d == {[e EXCEPT !.dispatched = TRUE] : e \in Owed(st)}
 <2>1. st' = [st EXCEPT !.declaration = d] \/ st' = st
   BY <1>1 DEF MarkDispatched
 <2> HIDE DEF d
 <2>2. QED BY <1>1, <2>1 DEF SameMoney, StFields
<1>3. Books(st', call, hist)  BY <1>2, SameBooks DEF BooksInv
<1>4. Books(st', call, hist')
 <2>1. /\ hist'.spend = hist.spend /\ hist'.granted = hist.granted
       /\ hist'.shareBase = hist.shareBase /\ hist'.shareGrant = hist.shareGrant
       /\ hist'.calls = hist.calls /\ hist'.tokens = hist.tokens
   BY <1>1 DEF BooksInv, IInv, HFields
 <2>2. QED BY <1>3, <2>1 DEF Books, Tallies, Balanced, Level, Owing
<1>5. Claims(renewals', st', call)
 <2> DEFINE q == [r EXCEPT !.sent = TRUE]
 <2>1. /\ q.lease = r.lease /\ q.generation = r.generation
       /\ q.report = r.report /\ q.granted = r.granted
   BY <1>1 DEF OFields
 <2> HIDE DEF q
 <2>2. \A p \in renewals' : \E o \in renewals :
         /\ p.lease = o.lease /\ p.generation = o.generation
         /\ p.report = o.report /\ p.granted = o.granted
   BY <1>1, <2>1 DEF q
 <2>3. LeaseStands(st, st') /\ StillDrawn(call, call)
   BY <1>2, SameLease, SameDrawn
 <2>4. QED BY <2>2, <2>3, ClaimsStand DEF BooksInv
<1>6. QED BY <1>1, <1>4, <1>5

(* What the ledger expects an answer to is what renewal r reported. *)
LEMMA OwnReport ==
  ASSUME BooksInv, NEW r \in renewals, AtOrigin(st, r)
  PROVE  /\ HasLease(st) /\ st.leaseId = r.lease /\ st.pendingReport = {r.report}
         /\ r.granted \in Nat
         /\ Spends(call, st, "granted") - r.granted <= st.spent - r.report.spent
<1>1. HasLease(st) /\ st.generation = r.generation /\ st.leaseId = r.lease
  BY AtOriginFacts DEF BooksInv, AtOrigin
<1>2. QED BY <1>1 DEF BooksInv, IInv, OwnedBy, Claims

LEMMA RenewalAppliedBooks ==
  ASSUME BooksInv, NEW r \in renewals, RenewalApplied(r)
  PROVE  Books(st', call', hist') /\ Claims(renewals', st', call')
<1>0. planeGen \in Nat /\ Books(st, call, hist) /\ DOMAIN st = StFields /\ DOMAIN hist = HFields
  BY LedgerAssumption DEF BooksInv, IInv, Good
<1>1. /\ AtOrigin(st, r) /\ renewals' = renewals \ {r}
      /\ planeGen' = planeGen + 1 /\ call' = call
  BY DEF RenewalApplied, Answered
<1>2. PICK lease \in Lease, terms \in Terms :
        /\ st' = Install(st, lease, planeGen', terms, r.chain)
        /\ hist' = [Acknowledged(r) EXCEPT
                     !.spend = IF lease = r.lease THEN @ + r.report.spent ELSE 0,
                     !.granted = IF lease = r.lease THEN r.granted ELSE 0,
                     !.shareBase = Used(st', "share"), !.shareGrant = terms.share]
  BY DEF RenewalApplied
<1> DEFINE p == r.report
           g == Since(st')
<1>3. /\ HasLease(st) /\ st.leaseId = r.lease /\ st.pendingReport = {p}
      /\ r.granted \in Nat /\ Spends(call, st, "granted") - r.granted <= st.spent - p.spent
  BY <1>1, OwnReport
<1>4. terms \in GrantTerms /\ p \in st.pendingReport
  BY <1>3, LedgerAssumption
<1>5. PICK u : Granted(st, u, lease, terms) /\ st' = SettlePendingReport(u)
 <2>1. \E u : /\ Granted(st, u, lease, terms)
              /\ Install(st, lease, planeGen', terms, r.chain) = SettlePendingReport(u)
   BY <1>0, InstallMoney
 <2>2. QED BY <1>2, <2>1
<1>6. Settled(u, st', p) /\ u.leaseId = lease
  BY <1>3, <1>5, SettleMoney DEF Granted
<1>7. /\ Tallies(g) /\ g.calls = hist.calls /\ g.tokens = hist.tokens /\ DOMAIN g = HFields
      /\ st'.incarnation = st.incarnation => g = hist
  BY <1>0, SinceTallies, SinceSaid DEF Books
<1>8. /\ hist'.spend = IF lease = r.lease THEN g.spend + p.spent ELSE 0
      /\ hist'.granted = IF lease = r.lease THEN r.granted ELSE 0
      /\ hist'.shareBase = Spends(call, st', "share") /\ hist'.shareGrant = terms.share
      /\ hist'.calls = hist.calls + p.calls /\ hist'.tokens = hist.tokens + p.tokens
 <2> DEFINE a == Acknowledged(r)
            us == Used(st', "share")
 <2>1. /\ DOMAIN a = HFields /\ a.spend = g.spend
       /\ a.calls = hist.calls + p.calls /\ a.tokens = hist.tokens + p.tokens
  <3> HIDE DEF g
  <3>1. a = [g EXCEPT !.calls = @ + p.calls, !.tokens = @ + p.tokens]  BY DEF Acknowledged, g
  <3> HIDE DEF a, p
  <3>2. QED BY <1>7, <3>1 DEF HFields
 <2>2. us = Spends(call, st', "share")  BY DEF Used, Spends
 <2> HIDE DEF a, g, us, p
 <2>3. hist' = [a EXCEPT !.spend = IF lease = r.lease THEN @ + p.spent ELSE 0,
                         !.granted = IF lease = r.lease THEN r.granted ELSE 0,
                         !.shareBase = us, !.shareGrant = terms.share]
   BY <1>2 DEF a, us, p
 <2>4. QED BY <2>1, <2>2, <2>3 DEF HFields
<1> HIDE DEF p, g
<1>9. Told(hist, hist', p)  BY <1>8 DEF Told
<1>10. /\ Owing(st', call, hist') /\ st'.uncountedCalls \in Nat /\ st'.uncountedTokens \in Nat
       /\ hist'.calls \in Nat /\ hist'.tokens \in Nat
  BY <1>0, <1>4, <1>5, <1>6, <1>9, SettledOwing DEF Granted
<1>11. Books(st', call, hist')
 <2>1. CASE lease = r.lease
  <3>1. Granted(st, u, st.leaseId, terms)  BY <1>3, <1>5, <2>1
  <3>2. st'.incarnation = st.incarnation /\ st'.leaseId = st.leaseId
    BY <1>3, <1>6, <2>1, <3>1 DEF Granted, Settled
  <3>3. hist'.spend = hist.spend + p.spent /\ hist'.granted = r.granted
    BY <1>7, <1>8, <2>1, <3>2
  <3>4. hist'.shareBase = Spends(call, st, "share")  BY <1>8, <3>2, SameSums
  <3>5. QED BY <1>0, <1>3, <1>4, <1>6, <1>8, <1>9, <3>1, <3>3, <3>4, CarriedBooks
 <2>2. CASE lease # r.lease
  <3>1. /\ DOMAIN st' = StFields /\ st'.incarnation = st.incarnation + 1
        /\ st'.grantedTokens = terms.granted /\ st'.grantedRemaining = terms.granted
        /\ st'.shareRemaining = terms.share /\ st'.pendingReport = {}
    BY <1>3, <1>4, <1>5, <1>6, <2>2 DEF Granted, Settled, GrantTerms
  <3>2. st'.spent = 0
   <4>1. p.spent \in Nat  BY <1>0, <1>4 DEF Books, Reported
   <4>2. Max({0, 0 - p.spent}) = 0  BY <4>1, MaxZero
   <4>3. QED BY <1>3, <1>5, <1>6, <2>2, <4>2 DEF Granted, Settled
  <3>3. Spends(call, st', "share") = 0
   <4>1. /\ Entries(call, st.incarnation) /\ st.incarnation \in Nat
         /\ st'.incarnation \in Nat /\ st'.incarnation > st.incarnation
     BY <1>0, <3>1 DEF Books, Numbers
   <4>2. QED BY <4>1, FreshSums
  <3>4. /\ hist'.spend = 0 /\ hist'.granted = 0 /\ hist'.shareBase = 0
        /\ hist'.shareGrant = terms.share
    BY <1>8, <2>2, <3>3
  <3>5. Tallies(hist')  BY <1>4, <1>10, <3>4 DEF Tallies, GrantTerms
  <3>6. QED BY <1>0, <1>4, <1>10, <3>1, <3>2, <3>4, <3>5, FreshBooks
 <2>3. QED BY <2>1, <2>2
<1>12. Claims(renewals', st', call)
 <2>1. st'.generation = planeGen + 1
  <3>1. Installs(st, st', lease, planeGen + 1, r.chain)  BY <1>0, <1>1, <1>2, InstallEffect
  <3>2. QED BY <3>1 DEF Installs
 <2>2. \A q \in renewals' : ~AtOrigin(st', q)
   BY <1>0, <1>1, <2>1 DEF AtOrigin, BooksInv, IInv, RenewalsOK
 <2>3. QED BY <2>2 DEF Claims
<1>13. QED BY <1>1, <1>11, <1>12

LEMMA RenewalRefusedBooks ==
  ASSUME BooksInv, NEW r \in renewals, RenewalRefused(r)
  PROVE  Books(st', call', hist') /\ Claims(renewals', st', call')
<1> DEFINE s == SettlePendingReport(st)
           t == DropLease(s)
           p == r.report
           g == Since(st')
<1>0. Books(st, call, hist) /\ DOMAIN st = StFields /\ DOMAIN hist = HFields
  BY DEF BooksInv, IInv, Good
<1>1. /\ AtOrigin(st, r) /\ call' = call /\ hist' = Acknowledged(r)
      /\ st' = [t EXCEPT !.refusedModels = @ \cup r.added, !.latch = "waiting",
                         !.releasePending = lastRelease']
  BY DEF RenewalRefused, Answered, RefuseRenewal
<1>2. st.pendingReport = {p}  BY <1>1, OwnReport
<1>3. Settled(st, s, p)  BY <1>0, <1>2, SettleMoney
<1> HIDE DEF s
<1>4. Ends(s, t)  BY <1>3, DropMoney DEF Settled
<1> HIDE DEF t
<1>5. Ends(s, st')  BY <1>1, <1>4 DEF Ends, StFields
<1>6. /\ Tallies(g) /\ g.calls = hist.calls /\ g.tokens = hist.tokens /\ DOMAIN g = HFields
  BY <1>0, SinceTallies, SinceSaid DEF Books
<1> HIDE DEF g
<1>7. /\ hist'.calls = hist.calls + p.calls /\ hist'.tokens = hist.tokens + p.tokens
      /\ hist'.spend = g.spend /\ hist'.granted = g.granted
      /\ hist'.shareBase = g.shareBase /\ hist'.shareGrant = g.shareGrant
 <2>1. hist' = [g EXCEPT !.calls = @ + p.calls, !.tokens = @ + p.tokens]
   BY <1>1 DEF Acknowledged, g
 <2> HIDE DEF p
 <2>2. QED BY <1>6, <2>1 DEF HFields
<1>8. /\ Owing(s, call, hist') /\ s.uncountedCalls \in Nat /\ s.uncountedTokens \in Nat
      /\ hist'.calls \in Nat /\ hist'.tokens \in Nat
 <2>1. Told(hist, hist', p) /\ p \in st.pendingReport
   BY <1>2, <1>7 DEF Told
 <2> HIDE DEF p
 <2>2. QED BY <1>0, <1>3, <2>1, SettledOwing
<1>9. Tallies(hist')  BY <1>6, <1>7, <1>8 DEF Tallies
<1>10. /\ DOMAIN st' = StFields /\ ~HasLease(st') /\ st'.pendingReport = {}
       /\ st'.incarnation = st.incarnation + 1 /\ st'.grantedTokens = 0
       /\ st'.grantedRemaining = 0 /\ st'.shareRemaining = 0 /\ st'.spent = 0
       /\ st'.uncountedCalls = s.uncountedCalls /\ st'.uncountedTokens = s.uncountedTokens
  BY <1>3, <1>5 DEF Ends, Settled, HasLease
<1>11. Numbers(st') /\ Reported(st') /\ Balanced(st', call, hist') /\ Owing(st', call, hist')
  BY <1>0, <1>8, <1>10 DEF Books, Numbers, Reported, Balanced, Owing
<1>12. Entries(call, st'.incarnation) /\ DOMAIN call = Call
  BY <1>0, <1>10, EntriesLater DEF Books, Numbers
<1>13. Books(st', call, hist')  BY <1>9, <1>10, <1>11, <1>12 DEF Books
<1>14. Claims(renewals', st', call)  BY <1>10 DEF Claims
<1>15. QED BY <1>1, <1>13, <1>14

LEMMA RenewalOutdatedBooks ==
  ASSUME BooksInv, NEW r \in renewals, RenewalOutdated(r)
  PROVE  Books(st', call', hist') /\ Claims(renewals', st', call')
BY DEF RenewalOutdated, Answered, BooksInv, Claims

-----------------------------------------------------------------------------
(* Releases, settlement and deadlines. *)

LEMMA QuietBooks ==
  ASSUME BooksInv, SameMoney(st, st'), call' = call, hist' = hist, renewals' = renewals
  PROVE  Books(st', call', hist') /\ Claims(renewals', st', call')
<1>1. Books(st', call, hist)  BY SameBooks DEF BooksInv
<1>2. Claims(renewals, st', call)  BY SameLease, FewerClaims, SameDrawn
<1>3. QED BY <1>1, <1>2

LEMMA ReleaseDoneBooks ==
  ASSUME BooksInv, NEW token \in releases, ReleaseDone(token)
  PROVE  Books(st', call', hist') /\ Claims(renewals', st', call')
<1>1. PICK sent \in BOOLEAN : st' = ResolveRelease(st, token, sent)
  BY DEF ReleaseDone
<1>2. DOMAIN st = StFields  BY DEF BooksInv, IInv, Good
<1>3. SameMoney(st, st')
 <2> DEFINE x == IF sent THEN "none" ELSE st.latch
 <2>1. st' = [st EXCEPT !.releasePending = NoRelease, !.latch = x] \/ st' = st
   BY <1>1 DEF ResolveRelease
 <2> HIDE DEF x
 <2>2. QED BY <1>2, <2>1 DEF SameMoney, StFields
<1>4. QED BY <1>3, QuietBooks DEF ReleaseDone

LEMMA ClockBooks ==
  ASSUME BooksInv, Clock
  PROVE  Books(st', call', hist') /\ Claims(renewals', st', call')
<1>1. DOMAIN st = StFields  BY DEF BooksInv, IInv, Good
<1>2. SameMoney(st, st')  BY <1>1 DEF Clock, Deadline, SameMoney, StFields
<1>3. QED BY <1>2, QuietBooks DEF Clock

LEMMA AgeInBooks ==
  ASSUME BooksInv, NEW c \in Call, Age(c)
  PROVE  Books(st', call', hist') /\ Claims(renewals', st', call')
<1>1. /\ call[c].phase = "reserved" /\ DOMAIN call = Call /\ DOMAIN call[c] = CFields
      /\ call' = [call EXCEPT ![c] = [call[c] EXCEPT !.phase = "aged"]]
      /\ st' = st /\ hist' = hist /\ renewals' = renewals
  BY DEF Age, BooksInv, IInv, CallsOK
<1>2. Books(st, call', hist)  BY <1>1, AgeBooks DEF BooksInv
<1>3. StillDrawn(call, call')  BY <1>1 DEF StillDrawn, Drawn, CFields
<1>4. LeaseStands(st, st')  BY <1>1 DEF LeaseStands
<1>5. QED BY <1>1, <1>2, <1>3, <1>4, FewerClaims

LEMMA TrueUpInBooks ==
  ASSUME BooksInv, NEW c \in Call, TrueUp(c)
  PROVE  Books(st', call', hist') /\ Claims(renewals', st', call')
<1>0. /\ Books(st, call, hist) /\ DOMAIN st = StFields /\ DOMAIN call = Call
      /\ DOMAIN call[c] = CFields
  BY DEF BooksInv, IInv, Good, CallsOK
<1>1. PICK used \in Actuals \cup {call[c].tokens} :
       /\ st' = Settle(c, used)
       /\ call' = [call EXCEPT ![c] =
                     IF Belongs(st, call[c]) THEN [call[c] EXCEPT !.phase = "done", !.tokens = used]
                                             ELSE Over]
  BY DEF TrueUp
<1>2. /\ call[c].phase \in {"reserved", "aged", "swept"} /\ hist' = hist /\ renewals' = renewals
      /\ Entry(call[c], st.incarnation) /\ call[c].pool \in {"granted", "share"}
      /\ used \in Nat /\ call[c].tokens \in Nat
  BY <1>0, LedgerAssumption DEF TrueUp, Reserving, Books, Entries, Entry
<1>3. CASE ~Belongs(st, call[c])
 <2>1. st' = st /\ call' = [call EXCEPT ![c] = Over]
   BY <1>1, <1>3 DEF Settle
 <2>2. Books(st, call', hist)  BY <1>0, <1>2, <1>3, <2>1, StrangerBooks
 <2>3. StillDrawn(call, call')  BY <1>0, <1>2, <2>1 DEF StillDrawn, Drawn, Over, NewCall
 <2>4. LeaseStands(st, st')  BY <2>1 DEF LeaseStands
 <2>5. QED BY <1>2, <2>1, <2>2, <2>3, <2>4, FewerClaims
<1>4. CASE Belongs(st, call[c])
 <2> DEFINE k == call[c]
            n == IF k.phase = "swept" THEN 0 - used ELSE k.tokens - used
            t == Credit(st, k.pool, n)
            x == [k EXCEPT !.phase = "done", !.tokens = used]
 <2>1. st' = [t EXCEPT !.spent = @ + used] /\ call' = [call EXCEPT ![c] = x]
   BY <1>1, <1>4 DEF Settle
 <2>2. n \in Int  BY <1>2
 <2>3. Draws(st, t, k.pool, 0 - n)
  <3>1. 0 - n \in Int /\ 0 - (0 - n) = n
    BY <2>2
  <3>2. st.grantedRemaining \in Int /\ st.shareRemaining \in Int
    BY <1>0 DEF Books, Numbers
  <3> HIDE DEF n
  <3>3. Draws(st, Credit(st, k.pool, 0 - (0 - n)), k.pool, 0 - n)
    BY <1>0, <1>2, <3>1, <3>2, CreditMoney
  <3>4. QED BY <3>1, <3>3
 <2> HIDE DEF t
 <2>4. /\ DOMAIN st' = StFields /\ st'.leaseId = st.leaseId /\ st'.generation = st.generation
       /\ st'.incarnation = st.incarnation /\ st'.grantedTokens = st.grantedTokens
       /\ st'.grantedRemaining = t.grantedRemaining /\ st'.shareRemaining = t.shareRemaining
       /\ st'.uncountedCalls = st.uncountedCalls /\ st'.uncountedTokens = st.uncountedTokens
       /\ st'.pendingReport = st.pendingReport /\ st'.spent = st.spent + used
  <3> HIDE DEF n
  <3>1. QED BY <2>1, <2>3 DEF Draws, StFields
 <2>5. LeaseSettles(st, st', k, used)
  <3>1. st.grantedRemaining \in Int /\ st.shareRemaining \in Int
    BY <1>0 DEF Books, Numbers
  <3>2. CASE k.pool = "granted"
    BY <1>2, <2>3, <2>4, <3>1, <3>2 DEF LeaseSettles, Draws
  <3>3. CASE k.pool = "share"
    BY <1>2, <2>3, <2>4, <3>1, <3>3 DEF LeaseSettles, Draws
  <3>4. QED BY <1>2, <3>2, <3>3
 <2>6. Books(st', call', hist)  BY <1>0, <1>2, <1>4, <2>1, <2>5, TrueUpBooks
 <2>7. ASSUME NEW r \in renewals, HasLease(st'), AtOrigin(st', r)
       PROVE  /\ r.granted \in Nat
              /\ Spends(call', st', "granted") - r.granted <= st'.spent - r.report.spent
  <3>1. AtOrigin(st, r) /\ HasLease(st)
    BY <2>4, <2>7 DEF AtOrigin, HasLease
  <3>2. /\ r.granted \in Nat /\ st.pendingReport = {r.report}
        /\ Spends(call, st, "granted") - r.granted <= st.spent - r.report.spent
    BY <3>1, OwnReport
  <3>3. r.report.spent \in Nat /\ st.spent \in Nat
    BY <1>0, <3>2 DEF Books, Reported, Numbers
  <3>4. /\ DOMAIN x = CFields /\ x.phase = "done" /\ x.tokens = used /\ x.pool = k.pool
        /\ x.lease = k.lease /\ x.incarnation = k.incarnation
    BY <1>0 DEF CFields
  <3> HIDE DEF x
  <3>5. Rewrites(call, call', st, st', c) /\ call'[c] = x
    BY <1>0, <1>2, <2>1, <2>4, <3>4 DEF Rewrites, Books, Entries
  <3>6. /\ Spends(call, st, "granted") \in Nat
        /\ Spends(call', st', "granted") = Spends(call, st, "granted")
             - Part(st, k, {"done"}, "granted") + Part(st', x, {"done"}, "granted")
    BY <3>5, TokensMove DEF Spends
  <3>7. /\ Part(st, k, {"done"}, "granted") = 0
        /\ Part(st', x, {"done"}, "granted") \in Nat /\ Part(st', x, {"done"}, "granted") <= used
    BY <1>2, <3>4 DEF Part
  <3>8. QED BY <1>2, <2>4, <3>2, <3>3, <3>6, <3>7
 <2>8. QED BY <1>2, <2>6, <2>7 DEF Claims
<1>5. QED BY <1>3, <1>4

LEMMA ReleaseInBooks ==
  ASSUME BooksInv, NEW c \in Call, Release(c)
  PROVE  Books(st', call', hist') /\ Claims(renewals', st', call')
<1>0. /\ Books(st, call, hist) /\ DOMAIN st = StFields /\ DOMAIN call = Call
      /\ st.grantedRemaining \in Int /\ st.shareRemaining \in Int
  BY DEF BooksInv, IInv, Good, CallsOK, Books, Numbers
<1> DEFINE k == call[c]
<1>1. /\ st' = IF Belongs(st, k) /\ k.phase # "swept" THEN Credit(st, k.pool, k.tokens) ELSE st
      /\ call' = [call EXCEPT ![c] = Over]
      /\ hist' = hist /\ renewals' = renewals /\ k.phase \in {"reserved", "aged", "swept"}
  BY DEF Release, Reserving
<1>2. k.pool \in {"granted", "share"} /\ k.tokens \in Nat
  BY <1>0, <1>1 DEF Books, Entries, Entry
<1>3. StillDrawn(call, call')  BY <1>0, <1>1 DEF StillDrawn, Drawn, Over, NewCall
<1>4. CASE ~Belongs(st, k)
 <2>1. st' = st /\ Books(st, call', hist)
   BY <1>0, <1>1, <1>2, <1>4, StrangerBooks
 <2>2. LeaseStands(st, st')  BY <2>1 DEF LeaseStands
 <2>3. QED BY <1>1, <1>3, <2>1, <2>2, FewerClaims
<1>5. CASE Belongs(st, k)
 <2> DEFINE back == IF k.phase = "swept" THEN 0 ELSE k.tokens
 <2>1. Draws(st, st', k.pool, 0 - back)
  <3>1. CASE k.phase = "swept"
   <4>1. st' = st /\ back = 0
     BY <1>1, <3>1
   <4>2. QED BY <1>0, <4>1 DEF Draws
  <3>2. CASE k.phase # "swept"
   <4>1. 0 - k.tokens \in Int /\ 0 - (0 - k.tokens) = k.tokens
     BY <1>2
   <4>2. st' = Credit(st, k.pool, k.tokens) /\ back = k.tokens
     BY <1>1, <1>5, <3>2
   <4> HIDE DEF back
   <4>3. Draws(st, Credit(st, k.pool, 0 - (0 - k.tokens)), k.pool, 0 - k.tokens)
     BY <1>0, <1>2, <4>1, CreditMoney
   <4>4. QED BY <4>1, <4>2, <4>3
  <3>3. QED BY <3>1, <3>2
 <2>2. Returns(st, st', k)  BY <2>1 DEF Returns
 <2>3. Books(st', call', hist)  BY <1>0, <1>1, <1>5, <2>2, ReleaseBooks
 <2>4. LeaseStands(st, st')  BY <2>1 DEF LeaseStands, Draws
 <2>5. QED BY <1>1, <1>3, <2>3, <2>4, FewerClaims
<1>6. QED BY <1>4, <1>5

-----------------------------------------------------------------------------
(* The books of every reachable state agree. *)

LEMMA BooksInit ==
  ASSUME Init
  PROVE  BooksInv
<1>1. IInv  BY InitInv
<1>2. DOMAIN st = StFields /\ ~HasLease(st) /\ Numbers(st) /\ Reported(st)
  BY DEF Init, FreshState, StFields, HasLease, Numbers, Reported
<1>3. \A c \in Call : call[c].pool = "none" /\ Entry(call[c], 0)
 <2>1. Entry(NewCall, 0) /\ NewCall.pool = "none"
   BY DEF NewCall, Entry, CFields
 <2>2. QED BY <2>1 DEF Init
<1>4. Held(call) = {} /\ Uncounting(call) = {} /\ Pairs(call, {}) = {}
  BY <1>3 DEF Held, Uncounting, Pairs
<1>5. /\ IsFiniteSet({}) /\ Cardinality({}) = 0 /\ Sum(call, {}) = 0
  BY FS_EmptySet, SumEmpty
<1>6. Entries(call, st.incarnation)  BY <1>3, <1>4, <1>5 DEF Entries, Init, FreshState
<1>7. Tallies(hist) /\ Owing(st, call, hist)
 <2>1. /\ Tallies(hist)
       /\ hist.calls = 0 /\ hist.tokens = 0 /\ st.uncountedCalls = 0 /\ st.uncountedTokens = 0
   BY DEF Tallies, Init, FreshState
 <2>2. Cardinality(Uncounting(call)) = 0 /\ Sum(call, Uncounting(call)) = 0
   BY <1>4, <1>5
 <2>3. QED BY <2>1, <2>2 DEF Owing
<1>8. Books(st, call, hist)  BY <1>2, <1>6, <1>7 DEF Books, Balanced, Init
<1>9. Claims(renewals, st, call)  BY DEF Init, Claims
<1>10. QED BY <1>1, <1>8, <1>9 DEF BooksInv

(* What a call's handler reserves is covered, and no other action reserves. *)
LEMMA CallBooks ==
  ASSUME BooksInv, NEW c \in Call, CallStep(c)
  PROVE  /\ Books(st', call', hist') /\ Claims(renewals', st', call')
         /\ \A b \in Call : call'[b].phase = "reserved" /\ call[b].phase # "reserved" =>
                              Bounded(st', call'[b].pool)
<1>1. CASE Check(c) \/ CheckAnswered(c) \/ GrantWithheld(c) \/ GrantLatched(c)
 <2>1. Posts(st, hist) /\ hist' = Since(st')
   BY <1>1, CheckPosts, CheckAnsweredPosts, GrantWithheldPosts, GrantLatchedPosts
      DEF Check, CheckAnswered, GrantWithheld, GrantLatched
 <2>2. QED BY <2>1, PostsBooks DEF Posts
<1>2. CASE GrantApplied(c)
  BY <1>2, GrantAppliedPosts
<1>3. CASE TrueUp(c) \/ Release(c) \/ Age(c)
 <2>1. Books(st', call', hist') /\ Claims(renewals', st', call')
   BY <1>3, TrueUpInBooks, ReleaseInBooks, AgeInBooks
 <2>2. /\ DOMAIN call = Call /\ DOMAIN call[c] = CFields
   BY DEF BooksInv, IInv, CallsOK
 <2>3. \A b \in Call : call'[b].phase = "reserved" => call[b].phase = "reserved"
  <3>1. CASE TrueUp(c)
   <4>1. PICK used : call' = [call EXCEPT ![c] =
                       IF Belongs(st, call[c]) THEN [call[c] EXCEPT !.phase = "done", !.tokens = used]
                                               ELSE Over]
     BY <3>1 DEF TrueUp
   <4>2. call'[c].phase = "done" /\ \A b \in Call \ {c} : call'[b] = call[b]
     BY <2>2, <4>1 DEF Over, NewCall, CFields
   <4>3. QED BY <4>2
  <3>2. CASE Release(c)
    BY <2>2, <3>2 DEF Release, Over, NewCall
  <3>3. CASE Age(c)
    BY <2>2, <3>3 DEF Age, CFields
  <3>4. QED BY <1>3, <3>1, <3>2, <3>3
 <2>4. QED BY <2>1, <2>3
<1>4. QED BY <1>1, <1>2, <1>3 DEF CallStep

LEMMA RenewalBooks ==
  ASSUME BooksInv, NEW r \in renewals, RenewalStep(r)
  PROVE  Books(st', call', hist') /\ Claims(renewals', st', call') /\ call' = call
<1>1. Books(st', call', hist') /\ Claims(renewals', st', call')
  BY SkipRenewalBooks, SendRenewalBooks, RenewalWithheldBooks, RenewalAppliedBooks,
     RenewalRefusedBooks, RenewalOutdatedBooks DEF RenewalStep
<1>2. call' = call
  BY DEF RenewalStep, SkipRenewal, SendRenewal, RenewalWithheld, RenewalApplied,
         RenewalRefused, RenewalOutdated
<1>3. QED BY <1>1, <1>2

LEMMA BooksNext ==
  ASSUME BooksInv, [Next]_vars
  PROVE  /\ BooksInv'
         /\ \A b \in Call : call'[b].phase = "reserved" /\ call[b].phase # "reserved" =>
                              Bounded(st', call'[b].pool)
<1>1. IInv'  BY NextInv DEF BooksInv
<1>2. /\ Books(st', call', hist') /\ Claims(renewals', st', call')
      /\ \A b \in Call : call'[b].phase = "reserved" /\ call[b].phase # "reserved" =>
                           Bounded(st', call'[b].pool)
 <2>1. CASE \E c \in Call : CallStep(c)
   BY <2>1, CallBooks
 <2>2. CASE \E r \in renewals : RenewalStep(r)
   BY <2>2, RenewalBooks
 <2>3. CASE \E token \in releases : ReleaseDone(token)
  <3>1. call' = call  BY <2>3 DEF ReleaseDone
  <3>2. QED BY <2>3, <3>1, ReleaseDoneBooks
 <2>4. CASE Clock
  <3>1. call' = call  BY <2>4 DEF Clock
  <3>2. QED BY <2>4, <3>1, ClockBooks
 <2>5. CASE UNCHANGED vars
   BY <2>5 DEF vars, BooksInv
 <2>6. QED BY <2>1, <2>2, <2>3, <2>4, <2>5 DEF Next
<1>3. QED BY <1>1, <1>2 DEF BooksInv

(* However calls, sweeps, renewals and drops interleave, the pools of a lease   *)
(* account for every call made under it, every token used is reported once, and *)
(* every uncounted call is owed to the plane until an answer acknowledged it    *)
(* (trueUp, release, sweep, applyGrantResponse, settlePendingReport).           *)
THEOREM BooksStayBalanced == Spec => []BooksBalance
<1>1. Init => BooksInv  BY BooksInit
<1>2. BooksInv /\ [Next]_vars => BooksInv'
  BY BooksNext
<1>3. BooksInv => BooksBalance
 <2>1. SUFFICES ASSUME BooksInv
                PROVE  PoolsBalance /\ ReportsAccounted
   BY DEF BooksBalance
 <2>2. Books(st, call, hist)  BY <2>1 DEF BooksInv
 <2>3. ASSUME HasLease(st)
       PROVE  Level(st, hist, Live(st, "granted"), Used(st, "granted"),
                              Live(st, "share"), Used(st, "share"))
   BY <2>2, <2>3 DEF Books, Balanced, Live, Used, Holds, Spends
 <2>4. PoolsBalance  BY <2>3 DEF PoolsBalance, Level
 <2>5. ReportsAccounted  BY <2>2, <2>3 DEF ReportsAccounted, Books, Owing, Uncounting, Level
 <2>6. QED BY <2>4, <2>5
<1>4. QED BY <1>1, <1>2, <1>3, PTL DEF Spec

(* Whatever was admitted before, an admission under hard_deny never takes a pool *)
(* past what the plane granted (admit, and the floor of the share).              *)
THEOREM HardDenyHolds == Spec => HardDenyBound
<1>1. Init => BooksInv  BY BooksInit
<1>2. BooksInv /\ [Next]_vars => BooksInv'
  BY BooksNext
<1>3. ASSUME BooksInv, [Next]_vars
      PROVE  \A c \in Call :
        /\ call[c].phase # "reserved" /\ call'[c].phase = "reserved"
        /\ st'.postureMode = "hard_deny"
        => /\ call'[c].pool = "granted" =>
                Live(st, "granted")' + (Used(st, "granted")' - hist'.granted) <= st'.grantedTokens
           /\ call'[c].pool = "share" =>
                Live(st, "share")' + (Used(st, "share")' - hist'.shareBase) <= hist'.shareGrant
 <2>1. Books(st', call', hist')  BY <1>3, BooksNext DEF BooksInv
 <2> DEFINE hg == Holds(call', st', "granted")
            ug == Spends(call', st', "granted")
            hs == Holds(call', st', "share")
            us == Spends(call', st', "share")
 <2>2. hg \in Nat /\ ug \in Nat /\ hs \in Nat /\ us \in Nat
   BY <2>1, SumsType DEF Books
 <2>3. /\ Live(st, "granted")' = hg /\ Used(st, "granted")' = ug
       /\ Live(st, "share")' = hs /\ Used(st, "share")' = us
   BY DEF Live, Used, Holds, Spends, Tokens, Sum, Of, Belongs
 <2>4. HasLease(st') => Level(st', hist', hg, ug, hs, us)  BY <2>1 DEF Books, Balanced
 <2>5. Numbers(st') /\ Tallies(hist')
   BY <2>1 DEF Books
 <2> HIDE DEF hg, ug, hs, us
 <2>6. SUFFICES ASSUME NEW c \in Call,
                       call[c].phase # "reserved", call'[c].phase = "reserved",
                       st'.postureMode = "hard_deny"
                PROVE  /\ call'[c].pool = "granted" => hg + (ug - hist'.granted) <= st'.grantedTokens
                       /\ call'[c].pool = "share" => hs + (us - hist'.shareBase) <= hist'.shareGrant
   BY <2>3
 <2>7. Bounded(st', call'[c].pool)  BY <1>3, <2>6, BooksNext
 <2>8. Level(st', hist', hg, ug, hs, us)  BY <2>4, <2>7 DEF Bounded
 <2>9. ASSUME call'[c].pool = "granted"
       PROVE  hg + (ug - hist'.granted) <= st'.grantedTokens
  <3>1. st'.grantedRemaining >= 0  BY <2>7, <2>9 DEF Bounded
  <3>2. QED BY <2>2, <2>5, <2>8, <3>1 DEF Level, Numbers, Tallies
 <2>10. ASSUME call'[c].pool = "share"
        PROVE  hs + (us - hist'.shareBase) <= hist'.shareGrant
  <3>1. st'.shareRemaining >= 0  BY <2>6, <2>7, <2>10 DEF Bounded
  <3>2. QED BY <2>2, <2>5, <2>8, <3>1 DEF Level, Numbers, Tallies
 <2>11. QED BY <2>9, <2>10
<1>4. QED BY <1>1, <1>2, <1>3, PTL DEF Spec, HardDenyBound

-----------------------------------------------------------------------------
(* The scopes of runs, a workflow and a chain of them. *)

(* The library is one, whichever module takes it. *)
LEMMA ScopesCount == \A S : Scopes!Cardinality(S) = Cardinality(S)
BY DEF Scopes!Cardinality, Cardinality

LEMMA AgentsCount == \A S : Agents!Cardinality(S) = Cardinality(S)
BY Zenon DEF Agents!Cardinality, Cardinality

FrameSet == [kind : {"scope", "activation", "outside", "callback"}, run : Scopes!Frames \cup {Scopes!None},
             chain : Seq(Scopes!Frames), pinned : BOOLEAN, resource : Resource \cup {Scopes!None}]

(* A context is a chain of runs that exist, none of them inside itself. *)
ChainOk(c, exist) == c \in Seq(exist) /\ Scopes!IsInjective(c)

(* A frame of a run is in its run; a callback is the outermost frame, in its resource's context. *)
FrameOk(i, f, res) ==
  /\ f.kind \in {"scope", "activation"} =>
       f.run \in Scopes!Frames /\ f.chain # <<>> /\ f.chain[Len(f.chain)] = f.run
  /\ f.kind = "activation" => f.run \in Handle
  /\ f.kind = "outside" => f.run = Scopes!None /\ f.chain = <<>>
  /\ f.kind = "callback" => i = 1 /\ f.run = Scopes!None /\ f.resource \in Resource
  /\ f.kind = "callback" => res[f.resource].state = "running" /\ f.chain = res[f.resource].chain

FramesOk(s, res, exist) ==
  /\ s \in Seq(FrameSet)
  /\ \A i \in DOMAIN s : ChainOk(s[i].chain, exist) /\ FrameOk(i, s[i], res)

(* The pinned runs are those of the frames, and the lowest frame of a run unpins it. *)
PinsOk(s, pins) ==
  /\ pins \subseteq Scopes!Frames
  /\ \A r \in Scopes!Frames : r \in pins <=> \E i \in DOMAIN s : s[i].run = r
  /\ \A i \in DOMAIN s :
       s[i].run # Scopes!None => (s[i].pinned <=> \E j \in DOMAIN s : j < i /\ s[j].run = s[i].run)

(* A resource that is not resolved owns the run it was created in. *)
ResourcesOk(res, exist, o) ==
  /\ DOMAIN res = Resource
  /\ \A a \in Resource :
       /\ DOMAIN res[a] = {"state", "chain", "owner"}
       /\ ChainOk(res[a].chain, exist)
       /\ res[a].owner # Scopes!None => res[a].owner \in o.registered \ o.collected
       /\ res[a].state \in {"pending", "running"} /\ res[a].chain # <<>> =>
            res[a].owner = res[a].chain[Len(res[a].chain)]

(* The hook is enabled while a token is live. *)
OwnersOk(o, exist, pins, on) ==
  /\ DOMAIN o = {"registered", "collected", "counted"}
  /\ o.counted \subseteq o.collected /\ o.collected \subseteq o.registered
  /\ o.registered \subseteq exist /\ IsFiniteSet(o.registered)
  /\ pins \subseteq o.registered \ o.collected
  /\ Cardinality(o.registered) > Cardinality(o.counted) => on

Executing(h, s) == {i \in DOMAIN s : s[i].kind = "activation" /\ s[i].run = h}

(* A handle counts the activations that execute and those it waits for. *)
HandleOk(h, x, s, exist, o) ==
  /\ DOMAIN x = {"active", "waiting", "stale", "finished", "owned"}
  /\ x.waiting \in Nat
  /\ x.active = Cardinality(Executing(h, s)) + x.waiting
  /\ x.owned => h \in exist \ o.collected
  /\ x.finished => x.active = 0

HandlesOk(hs, s, exist, o) ==
  /\ DOMAIN hs = Handle
  /\ \A h \in Handle : HandleOk(h, hs[h], s, exist, o)

ScopeInv ==
  /\ born \subseteq Scopes!Frames
  /\ FramesOk(stack, resource, born)
  /\ PinsOk(stack, synchronous)
  /\ ResourcesOk(resource, born, owners)
  /\ OwnersOk(owners, born, synchronous, hook)
  /\ HandlesOk(handle, stack, born, owners)

-----------------------------------------------------------------------------

LEMMA ScopeInit == ASSUME Scopes!Init PROVE ScopeInv
<1>1. born \subseteq Scopes!Frames /\ stack = <<>> /\ DOMAIN stack = {}
  BY DEF Scopes!Init
<1>2. FramesOk(stack, resource, born)  BY <1>1 DEF FramesOk
<1>3. PinsOk(stack, synchronous)  BY <1>1 DEF Scopes!Init, PinsOk
<1>4. ResourcesOk(resource, born, owners)
 <2>1. DOMAIN resource = Resource  BY DEF Scopes!Init
 <2>2. ASSUME NEW a \in Resource
       PROVE  /\ DOMAIN resource[a] = {"state", "chain", "owner"}
              /\ resource[a].state = "unused" /\ resource[a].chain = <<>> /\ resource[a].owner = Scopes!None
   BY DEF Scopes!Init
 <2>3. ChainOk(<<>>, born)  BY DEF ChainOk, Scopes!IsInjective
 <2>4. QED BY <2>1, <2>2, <2>3 DEF ResourcesOk
<1>5. OwnersOk(owners, born, synchronous, hook)  BY FS_EmptySet DEF Scopes!Init, OwnersOk
<1>6. HandlesOk(handle, stack, born, owners)
 <2>1. \A h \in Handle : Executing(h, stack) = {}
   BY <1>1 DEF Executing
 <2>2. QED
  <3>1. DOMAIN handle = Handle  BY DEF Scopes!Init
  <3>2. \A h \in Handle : /\ DOMAIN handle[h] = {"active", "waiting", "stale", "finished", "owned"}
                          /\ handle[h].active = 0 /\ handle[h].waiting = 0 /\ ~handle[h].owned
    BY DEF Scopes!Init
  <3>3. \A h \in Handle : Cardinality(Executing(h, stack)) = 0
    BY <2>1, FS_EmptySet
  <3>4. QED BY <3>1, <3>2, <3>3 DEF HandlesOk, HandleOk
<1>7. QED BY <1>1, <1>2, <1>3, <1>4, <1>5, <1>6 DEF ScopeInv

(* A push and a pop leave the frames below. *)
LEMMA AppendIs ==
  ASSUME NEW S, NEW s \in Seq(S), NEW f \in S
  PROVE  /\ Append(s, f) \in Seq(S)
         /\ Len(s) \in Nat /\ DOMAIN s = 1..Len(s)
         /\ DOMAIN Append(s, f) = 1..(Len(s) + 1)
         /\ \A i \in DOMAIN s : Append(s, f)[i] = s[i]
         /\ Append(s, f)[Len(s) + 1] = f
OBVIOUS

LEMMA FrontIs ==
  ASSUME NEW S, NEW s \in Seq(S), s # <<>>
  PROVE  /\ Scopes!Front(s) \in Seq(S)
         /\ Len(s) \in Nat \ {0} /\ DOMAIN s = 1..Len(s) /\ Len(s) \in DOMAIN s
         /\ DOMAIN Scopes!Front(s) = 1..(Len(s) - 1)
         /\ \A i \in DOMAIN Scopes!Front(s) : Scopes!Front(s)[i] = s[i]
BY DEF Scopes!Front

LEMMA ExtendedChain ==
  ASSUME NEW b, NEW c, ChainOk(c, b), NEW d, b \subseteq d, NEW r \in d, \A i \in DOMAIN c : c[i] # r
  PROVE  /\ ChainOk(Append(c, r), d)
         /\ Append(c, r) # <<>> /\ Append(c, r)[Len(Append(c, r))] = r
<1>1. c \in Seq(d)  BY DEF ChainOk
<1>2. /\ Append(c, r) \in Seq(d)
      /\ Len(c) \in Nat /\ DOMAIN c = 1..Len(c)
      /\ DOMAIN Append(c, r) = 1..(Len(c) + 1)
      /\ \A i \in DOMAIN c : Append(c, r)[i] = c[i]
      /\ Append(c, r)[Len(c) + 1] = r
  BY <1>1, AppendIs
<1>3. \A i, j \in DOMAIN c : c[i] = c[j] => i = j
  BY DEF ChainOk, Scopes!IsInjective
<1>4. \A i, j \in DOMAIN Append(c, r) : Append(c, r)[i] = Append(c, r)[j] => i = j
  BY <1>2, <1>3
<1>5. Scopes!IsInjective(Append(c, r))  BY <1>4 DEF Scopes!IsInjective
<1>6. Append(c, r) # <<>> /\ Append(c, r)[Len(Append(c, r))] = r
  BY <1>1, <1>2
<1>7. QED BY <1>2, <1>5, <1>6 DEF ChainOk

LEMMA ChainsKept ==
  ASSUME NEW b, NEW c, ChainOk(c, b), NEW d, b \subseteq d
  PROVE  ChainOk(c, d)
BY DEF ChainOk

(* The context of the executing code is a chain, and the top frame's. *)
LEMMA ContextIs ==
  ASSUME ScopeInv
  PROVE  /\ ChainOk(Scopes!Context, born)
         /\ stack # <<>> => Len(stack) \in DOMAIN stack /\ Scopes!Context = stack[Len(stack)].chain
<1>1. stack \in Seq(FrameSet) /\ \A i \in DOMAIN stack : ChainOk(stack[i].chain, born)
  BY DEF ScopeInv, FramesOk
<1>2. stack # <<>> => Len(stack) \in DOMAIN stack  BY <1>1
<1>3. CASE stack = <<>>
  BY <1>3 DEF Scopes!Context, ChainOk, Scopes!IsInjective
<1>4. CASE stack # <<>>
  BY <1>1, <1>2, <1>4 DEF Scopes!Context
<1>5. QED BY <1>3, <1>4

LEMMA FramesPushed ==
  ASSUME NEW s, NEW res, NEW b, FramesOk(s, res, b), NEW d, b \subseteq d, NEW f \in FrameSet,
         ChainOk(f.chain, d), FrameOk(Len(s) + 1, f, res)
  PROVE  FramesOk(Append(s, f), res, d)
<1>1. s \in Seq(FrameSet) /\ \A i \in DOMAIN s : ChainOk(s[i].chain, b) /\ FrameOk(i, s[i], res)
  BY DEF FramesOk
<1>2. /\ Append(s, f) \in Seq(FrameSet)
      /\ Len(s) \in Nat /\ DOMAIN s = 1..Len(s)
      /\ DOMAIN Append(s, f) = 1..(Len(s) + 1)
      /\ \A i \in DOMAIN s : Append(s, f)[i] = s[i]
      /\ Append(s, f)[Len(s) + 1] = f
  BY <1>1, AppendIs
<1>3. \A i \in DOMAIN s : ChainOk(s[i].chain, d)
  BY <1>1, ChainsKept
<1>4. \A i \in DOMAIN Append(s, f) : i \in DOMAIN s \/ i = Len(s) + 1
  BY <1>2
<1>5. QED BY <1>1, <1>2, <1>3, <1>4 DEF FramesOk

LEMMA FramesPopped ==
  ASSUME NEW s, NEW res, NEW b, FramesOk(s, res, b), s # <<>>
  PROVE  FramesOk(Scopes!Front(s), res, b)
<1>1. s \in Seq(FrameSet) /\ \A i \in DOMAIN s : ChainOk(s[i].chain, b) /\ FrameOk(i, s[i], res)
  BY DEF FramesOk
<1>2. /\ Scopes!Front(s) \in Seq(FrameSet)
      /\ Len(s) \in Nat \ {0} /\ DOMAIN s = 1..Len(s)
      /\ DOMAIN Scopes!Front(s) = 1..(Len(s) - 1)
      /\ \A i \in DOMAIN Scopes!Front(s) : Scopes!Front(s)[i] = s[i]
  BY <1>1, FrontIs
<1>3. \A i \in DOMAIN Scopes!Front(s) : i \in DOMAIN s
  BY <1>2
<1>4. QED BY <1>1, <1>2, <1>3 DEF FramesOk

(* Entering a run pins it, unless it is pinned. *)
LEMMA RunPinned ==
  ASSUME NEW s \in Seq(FrameSet), NEW pins, PinsOk(s, pins), NEW f \in FrameSet, f.run \in Scopes!Frames,
         f.pinned <=> f.run \in pins
  PROVE  PinsOk(Append(s, f), pins \cup {f.run})
<1>1. /\ Len(s) \in Nat /\ DOMAIN s = 1..Len(s)
      /\ DOMAIN Append(s, f) = 1..(Len(s) + 1)
      /\ \A i \in DOMAIN s : Append(s, f)[i] = s[i]
      /\ Append(s, f)[Len(s) + 1] = f
  BY AppendIs
<1>2. PICK q : q = Append(s, f)
  OBVIOUS
<1>3. \A i \in DOMAIN q : i \in DOMAIN s \/ i = Len(s) + 1
  BY <1>1, <1>2
<1>4. \A i \in DOMAIN s : i \in DOMAIN q /\ q[i] = s[i] /\ i < Len(s) + 1
  BY <1>1, <1>2
<1>5. Len(s) + 1 \in DOMAIN q /\ q[Len(s) + 1] = f
  BY <1>1, <1>2
<1>6. /\ pins \subseteq Scopes!Frames
      /\ \A r \in Scopes!Frames : r \in pins <=> \E i \in DOMAIN s : s[i].run = r
      /\ \A i \in DOMAIN s :
           s[i].run # Scopes!None => (s[i].pinned <=> \E j \in DOMAIN s : j < i /\ s[j].run = s[i].run)
  BY DEF PinsOk
<1>7. \A r \in Scopes!Frames : r \in pins \cup {f.run} <=> \E i \in DOMAIN q : q[i].run = r
  BY <1>3, <1>4, <1>5, <1>6
<1>8. ASSUME NEW i \in DOMAIN q, q[i].run # Scopes!None
      PROVE  q[i].pinned <=> \E j \in DOMAIN q : j < i /\ q[j].run = q[i].run
 <2>1. CASE i \in DOMAIN s
  <3>1. \A j \in DOMAIN q : j < i => j \in DOMAIN s
    BY <2>1, <1>1, <1>2
  <3>2. q[i] = s[i]  BY <2>1, <1>4
  <3>3. s[i].pinned <=> \E j \in DOMAIN s : j < i /\ s[j].run = s[i].run
    BY <2>1, <3>2, <1>6, <1>8
  <3>4. QED BY <3>1, <3>2, <3>3, <1>4
 <2>2. CASE i = Len(s) + 1
  <3>1. q[i] = f  BY <2>2, <1>5
  <3>2. \A j \in DOMAIN q : j < i <=> j \in DOMAIN s
    BY <2>2, <1>1, <1>2
  <3>3. f.run \in pins <=> \E j \in DOMAIN s : s[j].run = f.run
    BY <1>6
  <3>4. QED BY <3>1, <3>2, <3>3, <1>4
 <2>3. QED BY <2>1, <2>2, <1>3
<1>9. QED BY <1>2, <1>6, <1>7, <1>8 DEF PinsOk

(* A frame of no run leaves the pins. *)
LEMMA PlainPushed ==
  ASSUME NEW s \in Seq(FrameSet), NEW pins, PinsOk(s, pins), NEW f \in FrameSet, f.run = Scopes!None
  PROVE  PinsOk(Append(s, f), pins)
<1>1. /\ Len(s) \in Nat /\ DOMAIN s = 1..Len(s)
      /\ DOMAIN Append(s, f) = 1..(Len(s) + 1)
      /\ \A i \in DOMAIN s : Append(s, f)[i] = s[i]
      /\ Append(s, f)[Len(s) + 1] = f
  BY AppendIs
<1>2. PICK q : q = Append(s, f)
  OBVIOUS
<1>3. \A i \in DOMAIN q : i \in DOMAIN s \/ i = Len(s) + 1
  BY <1>1, <1>2
<1>4. \A i \in DOMAIN s : i \in DOMAIN q /\ q[i] = s[i] /\ i < Len(s) + 1
  BY <1>1, <1>2
<1>5. q[Len(s) + 1].run = Scopes!None  BY <1>1, <1>2
<1>6. /\ pins \subseteq Scopes!Frames
      /\ \A r \in Scopes!Frames : r \in pins <=> \E i \in DOMAIN s : s[i].run = r
      /\ \A i \in DOMAIN s :
           s[i].run # Scopes!None => (s[i].pinned <=> \E j \in DOMAIN s : j < i /\ s[j].run = s[i].run)
  BY DEF PinsOk
<1>7. \A r \in Scopes!Frames : r \in pins <=> \E i \in DOMAIN q : q[i].run = r
  BY <1>3, <1>4, <1>5, <1>6, RunsAssumption
<1>8. ASSUME NEW i \in DOMAIN q, q[i].run # Scopes!None
      PROVE  q[i].pinned <=> \E j \in DOMAIN q : j < i /\ q[j].run = q[i].run
 <2>1. i \in DOMAIN s  BY <1>3, <1>5, <1>8
 <2>2. \A j \in DOMAIN q : j < i => j \in DOMAIN s
   BY <2>1, <1>1, <1>2
 <2>3. q[i] = s[i]  BY <2>1, <1>4
 <2>4. s[i].pinned <=> \E j \in DOMAIN s : j < i /\ s[j].run = s[i].run
   BY <2>1, <2>3, <1>6, <1>8
 <2>5. QED BY <2>2, <2>3, <2>4, <1>4
<1>9. QED BY <1>2, <1>6, <1>7, <1>8 DEF PinsOk

(* The lowest frame of a run unpins it. *)
LEMMA RunUnpinned ==
  ASSUME NEW s \in Seq(FrameSet), s # <<>>, NEW pins, PinsOk(s, pins)
  PROVE  LET f == s[Len(s)]
         IN  PinsOk(Scopes!Front(s), IF f.run # Scopes!None /\ ~f.pinned THEN pins \ {f.run} ELSE pins)
<1>1. /\ Len(s) \in Nat \ {0} /\ DOMAIN s = 1..Len(s)
      /\ DOMAIN Scopes!Front(s) = 1..(Len(s) - 1)
      /\ \A i \in DOMAIN Scopes!Front(s) : Scopes!Front(s)[i] = s[i]
  BY FrontIs
<1>2. PICK q : q = Scopes!Front(s)
  OBVIOUS
<1>3. PICK n : n = Len(s)
  OBVIOUS
<1>4. /\ \A i \in DOMAIN s : i \in DOMAIN q \/ i = n
      /\ \A i \in DOMAIN q : i \in DOMAIN s /\ q[i] = s[i] /\ i < n
      /\ n \in DOMAIN s /\ \A i \in DOMAIN s : i < n <=> i \in DOMAIN q
  BY <1>1, <1>2, <1>3
<1>5. PICK left : left = IF s[n].run # Scopes!None /\ ~s[n].pinned THEN pins \ {s[n].run} ELSE pins
  OBVIOUS
<1>6. /\ pins \subseteq Scopes!Frames
      /\ \A r \in Scopes!Frames : r \in pins <=> \E i \in DOMAIN s : s[i].run = r
      /\ \A i \in DOMAIN s :
           s[i].run # Scopes!None => (s[i].pinned <=> \E j \in DOMAIN s : j < i /\ s[j].run = s[i].run)
  BY DEF PinsOk
<1>7. s[n].run # Scopes!None => (s[n].pinned <=> \E j \in DOMAIN q : q[j].run = s[n].run)
  BY <1>4, <1>6
<1>8. \A r \in Scopes!Frames : r \in left <=> \E i \in DOMAIN q : q[i].run = r
 <2>1. ASSUME NEW r \in Scopes!Frames PROVE r \in left <=> \E i \in DOMAIN q : q[i].run = r
  <3>1. r # Scopes!None  BY RunsAssumption
  <3>2. r \in pins <=> (s[n].run = r \/ \E i \in DOMAIN q : q[i].run = r)
    BY <1>4, <1>6
  <3>3. CASE s[n].run = r
    BY <3>1, <3>2, <3>3, <1>5, <1>7
  <3>4. CASE s[n].run # r
    BY <3>2, <3>4, <1>5
  <3>5. QED BY <3>3, <3>4
 <2>2. QED BY <2>1
<1>9. ASSUME NEW i \in DOMAIN q, q[i].run # Scopes!None
      PROVE  q[i].pinned <=> \E j \in DOMAIN q : j < i /\ q[j].run = q[i].run
 <2>1. i \in DOMAIN s /\ q[i] = s[i]
   BY <1>4
 <2>2. \A j \in DOMAIN s : j < i => j \in DOMAIN q
   BY <1>1, <1>2
 <2>3. s[i].pinned <=> \E j \in DOMAIN s : j < i /\ s[j].run = s[i].run
   BY <2>1, <1>6, <1>9
 <2>4. QED BY <2>1, <2>2, <2>3, <1>4
<1>10. left \subseteq Scopes!Frames  BY <1>5, <1>6
<1>11. PinsOk(q, left)  BY <1>8, <1>9, <1>10 DEF PinsOk
<1>12. QED BY <1>2, <1>3, <1>5, <1>11

(* A frame more is one activation more of its run at most. *)
LEMMA OneFrameMore ==
  ASSUME NEW s, NEW q, NEW n, NEW h, IsFiniteSet(DOMAIN s), n \notin DOMAIN s,
         DOMAIN q = DOMAIN s \cup {n}, \A i \in DOMAIN s : q[i] = s[i]
  PROVE  /\ Cardinality(Executing(h, s)) \in Nat
         /\ Cardinality(Executing(h, q)) =
              Cardinality(Executing(h, s)) + (IF q[n].kind = "activation" /\ q[n].run = h THEN 1 ELSE 0)
<1>1. PICK e : e = Executing(h, s)
  OBVIOUS
<1>2. e \subseteq DOMAIN s /\ n \notin e
  BY <1>1 DEF Executing
<1>3. IsFiniteSet(e)  BY <1>2, FS_Subset
<1>4. Cardinality(e) \in Nat  BY <1>3, FS_CardinalityType
<1>5. CASE q[n].kind = "activation" /\ q[n].run = h
 <2>1. Executing(h, q) = e \cup {n}  BY <1>1, <1>5 DEF Executing
 <2>2. Cardinality(e \cup {n}) = Cardinality(e) + 1  BY <1>2, <1>3, FS_AddElement
 <2>3. QED BY <2>1, <2>2, <1>1, <1>4, <1>5
<1>6. CASE ~(q[n].kind = "activation" /\ q[n].run = h)
 <2>1. Executing(h, q) = e  BY <1>1, <1>6 DEF Executing
 <2>2. QED BY <2>1, <1>1, <1>4, <1>6
<1>7. QED BY <1>5, <1>6

LEMMA ExecutingPushed ==
  ASSUME NEW s \in Seq(FrameSet), NEW f \in FrameSet, NEW h
  PROVE  /\ Cardinality(Executing(h, s)) \in Nat
         /\ Cardinality(Executing(h, Append(s, f))) =
              Cardinality(Executing(h, s)) + (IF f.kind = "activation" /\ f.run = h THEN 1 ELSE 0)
<1>1. PICK q : q = Append(s, f)
  OBVIOUS
<1>2. PICK n : n = Len(s) + 1
  OBVIOUS
<1>3. /\ n \notin DOMAIN s /\ DOMAIN q = DOMAIN s \cup {n}
      /\ \A i \in DOMAIN s : q[i] = s[i]
      /\ q[n] = f
      /\ DOMAIN s = 1..Len(s) /\ Len(s) \in Nat
  BY <1>1, <1>2, AppendIs
<1>4. IsFiniteSet(DOMAIN s)  BY <1>3, FS_Interval
<1>5. /\ Cardinality(Executing(h, s)) \in Nat
      /\ Cardinality(Executing(h, q)) =
           Cardinality(Executing(h, s)) + (IF q[n].kind = "activation" /\ q[n].run = h THEN 1 ELSE 0)
  BY <1>3, <1>4, OneFrameMore
<1>6. QED BY <1>1, <1>3, <1>5

LEMMA ExecutingPopped ==
  ASSUME NEW s \in Seq(FrameSet), s # <<>>, NEW h
  PROVE  /\ Cardinality(Executing(h, Scopes!Front(s))) \in Nat
         /\ Cardinality(Executing(h, s)) = Cardinality(Executing(h, Scopes!Front(s)))
              + (IF s[Len(s)].kind = "activation" /\ s[Len(s)].run = h THEN 1 ELSE 0)
<1>1. PICK q : q = Scopes!Front(s)
  OBVIOUS
<1>2. PICK n : n = Len(s)
  OBVIOUS
<1>3. /\ n \in Nat \ {0} /\ DOMAIN s = 1..n /\ DOMAIN q = 1..(n - 1)
      /\ \A i \in DOMAIN q : q[i] = s[i]
  BY <1>1, <1>2, FrontIs
<1>4. n \notin DOMAIN q /\ DOMAIN s = DOMAIN q \cup {n} /\ \A i \in DOMAIN q : s[i] = q[i]
  BY <1>3
<1>5. IsFiniteSet(DOMAIN q)  BY <1>3, FS_Interval
<1>6. /\ Cardinality(Executing(h, q)) \in Nat
      /\ Cardinality(Executing(h, s)) =
           Cardinality(Executing(h, q)) + (IF s[n].kind = "activation" /\ s[n].run = h THEN 1 ELSE 0)
  BY <1>4, <1>5, OneFrameMore
<1>7. QED BY <1>1, <1>2, <1>6

-----------------------------------------------------------------------------
(* The tokens. *)

(* The counts of the hook: a token that is live keeps it enabled. *)
LEMMA CountsAre ==
  ASSUME NEW o, NEW b, NEW p, NEW on, OwnersOk(o, b, p, on)
  PROVE  /\ IsFiniteSet(o.counted) /\ IsFiniteSet(o.registered)
         /\ Cardinality(o.counted) \in Nat /\ Cardinality(o.registered) \in Nat
         /\ Cardinality(o.counted) <= Cardinality(o.registered)
         /\ o.registered # o.collected => Cardinality(o.counted) < Cardinality(o.registered) /\ on
<1>1. /\ o.counted \subseteq o.collected /\ o.collected \subseteq o.registered
      /\ IsFiniteSet(o.registered)
      /\ Cardinality(o.registered) > Cardinality(o.counted) => on
  BY DEF OwnersOk
<1>2. o.counted \subseteq o.registered  BY <1>1
<1>3. IsFiniteSet(o.counted) /\ Cardinality(o.counted) <= Cardinality(o.registered)
  BY <1>1, <1>2, FS_Subset
<1>4. Cardinality(o.counted) \in Nat /\ Cardinality(o.registered) \in Nat
  BY <1>1, <1>3, FS_CardinalityType
<1>5. ASSUME o.registered # o.collected PROVE Cardinality(o.counted) < Cardinality(o.registered)
 <2>1. o.counted # o.registered  BY <1>1, <1>5
 <2>2. Cardinality(o.counted) # Cardinality(o.registered)  BY <1>1, <1>2, <2>1, FS_Subset
 <2>3. QED BY <2>2, <1>3, <1>4
<1>6. QED BY <1>1, <1>3, <1>4, <1>5

(* A run that is registered is live, and the hook is enabled. *)
LEMMA Registers ==
  ASSUME ScopeInv, NEW r \in Scopes!Frames, NEW d, born \subseteq d, r \in d, r \notin owners.collected,
         NEW p, p \subseteq synchronous \cup {r}, Scopes!Register(r)
  PROVE  /\ OwnersOk(owners', d, p, hook')
         /\ owners'.registered = owners.registered \cup {r}
         /\ owners'.collected = owners.collected
<1>1. OwnersOk(owners, born, synchronous, hook)  BY DEF ScopeInv
<1>2. /\ DOMAIN owners = {"registered", "collected", "counted"}
      /\ owners.counted \subseteq owners.collected /\ owners.collected \subseteq owners.registered
      /\ owners.registered \subseteq born
      /\ synchronous \subseteq owners.registered \ owners.collected
      /\ Cardinality(owners.registered) > Cardinality(owners.counted) => hook
  BY <1>1 DEF OwnersOk
<1>3. /\ IsFiniteSet(owners.registered)
      /\ Cardinality(owners.counted) \in Nat /\ Cardinality(owners.registered) \in Nat
      /\ Cardinality(owners.counted) <= Cardinality(owners.registered)
      /\ owners.registered # owners.collected => hook
  BY <1>1, CountsAre
<1>4. /\ DOMAIN owners' = {"registered", "collected", "counted"}
      /\ owners'.registered = owners.registered \cup {r}
      /\ owners'.collected = owners.collected /\ owners'.counted = owners.counted
  BY <1>2 DEF Scopes!Register
<1>5. IsFiniteSet(owners'.registered)
 <2>1. IsFiniteSet(owners.registered)  BY <1>3
 <2>2. IsFiniteSet(owners.registered \cup {r})  BY Zenon, <2>1, FS_AddElement
 <2>3. owners'.registered = owners.registered \cup {r}  BY <1>4
 <2>4. QED BY Zenon, <2>2, <2>3
<1>6. hook'
 <2>1. CASE r \in owners.registered
  <3>1. hook  BY <2>1, <1>3
  <3>2. QED BY <3>1 DEF Scopes!Register
 <2>2. CASE r \notin owners.registered
  <3>1. CASE Cardinality(owners.registered) = Cardinality(owners.counted)
   <4>1. Scopes!LiveCount = 0  BY <3>1, <1>3, ScopesCount DEF Scopes!LiveCount
   <4>2. QED BY <4>1, <2>2 DEF Scopes!Register
  <3>2. CASE Cardinality(owners.registered) # Cardinality(owners.counted)
   <4>1. hook  BY <3>2, <1>2, <1>3
   <4>2. QED BY <4>1 DEF Scopes!Register
  <3>3. QED BY <3>1, <3>2
 <2>3. QED BY <2>1, <2>2
<1>7. QED BY <1>2, <1>4, <1>5, <1>6 DEF OwnersOk

(* Tokens that are registered leave the resources what they own. *)
LEMMA ResourcesKept ==
  ASSUME NEW res, NEW b, NEW o, ResourcesOk(res, b, o), NEW d, b \subseteq d,
         NEW later, o.registered \subseteq later.registered, later.collected = o.collected
  PROVE  ResourcesOk(res, d, later)
<1>1. \A a \in Resource : ChainOk(res[a].chain, d)
  BY ChainsKept DEF ResourcesOk
<1>2. QED BY <1>1 DEF ResourcesOk

(* An owner that is executed in is live, and so is a handle that the program has. *)
LEMMA PinnedLive ==
  ASSUME ScopeInv
  PROVE  /\ \A r \in Scopes!Frames \ born : r \notin owners.registered /\ r \notin owners.collected
         /\ \A r \in owners.registered : r \in born
         /\ \A h \in Handle : handle[h].owned => h \in born /\ h \notin owners.collected
BY DEF ScopeInv, OwnersOk, HandlesOk, HandleOk

(* Entering a run. *)
LEMMA RunEntered ==
  ASSUME ScopeInv, NEW kind \in {"scope", "activation"}, NEW r \in Scopes!Frames, kind = "activation" => r \in Handle,
         Scopes!EnterRun(kind, r), born' = born \cup {r}, r \notin owners.collected, resource' = resource,
         \A i \in DOMAIN Scopes!Context : Scopes!Context[i] # r
  PROVE  /\ FramesOk(stack', resource', born')
         /\ PinsOk(stack', synchronous')
         /\ ResourcesOk(resource', born', owners')
         /\ OwnersOk(owners', born', synchronous', hook')
         /\ owners'.collected = owners.collected
         /\ \E f \in FrameSet : f.kind = kind /\ f.run = r /\ stack' = Append(stack, f)
<1>1. PICK f : f = [kind |-> kind, run |-> r, chain |-> Append(Scopes!Context, r),
                    pinned |-> r \in synchronous, resource |-> Scopes!None]
  OBVIOUS
<1>2. stack' = Append(stack, f) /\ synchronous' = synchronous \cup {r} /\ Scopes!Register(r)
  BY <1>1 DEF Scopes!EnterRun, Scopes!Push
<1>3. born \subseteq Scopes!Frames  BY DEF ScopeInv
<1>4. ChainOk(Scopes!Context, born)  BY ContextIs
<1>5. ChainOk(Append(Scopes!Context, r), born') /\ Append(Scopes!Context, r) # <<>>
      /\ Append(Scopes!Context, r)[Len(Append(Scopes!Context, r))] = r
 <2>1. born \subseteq born' /\ r \in born'
   OBVIOUS
 <2>2. PICK c : c = Scopes!Context
   OBVIOUS
 <2>3. ChainOk(c, born) /\ \A i \in DOMAIN c : c[i] # r
   BY <2>2, <1>4
 <2>4. ChainOk(Append(c, r), born') /\ Append(c, r) # <<>> /\ Append(c, r)[Len(Append(c, r))] = r
   BY <2>1, <2>3, ExtendedChain
 <2>5. QED BY <2>2, <2>4
<1>6. Append(Scopes!Context, r) \in Seq(Scopes!Frames)  BY <1>3, <1>5 DEF ChainOk
<1>7. /\ f.kind = kind /\ f.run = r /\ f.chain = Append(Scopes!Context, r)
      /\ (f.pinned <=> r \in synchronous) /\ f.resource = Scopes!None
  BY <1>1
<1>8. f \in FrameSet  BY <1>1, <1>6 DEF FrameSet
<1>9. FrameOk(Len(stack) + 1, f, resource)  BY <1>5, <1>7 DEF FrameOk
<1>10. ChainOk(f.chain, born')  BY <1>5, <1>7
<1>11. FramesOk(stack, resource, born)  BY DEF ScopeInv
<1>12. FramesOk(Append(stack, f), resource, born')  BY <1>8, <1>9, <1>10, <1>11, FramesPushed
<1>13. PinsOk(Append(stack, f), synchronous \cup {r})
 <2>1. stack \in Seq(FrameSet) /\ PinsOk(stack, synchronous)
   BY DEF ScopeInv, FramesOk
 <2>2. PinsOk(Append(stack, f), synchronous \cup {f.run})  BY <2>1, <1>7, <1>8, RunPinned
 <2>3. QED BY <2>2, <1>7
<1>14. /\ OwnersOk(owners', born', synchronous', hook')
       /\ owners'.registered = owners.registered \cup {r}
       /\ owners'.collected = owners.collected
 <2>1. born \subseteq born' /\ r \in born' /\ synchronous' \subseteq synchronous \cup {r}
   BY <1>2
 <2>2. Scopes!Register(r)  BY <1>2
 <2>3. QED BY <2>1, <2>2, Registers
<1>15. ResourcesOk(resource, born', owners')
 <2>1. ResourcesOk(resource, born, owners)  BY DEF ScopeInv
 <2>2. QED BY <2>1, <1>14, ResourcesKept
<1>16. QED BY <1>2, <1>7, <1>8, <1>12, <1>13, <1>14, <1>15

(* What a pop leaves of the frames and of the pins. *)
LEMMA Popped ==
  ASSUME ScopeInv, stack # <<>>, Scopes!Pop
  PROVE  /\ FramesOk(stack', resource, born)
         /\ PinsOk(stack', synchronous')
         /\ synchronous' \subseteq synchronous
         /\ stack' = Scopes!Front(stack)
         /\ stack \in Seq(FrameSet)
         /\ Len(stack) \in DOMAIN stack /\ FrameOk(Len(stack), Scopes!Top, resource)
         /\ Scopes!Top.kind \in {"scope", "activation", "outside", "callback"}
<1>1. /\ stack \in Seq(FrameSet) /\ FramesOk(stack, resource, born) /\ PinsOk(stack, synchronous)
      /\ \A i \in DOMAIN stack : FrameOk(i, stack[i], resource)
  BY DEF ScopeInv, FramesOk
<1>2. stack' = Scopes!Front(stack)
      /\ synchronous' = (IF Scopes!Top.run # Scopes!None /\ ~Scopes!Top.pinned THEN synchronous \ {Scopes!Top.run} ELSE synchronous)
  BY DEF Scopes!Pop
<1>3. FramesOk(Scopes!Front(stack), resource, born)  BY <1>1, FramesPopped
<1>4. PinsOk(Scopes!Front(stack), IF Scopes!Top.run # Scopes!None /\ ~Scopes!Top.pinned THEN synchronous \ {Scopes!Top.run} ELSE synchronous)
  BY <1>1, RunUnpinned DEF Scopes!Top
<1>5. Len(stack) \in DOMAIN stack  BY <1>1
<1>6. FrameOk(Len(stack), Scopes!Top, resource)  BY <1>1, <1>5 DEF Scopes!Top
<1>7. Scopes!Top \in FrameSet  BY <1>1, <1>5 DEF Scopes!Top
<1>8. Scopes!Top.kind \in {"scope", "activation", "outside", "callback"}  BY <1>7 DEF FrameSet
<1>9. QED BY <1>1, <1>2, <1>3, <1>4, <1>5, <1>6, <1>8

(* Fewer pins keep the tokens. *)
LEMMA Unpinned ==
  ASSUME NEW o, NEW b, NEW p, NEW on, OwnersOk(o, b, p, on), NEW less, less \subseteq p
  PROVE  OwnersOk(o, b, less, on)
BY DEF OwnersOk

(* The handles, when one of them moves. *)
LEMMA HandleMoves ==
  ASSUME ScopeInv, NEW h \in Handle, NEW x, handle' = [handle EXCEPT ![h] = x],
         NEW s, NEW d, born \subseteq d, HandleOk(h, x, s, d, owners),
         \A g \in Handle : g # h => Cardinality(Executing(g, s)) = Cardinality(Executing(g, stack))
  PROVE  HandlesOk(handle', s, d, owners)
<1>1. DOMAIN handle = Handle /\ \A g \in Handle : HandleOk(g, handle[g], stack, born, owners)
  BY DEF ScopeInv, HandlesOk
<1>2. \A g \in Handle : g # h => HandleOk(g, handle[g], s, d, owners)
  BY <1>1 DEF HandleOk
<1>3. DOMAIN handle' = Handle /\ handle'[h] = x /\ \A g \in Handle : g # h => handle'[g] = handle[g]
  BY <1>1
<1>4. QED BY <1>2, <1>3 DEF HandlesOk

LEMMA HandlesKept ==
  ASSUME NEW hs, NEW s, NEW b, NEW o, HandlesOk(hs, s, b, o), NEW q, NEW d, b \subseteq d, NEW later,
         later.collected = o.collected,
         \A h \in Handle : Cardinality(Executing(h, q)) = Cardinality(Executing(h, s))
  PROVE  HandlesOk(hs, q, d, later)
BY DEF HandlesOk, HandleOk

-----------------------------------------------------------------------------
(* The actions. *)

LEMMA ScopesOpen == ASSUME ScopeInv, NEW r \in Scope, Scopes!OpenScope(r) PROVE ScopeInv'
<1>1. /\ r \in Scopes!Frames /\ r \notin born /\ born' = born \cup {r} /\ Scopes!EnterRun("scope", r)
      /\ handle' = handle /\ resource' = resource
  BY DEF Scopes!OpenScope, Scopes!Frames
<1>2. r \notin owners.collected  BY <1>1, PinnedLive
<1>3. \A i \in DOMAIN Scopes!Context : Scopes!Context[i] # r
  BY <1>1, ContextIs DEF ChainOk
<1>4. /\ FramesOk(stack', resource', born')
      /\ PinsOk(stack', synchronous')
      /\ ResourcesOk(resource', born', owners')
      /\ OwnersOk(owners', born', synchronous', hook')
      /\ owners'.collected = owners.collected
      /\ \E f \in FrameSet : f.kind = "scope" /\ f.run = r /\ stack' = Append(stack, f)
  BY <1>1, <1>2, <1>3, RunEntered
<1>5. PICK f \in FrameSet : f.kind = "scope" /\ stack' = Append(stack, f)
  BY <1>4
<1>6. stack \in Seq(FrameSet) /\ HandlesOk(handle, stack, born, owners) /\ born \subseteq Scopes!Frames
  BY DEF ScopeInv, FramesOk
<1>7. \A h \in Handle : Cardinality(Executing(h, stack')) = Cardinality(Executing(h, stack))
  BY <1>5, <1>6, ExecutingPushed
<1>8. HandlesOk(handle', stack', born', owners')  BY <1>1, <1>4, <1>6, <1>7, HandlesKept
<1>9. QED BY <1>1, <1>4, <1>6, <1>8 DEF ScopeInv

LEMMA RunsCreated == ASSUME ScopeInv, NEW h \in Handle, Scopes!CreateRun(h) PROVE ScopeInv'
<1>1. /\ h \in Scopes!Frames /\ h \notin born /\ born' = born \cup {h} /\ Scopes!Register(h)
      /\ handle' = [handle EXCEPT ![h].owned = TRUE]
      /\ UNCHANGED <<stack, synchronous, resource>>
  BY DEF Scopes!CreateRun, Scopes!Frames
<1>2. h \notin owners.collected  BY <1>1, PinnedLive
<1>3. /\ OwnersOk(owners', born', synchronous', hook')
      /\ owners'.registered = owners.registered \cup {h}
      /\ owners'.collected = owners.collected
 <2>1. born \subseteq born' /\ h \in born' /\ synchronous' \subseteq synchronous \cup {h}
   BY <1>1
 <2>2. Scopes!Register(h) /\ h \in Scopes!Frames
   BY <1>1
 <2>3. QED BY <2>1, <2>2, <1>2, Registers
<1>4. /\ born \subseteq Scopes!Frames /\ FramesOk(stack, resource, born) /\ PinsOk(stack, synchronous)
      /\ ResourcesOk(resource, born, owners) /\ HandlesOk(handle, stack, born, owners)
  BY DEF ScopeInv
<1>5. FramesOk(stack', resource', born')
 <2>1. \A i \in DOMAIN stack : ChainOk(stack[i].chain, born')
   BY <1>1, <1>4, ChainsKept DEF FramesOk
 <2>2. QED BY <1>1, <1>4, <2>1 DEF FramesOk
<1>6. ResourcesOk(resource', born', owners')  BY <1>1, <1>3, <1>4, ResourcesKept
<1>7. HandlesOk(handle', stack', born', owners')
 <2>1. HandleOk(h, handle[h], stack, born, owners) /\ DOMAIN handle = Handle
   BY <1>4 DEF HandlesOk
 <2>2. PICK x : x = [handle[h] EXCEPT !.owned = TRUE]
   OBVIOUS
 <2>3. /\ DOMAIN x = {"active", "waiting", "stale", "finished", "owned"}
       /\ x.active = handle[h].active /\ x.waiting = handle[h].waiting
       /\ (x.finished <=> handle[h].finished) /\ x.owned
   BY <2>1, <2>2 DEF HandleOk
 <2>4. HandleOk(h, x, stack, born', owners)  BY <1>1, <1>2, <2>1, <2>3 DEF HandleOk
 <2>5. handle' = [handle EXCEPT ![h] = x]  BY <1>1, <2>1, <2>2
 <2>6. HandlesOk(handle', stack, born', owners)  BY <1>1, <2>4, <2>5, HandleMoves
 <2>7. QED BY <1>1, <1>3, <2>6, HandlesKept
<1>8. PinsOk(stack', synchronous') /\ born' \subseteq Scopes!Frames
  BY <1>1, <1>4
<1>9. QED BY <1>3, <1>5, <1>6, <1>7, <1>8 DEF ScopeInv

LEMMA Activates == ASSUME ScopeInv, NEW h \in Handle, Scopes!Activate(h) PROVE ScopeInv'
<1>1. /\ h \in Scopes!Frames /\ handle[h].owned /\ ~handle[h].finished /\ ~Scopes!ActiveInContext(h)
      /\ handle' = [handle EXCEPT ![h].active = @ + 1]
      /\ Scopes!EnterRun("activation", h)
      /\ born' = born /\ resource' = resource
  BY DEF Scopes!Activate, Scopes!Frames
<1>2. h \in born /\ h \notin owners.collected
  BY <1>1, PinnedLive
<1>3. born' = born \cup {h} /\ \A i \in DOMAIN Scopes!Context : Scopes!Context[i] # h
  BY <1>1, <1>2 DEF Scopes!ActiveInContext
<1>4. /\ FramesOk(stack', resource', born')
      /\ PinsOk(stack', synchronous')
      /\ ResourcesOk(resource', born', owners')
      /\ OwnersOk(owners', born', synchronous', hook')
      /\ owners'.collected = owners.collected
      /\ \E f \in FrameSet : f.kind = "activation" /\ f.run = h /\ stack' = Append(stack, f)
  BY <1>1, <1>2, <1>3, RunEntered
<1>5. PICK f \in FrameSet : f.kind = "activation" /\ f.run = h /\ stack' = Append(stack, f)
  BY <1>4
<1>6. stack \in Seq(FrameSet) /\ HandlesOk(handle, stack, born, owners) /\ born \subseteq Scopes!Frames
  BY DEF ScopeInv, FramesOk
<1>7. /\ Cardinality(Executing(h, stack)) \in Nat
      /\ Cardinality(Executing(h, stack')) = Cardinality(Executing(h, stack)) + 1
      /\ \A g \in Handle : g # h => Cardinality(Executing(g, stack')) = Cardinality(Executing(g, stack))
 <2>1. \A g \in Handle :
         /\ Cardinality(Executing(g, stack)) \in Nat
         /\ Cardinality(Executing(g, Append(stack, f))) = Cardinality(Executing(g, stack))
              + (IF f.kind = "activation" /\ f.run = g THEN 1 ELSE 0)
   BY <1>6, ExecutingPushed
 <2>2. QED BY <1>5, <2>1
<1>8. HandlesOk(handle', stack', born', owners')
 <2>1. HandleOk(h, handle[h], stack, born, owners) /\ DOMAIN handle = Handle
   BY <1>6 DEF HandlesOk
 <2>2. PICK x : x = [handle[h] EXCEPT !.active = @ + 1]
   OBVIOUS
 <2>3. /\ DOMAIN x = {"active", "waiting", "stale", "finished", "owned"}
       /\ x.active = handle[h].active + 1 /\ x.waiting = handle[h].waiting
       /\ ~x.finished /\ (x.owned <=> handle[h].owned)
   BY <1>1, <2>1, <2>2 DEF HandleOk
 <2>4. HandleOk(h, x, stack', born', owners)  BY <1>1, <1>7, <2>1, <2>3 DEF HandleOk
 <2>5. handle' = [handle EXCEPT ![h] = x]  BY <1>1, <2>1, <2>2
 <2>6. HandlesOk(handle', stack', born', owners)
  <3>1. PICK s, d : s = stack' /\ d = born'
    OBVIOUS
  <3>2. HandlesOk(handle', s, d, owners)  BY <1>1, <1>7, <2>4, <2>5, <3>1, HandleMoves
  <3>3. QED BY <3>1, <3>2
 <2>7. QED BY <1>4, <2>6, HandlesKept
<1>9. QED BY <1>1, <1>4, <1>6, <1>8 DEF ScopeInv

(* A handle alone moves. *)
LEMMA HandleAlone ==
  ASSUME ScopeInv, NEW h \in Handle, NEW x, handle' = [handle EXCEPT ![h] = x],
         HandleOk(h, x, stack, born, owners),
         UNCHANGED <<born, stack, synchronous, resource, owners, hook>>
  PROVE  ScopeInv'
<1>1. HandlesOk(handle', stack, born, owners)  BY HandleMoves
<1>2. /\ born' \subseteq Scopes!Frames /\ FramesOk(stack', resource', born') /\ PinsOk(stack', synchronous')
      /\ ResourcesOk(resource', born', owners') /\ OwnersOk(owners', born', synchronous', hook')
  BY DEF ScopeInv
<1>3. HandlesOk(handle', stack', born', owners')  BY <1>1
<1>4. QED BY <1>2, <1>3 DEF ScopeInv

(* What a handle keeps of its activations. *)
LEMMA HandleIs ==
  ASSUME ScopeInv, NEW h \in Handle
  PROVE  /\ HandleOk(h, handle[h], stack, born, owners) /\ DOMAIN handle = Handle
         /\ stack \in Seq(FrameSet)
         /\ Cardinality(Executing(h, stack)) \in Nat
<1>1. HandleOk(h, handle[h], stack, born, owners) /\ DOMAIN handle = Handle /\ stack \in Seq(FrameSet)
  BY DEF ScopeInv, HandlesOk, FramesOk
<1>2. DOMAIN stack = 1..Len(stack) /\ Len(stack) \in Nat
  BY <1>1
<1>3. IsFiniteSet(DOMAIN stack)  BY <1>2, FS_Interval
<1>4. PICK e : e = Executing(h, stack)
  OBVIOUS
<1>5. e \subseteq DOMAIN stack  BY <1>4 DEF Executing
<1>6. Cardinality(e) \in Nat  BY <1>3, <1>5, FS_Subset, FS_CardinalityType
<1>7. QED BY <1>1, <1>4, <1>6

LEMMA Settles == ASSUME ScopeInv, NEW h \in Handle, Scopes!Settle(h) PROVE ScopeInv'
<1>1. /\ handle[h].waiting > 0
      /\ handle' = [handle EXCEPT ![h].waiting = @ - 1, ![h].active = @ - 1, ![h].stale = 1]
      /\ UNCHANGED <<born, stack, synchronous, resource, owners, hook>>
  BY DEF Scopes!Settle
<1>2. /\ HandleOk(h, handle[h], stack, born, owners) /\ DOMAIN handle = Handle
      /\ Cardinality(Executing(h, stack)) \in Nat
  BY HandleIs
<1>3. PICK x : x = [[[handle[h] EXCEPT !.waiting = @ - 1] EXCEPT !.active = @ - 1] EXCEPT !.stale = 1]
  OBVIOUS
<1>4. /\ DOMAIN x = {"active", "waiting", "stale", "finished", "owned"}
      /\ x.active = handle[h].active - 1 /\ x.waiting = handle[h].waiting - 1
      /\ (x.finished <=> handle[h].finished) /\ (x.owned <=> handle[h].owned)
  BY <1>2, <1>3 DEF HandleOk
<1>5. HandleOk(h, x, stack, born, owners)  BY <1>1, <1>2, <1>4 DEF HandleOk
<1>6. handle' = [handle EXCEPT ![h] = x]  BY <1>1, <1>2, <1>3
<1>7. QED BY <1>1, <1>5, <1>6, HandleAlone

LEMMA SettlesAgain == ASSUME ScopeInv, NEW h \in Handle, Scopes!SettleAgain(h) PROVE ScopeInv'
<1>1. /\ handle' = [handle EXCEPT ![h].stale = 0]
      /\ UNCHANGED <<born, stack, synchronous, resource, owners, hook>>
  BY DEF Scopes!SettleAgain
<1>2. HandleOk(h, handle[h], stack, born, owners) /\ DOMAIN handle = Handle
  BY HandleIs
<1>3. PICK x : x = [handle[h] EXCEPT !.stale = 0]
  OBVIOUS
<1>4. /\ DOMAIN x = {"active", "waiting", "stale", "finished", "owned"}
      /\ x.active = handle[h].active /\ x.waiting = handle[h].waiting
      /\ (x.finished <=> handle[h].finished) /\ (x.owned <=> handle[h].owned)
  BY <1>2, <1>3 DEF HandleOk
<1>5. HandleOk(h, x, stack, born, owners)  BY <1>2, <1>4 DEF HandleOk
<1>6. handle' = [handle EXCEPT ![h] = x]  BY <1>1, <1>2, <1>3
<1>7. QED BY <1>1, <1>5, <1>6, HandleAlone

LEMMA Finishes == ASSUME ScopeInv, NEW h \in Handle, Scopes!Finish(h) PROVE ScopeInv'
<1>1. /\ handle[h].active = 0
      /\ handle' = [handle EXCEPT ![h].finished = TRUE, ![h].owned = FALSE]
      /\ UNCHANGED <<born, stack, synchronous, resource, owners, hook>>
  BY DEF Scopes!Finish
<1>2. HandleOk(h, handle[h], stack, born, owners) /\ DOMAIN handle = Handle
  BY HandleIs
<1>3. PICK x : x = [[handle[h] EXCEPT !.finished = TRUE] EXCEPT !.owned = FALSE]
  OBVIOUS
<1>4. /\ DOMAIN x = {"active", "waiting", "stale", "finished", "owned"}
      /\ x.active = handle[h].active /\ x.waiting = handle[h].waiting /\ ~x.owned
  BY <1>2, <1>3 DEF HandleOk
<1>5. HandleOk(h, x, stack, born, owners)  BY <1>1, <1>2, <1>4 DEF HandleOk
<1>6. handle' = [handle EXCEPT ![h] = x]  BY <1>1, <1>2, <1>3
<1>7. QED BY <1>1, <1>5, <1>6, HandleAlone

LEMMA LetsGo == ASSUME ScopeInv, NEW h \in Handle, Scopes!LetGo(h) PROVE ScopeInv'
<1>1. /\ handle' = [handle EXCEPT ![h].owned = FALSE]
      /\ UNCHANGED <<born, stack, synchronous, resource, owners, hook>>
  BY DEF Scopes!LetGo
<1>2. HandleOk(h, handle[h], stack, born, owners) /\ DOMAIN handle = Handle
  BY HandleIs
<1>3. PICK x : x = [handle[h] EXCEPT !.owned = FALSE]
  OBVIOUS
<1>4. /\ DOMAIN x = {"active", "waiting", "stale", "finished", "owned"}
      /\ x.active = handle[h].active /\ x.waiting = handle[h].waiting
      /\ (x.finished <=> handle[h].finished) /\ ~x.owned
  BY <1>2, <1>3 DEF HandleOk
<1>5. HandleOk(h, x, stack, born, owners)  BY <1>2, <1>4 DEF HandleOk
<1>6. handle' = [handle EXCEPT ![h] = x]  BY <1>1, <1>2, <1>3
<1>7. QED BY <1>1, <1>5, <1>6, HandleAlone

(* A frame of no run is pushed. *)
LEMMA PlainFrame ==
  ASSUME ScopeInv, NEW f \in FrameSet, f.run = Scopes!None, f.kind # "activation", stack' = Append(stack, f),
         NEW res, FramesOk(stack, res, born), ResourcesOk(res, born, owners), resource' = res,
         ChainOk(f.chain, born), FrameOk(Len(stack) + 1, f, res),
         UNCHANGED <<born, handle, synchronous, owners, hook>>
  PROVE  ScopeInv'
<1>1. /\ born \subseteq Scopes!Frames /\ PinsOk(stack, synchronous) /\ stack \in Seq(FrameSet)
      /\ OwnersOk(owners, born, synchronous, hook) /\ HandlesOk(handle, stack, born, owners)
  BY DEF ScopeInv, FramesOk
<1>2. FramesOk(Append(stack, f), res, born)  BY FramesPushed
<1>3. PinsOk(Append(stack, f), synchronous)  BY <1>1, PlainPushed
<1>4. \A h \in Handle : Cardinality(Executing(h, Append(stack, f))) = Cardinality(Executing(h, stack))
  BY <1>1, ExecutingPushed
<1>5. HandlesOk(handle, Append(stack, f), born, owners)  BY <1>1, <1>4, HandlesKept
<1>6. QED BY <1>1, <1>2, <1>3, <1>5 DEF ScopeInv

LEMMA GoesOutside == ASSUME ScopeInv, Scopes!Outside PROVE ScopeInv'
<1>1. PICK f : f = [kind |-> "outside", run |-> Scopes!None, chain |-> <<>>, pinned |-> FALSE, resource |-> Scopes!None]
  OBVIOUS
<1>2. stack' = Append(stack, f) /\ UNCHANGED <<born, handle, synchronous, resource, owners, hook>>
  BY <1>1 DEF Scopes!Outside, Scopes!Push
<1>3. f \in FrameSet /\ f.kind = "outside" /\ f.run = Scopes!None /\ f.chain = <<>>
  BY <1>1 DEF FrameSet
<1>4. ChainOk(f.chain, born)  BY <1>3 DEF ChainOk, Scopes!IsInjective
<1>5. FrameOk(Len(stack) + 1, f, resource)  BY <1>3 DEF FrameOk
<1>6. PICK res : res = resource
  OBVIOUS
<1>7. FramesOk(stack, res, born) /\ ResourcesOk(res, born, owners)
  BY <1>6 DEF ScopeInv
<1>8. QED BY <1>2, <1>3, <1>4, <1>5, <1>6, <1>7, PlainFrame

LEMMA Resumes == ASSUME ScopeInv, NEW a \in Resource, Scopes!Resume(a) PROVE ScopeInv'
<1>1. PICK f : f = [kind |-> "callback", run |-> Scopes!None, chain |-> resource[a].chain, pinned |-> FALSE, resource |-> a]
  OBVIOUS
<1>2. PICK res : res = [resource EXCEPT ![a].state = "running"]
  OBVIOUS
<1>3. /\ stack = <<>> /\ resource[a].state = "pending" /\ resource' = res /\ stack' = Append(stack, f)
      /\ UNCHANGED <<born, handle, synchronous, owners, hook>>
  BY <1>1, <1>2 DEF Scopes!Resume, Scopes!Push
<1>4. /\ born \subseteq Scopes!Frames /\ FramesOk(stack, resource, born) /\ ResourcesOk(resource, born, owners)
  BY DEF ScopeInv
<1>5. DOMAIN resource = Resource /\ DOMAIN resource[a] = {"state", "chain", "owner"}
  BY <1>4 DEF ResourcesOk
<1>6. /\ DOMAIN res = Resource /\ \A c \in Resource : c # a => res[c] = resource[c]
      /\ DOMAIN res[a] = {"state", "chain", "owner"}
      /\ res[a].state = "running" /\ res[a].chain = resource[a].chain /\ res[a].owner = resource[a].owner
  BY <1>2, <1>5
<1>7. ResourcesOk(res, born, owners)  BY <1>3, <1>4, <1>6 DEF ResourcesOk
<1>8. ChainOk(resource[a].chain, born)  BY <1>4 DEF ResourcesOk
<1>9. resource[a].chain \in Seq(Scopes!Frames)  BY <1>4, <1>8 DEF ChainOk
<1>10. /\ f \in FrameSet /\ f.kind = "callback" /\ f.run = Scopes!None
       /\ f.chain = resource[a].chain /\ f.resource = a
  BY <1>1, <1>9 DEF FrameSet
<1>11. FrameOk(Len(stack) + 1, f, res)  BY <1>3, <1>6, <1>10 DEF FrameOk
<1>12. FramesOk(stack, res, born)  BY <1>3, <1>4 DEF FramesOk
<1>13. ChainOk(f.chain, born)  BY <1>8, <1>10
<1>14. QED BY <1>3, <1>7, <1>10, <1>11, <1>12, <1>13, PlainFrame

-----------------------------------------------------------------------------
(* Returns. *)

LEMMA ScopesReturn == ASSUME ScopeInv, Scopes!ReturnFromScope PROVE ScopeInv'
<1>1. /\ stack # <<>> /\ Scopes!Top.kind \in {"scope", "outside"} /\ Scopes!Pop
      /\ UNCHANGED <<born, handle, resource, owners, hook>>
  BY DEF Scopes!ReturnFromScope
<1>2. /\ FramesOk(stack', resource, born)
      /\ PinsOk(stack', synchronous')
      /\ synchronous' \subseteq synchronous
      /\ stack' = Scopes!Front(stack)
      /\ stack \in Seq(FrameSet)
  BY <1>1, Popped
<1>3. /\ born \subseteq Scopes!Frames /\ ResourcesOk(resource, born, owners)
      /\ OwnersOk(owners, born, synchronous, hook) /\ HandlesOk(handle, stack, born, owners)
  BY DEF ScopeInv
<1>4. OwnersOk(owners, born, synchronous', hook)  BY <1>2, <1>3, Unpinned
<1>5. \A h \in Handle : Cardinality(Executing(h, stack')) = Cardinality(Executing(h, stack))
  BY <1>1, <1>2, ExecutingPopped DEF Scopes!Top
<1>6. HandlesOk(handle, stack', born, owners)  BY <1>3, <1>5, HandlesKept
<1>7. QED BY <1>1, <1>2, <1>3, <1>4, <1>6 DEF ScopeInv

(* The frame of an activation is popped, and its handle says so. *)
LEMMA ActivationReturns ==
  ASSUME ScopeInv, stack # <<>>, Scopes!Top.kind = "activation", Scopes!Pop, NEW x,
         handle' = [handle EXCEPT ![Scopes!Top.run] = x],
         DOMAIN x = {"active", "waiting", "stale", "finished", "owned"},
         x.waiting \in Nat,
         x.active - x.waiting = handle[Scopes!Top.run].active - handle[Scopes!Top.run].waiting - 1,
         x.finished <=> handle[Scopes!Top.run].finished, x.owned <=> handle[Scopes!Top.run].owned,
         x.active \in {handle[Scopes!Top.run].active, handle[Scopes!Top.run].active - 1},
         x.active \in Int,
         UNCHANGED <<born, resource, owners, hook>>
  PROVE  ScopeInv'
<1>1. /\ FramesOk(stack', resource, born)
      /\ PinsOk(stack', synchronous')
      /\ synchronous' \subseteq synchronous
      /\ stack' = Scopes!Front(stack)
      /\ stack \in Seq(FrameSet)
      /\ FrameOk(Len(stack), Scopes!Top, resource)
  BY Popped
<1>2. PICK h \in Handle : h = Scopes!Top.run
  BY <1>1 DEF FrameOk
<1>3. /\ born \subseteq Scopes!Frames /\ ResourcesOk(resource, born, owners)
      /\ OwnersOk(owners, born, synchronous, hook)
  BY DEF ScopeInv
<1>4. OwnersOk(owners, born, synchronous', hook)  BY <1>1, <1>3, Unpinned
<1>5. /\ Cardinality(Executing(h, stack')) \in Nat
      /\ Cardinality(Executing(h, stack)) = Cardinality(Executing(h, stack')) + 1
      /\ \A g \in Handle : g # h => Cardinality(Executing(g, stack')) = Cardinality(Executing(g, stack))
 <2>1. \A g \in Handle :
         /\ Cardinality(Executing(g, Scopes!Front(stack))) \in Nat
         /\ Cardinality(Executing(g, stack)) = Cardinality(Executing(g, Scopes!Front(stack)))
              + (IF stack[Len(stack)].kind = "activation" /\ stack[Len(stack)].run = g THEN 1 ELSE 0)
   BY <1>1, ExecutingPopped
 <2>2. stack[Len(stack)].kind = "activation" /\ stack[Len(stack)].run = h
   BY <1>2 DEF Scopes!Top
 <2>3. QED BY <1>1, <2>1, <2>2
<1>6. HandleOk(h, handle[h], stack, born, owners)  BY HandleIs
<1>7. ~handle[h].finished  BY <1>5, <1>6 DEF HandleOk
<1>8. HandleOk(h, x, stack', born, owners)  BY <1>2, <1>5, <1>6, <1>7 DEF HandleOk
<1>9. HandlesOk(handle', stack', born, owners)
 <2>1. PICK s : s = stack'
   OBVIOUS
 <2>2. HandlesOk(handle', s, born, owners)  BY <1>2, <1>5, <1>8, <2>1, HandleMoves
 <2>3. QED BY <2>1, <2>2
<1>10. QED BY <1>1, <1>3, <1>4, <1>9 DEF ScopeInv

(* The handle of the executing activation. *)
LEMMA TopIs ==
  ASSUME ScopeInv, stack # <<>>, Scopes!Top.kind = "activation"
  PROVE  /\ Scopes!Top.run \in Handle /\ DOMAIN handle = Handle
         /\ HandleOk(Scopes!Top.run, handle[Scopes!Top.run], stack, born, owners)
         /\ handle[Scopes!Top.run].active \in Int /\ handle[Scopes!Top.run].waiting \in Nat
<1>1. /\ stack \in Seq(FrameSet) /\ \A i \in DOMAIN stack : FrameOk(i, stack[i], resource)
  BY DEF ScopeInv, FramesOk
<1>2. Len(stack) \in DOMAIN stack  BY <1>1
<1>3. Scopes!Top.run \in Handle  BY <1>1, <1>2 DEF Scopes!Top, FrameOk
<1>4. /\ HandleOk(Scopes!Top.run, handle[Scopes!Top.run], stack, born, owners) /\ DOMAIN handle = Handle
      /\ Cardinality(Executing(Scopes!Top.run, stack)) \in Nat
  BY <1>3, HandleIs
<1>5. QED BY <1>3, <1>4 DEF HandleOk

LEMMA ReturnsNow == ASSUME ScopeInv, NEW kept \in BOOLEAN, Scopes!ReturnNow(kept) PROVE ScopeInv'
<1>1. /\ stack # <<>> /\ Scopes!Top.kind = "activation" /\ Scopes!Pop
      /\ handle' = [handle EXCEPT ![Scopes!Top.run].active = @ - 1, ![Scopes!Top.run].stale = IF kept THEN 1 ELSE @]
      /\ UNCHANGED <<born, resource, owners, hook>>
  BY DEF Scopes!ReturnNow
<1>2. /\ Scopes!Top.run \in Handle /\ DOMAIN handle = Handle
      /\ HandleOk(Scopes!Top.run, handle[Scopes!Top.run], stack, born, owners)
      /\ handle[Scopes!Top.run].active \in Int /\ handle[Scopes!Top.run].waiting \in Nat
  BY <1>1, TopIs
<1>3. PICK h : h = Scopes!Top.run
  OBVIOUS
<1>4. PICK x : x = [[handle[h] EXCEPT !.active = @ - 1] EXCEPT !.stale = IF kept THEN 1 ELSE @]
  OBVIOUS
<1>5. /\ DOMAIN x = {"active", "waiting", "stale", "finished", "owned"}
      /\ x.active = handle[h].active - 1 /\ x.waiting = handle[h].waiting
      /\ (x.finished <=> handle[h].finished) /\ (x.owned <=> handle[h].owned)
  BY <1>2, <1>3, <1>4 DEF HandleOk
<1>6. handle' = [handle EXCEPT ![h] = x]  BY <1>1, <1>2, <1>3, <1>4
<1>7. /\ handle' = [handle EXCEPT ![Scopes!Top.run] = x]
      /\ x.finished <=> handle[Scopes!Top.run].finished
      /\ x.owned <=> handle[Scopes!Top.run].owned
  BY <1>3, <1>5, <1>6
<1>8. /\ x.waiting \in Nat /\ x.active \in Int
      /\ x.active - x.waiting = handle[Scopes!Top.run].active - handle[Scopes!Top.run].waiting - 1
      /\ x.active \in {handle[Scopes!Top.run].active, handle[Scopes!Top.run].active - 1}
  BY <1>2, <1>3, <1>5
<1>9. DOMAIN x = {"active", "waiting", "stale", "finished", "owned"}  BY <1>5
<1>10. QED BY <1>1, <1>7, <1>8, <1>9, ActivationReturns

LEMMA ReturnsThenable == ASSUME ScopeInv, Scopes!ReturnThenable PROVE ScopeInv'
<1>1. /\ stack # <<>> /\ Scopes!Top.kind = "activation" /\ Scopes!Pop
      /\ handle' = [handle EXCEPT ![Scopes!Top.run].waiting = @ + 1]
      /\ UNCHANGED <<born, resource, owners, hook>>
  BY DEF Scopes!ReturnThenable
<1>2. /\ Scopes!Top.run \in Handle /\ DOMAIN handle = Handle
      /\ HandleOk(Scopes!Top.run, handle[Scopes!Top.run], stack, born, owners)
      /\ handle[Scopes!Top.run].active \in Int /\ handle[Scopes!Top.run].waiting \in Nat
  BY <1>1, TopIs
<1>3. PICK h : h = Scopes!Top.run
  OBVIOUS
<1>4. PICK x : x = [handle[h] EXCEPT !.waiting = @ + 1]
  OBVIOUS
<1>5. /\ DOMAIN x = {"active", "waiting", "stale", "finished", "owned"}
      /\ x.active = handle[h].active /\ x.waiting = handle[h].waiting + 1
      /\ (x.finished <=> handle[h].finished) /\ (x.owned <=> handle[h].owned)
  BY <1>2, <1>3, <1>4 DEF HandleOk
<1>6. handle' = [handle EXCEPT ![h] = x]  BY <1>1, <1>2, <1>3, <1>4
<1>7. /\ handle' = [handle EXCEPT ![Scopes!Top.run] = x]
      /\ x.finished <=> handle[Scopes!Top.run].finished
      /\ x.owned <=> handle[Scopes!Top.run].owned
  BY <1>3, <1>5, <1>6
<1>8. /\ x.waiting \in Nat /\ x.active \in Int
      /\ x.active - x.waiting = handle[Scopes!Top.run].active - handle[Scopes!Top.run].waiting - 1
      /\ x.active \in {handle[Scopes!Top.run].active, handle[Scopes!Top.run].active - 1}
  BY <1>2, <1>3, <1>5
<1>9. DOMAIN x = {"active", "waiting", "stale", "finished", "owned"}  BY <1>5
<1>10. QED BY <1>1, <1>7, <1>8, <1>9, ActivationReturns

-----------------------------------------------------------------------------
(* Async resources. *)

(* A resource alone moves, and no frame is its callback. *)
LEMMA ResourceAlone ==
  ASSUME ScopeInv, NEW a \in Resource, NEW x, resource' = [resource EXCEPT ![a] = x],
         DOMAIN x = {"state", "chain", "owner"}, ChainOk(x.chain, born),
         x.owner # Scopes!None => x.owner \in owners.registered \ owners.collected,
         x.state \in {"pending", "running"} /\ x.chain # <<>> => x.owner = x.chain[Len(x.chain)],
         resource[a].state # "running" \/ stack' = <<>>,
         FramesOk(stack', resource, born), PinsOk(stack', synchronous'), synchronous' \subseteq synchronous,
         HandlesOk(handle, stack', born, owners),
         UNCHANGED <<born, handle, owners, hook>>
  PROVE  ScopeInv'
<1>1. /\ born \subseteq Scopes!Frames /\ ResourcesOk(resource, born, owners)
      /\ OwnersOk(owners, born, synchronous, hook)
  BY DEF ScopeInv
<1>2. DOMAIN resource' = Resource /\ resource'[a] = x /\ \A c \in Resource : c # a => resource'[c] = resource[c]
  BY <1>1 DEF ResourcesOk
<1>3. ResourcesOk(resource', born, owners)  BY <1>1, <1>2 DEF ResourcesOk
<1>4. OwnersOk(owners, born, synchronous', hook)  BY <1>1, Unpinned
<1>5. FramesOk(stack', resource', born)
 <2>1. /\ stack' \in Seq(FrameSet)
       /\ \A i \in DOMAIN stack' : ChainOk(stack'[i].chain, born) /\ FrameOk(i, stack'[i], resource)
   BY DEF FramesOk
 <2>2. ASSUME NEW i \in DOMAIN stack' PROVE FrameOk(i, stack'[i], resource')
  <3>1. FrameOk(i, stack'[i], resource)  BY <2>1, <2>2
  <3>2. stack' # <<>>  BY <2>2
  <3>3. stack'[i].kind = "callback" => stack'[i].resource \in Resource /\ stack'[i].resource # a
    BY <3>1, <3>2 DEF FrameOk
  <3>4. QED BY <3>1, <3>3, <1>2 DEF FrameOk
 <2>3. QED BY <2>1, <2>2 DEF FramesOk
<1>6. QED BY <1>1, <1>3, <1>4, <1>5 DEF ScopeInv

LEMMA ResourcesCreated == ASSUME ScopeInv, NEW a \in Resource, Scopes!CreateResource(a) PROVE ScopeInv'
<1>1. PICK c : c = Scopes!Context
  OBVIOUS
<1>2. PICK x : x = [state |-> "pending", chain |-> c,
                    owner |-> IF hook /\ c # <<>> /\ c[Len(c)] \notin owners.collected
                                THEN c[Len(c)] ELSE Scopes!None]
  OBVIOUS
<1>3. /\ stack # <<>> /\ resource[a].state = "unused" /\ resource' = [resource EXCEPT ![a] = x]
      /\ UNCHANGED <<born, handle, stack, synchronous, owners, hook>>
  BY <1>1, <1>2 DEF Scopes!CreateResource
<1>4. /\ born \subseteq Scopes!Frames /\ FramesOk(stack, resource, born) /\ PinsOk(stack, synchronous)
      /\ ResourcesOk(resource, born, owners) /\ OwnersOk(owners, born, synchronous, hook)
      /\ HandlesOk(handle, stack, born, owners)
  BY DEF ScopeInv
<1>5. ChainOk(c, born) /\ Len(stack) \in DOMAIN stack /\ c = stack[Len(stack)].chain
  BY <1>1, <1>3, ContextIs
<1>6. c # <<>> => c[Len(c)] \in owners.registered \ owners.collected
 <2>1. FrameOk(Len(stack), stack[Len(stack)], resource) /\ stack[Len(stack)] \in FrameSet
   BY <1>4, <1>5 DEF FramesOk
 <2>2. stack[Len(stack)].kind \in {"scope", "activation", "outside", "callback"}
   BY <2>1 DEF FrameSet
 <2>3. CASE stack[Len(stack)].kind \in {"scope", "activation"}
  <3>1. stack[Len(stack)].run \in Scopes!Frames /\ c[Len(c)] = stack[Len(stack)].run
    BY <2>1, <2>3, <1>5 DEF FrameOk
  <3>2. stack[Len(stack)].run \in synchronous  BY <3>1, <1>4, <1>5 DEF PinsOk
  <3>3. QED BY <3>1, <3>2, <1>4 DEF OwnersOk
 <2>4. CASE stack[Len(stack)].kind = "outside"
   BY <2>1, <2>4, <1>5 DEF FrameOk
 <2>5. CASE stack[Len(stack)].kind = "callback"
  <3>1. PICK b \in Resource : resource[b].state = "running" /\ c = resource[b].chain
    BY <2>1, <2>5, <1>5 DEF FrameOk
  <3>2. c # <<>> => resource[b].owner = c[Len(c)]  BY <3>1, <1>4 DEF ResourcesOk
  <3>3. c # <<>> => c[Len(c)] # Scopes!None
   <4>1. c \in Seq(Scopes!Frames)  BY <1>4, <1>5 DEF ChainOk
   <4>2. c # <<>> => c[Len(c)] \in Scopes!Frames  BY <4>1
   <4>3. QED BY <4>2, RunsAssumption
  <3>4. QED BY <3>2, <3>3, <1>4 DEF ResourcesOk
 <2>6. QED BY <2>2, <2>3, <2>4, <2>5
<1>7. c # <<>> => hook
 <2>1. owners.registered # owners.collected => hook  BY <1>4, CountsAre
 <2>2. QED BY <1>6, <2>1
<1>8. /\ DOMAIN x = {"state", "chain", "owner"} /\ x.state = "pending" /\ x.chain = c
      /\ x.owner = IF c # <<>> THEN c[Len(c)] ELSE Scopes!None
  BY <1>2, <1>6, <1>7
<1>9. /\ x.owner # Scopes!None => x.owner \in owners.registered \ owners.collected
      /\ x.chain # <<>> => x.owner = x.chain[Len(x.chain)]
      /\ ChainOk(x.chain, born)
  BY <1>5, <1>6, <1>8
<1>10. FramesOk(stack', resource, born) /\ PinsOk(stack', synchronous') /\ HandlesOk(handle, stack', born, owners)
  BY <1>3, <1>4
<1>11. resource[a].state # "running" /\ synchronous' \subseteq synchronous
  BY <1>3
<1>12. QED BY <1>3, <1>8, <1>9, <1>10, <1>11, ResourceAlone

(* A resource that is resolved owns nothing. *)
LEMMA Resolves == ASSUME ScopeInv, NEW a \in Resource, Scopes!Resolve(a) PROVE ScopeInv'
<1>1. /\ resource[a].state = "pending"
      /\ resource' = [resource EXCEPT ![a].state = "done", ![a].owner = Scopes!None]
      /\ UNCHANGED <<born, handle, stack, synchronous, owners, hook>>
  BY DEF Scopes!Resolve
<1>2. /\ FramesOk(stack, resource, born) /\ PinsOk(stack, synchronous)
      /\ ResourcesOk(resource, born, owners) /\ HandlesOk(handle, stack, born, owners)
  BY DEF ScopeInv
<1>3. DOMAIN resource = Resource /\ DOMAIN resource[a] = {"state", "chain", "owner"} /\ ChainOk(resource[a].chain, born)
  BY <1>2 DEF ResourcesOk
<1>4. PICK x : x = [[resource[a] EXCEPT !.state = "done"] EXCEPT !.owner = Scopes!None]
  OBVIOUS
<1>5. /\ DOMAIN x = {"state", "chain", "owner"} /\ x.state = "done"
      /\ x.chain = resource[a].chain /\ x.owner = Scopes!None
  BY <1>3, <1>4
<1>6. resource' = [resource EXCEPT ![a] = x]  BY <1>1, <1>3, <1>4
<1>7. FramesOk(stack', resource, born) /\ PinsOk(stack', synchronous') /\ HandlesOk(handle, stack', born, owners)
  BY <1>1, <1>2
<1>8. resource[a].state # "running" /\ synchronous' \subseteq synchronous /\ ChainOk(x.chain, born)
  BY <1>1, <1>3, <1>5
<1>9. QED BY <1>1, <1>5, <1>6, <1>7, <1>8, ResourceAlone

(* A callback is the outermost frame, so nothing is left when it returns. *)
LEMMA CallbacksReturn == ASSUME ScopeInv, NEW again \in BOOLEAN, Scopes!ReturnFromCallback(again) PROVE ScopeInv'
<1>1. /\ stack # <<>> /\ Scopes!Top.kind = "callback" /\ Scopes!Pop
      /\ resource' = [resource EXCEPT ![Scopes!Top.resource] =
           IF again THEN [@ EXCEPT !.state = "pending"] ELSE [@ EXCEPT !.state = "done", !.owner = Scopes!None]]
      /\ UNCHANGED <<born, handle, owners, hook>>
  BY DEF Scopes!ReturnFromCallback
<1>2. /\ FramesOk(stack', resource, born)
      /\ PinsOk(stack', synchronous')
      /\ synchronous' \subseteq synchronous
      /\ stack' = Scopes!Front(stack)
      /\ stack \in Seq(FrameSet)
      /\ FrameOk(Len(stack), Scopes!Top, resource)
  BY <1>1, Popped
<1>3. PICK a \in Resource : a = Scopes!Top.resource
  BY <1>1, <1>2 DEF FrameOk
<1>4. Len(stack) = 1 /\ resource[a].state = "running"
  BY <1>1, <1>2, <1>3 DEF FrameOk
<1>5. stack' = <<>>
 <2>1. stack # <<>>  BY <1>1
 <2>2. Scopes!Front(stack) \in Seq(FrameSet) /\ DOMAIN Scopes!Front(stack) = 1..(Len(stack) - 1)
   BY <1>2, <2>1, FrontIs
 <2>3. stack' \in Seq(FrameSet) /\ DOMAIN stack' = 1..0
   BY <1>2, <1>4, <2>2
 <2>4. QED BY <2>3
<1>6. ResourcesOk(resource, born, owners) /\ HandlesOk(handle, stack, born, owners)
  BY DEF ScopeInv
<1>7. \A h \in Handle : Cardinality(Executing(h, stack')) = Cardinality(Executing(h, stack))
  BY <1>1, <1>2, ExecutingPopped DEF Scopes!Top
<1>8. HandlesOk(handle, stack', born, owners)  BY <1>6, <1>7, HandlesKept
<1>9. /\ DOMAIN resource = Resource /\ DOMAIN resource[a] = {"state", "chain", "owner"}
      /\ ChainOk(resource[a].chain, born)
      /\ resource[a].owner # Scopes!None => resource[a].owner \in owners.registered \ owners.collected
      /\ resource[a].chain # <<>> => resource[a].owner = resource[a].chain[Len(resource[a].chain)]
  BY <1>4, <1>6 DEF ResourcesOk
<1>10. CASE again
 <2>1. PICK x : x = [resource[a] EXCEPT !.state = "pending"]
   OBVIOUS
 <2>2. /\ DOMAIN x = {"state", "chain", "owner"} /\ x.state = "pending"
       /\ x.chain = resource[a].chain /\ x.owner = resource[a].owner
   BY <1>9, <2>1
 <2>3. resource' = [resource EXCEPT ![a] = x]  BY <1>1, <1>3, <1>9, <1>10, <2>1
 <2>4. /\ ChainOk(x.chain, born)
       /\ x.owner # Scopes!None => x.owner \in owners.registered \ owners.collected
       /\ x.chain # <<>> => x.owner = x.chain[Len(x.chain)]
   BY <1>9, <2>2
 <2>5. UNCHANGED <<born, handle, owners, hook>>  BY <1>1
 <2>6. QED BY <1>2, <1>5, <1>8, <2>2, <2>3, <2>4, <2>5, ResourceAlone
<1>11. CASE ~again
 <2>1. PICK x : x = [[resource[a] EXCEPT !.state = "done"] EXCEPT !.owner = Scopes!None]
   OBVIOUS
 <2>2. /\ DOMAIN x = {"state", "chain", "owner"} /\ x.state = "done"
       /\ x.chain = resource[a].chain /\ x.owner = Scopes!None
   BY <1>9, <2>1
 <2>3. resource' = [resource EXCEPT ![a] = x]  BY <1>1, <1>3, <1>9, <1>11, <2>1
 <2>4. QED BY <1>1, <1>2, <1>5, <1>8, <1>9, <2>2, <2>3, ResourceAlone
<1>12. QED BY <1>10, <1>11

-----------------------------------------------------------------------------
(* The collector. *)

(* A token is taken when no code, resource or handle keeps it. *)
LEMMA Collects == ASSUME ScopeInv, NEW r \in Scopes!Frames, Scopes!Collect(r) PROVE ScopeInv'
<1>1. /\ r \in owners.registered \ owners.collected /\ r \notin synchronous
      /\ \A a \in Resource : resource[a].owner # r
      /\ r \in Handle => ~handle[r].owned
      /\ owners' = [owners EXCEPT !.collected = @ \union {r}]
      /\ UNCHANGED <<born, handle, stack, synchronous, resource, hook>>
  BY DEF Scopes!Collect
<1>2. /\ born \subseteq Scopes!Frames /\ FramesOk(stack, resource, born) /\ PinsOk(stack, synchronous)
      /\ ResourcesOk(resource, born, owners) /\ OwnersOk(owners, born, synchronous, hook)
      /\ HandlesOk(handle, stack, born, owners)
  BY DEF ScopeInv
<1>3. /\ DOMAIN owners' = {"registered", "collected", "counted"}
      /\ owners'.registered = owners.registered /\ owners'.counted = owners.counted
      /\ owners'.collected = owners.collected \cup {r}
  BY <1>1, <1>2 DEF OwnersOk
<1>4. ResourcesOk(resource, born, owners')  BY <1>1, <1>2, <1>3 DEF ResourcesOk
<1>5. OwnersOk(owners', born, synchronous, hook)  BY <1>1, <1>2, <1>3 DEF OwnersOk
<1>6. HandlesOk(handle, stack, born, owners')  BY <1>1, <1>2, <1>3 DEF HandlesOk, HandleOk
<1>7. QED BY <1>1, <1>2, <1>4, <1>5, <1>6 DEF ScopeInv

LEMMA Finalizes == ASSUME ScopeInv, NEW r \in Scopes!Frames, Scopes!Finalize(r) PROVE ScopeInv'
<1>1. /\ r \in owners.collected \ owners.counted
      /\ owners' = [owners EXCEPT !.counted = @ \union {r}]
      /\ hook' = (hook /\ Scopes!LiveCount > 1)
      /\ UNCHANGED <<born, handle, stack, synchronous, resource>>
  BY DEF Scopes!Finalize
<1>2. /\ born \subseteq Scopes!Frames /\ FramesOk(stack, resource, born) /\ PinsOk(stack, synchronous)
      /\ ResourcesOk(resource, born, owners) /\ OwnersOk(owners, born, synchronous, hook)
      /\ HandlesOk(handle, stack, born, owners)
  BY DEF ScopeInv
<1>3. /\ DOMAIN owners' = {"registered", "collected", "counted"}
      /\ owners'.registered = owners.registered /\ owners'.counted = owners.counted \cup {r}
      /\ owners'.collected = owners.collected
  BY <1>1, <1>2 DEF OwnersOk
<1>4. ResourcesOk(resource, born, owners')  BY <1>2, <1>3 DEF ResourcesOk
<1>5. /\ IsFiniteSet(owners.counted)
      /\ Cardinality(owners.counted) \in Nat /\ Cardinality(owners.registered) \in Nat
  BY <1>2, CountsAre
<1>6. Cardinality(owners'.counted) = Cardinality(owners.counted) + 1
  BY <1>1, <1>3, <1>5, FS_AddElement
<1>7. Cardinality(owners'.registered) > Cardinality(owners'.counted) => hook'
 <2>1. ASSUME Cardinality(owners'.registered) > Cardinality(owners'.counted) PROVE hook'
  <3>1. Cardinality(owners.registered) > Cardinality(owners.counted) + 1  BY <2>1, <1>3, <1>6
  <3>2. Scopes!LiveCount > 1  BY <3>1, <1>5, ScopesCount DEF Scopes!LiveCount
  <3>3. hook  BY <3>1, <1>2, <1>5 DEF OwnersOk
  <3>4. QED BY <3>2, <3>3, <1>1
 <2>2. QED BY <2>1
<1>8. OwnersOk(owners', born, synchronous, hook')  BY <1>1, <1>2, <1>3, <1>7 DEF OwnersOk
<1>9. HandlesOk(handle, stack, born, owners')  BY <1>2, <1>3 DEF HandlesOk, HandleOk
<1>10. QED BY <1>1, <1>2, <1>4, <1>8, <1>9 DEF ScopeInv

LEMMA ScopeStep == ASSUME ScopeInv, [Scopes!Next]_(Scopes!vars) PROVE ScopeInv'
<1>1. ASSUME NEW r \in Scope, Scopes!OpenScope(r) PROVE ScopeInv'
  BY <1>1, ScopesOpen
<1>2. ASSUME NEW h \in Handle,
             Scopes!CreateRun(h) \/ Scopes!Activate(h) \/ Scopes!Settle(h) \/ Scopes!SettleAgain(h) \/ Scopes!Finish(h) \/ Scopes!LetGo(h)
      PROVE  ScopeInv'
  BY <1>2, RunsCreated, Activates, Settles, SettlesAgain, Finishes, LetsGo
<1>3. ASSUME NEW a \in Resource, Scopes!CreateResource(a) \/ Scopes!Resume(a) \/ Scopes!Resolve(a) PROVE ScopeInv'
  BY <1>3, ResourcesCreated, Resumes, Resolves
<1>4. ASSUME NEW b \in BOOLEAN, Scopes!ReturnNow(b) \/ Scopes!ReturnFromCallback(b) PROVE ScopeInv'
  BY <1>4, ReturnsNow, CallbacksReturn
<1>5. ASSUME NEW r \in Scopes!Frames, Scopes!Collect(r) \/ Scopes!Finalize(r) PROVE ScopeInv'
  BY <1>5, Collects, Finalizes
<1>6. ASSUME UNCHANGED Scopes!vars PROVE ScopeInv'
  BY <1>6 DEF Scopes!vars, ScopeInv
<1>7. QED BY <1>1, <1>2, <1>3, <1>4, <1>5, <1>6, GoesOutside, ScopesReturn, ReturnsThenable DEF Scopes!Next

(* What the runs check follows. *)
LEMMA TokensLive == ASSUME ScopeInv PROVE Scopes!TokensOutliveCode
<1>1. /\ born \subseteq Scopes!Frames /\ stack \in Seq(FrameSet) /\ PinsOk(stack, synchronous)
      /\ \A i \in DOMAIN stack : ChainOk(stack[i].chain, born) /\ FrameOk(i, stack[i], resource)
      /\ ResourcesOk(resource, born, owners) /\ OwnersOk(owners, born, synchronous, hook)
  BY DEF ScopeInv, FramesOk
<1>2. ASSUME NEW a \in Resource, resource[a].state \in {"pending", "running"}, resource[a].chain # <<>>
      PROVE  resource[a].chain[Len(resource[a].chain)] \notin owners.collected
 <2>1. /\ resource[a].owner = resource[a].chain[Len(resource[a].chain)]
       /\ ChainOk(resource[a].chain, born)
       /\ resource[a].owner # Scopes!None => resource[a].owner \in owners.registered \ owners.collected
   BY <1>1, <1>2 DEF ResourcesOk
 <2>2. resource[a].chain[Len(resource[a].chain)] \in Scopes!Frames
  <3>1. PICK c : c = resource[a].chain
    OBVIOUS
  <3>2. c \in Seq(Scopes!Frames) /\ c # <<>>
    BY <1>1, <1>2, <2>1, <3>1 DEF ChainOk
  <3>3. c[Len(c)] \in Scopes!Frames  BY <3>2
  <3>4. QED BY <3>1, <3>3
 <2>3. QED BY <2>1, <2>2, RunsAssumption
<1>3. ASSUME NEW i \in DOMAIN stack, stack[i].chain # <<>>
      PROVE  stack[i].chain[Len(stack[i].chain)] \notin owners.collected
 <2>1. FrameOk(i, stack[i], resource) /\ stack[i].kind \in {"scope", "activation", "outside", "callback"}
  <3>1. stack[i] \in FrameSet  BY <1>1
  <3>2. QED BY <3>1, <1>1 DEF FrameSet
 <2>2. CASE stack[i].kind \in {"scope", "activation"}
  <3>1. stack[i].run \in Scopes!Frames /\ stack[i].chain[Len(stack[i].chain)] = stack[i].run
    BY <2>1, <2>2 DEF FrameOk
  <3>2. stack[i].run \in synchronous  BY <3>1, <1>1 DEF PinsOk
  <3>3. QED BY <3>1, <3>2, <1>1 DEF OwnersOk
 <2>3. CASE stack[i].kind = "outside"
   BY <2>1, <2>3, <1>3 DEF FrameOk
 <2>4. CASE stack[i].kind = "callback"
  <3>1. PICK a \in Resource : resource[a].state = "running" /\ stack[i].chain = resource[a].chain
    BY <2>1, <2>4 DEF FrameOk
  <3>2. QED BY <3>1, <1>2, <1>3
 <2>5. QED BY <2>1, <2>2, <2>3, <2>4
<1>4. QED BY <1>2, <1>3 DEF Scopes!TokensOutliveCode

LEMMA HandlesIdle == ASSUME ScopeInv PROVE Scopes!HandlesFinishIdle
<1>1. \A i \in DOMAIN stack : Scopes!IsInjective(stack[i].chain)
  BY DEF ScopeInv, FramesOk, ChainOk
<1>2. ASSUME NEW h \in Handle, handle[h].finished
      PROVE  {i \in DOMAIN stack : stack[i].kind = "activation" /\ stack[i].run = h} = {} /\ handle[h].waiting = 0
 <2>1. /\ HandleOk(h, handle[h], stack, born, owners)
       /\ stack \in Seq(FrameSet)
       /\ Cardinality(Executing(h, stack)) \in Nat
   BY HandleIs
 <2>2. Cardinality(Executing(h, stack)) = 0 /\ handle[h].waiting = 0
   BY <2>1, <1>2 DEF HandleOk
 <2>3. IsFiniteSet(Executing(h, stack))
  <3>1. DOMAIN stack = 1..Len(stack) /\ Len(stack) \in Nat
    BY <2>1
  <3>2. IsFiniteSet(DOMAIN stack)  BY <3>1, FS_Interval
  <3>3. Executing(h, stack) \subseteq DOMAIN stack  BY DEF Executing
  <3>4. QED BY <3>2, <3>3, FS_Subset
 <2>4. Executing(h, stack) = {}  BY <2>2, <2>3, FS_EmptySet
 <2>5. QED BY <2>2, <2>4 DEF Executing
<1>3. QED BY <1>1, <1>2 DEF Scopes!HandlesFinishIdle

-----------------------------------------------------------------------------
InvFields == {"handles", "current", "attempts", "tools", "closing", "violation"}
AttemptFields == {"kind", "phase", "agent", "pulling", "finished"}
Pulls == {"next", "return", "cleanup"}

AttemptOk(x) ==
  /\ DOMAIN x = AttemptFields
  /\ x.kind \in {"none", "response", "stream"}
  /\ x.kind = "none" => x.phase = "new"
  /\ x.kind = "response" => x.phase \in {"calling", "over"}
  /\ x.kind = "stream" => x.phase \in {"idle", "over"} \cup Pulls
  /\ x.phase = "new" => x.kind = "none" /\ ~x.finished
  /\ x.phase # "new" => x.agent \in Agent
  /\ x.pulling => x.phase \in Pulls
  /\ x.phase \in Pulls => x.pulling
  /\ x.phase = "over" => x.finished

(* A model call executes in its agent's run; it is live until its attempt is over. *)
Executes(x) == x.phase \in {"calling"} \cup Pulls
Unfinished(x)     == x.phase # "new" /\ ~x.finished
Busy(x)     == Executes(x) \/ Unfinished(x)

(* One model call at most is busy, and only the run of the agent it executes in is active. *)
CallsOk(att, act, phase) ==
  /\ DOMAIN att = Attempt
  /\ \A t \in Attempt : AttemptOk(att[t])
  /\ \A t, u \in Attempt : Busy(att[t]) /\ Busy(att[u]) => t = u
  /\ act \in [Agents!Runs -> {0, 1}]
  /\ \A a \in Agent : act[a] = 1 <=> \E t \in Attempt : Executes(att[t]) /\ att[t].agent = a
  /\ act[Workflow] = 1 <=> phase = "running"

(* What the invocation knows of its calls and runs. *)
Owned(v, fin, invs, att, act) ==
  /\ DOMAIN v = InvFields
  /\ v.handles \subseteq Agent
  /\ v.current # Agents!Nobody => v.current \in v.handles
  /\ v.attempts \in {0, 1}
  /\ v.attempts = 1 <=> \E t \in Attempt : Unfinished(att[t])
  /\ \A t \in Attempt : Busy(att[t]) => att[t].agent \in v.handles \cup fin
  /\ \A t \in Attempt : Executes(att[t]) /\ att[t].finished => v.violation # "none"
  /\ fin \subseteq Agents!Runs
  /\ \A r \in fin : act[r] = 0
  /\ invs \subseteq v.handles \cup {Workflow}

(* The end of the workflow: it is finished, and a call that is live puts off the release. *)
EndOk(v, fin, invs, att, phase) ==
  /\ v.closing => phase = "over"
  /\ phase = "over" => v.closing
  /\ ~v.closing => fin = {}
  /\ v.closing => Workflow \in fin /\ v.current = Agents!Nobody

FlowOk(f, violation) ==
  /\ DOMAIN f = {"mode", "phase", "outcome", "told"}
  /\ f.mode = "none" => f.phase = "none"
  /\ f.outcome = "none" <=> f.phase # "over"
  /\ violation = "open" => f.outcome \in {"none", "violation"}
  /\ f.told = "done" => f.outcome = "result"

AgentInv ==
  /\ CallsOk(attempt, active, flow.phase)
  /\ Owned(inv, finished, invocations, attempt, active)
  /\ EndOk(inv, finished, invocations, attempt, flow.phase)
  /\ FlowOk(flow, inv.violation)
  /\ overlapped \/ \A t \in Attempt : attempt[t].finished => attempt[t].phase = "over"
  /\ inv.closing => overlapped \/ (invocations = {} /\ inv.handles = {})
                             \/ \E t \in Attempt : Unfinished(attempt[t])

-----------------------------------------------------------------------------

LEMMA AgentInit == ASSUME Agents!Init PROVE AgentInv
<1>1. CallsOk(attempt, active, flow.phase)
  BY RunsAssumption DEF Agents!Init, CallsOk, AttemptOk, AttemptFields, Pulls, Busy, Executes, Unfinished, Agents!Runs
<1>2. Owned(inv, finished, invocations, attempt, active)
  BY RunsAssumption DEF Agents!Init, Owned, InvFields, Busy, Executes, Unfinished, Agents!Runs, Pulls
<1>3. EndOk(inv, finished, invocations, attempt, flow.phase)  BY DEF Agents!Init, EndOk
<1>4. FlowOk(flow, inv.violation)  BY DEF Agents!Init, FlowOk
<1>5. overlapped \/ \A t \in Attempt : attempt[t].finished => attempt[t].phase = "over"
  BY DEF Agents!Init
<1>6. ~inv.closing  BY DEF Agents!Init
<1>7. QED BY <1>1, <1>2, <1>3, <1>4, <1>5, <1>6 DEF AgentInv

(* Every run that is not active is finished, and the invocation is forgotten when all are. *)
LEMMA CloseIs ==
  ASSUME NEW v, DOMAIN v = InvFields, NEW counts, Agents!Close(v, counts)
  PROVE  /\ finished' = finished \cup {r \in v.handles \cup {Workflow} : counts[r] = 0}
         /\ DOMAIN inv' = InvFields
         /\ inv'.closing
         /\ inv'.current = Agents!Nobody
         /\ inv'.attempts = v.attempts
         /\ inv'.violation = v.violation
         /\ \/ /\ v.handles \cup {Workflow} \subseteq finished'
               /\ inv'.handles = {}
               /\ invocations' = invocations \ (v.handles \cup {Workflow})
            \/ /\ ~(v.handles \cup {Workflow} \subseteq finished')
               /\ inv'.handles = v.handles
               /\ invocations' = invocations
BY DEF Agents!Close, Agents!TryFinish, InvFields

(* What a close leaves is owned, and it leaves nothing when no call executes. *)
LEMMA Closing ==
  ASSUME NEW v, NEW att, NEW act, CallsOk(att, act, "over"),
         Owned(v, finished, invocations, att, act), Agents!Close(v, act)
  PROVE  /\ Owned(inv', finished', invocations', att, act)
         /\ inv'.closing /\ inv'.violation = v.violation
         /\ inv'.current = Agents!Nobody /\ Workflow \in finished'
         /\ (\A t \in Attempt : ~Executes(att[t])) => invocations' = {} /\ inv'.handles = {}
<1>1. DOMAIN v = InvFields  BY DEF Owned
<1>2. /\ finished' = finished \cup {r \in v.handles \cup {Workflow} : act[r] = 0}
      /\ DOMAIN inv' = InvFields
      /\ inv'.closing
      /\ inv'.current = Agents!Nobody
      /\ inv'.attempts = v.attempts
      /\ inv'.violation = v.violation
      /\ \/ /\ v.handles \cup {Workflow} \subseteq finished'
            /\ inv'.handles = {}
            /\ invocations' = invocations \ (v.handles \cup {Workflow})
         \/ /\ ~(v.handles \cup {Workflow} \subseteq finished')
            /\ inv'.handles = v.handles
            /\ invocations' = invocations
  BY <1>1, CloseIs
<1>3. /\ v.handles \subseteq Agent
      /\ v.attempts \in {0, 1}
      /\ v.attempts = 1 <=> \E t \in Attempt : Unfinished(att[t])
      /\ \A t \in Attempt : Busy(att[t]) => att[t].agent \in v.handles \cup finished
      /\ \A t \in Attempt : Executes(att[t]) /\ att[t].finished => v.violation # "none"
      /\ finished \subseteq Agents!Runs
      /\ \A r \in finished : act[r] = 0
      /\ invocations \subseteq v.handles \cup {Workflow}
  BY DEF Owned
<1>4. act \in [Agents!Runs -> {0, 1}] /\ act[Workflow] = 0
 <2>1. act \in [Agents!Runs -> {0, 1}] /\ (act[Workflow] = 1 <=> "over" = "running")
   BY DEF CallsOk
 <2>2. Workflow \in Agents!Runs  BY DEF Agents!Runs
 <2>3. QED BY <2>1, <2>2
<1>5. finished' \subseteq Agents!Runs /\ (\A r \in finished' : act[r] = 0) /\ Workflow \in finished'
  BY <1>2, <1>3, <1>4 DEF Agents!Runs
<1>6. \A t \in Attempt : Busy(att[t]) => att[t].agent \in inv'.handles \cup finished'
  BY <1>2, <1>3
<1>7. invocations' \subseteq inv'.handles \cup {Workflow}  BY <1>2, <1>3
<1>8. Owned(inv', finished', invocations', att, act)  BY <1>2, <1>3, <1>5, <1>6, <1>7 DEF Owned
<1>9. ASSUME \A t \in Attempt : ~Executes(att[t])
      PROVE  invocations' = {} /\ inv'.handles = {}
 <2>1. \A a \in Agent : act[a] = 0
   BY <1>4, <1>9 DEF CallsOk, Agents!Runs
 <2>2. v.handles \cup {Workflow} \subseteq finished'  BY <2>1, <1>2, <1>3, <1>4
 <2>3. QED BY <2>2, <1>2, <1>3
<1>10. QED BY <1>2, <1>5, <1>8, <1>9

(* A violation only adds itself. *)
LEMMA FailIs ==
  ASSUME Owned(inv, finished, invocations, attempt, active)
  PROVE  /\ DOMAIN Agents!Fail(inv) = InvFields
         /\ Agents!Fail(inv).handles = inv.handles
         /\ Agents!Fail(inv).current = inv.current
         /\ Agents!Fail(inv).attempts = inv.attempts
         /\ Agents!Fail(inv).closing <=> inv.closing
         /\ Agents!Fail(inv).violation # "none"
         /\ Agents!Fail(inv).violation = inv.violation \/ inv.violation = "none"
         /\ Agents!Fail(inv).violation = "open" => inv.violation = "open" \/ flow.outcome = "none"
BY DEF Owned, Agents!Fail, InvFields

(* An attempt that ends, if it had not, leaves no call and gives back what a close put off. *)
LEMMA Releasing ==
  ASSUME AgentInv, NEW v, NEW t \in Attempt, Busy(attempt[t]),
         DOMAIN v = InvFields, v.handles = inv.handles, v.current = inv.current,
         v.attempts = inv.attempts, v.closing <=> inv.closing,
         inv.violation # "none" => v.violation # "none",
         \A u \in Attempt : u # t => attempt'[u] = attempt[u],
         attempt'[t].agent = attempt[t].agent, attempt'[t].finished,
         Executes(attempt'[t]) => v.violation # "none" /\ overlapped',
         overlapped => overlapped',
         \A r \in Agents!Runs : active[r] = 0 => active'[r] = 0,
         CallsOk(attempt', active', flow.phase),
         Agents!Release(v, t, active'), flow' = flow
  PROVE  /\ Owned(inv', finished', invocations', attempt', active')
         /\ EndOk(inv', finished', invocations', attempt', flow'.phase)
         /\ inv'.violation = v.violation
         /\ inv'.closing => overlapped' \/ (invocations' = {} /\ inv'.handles = {})
                              \/ \E u \in Attempt : Unfinished(attempt'[u])
<1>1. /\ v.handles \subseteq Agent
      /\ v.current # Agents!Nobody => v.current \in v.handles
      /\ v.attempts \in {0, 1}
      /\ v.attempts = 1 <=> \E u \in Attempt : Unfinished(attempt[u])
      /\ \A u \in Attempt : Busy(attempt[u]) => attempt[u].agent \in v.handles \cup finished
      /\ \A u \in Attempt : Executes(attempt[u]) /\ attempt[u].finished => v.violation # "none"
      /\ finished \subseteq Agents!Runs
      /\ \A r \in finished : active[r] = 0
      /\ invocations \subseteq v.handles \cup {Workflow}
  BY DEF AgentInv, Owned
<1>2. \A r \in finished : active'[r] = 0
  BY <1>1
<1>3. \A u \in Attempt : u # t => ~Busy(attempt'[u])
  BY DEF AgentInv, CallsOk
<1>4. ~Unfinished(attempt'[t])  BY DEF Unfinished
<1>5. \A u \in Attempt : ~Unfinished(attempt'[u])
  BY <1>3, <1>4 DEF Busy
<1>6. \A u \in Attempt : Busy(attempt'[u]) => attempt'[u].agent \in v.handles \cup finished
  BY <1>1, <1>3
<1>7. \A u \in Attempt : Executes(attempt'[u]) => v.violation # "none" /\ overlapped'
  BY <1>3 DEF Busy
<1>8. EndOk(v, finished, invocations, attempt', flow.phase)  BY DEF AgentInv, EndOk
<1>9. CASE attempt[t].finished
 <2>1. inv' = v /\ finished' = finished /\ invocations' = invocations
   BY <1>9 DEF Agents!Release
 <2>2. \A u \in Attempt : ~Unfinished(attempt[u])
   BY <1>9, <1>3 DEF Unfinished, Busy
 <2>3. v.attempts # 1  BY <2>2, <1>1
 <2>4. Owned(v, finished, invocations, attempt', active')
   BY <1>1, <1>2, <1>5, <1>6, <1>7, <2>3 DEF Owned
 <2>5. v.closing => overlapped \/ (invocations = {} /\ v.handles = {})
   BY <2>2 DEF AgentInv
 <2>6. QED BY <2>1, <2>4, <2>5, <1>8
<1>10. CASE ~attempt[t].finished
 <2>1. Unfinished(attempt[t])
   BY <1>10 DEF AgentInv, CallsOk, AttemptOk, Busy, Executes, Unfinished, Pulls
 <2>2. PICK w : w = [v EXCEPT !.attempts = @ - 1]
   OBVIOUS
 <2>3. /\ DOMAIN w = InvFields /\ w.handles = v.handles /\ w.current = v.current
       /\ w.attempts = 0 /\ (w.closing <=> v.closing) /\ w.violation = v.violation
   BY <2>1, <2>2, <1>1 DEF InvFields
 <2>4. Owned(w, finished, invocations, attempt', active')
   BY <2>3, <1>1, <1>2, <1>5, <1>6, <1>7 DEF Owned
 <2>5. CASE v.closing
  <3>1. Agents!Close(w, active')  BY <2>5, <2>2, <1>10 DEF Agents!Release
  <3>2. flow.phase = "over"  BY <2>5 DEF AgentInv, EndOk
  <3>3. CallsOk(attempt', active', "over")  BY <3>2
  <3>4. /\ Owned(inv', finished', invocations', attempt', active')
        /\ inv'.closing /\ inv'.violation = w.violation
        /\ inv'.current = Agents!Nobody /\ Workflow \in finished'
        /\ (\A u \in Attempt : ~Executes(attempt'[u])) => invocations' = {} /\ inv'.handles = {}
    BY <3>1, <3>3, <2>4, Closing
  <3>5. EndOk(inv', finished', invocations', attempt', flow'.phase)  BY <3>2, <3>4 DEF EndOk
  <3>6. overlapped' \/ (invocations' = {} /\ inv'.handles = {})
    BY <3>4, <1>7
  <3>7. QED BY <3>4, <3>5, <3>6, <2>3
 <2>6. CASE ~v.closing
  <3>1. inv' = w /\ finished' = finished /\ invocations' = invocations
    BY <2>6, <2>2, <1>10 DEF Agents!Release
  <3>2. EndOk(w, finished, invocations, attempt', flow.phase)  BY <1>8, <2>3, <2>6 DEF EndOk
  <3>3. QED BY <3>1, <3>2, <2>3, <2>4, <2>6
 <2>7. QED BY <2>5, <2>6
<1>11. QED BY <1>9, <1>10

(* An action that leaves the calls alone and closes nothing. *)
LEMMA CallsStay ==
  ASSUME AgentInv, UNCHANGED <<attempt, active, finished, flow, overlapped>>,
         DOMAIN inv' = InvFields, inv'.handles \subseteq Agent, inv.handles \subseteq inv'.handles,
         inv'.current # Agents!Nobody => inv'.current \in inv'.handles,
         inv.closing => inv'.current = Agents!Nobody /\ inv'.handles = inv.handles /\ invocations' = invocations,
         inv'.attempts = inv.attempts, inv'.closing <=> inv.closing,
         inv.violation # "none" => inv'.violation # "none",
         inv'.violation = "open" => inv.violation = "open" \/ flow.outcome = "none",
         invocations' \subseteq inv'.handles \cup {Workflow}
  PROVE  AgentInv'
<1>1. CallsOk(attempt, active, flow.phase)'  BY DEF AgentInv
<1>2. Owned(inv, finished, invocations, attempt, active)'  BY DEF AgentInv, Owned
<1>3. EndOk(inv, finished, invocations, attempt, flow.phase)'  BY DEF AgentInv, EndOk
<1>4. FlowOk(flow, inv.violation)'  BY DEF AgentInv, FlowOk
<1>5. (overlapped \/ \A t \in Attempt : attempt[t].finished => attempt[t].phase = "over")'
  BY DEF AgentInv
<1>6. (inv.closing => overlapped \/ (invocations = {} /\ inv.handles = {})
                        \/ \E t \in Attempt : Unfinished(attempt[t]))'
  BY DEF AgentInv
<1>7. QED BY <1>1, <1>2, <1>3, <1>4, <1>5, <1>6 DEF AgentInv

(* A violation alone. *)
LEMMA Failing ==
  ASSUME AgentInv, inv' = Agents!Fail(inv),
         UNCHANGED <<flow, attempt, active, finished, invocations, overlapped>>
  PROVE  AgentInv'
<1>1. Owned(inv, finished, invocations, attempt, active)  BY DEF AgentInv
<1>2. /\ DOMAIN inv' = InvFields
      /\ inv'.handles = inv.handles
      /\ inv'.current = inv.current
      /\ inv'.attempts = inv.attempts
      /\ inv'.closing <=> inv.closing
      /\ inv'.violation # "none"
      /\ inv'.violation = inv.violation \/ inv.violation = "none"
      /\ inv'.violation = "open" => inv.violation = "open" \/ flow.outcome = "none"
  BY <1>1, FailIs
<1>3. inv.closing => inv.current = Agents!Nobody  BY DEF AgentInv, EndOk
<1>4. /\ inv.handles \subseteq Agent
      /\ inv.current # Agents!Nobody => inv.current \in inv.handles
      /\ invocations \subseteq inv.handles \cup {Workflow}
  BY <1>1 DEF Owned
<1>5. QED BY <1>2, <1>3, <1>4, CallsStay

LEMMA NestedFails == ASSUME AgentInv, Agents!Nested PROVE AgentInv'
BY Failing DEF Agents!Nested

LEMMA AgentStarts == ASSUME AgentInv, NEW a \in Agent, Agents!AgentStart(a) PROVE AgentInv'
<1>1. UNCHANGED <<flow, attempt, active, finished, overlapped>>
  BY DEF Agents!AgentStart, Agents!Listener
<1>2. CASE Agents!Admitted(inv) /\ inv.current = Agents!Nobody /\ inv.attempts = 0
 <2>1. inv' = [inv EXCEPT !.current = a, !.handles = @ \union {a}] /\ invocations' = invocations \cup {a}
   BY <1>2 DEF Agents!AgentStart, Agents!Listener
 <2>2. DOMAIN inv = InvFields /\ inv.handles \subseteq Agent /\ invocations \subseteq inv.handles \cup {Workflow}
   BY DEF AgentInv, Owned
 <2>3. /\ DOMAIN inv' = InvFields /\ inv'.handles = inv.handles \cup {a} /\ inv'.current = a
       /\ inv'.attempts = inv.attempts /\ (inv'.closing <=> inv.closing)
       /\ inv'.violation = inv.violation
   BY <2>1, <2>2 DEF InvFields
 <2>4. ~inv.closing  BY <1>2 DEF Agents!Admitted
 <2>5. QED BY <1>1, <2>1, <2>2, <2>3, <2>4, CallsStay
<1>3. CASE ~(Agents!Admitted(inv) /\ inv.current = Agents!Nobody /\ inv.attempts = 0)
 <2>1. inv' = Agents!Fail(inv) /\ invocations' = invocations
   BY <1>3 DEF Agents!AgentStart, Agents!Listener
 <2>2. QED BY <1>1, <2>1, Failing
<1>4. QED BY <1>2, <1>3

(* The other listeners move the current agent and its tools. *)
LEMMA Listening ==
  ASSUME AgentInv, NEW ok, NEW next, Agents!Listener(ok, next), UNCHANGED invocations,
         DOMAIN next = InvFields, next.handles = inv.handles,
         next.current = inv.current \/ next.current = Agents!Nobody,
         next.attempts = inv.attempts, next.closing <=> inv.closing,
         next.violation = inv.violation
  PROVE  AgentInv'
<1>1. UNCHANGED <<flow, attempt, active, finished, overlapped>>  BY DEF Agents!Listener
<1>2. CASE inv' = Agents!Fail(inv)
  BY <1>1, <1>2, Failing
<1>3. CASE inv' = next
 <2>1. inv.closing => inv.current = Agents!Nobody  BY DEF AgentInv, EndOk
 <2>2. /\ inv.handles \subseteq Agent
       /\ inv.current # Agents!Nobody => inv.current \in inv.handles
       /\ invocations \subseteq inv.handles \cup {Workflow}
   BY DEF AgentInv, Owned
 <2>3. QED BY <1>1, <1>3, <2>1, <2>2, CallsStay
<1>4. QED BY <1>2, <1>3 DEF Agents!Listener

LEMMA AgentEnds == ASSUME AgentInv, NEW a \in Agent, Agents!AgentEnd(a) PROVE AgentInv'
<1>1. PICK v : v = [inv EXCEPT !.current = Agents!Nobody]
  OBVIOUS
<1>2. DOMAIN inv = InvFields  BY DEF AgentInv, Owned
<1>3. /\ DOMAIN v = InvFields /\ v.handles = inv.handles /\ v.current = Agents!Nobody
      /\ v.attempts = inv.attempts /\ (v.closing <=> inv.closing) /\ v.violation = inv.violation
  BY <1>1, <1>2 DEF InvFields
<1>4. PICK ok : ok = (a = inv.current /\ inv.attempts = 0)
  OBVIOUS
<1>5. Agents!Listener(ok, v) /\ UNCHANGED invocations
  BY <1>1, <1>4 DEF Agents!AgentEnd
<1>6. QED BY <1>3, <1>5, Listening

LEMMA Tooling ==
  ASSUME AgentInv, NEW ok, NEW n, Agents!Listener(ok, [inv EXCEPT !.tools = n]), UNCHANGED invocations
  PROVE  AgentInv'
<1>1. PICK v : v = [inv EXCEPT !.tools = n]
  OBVIOUS
<1>2. DOMAIN inv = InvFields  BY DEF AgentInv, Owned
<1>3. /\ DOMAIN v = InvFields /\ v.handles = inv.handles /\ v.current = inv.current
      /\ v.attempts = inv.attempts /\ (v.closing <=> inv.closing) /\ v.violation = inv.violation
  BY <1>1, <1>2 DEF InvFields
<1>4. Agents!Listener(ok, v)  BY <1>1
<1>5. QED BY <1>3, <1>4, Listening

LEMMA ToolsStart == ASSUME AgentInv, NEW a \in Agent, Agents!ToolStart(a) PROVE AgentInv'
<1>1. PICK ok : ok = (a = inv.current)
  OBVIOUS
<1>2. PICK n : n = inv.tools + 1
  OBVIOUS
<1>3. [inv EXCEPT !.tools = @ + 1] = [inv EXCEPT !.tools = n]  BY <1>2
<1>4. Agents!Listener(ok, [inv EXCEPT !.tools = n]) /\ UNCHANGED invocations
  BY <1>1, <1>3 DEF Agents!ToolStart
<1>5. QED BY <1>4, Tooling

LEMMA ToolsEnd == ASSUME AgentInv, NEW a \in Agent, Agents!ToolEnd(a) PROVE AgentInv'
<1>1. PICK ok : ok = (a = inv.current)
  OBVIOUS
<1>2. PICK n : n = IF inv.tools = 0 THEN 0 ELSE inv.tools - 1
  OBVIOUS
<1>3. [inv EXCEPT !.tools = IF @ = 0 THEN 0 ELSE @ - 1] = [inv EXCEPT !.tools = n]
  BY <1>2
<1>4. Agents!Listener(ok, [inv EXCEPT !.tools = n]) /\ UNCHANGED invocations
  BY <1>1, <1>3 DEF Agents!ToolEnd
<1>5. QED BY <1>4, Tooling

-----------------------------------------------------------------------------
(* Model calls. *)

(* One call changes: what is left to say of the calls and of the runs. *)
LEMMA OneCallMoves ==
  ASSUME NEW att, NEW act, NEW phase, CallsOk(att, act, phase), NEW t \in Attempt, NEW b, NEW c,
         DOMAIN b = Attempt, \A u \in Attempt : u # t => b[u] = att[u],
         AttemptOk(b[t]), \A u \in Attempt : u # t => ~Busy(att[u]),
         att[t].phase # "new" => b[t].agent = att[t].agent,
         c \in [Agents!Runs -> {0, 1}], c[Workflow] = act[Workflow],
         \A a \in Agent : c[a] = 1 <=> Executes(b[t]) /\ b[t].agent = a
  PROVE  CallsOk(b, c, phase)
<1>1. \A u \in Attempt : u # t => ~Busy(b[u]) /\ ~Executes(b[u])
  BY DEF Busy
<1>2. \A u \in Attempt : AttemptOk(b[u])
  BY DEF CallsOk
<1>3. \A u, w \in Attempt : Busy(b[u]) /\ Busy(b[w]) => u = w
  BY <1>1
<1>4. \A a \in Agent : c[a] = 1 <=> \E u \in Attempt : Executes(b[u]) /\ b[u].agent = a
  BY <1>1
<1>5. c[Workflow] = 1 <=> phase = "running"  BY DEF CallsOk
<1>6. QED BY <1>2, <1>3, <1>4, <1>5 DEF CallsOk

(* The activation of a busy call's run ends. *)
LEMMA Settling ==
  ASSUME AgentInv, NEW t \in Attempt, Executes(attempt[t])
  PROVE  /\ Agents!Settled(attempt[t].agent) \in [Agents!Runs -> {0, 1}]
         /\ Agents!Settled(attempt[t].agent)[Workflow] = active[Workflow]
         /\ \A a \in Agent : Agents!Settled(attempt[t].agent)[a] = 0
         /\ \A r \in Agents!Runs : active[r] = 0 => Agents!Settled(attempt[t].agent)[r] = 0
<1>1. /\ active \in [Agents!Runs -> {0, 1}]
      /\ \A a \in Agent : active[a] = 1 <=> \E u \in Attempt : Executes(attempt[u]) /\ attempt[u].agent = a
      /\ \A u, w \in Attempt : Busy(attempt[u]) /\ Busy(attempt[w]) => u = w
      /\ AttemptOk(attempt[t])
  BY DEF AgentInv, CallsOk
<1>2. attempt[t].agent \in Agent  BY <1>1 DEF AttemptOk, Executes, Pulls
<1>3. active[attempt[t].agent] = 1  BY <1>1, <1>2
<1>4. \A a \in Agent : a # attempt[t].agent => active[a] = 0
 <2>1. \A u \in Attempt : Executes(attempt[u]) => u = t
   BY <1>1 DEF Busy
 <2>2. \A a \in Agent : a # attempt[t].agent => active[a] # 1
   BY <1>1, <2>1
 <2>3. QED BY <2>2, <1>1 DEF Agents!Runs
<1>5. QED BY <1>1, <1>2, <1>3, <1>4, RunsAssumption DEF Agents!Settled, Agents!Runs

LEMMA CallsEnd ==
  ASSUME AgentInv, NEW t \in Attempt, Executes(attempt[t]), Agents!Ended(t, "over")
  PROVE  AgentInv'
<1>1. /\ active' = Agents!Settled(attempt[t].agent)
      /\ attempt' = [attempt EXCEPT ![t].phase = "over", ![t].pulling = FALSE, ![t].finished = TRUE]
      /\ Agents!Release(inv, t, active')
      /\ UNCHANGED <<flow, overlapped>>
  BY DEF Agents!Ended
<1>2. /\ CallsOk(attempt, active, flow.phase)
      /\ DOMAIN attempt = Attempt /\ AttemptOk(attempt[t])
      /\ \A u \in Attempt : u # t => ~Busy(attempt[u])
  BY DEF AgentInv, CallsOk, Busy
<1>3. /\ DOMAIN attempt' = Attempt
      /\ \A u \in Attempt : u # t => attempt'[u] = attempt[u]
      /\ DOMAIN attempt'[t] = AttemptFields
      /\ attempt'[t].kind = attempt[t].kind /\ attempt'[t].agent = attempt[t].agent
      /\ attempt'[t].phase = "over" /\ ~attempt'[t].pulling /\ attempt'[t].finished
  BY <1>1, <1>2 DEF AttemptOk, AttemptFields
<1>4. AttemptOk(attempt'[t])  BY <1>2, <1>3 DEF AttemptOk, Executes, Pulls
<1>5. ~Executes(attempt'[t])  BY <1>3 DEF Executes, Pulls
<1>6. /\ active' \in [Agents!Runs -> {0, 1}]
      /\ active'[Workflow] = active[Workflow]
      /\ \A a \in Agent : active'[a] = 0
      /\ \A r \in Agents!Runs : active[r] = 0 => active'[r] = 0
  BY <1>1, Settling
<1>7. CallsOk(attempt', active', flow.phase)  BY <1>2, <1>3, <1>4, <1>5, <1>6, OneCallMoves
<1>8. DOMAIN inv = InvFields  BY DEF AgentInv, Owned
<1>9. Busy(attempt[t])  BY DEF Busy
<1>10. /\ Owned(inv', finished', invocations', attempt', active')
       /\ EndOk(inv', finished', invocations', attempt', flow'.phase)
       /\ inv'.violation = inv.violation
       /\ inv'.closing => overlapped' \/ (invocations' = {} /\ inv'.handles = {})
                            \/ \E u \in Attempt : Unfinished(attempt'[u])
 <2>1. PICK v : v = inv
   OBVIOUS
 <2>2. Agents!Release(v, t, active')  BY <1>1, <2>1
 <2>3. flow' = flow /\ overlapped' = overlapped
   BY <1>1
 <2>4. /\ Owned(inv', finished', invocations', attempt', active')
       /\ EndOk(inv', finished', invocations', attempt', flow'.phase)
       /\ inv'.violation = v.violation
       /\ inv'.closing => overlapped' \/ (invocations' = {} /\ inv'.handles = {})
                            \/ \E u \in Attempt : Unfinished(attempt'[u])
   BY <1>3, <1>5, <1>6, <1>7, <1>8, <1>9, <2>1, <2>2, <2>3, Releasing
 <2>5. QED BY <2>1, <2>4
<1>11. FlowOk(flow', inv'.violation)  BY <1>1, <1>10 DEF AgentInv, FlowOk
<1>12. overlapped' \/ \A u \in Attempt : attempt'[u].finished => attempt'[u].phase = "over"
  BY <1>1, <1>3 DEF AgentInv
<1>13. QED BY <1>1, <1>7, <1>10, <1>11, <1>12 DEF AgentInv

LEMMA ResponsesSettle == ASSUME AgentInv, NEW t \in Attempt, Agents!ResponseSettles(t) PROVE AgentInv'
BY CallsEnd DEF Agents!ResponseSettles, Executes

LEMMA PullsEnd == ASSUME AgentInv, NEW t \in Attempt, Agents!PullEnds(t) PROVE AgentInv'
BY CallsEnd DEF Agents!PullEnds, Executes, Pulls

LEMMA PulledTwice == ASSUME AgentInv, NEW t \in Attempt, Agents!PullTwice(t) PROVE AgentInv'
BY Failing DEF Agents!PullTwice

LEMMA CallsBegin ==
  ASSUME AgentInv, NEW t \in Attempt, NEW kind \in {"response", "stream"}, Agents!BeginAttempt(t, kind)
  PROVE  AgentInv'
<1>1. CASE ~Agents!MayBegin
 <2>1. inv' = Agents!Fail(inv) /\ UNCHANGED <<flow, attempt, active, finished, invocations, overlapped>>
   BY <1>1 DEF Agents!BeginAttempt
 <2>2. QED BY <2>1, Failing
<1>2. CASE Agents!MayBegin
 <2>1. /\ CallsOk(attempt, active, flow.phase)
       /\ DOMAIN attempt = Attempt /\ active \in [Agents!Runs -> {0, 1}]
       /\ \A u \in Attempt : AttemptOk(attempt[u])
       /\ \A a \in Agent : active[a] = 1 <=> \E u \in Attempt : Executes(attempt[u]) /\ attempt[u].agent = a
   BY DEF AgentInv, CallsOk
 <2>2. /\ DOMAIN inv = InvFields /\ inv.handles \subseteq Agent /\ inv.current \in inv.handles
       /\ inv.attempts = 0 /\ inv.violation = "none" /\ ~inv.closing
       /\ \A u \in Attempt : ~Unfinished(attempt[u])
       /\ \A u \in Attempt : Executes(attempt[u]) => ~attempt[u].finished
       /\ finished = {} /\ invocations \subseteq inv.handles \cup {Workflow}
   BY <1>2 DEF AgentInv, Owned, EndOk, Agents!MayBegin, Agents!Admitted
 <2>3. \A u \in Attempt : ~Busy(attempt[u]) /\ ~Executes(attempt[u])
   BY <2>2 DEF Busy, Unfinished, Executes, Pulls
 <2>4. /\ attempt[t].phase = "new"
       /\ inv' = [inv EXCEPT !.attempts = @ + 1]
       /\ attempt' = [attempt EXCEPT ![t] =
            [kind |-> kind, agent |-> inv.current, pulling |-> FALSE, finished |-> FALSE,
             phase |-> IF kind = "response" THEN "calling" ELSE "idle"]]
       /\ active' = IF kind = "response" THEN Agents!Activate(inv.current) ELSE active
       /\ UNCHANGED <<flow, finished, invocations, overlapped>>
   BY <1>2 DEF Agents!BeginAttempt
 <2>5. /\ DOMAIN attempt' = Attempt
       /\ \A u \in Attempt : u # t => attempt'[u] = attempt[u]
       /\ DOMAIN attempt'[t] = AttemptFields
       /\ attempt'[t].kind = kind /\ attempt'[t].agent = inv.current
       /\ ~attempt'[t].pulling /\ ~attempt'[t].finished
       /\ attempt'[t].phase = IF kind = "response" THEN "calling" ELSE "idle"
   BY <2>1, <2>4 DEF AttemptFields
 <2>6. AttemptOk(attempt'[t])  BY <2>2, <2>5 DEF AttemptOk, Pulls
 <2>7. \A a \in Agent : active[a] = 0
   BY <2>1, <2>3 DEF Agents!Runs
 <2>8. inv.current \in Agent  BY <2>2
 <2>9. /\ active' \in [Agents!Runs -> {0, 1}]
       /\ active'[Workflow] = active[Workflow]
       /\ \A a \in Agent : active'[a] = 1 <=> Executes(attempt'[t]) /\ attempt'[t].agent = a
  <3>1. CASE kind = "response"
   <4>1. active' = [active EXCEPT ![inv.current] = @ + 1]  BY <3>1, <2>4 DEF Agents!Activate
   <4>2. Executes(attempt'[t])  BY <3>1, <2>5 DEF Executes
   <4>3. QED BY <4>1, <4>2, <2>1, <2>5, <2>7, <2>8, RunsAssumption DEF Agents!Runs
  <3>2. CASE kind = "stream"
   <4>1. ~Executes(attempt'[t])  BY <3>2, <2>5 DEF Executes, Pulls
   <4>2. QED BY <3>2, <4>1, <2>1, <2>4, <2>7
  <3>3. QED BY <3>1, <3>2
 <2>10. CallsOk(attempt', active', flow.phase)
  <3>1. attempt[t].phase # "new" => attempt'[t].agent = attempt[t].agent  BY <2>4
  <3>2. \A u \in Attempt : u # t => ~Busy(attempt[u])
    BY <2>3
  <3>3. CallsOk(attempt, active, flow.phase)  BY <2>1
  <3>4. DOMAIN attempt' = Attempt /\ \A u \in Attempt : u # t => attempt'[u] = attempt[u]
    BY <2>5
  <3>5. QED BY <2>6, <2>9, <3>1, <3>2, <3>3, <3>4, OneCallMoves
 <2>11. /\ DOMAIN inv' = InvFields /\ inv'.handles = inv.handles /\ inv'.current = inv.current
        /\ inv'.attempts = 1 /\ inv'.violation = "none" /\ ~inv'.closing
   BY <2>2, <2>4 DEF InvFields
 <2>12. Unfinished(attempt'[t])  BY <2>5 DEF Unfinished
 <2>13. \A u \in Attempt : Busy(attempt'[u]) => u = t
   BY <2>3, <2>5
 <2>14. Owned(inv', finished', invocations', attempt', active')
   BY <2>2, <2>4, <2>5, <2>11, <2>12, <2>13 DEF Owned, Busy, Agents!Runs
 <2>15. EndOk(inv', finished', invocations', attempt', flow'.phase)
   BY <2>4, <2>11, <2>2 DEF AgentInv, EndOk
 <2>16. FlowOk(flow', inv'.violation)  BY <2>4, <2>11 DEF AgentInv, FlowOk
 <2>17. overlapped' \/ \A u \in Attempt : attempt'[u].finished => attempt'[u].phase = "over"
   BY <2>4, <2>5 DEF AgentInv
 <2>18. QED BY <2>4, <2>10, <2>11, <2>14, <2>15, <2>16, <2>17 DEF AgentInv
<1>3. QED BY <1>1, <1>2

(* A call that changes without ending: it stays live, or stays ended. *)
LEMMA StaysLive ==
  ASSUME AgentInv, NEW t \in Attempt, UNCHANGED <<flow, inv, finished, invocations, overlapped>>,
         Busy(attempt[t]),
         DOMAIN attempt' = Attempt, \A u \in Attempt : u # t => attempt'[u] = attempt[u],
         attempt[t].phase # "new", attempt'[t].phase \notin {"new", "over"},
         AttemptOk(attempt'[t]), attempt'[t].agent = attempt[t].agent,
         attempt'[t].finished <=> attempt[t].finished,
         Executes(attempt'[t]) => Executes(attempt[t]) \/ ~attempt[t].finished,
         active' \in [Agents!Runs -> {0, 1}], active'[Workflow] = active[Workflow],
         \A r \in finished : active'[r] = 0,
         \A a \in Agent : active'[a] = 1 <=> Executes(attempt'[t]) /\ attempt'[t].agent = a
  PROVE  AgentInv'
<1>1. /\ CallsOk(attempt, active, flow.phase)
      /\ \A u \in Attempt : u # t => ~Busy(attempt[u])
  BY DEF AgentInv, CallsOk
<1>2. CallsOk(attempt', active', flow.phase)  BY <1>1, OneCallMoves
<1>3. \A u \in Attempt : Unfinished(attempt'[u]) <=> Unfinished(attempt[u])
  BY DEF Unfinished
<1>4. \A u \in Attempt : Busy(attempt'[u]) => Busy(attempt[u]) /\ attempt'[u].agent = attempt[u].agent
  BY DEF Busy
<1>5. \A u \in Attempt : Executes(attempt'[u]) /\ attempt'[u].finished =>
                          Executes(attempt[u]) /\ attempt[u].finished
  OBVIOUS
<1>6. Owned(inv', finished', invocations', attempt', active')
  BY <1>3, <1>4, <1>5 DEF AgentInv, Owned
<1>7. EndOk(inv', finished', invocations', attempt', flow'.phase)  BY DEF AgentInv, EndOk
<1>8. FlowOk(flow', inv'.violation)  BY DEF AgentInv, FlowOk
<1>9. overlapped' \/ \A u \in Attempt : attempt'[u].finished => attempt'[u].phase = "over"
 <2>1. CASE overlapped
   BY <2>1
 <2>2. CASE ~overlapped
  <3>1. \A u \in Attempt : attempt[u].finished => attempt[u].phase = "over"
    BY <2>2 DEF AgentInv
  <3>2. ~attempt[t].finished  BY <3>1, <1>1 DEF Busy, Executes, Unfinished, Pulls
  <3>3. QED BY <3>1, <3>2
 <2>3. QED BY <2>1, <2>2
<1>10. inv'.closing => overlapped' \/ (invocations' = {} /\ inv'.handles = {})
                         \/ \E u \in Attempt : Unfinished(attempt'[u])
  BY <1>3 DEF AgentInv
<1>11. QED BY <1>2, <1>6, <1>7, <1>8, <1>9, <1>10 DEF AgentInv

(* What is known of a call that is busy. *)
LEMMA BusyCall ==
  ASSUME AgentInv, NEW t \in Attempt, Busy(attempt[t])
  PROVE  /\ DOMAIN attempt = Attempt /\ DOMAIN attempt[t] = AttemptFields /\ AttemptOk(attempt[t])
         /\ attempt[t].agent \in Agent
         /\ active \in [Agents!Runs -> {0, 1}]
         /\ \A r \in finished : active[r] = 0
         /\ \A u \in Attempt : u # t => ~Busy(attempt[u]) /\ ~Executes(attempt[u])
         /\ \A a \in Agent : active[a] = 1 <=> Executes(attempt[t]) /\ attempt[t].agent = a
<1>1. /\ DOMAIN attempt = Attempt /\ AttemptOk(attempt[t])
      /\ active \in [Agents!Runs -> {0, 1}]
      /\ \A u, w \in Attempt : Busy(attempt[u]) /\ Busy(attempt[w]) => u = w
      /\ \A a \in Agent : active[a] = 1 <=> \E u \in Attempt : Executes(attempt[u]) /\ attempt[u].agent = a
  BY DEF AgentInv, CallsOk
<1>2. \A u \in Attempt : u # t => ~Busy(attempt[u]) /\ ~Executes(attempt[u])
  BY <1>1 DEF Busy
<1>3. attempt[t].phase # "new"  BY DEF Busy, Executes, Unfinished, Pulls
<1>4. \A r \in finished : active[r] = 0
  BY DEF AgentInv, Owned
<1>5. QED BY <1>1, <1>2, <1>3, <1>4 DEF AttemptOk

LEMMA Pulled ==
  ASSUME AgentInv, NEW t \in Attempt, NEW ask \in {"next", "return"}, Agents!Pull(t, ask)
  PROVE  AgentInv'
<1>1. /\ attempt[t].kind = "stream" /\ ~attempt[t].finished /\ ~attempt[t].pulling
      /\ attempt[t].agent \notin finished
      /\ active' = [active EXCEPT ![attempt[t].agent] = @ + 1]
      /\ attempt' = [attempt EXCEPT ![t].pulling = TRUE, ![t].phase = ask]
      /\ UNCHANGED <<flow, inv, finished, invocations, overlapped>>
  BY DEF Agents!Pull, Agents!Open, Agents!Activate
<1>2. AttemptOk(attempt[t])  BY DEF AgentInv, CallsOk
<1>3. attempt[t].phase = "idle"  BY <1>1, <1>2 DEF AttemptOk
<1>4. Busy(attempt[t]) /\ ~Executes(attempt[t])
  BY <1>1, <1>3 DEF Busy, Unfinished, Executes, Pulls
<1>5. /\ DOMAIN attempt = Attempt /\ DOMAIN attempt[t] = AttemptFields
      /\ attempt[t].agent \in Agent
      /\ active \in [Agents!Runs -> {0, 1}]
      /\ \A r \in finished : active[r] = 0
      /\ \A a \in Agent : active[a] = 1 <=> Executes(attempt[t]) /\ attempt[t].agent = a
  BY <1>4, BusyCall
<1>6. /\ DOMAIN attempt' = Attempt
      /\ \A u \in Attempt : u # t => attempt'[u] = attempt[u]
      /\ DOMAIN attempt'[t] = AttemptFields
      /\ attempt'[t].kind = attempt[t].kind /\ attempt'[t].agent = attempt[t].agent
      /\ attempt'[t].phase = ask /\ attempt'[t].pulling /\ ~attempt'[t].finished
  BY <1>1, <1>5 DEF AttemptFields
<1>7. AttemptOk(attempt'[t]) /\ Executes(attempt'[t])
  BY <1>1, <1>5, <1>6 DEF AttemptOk, Executes, Pulls
<1>8. \A a \in Agent : active[a] = 0
  BY <1>4, <1>5 DEF Agents!Runs
<1>9. /\ active' \in [Agents!Runs -> {0, 1}]
      /\ active'[Workflow] = active[Workflow]
      /\ \A r \in finished : active'[r] = 0
      /\ \A a \in Agent : active'[a] = 1 <=> Executes(attempt'[t]) /\ attempt'[t].agent = a
 <2>1. active[attempt[t].agent] = 0  BY <1>5, <1>8
 <2>2. active' \in [Agents!Runs -> {0, 1}] /\ active'[Workflow] = active[Workflow]
   BY <1>1, <1>5, <2>1, RunsAssumption DEF Agents!Runs
 <2>3. \A r \in Agents!Runs : active'[r] = IF r = attempt[t].agent THEN 1 ELSE active[r]
   BY <1>1, <1>5, <2>1 DEF Agents!Runs
 <2>4. finished \subseteq Agents!Runs  BY DEF AgentInv, Owned
 <2>5. QED BY <1>1, <1>5, <1>6, <1>7, <1>8, <2>2, <2>3, <2>4 DEF Agents!Runs
<1>10. attempt[t].phase # "new" /\ attempt'[t].phase \notin {"new", "over"}
  BY <1>3, <1>6
<1>11. QED BY <1>1, <1>4, <1>6, <1>7, <1>9, <1>10, StaysLive

LEMMA PullsGive == ASSUME AgentInv, NEW t \in Attempt, Agents!PullGives(t) PROVE AgentInv'
<1>1. /\ attempt[t].phase = "next"
      /\ active' = Agents!Settled(attempt[t].agent)
      /\ attempt' = [attempt EXCEPT ![t].phase = "idle", ![t].pulling = FALSE]
      /\ UNCHANGED <<flow, inv, finished, invocations, overlapped>>
  BY DEF Agents!PullGives
<1>2. Executes(attempt[t]) /\ Busy(attempt[t])
  BY <1>1 DEF Executes, Busy, Pulls
<1>3. /\ DOMAIN attempt = Attempt /\ DOMAIN attempt[t] = AttemptFields
      /\ AttemptOk(attempt[t]) /\ attempt[t].agent \in Agent
      /\ \A r \in finished : active[r] = 0
  BY <1>2, BusyCall
<1>4. /\ active' \in [Agents!Runs -> {0, 1}]
      /\ active'[Workflow] = active[Workflow]
      /\ \A a \in Agent : active'[a] = 0
      /\ \A r \in Agents!Runs : active[r] = 0 => active'[r] = 0
  BY <1>1, <1>2, Settling
<1>5. /\ DOMAIN attempt' = Attempt
      /\ \A u \in Attempt : u # t => attempt'[u] = attempt[u]
      /\ DOMAIN attempt'[t] = AttemptFields
      /\ attempt'[t].kind = attempt[t].kind /\ attempt'[t].agent = attempt[t].agent
      /\ attempt'[t].phase = "idle" /\ ~attempt'[t].pulling
      /\ (attempt'[t].finished <=> attempt[t].finished)
  BY <1>1, <1>3 DEF AttemptFields
<1>6. AttemptOk(attempt'[t]) /\ ~Executes(attempt'[t])
  BY <1>1, <1>3, <1>5 DEF AttemptOk, Executes, Pulls
<1>7. \A r \in finished : active'[r] = 0
  BY <1>3, <1>4 DEF AgentInv, Owned
<1>8. attempt[t].phase # "new" /\ attempt'[t].phase \notin {"new", "over"}
  BY <1>1, <1>5
<1>9. \A a \in Agent : active'[a] = 1 <=> Executes(attempt'[t]) /\ attempt'[t].agent = a
  BY <1>4, <1>6
<1>10. QED BY <1>1, <1>2, <1>4, <1>5, <1>6, <1>7, <1>8, <1>9, StaysLive

LEMMA PullsFail == ASSUME AgentInv, NEW t \in Attempt, Agents!PullFails(t) PROVE AgentInv'
<1>1. /\ attempt[t].phase \in {"next", "return"}
      /\ attempt' = [attempt EXCEPT ![t].phase = "cleanup"]
      /\ UNCHANGED <<flow, inv, active, finished, invocations, overlapped>>
  BY DEF Agents!PullFails
<1>2. Executes(attempt[t]) /\ Busy(attempt[t])
  BY <1>1 DEF Executes, Busy, Pulls
<1>3. /\ DOMAIN attempt = Attempt /\ DOMAIN attempt[t] = AttemptFields
      /\ AttemptOk(attempt[t]) /\ attempt[t].agent \in Agent
      /\ active \in [Agents!Runs -> {0, 1}]
      /\ \A r \in finished : active[r] = 0
      /\ \A a \in Agent : active[a] = 1 <=> Executes(attempt[t]) /\ attempt[t].agent = a
  BY <1>2, BusyCall
<1>4. /\ DOMAIN attempt' = Attempt
      /\ \A u \in Attempt : u # t => attempt'[u] = attempt[u]
      /\ DOMAIN attempt'[t] = AttemptFields
      /\ attempt'[t].kind = attempt[t].kind /\ attempt'[t].agent = attempt[t].agent
      /\ attempt'[t].phase = "cleanup" /\ (attempt'[t].pulling <=> attempt[t].pulling)
      /\ (attempt'[t].finished <=> attempt[t].finished)
  BY <1>1, <1>3 DEF AttemptFields
<1>5. AttemptOk(attempt'[t]) /\ Executes(attempt'[t])
  BY <1>1, <1>3, <1>4 DEF AttemptOk, Executes, Pulls
<1>6. attempt[t].phase # "new" /\ attempt'[t].phase \notin {"new", "over"}
  BY <1>1, <1>4
<1>7. \A a \in Agent : active'[a] = 1 <=> Executes(attempt'[t]) /\ attempt'[t].agent = a
  BY <1>1, <1>2, <1>3, <1>4, <1>5
<1>8. QED BY <1>1, <1>2, <1>3, <1>4, <1>5, <1>6, <1>7, StaysLive

(* A call that ends without executing any more, or under a pull that still executes. *)
LEMMA EndsHere ==
  ASSUME AgentInv, NEW t \in Attempt, NEW v, Busy(attempt[t]), ~attempt[t].finished,
         DOMAIN v = InvFields, v.handles = inv.handles, v.current = inv.current,
         v.attempts = inv.attempts, v.closing <=> inv.closing,
         inv.violation # "none" => v.violation # "none",
         v.violation = "open" => inv.violation = "open" \/ flow.outcome = "none",
         DOMAIN attempt' = Attempt, \A u \in Attempt : u # t => attempt'[u] = attempt[u],
         AttemptOk(attempt'[t]), attempt'[t].agent = attempt[t].agent, attempt'[t].finished,
         Executes(attempt'[t]) <=> Executes(attempt[t]),
         Executes(attempt'[t]) => v.violation # "none" /\ overlapped',
         overlapped => overlapped', overlapped' \/ attempt'[t].phase = "over",
         active' = active, flow' = flow, Agents!Release(v, t, active)
  PROVE  AgentInv'
<1>1. /\ \A u \in Attempt : u # t => ~Busy(attempt[u])
      /\ active \in [Agents!Runs -> {0, 1}]
      /\ \A a \in Agent : active[a] = 1 <=> Executes(attempt[t]) /\ attempt[t].agent = a
  BY BusyCall
<1>2. CallsOk(attempt, active, flow.phase)  BY DEF AgentInv
<1>3. CallsOk(attempt', active', flow.phase)  BY <1>1, <1>2, OneCallMoves
<1>4. Agents!Release(v, t, active')  OBVIOUS
<1>5. \A r \in Agents!Runs : active[r] = 0 => active'[r] = 0
  OBVIOUS
<1>6. /\ Owned(inv', finished', invocations', attempt', active')
      /\ EndOk(inv', finished', invocations', attempt', flow'.phase)
      /\ inv'.violation = v.violation
      /\ inv'.closing => overlapped' \/ (invocations' = {} /\ inv'.handles = {})
                           \/ \E u \in Attempt : Unfinished(attempt'[u])
  BY <1>3, <1>4, <1>5, Releasing
<1>7. FlowOk(flow', inv'.violation)  BY <1>6 DEF AgentInv, FlowOk
<1>8. overlapped' \/ \A u \in Attempt : attempt'[u].finished => attempt'[u].phase = "over"
  BY DEF AgentInv
<1>9. CallsOk(attempt', active', flow'.phase)  BY <1>3
<1>10. QED BY <1>6, <1>7, <1>8, <1>9 DEF AgentInv

LEMMA PulledTooLate == ASSUME AgentInv, NEW t \in Attempt, Agents!PullTooLate(t) PROVE AgentInv'
<1>1. /\ attempt[t].kind = "stream" /\ ~attempt[t].finished /\ ~attempt[t].pulling
      /\ attempt' = [attempt EXCEPT ![t].phase = "over", ![t].finished = TRUE]
      /\ Agents!Release(inv, t, active)
      /\ UNCHANGED <<flow, active, overlapped>>
  BY DEF Agents!PullTooLate, Agents!Open
<1>2. AttemptOk(attempt[t]) /\ DOMAIN attempt = Attempt
  BY DEF AgentInv, CallsOk
<1>3. attempt[t].phase = "idle"  BY <1>1, <1>2 DEF AttemptOk
<1>4. Busy(attempt[t]) /\ ~Executes(attempt[t])
  BY <1>1, <1>3 DEF Busy, Unfinished, Executes, Pulls
<1>5. /\ DOMAIN attempt' = Attempt
      /\ \A u \in Attempt : u # t => attempt'[u] = attempt[u]
      /\ DOMAIN attempt'[t] = AttemptFields
      /\ attempt'[t].kind = attempt[t].kind /\ attempt'[t].agent = attempt[t].agent
      /\ attempt'[t].phase = "over" /\ ~attempt'[t].pulling /\ attempt'[t].finished
  BY <1>1, <1>2 DEF AttemptOk, AttemptFields
<1>6. AttemptOk(attempt'[t]) /\ ~Executes(attempt'[t])
  BY <1>1, <1>2, <1>3, <1>5 DEF AttemptOk, Executes, Pulls
<1>7. PICK v : v = inv
  OBVIOUS
<1>8. DOMAIN v = InvFields  BY <1>7 DEF AgentInv, Owned
<1>9. QED BY <1>1, <1>4, <1>5, <1>6, <1>7, <1>8, EndsHere

LEMMA ReturnedWhilePulled ==
  ASSUME AgentInv, NEW t \in Attempt, Agents!ReturnWhilePulled(t) PROVE AgentInv'
<1>1. /\ ~attempt[t].finished /\ attempt[t].pulling
      /\ attempt' = [attempt EXCEPT ![t].finished = TRUE]
      /\ Agents!Release(Agents!Fail(inv), t, active)
      /\ overlapped' = TRUE
      /\ UNCHANGED <<flow, active>>
  BY DEF Agents!ReturnWhilePulled, Agents!Open
<1>2. AttemptOk(attempt[t]) /\ DOMAIN attempt = Attempt
  BY DEF AgentInv, CallsOk
<1>3. attempt[t].phase \in Pulls  BY <1>1, <1>2 DEF AttemptOk
<1>4. Busy(attempt[t]) /\ Executes(attempt[t])
  BY <1>3 DEF Busy, Executes
<1>5. /\ DOMAIN attempt' = Attempt
      /\ \A u \in Attempt : u # t => attempt'[u] = attempt[u]
      /\ DOMAIN attempt'[t] = AttemptFields
      /\ attempt'[t].kind = attempt[t].kind /\ attempt'[t].agent = attempt[t].agent
      /\ attempt'[t].phase = attempt[t].phase /\ (attempt'[t].pulling <=> attempt[t].pulling)
      /\ attempt'[t].finished
  BY <1>1, <1>2 DEF AttemptOk, AttemptFields
<1>6. AttemptOk(attempt'[t]) /\ Executes(attempt'[t])
  BY <1>1, <1>2, <1>3, <1>5 DEF AttemptOk, Executes, Pulls
<1>7. PICK v : v = Agents!Fail(inv)
  OBVIOUS
<1>8. Owned(inv, finished, invocations, attempt, active)  BY DEF AgentInv
<1>9. /\ DOMAIN v = InvFields /\ v.handles = inv.handles /\ v.current = inv.current
      /\ v.attempts = inv.attempts /\ (v.closing <=> inv.closing)
      /\ v.violation # "none"
      /\ v.violation = "open" => inv.violation = "open" \/ flow.outcome = "none"
  BY <1>7, <1>8, FailIs
<1>10. Agents!Release(v, t, active)  BY <1>1, <1>7
<1>11. overlapped' /\ flow' = flow /\ active' = active
  BY <1>1
<1>12. ~attempt[t].finished  BY <1>1
<1>13. QED BY <1>4, <1>5, <1>6, <1>9, <1>10, <1>11, <1>12, EndsHere

-----------------------------------------------------------------------------
(* The workflow. *)

(* The workflow's own run starts and stops; the calls stay. *)
LEMMA WorkflowMoves ==
  ASSUME AgentInv, NEW act, NEW phase, act \in [Agents!Runs -> {0, 1}],
         \A a \in Agent : act[a] = active[a], act[Workflow] = 1 <=> phase = "running"
  PROVE  CallsOk(attempt, act, phase)
BY DEF AgentInv, CallsOk

LEMMA Begins == ASSUME AgentInv, NEW mode \in {"run", "streamed"}, Agents!Begin(mode) PROVE AgentInv'
<1>1. /\ flow.mode = "none"
      /\ flow' = [flow EXCEPT !.mode = mode, !.phase = "running"]
      /\ active' = [active EXCEPT ![Workflow] = @ + 1]
      /\ invocations' = {Workflow}
      /\ UNCHANGED <<inv, attempt, finished, overlapped>>
  BY DEF Agents!Begin, Agents!Activate
<1>2. flow.phase = "none" /\ DOMAIN flow = {"mode", "phase", "outcome", "told"}
  BY <1>1 DEF AgentInv, FlowOk
<1>3. /\ DOMAIN flow' = {"mode", "phase", "outcome", "told"}
      /\ flow'.mode = mode /\ flow'.phase = "running"
      /\ flow'.outcome = flow.outcome /\ flow'.told = flow.told
  BY <1>1, <1>2
<1>4. active \in [Agents!Runs -> {0, 1}] /\ active[Workflow] = 0
  BY <1>2 DEF AgentInv, CallsOk, Agents!Runs
<1>5. active' \in [Agents!Runs -> {0, 1}] /\ active'[Workflow] = 1 /\ \A a \in Agent : active'[a] = active[a]
  BY <1>1, <1>4, RunsAssumption DEF Agents!Runs
<1>6. CallsOk(attempt', active', flow'.phase)  BY <1>1, <1>3, <1>5, WorkflowMoves
<1>7. ~inv.closing /\ finished = {}
  BY <1>2 DEF AgentInv, EndOk
<1>8. Owned(inv', finished', invocations', attempt', active')  BY <1>1, <1>7 DEF AgentInv, Owned
<1>9. EndOk(inv', finished', invocations', attempt', flow'.phase)  BY <1>1, <1>3, <1>7 DEF EndOk
<1>10. FlowOk(flow', inv'.violation)  BY <1>1, <1>2, <1>3 DEF AgentInv, FlowOk
<1>11. QED BY <1>1, <1>6, <1>7, <1>8, <1>9, <1>10 DEF AgentInv

(* What the workflow ends with, and what its close leaves. *)
LEMMA WorkflowEnds ==
  ASSUME AgentInv, NEW ok \in BOOLEAN, flow.phase \in {"running", "streaming"},
         flow' = [flow EXCEPT !.phase = "over", !.outcome = Agents!Outcome(ok)],
         active' \in [Agents!Runs -> {0, 1}], active'[Workflow] = 0,
         \A a \in Agent : active'[a] = active[a],
         Agents!Close(inv, active'), UNCHANGED <<attempt, overlapped>>
  PROVE  AgentInv'
<1>1. ~inv.closing /\ finished = {}
  BY DEF AgentInv, EndOk
<1>2. DOMAIN flow = {"mode", "phase", "outcome", "told"} /\ flow.outcome = "none" /\ flow.mode # "none"
  BY DEF AgentInv, FlowOk
<1>3. /\ DOMAIN flow' = {"mode", "phase", "outcome", "told"}
      /\ flow'.mode = flow.mode /\ flow'.phase = "over"
      /\ flow'.outcome = Agents!Outcome(ok) /\ flow'.told = flow.told
  BY <1>2
<1>4. CallsOk(attempt', active', "over")  BY WorkflowMoves
<1>5. Owned(inv, finished, invocations, attempt', active')  BY <1>1 DEF AgentInv, Owned
<1>6. PICK v : v = inv
  OBVIOUS
<1>7. /\ Owned(inv', finished', invocations', attempt', active')
      /\ inv'.closing /\ inv'.violation = v.violation
      /\ inv'.current = Agents!Nobody /\ Workflow \in finished'
      /\ (\A t \in Attempt : ~Executes(attempt'[t])) => invocations' = {} /\ inv'.handles = {}
 <2>1. Owned(v, finished, invocations, attempt', active') /\ Agents!Close(v, active')
   BY <1>5, <1>6
 <2>2. QED BY <1>4, <2>1, Closing
<1>8. EndOk(inv', finished', invocations', attempt', flow'.phase)  BY <1>3, <1>7 DEF EndOk
<1>9. FlowOk(flow', inv'.violation)
 <2>1. Agents!Outcome(ok) \in {"violation", "result", "error"} /\ (inv.violation # "none" => Agents!Outcome(ok) = "violation")
   BY DEF Agents!Outcome
 <2>2. flow.told # "done"  BY <1>2 DEF AgentInv, FlowOk
 <2>3. QED BY <1>2, <1>3, <1>6, <1>7, <2>1, <2>2 DEF FlowOk
<1>10. overlapped' \/ \A t \in Attempt : attempt'[t].finished => attempt'[t].phase = "over"
  BY DEF AgentInv
<1>11. overlapped' \/ (invocations' = {} /\ inv'.handles = {}) \/ \E t \in Attempt : Unfinished(attempt'[t])
 <2>1. CASE \E t \in Attempt : Executes(attempt[t])
  <3>1. PICK t \in Attempt : Executes(attempt[t])
    BY <2>1
  <3>2. overlapped \/ Unfinished(attempt[t])
    BY <3>1 DEF AgentInv, Executes, Unfinished, Pulls
  <3>3. QED BY <3>2
 <2>2. CASE ~\E t \in Attempt : Executes(attempt[t])
   BY <2>2, <1>7
 <2>3. QED BY <2>1, <2>2
<1>12. QED BY <1>3, <1>4, <1>7, <1>8, <1>9, <1>10, <1>11 DEF AgentInv

LEMMA RunsSettle == ASSUME AgentInv, NEW ok \in BOOLEAN, Agents!RunSettles(ok) PROVE AgentInv'
<1>1. /\ flow.phase = "running"
      /\ flow' = [flow EXCEPT !.phase = "over", !.outcome = Agents!Outcome(ok)]
      /\ active' = [active EXCEPT ![Workflow] = @ - 1]
      /\ Agents!Close(inv, active')
      /\ UNCHANGED <<attempt, overlapped>>
  BY DEF Agents!RunSettles, Agents!Settled
<1>2. active \in [Agents!Runs -> {0, 1}] /\ active[Workflow] = 1
  BY <1>1 DEF AgentInv, CallsOk
<1>3. active' \in [Agents!Runs -> {0, 1}] /\ active'[Workflow] = 0 /\ \A a \in Agent : active'[a] = active[a]
  BY <1>1, <1>2, RunsAssumption DEF Agents!Runs
<1>4. QED BY <1>1, <1>3, WorkflowEnds

LEMMA StreamsComplete == ASSUME AgentInv, NEW ok \in BOOLEAN, Agents!StreamCompletes(ok) PROVE AgentInv'
<1>1. /\ flow.phase = "streaming"
      /\ flow' = [flow EXCEPT !.phase = "over", !.outcome = Agents!Outcome(ok)]
      /\ Agents!Close(inv, active')
      /\ UNCHANGED <<attempt, active, overlapped>>
  BY DEF Agents!StreamCompletes
<1>2. active \in [Agents!Runs -> {0, 1}] /\ active[Workflow] = 0
  BY <1>1 DEF AgentInv, CallsOk, Agents!Runs
<1>3. QED BY <1>1, <1>2, WorkflowEnds

LEMMA StreamsStart == ASSUME AgentInv, Agents!StreamStarts PROVE AgentInv'
<1>1. /\ flow.phase = "running"
      /\ flow' = [flow EXCEPT !.phase = "streaming"]
      /\ active' = [active EXCEPT ![Workflow] = @ - 1]
      /\ UNCHANGED <<inv, attempt, finished, invocations, overlapped>>
  BY DEF Agents!StreamStarts, Agents!Settled
<1>2. DOMAIN flow = {"mode", "phase", "outcome", "told"} /\ flow.mode # "none"
  BY <1>1 DEF AgentInv, FlowOk
<1>3. /\ DOMAIN flow' = {"mode", "phase", "outcome", "told"}
      /\ flow'.mode = flow.mode /\ flow'.phase = "streaming"
      /\ flow'.outcome = flow.outcome /\ flow'.told = flow.told
  BY <1>1, <1>2
<1>4. active \in [Agents!Runs -> {0, 1}] /\ active[Workflow] = 1
  BY <1>1 DEF AgentInv, CallsOk
<1>5. active' \in [Agents!Runs -> {0, 1}] /\ active'[Workflow] = 0 /\ \A a \in Agent : active'[a] = active[a]
  BY <1>1, <1>4, RunsAssumption DEF Agents!Runs
<1>6. CallsOk(attempt', active', flow'.phase)
 <2>1. active'[Workflow] = 1 <=> flow'.phase = "running"  BY <1>3, <1>5
 <2>2. CallsOk(attempt, active', flow'.phase)  BY <1>5, <2>1, WorkflowMoves
 <2>3. QED BY <1>1, <2>2
<1>7. ~inv.closing /\ finished = {}
  BY <1>1 DEF AgentInv, EndOk
<1>8. Owned(inv', finished', invocations', attempt', active')  BY <1>1, <1>7 DEF AgentInv, Owned
<1>9. EndOk(inv', finished', invocations', attempt', flow'.phase)  BY <1>1, <1>3, <1>7 DEF EndOk
<1>10. FlowOk(flow', inv'.violation)  BY <1>1, <1>2, <1>3 DEF AgentInv, FlowOk
<1>11. QED BY <1>1, <1>6, <1>7, <1>8, <1>9, <1>10 DEF AgentInv

(* What the consumer is told changes nothing else. *)
LEMMA ConsumerTold ==
  ASSUME AgentInv, NEW told, flow' = [flow EXCEPT !.told = told],
         told = "done" => flow.outcome = "result",
         UNCHANGED <<inv, attempt, active, finished, invocations, overlapped>>
  PROVE  AgentInv'
<1>1. DOMAIN flow = {"mode", "phase", "outcome", "told"}  BY DEF AgentInv, FlowOk
<1>2. /\ DOMAIN flow' = {"mode", "phase", "outcome", "told"}
      /\ flow'.mode = flow.mode /\ flow'.phase = flow.phase
      /\ flow'.outcome = flow.outcome /\ flow'.told = told
  BY <1>1
<1>3. FlowOk(flow', inv'.violation)  BY <1>2 DEF AgentInv, FlowOk
<1>4. CallsOk(attempt', active', flow'.phase)  BY <1>2 DEF AgentInv
<1>5. Owned(inv', finished', invocations', attempt', active')  BY DEF AgentInv
<1>6. EndOk(inv', finished', invocations', attempt', flow'.phase)  BY <1>2 DEF AgentInv
<1>7. QED BY <1>3, <1>4, <1>5, <1>6 DEF AgentInv

LEMMA ConsumersEnd == ASSUME AgentInv, Agents!ConsumerEnds PROVE AgentInv'
<1>1. PICK told : told = IF flow.outcome = "result" THEN "done" ELSE "failed"
  OBVIOUS
<1>2. QED BY <1>1, ConsumerTold DEF Agents!ConsumerEnds

LEMMA ConsumersReturn == ASSUME AgentInv, Agents!ConsumerReturns PROVE AgentInv'
<1>1. PICK told : told = IF inv.violation # "none" THEN "failed" ELSE "returned"
  OBVIOUS
<1>2. QED BY <1>1, ConsumerTold DEF Agents!ConsumerReturns

LEMMA AgentStep == ASSUME AgentInv, [Agents!Next]_(Agents!vars) PROVE AgentInv'
<1>1. ASSUME NEW mode \in {"run", "streamed"}, Agents!Begin(mode) PROVE AgentInv'
  BY <1>1, Begins
<1>2. ASSUME NEW a \in Agent, Agents!AgentStart(a) \/ Agents!AgentEnd(a) \/ Agents!ToolStart(a) \/ Agents!ToolEnd(a)
      PROVE  AgentInv'
  BY <1>2, AgentStarts, AgentEnds, ToolsStart, ToolsEnd
<1>3. ASSUME NEW t \in Attempt,
             \/ \E kind \in {"response", "stream"} : Agents!BeginAttempt(t, kind)
             \/ \E ask \in {"next", "return"} : Agents!Pull(t, ask)
             \/ Agents!ResponseSettles(t) \/ Agents!PullTooLate(t) \/ Agents!PullTwice(t) \/ Agents!ReturnWhilePulled(t)
             \/ Agents!PullGives(t) \/ Agents!PullEnds(t) \/ Agents!PullFails(t)
      PROVE  AgentInv'
  BY <1>3, CallsBegin, Pulled, ResponsesSettle, PulledTooLate, PulledTwice, ReturnedWhilePulled,
     PullsGive, PullsEnd, PullsFail
<1>4. ASSUME NEW ok \in BOOLEAN, Agents!RunSettles(ok) \/ Agents!StreamCompletes(ok) PROVE AgentInv'
  BY <1>4, RunsSettle, StreamsComplete
<1>5. ASSUME UNCHANGED Agents!vars PROVE AgentInv'
 <2>1. UNCHANGED <<flow, inv, attempt, active, finished, invocations, overlapped>>
   BY <1>5 DEF Agents!vars
 <2>2. CallsOk(attempt', active', flow'.phase) /\ Owned(inv', finished', invocations', attempt', active')
   BY <2>1 DEF AgentInv
 <2>3. EndOk(inv', finished', invocations', attempt', flow'.phase) /\ FlowOk(flow', inv'.violation)
   BY <2>1 DEF AgentInv
 <2>4. QED BY <2>1, <2>2, <2>3 DEF AgentInv
<1>6. QED
  BY <1>1, <1>2, <1>3, <1>4, <1>5, NestedFails, StreamsStart, ConsumersEnd, ConsumersReturn DEF Agents!Next

(* What the runs check follows. *)
LEMMA AgentSafe == ASSUME AgentInv PROVE Agents!InvocationsEndClean
<1>1. /\ active \in [Agents!Runs -> {0, 1}]
      /\ \A t \in Attempt : AttemptOk(attempt[t])
      /\ \A t, u \in Attempt : Busy(attempt[t]) /\ Busy(attempt[u]) => t = u
      /\ \A a \in Agent : active[a] = 1 <=> \E t \in Attempt : Executes(attempt[t]) /\ attempt[t].agent = a
  BY DEF AgentInv, CallsOk
<1>2. Agents!OneCallAtATime
 <2>1. \A r \in Agents!Runs : active[r] \in {0, 1}
   BY <1>1
 <2>2. \A a, b \in Agent : active[a] > 0 /\ active[b] > 0 => a = b
   BY <1>1 DEF Busy, Agents!Runs
 <2>3. PICK busy : busy = {a \in Agent : active[a] > 0}
   OBVIOUS
 <2>4. \A a, b \in busy : a = b
   BY <2>2, <2>3
 <2>5. Cardinality(busy) <= 1
  <3>1. CASE busy = {}
    BY <3>1, FS_EmptySet
  <3>2. CASE busy # {}
   <4>1. PICK a \in busy : TRUE
     BY <3>2
   <4>2. busy = {a}  BY <2>4, <4>1
   <4>3. QED BY <4>2, FS_Singleton
  <3>3. QED BY <3>1, <3>2
 <2>6. QED BY <2>1, <2>3, <2>5, AgentsCount DEF Agents!OneCallAtATime
<1>3. Agents!ViolationsSurface  BY DEF AgentInv, FlowOk, Agents!ViolationsSurface
<1>4. Agents!ClosedIsReleased
 <2>1. ASSUME inv.closing, ~overlapped, \A t \in Attempt : attempt[t].phase \in {"new", "over"}
       PROVE  invocations = {} /\ inv.handles = {} /\ Workflow \in finished
  <3>1. \A t \in Attempt : ~Unfinished(attempt[t])
    BY <2>1, <1>1 DEF Unfinished, AttemptOk
  <3>2. QED BY <2>1, <3>1 DEF AgentInv, EndOk
 <2>2. QED BY <2>1 DEF Agents!ClosedIsReleased
<1>5. \A r \in finished : active[r] = 0
  BY DEF AgentInv, Owned
<1>6. QED BY <1>2, <1>3, <1>4, <1>5 DEF Agents!InvocationsEndClean

-----------------------------------------------------------------------------
RootStates == {"new", "open", "closed", "gone"}

LangTypes ==
  /\ DOMAIN chain = Root \cup Chain /\ DOMAIN llm = LlmCall /\ DOMAIN key = Signal
  /\ root \in [Root -> [state : RootStates, scopes : SUBSET LangChain!Scopes]]
  /\ made \in [LangChain!Scopes -> [made : BOOLEAN, active : Int, finished : BOOLEAN]]
  /\ DOMAIN signal = Signal
  /\ \A s \in Signal : /\ DOMAIN signal[s] = {"model", "aborted", "call", "scope"}
                           /\ signal[s].model \in LlmCall \cup {LangChain!None}
  /\ nodeOf \subseteq LangChain!Scopes

(* A scope that runs are mapped to is one of an open root's. *)
Mapped(c) == c \in LangChain!Scopes /\ root[c.root].state = "open" /\ c \in root[c.root].scopes

RunOk(x) == chain[x] # LangChain!NoScope => Mapped(chain[x]) /\ (x \in Root => chain[x] = LangChain!MainOf(x))

(* A model call belongs to a mapped scope, and its bindings are the signals that lead there. *)
ModelOk(m) ==
  llm[m] # LangChain!NoModel =>
    /\ DOMAIN llm[m] = {"scope", "bound", "bindings"}
    /\ Mapped(llm[m].scope)
    /\ \A s \in llm[m].bindings : s \in Signal /\ signal[s].model = m /\ key[s] = llm[m].scope

KeyOk(s) ==
  key[s] # LangChain!NoScope =>
    /\ ~signal[s].aborted
    /\ signal[s].model \in LlmCall /\ llm[signal[s].model] # LangChain!NoModel
    /\ s \in llm[signal[s].model].bindings

(* The calls that execute in a scope. *)
Running(c) == {s \in Signal : signal[s].call = "running" /\ signal[s].scope = c}

RootOk(r) ==
  /\ \A c \in root[r].scopes : c.root = r
  /\ root[r].state = "new" => root[r].scopes = {}
  /\ root[r].state = "open" => LangChain!MainOf(r) \in root[r].scopes
  /\ root[r].state = "closed" => root[r].scopes # {}
  /\ root[r].state = "gone" => root[r].scopes = {}

(* A scope with a run is still one of its root's, or finished; those that a closed root  *)
(* still has are what calls execute in.                                                   *)
MadeOk(c) ==
  /\ IsFiniteSet(Running(c)) /\ made[c].active = Cardinality(Running(c))
  /\ made[c].finished => made[c].active = 0 /\ root[c.root].state \in {"closed", "gone"}
  /\ made[c].made => c \in root[c.root].scopes \/ made[c].finished
  /\ Running(c) # {} => made[c].made
  /\ c \in root[c.root].scopes /\ root[c.root].state = "closed" => Running(c) # {}

NodeOk(c) == root[c.root].state # "new" /\ (root[c.root].state = "open" => c \in root[c.root].scopes)

LangInv ==
  /\ LangTypes
  /\ \A x \in Root \cup Chain : RunOk(x)
  /\ \A c \in nodeOf : NodeOk(c)
  /\ \A m \in LlmCall : ModelOk(m)
  /\ \A s \in Signal : KeyOk(s) /\ (signal[s].call = "running" => signal[s].scope \in LangChain!Scopes)
  /\ \A r \in Root : RootOk(r)
  /\ \A c \in LangChain!Scopes : MadeOk(c)

LEMMA ScopeIs ==
  /\ LangChain!NoScope \notin LangChain!Scopes
  /\ \A c \in LangChain!Scopes : c.root \in Root
  /\ \A r \in Root : LangChain!MainOf(r) \in LangChain!Scopes /\ LangChain!MainOf(r).root = r
BY RunsAssumption DEF LangChain!Scopes, LangChain!NoScope, LangChain!MainOf

LEMMA LangInit ==
  ASSUME LangChain!Init PROVE LangInv
<1>1. LangTypes  BY DEF LangChain!Init, LangTypes, RootStates
<1>2. \A c \in LangChain!Scopes : Running(c) = {} /\ IsFiniteSet(Running(c)) /\ Cardinality(Running(c)) = 0
  BY FS_EmptySet DEF LangChain!Init, Running
<1>3. \A c \in LangChain!Scopes : MadeOk(c)
  BY <1>2, ScopeIs DEF LangChain!Init, MadeOk
<1>4. QED BY <1>1, <1>3 DEF LangChain!Init, LangInv, RunOk, ModelOk, KeyOk, RootOk

(* The end of an open root's member finishes nothing. *)
LEMMA OpenStays ==
  ASSUME NEW r, NEW h, root[r].state # "closed", LangChain!FinishClosedRoot(r, root, h)
  PROVE  root' = root /\ made' = h
BY DEF LangChain!FinishClosedRoot

LEMMA StartsRoot ==
  ASSUME LangInv, NEW r \in Root, LangChain!StartRoot(r)
  PROVE  LangInv'
<1>1. /\ root' = [root EXCEPT ![r] = [state |-> "open", scopes |-> {LangChain!MainOf(r)}]]
      /\ chain' = [chain EXCEPT ![r] = LangChain!MainOf(r)]
      /\ root[r].state = "new"
      /\ UNCHANGED <<llm, key, nodeOf, made, signal>>
  BY DEF LangChain!StartRoot
<1>2. /\ root'[r].state = "open" /\ root'[r].scopes = {LangChain!MainOf(r)}
      /\ \A q \in Root \ {r} : root'[q] = root[q]
  BY <1>1 DEF LangInv, LangTypes
<1>3. LangTypes'  BY <1>1, ScopeIs DEF LangInv, LangTypes, RootStates
<1>4. \A c \in LangChain!Scopes : c.root = r => ~made[c].made /\ ~made[c].finished /\ Running(c) = {}
  BY <1>1, ScopeIs DEF LangInv, MadeOk, RootOk
<1>5. \A c : Mapped(c) => Mapped(c)'
  BY <1>1, <1>2, ScopeIs DEF Mapped
<1>6. \A x \in Root \cup Chain : RunOk(x)'
 <2>1. Mapped(LangChain!MainOf(r))'  BY <1>2, ScopeIs DEF Mapped
 <2>2. QED BY <1>1, <1>5, <2>1 DEF LangInv, LangTypes, RunOk
<1>7. \A c \in nodeOf' : NodeOk(c)'
  BY <1>1, <1>2, ScopeIs DEF LangInv, LangTypes, NodeOk
<1>8. \A m \in LlmCall : ModelOk(m)'
  BY <1>1, <1>5 DEF LangInv, ModelOk
<1>9. \A s \in Signal : KeyOk(s)' /\ (signal'[s].call = "running" => signal'[s].scope \in LangChain!Scopes)
  BY <1>1 DEF LangInv, KeyOk
<1>10. \A q \in Root : RootOk(q)'
  BY <1>2, ScopeIs DEF LangInv, RootOk
<1>11. \A c \in LangChain!Scopes : MadeOk(c)'
 <2> SUFFICES ASSUME NEW c \in LangChain!Scopes PROVE MadeOk(c)'
   OBVIOUS
 <2>1. Running(c)' = Running(c) /\ made' = made
   BY <1>1 DEF Running
 <2>2. MadeOk(c) /\ c.root \in Root
   BY ScopeIs DEF LangInv
 <2>3. CASE c.root = r
   BY <1>2, <1>4, <2>1, <2>2, <2>3 DEF MadeOk
 <2>4. CASE c.root # r
   BY <1>2, <2>1, <2>2, <2>4 DEF MadeOk
 <2>5. QED BY <2>3, <2>4
<1>12. QED BY <1>3, <1>6, <1>7, <1>8, <1>9, <1>10, <1>11 DEF LangInv

(* A step that maps more scopes of open roots, and touches no handle or call. *)
LEMMA MapsMore ==
  ASSUME LangInv, LangTypes', UNCHANGED <<made, signal>>,
         \A q \in Root : root'[q].state = root[q].state /\ root[q].scopes \subseteq root'[q].scopes,
         \A q \in Root : root'[q] = root[q] \/ (root[q].state = "open" /\ RootOk(q)')
  PROVE  /\ \A c : Mapped(c) => Mapped(c)'
         /\ \A q \in Root : RootOk(q)'
         /\ \A c \in LangChain!Scopes : MadeOk(c)'
<1>1. \A c : Mapped(c) => Mapped(c)'
  BY ScopeIs DEF Mapped
<1>2. \A q \in Root : RootOk(q)'
  BY DEF LangInv, RootOk
<1>3. ASSUME NEW c \in LangChain!Scopes PROVE MadeOk(c)'
 <2>1. Running(c)' = Running(c) /\ made' = made
   BY DEF Running
 <2>2. MadeOk(c) /\ c.root \in Root
   BY ScopeIs DEF LangInv
 <2>3. CASE root'[c.root] = root[c.root]
   BY <2>1, <2>2, <2>3 DEF MadeOk
 <2>4. CASE root[c.root].state = "open"
   BY <2>1, <2>2, <2>4 DEF MadeOk
 <2>5. QED BY <2>2, <2>3, <2>4
<1>4. QED BY <1>1, <1>2, <1>3

LEMMA StartsChild ==
  ASSUME LangInv, NEW x \in Chain, NEW parent \in Root \cup Chain, NEW node \in Node \cup {LangChain!None},
         LangChain!StartChild(x, parent, node)
  PROVE  LangInv'
<1>0. PICK own : own = IF node = LangChain!None \/ node = chain[parent].node THEN chain[parent]
                       ELSE [root |-> chain[parent].root, node |-> node]
  OBVIOUS
<1>1. /\ chain[parent] # LangChain!NoScope
      /\ chain' = [chain EXCEPT ![x] = own]
      /\ nodeOf' = nodeOf \cup {own}
      /\ root' = [root EXCEPT ![own.root].scopes = IF own \in nodeOf THEN @ ELSE @ \cup {own}]
      /\ UNCHANGED <<llm, key, made, signal>>
  BY <1>0 DEF LangChain!StartChild
<1>2. Mapped(chain[parent])  BY <1>1 DEF LangInv, RunOk
<1>3. own \in LangChain!Scopes /\ own.root = chain[parent].root /\ own.root \in Root /\ root[own.root].state = "open"
  BY <1>0, <1>2, ScopeIs DEF Mapped, LangChain!Scopes
<1>4. /\ \A q \in Root : root'[q].state = root[q].state
      /\ \A q \in Root \ {own.root} : root'[q] = root[q]
      /\ root'[own.root].scopes = root[own.root].scopes \cup {own}
 <2>1. own \in nodeOf => own \in root[own.root].scopes  BY <1>3 DEF LangInv, NodeOk
 <2>2. QED BY <1>1, <1>3, <2>1 DEF LangInv, LangTypes
<1>5. LangTypes'  BY <1>1, <1>3 DEF LangInv, LangTypes
<1>6. RootOk(own.root)'  BY <1>3, <1>4, ScopeIs DEF LangInv, RootOk
<1>7. /\ \A c : Mapped(c) => Mapped(c)'
      /\ \A q \in Root : RootOk(q)'
      /\ \A c \in LangChain!Scopes : MadeOk(c)'
 <2>1. \A q \in Root : root'[q].state = root[q].state /\ root[q].scopes \subseteq root'[q].scopes
   BY <1>4
 <2>2. \A q \in Root : root'[q] = root[q] \/ (root[q].state = "open" /\ RootOk(q)')
   BY <1>3, <1>4, <1>6
 <2>3. UNCHANGED <<made, signal>>  BY <1>1
 <2>4. QED BY <1>5, <2>1, <2>2, <2>3, MapsMore
<1>8. \A y \in Root \cup Chain : RunOk(y)'
 <2>1. Mapped(own)'  BY <1>3, <1>4 DEF Mapped
 <2>2. x \notin Root  BY RunsAssumption
 <2>3. QED BY <1>1, <1>7, <2>1, <2>2 DEF LangInv, LangTypes, RunOk
<1>9. \A c \in nodeOf' : NodeOk(c)'
  BY <1>1, <1>3, <1>4, ScopeIs DEF LangInv, LangTypes, NodeOk
<1>10. \A m \in LlmCall : ModelOk(m)'
  BY <1>1, <1>7 DEF LangInv, ModelOk
<1>11. \A s \in Signal : KeyOk(s)' /\ (signal'[s].call = "running" => signal'[s].scope \in LangChain!Scopes)
  BY <1>1 DEF LangInv, KeyOk
<1>12. QED BY <1>5, <1>7, <1>8, <1>9, <1>10, <1>11 DEF LangInv

(* Only the scopes of an open root get a run. *)
LEMMA Materialized ==
  ASSUME LangInv, NEW c, Mapped(c)
  PROVE  LET h == LangChain!Materialize(made, c)
         IN  /\ h \in [LangChain!Scopes -> [made : BOOLEAN, active : Int, finished : BOOLEAN]]
             /\ \A d \in LangChain!Scopes : /\ h[d].active = made[d].active /\ (h[d].finished <=> made[d].finished)
                                            /\ (made[d].made \/ d = c) => h[d].made
                                            /\ h[d].made => made[d].made \/ (root[d.root].state = "open" /\ d \in root[d.root].scopes)
<1>1. c \in LangChain!Scopes /\ c.root \in Root /\ LangChain!MainOf(c.root) \in LangChain!Scopes
      /\ LangChain!MainOf(c.root).root = c.root /\ root[c.root].state = "open"
      /\ LangChain!MainOf(c.root) \in root[c.root].scopes /\ c \in root[c.root].scopes
  BY ScopeIs DEF LangInv, RootOk, Mapped
<1> DEFINE g == [made EXCEPT ![LangChain!MainOf(c.root)].made = TRUE]
<1>2. /\ g \in [LangChain!Scopes -> [made : BOOLEAN, active : Int, finished : BOOLEAN]]
      /\ \A d \in LangChain!Scopes : g[d] = IF d = LangChain!MainOf(c.root) THEN [made[d] EXCEPT !.made = TRUE] ELSE made[d]
  BY <1>1 DEF LangInv, LangTypes
<1>3. LangChain!Materialize(made, c) = [g EXCEPT ![c].made = TRUE]  BY DEF LangChain!Materialize
<1> HIDE DEF g
<1>4. /\ LangChain!Materialize(made, c) \in [LangChain!Scopes -> [made : BOOLEAN, active : Int, finished : BOOLEAN]]
      /\ \A d \in LangChain!Scopes : LangChain!Materialize(made, c)[d] = IF d = c THEN [g[d] EXCEPT !.made = TRUE] ELSE g[d]
  BY <1>1, <1>2, <1>3
<1>5. ASSUME NEW d \in LangChain!Scopes
      PROVE  /\ LangChain!Materialize(made, c)[d].active = made[d].active
             /\ LangChain!Materialize(made, c)[d].finished <=> made[d].finished
             /\ (made[d].made \/ d = c) => LangChain!Materialize(made, c)[d].made
             /\ LangChain!Materialize(made, c)[d].made => made[d].made \/ (root[d.root].state = "open" /\ d \in root[d.root].scopes)
 <2>1. made[d] \in [made : BOOLEAN, active : Int, finished : BOOLEAN]  BY DEF LangInv, LangTypes
 <2>2. CASE d = c
   BY <1>1, <1>2, <1>4, <2>1, <2>2
 <2>3. CASE d # c /\ d = LangChain!MainOf(c.root)
   BY <1>1, <1>2, <1>4, <2>1, <2>3
 <2>4. CASE d # c /\ d # LangChain!MainOf(c.root)
   BY <1>1, <1>2, <1>4, <2>1, <2>4
 <2>5. QED BY <2>2, <2>3, <2>4
<1>6. QED BY <1>4, <1>5

LEMMA StartsModel ==
  ASSUME LangInv, NEW m \in LlmCall, NEW parent \in Root \cup Chain, LangChain!StartModel(m, parent)
  PROVE  LangInv'
<1>1. /\ chain[parent] # LangChain!NoScope
      /\ llm' = [llm EXCEPT ![m] = [scope |-> chain[parent], bound |-> FALSE, bindings |-> {}]]
      /\ made' = LangChain!Materialize(made, chain[parent])
      /\ llm[m] = LangChain!NoModel
      /\ UNCHANGED <<chain, root, key, nodeOf, signal>>
  BY DEF LangChain!StartModel
<1>2. Mapped(chain[parent])  BY <1>1 DEF LangInv, RunOk
<1>3. LangTypes'  BY <1>1, <1>2, Materialized DEF LangInv, LangTypes
<1>4. \A x \in Root \cup Chain : RunOk(x)'
  BY <1>1 DEF LangInv, RunOk, Mapped
<1>5. \A c \in nodeOf' : NodeOk(c)'
  BY <1>1 DEF LangInv, NodeOk
<1>6. \A k \in LlmCall : ModelOk(k)'
  BY <1>1, <1>2 DEF LangInv, LangTypes, ModelOk, Mapped
<1>7. \A s \in Signal : KeyOk(s)' /\ (signal'[s].call = "running" => signal'[s].scope \in LangChain!Scopes)
  BY <1>1 DEF LangInv, LangTypes, KeyOk
<1>8. \A q \in Root : RootOk(q)'
  BY <1>1 DEF LangInv, RootOk
<1>9. \A c \in LangChain!Scopes : MadeOk(c)'
 <2> SUFFICES ASSUME NEW c \in LangChain!Scopes PROVE MadeOk(c)'
   OBVIOUS
 <2>1. Running(c)' = Running(c)  BY <1>1 DEF Running
 <2>2. QED BY <1>1, <1>2, <2>1, Materialized DEF LangInv, MadeOk
<1>10. QED BY <1>3, <1>4, <1>5, <1>6, <1>7, <1>8, <1>9 DEF LangInv

(* Nothing changes for roots, mappings and handles. *)
LEMMA NothingMapped ==
  ASSUME LangInv, UNCHANGED <<chain, root, nodeOf>>, LangTypes',
         \A m \in LlmCall : llm'[m] = LangChain!NoModel \/ (llm[m] # LangChain!NoModel /\ ModelOk(m)'),
         \A s \in Signal : KeyOk(s)',
         \A s \in Signal : signal'[s].call = signal[s].call /\ signal'[s].scope = signal[s].scope,
         UNCHANGED made
  PROVE  LangInv'
<1>1. \A x \in Root \cup Chain : RunOk(x)'
  BY DEF LangInv, RunOk, Mapped
<1>2. \A c \in nodeOf' : NodeOk(c)'
  BY DEF LangInv, NodeOk
<1>3. \A q \in Root : RootOk(q)'
  BY DEF LangInv, RootOk
<1>4. ASSUME NEW c \in LangChain!Scopes PROVE MadeOk(c)'
 <2>1. Running(c)' = Running(c)  BY DEF Running
 <2>2. QED BY <2>1 DEF LangInv, MadeOk
<1>5. \A m \in LlmCall : ModelOk(m)'
  BY DEF ModelOk
<1>6. \A s \in Signal : signal'[s].call = "running" => signal'[s].scope \in LangChain!Scopes
  BY DEF LangInv
<1>7. QED BY <1>1, <1>2, <1>3, <1>4, <1>5, <1>6 DEF LangInv

LEMMA EndsModel ==
  ASSUME LangInv, NEW m \in LlmCall, NEW failed, LangChain!EndModel(m, failed)
  PROVE  LangInv'
<1>1. /\ llm[m] # LangChain!NoModel
      /\ llm' = [llm EXCEPT ![m] = LangChain!NoModel]
      /\ key' = LangChain!Keyless({m})
      /\ LangChain!FinishClosedRoot(llm[m].scope.root, root, made)
      /\ UNCHANGED <<chain, nodeOf, signal>>
  BY DEF LangChain!EndModel
<1>2. ModelOk(m) /\ root[llm[m].scope.root].state = "open"
  BY <1>1 DEF LangInv, ModelOk, Mapped
<1>3. root' = root /\ made' = made
  BY <1>1, <1>2 DEF LangChain!FinishClosedRoot
<1>4. \A s \in Signal : key'[s] = IF s \in llm[m].bindings THEN LangChain!NoScope ELSE key[s]
  BY <1>1 DEF LangChain!Keyless
<1>5. LangTypes'  BY <1>1, <1>3 DEF LangInv, LangTypes, LangChain!Keyless
<1>6. ASSUME NEW k \in LlmCall PROVE llm'[k] = LangChain!NoModel \/ (llm[k] # LangChain!NoModel /\ ModelOk(k)')
 <2>1. CASE k = m
   BY <1>1, <2>1 DEF LangInv, LangTypes
 <2>2. CASE k # m
  <3>1. llm'[k] = llm[k]  BY <1>1, <2>2 DEF LangInv, LangTypes
  <3>2. ModelOk(k)  BY DEF LangInv
  <3>3. QED BY <1>1, <1>2, <1>3, <1>4, <2>2, <3>1, <3>2 DEF ModelOk, Mapped
 <2>3. QED BY <2>1, <2>2
<1>7. ASSUME NEW s \in Signal PROVE KeyOk(s)'
  BY <1>1, <1>2, <1>4 DEF LangInv, LangTypes, KeyOk, ModelOk
<1>8. QED BY <1>1, <1>3, <1>5, <1>6, <1>7, NothingMapped

LEMMA EndsChild ==
  ASSUME LangInv, NEW x \in Chain, LangChain!EndChild(x)
  PROVE  LangInv'
<1>1. /\ chain' = [chain EXCEPT ![x] = LangChain!NoScope]
      /\ UNCHANGED <<llm, root, key, nodeOf, made, signal>>
  BY DEF LangChain!EndChild
<1>2. \A y \in Root \cup Chain : chain'[y] = LangChain!NoScope \/ chain'[y] = chain[y]
  BY <1>1 DEF LangInv, LangTypes
<1>3. \A c : Mapped(c)' <=> Mapped(c)
  BY <1>1 DEF Mapped
<1>4. \A c \in LangChain!Scopes : Running(c)' = Running(c)
  BY <1>1 DEF Running
<1>5. \A c \in LangChain!Scopes : MadeOk(c)'
  BY <1>1, <1>4 DEF LangInv, MadeOk
<1>6. \A y \in Root \cup Chain : RunOk(y)'
  BY <1>2, <1>3 DEF LangInv, RunOk
<1>7. LangTypes'  BY <1>1 DEF LangInv, LangTypes
<1>8. QED BY <1>1, <1>3, <1>5, <1>6, <1>7 DEF LangInv, NodeOk, ModelOk, KeyOk, RootOk

LEMMA RunningIsFinite ==
  ASSUME LangInv
  PROVE  \A c \in LangChain!Scopes : IsFiniteSet(Running(c)) /\ (Cardinality(Running(c)) = 0 <=> Running(c) = {})
BY FS_EmptySet DEF LangInv, MadeOk

LEMMA EndsRoot ==
  ASSUME LangInv, NEW r \in Root, LangChain!EndRoot(r)
  PROVE  LangInv'
<1> DEFINE mine == {m \in LlmCall : llm[m] # LangChain!NoModel /\ llm[m].scope.root = r}
           idle == {c \in root[r].scopes : made[c].active = 0}
           left == root[r].scopes \ idle
<1>1. /\ chain[r] # LangChain!NoScope
      /\ chain' = [x \in Root \cup Chain |-> IF chain[x] # LangChain!NoScope /\ chain[x].root = r THEN LangChain!NoScope ELSE chain[x]]
      /\ llm' = [m \in LlmCall |-> IF m \in mine THEN LangChain!NoModel ELSE llm[m]]
      /\ key' = LangChain!Keyless(mine)
      /\ LangChain!FinishClosedRoot(r, [root EXCEPT ![r].state = "closed"], made)
      /\ UNCHANGED <<nodeOf, signal>>
  BY DEF LangChain!EndRoot
<1>2. root[r].state = "open" /\ LangChain!MainOf(r) \in root[r].scopes
  BY <1>1, ScopeIs DEF LangInv, RunOk, Mapped, RootOk
<1>3. /\ root' = [root EXCEPT ![r] = [state |-> IF left = {} THEN "gone" ELSE "closed", scopes |-> left]]
      /\ made' = [c \in LangChain!Scopes |-> IF c \in idle THEN [made[c] EXCEPT !.finished = made[c].made] ELSE made[c]]
 <2> DEFINE shut == [root EXCEPT ![r].state = "closed"]
 <2>1. shut[r].state = "closed" /\ shut[r].scopes = root[r].scopes
   BY DEF LangInv, LangTypes
 <2>2. [shut EXCEPT ![r] = [state |-> IF left = {} THEN "gone" ELSE "closed", scopes |-> left]]
         = [root EXCEPT ![r] = [state |-> IF left = {} THEN "gone" ELSE "closed", scopes |-> left]]
   BY DEF LangInv, LangTypes
 <2>3. LangChain!FinishClosedRoot(r, shut, made)  BY <1>1
 <2> HIDE DEF shut
 <2>4. QED BY <2>1, <2>2, <2>3 DEF LangChain!FinishClosedRoot
<1>4. /\ idle \subseteq LangChain!Scopes /\ left \subseteq LangChain!Scopes /\ left \subseteq root[r].scopes
      /\ \A c \in root[r].scopes : c.root = r
  BY DEF LangInv, LangTypes, RootOk
<1>5. /\ root'[r].scopes = left
      /\ root'[r].state = IF left = {} THEN "gone" ELSE "closed"
      /\ \A q \in Root \ {r} : root'[q] = root[q]
  BY <1>3 DEF LangInv, LangTypes
<1>6. LangTypes'
 <2>1. root' \in [Root -> [state : RootStates, scopes : SUBSET LangChain!Scopes]]
   BY <1>3, <1>4 DEF LangInv, LangTypes, RootStates
 <2>2. made' \in [LangChain!Scopes -> [made : BOOLEAN, active : Int, finished : BOOLEAN]]
  <3>1. \A c \in LangChain!Scopes : made[c] \in [made : BOOLEAN, active : Int, finished : BOOLEAN]
    BY DEF LangInv, LangTypes
  <3>2. QED BY <1>3, <3>1
 <2>3. QED BY <1>1, <2>1, <2>2 DEF LangInv, LangTypes, LangChain!Keyless
<1>7. \A c : Mapped(c) /\ c.root # r => Mapped(c)'
  BY <1>5, ScopeIs DEF Mapped
<1> HIDE DEF left, idle
<1>8. \A x \in Root \cup Chain : RunOk(x)'
  BY <1>1, <1>7 DEF LangInv, RunOk
<1>9. \A c \in nodeOf' : NodeOk(c)'
  BY <1>1, <1>5, ScopeIs DEF LangInv, LangTypes, NodeOk
<1>10. \A s \in Signal : /\ key'[s] = LangChain!NoScope \/ key'[s] = key[s]
                         /\ key'[s] = IF \E m \in mine : s \in llm[m].bindings THEN LangChain!NoScope ELSE key[s]
  BY <1>1 DEF LangChain!Keyless
<1>11. \A m \in LlmCall : ModelOk(m)'
 <2> SUFFICES ASSUME NEW m \in LlmCall, llm'[m] # LangChain!NoModel PROVE ModelOk(m)'
   BY DEF ModelOk
 <2>1. llm'[m] = llm[m] /\ m \notin mine /\ ModelOk(m) /\ llm[m] # LangChain!NoModel /\ llm[m].scope.root # r
   BY <1>1 DEF LangInv
 <2>2. ASSUME NEW s \in llm[m].bindings PROVE key'[s] = key[s]
  <3>1. s \in Signal /\ signal[s].model = m
    BY <2>1 DEF ModelOk
  <3>2. \A k \in mine : s \notin llm[k].bindings
    BY <2>1, <3>1 DEF LangInv, ModelOk
  <3>3. QED BY <1>10, <3>1, <3>2
 <2>3. QED BY <1>1, <1>7, <2>1, <2>2 DEF ModelOk
<1>12. \A s \in Signal : KeyOk(s)' /\ (signal'[s].call = "running" => signal'[s].scope \in LangChain!Scopes)
 <2> SUFFICES ASSUME NEW s \in Signal PROVE KeyOk(s)' /\ (signal'[s].call = "running" => signal'[s].scope \in LangChain!Scopes)
   OBVIOUS
 <2>1. KeyOk(s) /\ (signal[s].call = "running" => signal[s].scope \in LangChain!Scopes)
   BY DEF LangInv
 <2>2. CASE key'[s] = LangChain!NoScope
   BY <1>1, <2>1, <2>2 DEF KeyOk
 <2>3. CASE key'[s] # LangChain!NoScope
  <3>1. key[s] = key'[s] /\ \A m \in mine : s \notin llm[m].bindings
    BY <1>10, <2>3
  <3>2. signal[s].model \in LlmCall \ mine  BY <2>1, <2>3, <3>1 DEF KeyOk
  <3>3. llm'[signal[s].model] = llm[signal[s].model]  BY <1>1, <3>2
  <3>4. QED BY <1>1, <2>1, <2>3, <3>1, <3>2, <3>3 DEF KeyOk
 <2>4. QED BY <2>2, <2>3
<1>13. \A q \in Root : RootOk(q)'
  BY <1>4, <1>5 DEF LangInv, RootOk
<1>14. \A c \in LangChain!Scopes : MadeOk(c)'
 <2> SUFFICES ASSUME NEW c \in LangChain!Scopes PROVE MadeOk(c)'
   OBVIOUS
 <2>1. Running(c)' = Running(c) /\ c.root \in Root /\ MadeOk(c)
   BY <1>1, ScopeIs DEF Running, LangInv
 <2>2. made[c] \in [made : BOOLEAN, active : Int, finished : BOOLEAN]  BY DEF LangInv, LangTypes
 <2>3. CASE c \in idle
  <3>1. c \in root[r].scopes /\ made[c].active = 0 /\ c.root = r /\ c \notin left
    BY <1>4, <2>3 DEF idle, left
  <3>2. made'[c].active = 0 /\ (made'[c].made <=> made[c].made) /\ (made'[c].finished <=> made[c].made)
    BY <1>3, <2>2, <2>3, <3>1
  <3>3. Running(c) = {}  BY <2>1, <3>1, RunningIsFinite DEF MadeOk
  <3>4. QED BY <1>5, <2>1, <3>1, <3>2, <3>3 DEF MadeOk
 <2>4. CASE c \notin idle /\ c.root = r
  <3>1. made'[c] = made[c] /\ (c \in root[r].scopes <=> c \in left)
    BY <1>3, <2>4 DEF left
  <3>2. c \in left => Running(c) # {}  BY <1>4, <2>1, <2>4, <3>1, RunningIsFinite DEF MadeOk, idle
  <3>3. QED BY <1>2, <1>5, <2>1, <2>4, <3>1, <3>2 DEF MadeOk
 <2>5. CASE c \notin idle /\ c.root # r
  <3>1. made'[c] = made[c] /\ root'[c.root] = root[c.root]
    BY <1>3, <1>5, <2>1, <2>5
  <3>2. QED BY <2>1, <3>1 DEF MadeOk
 <2>6. QED BY <2>3, <2>4, <2>5
<1>15. QED BY <1>6, <1>8, <1>9, <1>11, <1>12, <1>13, <1>14 DEF LangInv

(* An abort takes the signal from its model, and the model with its last signal. *)
LEMMA AbortsBinding ==
  ASSUME LangInv, NEW m \in LlmCall, NEW s \in Signal, llm[m] # LangChain!NoModel, NEW models, NEW keys,
         DOMAIN models = LlmCall, DOMAIN keys = Signal,
         \A k \in LlmCall \ {m} : models[k] = llm[k],
         \A t \in Signal \ {s} : keys[t] = key[t],
         models[m] # LangChain!NoModel, DOMAIN models[m] = {"scope", "bound", "bindings"},
         models[m].scope = llm[m].scope, models[m].bindings \ {s} = llm[m].bindings \ {s},
         signal[s].model = m \/ key[s] = LangChain!NoScope,
         UNCHANGED <<chain, nodeOf>>,
         \A t \in Signal \ {s} : signal'[t] = signal[t],
         signal'[s].call = signal[s].call, signal'[s].scope = signal[s].scope,
         DOMAIN signal' = Signal, DOMAIN signal'[s] = {"model", "aborted", "call", "scope"},
         signal'[s].model \in LlmCall \cup {LangChain!None},
         \A k \in LlmCall \ {m} : llm[k] # LangChain!NoModel => s \notin llm[k].bindings,
         LangChain!Aborted(m, s, models, keys)
  PROVE  LangInv'
<1> DEFINE left == models[m].bindings \ {s}
<1>1. ModelOk(m) /\ root[models[m].scope.root].state = "open"
  BY DEF LangInv, ModelOk, Mapped
<1>2. root' = root /\ made' = made
  BY <1>1 DEF LangChain!Aborted, LangChain!FinishClosedRoot
<1>3. /\ key' = [keys EXCEPT ![s] = LangChain!NoScope]
      /\ llm' = [models EXCEPT ![m] = IF left = {} THEN LangChain!NoModel ELSE [models[m] EXCEPT !.bindings = left]]
  BY DEF LangChain!Aborted
<1>4. /\ \A k \in LlmCall \ {m} : llm'[k] = llm[k]
      /\ left = {} => llm'[m] = LangChain!NoModel
      /\ left # {} => /\ DOMAIN llm'[m] = {"scope", "bound", "bindings"}
                      /\ llm'[m].scope = llm[m].scope
                      /\ llm'[m].bindings = llm[m].bindings \ {s}
      /\ \A t \in Signal : key'[t] = IF t = s THEN LangChain!NoScope ELSE key[t]
  BY <1>3
<1>5. LangTypes'  BY <1>2, <1>3 DEF LangInv, LangTypes
<1>6. ASSUME NEW k \in LlmCall PROVE llm'[k] = LangChain!NoModel \/ (llm[k] # LangChain!NoModel /\ ModelOk(k)')
 <2>1. ModelOk(k)  BY DEF LangInv
 <2>2. CASE k = m
   BY <1>1, <1>2, <1>4, <2>2 DEF ModelOk, Mapped
 <2>3. CASE k # m
   BY <1>2, <1>4, <2>1, <2>3 DEF ModelOk, Mapped
 <2>4. QED BY <2>2, <2>3
<1>7. ASSUME NEW t \in Signal PROVE KeyOk(t)'
 <2>1. KeyOk(t)  BY DEF LangInv
 <2>2. CASE t = s
   BY <1>4, <2>2 DEF KeyOk
 <2>3. CASE t # s /\ key[t] # LangChain!NoScope /\ signal[t].model = m
  <3>1. t \in left  BY <2>1, <2>3 DEF KeyOk
  <3>2. llm'[m] # LangChain!NoModel /\ t \in llm'[m].bindings
   <4>1. left # {} /\ t \in llm[m].bindings
     BY <2>1, <2>3, <3>1 DEF KeyOk
   <4>2. llm'[m] = [models[m] EXCEPT !.bindings = left]  BY <1>3, <4>1
   <4>3. left # {} /\ LangChain!NoModel.bindings = {}
     BY <4>1 DEF LangChain!NoModel
   <4>4. QED BY <1>4, <2>3, <4>1, <4>2, <4>3
  <3>3. QED BY <1>4, <2>1, <2>3, <3>2 DEF KeyOk
 <2>4. CASE t # s /\ (key[t] = LangChain!NoScope \/ signal[t].model # m)
   BY <1>4, <2>1, <2>4 DEF KeyOk
 <2>5. QED BY <2>2, <2>3, <2>4
<1>8. \A t \in Signal : signal'[t].call = signal[t].call /\ signal'[t].scope = signal[t].scope
  OBVIOUS
<1>9. QED BY <1>2, <1>5, <1>6, <1>7, <1>8, NothingMapped

LEMMA BindsCall ==
  ASSUME LangInv, NEW m \in LlmCall, NEW s \in Signal, NEW aborted \in BOOLEAN, LangChain!BindModelCall(m, s, aborted)
  PROVE  LangInv'
<1> DEFINE bound == [llm EXCEPT ![m].bound = TRUE, ![m].bindings = @ \cup {s}]
           keyed == [key EXCEPT ![s] = llm[m].scope]
<1>1. /\ llm[m] # LangChain!NoModel /\ signal[s].model = LangChain!None
      /\ signal' = [signal EXCEPT ![s].model = m, ![s].aborted = aborted]
      /\ UNCHANGED <<chain, nodeOf>>
      /\ aborted => LangChain!Aborted(m, s, bound, keyed)
      /\ ~aborted => llm' = bound /\ key' = keyed /\ UNCHANGED <<root, made>>
  BY Zenon DEF LangChain!BindModelCall
<1>2. /\ DOMAIN signal' = Signal /\ DOMAIN signal'[s] = {"model", "aborted", "call", "scope"}
      /\ signal'[s].model = m /\ signal'[s].aborted = aborted
      /\ signal'[s].call = signal[s].call /\ signal'[s].scope = signal[s].scope
      /\ \A t \in Signal \ {s} : signal'[t] = signal[t]
  BY <1>1 DEF LangInv, LangTypes
<1>3. key[s] = LangChain!NoScope /\ \A k \in LlmCall : llm[k] # LangChain!NoModel => s \notin llm[k].bindings
  BY <1>1, RunsAssumption DEF LangInv, KeyOk, ModelOk
<1>4. ModelOk(m)  BY DEF LangInv
<1>5. /\ DOMAIN bound = LlmCall /\ DOMAIN keyed = Signal
      /\ \A k \in LlmCall \ {m} : bound[k] = llm[k]
      /\ DOMAIN bound[m] = {"scope", "bound", "bindings"}
      /\ bound[m].scope = llm[m].scope /\ bound[m].bindings = llm[m].bindings \cup {s}
      /\ \A t \in Signal \ {s} : keyed[t] = key[t]
      /\ keyed[s] = llm[m].scope
  BY <1>1, <1>4 DEF LangInv, LangTypes, ModelOk
<1>6. bound[m] # LangChain!NoModel  BY <1>5 DEF LangChain!NoModel
<1> HIDE DEF bound, keyed
<1>7. CASE aborted
 <2>1. bound[m].bindings \ {s} = llm[m].bindings \ {s}  BY <1>5
 <2>2. LangChain!Aborted(m, s, bound, keyed)  BY <1>1, <1>7
 <2>3. \A k \in LlmCall \ {m} : llm[k] # LangChain!NoModel => s \notin llm[k].bindings
   BY <1>3
 <2>4. QED BY <1>1, <1>2, <1>3, <1>5, <1>6, <2>1, <2>2, <2>3, AbortsBinding
<1>8. CASE ~aborted
 <2>1. llm' = bound /\ key' = keyed /\ UNCHANGED <<root, made>>
   BY <1>1, <1>8
 <2>2. LangTypes'  BY <1>1, <1>2, <1>5, <2>1 DEF LangInv, LangTypes
 <2>3. ASSUME NEW k \in LlmCall PROVE llm'[k] = LangChain!NoModel \/ (llm[k] # LangChain!NoModel /\ ModelOk(k)')
  <3>1. ModelOk(k)  BY DEF LangInv
  <3>2. CASE k = m
    BY <1>1, <1>2, <1>3, <1>4, <1>5, <2>1, <3>2 DEF ModelOk, Mapped
  <3>3. CASE k # m
    BY <1>1, <1>2, <1>3, <1>5, <2>1, <3>1, <3>3 DEF ModelOk, Mapped
  <3>4. QED BY <3>2, <3>3
 <2>4. ASSUME NEW t \in Signal PROVE KeyOk(t)'
  <3>1. KeyOk(t)  BY DEF LangInv
  <3>2. CASE t = s
    BY <1>2, <1>5, <1>6, <1>8, <2>1, <3>2 DEF KeyOk
  <3>3. CASE t # s
    BY <1>2, <1>5, <1>6, <2>1, <3>1, <3>3 DEF KeyOk
  <3>4. QED BY <3>2, <3>3
 <2>5. \A t \in Signal : signal'[t].call = signal[t].call /\ signal'[t].scope = signal[t].scope
   BY <1>2
 <2>6. QED BY <1>1, <2>1, <2>2, <2>3, <2>4, <2>5, NothingMapped
<1>9. QED BY <1>7, <1>8

LEMMA Aborts ==
  ASSUME LangInv, NEW s \in Signal, LangChain!Abort(s)
  PROVE  LangInv'
<1> DEFINE m == signal[s].model
<1>1. /\ signal' = [signal EXCEPT ![s].aborted = TRUE]
      /\ signal[s].model # LangChain!None
      /\ IF llm[m] # LangChain!NoModel /\ s \in llm[m].bindings THEN LangChain!Aborted(m, s, llm, key)
         ELSE UNCHANGED <<llm, key, root, made>>
      /\ UNCHANGED <<chain, nodeOf>>
  BY DEF LangChain!Abort
<1>2. /\ DOMAIN signal' = Signal /\ DOMAIN signal'[s] = {"model", "aborted", "call", "scope"}
      /\ signal'[s].model = m
      /\ signal'[s].call = signal[s].call /\ signal'[s].scope = signal[s].scope
      /\ \A t \in Signal \ {s} : signal'[t] = signal[t]
  BY <1>1 DEF LangInv, LangTypes
<1>0. m \in LlmCall  BY <1>1 DEF LangInv, LangTypes
<1>3. CASE m \in LlmCall /\ llm[m] # LangChain!NoModel /\ s \in llm[m].bindings
 <2>1. LangChain!Aborted(m, s, llm, key)  BY <1>1, <1>3
 <2>2. \A k \in LlmCall \ {m} : llm[k] # LangChain!NoModel => s \notin llm[k].bindings
   BY <1>3 DEF LangInv, ModelOk
 <2>3. DOMAIN llm[m] = {"scope", "bound", "bindings"} /\ DOMAIN llm = LlmCall /\ DOMAIN key = Signal
   BY <1>3 DEF LangInv, ModelOk, LangTypes
 <2>4. UNCHANGED <<chain, nodeOf>>  BY <1>1
 <2> HIDE DEF m
 <2>5. signal[s].model = m  BY DEF m
 <2>6. PICK k : k = m
   OBVIOUS
 <2>7. QED BY <1>2, <1>3, <2>1, <2>2, <2>3, <2>4, <2>5, <2>6, AbortsBinding
<1>4. CASE m \in LlmCall /\ ~(llm[m] # LangChain!NoModel /\ s \in llm[m].bindings)
 <2>1. UNCHANGED <<llm, key, root, made>>  BY <1>1, <1>4
 <2>2. key[s] = LangChain!NoScope  BY <1>4 DEF LangInv, KeyOk
 <2>3. \A t \in Signal : KeyOk(t)'
   BY <1>2, <2>1, <2>2 DEF LangInv, KeyOk
 <2>4. \A k \in LlmCall : llm'[k] = LangChain!NoModel \/ (llm[k] # LangChain!NoModel /\ ModelOk(k)')
  <3> HIDE DEF m
  <3>1. \A t \in Signal : signal'[t].model = signal[t].model
    BY <1>2 DEF m
  <3>2. QED BY <2>1, <3>1 DEF LangInv, ModelOk, Mapped
 <2>5. LangTypes'  BY <1>1, <1>2, <2>1 DEF LangInv, LangTypes
 <2>6. \A t \in Signal : signal'[t].call = signal[t].call /\ signal'[t].scope = signal[t].scope
   BY <1>2
 <2>7. QED BY <1>1, <2>1, <2>3, <2>4, <2>5, <2>6, NothingMapped
<1>5. QED BY <1>0, <1>3, <1>4

LEMMA CreatesCall ==
  ASSUME LangInv, NEW s \in Signal, LangChain!Create(s)
  PROVE  LangInv'
<1>0. PICK c : c = key[s]
  OBVIOUS
<1>1. /\ signal[s].call = "none" /\ c # LangChain!NoScope
      /\ made' = [LangChain!Materialize(made, c) EXCEPT ![c].active = @ + 1]
      /\ signal' = [signal EXCEPT ![s].call = "running", ![s].scope = c]
      /\ UNCHANGED <<chain, llm, root, key, nodeOf>>
  BY <1>0 DEF LangChain!Create
<1>2. Mapped(c)
 <2>1. KeyOk(s)  BY DEF LangInv
 <2>2. ModelOk(signal[s].model)  BY <1>0, <1>1, <2>1 DEF LangInv, KeyOk
 <2>3. QED BY <1>0, <1>1, <2>1, <2>2 DEF KeyOk, ModelOk
<1>3. c \in LangChain!Scopes  BY <1>2 DEF Mapped
<1>4. /\ DOMAIN signal' = Signal /\ DOMAIN signal'[s] = {"model", "aborted", "call", "scope"}
      /\ signal'[s].model = signal[s].model /\ signal'[s].aborted = signal[s].aborted
      /\ signal'[s].call = "running" /\ signal'[s].scope = c
      /\ \A t \in Signal \ {s} : signal'[t] = signal[t]
  BY <1>1 DEF LangInv, LangTypes
<1> DEFINE h == LangChain!Materialize(made, c)
<1>5. /\ h \in [LangChain!Scopes -> [made : BOOLEAN, active : Int, finished : BOOLEAN]]
      /\ \A d \in LangChain!Scopes : /\ h[d].active = made[d].active /\ (h[d].finished <=> made[d].finished)
                                     /\ (made[d].made \/ d = c) => h[d].made
                                     /\ h[d].made => made[d].made \/ (root[d.root].state = "open" /\ d \in root[d.root].scopes)
  BY <1>2, Materialized
<1> HIDE DEF h
<1>6. /\ made' \in [LangChain!Scopes -> [made : BOOLEAN, active : Int, finished : BOOLEAN]]
      /\ \A d \in LangChain!Scopes \ {c} : made'[d] = h[d]
      /\ made'[c].active = h[c].active + 1 /\ (made'[c].made <=> h[c].made) /\ (made'[c].finished <=> h[c].finished)
  BY <1>1, <1>3, <1>5 DEF h
<1>7. LangTypes'  BY <1>1, <1>4, <1>6 DEF LangInv, LangTypes
<1>8. \A t \in Signal : /\ signal'[t].model = signal[t].model /\ (signal'[t].aborted <=> signal[t].aborted)
                        /\ signal'[t].call = "running" => signal'[t].scope \in LangChain!Scopes
  BY <1>3, <1>4 DEF LangInv
<1>9. \A d \in LangChain!Scopes : MadeOk(d)'
 <2> SUFFICES ASSUME NEW d \in LangChain!Scopes PROVE MadeOk(d)'
   OBVIOUS
 <2>1. MadeOk(d) /\ made[d] \in [made : BOOLEAN, active : Int, finished : BOOLEAN]
   BY DEF LangInv, LangTypes
 <2>2. CASE d = c
  <3>1. Running(d)' = Running(d) \cup {s} /\ s \notin Running(d)
    BY <1>1, <1>4, <2>2 DEF Running
  <3>2. IsFiniteSet(Running(d)') /\ Cardinality(Running(d)') = Cardinality(Running(d)) + 1
    BY <3>1, RunningIsFinite, FS_AddElement
  <3>3. root[d.root].state = "open" /\ d \in root[d.root].scopes
    BY <1>2, <2>2 DEF Mapped
  <3>4. QED BY <1>1, <1>5, <1>6, <2>1, <2>2, <3>1, <3>2, <3>3 DEF MadeOk
 <2>3. CASE d # c
  <3>1. Running(d)' = Running(d)  BY <1>1, <1>4, <2>3 DEF Running
  <3>2. QED BY <1>1, <1>5, <1>6, <2>1, <2>3, <3>1 DEF MadeOk
 <2>4. QED BY <2>2, <2>3
<1>10. \A x \in Root \cup Chain : RunOk(x)'
  BY <1>1 DEF LangInv, RunOk, Mapped
<1>11. \A m \in LlmCall : ModelOk(m)'
 <2>1. \A d : Mapped(d)' <=> Mapped(d)
   BY <1>1 DEF Mapped
 <2>2. QED BY <1>1, <1>8, <2>1 DEF LangInv, ModelOk
<1>12. \A t \in Signal : KeyOk(t)'
  BY <1>1, <1>8 DEF LangInv, KeyOk
<1>13. QED BY <1>1, <1>7, <1>8, <1>9, <1>10, <1>11, <1>12 DEF LangInv, NodeOk, RootOk

LEMMA SettlesCall ==
  ASSUME LangInv, NEW s \in Signal, LangChain!CallSettles(s)
  PROVE  LangInv'
<1>0. PICK c : c = signal[s].scope
  OBVIOUS
<1> DEFINE less == [made EXCEPT ![c].active = @ - 1]
<1>1. /\ signal[s].call = "running"
      /\ LangChain!FinishClosedRoot(c.root, root, less)
      /\ signal' = [signal EXCEPT ![s].call = "settled"]
      /\ UNCHANGED <<chain, llm, key, nodeOf>>
  BY <1>0 DEF LangChain!CallSettles
<1>2. c \in LangChain!Scopes /\ c.root \in Root /\ s \in Running(c) /\ MadeOk(c)
  BY <1>0, <1>1, ScopeIs DEF LangInv, Running
<1>3. /\ DOMAIN signal' = Signal
      /\ DOMAIN signal'[s] = {"model", "aborted", "call", "scope"}
      /\ signal'[s].model = signal[s].model /\ signal'[s].aborted = signal[s].aborted
      /\ signal'[s].call = "settled" /\ signal'[s].scope = c
      /\ \A t \in Signal \ {s} : signal'[t] = signal[t]
  BY <1>0, <1>1 DEF LangInv, LangTypes
<1>4. /\ less \in [LangChain!Scopes -> [made : BOOLEAN, active : Int, finished : BOOLEAN]]
      /\ \A d \in LangChain!Scopes \ {c} : less[d] = made[d]
      /\ less[c].active = made[c].active - 1 /\ (less[c].made <=> made[c].made) /\ (less[c].finished <=> made[c].finished)
  BY <1>2 DEF LangInv, LangTypes
<1>5. /\ Running(c)' = Running(c) \ {s}
      /\ IsFiniteSet(Running(c)') /\ Cardinality(Running(c)') = Cardinality(Running(c)) - 1
      /\ \A d \in LangChain!Scopes \ {c} : Running(d)' = Running(d)
      /\ Running(c)' = {} <=> Cardinality(Running(c)') = 0
 <2>1. Running(c)' = Running(c) \ {s} /\ \A d \in LangChain!Scopes \ {c} : Running(d)' = Running(d)
   BY <1>0, <1>3 DEF Running
 <2>2. IsFiniteSet(Running(c)) /\ IsFiniteSet(Running(c)')
   BY <1>2, <2>1, FS_Subset DEF MadeOk
 <2>3. Cardinality(Running(c)') = Cardinality(Running(c)) - 1  BY <1>2, <2>1, <2>2, FS_RemoveElement
 <2>4. QED BY <2>1, <2>2, <2>3, FS_EmptySet
<1>6. made[c].made /\ ~made[c].finished /\ c \in root[c.root].scopes /\ made[c].active # 0
  BY <1>2, RunningIsFinite DEF MadeOk
<1>7. \A t \in Signal : /\ signal'[t].model = signal[t].model /\ (signal'[t].aborted <=> signal[t].aborted)
                        /\ signal'[t].call = "running" => signal'[t].scope \in LangChain!Scopes
  BY <1>2, <1>3 DEF LangInv
<1> HIDE DEF less
<1>8. CASE root[c.root].state # "closed"
 <2>1. root' = root /\ made' = less
   BY <1>1, <1>8 DEF LangChain!FinishClosedRoot
 <2>2. LangTypes'  BY <1>1, <1>3, <1>4, <2>1 DEF LangInv, LangTypes
 <2>3. \A d \in LangChain!Scopes : MadeOk(d)'
  <3> SUFFICES ASSUME NEW d \in LangChain!Scopes PROVE MadeOk(d)'
    OBVIOUS
  <3>1. MadeOk(d)  BY DEF LangInv
  <3>2. CASE d = c
    BY <1>4, <1>5, <1>6, <1>8, <2>1, <3>1, <3>2 DEF MadeOk
  <3>3. CASE d # c
    BY <1>4, <1>5, <2>1, <3>1, <3>3 DEF MadeOk
  <3>4. QED BY <3>2, <3>3
 <2>4. \A x \in Root \cup Chain : RunOk(x)'
   BY <1>1, <2>1 DEF LangInv, RunOk, Mapped
 <2>5. \A m \in LlmCall : ModelOk(m)'
   BY <1>1, <1>7, <2>1 DEF LangInv, ModelOk, Mapped
 <2>6. \A t \in Signal : KeyOk(t)'
   BY <1>1, <1>7 DEF LangInv, KeyOk
 <2>7. QED BY <1>1, <1>7, <2>1, <2>2, <2>3, <2>4, <2>5, <2>6 DEF LangInv, NodeOk, RootOk
<1>9. CASE root[c.root].state = "closed"
 <2>0. PICK r : r = c.root
   OBVIOUS
 <2> DEFINE idle == {d \in root[r].scopes : less[d].active = 0}
            left == root[r].scopes \ idle
 <2>1. /\ root' = [root EXCEPT ![r] = [state |-> IF left = {} THEN "gone" ELSE "closed", scopes |-> left]]
       /\ made' = [d \in LangChain!Scopes |-> IF d \in idle THEN [less[d] EXCEPT !.finished = less[d].made] ELSE less[d]]
   BY <1>1, <1>9, <2>0 DEF LangChain!FinishClosedRoot
 <2>2. /\ root[r].scopes \subseteq LangChain!Scopes /\ r \in Root
       /\ \A d \in root[r].scopes : d.root = r
   BY <1>2, <2>0 DEF LangInv, LangTypes, RootOk
 <2>3. \A d \in idle : d = c
  <3> SUFFICES ASSUME NEW d \in idle, d # c PROVE FALSE
    OBVIOUS
  <3>1. d \in LangChain!Scopes /\ MadeOk(d) /\ made[d].active = 0 /\ d.root = r /\ d \in root[r].scopes
    BY <1>4, <2>2 DEF LangInv
  <3>2. QED BY <1>9, <2>0, <3>1, RunningIsFinite DEF MadeOk
 <2>4. /\ root'[r].scopes = left /\ root'[r].state = IF left = {} THEN "gone" ELSE "closed"
       /\ \A q \in Root \ {r} : root'[q] = root[q]
   BY <2>1, <2>2 DEF LangInv, LangTypes
 <2>5. LangTypes'
  <3>1. root' \in [Root -> [state : RootStates, scopes : SUBSET LangChain!Scopes]]
    BY <2>1, <2>2 DEF LangInv, LangTypes, RootStates
  <3>2. made' \in [LangChain!Scopes -> [made : BOOLEAN, active : Int, finished : BOOLEAN]]
    BY <1>4, <2>1
  <3>3. QED BY <1>1, <1>3, <3>1, <3>2 DEF LangInv, LangTypes
 <2> HIDE DEF idle, left
 <2>6. \A d : Mapped(d) => Mapped(d)'
   BY <1>9, <2>0, <2>4, ScopeIs DEF Mapped
 <2>7. \A d \in LangChain!Scopes : MadeOk(d)'
  <3> SUFFICES ASSUME NEW d \in LangChain!Scopes PROVE MadeOk(d)'
    OBVIOUS
  <3>1. MadeOk(d) /\ d.root \in Root
    BY ScopeIs DEF LangInv
  <3>2. CASE d = c /\ d \in idle
   <4>1. less[c].active = 0 /\ c \notin left
     BY <3>2 DEF idle, left
   <4>2. less[c] \in [made : BOOLEAN, active : Int, finished : BOOLEAN]  BY <1>2, <1>4
   <4>3. made'[c].active = 0 /\ made'[c].made /\ made'[c].finished
     BY <1>4, <1>6, <2>1, <3>2, <4>1, <4>2
   <4>4. Running(c)' = {} /\ IsFiniteSet(Running(c)') /\ Cardinality(Running(c)') = 0
     BY <1>2, <1>4, <1>5, <4>1 DEF MadeOk
   <4>5. QED BY <2>0, <2>4, <3>2, <4>1, <4>3, <4>4 DEF MadeOk
  <3>3. CASE d = c /\ d \notin idle
   <4>1. made'[c] = less[c] /\ c \in left /\ less[c].active # 0
     BY <1>6, <2>0, <2>1, <3>3 DEF idle, left
   <4>2. QED BY <1>4, <1>5, <1>6, <2>0, <2>4, <3>1, <3>3, <4>1 DEF MadeOk
  <3>4. CASE d # c
   <4>1. made'[d] = made[d] /\ Running(d)' = Running(d)
     BY <1>4, <1>5, <2>1, <2>3, <3>4
   <4>2. d \in root'[d.root].scopes <=> d \in root[d.root].scopes
     BY <2>3, <2>4, <3>1, <3>4 DEF left
   <4>3. root'[d.root].state = root[d.root].state \/ (d.root = r /\ root'[r].state \in {"closed", "gone"})
     BY <2>4, <3>1
   <4>4. QED BY <1>9, <2>0, <3>1, <4>1, <4>2, <4>3 DEF MadeOk
  <3>5. QED BY <3>2, <3>3, <3>4
 <2>8. \A q \in Root : RootOk(q)'
   BY <1>9, <2>0, <2>4 DEF LangInv, RootOk, left
 <2>9. \A x \in Root \cup Chain : RunOk(x)'
   BY <1>1, <2>6 DEF LangInv, RunOk
 <2>10. \A m \in LlmCall : ModelOk(m)'
   BY <1>1, <1>7, <2>6 DEF LangInv, ModelOk
 <2>11. \A t \in Signal : KeyOk(t)'
   BY <1>1, <1>7 DEF LangInv, KeyOk
 <2>12. \A d \in nodeOf' : NodeOk(d)'
   BY <1>1, <1>9, <2>0, <2>4, ScopeIs DEF LangInv, LangTypes, NodeOk
 <2>13. QED BY <1>7, <2>5, <2>7, <2>8, <2>9, <2>10, <2>11, <2>12 DEF LangInv
<1>10. QED BY <1>8, <1>9

LEMMA LangStep ==
  ASSUME LangInv, [LangChain!Next]_(LangChain!vars)
  PROVE  LangInv'
<1>1. CASE LangChain!Next
  BY <1>1, StartsRoot, EndsRoot, StartsChild, EndsChild, StartsModel, EndsModel, BindsCall, Aborts,
     CreatesCall, SettlesCall DEF LangChain!Next
<1>2. CASE UNCHANGED LangChain!vars
 <2>1. UNCHANGED <<chain, llm, root, key, nodeOf, made, signal>>  BY <1>2 DEF LangChain!vars
 <2>2. LangTypes'  BY <2>1 DEF LangInv, LangTypes
 <2>3. \A m \in LlmCall : llm'[m] = LangChain!NoModel \/ (llm[m] # LangChain!NoModel /\ ModelOk(m)')
   BY <2>1 DEF LangInv, ModelOk, Mapped
 <2>4. \A s \in Signal : KeyOk(s)'
   BY <2>1 DEF LangInv, KeyOk
 <2>5. QED BY <2>1, <2>2, <2>3, <2>4, NothingMapped
<1>3. QED BY <1>1, <1>2

LEMMA LangSafe ==
  ASSUME LangInv PROVE LangChain!LangChainReleases
<1>1. LangChain!KeysBelongToModels
  BY DEF LangInv, KeyOk, ModelOk, Mapped, LangChain!KeysBelongToModels
<1>2. ASSUME NEW c \in LangChain!Scopes
      PROVE  LET r == root[c.root] IN
             /\ made[c].finished => made[c].active = 0 /\ r.state \in {"closed", "gone"}
             /\ r.state \in {"closed", "gone"} /\ made[c].made /\ made[c].active = 0 => made[c].finished
             /\ (r.state = "gone") <=> (r.state # "new" /\ r.scopes = {})
 <2>1. MadeOk(c) /\ RootOk(c.root) /\ root[c.root].state \in RootStates
   BY ScopeIs DEF LangInv, LangTypes
 <2>2. (root[c.root].state = "gone") <=> (root[c.root].state # "new" /\ root[c.root].scopes = {})
   BY <2>1 DEF RootOk, RootStates
 <2>3. QED BY <2>1, <2>2, RunningIsFinite DEF MadeOk, RootOk
<1>3. LangChain!ScopesAreReleased  BY <1>2 DEF LangChain!ScopesAreReleased
<1>4. QED BY <1>1, <1>3 DEF LangChain!LangChainReleases

-----------------------------------------------------------------------------
(* The theorems. *)

(* A run's token is not collected while code executes in it or can still execute in it, a run is  *)
(* never inside itself, and a finished handle has no activation left (runFrames, runOwners and     *)
(* RunHandle of src/node.ts).                                                                        *)
THEOREM ScopesHoldTheirRuns ==
  Scopes!Spec => [](Scopes!TokensOutliveCode /\ Scopes!HandlesFinishIdle)
<1>1. Scopes!Init => ScopeInv  BY ScopeInit
<1>2. ScopeInv /\ [Scopes!Next]_(Scopes!vars) => ScopeInv'
  BY ScopeStep
<1>3. ScopeInv => Scopes!TokensOutliveCode /\ Scopes!HandlesFinishIdle
  BY TokensLive, HandlesIdle
<1>4. QED BY <1>1, <1>2, <1>3, PTL DEF Scopes!Spec

(* Whatever order an agent framework's events come in, one model call at most executes under a    *)
(* workflow, a violation reaches its caller, and the workflow's runs are finished and forgotten     *)
(* when it and its last model call are over (Invocation of src/openai-agents/index.ts).             *)
THEOREM WorkflowsEndClean == Agents!Spec => []Agents!InvocationsEndClean
<1>1. Agents!Init => AgentInv  BY AgentInit
<1>2. AgentInv /\ [Agents!Next]_(Agents!vars) => AgentInv'
  BY AgentStep
<1>3. AgentInv => Agents!InvocationsEndClean  BY AgentSafe
<1>4. QED BY <1>1, <1>2, <1>3, PTL DEF Agents!Spec

(* Whatever order chains, tools and models end in, a signal leads to its model's own scope or is   *)
(* aborted, and a root's scopes are finished when its callbacks and its last call are over           *)
(* (src/langchain/index.ts).                                                                          *)
THEOREM ChainsRelease == LangChain!Spec => []LangChain!LangChainReleases
<1>1. LangChain!Init => LangInv  BY LangInit
<1>2. LangInv /\ [LangChain!Next]_(LangChain!vars) => LangInv'
  BY LangStep
<1>3. LangInv => LangChain!LangChainReleases  BY LangSafe
<1>4. QED BY <1>1, <1>2, <1>3, PTL DEF LangChain!Spec

(* What the run checks of all three: no run is over before its code, and none of them outlives it. *)
THEOREM RunsAreOutlived == PartsSpec => []RunsOutliveTheirCode
<1> DEFINE partsVars == <<part, vars, velocityVars, scopeVars, agentVars, chainVars>>
<1>1. PartsInit => Scopes!Init /\ Agents!Init /\ LangChain!Init
  BY DEF PartsInit
<1>2. [PartsNext]_partsVars => [Scopes!Next]_(Scopes!vars)  BY DEF PartsNext, scopeVars, Scopes!vars
<1>3. [PartsNext]_partsVars => [Agents!Next]_(Agents!vars)  BY DEF PartsNext, agentVars, Agents!vars
<1>4. [PartsNext]_partsVars => [LangChain!Next]_(LangChain!vars)
  BY DEF PartsNext, chainVars, LangChain!vars
<1>5. PartsSpec => Scopes!Spec /\ Agents!Spec /\ LangChain!Spec
  BY <1>1, <1>2, <1>3, <1>4, PTL DEF PartsSpec, Scopes!Spec, Agents!Spec, LangChain!Spec
<1>6. QED BY <1>5, ScopesHoldTheirRuns, WorkflowsEndClean, ChainsRelease, PTL DEF RunsOutliveTheirCode
=============================================================================
