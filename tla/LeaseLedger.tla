---------------------------- MODULE LeaseLedger ----------------------------
(***************************************************************************)
(* The run lease ledger (src/src/lease.ts) of one agent run, driven the    *)
(* way the budget enforcer drives it (src/src/budget.ts): calls are        *)
(* admitted against a grant of tokens, settled when they finish, and the   *)
(* grant is renewed in the background while they run.                      *)
(*                                                                         *)
(* The ledger does no I/O, so every method is one synchronous step.  What  *)
(* interleaves is calls, the one initial grant in flight, renewals in      *)
(* flight and releases in flight, whose answers may come late, out of      *)
(* order, or be lost (a timeout).  st is the code's LeaseState; operators  *)
(* named after its methods take a LeaseState s and return the next one, so *)
(* that an action can compose the calls its handler makes.                 *)
(*                                                                         *)
(* Time is the order in which deadlines pass: a deadline is a flag that a  *)
(* clock action raises.  A lease incarnation is a number that is only ever *)
(* compared for equality.  The plane numbers its answers with planeGen, so *)
(* a lease identifier may come back but never with the same generation.    *)
(***************************************************************************)
EXTENDS Integers, FiniteSets, FiniteSetsExt

CONSTANTS
  Call,        \* the calls the run makes
  Chains,      \* the declared-entry sets (primary and fallback models) they need
  Estimates,   \* tokens a call may reserve: input estimate plus output bound
  Actuals,     \* tokens a call may turn out to have used
  Lease,       \* lease identifiers
  Terms,       \* what a grant may say: granted, share, mode, unreachable, final
  FailOpen,    \* the client's fail_open option
  MaxRenewals, \* MAX_RENEWAL_OPERATIONS
  MaxGen,      \* bound: answers of the plane that carry a generation
  NoLease,     \* a leaseId of null
  NoCall       \* no call: initialGrantInFlight does not have the run

NoRelease == 0

Mode == {"alert_only", "hard_deny"}
Unreachable == {"fail_open", "local_enforce"}
GrantTerms == [granted : Nat, share : Nat, mode : Mode,
               unreachable : Unreachable, final : BOOLEAN]

ASSUME LedgerAssumption ==
  /\ NoLease \notin Lease /\ NoCall \notin Call
  /\ Estimates \subseteq Nat /\ Actuals \subseteq Nat
  /\ Terms \subseteq GrantTerms
  /\ FailOpen \in BOOLEAN
  /\ MaxRenewals \in Nat /\ MaxGen \in Nat

VARIABLES
  st,          \* the LeaseState of the run
  call,        \* per call: its claim, its chain and its reservation
  granting,    \* initialGrantInFlight: the call whose grant is in flight
  renewals,    \* renewal operations launched and not finished
  releases,    \* refusal releases whose outcome is not known
  lastRelease, \* #nextRefusalToken
  planeGen,    \* answers of the plane so far
  hist         \* history: what the plane has acknowledged and been told

vars == <<st, call, granting, renewals, releases, lastRelease, planeGen, hist>>

Models == UNION Chains
Phase == {"new", "granting", "asking", "reserved", "aged", "swept", "done"}
Pool == {"none", "granted", "share", "uncounted"}
Latch == {"none", "waiting", "over", "forever"}  \* runIneligible and ineligibleRetryAt

CallRecord == [phase : Phase, chain : SUBSET Models, tokens : Nat, pool : Pool,
               lease : Lease \cup {NoLease}, incarnation : Nat, outside : BOOLEAN]

(* Declarations and reports are sets of at most one element: {} is null.   *)
Declaration == [lease : Lease, generation : Nat, chain : SUBSET Models,
                added : SUBSET Models, dispatched : BOOLEAN]
Report == [spent : Nat, calls : Nat, tokens : Nat]
Operation == [lease : Lease, generation : Nat, chain : SUBSET Models,
              added : SUBSET Models, report : Report, sent : BOOLEAN, granted : Nat]

TypeOK ==
  /\ st.leaseId \in Lease \cup {NoLease}
  /\ st.incarnation \in Nat /\ st.generation \in 0 .. MaxGen
  /\ st.grantedTokens \in Nat /\ st.grantedRemaining \in Int /\ st.shareRemaining \in Int
  /\ {st.refreshDue, st.expired, st.finalGrant, st.renewalInFlight, st.backingOff} \subseteq BOOLEAN
  /\ st.declaredModels \subseteq Models /\ st.refusedModels \subseteq Models
  /\ st.declaration \subseteq Declaration /\ Cardinality(st.declaration) <= 1
  /\ st.pendingReport \subseteq Report /\ Cardinality(st.pendingReport) <= 1
  /\ {st.spent, st.uncountedCalls, st.uncountedTokens} \subseteq Nat
  /\ st.postureMode \in Mode /\ st.onUnreachable \in Unreachable
  /\ st.latch \in Latch
  /\ st.releasePending \in 0 .. lastRelease
  /\ call \in [Call -> CallRecord]
  /\ granting \in Call \cup {NoCall}
  /\ renewals \subseteq Operation
  /\ lastRelease \in Nat /\ releases \subseteq 1 .. lastRelease
  /\ planeGen \in 0 .. MaxGen

FreshState ==
  [leaseId |-> NoLease, incarnation |-> 0, generation |-> 0, grantedTokens |-> 0,
   grantedRemaining |-> 0, shareRemaining |-> 0, refreshDue |-> FALSE, expired |-> FALSE,
   postureMode |-> "alert_only", onUnreachable |-> "fail_open", finalGrant |-> FALSE,
   declaredModels |-> {}, refusedModels |-> {}, renewalInFlight |-> FALSE,
   declaration |-> {}, backingOff |-> FALSE, pendingReport |-> {}, spent |-> 0,
   uncountedCalls |-> 0, uncountedTokens |-> 0, latch |-> "none", releasePending |-> NoRelease]

NewCall == [phase |-> "new", chain |-> {}, tokens |-> 0, pool |-> "none",
            lease |-> NoLease, incarnation |-> 0, outside |-> FALSE]

Init ==
  /\ st = FreshState
  /\ call = [c \in Call |-> NewCall]
  /\ granting = NoCall /\ renewals = {} /\ releases = {} /\ lastRelease = 0 /\ planeGen = 0
  /\ hist = [spend |-> 0, granted |-> 0, shareBase |-> 0, shareGrant |-> 0,
             calls |-> 0, tokens |-> 0, said |-> [g \in 1 .. MaxGen |-> {}]]

-----------------------------------------------------------------------------
(* Reservations of the present lease *)

HasLease(s) == s.leaseId # NoLease

Covers(s, chain) == chain \subseteq s.declaredModels
Refuses(s, chain) == chain \cap s.refusedModels # {}

(* Whether call record k was reserved under the lease s holds now. *)
Belongs(s, k) == k.lease = s.leaseId /\ k.incarnation = s.incarnation

(* The tokens of the calls S together, counted one by one. *)
Sum(cs, S) == Cardinality(UNION {{c} \X (1 .. cs[c].tokens) : c \in S})

Of(cs, s, phases, pool) ==
  {c \in Call : cs[c].phase \in phases /\ cs[c].pool = pool /\ Belongs(s, cs[c])}

Tokens(cs, s, phases, pool) == Sum(cs, Of(cs, s, phases, pool))

(* What calls in flight hold of a pool, and what finished ones used of it. *)
Live(s, pool) == Tokens(call, s, {"reserved", "aged"}, pool)
Used(s, pool) == Tokens(call, s, {"done"}, pool)

DropLease(s) ==
  [s EXCEPT !.incarnation = @ + 1,
            !.leaseId = NoLease, !.generation = 0, !.grantedTokens = 0,
            !.grantedRemaining = 0, !.shareRemaining = 0, !.refreshDue = FALSE,
            !.expired = FALSE, !.finalGrant = FALSE, !.renewalInFlight = FALSE,
            !.declaration = {}, !.pendingReport = {}, !.spent = 0]

(* Adding to or taking from the pool a reservation was drawn from. *)
Credit(s, pool, n) ==
  IF pool = "granted" THEN [s EXCEPT !.grantedRemaining = @ + n]
                      ELSE [s EXCEPT !.shareRemaining = @ + n]

Uncounted(s, n) ==
  [s EXCEPT !.uncountedCalls = @ + 1, !.uncountedTokens = @ + n]

MarkIneligible(s, until) ==
  [DropLease(s) EXCEPT !.latch = until, !.releasePending = NoRelease]

-----------------------------------------------------------------------------
(* Renewals: claiming, reporting and declaring *)

RenewalDue(s) ==
  /\ HasLease(s) /\ ~s.renewalInFlight /\ ~s.backingOff /\ ~s.finalGrant
  /\ s.grantedTokens > 0
  /\ s.refreshDue \/ (s.grantedTokens - s.grantedRemaining) * 4 >= s.grantedTokens * 3

Owed(s) == {d \in s.declaration : d.lease = s.leaseId /\ d.generation = s.generation}

NewDeclaration(s, chain) ==
  [lease |-> s.leaseId, generation |-> s.generation, chain |-> chain,
   added |-> chain \ s.declaredModels, dispatched |-> FALSE]

(* A retry at the same lease and generation sends what is owed, whatever its chain. *)
ClaimRenewal(s, chain) ==
  IF ~HasLease(s) \/ s.renewalInFlight THEN s
  ELSE [s EXCEPT
         !.pendingReport = {[spent |-> s.spent, calls |-> s.uncountedCalls,
                             tokens |-> s.uncountedTokens]},
         !.renewalInFlight = TRUE,
         !.declaration = IF Owed(s) # {} THEN Owed(s) ELSE {NewDeclaration(s, chain)}]

(* A plausible bug: a widening does not look at the refused models again. *)
WidenUnchecked(s, chain) ==
  IF /\ HasLease(s) /\ s.latch = "none" /\ ~s.renewalInFlight /\ ~s.finalGrant
     /\ s.grantedTokens > 0 /\ ~s.expired /\ ~s.backingOff /\ ~Covers(s, chain)
  THEN ClaimRenewal(s, chain) ELSE s

(* claimWideningRequest: the gates of a due renewal on a live lease. *)
ClaimWidening(s, chain) ==
  IF /\ HasLease(s) /\ s.latch = "none" /\ ~s.renewalInFlight /\ ~s.finalGrant
     /\ s.grantedTokens > 0 /\ ~s.expired /\ ~s.backingOff
     /\ ~Refuses(s, chain) /\ ~Covers(s, chain)
  THEN ClaimRenewal(s, chain) ELSE s

(* The operation the enforcer launches for the claim s has just made. *)
OperationOf(s) ==
  LET d == CHOOSE d \in s.declaration : TRUE
  IN  [lease |-> s.leaseId, generation |-> s.generation, chain |-> d.chain,
       added |-> d.added, report |-> CHOOSE p \in s.pendingReport : TRUE, sent |-> FALSE,
       granted |-> Used(s, "granted")]

Room == Cardinality(renewals) < MaxRenewals

(* Scheduling: an admission of a chain may claim the renewal that is due. *)
Schedule(s, due, chain) == IF due /\ Room THEN ClaimRenewal(s, chain) ELSE s

Launched(s) ==
  renewals \cup IF s.renewalInFlight /\ ~st.renewalInFlight THEN {OperationOf(s)} ELSE {}

AtOrigin(s, r) == s.leaseId = r.lease /\ s.generation = r.generation

MarkDispatched(s, r) ==
  IF AtOrigin(s, r) THEN [s EXCEPT !.declaration = {[d EXCEPT !.dispatched = TRUE] : d \in Owed(s)}]
  ELSE s

(* A plausible bug: an attempt that was skipped drops what an earlier one sent. *)
FailForgetting(s, r, sent) ==
  IF ~AtOrigin(s, r) THEN s
  ELSE [s EXCEPT
         !.declaration = IF sent THEN {[d EXCEPT !.dispatched = TRUE] : d \in Owed(s)} ELSE {},
         !.renewalInFlight = FALSE, !.pendingReport = {}, !.backingOff = TRUE]

(* A plausible bug: a failed renewal leaves its in-flight mark. *)
FailKeepingClaim(s, r, sent) == s

RenewalFailed(s, r, sent) ==
  IF ~AtOrigin(s, r) THEN s
  ELSE [s EXCEPT
         !.declaration = IF sent THEN {[d EXCEPT !.dispatched = TRUE] : d \in Owed(s)}
                         ELSE {d \in Owed(s) : d.dispatched},
         !.renewalInFlight = FALSE, !.pendingReport = {}, !.backingOff = TRUE]

SettlePendingReport(s) ==
  IF s.pendingReport = {} THEN s
  ELSE LET p == CHOOSE p \in s.pendingReport : TRUE
       IN  [s EXCEPT !.spent = Max({0, @ - p.spent}),
                     !.uncountedCalls = Max({0, @ - p.calls}),
                     !.uncountedTokens = Max({0, @ - p.tokens}),
                     !.pendingReport = {}]

(* A plausible bug: the successor ignores calls still in flight. *)
CarriedSpendOnly(s) ==
  IF s.pendingReport = {} THEN 0
  ELSE Max({0, s.spent - (CHOOSE p \in s.pendingReport : TRUE).spent})

(* What a successor grant of the same lease starts out having used.        *)
CarriedGranted(s) ==
  Live(s, "granted") +
  IF s.pendingReport = {} THEN 0
  ELSE Max({0, s.spent - (CHOOSE p \in s.pendingReport : TRUE).spent})

Install(s, lease, gen, terms, chain) ==
  LET same == s.leaseId = lease
  IN  SettlePendingReport(
        [s EXCEPT
          !.incarnation = IF same THEN @ ELSE @ + 1,
          !.spent = IF same THEN @ ELSE 0,
          !.leaseId = lease, !.generation = gen, !.grantedTokens = terms.granted,
          !.grantedRemaining = terms.granted - (IF same THEN CarriedGranted(s) ELSE 0),
          !.shareRemaining = terms.share - (IF same THEN Live(s, "share") ELSE 0),
          !.refreshDue = FALSE, !.expired = FALSE, !.finalGrant = terms.final,
          !.postureMode = terms.mode,
          !.onUnreachable = IF FailOpen THEN terms.unreachable ELSE "local_enforce",
          !.declaredModels = IF same THEN @ \cup chain ELSE chain,
          !.renewalInFlight = FALSE, !.declaration = {}, !.backingOff = FALSE,
          !.latch = "none", !.releasePending = NoRelease])

(* An eligible:false answer to a renewal: its report is settled, the models *)
(* it added are refused for good, and the lease is given back.              *)
RefuseRenewal(s, r, token) ==
  [DropLease(SettlePendingReport(s)) EXCEPT
    !.refusedModels = @ \cup r.added, !.latch = "waiting", !.releasePending = token]

(* A plausible bug: an outcome of an earlier release opens a later latch. *)
ResolveAnyRelease(s, token, sent) ==
  [s EXCEPT !.releasePending = NoRelease, !.latch = IF sent THEN "none" ELSE @]

ResolveRelease(s, token, sent) ==
  IF s.releasePending # token THEN s
  ELSE [s EXCEPT !.releasePending = NoRelease, !.latch = IF sent THEN "none" ELSE @]

-----------------------------------------------------------------------------
(* Admission of one call *)

(* A reservation past RESERVATION_MAX_AGE_S is given back at the next admission. *)
Sweep(cs) ==
  [c \in Call |-> IF cs[c].phase = "aged" THEN [cs[c] EXCEPT !.phase = "swept"] ELSE cs[c]]

Swept(s, cs) ==
  [s EXCEPT !.grantedRemaining = @ + Tokens(cs, s, {"aged"}, "granted"),
            !.shareRemaining = @ + Tokens(cs, s, {"aged"}, "share")]

Verdict(decision, s, pool, due, outside) ==
  [decision |-> decision, st |-> s, pool |-> pool, due |-> due, outside |-> outside]

Legacy(s, due) == Verdict("legacy", s, "none", due, FALSE)
NeedGrant(s) == Verdict("needGrant", s, "none", FALSE, FALSE)

(* Both pools are spent or the plane is down: the share, its floor in hard_deny. *)
DrawShare(s, est) ==
  IF s.shareRemaining >= est \/ s.postureMode # "hard_deny"
  THEN Verdict("metered", Credit(s, "share", 0 - est), "share", FALSE, FALSE)
  ELSE Verdict("deny", s, "none", FALSE, FALSE)

(* A plausible bug: anything left is taken for enough. *)
AdmitLiveAny(s, est, open) ==
  IF s.grantedRemaining > 0
  THEN LET t == Credit(s, "granted", 0 - est)
       IN  Verdict("local", t, "granted", RenewalDue(t), FALSE)
  ELSE IF open THEN DrawShare(s, est) ELSE Legacy(s, RenewalDue(s))

AdmitLive(s, est, open) ==
  IF s.grantedRemaining >= est
  THEN LET t == Credit(s, "granted", 0 - est)
       IN  Verdict("local", t, "granted", RenewalDue(t), FALSE)
  ELSE IF open THEN DrawShare(s, est) ELSE Legacy(s, RenewalDue(s))

AdmitExpired(s, est, open) ==
  IF ~open THEN NeedGrant(DropLease(s))
  ELSE IF s.onUnreachable = "fail_open"
  THEN Verdict("uncounted", Uncounted(s, est), "uncounted", FALSE, FALSE)
  ELSE DrawShare(s, est)

(* A chain the held lease does not declare. *)
AdmitOutside(s, open) ==
  IF s.expired /\ ~open THEN NeedGrant(DropLease(s))
  ELSE Verdict("legacy", s, "none", FALSE, TRUE)

AdmitUnlatched(s, chain, est, open) ==
  CASE Refuses(s, chain)                 -> Legacy(s, FALSE)
    [] ~Refuses(s, chain) /\ ~HasLease(s) -> NeedGrant(s)
    [] ~Refuses(s, chain) /\ HasLease(s) ->
         IF ~Covers(s, chain) THEN AdmitOutside(s, open)
         ELSE IF s.expired THEN AdmitExpired(s, est, open)
         ELSE AdmitLive(s, est, open)

AdmitOn(s, chain, est, open) ==
  IF s.latch \in {"waiting", "forever"} THEN Legacy(s, FALSE)
  ELSE AdmitUnlatched(
         IF s.latch = "over" THEN [s EXCEPT !.latch = "none", !.releasePending = NoRelease]
                             ELSE s,
         chain, est, open)

-----------------------------------------------------------------------------
(* Calls.  In what follows k is the record of call c, s the ledger and cs   *)
(* the calls as the handler leaves them before it records c's own outcome.  *)

Write(c, k, s, cs) ==
  /\ st' = s
  /\ call' = [cs EXCEPT ![c] = k]
  /\ renewals' = Launched(s)

(* The books of a lease end with its incarnation. *)
Since(s) ==
  IF s.incarnation = st.incarnation THEN hist
  ELSE [hist EXCEPT !.spend = 0, !.granted = 0, !.shareBase = 0, !.shareGrant = 0]

Over == [NewCall EXCEPT !.phase = "done"]
Uncovered(k) == [Over EXCEPT !.pool = "uncounted", !.tokens = k.tokens]
Holding(k, v) == [k EXCEPT !.phase = "reserved", !.pool = v.pool,
                           !.lease = v.st.leaseId, !.incarnation = v.st.incarnation]

(* localLeaseResult: the verdicts that decide the call at once. *)
Immediate(c, k, v, cs) ==
  \/ v.decision \in {"local", "metered"} /\ Write(c, Holding(k, v), Schedule(v.st, v.due, k.chain), cs)
  \/ v.decision = "uncounted" /\ Write(c, Uncovered(k), v.st, cs)
  \/ v.decision = "deny" /\ Write(c, Over, v.st, cs)

(* The plane is unreachable and the run has no lease; handleOutage allows or not. *)
ColdOutage(c, k, s, cs) ==
  \/ FailOpen /\ Write(c, Uncovered(k), Uncounted(s, k.tokens), cs)
  \/ Write(c, Over, s, cs)

(* The breaker refused the per-call check: the lease is tried once more. *)
Reentry(c, k, s, cs) ==
  LET v == AdmitOn(Swept(s, cs), k.chain, k.tokens, TRUE)
  IN  \/ Immediate(c, k, v, Sweep(cs))
      \/ v.decision = "needGrant" /\ ColdOutage(c, k, v.st, Sweep(cs))
      \/ v.decision = "legacy" /\ Write(c, Over, v.st, Sweep(cs))

(* The per-call check: answered from the cache or out of time, sent, or refused. *)
PerCall(c, k, s, cs) ==
  \/ Write(c, Over, s, cs)
  \/ Write(c, [k EXCEPT !.phase = "asking"], s, cs)
  \/ Reentry(c, k, s, cs)

(* checkBudget of a call up to its first await. *)
Check(c) ==
  \E chain \in Chains, est \in Estimates, open \in BOOLEAN :
    LET v == AdmitOn(Swept(st, call), chain, est, open)
        k == [NewCall EXCEPT !.chain = chain, !.tokens = est, !.outside = v.outside]
        cs == Sweep(call)
    IN  /\ call[c].phase = "new"
        /\ \/ Immediate(c, k, v, cs) /\ UNCHANGED granting
           \/ /\ v.decision \in {"legacy", "needGrant"}
              /\ PerCall(c, k, Schedule(v.st, v.due, chain), cs)
              /\ UNCHANGED granting
           \/ /\ v.decision = "needGrant" /\ granting = NoCall
              /\ \/ Write(c, [k EXCEPT !.phase = "granting"], v.st, cs) /\ granting' = c
                 \/ ColdOutage(c, k, v.st, cs) /\ UNCHANGED granting
        /\ hist' = Since(st')
        /\ UNCHANGED <<releases, lastRelease, planeGen>>

(* The per-call check is answered.  An allow outside the declared set widens; *)
(* a stop directive drops the lease.                                          *)
CheckAnswered(c) ==
  /\ call[c].phase = "asking"
  /\ \/ Write(c, Over, st, call)
     \/ call[c].outside /\ Room /\ Write(c, Over, ClaimWidening(st, call[c].chain), call)
     \/ Write(c, Over, DropLease(st), call)
  /\ hist' = Since(st')
  /\ UNCHANGED <<granting, releases, lastRelease, planeGen>>

-----------------------------------------------------------------------------
(* The answer to the initial grant *)

(* Aborted, superseded, refused or denied: no lease comes of it. *)
GrantWithheld(c) ==
  /\ granting = c /\ granting' = NoCall
  /\ \/ \E s \in {st, DropLease(st)} : Write(c, Over, s, call)
     \/ PerCall(c, call[c], st, call)
     \/ ColdOutage(c, call[c], st, call)
  /\ hist' = Since(st')
  /\ UNCHANGED <<releases, lastRelease, planeGen>>

(* A run that stopped meanwhile, a status the plane refuses a grant with, an *)
(* ineligible run (for good), a grant that cannot be installed.              *)
GrantLatched(c) ==
  /\ granting = c /\ granting' = NoCall
  /\ \E s \in {DropLease(st), MarkIneligible(st, "waiting"), MarkIneligible(st, "forever"),
                [DropLease(st) EXCEPT !.latch = "waiting"]} : PerCall(c, call[c], s, call)
  /\ hist' = Since(st')
  /\ UNCHANGED <<releases, lastRelease, planeGen>>

GrantApplied(c) ==
  /\ granting = c /\ granting' = NoCall
  /\ planeGen < MaxGen /\ planeGen' = planeGen + 1
  /\ \E lease \in Lease, terms \in Terms, open \in BOOLEAN :
       LET k == call[c]
           s == Install(st, lease, planeGen', terms, k.chain)
           v == AdmitOn(Swept(s, call), k.chain, k.tokens, open)
       IN  /\ \/ Immediate(c, k, v, Sweep(call))
              \/ /\ v.decision \in {"legacy", "needGrant"}
                 /\ PerCall(c, k, Schedule(v.st, v.due, k.chain), Sweep(call))
           /\ hist' = [Since(st') EXCEPT !.shareGrant = terms.share]
  /\ UNCHANGED <<releases, lastRelease>>

-----------------------------------------------------------------------------
(* Renewals *)

(* performRenewal up to its POST: the breaker refuses it, or it is sent. *)
SkipRenewal(r) ==
  /\ r \in renewals /\ ~r.sent
  /\ st' = RenewalFailed(st, r, FALSE)
  /\ renewals' = renewals \ {r}
  /\ UNCHANGED <<call, granting, releases, lastRelease, planeGen, hist>>

SendRenewal(r) ==
  /\ r \in renewals /\ ~r.sent
  /\ st' = MarkDispatched(st, r)
  /\ renewals' = (renewals \ {r}) \cup {[r EXCEPT !.sent = TRUE]}
  /\ hist' = [hist EXCEPT !.said[r.generation] = @ \cup {r.chain}]
  /\ UNCHANGED <<call, granting, releases, lastRelease, planeGen>>

Answered(r) == r \in renewals /\ r.sent /\ renewals' = renewals \ {r}

(* A timeout, an unreadable or superseded answer; 404, 409 or a stopped run; a *)
(* denial; a grant that cannot be installed.                                   *)
RenewalWithheld(r) ==
  /\ Answered(r)
  /\ \/ st' = RenewalFailed(st, r, TRUE)
     \/ AtOrigin(st, r) /\ st' = DropLease(st)
     \/ AtOrigin(st, r) /\ st' = [DropLease(st) EXCEPT !.latch = "waiting"]
  /\ hist' = Since(st')
  /\ UNCHANGED <<call, granting, releases, lastRelease, planeGen>>

Acknowledged(r) ==
  [Since(st') EXCEPT !.calls = @ + r.report.calls, !.tokens = @ + r.report.tokens]

RenewalApplied(r) ==
  /\ Answered(r) /\ AtOrigin(st, r)
  /\ planeGen < MaxGen /\ planeGen' = planeGen + 1
  /\ \E lease \in Lease, terms \in Terms :
       /\ st' = Install(st, lease, planeGen', terms, r.chain)
       /\ hist' = [Acknowledged(r) EXCEPT
                    !.spend = IF lease = r.lease THEN @ + r.report.spent ELSE 0,
                    !.granted = IF lease = r.lease THEN r.granted ELSE 0,
                    !.shareBase = Used(st', "share"), !.shareGrant = terms.share]
  /\ UNCHANGED <<call, granting, releases, lastRelease>>

RenewalRefused(r) ==
  /\ Answered(r) /\ AtOrigin(st, r)
  /\ lastRelease' = lastRelease + 1
  /\ releases' = releases \cup {lastRelease'}
  /\ st' = RefuseRenewal(st, r, lastRelease')
  /\ hist' = Acknowledged(r)
  /\ UNCHANGED <<call, granting, planeGen>>

(* An answer for a lease or generation the run no longer holds: it is given *)
(* back to the plane and the ledger is left alone.                          *)
RenewalOutdated(r) ==
  /\ Answered(r) /\ ~AtOrigin(st, r)
  /\ UNCHANGED <<st, call, granting, releases, lastRelease, planeGen, hist>>

ReleaseDone(token) ==
  /\ token \in releases /\ releases' = releases \ {token}
  /\ \E sent \in BOOLEAN : st' = ResolveRelease(st, token, sent)
  /\ UNCHANGED <<call, granting, renewals, lastRelease, planeGen, hist>>

-----------------------------------------------------------------------------
(* Settlement *)

Reserving(c) == call[c].phase \in {"reserved", "aged", "swept"}

(* trueUp: the reservation is replaced by what the call used.  A swept call *)
(* was credited already, so all of it is charged.                           *)
Settle(c, used) ==
  LET k == call[c]
      s == Credit(st, k.pool, IF k.phase = "swept" THEN 0 - used ELSE k.tokens - used)
  IN  IF Belongs(st, k) THEN [s EXCEPT !.spent = @ + used] ELSE st

TrueUp(c) ==
  /\ Reserving(c)
  /\ \E used \in Actuals \cup {call[c].tokens} :
       /\ st' = Settle(c, used)
       /\ call' = [call EXCEPT ![c] =
                     IF Belongs(st, @) THEN [@ EXCEPT !.phase = "done", !.tokens = used] ELSE Over]
  /\ UNCHANGED <<granting, renewals, releases, lastRelease, planeGen, hist>>

Release(c) ==
  /\ Reserving(c)
  /\ st' = IF Belongs(st, call[c]) /\ call[c].phase # "swept"
           THEN Credit(st, call[c].pool, call[c].tokens) ELSE st
  /\ call' = [call EXCEPT ![c] = Over]
  /\ UNCHANGED <<granting, renewals, releases, lastRelease, planeGen, hist>>

-----------------------------------------------------------------------------
(* Deadlines passing *)

Deadline ==
  \/ HasLease(st) /\ ~st.refreshDue /\ st' = [st EXCEPT !.refreshDue = TRUE]
  \/ HasLease(st) /\ ~st.expired /\ st' = [st EXCEPT !.expired = TRUE]
  \/ st.backingOff /\ st' = [st EXCEPT !.backingOff = FALSE]
  \/ st.latch = "waiting" /\ st' = [st EXCEPT !.latch = "over"]

Clock ==
  /\ Deadline
  /\ UNCHANGED <<call, granting, renewals, releases, lastRelease, planeGen, hist>>

Age(c) ==
  /\ call[c].phase = "reserved"
  /\ call' = [call EXCEPT ![c].phase = "aged"]
  /\ UNCHANGED <<st, granting, renewals, releases, lastRelease, planeGen, hist>>

CallStep(c) == \/ Check(c) \/ CheckAnswered(c)
               \/ GrantWithheld(c) \/ GrantLatched(c) \/ GrantApplied(c)
               \/ TrueUp(c) \/ Release(c) \/ Age(c)

RenewalStep(r) == \/ SkipRenewal(r) \/ SendRenewal(r) \/ RenewalWithheld(r)
                  \/ RenewalApplied(r) \/ RenewalRefused(r) \/ RenewalOutdated(r)

Next == \/ \E c \in Call : CallStep(c)
        \/ \E r \in renewals : RenewalStep(r)
        \/ \E token \in releases : ReleaseDone(token)
        \/ Clock

Spec == Init /\ [][Next]_vars

-----------------------------------------------------------------------------
(* Properties *)

(* Whatever calls, renewals and sweeps interleave, the two pools of a lease  *)
(* account for every call made under it: what is left of the grant, what     *)
(* calls in flight hold and what finished calls used since the last report   *)
(* never exceed the grant (a renewal may take off more, never less, than     *)
(* calls used), and the share balances exactly (trueUp, release, sweep and   *)
(* the two carried drawdowns of applyGrantResponse).                         *)
PoolsBalance ==
  HasLease(st) =>
    /\ st.grantedRemaining + Live(st, "granted") + (Used(st, "granted") - hist.granted)
         <= st.grantedTokens
    /\ st.grantedTokens <= st.grantedRemaining + Live(st, "granted") + st.spent
    /\ st.shareRemaining + Live(st, "share") + (Used(st, "share") - hist.shareBase)
         = hist.shareGrant

(* spentTokensSinceReport is what the calls of this lease used and no        *)
(* answered report carried.  Every call that went on uncounted is owed to    *)
(* the plane until an answered renewal reported it, across drops and expiry. *)
ReportsAccounted ==
  LET uncounted == {c \in Call : call[c].pool = "uncounted"}
  IN  /\ HasLease(st) => st.spent + hist.spend = Used(st, "granted") + Used(st, "share")
      /\ st.uncountedCalls + hist.calls = Cardinality(uncounted)
      /\ st.uncountedTokens + hist.tokens = Sum(call, uncounted)

(* Every token is in one book: nothing is reported twice, nothing is lost to *)
(* a renewal that failed, and no call of an earlier lease is charged to this *)
(* one or credited to it.                                                    *)
BooksBalance == PoolsBalance /\ ReportsAccounted

(* However often a renewal is retried, and whatever call retries it, the plane *)
(* is told one declaration per generation: it answers a repeated generation    *)
(* from its first answer, so a second chain would be covered here and not      *)
(* there (claimRenewal, renewalDispatched, renewalFailed).                     *)
OneDeclarationPerGeneration ==
  \A g \in 1 .. MaxGen : \A x, y \in hist.said[g] : x = y

(* A model the plane refused to a run is in no declaration again: not in the *)
(* declared set, an owed retry, a renewal of the present lease or the grant  *)
(* in flight, although the refusal lands while calls await their answers.    *)
RefusedNeverDeclared ==
  /\ st.refusedModels \cap st.declaredModels = {}
  /\ \A d \in Owed(st) : d.chain \cap st.refusedModels = {}
  /\ \A r \in renewals : AtOrigin(st, r) => r.chain \cap st.refusedModels = {}
  /\ granting # NoCall => ~Refuses(st, call[granting].chain)

(* renewalInFlight is set exactly while one operation of the present lease and *)
(* generation runs, and what the ledger expects back is what that one carries. *)
InFlightHasOwner ==
  /\ st.renewalInFlight =>
       \E r \in renewals : /\ AtOrigin(st, r) /\ st.pendingReport = {r.report}
                           /\ \E d \in st.declaration : d.chain = r.chain /\ d.added = r.added
  /\ \A r, q \in renewals : AtOrigin(st, r) /\ AtOrigin(st, q) => r = q
  /\ \A r \in renewals : AtOrigin(st, r) => st.renewalInFlight

(* One initial grant is in flight, of a call that waits for it, and never   *)
(* while a lease is held or a refused lease's release is undecided.         *)
GrantIsAlone ==
  /\ \A c \in Call : call[c].phase = "granting" <=> granting = c
  /\ granting # NoCall => ~HasLease(st) /\ st.latch = "none"
  /\ st.releasePending # NoRelease => ~HasLease(st) /\ granting = NoCall

(* A run talks to the plane about one thing at a time: an orphaned mark would *)
(* end renewals for good, a second renewal would settle a report twice, and a *)
(* grant beside a lease would be a second lease of one holder.                *)
OneExchangeAtATime == InFlightHasOwner /\ GrantIsAlone

(* A refused run goes back to grants when the release of that very refusal   *)
(* was sent or the latch ran out, not on a late outcome of an earlier one.   *)
UndecidedRefusalHolds ==
  [][ /\ st.releasePending # NoRelease /\ st.latch = "waiting" /\ st'.latch = "none"
      => st.releasePending \in releases \ releases' ]_vars

(* With hard_deny no admission takes a pool past what the plane granted, even *)
(* when the calls it admits together then overrun their reservations.         *)
HardDenyBound ==
  [][ \A c \in Call :
        /\ call[c].phase # "reserved" /\ call'[c].phase = "reserved"
        /\ st'.postureMode = "hard_deny"
        => /\ call'[c].pool = "granted" =>
                Live(st, "granted")' + (Used(st, "granted")' - hist'.granted) <= st'.grantedTokens
           /\ call'[c].pool = "share" =>
                Live(st, "share")' + (Used(st, "share")' - hist'.shareBase) <= hist'.shareGrant ]_vars
=============================================================================
