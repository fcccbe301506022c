---------------------------- MODULE RunRetirement ----------------------------
(***************************************************************************)
(* The end of a run in the budget enforcer (src/budget.ts): who still owns  *)
(* its lease state, when the state is retired, and which way every lease    *)
(* goes that an answer brings - installed, or returned to the server by the *)
(* release dispatcher.  Tokens are counted in LeaseLedger; here a lease is  *)
(* one generation, numbered as it is issued, and spending is left out.      *)
(***************************************************************************)
EXTENDS Integers, FiniteSets, Sequences, SequencesExt

CONSTANTS
  Run,         \* identities of agent runs
  Ownerless,   \* runs that a custom reader may name without an owner
  Stoppable,   \* runs the server may stop
  NoRun,       \* of a surrender that belongs to no retirement
  Workers,     \* RELEASE_WORKERS
  MaxLeases,   \* bound: leases the control plane issues
  MaxOwners,   \* bound: owner tokens observed per run
  MaxReserved, \* bound: reservations of a run at a time
  MaxResets    \* bound: changes of authority

VARIABLES
  run,      \* per run: owners, checks under way, its state and lease
  books,    \* orphaned, retiring and backlogged runs; closed; the authority epoch
  wire,     \* grants and renewals under way
  queue,    \* submissions to the dispatcher; the first Workers are being sent
  leases    \* issued, ended by the server, returned, left: what became of every lease

vars == <<run, books, wire, queue, leases>>

NewRun == [owners |-> 0, observed |-> 0, managed |-> FALSE, pending |-> FALSE, state |-> FALSE,
           lease |-> 0, reserved |-> 0, renewal |-> FALSE, unmanaged |-> FALSE, terminated |-> FALSE]

Init ==
  /\ run = [r \in Run |-> NewRun]
  /\ books = [orphaned |-> {}, retiring |-> {}, backlog |-> <<>>, closed |-> FALSE, authority |-> 0]
  /\ wire = [grants |-> {}, renewals |-> {}]
  /\ queue = <<>>
  /\ leases = [issued |-> 0, ended |-> {}, returned |-> {}, left |-> {}]

(* The enforcer, as its operators pass it on. *)
E == [run |-> run, books |-> books, wire |-> wire, queue |-> queue, leases |-> leases]

Becomes(e) ==
  /\ run' = e.run /\ books' = e.books /\ wire' = e.wire
  /\ queue' = e.queue /\ leases' = e.leases

-----------------------------------------------------------------------------
(* Leases. *)

Submitted(e, kind, r, lease) ==
  [e EXCEPT !.queue = Append(@, [kind |-> kind, run |-> r, lease |-> lease]),
            !.leases.returned = @ \union {lease}]

DropLease(e, r) == [e EXCEPT !.run[r] = [e.run[r] EXCEPT !.lease = 0, !.renewal = FALSE]]
Ended(e, r)     == [DropLease(e, r) EXCEPT !.leases.ended = @ \union ({e.run[r].lease} \ {0})]

(* A plausible bug: a late successor is only dropped. *)
SurrenderNothing(e) == [e EXCEPT !.leases.issued = @ + 1]

(* surrenderLateSuccessor: an installable answer that is not installed. *)
SurrenderLate(e) ==
  [Submitted(e, "late", NoRun, e.leases.issued + 1) EXCEPT !.leases.issued = @ + 1]

(* The check's caller gave up before its grant's answer was looked at. *)
LeftToExpire(e) ==
  [e EXCEPT !.leases.left = @ \union {e.leases.issued + 1}, !.leases.issued = @ + 1]

(* applyGrantResponse: the lease it replaces has ended. *)
Installed(e, r) ==
  LET lease == e.leases.issued + 1
      f     == Ended(e, r)
  IN  [f EXCEPT !.run[r] = [f.run[r] EXCEPT !.lease = lease, !.state = TRUE], !.leases.issued = lease]

-----------------------------------------------------------------------------
(* Retirement. *)

HasFreeWorker(e) == Len(e.queue) < Workers
Waiting(e)       == Len(e.queue) > Workers

(* The backlog is a Set: what is in it once, in the order in which it came. *)
With(q, r)    == IF r \in Range(q) THEN q ELSE Append(q, r)
Without(q, r) == IF r \in Range(q) THEN RemoveAt(q, CHOOSE i \in DOMAIN q : q[i] = r) ELSE q

Discarded(e, r) ==
  [e EXCEPT !.run[r] = [e.run[r] EXCEPT !.state = FALSE, !.lease = 0, !.reserved = 0, !.unmanaged = FALSE],
            !.books.orphaned = @ \ {r}, !.books.backlog = Without(@, r)]

(* Its lease is on its way back. *)
Retired(e, r) ==
  [Submitted(e, "retire", r, e.run[r].lease) EXCEPT
     !.books = [e.books EXCEPT !.backlog = Without(e.books.backlog, r),
                               !.retiring = e.books.retiring \union {r}]]

(* What still holds a run: an owner, a check without one, a grant, a reservation. *)
Evaluated(e, r) ==
  /\ ~e.books.closed /\ r \in e.books.orphaned \ e.books.retiring
  /\ e.run[r].owners = 0 /\ ~e.run[r].pending
  /\ ~\E g \in e.wire.grants : g.run = r

Quiet(e, r) == ~e.run[r].unmanaged /\ e.run[r].reserved = 0 /\ ~e.run[r].renewal

(* Nothing holds it: its lease goes back, or waits behind what goes before it. *)
Idle(e, r)            == Evaluated(e, r) /\ e.run[r].state /\ Quiet(e, r)
HasToWait(e, backlog) == ~backlog /\ (e.books.backlog # <<>> \/ ~HasFreeWorker(e))

RetireRun(e, r, fromBacklog) ==
  CASE Evaluated(e, r) /\ ~e.run[r].state -> [e EXCEPT !.books.orphaned = @ \ {r}]
    [] Idle(e, r) /\ e.run[r].lease = 0 -> Discarded(e, r)
    [] Idle(e, r) /\ e.run[r].lease # 0 /\ HasToWait(e, fromBacklog) ->
         [e EXCEPT !.books.backlog = With(@, r)]
    [] Idle(e, r) /\ e.run[r].lease # 0 /\ ~HasToWait(e, fromBacklog) -> Retired(e, r)
    [] OTHER -> e

RetireOrphanedRun(e, r) == RetireRun(e, r, FALSE)

(* A worker is free: it takes the oldest retirable run, others if they are free. *)
Feed(e, r) ==
  IF e.books.closed \/ Waiting(e) THEN e
  ELSE RetireRun([e EXCEPT !.books.backlog = Without(@, r)], r, TRUE)

FeedRetirements(e) ==
  LET line == e.books.backlog
      fed[n \in 0..Len(line)] == IF n = 0 THEN e ELSE Feed(fed[n - 1], line[n])
  IN  fed[Len(line)]

FinishRetirement(e, r, lease, sent) ==
  LET f == [e EXCEPT !.books.retiring = @ \ {r}]
      acknowledged == IF sent /\ f.run[r].lease = lease THEN DropLease(f, r) ELSE f
  IN  IF f.books.closed THEN f
      ELSE IF f.run[r].state /\ Quiet(f, r) THEN Discarded(f, r)
      ELSE RetireOrphanedRun(acknowledged, r)

(* preserveUnmanagedRun *)
Preserved(e, r) == [e EXCEPT !.run[r].unmanaged = IF e.run[r].state THEN TRUE ELSE @, !.books.orphaned = @ \ {r}]

-----------------------------------------------------------------------------
(* Owners and checks. A call of a managed run keeps its owner reachable. *)

ObserveRun(r) ==
  /\ ~books.closed /\ run[r].observed < MaxOwners
  /\ Becomes([E EXCEPT !.run[r].owners = @ + 1, !.run[r].observed = @ + 1])

StartManaged(r) ==
  /\ run[r].owners > 0 /\ ~run[r].managed
  /\ Becomes([E EXCEPT !.run[r].managed = TRUE])

StartUnmanaged(r) ==
  /\ r \in Ownerless /\ ~run[r].pending
  /\ Becomes([Preserved(E, r) EXCEPT !.run[r].pending = TRUE])

(* The check that holds the grant's slot has not ended. *)
EndManaged(r) ==
  /\ run[r].managed /\ ~\E g \in wire.grants : g.run = r /\ g.managed
  /\ Becomes([E EXCEPT !.run[r].managed = FALSE])

EndUnmanaged(r) ==
  /\ run[r].pending /\ ~\E g \in wire.grants : g.run = r /\ ~g.managed
  /\ Becomes([Preserved(E, r) EXCEPT !.run[r].pending = FALSE])

OwnerCollected(r) ==
  /\ run[r].owners > (IF run[r].managed THEN 1 ELSE 0) /\ ~books.closed
  /\ LET e == [E EXCEPT !.run[r].owners = @ - 1] IN
       Becomes(IF e.run[r].owners > 0 \/ (e.run[r].state /\ e.run[r].unmanaged) THEN e
               ELSE RetireOrphanedRun([e EXCEPT !.books.orphaned = @ \union {r}], r))

LeaseEntryEligible(r) == ~books.closed /\ r \notin books.retiring /\ ~run[r].terminated

(* admitLease: a reservation, or the run's one slot for an initial grant. *)
Admit(r, managed) ==
  /\ IF managed THEN run[r].managed ELSE run[r].pending
  /\ LeaseEntryEligible(r)
  /\ ~\E g \in wire.grants : g.run = r /\ g.managed = managed
  /\ LET e == [E EXCEPT !.run[r].state = TRUE] IN
       \/ /\ run[r].lease # 0 /\ run[r].reserved < MaxReserved
          /\ Becomes([e EXCEPT !.run[r].reserved = @ + 1])
       \/ /\ run[r].lease = 0
          /\ Becomes(IF \E g \in wire.grants : g.run = r THEN e
                     ELSE [e EXCEPT !.wire.grants = @ \union
                             {[run |-> r, managed |-> managed, authority |-> books.authority]}])

(* A due or widening renewal, claimed by an admission. *)
LaunchRenewal(r) ==
  /\ run[r].managed \/ run[r].pending
  /\ LeaseEntryEligible(r) /\ run[r].lease # 0 /\ ~run[r].renewal
  /\ Becomes([E EXCEPT !.run[r].renewal = TRUE,
                       !.wire.renewals = @ \union
                         {[run |-> r, lease |-> run[r].lease, authority |-> books.authority]}])

(* A reservation settled, released, or swept by age. *)
Settle(r) ==
  /\ run[r].reserved > 0
  /\ Becomes(RetireOrphanedRun([E EXCEPT !.run[r].reserved = @ - 1], r))

(* A per-call check brings the run's stop: its lease is gone. *)
Directive(r) ==
  /\ run[r].managed \/ run[r].pending
  /\ r \in Stoppable /\ ~run[r].terminated
  /\ Becomes([Ended(E, r) EXCEPT !.run[r].terminated = TRUE])

-----------------------------------------------------------------------------
(* Answers. Every exit of a grant or a renewal looks at the run again. *)

Issues == leases.issued < MaxLeases

GrantOver(g)   == [E EXCEPT !.wire.grants = @ \ {g}]
RenewalOver(o) == [E EXCEPT !.wire.renewals = @ \ {o}]

(* An installable grant: installed only when nothing changed under way, and  *)
(* no newer refusal of the run or the project was seen.                       *)
GrantAnswers(g) ==
  /\ Issues
  /\ LET e == GrantOver(g) IN
       \/ Becomes(RetireOrphanedRun(SurrenderLate(
            IF run[g.run].terminated /\ ~books.closed THEN Ended(e, g.run) ELSE e), g.run))
       \/ /\ ~books.closed /\ g.authority = books.authority /\ ~run[g.run].terminated
          /\ LET f == Installed(e, g.run) IN
               \E admitted \in {0, 1} :
                 Becomes(RetireOrphanedRun([f EXCEPT !.run[g.run].reserved = @ + admitted], g.run))
       \/ Becomes(RetireOrphanedRun(LeftToExpire(e), g.run))

(* Refused, unreadable, failed, denied or ineligible: no lease comes of it. *)
GrantRefused(g) ==
  /\ \E drops \in BOOLEAN :
       Becomes(RetireOrphanedRun(IF drops /\ ~books.closed THEN Ended(GrantOver(g), g.run)
                                 ELSE GrantOver(g), g.run))

Current(o) == ~books.closed /\ run[o.run].lease = o.lease

(* failRenewal: the claim ends, if it is still this lease's. *)
RenewalFailed(e, o) == IF Current(o) THEN [e EXCEPT !.run[o.run].renewal = FALSE] ELSE e

RenewalAnswers(o) ==
  /\ Issues
  /\ LET e == RenewalOver(o) IN
       IF ~Current(o) \/ o.authority # books.authority
       THEN Becomes(RetireOrphanedRun(SurrenderLate(e), o.run))
       ELSE \/ Becomes(RetireOrphanedRun(Installed(e, o.run), o.run))
            \/ Becomes(RetireOrphanedRun(SurrenderLate(RenewalFailed(e, o)), o.run))
            \/ /\ o.run \in Stoppable
               /\ Becomes(RetireOrphanedRun(SurrenderLate(
                 [Ended(e, o.run) EXCEPT !.run[o.run].terminated = TRUE]), o.run))

RenewalRefused(o) ==
  LET e == RenewalOver(o) IN
    \/ Becomes(RetireOrphanedRun(RenewalFailed(e, o), o.run))
    \/ Current(o) /\ Becomes(RetireOrphanedRun(Ended(e, o.run), o.run))
    \/ (* releaseRefusedLease: the server no longer leases to the run. *)
       /\ Current(o) /\ o.authority = books.authority
       /\ Becomes(RetireOrphanedRun(
            Submitted(DropLease(e, o.run), "refusal", o.run, o.lease), o.run))

-----------------------------------------------------------------------------
(* Surrenders, authority, close. *)

(* A submission ends; its worker finishes the retirement, then takes another. *)
Outcome(i, sent) ==
  /\ i \in 1..Len(queue) /\ i <= Workers
  /\ LET item == queue[i]
         done(e) == [e EXCEPT !.queue = RemoveAt(@, i)]
     IN  Becomes(done(FeedRetirements(
           IF item.kind = "retire" THEN FinishRetirement(E, item.run, item.lease, sent) ELSE E)))

(* surrenderHeldLeases, in the order of the ledger's runs *)
Holders(e) == {r \in Run \ e.books.retiring : e.run[r].lease # 0}

Surrendered(e, order) ==
  [e EXCEPT
     !.run = [r \in Run |-> IF r \in Holders(e) THEN [e.run[r] EXCEPT !.lease = 0, !.renewal = FALSE] ELSE e.run[r]],
     !.queue = @ \o [i \in DOMAIN order |-> [kind |-> "held", run |-> order[i], lease |-> e.run[order[i]].lease]],
     !.leases.returned = @ \union {e.run[r].lease : r \in Holders(e)}]

ResetAuthority ==
  /\ ~books.closed /\ books.authority < MaxResets
  /\ \E order \in SetToSeqs(Holders(E)) : Becomes(Surrendered([E EXCEPT !.books.authority = @ + 1], order))

Close ==
  /\ ~books.closed
  /\ \E order \in SetToSeqs(Holders(E)) : LET e == Surrendered(E, order) IN
       Becomes([e EXCEPT
         !.run = [r \in Run |-> [e.run[r] EXCEPT !.state = FALSE, !.lease = 0, !.reserved = 0,
                                   !.renewal = FALSE, !.unmanaged = FALSE, !.owners = 0]],
         !.books = [e.books EXCEPT !.closed = TRUE, !.orphaned = {}, !.backlog = <<>>]])

Next ==
  \/ \E r \in Run :
       \/ ObserveRun(r) \/ StartManaged(r) \/ StartUnmanaged(r) \/ EndManaged(r) \/ EndUnmanaged(r)
       \/ OwnerCollected(r) \/ LaunchRenewal(r) \/ Settle(r) \/ Directive(r)
       \/ \E managed \in BOOLEAN : Admit(r, managed)
  \/ \E g \in wire.grants : GrantAnswers(g) \/ GrantRefused(g)
  \/ \E o \in wire.renewals : RenewalAnswers(o) \/ RenewalRefused(o)
  \/ \E i \in 1..Workers, sent \in BOOLEAN : Outcome(i, sent)
  \/ ResetAuthority \/ Close

Spec == Init /\ [][Next]_vars

-----------------------------------------------------------------------------
Held == {run[r].lease : r \in Run} \ {0}
OnTheWay(lease) == {i \in DOMAIN queue : queue[i].lease = lease}

(* Every lease an answer brought is held by a run, was ended by the server, or  *)
(* was handed to the dispatcher, and never twice at the same time: whatever      *)
(* closed, changed or ended while the answer was under way.  Only the grant of   *)
(* a check whose caller gave up is left to expire.  A run holds a lease on its   *)
(* way back only until its retirement is finished (budget.ts:3201).              *)
LeasesReturnOnce ==
  /\ 1..leases.issued \subseteq Held \union leases.ended \union leases.returned \union leases.left
  /\ \A l \in 1..leases.issued :
       /\ Cardinality(OnTheWay(l)) <= 1
       /\ l \in Held /\ OnTheWay(l) # {} => \E r \in books.retiring : run[r].lease = l

(* A run whose last owner is gone, which nothing else holds and which no        *)
(* answer under way will have looked at again, is retiring or in                *)
(* the backlog, and the backlog is behind a surrender under way: no such run    *)
(* keeps its lease until the lease expires. What holds a run back ends: a       *)
(* claimed renewal is under way, and a retiring run's surrender is.             *)
NoRunForgotten ==
  /\ \A r \in Run :
       Idle(E, r) /\ ~(\E o \in wire.renewals : o.run = r)
         => r \in Range(books.backlog)
  /\ \A r \in Run :
       ~books.closed /\ run[r].state /\ run[r].owners = 0 /\ ~run[r].unmanaged /\ ~run[r].pending
         => r \in books.orphaned
  /\ books.backlog # <<>> => queue # <<>>
  /\ \A r \in Run : run[r].renewal => \E o \in wire.renewals : o.run = r /\ o.lease = run[r].lease
  /\ \A r \in Run \cap books.retiring :
       \E i \in DOMAIN queue : queue[i].kind = "retire" /\ queue[i].run = r
=============================================================================
