------------------------------- MODULE RunScopes -------------------------------
(***************************************************************************)
(* Run scopes of the Node entry point (src/node.ts): which run the executing  *)
(* code belongs to, and who keeps a run's lifetime token alive: the code that  *)
(* executes in it, its unresolved async resources and its unfinished handle.   *)
(* When the collector takes the token, the run is over for the budget.          *)
(***************************************************************************)
EXTENDS Integers, Sequences, FiniteSets, SequencesExt

CONSTANTS
  Handle,        \* runs made by createRun
  Scope,         \* runs made by run(name, fn)
  Resource,      \* async resources, by their asyncId
  MaxDepth,      \* bound: frames executing inside one another
  MaxActive      \* bound: unresolved activations of a handle

Frames == Handle \union Scope

VARIABLES
  born,        \* the runs that exist
  handle,      \* per handle: [active, waiting, stale, finished, owned]
  stack,       \* the executing frames, innermost last: [kind, run, chain, pinned, resource]
  synchronous, \* runOwners.synchronous
  resource,    \* per async resource: [state, chain, owner], owner as in runOwners.resources
  owners,      \* the tokens: [registered, collected, counted]
  hook         \* the async hook is enabled

vars == <<born, handle, stack, synchronous, resource, owners, hook>>

None == "none"

Init ==
  /\ born = {} /\ stack = <<>> /\ synchronous = {} /\ hook = FALSE
  /\ handle = [h \in Handle |-> [active |-> 0, waiting |-> 0, stale |-> 0,
                                 finished |-> FALSE, owned |-> FALSE]]
  /\ resource = [a \in Resource |-> [state |-> "unused", chain |-> <<>>, owner |-> None]]
  /\ owners = [registered |-> {}, collected |-> {}, counted |-> {}]

-----------------------------------------------------------------------------
(* The store: the chain of runs the executing code is in, innermost last. *)
Context == IF stack = <<>> THEN <<>> ELSE stack[Len(stack)].chain

LiveCount == Cardinality(owners.registered) - Cardinality(owners.counted)

(* runOwners.register: the first live owner enables the hook. *)
Register(r) ==
  /\ owners' = [owners EXCEPT !.registered = @ \union {r}]
  /\ hook' = (hook \/ (r \notin owners.registered /\ LiveCount = 0))

Push(frame) == Len(stack) < MaxDepth /\ stack' = Append(stack, frame)

(* inRunFrame: the owner is pinned while its callback executes. *)
EnterRun(kind, r) ==
  /\ Push([kind |-> kind, run |-> r, chain |-> Append(Context, r),
           pinned |-> r \in synchronous, resource |-> None])
  /\ synchronous' = synchronous \union {r}
  /\ Register(r)

(* run(name, fn) *)
OpenScope(r) ==
  /\ r \in Scope \ born
  /\ born' = born \union {r}
  /\ EnterRun("scope", r)
  /\ UNCHANGED <<handle, resource>>

CreateRun(h) ==
  /\ h \in Handle \ born
  /\ born' = born \union {h}
  /\ handle' = [handle EXCEPT ![h].owned = TRUE]
  /\ Register(h)
  /\ UNCHANGED <<stack, synchronous, resource>>

ActiveInContext(h) == \E i \in DOMAIN Context : Context[i] = h

Activate(h) ==
  /\ handle[h].owned /\ ~handle[h].finished
  /\ ~ActiveInContext(h)
  /\ handle[h].active < MaxActive
  /\ handle' = [handle EXCEPT ![h].active = @ + 1]
  /\ EnterRun("activation", h)
  /\ UNCHANGED <<born, resource>>

(* runOutsideRun *)
Outside ==
  /\ Push([kind |-> "outside", run |-> None, chain |-> <<>>, pinned |-> FALSE, resource |-> None])
  /\ UNCHANGED <<born, handle, synchronous, resource, owners, hook>>

(* The event loop runs the callback of a pending resource, in its context. *)
Resume(a) ==
  /\ stack = <<>> /\ resource[a].state = "pending"
  /\ resource' = [resource EXCEPT ![a].state = "running"]
  /\ Push([kind |-> "callback", run |-> None, chain |-> resource[a].chain,
           pinned |-> FALSE, resource |-> a])
  /\ UNCHANGED <<born, handle, synchronous, owners, hook>>

-----------------------------------------------------------------------------
(* Returns. *)
Top == stack[Len(stack)]

Pop ==
  /\ stack' = Front(stack)
  /\ synchronous' = IF Top.run # None /\ ~Top.pinned THEN synchronous \ {Top.run} ELSE synchronous

ReturnFromScope ==
  /\ stack # <<>> /\ Top.kind \in {"scope", "outside"}
  /\ Pop
  /\ UNCHANGED <<born, handle, resource, owners, hook>>

(* The callback of an activation returned a plain value or threw, or the value's  *)
(* then threw: the activation is released. Such a then may have kept a callback.    *)
ReturnNow(kept) ==
  /\ stack # <<>> /\ Top.kind = "activation"
  /\ Pop
  /\ handle' = [handle EXCEPT ![Top.run].active = @ - 1,
                              ![Top.run].stale = IF kept THEN 1 ELSE @]
  /\ UNCHANGED <<born, resource, owners, hook>>

(* It returned a thenable: the activation is released when that settles. *)
ReturnThenable ==
  /\ stack # <<>> /\ Top.kind = "activation"
  /\ Pop
  /\ handle' = [handle EXCEPT ![Top.run].waiting = @ + 1]
  /\ UNCHANGED <<born, resource, owners, hook>>

Settle(h) ==
  /\ handle[h].waiting > 0
  /\ handle' = [handle EXCEPT ![h].waiting = @ - 1, ![h].active = @ - 1, ![h].stale = 1]
  /\ UNCHANGED <<born, stack, synchronous, resource, owners, hook>>

(* A thenable calls its callbacks again: release was once. *)
SettleAgain(h) ==
  /\ handle[h].stale > 0
  /\ handle' = [handle EXCEPT ![h].stale = 0]
  /\ UNCHANGED <<born, stack, synchronous, resource, owners, hook>>

(* finish, or the tryFinish of an integration; either refuses an active handle. *)
Finish(h) ==
  /\ handle[h].owned /\ ~handle[h].finished /\ handle[h].active = 0
  /\ handle' = [handle EXCEPT ![h].finished = TRUE, ![h].owned = FALSE]
  /\ UNCHANGED <<born, stack, synchronous, resource, owners, hook>>

(* The program lets go of an unfinished handle that nothing awaits. *)
LetGo(h) ==
  /\ handle[h].owned /\ handle[h].active = 0
  /\ handle' = [handle EXCEPT ![h].owned = FALSE]
  /\ UNCHANGED <<born, stack, synchronous, resource, owners, hook>>

-----------------------------------------------------------------------------
(* Async resources, as the hook sees them. *)

(* init: the resource owns the token of the run it is created in. *)
CreateResource(a) ==
  /\ stack # <<>> /\ resource[a].state = "unused"
  /\ resource' = [resource EXCEPT ![a] =
       [state |-> "pending", chain |-> Context,
        owner |-> IF hook /\ Context # <<>> /\ Context[Len(Context)] \notin owners.collected
                    THEN Context[Len(Context)] ELSE None]]
  /\ UNCHANGED <<born, handle, stack, synchronous, owners, hook>>

(* Its callback returns: it is resolved or destroyed, or it awaits again. *)
ReturnFromCallback(again) ==
  /\ stack # <<>> /\ Top.kind = "callback"
  /\ Pop
  /\ resource' = [resource EXCEPT ![Top.resource] =
       IF again THEN [@ EXCEPT !.state = "pending"] ELSE [@ EXCEPT !.state = "done", !.owner = None]]
  /\ UNCHANGED <<born, handle, owners, hook>>

(* promiseResolve or destroy without a callback. *)
Resolve(a) ==
  /\ resource[a].state = "pending"
  /\ resource' = [resource EXCEPT ![a].state = "done", ![a].owner = None]
  /\ UNCHANGED <<born, handle, stack, synchronous, owners, hook>>

-----------------------------------------------------------------------------
(* The collector takes a token that nobody owns; the finalizer counts it later. *)
Collect(r) ==
  /\ r \in owners.registered \ owners.collected
  /\ r \notin synchronous
  /\ \A a \in Resource : resource[a].owner # r
  /\ r \in Handle => ~handle[r].owned
  /\ owners' = [owners EXCEPT !.collected = @ \union {r}]
  /\ UNCHANGED <<born, handle, stack, synchronous, resource, hook>>

(* A plausible bug: the hook is off as soon as any run is over. *)
FinalizeDisabling(r) ==
  /\ r \in owners.collected \ owners.counted
  /\ owners' = [owners EXCEPT !.counted = @ \union {r}]
  /\ hook' = FALSE
  /\ UNCHANGED <<born, handle, stack, synchronous, resource>>

Finalize(r) ==
  /\ r \in owners.collected \ owners.counted
  /\ owners' = [owners EXCEPT !.counted = @ \union {r}]
  /\ hook' = (hook /\ LiveCount > 1)
  /\ UNCHANGED <<born, handle, stack, synchronous, resource>>

Next ==
  \/ \E r \in Scope : OpenScope(r)
  \/ \E h \in Handle :
       CreateRun(h) \/ Activate(h) \/ Settle(h) \/ SettleAgain(h) \/ Finish(h) \/ LetGo(h)
  \/ \E a \in Resource : CreateResource(a) \/ Resume(a) \/ Resolve(a)
  \/ Outside \/ ReturnFromScope \/ ReturnThenable
  \/ \E b \in BOOLEAN : ReturnNow(b) \/ ReturnFromCallback(b)
  \/ \E r \in Frames : Collect(r) \/ Finalize(r)

Spec == Init /\ [][Next]_vars

-----------------------------------------------------------------------------
(* A run is not over while its code executes or can still execute: the token of   *)
(* the innermost run of every executing frame and of every pending callback is     *)
(* not collected.                                                                  *)
TokensOutliveCode ==
  LET Alive(chain) == chain # <<>> => chain[Len(chain)] \notin owners.collected
  IN  /\ \A i \in DOMAIN stack : Alive(stack[i].chain)
      /\ \A a \in Resource : resource[a].state \in {"pending", "running"} => Alive(resource[a].chain)

(* A handle that is finished has no activation left, executing or awaited, and a   *)
(* run is never inside itself in any context.                                      *)
HandlesFinishIdle ==
  /\ \A h \in Handle :
       LET executing == {i \in DOMAIN stack : stack[i].kind = "activation" /\ stack[i].run = h}
       IN  handle[h].finished => executing = {} /\ handle[h].waiting = 0
  /\ \A i \in DOMAIN stack : IsInjective(stack[i].chain)
=============================================================================
