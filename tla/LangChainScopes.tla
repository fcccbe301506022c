---------------------------- MODULE LangChainScopes ----------------------------
(***************************************************************************)
(* The LangChain run-scope handler (src/langchain/index.ts): chains, tools     *)
(* and models that start and end in any order, the scopes a model's calls are   *)
(* attributed to, the abort signal that carries a model's scope to the wrapped   *)
(* client, and the release of a root's scopes, which waits for calls that         *)
(* outlive the root's own callbacks.                                              *)
(***************************************************************************)
EXTENDS Integers, FiniteSets

CONSTANTS
  Root, Chain, Model,   \* run ids of roots, of what runs inside them, and of model calls
  Node,                 \* names of graph nodes
  Signal                \* fresh signals, one per bindModelCall

None == "none"
Main == "main"          \* a root's own scope
Scopes == [root: Root, node: Node \union {Main}]
NoScope == [root |-> None, node |-> None]
NoModel == [scope |-> NoScope, bound |-> FALSE, bindings |-> {}]

VARIABLES
  run,       \* runs: per root and chain its scope
  model,     \* models: per model [scope, bound, bindings]
  root,      \* roots: [state, scopes]
  key,       \* keys: per signal a scope
  nodeOf,    \* nodeScopes: the node scopes that a root's scope has made
  handle,    \* per scope: [made, active, finished]
  signal,    \* per signal: [model, aborted, call, scope] of who bound it, and its call
  refused    \* history: models that ended well without a bound call, and were refused

vars == <<run, model, root, key, nodeOf, handle, signal, refused>>

Init ==
  /\ run = [x \in Root \union Chain |-> NoScope]
  /\ model = [m \in Model |-> NoModel]
  /\ root = [r \in Root |-> [state |-> "new", scopes |-> {}]]
  /\ key = [s \in Signal |-> NoScope]
  /\ nodeOf = {}
  /\ handle = [c \in Scopes |-> [made |-> FALSE, active |-> 0, finished |-> FALSE]]
  /\ signal = [s \in Signal |-> [model |-> None, aborted |-> FALSE,
                               call |-> "none", scope |-> NoScope]]
  /\ refused = {}

-----------------------------------------------------------------------------
(* Starts. *)

MainOf(r) == [root |-> r, node |-> Main]

StartRoot(r) ==
  /\ root[r].state = "new"
  /\ root' = [root EXCEPT ![r] = [state |-> "open", scopes |-> {MainOf(r)}]]
  /\ run' = [run EXCEPT ![r] = MainOf(r)]
  /\ UNCHANGED <<model, key, nodeOf, handle, signal, refused>>

\* A chain with the name of a node of its graph gets the node's scope, once per root;
\* any other chain, tool or retriever stays in its parent's.
StartChild(x, parent, node) ==
  /\ run[x] = NoScope /\ run[parent] # NoScope
  /\ LET own == IF node = None \/ node = run[parent].node THEN run[parent]
                ELSE [root |-> run[parent].root, node |-> node] IN
     /\ run' = [run EXCEPT ![x] = own]
     /\ nodeOf' = nodeOf \union {own}
     /\ root' = [root EXCEPT ![own.root].scopes = IF own \in nodeOf THEN @ ELSE @ \union {own}]
  /\ UNCHANGED <<model, key, handle, signal, refused>>

\* The run of a scope is made when it is first needed, inside its root's.
Materialize(h, c) ==
  [h EXCEPT ![MainOf(c.root)].made = TRUE, ![c].made = TRUE]

StartModel(m, parent) ==
  /\ model[m] = NoModel /\ run[parent] # NoScope
  /\ model' = [model EXCEPT ![m] = [scope |-> run[parent], bound |-> FALSE, bindings |-> {}]]
  /\ handle' = Materialize(handle, run[parent])
  /\ UNCHANGED <<run, root, key, nodeOf, signal, refused>>

-----------------------------------------------------------------------------
(* Ends. *)

\* finishClosedRoot: the scopes that are idle are finished, the root goes with the last.
FinishClosedRoot(r, roots, h) ==
  IF roots[r].state # "closed" THEN root' = roots /\ handle' = h
  ELSE LET idle == {c \in roots[r].scopes : h[c].active = 0}
           left == roots[r].scopes \ idle IN
       /\ root' = [roots EXCEPT ![r] =
                     [state |-> IF left = {} THEN "gone" ELSE "closed", scopes |-> left]]
       /\ handle' = [c \in Scopes |-> IF c \in idle THEN [h[c] EXCEPT !.finished = h[c].made] ELSE h[c]]

Keyless(models) == [s \in Signal |-> IF \E m \in models : s \in model[m].bindings THEN NoScope ELSE key[s]]

\* handleLLMEnd, handleLLMError: a call that no signal was bound for was not metered.
EndModel(m, failed) ==
  /\ model[m] # NoModel
  /\ model' = [model EXCEPT ![m] = NoModel]
  /\ key' = Keyless({m})
  /\ FinishClosedRoot(model[m].scope.root, root, handle)
  /\ refused' = IF failed \/ model[m].bound THEN refused ELSE refused \union {m}
  /\ UNCHANGED <<run, nodeOf, signal>>

EndChild(x) ==
  /\ run[x] # NoScope
  /\ run' = [run EXCEPT ![x] = NoScope]
  /\ UNCHANGED <<model, root, key, nodeOf, handle, signal, refused>>

\* The end of a root ends everything that is still mapped in it.
EndRoot(r) ==
  /\ run[r] # NoScope
  /\ LET mine == {m \in Model : model[m] # NoModel /\ model[m].scope.root = r} IN
     /\ run' = [x \in Root \union Chain |-> IF run[x] # NoScope /\ run[x].root = r THEN NoScope ELSE run[x]]
     /\ model' = [m \in Model |-> IF m \in mine THEN NoModel ELSE model[m]]
     /\ key' = Keyless(mine)
  /\ FinishClosedRoot(r, [root EXCEPT ![r].state = "closed"], handle)
  /\ UNCHANGED <<nodeOf, signal, refused>>

-----------------------------------------------------------------------------
(* Signals and calls. *)

\* The upstream signal of s aborts: the key goes, and with its last binding the model.
Aborted(m, s, models, keys) ==
  LET left == models[m].bindings \ {s} IN
  /\ key' = [keys EXCEPT ![s] = NoScope]
  /\ model' = [models EXCEPT ![m] = IF left = {} THEN NoModel ELSE [@ EXCEPT !.bindings = left]]
  /\ IF left = {} THEN FinishClosedRoot(models[m].scope.root, root, handle)
                  ELSE UNCHANGED <<root, handle>>

BindModelCall(m, s, aborted) ==
  /\ model[m] # NoModel /\ signal[s].model = None
  /\ signal' = [signal EXCEPT ![s].model = m, ![s].aborted = aborted]
  /\ LET bound == [model EXCEPT ![m].bound = TRUE, ![m].bindings = @ \union {s}]
         keyed == [key EXCEPT ![s] = model[m].scope] IN
     IF aborted THEN Aborted(m, s, bound, keyed)
                ELSE model' = bound /\ key' = keyed /\ UNCHANGED <<root, handle>>
  /\ UNCHANGED <<run, nodeOf, refused>>

\* The listener goes with the model's end; without it the abort reaches the provider only.
Abort(s) ==
  /\ signal[s].model # None /\ ~signal[s].aborted
  /\ signal' = [signal EXCEPT ![s].aborted = TRUE]
  /\ LET m == signal[s].model IN
     IF model[m] # NoModel /\ s \in model[m].bindings THEN Aborted(m, s, model, key)
                                                   ELSE UNCHANGED <<model, key, root, handle>>
  /\ UNCHANGED <<run, nodeOf, refused>>

\* chat.completions.create: the signal of the options leads to the scope of the call.
Create(s) ==
  /\ signal[s].call = "none"
  /\ key[s] # NoScope /\ root[key[s].root].state = "open"
  /\ handle' = [Materialize(handle, key[s]) EXCEPT ![key[s]].active = @ + 1]
  /\ signal' = [signal EXCEPT ![s].call = "running", ![s].scope = key[s]]
  /\ UNCHANGED <<run, model, root, key, nodeOf, refused>>

CallSettles(s) ==
  /\ signal[s].call = "running"
  /\ LET c == signal[s].scope IN
     FinishClosedRoot(c.root, root, [handle EXCEPT ![c].active = @ - 1])
  /\ signal' = [signal EXCEPT ![s].call = "settled"]
  /\ UNCHANGED <<run, model, key, nodeOf, refused>>

Next ==
  \/ \E r \in Root : StartRoot(r) \/ EndRoot(r)
  \/ \E x \in Chain, parent \in Root \union Chain, node \in Node \union {None} : StartChild(x, parent, node)
  \/ \E x \in Chain : EndChild(x)
  \/ \E m \in Model, parent \in Root \union Chain : StartModel(m, parent)
  \/ \E m \in Model, failed \in BOOLEAN : EndModel(m, failed)
  \/ \E m \in Model, s \in Signal, aborted \in BOOLEAN : BindModelCall(m, s, aborted)
  \/ \E s \in Signal : Abort(s) \/ Create(s) \/ CallSettles(s)

Spec == Init /\ [][Next]_vars

-----------------------------------------------------------------------------
(* Properties.                                                             *)

(* A signal leads to a scope only while the model that bound it is running, and     *)
(* never once its upstream has aborted: no late call is charged to a scope that     *)
(* has moved on.                                                                    *)
KeysBelongToModels ==
  \A s \in Signal : key[s] # NoScope =>
    /\ ~signal[s].aborted
    /\ \E m \in Model : /\ model[m] # NoModel /\ s \in model[m].bindings
                        /\ model[m].scope = key[s] /\ root[key[s].root].state = "open"

(* A root that has ended, with its last call settled, leaves nothing behind: every  *)
(* run made for it is finished.  Until then no run of it is finished under a call.   *)
ScopesAreReleased ==
  \A c \in Scopes :
    LET r == root[c.root] IN
    /\ handle[c].finished => handle[c].active = 0 /\ r.state \in {"closed", "gone"}
    /\ r.state \in {"closed", "gone"} /\ handle[c].made /\ handle[c].active = 0 => handle[c].finished
    /\ (r.state = "gone") <=> (r.state # "new" /\ r.scopes = {})

LangChainReleases == KeysBelongToModels /\ ScopesAreReleased
=============================================================================
