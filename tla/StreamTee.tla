------------------------------- MODULE StreamTee -------------------------------
(***************************************************************************)
(* The native helpers of a metered stream: it is iterated, or a helper takes it  *)
(* over for good; tee() gives two branches, either of which may drive the source    *)
(* and which read the same items, each at its own pace.  A branch that is behind      *)
(* keeps what it has not read, one that is cancelled keeps nothing, and the source      *)
(* is closed when both are.  The source settles its pulls in the order they came.         *)
(***************************************************************************)
EXTENDS Naturals, Sequences

CONSTANTS MaxPulls,      \* bound: pulls of the source that are modelled
          MaxReads       \* bound: reads of a branch, which may run ahead of the answers

Branch == {0, 1}

VARIABLES
  consumer,     \* "none", "iteration" or "helper" of the stream that was teed
  pulls,        \* per pull: "pending", "item", "done" or "error"
  unread,       \* per branch: pulls that it has not read
  active, terminal,
  reads,        \* per branch: the pulls that its reads were given, 0 one that ended at once
  closes        \* times the source was closed

vars == <<consumer, pulls, unread, active, terminal, reads, closes>>

Init ==
  /\ consumer = "none" /\ pulls = <<>> /\ terminal = FALSE /\ closes = 0
  /\ unread = [b \in Branch |-> <<>>] /\ active = [b \in Branch |-> TRUE]
  /\ reads = [b \in Branch |-> <<>>]

(* A stream that is being iterated is not teed, nor a teed one iterated. *)
Iterate ==
  /\ consumer = "none" /\ consumer' = "iteration"
  /\ UNCHANGED <<pulls, unread, active, terminal, reads, closes>>
TakeOver ==
  /\ consumer = "none" /\ consumer' = "helper"
  /\ UNCHANGED <<pulls, unread, active, terminal, reads, closes>>

Give(b, p) == reads' = [reads EXCEPT ![b] = Append(@, p)]
May(b) == consumer = "helper" /\ Len(reads[b]) < MaxReads

(* next() of a branch: of its own pulls the oldest; else a new one, which goes to both   *)
(* that are active; after the end the source answers the branch alone.                     *)
ReadCancelled(b) ==
  /\ May(b) /\ ~active[b]
  /\ Give(b, 0)
  /\ UNCHANGED <<consumer, pulls, unread, active, terminal, closes>>
ReadOwn(b) ==
  /\ May(b) /\ active[b] /\ unread[b] # <<>>
  /\ Give(b, Head(unread[b])) /\ unread' = [unread EXCEPT ![b] = Tail(@)]
  /\ UNCHANGED <<consumer, pulls, active, terminal, closes>>
ReadAfterEnd(b) ==
  /\ May(b) /\ active[b] /\ unread[b] = <<>> /\ terminal
  /\ Give(b, 0)
  /\ UNCHANGED <<consumer, pulls, unread, active, terminal, closes>>

ReadNew(b) ==
  /\ May(b) /\ active[b] /\ unread[b] = <<>> /\ ~terminal /\ Len(pulls) < MaxPulls
  /\ pulls' = Append(pulls, "pending")
  /\ LET p == Len(pulls) + 1
     IN  /\ unread' = [c \in Branch |-> IF c # b /\ active[c] THEN Append(unread[c], p) ELSE unread[c]]
         /\ Give(b, p)
  /\ UNCHANGED <<consumer, active, terminal, closes>>

(* The source answers the oldest pull; past the end there is no item. *)
Settle(outcome) ==
  \E p \in DOMAIN pulls :
    /\ pulls[p] = "pending" /\ \A q \in 1..(p - 1) : pulls[q] # "pending"
    /\ outcome = "item" => ~terminal /\ closes = 0
    /\ pulls' = [pulls EXCEPT ![p] = outcome]
    /\ terminal' = (terminal \/ outcome \in {"done", "error"})
    /\ UNCHANGED <<consumer, unread, active, reads, closes>>

(* return() of a branch, which may be called again: what it has not read is forgotten, *)
(* and the source is closed once neither branch is left.                                  *)
Cancel(b) ==
  /\ consumer = "helper" /\ closes < 2
  /\ active' = [active EXCEPT ![b] = FALSE] /\ unread' = [unread EXCEPT ![b] = <<>>]
  /\ closes' = IF active'[0] \/ active'[1] THEN closes ELSE closes + 1
  /\ UNCHANGED <<consumer, pulls, terminal, reads>>

Next ==
  \/ Iterate \/ TakeOver
  \/ \E b \in Branch : ReadCancelled(b) \/ ReadOwn(b) \/ ReadNew(b) \/ ReadAfterEnd(b) \/ Cancel(b)
  \/ \E outcome \in {"item", "done", "error"} : Settle(outcome)

Spec == Init /\ [][Next]_vars

-----------------------------------------------------------------------------
(* Each branch reads every pull of the source once, in its order, whoever made it, and    *)
(* what it has not read waits for it, until it is cancelled; then nothing waits for it.     *)
(* Nobody is told of an end before all that came before it, and the source is not closed      *)
(* under a branch that is still active.                                                          *)
BranchesReadAll ==
  /\ \A b \in Branch : \E n \in 0..Len(reads[b]) :
       /\ \A i \in DOMAIN reads[b] : reads[b][i] = IF i <= n THEN i ELSE 0
       /\ active[b] => /\ Len(pulls) = n + Len(unread[b])
                       /\ \A i \in DOMAIN unread[b] : unread[b][i] = n + i
       /\ ~active[b] => unread[b] = <<>>
       /\ active[b] /\ n < Len(reads[b]) => terminal /\ unread[b] = <<>>
  /\ closes > 0 => \A b \in Branch : ~active[b]
=============================================================================
