------------------------------ MODULE Outcomes ------------------------------
(***************************************************************************)
(* What the SDK promises of work that is handed over and not waited for:   *)
(* every request that is accepted is decided at most once, as sent or as   *)
(* dropped, and a decision is final.                                       *)
(***************************************************************************)
CONSTANT Request

VARIABLE fate   \* [Request -> {"unborn", "open", "sent", "dropped"}]

Init == fate = [r \in Request |-> "unborn"]

(* A request may be dropped in the step that hands it over. *)
HandOver(r) ==
  /\ fate[r] = "unborn"
  /\ \E f \in {"open", "dropped"} : fate' = [fate EXCEPT ![r] = f]

(* Decisions of one step: the requests merged into one item share their fate, *)
(* and expired ones fall with the step that finds them.                       *)
Decide ==
  \E rs \in SUBSET {r \in Request : fate[r] = "open"}, f \in {"sent", "dropped"} :
    fate' = [r \in Request |-> IF r \in rs THEN f ELSE fate[r]]

(* A step that hands one request over may also let expired ones fall. *)
HandOverAndExpire(r) ==
  /\ fate[r] = "unborn"
  /\ \E rs \in SUBSET {q \in Request : fate[q] = "open"}, f \in {"open", "dropped"} :
       fate' = [q \in Request |-> IF q = r THEN f ELSE IF q \in rs THEN "dropped" ELSE fate[q]]

Next == Decide \/ \E r \in Request : HandOver(r) \/ HandOverAndExpire(r)

Spec == Init /\ [][Next]_fate
=============================================================================
