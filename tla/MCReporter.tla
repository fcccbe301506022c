----------------------------- MODULE MCReporter -----------------------------
(* Bounds of the reporter for TLC. *)
EXTENDS Reporter

MCFoldKey == [e \in Denied |-> 1]
=============================================================================
