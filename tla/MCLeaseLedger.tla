--------------------------- MODULE MCLeaseLedger ---------------------------
(* Small instances of LeaseLedger for TLC. *)
EXTENDS LeaseLedger, TLC

CONSTANTS c1, c2, c3, c4, l1, m1, m2

ThreeCalls == {c1, c2, c3}
FourCalls == {c1, c2, c3, c4}
OneLease == {l1}

(* A chain of one model and the same chain with a fallback. *)
OneChain == {{m1}}
TwoChains == {{m1}, {m2}}

None == {}
One == {1}
OneOrTwo == {1, 2}
Two == {2}

(* A grant that two calls exhaust, with a share of one call.                 *)
Strict == [granted |-> 2, share |-> 1, mode |-> "hard_deny", unreachable |-> "local_enforce",
           final |-> FALSE]

(* A grant no run of four calls exhausts, with no share. *)
Ample == [Strict EXCEPT !.granted = 8, !.share = 0]

AmpleTerms == {Ample}
StrictTerms == {Strict}

(* Calls are interchangeable, and so are models: no action or property orders *)
(* them.                                                                      *)
CallSymmetry == Permutations(Call)
CallAndModelSymmetry == Permutations(Call) \cup Permutations({m1, m2})
=============================================================================
