------------------------ MODULE MCReleaseDispatcher ------------------------
(* Small instances of ReleaseDispatcher for TLC. *)
EXTENDS ReleaseDispatcher, TLC

CONSTANTS s1, s2, s3, s4, p1, p2, p3

FourSubmissions == {s1, s2, s3, s4}
ThreePayloads == {p1, p2, p3}

Symmetry == Permutations(Submission) \cup Permutations(Payload)
=============================================================================
