----------------------------- MODULE MCFollowUp -----------------------------
(* Model-checking instances of FollowUp.                                   *)
EXTENDS FollowUp, TLC

CONSTANTS c1, c2, c3, c4, r1, r2

FourCalls == {c1, c2, c3, c4}
TwoRecs   == {r1, r2}

Symmetry == Permutations({c1, c2, c3, c4}) \cup Permutations({r1, r2})

=============================================================================
