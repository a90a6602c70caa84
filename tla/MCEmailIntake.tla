---------------------------- MODULE MCEmailIntake ----------------------------
(* Model-checking instances of EmailIntake.                                *)
EXTENDS EmailIntake, TLC

CONSTANTS api1, api2, m1, m2, m3

TwoServers  == {api1, api2}
ThreeEmails == {m1, m2, m3}
OneId       == {m1}

Symmetry == Permutations({api1, api2}) \cup Permutations({m2, m3})

=============================================================================
