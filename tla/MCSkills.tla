------------------------------ MODULE MCSkills ------------------------------
(* Skills whose texts are harmless, dangerous, or harmless in white space. *)
EXTENDS Skills, TLC

CONSTANTS clean, padded, bad

MCMatches == clean :> {} @@ padded :> {} @@ bad :> {<<"env_access", "high">>}
MCTrimmed == clean :> clean @@ padded :> clean @@ bad :> bad
Symmetry == Permutations(SkillIds)
=============================================================================
