----------------------------- MODULE MCEmailJobs -----------------------------
(* Model-checking instances of EmailJobs.                                  *)
EXTENDS EmailJobs, TLC

CONSTANTS api, worker

MCProcs == {api, worker}
MCIngress == {api}
Bad == {1}

=============================================================================
