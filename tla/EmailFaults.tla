----------------------------- MODULE EmailFaults -----------------------------
(***************************************************************************)
(* What goes wrong between an e-mail and the end of its job: servers that  *)
(* crash, statements that fail or whose success is not reported, runs that *)
(* outlive their lease.  EmailIntake and EmailJobs draw on it.             *)
(***************************************************************************)
EXTENDS Naturals

CONSTANT MaxFaults   \* bound

VARIABLE faults      \* how many there were

Fault == faults < MaxFaults /\ faults' = faults + 1

=============================================================================
