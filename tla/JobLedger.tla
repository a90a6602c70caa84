------------------------------ MODULE JobLedger ------------------------------
(***************************************************************************)
(* What the durable job queue promises, without leases, sweeps, timers or  *)
(* databases: a submitted job waits in the queue, is held by at most one   *)
(* process at a time, goes back to the queue when its run fails or its     *)
(* process disappears, and once finished is never touched again.  Every    *)
(* submitted job is eventually finished.                                   *)
(***************************************************************************)
CONSTANTS Jobs, Procs, NoProc

VARIABLES
  phase,   \* phase[j]: none, queued, held, completed or failed
  holder   \* holder[j]: the process that holds job j

ledger == <<phase, holder>>

Outcome == {"completed", "failed"}

Init ==
  /\ phase = [j \in Jobs |-> "none"]
  /\ holder = [j \in Jobs |-> NoProc]

Submit(j) ==
  /\ phase[j] = "none"
  /\ phase' = [phase EXCEPT ![j] = "queued"]
  /\ UNCHANGED holder

Take(j, p) ==
  /\ phase[j] = "queued"
  /\ phase' = [phase EXCEPT ![j] = "held"]
  /\ holder' = [holder EXCEPT ![j] = p]

\* A run that failed returns its job; a process that died returns all of its.
Release(S) ==
  /\ \A j \in S : phase[j] = "held"
  /\ \A i, j \in S : holder[i] = holder[j]
  /\ phase' = [j \in Jobs |-> IF j \in S THEN "queued" ELSE phase[j]]
  /\ holder' = [j \in Jobs |-> IF j \in S THEN NoProc ELSE holder[j]]

Finish(j, outcome) ==
  /\ phase[j] = "held"
  /\ phase' = [phase EXCEPT ![j] = outcome]
  /\ holder' = [holder EXCEPT ![j] = NoProc]

Next ==
  \/ \E j \in Jobs : Submit(j)
  \/ \E j \in Jobs, p \in Procs : Take(j, p)
  \/ \E S \in SUBSET Jobs : Release(S)
  \/ \E j \in Jobs, outcome \in Outcome : Finish(j, outcome)

Safety == Init /\ [][Next]_ledger

EveryJobFinishes == \A j \in Jobs : phase[j] # "none" ~> phase[j] \in Outcome

Spec == Safety /\ EveryJobFinishes

=============================================================================
