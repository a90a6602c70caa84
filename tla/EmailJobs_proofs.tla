--------------------------- MODULE EmailJobs_proofs ---------------------------
(***************************************************************************)
(* Machine-checked proofs about EmailJobs, for any set of processes, any   *)
(* number of jobs, any attempt budget and any number of faults, and about  *)
(* EmailIntake, which creates the jobs, for any set of servers and e-mails,*)
(* any number of deliveries and faults and any cache size.                 *)
(***************************************************************************)
EXTENDS EmailJobs, EmailIntake, TLAPS

USE EmailJobsAssumption DEF EmailJobsAssumption, Jobs, Attempt, Parseable

-----------------------------------------------------------------------------
(* Types.                                                                  *)

\* Moving one run to another point of its program keeps the type of pc.
LEMMA PcUpdate ==
  ASSUME NEW f \in [Jobs -> [Attempt -> RunPc]], NEW j \in Jobs, NEW n \in Attempt,
         NEW to \in RunPc
  PROVE  [f EXCEPT ![j][n] = to] \in [Jobs -> [Attempt -> RunPc]]
OBVIOUS

\* Taking one run away from its process keeps the type of owner.
LEMMA OwnerUpdate ==
  ASSUME NEW f \in [Jobs -> [Attempt -> Procs \cup {NoProc}]], NEW j \in Jobs,
         NEW n \in Attempt, NEW p \in Procs \cup {NoProc}
  PROVE  [f EXCEPT ![j][n] = p] \in [Jobs -> [Attempt -> Procs \cup {NoProc}]]
OBVIOUS

\* A sweep takes rows of the table only.
LEMMA SweepTypes == ASSUME TypeOK, NEW p \in Procs, Sweep(p) PROVE TypeOK'
<1>1. Oldest(Recoverable) \subseteq Jobs
  BY DEF Oldest, Recoverable
<1>2. wakeups' \in [Procs -> SUBSET Jobs]
  BY <1>1 DEF Sweep, TypeOK
<1>3. rejects' \in [Procs -> SUBSET Jobs]
  BY <1>1 DEF Sweep, TypeOK
<1>4. UNCHANGED <<status, attempts, lease, replySent, pc, owner, alive, deliveries, faults>>
  BY DEF Sweep, row, runs
<1> QED
  BY <1>2, <1>3, <1>4 DEF TypeOK

\* A lease that runs out changes the lease, and costs a fault at most.
LEMMA ExpireTypes == ASSUME TypeOK, NEW j \in Jobs, Expire(j) PROVE TypeOK'
<1>1. lease' \in [Jobs -> {"none", "fresh", "expired"}]
  BY DEF Expire, TypeOK
<1>2. faults' = faults \/ (faults < MaxFaults /\ faults' = faults + 1)
  BY DEF Expire, Fault
<1>3. faults' \in 0..MaxFaults
  BY <1>2, EmailJobsAssumption DEF TypeOK
<1>4. UNCHANGED <<status, attempts, replySent, pc, owner, wakeups, rejects, alive, deliveries>>
  BY DEF Expire, runs, procs
<1> QED
  BY <1>1, <1>3, <1>4 DEF TypeOK

\* Every step of the protocol keeps the variables in their types.
LEMMA TypeStep == TypeOK /\ [Next]_vars => TypeOK'
<1> SUFFICES ASSUME TypeOK, [Next]_vars PROVE TypeOK'
  OBVIOUS
<1> USE DEF TypeOK, row, runs, procs, JobStatus, RunPc, PreSend, Finishing
<1>1. ASSUME NEW p \in Procs, NEW j \in Jobs, Enqueue(p, j) PROVE TypeOK'
  BY <1>1 DEF Enqueue
<1>2. ASSUME NEW p \in Procs, NEW j \in Jobs, Claim(p, j) PROVE TypeOK'
  <2>1. attempts[j] + 1 \in Attempt
    BY <1>2 DEF Claim
  <2>2. /\ pc' \in [Jobs -> [Attempt -> RunPc]]
        /\ owner' \in [Jobs -> [Attempt -> Procs \cup {NoProc}]]
    BY <1>2, <2>1 DEF Claim
  <2> QED
    BY <1>2, <2>2 DEF Claim, SetRunning
<1>3. ASSUME NEW p \in Procs, NEW j \in Jobs, ClaimLost(p, j) PROVE TypeOK'
  <2>1. wakeups' \in [Procs -> SUBSET Jobs]
    BY <1>3 DEF ClaimLost
  <2>0. UNCHANGED <<pc, owner, rejects, alive, deliveries>>
    BY <1>3 DEF ClaimLost
  <2>4. faults' \in 0..MaxFaults
    BY <1>3 DEF ClaimLost, Fault
  <2>2. CASE UNCHANGED row
    BY <2>0, <2>4, <2>1, <2>2
  <2>3. CASE Fault /\ attempts[j] < MaxClaims /\ SetRunning(j)
    BY <1>3, <2>1, <2>3 DEF ClaimLost, Fault, SetRunning
  <2> QED
    BY <1>3, <2>2, <2>3 DEF ClaimLost
<1>4. ASSUME NEW p \in Procs, NEW j \in Jobs, RejectInvalid(p, j) PROVE TypeOK'
  <2>1. faults' \in 0..MaxFaults
    BY <1>4 DEF RejectInvalid, Attempted, Fault
  <2>2. /\ UNCHANGED <<attempts, lease, replySent>>
        /\ status' \in [Jobs -> JobStatus]
    BY <1>4 DEF RejectInvalid, Attempted, SetFailed
  <2>3. /\ UNCHANGED <<pc, owner, wakeups, alive, deliveries>>
        /\ rejects' \in [Procs -> SUBSET Jobs]
    BY <1>4 DEF RejectInvalid
  <2> QED
    BY <2>1, <2>2, <2>3
<1>5. ASSUME NEW j \in Jobs, NEW n \in Attempt, RunStep(j, n) PROVE TypeOK'
  <2>1. ASSUME NoReply(j, n) \/ Reply(j, n) \/ RunFails(j, n) PROVE TypeOK'
    <3>1. /\ UNCHANGED <<status, attempts, lease, replySent, owner, wakeups, rejects, alive>>
          /\ UNCHANGED <<deliveries, faults>>
      BY <2>1 DEF NoReply, Reply, RunFails, Step
    <3>2. PICK to \in RunPc : pc' = [pc EXCEPT ![j][n] = to]
      BY <2>1 DEF NoReply, Reply, RunFails, Step
    <3> QED
      BY <3>1, <3>2, PcUpdate
  <2>2. ASSUME Deliver(j, n) \/ DeliveryFails(j, n) PROVE TypeOK'
    <3>1. UNCHANGED <<status, attempts, lease, replySent, owner, wakeups, rejects, alive, faults>>
      BY <2>2 DEF Deliver, DeliveryFails, Step
    <3>2. PICK to \in RunPc : pc' = [pc EXCEPT ![j][n] = to]
      BY <2>2 DEF Deliver, DeliveryFails, Step
    <3>3. PICK k \in {0, 1} : deliveries' = [deliveries EXCEPT ![j] = @ + k]
      BY <2>2 DEF Deliver, DeliveryFails
    <3>4. deliveries' \in [Jobs -> Nat]
      BY <3>3
    <3> QED
      BY <3>1, <3>2, <3>4, PcUpdate
  <2>3. ASSUME DecideRetry(j, n) PROVE TypeOK'
    <3>1. UNCHANGED <<status, attempts, lease, replySent, owner, wakeups, rejects, alive, deliveries>>
      BY <2>3 DEF DecideRetry, Step
    <3>2. PICK to \in RunPc : pc' = [pc EXCEPT ![j][n] = to]
      BY <2>3 DEF DecideRetry, Step
    <3>3. faults' \in 0..MaxFaults
      BY <2>3 DEF DecideRetry, Fault
    <3> QED
      BY <3>1, <3>2, <3>3, PcUpdate
  <2>4. ASSUME MarkCompleted(j, n) \/ MarkRetrying(j, n) \/ MarkFailed(j, n) PROVE TypeOK'
    <3>1. faults' \in 0..MaxFaults
      BY <2>4 DEF MarkCompleted, MarkRetrying, MarkFailed, Attempted, Fault
    <3>2. UNCHANGED <<attempts, rejects, alive, deliveries>>
      BY <2>4 DEF MarkCompleted, MarkRetrying, MarkFailed, Attempted,
                  SetCompleted, SetRetrying, SetFailed
    <3>3. /\ status' \in [Jobs -> JobStatus]
          /\ lease' \in [Jobs -> {"none", "fresh", "expired"}]
          /\ replySent' \in [Jobs -> BOOLEAN]
      BY <2>4 DEF MarkCompleted, MarkRetrying, MarkFailed, Attempted,
                  SetCompleted, SetRetrying, SetFailed
    <3>4. EndRun(j, n)
      BY <2>4 DEF MarkCompleted, MarkRetrying, MarkFailed
    <3>5. /\ pc' \in [Jobs -> [Attempt -> RunPc]]
          /\ owner' \in [Jobs -> [Attempt -> Procs \cup {NoProc}]]
      BY <3>4, PcUpdate, OwnerUpdate DEF EndRun
    <3>6. \/ UNCHANGED wakeups
          \/ wakeups' = [wakeups EXCEPT ![owner[j][n]] = @ \cup {j}]
      <4>1. CASE MarkCompleted(j, n)
        BY <4>1 DEF MarkCompleted
      <4>2. CASE MarkRetrying(j, n)
        BY <4>2 DEF MarkRetrying
      <4>3. CASE MarkFailed(j, n)
        BY <4>3 DEF MarkFailed
      <4> QED
        BY <2>4, <4>1, <4>2, <4>3
    <3>7. wakeups' \in [Procs -> SUBSET Jobs]
      <4>1. wakeups \in [Procs -> SUBSET Jobs]
        OBVIOUS
      <4>2. \A p : [wakeups EXCEPT ![p] = @ \cup {j}] \in [Procs -> SUBSET Jobs]
        BY <4>1
      <4> QED
        BY <3>6, <4>1, <4>2
    <3> QED
      BY <3>1, <3>2, <3>3, <3>5, <3>7
  <2> QED
    BY <1>5, <2>1, <2>2, <2>3, <2>4 DEF RunStep
<1>6. ASSUME NEW p \in Procs, Sweep(p) PROVE TypeOK'
  BY <1>6, SweepTypes
<1>7. ASSUME NEW p \in Procs, Crash(p) PROVE TypeOK'
  BY <1>7 DEF Crash, Fault
<1>8. ASSUME NEW p \in Procs, Restart(p) PROVE TypeOK'
  BY <1>8 DEF Restart
<1>9. ASSUME NEW j \in Jobs, Expire(j) PROVE TypeOK'
  BY <1>9, ExpireTypes
<1>10. CASE UNCHANGED vars
  BY <1>10 DEF vars
<1> QED
  BY <1>1, <1>2, <1>3, <1>4, <1>5, <1>6, <1>7, <1>8, <1>9, <1>10 DEF Next

\* The types hold at the start.
LEMMA TypeInit == Init => TypeOK
BY DEF Init, TypeOK, JobStatus, RunPc

\* The variables of the job protocol always have their types: whatever the
\* interleaving, crash or database error, a row only ever holds a JobStatus.
THEOREM TypeCorrect == Spec => []TypeOK
BY TypeInit, TypeStep, PTL DEF Spec

-----------------------------------------------------------------------------
(* The inductive invariant.                                                *)

\* The inductive invariant holds at the start.
LEMMA IndInit == Init => IndInv
<1> SUFFICES ASSUME Init PROVE IndInv
  OBVIOUS
<1>1. TypeOK
  BY TypeInit
<1>2. \A j \in Jobs : JobInv(j)
  BY DEF Init, JobInv, ClaimHeld, RetryHasBudget, OrphanCostFault, UnsentCostFault,
         HasRun, Live, Unsettled, PreSend, Finishing
<1> QED
  BY <1>1, <1>2 DEF Init, IndInv

\* A step that leaves a job's row and runs alone preserves its invariant: more
\* faults only loosen the bounds.
LEMMA Frame ==
  ASSUME TypeOK, TypeOK', NEW i \in Jobs, JobInv(i), faults <= faults',
         status'[i] = status[i], attempts'[i] = attempts[i], lease'[i] = lease[i],
         deliveries'[i] = deliveries[i], pc'[i] = pc[i]
  PROVE  JobInv(i)'
<1>1. faults \in Nat /\ faults' \in Nat /\ deliveries[i] \in Nat /\ attempts[i] \in Nat
  BY DEF TypeOK
<1>2. ClaimHeld(i)' /\ RetryHasBudget(i)'
  BY DEF JobInv, ClaimHeld, RetryHasBudget, Live
<1>3. OrphanCostFault(i)' /\ UnsentCostFault(i)'
  BY <1>1 DEF JobInv, OrphanCostFault, UnsentCostFault, HasRun, Live, Unsettled
<1> QED
  BY <1>2, <1>3 DEF JobInv

\* The jobs a step does not touch keep their invariant; it is left to show that
\* the one it does touch does.
LEMMA OneJob ==
  ASSUME IndInv, TypeOK', NEW j \in Jobs, faults <= faults', JobInv(j)',
         \A i \in Jobs \ {j} : /\ status'[i] = status[i] /\ attempts'[i] = attempts[i]
                              /\ lease'[i] = lease[i] /\ deliveries'[i] = deliveries[i]
                              /\ pc'[i] = pc[i]
  PROVE  \A i \in Jobs : JobInv(i)'
<1> SUFFICES ASSUME NEW i \in Jobs \ {j} PROVE JobInv(i)'
  OBVIOUS
<1> QED
  BY Frame DEF IndInv

\* A new row has no run, no attempts and no deliveries.
LEMMA EnqueueStep ==
  ASSUME IndInv, TypeOK', NEW p \in Procs, NEW j \in Jobs, Enqueue(p, j)
  PROVE  \A i \in Jobs : JobInv(i)'
<1>1. /\ TypeOK /\ JobInv(j)
  BY DEF IndInv
<1>2. /\ status[j] = "absent" /\ status' = [status EXCEPT ![j] = "pending"]
      /\ UNCHANGED <<attempts, lease, deliveries, faults, pc>>
  BY DEF Enqueue, row, runs
<1>3. status'[j] = "pending" /\ faults \in Nat
  BY <1>1, <1>2 DEF TypeOK
<1>4. \A m \in Attempt : ~Live(j, m) /\ ~Live(j, m)'
  BY <1>1, <1>2 DEF JobInv, ClaimHeld, Live
<1>5. ClaimHeld(j)' /\ RetryHasBudget(j)'
  BY <1>1, <1>2, <1>3, <1>4 DEF JobInv, ClaimHeld, RetryHasBudget, Live, PreSend
<1>6. OrphanCostFault(j)' /\ UnsentCostFault(j)'
  BY <1>1, <1>2, <1>3, <1>4 DEF JobInv, OrphanCostFault, UnsentCostFault, Live, PreSend
<1>7. JobInv(j)'
  BY <1>5, <1>6 DEF JobInv
<1>8. \A i \in Jobs \ {j} : /\ status'[i] = status[i] /\ attempts'[i] = attempts[i]
                           /\ lease'[i] = lease[i] /\ deliveries'[i] = deliveries[i]
                           /\ pc'[i] = pc[i]
  BY <1>1, <1>2 DEF TypeOK
<1> QED
  BY <1>2, <1>3, <1>7, <1>8, OneJob

\* A claimable row has no live run: an unexpired lease is what a live run has.
LEMMA ClaimableIsFree ==
  ASSUME IndInv, NEW j \in Jobs, Claimable(j)
  PROVE  ~HasRun(j)
BY DEF IndInv, JobInv, ClaimHeld, Claimable, HasRun

\* A claim finds no live run, and its own becomes the only one.
LEMMA ClaimStep ==
  ASSUME IndInv, TypeOK', NEW p \in Procs, NEW j \in Jobs, Claim(p, j)
  PROVE  \A i \in Jobs : JobInv(i)'
<1>1. TypeOK /\ JobInv(j) /\ ~HasRun(j)
  BY ClaimableIsFree DEF IndInv, Claim
<1> DEFINE n == attempts[j] + 1
<1>2. /\ Claimable(j)
      /\ status' = [status EXCEPT ![j] = "running"] /\ lease' = [lease EXCEPT ![j] = "fresh"]
      /\ attempts' = [attempts EXCEPT ![j] = n]
      /\ pc' = [pc EXCEPT ![j][n] = "executing"]
      /\ UNCHANGED <<deliveries, faults>>
  BY DEF Claim, SetRunning
<1>3. /\ n \in Attempt /\ faults \in Nat /\ attempts[j] \in Nat /\ deliveries[j] \in Nat
      /\ n > attempts[j]
  BY <1>1 DEF Claim, TypeOK
<1>4. /\ status'[j] = "running" /\ lease'[j] = "fresh" /\ attempts'[j] = n
      /\ deliveries'[j] = deliveries[j] /\ faults' = faults
      /\ pc'[j][n] = "executing" /\ \A m \in Attempt \ {n} : pc'[j][m] = pc[j][m]
  BY <1>1, <1>2, <1>3 DEF TypeOK
<1>5. ClaimHeld(j)'
  BY <1>1, <1>4 DEF ClaimHeld, HasRun, Live
<1>6. attempts[j] < MaxAttempts + faults
  BY <1>1, <1>2, <1>3 DEF JobInv, RetryHasBudget, OrphanCostFault, Claimable
<1>7. RetryHasBudget(j)'
  BY <1>1, <1>4 DEF RetryHasBudget, HasRun, Live, PreSend
<1>8. OrphanCostFault(j)'
  BY <1>3, <1>4, <1>6 DEF OrphanCostFault, HasRun, Live, PreSend
<1>9. deliveries[j] <= faults
  BY <1>1, <1>2 DEF JobInv, UnsentCostFault, Claimable, Unsettled
<1>10. UnsentCostFault(j)'
  BY <1>3, <1>4, <1>9 DEF UnsentCostFault, Unsettled
<1>11. JobInv(j)'
  BY <1>5, <1>7, <1>8, <1>10 DEF JobInv
<1>12. \A i \in Jobs \ {j} : /\ status'[i] = status[i] /\ attempts'[i] = attempts[i]
                           /\ lease'[i] = lease[i] /\ deliveries'[i] = deliveries[i]
                           /\ pc'[i] = pc[i]
  BY <1>1, <1>2 DEF TypeOK
<1> QED
  BY <1>3, <1>4, <1>11, <1>12, OneJob

\* What the invariant says of a live run: it holds the latest claim, and it is alone.
LEMMA LiveRun ==
  ASSUME IndInv, NEW j \in Jobs, NEW n \in Attempt, Live(j, n)
  PROVE  /\ n = attempts[j] /\ lease[j] = "fresh"
         /\ status[j] = "running" \/ (j \in Unparseable /\ status[j] = "failed")
         /\ \A m \in Attempt \ {n} : ~Live(j, m)
BY DEF IndInv, JobInv, ClaimHeld

\* A run moves on inside processEmailJob or decides about its retry.
LEMMA MoveStep ==
  ASSUME IndInv, TypeOK', NEW j \in Jobs, NEW n \in Attempt,
         NEW from \in PreSend, NEW to \in PreSend \cup Finishing, Step(j, n, from, to),
         faults <= faults',
         \A i \in Jobs \ {j} : deliveries'[i] = deliveries[i],
         deliveries'[j] <= deliveries[j] + 1,
         to \in PreSend => deliveries'[j] = deliveries[j],
         to = "retrying" => attempts[j] < MaxAttempts
  PROVE  \A i \in Jobs : JobInv(i)'
<1>0. Live(j, n)
  BY DEF Step, Live
<1>1. TypeOK /\ JobInv(j) /\ Live(j, n)
  BY <1>0 DEF IndInv
<1>13. /\ faults \in Nat /\ faults' \in Nat /\ deliveries[j] \in Nat /\ deliveries'[j] \in Nat
       /\ attempts[j] \in Nat
  BY <1>1 DEF TypeOK
<1>2. /\ pc[j][n] = from /\ pc' = [pc EXCEPT ![j][n] = to]
      /\ UNCHANGED <<status, attempts, lease>>
  BY DEF Step, row
<1>3. pc'[j][n] = to /\ \A m \in Attempt \ {n} : pc'[j][m] = pc[j][m]
  BY <1>1, <1>2 DEF TypeOK
<1>4. /\ n = attempts[j] /\ lease[j] = "fresh"
      /\ status[j] = "running" \/ (j \in Unparseable /\ status[j] = "failed")
      /\ \A m \in Attempt \ {n} : ~Live(j, m)
  BY <1>1, LiveRun
<1>5. HasRun(j) /\ HasRun(j)' /\ \A m \in Attempt \ {n} : ~Live(j, m)'
  BY <1>1, <1>3, <1>4 DEF HasRun, Live
<1>6. ClaimHeld(j)'
  BY <1>2, <1>4, <1>5 DEF ClaimHeld
<1>7. RetryHasBudget(j)'
  BY <1>1, <1>13, <1>2, <1>3 DEF JobInv, RetryHasBudget
<1>8. OrphanCostFault(j)'
  BY <1>1, <1>13, <1>2, <1>5 DEF JobInv, OrphanCostFault
<1>9. deliveries[j] <= faults
  BY <1>1, <1>13, <1>2 DEF JobInv, UnsentCostFault
<1>10. UnsentCostFault(j)'
  <2>1. status'[j] # "absent"
    BY <1>2, <1>4
  <2>2. deliveries'[j] <= 1 + faults'
    BY <1>1, <1>13, <1>9
  <2>3. \A m \in Attempt : pc'[j][m] \in PreSend => deliveries'[j] <= faults'
    <3> SUFFICES ASSUME NEW m \in Attempt, pc'[j][m] \in PreSend PROVE deliveries'[j] <= faults'
      OBVIOUS
    <3>1. m = n
      BY <1>5 DEF Live
    <3> QED
      BY <1>1, <1>13, <1>3, <1>9, <3>1
  <2> QED
    BY <1>5, <2>1, <2>2, <2>3 DEF UnsentCostFault
<1>11. JobInv(j)'
  BY <1>6, <1>7, <1>8, <1>10 DEF JobInv
<1>12. \A i \in Jobs \ {j} : /\ status'[i] = status[i] /\ attempts'[i] = attempts[i]
                           /\ lease'[i] = lease[i] /\ deliveries'[i] = deliveries[i]
                           /\ pc'[i] = pc[i]
  BY <1>1, <1>2 DEF TypeOK
<1> QED
  BY <1>11, <1>12, OneJob

\* A run ends.  Either its mark took effect, or a fault hides what happened and
\* the row may still say running.
LEMMA MarkStep ==
  ASSUME IndInv, TypeOK', NEW j \in Jobs, NEW n \in Attempt, Live(j, n), EndRun(j, n),
         UNCHANGED <<attempts, deliveries>>,
         \A i \in Jobs \ {j} : status'[i] = status[i] /\ lease'[i] = lease[i],
         \/ status'[j] = status[j] /\ faults' = faults + 1
         \/ status'[j] \in {"completed", "failed"} /\ faults' \in {faults, faults + 1}
         \/ /\ pc[j][n] = "retrying" /\ status'[j] = "retrying"
            /\ faults' \in {faults, faults + 1}
  PROVE  \A i \in Jobs : JobInv(i)'
<1>a. TypeOK /\ JobInv(j)
  BY DEF IndInv
<1>b. faults \in Nat /\ faults' \in Nat
  BY <1>a, EmailJobsAssumption DEF TypeOK
<1>c. deliveries[j] \in Nat /\ attempts[j] \in Nat
  BY <1>a DEF TypeOK
<1>1. /\ TypeOK /\ JobInv(j)
      /\ faults \in Nat /\ faults' \in Nat /\ deliveries[j] \in Nat /\ attempts[j] \in Nat
  BY <1>a, <1>b, <1>c
<1>2. pc'[j][n] = "over" /\ \A m \in Attempt \ {n} : pc'[j][m] = pc[j][m]
  BY <1>1 DEF EndRun, TypeOK
<1>3. /\ n = attempts[j]
      /\ status[j] = "running" \/ (j \in Unparseable /\ status[j] = "failed")
      /\ \A m \in Attempt \ {n} : ~Live(j, m)
  BY LiveRun
<1>4. \A m \in Attempt : ~Live(j, m)'
  BY <1>2, <1>3 DEF Live, PreSend, Finishing
<1>5. ClaimHeld(j)'
  BY <1>4 DEF ClaimHeld
<1>6. status'[j] = "retrying" => attempts[j] < MaxAttempts
  BY <1>1, <1>3 DEF JobInv, RetryHasBudget
<1>7. RetryHasBudget(j)'
  BY <1>3, <1>4, <1>6 DEF RetryHasBudget, Live, PreSend
<1>8. OrphanCostFault(j)'
  BY <1>1, <1>3 DEF JobInv, OrphanCostFault
<1>9. UnsentCostFault(j)'
  <2>1. status'[j] # "absent"
    BY <1>3
  <2>2. deliveries[j] <= 1 + faults
    BY <1>1 DEF JobInv, UnsentCostFault
  <2>3. Unsettled(j)' => deliveries[j] <= faults'
    BY <1>1, <1>3, <2>2 DEF JobInv, UnsentCostFault, Unsettled, PreSend
  <2> QED
    BY <1>1, <1>4, <2>1, <2>2, <2>3 DEF UnsentCostFault, Live
<1>10. JobInv(j)'
  BY <1>5, <1>7, <1>8, <1>9 DEF JobInv
<1>11. \A i \in Jobs \ {j} : /\ status'[i] = status[i] /\ attempts'[i] = attempts[i]
                           /\ lease'[i] = lease[i] /\ deliveries'[i] = deliveries[i]
                           /\ pc'[i] = pc[i]
  BY <1>1 DEF TypeOK, EndRun
<1> QED
  BY <1>1, <1>10, <1>11, OneJob

\* A claim that is lost changes nothing, or leaves a running row behind and costs a fault.
LEMMA ClaimLostStep ==
  ASSUME IndInv, TypeOK', NEW p \in Procs, NEW j \in Jobs, ClaimLost(p, j)
  PROVE  \A i \in Jobs : JobInv(i)'
<1>0. TypeOK /\ JobInv(j)
  BY DEF IndInv
<1>9. faults \in Nat /\ faults' \in Nat
  BY <1>0 DEF TypeOK
<1>1. TypeOK /\ JobInv(j) /\ faults \in Nat /\ faults' \in Nat
  BY <1>0, <1>9
<1>5. UNCHANGED <<pc, owner, deliveries>>
  BY DEF ClaimLost, runs
<1>6. faults' \in {faults, faults + 1}
  BY DEF ClaimLost, Fault
<1>2. UNCHANGED <<pc, owner, deliveries>> /\ faults' \in {faults, faults + 1}
  BY <1>5, <1>6
<1>3. CASE UNCHANGED row
  <2>1. UNCHANGED <<status, attempts, lease>>
    BY <1>3 DEF row
  <2> QED
    BY <1>1, <1>2, <2>1, Frame DEF IndInv
<1>4. CASE Fault /\ Claimable(j) /\ SetRunning(j)
  <2>1. ~HasRun(j)
    BY <1>4, ClaimableIsFree
  <2>2. /\ deliveries[j] \in Nat /\ attempts[j] \in Nat /\ faults' = faults + 1
        /\ status'[j] = "running" /\ attempts'[j] = attempts[j] + 1
        /\ deliveries'[j] = deliveries[j] /\ pc'[j] = pc[j]
    BY <1>1, <1>2, <1>4 DEF TypeOK, SetRunning, Fault
  <2>3. ~HasRun(j)' /\ \A m \in Attempt : ~Live(j, m) /\ ~Live(j, m)'
    BY <2>1, <2>2 DEF HasRun, Live
  <2>4. attempts[j] < MaxAttempts + faults /\ deliveries[j] <= faults
    BY <1>1, <1>4, <2>1, <2>2
       DEF JobInv, RetryHasBudget, OrphanCostFault, UnsentCostFault, Claimable, Unsettled
  <2>5. ClaimHeld(j)' /\ RetryHasBudget(j)'
    BY <2>2, <2>3 DEF ClaimHeld, RetryHasBudget, Live, PreSend
  <2>6. OrphanCostFault(j)' /\ UnsentCostFault(j)'
    BY <1>1, <2>2, <2>3, <2>4 DEF OrphanCostFault, UnsentCostFault, Live
  <2>7. JobInv(j)'
    BY <2>5, <2>6 DEF JobInv
  <2>8. \A i \in Jobs \ {j} : /\ status'[i] = status[i] /\ attempts'[i] = attempts[i]
                             /\ lease'[i] = lease[i] /\ deliveries'[i] = deliveries[i]
                             /\ pc'[i] = pc[i]
    BY <1>1, <1>2, <1>4 DEF TypeOK, SetRunning
  <2> QED
    BY <1>1, <2>2, <2>7, <2>8, OneJob
<1> QED
  BY <1>3, <1>4 DEF ClaimLost

\* A sweep only ever rejects jobs whose payload cannot be parsed; nobody else's
\* invariant is disturbed, and theirs allows a row marked failed under a run.
LEMMA RejectStep ==
  ASSUME IndInv, TypeOK', NEW p \in Procs, NEW j \in Jobs, RejectInvalid(p, j)
  PROVE  \A i \in Jobs : JobInv(i)'
<1>a. TypeOK /\ JobInv(j)
  BY DEF IndInv
<1>b. j \in rejects[p]
  BY DEF RejectInvalid
<1>c. j \in Unparseable
  BY <1>b DEF IndInv
<1>d. faults \in Nat /\ faults' \in Nat
  BY <1>a, EmailJobsAssumption DEF TypeOK
<1>1. TypeOK /\ JobInv(j) /\ j \in Unparseable /\ faults \in Nat /\ faults' \in Nat
  BY <1>a, <1>c, <1>d
<1>5. UNCHANGED <<pc, owner, deliveries>>
  BY DEF RejectInvalid, runs
<1>6. faults' \in {faults, faults + 1}
  BY DEF RejectInvalid, Attempted, Fault
<1>2. UNCHANGED <<pc, owner, deliveries>> /\ faults' \in {faults, faults + 1}
  BY <1>5, <1>6
<1>3. CASE UNCHANGED row
  <2>1. UNCHANGED <<status, attempts, lease>>
    BY <1>3 DEF row
  <2> QED
    BY <1>1, <1>2, <2>1, Frame DEF IndInv
<1>4. CASE SetFailed(j)
  <2>1. /\ deliveries[j] \in Nat /\ attempts[j] \in Nat /\ status'[j] = "failed"
        /\ attempts'[j] = attempts[j] /\ lease'[j] = lease[j]
        /\ deliveries'[j] = deliveries[j] /\ pc'[j] = pc[j]
    BY <1>1, <1>2, <1>4 DEF TypeOK, SetFailed
  <2>2. ClaimHeld(j)' /\ RetryHasBudget(j)'
    BY <1>1, <2>1 DEF JobInv, ClaimHeld, RetryHasBudget, Live
  <2>3. OrphanCostFault(j)' /\ UnsentCostFault(j)'
    BY <1>1, <1>2, <2>1 DEF JobInv, OrphanCostFault, UnsentCostFault, Unsettled
  <2>4. JobInv(j)'
    BY <2>2, <2>3 DEF JobInv
  <2>5. \A i \in Jobs \ {j} : /\ status'[i] = status[i] /\ attempts'[i] = attempts[i]
                             /\ lease'[i] = lease[i] /\ deliveries'[i] = deliveries[i]
                             /\ pc'[i] = pc[i]
    BY <1>1, <1>2, <1>4 DEF TypeOK, SetFailed
  <2> QED
    BY <1>1, <1>2, <2>4, <2>5, OneJob
<1> QED
  BY <1>3, <1>4 DEF RejectInvalid, Attempted

\* A crash ends every run of one process at the price of a fault.
LEMMA CrashStep ==
  ASSUME IndInv, TypeOK', NEW p \in Procs, Crash(p), NEW j \in Jobs
  PROVE  JobInv(j)'
<1>0. TypeOK /\ JobInv(j)
  BY DEF IndInv
<1>1. faults \in Nat /\ deliveries[j] \in Nat /\ attempts[j] \in Nat /\ faults' = faults + 1
  BY <1>0 DEF TypeOK, Crash, Fault
<1>2. UNCHANGED <<status, attempts, lease, deliveries>>
  BY DEF Crash, row
<1>3. \A n \in Attempt : pc'[j][n] = IF owner[j][n] = p THEN "over" ELSE pc[j][n]
  BY DEF Crash
<1>4. \A n \in Attempt : Live(j, n)' => Live(j, n) /\ pc'[j][n] = pc[j][n]
  BY <1>3 DEF Live, PreSend, Finishing
<1>5. ClaimHeld(j)'
  BY <1>0, <1>2, <1>4 DEF JobInv, ClaimHeld
<1>6. RetryHasBudget(j)'
  BY <1>0, <1>2, <1>3 DEF JobInv, RetryHasBudget
<1>7. OrphanCostFault(j)'
  BY <1>0, <1>1, <1>2 DEF JobInv, OrphanCostFault
<1>8. UnsentCostFault(j)'
  <2>1. \A n \in Attempt : pc'[j][n] \in PreSend => deliveries[j] <= faults
    BY <1>0, <1>3 DEF JobInv, UnsentCostFault, PreSend
  <2> QED
    BY <1>0, <1>1, <1>2, <2>1 DEF JobInv, UnsentCostFault
<1> QED
  BY <1>5, <1>6, <1>7, <1>8 DEF JobInv

\* While every run ends within its lease, only a claim nobody runs can expire.
LEMMA ExpireStep ==
  ASSUME RunsWithinLease, IndInv, TypeOK', NEW j \in Jobs, Expire(j)
  PROVE  \A i \in Jobs : JobInv(i)'
<1>0. TypeOK /\ JobInv(j)
  BY DEF IndInv
<1>1. faults \in Nat /\ faults' = faults /\ ~HasRun(j)
  BY <1>0 DEF TypeOK, Expire
<1>2. UNCHANGED <<status, attempts, deliveries, pc>>
  BY DEF Expire, runs
<1>3. \A n \in Attempt : ~Live(j, n) /\ ~Live(j, n)'
  BY <1>1, <1>2 DEF HasRun, Live
<1>4. ClaimHeld(j)' /\ RetryHasBudget(j)'
  BY <1>0, <1>2, <1>3 DEF JobInv, ClaimHeld, RetryHasBudget
<1>5. OrphanCostFault(j)' /\ UnsentCostFault(j)'
  BY <1>0, <1>1, <1>2, <1>3 DEF JobInv, OrphanCostFault, UnsentCostFault, HasRun, Live, Unsettled
<1>6. JobInv(j)'
  BY <1>4, <1>5 DEF JobInv
<1>7. \A i \in Jobs \ {j} : /\ status'[i] = status[i] /\ attempts'[i] = attempts[i]
                           /\ lease'[i] = lease[i] /\ deliveries'[i] = deliveries[i]
                           /\ pc'[i] = pc[i]
  BY <1>0, <1>2 DEF Expire, TypeOK
<1> QED
  BY <1>1, <1>6, <1>7, OneJob

\* Sweeps and restarts touch neither rows nor runs.
LEMMA IdleStep ==
  ASSUME IndInv, TypeOK', UNCHANGED <<row, pc, deliveries, faults>>
  PROVE  \A i \in Jobs : JobInv(i)'
<1>1. TypeOK /\ \A i \in Jobs : JobInv(i)
  BY DEF IndInv
<1>2. faults \in Nat
  BY <1>1 DEF TypeOK
<1>3. UNCHANGED <<status, attempts, lease, pc, deliveries, faults>>
  BY DEF row
<1>4. faults <= faults'
  BY <1>2, <1>3
<1> QED
  BY <1>1, <1>3, <1>4, Frame

\* A retry is granted below the budget only.
LEMMA DecideRetryStep ==
  ASSUME IndInv, TypeOK', NEW j \in Jobs, NEW n \in Attempt, DecideRetry(j, n)
  PROVE  \A i \in Jobs : JobInv(i)'
<1>0. TypeOK
  BY DEF IndInv
<1>1. faults \in Nat /\ faults' \in {faults, faults + 1}
  BY <1>0 DEF TypeOK, DecideRetry, Fault
<1>2. faults <= faults' /\ deliveries[j] \in Nat /\ deliveries' = deliveries
  BY <1>0, <1>1 DEF TypeOK, DecideRetry
<1>3. CASE attempts[j] < MaxAttempts /\ Step(j, n, "failed", "retrying")
  BY <1>2, <1>3, MoveStep DEF PreSend, Finishing
<1>4. CASE Step(j, n, "failed", "givingUp")
  BY <1>2, <1>4, MoveStep DEF PreSend, Finishing
<1> QED
  BY <1>3, <1>4 DEF DecideRetry

\* The steps of processEmailJob move one run and count what it sends.
LEMMA ProcessStep ==
  ASSUME IndInv, TypeOK', NEW j \in Jobs, NEW n \in Attempt,
         NoReply(j, n) \/ Reply(j, n) \/ RunFails(j, n) \/ Deliver(j, n) \/ DeliveryFails(j, n)
  PROVE  \A i \in Jobs : JobInv(i)'
<1>0. TypeOK
  BY DEF IndInv
<1>1. faults \in Nat /\ deliveries[j] \in Nat /\ deliveries \in [Jobs -> Nat]
  BY <1>0 DEF TypeOK
<1>2. ASSUME NEW from \in PreSend, NEW to \in (PreSend \cup Finishing) \ {"retrying"},
             Step(j, n, from, to), UNCHANGED <<deliveries, faults>>
      PROVE  \A i \in Jobs : JobInv(i)'
  <2>1. faults <= faults' /\ deliveries'[j] = deliveries[j] /\ deliveries'[j] <= deliveries[j] + 1
    BY <1>1, <1>2
  <2> QED
    BY <1>2, <2>1, MoveStep
<1>3. ASSUME NEW to \in Finishing, Step(j, n, "replying", to), UNCHANGED faults,
             NEW d \in {0, 1}, deliveries' = [deliveries EXCEPT ![j] = @ + d]
      PROVE  \A i \in Jobs : JobInv(i)'
  <2>1. /\ faults <= faults' /\ deliveries'[j] <= deliveries[j] + 1
        /\ \A i \in Jobs \ {j} : deliveries'[i] = deliveries[i]
    BY <1>1, <1>3
  <2>2. "replying" \in PreSend /\ to \notin PreSend /\ to # "retrying" /\ to \in PreSend \cup Finishing
    BY DEF PreSend, Finishing
  <2> QED
    BY <1>3, <2>1, <2>2, MoveStep
<1>4. CASE NoReply(j, n)
  BY <1>2, <1>4 DEF NoReply, PreSend, Finishing
<1>5. CASE Reply(j, n)
  BY <1>2, <1>5 DEF Reply, PreSend, Finishing
<1>6. CASE RunFails(j, n)
  BY <1>2, <1>6 DEF RunFails, PreSend, Finishing
<1>7. CASE Deliver(j, n)
  BY <1>3, <1>7 DEF Deliver, Finishing
<1>8. CASE DeliveryFails(j, n)
  BY <1>3, <1>8 DEF DeliveryFails, Finishing
<1> QED
  BY <1>4, <1>5, <1>6, <1>7, <1>8

\* The mark* updates close the claim of the only live run.
LEMMA FinishStep ==
  ASSUME IndInv, TypeOK', NEW j \in Jobs, NEW n \in Attempt,
         MarkCompleted(j, n) \/ MarkRetrying(j, n) \/ MarkFailed(j, n)
  PROVE  \A i \in Jobs : JobInv(i)'
<1>0. TypeOK
  BY DEF IndInv
<1>1. Live(j, n) /\ EndRun(j, n)
  BY DEF MarkCompleted, MarkRetrying, MarkFailed, Live, PreSend, Finishing
<1>2. UNCHANGED <<attempts, deliveries>>
  BY DEF MarkCompleted, MarkRetrying, MarkFailed, Attempted, SetCompleted, SetRetrying,
         SetFailed, row
<1>3. \A i \in Jobs \ {j} : status'[i] = status[i] /\ lease'[i] = lease[i]
  BY <1>0 DEF MarkCompleted, MarkRetrying, MarkFailed, Attempted, SetCompleted, SetRetrying,
              SetFailed, row, TypeOK
<1>4. faults' \in {faults, faults + 1}
  BY DEF MarkCompleted, MarkRetrying, MarkFailed, Attempted, Fault
<1>5. \/ status'[j] = status[j] /\ faults' = faults + 1
      \/ status'[j] \in {"completed", "failed"}
      \/ pc[j][n] = "retrying" /\ status'[j] = "retrying"
  <2>1. CASE MarkCompleted(j, n)
    BY <1>0, <2>1 DEF MarkCompleted, Attempted, SetCompleted, Fault, row, TypeOK
  <2>2. CASE MarkRetrying(j, n)
    BY <1>0, <2>2 DEF MarkRetrying, Attempted, SetRetrying, Fault, row, TypeOK
  <2>3. CASE MarkFailed(j, n)
    BY <1>0, <2>3 DEF MarkFailed, Attempted, SetFailed, Fault, row, TypeOK
  <2> QED
    BY <2>1, <2>2, <2>3
<1> QED
  BY <1>1, <1>2, <1>3, <1>4, <1>5, MarkStep

\* Only the sweep puts jobs on the reject list, and only unparseable ones.
LEMMA RejectsStep ==
  ASSUME IndInv, [Next]_vars
  PROVE  \A p \in Procs : rejects'[p] \subseteq Unparseable
<1>1. rejects \in [Procs -> SUBSET Jobs] /\ \A p \in Procs : rejects[p] \subseteq Unparseable
  BY DEF IndInv, TypeOK
<1>2. CASE UNCHANGED rejects
  BY <1>1, <1>2
<1>3. ASSUME NEW q \in Procs, NEW S \in SUBSET Unparseable, rejects' = [rejects EXCEPT ![q] = S]
      PROVE  \A p \in Procs : rejects'[p] \subseteq Unparseable
  BY <1>1, <1>3
<1>4. ASSUME NEW p \in Procs, NEW j \in Jobs, RejectInvalid(p, j)
      PROVE  \A q \in Procs : rejects'[q] \subseteq Unparseable
  <2>1. rejects[p] \ {j} \in SUBSET Unparseable /\ rejects' = [rejects EXCEPT ![p] = rejects[p] \ {j}]
    BY <1>1, <1>4 DEF RejectInvalid
  <2> QED
    BY <1>3, <2>1
<1>5. ASSUME NEW p \in Procs, Sweep(p)
      PROVE  \A q \in Procs : rejects'[q] \subseteq Unparseable
  <2>1. rejects[p] \cup (Oldest(Recoverable) \cap Unparseable) \in SUBSET Unparseable
    BY <1>1
  <2>2. rejects' = [rejects EXCEPT ![p] = rejects[p] \cup (Oldest(Recoverable) \cap Unparseable)]
    BY <1>5 DEF Sweep
  <2> QED
    BY <1>3, <2>1, <2>2
<1>6. ASSUME NEW p \in Procs, Crash(p)
      PROVE  \A q \in Procs : rejects'[q] \subseteq Unparseable
  <2>1. {} \in SUBSET Unparseable /\ rejects' = [rejects EXCEPT ![p] = {}]
    BY <1>6 DEF Crash
  <2> QED
    BY <1>3, <2>1
<1>7. ASSUME NEW j \in Jobs, NEW n \in Attempt, RunStep(j, n) PROVE UNCHANGED rejects
  <2>1. CASE NoReply(j, n) \/ Reply(j, n) \/ RunFails(j, n) \/ Deliver(j, n) \/ DeliveryFails(j, n)
    BY <2>1 DEF NoReply, Reply, RunFails, Deliver, DeliveryFails, Step, procs
  <2>2. CASE DecideRetry(j, n)
    BY <2>2 DEF DecideRetry, Step, procs
  <2>3. CASE MarkCompleted(j, n) \/ MarkRetrying(j, n) \/ MarkFailed(j, n)
    BY <2>3 DEF MarkCompleted, MarkRetrying, MarkFailed, procs
  <2> QED
    BY <1>7, <2>1, <2>2, <2>3 DEF RunStep
<1>8. ASSUME NEW p \in Procs, NEW j \in Jobs, Enqueue(p, j) \/ Claim(p, j) \/ ClaimLost(p, j)
      PROVE  UNCHANGED rejects
  BY <1>8 DEF Enqueue, Claim, ClaimLost
<1>9. ASSUME NEW p \in Procs, Restart(p) PROVE UNCHANGED rejects
  BY <1>9 DEF Restart
<1>10. ASSUME NEW j \in Jobs, Expire(j) PROVE UNCHANGED rejects
  BY <1>10 DEF Expire, procs
<1>11. CASE UNCHANGED vars
  BY <1>11, <1>2 DEF vars, procs
<1> QED
  BY <1>2, <1>4, <1>5, <1>6, <1>7, <1>8, <1>9, <1>10, <1>11 DEF Next

\* Every step keeps the inductive invariant, if runs end within their leases.
LEMMA IndStep ==
  ASSUME RunsWithinLease, IndInv, [Next]_vars
  PROVE  IndInv'
<1>1. TypeOK'
  BY TypeStep DEF IndInv
<1>2. \A i \in Jobs : JobInv(i)'
  <2>1. ASSUME NEW p \in Procs, NEW j \in Jobs, Enqueue(p, j) PROVE \A i \in Jobs : JobInv(i)'
    BY <1>1, <2>1, EnqueueStep
  <2>2. ASSUME NEW p \in Procs, NEW j \in Jobs, Claim(p, j) PROVE \A i \in Jobs : JobInv(i)'
    BY <1>1, <2>2, ClaimStep
  <2>3. ASSUME NEW p \in Procs, NEW j \in Jobs, ClaimLost(p, j) PROVE \A i \in Jobs : JobInv(i)'
    BY <1>1, <2>3, ClaimLostStep
  <2>4. ASSUME NEW p \in Procs, NEW j \in Jobs, RejectInvalid(p, j) PROVE \A i \in Jobs : JobInv(i)'
    BY <1>1, <2>4, RejectStep
  <2>5. ASSUME NEW j \in Jobs, NEW n \in Attempt, RunStep(j, n) PROVE \A i \in Jobs : JobInv(i)'
    <3>1. CASE NoReply(j, n) \/ Reply(j, n) \/ RunFails(j, n) \/ Deliver(j, n) \/ DeliveryFails(j, n)
      BY <1>1, <3>1, ProcessStep
    <3>2. CASE DecideRetry(j, n)
      BY <1>1, <3>2, DecideRetryStep
    <3>3. CASE MarkCompleted(j, n) \/ MarkRetrying(j, n) \/ MarkFailed(j, n)
      BY <1>1, <3>3, FinishStep
    <3> QED
      BY <2>5, <3>1, <3>2, <3>3 DEF RunStep
  <2>6. ASSUME NEW p \in Procs, Sweep(p) \/ Restart(p) PROVE \A i \in Jobs : JobInv(i)'
    <3>1. UNCHANGED <<row, pc, deliveries, faults>>
      BY <2>6 DEF Sweep, Restart, runs
    <3> QED
      BY <1>1, <3>1, IdleStep
  <2>7. ASSUME NEW p \in Procs, Crash(p) PROVE \A i \in Jobs : JobInv(i)'
    BY <1>1, <2>7, CrashStep
  <2>8. ASSUME NEW j \in Jobs, Expire(j) PROVE \A i \in Jobs : JobInv(i)'
    BY <1>1, <2>8, ExpireStep
  <2>9. CASE UNCHANGED vars
    <3>1. UNCHANGED <<row, pc, deliveries, faults>>
      BY <2>9 DEF vars, runs
    <3> QED
      BY <1>1, <3>1, IdleStep
  <2> QED
    BY <2>1, <2>2, <2>3, <2>4, <2>5, <2>6, <2>7, <2>8, <2>9 DEF Next
<1> QED
  BY <1>1, <1>2, RejectsStep DEF IndInv

-----------------------------------------------------------------------------
(* What follows from it, when no run outlives its lease.                   *)

\* IndInv is an invariant: the common strengthening of the theorems below.
LEMMA Inductive == RunsWithinLease => (Spec => []IndInv)
<1> SUFFICES ASSUME RunsWithinLease PROVE Spec => []IndInv
  OBVIOUS
<1>1. Init => IndInv
  BY IndInit
<1>2. IndInv /\ [Next]_vars => IndInv'
  BY IndStep
<1> QED
  BY <1>1, <1>2, PTL DEF Spec

\* However retries, sweeps of several processes, crashes and failed writes
\* interleave, claimForRun lets at most one run execute a job, and the run that
\* does is that of the latest claim.
THEOREM OneRunAtATime == RunsWithinLease => (Spec => []ExclusiveRun)
<1> SUFFICES ASSUME RunsWithinLease PROVE Spec => []ExclusiveRun
  OBVIOUS
<1>1. IndInv => ExclusiveRun
  BY DEF IndInv, JobInv, ClaimHeld, ExclusiveRun
<1> QED
  BY <1>1, Inductive, PTL

\* No job is claimed more often than its budget plus the faults it met.
THEOREM AttemptsAreBounded == RunsWithinLease => (Spec => []AttemptsBounded)
<1> SUFFICES ASSUME RunsWithinLease PROVE Spec => []AttemptsBounded
  OBVIOUS
<1>1. IndInv => AttemptsBounded
  BY DEF IndInv, JobInv, OrphanCostFault, AttemptsBounded
<1> QED
  BY <1>1, Inductive, PTL

\* A customer gets the reply once, and once more at most for every fault.
THEOREM DeliveriesAreBounded == RunsWithinLease => (Spec => []DeliveryBounded)
<1> SUFFICES ASSUME RunsWithinLease PROVE Spec => []DeliveryBounded
  OBVIOUS
<1>1. IndInv => DeliveryBounded
  BY DEF IndInv, JobInv, UnsentCostFault, DeliveryBounded
<1> QED
  BY <1>1, Inductive, PTL

-----------------------------------------------------------------------------
(* What the row says of the reply, with or without overruns.               *)

SentInv ==
  /\ TypeOK
  /\ \A j \in Jobs : /\ replySent[j] => deliveries[j] > 0
                     /\ \A n \in Attempt : pc[j][n] = "sent" => deliveries[j] > 0

\* A step that neither sends nor records a sent reply.
LEMMA SentFrame ==
  ASSUME SentInv, TypeOK', UNCHANGED replySent, \A i \in Jobs : deliveries'[i] >= deliveries[i],
         \A i \in Jobs, n \in Attempt : pc'[i][n] = "sent" => pc[i][n] = "sent"
  PROVE  SentInv'
<1>1. \A i \in Jobs : deliveries[i] \in Nat /\ deliveries'[i] \in Nat
  BY DEF SentInv, TypeOK
<1> QED
  BY <1>1 DEF SentInv

\* Every step keeps what replySent says true.
LEMMA SentStep == SentInv /\ [Next]_vars => SentInv'
<1> SUFFICES ASSUME SentInv, [Next]_vars PROVE SentInv'
  OBVIOUS
<1>0. TypeOK /\ TypeOK'
  BY TypeStep DEF SentInv
<1>1. ASSUME UNCHANGED <<replySent, deliveries, pc>> PROVE SentInv'
  <2>1. \A i \in Jobs : deliveries[i] \in Nat
    BY <1>0 DEF TypeOK
  <2>2. \A i \in Jobs : deliveries'[i] >= deliveries[i]
    BY <1>1, <2>1
  <2> QED
    BY <1>0, <1>1, <2>2, SentFrame
<1>2. ASSUME NEW j \in Jobs, NEW n \in Attempt, NEW to \in RunPc \ {"sent"},
             UNCHANGED <<replySent, deliveries>>, pc' = [pc EXCEPT ![j][n] = to]
      PROVE  SentInv'
  <2>1. \A i \in Jobs : deliveries[i] \in Nat
    BY <1>0 DEF TypeOK
  <2>2. \A i \in Jobs : deliveries'[i] >= deliveries[i]
    BY <1>2, <2>1
  <2>3. \A i \in Jobs, m \in Attempt : pc'[i][m] = "sent" => pc[i][m] = "sent"
    BY <1>0, <1>2 DEF TypeOK
  <2> QED
    BY <1>0, <1>2, <2>2, <2>3, SentFrame
<1>3. ASSUME NEW p \in Procs, NEW j \in Jobs, Claim(p, j) PROVE SentInv'
  <2>1. attempts[j] + 1 \in Attempt
    BY <1>0, <1>3 DEF Claim, TypeOK
  <2>2. /\ "executing" \in RunPc \ {"sent"} /\ UNCHANGED <<replySent, deliveries>>
        /\ pc' = [pc EXCEPT ![j][attempts[j] + 1] = "executing"]
    BY <1>3 DEF Claim, SetRunning, RunPc, PreSend
  <2> QED
    BY <2>1, <2>2, <1>2
<1>4. ASSUME NEW p \in Procs, NEW j \in Jobs, Enqueue(p, j) \/ ClaimLost(p, j) \/ RejectInvalid(p, j)
      PROVE  SentInv'
  <2>1. UNCHANGED <<replySent, deliveries, pc>>
    BY <1>4 DEF Enqueue, ClaimLost, RejectInvalid, Attempted, SetRunning, SetFailed, row, runs
  <2> QED
    BY <2>1, <1>1
<1>5. ASSUME NEW j \in Jobs, NEW n \in Attempt, RunStep(j, n) PROVE SentInv'
  <2>1. CASE NoReply(j, n) \/ Reply(j, n) \/ RunFails(j, n) \/ DecideRetry(j, n)
    <3>1. PICK to \in RunPc \ {"sent"} : pc' = [pc EXCEPT ![j][n] = to]
      BY <2>1 DEF NoReply, Reply, RunFails, DecideRetry, Step, RunPc, PreSend, Finishing
    <3>2. UNCHANGED <<replySent, deliveries>>
      BY <2>1 DEF NoReply, Reply, RunFails, DecideRetry, Step, row
    <3> QED
      BY <3>1, <3>2, <1>2
  <2>2. CASE Deliver(j, n)
    <3>1. deliveries \in [Jobs -> Nat] /\ pc \in [Jobs -> [Attempt -> RunPc]]
      BY <1>0 DEF TypeOK
    <3>2. /\ UNCHANGED replySent /\ pc' = [pc EXCEPT ![j][n] = "sent"]
          /\ deliveries' = [deliveries EXCEPT ![j] = @ + 1]
      BY <2>2 DEF Deliver, Step, row
    <3>3. deliveries'[j] > 0 /\ \A i \in Jobs \ {j} : deliveries'[i] = deliveries[i]
      BY <3>1, <3>2
    <3>4. \A i \in Jobs \ {j} : pc'[i] = pc[i]
      BY <3>1, <3>2
    <3> QED
      BY <1>0, <3>2, <3>3, <3>4 DEF SentInv
  <2>3. CASE DeliveryFails(j, n)
    <3>1. deliveries \in [Jobs -> Nat] /\ pc \in [Jobs -> [Attempt -> RunPc]]
      BY <1>0 DEF TypeOK
    <3>2. UNCHANGED replySent /\ pc' = [pc EXCEPT ![j][n] = "unsent"]
      BY <2>3 DEF DeliveryFails, Step, row
    <3>3. PICK d \in {0, 1} : deliveries' = [deliveries EXCEPT ![j] = @ + d]
      BY <2>3 DEF DeliveryFails
    <3>4. \A i \in Jobs : deliveries'[i] >= deliveries[i]
      BY <3>1, <3>3
    <3>5. \A i \in Jobs, m \in Attempt : pc'[i][m] = "sent" => pc[i][m] = "sent"
      BY <3>1, <3>2
    <3> QED
      BY <1>0, <3>2, <3>4, <3>5, SentFrame
  <2>4. CASE MarkCompleted(j, n)
    <3>1. UNCHANGED deliveries /\ pc' = [pc EXCEPT ![j][n] = "over"]
      BY <2>4 DEF MarkCompleted, EndRun
    <3>2. \A i \in Jobs, m \in Attempt : pc'[i][m] = "sent" => pc[i][m] = "sent"
      BY <1>0, <3>1 DEF TypeOK
    <3>3. \/ UNCHANGED replySent
          \/ replySent' = [replySent EXCEPT ![j] = (pc[j][n] = "sent")]
      BY <2>4 DEF MarkCompleted, Attempted, SetCompleted, row
    <3>4. \A i \in Jobs : replySent'[i] => replySent[i] \/ (i = j /\ pc[j][n] = "sent")
      BY <1>0, <3>3 DEF TypeOK
    <3> QED
      BY <1>0, <3>1, <3>2, <3>4 DEF SentInv
  <2>5. CASE MarkRetrying(j, n) \/ MarkFailed(j, n)
    <3>1. UNCHANGED <<replySent, deliveries>> /\ pc' = [pc EXCEPT ![j][n] = "over"]
      BY <2>5 DEF MarkRetrying, MarkFailed, Attempted, SetRetrying, SetFailed, EndRun, row
    <3> QED
      BY <3>1, <1>2 DEF RunPc
  <2> QED
    BY <1>5, <2>1, <2>2, <2>3, <2>4, <2>5 DEF RunStep
<1>6. ASSUME NEW p \in Procs, Sweep(p) \/ Restart(p) PROVE SentInv'
  <2>1. UNCHANGED <<replySent, deliveries, pc>>
    BY <1>6 DEF Sweep, Restart, row, runs
  <2> QED
    BY <2>1, <1>1
<1>7. ASSUME NEW p \in Procs, Crash(p) PROVE SentInv'
  <2>1. UNCHANGED <<replySent, deliveries>>
    BY <1>7 DEF Crash, row
  <2>2. \A i \in Jobs : deliveries[i] \in Nat
    BY <1>0 DEF TypeOK
  <2>3. \A i \in Jobs : deliveries'[i] >= deliveries[i]
    BY <2>1, <2>2
  <2>4. \A i \in Jobs, m \in Attempt : pc'[i][m] = "sent" => pc[i][m] = "sent"
    BY <1>7 DEF Crash
  <2> QED
    BY <1>0, <2>1, <2>3, <2>4, SentFrame
<1>8. ASSUME NEW j \in Jobs, Expire(j) PROVE SentInv'
  <2>1. UNCHANGED <<replySent, deliveries, pc>>
    BY <1>8 DEF Expire, runs
  <2> QED
    BY <2>1, <1>1
<1>9. CASE UNCHANGED vars
  <2>1. UNCHANGED <<replySent, deliveries, pc>>
    BY <1>9 DEF vars, row, runs
  <2> QED
    BY <2>1, <1>1
<1> QED
  BY <1>3, <1>4, <1>5, <1>6, <1>7, <1>8, <1>9 DEF Next

\* Even when runs outlive their leases and overwrite each other's result, a row
\* that claims its reply was sent is never wrong.
THEOREM ReplySentHolds == Spec => []ReplySentIsTrue
<1>1. Init => SentInv
  BY TypeInit DEF Init, SentInv
<1>2. SentInv => ReplySentIsTrue
  BY DEF SentInv, ReplySentIsTrue
<1> QED
  BY <1>1, <1>2, SentStep, PTL DEF Spec

-----------------------------------------------------------------------------
(* Settled jobs.                                                           *)

\* Writes that report a finished run, a retry or a failure only ever meet a row
\* that is still running: theirs.
LEMMA SettledStep ==
  ASSUME IndInv, [Next]_vars, NEW j \in Parseable, Settled(j)
  PROVE  status'[j] = status[j]
<1>0. TypeOK /\ JobInv(j) /\ ~Claimable(j) /\ status[j] # "absent"
  BY DEF IndInv, Settled, Claimable
<1>1. \A n \in Attempt : ~Live(j, n)
  BY <1>0 DEF JobInv, ClaimHeld, Settled
<1>2. ASSUME NEW p \in Procs, NEW i \in Jobs,
             Enqueue(p, i) \/ Claim(p, i) \/ ClaimLost(p, i) \/ RejectInvalid(p, i)
      PROVE  status'[j] = status[j]
  <2>1. CASE Enqueue(p, i)
    BY <1>0, <2>1 DEF Enqueue, TypeOK
  <2>2. CASE Claim(p, i)
    BY <1>0, <2>2 DEF Claim, SetRunning, TypeOK
  <2>3. CASE ClaimLost(p, i)
    BY <1>0, <2>3 DEF ClaimLost, SetRunning, TypeOK, row
  <2>4. CASE RejectInvalid(p, i)
    <3>1. i # j
      BY <2>4 DEF RejectInvalid, IndInv
    <3> QED
      BY <1>0, <2>4, <3>1 DEF RejectInvalid, Attempted, SetFailed, TypeOK, row
  <2> QED
    BY <1>2, <2>1, <2>2, <2>3, <2>4
<1>3. ASSUME NEW i \in Jobs, NEW n \in Attempt, RunStep(i, n) PROVE status'[j] = status[j]
  <2>1. CASE \/ NoReply(i, n) \/ Reply(i, n) \/ RunFails(i, n)
             \/ Deliver(i, n) \/ DeliveryFails(i, n) \/ DecideRetry(i, n)
    BY <2>1 DEF NoReply, Reply, RunFails, Deliver, DeliveryFails, DecideRetry, Step, row
  <2>2. CASE MarkCompleted(i, n) \/ MarkRetrying(i, n) \/ MarkFailed(i, n)
    <3>1. i # j
      BY <1>1, <2>2 DEF MarkCompleted, MarkRetrying, MarkFailed, Live, PreSend
    <3> QED
      BY <1>0, <2>2, <3>1 DEF MarkCompleted, MarkRetrying, MarkFailed, Attempted, SetCompleted,
                              SetRetrying, SetFailed, TypeOK, row
  <2> QED
    BY <1>3, <2>1, <2>2 DEF RunStep
<1>4. ASSUME NEW p \in Procs, Sweep(p) \/ Crash(p) \/ Restart(p) PROVE status'[j] = status[j]
  BY <1>4 DEF Sweep, Crash, Restart, row
<1>5. ASSUME NEW i \in Jobs, Expire(i) PROVE status'[j] = status[j]
  BY <1>5 DEF Expire
<1>6. CASE UNCHANGED vars
  BY <1>6 DEF vars, row
<1> QED
  BY <1>2, <1>3, <1>4, <1>5, <1>6 DEF Next

\* No retry timer, sweep or late result of another process reopens or overwrites
\* a job that was completed or failed.
THEOREM SettledJobsStay == RunsWithinLease => (Spec => SettledStays)
<1> SUFFICES ASSUME RunsWithinLease PROVE Spec => SettledStays
  OBVIOUS
<1>1. IndInv /\ [Next]_vars => [\A j \in Parseable : Settled(j) => status'[j] = status[j]]_vars
  BY SettledStep
<1> QED
  BY <1>1, Inductive, PTL DEF Spec, SettledStays

-----------------------------------------------------------------------------
(* The protocol implements JobLedger: every step of it is a step of the    *)
(* ledger or leaves the ledger's two variables alone.                      *)

Same(j) == phaseOf(j)' = phaseOf(j) /\ holderOf(j)' = holderOf(j)

\* A job whose row and runs a step leaves alone looks the same to the ledger.
LEMMA SameRow ==
  ASSUME NEW j \in Jobs, status'[j] = status[j], attempts'[j] = attempts[j],
         pc'[j] = pc[j], owner'[j] = owner[j]
  PROVE  Same(j)
<1>1. HasRun(j)' <=> HasRun(j)
  BY DEF HasRun, Live
<1>2. phaseOf(j)' = phaseOf(j)
  BY <1>1 DEF phaseOf, Settled
<1>3. holderOf(j)' = holderOf(j)
  BY <1>1 DEF holderOf
<1> QED
  BY <1>2, <1>3 DEF Same

\* What the ledger sees of a job with and without a run.
LEMMA HeldView ==
  ASSUME IndInv, NEW j \in Parseable, NEW n \in Attempt, Live(j, n)
  PROVE  phaseOf(j) = "held" /\ holderOf(j) = owner[j][n]
<1>1. status[j] = "running" /\ n = attempts[j] /\ HasRun(j)
  BY LiveRun DEF HasRun
<1> QED
  BY <1>1 DEF phaseOf, holderOf, Settled

\* How a job without a run looks in the ledger.
LEMMA FreeView ==
  ASSUME NEW j \in Jobs, ~HasRun(j)
  PROVE  /\ holderOf(j) = NoProc
         /\ status[j] = "absent" => phaseOf(j) = "none"
         /\ Settled(j) => phaseOf(j) = status[j]
         /\ Unsettled(j) => phaseOf(j) = "queued"
BY DEF phaseOf, holderOf, Settled, Unsettled

\* If every job looks the same, the ledger stutters.
LEMMA Stutter ==
  ASSUME \A i \in Parseable : Same(i)
  PROVE  UNCHANGED Ledger!ledger
BY DEF Same, Ledger!ledger

\* A step that touches one job changes the ledger at that job only.
LEMMA Changed ==
  ASSUME NEW j \in Parseable, \A i \in Parseable \ {j} : Same(i)
  PROVE  /\ [i \in Parseable |-> phaseOf(i)'] =
              [[i \in Parseable |-> phaseOf(i)] EXCEPT ![j] = phaseOf(j)']
         /\ [i \in Parseable |-> holderOf(i)'] =
              [[i \in Parseable |-> holderOf(i)] EXCEPT ![j] = holderOf(j)']
BY DEF Same

\* The initial state is one of the ledger.
LEMMA LedgerInit == Init => Ledger!Init
<1> SUFFICES ASSUME Init PROVE Ledger!Init
  OBVIOUS
<1>1. \A j \in Jobs : ~HasRun(j) /\ status[j] = "absent"
  BY DEF Init, HasRun, Live, PreSend, Finishing
<1>2. \A j \in Jobs : phaseOf(j) = "none" /\ holderOf(j) = NoProc
  BY <1>1, FreeView
<1> QED
  BY <1>2 DEF Ledger!Init

\* Jobs other than the one a run or a claim belongs to look the same.
LEMMA Others ==
  ASSUME NEW j \in Jobs,
         \A i \in Jobs \ {j} : /\ status'[i] = status[i] /\ attempts'[i] = attempts[i]
                              /\ pc'[i] = pc[i] /\ owner'[i] = owner[i]
  PROVE  \A i \in Parseable \ {j} : Same(i)
BY SameRow

\* Enqueueing a job submits it.
LEMMA SubmitStep ==
  ASSUME IndInv, NEW p \in Procs, NEW j \in Jobs, Enqueue(p, j)
  PROVE  [Ledger!Next]_(Ledger!ledger)
<1>0. TypeOK /\ JobInv(j)
  BY DEF IndInv
<1>1. /\ status[j] = "absent" /\ status' = [status EXCEPT ![j] = "pending"]
      /\ UNCHANGED <<attempts, pc, owner>>
  BY DEF Enqueue, runs
<1>2. \A i \in Parseable \ {j} : Same(i)
  BY <1>0, <1>1, Others DEF TypeOK
<1>3. CASE j \notin Parseable
  BY <1>2, <1>3, Stutter
<1>4. CASE j \in Parseable
  <2>1. ~HasRun(j) /\ ~HasRun(j)'
    BY <1>0, <1>1 DEF JobInv, ClaimHeld, HasRun, Live
  <2>2. phaseOf(j) = "none" /\ holderOf(j) = NoProc
    BY <1>1, <2>1, FreeView
  <2>3. status'[j] = "pending"
    BY <1>0, <1>1 DEF TypeOK
  <2>4. phaseOf(j)' = "queued" /\ holderOf(j)' = NoProc
    BY <2>1, <2>3 DEF phaseOf, holderOf, Settled
  <2>5. Ledger!Submit(j)
    BY <1>2, <1>4, <2>2, <2>4, Changed DEF Ledger!Submit
  <2> QED
    BY <1>4, <2>5 DEF Ledger!Next
<1> QED
  BY <1>3, <1>4

\* A claim takes the job from the queue.
LEMMA TakeStep ==
  ASSUME IndInv, IndInv', NEW p \in Procs, NEW j \in Jobs, Claim(p, j)
  PROVE  [Ledger!Next]_(Ledger!ledger)
<1> DEFINE n == attempts[j] + 1
<1>0. TypeOK
  BY DEF IndInv
<1>1. /\ Claimable(j) /\ attempts[j] < MaxClaims
      /\ status' = [status EXCEPT ![j] = "running"] /\ attempts' = [attempts EXCEPT ![j] = n]
      /\ pc' = [pc EXCEPT ![j][n] = "executing"] /\ owner' = [owner EXCEPT ![j][n] = p]
  BY DEF Claim, SetRunning
<1>2. n \in Attempt
  BY <1>0, <1>1 DEF TypeOK
<1>3. \A i \in Parseable \ {j} : Same(i)
  BY <1>0, <1>1, Others DEF TypeOK
<1>4. CASE j \notin Parseable
  BY <1>3, <1>4, Stutter
<1>5. CASE j \in Parseable
  <2>1. ~HasRun(j) /\ Unsettled(j)
    BY <1>1, ClaimableIsFree DEF Claimable, Unsettled
  <2>2. phaseOf(j) = "queued" /\ holderOf(j) = NoProc
    BY <2>1, FreeView
  <2>3. pc'[j][n] = "executing" /\ owner'[j][n] = p /\ status'[j] = "running" /\ attempts'[j] = n
    BY <1>0, <1>1, <1>2 DEF TypeOK
  <2>4. HasRun(j)'
    BY <1>2, <2>3 DEF HasRun, Live, PreSend
  <2>5. phaseOf(j)' = "held" /\ holderOf(j)' = p
    BY <2>3, <2>4 DEF phaseOf, holderOf, Settled
  <2>6. Ledger!Take(j, p)
    BY <1>3, <1>5, <2>2, <2>5, Changed DEF Ledger!Take
  <2> QED
    BY <1>5, <2>6 DEF Ledger!Next
<1> QED
  BY <1>4, <1>5

\* A claim whose answer was lost leaves a running row nobody runs: still queued.
LEMMA LostStep ==
  ASSUME IndInv, NEW p \in Procs, NEW j \in Jobs, ClaimLost(p, j)
  PROVE  [Ledger!Next]_(Ledger!ledger)
<1>0. TypeOK /\ UNCHANGED <<pc, owner>>
  BY DEF IndInv, ClaimLost, runs
<1>1. CASE UNCHANGED row
  <2>1. \A i \in Parseable : Same(i)
    BY <1>0, <1>1, SameRow DEF row
  <2> QED
    BY <2>1, Stutter
<1>2. CASE Claimable(j) /\ SetRunning(j)
  <2>1. \A i \in Parseable \ {j} : Same(i)
    BY <1>0, <1>2, Others DEF TypeOK, SetRunning
  <2>2. ~HasRun(j) /\ Unsettled(j)
    BY <1>2, ClaimableIsFree DEF Claimable, Unsettled
  <2>3. ~HasRun(j)'
    BY <1>0, <2>2 DEF HasRun, Live
  <2>4. status'[j] = "running"
    BY <1>0, <1>2 DEF TypeOK, SetRunning
  <2>5. Same(j)
    <3>1. phaseOf(j) = "queued" /\ holderOf(j) = NoProc
      BY <2>2, FreeView
    <3>2. phaseOf(j)' = "queued" /\ holderOf(j)' = NoProc
      BY <2>3, <2>4 DEF phaseOf, holderOf, Settled
    <3> QED
      BY <3>1, <3>2 DEF Same
  <2> QED
    BY <2>1, <2>5, Stutter
<1> QED
  BY <1>1, <1>2 DEF ClaimLost

\* Rejecting an unparseable job is no step of the ledger, which has only the others.
LEMMA RejectedStep ==
  ASSUME IndInv, NEW p \in Procs, NEW j \in Jobs, RejectInvalid(p, j)
  PROVE  [Ledger!Next]_(Ledger!ledger)
<1>0. TypeOK /\ UNCHANGED <<pc, owner>> /\ j \notin Parseable
  BY DEF IndInv, RejectInvalid, runs
<1>1. \A i \in Jobs \ {j} : status'[i] = status[i] /\ attempts'[i] = attempts[i]
  BY <1>0 DEF TypeOK, RejectInvalid, Attempted, SetFailed, row
<1>2. \A i \in Parseable : Same(i)
  BY <1>0, <1>1, SameRow
<1> QED
  BY <1>2, Stutter

\* A run that moves on still holds its job.
LEMMA HoldStep ==
  ASSUME IndInv, IndInv', NEW j \in Jobs, NEW n \in Attempt,
         Live(j, n), Live(j, n)', UNCHANGED <<row, owner>>,
         \A i \in Jobs \ {j} : pc'[i] = pc[i]
  PROVE  [Ledger!Next]_(Ledger!ledger)
<1>1. \A i \in Parseable \ {j} : Same(i)
  BY Others DEF row
<1>2. j \in Parseable => Same(j)
  <2> SUFFICES ASSUME j \in Parseable PROVE Same(j)
    OBVIOUS
  <2>1. phaseOf(j) = "held" /\ holderOf(j) = owner[j][n]
    BY HeldView
  <2>2. HasRun(j)' /\ n = attempts[j] /\ status[j] = "running"
    BY LiveRun DEF HasRun
  <2>3. phaseOf(j)' = "held" /\ holderOf(j)' = owner[j][n]
    BY <2>2 DEF phaseOf, holderOf, Settled, row
  <2> QED
    BY <2>1, <2>3 DEF Same
<1> QED
  BY <1>1, <1>2, Stutter

\* A run that ends finishes its job or, failing that, returns it to the queue.
LEMMA CloseStep ==
  ASSUME IndInv, NEW j \in Jobs, NEW n \in Attempt, Live(j, n), EndRun(j, n),
         UNCHANGED attempts, \A i \in Jobs \ {j} : status'[i] = status[i],
         status'[j] \in {status[j], "completed", "failed", "retrying"}
  PROVE  [Ledger!Next]_(Ledger!ledger)
<1>0. TypeOK
  BY DEF IndInv
<1>1. pc'[j][n] = "over" /\ \A m \in Attempt \ {n} : pc'[j][m] = pc[j][m] /\ ~Live(j, m)
  BY <1>0, LiveRun DEF EndRun, TypeOK
<1>2. ~HasRun(j)'
  BY <1>1 DEF HasRun, Live, PreSend, Finishing
<1>3. \A i \in Parseable \ {j} : Same(i)
  BY <1>0, Others DEF TypeOK, EndRun
<1>4. CASE j \notin Parseable
  BY <1>3, <1>4, Stutter
<1>5. CASE j \in Parseable
  <2>1. phaseOf(j) = "held" /\ holderOf(j) = owner[j][n] /\ status[j] = "running"
    BY <1>5, HeldView, LiveRun
  <2>2. CASE status'[j] \in {"completed", "failed"}
    <3>1. phaseOf(j)' = status'[j] /\ holderOf(j)' = NoProc
      BY <1>2, <2>2 DEF phaseOf, holderOf, Settled
    <3>2. Ledger!Finish(j, status'[j])
      BY <1>3, <1>5, <2>1, <3>1, Changed DEF Ledger!Finish
    <3> QED
      BY <1>5, <2>2, <3>2 DEF Ledger!Next, Ledger!Outcome
  <2>3. CASE status'[j] \in {"running", "retrying"}
    <3>1. phaseOf(j)' = "queued" /\ holderOf(j)' = NoProc
      BY <1>2, <2>3 DEF phaseOf, holderOf, Settled
    <3>2. Ledger!Release({j})
      BY <1>3, <1>5, <2>1, <3>1 DEF Ledger!Release, Same
    <3>3. {j} \in SUBSET Parseable
      BY <1>5
    <3> QED
      BY <3>2, <3>3 DEF Ledger!Next
  <2> QED
    BY <2>1, <2>2, <2>3
<1> QED
  BY <1>4, <1>5

\* A crash returns all the jobs its process held.
LEMMA ReleaseStep ==
  ASSUME IndInv, NEW p \in Procs, Crash(p)
  PROVE  [Ledger!Next]_(Ledger!ledger)
<1> DEFINE S == {j \in Parseable : phaseOf(j) = "held" /\ holderOf(j) = p}
<1>0. TypeOK /\ p # NoProc
  BY DEF IndInv
<1>1. UNCHANGED <<status, attempts>>
  BY DEF Crash, row
<1>2. \A j \in Jobs, n \in Attempt :
        /\ pc'[j][n] = IF owner[j][n] = p THEN "over" ELSE pc[j][n]
        /\ owner'[j][n] = IF owner[j][n] = p THEN NoProc ELSE owner[j][n]
  BY DEF Crash
<1>3. ASSUME NEW j \in S PROVE phaseOf(j)' = "queued" /\ holderOf(j)' = NoProc
  <2>1. HasRun(j) /\ status[j] = "running" /\ owner[j][attempts[j]] = p
    BY <1>0, <1>3 DEF phaseOf, holderOf, Settled
  <2>2. \A n \in Attempt : ~Live(j, n)'
    <3> SUFFICES ASSUME NEW n \in Attempt, Live(j, n)' PROVE FALSE
      OBVIOUS
    <3>1. Live(j, n) /\ owner[j][n] # p
      BY <1>2 DEF Live, PreSend, Finishing
    <3> QED
      BY <2>1, <3>1, LiveRun
  <2> QED
    BY <1>1, <2>1, <2>2 DEF phaseOf, holderOf, HasRun, Settled
<1>4. ASSUME NEW j \in Parseable \ S PROVE Same(j)
  <2>1. CASE HasRun(j)
    <3>1. PICK n \in Attempt : Live(j, n)
      BY <2>1 DEF HasRun
    <3>2. phaseOf(j) = "held" /\ holderOf(j) = owner[j][n] /\ n = attempts[j] /\ status[j] = "running"
      BY <3>1, HeldView, LiveRun
    <3>3. pc'[j][n] = pc[j][n] /\ owner'[j][n] = owner[j][n]
      BY <1>2, <1>4, <3>2
    <3>4. HasRun(j)'
      BY <3>1, <3>3 DEF HasRun, Live
    <3>5. phaseOf(j)' = "held" /\ holderOf(j)' = owner[j][n]
      BY <1>1, <3>2, <3>3, <3>4 DEF phaseOf, holderOf, Settled
    <3> QED
      BY <3>2, <3>5 DEF Same
  <2>2. CASE ~HasRun(j)
    <3>1. ~HasRun(j)'
      BY <1>2, <2>2 DEF HasRun, Live, PreSend, Finishing
    <3> QED
      BY <1>1, <2>2, <3>1 DEF Same, phaseOf, holderOf, Settled
  <2> QED
    BY <2>1, <2>2
<1>5. Ledger!Release(S)
  BY <1>3, <1>4 DEF Ledger!Release, Same
<1> QED
  BY <1>5 DEF Ledger!Next

\* What a run does is finish or release its job, or nothing the ledger sees.
LEMMA RunLedgerStep ==
  ASSUME IndInv, IndInv', NEW j \in Jobs, NEW n \in Attempt, RunStep(j, n)
  PROVE  [Ledger!Next]_(Ledger!ledger)
<1>0. TypeOK
  BY DEF IndInv
<1>1. ASSUME NEW from \in PreSend, NEW to \in PreSend \cup Finishing, Step(j, n, from, to)
      PROVE  [Ledger!Next]_(Ledger!ledger)
  <2>1. /\ UNCHANGED <<row, owner>> /\ pc[j][n] = from
        /\ pc' = [pc EXCEPT ![j][n] = to]
    BY <1>1 DEF Step
  <2>2. pc'[j][n] = to /\ \A i \in Jobs \ {j} : pc'[i] = pc[i]
    BY <1>0, <2>1 DEF TypeOK
  <2>3. Live(j, n) /\ Live(j, n)'
    BY <2>1, <2>2 DEF Live
  <2> QED
    BY <2>1, <2>2, <2>3, HoldStep
<1>2. CASE \/ NoReply(j, n) \/ Reply(j, n) \/ RunFails(j, n)
           \/ Deliver(j, n) \/ DeliveryFails(j, n) \/ DecideRetry(j, n)
  <2>1. PICK from \in PreSend, to \in PreSend \cup Finishing : Step(j, n, from, to)
    <3>1. {"executing", "replying", "failed", "retrying", "givingUp"} \subseteq PreSend
      BY DEF PreSend
    <3>2. {"sent", "unsent", "noReply"} \subseteq Finishing
      BY DEF Finishing
    <3>3. CASE NoReply(j, n)
      BY <3>1, <3>2, <3>3 DEF NoReply
    <3>4. CASE Reply(j, n)
      BY <3>1, <3>2, <3>4 DEF Reply
    <3>5. CASE RunFails(j, n)
      BY <3>1, <3>2, <3>5 DEF RunFails
    <3>6. CASE Deliver(j, n)
      BY <3>1, <3>2, <3>6 DEF Deliver
    <3>7. CASE DeliveryFails(j, n)
      BY <3>1, <3>2, <3>7 DEF DeliveryFails
    <3>8. CASE DecideRetry(j, n)
      BY <3>1, <3>2, <3>8 DEF DecideRetry
    <3> QED
      BY <1>2, <3>3, <3>4, <3>5, <3>6, <3>7, <3>8
  <2> QED
    BY <2>1, <1>1
<1>3. CASE MarkCompleted(j, n) \/ MarkRetrying(j, n) \/ MarkFailed(j, n)
  <2>1. Live(j, n) /\ EndRun(j, n)
    BY <1>3 DEF MarkCompleted, MarkRetrying, MarkFailed, Live, PreSend, Finishing
  <2>2. UNCHANGED attempts /\ \A i \in Jobs \ {j} : status'[i] = status[i]
    BY <1>0, <1>3 DEF MarkCompleted, MarkRetrying, MarkFailed, Attempted, SetCompleted,
                      SetRetrying, SetFailed, row, TypeOK
  <2>3. status'[j] \in {status[j], "completed", "failed", "retrying"}
    BY <1>0, <1>3 DEF MarkCompleted, MarkRetrying, MarkFailed, Attempted, SetCompleted,
                      SetRetrying, SetFailed, row, TypeOK
  <2> QED
    BY <2>1, <2>2, <2>3, CloseStep
<1> QED
  BY <1>2, <1>3 DEF RunStep

\* Every step of the protocol is a step of the ledger or leaves it as it is.
LEMMA LedgerStep ==
  ASSUME IndInv, IndInv', [Next]_vars
  PROVE  [Ledger!Next]_(Ledger!ledger)
<1>1. ASSUME UNCHANGED <<row, pc, owner>> PROVE [Ledger!Next]_(Ledger!ledger)
  <2>1. \A i \in Parseable : Same(i)
    BY <1>1, SameRow DEF row
  <2> QED
    BY <2>1, Stutter
<1>2. ASSUME NEW p \in Procs, NEW j \in Jobs, Enqueue(p, j) PROVE [Ledger!Next]_(Ledger!ledger)
  BY <1>2, SubmitStep
<1>3. ASSUME NEW p \in Procs, NEW j \in Jobs, Claim(p, j) PROVE [Ledger!Next]_(Ledger!ledger)
  BY <1>3, TakeStep
<1>4. ASSUME NEW p \in Procs, NEW j \in Jobs, ClaimLost(p, j) PROVE [Ledger!Next]_(Ledger!ledger)
  BY <1>4, LostStep
<1>5. ASSUME NEW p \in Procs, NEW j \in Jobs, RejectInvalid(p, j) PROVE [Ledger!Next]_(Ledger!ledger)
  BY <1>5, RejectedStep
<1>6. ASSUME NEW p \in Procs, Sweep(p) \/ Restart(p) PROVE [Ledger!Next]_(Ledger!ledger)
  BY <1>1, <1>6 DEF Sweep, Restart, runs
<1>7. ASSUME NEW p \in Procs, Crash(p) PROVE [Ledger!Next]_(Ledger!ledger)
  BY <1>7, ReleaseStep
<1>8. ASSUME NEW j \in Jobs, Expire(j) PROVE [Ledger!Next]_(Ledger!ledger)
  <2>1. UNCHANGED <<status, attempts, pc, owner>>
    BY <1>8 DEF Expire, runs
  <2>2. \A i \in Parseable : Same(i)
    BY <2>1, SameRow
  <2> QED
    BY <2>2, Stutter
<1>9. CASE UNCHANGED vars
  BY <1>1, <1>9 DEF vars, runs
<1>10. ASSUME NEW j \in Jobs, NEW n \in Attempt, RunStep(j, n) PROVE [Ledger!Next]_(Ledger!ledger)
  BY <1>10, RunLedgerStep
<1> QED
  BY <1>2, <1>3, <1>4, <1>5, <1>6, <1>7, <1>8, <1>9, <1>10 DEF Next

\* The protocol of leases, sweeps and retry timers is a job ledger: a parseable
\* job is held by one process at a time, finished by its holder only, returned
\* to the queue by a failed run or a dead process, and never touched again.
THEOREM LedgerImplemented == RunsWithinLease => (Spec => Ledger!Safety)
<1> SUFFICES ASSUME RunsWithinLease PROVE Spec => Ledger!Safety
  OBVIOUS
<1>1. Init => Ledger!Init
  BY LedgerInit
<1>2. IndInv /\ IndInv' /\ [Next]_vars => [Ledger!Next]_(Ledger!ledger)
  BY LedgerStep
<1> QED
  BY <1>1, <1>2, Inductive, PTL DEF Spec, Ledger!Safety

-----------------------------------------------------------------------------
(* The intake.                                                             *)

HIDE EmailJobsAssumption DEF EmailJobsAssumption, Jobs, Attempt, Parseable
USE EmailIntakeAssumption DEF EmailIntakeAssumption, Requests

\* Every step keeps the variables in their types.
LEMMA IntakeTypesStep == IntakeTypeOK /\ [IntakeNext]_intakeVars => IntakeTypeOK'
<1> SUFFICES ASSUME IntakeTypeOK, [IntakeNext]_intakeVars PROVE IntakeTypeOK'
  OBVIOUS
<1> USE DEF IntakeTypeOK, RequestPc, InFlightPc, request
<1>1. ASSUME NEW r \in Requests, NEW s \in Servers, NEW e \in Emails, DropCached(r, s, e)
      PROVE  IntakeTypeOK'
  BY <1>1 DEF DropCached, Arrives
<1>2. ASSUME NEW r \in Requests, NEW s \in Servers, NEW e \in Emails, Track(r, s, e)
      PROVE  IntakeTypeOK'
  BY <1>2 DEF Track, Arrives
<1>3. ASSUME NEW r \in Requests, CheckRecorded(r) PROVE IntakeTypeOK'
  BY <1>3 DEF CheckRecorded, Moves, Fault
<1>4. ASSUME NEW r \in Requests, FindJob(r) PROVE IntakeTypeOK'
  <2>1. UNCHANGED <<email, server, cache, job, recorded>> /\ at' \in [Requests -> RequestPc]
    BY <1>4 DEF FindJob, Moves
  <2>2. faults' \in 0..MaxFaults
    BY <1>4 DEF FindJob, Fault
  <2> QED
    BY <2>1, <2>2
<1>5. ASSUME NEW r \in Requests, CreateJob(r) PROVE IntakeTypeOK'
  <2>1. UNCHANGED <<email, server, cache, recorded>> /\ at' \in [Requests -> RequestPc]
    BY <1>5 DEF CreateJob, Moves
  <2>2. job' \in [Requests -> {"none", "open", "completed", "failed"}]
    BY <1>5 DEF CreateJob
  <2>3. faults' \in 0..MaxFaults
    BY <1>5 DEF CreateJob, Fault
  <2> QED
    BY <2>1, <2>2, <2>3
<1>6. ASSUME NEW r \in Requests, FinishJob(r) PROVE IntakeTypeOK'
  BY <1>6 DEF FinishJob
<1>7. ASSUME NEW r \in Requests, RecordEmail(r) PROVE IntakeTypeOK'
  BY <1>7 DEF RecordEmail
<1>8. ASSUME NEW s \in Servers, ServerCrash(s) PROVE IntakeTypeOK'
  BY <1>8 DEF ServerCrash, Fault
<1>9. CASE UNCHANGED intakeVars
  BY <1>9 DEF intakeVars
<1> QED
  BY <1>1, <1>2, <1>3, <1>4, <1>5, <1>6, <1>7, <1>8, <1>9 DEF IntakeNext

\* The types hold at the start.
LEMMA IntakeTypesInit == IntakeInit => IntakeTypeOK
BY DEF IntakeInit, IntakeTypeOK, RequestPc

\* The variables of the intake always have their types.
THEOREM IntakeTypesHold == IntakeSpec => []IntakeTypeOK
BY IntakeTypesInit, IntakeTypesStep, PTL DEF IntakeSpec

-----------------------------------------------------------------------------
(* No e-mail vanishes.                                                     *)

Kept == IntakeTypeOK /\ NoJobYet /\ CachedWasReceived /\ ReceivedIsKept

\* An e-mail once accounted for stays so.
LEMMA StaysAccounted ==
  ASSUME Kept, [IntakeNext]_intakeVars, NEW e, Accounted(e)
  PROVE  Accounted(e)'
<1> USE DEF Accounted, InFlight, InFlightPc, Kept
<1>1. CASE e \in recorded
  <2>1. recorded \subseteq recorded'
    BY DEF IntakeNext, intakeVars, DropCached, Track, CheckRecorded, FindJob, CreateJob, FinishJob,
           RecordEmail, ServerCrash
  <2> QED
    BY <1>1, <2>1
<1>2. ASSUME NEW q \in Requests, email[q] = e, job[q] # "none" \/ InFlight(q) \/ at[q] = "lost"
      PROVE  Accounted(e)'
  <2>0. at[q] # "unsent" /\ IntakeTypeOK
    BY <1>2 DEF NoJobYet
  <2>1. ASSUME NEW r \in Requests, NEW s \in Servers, NEW f \in Emails,
               DropCached(r, s, f) \/ Track(r, s, f)
        PROVE  Accounted(e)'
    <3>1. r # q
      BY <2>0, <2>1 DEF DropCached, Track, Arrives
    <3>2. email'[q] = email[q] /\ at'[q] = at[q] /\ job' = job
      BY <2>0, <2>1, <3>1 DEF DropCached, Track, Arrives, IntakeTypeOK
    <3> QED
      BY <1>2, <3>2
  <2>2. ASSUME NEW r \in Requests, CheckRecorded(r) \/ FindJob(r) PROVE Accounted(e)'
    <3>1. UNCHANGED <<email, job, recorded>> /\ \A p \in Requests \ {r} : at'[p] = at[p]
      BY <2>0, <2>2 DEF CheckRecorded, FindJob, Moves, IntakeTypeOK
    <3>2. CASE q # r
      BY <1>2, <3>1, <3>2
    <3>3. CASE q = r
      BY <1>2, <2>0, <2>2, <3>1, <3>3
      DEF CheckRecorded, FindJob, HasJob, LiveJob, Moves, IntakeTypeOK
    <3> QED
      BY <3>2, <3>3
  <2>3. ASSUME NEW r \in Requests, CreateJob(r) PROVE Accounted(e)'
    BY <1>2, <2>0, <2>3 DEF CreateJob, Moves, IntakeTypeOK
  <2>4. ASSUME NEW r \in Requests, FinishJob(r) \/ RecordEmail(r) PROVE Accounted(e)'
    BY <1>2, <2>0, <2>4 DEF FinishJob, RecordEmail, request, IntakeTypeOK
  <2>5. ASSUME NEW s \in Servers, ServerCrash(s) PROVE Accounted(e)'
    BY <1>2, <2>0, <2>5 DEF ServerCrash, IntakeTypeOK
  <2>6. CASE UNCHANGED intakeVars
    BY <1>2, <2>6 DEF intakeVars, request
  <2> QED
    BY <2>1, <2>2, <2>3, <2>4, <2>5, <2>6 DEF IntakeNext
<1> QED
  BY <1>1, <1>2

\* No step makes a received e-mail vanish.
LEMMA KeptStep == Kept /\ [IntakeNext]_intakeVars => Kept'
<1> SUFFICES ASSUME Kept, [IntakeNext]_intakeVars PROVE Kept'
  OBVIOUS
<1>0. IntakeTypeOK /\ IntakeTypeOK' /\ NoJobYet /\ CachedWasReceived /\ ReceivedIsKept
  BY IntakeTypesStep DEF Kept
<1>1. ASSUME UNCHANGED email, \A r \in Requests : at'[r] # "unsent" => at[r] # "unsent"
      PROVE  ReceivedIsKept'
  <2> SUFFICES ASSUME NEW r \in Requests, at'[r] # "unsent" PROVE Accounted(email[r])'
    BY DEF ReceivedIsKept
  <2>1. Accounted(email[r])
    BY <1>0, <1>1 DEF ReceivedIsKept
  <2>2. PICK e : e = email[r]
    OBVIOUS
  <2>3. Accounted(e)'
    BY <2>1, <2>2, StaysAccounted
  <2> QED
    BY <1>1, <2>2, <2>3 DEF Accounted
<1>2. ASSUME UNCHANGED cache, \A r \in Requests : at[r] # "unsent" => at'[r] # "unsent"
      PROVE  CachedWasReceived'
  BY <1>0, <1>2 DEF CachedWasReceived, IntakeTypeOK
<1>3. ASSUME NEW r \in Requests, NEW s \in Servers, NEW e \in Emails,
             DropCached(r, s, e) \/ Track(r, s, e)
      PROVE  Kept'
  <2>1. /\ at[r] = "unsent" /\ email' = [email EXCEPT ![r] = e] /\ job' = job
        /\ at'[r] \in {"dropped"} \cup InFlightPc /\ \A q \in Requests \ {r} : at'[q] = at[q]
    BY <1>0, <1>3 DEF DropCached, Track, Arrives, InFlightPc, IntakeTypeOK
  <2>2. NoJobYet'
    BY <1>0, <2>1 DEF NoJobYet, InFlight, InFlightPc
  <2>3. \A s2 \in Servers : cache'[s2] \subseteq cache[s2] \cup {r}
    <3>1. CASE DropCached(r, s, e)
      BY <3>1 DEF DropCached
    <3>2. CASE Track(r, s, e)
      <4>1. PICK gone : cache' = [cache EXCEPT ![s] = (@ \cup {r}) \ gone]
        BY <3>2 DEF Track
      <4> QED
        BY <1>0, <4>1 DEF IntakeTypeOK
    <3> QED
      BY <1>3, <3>1, <3>2
  <2>4. CachedWasReceived'
    BY <1>0, <2>1, <2>3 DEF CachedWasReceived, InFlightPc, IntakeTypeOK
  <2>5. Accounted(e)'
    <3>1. CASE DropCached(r, s, e)
      <4>1. PICK q \in Requests : email[q] = e /\ at[q] # "unsent"
        BY <1>0, <3>1 DEF DropCached, Cached, CachedWasReceived, IntakeTypeOK
      <4>2. Accounted(e)
        BY <1>0, <4>1 DEF ReceivedIsKept
      <4> QED
        BY <4>2, StaysAccounted
    <3>2. CASE Track(r, s, e)
      <4>1. email'[r] = e /\ InFlight(r)'
        BY <1>0, <2>1, <3>2 DEF Track, InFlight, InFlightPc, IntakeTypeOK
      <4> QED
        BY <4>1 DEF Accounted
    <3> QED
      BY <1>3, <3>1, <3>2
  <2>6. ReceivedIsKept'
    <3> SUFFICES ASSUME NEW q \in Requests, at'[q] # "unsent" PROVE Accounted(email[q])'
      BY DEF ReceivedIsKept
    <3>1. CASE q = r
      <4>1. email'[q] = e
        BY <1>0, <2>1, <3>1 DEF IntakeTypeOK
      <4> QED
        BY <2>5, <4>1 DEF Accounted
    <3>2. CASE q # r
      <4>1. email'[q] = email[q] /\ at[q] # "unsent"
        BY <1>0, <2>1, <3>2 DEF IntakeTypeOK
      <4>2. PICK f : f = email[q]
        OBVIOUS
      <4>3. Accounted(f)
        BY <1>0, <4>1, <4>2 DEF ReceivedIsKept
      <4>4. Accounted(f)'
        BY <4>3, StaysAccounted
      <4> QED
        BY <4>1, <4>2, <4>4 DEF Accounted
    <3> QED
      BY <3>1, <3>2
  <2> QED
    BY <1>0, <2>2, <2>4, <2>6 DEF Kept
<1>4. ASSUME NEW r \in Requests, CheckRecorded(r) \/ FindJob(r) \/ CreateJob(r) PROVE Kept'
  <2>1. /\ InFlight(r) /\ UNCHANGED <<email, cache>> /\ at'[r] # "unsent"
        /\ \A q \in Requests \ {r} : at'[q] = at[q] /\ job'[q] = job[q]
    BY <1>0, <1>4 DEF CheckRecorded, FindJob, CreateJob, Moves, InFlight, InFlightPc, IntakeTypeOK
  <2>2. InFlight(r)' => job'[r] = job[r]
    BY <1>0, <1>4 DEF CheckRecorded, FindJob, CreateJob, Moves, InFlight, InFlightPc, IntakeTypeOK
  <2>3. NoJobYet'
    BY <1>0, <2>1, <2>2 DEF NoJobYet, InFlight
  <2>4. \A q \in Requests : at'[q] # "unsent" <=> at[q] # "unsent"
    BY <2>1 DEF InFlight, InFlightPc
  <2> QED
    BY <1>0, <1>1, <1>2, <2>1, <2>3, <2>4 DEF Kept
<1>5. ASSUME NEW r \in Requests, FinishJob(r) \/ RecordEmail(r) PROVE Kept'
  <2>1. /\ UNCHANGED <<at, email, cache>>
        /\ \A q \in Requests : job[q] = "none" => job'[q] = "none"
    BY <1>0, <1>5 DEF FinishJob, RecordEmail, request, IntakeTypeOK
  <2>2. NoJobYet'
    BY <1>0, <2>1 DEF NoJobYet, InFlight
  <2> QED
    BY <1>0, <1>1, <1>2, <2>1, <2>2 DEF Kept
<1>6. ASSUME NEW s \in Servers, ServerCrash(s) PROVE Kept'
  <2>1. UNCHANGED email /\ \A q \in Requests : at'[q] # "unsent" <=> at[q] # "unsent"
    BY <1>6 DEF ServerCrash, InFlight, InFlightPc
  <2>2. \A q \in Requests : InFlight(q)' => InFlight(q) /\ job'[q] = job[q]
    BY <1>0, <1>6 DEF ServerCrash, InFlight, InFlightPc, IntakeTypeOK
  <2>3. \A q \in Requests : at'[q] = "unsent" => job'[q] = job[q]
    BY <1>0, <1>6 DEF ServerCrash, IntakeTypeOK
  <2>4. NoJobYet'
    BY <1>0, <2>1, <2>2, <2>3 DEF NoJobYet
  <2>5. CachedWasReceived'
    BY <1>0, <1>6, <2>1 DEF CachedWasReceived, ServerCrash, IntakeTypeOK
  <2> QED
    BY <1>0, <1>1, <2>1, <2>4, <2>5 DEF Kept
<1>7. CASE UNCHANGED intakeVars
  <2>1. UNCHANGED <<at, email, server, cache, job>>
    BY <1>7 DEF intakeVars, request
  <2>2. NoJobYet'
    BY <1>0, <2>1 DEF NoJobYet, InFlight
  <2> QED
    BY <1>0, <1>1, <1>2, <2>1, <2>2 DEF Kept
<1> QED
  BY <1>3, <1>4, <1>5, <1>6, <1>7 DEF IntakeNext

\* Whatever the order of deliveries, evictions, crashes and failed look-ups, an
\* e-mail is only ever dropped in favour of something that stands for it.
THEOREM NothingVanishes == IntakeSpec => []ReceivedIsKept
<1>1. IntakeInit => Kept
  BY IntakeTypesInit DEF IntakeInit, Kept, NoJobYet, CachedWasReceived, ReceivedIsKept
<1>2. Kept => ReceivedIsKept
  BY DEF Kept
<1> QED
  BY <1>1, <1>2, KeptStep, PTL DEF IntakeSpec

-----------------------------------------------------------------------------
(* One live job per server and e-mail.                                     *)

Twins(q, r) == q # r /\ email[q] = email[r] /\ server[q] = server[r]

\* The inductive invariant holds at the start.
LEMMA IntakeInvInit == IntakeInit => IntakeInv
BY IntakeTypesInit DEF IntakeInit, IntakeInv, CachedInFlight, OneInFlight, CreatesFirst,
   CachedWasReceived, NoJobYet, OneJobPerServer, InFlight, InFlightPc, LiveJob

\* A delivery that goes no further than before, and whose job is no more alive,
\* disturbs nothing.
LEMMA Weaker ==
  ASSUME IntakeInv, IntakeTypeOK', UNCHANGED <<email, server>>,
         \A r \in Requests : /\ InFlight(r)' => InFlight(r) /\ server[r] \in Servers
                                                  /\ r \in cache'[server[r]]
                             /\ at'[r] = "creating" => at[r] = "creating"
                             /\ LiveJob(r)' => LiveJob(r)
                             /\ at'[r] = "unsent" \/ InFlight(r)' => job'[r] = "none",
         CachedWasReceived'
  PROVE  IntakeInv'
<1>1. CachedInFlight' /\ NoJobYet'
  BY DEF CachedInFlight, NoJobYet
<1>2. OneInFlight' /\ CreatesFirst' /\ OneJobPerServer'
  BY DEF IntakeInv, OneInFlight, CreatesFirst, OneJobPerServer
<1> QED
  BY <1>1, <1>2 DEF IntakeInv

\* A delivery that is dropped or tracked: no other one of its e-mail is in flight on its server.
LEMMA ArrivalStep ==
  ASSUME EvictsSettled, IntakeInv, IntakeTypeOK', CachedWasReceived',
         NEW r \in Requests, NEW s \in Servers, NEW e \in Emails,
         DropCached(r, s, e) \/ Track(r, s, e)
  PROVE  IntakeInv'
<1>0. IntakeTypeOK /\ job[r] = "none" /\ ~LiveJob(r)
  BY DEF IntakeInv, NoJobYet, DropCached, Track, Arrives, LiveJob
<1>1. /\ email'[r] = e /\ server'[r] = s /\ job' = job
      /\ \A q \in Requests \ {r} : at'[q] = at[q] /\ email'[q] = email[q] /\ server'[q] = server[q]
  BY <1>0 DEF DropCached, Track, Arrives, IntakeTypeOK
<1>2. at'[r] \in {"dropped", "checking", "finding"}
  BY <1>0 DEF DropCached, Track, IntakeTypeOK
<1>3. \A q \in Requests : (LiveJob(q)' <=> LiveJob(q)) /\ (q # r => (InFlight(q)' <=> InFlight(q)))
  BY <1>1 DEF LiveJob, InFlight
<1>4. CreatesFirst' /\ OneJobPerServer'
  BY <1>0, <1>1, <1>2, <1>3 DEF IntakeInv, CreatesFirst, OneJobPerServer
<1>5. NoJobYet'
  BY <1>0, <1>1, <1>3 DEF IntakeInv, NoJobYet
<1>6. CASE DropCached(r, s, e)
  <2>1. ~InFlight(r)' /\ cache' = cache
    BY <1>0, <1>6 DEF DropCached, InFlight, InFlightPc, IntakeTypeOK
  <2>2. CachedInFlight'
    BY <1>1, <1>3, <2>1 DEF IntakeInv, CachedInFlight
  <2>3. OneInFlight'
    BY <1>1, <1>3, <2>1 DEF IntakeInv, OneInFlight
  <2> QED
    BY <1>4, <1>5, <2>2, <2>3 DEF IntakeInv
<1>7. CASE Track(r, s, e)
  <2>1. PICK gone : /\ cache' = [cache EXCEPT ![s] = (@ \cup {r}) \ gone]
                    /\ \A q \in gone : ~InFlight(q)'
    BY <1>7 DEF Track
  <2>2. /\ cache'[s] = (cache[s] \cup {r}) \ gone
        /\ \A t \in Servers \ {s} : cache'[t] = cache[t]
    BY <1>0, <2>1 DEF IntakeTypeOK
  <2>3. CachedInFlight'
    <3> SUFFICES ASSUME NEW q \in Requests, InFlight(q)'
                 PROVE  server'[q] \in Servers /\ q \in cache'[server'[q]]
      BY DEF CachedInFlight
    <3>1. CASE q = r
      BY <1>1, <2>1, <2>2, <3>1
    <3>2. CASE q # r
      <4>1. server'[q] = server[q] /\ server[q] \in Servers /\ q \in cache[server[q]]
        BY <1>1, <1>3, <3>2 DEF IntakeInv, CachedInFlight
      <4> QED
        BY <2>1, <2>2, <4>1
    <3> QED
      BY <3>1, <3>2
  <2>4. \A q \in Requests \ {r} : InFlight(q) /\ server[q] = s => email[q] # e
    BY <1>7 DEF IntakeInv, CachedInFlight, Track, Cached
  <2>5. OneInFlight'
    BY <1>1, <1>3, <2>4 DEF IntakeInv, OneInFlight
  <2> QED
    BY <1>4, <1>5, <2>3, <2>5 DEF IntakeInv
<1> QED
  BY <1>6, <1>7

\* A delivery is about to create only if no server has a live job for it.
LEMMA LookStep ==
  ASSUME IntakeInv, IntakeTypeOK', CachedWasReceived', NEW r \in Requests,
         CheckRecorded(r) \/ FindJob(r)
  PROVE  IntakeInv'
<1>0. IntakeTypeOK /\ InFlight(r) /\ job[r] = "none"
  BY DEF IntakeInv, NoJobYet, CheckRecorded, FindJob, InFlight, InFlightPc
<1>1. /\ UNCHANGED <<email, server, cache, job>>
      /\ \A q \in Requests \ {r} : at'[q] = at[q]
  BY <1>0 DEF CheckRecorded, FindJob, Moves, IntakeTypeOK
<1>2. \A q \in Requests : (InFlight(q)' => InFlight(q)) /\ (LiveJob(q)' <=> LiveJob(q))
  BY <1>0, <1>1 DEF InFlight, LiveJob
<1>3. at'[r] = "creating" => ~HasJob(email[r])
  BY <1>0 DEF CheckRecorded, FindJob, Moves, IntakeTypeOK
<1>4. CachedInFlight' /\ OneInFlight' /\ OneJobPerServer'
  BY <1>1, <1>2 DEF IntakeInv, CachedInFlight, OneInFlight, OneJobPerServer
<1>5. CreatesFirst'
  BY <1>1, <1>2, <1>3 DEF IntakeInv, CreatesFirst, HasJob
<1>6. at'[r] # "unsent"
  BY <1>0 DEF CheckRecorded, FindJob, Moves, IntakeTypeOK
<1>7. NoJobYet'
  BY <1>0, <1>1, <1>2, <1>6 DEF IntakeInv, NoJobYet
<1> QED
  BY <1>4, <1>5, <1>7 DEF IntakeInv

\* The only step that makes a job live: there was none of that server.
LEMMA CreateStep ==
  ASSUME IntakeInv, IntakeTypeOK', CachedWasReceived', NEW r \in Requests, CreateJob(r)
  PROVE  IntakeInv'
<1>0. IntakeTypeOK /\ at[r] = "creating" /\ InFlight(r)
  BY DEF IntakeInv, CreateJob, InFlight, InFlightPc
<1>1. /\ UNCHANGED <<email, server, cache>> /\ at'[r] \in {"stored", "lost"}
      /\ \A q \in Requests \ {r} : at'[q] = at[q] /\ job'[q] = job[q]
  BY <1>0 DEF CreateJob, Moves, IntakeTypeOK
<1>2. ~InFlight(r)' /\ \A q \in Requests : InFlight(q)' => InFlight(q) /\ q # r
  BY <1>1 DEF InFlight, InFlightPc
<1>3. \A q \in Requests \ {r} : LiveJob(q)' <=> LiveJob(q)
  BY <1>1 DEF LiveJob
<1>4. CachedInFlight' /\ OneInFlight'
  BY <1>1, <1>2 DEF IntakeInv, CachedInFlight, OneInFlight
<1>5. CreatesFirst'
  <2> SUFFICES ASSUME NEW p \in Requests, NEW q \in Requests, Twins(p, q),
                      at'[p] = "creating", LiveJob(q)'
               PROVE  FALSE
    BY <1>1 DEF CreatesFirst, Twins
  <2>1. p # r /\ at[p] = "creating" /\ InFlight(p)
    BY <1>1, <1>2 DEF InFlight, InFlightPc
  <2>2. CASE q = r
    BY <1>0, <2>1, <2>2 DEF IntakeInv, OneInFlight, Twins
  <2>3. CASE q # r
    BY <1>3, <2>1, <2>3 DEF IntakeInv, CreatesFirst, Twins
  <2> QED
    BY <2>2, <2>3
<1>6. OneJobPerServer'
  <2> SUFFICES ASSUME NEW p \in Requests, NEW q \in Requests, Twins(p, q), LiveJob(p)', LiveJob(q)'
               PROVE  FALSE
    BY <1>1 DEF OneJobPerServer, Twins
  <2>1. CASE p = r
    BY <1>0, <1>3, <2>1 DEF IntakeInv, CreatesFirst, Twins
  <2>2. CASE q = r
    BY <1>0, <1>3, <2>2 DEF IntakeInv, CreatesFirst, Twins
  <2>3. CASE p # r /\ q # r
    BY <1>3, <2>3 DEF IntakeInv, OneJobPerServer, Twins
  <2> QED
    BY <2>1, <2>2, <2>3
<1>7. NoJobYet'
  BY <1>1, <1>2 DEF IntakeInv, NoJobYet
<1> QED
  BY <1>4, <1>5, <1>6, <1>7 DEF IntakeInv

\* Jobs end and e-mails are recorded without touching a delivery.
LEMMA JobStep ==
  ASSUME IntakeInv, IntakeTypeOK', CachedWasReceived', NEW r \in Requests,
         FinishJob(r) \/ RecordEmail(r)
  PROVE  IntakeInv'
<1>0. IntakeTypeOK
  BY DEF IntakeInv
<1>1. /\ UNCHANGED <<at, email, server, cache>>
      /\ \A q \in Requests : /\ LiveJob(q)' => LiveJob(q)
                             /\ job[q] = "none" => job'[q] = "none"
  BY <1>0 DEF FinishJob, RecordEmail, request, LiveJob, IntakeTypeOK
<1>2. \A q \in Requests : InFlight(q)' <=> InFlight(q)
  BY <1>1 DEF InFlight
<1> QED
  BY <1>1, <1>2, Weaker DEF IntakeInv, CachedInFlight, NoJobYet

\* A crash ends the deliveries in flight; an insert applied on the way is of a first job.
LEMMA ServerCrashStep ==
  ASSUME IntakeInv, IntakeTypeOK', CachedWasReceived', NEW s \in Servers, ServerCrash(s)
  PROVE  IntakeInv'
<1>0. IntakeTypeOK
  BY DEF IntakeInv
<1>1. /\ UNCHANGED <<email, server>>
      /\ \A r \in Requests : at'[r] = IF server[r] = s /\ InFlight(r) THEN "lost" ELSE at[r]
      /\ \A t \in Servers \ {s} : cache'[t] = cache[t]
  BY <1>0 DEF ServerCrash, IntakeTypeOK
<1>2. PICK C \in SUBSET {r \in Requests : server[r] = s /\ at[r] = "creating"} :
        \A r \in Requests : job'[r] = IF r \in C THEN "open" ELSE job[r]
  BY DEF ServerCrash
<1>3. \A r \in Requests : InFlight(r)' => InFlight(r) /\ server[r] # s /\ at'[r] = at[r]
  BY <1>1 DEF InFlight, InFlightPc
<1>4. \A r \in Requests : LiveJob(r)' => LiveJob(r) \/ r \in C
  BY <1>2 DEF LiveJob
<1>5. \A r \in C : InFlight(r) /\ server[r] = s /\ at[r] = "creating"
  BY <1>2 DEF InFlight, InFlightPc
<1>6. CachedInFlight' /\ OneInFlight'
  BY <1>1, <1>3 DEF IntakeInv, CachedInFlight, OneInFlight
<1>7. CreatesFirst'
  <2> SUFFICES ASSUME NEW p \in Requests, NEW q \in Requests, Twins(p, q),
                      at'[p] = "creating", LiveJob(q)'
               PROVE  FALSE
    BY <1>1 DEF CreatesFirst, Twins
  <2>1. InFlight(p)'
    BY DEF InFlight, InFlightPc
  <2>2. at[p] = "creating" /\ server[p] # s
    BY <1>3, <2>1
  <2> QED
    BY <1>4, <1>5, <2>2 DEF IntakeInv, CreatesFirst, Twins
<1>8. OneJobPerServer'
  <2> SUFFICES ASSUME NEW p \in Requests, NEW q \in Requests, Twins(p, q), LiveJob(p)', LiveJob(q)'
               PROVE  FALSE
    BY <1>1 DEF OneJobPerServer, Twins
  <2> QED
    BY <1>4, <1>5 DEF IntakeInv, OneJobPerServer, OneInFlight, CreatesFirst, Twins
<1>9. NoJobYet'
  <2>1. \A r \in Requests : at'[r] = "unsent" => at[r] = "unsent" /\ r \notin C
    BY <1>1, <1>5
  <2> QED
    BY <1>2, <1>3, <1>5, <2>1 DEF IntakeInv, NoJobYet
<1> QED
  BY <1>6, <1>7, <1>8, <1>9 DEF IntakeInv

\* Every step keeps the inductive invariant, while evictions hit settled deliveries.
LEMMA IntakeInvStep ==
  ASSUME EvictsSettled, IntakeInv, Kept, [IntakeNext]_intakeVars
  PROVE  IntakeInv'
<1>1. IntakeTypeOK' /\ CachedWasReceived'
  BY KeptStep DEF Kept
<1>2. CASE UNCHANGED intakeVars
  <2>1. UNCHANGED <<at, email, server, cache, job>>
    BY <1>2 DEF intakeVars, request
  <2>2. \A q \in Requests : (InFlight(q)' <=> InFlight(q)) /\ (LiveJob(q)' <=> LiveJob(q))
    BY <2>1 DEF InFlight, LiveJob
  <2> QED
    BY <1>1, <2>1, <2>2, Weaker DEF IntakeInv, CachedInFlight, NoJobYet
<1> QED
  BY <1>1, <1>2, ArrivalStep, LookStep, CreateStep, JobStep, ServerCrashStep DEF IntakeNext

\* Unless ten thousand e-mails arrive while one is being stored, no order of
\* deliveries, crashes, restarts and failed writes makes one server create a
\* second job for an e-mail that has a live one.
THEOREM OneJobEach == EvictsSettled => (IntakeSpec => []OneJobPerServer)
<1> SUFFICES ASSUME EvictsSettled PROVE IntakeSpec => []OneJobPerServer
  OBVIOUS
<1>1. IntakeInit => IntakeInv /\ Kept
  BY IntakeInvInit, IntakeTypesInit
  DEF IntakeInit, Kept, NoJobYet, CachedWasReceived, ReceivedIsKept
<1>2. IntakeInv /\ Kept /\ [IntakeNext]_intakeVars => (IntakeInv /\ Kept)'
  BY IntakeInvStep, KeptStep
<1>3. IntakeInv => OneJobPerServer
  BY DEF IntakeInv
<1> QED
  BY <1>1, <1>2, <1>3, PTL DEF IntakeSpec

=============================================================================
