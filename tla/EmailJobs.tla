------------------------------ MODULE EmailJobs ------------------------------
(***************************************************************************)
(* The durable e-mail job protocol: the rows of the `jobs` table           *)
(* (repositories/job.repository.ts) and the processes that run them        *)
(* (workers/email-processing.worker.ts, server.ts, worker.ts).             *)
(*                                                                         *)
(* A job is claimed by one conditional UPDATE (claimForRun), executed, and *)
(* then marked completed, retrying or failed by UNCONDITIONAL updates.  A  *)
(* claim is a lease of 15 minutes: a row that has been `running` longer is *)
(* claimable again.  Every process sweeps the table at start-up and every  *)
(* five minutes.  Nothing but the table survives a process.                *)
(***************************************************************************)
EXTENDS EmailFaults, FiniteSets

CONSTANTS
  Procs,           \* processes that run jobs: API servers and workers
  Ingress,         \* the processes that also receive e-mail (API servers)
  NoProc,          \* "no process": the owner of a run that is not live
  MaxJobs,         \* bound: how many e-mails are enqueued
  Unparseable,     \* jobs whose stored payload parsePersistedPayload rejects
  MaxAttempts,     \* Job.maxAttempts (3 in the code)
  MaxClaims,       \* bound: how often one job may be claimed
  SweepLimit,      \* resumePendingEmailJobs(limit) (100 in the code)
  RunsWithinLease  \* does every run end within the 15 minutes of its lease?

Jobs    == 1..MaxJobs
Attempt == 1..MaxClaims
Parseable == Jobs \ Unparseable

ASSUME EmailJobsAssumption ==
  /\ Ingress \subseteq Procs
  /\ NoProc \notin Procs
  /\ MaxJobs \in Nat
  /\ Unparseable \subseteq Jobs
  /\ MaxAttempts \in Nat \ {0}
  /\ MaxClaims \in Nat
  /\ SweepLimit \in Nat \ {0}
  /\ MaxFaults \in Nat
  /\ RunsWithinLease \in BOOLEAN

VARIABLES
  status,      \* Job.status, "absent" before the row is created
  attempts,    \* Job.attempts
  lease,       \* Job.startedAt: null, at most 15 minutes old, or older
  replySent,   \* Job.result.replySent
  pc,          \* pc[j][n]: where the n-th claim's run of job j stands
  owner,       \* owner[j][n]: the process executing that run
  wakeups,     \* wakeups[p]: jobs p will call runPersistedEmailJob for
  rejects,     \* rejects[p]: jobs p's sweep found unparseable
  alive,       \* the processes that are running
  deliveries   \* how many sendEmail calls for job j reached the provider

row   == <<status, attempts, lease, replySent>>
runs  == <<pc, owner>>
procs == <<wakeups, rejects, alive>>
vars  == <<row, runs, procs, deliveries, faults>>

JobStatus == {"absent", "pending", "running", "retrying", "completed", "failed"}
PreSend   == {"executing", "replying", "failed", "retrying", "givingUp"}
Finishing == {"sent", "unsent", "noReply"}
RunPc     == {"idle", "over"} \cup PreSend \cup Finishing

Live(j, n)  == pc[j][n] \in PreSend \cup Finishing
HasRun(j)   == \E n \in Attempt : Live(j, n)
Unsettled(j) == status[j] \in {"pending", "running", "retrying"}
Settled(j)   == status[j] \in {"completed", "failed"}

-----------------------------------------------------------------------------
(* The database.  A write may also report an error, and then it may or may *)
(* not have been applied.                                                  *)

Attempted(Write) ==
  \/ Write /\ UNCHANGED faults
  \/ Fault /\ (Write \/ UNCHANGED row)

\* Mutants (M...): the definition that follows, with a plausible bug.
MClaimableRunning(j) == status[j] \in {"pending", "retrying", "running"}
MClaimableFailed(j) ==
  \/ status[j] \in {"pending", "retrying", "failed"}
  \/ status[j] = "running" /\ lease[j] = "expired"
MClaimableNoLease(j) == status[j] \in {"pending", "retrying"}

Claimable(j) ==
  \/ status[j] \in {"pending", "retrying"}
  \/ status[j] = "running" /\ lease[j] = "expired"

SetRunning(j) ==
  /\ status' = [status EXCEPT ![j] = "running"]
  /\ lease' = [lease EXCEPT ![j] = "fresh"]
  /\ attempts' = [attempts EXCEPT ![j] = @ + 1]
  /\ UNCHANGED replySent

SetCompleted(j, sent) ==
  /\ status' = [status EXCEPT ![j] = "completed"]
  /\ replySent' = [replySent EXCEPT ![j] = sent]
  /\ UNCHANGED <<attempts, lease>>

SetRetrying(j) ==
  /\ status' = [status EXCEPT ![j] = "retrying"]
  /\ lease' = [lease EXCEPT ![j] = "none"]
  /\ UNCHANGED <<attempts, replySent>>

SetFailed(j) ==
  /\ status' = [status EXCEPT ![j] = "failed"]
  /\ UNCHANGED <<attempts, lease, replySent>>

\* listRecoverable: claimable rows, oldest first, at most SweepLimit of them.
Recoverable == {j \in Jobs : Claimable(j)}
Oldest(S) == {j \in S : Cardinality({i \in S : i < j}) < SweepLimit}

-----------------------------------------------------------------------------
Init ==
  /\ status = [j \in Jobs |-> "absent"]
  /\ attempts = [j \in Jobs |-> 0]
  /\ lease = [j \in Jobs |-> "none"]
  /\ replySent = [j \in Jobs |-> FALSE]
  /\ pc = [j \in Jobs |-> [n \in Attempt |-> "idle"]]
  /\ owner = [j \in Jobs |-> [n \in Attempt |-> NoProc]]
  /\ wakeups = [p \in Procs |-> {}]
  /\ rejects = [p \in Procs |-> {}]
  /\ alive = Procs
  /\ deliveries = [j \in Jobs |-> 0]
  /\ faults = 0

\* enqueueEmailProcessing creates the row, then calls runPersistedEmailJob in
\* this process.  Jobs are numbered in order of createdAt.
Enqueue(p, j) ==
  /\ p \in Ingress \cap alive
  /\ status[j] = "absent" /\ \A i \in Jobs : i < j => status[i] # "absent"
  /\ status' = [status EXCEPT ![j] = "pending"]
  /\ wakeups' = [wakeups EXCEPT ![p] = @ \cup {j}]
  /\ UNCHANGED <<attempts, lease, replySent, runs, rejects, alive, deliveries, faults>>

\* The claim at the head of runPersistedEmailJob succeeds: a run starts.
Claim(p, j) ==
  /\ p \in alive /\ j \in wakeups[p]
  /\ Claimable(j) /\ attempts[j] < MaxClaims
  /\ SetRunning(j)
  /\ wakeups' = [wakeups EXCEPT ![p] = @ \ {j}]
  /\ pc' = [pc EXCEPT ![j][attempts[j] + 1] = "executing"]
  /\ owner' = [owner EXCEPT ![j][attempts[j] + 1] = p]
  /\ UNCHANGED <<rejects, alive, deliveries, faults>>

\* The claim finds the row taken or settled, or it throws, in which case the
\* UPDATE may have been applied with nobody left to run the job.
ClaimLost(p, j) ==
  /\ p \in alive /\ j \in wakeups[p]
  /\ \/ ~Claimable(j) /\ UNCHANGED <<row, faults>>
     \/ /\ Fault
        /\ \/ UNCHANGED row
           \/ Claimable(j) /\ attempts[j] < MaxClaims /\ SetRunning(j)
  /\ wakeups' = [wakeups EXCEPT ![p] = @ \ {j}]
  /\ UNCHANGED <<runs, rejects, alive, deliveries>>

-----------------------------------------------------------------------------
(* processEmailJob, as the n-th claim's run of job j.                      *)

Step(j, n, from, to) ==
  /\ pc[j][n] = from
  /\ pc' = [pc EXCEPT ![j][n] = to]
  /\ UNCHANGED <<row, owner, procs>>

\* Nothing to do for this e-mail (normalizeInboundEmail returned null), or the
\* orchestrator answered with an empty reply: success without a reply.
NoReply(j, n) ==
  Step(j, n, "executing", "noReply") /\ UNCHANGED <<deliveries, faults>>

\* executeEvent produced a reply.
Reply(j, n) ==
  Step(j, n, "executing", "replying") /\ UNCHANGED <<deliveries, faults>>

\* Normalization or executeEvent threw, or deliverToEmail threw while it read
\* the thread, before anything was sent: toEmailJobError.
RunFails(j, n) ==
  /\ \E from \in {"executing", "replying"} : Step(j, n, from, "failed")
  /\ UNCHANGED <<deliveries, faults>>

\* sendEmail put the reply on the wire.
Deliver(j, n) ==
  /\ Step(j, n, "replying", "sent")
  /\ deliveries' = [deliveries EXCEPT ![j] = @ + 1]
  /\ UNCHANGED faults

MDeliveryFailsRetried(j, n) ==
  /\ Step(j, n, "replying", "failed")
  /\ \E k \in {0, 1} : deliveries' = [deliveries EXCEPT ![j] = @ + k]
  /\ UNCHANGED faults

\* sendEmail gave up.  An answer lost on the way back is also reported as a
\* failure.  Either way the job goes on as a success with replySent = false.
DeliveryFails(j, n) ==
  /\ Step(j, n, "replying", "unsent")
  /\ \E k \in {0, 1} : deliveries' = [deliveries EXCEPT ![j] = @ + k]
  /\ UNCHANGED faults

-----------------------------------------------------------------------------
(* runPersistedEmailJob after processEmailJob returned.                    *)

EndRun(j, n) ==
  /\ pc' = [pc EXCEPT ![j][n] = "over"]
  /\ owner' = [owner EXCEPT ![j][n] = NoProc]

MMarkCompletedSent(j, n) ==
  /\ pc[j][n] \in Finishing
  /\ Attempted(SetCompleted(j, TRUE))
  /\ EndRun(j, n)
  /\ UNCHANGED <<procs, deliveries>>

MarkCompleted(j, n) ==
  /\ pc[j][n] \in Finishing
  /\ Attempted(SetCompleted(j, pc[j][n] = "sent"))
  /\ EndRun(j, n)
  /\ UNCHANGED <<procs, deliveries>>

MDecideRetryOnceMore(j, n) ==
  /\ \/ attempts[j] <= MaxAttempts /\ Step(j, n, "failed", "retrying") /\ UNCHANGED faults
     \/ attempts[j] > MaxAttempts /\ Step(j, n, "failed", "givingUp") /\ UNCHANGED faults
     \/ Fault /\ Step(j, n, "failed", "givingUp")
  /\ UNCHANGED deliveries

\* findById, then the attempts it returned decide; a read error gives up.
DecideRetry(j, n) ==
  /\ \/ attempts[j] < MaxAttempts /\ Step(j, n, "failed", "retrying") /\ UNCHANGED faults
     \/ attempts[j] >= MaxAttempts /\ Step(j, n, "failed", "givingUp") /\ UNCHANGED faults
     \/ Fault /\ Step(j, n, "failed", "givingUp")
  /\ UNCHANGED deliveries

\* markRetrying, then scheduleEmailRetry arms a timer of this process whether
\* or not the write succeeded.
MarkRetrying(j, n) ==
  /\ pc[j][n] = "retrying"
  /\ Attempted(SetRetrying(j))
  /\ wakeups' = [wakeups EXCEPT ![owner[j][n]] = @ \cup {j}]
  /\ EndRun(j, n)
  /\ UNCHANGED <<rejects, alive, deliveries>>

MarkFailed(j, n) ==
  /\ pc[j][n] = "givingUp"
  /\ Attempted(SetFailed(j))
  /\ EndRun(j, n)
  /\ UNCHANGED <<procs, deliveries>>

RunStep(j, n) ==
  \/ NoReply(j, n) \/ Reply(j, n) \/ RunFails(j, n)
  \/ Deliver(j, n) \/ DeliveryFails(j, n)
  \/ MarkCompleted(j, n) \/ DecideRetry(j, n)
  \/ MarkRetrying(j, n) \/ MarkFailed(j, n)

-----------------------------------------------------------------------------
(* Recovery, time and process failure.                                     *)

\* resumePendingEmailJobs: list, then start every parseable job and mark the
\* others failed one by one.
Sweep(p) ==
  /\ p \in alive
  /\ wakeups' = [wakeups EXCEPT ![p] = @ \cup (Oldest(Recoverable) \ Unparseable)]
  /\ rejects' = [rejects EXCEPT ![p] = @ \cup (Oldest(Recoverable) \cap Unparseable)]
  /\ UNCHANGED <<row, runs, alive, deliveries, faults>>

RejectInvalid(p, j) ==
  /\ p \in alive /\ j \in rejects[p]
  /\ Attempted(SetFailed(j))
  /\ rejects' = [rejects EXCEPT ![p] = @ \ {j}]
  /\ UNCHANGED <<runs, wakeups, alive, deliveries>>

\* 15 minutes pass since the claim.  No deadline bounds a run, so its lease may
\* run out under it: an overrun, unless RunsWithinLease.
Expire(j) ==
  /\ status[j] = "running" /\ lease[j] = "fresh"
  /\ \/ ~HasRun(j) /\ UNCHANGED faults
     \/ HasRun(j) /\ ~RunsWithinLease /\ Fault
  /\ lease' = [lease EXCEPT ![j] = "expired"]
  /\ UNCHANGED <<status, attempts, replySent, runs, procs, deliveries>>

\* A process dies, by a crash or at the end of shutdown(), which stops the
\* sweep timer but awaits no run: its runs, timers and pending calls go with it.
\* (Until it exits, a process that shuts down is one that happens not to sweep.)
Crash(p) ==
  /\ p \in alive /\ Fault
  /\ alive' = alive \ {p}
  /\ pc' = [j \in Jobs |-> [n \in Attempt |-> IF owner[j][n] = p THEN "over" ELSE pc[j][n]]]
  /\ owner' = [j \in Jobs |-> [n \in Attempt |-> IF owner[j][n] = p THEN NoProc ELSE owner[j][n]]]
  /\ wakeups' = [wakeups EXCEPT ![p] = {}]
  /\ rejects' = [rejects EXCEPT ![p] = {}]
  /\ UNCHANGED <<row, deliveries>>

Restart(p) ==
  /\ p \notin alive
  /\ alive' = alive \cup {p}
  /\ UNCHANGED <<row, runs, wakeups, rejects, deliveries, faults>>

Next ==
  \/ \E p \in Procs, j \in Jobs : Enqueue(p, j) \/ Claim(p, j) \/ ClaimLost(p, j) \/ RejectInvalid(p, j)
  \/ \E j \in Jobs, n \in Attempt : RunStep(j, n)
  \/ \E p \in Procs : Sweep(p) \/ Crash(p) \/ Restart(p)
  \/ \E j \in Jobs : Expire(j)

Spec == Init /\ [][Next]_vars

\* Event loops keep turning, timers fire, time passes, a supervisor restarts.
Fairness ==
  /\ \A p \in Procs : WF_vars(Sweep(p)) /\ WF_vars(Restart(p))
  /\ \A p \in Procs, j \in Jobs :
        WF_vars(Claim(p, j) \/ ClaimLost(p, j)) /\ WF_vars(RejectInvalid(p, j))
  /\ \A j \in Jobs, n \in Attempt : WF_vars(RunStep(j, n))
  /\ \A j \in Jobs : WF_vars(Expire(j))

FairSpec == Spec /\ Fairness

-----------------------------------------------------------------------------
(* Correctness.                                                            *)

TypeOK ==
  /\ status \in [Jobs -> JobStatus]
  /\ attempts \in [Jobs -> 0..MaxClaims]
  /\ lease \in [Jobs -> {"none", "fresh", "expired"}]
  /\ replySent \in [Jobs -> BOOLEAN]
  /\ pc \in [Jobs -> [Attempt -> RunPc]]
  /\ owner \in [Jobs -> [Attempt -> Procs \cup {NoProc}]]
  /\ wakeups \in [Procs -> SUBSET Jobs]
  /\ rejects \in [Procs -> SUBSET Jobs]
  /\ alive \subseteq Procs
  /\ deliveries \in [Jobs -> Nat]
  /\ faults \in 0..MaxFaults

\* A job is executed by one run at a time, across processes, crashes, retry
\* timers and sweeps, and that run holds the row's latest claim: so the
\* unconditional mark* updates only ever close their own claim.
ExclusiveRun ==
  \A j \in Jobs : \A n \in Attempt :
    Live(j, n) => /\ n = attempts[j]
                  /\ status[j] = "running" \/ j \in Unparseable

\* Only a fault buys a job an attempt beyond maxAttempts: retries alone stop at
\* the budget although claimForRun never looks at it.
AttemptsBounded == \A j \in Jobs : attempts[j] <= MaxAttempts + faults

\* One sendEmail call reaches the provider, plus at most one for every fault: no
\* interleaving of retries and sweeps alone answers an e-mail twice.
DeliveryBounded == \A j \in Jobs : deliveries[j] <= 1 + faults

\* A row that says its reply was sent tells the truth.
ReplySentIsTrue == \A j \in Jobs : replySent[j] => deliveries[j] > 0

\* A completed or failed job is never reopened or overwritten.
SettledStays ==
  [][\A j \in Parseable : Settled(j) => status'[j] = status[j]]_vars

\* Whatever crashed, and wherever, every job that reached the table is settled.
EveryJobSettles == \A j \in Jobs : Unsettled(j) ~> Settled(j)

\* Documented behaviour the code does not have.

\* Why ExclusiveRun, AttemptsBounded, DeliveryBounded and SettledStays hold when
\* no run outlives its lease: IndInv is inductive.

ClaimHeld(j) ==       \* a live run holds the latest, unexpired claim
  \A n \in Attempt : Live(j, n) =>
    /\ n = attempts[j] /\ lease[j] = "fresh"
    /\ status[j] = "running" \/ (j \in Unparseable /\ status[j] = "failed")

RetryHasBudget(j) ==  \* whoever waits for a retry was granted it below maxAttempts
  /\ status[j] \in {"absent", "pending"} => attempts[j] = 0
  /\ status[j] = "retrying" => attempts[j] < MaxAttempts
  /\ \A n \in Attempt : pc[j][n] = "retrying" => attempts[j] < MaxAttempts

OrphanCostFault(j) == \* a running row without a run was left behind by a fault
  /\ status[j] = "running" /\ ~HasRun(j) => attempts[j] < MaxAttempts + faults
  /\ attempts[j] <= MaxAttempts + faults

UnsentCostFault(j) == \* so was every reply that a job still to be answered has had
  /\ status[j] = "absent" => deliveries[j] = 0
  /\ Unsettled(j) /\ ~HasRun(j) => deliveries[j] <= faults
  /\ \A n \in Attempt : pc[j][n] \in PreSend => deliveries[j] <= faults
  /\ deliveries[j] <= 1 + faults

JobInv(j) == ClaimHeld(j) /\ RetryHasBudget(j) /\ OrphanCostFault(j) /\ UnsentCostFault(j)

IndInv ==
  /\ TypeOK
  /\ \A p \in Procs : rejects[p] \subseteq Unparseable
  /\ \A j \in Jobs : JobInv(j)

\* The protocol implements the abstract ledger: a job is held while its row is
\* running and its run is live, and by the process that executes that run.
phaseOf(j) ==
  CASE status[j] = "absent" -> "none"
    [] Settled(j) -> status[j]
    [] status[j] = "running" /\ HasRun(j) -> "held"
    [] OTHER -> "queued"

holderOf(j) == IF HasRun(j) THEN owner[j][attempts[j]] ELSE NoProc

Ledger == INSTANCE JobLedger WITH
  Jobs <- Parseable,
  phase <- [j \in Parseable |-> phaseOf(j)],
  holder <- [j \in Parseable |-> holderOf(j)]

ImplementsLedger == Ledger!Spec

=============================================================================
