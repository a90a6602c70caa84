----------------------------- MODULE EmailIntake -----------------------------
(***************************************************************************)
(* From an e-mail webhook to a durable job: acceptInboundEmailPayload      *)
(* (services/channels/email.inbound.ts) and the look-up and insert of      *)
(* enqueueEmailProcessing (workers/email-processing.worker.ts).            *)
(*                                                                         *)
(* The provider delivers an e-mail any number of times, to any API server. *)
(* A server drops it if its own bounded cache, the EmailMessage table or   *)
(* the jobs table knows it; the cache is updated synchronously, the two    *)
(* tables are read and written in separate steps.  The webhook answers 200 *)
(* whatever happens, so a delivery lost on the way is not repeated.        *)
(* How a job is run is EmailJobs; here it is only finished, at any time.   *)
(***************************************************************************)
EXTENDS EmailFaults, FiniteSets

CONSTANTS
  Servers,       \* API servers (docs/deployment.md: they scale horizontally)
  Emails,        \* e-mails, told apart by their dedupe key
  WithId,        \* those with a Message-ID: only these are looked up by it
  None,          \* "no e-mail", "no server"
  MaxRequests,   \* bound: webhook deliveries
  CacheLimit,    \* MAX_PROCESSED_IDS (10 000 in the code)
  CacheSlack,    \* how far below the limit an eviction goes (1000)
  EvictsSettled  \* are CacheLimit e-mails too many to arrive while one is stored?

Requests == 1..MaxRequests   \* in order of arrival

ASSUME EmailIntakeAssumption ==
  /\ WithId \subseteq Emails
  /\ None \notin Emails \cup Servers
  /\ MaxRequests \in Nat
  /\ CacheLimit \in Nat /\ CacheSlack \in 1..(CacheLimit - 1)
  /\ MaxFaults \in Nat
  /\ EvictsSettled \in BOOLEAN

VARIABLES
  at,        \* at[r]: how far request r has come
  email,     \* email[r]: the e-mail it carries
  server,    \* server[r]: the server it reached
  cache,     \* cache[s]: the requests whose dedupe keys processedEmailIds holds
  job,       \* job[r]: the status of the job row r created
  recorded   \* the e-mails an EmailMessage row is keyed by

request == <<at, email, server>>
intakeVars == <<request, cache, job, recorded, faults>>

InFlightPc == {"checking", "finding", "creating"}
RequestPc  == {"unsent", "dropped", "lost", "stored"} \cup InFlightPc

InFlight(r) == at[r] \in InFlightPc
\* The statuses findByQueueAndIdempotency looks for: all but failed.
LiveJob(r) == job[r] \in {"open", "completed"}

Moves(r, to) == at' = [at EXCEPT ![r] = to] /\ UNCHANGED <<email, server>>

-----------------------------------------------------------------------------
IntakeInit ==
  /\ at = [r \in Requests |-> "unsent"]
  /\ email = [r \in Requests |-> None]
  /\ server = [r \in Requests |-> None]
  /\ cache = [s \in Servers |-> {}]
  /\ job = [r \in Requests |-> "none"]
  /\ recorded = {}
  /\ faults = 0

\* trackEmailId: beyond the limit the oldest entries go, down to the slack.
FirstArrived(S, n) == {r \in S : Cardinality({q \in S : q < r}) < n}
Evicted(S) ==
  IF Cardinality(S) > CacheLimit
  THEN FirstArrived(S, Cardinality(S) - CacheLimit + CacheSlack)
  ELSE {}

Arrives(r, s, e) ==
  /\ at[r] = "unsent" /\ \A q \in Requests : q < r => at[q] # "unsent"
  /\ email' = [email EXCEPT ![r] = e]
  /\ server' = [server EXCEPT ![r] = s]

Cached(s, e) == \E q \in cache[s] : email[q] = e

\* Mutants (M...): the definition that follows, with a plausible bug.
MTracksFirst(r, s, e) ==
  /\ Arrives(r, s, e)
  /\ at' = [at EXCEPT ![r] = "dropped"]
  /\ cache' = [cache EXCEPT ![s] = @ \cup {r}]
  /\ UNCHANGED <<job, recorded, faults>>

DropCached(r, s, e) ==
  /\ Arrives(r, s, e)
  /\ Cached(s, e)
  /\ at' = [at EXCEPT ![r] = "dropped"]
  /\ UNCHANGED <<cache, job, recorded, faults>>

MTrackLate(r, s, e) ==
  /\ Arrives(r, s, e)
  /\ ~Cached(s, e)
  /\ at' = [at EXCEPT ![r] = IF e \in WithId THEN "checking" ELSE "finding"]
  /\ UNCHANGED <<cache, job, recorded, faults>>

\* The cache is checked and updated in one synchronous step.
Track(r, s, e) ==
  /\ Arrives(r, s, e)
  /\ ~Cached(s, e)
  /\ at' = [at EXCEPT ![r] = IF e \in WithId THEN "checking" ELSE "finding"]
  /\ LET gone == Evicted(cache[s] \cup {r}) IN
       /\ EvictsSettled => \A q \in gone : ~InFlight(q)'
       /\ cache' = [cache EXCEPT ![s] = (@ \cup {r}) \ gone]
  /\ UNCHANGED <<job, recorded, faults>>

\* findEmailMessageByProviderEmailId.  If it throws, the webhook still answers
\* 200, and the e-mail stays in the cache.
CheckRecorded(r) ==
  /\ at[r] = "checking"
  /\ \/ email[r] \in recorded /\ Moves(r, "dropped") /\ UNCHANGED faults
     \/ email[r] \notin recorded /\ Moves(r, "finding") /\ UNCHANGED faults
     \/ Moves(r, "lost") /\ Fault
  /\ UNCHANGED <<cache, job, recorded>>

\* findByQueueAndIdempotency, after the webhook has answered.
HasJob(e) == \E q \in Requests : email[q] = e /\ LiveJob(q)

MFindOpenJob(r) ==
  /\ at[r] = "finding"
  /\ IF \E q \in Requests : email[q] = email[r] /\ job[q] = "open"
     THEN Moves(r, "dropped") ELSE Moves(r, "creating")
  /\ UNCHANGED <<cache, job, recorded, faults>>

FindJob(r) ==
  /\ at[r] = "finding"
  /\ \/ HasJob(email[r]) /\ Moves(r, "dropped") /\ UNCHANGED faults
     \/ ~HasJob(email[r]) /\ Moves(r, "creating") /\ UNCHANGED faults
     \/ Moves(r, "lost") /\ Fault
  /\ UNCHANGED <<cache, job, recorded>>

\* jobRepository.create; an insert that reports an error may have been applied.
CreateJob(r) ==
  /\ at[r] = "creating"
  /\ \/ job' = [job EXCEPT ![r] = "open"] /\ Moves(r, "stored") /\ UNCHANGED faults
     \/ job' \in {job, [job EXCEPT ![r] = "open"]} /\ Moves(r, "lost") /\ Fault
  /\ UNCHANGED <<cache, recorded>>

\* What becomes of the job, some time, some where: see EmailJobs.
FinishJob(r) ==
  /\ job[r] = "open"
  /\ \E outcome \in {"completed", "failed"} : job' = [job EXCEPT ![r] = outcome]
  /\ UNCHANGED <<request, cache, recorded, faults>>

\* persistEmailThread, which nobody awaits: the row may come late or never.
RecordEmail(r) ==
  /\ job[r] # "none" /\ email[r] \in WithId \ recorded
  /\ recorded' = recorded \cup {email[r]}
  /\ UNCHANGED <<request, cache, job, faults>>

\* A server dies and is restarted with an empty cache; an insert it had sent is
\* applied or not.
ServerCrash(s) ==
  /\ Fault
  /\ cache' = [cache EXCEPT ![s] = {}]
  /\ at' = [r \in Requests |-> IF server[r] = s /\ InFlight(r) THEN "lost" ELSE at[r]]
  /\ \E C \in SUBSET {r \in Requests : server[r] = s /\ at[r] = "creating"} :
       job' = [r \in Requests |-> IF r \in C THEN "open" ELSE job[r]]
  /\ UNCHANGED <<email, server, recorded>>

IntakeNext ==
  \/ \E r \in Requests, s \in Servers, e \in Emails : DropCached(r, s, e) \/ Track(r, s, e)
  \/ \E r \in Requests : CheckRecorded(r) \/ FindJob(r) \/ CreateJob(r)
  \/ \E r \in Requests : FinishJob(r) \/ RecordEmail(r)
  \/ \E s \in Servers : ServerCrash(s)

IntakeSpec == IntakeInit /\ [][IntakeNext]_intakeVars

-----------------------------------------------------------------------------
(* Correctness.                                                            *)

IntakeTypeOK ==
  /\ at \in [Requests -> RequestPc]
  /\ email \in [Requests -> Emails \cup {None}]
  /\ server \in [Requests -> Servers \cup {None}]
  /\ cache \in [Servers -> SUBSET Requests]
  /\ job \in [Requests -> {"none", "open", "completed", "failed"}]
  /\ recorded \subseteq Emails
  /\ faults \in 0..MaxFaults

\* One server never creates a second job for an e-mail while a first is pending,
\* running or completed: not when deliveries overlap, not after its cache
\* forgot the e-mail, not after a restart.
OneJobPerServer ==
  \A q, r \in Requests :
    q # r /\ email[q] = email[r] /\ LiveJob(q) /\ LiveJob(r) => server[q] # server[r]

Accounted(e) ==
  \/ e \in recorded
  \/ \E q \in Requests : email[q] = e /\ (job[q] # "none" \/ InFlight(q) \/ at[q] = "lost")

\* An e-mail that reached a server has a job or a record, or is on its way, or
\* a database error or a crash hit one of its own deliveries: no cache, no
\* look-up and no other e-mail's trouble makes it vanish.
ReceivedIsKept == \A r \in Requests : at[r] # "unsent" => Accounted(email[r])

\* Why OneJobPerServer holds, while evictions only hit settled deliveries: a
\* delivery in flight is cached, so a server has one at a time per e-mail; and
\* no job of that server is live when it is about to create one.  ReceivedIsKept
\* needs only that the cache holds what was received.
CachedInFlight ==
  \A r \in Requests : InFlight(r) => server[r] \in Servers /\ r \in cache[server[r]]

OneInFlight ==
  \A q, r \in Requests :
    q # r /\ email[q] = email[r] /\ server[q] = server[r] => ~(InFlight(q) /\ InFlight(r))

CreatesFirst ==
  \A q, r \in Requests :
    q # r /\ email[q] = email[r] /\ server[q] = server[r] => ~(at[q] = "creating" /\ LiveJob(r))

CachedWasReceived == \A s \in Servers : \A r \in cache[s] : at[r] # "unsent"

NoJobYet == \A r \in Requests : at[r] = "unsent" \/ InFlight(r) => job[r] = "none"

IntakeInv ==
  /\ IntakeTypeOK /\ CachedInFlight /\ OneInFlight /\ CreatesFirst /\ CachedWasReceived /\ NoJobYet
  /\ OneJobPerServer

=============================================================================
