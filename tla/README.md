# Verification of the assistant backend

TLA+ models of the backend of an AI assistant that answers e-mail and Telegram
messages, files receipts, drafts follow-ups and runs skills (`src/apps/api`).
The interesting code keeps its state in PostgreSQL, runs as several Node
processes without any lock between them, and calls services that fail or time
out. The models cover what a unit test with a mocked repository cannot reach:
interleavings at every `await`, writes that fail or are applied and then report
an error, crashes between two writes, retries of requests already done.

TLC explores small instances of every model exhaustively, and TLAPS proves every
invariant and every action property of the passing runs for every value of the
constants. Liveness stays with TLC.

All source paths below are relative to `src/apps/api/src` unless they start with
`src/` or `docs/`.

## 1. The system

| Component | State it keeps | Operations | Status |
|---|---|---|---|
| **E-mail job protocol** (`repositories/job.repository.ts`, `workers/email-processing.worker.ts`, `server.ts`, `worker.ts`) | rows of `jobs`, retry timers and runs of each process | enqueue, claim, run, mark completed / retrying / failed, recovery sweep, shutdown | modelled, proved |
| **E-mail intake** (`services/channels/email.inbound.ts`, `routes/webhooks/email.ts`) | `processedEmailIds` of each server, `EmailMessage`, `jobs` | webhook, cache, two look-ups, insert | modelled, proved |
| **Bookkeeping sub-agent** (`services/subagents/bookkeeping`, `repositories/receipt-extraction.repository.ts`) | `ReceiptExtraction`, `LedgerExport`, a Google Sheet | process_receipt, set_category, manual_entry, get_pending | modelled, proved |
| **Follow-up sub-agent** (`services/subagents/followup`, `repositories/followup-recommendation.repository.ts`) | `FollowUpRecommendation`, outbound `Message` | draft, approve_send, dismiss, find_stale, list_pending | modelled, proved |
| **E-mail threads and delivery** (`services/channels/email.delivery.ts`, `integrations/email`, `repositories/email-thread.repository.ts`) | `EmailThread`, `EmailMessage`, status of the outbound `Message` | key of the conversation, persist a thread, send with retries, record, headers of a reply | modelled, proved |
| **Telegram ingress and delivery** (`integrations/telegram`) | update ids in Redis or memory, polling offset, webhook | start of a server, webhook, polling, duplicates, sendMessage with retries | modelled, proved |
| **Skills** (`services/skills`, `security/`, `orchestration/tool-resolver.ts`, `external-tool-executor.ts`) | `Skill`, `SkillVersion`, vetting results; the catalog of a turn | ingest, override, toggle, resolve, guard, run | modelled, proved |
| **Orchestrator, conversation manager** (`orchestration/`) | `Conversation`, participants, `UsageLog`, titles | executeEvent of overlapping turns | modelled, proved, but for the `closed` status of a conversation |
| **Model routing and spend control** (`services/routing`) | settings, cost of the month | tier, rules, escalation, downgrading, token limit | modelled, proved |
| **Memory** (`services/memory`) | `MemoryItem` | store the facts of a message | storing modelled, proved; extraction and ranking are text |
| **Sub-agent dispatcher** (`orchestration/sub-agent-dispatcher.ts`) | `SubAgentTask`, switches of the admin | the calls of a turn, task rows | modelled, proved |
| **GoHighLevel CRM** (`services/subagents/ghl-crm.service.ts`, `integrations/ghl/client.ts`) | `GhlActionLog` | 50-odd actions, requests with retries | modelled, proved |
| Google Sheets client, LLM providers, vision | none | external calls | inside Receipts and Turns |
| Queues (`queues/`, `workers/`) | BullMQ | wiring; nothing enqueues, handlers are called directly | not modelled |
| E-mail parsing, prompts, admin API, admin portal, shared packages | text, sessions, settings, UI | sequential | not modelled |

`PROJECT.json` has the same list with every source file and the reason for each
part left out.

**How they interact.** A webhook hands an e-mail to *intake*, which answers 200,
drops what it knows, and otherwise inserts a job row and starts it. The *job
protocol* claims the row, normalizes the e-mail (recording its thread on the
way, which nobody awaits), calls the *orchestrator*, sends the reply and marks
the row. During the orchestrator's tool loop the *sub-agents* are called: one
after the other within one event, but the events of several e-mails and chats
run at the same time, in several processes. Nothing but the database is shared,
and no code path uses a transaction or a lock across two of these steps; what
keeps two of them apart is a conditional UPDATE (`claimForRun`), a unique key
(`idempotencyKey`, `receiptId`), a synchronous piece of JavaScript (the cache of
the intake), or nothing.

**What is hard**, and so what the properties are about (`hazards` in
`PROJECT.json` lists each at its line):

- a check in one statement and the write in a later one (job look-up and insert,
  `status` before an append or a send, duplicate look-up before a draft);
- unconditional status writes (`markCompleted`, `updateStatus`, `setCategory`);
- a crash or an error between two writes that belong together;
- an answer lost after the request was done (sendEmail, the sheet append,
  sendMessage), followed by a retry;
- leases, sweeps and timers that race each other for one row;
- bounds: the sweep limit, the cache limit, the attempt budget.

## 2. Modules

| Module | What it is |
|---|---|
| `EmailJobs` | the job table and the processes that run it |
| `JobLedger` | what the job queue promises, in four actions |
| `EmailIntake` | webhook to job row, over several servers |
| `EmailFaults` | the faults of both: crashes, failed statements, overruns |
| `Receipts` | the bookkeeping sub-agent |
| `FollowUp` | the follow-up sub-agent |
| `EmailThreads` | conversations, thread rows and e-mail records behind a reply, and its delivery |
| `Telegram` | update to reply, over several servers |
| `Skills` | upload to guarded run |
| `Routing` | which model, at what price: operators only |
| `Turns` | `executeEvent` for overlapping events; extends `Routing` |
| `GhlActions` | tables of the CRM's handlers and of the REST wrappers they call |
| `SubAgents` | the dispatcher and the CRM sub-agent; extends `GhlActions` |
| `MC*` | small sets for the constants of each, for the `.cfg` files |
| `*_proofs` | the proofs about each; those about EmailIntake and JobLedger are in `EmailJobs_proofs` |

Every definition that stands for code is tied to its lines under `map` in
`PROJECT.json`. Definitions named `M...` are deliberate bugs: for each property
of each passing run there is one that stands in for the definition after it, and
TLC then finds the property violated. No specification uses them.

### EmailJobs

| Variable | Code |
|---|---|
| `status`, `attempts`, `lease`, `replySent` | columns of a `jobs` row: `status`, `attempts`, the age of `startedAt` (null, within 15 minutes, older), `result.replySent` |
| `pc[j][n]`, `owner[j][n]` | the run started by the n-th claim of job j: where it stands in `runPersistedEmailJob` / `processEmailJob`, and the process it runs in |
| `wakeups[p]`, `rejects[p]` | calls of `runPersistedEmailJob` a process will still make (after an enqueue, a sweep or a retry timer), and rows its sweep will mark failed |
| `alive` | the processes that run |
| `deliveries`, `faults` | history: sendEmail calls that reached the provider; crashes, database errors and overruns so far |

`Enqueue` is `enqueueEmailProcessing` after its look-up; `Claim` and `ClaimLost`
are `claimForRun`, one conditional UPDATE; `NoReply`, `Reply`, `RunFails`,
`Deliver` and `DeliveryFails` are `processEmailJob`; `MarkCompleted`,
`DecideRetry`, `MarkRetrying` and `MarkFailed` are what follows it; `Sweep` and
`RejectInvalid` are `resumePendingEmailJobs`; `Expire` is time passing; `Crash`
and `Restart` are a process ending (by `shutdown()` too, which awaits no run) and
coming back. `Attempted(Write)` is a write that may report an error whether or
not it was applied. The contents of an e-mail, the orchestrator and the thread
are abstracted to their outcomes. `deliveries` counts calls of sendEmail, whose
own retries (`MAX_RETRIES` in `integrations/email/client.ts`) are inside one.

`RunsWithinLease` says whether every run ends within the 15 minutes of its lease.
The code does not enforce it: each external call has a time limit, but a run
makes several with retries. With it, the strong properties hold; without it a
second run of a row may start beside the first, and only the weaker ones do.

`JobLedger` is the promise: a job is submitted, held by one process at a time,
returned to the queue or finished, and never touched afterwards. EmailJobs
implements it (`ImplementsLedger`) for the jobs whose payload can be parsed: held
means running with a live run, and a running row whose process died is back in
the queue as far as the promise goes. Jobs with a broken payload are left out of
the mapping because the sweep may mark such a job failed while a run of it,
started by the enqueue, is still going.

### EmailIntake

A delivery is a request `r`, numbered by arrival; `at[r]` is how far it has come,
`cache[s]` the requests whose key is in the server's `processedEmailIds`, `job[r]`
the row it created, `recorded` the `EmailMessage` keys. `Track` is one step
because the code updates the cache before its first `await`; `CheckRecorded`,
`FindJob` and `CreateJob` are the statements after it. `FinishJob` is all of
EmailJobs as the intake can see it: a live job ends as completed or failed, at
any time; `ServerCrash` loses a server's cache and the requests it was working on.
`EvictsSettled` says that a delivery is stored before 10 000 others
have arrived at its server; eviction of a delivery in flight would be needed to
break the property, and is left to the run's constants.

### Receipts

`status`, `data`, `category` are the row of `ReceiptExtraction`; `ledger` its
`LedgerExport` row (unique per receipt), `sheet` the number of rows of the sheet
with its id. A call `c` has a `target`, the category `chosen` it will use and the
data it has `seen`: `set_category` finalizes with data it read before. The steps
are those of `finalizeAndAppend`: append to the sheet, record in the ledger, mark
exported, with a failure possible after each (`Fails`), and an append that took
effect but timed out and is repeated (`AppendedUnseen`). The extraction is a
nondeterministic answer of the vision model; amounts are abstracted to whether
`validateAmount` takes them. Each call is made once; what matters is how many
overlap. A receipt's key is the id of the inbound message, so a repeated run of
an e-mail job is another receipt here.

### FollowUp

`status` and `custom` are the rows of `FollowUpRecommendation`, `messages[c]` the
outbound `Message` an approval creates, `delivered` what reached the contact. A
draft looks for a duplicate, asks the model, creates the row and publishes it; an
approval reads the row, creates a message, writes *approved*, delivers, settles
the message and writes *sent*; a dismissal reads and writes. Every write of a
status is unconditional (`UpdateStatus`), as in the code. The context of a draft
is absent, empty, or a text, which may be the name of a reason (`Contexts`). The
duplicate look-up takes it for the reason whenever there is one (`Wanted`), while
the row is stored as `custom` unless it is empty (`Stored`): a draft whose context
is a text of its own is never found by a later one with the same, one whose
context is `custom` finds those of all texts, `no_reply` those without any, and
one with an empty context looks for a reason that no row has and is stored as
`no_reply`. All drafts of a behaviour lie within the 24 hours of the look-up.

`overlapped` in Receipts and FollowUp is a history variable: what two calls have
worked on at once. `unseen` in FollowUp is another: drafts begun while one without
a context was being made, and what they, or drafts with an empty context, created.
The code has nothing that keeps two calls apart, so the properties that need it
say so, and the others hold however calls overlap.

### EmailThreads

`mail` is what arrives: a new exchange (`Writes`), an answer to a reply
(`Answers`), whose mail program keeps both headers, one, or none, and a follow-up
that somebody who got the reply approves (`FollowsUp`), which has an outbound
message of its own and names neither a recipient nor headers. `job[e]` is the run
of an e-mail after its turn gave a reply, or the delivery of a follow-up:
`persist` and `deliver` say how far `persistEmailThread` and `deliverToEmail` are,
which run beside each other. `rows` is `email_threads` and `records` is
`email_messages`, with their unique keys (`Accepted`). A Message-ID is
`Id(e, kind)`: of the e-mail that came in, of the reply to it, or Resend's own; the hash
of a subject is `Id(subject, "subject")`. `resolveThreadId`, `RowKey` and
`ReplyHeaders` are three different ways the code has to find the thread of an
e-mail; headers that are not named come from the last record of the thread, which
may be of another exchange. `Recipient` is the author a reply names, and for a
follow-up the `from` of the thread row, that is whoever wrote the e-mail that
created it; without a row the delivery fails (`Nobody`). A reply to an e-mail
without a subject has one (`NoSubject`), so the answer to it is in another
conversation than a second e-mail without one. An address the intake accepts is
taken to be accepted again when the reply goes out: the two checks are the same,
and only an address of the greatest length that lower-casing lengthens could tell
them apart. `sendEmail` repeats a failed attempt `MAX_RETRIES` times; `AnswerLost`
is a send that went out and looks failed. Only some errors of SMTP are final
(`Transport`).

### Telegram

`config` is the environment, `registered`, `arrived` and `pending` are Telegram's
side. `mode[s]`, `offset[s]` and `batch[s]` are the runtime of a server, `keys` is
Redis, `memory[s]` its `processedUpdateIds`, and `call[h]` one
`processTelegramUpdate` under way. `StartWebhook`, `StartPolling` and
`StartDisabled` are `startTelegramRuntime` with its fallbacks. `CheckRedis`,
`SetUnseen` and `CheckMemory` are `isDuplicateUpdate`: answered by Redis, repeated
by ioredis after a reconnect, or by memory after an error. The sends are `callApi`
with its retries. `MaxProcessed` and `Slack` are its limits (10 000 and 1 000).

### Skills

`skill[s]` is the row of a skill with the tool of its metadata, `versions[s]` its
versions with their latest verdict. `Ingest` is one transaction; `ToggleRead`,
`ToggleWrite`, `OverrideRead`, `OverrideVet` and `OverridePoint` are the separate
statements of the two admin requests. `Resolve` and `GuardEntry` build the catalog
of a turn. The guard before each run is two reads: `GuardReads` and `GuardDenies`
look at the skill, `RunAllowed` and `RunBlocked` at the version the first found
current (`read`), with whatever verdict it has by then. `live` is a history
variable: the turns whose call has had the current text of an enabled skill since
the model asked for it. A source text is a model value with the rules the scan
finds in it (`Matches`) and the text without its white space (`Trimmed`); a hash
identifies its text. The versions table (`Stored`, a row per skill and place)
holds at most `MaxVersions` rows over all skills: a bound of the model, the code
has none.

### Routing and Turns

`Routing` has `classifyTier`, `selectModel`, `escalateModel`, the price table and
`enforceSpendControls` as operators over the signals of a message; amounts are in
10^-8 US dollars. `Turns` runs `executeEvent` for a turn per slot: find and create
the conversation and its participant, read the cost of the month, call, escalate
once, use tools, call again, write the reply, store a fact, log the cost, and
generate a title behind it all. A user writes in any threads, and a thread may have
several users, so a participant is a thread and a user, and `memory` has the rows of a
user and key, whichever thread a fact came by. Two facts of one key always have one
importance (`Importance`).

What a call costs is not what was estimated: the provider says how many tokens the
prompt had (`PromptCharges` against the estimate `PromptTokens`) and by which name the
model is charged (`Reported`, the same name in every call of a model; one the price
table does not know costs nothing in the log). An answer uses the estimated tokens or
all it may; that a provider keeps `max_tokens` is assumed. `usage` is the usage log and
`spent` the history of what calls cost, both by the slot whose turn they were of, and
`excess` what the last answered call of a slot cost beyond its estimate. The cost of
the month that a turn reads is the sum over all slots (`Recorded`). A slot stands for a
sequence of turns that do not overlap: with n turns at once at most, n slots take them
all. `atOnce` and `titlers` are histories: the most turns of a user, and the most
titles of a thread, that were under way at once.

### GhlActions and SubAgents

`GhlActions` is what the handlers of the CRM sub-agent have in common as a table:
what an action requires, whether it searches for its contact, which fields it sets
and whether they are checked, and the wrapper it calls, with its method and what
reading the answer needs. `SubAgents` runs that table: `ReadSettings` and
`Dispatch` are `processSubAgentCalls`, `CreateTask`, `MarkRunning` and `CloseTask`
the task row, `Found`, `Compared`, `Answered`, `Rejected`, `Unanswered`,
`AnswerLost` and `Unusable` the requests of a handler, `ReportError` and `WriteLog`
the action log. `effects` counts how often the request of a call was carried out,
`lost` how often that was not seen. `success` and `failure` are the entries of a call in
the log: a handler writes the first behind its answer before it puts the answer into
words, and where that reads the items of a list (`items` in the table) it may throw, so
that a second entry says the opposite (`Unreadable`). A search that counts one contact
lists that one, with an id or without, or none; what it lists otherwise does not matter.

## 3. What the runs check

| Run | Question | Bounds | Distinct states |
|---|---|---|---|
| `email_jobs` | Is a job run by one process at a time, settled once and for all, and is the ledger, its liveness included, implemented? | 2 processes (one with ingress), 2 jobs, one unparseable, budget 2, 3 claims, sweep limit 1, 1 fault; runs within lease | 102 455 |
| `email_jobs_overrun` | What still holds if a run outlives its lease, and is every job settled? | 1 job, budget 3, 6 claims, 2 faults | 102 288 |
| `email_intake` | Two jobs of one e-mail on one server? Does an e-mail vanish? | 2 servers, 3 e-mails, 4 deliveries, cache of 2, 1 fault | 2 144 549 |
| `email_threads` | Does an exchange stay in one conversation, what is sent among its own, its status tell the truth? | 2 authors, 3 e-mails or follow-ups, 2 e-mails processed, one shared subject and none, with a Message-ID or without, SMTP, 1 fault | 3 138 814 |
| `email_threads_record` | violated: a reply sent in a known thread is recorded | as above, no fault needed | |
| `receipts` | Do status, ledger and sheet agree, and is exported final? | 3 calls, a photo and a manual entry, 2 categories, 2 faults | 1 102 442 |
| `followup` | Is a follow-up sent once, and is what counts as sent delivered? | 4 calls, 2 recommendations, any context, 1 fault | 671 893 |
| `telegram` | Is an update processed and answered once, never lost, always taken up? | 2 servers, 2 updates, 2 calls at once, memory of 1, 1 retry, 3 environments, 2 faults | 539 678 |
| `skills` | Does only vetted, current text run, whatever overlaps? | 2 skills, 3 versions, 3 texts, 1 admin request and 1 turn at once, 1 fault | 2 951 694 |
| `skills_padded` | violated: a hash mismatch means that the text was changed | 1 skill | |
| `turns` | Are caps kept, costs logged, rows written once per turn at once, images seen? | 2 threads, 2 users, 2 overlapping events, 3 messages, 4 settings, prompts counted higher than estimated, 1 fault | 4 084 394 |
| `sub_agents` | Is only what was meant written, and is what the model is told true? | 1 turn of 2 calls, all CRM actions with arguments complete or not, 2 contacts, 2 faults | 987 093 |

**Properties of the passing runs** (besides a type invariant, which is proved for
every module with a state, also where no run spends time on it).

- *EmailJobs.* `ExclusiveRun`: one live run per job, and it holds the latest
  claim, so that the unconditional `mark*` updates only ever close their own
  claim. `DeliveryBounded`: one reply plus one per fault. `AttemptsBounded`:
  attempts exceed `maxAttempts` by faults only. `SettledStays`: completed and
  failed are final. `EveryJobSettles` (liveness): whatever crashed where, every
  job in the table is settled. `ReplySentIsTrue`: the row does not claim a reply
  that was not sent. `ImplementsLedger`: refinement, with its liveness.
- *EmailIntake.* `OneJobPerServer`: not by overlap, not after eviction, not
  after a restart. `ReceivedIsKept`: only a fault of its own loses an e-mail.
- *EmailThreads.* `ExchangeStaysTogether`: the keys found from the headers of a
  reply and of what answers it are one conversation, however often it goes on, as
  long as both e-mails come with their References or both without headers.
  `StaysAmongItsOwn`: whether the recipient is named or comes from a thread row, it is
  somebody who wrote in that conversation, and in an exchange that began with a
  Message-ID the headers name e-mails of that exchange only, although e-mails of
  several authors share a conversation, its row and its last record.
  `StatusIsTrue`: sent and failed against the copies that went out, over retries
  and lost answers.
- *Receipts.* `ExportedIsRecorded`, `ExportedStays`, `LedgerAgrees` as named;
  `AppendedOnceApart`: calls one after the other append once; `StuckForGood`: a
  receipt whose ledger row was written but whose status was not can never be
  exported, although every later call appends to the sheet once more. This is
  what the code does, stated as a property so that a change of it shows.
- *FollowUp.* `SentWasDelivered` holds however calls overlap;
  `DeliveredOnceApart`: once and once more per fault, of a recommendation that no
  two calls worked on at once; `OneToActOnApart`: one recommendation without a
  context to act on, besides those of the draft look-up's blind spots (begun while
  another draft was made, brought back by overlapping calls, or with an empty
  context): later drafts find the one there is; `SettledForGood`: once sent or
  dismissed and nothing of it under way, never sent again.
- *Telegram.* `ProcessedOnce`: again only after a check that fell back to memory;
  `AnsweredOnce`: one answer, and one more per fault; `NothingLost`: neither the
  offset of the polling loop nor the check for duplicates drops an update;
  `EveryUpdateTaken` (liveness).
- *Skills.* `DangerNeedsOverride`: dangerous text runs only if a version with that
  text was overridden by hand; `EnabledWasVetted` with the checks and writes of
  toggles, overrides and uploads interleaved; `StaleNeverRuns`: what runs was the
  current text of its skill, and the skill enabled, at a moment since the model
  asked for it, although uploads, toggles and overrides come between the two reads
  of the guard and the run. (That it is still current when it runs is not so.)
- *Turns.* `WithinCaps`: the calls of a turn are within the cap of a request, and the
  turns of a slot within that of the month, but for what the last call cost beyond its
  estimate: the next one makes up for it. So n turns at once spend at most n budgets,
  and estimates that are too low do not add up. `LogIsComplete`: the usage log and the
  turns that have still to write to it account for every answered call;
  `FailsOnlyInARace`: a unique key refuses only events of one thread that
  overlapped; `DowngradeIsSound`: an image goes to a model that sees, and a
  downgrade never to one estimated dearer; `WrittenOncePerRace`: a fact has no more
  memory rows than turns of its user were under way at once, in whichever threads, and
  a thread no more titles than were generated at once.
- *SubAgents.* `WritesAreMeant`: only with a tool that is on, and only to the one
  contact named or found; `ToldTheTruth`: what a call is told to have done took
  effect once, plus once per lost answer, and task row and log say the same, except that
  a call that only read may have a success and an error in the log, and is told of the
  error.

**Divergences.** Two violation runs state what a comment says and the code does
not do; `findings` quotes the lines.

- `email_threads_record`: inbound and outbound record of one exchange share a
  `messageId`, which is unique, so in a known thread one of them is refused.
- `skills_padded`: a text with white space around it is bound trimmed but was
  hashed untrimmed. It is vetted, enabled and offered, and every run is refused.

Others met while modelling are visible in the models but have no run of their own:

- `docs/PROJECT_DOCUMENTATION.md:665` gives e-mail processing 3 attempts. A crash
  in the last attempt leaves a stale running row, and `claimForRun`
  (`repositories/job.repository.ts:41`) claims it whatever its attempts
  (`AttemptsBounded` allows one per fault).
- `docs/demo-contingency.md:52` has a failed e-mail send show on the jobs page as
  retrying or failed. A failed send only sets `replySent` and the job completes
  (`workers/email-processing.worker.ts:80`).
- `docs/api-spec.md:231` has duplicate e-mails removed by message id in memory and
  in the database; two servers look in the table before either inserts
  (`workers/email-processing.worker.ts:122`; hence `OneJobPerServer`).
- `docs/handoff.md:112` has duplicate appends to the sheet prevented by the
  idempotency key. The key keeps two *inserts* apart, not two `set_category` calls
  of one receipt (`services/subagents/bookkeeping/bookkeeping.service.ts:287`;
  hence `AppendedOnceApart`).
- The first e-mail of an exchange is keyed by its subject, and an answer that
  keeps its headers by the root Message-ID, so the two are in different
  conversations, although the comment at `integrations/email/normalizer.ts:68`
  has the headers find the existing thread. Hence the condition of
  `ExchangeStaysTogether`.
- Escalation guesses the tier from the failed model
  (`services/routing/model-router.ts:216`): a Gemini model that answers for the
  standard tier is not moved "up one tier", as the comment at :213 says.
- The CRM tool offers `get_task`, `get_appointment` and `update_invoice`
  (`orchestration/tool-resolver.ts:51`, `:59`, `:72`), which the dispatcher does
  not know (`orchestration/sub-agent-dispatcher.ts:109`) and runs as
  `search_contact`.
- `updates` must be "from the editable fields list" (`tool-resolver.ts:138`);
  opportunities, tasks, conversations and the location take them unchecked
  (`services/subagents/ghl-crm.service.ts:2426`).
- "All operations are logged" (`ghl-crm.service.ts:77`): refusals, a contact that
  is not found and an entry that fails to be written are not; and a search or a list
  whose answer cannot be put into words is logged twice, as a success and as an error
  (`ghl-crm.service.ts:239`, `:2597`).
- A follow-up draft looks for an empty context under the reason `''`
  (`services/subagents/followup/followup.service.ts:161`) and stores it as
  `no_reply` (`:190`), so two such drafts, one after the other, leave two
  recommendations to act on. Hence the exception in `OneToActOnApart`.
- The body field `maxCostPerRequestUsd` (`docs/api-spec.md:138`) is kept for the
  estimate of a prompt (`services/routing/model-pricing.ts:68`), not for what the
  provider counts (`integrations/openrouter/client.ts:178`). Hence the excess in
  `WithinCaps`.

**Why the bounds are enough.** Two processes, servers, turns or calls suffice for
a race over one row; a third (receipts) or fourth call (follow-ups: draft,
approve, dismiss, approve) shows what a later call makes of what the race left.
Two jobs with a sweep limit of one make the limit bite, and one of them being
unparseable puts a job that is only rejected before one that must run. Four
deliveries fill and overflow a cache of two; two updates overflow a memory of one.
Three e-mails are an exchange that goes back and forth twice, two authors and an
answer in one thread, or two authors of a thread and a follow-up in it. Three
versions are a current one, one uploaded meanwhile, and one of another skill. Two
calls of one turn are enough for what one call leaves to the next; turns share
nothing in SubAgents. The settings of Turns have a budget that two turns exceed
together, a cap that forces a downgrade, rules that lead to a model without price
or eyes, and an escalation. One fault puts a crash or a failed write at every
point of every behaviour; two let a retry fail again. The claims a job can have
(`MaxClaims`) exceed budget plus faults in every run, so that bound is never what
stops a behaviour.

**Deadlock** is checked in EmailJobs (sweeps never end) and Skills. It is off in
the other runs: the bounded e-mails, updates, events and calls are eventually used
up.

**Symmetry** is used only in runs without liveness, over e-mails without an id,
servers, calls, recommendations, threads, contacts and skills, which no definition
tells apart.

**Fairness** is assumed for EmailJobs and Telegram. In EmailJobs it is weak
throughout. `Sweep`: an interval timer of five minutes in `server.ts` and
`worker.ts`. `Claim` / `ClaimLost`, `RejectInvalid`: promises already started, and
retry timers, in a process that is alive. `RunStep`: the event loop goes on, and
every external call has a deadline (60 s for the model,
`integrations/openrouter/client.ts`; 30 s for e-mail,
`integrations/email/client.ts`). `Expire`: time passes. `Restart`: a service that
died is restarted (`restart: unless-stopped` of the worker in
`src/docker-compose.yml`; the hosting platform does the same); it is needed for
one process only, since any of them sweeps. Nothing is assumed of new e-mails, of
crashes or of faults; there are finitely many faults, since a database that always
fails settles nothing. In Telegram, a server is restarted and its polling loop and
promises go on (weak); Telegram repeats an update to the webhook until it is
answered 200, which strong fairness of `Webhook` per update says, because a server
may be down or busy again and again in between.

## 4. What is proved

Each theorem holds for every value of the constants that satisfies the module's
assumption; TLC evaluates those assumptions in the runs.

| Module | Theorems |
|---|---|
| `EmailJobs_proofs`, of EmailJobs | `TypeCorrect`, `OneRunAtATime`, `AttemptsAreBounded`, `DeliveriesAreBounded`, `SettledJobsStay`, `ReplySentHolds`, `LedgerImplemented` |
| `EmailJobs_proofs`, of EmailIntake | `IntakeTypesHold`, `NothingVanishes`, `OneJobEach` |
| `Receipts_proofs` | `TypeCorrect`, `ExportedRecorded`, `AppendedOnceAlone`, `LedgerAgreed`, `ExportedForGood`, `StuckStays` |
| `FollowUp_proofs` | `TypeCorrect`, `SentIsDelivered`, `DeliveredOnce`, `OneToActOn`, `SettledStaysForGood` |
| `EmailThreads_proofs` | `TypeCorrect`, `RepliesStayTogether`, `SentAmongItsOwn`, `StatusTellsTheTruth` |
| `Telegram_proofs` | `TypeCorrect`, `NothingTakenBack`, `NoUpdateLost`, `ProcessedAgainAfterFallback`, `OneAnswerPlusFaults` |
| `Skills_proofs` | `TypeCorrect`, `DangerousTextWasOverridden`, `EnabledSkillWasVetted`, `StaleTextNeverRuns` |
| `Turns_proofs`, with Routing | `TypeCorrect`, `BudgetsHold`, `AccountsForCalls`, `RefusedOnlyInARace`, `DowngradesAreSound`, `WritesOncePerRace` |
| `SubAgents_proofs` | `TypeCorrect`, `WrittenAsMeant`, `TruthTold`, `AnswerStays` |

**EmailJobs.** `ExclusiveRun` alone is not inductive: a second claim is excluded
because a live run's lease is fresh, and a fresh lease is what `Claimable`
rejects. `IndInv` adds that (`ClaimHeld`); that whoever waits for a retry was
granted it below the budget (`RetryHasBudget`), for the bound on attempts; that a
running row without a run cost a fault (`OrphanCostFault`); and that so did every
reply an unanswered job has had (`UnsentCostFault`). The theorems that rest on it
assume `RunsWithinLease`, the type invariant and `ReplySentHolds` do not. The
refinement maps each action: `Enqueue` to `Submit`, `Claim` to `Take`, `mark*` to
`Finish` or `Release`, a crash to the `Release` of all the process held, the rest
to stuttering; it uses `IndInv` on both sides of a step.

**EmailIntake.** `OneJobEach` (assuming `EvictsSettled`) rests on: a delivery in
flight is in its server's cache, hence there is one per e-mail and server; and
when it is about to insert, no job of that server is live. `NothingVanishes` needs
only that what is cached was received.

**Receipts.** `Stages` says what each request of a call has behind it; in
particular the data of a row that was not extracted is unusable, so a
`set_category` that read it cannot export it, and the one call still extracting
finds it pending: this is what makes exported final. `Order` is the order of the
three writes of an export. For receipts no two calls work on at once, `Alone`,
`Agreed` and `Once` follow the one call at work.

**FollowUp.** In the same way: `Stages`, then `Alone`, `Kept` and `Once` for
recommendations outside `overlapped`, and `Clear`: while a draft without a context is
made that began when no other was being made, it is the only such draft, and there is
nothing to act on but what is `Hidden` (`overlapped`, `unseen` or `custom`). Nothing is
hidden but what a step puts there, and that stays (`Hiding`).

**EmailThreads.** `Counted` ties the copies, the lost answers, the attempt and the
status of a delivery to its stage. `RowsNamed` says that a thread row names
somebody who wrote in its conversation, which makes the fallback of `Recipient`
sound although the row may be anybody's; `Exchange` says of every e-mail that what
its headers name is of its exchange, and that an answer's References begin where
those of the answered e-mail begin, which is what `resolveThreadId` looks at; and
`Addressed` says the same of what is being sent, with whom it goes to. An e-mail
only adds to what was written before (`Longer`), so all three survive arrivals.

**Telegram.** An update is held when a call works on it or it is closed. `IndInv`
says that an update Telegram gave up (`Kept`), one below the offset of a loop
(`Confirmed`) and one older than the batch at hand (`Gaps`) is held; that what Redis
or a memory remembers was taken up beyond the check for duplicates (`Remembered`);
and that a loop works on one update at a time, the oldest of its batch (`Loops`).
`NothingTakenBack`, an action property that no run checks, is what each step leaves
of that. On top stand two counting invariants: `Counts`, processing against keys and
checks that fell back, and `Answers`, where the answers given and the calls that may
still answer, a cardinality, are weighed against the key and the faults.

**Skills.** What an admin request read before its write is still good when it
writes: `Requests` says of each stage of a toggle or an override what the versions
hold, which is stable because an upload only appends and an override only approves
(`Grown`). `EnabledHas` and `Pointing` are the two halves of `EnabledWasVetted`,
`Verdicts` what an approved dangerous text must have behind it, and `OneCall` that
the entry that was guarded is the one that runs. `Reading` is what
`StaleNeverRuns` rests on: if the version a guard has read has the text of the
call, then it was the current one after the call was made, because a version's
text never changes. `DangerNeedsOverride` is a conjunct of its own: a text that
runs is that of a version which its guard found approved. `Bounded` needs a count:
the table grows by one row at a time and only while it has fewer than
`MaxVersions`, and a skill with that many versions fills it by itself, so that no
place a toggle or an override points to lies beyond the bound.

**Turns.** The lemmas come in three groups. The first says what the sum over the
slots is, which a turn reads as the cost of the month (`Recorded`): `SumFunction`
of the community modules rests on a recursive function that no prover unfolds, so
the proof shows, by the smallest set on which two candidates would differ, that
there is exactly one such function, and then that changing one value changes the
sum by as much (`SumChanges`). The second is about Routing alone: a tier always
yields a model, one that sees if the message has an image (`SelectTyped`), and
what `enforceSpendControls` decides is affordable with all the tokens it grants
(`Controls`). The third is the induction, over what a step may do to the record of
its turn (`Movement`, `Decisions`, `Payments`, `Writing`). `WithinCaps` is not
inductive: that a call stays within its caps was decided before it, for the prompt
as it was estimated (`Budgets`), and for the month it needs that a turn knows at
least what its own slot has logged (`Bounds`): it read the sum of all slots, which
is at least each of them (`SumCovers`), and nobody else logs for its slot. What
other slots log meanwhile does not matter, so nothing is assumed of overlaps.
`Suited` follows the model over escalation, tools and the second call, `Joined`
and `Stages` say what a turn has behind it, and `Apart` says of a thread that
never had two turns at once that what its turn is about to write is not there yet.
`Rows` bounds the rows of a fact and the turns about to insert one together by the
most turns of the user that were ever under way: whoever is about to insert found
no row, and those turns are all among the user's (`Busy`, `Inserting`, counted as
sets). `Titles` does the same for titles. Of the settings only their type is
assumed.

**SubAgents.** `IndInv` says of every call that it is `Sound`: aimed at one
contact, the one named or the only one found, before anything is written
(`AimedBeforeWriting`); that a request that was carried out cost an attempt, so
that `MAX_RETRIES` bounds its effects, and that only a call told to be completed
has an effect that was seen (`Counted`); without a result, an error in the log or
a final task status before its end, and without a success in the log before its
answer (`Staged`); and told the truth (`Told`). Two conjuncts tie calls to their
turn: `Switched`, a call that acts had its tool on, which stands because the
switches are read once, and `Unborn`, no call before that. Of the tables of
GhlActions only one thing is used: a handler that can fail on its summary only
reads (`SummariesOnlyRead`, by the table's rows); otherwise the theorems hold
whatever the handlers require and whichever requests are made. `AnswerStays`, an
action property that no run checks, needs one more fact, `Ahead`: the next call of
a turn is never dispatched over another.

**Only model-checked:** the liveness properties `EveryJobSettles` and
`EveryUpdateTaken` and the liveness part of `JobLedger`, since liveness under fairness
is beyond the prover, and the two violations. What the tables of GhlActions contain is
data, which TLC evaluates.

**What the proofs changed in the models.** `Stored` of Skills and the candidates of
the spend controls were sequences built by flattening and filtering, of which the
provers know nothing; they are sets now, with the place of each entry as a field, so
the order in which the code goes through them is kept. EmailIntake and EmailJobs share
their faults in EmailFaults, so that one module can prove about both. Skills and the
contacts of the CRM are assumed to be finite, as their tables are: the cardinality of
an infinite set says nothing.

## 5. Plan

1. **Proofs** of more action properties: that a status once sent or failed is
final (EmailThreads) and that a conversation, a fact or a title once written stays
(Turns); and of an abstract specification of the intake, as JobLedger is one of
the job protocol, with the step by step mapping. 2. **Composition of EmailJobs
with Receipts and EmailThreads**: the key of a receipt is the database id of the
inbound message, which a repeated run of an e-mail job creates anew, so the same
receipt is filed again
(`services/subagents/bookkeeping/bookkeeping.service.ts:113`); and the record a
first run left is what the look-up of the intake finds for a redelivery. 3.
**Conversation status**: a closing phrase closes a conversation behind a turn that
may already have a successor.

Modules to be proved about declare no RECURSIVE operator; none has been needed.

## 6. Not modelled

Text (parsing, prompts, which words make a fact, the patterns of the security
scan, the wording of CRM results), the bodies of messages, the admin API and
portal, and the language and vision models, whose answers are nondeterministic
inputs. The BullMQ queues: no code path enqueues to them. What the CRM stores, and
another client that writes to it between the read and the write of an update
(`services/subagents/ghl-crm.service.ts:419`). The audit log, which nothing reads
back. A blank message id, by which all such e-mails of the webhook share one key
of the intake's cache (`services/channels/email.inbound.ts:26`). The status
`closed` of a conversation. Two properties of the environment are parameters, not
facts: `RunsWithinLease` and `EvictsSettled`.
