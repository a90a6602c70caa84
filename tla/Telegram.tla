------------------------------ MODULE Telegram ------------------------------
(***************************************************************************)
(* From a Telegram update to the reply in the chat: the webhook or the     *)
(* polling loop of each server, the check for duplicates in Redis with the *)
(* memory of one server behind it, the processing, and sendMessage with    *)
(* its retries.  integrations/telegram, services/channels/telegram.delivery*)
(* Telegram itself keeps an update until its webhook answers 200 or a      *)
(* getUpdates call asks for a later one.                                   *)
(***************************************************************************)
EXTENDS Integers, FiniteSets, Sequences

CONSTANTS
  Servers,        \* API processes
  Handlers,       \* slots for calls of processTelegramUpdate under way
  MaxUpdates,     \* updates of a behaviour, numbered as Telegram numbers them
  Configs,        \* environments: is the token, the secret, a public URL, Redis set; production
  MaxProcessed,   \* MAX_PROCESSED_IDS
  Slack,          \* ids an overflow evicts beside the excess
  MaxRetries,     \* of callApi
  MaxFaults       \* bound: crashes, lost answers, Redis errors, failed calls

ASSUME TelegramAssumption ==
  /\ Servers # {} /\ IsFiniteSet(Handlers)
  /\ MaxUpdates \in Nat \ {0} /\ MaxRetries \in Nat /\ MaxFaults \in Nat
  /\ MaxProcessed \in Nat /\ Slack \in 0..MaxProcessed
  /\ Configs \subseteq [token : BOOLEAN, secret : BOOLEAN, url : BOOLEAN,
                        redis : BOOLEAN, production : BOOLEAN]

Updates == 1..MaxUpdates

VARIABLES
  config,       \* the environment all servers run in
  registered,   \* Telegram: a webhook is set
  arrived,      \* Telegram: the newest update
  pending,      \* Telegram: updates nobody has confirmed
  mode,         \* what startTelegramRuntime of a server came to
  offset,       \* polling loop: 0 stands for undefined
  batch,        \* polling loop: updates of the last getUpdates not yet processed
  keys,         \* Redis: update ids seen within the day of their TTL
  memory,       \* processedUpdateIds of a server, oldest first
  call,         \* a processTelegramUpdate call per handler
  processed,    \* history: calls past the duplicate check, per update
  fallbacks,    \* history: checks that fell back from Redis to memory, per update
  answers,      \* history: texts that reached the chat, per update
  closed,       \* history: updates answered in the chat, without event, or lost to a fault
  faults

telegram == <<registered, arrived, pending>>
loop == <<mode, offset, batch>>
dedupe == <<keys, memory>>
history == <<processed, fallbacks, answers, closed>>
vars == <<config, telegram, loop, dedupe, call, history, faults>>

CallPc == {"free", "checking", "executing", "sending", "over"}
NoCall == [pc |-> "free", server |-> CHOOSE s \in Servers : TRUE, update |-> 1, polled |-> FALSE,
           tries |-> 0]

Fault == faults < MaxFaults /\ faults' = faults + 1

Init ==
  /\ config \in Configs
  /\ registered \in BOOLEAN
  /\ arrived = 0 /\ pending = {}
  /\ mode = [s \in Servers |-> "down"]
  /\ offset = [s \in Servers |-> 0]
  /\ batch = [s \in Servers |-> {}]
  /\ keys = {} /\ memory = [s \in Servers |-> <<>>]
  /\ call = [h \in Handlers |-> NoCall]
  /\ processed = [u \in Updates |-> 0] /\ fallbacks = [u \in Updates |-> 0]
  /\ answers = [u \in Updates |-> 0] /\ closed = {}
  /\ faults = 0

-----------------------------------------------------------------------------
(* Start of a server.                                                      *)

ResolveMode ==
  IF ~config.token THEN "disabled"
  ELSE IF config.url /\ config.secret THEN "webhook" ELSE "polling"

StartWebhook(s) ==
  /\ mode[s] = "down" /\ ResolveMode = "webhook"
  /\ registered' = TRUE
  /\ mode' = [mode EXCEPT ![s] = "webhook"]
  /\ UNCHANGED <<config, arrived, pending, offset, batch, dedupe, call, history, faults>>

\* Polling clears the webhook first, and starts whether or not that worked.
StartPolling(s) ==
  /\ mode[s] = "down" /\ ~config.production
  /\ \/ ResolveMode = "polling" /\ registered' = FALSE /\ UNCHANGED faults
     \/ ResolveMode = "polling" /\ UNCHANGED registered /\ Fault
     \/ ResolveMode = "webhook" /\ registered' \in BOOLEAN /\ Fault
  /\ mode' = [mode EXCEPT ![s] = "polling"]
  /\ UNCHANGED <<config, arrived, pending, offset, batch, dedupe, call, history>>

\* Without a token, and in production wherever a webhook cannot be set.
StartDisabled(s) ==
  /\ mode[s] = "down"
  /\ \/ ResolveMode = "disabled" /\ UNCHANGED <<registered, faults>>
     \/ config.production /\ ResolveMode = "polling" /\ UNCHANGED <<registered, faults>>
     \/ config.production /\ ResolveMode = "webhook" /\ registered' \in {registered, TRUE} /\ Fault
  /\ mode' = [mode EXCEPT ![s] = "disabled"]
  /\ UNCHANGED <<config, arrived, pending, offset, batch, dedupe, call, history>>

-----------------------------------------------------------------------------
(* How an update reaches a server.                                         *)

Arrive ==
  /\ arrived < MaxUpdates
  /\ arrived' = arrived + 1
  /\ pending' = pending \cup {arrived + 1}
  /\ UNCHANGED <<config, registered, loop, dedupe, call, history, faults>>

Free == {h \in Handlers : call[h].pc = "free"}

\* Which slot a call takes makes no difference.
Begin(s, u, polled) ==
  /\ Free # {}
  /\ call' = [call EXCEPT ![CHOOSE h \in Free : TRUE] =
                [pc |-> "checking", server |-> s, update |-> u, polled |-> polled, tries |-> 0]]

\* The route answers 200 before it processes; Telegram repeats the update if it
\* does not see that answer.  The route is there whatever the mode.
Webhook(s, u) ==
  /\ registered /\ config.secret /\ mode[s] # "down" /\ u \in pending
  /\ Begin(s, u, FALSE)
  /\ \/ pending' = pending \ {u} /\ UNCHANGED faults
     \/ UNCHANGED pending /\ Fault
  /\ UNCHANGED <<config, registered, arrived, loop, dedupe, history>>

Looping(s) == \E h \in Handlers :
  call[h].pc # "free" /\ call[h].server = s /\ call[h].polled

\* getUpdates confirms what lies before the offset.  While a webhook is set it fails.
GetUpdates(s) ==
  /\ mode[s] = "polling" /\ ~registered /\ batch[s] = {} /\ ~Looping(s) /\ pending # {}
  /\ pending' = {u \in pending : u >= offset[s]}
  /\ batch' = [batch EXCEPT ![s] = pending']
  /\ UNCHANGED <<config, registered, arrived, mode, offset, dedupe, call, history, faults>>

TakeFromBatch(s) == \E u \in batch[s] :
  /\ ~Looping(s) /\ \A v \in batch[s] : u <= v
  /\ Begin(s, u, TRUE)
  /\ UNCHANGED <<config, telegram, loop, dedupe, history, faults>>

Goes(h, to) == call' = [call EXCEPT ![h].pc = to]

\* The end of a call: nobody waits for it in the webhook, the loop does.
Ended(c) == IF c.polled THEN [c EXCEPT !.pc = "over"] ELSE NoCall
Returns(h) == call' = [call EXCEPT ![h] = Ended(@)]

MAdvance(h) == LET s == call[h].server IN
  /\ call[h].pc = "over"
  /\ offset' = [offset EXCEPT ![s] = arrived + 1]
  /\ batch' = [batch EXCEPT ![s] = {}]
  /\ call' = [call EXCEPT ![h] = NoCall]
  /\ UNCHANGED <<config, telegram, mode, dedupe, history, faults>>

MAdvanceStays(h) == LET s == call[h].server u == call[h].update IN
  /\ call[h].pc = "over"
  /\ offset' = [offset EXCEPT ![s] = u]
  /\ batch' = [batch EXCEPT ![s] = @ \ {u}]
  /\ call' = [call EXCEPT ![h] = NoCall]
  /\ UNCHANGED <<config, telegram, mode, dedupe, history, faults>>

\* The polling loop goes on behind the update it has processed.
Advance(h) == LET s == call[h].server u == call[h].update IN
  /\ call[h].pc = "over"
  /\ offset' = [offset EXCEPT ![s] = u + 1]
  /\ batch' = [batch EXCEPT ![s] = @ \ {u}]
  /\ call' = [call EXCEPT ![h] = NoCall]
  /\ UNCHANGED <<config, telegram, mode, dedupe, history, faults>>

-----------------------------------------------------------------------------
(* isDuplicateUpdate.                                                      *)

Counted(u) == processed' = [processed EXCEPT ![u] = @ + 1]

MSetNX(h) == LET u == call[h].update IN
  /\ keys' = keys \cup {u}
  /\ Goes(h, "executing") /\ Counted(u)

\* SET with NX answers OK to the first who sets the key.
SetNX(h) == LET u == call[h].update IN
  /\ keys' = keys \cup {u}
  /\ IF u \in keys THEN Returns(h) /\ UNCHANGED processed
     ELSE Goes(h, "executing") /\ Counted(u)

CheckRedis(h) ==
  /\ call[h].pc = "checking" /\ config.redis
  /\ SetNX(h)
  /\ UNCHANGED <<config, telegram, loop, memory, fallbacks, answers, closed, faults>>

\* The connection breaks after the key was set.  maxRetriesPerRequest is null, so
\* ioredis sends the command again, which then finds its own key.
SetUnseen(h) == LET u == call[h].update IN
  /\ call[h].pc = "checking" /\ config.redis /\ Fault
  /\ closed' = IF u \in keys THEN closed ELSE closed \cup {u}
  /\ keys' = keys \cup {u}
  /\ UNCHANGED <<config, telegram, loop, memory, call, processed, fallbacks, answers>>

MTrack(s, u) ==
  memory' = [memory EXCEPT ![s] = Append(IF Len(@) <= MaxProcessed THEN @ ELSE Tail(@), u)]

\* trackUpdateId: beyond the limit the oldest ids go, the excess and some more.
Track(s, u) ==
  LET ids == Append(memory[s], u) IN
  memory' = [memory EXCEPT ![s] =
               IF Len(ids) <= MaxProcessed THEN ids
               ELSE SubSeq(ids, Len(ids) - MaxProcessed + Slack + 1, Len(ids))]

Known(s, u) == \E i \in 1..Len(memory[s]) : memory[s][i] = u

\* Without Redis, or when it reports an error, set or not, this server's ids decide.
CheckMemory(h) == LET u == call[h].update s == call[h].server IN
  /\ call[h].pc = "checking"
  /\ \/ ~config.redis /\ UNCHANGED <<keys, fallbacks, faults>>
     \/ /\ config.redis /\ Fault /\ keys' \in {keys, keys \cup {u}}
        /\ fallbacks' = [fallbacks EXCEPT ![u] = @ + 1]
  /\ IF Known(s, u) THEN Returns(h) /\ UNCHANGED <<memory, processed>>
     ELSE Track(s, u) /\ Goes(h, "executing") /\ Counted(u)
  /\ UNCHANGED <<config, telegram, loop, answers, closed>>

-----------------------------------------------------------------------------
(* Processing and the reply.                                               *)

Closes(h) == closed' = closed \cup {call[h].update}

\* The update holds no event, or normalizing it throws: it is dropped either way.
NoEvent(h) ==
  /\ call[h].pc = "executing"
  /\ Returns(h) /\ Closes(h)
  /\ UNCHANGED <<config, telegram, loop, dedupe, processed, fallbacks, answers, faults>>

\* executeEvent gives a reply to deliver, or throws and the chat gets an apology:
\* one text is sent either way, because deliverToTelegram never throws.
Execute(h) ==
  /\ call[h].pc = "executing"
  /\ Goes(h, "sending")
  /\ UNCHANGED <<config, telegram, loop, dedupe, history, faults>>

Reaches(h) == answers' = [answers EXCEPT ![call[h].update] = @ + 1]

\* After a failed attempt of callApi another follows, up to MaxRetries.
NextAttempt(h) ==
  IF call[h].tries < MaxRetries THEN call' = [call EXCEPT ![h].tries = @ + 1] ELSE Returns(h)

MSendOk(h) ==
  /\ call[h].pc = "sending"
  /\ Reaches(h) /\ Closes(h)
  /\ NextAttempt(h)
  /\ UNCHANGED <<config, telegram, loop, dedupe, processed, fallbacks, faults>>

\* The text is in the chat, and the status of its message is settled with it.
SendOk(h) ==
  /\ call[h].pc = "sending"
  /\ Reaches(h) /\ Closes(h)
  /\ Returns(h)
  /\ UNCHANGED <<config, telegram, loop, dedupe, processed, fallbacks, faults>>

\* No answer in time, to a message that reached the chat or did not.
SendTimesOut(h) ==
  /\ call[h].pc = "sending" /\ Fault
  /\ NextAttempt(h)
  /\ Closes(h)
  /\ Reaches(h) \/ UNCHANGED answers
  /\ UNCHANGED <<config, telegram, loop, dedupe, processed, fallbacks>>

\* An error status, 4xx or not, is thrown or kept and followed by another attempt
\* too; an answer that is not ok ends the call.
SendRefused(h) ==
  /\ call[h].pc = "sending"
  /\ \/ NextAttempt(h) /\ (IF call[h].tries = MaxRetries THEN Closes(h) ELSE UNCHANGED closed)
     \/ Returns(h) /\ Closes(h)
  /\ UNCHANGED <<config, telegram, loop, dedupe, processed, fallbacks, answers, faults>>

-----------------------------------------------------------------------------
HeldBy(s) == {h \in Handlers : call[h].pc # "free" /\ call[h].server = s}

\* A server ends.  What it was processing is gone; what it has polled but not
\* confirmed, Telegram still has.
Crash(s) ==
  /\ mode[s] # "down" /\ Fault
  /\ mode' = [mode EXCEPT ![s] = "down"]
  /\ offset' = [offset EXCEPT ![s] = 0]
  /\ batch' = [batch EXCEPT ![s] = {}]
  /\ memory' = [memory EXCEPT ![s] = <<>>]
  /\ call' = [h \in Handlers |-> IF h \in HeldBy(s) THEN NoCall ELSE call[h]]
  /\ closed' = closed \cup {call[h].update : h \in HeldBy(s)}
  /\ UNCHANGED <<config, telegram, keys, processed, fallbacks, answers>>

Start(s) == StartWebhook(s) \/ StartPolling(s) \/ StartDisabled(s)
Check(h) == CheckRedis(h) \/ CheckMemory(h)
Process(h) == NoEvent(h) \/ Execute(h) \/ SendOk(h) \/ SendRefused(h) \/ Advance(h)

Next ==
  \/ Arrive
  \/ \E s \in Servers :
       \/ Start(s) \/ GetUpdates(s) \/ TakeFromBatch(s) \/ Crash(s)
       \/ \E u \in Updates : Webhook(s, u)
  \/ \E h \in Handlers : Check(h) \/ SetUnseen(h) \/ Process(h) \/ SendTimesOut(h)

\* Servers are restarted, their event loops go on and calls have deadlines;
\* Telegram repeats an update until it is taken.
Fairness ==
  /\ \A s \in Servers :
       /\ WF_vars(Start(s))
       /\ WF_vars(GetUpdates(s))
       /\ WF_vars(TakeFromBatch(s))
  /\ \A u \in Updates : SF_vars(\E s \in Servers : Webhook(s, u))
  /\ \A h \in Handlers : WF_vars(Check(h) \/ Process(h))

Spec == Init /\ [][Next]_vars /\ Fairness

-----------------------------------------------------------------------------
(* Correctness.                                                            *)

TypeOK ==
  /\ config \in Configs /\ registered \in BOOLEAN
  /\ arrived \in 0..MaxUpdates /\ pending \subseteq Updates
  /\ mode \in [Servers -> {"down", "disabled", "webhook", "polling"}]
  /\ offset \in [Servers -> Nat] /\ batch \in [Servers -> SUBSET Updates]
  /\ keys \subseteq Updates
  /\ memory \in [Servers -> Seq(Updates)] /\ \A s \in Servers : Len(memory[s]) <= MaxProcessed
  /\ call \in [Handlers -> [pc : CallPc, server : Servers, update : Updates,
                            polled : BOOLEAN, tries : 0..MaxRetries]]
  /\ processed \in [Updates -> Nat] /\ fallbacks \in [Updates -> Nat]
  /\ answers \in [Updates -> Nat] /\ closed \subseteq Updates
  /\ faults \in 0..MaxFaults

\* With Redis an update is processed again only if a check of it fell back to
\* memory, over servers, webhook and polling, repeats, crashes and lost answers.
ProcessedOnce ==
  config.redis => \A u \in Updates : processed[u] <= 1 + fallbacks[u]

\* With Redis a chat gets one answer to an update, a reply or an apology, and at
\* most one more for each fault.
AnsweredOnce ==
  config.redis => \A u \in Updates : answers[u] <= 1 + faults

Underway(u) == \E h \in Handlers : call[h].pc # "free" /\ call[h].update = u

\* What Telegram no longer holds is being processed, was answered or turned down,
\* or met a fault of its own: neither the check for duplicates nor the offset of
\* the loop loses an update.
Answerable(u) == u \in pending \/ Underway(u) \/ u \in closed

NothingLost == \A u \in 1..arrived : Answerable(u)

\* Every update is taken up by a server, if the webhook works or, outside of
\* production, the bot can poll.
EveryUpdateTaken == \A u \in Updates :
  (u \in pending /\ config.secret /\ (registered \/ (config.token /\ ~config.production)))
    ~> u \notin pending
=============================================================================
