--------------------------- MODULE Telegram_proofs ---------------------------
(***************************************************************************)
(* Machine-checked proofs about Telegram, for any servers, environments,   *)
(* calls under way, updates, sizes of the memory, retries and faults.      *)
(***************************************************************************)
EXTENDS Telegram, SequenceTheorems, FiniteSetTheorems, TLAPS

USE TelegramAssumption DEF TelegramAssumption

CallRecord == [pc : CallPc, server : Servers, update : Updates, polled : BOOLEAN,
               tries : 0..MaxRetries]

-----------------------------------------------------------------------------
(* What the steps do to the calls.                                         *)

\* A free slot is a record of a call.
LEMMA NoCallIsRecord == NoCall \in CallRecord /\ NoCall.pc = "free"
BY DEF NoCall, CallRecord, CallPc, Updates

\* A call keeps what it is about.
Same(c, d) == c.server = d.server /\ c.update = d.update /\ c.polled = d.polled

\* The slot of a call that goes on, waits for the loop, or is free again.
Moves(h, c) ==
  /\ c \in CallRecord /\ call' = [call EXCEPT ![h] = c]
  /\ c = NoCall \/ (Same(c, call[h]) /\ c.pc # "free")

\* A call that ends is over for the loop and gone for the webhook.
Ends(h) == \E c : Moves(h, c) /\ c.pc \in {"over", "free"} /\ (c.pc = "over" => c.polled)

\* A call that returns is over, or its slot is free.
LEMMA ReturnMoves ==
  ASSUME TypeOK, NEW h \in Handlers, Returns(h)
  PROVE  Ends(h)
<1> USE DEF Ends
<1>1. call[h] \in CallRecord
  BY DEF TypeOK, CallRecord
<1>2. call' = [call EXCEPT ![h] = Ended(call[h])]
  BY DEF Returns
<1>3. CASE call[h].polled
  <2> DEFINE c == [call[h] EXCEPT !.pc = "over"]
  <2>1. c \in CallRecord /\ Same(c, call[h]) /\ c.pc = "over" /\ c.polled
    BY <1>1, <1>3 DEF CallRecord, CallPc, Same
  <2>2. call' = [call EXCEPT ![h] = c]
    BY <1>2, <1>3 DEF Ended
  <2> HIDE DEF c
  <2> QED
    BY <2>1, <2>2 DEF Moves
<1>4. CASE ~call[h].polled
  <2>1. call' = [call EXCEPT ![h] = NoCall]
    BY <1>2, <1>4 DEF Ended
  <2> QED
    BY <2>1, NoCallIsRecord DEF Moves
<1> QED
  BY <1>3, <1>4

\* A call that goes on keeps its update, server and origin.
LEMMA GoMoves ==
  ASSUME TypeOK, NEW h \in Handlers, NEW to \in CallPc \ {"free"}, Goes(h, to)
  PROVE  \E c : Moves(h, c) /\ c.pc = to /\ Same(c, call[h])
<1> DEFINE c == [call[h] EXCEPT !.pc = to]
<1>1. call[h] \in CallRecord
  BY DEF TypeOK, CallRecord
<1>2. c \in CallRecord /\ Same(c, call[h]) /\ c.pc = to
  BY <1>1 DEF CallRecord, Same
<1>3. call' = [call EXCEPT ![h] = c]
  BY DEF Goes
<1> HIDE DEF c
<1> QED
  BY <1>2, <1>3 DEF Moves

\* Another attempt, or the end.
LEMMA AttemptMoves ==
  ASSUME TypeOK, NEW h \in Handlers, call[h].pc = "sending", NextAttempt(h)
  PROVE  \/ call[h].tries < MaxRetries /\ \E c : Moves(h, c) /\ c.pc = "sending" /\ Same(c, call[h])
         \/ call[h].tries = MaxRetries /\ Ends(h)
<1>1. call[h] \in CallRecord
  BY DEF TypeOK, CallRecord
<1>2. CASE call[h].tries < MaxRetries
  <2> DEFINE c == [call[h] EXCEPT !.tries = call[h].tries + 1]
  <2>1. call[h].tries + 1 \in 0..MaxRetries
    BY <1>1, <1>2 DEF CallRecord
  <2>2. c \in CallRecord /\ Same(c, call[h]) /\ c.pc = "sending"
    BY <1>1, <2>1 DEF CallRecord, Same
  <2>3. call' = [call EXCEPT ![h] = c]
    BY <1>2 DEF NextAttempt
  <2> HIDE DEF c
  <2> QED
    BY <1>2, <2>2, <2>3 DEF Moves
<1>3. CASE ~(call[h].tries < MaxRetries)
  <2>1. call[h].tries = MaxRetries
    BY <1>1, <1>3 DEF CallRecord
  <2> QED
    BY <1>3, <2>1, ReturnMoves DEF NextAttempt
<1> QED
  BY <1>2, <1>3

\* A call that goes on with its update.
Works(h) ==
  \E c : Moves(h, c) /\ c.pc \in {"executing", "sending"} /\ Same(c, call[h])

\* What a check does.
LEMMA CheckEffect ==
  ASSUME TypeOK, NEW h \in Handlers, Check(h)
  PROVE  /\ call[h].pc = "checking" /\ UNCHANGED <<config, telegram, loop, closed>>
         /\ LET u == call[h].update s == call[h].server IN
            /\ keys' \in {keys, keys \cup {u}}
            /\ \/ /\ Works(h)
                  /\ UNCHANGED memory \/ Track(s, u)
               \/ /\ Ends(h) /\ UNCHANGED memory
                  /\ u \in keys \/ Known(s, u)
BY GoMoves, ReturnMoves
   DEF Check, CheckRedis, CheckMemory, SetNX, CallPc, Works, Ends

\* What the processing does: it goes on, or ends and closes the update.
LEMMA ProcessEffect ==
  ASSUME TypeOK, NEW h \in Handlers,
         NoEvent(h) \/ Execute(h) \/ SendOk(h) \/ SendRefused(h) \/ SendTimesOut(h)
  PROVE  /\ call[h].pc \in {"executing", "sending"}
         /\ UNCHANGED <<config, telegram, loop, dedupe>>
         /\ closed' \in {closed, closed \cup {call[h].update}}
         /\ Works(h) \/ (Ends(h) /\ call[h].update \in closed')
<1>1. CASE NoEvent(h)
  BY <1>1, ReturnMoves DEF NoEvent, Closes
<1>2. CASE Execute(h)
  BY <1>2, GoMoves DEF Execute, CallPc, Works, history
<1>3. CASE SendOk(h)
  BY <1>3, ReturnMoves DEF SendOk, Closes
<1>4. CASE SendRefused(h)
  BY <1>4, ReturnMoves, AttemptMoves DEF SendRefused, Closes, Works
<1>5. CASE SendTimesOut(h)
  BY <1>5, AttemptMoves DEF SendTimesOut, Closes, Works
<1> QED
  BY <1>1, <1>2, <1>3, <1>4, <1>5

\* The loop of a server confirms the update it has finished.
LEMMA AdvanceEffect ==
  ASSUME TypeOK, NEW h \in Handlers, Advance(h)
  PROVE  /\ call[h].pc = "over" /\ call' = [call EXCEPT ![h] = NoCall] /\ Ends(h)
         /\ UNCHANGED <<config, telegram, mode, dedupe, history>>
BY NoCallIsRecord DEF Advance, Ends, Moves

\* A new call takes a free slot.
LEMMA BeginEffect ==
  ASSUME TypeOK, NEW s \in Servers, NEW u \in Updates, NEW polled \in BOOLEAN, Begin(s, u, polled)
  PROVE  \E g \in Handlers, c \in CallRecord :
           /\ call[g].pc = "free" /\ call' = [call EXCEPT ![g] = c]
           /\ c.pc = "checking" /\ c.server = s /\ c.update = u /\ c.polled = polled
<1> DEFINE g == CHOOSE h \in Free : TRUE
           c == [pc |-> "checking", server |-> s, update |-> u, polled |-> polled, tries |-> 0]
<1>1. g \in Handlers /\ call[g].pc = "free"
  BY DEF Begin, Free
<1>2. c \in CallRecord
  BY DEF CallRecord, CallPc
<1>3. call' = [call EXCEPT ![g] = c]
  BY DEF Begin
<1> HIDE DEF g
<1> QED
  BY <1>1, <1>2, <1>3

-----------------------------------------------------------------------------
(* What is taken and what is held stays so.                                *)

Taken(u) == u \in closed \/ \E h \in Handlers :
  call[h].pc \in {"executing", "sending"} /\ call[h].update = u
TakenNext(u) == u \in closed' \/ \E h \in Handlers :
  call'[h].pc \in {"executing", "sending"} /\ call'[h].update = u

Held(u) == Underway(u) \/ u \in closed
HeldNext(u) == u \in closed' \/ \E h \in Handlers : call'[h].pc # "free" /\ call'[h].update = u

Stays == \A u \in Updates : /\ Taken(u) => TakenNext(u)
                            /\ Held(u) => HeldNext(u)

\* A call that works on takes nothing back, and its update is taken up.
LEMMA WorksStays ==
  ASSUME TypeOK, NEW h \in Handlers, Works(h), closed \subseteq closed'
  PROVE  Stays /\ TakenNext(call[h].update)
<1>1. PICK c : Moves(h, c) /\ c.pc \in {"executing", "sending"} /\ Same(c, call[h])
  BY DEF Works
<1>2. call'[h] = c /\ \A g \in Handlers \ {h} : call'[g] = call[g]
  BY <1>1 DEF Moves, TypeOK
<1>3. TakenNext(call[h].update)
  BY <1>1, <1>2 DEF TakenNext, Same
<1>4. ASSUME NEW u \in Updates, u # call[h].update
      PROVE  (Taken(u) => TakenNext(u)) /\ (Held(u) => HeldNext(u))
  BY <1>2, <1>4 DEF Taken, TakenNext, Held, HeldNext, Underway
<1>5. \A u : TakenNext(u) => HeldNext(u)
  BY DEF TakenNext, HeldNext
<1> QED
  BY <1>3, <1>4, <1>5 DEF Stays

\* Nor does a call that ends with its update closed or taken up before.
LEMMA EndsStays ==
  ASSUME TypeOK, NEW h \in Handlers, Ends(h), closed \subseteq closed',
         \/ call[h].update \in closed'
         \/ call[h].pc \notin {"executing", "sending"} /\ Taken(call[h].update)
  PROVE  Stays /\ TakenNext(call[h].update)
<1>1. PICK c : Moves(h, c)
  BY DEF Ends
<1>2. \A g \in Handlers \ {h} : call'[g] = call[g]
  BY <1>1 DEF Moves, TypeOK
<1>3. TakenNext(call[h].update)
  BY <1>2 DEF Taken, TakenNext
<1>4. ASSUME NEW u \in Updates, u # call[h].update
      PROVE  (Taken(u) => TakenNext(u)) /\ (Held(u) => HeldNext(u))
  BY <1>2, <1>4 DEF Taken, TakenNext, Held, HeldNext, Underway
<1>5. \A u : TakenNext(u) => HeldNext(u)
  BY DEF TakenNext, HeldNext
<1> QED
  BY <1>3, <1>4, <1>5 DEF Stays

-----------------------------------------------------------------------------
(* The invariant.                                                          *)

\* Ids are remembered of updates that were taken, and the loop waits for such.
Remembered ==
  /\ \A u \in keys : Taken(u)
  /\ \A s \in Servers, u \in Updates : Known(s, u) => Taken(u)
  /\ \A h \in Handlers : call[h].pc = "over" => call[h].polled /\ Taken(call[h].update)

InLoop(h) == call[h].pc # "free" /\ call[h].polled

\* The polling loop of a server has one call at a time, for the oldest of its batch.
Loops ==
  /\ \A h, g \in Handlers : InLoop(h) /\ InLoop(g) /\ call[h].server = call[g].server => h = g
  /\ \A h \in Handlers : InLoop(h) =>
       /\ call[h].update \in batch[call[h].server]
       /\ \A v \in batch[call[h].server] : call[h].update <= v

Numbered ==
  /\ pending \subseteq 1..arrived
  /\ \A s \in Servers : batch[s] \subseteq 1..arrived /\ offset[s] <= arrived + 1

\* What the offset confirms, and what is missing from a batch, is held.
Confirmed == \A s \in Servers : \A u \in 1..arrived :
  u < offset[s] => Held(u)
Gaps == \A s \in Servers : \A b \in batch[s] : \A v \in 1..arrived :
  v < b => v \in batch[s] \/ Held(v)

Kept == \A u \in 1..arrived : u \in pending \/ Held(u)

IndInv == TypeOK /\ Remembered /\ Loops /\ Numbered /\ Confirmed /\ Gaps /\ Kept

\* The steps, by what they do to the calls.
Quiet == \/ Arrive
         \/ \E s \in Servers : Start(s) \/ GetUpdates(s)
         \/ \E h \in Handlers : SetUnseen(h)
         \/ UNCHANGED vars
Begins == \E s \in Servers : TakeFromBatch(s) \/ \E u \in Updates : Webhook(s, u)
Processes(h) ==
  NoEvent(h) \/ Execute(h) \/ SendOk(h) \/ SendRefused(h) \/ SendTimesOut(h)

\* The kinds of steps there are, by what they do to the calls.
LEMMA StepKinds ==
  ASSUME [Next]_vars
  PROVE  \/ Quiet
         \/ Begins
         \/ \E h \in Handlers : Check(h) \/ Processes(h) \/ Advance(h)
         \/ \E s \in Servers : Crash(s)
BY DEF Next, Quiet, Begins, Processes, Process

\* A quiet step leaves calls and memories alone.
LEMMA QuietEffect ==
  ASSUME Quiet
  PROVE  UNCHANGED <<call, memory>> /\ closed \subseteq closed'
BY DEF Quiet, Arrive, Start, StartWebhook, StartPolling, StartDisabled, GetUpdates, SetUnseen,
   vars, history, dedupe, Closes

\* The state of a crashed server is lost, its calls close.
LEMMA CrashEffect ==
  ASSUME TypeOK, NEW s \in Servers, Crash(s)
  PROVE  /\ \A h \in Handlers : call'[h] = NoCall \/ call'[h] = call[h]
         /\ \A h \in Handlers : call'[h] # call[h] => call[h].update \in closed'
         /\ \A h \in Handlers : call[h].pc # "free" /\ call[h].server = s => call'[h] = NoCall
         /\ closed \subseteq closed'
         /\ call' \in [Handlers -> CallRecord]
<1>1. call \in [Handlers -> CallRecord]
  BY DEF TypeOK, CallRecord
<1>2. call' = [h \in Handlers |-> IF h \in HeldBy(s) THEN NoCall ELSE call[h]]
  BY DEF Crash
<1>3. closed' = closed \cup {call[h].update : h \in HeldBy(s)}
  BY DEF Crash
<1> QED
  BY <1>1, <1>2, <1>3, NoCallIsRecord DEF HeldBy

\* No step takes back that an update was taken up.
LEMMA EverythingStays ==
  ASSUME TypeOK, Remembered, [Next]_vars
  PROVE  Stays
<1>1. CASE Quiet
  BY <1>1, QuietEffect DEF Stays, Taken, TakenNext, Held, HeldNext, Underway
<1>2. CASE Begins
  <2>1. PICK s \in Servers, u \in Updates, polled \in BOOLEAN : Begin(s, u, polled) /\ UNCHANGED closed
    BY <1>2 DEF Begins, TakeFromBatch, Webhook, TypeOK, history
  <2>2. PICK g \in Handlers, c \in CallRecord :
          call[g].pc = "free" /\ call' = [call EXCEPT ![g] = c]
    BY <2>1, BeginEffect
  <2>3. \A h \in Handlers : call[h].pc # "free" => call'[h] = call[h]
    BY <2>2 DEF TypeOK
  <2> QED
    BY <2>1, <2>3 DEF Stays, Taken, TakenNext, Held, HeldNext, Underway
<1>3. ASSUME NEW h \in Handlers, Check(h) PROVE Stays
  <2>1. call[h].pc = "checking" /\ UNCHANGED closed
    BY <1>3, CheckEffect
  <2>2. call[h].update \in Updates /\ call[h].server \in Servers
    BY DEF TypeOK
  <2>3. Works(h) \/ (Ends(h) /\ Taken(call[h].update))
    BY <1>3, <2>2, CheckEffect DEF Remembered
  <2> QED
    BY <2>1, <2>3, WorksStays, EndsStays
<1>4. ASSUME NEW h \in Handlers, Processes(h) PROVE Stays
  BY <1>4, ProcessEffect, WorksStays, EndsStays DEF Processes
<1>5. ASSUME NEW h \in Handlers, Advance(h) PROVE Stays
  BY <1>5, AdvanceEffect, EndsStays DEF Remembered, history
<1>6. ASSUME NEW s \in Servers, Crash(s) PROVE Stays
  BY <1>6, CrashEffect DEF Stays, Taken, TakenNext, Held, HeldNext, Underway
<1> QED
  BY <1>1, <1>2, <1>3, <1>4, <1>5, <1>6, StepKinds

-----------------------------------------------------------------------------
(* The parts of the invariant, step by step.                               *)

\* Tracking an id drops old ones and keeps the limit.
LEMMA TrackEffect ==
  ASSUME TypeOK, NEW s \in Servers, NEW u \in Updates, Track(s, u)
  PROVE  /\ memory' \in [Servers -> Seq(Updates)]
         /\ \A r \in Servers : Len(memory'[r]) <= MaxProcessed
         /\ \A r \in Servers : \A i \in 1..Len(memory'[r]) : memory'[r][i] = u \/ Known(r, memory'[r][i])
<1> DEFINE ids == Append(memory[s], u)
           from == Len(ids) - MaxProcessed + Slack + 1
           kept == IF Len(ids) <= MaxProcessed THEN ids ELSE SubSeq(ids, from, Len(ids))
<1>1. /\ memory \in [Servers -> Seq(Updates)] /\ memory[s] \in Seq(Updates)
      /\ \A r \in Servers : Len(memory[r]) \in Nat /\ Len(memory[r]) <= MaxProcessed
  BY LenProperties DEF TypeOK
<1>2. /\ ids \in Seq(Updates) /\ Len(ids) = Len(memory[s]) + 1
      /\ \A i \in 1..Len(ids) : ids[i] = IF i <= Len(memory[s]) THEN memory[s][i] ELSE u
  BY <1>1, AppendProperties
<1>3. memory' = [memory EXCEPT ![s] = kept]
  BY DEF Track
<1>4. /\ kept \in Seq(Updates) /\ Len(kept) <= MaxProcessed
      /\ \A i \in 1..Len(kept) : kept[i] = u \/ Known(s, kept[i])
  <2> HIDE DEF ids
  <2>1. ASSUME NEW i \in 1..Len(ids) PROVE ids[i] = u \/ Known(s, ids[i])
    <3>1. Len(memory[s]) \in Nat
      BY <1>1
    <3> QED
      BY <1>2, <3>1 DEF Known
  <2>2. CASE Len(ids) <= MaxProcessed
    BY <1>2, <2>1, <2>2
  <2>3. CASE ~(Len(ids) <= MaxProcessed)
    <3>1. Len(ids) = MaxProcessed + 1 /\ from = Slack + 2
      <4>1. /\ Len(memory[s]) \in Nat /\ Len(memory[s]) <= MaxProcessed
            /\ Len(ids) = Len(memory[s]) + 1
            /\ MaxProcessed \in Nat /\ Slack \in Nat
        BY <1>1, <1>2
      <4> QED
        BY <2>3, <4>1
    <3>2. from \in Int /\ Len(ids) \in Int /\ \A i \in from..Len(ids) : ids[i] \in Updates
      BY <1>2, <3>1, ElementOfSeq
    <3>3. /\ SubSeq(ids, from, Len(ids)) \in Seq(Updates)
          /\ Len(SubSeq(ids, from, Len(ids))) = IF from <= Len(ids) THEN Len(ids) - from + 1 ELSE 0
          /\ \A i \in 1..Len(ids) - from + 1 : SubSeq(ids, from, Len(ids))[i] = ids[from + i - 1]
      BY <3>2, SubSeqProperties
    <3>4. kept = SubSeq(ids, from, Len(ids))
      BY <2>3
    <3> HIDE DEF kept, from
    <3>5. Len(kept) <= MaxProcessed
      BY <3>1, <3>3, <3>4
    <3>6. ASSUME NEW i \in 1..Len(kept) PROVE kept[i] = u \/ Known(s, kept[i])
      <4>1. from + i - 1 \in 1..Len(ids) /\ kept[i] = ids[from + i - 1]
        BY <3>1, <3>3, <3>4
      <4> QED
        BY <2>1, <4>1
    <3> QED
      BY <3>3, <3>4, <3>5, <3>6
  <2> QED
    BY <2>2, <2>3
<1> HIDE DEF kept
<1>5. \A r \in Servers : memory'[r] = IF r = s THEN kept ELSE memory[r]
  BY <1>1, <1>3
<1>6. memory' \in [Servers -> Seq(Updates)]
  BY <1>1, <1>3, <1>4
<1>7. \A r \in Servers : Len(memory'[r]) <= MaxProcessed
  BY <1>1, <1>4, <1>5
<1>8. ASSUME NEW r \in Servers, NEW i \in 1..Len(memory'[r])
      PROVE  memory'[r][i] = u \/ Known(r, memory'[r][i])
  BY <1>4, <1>5, <1>8 DEF Known
<1> QED
  BY <1>6, <1>7, <1>8

\* Only the check of a call adds ids.
LEMMA IdsStep ==
  ASSUME TypeOK, Remembered, [Next]_vars
  PROVE  /\ \A u \in keys' : TakenNext(u)
         /\ \A s \in Servers : \A i \in 1..Len(memory'[s]) : TakenNext(memory'[s][i])
         /\ memory' \in [Servers -> Seq(Updates)]
         /\ \A s \in Servers : Len(memory'[s]) <= MaxProcessed
         /\ keys' \subseteq Updates
<1>s. Stays
  BY EverythingStays
<1>t. /\ keys \subseteq Updates /\ memory \in [Servers -> Seq(Updates)]
      /\ \A s \in Servers : Len(memory[s]) <= MaxProcessed
  BY DEF TypeOK
<1>k. \A u \in keys : TakenNext(u)
  BY <1>s, <1>t DEF Remembered, Stays
<1>m. \A s \in Servers, u \in Updates : Known(s, u) => TakenNext(u)
  BY <1>s DEF Remembered, Stays
<1>n. ASSUME NEW s \in Servers, NEW i \in 1..Len(memory[s]) PROVE TakenNext(memory[s][i])
  <2>1. memory[s][i] \in Updates
    BY <1>t, ElementOfSeq
  <2> QED
    BY <1>m, <2>1 DEF Known
<1>1. ASSUME NEW h \in Handlers, SetUnseen(h)
      PROVE  keys' \subseteq Updates /\ UNCHANGED memory /\ \A u \in keys' : TakenNext(u)
  <2>1. /\ keys' = keys \cup {call[h].update} /\ UNCHANGED memory /\ call[h].update \in Updates
        /\ call[h].update \in keys \/ call[h].update \in closed'
    BY <1>1 DEF SetUnseen, TypeOK
  <2> QED
    BY <1>k, <1>t, <2>1 DEF TakenNext
<1>2. ASSUME NEW h \in Handlers, Check(h)
      PROVE  /\ \A u \in keys' : TakenNext(u)
             /\ \A s \in Servers : \A i \in 1..Len(memory'[s]) : TakenNext(memory'[s][i])
             /\ memory' \in [Servers -> Seq(Updates)]
             /\ \A s \in Servers : Len(memory'[s]) <= MaxProcessed
             /\ keys' \subseteq Updates
  <2>1. call[h].update \in Updates /\ call[h].server \in Servers
    BY DEF TypeOK
  <2>2. keys' \in {keys, keys \cup {call[h].update}} /\ UNCHANGED closed
    BY <1>2, CheckEffect
  <2>3. TakenNext(call[h].update)
    BY <1>2, <2>1, <2>2, CheckEffect, WorksStays, <1>m, <1>k
  <2>4. UNCHANGED memory \/ Track(call[h].server, call[h].update)
    BY <1>2, CheckEffect
  <2>5. CASE UNCHANGED memory
    BY <1>k, <1>n, <1>t, <2>1, <2>2, <2>3, <2>5
  <2>6. CASE Track(call[h].server, call[h].update)
    <3>1. /\ memory' \in [Servers -> Seq(Updates)]
          /\ \A r \in Servers : Len(memory'[r]) <= MaxProcessed
          /\ \A r \in Servers : \A i \in 1..Len(memory'[r]) :
               memory'[r][i] = call[h].update \/ Known(r, memory'[r][i])
      BY <2>1, <2>6, TrackEffect
    <3>2. ASSUME NEW s \in Servers, NEW i \in 1..Len(memory'[s]) PROVE TakenNext(memory'[s][i])
      <4>1. memory'[s][i] \in Updates
        BY <3>1, ElementOfSeq
      <4> QED
        BY <1>m, <2>3, <3>1, <4>1
    <3> QED
      BY <1>k, <1>t, <2>1, <2>2, <2>3, <3>1, <3>2
  <2> QED
    BY <2>4, <2>5, <2>6
<1>3. ASSUME NEW s \in Servers, Crash(s)
      PROVE  /\ UNCHANGED keys
             /\ memory' \in [Servers -> Seq(Updates)]
             /\ \A r \in Servers : memory'[r] = IF r = s THEN <<>> ELSE memory[r]
  BY <1>3, <1>t, EmptySeq DEF Crash
<1>4. ASSUME NEW s \in Servers, Crash(s)
      PROVE  /\ \A r \in Servers : \A i \in 1..Len(memory'[r]) : TakenNext(memory'[r][i])
             /\ \A r \in Servers : Len(memory'[r]) <= MaxProcessed
  BY <1>3, <1>4, <1>n, <1>t
<1>5. CASE UNCHANGED dedupe
  BY <1>k, <1>n, <1>t, <1>5 DEF dedupe
<1>6. \/ UNCHANGED dedupe
      \/ \E h \in Handlers : SetUnseen(h) \/ Check(h)
      \/ \E s \in Servers : Crash(s)
  BY StepKinds, ProcessEffect, AdvanceEffect
     DEF Quiet, Begins, Arrive, Start, StartWebhook, StartPolling, StartDisabled, GetUpdates,
         TakeFromBatch, Webhook, Processes, vars
<1> QED
  BY <1>1, <1>2, <1>3, <1>4, <1>5, <1>6, <1>k, <1>n, <1>t

\* A call that was there keeps what it is about, or its slot is free.
Continues(g) ==
  \/ call'[g] = call[g]
  \/ call'[g] = NoCall
  \/ Same(call'[g], call[g]) /\ call[g].pc # "free" /\ call'[g].pc # "free"

Done(g) == call'[g].pc = "over" => call'[g].polled /\ TakenNext(call'[g].update)

\* A call that moves leaves the others where they are.
LEMMA MoveContinues ==
  ASSUME TypeOK, NEW h \in Handlers, NEW c, Moves(h, c), call[h].pc # "free"
  PROVE  /\ call' \in [Handlers -> CallRecord] /\ call'[h] = c
         /\ \A g \in Handlers \ {h} : call'[g] = call[g]
         /\ \A g \in Handlers : Continues(g)
<1>1. call \in [Handlers -> CallRecord]
  BY DEF TypeOK, CallRecord
<1>2. call' \in [Handlers -> CallRecord] /\ call'[h] = c
      /\ \A g \in Handlers \ {h} : call'[g] = call[g]
  BY <1>1 DEF Moves
<1> QED
  BY <1>2 DEF Moves, Continues

\* After every step the calls are typed, those that are over were polled and have their
\* update taken up.
LEMMA CallsStep ==
  ASSUME TypeOK, Remembered, [Next]_vars
  PROVE  /\ call' \in [Handlers -> CallRecord]
         /\ \A g \in Handlers : Done(g)
         /\ Begins \/ \A g \in Handlers : Continues(g)
<1>t. call \in [Handlers -> CallRecord]
  BY DEF TypeOK, CallRecord
<1>s. ASSUME NEW g \in Handlers, call'[g] = call[g] PROVE Done(g)
  <2>1. call[g].update \in Updates
    BY DEF TypeOK
  <2> QED
    BY <1>s, <2>1, EverythingStays DEF Done, Remembered, Stays
<1>n. ASSUME NEW g \in Handlers, call'[g].pc # "over" PROVE Done(g)
  BY <1>n DEF Done
<1>1. CASE Quiet
  BY <1>1, <1>s, <1>t, QuietEffect DEF Continues
<1>2. CASE Begins
  <2>1. PICK s \in Servers, u \in Updates, polled \in BOOLEAN : Begin(s, u, polled)
    BY <1>2 DEF Begins, TakeFromBatch, Webhook, TypeOK
  <2>2. PICK g \in Handlers, c \in CallRecord :
          call[g].pc = "free" /\ call' = [call EXCEPT ![g] = c] /\ c.pc = "checking"
    BY <2>1, BeginEffect
  <2>3. /\ call' \in [Handlers -> CallRecord] /\ call'[g].pc = "checking"
        /\ \A h \in Handlers \ {g} : call'[h] = call[h]
    BY <1>t, <2>2
  <2> QED
    BY <1>2, <1>s, <1>n, <2>3
<1>3. ASSUME NEW h \in Handlers, call[h].pc # "free", Works(h)
      PROVE  /\ call' \in [Handlers -> CallRecord]
             /\ \A g \in Handlers : Done(g) /\ Continues(g)
  <2>1. PICK c : Moves(h, c) /\ c.pc \in {"executing", "sending"}
    BY <1>3 DEF Works
  <2> QED
    BY <1>3, <1>s, <1>n, <2>1, MoveContinues
<1>4. ASSUME NEW h \in Handlers, call[h].pc # "free", Ends(h), TakenNext(call[h].update)
      PROVE  /\ call' \in [Handlers -> CallRecord]
             /\ \A g \in Handlers : Done(g) /\ Continues(g)
  <2>1. PICK c : Moves(h, c) /\ (c.pc = "over" => c.polled)
    BY <1>4 DEF Ends
  <2>2. c = NoCall \/ Same(c, call[h])
    BY <2>1 DEF Moves
  <2>3. Done(h)
    BY <1>4, <2>1, <2>2, MoveContinues, NoCallIsRecord DEF Done, Same
  <2> QED
    BY <1>4, <1>s, <2>1, <2>3, MoveContinues
<1>5. ASSUME NEW h \in Handlers, Check(h)
      PROVE  /\ call' \in [Handlers -> CallRecord]
             /\ \A g \in Handlers : Done(g) /\ Continues(g)
  <2>1. call[h].pc = "checking" /\ UNCHANGED closed
    BY <1>5, CheckEffect
  <2>2. call[h].update \in Updates /\ call[h].server \in Servers
    BY DEF TypeOK
  <2>3. Works(h) \/ (Ends(h) /\ Taken(call[h].update))
    BY <1>5, <2>2, CheckEffect DEF Remembered
  <2>4. Works(h) \/ (Ends(h) /\ TakenNext(call[h].update))
    BY <2>1, <2>3, EndsStays
  <2> QED
    BY <1>3, <1>4, <2>1, <2>4
<1>6. ASSUME NEW h \in Handlers, Processes(h)
      PROVE  /\ call' \in [Handlers -> CallRecord]
             /\ \A g \in Handlers : Done(g) /\ Continues(g)
  BY <1>3, <1>4, <1>6, ProcessEffect DEF Processes, TakenNext
<1>7. ASSUME NEW h \in Handlers, Advance(h)
      PROVE  /\ call' \in [Handlers -> CallRecord]
             /\ \A g \in Handlers : Done(g) /\ Continues(g)
  <2>1. call[h].pc = "over" /\ call' = [call EXCEPT ![h] = NoCall]
    BY <1>7, AdvanceEffect
  <2> QED
    BY <1>t, <1>s, <1>n, <2>1, NoCallIsRecord DEF Continues
<1>8. ASSUME NEW s \in Servers, Crash(s)
      PROVE  /\ call' \in [Handlers -> CallRecord]
             /\ \A g \in Handlers : Done(g) /\ Continues(g)
  BY <1>8, <1>s, <1>n, CrashEffect, NoCallIsRecord DEF Continues
<1> QED
  BY <1>1, <1>2, <1>5, <1>6, <1>7, <1>8, StepKinds

\* Every step keeps what Redis and the memories remember sound.
LEMMA RememberedStep ==
  ASSUME TypeOK, Remembered, [Next]_vars
  PROVE  Remembered'
<1>1. \A u \in keys' : TakenNext(u)
  BY IdsStep
<1>2. \A s \in Servers : \A i \in 1..Len(memory'[s]) : TakenNext(memory'[s][i])
  BY IdsStep
<1>3. \A h \in Handlers : call'[h].pc = "over" => call'[h].polled /\ TakenNext(call'[h].update)
  BY CallsStep DEF Done
<1> QED
  BY <1>1, <1>2, <1>3 DEF Remembered, Known, Taken, TakenNext

InLoopNext(h) == call'[h].pc # "free" /\ call'[h].polled

\* What the loop confirms is the oldest update of its batch.
LEMMA AdvanceInLoop ==
  ASSUME TypeOK, Remembered, Loops, Numbered, NEW h \in Handlers, Advance(h)
  PROVE  LET s == call[h].server  u == call[h].update IN
         /\ InLoop(h) /\ s \in Servers /\ u \in batch[s] /\ u \in 1..arrived /\ u \in Updates
         /\ \A v \in batch[s] : u <= v
         /\ TakenNext(u)
         /\ offset' = [offset EXCEPT ![s] = u + 1]
         /\ batch' = [batch EXCEPT ![s] = batch[s] \ {u}]
<1>1. call[h].server \in Servers /\ call[h].update \in Updates
  BY DEF TypeOK
<1>2. InLoop(h) /\ Taken(call[h].update)
  BY DEF Advance, Remembered, InLoop
<1>3. TakenNext(call[h].update)
  BY <1>2, AdvanceEffect, EndsStays DEF history
<1> QED
  BY <1>1, <1>2, <1>3 DEF Loops, Numbered, Advance

\* What a step does to the batches and offsets.
LEMMA BatchKinds ==
  ASSUME TypeOK, [Next]_vars
  PROVE  \/ UNCHANGED <<arrived, pending, offset, batch>>
         \/ Arrive
         \/ \E s \in Servers : GetUpdates(s) \/ Crash(s) \/ \E u \in Updates : Webhook(s, u)
         \/ \E h \in Handlers : Advance(h)
BY StepKinds, CheckEffect, ProcessEffect
   DEF Quiet, Begins, Processes, Start, StartWebhook, StartPolling, StartDisabled, SetUnseen,
       TakeFromBatch, telegram, loop, vars

\* Every step leaves each loop with one update at a time, the oldest.
LEMMA LoopsStep ==
  ASSUME TypeOK, Remembered, Loops, Numbered, [Next]_vars
  PROVE  Loops'
<1>t. /\ call \in [Handlers -> CallRecord] /\ batch \in [Servers -> SUBSET Updates]
  BY DEF TypeOK, CallRecord
<1>1. CASE Begins
  <2>1. ASSUME NEW s \in Servers, NEW u \in Updates, Webhook(s, u) PROVE Loops'
    <3>1. Begin(s, u, FALSE) /\ UNCHANGED batch
      BY <2>1 DEF Webhook, loop
    <3>2. PICK polled \in BOOLEAN : ~polled /\ Begin(s, u, polled)
      BY <3>1, Zenon
    <3>4. PICK g \in Handlers, c \in CallRecord :
            call[g].pc = "free" /\ call' = [call EXCEPT ![g] = c] /\ c.polled = polled
      BY <3>2, BeginEffect
    <3>3. ~InLoopNext(g) /\ \A h \in Handlers \ {g} : call'[h] = call[h]
      BY <1>t, <3>2, <3>4 DEF InLoopNext
    <3> QED
      BY <3>1, <3>3 DEF Loops, InLoop, InLoopNext
  <2>2. ASSUME NEW s \in Servers, TakeFromBatch(s) PROVE Loops'
    <3>1. PICK u \in batch[s] : /\ ~Looping(s) /\ \A v \in batch[s] : u <= v
                                /\ Begin(s, u, TRUE) /\ UNCHANGED batch
      BY <2>2 DEF TakeFromBatch, loop
    <3>2. u \in Updates
      BY <1>t
    <3>6. PICK polled \in BOOLEAN : Begin(s, u, polled)
      BY <3>1, Zenon
    <3>3. PICK g \in Handlers, c \in CallRecord :
            /\ call[g].pc = "free" /\ call' = [call EXCEPT ![g] = c]
            /\ c.server = s /\ c.update = u
      BY <3>2, <3>6, BeginEffect
    <3>4. /\ call'[g].server = s /\ call'[g].update = u
          /\ \A h \in Handlers \ {g} : call'[h] = call[h]
      BY <1>t, <3>3
    <3>5. \A h \in Handlers \ {g} : InLoopNext(h) => InLoop(h) /\ call[h].server # s
      BY <3>1, <3>4 DEF InLoop, InLoopNext, Looping
    <3> QED
      BY <3>1, <3>4, <3>5 DEF Loops, InLoop, InLoopNext
  <2> QED
    BY <1>1, <2>1, <2>2 DEF Begins
<1>2. CASE ~Begins
  <2>1. ASSUME NEW h \in Handlers, InLoopNext(h)
        PROVE  /\ InLoop(h) /\ call'[h].server = call[h].server
               /\ call'[h].update = call[h].update /\ call[h].server \in Servers
    BY <1>2, <1>t, <2>1, CallsStep, NoCallIsRecord
       DEF InLoop, InLoopNext, Continues, Same, CallRecord
  <2>2. ASSUME NEW h \in Handlers, InLoopNext(h)
        PROVE  batch'[call[h].server] = batch[call[h].server]
    <3>1. CASE UNCHANGED batch
      BY <3>1
    <3>2. ASSUME NEW s \in Servers, GetUpdates(s)
          PROVE  batch'[call[h].server] = batch[call[h].server]
      <4>1. call[h].server # s
        BY <2>1, <2>2, <3>2 DEF GetUpdates, Looping, InLoop
      <4> QED
        BY <1>t, <2>1, <2>2, <3>2, <4>1 DEF GetUpdates
    <3>3. ASSUME NEW s \in Servers, Crash(s)
          PROVE  batch'[call[h].server] = batch[call[h].server]
      <4>1. call[h].server # s
        BY <2>1, <2>2, <3>3, CrashEffect, NoCallIsRecord DEF InLoop, InLoopNext
      <4> QED
        BY <1>t, <2>1, <2>2, <3>3, <4>1 DEF Crash
    <3>4. ASSUME NEW g \in Handlers, Advance(g)
          PROVE  batch'[call[h].server] = batch[call[h].server]
      <4>1. h # g
        BY <1>t, <2>2, <3>4, AdvanceEffect, NoCallIsRecord DEF InLoopNext
      <4>2. call[h].server # call[g].server
        BY <2>1, <2>2, <3>4, <4>1, AdvanceInLoop DEF Loops
      <4> QED
        BY <1>t, <2>1, <2>2, <3>4, <4>2, AdvanceInLoop
    <3> QED
      BY <3>1, <3>2, <3>3, <3>4, BatchKinds DEF Arrive, Webhook, loop
  <2> QED
    BY <2>1, <2>2 DEF Loops, InLoop, InLoopNext
<1> QED
  BY <1>1, <1>2

\* Every step keeps updates, offsets and batches in the order of arrival.
LEMMA NumberedStep ==
  ASSUME TypeOK, Remembered, Loops, Numbered, [Next]_vars
  PROVE  /\ Numbered' /\ arrived' \in Nat /\ arrived' >= arrived
         /\ offset' \in [Servers -> Nat] /\ batch' \in [Servers -> SUBSET Updates]
         /\ pending' \subseteq Updates /\ arrived' \in 0..MaxUpdates
<1>t. /\ offset \in [Servers -> Nat] /\ batch \in [Servers -> SUBSET Updates]
      /\ arrived \in 0..MaxUpdates /\ pending \subseteq Updates
      /\ pending \subseteq 1..arrived
      /\ \A s \in Servers : batch[s] \subseteq 1..arrived /\ offset[s] <= arrived + 1
  BY DEF TypeOK, Numbered
<1>1. CASE UNCHANGED <<arrived, pending, offset, batch>>
  BY <1>1, <1>t DEF Numbered
<1>2. CASE Arrive
  BY <1>2, <1>t DEF Arrive, loop, Numbered, Updates
<1>3. ASSUME NEW s \in Servers, GetUpdates(s)
      PROVE  /\ UNCHANGED <<arrived, offset>> /\ pending' \subseteq pending
             /\ batch' = [batch EXCEPT ![s] = pending']
  BY <1>3 DEF GetUpdates
<1>4. ASSUME NEW s \in Servers, Crash(s)
      PROVE  /\ UNCHANGED <<arrived, pending>> /\ offset' = [offset EXCEPT ![s] = 0]
             /\ batch' = [batch EXCEPT ![s] = {}]
  BY <1>4 DEF Crash, telegram
<1>5. ASSUME NEW s \in Servers, NEW u \in Updates, Webhook(s, u)
      PROVE  UNCHANGED <<arrived, offset, batch>> /\ pending' \subseteq pending
  BY <1>5 DEF Webhook, loop
<1>6. ASSUME NEW h \in Handlers, Advance(h)
      PROVE  /\ UNCHANGED <<arrived, pending>>
             /\ \E s \in Servers, u \in 1..arrived :
                  /\ offset' = [offset EXCEPT ![s] = u + 1]
                  /\ batch' = [batch EXCEPT ![s] = batch[s] \ {u}]
  BY <1>6, AdvanceEffect, AdvanceInLoop DEF telegram
<1> DEFINE Goal == /\ Numbered' /\ arrived' \in Nat /\ arrived' >= arrived
                   /\ offset' \in [Servers -> Nat] /\ batch' \in [Servers -> SUBSET Updates]
                   /\ pending' \subseteq Updates /\ arrived' \in 0..MaxUpdates
<1>u. ASSUME UNCHANGED arrived, pending' \subseteq pending,
             offset' \in [Servers -> Nat], batch' \in [Servers -> SUBSET Updates],
             \A r \in Servers : batch'[r] \subseteq 1..arrived /\ offset'[r] <= arrived + 1
      PROVE  Goal
  BY <1>t, <1>u DEF Numbered
<1> HIDE DEF Goal
<1>7. ASSUME NEW s \in Servers, GetUpdates(s) PROVE Goal
  <2>1. UNCHANGED <<arrived, offset>> /\ pending' \subseteq pending
    BY <1>3, <1>7
  <2>2. batch' \in [Servers -> SUBSET Updates] /\ \A r \in Servers : batch'[r] \subseteq 1..arrived
    BY <1>3, <1>7, <1>t
  <2> QED
    BY <1>t, <1>u, <2>1, <2>2
<1>8. ASSUME NEW s \in Servers, Crash(s) PROVE Goal
  <2>1. batch' \in [Servers -> SUBSET Updates] /\ \A r \in Servers : batch'[r] \subseteq 1..arrived
    BY <1>4, <1>8, <1>t
  <2>2. offset' \in [Servers -> Nat] /\ \A r \in Servers : offset'[r] <= arrived + 1
    BY <1>4, <1>8, <1>t
  <2> QED
    BY <1>4, <1>8, <1>u, <2>1, <2>2
<1>9. ASSUME NEW s \in Servers, NEW u \in Updates, Webhook(s, u) PROVE Goal
  <2>1. UNCHANGED <<arrived, offset, batch>> /\ pending' \subseteq pending
    BY <1>5, <1>9
  <2> QED
    BY <1>t, <1>u, <2>1
<1>10. ASSUME NEW h \in Handlers, Advance(h) PROVE Goal
  <2>1. PICK s \in Servers, u \in 1..arrived :
          /\ offset' = [offset EXCEPT ![s] = u + 1]
          /\ batch' = [batch EXCEPT ![s] = batch[s] \ {u}]
    BY <1>6, <1>10
  <2>2. batch' \in [Servers -> SUBSET Updates] /\ \A r \in Servers : batch'[r] \subseteq 1..arrived
    BY <1>t, <2>1
  <2>3. offset' \in [Servers -> Nat] /\ \A r \in Servers : offset'[r] <= arrived + 1
    BY <1>t, <2>1
  <2> QED
    BY <1>6, <1>10, <1>u, <2>2, <2>3
<1> QED
  BY <1>1, <1>2, <1>7, <1>8, <1>9, <1>10, BatchKinds DEF Goal

\* The next state of Confirmed, Gaps and Kept.
LEMMA HeldStays ==
  ASSUME TypeOK, Remembered, [Next]_vars, NEW u \in 1..arrived, Held(u)
  PROVE  HeldNext(u)
<1>1. arrived \in 0..MaxUpdates
  BY DEF TypeOK
<1>2. u \in Updates
  BY <1>1 DEF Updates
<1> QED
  BY <1>2, EverythingStays DEF Stays

\* No step moves an offset past an update that nobody holds.
LEMMA ConfirmedStep ==
  ASSUME TypeOK, Remembered, Loops, Numbered, Confirmed, Gaps, [Next]_vars
  PROVE  \A s \in Servers : \A u \in 1..arrived' : u < offset'[s] => HeldNext(u)
<1>t. /\ offset \in [Servers -> Nat] /\ arrived \in Nat
      /\ \A s \in Servers : offset[s] <= arrived + 1
  BY DEF TypeOK, Numbered
<1>h. ASSUME NEW s \in Servers, NEW u \in 1..arrived, u < offset[s] PROVE HeldNext(u)
  <2>1. Held(u)
    BY <1>h DEF Confirmed
  <2> QED
    BY <2>1, HeldStays
<1>1. CASE UNCHANGED <<arrived, offset>>
  BY <1>1, <1>h
<1>2. CASE Arrive
  <2>1. arrived' = arrived + 1 /\ UNCHANGED offset
    BY <1>2 DEF Arrive, loop
  <2>2. \A s \in Servers : \A u \in 1..arrived' : u < offset[s] => u \in 1..arrived
    BY <1>t, <2>1
  <2> QED
    BY <1>h, <2>1, <2>2
<1>3. ASSUME NEW s \in Servers, Crash(s)
      PROVE  \A r \in Servers : \A u \in 1..arrived' : u < offset'[r] => HeldNext(u)
  <2>1. UNCHANGED arrived /\ \A r \in Servers : offset'[r] = IF r = s THEN 0 ELSE offset[r]
    BY <1>3, <1>t DEF Crash, telegram
  <2> QED
    BY <1>t, <1>h, <2>1
<1>4. ASSUME NEW h \in Handlers, Advance(h)
      PROVE  \A r \in Servers : \A u \in 1..arrived' : u < offset'[r] => HeldNext(u)
  <2> DEFINE s == call[h].server
             w == call[h].update
  <2>1. /\ s \in Servers /\ w \in batch[s] /\ w \in 1..arrived /\ TakenNext(w)
        /\ \A v \in batch[s] : w <= v
        /\ offset' = [offset EXCEPT ![s] = w + 1]
    BY <1>4, AdvanceInLoop
  <2>2. UNCHANGED arrived
    BY <1>4, AdvanceEffect DEF telegram
  <2>3. HeldNext(w)
    BY <2>1 DEF TakenNext, HeldNext
  <2>4. ASSUME NEW u \in 1..arrived, u < w PROVE HeldNext(u)
    <3>1. u \notin batch[s]
      BY <2>1, <2>4, <1>t
    <3> QED
      BY <2>1, <2>4, <3>1, HeldStays DEF Gaps
  <2> HIDE DEF s, w
  <2>5. \A r \in Servers : offset'[r] = IF r = s THEN w + 1 ELSE offset[r]
    BY <1>t, <1>h, <2>1
  <2> QED
    BY <1>t, <1>h, <2>1, <2>2, <2>3, <2>4, <2>5
<1> QED
  BY <1>1, <1>2, <1>3, <1>4, BatchKinds DEF GetUpdates, Webhook, loop

\* No step leaves an update out that is older than the batch at hand.
LEMMA GapsStep ==
  ASSUME TypeOK, Remembered, Loops, Numbered, Confirmed, Gaps, Kept, [Next]_vars
  PROVE  \A s \in Servers : \A b \in batch'[s] : \A v \in 1..arrived' :
           v < b => v \in batch'[s] \/ HeldNext(v)
<1> DEFINE Goal(r) == \A b \in batch'[r] : \A v \in 1..arrived' :
                        v < b => v \in batch'[r] \/ HeldNext(v)
<1>t. /\ batch \in [Servers -> SUBSET Updates] /\ offset \in [Servers -> Nat] /\ arrived \in Nat
      /\ \A s \in Servers : batch[s] \subseteq 1..arrived
  BY DEF TypeOK, Numbered
<1>g. ASSUME NEW r \in Servers, UNCHANGED arrived, batch'[r] = batch[r] PROVE Goal(r)
  BY <1>g, HeldStays DEF Gaps
<1>1. CASE UNCHANGED <<arrived, batch>>
  BY <1>1, <1>g
<1>2. ASSUME Arrive, NEW r \in Servers PROVE Goal(r)
  <2>1. batch'[r] = batch[r] /\ arrived' = arrived + 1
    BY <1>2 DEF Arrive, loop
  <2>2. \A b \in batch[r] : \A v \in 1..arrived' : v < b => v \in 1..arrived
    BY <1>t, <2>1
  <2> QED
    BY <2>1, <2>2, HeldStays DEF Gaps
<1>3. ASSUME NEW s \in Servers, Crash(s), NEW r \in Servers PROVE Goal(r)
  <2>1. UNCHANGED arrived /\ batch'[r] = IF r = s THEN {} ELSE batch[r]
    BY <1>3, <1>t DEF Crash, telegram
  <2> QED
    BY <1>g, <2>1
<1>4. ASSUME NEW h \in Handlers, Advance(h), NEW r \in Servers PROVE Goal(r)
  <2> DEFINE s == call[h].server
             w == call[h].update
  <2>1. s \in Servers /\ TakenNext(w) /\ batch' = [batch EXCEPT ![s] = batch[s] \ {w}]
    BY <1>4, AdvanceInLoop
  <2>2. UNCHANGED arrived /\ batch'[r] = IF r = s THEN batch[s] \ {w} ELSE batch[r]
    BY <1>4, <1>t, <2>1, AdvanceEffect DEF telegram
  <2>3. HeldNext(w)
    BY <2>1 DEF TakenNext, HeldNext
  <2> HIDE DEF s, w
  <2> QED
    BY <1>g, <2>1, <2>2, <2>3, HeldStays DEF Gaps
<1>5. ASSUME NEW s \in Servers, GetUpdates(s), NEW r \in Servers PROVE Goal(r)
  <2>1. UNCHANGED arrived /\ batch'[r] = IF r = s THEN {u \in pending : u >= offset[s]} ELSE batch[r]
    BY <1>5, <1>t DEF GetUpdates
  <2>2. ASSUME NEW v \in 1..arrived, ~(v \in pending /\ v >= offset[s]) PROVE Held(v)
    BY <1>t, <2>2 DEF Kept, Confirmed
  <2> QED
    BY <1>g, <2>1, <2>2, HeldStays
<1> QED
  BY <1>1, <1>2, <1>3, <1>4, <1>5, BatchKinds DEF Webhook, loop

\* No step makes Telegram drop an update that nobody holds.
LEMMA KeptStep ==
  ASSUME TypeOK, Remembered, Loops, Numbered, Confirmed, Kept, [Next]_vars
  PROVE  \A u \in 1..arrived' : u \in pending' \/ HeldNext(u)
<1>t. offset \in [Servers -> Nat] /\ arrived \in Nat
  BY DEF TypeOK
<1>h. \A u \in 1..arrived : u \in pending \/ HeldNext(u)
  BY HeldStays DEF Kept
<1>1. CASE UNCHANGED <<arrived, pending>>
  BY <1>1, <1>h
<1>2. CASE Arrive
  BY <1>2, <1>h, <1>t DEF Arrive
<1>3. ASSUME NEW s \in Servers, GetUpdates(s)
      PROVE  \A u \in 1..arrived' : u \in pending' \/ HeldNext(u)
  <2>1. pending' = {u \in pending : u >= offset[s]} /\ UNCHANGED arrived
    BY <1>3 DEF GetUpdates
  <2>2. \A u \in 1..arrived : u < offset[s] => HeldNext(u)
    BY HeldStays DEF Confirmed
  <2> QED
    BY <1>h, <1>t, <2>1, <2>2
<1>4. ASSUME NEW s \in Servers, NEW w \in Updates, Webhook(s, w)
      PROVE  \A u \in 1..arrived' : u \in pending' \/ HeldNext(u)
  <2>1. PICK polled \in BOOLEAN : Begin(s, w, polled)
    BY <1>4, Zenon DEF Webhook
  <2>2. PICK g \in Handlers, c \in CallRecord :
          call' = [call EXCEPT ![g] = c] /\ c.pc = "checking" /\ c.update = w
    BY <2>1, BeginEffect
  <2>3. HeldNext(w)
    BY <2>2 DEF HeldNext, TypeOK
  <2>4. UNCHANGED arrived /\ pending' \in {pending, pending \ {w}}
    BY <1>4 DEF Webhook
  <2> QED
    BY <1>h, <2>3, <2>4
<1> QED
  BY <1>1, <1>2, <1>3, <1>4, BatchKinds, AdvanceEffect DEF Crash, telegram

\* The faults stay within their bound.
LEMMA TypeFaults ==
  ASSUME TypeOK, [Next]_vars
  PROVE  faults' \in 0..MaxFaults
<1>1. faults' \in {faults, faults + 1} /\ (faults' = faults \/ faults < MaxFaults)
  BY DEF Next, vars, Start, Check, Process, Arrive, StartWebhook, StartPolling, StartDisabled,
     GetUpdates, TakeFromBatch, Crash, Webhook, CheckRedis, CheckMemory, SetUnseen, NoEvent,
     Execute, SendOk, SendRefused, SendTimesOut, Advance, Fault
<1> QED
  BY <1>1 DEF TypeOK

\* Every step keeps the types.
LEMMA TypeStep ==
  ASSUME TypeOK, Remembered, Loops, Numbered, [Next]_vars
  PROVE  TypeOK'
<1>1. call' \in [Handlers -> CallRecord]
  BY CallsStep
<1>2. /\ memory' \in [Servers -> Seq(Updates)] /\ \A s \in Servers : Len(memory'[s]) <= MaxProcessed
      /\ keys' \subseteq Updates
  BY IdsStep
<1>3. /\ offset' \in [Servers -> Nat] /\ batch' \in [Servers -> SUBSET Updates]
      /\ pending' \subseteq Updates /\ arrived' \in 0..MaxUpdates
  BY NumberedStep
<1>4. faults' \in 0..MaxFaults
  BY TypeFaults
<1>5. config' \in Configs /\ registered' \in BOOLEAN
  BY StepKinds, CheckEffect, ProcessEffect, AdvanceEffect DEF TypeOK, Quiet, Begins, Processes,
     vars, telegram, Start, Arrive, StartWebhook, StartPolling, StartDisabled, GetUpdates,
     TakeFromBatch, Crash, Webhook, SetUnseen
<1>6. mode' \in [Servers -> {"down", "disabled", "webhook", "polling"}]
  BY StepKinds, CheckEffect, ProcessEffect, AdvanceEffect DEF TypeOK, Quiet, Begins, Processes,
     vars, loop, Start, Arrive, StartWebhook, StartPolling, StartDisabled, GetUpdates,
     TakeFromBatch, Crash, Webhook, SetUnseen
<1>7. /\ processed' \in [Updates -> Nat] /\ fallbacks' \in [Updates -> Nat]
      /\ answers' \in [Updates -> Nat]
  <2>t. /\ processed \in [Updates -> Nat] /\ fallbacks \in [Updates -> Nat]
        /\ answers \in [Updates -> Nat] /\ \A h \in Handlers : call[h].update \in Updates
    BY DEF TypeOK
  <2>1. \/ UNCHANGED processed
        \/ \E h \in Handlers : processed' = [processed EXCEPT ![call[h].update] = @ + 1]
    BY DEF Next, vars, history, Start, Check, Process, Arrive, StartWebhook, StartPolling,
       StartDisabled, GetUpdates, TakeFromBatch, Crash, Webhook, CheckRedis, CheckMemory, SetNX,
       SetUnseen, NoEvent, Execute, SendOk, SendRefused, SendTimesOut, Advance, Counted
  <2>2. \/ UNCHANGED fallbacks
        \/ \E h \in Handlers : fallbacks' = [fallbacks EXCEPT ![call[h].update] = @ + 1]
    BY DEF Next, vars, history, Start, Check, Process, Arrive, StartWebhook, StartPolling,
       StartDisabled, GetUpdates, TakeFromBatch, Crash, Webhook, CheckRedis, CheckMemory,
       SetUnseen, NoEvent, Execute, SendOk, SendRefused, SendTimesOut, Advance
  <2>3. \/ UNCHANGED answers
        \/ \E h \in Handlers : answers' = [answers EXCEPT ![call[h].update] = @ + 1]
    BY DEF Next, vars, history, Start, Check, Process, Arrive, StartWebhook, StartPolling,
       StartDisabled, GetUpdates, TakeFromBatch, Crash, Webhook, CheckRedis, CheckMemory,
       SetUnseen, NoEvent, Execute, SendOk, SendRefused, SendTimesOut, Advance, Reaches
  <2> QED
    BY <2>t, <2>1, <2>2, <2>3
<1>8. closed' \subseteq Updates
  <2>t. closed \subseteq Updates /\ \A h \in Handlers : call[h].update \in Updates
    BY DEF TypeOK
  <2>1. \A u \in closed' : u \in closed \/ \E h \in Handlers : u = call[h].update
    BY StepKinds, CheckEffect, ProcessEffect, AdvanceEffect DEF Quiet, Begins, Processes,
       vars, history, Start, Arrive, StartWebhook, StartPolling, StartDisabled, GetUpdates,
       TakeFromBatch, Crash, HeldBy, Webhook, SetUnseen
  <2> QED
    BY <2>t, <2>1
<1> QED
  BY <1>1, <1>2, <1>3, <1>4, <1>5, <1>6, <1>7, <1>8 DEF TypeOK, CallRecord

-----------------------------------------------------------------------------
(* The theorems.                                                           *)

\* The inductive invariant holds at first.
LEMMA InitHolds == Init => IndInv
<1> SUFFICES ASSUME Init PROVE IndInv
  OBVIOUS
<1>1. TypeOK
  <2>1. call \in [Handlers -> CallRecord]
    BY NoCallIsRecord DEF Init
  <2>2. memory \in [Servers -> Seq(Updates)] /\ \A s \in Servers : Len(memory[s]) <= MaxProcessed
    BY EmptySeq DEF Init
  <2> QED
    BY <2>1, <2>2 DEF Init, TypeOK, CallRecord
<1>2. \A h \in Handlers : call[h].pc = "free"
  BY NoCallIsRecord DEF Init
<1>3. Remembered /\ Loops
  BY <1>2 DEF Init, Remembered, Known, Loops, InLoop
<1>4. Numbered /\ Confirmed /\ Gaps /\ Kept
  BY DEF Init, Numbered, Confirmed, Gaps, Kept
<1> QED
  BY <1>1, <1>3, <1>4 DEF IndInv

\* Every step keeps it.
LEMMA StepHolds == IndInv /\ [Next]_vars => IndInv'
<1> SUFFICES ASSUME IndInv, [Next]_vars PROVE IndInv'
  OBVIOUS
<1> USE DEF IndInv
<1>1. TypeOK' /\ Remembered' /\ Loops' /\ Numbered'
  BY TypeStep, RememberedStep, LoopsStep, NumberedStep
<1>2. Confirmed'
  BY ConfirmedStep DEF Confirmed, HeldNext, Held, Underway
<1>3. Gaps'
  BY GapsStep DEF Gaps, HeldNext, Held, Underway
<1>4. Kept'
  BY KeptStep DEF Kept, HeldNext, Held, Underway
<1> QED
  BY <1>1, <1>2, <1>3, <1>4

\* It holds in every state that the servers reach.
THEOREM Invariance == Spec => []IndInv
BY InitHolds, StepHolds, PTL DEF Spec

\* The type invariant: the memory of a server keeps its limit, the offset is a number.
THEOREM TypeCorrect == Spec => []TypeOK
<1>1. IndInv => TypeOK
  BY DEF IndInv
<1> QED
  BY <1>1, Invariance, PTL

\* No step of the webhook, the loops, the check for duplicates, a retry or a crash lets go
\* of an update: once taken up it is processed until it is closed, and once a call holds it,
\* some call does until then.
THEOREM NothingTakenBack == Spec => [][Stays]_vars
<1>1. IndInv /\ [Next]_vars => Stays
  BY EverythingStays DEF IndInv
<1> QED
  BY <1>1, Invariance, PTL DEF Spec

\* What Telegram no longer holds is being processed, was answered or turned down, or met
\* a fault of its own.
THEOREM NoUpdateLost == Spec => []NothingLost
<1>1. IndInv => NothingLost
  BY DEF IndInv, Kept, Held, NothingLost, Answerable
<1> QED
  BY <1>1, Invariance, PTL

-----------------------------------------------------------------------------
(* How often an update is processed and answered.                          *)

Claimed(u) == IF u \in keys THEN 1 ELSE 0

\* With Redis, what is beyond the one who set the key fell back to memory.
Counts == config.redis => \A u \in Updates : processed[u] <= Claimed(u) + fallbacks[u]

\* The calls that may still answer an update.
Workers(u) == {h \in Handlers : call[h].pc \in {"executing", "sending"} /\ call[h].update = u}
WorkersNext(u) == {h \in Handlers : call'[h].pc \in {"executing", "sending"} /\ call'[h].update = u}

\* With Redis, answers given and still to come are one, and one more per fault.
Answers == config.redis =>
  \A u \in Updates : answers[u] + Cardinality(Workers(u)) <= Claimed(u) + faults

\* The calls that may still answer an update can be counted.
LEMMA WorkersFinite ==
  ASSUME NEW u
  PROVE  /\ IsFiniteSet(Workers(u)) /\ Cardinality(Workers(u)) \in Nat
         /\ IsFiniteSet(WorkersNext(u)) /\ Cardinality(WorkersNext(u)) \in Nat
<1>1. Workers(u) \subseteq Handlers /\ WorkersNext(u) \subseteq Handlers
  BY DEF Workers, WorkersNext
<1> QED
  BY <1>1, FS_Subset, FS_CardinalityType

\* If no call joins them there are no more than before.
LEMMA FewerWorkers ==
  ASSUME NEW u, WorkersNext(u) \subseteq Workers(u)
  PROVE  Cardinality(WorkersNext(u)) <= Cardinality(Workers(u))
BY WorkersFinite, FS_Subset

\* If one call joins them there is at most one more.
LEMMA OneWorkerMore ==
  ASSUME NEW u, NEW h, WorkersNext(u) \subseteq Workers(u) \cup {h}
  PROVE  Cardinality(WorkersNext(u)) <= Cardinality(Workers(u)) + 1
<1>1. /\ IsFiniteSet(Workers(u) \cup {h})
      /\ Cardinality(Workers(u) \cup {h}) \in {Cardinality(Workers(u)), Cardinality(Workers(u)) + 1}
  BY WorkersFinite, FS_AddElement
<1>2. Cardinality(WorkersNext(u)) <= Cardinality(Workers(u) \cup {h})
  BY <1>1, FS_Subset
<1> QED
  BY <1>1, <1>2, WorkersFinite

\* If one of them ends there is one less.
LEMMA OneWorkerLess ==
  ASSUME NEW u, NEW h \in Workers(u), WorkersNext(u) \subseteq Workers(u) \ {h}
  PROVE  Cardinality(WorkersNext(u)) + 1 <= Cardinality(Workers(u))
<1>1. /\ IsFiniteSet(Workers(u) \ {h})
      /\ Cardinality(Workers(u) \ {h}) = Cardinality(Workers(u)) - 1
  BY WorkersFinite, FS_RemoveElement
<1>2. Cardinality(WorkersNext(u)) <= Cardinality(Workers(u) \ {h})
  BY <1>1, FS_Subset
<1> QED
  BY <1>1, <1>2, WorkersFinite

\* What ends answers no more; what goes on is one of the calls, or new for its update.
LEMMA EndsWorkers ==
  ASSUME TypeOK, NEW h \in Handlers, Ends(h), NEW u
  PROVE  WorkersNext(u) \subseteq Workers(u) \ {h}
<1>1. PICK c : call' = [call EXCEPT ![h] = c] /\ c.pc \in {"over", "free"}
  BY DEF Ends, Moves
<1> QED
  BY <1>1 DEF WorkersNext, Workers, TypeOK

\* A call that works on joins those of its update only, and not again.
LEMMA WorksWorkers ==
  ASSUME TypeOK, NEW h \in Handlers, Works(h), NEW u
  PROVE  /\ WorkersNext(u) \subseteq Workers(u) \cup {h}
         /\ u # call[h].update => WorkersNext(u) \subseteq Workers(u)
         /\ call[h].pc \in {"executing", "sending"} => WorkersNext(u) \subseteq Workers(u)
<1>1. PICK c : call' = [call EXCEPT ![h] = c] /\ c.update = call[h].update
  BY DEF Works, Moves, Same
<1> QED
  BY <1>1 DEF WorkersNext, Workers, TypeOK

\* What a step does to the calls and the counts, with Redis: nothing is gained, a call
\* more works on the update because it set the key or because of a fault, a call answers,
\* or an answer is lost.
Lesser(u) == /\ WorkersNext(u) \subseteq Workers(u) /\ answers'[u] = answers[u]
             /\ faults' >= faults /\ (u \in keys => u \in keys')
Another(u) == /\ \E h \in Handlers : WorkersNext(u) \subseteq Workers(u) \cup {h}
              /\ answers'[u] = answers[u]
              /\ \/ u \notin keys /\ u \in keys' /\ UNCHANGED faults
                 \/ faults' = faults + 1 /\ (u \in keys => u \in keys')
Answering(u) == /\ \E h \in Workers(u) : WorkersNext(u) \subseteq Workers(u) \ {h}
                /\ answers'[u] = answers[u] + 1 /\ UNCHANGED <<faults, keys>>
Repeating(u) == /\ WorkersNext(u) \subseteq Workers(u)
                /\ answers'[u] \in {answers[u], answers[u] + 1}
                /\ faults' = faults + 1 /\ UNCHANGED keys

\* A step lets go of calls, adds one with its key or its fault, answers, or repeats an
\* answer for a fault.
LEMMA WorkersStep ==
  ASSUME TypeOK, Remembered, [Next]_vars, config.redis, NEW u \in Updates
  PROVE  Lesser(u) \/ Another(u) \/ Answering(u) \/ Repeating(u)
<1>t. faults \in Nat /\ answers \in [Updates -> Nat] /\ \A h \in Handlers : call[h].update \in Updates
  BY DEF TypeOK
<1>1. CASE Quiet
  <2>1. UNCHANGED <<call, answers>> /\ faults' \in {faults, faults + 1} /\ keys \subseteq keys'
    BY <1>1 DEF Quiet, Arrive, Start, StartWebhook, StartPolling, StartDisabled, GetUpdates,
       SetUnseen, vars, history, dedupe, Fault
  <2> QED
    BY <1>t, <2>1 DEF Lesser, Workers, WorkersNext
<1>2. CASE Begins
  <2>1. PICK s \in Servers, w \in Updates, polled \in BOOLEAN : Begin(s, w, polled)
    BY <1>2 DEF Begins, TakeFromBatch, Webhook, TypeOK
  <2>2. PICK g \in Handlers, c \in CallRecord :
          call' = [call EXCEPT ![g] = c] /\ c.pc = "checking"
    BY <2>1, BeginEffect
  <2>3. WorkersNext(u) \subseteq Workers(u)
    BY <2>2 DEF WorkersNext, Workers, TypeOK
  <2>4. UNCHANGED <<keys, answers>> /\ faults' \in {faults, faults + 1}
    BY <1>2 DEF Begins, TakeFromBatch, Webhook, history, dedupe, Fault
  <2> QED
    BY <1>t, <2>3, <2>4 DEF Lesser
<1>3. ASSUME NEW h \in Handlers, CheckRedis(h) PROVE Lesser(u) \/ Another(u)
  <2>1. UNCHANGED <<answers, faults>> /\ keys' = keys \cup {call[h].update}
    BY <1>3 DEF CheckRedis, SetNX
  <2>2. CASE call[h].update \in keys
    <3>1. Ends(h)
      BY <1>3, <2>2, ReturnMoves DEF CheckRedis, SetNX
    <3> QED
      BY <1>t, <2>1, <3>1, EndsWorkers DEF Lesser
  <2>3. CASE call[h].update \notin keys
    <3>1. Works(h)
      BY <1>3, <2>3, GoMoves DEF CheckRedis, SetNX, Works, CallPc
    <3>2. CASE u = call[h].update
      BY <2>1, <2>3, <3>1, <3>2, WorksWorkers DEF Another
    <3>3. CASE u # call[h].update
      BY <1>t, <2>1, <3>1, <3>3, WorksWorkers DEF Lesser
    <3> QED
      BY <3>2, <3>3
  <2> QED
    BY <2>2, <2>3
<1>4. ASSUME NEW h \in Handlers, CheckMemory(h) PROVE Another(u)
  <2>1. UNCHANGED answers /\ faults' = faults + 1 /\ keys \subseteq keys'
    BY <1>4 DEF CheckMemory, Fault
  <2>2. Works(h) \/ Ends(h)
    BY <1>4, CheckEffect DEF Check
  <2>3. WorkersNext(u) \subseteq Workers(u) \cup {h}
    BY <2>2, WorksWorkers, EndsWorkers
  <2> QED
    BY <2>1, <2>3 DEF Another
<1>5. ASSUME NEW h \in Handlers, SendOk(h) PROVE Lesser(u) \/ Answering(u)
  <2>1. Ends(h) /\ call[h].pc = "sending" /\ UNCHANGED <<keys, faults>>
    BY <1>5, ReturnMoves DEF SendOk, dedupe
  <2>2. answers' = [answers EXCEPT ![call[h].update] = @ + 1]
    BY <1>5 DEF SendOk, Reaches
  <2>3. CASE u = call[h].update
    <3>1. h \in Workers(u)
      BY <2>1, <2>3 DEF Workers
    <3> QED
      BY <1>t, <2>1, <2>2, <2>3, <3>1, EndsWorkers DEF Answering
  <2>4. CASE u # call[h].update
    BY <1>t, <2>1, <2>2, <2>4, EndsWorkers DEF Lesser
  <2> QED
    BY <2>3, <2>4
<1>6. ASSUME NEW h \in Handlers, NoEvent(h) \/ Execute(h) \/ SendRefused(h) PROVE Lesser(u)
  <2>1. /\ Works(h) \/ Ends(h)
        /\ call[h].pc \in {"executing", "sending"} /\ UNCHANGED dedupe
    BY <1>6, ProcessEffect
  <2>2. UNCHANGED <<answers, faults>>
    BY <1>6 DEF NoEvent, Execute, SendRefused, history
  <2> QED
    BY <1>t, <2>1, <2>2, WorksWorkers, EndsWorkers DEF Lesser, dedupe
<1>7. ASSUME NEW h \in Handlers, SendTimesOut(h) PROVE Repeating(u)
  <2>1. /\ Works(h) \/ Ends(h)
        /\ call[h].pc \in {"executing", "sending"} /\ UNCHANGED keys
    BY <1>7, ProcessEffect DEF dedupe
  <2>2. /\ faults' = faults + 1
        /\ UNCHANGED answers \/ answers' = [answers EXCEPT ![call[h].update] = @ + 1]
    BY <1>7 DEF SendTimesOut, Fault, Reaches
  <2>3. answers'[u] \in {answers[u], answers[u] + 1}
    BY <1>t, <2>2
  <2> QED
    BY <2>1, <2>2, <2>3, WorksWorkers, EndsWorkers DEF Repeating
<1>8. ASSUME NEW h \in Handlers, Advance(h) PROVE Lesser(u)
  <2>1. Ends(h) /\ UNCHANGED <<dedupe, history, faults>>
    BY <1>8, AdvanceEffect DEF Advance
  <2> QED
    BY <1>t, <2>1, EndsWorkers DEF Lesser, dedupe, history
<1>9. ASSUME NEW s \in Servers, Crash(s) PROVE Lesser(u)
  <2>1. WorkersNext(u) \subseteq Workers(u)
    BY <1>9, CrashEffect, NoCallIsRecord DEF WorkersNext, Workers
  <2>2. UNCHANGED <<keys, answers>> /\ faults' = faults + 1
    BY <1>9 DEF Crash, Fault
  <2> QED
    BY <1>t, <2>1, <2>2 DEF Lesser
<1> QED
  BY <1>1, <1>2, <1>3, <1>4, <1>5, <1>6, <1>7, <1>8, <1>9, StepKinds DEF Check, Processes

\* No step changes the environment.
LEMMA ConfigStays ==
  ASSUME TypeOK, [Next]_vars
  PROVE  UNCHANGED config
BY StepKinds, CheckEffect, ProcessEffect, AdvanceEffect DEF Quiet, Begins, Processes, vars, Start,
   Arrive, StartWebhook, StartPolling, StartDisabled, GetUpdates, TakeFromBatch, Crash, Webhook,
   SetUnseen

\* Every step keeps answers, and calls that may answer, within keys and faults.
LEMMA AnswersStep ==
  ASSUME TypeOK, Remembered, Answers, [Next]_vars
  PROVE  Answers'
<1>1. UNCHANGED config
  BY ConfigStays
<1>2. ASSUME config.redis, NEW u \in Updates
      PROVE  answers'[u] + Cardinality(WorkersNext(u)) <= (IF u \in keys' THEN 1 ELSE 0) + faults'
  <2>1. /\ answers[u] \in Nat /\ faults \in Nat
        /\ Cardinality(Workers(u)) \in Nat /\ Cardinality(WorkersNext(u)) \in Nat
    BY WorkersFinite DEF TypeOK
  <2>2. answers[u] + Cardinality(Workers(u)) <= (IF u \in keys THEN 1 ELSE 0) + faults
    BY <1>2 DEF Answers, Claimed
  <2>3. faults' \in Nat
    BY TypeFaults
  <2>4. CASE Lesser(u)
    <3>1. Cardinality(WorkersNext(u)) <= Cardinality(Workers(u))
      BY <2>4, FewerWorkers DEF Lesser
    <3> QED
      BY <2>1, <2>2, <2>3, <2>4, <3>1 DEF Lesser
  <2>5. CASE Another(u)
    <3>1. Cardinality(WorkersNext(u)) <= Cardinality(Workers(u)) + 1
      BY <2>5, OneWorkerMore DEF Another
    <3> QED
      BY <2>1, <2>2, <2>3, <2>5, <3>1 DEF Another
  <2>6. CASE Answering(u)
    <3>1. Cardinality(WorkersNext(u)) + 1 <= Cardinality(Workers(u))
      BY <2>6, OneWorkerLess DEF Answering
    <3> QED
      BY <2>1, <2>2, <2>3, <2>6, <3>1 DEF Answering
  <2>7. CASE Repeating(u)
    <3>1. Cardinality(WorkersNext(u)) <= Cardinality(Workers(u))
      BY <2>7, FewerWorkers DEF Repeating
    <3> QED
      BY <2>1, <2>2, <2>3, <2>7, <3>1 DEF Repeating
  <2> QED
    BY <1>2, <2>4, <2>5, <2>6, <2>7, WorkersStep
<1> QED
  BY <1>1, <1>2 DEF Answers, Claimed, Workers, WorkersNext

\* Every step keeps the processing of an update within its key and the checks that fell
\* back.
LEMMA CountsStep ==
  ASSUME TypeOK, Remembered, Counts, [Next]_vars
  PROVE  Counts'
<1>t. /\ processed \in [Updates -> Nat] /\ fallbacks \in [Updates -> Nat]
      /\ \A h \in Handlers : call[h].update \in Updates
  BY DEF TypeOK
<1>c. UNCHANGED config
  BY ConfigStays
<1> DEFINE Goal(u) == processed'[u] <= (IF u \in keys' THEN 1 ELSE 0) + fallbacks'[u]
<1>k. ASSUME config.redis, NEW u \in Updates, u \in keys => u \in keys',
             processed'[u] = processed[u], fallbacks'[u] = fallbacks[u]
      PROVE  Goal(u)
  BY <1>k, <1>t DEF Counts, Claimed
<1>1. ASSUME NEW h \in Handlers, CheckRedis(h), config.redis, NEW u \in Updates PROVE Goal(u)
  <2>1. /\ keys' = keys \cup {call[h].update} /\ UNCHANGED fallbacks
        /\ \/ UNCHANGED processed
           \/ /\ call[h].update \notin keys
              /\ processed' = [processed EXCEPT ![call[h].update] = @ + 1]
    BY <1>1 DEF CheckRedis, SetNX, Counted
  <2>2. processed[u] <= (IF u \in keys THEN 1 ELSE 0) + fallbacks[u]
    BY <1>1 DEF Counts, Claimed
  <2> QED
    BY <1>t, <2>1, <2>2
<1>2. ASSUME NEW h \in Handlers, CheckMemory(h), config.redis, NEW u \in Updates PROVE Goal(u)
  <2>1. /\ keys \subseteq keys' /\ fallbacks' = [fallbacks EXCEPT ![call[h].update] = @ + 1]
        /\ \/ UNCHANGED processed
           \/ processed' = [processed EXCEPT ![call[h].update] = @ + 1]
    BY <1>2 DEF CheckMemory, Counted
  <2>2. processed[u] <= (IF u \in keys THEN 1 ELSE 0) + fallbacks[u]
    BY <1>2 DEF Counts, Claimed
  <2> QED
    BY <1>t, <2>1, <2>2
<1>3. CASE UNCHANGED <<processed, fallbacks>> /\ keys \subseteq keys'
  BY <1>k, <1>3, <1>c DEF Counts, Claimed
<1>4. \/ UNCHANGED <<processed, fallbacks>> /\ keys \subseteq keys'
      \/ \E h \in Handlers : CheckRedis(h) \/ CheckMemory(h)
  BY DEF Next, vars, history, dedupe, Start, Check, Process, Arrive, StartWebhook, StartPolling,
     StartDisabled, GetUpdates, TakeFromBatch, Crash, Webhook, SetUnseen, NoEvent,
     Execute, SendOk, SendRefused, SendTimesOut, Advance
<1> QED
  BY <1>1, <1>2, <1>3, <1>4, <1>c DEF Counts, Claimed

\* With Redis an update is processed again only if a check of it fell back to memory.
THEOREM ProcessedAgainAfterFallback == Spec => []ProcessedOnce
<1>1. Init => Counts
  BY DEF Init, Counts, Claimed
<1>2. IndInv /\ Counts /\ [Next]_vars => Counts'
  BY CountsStep DEF IndInv
<1>3. IndInv /\ Counts => ProcessedOnce
  <2> SUFFICES ASSUME IndInv, Counts, config.redis, NEW u \in Updates
               PROVE  processed[u] <= 1 + fallbacks[u]
    BY DEF ProcessedOnce
  <2>1. processed[u] \in Nat /\ fallbacks[u] \in Nat
    BY DEF IndInv, TypeOK
  <2> QED
    BY <2>1 DEF Counts, Claimed
<1> QED
  BY <1>1, <1>2, <1>3, Invariance, PTL DEF Spec

\* With Redis a chat gets one answer to an update and at most one more for each fault.
THEOREM OneAnswerPlusFaults == Spec => []AnsweredOnce
<1>1. Init => Answers
  <2> SUFFICES ASSUME Init, NEW u \in Updates
               PROVE  answers[u] + Cardinality(Workers(u)) <= Claimed(u) + faults
    BY DEF Answers
  <2>1. Workers(u) = {}
    BY NoCallIsRecord DEF Init, Workers
  <2>2. Cardinality(Workers(u)) = 0
    BY <2>1, FS_EmptySet
  <2> QED
    BY <2>2 DEF Init, Claimed
<1>2. IndInv /\ Answers /\ [Next]_vars => Answers'
  BY AnswersStep DEF IndInv
<1>3. IndInv /\ Answers => AnsweredOnce
  <2> SUFFICES ASSUME IndInv, Answers, config.redis, NEW u \in Updates
               PROVE  answers[u] <= 1 + faults
    BY DEF AnsweredOnce
  <2>1. answers[u] \in Nat /\ faults \in Nat /\ Cardinality(Workers(u)) \in Nat
    BY WorkersFinite DEF IndInv, TypeOK
  <2> QED
    BY <2>1 DEF Answers, Claimed
<1> QED
  BY <1>1, <1>2, <1>3, Invariance, PTL DEF Spec

=============================================================================
