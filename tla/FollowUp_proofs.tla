--------------------------- MODULE FollowUp_proofs ---------------------------
(***************************************************************************)
(* Proofs about FollowUp: its invariants hold, and a settled follow-up     *)
(* stays settled, for any number of calls and recommendations.             *)
(*                                                                         *)
(* None of the invariants is inductive alone.  What makes them so is what  *)
(* each request of a call has behind it (Stages), that a recommendation    *)
(* outside `overlapped' has one call at work at most (Alone), which then   *)
(* finds it as it left it (Kept, Once), and that a call drafts without a   *)
(* context only while there is nothing to act on, and one alone (Clear).   *)
(***************************************************************************)
EXTENDS FollowUp, TLAPS

WithRow == Approving \cup {"publishing", "dismissing", "unsent"}

Stages == \A c \in Calls :
  /\ pc[c] \in WithRow => target[c] \in Recs /\ status[target[c]] # "none"
  /\ pc[c] = "drafting" => target[c] = None
  /\ pc[c] \in {"idle", "drafting", "publishing", "dismissing"} => messages[c] = "none"
  /\ pc[c] \in {"settling", "marking"} => delivered[target[c]] > 0
  /\ messages[c] # "none" => target[c] \in Recs

Unborn == \A r \in Recs : status[r] = "none" => delivered[r] = 0

Alone == \A r \in Recs \ overlapped : \A b, c \in Calls :
  Busy(b, r) /\ Busy(c, r) => b = c

Kept == \A r \in Recs \ overlapped : \A c \in Calls :
  Busy(c, r) /\ pc[c] # "dismissing" => Active(r)

\* A recommendation delivered once more than the faults account for is settled,
\* or about to be.
Done(r) ==
  \/ Settled(r)
  \/ \E c \in Calls : Busy(c, r) /\ pc[c] \in {"settling", "marking"}

Once == \A r \in Recs \ overlapped :
  delivered[r] <= faults \/ (delivered[r] <= faults + 1 /\ Done(r))

Hidden == overlapped \cup unseen \cup custom

Clear == \A c \in Calls : Drafting(c) /\ c \notin unseen =>
  /\ \A q \in Recs \ Hidden : ~Active(q)
  /\ \A b \in Calls : Drafting(b) /\ b \notin unseen => b = c

IndInv ==
  /\ TypeOK /\ Stages /\ Unborn /\ SentWasDelivered
  /\ Alone /\ Kept /\ Once /\ Clear /\ OneToActOnApart

-----------------------------------------------------------------------------
\* The inductive invariant holds at the start.
LEMMA Initially == Init => IndInv
BY FollowUpAssumption DEF Init, IndInv, TypeOK, Stages, Unborn, SentWasDelivered, Alone,
   Kept, Once, Clear, OneToActOnApart, WithRow, Approving, Busy, Active, Drafting, Statuses,
   Contexts, FollowUpPc

\* The steps of a call, in groups that write alike.
Starts(c) ==
  \/ \E why \in Contexts : LookUp(c, why)
  \/ \E r \in Recs : ReadToApprove(c, r) \/ ReadToDismiss(c, r)

Continues(c) ==
  \/ Updated(c) \/ MessageCreated(c) \/ Sent(c) \/ NotSent(c) \/ SentUnseen(c) \/ MessageSettled(c)

\* Every step belongs to a call, and to one of the groups.
LEMMA StepKinds ==
  ASSUME Next
  PROVE  \E c \in Calls : Starts(c) \/ Created(c) \/ Continues(c) \/ Fails(c)
BY DEF Next, Starts, Continues

\* What starting a call does.
Started(c, r, to) ==
  /\ Begins(c, r, to)
  /\ to = "drafting" => r = None
  /\ to \in {"creating", "dismissing"} => r \in Recs /\ status[r] # "none"
  /\ to = "creating" => Active(r)
  /\ to = "drafting" /\ context'[c] = "absent" => \A q \in Recs \ custom : ~Active(q)
  /\ context' \in [Calls -> Contexts]
  /\ \A b \in Calls \ {c} : context'[b] = context[b]
  /\ unseen' \in {unseen, unseen \cup {c}}
  /\ to = "drafting" /\ (\E b \in Calls : Drafting(b)) => c \in unseen'

\* A call starts in one of these ways.
LEMMA Starting ==
  ASSUME TypeOK, NEW c \in Calls, Starts(c)
  PROVE  \E r \in Recs \cup {None}, to \in {"ok", "failed", "drafting", "creating", "dismissing"} :
           Started(c, r, to)
<1>1. ASSUME NEW why \in Contexts, LookUp(c, why)
      PROVE  \E to \in {"ok", "drafting"} : Started(c, None, to)
  <2>1. PICK to \in {"ok", "drafting"} :
          Begins(c, None, to) /\ (to = "drafting" => ~Duplicate(why))
    BY <1>1 DEF LookUp
  <2>2. context' = [context EXCEPT ![c] = why] /\ context' \in [Calls -> Contexts]
    BY <1>1 DEF LookUp, TypeOK
  <2>3. ASSUME to = "drafting", why = "absent", NEW q \in Recs \ custom PROVE ~Active(q)
    BY <2>1, <2>3 DEF Duplicate, ReasonOf, Wanted
  <2>4. context'[c] = why /\ \A b \in Calls \ {c} : context'[b] = context[b]
    BY <2>2 DEF TypeOK
  <2>5. unseen' \in {unseen, unseen \cup {c}} /\ ((\E b \in Calls : Drafting(b)) => c \in unseen')
    BY <1>1 DEF LookUp
  <2>. QED  BY <2>1, <2>2, <2>3, <2>4, <2>5 DEF Started
<1>2. ASSUME NEW r \in Recs, ReadToApprove(c, r) \/ ReadToDismiss(c, r)
      PROVE  \E to \in {"ok", "failed", "creating", "dismissing"} : Started(c, r, to)
  BY <1>2 DEF TypeOK, ReadToApprove, ReadToDismiss, Started
<1>3. \/ \E why \in Contexts : LookUp(c, why)
      \/ \E r \in Recs : ReadToApprove(c, r) \/ ReadToDismiss(c, r)
  BY DEF Starts
<1>4. CASE \E why \in Contexts : LookUp(c, why)  BY <1>1, <1>4
<1>5. CASE \E r \in Recs : ReadToApprove(c, r) \/ ReadToDismiss(c, r)  BY <1>2, <1>5
<1>. QED  BY <1>3, <1>4, <1>5

\* Which status a call writes, and where it goes then.
UpdatedTo(c, s) ==
  /\ status' = [status EXCEPT ![target[c]] = s]
  /\ \/ pc[c] = "publishing" /\ s = "pending_review" /\ AfterUpdate[pc[c]] = "ok"
     \/ pc[c] = "approving" /\ s = "approved" /\ AfterUpdate[pc[c]] = "sending"
     \/ pc[c] = "marking" /\ s = "sent" /\ AfterUpdate[pc[c]] = "ok"
     \/ pc[c] = "dismissing" /\ s = "dismissed" /\ AfterUpdate[pc[c]] = "ok"
  /\ UNCHANGED <<custom, messages, delivered>>

\* updateStatus as one of its four uses.
LEMMA Updating ==
  ASSUME NEW c \in Calls, UpdateStatus(c)
  PROVE  \E s \in {"pending_review", "approved", "sent", "dismissed"} : UpdatedTo(c, s)
<1>1. DOMAIN NextStatus = {"publishing", "approving", "marking", "dismissing"}
  BY DEF NextStatus
<1>2. /\ NextStatus["publishing"] = "pending_review" /\ NextStatus["approving"] = "approved"
      /\ NextStatus["marking"] = "sent" /\ NextStatus["dismissing"] = "dismissed"
  BY DEF NextStatus
<1>3. /\ AfterUpdate["publishing"] = "ok" /\ AfterUpdate["approving"] = "sending"
      /\ AfterUpdate["marking"] = "ok" /\ AfterUpdate["dismissing"] = "ok"
  BY DEF AfterUpdate
<1>. QED  BY <1>1, <1>2, <1>3 DEF UpdateStatus, UpdatedTo

\* Every step keeps the variables in their types.
LEMMA TypeStep == ASSUME IndInv, [Next]_vars PROVE TypeOK'
<1>0. TypeOK /\ Stages  BY DEF IndInv
<1>n. /\ faults \in Nat /\ MaxFaults \in Nat
      /\ \A r \in Recs : delivered[r] \in Nat
  BY <1>0, FollowUpAssumption DEF TypeOK
<1>f. Fault => faults' \in 0..MaxFaults  BY <1>n DEF Fault
<1>s. ASSUME NEW c \in Calls, Send(c) PROVE delivered' \in [Recs -> Nat]
  <2>1. target[c] \in Recs
    BY <1>0, <1>s DEF Send, Stages, WithRow, Approving
  <2>2. delivered[target[c]] + 1 \in Nat
    BY <1>n, <2>1
  <2>. QED  BY <1>0, <1>s, <2>2 DEF Send, TypeOK
<1>u. ASSUME NEW c \in Calls, UpdateStatus(c)
      PROVE  status' \in [Recs -> Statuses]
  BY <1>0, <1>u, Updating DEF UpdatedTo, TypeOK, Statuses
<1>1. ASSUME NEW c \in Calls, Starts(c) PROVE TypeOK'
  BY <1>0, <1>1, Starting, FollowUpAssumption DEF Started, TypeOK, Begins, Goes, rows,
        FollowUpPc, Approving
<1>2. ASSUME NEW c \in Calls, Created(c) PROVE TypeOK'
  <2>1. pc' \in [Calls -> FollowUpPc] /\ target' \in [Calls -> Recs \cup {None}]
    BY <1>0, <1>2 DEF TypeOK, Created, Goes, FollowUpPc
  <2>2. status' \in [Recs -> Statuses] /\ custom' \subseteq Recs /\ unseen' \subseteq Recs \cup Calls
    BY <1>0, <1>2 DEF TypeOK, Created, Create, Remembers, Statuses
  <2>. QED  BY <1>0, <1>2, <2>1, <2>2 DEF TypeOK, Created, Create
<1>3. ASSUME NEW c \in Calls, Continues(c) PROVE TypeOK'
  <2>1. CASE Updated(c)
    <3>1. UpdateStatus(c) /\ AfterUpdate[pc[c]] \in FollowUpPc
      BY <2>1, Updating DEF UpdatedTo, Updated, FollowUpPc, Approving
    <3>2. custom' = custom /\ messages' = messages /\ delivered' = delivered
      BY <3>1 DEF UpdateStatus
    <3>. QED  BY <1>0, <1>u, <2>1, <3>1, <3>2 DEF TypeOK, Updated, Goes, work
  <2>2. CASE MessageCreated(c) \/ Sent(c) \/ NotSent(c)
    BY <1>0, <1>s, <2>2 DEF TypeOK, MessageCreated, CreateMessage, Sent, NotSent, Send, Goes,
          rows, work, FollowUpPc, Approving
  <2>3. CASE SentUnseen(c)
    BY <1>0, <1>f, <1>s, <2>3 DEF TypeOK, SentUnseen, Send, Goes, work, FollowUpPc, Approving
  <2>4. CASE MessageSettled(c)
    BY <1>0, <1>f, <2>4 DEF TypeOK, MessageSettled, SettleMessage, Goes, rows, work, FollowUpPc,
          Approving
  <2>. QED  BY <1>3, <2>1, <2>2, <2>3, <2>4 DEF Continues
<1>4. ASSUME NEW c \in Calls, Fails(c) PROVE TypeOK'
  <2>1. pc' \in [Calls -> FollowUpPc] /\ faults' \in 0..MaxFaults
    BY <1>0, <1>f, <1>4 DEF Fails, Goes, TypeOK, FollowUpPc
  <2>2. /\ status' \in [Recs -> Statuses] /\ custom' \subseteq Recs
        /\ messages' \in [Calls -> {"none", "pending", "sent", "failed"}]
        /\ delivered' \in [Recs -> Nat]
    BY <1>0, <1>s, <1>u, <1>4 DEF Fails, rows, Create, UpdateStatus, CreateMessage, Send,
          SettleMessage, TypeOK, Statuses
  <2>3. unseen' \subseteq Recs \cup Calls
    BY <1>0, <1>4 DEF Fails, Remembers, TypeOK
  <2>. QED  BY <1>0, <1>4, <2>1, <2>2, <2>3 DEF Fails, TypeOK
<1>5. CASE UNCHANGED vars
  BY <1>0, <1>5 DEF TypeOK, vars, rows, work
<1>. QED  BY <1>1, <1>2, <1>3, <1>4, <1>5, StepKinds
\* What a call has behind it stays so until it goes on.
LEMMA StagesStep == ASSUME IndInv, [Next]_vars PROVE Stages'
<1>0. TypeOK /\ Stages  BY DEF IndInv
<1>t. TypeOK'  BY TypeStep
<1>1. ASSUME NEW c \in Calls, Starts(c) PROVE Stages'
  <2>1. PICK r \in Recs \cup {None}, to \in {"ok", "failed", "drafting", "creating", "dismissing"} :
           Started(c, r, to)
    BY <1>0, <1>1, Starting
  <2>. QED  BY <1>0, <1>t, <2>1, FollowUpAssumption DEF Started, Begins, Goes, rows, Stages,
        WithRow, Approving, TypeOK
<1>2. ASSUME NEW c \in Calls, Created(c) PROVE Stages'
  BY <1>0, <1>t, <1>2, FollowUpAssumption DEF Created, Create, Goes, Stages, WithRow, Approving,
        TypeOK
<1>3. ASSUME NEW c \in Calls, Continues(c) PROVE Stages'
  <2>1. CASE Updated(c)
    <3>1. UpdateStatus(c)  BY <2>1 DEF Updated
    <3>2. PICK s \in {"pending_review", "approved", "sent", "dismissed"} : UpdatedTo(c, s)
      BY <3>1, Updating
    <3>. QED  BY <1>0, <1>t, <2>1, <3>2 DEF Updated, UpdatedTo, Goes, work, Stages, WithRow,
          Approving, TypeOK
  <2>2. CASE MessageCreated(c)
    BY <1>0, <1>t, <2>2 DEF MessageCreated, CreateMessage, Goes, work, Stages, WithRow,
          Approving, TypeOK
  <2>3. CASE Sent(c) \/ SentUnseen(c)
    BY <1>0, <1>t, <2>3 DEF Sent, SentUnseen, Send, Goes, work, Stages, WithRow, Approving, TypeOK
  <2>4. CASE NotSent(c)
    BY <1>0, <1>t, <2>4 DEF NotSent, Goes, rows, work, Stages, WithRow, Approving, TypeOK
  <2>5. CASE MessageSettled(c)
    BY <1>0, <1>t, <2>5 DEF MessageSettled, SettleMessage, Goes, rows, work, Stages, WithRow,
          Approving, TypeOK
  <2>. QED  BY <1>3, <2>1, <2>2, <2>3, <2>4, <2>5 DEF Continues
<1>4. ASSUME NEW c \in Calls, Fails(c) PROVE Stages'
  <2>1. CASE UpdateStatus(c)
    <3>1. PICK s \in {"pending_review", "approved", "sent", "dismissed"} : UpdatedTo(c, s)
      BY <2>1, Updating
    <3>. QED  BY <1>0, <1>t, <1>4, <3>1 DEF Fails, UpdatedTo, Goes, work, Stages, WithRow,
          Approving, TypeOK
  <2>2. CASE \E r \in Recs : Create(c, r)
    BY <1>0, <1>t, <1>4, <2>2, FollowUpAssumption DEF Fails, Create, Goes, work, Stages,
          WithRow, Approving, TypeOK
  <2>3. CASE Send(c)
    BY <1>0, <1>t, <1>4, <2>3 DEF Fails, Send, Goes, work, Stages, WithRow, Approving, TypeOK
  <2>4. CASE UNCHANGED rows \/ CreateMessage(c) \/ SettleMessage(c)
    BY <1>0, <1>t, <1>4, <2>4 DEF Fails, CreateMessage, SettleMessage, Goes, rows, work, Stages,
          WithRow, Approving, TypeOK
  <2>. QED  BY <1>4, <2>1, <2>2, <2>3, <2>4 DEF Fails
<1>5. CASE UNCHANGED vars
  BY <1>0, <1>5 DEF vars, rows, work, Stages, WithRow, Approving, TypeOK
<1>. QED  BY <1>1, <1>2, <1>3, <1>4, <1>5, StepKinds

\* Nothing is delivered of a recommendation without a row.
LEMMA UnbornStep == ASSUME IndInv, [Next]_vars PROVE Unborn'
<1>0. TypeOK /\ Stages /\ Unborn  BY DEF IndInv
<1>t. TypeOK'  BY TypeStep
<1>1. ASSUME NEW c \in Calls, Starts(c) PROVE Unborn'
  <2>1. PICK r \in Recs \cup {None}, to \in {"ok", "failed", "drafting", "creating", "dismissing"} :
           Started(c, r, to)
    BY <1>0, <1>1, Starting
  <2>. QED  BY <1>0, <1>t, <2>1, FollowUpAssumption DEF Started, Begins, Goes, rows, Unborn,
        Stages, WithRow, Approving, TypeOK
<1>2. ASSUME NEW c \in Calls, Created(c) PROVE Unborn'
  BY <1>0, <1>t, <1>2, FollowUpAssumption DEF Created, Create, Goes, Unborn, Stages, WithRow,
        Approving, TypeOK
<1>3. ASSUME NEW c \in Calls, Continues(c) PROVE Unborn'
  <2>1. CASE Updated(c)
    <3>1. UpdateStatus(c)  BY <2>1 DEF Updated
    <3>2. PICK s \in {"pending_review", "approved", "sent", "dismissed"} : UpdatedTo(c, s)
      BY <3>1, Updating
    <3>. QED  BY <1>0, <1>t, <2>1, <3>2 DEF Updated, UpdatedTo, Goes, work, Unborn, Stages,
          WithRow, Approving, TypeOK
  <2>2. CASE MessageCreated(c)
    BY <1>0, <1>t, <2>2 DEF MessageCreated, CreateMessage, Goes, work, Unborn, Stages, WithRow,
          Approving, TypeOK
  <2>3. CASE Sent(c) \/ SentUnseen(c)
    BY <1>0, <1>t, <2>3 DEF Sent, SentUnseen, Send, Goes, work, Unborn, Stages, WithRow,
          Approving, TypeOK
  <2>4. CASE NotSent(c)
    BY <1>0, <1>t, <2>4 DEF NotSent, Goes, rows, work, Unborn, Stages, WithRow, Approving, TypeOK
  <2>5. CASE MessageSettled(c)
    BY <1>0, <1>t, <2>5 DEF MessageSettled, SettleMessage, Goes, rows, work, Unborn, Stages,
          WithRow, Approving, TypeOK
  <2>. QED  BY <1>3, <2>1, <2>2, <2>3, <2>4, <2>5 DEF Continues
<1>4. ASSUME NEW c \in Calls, Fails(c) PROVE Unborn'
  <2>1. CASE UpdateStatus(c)
    <3>1. PICK s \in {"pending_review", "approved", "sent", "dismissed"} : UpdatedTo(c, s)
      BY <2>1, Updating
    <3>. QED  BY <1>0, <1>t, <1>4, <3>1 DEF Fails, UpdatedTo, Goes, work, Unborn, Stages,
          WithRow, Approving, TypeOK
  <2>2. CASE \E r \in Recs : Create(c, r)
    BY <1>0, <1>t, <1>4, <2>2, FollowUpAssumption DEF Fails, Create, Goes, work, Unborn, Stages,
          WithRow, Approving, TypeOK
  <2>3. CASE Send(c)
    BY <1>0, <1>t, <1>4, <2>3 DEF Fails, Send, Goes, work, Unborn, Stages, WithRow, Approving,
          TypeOK
  <2>4. CASE UNCHANGED rows \/ CreateMessage(c) \/ SettleMessage(c)
    BY <1>0, <1>t, <1>4, <2>4 DEF Fails, CreateMessage, SettleMessage, Goes, rows, work, Unborn,
          Stages, WithRow, Approving, TypeOK
  <2>. QED  BY <1>4, <2>1, <2>2, <2>3, <2>4 DEF Fails
<1>5. CASE UNCHANGED vars
  BY <1>0, <1>5 DEF vars, rows, work, Unborn, Stages, WithRow, Approving, TypeOK
<1>. QED  BY <1>1, <1>2, <1>3, <1>4, <1>5, StepKinds

\* What is marked as sent was delivered before.
LEMMA SentStep == ASSUME IndInv, [Next]_vars PROVE SentWasDelivered'
<1>0. TypeOK /\ Stages /\ SentWasDelivered  BY DEF IndInv
<1>t. TypeOK'  BY TypeStep
<1>1. ASSUME NEW c \in Calls, Starts(c) PROVE SentWasDelivered'
  <2>1. PICK r \in Recs \cup {None}, to \in {"ok", "failed", "drafting", "creating", "dismissing"} :
           Started(c, r, to)
    BY <1>0, <1>1, Starting
  <2>. QED  BY <1>0, <1>t, <2>1, FollowUpAssumption DEF Started, Begins, Goes, rows,
        SentWasDelivered, Stages, WithRow, Approving, TypeOK
<1>2. ASSUME NEW c \in Calls, Created(c) PROVE SentWasDelivered'
  BY <1>0, <1>t, <1>2, FollowUpAssumption DEF Created, Create, Goes, SentWasDelivered, Stages,
        WithRow, Approving, TypeOK
<1>3. ASSUME NEW c \in Calls, Continues(c) PROVE SentWasDelivered'
  <2>1. CASE Updated(c)
    <3>1. UpdateStatus(c)  BY <2>1 DEF Updated
    <3>2. PICK s \in {"pending_review", "approved", "sent", "dismissed"} : UpdatedTo(c, s)
      BY <3>1, Updating
    <3>. QED  BY <1>0, <1>t, <2>1, <3>2 DEF Updated, UpdatedTo, Goes, work, SentWasDelivered,
          Stages, WithRow, Approving, TypeOK
  <2>2. CASE MessageCreated(c)
    BY <1>0, <1>t, <2>2 DEF MessageCreated, CreateMessage, Goes, work, SentWasDelivered, Stages,
          WithRow, Approving, TypeOK
  <2>3. CASE Sent(c) \/ SentUnseen(c)
    <3>1. target[c] \in Recs
      BY <1>0, <2>3 DEF Sent, SentUnseen, Send, Stages, WithRow, Approving
    <3>2. \A r \in Recs : delivered[r] > 0 => delivered'[r] > 0
      BY <1>0, <2>3, <3>1 DEF Sent, SentUnseen, Send, TypeOK
    <3>. QED  BY <1>0, <1>t, <2>3, <3>1, <3>2 DEF Sent, SentUnseen, Send, Goes, work,
          SentWasDelivered, Stages, WithRow, Approving, TypeOK
  <2>4. CASE NotSent(c)
    BY <1>0, <1>t, <2>4 DEF NotSent, Goes, rows, work, SentWasDelivered, Stages, WithRow,
          Approving, TypeOK
  <2>5. CASE MessageSettled(c)
    BY <1>0, <1>t, <2>5 DEF MessageSettled, SettleMessage, Goes, rows, work, SentWasDelivered,
          Stages, WithRow, Approving, TypeOK
  <2>. QED  BY <1>3, <2>1, <2>2, <2>3, <2>4, <2>5 DEF Continues
<1>4. ASSUME NEW c \in Calls, Fails(c) PROVE SentWasDelivered'
  <2>1. CASE UpdateStatus(c)
    <3>1. PICK s \in {"pending_review", "approved", "sent", "dismissed"} : UpdatedTo(c, s)
      BY <2>1, Updating
    <3>. QED  BY <1>0, <1>t, <1>4, <3>1 DEF Fails, UpdatedTo, Goes, work, SentWasDelivered,
          Stages, WithRow, Approving, TypeOK
  <2>2. CASE \E r \in Recs : Create(c, r)
    BY <1>0, <1>t, <1>4, <2>2, FollowUpAssumption DEF Fails, Create, Goes, work,
          SentWasDelivered, Stages, WithRow, Approving, TypeOK
  <2>3. CASE Send(c)
    BY <1>0, <1>t, <1>4, <2>3 DEF Fails, Send, Goes, work, SentWasDelivered, Stages, WithRow,
          Approving, TypeOK
  <2>4. CASE UNCHANGED rows \/ CreateMessage(c) \/ SettleMessage(c)
    BY <1>0, <1>t, <1>4, <2>4 DEF Fails, CreateMessage, SettleMessage, Goes, rows, work,
          SentWasDelivered, Stages, WithRow, Approving, TypeOK
  <2>. QED  BY <1>4, <2>1, <2>2, <2>3, <2>4 DEF Fails
<1>5. CASE UNCHANGED vars
  BY <1>0, <1>5 DEF vars, rows, work, SentWasDelivered, Stages, WithRow, Approving, TypeOK
<1>. QED  BY <1>1, <1>2, <1>3, <1>4, <1>5, StepKinds

\* A second call at work on a recommendation is in `overlapped'.
LEMMA AloneStep == ASSUME IndInv, [Next]_vars PROVE Alone'
<1>0. TypeOK /\ Stages /\ Alone  BY DEF IndInv
<1>t. TypeOK'  BY TypeStep
<1>1. ASSUME NEW c \in Calls, Starts(c) PROVE Alone'
  <2>1. PICK r \in Recs \cup {None}, to \in {"ok", "failed", "drafting", "creating", "dismissing"} :
           Started(c, r, to)
    BY <1>0, <1>1, Starting
  <2>. QED  BY <1>0, <1>t, <2>1, FollowUpAssumption DEF Started, Begins, Goes, rows, Alone,
        Busy, Ended, Stages, WithRow, Approving, TypeOK
<1>2. ASSUME NEW c \in Calls, Created(c) PROVE Alone'
  BY <1>0, <1>t, <1>2, FollowUpAssumption DEF Created, Create, Goes, FollowUpPc, Alone, Busy,
        Ended, Stages, WithRow, Approving, TypeOK
<1>3. ASSUME NEW c \in Calls, Continues(c) PROVE Alone'
  <2>1. CASE Updated(c)
    <3>1. UpdateStatus(c)  BY <2>1 DEF Updated
    <3>2. PICK s \in {"pending_review", "approved", "sent", "dismissed"} : UpdatedTo(c, s)
      BY <3>1, Updating
    <3>. QED  BY <1>0, <1>t, <2>1, <3>2 DEF Updated, UpdatedTo, Goes, work, Alone, Busy, Ended,
          Stages, WithRow, Approving, TypeOK
  <2>2. CASE MessageCreated(c)
    BY <1>0, <1>t, <2>2 DEF MessageCreated, CreateMessage, Goes, work, Alone, Busy, Ended,
          Stages, WithRow, Approving, TypeOK
  <2>3. CASE Sent(c) \/ SentUnseen(c)
    BY <1>0, <1>t, <2>3 DEF Sent, SentUnseen, Send, Goes, work, Alone, Busy, Ended, Stages,
          WithRow, Approving, TypeOK
  <2>4. CASE NotSent(c)
    BY <1>0, <1>t, <2>4 DEF NotSent, Goes, rows, work, Alone, Busy, Ended, Stages, WithRow,
          Approving, TypeOK
  <2>5. CASE MessageSettled(c)
    BY <1>0, <1>t, <2>5 DEF MessageSettled, SettleMessage, Goes, rows, work, Alone, Busy, Ended,
          Stages, WithRow, Approving, TypeOK
  <2>. QED  BY <1>3, <2>1, <2>2, <2>3, <2>4, <2>5 DEF Continues
<1>4. ASSUME NEW c \in Calls, Fails(c) PROVE Alone'
  <2>1. CASE UpdateStatus(c)
    <3>1. PICK s \in {"pending_review", "approved", "sent", "dismissed"} : UpdatedTo(c, s)
      BY <2>1, Updating
    <3>. QED  BY <1>0, <1>t, <1>4, <3>1 DEF Fails, UpdatedTo, Goes, work, Alone, Busy, Ended,
          Stages, WithRow, Approving, TypeOK
  <2>2. CASE \E r \in Recs : Create(c, r)
    BY <1>0, <1>t, <1>4, <2>2, FollowUpAssumption DEF Fails, Create, Goes, work, Alone, Busy,
          Ended, Stages, WithRow, Approving, TypeOK
  <2>3. CASE Send(c)
    BY <1>0, <1>t, <1>4, <2>3 DEF Fails, Send, Goes, work, Alone, Busy, Ended, Stages, WithRow,
          Approving, TypeOK
  <2>4. CASE UNCHANGED rows \/ CreateMessage(c) \/ SettleMessage(c)
    BY <1>0, <1>t, <1>4, <2>4 DEF Fails, CreateMessage, SettleMessage, Goes, rows, work, Alone,
          Busy, Ended, Stages, WithRow, Approving, TypeOK
  <2>. QED  BY <1>4, <2>1, <2>2, <2>3, <2>4 DEF Fails
<1>5. CASE UNCHANGED vars
  BY <1>0, <1>5 DEF vars, rows, work, Alone, Busy, Ended, Stages, WithRow, Approving, TypeOK
<1>. QED  BY <1>1, <1>2, <1>3, <1>4, <1>5, StepKinds

\* One call alone finds its recommendation active.
LEMMA KeptStep == ASSUME IndInv, [Next]_vars PROVE Kept'
<1>0. TypeOK /\ Stages /\ Alone /\ Kept  BY DEF IndInv
<1>t. TypeOK'  BY TypeStep
<1>1. ASSUME NEW c \in Calls, Starts(c) PROVE Kept'
  <2>1. PICK r \in Recs \cup {None}, to \in {"ok", "failed", "drafting", "creating", "dismissing"} :
           Started(c, r, to)
    BY <1>0, <1>1, Starting
  <2>. QED  BY <1>0, <1>t, <2>1, FollowUpAssumption DEF Started, Begins, Goes, rows, Kept,
        Alone, Busy, Ended, Active, Stages, WithRow, Approving, TypeOK
<1>2. ASSUME NEW c \in Calls, Created(c) PROVE Kept'
  BY <1>0, <1>t, <1>2, FollowUpAssumption DEF Created, Create, Goes, Kept, Alone, Busy, Ended,
        Active, Stages, WithRow, Approving, TypeOK
<1>3. ASSUME NEW c \in Calls, Continues(c) PROVE Kept'
  <2>1. CASE Updated(c)
    <3>1. UpdateStatus(c)  BY <2>1 DEF Updated
    <3>2. PICK s \in {"pending_review", "approved", "sent", "dismissed"} : UpdatedTo(c, s)
      BY <3>1, Updating
    <3>. QED  BY <1>0, <1>t, <2>1, <3>2 DEF Updated, UpdatedTo, Goes, work, Kept, Alone, Busy,
          Ended, Active, Stages, WithRow, Approving, TypeOK
  <2>2. CASE MessageCreated(c)
    BY <1>0, <1>t, <2>2 DEF MessageCreated, CreateMessage, Goes, work, Kept, Alone, Busy, Ended,
          Active, Stages, WithRow, Approving, TypeOK
  <2>3. CASE Sent(c) \/ SentUnseen(c)
    BY <1>0, <1>t, <2>3 DEF Sent, SentUnseen, Send, Goes, work, Kept, Alone, Busy, Ended,
          Active, Stages, WithRow, Approving, TypeOK
  <2>4. CASE NotSent(c)
    BY <1>0, <1>t, <2>4 DEF NotSent, Goes, rows, work, Kept, Alone, Busy, Ended, Active, Stages,
          WithRow, Approving, TypeOK
  <2>5. CASE MessageSettled(c)
    BY <1>0, <1>t, <2>5 DEF MessageSettled, SettleMessage, Goes, rows, work, Kept, Alone, Busy,
          Ended, Active, Stages, WithRow, Approving, TypeOK
  <2>. QED  BY <1>3, <2>1, <2>2, <2>3, <2>4, <2>5 DEF Continues
<1>4. ASSUME NEW c \in Calls, Fails(c) PROVE Kept'
  <2>1. CASE UpdateStatus(c)
    <3>1. PICK s \in {"pending_review", "approved", "sent", "dismissed"} : UpdatedTo(c, s)
      BY <2>1, Updating
    <3>. QED  BY <1>0, <1>t, <1>4, <3>1 DEF Fails, UpdatedTo, Goes, work, Kept, Alone, Busy,
          Ended, Active, Stages, WithRow, Approving, TypeOK
  <2>2. CASE \E r \in Recs : Create(c, r)
    BY <1>0, <1>t, <1>4, <2>2, FollowUpAssumption DEF Fails, Create, Goes, work, Kept, Alone,
          Busy, Ended, Active, Stages, WithRow, Approving, TypeOK
  <2>3. CASE Send(c)
    BY <1>0, <1>t, <1>4, <2>3 DEF Fails, Send, Goes, work, Kept, Alone, Busy, Ended, Active,
          Stages, WithRow, Approving, TypeOK
  <2>4. CASE UNCHANGED rows \/ CreateMessage(c) \/ SettleMessage(c)
    BY <1>0, <1>t, <1>4, <2>4 DEF Fails, CreateMessage, SettleMessage, Goes, rows, work, Kept,
          Alone, Busy, Ended, Active, Stages, WithRow, Approving, TypeOK
  <2>. QED  BY <1>4, <2>1, <2>2, <2>3, <2>4 DEF Fails
<1>5. CASE UNCHANGED vars
  BY <1>0, <1>5 DEF vars, rows, work, Kept, Alone, Busy, Ended, Active, Stages, WithRow,
        Approving, TypeOK
<1>. QED  BY <1>1, <1>2, <1>3, <1>4, <1>5, StepKinds

\* What is hidden from a draft without a context stays hidden.
LEMMA Hiding == ASSUME IndInv, [Next]_vars PROVE Hidden \subseteq Hidden'
<1>0. TypeOK  BY DEF IndInv
<1>1. ASSUME NEW c \in Calls, Starts(c) PROVE Hidden \subseteq Hidden'
  <2>1. PICK r \in Recs \cup {None}, to \in {"ok", "failed", "drafting", "creating", "dismissing"} :
           Started(c, r, to)
    BY <1>0, <1>1, Starting
  <2>. QED  BY <2>1 DEF Started, Begins, rows, Hidden
<1>2. ASSUME NEW c \in Calls, Created(c) PROVE Hidden \subseteq Hidden'
  BY <1>2 DEF Created, Create, Remembers, Hidden
<1>3. ASSUME NEW c \in Calls, Continues(c) PROVE Hidden \subseteq Hidden'
  BY <1>3 DEF Continues, Updated, UpdateStatus, MessageCreated, CreateMessage, Sent, NotSent,
        SentUnseen, Send, MessageSettled, SettleMessage, rows, work, Hidden
<1>4. ASSUME NEW c \in Calls, Fails(c) PROVE Hidden \subseteq Hidden'
  BY <1>4 DEF Fails, Create, UpdateStatus, CreateMessage, Send, SettleMessage, Remembers, rows, Hidden
<1>5. CASE UNCHANGED vars
  BY <1>5 DEF vars, rows, work, Hidden
<1>. QED  BY <1>1, <1>2, <1>3, <1>4, <1>5, StepKinds

Appears(c, q) ==
  /\ Drafting(c) /\ c \notin unseen /\ pc'[c] # "drafting"
  /\ status[q] = "none" /\ status' = [status EXCEPT ![q] = "draft"]

\* A row created for a draft is hidden, unless the draft has no context and began
\* while no other was made.
LEMMA Creating ==
  ASSUME TypeOK, NEW c \in Calls, NEW r \in Recs, Create(c, r), Remembers(c, r),
         overlapped' = overlapped, NEW to \in {"publishing", "failed"}, Goes(c, to),
         NEW q \in Recs, q \notin Hidden', Active(q)'
  PROVE  Active(q) \/ Appears(c, q)
<1>1. CASE q # r  BY <1>1 DEF Create, Active, TypeOK
<1>2. CASE q = r
  <2>1. pc[c] = "drafting" /\ status[q] = "none" /\ status' = [status EXCEPT ![q] = "draft"]
    BY <1>2 DEF Create
  <2>2. c \notin unseen /\ context[c] # "" /\ Stored(context[c]) # "custom"
    BY <1>2 DEF Create, Remembers, Hidden
  <2>3. context[c] = "absent"  BY <2>2 DEF Stored, TypeOK, Contexts
  <2>4. pc'[c] # "drafting"  BY DEF Goes, TypeOK
  <2>. QED  BY <2>1, <2>2, <2>3, <2>4 DEF Appears, Drafting
<1>. QED  BY <1>1, <1>2

\* What is not hidden becomes active by such a draft alone.
LEMMA Appearing ==
  ASSUME IndInv, [Next]_vars, NEW q \in Recs, q \notin Hidden', Active(q)'
  PROVE  Active(q) \/ \E c \in Calls : Appears(c, q)
<1>0. TypeOK /\ Stages /\ Kept  BY DEF IndInv
<1>h. q \notin overlapped  BY Hiding DEF Hidden
<1>1. ASSUME NEW c \in Calls, Starts(c) PROVE Active(q)
  <2>1. PICK r \in Recs \cup {None}, to \in {"ok", "failed", "drafting", "creating", "dismissing"} :
           Started(c, r, to)
    BY <1>0, <1>1, Starting
  <2>. QED  BY <2>1 DEF Started, Begins, rows, Active
<1>2. ASSUME NEW c \in Calls, Created(c) PROVE Active(q) \/ Appears(c, q)
  BY <1>0, <1>2, Creating DEF Created
<1>u. ASSUME NEW c \in Calls, UpdateStatus(c) PROVE Active(q)
  <2>1. PICK s \in {"pending_review", "approved", "sent", "dismissed"} : UpdatedTo(c, s)
    BY <1>u, Updating
  <2>2. CASE target[c] # q  BY <1>0, <2>1, <2>2 DEF UpdatedTo, Active, TypeOK
  <2>3. CASE target[c] = q
    <3>1. pc[c] # "dismissing"  BY <1>0, <2>1, <2>3 DEF UpdatedTo, Active, TypeOK
    <3>2. Busy(c, q)  BY <2>1, <2>3 DEF UpdatedTo, Busy, Ended
    <3>. QED  BY <1>0, <1>h, <3>1, <3>2 DEF Kept
  <2>. QED  BY <2>2, <2>3
<1>3. ASSUME NEW c \in Calls, Continues(c) PROVE Active(q)
  <2>1. CASE Updated(c)  BY <1>u, <2>1 DEF Updated
  <2>2. CASE ~Updated(c)
    BY <1>3, <2>2 DEF Continues, MessageCreated, CreateMessage, Sent, NotSent, SentUnseen, Send,
          MessageSettled, SettleMessage, rows, Active
  <2>. QED  BY <2>1, <2>2
<1>4. ASSUME NEW c \in Calls, Fails(c) PROVE Active(q) \/ Appears(c, q)
  <2>1. CASE UpdateStatus(c)  BY <1>u, <2>1
  <2>2. CASE \E r \in Recs : Create(c, r) /\ Remembers(c, r)
    BY <1>0, <1>4, <2>2, Creating DEF Fails
  <2>3. CASE UNCHANGED rows \/ CreateMessage(c) \/ Send(c) \/ SettleMessage(c)
    BY <2>3 DEF CreateMessage, Send, SettleMessage, rows, Active
  <2>. QED  BY <1>4, <2>1, <2>2, <2>3 DEF Fails
<1>5. CASE UNCHANGED vars
  BY <1>5 DEF vars, rows, Active
<1>. QED  BY <1>1, <1>2, <1>3, <1>4, <1>5, StepKinds

Opens(c) ==
  /\ pc[c] = "idle" /\ status' = status /\ \A b \in Calls \ {c} : pc'[b] = pc[b]
  /\ \A q \in Recs \ custom : ~Active(q)
  /\ \A b \in Calls : ~Drafting(b)

\* A draft without a context that began while no other was made still is, or begins now.
LEMMA Drafters ==
  ASSUME IndInv, [Next]_vars, NEW c \in Calls, Drafting(c)', c \notin unseen'
  PROVE  (Drafting(c) \/ Opens(c)) /\ c \notin unseen
<1>0. TypeOK /\ Stages  BY DEF IndInv
<1>1. ASSUME NEW b \in Calls, Starts(b) PROVE (Drafting(c) \/ Opens(c)) /\ c \notin unseen
  <2>1. PICK r \in Recs \cup {None}, to \in {"ok", "failed", "drafting", "creating", "dismissing"} :
           Started(b, r, to)
    BY <1>0, <1>1, Starting
  <2>2. c \notin unseen  BY <2>1 DEF Started
  <2>3. CASE b # c
    BY <1>0, <2>1, <2>2, <2>3 DEF Started, Begins, Goes, Drafting, TypeOK
  <2>4. CASE b = c
    <3>1. to = "drafting" /\ context'[c] = "absent"
      BY <1>0, <2>1, <2>4 DEF Started, Begins, Goes, Drafting, TypeOK
    <3>2. pc[c] = "idle" /\ status' = status /\ \A d \in Calls \ {c} : pc'[d] = pc[d]
      BY <1>0, <2>1, <2>4 DEF Started, Begins, Goes, rows, TypeOK
    <3>. QED  BY <2>1, <2>2, <2>4, <3>1, <3>2 DEF Started, Opens
  <2>. QED  BY <2>3, <2>4
<1>2. ASSUME NEW b \in Calls, Created(b) \/ Fails(b) PROVE Drafting(c) /\ c \notin unseen
  BY <1>0, <1>2 DEF Created, Fails, Remembers, Goes, Drafting, TypeOK
<1>3. ASSUME NEW b \in Calls, Continues(b) PROVE Drafting(c) /\ c \notin unseen
  <2>1. PICK to : Goes(b, to) /\ UNCHANGED work /\ to # "drafting"
    <3>1. CASE Updated(b)
      <4>1. UpdateStatus(b)  BY <3>1 DEF Updated
      <4>. QED  BY <3>1, <4>1, Updating DEF Updated, UpdatedTo
    <3>2. CASE MessageSettled(b)
      <4>1. (IF pc[b] = "settling" THEN "marking" ELSE "failed") # "drafting"  OBVIOUS
      <4>. QED  BY <3>2, <4>1 DEF MessageSettled
    <3>3. CASE MessageCreated(b) \/ Sent(b) \/ NotSent(b) \/ SentUnseen(b)
      BY <3>3 DEF MessageCreated, Sent, NotSent, SentUnseen
    <3>. QED  BY <1>3, <3>1, <3>2, <3>3 DEF Continues
  <2>. QED  BY <1>0, <2>1 DEF Goes, work, Drafting, TypeOK
<1>5. CASE UNCHANGED vars
  BY <1>5 DEF vars, work, Drafting
<1>. QED  BY <1>1, <1>2, <1>3, <1>5, StepKinds

\* While a call drafts without a context there is nothing to act on.
LEMMA ClearStep == ASSUME IndInv, [Next]_vars PROVE Clear'
<1>0. TypeOK /\ Clear  BY DEF IndInv
<1>. SUFFICES ASSUME NEW c \in Calls, Drafting(c)', c \notin unseen'
              PROVE  /\ \A q \in Recs \ Hidden' : ~Active(q)'
                     /\ \A b \in Calls : Drafting(b)' /\ b \notin unseen' => b = c
  BY DEF Clear
<1>1. c \notin unseen /\ (Drafting(c) \/ Opens(c))  BY Drafters
<1>2. CASE Drafting(c)
  <2>1. ASSUME NEW q \in Recs \ Hidden', Active(q)' PROVE FALSE
    <3>1. ~Active(q)  BY <1>0, <1>1, <1>2, Hiding DEF Clear
    <3>2. PICK b \in Calls : Appears(b, q)  BY <2>1, <3>1, Appearing
    <3>3. b = c  BY <1>0, <1>1, <1>2, <3>2 DEF Clear, Appears
    <3>. QED  BY <3>2, <3>3 DEF Appears, Drafting
  <2>2. ASSUME NEW b \in Calls, Drafting(b)', b \notin unseen' PROVE b = c
    <3>1. b \notin unseen /\ (Drafting(b) \/ Opens(b))  BY <2>2, Drafters
    <3>2. ~Opens(b)  BY <1>2 DEF Opens
    <3>. QED  BY <1>0, <1>1, <1>2, <3>1, <3>2 DEF Clear
  <2>. QED  BY <2>1, <2>2
<1>3. CASE Opens(c)
  <2>1. ASSUME NEW q \in Recs \ Hidden' PROVE ~Active(q)'
    <3>1. q \notin custom  BY Hiding DEF Hidden
    <3>. QED  BY <1>3, <3>1 DEF Opens, Active
  <2>2. ASSUME NEW b \in Calls, Drafting(b)', b \notin unseen', b # c PROVE FALSE
    <3>1. pc'[b] = pc[b] /\ pc'[b] = "drafting" /\ ~Drafting(b)
      BY <1>3, <2>2 DEF Opens, Drafting
    <3>2. Opens(b)  BY <2>2, <3>1, Drafters
    <3>. QED  BY <3>1, <3>2 DEF Opens
  <2>. QED  BY <2>1, <2>2
<1>. QED  BY <1>1, <1>2, <1>3

\* Hence one recommendation at most to act on.
LEMMA OneStep == ASSUME IndInv, [Next]_vars PROVE OneToActOnApart'
<1>0. TypeOK /\ Clear /\ OneToActOnApart  BY DEF IndInv
<1>. SUFFICES ASSUME NEW q \in Recs \ Hidden', NEW r \in Recs \ Hidden', Active(q)', Active(r)'
              PROVE  q = r
  BY DEF OneToActOnApart, Hidden
<1>h. q \notin Hidden /\ r \notin Hidden  BY Hiding
<1>a. ASSUME NEW c \in Calls, NEW x \in Recs \ Hidden', NEW y \in Recs \ Hidden',
             Appears(c, x), Active(y)'
      PROVE  x = y
  <2>1. ~Active(y)  BY <1>0, <1>a, Hiding DEF Clear, Appears
  <2>. QED  BY <1>0, <1>a, <2>1 DEF Appears, Active, TypeOK
<1>1. CASE Active(q) /\ Active(r)
  BY <1>0, <1>1, <1>h DEF OneToActOnApart, Hidden
<1>2. CASE \E c \in Calls : Appears(c, q)  BY <1>2, <1>a
<1>3. CASE \E c \in Calls : Appears(c, r)  BY <1>3, <1>a
<1>. QED  BY <1>1, <1>2, <1>3, Appearing

\* A recommendation that one call at a time works on is delivered once and once
\* more per fault, and then only settled.
LEMMA OnceStep == ASSUME IndInv, [Next]_vars PROVE Once'
<1>0. TypeOK /\ Stages /\ Unborn /\ Alone /\ Kept /\ Once  BY DEF IndInv
<1>t. TypeOK'  BY TypeStep
<1>n. \A r \in Recs : delivered[r] \in Nat /\ faults \in Nat  BY <1>0 DEF TypeOK
<1>s. ASSUME NEW c \in Calls, Send(c), target[c] \notin overlapped
      PROVE  delivered[target[c]] <= faults
  <2>1. target[c] \in Recs /\ Busy(c, target[c]) /\ pc[c] = "sending"
    BY <1>0, <1>s DEF Send, Stages, WithRow, Approving, Busy, Ended
  <2>2. Active(target[c]) /\ \A b \in Calls : Busy(b, target[c]) => b = c
    BY <1>0, <1>s, <2>1 DEF Kept, Alone
  <2>3. ~Done(target[c])  BY <2>1, <2>2 DEF Done, Settled, Active
  <2>. QED  BY <1>0, <1>s, <2>1, <2>3 DEF Once
<1>f. ASSUME NEW c \in Calls, Fault, overlapped' = overlapped, delivered' = delivered \/ Send(c)
      PROVE  Once'
  <2>1. faults' = faults + 1  BY <1>f DEF Fault
  <2>2. ASSUME NEW r \in Recs \ overlapped PROVE delivered'[r] <= faults + 1
    <3>1. CASE delivered' = delivered  BY <1>0, <1>n, <3>1 DEF Once
    <3>2. CASE Send(c) /\ target[c] # r  BY <1>0, <1>n, <3>2 DEF Once, Send, TypeOK
    <3>3. CASE Send(c) /\ target[c] = r
      <4>1. delivered[r] <= faults  BY <1>s, <2>2, <3>3
      <4>2. delivered'[r] = delivered[r] + 1  BY <1>0, <3>3 DEF Send, TypeOK
      <4>. QED  BY <1>n, <4>1, <4>2
    <3>. QED  BY <1>f, <3>1, <3>2, <3>3
  <2>. QED  BY <1>f, <2>1, <2>2 DEF Once
<1>1. ASSUME NEW c \in Calls, Starts(c) PROVE Once'
  <2>1. PICK r \in Recs \cup {None}, to \in {"ok", "failed", "drafting", "creating", "dismissing"} :
           Started(c, r, to)
    BY <1>0, <1>1, Starting
  <2>. QED  BY <1>0, <1>t, <2>1 DEF Started, Begins, Goes, rows, Once, Done, Settled, Busy,
        Ended, TypeOK
<1>2. ASSUME NEW c \in Calls, Created(c) PROVE Once'
  BY <1>0, <1>t, <1>2, FollowUpAssumption DEF Created, Create, Goes, Once, Done, Settled, Busy,
        Ended, Stages, Unborn, TypeOK
<1>3. ASSUME NEW c \in Calls, Updated(c) PROVE Once'
  <2>1. UpdateStatus(c)  BY <1>3 DEF Updated
  <2>2. PICK s \in {"pending_review", "approved", "sent", "dismissed"} : UpdatedTo(c, s)
    BY <2>1, Updating
  <2>3. target[c] \in Recs /\ Busy(c, target[c])
    BY <1>0, <2>2 DEF UpdatedTo, Stages, WithRow, Approving, Busy, Ended
  <2>. QED  BY <1>0, <1>t, <1>3, <2>2, <2>3 DEF Updated, UpdatedTo, Goes, work, Once, Done,
        Settled, Active, Alone, Kept, Busy, Ended, TypeOK
<1>4. ASSUME NEW c \in Calls, Sent(c) PROVE Once'
  <2>1. /\ target[c] \in Recs /\ Busy(c, target[c]) /\ pc[c] = "sending"
        /\ status' = status /\ target' = target /\ overlapped' = overlapped /\ faults' = faults
        /\ pc' = [pc EXCEPT ![c] = "settling"]
    BY <1>0, <1>4 DEF Sent, Send, Goes, work, Stages, WithRow, Approving, Busy, Ended
  <2>2. ASSUME NEW r \in Recs \ overlapped
        PROVE  delivered'[r] <= faults \/ (delivered'[r] <= faults + 1 /\ Done(r)')
    <3>1. CASE r = target[c]
      <4>1. delivered[r] <= faults
        BY <1>4, <1>s, <2>2, <3>1 DEF Sent
      <4>2. delivered'[r] = delivered[r] + 1
        BY <1>0, <1>4, <3>1 DEF Sent, Send, TypeOK
      <4>3. Busy(c, r)' /\ pc'[c] = "settling"
        BY <1>0, <2>1, <3>1 DEF Busy, Ended, TypeOK
      <4>. QED  BY <1>n, <4>1, <4>2, <4>3 DEF Done
    <3>2. CASE r # target[c]
      <4>1. delivered'[r] = delivered[r]
        BY <1>0, <1>4, <3>2 DEF Sent, Send, TypeOK
      <4>2. Done(r) => Done(r)'
        BY <1>0, <2>1, <3>2 DEF Done, Settled, Busy, Ended, TypeOK
      <4>. QED  BY <1>0, <2>2, <4>1, <4>2 DEF Once
    <3>. QED  BY <3>1, <3>2
  <2>. QED  BY <2>1, <2>2 DEF Once
<1>5. ASSUME NEW c \in Calls, MessageCreated(c) \/ NotSent(c) PROVE Once'
  BY <1>0, <1>5 DEF MessageCreated, CreateMessage, NotSent, Goes, rows, work, Once, Done,
        Settled, Busy, Ended, TypeOK
<1>6. ASSUME NEW c \in Calls, MessageSettled(c), faults' = faults PROVE Once'
  <2>1. pc[c] \in {"settling", "unsent"} /\ UNCHANGED <<status, delivered, target, overlapped>>
    BY <1>6 DEF MessageSettled, SettleMessage, rows, work
  <2>2. pc' = [pc EXCEPT ![c] = IF pc[c] = "settling" THEN "marking" ELSE "failed"]
    BY <1>6 DEF MessageSettled, Goes
  <2>. QED  BY <1>0, <1>6, <2>1, <2>2 DEF Once, Done, Settled, Busy, Ended, TypeOK
<1>7. CASE UNCHANGED vars
  BY <1>0, <1>7 DEF vars, rows, work, Once, Done, Settled, Busy, Ended
<1>8. ASSUME NEW c \in Calls, Continues(c) PROVE Once'
  <2>1. CASE SentUnseen(c)  BY <1>f, <2>1 DEF SentUnseen, work
  <2>2. CASE MessageSettled(c)
    <3>1. overlapped' = overlapped /\ delivered' = delivered /\ (faults' = faults \/ Fault)
      BY <2>2 DEF MessageSettled, SettleMessage, rows, work
    <3>. QED  BY <1>f, <1>6, <2>2, <3>1
  <2>. QED  BY <1>3, <1>4, <1>5, <1>8, <2>1, <2>2 DEF Continues
<1>9. ASSUME NEW c \in Calls, Fails(c) PROVE Once'
  <2>1. Fault /\ overlapped' = overlapped  BY <1>9 DEF Fails
  <2>2. delivered' = delivered \/ Send(c)
    BY <1>9 DEF Fails, Create, UpdateStatus, CreateMessage, SettleMessage, rows
  <2>. QED  BY <1>f, <2>1, <2>2
<1>. QED  BY <1>1, <1>2, <1>7, <1>8, <1>9, StepKinds

-----------------------------------------------------------------------------
\* Hence the inductive invariant holds throughout.
LEMMA Inductive == Spec => []IndInv
<1>1. IndInv /\ [Next]_vars => IndInv'
  BY TypeStep, StagesStep, UnbornStep, SentStep, AloneStep, KeptStep, OnceStep, ClearStep,
        OneStep DEF IndInv
<1>. QED  BY Initially, <1>1, PTL DEF Spec

\* Every variable keeps its type: no call writes a status there is none of.
THEOREM TypeCorrect == Spec => []TypeOK
<1>1. IndInv => TypeOK  BY DEF IndInv
<1>. QED  BY Inductive, <1>1, PTL

\* What counts as sent was delivered.
THEOREM SentIsDelivered == Spec => []SentWasDelivered
<1>1. IndInv => SentWasDelivered  BY DEF IndInv
<1>. QED  BY Inductive, <1>1, PTL

\* A recommendation that one call at a time has worked on is delivered once, and
\* once more per failed request at most.
THEOREM DeliveredOnce == Spec => []DeliveredOnceApart
<1>1. IndInv => DeliveredOnceApart
  <2>1. ASSUME TypeOK, Once, NEW r \in Recs \ overlapped PROVE delivered[r] <= 1 + faults
    <3>1. delivered[r] \in Nat /\ faults \in Nat  BY <2>1 DEF TypeOK
    <3>. QED  BY <2>1, <3>1 DEF Once
  <2>. QED  BY <2>1 DEF IndInv, DeliveredOnceApart
<1>. QED  BY Inductive, <1>1, PTL

\* There is one recommendation without a context to act on, and one more at most per
\* draft that began while another was made, per empty context and per recommendation
\* that overlapping calls brought back.
THEOREM OneToActOn == Spec => []OneToActOnApart
<1>1. IndInv => OneToActOnApart  BY DEF IndInv
<1>. QED  BY Inductive, <1>1, PTL

SettledStays == \A r \in Recs : Settled(r) /\ Quiet(r) =>
  (Settled(r) /\ Quiet(r))' /\ delivered'[r] = delivered[r]

\* No step of any call sends or reopens what is settled and quiet.
LEMMA SettledStep == ASSUME IndInv, [Next]_vars PROVE SettledStays
<1>0. TypeOK /\ Stages  BY DEF IndInv
<1>. SUFFICES ASSUME NEW r \in Recs, Settled(r), Quiet(r)
              PROVE  (Settled(r) /\ Quiet(r))' /\ delivered'[r] = delivered[r]
  BY DEF SettledStays
<1>1. ASSUME NEW c \in Calls, Starts(c)
      PROVE  (Settled(r) /\ Quiet(r))' /\ delivered'[r] = delivered[r]
  <2>1. PICK q \in Recs \cup {None}, to \in {"ok", "failed", "drafting", "creating", "dismissing"} :
           Started(c, q, to)
    BY <1>0, <1>1, Starting
  <2>. QED  BY <1>0, <2>1, FollowUpAssumption DEF Started, Begins, Goes, rows, Settled, Quiet,
        Busy, Ended, Active, TypeOK
<1>2. ASSUME NEW c \in Calls, UpdateStatus(c), Goes(c, "failed") \/ Updated(c), target' = target
      PROVE  (Settled(r) /\ Quiet(r))' /\ delivered'[r] = delivered[r]
  <2>1. PICK s \in {"pending_review", "approved", "sent", "dismissed"} : UpdatedTo(c, s)
    BY <1>2, Updating
  <2>. QED  BY <1>0, <1>2, <2>1 DEF Updated, UpdatedTo, Goes, work, Settled, Quiet, Busy, Ended,
        TypeOK
<1>3. ASSUME NEW c \in Calls, Created(c)
      PROVE  (Settled(r) /\ Quiet(r))' /\ delivered'[r] = delivered[r]
  BY <1>0, <1>3 DEF Created, Create, Goes, Settled, Quiet, Busy, Ended, TypeOK
<1>4. ASSUME NEW c \in Calls, Send(c), NEW to, Goes(c, to), target' = target
      PROVE  (Settled(r) /\ Quiet(r))' /\ delivered'[r] = delivered[r]
  <2>1. target[c] # r
    BY <1>4 DEF Send, Quiet, Busy, Ended
  <2>. QED  BY <1>0, <1>4, <2>1 DEF Send, Goes, work, Settled, Quiet, Busy, Ended, TypeOK
<1>5. ASSUME NEW c \in Calls, NEW to, Goes(c, to), pc[c] # "idle", ~Ended(c), to = "failed" \/ pc[c] # "dismissing",
             UNCHANGED <<status, delivered, target>>
      PROVE  (Settled(r) /\ Quiet(r))' /\ delivered'[r] = delivered[r]
  BY <1>0, <1>5 DEF Goes, work, Settled, Quiet, Busy, Ended, TypeOK
<1>6. ASSUME NEW c \in Calls, Continues(c)
      PROVE  (Settled(r) /\ Quiet(r))' /\ delivered'[r] = delivered[r]
  <2>1. CASE Updated(c)
    BY <1>2, <2>1 DEF Updated, work
  <2>2. CASE Sent(c) \/ SentUnseen(c)
    BY <1>4, <2>2 DEF Sent, SentUnseen, work
  <2>3. CASE MessageCreated(c) \/ NotSent(c) \/ MessageSettled(c)
    BY <1>5, <2>3 DEF MessageCreated, CreateMessage, NotSent, MessageSettled, SettleMessage,
          rows, work, Ended
  <2>. QED  BY <1>6, <2>1, <2>2, <2>3 DEF Continues
<1>7. ASSUME NEW c \in Calls, Fails(c)
      PROVE  (Settled(r) /\ Quiet(r))' /\ delivered'[r] = delivered[r]
  <2>1. CASE UNCHANGED rows \/ CreateMessage(c) \/ SettleMessage(c)
    BY <1>5, <1>7, <2>1 DEF Fails, CreateMessage, SettleMessage, rows
  <2>2. CASE UpdateStatus(c)
    BY <1>2, <1>7, <2>2 DEF Fails
  <2>3. CASE Send(c)
    BY <1>4, <1>7, <2>3 DEF Fails
  <2>4. CASE \E q \in Recs : Create(c, q)
    <3>1. PICK q \in Recs : Create(c, q)
      BY <2>4
    <3>2. Goes(c, "failed") /\ target' = target
      BY <1>7 DEF Fails
    <3>. QED  BY <1>0, <3>1, <3>2 DEF Create, Goes, Settled, Quiet, Busy, Ended, TypeOK
  <2>. QED  BY <1>7, <2>1, <2>2, <2>3, <2>4 DEF Fails
<1>8. CASE UNCHANGED vars
  BY <1>8 DEF vars, rows, work, Settled, Quiet, Busy, Ended
<1>. QED  BY <1>1, <1>3, <1>6, <1>7, <1>8, StepKinds

\* A follow-up that is sent or dismissed, with no approval or draft of it under
\* way, is never sent again.
THEOREM SettledStaysForGood == Spec => SettledForGood
<1>1. IndInv /\ [Next]_vars => [SettledStays]_vars  BY SettledStep
<1>2. [][SettledStays]_vars => SettledForGood  BY PTL DEF SettledStays, SettledForGood
<1>. QED  BY Inductive, <1>1, <1>2, PTL DEF Spec

==============================================================================
